----------------------------- MODULE VenueSession -----------------------------
(***************************************************************************)
(* The private session of a live venue: the reconnecting WebSocket with    *)
(* its application heartbeat (src/infrastructure/reconnecting_websocket    *)
(* .cpp, include/abex/infrastructure/application_heartbeat.hpp), and how   *)
(* an adapter becomes ready on it and issues requests through it           *)
(* (src/infrastructure/binance_adapter.cpp, okx_adapter.cpp).              *)
(*                                                                         *)
(* The handlers of the socket run one after another on the io thread: each *)
(* is one action.  send() of another thread posts a handler, and posts run *)
(* in order.  Binance asks for the server time, then subscribes; callers   *)
(* and the clock thread share its table of requests.  OKX logs in, then    *)
(* subscribes, and sends heartbeats; its commands go over REST.  Handlers  *)
(* of a socket that was closed do nothing: they run before the reconnect   *)
(* timer, 250 ms or more later.  Payloads, signatures and execution        *)
(* reports are left out.                                                   *)
(***************************************************************************)
EXTENDS Integers, Sequences, FiniteSets, SequencesExt

CONSTANTS Venues,        \* which adapters are tried
          Callers,       \* threads with commands (Binance)
          MaxRequests,   \* bound on the requests of a caller
          MaxOutbound,   \* maximum_outbound_messages
          MaxFaults      \* bound on broken connections, late pongs and rejections

ASSUME BoundsAssumption ==
    MaxRequests \in Nat /\ MaxOutbound \in Nat \ {0} /\ MaxFaults \in Nat

VARIABLES
    venue,      \* the adapter of this session
    ws,         \* stage of the connection, write_in_progress_, the heartbeat
    posted,     \* messages in handlers posted by send() and not yet run
    outbound,   \* outbound_
    count,      \* outbound_count_
    wire,       \* written and not yet answered by the venue
    inbox,      \* answers not yet read
    peer,       \* the venue's end: alive, logged in, subscribed; OKX has refused it
    adapter,    \* subscribed_ / authenticated_, request ids, readiness_error_, the clock
    told,       \* what the gateway was told last by the connection callback
    pending,    \* pending_: callers whose request waits for an answer
    caller,     \* where each caller is, and how its request ended
    clock,      \* the clock-sync thread
    stopping,   \* progress of stop()
    written,    \* how often each request was handed to a socket
    faults

vars == <<venue, ws, posted, outbound, count, wire, inbox, peer, adapter, told, pending, caller,
          clock, stopping, written, faults>>
socketVars == <<ws, posted, outbound, count, wire, inbox>>
threadVars == <<caller, clock, stopping>>

Requests == Callers \X (1 .. MaxRequests)
Kinds == {"time", "subscribe", "login", "ping", "request"}
\* A message: `live' while its id is the one the adapter waits for.
Message(kind, id) == [kind |-> kind, id |-> id, live |-> TRUE]
NoId == <<>>
Closed == [stage |-> "waiting", writing |-> FALSE, timer |-> "off", awaiting |-> FALSE]
NotReady == [subscribed |-> FALSE, requested |-> FALSE, error |-> FALSE, clock |-> FALSE]
NewPeer == [alive |-> TRUE, loggedIn |-> FALSE, accepted |-> FALSE, refused |-> FALSE]
Done == [pc |-> "idle", n |-> 0, promise |-> "none", outcome |-> "none"]

\* The types, and the stages of the threads.
TypeOK ==
    /\ ws.stage \in {"connecting", "open", "waiting", "stopped"}
    /\ ws.timer \in {"off", "idle", "timeout"} /\ ws.awaiting \in BOOLEAN
    /\ \A m \in ToSet(posted) \cup ToSet(outbound) \cup ToSet(wire) : m.kind \in Kinds
    /\ count \in 0 .. MaxOutbound + 1
    /\ ws.writing => ws.stage = "open" /\ outbound # <<>>
    /\ pending \subseteq Callers
    /\ \A c \in Callers : caller[c].pc \in {"idle", "sign", "again", "enlist", "send", "wait", "erase"}
    /\ clock \in {"idle", "name", "send", "joined"}
    /\ stopping \in {"no", "posted", "io", "done"}

Init ==
    /\ venue \in Venues
    /\ ws = [Closed EXCEPT !.stage = "connecting"]
    /\ posted = <<>> /\ outbound = <<>> /\ count = 0 /\ wire = <<>> /\ inbox = <<>>
    /\ peer = NewPeer
    /\ adapter = NotReady /\ told = FALSE
    /\ pending = {} /\ caller = [c \in Callers |-> Done]
    /\ clock = "idle" /\ stopping = "no"
    /\ written = [r \in Requests |-> 0]
    /\ faults = 0
-----------------------------------------------------------------------------
(* send and the handlers of the socket *)

\* send(): refused when stopping or when the queue is full.
CanSend == stopping = "no" /\ count < MaxOutbound
SendNow(m) ==
    IF CanSend THEN posted' = Append(posted, m) /\ count' = count + 1
    ELSE UNCHANGED <<posted, count>>

\* write_next: the head of the queue is handed to the socket; it stays in the queue until written.
Write(w, queue) == [w EXCEPT !.writing = w.stage = "open" /\ queue # <<>>]
HandOver(w, queue) ==
    IF w.writing /\ Head(queue).kind = "request"
    THEN written' = [written EXCEPT ![Head(queue).id] = @ + 1] ELSE UNCHANGED written

RunPosted ==
    /\ posted # <<>> /\ ws.stage # "stopped"
    /\ posted' = Tail(posted)
    /\ IF stopping # "no"
       THEN count' = count - 1 /\ UNCHANGED <<outbound, ws, written>>
       ELSE /\ outbound' = Append(outbound, Head(posted))
            /\ IF ws.writing THEN UNCHANGED <<ws, written>>
               ELSE ws' = Write(ws, outbound') /\ HandOver(ws', outbound')
            /\ UNCHANGED count
    /\ UNCHANGED <<venue, wire, inbox, peer, adapter, told, pending, threadVars, faults>>
WriteDone ==
    /\ ws.writing
    /\ outbound' = Tail(outbound) /\ count' = count - 1
    /\ LET m == Head(outbound) IN
        /\ wire' = IF peer.alive THEN Append(wire, m) ELSE wire
        /\ ws' = Write([ws EXCEPT !.awaiting = @ \/ m.kind = "ping",
                                  !.timer = IF m.kind = "ping" THEN "timeout" ELSE @], outbound')
    /\ HandOver(ws', outbound')
    /\ UNCHANGED <<venue, posted, inbox, peer, adapter, told, pending, threadVars, faults>>
-----------------------------------------------------------------------------
(* The adapters' callbacks, on the io thread *)

\* A new id: answers to the former one are no longer waited for.
Outdated(queue, kind) ==
    [i \in 1 .. Len(queue) |-> IF queue[i].kind = kind THEN [queue[i] EXCEPT !.live = FALSE] ELSE queue[i]]

FailPending ==
    /\ caller' = [c \in Callers |-> IF c \in pending /\ caller[c].promise = "none"
                                    THEN [caller[c] EXCEPT !.promise = "failed"] ELSE caller[c]]
    /\ pending' = {}
\* websocket_connection(false): the table of requests fails with the connection.
SessionLost ==
    /\ adapter' = [adapter EXCEPT !.subscribed = FALSE, !.error = TRUE, !.clock = FALSE]
    /\ told' = FALSE
    /\ FailPending

\* Mutants: the queue survives; the counter does not follow; the write stays in progress.
Fail_KeepsQueue ==
    /\ ws' = Closed /\ wire' = <<>> /\ inbox' = <<>> /\ peer' = NewPeer
    /\ UNCHANGED <<outbound, count>>
    /\ IF ws.stage = "open" THEN SessionLost ELSE UNCHANGED <<adapter, told, caller, pending>>
    /\ UNCHANGED <<venue, posted, clock, stopping, written>>
\* fail: the queue is dropped, the connection is declared lost, a timer will reconnect.
Fail ==
    /\ ws' = Closed /\ wire' = <<>> /\ inbox' = <<>> /\ peer' = NewPeer
    /\ outbound' = <<>> /\ count' = count - Len(outbound)
    /\ IF ws.stage = "open" THEN SessionLost ELSE UNCHANGED <<adapter, told, caller, pending>>
    /\ UNCHANGED <<venue, posted, clock, stopping, written>>

\* A read, a write, the name resolution or a handshake ends with an error.  The login that on_open
\* posts runs before the first operation started after it can end.
ConnectionBreaks ==
    /\ ws.stage \in {"connecting", "open"} /\ stopping = "no" /\ faults < MaxFaults
    /\ \A m \in ToSet(posted) : m.kind # "login"
    /\ faults' = faults + 1
    /\ Fail
\* The peer vanishes without a word, with what is on the wire.  Writes still succeed; that the
\* kernel gives up on unacknowledged data, minutes later, is one of the errors above.
PeerDies ==
    /\ ws.stage = "open" /\ peer.alive /\ faults < MaxFaults
    /\ faults' = faults + 1
    /\ peer' = [peer EXCEPT !.alive = FALSE]
    /\ wire' = <<>>
    /\ UNCHANGED <<venue, ws, posted, outbound, count, inbox, adapter, told, pending, threadVars, written>>

ReconnectTimer ==
    /\ ws.stage = "waiting" /\ stopping = "no"
    /\ ws' = [ws EXCEPT !.stage = "connecting"]
    /\ UNCHANGED <<venue, posted, outbound, count, wire, inbox, peer, adapter, told, pending,
                   threadVars, written, faults>>

\* Only OKX configures an application heartbeat; the socket itself has no idle timeout.
Heartbeats == venue = "OKX"
Superseded(queue) == Outdated(Outdated(queue, "time"), "subscribe")
\* Mutant: an open socket is reported as a ready venue.
Opened_TellsReady ==
    /\ ws.stage = "connecting" /\ stopping = "no"
    /\ LET greeting == Message(IF venue = "OKX" THEN "login" ELSE "time", NoId) IN
        /\ posted' = Superseded(posted) \o (IF CanSend THEN <<greeting>> ELSE <<>>)
        /\ count' = IF CanSend THEN count + 1 ELSE count
        /\ outbound' = Superseded(outbound)
    /\ ws' = Write([ws EXCEPT !.stage = "open", !.timer = IF Heartbeats THEN "idle" ELSE "off"],
                   outbound')
    /\ HandOver(ws', outbound')
    /\ adapter' = IF venue = "OKX" THEN adapter ELSE NotReady
    /\ told' = TRUE
    /\ UNCHANGED <<venue, wire, inbox, peer, pending, threadVars, faults>>
\* The WebSocket handshake is done: on_open, the first read, the queue, the heartbeat.
Opened ==
    /\ ws.stage = "connecting" /\ stopping = "no"
    /\ LET greeting == Message(IF venue = "OKX" THEN "login" ELSE "time", NoId) IN
        /\ posted' = Superseded(posted) \o (IF CanSend THEN <<greeting>> ELSE <<>>)
        /\ count' = IF CanSend THEN count + 1 ELSE count
        /\ outbound' = Superseded(outbound)
    /\ ws' = Write([ws EXCEPT !.stage = "open", !.timer = IF Heartbeats THEN "idle" ELSE "off"],
                   outbound')
    /\ HandOver(ws', outbound')
    /\ adapter' = IF venue = "OKX" THEN adapter ELSE NotReady
    /\ UNCHANGED told
    /\ UNCHANGED <<venue, wire, inbox, peer, pending, threadVars, faults>>

\* The heartbeat timer: a ping, or the end of a connection whose pong is missing.  It takes seconds,
\* longer than the posted handlers and the writing of a ping.
HeartbeatSends ==
    /\ ws.stage = "open" /\ ws.timer = "idle" /\ ~ws.awaiting /\ stopping = "no"
    /\ posted = <<>> /\ ToSet(outbound) \cap {Message("ping", NoId)} = {}
    /\ outbound' = Append(outbound, Message("ping", NoId)) /\ count' = count + 1
    /\ ws' = Write([ws EXCEPT !.timer = "off"], outbound')
    /\ UNCHANGED <<venue, posted, wire, inbox, peer, adapter, told, pending, threadVars, written, faults>>
TimedOut == ws.timer = "timeout" /\ ws.awaiting
HeartbeatTimeout ==
    /\ ws.stage = "open" /\ TimedOut /\ stopping = "no" /\ posted = <<>>
    /\ ~peer.alive \/ faults < MaxFaults
    /\ faults' = IF peer.alive THEN faults + 1 ELSE faults
    /\ Fail
-----------------------------------------------------------------------------
(* The venue's answers, and what the adapter makes of them *)

\* External: the venue answers in order; it may refuse, and OKX refuses what comes before the login.
VenueAnswers(ok) ==
    /\ wire # <<>> /\ peer.alive /\ ws.stage = "open"
    /\ LET m == Head(wire)
           early == venue = "OKX" /\ m.kind = "subscribe" /\ ~peer.loggedIn IN
        /\ ~ok => m.kind \in {"time", "subscribe", "login"} /\ (early \/ faults < MaxFaults)
        /\ ok => ~early
        /\ faults' = IF ok \/ early THEN faults ELSE faults + 1
        /\ inbox' = Append(inbox, [kind |-> m.kind, id |-> m.id, live |-> m.live, ok |-> ok])
        /\ peer' = [peer EXCEPT !.loggedIn = @ \/ (m.kind = "login" /\ ok),
                                !.refused = @ \/ (venue = "OKX" /\ ~ok /\ ~early),
                                !.accepted = @ \/ (m.kind = "subscribe" /\ ok)]
    /\ wire' = Tail(wire)
    /\ UNCHANGED <<venue, ws, posted, outbound, count, adapter, told, pending, threadVars, written>>

\* Any message re-arms the idle timer, unless a pong is missing.
Heard(kind) ==
    LET awaiting == ws.awaiting /\ kind # "ping"
    IN  [ws EXCEPT !.awaiting = awaiting, !.timer = IF Heartbeats /\ ~awaiting THEN "idle" ELSE @]
Read(kinds) ==
    /\ inbox # <<>> /\ ws.stage = "open" /\ stopping = "no"
    /\ Head(inbox).kind \in kinds
    /\ inbox' = Tail(inbox)
    /\ ws' = Heard(Head(inbox).kind)
    /\ UNCHANGED <<venue, outbound, wire, peer, clock, stopping, written, faults>>
Answer == Head(inbox)

ReadPong ==
    /\ Read({"ping"})
    /\ UNCHANGED <<posted, count, adapter, told, pending, caller>>

\* websocket_message of Binance: the answer to the latest time request sets the clock and
\* starts the subscription.
BinanceTime ==
    /\ venue = "Binance" /\ Read({"time"})
    /\ CASE ~Answer.live -> UNCHANGED <<adapter, told, posted, count>>
         [] Answer.live /\ ~Answer.ok ->
               /\ adapter' = [adapter EXCEPT !.error = TRUE] /\ told' = FALSE
               /\ UNCHANGED <<posted, count>>
         [] OTHER ->
               /\ UNCHANGED told
               /\ IF adapter.subscribed \/ adapter.requested
                  THEN adapter' = [adapter EXCEPT !.clock = TRUE] /\ UNCHANGED <<posted, count>>
                  ELSE /\ adapter' = [adapter EXCEPT !.clock = TRUE, !.requested = TRUE]
                       /\ SendNow(Message("subscribe", NoId))
    /\ UNCHANGED <<pending, caller>>
\* Mutant: a rejected subscription stays requested.
StillRequested_Rejected(ok) == ~ok
StillRequested(ok) == FALSE
BinanceSubscribed ==
    /\ venue = "Binance" /\ Read({"subscribe"})
    /\ IF Answer.live
       THEN /\ adapter' = [adapter EXCEPT !.requested = StillRequested(Answer.ok),
                              !.subscribed = Answer.ok, !.error = ~Answer.ok]
            /\ told' = Answer.ok
       ELSE UNCHANGED <<adapter, told>>
    /\ UNCHANGED <<posted, count, pending, caller>>
BinanceAnswer ==
    /\ venue = "Binance" /\ Read({"request"})
    /\ LET c == Answer.id[1] IN
       IF c \in pending /\ caller[c].n = Answer.id[2]
       THEN /\ pending' = pending \ {c}
            /\ caller' = [caller EXCEPT ![c].promise = "value"]
       ELSE UNCHANGED <<pending, caller>>
    /\ UNCHANGED <<posted, count, adapter, told>>

\* websocket_message of OKX
OkxLogin ==
    /\ venue = "OKX" /\ Read({"login"})
    /\ adapter' = [adapter EXCEPT !.subscribed = FALSE]
    /\ IF Answer.ok THEN SendNow(Message("subscribe", NoId)) /\ UNCHANGED told
       ELSE told' = FALSE /\ UNCHANGED <<posted, count>>
    /\ UNCHANGED <<pending, caller>>
OkxSubscribed ==
    /\ venue = "OKX" /\ Read({"subscribe"})
    /\ adapter' = [adapter EXCEPT !.subscribed = Answer.ok] /\ told' = Answer.ok
    /\ UNCHANGED <<posted, count, pending, caller>>
-----------------------------------------------------------------------------
(* Callers of request(), the clock thread, stop() *)

Caller(c) == UNCHANGED <<venue, ws, outbound, wire, inbox, peer, adapter, told, clock, stopping,
                         written, faults>>
Return(c, outcome) ==
    /\ caller' = [caller EXCEPT ![c].pc = "idle", ![c].outcome = outcome]
    /\ pending' = pending \ {c}
\* signed_request: wait_until_ready, the signature, wait_until_ready again, and the table.
CallBegin(c) ==
    /\ venue = "Binance" /\ caller[c].pc = "idle" /\ caller[c].n < MaxRequests /\ stopping = "no"
    /\ adapter.subscribed
    /\ caller' = [caller EXCEPT ![c] = [Done EXCEPT !.pc = "sign", !.n = caller[c].n + 1]]
    /\ UNCHANGED <<posted, count, pending>> /\ Caller(c)
Sign(c) ==
    /\ caller[c].pc = "sign"
    /\ IF adapter.clock THEN caller' = [caller EXCEPT ![c].pc = "again"] /\ UNCHANGED pending
       ELSE Return(c, "unknown")
    /\ UNCHANGED <<posted, count>> /\ Caller(c)
ReadyAgain(c) ==
    /\ caller[c].pc = "again"
    /\ IF adapter.subscribed THEN caller' = [caller EXCEPT ![c].pc = "enlist"] /\ UNCHANGED pending
       ELSE Return(c, "unknown")
    /\ UNCHANGED <<posted, count>> /\ Caller(c)
Enlist(c) ==
    /\ caller[c].pc = "enlist"
    /\ caller' = [caller EXCEPT ![c].pc = "send"] /\ pending' = pending \cup {c}
    /\ UNCHANGED <<posted, count>> /\ Caller(c)
Send(c) ==
    /\ caller[c].pc = "send"
    /\ caller' = [caller EXCEPT ![c].pc = IF CanSend THEN "wait" ELSE "erase"]
    /\ SendNow(Message("request", <<c, caller[c].n>>))
    /\ UNCHANGED pending /\ Caller(c)
Collect(c) ==
    /\ caller[c].pc = "wait" /\ caller[c].promise # "none"
    /\ Return(c, IF caller[c].promise = "value" THEN "answered" ELSE "lost")
    /\ UNCHANGED <<posted, count>> /\ Caller(c)
\* The wait ends before the entry is erased: an answer in between is nobody's.
TimesOut(c) ==
    /\ caller[c].pc = "wait" /\ caller[c].promise = "none"
    /\ caller' = [caller EXCEPT ![c].pc = "erase"]
    /\ UNCHANGED <<posted, count, pending>> /\ Caller(c)
Erase(c) ==
    /\ caller[c].pc = "erase"
    /\ Return(c, "unknown")
    /\ UNCHANGED <<posted, count>> /\ Caller(c)
CallerStep(c) ==
    Sign(c) \/ ReadyAgain(c) \/ Enlist(c) \/ Send(c) \/ Collect(c) \/ TimesOut(c) \/ Erase(c)

TimeInFlight == \E m \in ToSet(posted) \cup ToSet(outbound) \cup ToSet(wire) \cup ToSet(inbox) :
                    m.kind = "time"
\* run_clock_sync and request_server_time: a look at the connection, a new id, the request.
\* The interval is longer than an answer takes.
ClockTick ==
    /\ venue = "Binance" /\ clock = "idle" /\ ws.stage = "open" /\ ~TimeInFlight
    /\ clock' = "name"
    /\ UNCHANGED <<venue, socketVars, peer, adapter, told, pending, caller, stopping, written, faults>>
ClockNames ==
    /\ clock = "name" /\ clock' = "send"
    /\ posted' = Outdated(posted, "time") /\ outbound' = Outdated(outbound, "time")
    /\ wire' = Outdated(wire, "time") /\ inbox' = Outdated(inbox, "time")
    /\ UNCHANGED <<venue, ws, count, peer, adapter, told, pending, caller, stopping, written, faults>>
\* The handshake in between has given the request a newer id.
ClockSends ==
    /\ clock = "send" /\ clock' = "idle"
    /\ \E live \in BOOLEAN :
        /\ live <=> ~TimeInFlight
        /\ SendNow([Message("time", NoId) EXCEPT !.live = live])
    /\ UNCHANGED <<venue, ws, outbound, wire, inbox, peer, adapter, told, pending, caller, stopping,
                   written, faults>>

StopBegin ==
    /\ stopping = "no" /\ clock = "idle"
    /\ clock' = "joined" /\ stopping' = "posted"
    /\ UNCHANGED <<venue, socketVars, peer, adapter, told, pending, caller, written, faults>>
\* The handler stop() posts, after the ones posted before it.
StopRuns ==
    /\ stopping = "posted" /\ posted = <<>>
    /\ stopping' = "io"
    /\ ws' = [Closed EXCEPT !.stage = "stopped"]
    /\ IF ws.stage = "open" THEN SessionLost ELSE UNCHANGED <<adapter, told, caller, pending>>
    /\ UNCHANGED <<venue, posted, outbound, count, wire, inbox, peer, clock, written, faults>>
StopEnd ==
    /\ stopping = "io"
    /\ stopping' = "done"
    /\ adapter' = [adapter EXCEPT !.subscribed = FALSE]
    /\ FailPending
    /\ UNCHANGED <<venue, socketVars, peer, told, clock, written, faults>>
-----------------------------------------------------------------------------
ReadStep == ReadPong \/ BinanceTime \/ BinanceSubscribed \/ BinanceAnswer \/ OkxLogin \/ OkxSubscribed
ClockStep == ClockTick \/ ClockNames \/ ClockSends
Next ==
    \/ RunPosted \/ WriteDone \/ ReconnectTimer \/ Opened \/ ReadStep \/ StopRuns \/ StopEnd
    \/ ConnectionBreaks \/ PeerDies \/ HeartbeatSends \/ HeartbeatTimeout
    \/ VenueAnswers(TRUE) \/ VenueAnswers(FALSE)
    \/ \E c \in Callers : CallBegin(c) \/ CallerStep(c)
    \/ ClockStep \/ StopBegin
Spec == Init /\ [][Next]_vars
\* The io thread runs every handler that is ready, timers expire, a living venue answers,
\* threads go on.
FairSpec ==
    /\ Spec
    /\ WF_vars(RunPosted) /\ WF_vars(WriteDone) /\ WF_vars(ReadStep)
    /\ WF_vars(ReconnectTimer \/ Opened) /\ WF_vars(StopRuns \/ StopEnd)
    /\ WF_vars(HeartbeatSends) /\ WF_vars(HeartbeatTimeout)
    /\ WF_vars(VenueAnswers(TRUE) \/ VenueAnswers(FALSE)) /\ WF_vars(ClockStep)
    /\ \A c \in Callers : WF_vars(CallerStep(c))
-----------------------------------------------------------------------------
\* The gateway is told that the venue is connected only while the venue has accepted a
\* subscription to the order stream on the socket that is open now.
ReadyMeansSubscribed == told => ws.stage = "open" /\ peer.accepted /\ adapter.subscribed

\* The counter that bounds the queue is what is in the queue and on its way to it: reconnecting
\* neither leaks room nor frees it twice.
CountIsExact == ws.stage # "stopped" => count = Len(posted) + Len(outbound)

\* A request is handed to a socket at most once: what a broken connection may have delivered is
\* not written again on the next one.
WrittenAtMostOnce == \A r \in Requests : written[r] <= 1

\* The table of requests holds only callers that still wait.
NoForgottenRequest == \A c \in pending : caller[c].pc \in {"send", "wait", "erase"} /\ caller[c].promise = "none"

\* Requests are accounted for while sockets come and go: counted exactly, written at most once, and
\* known to the table only while somebody waits.
RequestsAccountedFor == TypeOK /\ CountIsExact /\ WrittenAtMostOnce /\ NoForgottenRequest

\* An OKX peer that has fallen silent is noticed, and the connection is made anew.
DeadPeerIsNoticed == ~peer.alive /\ Heartbeats ~> (peer.alive \/ stopping # "no")

\* When nothing breaks any more the adapter becomes ready and stays so, whatever was refused or
\* lost before.  OKX does not repeat what the venue refused until the connection ends; a Binance
\* peer that has fallen silent is not noticed, for its socket has neither heartbeat nor timeout.
Unnoticed == ~peer.alive /\ ~Heartbeats
BecomesReady == <>[](adapter.subscribed \/ stopping # "no" \/ peer.refused \/ Unnoticed)

\* The session recovers from loss and refusal, and on OKX from silence.
SessionRecovers == DeadPeerIsNoticed /\ BecomesReady
===============================================================================
