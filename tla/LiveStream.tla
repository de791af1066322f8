------------------------------ MODULE LiveStream ------------------------------
(***************************************************************************)
(* The live stream of orders to a browser: the sessions of the server      *)
(* (src/server/http_server.cpp), the order observer that feeds them        *)
(* (include/abex/application/async_order_observer_queue.hpp, whose ring is *)
(* the subject of MpscEventQueue and a counter here), and the console that *)
(* shows them (web/app.js).                                                *)
(*                                                                         *)
(* One order stands for all.  Its n-th state is n, and whoever reads it    *)
(* without mutex_ reads it in two halves: the observer gets the shared     *)
(* Order itself, which the gateway may change meanwhile.  The browser      *)
(* hears of the order in three ways that nothing orders: the messages of   *)
(* its session, the answer to its own command, and refreshAll, which asks  *)
(* over REST on resync.required and every 15 seconds; it asks for five     *)
(* things, the market data among them, and shows all of them or none.  A   *)
(* handler of a session is one action: they run on its strand, the posted  *)
(* ones in turn.                                                           *)
(* Market data, system events and pongs are messages "other".              *)
(***************************************************************************)
EXTENDS Integers, Sequences, SequencesExt

CONSTANTS MaxVersion,    \* bound on the states of the order
          RingCapacity,  \* of the order observer queue
          MaxPending,    \* maximum_pending_messages
          MarketData,    \* whether the server has a market-data book
          MaxSessions,   \* bound on the connections of the browser
          MaxPosted      \* bound on the posted handlers of a session, for the other observers

ASSUME SizesAssumption ==
    MaxVersion \in Nat /\ RingCapacity \in Nat /\ MaxPending \in Nat \ {0} /\ MarketData \in BOOLEAN

VARIABLES
    version,    \* the order as the gateway has it
    changing,   \* changes whose caller has left mutex_ and not yet notified
    ring,       \* entries of the order observer queue
    worker,     \* the thread of that queue, in dispatch and broadcast
    session,    \* the current WebSocketSession
    number,     \* how many there have been
    shown,      \* the order as the console shows it
    fetch,      \* requests of the console under way
    heard,      \* history: the order as the stream of this session last told it
    missed,     \* history: the latest change was not announced to the observers
    overtaken   \* history: an update was posted before the older snapshot

streamVars == <<version, changing, ring, worker, session, number, shown, fetch,
                heard, missed, overtaken>>
gatewayVars == <<version, changing, ring, missed>>
history == <<heard, missed, overtaken>>

\* An order as read in two halves; a message that tells it.
ReadOrder(n) == <<n, n>>
Views == (0 .. MaxVersion) \X (0 .. MaxVersion)
Tells(type, view) == [type |-> type, view |-> view]
Other == Tells("other", ReadOrder(0))
Resync == Tells("resync", ReadOrder(0))
Messages == [type : {"snapshot", "order"}, view : Views] \cup {Other, Resync}

IdleWorker == [pc |-> "idle", view |-> ReadOrder(0), to |-> 0]
NoMessage == <<>>
Gone == [stage |-> "gone", snapshot |-> ReadOrder(0), posted |-> <<>>, outbound |-> <<>>,
         buffer |-> NoMessage, resync |-> FALSE]
Fetches == {"refresh", "command"}
NoFetch == [stage |-> "none", view |-> ReadOrder(0)]

StreamInit ==
    /\ version = 0 /\ changing = 0 /\ ring = 0
    /\ worker = IdleWorker
    /\ session = Gone /\ number = 0
    /\ shown = ReadOrder(0)
    /\ fetch = [f \in Fetches |-> NoFetch]
    /\ heard = ReadOrder(0) /\ missed = FALSE /\ overtaken = FALSE

-----------------------------------------------------------------------------
\* The gateway and the order observer queue.

\* The order changes under mutex_: by a report, or by the call of somebody else.
Change ==
    /\ version < MaxVersion
    /\ version' = version + 1
    /\ changing' = changing + 1
    /\ missed' = TRUE
    /\ UNCHANGED <<ring, worker, session, number, shown, fetch, heard, overtaken>>

\* The caller has appended the record and announces the order; a full ring drops the entry.
Announced ==
    /\ ring' = IF ring < RingCapacity THEN ring + 1 ELSE ring
    /\ missed' = (missed /\ ring >= RingCapacity)
Notify ==
    /\ changing > 0
    /\ changing' = changing - 1
    /\ Announced
    /\ UNCHANGED <<version, worker, session, number, shown, fetch, heard, overtaken>>

\* commit_persist throws: nobody is notified.
AppendFails ==
    /\ changing > 0
    /\ changing' = changing - 1
    /\ UNCHANGED <<version, ring, worker, session, number, shown, fetch, history>>

\* The worker takes an entry; the observer formats the shared order, field after field.
Dispatch ==
    /\ worker.pc = "idle" /\ ring > 0
    /\ ring' = ring - 1
    /\ worker' = [worker EXCEPT !.pc = "reading", !.view[1] = version]
    /\ UNCHANGED <<version, changing, session, number, shown, fetch, history>>
ReadRest ==
    /\ worker.pc = "reading"
    /\ worker' = [worker EXCEPT !.pc = "broadcast", !.view[2] = version]
    /\ UNCHANGED <<gatewayVars, session, number, shown, fetch, heard, overtaken>>

\* Mutant: the session joins after its snapshots.
Joined_AfterSnapshot(s) == s.stage = "open"

\* The session is in sessions_ and has not expired.
Joined(s) == s.stage \in {"joined", "read", "open"}

\* broadcast copies the sessions under sessions_mutex_ and sends to them afterwards.
CollectSessions ==
    /\ worker.pc = "broadcast"
    /\ worker' = [worker EXCEPT !.pc = "send", !.to = IF Joined(session) THEN number ELSE 0]
    /\ UNCHANGED <<gatewayVars, session, number, shown, fetch, heard, overtaken>>

\* send(): a handler is posted to the strand of the session.
Post(s, m) == [s EXCEPT !.posted = Append(@, m)]

SendToSessions ==
    /\ worker.pc = "send"
    /\ worker' = IdleWorker
    /\ LET reaches == worker.to = number /\ session.stage # "gone"
       IN  /\ session' = IF reaches THEN Post(session, Tells("order", worker.view)) ELSE session
           /\ overtaken' = (overtaken \/ (reaches /\ session.stage = "read"))
    /\ UNCHANGED <<gatewayVars, number, shown, fetch, heard>>

\* A quote or an operational event is broadcast.
OtherBroadcast ==
    /\ Joined(session)
    /\ Len(session.posted) < MaxPosted
    /\ session' = Post(session, Other)
    /\ UNCHANGED <<gatewayVars, worker, number, shown, fetch, heard, overtaken>>

-----------------------------------------------------------------------------
\* The session.

\* The browser connects, at the start and some time after a close; when the upgrade is accepted
\* the session joins before it reads the snapshot.
Accept ==
    /\ session.stage = "gone" /\ number < MaxSessions
    /\ number' = number + 1
    /\ session' = [Gone EXCEPT !.stage = "joined"]
    /\ heard' = ReadOrder(0) /\ overtaken' = FALSE
    /\ UNCHANGED <<gatewayVars, worker, shown, fetch>>
ReadSnapshot ==
    /\ session.stage = "joined"
    /\ session' = [session EXCEPT !.stage = "read", !.snapshot = ReadOrder(version)]
    /\ UNCHANGED <<gatewayVars, worker, number, shown, fetch, heard, overtaken>>
\* The snapshots of orders, quotes and system are sent, and the first read is started.
SendSnapshots ==
    /\ session.stage = "read"
    /\ session' = [session EXCEPT !.stage = "open", !.snapshot = ReadOrder(0),
                                  !.posted = @ \o <<Tells("snapshot", session.snapshot)>>
                                                 \o (IF MarketData THEN <<Other>> ELSE <<>>) \o <<Other>>]
    /\ UNCHANGED <<gatewayVars, worker, number, shown, fetch, heard, overtaken>>

\* The front of outbound_ is handed to async_write, which keeps a reference to it.
WriteNext(s) == [s EXCEPT !.buffer = IF s.outbound = <<>> THEN NoMessage ELSE <<Head(s.outbound)>>]
Writing(s) == s.buffer # NoMessage

\* Mutant: the backlog is cleared under the write.
Enqueue_Clears(s, m) ==
    LET t == [s EXCEPT !.outbound = IF Len(@) >= MaxPending THEN <<Resync>> ELSE Append(@, m)]
    IN  IF Writing(s) THEN t ELSE WriteNext(t)

\* The handler send() posted: a full queue drops the message and asks for a resync.
Enqueue(s, m) ==
    IF Len(s.outbound) >= MaxPending
    THEN [s EXCEPT !.resync = TRUE]
    ELSE LET t == [s EXCEPT !.outbound = Append(@, m)]
         IN  IF Writing(s) THEN t ELSE WriteNext(t)
RunSendHandler ==
    /\ session.stage = "open" /\ session.posted # <<>>
    /\ session' = [Enqueue(session, Head(session.posted)) EXCEPT !.posted = Tail(@)]
    /\ UNCHANGED <<gatewayVars, worker, number, shown, fetch, heard, overtaken>>

\* A write has completed: a backlog with a gap gives way to one instruction to resync.
AfterWrite(s) ==
    LET popped == [s EXCEPT !.outbound = Tail(@)]
    IN  WriteNext(IF s.resync THEN [popped EXCEPT !.outbound = <<Resync>>, !.resync = FALSE]
                  ELSE popped)

\* The connection breaks: read and written return, and the last reference to the session goes.
Break ==
    /\ session.stage = "open" /\ number < MaxSessions
    /\ session' = Gone
    /\ UNCHANGED <<gatewayVars, worker, number, shown, fetch, heard, overtaken>>

-----------------------------------------------------------------------------
\* The console.

\* A message of the stream.  It replaces what is shown, whatever that is.
Asked(f) == [fetch EXCEPT ![f] = [stage |-> "asked", view |-> ReadOrder(0)]]
Told(m) ==
    CASE m.type = "other" -> heard
      [] m.type = "resync" -> <<"resync">>
      [] OTHER -> m.view

\* The write ends when the browser has taken the message; a slow browser lets it wait.  A resync
\* starts refreshAll (bound: one at a time, the last one started).
Deliver ==
    /\ session.stage = "open" /\ Writing(session)
    /\ LET m == session.buffer[1] IN
          /\ fetch' = IF m.type = "resync" THEN Asked("refresh") ELSE fetch
          /\ shown' = IF m.type \in {"snapshot", "order"} THEN m.view ELSE shown
          /\ heard' = Told(m)
    /\ session' = AfterWrite(session)
    /\ UNCHANGED <<gatewayVars, worker, number, overtaken>>

\* GET /api/v1/orders: the list is read under mutex_.
Answered(f, view) == [fetch EXCEPT ![f] = [stage |-> "answered", view |-> view]]

\* Mutant: the console polls only while its socket is down.
Poll_Offline ==
    /\ session.stage = "gone"
    /\ fetch["refresh"].stage = "none"
    /\ fetch' = Asked("refresh")
    /\ UNCHANGED <<gatewayVars, worker, session, number, shown, heard, overtaken>>

\* The 15-second timer starts refreshAll (bound: not while one is under way).
Poll ==
    /\ fetch["refresh"].stage = "none"
    /\ fetch' = Asked("refresh")
    /\ UNCHANGED <<gatewayVars, worker, session, number, shown, heard, overtaken>>
Reload ==
    /\ fetch["refresh"].stage = "asked"
    /\ fetch' = Answered("refresh", ReadOrder(version))
    /\ UNCHANGED <<gatewayVars, worker, session, number, shown, heard, overtaken>>

\* The user places, cancels or amends, and the order changes; the call keeps a copy of it.
Command ==
    /\ fetch["command"].stage = "none"
    /\ version < MaxVersion
    /\ version' = version + 1
    /\ missed' = TRUE
    /\ fetch' = [fetch EXCEPT !["command"] = [stage |-> "calling", view |-> ReadOrder(version')]]
    /\ UNCHANGED <<changing, ring, worker, session, number, shown, heard, overtaken>>

\* The call announces the order and returns.  place answers with its copy; the others wait until
\* the observers have seen all that was posted, and read the order once more under mutex_.
CommandReturns(op) ==
    /\ fetch["command"].stage = "calling"
    /\ Announced
    /\ fetch' = IF op = "place" THEN Answered("command", fetch["command"].view) ELSE Asked("command")
    /\ UNCHANGED <<version, changing, worker, session, number, shown, heard, overtaken>>
Flushed == ring = 0 /\ worker.pc = "idle"
AnswerCommand ==
    /\ fetch["command"].stage = "asked"
    /\ Flushed
    /\ fetch' = Answered("command", ReadOrder(version))
    /\ UNCHANGED <<gatewayVars, worker, session, number, shown, heard, overtaken>>

\* The answer reaches the console.  refreshAll takes the orders only together with the market
\* data, which a server without a book answers with an error.
Apply(f) ==
    /\ fetch[f].stage = "answered"
    /\ f = "refresh" => MarketData
    /\ shown' = fetch[f].view
    /\ fetch' = [fetch EXCEPT ![f] = NoFetch]
    /\ UNCHANGED <<gatewayVars, worker, session, number, heard, overtaken>>

\* A request fails, one of the five of refreshAll or a command (commit_persist may have thrown,
\* and then nobody is notified): the console keeps what it shows.
RequestFails(f) ==
    /\ fetch[f].stage # "none"
    /\ fetch' = [fetch EXCEPT ![f] = NoFetch]
    /\ UNCHANGED <<gatewayVars, worker, session, number, shown, heard, overtaken>>

-----------------------------------------------------------------------------
Server == Notify \/ Dispatch \/ ReadRest \/ CollectSessions \/ SendToSessions
Session == Accept \/ ReadSnapshot \/ SendSnapshots \/ RunSendHandler

StreamNext ==
    \/ Server \/ Session \/ Deliver \/ Poll \/ Reload \/ Command \/ AnswerCommand
    \/ \E op \in {"place", "cancel"} : CommandReturns(op)
    \/ \E f \in Fetches : Apply(f) \/ RequestFails(f)
    \/ Change \/ AppendFails \/ OtherBroadcast \/ Break

StreamSpec == StreamInit /\ [][StreamNext]_streamVars

\* The timer of the console fires again and again, and not every refreshAll fails.  Nothing else
\* need go on: neither the observers nor the socket nor the commands.
FairStream ==
    /\ StreamSpec
    /\ WF_streamVars(Poll) /\ SF_streamVars(Reload) /\ SF_streamVars(Apply("refresh"))

-----------------------------------------------------------------------------
StreamTypeOK ==
    /\ version \in 0 .. MaxVersion /\ changing \in 0 .. MaxVersion /\ ring \in 0 .. RingCapacity
    /\ worker.pc \in {"idle", "reading", "broadcast", "send"} /\ worker.view \in Views
    /\ session.stage \in {"gone", "joined", "read", "open"}
    /\ session.posted \in Seq(Messages) /\ session.outbound \in Seq(Messages)
    /\ Len(session.outbound) <= MaxPending
    /\ shown \in Views
    /\ \A f \in Fetches : fetch[f].stage \in {"none", "calling", "asked", "answered"}

\* A write is under way exactly while outbound_ has messages, and its buffer stays at the front,
\* whatever is dropped, cleared or replaced meanwhile (comment in send: it cannot be invalidated).
WriteBufferKept ==
    session.buffer = IF session.outbound = <<>> THEN NoMessage ELSE <<Head(session.outbound)>>

\* The backlog of a session stays within its limit and keeps the buffer of the write.
BacklogKept == StreamTypeOK /\ WriteBufferKept

\* Nothing of the order is on its way to the browser any more.
Quiet ==
    /\ Flushed
    /\ session.stage = "open"
    /\ session.posted = <<>> /\ session.outbound = <<>>

\* When all is quiet the stream has told the present state of the order, untorn, or has asked
\* for a resync; unless the change was not announced at all, or an update was posted between
\* the reading and the sending of the snapshot, which then arrives last.
StreamConverges ==
    Quiet /\ ~missed /\ ~overtaken => heard \in {ReadOrder(version), <<"resync">>}

\* With a market-data book the console shows the order for good once it rests, whatever was lost,
\* torn or overtaken and even if the stream stands still: the 15-second refreshAll repairs it.
BrowserCatchesUp == MarketData => <>[](shown = ReadOrder(version))
===============================================================================
