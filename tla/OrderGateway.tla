---------------------------- MODULE OrderGateway ----------------------------
(***************************************************************************)
(* The order path of one venue: OrderGateway (order_gateway.cpp) between   *)
(* API threads, the execution lane of the venue's stream, the              *)
(* reconciliation worker, the journal and the venue.                       *)
(*                                                                         *)
(* A step is what the code does under one hold of mutex_, one append to    *)
(* the journal, one venue call, or one event at the venue.  Between two    *)
(* steps of an actor any other actor may run: mutex_ is never held across  *)
(* venue I/O or a journal write.                                           *)
(*                                                                         *)
(* One symbol, amendments of the quantity, reports without sequence number *)
(* (the live adapters set none).  The venue is external: it is modelled by *)
(* the answers, events and delays for which the adapters have a case.      *)
(***************************************************************************)
EXTENDS PreTrade, Sequences, FiniteSets, SequencesExt

CONSTANTS Cids,        \* client order ids
          Threads,     \* API threads
          Scenarios    \* the settings and bounds a behaviour starts with

FaultKinds == {"uncertain", "reject", "query", "journal"}
CommandType == [op : {"place", "cancel", "amend"}, cid : Cids, req : STRING,
                quantity : Nat, price : Nat \cup {None}]

\* What the journal holds of an order: the order and its requests of a set of commands.
Outcomes == {"absent", "PENDING", "OK", "ERROR"}
JournalType(commands, cid) ==
    [order : OrderType, requests : [{k \in commands : k.cid = cid} -> Outcomes]]

\* A physical order: first is one that place() made, known one whose name the adapter knows.
PhysType == [cid : Cids, first : BOOLEAN, known : BOOLEAN, status : Statuses,
             quantity : Nat, filled : Nat, stamp : Nat]

ASSUME GatewayAssumption ==
    /\ Cids \subseteq STRING /\ IsFiniteSet(Cids)
    /\ ExchangeIds \subseteq STRING
    /\ Cids \cap ExchangeIds = {} /\ IsFiniteSet(ExchangeIds)
    /\ Threads \subseteq STRING \ {"lane", "reconciler"}
    /\ None \notin PhysType
    /\ \A s \in Scenarios :
        /\ s.kind \in {"Okx", "Binance"}
        /\ s.commands \subseteq CommandType
        /\ \A cid \in Cids : None \notin JournalType(s.commands, cid)
        /\ s.threads \subseteq Threads /\ s.exids \subseteq ExchangeIds
        /\ s.faults \subseteq FaultKinds /\ s.reconciling \in BOOLEAN
        /\ s.laneCapacity \in Nat \ {0}
        /\ s.sells \subseteq Cids
        /\ {s.limits.maxOrderSize, s.limits.maxNotional, s.limits.position} \subseteq Nat
        /\ \A rules \in s.rules \ {None} : rules.notional.min \in Nat \cup {None}
        /\ {s.maxStamp, s.maxCalls, s.maxDisconnects, s.maxCrashes} \subseteq Nat

VARIABLES
    orders,     \* orders_
    requests,   \* processed_request_outcomes of the orders, by command
    active,     \* active_operations_
    deferred,   \* deferred_amend_reports_
    position,   \* conservative_positions_[symbol]
    reconReq,   \* health_[venue].reconciliation_required
    connected,  \* health_[venue].connected
    ever,       \* health_[venue].ever_connected
    serving,    \* start() has returned and commands are served
    lane,       \* execution_lanes_[venue], a bounded FIFO
    act,        \* what each API thread, the lane and the reconciler are doing
    rec,        \* the locals of reconcile()
    reserved,   \* journal records with a sequence number, not yet appended
    journal,    \* the record of highest sequence number per order
    venue,      \* the physical orders
    stamp,      \* events at the venue so far
    inflight,   \* requests on their way to the venue without the gateway waiting
    sent,       \* history: how often a command was given to the adapter
    calls, disconnects, crashes,
    scenario    \* the settings of this behaviour, never changed

core == <<orders, requests, position, reserved>>
health == <<reconReq, connected, ever, serving>>
outside == <<venue, stamp, inflight, lane>>
counters == <<sent, calls, disconnects, crashes, scenario>>
vars == <<orders, requests, active, deferred, position, reconReq, connected, ever,
          serving, lane, act, rec, reserved, journal, venue, stamp, inflight, sent,
          calls, disconnects, crashes, scenario>>

Kind == scenario.kind                       \* the adapter
Commands == scenario.commands               \* place, cancel and amend requests
PositionLimit == scenario.limits.position   \* position_limit of the symbol
LaneCapacity == scenario.laneCapacity       \* reports the lane holds, the one in hand included
Reconciling == scenario.reconciling         \* does the reconciliation worker run passes?
Faults == scenario.faults                   \* which of FaultKinds may happen
MaxStamp == scenario.maxStamp               \* bound: no fill after this many events at the venue
MaxCalls == scenario.maxCalls               \* bound on the commands begun
MaxDisconnects == scenario.maxDisconnects   \* bound on losses of the stream
MaxCrashes == scenario.maxCrashes           \* bound on crashes

Actors == Threads \cup {"lane", "reconciler"}
RequestsOf(cid) == {k \in Commands : k.cid = cid}
Known == {cid \in Cids : orders[cid] # None}

SideOf(cid) == IF cid \in scenario.sells THEN "Sell" ELSE "Buy"

\* Mutant: an order of unknown outcome reserves nothing.
Contribution_UnknownFree(cid, order) ==
    IF order = None THEN 0
    ELSE Signed(SideOf(cid), IF IsTerminal(order.status) \/ order.status = "Unknown"
                             THEN order.filled ELSE order.quantity)

\* position_contribution, 0 for an order that does not exist.
Contribution(cid, order) ==
    IF order = None THEN 0
    ELSE Signed(SideOf(cid), IF IsTerminal(order.status) THEN order.filled ELSE order.quantity)

\* The constructor adds up the contributions, one order after the other.
Totals(book) ==
    LET cids == SetToSeq(Cids)
        total[n \in 0 .. Cardinality(Cids)] ==
            IF n = 0 THEN 0 ELSE total[n - 1] + Contribution(cids[n], book[cids[n]])
    IN  total

Exposure(book) == Totals(book)[Cardinality(Cids)]

Idle == [pc |-> "idle", cmd |-> None, result |-> None, reports |-> <<>>]
NoRec == [todo |-> {}, observed |-> {}, unresolved |-> FALSE, cid |-> None, exid |-> None]

Steps == {"idle", "rejected", "intent", "send", "finish", "outcome", "apply", "applied",
          "snapshot", "open", "openApply", "judge", "candidates", "query", "answer",
          "null"}

\* The types of the state; the lane never holds more than its capacity.
TypeOK ==
    /\ orders \in [Cids -> OrderType \cup {None}]
    /\ requests \in [Commands -> Outcomes]
    /\ active \subseteq Cids
    /\ \A cid \in Cids : \A i \in DOMAIN deferred[cid] : deferred[cid][i] \in ReportType
    /\ position \in Int
    /\ {reconReq, connected, ever, serving} \subseteq BOOLEAN
    /\ Len(lane) <= LaneCapacity
    /\ \A i \in DOMAIN lane : lane[i] \in ReportType
    /\ DOMAIN act = Actors
    /\ \A a \in Actors : act[a].pc \in Steps /\ act[a].cmd \in Commands \cup {None}
    /\ \A x \in ExchangeIds : venue[x] \in PhysType \cup {None}
    /\ \A cid \in Cids : journal[cid] \in JournalType(Commands, cid) \cup {None}

Init ==
    /\ scenario \in Scenarios
    /\ orders = [cid \in Cids |-> None]
    /\ requests = [k \in Commands |-> "absent"]
    /\ active = {}
    /\ deferred = [cid \in Cids |-> <<>>]
    /\ position = 0
    /\ reconReq = FALSE
    /\ connected = TRUE
    /\ ever = TRUE
    /\ serving = TRUE
    /\ lane = <<>>
    /\ act = [a \in Actors |-> Idle]
    /\ rec = NoRec
    /\ reserved = <<>>
    /\ journal = [cid \in Cids |-> None]
    /\ venue = [x \in ExchangeIds |-> None]
    /\ stamp = 0
    /\ inflight = {}
    /\ sent = [k \in Commands |-> 0]
    /\ calls = 0
    /\ disconnects = 0
    /\ crashes = 0
-----------------------------------------------------------------------------
(* State under mutex_, and the journal *)

Goto(a, pc) == act' = [act EXCEPT ![a].pc = pc]

\* prepare_persist: snapshot and sequence number are taken under mutex_.
Reserve(a, cid, order, outcomes) ==
    reserved' = Append(reserved,
        [owner |-> a, cid |-> cid, superseded |-> FALSE, order |-> order,
         requests |-> [k \in RequestsOf(cid) |-> outcomes[k]]])

\* Mutant: the position is not adjusted.
Update_NoAdjust(a, cid, order, outcomes) ==
    /\ orders' = [orders EXCEPT ![cid] = order]
    /\ requests' = outcomes
    /\ position' = IF orders[cid] = None THEN position + Contribution(cid, order) ELSE position
    /\ Reserve(a, cid, order, outcomes)

\* An order changes under mutex_: adjust_position_locked, prepare_persist.
Update(a, cid, order, outcomes) ==
    /\ orders' = [orders EXCEPT ![cid] = order]
    /\ requests' = outcomes
    /\ position' = position + Contribution(cid, order) - Contribution(cid, orders[cid])
    /\ Reserve(a, cid, order, outcomes)

AfterAppend(a) ==
    CASE act[a].pc = "rejected" -> "idle"
      [] act[a].pc = "intent" -> "send"
      [] act[a].pc = "outcome" -> "apply"
      [] act[a].pc = "applied" ->
            IF a = "lane" THEN "idle" ELSE IF a = "reconciler" THEN "judge" ELSE "apply"

\* Mutant: the record appended last wins.
Journaled_LastAppend(i) ==
    /\ journal' = [journal EXCEPT ![reserved[i].cid] =
                      [order |-> reserved[i].order, requests |-> reserved[i].requests]]
    /\ reserved' = RemoveAt(reserved, i)

\* The record of highest sequence wins whatever the order of the appends: an
\* append makes the older records of its order that are still to come void.
Journaled(i) ==
    /\ journal' = IF reserved[i].superseded THEN journal
                  ELSE [journal EXCEPT ![reserved[i].cid] =
                          [order |-> reserved[i].order, requests |-> reserved[i].requests]]
    /\ reserved' = RemoveAt([j \in DOMAIN reserved |->
                      IF j < i /\ reserved[j].cid = reserved[i].cid
                      THEN [reserved[j] EXCEPT !.superseded = TRUE] ELSE reserved[j]], i)

\* commit_persist
CommitPersist(a) ==
    /\ act[a].pc \in {"rejected", "intent", "outcome", "applied"}
    /\ \E i \in DOMAIN reserved : reserved[i].owner = a /\ Journaled(i)
    /\ Goto(a, AfterAppend(a))
    /\ UNCHANGED <<orders, requests, position, active, deferred, health, rec,
                   outside, counters>>

\* commit_persist throws: the command ends in the exception, the lane swallows
\* it, reconcile counts the order as unresolved and, if it was reading the
\* open orders, gives up the rest of them.
CommitFails(a) ==
    /\ "journal" \in Faults
    /\ act[a].pc \in {"rejected", "intent", "outcome", "applied"}
    /\ \E i \in DOMAIN reserved : reserved[i].owner = a /\ reserved' = RemoveAt(reserved, i)
    /\ IF a = "reconciler"
       THEN /\ rec' = [rec EXCEPT !.unresolved = TRUE]
            /\ act' = [act EXCEPT ![a] = [Idle EXCEPT !.pc = "candidates"]]
       ELSE act' = [act EXCEPT ![a] = Idle] /\ UNCHANGED rec
    /\ UNCHANGED <<orders, requests, position, journal, active, deferred, health,
                   outside, counters>>
-----------------------------------------------------------------------------
(* Physical orders, external *)

Working(x) == venue[x] # None /\ venue[x].status \in {"Live", "PartiallyFilled"}
Free == {x \in scenario.exids : venue[x] = None}

\* The client id the venue knows a physical order by: a replacement has a name
\* of its own, which is written here as its exchange id.
VenueName(x, phys) == IF phys.first THEN phys.cid ELSE x

\* What a report says of a physical order; its price never differs from the order's.
Report(x, phys, event, client) ==
    [event |-> event, client |-> client, exid |-> x, status |-> phys.status,
     cumulative |-> phys.filled, price |-> None, quantity |-> phys.quantity, sequence |-> None]

\* OKX forms the event id from the order's own fields: stream and query agree.
ParseOrderUpdate(x, phys, client) == Report(x, phys, 3 * phys.stamp, client)

\* Binance gives an event of the stream the number of the execution ...
ParseExecutionReport(x, phys, client) == Report(x, phys, 3 * phys.stamp, client)

\* ... and puts the kind of request into that of an answer, so that the two differ.
BinanceOrderResponseReport(x, phys, operation) ==
    Report(x, phys, 3 * phys.stamp + (IF operation = "query" THEN 1 ELSE 2), VenueName(x, phys))

\* alias_to_client_ translates the venue's name on the stream, as long as the adapter knows it.
StreamClient(x, phys) == IF phys.known THEN phys.cid ELSE VenueName(x, phys)

\* The report of a physical order on a channel: the stream or the answer to a request.
ReportOf(x, phys, channel) ==
    LET client == IF channel = "stream" THEN StreamClient(x, phys) ELSE VenueName(x, phys)
    IN  IF Kind = "Okx" THEN ParseOrderUpdate(x, phys, client)
        ELSE IF channel = "stream" THEN ParseExecutionReport(x, phys, client)
        ELSE BinanceOrderResponseReport(x, phys, channel)

\* receive_execution: what the lane has no room for is dropped.  LaneCapacity
\* is one more than event_queue_capacity: the report the worker has taken out
\* no longer fills a slot of the ring.
Room == LaneCapacity - Len(lane) - (IF act["lane"].pc = "idle" THEN 0 ELSE 1)

\* Mutant: the queue has no bound.
Receive_Unbounded(reports) ==
    /\ lane' = IF connected THEN lane \o reports ELSE lane
    /\ UNCHANGED reconReq

Receive(reports) ==
    LET kept == IF ~connected THEN 0 ELSE IF Len(reports) < Room THEN Len(reports) ELSE Room
    IN  /\ lane' = lane \o SubSeq(reports, 1, kept)
        /\ reconReq' = (reconReq \/ (connected /\ kept < Len(reports)))

\* Physical order x becomes phys, and the stream says so.
VenueMoves(x, phys) ==
    LET moved == [phys EXCEPT !.stamp = stamp + 1]
    IN  /\ stamp' = stamp + 1
        /\ venue' = [venue EXCEPT ![x] = moved]
        /\ Receive(<<ReportOf(x, moved, "stream")>>)

NewPhys(cid, quantity, first, known) ==
    [cid |-> cid, first |-> first, known |-> known, status |-> "Live",
     quantity |-> quantity, filled |-> 0, stamp |-> 0]

\* cancelReplace: old is canceled and x, a new order, takes its place.
VenueReplaces(old, x, quantity, known) ==
    LET canceled == [venue[old] EXCEPT !.status = "Canceled", !.stamp = stamp + 1]
        fresh == [NewPhys(venue[old].cid, quantity, FALSE, known) EXCEPT !.stamp = stamp + 2]
    IN  /\ stamp' = stamp + 2
        /\ venue' = [venue EXCEPT ![old] = canceled, ![x] = fresh]
        /\ Receive(<<ReportOf(old, canceled, "stream"), ReportOf(x, fresh, "stream")>>)

VenueFill(x, n) ==
    /\ stamp < MaxStamp
    /\ Working(x)
    /\ venue[x].filled + n <= venue[x].quantity
    /\ VenueMoves(x, [venue[x] EXCEPT !.filled = @ + n,
                        !.status = IF venue[x].filled + n = venue[x].quantity
                                   THEN "Filled" ELSE "PartiallyFilled"])
    /\ UNCHANGED <<core, active, deferred, connected, ever, serving, act, rec, journal,
                   inflight, counters>>

\* The physical order a request names: by exchange id, or by client order id.
Target(cid, exid) ==
    {x \in ExchangeIds : /\ venue[x] # None
                         /\ IF exid # None THEN x = exid ELSE venue[x].first /\ venue[x].cid = cid}

\* A request the gateway does not wait for any more takes effect.
VenueArrive(r) ==
    /\ inflight' = inflight \ {r}
    /\ \/ /\ r.op = "place"
          /\ \E x \in Free : VenueMoves(x, NewPhys(r.cid, r.quantity, TRUE, r.known))
       \/ /\ r.op = "cancel"
          /\ \E x \in Target(r.cid, r.exid) :
                Working(x) /\ VenueMoves(x, [venue[x] EXCEPT !.status = "Canceled"])
       \/ /\ r.op = "amend" /\ Kind = "Okx"
          /\ \E x \in Target(r.cid, r.exid) :
                /\ Working(x)
                /\ venue[x].filled < r.quantity
                /\ VenueMoves(x, [venue[x] EXCEPT !.quantity = r.quantity])
       \/ /\ r.op = "amend" /\ Kind = "Binance"
          /\ \E old \in Target(r.cid, r.exid), x \in Free :
                Working(old) /\ VenueReplaces(old, x, r.quantity, r.known)
    /\ UNCHANGED <<core, active, deferred, connected, ever, serving, act, rec, journal,
                   counters>>

\* A request is lost, or the venue refuses it when it arrives.
VenueLose(r) ==
    /\ inflight' = inflight \ {r}
    /\ ~r.acked \/ ~\E x \in Target(r.cid, r.exid) :
                       Working(x) /\ (r.op = "amend" => venue[x].filled < r.quantity)
    /\ UNCHANGED <<core, active, deferred, health, act, rec, journal, venue, stamp, lane,
                   counters>>
-----------------------------------------------------------------------------
(* place, cancel, amend: up to the venue call *)

MayBegin(t, cmd, op) ==
    /\ serving
    /\ t \in scenario.threads /\ act[t].pc = "idle"
    /\ calls < MaxCalls
    /\ cmd.op = op

Begin(t, cmd, pc) ==
    /\ act' = [act EXCEPT ![t] = [Idle EXCEPT !.pc = pc, !.cmd = cmd]]
    /\ calls' = calls + 1
    /\ UNCHANGED <<deferred, health, rec, journal, outside, sent, disconnects, crashes,
                   scenario>>

\* The decision on a new order, with whatever quote, rules and balance are at hand; one that
\* throws leaves everything as it was.
Decided(cmd, verdict) ==
    \E market \in scenario.markets, rules \in scenario.rules, available \in scenario.balances :
        verdict = PlaceDecision(scenario.limits,
                                [side |-> SideOf(cmd.cid), price |-> cmd.price, quantity |-> cmd.quantity],
                                position, market, rules, available)

PlaceBegin(t, cmd) ==
    /\ MayBegin(t, cmd, "place")
    /\ orders[cmd.cid] = None
    /\ Decided(cmd, "accept")
    /\ Update(t, cmd.cid, MakeOrder(cmd.cid, cmd.price, cmd.quantity), requests)
    /\ active' = active \cup {cmd.cid}
    /\ Begin(t, cmd, "intent")

\* A limit, an instrument rule or the balance forbids the order.
PlaceReject(t, cmd) ==
    /\ MayBegin(t, cmd, "place")
    /\ orders[cmd.cid] = None
    /\ Decided(cmd, "reject")
    /\ Update(t, cmd.cid, [MakeOrder(cmd.cid, cmd.price, cmd.quantity) EXCEPT
                              !.status = "Rejected", !.pending = "None"], requests)
    /\ UNCHANGED active
    /\ Begin(t, cmd, "rejected")

\* Mutant: request identifiers are not remembered.
SeenRequest_Never(cmd) == FALSE

\* requestId was seen before, with this payload (replay) or another (conflict).
SeenRequest(cmd) ==
    \E k \in RequestsOf(cmd.cid) :
        k.op = cmd.op /\ k.req = cmd.req /\ requests[k] # "absent"

\* Mutant: active_operations_ is not looked at.
NotBusy_IgnoresActive(cid) == orders[cid].pending = "None"

\* No operation of the order is in venue I/O or waits for its confirmation.
NotBusy(cid) == cid \notin active /\ orders[cid].pending = "None"

\* conservative_position_locked
PositionWithout(cid) == position - Contribution(cid, orders[cid])

CancelBegin(t, cmd) ==
    /\ MayBegin(t, cmd, "cancel")
    /\ orders[cmd.cid] # None
    /\ ~SeenRequest(cmd)
    /\ ~IsTerminal(orders[cmd.cid].status)
    /\ NotBusy(cmd.cid)
    /\ Update(t, cmd.cid, [orders[cmd.cid] EXCEPT !.pending = "Cancel"],
              [requests EXCEPT ![cmd] = "PENDING"])
    /\ active' = active \cup {cmd.cid}
    /\ Begin(t, cmd, "intent")

AmendBegin(t, cmd) ==
    /\ MayBegin(t, cmd, "amend")
    /\ orders[cmd.cid] # None
    /\ ~SeenRequest(cmd)
    /\ NotBusy(cmd.cid)
    /\ CheckAmend(scenario.limits, SideOf(cmd.cid), orders[cmd.cid], cmd.quantity,
                  PositionWithout(cmd.cid)) = "accept"
    /\ Update(t, cmd.cid, [orders[cmd.cid] EXCEPT !.pending = "Amend",
                                                  !.pendingQuantity = cmd.quantity],
              [requests EXCEPT ![cmd] = "PENDING"])
    /\ active' = active \cup {cmd.cid}
    /\ Begin(t, cmd, "intent")
-----------------------------------------------------------------------------
(***************************************************************************)
(* The venue call.  It reads the order through the shared pointer, without *)
(* mutex_: the order of this moment, not the snapshot that was journaled.  *)
(***************************************************************************)
Result(kind, exid, reports) == [kind |-> kind, exid |-> exid, reports |-> reports]

Answered(t, result) ==
    /\ act' = [act EXCEPT ![t].pc = "finish", ![t].result = result]
    /\ sent' = [sent EXCEPT ![act[t].cmd] = @ + 1]
    /\ UNCHANGED <<core, active, deferred, connected, ever, serving, rec, journal,
                   calls, disconnects, crashes, scenario>>

\* The quantity the adapter puts into the request.
WireQuantity(cmd) ==
    IF cmd.op = "amend" /\ Kind = "Binance"
    THEN cmd.quantity - orders[cmd.cid].filled ELSE cmd.quantity

Request(cmd, acked) ==
    [op |-> cmd.op, cid |-> cmd.cid, exid |-> orders[cmd.cid].exid,
     quantity |-> WireQuantity(cmd), known |-> TRUE, acked |-> acked]

\* BinanceAdapter::amend sends nothing when nothing would be left to buy.
NothingToReplace(cmd) ==
    cmd.op = "amend" /\ Kind = "Binance" /\ WireQuantity(cmd) <= 0

\* Timeout or lost connection: the request may still reach the venue.
SendUncertain(t) ==
    /\ "uncertain" \in Faults
    /\ act[t].pc = "send"
    /\ ~NothingToReplace(act[t].cmd)
    /\ inflight' = inflight \cup {Request(act[t].cmd, FALSE)}
    /\ Answered(t, Result("uncertain", None, <<>>))
    /\ UNCHANGED <<venue, stamp, lane, reconReq>>

\* Refused by the venue, by the local rate limit, or before anything was sent.
SendRejected(t) ==
    /\ act[t].pc = "send"
    /\ \/ "reject" \in Faults
       \/ NothingToReplace(act[t].cmd)
       \/ act[t].cmd.op # "place" /\
          ~\E x \in Target(act[t].cmd.cid, orders[act[t].cmd.cid].exid) : Working(x)
    /\ Answered(t, Result("reject", None, <<>>))
    /\ UNCHANGED <<outside, reconReq>>

PlaceAccepted(t) ==
    /\ act[t].pc = "send"
    /\ act[t].cmd.op = "place"
    /\ \E x \in Free :
          /\ VenueMoves(x, NewPhys(act[t].cmd.cid, act[t].cmd.quantity, TRUE, TRUE))
          /\ Answered(t, Result("ack", x, <<>>))
    /\ UNCHANGED inflight

\* An accepted cancel, and an OKX amendment, take effect later.
CancelAccepted(t) ==
    /\ act[t].pc = "send"
    /\ act[t].cmd.op = "cancel"
    /\ inflight' = inflight \cup {Request(act[t].cmd, TRUE)}
    /\ Answered(t, Result("ack", None, <<>>))
    /\ UNCHANGED <<venue, stamp, lane, reconReq>>

\* OkxAdapter::amend: the acceptance, and a prompt query that still finds the
\* old terms or gets no answer ...
OkxAmendAccepted(t) ==
    /\ Kind = "Okx"
    /\ act[t].pc = "send"
    /\ act[t].cmd.op = "amend"
    /\ \E x \in Target(act[t].cmd.cid, orders[act[t].cmd.cid].exid) :
          /\ Working(x)
          /\ \E reports \in {<<>>, <<[ReportOf(x, venue[x], "query") EXCEPT
                                        !.client = act[t].cmd.cid]>>} :
                Answered(t, Result("ack", None, reports))
    /\ inflight' = inflight \cup {Request(act[t].cmd, TRUE)}
    /\ UNCHANGED <<venue, stamp, lane, reconReq>>

\* ... or finds the amendment made already.
OkxAmendMade(t) ==
    /\ Kind = "Okx"
    /\ act[t].pc = "send"
    /\ act[t].cmd.op = "amend"
    /\ \E x \in Target(act[t].cmd.cid, orders[act[t].cmd.cid].exid) :
          /\ Working(x)
          /\ venue[x].filled < act[t].cmd.quantity
          /\ VenueMoves(x, [venue[x] EXCEPT !.quantity = act[t].cmd.quantity])
          /\ Answered(t, Result("ack", None, <<[ReportOf(x, venue'[x], "query") EXCEPT
                                                  !.client = act[t].cmd.cid]>>))
    /\ UNCHANGED inflight

\* BinanceAdapter::amend: both halves of the cancel-replace succeed ...
BinanceAmendAccepted(t) ==
    /\ Kind = "Binance"
    /\ act[t].pc = "send"
    /\ act[t].cmd.op = "amend"
    /\ ~NothingToReplace(act[t].cmd)
    /\ \E old \in Target(act[t].cmd.cid, orders[act[t].cmd.cid].exid), x \in Free :
          /\ Working(old)
          /\ VenueReplaces(old, x, WireQuantity(act[t].cmd), TRUE)
          /\ Answered(t, Result("ack", x, <<ReportOf(old, venue'[old], "response"),
                                            ReportOf(x, venue'[x], "response")>>))
    /\ UNCHANGED inflight

\* ... or only the cancel.
BinanceAmendHalfDone(t) ==
    /\ Kind = "Binance"
    /\ "reject" \in Faults
    /\ act[t].pc = "send"
    /\ act[t].cmd.op = "amend"
    /\ ~NothingToReplace(act[t].cmd)
    /\ \E old \in Target(act[t].cmd.cid, orders[act[t].cmd.cid].exid) :
          /\ Working(old)
          /\ VenueMoves(old, [venue[old] EXCEPT !.status = "Canceled"])
          /\ Answered(t, Result("reject", None, <<ReportOf(old, venue'[old], "response")>>))
    /\ UNCHANGED inflight
-----------------------------------------------------------------------------
(* place, cancel, amend: after the venue call *)

\* Mutant: the reports kept back during an amendment are forgotten.
KeptBack_Forgotten(cmd) == <<>>

\* deferred_amend_reports_ of the order, for the command that drains it.
KeptBack(cmd) == IF cmd.op = "amend" THEN deferred[cmd.cid] ELSE <<>>

Finish(t, order, outcome) ==
    LET cmd == act[t].cmd
    IN  /\ Update(t, cmd.cid, order,
                  IF cmd.op = "place" THEN requests ELSE [requests EXCEPT ![cmd] = outcome])
        /\ active' = active \ {cmd.cid}
        /\ act' = [act EXCEPT ![t].pc = "outcome",
                     ![t].reports = act[t].result.reports \o KeptBack(cmd)]
        /\ deferred' = IF cmd.op = "amend" THEN [deferred EXCEPT ![cmd.cid] = <<>>]
                       ELSE deferred
        /\ reconReq' = (reconReq \/ act[t].result.kind = "uncertain")
        /\ UNCHANGED <<connected, ever, serving, rec, journal, outside, counters>>

At(t, op, kind) ==
    act[t].pc = "finish" /\ act[t].cmd.op = op /\ act[t].result.kind = kind

Mine(t) == orders[act[t].cmd.cid]

PlaceRejection(order) ==
    [event |-> 1, client |-> None, exid |-> None, status |-> "Rejected",
     cumulative |-> order.filled, price |-> None, quantity |-> None, sequence |-> None]

PlaceFinish(t) ==
    \/ /\ At(t, "place", "ack")
       /\ Finish(t, [Mine(t) EXCEPT !.exid = act[t].result.exid,
                        !.status = IF @ = "Unknown" THEN "Live" ELSE @,
                        !.pending = "None"], None)
    \/ /\ At(t, "place", "uncertain")
       /\ Finish(t, [Mine(t) EXCEPT !.status = "Unknown", !.pending = "Reconcile"], None)
    \/ /\ At(t, "place", "reject")
       /\ Finish(t, Apply(Mine(t), PlaceRejection(Mine(t))), None)

CancelFinish(t) ==
    \/ /\ At(t, "cancel", "ack")
       /\ Finish(t, Mine(t), "OK")
    \/ /\ At(t, "cancel", "uncertain")
       /\ Finish(t, [Mine(t) EXCEPT !.status = "Unknown", !.pending = "Cancel"], "PENDING")
    \/ /\ At(t, "cancel", "reject")
       /\ Finish(t, [Mine(t) EXCEPT !.pending = "None"], "ERROR")

\* Final fills of the current generation that the answer reports.
FinalFills(order, result) ==
    {OffsetFor(order, r.exid) + r.cumulative :
        r \in {s \in ToSet(result.reports) : s.exid = order.exid}}

FinalFill(order, result) == Max(FinalFills(order, result) \cup {order.filled})

\* The replacement becomes the current generation; its fills are counted from
\* the final fill of the old one.
Replaced(order, result) ==
    LET final == FinalFill(order, result)
        fresh == CHOOSE r \in ToSet(result.reports) : r.exid = result.exid
    IN  [order EXCEPT
           !.aliases = IF order.exid = None THEN @ ELSE @ \cup {order.exid},
           !.filled = final,
           !.exid = result.exid,
           !.offsets[result.exid] = final,
           !.status = IF final > 0 THEN "PartiallyFilled" ELSE "Live",
           !.pendingQuantity = final + fresh.quantity,
           !.clients = @ \cup {result.exid}]

AmendFinish(t) ==
    \/ /\ At(t, "amend", "ack")
       /\ Finish(t, IF act[t].result.exid = None THEN Mine(t)
                    ELSE Replaced(Mine(t), act[t].result), "OK")
    \/ /\ At(t, "amend", "uncertain")
       /\ Finish(t, [Mine(t) EXCEPT !.status = "Unknown", !.pending = "Amend"], "PENDING")
    \/ /\ At(t, "amend", "reject")
       /\ Finish(t, [Mine(t) EXCEPT !.pending = "None", !.pendingQuantity = None,
                                    !.pendingPrice = None], "ERROR")
-----------------------------------------------------------------------------
(* apply_execution *)

\* locate_order_locked: by client id, by alias, by exchange id.
Owner(report) ==
    LET byName == {cid \in Known : report.client \in orders[cid].clients}
        byExid == {cid \in Known :
                     report.exid # None /\ report.exid \in {orders[cid].exid} \cup orders[cid].aliases}
    IN  IF byName # {} THEN CHOOSE cid \in byName : TRUE
        ELSE IF byExid # {} THEN CHOOSE cid \in byExid : TRUE ELSE None

\* Mutant: no report waits.
MustDefer_Never(order, report) == FALSE

\* Binance: reports of a cancel-replace wait for its compound answer.
MustDefer(order, report) ==
    /\ Kind = "Binance"
    /\ order.pending = "Amend"
    /\ \/ OtherGeneration(order, report) /\ ~IsHistoricalGeneration(order, report)
       \/ report.status = "Canceled" /\ report.exid = order.exid

\* Does apply_execution change and journal an order?
Records(report) ==
    /\ Owner(report) # None
    /\ ~MustDefer(orders[Owner(report)], report)
    /\ Disposition(orders[Owner(report)], report) \notin {"Duplicate", "Invalid"}

\* A Duplicate changes nothing: the index and alias entries made for it are there since the first one.
ApplyExecution(a, report) ==
    LET cid == Owner(report)
    IN  IF Records(report)
        THEN /\ Update(a, cid, Apply(orders[cid], report), requests)
             /\ UNCHANGED <<deferred, reconReq>>
        ELSE /\ deferred' = IF cid # None /\ MustDefer(orders[cid], report)
                            THEN [deferred EXCEPT ![cid] = Append(@, report)] ELSE deferred
             /\ reconReq' = (reconReq \/
                   (/\ cid # None /\ ~MustDefer(orders[cid], report)
                    /\ Disposition(orders[cid], report) = "Invalid"))
             /\ UNCHANGED core

\* The worker of the lane takes a report and applies it.
LaneApply ==
    /\ act["lane"].pc = "idle"
    /\ lane # <<>>
    /\ lane' = Tail(lane)
    /\ ApplyExecution("lane", Head(lane))
    /\ IF Records(Head(lane)) THEN Goto("lane", "applied") ELSE UNCHANGED act
    /\ UNCHANGED <<active, connected, ever, serving, rec, journal, venue, stamp, inflight,
                   counters>>

\* A command applies the reports its answer brought, and those it kept back.
CommandApply(t) ==
    /\ act[t].pc = "apply"
    /\ act[t].reports # <<>>
    /\ ApplyExecution(t, Head(act[t].reports))
    /\ act' = [act EXCEPT ![t].reports = Tail(@),
                          ![t].pc = IF Records(Head(act[t].reports)) THEN "applied" ELSE "apply"]
    /\ UNCHANGED <<active, connected, ever, serving, rec, journal, outside, counters>>

CommandReturn(t) ==
    /\ act[t].pc = "apply"
    /\ act[t].reports = <<>>
    /\ act' = [act EXCEPT ![t] = Idle]
    /\ UNCHANGED <<core, active, deferred, health, rec, journal, outside, counters>>
-----------------------------------------------------------------------------
(* reconcile *)

R == "reconciler"
Rec(pc) == act[R].pc = pc
Unresolved(b) == rec.unresolved \/ b
RecKeeps == UNCHANGED <<active, connected, ever, serving, journal, outside, counters>>
OrdersKept == UNCHANGED <<core, deferred, reconReq>>

\* Mutant: only orders with a pending action are candidates.
Candidates_OnlyPending == {cid \in Known : orders[cid].pending # "None"}

Candidates == Known

\* The timer, a reconnect or start() begins a pass; the candidates are read.
RecBegin ==
    /\ Rec("idle")
    /\ Reconciling \/ ~serving
    /\ rec' = [NoRec EXCEPT !.todo = Candidates]
    /\ Goto(R, "snapshot")
    /\ OrdersKept /\ RecKeeps

OpenReports == [x \in {y \in ExchangeIds : Working(y)} |-> ReportOf(x, venue[x], "query")]

RecSnapshot ==
    /\ Rec("snapshot")
    /\ act' = [act EXCEPT ![R].pc = "open",
                          ![R].reports = SetToSeq({OpenReports[x] : x \in DOMAIN OpenReports})]
    /\ UNCHANGED rec /\ OrdersKept /\ RecKeeps

RecSnapshotFails ==
    /\ Rec("snapshot")
    /\ "query" \in Faults
    /\ rec' = [rec EXCEPT !.unresolved = TRUE]
    /\ Goto(R, "candidates")
    /\ OrdersKept /\ RecKeeps

\* The first lock on an open order: foreign, terminal here, or ours.
RecOpen ==
    /\ Rec("open")
    /\ IF act[R].reports = <<>> THEN Goto(R, "candidates") /\ UNCHANGED rec
       ELSE LET cid == Owner(Head(act[R].reports))
            IN  IF cid = None \/ IsTerminal(orders[cid].status)
                THEN /\ act' = [act EXCEPT ![R].reports = Tail(@)]
                     /\ rec' = [rec EXCEPT !.unresolved = Unresolved(cid # None)]
                ELSE /\ act' = [act EXCEPT ![R].reports[1].client = cid, ![R].pc = "openApply"]
                     /\ rec' = [rec EXCEPT !.observed = @ \cup {cid}, !.cid = cid]
    /\ OrdersKept /\ RecKeeps

\* The second lock: apply_execution on an open order or on a query's answer.
RecApply ==
    /\ Rec("openApply") \/ Rec("answer")
    /\ ApplyExecution(R, Head(act[R].reports))
    /\ act' = [act EXCEPT ![R].reports = Tail(@),
                          ![R].pc = IF Records(Head(act[R].reports)) THEN "applied" ELSE "judge"]
    /\ UNCHANGED rec /\ RecKeeps

\* get(): an order with a pending action is not resolved.
RecJudge ==
    /\ Rec("judge")
    /\ rec' = [rec EXCEPT !.unresolved = Unresolved(orders[rec.cid].pending # "None")]
    /\ Goto(R, IF act[R].reports # <<>> THEN "open" ELSE "candidates")
    /\ OrdersKept /\ RecKeeps

RecCandidate(cid) ==
    /\ Rec("candidates")
    /\ cid \in rec.todo \ rec.observed
    /\ IF cid \in active \/ IsTerminal(orders[cid].status)
       THEN rec' = [rec EXCEPT !.todo = @ \ {cid}] /\ UNCHANGED act
       ELSE /\ rec' = [rec EXCEPT !.todo = @ \ {cid}, !.cid = cid, !.exid = orders[cid].exid]
            /\ Goto(R, "query")
    /\ OrdersKept /\ RecKeeps

RecQuery ==
    /\ Rec("query")
    /\ \E x \in Target(rec.cid, rec.exid) :
          act' = [act EXCEPT ![R].pc = "answer",
                    ![R].reports = <<[ReportOf(x, venue[x], "query") EXCEPT !.client =
                                        IF Kind = "Okx" THEN rec.cid ELSE @]>>]
    /\ UNCHANGED rec /\ OrdersKept /\ RecKeeps

\* nullopt: the venue does not know the order, or the rate limit is exhausted.
RecQueryNull ==
    /\ Rec("query")
    /\ "query" \in Faults \/ Target(rec.cid, rec.exid) = {}
    /\ Goto(R, "null")
    /\ UNCHANGED rec /\ OrdersKept /\ RecKeeps

\* OkxAdapter::query lets a transport error through.
RecQueryThrows ==
    /\ Rec("query")
    /\ Kind = "Okx"
    /\ "query" \in Faults
    /\ rec' = [rec EXCEPT !.unresolved = TRUE]
    /\ Goto(R, "candidates")
    /\ OrdersKept /\ RecKeeps

\* An order the venue does not know, or not at present, is UNKNOWN.
Unknowable(order) == [order EXCEPT !.status = "Unknown", !.pending = "Reconcile"]

\* This is the order of this moment, and the position is not adjusted.
RecNull ==
    /\ Rec("null")
    /\ orders' = [orders EXCEPT ![rec.cid] = Unknowable(@)]
    /\ Reserve(R, rec.cid, Unknowable(orders[rec.cid]), requests)
    /\ rec' = [rec EXCEPT !.unresolved = TRUE]
    /\ Goto(R, "applied")
    /\ UNCHANGED <<requests, position, deferred, reconReq>> /\ RecKeeps

RecEnd ==
    /\ Rec("candidates")
    /\ rec.todo \ rec.observed = {}
    /\ reconReq' = rec.unresolved
    /\ serving' = TRUE
    /\ rec' = NoRec
    /\ act' = [act EXCEPT ![R] = Idle]
    /\ UNCHANGED <<core, active, deferred, connected, ever, journal, outside, counters>>

RecStep ==
    \/ RecSnapshot \/ RecSnapshotFails \/ RecOpen \/ RecApply \/ RecJudge
    \/ \E cid \in Cids : RecCandidate(cid)
    \/ RecQuery \/ RecQueryNull \/ RecQueryThrows \/ RecNull \/ RecEnd
-----------------------------------------------------------------------------
(* connection_changed, crash and restart *)

Disconnect ==
    /\ connected
    /\ disconnects < MaxDisconnects
    /\ connected' = FALSE
    /\ reconReq' = TRUE
    /\ disconnects' = disconnects + 1
    /\ UNCHANGED <<core, active, deferred, ever, serving, act, rec, journal, outside, sent,
                   calls, crashes, scenario>>

Connect ==
    /\ ~connected
    /\ connected' = TRUE
    /\ ever' = TRUE
    /\ reconReq' = (reconReq \/ ever)
    /\ UNCHANGED <<core, active, deferred, serving, act, rec, journal, outside, counters>>

\* restore: the adapter learns the aliases the orders carry.
Restored(x, book) == \E cid \in Cids : book[cid] # None /\ x \in book[cid].clients

\* The process dies; the constructor rebuilds everything from the journal and
\* start() reconciles before commands are served.
Crash ==
    /\ crashes < MaxCrashes
    /\ crashes' = crashes + 1
    /\ orders' = [cid \in Cids |-> IF journal[cid] = None THEN None ELSE journal[cid].order]
    /\ requests' = [k \in Commands |->
          IF journal[k.cid] = None THEN "absent" ELSE journal[k.cid].requests[k]]
    /\ position' = Exposure(orders')
    /\ active' = {}
    /\ deferred' = [cid \in Cids |-> <<>>]
    /\ reconReq' = FALSE
    /\ connected' = FALSE
    /\ ever' = FALSE
    /\ serving' = FALSE
    /\ lane' = <<>>
    /\ act' = [a \in Actors |-> Idle]
    /\ rec' = NoRec
    /\ reserved' = <<>>
    /\ inflight' = {[r EXCEPT !.known = FALSE] : r \in inflight}
    /\ venue' = [x \in ExchangeIds |->
          IF venue[x] = None THEN None
          ELSE [venue[x] EXCEPT !.known = venue[x].first \/ Restored(x, orders')]]
    /\ UNCHANGED <<journal, stamp, sent, calls, disconnects, scenario>>
-----------------------------------------------------------------------------
CommandStep(t) ==
    \/ SendUncertain(t) \/ SendRejected(t)
    \/ PlaceAccepted(t) \/ CancelAccepted(t)
    \/ OkxAmendAccepted(t) \/ OkxAmendMade(t)
    \/ BinanceAmendAccepted(t) \/ BinanceAmendHalfDone(t)
    \/ PlaceFinish(t) \/ CancelFinish(t) \/ AmendFinish(t)
    \/ CommandApply(t) \/ CommandReturn(t)

Next ==
    \/ \E t \in Threads, cmd \in Commands :
          \/ PlaceBegin(t, cmd) \/ PlaceReject(t, cmd)
          \/ CancelBegin(t, cmd) \/ AmendBegin(t, cmd)
    \/ \E t \in Threads : CommandStep(t)
    \/ \E a \in Actors : CommitPersist(a) \/ CommitFails(a)
    \/ LaneApply
    \/ RecBegin \/ RecStep
    \/ Disconnect \/ Connect \/ Crash
    \/ \E x \in ExchangeIds, n \in 1 .. PositionLimit : VenueFill(x, n)
    \/ \E r \in inflight : VenueArrive(r) \/ VenueLose(r)

Spec == Init /\ [][Next]_vars

(***************************************************************************)
(* Threads that are inside a call go on, the worker of the lane drains it, *)
(* the timer of the reconciliation worker (30 s by default) always fires   *)
(* again, a lost stream is reconnected, and a request on its way is        *)
(* executed or lost some day.  Nobody is obliged to trade, to send a       *)
(* command, to crash or to disconnect.                                     *)
(***************************************************************************)
Fairness ==
    /\ \A t \in Threads : WF_vars(CommandStep(t) \/ CommitPersist(t))
    /\ WF_vars(LaneApply \/ CommitPersist("lane"))
    /\ WF_vars(RecBegin \/ RecStep \/ CommitPersist("reconciler"))
    /\ WF_vars(Connect)
    /\ WF_vars(\E r \in inflight : VenueArrive(r) \/ VenueLose(r))

FairSpec == Spec /\ Fairness
-----------------------------------------------------------------------------
InVenueCall(t) == act[t].pc \in {"intent", "send", "finish"}

PhysOf(cid) == {x \in ExchangeIds : venue[x] # None /\ venue[x].cid = cid}

\* The fills of all generations of an order.
VenueFilled(cid) ==
    LET xs == SetToSeq(ExchangeIds)
        total[n \in 0 .. Cardinality(ExchangeIds)] ==
            IF n = 0 THEN 0
            ELSE total[n - 1] + (IF xs[n] \in PhysOf(cid) THEN venue[xs[n]].filled ELSE 0)
    IN  total[Cardinality(ExchangeIds)]

\* The commands that took terms of an order to the adapter.
Offered(cid) == {k \in RequestsOf(cid) : k.op # "cancel" /\ sent[k] > 0}

\* What the account holds if every order that still works fills completely.
VenueExposure ==
    LET Add(acc, x) == acc + (IF Working(x) THEN venue[x].quantity ELSE venue[x].filled)
    IN  FoldLeft(Add, 0, SetToSeq(UNION {PhysOf(cid) : cid \in Cids}))

\* No actor is at work, nothing is on its way, and the gateway calls itself well.
QuietAndHealthy ==
    /\ \A a \in Actors : act[a].pc = "idle"
    /\ lane = <<>> /\ inflight = {}
    /\ serving /\ connected /\ ~reconReq

(***************************************************************************)
(* docs/ARCHITECTURE.md:194: a complete journal record is appended before  *)
(* the venue call.  Whatever is appended out of order meanwhile and        *)
(* whenever the process dies, a restart finds the order and the request of *)
(* everything that was ever sent (prepare_persist, commit_persist).        *)
(***************************************************************************)
AppendBeforeRoute ==
    \A k \in Commands : sent[k] > 0 =>
        /\ journal[k.cid] # None
        /\ k.op # "place" => journal[k.cid].requests[k] # "absent"

(***************************************************************************)
(* README.md:142: a retry of a command, concurrent or after a restart,     *)
(* makes no second venue call; nor does another payload under the same     *)
(* identifier (replay_if_present, processed_requests).                     *)
(***************************************************************************)
SameIdentifier(k, l) ==
    k.op = l.op /\ k.cid = l.cid /\ (k.op = "place" \/ k.req = l.req)

AtMostOnceSent ==
    \A k, l \in Commands :
        SameIdentifier(k, l) => IF k = l THEN sent[k] <= 1 ELSE sent[k] + sent[l] <= 1

(***************************************************************************)
(* The write-ahead discipline of place, cancel and amend as a whole: a     *)
(* command is routed after its journal record and once only.               *)
(***************************************************************************)
RoutedOnce == AppendBeforeRoute /\ AtMostOnceSent

(***************************************************************************)
(* Two commands are never in venue I/O for one order, and an order marked  *)
(* active has a command that will release it (active_operations_), unless  *)
(* the append of an intent has thrown.                                     *)
(***************************************************************************)
OneOperationPerOrder ==
    /\ \A s, t \in Threads :
          InVenueCall(s) /\ InVenueCall(t) /\ act[s].cmd.cid = act[t].cmd.cid => s = t
    /\ "journal" \in Faults \/ \A cid \in active : \E t \in Threads : InVenueCall(t) /\ act[t].cmd.cid = cid

(***************************************************************************)
(* The gateway can tell facts from traces of an earlier generation: an OKX *)
(* order has one generation only, and the generations of a Binance order   *)
(* are kept apart as long as the process has not restarted and no pass of  *)
(* reconciliation runs beside a cancel-replace.                            *)
(***************************************************************************)
GenerationsKnown == Kind = "Okx" \/ (~Reconciling /\ crashes = 0)

(***************************************************************************)
(* An order the gateway holds to be finished does not trade any more: no   *)
(* physical order of any generation still works.                           *)
(***************************************************************************)
TerminalAgreesWithVenue ==
    GenerationsKnown => \A cid \in Known :
        IsTerminal(orders[cid].status) => \A x \in PhysOf(cid) : ~Working(x)

(***************************************************************************)
(* The fills an order shows were made by the venue, generation offsets     *)
(* and reports of two channels notwithstanding.  An OKX order that an      *)
(* amendment made smaller is excepted: a late report with the old terms,   *)
(* applied to the FILLED order, fills it up to the old quantity.           *)
(***************************************************************************)
NotReduced(cid) == \A k, l \in Offered(cid) : k.op = "amend" => l.quantity <= k.quantity

NoPhantomFill ==
    GenerationsKnown => \A cid \in Known :
        Kind = "Binance" \/ NotReduced(cid) => orders[cid].filled <= VenueFilled(cid)

(***************************************************************************)
(* When the gateway reports the venue as connected and in no need of       *)
(* reconciliation, and nothing is under way, its orders say what the venue *)
(* says: docs/ARCHITECTURE.md:238, overflow is "an operational fault to    *)
(* alert and reconcile, not permission to silently discard                 *)
(* state-changing reports".  It holds up to the first failed append, the   *)
(* first pass, which clears the flag although a report may have been       *)
(* dropped while it ran, and the first restart, whose pass may end before  *)
(* the stream is there.                                                    *)
(***************************************************************************)
HealthyMeansConverged ==
    QuietAndHealthy /\ ~Reconciling /\ crashes = 0 /\ "journal" \notin Faults => \A cid \in Known :
        /\ orders[cid].filled = VenueFilled(cid)
        /\ IsTerminal(orders[cid].status) <=> \A x \in PhysOf(cid) : ~Working(x)

\* The adapter was never asked to amend the order.
NotAmended(cid) == \A k \in Offered(cid) : k.op # "amend"

(***************************************************************************)
(* README.md:148, "Conservative position limit: full-fill view of open     *)
(* orders": what the venue may still fill never exceeds the limit, with    *)
(* OKX, as long as no amendment runs beside a placement, and as long as    *)
(* orders are on one side: purchases and sales are set off against each    *)
(* other although only one of them may fill.                               *)
(***************************************************************************)
ExposureWithinLimit ==
    /\ Kind = "Okx"
    /\ \E side \in {"Buy", "Sell"} : \A cid \in Known : SideOf(cid) = side
    /\ Cardinality(Known) <= 1 \/ \A cid \in Known : NotAmended(cid)
    => VenueExposure <= PositionLimit

(***************************************************************************)
(* What stands at the venue keeps the limits of size and notional value,   *)
(* amendments and replacements included, and an order that was never       *)
(* amended keeps the rules of an instrument that trades.  The notional     *)
(* value is meant exactly: the digits Decimal cuts off let an order exceed *)
(* the limit by less than one unit, and never let it fall short of the     *)
(* venue's minimum.                                                        *)
(***************************************************************************)
VenueOrdersLegal ==
    \A cid \in Known : \A x \in PhysOf(cid) :
        LET quantity == venue[x].quantity
            price == orders[cid].price
        IN  /\ quantity <= scenario.limits.maxOrderSize
            /\ price # None => quantity * price < (scenario.limits.maxNotional + 1) * Scale
            /\ NotAmended(cid) => \E rules \in scenario.rules \ {None} :
                  /\ rules.trading /\ Within(quantity, rules.quantity)
                  /\ price # None => /\ Within(price, rules.price)
                                     /\ rules.notional.min # None =>
                                           quantity * price >= rules.notional.min * Scale

(***************************************************************************)
(* The gateway shows only what is a fact at the venue: an order it calls   *)
(* finished is finished, and the fills it shows were made.                 *)
(***************************************************************************)
OnlyFacts == TerminalAgreesWithVenue /\ NoPhantomFill

(***************************************************************************)
(* docs/ARCHITECTURE.md:162: "Terminal states cannot return to a live      *)
(* state."                                                                 *)
(***************************************************************************)
TerminalIsFinal ==
    [][\A cid \in Known : IsTerminal(orders[cid].status) /\ crashes' = crashes =>
          IsTerminal(orders'[cid].status)]_vars

(***************************************************************************)
(* The incrementally maintained position is the sum over the order book,   *)
(* however commands, reports and reconciliation interleave: include/abex/  *)
(* application/order_gateway.hpp:164, "snapshots are always consistent     *)
(* with orders_ state".  A step moves the position by what it moves the    *)
(* sum, and a restart sets it to the sum.  One step is excepted: a pass    *)
(* whose query found nothing calls the order UNKNOWN without adjusting the *)
(* position, although the order may have become terminal meanwhile.        *)
(***************************************************************************)
ReopensTerminal == act[R].pc = "null" /\ act'[R].pc = "applied" /\ IsTerminal(orders[rec.cid].status)

PositionKept ==
    [][IF crashes' = crashes
       THEN ReopensTerminal \/ position' - position = Exposure(orders)' - Exposure(orders)
       ELSE position' = Exposure(orders)']_vars

(***************************************************************************)
(* Every fill reaches the order in the end, although the stream loses      *)
(* reports when it is down or the lane is full: the next pass of           *)
(* reconciliation finds it.                                                *)
(***************************************************************************)
Quantities == {k.quantity : k \in UNION {s.commands : s \in Scenarios}} \ {0}
FillsArrive ==
    \A cid \in Cids, n \in Quantities :
        (VenueFilled(cid) >= n) ~> (cid \in Known /\ orders[cid].filled >= n)
=============================================================================
