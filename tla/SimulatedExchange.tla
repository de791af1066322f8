--------------------------- MODULE SimulatedExchange ---------------------------
(***************************************************************************)
(* The simulated venue (src/infrastructure/simulated_exchange_adapter.cpp) *)
(* and what the gateway makes of its reports: the sequence tracker of the  *)
(* venue (include/abex/application/sequence_tracker.hpp) and the state     *)
(* machine of the order.                                                   *)
(*                                                                         *)
(* One thread issues commands (the CLI, which also disconnects, reconnects *)
(* and simulates fills), the market-data feed fills the orders its quotes  *)
(* reach, and the worker of the lane applies the reports.  A report gets   *)
(* its number in one step and is handed over in a later one, so numbers    *)
(* can arrive out of order.  Prices and balances are left out: a quote     *)
(* reaches any set of open orders.  The venue is OKX: an amendment changes *)
(* the order in place.                                                     *)
(***************************************************************************)
EXTENDS OrderStateMachine, Sequences, FiniteSets, FiniteSetsExt, SequencesExt

CONSTANTS Cids, SimQuantities,
          MaxCalls,          \* bound on commands
          MaxNumbers,        \* bound on numbers given to reports in one life
          MaxFaults          \* bound on disconnections and restarts

\* The simulator's copy of an order, as far as the reports tell it.
SimStatuses == {"Live", "PartiallyFilled", "Filled", "Canceled", "Unknown"}
SimOrderType ==
    [exid : ExchangeIds \cup {None}, quantity : Nat, filled : Nat, status : SimStatuses]

\* Every command may need an exchange identifier of its own.
ASSUME SimAssumption ==
    /\ Cids \subseteq STRING /\ IsFiniteSet(Cids) /\ SimQuantities \subseteq Nat \ {0}
    /\ MaxCalls \in Nat /\ MaxNumbers \in Nat /\ MaxFaults \in Nat
    /\ 1 .. MaxCalls \subseteq ExchangeIds
    /\ None \notin SimOrderType

VARIABLES
    orders,       \* orders_ of the simulator
    nextSequence, nextExchangeId,
    connected,
    buffered,     \* buffered_reports_
    thread,       \* where each thread is, its order and the reports it holds
    lane,         \* reports handed to the gateway and not yet applied
    view,         \* the gateway's orders
    doubt,        \* orders with a command that had no answer (they wait for reconciliation), or
                  \* amended below what the simulator had filled
    tracker,      \* sequence_trackers_ of the venue
    seen,         \* the numbers the gateway has applied in this life, in order
    config,       \* Config::report_before_ack
    bounds        \* calls and faults so far, and the first number of this life

venueVars == <<orders, nextSequence, nextExchangeId>>
gatewayVars == <<lane, view, doubt, tracker, seen>>
simVars == <<orders, nextSequence, nextExchangeId, connected, buffered, thread, lane, view,
             doubt, tracker, seen, config, bounds>>

Threads == {"cli", "feed"}
Idle == [pc |-> "idle", op |-> "none", cid |-> None, quantity |-> 0, held |-> <<>>,
         matched |-> FALSE]
ThreadSteps == {"idle", "locked", "number", "publish", "emit", "match", "swap", "deliver",
                "ack", "reject", "uncertain"}
NoSequence == [last |-> None, gap |-> FALSE]

SimTypeOK ==
    /\ \A c \in Cids : orders[c] # None => orders[c] \in SimOrderType
    /\ nextSequence \in Nat \ {0} /\ nextExchangeId \in Nat \ {0}
    /\ connected \in BOOLEAN
    /\ \A t \in Threads : thread[t].pc \in ThreadSteps
    /\ \A c \in Cids : view[c] # None => view[c] \in OrderType
    /\ tracker.last \in Nat \cup {None} /\ tracker.gap \in BOOLEAN

SimInit ==
    /\ orders = [c \in Cids |-> None]
    /\ nextSequence = 1 /\ nextExchangeId = 1
    /\ connected = TRUE
    /\ buffered = <<>> /\ lane = <<>>
    /\ thread = [t \in Threads |-> Idle]
    /\ view = [c \in Cids |-> None]
    /\ tracker = NoSequence /\ seen = <<>> /\ doubt = {}
    /\ config \in BOOLEAN
    /\ bounds = [calls |-> 0, faults |-> 0, first |-> 1]
-----------------------------------------------------------------------------
(* Helpers of the adapter *)

Goto(t, pc) == thread' = [thread EXCEPT ![t].pc = pc]
Open(c) == orders[c] # None /\ ~IsTerminal(orders[c].status)

\* report_for: the report of an order as it was copied, before it gets its number.
SimReportFor(c, order) ==
    [event |-> None, client |-> c, exid |-> order.exid, status |-> order.status,
     cumulative |-> order.filled, price |-> None, quantity |-> order.quantity,
     sequence |-> None]
Numbered(report, n) == [report EXCEPT !.event = n, !.sequence = n]
Number(t) ==
    /\ thread[t].pc = "number"
    /\ thread' = [thread EXCEPT ![t].pc = "publish", ![t].held = <<Numbered(Head(@), nextSequence)>>]
    /\ nextSequence' = nextSequence + 1
    /\ UNCHANGED <<orders, nextExchangeId, connected, buffered, gatewayVars, bounds>>

\* Where a thread goes when it holds no report any more.
AfterPublish(t) ==
    CASE t = "feed" \/ thread[t].op = "emit" -> [thread EXCEPT ![t] = Idle]
      [] t = "cli" /\ thread[t].op \in {"place", "amend"} /\ ~thread[t].matched ->
            [thread EXCEPT ![t].pc = "match"]
      [] OTHER -> [thread EXCEPT ![t].pc = "ack"]

\* publish_or_buffer, under mutex_: a report without a connection waits in buffered_reports_.
PublishOrBuffer(t) ==
    /\ thread[t].pc = "publish"
    /\ CASE thread[t].held = <<>> -> thread' = AfterPublish(t) /\ UNCHANGED buffered
         [] thread[t].held # <<>> /\ connected -> Goto(t, "emit") /\ UNCHANGED buffered
         [] OTHER -> /\ buffered' = Append(buffered, Head(thread[t].held))
                     /\ thread' = [thread EXCEPT ![t].held = Tail(@)]
    /\ UNCHANGED <<venueVars, connected, gatewayVars, bounds>>
\* ... and the callback, under execution_emit_mutex_.
EmitReport(t) ==
    /\ thread[t].pc = "emit"
    /\ lane' = Append(lane, Head(thread[t].held))
    /\ thread' = [thread EXCEPT ![t].held = Tail(@), ![t].pc = "publish"]
    /\ UNCHANGED <<venueVars, connected, buffered, view, doubt, tracker, seen, bounds>>

\* match_orders, under mutex_: the quote fills every order it reaches, and numbers the reports.
Match(t, reached) ==
    LET filled == [c \in reached |-> [orders[c] EXCEPT !.status = "Filled", !.filled = orders[c].quantity]]
        inTurn == SetToSeq(reached)
    IN  /\ reached \subseteq {c \in Cids : Open(c)}
        /\ nextSequence + Cardinality(reached) <= bounds.first + MaxNumbers
        /\ orders' = [c \in Cids |-> IF c \in reached THEN filled[c] ELSE orders[c]]
        /\ nextSequence' = nextSequence + Cardinality(reached)
        /\ thread' = [thread EXCEPT ![t].pc = "publish", ![t].matched = TRUE,
                        ![t].held = [i \in 1 .. Len(inTurn) |->
                            Numbered(SimReportFor(inTurn[i], filled[inTurn[i]]), nextSequence + i - 1)]]
        /\ UNCHANGED <<nextExchangeId, connected, buffered, gatewayVars, bounds>>
FeedMatches ==
    /\ thread["feed"].pc = "idle" /\ connected
    /\ \E reached \in SUBSET Cids \ {{}} : Match("feed", reached)
\* place and amend match the order against the latest quote, if there is a fresh one.
CommandMatches ==
    /\ thread["cli"].pc = "match"
    /\ \E reached \in SUBSET Cids : Match("cli", reached)
-----------------------------------------------------------------------------
(* Commands: the gateway marks its order, the adapter acts, the gateway takes the answer *)

Mine == thread["cli"].cid
Begin(op, c, quantity) ==
    /\ thread["cli"].pc = "idle" /\ bounds.calls < MaxCalls
    /\ bounds' = [bounds EXCEPT !.calls = @ + 1]
    /\ thread' = [thread EXCEPT !["cli"] = [Idle EXCEPT !.op = op, !.cid = c, !.quantity = quantity,
                     !.pc = IF connected THEN "locked" ELSE "uncertain"]]
    /\ UNCHANGED <<venueVars, connected, buffered, lane, doubt, tracker, seen>>
PlaceBegin(c, q) ==
    /\ view[c] = None
    /\ view' = [view EXCEPT ![c] = MakeOrder(c, None, q)]
    /\ Begin("place", c, q)
Changeable(c) == view[c] # None /\ ~IsTerminal(view[c].status) /\ view[c].pending = "None"
CancelBegin(c) ==
    /\ Changeable(c)
    /\ view' = [view EXCEPT ![c].pending = "Cancel"]
    /\ Begin("cancel", c, 0)
AmendBegin(c, q) ==
    /\ Changeable(c) /\ q > view[c].filled /\ q # view[c].quantity
    /\ view' = [view EXCEPT ![c].pending = "Amend", ![c].pendingQuantity = q]
    /\ Begin("amend", c, q)

AtLock(op) == thread["cli"].pc = "locked" /\ thread["cli"].op = op
\* The copy of the order that the command reports once mutex_ is released.
Report(order) == thread' = [thread EXCEPT !["cli"].pc = "number",
                              !["cli"].held = <<SimReportFor(Mine, order)>>]
RoomToReport == nextSequence < bounds.first + MaxNumbers

RateLimited ==
    /\ thread["cli"].pc = "locked" /\ thread["cli"].op # "emit"
    /\ Goto("cli", "reject")
    /\ UNCHANGED <<venueVars, connected, buffered, gatewayVars, bounds>>
PlaceLocked ==
    /\ AtLock("place") /\ RoomToReport
    /\ orders' = [orders EXCEPT ![Mine] = [exid |-> nextExchangeId, quantity |-> thread["cli"].quantity,
                                           filled |-> 0, status |-> "Live"]]
    /\ nextExchangeId' = nextExchangeId + 1
    /\ IF config THEN Report([orders'[Mine] EXCEPT !.exid = None]) ELSE Goto("cli", "match")
    /\ UNCHANGED <<nextSequence, connected, buffered, gatewayVars, bounds>>

\* Mutant: a filled order is canceled all the same.
MayCancel_Filled(order) == order # None
MayCancel(order) == order # None /\ order.status # "Filled"
CancelLocked ==
    /\ AtLock("cancel") /\ RoomToReport
    /\ IF MayCancel(orders[Mine])
       THEN orders' = [orders EXCEPT ![Mine].status = "Canceled"] /\ Report(orders'[Mine])
       ELSE Goto("cli", "reject") /\ UNCHANGED orders
    /\ UNCHANGED <<nextSequence, nextExchangeId, connected, buffered, gatewayVars, bounds>>
AmendLocked ==
    /\ AtLock("amend") /\ RoomToReport
    /\ IF Open(Mine)
       THEN /\ orders' = [orders EXCEPT ![Mine].quantity = thread["cli"].quantity]
            /\ doubt' = IF thread["cli"].quantity < orders[Mine].filled THEN doubt \cup {Mine} ELSE doubt
            /\ Report(orders'[Mine])
       ELSE Goto("cli", "reject") /\ UNCHANGED <<orders, doubt>>
    /\ UNCHANGED <<nextSequence, nextExchangeId, connected, buffered, lane, view, tracker, seen, bounds>>
\* emit, for a partial fill of an open order (the command `simulate').
EmitLocked(c, n) ==
    /\ thread["cli"].pc = "idle" /\ RoomToReport /\ bounds.calls < MaxCalls
    /\ orders' = [orders EXCEPT ![c].filled = Max({@, n}), ![c].status = "PartiallyFilled"]
    /\ thread' = [thread EXCEPT !["cli"] = [Idle EXCEPT !.pc = "number", !.op = "emit", !.cid = c,
                     !.held = <<[SimReportFor(c, orders'[c]) EXCEPT !.cumulative = n]>>]]
    /\ bounds' = [bounds EXCEPT !.calls = @ + 1]
    /\ UNCHANGED <<nextSequence, nextExchangeId, connected, buffered, gatewayVars>>

\* What the gateway does with the answer.
Answer(order) ==
    /\ view' = [view EXCEPT ![Mine] = order]
    /\ thread' = [thread EXCEPT !["cli"] = Idle]
    /\ UNCHANGED <<venueVars, connected, buffered, lane, tracker, seen, bounds>>
Rejection == [event |-> None, client |-> None, exid |-> None, status |-> "Rejected",
              cumulative |-> view[Mine].filled, price |-> None, quantity |-> None, sequence |-> None]
Acked ==
    /\ thread["cli"].pc = "ack" /\ UNCHANGED doubt
    /\ Answer(IF thread["cli"].op # "place" THEN view[Mine]
              ELSE [view[Mine] EXCEPT !.exid = orders[Mine].exid, !.pending = "None",
                                      !.status = IF @ = "Unknown" THEN "Live" ELSE @])
Rejected ==
    /\ thread["cli"].pc = "reject" /\ UNCHANGED doubt
    /\ Answer(IF thread["cli"].op = "place" THEN Apply(view[Mine], Rejection)
              ELSE [view[Mine] EXCEPT !.pending = "None", !.pendingQuantity = None])
Uncertain ==
    /\ thread["cli"].pc = "uncertain" /\ doubt' = doubt \cup {Mine}
    /\ Answer([view[Mine] EXCEPT !.status = "Unknown",
                  !.pending = CASE thread["cli"].op = "place" -> "Reconcile"
                                [] thread["cli"].op = "cancel" -> "Cancel"
                                [] OTHER -> "Amend"])
-----------------------------------------------------------------------------
(* disconnect, reconnect, restore *)

Disconnect ==
    /\ thread["cli"].pc = "idle" /\ connected /\ bounds.faults < MaxFaults
    /\ connected' = FALSE
    /\ bounds' = [bounds EXCEPT !.faults = @ + 1]
    /\ UNCHANGED <<venueVars, buffered, thread, gatewayVars>>

DeliverBuffered ==
    /\ thread["cli"].pc = "deliver"
    /\ lane' = lane \o thread["cli"].held
    /\ thread' = [thread EXCEPT !["cli"] = Idle]
    /\ UNCHANGED <<venueVars, connected, buffered, view, doubt, tracker, seen, bounds>>
\* Mutant: the buffer is emptied before the connection is declared up.
Reconnect_SwapsFirst ==
    /\ \/ /\ thread["cli"].pc = "idle" /\ ~connected
          /\ thread' = [thread EXCEPT !["cli"].pc = "swap", !["cli"].held = buffered]
          /\ buffered' = <<>>
          /\ UNCHANGED connected
       \/ /\ thread["cli"].pc = "swap"
          /\ connected' = TRUE
          /\ Goto("cli", "deliver")
          /\ UNCHANGED buffered
    /\ UNCHANGED <<venueVars, gatewayVars, bounds>>
\* reconnect: the connection is up, the buffer is taken under mutex_ and delivered in one go.
Reconnect ==
    /\ \/ /\ thread["cli"].pc = "idle" /\ ~connected
          /\ connected' = TRUE
          /\ Goto("cli", "swap")
          /\ UNCHANGED buffered
       \/ /\ thread["cli"].pc = "swap"
          /\ thread' = [thread EXCEPT !["cli"].pc = "deliver", !["cli"].held = buffered]
          /\ buffered' = <<>>
          /\ UNCHANGED connected
    /\ UNCHANGED <<venueVars, gatewayVars, bounds>>

\* restore: the counters move past what the recovered open orders show.
Past(used) == Max({1} \cup {n + 1 : n \in used})
\* The process dies; the simulator is rebuilt from the orders the gateway recovered.
Restart ==
    LET recovered == {c \in Cids : view[c] # None /\ ~IsTerminal(view[c].status)}
    IN  /\ bounds.faults < MaxFaults
        /\ orders' = [c \in Cids |-> IF c \notin recovered THEN None
              ELSE [exid |-> view[c].exid, quantity |-> view[c].quantity,
                    filled |-> view[c].filled, status |-> view[c].status]]
        /\ nextSequence' = Past({view[c].lastSequence : c \in recovered} \ {None})
        /\ nextExchangeId' = Past({view[c].exid : c \in recovered} \ {None})
        /\ connected' = TRUE /\ buffered' = <<>> /\ lane' = <<>>
        /\ thread' = [t \in Threads |-> Idle]
        /\ tracker' = NoSequence /\ seen' = <<>>
        /\ bounds' = [bounds EXCEPT !.faults = @ + 1, !.first = nextSequence']
        /\ UNCHANGED <<view, doubt>>
-----------------------------------------------------------------------------
(* The gateway's side of a report *)

\* SequenceTracker::observe
Observe(t, n) ==
    IF t.last = None THEN [t EXCEPT !.last = n]
    ELSE IF n <= t.last THEN t
    ELSE [last |-> n, gap |-> t.gap \/ n > t.last + 1]

LaneApply ==
    /\ lane # <<>>
    /\ LET r == Head(lane) IN
        /\ view' = [view EXCEPT ![r.client] = Apply(@, r)]
        /\ tracker' = Observe(tracker, r.sequence)
        /\ seen' = Append(seen, r.sequence)
    /\ lane' = Tail(lane)
    /\ UNCHANGED <<venueVars, connected, buffered, thread, doubt, bounds>>

Command ==
    \/ \E c \in Cids, q \in SimQuantities : PlaceBegin(c, q) \/ AmendBegin(c, q)
    \/ \E c \in Cids : CancelBegin(c)
    \/ \E c \in Cids : Open(c) /\ \E n \in 1 .. orders[c].quantity - 1 : EmitLocked(c, n)
Work ==
    \/ RateLimited \/ PlaceLocked \/ CancelLocked \/ AmendLocked
    \/ Acked \/ Rejected \/ Uncertain \/ CommandMatches \/ DeliverBuffered
    \/ \E t \in Threads : Number(t) \/ PublishOrBuffer(t) \/ EmitReport(t)
SimNext ==
    /\ Command \/ Work \/ FeedMatches \/ Disconnect \/ Reconnect \/ Restart \/ LaneApply
    /\ UNCHANGED config
SimSpec == SimInit /\ [][SimNext]_simVars
-----------------------------------------------------------------------------
NumbersIn(reports) == [i \in 1 .. Len(reports) |-> reports[i].sequence]
\* A report that is still to be numbered has no number.
HeldNumbers(t) == IF thread[t].pc = "number" THEN <<>> ELSE NumbersIn(thread[t].held)

\* Every number the simulator has given out in this life is in exactly one place: held by a
\* thread, waiting for the connection, in the lane, or applied.  No report is lost or doubled
\* however disconnect, reconnect and the publishing threads interleave.
ReportsConserved ==
    LET all == HeldNumbers("cli") \o HeldNumbers("feed") \o NumbersIn(buffered)
                   \o NumbersIn(lane) \o seen
    IN  ToSet(all) = bounds.first .. nextSequence - 1 /\ Len(all) = nextSequence - bounds.first

Quiet == \A t \in Threads : thread[t].pc = "idle"

\* With the connection up and nobody at work no report is left behind in the buffer
\* (publish_or_buffer reads the flag under mutex_; reconnect raises it before it takes the buffer).
NothingStranded == Quiet /\ connected => buffered = <<>>

\* Reports may overtake each other between number and callback; once all are applied the gateway
\* shows the fills of the simulator, and its final status; an order whose command had no answer
\* waits for reconciliation, and reports that show more filled than ordered are refused.
GatewayConverges ==
    Quiet /\ connected /\ lane = <<>> =>
        \A c \in Cids \ doubt : orders[c] # None =>
            /\ view[c].filled = orders[c].filled
            /\ IsTerminal(orders[c].status) => view[c].status = orders[c].status

\* A number that was jumped over is never forgotten in silence: it has been applied since, or
\* the tracker says that there is a gap.
GapIsFlagged ==
    seen # <<>> => \A n \in Head(seen) .. tracker.last : n \in ToSet(seen) \/ tracker.gap

\* After a restart no report can look older than what the recovered order has seen, and no two
\* open orders have one exchange identifier (restore).
RestoreMovesOn ==
    /\ \A c \in Cids : Open(c) /\ view[c].lastSequence # None => view[c].lastSequence < nextSequence
    /\ \A c, d \in Cids : c # d /\ Open(c) /\ Open(d) /\ orders[c].exid # None =>
            orders[c].exid # orders[d].exid

\* Every report is accounted for, through disconnections and restarts: it is on its way exactly
\* once, is not left behind, is missed when it was jumped over, and is not numbered twice.
ReportsAccountedFor ==
    SimTypeOK /\ ReportsConserved /\ NothingStranded /\ GapIsFlagged /\ RestoreMovesOn
===============================================================================
