--------------------------- MODULE OrderLifecycle ---------------------------
(***************************************************************************)
(* One canonical order, the physical order behind it at the venue, and the *)
(* execution reports between them.  The venue numbers its reports in the   *)
(* order in which it emits them (SimulatedExchangeAdapter::report_for);    *)
(* delivery may reorder, delay and repeat them, because the sequence is    *)
(* allocated before the report is published and reports held back during   *)
(* a disconnect are released after newer ones.  Every delivery is one      *)
(* OrderStateMachine::apply.                                               *)
(***************************************************************************)
EXTENDS OrderStateMachine

CONSTANTS Client,       \* the client order id
          Exid,         \* the identifier the venue gives to the order
          Quantity,     \* the quantity first ordered
          Quantities,   \* quantities an amendment may ask for
          MaxAmends,    \* bound on amendments
          MaxReports,   \* bound on the reports the venue emits
          Sequenced     \* do reports carry a sequence number?

ASSUME LifecycleAssumption ==
    /\ Client \in STRING
    /\ Exid \in ExchangeIds
    /\ Quantity \in Nat \ {0}
    /\ Quantities \subseteq Nat \ {0}
    /\ MaxAmends \in Nat
    /\ MaxReports \in Nat
    /\ Sequenced \in BOOLEAN

VARIABLES
    order,      \* the gateway's canonical order
    venue,      \* the physical order: what the venue knows
    sent,       \* every report the venue has emitted
    delivered,  \* the reports applied at least once
    emitted,    \* the number of reports emitted: the next sequence is emitted + 1
    amends      \* the number of amendments requested

vars == <<order, venue, sent, delivered, emitted, amends>>

VenueStatuses == {"Pending", "Live", "PartiallyFilled", "Filled", "Canceled", "Rejected"}

\* The types of the state: apply keeps an order well formed whatever is delivered.
TypeOK ==
    /\ order \in OrderType
    /\ venue \in [status : VenueStatuses, quantity : Nat \ {0}, filled : Nat,
                  target : Nat \cup {None}]
    /\ sent \subseteq ReportType
    /\ delivered \subseteq sent
    /\ emitted \in Nat
    /\ amends \in Nat

Init ==
    /\ order = MakeOrder(Client, None, Quantity)
    /\ venue = [status |-> "Pending", quantity |-> Quantity, filled |-> 0, target |-> None]
    /\ sent = {}
    /\ delivered = {}
    /\ emitted = 0
    /\ amends = 0
-----------------------------------------------------------------------------
\* report_for: what a report says of the physical order v, as n-th report.
ReportFor(v, n) ==
    [event |-> n, client |-> Client, exid |-> Exid, status |-> v.status,
     cumulative |-> v.filled, price |-> None, quantity |-> v.quantity,
     sequence |-> IF Sequenced THEN n ELSE None]

\* The venue moves to v and emits the report of it.
Emit(v) ==
    /\ emitted < MaxReports
    /\ venue' = v
    /\ emitted' = emitted + 1
    /\ sent' = sent \cup {ReportFor(v, emitted + 1)}
    /\ UNCHANGED <<order, delivered, amends>>

Working == venue.status \in {"Live", "PartiallyFilled"}

VenueAccept == venue.status = "Pending" /\ Emit([venue EXCEPT !.status = "Live"])

VenueReject == venue.status = "Pending" /\ Emit([venue EXCEPT !.status = "Rejected"])

VenueFill(n) ==
    /\ Working
    /\ venue.filled + n <= venue.quantity
    /\ Emit([venue EXCEPT !.filled = @ + n,
                          !.status = IF venue.filled + n = venue.quantity
                                     THEN "Filled" ELSE "PartiallyFilled"])

VenueCancel == Working /\ Emit([venue EXCEPT !.status = "Canceled"])

\* The venue changes the terms in place, as OKX does, and like a real venue refuses a quantity that
\* is filled already.  The simulator's amend has no such check and leaves an order that is live
\* and full; this venue numbers its reports like the simulator and matches like an exchange.
VenueAmend ==
    /\ Working
    /\ venue.target # None
    /\ venue.filled < venue.target
    /\ Emit([venue EXCEPT !.quantity = venue.target, !.target = None])
-----------------------------------------------------------------------------
\* OrderGateway::amend up to the venue call, and the acceptance by the venue.
RequestAmend(q) ==
    /\ amends < MaxAmends
    /\ ~IsTerminal(order.status)
    /\ order.status # "Unknown"
    /\ order.pending = "None"
    /\ q >= order.filled
    /\ Working
    /\ order' = [order EXCEPT !.pending = "Amend", !.pendingQuantity = q]
    /\ venue' = [venue EXCEPT !.target = q]
    /\ amends' = amends + 1
    /\ UNCHANGED <<sent, delivered, emitted>>

\* A report, for the first time or again, reaches the state machine.
Deliver(report) ==
    /\ order' = Apply(order, report)
    /\ delivered' = delivered \cup {report}
    /\ UNCHANGED <<venue, sent, emitted, amends>>

Next ==
    \/ VenueAccept
    \/ VenueReject
    \/ \E n \in 1 .. venue.quantity : VenueFill(n)
    \/ VenueCancel
    \/ VenueAmend
    \/ \E q \in Quantities : RequestAmend(q)
    \/ \E report \in sent : Deliver(report)

Spec == Init /\ [][Next]_vars
-----------------------------------------------------------------------------
(***************************************************************************)
(* A report, however late or repeated, never reopens an order: a terminal  *)
(* status is followed only by terminal ones, and FILLED by nothing else    *)
(* (derive_status, order_state_machine.hpp:29-49).                         *)
(***************************************************************************)
TerminalStaysTerminal ==
    [][/\ IsTerminal(order.status) => IsTerminal(order'.status)
       /\ order.status = "Filled" => order'.status = "Filled"]_vars

(***************************************************************************)
(* The gateway declares an order finished only when the venue has          *)
(* finished it: no order of reports makes the gateway stop watching a      *)
(* physical order that can still trade.                                    *)
(***************************************************************************)
TerminalMeansVenueTerminal ==
    IsTerminal(order.status) => IsTerminal(venue.status)

(***************************************************************************)
(* The gateway never reports a fill that the venue did not make, in spite  *)
(* of "if FILLED then filled_quantity = quantity"                          *)
(* (order_state_machine.hpp:135), for an order not amended.                *)
(***************************************************************************)
NoPhantomFill == amends = 0 => order.filled <= venue.filled

(***************************************************************************)
(* The filled quantity never goes back: docs/ARCHITECTURE.md:163,          *)
(* "Cumulative fill quantity is monotonic", for an order not amended.       *)
(***************************************************************************)
FillMonotonic == [][amends' = 0 => order'.filled >= order.filled]_vars

(***************************************************************************)
(* Once every report has arrived, in whatever order and however often, the *)
(* canonical order says what the venue says: the merge rules of apply make *)
(* delivery order irrelevant, as long as the order is not amended.         *)
(***************************************************************************)
Converges ==
    amends = 0 /\ delivered = sent /\ sent # {} =>
        /\ order.status = venue.status
        /\ order.filled = venue.filled
        /\ order.quantity = venue.quantity

(***************************************************************************)
(* The gateway takes an amendment for confirmed only after the venue has   *)
(* made it: while the venue still works the order under its old terms,     *)
(* reports of those terms, late ones included, leave the amendment         *)
(* pending (amendment_confirmed, order_state_machine.hpp:51-60).  It holds *)
(* for one amendment that changes the quantity.                            *)
(***************************************************************************)
AmendConfirmedByVenue ==
    venue.target # None /\ ~IsTerminal(venue.status) => order.pending = "Amend"

(***************************************************************************)
(* When every report has arrived, no amendment that the venue has made is  *)
(* still pending, however stale the report that carried it was.            *)
(***************************************************************************)
AmendSettles ==
    delivered = sent /\ venue.target = None => order.pending # "Amend"

(***************************************************************************)
(* The canonical order follows the physical one, whatever the order in     *)
(* which reports arrive: it is well formed, is finished only when the      *)
(* venue has finished it, shows only fills that were made, and agrees with *)
(* the venue when all reports have arrived.                                *)
(***************************************************************************)
FollowsVenue == TypeOK /\ TerminalMeansVenueTerminal /\ NoPhantomFill /\ Converges

(***************************************************************************)
(* An amendment is pending exactly as long as the venue has not made it    *)
(* and told of it: it ends neither by a report of the old terms nor never  *)
(* (ClearsPending, order_state_machine.hpp:144-161).                       *)
(***************************************************************************)
AmendmentSettled == AmendConfirmedByVenue /\ AmendSettles

(***************************************************************************)
(* No report undoes what another has established: the end of the order,    *)
(* and its fills as long as it is not amended.                             *)
(***************************************************************************)
NothingUndone == TerminalStaysTerminal /\ FillMonotonic
=============================================================================
