------------------------- MODULE OrderStateMachine -------------------------
(***************************************************************************)
(* The canonical order and OrderStateMachine::apply, the one function      *)
(* through which every execution report reaches it                         *)
(* (include/abex/domain/order_state_machine.hpp).                          *)
(*                                                                         *)
(* Prices and quantities are natural numbers.  The money columns           *)
(* (cumulative_quote, average_fill_price), the timestamps, the version     *)
(* counter and the texts of reasons are left out: no decision of the code  *)
(* below reads them.  std::optional and the empty string are None.         *)
(***************************************************************************)
EXTENDS Integers

CONSTANTS None,          \* an absent optional field, an empty identifier
          ExchangeIds    \* identifiers the venue gives to physical orders

Statuses == {"Live", "PartiallyFilled", "Filled", "Canceled", "Rejected", "Unknown"}

PendingActions == {"None", "New", "Cancel", "Amend", "Reconcile"}

Dispositions == {"Applied", "Duplicate", "Stale", "Invalid"}

IsTerminal(status) == status \in {"Filled", "Canceled", "Rejected"}

(***************************************************************************)
(* struct Order.  clients holds client_order_id and its venue-side         *)
(* aliases; offsets is exchange_fill_offsets, 0 where the map has no key.  *)
(***************************************************************************)
OrderType ==
    [clients : SUBSET STRING, exid : ExchangeIds \cup {None},
     aliases : SUBSET ExchangeIds, offsets : [ExchangeIds -> Nat],
     price : Nat \cup {None}, quantity : Nat,
     status : Statuses, pending : PendingActions,
     pendingPrice : Nat \cup {None}, pendingQuantity : Nat \cup {None},
     filled : Nat, lastSequence : Nat \cup {None}, events : SUBSET Nat]

\* struct ExecutionReport.
ReportType ==
    [event : Nat \cup {None}, client : STRING \cup {None},
     exid : ExchangeIds \cup {None}, status : Statuses, cumulative : Int,
     price : Nat \cup {None}, quantity : Nat \cup {None},
     sequence : Nat \cup {None}]

\* The absent value is none of those that may be present.
ASSUME NoneAssumption ==
    /\ None \notin Nat
    /\ None \notin STRING
    /\ None \notin ExchangeIds
    /\ None \notin OrderType

\* make_order: a new order is UNKNOWN with a pending New.
MakeOrder(client, price, quantity) ==
    [clients |-> {client}, exid |-> None, aliases |-> {},
     offsets |-> [x \in ExchangeIds |-> 0], price |-> price, quantity |-> quantity,
     status |-> "Unknown", pending |-> "New",
     pendingPrice |-> None, pendingQuantity |-> None,
     filled |-> 0, lastSequence |-> None, events |-> {}]
-----------------------------------------------------------------------------
\* Mutant: sequence numbers are not compared.
StaleSequence_Never(order, report) == FALSE

\* stale_sequence
StaleSequence(order, report) ==
    /\ order.lastSequence # None
    /\ report.sequence # None
    /\ report.sequence <= order.lastSequence

\* offset_for
OffsetFor(order, exid) == IF exid \in ExchangeIds THEN order.offsets[exid] ELSE 0

\* Both sides name a physical order, and not the same one.
OtherGeneration(order, report) ==
    /\ report.exid # None
    /\ order.exid # None
    /\ report.exid # order.exid

\* is_historical_generation
IsHistoricalGeneration(order, report) ==
    OtherGeneration(order, report) /\ report.exid \in order.aliases

\* The report's fill, in units of the canonical order.
AggregateFilled(order, report) ==
    OffsetFor(order, report.exid) + report.cumulative

ObservedQuantity(order, report) ==
    OffsetFor(order, report.exid) + report.quantity

\* The quantity that bounds the report's fill.
EffectiveQuantity(order, report) ==
    IF report.quantity # None /\ ~IsHistoricalGeneration(order, report)
    THEN ObservedQuantity(order, report)
    ELSE order.quantity

\* Mutant: the terminal status is not kept.
DeriveStatus_Reopens(order, report, aggregate, historical, stale) ==
    IF aggregate >= order.quantity THEN "Filled"
    ELSE IF historical \/ stale
         THEN IF aggregate > 0 THEN "PartiallyFilled" ELSE order.status
    ELSE report.status

\* derive_status; order already carries the terms the report brought.
DeriveStatus(order, report, aggregate, historical, stale) ==
    CASE aggregate >= order.quantity -> "Filled"
      [] aggregate < order.quantity /\ IsTerminal(order.status) -> order.status
      [] aggregate < order.quantity /\ ~IsTerminal(order.status) /\ (historical \/ stale) ->
            IF aggregate > 0 THEN "PartiallyFilled" ELSE order.status
      [] OTHER ->
            IF report.status \in {"Canceled", "Rejected"} THEN report.status
            ELSE IF aggregate > 0 \/ report.status = "PartiallyFilled" THEN "PartiallyFilled"
            ELSE IF report.status = "Live" THEN "Live"
            ELSE order.status

\* Mutant: any report confirms the amendment.
AmendmentConfirmed_Any(order, report) == TRUE

\* amendment_confirmed
AmendmentConfirmed(order, report) ==
    /\ \/ order.pendingPrice = None
       \/ report.price # None /\ order.price = order.pendingPrice
    /\ \/ order.pendingQuantity = None
       \/ report.quantity # None /\ order.quantity = order.pendingQuantity
-----------------------------------------------------------------------------
\* The venue's terms replace the order's, whatever the age of the report.
MergeTerms(order, report) ==
    IF IsHistoricalGeneration(order, report) THEN order
    ELSE [order EXCEPT
            !.price = IF report.price # None THEN report.price ELSE @,
            !.quantity = IF report.quantity # None
                         THEN ObservedQuantity(order, report) ELSE @]

\* Does this report settle the pending action?
ClearsPending(order, report, historical) ==
    /\ ~historical
    /\ CASE order.pending \in {"New", "Reconcile"} -> report.status # "Unknown"
         [] order.pending = "Cancel" -> IsTerminal(order.status)
         [] order.pending = "Amend" ->
                IsTerminal(order.status) \/ AmendmentConfirmed(order, report)
         [] OTHER -> FALSE

\* FILLED fills the order up; otherwise the filled quantity can only grow.
FilledAfter(order, status, aggregate) ==
    IF status = "Filled" THEN order.quantity
    ELSE IF aggregate > order.filled THEN aggregate ELSE order.filled

\* The part of apply that writes fills, status and identifiers.
MergeFills(order, report) ==
    LET historical == IsHistoricalGeneration(order, report)
        aggregate  == AggregateFilled(order, report)
        terms      == MergeTerms(order, report)
        status     == DeriveStatus(terms, report, aggregate, historical,
                                   StaleSequence(order, report))
    IN  [terms EXCEPT
           !.status = status,
           !.filled = FilledAfter(terms, status, aggregate),
           !.exid = IF ~historical /\ report.exid # None THEN report.exid ELSE @,
           !.lastSequence = IF report.sequence # None /\ (@ = None \/ report.sequence > @)
                            THEN report.sequence ELSE @,
           !.events = IF report.event # None THEN @ \cup {report.event} ELSE @]

Merge(order, report) ==
    LET merged == MergeFills(order, report)
    IN  IF ClearsPending(merged, report, IsHistoricalGeneration(order, report))
        THEN [merged EXCEPT !.pending = "None", !.pendingPrice = None,
                            !.pendingQuantity = None]
        ELSE merged

\* The early returns of apply, in the order the code takes them.
IsDuplicate(order, report) == report.event # None /\ report.event \in order.events

IsInvalid(order, report) ==
    \/ report.client # None /\ report.client \notin order.clients
    \/ OtherGeneration(order, report) /\ ~IsHistoricalGeneration(order, report)
    \/ report.cumulative < 0
    \/ AggregateFilled(order, report) > EffectiveQuantity(order, report)

Disposition(order, report) ==
    CASE IsDuplicate(order, report) -> "Duplicate"
      [] ~IsDuplicate(order, report) /\ IsInvalid(order, report) -> "Invalid"
      [] OTHER -> IF StaleSequence(order, report) THEN "Stale" ELSE "Applied"

\* OrderStateMachine::apply, as the order it leaves behind.
Apply(order, report) ==
    IF Disposition(order, report) \in {"Duplicate", "Invalid"} THEN order
    ELSE Merge(order, report)
=============================================================================
