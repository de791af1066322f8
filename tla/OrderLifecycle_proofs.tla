----------------------- MODULE OrderLifecycle_proofs -----------------------
(***************************************************************************)
(* Proofs about OrderLifecycle for every quantity, every set of            *)
(* amendments and every number of reports, and about SimulatedExchange,    *)
(* which applies its reports with the same state machine.                  *)
(***************************************************************************)
EXTENDS OrderLifecycle, SimulatedExchange, FiniteSetTheorems, SequenceTheorems,
        WellFoundedInduction, TLAPS

(***************************************************************************)
(* OrderStateMachine::apply keeps an order well formed.                    *)
(***************************************************************************)
LEMMA MergeTermsType ==
    ASSUME NEW o \in OrderType, NEW r \in ReportType
    PROVE  MergeTerms(o, r) \in OrderType
  <1>1. CASE IsHistoricalGeneration(o, r)
    BY <1>1 DEF MergeTerms
  <1>2. CASE ~IsHistoricalGeneration(o, r)
    <2> DEFINE p == IF r.price # None THEN r.price ELSE o.price
               q == IF r.quantity # None THEN ObservedQuantity(o, r) ELSE o.quantity
    <2>1. p \in Nat \cup {None}
      BY DEF OrderType, ReportType
    <2>2. OffsetFor(o, r.exid) \in Nat
      BY DEF OffsetFor, OrderType, ReportType
    <2>3. q \in Nat
      BY <2>2, NoneAssumption DEF OrderType, ReportType, ObservedQuantity
    <2>4. MergeTerms(o, r) = [o EXCEPT !.price = p, !.quantity = q]
      BY <1>2 DEF MergeTerms, OrderType
    <2> QED BY <2>1, <2>3, <2>4, ZenonT(60) DEF OrderType
  <1> QED BY <1>1, <1>2

\* A valid report leaves the status, the fills and the identifiers well typed
\* (derive_status, std::max on filled_quantity).
LEMMA MergeFillsType ==
    ASSUME NEW o \in OrderType, NEW r \in ReportType, ~IsInvalid(o, r)
    PROVE  /\ MergeFills(o, r) \in OrderType
           /\ AggregateFilled(o, r) \in Nat
  <1> DEFINE terms == MergeTerms(o, r)
             aggregate == AggregateFilled(o, r)
             status == DeriveStatus(terms, r, aggregate, IsHistoricalGeneration(o, r),
                                    StaleSequence(o, r))
  <1>1. terms \in OrderType
    BY MergeTermsType
  <1>2. aggregate \in Nat
    BY NoneAssumption DEF AggregateFilled, OffsetFor, IsInvalid, OrderType, ReportType
  <1>3. status \in Statuses
    BY <1>1 DEF DeriveStatus, OrderType, ReportType, Statuses, IsTerminal
  <1>4. FilledAfter(terms, status, aggregate) \in Nat
    BY <1>1, <1>2 DEF FilledAfter, OrderType
  <1>5. (IF ~IsHistoricalGeneration(o, r) /\ r.exid # None THEN r.exid ELSE terms.exid)
            \in ExchangeIds \cup {None}
    BY <1>1 DEF OrderType, ReportType
  <1>6. (IF r.sequence # None /\ (terms.lastSequence = None \/ r.sequence > terms.lastSequence)
         THEN r.sequence ELSE terms.lastSequence) \in Nat \cup {None}
    BY <1>1 DEF OrderType, ReportType
  <1>7. (IF r.event # None THEN terms.events \cup {r.event} ELSE terms.events) \in SUBSET Nat
    BY <1>1 DEF OrderType, ReportType
  <1> HIDE DEF terms, aggregate, status
  <1>8. MergeFills(o, r) =
          [terms EXCEPT
            !.status = status,
            !.filled = FilledAfter(terms, status, aggregate),
            !.exid = IF ~IsHistoricalGeneration(o, r) /\ r.exid # None THEN r.exid ELSE terms.exid,
            !.lastSequence = IF r.sequence # None /\
                                (terms.lastSequence = None \/ r.sequence > terms.lastSequence)
                             THEN r.sequence ELSE terms.lastSequence,
            !.events = IF r.event # None THEN terms.events \cup {r.event} ELSE terms.events]
    BY <1>1 DEF MergeFills, terms, aggregate, status, OrderType
  <1> QED BY <1>1, <1>2, <1>3, <1>4, <1>5, <1>6, <1>7, <1>8, ZenonT(60)
           DEF OrderType, aggregate

\* apply as a whole keeps an order well formed.
LEMMA ApplyType ==
    ASSUME NEW o \in OrderType, NEW r \in ReportType
    PROVE  Apply(o, r) \in OrderType
  <1>1. CASE Disposition(o, r) \in {"Duplicate", "Invalid"}
    BY <1>1 DEF Apply
  <1>2. CASE Disposition(o, r) \notin {"Duplicate", "Invalid"}
    <2>1. ~IsInvalid(o, r)
      BY <1>2 DEF Disposition
    <2>2. MergeFills(o, r) \in OrderType
      BY <2>1, MergeFillsType
    <2>3. Merge(o, r) \in OrderType
      BY <2>2, ZenonT(60) DEF Merge, OrderType, PendingActions
    <2> QED BY <1>2, <2>3 DEF Apply
  <1> QED BY <1>1, <1>2

(***************************************************************************)
(* derive_status keeps a terminal status terminal, and FILLED for good.    *)
(***************************************************************************)
LEMMA ApplyStatus ==
    ASSUME NEW o \in OrderType, NEW r \in ReportType
    PROVE  /\ IsTerminal(o.status) => IsTerminal(Apply(o, r).status)
           /\ o.status = "Filled" => Apply(o, r).status = "Filled"
  <1>1. CASE Disposition(o, r) \in {"Duplicate", "Invalid"}
    BY <1>1 DEF Apply
  <1>2. CASE Disposition(o, r) \notin {"Duplicate", "Invalid"}
    <2> DEFINE terms == MergeTerms(o, r)
               aggregate == AggregateFilled(o, r)
               status == DeriveStatus(terms, r, aggregate, IsHistoricalGeneration(o, r),
                                      StaleSequence(o, r))
    <2>1. ~IsInvalid(o, r)
      BY <1>2 DEF Disposition
    <2>2. terms \in OrderType /\ aggregate \in Nat /\ MergeFills(o, r) \in OrderType
      BY <2>1, MergeTermsType, MergeFillsType
    <2>3. terms.status = o.status
      BY DEF MergeTerms, OrderType
    <2>4. MergeFills(o, r).status = status
      BY <2>2 DEF MergeFills, OrderType
    <2>5. Merge(o, r).status = status
      BY <2>2, <2>4 DEF Merge, OrderType
    <2>6. terms.quantity \in Nat
      BY <2>2 DEF OrderType
    <2> HIDE DEF terms, aggregate
    <2>7. /\ IsTerminal(o.status) => IsTerminal(status)
          /\ o.status = "Filled" => status = "Filled"
      BY <2>2, <2>3, <2>6 DEF DeriveStatus, IsTerminal
    <2> QED BY <1>2, <2>5, <2>7 DEF Apply
  <1> QED BY <1>1, <1>2
-----------------------------------------------------------------------------

\* A report of the venue is well formed.
LEMMA ReportForType ==
    ASSUME NEW v, v \in [status : VenueStatuses, quantity : Nat \ {0}, filled : Nat,
                         target : Nat \cup {None}],
           v.status # "Pending", NEW n \in Nat
    PROVE  ReportFor(v, n) \in ReportType
  BY LifecycleAssumption, NoneAssumption DEF ReportFor, ReportType, VenueStatuses, Statuses

\* What every event at the venue does to the variables.
LEMMA EmitType ==
    ASSUME TypeOK, NEW v,
           v \in [status : VenueStatuses, quantity : Nat \ {0}, filled : Nat,
                  target : Nat \cup {None}],
           v.status # "Pending", Emit(v)
    PROVE  TypeOK'
  <1>1. ReportFor(v, emitted + 1) \in ReportType
    BY ReportForType DEF TypeOK
  <1> QED BY <1>1 DEF TypeOK, Emit

\* Every step of the venue, the gateway and the delivery keeps the types.
LEMMA TypeStep == TypeOK /\ [Next]_vars => TypeOK'
  <1> SUFFICES ASSUME TypeOK, [Next]_vars PROVE TypeOK'
    OBVIOUS
  <1>1. CASE VenueAccept
    BY <1>1, EmitType DEF VenueAccept, TypeOK, VenueStatuses
  <1>2. CASE VenueReject
    BY <1>2, EmitType DEF VenueReject, TypeOK, VenueStatuses
  <1>3. CASE \E n \in 1 .. venue.quantity : VenueFill(n)
    <2> PICK n \in 1 .. venue.quantity : VenueFill(n)
      BY <1>3
    <2> DEFINE v == [venue EXCEPT !.filled = @ + n,
                          !.status = IF venue.filled + n = venue.quantity
                                     THEN "Filled" ELSE "PartiallyFilled"]
    <2>0. venue.filled + n \in Nat
      BY DEF TypeOK
    <2>1. v \in [status : VenueStatuses, quantity : Nat \ {0}, filled : Nat,
                 target : Nat \cup {None}] /\ v.status # "Pending"
      <3>1. venue \in [status : VenueStatuses, quantity : Nat \ {0}, filled : Nat,
                       target : Nat \cup {None}]
        BY DEF TypeOK
      <3> QED BY <2>0, <3>1 DEF VenueStatuses
    <2>2. Emit(v)
      BY DEF VenueFill
    <2> QED BY <2>1, <2>2, EmitType
  <1>4. CASE VenueCancel
    BY <1>4, EmitType DEF VenueCancel, TypeOK, VenueStatuses
  <1>5. CASE VenueAmend
    <2> DEFINE v == [venue EXCEPT !.quantity = venue.target, !.target = None]
    <2>1. v \in [status : VenueStatuses, quantity : Nat \ {0}, filled : Nat,
                 target : Nat \cup {None}] /\ v.status # "Pending"
      <3>1. venue \in [status : VenueStatuses, quantity : Nat \ {0}, filled : Nat,
                       target : Nat \cup {None}]
        BY DEF TypeOK
      <3>2. venue.target \in Nat \ {0} /\ venue.status # "Pending"
        BY <1>5, <3>1 DEF VenueAmend, Working
      <3> QED BY <3>1, <3>2
    <2>2. Emit(v)
      BY <1>5 DEF VenueAmend
    <2> QED BY <2>1, <2>2, EmitType
  <1>6. CASE \E q \in Quantities : RequestAmend(q)
    <2> PICK q \in Quantities : RequestAmend(q)
      BY <1>6
    <2>1. order' \in OrderType
      BY LifecycleAssumption, NoneAssumption DEF RequestAmend, TypeOK, OrderType, PendingActions
    <2>2. venue' \in [status : VenueStatuses, quantity : Nat \ {0}, filled : Nat,
                      target : Nat \cup {None}]
      BY LifecycleAssumption, NoneAssumption DEF RequestAmend, TypeOK
    <2> QED BY <2>1, <2>2 DEF RequestAmend, TypeOK
  <1>7. CASE \E report \in sent : Deliver(report)
    <2> PICK report \in sent : Deliver(report)
      BY <1>7
    <2>1. Apply(order, report) \in OrderType
      BY ApplyType DEF TypeOK
    <2> QED BY <2>1 DEF Deliver, TypeOK
  <1>8. CASE UNCHANGED vars
    BY <1>8 DEF vars, TypeOK
  <1> QED BY <1>1, <1>2, <1>3, <1>4, <1>5, <1>6, <1>7, <1>8 DEF Next

\* A new order (make_order) and an untouched venue have the types.
LEMMA TypeInit == Init => TypeOK
  <1> SUFFICES ASSUME Init PROVE TypeOK
    OBVIOUS
  <1>1. order \in OrderType
    BY LifecycleAssumption, NoneAssumption DEF Init, MakeOrder, OrderType, Statuses, PendingActions
  <1> QED BY <1>1, LifecycleAssumption, NoneAssumption DEF Init, TypeOK, VenueStatuses

(***************************************************************************)
(* Whatever reports arrive, in whatever order, the order stays well        *)
(* formed: in particular its filled quantity and quantity stay natural     *)
(* numbers through every merge of offsets.                                 *)
(***************************************************************************)
THEOREM TypeCorrect == Spec => []TypeOK
  BY TypeInit, TypeStep, PTL DEF Spec

(***************************************************************************)
(* No report reopens an order, amendments and stale or repeated reports    *)
(* included (derive_status).                                               *)
(***************************************************************************)
THEOREM TerminalNeverReopens == Spec => TerminalStaysTerminal
  <1> DEFINE Kept == /\ IsTerminal(order.status) => IsTerminal(order'.status)
                     /\ order.status = "Filled" => order'.status = "Filled"
  <1>1. TypeOK /\ [Next]_vars => [Kept]_vars
    <2> SUFFICES ASSUME TypeOK, Next PROVE Kept
      BY DEF vars
    <2>1. CASE \E report \in sent : Deliver(report)
      BY <2>1, ApplyStatus DEF Deliver, TypeOK
    <2>2. CASE \E q \in Quantities : RequestAmend(q)
      BY <2>2 DEF RequestAmend, TypeOK, OrderType
    <2>3. CASE \E v : Emit(v)
      BY <2>3 DEF Emit
    <2> QED BY <2>1, <2>2, <2>3
            DEF Next, VenueAccept, VenueReject, VenueFill, VenueCancel, VenueAmend
  <1> QED BY <1>1, TypeCorrect, PTL DEF Spec, TerminalStaysTerminal
-----------------------------------------------------------------------------
(***************************************************************************)
(* An order not amended yet, reported with sequence numbers.               *)
(***************************************************************************)

\* The venue's side, and what its reports say of each other.
VenueInv ==
    /\ amends = 0
    /\ venue.quantity = Quantity
    /\ venue.target = None
    /\ venue.filled <= Quantity
    /\ venue.status = "Filled" <=> venue.filled = Quantity
    /\ venue.status \in {"Pending", "Live", "Rejected"} => venue.filled = 0
    /\ venue.status = "PartiallyFilled" => venue.filled > 0
    /\ venue.status = "Pending" <=> emitted = 0
    /\ emitted > 0 => ReportFor(venue, emitted) \in sent

ReportInv(r) ==
    /\ r.event \in 1 .. emitted
    /\ r.sequence = r.event
    /\ r.client = Client
    /\ r.exid = Exid
    /\ r.quantity = Quantity
    /\ r.price = None
    /\ r.cumulative \in 0 .. venue.filled
    /\ r.status # "Unknown"
    /\ r.status = "Filled" <=> r.cumulative = Quantity
    /\ r.status = "Live" => r.cumulative = 0
    /\ r.status = "PartiallyFilled" => r.cumulative > 0
    /\ r.status \in {"Canceled", "Rejected"} =>
          r.event = emitted /\ venue.status = r.status

SentInv ==
    /\ \A r \in sent : ReportInv(r)
    /\ \A r, s \in sent :
          /\ r.event = s.event => r = s
          /\ r.event < s.event => r.cumulative <= s.cumulative

\* The gateway's side.  Its last three parts say what the order shows once
\* some reports have arrived: the largest fill among them, and a status that
\* depends on the set of them and not on their order.
OrderInv ==
    /\ order.clients = {Client}
    /\ order.aliases = {}
    /\ order.offsets[Exid] = 0
    /\ order.exid \in {None, Exid}
    /\ order.quantity = Quantity
    /\ order.events = {r.event : r \in delivered}
    /\ delivered = {} => order.lastSequence = None /\ order.filled = 0
    /\ order.lastSequence # None => \E r \in delivered : r.event = order.lastSequence
    /\ \A r \in delivered : order.lastSequence # None /\ r.event <= order.lastSequence
    /\ order.filled <= venue.filled
    /\ \A r \in delivered : r.cumulative <= order.filled
    /\ delivered # {} => \E r \in delivered : r.cumulative = order.filled
    /\ \A r \in delivered : r.status \in {"Canceled", "Rejected"} => order.status = r.status
    /\ order.status \in {"Canceled", "Rejected"} => venue.status = order.status
    /\ order.status = "Filled" <=> order.filled = Quantity
    /\ delivered # {} /\ ~IsTerminal(order.status) =>
          order.status = IF order.filled > 0 THEN "PartiallyFilled" ELSE "Live"

IInv == TypeOK /\ VenueInv /\ SentInv /\ OrderInv

\* A report already delivered changes nothing.
LEMMA RepeatedReport ==
    ASSUME IInv, NEW r \in delivered
    PROVE  Apply(order, r) = order
  <1>1. r \in sent /\ r.event \in order.events /\ r.event # None
    BY LifecycleAssumption, NoneAssumption DEF IInv, TypeOK, OrderInv, SentInv, ReportInv
  <1>2. Disposition(order, r) = "Duplicate"
    BY <1>1 DEF Disposition, IsDuplicate
  <1> QED BY <1>2 DEF Apply

\* What a report that comes for the first time does, field by field.
LEMMA NewReport ==
    ASSUME IInv, NEW r \in sent, r \notin delivered
    PROVE  LET o == Apply(order, r)
               stale == order.lastSequence # None /\ r.event <= order.lastSequence
           IN  /\ o.clients = order.clients
               /\ o.aliases = order.aliases
               /\ o.offsets = order.offsets
               /\ o.exid = Exid
               /\ o.quantity = Quantity
               /\ o.events = order.events \cup {r.event}
               /\ o.lastSequence = IF stale THEN order.lastSequence ELSE r.event
               /\ o.filled = FilledAfter(order, o.status, r.cumulative)
               /\ o.status = DeriveStatus(order, r, r.cumulative, FALSE, stale)
  <1> DEFINE stale == order.lastSequence # None /\ r.event <= order.lastSequence
  <1>1. /\ ReportInv(r) /\ r \in ReportType /\ order \in OrderType
        /\ r.event \in Nat /\ r.event # None /\ r.cumulative \in Nat
        /\ r.quantity # None /\ Quantity \in Nat /\ r.cumulative <= Quantity
    BY LifecycleAssumption, NoneAssumption DEF IInv, TypeOK, SentInv, ReportInv, VenueInv
  <1>2. r.event \notin order.events
    BY DEF IInv, TypeOK, OrderInv, SentInv
  <1>3. ~OtherGeneration(order, r)
    BY <1>1 DEF IInv, OrderInv, OtherGeneration, ReportInv
  <1>4. ~IsHistoricalGeneration(order, r)
    BY <1>3 DEF IsHistoricalGeneration
  <1>5. OffsetFor(order, r.exid) = 0
    BY <1>1, LifecycleAssumption, NoneAssumption DEF IInv, OrderInv, OffsetFor, ReportInv
  <1>6. AggregateFilled(order, r) = r.cumulative /\ ObservedQuantity(order, r) = Quantity
    BY <1>1, <1>5 DEF AggregateFilled, ObservedQuantity, ReportInv
  <1>7. EffectiveQuantity(order, r) = Quantity
    BY <1>1, <1>4, <1>6 DEF EffectiveQuantity
  <1>8. ~IsInvalid(order, r)
    BY <1>1, <1>3, <1>6, <1>7 DEF IsInvalid, IInv, OrderInv, ReportInv
  <1>9. Apply(order, r) = Merge(order, r)
    BY <1>2, <1>8 DEF Apply, Disposition, IsDuplicate
  <1>10. MergeTerms(order, r) = order
    <2>1. MergeTerms(order, r) = [order EXCEPT !.price = order.price, !.quantity = Quantity]
      BY <1>1, <1>4, <1>6 DEF MergeTerms, ReportInv, OrderType
    <2> QED BY <1>1, <2>1 DEF IInv, OrderInv, OrderType
  <1>11. StaleSequence(order, r) <=> stale
    BY <1>1 DEF StaleSequence, ReportInv
  <1> DEFINE status == DeriveStatus(order, r, r.cumulative, FALSE, stale)
  <1>12. DeriveStatus(order, r, r.cumulative, IsHistoricalGeneration(order, r),
                      StaleSequence(order, r)) = status
    BY <1>4, <1>11 DEF DeriveStatus
  <1> DEFINE f == MergeFills(order, r)
  <1> HIDE DEF status
  <1>13. f = [order EXCEPT
           !.status = status,
           !.filled = FilledAfter(order, status, r.cumulative),
           !.exid = r.exid,
           !.lastSequence = IF r.sequence # None /\ (order.lastSequence = None
                                                     \/ r.sequence > order.lastSequence)
                            THEN r.sequence ELSE order.lastSequence,
           !.events = order.events \cup {r.event}]
    BY <1>1, <1>4, <1>6, <1>10, <1>12, LifecycleAssumption, NoneAssumption
    DEF MergeFills, OrderType, ReportInv
  <1>14. /\ f.clients = order.clients /\ f.aliases = order.aliases
         /\ f.offsets = order.offsets /\ f.exid = Exid /\ f.quantity = Quantity
         /\ f.events = order.events \cup {r.event}
         /\ f.lastSequence = IF stale THEN order.lastSequence ELSE r.event
         /\ f.filled = FilledAfter(order, status, r.cumulative)
         /\ f.status = status
    BY <1>1, <1>13 DEF OrderType, ReportInv, IInv, OrderInv
  <1>15. f \in OrderType
    BY <1>1, <1>8, MergeFillsType
  <1> HIDE DEF f, stale
  <1>16. /\ Merge(order, r).clients = f.clients /\ Merge(order, r).aliases = f.aliases
         /\ Merge(order, r).offsets = f.offsets /\ Merge(order, r).exid = f.exid
         /\ Merge(order, r).quantity = f.quantity /\ Merge(order, r).events = f.events
         /\ Merge(order, r).lastSequence = f.lastSequence
         /\ Merge(order, r).filled = f.filled /\ Merge(order, r).status = f.status
    <2>1. Merge(order, r) \in {f, [f EXCEPT !.pending = "None", !.pendingPrice = None,
                                            !.pendingQuantity = None]}
      BY DEF Merge, f
    <2> QED BY <2>1, <1>15 DEF OrderType
  <1> QED BY <1>9, <1>14, <1>16 DEF status, stale

\* A report that comes for the first time keeps the gateway's side.
LEMMA NewReportKeeps ==
    ASSUME IInv, NEW r \in sent, r \notin delivered, Deliver(r)
    PROVE  OrderInv'
  <1> DEFINE stale == order.lastSequence # None /\ r.event <= order.lastSequence
             status == DeriveStatus(order, r, r.cumulative, FALSE, stale)
  <1>1. /\ order' = Apply(order, r) /\ delivered' = delivered \cup {r}
        /\ venue' = venue /\ sent' = sent /\ emitted' = emitted
    BY DEF Deliver
  <1>2. /\ order'.clients = order.clients
        /\ order'.aliases = order.aliases
        /\ order'.offsets = order.offsets
        /\ order'.exid = Exid
        /\ order'.quantity = Quantity
        /\ order'.events = order.events \cup {r.event}
        /\ order'.lastSequence = IF stale THEN order.lastSequence ELSE r.event
        /\ order'.filled = FilledAfter(order, status, r.cumulative)
        /\ order'.status = status
    BY <1>1, NewReport
  <1>3. /\ ReportInv(r) /\ r \in ReportType /\ order \in OrderType
        /\ \A s \in delivered : s \in sent /\ ReportInv(s)
        /\ Quantity \in Nat \ {0} /\ None \notin Nat /\ emitted \in Nat
        /\ venue.filled \in Nat /\ venue.filled <= Quantity
        /\ venue.status = "Filled" <=> venue.filled = Quantity
    BY LifecycleAssumption, NoneAssumption DEF IInv, TypeOK, SentInv, VenueInv
  <1>4. /\ r.event \in Nat /\ r.cumulative \in Nat /\ r.cumulative <= venue.filled
        /\ order.filled \in Nat /\ order.quantity = Quantity
        /\ order.lastSequence \in Nat \cup {None}
    BY <1>3 DEF ReportInv, OrderType, IInv, OrderInv
  <1> HIDE DEF status, stale
  \* A terminal report is the last one of the venue, and so never stale.
  <1>5. r.status \in {"Canceled", "Rejected"} => ~stale /\ venue.status = r.status
    <2> SUFFICES ASSUME r.status \in {"Canceled", "Rejected"}, stale
                 PROVE  FALSE
      BY <1>3 DEF ReportInv
    <2>1. r.event = emitted
      BY <1>3 DEF ReportInv
    <2>2. PICK d \in delivered : d.event = order.lastSequence
      BY DEF stale, IInv, OrderInv
    <2>3. d.event <= emitted /\ d.event \in Nat
      BY <1>3 DEF ReportInv
    <2>4. d.event = r.event
      BY <1>4, <2>1, <2>2, <2>3 DEF stale
    <2> QED BY <1>3, <2>4 DEF IInv, SentInv
  \* A report that is not stale has the largest fill so far.
  <1>6. ~stale => order.lastSequence = None \/ \A d \in delivered : d.cumulative <= r.cumulative
    BY <1>3, <1>4 DEF stale, IInv, OrderInv, SentInv, ReportInv
  <1>7. r.cumulative = Quantity <=> r.status = "Filled"
    BY <1>3 DEF ReportInv
  <1>8. order.status = "Filled" <=> order.filled = Quantity
    BY DEF IInv, OrderInv
  <1>9. order.status \in {"Canceled", "Rejected"} =>
          venue.status = order.status /\ venue.filled # Quantity
    BY <1>3 DEF IInv, OrderInv
  <1>10. order.filled <= venue.filled
    BY DEF IInv, OrderInv
  <1>11. status = "Filled" <=> order'.filled = Quantity
    BY <1>2, <1>3, <1>4, <1>7, <1>8, <1>10
       DEF status, DeriveStatus, FilledAfter, IsTerminal
  <1>12. order'.filled <= venue.filled /\ order'.filled >= r.cumulative
         /\ order'.filled >= order.filled /\ order'.filled \in Nat
    BY <1>2, <1>3, <1>4, <1>7, <1>8, <1>10, <1>11
       DEF status, DeriveStatus, FilledAfter, IsTerminal
  <1>13. order'.events = {d.event : d \in delivered'}
    BY <1>1, <1>2 DEF IInv, OrderInv
  <1>14. /\ order'.lastSequence # None
         /\ \E d \in delivered' : d.event = order'.lastSequence
         /\ \A d \in delivered' : d.event <= order'.lastSequence
    BY <1>1, <1>2, <1>3, <1>4 DEF stale, IInv, OrderInv, ReportInv
  <1>15. \A d \in delivered' : d.cumulative <= order'.filled
    BY <1>1, <1>3, <1>4, <1>12 DEF IInv, OrderInv, ReportInv
  <1>16. order'.status \in {"Canceled", "Rejected"} => venue.status = order'.status
    BY <1>2, <1>3, <1>4, <1>5, <1>9 DEF status, DeriveStatus, IsTerminal
  <1>17. \A d \in delivered' : d.status \in {"Canceled", "Rejected"} => order'.status = d.status
    <2> SUFFICES ASSUME NEW d \in delivered', d.status \in {"Canceled", "Rejected"}
                 PROVE  order'.status = d.status
      OBVIOUS
    <2>1. venue.status = d.status /\ venue.filled # Quantity
      BY <1>1, <1>3 DEF ReportInv
    <2>2. r.cumulative < Quantity /\ order.status # "Filled"
      BY <1>3, <1>4, <1>8, <1>10, <2>1
    <2>3. CASE d = r
      BY <1>2, <1>3, <1>4, <1>5, <1>9, <2>1, <2>2, <2>3 DEF status, DeriveStatus, IsTerminal
    <2>4. CASE d \in delivered
      <3>1. order.status = d.status
        BY <2>4 DEF IInv, OrderInv
      <3> QED BY <1>2, <1>4, <2>2, <3>1 DEF status, DeriveStatus, IsTerminal
    <2> QED BY <1>1, <2>3, <2>4
  \* The status of an order that is still open.
  <1>18. ~IsTerminal(order'.status) =>
            order'.status = IF order'.filled > 0 THEN "PartiallyFilled" ELSE "Live"
    <2> SUFFICES ASSUME ~IsTerminal(order'.status)
                 PROVE  order'.status = IF order'.filled > 0 THEN "PartiallyFilled" ELSE "Live"
      OBVIOUS
    <2>1. r.cumulative < Quantity /\ ~IsTerminal(order.status)
      BY <1>2, <1>3, <1>4 DEF status, DeriveStatus, IsTerminal
    <2>2. order'.filled = IF r.cumulative > order.filled THEN r.cumulative ELSE order.filled
      BY <1>2 DEF FilledAfter, IsTerminal
    <2>3. CASE r.cumulative > 0
      BY <1>2, <1>3, <1>4, <1>5, <2>1, <2>2, <2>3 DEF status, DeriveStatus, IsTerminal
    <2>4. CASE r.cumulative = 0 /\ stale
      <3>1. delivered # {}
        BY <2>4 DEF stale, IInv, OrderInv
      <3>2. order'.status = order.status /\ order'.filled = order.filled
        BY <1>2, <1>4, <2>1, <2>2, <2>4, <1>3 DEF status, DeriveStatus
      <3> QED BY <2>1, <3>1, <3>2 DEF IInv, OrderInv
    <2>5. CASE r.cumulative = 0 /\ ~stale
      <3>1. r.status = "Live"
        <4>1. r.status \notin {"Canceled", "Rejected"}
          BY <1>2, <1>3, <2>1, <2>5 DEF status, DeriveStatus, IsTerminal
        <4> QED BY <1>3, <1>4, <2>5, <4>1 DEF ReportInv, ReportType, Statuses
      <3>2. order.filled = 0
        <4>1. CASE delivered = {}
          BY <4>1 DEF IInv, OrderInv
        <4>2. CASE delivered # {}
          <5>1. order.lastSequence # None
            BY <4>2 DEF IInv, OrderInv
          <5>2. \A d \in delivered : d.cumulative <= 0
            BY <1>6, <2>5, <5>1
          <5>3. PICK d \in delivered : d.cumulative = order.filled
            BY <4>2 DEF IInv, OrderInv
          <5> QED BY <1>4, <5>2, <5>3
        <4> QED BY <4>1, <4>2
      <3> QED BY <1>2, <1>3, <1>4, <2>1, <2>2, <2>5, <3>1, <3>2
              DEF status, DeriveStatus, IsTerminal
    <2> QED BY <1>4, <2>3, <2>4, <2>5
  <1>19. \E d \in delivered' : d.cumulative = order'.filled
    <2>1. order'.filled \in {r.cumulative, order.filled}
      BY <1>2, <1>3, <1>4, <1>8 DEF status, DeriveStatus, FilledAfter, IsTerminal
    <2>2. delivered = {} => order.filled = 0 /\ r.cumulative >= 0
      BY <1>4 DEF IInv, OrderInv
    <2>3. CASE order'.filled = r.cumulative
      BY <1>1, <2>3
    <2>4. CASE order'.filled # r.cumulative
      <3>1. order'.filled = order.filled
        BY <2>1, <2>4
      <3>2. delivered # {}
        BY <1>4, <1>12, <2>2, <2>4, <3>1
      <3> QED BY <1>1, <3>1, <3>2 DEF IInv, OrderInv
    <2> QED BY <2>3, <2>4
  <1> QED BY <1>1, <1>2, <1>11, <1>12, <1>13, <1>14, <1>15, <1>16, <1>17, <1>18, <1>19
          DEF IInv, OrderInv

\* An event at the venue keeps both sides.
LEMMA EmitKeeps ==
    ASSUME IInv, Sequenced, NEW v,
           v \in [status : VenueStatuses, quantity : Nat \ {0}, filled : Nat,
                  target : Nat \cup {None}],
           v.status \notin {"Pending"}, v.quantity = Quantity, v.target = None,
           v.filled <= Quantity, venue.filled <= v.filled,
           v.status = "Filled" <=> v.filled = Quantity,
           v.status \in {"Live", "Rejected"} => v.filled = 0,
           v.status = "PartiallyFilled" => v.filled > 0,
           ~IsTerminal(venue.status), Emit(v)
    PROVE  VenueInv' /\ SentInv' /\ OrderInv'
  <1> DEFINE new == ReportFor(v, emitted + 1)
  <1>1. /\ venue' = v /\ emitted' = emitted + 1 /\ sent' = sent \cup {new}
        /\ order' = order /\ delivered' = delivered /\ amends' = amends
    BY DEF Emit
  <1>2. /\ emitted \in Nat /\ Quantity \in Nat \ {0} /\ venue.filled \in Nat
        /\ v.filled \in Nat /\ delivered \subseteq sent
        /\ v.status \in VenueStatuses
    BY LifecycleAssumption, NoneAssumption DEF IInv, TypeOK
  <1>3. /\ new.event = emitted + 1 /\ new.sequence = emitted + 1 /\ new.client = Client
        /\ new.exid = Exid /\ new.quantity = Quantity /\ new.price = None
        /\ new.cumulative = v.filled /\ new.status = v.status
    BY DEF ReportFor
  <1>4. VenueInv'
    BY <1>1, <1>2 DEF IInv, VenueInv
  <1> HIDE DEF new
  <1>5. \A r \in sent' : ReportInv(r)'
    <2> SUFFICES ASSUME NEW r \in sent' PROVE ReportInv(r)'
      OBVIOUS
    <2>1. CASE r = new
      BY <1>1, <1>2, <1>3, <2>1 DEF ReportInv, VenueStatuses
    <2>2. CASE r \in sent
      <3>1. ReportInv(r) /\ r \in ReportType
        BY <2>2 DEF IInv, SentInv, TypeOK
      <3>2. r.status \notin {"Canceled", "Rejected"}
        BY <3>1 DEF ReportInv, IsTerminal
      <3> QED BY <1>1, <1>2, <3>1, <3>2 DEF ReportInv, ReportType
    <2> QED BY <1>1, <2>1, <2>2
  <1>6. \A r, s \in sent' : /\ r.event = s.event => r = s
                            /\ r.event < s.event => r.cumulative <= s.cumulative
    <2>1. \A r \in sent : /\ r.event \in Nat /\ r.event <= emitted
                          /\ r.cumulative \in Nat /\ r.cumulative <= venue.filled
      BY <1>2 DEF IInv, SentInv, ReportInv
    <2> QED BY <1>1, <1>2, <1>3, <2>1 DEF IInv, SentInv
  <1>7. OrderInv'
    <2>1. order.filled \in Nat
      BY DEF IInv, TypeOK, OrderType
    <2>2. order.status \notin {"Canceled", "Rejected"}
      BY DEF IInv, OrderInv, IsTerminal
    <2> QED BY <1>1, <1>2, <2>1, <2>2 DEF IInv, OrderInv
  <1> QED BY <1>4, <1>5, <1>6, <1>7 DEF SentInv

\* Every step that is not an amendment keeps the inductive invariant.
LEMMA InvStep ==
    ASSUME Sequenced, IInv, [Next]_vars, amends' = 0
    PROVE  IInv'
  <1>1. TypeOK'
    BY TypeStep DEF IInv
  <1>2. venue \in [status : VenueStatuses, quantity : Nat \ {0}, filled : Nat,
                   target : Nat \cup {None}]
    BY DEF IInv, TypeOK
  <1>3. CASE VenueAccept
    <2> DEFINE v == [venue EXCEPT !.status = "Live"]
    <2>1. Emit(v) /\ venue.status = "Pending"
      BY <1>3 DEF VenueAccept
    <2>2. /\ v \in [status : VenueStatuses, quantity : Nat \ {0}, filled : Nat,
                     target : Nat \cup {None}]
          /\ v.status = "Live" /\ v.quantity = Quantity /\ v.target = None
          /\ v.filled = 0 /\ venue.filled = 0
      BY <1>2, <2>1 DEF VenueStatuses, IInv, VenueInv
    <2> HIDE DEF v
    <2> QED BY <1>1, <2>1, <2>2, EmitKeeps, LifecycleAssumption, NoneAssumption DEF IInv, IsTerminal
  <1>4. CASE VenueReject
    <2> DEFINE v == [venue EXCEPT !.status = "Rejected"]
    <2>1. Emit(v) /\ venue.status = "Pending"
      BY <1>4 DEF VenueReject
    <2>2. /\ v \in [status : VenueStatuses, quantity : Nat \ {0}, filled : Nat,
                     target : Nat \cup {None}]
          /\ v.status = "Rejected" /\ v.quantity = Quantity /\ v.target = None
          /\ v.filled = 0 /\ venue.filled = 0
      BY <1>2, <2>1 DEF VenueStatuses, IInv, VenueInv
    <2> HIDE DEF v
    <2> QED BY <1>1, <2>1, <2>2, EmitKeeps, LifecycleAssumption, NoneAssumption DEF IInv, IsTerminal
  <1>5. CASE \E n \in 1 .. venue.quantity : VenueFill(n)
    <2> PICK n \in 1 .. venue.quantity : VenueFill(n)
      BY <1>5
    <2> DEFINE v == [venue EXCEPT !.filled = @ + n,
                          !.status = IF venue.filled + n = venue.quantity
                                     THEN "Filled" ELSE "PartiallyFilled"]
    <2>1. Emit(v) /\ Working /\ venue.filled + n <= venue.quantity
      BY DEF VenueFill
    <2>2. venue.filled + n \in Nat /\ venue.filled + n > 0 /\ venue.filled + n >= venue.filled
      BY <1>2
    <2>3. /\ v \in [status : VenueStatuses, quantity : Nat \ {0}, filled : Nat,
                     target : Nat \cup {None}]
          /\ v.filled = venue.filled + n
          /\ v.status = IF v.filled = Quantity THEN "Filled" ELSE "PartiallyFilled"
          /\ v.quantity = Quantity /\ v.target = None /\ venue.quantity = Quantity
      BY <1>2, <2>2 DEF VenueStatuses, IInv, VenueInv
    <2> HIDE DEF v
    <2> QED BY <1>1, <2>1, <2>2, <2>3, EmitKeeps DEF IInv, IsTerminal, Working
  <1>6. CASE VenueCancel
    <2> DEFINE v == [venue EXCEPT !.status = "Canceled"]
    <2>1. Emit(v) /\ Working
      BY <1>6 DEF VenueCancel
    <2>2. /\ v \in [status : VenueStatuses, quantity : Nat \ {0}, filled : Nat,
                     target : Nat \cup {None}]
          /\ v.status = "Canceled" /\ v.quantity = Quantity /\ v.target = None
          /\ v.filled = venue.filled /\ venue.filled \in Nat
          /\ venue.filled <= Quantity /\ venue.filled # Quantity
      BY <1>2, <2>1 DEF VenueStatuses, IInv, VenueInv, Working
    <2> HIDE DEF v
    <2> QED BY <1>1, <2>1, <2>2, EmitKeeps DEF IInv, IsTerminal, Working
  <1>7. CASE VenueAmend
    BY <1>7 DEF VenueAmend, IInv, VenueInv
  <1>8. CASE \E q \in Quantities : RequestAmend(q)
    BY <1>8 DEF RequestAmend, IInv, VenueInv
  <1>9. CASE \E report \in sent : Deliver(report)
    <2> PICK r \in sent : Deliver(r)
      BY <1>9
    <2>1. UNCHANGED <<venue, sent, emitted, amends>>
      BY DEF Deliver
    <2>2. VenueInv' /\ SentInv'
      BY <2>1 DEF IInv, VenueInv, SentInv, ReportInv
    <2>3. CASE r \in delivered
      <3>1. order' = order /\ delivered' = delivered
        BY <2>3, RepeatedReport DEF Deliver
      <3> QED BY <1>1, <2>1, <2>2, <3>1 DEF IInv, OrderInv
    <2>4. CASE r \notin delivered
      BY <1>1, <2>2, <2>4, NewReportKeeps DEF IInv
    <2> QED BY <2>3, <2>4
  <1>10. CASE UNCHANGED vars
    BY <1>1, <1>10 DEF vars, IInv, VenueInv, SentInv, ReportInv, OrderInv
  <1> QED BY <1>3, <1>4, <1>5, <1>6, <1>7, <1>8, <1>9, <1>10 DEF Next

\* The inductive invariant holds before the first report.
LEMMA InvInit == Init => IInv
  <1> SUFFICES ASSUME Init PROVE IInv
    OBVIOUS
  <1>1. VenueInv /\ SentInv
    BY LifecycleAssumption, NoneAssumption DEF Init, VenueInv, SentInv
  <1>2. OrderInv
    BY LifecycleAssumption, NoneAssumption DEF Init, OrderInv, MakeOrder, IsTerminal
  <1> QED BY <1>1, <1>2, TypeInit DEF IInv

\* RequestAmend counts upwards.
LEMMA AmendsGrow ==
    ASSUME TypeOK, [Next]_vars
    PROVE  amends <= amends'
  <1>1. amends \in Nat
    BY DEF TypeOK
  <1>2. amends' = amends \/ amends' = amends + 1
    BY DEF Next, vars, VenueAccept, VenueReject, VenueFill, VenueCancel, VenueAmend,
           Emit, RequestAmend, Deliver
  <1> QED BY <1>1, <1>2

\* So no step forgets an amendment.
LEMMA AmendsCounted ==
    ASSUME TypeOK, [Next]_vars, amends' = 0
    PROVE  amends = 0
  BY AmendsGrow DEF TypeOK

\* The inductive invariant holds as long as no amendment is requested.
LEMMA UnamendedInv ==
    ASSUME Sequenced
    PROVE  Spec => [](amends = 0 => IInv)
  <1> DEFINE J == TypeOK /\ (amends = 0 => IInv)
  <1>1. Init => J
    BY InvInit DEF IInv
  <1>2. J /\ [Next]_vars => J'
    <2> SUFFICES ASSUME J, [Next]_vars PROVE J'
      OBVIOUS
    <2>1. TypeOK'
      BY TypeStep
    <2> QED BY <2>1, AmendsCounted, InvStep
  <1>3. J => (amends = 0 => IInv)
    OBVIOUS
  <1> HIDE DEF J
  <1> QED BY <1>1, <1>2, <1>3, PTL DEF Spec

-----------------------------------------------------------------------------
(***************************************************************************)
(* Any number of amendments, with or without sequence numbers.             *)
(***************************************************************************)

\* Every report is about this order, and one that finishes it, by its status or by its fill of the
\* quantity that it states itself, was emitted by a venue that has finished it.
EvidenceInv ==
    /\ venue.filled <= venue.quantity
    /\ ~IsTerminal(venue.status) => venue.filled < venue.quantity
    /\ \A r \in sent :
          /\ r.event \in 1 .. emitted
          /\ r.client = Client /\ r.exid = Exid /\ r.price = None
          /\ r.quantity \in Nat /\ r.cumulative \in 0 .. r.quantity
          /\ IsTerminal(r.status) \/ r.cumulative = r.quantity => IsTerminal(venue.status)
    /\ \A r, s \in sent : r.event = s.event => r = s

\* The order accepts those reports, and knows each that it has had.
AcceptInv ==
    /\ Client \in order.clients /\ order.exid \in {None, Exid} /\ order.offsets[Exid] = 0
    /\ order.pendingPrice = None
    /\ order.events = {r.event : r \in delivered}

BaseInv == TypeOK /\ EvidenceInv /\ AcceptInv /\ TerminalMeansVenueTerminal

\* One amendment: who has the old terms, who has the new ones, and that a pending amendment has
\* not been reported to the order yet.
AmendInv ==
    /\ amends = 0 => order.pending # "Amend" /\ venue.target = None
    /\ amends = 0 \/ venue.target # None =>
          venue.quantity = Quantity /\ \A r \in sent : r.quantity = Quantity
    /\ venue.target # None => venue.target \in Quantities
    /\ order.pending = "Amend" =>
          /\ order.pendingQuantity \in Quantities
          /\ \A r \in delivered : r.quantity # order.pendingQuantity
          /\ IF venue.target # None THEN venue.target = order.pendingQuantity
             ELSE \E r \in sent : r.quantity = order.pendingQuantity
    /\ AmendConfirmedByVenue

\* A report already delivered is recognised by its event and changes nothing.
LEMMA KnownReport ==
    ASSUME BaseInv, NEW r \in delivered
    PROVE  Apply(order, r) = order
  <1>1. r \in sent /\ r.event \in order.events /\ r.event # None
    BY NoneAssumption DEF BaseInv, TypeOK, AcceptInv, EvidenceInv
  <1>2. Disposition(order, r) = "Duplicate"
    BY <1>1 DEF Disposition, IsDuplicate
  <1> QED BY <1>2 DEF Apply

\* A report that comes for the first time is merged, however old it is: its terms become the
\* order's, it finishes the order only if it says so itself, and it ends a pending amendment
\* exactly if it finishes the order or carries the new quantity.
LEMMA MergedReport ==
    ASSUME BaseInv, NEW r \in sent, r \notin delivered
    PROVE  LET o == Apply(order, r)
           IN  /\ o.clients = order.clients /\ o.exid = Exid /\ o.offsets = order.offsets
               /\ o.events = order.events \cup {r.event}
               /\ o.pendingPrice = None
               /\ IsTerminal(o.status) =>
                     IsTerminal(order.status) \/ IsTerminal(r.status) \/ r.cumulative = r.quantity
               /\ o.pending \in {order.pending, "None"}
               /\ order.pending = "Amend" /\ order.pendingQuantity # None =>
                     IF IsTerminal(o.status) \/ r.quantity = order.pendingQuantity
                     THEN o.pending = "None"
                     ELSE o.pending = "Amend" /\ o.pendingQuantity = order.pendingQuantity
  <1>1. /\ r \in ReportType /\ order \in OrderType
        /\ r.event \in Nat /\ r.event # None /\ r.cumulative \in Nat /\ r.quantity \in Nat
        /\ r.quantity # None /\ r.cumulative <= r.quantity /\ r.client = Client /\ r.exid = Exid
        /\ r.price = None /\ Exid # None /\ Exid \in ExchangeIds
    BY LifecycleAssumption, NoneAssumption DEF BaseInv, TypeOK, EvidenceInv
  <1>2. r.event \notin order.events
    BY DEF BaseInv, TypeOK, AcceptInv, EvidenceInv
  <1>3. ~OtherGeneration(order, r) /\ ~IsHistoricalGeneration(order, r)
    BY <1>1 DEF BaseInv, AcceptInv, OtherGeneration, IsHistoricalGeneration
  <1>4. OffsetFor(order, r.exid) = 0
    BY <1>1 DEF BaseInv, AcceptInv, OffsetFor
  <1>5. /\ AggregateFilled(order, r) = r.cumulative /\ ObservedQuantity(order, r) = r.quantity
        /\ EffectiveQuantity(order, r) = r.quantity
    BY <1>1, <1>3, <1>4 DEF AggregateFilled, ObservedQuantity, EffectiveQuantity
  <1>6. ~IsInvalid(order, r)
    BY <1>1, <1>3, <1>5 DEF IsInvalid, BaseInv, AcceptInv
  <1>7. Apply(order, r) = Merge(order, r)
    BY <1>2, <1>6 DEF Apply, Disposition, IsDuplicate
  <1> DEFINE terms == MergeTerms(order, r)
             status == DeriveStatus(terms, r, r.cumulative, FALSE, StaleSequence(order, r))
             f == MergeFills(order, r)
  <1>8. terms = [order EXCEPT !.quantity = r.quantity]
    <2>1. terms = [order EXCEPT !.price = order.price, !.quantity = r.quantity]
      BY <1>1, <1>3, <1>5 DEF MergeTerms, OrderType
    <2> QED BY <1>1, <2>1 DEF OrderType
  <1>9. terms \in OrderType /\ terms.quantity = r.quantity /\ terms.status = order.status
    BY <1>1, <1>8 DEF OrderType
  <1>10. IsTerminal(status) =>
           IsTerminal(order.status) \/ IsTerminal(r.status) \/ r.cumulative = r.quantity
    BY <1>1, <1>9 DEF DeriveStatus, IsTerminal
  <1>11. /\ f.clients = order.clients /\ f.exid = Exid /\ f.offsets = order.offsets
         /\ f.quantity = r.quantity /\ f.events = order.events \cup {r.event}
         /\ f.status = status /\ f.pending = order.pending
         /\ f.pendingPrice = order.pendingPrice /\ f.pendingQuantity = order.pendingQuantity
    <2> HIDE DEF status
    <2>1. DeriveStatus(terms, r, AggregateFilled(order, r), IsHistoricalGeneration(order, r),
                       StaleSequence(order, r)) = status
      BY <1>3, <1>5 DEF DeriveStatus, status
    <2> DEFINE last == IF r.sequence # None /\ (terms.lastSequence = None
                                                \/ r.sequence > terms.lastSequence)
                       THEN r.sequence ELSE terms.lastSequence
    <2>2. f = [terms EXCEPT !.status = status, !.filled = FilledAfter(terms, status, r.cumulative),
                            !.exid = r.exid, !.lastSequence = last,
                            !.events = terms.events \cup {r.event}]
      BY <1>1, <1>3, <1>5, <1>9, <2>1 DEF MergeFills, OrderType
    <2> HIDE DEF last, terms
    <2> QED BY <1>1, <1>8, <1>9, <2>2 DEF OrderType
  <1>12. f \in OrderType
    BY <1>1, <1>6, MergeFillsType
  <1> DEFINE clears == ClearsPending(f, r, FALSE)
  <1>13. order.pending = "Amend" /\ order.pendingQuantity # None =>
           (clears <=> IsTerminal(status) \/ r.quantity = order.pendingQuantity)
    <2> HIDE DEF f, status
    <2> QED BY <1>1, <1>11 DEF ClearsPending, AmendmentConfirmed, BaseInv, AcceptInv
  <1>14. Merge(order, r) = IF clears THEN [f EXCEPT !.pending = "None", !.pendingPrice = None,
                                                    !.pendingQuantity = None]
                           ELSE f
    BY <1>3 DEF Merge, ClearsPending
  <1> HIDE DEF f, status, clears
  <1>15. /\ Merge(order, r).clients = f.clients /\ Merge(order, r).exid = f.exid
         /\ Merge(order, r).offsets = f.offsets /\ Merge(order, r).events = f.events
         /\ Merge(order, r).status = f.status /\ Merge(order, r).pendingPrice = None
         /\ IF clears THEN Merge(order, r).pending = "None"
            ELSE Merge(order, r).pending = f.pending /\ Merge(order, r).pendingQuantity = f.pendingQuantity
    BY <1>11, <1>12, <1>14 DEF OrderType, BaseInv, AcceptInv
  <1> QED BY <1>7, <1>10, <1>11, <1>13, <1>15

\* The records that the venue's steps keep.
VenueType == [status : VenueStatuses, quantity : Nat \ {0}, filled : Nat, target : Nat \cup {None}]

\* A step of the venue moves to a state that it has not finished, or finishes it.
Moves(v) ==
    /\ v \in VenueType /\ v.status # "Pending"
    /\ v.filled <= v.quantity
    /\ ~IsTerminal(v.status) => v.filled < v.quantity
    /\ ~IsTerminal(venue.status)
    /\ Emit(v)

\* The steps of the venue: all but VenueAmend leave the terms alone.
LEMMA VenueMoves ==
    ASSUME BaseInv,
           \/ VenueAccept \/ VenueReject \/ \E n \in 1 .. venue.quantity : VenueFill(n)
           \/ VenueCancel \/ VenueAmend
    PROVE  \E v : /\ Moves(v)
                  /\ \/ v.quantity = venue.quantity /\ v.target = venue.target
                     \/ venue.target # None /\ v.quantity = venue.target /\ v.target = None
  <1>0. venue \in VenueType /\ venue.filled <= venue.quantity
        /\ (~IsTerminal(venue.status) => venue.filled < venue.quantity)
    BY DEF BaseInv, TypeOK, EvidenceInv, VenueType
  <1>1. CASE VenueAccept
    <2> DEFINE v == [venue EXCEPT !.status = "Live"]
    <2>1. venue.status = "Pending" /\ Emit(v)
      BY <1>1 DEF VenueAccept
    <2>2. v \in VenueType /\ v.status = "Live" /\ v.filled = venue.filled
          /\ v.quantity = venue.quantity /\ v.target = venue.target
      BY <1>0 DEF VenueType, VenueStatuses
    <2> HIDE DEF v
    <2> QED BY <1>0, <2>1, <2>2 DEF Moves, IsTerminal
  <1>2. CASE VenueReject
    <2> DEFINE v == [venue EXCEPT !.status = "Rejected"]
    <2>1. venue.status = "Pending" /\ Emit(v)
      BY <1>2 DEF VenueReject
    <2>2. v \in VenueType /\ v.status = "Rejected" /\ v.filled = venue.filled
          /\ v.quantity = venue.quantity /\ v.target = venue.target
      BY <1>0 DEF VenueType, VenueStatuses
    <2> HIDE DEF v
    <2> QED BY <1>0, <2>1, <2>2 DEF Moves, IsTerminal
  <1>3. CASE \E n \in 1 .. venue.quantity : VenueFill(n)
    <2> PICK n \in 1 .. venue.quantity : VenueFill(n)
      BY <1>3
    <2> DEFINE v == [venue EXCEPT !.filled = @ + n,
                          !.status = IF venue.filled + n = venue.quantity
                                     THEN "Filled" ELSE "PartiallyFilled"]
    <2>1. Working /\ venue.filled + n <= venue.quantity /\ Emit(v)
      BY DEF VenueFill
    <2>2. venue.filled + n \in Nat /\ venue.quantity \in Nat
      BY <1>0 DEF VenueType
    <2>3. v \in VenueType /\ v.filled = venue.filled + n
          /\ v.status = (IF venue.filled + n = venue.quantity THEN "Filled" ELSE "PartiallyFilled")
          /\ v.quantity = venue.quantity /\ v.target = venue.target
      BY <1>0, <2>2 DEF VenueType, VenueStatuses
    <2> HIDE DEF v
    <2> QED BY <2>1, <2>2, <2>3 DEF Moves, IsTerminal, Working
  <1>4. CASE VenueCancel
    <2> DEFINE v == [venue EXCEPT !.status = "Canceled"]
    <2>1. Working /\ Emit(v)
      BY <1>4 DEF VenueCancel
    <2>2. v \in VenueType /\ v.status = "Canceled" /\ v.filled = venue.filled
          /\ v.quantity = venue.quantity /\ v.target = venue.target
      BY <1>0 DEF VenueType, VenueStatuses
    <2> HIDE DEF v
    <2> QED BY <1>0, <2>1, <2>2 DEF Moves, IsTerminal, Working
  <1>5. CASE VenueAmend
    <2> DEFINE v == [venue EXCEPT !.quantity = venue.target, !.target = None]
    <2>1. Working /\ venue.target # None /\ venue.filled < venue.target /\ Emit(v)
      BY <1>5 DEF VenueAmend
    <2>2. venue.target \in Nat \ {0} /\ venue.filled \in Nat
      BY <1>0, <2>1 DEF VenueType
    <2>3. v \in VenueType /\ v.status = venue.status /\ v.filled = venue.filled
          /\ v.quantity = venue.target /\ v.target = None
      BY <1>0, <2>2 DEF VenueType
    <2> HIDE DEF v
    <2> QED BY <2>1, <2>2, <2>3 DEF Moves, IsTerminal, Working
  <1> QED BY <1>1, <1>2, <1>3, <1>4, <1>5

\* A step of the venue keeps the evidence right.
LEMMA MovesKeep ==
    ASSUME BaseInv, NEW v, Moves(v)
    PROVE  BaseInv'
  <1> DEFINE new == ReportFor(v, emitted + 1)
  <1>1. /\ venue' = v /\ emitted' = emitted + 1 /\ sent' = sent \cup {new}
        /\ order' = order /\ delivered' = delivered
    BY DEF Moves, Emit
  <1>2. /\ new.event = emitted + 1 /\ new.client = Client /\ new.exid = Exid /\ new.price = None
        /\ new.quantity = v.quantity /\ new.cumulative = v.filled /\ new.status = v.status
    BY DEF ReportFor
  <1>3. emitted \in Nat /\ v.quantity \in Nat /\ v.filled \in Nat
    BY DEF BaseInv, TypeOK, Moves, VenueType
  <1> HIDE DEF new
  <1>4. TypeOK'
    BY EmitType DEF BaseInv, Moves, VenueType
  <1>5. EvidenceInv'
    <2>1. ASSUME NEW r \in sent'
          PROVE  /\ r.event \in 1 .. emitted'
                 /\ r.client = Client /\ r.exid = Exid /\ r.price = None
                 /\ r.quantity \in Nat /\ r.cumulative \in 0 .. r.quantity
                 /\ IsTerminal(r.status) \/ r.cumulative = r.quantity => IsTerminal(venue'.status)
      <3>1. CASE r = new
        BY <1>1, <1>2, <1>3, <3>1 DEF Moves
      <3>2. CASE r \in sent
        BY <1>1, <1>3, <3>2 DEF BaseInv, EvidenceInv, Moves
      <3> QED BY <1>1, <2>1, <3>1, <3>2
    <2>2. \A r, s \in sent' : r.event = s.event => r = s
      <3>1. \A r \in sent : r.event \in Nat /\ r.event <= emitted
        BY <1>3 DEF BaseInv, EvidenceInv
      <3> QED BY <1>1, <1>2, <1>3, <3>1 DEF BaseInv, EvidenceInv
    <2> QED BY <1>1, <2>1, <2>2 DEF EvidenceInv, Moves
  <1>6. AcceptInv'
    BY <1>1 DEF BaseInv, AcceptInv
  <1>7. TerminalMeansVenueTerminal'
    BY <1>1 DEF BaseInv, TerminalMeansVenueTerminal, Moves
  <1> QED BY <1>4, <1>5, <1>6, <1>7 DEF BaseInv

\* Every step keeps what holds for any number of amendments.
LEMMA BaseStep == BaseInv /\ [Next]_vars => BaseInv'
  <1> SUFFICES ASSUME BaseInv, [Next]_vars PROVE BaseInv'
    OBVIOUS
  <1>1. TypeOK'
    BY TypeStep DEF BaseInv
  <1>2. CASE \/ VenueAccept \/ VenueReject \/ \E n \in 1 .. venue.quantity : VenueFill(n)
             \/ VenueCancel \/ VenueAmend
    BY <1>2, VenueMoves, MovesKeep
  <1>3. CASE \E q \in Quantities : RequestAmend(q)
    <2> PICK q \in Quantities : RequestAmend(q)
      BY <1>3
    <2>1. /\ order' = [order EXCEPT !.pending = "Amend", !.pendingQuantity = q]
          /\ venue' = [venue EXCEPT !.target = q]
          /\ UNCHANGED <<sent, delivered, emitted>>
      BY DEF RequestAmend
    <2>2. /\ order'.clients = order.clients /\ order'.exid = order.exid
          /\ order'.offsets = order.offsets /\ order'.pendingPrice = order.pendingPrice
          /\ order'.events = order.events /\ order'.status = order.status
      BY <2>1 DEF BaseInv, TypeOK, OrderType
    <2>3. venue'.status = venue.status /\ venue'.quantity = venue.quantity /\ venue'.filled = venue.filled
      BY <2>1 DEF BaseInv, TypeOK
    <2> QED BY <1>1, <2>1, <2>2, <2>3
            DEF BaseInv, EvidenceInv, AcceptInv, TerminalMeansVenueTerminal
  <1>4. CASE \E report \in sent : Deliver(report)
    <2> PICK r \in sent : Deliver(r)
      BY <1>4
    <2>1. /\ order' = Apply(order, r) /\ delivered' = delivered \cup {r}
          /\ UNCHANGED <<venue, sent, emitted>>
      BY DEF Deliver
    <2>2. EvidenceInv'
      BY <2>1 DEF BaseInv, EvidenceInv
    <2>3. CASE r \in delivered
      <3>1. order' = order /\ delivered' = delivered
        BY <2>1, <2>3, KnownReport
      <3> QED BY <1>1, <2>1, <2>2, <3>1 DEF BaseInv, AcceptInv, TerminalMeansVenueTerminal
    <2>4. CASE r \notin delivered
      <3>1. /\ order'.clients = order.clients /\ order'.exid = Exid
            /\ order'.offsets = order.offsets
            /\ order'.events = order.events \cup {r.event} /\ order'.pendingPrice = None
            /\ IsTerminal(order'.status) =>
                  IsTerminal(order.status) \/ IsTerminal(r.status) \/ r.cumulative = r.quantity
        BY <2>1, <2>4, MergedReport
      <3>2. AcceptInv'
        BY <2>1, <3>1 DEF BaseInv, AcceptInv
      <3>3. TerminalMeansVenueTerminal'
        BY <2>1, <3>1 DEF BaseInv, EvidenceInv, TerminalMeansVenueTerminal
      <3> QED BY <1>1, <2>2, <3>2, <3>3 DEF BaseInv
    <2> QED BY <2>3, <2>4
  <1>5. CASE UNCHANGED vars
    BY <1>1, <1>5 DEF vars, BaseInv, EvidenceInv, AcceptInv, TerminalMeansVenueTerminal
  <1> QED BY <1>2, <1>3, <1>4, <1>5 DEF Next

LEMMA BaseInit == Init => BaseInv
  <1> SUFFICES ASSUME Init PROVE BaseInv
    OBVIOUS
  <1>1. EvidenceInv
    BY LifecycleAssumption DEF Init, EvidenceInv
  <1>2. AcceptInv /\ TerminalMeansVenueTerminal
    BY LifecycleAssumption DEF Init, AcceptInv, TerminalMeansVenueTerminal, MakeOrder, IsTerminal
  <1> QED BY <1>1, <1>2, TypeInit DEF BaseInv

\* Every step that is not a second amendment keeps the part about the amendment.
LEMMA AmendStep ==
    ASSUME Quantity \notin Quantities, BaseInv, BaseInv', AmendInv, [Next]_vars, amends' <= 1
    PROVE  AmendInv'
  <1>0. /\ None \notin Quantities /\ None # Quantity /\ delivered \subseteq sent
        /\ amends \in Nat /\ venue \in VenueType /\ order \in OrderType
    BY LifecycleAssumption, NoneAssumption DEF BaseInv, TypeOK, VenueType
  <1>1. CASE \/ VenueAccept \/ VenueReject \/ \E n \in 1 .. venue.quantity : VenueFill(n)
             \/ VenueCancel \/ VenueAmend
    <2>1. PICK v : /\ Moves(v)
                   /\ \/ v.quantity = venue.quantity /\ v.target = venue.target
                      \/ venue.target # None /\ v.quantity = venue.target /\ v.target = None
      BY <1>1, VenueMoves
    <2> DEFINE new == ReportFor(v, emitted + 1)
    <2>2. /\ venue' = v /\ sent' = sent \cup {new} /\ new.quantity = v.quantity
          /\ order' = order /\ delivered' = delivered /\ amends' = amends
          /\ ~IsTerminal(venue.status)
      BY <2>1 DEF Moves, Emit, ReportFor
    <2> HIDE DEF new
    <2>3. CASE v.quantity = venue.quantity /\ v.target = venue.target
      BY <2>2, <2>3 DEF AmendInv, AmendConfirmedByVenue
    <2>4. CASE venue.target # None /\ v.quantity = venue.target /\ v.target = None
      BY <2>2, <2>4 DEF AmendInv, AmendConfirmedByVenue
    <2> QED BY <2>1, <2>3, <2>4
  <1>2. CASE \E q \in Quantities : RequestAmend(q)
    <2> PICK q \in Quantities : RequestAmend(q)
      BY <1>2
    <2>1. /\ order' = [order EXCEPT !.pending = "Amend", !.pendingQuantity = q]
          /\ venue' = [venue EXCEPT !.target = q] /\ amends' = amends + 1
          /\ UNCHANGED <<sent, delivered, emitted>>
      BY DEF RequestAmend
    <2>2. order'.pending = "Amend" /\ order'.pendingQuantity = q
      BY <1>0, <2>1 DEF OrderType
    <2>3. venue'.target = q /\ venue'.quantity = venue.quantity
      BY <1>0, <2>1 DEF VenueType
    <2>4. amends = 0 /\ amends' # 0
      BY <1>0, <2>1
    <2> QED BY <1>0, <2>1, <2>2, <2>3, <2>4 DEF AmendInv, AmendConfirmedByVenue
  <1>3. CASE \E report \in sent : Deliver(report)
    <2> PICK r \in sent : Deliver(r)
      BY <1>3
    <2>1. /\ order' = Apply(order, r) /\ delivered' = delivered \cup {r}
          /\ UNCHANGED <<venue, sent, emitted, amends>>
      BY DEF Deliver
    <2>2. CASE r \in delivered
      <3>1. order' = order /\ delivered' = delivered
        BY <2>1, <2>2, KnownReport DEF BaseInv
      <3> QED BY <2>1, <3>1 DEF AmendInv, AmendConfirmedByVenue
    <2>3. CASE r \notin delivered
      <3>1. /\ order'.pending \in {order.pending, "None"}
            /\ order.pending = "Amend" /\ order.pendingQuantity # None =>
                  IF IsTerminal(order'.status) \/ r.quantity = order.pendingQuantity
                  THEN order'.pending = "None"
                  ELSE order'.pending = "Amend" /\ order'.pendingQuantity = order.pendingQuantity
        BY <2>1, <2>3, MergedReport
      <3>2. order.pending = "Amend" => order.pendingQuantity \in Quantities /\ order.pendingQuantity # None
        BY <1>0 DEF AmendInv
      <3>3. order'.pending = "Amend" =>
              /\ order.pending = "Amend" /\ order'.pendingQuantity = order.pendingQuantity
              /\ r.quantity # order.pendingQuantity
        BY <3>1, <3>2
      <3>4. IsTerminal(order'.status) => IsTerminal(venue.status)
        BY <2>1 DEF BaseInv, TerminalMeansVenueTerminal
      <3>5. AmendConfirmedByVenue'
        BY <2>1, <3>1, <3>2, <3>4 DEF AmendInv, AmendConfirmedByVenue
      <3> QED BY <2>1, <3>1, <3>3, <3>5 DEF AmendInv
    <2> QED BY <2>2, <2>3
  <1>4. CASE UNCHANGED vars
    BY <1>4 DEF vars, AmendInv, AmendConfirmedByVenue
  <1> QED BY <1>1, <1>2, <1>3, <1>4 DEF Next

LEMMA AmendInit == Init => AmendInv
  <1> SUFFICES ASSUME Init PROVE AmendInv
    OBVIOUS
  <1>1. order.pending = "New" /\ venue.target = None /\ venue.quantity = Quantity /\ sent = {}
    BY DEF Init, MakeOrder
  <1> QED BY <1>1 DEF AmendInv, AmendConfirmedByVenue

(***************************************************************************)
(* An amendment that changes the quantity is pending until the venue has   *)
(* made it and told of it, and no longer (amendment_confirmed), for the    *)
(* first amendment of an order, with or without sequence numbers: a late   *)
(* report of the old terms does not confirm it, and a late report of the   *)
(* new ones does.                                                          *)
(***************************************************************************)
THEOREM AmendmentsSettle ==
    ASSUME Quantity \notin Quantities
    PROVE  Spec => [](amends <= 1 => AmendmentSettled)
  <1> DEFINE J == BaseInv /\ (amends <= 1 => AmendInv)
  <1>1. Init => J
    BY BaseInit, AmendInit
  <1>2. J /\ [Next]_vars => J'
    <2> SUFFICES ASSUME J, [Next]_vars PROVE J'
      OBVIOUS
    <2>1. BaseInv'
      BY BaseStep
    <2>2. amends <= amends' /\ amends \in Nat /\ amends' \in Nat
      BY <2>1, AmendsGrow DEF BaseInv, TypeOK
    <2>3. ASSUME amends' <= 1 PROVE AmendInv'
      <3>1. AmendInv
        BY <2>2, <2>3
      <3> QED BY <2>1, <2>3, <3>1, AmendStep
    <2> QED BY <2>1, <2>3
  <1>3. J => (amends <= 1 => AmendmentSettled)
    BY DEF AmendInv, AmendmentSettled, AmendSettles
  <1> HIDE DEF J
  <1> QED BY <1>1, <1>2, <1>3, PTL DEF Spec

(***************************************************************************)
(* An order is declared finished only when the venue has finished it, for  *)
(* any number of amendments, with or without sequence numbers, and for     *)
(* every order of delivery.                                                *)
(***************************************************************************)
THEOREM FinishedByTheVenue == Spec => []TerminalMeansVenueTerminal
  <1>1. BaseInv => TerminalMeansVenueTerminal
    BY DEF BaseInv
  <1> QED BY <1>1, BaseInit, BaseStep, PTL DEF Spec
-----------------------------------------------------------------------------
(* An order not amended yet *)

(***************************************************************************)
(* The order shows no fill that the venue did not make.                    *)
(***************************************************************************)
THEOREM FillsAreReal ==
    ASSUME Sequenced
    PROVE  Spec => []NoPhantomFill
  <1>1. (amends = 0 => IInv) => NoPhantomFill
    BY DEF IInv, OrderInv, NoPhantomFill
  <1> QED BY <1>1, UnamendedInv, PTL

(***************************************************************************)
(* The merge rules of apply make the order of delivery irrelevant: once    *)
(* all reports are in, the order says what the venue says.                 *)
(***************************************************************************)
THEOREM DeliveryOrderIrrelevant ==
    ASSUME Sequenced
    PROVE  Spec => []Converges
  <1>1. (amends = 0 => IInv) => Converges
    <2> SUFFICES ASSUME IInv, delivered = sent, sent # {}
                 PROVE  /\ order.status = venue.status
                        /\ order.filled = venue.filled
                        /\ order.quantity = venue.quantity
      BY DEF Converges
    <2>1. emitted \in Nat /\ emitted > 0
      BY DEF IInv, TypeOK, SentInv, ReportInv
    <2> DEFINE last == ReportFor(venue, emitted)
    <2>2. last \in delivered
      BY <2>1 DEF IInv, VenueInv
    <2>3. last.status = venue.status /\ last.cumulative = venue.filled
      BY DEF ReportFor
    <2> HIDE DEF last
    <2>4. /\ order.filled \in Nat /\ venue.filled \in Nat /\ Quantity \in Nat \ {0}
          /\ order.status \in Statuses /\ venue.status \in VenueStatuses
      BY LifecycleAssumption, NoneAssumption DEF IInv, TypeOK, OrderType
    <2>5. order.filled = venue.filled
      BY <2>2, <2>3, <2>4 DEF IInv, OrderInv
    <2>6. venue.status # "Pending"
      BY <2>1 DEF IInv, VenueInv
    <2>7. order.status = venue.status
      BY <2>2, <2>3, <2>4, <2>5, <2>6
         DEF IInv, VenueInv, OrderInv, VenueStatuses, Statuses, IsTerminal
    <2> QED BY <2>5, <2>7 DEF IInv, VenueInv, OrderInv
  <1> QED BY <1>1, UnamendedInv, PTL

(***************************************************************************)
(* Its filled quantity never goes back.                                    *)
(***************************************************************************)
THEOREM FillsNeverShrink ==
    ASSUME Sequenced
    PROVE  Spec => FillMonotonic
  <1>1. TypeOK /\ (amends = 0 => IInv) /\ (amends = 0 => IInv)' /\ [Next]_vars
          => [amends' = 0 => order'.filled >= order.filled]_vars
    <2> SUFFICES ASSUME TypeOK, amends = 0 => IInv, (amends = 0 => IInv)', Next, amends' = 0
                 PROVE  order'.filled >= order.filled
      BY DEF vars
    <2>0. IInv /\ IInv'
      BY AmendsCounted
    <2>1. order.filled \in Nat
      BY <2>0 DEF IInv, TypeOK, OrderType
    <2>2. CASE \E report \in sent : Deliver(report)
      <3> PICK r \in sent : Deliver(r)
        BY <2>2
      <3>1. CASE delivered = {}
        BY <2>0, <2>1, <3>1 DEF IInv, OrderInv, TypeOK, OrderType
      <3>2. CASE delivered # {}
        <4>1. PICK d \in delivered : d.cumulative = order.filled
          BY <2>0, <3>2 DEF IInv, OrderInv
        <4>2. d \in delivered'
          BY DEF Deliver
        <4> QED BY <2>0, <4>1, <4>2, <2>1 DEF IInv, OrderInv, TypeOK, OrderType
      <3> QED BY <3>1, <3>2
    <2>3. CASE \E q \in Quantities : RequestAmend(q)
      BY <2>0, <2>1, <2>3 DEF RequestAmend, IInv, TypeOK, OrderType
    <2>4. CASE \E v : Emit(v)
      BY <2>1, <2>4 DEF Emit
    <2> QED BY <2>2, <2>3, <2>4
            DEF Next, VenueAccept, VenueReject, VenueFill, VenueCancel, VenueAmend
  <1> QED BY <1>1, TypeCorrect, UnamendedInv, PTL DEF Spec, FillMonotonic

(***************************************************************************)
(* Altogether: with numbered reports the order follows the physical order. *)
(***************************************************************************)
THEOREM OrderFollowsVenue ==
    ASSUME Sequenced
    PROVE  Spec => []FollowsVenue
  <1>1. TypeOK /\ TerminalMeansVenueTerminal /\ NoPhantomFill /\ Converges => FollowsVenue
    BY DEF FollowsVenue
  <1> QED BY <1>1, TypeCorrect, FinishedByTheVenue, FillsAreReal, DeliveryOrderIrrelevant, PTL

(***************************************************************************)
(* With numbered reports no delivery undoes the end of an order or, as     *)
(* long as it is not amended, a fill.                                      *)
(***************************************************************************)
THEOREM DeliveryUndoesNothing ==
    ASSUME Sequenced
    PROVE  Spec => NothingUndone
  BY TerminalNeverReopens, FillsNeverShrink DEF NothingUndone
-----------------------------------------------------------------------------
(***************************************************************************)
(* The simulated exchange, for every number of orders, commands, faults    *)
(* and reports: every report is accounted for.  The invariant says where a *)
(* report can be at each step of a thread, and which identifiers and       *)
(* numbers the simulator and the gateway can have seen.                    *)
(***************************************************************************)
\* A report on its way: with its number, which names its event, once it has one.
Reports(numbers) ==
    {r \in [event : numbers, client : Cids, exid : ExchangeIds \cup {None}, status : SimStatuses,
            cumulative : Nat, price : {None}, quantity : Nat, sequence : numbers] :
        r.event = r.sequence}
Commands == {"place", "cancel", "amend"}
ThreadType ==
    [pc : ThreadSteps, op : Commands \cup {"emit", "none"}, cid : Cids \cup {None}, quantity : Nat,
     held : Seq(Reports(Nat \cup {None})), matched : BOOLEAN]

\* The types of the state; exchange identifiers are taken by commands.
SimTypes ==
    /\ orders \in [Cids -> SimOrderType \cup {None}]
    /\ nextSequence \in Nat \ {0} /\ nextExchangeId \in Nat \ {0}
    /\ connected \in BOOLEAN
    /\ buffered \in Seq(Reports(Nat)) /\ lane \in Seq(Reports(Nat))
    /\ thread \in [Threads -> ThreadType]
    /\ view \in [Cids -> OrderType \cup {None}]
    /\ tracker \in [last : Nat \cup {None}, gap : BOOLEAN] /\ seen \in Seq(Nat)
    /\ bounds \in [calls : Nat, faults : Nat, first : Nat \ {0}]
    /\ bounds.first <= nextSequence
    /\ nextExchangeId <= bounds.calls + 1 /\ bounds.calls <= MaxCalls

\* What a thread holds at each step.
HeldInv(x) ==
    /\ x.pc \in {"idle", "locked", "match", "swap", "ack", "reject", "uncertain"} => x.held = <<>>
    /\ x.pc = "emit" => x.held # <<>>
    /\ x.pc = "number" => Len(x.held) = 1 /\ x.held[1].sequence = None
    /\ x.pc # "number" => x.held \in Seq(Reports(Nat))

\* The command under way: its order is known to the gateway, and to the simulator from the step
\* under its mutex on.
Busy(x) == x.pc \notin {"idle", "swap", "deliver"}
CommandInv(x) ==
    /\ Busy(x) => x.cid \in Cids /\ view[x.cid] # None /\ x.op # "none"
    /\ x.pc \in {"locked", "match", "ack", "reject", "uncertain"} => x.op \in Commands
    /\ x.pc \in {"number", "publish", "emit", "match", "ack"} => orders[x.cid] # None
    /\ x.pc = "locked" /\ x.op = "place" =>
          orders[x.cid] = None /\ nextExchangeId <= bounds.calls
ThreadInv ==
    /\ thread["feed"].pc \in {"idle", "publish", "emit"}
    /\ HeldInv(thread["cli"]) /\ HeldInv(thread["feed"])
    /\ CommandInv(thread["cli"])

\* The buffer is empty unless the connection is down or the buffer is about to be taken.
BufferInv ==
    /\ connected /\ thread["cli"].pc # "swap" => buffered = <<>>
    /\ thread["cli"].pc \in {"swap", "deliver"} => connected

\* The tracker begins with the first number applied.
TrackerInv == (seen = <<>> <=> tracker.last = None) /\ GapIsFlagged

\* Reports are of orders that the simulator has, and name no other exchange identifier.
Reported(queue) ==
    \A i \in 1 .. Len(queue) :
        /\ orders[queue[i].client] # None
        /\ queue[i].exid \in {None, orders[queue[i].client].exid}

\* What the simulator and the gateway know of an order: identifiers the simulator has given in this
\* life, numbers below the next; without the order in the simulator, nothing, or its end.
Identified(c) ==
    /\ orders[c] # None =>
        /\ view[c] # None
        /\ orders[c].exid # None => orders[c].exid \in 1 .. nextExchangeId - 1
        /\ view[c].exid \in {None, orders[c].exid}
        /\ view[c].lastSequence # None => view[c].lastSequence < nextSequence
    /\ orders[c] = None /\ view[c] # None =>
        \/ view[c].exid = None /\ view[c].lastSequence = None
        \/ IsTerminal(view[c].status) /\ ~(Busy(thread["cli"]) /\ thread["cli"].cid = c)
Distinct ==
    \A c, d \in Cids : c # d /\ orders[c] # None /\ orders[d] # None /\ orders[c].exid # None =>
        orders[c].exid # orders[d].exid
IdentityInv ==
    /\ Reported(thread["cli"].held) /\ Reported(thread["feed"].held)
    /\ Reported(buffered) /\ Reported(lane)
    /\ \A c \in Cids : Identified(c)
    /\ Distinct

\* The inductive invariant.
SimInv == SimTypes /\ ThreadInv /\ BufferInv /\ ReportsConserved /\ TrackerInv /\ IdentityInv
-----------------------------------------------------------------------------
(* Reports and their numbers *)

Numbers(queue) == {queue[i].sequence : i \in 1 .. Len(queue)}

\* The numbers of a queue that grows, shrinks or is joined to another.
LEMMA NumbersOf ==
    ASSUME NEW S, NEW q \in Seq(S)
    PROVE  /\ Len(q) \in Nat
           /\ \A m \in S : /\ Numbers(Append(q, m)) = Numbers(q) \cup {m.sequence}
                           /\ Len(Append(q, m)) = Len(q) + 1
           /\ q # <<>> => /\ Numbers(q) = {Head(q).sequence} \cup Numbers(Tail(q))
                          /\ Len(Tail(q)) = Len(q) - 1 /\ Tail(q) \in Seq(S) /\ Head(q) \in S
           /\ \A p \in Seq(S) : /\ Numbers(q \o p) = Numbers(q) \cup Numbers(p)
                                /\ Len(q \o p) = Len(q) + Len(p)
  <1>1. ASSUME NEW m \in S
        PROVE  Numbers(Append(q, m)) = Numbers(q) \cup {m.sequence}
    <2> DEFINE a == Append(q, m)
    <2>1. /\ Len(q) \in Nat /\ Len(a) = Len(q) + 1 /\ a[Len(q) + 1] = m
          /\ \A i \in 1 .. Len(q) : a[i] = q[i]
      OBVIOUS
    <2> HIDE DEF a
    <2>2. 1 .. Len(a) = 1 .. Len(q) \cup {Len(q) + 1}
      BY <2>1
    <2>3. Numbers(a) = Numbers(q) \cup {m.sequence}
      BY <2>1, <2>2 DEF Numbers
    <2> QED BY <2>3 DEF a
  <1>2. ASSUME q # <<>>
        PROVE  /\ Numbers(q) = {Head(q).sequence} \cup Numbers(Tail(q))
               /\ Len(Tail(q)) = Len(q) - 1 /\ Tail(q) \in Seq(S) /\ Head(q) \in S
    <2> DEFINE t == Tail(q)
    <2>1. /\ Len(q) \in Nat \ {0} /\ Len(t) = Len(q) - 1 /\ Head(q) = q[1]
          /\ \A i \in 1 .. Len(t) : t[i] = q[i + 1]
          /\ t \in Seq(S) /\ Head(q) \in S
      BY <1>2
    <2> HIDE DEF t
    <2>2. \A i \in 1 .. Len(q) : i = 1 \/ i - 1 \in 1 .. Len(t)
      BY <2>1
    <2>3. \A i \in 1 .. Len(q) : i # 1 => i - 1 \in 1 .. Len(t) /\ t[i - 1] = q[i]
      BY <2>1, <2>2
    <2>4. \A i \in 1 .. Len(t) : i + 1 \in 1 .. Len(q)
      BY <2>1
    <2>5. Numbers(q) \subseteq {Head(q).sequence} \cup Numbers(t)
      BY <2>1, <2>3 DEF Numbers
    <2>6. {Head(q).sequence} \cup Numbers(t) \subseteq Numbers(q)
      BY <2>1, <2>4 DEF Numbers
    <2> QED BY <2>1, <2>5, <2>6 DEF t
  <1>3. ASSUME NEW p \in Seq(S)
        PROVE  Numbers(q \o p) = Numbers(q) \cup Numbers(p)
    <2> DEFINE a == q \o p
    <2>1. /\ Len(q) \in Nat /\ Len(p) \in Nat /\ Len(a) = Len(q) + Len(p)
          /\ \A i \in 1 .. Len(q) : a[i] = q[i]
          /\ \A i \in 1 .. Len(p) : a[i + Len(q)] = p[i]
      OBVIOUS
    <2> HIDE DEF a
    <2>2. \A i \in 1 .. Len(a) : i \notin 1 .. Len(q) =>
              i - Len(q) \in 1 .. Len(p) /\ a[i] = p[i - Len(q)]
      BY <2>1
    <2>3. /\ \A i \in 1 .. Len(q) : i \in 1 .. Len(a)
          /\ \A i \in 1 .. Len(p) : i + Len(q) \in 1 .. Len(a)
      BY <2>1
    <2>4. Numbers(a) \subseteq Numbers(q) \cup Numbers(p)
      BY <2>1, <2>2, ZenonT(60) DEF Numbers
    <2>5. Numbers(q) \subseteq Numbers(a)
      BY <2>1, <2>3 DEF Numbers
    <2>6. Numbers(p) \subseteq Numbers(a)
      BY <2>1, <2>3 DEF Numbers
    <2> QED BY <2>4, <2>5, <2>6 DEF a
  <1> QED BY <1>1, <1>2, <1>3

LEMMA NumbersOfShort ==
    /\ Numbers(<<>>) = {}
    /\ \A m : Numbers(<<m>>) = {m.sequence} /\ Len(<<m>>) = 1
  <1>1. Numbers(<<>>) = {}
    BY DEF Numbers
  <1>2. ASSUME NEW m PROVE Numbers(<<m>>) = {m.sequence} /\ Len(<<m>>) = 1
    <2>1. Len(<<m>>) = 1 /\ 1 .. 1 = {1} /\ <<m>>[1] = m
      OBVIOUS
    <2> QED BY <2>1 DEF Numbers
  <1> QED BY <1>1, <1>2

\* Where the numbers given out in this life are, as sets and counts.
Accounted(c, f, b, l, s, first, next) ==
    /\ Numbers(c) \cup Numbers(f) \cup Numbers(b) \cup Numbers(l) \cup ToSet(s) = first .. next - 1
    /\ Len(c) + Len(f) + Len(b) + Len(l) + Len(s) = next - first
\* The numbered reports of a thread.
Held(x) == IF x.pc = "number" THEN <<>> ELSE x.held

\* NumbersIn is the sequence of the numbers.
LEMMA NumbersInSeq ==
    ASSUME NEW S, NEW q \in Seq(S), \A m \in S : m.sequence \in Nat
    PROVE  /\ NumbersIn(q) \in Seq(Nat) /\ Len(NumbersIn(q)) = Len(q)
           /\ ToSet(NumbersIn(q)) = Numbers(q)
  <1> DEFINE n == NumbersIn(q)
  <1>1. Len(q) \in Nat /\ \A i \in 1 .. Len(q) : q[i] \in S
    OBVIOUS
  <1>2. n = [i \in 1 .. Len(q) |-> q[i].sequence]
    BY DEF NumbersIn
  <1>3. n \in Seq(Nat) /\ Len(n) = Len(q) /\ DOMAIN n = 1 .. Len(q)
    BY <1>1, <1>2
  <1>4. ToSet(n) = Numbers(q)
    BY <1>2, <1>3 DEF ToSet, Numbers
  <1> QED BY <1>3, <1>4

\* The elements of joined sequences.
LEMMA ToSetOf ==
    ASSUME NEW S, NEW p \in Seq(S), NEW q \in Seq(S)
    PROVE  ToSet(p \o q) = ToSet(p) \cup ToSet(q) /\ Len(p \o q) = Len(p) + Len(q) /\ p \o q \in Seq(S)
  <1> DEFINE a == p \o q
  <1>1. /\ Len(p) \in Nat /\ Len(q) \in Nat /\ Len(a) = Len(p) + Len(q)
        /\ DOMAIN a = 1 .. Len(a) /\ DOMAIN p = 1 .. Len(p) /\ DOMAIN q = 1 .. Len(q)
        /\ \A i \in 1 .. Len(p) : a[i] = p[i]
        /\ \A i \in 1 .. Len(q) : a[i + Len(p)] = q[i]
        /\ a \in Seq(S)
    OBVIOUS
  <1> HIDE DEF a
  <1>2. \A i \in 1 .. Len(a) : i \notin 1 .. Len(p) =>
            i - Len(p) \in 1 .. Len(q) /\ a[i] = q[i - Len(p)]
    BY <1>1, SMTT(30)
  <1>3. /\ \A i \in 1 .. Len(p) : i \in 1 .. Len(a)
        /\ \A i \in 1 .. Len(q) : i + Len(p) \in 1 .. Len(a)
    BY <1>1
  <1>4. ToSet(a) \subseteq ToSet(p) \cup ToSet(q)
    BY <1>1, <1>2 DEF ToSet
  <1>5. ToSet(p) \subseteq ToSet(a)
    BY <1>1, <1>3 DEF ToSet
  <1>6. ToSet(q) \subseteq ToSet(a)
    BY <1>1, <1>3 DEF ToSet
  <1> QED BY <1>1, <1>4, <1>5, <1>6 DEF a

\* Conservation in terms of sets and counts.
LEMMA ConservedIs ==
    ASSUME NEW R, \A m \in R : m.sequence \in Nat,
           NEW hc \in Seq(R), NEW hf \in Seq(R), NEW hb \in Seq(R), NEW hl \in Seq(R),
           NEW s \in Seq(Nat), NEW first, NEW next
    PROVE  LET all == NumbersIn(hc) \o NumbersIn(hf) \o NumbersIn(hb) \o NumbersIn(hl) \o s
           IN  (ToSet(all) = first .. next - 1 /\ Len(all) = next - first) <=>
                  Accounted(hc, hf, hb, hl, s, first, next)
  <1> DEFINE c == NumbersIn(hc)
             f == NumbersIn(hf)
             b == NumbersIn(hb)
             l == NumbersIn(hl)
             all == c \o f \o b \o l \o s
  <1>3. c \in Seq(Nat) /\ Len(c) = Len(hc) /\ ToSet(c) = Numbers(hc)
    BY NumbersInSeq
  <1>4. f \in Seq(Nat) /\ Len(f) = Len(hf) /\ ToSet(f) = Numbers(hf)
    BY NumbersInSeq
  <1>5. b \in Seq(Nat) /\ Len(b) = Len(hb) /\ ToSet(b) = Numbers(hb)
    BY NumbersInSeq
  <1>6. l \in Seq(Nat) /\ Len(l) = Len(hl) /\ ToSet(l) = Numbers(hl)
    BY NumbersInSeq
  <1> HIDE DEF c, f, b, l
  <1>7. /\ ToSet(all) = ToSet(c) \cup ToSet(f) \cup ToSet(b) \cup ToSet(l) \cup ToSet(s)
        /\ Len(all) = Len(c) + Len(f) + Len(b) + Len(l) + Len(s)
    <2>1. /\ ToSet(c \o f) = ToSet(c) \cup ToSet(f) /\ Len(c \o f) = Len(c) + Len(f)
          /\ c \o f \in Seq(Nat)
      BY <1>3, <1>4, ToSetOf
    <2> DEFINE cf == c \o f
    <2> HIDE DEF cf
    <2>2. /\ ToSet(cf \o b) = ToSet(cf) \cup ToSet(b) /\ Len(cf \o b) = Len(cf) + Len(b)
          /\ cf \o b \in Seq(Nat)
      BY <2>1, <1>5, ToSetOf DEF cf
    <2> DEFINE cfb == cf \o b
    <2> HIDE DEF cfb
    <2>3. /\ ToSet(cfb \o l) = ToSet(cfb) \cup ToSet(l) /\ Len(cfb \o l) = Len(cfb) + Len(l)
          /\ cfb \o l \in Seq(Nat)
      BY <2>2, <1>6, ToSetOf DEF cfb
    <2> DEFINE cfbl == cfb \o l
    <2> HIDE DEF cfbl
    <2>4. ToSet(cfbl \o s) = ToSet(cfbl) \cup ToSet(s) /\ Len(cfbl \o s) = Len(cfbl) + Len(s)
      <3>1. cfbl \in Seq(Nat) /\ s \in Seq(Nat)
        BY <2>3 DEF cfbl
      <3> QED BY <3>1, ToSetOf
    <2>5. all = cfbl \o s
      BY DEF cf, cfb, cfbl
    <2> QED BY <2>1, <2>2, <2>3, <2>4, <2>5 DEF cf, cfb, cfbl
  <1>8. (ToSet(all) = first .. next - 1 /\ Len(all) = next - first) <=>
            Accounted(hc, hf, hb, hl, s, first, next)
    <2> HIDE DEF all
    <2> QED BY <1>3, <1>4, <1>5, <1>6, <1>7 DEF Accounted
  <1> QED BY <1>8 DEF c, f, b, l, all

\* What is numbered is accounted for, in this state and in the next.
LEMMA ReportsNumbered == \A m \in Reports(Nat) : m.sequence \in Nat /\ m.client \in Cids
  BY DEF Reports
LEMMA HeldIs ==
    ASSUME NEW x, HeldInv(x)
    PROVE  /\ Held(x) \in Seq(Reports(Nat))
           /\ NumbersIn(Held(x)) = IF x.pc = "number" THEN <<>> ELSE NumbersIn(x.held)
  <1>1. NumbersIn(<<>>) = <<>> /\ <<>> \in Seq(Reports(Nat))
    BY DEF NumbersIn
  <1> QED BY <1>1 DEF Held, HeldInv
LEMMA ConservedNow ==
    ASSUME SimTypes, ThreadInv
    PROVE  ReportsConserved <=>
               Accounted(Held(thread["cli"]), Held(thread["feed"]), buffered, lane, seen,
                         bounds.first, nextSequence)
  <1>1. /\ buffered \in Seq(Reports(Nat)) /\ lane \in Seq(Reports(Nat)) /\ seen \in Seq(Nat)
        /\ HeldInv(thread["cli"]) /\ HeldInv(thread["feed"])
    BY DEF SimTypes, ThreadInv
  <1> DEFINE c == Held(thread["cli"])
             f == Held(thread["feed"])
  <1>2. /\ c \in Seq(Reports(Nat)) /\ f \in Seq(Reports(Nat))
        /\ NumbersIn(c) = HeldNumbers("cli") /\ NumbersIn(f) = HeldNumbers("feed")
    BY <1>1, HeldIs DEF HeldNumbers
  <1>3. LET all == NumbersIn(c) \o NumbersIn(f) \o NumbersIn(buffered) \o NumbersIn(lane) \o seen
        IN  (ToSet(all) = bounds.first .. nextSequence - 1 /\ Len(all) = nextSequence - bounds.first)
               <=> Accounted(c, f, buffered, lane, seen, bounds.first, nextSequence)
    <2> HIDE DEF c, f
    <2> QED BY <1>1, <1>2, ConservedIs, ReportsNumbered
  <1> QED BY <1>2, <1>3 DEF ReportsConserved
LEMMA ConservedNext ==
    ASSUME SimTypes', ThreadInv'
    PROVE  ReportsConserved' <=>
               Accounted(Held(thread'["cli"]), Held(thread'["feed"]), buffered', lane', seen',
                         bounds'.first, nextSequence')
  <1>1. /\ buffered' \in Seq(Reports(Nat)) /\ lane' \in Seq(Reports(Nat)) /\ seen' \in Seq(Nat)
        /\ HeldInv(thread'["cli"]) /\ HeldInv(thread'["feed"])
    BY DEF SimTypes, ThreadInv
  <1> DEFINE c == Held(thread'["cli"])
             f == Held(thread'["feed"])
  <1>2. /\ c \in Seq(Reports(Nat)) /\ f \in Seq(Reports(Nat))
        /\ NumbersIn(c) = HeldNumbers("cli")' /\ NumbersIn(f) = HeldNumbers("feed")'
    BY <1>1, HeldIs DEF HeldNumbers
  <1>3. LET all == NumbersIn(c) \o NumbersIn(f) \o NumbersIn(buffered') \o NumbersIn(lane') \o seen'
        IN  (ToSet(all) = bounds'.first .. nextSequence' - 1
                /\ Len(all) = nextSequence' - bounds'.first)
               <=> Accounted(c, f, buffered', lane', seen', bounds'.first, nextSequence')
    <2> HIDE DEF c, f
    <2> QED BY <1>1, <1>2, ConservedIs, ReportsNumbered
  <1>4. NumbersIn(buffered)' = NumbersIn(buffered') /\ NumbersIn(lane)' = NumbersIn(lane')
    BY DEF NumbersIn
  <1> QED BY <1>2, <1>3, <1>4 DEF ReportsConserved
LEMMA ConservedKept ==
    ASSUME SimInv, SimTypes', ThreadInv',
           Held(thread'["cli"]) = Held(thread["cli"]), Held(thread'["feed"]) = Held(thread["feed"]),
           UNCHANGED <<buffered, lane, seen, nextSequence>>, bounds'.first = bounds.first
    PROVE  ReportsConserved'
  BY ConservedNow, ConservedNext DEF SimInv
LEMMA TrackerKept ==
    ASSUME TrackerInv, UNCHANGED <<tracker, seen>>
    PROVE  TrackerInv'
  BY DEF TrackerInv, GapIsFlagged
-----------------------------------------------------------------------------
(* Commands *)

\* A record of a thread, field by field.
LEMMA IdleIs ==
    /\ Idle \in ThreadType /\ HeldInv(Idle) /\ Idle.pc = "idle" /\ Idle.held = <<>>
    /\ ~Busy(Idle) /\ Held(Idle) = <<>>
  <1>1. <<>> \in Seq(Reports(Nat)) /\ <<>> \in Seq(Reports(Nat \cup {None}))
    OBVIOUS
  <1> QED BY <1>1 DEF Idle, ThreadType, ThreadSteps, HeldInv, Busy, Held

LEMMA NumberedAreReports ==
    ASSUME NEW q \in Seq(Reports(Nat)) PROVE q \in Seq(Reports(Nat \cup {None}))
  <1>1. Reports(Nat) \subseteq Reports(Nat \cup {None})
    BY DEF Reports
  <1> QED BY <1>1, SeqMonotonic, Zenon


\* The bounds of a command, or of none.
Counted == bounds' = bounds \/ (bounds.calls < MaxCalls /\ bounds' = [bounds EXCEPT !.calls = @ + 1])
LEMMA CountedIs ==
    ASSUME SimTypes, Counted
    PROVE  /\ bounds' \in [calls : Nat, faults : Nat, first : Nat \ {0}]
           /\ bounds'.first = bounds.first /\ bounds'.calls >= bounds.calls
           /\ bounds'.calls \in Nat /\ bounds'.calls <= MaxCalls
  <1>1. CASE bounds' = bounds
    BY <1>1 DEF SimTypes
  <1>2. CASE bounds.calls < MaxCalls /\ bounds' = [bounds EXCEPT !.calls = @ + 1]
    <2>1. bounds.calls \in Nat /\ MaxCalls \in Nat
      BY SimAssumption DEF SimTypes
    <2>2. PICK k \in Nat : k = bounds.calls + 1
      BY <2>1
    <2>3. bounds' = [bounds EXCEPT !.calls = k]
      BY <1>2, <2>2
    <2>4. bounds' \in [calls : Nat, faults : Nat, first : Nat \ {0}]
      BY <2>3 DEF SimTypes
    <2>5. bounds'.first = bounds.first /\ bounds'.calls = k
      BY <2>3 DEF SimTypes
    <2> QED BY <1>2, <2>1, <2>2, <2>4, <2>5
  <1> QED BY <1>1, <1>2 DEF Counted

\* Nothing changes but what the gateway knows of one order, and the thread of the commands, which
\* holds no report before and after.
LEMMA CommandKeeps ==
    ASSUME SimInv, Counted, NEW c \in Cids, NEW w \in OrderType, NEW x \in ThreadType,
           view' = [view EXCEPT ![c] = w], thread' = [thread EXCEPT !["cli"] = x],
           UNCHANGED <<orders, nextSequence, nextExchangeId, connected, buffered, lane, tracker, seen>>,
           thread["cli"].held = <<>>, x.held = <<>>, x.pc \notin {"number", "emit", "swap", "deliver"},
           thread["cli"].pc # "swap",
           Busy(x) => x.cid = c, CommandInv(thread["cli"])', Identified(c)'
    PROVE  SimInv'
  <1>1. /\ thread["cli"] \in ThreadType /\ thread["feed"] \in ThreadType
        /\ thread'["cli"] = x /\ thread'["feed"] = thread["feed"]
        /\ thread' \in [Threads -> ThreadType]
    BY DEF SimInv, SimTypes, Threads
  <1>2. /\ view' \in [Cids -> OrderType \cup {None}] /\ view'[c] = w
        /\ \A d \in Cids : d # c => view'[d] = view[d]
    BY DEF SimInv, SimTypes
  <1>3. SimTypes'
    BY <1>1, <1>2, CountedIs DEF SimInv, SimTypes
  <1>4. HeldInv(x)
    <2>1. <<>> \in Seq(Reports(Nat))
      OBVIOUS
    <2> QED BY <2>1 DEF HeldInv
  <1>5. ThreadInv'
    BY <1>1, <1>4 DEF SimInv, ThreadInv
  <1>6. Held(thread'["cli"]) = Held(thread["cli"]) /\ Held(thread'["feed"]) = Held(thread["feed"])
    BY <1>1 DEF Held
  <1>7. ReportsConserved'
    BY <1>3, <1>5, <1>6, CountedIs, ConservedKept DEF SimInv
  <1>8. BufferInv'
    BY <1>1 DEF SimInv, BufferInv
  <1>9. TrackerInv'
    BY TrackerKept DEF SimInv
  <1>10. IdentityInv'
    <2>1. Reported(thread["cli"].held)'
      BY <1>1 DEF Reported
    <2>2. /\ Reported(thread["feed"].held)' /\ Reported(buffered)' /\ Reported(lane)' /\ Distinct'
      BY <1>1 DEF SimInv, IdentityInv, Reported, Distinct
    <2>3. ASSUME NEW d \in Cids, d # c PROVE Identified(d)'
      BY <1>1, <1>2, <2>3 DEF SimInv, IdentityInv, Identified
    <2> QED BY <2>1, <2>2, <2>3 DEF IdentityInv
  <1> QED BY <1>3, <1>5, <1>7, <1>8, <1>9, <1>10 DEF SimInv

\* place, cancel and amend begin.
LEMMA BeginKeeps ==
    ASSUME SimInv, NEW op \in Commands, NEW c \in Cids, NEW q \in Nat, NEW w \in OrderType,
           Begin(op, c, q), view' = [view EXCEPT ![c] = w],
           \/ view[c] = None /\ w.exid = None /\ w.lastSequence = None
           \/ /\ view[c] # None /\ op # "place" /\ ~IsTerminal(view[c].status)
              /\ w.exid = view[c].exid /\ w.lastSequence = view[c].lastSequence
    PROVE  SimInv'
  <1> DEFINE x == [Idle EXCEPT !.op = op, !.cid = c, !.quantity = q,
                               !.pc = IF connected THEN "locked" ELSE "uncertain"]
  <1>1. /\ x.op = op /\ x.cid = c /\ x.held = <<>> /\ x.pc \in {"locked", "uncertain"}
    BY DEF Idle
  <1>2. x \in ThreadType
    <2>1. <<>> \in Seq(Reports(Nat \cup {None}))
      OBVIOUS
    <2> QED BY <2>1 DEF Idle, ThreadType, ThreadSteps
  <1> HIDE DEF x
  <1>3. /\ thread["cli"].pc = "idle" /\ thread' = [thread EXCEPT !["cli"] = x] /\ Counted
        /\ bounds'.calls = bounds.calls + 1
        /\ UNCHANGED <<orders, nextSequence, nextExchangeId, connected, buffered, lane, tracker, seen>>
    <2>1. bounds' = [bounds EXCEPT !.calls = @ + 1] /\ bounds.calls < MaxCalls
      BY DEF Begin
    <2>2. bounds'.calls = bounds.calls + 1
      BY <2>1 DEF SimInv, SimTypes
    <2> QED BY <2>1, <2>2 DEF Begin, Counted, x, venueVars
  <1>4. thread["cli"].held = <<>>
    BY <1>3 DEF SimInv, ThreadInv, HeldInv
  <1>5. view'[c] = w /\ w # None /\ thread'["cli"] = x
    BY <1>3, NoneAssumption DEF SimInv, SimTypes, Threads
  <1>6. Identified(c)
    BY DEF SimInv, IdentityInv
  <1>7. orders'[c] = orders[c] /\ (view[c] = None => orders[c] = None)
    BY <1>3, <1>6 DEF Identified
  <1>8. Identified(c)'
    BY <1>3, <1>5, <1>6, <1>7 DEF Identified
  <1>9. CommandInv(thread["cli"])'
    <2>1. nextExchangeId' <= bounds'.calls
      BY <1>3 DEF SimInv, SimTypes
    <2>2. x.op = "place" => orders'[c] = None
      BY <1>1, <1>7
    <2> QED BY <1>1, <1>5, <2>1, <2>2 DEF CommandInv, Commands
  <1> QED BY <1>1, <1>2, <1>3, <1>4, <1>8, <1>9, CommandKeeps
-----------------------------------------------------------------------------
\* What apply does to the identifier and the last number of an order.
LEMMA ApplyIds ==
    ASSUME NEW o \in OrderType, NEW r \in ReportType
    PROVE  /\ Apply(o, r).exid \in {o.exid, r.exid} /\ (r.exid = None => Apply(o, r).exid = o.exid)
           /\ Apply(o, r).lastSequence \in {o.lastSequence, r.sequence}
           /\ r.sequence = None => Apply(o, r).lastSequence = o.lastSequence
  <1>1. CASE Disposition(o, r) \in {"Duplicate", "Invalid"}
    BY <1>1 DEF Apply
  <1>2. CASE Disposition(o, r) \notin {"Duplicate", "Invalid"}
    <2> DEFINE t == MergeTerms(o, r)
               m == MergeFills(o, r)
    <2>1. t \in OrderType /\ t.exid = o.exid /\ t.lastSequence = o.lastSequence
      <3>1. t \in OrderType
        BY MergeTermsType
      <3>2. t.exid = o.exid /\ t.lastSequence = o.lastSequence
        BY Zenon DEF MergeTerms, OrderType
      <3> QED BY <3>1, <3>2
    <2>2. m \in OrderType
      BY <1>2, MergeFillsType DEF Disposition
    <2>3. /\ m.exid = IF ~IsHistoricalGeneration(o, r) /\ r.exid # None THEN r.exid ELSE t.exid
          /\ m.lastSequence = IF r.sequence # None /\ (t.lastSequence = None \/ r.sequence > t.lastSequence)
                              THEN r.sequence ELSE t.lastSequence
      BY <2>1 DEF MergeFills, OrderType
    <2>4. Merge(o, r).exid = m.exid /\ Merge(o, r).lastSequence = m.lastSequence
      BY <2>2 DEF Merge, OrderType
    <2> HIDE DEF t, m
    <2> QED BY <1>2, <2>1, <2>3, <2>4 DEF Apply
  <1> QED BY <1>1, <1>2

\* A command begins: place and amend, and cancel.
LEMMA CommandBegins ==
    ASSUME SimInv, NEW c \in Cids, NEW q \in SimQuantities,
           PlaceBegin(c, q) \/ AmendBegin(c, q)
    PROVE  SimInv'
  <1>1. CASE PlaceBegin(c, q)
    <2> DEFINE w == MakeOrder(c, None, q)
    <2>1. c \in STRING /\ q \in Nat
      BY SimAssumption
    <2>2. w \in OrderType /\ w.exid = None /\ w.lastSequence = None
      BY <2>1 DEF MakeOrder, OrderType, Statuses, PendingActions
    <2> HIDE DEF w
    <2>3. view[c] = None /\ view' = [view EXCEPT ![c] = w] /\ Begin("place", c, q)
      BY <1>1 DEF PlaceBegin, w
    <2> QED BY <2>1, <2>2, <2>3, BeginKeeps DEF Commands
  <1>2. CASE AmendBegin(c, q)
    <2>1. Changeable(c) /\ q \in Nat
      BY <1>2, SimAssumption DEF AmendBegin
    <2>2. view[c] \in OrderType
      BY <2>1 DEF SimInv, SimTypes, Changeable
    <2> DEFINE w == [view[c] EXCEPT !.pending = "Amend", !.pendingQuantity = q]
    <2>3. w \in OrderType /\ w.exid = view[c].exid /\ w.lastSequence = view[c].lastSequence
      BY <2>1, <2>2 DEF OrderType, PendingActions
    <2>4. view' = [view EXCEPT ![c] = w] /\ Begin("amend", c, q)
      BY <1>2 DEF AmendBegin
    <2> HIDE DEF w
    <2> QED BY <2>1, <2>3, <2>4, BeginKeeps DEF Commands, Changeable
  <1> QED BY <1>1, <1>2

LEMMA CancelKeeps ==
    ASSUME SimInv, NEW c \in Cids, CancelBegin(c)
    PROVE  SimInv'
  <1>1. Changeable(c)
    BY DEF CancelBegin
  <1>2. view[c] \in OrderType
    BY <1>1 DEF SimInv, SimTypes, Changeable
  <1> DEFINE w == [view[c] EXCEPT !.pending = "Cancel"]
  <1>3. w \in OrderType /\ w.exid = view[c].exid /\ w.lastSequence = view[c].lastSequence
    BY <1>2 DEF OrderType, PendingActions
  <1>4. view' = [view EXCEPT ![c] = w] /\ Begin("cancel", c, 0)
    BY DEF CancelBegin
  <1> HIDE DEF w
  <1> QED BY <1>1, <1>3, <1>4, BeginKeeps DEF Commands, Changeable

\* The gateway takes an answer.
LEMMA AnswerKeeps ==
    ASSUME SimInv, NEW w \in OrderType, Answer(w), thread["cli"].pc \in {"ack", "reject", "uncertain"},
           w.lastSequence = view[Mine].lastSequence,
           w.exid = view[Mine].exid \/ (orders[Mine] # None /\ w.exid = orders[Mine].exid)
    PROVE  SimInv'
  <1>0. PICK c \in Cids : c = Mine
    BY DEF SimInv, ThreadInv, CommandInv, Busy, Mine
  <1>1. Mine = c /\ view[c] # None /\ thread["cli"].held = <<>> /\ Busy(thread["cli"])
    BY <1>0 DEF SimInv, ThreadInv, HeldInv, CommandInv, Busy, Mine
  <1>2. /\ view' = [view EXCEPT ![c] = w] /\ thread' = [thread EXCEPT !["cli"] = Idle] /\ Counted
        /\ UNCHANGED <<orders, nextSequence, nextExchangeId, connected, buffered, lane, tracker, seen>>
    BY <1>1 DEF Answer, Counted, venueVars
  <1>3. Identified(c)
    BY <1>1 DEF SimInv, IdentityInv
  <1>4. view'[c] = w /\ w # None /\ thread'["cli"] = Idle
    BY <1>1, <1>2, NoneAssumption DEF SimInv, SimTypes, Threads
  <1>5. Identified(c)'
    <2>1. orders'[c] = orders[c] /\ nextSequence' = nextSequence /\ nextExchangeId' = nextExchangeId
      BY <1>2
    <2>2. CASE orders[c] = None
      <3>1. view[c].exid = None /\ view[c].lastSequence = None
        BY <2>2, <1>1, <1>3 DEF Identified, Mine
      <3> QED BY <2>1, <2>2, <3>1, <1>1, <1>4 DEF Identified
    <2>3. CASE orders[c] # None
      BY <2>1, <2>3, <1>1, <1>3, <1>4 DEF Identified
    <2> QED BY <2>2, <2>3
  <1>6. CommandInv(thread["cli"])'
    BY <1>4, IdleIs DEF CommandInv
  <1> QED BY <1>1, <1>2, <1>5, <1>6, IdleIs, CommandKeeps

\* Acknowledged, rejected, or without an answer.
LEMMA AnswersKeep ==
    ASSUME SimInv, Acked \/ Rejected \/ Uncertain
    PROVE  SimInv'
  <1> DEFINE v == view[Mine]
  <1>1. thread["cli"].pc \in {"ack", "reject", "uncertain"}
    BY DEF Acked, Rejected, Uncertain
  <1>2. Mine \in Cids /\ v \in OrderType
    BY <1>1 DEF SimInv, SimTypes, ThreadInv, CommandInv, Busy, Mine
  <1>3. CASE Acked
    <2>1. CASE thread["cli"].op # "place"
      <3>1. Answer(v)
        BY <1>3, <2>1 DEF Acked
      <3> QED BY <3>1, <1>1, <1>2, AnswerKeeps
    <2>2. CASE thread["cli"].op = "place"
      <3> DEFINE w == [v EXCEPT !.exid = orders[Mine].exid, !.pending = "None",
                                !.status = IF @ = "Unknown" THEN "Live" ELSE @]
      <3>1. orders[Mine] # None /\ orders[Mine].exid \in ExchangeIds \cup {None}
        <4>1. orders[Mine] # None
          BY <1>3 DEF Acked, SimInv, ThreadInv, CommandInv, Mine
        <4>2. orders[Mine] \in SimOrderType
          BY <4>1, <1>2 DEF SimInv, SimTypes
        <4> QED BY <4>1, <4>2 DEF SimOrderType
      <3>2. w \in OrderType /\ w.lastSequence = v.lastSequence /\ w.exid = orders[Mine].exid
        BY <1>2, <3>1, ZenonT(60) DEF OrderType, PendingActions, Statuses
      <3>3. Answer(w)
        BY <1>3, <2>2 DEF Acked
      <3> HIDE DEF w
      <3> QED BY <3>1, <3>2, <3>3, <1>1, AnswerKeeps
    <2> QED BY <2>1, <2>2
  <1>4. CASE Rejected
    <2>1. CASE thread["cli"].op = "place"
      <3> DEFINE w == Apply(v, Rejection)
      <3>1. Rejection \in ReportType /\ Rejection.exid = None /\ Rejection.sequence = None
        BY <1>2 DEF Rejection, ReportType, OrderType, Statuses
      <3>2. w \in OrderType /\ w.lastSequence = v.lastSequence /\ w.exid = v.exid
        BY <1>2, <3>1, ApplyType, ApplyIds
      <3>3. Answer(w)
        BY <1>4, <2>1 DEF Rejected
      <3> HIDE DEF w
      <3> QED BY <3>2, <3>3, <1>1, AnswerKeeps
    <2>2. CASE thread["cli"].op # "place"
      <3> DEFINE w == [v EXCEPT !.pending = "None", !.pendingQuantity = None]
      <3>2. w \in OrderType /\ w.lastSequence = v.lastSequence /\ w.exid = v.exid
        BY <1>2 DEF OrderType, PendingActions
      <3>3. Answer(w)
        BY <1>4, <2>2 DEF Rejected
      <3> HIDE DEF w
      <3> QED BY <3>2, <3>3, <1>1, AnswerKeeps
    <2> QED BY <2>1, <2>2
  <1>5. CASE Uncertain
    <2> DEFINE w == [v EXCEPT !.status = "Unknown",
                  !.pending = CASE thread["cli"].op = "place" -> "Reconcile"
                                [] thread["cli"].op = "cancel" -> "Cancel"
                                [] OTHER -> "Amend"]
    <2>2. w \in OrderType /\ w.lastSequence = v.lastSequence /\ w.exid = v.exid
      BY <1>2 DEF OrderType, PendingActions, Statuses
    <2>3. Answer(w)
      BY <1>5 DEF Uncertain
    <2> HIDE DEF w
    <2> QED BY <2>2, <2>3, <1>1, AnswerKeeps
  <1> QED BY <1>3, <1>4, <1>5
-----------------------------------------------------------------------------
(* Under the mutex of the simulator *)

\* The simulator changes one order, or takes a new one, and reports it or goes on.
LEMMA LockedKeeps ==
    ASSUME SimInv, Counted, NEW c \in Cids, NEW o \in SimOrderType, NEW x \in ThreadType,
           orders' = [orders EXCEPT ![c] = o], thread' = [thread EXCEPT !["cli"] = x],
           UNCHANGED <<nextSequence, connected, buffered, lane, view, tracker, seen>>,
           thread["cli"].pc \in {"idle", "locked"}, x.pc \in {"number", "match"}, x.cid = c,
           x.op # "none", x.pc = "match" => x.held = <<>> /\ x.op \in Commands,
           x.pc = "number" => /\ Len(x.held) = 1 /\ x.held[1].client = c
                              /\ x.held[1].exid \in {None, o.exid} /\ x.held[1].sequence = None,
           view[c] # None,
           \/ orders[c] # None /\ o.exid = orders[c].exid /\ nextExchangeId' = nextExchangeId
           \/ /\ orders[c] = None /\ view[c].exid = None /\ view[c].lastSequence = None
              /\ o.exid = nextExchangeId /\ nextExchangeId' = nextExchangeId + 1
              /\ nextExchangeId <= bounds.calls
    PROVE  SimInv'
  <1>1. /\ thread["cli"] \in ThreadType /\ thread["feed"] \in ThreadType
        /\ thread'["cli"] = x /\ thread'["feed"] = thread["feed"]
        /\ thread' \in [Threads -> ThreadType]
    BY DEF SimInv, SimTypes, Threads
  <1>2. /\ orders' \in [Cids -> SimOrderType \cup {None}] /\ orders'[c] = o /\ o # None
        /\ \A d \in Cids : d # c => orders'[d] = orders[d]
    BY SimAssumption DEF SimInv, SimTypes
  <1>3. /\ nextExchangeId' \in Nat \ {0} /\ nextExchangeId' <= bounds'.calls + 1
        /\ nextExchangeId' >= nextExchangeId
    BY CountedIs, SMTT(30) DEF SimInv, SimTypes
  <1>4. SimTypes'
    BY <1>1, <1>2, <1>3, CountedIs DEF SimInv, SimTypes
  <1>5. HeldInv(x)
    <2>1. <<>> \in Seq(Reports(Nat))
      OBVIOUS
    <2> QED BY <2>1 DEF HeldInv
  <1>6. CommandInv(thread["cli"])'
    BY <1>1, <1>2 DEF CommandInv, Busy
  <1>7. ThreadInv'
    BY <1>1, <1>5, <1>6 DEF SimInv, ThreadInv
  <1>8. thread["cli"].held = <<>>
    BY DEF SimInv, ThreadInv, HeldInv
  <1>9. Held(thread'["cli"]) = Held(thread["cli"]) /\ Held(thread'["feed"]) = Held(thread["feed"])
    BY <1>1, <1>8 DEF Held
  <1>10. ReportsConserved'
    BY <1>4, <1>7, <1>9, CountedIs, ConservedKept DEF SimInv
  <1>11. BufferInv'
    BY <1>1 DEF SimInv, BufferInv
  <1>12. TrackerInv'
    BY TrackerKept DEF SimInv
  <1>13. ASSUME NEW q \in Seq(Reports(Nat)), Reported(q) PROVE Reported(q)'
    <2> SUFFICES ASSUME NEW i \in 1 .. Len(q)
                 PROVE  orders'[q[i].client] # None /\ q[i].exid \in {None, orders'[q[i].client].exid}
      BY DEF Reported
    <2>1. q[i].client \in Cids /\ orders[q[i].client] # None
          /\ q[i].exid \in {None, orders[q[i].client].exid}
      BY <1>13, ReportsNumbered DEF Reported
    <2> QED BY <2>1, <1>2
  <1>14. /\ thread["feed"].held \in Seq(Reports(Nat)) /\ buffered \in Seq(Reports(Nat))
         /\ lane \in Seq(Reports(Nat))
    BY DEF SimInv, SimTypes, ThreadInv, HeldInv
  <1>15. Reported(thread["feed"].held)' /\ Reported(buffered)' /\ Reported(lane)'
    <2>1. Reported(thread["feed"].held) /\ Reported(buffered) /\ Reported(lane)
      BY DEF SimInv, IdentityInv
    <2>2. PICK f \in Seq(Reports(Nat)), b \in Seq(Reports(Nat)), l \in Seq(Reports(Nat)) :
              f = thread["feed"].held /\ b = buffered /\ l = lane
      BY <1>14
    <2>3. Reported(f)' /\ Reported(b)' /\ Reported(l)'
      BY <1>13, <2>1, <2>2
    <2> QED BY <2>2, <2>3, <1>1 DEF Reported
  <1>16. Reported(thread["cli"].held)'
    <2>1. CASE x.pc = "match"
      BY <1>1, <2>1 DEF Reported
    <2>2. CASE x.pc = "number"
      <3>1. Len(x.held) = 1 /\ 1 .. 1 = {1}
        BY <2>2
      <3>2. \A i \in 1 .. Len(x.held) : i = 1
        BY <3>1
      <3> QED BY <1>1, <1>2, <2>2, <3>2 DEF Reported
    <2> QED BY <2>1, <2>2
  <1>17. ASSUME NEW d \in Cids PROVE Identified(d)'
    <2>1. Identified(d)
      BY DEF SimInv, IdentityInv
    <2>2. nextSequence' = nextSequence /\ view' = view /\ nextExchangeId \in Nat
      BY DEF SimInv, SimTypes
    <2>3. CASE d = c
      <3>1. CASE orders[c] # None
        <4>1. o.exid # None => o.exid \in 1 .. nextExchangeId' - 1
          BY <1>3, <2>1, <2>2, <2>3, <3>1 DEF Identified
        <4> QED BY <1>2, <2>1, <2>2, <2>3, <3>1, <4>1 DEF Identified
      <3>2. CASE orders[c] = None
        <4>1. o.exid \in 1 .. nextExchangeId' - 1
          <5>1. nextExchangeId \in Nat \ {0}
            BY DEF SimInv, SimTypes
          <5> QED BY <3>2, <5>1
        <4> QED BY <1>2, <2>2, <2>3, <3>2, <4>1 DEF Identified
      <3> QED BY <3>1, <3>2
    <2>4. CASE d # c
      <3>1. ~(thread'["cli"].cid = d)
        BY <1>1, <2>4
      <3>2. orders'[d] = orders[d]
        BY <1>2, <2>4
      <3>3. orders[d] # None => Identified(d)'
        BY <2>1, <2>2, <3>2, <1>3 DEF Identified
      <3>4. orders[d] = None => Identified(d)'
        BY <2>1, <2>2, <3>1, <3>2 DEF Identified
      <3> QED BY <3>3, <3>4
    <2> QED BY <2>3, <2>4
  <1>18. Distinct'
    <2>1. SUFFICES ASSUME NEW d \in Cids, NEW e \in Cids, d # e, orders'[d] # None, orders'[e] # None,
                          orders'[d].exid # None
                   PROVE  orders'[d].exid # orders'[e].exid
      BY DEF Distinct
    <2>2. CASE orders[c] # None
      BY <2>1, <2>2, <1>2 DEF SimInv, IdentityInv, Distinct
    <2>3. CASE orders[c] = None
      <3>1. \A a \in Cids : orders[a] # None /\ orders[a].exid # None =>
                orders[a].exid \in 1 .. nextExchangeId - 1
        BY DEF SimInv, IdentityInv, Identified
      <3>2. o.exid = nextExchangeId /\ nextExchangeId \in Nat /\ None \notin Nat
        BY <2>3, NoneAssumption DEF SimInv, SimTypes
      <3>3. nextExchangeId \notin 1 .. nextExchangeId - 1
        BY <3>2
      <3>4. CASE d = c
        <4>1. orders'[e] = orders[e]
          BY <2>1, <3>4, <1>2
        <4> QED BY <2>1, <3>1, <3>2, <3>3, <3>4, <4>1, <1>2
      <3>5. CASE e = c
        <4>1. orders'[d] = orders[d]
          BY <2>1, <3>5, <1>2
        <4> QED BY <2>1, <3>1, <3>2, <3>3, <3>5, <4>1, <1>2
      <3>6. CASE d # c /\ e # c
        BY <2>1, <3>6, <1>2 DEF SimInv, IdentityInv, Distinct
      <3> QED BY <3>4, <3>5, <3>6
    <2> QED BY <2>2, <2>3
  <1>19. IdentityInv'
    BY <1>15, <1>16, <1>17, <1>18 DEF IdentityInv
  <1> QED BY <1>4, <1>7, <1>10, <1>11, <1>12, <1>19 DEF SimInv

\* The report of an order, still without its number.
LEMMA ReportIs ==
    ASSUME NEW c \in Cids, NEW o \in SimOrderType
    PROVE  /\ SimReportFor(c, o) \in Reports(Nat \cup {None}) /\ SimReportFor(c, o).sequence = None
           /\ SimReportFor(c, o).client = c /\ SimReportFor(c, o).exid = o.exid
           /\ \A n \in Nat : [SimReportFor(c, o) EXCEPT !.cumulative = n] \in Reports(Nat \cup {None})
  BY DEF SimReportFor, Reports, SimOrderType, SimStatuses

\* The command reports what it has done to its order, or goes on to match it.
LEMMA ReportKeeps ==
    ASSUME SimInv, UNCHANGED bounds, NEW c \in Cids, NEW o \in SimOrderType, c = Mine,
           thread["cli"].pc = "locked", orders' = [orders EXCEPT ![c] = o],
           UNCHANGED <<nextSequence, connected, buffered, lane, view, tracker, seen>>,
           \/ Goto("cli", "match")
           \/ \E e \in {None, o.exid} :
                 thread' = [thread EXCEPT !["cli"].pc = "number",
                                          !["cli"].held = <<SimReportFor(c, [o EXCEPT !.exid = e])>>],
           \/ orders[c] # None /\ o.exid = orders[c].exid /\ nextExchangeId' = nextExchangeId
           \/ thread["cli"].op = "place" /\ o.exid = nextExchangeId /\ nextExchangeId' = nextExchangeId + 1
    PROVE  SimInv'
  <1> DEFINE y == thread["cli"]
  <1>1. y \in ThreadType /\ y.cid = c /\ y.op \in Commands /\ y.held = <<>> /\ view[c] # None
    BY DEF SimInv, SimTypes, Threads, ThreadInv, CommandInv, HeldInv, Busy, Mine
  <1>2. y.op = "place" => orders[c] = None /\ nextExchangeId <= bounds.calls
    BY <1>1 DEF SimInv, ThreadInv, CommandInv
  <1>3. orders[c] = None => view[c].exid = None /\ view[c].lastSequence = None
    <2>1. Identified(c)
      BY DEF SimInv, IdentityInv
    <2> QED BY <1>1, <2>1 DEF Identified, Busy
  <1>4. Counted
    BY DEF Counted
  <1>5. CASE Goto("cli", "match")
    <2> DEFINE x == [y EXCEPT !.pc = "match"]
    <2>1. x \in ThreadType /\ x.pc = "match" /\ x.cid = c /\ x.held = <<>> /\ x.op \in Commands
          /\ x.op # "none"
      BY <1>1 DEF ThreadType, ThreadSteps, Commands
    <2>2. thread' = [thread EXCEPT !["cli"] = x]
      BY <1>5 DEF Goto
    <2> HIDE DEF x, y
    <2> QED BY <1>1, <1>2, <1>3, <1>4, <2>1, <2>2, LockedKeeps DEF y
  <1>6. ASSUME NEW e \in {None, o.exid},
               thread' = [thread EXCEPT !["cli"].pc = "number",
                                        !["cli"].held = <<SimReportFor(c, [o EXCEPT !.exid = e])>>]
        PROVE  SimInv'
    <2> DEFINE r == SimReportFor(c, [o EXCEPT !.exid = e])
               x == [y EXCEPT !.pc = "number", !.held = <<r>>]
    <2>1. [o EXCEPT !.exid = e] \in SimOrderType /\ [o EXCEPT !.exid = e].exid = e
      BY DEF SimOrderType
    <2>2. r \in Reports(Nat \cup {None}) /\ r.client = c /\ r.exid = e /\ r.sequence = None
      BY <2>1, ReportIs
    <2> HIDE DEF r
    <2>3. <<r>> \in Seq(Reports(Nat \cup {None})) /\ Len(<<r>>) = 1 /\ <<r>>[1] = r
      BY <2>2
    <2>4. x \in ThreadType /\ x.pc = "number" /\ x.cid = c /\ x.held = <<r>> /\ x.op # "none"
      BY <1>1, <2>3 DEF ThreadType, ThreadSteps, Commands
    <2>5. thread' = [thread EXCEPT !["cli"] = x]
      BY <1>6 DEF r
    <2>6. /\ Len(x.held) = 1 /\ x.held[1].client = c /\ x.held[1].exid \in {None, o.exid}
          /\ x.held[1].sequence = None
      BY <2>2, <2>3, <2>4
    <2> HIDE DEF x, y
    <2>7. thread["cli"].pc \in {"idle", "locked"} /\ x.pc \in {"number", "match"}
      BY <2>4
    <2> QED BY <1>1, <1>2, <1>3, <1>4, <2>4, <2>5, <2>6, <2>7, LockedKeeps DEF y
  <1> QED BY <1>5, <1>6

\* The command is refused: the limiter, or an order that is not there or has ended.
LEMMA RefusalKeeps ==
    ASSUME SimInv, thread["cli"].pc = "locked", Goto("cli", "reject"),
           UNCHANGED <<orders, nextSequence, nextExchangeId, connected, buffered, lane, view, tracker,
                       seen, bounds>>
    PROVE  SimInv'
  <1> DEFINE y == thread["cli"]
             x == [y EXCEPT !.pc = "reject"]
  <1>1. PICK c \in Cids : c = y.cid
    BY DEF SimInv, ThreadInv, CommandInv, Busy
  <1>2. y \in ThreadType /\ y.op \in Commands /\ y.held = <<>> /\ view[c] # None
    BY <1>1 DEF SimInv, SimTypes, Threads, ThreadInv, CommandInv, HeldInv, Busy
  <1>3. x \in ThreadType /\ x.pc = "reject" /\ x.cid = c /\ x.held = <<>> /\ x.op \in Commands
    BY <1>1, <1>2 DEF ThreadType, ThreadSteps
  <1>4. thread' = [thread EXCEPT !["cli"] = x]
    BY DEF Goto
  <1> DEFINE w == view[c]
  <1>5. w \in OrderType /\ view' = [view EXCEPT ![c] = w]
    BY <1>2 DEF SimInv, SimTypes
  <1>6. thread'["cli"] = x
    BY <1>4 DEF SimInv, SimTypes, Threads
  <1> HIDE DEF x, y
  <1>7. CommandInv(thread["cli"])'
    BY <1>2, <1>3, <1>6 DEF CommandInv, Commands
  <1>8. Identified(c)'
    <2>1. Identified(c)
      BY DEF SimInv, IdentityInv
    <2>2. Busy(thread["cli"]) /\ thread["cli"].cid = c
      BY <1>1 DEF Busy, y
    <2> QED BY <2>1, <2>2 DEF Identified
  <1>9. Counted
    BY DEF Counted
  <1> QED BY <1>2, <1>3, <1>4, <1>5, <1>7, <1>8, <1>9, CommandKeeps DEF y

\* The commands under the mutex of the simulator.
LEMMA LockedSteps ==
    ASSUME SimInv, RateLimited \/ PlaceLocked \/ CancelLocked \/ AmendLocked
    PROVE  SimInv'
  <1>0. thread["cli"].pc = "locked" /\ UNCHANGED bounds
    BY DEF RateLimited, PlaceLocked, CancelLocked, AmendLocked, AtLock
  <1>1. PICK c \in Cids : c = Mine
    BY <1>0 DEF SimInv, ThreadInv, CommandInv, Busy, Mine
  <1>2. thread["cli"] \in ThreadType /\ thread["cli"].quantity \in Nat
    BY DEF SimInv, SimTypes, Threads, ThreadType
  <1>3. orders[c] # None => orders[c] \in SimOrderType
    BY DEF SimInv, SimTypes
  <1>4. CASE RateLimited
    BY <1>0, <1>4, RefusalKeeps DEF RateLimited, venueVars, gatewayVars
  <1>5. CASE PlaceLocked
    <2> DEFINE o == [exid |-> nextExchangeId, quantity |-> thread["cli"].quantity,
                     filled |-> 0, status |-> "Live"]
    <2>1. nextExchangeId \in ExchangeIds
      <3>1. thread["cli"].op = "place"
        BY <1>5 DEF PlaceLocked, AtLock
      <3>2. nextExchangeId \in 1 .. MaxCalls
        BY <1>0, <3>1, SimAssumption DEF SimInv, SimTypes, ThreadInv, CommandInv
      <3> QED BY <3>2, SimAssumption
    <2>2. o \in SimOrderType /\ o.exid = nextExchangeId /\ o = [o EXCEPT !.exid = o.exid]
      BY <1>2, <2>1 DEF SimOrderType, SimStatuses
    <2>3. orders' = [orders EXCEPT ![c] = o] /\ thread["cli"].op = "place"
      BY <1>1, <1>5 DEF PlaceLocked, AtLock
    <2>4. orders'[c] = o
      BY <2>3 DEF SimInv, SimTypes
    <2>5. /\ nextExchangeId' = nextExchangeId + 1
          /\ UNCHANGED <<nextSequence, connected, buffered, lane, view, tracker, seen>>
      BY <1>5 DEF PlaceLocked, gatewayVars
    <2>6. \/ Goto("cli", "match")
          \/ thread' = [thread EXCEPT !["cli"].pc = "number",
                                      !["cli"].held = <<SimReportFor(c, [o EXCEPT !.exid = None])>>]
      <3>1. IF config THEN Report([orders'[c] EXCEPT !.exid = None]) ELSE Goto("cli", "match")
        BY <1>1, <1>5 DEF PlaceLocked
      <3> HIDE DEF o
      <3> QED BY <1>1, <2>4, <3>1 DEF Report
    <2> HIDE DEF o
    <2> QED BY <1>0, <1>1, <2>2, <2>3, <2>5, <2>6, ReportKeeps
  <1>6. CASE CancelLocked
    <2>1. CASE MayCancel(orders[c])
      <3> DEFINE o == [orders[c] EXCEPT !.status = "Canceled"]
      <3>1. orders[c] # None
        BY <2>1 DEF MayCancel
      <3>2. o \in SimOrderType /\ o.exid = orders[c].exid /\ o = [o EXCEPT !.exid = o.exid]
        BY <1>3, <3>1 DEF SimOrderType, SimStatuses
      <3>3. orders' = [orders EXCEPT ![c] = o] /\ Report(orders'[c])
        BY <1>1, <1>6, <2>1 DEF CancelLocked
      <3>4. orders'[c] = o
        BY <3>3 DEF SimInv, SimTypes
      <3>5. UNCHANGED <<nextExchangeId, nextSequence, connected, buffered, lane, view, tracker, seen>>
        BY <1>6 DEF CancelLocked, gatewayVars
      <3>6. thread' = [thread EXCEPT !["cli"].pc = "number",
                                     !["cli"].held = <<SimReportFor(c, [o EXCEPT !.exid = o.exid])>>]
        <4> HIDE DEF o
        <4> QED BY <1>1, <3>2, <3>3, <3>4 DEF Report
      <3> HIDE DEF o
      <3> QED BY <1>0, <1>1, <3>1, <3>2, <3>3, <3>5, <3>6, ReportKeeps
    <2>2. CASE ~MayCancel(orders[c])
      BY <1>0, <1>1, <1>6, <2>2, RefusalKeeps DEF CancelLocked, gatewayVars
    <2> QED BY <2>1, <2>2
  <1>7. CASE AmendLocked
    <2>1. CASE Open(c)
      <3> DEFINE o == [orders[c] EXCEPT !.quantity = thread["cli"].quantity]
      <3>1. orders[c] # None
        BY <2>1 DEF Open
      <3>2. o \in SimOrderType /\ o.exid = orders[c].exid /\ o = [o EXCEPT !.exid = o.exid]
        BY <1>2, <1>3, <3>1 DEF SimOrderType, SimStatuses
      <3>3. orders' = [orders EXCEPT ![c] = o] /\ Report(orders'[c])
        BY <1>1, <1>7, <2>1 DEF AmendLocked
      <3>4. orders'[c] = o
        BY <3>3 DEF SimInv, SimTypes
      <3>5. UNCHANGED <<nextExchangeId, nextSequence, connected, buffered, lane, view, tracker, seen>>
        BY <1>7 DEF AmendLocked
      <3>6. thread' = [thread EXCEPT !["cli"].pc = "number",
                                     !["cli"].held = <<SimReportFor(c, [o EXCEPT !.exid = o.exid])>>]
        <4> HIDE DEF o
        <4> QED BY <1>1, <3>2, <3>3, <3>4 DEF Report
      <3> HIDE DEF o
      <3> QED BY <1>0, <1>1, <3>1, <3>2, <3>3, <3>5, <3>6, ReportKeeps
    <2>2. CASE ~Open(c)
      BY <1>0, <1>1, <1>7, <2>2, RefusalKeeps DEF AmendLocked
    <2> QED BY <2>1, <2>2
  <1> QED BY <1>4, <1>5, <1>6, <1>7

\* The command `simulate'.
LEMMA EmitKeepsInv ==
    ASSUME SimInv, NEW c \in Cids, Open(c), NEW n \in 1 .. orders[c].quantity - 1, EmitLocked(c, n)
    PROVE  SimInv'
  <1>1. orders[c] \in SimOrderType /\ orders[c] # None
    BY DEF Open, SimInv, SimTypes
  <1>2. orders[c].filled \in Nat /\ n \in Nat
    BY <1>1 DEF SimOrderType
  <1> DEFINE m == Max({orders[c].filled, n})
             o == [orders[c] EXCEPT !.filled = m, !.status = "PartiallyFilled"]
             r == [SimReportFor(c, o) EXCEPT !.cumulative = n]
             x == [Idle EXCEPT !.pc = "number", !.op = "emit", !.cid = c, !.held = <<r>>]
  <1>3. m \in Nat
    <2>1. \E k \in {orders[c].filled, n} : \A j \in {orders[c].filled, n} : k >= j
      BY <1>2
    <2>2. m \in {orders[c].filled, n}
      BY <2>1, Zenon DEF Max
    <2> QED BY <1>2, <2>2
  <1> HIDE DEF m
  <1>4. o \in SimOrderType /\ o.exid = orders[c].exid
    BY <1>1, <1>3 DEF SimOrderType, SimStatuses
  <1>5. thread["cli"].pc = "idle" /\ orders' = [orders EXCEPT ![c] = o]
    BY DEF EmitLocked, m
  <1>6. orders'[c] = o
    BY <1>5 DEF SimInv, SimTypes
  <1> HIDE DEF o
  <1>7. r \in Reports(Nat \cup {None}) /\ r.client = c /\ r.exid = o.exid /\ r.sequence = None
    <2>1. SimReportFor(c, o) \in Reports(Nat \cup {None}) /\ SimReportFor(c, o).sequence = None
      BY <1>4, ReportIs
    <2> QED BY <1>2, <1>4, <2>1, ReportIs DEF Reports
  <1> HIDE DEF r
  <1>8. <<r>> \in Seq(Reports(Nat \cup {None})) /\ Len(<<r>>) = 1 /\ <<r>>[1] = r
    BY <1>7
  <1>9. x \in ThreadType /\ x.pc = "number" /\ x.cid = c /\ x.held = <<r>> /\ x.op # "none"
    BY <1>8 DEF Idle, ThreadType, ThreadSteps
  <1>10. thread' = [thread EXCEPT !["cli"] = x]
    BY <1>6 DEF EmitLocked, r
  <1>11. Counted /\ nextExchangeId' = nextExchangeId
         /\ UNCHANGED <<nextSequence, connected, buffered, lane, view, tracker, seen>>
    BY DEF EmitLocked, Counted, gatewayVars
  <1>12. view[c] # None
    BY <1>1 DEF SimInv, IdentityInv, Identified
  <1> HIDE DEF x
  <1>13. /\ thread["cli"].pc \in {"idle", "locked"} /\ x.pc \in {"number", "match"} /\ x.pc # "match"
         /\ Len(x.held) = 1 /\ x.held[1].client = c /\ x.held[1].exid \in {None, o.exid}
         /\ x.held[1].sequence = None
    BY <1>5, <1>7, <1>8, <1>9
  <1> QED BY <1>1, <1>4, <1>5, <1>9, <1>10, <1>11, <1>12, <1>13, LockedKeeps
-----------------------------------------------------------------------------
(* Reports on their way *)

\* The simulator takes no order, and every order keeps its identifier.
IdentifiersKept ==
    /\ orders' \in [Cids -> SimOrderType \cup {None}]
    /\ \A c \in Cids : IF orders[c] = None THEN orders'[c] = None
                       ELSE orders'[c] # None /\ orders'[c].exid = orders[c].exid
\* Reports move, or get their number, and every order keeps its identifier.
LEMMA FlowKeeps ==
    ASSUME SimInv, NEW t \in Threads, NEW y \in ThreadType, thread' = [thread EXCEPT ![t] = y],
           UNCHANGED <<nextExchangeId, view, tracker, seen>>,
           IdentifiersKept,
           bounds' \in [calls : Nat, faults : Nat, first : Nat \ {0}],
           bounds'.calls = bounds.calls, bounds'.first = bounds.first,
           nextSequence' \in Nat, nextSequence' >= nextSequence, connected' \in BOOLEAN,
           buffered' \in Seq(Reports(Nat)), lane' \in Seq(Reports(Nat)), HeldInv(y),
           t = "feed" => y.pc \in {"idle", "publish", "emit"},
           CommandInv(thread["cli"])', BufferInv',
           Reported(y.held), Reported(buffered'), Reported(lane'),
           t = "cli" /\ Busy(y) => Busy(thread["cli"]) /\ y.cid = thread["cli"].cid,
           Accounted(Held(thread'["cli"]), Held(thread'["feed"]), buffered', lane', seen,
                     bounds.first, nextSequence')
    PROVE  SimInv'
  <1>1. /\ thread' \in [Threads -> ThreadType] /\ thread'[t] = y
        /\ \A u \in Threads : u # t => thread'[u] = thread[u]
        /\ "cli" \in Threads /\ "feed" \in Threads /\ t \in {"cli", "feed"}
    BY DEF SimInv, SimTypes, Threads
  <1>2. SimTypes'
    BY <1>1 DEF SimInv, SimTypes, IdentifiersKept
  <1>3. ThreadInv'
    <2>1. CASE t = "cli"
      BY <1>1, <2>1 DEF SimInv, ThreadInv
    <2>2. CASE t = "feed"
      BY <1>1, <2>2 DEF SimInv, ThreadInv
    <2> QED BY <1>1, <2>1, <2>2
  <1>4. ReportsConserved'
    BY <1>2, <1>3, ConservedNext
  <1>5. TrackerInv'
    BY TrackerKept DEF SimInv
  <1>6. ASSUME NEW q, q \in Seq(Reports(Nat \cup {None})), Reported(q) PROVE Reported(q)'
    <2> SUFFICES ASSUME NEW i \in 1 .. Len(q)
                 PROVE  orders'[q[i].client] # None /\ q[i].exid \in {None, orders'[q[i].client].exid}
      BY DEF Reported
    <2>1. q[i] \in Reports(Nat \cup {None})
      BY <1>6
    <2>2. q[i].client \in Cids
      BY <2>1 DEF Reports
    <2>3. orders[q[i].client] # None /\ q[i].exid \in {None, orders[q[i].client].exid}
      BY <1>6 DEF Reported
    <2> QED BY <2>2, <2>3, Zenon DEF IdentifiersKept
  <1>7. PICK hc, hf, b, l :
            /\ hc = thread'["cli"].held /\ hf = thread'["feed"].held /\ b = buffered' /\ l = lane'
    OBVIOUS
  <1>8. /\ hc \in Seq(Reports(Nat \cup {None})) /\ hf \in Seq(Reports(Nat \cup {None}))
         /\ b \in Seq(Reports(Nat \cup {None})) /\ l \in Seq(Reports(Nat \cup {None}))
    BY <1>1, <1>7, NumberedAreReports DEF ThreadType
  <1>9. Reported(hc) /\ Reported(hf) /\ Reported(b) /\ Reported(l)
    <2>1. Reported(thread["cli"].held) /\ Reported(thread["feed"].held)
      BY DEF SimInv, IdentityInv
    <2>2. CASE t = "cli"
      BY <1>1, <1>7, <2>1, <2>2
    <2>3. CASE t = "feed"
      BY <1>1, <1>7, <2>1, <2>3
    <2> QED BY <1>1, <2>2, <2>3
  <1>10. Reported(hc)' /\ Reported(hf)' /\ Reported(b)' /\ Reported(l)'
    BY <1>6, <1>8, <1>9, SMTT(30)
  <1>11. /\ Reported(thread["cli"].held)' /\ Reported(thread["feed"].held)'
        /\ Reported(buffered)' /\ Reported(lane)'
    BY <1>7, <1>10 DEF Reported
  <1>12. Distinct'
    BY DEF SimInv, IdentityInv, Distinct, IdentifiersKept
  <1>13. ASSUME NEW c \in Cids PROVE Identified(c)'
    <2>1. Identified(c) /\ nextSequence \in Nat
      BY DEF SimInv, SimTypes, IdentityInv
    <2>2. Busy(thread["cli"])' /\ thread'["cli"].cid = c => Busy(thread["cli"]) /\ thread["cli"].cid = c
      BY <1>1 DEF Busy
    <2>3. view[c] # None /\ view[c].lastSequence # None => view[c].lastSequence \in Nat
      BY DEF SimInv, SimTypes, OrderType
    <2>4. CASE orders[c] # None
      <3>1. /\ view[c] # None
            /\ orders[c].exid # None => orders[c].exid \in 1 .. nextExchangeId - 1
            /\ view[c].exid \in {None, orders[c].exid}
            /\ view[c].lastSequence # None => view[c].lastSequence < nextSequence
        BY <2>1, <2>4 DEF Identified
      <3>2. view[c].lastSequence # None => view[c].lastSequence < nextSequence'
        BY <2>1, <2>3, <3>1
      <3>3. orders'[c] # None /\ orders'[c].exid = orders[c].exid
        BY <2>4 DEF IdentifiersKept
      <3> QED BY <3>1, <3>2, <3>3 DEF Identified
    <2>5. CASE orders[c] = None
      <3>1. orders'[c] = None
        BY <2>5 DEF IdentifiersKept
      <3> QED BY <2>1, <2>2, <2>5, <3>1 DEF Identified
    <2> QED BY <2>4, <2>5
  <1>14. IdentityInv'
    BY <1>11, <1>12, <1>13 DEF IdentityInv
  <1> QED BY <1>2, <1>3, <1>4, <1>5, <1>14 DEF SimInv

\* Reports move, or get their number, and the orders stay.
LEMMA MoveKeeps ==
    ASSUME SimInv, NEW t \in Threads, NEW y \in ThreadType, thread' = [thread EXCEPT ![t] = y],
           UNCHANGED <<orders, nextExchangeId, view, tracker, seen>>,
           bounds' \in [calls : Nat, faults : Nat, first : Nat \ {0}],
           bounds'.calls = bounds.calls, bounds'.first = bounds.first,
           nextSequence' \in Nat, nextSequence' >= nextSequence, connected' \in BOOLEAN,
           buffered' \in Seq(Reports(Nat)), lane' \in Seq(Reports(Nat)), HeldInv(y),
           t = "feed" => y.pc \in {"idle", "publish", "emit"},
           CommandInv(thread["cli"])', BufferInv',
           Reported(y.held), Reported(buffered'), Reported(lane'),
           t = "cli" /\ Busy(y) => Busy(thread["cli"]) /\ y.cid = thread["cli"].cid,
           Accounted(Held(thread'["cli"]), Held(thread'["feed"]), buffered', lane', seen,
                     bounds.first, nextSequence')
    PROVE  SimInv'
  <1>1. IdentifiersKept
    BY DEF SimInv, SimTypes, IdentifiersKept
  <1> QED BY <1>1, FlowKeeps

\* A queue of reports that grows, shrinks or is joined to another.
LEMMA ReportedOf ==
    ASSUME NEW S, NEW q \in Seq(S), Reported(q)
    PROVE  /\ \A m \in S : Reported(<<m>>) => Reported(Append(q, m))
           /\ q # <<>> => Reported(Tail(q)) /\ Reported(<<Head(q)>>)
           /\ \A p \in Seq(S) : Reported(p) => Reported(q \o p)
  <1> DEFINE Good(m) == orders[m.client] # None /\ m.exid \in {None, orders[m.client].exid}
  <1>1. \A p : Reported(p) <=> \A i \in 1 .. Len(p) : Good(p[i])
    BY DEF Reported
  <1>2. \A m : Len(<<m>>) = 1 /\ <<m>>[1] = m /\ 1 .. 1 = {1}
    OBVIOUS
  <1>3. \A m : Reported(<<m>>) <=> Good(m)
    <2> HIDE DEF Good
    <2> QED BY <1>1, <1>2
  <1> HIDE DEF Good
  <1>4. ASSUME NEW m \in S, Reported(<<m>>) PROVE Reported(Append(q, m))
    <2>1. \A i \in 1 .. Len(Append(q, m)) : Append(q, m)[i] = m \/ \E j \in 1 .. Len(q) : Append(q, m)[i] = q[j]
      OBVIOUS
    <2> QED BY <1>1, <1>3, <1>4, <2>1
  <1>5. ASSUME q # <<>> PROVE Reported(Tail(q)) /\ Reported(<<Head(q)>>)
    <2>1. Head(q) = q[1] /\ 1 \in 1 .. Len(q)
      BY <1>5
    <2>2. \A i \in 1 .. Len(Tail(q)) : i + 1 \in 1 .. Len(q) /\ Tail(q)[i] = q[i + 1]
      BY <1>5
    <2> QED BY <1>1, <1>3, <2>1, <2>2
  <1>6. ASSUME NEW p \in Seq(S), Reported(p) PROVE Reported(q \o p)
    <2>1. \A i \in 1 .. Len(q \o p) : \/ \E j \in 1 .. Len(q) : (q \o p)[i] = q[j]
                                      \/ \E j \in 1 .. Len(p) : (q \o p)[i] = p[j]
      <3> DEFINE a == q \o p
      <3>1. /\ Len(q) \in Nat /\ Len(p) \in Nat /\ Len(a) = Len(q) + Len(p)
            /\ \A i \in 1 .. Len(q) : a[i] = q[i]
            /\ \A i \in 1 .. Len(p) : a[i + Len(q)] = p[i]
        OBVIOUS
      <3> HIDE DEF a
      <3>2. \A i \in 1 .. Len(a) : i \notin 1 .. Len(q) =>
                i - Len(q) \in 1 .. Len(p) /\ a[i] = p[i - Len(q)]
        BY <3>1
      <3>3. \A i \in 1 .. Len(a) : \/ \E j \in 1 .. Len(q) : a[i] = q[j]
                                   \/ \E j \in 1 .. Len(p) : a[i] = p[j]
        BY <3>1, <3>2
      <3> QED BY <3>3 DEF a
    <2> QED BY <1>1, <1>6, <2>1
  <1> QED BY <1>4, <1>5, <1>6

\* The thread and the other one.
LEMMA TwoThreads ==
    ASSUME SimInv, NEW t \in Threads, NEW y, thread' = [thread EXCEPT ![t] = y]
    PROVE  /\ thread[t] \in ThreadType /\ thread'[t] = y /\ t \in {"cli", "feed"}
           /\ t = "cli" => thread'["feed"] = thread["feed"] /\ thread'["cli"] = y
           /\ t = "feed" => thread'["cli"] = thread["cli"] /\ thread'["feed"] = y
  BY DEF SimInv, SimTypes, Threads

\* What is known of the reports that are held, buffered and in the lane.
LEMMA InvFacts ==
    ASSUME SimInv
    PROVE  /\ \A t \in Threads : HeldInv(thread[t]) /\ thread[t] \in ThreadType
                                 /\ Held(thread[t]) \in Seq(Reports(Nat)) /\ Reported(thread[t].held)
           /\ buffered \in Seq(Reports(Nat)) /\ lane \in Seq(Reports(Nat)) /\ seen \in Seq(Nat)
           /\ Reported(buffered) /\ Reported(lane)
           /\ Accounted(Held(thread["cli"]), Held(thread["feed"]), buffered, lane, seen,
                        bounds.first, nextSequence)
           /\ nextSequence \in Nat /\ bounds.first \in Nat /\ bounds.first <= nextSequence
  <1>1. \A t \in Threads : HeldInv(thread[t]) /\ thread[t] \in ThreadType /\ Reported(thread[t].held)
    BY DEF SimInv, SimTypes, ThreadInv, IdentityInv, Threads
  <1>2. \A t \in Threads : Held(thread[t]) \in Seq(Reports(Nat))
    BY <1>1, HeldIs
  <1>3. Accounted(Held(thread["cli"]), Held(thread["feed"]), buffered, lane, seen,
                  bounds.first, nextSequence)
    BY ConservedNow DEF SimInv
  <1> QED BY <1>1, <1>2, <1>3 DEF SimInv, SimTypes, IdentityInv

\* A report gets its number.
LEMMA NumberKeeps ==
    ASSUME SimInv, NEW t \in Threads, Number(t)
    PROVE  SimInv'
  <1>1. t = "cli" /\ thread["cli"].pc = "number" /\ "feed" \in Threads
    BY DEF Number, Threads, SimInv, ThreadInv
  <1> DEFINE x == thread["cli"]
             h == Head(x.held)
             r == Numbered(h, nextSequence)
             y == [x EXCEPT !.pc = "publish", !.held = <<r>>]
  <1>2. /\ x \in ThreadType /\ HeldInv(x) /\ Reported(x.held) /\ Held(x) = <<>>
        /\ Held(thread["feed"]) \in Seq(Reports(Nat)) /\ nextSequence \in Nat \ {0}
        /\ bounds.first \in Nat /\ bounds.first <= nextSequence
    BY <1>1, InvFacts DEF Held, SimInv, SimTypes
  <1>3. x.held \in Seq(Reports(Nat \cup {None})) /\ Len(x.held) = 1 /\ x.held # <<>>
    <2>1. x.held \in Seq(Reports(Nat \cup {None}))
      BY <1>2 DEF ThreadType
    <2>2. Len(x.held) = 1
      BY <1>1, <1>2 DEF HeldInv
    <2> QED BY <2>1, <2>2
  <1>4. h \in Reports(Nat \cup {None}) /\ Reported(<<h>>)
    BY <1>2, <1>3, ReportedOf
  <1>5. thread' = [thread EXCEPT !["cli"] = y] /\ nextSequence' = nextSequence + 1
    BY <1>1 DEF Number
  <1> HIDE DEF h
  <1>6. r \in Reports(Nat) /\ r.sequence = nextSequence /\ r.client = h.client /\ r.exid = h.exid
    BY <1>2, <1>4 DEF Reports, Numbered
  <1> HIDE DEF r
  <1>7. <<r>> \in Seq(Reports(Nat)) /\ <<r>> \in Seq(Reports(Nat \cup {None})) /\ <<r>> # <<>>
    <2>1. <<r>> \in Seq(Reports(Nat)) /\ <<r>> # <<>>
      BY <1>6
    <2> QED BY <2>1, NumberedAreReports
  <1>8. /\ y \in ThreadType /\ y.held = <<r>> /\ y.pc = "publish" /\ y.cid = x.cid /\ y.op = x.op
    BY <1>2, <1>7 DEF ThreadType, ThreadSteps
  <1> HIDE DEF y
  <1>9. HeldInv(y) /\ Held(y) = <<r>>
    BY <1>7, <1>8 DEF HeldInv, Held
  <1>10. Reported(<<r>>)
    BY <1>4, <1>6 DEF Reported
  <1>11. thread'["cli"] = y /\ thread'["feed"] = thread["feed"]
    BY <1>1, <1>5, TwoThreads
  <1>12. /\ UNCHANGED <<orders, nextExchangeId, view, tracker, seen, bounds, connected, buffered, lane>>
    BY DEF Number, gatewayVars
  <1>13. CommandInv(thread["cli"])' /\ BufferInv' /\ Busy(x)
    <2>1. CommandInv(x) /\ Busy(x)
      BY <1>1 DEF SimInv, ThreadInv, Busy
    <2> QED BY <1>1, <1>8, <1>11, <1>12, <2>1 DEF CommandInv, Busy, SimInv, BufferInv
  <1>14. Accounted(Held(thread'["cli"]), Held(thread'["feed"]), buffered', lane', seen,
                   bounds.first, nextSequence')
    <2>1. Accounted(<<>>, Held(thread["feed"]), buffered, lane, seen, bounds.first, nextSequence)
      BY <1>2, InvFacts
    <2>2. Numbers(<<>>) = {} /\ Len(<<>>) = 0 /\ Numbers(<<r>>) = {nextSequence} /\ Len(<<r>>) = 1
      BY <1>6, NumbersOfShort
    <2>3. bounds.first .. nextSequence' - 1 = (bounds.first .. nextSequence - 1) \cup {nextSequence}
      BY <1>2, <1>5
    <2>4. /\ Len(Held(thread["feed"])) \in Nat /\ Len(buffered) \in Nat /\ Len(lane) \in Nat /\ Len(seen) \in Nat
      BY <1>2, InvFacts
    <2>5. Accounted(<<r>>, Held(thread["feed"]), buffered, lane, seen, bounds.first, nextSequence')
      <3>1. 1 + Len(Held(thread["feed"])) + Len(buffered) + Len(lane) + Len(seen) = nextSequence' - bounds.first
        <4>1. Len(Held(thread["feed"])) + Len(buffered) + Len(lane) + Len(seen) = nextSequence - bounds.first
          BY <2>1, <2>2, <2>4 DEF Accounted
        <4> QED BY <1>2, <1>5, <2>4, <4>1, SMTT(30)
      <3> QED BY <2>1, <2>2, <2>3, <3>1 DEF Accounted
    <2> QED BY <1>9, <1>11, <1>12, <2>5
  <1>15. /\ nextSequence' \in Nat /\ nextSequence' >= nextSequence /\ connected' \in BOOLEAN
         /\ buffered' \in Seq(Reports(Nat)) /\ lane' \in Seq(Reports(Nat))
         /\ Reported(buffered') /\ Reported(lane')
         /\ bounds' \in [calls : Nat, faults : Nat, first : Nat \ {0}]
    BY <1>2, <1>5, <1>12, InvFacts DEF SimInv, SimTypes
  <1> QED BY <1>1, <1>5, <1>8, <1>9, <1>10, <1>12, <1>13, <1>14, <1>15, MoveKeeps

\* Reports are handed on; nothing is numbered.
LEMMA TransferKeeps ==
    ASSUME SimInv, NEW t \in Threads, NEW y \in ThreadType, thread' = [thread EXCEPT ![t] = y],
           UNCHANGED <<orders, nextExchangeId, view, tracker, seen, nextSequence>>,
           bounds' \in [calls : Nat, faults : Nat, first : Nat \ {0}],
           bounds'.calls = bounds.calls, bounds'.first = bounds.first,
           connected' \in BOOLEAN,
           buffered' \in Seq(Reports(Nat)), lane' \in Seq(Reports(Nat)), HeldInv(y),
           t = "feed" => y.pc \in {"idle", "publish", "emit"}, t = "cli" => CommandInv(y),
           BufferInv',
           Reported(y.held), Reported(buffered'), Reported(lane'),
           t = "cli" /\ Busy(y) => Busy(thread["cli"]) /\ y.cid = thread["cli"].cid,
           Numbers(Held(y)) \cup Numbers(buffered') \cup Numbers(lane') =
               Numbers(Held(thread[t])) \cup Numbers(buffered) \cup Numbers(lane),
           Len(Held(y)) + Len(buffered') + Len(lane') =
               Len(Held(thread[t])) + Len(buffered) + Len(lane)
    PROVE  SimInv'
  <1>1. /\ t \in {"cli", "feed"} /\ thread'[t] = y
        /\ t = "cli" => thread'["feed"] = thread["feed"] /\ thread'["cli"] = y
        /\ t = "feed" => thread'["cli"] = thread["cli"] /\ thread'["feed"] = y
    BY TwoThreads
  <1>2. CommandInv(thread["cli"])'
    <2>1. CommandInv(thread'["cli"])
      BY <1>1 DEF SimInv, ThreadInv
    <2> QED BY <2>1 DEF CommandInv, Busy
  <1> DEFINE hy == Held(y)
             hc == Held(thread["cli"])
             hf == Held(thread["feed"])
  <1>3. /\ Len(hy) \in Nat /\ Len(hc) \in Nat /\ Len(hf) \in Nat /\ Len(buffered) \in Nat
        /\ Len(lane) \in Nat /\ Len(buffered') \in Nat /\ Len(lane') \in Nat /\ Len(seen) \in Nat
        /\ nextSequence \in Nat /\ bounds.first \in Nat
    <2>1. "cli" \in Threads /\ "feed" \in Threads
      BY DEF Threads
    <2>2. hy \in Seq(Reports(Nat)) /\ hc \in Seq(Reports(Nat)) /\ hf \in Seq(Reports(Nat))
      BY <2>1, InvFacts, HeldIs
    <2> HIDE DEF hy, hc, hf
    <2> QED BY <2>2, InvFacts
  <1>4. Accounted(hc, hf, buffered, lane, seen, bounds.first, nextSequence)
    BY InvFacts
  <1>5. Accounted(Held(thread'["cli"]), Held(thread'["feed"]), buffered', lane', seen,
                  bounds.first, nextSequence)
    <2>1. CASE t = "cli"
      <3>1. Held(thread'["cli"]) = hy /\ Held(thread'["feed"]) = hf /\ Held(thread[t]) = hc
        BY <1>1, <2>1
      <3> HIDE DEF hy, hc, hf
      <3>2. Len(hy) + Len(hf) + Len(buffered') + Len(lane') + Len(seen) = nextSequence - bounds.first
        <4>1. Len(hc) + Len(hf) + Len(buffered) + Len(lane) + Len(seen) = nextSequence - bounds.first
          BY <1>4 DEF Accounted
        <4>2. Len(hy) + Len(buffered') + Len(lane') = Len(hc) + Len(buffered) + Len(lane)
          BY <3>1 DEF hy
        <4>3. PICK a \in Nat, b \in Nat, c \in Nat, d \in Nat, e \in Nat, x \in Nat, u \in Nat, v \in Nat :
                  /\ a = Len(hc) /\ b = Len(buffered) /\ c = Len(lane) /\ d = Len(seen) /\ e = Len(hf)
                  /\ x = Len(hy) /\ u = Len(buffered') /\ v = Len(lane')
          BY <1>3, Zenon
        <4>4. a + e + b + c + d = nextSequence - bounds.first /\ x + u + v = a + b + c
          BY <4>1, <4>2, <4>3, Zenon
        <4>5. x + e + u + v + d = nextSequence - bounds.first /\ e + x + u + v + d = nextSequence - bounds.first
          BY <4>4
        <4> QED BY <4>3, <4>5, Zenon
      <3>3. Numbers(hy) \cup Numbers(hf) \cup Numbers(buffered') \cup Numbers(lane') \cup ToSet(seen) =
                bounds.first .. nextSequence - 1
        BY <1>4, <3>1 DEF Accounted, hy
      <3> QED BY <3>1, <3>2, <3>3 DEF Accounted
    <2>2. CASE t = "feed"
      <3>1. Held(thread'["cli"]) = hc /\ Held(thread'["feed"]) = hy /\ Held(thread[t]) = hf
        BY <1>1, <2>2
      <3> HIDE DEF hy, hc, hf
      <3>2. Len(hc) + Len(hy) + Len(buffered') + Len(lane') + Len(seen) = nextSequence - bounds.first
        <4>1. Len(hf) + Len(hc) + Len(buffered) + Len(lane) + Len(seen) = nextSequence - bounds.first
          BY <1>3, <1>4 DEF Accounted
        <4>2. Len(hy) + Len(buffered') + Len(lane') = Len(hf) + Len(buffered) + Len(lane)
          BY <3>1 DEF hy
        <4>3. PICK a \in Nat, b \in Nat, c \in Nat, d \in Nat, e \in Nat, x \in Nat, u \in Nat, v \in Nat :
                  /\ a = Len(hf) /\ b = Len(buffered) /\ c = Len(lane) /\ d = Len(seen) /\ e = Len(hc)
                  /\ x = Len(hy) /\ u = Len(buffered') /\ v = Len(lane')
          BY <1>3, Zenon
        <4>4. a + e + b + c + d = nextSequence - bounds.first /\ x + u + v = a + b + c
          BY <4>1, <4>2, <4>3, Zenon
        <4>5. x + e + u + v + d = nextSequence - bounds.first /\ e + x + u + v + d = nextSequence - bounds.first
          BY <4>4
        <4> QED BY <4>3, <4>5, Zenon
      <3>3. Numbers(hc) \cup Numbers(hy) \cup Numbers(buffered') \cup Numbers(lane') \cup ToSet(seen) =
                bounds.first .. nextSequence - 1
        BY <1>4, <3>1 DEF Accounted, hy
      <3> QED BY <3>1, <3>2, <3>3 DEF Accounted
    <2> QED BY <1>1, <2>1, <2>2
  <1>6. nextSequence' \in Nat /\ nextSequence' >= nextSequence
    BY <1>3
  <1> QED BY <1>2, <1>5, <1>6, MoveKeeps

\* publish_or_buffer and the callback.
LEMMA PublishKeeps ==
    ASSUME SimInv, NEW t \in Threads, PublishOrBuffer(t) \/ EmitReport(t)
    PROVE  SimInv'
  <1> DEFINE x == thread[t]
             q == x.held
  <1>1. x.pc \in {"publish", "emit"} /\ (x.pc = "emit" => EmitReport(t)) /\ (x.pc = "publish" => PublishOrBuffer(t))
    BY DEF PublishOrBuffer, EmitReport
  <1>2. /\ x \in ThreadType /\ HeldInv(x) /\ Held(x) = q /\ Reported(q) /\ q \in Seq(Reports(Nat))
        /\ buffered \in Seq(Reports(Nat)) /\ lane \in Seq(Reports(Nat))
        /\ Reported(buffered) /\ Reported(lane)
    BY <1>1, InvFacts DEF Held, HeldInv
  <1>3. /\ UNCHANGED <<orders, nextExchangeId, view, tracker, seen, nextSequence, bounds, connected>>
        /\ bounds' \in [calls : Nat, faults : Nat, first : Nat \ {0}] /\ connected' \in BOOLEAN
        /\ thread \in [Threads -> ThreadType] /\ t \in {"cli", "feed"}
    BY DEF PublishOrBuffer, EmitReport, venueVars, gatewayVars, SimInv, SimTypes, Threads
  <1>4. t = "cli" => CommandInv(x) /\ Busy(x) /\ x.op # "none"
    BY <1>1 DEF SimInv, ThreadInv, CommandInv, Busy
  <1>5. ASSUME NEW y \in ThreadType, thread' = [thread EXCEPT ![t] = y],
               y.pc \notin {"swap", "deliver"}, buffered' # <<>> => buffered # <<>> \/ ~connected
        PROVE  BufferInv'
    <2>1. thread'["cli"].pc = thread["cli"].pc \/ thread'["cli"].pc = y.pc
      BY <1>3, <1>5 DEF Threads
    <2>2. thread["cli"].pc = "swap" /\ t = "cli" => FALSE
      BY <1>1
    <2>3. t # "cli" => thread'["cli"].pc = thread["cli"].pc
      BY <1>3, <1>5 DEF Threads
    <2>4. BufferInv
      BY DEF SimInv
    <2> QED BY <1>3, <1>5, <2>1, <2>2, <2>3, <2>4 DEF BufferInv
  <1> HIDE DEF x, q
  <1>6. CASE x.pc = "publish" /\ q = <<>>
    <2> DEFINE p(z) == [x EXCEPT !.pc = z]
    <2>1. buffered' = buffered /\ lane' = lane /\ thread' = AfterPublish(t)
      BY <1>1, <1>6 DEF PublishOrBuffer, gatewayVars, x, q
    <2>2. PICK y \in {Idle, p("match"), p("ack")} :
              /\ thread' = [thread EXCEPT ![t] = y]
              /\ y # Idle => t = "cli" /\ x.op # "emit"
      <3>1. CASE t = "feed" \/ x.op = "emit"
        <4>1. AfterPublish(t) = [thread EXCEPT ![t] = Idle]
          BY <3>1, <1>3 DEF AfterPublish, x
        <4> QED BY <2>1, <4>1
      <3>2. CASE ~(t = "feed" \/ x.op = "emit")
        BY <2>1, <3>2, <1>3 DEF AfterPublish, x
      <3> QED BY <3>1, <3>2
    <2>3. /\ y \in ThreadType /\ y.held = <<>> /\ y.pc \in {"idle", "match", "ack"}
          /\ y.pc # "idle" => t = "cli" /\ y.op = x.op /\ y.cid = x.cid /\ x.op # "emit"
      <3>1. CASE y = Idle
        BY <3>1, IdleIs
      <3>2. CASE y = p("match") \/ y = p("ack")
        <4>1. x.held = <<>>
          BY <1>6 DEF q
        <4>2. y \in ThreadType /\ y.held = <<>> /\ y.op = x.op /\ y.cid = x.cid /\ y.pc \in {"match", "ack"}
          BY <1>2, <3>2, <4>1 DEF ThreadType, ThreadSteps
        <4>3. y # Idle
          BY <4>2, IdleIs
        <4> QED BY <4>2, <4>3, <2>2
      <3> QED BY <3>1, <3>2, <2>2
    <2> HIDE DEF p
    <2>4. HeldInv(y) /\ Held(y) = <<>> /\ Reported(y.held)
      <3>1. <<>> \in Seq(Reports(Nat))
        OBVIOUS
      <3> QED BY <2>3, <3>1 DEF HeldInv, Held, Reported
    <2>5. BufferInv'
      BY <2>1, <2>2, <2>3, <1>5
    <2>6. t = "cli" => CommandInv(y)
      <3>1. y.pc # "idle" => y.op \in Commands
        BY <2>3, <1>2, <1>4 DEF ThreadType
      <3> QED BY <3>1, <2>3, <1>4, <1>6 DEF CommandInv, Busy
    <2>7. t = "feed" => y.pc = "idle"
      BY <2>3
    <2>8. t = "cli" /\ Busy(y) => Busy(thread["cli"]) /\ y.cid = thread["cli"].cid
      BY <1>4, <2>3 DEF Busy, x
    <2>9. Held(y) = Held(thread[t])
      BY <1>2, <1>6, <2>4 DEF x
    <2> QED BY <1>2, <1>3, <2>1, <2>2, <2>3, <2>4, <2>5, <2>6, <2>7, <2>8, <2>9, TransferKeeps
  <1>7. CASE x.pc = "publish" /\ q # <<>> /\ connected
    <2> DEFINE y == [x EXCEPT !.pc = "emit"]
    <2>1. buffered' = buffered /\ lane' = lane /\ thread' = [thread EXCEPT ![t] = y]
      BY <1>1, <1>7 DEF PublishOrBuffer, gatewayVars, x, q, Goto
    <2>2. y \in ThreadType /\ y.held = q /\ y.pc = "emit" /\ y.op = x.op /\ y.cid = x.cid
      BY <1>2 DEF ThreadType, ThreadSteps, q
    <2> HIDE DEF y
    <2>3. HeldInv(y) /\ Held(y) = q
      BY <1>2, <1>7, <2>2 DEF HeldInv, Held
    <2>4. BufferInv'
      BY <1>5, <2>1, <2>2
    <2>5. t = "cli" => CommandInv(y)
      BY <1>4, <1>7, <2>2 DEF CommandInv, Busy
    <2> QED BY <1>2, <1>3, <1>4, <2>1, <2>2, <2>3, <2>4, <2>5, TransferKeeps DEF x
  <1>8. CASE q # <<>> /\ (x.pc = "emit" \/ ~connected)
    <2> DEFINE y == [x EXCEPT !.pc = "publish", !.held = Tail(q)]
               h == Head(q)
    <2>1. /\ thread' = [thread EXCEPT ![t] = y]
          /\ \/ buffered' = buffered /\ lane' = Append(lane, h)
             \/ buffered' = Append(buffered, h) /\ lane' = lane /\ ~connected
      <3>1. CASE x.pc = "emit"
        BY <1>1, <3>1 DEF EmitReport, x, q
      <3>2. CASE x.pc = "publish"
        <4>1. x = [x EXCEPT !.pc = "publish"]
          BY <1>2, <3>2 DEF ThreadType
        <4>2. thread' = [thread EXCEPT ![t] = [x EXCEPT !.held = Tail(q)]]
          BY <1>1, <1>8, <3>2 DEF PublishOrBuffer, x, q
        <4>3. [x EXCEPT !.held = Tail(q)] = y
          BY <1>2, <3>2 DEF ThreadType
        <4> QED BY <1>1, <1>8, <3>2, <4>2, <4>3 DEF PublishOrBuffer, x, q, gatewayVars
      <3> QED BY <1>1, <3>1, <3>2
    <2>2. /\ h \in Reports(Nat) /\ Tail(q) \in Seq(Reports(Nat)) /\ Len(Tail(q)) = Len(q) - 1
          /\ Len(q) \in Nat /\ Numbers(q) = {h.sequence} \cup Numbers(Tail(q))
      BY <1>2, <1>8, NumbersOf
    <2>3. Reported(Tail(q)) /\ Reported(<<h>>)
      BY <1>2, <1>8, ReportedOf
    <2> HIDE DEF h
    <2>4. y \in ThreadType /\ y.held = Tail(q) /\ y.pc = "publish" /\ y.op = x.op /\ y.cid = x.cid
      <3>1. Tail(q) \in Seq(Reports(Nat \cup {None}))
        BY <2>2, NumberedAreReports
      <3> QED BY <1>2, <3>1 DEF ThreadType, ThreadSteps
    <2> HIDE DEF y
    <2>5. HeldInv(y) /\ Held(y) = Tail(q)
      BY <2>2, <2>4 DEF HeldInv, Held
    <2>6. BufferInv'
      BY <1>5, <2>1, <2>4
    <2>7. t = "cli" => CommandInv(y)
      BY <1>1, <1>4, <2>4 DEF CommandInv, Busy
    <2>8. /\ buffered' \in Seq(Reports(Nat)) /\ lane' \in Seq(Reports(Nat))
          /\ Reported(buffered') /\ Reported(lane')
      <3>1. /\ Append(lane, h) \in Seq(Reports(Nat)) /\ Append(buffered, h) \in Seq(Reports(Nat))
        BY <1>2, <2>2
      <3>2. Reported(Append(lane, h)) /\ Reported(Append(buffered, h))
        BY <1>2, <2>2, <2>3, ReportedOf
      <3> QED BY <1>2, <2>1, <3>1, <3>2
    <2>9. /\ Numbers(Held(y)) \cup Numbers(buffered') \cup Numbers(lane') =
               Numbers(Held(x)) \cup Numbers(buffered) \cup Numbers(lane)
          /\ Len(Held(y)) + Len(buffered') + Len(lane') = Len(Held(x)) + Len(buffered) + Len(lane)
      <3>1. /\ Numbers(Append(lane, h)) = Numbers(lane) \cup {h.sequence}
            /\ Numbers(Append(buffered, h)) = Numbers(buffered) \cup {h.sequence}
            /\ Len(Append(lane, h)) = Len(lane) + 1 /\ Len(Append(buffered, h)) = Len(buffered) + 1
            /\ Len(lane) \in Nat /\ Len(buffered) \in Nat
        BY <1>2, <2>2, NumbersOf
      <3>2. CASE buffered' = buffered /\ lane' = Append(lane, h)
        <4>1. Len(Tail(q)) + Len(buffered) + (Len(lane) + 1) = Len(q) + Len(buffered) + Len(lane)
          BY <2>2, <3>1
        <4> QED BY <1>2, <2>2, <2>5, <3>1, <3>2, <4>1
      <3>3. CASE buffered' = Append(buffered, h) /\ lane' = lane
        <4>1. Len(Tail(q)) + (Len(buffered) + 1) + Len(lane) = Len(q) + Len(buffered) + Len(lane)
          BY <2>2, <3>1
        <4> QED BY <1>2, <2>2, <2>5, <3>1, <3>3, <4>1
      <3> QED BY <2>1, <3>2, <3>3
    <2> QED BY <1>2, <1>3, <1>4, <2>1, <2>3, <2>4, <2>5, <2>6, <2>7, <2>8, <2>9, TransferKeeps DEF x
  <1> QED BY <1>1, <1>2, <1>6, <1>7, <1>8 DEF HeldInv, q

\* disconnect, reconnect and the delivery of what was buffered.
LEMMA ConnectionKeeps ==
    ASSUME SimInv, Disconnect \/ Reconnect \/ DeliverBuffered
    PROVE  SimInv'
  <1> DEFINE x == thread["cli"]
  <1>1. /\ x \in ThreadType /\ HeldInv(x) /\ Reported(x.held) /\ "cli" \in Threads
        /\ buffered \in Seq(Reports(Nat)) /\ lane \in Seq(Reports(Nat))
        /\ Reported(buffered) /\ Reported(lane) /\ thread \in [Threads -> ThreadType]
    BY InvFacts DEF Threads, SimInv, SimTypes
  <1>2. UNCHANGED <<orders, nextExchangeId, view, tracker, seen, nextSequence>>
    BY DEF Disconnect, Reconnect, DeliverBuffered, venueVars, gatewayVars
  <1>3. /\ bounds' \in [calls : Nat, faults : Nat, first : Nat \ {0}]
        /\ bounds'.calls = bounds.calls /\ bounds'.first = bounds.first
    <2>0. bounds \in [calls : Nat, faults : Nat, first : Nat \ {0}]
      BY DEF SimInv, SimTypes
    <2>1. CASE Disconnect
      <3>1. bounds' = [bounds EXCEPT !.faults = @ + 1] /\ bounds.faults + 1 \in Nat
        BY <2>0, <2>1 DEF Disconnect
      <3> QED BY <2>0, <3>1
    <2>2. CASE Reconnect \/ DeliverBuffered
      BY <2>0, <2>2 DEF Reconnect, DeliverBuffered
    <2> QED BY <2>1, <2>2
  <1>4. BufferInv
    BY DEF SimInv
  <1> HIDE DEF x
  <1>5. CASE Disconnect
    <2>1. /\ thread' = [thread EXCEPT !["cli"] = x] /\ connected' = FALSE
          /\ buffered' = buffered /\ lane' = lane /\ x.pc = "idle"
      BY <1>1, <1>5 DEF Disconnect, gatewayVars, x
    <2>2. thread'["cli"] = x
      BY <1>1, <2>1
    <2>3. BufferInv' /\ CommandInv(x) /\ ~Busy(x)
      BY <2>1, <2>2 DEF BufferInv, CommandInv, Busy
    <2>4. Held(x) = Held(thread["cli"])
      BY DEF x
    <2> QED BY <1>1, <1>2, <1>3, <2>1, <2>3, <2>4, TransferKeeps
  <1>6. CASE Reconnect /\ x.pc = "idle"
    <2> DEFINE y == [x EXCEPT !.pc = "swap"]
    <2>1. /\ thread' = [thread EXCEPT !["cli"] = y] /\ connected' = TRUE
          /\ buffered' = buffered /\ lane' = lane /\ x.held = <<>>
      BY <1>1, <1>6 DEF Reconnect, gatewayVars, x, Goto, HeldInv
    <2>2. y \in ThreadType /\ y.pc = "swap" /\ y.held = <<>>
      BY <1>1, <2>1 DEF ThreadType, ThreadSteps
    <2> HIDE DEF y
    <2>3. thread'["cli"] = y
      BY <1>1, <2>1
    <2>4. BufferInv' /\ CommandInv(y) /\ ~Busy(y)
      BY <2>1, <2>2, <2>3 DEF BufferInv, CommandInv, Busy
    <2>5. HeldInv(y) /\ Held(y) = Held(thread["cli"]) /\ Reported(y.held)
      <3>1. <<>> \in Seq(Reports(Nat))
        OBVIOUS
      <3> QED BY <1>6, <2>1, <2>2, <3>1 DEF HeldInv, Held, Reported, x
    <2> QED BY <1>1, <1>2, <1>3, <2>1, <2>2, <2>4, <2>5, TransferKeeps
  <1>7. CASE Reconnect /\ x.pc = "swap"
    <2> DEFINE y == [x EXCEPT !.pc = "deliver", !.held = buffered]
    <2>1. /\ thread' = [thread EXCEPT !["cli"] = y] /\ connected' = connected
          /\ buffered' = <<>> /\ lane' = lane /\ x.held = <<>>
      BY <1>1, <1>7 DEF Reconnect, gatewayVars, x, HeldInv
    <2>2. y \in ThreadType /\ y.pc = "deliver" /\ y.held = buffered
      BY <1>1, NumberedAreReports DEF ThreadType, ThreadSteps
    <2> HIDE DEF y
    <2>3. thread'["cli"] = y
      BY <1>1, <2>1
    <2>4. BufferInv' /\ CommandInv(y) /\ ~Busy(y) /\ connected' \in BOOLEAN
      <3>1. connected' = TRUE
        BY <1>4, <1>7, <2>1 DEF BufferInv, x, SimInv, SimTypes
      <3> QED BY <2>1, <2>2, <2>3, <3>1 DEF BufferInv, CommandInv, Busy
    <2>5. HeldInv(y) /\ Held(y) = buffered /\ Held(thread["cli"]) = <<>> /\ Reported(y.held)
      BY <1>1, <1>7, <2>1, <2>2 DEF HeldInv, Held, x
    <2>6. <<>> \in Seq(Reports(Nat)) /\ Reported(<<>>)
      BY DEF Reported
    <2>7. Len(buffered) + Len(<<>>) + Len(lane) = Len(<<>>) + Len(buffered) + Len(lane)
      <3>1. Len(buffered) \in Nat /\ Len(lane) \in Nat /\ Len(<<>>) = 0
        BY <1>1
      <3> QED BY <3>1
    <2> QED BY <1>1, <1>2, <1>3, <2>1, <2>2, <2>4, <2>5, <2>6, <2>7, TransferKeeps
  <1>8. CASE DeliverBuffered
    <2>1. /\ thread' = [thread EXCEPT !["cli"] = Idle] /\ connected' = connected
          /\ buffered' = buffered /\ lane' = lane \o x.held /\ x.pc = "deliver"
      BY <1>8 DEF DeliverBuffered, x
    <2>2. thread'["cli"] = Idle
      BY <1>1, <2>1
    <2>3. BufferInv' /\ CommandInv(Idle) /\ connected' \in BOOLEAN
      BY <1>4, <2>1, <2>2, IdleIs DEF BufferInv, CommandInv, x, SimInv, SimTypes
    <2>4. x.held \in Seq(Reports(Nat)) /\ Held(x) = x.held
      BY <1>1, <2>1 DEF HeldInv, Held
    <2>5. lane' \in Seq(Reports(Nat)) /\ Reported(lane') /\ Reported(Idle.held)
      <3>1. lane \o x.held \in Seq(Reports(Nat))
        BY <1>1, <2>4
      <3>2. Reported(lane \o x.held)
        BY <1>1, <2>4, ReportedOf
      <3>3. Reported(<<>>)
        BY DEF Reported
      <3> QED BY <2>1, <3>1, <3>2, <3>3, IdleIs
    <2>6. /\ Numbers(lane') = Numbers(lane) \cup Numbers(x.held)
          /\ Len(lane') = Len(lane) + Len(x.held)
          /\ Len(lane) \in Nat /\ Len(x.held) \in Nat /\ Len(buffered) \in Nat
      BY <1>1, <2>1, <2>4, NumbersOf
    <2>7. /\ Numbers(Held(Idle)) \cup Numbers(buffered') \cup Numbers(lane') =
               Numbers(Held(thread["cli"])) \cup Numbers(buffered) \cup Numbers(lane)
          /\ Len(Held(Idle)) + Len(buffered') + Len(lane') =
               Len(Held(thread["cli"])) + Len(buffered) + Len(lane)
      <3>1. Held(Idle) = <<>> /\ Len(<<>>) = 0 /\ Numbers(<<>>) = {} /\ Held(thread["cli"]) = x.held
        BY <2>4, IdleIs, NumbersOfShort DEF x
      <3>2. 0 + Len(buffered) + (Len(lane) + Len(x.held)) = Len(x.held) + Len(buffered) + Len(lane)
        BY <2>6
      <3> QED BY <2>1, <2>6, <3>1, <3>2
    <2> QED BY <1>1, <1>2, <1>3, <2>1, <2>3, <2>5, <2>7, IdleIs, TransferKeeps
  <1> QED BY <1>5, <1>6, <1>7, <1>8 DEF Reconnect, x
-----------------------------------------------------------------------------
(* The worker of the lane *)

\* The reports of the simulator are execution reports.
LEMMA ReportsAreTyped == Reports(Nat) \subseteq ReportType
  <1>1. Cids \subseteq STRING /\ SimStatuses \subseteq Statuses
    BY SimAssumption DEF SimStatuses, Statuses
  <1>2. ASSUME NEW r \in Reports(Nat) PROVE r \in ReportType
    <2>0. /\ r.event \in Nat /\ r.client \in Cids /\ r.exid \in ExchangeIds \cup {None}
          /\ r.status \in SimStatuses /\ r.cumulative \in Nat /\ r.price = None /\ r.quantity \in Nat
          /\ r.sequence \in Nat
      BY DEF Reports
    <2>1. /\ r.event \in Nat \cup {None} /\ r.client \in STRING \cup {None}
          /\ r.exid \in ExchangeIds \cup {None} /\ r.status \in Statuses /\ r.cumulative \in Int
          /\ r.price \in Nat \cup {None} /\ r.quantity \in Nat \cup {None}
          /\ r.sequence \in Nat \cup {None}
      <3>1. r.cumulative \in Int
        BY <2>0
      <3> QED BY <1>1, <2>0, <3>1, Zenon
    <2>2. r = [event |-> r.event, client |-> r.client, exid |-> r.exid, status |-> r.status,
               cumulative |-> r.cumulative, price |-> r.price, quantity |-> r.quantity,
               sequence |-> r.sequence]
      BY DEF Reports
    <2> QED BY <2>1, <2>2, Zenon DEF ReportType
  <1> QED BY <1>2

\* The elements of a sequence that grows.
LEMMA ToSetAppend ==
    ASSUME NEW S, NEW q \in Seq(S), NEW n \in S
    PROVE  /\ ToSet(Append(q, n)) = ToSet(q) \cup {n} /\ Len(Append(q, n)) = Len(q) + 1
           /\ Append(q, n) # <<>> /\ Append(q, n) \in Seq(S) /\ Len(q) \in Nat
           /\ Head(Append(q, n)) = IF q = <<>> THEN n ELSE Head(q)
  <1> DEFINE a == Append(q, n)
  <1>1. /\ Len(q) \in Nat /\ Len(a) = Len(q) + 1 /\ a[Len(q) + 1] = n /\ a \in Seq(S)
        /\ DOMAIN a = 1 .. Len(a) /\ DOMAIN q = 1 .. Len(q)
        /\ \A i \in 1 .. Len(q) : a[i] = q[i]
    OBVIOUS
  <1> HIDE DEF a
  <1>2. 1 .. Len(a) = 1 .. Len(q) \cup {Len(q) + 1}
    BY <1>1
  <1>3. ToSet(a) = ToSet(q) \cup {n}
    BY <1>1, <1>2 DEF ToSet
  <1>4. a # <<>> /\ Head(a) = a[1]
    BY <1>1
  <1>5. Head(a) = IF q = <<>> THEN n ELSE Head(q)
    <2>1. CASE q = <<>>
      BY <1>1, <1>4, <2>1
    <2>2. CASE q # <<>>
      <3>1. Head(q) = q[1] /\ 1 \in 1 .. Len(q)
        BY <2>2
      <3> QED BY <1>1, <1>4, <2>2, <3>1
    <2> QED BY <2>1, <2>2
  <1> QED BY <1>1, <1>3, <1>4, <1>5 DEF a

\* SequenceTracker::observe: a jump sets the flag for good.
LEMMA ObserveKeeps ==
    ASSUME TrackerInv, tracker \in [last : Nat \cup {None}, gap : BOOLEAN], seen \in Seq(Nat),
           NEW n \in Nat, tracker' = Observe(tracker, n), seen' = Append(seen, n)
    PROVE  TrackerInv' /\ tracker' \in [last : Nat \cup {None}, gap : BOOLEAN]
  <1>1. /\ seen' # <<>> /\ ToSet(seen') = ToSet(seen) \cup {n}
        /\ Head(seen') = IF seen = <<>> THEN n ELSE Head(seen)
    BY ToSetAppend
  <1>2. CASE tracker.last = None
    <2>1. tracker' = [tracker EXCEPT !.last = n]
      BY <1>2 DEF Observe
    <2>2. tracker'.last = n /\ tracker' \in [last : Nat \cup {None}, gap : BOOLEAN]
      BY <2>1
    <2>3. seen = <<>> /\ None \notin Nat
      BY <1>2, NoneAssumption DEF TrackerInv
    <2>4. \A m \in n .. n : m = n
      OBVIOUS
    <2> QED BY <1>1, <2>2, <2>3, <2>4 DEF TrackerInv, GapIsFlagged
  <1>3. CASE tracker.last # None
    <2> DEFINE k == tracker.last
    <2>1. k \in Nat /\ tracker.gap \in BOOLEAN /\ seen # <<>> /\ Head(seen) \in Nat /\ None \notin Nat
      BY <1>3, NoneAssumption DEF TrackerInv
    <2>2. \A m \in Head(seen) .. k : m \in ToSet(seen) \/ tracker.gap
      BY <2>1 DEF TrackerInv, GapIsFlagged
    <2>3. CASE n <= k
      <3>1. tracker' = tracker
        BY <1>3, <2>3 DEF Observe
      <3> QED BY <1>1, <2>1, <2>2, <3>1, <1>3 DEF TrackerInv, GapIsFlagged
    <2>4. CASE ~(n <= k)
      <3>1. tracker' = [last |-> n, gap |-> tracker.gap \/ n > k + 1]
        BY <1>3, <2>4 DEF Observe
      <3>2. tracker'.last = n /\ tracker'.gap = (tracker.gap \/ n > k + 1)
            /\ tracker' \in [last : Nat \cup {None}, gap : BOOLEAN]
        BY <2>1, <3>1
      <3>3. ASSUME NEW m \in Head(seen) .. n, ~(tracker.gap \/ n > k + 1) PROVE m \in ToSet(seen')
        <4>1. n = k + 1
          BY <2>1, <2>4, <3>3
        <4>2. m = n \/ m \in Head(seen) .. k
          BY <2>1, <4>1
        <4> QED BY <1>1, <2>2, <3>3, <4>2
      <3> QED BY <1>1, <2>1, <3>2, <3>3 DEF TrackerInv, GapIsFlagged
    <2> QED BY <2>3, <2>4
  <1> QED BY <1>2, <1>3

\* The gateway applies a report: the order's identifier and last number come from the simulator's.
LEMMA LaneKeeps ==
    ASSUME SimInv, LaneApply
    PROVE  SimInv'
  <1>1. PICK r \in Reports(Nat) : r = Head(lane)
    BY InvFacts DEF LaneApply
  <1> DEFINE c == r.client
             w == Apply(view[c], r)
  <1>2. /\ lane # <<>> /\ view' = [view EXCEPT ![c] = w] /\ tracker' = Observe(tracker, r.sequence)
        /\ seen' = Append(seen, r.sequence) /\ lane' = Tail(lane)
        /\ UNCHANGED <<orders, nextSequence, nextExchangeId, connected, buffered, thread, bounds>>
    BY <1>1 DEF LaneApply, venueVars
  <1>3. /\ Tail(lane) \in Seq(Reports(Nat)) /\ Len(Tail(lane)) = Len(lane) - 1 /\ Len(lane) \in Nat
        /\ Numbers(lane) = {r.sequence} \cup Numbers(Tail(lane))
        /\ Reported(Tail(lane)) /\ Reported(<<r>>)
    BY <1>1, <1>2, InvFacts, NumbersOf, ReportedOf
  <1>4. c \in Cids /\ orders[c] # None /\ r.exid \in {None, orders[c].exid} /\ r.sequence \in Nat
    <2>1. Len(<<r>>) = 1 /\ <<r>>[1] = r /\ 1 \in 1 .. 1
      OBVIOUS
    <2> QED BY <1>3, <2>1, ReportsNumbered DEF Reported
  <1>5. Identified(c) /\ view[c] # None /\ view[c] \in OrderType
    BY <1>4 DEF SimInv, SimTypes, IdentityInv, Identified
  <1>6. r \in ReportType
    BY ReportsAreTyped
  <1>7. /\ w \in OrderType /\ w.exid \in {None, orders[c].exid}
        /\ w.lastSequence \in {view[c].lastSequence, r.sequence}
    <2>1. view[c].exid \in {None, orders[c].exid}
      BY <1>4, <1>5 DEF Identified
    <2> QED BY <1>4, <1>5, <1>6, <2>1, ApplyType, ApplyIds
  <1> HIDE DEF w
  <1>8. /\ view' \in [Cids -> OrderType \cup {None}] /\ view'[c] = w /\ w # None
        /\ \A d \in Cids : d # c => view'[d] = view[d]
    BY <1>2, <1>4, <1>7, NoneAssumption DEF SimInv, SimTypes
  <1>9. r.sequence < nextSequence
    <2>1. r.sequence \in bounds.first .. nextSequence - 1 /\ nextSequence \in Nat /\ bounds.first \in Nat
      BY <1>3, InvFacts DEF Accounted
    <2> QED BY <2>1
  <1>10. TrackerInv' /\ tracker' \in [last : Nat \cup {None}, gap : BOOLEAN]
    BY <1>2, <1>4, ObserveKeeps DEF SimInv, SimTypes
  <1>11. seen' \in Seq(Nat) /\ ToSet(seen') = ToSet(seen) \cup {r.sequence} /\ Len(seen') = Len(seen) + 1
    <2>1. seen \in Seq(Nat)
      BY InvFacts
    <2>2. PICK n \in Nat : n = r.sequence
      BY <1>4
    <2>3. seen' = Append(seen, n)
      BY <1>2, <2>2
    <2>4. /\ ToSet(Append(seen, n)) = ToSet(seen) \cup {n} /\ Append(seen, n) \in Seq(Nat)
          /\ Len(Append(seen, n)) = Len(seen) + 1
      BY <2>1, ToSetAppend
    <2>5. ToSet(seen') = ToSet(seen) \cup {n}
      BY <2>3, <2>4, Zenon
    <2> QED BY <2>2, <2>3, <2>4, <2>5
  <1>12. SimTypes'
    BY <1>2, <1>3, <1>8, <1>10, <1>11 DEF SimInv, SimTypes
  <1>13. ThreadInv'
    <2>1. CommandInv(thread["cli"])'
      <3>1. CommandInv(thread["cli"])
        BY DEF SimInv, ThreadInv
      <3>2. ASSUME NEW d \in Cids, view[d] # None PROVE view'[d] # None
        BY <1>8, <3>2
      <3> QED BY <1>2, <3>1, <3>2 DEF CommandInv, Busy
    <2> QED BY <1>2, <2>1 DEF SimInv, ThreadInv
  <1>14. BufferInv'
    BY <1>2 DEF SimInv, BufferInv
  <1>15. ReportsConserved'
    <2> DEFINE hc == Held(thread["cli"])
               hf == Held(thread["feed"])
    <2>1. Accounted(hc, hf, buffered, lane, seen, bounds.first, nextSequence)
      BY InvFacts
    <2>2. Len(hc) \in Nat /\ Len(hf) \in Nat /\ Len(buffered) \in Nat /\ Len(seen) \in Nat
      <3>1. hc \in Seq(Reports(Nat)) /\ hf \in Seq(Reports(Nat))
        BY InvFacts DEF Threads
      <3> HIDE DEF hc, hf
      <3> QED BY <3>1, InvFacts
    <2> HIDE DEF hc, hf
    <2>3. Len(hc) + Len(hf) + Len(buffered) + (Len(lane) - 1) + (Len(seen) + 1) = nextSequence - bounds.first
      <3>1. Len(hc) + Len(hf) + Len(buffered) + Len(lane) + Len(seen) = nextSequence - bounds.first
        BY <2>1 DEF Accounted
      <3> QED BY <1>3, <2>2, <3>1
    <2>4. Accounted(hc, hf, buffered, lane', seen', bounds.first, nextSequence)
      <3>1. Numbers(hc) \cup Numbers(hf) \cup Numbers(buffered) \cup Numbers(lane') \cup ToSet(seen') =
                bounds.first .. nextSequence - 1
        BY <1>2, <1>3, <1>11, <2>1 DEF Accounted
      <3> QED BY <1>2, <1>3, <1>11, <2>3, <3>1 DEF Accounted
    <2>5. Accounted(Held(thread'["cli"]), Held(thread'["feed"]), buffered', lane', seen',
                    bounds'.first, nextSequence')
      BY <1>2, <2>4 DEF hc, hf
    <2> QED BY <1>12, <1>13, <2>5, ConservedNext
  <1>16. IdentityInv'
    <2>1. Reported(thread["cli"].held)' /\ Reported(thread["feed"].held)' /\ Reported(buffered)' /\ Distinct'
      BY <1>2 DEF SimInv, IdentityInv, Reported, Distinct
    <2>2. Reported(lane)'
      BY <1>2, <1>3 DEF Reported
    <2>3. ASSUME NEW d \in Cids, d # c PROVE Identified(d)'
      BY <1>2, <1>8, <2>3 DEF SimInv, IdentityInv, Identified
    <2>4. Identified(c)'
      BY <1>2, <1>4, <1>5, <1>7, <1>8, <1>9 DEF Identified
    <2> QED BY <2>1, <2>2, <2>3, <2>4 DEF IdentityInv
  <1> QED BY <1>10, <1>12, <1>13, <1>14, <1>15, <1>16 DEF SimInv
-----------------------------------------------------------------------------
(* Matching *)

\* A finite set in some order.
LEMMA SetInTurn ==
    ASSUME NEW S, IsFiniteSet(S)
    PROVE  /\ Cardinality(S) \in Nat /\ Len(SetToSeq(S)) = Cardinality(S)
           /\ \A i \in 1 .. Cardinality(S) : SetToSeq(S)[i] \in S
  <1> DEFINE n == Cardinality(S)
  <1>1. n \in Nat /\ ExistsBijection(1 .. n, S)
    BY FS_CardinalityType
  <1>2. \E f \in [1 .. n -> S] : IsInjective(f)
    BY <1>1, Zenon DEF ExistsBijection, Bijection, Injection
  <1>3. SetToSeq(S) \in [1 .. n -> S]
    BY <1>2, Zenon DEF SetToSeq
  <1> HIDE DEF n
  <1>4. Len(SetToSeq(S)) = n
    BY <1>1, <1>3
  <1> QED BY <1>1, <1>3, <1>4 DEF n

\* Reports that are numbered in turn.
LEMMA NumberedIs ==
    ASSUME NEW r \in Reports(Nat \cup {None}), NEW m \in Nat
    PROVE  /\ Numbered(r, m) \in Reports(Nat) /\ Numbered(r, m).sequence = m
           /\ Numbered(r, m).client = r.client /\ Numbered(r, m).exid = r.exid
  BY DEF Numbered, Reports
LEMMA NumberedInTurn ==
    ASSUME NEW n \in Nat, NEW k \in Nat, NEW q \in [1 .. n -> Reports(Nat)],
           \A i \in 1 .. n : q[i].sequence = k + i - 1
    PROVE  q \in Seq(Reports(Nat)) /\ Len(q) = n /\ Numbers(q) = k .. k + n - 1
  <1>1. q \in Seq(Reports(Nat)) /\ Len(q) = n
    OBVIOUS
  <1>2. \A m \in k .. k + n - 1 : m - k + 1 \in 1 .. n /\ k + (m - k + 1) - 1 = m
    OBVIOUS
  <1>3. \A i \in 1 .. n : k + i - 1 \in k .. k + n - 1
    OBVIOUS
  <1>4. Numbers(q) \subseteq k .. k + n - 1
    BY <1>1, <1>3 DEF Numbers
  <1>5. k .. k + n - 1 \subseteq Numbers(q)
    <2> SUFFICES ASSUME NEW m \in k .. k + n - 1 PROVE m \in Numbers(q)
      OBVIOUS
    <2>1. PICK i \in 1 .. n : i = m - k + 1
      BY <1>2
    <2>2. q[i].sequence = m
      BY <1>2, <2>1
    <2> QED BY <1>1, <2>2 DEF Numbers
  <1> QED BY <1>1, <1>4, <1>5

\* A quote fills the orders it reaches and numbers their reports.
LEMMA MatchKeeps ==
    ASSUME SimInv, NEW t \in Threads, NEW reached \in SUBSET Cids, Match(t, reached),
           t = "feed" => thread["feed"].pc = "idle", t = "cli" => thread["cli"].pc = "match"
    PROVE  SimInv'
  <1> DEFINE filled == [c \in reached |->
                           [orders[c] EXCEPT !.status = "Filled", !.filled = orders[c].quantity]]
             s == SetToSeq(reached)
             n == Cardinality(reached)
             R(i) == SimReportFor(s[i], filled[s[i]])
             q == [i \in 1 .. n |-> Numbered(R(i), nextSequence + i - 1)]
             x == thread[t]
             y == [x EXCEPT !.pc = "publish", !.matched = TRUE, !.held = q]
  <1>1. n \in Nat /\ Len(s) = n /\ \A i \in 1 .. n : s[i] \in reached
    <2>1. IsFiniteSet(reached)
      BY SimAssumption, FS_Subset
    <2> QED BY <2>1, SetInTurn
  <1>2. /\ thread' = [thread EXCEPT ![t] = y] /\ nextSequence' = nextSequence + n
        /\ orders' = [c \in Cids |-> IF c \in reached THEN filled[c] ELSE orders[c]]
        /\ \A c \in reached : orders[c] # None
        /\ UNCHANGED <<nextExchangeId, connected, buffered, lane, view, tracker, seen, bounds>>
    <2>1. thread' = [thread EXCEPT ![t].pc = "publish", ![t].matched = TRUE,
                        ![t].held = [i \in 1 .. Len(s) |-> Numbered(R(i), nextSequence + i - 1)]]
      BY DEF Match
    <2>2. thread' = [thread EXCEPT ![t] = y]
      BY <1>1, <2>1
    <2> QED BY <2>2 DEF Match, Open, gatewayVars
  <1>3. \A c \in reached : /\ filled[c] \in SimOrderType /\ filled[c] # None
                           /\ filled[c].exid = orders[c].exid /\ orders[c] # None
    <2> SUFFICES ASSUME NEW c \in reached
                 PROVE  /\ filled[c] \in SimOrderType /\ filled[c] # None
                        /\ filled[c].exid = orders[c].exid /\ orders[c] # None
      OBVIOUS
    <2>1. orders[c] \in SimOrderType
      BY <1>2 DEF SimInv, SimTypes
    <2>2. filled[c] = [orders[c] EXCEPT !.status = "Filled", !.filled = orders[c].quantity]
      OBVIOUS
    <2> HIDE DEF filled
    <2>3. filled[c] \in SimOrderType /\ filled[c].exid = orders[c].exid
      BY <2>1, <2>2 DEF SimOrderType, SimStatuses
    <2> QED BY <1>2, <2>3, SimAssumption
  <1> HIDE DEF filled
  <1>4. IdentifiersKept
    <2>1. orders' \in [Cids -> SimOrderType \cup {None}]
      BY <1>2, <1>3 DEF SimInv, SimTypes
    <2>2. \A c \in Cids : orders'[c] = IF c \in reached THEN filled[c] ELSE orders[c]
      BY <1>2
    <2>3. ASSUME NEW c \in Cids
          PROVE  IF orders[c] = None THEN orders'[c] = None
                 ELSE orders'[c] # None /\ orders'[c].exid = orders[c].exid
      BY <1>3, <2>2
    <2> QED BY <2>1, <2>3 DEF IdentifiersKept
  <1>5. \A i \in 1 .. n : R(i) \in Reports(Nat \cup {None}) /\ R(i).client = s[i] /\ R(i).exid = orders[s[i]].exid
    <2> SUFFICES ASSUME NEW i \in 1 .. n
                 PROVE  R(i) \in Reports(Nat \cup {None}) /\ R(i).client = s[i] /\ R(i).exid = orders[s[i]].exid
      OBVIOUS
    <2>1. s[i] \in Cids /\ filled[s[i]] \in SimOrderType /\ filled[s[i]].exid = orders[s[i]].exid
      BY <1>1, <1>3
    <2> QED BY <2>1, ReportIs
  <1>6. nextSequence \in Nat \ {0} /\ bounds.first \in Nat /\ bounds.first <= nextSequence
    BY DEF SimInv, SimTypes
  <1>7. /\ q \in Seq(Reports(Nat)) /\ Len(q) = n /\ Numbers(q) = nextSequence .. nextSequence + n - 1
        /\ \A i \in 1 .. n : q[i].client = s[i] /\ q[i].exid = orders[s[i]].exid
    <2> HIDE DEF R, n
    <2>1. ASSUME NEW i \in 1 .. n
          PROVE  /\ q[i] \in Reports(Nat) /\ q[i].sequence = nextSequence + i - 1
                 /\ q[i].client = s[i] /\ q[i].exid = orders[s[i]].exid
      <3>1. PICK m \in Nat : m = nextSequence + i - 1
        BY <1>1, <1>6
      <3>2. q[i] = Numbered(R(i), m)
        BY <3>1
      <3> QED BY <1>5, <3>1, <3>2, NumberedIs
    <2>2. q \in [1 .. n -> Reports(Nat)]
      BY <2>1
    <2> HIDE DEF q
    <2>3. q \in Seq(Reports(Nat)) /\ Len(q) = n /\ Numbers(q) = nextSequence .. nextSequence + n - 1
      BY <1>1, <1>6, <2>1, <2>2, NumberedInTurn
    <2> QED BY <2>1, <2>3
  <1>8. Reported(q)
    BY <1>1, <1>3, <1>7 DEF Reported
  <1> HIDE DEF q
  <1>9. x \in ThreadType /\ HeldInv(x) /\ x.held = <<>> /\ Held(x) = <<>> /\ t \in {"cli", "feed"}
    <2>1. x \in ThreadType /\ HeldInv(x) /\ x.pc \in {"idle", "match"} /\ t \in {"cli", "feed"}
      BY InvFacts DEF Threads
    <2> QED BY <2>1 DEF HeldInv, Held
  <1>10. /\ y \in ThreadType /\ y.pc = "publish" /\ y.held = q /\ y.cid = x.cid /\ y.op = x.op
    <2>1. q \in Seq(Reports(Nat \cup {None}))
      BY <1>7, NumberedAreReports
    <2> QED BY <1>9, <2>1 DEF ThreadType, ThreadSteps
  <1> HIDE DEF y
  <1>11. HeldInv(y) /\ Held(y) = q
    BY <1>7, <1>10 DEF HeldInv, Held
  <1>12. /\ thread'[t] = y
         /\ t = "cli" => thread'["feed"] = thread["feed"] /\ thread'["cli"] = y
         /\ t = "feed" => thread'["cli"] = thread["cli"] /\ thread'["feed"] = y
    BY <1>2, TwoThreads
  <1>13. CommandInv(thread["cli"])
    BY DEF SimInv, ThreadInv
  <1>14. CommandInv(thread["cli"])'
    <2>1. CASE t = "cli"
      <3>1. x.cid \in Cids /\ view[x.cid] # None /\ x.op # "none" /\ orders[x.cid] # None
        BY <1>13, <2>1 DEF CommandInv, Busy
      <3>2. orders'[x.cid] # None
        BY <1>4, <3>1 DEF IdentifiersKept
      <3> QED BY <1>2, <1>10, <1>12, <2>1, <3>1, <3>2 DEF CommandInv
    <2>2. CASE t = "feed"
      <3>1. \A c \in Cids : (orders'[c] = None) <=> (orders[c] = None)
        BY <1>4 DEF IdentifiersKept
      <3>2. Busy(thread["cli"])' = Busy(thread["cli"])
        BY <1>12, <2>2 DEF Busy
      <3> DEFINE z == thread["cli"]
      <3>3. z' = z
        BY <1>12, <2>2
      <3>4. z.pc \in {"number", "publish", "emit", "match", "ack", "locked"} => z.cid \in Cids
        BY <1>13 DEF CommandInv, Busy
      <3> HIDE DEF z
      <3>5. CommandInv(z)'
        BY <1>2, <1>13, <3>1, <3>2, <3>3, <3>4 DEF CommandInv, z
      <3> QED BY <3>5 DEF z
    <2> QED BY <1>9, <2>1, <2>2
  <1>15. BufferInv'
    <2>1. thread'["cli"].pc = thread["cli"].pc \/ (thread["cli"].pc = "match" /\ thread'["cli"].pc = "publish")
      BY <1>9, <1>10, <1>12
    <2> QED BY <1>2, <2>1 DEF SimInv, BufferInv
  <1>16. t = "cli" /\ Busy(y) => Busy(thread["cli"]) /\ y.cid = thread["cli"].cid
    BY <1>10 DEF Busy
  <1>17. Accounted(Held(thread'["cli"]), Held(thread'["feed"]), buffered', lane', seen,
                   bounds.first, nextSequence')
    <2> DEFINE hc == Held(thread["cli"])
               hf == Held(thread["feed"])
    <2>1. Accounted(hc, hf, buffered, lane, seen, bounds.first, nextSequence)
      BY InvFacts
    <2>2. hc \in Seq(Reports(Nat)) /\ hf \in Seq(Reports(Nat))
      BY InvFacts DEF Threads
    <2>3. (bounds.first .. nextSequence - 1) \cup (nextSequence .. nextSequence + n - 1) =
              bounds.first .. nextSequence' - 1
      <3> HIDE DEF n
      <3> QED BY <1>1, <1>2, <1>6
    <2>4. Numbers(<<>>) = {} /\ Len(<<>>) = 0
      BY NumbersOfShort
    <2>5. PICK lc \in Nat, lf \in Nat, b \in Nat, l \in Nat, k \in Nat :
              lc = Len(hc) /\ lf = Len(hf) /\ b = Len(buffered) /\ l = Len(lane) /\ k = Len(seen)
      <3> HIDE DEF hc, hf
      <3> QED BY <2>2, InvFacts
    <2>6. lc + lf + b + l + k = nextSequence - bounds.first
      BY <2>1, <2>5 DEF Accounted
    <2>7. PICK m \in Nat, z \in Nat, f \in Nat :
              n = m /\ nextSequence = z /\ bounds.first = f /\ nextSequence' = z + m
      BY <1>1, <1>2, <1>6
    <2>8. lc + lf + b + l + k = z - f
      BY <2>6, <2>7
    <2>9. CASE t = "cli"
      <3>1. hc = <<>> /\ Held(thread'["cli"]) = q /\ Held(thread'["feed"]) = hf
        BY <1>9, <1>11, <1>12, <2>9
      <3> HIDE DEF hc, hf, n, x, s
      <3>2. n + lf + b + l + k = nextSequence' - bounds.first
        <4>1. lc = 0
          BY <2>4, <2>5, <3>1
        <4>2. m + lf + b + l + k = (z + m) - f
          BY <2>8, <4>1
        <4> QED BY <2>7, <4>2
      <3>3. Numbers(q) \cup Numbers(hf) \cup Numbers(buffered) \cup Numbers(lane) \cup ToSet(seen) =
                bounds.first .. nextSequence' - 1
        BY <1>7, <2>1, <2>3, <2>4, <3>1 DEF Accounted
      <3>4. Accounted(q, hf, buffered, lane, seen, bounds.first, nextSequence')
        BY <1>7, <2>5, <3>2, <3>3 DEF Accounted
      <3> QED BY <1>2, <3>1, <3>4
    <2>10. CASE t = "feed"
      <3>1. hf = <<>> /\ Held(thread'["feed"]) = q /\ Held(thread'["cli"]) = hc
        BY <1>9, <1>11, <1>12, <2>10
      <3> HIDE DEF hc, hf, n, x, s
      <3>2. lc + n + b + l + k = nextSequence' - bounds.first
        <4>1. lf = 0
          BY <2>4, <2>5, <3>1
        <4>2. lc + m + b + l + k = (z + m) - f
          BY <2>8, <4>1
        <4> QED BY <2>7, <4>2
      <3>3. Numbers(hc) \cup Numbers(q) \cup Numbers(buffered) \cup Numbers(lane) \cup ToSet(seen) =
                bounds.first .. nextSequence' - 1
        BY <1>7, <2>1, <2>3, <2>4, <3>1 DEF Accounted
      <3>4. Accounted(hc, q, buffered, lane, seen, bounds.first, nextSequence')
        BY <1>7, <2>5, <3>2, <3>3 DEF Accounted
      <3> QED BY <1>2, <3>1, <3>4
    <2> QED BY <1>9, <2>9, <2>10
  <1>18. nextSequence' \in Nat /\ nextSequence' >= nextSequence
    <2> HIDE DEF n
    <2> QED BY <1>1, <1>2, <1>6
  <1>19. /\ connected' \in BOOLEAN /\ buffered' \in Seq(Reports(Nat)) /\ lane' \in Seq(Reports(Nat))
         /\ bounds' \in [calls : Nat, faults : Nat, first : Nat \ {0}]
         /\ Reported(buffered') /\ Reported(lane')
    BY <1>2, InvFacts DEF SimInv, SimTypes
  <1> HIDE DEF n, x, s, R
  <1> QED BY <1>2, <1>4, <1>8, <1>10, <1>11, <1>14, <1>15, <1>16, <1>17, <1>18, <1>19, FlowKeeps
-----------------------------------------------------------------------------
(* Restart *)

\* A bounded set of numbers has a greatest one: the least of its bounds.
LEMMA BoundedHasMax ==
    ASSUME NEW b \in Nat, NEW S \in SUBSET (0 .. b), S # {}
    PROVE  Max(S) \in S /\ \A n \in S : Max(S) >= n
  <1> DEFINE U == {u \in Nat : \A n \in S : u >= n}
  <1>1. U \in SUBSET Nat /\ U # {}
    <2>1. b \in U
      OBVIOUS
    <2> QED BY <2>1
  <1>2. PICK u \in U : \A v \in U : u <= v
    <2> DEFINE less == OpToRel(<, Nat)
    <2>1. IsWellFoundedOn(less, Nat)
      BY NatLessThanWellFounded
    <2>2. \A v, w \in Nat : v < w => <<v, w>> \in less
      BY DEF OpToRel
    <2> HIDE DEF U, less
    <2>3. PICK u \in U : \A v \in U : ~(<<v, u>> \in less)
      BY <1>1, <2>1, WFMin
    <2>4. \A v \in U : u <= v
      <3> SUFFICES ASSUME NEW v \in U PROVE u <= v
        OBVIOUS
      <3>1. u \in Nat /\ v \in Nat
        BY <1>1
      <3>2. ~(v < u)
        BY <2>2, <2>3, <3>1
      <3> QED BY <3>1, <3>2
    <2> QED BY <2>4
  <1>3. u \in S
    <2>1. SUFFICES ASSUME u \notin S PROVE FALSE
      OBVIOUS
    <2>2. PICK n \in S : TRUE
      OBVIOUS
    <2>3. n \in Nat /\ u \in Nat /\ u >= n /\ u # n
      BY <1>2, <2>1
    <2>4. u - 1 \in Nat
      BY <2>3
    <2>5. \A m \in S : u - 1 >= m
      BY <1>2, <2>1
    <2>6. u - 1 \in U
      BY <2>4, <2>5
    <2> QED BY <1>2, <2>3, <2>6
  <1>4. \A n \in S : u >= n
    BY <1>2
  <1> QED BY <1>3, <1>4, Zenon DEF Max

\* restore: past what is used, and no further.
LEMMA PastIs ==
    ASSUME NEW b \in Nat \ {0}, NEW used, used \subseteq 0 .. b - 1
    PROVE  Past(used) \in 1 .. b /\ \A n \in used : n < Past(used)
  <1> DEFINE S == {1} \cup {n + 1 : n \in used}
  <1>1. S \in SUBSET (1 .. b) /\ 1 \in S
    OBVIOUS
  <1>2. \A n \in used : n + 1 \in S /\ n \in Nat
    OBVIOUS
  <1> HIDE DEF S
  <1>3. S \in SUBSET (0 .. b) /\ S # {}
    BY <1>1
  <1>4. Max(S) \in S /\ \A n \in S : Max(S) >= n
    BY <1>3, BoundedHasMax
  <1>5. Past(used) = Max(S)
    BY DEF Past, S
  <1>6. Max(S) \in 1 .. b
    BY <1>1, <1>4
  <1> QED BY <1>2, <1>4, <1>5, <1>6

\* A restart: the simulator is rebuilt from the orders that the gateway recovered.
LEMMA RestartKeeps ==
    ASSUME SimInv, Restart
    PROVE  SimInv'
  <1> DEFINE recovered == {c \in Cids : view[c] # None /\ ~IsTerminal(view[c].status)}
             numbers == {view[c].lastSequence : c \in recovered} \ {None}
             ids == {view[c].exid : c \in recovered} \ {None}
  <1>1. /\ orders' = [c \in Cids |-> IF c \notin recovered THEN None
              ELSE [exid |-> view[c].exid, quantity |-> view[c].quantity,
                    filled |-> view[c].filled, status |-> view[c].status]]
        /\ nextSequence' = Past(numbers) /\ nextExchangeId' = Past(ids)
        /\ connected' = TRUE /\ buffered' = <<>> /\ lane' = <<>>
        /\ thread' = [t \in Threads |-> Idle] /\ tracker' = NoSequence /\ seen' = <<>>
        /\ bounds' = [bounds EXCEPT !.faults = @ + 1, !.first = nextSequence'] /\ view' = view
    BY DEF Restart
  <1>2. /\ nextSequence \in Nat \ {0} /\ nextExchangeId \in Nat \ {0}
        /\ bounds \in [calls : Nat, faults : Nat, first : Nat \ {0}]
        /\ nextExchangeId <= bounds.calls + 1 /\ bounds.calls <= MaxCalls /\ MaxCalls \in Nat
        /\ view \in [Cids -> OrderType \cup {None}]
    BY SimAssumption DEF SimInv, SimTypes
  <1>3. ASSUME NEW c \in recovered
        PROVE  /\ c \in Cids /\ view[c] \in OrderType
               /\ view[c].lastSequence # None => view[c].lastSequence \in 0 .. nextSequence - 1
               /\ view[c].exid # None => /\ view[c].exid \in 1 .. nextExchangeId - 1
                                         /\ orders[c] # None /\ view[c].exid = orders[c].exid
    <2>1. c \in Cids /\ view[c] # None /\ ~IsTerminal(view[c].status) /\ view[c] \in OrderType
      BY <1>2
    <2>2. Identified(c)
      BY <2>1 DEF SimInv, IdentityInv
    <2>3. view[c].lastSequence \in Nat \cup {None}
      BY <2>1 DEF OrderType
    <2>4. CASE orders[c] = None
      BY <2>1, <2>2, <2>4 DEF Identified
    <2>5. CASE orders[c] # None
      <3>1. /\ orders[c].exid # None => orders[c].exid \in 1 .. nextExchangeId - 1
            /\ view[c].exid \in {None, orders[c].exid}
            /\ view[c].lastSequence # None => view[c].lastSequence < nextSequence
        BY <2>2, <2>5 DEF Identified
      <3>2. view[c].lastSequence # None => view[c].lastSequence \in 0 .. nextSequence - 1
        BY <1>2, <2>3, <3>1
      <3>3. view[c].exid # None => /\ view[c].exid \in 1 .. nextExchangeId - 1
                                   /\ view[c].exid = orders[c].exid
        BY <3>1
      <3> QED BY <2>1, <2>5, <3>2, <3>3
    <2> QED BY <2>4, <2>5
  <1>4. nextSequence' \in Nat \ {0} /\ \A n \in numbers : n < nextSequence'
    <2>1. numbers \subseteq 0 .. nextSequence - 1
      BY <1>3
    <2> HIDE DEF numbers
    <2>2. Past(numbers) \in 1 .. nextSequence /\ \A n \in numbers : n < Past(numbers)
      BY <1>2, <2>1, PastIs
    <2> QED BY <1>1, <1>2, <2>2
  <1>5. nextExchangeId' \in 1 .. nextExchangeId /\ \A n \in ids : n < nextExchangeId' /\ n \in Nat \ {0}
    <2>1. ids \subseteq 1 .. nextExchangeId - 1
      BY <1>3
    <2> HIDE DEF ids
    <2>2. ids \subseteq 0 .. nextExchangeId - 1
      BY <2>1
    <2>3. Past(ids) \in 1 .. nextExchangeId /\ \A n \in ids : n < Past(ids)
      BY <1>2, <2>2, PastIs
    <2> QED BY <1>1, <1>2, <2>1, <2>3
  <1>6. \A c \in recovered :
            /\ view[c].lastSequence # None => view[c].lastSequence < nextSequence'
            /\ view[c].exid # None => view[c].exid \in 1 .. nextExchangeId' - 1
    <2> SUFFICES ASSUME NEW c \in recovered
                 PROVE  /\ view[c].lastSequence # None => view[c].lastSequence < nextSequence'
                        /\ view[c].exid # None => view[c].exid \in 1 .. nextExchangeId' - 1
      OBVIOUS
    <2>1. /\ view[c].lastSequence # None => view[c].lastSequence \in numbers
          /\ view[c].exid # None => view[c].exid \in ids
      OBVIOUS
    <2> HIDE DEF numbers, ids, recovered
    <2>2. nextExchangeId' \in Nat
      BY <1>2, <1>5
    <2> QED BY <1>4, <1>5, <2>1, <2>2
  <1> HIDE DEF numbers, ids
  <1>7. \A c \in Cids :
            /\ c \notin recovered => orders'[c] = None
            /\ c \in recovered => /\ orders'[c] # None /\ orders'[c] \in SimOrderType
                                  /\ orders'[c].exid = view[c].exid
    <2>1. SUFFICES ASSUME NEW c \in Cids
                   PROVE  /\ c \notin recovered => orders'[c] = None
                          /\ c \in recovered => /\ orders'[c] # None /\ orders'[c] \in SimOrderType
                                                /\ orders'[c].exid = view[c].exid
      OBVIOUS
    <2>2. CASE c \notin recovered
      BY <1>1, <2>2
    <2>3. CASE c \in recovered
      <3> DEFINE o == [exid |-> view[c].exid, quantity |-> view[c].quantity,
                       filled |-> view[c].filled, status |-> view[c].status]
      <3>1. orders'[c] = o
        BY <1>1, <2>3
      <3>2. view[c] \in OrderType /\ ~IsTerminal(view[c].status)
        BY <1>3, <2>3
      <3>3. view[c].status \in SimStatuses
        BY <3>2 DEF OrderType, Statuses, SimStatuses, IsTerminal
      <3>4. o \in SimOrderType /\ o.exid = view[c].exid
        BY <3>2, <3>3 DEF OrderType, SimOrderType
      <3> HIDE DEF o
      <3> QED BY <2>3, <3>1, <3>4, SimAssumption
    <2> QED BY <2>2, <2>3
  <1>8. bounds' \in [calls : Nat, faults : Nat, first : Nat \ {0}] /\ bounds'.first = nextSequence'
        /\ bounds'.calls = bounds.calls
    <2>1. PICK k \in Nat \ {0} : k = nextSequence'
      BY <1>4
    <2>2. PICK f \in Nat : f = bounds.faults + 1
      BY <1>2
    <2>3. bounds' = [bounds EXCEPT !.faults = f, !.first = k]
      BY <1>1, <2>1, <2>2
    <2> QED BY <1>2, <2>1, <2>3
  <1>9. thread' \in [Threads -> ThreadType] /\ thread'["cli"] = Idle /\ thread'["feed"] = Idle
    BY <1>1, IdleIs DEF Threads
  <1>10. <<>> \in Seq(Reports(Nat)) /\ <<>> \in Seq(Nat)
    OBVIOUS
  <1>11. tracker' \in [last : Nat \cup {None}, gap : BOOLEAN] /\ tracker'.last = None
    BY <1>1 DEF NoSequence
  <1>12. orders' \in [Cids -> SimOrderType \cup {None}]
    <2>1. orders' = [c \in Cids |-> orders'[c]]
      BY <1>1
    <2> QED BY <1>7, <2>1
  <1>13. SimTypes'
    <2>1. nextExchangeId' \in Nat \ {0} /\ nextExchangeId' <= bounds'.calls + 1 /\ bounds'.calls <= MaxCalls
      BY <1>2, <1>5, <1>8
    <2>2. bounds'.first <= nextSequence'
      BY <1>4, <1>8
    <2> QED BY <1>1, <1>2, <1>4, <1>8, <1>9, <1>10, <1>11, <1>12, <2>1, <2>2 DEF SimTypes
  <1>14. ThreadInv'
    <2>1. CommandInv(thread["cli"])'
      BY <1>9, IdleIs DEF CommandInv
    <2> QED BY <1>9, <2>1, IdleIs DEF ThreadInv
  <1>15. BufferInv'
    BY <1>1, <1>9, IdleIs DEF BufferInv
  <1>16. ReportsConserved'
    <2>1. Numbers(<<>>) = {} /\ Len(<<>>) = 0 /\ ToSet(<<>>) = {}
      BY NumbersOfShort DEF ToSet
    <2>2. nextSequence' .. nextSequence' - 1 = {} /\ nextSequence' - nextSequence' = 0
      <3>1. PICK k \in Nat : k = nextSequence'
        BY <1>4
      <3>2. k .. k - 1 = {} /\ k - k = 0
        OBVIOUS
      <3> QED BY <3>1, <3>2
    <2>3. Accounted(<<>>, <<>>, <<>>, <<>>, <<>>, nextSequence', nextSequence')
      BY <2>1, <2>2 DEF Accounted
    <2>4. Accounted(Held(thread'["cli"]), Held(thread'["feed"]), buffered', lane', seen',
                    bounds'.first, nextSequence')
      BY <1>1, <1>8, <1>9, <2>3, IdleIs
    <2> QED BY <1>13, <1>14, <2>4, ConservedNext
  <1>17. TrackerInv'
    BY <1>1, <1>11 DEF TrackerInv, GapIsFlagged
  <1>18. IdentityInv'
    <2>1. Reported(thread["cli"].held)' /\ Reported(thread["feed"].held)'
          /\ Reported(buffered)' /\ Reported(lane)'
      <3>1. 1 .. Len(<<>>) = {}
        OBVIOUS
      <3>2. thread'["cli"].held = <<>> /\ thread'["feed"].held = <<>>
        BY <1>9, IdleIs
      <3> QED BY <1>1, <3>1, <3>2 DEF Reported
    <2>2. ASSUME NEW c \in Cids PROVE Identified(c)'
      <3>1. CASE c \in recovered
        <4>1. view[c] # None
          BY <3>1
        <4> HIDE DEF recovered
        <4> QED BY <1>1, <1>6, <1>7, <3>1, <4>1 DEF Identified
      <3>2. CASE c \notin recovered
        <4>1. view'[c] # None => IsTerminal(view'[c].status)
          BY <1>1, <3>2
        <4>2. orders'[c] = None /\ ~Busy(thread'["cli"])
          BY <1>7, <1>9, <3>2, IdleIs
        <4> QED BY <4>1, <4>2 DEF Identified, Busy
      <3> QED BY <3>1, <3>2
    <2>3. Distinct'
      <3>1. SUFFICES ASSUME NEW c \in Cids, NEW d \in Cids, c # d, orders'[c] # None, orders'[d] # None,
                            orders'[c].exid # None
                     PROVE  orders'[c].exid # orders'[d].exid
        BY DEF Distinct
      <3>2. c \in recovered /\ d \in recovered
        BY <1>7, <3>1
      <3>3. orders'[c].exid = view[c].exid /\ orders'[d].exid = view[d].exid
        BY <1>7, <3>2
      <3> HIDE DEF recovered
      <3>4. orders[c] # None /\ view[c].exid = orders[c].exid
        BY <1>3, <3>1, <3>2, <3>3
      <3>5. view[d].exid # None => orders[d] # None /\ view[d].exid = orders[d].exid
        BY <1>3, <3>2
      <3> QED BY <3>1, <3>3, <3>4, <3>5 DEF SimInv, IdentityInv, Distinct
    <2> QED BY <2>1, <2>2, <2>3, SMTT(30) DEF IdentityInv
  <1> QED BY <1>13, <1>14, <1>15, <1>16, <1>17, <1>18 DEF SimInv

\* SimInv is inductive.
LEMMA InitSimInv == SimInit => SimInv
  <1> SUFFICES ASSUME SimInit PROVE SimInv
    OBVIOUS
  <1>1. <<>> \in Seq(Reports(Nat)) /\ <<>> \in Seq(Nat)
    OBVIOUS
  <1>2. /\ thread \in [Threads -> ThreadType] /\ thread["cli"] = Idle /\ thread["feed"] = Idle
        /\ \A c \in Cids : orders[c] = None /\ view[c] = None
    BY IdleIs DEF SimInit, Threads
  <1>3. SimTypes
    <2>1. /\ bounds \in [calls : Nat, faults : Nat, first : Nat \ {0}]
          /\ bounds.first <= nextSequence /\ nextExchangeId <= bounds.calls + 1
          /\ bounds.calls <= MaxCalls
      BY SimAssumption DEF SimInit
    <2>2. tracker \in [last : Nat \cup {None}, gap : BOOLEAN]
      BY DEF SimInit, NoSequence
    <2> QED BY <1>1, <1>2, <2>1, <2>2 DEF SimInit, SimTypes
  <1>4. ThreadInv
    BY <1>2, IdleIs DEF ThreadInv, CommandInv
  <1>5. BufferInv
    BY <1>2, IdleIs DEF SimInit, BufferInv
  <1>6. ReportsConserved
    <2>1. Numbers(<<>>) = {} /\ Len(<<>>) = 0 /\ ToSet(<<>>) = {} /\ 1 .. 1 - 1 = {}
      BY NumbersOfShort DEF ToSet
    <2>2. bounds.first = 1 /\ nextSequence = 1
      BY DEF SimInit
    <2>3. Accounted(<<>>, <<>>, <<>>, <<>>, <<>>, 1, 1)
      BY <2>1 DEF Accounted
    <2> QED BY <1>2, <1>3, <1>4, <2>2, <2>3, ConservedNow, IdleIs DEF SimInit
  <1>7. TrackerInv
    BY DEF SimInit, NoSequence, TrackerInv, GapIsFlagged
  <1>8. IdentityInv
    BY <1>2, IdleIs DEF SimInit, IdentityInv, Reported, Identified, Distinct
  <1> QED BY <1>3, <1>4, <1>5, <1>6, <1>7, <1>8 DEF SimInv
-----------------------------------------------------------------------------
LEMMA StutterSimInv ==
    ASSUME SimInv, UNCHANGED simVars PROVE SimInv'
  <1>1. SimTypes' /\ ThreadInv' /\ BufferInv'
    BY DEF SimInv, simVars, SimTypes, ThreadInv, CommandInv, Busy, BufferInv
  <1>2. ReportsConserved'
    BY <1>1, ConservedKept DEF simVars
  <1>3. TrackerInv'
    BY TrackerKept DEF SimInv, simVars
  <1>4. IdentityInv'
    BY DEF SimInv, simVars, IdentityInv, Reported, Identified, Distinct
  <1> QED BY <1>1, <1>2, <1>3, <1>4 DEF SimInv

LEMMA NextSimInv == SimInv /\ [SimNext]_simVars => SimInv'
  <1> SUFFICES ASSUME SimInv, [SimNext]_simVars PROVE SimInv'
    OBVIOUS
  <1>1. CASE UNCHANGED simVars
    BY <1>1, StutterSimInv
  <1>2. ASSUME NEW c \in Cids, NEW q \in SimQuantities, PlaceBegin(c, q) \/ AmendBegin(c, q) PROVE SimInv'
    BY <1>2, CommandBegins
  <1>3. ASSUME NEW c \in Cids, CancelBegin(c) PROVE SimInv'
    BY <1>3, CancelKeeps
  <1>4. ASSUME NEW c \in Cids, Open(c), NEW n \in 1 .. orders[c].quantity - 1, EmitLocked(c, n) PROVE SimInv'
    BY <1>4, EmitKeepsInv
  <1>5. CASE RateLimited \/ PlaceLocked \/ CancelLocked \/ AmendLocked
    BY <1>5, LockedSteps
  <1>6. CASE Acked \/ Rejected \/ Uncertain
    BY <1>6, AnswersKeep
  <1>7. CASE CommandMatches \/ FeedMatches
    <2>1. PICK t \in Threads, reached \in SUBSET Cids :
              /\ Match(t, reached)
              /\ t = "feed" => thread["feed"].pc = "idle"
              /\ t = "cli" => thread["cli"].pc = "match"
      <3>1. CASE CommandMatches
        <4>1. PICK reached \in SUBSET Cids : Match("cli", reached)
          BY <3>1 DEF CommandMatches
        <4>2. thread["cli"].pc = "match" /\ "cli" \in Threads
          BY <3>1 DEF CommandMatches, Threads
        <4> QED BY <4>1, <4>2
      <3>2. CASE FeedMatches
        <4>1. PICK reached \in SUBSET Cids : Match("feed", reached)
          BY <3>2 DEF FeedMatches
        <4>2. thread["feed"].pc = "idle" /\ "feed" \in Threads
          BY <3>2 DEF FeedMatches, Threads
        <4> QED BY <4>1, <4>2
      <3> QED BY <1>7, <3>1, <3>2
    <2> QED BY <2>1, MatchKeeps
  <1>8. CASE DeliverBuffered \/ Disconnect \/ Reconnect
    BY <1>8, ConnectionKeeps
  <1>9. ASSUME NEW t \in Threads, Number(t) \/ PublishOrBuffer(t) \/ EmitReport(t) PROVE SimInv'
    BY <1>9, NumberKeeps, PublishKeeps
  <1>10. CASE Restart
    BY <1>10, RestartKeeps
  <1>11. CASE LaneApply
    BY <1>11, LaneKeeps
  <1>12. CASE SimNext
    BY <1>2, <1>3, <1>4, <1>5, <1>6, <1>7, <1>8, <1>9, <1>10, <1>11, <1>12 DEF SimNext, Command, Work
  <1> QED BY <1>1, <1>12

\* However commands, quotes, disconnections and restarts interleave, every number the simulator
\* gives out is on its way exactly once; none is stranded in the buffer, a jump is flagged, and
\* after a restart numbers and identifiers begin past what the recovered orders show.
THEOREM ReportsAreAccountedFor == SimSpec => []ReportsAccountedFor
  <1>1. SimInv => ReportsAccountedFor
    <2> SUFFICES ASSUME SimInv PROVE ReportsAccountedFor
      OBVIOUS
    <2>1. SimTypeOK
      BY DEF SimInv, SimTypes, SimTypeOK, ThreadType
    <2>2. NothingStranded
      BY DEF SimInv, BufferInv, NothingStranded, Quiet, Threads
    <2>3. RestoreMovesOn
      BY DEF SimInv, IdentityInv, Identified, Distinct, RestoreMovesOn, Open
    <2> QED BY <2>1, <2>2, <2>3 DEF SimInv, TrackerInv, ReportsAccountedFor
  <1> QED BY <1>1, InitSimInv, NextSimInv, PTL DEF SimSpec
-----------------------------------------------------------------------------
(***************************************************************************)
(* The gateway shows the fills and the end of every order of the simulator *)
(* once all reports are applied.  An order is seen together with the       *)
(* reports of it that are on their way: w, of them off are not yet in the  *)
(* lane, and ahead holds the pairs of which one is applied first.          *)
(***************************************************************************)
FillsUp(r) == r.cumulative = r.quantity
Places(c, q) == {i \in 1 .. Len(q) : q[i].client = c}
Of(c, q) == {q[i] : i \in Places(c, q)}
Ahead(c, q, off) ==
    {p \in Of(c, q) \X Of(c, q) : \E i, j \in Places(c, q) : i < j /\ p = <<q[i], q[j]>>}
        \cup (Of(c, q) \X off)

\* The simulator has filled all that an amendment left, and calls the order open.
Squeezed(o) == ~IsTerminal(o.status) /\ o.filled = o.quantity
FullAhead(r, ahead) == \E a : <<a, r>> \in ahead /\ FillsUp(a)

\* Reports tell what the simulator had; the last fill is known or on its way.
Fills(o, v, w) ==
    /\ v.filled <= o.filled /\ o.filled <= o.quantity
    /\ \A r \in w : /\ r.cumulative <= r.quantity /\ r.cumulative <= o.filled
                    /\ FillsUp(r) => r.quantity = o.quantity
    /\ v.filled = o.filled \/ \E r \in w : r.cumulative = o.filled
\* Reports with the old quantity are in the lane, ahead of those with the new one.
Terms(o, v, w, off, ahead) ==
    /\ \A r \in off : r.quantity = o.quantity
    /\ \A r \in w, s \in w : <<r, s>> \in ahead /\ r.quantity = o.quantity => s.quantity = o.quantity
    /\ v.status = "Filled" => v.filled = o.quantity /\ \A r \in w : r.quantity = o.quantity
\* No report has a quantity that the fills applied before it have reached.
Room(v, w, ahead) ==
    v.status # "Filled" => \A r \in w :
        \/ FillsUp(r) \/ FullAhead(r, ahead)
        \/ v.filled < r.quantity /\ \A a \in w : <<a, r>> \in ahead => a.cumulative < r.quantity
\* The report of the cancellation is the last one, and is not stale when it is applied.
LastOf(r, v, w) ==
    r.sequence # None =>
        /\ v.lastSequence # None => v.lastSequence < r.sequence
        /\ \A s \in w : s = r \/ (s.sequence # None /\ s.sequence < r.sequence)
Ends(o, v, w) ==
    /\ o.status = "Filled" => o.filled = o.quantity /\ (v.status = "Filled" \/ \E r \in w : FillsUp(r))
    /\ o.status = "Canceled" =>
        /\ o.filled < o.quantity
        /\ \/ v.status = "Canceled"
           \/ v.pending = "Cancel" /\ \E r \in w : r.status = "Canceled" /\ LastOf(r, v, w)
    /\ v.status = "Canceled" \/ (\E r \in w : r.status = "Canceled") => o.status = "Canceled"
    /\ v.status # "Rejected"
\* The amendment that left nothing open is not settled before the report that fills the order up.
Squeeze(o, v, w, ahead) ==
    Squeezed(o) /\ v.status # "Filled" =>
        /\ v.pending = "Amend" /\ v.pendingQuantity = o.quantity
        /\ \A r \in w : r.quantity = o.quantity => FillsUp(r) \/ FullAhead(r, ahead)
\* What the gateway awaits.
Awaits(o, v, w) ==
    ~IsTerminal(v.status) =>
        /\ v.pending # "Amend" => o.quantity = v.quantity
        /\ v.pending = "Amend" => /\ v.pendingQuantity # None /\ v.quantity # v.pendingQuantity
                                  /\ o.quantity \in {v.quantity, v.pendingQuantity}
        /\ o.quantity = v.quantity => \A r \in w : r.quantity = o.quantity
Converging(o, v, w, off, ahead) ==
    /\ Fills(o, v, w) /\ Terms(o, v, w, off, ahead) /\ Room(v, w, ahead) /\ Ends(o, v, w)
    /\ Squeeze(o, v, w, ahead) /\ Awaits(o, v, w)

\* The types of an order and its reports, as far as the argument needs them.
Typed(o, v, w, off) ==
    /\ o.filled \in Nat /\ o.quantity \in Nat
    /\ v.filled \in Nat /\ v.quantity \in Nat /\ v.lastSequence \in Nat \cup {None}
    /\ v.status \in Statuses
    /\ off \subseteq w
    /\ \A r \in w : /\ r.cumulative \in Nat /\ r.quantity \in Nat
                    /\ r.sequence \in Nat \cup {None}

\* Reports reach the lane.
LEMMA ConvergingMoved ==
    ASSUME NEW o, NEW v, NEW w, NEW off, NEW ahead, Typed(o, v, w, off),
           Converging(o, v, w, off, ahead), NEW off2 \in SUBSET off, NEW ahead2,
           ahead \subseteq ahead2, ahead2 \subseteq ahead \cup (off \X off)
    PROVE  Converging(o, v, w, off2, ahead2)
  <1>1. Terms(o, v, w, off2, ahead2)
    BY DEF Typed, Converging, Terms
  <1>2. \A r : FullAhead(r, ahead) => FullAhead(r, ahead2)
    BY DEF FullAhead
  <1>3. Room(v, w, ahead2)
    <2> SUFFICES ASSUME v.status # "Filled", NEW r \in w, ~FillsUp(r), ~FullAhead(r, ahead2)
                 PROVE  v.filled < r.quantity /\ \A a \in w : <<a, r>> \in ahead2 => a.cumulative < r.quantity
      BY DEF Room
    <2>1. v.filled < r.quantity /\ \A a \in w : <<a, r>> \in ahead => a.cumulative < r.quantity
      BY <1>2 DEF Converging, Room
    <2>2. ASSUME NEW a \in w, <<a, r>> \in ahead2 PROVE a.cumulative < r.quantity
      <3>1. CASE <<a, r>> \in ahead
        BY <2>1, <3>1
      <3>2. CASE <<a, r>> \notin ahead
        <4>1. a \in off /\ r \in off
          BY <2>2, <3>2
        <4>2. a.quantity = r.quantity
          BY <4>1 DEF Converging, Terms
        <4>3. ~FillsUp(a) /\ a.cumulative <= a.quantity
          BY <2>2 DEF FullAhead, Converging, Fills
        <4> QED BY <4>2, <4>3 DEF FillsUp, Typed
      <3> QED BY <3>1, <3>2
    <2> QED BY <2>1, <2>2
  <1>4. Squeeze(o, v, w, ahead2)
    BY <1>2 DEF Converging, Squeeze
  <1> QED BY <1>1, <1>3, <1>4 DEF Converging

\* A report gets its number.
LEMMA ConvergingNumbered ==
    ASSUME NEW o, NEW v, NEW l, NEW off, NEW pairs \in SUBSET (l \X l), Typed(o, v, l \cup off, off),
           Converging(o, v, l \cup off, off, pairs \cup (l \X off)), NEW n \in Nat,
           NEW r \in off, r.sequence = None, NEW z,
           z.sequence = n /\ z.cumulative = r.cumulative /\ z.quantity = r.quantity /\ z.status = r.status,
           v.lastSequence # None => v.lastSequence < n,
           \A s \in l \cup off : s = r \/ (s.sequence # None /\ s.sequence < n),
           r \notin l, NEW off2, off2 = (off \ {r}) \cup {z}
    PROVE  Converging(o, v, l \cup off2, off2, pairs \cup (l \X off2))
  <1> DEFINE w == l \cup off
             w2 == l \cup off2
             ahead == pairs \cup (l \X off)
             ahead2 == pairs \cup (l \X off2)
  <1>a. /\ Typed(o, v, w, off) /\ Converging(o, v, w, off, ahead) /\ r \in w
        /\ \A s \in w : s = r \/ (s.sequence # None /\ s.sequence < n)
    OBVIOUS
  <1>b. z \notin w
    BY <1>a, NoneAssumption DEF Typed
  <1>c. /\ \A s : s \in w2 <=> (s = z \/ (s \in w /\ s # r))
        /\ \A s : s \in off2 <=> (s = z \/ (s \in off /\ s # r))
    BY <1>b
  <1>d. /\ \A s : <<s, r>> \in ahead => s # r /\ s # z
        /\ \A s, t : s # r /\ t # r /\ s # z /\ t # z => (<<s, t>> \in ahead <=> <<s, t>> \in ahead2)
        /\ \A s : s # r /\ s # z => (<<s, r>> \in ahead <=> <<s, z>> \in ahead2)
        /\ \A s : <<z, s>> \notin ahead2 /\ <<r, s>> \notin ahead2 /\ <<r, s>> \notin ahead /\ <<z, s>> \notin ahead
    BY <1>b
  <1> HIDE DEF w, w2, ahead, ahead2
  <1>1. Fills(o, v, w2)
    BY <1>a, <1>b, <1>c, <1>d DEF Typed, Converging, Fills, FillsUp
  <1>2. Terms(o, v, w2, off2, ahead2)
    BY <1>a, <1>b, <1>c, <1>d DEF Typed, Converging, Terms
  <1>3. /\ \A s : s # r /\ s # z => (FullAhead(s, ahead) <=> FullAhead(s, ahead2))
        /\ FullAhead(r, ahead) <=> FullAhead(z, ahead2)
        /\ FillsUp(r) <=> FillsUp(z)
    BY <1>a, <1>b, <1>c, <1>d DEF FullAhead, FillsUp
  <1>4. Room(v, w2, ahead2)
    <2> SUFFICES ASSUME v.status # "Filled", NEW s \in w2, ~FillsUp(s), ~FullAhead(s, ahead2)
                 PROVE  v.filled < s.quantity /\ \A a \in w2 : <<a, s>> \in ahead2 => a.cumulative < s.quantity
      BY DEF Room
    <2>1. CASE s = z
      BY <1>a, <1>b, <1>c, <1>d, <1>3, <2>1 DEF Converging, Room, Typed
    <2>2. CASE s # z
      BY <1>a, <1>b, <1>c, <1>d, <1>3, <2>2 DEF Converging, Room, Typed
    <2> QED BY <2>1, <2>2
  <1>5. Squeeze(o, v, w2, ahead2)
    BY <1>a, <1>b, <1>c, <1>d, <1>3 DEF Converging, Squeeze, Typed
  <1>6. Awaits(o, v, w2)
    BY <1>a, <1>c DEF Converging, Awaits, Typed
  <1>7. Ends(o, v, w2)
    <2>1. (\E s \in w : FillsUp(s)) => \E s \in w2 : FillsUp(s)
      BY <1>a, <1>c, <1>3 DEF Typed
    <2>2. ASSUME NEW s \in w, s.status = "Canceled", LastOf(s, v, w)
          PROVE  \E t \in w2 : t.status = "Canceled" /\ LastOf(t, v, w2)
      <3>1. CASE s = r
        <4>1. LastOf(z, v, w2)
          BY <1>a, <1>c, NoneAssumption DEF LastOf, Typed
        <4> QED BY <1>c, <2>2, <3>1, <4>1
      <3>2. CASE s # r
        \* every report but the new one had a number, the last one too
        <4>1. FALSE
          BY <1>a, <2>2, <3>2 DEF LastOf, Typed
        <4> QED BY <4>1
      <3> QED BY <3>1, <3>2
    <2>3. (\E s \in w2 : s.status = "Canceled") => \E s \in w : s.status = "Canceled"
      BY <1>a, <1>c DEF Typed
    <2> QED BY <1>a, <2>1, <2>2, <2>3 DEF Converging, Ends
  <1>8. Converging(o, v, w2, off2, ahead2)
    BY <1>1, <1>2, <1>4, <1>5, <1>6, <1>7 DEF Converging
  <1> QED BY <1>8 DEF w2, ahead2
-----------------------------------------------------------------------------
\* A report is made: behind all that is in the lane.
Joined(w, off, ahead, r, w2, off2, ahead2) ==
    /\ w2 = w \cup {r} /\ off2 = off \cup {r} /\ off \subseteq w
    /\ ahead \subseteq w \X w /\ ahead \subseteq ahead2 /\ ahead2 \subseteq ahead \cup (w \X {r})

\* A quote fills the order.
LEMMA ConvergingFilled ==
    ASSUME NEW o, NEW v, NEW w, NEW off, NEW ahead, Typed(o, v, w, off),
           Converging(o, v, w, off, ahead), ~IsTerminal(o.status),
           NEW r, NEW w2, NEW off2, NEW ahead2, Joined(w, off, ahead, r, w2, off2, ahead2),
           r.cumulative = o.quantity /\ r.quantity = o.quantity /\ r.status = "Filled",
           NEW o2, o2.quantity = o.quantity /\ o2.filled = o.quantity /\ o2.status = "Filled"
    PROVE  Converging(o2, v, w2, off2, ahead2)
  <1>1. Fills(o2, v, w2)
    BY DEF Typed, Converging, Fills, FillsUp, Joined
  <1>2. Terms(o2, v, w2, off2, ahead2)
    BY DEF Typed, Converging, Terms, Joined
  <1>3. FillsUp(r) /\ \A s : FullAhead(s, ahead) => FullAhead(s, ahead2)
    BY DEF FillsUp, FullAhead, Joined
  <1>4. Room(v, w2, ahead2)
    BY <1>3 DEF Typed, Converging, Room, Joined, FullAhead
  <1>5. Ends(o2, v, w2)
    BY <1>3 DEF Typed, Converging, Ends, Joined, IsTerminal
  <1>6. Squeeze(o2, v, w2, ahead2)
    BY DEF Squeeze, Squeezed, IsTerminal
  <1>7. Awaits(o2, v, w2)
    BY DEF Typed, Converging, Awaits, Joined
  <1> QED BY <1>1, <1>2, <1>4, <1>5, <1>6, <1>7 DEF Converging

\* An amendment changes the quantity, to no less than what is filled.
LEMMA ConvergingAmended ==
    ASSUME NEW o, NEW v, NEW w, NEW off, NEW ahead, Typed(o, v, w, off),
           Converging(o, v, w, off, ahead), ~IsTerminal(o.status), ~Squeezed(o), off = {},
           ~IsTerminal(v.status), v.pending = "Amend", o.quantity = v.quantity,
           NEW r, NEW w2, NEW off2, NEW ahead2, Joined(w, off, ahead, r, w2, off2, ahead2),
           NEW o2, o2.quantity = v.pendingQuantity /\ o2.filled = o.filled /\ o2.status = o.status,
           o2.quantity \in Nat, o.filled <= o2.quantity,
           r.cumulative = o2.filled /\ r.quantity = o2.quantity /\ r.status = o2.status
    PROVE  Converging(o2, v, w2, off2, ahead2)
  <1>1. /\ o.filled < o.quantity /\ o2.quantity # o.quantity
        /\ \A s \in w : s.quantity = o.quantity /\ s.cumulative < o.quantity /\ ~FillsUp(s)
    BY DEF Typed, Converging, Fills, FillsUp, Squeezed, Awaits
  <1>2. Fills(o2, v, w2)
    BY <1>1 DEF Typed, Converging, Fills, FillsUp, Joined
  <1>3. Terms(o2, v, w2, off2, ahead2)
    BY <1>1 DEF Typed, Converging, Terms, Joined, IsTerminal
  <1>4. \A s : FullAhead(s, ahead) => FullAhead(s, ahead2)
    BY DEF FullAhead, Joined
  <1>5. Room(v, w2, ahead2)
    <2>1. v.filled <= o.filled /\ \A s \in w : s.cumulative <= o.filled
      BY DEF Converging, Fills
    <2>2. FillsUp(r) \/ (v.filled < r.quantity /\ \A a \in w2 : <<a, r>> \in ahead2 => a.cumulative < r.quantity)
      BY <2>1 DEF FillsUp, Typed, Joined
    <2>3. ASSUME NEW s \in w, s # r, v.status # "Filled"
          PROVE  FullAhead(s, ahead2) \/ (v.filled < s.quantity /\ \A a \in w2 : <<a, s>> \in ahead2 => a.cumulative < s.quantity)
      <3>1. \A a : <<a, s>> \in ahead2 => <<a, s>> \in ahead
        BY <2>3 DEF Joined
      <3>2. ~FillsUp(s)
        BY <1>1
      <3>3. \A a \in w : a.cumulative < s.quantity
        BY <1>1
      <3>4. v.filled < s.quantity
        BY <1>1, <2>1 DEF Typed
      <3>5. ASSUME NEW a \in w2, <<a, s>> \in ahead2 PROVE a.cumulative < s.quantity
        BY <1>1, <3>5 DEF Joined, Typed
      <3> QED BY <3>4, <3>5
    <2> QED BY <2>2, <2>3 DEF Room, Joined
  <1>6. Ends(o2, v, w2)
    BY DEF Typed, Converging, Ends, Joined, IsTerminal
  <1>7. Squeeze(o2, v, w2, ahead2)
    BY <1>1 DEF Squeeze, Squeezed, Joined, FillsUp
  <1>8. Awaits(o2, v, w2)
    BY <1>1 DEF Typed, Converging, Awaits, Joined
  <1> QED BY <1>2, <1>3, <1>5, <1>6, <1>7, <1>8 DEF Converging

\* The order is canceled.
LEMMA ConvergingCanceled ==
    ASSUME NEW o, NEW v, NEW w, NEW off, NEW ahead, Typed(o, v, w, off),
           Converging(o, v, w, off, ahead), ~IsTerminal(o.status), ~Squeezed(o),
           ~IsTerminal(v.status), v.pending = "Cancel",
           NEW r, NEW w2, NEW off2, NEW ahead2, Joined(w, off, ahead, r, w2, off2, ahead2),
           NEW o2, o2.quantity = o.quantity /\ o2.filled = o.filled /\ o2.status = "Canceled",
           r.cumulative = o2.filled /\ r.quantity = o2.quantity /\ r.status = o2.status,
           r.sequence = None
    PROVE  Converging(o2, v, w2, off2, ahead2)
  <1>1. /\ o.filled < o.quantity
        /\ \A s \in w : s.quantity = o.quantity /\ s.cumulative < o.quantity /\ ~FillsUp(s)
    BY DEF Typed, Converging, Fills, FillsUp, Squeezed, Awaits
  <1>2. Fills(o2, v, w2)
    BY <1>1 DEF Typed, Converging, Fills, FillsUp, Joined
  <1>3. Terms(o2, v, w2, off2, ahead2)
    BY <1>1 DEF Typed, Converging, Terms, Joined, IsTerminal
  <1>4. Room(v, w2, ahead2)
    <2>1. v.filled < o.quantity
      BY <1>1 DEF Converging, Fills, Typed
    <2>2. \A s \in w2 : s.quantity = o.quantity /\ s.cumulative < o.quantity
      BY <1>1 DEF Joined
    <2> QED BY <2>1, <2>2 DEF Room
  <1>5. Ends(o2, v, w2)
    <2>1. LastOf(r, v, w2) /\ r \in w2
      BY DEF LastOf, Joined
    <2> QED BY <1>1, <2>1 DEF Ends, Converging, IsTerminal
  <1>6. Squeeze(o2, v, w2, ahead2)
    BY DEF Squeeze, Squeezed, IsTerminal
  <1>7. Awaits(o2, v, w2)
    BY <1>1 DEF Typed, Converging, Awaits, Joined
  <1> QED BY <1>2, <1>3, <1>4, <1>5, <1>6, <1>7 DEF Converging

\* A partial fill is simulated.
LEMMA ConvergingEmitted ==
    ASSUME NEW o, NEW v, NEW w, NEW off, NEW ahead, Typed(o, v, w, off),
           Converging(o, v, w, off, ahead), ~IsTerminal(o.status),
           NEW r, NEW w2, NEW off2, NEW ahead2, Joined(w, off, ahead, r, w2, off2, ahead2),
           Squeezed(o) /\ v.status # "Filled" => FullAhead(r, ahead2),
           NEW n \in Nat, n < o.quantity,
           NEW o2, o2.quantity = o.quantity, o2.filled = (IF n > o.filled THEN n ELSE o.filled),
           o2.status = "PartiallyFilled",
           r.cumulative = n /\ r.quantity = o.quantity /\ r.status = "PartiallyFilled"
    PROVE  Converging(o2, v, w2, off2, ahead2)
  <1>1. /\ o2.filled \in Nat /\ o.filled <= o2.filled /\ n <= o2.filled /\ o2.filled <= o.quantity
        /\ o2.filled = o.filled \/ o2.filled = n
    BY DEF Typed, Converging, Fills
  <1>2. Fills(o2, v, w2)
    <2>1. \A s \in w2 : /\ s.cumulative <= s.quantity /\ s.cumulative <= o2.filled
                        /\ FillsUp(s) => s.quantity = o2.quantity
      BY <1>1 DEF Typed, Converging, Fills, FillsUp, Joined
    <2>2. v.filled <= o2.filled
      BY <1>1 DEF Typed, Converging, Fills
    <2>3. v.filled = o2.filled \/ \E s \in w2 : s.cumulative = o2.filled
      BY <1>1 DEF Converging, Fills, Joined
    <2> QED BY <1>1, <2>1, <2>2, <2>3 DEF Fills
  <1>3. Terms(o2, v, w2, off2, ahead2)
    BY <1>1 DEF Typed, Converging, Terms, Joined
  <1>4. \A s : FullAhead(s, ahead) => FullAhead(s, ahead2)
    BY DEF FullAhead, Joined
  <1>5. Room(v, w2, ahead2)
    <2> SUFFICES ASSUME v.status # "Filled", NEW s \in w2, ~FillsUp(s), ~FullAhead(s, ahead2)
                 PROVE  v.filled < s.quantity /\ \A a \in w2 : <<a, s>> \in ahead2 => a.cumulative < s.quantity
      BY DEF Room
    <2>1. CASE s = r
      <3>1. o.filled < o.quantity
        BY <2>1 DEF Squeezed, Converging, Fills, Typed
      <3>2. v.filled < o.quantity /\ \A a \in w2 : a.cumulative < o.quantity
        BY <3>1 DEF Converging, Fills, Typed, Joined
      <3> QED BY <2>1, <3>2
    <2>2. CASE s # r
      <3>1. s \in w /\ ~FullAhead(s, ahead) /\ \A a : <<a, s>> \in ahead2 => <<a, s>> \in ahead
        BY <1>4, <2>2 DEF Joined
      <3>2. v.filled < s.quantity /\ \A a \in w : <<a, s>> \in ahead => a.cumulative < s.quantity
        BY <3>1 DEF Converging, Room
      <3>3. ASSUME NEW a \in w2, <<a, s>> \in ahead2 PROVE a.cumulative < s.quantity
        <4>1. CASE a \in w
          BY <3>1, <3>2, <3>3, <4>1
        <4>2. CASE a \notin w
          BY <3>1, <3>3, <4>2 DEF Joined
        <4> QED BY <4>1, <4>2
      <3> QED BY <3>2, <3>3
    <2> QED BY <2>1, <2>2
  <1>6. Ends(o2, v, w2)
    BY DEF Converging, Ends, Joined, IsTerminal
  <1>7. Squeeze(o2, v, w2, ahead2)
    <2> SUFFICES ASSUME Squeezed(o2), v.status # "Filled" PROVE Squeeze(o2, v, w2, ahead2)
      BY DEF Squeeze
    <2>1. Squeezed(o)
      BY <1>1 DEF Squeezed, Typed
    <2> QED BY <1>4, <2>1 DEF Squeeze, Converging, Joined
  <1>8. Awaits(o2, v, w2)
    BY DEF Typed, Converging, Awaits, Joined
  <1> QED BY <1>2, <1>3, <1>5, <1>6, <1>7, <1>8 DEF Converging

\* What a new report makes of the gateway's order.
Taken(v, r, u) ==
    /\ u.quantity = r.quantity
    /\ u.status = "Filled" <=> FillsUp(r) \/ v.status = "Filled"
    /\ ~FillsUp(r) /\ IsTerminal(v.status) => u.status = v.status
    /\ ~FillsUp(r) /\ ~IsTerminal(v.status) =>
          IF r.status = "Canceled" /\ (v.lastSequence # None => v.lastSequence < r.sequence)
          THEN u.status = "Canceled" ELSE ~IsTerminal(u.status)
    /\ u.status = "Filled" => u.filled = r.quantity
    /\ u.status # "Filled" => u.filled = IF r.cumulative > v.filled THEN r.cumulative ELSE v.filled
    /\ u.lastSequence = IF v.lastSequence = None \/ r.sequence > v.lastSequence THEN r.sequence
                        ELSE v.lastSequence
    /\ ~IsTerminal(u.status) =>
        /\ v.pending \notin {"Cancel", "Amend"} => u.pending \in {v.pending, "None"}
        /\ v.pending = "Cancel" => u.pending = "Cancel"
        /\ v.pending = "Amend" /\ v.pendingQuantity # None =>
            IF r.quantity = v.pendingQuantity THEN u.pending = "None"
            ELSE u.pending = "Amend" /\ u.pendingQuantity = v.pendingQuantity

\* The gateway applies the report at the head of the lane.
LEMMA ConvergingApplied ==
    ASSUME NEW o, NEW v, NEW w, NEW off, NEW ahead, Typed(o, v, w, off),
           Converging(o, v, w, off, ahead), ahead \subseteq w \X w,
           NEW h \in w, h.sequence # None, \A a : <<a, h>> \notin ahead, NEW u, Taken(v, h, u),
           NEW w2 \in SUBSET w, w \subseteq w2 \cup {h}, off \subseteq w2, h \notin w2,
           NEW ahead2 \in SUBSET ahead, \A a, b : <<a, b>> \in ahead => a = h \/ <<a, b>> \in ahead2,
           \A b \in w2 : <<h, b>> \in ahead
    PROVE  /\ Converging(o, u, w2, off, ahead2)
           /\ ~IsTerminal(u.status) => u.filled < u.quantity
           /\ IsTerminal(u.status) => IsTerminal(v.status) \/ o.filled = o.quantity \/ o.status = "Canceled"
           /\ ~IsTerminal(u.status) => ~IsTerminal(v.status)
           /\ u.status # "Filled" => ~FillsUp(h)
  <1>1. /\ h.cumulative \in Nat /\ h.quantity \in Nat /\ v.filled \in Nat /\ o.filled \in Nat
        /\ h.cumulative <= h.quantity /\ h.cumulative <= o.filled /\ v.filled <= o.filled
        /\ o.filled <= o.quantity /\ o.quantity \in Nat
        /\ FillsUp(h) => h.quantity = o.quantity /\ h.cumulative = o.quantity /\ o.filled = o.quantity
    BY DEF Typed, Converging, Fills, FillsUp
  <1>2. v.status # "Filled" /\ ~FillsUp(h) => v.filled < h.quantity
    BY DEF Converging, Room, FullAhead
  <1>3. v.status = "Filled" => v.filled = o.quantity /\ h.quantity = o.quantity /\ o.filled = o.quantity
    BY <1>1 DEF Converging, Terms
  <1>4. u.status = "Filled" => u.filled = o.quantity /\ h.quantity = o.quantity /\ o.filled = o.quantity
    BY <1>1, <1>3 DEF Taken
  <1>5. u.status # "Filled" => /\ ~FillsUp(h) /\ v.status # "Filled"
                               /\ u.filled = IF h.cumulative > v.filled THEN h.cumulative ELSE v.filled
    BY DEF Taken
  <1>6. /\ u.filled \in Nat /\ u.filled <= o.filled /\ u.quantity = h.quantity
        /\ u.filled >= h.cumulative /\ u.filled >= v.filled
        /\ u.filled # v.filled => u.filled = h.cumulative \/ u.filled = o.filled
    BY <1>1, <1>3, <1>4, <1>5 DEF Taken
  <1>7. Fills(o, u, w2)
    <2>1. \A r \in w2 : /\ r.cumulative <= r.quantity /\ r.cumulative <= o.filled
                        /\ FillsUp(r) => r.quantity = o.quantity
      BY DEF Converging, Fills
    <2>2. u.filled = o.filled \/ \E r \in w2 : r.cumulative = o.filled
      <3>1. CASE v.filled = o.filled
        BY <1>1, <1>6, <3>1
      <3>2. CASE h.cumulative = o.filled
        BY <1>1, <1>6, <3>2
      <3>3. CASE \E r \in w2 : r.cumulative = o.filled
        BY <3>3
      <3> QED BY <3>1, <3>2, <3>3 DEF Converging, Fills
    <2> QED BY <1>1, <1>6, <2>1, <2>2 DEF Fills
  <1>8. Terms(o, u, w2, off, ahead2)
    <2>1. FillsUp(h) => \A r \in w2 : r.quantity = o.quantity
      BY <1>1 DEF Converging, Terms
    <2>2. v.status = "Filled" => \A r \in w2 : r.quantity = o.quantity
      BY DEF Converging, Terms
    <2>3. u.status = "Filled" => u.filled = o.quantity /\ \A r \in w2 : r.quantity = o.quantity
      BY <1>4, <2>1, <2>2 DEF Taken
    <2> QED BY <2>3 DEF Converging, Terms
  <1>9. ASSUME u.status # "Filled", NEW r PROVE FullAhead(r, ahead) => FullAhead(r, ahead2)
    BY <1>5, <1>9 DEF FullAhead
  <1>10. Room(u, w2, ahead2)
    <2> SUFFICES ASSUME u.status # "Filled", NEW r \in w2, ~FillsUp(r), ~FullAhead(r, ahead2)
                 PROVE  u.filled < r.quantity /\ \A a \in w2 : <<a, r>> \in ahead2 => a.cumulative < r.quantity
      BY DEF Room
    <2>1. v.filled < r.quantity /\ \A a \in w : <<a, r>> \in ahead => a.cumulative < r.quantity
      BY <1>5, <1>9 DEF Converging, Room
    <2>2. h.cumulative < r.quantity
      BY <2>1
    <2> QED BY <1>1, <1>5, <2>1, <2>2
  <1>11. Squeeze(o, u, w2, ahead2)
    <2> SUFFICES ASSUME Squeezed(o), u.status # "Filled" PROVE Squeeze(o, u, w2, ahead2)
      BY DEF Squeeze
    <2>1. /\ v.pending = "Amend" /\ v.pendingQuantity = o.quantity
          /\ \A r \in w : r.quantity = o.quantity => FillsUp(r) \/ FullAhead(r, ahead)
      BY <1>5 DEF Converging, Squeeze
    <2>2. h.quantity # o.quantity
      BY <1>5, <2>1 DEF FullAhead
    <2>3. ~IsTerminal(u.status)
      <3>1. o.status # "Canceled" /\ h.status # "Canceled" /\ ~IsTerminal(v.status)
        BY <1>5 DEF Converging, Ends, Squeezed, IsTerminal, Typed, Statuses
      <3> QED BY <1>5, <3>1 DEF Taken
    <2>4. u.pending = "Amend" /\ u.pendingQuantity = o.quantity
      BY <1>1, <2>1, <2>2, <2>3, NoneAssumption DEF Taken
    <2> QED BY <1>9, <2>1, <2>4 DEF Squeeze
  <1>12. ~IsTerminal(u.status) => ~IsTerminal(v.status) /\ ~FillsUp(h) /\ u.status # "Filled"
    BY DEF Taken, IsTerminal
  <1>13. Awaits(o, u, w2)
    <2> SUFFICES ASSUME ~IsTerminal(u.status) PROVE Awaits(o, u, w2)
      BY DEF Awaits
    <2>1. h.quantity = o.quantity => \A r \in w2 : r.quantity = o.quantity
      BY DEF Converging, Terms
    <2>2. CASE v.pending # "Amend"
      <3>1. u.pending # "Amend"
        BY <2>2 DEF Taken
      <3>2. h.quantity = o.quantity
        BY <1>12, <2>2 DEF Converging, Awaits
      <3> QED BY <1>6, <2>1, <3>1, <3>2 DEF Awaits
    <2>3. CASE v.pending = "Amend"
      <3>1. /\ v.pendingQuantity # None /\ v.quantity # v.pendingQuantity
            /\ o.quantity = v.quantity \/ o.quantity = v.pendingQuantity
            /\ o.quantity = v.quantity => h.quantity = o.quantity
        BY <1>12, <2>3 DEF Converging, Awaits
      <3>2. CASE h.quantity = v.pendingQuantity
        <4>1. u.pending = "None"
          BY <2>3, <3>1, <3>2 DEF Taken
        <4>2. h.quantity = o.quantity
          BY <3>1, <3>2
        <4> QED BY <1>6, <2>1, <4>1, <4>2 DEF Awaits
      <3>3. CASE h.quantity # v.pendingQuantity
        <4>1. u.pending = "Amend" /\ u.pendingQuantity = v.pendingQuantity
          BY <2>3, <3>1, <3>3 DEF Taken
        <4> QED BY <1>6, <2>1, <3>1, <3>3, <4>1 DEF Awaits
      <3> QED BY <3>2, <3>3
    <2> QED BY <2>2, <2>3
  <1>14. Ends(o, u, w2)
    <2>1. v.status = "Canceled" \/ h.status = "Canceled" => o.status = "Canceled"
      BY DEF Converging, Ends
    <2>2. u.status = "Canceled" => o.status = "Canceled"
      BY <2>1 DEF Taken, IsTerminal
    <2>3. u.status # "Rejected"
      BY DEF Taken, IsTerminal, Converging, Ends
    <2>4. o.status = "Filled" => u.status = "Filled" \/ \E r \in w2 : FillsUp(r)
      BY DEF Converging, Ends, Taken
    <2>5. ASSUME o.status = "Canceled", u.status # "Canceled"
          PROVE  u.pending = "Cancel" /\ \E r \in w2 : r.status = "Canceled" /\ LastOf(r, u, w2)
      <3>1. o.filled < o.quantity /\ ~FillsUp(h) /\ v.status # "Filled"
        BY <1>1, <1>3, <2>5 DEF Converging, Ends
      <3>2. v.status # "Canceled"
        BY <2>5, <3>1 DEF Taken, IsTerminal
      <3>3. ~IsTerminal(v.status)
        BY <3>1, <3>2 DEF Converging, Ends, IsTerminal
      <3>4. PICK k \in w : k.status = "Canceled" /\ LastOf(k, v, w)
        BY <2>5, <3>2 DEF Converging, Ends
      <3>5. v.pending = "Cancel"
        BY <2>5, <3>2 DEF Converging, Ends
      <3>6. h # k
        BY <2>5, <3>1, <3>3, <3>4 DEF Taken, LastOf
      <3>7. k \in w2
        BY <3>6
      <3>8. LastOf(k, u, w2)
        <4> SUFFICES ASSUME k.sequence # None PROVE LastOf(k, u, w2)
          BY DEF LastOf
        <4>1. h.sequence < k.sequence /\ (v.lastSequence # None => v.lastSequence < k.sequence)
          BY <3>4, <3>6 DEF LastOf
        <4>2. u.lastSequence \in {h.sequence, v.lastSequence}
          BY DEF Taken
        <4>3. u.lastSequence # None => u.lastSequence < k.sequence
          BY <4>1, <4>2
        <4> QED BY <3>4, <4>3 DEF LastOf
      <3>9. ~IsTerminal(u.status)
        BY <2>3, <2>5, <3>1 DEF Taken, IsTerminal
      <3> QED BY <3>4, <3>5, <3>7, <3>8, <3>9 DEF Taken
    <2> QED BY <2>2, <2>3, <2>4, <2>5 DEF Converging, Ends
  <1>15. ~IsTerminal(u.status) => u.filled < u.quantity
    BY <1>1, <1>2, <1>5, <1>6, <1>12 DEF FillsUp
  <1>16. IsTerminal(u.status) => IsTerminal(v.status) \/ o.filled = o.quantity \/ o.status = "Canceled"
    BY <1>4, <1>14 DEF IsTerminal, Ends
  <1> QED BY <1>5, <1>7, <1>8, <1>10, <1>11, <1>12, <1>13, <1>14, <1>15, <1>16 DEF Converging

\* A report that comes for the first time and names this order is taken.
LEMMA ApplyTakes ==
    ASSUME NEW v \in OrderType, NEW r \in Reports(Nat), r.client \in v.clients,
           v.offsets = [e \in ExchangeIds |-> 0], v.pendingPrice = None, r.event \notin v.events,
           r.exid = None \/ v.exid = None \/ r.exid = v.exid, r.cumulative <= r.quantity
    PROVE  LET u == Apply(v, r) IN
           /\ Taken(v, r, u)
           /\ u.clients = v.clients /\ u.offsets = v.offsets /\ u.pendingPrice = None
           /\ u.events = v.events \cup {r.event} /\ u.pending \in {v.pending, "None"}
  <1>1. /\ r \in ReportType /\ r.event \in Nat /\ r.event # None /\ r.cumulative \in Nat
        /\ r.quantity \in Nat /\ r.quantity # None /\ r.price = None
        /\ r.sequence \in Nat /\ r.sequence # None /\ r.status \in SimStatuses
        /\ r.exid \in ExchangeIds \cup {None}
    BY ReportsAreTyped, NoneAssumption DEF Reports
  <1>2. ~OtherGeneration(v, r) /\ ~IsHistoricalGeneration(v, r)
    BY DEF OtherGeneration, IsHistoricalGeneration
  <1>3. OffsetFor(v, r.exid) = 0
    BY DEF OffsetFor
  <1>4. AggregateFilled(v, r) = r.cumulative /\ ObservedQuantity(v, r) = r.quantity
    BY <1>1, <1>3 DEF AggregateFilled, ObservedQuantity
  <1>5. EffectiveQuantity(v, r) = r.quantity
    BY <1>1, <1>2, <1>4 DEF EffectiveQuantity
  <1>6. ~IsInvalid(v, r)
    BY <1>1, <1>2, <1>4, <1>5 DEF IsInvalid
  <1>7. Apply(v, r) = Merge(v, r)
    BY <1>6 DEF Apply, Disposition, IsDuplicate
  <1> DEFINE t == MergeTerms(v, r)
             stale == StaleSequence(v, r)
             status == DeriveStatus(t, r, r.cumulative, FALSE, stale)
             f == MergeFills(v, r)
             u == Merge(v, r)
  <1>8. t = [v EXCEPT !.quantity = r.quantity]
    <2>1. t = [v EXCEPT !.price = v.price, !.quantity = r.quantity]
      BY <1>1, <1>2, <1>4 DEF MergeTerms, OrderType
    <2> QED BY <2>1 DEF OrderType
  <1>9. /\ t \in OrderType /\ t.quantity = r.quantity /\ t.filled = v.filled /\ t.status = v.status
        /\ t.lastSequence = v.lastSequence /\ t.events = v.events /\ t.clients = v.clients
        /\ t.offsets = v.offsets /\ t.pendingPrice = None /\ t.pending = v.pending
        /\ t.pendingQuantity = v.pendingQuantity
    <2>1. t \in OrderType
      BY <1>1, MergeTermsType
    <2> QED BY <1>8, <2>1 DEF OrderType
  <1>10. status = DeriveStatus(t, r, AggregateFilled(v, r), IsHistoricalGeneration(v, r), stale)
    BY <1>2, <1>4 DEF DeriveStatus
  <1>11. /\ f \in OrderType /\ f.quantity = r.quantity /\ f.status = status
         /\ f.filled = FilledAfter(t, status, r.cumulative)
         /\ f.lastSequence = IF v.lastSequence = None \/ r.sequence > v.lastSequence
                             THEN r.sequence ELSE v.lastSequence
         /\ f.events = v.events \cup {r.event} /\ f.clients = v.clients /\ f.offsets = v.offsets
         /\ f.pendingPrice = None /\ f.pending = v.pending /\ f.pendingQuantity = v.pendingQuantity
    <2>1. f \in OrderType
      BY <1>1, <1>6, MergeFillsType
    <2> HIDE DEF t, status, stale
    <2>2. f = [t EXCEPT
               !.status = status,
               !.filled = FilledAfter(t, status, r.cumulative),
               !.exid = IF r.exid # None THEN r.exid ELSE @,
               !.lastSequence = IF @ = None \/ r.sequence > @ THEN r.sequence ELSE @,
               !.events = @ \cup {r.event}]
      BY <1>1, <1>2, <1>4, <1>10 DEF MergeFills, t, stale
    <2> HIDE DEF f
    <2> QED BY <1>9, <2>1, <2>2 DEF OrderType
  <1>12. /\ u.quantity = f.quantity /\ u.status = f.status /\ u.filled = f.filled
         /\ u.lastSequence = f.lastSequence /\ u.events = f.events /\ u.clients = f.clients
         /\ u.offsets = f.offsets /\ u.pendingPrice = None
         /\ u.pending = IF ClearsPending(f, r, FALSE) THEN "None" ELSE f.pending
         /\ ~ClearsPending(f, r, FALSE) => u.pendingQuantity = f.pendingQuantity
    <2>1. ClearsPending(f, r, IsHistoricalGeneration(v, r)) <=> ClearsPending(f, r, FALSE)
      BY <1>2 DEF ClearsPending
    <2>2. u = IF ClearsPending(f, r, FALSE)
              THEN [f EXCEPT !.pending = "None", !.pendingPrice = None, !.pendingQuantity = None]
              ELSE f
      BY <2>1 DEF Merge
    <2> HIDE DEF f, u
    <2> QED BY <1>11, <2>2 DEF OrderType
  <1>13. stale <=> (v.lastSequence # None /\ ~(v.lastSequence < r.sequence))
    BY <1>1 DEF StaleSequence, OrderType
  <1> HIDE DEF t, stale, f, u
  <1>14. /\ status = "Filled" <=> FillsUp(r) \/ v.status = "Filled"
         /\ ~FillsUp(r) /\ IsTerminal(v.status) => status = v.status
         /\ ~FillsUp(r) /\ ~IsTerminal(v.status) =>
              IF r.status = "Canceled" /\ (v.lastSequence # None => v.lastSequence < r.sequence)
              THEN status = "Canceled" ELSE ~IsTerminal(status)
    <2>1. FillsUp(r) <=> r.cumulative >= t.quantity
      BY <1>1, <1>9 DEF FillsUp
    <2>2. CASE FillsUp(r)
      <3>1. status = "Filled"
        <4>1. r.cumulative >= t.quantity /\ ~(r.cumulative < t.quantity)
          BY <1>1, <1>9, <2>1, <2>2
        <4> QED BY <4>1 DEF DeriveStatus
      <3> QED BY <2>2, <3>1
    <2>3. CASE ~FillsUp(r)
      <3>1. r.cumulative < t.quantity
        BY <1>1, <1>9, <2>1, <2>3
      <3>2. CASE IsTerminal(v.status)
        <4>1. status = v.status
          BY <1>9, <2>1, <2>3, <3>1, <3>2 DEF DeriveStatus
        <4> QED BY <2>3, <3>2, <4>1
      <3>3. CASE ~IsTerminal(v.status)
        <4>1. CASE stale
          <5>1. status = IF r.cumulative > 0 THEN "PartiallyFilled" ELSE v.status
            BY <1>9, <2>1, <2>3, <3>1, <3>3, <4>1 DEF DeriveStatus
          <5>2. ~IsTerminal(status)
            BY <3>3, <5>1 DEF IsTerminal
          <5> QED BY <1>13, <2>3, <3>3, <4>1, <5>2 DEF IsTerminal
        <4>2. CASE ~stale
          <5>1. status = IF r.status \in {"Canceled", "Rejected"} THEN r.status
                         ELSE IF r.cumulative > 0 \/ r.status = "PartiallyFilled" THEN "PartiallyFilled"
                         ELSE IF r.status = "Live" THEN "Live" ELSE v.status
            BY <1>9, <2>1, <2>3, <3>1, <3>3, <4>2 DEF DeriveStatus
          <5>2. r.status # "Rejected"
            BY <1>1 DEF SimStatuses
          <5>3. IF r.status = "Canceled" THEN status = "Canceled" ELSE ~IsTerminal(status)
            BY <3>3, <5>1, <5>2 DEF IsTerminal
          <5> QED BY <1>13, <2>3, <3>3, <4>2, <5>3 DEF IsTerminal
        <4> QED BY <4>1, <4>2
      <3> QED BY <3>2, <3>3
    <2> QED BY <2>2, <2>3
  <1> HIDE DEF status
  <1>15. /\ status = "Filled" => f.filled = r.quantity
         /\ status # "Filled" => f.filled = IF r.cumulative > v.filled THEN r.cumulative ELSE v.filled
    BY <1>9, <1>11 DEF FilledAfter
  <1>16. ~IsTerminal(u.status) =>
           /\ v.pending \notin {"Cancel", "Amend"} => u.pending \in {v.pending, "None"}
           /\ v.pending = "Cancel" => u.pending = "Cancel"
           /\ v.pending = "Amend" /\ v.pendingQuantity # None =>
               IF r.quantity = v.pendingQuantity THEN u.pending = "None"
               ELSE u.pending = "Amend" /\ u.pendingQuantity = v.pendingQuantity
    <2> SUFFICES ASSUME ~IsTerminal(u.status)
                 PROVE  /\ v.pending \notin {"Cancel", "Amend"} => u.pending \in {v.pending, "None"}
                        /\ v.pending = "Cancel" => u.pending = "Cancel"
                        /\ v.pending = "Amend" /\ v.pendingQuantity # None =>
                            IF r.quantity = v.pendingQuantity THEN u.pending = "None"
                            ELSE u.pending = "Amend" /\ u.pendingQuantity = v.pendingQuantity
      OBVIOUS
    <2>1. v.pending = "Cancel" => ~ClearsPending(f, r, FALSE)
      BY <1>11, <1>12 DEF ClearsPending
    <2>2. v.pending = "Amend" /\ v.pendingQuantity # None =>
             (ClearsPending(f, r, FALSE) <=> r.quantity = v.pendingQuantity)
      BY <1>1, <1>11, <1>12 DEF ClearsPending, AmendmentConfirmed
    <2> QED BY <1>11, <1>12, <2>1, <2>2
  <1>17. Taken(v, r, u)
    BY <1>11, <1>12, <1>14, <1>15, <1>16 DEF Taken
  <1> QED BY <1>7, <1>11, <1>12, <1>17 DEF u

\* The gateway marks its order or takes an answer: fills, terms and numbers stay, an open order
\* stays open, and what it awaits may change unless the simulator has ended or used up the order.
LEMMA ConvergingMarked ==
    ASSUME NEW o, NEW v, NEW w, NEW off, NEW ahead, Typed(o, v, w, off),
           Converging(o, v, w, off, ahead), NEW u,
           u.filled = v.filled /\ u.quantity = v.quantity /\ u.lastSequence = v.lastSequence,
           u.status = v.status \/ (~IsTerminal(u.status) /\ ~IsTerminal(v.status)),
           \/ u.pending = v.pending /\ u.pendingQuantity = v.pendingQuantity
           \/ /\ ~Squeezed(o) \/ v.status = "Filled"
              /\ o.status = "Canceled" => v.status = "Canceled"
              /\ ~IsTerminal(v.status) =>
                  /\ o.quantity = v.quantity
                  /\ u.pending = "Amend" => u.pendingQuantity # None /\ u.pendingQuantity # v.quantity
    PROVE  Converging(o, u, w, off, ahead)
  <1>1. (u.status = "Filled" <=> v.status = "Filled") /\ (u.status = "Canceled" <=> v.status = "Canceled")
        /\ (IsTerminal(u.status) <=> IsTerminal(v.status)) /\ (u.status = "Rejected" <=> v.status = "Rejected")
    BY DEF IsTerminal
  <1>2. Fills(o, u, w)
    BY DEF Converging, Fills
  <1>3. Terms(o, u, w, off, ahead)
    BY <1>1 DEF Converging, Terms
  <1>4. Room(u, w, ahead)
    BY <1>1 DEF Converging, Room
  <1>5. \A r : LastOf(r, u, w) <=> LastOf(r, v, w)
    BY DEF LastOf
  <1>6. Ends(o, u, w)
    BY <1>1, <1>5 DEF Converging, Ends
  <1>7. Squeeze(o, u, w, ahead)
    BY <1>1 DEF Converging, Squeeze
  <1>8. Awaits(o, u, w)
    BY <1>1 DEF Converging, Awaits
  <1> QED BY <1>2, <1>3, <1>4, <1>6, <1>7, <1>8 DEF Converging

\* A new order, with the report of it or without one; an order recovered from the gateway.
LEMMA ConvergingAnew ==
    ASSUME NEW o, NEW v, NEW w, NEW ahead,
           o.filled = v.filled, o.quantity = v.quantity, v.filled \in Nat, v.quantity \in Nat,
           v.filled < v.quantity, ~IsTerminal(o.status), ~IsTerminal(v.status),
           v.pending = "Amend" => v.pendingQuantity # None /\ v.pendingQuantity # v.quantity,
           \A r \in w : r.cumulative = 0 /\ r.quantity = o.quantity /\ r.status = "Live"
    PROVE  Converging(o, v, w, w, ahead)
  <1>1. Fills(o, v, w)
    BY DEF Fills, FillsUp
  <1>2. Terms(o, v, w, w, ahead) /\ Room(v, w, ahead)
    BY DEF Terms, Room, IsTerminal
  <1>3. Ends(o, v, w)
    BY DEF Ends, IsTerminal
  <1>4. Squeeze(o, v, w, ahead)
    BY DEF Squeeze, Squeezed
  <1>5. Awaits(o, v, w)
    BY DEF Awaits
  <1> QED BY <1>1, <1>2, <1>3, <1>4, <1>5 DEF Converging
-----------------------------------------------------------------------------
(* The reports of an order in a queue *)

\* The reports of an order in a queue of one.
LEMMA OfOne ==
    ASSUME NEW c, NEW m
    PROVE  Of(c, <<m>>) = IF m.client = c THEN {m} ELSE {}
  <1>1. Len(<<m>>) = 1 /\ <<m>>[1] = m /\ 1 .. 1 = {1}
    OBVIOUS
  <1> DEFINE p == <<m>>
  <1> HIDE DEF p
  <1>2. \A r : r \in Of(c, p) <=> \E i \in 1 .. Len(p) : r = p[i] /\ r.client = c
    BY DEF Of, Places
  <1>3. Of(c, p) = IF m.client = c THEN {m} ELSE {}
    BY <1>1, <1>2 DEF p
  <1> QED BY <1>3 DEF p
\* ... in two queues that are joined.
LEMMA OfJoined ==
    ASSUME NEW S, NEW q \in Seq(S), NEW s \in Seq(S), NEW c
    PROVE  Of(c, q \o s) = Of(c, q) \cup Of(c, s)
  <1>1. \A p, r : r \in Of(c, p) <=> \E i \in 1 .. Len(p) : r = p[i] /\ r.client = c
    BY DEF Of, Places
  <1> DEFINE a == q \o s
  <1>2. /\ Len(q) \in Nat /\ Len(s) \in Nat /\ Len(a) = Len(q) + Len(s)
        /\ \A i \in 1 .. Len(q) : a[i] = q[i]
        /\ \A i \in 1 .. Len(s) : a[i + Len(q)] = s[i]
    OBVIOUS
  <1> HIDE DEF a
  <1>3. \A i \in 1 .. Len(a) : i \notin 1 .. Len(q) => i - Len(q) \in 1 .. Len(s) /\ a[i] = s[i - Len(q)]
    BY <1>2, SMTT(30)
  <1>4. \A i \in 1 .. Len(s) : i + Len(q) \in 1 .. Len(a)
    BY <1>2
  <1>5. \A i \in 1 .. Len(q) : i \in 1 .. Len(a)
    BY <1>2
  <1>6. ASSUME NEW r \in Of(c, a) PROVE r \in Of(c, q) \/ r \in Of(c, s)
    <2>1. PICK i \in 1 .. Len(a) : r = a[i] /\ r.client = c
      BY <1>1
    <2> QED BY <1>1, <1>2, <1>3, <2>1, ZenonT(60)
  <1>7. ASSUME NEW r \in Of(c, q) PROVE r \in Of(c, a)
    <2>1. PICK i \in 1 .. Len(q) : r = q[i] /\ r.client = c
      BY <1>1
    <2> QED BY <1>1, <1>2, <1>5, <2>1
  <1>8. ASSUME NEW r \in Of(c, s) PROVE r \in Of(c, a)
    <2>1. PICK i \in 1 .. Len(s) : r = s[i] /\ r.client = c
      BY <1>1
    <2>2. i + Len(q) \in 1 .. Len(a) /\ a[i + Len(q)] = r
      BY <1>2, <1>4, <2>1
    <2> QED BY <1>1, <2>1, <2>2
  <1>9. Of(c, a) = Of(c, q) \cup Of(c, s)
    BY <1>6, <1>7, <1>8
  <1> QED BY <1>9 DEF a
\* ... in a queue that grows, or loses its head.
LEMMA OfQueue ==
    ASSUME NEW S, NEW q \in Seq(S), NEW c
    PROVE  /\ Of(c, q) \subseteq S /\ \A r \in Of(c, q) : r.client = c
           /\ Of(c, <<>>) = {}
           /\ \A m \in S : /\ Of(c, <<m>>) = IF m.client = c THEN {m} ELSE {}
                           /\ Of(c, Append(q, m)) = Of(c, q) \cup Of(c, <<m>>)
           /\ \A s \in Seq(S) : Of(c, q \o s) = Of(c, q) \cup Of(c, s)
           /\ q # <<>> => Of(c, q) = Of(c, <<Head(q)>>) \cup Of(c, Tail(q))
  <1>1. \A p, r : r \in Of(c, p) <=> \E i \in 1 .. Len(p) : r = p[i] /\ r.client = c
    BY DEF Of, Places
  <1>2. \A m : Len(<<m>>) = 1 /\ <<m>>[1] = m /\ 1 .. 1 = {1}
    OBVIOUS
  <1>3. \A m : Of(c, <<m>>) = IF m.client = c THEN {m} ELSE {}
    BY OfOne
  <1>4. Of(c, <<>>) = {}
    BY <1>1
  <1>5. \A s \in Seq(S) : Of(c, q \o s) = Of(c, q) \cup Of(c, s)
    BY OfJoined
  <1>6. ASSUME NEW m \in S PROVE Of(c, Append(q, m)) = Of(c, q) \cup Of(c, <<m>>)
    <2>1. Append(q, m) = q \o <<m>> /\ <<m>> \in Seq(S)
      OBVIOUS
    <2> QED BY <1>5, <2>1
  <1>7. q # <<>> => Of(c, q) = Of(c, <<Head(q)>>) \cup Of(c, Tail(q))
    <2> SUFFICES ASSUME q # <<>> PROVE Of(c, q) = Of(c, <<Head(q)>>) \cup Of(c, Tail(q))
      OBVIOUS
    <2>1. /\ Len(q) \in Nat /\ Head(q) = q[1] /\ Len(Tail(q)) = Len(q) - 1 /\ 1 \in 1 .. Len(q)
          /\ \A i \in 1 .. Len(q) - 1 : Tail(q)[i] = q[i + 1]
      OBVIOUS
    <2>2. \A i \in 1 .. Len(q) : i # 1 => i - 1 \in 1 .. Len(Tail(q)) /\ q[i] = Tail(q)[i - 1]
      BY <2>1
    <2>3. \A i \in 1 .. Len(Tail(q)) : i + 1 \in 1 .. Len(q) /\ q[i + 1] = Tail(q)[i]
      BY <2>1
    <2>4. \A r : r \in Of(c, <<Head(q)>>) <=> r = q[1] /\ r.client = c
      BY <1>3, <2>1
    <2> DEFINE t == Tail(q)
    <2> HIDE DEF t
    <2>5. ASSUME NEW r \in Of(c, q) PROVE (r = q[1] /\ r.client = c) \/ r \in Of(c, t)
      <3>1. PICK i \in 1 .. Len(q) : r = q[i] /\ r.client = c
        BY <1>1
      <3> QED BY <1>1, <2>2, <3>1 DEF t
    <2>6. ASSUME NEW r \in Of(c, t) PROVE r \in Of(c, q)
      <3>1. PICK i \in 1 .. Len(t) : r = t[i] /\ r.client = c
        BY <1>1
      <3>2. i + 1 \in 1 .. Len(q) /\ q[i + 1] = r
        BY <2>3, <3>1 DEF t
      <3> QED BY <1>1, <3>1, <3>2
    <2>7. \A r : r = q[1] /\ r.client = c => r \in Of(c, q)
      BY <1>1, <2>1
    <2> QED BY <2>4, <2>5, <2>6, <2>7 DEF t
  <1>8. Of(c, q) \subseteq S /\ \A r \in Of(c, q) : r.client = c
    BY <1>1
  <1> QED BY <1>3, <1>4, <1>5, <1>6, <1>7, <1>8

\* The head of a queue, and the rest.
LEMMA OfHead ==
    ASSUME NEW S, NEW q \in Seq(S), q # <<>>, NEW c
    PROVE  Of(c, q) = (IF Head(q).client = c THEN {Head(q)} ELSE {}) \cup Of(c, Tail(q))
  <1>1. Head(q) \in S
    OBVIOUS
  <1>2. Of(c, q) = Of(c, <<Head(q)>>) \cup Of(c, Tail(q))
    BY OfQueue
  <1>3. Of(c, <<Head(q)>>) = IF Head(q).client = c THEN {Head(q)} ELSE {}
    BY OfOne
  <1> QED BY <1>2, <1>3

\* An order and its reports, from the queue l and the reports elsewhere.
Settling(c, o, v, l, off) == Converging(o, v, Of(c, l) \cup off, off, Ahead(c, l, off))

\* Which reports are applied first: those further up the queue, and all of it before the rest.
LEMMA AheadIs ==
    ASSUME NEW c, NEW l, NEW off, NEW a, NEW b
    PROVE  <<a, b>> \in Ahead(c, l, off) <=>
             \/ a \in Of(c, l) /\ b \in off
             \/ \E i, j \in Places(c, l) : i < j /\ a = l[i] /\ b = l[j]
  <1>1. \A i \in Places(c, l) : l[i] \in Of(c, l)
    BY DEF Of
  <1> QED BY <1>1 DEF Ahead
\* The order among the reports of the queue, and what the reports elsewhere add.
LEMMA AheadPairs ==
    ASSUME NEW c, NEW l, NEW off
    PROVE  /\ Ahead(c, l, off) \subseteq (Of(c, l) \cup off) \X (Of(c, l) \cup off)
           /\ Ahead(c, l, {}) \subseteq Of(c, l) \X Of(c, l)
           /\ Ahead(c, l, off) = Ahead(c, l, {}) \cup (Of(c, l) \X off)
  <1>1. Ahead(c, l, off) = Ahead(c, l, {}) \cup (Of(c, l) \X off)
    BY DEF Ahead
  <1>2. Ahead(c, l, {}) \subseteq Of(c, l) \X Of(c, l)
    BY DEF Ahead
  <1> QED BY <1>1, <1>2
\* A report that is made is behind the queue.
LEMMA AheadJoined ==
    ASSUME NEW c, NEW l, NEW off, NEW r
    PROVE  Joined(Of(c, l) \cup off, off, Ahead(c, l, off), r, Of(c, l) \cup (off \cup {r}),
                  off \cup {r}, Ahead(c, l, off \cup {r}))
  <1>1. /\ Ahead(c, l, off) = Ahead(c, l, {}) \cup (Of(c, l) \X off)
        /\ Ahead(c, l, {}) \subseteq Of(c, l) \X Of(c, l)
    BY AheadPairs
  <1>2. Ahead(c, l, off \cup {r}) = Ahead(c, l, {}) \cup (Of(c, l) \X (off \cup {r}))
    BY DEF Ahead
  <1> QED BY <1>1, <1>2 DEF Joined

\* Reports go to the end of the lane.
LEMMA SettlingMoved ==
    ASSUME NEW c, NEW o, NEW v, NEW S, NEW l \in Seq(S), NEW s \in Seq(S), NEW off,
           NEW off2 \in SUBSET off, Of(c, s) \subseteq off, off \subseteq off2 \cup Of(c, s),
           Typed(o, v, Of(c, l) \cup off, off), Settling(c, o, v, l, off)
    PROVE  Settling(c, o, v, l \o s, off2)
  <1> DEFINE m == l \o s
             w == Of(c, l) \cup off
  <1>1. Of(c, m) = Of(c, l) \cup Of(c, s)
    BY OfJoined
  <1>2. /\ Len(l) \in Nat /\ Len(s) \in Nat /\ Len(m) = Len(l) + Len(s)
        /\ \A i \in 1 .. Len(l) : m[i] = l[i]
        /\ \A i \in 1 .. Len(s) : m[i + Len(l)] = s[i]
    OBVIOUS
  <1> HIDE DEF m
  <1>3. \A i \in 1 .. Len(m) : i \in 1 .. Len(l) \/ (i > Len(l) /\ i - Len(l) \in 1 .. Len(s) /\ m[i] = s[i - Len(l)])
    BY <1>2
  <1>4. \A i \in Places(c, m) : (i \in Places(c, l) /\ m[i] = l[i]) \/ (i > Len(l) /\ m[i] \in Of(c, s))
    BY <1>2, <1>3 DEF Places, Of
  <1>5. \A i \in Places(c, l) : i \in Places(c, m) /\ m[i] = l[i] /\ i <= Len(l) /\ i \in Nat
    BY <1>2 DEF Places
  <1>6. \A r \in Of(c, s) : \E j \in Places(c, m) : j > Len(l) /\ m[j] = r
    <2> SUFFICES ASSUME NEW i \in Places(c, s) PROVE \E j \in Places(c, m) : j > Len(l) /\ m[j] = s[i]
      BY DEF Of
    <2>1. i + Len(l) \in 1 .. Len(m) /\ m[i + Len(l)] = s[i] /\ i + Len(l) > Len(l)
      BY <1>2 DEF Places
    <2>2. i + Len(l) \in Places(c, m)
      BY <2>1 DEF Places
    <2> QED BY <2>1, <2>2
  <1>7. Ahead(c, l, off) \subseteq Ahead(c, m, off2)
    <2> SUFFICES ASSUME NEW a, NEW b, <<a, b>> \in Ahead(c, l, off) PROVE <<a, b>> \in Ahead(c, m, off2)
      BY DEF Ahead
    <2>1. CASE a \in Of(c, l) /\ b \in off2
      BY <1>1, <2>1, AheadIs
    <2>2. CASE a \in Of(c, l) /\ b \in Of(c, s)
      <3>1. PICK i \in Places(c, l) : a = l[i]
        BY <2>2 DEF Of
      <3>2. PICK j \in Places(c, m) : j > Len(l) /\ m[j] = b
        BY <1>6, <2>2
      <3>3. i \in Places(c, m) /\ m[i] = a /\ i < j
        <4>1. j \in Nat
          BY <1>2 DEF Places
        <4> QED BY <1>2, <1>5, <3>1, <3>2, <4>1
      <3> QED BY <3>2, <3>3, AheadIs
    <2>3. CASE \E i, j \in Places(c, l) : i < j /\ a = l[i] /\ b = l[j]
      BY <1>5, <2>3, AheadIs
    <2> QED BY <2>1, <2>2, <2>3, AheadIs
  <1>8. Ahead(c, m, off2) \subseteq Ahead(c, l, off) \cup (off \X off)
    <2> SUFFICES ASSUME NEW a, NEW b, <<a, b>> \in Ahead(c, m, off2)
                 PROVE  <<a, b>> \in Ahead(c, l, off) \cup (off \X off)
      BY DEF Ahead
    <2>1. CASE a \in Of(c, m) /\ b \in off2
      <3>1. a \in Of(c, l) \/ a \in off
        BY <1>1, <2>1
      <3> QED BY <2>1, <3>1, AheadIs
    <2>2. CASE \E i, j \in Places(c, m) : i < j /\ a = m[i] /\ b = m[j]
      <3>1. PICK i \in Places(c, m), j \in Places(c, m) : i < j /\ a = m[i] /\ b = m[j]
        BY <2>2
      <3>2. CASE j \in Places(c, l)
        <4>1. i \in Places(c, l)
          <5>1. i \in Nat /\ j \in Nat /\ j <= Len(l)
            BY <1>2, <1>5, <3>2 DEF Places
          <5> QED BY <1>2, <1>4, <3>1, <5>1
        <4> QED BY <1>5, <3>1, <3>2, <4>1, AheadIs
      <3>3. CASE j \notin Places(c, l)
        <4>1. b \in off
          BY <1>4, <3>1, <3>3
        <4>2. a \in Of(c, l) \/ a \in off
          BY <1>4, <3>1 DEF Of
        <4> QED BY <4>1, <4>2, AheadIs
      <3> QED BY <3>2, <3>3
    <2> QED BY <2>1, <2>2, AheadIs
  <1>9. Of(c, m) \cup off2 = Of(c, l) \cup off
    BY <1>1
  <1>10. Converging(o, v, Of(c, l) \cup off, off2, Ahead(c, m, off2))
    <2> DEFINE a == Ahead(c, l, off)
               a2 == Ahead(c, m, off2)
    <2>1. Typed(o, v, w, off) /\ Converging(o, v, w, off, a) /\ a \subseteq a2 /\ a2 \subseteq a \cup (off \X off)
      BY <1>7, <1>8 DEF Settling
    <2> HIDE DEF a, a2, w
    <2>2. Converging(o, v, w, off2, a2)
      BY <2>1, ConvergingMoved
    <2> QED BY <2>2 DEF a2, w
  <1>11. Settling(c, o, v, m, off2)
    BY <1>9, <1>10 DEF Settling
  <1> QED BY <1>11 DEF m

\* The head of the lane is ahead of all other reports of its order.
LEMMA HeadOfLane ==
    ASSUME NEW c, NEW S, NEW l \in Seq(S), l # <<>>, NEW off
    PROVE  LET h == Head(l)
               t == Tail(l)
           IN  /\ \A a, b : <<a, b>> \in Ahead(c, t, off) => <<a, b>> \in Ahead(c, l, off)
               /\ \A a, b : <<a, b>> \in Ahead(c, l, off) => (a = h /\ h.client = c) \/ <<a, b>> \in Ahead(c, t, off)
               /\ h.client = c => \A b \in Of(c, t) \cup off : <<h, b>> \in Ahead(c, l, off)
               /\ h \notin Of(c, t) \cup off => \A a : <<a, h>> \notin Ahead(c, l, off)
  <1> DEFINE h == Head(l)
             t == Tail(l)
  <1>1. /\ Len(l) \in Nat /\ h = l[1] /\ Len(t) = Len(l) - 1 /\ 1 \in 1 .. Len(l)
        /\ \A i \in 1 .. Len(l) - 1 : t[i] = l[i + 1]
    OBVIOUS
  <1>2. Of(c, l) = (IF h.client = c THEN {h} ELSE {}) \cup Of(c, t)
    BY OfHead
  <1> HIDE DEF h, t
  <1>3. \A i \in Places(c, t) : i \in Nat /\ i + 1 \in Places(c, l) /\ l[i + 1] = t[i]
    BY <1>1 DEF Places
  <1>4. \A i \in Places(c, l) : i \in Nat /\ i >= 1
    BY <1>1 DEF Places
  <1>5. \A i \in Places(c, l) : i # 1 => i - 1 \in Places(c, t) /\ t[i - 1] = l[i]
    BY <1>1 DEF Places
  <1>6. h.client = c <=> 1 \in Places(c, l)
    BY <1>1 DEF Places
  <1>7. ASSUME NEW a, NEW b, <<a, b>> \in Ahead(c, t, off) PROVE <<a, b>> \in Ahead(c, l, off)
    <2>1. CASE a \in Of(c, t) /\ b \in off
      BY <1>2, <2>1, AheadIs
    <2>2. CASE \E i, j \in Places(c, t) : i < j /\ a = t[i] /\ b = t[j]
      <3>1. PICK i \in Places(c, t), j \in Places(c, t) : i < j /\ a = t[i] /\ b = t[j]
        BY <2>2
      <3>2. i + 1 \in Places(c, l) /\ j + 1 \in Places(c, l) /\ i + 1 < j + 1 /\ a = l[i + 1] /\ b = l[j + 1]
        BY <1>3, <3>1
      <3> QED BY <3>2, AheadIs
    <2> QED BY <1>7, <2>1, <2>2, AheadIs
  <1>8. ASSUME NEW a, NEW b, <<a, b>> \in Ahead(c, l, off)
        PROVE  (a = h /\ h.client = c) \/ <<a, b>> \in Ahead(c, t, off)
    <2>1. CASE a \in Of(c, l) /\ b \in off
      BY <1>2, <2>1, AheadIs
    <2>2. CASE \E i, j \in Places(c, l) : i < j /\ a = l[i] /\ b = l[j]
      <3>1. PICK i \in Places(c, l), j \in Places(c, l) : i < j /\ a = l[i] /\ b = l[j]
        BY <2>2
      <3>2. CASE i = 1
        BY <1>1, <1>6, <3>1, <3>2
      <3>3. CASE i # 1
        <4>1. i - 1 \in Places(c, t) /\ j - 1 \in Places(c, t) /\ i - 1 < j - 1 /\ a = t[i - 1] /\ b = t[j - 1]
          BY <1>4, <1>5, <3>1, <3>3
        <4> QED BY <4>1, AheadIs
      <3> QED BY <3>2, <3>3
    <2> QED BY <1>8, <2>1, <2>2, AheadIs
  <1>9. ASSUME h.client = c, NEW b \in Of(c, t) \cup off PROVE <<h, b>> \in Ahead(c, l, off)
    <2>1. CASE b \in off
      BY <1>2, <1>9, <2>1, AheadIs
    <2>2. CASE b \in Of(c, t)
      <3>1. PICK j \in Places(c, t) : b = t[j]
        BY <2>2 DEF Of
      <3>2. j + 1 \in Places(c, l) /\ 1 \in Places(c, l) /\ 1 < j + 1 /\ b = l[j + 1] /\ h = l[1]
        <4>1. j >= 1
          BY DEF Places
        <4> QED BY <1>1, <1>3, <1>6, <1>9, <3>1, <4>1
      <3> QED BY <3>2, AheadIs
    <2> QED BY <2>1, <2>2
  <1>10. ASSUME h \notin Of(c, t) \cup off, NEW a, <<a, h>> \in Ahead(c, l, off) PROVE FALSE
    <2>1. PICK i \in Places(c, l), j \in Places(c, l) : i < j /\ a = l[i] /\ h = l[j]
      BY <1>10, AheadIs
    <2>2. j # 1 /\ j - 1 \in Places(c, t) /\ t[j - 1] = h
      BY <1>4, <1>5, <2>1
    <2> QED BY <1>10, <2>2 DEF Of
  <1> QED BY <1>7, <1>8, <1>9, <1>10 DEF h, t

\* The head of the lane belongs to another order, or is applied.
LEMMA SettlingApplied ==
    ASSUME NEW c, NEW o, NEW v, NEW S, NEW l \in Seq(S), l # <<>>, NEW off,
           Typed(o, v, Of(c, l) \cup off, off), Settling(c, o, v, l, off)
    PROVE  /\ Head(l).client # c => Settling(c, o, v, Tail(l), off)
           /\ Head(l).client = c /\ Head(l).sequence # None /\ Head(l) \notin Of(c, Tail(l)) \cup off =>
                \A u : Taken(v, Head(l), u) =>
                    /\ Settling(c, o, u, Tail(l), off)
                    /\ ~IsTerminal(u.status) => u.filled < u.quantity
                    /\ IsTerminal(u.status) => IsTerminal(v.status) \/ o.filled = o.quantity \/ o.status = "Canceled"
                    /\ ~IsTerminal(u.status) => ~IsTerminal(v.status)
                    /\ u.status # "Filled" => ~FillsUp(Head(l))
  <1> DEFINE h == Head(l)
             t == Tail(l)
             w == Of(c, l) \cup off
             a == Ahead(c, l, off)
             w2 == Of(c, t) \cup off
             a2 == Ahead(c, t, off)
  <1>1. Of(c, l) = (IF h.client = c THEN {h} ELSE {}) \cup Of(c, t)
    BY OfHead
  <1>2. /\ \A x, y : <<x, y>> \in a2 => <<x, y>> \in a
        /\ \A x, y : <<x, y>> \in a => (x = h /\ h.client = c) \/ <<x, y>> \in a2
        /\ h.client = c => \A y \in w2 : <<h, y>> \in a
        /\ h \notin w2 => \A x : <<x, h>> \notin a
    BY HeadOfLane
  <1>3. a \subseteq w \X w /\ a2 \subseteq w2 \X w2
    BY AheadPairs
  <1>4. a2 \subseteq a
    BY <1>2, <1>3
  <1>5. Typed(o, v, w, off) /\ Converging(o, v, w, off, a)
    BY DEF Settling
  <1>6. ASSUME h.client # c PROVE Settling(c, o, v, t, off)
    <2>1. w2 = w
      BY <1>1, <1>6
    <2>2. a \subseteq a2
      <3> HIDE DEF h, a, a2, w
      <3> SUFFICES ASSUME NEW x \in w, NEW y \in w, <<x, y>> \in a PROVE <<x, y>> \in a2
        BY <1>3
      <3> QED BY <1>2, <1>6
    <2>3. a2 = a
      BY <1>4, <2>2
    <2> QED BY <1>5, <2>1, <2>3 DEF Settling
  <1>7. ASSUME h.client = c, h.sequence # None, h \notin w2, NEW u, Taken(v, h, u)
        PROVE  /\ Converging(o, u, w2, off, a2)
               /\ ~IsTerminal(u.status) => u.filled < u.quantity
               /\ IsTerminal(u.status) => IsTerminal(v.status) \/ o.filled = o.quantity \/ o.status = "Canceled"
               /\ ~IsTerminal(u.status) => ~IsTerminal(v.status)
               /\ u.status # "Filled" => ~FillsUp(h)
    <2>1. h \in w /\ w2 \in SUBSET w /\ w \subseteq w2 \cup {h} /\ off \subseteq w2
      BY <1>1, <1>7
    <2> HIDE DEF h, t, w, a, w2, a2
    <2>2. /\ \A x : <<x, h>> \notin a
          /\ \A x, y : <<x, y>> \in a => x = h \/ <<x, y>> \in a2
          /\ \A y \in w2 : <<h, y>> \in a
      BY <1>2, <1>7
    <2>3. a2 \in SUBSET a
      BY <1>4
    <2>4. /\ Typed(o, v, w, off) /\ Converging(o, v, w, off, a) /\ a \subseteq w \X w
          /\ h \in w /\ h.sequence # None /\ Taken(v, h, u)
          /\ w2 \in SUBSET w /\ w \subseteq w2 \cup {h} /\ off \subseteq w2 /\ h \notin w2
      BY <1>3, <1>5, <1>7, <2>1
    <2> QED BY <2>2, <2>3, <2>4, ConvergingApplied
  <1> QED BY <1>6, <1>7 DEF Settling

\* A report elsewhere gets its number.
LEMMA SettlingNumbered ==
    ASSUME NEW c, NEW o, NEW v, NEW l, NEW off, Typed(o, v, Of(c, l) \cup off, off),
           Settling(c, o, v, l, off), NEW n \in Nat,
           NEW r \in off, r.sequence = None, NEW z,
           z.sequence = n /\ z.cumulative = r.cumulative /\ z.quantity = r.quantity /\ z.status = r.status,
           v.lastSequence # None => v.lastSequence < n,
           \A s \in Of(c, l) \cup off : s = r \/ (s.sequence # None /\ s.sequence < n), r \notin Of(c, l)
    PROVE  Settling(c, o, v, l, (off \ {r}) \cup {z})
  <1> DEFINE k == Of(c, l)
             pairs == Ahead(c, l, {})
             off2 == (off \ {r}) \cup {z}
  <1>1. pairs \in SUBSET (k \X k) /\ Ahead(c, l, off) = pairs \cup (k \X off)
        /\ Ahead(c, l, off2) = pairs \cup (k \X off2)
    <2>1. pairs \in SUBSET (k \X k) /\ Ahead(c, l, off) = pairs \cup (k \X off)
      BY AheadPairs
    <2> HIDE DEF off2
    <2>2. Ahead(c, l, off2) = pairs \cup (k \X off2)
      BY AheadPairs
    <2> QED BY <2>1, <2>2
  <1>2. Typed(o, v, k \cup off, off) /\ Converging(o, v, k \cup off, off, pairs \cup (k \X off))
    BY <1>1 DEF Settling
  <1>3. \A s \in k \cup off : s = r \/ (s.sequence # None /\ s.sequence < n)
    OBVIOUS
  <1>4. r \notin k /\ off2 = (off \ {r}) \cup {z}
    OBVIOUS
  <1> HIDE DEF k, pairs, off2
  <1>5. Converging(o, v, k \cup off2, off2, pairs \cup (k \X off2))
    BY <1>1, <1>2, <1>3, <1>4, ConvergingNumbered
  <1>6. Settling(c, o, v, l, off2)
    BY <1>1, <1>5 DEF Settling, k
  <1> QED BY <1>6 DEF off2
-----------------------------------------------------------------------------
(* The orders of the simulator and of the gateway, with the reports where they are *)

\* The reports of an order that are not in the lane: x is the thread of the commands, y the feed.
Elsewhere(c, x, y, b) == Of(c, x.held) \cup Of(c, y.held) \cup Of(c, b)

\* A command that is about to act finds the order as the gateway marked it.
Commanded(c, o, v, x) ==
    /\ x.cid = c /\ x.pc \in {"locked", "reject"} /\ x.op \in {"amend", "cancel"} =>
        /\ ~Squeezed(o) /\ o.status # "Canceled"
        /\ IsTerminal(v.status) => o.status = "Filled"
        /\ ~IsTerminal(v.status) =>
            /\ o.quantity = v.quantity
            /\ x.op = "amend" => v.pending = "Amend" /\ v.pendingQuantity = x.quantity
            /\ x.op = "cancel" => v.pending = "Cancel"
    /\ x.cid = c /\ x.op = "place" /\ Busy(x) => v.pending \in {"New", "None"} /\ x.pc # "reject"
\* The report that fills a squeezed order up is in the lane, or in the hands of the amendment.
Reporting(x) == x.op = "amend" /\ x.pc \in {"number", "publish", "emit"}
Pressed(c, o, v, l, x) ==
    Squeezed(o) /\ v.status # "Filled" =>
        \/ \E r \in Of(c, l) : FillsUp(r)
        \/ Reporting(x) /\ \E r \in Of(c, x.held) : FillsUp(r)
Followed(c, o, v, l, x, y, b) ==
    /\ Settling(c, o, v, l, Elsewhere(c, x, y, b))
    /\ Commanded(c, o, v, x) /\ Pressed(c, o, v, l, x)
    /\ Of(c, y.held) # {} => o.status = "Filled"

\* What the gateway's order is like: never renamed or repriced; the events it has seen are not on
\* their way any more; while it is open something is left to fill.
Plain(c, v) ==
    /\ c \in v.clients /\ v.offsets = [e \in ExchangeIds |-> 0] /\ v.pendingPrice = None
    /\ \A n \in v.events : v.lastSequence # None /\ n <= v.lastSequence
    /\ ~IsTerminal(v.status) =>
        /\ v.filled < v.quantity
        /\ v.pending = "Amend" => v.pendingQuantity # None /\ v.pendingQuantity # v.quantity
Remembers(o, v, first, s) == o # None => \A n \in v.events : n < first \/ n \in ToSet(s)
Placing(c, o, v, x) ==
    x.cid = c /\ x.op = "place" /\ x.pc \in {"locked", "reject"} =>
        /\ o = None /\ v.events = {} /\ v.status = "Unknown"
        /\ v.filled = 0 /\ v.quantity = x.quantity /\ v.pending = "New"
Familiar(c, o, v, x, first, s) ==
    v # None => Plain(c, v) /\ Remembers(o, v, first, s) /\ Placing(c, o, v, x)

\* A command is under way only while the connection is up.
Linked(x, up) == x.op \in Commands /\ Busy(x) /\ x.pc # "uncertain" => up
Known(c) == Familiar(c, orders[c], view[c], thread["cli"], bounds.first, seen)
Follows(c) ==
    orders[c] # None =>
        Followed(c, orders[c], view[c], lane, thread["cli"], thread["feed"], buffered)
\* The invariant, of the orders that do not wait for reconciliation.
ConvInv == Linked(thread["cli"], connected) /\ \A c \in Cids \ doubt : Known(c) /\ Follows(c)

\* The reports of an order are typed, wherever they are.
LEMMA TypedOrder ==
    ASSUME NEW c, NEW o \in SimOrderType, NEW v \in OrderType, NEW l \in Seq(Reports(Nat)),
           NEW off \in SUBSET Reports(Nat \cup {None})
    PROVE  Typed(o, v, Of(c, l) \cup off, off)
  <1>1. Of(c, l) \subseteq Reports(Nat)
    BY OfQueue
  <1>2. \A r \in Of(c, l) \cup off : /\ r.cumulative \in Nat /\ r.quantity \in Nat
                                     /\ r.sequence \in Nat \cup {None}
    BY <1>1 DEF Reports
  <1>3. /\ o.filled \in Nat /\ o.quantity \in Nat
        /\ v.filled \in Nat /\ v.quantity \in Nat /\ v.lastSequence \in Nat \cup {None}
        /\ v.status \in Statuses
    BY DEF SimOrderType, OrderType
  <1> QED BY <1>2, <1>3 DEF Typed
\* ... outside the lane too.
LEMMA ElsewhereTyped ==
    ASSUME NEW c, NEW x \in ThreadType, NEW y \in ThreadType, NEW b \in Seq(Reports(Nat))
    PROVE  Elsewhere(c, x, y, b) \in SUBSET Reports(Nat \cup {None})
  <1>1. /\ x.held \in Seq(Reports(Nat \cup {None})) /\ y.held \in Seq(Reports(Nat \cup {None}))
        /\ b \in Seq(Reports(Nat \cup {None}))
    BY NumberedAreReports DEF ThreadType
  <1>2. /\ Of(c, x.held) \subseteq Reports(Nat \cup {None}) /\ Of(c, y.held) \subseteq Reports(Nat \cup {None})
        /\ Of(c, b) \subseteq Reports(Nat \cup {None})
    BY <1>1, OfQueue
  <1> QED BY <1>2 DEF Elsewhere

\* Reports move to the end of the lane, or elsewhere, and a thread goes on.
LEMMA FollowedMoved ==
    ASSUME NEW c, NEW o \in SimOrderType, NEW v \in OrderType,
           NEW l \in Seq(Reports(Nat)), NEW s \in Seq(Reports(Nat)),
           NEW x \in ThreadType, NEW y \in ThreadType, NEW b \in Seq(Reports(Nat)), NEW x2, NEW y2, NEW b2,
           Followed(c, o, v, l, x, y, b),
           Elsewhere(c, x, y, b) = Elsewhere(c, x2, y2, b2) \cup Of(c, s),
           Of(c, y2.held) \subseteq Of(c, y.held), Commanded(c, o, v, x2),
           Reporting(x) /\ Of(c, x.held) # {} => Reporting(x2) /\ Of(c, x.held) \subseteq Of(c, x2.held) \cup Of(c, s)
    PROVE  Followed(c, o, v, l \o s, x2, y2, b2)
  <1> DEFINE off == Elsewhere(c, x, y, b)
             off2 == Elsewhere(c, x2, y2, b2)
  <1>1. Settling(c, o, v, l \o s, off2)
    <2>1. off \in SUBSET Reports(Nat \cup {None})
      BY ElsewhereTyped
    <2>2. off2 \in SUBSET off /\ Of(c, s) \subseteq off /\ off \subseteq off2 \cup Of(c, s)
      OBVIOUS
    <2>3. Settling(c, o, v, l, off)
      BY DEF Followed
    <2> HIDE DEF off, off2
    <2>4. Typed(o, v, Of(c, l) \cup off, off)
      BY <2>1, TypedOrder
    <2> QED BY <2>2, <2>3, <2>4, SettlingMoved
  <1>2. Pressed(c, o, v, l \o s, x2)
    <2>1. Of(c, l \o s) = Of(c, l) \cup Of(c, s)
      BY OfJoined
    <2>2. Pressed(c, o, v, l, x)
      BY DEF Followed
    <2> QED BY <2>1, <2>2 DEF Pressed
  <1>3. Of(c, y2.held) # {} => o.status = "Filled"
    BY DEF Followed
  <1> QED BY <1>1, <1>2, <1>3 DEF Followed
\* Nothing reaches the lane.
LEMMA FollowedStays ==
    ASSUME NEW c, NEW o \in SimOrderType, NEW v \in OrderType, NEW l \in Seq(Reports(Nat)),
           NEW x \in ThreadType, NEW y \in ThreadType, NEW b \in Seq(Reports(Nat)), NEW x2, NEW y2, NEW b2,
           Followed(c, o, v, l, x, y, b), Elsewhere(c, x, y, b) = Elsewhere(c, x2, y2, b2),
           Of(c, y2.held) \subseteq Of(c, y.held), Commanded(c, o, v, x2),
           Reporting(x) /\ Of(c, x.held) # {} => Reporting(x2) /\ Of(c, x.held) \subseteq Of(c, x2.held)
    PROVE  Followed(c, o, v, l, x2, y2, b2)
  <1>1. <<>> \in Seq(Reports(Nat)) /\ l \o <<>> = l
    OBVIOUS
  <1>2. Of(c, <<>>) = {}
    BY <1>1, OfQueue
  <1>3. Elsewhere(c, x, y, b) = Elsewhere(c, x2, y2, b2) \cup Of(c, <<>>)
    BY <1>2
  <1>4. Reporting(x) /\ Of(c, x.held) # {} => Reporting(x2) /\ Of(c, x.held) \subseteq Of(c, x2.held) \cup Of(c, <<>>)
    BY <1>2
  <1>5. Followed(c, o, v, l \o <<>>, x2, y2, b2)
    BY <1>1, <1>3, <1>4, FollowedMoved
  <1> QED BY <1>1, <1>5
\* The types of an order that is followed.
LEMMA OrderFacts ==
    ASSUME SimInv, NEW c \in Cids
    PROVE  /\ orders[c] # None => orders[c] \in SimOrderType /\ view[c] # None
           /\ view[c] # None => view[c] \in OrderType
           /\ thread["cli"] \in ThreadType /\ thread["feed"] \in ThreadType
           /\ lane \in Seq(Reports(Nat)) /\ buffered \in Seq(Reports(Nat))
  BY DEF SimInv, SimTypes, IdentityInv, Identified, Threads

\* A thread goes on with its command, and reports are handed on: s goes to the lane.
Onward(x, x2) ==
    \/ x2 = x
    \/ /\ x2.pc \notin {"locked", "reject"}
       /\ Busy(x2) => Busy(x) /\ x2.op = x.op /\ x2.cid = x.cid
Passed(x, y, b, x2, y2, b2, s) ==
    \A c \in Cids :
        /\ Elsewhere(c, x, y, b) = Elsewhere(c, x2, y2, b2) \cup Of(c, s)
        /\ Of(c, y2.held) \subseteq Of(c, y.held)
        /\ Reporting(x) /\ Of(c, x.held) # {} =>
               Reporting(x2) /\ Of(c, x.held) \subseteq Of(c, x2.held) \cup Of(c, s)
\* Reports move on, and nothing else changes.
LEMMA FlowConverges ==
    ASSUME SimInv, ConvInv, NEW x2, NEW y2, NEW b2, NEW s \in Seq(Reports(Nat)),
           thread'["cli"] = x2, thread'["feed"] = y2, buffered' = b2, lane' = lane \o s,
           UNCHANGED <<orders, view, doubt, seen>>, bounds'.first = bounds.first,
           Linked(x2, connected'), Onward(thread["cli"], x2),
           Passed(thread["cli"], thread["feed"], buffered, x2, y2, b2, s)
    PROVE  ConvInv'
  <1> DEFINE x == thread["cli"]
             y == thread["feed"]
  <1>1. ASSUME NEW c \in Cids \ doubt PROVE Known(c)' /\ Follows(c)'
    <2>1. Known(c) /\ Follows(c)
      BY DEF ConvInv
    <2>2. Known(c)'
      <3>1. x2.cid = c /\ x2.op = "place" /\ x2.pc \in {"locked", "reject"} => x2 = x
        BY DEF Onward
      <3>2. ASSUME Placing(c, orders[c], view[c], x) PROVE Placing(c, orders[c], view[c], x2)
        BY <3>1, <3>2 DEF Placing
      <3>3. Familiar(c, orders[c], view[c], x2, bounds.first, seen)
        BY <2>1, <3>2 DEF Known, Familiar
      <3> QED BY <3>3 DEF Known
    <2>3. ASSUME orders[c] # None PROVE Followed(c, orders[c], view[c], lane', x2, y2, b2)
      <3>1. Followed(c, orders[c], view[c], lane, x, y, buffered)
        BY <2>1, <2>3 DEF Follows
      <3>2. /\ orders[c] \in SimOrderType /\ view[c] \in OrderType /\ x \in ThreadType /\ y \in ThreadType
            /\ lane \in Seq(Reports(Nat)) /\ buffered \in Seq(Reports(Nat))
        BY <2>3, OrderFacts
      <3>3. Commanded(c, orders[c], view[c], x2)
        <4>1. Commanded(c, orders[c], view[c], x)
          BY <3>1 DEF Followed
        <4> QED BY <4>1 DEF Commanded, Onward
      <3>4. /\ Elsewhere(c, x, y, buffered) = Elsewhere(c, x2, y2, b2) \cup Of(c, s)
            /\ Of(c, y2.held) \subseteq Of(c, y.held)
            /\ Reporting(x) /\ Of(c, x.held) # {} => Reporting(x2) /\ Of(c, x.held) \subseteq Of(c, x2.held) \cup Of(c, s)
        BY DEF Passed
      <3> HIDE DEF x, y
      <3> QED BY <3>1, <3>2, <3>3, <3>4, FollowedMoved
    <2> QED BY <2>2, <2>3 DEF Follows
  <1> QED BY <1>1 DEF ConvInv
\* Nothing goes to the lane.
LEMMA StayConverges ==
    ASSUME SimInv, ConvInv, NEW x2, NEW y2, NEW b2,
           thread'["cli"] = x2, thread'["feed"] = y2, buffered' = b2, lane' = lane,
           UNCHANGED <<orders, view, doubt, seen>>, bounds'.first = bounds.first,
           Linked(x2, connected'), Onward(thread["cli"], x2),
           Passed(thread["cli"], thread["feed"], buffered, x2, y2, b2, <<>>)
    PROVE  ConvInv'
  <1>0. <<>> \in Seq(Reports(Nat))
    OBVIOUS
  <1>1. PICK s \in Seq(Reports(Nat)) : s = <<>>
    BY <1>0, Zenon
  <1>2. lane' = lane \o s
    BY <1>1 DEF SimInv, SimTypes
  <1>3. Passed(thread["cli"], thread["feed"], buffered, x2, y2, b2, s)
    BY <1>1
  <1> QED BY <1>2, <1>3, FlowConverges

\* disconnect, reconnect and the delivery of what was buffered.
LEMMA ConnectionConverges ==
    ASSUME SimInv, ConvInv, Disconnect \/ Reconnect \/ DeliverBuffered
    PROVE  ConvInv'
  <1> DEFINE x == thread["cli"]
             y == thread["feed"]
  <1>1. /\ x \in ThreadType /\ y \in ThreadType /\ HeldInv(x) /\ thread \in [Threads -> ThreadType]
        /\ lane \in Seq(Reports(Nat)) /\ buffered \in Seq(Reports(Nat)) /\ "cli" \in Threads /\ "feed" \in Threads
    BY InvFacts DEF Threads, SimInv, SimTypes
  <1>2. UNCHANGED <<orders, view, doubt, seen>> /\ bounds'.first = bounds.first
    <2>1. bounds \in [calls : Nat, faults : Nat, first : Nat \ {0}]
      BY DEF SimInv, SimTypes
    <2> QED BY <2>1 DEF Disconnect, Reconnect, DeliverBuffered, venueVars, gatewayVars
  <1>3. \A c : Of(c, <<>>) = {}
    <2>1. <<>> \in Seq(Reports(Nat))
      OBVIOUS
    <2> QED BY <2>1, OfQueue
  <1> HIDE DEF x, y
  <1>4. CASE Disconnect
    <2>1. /\ thread'["cli"] = x /\ thread'["feed"] = y /\ lane' = lane /\ buffered' = buffered /\ x.pc = "idle"
      BY <1>3, <1>4 DEF Disconnect, gatewayVars, x, y
    <2>2. Linked(x, connected') /\ Onward(x, x)
      BY <2>1 DEF Linked, Busy, Onward
    <2>3. Passed(x, y, buffered, x, y, buffered, <<>>)
      BY <1>3 DEF Passed
    <2> QED BY <1>2, <2>1, <2>2, <2>3, StayConverges DEF x, y
  <1>5. CASE Reconnect /\ x.pc = "idle"
    <2> DEFINE z == [x EXCEPT !.pc = "swap"]
    <2>1. /\ thread'["cli"] = z /\ thread'["feed"] = y /\ lane' = lane /\ buffered' = buffered /\ x.held = <<>>
      BY <1>1, <1>3, <1>5 DEF Reconnect, gatewayVars, x, y, Goto, HeldInv
    <2>2. z.pc = "swap" /\ z.held = <<>>
      BY <1>1, <2>1 DEF ThreadType
    <2> HIDE DEF z
    <2>3. Linked(z, connected') /\ Onward(x, z) /\ ~Reporting(x)
      BY <1>5, <2>2 DEF Linked, Busy, Reporting, Onward
    <2>4. Passed(x, y, buffered, z, y, buffered, <<>>)
      BY <1>3, <2>1, <2>2, <2>3 DEF Elsewhere, Passed
    <2> QED BY <1>2, <2>1, <2>3, <2>4, StayConverges DEF x, y
  <1>6. CASE Reconnect /\ x.pc = "swap"
    <2> DEFINE z == [x EXCEPT !.pc = "deliver", !.held = buffered]
    <2>1. /\ thread'["cli"] = z /\ thread'["feed"] = y /\ lane' = lane /\ buffered' = <<>> /\ x.held = <<>>
      BY <1>1, <1>3, <1>6 DEF Reconnect, gatewayVars, x, y, HeldInv
    <2>2. z.pc = "deliver" /\ z.held = buffered
      BY <1>1, <2>1 DEF ThreadType
    <2> HIDE DEF z
    <2>3. Linked(z, connected') /\ Onward(x, z) /\ ~Reporting(x)
      BY <1>6, <2>2 DEF Linked, Busy, Reporting, Onward
    <2>4. Passed(x, y, buffered, z, y, <<>>, <<>>)
      BY <1>3, <2>1, <2>2, <2>3 DEF Elsewhere, Passed
    <2> QED BY <1>2, <2>1, <2>3, <2>4, StayConverges DEF x, y
  <1>7. CASE DeliverBuffered
    <2>1. /\ thread'["cli"] = Idle /\ thread'["feed"] = y /\ lane' = lane \o x.held /\ buffered' = buffered
          /\ x.pc = "deliver"
      BY <1>1, <1>7 DEF DeliverBuffered, x, y
    <2>2. x.held \in Seq(Reports(Nat)) /\ Idle.pc = "idle" /\ Idle.held = <<>> /\ ~Busy(Idle)
      BY <1>1, <2>1, IdleIs DEF HeldInv
    <2>3. Linked(Idle, connected') /\ Onward(x, Idle) /\ ~Reporting(x)
      BY <2>1, <2>2 DEF Linked, Reporting, Onward
    <2>4. Passed(x, y, buffered, Idle, y, buffered, x.held)
      BY <1>3, <2>2, <2>3 DEF Elsewhere, Passed
    <2> QED BY <1>2, <2>1, <2>2, <2>3, <2>4, FlowConverges DEF x, y
  <1> QED BY <1>4, <1>5, <1>6, <1>7 DEF Reconnect, x

\* One of the two threads hands reports on, to the buffer or to the lane.
Handed(z, w, b, b2, s) ==
    \A c \in Cids :
        /\ Of(c, z.held) \cup Of(c, b) = Of(c, w.held) \cup Of(c, b2) \cup Of(c, s)
        /\ Of(c, w.held) \subseteq Of(c, z.held)
CommandHands(z, w, s) ==
    /\ Busy(z) /\ z.pc # "uncertain" /\ w.pc \notin {"locked", "reject", "uncertain"}
    /\ Busy(w) => w.op = z.op /\ w.cid = z.cid
    /\ \A c \in Cids : Reporting(z) /\ Of(c, z.held) # {} =>
           Reporting(w) /\ Of(c, z.held) \subseteq Of(c, w.held) \cup Of(c, s)
\* A thread hands its reports on.
LEMMA ThreadConverges ==
    ASSUME SimInv, ConvInv, NEW t \in Threads, NEW z, z = thread[t], NEW w,
           thread' = [thread EXCEPT ![t] = w], NEW s \in Seq(Reports(Nat)), lane' = lane \o s,
           UNCHANGED <<orders, view, doubt, seen, bounds, connected>>,
           NEW b2, buffered' = b2, Handed(z, w, buffered, b2, s), t = "cli" => CommandHands(z, w, s)
    PROVE  ConvInv'
  <1>0. PICK x, y, x2, y2 : /\ thread["cli"] = x /\ thread["feed"] = y
                            /\ thread'["cli"] = x2 /\ thread'["feed"] = y2
    OBVIOUS
  <1>1. /\ t \in {"cli", "feed"} /\ (t = "cli" => y2 = y /\ x2 = w /\ z = x)
        /\ (t = "feed" => x2 = x /\ y2 = w /\ z = y)
    BY <1>0, TwoThreads
  <1>2. Linked(x, connected)
    BY <1>0 DEF ConvInv
  <1>3. Linked(x2, connected') /\ Onward(x, x2)
    BY <1>1, <1>2 DEF Linked, Onward, CommandHands
  <1>4. Passed(x, y, buffered, x2, y2, b2, s)
    <2> SUFFICES ASSUME NEW c \in Cids
                 PROVE  /\ Elsewhere(c, x, y, buffered) = Elsewhere(c, x2, y2, b2) \cup Of(c, s)
                        /\ Of(c, y2.held) \subseteq Of(c, y.held)
                        /\ Reporting(x) /\ Of(c, x.held) # {} =>
                              Reporting(x2) /\ Of(c, x.held) \subseteq Of(c, x2.held) \cup Of(c, s)
      BY DEF Passed
    <2>1. /\ Of(c, z.held) \cup Of(c, buffered) = Of(c, w.held) \cup Of(c, b2) \cup Of(c, s)
          /\ Of(c, w.held) \subseteq Of(c, z.held)
      BY DEF Handed
    <2>2. CASE t = "cli"
      BY <1>1, <2>1, <2>2 DEF Elsewhere, CommandHands
    <2>3. CASE t = "feed"
      BY <1>1, <2>1, <2>3 DEF Elsewhere
    <2> QED BY <1>1, <2>2, <2>3
  <1> QED BY <1>0, <1>3, <1>4, FlowConverges

\* publish_or_buffer and the callback.
LEMMA PublishConverges ==
    ASSUME SimInv, ConvInv, NEW t \in Threads, PublishOrBuffer(t) \/ EmitReport(t)
    PROVE  ConvInv'
  <1>0. PICK x, q : x = thread[t] /\ q = x.held
    OBVIOUS
  <1>1. x.pc \in {"publish", "emit"} /\ (x.pc = "emit" => EmitReport(t)) /\ (x.pc = "publish" => PublishOrBuffer(t))
    BY <1>0 DEF PublishOrBuffer, EmitReport
  <1>2. /\ x \in ThreadType /\ HeldInv(x) /\ q \in Seq(Reports(Nat)) /\ t \in {"cli", "feed"}
        /\ buffered \in Seq(Reports(Nat)) /\ lane \in Seq(Reports(Nat)) /\ Busy(x)
    BY <1>0, <1>1, InvFacts DEF Held, HeldInv, Threads, Busy
  <1>3. UNCHANGED <<orders, view, doubt, seen, bounds, connected>>
    BY DEF PublishOrBuffer, EmitReport, venueVars, gatewayVars
  <1>4. <<>> \in Seq(Reports(Nat)) /\ lane \o <<>> = lane
    BY <1>2
  <1>5. \A c : Of(c, <<>>) = {}
    BY <1>4, OfQueue
  <1>6. PICK e \in Seq(Reports(Nat)) : e = <<>>
    BY <1>4, Zenon
  <1>7. lane = lane \o e /\ \A c : Of(c, e) = {}
    BY <1>4, <1>5, <1>6
  <1>8. CASE x.pc = "publish" /\ q = <<>>
    <2> DEFINE p(z) == [x EXCEPT !.pc = z]
    <2>1. buffered' = buffered /\ lane' = lane /\ thread' = AfterPublish(t)
      BY <1>0, <1>1, <1>8 DEF PublishOrBuffer, gatewayVars
    <2>2. PICK w \in {Idle, p("match"), p("ack")} : thread' = [thread EXCEPT ![t] = w]
      <3>1. CASE t = "feed" \/ x.op = "emit"
        <4>1. AfterPublish(t) = [thread EXCEPT ![t] = Idle]
          BY <1>0, <3>1, <1>2 DEF AfterPublish
        <4> QED BY <2>1, <4>1
      <3>2. CASE ~(t = "feed" \/ x.op = "emit")
        BY <1>0, <2>1, <3>2, <1>2 DEF AfterPublish
      <3> QED BY <3>1, <3>2
    <2>3. /\ w.held = <<>> /\ w.pc \in {"idle", "match", "ack"}
          /\ w.pc # "idle" => w.op = x.op /\ w.cid = x.cid
      <3>1. CASE w = Idle
        BY <3>1, IdleIs
      <3>2. CASE w = p("match") \/ w = p("ack")
        <4>1. x.held = <<>>
          BY <1>0, <1>8
        <4> QED BY <1>2, <3>2, <4>1 DEF ThreadType
      <3> QED BY <3>1, <3>2, <2>2
    <2> HIDE DEF p
    <2>4. w.pc \notin {"locked", "reject", "uncertain"} /\ (Busy(w) => w.op = x.op /\ w.cid = x.cid)
      BY <2>3 DEF Busy
    <2>5. \A c \in Cids : Of(c, q) = {} /\ Of(c, w.held) = {}
      BY <1>5, <1>8, <2>3
    <2>6. CommandHands(x, w, e) /\ Handed(x, w, buffered, buffered, e)
      BY <1>0, <1>1, <1>2, <1>7, <2>4, <2>5 DEF CommandHands, Handed
    <2> QED BY <1>0, <1>3, <1>7, <2>1, <2>2, <2>6, ThreadConverges
  <1>9. CASE x.pc = "publish" /\ q # <<>> /\ connected
    <2> DEFINE w == [x EXCEPT !.pc = "emit"]
    <2>1. buffered' = buffered /\ lane' = lane /\ thread' = [thread EXCEPT ![t] = w]
      BY <1>0, <1>1, <1>9 DEF PublishOrBuffer, gatewayVars, Goto
    <2>2. w.held = q /\ w.pc = "emit" /\ w.op = x.op /\ w.cid = x.cid
      BY <1>0, <1>2 DEF ThreadType
    <2> HIDE DEF w
    <2>3. Reporting(x) => Reporting(w)
      BY <2>2 DEF Reporting
    <2>4. CommandHands(x, w, e) /\ Handed(x, w, buffered, buffered, e)
      BY <1>0, <1>1, <1>2, <1>7, <2>2, <2>3 DEF CommandHands, Handed
    <2> QED BY <1>0, <1>3, <1>7, <2>1, <2>4, ThreadConverges
  <1>10. CASE q # <<>> /\ (x.pc = "emit" \/ ~connected)
    <2> DEFINE w == [x EXCEPT !.pc = "publish", !.held = Tail(q)]
               h == Head(q)
    <2>1. /\ thread' = [thread EXCEPT ![t] = w]
          /\ \/ buffered' = buffered /\ lane' = Append(lane, h)
             \/ buffered' = Append(buffered, h) /\ lane' = lane /\ ~connected
      <3>1. CASE x.pc = "emit"
        BY <1>0, <1>1, <3>1 DEF EmitReport
      <3>2. CASE x.pc = "publish"
        <4>1. x = [x EXCEPT !.pc = "publish"]
          BY <1>2, <3>2 DEF ThreadType
        <4>2. thread' = [thread EXCEPT ![t] = [x EXCEPT !.held = Tail(q)]]
          BY <1>0, <1>1, <1>10, <3>2 DEF PublishOrBuffer
        <4>3. [x EXCEPT !.held = Tail(q)] = w
          BY <1>2, <3>2 DEF ThreadType
        <4> QED BY <1>0, <1>1, <1>10, <3>2, <4>2, <4>3 DEF PublishOrBuffer, gatewayVars
      <3> QED BY <1>1, <3>1, <3>2
    <2>2. h \in Reports(Nat) /\ Tail(q) \in Seq(Reports(Nat))
      BY <1>2, <1>10
    <2>3. \A c : Of(c, q) = Of(c, <<h>>) \cup Of(c, Tail(q))
      BY <1>2, <1>10, OfQueue
    <2> HIDE DEF h
    <2>4. w.held = Tail(q) /\ w.pc = "publish" /\ w.op = x.op /\ w.cid = x.cid
      <3>1. x \in ThreadType /\ Tail(q) = Tail(q)
        BY <1>2
      <3> QED BY <3>1 DEF ThreadType
    <2> HIDE DEF w
    <2>5. Reporting(x) => Reporting(w)
      BY <2>4 DEF Reporting
    <2>6. PICK s \in Seq(Reports(Nat)) : s = <<h>>
      <3>1. <<h>> \in Seq(Reports(Nat))
        BY <2>2
      <3> QED BY <3>1, Zenon
    <2>7. CASE buffered' = buffered /\ lane' = Append(lane, h)
      <3>1. lane' = lane \o s
        BY <1>2, <2>2, <2>6, <2>7
      <3>2. \A c : Of(c, q) = Of(c, s) \cup Of(c, w.held)
        BY <2>3, <2>4, <2>6
      <3>3. CommandHands(x, w, s) /\ Handed(x, w, buffered, buffered, s)
        BY <1>0, <1>1, <1>2, <2>4, <2>5, <3>2 DEF CommandHands, Handed
      <3> QED BY <1>0, <1>3, <2>1, <2>7, <3>1, <3>3, ThreadConverges
    <2>8. CASE buffered' = Append(buffered, h) /\ lane' = lane /\ ~connected
      <3>1. \A c : Of(c, buffered') = Of(c, buffered) \cup Of(c, <<h>>)
        <4>1. ASSUME NEW c PROVE Of(c, Append(buffered, h)) = Of(c, buffered) \cup Of(c, <<h>>)
          <5>1. Append(buffered, h) = buffered \o s
            BY <1>2, <2>2, <2>6
          <5>2. Of(c, buffered \o s) = Of(c, buffered) \cup Of(c, s)
            BY <1>2, OfJoined
          <5> QED BY <2>6, <5>1, <5>2, Zenon
        <4> QED BY <2>8, <4>1
      <3>2. \A c : Of(c, q) \cup Of(c, buffered) = Of(c, w.held) \cup Of(c, buffered') \cup Of(c, e)
        BY <1>7, <2>3, <2>4, <3>1
      <3>3. \A c : Of(c, w.held) \subseteq Of(c, q)
        BY <2>3, <2>4
      <3>4. t = "cli" => ~Reporting(x)
        BY <1>0, <1>1, <1>2, <2>8 DEF ConvInv, Linked, Reporting, Commands
      <3>5. Handed(x, w, buffered, buffered', e) /\ (t = "cli" => CommandHands(x, w, e))
        BY <1>0, <1>1, <1>2, <2>4, <3>2, <3>3, <3>4 DEF CommandHands, Handed
      <3>6. PICK b2 : buffered' = b2
        OBVIOUS
      <3> QED BY <1>0, <1>3, <1>7, <2>1, <2>8, <3>5, <3>6, ThreadConverges
    <2> QED BY <2>1, <2>7, <2>8
  <1> QED BY <1>0, <1>1, <1>2, <1>8, <1>9, <1>10 DEF HeldInv

\* What is known of an order does not depend on the later steps of a command.
LEMMA OnwardKeeps ==
    ASSUME NEW c, NEW o, NEW v, NEW x, NEW x2, NEW first, NEW s, Onward(x, x2)
    PROVE  /\ Familiar(c, o, v, x, first, s) => Familiar(c, o, v, x2, first, s)
           /\ Commanded(c, o, v, x) => Commanded(c, o, v, x2)
  <1>1. x2.cid = c /\ x2.op = "place" /\ x2.pc \in {"locked", "reject"} => x2 = x
    BY DEF Onward
  <1>2. Placing(c, o, v, x) => Placing(c, o, v, x2)
    BY <1>1 DEF Placing
  <1>3. Commanded(c, o, v, x) => Commanded(c, o, v, x2)
    BY DEF Commanded, Onward
  <1> QED BY <1>2, <1>3 DEF Familiar
\* The numbers of the reports of an order.
LEMMA OfNumbers ==
    ASSUME NEW c, NEW q
    PROVE  \A r \in Of(c, q) : r.sequence \in Numbers(q)
  BY DEF Of, Places, Numbers

\* A report gets its number, the highest so far.
LEMMA FollowedNumbered ==
    ASSUME NEW c, NEW o \in SimOrderType, NEW v \in OrderType, NEW l \in Seq(Reports(Nat)),
           NEW x \in ThreadType, NEW y \in ThreadType, NEW b \in Seq(Reports(Nat)), NEW x2, NEW n \in Nat,
           Followed(c, o, v, l, x, y, b), y.held \in Seq(Reports(Nat)),
           NEW h \in Reports(Nat \cup {None}), h.sequence = None, x.held = <<h>>, NEW z, x2.held = <<z>>,
           z.sequence = n /\ z.cumulative = h.cumulative /\ z.quantity = h.quantity /\ z.status = h.status
               /\ z.client = h.client,
           v.lastSequence # None => v.lastSequence < n,
           \A m \in Numbers(l) \cup Numbers(y.held) \cup Numbers(b) : m < n,
           Onward(x, x2), Reporting(x) => Reporting(x2)
    PROVE  Followed(c, o, v, l, x2, y, b)
  <1> DEFINE off == Elsewhere(c, x, y, b)
             off2 == Elsewhere(c, x2, y, b)
             rest == Of(c, y.held) \cup Of(c, b)
  <1>1. Commanded(c, o, v, x2) /\ (Of(c, y.held) # {} => o.status = "Filled")
    BY OnwardKeeps DEF Followed
  <1>2. /\ Of(c, x.held) = IF h.client = c THEN {h} ELSE {}
        /\ Of(c, x2.held) = IF z.client = c THEN {z} ELSE {}
    BY OfOne
  <1>3. CASE h.client # c
    <2>1. off2 = off /\ Of(c, x.held) = {} /\ Of(c, y.held) \subseteq Of(c, y.held)
      BY <1>2, <1>3 DEF Elsewhere
    <2> QED BY <1>1, <2>1, FollowedStays
  <1>4. CASE h.client = c
    <2>1. Of(c, l) \subseteq Reports(Nat) /\ rest \subseteq Reports(Nat)
      BY OfQueue
    <2>2. \A r \in Of(c, l) \cup rest : r.sequence \in Nat /\ r.sequence # None /\ r.sequence < n
      <3>1. \A r \in Of(c, l) \cup rest : r.sequence \in Numbers(l) \cup Numbers(y.held) \cup Numbers(b)
        BY OfNumbers
      <3>2. \A r \in Of(c, l) \cup rest : r.sequence \in Nat /\ r.sequence # None
        BY <2>1, ReportsNumbered, NoneAssumption
      <3> QED BY <3>1, <3>2
    <2>3. h \notin Of(c, l) /\ h \notin rest
      BY <2>2
    <2>4. off = {h} \cup rest /\ off2 = {z} \cup rest
      BY <1>2, <1>4 DEF Elsewhere
    <2> HIDE DEF rest, off, off2
    <2>5. off2 = (off \ {h}) \cup {z} /\ h \in off
      BY <2>3, <2>4
    <2>6. \A s \in Of(c, l) \cup off : s = h \/ (s.sequence # None /\ s.sequence < n)
      BY <2>2, <2>4
    <2>7. Typed(o, v, Of(c, l) \cup off, off) /\ Settling(c, o, v, l, off)
      <3>1. off \in SUBSET Reports(Nat \cup {None})
        BY ElsewhereTyped DEF off
      <3>2. Settling(c, o, v, l, off)
        BY DEF Followed, off
      <3> QED BY <3>1, <3>2, TypedOrder
    <2>8. Settling(c, o, v, l, (off \ {h}) \cup {z})
      BY <2>3, <2>5, <2>6, <2>7, SettlingNumbered
    <2>9. Pressed(c, o, v, l, x2)
      <3>1. Pressed(c, o, v, l, x)
        BY DEF Followed
      <3>2. FillsUp(h) => FillsUp(z)
        BY DEF FillsUp
      <3> QED BY <1>2, <1>4, <3>1, <3>2 DEF Pressed
    <2> QED BY <1>1, <2>5, <2>8, <2>9 DEF Followed, off2
  <1> QED BY <1>3, <1>4

\* number: the report of the command under way.
LEMMA NumberConverges ==
    ASSUME SimInv, ConvInv, NEW t \in Threads, Number(t)
    PROVE  ConvInv'
  <1>0. PICK x, y : x = thread["cli"] /\ y = thread["feed"]
    OBVIOUS
  <1>1. t = "cli" /\ x.pc = "number" /\ y.pc # "number"
    BY <1>0 DEF Number, Threads, SimInv, ThreadInv
  <1>2. /\ x \in ThreadType /\ y \in ThreadType /\ HeldInv(x) /\ HeldInv(y) /\ Held(y) = y.held /\ Held(x) = <<>>
        /\ nextSequence \in Nat /\ bounds.first \in Nat /\ thread \in [Threads -> ThreadType]
        /\ lane \in Seq(Reports(Nat)) /\ buffered \in Seq(Reports(Nat))
    BY <1>0, <1>1, InvFacts DEF Held, Threads, SimInv, SimTypes
  <1>3. x.held \in Seq(Reports(Nat \cup {None})) /\ Len(x.held) = 1 /\ x.held[1].sequence = None
    BY <1>1, <1>2 DEF ThreadType, HeldInv
  <1>4. PICK h \in Reports(Nat \cup {None}) : h = Head(x.held) /\ x.held = <<h>> /\ h.sequence = None
    <2>1. Head(x.held) = x.held[1] /\ x.held[1] \in Reports(Nat \cup {None}) /\ x.held = <<x.held[1]>>
      BY <1>3
    <2> QED BY <1>3, <2>1, Zenon
  <1>5. PICK n \in Nat : n = nextSequence
    BY <1>2
  <1>6. PICK z : z = Numbered(h, n)
    OBVIOUS
  <1>7. z.sequence = n /\ z.cumulative = h.cumulative /\ z.quantity = h.quantity /\ z.status = h.status
        /\ z.client = h.client
    BY <1>6 DEF Numbered, Reports
  <1>8. PICK x2 : x2 = [x EXCEPT !.pc = "publish", !.held = <<z>>]
    OBVIOUS
  <1>9. x2.held = <<z>> /\ x2.pc = "publish" /\ x2.op = x.op /\ x2.cid = x.cid
    BY <1>2, <1>8 DEF ThreadType
  <1>10. thread'["cli"] = x2 /\ thread'["feed"] = y
    BY <1>0, <1>1, <1>2, <1>4, <1>5, <1>6, <1>8 DEF Number, Threads
  <1>11. UNCHANGED <<orders, view, doubt, seen, bounds, connected, lane, buffered>>
    BY DEF Number, gatewayVars
  <1>12. Onward(x, x2) /\ (Reporting(x) => Reporting(x2)) /\ Linked(x2, connected')
    BY <1>0, <1>1, <1>9, <1>11 DEF Onward, Reporting, Busy, ConvInv, Linked
  <1>13. y.held \in Seq(Reports(Nat)) /\ \A m \in Numbers(lane) \cup Numbers(y.held) \cup Numbers(buffered) : m < n
    <2>1. Accounted(Held(x), Held(y), buffered, lane, seen, bounds.first, nextSequence)
      BY <1>0, InvFacts
    <2>2. \A m \in Numbers(lane) \cup Numbers(y.held) \cup Numbers(buffered) : m \in bounds.first .. n - 1
      BY <1>2, <1>5, <2>1 DEF Accounted
    <2> QED BY <1>1, <1>2, <1>5, <2>2 DEF HeldInv
  <1>14. ASSUME NEW c \in Cids \ doubt PROVE Known(c)' /\ Follows(c)'
    <2>1. Known(c) /\ Follows(c)
      BY DEF ConvInv
    <2>2. Known(c)'
      BY <1>0, <1>10, <1>11, <1>12, <2>1, OnwardKeeps DEF Known
    <2>3. ASSUME orders[c] # None PROVE Followed(c, orders[c], view[c], lane, x2, y, buffered)
      <3>1. Followed(c, orders[c], view[c], lane, x, y, buffered)
        BY <1>0, <2>1, <2>3 DEF Follows
      <3>2. orders[c] \in SimOrderType /\ view[c] \in OrderType
        BY <2>3, OrderFacts
      <3>3. view[c].lastSequence # None => view[c].lastSequence < n
        BY <1>5, <2>3 DEF SimInv, IdentityInv, Identified
      <3> QED BY <1>2, <1>4, <1>7, <1>9, <1>12, <1>13, <3>1, <3>2, <3>3, FollowedNumbered, ZenonT(60)
    <2> QED BY <1>10, <1>11, <2>2, <2>3 DEF Follows
  <1> QED BY <1>10, <1>11, <1>12, <1>14 DEF ConvInv

\* The gateway marks its order, or takes the mark back.
Marks(o, v, u) ==
    /\ u.filled = v.filled /\ u.quantity = v.quantity /\ u.lastSequence = v.lastSequence
    /\ u.status = v.status \/ (~IsTerminal(u.status) /\ ~IsTerminal(v.status))
    /\ \/ u.pending = v.pending /\ u.pendingQuantity = v.pendingQuantity
       \/ /\ ~Squeezed(o) \/ v.status = "Filled"
          /\ o.status = "Canceled" => v.status = "Canceled"
          /\ ~IsTerminal(v.status) =>
              /\ o.quantity = v.quantity
              /\ u.pending = "Amend" => u.pendingQuantity # None /\ u.pendingQuantity # v.quantity
\* The gateway marks its order, and the simulator's is as it was.
LEMMA FollowedMarked ==
    ASSUME NEW c, NEW o \in SimOrderType, NEW v \in OrderType, NEW u, NEW l \in Seq(Reports(Nat)),
           NEW x \in ThreadType, NEW y \in ThreadType, NEW b \in Seq(Reports(Nat)), NEW x2,
           Followed(c, o, v, l, x, y, b), x.held = <<>>, x2.held = <<>>, Marks(o, v, u),
           Commanded(c, o, u, x2)
    PROVE  Followed(c, o, u, l, x2, y, b)
  <1> DEFINE off == Elsewhere(c, x, y, b)
             w == Of(c, l) \cup off
             a == Ahead(c, l, off)
  <1>1. Elsewhere(c, x2, y, b) = off
    BY DEF Elsewhere
  <1>2. Of(c, x.held) = {}
    <2>1. <<>> \in Seq(Reports(Nat))
      OBVIOUS
    <2> QED BY <2>1, OfQueue
  <1>3. Converging(o, v, w, off, a) /\ Typed(o, v, w, off)
    <2>1. off \in SUBSET Reports(Nat \cup {None})
      BY ElsewhereTyped
    <2>2. Settling(c, o, v, l, off)
      BY DEF Followed
    <2> HIDE DEF off
    <2> QED BY <2>1, <2>2, TypedOrder DEF Settling
  <1> HIDE DEF w, a, off
  <1>4. Converging(o, u, w, off, a)
    BY <1>3, ConvergingMarked DEF Marks
  <1>5. Settling(c, o, u, l, off)
    BY <1>4 DEF Settling, w, a
  <1>6. Pressed(c, o, u, l, x2)
    <2>1. v.status = "Filled" => u.status = "Filled"
      BY DEF Marks, IsTerminal
    <2> QED BY <1>2, <2>1 DEF Followed, Pressed
  <1> QED BY <1>1, <1>5, <1>6 DEF Followed

\* A step of a command that holds no report, and the gateway's order, which it makes u.
OthersKept(c) == \A d \in Cids : d # c => view'[d] = view[d]
Attended(c, u, x2) ==
    /\ Familiar(c, orders[c], u, x2, bounds.first, seen)
    /\ orders[c] # None => Followed(c, orders[c], u, lane, x2, thread["feed"], buffered)
\* Only the gateway's copy of one order changes.
LEMMA CommandConverges ==
    ASSUME SimInv, ConvInv, NEW c \in Cids, NEW x2, NEW y, thread'["cli"] = x2, thread'["feed"] = y,
           thread["feed"] = y, thread["cli"].held = <<>>, x2.held = <<>>, Busy(x2) => x2.cid = c,
           UNCHANGED <<orders, lane, buffered, seen>>, bounds'.first = bounds.first,
           OthersKept(c), doubt \subseteq doubt', Linked(x2, connected'), NEW u, view'[c] = u,
           c \notin doubt' => Attended(c, u, x2)
    PROVE  ConvInv'
  <1>0. PICK x : x = thread["cli"]
    OBVIOUS
  <1>1. ASSUME NEW d \in Cids \ doubt', d # c PROVE Known(d)' /\ Follows(d)'
    <2>1. Known(d) /\ Follows(d) /\ view'[d] = view[d]
      BY <1>1 DEF ConvInv, OthersKept
    <2>2. /\ Placing(d, orders[d], view[d], x2) /\ Commanded(d, orders[d], view[d], x2)
      BY <1>1 DEF Placing, Commanded, Busy
    <2>3. Known(d)'
      BY <2>1, <2>2 DEF Known, Familiar
    <2>4. ASSUME orders[d] # None PROVE Followed(d, orders[d], view[d], lane, x2, y, buffered)
      <3>1. Followed(d, orders[d], view[d], lane, x, y, buffered)
        BY <1>0, <2>1, <2>4 DEF Follows
      <3>2. /\ orders[d] \in SimOrderType /\ view[d] \in OrderType /\ x \in ThreadType /\ y \in ThreadType
            /\ lane \in Seq(Reports(Nat)) /\ buffered \in Seq(Reports(Nat)) /\ x.held = <<>>
        BY <1>0, <2>4, OrderFacts
      <3>3. Marks(orders[d], view[d], view[d])
        BY DEF Marks
      <3> QED BY <2>2, <3>1, <3>2, <3>3, FollowedMarked
    <2> QED BY <2>1, <2>3, <2>4 DEF Follows
  <1>2. c \notin doubt' => Known(c)' /\ Follows(c)'
    BY DEF Known, Follows, Attended
  <1> QED BY <1>1, <1>2 DEF ConvInv

\* A command begins.
Begun(op, c, q) == {x \in ThreadType : /\ x.op = op /\ x.cid = c /\ x.quantity = q /\ x.held = <<>>
                                       /\ x.pc \in {"locked", "uncertain"}}
\* The command that begins finds the order as it marked it.
LEMMA BeginConverges ==
    ASSUME SimInv, ConvInv, NEW op \in Commands, NEW c \in Cids, NEW q \in Nat, Begin(op, c, q),
           NEW u \in OrderType, view' = [view EXCEPT ![c] = u],
           \A x2 \in Begun(op, c, q) : c \notin doubt => Familiar(c, orders[c], u, x2, bounds.first, seen),
           \A x2 \in Begun(op, c, q) : c \notin doubt /\ orders[c] # None =>
                Marks(orders[c], view[c], u) /\ Commanded(c, orders[c], u, x2)
    PROVE  ConvInv'
  <1>0. PICK x, y, x2 : /\ x = thread["cli"] /\ y = thread["feed"]
                        /\ x2 = [Idle EXCEPT !.op = op, !.cid = c, !.quantity = q,
                                             !.pc = IF connected THEN "locked" ELSE "uncertain"]
    OBVIOUS
  <1>1. /\ x2.op = op /\ x2.cid = c /\ x2.quantity = q /\ x2.held = <<>>
        /\ x2.pc = (IF connected THEN "locked" ELSE "uncertain")
    BY <1>0 DEF Idle
  <1>2. /\ x.pc = "idle" /\ thread' = [thread EXCEPT !["cli"] = x2]
        /\ UNCHANGED <<orders, connected, buffered, lane, doubt, seen>>
        /\ bounds' = [bounds EXCEPT !.calls = @ + 1]
    BY <1>0 DEF Begin, venueVars
  <1>3. /\ thread'["cli"] = x2 /\ thread'["feed"] = y /\ x.held = <<>> /\ bounds'.first = bounds.first
        /\ view'[c] = u /\ \A d \in Cids : d # c => view'[d] = view[d]
    BY <1>0, <1>2 DEF SimInv, SimTypes, Threads, ThreadInv, HeldInv
  <1>4. Linked(x2, connected')
    BY <1>1, <1>2 DEF Linked
  <1>5. x2 \in Begun(op, c, q)
    <2>1. Idle \in ThreadType
      BY IdleIs
    <2>2. x2 \in ThreadType
      BY <1>0, <2>1 DEF ThreadType, ThreadSteps
    <2> QED BY <1>1, <2>2 DEF Begun
  <1>6. ASSUME c \notin doubt, orders[c] # None
        PROVE  Followed(c, orders[c], u, lane, x2, y, buffered)
    <2>1. Followed(c, orders[c], view[c], lane, x, y, buffered)
      BY <1>0, <1>6 DEF ConvInv, Follows
    <2>2. /\ orders[c] \in SimOrderType /\ view[c] \in OrderType /\ x \in ThreadType /\ y \in ThreadType
          /\ lane \in Seq(Reports(Nat)) /\ buffered \in Seq(Reports(Nat))
      BY <1>0, <1>6, OrderFacts
    <2>3. Marks(orders[c], view[c], u) /\ Commanded(c, orders[c], u, x2)
      BY <1>5, <1>6
    <2> QED BY <1>1, <1>3, <2>1, <2>2, <2>3, FollowedMarked
  <1>7. c \notin doubt' => Attended(c, u, x2)
    BY <1>0, <1>2, <1>5, <1>6 DEF Attended
  <1>8. OthersKept(c)
    BY <1>3 DEF OthersKept
  <1>9. Busy(x2) => x2.cid = c
    BY <1>1
  <1>10. /\ UNCHANGED <<orders, lane, buffered, seen>> /\ doubt \subseteq doubt'
         /\ thread["feed"] = y /\ thread["cli"].held = <<>> /\ x2.held = <<>>
    BY <1>0, <1>1, <1>2, <1>3
  <1> QED BY <1>3, <1>4, <1>7, <1>8, <1>9, <1>10, CommandConverges

\* An order that the gateway may change has been neither used up nor canceled by the simulator, and
\* both have the same quantity.
LEMMA ChangeableIs ==
    ASSUME ConvInv, NEW c \in Cids \ doubt, Changeable(c), orders[c] # None
    PROVE  ~Squeezed(orders[c]) /\ orders[c].status # "Canceled" /\ orders[c].quantity = view[c].quantity
  <1>0. PICK o, v, w, off, ahead : o = orders[c] /\ v = view[c] /\ Converging(o, v, w, off, ahead)
    BY DEF ConvInv, Follows, Followed, Settling
  <1>1. ~IsTerminal(v.status) /\ v.pending = "None" /\ v.status \notin {"Filled", "Canceled"}
    BY <1>0 DEF Changeable, IsTerminal
  <1>2. Squeeze(o, v, w, ahead) /\ Ends(o, v, w) /\ Awaits(o, v, w)
    BY <1>0 DEF Converging
  <1>3. ~Squeezed(o)
    BY <1>1, <1>2 DEF Squeeze
  <1>4. o.status # "Canceled"
    BY <1>1, <1>2 DEF Ends
  <1>5. o.quantity = v.quantity
    BY <1>1, <1>2 DEF Awaits
  <1> QED BY <1>0, <1>3, <1>4, <1>5
\* place, cancel and amend begin.
LEMMA BeginsConverge ==
    ASSUME SimInv, ConvInv, NEW c \in Cids
    PROVE  /\ CancelBegin(c) => ConvInv'
           /\ \A q \in SimQuantities : PlaceBegin(c, q) \/ AmendBegin(c, q) => ConvInv'
  <1>0. PICK o, v : o = orders[c] /\ v = view[c]
    OBVIOUS
  <1>1. (v # None => v \in OrderType) /\ c \in STRING
    BY <1>0, OrderFacts, SimAssumption
  <1>2. ASSUME NEW q \in SimQuantities, PlaceBegin(c, q) PROVE ConvInv'
    <2>1. q \in Nat /\ q > 0 /\ "place" \in Commands
      BY SimAssumption DEF Commands
    <2>2. PICK u : u = MakeOrder(c, None, q)
      OBVIOUS
    <2>3. /\ u \in OrderType /\ u.clients = {c} /\ u.offsets = [e \in ExchangeIds |-> 0]
          /\ u.pendingPrice = None /\ u.events = {} /\ u.filled = 0 /\ u.quantity = q
          /\ u.pending = "New" /\ u.status = "Unknown"
      BY <1>1, <2>1, <2>2 DEF MakeOrder, OrderType, Statuses, PendingActions
    <2>4. view[c] = None /\ view' = [view EXCEPT ![c] = u] /\ Begin("place", c, q)
      BY <1>2, <2>2 DEF PlaceBegin
    <2>5. orders[c] = None
      BY <2>4, OrderFacts
    <2>6. Plain(c, u)
      BY <2>1, <2>3 DEF Plain
    <2>7. \A x2 \in Begun("place", c, q) : Familiar(c, orders[c], u, x2, bounds.first, seen)
      BY <2>3, <2>5, <2>6 DEF Familiar, Remembers, Placing, Begun
    <2> QED BY <2>1, <2>3, <2>4, <2>5, <2>7, BeginConverges
  <1>3. ASSUME CancelBegin(c) PROVE ConvInv'
    <2>1. PICK u : u = [v EXCEPT !.pending = "Cancel"]
      OBVIOUS
    <2>2. /\ Changeable(c) /\ view' = [view EXCEPT ![c] = u] /\ Begin("cancel", c, 0)
          /\ "cancel" \in Commands /\ 0 \in Nat
      BY <1>0, <1>3, <2>1 DEF CancelBegin, Commands
    <2>3. v \in OrderType /\ ~IsTerminal(v.status)
      BY <1>0, <1>1, <2>2 DEF Changeable
    <2>4. /\ u \in OrderType /\ u.clients = v.clients /\ u.offsets = v.offsets /\ u.status = v.status
          /\ u.pendingPrice = v.pendingPrice /\ u.events = v.events /\ u.filled = v.filled
          /\ u.quantity = v.quantity /\ u.lastSequence = v.lastSequence /\ u.pending = "Cancel"
      BY <2>1, <2>3 DEF OrderType, PendingActions
    <2>5. ASSUME NEW x2 \in Begun("cancel", c, 0), c \notin doubt
          PROVE  Familiar(c, orders[c], u, x2, bounds.first, seen)
      <3>1. Known(c) /\ v # None /\ x2.op = "cancel"
        BY <1>0, <2>2, <2>5 DEF ConvInv, Changeable, Begun
      <3>2. Plain(c, v) /\ Remembers(orders[c], v, bounds.first, seen)
        BY <1>0, <3>1 DEF Known, Familiar
      <3> QED BY <2>4, <3>1, <3>2 DEF Familiar, Plain, Remembers, Placing
    <2>6. ASSUME NEW x2 \in Begun("cancel", c, 0), c \notin doubt, orders[c] # None
          PROVE  Marks(orders[c], view[c], u) /\ Commanded(c, orders[c], u, x2)
      <3>1. ~Squeezed(o) /\ o.status # "Canceled" /\ o.quantity = v.quantity /\ x2.op = "cancel"
        BY <1>0, <2>2, <2>6, ChangeableIs DEF Begun
      <3>2. Marks(o, v, u)
        BY <2>4, <3>1 DEF Marks
      <3>3. Commanded(c, o, u, x2)
        BY <2>3, <2>4, <3>1 DEF Commanded
      <3> QED BY <1>0, <3>2, <3>3
    <2> QED BY <2>2, <2>4, <2>5, <2>6, BeginConverges
  <1>4. ASSUME NEW q \in SimQuantities, AmendBegin(c, q) PROVE ConvInv'
    <2>1. PICK u : u = [v EXCEPT !.pending = "Amend", !.pendingQuantity = q]
      OBVIOUS
    <2>2. /\ Changeable(c) /\ view' = [view EXCEPT ![c] = u] /\ Begin("amend", c, q)
          /\ "amend" \in Commands /\ q \in Nat /\ q # v.quantity
      BY <1>0, <1>4, <2>1, SimAssumption DEF AmendBegin, Commands
    <2>3. v \in OrderType /\ ~IsTerminal(v.status) /\ q # None
      BY <1>0, <1>1, <2>2, NoneAssumption DEF Changeable
    <2>4. /\ u \in OrderType /\ u.clients = v.clients /\ u.offsets = v.offsets /\ u.status = v.status
          /\ u.pendingPrice = v.pendingPrice /\ u.events = v.events /\ u.filled = v.filled
          /\ u.quantity = v.quantity /\ u.lastSequence = v.lastSequence /\ u.pending = "Amend"
          /\ u.pendingQuantity = q
      BY <2>1, <2>2, <2>3 DEF OrderType, PendingActions
    <2>5. ASSUME NEW x2 \in Begun("amend", c, q), c \notin doubt
          PROVE  Familiar(c, orders[c], u, x2, bounds.first, seen)
      <3>1. Known(c) /\ v # None /\ x2.op = "amend"
        BY <1>0, <2>2, <2>5 DEF ConvInv, Changeable, Begun
      <3>2. Plain(c, v) /\ Remembers(orders[c], v, bounds.first, seen)
        BY <1>0, <3>1 DEF Known, Familiar
      <3> QED BY <2>2, <2>3, <2>4, <3>1, <3>2 DEF Familiar, Plain, Remembers, Placing
    <2>6. ASSUME NEW x2 \in Begun("amend", c, q), c \notin doubt, orders[c] # None
          PROVE  Marks(orders[c], view[c], u) /\ Commanded(c, orders[c], u, x2)
      <3>1. ~Squeezed(o) /\ o.status # "Canceled" /\ o.quantity = v.quantity /\ x2.op = "amend" /\ x2.quantity = q
        BY <1>0, <2>2, <2>6, ChangeableIs DEF Begun
      <3>2. Marks(o, v, u)
        BY <2>2, <2>3, <2>4, <3>1 DEF Marks
      <3>3. Commanded(c, o, u, x2)
        BY <2>3, <2>4, <3>1 DEF Commanded
      <3> QED BY <1>0, <3>2, <3>3
    <2> QED BY <2>2, <2>4, <2>5, <2>6, BeginConverges
  <1> QED BY <1>2, <1>3, <1>4

\* A refused order is over, and otherwise as it was.
LEMMA RejectionEnds ==
    ASSUME NEW v \in OrderType, NEW r \in ReportType, v.filled < v.quantity, ~IsTerminal(v.status),
           v.pendingPrice = None,
           r = [event |-> None, client |-> None, exid |-> None, status |-> "Rejected",
                cumulative |-> v.filled, price |-> None, quantity |-> None, sequence |-> None]
    PROVE  LET u == Apply(v, r) IN
           /\ u.status = "Rejected" /\ u.clients = v.clients /\ u.offsets = v.offsets
           /\ u.pendingPrice = None /\ u.events = v.events /\ u.lastSequence = v.lastSequence
  <1>1. /\ r.event = None /\ r.client = None /\ r.exid = None /\ r.status = "Rejected" /\ r.cumulative = v.filled
        /\ r.price = None /\ r.quantity = None /\ r.sequence = None /\ v.filled \in Nat /\ v.quantity \in Nat
    BY DEF OrderType
  <1>2. ~OtherGeneration(v, r) /\ ~IsHistoricalGeneration(v, r) /\ ~StaleSequence(v, r) /\ ~IsDuplicate(v, r)
    BY <1>1 DEF OtherGeneration, IsHistoricalGeneration, StaleSequence, IsDuplicate
  <1>3. AggregateFilled(v, r) = v.filled /\ EffectiveQuantity(v, r) = v.quantity
    <2>1. OffsetFor(v, r.exid) = 0
      BY <1>1, NoneAssumption DEF OffsetFor
    <2> QED BY <1>1, <2>1 DEF AggregateFilled, EffectiveQuantity
  <1>4. ~IsInvalid(v, r)
    BY <1>1, <1>2, <1>3 DEF IsInvalid
  <1>5. Apply(v, r) = Merge(v, r)
    BY <1>2, <1>4 DEF Apply, Disposition
  <1>6. MergeTerms(v, r) = v
    <2>1. MergeTerms(v, r) = [v EXCEPT !.price = v.price, !.quantity = v.quantity]
      BY <1>1, <1>2 DEF MergeTerms, OrderType
    <2> QED BY <2>1 DEF OrderType
  <1>7. DeriveStatus(v, r, v.filled, FALSE, FALSE) = "Rejected"
    <2>1. ~(v.filled >= v.quantity)
      BY <1>1
    <2> QED BY <1>1, <2>1 DEF DeriveStatus
  <1> DEFINE f == MergeFills(v, r)
             u == Merge(v, r)
  <1>8. f \in OrderType
    BY <1>4, MergeFillsType
  <1>9. f = [v EXCEPT !.status = "Rejected", !.filled = FilledAfter(v, "Rejected", v.filled), !.exid = @,
                      !.lastSequence = @, !.events = @]
    <2>1. DeriveStatus(MergeTerms(v, r), r, AggregateFilled(v, r), IsHistoricalGeneration(v, r), StaleSequence(v, r))
             = "Rejected"
      <3>1. IsHistoricalGeneration(v, r) = FALSE /\ StaleSequence(v, r) = FALSE
        BY <1>2 DEF IsHistoricalGeneration, StaleSequence
      <3> QED BY <1>3, <1>6, <1>7, <3>1
    <2> QED BY <1>1, <1>3, <1>6, <2>1, ZenonT(60) DEF MergeFills
  <1> HIDE DEF f
  <1>10. /\ f.status = "Rejected" /\ f.clients = v.clients /\ f.offsets = v.offsets
         /\ f.pendingPrice = None /\ f.events = v.events /\ f.lastSequence = v.lastSequence
    BY <1>9 DEF OrderType
  <1>11. u = f \/ u = [f EXCEPT !.pending = "None", !.pendingPrice = None, !.pendingQuantity = None]
    BY DEF Merge, f
  <1> HIDE DEF u
  <1>12. /\ u.status = "Rejected" /\ u.clients = v.clients /\ u.offsets = v.offsets
         /\ u.pendingPrice = None /\ u.events = v.events /\ u.lastSequence = v.lastSequence
    BY <1>8, <1>10, <1>11 DEF OrderType
  <1> QED BY <1>5, <1>12 DEF u

\* The simulator refuses a command.
LEMMA RefusalConverges ==
    ASSUME SimInv, ConvInv, thread["cli"].pc = "locked", thread["cli"].op \in Commands, Goto("cli", "reject"),
           UNCHANGED <<orders, view, doubt, lane, buffered, seen, bounds, connected>>
    PROVE  ConvInv'
  <1>0. PICK x, y, x2 : /\ x = thread["cli"] /\ y = thread["feed"] /\ x2 = [x EXCEPT !.pc = "reject"]
    OBVIOUS
  <1>1. /\ x \in ThreadType /\ thread \in [Threads -> ThreadType] /\ HeldInv(x) /\ CommandInv(x) /\ x.pc = "locked"
        /\ x.op \in Commands /\ Linked(x, connected)
    BY <1>0 DEF SimInv, SimTypes, ThreadInv, ConvInv, Threads
  <1>2. PICK c \in Cids : c = x.cid
    BY <1>1 DEF CommandInv, Busy
  <1>3. x2.pc = "reject" /\ x2.op = x.op /\ x2.cid = c /\ x2.quantity = x.quantity /\ x2.held = <<>> /\ x.held = <<>>
    BY <1>0, <1>1, <1>2 DEF ThreadType, HeldInv
  <1>4. thread'["cli"] = x2 /\ thread'["feed"] = y
    BY <1>0, <1>1 DEF Goto, Threads
  <1>5. Linked(x2, connected')
    BY <1>1, <1>3 DEF Linked, Busy
  <1>6. x.op = "place" => orders[c] = None
    BY <1>1, <1>2 DEF CommandInv
  <1>7. ASSUME c \notin doubt PROVE Attended(c, view[c], x2)
    <2>1. Known(c) /\ Follows(c)
      BY <1>7 DEF ConvInv
    <2>2. Familiar(c, orders[c], view[c], x2, bounds.first, seen)
      BY <1>0, <1>1, <1>2, <1>3, <2>1 DEF Known, Familiar, Placing
    <2>3. ASSUME orders[c] # None PROVE Followed(c, orders[c], view[c], lane, x2, y, buffered)
      <3>1. Followed(c, orders[c], view[c], lane, x, y, buffered)
        BY <1>0, <2>1, <2>3 DEF Follows
      <3>2. Commanded(c, orders[c], view[c], x2)
        <4>1. Commanded(c, orders[c], view[c], x)
          BY <3>1 DEF Followed
        <4> QED BY <1>1, <1>2, <1>3, <1>6, <2>3, <4>1 DEF Commanded
      <3>3. /\ orders[c] \in SimOrderType /\ view[c] \in OrderType /\ x \in ThreadType /\ y \in ThreadType
            /\ lane \in Seq(Reports(Nat)) /\ buffered \in Seq(Reports(Nat))
        BY <1>0, <2>3, OrderFacts
      <3>4. Marks(orders[c], view[c], view[c])
        BY DEF Marks
      <3> QED BY <1>3, <3>1, <3>2, <3>3, <3>4, FollowedMarked
    <2> QED BY <1>0, <2>2, <2>3 DEF Attended
  <1>8. OthersKept(c) /\ view'[c] = view[c] /\ bounds'.first = bounds.first /\ doubt \subseteq doubt'
    BY DEF OthersKept
  <1>9. thread["feed"] = y /\ thread["cli"].held = <<>> /\ x2.held = <<>> /\ (Busy(x2) => x2.cid = c)
        /\ (c \notin doubt' => Attended(c, view[c], x2)) /\ UNCHANGED <<orders, lane, buffered, seen>>
    BY <1>0, <1>3, <1>7
  <1> QED BY <1>4, <1>5, <1>8, <1>9, CommandConverges

\* The gateway takes the answer to its command.
LEMMA AnswerConverges ==
    ASSUME SimInv, ConvInv, NEW c \in Cids, c = Mine, thread["cli"].pc \in {"ack", "reject", "uncertain"},
           NEW u \in OrderType, Answer(u), doubt \subseteq doubt',
           c \notin doubt' => Plain(c, u) /\ Remembers(orders[c], u, bounds.first, seen),
           c \notin doubt' /\ orders[c] # None => Marks(orders[c], view[c], u)
    PROVE  ConvInv'
  <1>0. PICK x, y : x = thread["cli"] /\ y = thread["feed"]
    OBVIOUS
  <1>1. /\ x \in ThreadType /\ thread \in [Threads -> ThreadType] /\ HeldInv(x) /\ x.held = <<>>
        /\ view \in [Cids -> OrderType \cup {None}]
    BY <1>0 DEF SimInv, SimTypes, ThreadInv, HeldInv, Threads
  <1>2. /\ thread'["cli"] = Idle /\ thread'["feed"] = y /\ Idle.held = <<>> /\ ~Busy(Idle) /\ Idle.pc = "idle"
    BY <1>0, <1>1, IdleIs DEF Answer, Threads
  <1>3. /\ view'[c] = u /\ OthersKept(c) /\ UNCHANGED <<orders, lane, buffered, seen, bounds, connected>>
    BY <1>1 DEF Answer, OthersKept, venueVars
  <1>4. Linked(Idle, connected') /\ \A o, v : Commanded(c, o, v, Idle) /\ Placing(c, o, v, Idle)
    BY <1>2 DEF Linked, Commanded, Placing
  <1>5. ASSUME c \notin doubt' PROVE Attended(c, u, Idle)
    <2>1. Familiar(c, orders[c], u, Idle, bounds.first, seen)
      BY <1>4, <1>5 DEF Familiar
    <2>2. ASSUME orders[c] # None PROVE Followed(c, orders[c], u, lane, Idle, y, buffered)
      <3>1. Followed(c, orders[c], view[c], lane, x, y, buffered)
        BY <1>0, <1>5, <2>2 DEF ConvInv, Follows
      <3>2. /\ orders[c] \in SimOrderType /\ view[c] \in OrderType /\ x \in ThreadType /\ y \in ThreadType
            /\ lane \in Seq(Reports(Nat)) /\ buffered \in Seq(Reports(Nat))
        BY <1>0, <2>2, OrderFacts
      <3>3. Marks(orders[c], view[c], u) /\ Commanded(c, orders[c], u, Idle)
        BY <1>4, <1>5, <2>2
      <3> QED BY <1>1, <1>2, <3>1, <3>2, <3>3, FollowedMarked
    <2> QED BY <1>0, <2>1, <2>2 DEF Attended
  <1>6. /\ thread["feed"] = y /\ thread["cli"].held = <<>> /\ (Busy(Idle) => Idle.cid = c)
        /\ bounds'.first = bounds.first /\ UNCHANGED <<orders, lane, buffered, seen>>
    BY <1>0, <1>1, <1>2, <1>3
  <1>7. c \notin doubt' => Attended(c, u, Idle)
    BY <1>5
  <1> QED BY <1>2, <1>3, <1>4, <1>6, <1>7, CommandConverges

\* Acknowledged, rejected, or without an answer.
LEMMA AnswersConverge ==
    ASSUME SimInv, ConvInv, Acked \/ Rejected \/ Uncertain
    PROVE  ConvInv'
  <1>1. thread["cli"].pc \in {"ack", "reject", "uncertain"}
    BY DEF Acked, Rejected, Uncertain
  <1>2. PICK c \in Cids : c = Mine /\ view[c] # None
    BY <1>1 DEF SimInv, ThreadInv, CommandInv, Busy, Mine
  <1>3. PICK x, o, v : x = thread["cli"] /\ o = orders[c] /\ v = view[c]
    OBVIOUS
  <1>4. /\ v \in OrderType /\ x.cid = c /\ Busy(x) /\ CommandInv(x) /\ x.op \in Commands
    BY <1>1, <1>2, <1>3, OrderFacts DEF SimInv, ThreadInv, CommandInv, Mine, Busy
  <1>5. ASSUME c \notin doubt PROVE Plain(c, v) /\ Remembers(o, v, bounds.first, seen) /\ Placing(c, o, v, x)
    BY <1>2, <1>3, <1>5 DEF ConvInv, Known, Familiar
  <1>6. ASSUME c \notin doubt, o # None
        PROVE  Commanded(c, o, v, x) /\ \E w, off, ahead : Converging(o, v, w, off, ahead)
    BY <1>3, <1>6 DEF ConvInv, Follows, Followed, Settling
  <1>7. CASE Acked
    <2>1. doubt' = doubt /\ x.pc = "ack" /\ o # None
      BY <1>3, <1>4, <1>7 DEF Acked, CommandInv
    <2>2. CASE x.op # "place"
      <3>1. Answer(v)
        BY <1>2, <1>3, <1>7, <2>2 DEF Acked
      <3>2. Marks(o, v, v)
        BY DEF Marks
      <3> QED BY <1>1, <1>2, <1>3, <1>4, <1>5, <2>1, <3>1, <3>2, AnswerConverges
    <2>3. CASE x.op = "place"
      <3>0. PICK u : u = [v EXCEPT !.exid = o.exid, !.pending = "None",
                                   !.status = IF @ = "Unknown" THEN "Live" ELSE @]
        OBVIOUS
      <3>1. Answer(u)
        BY <1>2, <1>3, <1>7, <2>3, <3>0 DEF Acked
      <3>2. o \in SimOrderType /\ o.exid \in ExchangeIds \cup {None}
        BY <1>3, <2>1, OrderFacts DEF SimOrderType
      <3>3. /\ u \in OrderType /\ u.clients = v.clients /\ u.offsets = v.offsets /\ u.pending = "None"
            /\ u.pendingPrice = v.pendingPrice /\ u.events = v.events /\ u.filled = v.filled
            /\ u.quantity = v.quantity /\ u.lastSequence = v.lastSequence
            /\ u.status = (IF v.status = "Unknown" THEN "Live" ELSE v.status)
        BY <1>4, <3>0, <3>2, ZenonT(60) DEF OrderType, PendingActions, Statuses
      <3>4. u.status = v.status \/ (~IsTerminal(u.status) /\ ~IsTerminal(v.status))
        BY <3>3 DEF IsTerminal
      <3>5. c \notin doubt => Plain(c, u) /\ Remembers(o, u, bounds.first, seen)
        <4>1. ~IsTerminal(u.status) => ~IsTerminal(v.status)
          BY <3>4
        <4> QED BY <1>5, <3>3, <4>1 DEF Plain, Remembers
      <3>6. ASSUME c \notin doubt PROVE Marks(o, v, u)
        <4>1. v.pending \in {"New", "None"}
          BY <1>4, <1>6, <2>1, <2>3, <3>6 DEF Commanded
        <4>2. PICK w, off, ahead : Converging(o, v, w, off, ahead)
          BY <1>6, <2>1, <3>6
        <4>3. ~Squeezed(o) \/ v.status = "Filled"
          BY <4>1, <4>2 DEF Converging, Squeeze
        <4>4. o.status = "Canceled" => v.status = "Canceled"
          BY <4>1, <4>2 DEF Converging, Ends
        <4>5. ~IsTerminal(v.status) => o.quantity = v.quantity
          BY <4>1, <4>2 DEF Converging, Awaits
        <4> QED BY <3>3, <3>4, <4>3, <4>4, <4>5 DEF Marks
      <3> QED BY <1>1, <1>2, <1>3, <2>1, <3>1, <3>3, <3>5, <3>6, AnswerConverges
    <2> QED BY <2>2, <2>3
  <1>8. CASE Rejected
    <2>1. doubt' = doubt /\ x.pc = "reject"
      BY <1>3, <1>8 DEF Rejected
    <2>2. CASE x.op # "place"
      <3>0. PICK u : u = [v EXCEPT !.pending = "None", !.pendingQuantity = None]
        OBVIOUS
      <3>1. Answer(u)
        BY <1>2, <1>3, <1>8, <2>2, <3>0 DEF Rejected
      <3>2. /\ u \in OrderType /\ u.clients = v.clients /\ u.offsets = v.offsets /\ u.pending = "None"
            /\ u.pendingPrice = v.pendingPrice /\ u.events = v.events /\ u.filled = v.filled
            /\ u.quantity = v.quantity /\ u.lastSequence = v.lastSequence /\ u.status = v.status
        BY <1>4, <3>0 DEF OrderType, PendingActions
      <3>3. c \notin doubt => Plain(c, u) /\ Remembers(o, u, bounds.first, seen)
        BY <1>5, <3>2 DEF Plain, Remembers
      <3>4. ASSUME c \notin doubt, o # None PROVE Marks(o, v, u)
        <4>1. /\ ~Squeezed(o) /\ o.status # "Canceled" /\ (~IsTerminal(v.status) => o.quantity = v.quantity)
          BY <1>4, <1>6, <2>1, <2>2, <3>4 DEF Commanded, Commands
        <4> QED BY <3>2, <4>1 DEF Marks
      <3> QED BY <1>1, <1>2, <1>3, <2>1, <3>1, <3>2, <3>3, <3>4, AnswerConverges
    <2>3. CASE x.op = "place"
      <3>0. PICK r, u : r = Rejection /\ u = Apply(v, r)
        OBVIOUS
      <3>1. r = [event |-> None, client |-> None, exid |-> None, status |-> "Rejected",
                 cumulative |-> v.filled, price |-> None, quantity |-> None, sequence |-> None]
        BY <1>2, <1>3, <3>0 DEF Rejection
      <3>2. r \in ReportType
        BY <1>4, <3>1 DEF ReportType, OrderType, Statuses
      <3>3. Answer(u) /\ u \in OrderType
        BY <1>2, <1>3, <1>4, <1>8, <2>3, <3>0, <3>2, ApplyType DEF Rejected
      <3>4. ASSUME c \notin doubt PROVE o = None /\ Plain(c, u) /\ Remembers(o, u, bounds.first, seen)
        <4>1. o = None /\ v.status = "Unknown" /\ Plain(c, v)
          BY <1>4, <1>5, <2>1, <2>3, <3>4 DEF Placing
        <4>2. ~IsTerminal(v.status) /\ v.filled < v.quantity /\ v.pendingPrice = None
          BY <4>1 DEF Plain, IsTerminal
        <4>3. /\ u.status = "Rejected" /\ u.clients = v.clients /\ u.offsets = v.offsets
              /\ u.pendingPrice = None /\ u.events = v.events /\ u.lastSequence = v.lastSequence
          BY <1>4, <3>0, <3>1, <3>2, <4>2, RejectionEnds
        <4>4. IsTerminal(u.status)
          BY <4>3 DEF IsTerminal
        <4> QED BY <4>1, <4>3, <4>4 DEF Plain, Remembers
      <3> QED BY <1>1, <1>2, <1>3, <2>1, <3>3, <3>4, AnswerConverges
    <2> QED BY <2>2, <2>3
  <1>9. CASE Uncertain
    <2>0. PICK p, u : /\ p = CASE x.op = "place" -> "Reconcile"
                                [] x.op = "cancel" -> "Cancel"
                                [] OTHER -> "Amend"
                      /\ u = [v EXCEPT !.status = "Unknown", !.pending = p]
      OBVIOUS
    <2>1. u \in OrderType
      <3>1. p \in PendingActions
        BY <2>0 DEF PendingActions
      <3> QED BY <1>4, <2>0, <3>1 DEF OrderType, Statuses
    <2>2. Answer(u) /\ doubt' = doubt \cup {c}
      BY <1>2, <1>3, <1>9, <2>0 DEF Uncertain
    <2> QED BY <1>1, <1>2, <2>1, <2>2, AnswerConverges
  <1> QED BY <1>7, <1>8, <1>9
-----------------------------------------------------------------------------
\* The simulator acts on the order c, and the command holds the report of it.
LEMMA ActConverges ==
    ASSUME SimInv, ConvInv, NEW c \in Cids, NEW o2 \in SimOrderType, orders' = [orders EXCEPT ![c] = o2],
           NEW x2, NEW y, thread'["cli"] = x2, thread'["feed"] = y, thread["feed"] = y,
           thread["cli"].held = <<>>, x2.cid = c, x2.pc \in {"number", "match"},
           \A d \in Cids : d # c => Of(d, x2.held) = {},
           UNCHANGED <<view, lane, buffered, seen, connected>>, bounds'.first = bounds.first, doubt \subseteq doubt',
           Linked(x2, connected), orders[c] = None /\ c \notin doubt' => view[c].events = {},
           c \notin doubt' => Followed(c, o2, view[c], lane, x2, y, buffered)
    PROVE  ConvInv'
  <1>0. PICK x : x = thread["cli"]
    OBVIOUS
  <1>1. orders'[c] = o2 /\ \A d \in Cids : d # c => orders'[d] = orders[d]
    BY DEF SimInv, SimTypes
  <1>2. Of(c, x.held) = {} /\ \A d \in Cids : Of(d, x.held) = {}
    <2>1. <<>> \in Seq(Reports(Nat))
      OBVIOUS
    <2> QED BY <1>0, <2>1, OfQueue
  <1>3. \A d, o, v : Placing(d, o, v, x2)
    BY DEF Placing
  <1>4. ASSUME NEW d \in Cids \ doubt', d # c PROVE Known(d)' /\ Follows(d)'
    <2>1. Known(d) /\ Follows(d) /\ orders'[d] = orders[d]
      BY <1>1, <1>4 DEF ConvInv
    <2>2. Known(d)'
      BY <1>3, <2>1 DEF Known, Familiar
    <2>3. ASSUME orders[d] # None PROVE Followed(d, orders[d], view[d], lane, x2, y, buffered)
      <3>1. Followed(d, orders[d], view[d], lane, x, y, buffered)
        BY <1>0, <2>1, <2>3 DEF Follows
      <3>2. /\ orders[d] \in SimOrderType /\ view[d] \in OrderType /\ x \in ThreadType /\ y \in ThreadType
            /\ lane \in Seq(Reports(Nat)) /\ buffered \in Seq(Reports(Nat))
        BY <1>0, <2>3, OrderFacts
      <3>3. Of(d, x.held) = {} /\ Of(d, x2.held) = {}
        BY <1>2, <1>4
      <3>4. Elsewhere(d, x, y, buffered) = Elsewhere(d, x2, y, buffered)
        BY <3>3 DEF Elsewhere
      <3>5. Commanded(d, orders[d], view[d], x2)
        BY <1>4 DEF Commanded
      <3> QED BY <3>1, <3>2, <3>3, <3>4, <3>5, FollowedStays
    <2> QED BY <2>1, <2>2, <2>3 DEF Follows
  <1>5. ASSUME c \notin doubt' PROVE Known(c)' /\ Follows(c)'
    <2>1. Familiar(c, orders[c], view[c], x, bounds.first, seen)
      BY <1>0, <1>5 DEF ConvInv, Known
    <2>2. Familiar(c, o2, view[c], x2, bounds.first, seen)
      BY <1>3, <1>5, <2>1 DEF Familiar, Remembers
    <2>3. Known(c)'
      BY <1>1, <2>2 DEF Known
    <2>4. Follows(c)'
      BY <1>1, <1>5 DEF Follows
    <2> QED BY <2>3, <2>4
  <1> QED BY <1>4, <1>5 DEF ConvInv

\* No report is on its way of an order that the simulator does not have.
LEMMA NotReported ==
    ASSUME NEW c, NEW q, Reported(q), orders[c] = None
    PROVE  Of(c, q) = {}
  BY DEF Of, Places, Reported

\* Before the simulator acts on an order that it has, and has not filled.
Poised(c, o, v, l, x, y, b, off) ==
    /\ Typed(o, v, Of(c, l) \cup off, off)
    /\ Converging(o, v, Of(c, l) \cup off, off, Ahead(c, l, off))
    /\ Commanded(c, o, v, x) /\ Pressed(c, o, v, l, x)
    /\ off = Of(c, b) /\ Of(c, y.held) = {}
\* What is known of the order when a command has the lock.
LEMMA BeforeActing ==
    ASSUME SimInv, ConvInv, NEW c \in Cids \ doubt, orders[c] # None, thread["cli"].held = <<>>,
           orders[c].status # "Filled"
    PROVE  Poised(c, orders[c], view[c], lane, thread["cli"], thread["feed"], buffered,
                  Elsewhere(c, thread["cli"], thread["feed"], buffered))
  <1>0. PICK o, v, l, x, y, b, off :
            /\ o = orders[c] /\ v = view[c] /\ l = lane /\ x = thread["cli"] /\ y = thread["feed"] /\ b = buffered
            /\ off = Elsewhere(c, x, y, b)
    OBVIOUS
  <1>1. Followed(c, o, v, l, x, y, b)
    BY <1>0 DEF ConvInv, Follows
  <1>2. /\ o \in SimOrderType /\ v \in OrderType /\ x \in ThreadType /\ y \in ThreadType
        /\ l \in Seq(Reports(Nat)) /\ b \in Seq(Reports(Nat))
    BY <1>0, OrderFacts
  <1>3. Settling(c, o, v, l, off) /\ Commanded(c, o, v, x) /\ Pressed(c, o, v, l, x) /\ Of(c, y.held) = {}
    BY <1>0, <1>1 DEF Followed
  <1>4. off \in SUBSET Reports(Nat \cup {None})
    BY <1>0, <1>2, ElsewhereTyped
  <1>5. Typed(o, v, Of(c, l) \cup off, off)
    BY <1>2, <1>4, TypedOrder
  <1>6. Of(c, x.held) = {}
    <2>1. <<>> \in Seq(Reports(Nat))
      OBVIOUS
    <2> QED BY <1>0, <2>1, OfQueue
  <1>7. off = Of(c, b)
    BY <1>0, <1>3, <1>6 DEF Elsewhere
  <1>8. Poised(c, o, v, l, x, y, b, off)
    BY <1>3, <1>5, <1>7 DEF Settling, Poised
  <1> QED BY <1>0, <1>8
\* The report of the action is elsewhere.
Holding(c, x, x2, r) == x.held = <<>> /\ x2.held = <<r>> /\ r.client = c
\* The report of the command is the only one it adds.
LEMMA ReportElsewhere ==
    ASSUME NEW c, NEW x, NEW x2, NEW r, Holding(c, x, x2, r), NEW y, NEW b
    PROVE  /\ Elsewhere(c, x2, y, b) = Elsewhere(c, x, y, b) \cup {r} /\ Of(c, x2.held) = {r}
           /\ \A d : d # c => Of(d, x2.held) = {}
  <1>1. Of(c, x.held) = {}
    <2>1. <<>> \in Seq(Reports(Nat))
      OBVIOUS
    <2> QED BY <2>1, OfQueue DEF Holding
  <1>2. \A d : Of(d, x2.held) = IF d = c THEN {r} ELSE {}
    BY OfOne DEF Holding
  <1> QED BY <1>1, <1>2 DEF Elsewhere

\* The order is canceled.
LEMMA CancelConverges ==
    ASSUME SimInv, ConvInv, CancelLocked, MayCancel(orders[Mine])
    PROVE  ConvInv'
  <1>0. PICK x, y, l, b : x = thread["cli"] /\ y = thread["feed"] /\ l = lane /\ b = buffered
    OBVIOUS
  <1>1. /\ x.pc = "locked" /\ x.op = "cancel" /\ x \in ThreadType /\ x.held = <<>> /\ Linked(x, connected)
        /\ thread \in [Threads -> ThreadType]
    BY <1>0 DEF CancelLocked, AtLock, SimInv, SimTypes, ThreadInv, HeldInv, ConvInv, Threads
  <1>2. PICK c \in Cids : c = Mine /\ c = x.cid
    BY <1>0, <1>1 DEF SimInv, ThreadInv, CommandInv, Busy, Mine
  <1>3. PICK o, v, o2, r, x2 :
            /\ o = orders[c] /\ v = view[c] /\ o2 = [o EXCEPT !.status = "Canceled"]
            /\ r = SimReportFor(c, o2) /\ x2 = [x EXCEPT !.pc = "number", !.held = <<r>>]
    OBVIOUS
  <1>4. o # None /\ o.status # "Filled" /\ o \in SimOrderType
    BY <1>2, <1>3, OrderFacts DEF MayCancel
  <1>5. /\ o2 \in SimOrderType /\ o2.status = "Canceled" /\ o2.quantity = o.quantity /\ o2.filled = o.filled
    BY <1>3, <1>4 DEF SimOrderType, SimStatuses
  <1>6. /\ r.client = c /\ r.cumulative = o2.filled /\ r.quantity = o2.quantity /\ r.status = o2.status
        /\ r.sequence = None
    BY <1>3 DEF SimReportFor
  <1>7. x2.pc = "number" /\ x2.held = <<r>> /\ x2.op = "cancel" /\ x2.cid = c
    BY <1>1, <1>2, <1>3 DEF ThreadType
  <1>8. orders' = [orders EXCEPT ![c] = o2]
    BY <1>2, <1>3 DEF CancelLocked
  <1>9. orders'[c] = o2
    BY <1>8 DEF SimInv, SimTypes
  <1>10. thread'["cli"] = x2 /\ thread'["feed"] = y
    <2>1. thread' = [thread EXCEPT !["cli"].pc = "number", !["cli"].held = <<SimReportFor(c, orders'[c])>>]
      BY <1>2 DEF CancelLocked, Report
    <2> QED BY <1>0, <1>1, <1>3, <1>9, <2>1 DEF Threads
  <1>11. UNCHANGED <<view, lane, buffered, seen, connected, bounds, doubt>>
    BY DEF CancelLocked, gatewayVars
  <1>12. Linked(x2, connected)
    BY <1>1, <1>7 DEF Linked, Busy, Commands
  <1>13. \A d \in Cids : d # c => Of(d, x2.held) = {}
    <2>1. Holding(c, x, x2, r)
      BY <1>1, <1>6, <1>7 DEF Holding
    <2> QED BY <2>1, ReportElsewhere
  <1>14. ASSUME c \notin doubt PROVE Followed(c, o2, v, l, x2, y, b)
    <2>0. PICK off : off = Elsewhere(c, x, y, b)
      OBVIOUS
    <2>1. /\ Typed(o, v, Of(c, l) \cup off, off)
          /\ Converging(o, v, Of(c, l) \cup off, off, Ahead(c, l, off))
          /\ Commanded(c, o, v, x) /\ Of(c, y.held) = {} /\ Elsewhere(c, x2, y, b) = off \cup {r}
      <3>1. c \in Cids \ doubt /\ orders[c] # None /\ thread["cli"].held = <<>> /\ orders[c].status # "Filled"
        BY <1>0, <1>1, <1>3, <1>4, <1>14
      <3>2. Poised(c, o, v, l, x, y, b, off)
        BY <1>0, <1>3, <2>0, <3>1, BeforeActing
      <3>3. Elsewhere(c, x2, y, b) = off \cup {r}
        <4>1. Holding(c, x, x2, r)
          BY <1>1, <1>6, <1>7 DEF Holding
        <4> QED BY <2>0, <4>1, ReportElsewhere
      <3> QED BY <3>2, <3>3 DEF Poised
    <2>2. ~IsTerminal(o.status) /\ ~Squeezed(o) /\ ~IsTerminal(v.status) /\ v.pending = "Cancel"
      BY <1>1, <1>2, <1>4, <2>1 DEF Commanded, IsTerminal, SimOrderType, SimStatuses
    <2>3. PICK w, a, w2, off2, a2 :
              /\ w = Of(c, l) \cup off /\ a = Ahead(c, l, off) /\ w2 = Of(c, l) \cup off2
              /\ off2 = off \cup {r} /\ a2 = Ahead(c, l, off2)
      OBVIOUS
    <2>4. Joined(w, off, a, r, w2, off2, a2)
      BY <2>3, AheadJoined
    <2>5. Typed(o, v, w, off) /\ Converging(o, v, w, off, a)
      BY <2>1, <2>3
    <2>6. Converging(o2, v, w2, off2, a2)
      BY <1>5, <1>6, <2>2, <2>4, <2>5, ConvergingCanceled
    <2>7. Settling(c, o2, v, l, Elsewhere(c, x2, y, b))
      BY <2>1, <2>3, <2>6 DEF Settling
    <2>8. Commanded(c, o2, v, x2) /\ Pressed(c, o2, v, l, x2)
      BY <1>5, <1>7 DEF Commanded, Pressed, Squeezed, IsTerminal
    <2> QED BY <2>1, <2>7, <2>8 DEF Followed
  <1>15. /\ thread["feed"] = y /\ thread["cli"].held = <<>> /\ x2.pc \in {"number", "match"}
         /\ bounds'.first = bounds.first /\ doubt \subseteq doubt' /\ orders[c] # None
         /\ (c \notin doubt' => Followed(c, o2, view[c], lane, x2, y, buffered))
    BY <1>0, <1>1, <1>3, <1>4, <1>7, <1>11, <1>14
  <1> QED BY <1>5, <1>7, <1>8, <1>10, <1>11, <1>12, <1>13, <1>15, ActConverges

\* The order is amended; below what is filled it is in doubt from now on.
LEMMA AmendConverges ==
    ASSUME SimInv, ConvInv, AmendLocked, Open(Mine)
    PROVE  ConvInv'
  <1>0. PICK x, y, l, b : x = thread["cli"] /\ y = thread["feed"] /\ l = lane /\ b = buffered
    OBVIOUS
  <1>1. /\ x.pc = "locked" /\ x.op = "amend" /\ x \in ThreadType /\ x.held = <<>> /\ Linked(x, connected)
        /\ thread \in [Threads -> ThreadType] /\ x.quantity \in Nat
    BY <1>0 DEF AmendLocked, AtLock, SimInv, SimTypes, ThreadInv, HeldInv, ConvInv, Threads, ThreadType
  <1>2. PICK c \in Cids : c = Mine /\ c = x.cid
    BY <1>0, <1>1 DEF SimInv, ThreadInv, CommandInv, Busy, Mine
  <1>3. PICK o, v, o2, r, x2 :
            /\ o = orders[c] /\ v = view[c] /\ o2 = [o EXCEPT !.quantity = x.quantity]
            /\ r = SimReportFor(c, o2) /\ x2 = [x EXCEPT !.pc = "number", !.held = <<r>>]
    OBVIOUS
  <1>4. o # None /\ ~IsTerminal(o.status) /\ o.status # "Filled" /\ o \in SimOrderType
    BY <1>2, <1>3, OrderFacts DEF Open, IsTerminal
  <1>5. /\ o2 \in SimOrderType /\ o2.status = o.status /\ o2.quantity = x.quantity /\ o2.filled = o.filled
    BY <1>1, <1>3, <1>4 DEF SimOrderType
  <1>6. r.client = c /\ r.cumulative = o2.filled /\ r.quantity = o2.quantity /\ r.status = o2.status
    BY <1>3 DEF SimReportFor
  <1>7. x2.pc = "number" /\ x2.held = <<r>> /\ x2.op = "amend" /\ x2.cid = c
    BY <1>1, <1>2, <1>3 DEF ThreadType
  <1>8. /\ orders' = [orders EXCEPT ![c] = o2] /\ doubt \subseteq doubt'
        /\ c \notin doubt' => o.filled <= o2.quantity
    BY <1>0, <1>2, <1>3, <1>4, <1>5 DEF AmendLocked, SimOrderType
  <1>9. orders'[c] = o2
    BY <1>8 DEF SimInv, SimTypes
  <1>10. thread'["cli"] = x2 /\ thread'["feed"] = y
    <2>1. thread' = [thread EXCEPT !["cli"].pc = "number", !["cli"].held = <<SimReportFor(c, orders'[c])>>]
      BY <1>2 DEF AmendLocked, Report
    <2> QED BY <1>0, <1>1, <1>3, <1>9, <2>1 DEF Threads
  <1>11. UNCHANGED <<view, lane, buffered, seen, connected, bounds>>
    BY DEF AmendLocked
  <1>12. Linked(x2, connected)
    BY <1>1, <1>7 DEF Linked, Busy, Commands
  <1>13. /\ \A d \in Cids : d # c => Of(d, x2.held) = {}
         /\ Elsewhere(c, x2, y, b) = Elsewhere(c, x, y, b) \cup {r} /\ Of(c, x2.held) = {r}
    <2>1. Holding(c, x, x2, r)
      BY <1>1, <1>6, <1>7 DEF Holding
    <2> QED BY <2>1, ReportElsewhere
  <1>14. ASSUME c \notin doubt' PROVE Followed(c, o2, v, l, x2, y, b)
    <2>0. PICK off : off = Elsewhere(c, x, y, b)
      OBVIOUS
    <2>1. Poised(c, o, v, l, x, y, b, off)
      <3>1. c \in Cids \ doubt /\ orders[c] # None /\ thread["cli"].held = <<>> /\ orders[c].status # "Filled"
        BY <1>0, <1>1, <1>3, <1>4, <1>8, <1>14
      <3> QED BY <1>0, <1>3, <2>0, <3>1, BeforeActing
    <2>2. /\ ~Squeezed(o) /\ ~IsTerminal(v.status) /\ v.pending = "Amend" /\ v.pendingQuantity = o2.quantity
          /\ o.quantity = v.quantity
      BY <1>1, <1>2, <1>4, <1>5, <2>1 DEF Poised, Commanded
    <2>3. off = {}
      <3>1. connected
        BY <1>1 DEF Linked, Busy, Commands
      <3>2. b = <<>>
        BY <1>0, <1>1, <3>1 DEF SimInv, BufferInv
      <3>3. <<>> \in Seq(Reports(Nat))
        OBVIOUS
      <3>4. Of(c, b) = {}
        BY <3>2, <3>3, OfQueue
      <3> QED BY <2>1, <3>4 DEF Poised
    <2>4. PICK w, a, w2, off2, a2 :
              /\ w = Of(c, l) \cup off /\ a = Ahead(c, l, off) /\ w2 = Of(c, l) \cup off2
              /\ off2 = off \cup {r} /\ a2 = Ahead(c, l, off2)
      OBVIOUS
    <2>5. Joined(w, off, a, r, w2, off2, a2)
      BY <2>4, AheadJoined
    <2>6. Typed(o, v, w, off) /\ Converging(o, v, w, off, a)
      BY <2>1, <2>4 DEF Poised
    <2>7. o2.quantity \in Nat /\ o.filled <= o2.quantity
      BY <1>1, <1>5, <1>8, <1>14
    <2>8. Converging(o2, v, w2, off2, a2)
      BY <1>4, <1>5, <1>6, <2>2, <2>3, <2>5, <2>6, <2>7, ConvergingAmended
    <2>9. Settling(c, o2, v, l, Elsewhere(c, x2, y, b))
      BY <1>13, <2>0, <2>4, <2>8 DEF Settling
    <2>10. Commanded(c, o2, v, x2) /\ Pressed(c, o2, v, l, x2)
      BY <1>6, <1>7, <1>13 DEF Commanded, Pressed, Squeezed, Reporting, FillsUp
    <2> QED BY <2>1, <2>9, <2>10 DEF Followed, Poised
  <1>15. /\ thread["feed"] = y /\ thread["cli"].held = <<>> /\ x2.pc \in {"number", "match"}
         /\ bounds'.first = bounds.first /\ orders[c] # None
         /\ (c \notin doubt' => Followed(c, o2, view[c], lane, x2, y, buffered))
    BY <1>0, <1>1, <1>3, <1>4, <1>7, <1>11, <1>14
  <1> QED BY <1>5, <1>7, <1>8, <1>10, <1>11, <1>12, <1>13, <1>15, ActConverges

\* A partial fill is simulated.
LEMMA EmitConverges ==
    ASSUME SimInv, ConvInv, NEW c \in Cids, Open(c), NEW n \in 1 .. orders[c].quantity - 1, EmitLocked(c, n)
    PROVE  ConvInv'
  <1>0. PICK x, y, l, b : x = thread["cli"] /\ y = thread["feed"] /\ l = lane /\ b = buffered
    OBVIOUS
  <1>1. /\ x.pc = "idle" /\ x \in ThreadType /\ x.held = <<>> /\ thread \in [Threads -> ThreadType]
    BY <1>0 DEF EmitLocked, SimInv, SimTypes, ThreadInv, HeldInv, Threads
  <1>2. PICK o, v, m, o2, r, x2 :
            /\ o = orders[c] /\ v = view[c] /\ m = Max({o.filled, n})
            /\ o2 = [o EXCEPT !.filled = m, !.status = "PartiallyFilled"]
            /\ r = [SimReportFor(c, o2) EXCEPT !.cumulative = n]
            /\ x2 = [Idle EXCEPT !.pc = "number", !.op = "emit", !.cid = c, !.held = <<r>>]
    OBVIOUS
  <1>3. o # None /\ ~IsTerminal(o.status) /\ o.status # "Filled" /\ o \in SimOrderType
    BY <1>2, OrderFacts DEF Open, IsTerminal
  <1>4. o.filled \in Nat /\ o.quantity \in Nat /\ n \in Nat /\ n < o.quantity
    BY <1>2, <1>3 DEF SimOrderType
  <1>5. m \in Nat /\ m = IF n > o.filled THEN n ELSE o.filled
    <2>1. \E k \in {o.filled, n} : \A j \in {o.filled, n} : k >= j
      BY <1>4
    <2>2. m \in {o.filled, n} /\ \A j \in {o.filled, n} : m >= j
      BY <1>2, <2>1, Zenon DEF Max
    <2> QED BY <1>4, <2>2
  <1>6. o2 \in SimOrderType /\ o2.status = "PartiallyFilled" /\ o2.quantity = o.quantity /\ o2.filled = m
    BY <1>2, <1>3, <1>5 DEF SimOrderType, SimStatuses
  <1>7. r.client = c /\ r.cumulative = n /\ r.quantity = o.quantity /\ r.status = "PartiallyFilled"
    BY <1>2, <1>6 DEF SimReportFor
  <1>8. x2.pc = "number" /\ x2.held = <<r>> /\ x2.op = "emit" /\ x2.cid = c
    BY <1>2 DEF Idle
  <1>9. orders' = [orders EXCEPT ![c] = o2]
    BY <1>2 DEF EmitLocked
  <1>10. orders'[c] = o2
    BY <1>9 DEF SimInv, SimTypes
  <1>11. thread'["cli"] = x2 /\ thread'["feed"] = y
    BY <1>0, <1>1, <1>2, <1>10 DEF EmitLocked, Threads
  <1>12. UNCHANGED <<view, lane, buffered, seen, connected, doubt>> /\ bounds'.first = bounds.first
    BY DEF EmitLocked, gatewayVars, SimInv, SimTypes
  <1>13. Linked(x2, connected)
    BY <1>8 DEF Linked, Commands
  <1>14. /\ \A d \in Cids : d # c => Of(d, x2.held) = {}
         /\ Elsewhere(c, x2, y, b) = Elsewhere(c, x, y, b) \cup {r} /\ Of(c, x2.held) = {r}
    <2>1. Holding(c, x, x2, r)
      BY <1>1, <1>7, <1>8 DEF Holding
    <2> QED BY <2>1, ReportElsewhere
  <1>15. ASSUME c \notin doubt PROVE Followed(c, o2, v, l, x2, y, b)
    <2>0. PICK off : off = Elsewhere(c, x, y, b)
      OBVIOUS
    <2>1. Poised(c, o, v, l, x, y, b, off)
      <3>1. c \in Cids \ doubt /\ orders[c] # None /\ thread["cli"].held = <<>> /\ orders[c].status # "Filled"
        BY <1>0, <1>1, <1>2, <1>3, <1>15
      <3> QED BY <1>0, <1>2, <2>0, <3>1, BeforeActing
    <2>2. ASSUME Squeezed(o), v.status # "Filled" PROVE \E s \in Of(c, l) : FillsUp(s)
      BY <1>1, <2>1, <2>2 DEF Poised, Pressed, Reporting
    <2>3. PICK w, a, w2, off2, a2 :
              /\ w = Of(c, l) \cup off /\ a = Ahead(c, l, off) /\ w2 = Of(c, l) \cup off2
              /\ off2 = off \cup {r} /\ a2 = Ahead(c, l, off2)
      OBVIOUS
    <2>4. Joined(w, off, a, r, w2, off2, a2)
      BY <2>3, AheadJoined
    <2>5. Typed(o, v, w, off) /\ Converging(o, v, w, off, a)
      BY <2>1, <2>3 DEF Poised
    <2>6. Squeezed(o) /\ v.status # "Filled" => FullAhead(r, a2)
      <3>1. \A s \in Of(c, l) : <<s, r>> \in a2
        BY <2>3, AheadIs
      <3> QED BY <2>2, <3>1 DEF FullAhead
    <2>7. o2.filled = IF n > o.filled THEN n ELSE o.filled
      BY <1>5, <1>6
    <2>8. Converging(o2, v, w2, off2, a2)
      BY <1>3, <1>4, <1>6, <1>7, <2>4, <2>5, <2>6, <2>7, ConvergingEmitted
    <2>9. Settling(c, o2, v, l, Elsewhere(c, x2, y, b))
      BY <1>14, <2>0, <2>3, <2>8 DEF Settling
    <2>10. Squeezed(o2) => Squeezed(o)
      BY <1>3, <1>4, <1>5, <1>6 DEF Squeezed
    <2>11. Commanded(c, o2, v, x2) /\ Pressed(c, o2, v, l, x2)
      BY <1>8, <2>2, <2>10 DEF Commanded, Pressed
    <2> QED BY <2>1, <2>9, <2>11 DEF Followed, Poised
  <1>16. /\ thread["feed"] = y /\ thread["cli"].held = <<>> /\ x2.pc \in {"number", "match"}
         /\ doubt \subseteq doubt' /\ orders[c] # None
         /\ (c \notin doubt' => Followed(c, o2, view[c], lane, x2, y, buffered))
    BY <1>0, <1>1, <1>2, <1>3, <1>8, <1>12, <1>15
  <1> QED BY <1>6, <1>8, <1>9, <1>11, <1>12, <1>13, <1>14, <1>16, ActConverges

\* A new order, with the report of it or without one.
LEMMA PlaceConverges ==
    ASSUME SimInv, ConvInv, PlaceLocked
    PROVE  ConvInv'
  <1>0. PICK x, y, l, b : x = thread["cli"] /\ y = thread["feed"] /\ l = lane /\ b = buffered
    OBVIOUS
  <1>1. /\ x.pc = "locked" /\ x.op = "place" /\ x \in ThreadType /\ x.held = <<>> /\ Linked(x, connected)
        /\ thread \in [Threads -> ThreadType] /\ x.quantity \in Nat
    BY <1>0 DEF PlaceLocked, AtLock, SimInv, SimTypes, ThreadInv, HeldInv, ConvInv, Threads, ThreadType
  <1>2. PICK c \in Cids : c = Mine /\ c = x.cid
    BY <1>0, <1>1 DEF SimInv, ThreadInv, CommandInv, Busy, Mine
  <1>3. orders[c] = None /\ view[c] # None /\ nextExchangeId \in ExchangeIds
    <2>1. orders[c] = None /\ view[c] # None /\ nextExchangeId \in 1 .. MaxCalls
      BY <1>0, <1>1, <1>2, SimAssumption DEF SimInv, SimTypes, ThreadInv, CommandInv, Busy
    <2> QED BY <2>1, SimAssumption
  <1>4. PICK v, o2, r : /\ v = view[c] /\ r = SimReportFor(c, [o2 EXCEPT !.exid = None])
                        /\ o2 = [exid |-> nextExchangeId, quantity |-> x.quantity, filled |-> 0, status |-> "Live"]
    OBVIOUS
  <1>5. /\ o2 \in SimOrderType /\ o2.status = "Live" /\ o2.quantity = x.quantity /\ o2.filled = 0
    BY <1>1, <1>3, <1>4 DEF SimOrderType, SimStatuses
  <1>6. r.client = c /\ r.cumulative = 0 /\ r.quantity = o2.quantity /\ r.status = "Live"
    BY <1>4, <1>5 DEF SimReportFor, SimOrderType
  <1>7. orders' = [orders EXCEPT ![c] = o2]
    BY <1>0, <1>2, <1>4 DEF PlaceLocked
  <1>8. orders'[c] = o2
    BY <1>7 DEF SimInv, SimTypes
  <1>9. PICK x2 : /\ thread' = [thread EXCEPT !["cli"] = x2]
                  /\ \/ x2 = [x EXCEPT !.pc = "match"]
                     \/ x2 = [x EXCEPT !.pc = "number", !.held = <<r>>]
    <2>1. \/ Goto("cli", "match")
          \/ thread' = [thread EXCEPT !["cli"].pc = "number", !["cli"].held = <<r>>]
      <3>1. IF config THEN Report([orders'[c] EXCEPT !.exid = None]) ELSE Goto("cli", "match")
        BY <1>2 DEF PlaceLocked
      <3> QED BY <1>2, <1>4, <1>8, <3>1 DEF Report
    <2>2. \/ thread' = [thread EXCEPT !["cli"] = [x EXCEPT !.pc = "match"]]
          \/ thread' = [thread EXCEPT !["cli"] = [x EXCEPT !.pc = "number", !.held = <<r>>]]
      BY <1>0, <2>1 DEF Goto
    <2> QED BY <2>2
  <1>10. thread'["cli"] = x2 /\ thread'["feed"] = y
    BY <1>0, <1>1, <1>9 DEF Threads
  <1>11. x2.pc \in {"match", "number"} /\ x2.op = "place" /\ x2.cid = c
    BY <1>1, <1>2, <1>9 DEF ThreadType
  <1>12. x2.held = <<>> \/ x2.held = <<r>>
    BY <1>1, <1>9 DEF ThreadType
  <1>13. UNCHANGED <<view, lane, buffered, seen, connected, bounds, doubt>>
    BY DEF PlaceLocked, gatewayVars
  <1>14. Linked(x2, connected)
    BY <1>1, <1>11 DEF Linked, Busy, Commands
  <1>15. Of(c, x2.held) \subseteq {r} /\ \A d \in Cids : d # c => Of(d, x2.held) = {}
    <2>1. <<>> \in Seq(Reports(Nat))
      OBVIOUS
    <2>2. \A d : Of(d, <<>>) = {}
      BY <2>1, OfQueue
    <2>3. \A d : Of(d, <<r>>) = IF d = c THEN {r} ELSE {}
      BY <1>6, OfOne
    <2> QED BY <1>12, <2>2, <2>3
  <1>16. Of(c, l) = {} /\ Of(c, b) = {} /\ Of(c, y.held) = {}
    <2>1. Reported(l) /\ Reported(b) /\ Reported(y.held)
      BY <1>0 DEF SimInv, IdentityInv
    <2> QED BY <1>3, <2>1, NotReported
  <1>17. ASSUME c \notin doubt PROVE v.events = {} /\ Followed(c, o2, v, l, x2, y, b)
    <2>1. /\ Plain(c, v) /\ v.events = {} /\ v.status = "Unknown" /\ v.filled = 0 /\ v.quantity = x.quantity
          /\ v.pending = "New"
      BY <1>0, <1>1, <1>2, <1>3, <1>4, <1>17 DEF ConvInv, Known, Familiar, Placing
    <2>2. ~IsTerminal(v.status) /\ v.filled < v.quantity /\ ~IsTerminal(o2.status)
      BY <1>5, <2>1 DEF Plain, IsTerminal
    <2>3. PICK off, a : off = Elsewhere(c, x2, y, b) /\ a = Ahead(c, l, off)
      OBVIOUS
    <2>4. off \subseteq {r} /\ Of(c, l) \cup off = off
      BY <1>15, <1>16, <2>3 DEF Elsewhere
    <2>5. \A s \in off : s.cumulative = 0 /\ s.quantity = o2.quantity /\ s.status = "Live"
      BY <1>6, <2>4
    <2>6. v.filled \in Nat /\ v.quantity \in Nat /\ o2.filled = v.filled /\ o2.quantity = v.quantity
      BY <1>1, <1>5, <2>1
    <2>7. Converging(o2, v, off, off, a)
      BY <2>1, <2>2, <2>5, <2>6, ConvergingAnew
    <2>8. Settling(c, o2, v, l, off)
      BY <2>3, <2>4, <2>7 DEF Settling
    <2>9. Commanded(c, o2, v, x2) /\ Pressed(c, o2, v, l, x2)
      BY <1>11, <2>1, <2>2, <2>6 DEF Commanded, Pressed, Squeezed
    <2> QED BY <1>16, <2>1, <2>3, <2>8, <2>9 DEF Followed
  <1>18. /\ thread["feed"] = y /\ thread["cli"].held = <<>> /\ x2.pc \in {"number", "match"}
         /\ bounds'.first = bounds.first /\ doubt \subseteq doubt'
         /\ (orders[c] = None /\ c \notin doubt' => view[c].events = {})
         /\ (c \notin doubt' => Followed(c, o2, view[c], lane, x2, y, buffered))
    BY <1>0, <1>1, <1>4, <1>11, <1>13, <1>17
  <1> QED BY <1>5, <1>7, <1>10, <1>11, <1>13, <1>14, <1>15, <1>18, ActConverges

\* The commands under the mutex of the simulator.
LEMMA LockedConverge ==
    ASSUME SimInv, ConvInv, RateLimited \/ PlaceLocked \/ CancelLocked \/ AmendLocked
    PROVE  ConvInv'
  <1>1. thread["cli"].pc = "locked" /\ thread["cli"].op \in Commands
    BY DEF RateLimited, PlaceLocked, CancelLocked, AmendLocked, AtLock, SimInv, ThreadInv, CommandInv
  <1>2. CASE RateLimited
    BY <1>1, <1>2, RefusalConverges DEF RateLimited, venueVars, gatewayVars
  <1>3. CASE CancelLocked /\ ~MayCancel(orders[Mine])
    BY <1>1, <1>3, RefusalConverges DEF CancelLocked, gatewayVars
  <1>4. CASE AmendLocked /\ ~Open(Mine)
    BY <1>1, <1>4, RefusalConverges DEF AmendLocked
  <1> QED BY <1>2, <1>3, <1>4, PlaceConverges, CancelConverges, AmendConverges
-----------------------------------------------------------------------------
\* Every element of a finite set has one place in SetToSeq.
LEMMA OnceInTurn ==
    ASSUME NEW S, IsFiniteSet(S)
    PROVE  /\ \A i, j \in 1 .. Cardinality(S) : SetToSeq(S)[i] = SetToSeq(S)[j] => i = j
           /\ \A c \in S : \E i \in 1 .. Cardinality(S) : SetToSeq(S)[i] = c
  <1> DEFINE n == Cardinality(S)
             f == SetToSeq(S)
  <1>1. n \in Nat /\ ExistsBijection(1 .. n, S)
    BY FS_CardinalityType
  <1>2. \E g \in [1 .. n -> S] : IsInjective(g)
    BY <1>1, Zenon DEF ExistsBijection, Bijection, Injection
  <1>3. f \in [1 .. n -> S] /\ IsInjective(f)
    BY <1>2, Zenon DEF SetToSeq
  <1> HIDE DEF f
  <1>4. f \in Injection(1 .. n, S)
    BY <1>3 DEF Injection
  <1>5. Cardinality(1 .. n) = n
    <2> HIDE DEF n
    <2>1. Cardinality(1 .. n) = IF 1 > n THEN 0 ELSE n - 1 + 1
      BY <1>1, FS_Interval
    <2> QED BY <1>1, <2>1
  <1>6. f \in Surjection(1 .. n, S)
    BY <1>4, <1>5, FS_Injection
  <1>7. \A c \in S : \E i \in 1 .. n : f[i] = c
    BY <1>6 DEF Surjection
  <1>8. \A i, j \in 1 .. n : f[i] = f[j] => i = j
    BY <1>3 DEF IsInjective
  <1> QED BY <1>7, <1>8 DEF f

\* The reports of a match: one for every order that it fills.
Reaches(reached, q) ==
    \A c \in Cids :
        IF c \in reached
        THEN \E r : /\ Of(c, q) = {r} /\ r.status = "Filled"
                    /\ r.cumulative = orders[c].quantity /\ r.quantity = orders[c].quantity
        ELSE Of(c, q) = {}
\* The reports of a match are one for each order it reaches.
LEMMA MatchReports ==
    ASSUME SimInv, NEW t \in Threads, NEW reached \in SUBSET Cids, Match(t, reached)
    PROVE  \E q : /\ Reaches(reached, q)
                  /\ thread' = [thread EXCEPT ![t].pc = "publish", ![t].matched = TRUE, ![t].held = q]
  <1> DEFINE filled == [c \in reached |->
                           [orders[c] EXCEPT !.status = "Filled", !.filled = orders[c].quantity]]
             s == SetToSeq(reached)
             n == Cardinality(reached)
             q == [i \in 1 .. Len(s) |-> Numbered(SimReportFor(s[i], filled[s[i]]), nextSequence + i - 1)]
  <1>1. IsFiniteSet(reached)
    BY SimAssumption, FS_Subset
  <1>2. n \in Nat /\ Len(s) = n /\ \A i \in 1 .. n : s[i] \in reached
    BY <1>1, SetInTurn
  <1>3. /\ \A i, j \in 1 .. n : s[i] = s[j] => i = j
        /\ \A c \in reached : \E i \in 1 .. n : s[i] = c
    BY <1>1, OnceInTurn
  <1>4. thread' = [thread EXCEPT ![t].pc = "publish", ![t].matched = TRUE, ![t].held = q]
    BY DEF Match
  <1>5. ASSUME NEW c \in reached
        PROVE  /\ filled[c].status = "Filled" /\ filled[c].filled = orders[c].quantity
               /\ filled[c].quantity = orders[c].quantity
    <2>1. orders[c] \in SimOrderType
      BY OrderFacts DEF Match, Open
    <2>2. filled[c] = [orders[c] EXCEPT !.status = "Filled", !.filled = orders[c].quantity]
      OBVIOUS
    <2> HIDE DEF filled
    <2> QED BY <2>1, <2>2 DEF SimOrderType
  <1> HIDE DEF filled
  <1>6. ASSUME NEW i \in 1 .. n
        PROVE  /\ q[i].client = s[i] /\ q[i].status = "Filled"
               /\ q[i].cumulative = orders[s[i]].quantity /\ q[i].quantity = orders[s[i]].quantity
    <2>1. PICK r, m : r = SimReportFor(s[i], filled[s[i]]) /\ m = nextSequence + i - 1
      OBVIOUS
    <2>2. q[i] = Numbered(r, m)
      BY <1>2, <2>1
    <2>3. /\ r.client = s[i] /\ r.status = filled[s[i]].status /\ r.cumulative = filled[s[i]].filled
          /\ r.quantity = filled[s[i]].quantity
      BY <2>1 DEF SimReportFor
    <2>4. /\ Numbered(r, m).client = r.client /\ Numbered(r, m).status = r.status
          /\ Numbered(r, m).cumulative = r.cumulative /\ Numbered(r, m).quantity = r.quantity
      BY <2>1 DEF Numbered, SimReportFor
    <2>5. s[i] \in reached
      BY <1>2
    <2> QED BY <1>5, <2>2, <2>3, <2>4, <2>5
  <1>7. Len(q) = n
    BY <1>2
  <1> HIDE DEF q, n, s
  <1>8. \A c, r : r \in Of(c, q) <=> \E i \in 1 .. n : r = q[i] /\ s[i] = c
    BY <1>6, <1>7 DEF Of, Places
  <1>9. ASSUME NEW c \in reached
        PROVE  \E r : /\ Of(c, q) = {r} /\ r.status = "Filled"
                      /\ r.cumulative = orders[c].quantity /\ r.quantity = orders[c].quantity
    <2>1. PICK i \in 1 .. n : s[i] = c
      BY <1>3
    <2>2. \A j \in 1 .. n : s[j] = c => j = i
      BY <1>3, <2>1
    <2>3. \A r : r \in Of(c, q) <=> r = q[i]
      BY <1>8, <2>1, <2>2
    <2>4. Of(c, q) = {q[i]}
      BY <2>3
    <2> QED BY <1>6, <2>1, <2>4
  <1>10. ASSUME NEW c \in Cids, c \notin reached PROVE Of(c, q) = {}
    BY <1>2, <1>8, <1>10
  <1>11. Reaches(reached, q)
    BY <1>9, <1>10 DEF Reaches
  <1> QED BY <1>4, <1>11

\* The report r of the fill that makes o2 of the order o.
FilledBy(o, r, o2) ==
    /\ r.cumulative = o.quantity /\ r.quantity = o.quantity /\ r.status = "Filled"
    /\ o2.quantity = o.quantity /\ o2.filled = o.quantity /\ o2.status = "Filled"

\* An order that a quote fills stays followed.
LEMMA FollowedFilled ==
    ASSUME NEW c, NEW o \in SimOrderType, NEW v \in OrderType, NEW l \in Seq(Reports(Nat)),
           NEW x \in ThreadType, NEW y \in ThreadType, NEW b \in Seq(Reports(Nat)), NEW x2, NEW y2,
           Followed(c, o, v, l, x, y, b), ~IsTerminal(o.status), Onward(x, x2), NEW r, NEW o2,
           Elsewhere(c, x2, y2, b) = Elsewhere(c, x, y, b) \cup {r}, FilledBy(o, r, o2)
    PROVE  Followed(c, o2, v, l, x2, y2, b)
  <1>0. PICK off, w, a, w2, off2, a2 :
            /\ off = Elsewhere(c, x, y, b) /\ w = Of(c, l) \cup off /\ a = Ahead(c, l, off)
            /\ off2 = off \cup {r} /\ w2 = Of(c, l) \cup off2 /\ a2 = Ahead(c, l, off2)
    OBVIOUS
  <1>1. Settling(c, o, v, l, off) /\ Commanded(c, o, v, x)
    BY <1>0 DEF Followed
  <1>2. Typed(o, v, w, off) /\ Converging(o, v, w, off, a)
    <2>1. off \in SUBSET Reports(Nat \cup {None})
      BY <1>0, ElsewhereTyped
    <2> QED BY <1>0, <1>1, <2>1, TypedOrder DEF Settling
  <1>3. Joined(w, off, a, r, w2, off2, a2)
    BY <1>0, AheadJoined
  <1>4. Converging(o2, v, w2, off2, a2)
    BY <1>2, <1>3, ConvergingFilled DEF FilledBy
  <1>5. Settling(c, o2, v, l, Elsewhere(c, x2, y2, b))
    BY <1>0, <1>4 DEF Settling
  <1>6. Commanded(c, o, v, x2)
    BY <1>1, OnwardKeeps
  <1>7. Commanded(c, o2, v, x2) /\ Pressed(c, o2, v, l, x2)
    BY <1>6 DEF Commanded, Pressed, Squeezed, IsTerminal, FilledBy
  <1> QED BY <1>5, <1>7 DEF Followed, FilledBy

\* A quote fills the orders it reaches.
LEMMA MatchConverges ==
    ASSUME SimInv, ConvInv, NEW t \in Threads, NEW reached \in SUBSET Cids, Match(t, reached),
           t = "feed" => thread["feed"].pc = "idle", t = "cli" => thread["cli"].pc = "match"
    PROVE  ConvInv'
  <1>0. PICK q : /\ Reaches(reached, q)
                 /\ thread' = [thread EXCEPT ![t].pc = "publish", ![t].matched = TRUE, ![t].held = q]
    BY MatchReports
  <1>1. PICK x, y, x2, y2, z, z2 :
            /\ x = thread["cli"] /\ y = thread["feed"] /\ x2 = thread'["cli"] /\ y2 = thread'["feed"]
            /\ z = thread[t] /\ z2 = [z EXCEPT !.pc = "publish", !.matched = TRUE, !.held = q]
    OBVIOUS
  <1>2. /\ z \in ThreadType /\ z.pc \in {"idle", "match"} /\ z.held = <<>> /\ t \in {"cli", "feed"}
        /\ x \in ThreadType /\ y \in ThreadType
        /\ lane \in Seq(Reports(Nat)) /\ buffered \in Seq(Reports(Nat))
    <2>1. z \in ThreadType /\ HeldInv(z) /\ z.pc \in {"idle", "match"} /\ t \in {"cli", "feed"}
      BY <1>1, InvFacts DEF Threads
    <2> QED BY <1>1, <2>1 DEF HeldInv, SimInv, SimTypes, Threads
  <1>3. z2.pc = "publish" /\ z2.held = q /\ z2.op = z.op /\ z2.cid = z.cid
    BY <1>1, <1>2 DEF ThreadType
  <1>4. /\ t = "cli" => x2 = z2 /\ y2 = y /\ z = x /\ x.pc = "match"
        /\ t = "feed" => x2 = x /\ y2 = z2 /\ z = y
    <2>1. thread' = [thread EXCEPT ![t] = z2]
      BY <1>0, <1>1
    <2> QED BY <1>1, <2>1, TwoThreads
  <1>5. Onward(x, x2) /\ Linked(x2, connected) /\ (Reporting(x) => x2 = x)
    <2>1. Linked(x, connected)
      BY <1>1 DEF ConvInv
    <2> QED BY <1>2, <1>3, <1>4, <2>1 DEF Onward, Linked, Busy, Reporting
  <1>6. \A c : /\ Elsewhere(c, x2, y2, buffered) = Elsewhere(c, x, y, buffered) \cup Of(c, q)
               /\ Of(c, y2.held) \subseteq Of(c, y.held) \cup Of(c, q)
    <2>1. <<>> \in Seq(Reports(Nat))
      OBVIOUS
    <2>2. \A c : Of(c, z.held) = {}
      BY <1>2, <2>1, OfQueue
    <2>3. CASE t = "cli"
      BY <1>3, <1>4, <2>2, <2>3 DEF Elsewhere
    <2>4. CASE t = "feed"
      BY <1>3, <1>4, <2>2, <2>4 DEF Elsewhere
    <2> QED BY <1>2, <2>3, <2>4
  <1>7. /\ \A c \in reached : orders[c] # None /\ ~IsTerminal(orders[c].status)
        /\ \A c \in Cids \ reached : orders'[c] = orders[c]
        /\ \A c \in reached : orders'[c] = [orders[c] EXCEPT !.status = "Filled", !.filled = orders[c].quantity]
        /\ UNCHANGED <<connected, buffered, lane, view, doubt, seen, bounds>>
    BY DEF Match, Open, gatewayVars
  <1>8. ASSUME NEW c \in Cids \ doubt PROVE Known(c)' /\ Follows(c)'
    <2>0. PICK o, v, o2 : o = orders[c] /\ v = view[c] /\ o2 = orders'[c]
      OBVIOUS
    <2>1. /\ Familiar(c, o, v, x, bounds.first, seen)
          /\ o # None => Followed(c, o, v, lane, x, y, buffered)
      BY <1>1, <2>0 DEF ConvInv, Known, Follows
    <2>2. Familiar(c, o, v, x2, bounds.first, seen)
      BY <1>5, <2>1, OnwardKeeps
    <2>3. o # None => o \in SimOrderType /\ v \in OrderType
      BY <2>0, OrderFacts
    <2>4. CASE c \notin reached
      <3>1. o2 = o /\ Of(c, q) = {}
        BY <1>0, <1>7, <2>0, <2>4 DEF Reaches
      <3>2. /\ Elsewhere(c, x, y, buffered) = Elsewhere(c, x2, y2, buffered)
            /\ Of(c, y2.held) \subseteq Of(c, y.held)
        BY <1>6, <3>1
      <3>3. ASSUME o # None PROVE Followed(c, o, v, lane, x2, y2, buffered)
        <4>1. Commanded(c, o, v, x2)
          BY <1>5, <2>1, <3>3, OnwardKeeps DEF Followed
        <4>2. Reporting(x) /\ Of(c, x.held) # {} => Reporting(x2) /\ Of(c, x.held) \subseteq Of(c, x2.held)
          BY <1>5
        <4> QED BY <1>2, <2>1, <2>3, <3>2, <3>3, <4>1, <4>2, FollowedStays
      <3> QED BY <1>1, <1>7, <2>0, <2>2, <3>1, <3>3 DEF Known, Follows
    <2>5. CASE c \in reached
      <3>1. o # None /\ ~IsTerminal(o.status) /\ o2 = [o EXCEPT !.status = "Filled", !.filled = o.quantity]
        BY <1>7, <2>0, <2>5
      <3>2. o2.quantity = o.quantity /\ o2.filled = o.quantity /\ o2.status = "Filled"
        BY <2>3, <3>1 DEF SimOrderType
      <3>3. PICK r : /\ Of(c, q) = {r} /\ r.status = "Filled"
                     /\ r.cumulative = o.quantity /\ r.quantity = o.quantity
        BY <1>0, <2>0, <2>5 DEF Reaches
      <3>4. Elsewhere(c, x2, y2, buffered) = Elsewhere(c, x, y, buffered) \cup {r}
        BY <1>6, <3>3
      <3>5. Followed(c, o2, v, lane, x2, y2, buffered)
        <4>1. FilledBy(o, r, o2)
          BY <3>2, <3>3 DEF FilledBy
        <4>2. o \in SimOrderType /\ v \in OrderType /\ Followed(c, o, v, lane, x, y, buffered)
          BY <2>1, <2>3, <3>1
        <4> QED BY <1>2, <1>5, <3>1, <3>4, <4>1, <4>2, FollowedFilled
      <3>6. Familiar(c, o2, v, x2, bounds.first, seen)
        BY <2>2, <3>1 DEF Familiar, Remembers, Placing
      <3> QED BY <1>1, <1>7, <2>0, <3>5, <3>6 DEF Known, Follows
    <2> QED BY <2>4, <2>5
  <1> QED BY <1>1, <1>5, <1>7, <1>8 DEF ConvInv

\* A restart: the simulator knows what the gateway knows, and no report is on its way.
LEMMA RestartConverges ==
    ASSUME SimInv, ConvInv, Restart, SimInv'
    PROVE  ConvInv'
  <1>1. /\ connected' = TRUE /\ buffered' = <<>> /\ lane' = <<>>
        /\ thread'["cli"] = Idle /\ thread'["feed"] = Idle /\ view' = view /\ doubt' = doubt
    BY DEF Restart, Threads
  <1>2. bounds'.first = nextSequence' /\ nextSequence' \in Nat
    <2>1. bounds \in [calls : Nat, faults : Nat, first : Nat \ {0}] /\ nextSequence' \in Nat
      BY DEF SimInv, SimTypes
    <2>2. PICK k, f : k = nextSequence' /\ f = bounds.faults + 1
      OBVIOUS
    <2>3. bounds' = [bounds EXCEPT !.faults = f, !.first = k]
      BY <2>2 DEF Restart
    <2> QED BY <2>1, <2>2, <2>3
  <1>3. Idle.pc = "idle" /\ Idle.held = <<>> /\ ~Busy(Idle)
    BY DEF Idle, Busy
  <1>4. ASSUME NEW c \in Cids \ doubt PROVE Known(c)' /\ Follows(c)'
    <2>0. PICK o, v, x : o = orders'[c] /\ v = view[c] /\ x = Idle
      OBVIOUS
    <2>1. v # None => Plain(c, v)
      BY <2>0 DEF ConvInv, Known, Familiar
    <2>2. Placing(c, o, v, x)
      BY <1>3, <2>0 DEF Placing
    <2>3. CASE o = None
      <3>1. Familiar(c, o, v, x, bounds'.first, seen')
        BY <2>1, <2>2, <2>3 DEF Familiar, Remembers
      <3> QED BY <1>1, <2>0, <2>3, <3>1 DEF Known, Follows
    <2>4. CASE o # None
      <3>1. /\ v # None /\ v \in OrderType /\ ~IsTerminal(v.status)
            /\ o.filled = v.filled /\ o.quantity = v.quantity /\ o.status = v.status
        <4>1. /\ view[c] # None /\ ~IsTerminal(view[c].status)
              /\ orders'[c] = [exid |-> view[c].exid, quantity |-> view[c].quantity,
                               filled |-> view[c].filled, status |-> view[c].status]
          BY <2>0, <2>4 DEF Restart
        <4> QED BY <2>0, <4>1, OrderFacts
      <3>2. v.lastSequence # None => v.lastSequence \in Nat /\ v.lastSequence < nextSequence'
        BY <1>1, <2>0, <2>4, <3>1 DEF SimInv, IdentityInv, Identified, OrderType
      <3>3. Remembers(o, v, bounds'.first, seen')
        <4> SUFFICES ASSUME NEW n \in v.events PROVE n < bounds'.first
          BY DEF Remembers
        <4>1. v.lastSequence # None /\ n <= v.lastSequence
          BY <2>1, <3>1 DEF Plain
        <4>2. n \in Nat
          BY <3>1 DEF OrderType
        <4> QED BY <1>2, <3>2, <4>1, <4>2
      <3>4. Familiar(c, o, v, x, bounds'.first, seen')
        BY <2>1, <2>2, <3>3 DEF Familiar
      <3>5. <<>> \in Seq(Reports(Nat))
        OBVIOUS
      <3>6. Of(c, <<>>) = {}
        BY <3>5, OfQueue
      <3>7. Elsewhere(c, x, x, <<>>) = {}
        BY <1>3, <2>0, <3>6 DEF Elsewhere
      <3>8. Converging(o, v, {}, {}, Ahead(c, <<>>, {}))
        <4>1. PICK a : a = Ahead(c, <<>>, {})
          OBVIOUS
        <4>2. v.filled \in Nat /\ v.quantity \in Nat /\ v.filled < v.quantity
              /\ (v.pending = "Amend" => v.pendingQuantity # None /\ v.pendingQuantity # v.quantity)
          BY <2>1, <3>1 DEF Plain, OrderType
        <4>3. Converging(o, v, {}, {}, a)
          BY <3>1, <4>2, ConvergingAnew
        <4> QED BY <4>1, <4>3
      <3>9. Settling(c, o, v, <<>>, Elsewhere(c, x, x, <<>>))
        BY <3>6, <3>7, <3>8 DEF Settling
      <3>10. Commanded(c, o, v, x) /\ Pressed(c, o, v, <<>>, x)
        <4>1. ~Squeezed(o)
          BY <2>1, <3>1 DEF Squeezed, Plain, OrderType
        <4> QED BY <1>3, <2>0, <4>1 DEF Commanded, Pressed
      <3>11. Followed(c, o, v, <<>>, x, x, <<>>)
        BY <1>3, <2>0, <3>6, <3>9, <3>10 DEF Followed
      <3> QED BY <1>1, <2>0, <3>4, <3>11 DEF Known, Follows
    <2> QED BY <2>3, <2>4
  <1>5. Linked(thread'["cli"], connected')
    BY <1>1 DEF Linked
  <1> QED BY <1>1, <1>4, <1>5 DEF ConvInv
-----------------------------------------------------------------------------
(* The gateway applies a report *)

\* A sequence that shows every number of an interval is as long as the interval.
LEMMA LongEnough ==
    ASSUME NEW s \in Seq(Nat), NEW a \in Nat, NEW b \in Nat, a <= b, ToSet(s) = a .. b - 1
    PROVE  b - a <= Len(s)
  <1>1. Len(s) \in Nat /\ DOMAIN s = 1 .. Len(s)
    OBVIOUS
  <1>2. s \in Surjection(1 .. Len(s), a .. b - 1)
    <2>1. \A i \in 1 .. Len(s) : s[i] \in a .. b - 1
      BY <1>1 DEF ToSet
    <2>2. s \in [1 .. Len(s) -> a .. b - 1]
      BY <1>1, <2>1
    <2>3. \A n \in a .. b - 1 : \E i \in 1 .. Len(s) : s[i] = n
      BY <1>1 DEF ToSet
    <2> QED BY <2>2, <2>3, Zenon DEF Surjection
  <1>3. ExistsSurjection(1 .. Len(s), a .. b - 1)
    BY <1>2, Zenon DEF ExistsSurjection
  <1>4. Cardinality(a .. b - 1) <= Len(s)
    BY <1>1, <1>3, FS_SurjCardinalityBound
  <1>5. Cardinality(a .. b - 1) = b - a
    <2>1. a \in Int /\ b - 1 \in Int
      OBVIOUS
    <2>2. Cardinality(a .. b - 1) = IF a > b - 1 THEN 0 ELSE (b - 1) - a + 1
      BY <2>1, FS_Interval
    <2> QED BY <2>2
  <1> QED BY <1>4, <1>5

\* The numbers of four queues and a sequence, one after the other.
InTurn(all, c, f, b, l, s) ==
    /\ ToSet(all) = Numbers(c) \cup Numbers(f) \cup Numbers(b) \cup Numbers(l) \cup ToSet(s)
    /\ Len(all) = Len(c) + Len(f) + Len(b) + Len(l) + Len(s)
\* There is such a sequence.
LEMMA AllNumbers ==
    ASSUME NEW c \in Seq(Reports(Nat)), NEW f \in Seq(Reports(Nat)), NEW b \in Seq(Reports(Nat)),
           NEW l \in Seq(Reports(Nat)), NEW s \in Seq(Nat)
    PROVE  \E all \in Seq(Nat) : InTurn(all, c, f, b, l, s)
  <1>1. PICK nc \in Seq(Nat) : Len(nc) = Len(c) /\ ToSet(nc) = Numbers(c)
    BY NumbersInSeq, ReportsNumbered
  <1>2. PICK nf \in Seq(Nat) : Len(nf) = Len(f) /\ ToSet(nf) = Numbers(f)
    BY NumbersInSeq, ReportsNumbered
  <1>3. PICK nb \in Seq(Nat) : Len(nb) = Len(b) /\ ToSet(nb) = Numbers(b)
    BY NumbersInSeq, ReportsNumbered
  <1>4. PICK nl \in Seq(Nat) : Len(nl) = Len(l) /\ ToSet(nl) = Numbers(l)
    BY NumbersInSeq, ReportsNumbered
  <1>5. PICK p \in Seq(Nat) : ToSet(p) = ToSet(nc) \cup ToSet(nf) /\ Len(p) = Len(nc) + Len(nf)
    BY ToSetOf
  <1>6. PICK q \in Seq(Nat) : ToSet(q) = ToSet(p) \cup ToSet(nb) /\ Len(q) = Len(p) + Len(nb)
    BY ToSetOf
  <1>7. PICK r \in Seq(Nat) : ToSet(r) = ToSet(q) \cup ToSet(nl) /\ Len(r) = Len(q) + Len(nl)
    BY ToSetOf
  <1>8. PICK all \in Seq(Nat) : ToSet(all) = ToSet(r) \cup ToSet(s) /\ Len(all) = Len(r) + Len(s)
    BY ToSetOf
  <1>9. ToSet(all) = Numbers(c) \cup Numbers(f) \cup Numbers(b) \cup Numbers(l) \cup ToSet(s)
    BY <1>1, <1>2, <1>3, <1>4, <1>5, <1>6, <1>7, <1>8
  <1>10. Len(all) = Len(c) + Len(f) + Len(b) + Len(l) + Len(s)
    BY <1>1, <1>2, <1>3, <1>4, <1>5, <1>6, <1>7, <1>8
  <1> QED BY <1>9, <1>10 DEF InTurn

\* The number at the head of the lane is nowhere else, and was not applied before.
LEMMA HeadIsNew ==
    ASSUME SimInv, lane # <<>>, NEW n, n = Head(lane).sequence
    PROVE  /\ n \in Nat /\ bounds.first <= n /\ n < nextSequence /\ n \notin ToSet(seen)
           /\ n \notin Numbers(Held(thread["cli"])) /\ n \notin Numbers(Held(thread["feed"]))
           /\ n \notin Numbers(buffered) /\ n \notin Numbers(Tail(lane))
  <1>0. PICK c, f, t, b, s, first, next :
            /\ c = Held(thread["cli"]) /\ f = Held(thread["feed"]) /\ t = Tail(lane)
            /\ b = buffered /\ s = seen /\ first = bounds.first /\ next = nextSequence
    OBVIOUS
  <1>1. /\ c \in Seq(Reports(Nat)) /\ f \in Seq(Reports(Nat)) /\ b \in Seq(Reports(Nat)) /\ s \in Seq(Nat)
        /\ lane \in Seq(Reports(Nat)) /\ Accounted(c, f, b, lane, s, first, next)
        /\ first \in Nat /\ next \in Nat /\ first <= next
    BY <1>0, InvFacts DEF Threads
  <1>2. /\ t \in Seq(Reports(Nat)) /\ Len(t) = Len(lane) - 1 /\ Numbers(lane) = {n} \cup Numbers(t)
        /\ n \in Nat
    <2>1. /\ t \in Seq(Reports(Nat)) /\ Len(t) = Len(lane) - 1 /\ Numbers(lane) = {n} \cup Numbers(t)
          /\ Head(lane) \in Reports(Nat)
      BY <1>0, <1>1, NumbersOf
    <2> QED BY <2>1, ReportsNumbered
  <1>3. n \in first .. next - 1
    BY <1>1, <1>2 DEF Accounted
  <1>4. Len(c) \in Nat /\ Len(f) \in Nat /\ Len(b) \in Nat /\ Len(s) \in Nat /\ Len(t) \in Nat /\ Len(lane) \in Nat
    BY <1>1, <1>2
  <1>5. n \notin Numbers(c) \cup Numbers(f) \cup Numbers(b) \cup Numbers(t) \cup ToSet(s)
    <2> SUFFICES ASSUME n \in Numbers(c) \cup Numbers(f) \cup Numbers(b) \cup Numbers(t) \cup ToSet(s)
                 PROVE  FALSE
      OBVIOUS
    <2>1. Numbers(c) \cup Numbers(f) \cup Numbers(b) \cup Numbers(t) \cup ToSet(s) = first .. next - 1
      BY <1>1, <1>2 DEF Accounted
    <2>2. Len(c) + Len(f) + Len(b) + Len(lane) + Len(s) = next - first
      BY <1>1 DEF Accounted
    <2>3. PICK all \in Seq(Nat) : InTurn(all, c, f, b, t, s)
      <3>1. /\ c \in Seq(Reports(Nat)) /\ f \in Seq(Reports(Nat)) /\ b \in Seq(Reports(Nat))
            /\ t \in Seq(Reports(Nat)) /\ s \in Seq(Nat)
        BY <1>1, <1>2
      <3> QED BY <3>1, AllNumbers
    <2>4. next - first <= Len(all)
      BY <1>1, <2>1, <2>3, LongEnough DEF InTurn
    <2> QED BY <1>1, <1>2, <1>4, <2>2, <2>3, <2>4 DEF InTurn
  <1> QED BY <1>0, <1>1, <1>2, <1>3, <1>5

\* ... nor is the report.
LEMMA HeadIsAlone ==
    ASSUME SimInv, lane # <<>>, NEW c, NEW x, NEW y, x = thread["cli"], y = thread["feed"]
    PROVE  Head(lane) \notin Of(c, Tail(lane)) \cup Elsewhere(c, x, y, buffered)
  <1>1. PICK h, n : h = Head(lane) /\ n = h.sequence
    OBVIOUS
  <1>2. /\ n \in Nat /\ n \notin Numbers(Held(x)) /\ n \notin Numbers(Held(y))
        /\ n \notin Numbers(buffered) /\ n \notin Numbers(Tail(lane))
    BY <1>1, HeadIsNew
  <1>3. \A q : h \in Of(c, q) => n \in Numbers(q)
    BY <1>1 DEF Of, Places, Numbers
  <1>4. ASSUME NEW z, HeldInv(z), n \notin Numbers(Held(z)) PROVE h \notin Of(c, z.held)
    <2>1. CASE z.pc # "number"
      BY <1>3, <1>4, <2>1 DEF Held
    <2>2. CASE z.pc = "number"
      <3>1. \A r \in Of(c, z.held) : r.sequence = None
        BY <1>4, <2>2 DEF HeldInv, Of, Places
      <3> QED BY <1>1, <1>2, <3>1, NoneAssumption
    <2> QED BY <2>1, <2>2
  <1>5. HeldInv(x) /\ HeldInv(y)
    BY InvFacts DEF Threads
  <1> QED BY <1>1, <1>2, <1>3, <1>4, <1>5 DEF Elsewhere

\* What the gateway's order becomes by a report that it has not seen.
Applied(v, h, u) ==
    /\ Taken(v, h, u)
    /\ u.clients = v.clients /\ u.offsets = v.offsets /\ u.pendingPrice = None
    /\ u.events = v.events \cup {h.event} /\ u.pending \in {v.pending, "None"}

\* The order of the report stays as it was described.
LEMMA PlainApplied ==
    ASSUME NEW c, NEW v \in OrderType, NEW h \in Reports(Nat), NEW u, Plain(c, v), Applied(v, h, u),
           ~IsTerminal(u.status) => u.filled < u.quantity /\ ~IsTerminal(v.status)
    PROVE  Plain(c, u)
  <1>1. h.event = h.sequence /\ h.sequence \in Nat /\ h.sequence # None
    BY NoneAssumption DEF Reports
  <1>2. v.lastSequence \in Nat \cup {None} /\ v.events \subseteq Nat
    BY DEF OrderType
  <1>3. ASSUME NEW n \in u.events PROVE u.lastSequence # None /\ n <= u.lastSequence
    <2>1. u.lastSequence = IF v.lastSequence = None \/ h.sequence > v.lastSequence THEN h.sequence
                           ELSE v.lastSequence
      BY DEF Applied, Taken
    <2>2. CASE n = h.sequence
      BY <1>1, <1>2, <2>1, <2>2
    <2>3. CASE n \in v.events
      <3>1. v.lastSequence # None /\ n <= v.lastSequence
        BY <2>3 DEF Plain
      <3> QED BY <1>1, <1>2, <2>1, <2>3, <3>1
    <2> QED BY <1>1, <1>3, <2>2, <2>3 DEF Applied
  <1>4. ASSUME ~IsTerminal(u.status), u.pending = "Amend"
        PROVE  u.pendingQuantity # None /\ u.pendingQuantity # u.quantity
    <2>1. v.pending = "Amend"
      BY <1>4 DEF Applied
    <2>2. v.pendingQuantity # None
      BY <1>4, <2>1 DEF Plain
    <2> QED BY <1>4, <2>1, <2>2 DEF Applied, Taken
  <1>5. c \in u.clients /\ u.offsets = [e \in ExchangeIds |-> 0] /\ u.pendingPrice = None
    BY DEF Plain, Applied
  <1> QED BY <1>3, <1>4, <1>5 DEF Plain

\* ... and followed.
LEMMA FollowedApplied ==
    ASSUME NEW c, NEW o \in SimOrderType, NEW v \in OrderType, NEW l \in Seq(Reports(Nat)), l # <<>>,
           NEW x \in ThreadType, NEW y \in ThreadType, NEW b \in Seq(Reports(Nat)),
           Followed(c, o, v, l, x, y, b), Plain(c, v), Head(l).client = c,
           Head(l) \notin Of(c, Tail(l)) \cup Elsewhere(c, x, y, b), NEW u, Applied(v, Head(l), u)
    PROVE  Followed(c, o, u, Tail(l), x, y, b) /\ Plain(c, u)
  <1>0. PICK h, t, off : h = Head(l) /\ t = Tail(l) /\ off = Elsewhere(c, x, y, b)
    OBVIOUS
  <1>1. h \in Reports(Nat) /\ h.sequence \in Nat /\ h.sequence # None /\ h.quantity \in Nat
    BY <1>0, NoneAssumption DEF Reports
  <1>2. Typed(o, v, Of(c, l) \cup off, off)
    <2>1. off \in SUBSET Reports(Nat \cup {None})
      BY <1>0, ElsewhereTyped
    <2> QED BY <2>1, TypedOrder
  <1>3. /\ Settling(c, o, v, l, off) /\ Commanded(c, o, v, x) /\ Pressed(c, o, v, l, x)
        /\ Of(c, y.held) # {} => o.status = "Filled"
    BY <1>0 DEF Followed
  <1>4. /\ Settling(c, o, u, t, off)
        /\ ~IsTerminal(u.status) => u.filled < u.quantity
        /\ IsTerminal(u.status) => IsTerminal(v.status) \/ o.filled = o.quantity \/ o.status = "Canceled"
        /\ ~IsTerminal(u.status) => ~IsTerminal(v.status)
        /\ u.status # "Filled" => ~FillsUp(h)
    <2>1. Taken(v, h, u) /\ h.client = c /\ h \notin Of(c, t) \cup off
      BY <1>0 DEF Applied
    <2>2. \A w : Taken(v, Head(l), w) =>
             /\ Settling(c, o, w, Tail(l), off)
             /\ ~IsTerminal(w.status) => w.filled < w.quantity
             /\ IsTerminal(w.status) => IsTerminal(v.status) \/ o.filled = o.quantity \/ o.status = "Canceled"
             /\ ~IsTerminal(w.status) => ~IsTerminal(v.status)
             /\ w.status # "Filled" => ~FillsUp(Head(l))
      <3>1. /\ Head(l).client = c /\ Head(l).sequence # None
            /\ Head(l) \notin Of(c, Tail(l)) \cup off
        BY <1>0, <1>1, <2>1
      <3> QED BY <1>2, <1>3, <3>1, SettlingApplied
    <2> QED BY <1>0, <2>1, <2>2
  <1>5. Of(c, l) = {h} \cup Of(c, t)
    <2>1. Of(c, l) = (IF Head(l).client = c THEN {Head(l)} ELSE {}) \cup Of(c, Tail(l))
      BY OfHead
    <2> QED BY <1>0, <2>1
  <1>6. Pressed(c, o, u, t, x)
    BY <1>3, <1>4, <1>5 DEF Pressed, Applied, Taken
  <1>7. Commanded(c, o, u, x)
    <2>1. ASSUME x.cid = c, x.pc \in {"locked", "reject"}, x.op \in {"amend", "cancel"}
          PROVE  /\ ~Squeezed(o) /\ o.status # "Canceled"
                 /\ IsTerminal(u.status) => o.status = "Filled"
                 /\ ~IsTerminal(u.status) =>
                        /\ o.quantity = u.quantity
                        /\ x.op = "amend" => u.pending = "Amend" /\ u.pendingQuantity = x.quantity
                        /\ x.op = "cancel" => u.pending = "Cancel"
      <3>1. /\ ~Squeezed(o) /\ o.status # "Canceled"
            /\ IsTerminal(v.status) => o.status = "Filled"
            /\ ~IsTerminal(v.status) =>
                /\ o.quantity = v.quantity
                /\ x.op = "amend" => v.pending = "Amend" /\ v.pendingQuantity = x.quantity
                /\ x.op = "cancel" => v.pending = "Cancel"
        BY <1>3, <2>1 DEF Commanded
      <3>2. IsTerminal(u.status) => o.status = "Filled"
        BY <1>4, <3>1 DEF Squeezed, IsTerminal, SimOrderType, SimStatuses
      <3>3. ASSUME ~IsTerminal(u.status)
            PROVE  /\ o.quantity = u.quantity
                   /\ x.op = "amend" => u.pending = "Amend" /\ u.pendingQuantity = x.quantity
                   /\ x.op = "cancel" => u.pending = "Cancel"
        <4>1. ~IsTerminal(v.status) /\ o.quantity = v.quantity
          BY <1>4, <3>1, <3>3
        <4>2. h.quantity = o.quantity
          BY <1>3, <1>5, <4>1 DEF Settling, Converging, Awaits
        <4>3. u.quantity = o.quantity
          BY <1>0, <4>2 DEF Applied, Taken
        <4>4. v.pending = "Amend" => v.pendingQuantity # None /\ v.pendingQuantity # h.quantity
          BY <4>1, <4>2 DEF Plain
        <4> QED BY <1>0, <3>1, <3>3, <4>1, <4>3, <4>4 DEF Applied, Taken
      <3> QED BY <3>1, <3>2, <3>3
    <2>2. x.cid = c /\ x.op = "place" /\ Busy(x) => u.pending \in {"New", "None"} /\ x.pc # "reject"
      BY <1>3 DEF Commanded, Applied
    <2> QED BY <2>1, <2>2 DEF Commanded
  <1>8. Plain(c, u)
    BY <1>0, <1>1, <1>4, PlainApplied
  <1> QED BY <1>0, <1>3, <1>4, <1>6, <1>7, <1>8 DEF Followed

\* The report of another order is applied.
LEMMA FollowedBehind ==
    ASSUME NEW c, NEW o \in SimOrderType, NEW v \in OrderType, NEW l \in Seq(Reports(Nat)), l # <<>>,
           NEW x \in ThreadType, NEW y \in ThreadType, NEW b \in Seq(Reports(Nat)),
           Followed(c, o, v, l, x, y, b), Head(l).client # c
    PROVE  Followed(c, o, v, Tail(l), x, y, b)
  <1>0. PICK off : off = Elsewhere(c, x, y, b)
    OBVIOUS
  <1>1. Typed(o, v, Of(c, l) \cup off, off)
    <2>1. off \in SUBSET Reports(Nat \cup {None})
      BY <1>0, ElsewhereTyped
    <2> QED BY <2>1, TypedOrder
  <1>2. Settling(c, o, v, Tail(l), off)
    BY <1>0, <1>1, SettlingApplied DEF Followed
  <1>3. Of(c, l) = Of(c, Tail(l))
    <2>1. Of(c, l) = (IF Head(l).client = c THEN {Head(l)} ELSE {}) \cup Of(c, Tail(l))
      BY OfHead
    <2> QED BY <2>1
  <1>4. Pressed(c, o, v, Tail(l), x)
    BY <1>3 DEF Followed, Pressed
  <1> QED BY <1>0, <1>2, <1>4 DEF Followed

\* The gateway applies the head of the lane.
LEMMA LaneConverges ==
    ASSUME SimInv, ConvInv, LaneApply
    PROVE  ConvInv'
  <1>0. PICK x, y, h, c, n : /\ x = thread["cli"] /\ y = thread["feed"]
                             /\ h = Head(lane) /\ c = h.client /\ n = h.sequence
    OBVIOUS
  <1>1. /\ lane # <<>> /\ view' = [view EXCEPT ![c] = Apply(view[c], h)]
        /\ seen' = Append(seen, n) /\ lane' = Tail(lane)
        /\ UNCHANGED <<orders, connected, buffered, thread, doubt, bounds>>
    BY <1>0 DEF LaneApply, venueVars
  <1>2. /\ x \in ThreadType /\ y \in ThreadType /\ lane \in Seq(Reports(Nat))
        /\ buffered \in Seq(Reports(Nat)) /\ seen \in Seq(Nat)
    BY <1>0, InvFacts DEF Threads
  <1>3. h \in Reports(Nat) /\ n \in Nat /\ c \in Cids /\ h.event = n /\ h.exid \in ExchangeIds \cup {None}
    <2>1. h \in Reports(Nat)
      BY <1>0, <1>1, <1>2
    <2> QED BY <1>0, <2>1 DEF Reports
  <1>4. /\ n \notin ToSet(seen) /\ bounds.first <= n /\ bounds.first \in Nat
        /\ h \notin Of(c, Tail(lane)) \cup Elsewhere(c, x, y, buffered)
    BY <1>0, <1>1, HeadIsNew, HeadIsAlone, InvFacts
  <1>5. ToSet(seen') = ToSet(seen) \cup {n}
    <2>1. ToSet(Append(seen, n)) = ToSet(seen) \cup {n}
      BY <1>2, <1>3, ToSetAppend
    <2> QED BY <1>1, <2>1, Zenon
  <1>6. \A d \in Cids : d # c => view'[d] = view[d]
    BY <1>1, <1>3 DEF SimInv, SimTypes
  <1>7. ASSUME NEW d \in Cids \ doubt, d # c PROVE Known(d)' /\ Follows(d)'
    <2>0. PICK o, v : o = orders[d] /\ v = view[d]
      OBVIOUS
    <2>1. /\ Familiar(d, o, v, x, bounds.first, seen)
          /\ o # None => Followed(d, o, v, lane, x, y, buffered)
      BY <1>0, <2>0 DEF ConvInv, Known, Follows
    <2>2. Familiar(d, o, v, x, bounds.first, seen')
      BY <1>5, <2>1 DEF Familiar, Remembers
    <2>3. ASSUME o # None PROVE Followed(d, o, v, Tail(lane), x, y, buffered)
      <3>1. o \in SimOrderType /\ v \in OrderType
        BY <2>0, <2>3, OrderFacts
      <3> QED BY <1>0, <1>1, <1>2, <1>7, <2>1, <2>3, <3>1, FollowedBehind
    <2> QED BY <1>0, <1>1, <1>6, <1>7, <2>0, <2>2, <2>3 DEF Known, Follows
  <1>8. ASSUME c \notin doubt PROVE Known(c)' /\ Follows(c)'
    <2>0. PICK o, v, u : o = orders[c] /\ v = view[c] /\ u = Apply(view[c], h)
      OBVIOUS
    <2>1. /\ Familiar(c, o, v, x, bounds.first, seen)
          /\ o # None => Followed(c, o, v, lane, x, y, buffered)
      BY <1>0, <1>3, <1>8, <2>0 DEF ConvInv, Known, Follows
    <2>2. o # None /\ h.exid \in {None, o.exid} /\ v.exid \in {None, o.exid}
      <3>1. Reported(lane) /\ 1 \in 1 .. Len(lane) /\ lane[1] = h
        BY <1>0, <1>1, <1>2, InvFacts
      <3>2. orders[c] # None /\ h.exid \in {None, orders[c].exid}
        BY <1>0, <3>1 DEF Reported
      <3>3. view[c].exid \in {None, orders[c].exid}
        BY <1>3, <3>2 DEF SimInv, IdentityInv, Identified
      <3> QED BY <2>0, <3>2, <3>3
    <2>3. o \in SimOrderType /\ v \in OrderType /\ v # None /\ Followed(c, o, v, lane, x, y, buffered)
      BY <1>3, <2>0, <2>1, <2>2, OrderFacts
    <2>4. Plain(c, v) /\ Remembers(o, v, bounds.first, seen) /\ Placing(c, o, v, x)
      BY <2>1, <2>3 DEF Familiar
    <2>5. n \notin v.events
      <3>1. \A m \in v.events : m < bounds.first \/ m \in ToSet(seen)
        BY <2>2, <2>4 DEF Remembers
      <3> QED BY <1>3, <1>4, <3>1
    <2>6. h.cumulative <= h.quantity
      <3>1. Of(c, lane) = (IF Head(lane).client = c THEN {Head(lane)} ELSE {}) \cup Of(c, Tail(lane))
        BY <1>1, <1>2, OfHead
      <3>2. h \in Of(c, lane)
        BY <1>0, <3>1
      <3> QED BY <2>3, <3>2 DEF Followed, Settling, Converging, Fills
    <2>7. Applied(v, h, u)
      <3>1. /\ h.client \in v.clients /\ v.offsets = [e \in ExchangeIds |-> 0] /\ v.pendingPrice = None
            /\ h.event \notin v.events /\ (h.exid = None \/ v.exid = None \/ h.exid = v.exid)
        BY <1>0, <1>3, <2>2, <2>4, <2>5 DEF Plain
      <3>2. LET w == Apply(v, h) IN
            /\ Taken(v, h, w)
            /\ w.clients = v.clients /\ w.offsets = v.offsets /\ w.pendingPrice = None
            /\ w.events = v.events \cup {h.event} /\ w.pending \in {v.pending, "None"}
        BY <1>3, <2>3, <2>6, <3>1, ApplyTakes
      <3>3. u = Apply(v, h)
        BY <2>0
      <3> QED BY <3>2, <3>3 DEF Applied
    <2>8. Followed(c, o, u, Tail(lane), x, y, buffered) /\ Plain(c, u)
      BY <1>0, <1>1, <1>2, <1>4, <2>3, <2>4, <2>7, FollowedApplied
    <2>9. Familiar(c, o, u, x, bounds.first, seen')
      <3>1. Remembers(o, u, bounds.first, seen')
        BY <1>3, <1>5, <2>4, <2>7 DEF Remembers, Applied
      <3>2. Placing(c, o, u, x)
        BY <2>2, <2>4 DEF Placing
      <3> QED BY <2>8, <3>1, <3>2 DEF Familiar
    <2>10. view'[c] = u
      BY <1>1, <1>3, <2>0 DEF SimInv, SimTypes
    <2> QED BY <1>0, <1>1, <2>0, <2>8, <2>9, <2>10 DEF Known, Follows
  <1>9. Linked(x, connected)
    BY <1>0 DEF ConvInv
  <1> QED BY <1>0, <1>1, <1>7, <1>8, <1>9 DEF ConvInv
-----------------------------------------------------------------------------
(* ConvInv is inductive, relative to SimInv *)

\* At the start no order is known.
LEMMA InitConverges == SimInit => ConvInv
  <1> SUFFICES ASSUME SimInit PROVE ConvInv
    OBVIOUS
  <1>1. connected /\ \A c \in Cids : orders[c] = None /\ view[c] = None
    BY DEF SimInit
  <1>2. Linked(thread["cli"], connected)
    BY <1>1 DEF Linked
  <1> QED BY <1>1, <1>2 DEF ConvInv, Known, Follows, Familiar

\* A step that changes nothing.
LEMMA StutterConverges ==
    ASSUME ConvInv, UNCHANGED simVars PROVE ConvInv'
  BY DEF ConvInv, Known, Follows, simVars

\* Every step keeps ConvInv.
LEMMA NextConverges == SimInv /\ SimInv' /\ ConvInv /\ [SimNext]_simVars => ConvInv'
  <1> SUFFICES ASSUME SimInv, SimInv', ConvInv, [SimNext]_simVars PROVE ConvInv'
    OBVIOUS
  <1>1. CASE UNCHANGED simVars
    BY <1>1, StutterConverges
  <1>2. ASSUME NEW c \in Cids, NEW q \in SimQuantities, PlaceBegin(c, q) \/ AmendBegin(c, q) PROVE ConvInv'
    BY <1>2, BeginsConverge
  <1>3. ASSUME NEW c \in Cids, CancelBegin(c) PROVE ConvInv'
    BY <1>3, BeginsConverge
  <1>4. ASSUME NEW c \in Cids, Open(c), NEW n \in 1 .. orders[c].quantity - 1, EmitLocked(c, n) PROVE ConvInv'
    BY <1>4, EmitConverges
  <1>5. CASE RateLimited \/ PlaceLocked \/ CancelLocked \/ AmendLocked
    BY <1>5, LockedConverge
  <1>6. CASE Acked \/ Rejected \/ Uncertain
    BY <1>6, AnswersConverge
  <1>7. CASE CommandMatches \/ FeedMatches
    <2>1. PICK t \in Threads, reached \in SUBSET Cids :
              /\ Match(t, reached)
              /\ t = "feed" => thread["feed"].pc = "idle"
              /\ t = "cli" => thread["cli"].pc = "match"
      <3>1. CASE CommandMatches
        <4>1. PICK reached \in SUBSET Cids : Match("cli", reached)
          BY <3>1 DEF CommandMatches
        <4>2. thread["cli"].pc = "match" /\ "cli" \in Threads
          BY <3>1 DEF CommandMatches, Threads
        <4> QED BY <4>1, <4>2
      <3>2. CASE FeedMatches
        <4>1. PICK reached \in SUBSET Cids : Match("feed", reached)
          BY <3>2 DEF FeedMatches
        <4>2. thread["feed"].pc = "idle" /\ "feed" \in Threads
          BY <3>2 DEF FeedMatches, Threads
        <4> QED BY <4>1, <4>2
      <3> QED BY <1>7, <3>1, <3>2
    <2> QED BY <2>1, MatchConverges
  <1>8. CASE DeliverBuffered \/ Disconnect \/ Reconnect
    BY <1>8, ConnectionConverges
  <1>9. ASSUME NEW t \in Threads, Number(t) \/ PublishOrBuffer(t) \/ EmitReport(t) PROVE ConvInv'
    BY <1>9, NumberConverges, PublishConverges
  <1>10. CASE Restart
    BY <1>10, RestartConverges
  <1>11. CASE LaneApply
    BY <1>11, LaneConverges
  <1>12. CASE SimNext
    BY <1>2, <1>3, <1>4, <1>5, <1>6, <1>7, <1>8, <1>9, <1>10, <1>11, <1>12 DEF SimNext, Command, Work
  <1> QED BY <1>1, <1>12

\* However the reports of the simulator overtake each other, and through disconnections and
\* restarts: once all are applied the gateway shows the fills of every order the simulator has, and
\* its final status.
THEOREM GatewayDoesConverge == SimSpec => []GatewayConverges
  <1>1. SimInv /\ ConvInv => GatewayConverges
    <2> SUFFICES ASSUME SimInv, ConvInv, Quiet, connected, lane = <<>>,
                        NEW c \in Cids \ doubt, orders[c] # None
                 PROVE  /\ view[c].filled = orders[c].filled
                        /\ IsTerminal(orders[c].status) => view[c].status = orders[c].status
      BY DEF GatewayConverges
    <2>0. PICK o, v, x, y : o = orders[c] /\ v = view[c] /\ x = thread["cli"] /\ y = thread["feed"]
      OBVIOUS
    <2>1. x.pc = "idle" /\ y.pc = "idle" /\ HeldInv(x) /\ HeldInv(y)
      BY <2>0, InvFacts DEF Quiet, Threads
    <2>2. x.held = <<>> /\ y.held = <<>> /\ buffered = <<>>
      BY <2>0, <2>1 DEF HeldInv, SimInv, BufferInv
    <2>3. Of(c, <<>>) = {}
      <3>1. <<>> \in Seq(Reports(Nat))
        OBVIOUS
      <3> QED BY <3>1, OfQueue
    <2>4. Elsewhere(c, x, y, buffered) = {} /\ Of(c, lane) = {}
      BY <2>2, <2>3 DEF Elsewhere
    <2>5. Fills(o, v, {}) /\ Ends(o, v, {})
      <3>1. Followed(c, o, v, lane, x, y, buffered)
        BY <2>0 DEF ConvInv, Follows
      <3>2. PICK w, off, a : /\ off = Elsewhere(c, x, y, buffered) /\ w = Of(c, lane) \cup off
                             /\ a = Ahead(c, lane, off)
        OBVIOUS
      <3>3. Converging(o, v, w, off, a) /\ w = {}
        BY <2>4, <3>1, <3>2 DEF Followed, Settling
      <3> QED BY <3>3 DEF Converging
    <2>6. o.status \in SimStatuses
      BY <2>0, OrderFacts DEF SimOrderType
    <2> QED BY <2>0, <2>5, <2>6 DEF Fills, Ends, IsTerminal, SimStatuses
  <1> QED BY <1>1, InitSimInv, NextSimInv, InitConverges, NextConverges, PTL DEF SimSpec
=============================================================================
