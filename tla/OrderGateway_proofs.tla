------------------------ MODULE OrderGateway_proofs ------------------------
(***************************************************************************)
(* Proofs about OrderGateway for every set of orders, commands, threads,   *)
(* physical orders and scenarios: what mutex_, active_operations_, the     *)
(* sequence numbers of the journal and processed_requests guarantee        *)
(* together, whatever the venue does and whenever the process dies.        *)
(***************************************************************************)
EXTENDS OrderGateway, FiniteSetTheorems, SequenceTheorems, TLAPS

(***************************************************************************)
(* OrderStateMachine::apply keeps an order well formed (for the gateway as *)
(* for the histories of a single order in OrderLifecycle_proofs).          *)
(***************************************************************************)
LEMMA MergeTermsType ==
    ASSUME NEW o \in OrderType, NEW r \in ReportType
    PROVE  MergeTerms(o, r) \in OrderType
  <1>1. CASE IsHistoricalGeneration(o, r)
    BY <1>1 DEF MergeTerms
  <1>2. CASE ~IsHistoricalGeneration(o, r)
    <2> DEFINE p == IF r.price # None THEN r.price ELSE o.price
               q == IF r.quantity # None THEN ObservedQuantity(o, r) ELSE o.quantity
    <2>1. p \in Nat \cup {None}
      BY DEF OrderType, ReportType
    <2>2. OffsetFor(o, r.exid) \in Nat
      BY DEF OffsetFor, OrderType, ReportType
    <2>3. q \in Nat
      BY <2>2, NoneAssumption DEF OrderType, ReportType, ObservedQuantity
    <2>4. MergeTerms(o, r) = [o EXCEPT !.price = p, !.quantity = q]
      BY <1>2 DEF MergeTerms, OrderType
    <2> QED BY <2>1, <2>3, <2>4, ZenonT(60) DEF OrderType
  <1> QED BY <1>1, <1>2

\* A valid report leaves the status, the fills and the identifiers well typed
\* (derive_status, std::max on filled_quantity).
LEMMA MergeFillsType ==
    ASSUME NEW o \in OrderType, NEW r \in ReportType, ~IsInvalid(o, r)
    PROVE  /\ MergeFills(o, r) \in OrderType
           /\ AggregateFilled(o, r) \in Nat
  <1> DEFINE terms == MergeTerms(o, r)
             aggregate == AggregateFilled(o, r)
             status == DeriveStatus(terms, r, aggregate, IsHistoricalGeneration(o, r),
                                    StaleSequence(o, r))
  <1>1. terms \in OrderType
    BY MergeTermsType
  <1>2. aggregate \in Nat
    BY NoneAssumption DEF AggregateFilled, OffsetFor, IsInvalid, OrderType, ReportType
  <1>3. status \in Statuses
    BY <1>1 DEF DeriveStatus, OrderType, ReportType, Statuses, IsTerminal
  <1>4. FilledAfter(terms, status, aggregate) \in Nat
    BY <1>1, <1>2 DEF FilledAfter, OrderType
  <1>5. (IF ~IsHistoricalGeneration(o, r) /\ r.exid # None THEN r.exid ELSE terms.exid)
            \in ExchangeIds \cup {None}
    BY <1>1 DEF OrderType, ReportType
  <1>6. (IF r.sequence # None /\ (terms.lastSequence = None \/ r.sequence > terms.lastSequence)
         THEN r.sequence ELSE terms.lastSequence) \in Nat \cup {None}
    BY <1>1 DEF OrderType, ReportType
  <1>7. (IF r.event # None THEN terms.events \cup {r.event} ELSE terms.events) \in SUBSET Nat
    BY <1>1 DEF OrderType, ReportType
  <1> HIDE DEF terms, aggregate, status
  <1>8. MergeFills(o, r) =
          [terms EXCEPT
            !.status = status,
            !.filled = FilledAfter(terms, status, aggregate),
            !.exid = IF ~IsHistoricalGeneration(o, r) /\ r.exid # None THEN r.exid ELSE terms.exid,
            !.lastSequence = IF r.sequence # None /\
                                (terms.lastSequence = None \/ r.sequence > terms.lastSequence)
                             THEN r.sequence ELSE terms.lastSequence,
            !.events = IF r.event # None THEN terms.events \cup {r.event} ELSE terms.events]
    BY <1>1 DEF MergeFills, terms, aggregate, status, OrderType
  <1> QED BY <1>1, <1>2, <1>3, <1>4, <1>5, <1>6, <1>7, <1>8, ZenonT(60)
           DEF OrderType, aggregate

\* apply as a whole keeps an order well formed.
LEMMA ApplyType ==
    ASSUME NEW o \in OrderType, NEW r \in ReportType
    PROVE  Apply(o, r) \in OrderType
  <1>1. CASE Disposition(o, r) \in {"Duplicate", "Invalid"}
    BY <1>1 DEF Apply
  <1>2. CASE Disposition(o, r) \notin {"Duplicate", "Invalid"}
    <2>1. ~IsInvalid(o, r)
      BY <1>2 DEF Disposition
    <2>2. MergeFills(o, r) \in OrderType
      BY <2>1, MergeFillsType
    <2>3. Merge(o, r) \in OrderType
      BY <2>2, ZenonT(60) DEF Merge, OrderType, PendingActions
    <2> QED BY <1>2, <2>3 DEF Apply
  <1> QED BY <1>1, <1>2
-----------------------------------------------------------------------------

(***************************************************************************)
(* Types.  Every report of the venue names its order, its terms and its    *)
(* fill.                                                                   *)
(***************************************************************************)
VenueReport ==
    [event : Nat, client : STRING, exid : ExchangeIds, status : Statuses, cumulative : Nat,
     price : {None}, quantity : Nat, sequence : {None}]
ResultType ==
    [kind : {"ack", "uncertain", "reject"}, exid : ExchangeIds \cup {None},
     reports : Seq(VenueReport)]
ActType ==
    [pc : Steps, cmd : Commands \cup {None}, result : ResultType \cup {None},
     reports : Seq(VenueReport)]
RecType ==
    [todo : SUBSET Cids, observed : SUBSET Cids, unresolved : BOOLEAN,
     cid : Cids \cup {None}, exid : ExchangeIds \cup {None}]
RequestType ==
    [op : {"place", "cancel", "amend"}, cid : Cids, exid : ExchangeIds \cup {None},
     quantity : Nat, known : BOOLEAN, acked : BOOLEAN]
RecordType ==
    {r \in [owner : Actors, cid : Cids, superseded : BOOLEAN, order : OrderType,
            requests : UNION {[RequestsOf(cid) -> Outcomes] : cid \in Cids}] :
        r.requests \in [RequestsOf(r.cid) -> Outcomes]}

OrderTypes ==
    /\ orders \in [Cids -> OrderType \cup {None}]
    /\ requests \in [Commands -> Outcomes]
    /\ reserved \in Seq(RecordType)
JournalTypes ==
    /\ journal = [cid \in Cids |-> journal[cid]]
    /\ \A cid \in Cids : journal[cid] \in JournalType(Commands, cid) \cup {None}
ActorTypes ==
    /\ act \in [Actors -> ActType]
    /\ rec \in RecType
    /\ deferred \in [Cids -> Seq(VenueReport)]
    /\ active \subseteq Cids
VenueTypes ==
    /\ venue \in [ExchangeIds -> PhysType \cup {None}]
    /\ inflight \subseteq RequestType
    /\ stamp \in Nat
    /\ lane \in Seq(VenueReport)
    /\ Len(lane) + (IF act["lane"].pc = "idle" THEN 0 ELSE 1) <= LaneCapacity
    /\ reconReq \in BOOLEAN
HistoryTypes ==
    /\ scenario \in Scenarios
    /\ sent \in [Commands -> Nat]

(***************************************************************************)
(* The types hold because a thread that waits for the venue has an order,  *)
(* an answer that replaces an order brings the report of the new one, and  *)
(* a pass of reconciliation works on orders that exist.                    *)
(***************************************************************************)
Answer(result, op) ==
    /\ result \in ResultType
    /\ Len(result.reports) <= 2
    /\ op = "amend" /\ result.exid # None =>
          \E r \in ToSet(result.reports) : r.exid = result.exid
CallTypes ==
    /\ \A t \in Threads : InVenueCall(t) => act[t].cmd \in Commands /\ act[t].cmd.cid \in Known
    /\ \A t \in Threads : act[t].pc = "finish" => Answer(act[t].result, act[t].cmd.op)
    /\ act["lane"].pc \in {"idle", "applied"}
    /\ act[R].pc \in {"openApply", "answer"} => act[R].reports # <<>>
    /\ act[R].pc \in {"query", "null"} => rec.cid \in Known
    /\ rec.todo \subseteq Known

TInv == OrderTypes /\ JournalTypes /\ ActorTypes /\ VenueTypes /\ HistoryTypes /\ CallTypes
-----------------------------------------------------------------------------
(***************************************************************************)
(* The inductive invariant.                                                *)
(***************************************************************************)
Has(outcomes, k) == outcomes[k] # "absent"

\* What a command leaves in a set of outcomes: a placement leaves the order itself.
Noted(k, outcomes) == k.op # "place" => Has(outcomes, k)

\* A restart would find the command.
Logged(k) == journal[k.cid] # None /\ Noted(k, journal[k.cid].requests)

\* active_operations_ keeps commands of one order apart.
CallInv ==
    /\ active \subseteq Known
    /\ OneOperationPerOrder
    /\ \A t \in Threads : InVenueCall(t) => act[t].cmd.cid \in active /\ Noted(act[t].cmd, requests)

\* What was sent is remembered in memory and in the journal, and what is about to be sent was
\* not sent before.
SentInv ==
    /\ AppendBeforeRoute /\ AtMostOnceSent
    /\ \A t \in Threads : act[t].pc = "send" => Logged(act[t].cmd)
    /\ \A t \in Threads : act[t].pc \in {"intent", "send"} =>
          \A k \in Commands : SameIdentifier(act[t].cmd, k) => sent[k] = 0
    /\ \A k \in Commands : sent[k] > 0 => k.cid \in Known /\ Noted(k, requests)

\* Who has a sequence number is about to append, and has one only.
Committing == {"rejected", "intent", "outcome", "applied"}
OwnInv ==
    /\ \A i \in DOMAIN reserved : act[reserved[i].owner].pc \in Committing
    /\ \A i, j \in DOMAIN reserved : reserved[i].owner = reserved[j].owner => i = j
    /\ \A i \in DOMAIN reserved : \A t \in Threads :
          reserved[i].owner = t /\ act[t].pc = "intent" =>
              reserved[i].cid = act[t].cmd.cid /\ Noted(act[t].cmd, reserved[i].requests)

\* An actor that is about to append or inside a venue call.
Busy == Committing \cup {"send", "finish"}

\* Later records know the requests of earlier ones; the journal is at least as new as the
\* records it has superseded and not newer than those it has not.
LogInv ==
    /\ \A i, j \in DOMAIN reserved : i < j /\ reserved[i].cid = reserved[j].cid =>
          \A k \in RequestsOf(reserved[i].cid) :
              Has(reserved[i].requests, k) => Has(reserved[j].requests, k)
    /\ \A i \in DOMAIN reserved : \A k \in RequestsOf(reserved[i].cid) :
          Has(reserved[i].requests, k) => Has(requests, k)
    /\ \A k \in Commands : journal[k.cid] # None /\ Has(journal[k.cid].requests, k) =>
          Has(requests, k)
    /\ \A i \in DOMAIN reserved : ~reserved[i].superseded /\ journal[reserved[i].cid] # None =>
          \A k \in RequestsOf(reserved[i].cid) :
              Has(journal[k.cid].requests, k) => Has(reserved[i].requests, k)
    /\ \A i \in DOMAIN reserved : reserved[i].superseded =>
          /\ journal[reserved[i].cid] # None
          /\ \A k \in RequestsOf(reserved[i].cid) :
                Has(reserved[i].requests, k) => Has(journal[k.cid].requests, k)

GInv == TInv /\ CallInv /\ SentInv /\ OwnInv /\ LogInv
-----------------------------------------------------------------------------
\* A finite function on an initial segment is a sequence.
LEMMA SeqOfFunction ==
    ASSUME NEW S, NEW n \in Nat, NEW f \in [1 .. n -> S]
    PROVE  f \in Seq(S) /\ Len(f) = n /\ DOMAIN f = 1 .. n
  BY SeqDef

\* Removing an element of a sequence moves the later ones down.
LEMMA RemoveAtFacts ==
    ASSUME NEW S, NEW s \in Seq(S), NEW i \in DOMAIN s
    PROVE  /\ RemoveAt(s, i) \in Seq(S)
           /\ DOMAIN RemoveAt(s, i) = 1 .. Len(s) - 1
           /\ \A j \in 1 .. Len(s) - 1 : RemoveAt(s, i)[j] = IF j < i THEN s[j] ELSE s[j + 1]
  <1>1. /\ Len(s) \in Nat /\ DOMAIN s = 1 .. Len(s) /\ i \in 1 .. Len(s)
        /\ \A j \in 1 .. Len(s) : s[j] \in S
    BY LenProperties, ElementOfSeq
  <1> DEFINE a == SubSeq(s, 1, i - 1)
             b == SubSeq(s, i + 1, Len(s))
  <1>2. /\ a \in Seq(S) /\ Len(a) = i - 1
        /\ \A j \in 1 .. i - 1 : a[j] = s[j]
    <2>1. \A j \in 1 .. i - 1 : s[j] \in S
      BY <1>1
    <2>2. /\ a \in Seq(S)
          /\ Len(a) = IF 1 <= i - 1 THEN (i - 1) - 1 + 1 ELSE 0
          /\ \A j \in 1 .. (i - 1) - 1 + 1 : a[j] = s[1 + j - 1]
      BY <1>1, <2>1, SubSeqProperties
    <2> QED BY <1>1, <2>2
  <1>3. /\ b \in Seq(S) /\ Len(b) = Len(s) - i
        /\ \A j \in 1 .. Len(s) - i : b[j] = s[i + j]
    <2>1. \A j \in i + 1 .. Len(s) : s[j] \in S
      BY <1>1
    <2>2. /\ b \in Seq(S)
          /\ Len(b) = IF i + 1 <= Len(s) THEN Len(s) - (i + 1) + 1 ELSE 0
          /\ \A j \in 1 .. Len(s) - (i + 1) + 1 : b[j] = s[(i + 1) + j - 1]
      BY <1>1, <2>1, SubSeqProperties
    <2>3. Len(b) = Len(s) - i /\ Len(s) - (i + 1) + 1 = Len(s) - i
      BY <1>1, <2>2
    <2>4. \A j \in 1 .. Len(s) - i : (i + 1) + j - 1 = i + j
      BY <1>1
    <2> QED BY <2>2, <2>3, <2>4
  <1> HIDE DEF a, b
  <1>4. /\ a \o b \in Seq(S) /\ Len(a \o b) = Len(s) - 1
        /\ \A j \in 1 .. Len(s) - 1 : (a \o b)[j] = IF j <= i - 1 THEN a[j] ELSE b[j - (i - 1)]
    <2>1. /\ a \o b \in Seq(S)
          /\ Len(a \o b) = Len(a) + Len(b)
          /\ \A j \in 1 .. Len(a) + Len(b) : (a \o b)[j] =
                IF j <= Len(a) THEN a[j] ELSE b[j - Len(a)]
      BY <1>2, <1>3, ConcatProperties
    <2> QED BY <1>1, <1>2, <1>3, <2>1, SMTT(30)
  <1>5. RemoveAt(s, i) = a \o b
    BY DEF RemoveAt, a, b
  <1>6. DOMAIN (a \o b) = 1 .. Len(s) - 1
    BY <1>4, LenProperties
  <1>7. \A j \in 1 .. Len(s) - 1 : (a \o b)[j] = IF j < i THEN s[j] ELSE s[j + 1]
    <2> TAKE j \in 1 .. Len(s) - 1
    <2>1. CASE j < i
      BY <1>1, <1>2, <1>4, <2>1
    <2>2. CASE ~(j < i)
      <3>1. j - (i - 1) \in 1 .. Len(s) - i /\ i + (j - (i - 1)) = j + 1
        BY <1>1, <2>2
      <3> QED BY <1>1, <1>3, <1>4, <2>2, <3>1, SMTT(30)
    <2> QED BY <2>1, <2>2
  <1> QED BY <1>4, <1>5, <1>6, <1>7

\* Every report of the venue is one the state machine takes.
LEMMA VenueReportType == VenueReport \subseteq ReportType
  BY DEF VenueReport, ReportType

\* The commands of a behaviour are commands; orders, records and None differ.
LEMMA CommandFacts ==
    ASSUME scenario \in Scenarios
    PROVE  /\ Commands \subseteq CommandType
           /\ \A k \in Commands : k.cid \in Cids /\ k.quantity \in Nat /\ k.req \in STRING
                                  /\ k.op \in {"place", "cancel", "amend"}
                                  /\ k.price \in Nat \cup {None}
           /\ \A cid \in Cids : None \notin JournalType(Commands, cid)
           /\ LaneCapacity \in Nat \ {0}
           /\ scenario.exids \subseteq ExchangeIds /\ scenario.threads \subseteq Threads
           /\ Kind \in {"Okx", "Binance"}
  BY GatewayAssumption DEF Commands, CommandType, LaneCapacity, Kind

LEMMA ActorFacts ==
    /\ Threads \subseteq Actors /\ "lane" \in Actors /\ R \in Actors
    /\ "lane" \notin Threads /\ R \notin Threads /\ R # "lane"
  BY GatewayAssumption DEF Actors, R
-----------------------------------------------------------------------------
\* The settings of a behaviour do not change, nor what depends on them only.
LEMMA SameScenario ==
    ASSUME scenario' = scenario
    PROVE  /\ Commands' = Commands /\ Kind' = Kind /\ LaneCapacity' = LaneCapacity
           /\ Faults' = Faults
           /\ \A cid \in Cids : RequestsOf(cid)' = RequestsOf(cid)
           /\ RecordType' = RecordType /\ ActType' = ActType
           /\ \A cid \in Cids : JournalType(Commands, cid)' = JournalType(Commands, cid)
  BY DEF Commands, Kind, LaneCapacity, Faults, RequestsOf, RecordType, ActType, JournalType

\* A record under way: the last of the list, with the outcomes of its order.
LEMMA ReserveTypes ==
    ASSUME reserved \in Seq(RecordType), scenario \in Scenarios, NEW a \in Actors,
           NEW cid \in Cids, NEW o \in OrderType, NEW q \in [Commands -> Outcomes],
           Reserve(a, cid, o, q)
    PROVE  /\ reserved' \in Seq(RecordType)
           /\ Len(reserved) \in Nat /\ DOMAIN reserved = 1 .. Len(reserved)
           /\ DOMAIN reserved' = 1 .. Len(reserved) + 1
           /\ \A i \in DOMAIN reserved : reserved'[i] = reserved[i]
           /\ reserved'[Len(reserved) + 1] =
                 [owner |-> a, cid |-> cid, superseded |-> FALSE, order |-> o,
                  requests |-> [k \in RequestsOf(cid) |-> q[k]]]
  <1> DEFINE r == [owner |-> a, cid |-> cid, superseded |-> FALSE, order |-> o,
                   requests |-> [k \in RequestsOf(cid) |-> q[k]]]
  <1>1. [k \in RequestsOf(cid) |-> q[k]] \in [RequestsOf(cid) -> Outcomes]
    BY DEF RequestsOf
  <1>2. r \in RecordType
    BY <1>1 DEF RecordType
  <1>3. reserved' = Append(reserved, r)
    BY DEF Reserve
  <1> HIDE DEF r
  <1>4. /\ reserved' \in Seq(RecordType) /\ Len(reserved') = Len(reserved) + 1
        /\ \A i \in 1 .. Len(reserved) : reserved'[i] = reserved[i]
        /\ reserved'[Len(reserved) + 1] = r
    BY <1>2, <1>3, AppendProperties
  <1>5. /\ Len(reserved) \in Nat /\ DOMAIN reserved = 1 .. Len(reserved)
        /\ DOMAIN reserved' = 1 .. Len(reserved) + 1
    BY <1>4, LenProperties
  <1> QED BY <1>4, <1>5 DEF r

\* A change of an order under mutex_ keeps it an order.
LEMMA UpdateTypes ==
    ASSUME OrderTypes, scenario \in Scenarios, scenario' = scenario, NEW a \in Actors,
           NEW cid \in Cids, NEW o \in OrderType, NEW q \in [Commands -> Outcomes],
           Update(a, cid, o, q)
    PROVE  /\ OrderTypes'
           /\ Known \subseteq Known' /\ cid \in Known'
           /\ \A c \in Cids : c # cid => orders'[c] = orders[c]
  <1>1. reserved' \in Seq(RecordType)
    BY ReserveTypes DEF OrderTypes, Update
  <1>2. orders' = [orders EXCEPT ![cid] = o] /\ requests' = q
    BY DEF Update
  <1>3. OrderTypes'
    BY <1>1, <1>2, SameScenario DEF OrderTypes
  <1>4. orders'[cid] = o /\ \A c \in Cids : c # cid => orders'[c] = orders[c]
    BY <1>2 DEF OrderTypes
  <1> QED BY <1>3, <1>4, NoneAssumption DEF Known

\* The venue's reports have the types.
LEMMA ReportOfType ==
    ASSUME scenario \in Scenarios, NEW x \in ExchangeIds, NEW phys \in PhysType, NEW channel
    PROVE  ReportOf(x, phys, channel) \in VenueReport /\ ReportOf(x, phys, channel).exid = x
  <1>1. VenueName(x, phys) \in STRING /\ StreamClient(x, phys) \in STRING
    BY GatewayAssumption DEF VenueName, StreamClient, PhysType
  <1>2. ASSUME NEW e \in Nat, NEW c \in STRING
        PROVE  Report(x, phys, e, c) \in VenueReport /\ Report(x, phys, e, c).exid = x
    BY DEF Report, VenueReport, PhysType
  <1>3. 3 * phys.stamp \in Nat /\ 3 * phys.stamp + 1 \in Nat /\ 3 * phys.stamp + 2 \in Nat
    BY DEF PhysType
  <1> QED BY <1>1, <1>2, <1>3
          DEF ReportOf, ParseOrderUpdate, ParseExecutionReport, BinanceOrderResponseReport

\* The lane takes what it has room for.
LEMMA ReceiveTypes ==
    ASSUME scenario \in Scenarios, scenario' = scenario, VenueTypes, act["lane"].pc' = act["lane"].pc,
           NEW reports \in Seq(VenueReport), Receive(reports)
    PROVE  /\ lane' \in Seq(VenueReport)
           /\ (Len(lane) + (IF act["lane"].pc = "idle" THEN 0 ELSE 1) <= LaneCapacity)'
           /\ reconReq' \in BOOLEAN
  <1> DEFINE kept == IF ~connected THEN 0 ELSE IF Len(reports) < Room THEN Len(reports) ELSE Room
             busy == IF act["lane"].pc = "idle" THEN 0 ELSE 1
  <1>1. lane' = lane \o SubSeq(reports, 1, kept) /\ reconReq' \in BOOLEAN
    BY DEF Receive
  <1>2. /\ Len(lane) \in Nat /\ Len(reports) \in Nat /\ LaneCapacity \in Nat
        /\ lane \in Seq(VenueReport)
        /\ \A i \in 1 .. Len(reports) : reports[i] \in VenueReport
    BY CommandFacts, LenProperties, ElementOfSeq DEF VenueTypes
  <1>3. /\ Room = LaneCapacity - Len(lane) - busy
        /\ Room \in Nat /\ busy \in {0, 1}
    BY <1>2 DEF Room, VenueTypes
  <1> HIDE DEF busy
  <1>4. kept \in Nat /\ kept <= Len(reports) /\ kept <= Room
    <2>1. Len(reports) \in Nat /\ Room \in Nat
      BY <1>2, <1>3
    <2>2. CASE ~connected
      BY <2>1, <2>2
    <2>3. CASE connected /\ Len(reports) < Room
      BY <2>1, <2>3
    <2>4. CASE connected /\ ~(Len(reports) < Room)
      BY <2>1, <2>4
    <2> QED BY <2>2, <2>3, <2>4
  <1> HIDE DEF kept
  <1>5. SubSeq(reports, 1, kept) \in Seq(VenueReport) /\ Len(SubSeq(reports, 1, kept)) = kept
    <2>1. \A i \in 1 .. kept : reports[i] \in VenueReport
      BY <1>2, <1>4
    <2>2. /\ SubSeq(reports, 1, kept) \in Seq(VenueReport)
          /\ Len(SubSeq(reports, 1, kept)) = IF 1 <= kept THEN kept - 1 + 1 ELSE 0
      BY <1>4, <2>1, SubSeqProperties
    <2> QED BY <1>4, <2>2
  <1>6. lane' \in Seq(VenueReport) /\ Len(lane') = Len(lane) + kept
    BY <1>1, <1>2, <1>5, ConcatProperties
  <1>7. Len(lane) + kept + busy <= LaneCapacity
    BY <1>2, <1>3, <1>4
  <1>8. Len(lane') + (IF act'["lane"].pc = "idle" THEN 0 ELSE 1) <= LaneCapacity'
    <2>1. (IF act'["lane"].pc = "idle" THEN 0 ELSE 1) = busy
      BY DEF busy
    <2>2. Len(lane) + kept + busy = (Len(lane) + kept) + busy
      BY <1>2, <1>3, <1>4
    <2> QED BY <1>6, <1>7, <2>1, <2>2, SameScenario
  <1> QED BY <1>1, <1>6, <1>8

\* An event at the venue: a physical order changes and the stream carries its report.
LEMMA VenueMovesTypes ==
    ASSUME scenario \in Scenarios, scenario' = scenario, VenueTypes, act["lane"].pc' = act["lane"].pc,
           NEW x \in ExchangeIds, NEW phys \in PhysType, VenueMoves(x, phys),
           inflight' \subseteq RequestType
    PROVE  VenueTypes' /\ venue'[x] \in PhysType
  <1> DEFINE moved == [phys EXCEPT !.stamp = stamp + 1]
  <1>1. stamp + 1 \in Nat
    BY DEF VenueTypes
  <1>2. moved \in PhysType
    BY <1>1 DEF PhysType
  <1>3. stamp' = stamp + 1 /\ venue' = [venue EXCEPT ![x] = moved]
        /\ Receive(<<ReportOf(x, moved, "stream")>>)
    BY DEF VenueMoves
  <1> HIDE DEF moved
  <1>4. <<ReportOf(x, moved, "stream")>> \in Seq(VenueReport)
    BY <1>2, ReportOfType
  <1>5. /\ lane' \in Seq(VenueReport)
        /\ (Len(lane) + (IF act["lane"].pc = "idle" THEN 0 ELSE 1) <= LaneCapacity)'
        /\ reconReq' \in BOOLEAN
    BY <1>3, <1>4, ReceiveTypes
  <1>6. venue' \in [ExchangeIds -> PhysType \cup {None}] /\ venue'[x] = moved
    BY <1>2, <1>3 DEF VenueTypes
  <1> QED BY <1>1, <1>2, <1>3, <1>5, <1>6 DEF VenueTypes

\* A replacement: the old physical order is canceled, the new one is there.
LEMMA VenueReplacesTypes ==
    ASSUME scenario \in Scenarios, scenario' = scenario, VenueTypes, act["lane"].pc' = act["lane"].pc,
           NEW old \in ExchangeIds, venue[old] \in PhysType, NEW x \in ExchangeIds, x # old,
           NEW q \in Nat, NEW known \in BOOLEAN, VenueReplaces(old, x, q, known),
           inflight' \subseteq RequestType
    PROVE  VenueTypes' /\ venue'[x] \in PhysType /\ venue'[old] \in PhysType
  <1> DEFINE canceled == [venue[old] EXCEPT !.status = "Canceled", !.stamp = stamp + 1]
             fresh == [NewPhys(venue[old].cid, q, FALSE, known) EXCEPT !.stamp = stamp + 2]
  <1>1. stamp + 1 \in Nat /\ stamp + 2 \in Nat
    BY DEF VenueTypes
  <1>2. canceled \in PhysType
    BY <1>1 DEF PhysType, Statuses
  <1>3. fresh \in PhysType
    BY <1>1 DEF PhysType, Statuses, NewPhys
  <1>4. /\ stamp' = stamp + 2 /\ venue' = [venue EXCEPT ![old] = canceled, ![x] = fresh]
        /\ Receive(<<ReportOf(old, canceled, "stream"), ReportOf(x, fresh, "stream")>>)
    BY DEF VenueReplaces
  <1> HIDE DEF canceled, fresh
  <1>5. <<ReportOf(old, canceled, "stream"), ReportOf(x, fresh, "stream")>> \in Seq(VenueReport)
    BY <1>2, <1>3, ReportOfType
  <1>6. /\ lane' \in Seq(VenueReport)
        /\ (Len(lane) + (IF act["lane"].pc = "idle" THEN 0 ELSE 1) <= LaneCapacity)'
        /\ reconReq' \in BOOLEAN
    BY <1>4, <1>5, ReceiveTypes
  <1>7. venue' \in [ExchangeIds -> PhysType \cup {None}] /\ venue'[x] = fresh /\ venue'[old] = canceled
    BY <1>2, <1>3, <1>4 DEF VenueTypes
  <1> QED BY <1>1, <1>2, <1>3, <1>4, <1>6, <1>7 DEF VenueTypes

\* The order a report belongs to exists.
LEMMA OwnerKnown ==
    ASSUME NEW report
    PROVE  Owner(report) \in Known \cup {None}
  BY DEF Owner, Known

\* apply_execution keeps the types of orders and of the reports it puts off.
LEMMA ApplyExecutionTypes ==
    ASSUME OrderTypes, scenario \in Scenarios, scenario' = scenario,
           deferred \in [Cids -> Seq(VenueReport)], reconReq \in BOOLEAN,
           NEW a \in Actors, NEW report \in VenueReport, ApplyExecution(a, report)
    PROVE  /\ OrderTypes' /\ Known \subseteq Known'
           /\ deferred' \in [Cids -> Seq(VenueReport)] /\ reconReq' \in BOOLEAN
  <1> DEFINE cid == Owner(report)
  <1>1. CASE Records(report)
    <2>1. cid \in Cids /\ orders[cid] \in OrderType
      BY <1>1, OwnerKnown DEF Records, Known, OrderTypes
    <2>2. Apply(orders[cid], report) \in OrderType
      BY <2>1, ApplyType, VenueReportType
    <2>3. Update(a, cid, Apply(orders[cid], report), requests) /\ UNCHANGED <<deferred, reconReq>>
      BY <1>1 DEF ApplyExecution
    <2>4. requests \in [Commands -> Outcomes]
      BY DEF OrderTypes
    <2> HIDE DEF cid
    <2> QED BY <2>1, <2>2, <2>3, <2>4, UpdateTypes
  <1>2. CASE ~Records(report)
    <2>1. /\ deferred' = IF cid # None /\ MustDefer(orders[cid], report)
                         THEN [deferred EXCEPT ![cid] = Append(@, report)] ELSE deferred
          /\ reconReq' \in BOOLEAN /\ UNCHANGED core
      BY <1>2 DEF ApplyExecution
    <2>2. ASSUME cid # None PROVE Append(deferred[cid], report) \in Seq(VenueReport)
      BY <2>2, OwnerKnown, AppendProperties DEF Known
    <2>3. deferred' \in [Cids -> Seq(VenueReport)]
      BY <2>1, <2>2
    <2>4. OrderTypes' /\ Known' = Known
      BY <2>1, SameScenario DEF OrderTypes, core, Known
    <2> QED BY <2>1, <2>3, <2>4
  <1> QED BY <1>1, <1>2

\* The generation that a replacement begins is an order again.
LEMMA ReplacedType ==
    ASSUME NEW o \in OrderType, NEW result, Answer(result, "amend"), result.exid # None
    PROVE  Replaced(o, result) \in OrderType
  <1>1. /\ result.exid \in ExchangeIds /\ result.reports \in Seq(VenueReport)
        /\ Len(result.reports) \in Nat /\ Len(result.reports) <= 2
        /\ DOMAIN result.reports = 1 .. Len(result.reports)
    BY LenProperties DEF Answer, ResultType
  <1>2. ToSet(result.reports) \subseteq VenueReport
    BY <1>1, ElementOfSeq DEF ToSet
  <1> DEFINE fresh == CHOOSE r \in ToSet(result.reports) : r.exid = result.exid
             S == FinalFills(o, result) \cup {o.filled}
             F(i) == OffsetFor(o, result.reports[i].exid) + result.reports[i].cumulative
  <1>3. fresh \in VenueReport
    BY <1>2 DEF Answer
  <1>4. \A r \in VenueReport : OffsetFor(o, r.exid) + r.cumulative \in Nat
    BY DEF OffsetFor, OrderType, VenueReport
  <1>5. S \subseteq Nat /\ o.filled \in S
    BY <1>2, <1>4 DEF FinalFills, OrderType
  <1>6. \A m \in S : m = o.filled \/ m = F(1) \/ m = F(2)
    <2> TAKE m \in S
    <2>1. CASE m = o.filled
      BY <2>1
    <2>2. CASE m \in FinalFills(o, result)
      <3>1. PICK i \in DOMAIN result.reports : m = F(i)
        BY <2>2 DEF FinalFills, ToSet
      <3>2. i = 1 \/ i = 2
        BY <1>1
      <3> QED BY <3>1, <3>2
    <2> QED BY <2>1, <2>2
  <1>7. FinalFill(o, result) \in Nat
    <2>0. FinalFill(o, result) = Max(S)
      BY DEF FinalFill
    <2>1. PICK a, b : \A m \in S : m = o.filled \/ m = a \/ m = b
      BY <1>6
    <2> HIDE DEF S
    <2>3. \E m \in S : \A n \in S : m >= n
      <3>0. o.filled \in Nat /\ S \subseteq Nat /\ o.filled \in S
        BY <1>5
      <3>1. CASE a \in S /\ b \in S
        <4>1. a \in Nat /\ b \in Nat
          BY <1>5, <3>1
        <4>2. PICK m \in {o.filled, a, b} : m >= o.filled /\ m >= a /\ m >= b
          BY <3>0, <4>1
        <4> QED BY <2>1, <3>0, <3>1, <4>2
      <3>2. CASE a \in S /\ b \notin S
        <4>1. PICK m \in {o.filled, a} : m >= o.filled /\ m >= a
          BY <3>0, <3>2
        <4> QED BY <2>1, <3>0, <3>2, <4>1
      <3>3. CASE a \notin S /\ b \in S
        <4>1. PICK m \in {o.filled, b} : m >= o.filled /\ m >= b
          BY <3>0, <3>3
        <4> QED BY <2>1, <3>0, <3>3, <4>1
      <3>4. CASE a \notin S /\ b \notin S
        BY <2>1, <3>0, <3>4
      <3> QED BY <3>1, <3>2, <3>3, <3>4
    <2>2. Max(S) \in S
      BY <2>3 DEF Max
    <2> QED BY <1>5, <2>0, <2>2
  <1> DEFINE final == FinalFill(o, result)
  <1>8. final + fresh.quantity \in Nat
    BY <1>3, <1>7 DEF VenueReport
  <1>9. (IF o.exid = None THEN o.aliases ELSE o.aliases \cup {o.exid}) \in SUBSET ExchangeIds
    BY DEF OrderType
  <1>10. o.clients \cup {result.exid} \in SUBSET STRING
    BY <1>1, GatewayAssumption DEF OrderType
  <1>11. [o.offsets EXCEPT ![result.exid] = final] \in [ExchangeIds -> Nat]
    BY <1>7 DEF OrderType
  <1>12. (IF final > 0 THEN "PartiallyFilled" ELSE "Live") \in Statuses
    BY DEF Statuses
  <1>13. Replaced(o, result) =
           [o EXCEPT !.aliases = IF o.exid = None THEN o.aliases ELSE o.aliases \cup {o.exid},
                     !.filled = final, !.exid = result.exid,
                     !.offsets = [o.offsets EXCEPT ![result.exid] = final],
                     !.status = IF final > 0 THEN "PartiallyFilled" ELSE "Live",
                     !.pendingQuantity = final + fresh.quantity,
                     !.clients = o.clients \cup {result.exid}]
    BY DEF Replaced, OrderType
  <1> HIDE DEF final, fresh
  <1> QED BY <1>1, <1>7, <1>8, <1>9, <1>10, <1>11, <1>12, <1>13, ZenonT(60) DEF OrderType, final
-----------------------------------------------------------------------------
(***************************************************************************)
(* Every step keeps the types.                                             *)
(***************************************************************************)
LEMMA KeepOrders ==
    ASSUME OrderTypes, UNCHANGED core, scenario' = scenario
    PROVE  OrderTypes' /\ Known' = Known
  BY SameScenario DEF OrderTypes, core, Known

LEMMA KeepJournal ==
    ASSUME JournalTypes, UNCHANGED journal, scenario' = scenario
    PROVE  JournalTypes'
  BY DEF JournalTypes, Commands

LEMMA KeepVenue ==
    ASSUME VenueTypes, UNCHANGED outside, reconReq' \in BOOLEAN, scenario' = scenario,
           act'["lane"].pc = act["lane"].pc
    PROVE  VenueTypes'
  BY SameScenario DEF VenueTypes, outside

LEMMA KeepHistory ==
    ASSUME HistoryTypes, scenario' = scenario, sent' = sent
    PROVE  HistoryTypes'
  BY SameScenario DEF HistoryTypes

\* One thread moves: what a venue call relies on is still there.
LEMMA ThreadCall ==
    ASSUME TInv, NEW t \in Threads, \A a \in Actors : a # t => act'[a] = act[a],
           UNCHANGED rec, scenario' = scenario, Known \subseteq Known',
           InVenueCall(t)' => act'[t].cmd \in Commands /\ act'[t].cmd.cid \in Known',
           act'[t].pc = "finish" => Answer(act'[t].result, act'[t].cmd.op)
    PROVE  CallTypes' /\ act'["lane"] = act["lane"] /\ act'[R] = act[R]
  <1>1. act'["lane"] = act["lane"] /\ act'[R] = act[R]
    BY ActorFacts
  <1>2. \A s \in Threads : s # t => act'[s] = act[s]
    BY ActorFacts
  <1>3. CallTypes
    BY DEF TInv
  <1>4. \A s \in Threads : InVenueCall(s)' => act'[s].cmd \in Commands' /\ act'[s].cmd.cid \in Known'
    BY <1>2, <1>3, SameScenario DEF CallTypes, InVenueCall
  <1>5. \A s \in Threads : act'[s].pc = "finish" => Answer(act'[s].result, act'[s].cmd.op)
    BY <1>2, <1>3 DEF CallTypes
  <1> QED BY <1>1, <1>3, <1>4, <1>5 DEF CallTypes, Answer, ResultType

\* A command that begins changes an order that no other command is working on, under a
\* request identifier that is new.
LEMMA BeginFacts ==
    ASSUME TInv, NEW t \in Threads, NEW cmd \in Commands,
           \/ PlaceBegin(t, cmd) \/ PlaceReject(t, cmd) \/ CancelBegin(t, cmd) \/ AmendBegin(t, cmd)
    PROVE  \E pc \in {"intent", "rejected"}, o \in OrderType, new \in [Commands -> Outcomes] :
              /\ Update(t, cmd.cid, o, new) /\ Begin(t, cmd, pc)
              /\ new = IF cmd.op = "place" THEN requests ELSE [requests EXCEPT ![cmd] = "PENDING"]
              /\ active' = IF pc = "intent" THEN active \cup {cmd.cid} ELSE active
              /\ act[t].pc = "idle"
              /\ cmd.op = "place" => cmd.cid \notin Known
              /\ cmd.op # "place" => cmd.cid \in Known /\ ~SeenRequest(cmd) /\ cmd.cid \notin active
  <1>0. /\ requests \in [Commands -> Outcomes]
        /\ cmd.cid \in Cids /\ cmd.quantity \in Nat /\ cmd.price \in Nat \cup {None}
        /\ orders[cmd.cid] # None => orders[cmd.cid] \in OrderType
    BY CommandFacts DEF TInv, OrderTypes, HistoryTypes
  <1>1. [requests EXCEPT ![cmd] = "PENDING"] \in [Commands -> Outcomes]
    BY <1>0 DEF Outcomes
  <1>2. MakeOrder(cmd.cid, cmd.price, cmd.quantity) \in OrderType
    BY <1>0, GatewayAssumption DEF MakeOrder, OrderType, Statuses, PendingActions
  <1>3. CASE PlaceBegin(t, cmd)
    BY <1>0, <1>2, <1>3 DEF PlaceBegin, MayBegin, Known
  <1>4. CASE PlaceReject(t, cmd)
    <2>1. [MakeOrder(cmd.cid, cmd.price, cmd.quantity) EXCEPT
              !.status = "Rejected", !.pending = "None"] \in OrderType
      BY <1>2 DEF OrderType, Statuses, PendingActions
    <2> QED BY <1>0, <1>4, <2>1 DEF PlaceReject, MayBegin, Known
  <1>5. CASE CancelBegin(t, cmd)
    <2>1. [orders[cmd.cid] EXCEPT !.pending = "Cancel"] \in OrderType
      BY <1>0, <1>5 DEF CancelBegin, OrderType, PendingActions
    <2> QED BY <1>0, <1>1, <1>5, <2>1 DEF CancelBegin, MayBegin, Known, NotBusy
  <1>6. CASE AmendBegin(t, cmd)
    <2>1. [orders[cmd.cid] EXCEPT !.pending = "Amend", !.pendingQuantity = cmd.quantity]
             \in OrderType
      BY <1>0, <1>6 DEF AmendBegin, OrderType, PendingActions
    <2> QED BY <1>0, <1>1, <1>6, <2>1 DEF AmendBegin, MayBegin, Known, NotBusy
  <1> QED BY <1>3, <1>4, <1>5, <1>6

\* place, cancel and amend change an order under mutex_ and take a sequence number.
LEMMA BeginTypes ==
    ASSUME TInv, NEW t \in Threads, NEW cmd \in Commands,
           \/ PlaceBegin(t, cmd) \/ PlaceReject(t, cmd) \/ CancelBegin(t, cmd) \/ AmendBegin(t, cmd)
    PROVE  TInv'
  <1>0. /\ OrderTypes /\ JournalTypes /\ ActorTypes /\ VenueTypes /\ HistoryTypes
        /\ scenario \in Scenarios
    BY DEF TInv, HistoryTypes
  <1>1. /\ cmd.cid \in Cids /\ cmd.quantity \in Nat /\ cmd.price \in Nat \cup {None}
        /\ requests \in [Commands -> Outcomes] /\ t \in Actors
        /\ orders[cmd.cid] # None => orders[cmd.cid] \in OrderType
        /\ [requests EXCEPT ![cmd] = "PENDING"] \in [Commands -> Outcomes]
    BY <1>0, CommandFacts, ActorFacts DEF OrderTypes, Outcomes
  <1>2. PICK pc \in {"intent", "rejected"}, o \in OrderType, q \in [Commands -> Outcomes] :
           /\ Update(t, cmd.cid, o, q)
           /\ active' \in {active, active \cup {cmd.cid}}
           /\ Begin(t, cmd, pc)
    BY BeginFacts
  <1>3. /\ act' = [act EXCEPT ![t] = [Idle EXCEPT !.pc = pc, !.cmd = cmd]]
        /\ UNCHANGED <<deferred, health, rec, journal, outside, sent, scenario>>
    BY <1>2 DEF Begin
  <1>4. OrderTypes' /\ Known \subseteq Known' /\ cmd.cid \in Known'
    BY <1>0, <1>1, <1>2, <1>3, UpdateTypes
  <1>5. act' \in [Actors -> ActType] /\ act'[t].cmd = cmd /\ act'[t].pc = pc
        /\ \A a \in Actors : a # t => act'[a] = act[a]
    <2> DEFINE begun == [Idle EXCEPT !.pc = pc, !.cmd = cmd]
    <2>1. begun \in ActType /\ begun.cmd = cmd /\ begun.pc = pc
      BY EmptySeq DEF ActType, Idle, Steps
    <2> HIDE DEF begun
    <2>2. act' = [act EXCEPT ![t] = begun]
      BY <1>3 DEF begun
    <2> QED BY <1>0, <1>1, <2>1, <2>2 DEF ActorTypes
  <1>6. CallTypes' /\ act'["lane"] = act["lane"] /\ act'[R] = act[R]
    BY <1>3, <1>4, <1>5, ThreadCall
  <1>7. JournalTypes' /\ VenueTypes' /\ HistoryTypes'
    BY <1>0, <1>3, <1>6, KeepJournal, KeepVenue, KeepHistory DEF health, VenueTypes
  <1>8. ActorTypes'
    BY <1>0, <1>1, <1>2, <1>3, <1>5, SameScenario DEF ActorTypes
  <1> QED BY <1>4, <1>6, <1>7, <1>8 DEF TInv

\* The venue's answer is kept for the second critical section.
LEMMA AnsweredTypes ==
    ASSUME TInv, NEW t \in Threads, act[t].pc = "send", NEW result,
           Answer(result, act[t].cmd.op), Answered(t, result), VenueTypes'
    PROVE  TInv'
  <1>0. /\ OrderTypes /\ JournalTypes /\ ActorTypes /\ VenueTypes /\ HistoryTypes
        /\ scenario \in Scenarios /\ scenario' = scenario /\ t \in Actors
    BY ActorFacts DEF TInv, HistoryTypes, Answered
  <1>1. act[t].cmd \in Commands /\ act[t].cmd.cid \in Known
    BY DEF TInv, CallTypes, InVenueCall
  <1>2. OrderTypes' /\ Known' = Known /\ JournalTypes'
    BY <1>0, KeepOrders, KeepJournal DEF Answered
  <1>3. /\ act' \in [Actors -> ActType] /\ act'[t].cmd = act[t].cmd /\ act'[t].result = result
        /\ \A a \in Actors : a # t => act'[a] = act[a]
    BY <1>0, ZenonT(60) DEF ActorTypes, ActType, Answered, Answer, Steps
  <1>4. CallTypes'
    BY <1>0, <1>1, <1>2, <1>3, ThreadCall DEF Answered
  <1>5. ActorTypes'
    BY <1>0, <1>3, SameScenario DEF ActorTypes, Answered
  <1>6. HistoryTypes'
    BY <1>0, <1>1, SameScenario DEF HistoryTypes, Answered
  <1> QED BY <1>2, <1>4, <1>5, <1>6 DEF TInv

\* The eight outcomes of a venue call.
SendStep(t) ==
    \/ SendUncertain(t) \/ SendRejected(t) \/ PlaceAccepted(t) \/ CancelAccepted(t)
    \/ OkxAmendAccepted(t) \/ OkxAmendMade(t) \/ BinanceAmendAccepted(t) \/ BinanceAmendHalfDone(t)

LEMMA SendTypes ==
    ASSUME TInv, NEW t \in Threads, SendStep(t)
    PROVE  TInv' /\ act[t].pc = "send" /\ \E result : Answered(t, result)
  <1> DEFINE cmd == act[t].cmd
  <1>0. /\ OrderTypes /\ ActorTypes /\ VenueTypes /\ scenario \in Scenarios /\ t \in Actors
        /\ t # "lane"
    BY ActorFacts, SMTT(30) DEF TInv, HistoryTypes
  <1>1. act[t].pc = "send" /\ \E result : Answered(t, result)
    BY DEF SendStep, SendUncertain, SendRejected, PlaceAccepted, CancelAccepted,
           OkxAmendAccepted, OkxAmendMade, BinanceAmendAccepted, BinanceAmendHalfDone
  <1>2. /\ scenario' = scenario /\ act'["lane"].pc = act["lane"].pc
    <2>1. PICK result : Answered(t, result)
      BY <1>1
    <2>2. act' = [act EXCEPT ![t].pc = "finish", ![t].result = result] /\ scenario' = scenario
      BY <2>1 DEF Answered
    <2> QED BY <1>0, <2>2, ActorFacts DEF ActorTypes
  <1>3. /\ cmd \in Commands /\ cmd.cid \in Known /\ cmd.cid \in Cids
        /\ cmd.op \in {"place", "cancel", "amend"} /\ cmd.quantity \in Nat
        /\ orders[cmd.cid] \in OrderType /\ Kind \in {"Okx", "Binance"}
        /\ scenario.exids \subseteq ExchangeIds
    BY <1>0, <1>1, CommandFacts DEF TInv, CallTypes, InVenueCall, Known, OrderTypes
  <1> HIDE DEF cmd
  <1>4. /\ orders[cmd.cid].exid \in ExchangeIds \cup {None}
        /\ Target(cmd.cid, orders[cmd.cid].exid) \subseteq ExchangeIds
    BY <1>3 DEF OrderType, Target
  <1>5. ASSUME ~NothingToReplace(cmd) PROVE WireQuantity(cmd) \in Nat
    <2>1. orders[cmd.cid].filled \in Nat
      BY <1>3 DEF OrderType
    <2> QED BY <1>3, <1>5, <2>1 DEF NothingToReplace, WireQuantity
  <1>6. ASSUME NEW acked \in BOOLEAN, ~NothingToReplace(cmd)
        PROVE  Request(cmd, acked) \in RequestType
    BY <1>3, <1>4, <1>5, <1>6 DEF Request, RequestType
  <1>7. /\ Answer(Result("uncertain", None, <<>>), cmd.op)
        /\ Answer(Result("reject", None, <<>>), cmd.op)
        /\ Answer(Result("ack", None, <<>>), cmd.op)
        /\ \A x \in ExchangeIds : cmd.op = "place" => Answer(Result("ack", x, <<>>), cmd.op)
    BY EmptySeq DEF Answer, Result, ResultType
  <1>8. ASSUME NEW r \in VenueReport, NEW kind \in {"ack", "reject"}
        PROVE  Answer(Result(kind, None, <<r>>), cmd.op)
    <2>1. <<r>> \in Seq(VenueReport) /\ Len(<<r>>) = 1
      OBVIOUS
    <2> QED BY <1>8, <2>1 DEF Answer, Result, ResultType
  <1>9. \A x \in ExchangeIds : Working(x) => venue[x] \in PhysType
    BY <1>0 DEF Working, VenueTypes
  <1>10. CASE SendUncertain(t)
    <2>1. /\ inflight' = inflight \cup {Request(cmd, FALSE)} /\ ~NothingToReplace(cmd)
          /\ Answered(t, Result("uncertain", None, <<>>)) /\ UNCHANGED <<venue, stamp, lane, reconReq>>
      BY <1>10 DEF SendUncertain, cmd
    <2>2. VenueTypes'
      BY <1>0, <1>2, <1>6, <2>1, SameScenario DEF VenueTypes
    <2> QED BY <1>1, <1>7, <2>1, <2>2, AnsweredTypes DEF cmd
  <1>11. CASE SendRejected(t)
    <2>1. Answered(t, Result("reject", None, <<>>)) /\ UNCHANGED <<outside, reconReq>>
      BY <1>11 DEF SendRejected
    <2>2. VenueTypes'
      BY <1>0, <1>2, <2>1, KeepVenue DEF VenueTypes
    <2> QED BY <1>1, <1>7, <2>1, <2>2, AnsweredTypes DEF cmd
  <1>12. CASE PlaceAccepted(t)
    <2>1. PICK x \in Free :
             /\ VenueMoves(x, NewPhys(cmd.cid, cmd.quantity, TRUE, TRUE))
             /\ Answered(t, Result("ack", x, <<>>))
      BY <1>12 DEF PlaceAccepted, cmd
    <2>2. UNCHANGED inflight /\ cmd.op = "place" /\ x \in ExchangeIds
      BY <1>3, <1>12 DEF PlaceAccepted, cmd, Free
    <2>3. NewPhys(cmd.cid, cmd.quantity, TRUE, TRUE) \in PhysType
      BY <1>3 DEF NewPhys, PhysType, Statuses
    <2>4. VenueTypes'
      BY <1>0, <1>2, <2>1, <2>2, <2>3, VenueMovesTypes DEF VenueTypes
    <2> QED BY <1>1, <1>7, <2>1, <2>2, <2>4, AnsweredTypes DEF cmd
  <1>13. CASE CancelAccepted(t)
    <2>1. /\ inflight' = inflight \cup {Request(cmd, TRUE)} /\ cmd.op = "cancel"
          /\ Answered(t, Result("ack", None, <<>>)) /\ UNCHANGED <<venue, stamp, lane, reconReq>>
      BY <1>13 DEF CancelAccepted, cmd
    <2>2. VenueTypes'
      BY <1>0, <1>2, <1>6, <2>1, SameScenario DEF VenueTypes, NothingToReplace
    <2> QED BY <1>1, <1>7, <2>1, <2>2, AnsweredTypes DEF cmd
  <1>14. CASE OkxAmendAccepted(t)
    <2>1. /\ inflight' = inflight \cup {Request(cmd, TRUE)} /\ Kind = "Okx"
          /\ UNCHANGED <<venue, stamp, lane, reconReq>>
      BY <1>14 DEF OkxAmendAccepted, cmd
    <2>2. PICK x \in Target(cmd.cid, orders[cmd.cid].exid) :
             /\ Working(x)
             /\ \E reports \in {<<>>, <<[ReportOf(x, venue[x], "query") EXCEPT !.client = cmd.cid]>>} :
                   Answered(t, Result("ack", None, reports))
      BY <1>14 DEF OkxAmendAccepted, cmd
    <2>3. [ReportOf(x, venue[x], "query") EXCEPT !.client = cmd.cid] \in VenueReport
      <3>1. ReportOf(x, venue[x], "query") \in VenueReport
        BY <1>0, <1>4, <1>9, <2>2, ReportOfType
      <3> QED BY <1>3, <3>1, GatewayAssumption DEF VenueReport
    <2>4. VenueTypes'
      BY <1>0, <1>2, <1>6, <2>1, SameScenario DEF VenueTypes, NothingToReplace
    <2> QED BY <1>1, <1>7, <1>8, <2>2, <2>3, <2>4, AnsweredTypes DEF cmd
  <1>15. CASE OkxAmendMade(t)
    <2>1. PICK x \in Target(cmd.cid, orders[cmd.cid].exid) :
             /\ Working(x)
             /\ VenueMoves(x, [venue[x] EXCEPT !.quantity = cmd.quantity])
             /\ Answered(t, Result("ack", None, <<[ReportOf(x, venue'[x], "query") EXCEPT
                                                    !.client = cmd.cid]>>))
      BY <1>15 DEF OkxAmendMade, cmd
    <2>2. UNCHANGED inflight
      BY <1>15 DEF OkxAmendMade
    <2>3. [venue[x] EXCEPT !.quantity = cmd.quantity] \in PhysType
      BY <1>3, <1>4, <1>9, <2>1 DEF PhysType
    <2>4. VenueTypes' /\ venue'[x] \in PhysType
      BY <1>0, <1>2, <1>4, <2>1, <2>2, <2>3, VenueMovesTypes DEF VenueTypes
    <2>5. [ReportOf(x, venue'[x], "query") EXCEPT !.client = cmd.cid] \in VenueReport
      <3>1. ReportOf(x, venue'[x], "query") \in VenueReport
        BY <1>0, <1>4, <2>1, <2>4, ReportOfType
      <3> QED BY <1>3, <3>1, GatewayAssumption DEF VenueReport
    <2> QED BY <1>1, <1>8, <2>1, <2>4, <2>5, AnsweredTypes DEF cmd
  <1>16. CASE BinanceAmendAccepted(t)
    <2>1. PICK old \in Target(cmd.cid, orders[cmd.cid].exid), x \in Free :
             /\ Working(old)
             /\ VenueReplaces(old, x, WireQuantity(cmd), TRUE)
             /\ Answered(t, Result("ack", x, <<ReportOf(old, venue'[old], "response"),
                                               ReportOf(x, venue'[x], "response")>>))
      BY <1>16 DEF BinanceAmendAccepted, cmd
    <2>2. UNCHANGED inflight /\ ~NothingToReplace(cmd)
      BY <1>16 DEF BinanceAmendAccepted, cmd
    <2>3. x \in ExchangeIds /\ old \in ExchangeIds /\ x # old /\ venue[old] \in PhysType
      BY <1>3, <1>4, <1>9, <2>1 DEF Free, Working
    <2>4. VenueTypes' /\ venue'[x] \in PhysType /\ venue'[old] \in PhysType
      BY <1>0, <1>2, <1>5, <2>1, <2>2, <2>3, VenueReplacesTypes DEF VenueTypes
    <2> DEFINE r1 == ReportOf(old, venue'[old], "response")
               r2 == ReportOf(x, venue'[x], "response")
    <2>5. r1 \in VenueReport /\ r2 \in VenueReport /\ r2.exid = x
      BY <1>0, <2>3, <2>4, ReportOfType
    <2> HIDE DEF r1, r2
    <2>6. Answer(Result("ack", x, <<r1, r2>>), cmd.op)
      <3>1. <<r1, r2>> \in Seq(VenueReport) /\ Len(<<r1, r2>>) = 2
        BY <2>5
      <3>2. r2 \in ToSet(<<r1, r2>>)
        BY DEF ToSet
      <3> QED BY <2>3, <2>5, <3>1, <3>2 DEF Answer, Result, ResultType
    <2> QED BY <1>1, <2>1, <2>4, <2>6, AnsweredTypes DEF cmd, r1, r2
  <1>17. CASE BinanceAmendHalfDone(t)
    <2>1. PICK old \in Target(cmd.cid, orders[cmd.cid].exid) :
             /\ Working(old)
             /\ VenueMoves(old, [venue[old] EXCEPT !.status = "Canceled"])
             /\ Answered(t, Result("reject", None, <<ReportOf(old, venue'[old], "response")>>))
      BY <1>17 DEF BinanceAmendHalfDone, cmd
    <2>2. UNCHANGED inflight
      BY <1>17 DEF BinanceAmendHalfDone
    <2>3. [venue[old] EXCEPT !.status = "Canceled"] \in PhysType
      BY <1>4, <1>9, <2>1 DEF PhysType, Statuses
    <2>4. VenueTypes' /\ venue'[old] \in PhysType
      BY <1>0, <1>2, <1>4, <2>1, <2>2, <2>3, VenueMovesTypes DEF VenueTypes
    <2>5. ReportOf(old, venue'[old], "response") \in VenueReport
      BY <1>0, <1>4, <2>1, <2>4, ReportOfType
    <2> QED BY <1>1, <1>8, <2>1, <2>4, <2>5, AnsweredTypes DEF cmd
  <1> QED BY <1>1, <1>10, <1>11, <1>12, <1>13, <1>14, <1>15, <1>16, <1>17 DEF SendStep
\* The second critical section of a command writes the outcome into the order.
FinishStep(t) == PlaceFinish(t) \/ CancelFinish(t) \/ AmendFinish(t)

LEMMA FinishTypes ==
    ASSUME TInv, NEW t \in Threads, FinishStep(t)
    PROVE  /\ TInv' /\ act[t].pc = "finish"
           /\ \E order \in OrderType, outcome \in Outcomes \cup {None} :
                 /\ Finish(t, order, outcome)
                 /\ act[t].cmd.op # "place" => outcome \in Outcomes \ {"absent"}
  <1> DEFINE cmd == act[t].cmd
             result == act[t].result
  <1>0. /\ OrderTypes /\ JournalTypes /\ ActorTypes /\ VenueTypes /\ HistoryTypes
        /\ scenario \in Scenarios /\ t \in Actors /\ t # "lane"
    BY ActorFacts DEF TInv, HistoryTypes
  <1>1. act[t].pc = "finish"
    BY DEF FinishStep, PlaceFinish, CancelFinish, AmendFinish, At
  <1>2. /\ cmd \in Commands /\ cmd.cid \in Known /\ cmd.cid \in Cids
        /\ Mine(t) \in OrderType /\ Answer(result, cmd.op) /\ result \in ResultType
    BY <1>0, <1>1 DEF TInv, CallTypes, InVenueCall, Known, OrderTypes, Mine, Answer
  <1>3. PICK order \in OrderType, outcome \in Outcomes \cup {None} :
           /\ Finish(t, order, outcome)
           /\ cmd.op # "place" => outcome \in Outcomes \ {"absent"}
    <2> DEFINE o == Mine(t)
    <2>0. o \in OrderType /\ result.exid \in ExchangeIds \cup {None}
      BY <1>2 DEF ResultType
    <2>1. CASE PlaceFinish(t)
      <3>1. [o EXCEPT !.exid = result.exid, !.status = IF @ = "Unknown" THEN "Live" ELSE @,
                      !.pending = "None"] \in OrderType
        BY <2>0, ZenonT(60) DEF OrderType, Statuses, PendingActions
      <3>2. [o EXCEPT !.status = "Unknown", !.pending = "Reconcile"] \in OrderType
        BY <2>0 DEF OrderType, Statuses, PendingActions
      <3>3. Apply(o, PlaceRejection(o)) \in OrderType
        <4>1. PlaceRejection(o) \in ReportType
          BY <2>0 DEF PlaceRejection, ReportType, OrderType, Statuses
        <4> QED BY <2>0, <4>1, ApplyType
      <3> HIDE DEF o
      <3>4. cmd.op = "place"
        BY <2>1 DEF PlaceFinish, At
      <3> QED BY <2>1, <3>1, <3>2, <3>3, <3>4 DEF PlaceFinish, o
    <2>2. CASE CancelFinish(t)
      <3>1. [o EXCEPT !.status = "Unknown", !.pending = "Cancel"] \in OrderType
        BY <2>0 DEF OrderType, Statuses, PendingActions
      <3>2. [o EXCEPT !.pending = "None"] \in OrderType
        BY <2>0 DEF OrderType, PendingActions
      <3> HIDE DEF o
      <3> QED BY <2>0, <2>2, <3>1, <3>2 DEF CancelFinish, o, Outcomes
    <2>3. CASE AmendFinish(t)
      <3>1. [o EXCEPT !.status = "Unknown", !.pending = "Amend"] \in OrderType
        BY <2>0 DEF OrderType, Statuses, PendingActions
      <3>2. [o EXCEPT !.pending = "None", !.pendingQuantity = None, !.pendingPrice = None]
              \in OrderType
        BY <2>0 DEF OrderType, PendingActions
      <3>3. cmd.op = "amend"
        BY <2>3 DEF AmendFinish, At
      <3>4. (IF result.exid = None THEN o ELSE Replaced(o, result)) \in OrderType
        BY <1>2, <2>0, <3>3, ReplacedType
      <3> HIDE DEF o
      <3> QED BY <2>3, <3>1, <3>2, <3>4 DEF AmendFinish, o, Outcomes
    <2> QED BY <2>1, <2>2, <2>3 DEF FinishStep
  <1> DEFINE q == IF cmd.op = "place" THEN requests ELSE [requests EXCEPT ![cmd] = outcome]
  <1>4. q \in [Commands -> Outcomes]
    BY <1>0, <1>2, <1>3 DEF OrderTypes
  <1>5. /\ Update(t, cmd.cid, order, q)
        /\ active' = active \ {cmd.cid}
        /\ act' = [act EXCEPT ![t].pc = "outcome", ![t].reports = result.reports \o KeptBack(cmd)]
        /\ deferred' = IF cmd.op = "amend" THEN [deferred EXCEPT ![cmd.cid] = <<>>] ELSE deferred
        /\ reconReq' = (reconReq \/ result.kind = "uncertain")
        /\ UNCHANGED <<connected, ever, serving, rec, journal, outside, counters>>
    BY <1>3 DEF Finish
  <1>6. scenario' = scenario /\ sent' = sent
    BY <1>5 DEF counters
  <1>7. result.reports \o KeptBack(cmd) \in Seq(VenueReport)
    <2>1. KeptBack(cmd) \in Seq(VenueReport) /\ result.reports \in Seq(VenueReport)
      BY <1>0, <1>2, EmptySeq DEF KeptBack, ActorTypes, ResultType
    <2> QED BY <2>1, ConcatProperties
  <1> HIDE DEF q
  <1>8. OrderTypes' /\ Known \subseteq Known'
    BY <1>0, <1>2, <1>3, <1>4, <1>5, <1>6, UpdateTypes
  <1>9. /\ act' \in [Actors -> ActType] /\ act'[t].cmd = cmd /\ act'[t].pc = "outcome"
        /\ \A a \in Actors : a # t => act'[a] = act[a]
    <2> DEFINE rs == result.reports \o KeptBack(cmd)
    <2>1. rs \in Seq(VenueReport)
      BY <1>7
    <2>2. act' = [act EXCEPT ![t].pc = "outcome", ![t].reports = rs]
      BY <1>5
    <2> HIDE DEF rs
    <2> QED BY <1>0, <2>1, <2>2, ZenonT(60) DEF ActorTypes, ActType, Steps
  <1>10. CallTypes' /\ act'["lane"] = act["lane"]
    BY <1>5, <1>6, <1>8, <1>9, ThreadCall DEF InVenueCall
  <1>11. JournalTypes' /\ VenueTypes' /\ HistoryTypes'
    <2>1. reconReq' \in BOOLEAN
      BY <1>5
    <2> QED BY <1>0, <1>5, <1>6, <1>10, <2>1, KeepJournal, KeepVenue, KeepHistory
  <1>12. deferred' \in [Cids -> Seq(VenueReport)]
    BY <1>0, <1>2, <1>5, EmptySeq DEF ActorTypes
  <1>13. ActorTypes'
    BY <1>0, <1>5, <1>6, <1>9, <1>12, SameScenario DEF ActorTypes
  <1> QED BY <1>1, <1>3, <1>8, <1>10, <1>11, <1>13 DEF TInv

\* The lane takes a report and applies it.
LEMMA LaneApplyTypes ==
    ASSUME TInv, LaneApply
    PROVE  TInv'
  <1>0. /\ OrderTypes /\ JournalTypes /\ ActorTypes /\ VenueTypes /\ HistoryTypes /\ CallTypes
        /\ scenario \in Scenarios /\ "lane" \in Actors /\ R # "lane" /\ "lane" \notin Threads
    BY ActorFacts DEF TInv, HistoryTypes
  <1>1. /\ act["lane"].pc = "idle" /\ lane # <<>> /\ lane' = Tail(lane)
        /\ ApplyExecution("lane", Head(lane))
        /\ IF Records(Head(lane)) THEN Goto("lane", "applied") ELSE UNCHANGED act
        /\ UNCHANGED <<active, rec, journal, venue, stamp, inflight, sent, scenario>>
    BY DEF LaneApply, counters
  <1>2. /\ Head(lane) \in VenueReport /\ Tail(lane) \in Seq(VenueReport)
        /\ Len(Tail(lane)) = Len(lane) - 1 /\ Len(lane) \in Nat
    BY <1>0, <1>1, HeadTailProperties, LenProperties DEF VenueTypes
  <1>3. /\ OrderTypes' /\ Known \subseteq Known'
        /\ deferred' \in [Cids -> Seq(VenueReport)] /\ reconReq' \in BOOLEAN
    BY <1>0, <1>1, <1>2, ApplyExecutionTypes DEF ActorTypes, VenueTypes
  <1>4. /\ act' \in [Actors -> ActType] /\ \A a \in Actors : a # "lane" => act'[a] = act[a]
        /\ act'["lane"].pc \in {"idle", "applied"}
    <2>1. CASE act' = [act EXCEPT !["lane"].pc = "applied"]
      BY <1>0, <2>1, ZenonT(60) DEF ActorTypes, ActType, Steps
    <2>2. CASE act' = act
      BY <1>0, <1>1, <2>2, SameScenario DEF ActorTypes
    <2> QED BY <1>1, <2>1, <2>2 DEF Goto
  <1>5. ActorTypes'
    BY <1>0, <1>1, <1>3, <1>4, SameScenario DEF ActorTypes
  <1>6. VenueTypes'
    <2>1. LaneCapacity \in Nat /\ LaneCapacity' = LaneCapacity
      BY <1>0, <1>1, CommandFacts, SameScenario
    <2>2. Len(lane) + 0 <= LaneCapacity
      BY <1>0, <1>1 DEF VenueTypes
    <2>3. Len(lane') + (IF act'["lane"].pc = "idle" THEN 0 ELSE 1) <= LaneCapacity'
      BY <1>1, <1>2, <2>1, <2>2
    <2> QED BY <1>0, <1>1, <1>2, <1>3, <2>3 DEF VenueTypes
  <1>7. CallTypes'
    <2>1. \A t \in Threads : act'[t] = act[t]
      BY <1>0, <1>4, ActorFacts
    <2>2. act'[R] = act[R] /\ Commands' = Commands
      BY <1>0, <1>1, <1>4, ActorFacts, SameScenario
    <2> QED BY <1>0, <1>1, <1>3, <1>4, <2>1, <2>2 DEF CallTypes, InVenueCall, Answer, ResultType
  <1>8. JournalTypes' /\ HistoryTypes'
    BY <1>0, <1>1, KeepJournal, KeepHistory
  <1> QED BY <1>3, <1>5, <1>6, <1>7, <1>8 DEF TInv

\* A thread applies the reports its answer brought, and returns.
LEMMA CommandApplyTypes ==
    ASSUME TInv, NEW t \in Threads, CommandApply(t) \/ CommandReturn(t)
    PROVE  TInv'
  <1>0. /\ OrderTypes /\ JournalTypes /\ ActorTypes /\ VenueTypes /\ HistoryTypes
        /\ scenario \in Scenarios /\ t \in Actors /\ t # "lane"
    BY ActorFacts DEF TInv, HistoryTypes
  <1>1. /\ act[t].pc = "apply"
        /\ UNCHANGED <<active, rec, journal, outside, sent, scenario>>
    BY DEF CommandApply, CommandReturn, counters
  <1>2. /\ OrderTypes' /\ Known \subseteq Known'
        /\ deferred' \in [Cids -> Seq(VenueReport)] /\ reconReq' \in BOOLEAN
        /\ act' \in [Actors -> ActType] /\ act'[t].pc \in {"idle", "apply", "applied"}
        /\ \A a \in Actors : a # t => act'[a] = act[a]
    <2>1. CASE CommandApply(t)
      <3>1. /\ act[t].reports # <<>> /\ ApplyExecution(t, Head(act[t].reports))
            /\ act' = [act EXCEPT ![t].reports = Tail(act[t].reports),
                          ![t].pc = IF Records(Head(act[t].reports)) THEN "applied" ELSE "apply"]
        BY <2>1 DEF CommandApply
      <3>2. act[t].reports \in Seq(VenueReport)
        BY <1>0 DEF ActorTypes, ActType
      <3>3. Head(act[t].reports) \in VenueReport /\ Tail(act[t].reports) \in Seq(VenueReport)
        BY <3>1, <3>2, HeadTailProperties
      <3>4. /\ act' \in [Actors -> ActType] /\ act'[t].pc \in {"idle", "apply", "applied"}
            /\ \A a \in Actors : a # t => act'[a] = act[a]
        BY <1>0, <3>1, <3>3, ZenonT(60) DEF ActorTypes, ActType, Steps
      <3> QED BY <1>0, <1>1, <3>1, <3>3, <3>4, ApplyExecutionTypes DEF ActorTypes, VenueTypes
    <2>2. CASE CommandReturn(t)
      <3>1. act' = [act EXCEPT ![t] = Idle] /\ UNCHANGED <<core, deferred, health>>
        BY <2>2 DEF CommandReturn
      <3>2. Idle \in ActType /\ Idle.pc = "idle"
        BY EmptySeq DEF Idle, ActType, Steps
      <3> QED BY <1>0, <1>1, <3>1, <3>2, KeepOrders DEF ActorTypes, VenueTypes, health
    <2> QED BY <2>1, <2>2
  <1>3. CallTypes' /\ act'["lane"] = act["lane"]
    BY <1>1, <1>2, ThreadCall DEF InVenueCall
  <1>4. JournalTypes' /\ VenueTypes' /\ HistoryTypes'
    BY <1>0, <1>1, <1>2, <1>3, KeepJournal, KeepVenue, KeepHistory
  <1>5. ActorTypes'
    BY <1>0, <1>1, <1>2, SameScenario DEF ActorTypes
  <1> QED BY <1>2, <1>3, <1>4, <1>5 DEF TInv

\* An append takes its record off the list, and marks the older ones of the order.
LEMMA JournaledFacts ==
    ASSUME scenario \in Scenarios, scenario' = scenario, reserved \in Seq(RecordType), JournalTypes,
           NEW i \in DOMAIN reserved, Journaled(i)
    PROVE  /\ reserved' \in Seq(RecordType) /\ JournalTypes'
           /\ Len(reserved) \in Nat /\ DOMAIN reserved = 1 .. Len(reserved)
           /\ DOMAIN reserved' = 1 .. Len(reserved) - 1
           /\ \A j \in DOMAIN reserved' :
                 LET r == reserved[IF j < i THEN j ELSE j + 1]
                 IN  reserved'[j] = IF j < i /\ r.cid = reserved[i].cid
                                    THEN [r EXCEPT !.superseded = TRUE] ELSE r
           /\ journal' = IF reserved[i].superseded THEN journal
                         ELSE [journal EXCEPT ![reserved[i].cid] =
                                 [order |-> reserved[i].order, requests |-> reserved[i].requests]]
  <1>1. /\ Len(reserved) \in Nat /\ DOMAIN reserved = 1 .. Len(reserved)
        /\ \A j \in DOMAIN reserved : reserved[j] \in RecordType
    BY LenProperties, ElementOfSeq
  <1> DEFINE M(j) == IF j < i /\ reserved[j].cid = reserved[i].cid
                     THEN [reserved[j] EXCEPT !.superseded = TRUE] ELSE reserved[j]
             marked == [j \in DOMAIN reserved |-> M(j)]
  <1>2. \A j \in DOMAIN reserved : M(j) \in RecordType
    <2> TAKE j \in DOMAIN reserved
    <2>1. [reserved[j] EXCEPT !.superseded = TRUE] \in RecordType
      BY <1>1 DEF RecordType
    <2> QED BY <1>1, <2>1
  <1>3. reserved' = RemoveAt(marked, i)
    BY DEF Journaled
  <1>4. /\ marked \in Seq(RecordType) /\ Len(marked) = Len(reserved)
        /\ DOMAIN marked = DOMAIN reserved /\ \A j \in DOMAIN reserved : marked[j] = M(j)
    <2>0. marked \in [1 .. Len(reserved) -> RecordType]
      BY <1>1, <1>2
    <2> HIDE DEF M
    <2>1. \A j \in DOMAIN reserved : marked[j] = M(j)
      OBVIOUS
    <2> HIDE DEF marked
    <2> QED BY <1>1, <2>0, <2>1, SeqOfFunction
  <1> HIDE DEF marked
  <1>5. /\ reserved' \in Seq(RecordType) /\ DOMAIN reserved' = 1 .. Len(reserved) - 1
        /\ \A j \in 1 .. Len(reserved) - 1 : reserved'[j] = IF j < i THEN marked[j] ELSE marked[j + 1]
    <2>1. i \in DOMAIN marked
      BY <1>4
    <2>2. /\ RemoveAt(marked, i) \in Seq(RecordType)
          /\ DOMAIN RemoveAt(marked, i) = 1 .. Len(marked) - 1
          /\ \A j \in 1 .. Len(marked) - 1 :
                RemoveAt(marked, i)[j] = IF j < i THEN marked[j] ELSE marked[j + 1]
      BY <1>4, <2>1, RemoveAtFacts
    <2> QED BY <1>3, <1>4, <2>2
  <1>6. ASSUME NEW j \in DOMAIN reserved'
        PROVE  LET r == reserved[IF j < i THEN j ELSE j + 1]
               IN  reserved'[j] = IF j < i /\ r.cid = reserved[i].cid
                                  THEN [r EXCEPT !.superseded = TRUE] ELSE r
    <2>0. i \in Nat /\ j \in Nat /\ j \in 1 .. Len(reserved) - 1
      BY <1>1, <1>5, <1>6
    <2>1. CASE j < i
      <3>1. j \in DOMAIN reserved /\ reserved'[j] = M(j)
        BY <1>1, <1>4, <1>5, <2>0, <2>1
      <3> QED BY <2>1, <3>1
    <2>2. CASE ~(j < i)
      <3>1. j + 1 \in DOMAIN reserved /\ ~(j + 1 < i)
        BY <1>1, <2>0, <2>2
      <3>2. reserved'[j] = M(j + 1)
        BY <1>4, <1>5, <2>0, <2>2, <3>1
      <3> QED BY <2>2, <3>1, <3>2
    <2> QED BY <2>1, <2>2
  <1>7. journal' = IF reserved[i].superseded THEN journal
                   ELSE [journal EXCEPT ![reserved[i].cid] =
                           [order |-> reserved[i].order, requests |-> reserved[i].requests]]
    BY DEF Journaled
  <1>8. JournalTypes'
    <2> DEFINE r == [order |-> reserved[i].order, requests |-> reserved[i].requests]
               c == reserved[i].cid
    <2>1. c \in Cids /\ r \in JournalType(Commands, c)
      BY <1>1 DEF RecordType, JournalType, RequestsOf
    <2>2. \A d \in Cids : JournalType(Commands, d)' = JournalType(Commands, d)
      BY DEF Commands
    <2>3. journal' = journal \/ journal' = [journal EXCEPT ![c] = r]
      BY <1>7
    <2> HIDE DEF r, c
    <2>4. CASE journal' = journal
      BY <2>4, KeepJournal
    <2>5. CASE journal' = [journal EXCEPT ![c] = r]
      <3>1. \A d \in Cids : journal'[d] = IF d = c THEN r ELSE journal[d]
        BY <2>1, <2>5 DEF JournalTypes
      <3>2. journal' = [d \in Cids |-> journal'[d]]
        BY <2>1, <2>5 DEF JournalTypes
      <3> QED BY <2>1, <2>2, <3>1, <3>2 DEF JournalTypes
    <2> QED BY <2>3, <2>4, <2>5
  <1> QED BY <1>1, <1>5, <1>6, <1>7, <1>8

LEMMA CommitPersistTypes ==
    ASSUME TInv, NEW a \in Actors, CommitPersist(a)
    PROVE  TInv'
  <1>0. /\ OrderTypes /\ JournalTypes /\ ActorTypes /\ VenueTypes /\ HistoryTypes /\ CallTypes
        /\ scenario \in Scenarios
    BY DEF TInv, HistoryTypes
  <1>1. /\ act[a].pc \in {"rejected", "intent", "outcome", "applied"}
        /\ act' = [act EXCEPT ![a].pc = AfterAppend(a)]
        /\ UNCHANGED <<orders, requests, active, deferred, health, rec, outside, sent, scenario>>
    BY DEF CommitPersist, Goto, counters
  <1>2. PICK i \in DOMAIN reserved : Journaled(i)
    BY DEF CommitPersist
  <1>3. reserved' \in Seq(RecordType) /\ JournalTypes'
    BY <1>0, <1>1, <1>2, JournaledFacts DEF OrderTypes
  <1>4. OrderTypes' /\ Known' = Known
    BY <1>0, <1>1, <1>3, SameScenario DEF OrderTypes, Known
  <1>5. /\ AfterAppend(a) \in {"idle", "send", "apply", "judge"}
        /\ AfterAppend(a) = "send" => act[a].pc = "intent"
        /\ a = "lane" /\ act[a].pc = "applied" => AfterAppend(a) = "idle"
    BY <1>1 DEF AfterAppend
  <1>6. /\ act' \in [Actors -> ActType] /\ \A b \in Actors : b # a => act'[b] = act[b]
        /\ act'[a].pc = AfterAppend(a) /\ act'[a].cmd = act[a].cmd
    BY <1>0, <1>1, <1>5, ZenonT(60) DEF ActorTypes, ActType, Steps
  <1>7. ActorTypes'
    BY <1>0, <1>1, <1>6, SameScenario DEF ActorTypes
  <1>8. act'["lane"].pc = IF a = "lane" THEN "idle" ELSE act["lane"].pc
    BY <1>0, <1>1, <1>5, <1>6, ActorFacts DEF CallTypes
  <1>9. VenueTypes'
    <2>1. LaneCapacity \in Nat /\ LaneCapacity' = LaneCapacity /\ Len(lane) \in Nat
      BY <1>0, <1>1, CommandFacts, SameScenario, LenProperties DEF VenueTypes
    <2>2. /\ lane' = lane /\ reconReq' = reconReq /\ venue' = venue /\ inflight' = inflight
          /\ stamp' = stamp
      BY <1>1 DEF outside, health
    <2>3. Len(lane') + (IF act'["lane"].pc = "idle" THEN 0 ELSE 1) <= LaneCapacity'
      <3>1. Len(lane) + (IF act["lane"].pc = "idle" THEN 0 ELSE 1) <= LaneCapacity
        BY <1>0 DEF VenueTypes
      <3> QED BY <1>8, <2>1, <2>2, <3>1
    <2> QED BY <1>0, <2>2, <2>3 DEF VenueTypes
  <1>10. CallTypes'
    <2>1. \A t \in Threads : InVenueCall(t)' => InVenueCall(t) /\ act'[t].cmd = act[t].cmd
      BY <1>1, <1>5, <1>6, ActorFacts DEF InVenueCall
    <2>2. \A t \in Threads : act'[t].pc = "finish" => act'[t] = act[t]
      BY <1>5, <1>6, ActorFacts
    <2>3. act'[R].pc \in {"openApply", "answer", "query", "null"} => act'[R] = act[R]
      BY <1>5, <1>6, ActorFacts
    <2>4. Commands' = Commands /\ rec' = rec
      BY <1>1, SameScenario
    <2>5. act'["lane"].pc \in {"idle", "applied"}
      BY <1>0, <1>8 DEF CallTypes
    <2>6. \A t \in Threads : InVenueCall(t)' => act'[t].cmd \in Commands' /\ act'[t].cmd.cid \in Known'
      BY <1>0, <1>4, <2>1, <2>4 DEF CallTypes
    <2>7. \A t \in Threads : act'[t].pc = "finish" => Answer(act'[t].result, act'[t].cmd.op)
      BY <1>0, <2>2 DEF CallTypes
    <2>8. /\ act'[R].pc \in {"openApply", "answer"} => act'[R].reports # <<>>
          /\ act'[R].pc \in {"query", "null"} => rec'.cid \in Known'
          /\ rec'.todo \subseteq Known'
      BY <1>0, <1>4, <2>3, <2>4 DEF CallTypes
    <2> QED BY <2>5, <2>6, <2>7, <2>8 DEF CallTypes, Answer, ResultType
  <1>11. HistoryTypes'
    BY <1>0, <1>1, KeepHistory
  <1> QED BY <1>3, <1>4, <1>7, <1>9, <1>10, <1>11 DEF TInv

LEMMA CommitFailsTypes ==
    ASSUME TInv, NEW a \in Actors, CommitFails(a)
    PROVE  TInv'
  <1>0. /\ OrderTypes /\ JournalTypes /\ ActorTypes /\ VenueTypes /\ HistoryTypes /\ CallTypes
        /\ scenario \in Scenarios
    BY DEF TInv, HistoryTypes
  <1>1. UNCHANGED <<orders, requests, journal, active, deferred, health, outside, sent, scenario>>
    BY DEF CommitFails, counters
  <1>2. reserved' \in Seq(RecordType)
    <2>1. PICK i \in DOMAIN reserved : reserved' = RemoveAt(reserved, i)
      BY DEF CommitFails
    <2> QED BY <1>0, <2>1, RemoveAtFacts DEF OrderTypes
  <1>3. OrderTypes' /\ Known' = Known
    BY <1>0, <1>1, <1>2, SameScenario DEF OrderTypes, Known
  <1>4. /\ act' = [act EXCEPT ![a] = IF a = R THEN [Idle EXCEPT !.pc = "candidates"] ELSE Idle]
        /\ rec' = IF a = R THEN [rec EXCEPT !.unresolved = TRUE] ELSE rec
    BY DEF CommitFails, R
  <1>5. /\ Idle \in ActType /\ Idle.pc = "idle"
        /\ [Idle EXCEPT !.pc = "candidates"] \in ActType
        /\ [Idle EXCEPT !.pc = "candidates"].pc = "candidates"
    BY EmptySeq DEF Idle, ActType, Steps
  <1>6. /\ act' \in [Actors -> ActType] /\ \A b \in Actors : b # a => act'[b] = act[b]
        /\ act'[a].pc \in {"idle", "candidates"}
        /\ a = "lane" => act'[a].pc = "idle"
    BY <1>0, <1>4, <1>5, ActorFacts DEF ActorTypes
  <1>7. rec' \in RecType /\ rec'.cid = rec.cid /\ rec'.todo = rec.todo
    BY <1>0, <1>4 DEF ActorTypes, RecType
  <1>8. ActorTypes'
    BY <1>0, <1>1, <1>6, <1>7, SameScenario DEF ActorTypes
  <1>9. act'["lane"].pc = IF a = "lane" THEN "idle" ELSE act["lane"].pc
    BY <1>6, ActorFacts
  <1>10. VenueTypes'
    <2>1. LaneCapacity \in Nat /\ LaneCapacity' = LaneCapacity /\ Len(lane) \in Nat
      BY <1>0, <1>1, CommandFacts, SameScenario, LenProperties DEF VenueTypes
    <2>2. /\ lane' = lane /\ reconReq' = reconReq /\ venue' = venue /\ inflight' = inflight
          /\ stamp' = stamp
      BY <1>1 DEF outside, health
    <2>3. Len(lane') + (IF act'["lane"].pc = "idle" THEN 0 ELSE 1) <= LaneCapacity'
      <3>1. Len(lane) + (IF act["lane"].pc = "idle" THEN 0 ELSE 1) <= LaneCapacity
        BY <1>0 DEF VenueTypes
      <3> QED BY <1>9, <2>1, <2>2, <3>1
    <2> QED BY <1>0, <2>2, <2>3 DEF VenueTypes
  <1>11. CallTypes'
    <2>1. \A t \in Threads : InVenueCall(t)' => act'[t] = act[t] /\ InVenueCall(t)
      BY <1>6, ActorFacts DEF InVenueCall
    <2>2. \A t \in Threads : act'[t].pc = "finish" => act'[t] = act[t]
      BY <1>6, ActorFacts
    <2>3. act'[R].pc \in {"openApply", "answer", "query", "null"} => act'[R] = act[R]
      BY <1>6, ActorFacts
    <2>4. Commands' = Commands
      BY <1>1, SameScenario
    <2>5. act'["lane"].pc \in {"idle", "applied"}
      BY <1>0, <1>9 DEF CallTypes
    <2>6. \A t \in Threads : InVenueCall(t)' => act'[t].cmd \in Commands' /\ act'[t].cmd.cid \in Known'
      BY <1>0, <1>3, <2>1, <2>4 DEF CallTypes
    <2>7. \A t \in Threads : act'[t].pc = "finish" => Answer(act'[t].result, act'[t].cmd.op)
      BY <1>0, <2>2 DEF CallTypes
    <2>8. /\ act'[R].pc \in {"openApply", "answer"} => act'[R].reports # <<>>
          /\ act'[R].pc \in {"query", "null"} => rec'.cid \in Known'
          /\ rec'.todo \subseteq Known'
      BY <1>0, <1>3, <1>7, <2>3 DEF CallTypes
    <2> QED BY <2>5, <2>6, <2>7, <2>8 DEF CallTypes, Answer, ResultType
  <1>12. JournalTypes' /\ HistoryTypes'
    BY <1>0, <1>1, KeepJournal, KeepHistory
  <1> QED BY <1>3, <1>8, <1>10, <1>11, <1>12 DEF TInv
-----------------------------------------------------------------------------
\* A step of reconciliation touches its own locals only, and orders through apply_execution.
LEMMA RecKeepsTypes ==
    ASSUME TInv, UNCHANGED <<active, journal, outside, sent, scenario>>, reconReq' \in BOOLEAN,
           OrderTypes', Known \subseteq Known', deferred' \in [Cids -> Seq(VenueReport)],
           NEW next \in ActType, act' = [act EXCEPT ![R] = next], rec' \in RecType,
           next.pc \in {"openApply", "answer"} => next.reports # <<>>,
           next.pc \in {"query", "null"} => rec'.cid \in Known',
           rec'.todo \subseteq Known'
    PROVE  TInv'
  <1>0. /\ OrderTypes /\ JournalTypes /\ ActorTypes /\ VenueTypes /\ HistoryTypes /\ CallTypes
        /\ scenario \in Scenarios
    BY DEF TInv, HistoryTypes
  <1>1. /\ act' \in [Actors -> ActType] /\ \A b \in Actors : b # R => act'[b] = act[b]
        /\ act'[R] = next
    BY <1>0, ActorFacts DEF ActorTypes
  <1>2. act'["lane"] = act["lane"] /\ \A t \in Threads : act'[t] = act[t]
    BY <1>1, ActorFacts
  <1>3. ActorTypes'
    BY <1>0, <1>1, SameScenario DEF ActorTypes
  <1>4. JournalTypes' /\ VenueTypes' /\ HistoryTypes'
    BY <1>0, <1>2, KeepJournal, KeepVenue, KeepHistory
  <1>5. Commands' = Commands
    BY SameScenario
  <1>6. CallTypes'
    BY <1>0, <1>1, <1>2, <1>5 DEF CallTypes, InVenueCall, Answer, ResultType
  <1> QED BY <1>3, <1>4, <1>6 DEF TInv

\* The open orders of the venue, in some order.
LEMMA SetToSeqType ==
    ASSUME NEW S, IsFiniteSet(S)
    PROVE  SetToSeq(S) \in Seq(S)
  <1>1. Cardinality(S) \in Nat /\ ExistsBijection(1 .. Cardinality(S), S)
    BY FS_CardinalityType
  <1>2. \E f \in [1 .. Cardinality(S) -> S] : IsInjective(f)
    BY <1>1 DEF ExistsBijection, Bijection, Injection
  <1>3. SetToSeq(S) \in [1 .. Cardinality(S) -> S]
    BY <1>2 DEF SetToSeq
  <1> QED BY <1>1, <1>3, SeqOfFunction

LEMMA SnapshotType ==
    ASSUME TInv
    PROVE  SetToSeq({OpenReports[x] : x \in DOMAIN OpenReports}) \in Seq(VenueReport)
  <1>0. VenueTypes /\ scenario \in Scenarios
    BY DEF TInv, HistoryTypes
  <1> DEFINE D == {y \in ExchangeIds : Working(y)}
             T == {OpenReports[x] : x \in DOMAIN OpenReports}
  <1>1. /\ DOMAIN OpenReports = D
        /\ \A x \in D : OpenReports[x] = ReportOf(x, venue[x], "query")
    BY DEF OpenReports
  <1>2. \A x \in D : OpenReports[x] \in VenueReport
    <2> TAKE x \in D
    <2>1. x \in ExchangeIds /\ venue[x] \in PhysType
      BY <1>0 DEF Working, VenueTypes
    <2> QED BY <1>0, <1>1, <2>1, ReportOfType
  <1>3. IsFiniteSet(D)
    BY GatewayAssumption, FS_Subset
  <1>4. OpenReports \in Surjection(D, T)
    BY <1>1 DEF Surjection, OpenReports
  <1>5. IsFiniteSet(T)
    BY <1>3, <1>4, FS_Surjection
  <1>6. SetToSeq(T) \in Seq(T) /\ T \subseteq VenueReport
    BY <1>1, <1>2, <1>5, SetToSeqType
  <1> HIDE DEF T
  <1>7. SetToSeq(T) \in Seq(VenueReport)
    BY <1>6
  <1> QED BY <1>7 DEF T

\* Steps of a pass that leave the orders alone.
LEMMA RecQuietTypes ==
    ASSUME TInv,
           \/ RecBegin \/ RecSnapshot \/ RecSnapshotFails \/ RecOpen \/ RecJudge
           \/ \E cid \in Cids : RecCandidate(cid)
           \/ RecQuery \/ RecQueryNull \/ RecQueryThrows \/ RecEnd
    PROVE  /\ TInv' /\ UNCHANGED <<core, active, journal, sent, scenario>>
           /\ \A a \in Actors : a # R => act'[a] = act[a]
           /\ act[R].pc \notin Busy /\ act'[R].pc \notin Busy
  <1>0. /\ OrderTypes /\ ActorTypes /\ VenueTypes /\ HistoryTypes /\ CallTypes
        /\ scenario \in Scenarios /\ R \in Actors /\ act[R] \in ActType /\ rec \in RecType
        /\ act[R].reports \in Seq(VenueReport)
    BY ActorFacts DEF TInv, HistoryTypes, ActorTypes, ActType
  <1>1. UNCHANGED <<core, active, deferred, journal, outside, sent, scenario>> /\ reconReq' \in BOOLEAN
    <2>1. CASE RecEnd
      BY <1>0, <2>1, SMTT(30) DEF RecEnd, counters, ActorTypes, RecType
    <2>2. CASE ~RecEnd
      BY <1>0, <2>2 DEF RecBegin, RecSnapshot, RecSnapshotFails, RecOpen, RecJudge, RecCandidate,
           RecQuery, RecQueryNull, RecQueryThrows, OrdersKept, RecKeeps, counters, VenueTypes
    <2> QED BY <2>1, <2>2
  <1>2. OrderTypes' /\ Known' = Known /\ deferred' \in [Cids -> Seq(VenueReport)]
    BY <1>0, <1>1, KeepOrders DEF ActorTypes
  <1>3. PICK next \in ActType :
           /\ act' = [act EXCEPT ![R] = next] /\ rec' \in RecType
           /\ next.pc \in {"openApply", "answer"} => next.reports # <<>>
           /\ next.pc \in {"query", "null"} => rec'.cid \in Known
           /\ rec'.todo \subseteq Known
           /\ act[R].pc \notin Busy /\ next.pc \notin Busy
    <2> DEFINE At2(pc) == [act[R] EXCEPT !.pc = pc]
    <2>0. /\ rec.todo \subseteq Known /\ Known \subseteq Cids
          /\ \A pc \in Steps : At2(pc) \in ActType /\ At2(pc).pc = pc /\ At2(pc).reports = act[R].reports
      BY <1>0 DEF CallTypes, Known, ActType
    <2>1. \A pc \in Steps : Goto(R, pc) => act' = [act EXCEPT ![R] = At2(pc)]
      BY <1>0 DEF Goto, ActorTypes
    <2> HIDE DEF At2
    <2>2. CASE RecBegin
      <3>1. Goto(R, "snapshot") /\ rec' = [NoRec EXCEPT !.todo = Known] /\ act[R].pc = "idle"
        BY <2>2 DEF RecBegin, Candidates, Rec
      <3>2. rec' \in RecType /\ rec'.todo = Known
        BY <2>0, <3>1 DEF RecType, NoRec
      <3>3. "snapshot" \in Steps
        BY DEF Steps
      <3> QED BY <2>0, <2>1, <3>1, <3>2, <3>3 DEF Busy, Committing
    <2>3. CASE RecSnapshot
      <3> DEFINE rs == SetToSeq({OpenReports[x] : x \in DOMAIN OpenReports})
                 n == [act[R] EXCEPT !.pc = "open", !.reports = rs]
      <3>1. rs \in Seq(VenueReport)
        BY SnapshotType
      <3>2. act' = [act EXCEPT ![R].pc = "open", ![R].reports = rs] /\ UNCHANGED rec
            /\ act[R].pc = "snapshot"
        BY <2>3 DEF RecSnapshot, Rec
      <3> HIDE DEF rs
      <3>3. act' = [act EXCEPT ![R] = n] /\ n \in ActType /\ n.pc = "open"
        BY <1>0, <3>1, <3>2 DEF ActType, Steps, ActorTypes
      <3> QED BY <1>0, <2>0, <3>2, <3>3 DEF Busy, Committing
    <2>4. CASE RecSnapshotFails \/ RecQueryThrows
      <3>1. /\ Goto(R, "candidates") /\ rec' = [rec EXCEPT !.unresolved = TRUE]
            /\ act[R].pc \in {"snapshot", "query"}
        BY <2>4 DEF RecSnapshotFails, RecQueryThrows, Rec
      <3>2. rec' \in RecType /\ rec'.todo = rec.todo
        BY <1>0, <3>1 DEF RecType
      <3>3. "candidates" \in Steps
        BY DEF Steps
      <3> QED BY <2>0, <2>1, <3>1, <3>2, <3>3 DEF Busy, Committing
    <2>5. CASE RecOpen
      <3> DEFINE cid == Owner(Head(act[R].reports))
      <3>0. act[R].pc = "open"
        BY <2>5 DEF RecOpen, Rec
      <3>1. CASE act[R].reports = <<>>
        <4>1. Goto(R, "candidates") /\ UNCHANGED rec
          BY <2>5, <3>1 DEF RecOpen
        <4>2. "candidates" \in Steps
          BY DEF Steps
        <4> QED BY <1>0, <2>0, <2>1, <3>0, <4>1, <4>2 DEF Busy, Committing
      <3>2. CASE act[R].reports # <<>> /\ (cid = None \/ IsTerminal(orders[cid].status))
        <4> DEFINE n == [act[R] EXCEPT !.reports = Tail(@)]
        <4>1. /\ act' = [act EXCEPT ![R].reports = Tail(@)]
              /\ rec' = [rec EXCEPT !.unresolved = Unresolved(cid # None)]
          BY <2>5, <3>2 DEF RecOpen
        <4>2. Tail(act[R].reports) \in Seq(VenueReport)
          BY <1>0, <3>2, HeadTailProperties
        <4>3. n \in ActType /\ n.pc = "open" /\ act' = [act EXCEPT ![R] = n]
          BY <1>0, <3>0, <4>1, <4>2 DEF ActType, ActorTypes
        <4>4. Unresolved(cid # None) \in BOOLEAN
          BY <1>0 DEF Unresolved, RecType
        <4>5. rec' \in RecType /\ rec'.todo = rec.todo
          BY <1>0, <4>1, <4>4 DEF RecType
        <4> HIDE DEF n
        <4> QED BY <2>0, <3>0, <4>3, <4>5 DEF Busy, Committing
      <3>3. CASE act[R].reports # <<>> /\ ~(cid = None \/ IsTerminal(orders[cid].status))
        <4>0. cid \in Cids /\ cid \in STRING
          BY <3>3, OwnerKnown, GatewayAssumption DEF Known
        <4> HIDE DEF cid
        <4> DEFINE rs == [act[R].reports EXCEPT ![1].client = cid]
                   n == [act[R] EXCEPT !.reports = rs, !.pc = "openApply"]
        <4>1. /\ act' = [act EXCEPT ![R].reports[1].client = cid, ![R].pc = "openApply"]
              /\ rec' = [rec EXCEPT !.observed = @ \cup {cid}, !.cid = cid]
          BY <2>5, <3>3 DEF RecOpen, cid
        <4>2. rs \in Seq(VenueReport) /\ rs # <<>>
          <5>1. /\ Len(act[R].reports) \in Nat /\ DOMAIN act[R].reports = 1 .. Len(act[R].reports)
                /\ 1 \in 1 .. Len(act[R].reports)
                /\ act[R].reports[1] \in VenueReport
            BY <1>0, <3>3, LenProperties, ElementOfSeq, EmptySeq
          <5>2. [act[R].reports[1] EXCEPT !.client = cid] \in VenueReport
            BY <4>0, <5>1 DEF VenueReport
          <5>3. rs = [act[R].reports EXCEPT ![1] = [act[R].reports[1] EXCEPT !.client = cid]]
            BY <5>1
          <5>4. rs \in Seq(VenueReport) /\ Len(rs) = Len(act[R].reports)
            BY <1>0, <5>1, <5>2, <5>3, ExceptSeq
          <5> QED BY <5>1, <5>4, EmptySeq
        <4>3. act' = [act EXCEPT ![R] = n]
          BY <1>0, <4>1 DEF ActorTypes, ActType
        <4> HIDE DEF rs
        <4>4. n \in ActType /\ n.pc = "openApply" /\ n.reports = rs
          BY <1>0, <4>2 DEF ActType, Steps
        <4>5. rec' \in RecType /\ rec'.todo = rec.todo
          BY <1>0, <4>0, <4>1 DEF RecType
        <4> HIDE DEF n
        <4> QED BY <2>0, <3>0, <4>2, <4>3, <4>4, <4>5 DEF Busy, Committing
      <3> QED BY <3>1, <3>2, <3>3
    <2>6. CASE RecJudge
      <3>1. /\ rec' = [rec EXCEPT !.unresolved = Unresolved(orders[rec.cid].pending # "None")]
            /\ Goto(R, IF act[R].reports # <<>> THEN "open" ELSE "candidates")
            /\ act[R].pc = "judge"
        BY <2>6 DEF RecJudge, Rec
      <3>2. Unresolved(orders[rec.cid].pending # "None") \in BOOLEAN
        BY <1>0 DEF Unresolved, RecType
      <3>3. rec' \in RecType /\ rec'.todo = rec.todo
        BY <1>0, <3>1, <3>2 DEF RecType
      <3>4. "candidates" \in Steps /\ "open" \in Steps
        BY DEF Steps
      <3> QED BY <2>0, <2>1, <3>1, <3>3, <3>4 DEF Busy, Committing
    <2>7. CASE \E cid \in Cids : RecCandidate(cid)
      <3>1. PICK cid \in Cids : RecCandidate(cid)
        BY <2>7
      <3>2. /\ act[R].pc = "candidates" /\ cid \in rec.todo
            /\ \/ rec' = [rec EXCEPT !.todo = @ \ {cid}] /\ UNCHANGED act
               \/ /\ rec' = [rec EXCEPT !.todo = @ \ {cid}, !.cid = cid, !.exid = orders[cid].exid]
                  /\ Goto(R, "query")
        BY <3>1 DEF RecCandidate, Rec
      <3>3. cid \in Known /\ orders[cid].exid \in ExchangeIds \cup {None}
        BY <1>0, <2>0, <3>2 DEF Known, OrderTypes, OrderType
      <3>4. CASE rec' = [rec EXCEPT !.todo = @ \ {cid}] /\ UNCHANGED act
        <4>1. rec' \in RecType /\ rec'.todo \subseteq rec.todo
          BY <1>0, <3>4 DEF RecType
        <4>2. act' = [act EXCEPT ![R] = act[R]]
          BY <1>0, <3>4 DEF ActorTypes
        <4> QED BY <1>0, <2>0, <3>2, <4>1, <4>2 DEF Busy, Committing
      <3>5. CASE /\ rec' = [rec EXCEPT !.todo = @ \ {cid}, !.cid = cid, !.exid = orders[cid].exid]
                 /\ Goto(R, "query")
        <4>1. rec' \in RecType /\ rec'.todo \subseteq rec.todo /\ rec'.cid = cid
          BY <1>0, <3>3, <3>5 DEF RecType
        <4>2. "query" \in Steps
          BY DEF Steps
        <4> QED BY <2>0, <2>1, <3>2, <3>3, <3>5, <4>1, <4>2 DEF Busy, Committing
      <3> QED BY <3>2, <3>4, <3>5
    <2>8. CASE RecQuery
      <3>0. act[R].pc = "query" /\ UNCHANGED rec
        BY <2>8 DEF RecQuery, Rec
      <3>1. PICK x \in Target(rec.cid, rec.exid) :
               act' = [act EXCEPT ![R].pc = "answer",
                         ![R].reports = <<[ReportOf(x, venue[x], "query") EXCEPT !.client =
                                             IF Kind = "Okx" THEN rec.cid ELSE @]>>]
        BY <2>8 DEF RecQuery
      <3>2. ReportOf(x, venue[x], "query") \in VenueReport
        <4>1. x \in ExchangeIds /\ venue[x] \in PhysType
          BY <1>0, <3>1 DEF Target, VenueTypes
        <4> QED BY <1>0, <4>1, ReportOfType
      <3>3. rec.cid \in STRING
        BY <1>0, <3>0, GatewayAssumption DEF CallTypes, Known
      <3> DEFINE r == [ReportOf(x, venue[x], "query") EXCEPT !.client =
                         IF Kind = "Okx" THEN rec.cid ELSE @]
                 n == [act[R] EXCEPT !.pc = "answer", !.reports = <<r>>]
      <3>4. r \in VenueReport
        BY <3>2, <3>3 DEF VenueReport
      <3>5. act' = [act EXCEPT ![R].pc = "answer", ![R].reports = <<r>>]
        BY <3>1
      <3> HIDE DEF r
      <3>6. <<r>> \in Seq(VenueReport) /\ <<r>> # <<>>
        BY <3>4
      <3>7. n \in ActType /\ n.pc = "answer" /\ n.reports = <<r>> /\ act' = [act EXCEPT ![R] = n]
        BY <1>0, <3>5, <3>6 DEF ActType, ActorTypes, Steps
      <3> HIDE DEF n
      <3> QED BY <1>0, <2>0, <3>0, <3>6, <3>7 DEF Busy, Committing
    <2>9. CASE RecQueryNull
      <3>1. act[R].pc = "query" /\ Goto(R, "null") /\ UNCHANGED rec
        BY <2>9 DEF RecQueryNull, Rec
      <3>2. rec.cid \in Known
        BY <1>0, <3>1 DEF CallTypes
      <3>3. "null" \in Steps
        BY DEF Steps
      <3> QED BY <1>0, <2>0, <2>1, <3>1, <3>2, <3>3 DEF Busy, Committing
    <2>10. CASE RecEnd
      <3>1. act' = [act EXCEPT ![R] = Idle] /\ rec' = NoRec /\ act[R].pc = "candidates"
        BY <2>10 DEF RecEnd, Rec
      <3>2. Idle \in ActType /\ Idle.pc = "idle"
        BY EmptySeq DEF Idle, ActType, Steps
      <3>3. rec' \in RecType /\ rec'.todo = {}
        BY <3>1 DEF RecType, NoRec
      <3> QED BY <3>1, <3>2, <3>3 DEF Busy, Committing
    <2> QED BY <2>2, <2>3, <2>4, <2>5, <2>6, <2>7, <2>8, <2>9, <2>10
  <1>4. TInv'
    BY <1>1, <1>2, <1>3, RecKeepsTypes
  <1>5. act'[R] = next /\ \A a \in Actors : a # R => act'[a] = act[a]
    BY <1>0, <1>3 DEF ActorTypes
  <1> QED BY <1>1, <1>3, <1>4, <1>5

LEMMA RecApplyTypes ==
    ASSUME TInv, RecApply
    PROVE  TInv'
  <1>0. /\ OrderTypes /\ ActorTypes /\ VenueTypes /\ HistoryTypes /\ CallTypes
        /\ scenario \in Scenarios /\ R \in Actors /\ act[R] \in ActType /\ rec \in RecType
        /\ act[R].reports \in Seq(VenueReport)
    BY ActorFacts DEF TInv, HistoryTypes, ActorTypes, ActType
  <1> DEFINE n == [act[R] EXCEPT !.reports = Tail(@),
                          !.pc = IF Records(Head(act[R].reports)) THEN "applied" ELSE "judge"]
  <1>1. /\ act[R].pc \in {"openApply", "answer"} /\ ApplyExecution(R, Head(act[R].reports))
        /\ act' = [act EXCEPT ![R].reports = Tail(@),
                      ![R].pc = IF Records(Head(act[R].reports)) THEN "applied" ELSE "judge"]
        /\ UNCHANGED <<rec, active, journal, outside, sent, scenario>>
    BY DEF RecApply, Rec, RecKeeps, counters
  <1>2. act[R].reports # <<>>
    BY <1>0, <1>1 DEF CallTypes
  <1>3. Head(act[R].reports) \in VenueReport /\ Tail(act[R].reports) \in Seq(VenueReport)
    BY <1>0, <1>2, HeadTailProperties
  <1>4. n \in ActType /\ n.pc \in {"applied", "judge"} /\ act' = [act EXCEPT ![R] = n]
    BY <1>0, <1>1, <1>3 DEF ActType, ActorTypes, Steps
  <1>5. /\ OrderTypes' /\ Known \subseteq Known'
        /\ deferred' \in [Cids -> Seq(VenueReport)] /\ reconReq' \in BOOLEAN
    BY <1>0, <1>1, <1>3, ApplyExecutionTypes DEF ActorTypes, VenueTypes
  <1>6. rec' \in RecType /\ rec'.todo \subseteq Known'
    BY <1>0, <1>1, <1>5 DEF CallTypes
  <1> HIDE DEF n
  <1> QED BY <1>1, <1>4, <1>5, <1>6, RecKeepsTypes

LEMMA RecNullTypes ==
    ASSUME TInv, RecNull
    PROVE  /\ TInv' /\ Known' = Known /\ rec.cid \in Cids
           /\ Unknowable(orders[rec.cid]) \in OrderType
  <1>0. /\ OrderTypes /\ ActorTypes /\ VenueTypes /\ HistoryTypes /\ CallTypes
        /\ scenario \in Scenarios /\ R \in Actors /\ act[R] \in ActType /\ rec \in RecType
    BY ActorFacts DEF TInv, HistoryTypes, ActorTypes
  <1>1. /\ act[R].pc = "null"
        /\ orders' = [orders EXCEPT ![rec.cid] = Unknowable(orders[rec.cid])]
        /\ Reserve(R, rec.cid, Unknowable(orders[rec.cid]), requests)
        /\ rec' = [rec EXCEPT !.unresolved = TRUE]
        /\ act' = [act EXCEPT ![R].pc = "applied"]
        /\ UNCHANGED <<requests, deferred, reconReq, active, journal, outside, sent, scenario>>
    BY DEF RecNull, Rec, RecKeeps, counters, Goto
  <1>2. rec.cid \in Known /\ rec.cid \in Cids /\ orders[rec.cid] \in OrderType
    BY <1>0, <1>1 DEF CallTypes, Known, OrderTypes
  <1>3. Unknowable(orders[rec.cid]) \in OrderType
    BY <1>2 DEF Unknowable, OrderType, Statuses, PendingActions
  <1>4. reserved' \in Seq(RecordType)
    BY <1>0, <1>1, <1>2, <1>3, ReserveTypes DEF OrderTypes
  <1>5. \A c \in Cids : orders'[c] = IF c = rec.cid THEN Unknowable(orders[rec.cid]) ELSE orders[c]
    BY <1>0, <1>1, <1>2 DEF OrderTypes
  <1>6. OrderTypes' /\ Known' = Known
    <2>1. orders' \in [Cids -> OrderType \cup {None}]
      BY <1>0, <1>1, <1>3 DEF OrderTypes
    <2>2. Known' = Known
      BY <1>2, <1>3, <1>5, NoneAssumption DEF Known
    <2> QED BY <1>0, <1>1, <1>4, <2>1, <2>2, SameScenario DEF OrderTypes
  <1> DEFINE n == [act[R] EXCEPT !.pc = "applied"]
  <1>7. n \in ActType /\ n.pc = "applied" /\ act' = [act EXCEPT ![R] = n]
    BY <1>0, <1>1 DEF ActType, ActorTypes, Steps
  <1>8. rec' \in RecType /\ rec'.todo = rec.todo
    BY <1>0, <1>1 DEF RecType
  <1> HIDE DEF n
  <1>9. rec'.todo \subseteq Known' /\ deferred' \in [Cids -> Seq(VenueReport)] /\ reconReq' \in BOOLEAN
    BY <1>0, <1>1, <1>6, <1>8 DEF CallTypes, ActorTypes, VenueTypes
  <1>10. TInv'
    BY <1>1, <1>6, <1>7, <1>8, <1>9, RecKeepsTypes
  <1> QED BY <1>2, <1>3, <1>6, <1>10
-----------------------------------------------------------------------------
\* The venue, the stream and the adapter's connection: the gateway's own state stays.
LEMMA OutsideTypes ==
    ASSUME TInv, UNCHANGED <<core, active, deferred, act, rec, journal, sent, scenario>>, VenueTypes'
    PROVE  TInv'
  <1>0. /\ OrderTypes /\ JournalTypes /\ ActorTypes /\ HistoryTypes /\ CallTypes
    BY DEF TInv
  <1>1. OrderTypes' /\ Known' = Known /\ JournalTypes' /\ HistoryTypes'
    BY <1>0, KeepOrders, KeepJournal, KeepHistory
  <1>2. ActorTypes'
    BY <1>0, SameScenario DEF ActorTypes
  <1>3. CallTypes'
    BY <1>0, <1>1, SameScenario DEF CallTypes, InVenueCall, Answer, ResultType
  <1> QED BY <1>1, <1>2, <1>3 DEF TInv

\* Events that the gateway's threads have no part in.
OutsideStep ==
    \/ Disconnect \/ Connect
    \/ \E x \in ExchangeIds, n \in 1 .. PositionLimit : VenueFill(x, n)
    \/ \E r \in inflight : VenueArrive(r) \/ VenueLose(r)

LEMMA OutsideStepTypes ==
    ASSUME TInv, OutsideStep
    PROVE  TInv' /\ UNCHANGED <<core, active, act, journal, sent, scenario>>
  <1>0. VenueTypes /\ scenario \in Scenarios
    BY DEF TInv, HistoryTypes
  <1>1. UNCHANGED <<core, active, deferred, act, rec, journal, sent, scenario>>
    BY DEF OutsideStep, Disconnect, Connect, VenueFill, VenueArrive, VenueLose, counters
  <1>2. act["lane"].pc' = act["lane"].pc
    BY <1>1
  <1>3. \A x \in ExchangeIds : Working(x) => venue[x] \in PhysType
    BY <1>0 DEF Working, VenueTypes
  <1>4. CASE Disconnect \/ Connect
    <2>1. UNCHANGED outside /\ reconReq' \in BOOLEAN
      BY <1>0, <1>4 DEF Disconnect, Connect, VenueTypes
    <2>2. VenueTypes'
      BY <1>0, <1>1, <1>2, <2>1, KeepVenue
    <2> QED BY <1>1, <2>2, OutsideTypes
  <1>5. CASE \E x \in ExchangeIds, n \in 1 .. PositionLimit : VenueFill(x, n)
    <2>1. PICK x \in ExchangeIds, n \in 1 .. PositionLimit : VenueFill(x, n)
      BY <1>5
    <2> DEFINE st == IF venue[x].filled + n = venue[x].quantity THEN "Filled" ELSE "PartiallyFilled"
               p == [venue[x] EXCEPT !.filled = @ + n, !.status = st]
    <2>2. Working(x) /\ VenueMoves(x, p) /\ inflight' = inflight
      BY <2>1 DEF VenueFill
    <2>3. p \in PhysType
      <3>1. venue[x] \in PhysType /\ n \in Nat
        BY <1>3, <2>2
      <3>2. venue[x].filled + n \in Nat /\ st \in Statuses
        BY <3>1 DEF PhysType, Statuses
      <3> QED BY <3>1, <3>2 DEF PhysType
    <2> HIDE DEF p
    <2>4. VenueTypes'
      BY <1>0, <1>1, <1>2, <2>2, <2>3, VenueMovesTypes DEF VenueTypes
    <2> QED BY <1>1, <2>4, OutsideTypes
  <1>6. ASSUME NEW r \in inflight, VenueArrive(r)
        PROVE  VenueTypes'
    <2>0. /\ r \in RequestType /\ inflight' \subseteq RequestType
          /\ Free \subseteq ExchangeIds /\ Target(r.cid, r.exid) \subseteq ExchangeIds
          /\ r.cid \in Cids /\ r.quantity \in Nat /\ r.known \in BOOLEAN
      BY <1>0, <1>6, CommandFacts DEF VenueTypes, VenueArrive, RequestType, Free, Target
    <2>1. CASE \E x \in Free : VenueMoves(x, NewPhys(r.cid, r.quantity, TRUE, r.known))
      <3>1. PICK x \in Free : VenueMoves(x, NewPhys(r.cid, r.quantity, TRUE, r.known))
        BY <2>1
      <3>2. NewPhys(r.cid, r.quantity, TRUE, r.known) \in PhysType
        BY <2>0 DEF NewPhys, PhysType, Statuses
      <3> QED BY <1>0, <1>1, <1>2, <2>0, <3>1, <3>2, VenueMovesTypes
    <2>2. CASE \E x \in Target(r.cid, r.exid) :
                  Working(x) /\ VenueMoves(x, [venue[x] EXCEPT !.status = "Canceled"])
      <3>1. PICK x \in Target(r.cid, r.exid) :
               Working(x) /\ VenueMoves(x, [venue[x] EXCEPT !.status = "Canceled"])
        BY <2>2
      <3>2. [venue[x] EXCEPT !.status = "Canceled"] \in PhysType
        BY <1>3, <2>0, <3>1 DEF PhysType, Statuses
      <3> QED BY <1>0, <1>1, <1>2, <2>0, <3>1, <3>2, VenueMovesTypes
    <2>3. CASE \E x \in Target(r.cid, r.exid) :
                  Working(x) /\ VenueMoves(x, [venue[x] EXCEPT !.quantity = r.quantity])
      <3>1. PICK x \in Target(r.cid, r.exid) :
               Working(x) /\ VenueMoves(x, [venue[x] EXCEPT !.quantity = r.quantity])
        BY <2>3
      <3>2. [venue[x] EXCEPT !.quantity = r.quantity] \in PhysType
        BY <1>3, <2>0, <3>1 DEF PhysType
      <3> QED BY <1>0, <1>1, <1>2, <2>0, <3>1, <3>2, VenueMovesTypes
    <2>4. CASE \E old \in Target(r.cid, r.exid), x \in Free :
                  Working(old) /\ VenueReplaces(old, x, r.quantity, r.known)
      <3>1. PICK old \in Target(r.cid, r.exid), x \in Free :
               Working(old) /\ VenueReplaces(old, x, r.quantity, r.known)
        BY <2>4
      <3>2. x # old /\ venue[old] \in PhysType
        BY <1>3, <2>0, <3>1 DEF Working, Free
      <3> QED BY <1>0, <1>1, <1>2, <2>0, <3>1, <3>2, VenueReplacesTypes
    <2> QED BY <1>6, <2>1, <2>2, <2>3, <2>4 DEF VenueArrive
  <1>7. ASSUME NEW r \in inflight, VenueLose(r)
        PROVE  VenueTypes'
    <2>1. inflight' \subseteq inflight /\ UNCHANGED <<venue, stamp, lane, reconReq>>
      BY <1>7 DEF VenueLose, health
    <2> QED BY <1>0, <1>1, <1>2, <2>1, SameScenario DEF VenueTypes
  <1> QED BY <1>1, <1>4, <1>5, <1>6, <1>7, OutsideTypes DEF OutsideStep

\* A restart rebuilds the orders and their requests from the journal.
LEMMA CrashTypes ==
    ASSUME TInv, Crash
    PROVE  /\ TInv'
           /\ \A cid \in Cids : cid \in Known' <=> journal[cid] # None
           /\ \A k \in Commands : requests'[k] =
                 IF journal[k.cid] = None THEN "absent" ELSE journal[k.cid].requests[k]
           /\ \A a \in Actors : act'[a] = Idle
  <1>0. /\ OrderTypes /\ JournalTypes /\ ActorTypes /\ VenueTypes /\ HistoryTypes
        /\ scenario \in Scenarios /\ "lane" \in Actors /\ R \in Actors /\ Threads \subseteq Actors
    BY ActorFacts DEF TInv, HistoryTypes
  <1>1. /\ orders' = [cid \in Cids |-> IF journal[cid] = None THEN None ELSE journal[cid].order]
        /\ requests' = [k \in Commands |->
              IF journal[k.cid] = None THEN "absent" ELSE journal[k.cid].requests[k]]
        /\ active' = {} /\ deferred' = [cid \in Cids |-> <<>>] /\ reconReq' = FALSE
        /\ lane' = <<>> /\ act' = [a \in Actors |-> Idle] /\ rec' = NoRec /\ reserved' = <<>>
        /\ inflight' = {[r EXCEPT !.known = FALSE] : r \in inflight}
        /\ venue' = [x \in ExchangeIds |->
              IF venue[x] = None THEN None
              ELSE [venue[x] EXCEPT !.known = venue[x].first \/ Restored(x, orders')]]
        /\ UNCHANGED <<journal, stamp, sent, scenario>>
    BY DEF Crash
  <1>2. \A cid \in Cids : journal[cid] # None =>
           /\ journal[cid].order \in OrderType
           /\ journal[cid].requests \in [RequestsOf(cid) -> Outcomes]
    BY <1>0 DEF JournalTypes, JournalType, RequestsOf
  <1>3. /\ \A k \in Commands : k.cid \in Cids /\ k \in RequestsOf(k.cid)
        /\ Commands' = Commands
    BY <1>0, <1>1, CommandFacts, SameScenario DEF RequestsOf
  <1>4. OrderTypes'
    <2>1. orders' \in [Cids -> OrderType \cup {None}]
      BY <1>1, <1>2
    <2>2. requests' \in [Commands -> Outcomes]
      BY <1>1, <1>2, <1>3 DEF Outcomes
    <2> QED BY <1>1, <1>3, <2>1, <2>2, EmptySeq DEF OrderTypes
  <1>5. \A cid \in Cids : cid \in Known' <=> journal[cid] # None
    BY <1>1, <1>2, NoneAssumption DEF Known
  <1>6. Idle \in ActType /\ Idle.pc = "idle" /\ ActType' = ActType
    BY <1>1, EmptySeq, SameScenario DEF Idle, ActType, Steps
  <1>7. ActorTypes'
    <2>1. NoRec \in RecType
      BY DEF NoRec, RecType
    <2>2. act' \in [Actors -> ActType']
      BY <1>1, <1>6
    <2>3. deferred' \in [Cids -> Seq(VenueReport)]
      BY <1>1, EmptySeq
    <2> QED BY <1>1, <2>1, <2>2, <2>3 DEF ActorTypes
  <1>8. act'["lane"].pc = "idle" /\ act'[R].pc = "idle" /\ \A t \in Threads : act'[t].pc = "idle"
    BY <1>0, <1>1, <1>6
  <1>9. CallTypes'
    <2>1. rec'.todo = {}
      BY <1>1 DEF NoRec
    <2> QED BY <1>8, <2>1 DEF CallTypes, InVenueCall
  <1>10. VenueTypes'
    <2>1. inflight' \subseteq RequestType
      BY <1>0, <1>1, ZenonT(60) DEF VenueTypes, RequestType
    <2>2. \A x \in ExchangeIds : venue[x] # None =>
             [venue[x] EXCEPT !.known = venue[x].first \/ Restored(x, orders')] \in PhysType
      <3> TAKE x \in ExchangeIds
      <3> HAVE venue[x] # None
      <3> DEFINE b == venue[x].first \/ Restored(x, orders')
      <3>1. venue[x] \in PhysType /\ b \in BOOLEAN
        BY <1>0 DEF VenueTypes
      <3> HIDE DEF b
      <3>2. [venue[x] EXCEPT !.known = b] \in PhysType
        BY <3>1 DEF PhysType
      <3> QED BY <3>2 DEF b
    <2>3. venue' \in [ExchangeIds -> PhysType \cup {None}]
      <3> DEFINE V(x) == IF venue[x] = None THEN None
                         ELSE [venue[x] EXCEPT !.known = venue[x].first \/ Restored(x, orders')]
      <3>1. \A x \in ExchangeIds : V(x) \in PhysType \cup {None}
        BY <2>2
      <3>2. venue' = [x \in ExchangeIds |-> V(x)]
        BY <1>1
      <3> HIDE DEF V
      <3> QED BY <3>1, <3>2
    <2>4. Len(lane') + (IF act'["lane"].pc = "idle" THEN 0 ELSE 1) <= LaneCapacity'
      <3>1. Len(lane') = 0 /\ LaneCapacity' \in Nat
        BY <1>0, <1>1, EmptySeq, CommandFacts, SameScenario
      <3> QED BY <1>8, <3>1
    <2> QED BY <1>0, <1>1, <2>1, <2>3, <2>4, EmptySeq DEF VenueTypes
  <1>11. JournalTypes' /\ HistoryTypes'
    BY <1>0, <1>1, KeepJournal, KeepHistory
  <1>12. \A k \in Commands : requests'[k] =
            IF journal[k.cid] = None THEN "absent" ELSE journal[k.cid].requests[k]
    BY <1>1
  <1>13. \A a \in Actors : act'[a] = Idle
    BY <1>1
  <1> QED BY <1>4, <1>5, <1>7, <1>9, <1>10, <1>11, <1>12, <1>13 DEF TInv

LEMMA InitTypes == Init => TInv
  <1> SUFFICES ASSUME Init PROVE TInv
    OBVIOUS
  <1>0. scenario \in Scenarios /\ LaneCapacity \in Nat /\ "lane" \in Actors /\ R \in Actors
        /\ Threads \subseteq Actors
    BY CommandFacts, ActorFacts DEF Init
  <1>1. OrderTypes
    BY EmptySeq DEF Init, OrderTypes, Outcomes
  <1>2. JournalTypes
    <2>1. journal = [cid \in Cids |-> None]
      BY DEF Init
    <2>2. \A cid \in Cids : journal[cid] = None
      BY <2>1
    <2>3. \A cid \in Cids : journal[cid] \in JournalType(Commands, cid) \cup {None}
      BY <2>2
    <2>4. journal = [cid \in Cids |-> journal[cid]]
      BY <2>1
    <2> QED BY <2>3, <2>4 DEF JournalTypes
  <1>3. Idle \in ActType /\ Idle.pc = "idle" /\ NoRec \in RecType /\ NoRec.todo = {}
    BY EmptySeq DEF Idle, ActType, Steps, NoRec, RecType
  <1>4. ActorTypes
    BY <1>3, EmptySeq DEF Init, ActorTypes
  <1>5. \A a \in Actors : act[a].pc = "idle"
    BY <1>3 DEF Init
  <1>6. VenueTypes
    <2>1. /\ venue = [x \in ExchangeIds |-> None] /\ inflight = {} /\ stamp = 0
          /\ lane = <<>> /\ reconReq = FALSE
      BY DEF Init
    <2>2. lane \in Seq(VenueReport) /\ Len(lane) = 0
      BY <2>1, EmptySeq
    <2>3. Len(lane) + (IF act["lane"].pc = "idle" THEN 0 ELSE 1) <= LaneCapacity
      BY <1>0, <1>5, <2>2
    <2> QED BY <2>1, <2>2, <2>3 DEF VenueTypes
  <1>7. HistoryTypes
    BY <1>0 DEF Init, HistoryTypes
  <1>8. CallTypes
    BY <1>0, <1>3, <1>5 DEF Init, CallTypes, InVenueCall
  <1> QED BY <1>1, <1>2, <1>4, <1>6, <1>7, <1>8 DEF TInv

\* Every step of every actor keeps the types.
LEMMA StepTypes == TInv /\ [Next]_vars => TInv'
  <1> SUFFICES ASSUME TInv, [Next]_vars PROVE TInv'
    OBVIOUS
  <1>1. CASE \E t \in Threads, cmd \in Commands :
                \/ PlaceBegin(t, cmd) \/ PlaceReject(t, cmd)
                \/ CancelBegin(t, cmd) \/ AmendBegin(t, cmd)
    BY <1>1, BeginTypes
  <1>2. CASE \E t \in Threads : CommandStep(t)
    <2>1. PICK t \in Threads : CommandStep(t)
      BY <1>2
    <2>2. SendStep(t) \/ FinishStep(t) \/ CommandApply(t) \/ CommandReturn(t)
      BY <2>1 DEF CommandStep, SendStep, FinishStep
    <2> QED BY <2>2, SendTypes, FinishTypes, CommandApplyTypes
  <1>3. CASE \E a \in Actors : CommitPersist(a) \/ CommitFails(a)
    BY <1>3, CommitPersistTypes, CommitFailsTypes
  <1>4. CASE LaneApply
    BY <1>4, LaneApplyTypes
  <1>5. CASE RecBegin \/ RecStep
    <2>1. \/ RecApply \/ RecNull
          \/ RecBegin \/ RecSnapshot \/ RecSnapshotFails \/ RecOpen \/ RecJudge
          \/ \E cid \in Cids : RecCandidate(cid)
          \/ RecQuery \/ RecQueryNull \/ RecQueryThrows \/ RecEnd
      BY <1>5 DEF RecStep
    <2> QED BY <2>1, RecApplyTypes, RecNullTypes, RecQuietTypes
  <1>6. CASE Disconnect \/ Connect \/ (\E x \in ExchangeIds, n \in 1 .. PositionLimit : VenueFill(x, n))
             \/ \E r \in inflight : VenueArrive(r) \/ VenueLose(r)
    BY <1>6, OutsideStepTypes DEF OutsideStep
  <1>7. CASE Crash
    BY <1>7, CrashTypes
  <1>8. CASE UNCHANGED vars
    <2>1. VenueTypes /\ OrderTypes
      BY DEF TInv
    <2>2. VenueTypes'
      BY <1>8, <2>1, SameScenario DEF vars, VenueTypes
    <2> QED BY <1>8, <2>2, OutsideTypes DEF vars, core
  <1> QED BY <1>1, <1>2, <1>3, <1>4, <1>5, <1>6, <1>7, <1>8 DEF Next

-----------------------------------------------------------------------------
(***************************************************************************)
(* Every step keeps the rest of the invariant, one class of steps at a     *)
(* time.  First the list of records under way.                             *)
(***************************************************************************)
LEMMA ReserveKeeps ==
    ASSUME TInv, TInv', OwnInv, LogInv, scenario' = scenario, journal' = journal,
           NEW a \in Actors, NEW cid \in Cids, NEW o \in OrderType,
           NEW new \in [Commands -> Outcomes], requests' = new, Reserve(a, cid, o, new),
           \A k \in Commands : Has(requests, k) => Has(requests', k),
           act[a].pc \notin Committing, act'[a].pc \in Committing,
           \A b \in Actors : b # a => act'[b] = act[b],
           act'[a].pc = "intent" =>
              cid = act'[a].cmd.cid /\ act'[a].cmd \in Commands /\ Noted(act'[a].cmd, requests')
    PROVE  OwnInv' /\ LogInv'
  <1> DEFINE n == Len(reserved) + 1
             q == [k \in RequestsOf(cid) |-> new[k]]
  <1>0. scenario \in Scenarios /\ reserved \in Seq(RecordType) /\ Commands' = Commands
        /\ JournalTypes
    BY SameScenario DEF TInv, HistoryTypes, OrderTypes
  <1>1. /\ Len(reserved) \in Nat /\ DOMAIN reserved = 1 .. Len(reserved)
        /\ DOMAIN reserved' = 1 .. n
        /\ \A i \in DOMAIN reserved : reserved'[i] = reserved[i]
        /\ reserved'[n].owner = a /\ reserved'[n].cid = cid /\ reserved'[n].superseded = FALSE
        /\ reserved'[n].requests = q
    <2>1. /\ Len(reserved) \in Nat /\ DOMAIN reserved = 1 .. Len(reserved)
          /\ DOMAIN reserved' = 1 .. Len(reserved) + 1
          /\ \A i \in DOMAIN reserved : reserved'[i] = reserved[i]
          /\ reserved'[Len(reserved) + 1] =
                 [owner |-> a, cid |-> cid, superseded |-> FALSE, order |-> o,
                  requests |-> [k \in RequestsOf(cid) |-> new[k]]]
      BY <1>0, ReserveTypes
    <2> QED BY <2>1
  <1>2. \A i \in DOMAIN reserved : reserved[i] \in RecordType
    BY <1>0, ElementOfSeq, LenProperties
  <1>3. \A i \in DOMAIN reserved' : i \in DOMAIN reserved \/ i = n
    BY <1>1
  <1>4. /\ n \notin DOMAIN reserved /\ ~(n < n)
        /\ \A i \in DOMAIN reserved : i < n /\ ~(n < i)
    BY <1>1
  <1>5. \A i \in DOMAIN reserved : reserved[i].owner \in Actors /\ reserved[i].owner # a
                                   /\ reserved[i].cid \in Cids
    BY <1>2 DEF OwnInv, RecordType
  <1>6. /\ \A c \in Cids : RequestsOf(c)' = RequestsOf(c) /\ RequestsOf(c) \subseteq Commands
        /\ \A k \in RequestsOf(cid) : q[k] = new[k] /\ k.cid = cid
        /\ \A k \in Commands : k \in RequestsOf(k.cid)
    BY SameScenario DEF RequestsOf
  <1> HIDE DEF n, q
  <1>7. OwnInv'
    <2>1. \A i \in DOMAIN reserved' : act'[reserved'[i].owner].pc \in Committing
      BY <1>1, <1>3, <1>5 DEF OwnInv
    <2>2. \A i, j \in DOMAIN reserved' : reserved'[i].owner = reserved'[j].owner => i = j
      BY <1>1, <1>3, <1>5 DEF OwnInv
    <2>3. \A i \in DOMAIN reserved' : \A t \in Threads :
             reserved'[i].owner = t /\ act'[t].pc = "intent" =>
                reserved'[i].cid = act'[t].cmd.cid /\ Noted(act'[t].cmd, reserved'[i].requests)
      <3> TAKE i \in DOMAIN reserved'
      <3> TAKE t \in Threads
      <3> HAVE reserved'[i].owner = t /\ act'[t].pc = "intent"
      <3>1. CASE i = n
        <4>1. t = a /\ act'[t].cmd \in RequestsOf(cid)
          BY <1>1, <1>6, <3>1
        <4> QED BY <1>1, <1>6, <3>1, <4>1 DEF Noted, Has
      <3>2. CASE i \in DOMAIN reserved
        <4>1. t # a /\ t \in Actors /\ act'[t] = act[t]
          BY <1>1, <1>5, <3>2, ActorFacts
        <4> QED BY <1>1, <3>2, <4>1 DEF OwnInv
      <3> QED BY <1>3, <3>1, <3>2
    <2> QED BY <2>1, <2>2, <2>3 DEF OwnInv, Noted, Has
  <1>8. LogInv'
    <2>1. ASSUME NEW i \in DOMAIN reserved', NEW k \in RequestsOf(reserved'[i].cid)
          PROVE  Has(reserved'[i].requests, k) => Has(requests', k)
      <3>1. CASE i = n
        BY <1>1, <1>6, <2>1, <3>1 DEF Has
      <3>2. CASE i \in DOMAIN reserved
        <4>1. k \in RequestsOf(reserved[i].cid) /\ k \in Commands
          BY <1>1, <1>5, <1>6, <2>1, <3>2
        <4> QED BY <1>1, <3>2, <4>1 DEF LogInv
      <3> QED BY <1>3, <3>1, <3>2
    <2>2. ASSUME NEW i \in DOMAIN reserved', NEW j \in DOMAIN reserved', i < j,
                 reserved'[i].cid = reserved'[j].cid, NEW k \in RequestsOf(reserved'[i].cid)
          PROVE  Has(reserved'[i].requests, k) => Has(reserved'[j].requests, k)
      <3>1. i \in DOMAIN reserved
        <4>1. i # n
          BY <1>3, <1>4, <2>2
        <4> QED BY <1>3, <4>1
      <3>2. CASE j = n
        BY <1>1, <1>6, <2>1, <2>2, <3>2 DEF Has
      <3>3. CASE j \in DOMAIN reserved
        BY <1>1, <2>2, <3>1, <3>3 DEF LogInv
      <3> QED BY <1>3, <3>2, <3>3
    <2>3. \A k \in Commands : journal[k.cid] # None /\ Has(journal[k.cid].requests, k) =>
             Has(requests', k)
      BY DEF LogInv
    <2>4. ASSUME NEW i \in DOMAIN reserved', ~reserved'[i].superseded,
                 journal[reserved'[i].cid] # None, NEW k \in RequestsOf(reserved'[i].cid)
          PROVE  Has(journal[k.cid].requests, k) => Has(reserved'[i].requests, k)
      <3>1. CASE i = n
        <4>1. k \in Commands /\ k.cid = cid /\ k \in RequestsOf(cid)
          BY <1>1, <1>6, <2>4, <3>1
        <4> QED BY <1>1, <1>6, <2>3, <2>4, <3>1, <4>1 DEF Has
      <3>2. CASE i \in DOMAIN reserved
        BY <1>1, <2>4, <3>2 DEF LogInv
      <3> QED BY <1>3, <3>1, <3>2
    <2>5. ASSUME NEW i \in DOMAIN reserved', reserved'[i].superseded
          PROVE  /\ journal[reserved'[i].cid] # None
                 /\ \A k \in RequestsOf(reserved'[i].cid) :
                       Has(reserved'[i].requests, k) => Has(journal[k.cid].requests, k)
      <3>1. i \in DOMAIN reserved
        BY <1>1, <1>3, <2>5
      <3> QED BY <1>1, <2>5, <3>1 DEF LogInv
    <2> QED BY <1>0, <2>1, <2>2, <2>3, <2>4, <2>5 DEF LogInv, Has, RequestsOf
  <1> QED BY <1>7, <1>8

\* While no thread enters or leaves a venue call, nothing is sent and no request is forgotten,
\* the calls stay apart.
LEMMA CallsStay ==
    ASSUME CallInv, SentInv, UNCHANGED <<active, journal, sent, scenario>>,
           Known' = Known, \A k \in Commands : Has(requests, k) => Has(requests', k),
           \A t \in Threads : \/ act'[t].pc = act[t].pc /\ act'[t].cmd = act[t].cmd
                              \/ act[t].pc \notin {"intent", "send", "finish"} /\
                                 act'[t].pc \notin {"intent", "send", "finish"},
           \A t \in Threads : InVenueCall(t) => act[t].cmd \in Commands
    PROVE  CallInv' /\ SentInv'
  <1>0. Commands' = Commands /\ Faults' = Faults
    BY SameScenario
  <1>1. \A t \in Threads : /\ InVenueCall(t)' <=> InVenueCall(t)
                           /\ InVenueCall(t) => act'[t].cmd = act[t].cmd /\ act'[t].pc = act[t].pc
    BY DEF InVenueCall
  <1>2. OneOperationPerOrder'
    BY <1>0, <1>1 DEF CallInv, OneOperationPerOrder
  <1>3. \A t \in Threads : InVenueCall(t)' => act'[t].cmd.cid \in active' /\ Noted(act'[t].cmd, requests')
    BY <1>1 DEF CallInv, Noted
  <1>4. CallInv'
    BY <1>2, <1>3 DEF CallInv, Noted, Has
  <1>5. \A t \in Threads : act'[t].pc \in {"intent", "send"} =>
           act[t].pc = act'[t].pc /\ act'[t].cmd = act[t].cmd
    BY DEF InVenueCall
  <1>6. AppendBeforeRoute' /\ AtMostOnceSent'
    BY <1>0 DEF SentInv, AppendBeforeRoute, AtMostOnceSent, SameIdentifier
  <1>7. \A t \in Threads : act'[t].pc = "send" => Logged(act'[t].cmd)
    BY <1>5 DEF SentInv
  <1>8. \A t \in Threads : act'[t].pc \in {"intent", "send"} =>
           \A k \in Commands : SameIdentifier(act'[t].cmd, k) => sent[k] = 0
    BY <1>5 DEF SentInv
  <1>9. \A k \in Commands : sent[k] > 0 => k.cid \in Known /\ Noted(k, requests')
    BY DEF SentInv, Noted
  <1>10. SentInv'
    BY <1>0, <1>6, <1>7, <1>8, <1>9 DEF SentInv, Logged, Noted, Has, SameIdentifier
  <1> QED BY <1>4, <1>10

\* Nothing that the invariant speaks of changes.
LEMMA QuietKeeps ==
    ASSUME GInv, TInv', UNCHANGED <<requests, active, journal, reserved, sent, scenario>>,
           Known' = Known,
           \A a \in Actors : \/ act'[a].pc = act[a].pc /\ act'[a].cmd = act[a].cmd
                             \/ act[a].pc \notin Busy /\ act'[a].pc \notin Busy
    PROVE  GInv'
  <1>0. TInv /\ CallInv /\ SentInv /\ OwnInv /\ LogInv /\ CallTypes
    BY DEF GInv, TInv
  <1>1. CallInv' /\ SentInv'
    BY <1>0, CallsStay, ActorFacts DEF Busy, Committing, CallTypes
  <1>2. OwnInv'
    <2>1. reserved \in Seq(RecordType)
      BY <1>0 DEF TInv, OrderTypes
    <2>2. \A i \in DOMAIN reserved : reserved[i].owner \in Actors
      BY <2>1, ElementOfSeq, LenProperties DEF RecordType
    <2>3. \A i \in DOMAIN reserved : act'[reserved[i].owner].pc = act[reserved[i].owner].pc
                                     /\ act'[reserved[i].owner].cmd = act[reserved[i].owner].cmd
      BY <1>0, <2>2 DEF OwnInv, Busy
    <2> QED BY <1>0, <2>3 DEF OwnInv, Noted, Has
  <1>3. LogInv'
    BY <1>0, SameScenario DEF LogInv, Has, RequestsOf
  <1> QED BY <1>1, <1>2, <1>3 DEF GInv

\* apply_execution, or reconciliation, changes an order and takes a sequence number.
LEMMA RecordKeeps ==
    ASSUME GInv, TInv', UNCHANGED <<requests, active, journal, sent, scenario>>, Known' = Known,
           NEW a \in Actors, NEW cid \in Cids, NEW o \in OrderType, Reserve(a, cid, o, requests),
           act[a].pc \notin Busy, act'[a].pc = "applied",
           \A b \in Actors : b # a => act'[b] = act[b]
    PROVE  GInv'
  <1>0. TInv /\ CallInv /\ SentInv /\ OwnInv /\ LogInv /\ CallTypes
        /\ requests \in [Commands -> Outcomes]
    BY DEF GInv, TInv, OrderTypes
  <1>1. CallInv' /\ SentInv'
    <2>1. \A t \in Threads : \/ act'[t].pc = act[t].pc /\ act'[t].cmd = act[t].cmd
                             \/ act[t].pc \notin {"intent", "send", "finish"} /\
                                act'[t].pc \notin {"intent", "send", "finish"}
      BY ActorFacts DEF Busy, Committing
    <2> QED BY <1>0, <2>1, CallsStay DEF CallTypes
  <1>2. OwnInv' /\ LogInv'
    BY <1>0, ReserveKeeps DEF Busy, Committing
  <1> QED BY <1>1, <1>2 DEF GInv

\* apply_execution by any actor that is about to.
LEMMA ApplyExecutionKeeps ==
    ASSUME GInv, TInv', UNCHANGED <<active, journal, sent, scenario>>,
           NEW a \in Actors, NEW report \in VenueReport, ApplyExecution(a, report),
           act[a].pc \notin Busy,
           IF Records(report) THEN act'[a].pc = "applied" ELSE act'[a].pc \notin Busy,
           \A b \in Actors : b # a => act'[b] = act[b]
    PROVE  GInv'
  <1>0. TInv /\ OrderTypes /\ scenario \in Scenarios
    BY DEF GInv, TInv, HistoryTypes
  <1>1. CASE Records(report)
    <2> DEFINE cid == Owner(report)
               o == Apply(orders[cid], report)
    <2>1. cid \in Known /\ cid \in Cids /\ orders[cid] \in OrderType
      BY <1>0, <1>1, OwnerKnown DEF Records, Known, OrderTypes
    <2>2. o \in OrderType
      BY <2>1, ApplyType, VenueReportType
    <2>3. Update(a, cid, o, requests)
      BY <1>1 DEF ApplyExecution
    <2> HIDE DEF cid, o
    <2>4. /\ orders' = [orders EXCEPT ![cid] = o] /\ requests' = requests
          /\ Reserve(a, cid, o, requests)
      BY <2>3 DEF Update
    <2>5. Known' = Known
      BY <1>0, <2>1, <2>2, <2>4, NoneAssumption DEF Known, OrderTypes
    <2>6. act'[a].pc = "applied"
      BY <1>1
    <2> QED BY <2>1, <2>2, <2>4, <2>5, <2>6, RecordKeeps
  <1>2. CASE ~Records(report)
    <2>1. UNCHANGED <<requests, reserved>> /\ Known' = Known
      BY <1>2 DEF ApplyExecution, core, Known
    <2>2. act'[a].pc \notin Busy
      BY <1>2
    <2> QED BY <2>1, <2>2, QuietKeeps
  <1> QED BY <1>1, <1>2

\* A command begins: no other is in venue I/O for the order, and its request is a new one.
LEMMA BeginKeeps ==
    ASSUME GInv, NEW t \in Threads, NEW cmd \in Commands,
           \/ PlaceBegin(t, cmd) \/ PlaceReject(t, cmd) \/ CancelBegin(t, cmd) \/ AmendBegin(t, cmd)
    PROVE  GInv'
  <1>0. /\ TInv /\ CallInv /\ SentInv /\ OwnInv /\ LogInv /\ CallTypes
        /\ OrderTypes /\ ActorTypes /\ scenario \in Scenarios /\ t \in Actors
        /\ requests \in [Commands -> Outcomes]
        /\ cmd.cid \in Cids /\ cmd.quantity \in Nat /\ cmd.price \in Nat \cup {None}
        /\ orders[cmd.cid] # None => orders[cmd.cid] \in OrderType
    BY CommandFacts, ActorFacts DEF GInv, TInv, OrderTypes, HistoryTypes
  <1>1. TInv'
    BY <1>0, BeginTypes
  <1>2. PICK pc \in {"intent", "rejected"}, o \in OrderType, new \in [Commands -> Outcomes] :
           /\ Update(t, cmd.cid, o, new) /\ Begin(t, cmd, pc)
           /\ new = IF cmd.op = "place" THEN requests ELSE [requests EXCEPT ![cmd] = "PENDING"]
           /\ active' = IF pc = "intent" THEN active \cup {cmd.cid} ELSE active
           /\ act[t].pc = "idle"
           /\ cmd.op = "place" => cmd.cid \notin Known
           /\ cmd.op # "place" => cmd.cid \in Known /\ ~SeenRequest(cmd) /\ cmd.cid \notin active
    BY <1>0, BeginFacts
  <1>3. /\ act' = [act EXCEPT ![t] = [Idle EXCEPT !.pc = pc, !.cmd = cmd]]
        /\ UNCHANGED <<journal, sent, scenario>>
        /\ requests' = new /\ Reserve(t, cmd.cid, o, new)
    BY <1>2 DEF Begin, Update
  <1>4. Commands' = Commands /\ Faults' = Faults
    BY <1>3, SameScenario
  <1>5. Known \subseteq Known' /\ cmd.cid \in Known'
    BY <1>0, <1>2, <1>3, UpdateTypes
  <1>6. act'[t].cmd = cmd /\ act'[t].pc = pc /\ \A a \in Actors : a # t => act'[a] = act[a]
    BY <1>0, <1>3 DEF ActorTypes, Idle
  <1>7. /\ \A k \in Commands : Has(requests, k) => Has(new, k)
        /\ cmd.op # "place" => Has(new, cmd)
    BY <1>0, <1>2 DEF Has
  <1>8. OwnInv' /\ LogInv'
    <2>1. act[t].pc \notin Committing /\ act'[t].pc \in Committing
      BY <1>2, <1>6 DEF Committing
    <2> QED BY <1>0, <1>1, <1>2, <1>3, <1>6, <1>7, <2>1, ReserveKeeps DEF Noted
  <1>9. cmd.cid \notin active
    BY <1>0, <1>2 DEF CallInv
  <1>10. /\ \A s \in Threads : s # t => act'[s] = act[s] /\ (InVenueCall(s)' <=> InVenueCall(s))
         /\ InVenueCall(t)' <=> pc = "intent"
         /\ ~InVenueCall(t)
    BY <1>2, <1>6, ActorFacts DEF InVenueCall
  <1>11. CallInv'
    <2>1. active' \subseteq Known'
      BY <1>0, <1>2, <1>5 DEF CallInv
    <2>2. \A s \in Threads : InVenueCall(s)' => act'[s].cmd.cid \in active' /\ Noted(act'[s].cmd, new)
      <3> TAKE s \in Threads
      <3> HAVE InVenueCall(s)'
      <3>1. CASE s = t
        BY <1>2, <1>6, <1>7, <1>10, <3>1 DEF Noted
      <3>2. CASE s # t
        <4>1. InVenueCall(s) /\ act'[s] = act[s] /\ act[s].cmd \in Commands
          BY <1>0, <1>10, <3>2 DEF CallTypes
        <4> QED BY <1>0, <1>2, <1>7, <4>1 DEF CallInv, Noted
      <3> QED BY <3>1, <3>2
    <2>3. \A r, s \in Threads :
             InVenueCall(r)' /\ InVenueCall(s)' /\ act'[r].cmd.cid = act'[s].cmd.cid => r = s
      <3>1. \A s \in Threads : s # t /\ InVenueCall(s)' => act'[s].cmd.cid # cmd.cid
        BY <1>0, <1>9, <1>10 DEF CallInv
      <3> QED BY <1>0, <1>6, <1>10, <3>1 DEF CallInv, OneOperationPerOrder
    <2>4. "journal" \in Faults \/
          \A cid \in active' : \E s \in Threads : InVenueCall(s)' /\ act'[s].cmd.cid = cid
      <3> SUFFICES ASSUME "journal" \notin Faults, NEW cid \in active'
                   PROVE  \E s \in Threads : InVenueCall(s)' /\ act'[s].cmd.cid = cid
        OBVIOUS
      <3>1. CASE cid \in active
        <4>1. PICK s \in Threads : InVenueCall(s) /\ act[s].cmd.cid = cid
          BY <1>0, <3>1 DEF CallInv, OneOperationPerOrder
        <4>2. s # t
          BY <1>10, <4>1
        <4> QED BY <1>10, <4>1, <4>2
      <3>2. CASE cid \notin active
        <4>1. pc = "intent" /\ cid = cmd.cid
          BY <1>2, <3>2
        <4> QED BY <1>6, <1>10, <4>1
      <3> QED BY <3>1, <3>2
    <2> QED BY <1>3, <1>4, <2>1, <2>2, <2>3, <2>4 DEF CallInv, OneOperationPerOrder, Noted, Has
  <1>12. SentInv'
    <2>1. AppendBeforeRoute' /\ AtMostOnceSent'
      BY <1>0, <1>3, <1>4 DEF SentInv, AppendBeforeRoute, AtMostOnceSent, SameIdentifier
    <2>2. \A k \in Commands : SameIdentifier(cmd, k) => sent[k] = 0
      <3> TAKE k \in Commands
      <3> HAVE SameIdentifier(cmd, k)
      <3>1. sent[k] \in Nat
        BY <1>0 DEF TInv, HistoryTypes
      <3>2. ~(sent[k] > 0)
        <4>1. CASE cmd.op = "place"
          BY <1>0, <1>2, <4>1 DEF SentInv, SameIdentifier
        <4>2. CASE cmd.op # "place"
          <5>1. k.op = cmd.op /\ k.cid = cmd.cid /\ k.req = cmd.req
            BY <4>2 DEF SameIdentifier
          <5>2. ~Has(requests, k)
            BY <1>2, <4>2, <5>1 DEF SeenRequest, RequestsOf, Has
          <5> QED BY <1>0, <4>2, <5>1, <5>2 DEF SentInv, Noted
        <4> QED BY <4>1, <4>2
      <3> QED BY <3>1, <3>2
    <2>3. \A s \in Threads : act'[s].pc = "send" => Logged(act'[s].cmd)
      BY <1>0, <1>2, <1>6, <1>10 DEF SentInv
    <2>4. \A s \in Threads : act'[s].pc \in {"intent", "send"} =>
             \A k \in Commands : SameIdentifier(act'[s].cmd, k) => sent[k] = 0
      BY <1>0, <1>6, <1>10, <2>2 DEF SentInv
    <2>5. \A k \in Commands : sent[k] > 0 => k.cid \in Known' /\ Noted(k, new)
      BY <1>0, <1>5, <1>7 DEF SentInv, Noted
    <2> QED BY <1>3, <1>4, <2>1, <2>3, <2>4, <2>5 DEF SentInv, Logged, Noted, Has, SameIdentifier
  <1> QED BY <1>1, <1>8, <1>11, <1>12 DEF GInv

\* The venue call: what is given to the adapter is in the journal, and is new to the venue.
LEMMA SendKeeps ==
    ASSUME GInv, NEW t \in Threads, SendStep(t)
    PROVE  GInv'
  <1> DEFINE cmd == act[t].cmd
  <1>0. /\ TInv /\ CallInv /\ SentInv /\ OwnInv /\ LogInv /\ CallTypes
        /\ ActorTypes /\ t \in Actors /\ sent \in [Commands -> Nat]
    BY ActorFacts DEF GInv, TInv, HistoryTypes
  <1>1. TInv' /\ act[t].pc = "send"
    BY <1>0, SendTypes
  <1>2. PICK result : Answered(t, result)
    BY <1>0, SendTypes
  <1>3. /\ act' = [act EXCEPT ![t].pc = "finish", ![t].result = result]
        /\ sent' = [sent EXCEPT ![cmd] = @ + 1]
    BY <1>2 DEF Answered
  <1>4. UNCHANGED <<orders, requests, reserved, active, journal, scenario>>
    BY <1>2 DEF Answered, core
  <1>5. Commands' = Commands /\ Faults' = Faults /\ Known' = Known
    BY <1>4, SameScenario DEF Known
  <1>6. /\ act'[t].pc = "finish" /\ act'[t].cmd = cmd
        /\ \A a \in Actors : a # t => act'[a] = act[a]
    BY <1>0, <1>3 DEF ActorTypes, ActType
  <1>7. cmd \in Commands /\ InVenueCall(t)
    BY <1>0, <1>1 DEF CallTypes, InVenueCall
  <1>8. \A s \in Threads : (InVenueCall(s)' <=> InVenueCall(s)) /\ act'[s].cmd = act[s].cmd
    BY <1>6, <1>7, ActorFacts DEF InVenueCall
  <1> HIDE DEF cmd
  <1>9. CallInv'
    <2>1. OneOperationPerOrder'
      BY <1>0, <1>4, <1>5, <1>8 DEF CallInv, OneOperationPerOrder
    <2>2. \A s \in Threads : InVenueCall(s)' => act'[s].cmd.cid \in active /\ Noted(act'[s].cmd, requests)
      BY <1>0, <1>8 DEF CallInv
    <2> QED BY <1>0, <1>4, <1>5, <2>1, <2>2 DEF CallInv, Noted, Has
  <1>10. OwnInv'
    <2>1. reserved \in Seq(RecordType)
      BY <1>0 DEF TInv, OrderTypes
    <2>2. \A i \in DOMAIN reserved : reserved[i].owner \in Actors
      BY <2>1, ElementOfSeq, LenProperties DEF RecordType
    <2>3. \A i \in DOMAIN reserved : act'[reserved[i].owner] = act[reserved[i].owner]
      BY <1>0, <1>1, <1>6, <2>2 DEF OwnInv, Committing
    <2> QED BY <1>0, <1>4, <2>3 DEF OwnInv, Noted, Has
  <1>11. LogInv'
    BY <1>0, <1>4, SameScenario DEF LogInv, Has, RequestsOf
  <1>12. SentInv'
    <2>1. /\ \A k \in Commands : SameIdentifier(cmd, k) => sent[k] = 0
          /\ Logged(cmd) /\ cmd.cid \in Known /\ Noted(cmd, requests)
      BY <1>0, <1>1, <1>7 DEF SentInv, CallInv, cmd
    <2>2. \A k \in Commands : sent'[k] = IF k = cmd THEN sent[k] + 1 ELSE sent[k]
      BY <1>0, <1>3, <1>7
    <2>3. SameIdentifier(cmd, cmd)
      BY DEF SameIdentifier
    <2>4. \A k \in Commands : sent'[k] > 0 => k = cmd \/ sent[k] > 0
      BY <2>2
    <2>5. AppendBeforeRoute'
      BY <1>0, <1>4, <1>5, <2>1, <2>4 DEF SentInv, AppendBeforeRoute, Logged, Noted, Has
    <2>6. AtMostOnceSent'
      <3> SUFFICES ASSUME NEW k \in Commands, NEW l \in Commands, SameIdentifier(k, l)
                   PROVE  IF k = l THEN sent'[k] <= 1 ELSE sent'[k] + sent'[l] <= 1
        BY <1>5 DEF AtMostOnceSent, SameIdentifier
      <3>0. sent[k] \in Nat /\ sent[l] \in Nat
        BY <1>0
      <3>1. IF k = l THEN sent[k] <= 1 ELSE sent[k] + sent[l] <= 1
        BY <1>0 DEF SentInv, AtMostOnceSent
      <3>2. k = cmd \/ l = cmd => SameIdentifier(cmd, k) /\ SameIdentifier(cmd, l)
        BY <2>3 DEF SameIdentifier
      <3>3. k = cmd \/ l = cmd => sent[k] = 0 /\ sent[l] = 0
        BY <2>1, <3>2
      <3> QED BY <2>2, <3>0, <3>1, <3>3
    <2>7. \A s \in Threads : act'[s].pc \in {"intent", "send"} => s # t /\ act'[s] = act[s]
      BY <1>6, ActorFacts
    <2>8. \A s \in Threads : act'[s].pc = "send" => Logged(act'[s].cmd)
      BY <1>0, <2>7 DEF SentInv
    <2>9. \A s \in Threads : act'[s].pc \in {"intent", "send"} =>
             \A k \in Commands : SameIdentifier(act'[s].cmd, k) => sent'[k] = 0
      <3> TAKE s \in Threads
      <3> HAVE act'[s].pc \in {"intent", "send"}
      <3> TAKE k \in Commands
      <3> HAVE SameIdentifier(act'[s].cmd, k)
      <3>1. s # t /\ act'[s] = act[s] /\ InVenueCall(s)
        BY <2>7 DEF InVenueCall
      <3>2. act[s].cmd.cid # cmd.cid
        BY <1>0, <1>7, <3>1 DEF CallInv, OneOperationPerOrder, cmd
      <3>3. k # cmd
        BY <3>1, <3>2 DEF SameIdentifier
      <3> QED BY <1>0, <2>2, <3>1, <3>3 DEF SentInv
    <2>10. \A k \in Commands : sent'[k] > 0 => k.cid \in Known /\ Noted(k, requests)
      BY <1>0, <2>1, <2>4 DEF SentInv
    <2> QED BY <1>4, <1>5, <2>5, <2>6, <2>8, <2>9, <2>10
            DEF SentInv, Logged, Noted, Has, SameIdentifier
  <1> QED BY <1>1, <1>9, <1>10, <1>11, <1>12 DEF GInv

\* The command leaves its venue call and releases the order.
LEMMA FinishKeeps ==
    ASSUME GInv, NEW t \in Threads, FinishStep(t)
    PROVE  GInv'
  <1> DEFINE cmd == act[t].cmd
  <1>0. /\ TInv /\ CallInv /\ SentInv /\ OwnInv /\ LogInv /\ CallTypes /\ OrderTypes
        /\ ActorTypes /\ t \in Actors /\ requests \in [Commands -> Outcomes] /\ scenario \in Scenarios
    BY ActorFacts DEF GInv, TInv, HistoryTypes, OrderTypes
  <1>1. TInv' /\ act[t].pc = "finish"
    BY <1>0, FinishTypes
  <1>2. PICK o \in OrderType, outcome \in Outcomes \cup {None} :
           Finish(t, o, outcome) /\ (cmd.op # "place" => outcome \in Outcomes \ {"absent"})
    BY <1>0, FinishTypes
  <1>3. cmd \in Commands /\ cmd.cid \in Cids /\ cmd.cid \in Known /\ InVenueCall(t)
    BY <1>0, <1>1 DEF CallTypes, InVenueCall, Known
  <1> DEFINE new == IF cmd.op = "place" THEN requests ELSE [requests EXCEPT ![cmd] = outcome]
  <1>4. /\ Update(t, cmd.cid, o, new) /\ active' = active \ {cmd.cid}
        /\ UNCHANGED <<journal, sent, scenario>>
        /\ act'[t].pc = "outcome" /\ \A a \in Actors : a # t => act'[a] = act[a]
    BY <1>0, <1>2 DEF Finish, counters, ActorTypes, ActType
  <1>5. /\ new \in [Commands -> Outcomes]
        /\ \A k \in Commands : Has(requests, k) => Has(new, k)
    BY <1>0, <1>2, <1>3 DEF Has
  <1> HIDE DEF new
  <1>6. requests' = new /\ Reserve(t, cmd.cid, o, new) /\ orders' = [orders EXCEPT ![cmd.cid] = o]
    BY <1>4 DEF Update
  <1>7. OwnInv' /\ LogInv'
    BY <1>0, <1>1, <1>3, <1>4, <1>5, <1>6, ReserveKeeps DEF Committing
  <1>8. Commands' = Commands /\ Faults' = Faults /\ Known' = Known
    <2>1. Known' = Known
      BY <1>0, <1>3, <1>6, NoneAssumption DEF Known, OrderTypes
    <2> QED BY <1>4, <2>1, SameScenario
  <1>9. /\ \A s \in Threads : s # t => act'[s] = act[s] /\ (InVenueCall(s)' <=> InVenueCall(s))
        /\ ~InVenueCall(t)'
    BY <1>4, ActorFacts DEF InVenueCall
  <1>10. \A s \in Threads : s # t /\ InVenueCall(s) => act[s].cmd.cid # cmd.cid /\ act[s].cmd \in Commands
    BY <1>0, <1>3 DEF CallInv, OneOperationPerOrder, CallTypes
  <1> HIDE DEF cmd
  <1>11. CallInv'
    <2>1. \A s \in Threads : InVenueCall(s)' => act'[s].cmd.cid \in active' /\ Noted(act'[s].cmd, new)
      BY <1>0, <1>4, <1>5, <1>9, <1>10 DEF CallInv, Noted
    <2>2. \A r, s \in Threads :
             InVenueCall(r)' /\ InVenueCall(s)' /\ act'[r].cmd.cid = act'[s].cmd.cid => r = s
      BY <1>0, <1>9 DEF CallInv, OneOperationPerOrder
    <2>3. "journal" \in Faults \/
          \A c \in active' : \E s \in Threads : InVenueCall(s)' /\ act'[s].cmd.cid = c
      <3> SUFFICES ASSUME "journal" \notin Faults, NEW c \in active'
                   PROVE  \E s \in Threads : InVenueCall(s)' /\ act'[s].cmd.cid = c
        OBVIOUS
      <3>1. c \in active /\ c # cmd.cid
        BY <1>4
      <3>2. PICK s \in Threads : InVenueCall(s) /\ act[s].cmd.cid = c
        BY <1>0, <3>1 DEF CallInv, OneOperationPerOrder
      <3>3. s # t
        BY <3>1, <3>2 DEF cmd
      <3> QED BY <1>9, <3>2, <3>3
    <2>4. active' \subseteq Known'
      BY <1>0, <1>4, <1>8 DEF CallInv
    <2> QED BY <1>6, <1>8, <2>1, <2>2, <2>3, <2>4 DEF CallInv, OneOperationPerOrder, Noted, Has
  <1>12. SentInv'
    <2>1. AppendBeforeRoute' /\ AtMostOnceSent'
      BY <1>0, <1>4, <1>8 DEF SentInv, AppendBeforeRoute, AtMostOnceSent, SameIdentifier
    <2>2. \A s \in Threads : act'[s].pc \in {"intent", "send"} => act'[s] = act[s]
      BY <1>4, <1>9
    <2>3. \A s \in Threads : act'[s].pc = "send" => Logged(act'[s].cmd)
      BY <1>0, <2>2 DEF SentInv
    <2>4. \A s \in Threads : act'[s].pc \in {"intent", "send"} =>
             \A k \in Commands : SameIdentifier(act'[s].cmd, k) => sent[k] = 0
      BY <1>0, <2>2 DEF SentInv
    <2>5. \A k \in Commands : sent[k] > 0 => k.cid \in Known /\ Noted(k, new)
      BY <1>0, <1>5 DEF SentInv, Noted
    <2> QED BY <1>4, <1>6, <1>8, <2>1, <2>3, <2>4, <2>5
            DEF SentInv, Logged, Noted, Has, SameIdentifier
  <1> QED BY <1>1, <1>7, <1>11, <1>12 DEF GInv

\* An append: whatever order the appends come in, the journal forgets no request, and the
\* record under way knows those of the journal.
LEMMA AppendKeeps ==
    ASSUME TInv, TInv', LogInv, scenario' = scenario, requests' = requests,
           NEW i \in DOMAIN reserved, Journaled(i)
    PROVE  /\ LogInv'
           /\ \A k \in Commands : Logged(k) => Logged(k)'
           /\ \A k \in Commands : k.cid = reserved[i].cid /\ Noted(k, reserved[i].requests) => Logged(k)'
  <1>0. /\ scenario \in Scenarios /\ reserved \in Seq(RecordType) /\ JournalTypes
        /\ Commands' = Commands
    BY SameScenario DEF TInv, HistoryTypes, OrderTypes
  <1> DEFINE old(j) == IF j < i THEN j ELSE j + 1
  <1>1. /\ Len(reserved) \in Nat /\ DOMAIN reserved = 1 .. Len(reserved)
        /\ DOMAIN reserved' = 1 .. Len(reserved) - 1
        /\ \A j \in DOMAIN reserved' :
              reserved'[j] = IF j < i /\ reserved[old(j)].cid = reserved[i].cid
                             THEN [reserved[old(j)] EXCEPT !.superseded = TRUE] ELSE reserved[old(j)]
        /\ journal' = IF reserved[i].superseded THEN journal
                      ELSE [journal EXCEPT ![reserved[i].cid] =
                              [order |-> reserved[i].order, requests |-> reserved[i].requests]]
    BY <1>0, JournaledFacts
  <1>2. /\ i \in Nat
        /\ \A j \in DOMAIN reserved' : j \in Nat /\ old(j) \in DOMAIN reserved /\ old(j) # i
        /\ \A j \in DOMAIN reserved' : (j < i <=> old(j) < i) /\ (~(j < i) => i < old(j))
        /\ \A j, l \in DOMAIN reserved' : j < l => old(j) < old(l)
    <2>0. i \in Nat
      BY <1>1
    <2>1. ASSUME NEW j \in DOMAIN reserved'
          PROVE  /\ j \in Nat /\ old(j) \in DOMAIN reserved /\ old(j) # i
                 /\ j < i <=> old(j) < i
                 /\ ~(j < i) => i < old(j)
      BY <1>1, <2>0, <2>1
    <2>2. ASSUME NEW j \in DOMAIN reserved', NEW l \in DOMAIN reserved', j < l
          PROVE  old(j) < old(l)
      BY <1>1, <2>0, <2>2
    <2> QED BY <2>0, <2>1, <2>2
  <1>3. \A j \in DOMAIN reserved : reserved[j] \in RecordType
    BY <1>0, ElementOfSeq, LenProperties
  <1>4. \A j \in DOMAIN reserved' :
           /\ reserved'[j].cid = reserved[old(j)].cid
           /\ reserved'[j].requests = reserved[old(j)].requests
           /\ reserved'[j].superseded =
                 (reserved[old(j)].superseded \/ (old(j) < i /\ reserved[old(j)].cid = reserved[i].cid))
    <2> TAKE j \in DOMAIN reserved'
    <2>1. reserved[old(j)] \in RecordType /\ (j < i <=> old(j) < i)
      BY <1>2, <1>3
    <2>2. reserved'[j] = IF j < i /\ reserved[old(j)].cid = reserved[i].cid
                         THEN [reserved[old(j)] EXCEPT !.superseded = TRUE] ELSE reserved[old(j)]
      BY <1>1
    <2> HIDE DEF old
    <2> QED BY <2>1, <2>2 DEF RecordType
  <1>5. reserved[i].cid \in Cids
    BY <1>3 DEF RecordType
  <1>6. \A c \in Cids : journal'[c] =
           IF c = reserved[i].cid /\ ~reserved[i].superseded
           THEN [order |-> reserved[i].order, requests |-> reserved[i].requests] ELSE journal[c]
    BY <1>0, <1>1, <1>5 DEF JournalTypes
  <1>7. [order |-> reserved[i].order, requests |-> reserved[i].requests] # None
    <2>1. [order |-> reserved[i].order, requests |-> reserved[i].requests]
             \in JournalType(Commands, reserved[i].cid)
      BY <1>3 DEF RecordType, JournalType, RequestsOf
    <2> QED BY <1>0, <1>5, <2>1, CommandFacts
  <1>8. \A k \in Commands : k.cid \in Cids /\ k \in RequestsOf(k.cid)
    BY <1>0, CommandFacts DEF RequestsOf
  <1> HIDE DEF old
  \* What the journal knew, it knows; what the record knows, the journal knows now.
  <1>9. ASSUME NEW k \in Commands
        PROVE  /\ journal[k.cid] # None =>
                     journal'[k.cid] # None /\ (Has(journal[k.cid].requests, k) =>
                                                Has(journal'[k.cid].requests, k))
               /\ k.cid = reserved[i].cid =>
                     journal'[k.cid] # None /\ (Has(reserved[i].requests, k) =>
                                                Has(journal'[k.cid].requests, k))
    <2>0. k.cid \in Cids /\ k \in RequestsOf(k.cid)
      BY <1>8
    <2>1. CASE reserved[i].superseded
      <3>1. journal'[k.cid] = journal[k.cid]
        BY <1>6, <2>0, <2>1
      <3>2. /\ journal[reserved[i].cid] # None
            /\ \A l \in RequestsOf(reserved[i].cid) :
                  Has(reserved[i].requests, l) => Has(journal[l.cid].requests, l)
        BY <2>1 DEF LogInv
      <3> QED BY <2>0, <3>1, <3>2
    <2>2. CASE ~reserved[i].superseded /\ k.cid = reserved[i].cid
      <3>1. journal'[k.cid] # None /\ journal'[k.cid].requests = reserved[i].requests
        BY <1>6, <1>7, <2>0, <2>2
      <3>2. journal[k.cid] # None /\ Has(journal[k.cid].requests, k) => Has(reserved[i].requests, k)
        BY <2>0, <2>2 DEF LogInv
      <3> QED BY <3>1, <3>2
    <2>3. CASE ~reserved[i].superseded /\ k.cid # reserved[i].cid
      <3>1. journal'[k.cid] = journal[k.cid]
        BY <1>6, <2>0, <2>3
      <3> QED BY <2>3, <3>1
    <2> QED BY <2>1, <2>2, <2>3
  <1>10. \A k \in Commands : Logged(k) => Logged(k)'
    BY <1>9 DEF Logged, Noted, Has
  <1>11. \A k \in Commands : k.cid = reserved[i].cid /\ Noted(k, reserved[i].requests) => Logged(k)'
    BY <1>9 DEF Logged, Noted, Has
  <1>12. LogInv'
    <2>1. ASSUME NEW j \in DOMAIN reserved', NEW l \in DOMAIN reserved', j < l,
                 reserved'[j].cid = reserved'[l].cid, NEW k \in RequestsOf(reserved'[j].cid)
          PROVE  Has(reserved'[j].requests, k) => Has(reserved'[l].requests, k)
      <3>1. old(j) \in DOMAIN reserved /\ old(l) \in DOMAIN reserved /\ old(j) < old(l)
        BY <1>2, <2>1
      <3> QED BY <1>4, <2>1, <3>1 DEF LogInv
    <2>2. ASSUME NEW j \in DOMAIN reserved', NEW k \in RequestsOf(reserved'[j].cid)
          PROVE  Has(reserved'[j].requests, k) => Has(requests, k)
      BY <1>2, <1>4, <2>2 DEF LogInv
    <2>3. \A k \in Commands : journal'[k.cid] # None /\ Has(journal'[k.cid].requests, k) =>
             Has(requests, k)
      <3> TAKE k \in Commands
      <3>1. CASE k.cid = reserved[i].cid /\ ~reserved[i].superseded
        <4>1. journal'[k.cid].requests = reserved[i].requests
          BY <1>6, <1>8, <3>1
        <4> QED BY <1>8, <3>1, <4>1 DEF LogInv
      <3>2. CASE ~(k.cid = reserved[i].cid /\ ~reserved[i].superseded)
        <4>1. journal'[k.cid] = journal[k.cid]
          BY <1>6, <1>8, <3>2
        <4> QED BY <4>1 DEF LogInv
      <3> QED BY <3>1, <3>2
    <2>4. ASSUME NEW j \in DOMAIN reserved', ~reserved'[j].superseded,
                 journal'[reserved'[j].cid] # None, NEW k \in RequestsOf(reserved'[j].cid)
          PROVE  Has(journal'[k.cid].requests, k) => Has(reserved'[j].requests, k)
      <3>0. /\ old(j) \in DOMAIN reserved /\ ~reserved[old(j)].superseded
            /\ ~(old(j) < i /\ reserved[old(j)].cid = reserved[i].cid)
            /\ reserved'[j].requests = reserved[old(j)].requests
            /\ k \in Commands /\ k.cid = reserved[old(j)].cid /\ k.cid \in Cids
            /\ k \in RequestsOf(reserved[old(j)].cid)
        BY <1>2, <1>4, <1>8, <2>4 DEF RequestsOf
      <3>1. CASE k.cid = reserved[i].cid /\ ~reserved[i].superseded
        <4>1. journal'[k.cid].requests = reserved[i].requests
          BY <1>6, <3>0, <3>1
        <4>2. i < old(j)
          BY <1>2, <3>0, <3>1
        <4> QED BY <3>0, <3>1, <4>1, <4>2 DEF LogInv
      <3>2. CASE ~(k.cid = reserved[i].cid /\ ~reserved[i].superseded)
        <4>1. journal'[k.cid] = journal[k.cid]
          BY <1>6, <3>0, <3>2
        <4>2. journal[reserved[old(j)].cid] # None
          BY <1>4, <2>4, <3>0, <4>1
        <4> QED BY <3>0, <4>1, <4>2 DEF LogInv
      <3> QED BY <3>1, <3>2
    <2>5. ASSUME NEW j \in DOMAIN reserved', reserved'[j].superseded
          PROVE  /\ journal'[reserved'[j].cid] # None
                 /\ \A k \in RequestsOf(reserved'[j].cid) :
                       Has(reserved'[j].requests, k) => Has(journal'[k.cid].requests, k)
      <3> DEFINE r == reserved[old(j)]
      <3>0. /\ old(j) \in DOMAIN reserved /\ old(j) # i /\ r \in RecordType /\ r.cid \in Cids
            /\ reserved'[j].requests = r.requests /\ reserved'[j].cid = r.cid
            /\ r.superseded \/ (old(j) < i /\ r.cid = reserved[i].cid)
        BY <1>2, <1>3, <1>4, <2>5 DEF RecordType
      <3>1. \A k \in RequestsOf(r.cid) : k \in Commands /\ k.cid = r.cid
        BY DEF RequestsOf
      <3>2. CASE r.superseded
        <4>1. /\ journal[r.cid] # None
              /\ \A k \in RequestsOf(r.cid) : Has(r.requests, k) => Has(journal[k.cid].requests, k)
          BY <3>0, <3>2 DEF LogInv
        <4>2. journal'[r.cid] # None
          BY <1>6, <1>7, <3>0, <4>1
        <4> HIDE DEF r
        <4> QED BY <1>9, <3>0, <3>1, <4>1, <4>2
      <3>3. CASE old(j) < i /\ r.cid = reserved[i].cid
        <4>1. \A k \in RequestsOf(r.cid) : Has(r.requests, k) => Has(reserved[i].requests, k)
          BY <3>0, <3>3 DEF LogInv
        <4>2. journal'[r.cid] # None
          <5>1. CASE reserved[i].superseded
            BY <1>6, <3>0, <3>3, <5>1 DEF LogInv
          <5>2. CASE ~reserved[i].superseded
            BY <1>6, <1>7, <3>0, <3>3, <5>2
          <5> QED BY <5>1, <5>2
        <4> HIDE DEF r
        <4> QED BY <1>9, <3>0, <3>1, <3>3, <4>1, <4>2
      <3> QED BY <3>0, <3>2, <3>3
    <2> QED BY <1>0, <2>1, <2>2, <2>3, <2>4, <2>5 DEF LogInv, Has, RequestsOf
  <1> QED BY <1>10, <1>11, <1>12

\* The owner of a record is about to append it, and it alone.
LEMMA OwnerFacts ==
    ASSUME TInv, OwnInv, NEW i \in DOMAIN reserved
    PROVE  /\ \A j \in DOMAIN reserved : reserved[j].owner \in Actors
           /\ \A j \in DOMAIN reserved : j # i => reserved[j].owner # reserved[i].owner
  <1>1. reserved \in Seq(RecordType)
    BY DEF TInv, OrderTypes
  <1>2. \A j \in DOMAIN reserved : reserved[j].owner \in Actors
    BY <1>1, ElementOfSeq, LenProperties DEF RecordType
  <1> QED BY <1>2 DEF OwnInv

LEMMA CommitPersistKeeps ==
    ASSUME GInv, NEW a \in Actors, CommitPersist(a)
    PROVE  GInv'
  <1>0. /\ TInv /\ CallInv /\ SentInv /\ OwnInv /\ LogInv /\ CallTypes /\ ActorTypes /\ JournalTypes
        /\ reserved \in Seq(RecordType) /\ scenario \in Scenarios
    BY DEF GInv, TInv, OrderTypes, HistoryTypes
  <1>1. TInv'
    BY <1>0, CommitPersistTypes
  <1>2. /\ act[a].pc \in Committing
        /\ act' = [act EXCEPT ![a].pc = AfterAppend(a)]
    BY DEF CommitPersist, Goto, Committing
  <1>3. UNCHANGED <<orders, requests, active, sent, scenario>>
    BY DEF CommitPersist, counters
  <1>4. PICK i \in DOMAIN reserved : reserved[i].owner = a /\ Journaled(i)
    BY DEF CommitPersist
  <1>5. Commands' = Commands /\ Faults' = Faults /\ Known' = Known
    BY <1>3, SameScenario DEF Known
  <1>6. /\ AfterAppend(a) \in {"idle", "send", "apply", "judge"}
        /\ AfterAppend(a) = "send" <=> act[a].pc = "intent"
    BY <1>2 DEF AfterAppend, Committing
  <1>7. /\ \A b \in Actors : b # a => act'[b] = act[b]
        /\ act'[a].pc = AfterAppend(a) /\ act'[a].cmd = act[a].cmd
    BY <1>0, <1>2 DEF ActorTypes, ActType
  <1>8. \A t \in Threads : (InVenueCall(t)' <=> InVenueCall(t)) /\ act'[t].cmd = act[t].cmd
    <2> TAKE t \in Threads
    <2>1. CASE t = a
      BY <1>2, <1>6, <1>7, <2>1 DEF InVenueCall, Committing
    <2>2. CASE t # a
      BY <1>7, <2>2, ActorFacts DEF InVenueCall
    <2> QED BY <2>1, <2>2
  <1>9. CallInv'
    <2>1. OneOperationPerOrder'
      BY <1>0, <1>3, <1>5, <1>8 DEF CallInv, OneOperationPerOrder
    <2>2. \A s \in Threads : InVenueCall(s)' => act'[s].cmd.cid \in active /\ Noted(act'[s].cmd, requests)
      BY <1>0, <1>8 DEF CallInv
    <2> QED BY <1>0, <1>3, <1>5, <2>1, <2>2 DEF CallInv, Noted, Has
  <1>10. /\ LogInv'
         /\ \A k \in Commands : Logged(k) => Logged(k)'
         /\ \A k \in Commands : k.cid = reserved[i].cid /\ Noted(k, reserved[i].requests) => Logged(k)'
    BY <1>0, <1>1, <1>3, <1>4, AppendKeeps
  <1>11. OwnInv'
    <2> DEFINE old(j) == IF j < i THEN j ELSE j + 1
    <2>1. /\ Len(reserved) \in Nat /\ DOMAIN reserved = 1 .. Len(reserved)
          /\ DOMAIN reserved' = 1 .. Len(reserved) - 1
          /\ \A j \in DOMAIN reserved' :
                reserved'[j] = IF j < i /\ reserved[old(j)].cid = reserved[i].cid
                               THEN [reserved[old(j)] EXCEPT !.superseded = TRUE] ELSE reserved[old(j)]
      BY <1>0, <1>3, <1>4, JournaledFacts
    <2>2. /\ \A j \in DOMAIN reserved' : old(j) \in DOMAIN reserved /\ old(j) # i
          /\ \A j, l \in DOMAIN reserved' : old(j) = old(l) => j = l
      <3>1. ASSUME NEW j \in DOMAIN reserved' PROVE old(j) \in DOMAIN reserved /\ old(j) # i
        BY <2>1, <3>1
      <3>2. ASSUME NEW j \in DOMAIN reserved', NEW l \in DOMAIN reserved', old(j) = old(l)
            PROVE  j = l
        BY <2>1, <3>2
      <3> QED BY <3>1, <3>2
    <2>3. \A j \in DOMAIN reserved : reserved[j] \in RecordType
      BY <1>0, ElementOfSeq, LenProperties
    <2> HIDE DEF old
    <2>4. \A j \in DOMAIN reserved' : /\ reserved'[j].owner = reserved[old(j)].owner
                                      /\ reserved'[j].cid = reserved[old(j)].cid
                                      /\ reserved'[j].requests = reserved[old(j)].requests
      BY <2>1, <2>2, <2>3 DEF RecordType
    <2>5. \A j \in DOMAIN reserved' : /\ reserved[old(j)].owner \in Actors
                                      /\ act'[reserved[old(j)].owner] = act[reserved[old(j)].owner]
      BY <1>0, <1>4, <1>7, <2>2, OwnerFacts
    <2>6. \A j \in DOMAIN reserved' : act'[reserved'[j].owner].pc \in Committing
      BY <1>0, <2>2, <2>4, <2>5 DEF OwnInv
    <2>7. \A j, l \in DOMAIN reserved' : reserved'[j].owner = reserved'[l].owner => j = l
      BY <1>0, <2>2, <2>4 DEF OwnInv
    <2>8. \A j \in DOMAIN reserved' : \A t \in Threads :
             reserved'[j].owner = t /\ act'[t].pc = "intent" =>
                reserved'[j].cid = act'[t].cmd.cid /\ Noted(act'[t].cmd, reserved'[j].requests)
      BY <1>0, <2>2, <2>4, <2>5 DEF OwnInv
    <2> QED BY <2>6, <2>7, <2>8 DEF OwnInv, Noted, Has
  <1>12. SentInv'
    <2>1. AtMostOnceSent'
      BY <1>0, <1>3, <1>5 DEF SentInv, AtMostOnceSent, SameIdentifier
    <2>2. AppendBeforeRoute'
      BY <1>0, <1>3, <1>5, <1>10 DEF SentInv, AppendBeforeRoute, Logged, Noted, Has
    <2>3. \A t \in Threads : act'[t].pc = "send" => Logged(act[t].cmd)'
      <3> TAKE t \in Threads
      <3> HAVE act'[t].pc = "send"
      <3>1. act[t].cmd \in Commands /\ act'[t].cmd = act[t].cmd
        BY <1>0, <1>8 DEF CallTypes, InVenueCall
      <3>2. CASE t = a
        <4>1. act[t].pc = "intent"
          BY <1>6, <1>7, <3>2
        <4>2. reserved[i].cid = act[t].cmd.cid /\ Noted(act[t].cmd, reserved[i].requests)
          BY <1>0, <1>4, <3>2, <4>1 DEF OwnInv
        <4>3. Logged(act[t].cmd)'
          <5> DEFINE k == act[t].cmd
          <5>1. k \in Commands /\ k.cid = reserved[i].cid /\ Noted(k, reserved[i].requests) /\ act'[t].cmd = k
            BY <3>1, <4>2
          <5> HIDE DEF k
          <5>2. journal'[k.cid] # None /\ Noted(k, journal'[k.cid].requests)
            BY <1>10, <5>1 DEF Logged, Noted, Has
          <5> QED BY <5>1, <5>2 DEF Logged, Noted, Has
        <4> QED BY <4>3
      <3>3. CASE t # a
        <4> DEFINE k == act[t].cmd
        <4>1. act[t].pc = "send"
          BY <1>7, <3>3, ActorFacts
        <4>2. k \in Commands /\ Logged(k) /\ act'[t].cmd = k
          BY <1>0, <3>1, <4>1 DEF SentInv
        <4> HIDE DEF k
        <4>3. journal'[k.cid] # None /\ Noted(k, journal'[k.cid].requests)
          BY <1>10, <4>2 DEF Logged, Noted, Has
        <4> QED BY <4>2, <4>3 DEF Logged, Noted, Has
      <3> QED BY <3>2, <3>3
    <2>4. \A t \in Threads : act'[t].pc \in {"intent", "send"} =>
             /\ act[t].pc \in {"intent", "send"} /\ act'[t].cmd = act[t].cmd
      <3> TAKE t \in Threads
      <3>1. CASE t = a
        BY <1>6, <1>7, <3>1
      <3>2. CASE t # a
        BY <1>7, <3>2, ActorFacts
      <3> QED BY <3>1, <3>2
    <2>5. \A t \in Threads : act'[t].pc \in {"intent", "send"} =>
             \A k \in Commands : SameIdentifier(act'[t].cmd, k) => sent[k] = 0
      BY <1>0, <2>4 DEF SentInv
    <2>6. \A k \in Commands : sent[k] > 0 => k.cid \in Known /\ Noted(k, requests)
      BY <1>0 DEF SentInv
    <2> QED BY <1>3, <1>5, <2>1, <2>2, <2>3, <2>5, <2>6
            DEF SentInv, Logged, Noted, Has, SameIdentifier
  <1> QED BY <1>1, <1>9, <1>10, <1>11, <1>12 DEF GInv

\* A failed append: the record is gone, the command gives up and its order stays marked.
LEMMA CommitFailsKeeps ==
    ASSUME GInv, NEW a \in Actors, CommitFails(a)
    PROVE  GInv'
  <1>0. /\ TInv /\ CallInv /\ SentInv /\ OwnInv /\ LogInv /\ CallTypes /\ ActorTypes
        /\ reserved \in Seq(RecordType)
    BY DEF GInv, TInv, OrderTypes
  <1>1. TInv'
    BY <1>0, CommitFailsTypes
  <1>2. "journal" \in Faults /\ UNCHANGED <<orders, requests, active, journal, sent, scenario>>
    BY DEF CommitFails, counters
  <1>3. PICK i \in DOMAIN reserved : reserved[i].owner = a /\ reserved' = RemoveAt(reserved, i)
    BY DEF CommitFails
  <1>4. act' = [act EXCEPT ![a] = IF a = R THEN [Idle EXCEPT !.pc = "candidates"] ELSE Idle]
    BY DEF CommitFails, R
  <1>5. /\ \A b \in Actors : b # a => act'[b] = act[b]
        /\ act'[a].pc \in {"idle", "candidates"}
    BY <1>0, <1>4 DEF ActorTypes, Idle
  <1>6. Commands' = Commands /\ Faults' = Faults /\ Known' = Known
    BY <1>2, SameScenario DEF Known
  <1>7. \A t \in Threads : InVenueCall(t)' => InVenueCall(t) /\ act'[t] = act[t]
    BY <1>5, ActorFacts DEF InVenueCall
  <1>8. CallInv'
    <2>1. OneOperationPerOrder'
      BY <1>0, <1>2, <1>6, <1>7 DEF CallInv, OneOperationPerOrder
    <2>2. \A s \in Threads : InVenueCall(s)' => act'[s].cmd.cid \in active /\ Noted(act'[s].cmd, requests)
      BY <1>0, <1>7 DEF CallInv
    <2> QED BY <1>0, <1>2, <1>6, <2>1, <2>2 DEF CallInv, Noted, Has
  <1>9. SentInv'
    <2>1. AtMostOnceSent' /\ AppendBeforeRoute'
      BY <1>0, <1>2, <1>6 DEF SentInv, AtMostOnceSent, SameIdentifier, AppendBeforeRoute
    <2>2. \A t \in Threads : act'[t].pc \in {"intent", "send"} => act'[t] = act[t]
      BY <1>7 DEF InVenueCall
    <2>3. \A t \in Threads : act'[t].pc = "send" => Logged(act'[t].cmd)
      BY <1>0, <2>2 DEF SentInv
    <2>4. \A t \in Threads : act'[t].pc \in {"intent", "send"} =>
             \A k \in Commands : SameIdentifier(act'[t].cmd, k) => sent[k] = 0
      BY <1>0, <2>2 DEF SentInv
    <2>5. \A k \in Commands : sent[k] > 0 => k.cid \in Known /\ Noted(k, requests)
      BY <1>0 DEF SentInv
    <2> QED BY <1>2, <1>6, <2>1, <2>3, <2>4, <2>5 DEF SentInv, Logged, Noted, Has, SameIdentifier
  <1> DEFINE old(j) == IF j < i THEN j ELSE j + 1
  <1>10. /\ Len(reserved) \in Nat /\ DOMAIN reserved = 1 .. Len(reserved)
         /\ DOMAIN reserved' = 1 .. Len(reserved) - 1
         /\ \A j \in DOMAIN reserved' : reserved'[j] = reserved[old(j)]
    <2>1. /\ DOMAIN RemoveAt(reserved, i) = 1 .. Len(reserved) - 1
          /\ \A j \in 1 .. Len(reserved) - 1 :
                RemoveAt(reserved, i)[j] = IF j < i THEN reserved[j] ELSE reserved[j + 1]
      BY <1>0, RemoveAtFacts
    <2>2. Len(reserved) \in Nat /\ DOMAIN reserved = 1 .. Len(reserved)
      BY <1>0, LenProperties
    <2> QED BY <1>3, <2>1, <2>2
  <1>11. /\ \A j \in DOMAIN reserved' : old(j) \in DOMAIN reserved /\ old(j) # i
         /\ \A j, l \in DOMAIN reserved' : old(j) = old(l) => j = l
         /\ \A j, l \in DOMAIN reserved' : j < l => old(j) < old(l)
    <2>1. ASSUME NEW j \in DOMAIN reserved' PROVE old(j) \in DOMAIN reserved /\ old(j) # i
      BY <1>10, <2>1
    <2>2. ASSUME NEW j \in DOMAIN reserved', NEW l \in DOMAIN reserved'
          PROVE  (old(j) = old(l) => j = l) /\ (j < l => old(j) < old(l))
      BY <1>10, <2>2
    <2> QED BY <2>1, <2>2
  <1> HIDE DEF old
  <1>12. OwnInv'
    <2>1. \A j \in DOMAIN reserved' : /\ reserved[old(j)].owner \in Actors
                                      /\ act'[reserved[old(j)].owner] = act[reserved[old(j)].owner]
      BY <1>0, <1>3, <1>5, <1>11, OwnerFacts
    <2>2. \A j \in DOMAIN reserved' : act'[reserved'[j].owner].pc \in Committing
      BY <1>0, <1>10, <1>11, <2>1 DEF OwnInv
    <2>3. \A j, l \in DOMAIN reserved' : reserved'[j].owner = reserved'[l].owner => j = l
      BY <1>0, <1>10, <1>11 DEF OwnInv
    <2>4. \A j \in DOMAIN reserved' : \A t \in Threads :
             reserved'[j].owner = t /\ act'[t].pc = "intent" =>
                reserved'[j].cid = act'[t].cmd.cid /\ Noted(act'[t].cmd, reserved'[j].requests)
      BY <1>0, <1>10, <1>11, <2>1 DEF OwnInv
    <2> QED BY <2>2, <2>3, <2>4 DEF OwnInv, Noted, Has
  <1>13. LogInv'
    <2>1. ASSUME NEW j \in DOMAIN reserved', NEW l \in DOMAIN reserved', j < l,
                 reserved'[j].cid = reserved'[l].cid, NEW k \in RequestsOf(reserved'[j].cid)
          PROVE  Has(reserved'[j].requests, k) => Has(reserved'[l].requests, k)
      <3>1. old(j) \in DOMAIN reserved /\ old(l) \in DOMAIN reserved /\ old(j) < old(l)
        BY <1>11, <2>1
      <3>2. reserved'[j] = reserved[old(j)] /\ reserved'[l] = reserved[old(l)]
        BY <1>10
      <3>3. /\ reserved[old(j)].cid = reserved[old(l)].cid
            /\ k \in RequestsOf(reserved[old(j)].cid)
        BY <2>1, <3>2
      <3>4. Has(reserved[old(j)].requests, k) => Has(reserved[old(l)].requests, k)
        BY <1>0, <3>1, <3>3 DEF LogInv
      <3> QED BY <3>2, <3>4
    <2>2. ASSUME NEW j \in DOMAIN reserved', NEW k \in RequestsOf(reserved'[j].cid)
          PROVE  Has(reserved'[j].requests, k) => Has(requests, k)
      BY <1>0, <1>10, <1>11, <2>2 DEF LogInv
    <2>3. ASSUME NEW j \in DOMAIN reserved', ~reserved'[j].superseded,
                 journal[reserved'[j].cid] # None, NEW k \in RequestsOf(reserved'[j].cid)
          PROVE  Has(journal[k.cid].requests, k) => Has(reserved'[j].requests, k)
      BY <1>0, <1>10, <1>11, <2>3 DEF LogInv
    <2>4. ASSUME NEW j \in DOMAIN reserved', reserved'[j].superseded
          PROVE  /\ journal[reserved'[j].cid] # None
                 /\ \A k \in RequestsOf(reserved'[j].cid) :
                       Has(reserved'[j].requests, k) => Has(journal[k.cid].requests, k)
      BY <1>0, <1>10, <1>11, <2>4 DEF LogInv
    <2>5. \A k \in Commands : journal[k.cid] # None /\ Has(journal[k.cid].requests, k) =>
             Has(requests, k)
      BY <1>0 DEF LogInv
    <2> QED BY <1>2, <1>6, <2>1, <2>2, <2>3, <2>4, <2>5 DEF LogInv, Has, RequestsOf
  <1> QED BY <1>1, <1>8, <1>9, <1>12, <1>13 DEF GInv

\* A restart: what was sent is known again, because the journal had it.
LEMMA CrashKeeps ==
    ASSUME GInv, Crash
    PROVE  GInv'
  <1>0. TInv /\ SentInv /\ LogInv /\ scenario \in Scenarios
    BY DEF GInv, TInv, HistoryTypes
  <1>1. /\ TInv'
        /\ \A cid \in Cids : cid \in Known' <=> journal[cid] # None
        /\ \A k \in Commands : requests'[k] =
              IF journal[k.cid] = None THEN "absent" ELSE journal[k.cid].requests[k]
        /\ \A a \in Actors : act'[a] = Idle
    BY <1>0, CrashTypes
  <1>2. active' = {} /\ reserved' = <<>> /\ UNCHANGED <<journal, sent, scenario>>
    BY DEF Crash
  <1>3. Commands' = Commands /\ Faults' = Faults /\ \A k \in Commands : k.cid \in Cids
    BY <1>0, <1>2, SameScenario, CommandFacts
  <1>4. \A t \in Threads : act'[t].pc = "idle"
    BY <1>1, ActorFacts DEF Idle
  <1>5. DOMAIN reserved' = {}
    BY <1>2
  <1>6. CallInv'
    BY <1>2, <1>4 DEF CallInv, OneOperationPerOrder, InVenueCall
  <1>7. OwnInv'
    BY <1>5 DEF OwnInv
  <1>8. LogInv'
    BY <1>1, <1>2, <1>3, <1>5 DEF LogInv, Has
  <1>9. SentInv'
    <2>1. AtMostOnceSent' /\ AppendBeforeRoute'
      BY <1>0, <1>2, <1>3 DEF SentInv, AtMostOnceSent, SameIdentifier, AppendBeforeRoute
    <2>2. \A k \in Commands : sent[k] > 0 => k.cid \in Known' /\ Noted(k, requests')
      BY <1>0, <1>1, <1>3 DEF SentInv, AppendBeforeRoute, Noted, Has
    <2> QED BY <1>2, <1>3, <1>4, <2>1, <2>2 DEF SentInv, Noted, Has
  <1> QED BY <1>1, <1>6, <1>7, <1>8, <1>9 DEF GInv

LEMMA InitGInv == Init => GInv
  <1> SUFFICES ASSUME Init PROVE GInv
    OBVIOUS
  <1>1. TInv
    BY InitTypes
  <1>2. \A t \in Threads : act[t].pc = "idle"
    BY ActorFacts DEF Init, Idle
  <1>3. active = {} /\ DOMAIN reserved = {} /\ \A k \in Commands : sent[k] = 0
    BY DEF Init
  <1>4. \A cid \in Cids : journal[cid] = None
    BY DEF Init
  <1>5. \A k \in Commands : k.cid \in Cids
    BY <1>1, CommandFacts DEF TInv, HistoryTypes
  <1>6. CallInv
    BY <1>2, <1>3 DEF CallInv, OneOperationPerOrder, InVenueCall
  <1>7. SentInv
    BY <1>2, <1>3 DEF SentInv, AppendBeforeRoute, AtMostOnceSent
  <1>8. OwnInv
    BY <1>3 DEF OwnInv
  <1>9. LogInv
    BY <1>3, <1>4, <1>5 DEF LogInv
  <1> QED BY <1>1, <1>6, <1>7, <1>8, <1>9 DEF GInv

\* One case per actor and kind of step.
LEMMA StepGInv == GInv /\ [Next]_vars => GInv'
  <1> SUFFICES ASSUME GInv, [Next]_vars PROVE GInv'
    OBVIOUS
  <1>0. /\ TInv /\ TInv' /\ ActorTypes /\ VenueTypes /\ CallTypes
    BY StepTypes DEF GInv, TInv
  <1>1. CASE \E t \in Threads, cmd \in Commands :
                \/ PlaceBegin(t, cmd) \/ PlaceReject(t, cmd)
                \/ CancelBegin(t, cmd) \/ AmendBegin(t, cmd)
    BY <1>1, BeginKeeps
  <1>2. ASSUME NEW t \in Threads, CommandStep(t) PROVE GInv'
    <2>0. t \in Actors /\ act[t].reports \in Seq(VenueReport)
      BY <1>0, ActorFacts DEF ActorTypes, ActType
    <2>1. CASE CommandApply(t)
      <3>1. /\ act[t].pc = "apply" /\ act[t].reports # <<>>
            /\ ApplyExecution(t, Head(act[t].reports))
            /\ act' = [act EXCEPT ![t].reports = Tail(@),
                          ![t].pc = IF Records(Head(act[t].reports)) THEN "applied" ELSE "apply"]
            /\ UNCHANGED <<active, journal, sent, scenario>>
        BY <2>1 DEF CommandApply, counters
      <3>2. Head(act[t].reports) \in VenueReport
        BY <2>0, <3>1, HeadTailProperties
      <3>3. /\ act'[t].pc = IF Records(Head(act[t].reports)) THEN "applied" ELSE "apply"
            /\ \A b \in Actors : b # t => act'[b] = act[b]
        BY <1>0, <2>0, <3>1 DEF ActorTypes, ActType
      <3>4. act[t].pc \notin Busy /\ "apply" \notin Busy
        BY <3>1 DEF Busy, Committing
      <3> QED BY <1>0, <2>0, <3>1, <3>2, <3>3, <3>4, ApplyExecutionKeeps
    <2>2. CASE CommandReturn(t)
      <3>1. /\ act[t].pc = "apply" /\ act' = [act EXCEPT ![t] = Idle]
            /\ UNCHANGED <<core, active, journal, sent, scenario>>
        BY <2>2 DEF CommandReturn, counters
      <3>2. UNCHANGED <<requests, reserved>> /\ Known' = Known
        BY <3>1 DEF core, Known
      <3>3. act'[t].pc = "idle" /\ \A b \in Actors : b # t => act'[b] = act[b]
        BY <1>0, <2>0, <3>1 DEF ActorTypes, Idle
      <3>4. act[t].pc \notin Busy /\ act'[t].pc \notin Busy
        BY <3>1, <3>3 DEF Busy, Committing
      <3> QED BY <1>0, <3>1, <3>2, <3>3, <3>4, QuietKeeps
    <2>3. SendStep(t) \/ FinishStep(t) \/ CommandApply(t) \/ CommandReturn(t)
      BY <1>2 DEF CommandStep, SendStep, FinishStep
    <2> QED BY <2>1, <2>2, <2>3, SendKeeps, FinishKeeps
  <1>3. CASE \E a \in Actors : CommitPersist(a) \/ CommitFails(a)
    BY <1>3, CommitPersistKeeps, CommitFailsKeeps
  <1>4. CASE LaneApply
    <2>1. /\ act["lane"].pc = "idle" /\ lane # <<>> /\ ApplyExecution("lane", Head(lane))
          /\ IF Records(Head(lane)) THEN act' = [act EXCEPT !["lane"].pc = "applied"] ELSE act' = act
          /\ UNCHANGED <<active, journal, sent, scenario>>
      BY <1>4 DEF LaneApply, counters, Goto
    <2>2. Head(lane) \in VenueReport /\ "lane" \in Actors
      BY <1>0, <2>1, HeadTailProperties, ActorFacts DEF VenueTypes
    <2>3. /\ act'["lane"].pc = IF Records(Head(lane)) THEN "applied" ELSE "idle"
          /\ \A b \in Actors : b # "lane" => act'[b] = act[b]
      <3>1. CASE Records(Head(lane))
        BY <1>0, <2>1, <2>2, <3>1 DEF ActorTypes, ActType
      <3>2. CASE ~Records(Head(lane))
        BY <2>1, <3>2
      <3> QED BY <3>1, <3>2
    <2>4. act["lane"].pc \notin Busy /\ "idle" \notin Busy
      BY <2>1 DEF Busy, Committing
    <2> QED BY <1>0, <2>1, <2>2, <2>3, <2>4, ApplyExecutionKeeps
  <1>5. CASE RecApply
    <2>0. R \in Actors /\ act[R].reports \in Seq(VenueReport)
      BY <1>0, ActorFacts DEF ActorTypes, ActType
    <2>1. /\ act[R].pc \in {"openApply", "answer"} /\ ApplyExecution(R, Head(act[R].reports))
          /\ act' = [act EXCEPT ![R].reports = Tail(@),
                        ![R].pc = IF Records(Head(act[R].reports)) THEN "applied" ELSE "judge"]
          /\ UNCHANGED <<active, journal, sent, scenario>>
      BY <1>5 DEF RecApply, Rec, RecKeeps, counters
    <2>2. act[R].reports # <<>>
      BY <1>0, <2>1 DEF CallTypes
    <2>3. Head(act[R].reports) \in VenueReport
      BY <2>0, <2>2, HeadTailProperties
    <2>4. /\ act'[R].pc = IF Records(Head(act[R].reports)) THEN "applied" ELSE "judge"
          /\ \A b \in Actors : b # R => act'[b] = act[b]
      BY <1>0, <2>0, <2>1 DEF ActorTypes, ActType
    <2>5. act[R].pc \notin Busy /\ "judge" \notin Busy
      BY <2>1 DEF Busy, Committing
    <2> QED BY <1>0, <2>0, <2>1, <2>3, <2>4, <2>5, ApplyExecutionKeeps
  <1>6. CASE RecNull
    <2>0. /\ R \in Actors /\ Known' = Known /\ rec.cid \in Cids
          /\ Unknowable(orders[rec.cid]) \in OrderType
      BY <1>0, <1>6, ActorFacts, RecNullTypes
    <2>1. /\ act[R].pc = "null" /\ Reserve(R, rec.cid, Unknowable(orders[rec.cid]), requests)
          /\ act' = [act EXCEPT ![R].pc = "applied"]
          /\ UNCHANGED <<requests, active, journal, sent, scenario>>
      BY <1>6 DEF RecNull, Rec, RecKeeps, counters, Goto
    <2>2. act'[R].pc = "applied" /\ \A b \in Actors : b # R => act'[b] = act[b]
      BY <1>0, <2>0, <2>1 DEF ActorTypes, ActType
    <2>3. act[R].pc \notin Busy
      BY <2>1 DEF Busy, Committing
    <2> QED BY <1>0, <2>0, <2>1, <2>2, <2>3, RecordKeeps
  <1>7. CASE \/ RecBegin \/ RecSnapshot \/ RecSnapshotFails \/ RecOpen \/ RecJudge
             \/ \E cid \in Cids : RecCandidate(cid)
             \/ RecQuery \/ RecQueryNull \/ RecQueryThrows \/ RecEnd
    <2>1. /\ UNCHANGED <<core, active, journal, sent, scenario>>
          /\ \A a \in Actors : a # R => act'[a] = act[a]
          /\ act[R].pc \notin Busy /\ act'[R].pc \notin Busy
      BY <1>0, <1>7, RecQuietTypes
    <2>2. UNCHANGED <<requests, reserved>> /\ Known' = Known
      BY <2>1 DEF core, Known
    <2> QED BY <1>0, <2>1, <2>2, QuietKeeps
  <1>8. CASE OutsideStep
    <2>1. UNCHANGED <<core, active, act, journal, sent, scenario>>
      BY <1>0, <1>8, OutsideStepTypes
    <2>2. UNCHANGED <<requests, reserved>> /\ Known' = Known
      BY <2>1 DEF core, Known
    <2> QED BY <1>0, <2>1, <2>2, QuietKeeps
  <1>9. CASE Crash
    BY <1>9, CrashKeeps
  <1>10. CASE UNCHANGED vars
    <2>1. UNCHANGED <<requests, reserved, active, act, journal, sent, scenario>> /\ Known' = Known
      BY <1>10 DEF vars, Known
    <2> QED BY <1>0, <2>1, QuietKeeps
  <1> QED BY <1>1, <1>2, <1>3, <1>4, <1>5, <1>6, <1>7, <1>8, <1>9, <1>10
          DEF Next, RecStep, OutsideStep

-----------------------------------------------------------------------------
(***************************************************************************)
(* The inductive invariant holds in every reachable state.                 *)
(***************************************************************************)
THEOREM GInvAlways == Spec => []GInv
  BY InitGInv, StepGInv, PTL DEF Spec

(***************************************************************************)
(* active_operations_: two commands are never in venue I/O for one order,  *)
(* for every number of threads, orders and commands, and an order marked   *)
(* active has a command that releases it unless an append has failed.      *)
(***************************************************************************)
THEOREM OneOperation == Spec => []OneOperationPerOrder
  <1>1. GInv => OneOperationPerOrder
    BY DEF GInv, CallInv
  <1> QED BY <1>1, GInvAlways, PTL

(***************************************************************************)
(* prepare_persist, commit_persist, replay_if_present, processed_requests: *)
(* what was given to an adapter is in the journal, although appends        *)
(* overtake each other, fail, or the process dies between any two steps;   *)
(* and no retry, concurrent or after a restart, and no other payload under *)
(* the same identifier, makes a second venue call.                         *)
(***************************************************************************)
THEOREM CommandsRoutedOnce == Spec => []RoutedOnce
  <1>1. GInv => RoutedOnce
    BY DEF GInv, SentInv, RoutedOnce
  <1> QED BY <1>1, GInvAlways, PTL

\* Only an append writes the journal.
LEMMA JournalWriters ==
    ASSUME [Next]_vars, ~\E a \in Actors : CommitPersist(a)
    PROVE  UNCHANGED journal
  <1>1. CASE \E t \in Threads, cmd \in Commands :
                \/ PlaceBegin(t, cmd) \/ PlaceReject(t, cmd)
                \/ CancelBegin(t, cmd) \/ AmendBegin(t, cmd)
    BY <1>1 DEF PlaceBegin, PlaceReject, CancelBegin, AmendBegin, Begin
  <1>2. CASE \E t \in Threads : CommandStep(t)
    <2>1. PICK t \in Threads : CommandStep(t)
      BY <1>2
    <2>2. CASE \E result : Answered(t, result)
      BY <2>2 DEF Answered
    <2>3. CASE \E order, outcome : Finish(t, order, outcome)
      BY <2>3 DEF Finish
    <2>4. CASE CommandApply(t) \/ CommandReturn(t)
      BY <2>4, SMTT(30) DEF CommandApply, CommandReturn
    <2>5. CASE SendStep(t)
      BY <2>2, <2>5 DEF SendStep, SendUncertain, SendRejected, PlaceAccepted, CancelAccepted,
           OkxAmendAccepted, OkxAmendMade, BinanceAmendAccepted, BinanceAmendHalfDone
    <2>6. CASE FinishStep(t)
      BY <2>3, <2>6 DEF FinishStep, PlaceFinish, CancelFinish, AmendFinish
    <2> QED BY <2>1, <2>4, <2>5, <2>6 DEF CommandStep, SendStep, FinishStep
  <1>3. CASE \E a \in Actors : CommitFails(a)
    BY <1>3 DEF CommitFails
  <1>4. CASE LaneApply
    BY <1>4, SMTT(30) DEF LaneApply
  <1>5. CASE RecBegin \/ RecStep
    BY <1>5 DEF RecBegin, RecStep, RecSnapshot, RecSnapshotFails, RecOpen, RecApply, RecJudge,
         RecCandidate, RecQuery, RecQueryNull, RecQueryThrows, RecNull, RecEnd, RecKeeps
  <1>6. CASE Disconnect \/ Connect \/ Crash
    BY <1>6 DEF Disconnect, Connect, Crash
  <1>7. CASE \E x \in ExchangeIds, n \in 1 .. PositionLimit : VenueFill(x, n)
    BY <1>7 DEF VenueFill
  <1>8. CASE \E r \in inflight : VenueArrive(r) \/ VenueLose(r)
    BY <1>8 DEF VenueArrive, VenueLose
  <1>9. CASE UNCHANGED vars
    BY <1>9 DEF vars
  <1> QED BY <1>1, <1>2, <1>3, <1>4, <1>5, <1>6, <1>7, <1>8, <1>9 DEF Next

(***************************************************************************)
(* The journal forgets no request that it has once held, in whatever order *)
(* the appends of concurrent operations reach it (the sequence numbers of  *)
(* prepare_persist).                                                       *)
(***************************************************************************)
JournalKeepsRequests == [][\A k \in Commands : Logged(k) => Logged(k)']_vars

\* No step of the gateway, a restart included, loses a request from the journal.
THEOREM JournalForgetsNothing == Spec => JournalKeepsRequests
  <1>1. GInv /\ GInv' /\ [Next]_vars => [\A k \in Commands : Logged(k) => Logged(k)']_vars
    <2> SUFFICES ASSUME GInv, GInv', [Next]_vars
                 PROVE  \A k \in Commands : Logged(k) => Logged(k)'
      OBVIOUS
    <2>1. CASE \E a \in Actors : CommitPersist(a)
      <3>1. PICK i \in DOMAIN reserved : Journaled(i)
        BY <2>1 DEF CommitPersist
      <3>2. scenario' = scenario /\ requests' = requests
        BY <2>1 DEF CommitPersist, counters
      <3> QED BY <3>1, <3>2, AppendKeeps DEF GInv
    <2>2. CASE ~\E a \in Actors : CommitPersist(a)
      <3>1. UNCHANGED journal
        BY <2>2, JournalWriters
      <3> QED BY <3>1 DEF Logged, Noted, Has
    <2> QED BY <2>1, <2>2
  <1> QED BY <1>1, GInvAlways, PTL DEF Spec, JournalKeepsRequests

-----------------------------------------------------------------------------
(***************************************************************************)
(* The position.  What the constructor's loop computes is settled by least *)
(* counterexamples: the loop has a value for every number of orders, and   *)
(* an order that changes moves every partial sum behind it by the          *)
(* difference of its contributions.                                        *)
(***************************************************************************)
LEMMA LeastNat ==
    ASSUME NEW T \in SUBSET Nat, T # {}
    PROVE  \E n \in T : \A m \in T : n <= m
  <1>1. PICK less : less = OpToRel(<, Nat)
    OBVIOUS
  <1>2. IsWellFoundedOn(less, Nat)
    BY <1>1, NatLessThanWellFounded
  <1>3. \A v, w \in Nat : v < w => <<v, w>> \in less
    BY <1>1 DEF OpToRel
  <1>4. PICK n \in T : \A m \in T : ~(<<m, n>> \in less)
    BY <1>2, WFMin
  <1>5. \A m \in T : n <= m
    <2> SUFFICES ASSUME NEW m \in T PROVE n <= m
      OBVIOUS
    <2>1. n \in Nat /\ m \in Nat
      OBVIOUS
    <2>2. ~(m < n)
      BY <1>3, <1>4, <2>1
    <2> QED BY <2>1, <2>2
  <1> QED BY <1>5

\* A function that adds up the first k members of a sequence exists.
LEMMA SumOf ==
    ASSUME NEW g, NEW k \in Nat
    PROVE  \E f : f = [n \in 0 .. k |-> IF n = 0 THEN 0 ELSE f[n - 1] + g[n]]
  <1>1. PICK bad : bad = {n \in Nat : ~\E f : f = [m \in 0 .. n |-> IF m = 0 THEN 0 ELSE f[m - 1] + g[m]]}
    OBVIOUS
  <1>2. SUFFICES ASSUME bad # {} PROVE FALSE
    BY <1>1
  <1>3. PICK n \in bad : \A m \in bad : n <= m
    BY <1>1, <1>2, LeastNat
  <1>4. n \in Nat /\ ~\E f : f = [m \in 0 .. n |-> IF m = 0 THEN 0 ELSE f[m - 1] + g[m]]
    BY <1>1, <1>3
  <1>5. CASE n = 0
    <2>1. PICK f : f = [m \in 0 .. 0 |-> 0]
      OBVIOUS
    <2>2. f = [m \in 0 .. 0 |-> IF m = 0 THEN 0 ELSE f[m - 1] + g[m]]
      BY <2>1
    <2> QED BY <2>2, <1>4, <1>5
  <1>6. CASE n # 0
    <2>1. n - 1 \in Nat /\ n - 1 \notin bad
      BY <1>3, <1>4, <1>6
    <2>2. PICK f : f = [m \in 0 .. n - 1 |-> IF m = 0 THEN 0 ELSE f[m - 1] + g[m]]
      BY <2>1, <1>1
    <2>3. PICK h : h = [m \in 0 .. n |-> IF m = n THEN f[n - 1] + g[n] ELSE f[m]]
      OBVIOUS
    <2>4. \A m \in 0 .. n - 1 : f[m] = IF m = 0 THEN 0 ELSE f[m - 1] + g[m]
      BY <2>2
    <2>5. \A m \in 0 .. n : h[m] = IF m = 0 THEN 0 ELSE h[m - 1] + g[m]
      BY <2>3, <2>4, <1>4, <1>6
    <2>6. h = [m \in 0 .. n |-> IF m = 0 THEN 0 ELSE h[m - 1] + g[m]]
      BY <2>3, <2>5
    <2> QED BY <2>6, <1>4
  <1> QED BY <1>5, <1>6, <1>4

\* The contribution of the n-th order, and a function that adds up the first k of them.
Nth(book, n) == Contribution(SetToSeq(Cids)[n], book[SetToSeq(Cids)[n]])
AddsUp(f, book, k) == f = [n \in 0 .. k |-> IF n = 0 THEN 0 ELSE f[n - 1] + Nth(book, n)]

LEMMA SumExists ==
    ASSUME NEW book, NEW k \in Nat
    PROVE  \E f : AddsUp(f, book, k)
  <1>1. PICK g : g = [n \in 1 .. k |-> Nth(book, n)]
    OBVIOUS
  <1>2. PICK f : f = [n \in 0 .. k |-> IF n = 0 THEN 0 ELSE f[n - 1] + g[n]]
    BY SumOf
  <1>3. \A n \in 0 .. k : f[n] = IF n = 0 THEN 0 ELSE f[n - 1] + g[n]
    BY <1>2
  <1>4. \A n \in 0 .. k : n # 0 => g[n] = Nth(book, n)
    BY <1>1
  <1>5. \A n \in 0 .. k : f[n] = IF n = 0 THEN 0 ELSE f[n - 1] + Nth(book, n)
    BY <1>3, <1>4
  <1> QED BY <1>2, <1>5 DEF AddsUp

LEMMA TotalsAddUp ==
    ASSUME NEW book
    PROVE  AddsUp(Totals(book), book, Cardinality(Cids))
  <1>1. \E f : AddsUp(f, book, Cardinality(Cids))
    BY SumExists, GatewayAssumption, FS_CardinalityType
  <1>2. Totals(book) = CHOOSE f : AddsUp(f, book, Cardinality(Cids))
    BY DEF Totals, AddsUp, Nth
  <1> QED BY <1>1, <1>2

\* Every order is added exactly once.
LEMMA OrderOfCids ==
    /\ Cardinality(Cids) \in Nat
    /\ SetToSeq(Cids) \in [1 .. Cardinality(Cids) -> Cids]
    /\ \A cid \in Cids : \E j \in 1 .. Cardinality(Cids) :
          /\ SetToSeq(Cids)[j] = cid
          /\ \A i \in 1 .. Cardinality(Cids) : SetToSeq(Cids)[i] = cid => i = j
  <1>1. Cardinality(Cids) \in Nat /\ ExistsBijection(1 .. Cardinality(Cids), Cids)
    BY GatewayAssumption, FS_CardinalityType
  <1>2. \E f \in [1 .. Cardinality(Cids) -> Cids] : IsInjective(f)
    BY <1>1 DEF ExistsBijection, Bijection, Injection
  <1>3. PICK s : s = SetToSeq(Cids)
    OBVIOUS
  <1>4. s \in [1 .. Cardinality(Cids) -> Cids] /\ IsInjective(s)
    BY <1>2, <1>3 DEF SetToSeq
  <1>5. s \in Injection(1 .. Cardinality(Cids), Cids)
    BY <1>4 DEF Injection
  <1>6. IsFiniteSet(1 .. Cardinality(Cids)) /\ Cardinality(1 .. Cardinality(Cids)) = Cardinality(Cids)
    BY <1>1, FS_Interval
  <1>7. s \in Surjection(1 .. Cardinality(Cids), Cids)
    BY <1>1, <1>5, <1>6, FS_Injection, GatewayAssumption
  <1>8. \A cid \in Cids : \E j \in 1 .. Cardinality(Cids) : s[j] = cid
    BY <1>7 DEF Surjection
  <1>9. \A i, j \in 1 .. Cardinality(Cids) : s[i] = s[j] => i = j
    BY <1>4 DEF IsInjective
  <1> QED BY <1>1, <1>3, <1>4, <1>8, <1>9

LEMMA ContributionType ==
    ASSUME NEW cid \in Cids, NEW order \in OrderType \cup {None}
    PROVE  Contribution(cid, order) \in Int
  BY NoneAssumption DEF Contribution, Signed, OrderType

LEMMA TotalsType ==
    ASSUME NEW book \in [Cids -> OrderType \cup {None}], NEW k \in 0 .. Cardinality(Cids)
    PROVE  Totals(book)[k] \in Int
  <1>1. PICK f, N : f = Totals(book) /\ N = Cardinality(Cids)
    OBVIOUS
  <1>2. N \in Nat /\ \A n \in 0 .. N : f[n] = IF n = 0 THEN 0 ELSE f[n - 1] + Nth(book, n)
    BY <1>1, TotalsAddUp, OrderOfCids DEF AddsUp
  <1>3. \A n \in 1 .. N : Nth(book, n) \in Int
    BY <1>1, OrderOfCids, ContributionType DEF Nth
  <1>4. PICK bad : bad = {n \in 0 .. N : f[n] \notin Int}
    OBVIOUS
  <1>5. CASE bad # {}
    <2>1. PICK n \in bad : \A m \in bad : n <= m
      BY <1>2, <1>4, <1>5, LeastNat, SMTT(30)
    <2>2. n \in 0 .. N /\ n # 0 /\ n - 1 \in 0 .. N /\ n - 1 \notin bad
      BY <1>2, <1>4, <2>1
    <2>3. f[n - 1] \in Int
      BY <1>4, <2>2
    <2> QED BY <1>2, <1>3, <1>4, <2>1, <2>2, <2>3
  <1> QED BY <1>1, <1>4, <1>5

\* One order changes: the sum moves by the difference of its contributions.
LEMMA ExposureMoves ==
    ASSUME NEW book \in [Cids -> OrderType \cup {None}], NEW cid \in Cids,
           NEW order \in OrderType \cup {None}
    PROVE  Exposure([book EXCEPT ![cid] = order]) - Exposure(book)
              = Contribution(cid, order) - Contribution(cid, book[cid])
  <1>1. PICK after, f, g, N, d :
              /\ after = [book EXCEPT ![cid] = order]
              /\ f = Totals(book) /\ g = Totals(after) /\ N = Cardinality(Cids)
              /\ d = Contribution(cid, order) - Contribution(cid, book[cid])
    OBVIOUS
  <1>2. after \in [Cids -> OrderType \cup {None}] /\ N \in Nat
    BY <1>1, OrderOfCids
  <1>3. \A n \in 0 .. N : f[n] = IF n = 0 THEN 0 ELSE f[n - 1] + Nth(book, n)
    BY <1>1, TotalsAddUp DEF AddsUp
  <1>4. \A n \in 0 .. N : g[n] = IF n = 0 THEN 0 ELSE g[n - 1] + Nth(after, n)
    BY <1>1, TotalsAddUp DEF AddsUp
  <1>5. \A n \in 0 .. N : f[n] \in Int /\ g[n] \in Int
    BY <1>1, <1>2, TotalsType
  <1>6. d \in Int
    BY <1>1, ContributionType
  <1>7. PICK j \in 1 .. N : /\ SetToSeq(Cids)[j] = cid
                            /\ \A i \in 1 .. N : SetToSeq(Cids)[i] = cid => i = j
    BY <1>1, OrderOfCids
  <1>8. \A n \in 1 .. N : Nth(book, n) \in Int /\ Nth(after, n) \in Int
    BY <1>1, <1>2, OrderOfCids, ContributionType DEF Nth
  <1>9. \A n \in 1 .. N : Nth(after, n) = IF n = j THEN Nth(book, n) + d ELSE Nth(book, n)
    <2> SUFFICES ASSUME NEW n \in 1 .. N
                 PROVE  Nth(after, n) = IF n = j THEN Nth(book, n) + d ELSE Nth(book, n)
      OBVIOUS
    <2>1. SetToSeq(Cids)[n] \in Cids
      BY <1>1, OrderOfCids
    <2>2. CASE n = j
      <3>1. Nth(after, n) = Contribution(cid, order) /\ Nth(book, n) = Contribution(cid, book[cid])
        BY <1>1, <1>7, <2>2 DEF Nth
      <3>2. Contribution(cid, order) \in Int /\ Contribution(cid, book[cid]) \in Int
        BY ContributionType
      <3> QED BY <1>1, <2>2, <3>1, <3>2
    <2>3. CASE n # j
      BY <1>1, <1>7, <2>1, <2>3 DEF Nth
    <2> QED BY <2>2, <2>3
  <1>10. PICK bad : bad = {n \in 0 .. N : g[n] # f[n] + (IF n >= j THEN d ELSE 0)}
    OBVIOUS
  <1>11. bad = {}
    <2>0. SUFFICES ASSUME bad # {} PROVE FALSE
      OBVIOUS
    <2>1. PICK n \in bad : \A m \in bad : n <= m
      BY <1>2, <1>10, <2>0, LeastNat
    <2>2. n \in 0 .. N /\ g[n] # f[n] + (IF n >= j THEN d ELSE 0)
      BY <1>10, <2>1
    <2>3. n # 0
      BY <1>3, <1>4, <1>7, <2>2
    <2>4. n - 1 \in 0 .. N /\ n - 1 \notin bad
      BY <1>2, <1>10, <2>1, <2>2, <2>3
    <2>5. g[n - 1] = f[n - 1] + (IF n - 1 >= j THEN d ELSE 0)
      BY <1>10, <2>4
    <2>6. g[n] = g[n - 1] + Nth(after, n) /\ f[n] = f[n - 1] + Nth(book, n) /\ n \in 1 .. N
      BY <1>2, <1>3, <1>4, <2>2, <2>3
    <2>7. f[n - 1] \in Int /\ g[n - 1] \in Int /\ Nth(book, n) \in Int
      BY <1>5, <1>8, <2>4, <2>6
    <2> QED BY <1>6, <1>7, <1>9, <2>2, <2>5, <2>6, <2>7
  <1>12. g[N] = f[N] + d
    BY <1>2, <1>7, <1>10, <1>11
  <1> QED BY <1>1, <1>2, <1>5, <1>6, <1>12 DEF Exposure

\* What a step does to the book and the position.
Untouched == orders' = orders /\ position' = position /\ UNCHANGED <<crashes, scenario>>
Adjusted ==
    \E cid \in Cids, order \in OrderType :
        /\ orders' = [orders EXCEPT ![cid] = order]
        /\ position' = position + Contribution(cid, order) - Contribution(cid, orders[cid])
        /\ UNCHANGED <<crashes, scenario>>

LEMMA UpdateAdjusts ==
    ASSUME NEW a, NEW cid \in Cids, NEW order \in OrderType, NEW outcomes,
           Update(a, cid, order, outcomes), UNCHANGED <<crashes, scenario>>
    PROVE  Adjusted
  BY DEF Update, Adjusted

LEMMA ApplyExecutionAdjusts ==
    ASSUME TInv, NEW a, NEW report \in VenueReport, ApplyExecution(a, report), UNCHANGED <<crashes, scenario>>
    PROVE  Adjusted \/ Untouched
  <1>1. CASE Records(report)
    <2>1. Owner(report) \in Cids /\ orders[Owner(report)] \in OrderType
      BY <1>1, OwnerKnown DEF Records, Known, TInv, OrderTypes
    <2>2. Apply(orders[Owner(report)], report) \in OrderType
      BY <2>1, ApplyType, VenueReportType
    <2>3. Update(a, Owner(report), Apply(orders[Owner(report)], report), requests)
      BY <1>1 DEF ApplyExecution
    <2> QED BY <2>1, <2>2, <2>3, UpdateAdjusts
  <1>2. CASE ~Records(report)
    BY <1>2 DEF ApplyExecution, core, Untouched
  <1> QED BY <1>1, <1>2

LEMMA StepAdjusts ==
    ASSUME TInv, [Next]_vars
    PROVE  Untouched \/ Adjusted \/ RecNull \/ Crash
  <1>0. ActorTypes /\ VenueTypes /\ CallTypes /\ scenario \in Scenarios
    BY DEF TInv, HistoryTypes
  <1>1. ASSUME NEW t \in Threads, NEW cmd \in Commands,
               \/ PlaceBegin(t, cmd) \/ PlaceReject(t, cmd)
               \/ CancelBegin(t, cmd) \/ AmendBegin(t, cmd)
        PROVE  Adjusted
    <2>1. cmd.cid \in Cids
      BY <1>0, CommandFacts
    <2>2. PICK pc \in {"intent", "rejected"}, o \in OrderType, q \in [Commands -> Outcomes] :
             Update(t, cmd.cid, o, q) /\ Begin(t, cmd, pc)
      BY <1>1, BeginFacts
    <2>3. UNCHANGED <<crashes, scenario>>
      BY <2>2 DEF Begin
    <2> QED BY <2>1, <2>2, <2>3, UpdateAdjusts
  <1>2. ASSUME NEW t \in Threads, CommandStep(t) PROVE Adjusted \/ Untouched
    <2>1. CASE SendStep(t)
      <3>1. PICK result : Answered(t, result)
        BY <2>1 DEF SendStep, SendUncertain, SendRejected, PlaceAccepted, CancelAccepted,
             OkxAmendAccepted, OkxAmendMade, BinanceAmendAccepted, BinanceAmendHalfDone
      <3> QED BY <3>1, SMTT(30) DEF Answered, core, Untouched
    <2>2. CASE FinishStep(t)
      <3>1. act[t].pc = "finish" /\ \E order \in OrderType : \E outcome : Finish(t, order, outcome)
        BY <2>2, FinishTypes
      <3>2. PICK order \in OrderType : \E outcome : Finish(t, order, outcome)
        BY <3>1
      <3>3. act[t].cmd.cid \in Cids
        BY <1>0, <3>1 DEF CallTypes, InVenueCall, Known
      <3>4. /\ \E outcomes : Update(t, act[t].cmd.cid, order, outcomes)
            /\ UNCHANGED <<crashes, scenario>>
        BY <3>2 DEF Finish, counters
      <3>5. PICK outcomes : Update(t, act[t].cmd.cid, order, outcomes)
        BY <3>4
      <3> QED BY <3>3, <3>4, <3>5, UpdateAdjusts
    <2>3. CASE CommandApply(t)
      <3>1. /\ act[t].reports # <<>> /\ ApplyExecution(t, Head(act[t].reports))
            /\ UNCHANGED <<crashes, scenario>>
        BY <2>3 DEF CommandApply, counters
      <3>2. act[t].reports \in Seq(VenueReport)
        BY <1>0, ActorFacts DEF ActorTypes, ActType
      <3>3. Head(act[t].reports) \in VenueReport
        BY <3>1, <3>2, HeadTailProperties
      <3> QED BY <3>1, <3>3, ApplyExecutionAdjusts
    <2>4. CASE CommandReturn(t)
      BY <2>4 DEF CommandReturn, core, counters, Untouched
    <2> QED BY <1>2, <2>1, <2>2, <2>3, <2>4 DEF CommandStep, SendStep, FinishStep
  <1>3. CASE \E a \in Actors : CommitPersist(a) \/ CommitFails(a)
    BY <1>3 DEF CommitPersist, CommitFails, counters, Untouched
  <1>4. CASE LaneApply
    <2>1. lane # <<>> /\ ApplyExecution("lane", Head(lane)) /\ UNCHANGED <<crashes, scenario>>
      BY <1>4 DEF LaneApply, counters
    <2>2. Head(lane) \in VenueReport
      BY <1>0, <2>1, HeadTailProperties DEF VenueTypes
    <2> QED BY <2>1, <2>2, ApplyExecutionAdjusts
  <1>5. CASE RecApply
    <2>1. /\ act[R].pc \in {"openApply", "answer"} /\ ApplyExecution(R, Head(act[R].reports))
          /\ UNCHANGED <<crashes, scenario>>
      BY <1>5 DEF RecApply, Rec, RecKeeps, counters
    <2>2. act[R].reports # <<>> /\ act[R].reports \in Seq(VenueReport)
      BY <1>0, <2>1, ActorFacts DEF CallTypes, ActorTypes, ActType
    <2>3. Head(act[R].reports) \in VenueReport
      BY <2>2, HeadTailProperties
    <2> QED BY <2>1, <2>3, ApplyExecutionAdjusts
  <1>6. CASE \/ RecBegin \/ RecSnapshot \/ RecSnapshotFails \/ RecOpen \/ RecJudge
             \/ \E cid \in Cids : RecCandidate(cid)
             \/ RecQuery \/ RecQueryNull \/ RecQueryThrows
    <2>1. OrdersKept /\ RecKeeps
      BY <1>6 DEF RecBegin, RecSnapshot, RecSnapshotFails, RecOpen, RecJudge, RecCandidate,
           RecQuery, RecQueryNull, RecQueryThrows
    <2> QED BY <2>1, SMTT(30) DEF OrdersKept, RecKeeps, core, counters, Untouched
  <1>7. CASE RecEnd
    BY <1>7 DEF RecEnd, core, counters, Untouched
  <1>8. CASE Disconnect \/ Connect
    BY <1>8 DEF Disconnect, Connect, core, counters, Untouched
  <1>9. CASE \E x \in ExchangeIds, n \in 1 .. PositionLimit : VenueFill(x, n)
    BY <1>9 DEF VenueFill, core, counters, Untouched
  <1>10. CASE \E r \in inflight : VenueArrive(r) \/ VenueLose(r)
    BY <1>10 DEF VenueArrive, VenueLose, core, counters, Untouched
  <1>11. CASE UNCHANGED vars
    BY <1>11 DEF vars, Untouched
  <1> QED BY <1>1, <1>2, <1>3, <1>4, <1>5, <1>6, <1>7, <1>8, <1>9, <1>10, <1>11
          DEF Next, RecStep

\* A pass that finds nothing leaves the contribution of an order that was open alone.
LEMMA RecNullKeeps ==
    ASSUME TInv, RecNull
    PROVE  /\ UNCHANGED <<crashes, scenario>> /\ position' = position
           /\ ReopensTerminal \/ Exposure(orders') - Exposure(orders) = 0
  <1>1. /\ act[R].pc = "null" /\ act' = [act EXCEPT ![R].pc = "applied"]
        /\ orders' = [orders EXCEPT ![rec.cid] = Unknowable(orders[rec.cid])]
        /\ UNCHANGED <<crashes, scenario>> /\ position' = position
    BY DEF RecNull, Rec, RecKeeps, counters, Goto
  <1>2. act'[R].pc = "applied"
    BY <1>1, ActorFacts DEF TInv, ActorTypes, ActType
  <1>3. rec.cid \in Cids /\ orders[rec.cid] \in OrderType
    BY <1>1 DEF TInv, CallTypes, Known, OrderTypes
  <1>4. CASE IsTerminal(orders[rec.cid].status)
    BY <1>1, <1>2, <1>4 DEF ReopensTerminal
  <1>5. CASE ~IsTerminal(orders[rec.cid].status)
    <2>1. PICK o, u : o = orders[rec.cid] /\ u = Unknowable(o)
      OBVIOUS
    <2>2. /\ o \in OrderType /\ u \in OrderType /\ u.quantity = o.quantity
          /\ u.status = "Unknown"
      BY <1>3, <2>1, ZenonT(60) DEF Unknowable, OrderType, Statuses, PendingActions
    <2>3. o # None /\ u # None
      BY <2>2, NoneAssumption
    <2>4. Contribution(rec.cid, u) = Contribution(rec.cid, o)
      BY <1>5, <2>1, <2>2, <2>3 DEF Contribution, IsTerminal
    <2>5. Contribution(rec.cid, o) \in Int
      BY <1>3, <2>2, ContributionType
    <2>6. Exposure(orders') - Exposure(orders)
            = Contribution(rec.cid, u) - Contribution(rec.cid, o)
      BY <1>1, <1>3, <2>1, <2>2, ExposureMoves DEF TInv, OrderTypes
    <2> QED BY <1>1, <2>4, <2>5, <2>6
  <1> QED BY <1>1, <1>4, <1>5

LEMMA StepMovesPosition ==
    ASSUME TInv, TInv', position \in Int, crashes \in Nat, [Next]_vars
    PROVE  /\ position' \in Int /\ crashes' \in Nat /\ scenario' = scenario
           /\ IF crashes' = crashes
              THEN ReopensTerminal \/ position' - position = Exposure(orders') - Exposure(orders)
              ELSE position' = Exposure(orders')
  <1>0. /\ orders \in [Cids -> OrderType \cup {None}] /\ orders' \in [Cids -> OrderType \cup {None}]
        /\ Exposure(orders) \in Int /\ Exposure(orders') \in Int
    <2>1. orders \in [Cids -> OrderType \cup {None}] /\ orders' \in [Cids -> OrderType \cup {None}]
      BY DEF TInv, OrderTypes
    <2>2. Cardinality(Cids) \in 0 .. Cardinality(Cids)
      BY OrderOfCids
    <2> QED BY <2>1, <2>2, TotalsType DEF Exposure
  <1>1. CASE Untouched
    BY <1>0, <1>1 DEF Untouched
  <1>2. CASE Adjusted
    <2>1. PICK cid \in Cids, order \in OrderType :
             /\ orders' = [orders EXCEPT ![cid] = order]
             /\ position' = position + Contribution(cid, order) - Contribution(cid, orders[cid])
             /\ UNCHANGED <<crashes, scenario>>
      BY <1>2 DEF Adjusted
    <2>2. Contribution(cid, order) \in Int /\ Contribution(cid, orders[cid]) \in Int
      BY <1>0, ContributionType
    <2>3. Exposure(orders') - Exposure(orders)
            = Contribution(cid, order) - Contribution(cid, orders[cid])
      BY <1>0, <2>1, ExposureMoves
    <2> QED BY <2>1, <2>2, <2>3
  <1>3. CASE RecNull
    BY <1>3, RecNullKeeps
  <1>4. CASE Crash
    <2>1. position' = Exposure(orders')
      BY <1>4 DEF Crash
    <2>2. crashes' = crashes + 1 /\ scenario' = scenario
      BY <1>4 DEF Crash
    <2> QED BY <1>0, <2>1, <2>2
  <1> QED BY <1>1, <1>2, <1>3, <1>4, StepAdjusts

\* The parts of the state that the typing of the rest does not need.
FlagTypes == position \in Int /\ crashes \in Nat /\ {connected, ever, serving} \subseteq BOOLEAN

LEMMA StepFlags ==
    ASSUME TInv, TInv', FlagTypes, [Next]_vars
    PROVE  FlagTypes'
  <1>1. position' \in Int /\ crashes' \in Nat
    BY StepMovesPosition DEF FlagTypes
  <1>2. CASE UNCHANGED <<connected, ever, serving>>
    BY <1>1, <1>2 DEF FlagTypes
  <1>3. CASE RecEnd \/ Disconnect \/ Connect \/ Crash
    BY <1>1, <1>3 DEF FlagTypes, RecEnd, Disconnect, Connect, Crash
  <1>4. CASE \E t \in Threads, cmd \in Commands :
                \/ PlaceBegin(t, cmd) \/ PlaceReject(t, cmd)
                \/ CancelBegin(t, cmd) \/ AmendBegin(t, cmd)
    BY <1>2, <1>4 DEF PlaceBegin, PlaceReject, CancelBegin, AmendBegin, Begin, health
  <1>5. ASSUME NEW t \in Threads, CommandStep(t) PROVE FlagTypes'
    <2>1. CASE \E result : Answered(t, result)
      BY <1>2, <2>1 DEF Answered
    <2>2. CASE \E order, outcome : Finish(t, order, outcome)
      BY <1>2, <2>2 DEF Finish
    <2>3. CASE CommandApply(t)
      BY <1>2, <2>3 DEF CommandApply
    <2>4. CASE CommandReturn(t)
      BY <1>2, <2>4, SMTT(30) DEF CommandReturn, health
    <2>5. CASE SendStep(t)
      BY <2>1, <2>5 DEF SendStep, SendUncertain, SendRejected, PlaceAccepted, CancelAccepted,
           OkxAmendAccepted, OkxAmendMade, BinanceAmendAccepted, BinanceAmendHalfDone
    <2>6. CASE FinishStep(t)
      BY <2>2, <2>6 DEF FinishStep, PlaceFinish, CancelFinish, AmendFinish
    <2> QED BY <1>5, <2>3, <2>4, <2>5, <2>6 DEF CommandStep, SendStep, FinishStep
  <1>6. CASE \E a \in Actors : CommitPersist(a) \/ CommitFails(a)
    BY <1>2, <1>6 DEF CommitPersist, CommitFails, health
  <1>7. CASE LaneApply
    BY <1>2, <1>7 DEF LaneApply
  <1>8. CASE \/ RecBegin \/ RecSnapshot \/ RecSnapshotFails \/ RecOpen \/ RecJudge \/ RecApply
             \/ \E cid \in Cids : RecCandidate(cid)
             \/ RecQuery \/ RecQueryNull \/ RecQueryThrows \/ RecNull
    <2>1. RecKeeps
      BY <1>8 DEF RecBegin, RecSnapshot, RecSnapshotFails, RecOpen, RecJudge, RecApply, RecCandidate,
           RecQuery, RecQueryNull, RecQueryThrows, RecNull
    <2> QED BY <1>2, <2>1, SMTT(30) DEF RecKeeps
  <1>9. CASE \E x \in ExchangeIds, n \in 1 .. PositionLimit : VenueFill(x, n)
    BY <1>2, <1>9 DEF VenueFill
  <1>10. CASE \E r \in inflight : VenueArrive(r) \/ VenueLose(r)
    BY <1>2, <1>10 DEF VenueArrive, VenueLose, health
  <1>11. CASE UNCHANGED vars
    BY <1>2, <1>11 DEF vars
  <1> QED BY <1>3, <1>4, <1>5, <1>6, <1>7, <1>8, <1>9, <1>10, <1>11 DEF Next, RecStep

(***************************************************************************)
(* The types of the gateway's state, whatever the venue answers and        *)
(* whenever the process dies; the lane never holds more than it has room   *)
(* for (SpscExecutionLane in receive_execution).                           *)
(***************************************************************************)
THEOREM GatewayTyped == Spec => []TypeOK
  <1>1. Init => FlagTypes
    BY DEF Init, FlagTypes
  <1>2. GInv /\ GInv' /\ FlagTypes /\ [Next]_vars => FlagTypes'
    BY StepFlags DEF GInv
  <1>3. GInv /\ FlagTypes => TypeOK
    <2> SUFFICES ASSUME TInv, FlagTypes PROVE TypeOK
      BY DEF GInv
    <2>0. scenario \in Scenarios /\ LaneCapacity \in Nat /\ Len(lane) \in Nat
      BY CommandFacts DEF TInv, HistoryTypes, VenueTypes
    <2>1. \A cid \in Cids : \A i \in DOMAIN deferred[cid] : deferred[cid][i] \in ReportType
      BY VenueReportType DEF TInv, ActorTypes
    <2>2. \A i \in DOMAIN lane : lane[i] \in ReportType
      BY VenueReportType DEF TInv, VenueTypes
    <2>3. Len(lane) <= LaneCapacity
      BY <2>0 DEF TInv, VenueTypes
    <2>4. DOMAIN act = Actors /\ \A a \in Actors : act[a].pc \in Steps /\ act[a].cmd \in Commands \cup {None}
      BY DEF TInv, ActorTypes, ActType
    <2>5. active \subseteq Cids
      BY DEF TInv, ActorTypes
    <2>6. {reconReq, connected, ever, serving} \subseteq BOOLEAN
      BY DEF TInv, VenueTypes, FlagTypes
    <2>7. \A x \in ExchangeIds : venue[x] \in PhysType \cup {None}
      BY DEF TInv, VenueTypes
    <2>8. \A cid \in Cids : journal[cid] \in JournalType(Commands, cid) \cup {None}
      BY DEF TInv, JournalTypes
    <2>9. orders \in [Cids -> OrderType \cup {None}] /\ requests \in [Commands -> Outcomes]
      BY DEF TInv, OrderTypes
    <2> QED BY <2>1, <2>2, <2>3, <2>4, <2>5, <2>6, <2>7, <2>8, <2>9 DEF TypeOK, FlagTypes
  <1> QED BY <1>1, <1>2, <1>3, GInvAlways, PTL DEF Spec

(***************************************************************************)
(* The position that adjust_position_locked maintains by differences is    *)
(* the sum over the book, for every number of orders and threads and every *)
(* interleaving; a restart computes it anew, and the only step that        *)
(* forgets a difference is the one of reconcile that the property names.   *)
(***************************************************************************)
THEOREM PositionIsKept == Spec => PositionKept
  <1>1. Init => FlagTypes
    BY DEF Init, FlagTypes
  <1>2. GInv /\ GInv' /\ FlagTypes /\ [Next]_vars => FlagTypes'
    BY StepFlags DEF GInv
  <1>3. GInv /\ GInv' /\ FlagTypes /\ [Next]_vars
        => [IF crashes' = crashes
            THEN ReopensTerminal \/ position' - position = Exposure(orders)' - Exposure(orders)
            ELSE position' = Exposure(orders)']_vars
    <2> SUFFICES ASSUME GInv, GInv', FlagTypes, [Next]_vars
                 PROVE  IF crashes' = crashes
                        THEN ReopensTerminal \/ position' - position = Exposure(orders)' - Exposure(orders)
                        ELSE position' = Exposure(orders)'
      OBVIOUS
    <2>1. Exposure(orders)' = Exposure(orders')
      <3>1. scenario' = scenario
        BY StepMovesPosition DEF GInv, FlagTypes
      <3> QED BY <3>1 DEF Exposure, Totals, Contribution, SideOf
    <2> QED BY <2>1, StepMovesPosition DEF GInv, FlagTypes
  <1> QED BY <1>1, <1>2, <1>3, GInvAlways, PTL DEF Spec, PositionKept
-----------------------------------------------------------------------------
(***************************************************************************)
(* What an accepted order is worth, for every scale, width and limit:      *)
(* Decimal's multiplication cuts digits off, so a comparison of the        *)
(* product is not the comparison of the exact value.                       *)
(***************************************************************************)

\* A product that is cut off to at most m is less than one unit above m.
LEMMA CutFromAbove ==
    ASSUME NEW n \in Nat, NEW m \in Int, n \div Scale <= m
    PROVE  n < (m + 1) * Scale
BY DecimalAssumption, SMTT(30)

\* A product that is cut off to at least m is at least m.
LEMMA CutFromBelow ==
    ASSUME NEW n \in Nat, NEW m \in Int, n \div Scale >= m
    PROVE  n >= m * Scale
BY DecimalAssumption, SMTT(30)

\* The product of two numbers that are not negative.
LEMMA TimesNat ==
    ASSUME NEW a \in Nat, NEW b \in Nat
    PROVE  a * b \in Nat /\ Times(a, b) = (a * b) \div Scale
<1>1. a * b \in Nat
  OBVIOUS
<1>2. QED
  BY <1>1 DEF Times

(***************************************************************************)
(* RiskManager::validate: an accepted quantity is positive and within the  *)
(* size limit, its exact notional value stays less than one unit above the *)
(* limit, and the position it may lead to is within the position limit.    *)
(***************************************************************************)
THEOREM ValidatedKeepsLimits ==
    ASSUME NEW limits, NEW side, NEW price \in Nat, NEW quantity \in Nat, NEW held \in Int,
           limits.maxNotional \in Nat, limits.maxOrderSize \in Nat,
           Validate(limits, side, price, quantity, held) = "accept"
    PROVE  /\ quantity > 0 /\ quantity <= limits.maxOrderSize
           /\ quantity * price < (limits.maxNotional + 1) * Scale
           /\ Abs(held + Signed(side, quantity)) <= limits.position
<1> DEFINE exact == quantity * price
           projected == held + Signed(side, quantity)
<1>1. /\ ~(limits = None \/ quantity <= 0 \/ quantity > limits.maxOrderSize \/ price = None)
      /\ ~(Times(quantity, price) > limits.maxNotional)
      /\ Abs(projected) <= limits.position
  BY DEF Validate, Require
<1>2. quantity > 0 /\ quantity <= limits.maxOrderSize
  BY <1>1
<1>3. exact \in Nat /\ exact \div Scale <= limits.maxNotional
  <2>1. exact \in Nat /\ Times(quantity, price) = exact \div Scale
    BY TimesNat
  <2> HIDE DEF exact
  <2>2. exact \div Scale \in Int
    BY <2>1, DecimalAssumption
  <2>3. QED
    BY <1>1, <2>1, <2>2
<1>4. exact < (limits.maxNotional + 1) * Scale
  <2> HIDE DEF exact
  <2> QED  BY <1>3, CutFromAbove
<1>5. QED
  <2>1. Abs(held + Signed(side, quantity)) <= limits.position
    BY <1>1 DEF projected
  <2>2. QED
    BY <2>1, <1>2, <1>4 DEF exact

(***************************************************************************)
(* place(): a limit order that is accepted keeps the limits of risk and    *)
(* the venue's rules, its exact value reaches the venue's minimum, and the *)
(* balance that was looked at covers it up to less than one unit.          *)
(***************************************************************************)
THEOREM AcceptedOrderIsLegal ==
    ASSUME NEW limits, NEW request, NEW held \in Int, NEW market, NEW rules, NEW available,
           None \notin Int, limits.maxNotional \in Nat, limits.maxOrderSize \in Nat,
           request.quantity \in Nat, request.price \in Nat,
           available \in Nat \cup {None}, rules.notional.min \in Nat \cup {None},
           PlaceDecision(limits, request, held, market, rules, available) = "accept"
    PROVE  /\ request.quantity > 0 /\ request.quantity <= limits.maxOrderSize
           /\ request.quantity * request.price < (limits.maxNotional + 1) * Scale
           /\ Abs(held + Signed(request.side, request.quantity)) <= limits.position
           /\ rules.trading
           /\ Within(request.quantity, rules.quantity) /\ Within(request.price, rules.price)
           /\ rules.notional.min # None =>
                 request.quantity * request.price >= rules.notional.min * Scale
           /\ available # None
           /\ request.side = "Sell" => available >= request.quantity
           /\ request.side # "Sell" =>
                 request.quantity * request.price < (available + 1) * Scale
<1> DEFINE quote == market.quote
           exact == request.quantity * request.price
           instrument == RulesDecision(request, quote, rules)
           risk == IF request.price = None /\ market.book /\ quote = None THEN "reject"
                   ELSE CheckNew(limits, request, held, quote)
<1>1. request.price # None /\ ExecutablePrice(request, quote) = request.price
  BY DEF ExecutablePrice
<1>2. /\ instrument = "accept" /\ risk = "accept"
      /\ FundingDecision(request, quote, available) = "accept"
  <2> HIDE DEF instrument, risk, quote
  <2>1. PlaceDecision(limits, request, held, market, rules, available) =
          CASE "throw" \in {instrument, risk} -> "throw"
            [] "throw" \notin {instrument, risk} ->
                  Require({instrument, risk, IF instrument = "accept"
                              THEN FundingDecision(request, quote, available) ELSE "accept"} = {"accept"})
    BY DEF PlaceDecision, instrument, risk, quote
  <2>2. QED
    BY <2>1 DEF Require
<1>3. Validate(limits, request.side, request.price, request.quantity, held) = "accept"
  BY <1>1, <1>2 DEF CheckNew
<1>4. exact \in Nat /\ Times(request.quantity, request.price) = exact \div Scale
  BY TimesNat
<1>5. /\ rules.trading
      /\ Within(request.quantity, rules.quantity) /\ Within(request.price, rules.price)
      /\ Within(exact \div Scale, rules.notional)
  BY <1>1, <1>2, <1>4 DEF RulesDecision, QuantityLegal, Require
<1>6. rules.notional.min # None => exact >= rules.notional.min * Scale
  <2> HIDE DEF exact
  <2>1. rules.notional.min # None => exact \div Scale >= rules.notional.min
    BY <1>5 DEF Within
  <2>2. QED
    BY <2>1, <1>4, CutFromBelow
<1>7. FundingRequirement(request, quote) =
        (IF request.side = "Sell" THEN request.quantity ELSE exact \div Scale)
  BY <1>1, <1>4 DEF FundingRequirement
<1>8. /\ FundingRequirement(request, quote) \in Int
      /\ available # None /\ available >= FundingRequirement(request, quote)
  <2> HIDE DEF exact, quote
  <2>1. exact \div Scale \in Int
    BY <1>4, DecimalAssumption
  <2>2. FundingRequirement(request, quote) \in Int
    BY <1>7, <2>1
  <2>3. QED
    BY <2>2, <1>2 DEF FundingDecision, Require
<1>9. /\ request.side = "Sell" => available >= request.quantity
      /\ request.side # "Sell" => exact < (available + 1) * Scale
  <2> HIDE DEF exact, quote
  <2>1. CASE request.side = "Sell"
    BY <2>1, <1>7, <1>8
  <2>2. CASE request.side # "Sell"
    <3>1. exact \div Scale <= available
      BY <2>2, <1>4, <1>7, <1>8, DecimalAssumption
    <3>2. QED
      BY <2>2, <3>1, <1>4, <1>8, CutFromAbove
  <2>3. QED
    BY <2>1, <2>2
<1>10. QED
  BY <1>3, <1>5, <1>6, <1>8, <1>9, ValidatedKeepsLimits
-----------------------------------------------------------------------------
(***************************************************************************)
(* The gateway and the venue.  What the venue has of an order, what is on  *)
(* its way there and what the gateway has of it, in memory, in numbered    *)
(* records and in the journal, are related by what each copy can know.     *)
(*                                                                         *)
(* First the steps, by what they do to reports, to copies of orders and to *)
(* physical orders.                                                        *)
(***************************************************************************)

\* All reports that the gateway has not applied yet are in S.
ReportsIn(S) ==
    /\ lane \in Seq(S)
    /\ \A a \in Actors : act[a].reports \in Seq(S)
    /\ \A t \in Threads : act[t].pc = "finish" => act[t].result.reports \in Seq(S)
    /\ \A cid \in Cids : deferred[cid] \in Seq(S)

\* What a report can say of a physical order as it is now.
Says(r, x, phys) ==
    /\ r \in VenueReport /\ r.exid = x
    /\ r.client \in {phys.cid, x}
    /\ r.status = phys.status /\ r.cumulative = phys.filled /\ r.quantity = phys.quantity
Said(r) == \E x \in ExchangeIds : venue[x] # None /\ Says(r, x, venue[x])

\* A request finds physical orders of its own order only.
TargetsOwn ==
    /\ \A t \in Threads : act[t].pc = "send" =>
          Target(act[t].cmd.cid, orders[act[t].cmd.cid].exid) \subseteq PhysOf(act[t].cmd.cid)
    /\ act[R].pc = "query" => Target(rec.cid, rec.exid) \subseteq PhysOf(rec.cid)
    /\ \A r \in inflight : Target(r.cid, r.exid) \subseteq PhysOf(r.cid)

\* ReportOf writes what the physical order says.
LEMMA ReportSays ==
    ASSUME scenario \in Scenarios, NEW x \in ExchangeIds, NEW phys \in PhysType, NEW channel
    PROVE  /\ Says(ReportOf(x, phys, channel), x, phys)
           /\ Says([ReportOf(x, phys, channel) EXCEPT !.client = phys.cid], x, phys)
  <1>1. VenueName(x, phys) \in {phys.cid, x} /\ StreamClient(x, phys) \in {phys.cid, x}
    BY DEF VenueName, StreamClient
  <1>2. phys.cid \in STRING /\ x \in STRING
    BY GatewayAssumption DEF PhysType
  <1>3. ASSUME NEW e \in Nat, NEW c \in {phys.cid, x}
        PROVE  /\ Says(Report(x, phys, e, c), x, phys)
               /\ Says([Report(x, phys, e, c) EXCEPT !.client = phys.cid], x, phys)
    BY <1>2 DEF Report, VenueReport, PhysType, Says
  <1>4. 3 * phys.stamp \in Nat /\ 3 * phys.stamp + 1 \in Nat /\ 3 * phys.stamp + 2 \in Nat
    BY DEF PhysType
  <1> QED BY <1>1, <1>3, <1>4
          DEF ReportOf, ParseOrderUpdate, ParseExecutionReport, BinanceOrderResponseReport

\* Sequences over a set are sequences over a larger one.
LEMMA SeqGrows ==
    ASSUME NEW S, NEW T, S \subseteq T, NEW s \in Seq(S)
    PROVE  s \in Seq(T)
  <1>1. Len(s) \in Nat /\ \A i \in 1 .. Len(s) : s[i] \in T
    BY LenProperties, ElementOfSeq
  <1> QED BY <1>1, LenProperties

\* The lane takes some of the reports it is given.
LEMMA ReceiveIn ==
    ASSUME scenario \in Scenarios, VenueTypes, NEW T, lane \in Seq(T), NEW reports \in Seq(T), Receive(reports)
    PROVE  lane' \in Seq(T)
  <1>1. PICK kept : /\ kept = IF ~connected THEN 0 ELSE IF Len(reports) < Room THEN Len(reports) ELSE Room
                    /\ lane' = lane \o SubSeq(reports, 1, kept)
    BY DEF Receive
  <1>2. /\ Len(lane) \in Nat /\ Len(reports) \in Nat /\ LaneCapacity \in Nat
        /\ \A i \in 1 .. Len(reports) : reports[i] \in T
    BY CommandFacts, LenProperties, ElementOfSeq
  <1>3. Room \in Nat
    BY <1>2 DEF Room, VenueTypes
  <1>4. kept \in Nat /\ kept <= Len(reports)
    BY <1>1, <1>2, <1>3
  <1>5. \A i \in 1 .. kept : reports[i] \in T
    BY <1>2, <1>4
  <1>6. SubSeq(reports, 1, kept) \in Seq(T)
    BY <1>4, <1>5, SubSeqProperties
  <1> QED BY <1>1, <1>6, ConcatProperties

\* One actor moves.
LEMMA ReportsMove ==
    ASSUME NEW S, NEW T, S \subseteq T, ReportsIn(S), lane' \in Seq(T),
           NEW a \in Actors, \A b \in Actors : b # a => act'[b] = act[b],
           act'[a].reports \in Seq(T),
           a \in Threads /\ act'[a].pc = "finish" => act'[a].result.reports \in Seq(T),
           \A cid \in Cids : deferred'[cid] = deferred[cid] \/ deferred'[cid] \in Seq(T)
    PROVE  ReportsIn(T)'
  <1>1. \A b \in Actors : act'[b].reports \in Seq(T)
    BY SeqGrows DEF ReportsIn
  <1>2. \A t \in Threads : act'[t].pc = "finish" => act'[t].result.reports \in Seq(T)
    BY SeqGrows, ActorFacts DEF ReportsIn
  <1>3. \A cid \in Cids : deferred'[cid] \in Seq(T)
    BY SeqGrows DEF ReportsIn
  <1> QED BY <1>1, <1>2, <1>3 DEF ReportsIn

\* apply_execution may put a report off.
LEMMA ApplyExecutionReports ==
    ASSUME TInv, NEW S, S \subseteq VenueReport, ReportsIn(S), NEW a, NEW report \in S,
           ApplyExecution(a, report)
    PROVE  \A cid \in Cids : deferred'[cid] \in Seq(S)
  <1>1. deferred \in [Cids -> Seq(VenueReport)] /\ \A cid \in Cids : deferred[cid] \in Seq(S)
    BY DEF TInv, ActorTypes, ReportsIn
  <1>2. deferred' = deferred \/ deferred' = [deferred EXCEPT ![Owner(report)] = Append(deferred[Owner(report)], report)]
    BY DEF ApplyExecution
  <1>3. \A cid \in Cids : Append(deferred[cid], report) \in Seq(S)
    BY <1>1, AppendProperties
  <1> QED BY <1>1, <1>2, <1>3

\* What the venue says after a step is in T.
LEMMA FreshIn ==
    ASSUME scenario \in Scenarios, NEW T, \A r : Said(r)' => r \in T,
           NEW x \in ExchangeIds, venue'[x] \in PhysType, NEW channel
    PROVE  /\ ReportOf(x, venue'[x], channel) \in T
           /\ [ReportOf(x, venue'[x], channel) EXCEPT !.client = venue'[x].cid] \in T
  <1>1. PICK phys \in PhysType : phys = venue'[x]
    OBVIOUS
  <1>2. phys # None
    BY GatewayAssumption
  <1>3. \A r : Says(r, x, phys) => Said(r)'
    BY <1>1, <1>2 DEF Said, Says, VenueReport
  <1> QED BY <1>1, <1>3, ReportSays

LEMMA MovesIn ==
    ASSUME scenario \in Scenarios, VenueTypes, NEW T, lane \in Seq(T), \A r : Said(r)' => r \in T,
           NEW x \in ExchangeIds, NEW phys \in PhysType, VenueMoves(x, phys)
    PROVE  /\ lane' \in Seq(T)
           /\ venue' = [venue EXCEPT ![x] = [phys EXCEPT !.stamp = stamp + 1]]
           /\ venue'[x] = [phys EXCEPT !.stamp = stamp + 1] /\ venue'[x] \in PhysType
  <1>1. PICK moved : /\ moved = [phys EXCEPT !.stamp = stamp + 1]
                     /\ venue' = [venue EXCEPT ![x] = moved] /\ Receive(<<ReportOf(x, moved, "stream")>>)
    BY DEF VenueMoves
  <1>2. moved \in PhysType
    BY <1>1 DEF PhysType, VenueTypes
  <1>3. venue'[x] = moved
    BY <1>1 DEF VenueTypes
  <1>4. ReportOf(x, moved, "stream") \in T
    BY <1>2, <1>3, FreshIn
  <1>5. <<ReportOf(x, moved, "stream")>> \in Seq(T)
    BY <1>4
  <1>6. lane' \in Seq(T)
    BY <1>1, <1>5, ReceiveIn
  <1> QED BY <1>1, <1>2, <1>3, <1>6

LEMMA ReplacesIn ==
    ASSUME scenario \in Scenarios, VenueTypes, NEW T, lane \in Seq(T), \A r : Said(r)' => r \in T,
           NEW old \in ExchangeIds, venue[old] \in PhysType, NEW x \in ExchangeIds, x # old,
           NEW q \in Nat, NEW known \in BOOLEAN, VenueReplaces(old, x, q, known)
    PROVE  /\ lane' \in Seq(T) /\ venue'[old] \in PhysType /\ venue'[x] \in PhysType
  <1>1. PICK canceled, fresh :
           /\ canceled = [venue[old] EXCEPT !.status = "Canceled", !.stamp = stamp + 1]
           /\ fresh = [NewPhys(venue[old].cid, q, FALSE, known) EXCEPT !.stamp = stamp + 2]
           /\ venue' = [venue EXCEPT ![old] = canceled, ![x] = fresh]
           /\ Receive(<<ReportOf(old, canceled, "stream"), ReportOf(x, fresh, "stream")>>)
    BY DEF VenueReplaces
  <1>2. canceled \in PhysType /\ fresh \in PhysType
    <2>1. stamp + 1 \in Nat /\ stamp + 2 \in Nat
      BY DEF VenueTypes
    <2> QED BY <1>1, <2>1 DEF PhysType, Statuses, NewPhys
  <1>3. venue'[old] = canceled /\ venue'[x] = fresh
    BY <1>1 DEF VenueTypes
  <1>4. ReportOf(old, canceled, "stream") \in T /\ ReportOf(x, fresh, "stream") \in T
    BY <1>2, <1>3, FreshIn
  <1>5. <<ReportOf(old, canceled, "stream"), ReportOf(x, fresh, "stream")>> \in Seq(T)
    BY <1>4
  <1>6. lane' \in Seq(T)
    BY <1>1, <1>5, ReceiveIn
  <1> QED BY <1>1, <1>2, <1>3, <1>6

\* The reports of a venue call, and those it puts on the stream.
LEMMA SendReports ==
    ASSUME TInv, TInv', TargetsOwn, NEW t \in Threads, SendStep(t), NEW S, NEW T, S \subseteq T,
           ReportsIn(S), \A r : Said(r)' => r \in T
    PROVE  ReportsIn(T)'
  <1> DEFINE cmd == act[t].cmd
  <1>0. /\ TInv /\ OrderTypes /\ ActorTypes /\ VenueTypes /\ VenueTypes' /\ scenario \in Scenarios /\ t \in Actors
    BY ActorFacts DEF TInv, HistoryTypes
  <1>1. act[t].pc = "send" /\ \E result : Answered(t, result)
    BY <1>0, SendTypes
  <1>2. PICK result : Answered(t, result)
    BY <1>1
  <1>3. /\ act' = [act EXCEPT ![t].pc = "finish", ![t].result = result] /\ UNCHANGED deferred
    BY <1>2 DEF Answered
  <1>4. /\ \A b \in Actors : b # t => act'[b] = act[b]
        /\ act'[t].reports = act[t].reports /\ act'[t].result = result /\ act'[t].pc = "finish"
    BY <1>0, <1>3, ZenonT(30) DEF ActorTypes, ActType
  <1>5. /\ act[t].reports \in Seq(T) /\ lane \in Seq(T)
    BY <1>0, SeqGrows DEF ReportsIn
  <1>6. \A res : Answered(t, res) => res = result
    <2> SUFFICES ASSUME NEW res, Answered(t, res) PROVE res = result
      OBVIOUS
    <2>1. act' = [act EXCEPT ![t].pc = "finish", ![t].result = res]
      BY DEF Answered
    <2>2. act'[t].result = res
      BY <1>0, <2>1, ZenonT(30) DEF ActorTypes, ActType
    <2> QED BY <1>4, <2>2
  <1>7. SUFFICES lane' \in Seq(T) /\ result.reports \in Seq(T)
    BY <1>0, <1>3, <1>4, <1>5, ReportsMove
  <1>8. Target(cmd.cid, orders[cmd.cid].exid) \subseteq PhysOf(cmd.cid)
    BY <1>1 DEF TargetsOwn
  <1>9. ASSUME NEW x \in ExchangeIds, venue'[x] \in PhysType, NEW channel
        PROVE  /\ ReportOf(x, venue'[x], channel) \in T
               /\ [ReportOf(x, venue'[x], channel) EXCEPT !.client = venue'[x].cid] \in T
    BY <1>0, <1>9, FreshIn
  <1>10. <<>> \in Seq(T) /\ (\A r \in T : <<r>> \in Seq(T)) /\ \A r, s \in T : <<r, s>> \in Seq(T)
    OBVIOUS
  <1>11. \A x \in ExchangeIds : Working(x) => venue[x] # None /\ venue[x] \in PhysType
    BY <1>0 DEF Working, VenueTypes
  <1>12. scenario.exids \subseteq ExchangeIds /\ None \notin PhysType
    BY <1>0, CommandFacts, GatewayAssumption
  <1>13. ASSUME NEW x \in ExchangeIds, NEW phys \in PhysType, VenueMoves(x, phys)
         PROVE  lane' \in Seq(T) /\ venue'[x] \in PhysType /\ venue'[x].cid = phys.cid
    <2>1. lane' \in Seq(T) /\ venue'[x] \in PhysType /\ venue'[x] = [phys EXCEPT !.stamp = stamp + 1]
      BY <1>0, <1>5, <1>13, MovesIn
    <2> QED BY <2>1 DEF PhysType
  <1>14. CASE SendUncertain(t) \/ SendRejected(t) \/ CancelAccepted(t)
    <2>1. lane' = lane /\ \E kind, exid : Answered(t, Result(kind, exid, <<>>))
      BY <1>14 DEF SendUncertain, SendRejected, CancelAccepted, outside
    <2>2. result.reports = <<>>
      BY <1>6, <2>1 DEF Result
    <2> QED BY <1>5, <1>10, <2>1, <2>2
  <1>15. CASE PlaceAccepted(t)
    <2>1. PICK x \in Free :
             /\ VenueMoves(x, NewPhys(cmd.cid, cmd.quantity, TRUE, TRUE))
             /\ Answered(t, Result("ack", x, <<>>))
      BY <1>15 DEF PlaceAccepted
    <2>2. cmd.cid \in Cids /\ cmd.quantity \in Nat
      BY <1>0, <1>1, CommandFacts DEF TInv, CallTypes, InVenueCall
    <2>3. NewPhys(cmd.cid, cmd.quantity, TRUE, TRUE) \in PhysType /\ x \in ExchangeIds
      BY <1>12, <2>1, <2>2 DEF NewPhys, PhysType, Statuses, Free
    <2>4. result.reports = <<>>
      BY <1>6, <2>1 DEF Result
    <2> QED BY <1>10, <1>13, <2>1, <2>3, <2>4
  <1>16. CASE OkxAmendAccepted(t)
    <2>1. PICK x \in Target(cmd.cid, orders[cmd.cid].exid) :
             /\ Working(x)
             /\ \E reports \in {<<>>, <<[ReportOf(x, venue[x], "query") EXCEPT !.client = cmd.cid]>>} :
                   Answered(t, Result("ack", None, reports))
      BY <1>16 DEF OkxAmendAccepted
    <2>2. venue' = venue /\ lane' = lane
      BY <1>16 DEF OkxAmendAccepted
    <2>3. x \in ExchangeIds /\ venue[x].cid = cmd.cid /\ venue[x] # None
      BY <1>8, <2>1 DEF PhysOf
    <2>4. [ReportOf(x, venue[x], "query") EXCEPT !.client = cmd.cid] \in T
      BY <1>9, <1>11, <2>1, <2>2, <2>3
    <2>5. result.reports \in {<<>>, <<[ReportOf(x, venue[x], "query") EXCEPT !.client = cmd.cid]>>}
      BY <1>6, <2>1 DEF Result
    <2> QED BY <1>5, <1>10, <2>2, <2>4, <2>5
  <1>17. CASE OkxAmendMade(t)
    <2>1. PICK x \in Target(cmd.cid, orders[cmd.cid].exid) :
             /\ Working(x)
             /\ VenueMoves(x, [venue[x] EXCEPT !.quantity = cmd.quantity])
             /\ Answered(t, Result("ack", None, <<[ReportOf(x, venue'[x], "query") EXCEPT
                                                    !.client = cmd.cid]>>))
      BY <1>17 DEF OkxAmendMade
    <2>2. x \in ExchangeIds /\ venue[x].cid = cmd.cid /\ venue[x] \in PhysType
      BY <1>8, <1>11, <2>1 DEF PhysOf
    <2>3. cmd.quantity \in Nat
      BY <1>0, <1>1, CommandFacts DEF TInv, CallTypes, InVenueCall
    <2>4. [venue[x] EXCEPT !.quantity = cmd.quantity] \in PhysType
          /\ [venue[x] EXCEPT !.quantity = cmd.quantity].cid = cmd.cid
      BY <2>2, <2>3 DEF PhysType
    <2>5. lane' \in Seq(T) /\ venue'[x] \in PhysType /\ venue'[x].cid = cmd.cid
      BY <1>13, <2>1, <2>2, <2>4
    <2>6. [ReportOf(x, venue'[x], "query") EXCEPT !.client = cmd.cid] \in T
      BY <1>9, <2>2, <2>5
    <2>7. result.reports = <<[ReportOf(x, venue'[x], "query") EXCEPT !.client = cmd.cid]>>
      BY <1>6, <2>1 DEF Result
    <2> QED BY <1>10, <2>5, <2>6, <2>7
  <1>18. CASE BinanceAmendHalfDone(t)
    <2>1. PICK old \in Target(cmd.cid, orders[cmd.cid].exid) :
             /\ Working(old)
             /\ VenueMoves(old, [venue[old] EXCEPT !.status = "Canceled"])
             /\ Answered(t, Result("reject", None, <<ReportOf(old, venue'[old], "response")>>))
      BY <1>18 DEF BinanceAmendHalfDone
    <2>2. old \in ExchangeIds /\ venue[old] \in PhysType
      BY <1>8, <1>11, <2>1 DEF PhysOf
    <2>3. [venue[old] EXCEPT !.status = "Canceled"] \in PhysType
      BY <2>2 DEF PhysType, Statuses
    <2>4. lane' \in Seq(T) /\ venue'[old] \in PhysType
      BY <1>13, <2>1, <2>2, <2>3
    <2>5. result.reports = <<ReportOf(old, venue'[old], "response")>>
      BY <1>6, <2>1 DEF Result
    <2> QED BY <1>9, <1>10, <2>2, <2>4, <2>5
  <1>19. CASE BinanceAmendAccepted(t)
    <2>1. PICK old \in Target(cmd.cid, orders[cmd.cid].exid), x \in Free :
             /\ Working(old)
             /\ VenueReplaces(old, x, WireQuantity(cmd), TRUE)
             /\ Answered(t, Result("ack", x, <<ReportOf(old, venue'[old], "response"),
                                               ReportOf(x, venue'[x], "response")>>))
      BY <1>19 DEF BinanceAmendAccepted
    <2>2. x \in ExchangeIds /\ old \in ExchangeIds /\ x # old
      BY <1>8, <1>11, <1>12, <2>1 DEF Free, PhysOf
    <2>3. WireQuantity(cmd) \in Nat /\ venue[old] \in PhysType
      <3>1. cmd.quantity \in Nat /\ orders[cmd.cid].filled \in Nat /\ ~NothingToReplace(cmd)
        BY <1>0, <1>1, <1>19, CommandFacts DEF TInv, CallTypes, InVenueCall, Known, OrderTypes, OrderType,
             BinanceAmendAccepted
      <3> QED BY <1>11, <2>1, <2>2, <3>1 DEF NothingToReplace, WireQuantity
    <2>4. lane' \in Seq(T) /\ venue'[old] \in PhysType /\ venue'[x] \in PhysType
      BY <1>0, <1>5, <2>1, <2>2, <2>3, ReplacesIn
    <2>5. result.reports = <<ReportOf(old, venue'[old], "response"), ReportOf(x, venue'[x], "response")>>
      BY <1>6, <2>1 DEF Result
    <2> QED BY <1>9, <1>10, <2>2, <2>4, <2>5
  <1> QED BY <1>14, <1>15, <1>16, <1>17, <1>18, <1>19 DEF SendStep

\* A pass of reconciliation: what the venue answers, and the name it puts on an open order.
LEMMA RecReports ==
    ASSUME TInv, TargetsOwn, NEW S, NEW T, S \subseteq T, ReportsIn(S),
           \/ RecBegin \/ RecSnapshot \/ RecSnapshotFails \/ RecOpen \/ RecJudge
           \/ \E cid \in Cids : RecCandidate(cid)
           \/ RecQuery \/ RecQueryNull \/ RecQueryThrows \/ RecNull \/ RecEnd,
           \A r : Said(r)' => r \in T,
           \A r \in S : Owner(r) # None => [r EXCEPT !.client = Owner(r)] \in T
    PROVE  ReportsIn(T)'
  <1>0. /\ ActorTypes /\ VenueTypes /\ scenario \in Scenarios /\ R \in Actors /\ R \notin Threads
        /\ act[R].reports \in Seq(T) /\ lane \in Seq(T)
    BY ActorFacts, SeqGrows DEF TInv, HistoryTypes, ReportsIn
  <1>1. UNCHANGED <<deferred, outside>>
    BY DEF RecBegin, RecSnapshot, RecSnapshotFails, RecOpen, RecJudge, RecCandidate,
           RecQuery, RecQueryNull, RecQueryThrows, RecNull, RecEnd, OrdersKept, RecKeeps
  <1>2. lane' = lane /\ venue' = venue
    BY <1>1 DEF outside
  <1>3. \A x \in ExchangeIds : venue[x] \in PhysType =>
           \A channel : /\ ReportOf(x, venue[x], channel) \in T
                        /\ [ReportOf(x, venue[x], channel) EXCEPT !.client = venue[x].cid] \in T
    BY <1>0, <1>2, FreshIn
  <1>4. SUFFICES (\A b \in Actors : b # R => act'[b] = act[b]) /\ act'[R].reports \in Seq(T)
    BY <1>0, <1>1, <1>2, ReportsMove
  <1>5. \A pc : Goto(R, pc) => (\A b \in Actors : b # R => act'[b] = act[b]) /\ act'[R].reports = act[R].reports
    BY <1>0 DEF Goto, ActorTypes, ActType
  <1>6. CASE \E pc : Goto(R, pc)
    BY <1>0, <1>5, <1>6
  <1>7. CASE UNCHANGED act
    BY <1>0, <1>7
  <1>8. CASE act' = [act EXCEPT ![R] = Idle]
    <2>1. (\A b \in Actors : b # R => act'[b] = act[b]) /\ act'[R].reports = <<>>
      BY <1>0, <1>8 DEF ActorTypes, Idle
    <2> QED BY <2>1
  <1>9. ASSUME NEW rs \in Seq(T), NEW pc, act' = [act EXCEPT ![R].pc = pc, ![R].reports = rs]
        PROVE  (\A b \in Actors : b # R => act'[b] = act[b]) /\ act'[R].reports \in Seq(T)
    BY <1>0, <1>9 DEF ActorTypes, ActType
  <1>10. CASE RecSnapshot
    <2>1. PICK D, U : D = {y \in ExchangeIds : Working(y)} /\ U = {OpenReports[x] : x \in DOMAIN OpenReports}
      OBVIOUS
    <2>2. /\ DOMAIN OpenReports = D
          /\ \A x \in D : OpenReports[x] = ReportOf(x, venue[x], "query")
      BY <2>1 DEF OpenReports
    <2>3. \A x \in D : x \in ExchangeIds /\ venue[x] \in PhysType
      BY <1>0, <2>1 DEF Working, VenueTypes
    <2>4. U \subseteq T
      <3>1. \A x \in D : OpenReports[x] \in T
        BY <1>3, <2>2, <2>3
      <3> QED BY <2>1, <2>2, <3>1, Zenon
    <2>5. IsFiniteSet(U)
      <3>1. IsFiniteSet(D)
        BY <2>1, FS_Subset, GatewayAssumption
      <3>2. OpenReports \in Surjection(D, U)
        BY <2>1, <2>2 DEF Surjection, OpenReports
      <3> QED BY <3>1, <3>2, FS_Surjection
    <2>6. SetToSeq(U) \in Seq(T)
      BY <2>4, <2>5, SetToSeqType, SeqGrows
    <2>7. act' = [act EXCEPT ![R].pc = "open", ![R].reports = SetToSeq(U)]
      BY <1>10, <2>1 DEF RecSnapshot
    <2> QED BY <1>9, <2>6, <2>7
  <1>11. CASE RecOpen /\ act[R].reports # <<>>
    <2>1. PICK h : h = Head(act[R].reports)
      OBVIOUS
    <2>2. act[R].reports \in Seq(S) /\ h \in S /\ Tail(act[R].reports) \in Seq(T)
      <3>1. act[R].reports \in Seq(S)
        BY <1>0 DEF ReportsIn
      <3> QED BY <1>0, <1>11, <2>1, <3>1, HeadTailProperties
    <2>3. CASE act' = [act EXCEPT ![R].reports = Tail(act[R].reports)]
      BY <1>0, <2>2, <2>3 DEF ActorTypes, ActType
    <2>4. CASE Owner(h) # None /\ act' = [act EXCEPT ![R].reports[1].client = Owner(h), ![R].pc = "openApply"]
      <3>1. PICK rs : rs = act[R].reports
        OBVIOUS
      <3>2. /\ rs \in Seq(T) /\ Len(rs) \in Nat /\ DOMAIN rs = 1 .. Len(rs) /\ rs # <<>>
            /\ h = rs[1] /\ \A i \in 1 .. Len(rs) : rs[i] \in T
        BY <1>0, <1>11, <2>1, <3>1, LenProperties, ElementOfSeq, HeadTailProperties
      <3>3. [h EXCEPT !.client = Owner(h)] \in T
        BY <2>2, <2>4
      <3>4. PICK ns : ns = [rs EXCEPT ![1] = [h EXCEPT !.client = Owner(h)]]
        OBVIOUS
      <3>5. ns \in Seq(T)
        <4>1. ns \in [1 .. Len(rs) -> T]
          BY <3>2, <3>3, <3>4
        <4> QED BY <3>2, <4>1, SeqOfFunction
      <3>6. [rs EXCEPT ![1].client = Owner(h)] = ns
        BY <3>2, <3>4
      <3>7. act' = [act EXCEPT ![R].pc = "openApply", ![R].reports = ns]
        <4>1. act[R] \in ActType /\ act \in [Actors -> ActType]
          BY <1>0 DEF ActorTypes
        <4>2. act' = [act EXCEPT ![R] = [act[R] EXCEPT !.reports = [rs EXCEPT ![1].client = Owner(h)],
                                                       !.pc = "openApply"]]
          BY <2>4, <3>1, <4>1
        <4> QED BY <3>6, <4>1, <4>2 DEF ActType
      <3> QED BY <1>9, <3>5, <3>7
    <2> QED BY <1>11, <2>1, <2>3, <2>4 DEF RecOpen
  <1>12. CASE RecQuery
    <2>1. PICK x \in Target(rec.cid, rec.exid) :
             act' = [act EXCEPT ![R].pc = "answer",
                       ![R].reports = <<[ReportOf(x, venue[x], "query") EXCEPT !.client =
                                           IF Kind = "Okx" THEN rec.cid ELSE @]>>]
      BY <1>12 DEF RecQuery
    <2>2. x \in PhysOf(rec.cid)
      BY <1>12, <2>1 DEF TargetsOwn, RecQuery, Rec
    <2>3. x \in ExchangeIds /\ venue[x] \in PhysType /\ venue[x].cid = rec.cid
      BY <1>0, <2>2 DEF PhysOf, VenueTypes
    <2>4. PICK r : r = [ReportOf(x, venue[x], "query") EXCEPT !.client = IF Kind = "Okx" THEN rec.cid ELSE @]
      OBVIOUS
    <2>5. r \in T
      <3>1. ReportOf(x, venue[x], "query") \in VenueReport
        BY <1>0, <2>3, ReportOfType
      <3>2. r = [ReportOf(x, venue[x], "query") EXCEPT !.client = rec.cid] \/ r = ReportOf(x, venue[x], "query")
        BY <2>4, <3>1 DEF VenueReport
      <3> QED BY <1>3, <2>3, <3>2
    <2>6. act' = [act EXCEPT ![R].pc = "answer", ![R].reports = <<r>>]
      BY <2>1, <2>4
    <2>7. <<r>> \in Seq(T)
      BY <2>5
    <2> QED BY <1>9, <2>6, <2>7
  <1> QED BY <1>6, <1>7, <1>8, <1>10, <1>11, <1>12
          DEF RecBegin, RecSnapshotFails, RecOpen, RecJudge, RecCandidate, RecQueryNull, RecQueryThrows,
              RecNull, RecEnd

\* The reports after a step: those before it, those the venue has just said, and an open order's
\* report under the name of its owner.
LEMMA StepReports ==
    ASSUME TInv, TInv', TargetsOwn, [Next]_vars, NEW S, NEW T, S \subseteq T, S \subseteq VenueReport, ReportsIn(S),
           \A r : Said(r)' => r \in T,
           \A r \in S : Owner(r) # None => [r EXCEPT !.client = Owner(r)] \in T
    PROVE  ReportsIn(T)'
  <1>0. /\ ActorTypes /\ VenueTypes /\ CallTypes /\ scenario \in Scenarios /\ lane \in Seq(T)
        /\ "lane" \in Actors /\ "lane" \notin Threads /\ Threads \subseteq Actors
        /\ None \notin PhysType /\ <<>> \in Seq(T)
    BY ActorFacts, SeqGrows, GatewayAssumption DEF TInv, HistoryTypes, ReportsIn
  <1>1. ASSUME NEW a \in Actors, \A b \in Actors : b # a => act'[b] = act[b],
               act'[a].reports = act[a].reports \/ act'[a].reports = <<>>,
               act'[a].pc # "finish", UNCHANGED deferred, lane' \in Seq(T)
        PROVE  ReportsIn(T)'
    <2>1. act[a].reports \in Seq(T)
      BY SeqGrows DEF ReportsIn
    <2>2. act'[a].reports \in Seq(T)
      BY <1>0, <1>1, <2>1
    <2> QED BY <1>1, <2>2, ReportsMove
  <1>2. ASSUME NEW t \in Threads, NEW cmd \in Commands,
               \/ PlaceBegin(t, cmd) \/ PlaceReject(t, cmd)
               \/ CancelBegin(t, cmd) \/ AmendBegin(t, cmd)
        PROVE  ReportsIn(T)'
    <2>1. PICK pc \in {"intent", "rejected"} : Begin(t, cmd, pc)
      BY <1>2 DEF PlaceBegin, PlaceReject, CancelBegin, AmendBegin
    <2>2. /\ act' = [act EXCEPT ![t] = [Idle EXCEPT !.pc = pc, !.cmd = cmd]]
          /\ UNCHANGED <<deferred, lane>>
      BY <2>1 DEF Begin, outside
    <2>3. /\ \A b \in Actors : b # t => act'[b] = act[b]
          /\ act'[t].reports = <<>> /\ act'[t].pc # "finish"
      BY <1>0, <2>1, <2>2 DEF ActorTypes, Idle
    <2> QED BY <1>0, <1>1, <2>2, <2>3
  <1>3. ASSUME NEW t \in Threads, SendStep(t) PROVE ReportsIn(T)'
    BY <1>3, SendReports
  <1>4. ASSUME NEW t \in Threads, FinishStep(t) PROVE ReportsIn(T)'
    <2>1. act[t].pc = "finish" /\ \E order \in OrderType : \E outcome : Finish(t, order, outcome)
      BY <1>4, FinishTypes
    <2>2. /\ act' = [act EXCEPT ![t].pc = "outcome",
                       ![t].reports = act[t].result.reports \o KeptBack(act[t].cmd)]
          /\ deferred' = IF act[t].cmd.op = "amend" THEN [deferred EXCEPT ![act[t].cmd.cid] = <<>>]
                         ELSE deferred
          /\ UNCHANGED lane
      BY <2>1 DEF Finish, outside
    <2>3. act[t].cmd.cid \in Cids
      BY <1>0, <2>1 DEF CallTypes, InVenueCall, Known
    <2>4. act[t].result.reports \in Seq(S) /\ KeptBack(act[t].cmd) \in Seq(S)
      BY <2>1, <2>3, EmptySeq DEF ReportsIn, KeptBack
    <2>5. PICK rs \in Seq(S) : rs = act[t].result.reports \o KeptBack(act[t].cmd)
      BY <2>4, ConcatProperties
    <2>6. rs \in Seq(T)
      BY SeqGrows
    <2>7. act' = [act EXCEPT ![t].pc = "outcome", ![t].reports = rs]
      BY <2>2, <2>5
    <2>8. /\ \A b \in Actors : b # t => act'[b] = act[b]
          /\ act'[t].reports = rs /\ act'[t].pc # "finish"
      BY <1>0, <2>7 DEF ActorTypes, ActType
    <2>9. \A cid \in Cids : deferred'[cid] = deferred[cid] \/ deferred'[cid] \in Seq(T)
      BY <1>0, <2>2, <2>3 DEF ActorTypes
    <2> QED BY <1>0, <2>2, <2>6, <2>8, <2>9, ReportsMove
  <1>5. ASSUME NEW a \in Actors, act[a].reports # <<>>, ApplyExecution(a, Head(act[a].reports)), UNCHANGED lane,
               NEW pc, pc # "finish", act' = [act EXCEPT ![a].reports = Tail(act[a].reports), ![a].pc = pc]
        PROVE  ReportsIn(T)'
    <2>1. act[a].reports \in Seq(S)
      BY DEF ReportsIn
    <2>2. Head(act[a].reports) \in S /\ Tail(act[a].reports) \in Seq(S)
      BY <1>5, <2>1, HeadTailProperties
    <2>3. Tail(act[a].reports) \in Seq(T)
      BY <2>2, SeqGrows
    <2>4. \A cid \in Cids : deferred'[cid] \in Seq(T)
      BY <1>5, <2>2, ApplyExecutionReports, SeqGrows
    <2>5. /\ \A b \in Actors : b # a => act'[b] = act[b]
          /\ act'[a].reports = Tail(act[a].reports) /\ act'[a].pc # "finish"
      BY <1>0, <1>5 DEF ActorTypes, ActType
    <2> QED BY <1>0, <1>5, <2>3, <2>4, <2>5, ReportsMove
  <1>6. ASSUME NEW t \in Threads, CommandApply(t) PROVE ReportsIn(T)'
    <2>1. /\ act[t].reports # <<>> /\ ApplyExecution(t, Head(act[t].reports)) /\ UNCHANGED lane
          /\ act' = [act EXCEPT ![t].reports = Tail(act[t].reports),
                       ![t].pc = IF Records(Head(act[t].reports)) THEN "applied" ELSE "apply"]
      BY <1>6 DEF CommandApply, outside
    <2> QED BY <1>0, <1>5, <2>1
  <1>7. ASSUME NEW t \in Threads, CommandReturn(t) PROVE ReportsIn(T)'
    <2>1. act' = [act EXCEPT ![t] = Idle] /\ UNCHANGED <<deferred, lane>>
      BY <1>7 DEF CommandReturn, outside
    <2>2. /\ \A b \in Actors : b # t => act'[b] = act[b]
          /\ act'[t].reports = <<>> /\ act'[t].pc # "finish"
      BY <1>0, <2>1 DEF ActorTypes, Idle
    <2> QED BY <1>0, <1>1, <2>1, <2>2
  <1>8. ASSUME NEW a \in Actors, CommitPersist(a) PROVE ReportsIn(T)'
    <2>1. act' = [act EXCEPT ![a].pc = AfterAppend(a)] /\ UNCHANGED <<deferred, lane>>
          /\ act[a].pc \in {"rejected", "intent", "outcome", "applied"}
      BY <1>8 DEF CommitPersist, Goto, outside
    <2>2. AfterAppend(a) # "finish"
      BY <2>1 DEF AfterAppend
    <2>3. /\ \A b \in Actors : b # a => act'[b] = act[b]
          /\ act'[a].reports = act[a].reports /\ act'[a].pc # "finish"
      BY <1>0, <2>1, <2>2 DEF ActorTypes, ActType
    <2> QED BY <1>0, <1>1, <2>1, <2>3
  <1>9. ASSUME NEW a \in Actors, CommitFails(a) PROVE ReportsIn(T)'
    <2>1. /\ UNCHANGED <<deferred, lane>>
          /\ \/ act' = [act EXCEPT ![a] = [Idle EXCEPT !.pc = "candidates"]]
             \/ act' = [act EXCEPT ![a] = Idle]
      BY <1>9 DEF CommitFails, outside
    <2>2. /\ \A b \in Actors : b # a => act'[b] = act[b]
          /\ act'[a].reports = <<>> /\ act'[a].pc # "finish"
      BY <1>0, <2>1 DEF ActorTypes, Idle
    <2> QED BY <1>0, <1>1, <2>1, <2>2
  <1>10. CASE LaneApply
    <2>1. /\ lane # <<>> /\ lane' = Tail(lane) /\ ApplyExecution("lane", Head(lane))
          /\ IF Records(Head(lane)) THEN Goto("lane", "applied") ELSE UNCHANGED act
      BY <1>10 DEF LaneApply
    <2>2. lane \in Seq(S)
      BY DEF ReportsIn
    <2>3. Head(lane) \in S /\ lane' \in Seq(T)
      BY <2>1, <2>2, HeadTailProperties, SeqGrows
    <2>4. \A cid \in Cids : deferred'[cid] \in Seq(T)
      BY <2>1, <2>3, ApplyExecutionReports, SeqGrows
    <2>5. /\ \A b \in Actors : b # "lane" => act'[b] = act[b]
          /\ act'["lane"].reports = act["lane"].reports
      BY <1>0, <2>1 DEF ActorTypes, ActType, Goto
    <2>6. act'["lane"].reports \in Seq(T)
      BY <1>0, <2>5, SeqGrows DEF ReportsIn
    <2> QED BY <1>0, <2>3, <2>4, <2>5, <2>6, ReportsMove
  <1>11. CASE RecApply
    <2>1. /\ act[R].reports # <<>> /\ ApplyExecution(R, Head(act[R].reports)) /\ UNCHANGED lane
          /\ act' = [act EXCEPT ![R].reports = Tail(act[R].reports),
                       ![R].pc = IF Records(Head(act[R].reports)) THEN "applied" ELSE "judge"]
      BY <1>0, <1>11 DEF RecApply, RecKeeps, outside, Rec, CallTypes
    <2>2. PICK pc \in {"applied", "judge"} :
             act' = [act EXCEPT ![R].reports = Tail(act[R].reports), ![R].pc = pc]
      BY <2>1
    <2>3. pc # "finish"
      OBVIOUS
    <2> QED BY <1>5, <2>1, <2>2, <2>3, ActorFacts
  <1>12. CASE \/ RecBegin \/ RecSnapshot \/ RecSnapshotFails \/ RecOpen \/ RecJudge
              \/ \E cid \in Cids : RecCandidate(cid)
              \/ RecQuery \/ RecQueryNull \/ RecQueryThrows \/ RecNull \/ RecEnd
    BY <1>12, RecReports
  <1>13. ASSUME UNCHANGED <<act, deferred>>, lane' \in Seq(T) PROVE ReportsIn(T)'
    <2>1. act'["lane"].reports \in Seq(T)
      BY <1>0, <1>13, SeqGrows DEF ReportsIn
    <2> QED BY <1>0, <1>13, <2>1, ReportsMove
  <1>14. CASE Disconnect \/ Connect \/ UNCHANGED vars
    BY <1>0, <1>13, <1>14 DEF Disconnect, Connect, outside, vars
  <1>15. CASE Crash
    <2>1. /\ lane' = <<>> /\ act' = [a \in Actors |-> Idle] /\ deferred' = [cid \in Cids |-> <<>>]
      BY <1>15 DEF Crash
    <2> QED BY <1>0, <2>1 DEF ReportsIn, Idle
  <1>16. ASSUME NEW x \in ExchangeIds, NEW n \in 1 .. PositionLimit, VenueFill(x, n) PROVE ReportsIn(T)'
    <2>1. PICK phys : /\ phys = [venue[x] EXCEPT !.filled = @ + n,
                                   !.status = IF venue[x].filled + n = venue[x].quantity
                                              THEN "Filled" ELSE "PartiallyFilled"]
                      /\ VenueMoves(x, phys) /\ Working(x) /\ UNCHANGED <<act, deferred>>
      BY <1>16 DEF VenueFill
    <2>2. n \in Nat /\ venue[x] \in PhysType
      BY <1>0, <2>1, GatewayAssumption DEF PositionLimit, Working, VenueTypes
    <2>3. phys \in PhysType
      <3>1. PICK f, s : /\ f = venue[x].filled + n
                        /\ s = IF venue[x].filled + n = venue[x].quantity THEN "Filled" ELSE "PartiallyFilled"
        OBVIOUS
      <3>2. phys = [venue[x] EXCEPT !.filled = f, !.status = s]
        BY <2>1, <3>1
      <3>3. f \in Nat /\ s \in Statuses
        BY <2>2, <3>1 DEF PhysType, Statuses
      <3> QED BY <2>2, <3>2, <3>3 DEF PhysType
    <2> QED BY <1>0, <1>13, <2>1, <2>3, MovesIn
  <1>17. ASSUME NEW r \in inflight, VenueLose(r) PROVE ReportsIn(T)'
    BY <1>0, <1>13, <1>17 DEF VenueLose
  <1>18. ASSUME NEW r \in inflight, VenueArrive(r) PROVE ReportsIn(T)'
    <2>1. /\ UNCHANGED <<act, deferred>> /\ r \in RequestType
          /\ r.cid \in Cids /\ r.quantity \in Nat /\ r.known \in BOOLEAN
          /\ scenario.exids \subseteq ExchangeIds /\ Target(r.cid, r.exid) \subseteq ExchangeIds
          /\ \A x \in ExchangeIds : Working(x) => venue[x] \in PhysType
      BY <1>0, <1>18, CommandFacts DEF VenueArrive, VenueTypes, RequestType, Target, Working
    <2>2. SUFFICES lane' \in Seq(T)
      BY <1>13, <2>1
    <2>3. CASE \E x \in Free : VenueMoves(x, NewPhys(r.cid, r.quantity, TRUE, r.known))
      <3>1. PICK x \in Free : VenueMoves(x, NewPhys(r.cid, r.quantity, TRUE, r.known))
        BY <2>3
      <3>2. x \in ExchangeIds /\ NewPhys(r.cid, r.quantity, TRUE, r.known) \in PhysType
        BY <2>1 DEF Free, NewPhys, PhysType, Statuses
      <3> QED BY <1>0, <3>1, <3>2, MovesIn
    <2>4. CASE \E x \in Target(r.cid, r.exid) :
                  Working(x) /\ VenueMoves(x, [venue[x] EXCEPT !.status = "Canceled"])
      <3>1. PICK x \in Target(r.cid, r.exid) :
                  Working(x) /\ VenueMoves(x, [venue[x] EXCEPT !.status = "Canceled"])
        BY <2>4
      <3>2. x \in ExchangeIds /\ [venue[x] EXCEPT !.status = "Canceled"] \in PhysType
        BY <2>1, <3>1 DEF PhysType, Statuses
      <3> QED BY <1>0, <3>1, <3>2, MovesIn
    <2>5. CASE \E x \in Target(r.cid, r.exid) :
                  Working(x) /\ VenueMoves(x, [venue[x] EXCEPT !.quantity = r.quantity])
      <3>1. PICK x \in Target(r.cid, r.exid) :
                  Working(x) /\ VenueMoves(x, [venue[x] EXCEPT !.quantity = r.quantity])
        BY <2>5
      <3>2. x \in ExchangeIds /\ [venue[x] EXCEPT !.quantity = r.quantity] \in PhysType
        BY <2>1, <3>1 DEF PhysType
      <3> QED BY <1>0, <3>1, <3>2, MovesIn
    <2>6. CASE \E old \in Target(r.cid, r.exid), x \in Free :
                  Working(old) /\ VenueReplaces(old, x, r.quantity, r.known)
      <3>1. PICK old \in Target(r.cid, r.exid), x \in Free :
                  Working(old) /\ VenueReplaces(old, x, r.quantity, r.known)
        BY <2>6
      <3>2. old \in ExchangeIds /\ x \in ExchangeIds /\ x # old /\ venue[old] \in PhysType
        BY <2>1, <3>1 DEF Free, Working
      <3>3. r.quantity \in Nat /\ r.known \in BOOLEAN
        BY <2>1
      <3> QED BY <1>0, <3>1, <3>2, <3>3, ReplacesIn
    <2> QED BY <1>18, <2>3, <2>4, <2>5, <2>6 DEF VenueArrive
  <1> QED BY <1>2, <1>3, <1>4, <1>6, <1>7, <1>8, <1>9, <1>10, <1>11, <1>12, <1>14, <1>15, <1>16, <1>17, <1>18
          DEF Next, CommandStep, SendStep, FinishStep, RecStep
-----------------------------------------------------------------------------
\* Every copy of an order, in memory, in a numbered record and in the journal, is in K.
OrdersIn(K) ==
    /\ \A cid \in Known : orders[cid] \in K[cid]
    /\ \A i \in DOMAIN reserved : reserved[i].order \in K[reserved[i].cid]
    /\ \A cid \in Cids : journal[cid] # None => journal[cid].order \in K[cid]

\* A command or a pass has only noted what it is up to.
Remarked(o, p) ==
    /\ p.clients = o.clients /\ p.exid = o.exid /\ p.aliases = o.aliases /\ p.offsets = o.offsets
    /\ p.price = o.price /\ p.quantity = o.quantity /\ p.filled = o.filled
    /\ p.status \in {o.status, "Unknown"}

\* What a step makes of an order, the reports in S at hand.
Becomes(cid, p, S) ==
    \/ \E cmd \in Commands :
          /\ cid \notin Known /\ cmd.op = "place" /\ cmd.cid = cid
          /\ \/ p = MakeOrder(cid, cmd.price, cmd.quantity)
             \/ p = [MakeOrder(cid, cmd.price, cmd.quantity) EXCEPT !.status = "Rejected", !.pending = "None"]
    \/ cid \in Known /\ Remarked(orders[cid], p)
    \/ \E t \in Threads :
          /\ At(t, "place", "ack") /\ act[t].cmd.cid = cid
          /\ p = [orders[cid] EXCEPT !.exid = act[t].result.exid,
                    !.status = IF @ = "Unknown" THEN "Live" ELSE @, !.pending = "None"]
    \/ \E t \in Threads :
          /\ At(t, "place", "reject") /\ act[t].cmd.cid = cid
          /\ p = Apply(orders[cid], PlaceRejection(orders[cid]))
    \/ \E t \in Threads :
          /\ At(t, "amend", "ack") /\ act[t].cmd.cid = cid /\ act[t].result.exid # None
          /\ p = Replaced(orders[cid], act[t].result)
    \/ \E r \in S : cid \in Known /\ Owner(r) = cid /\ p = Apply(orders[cid], r)

LEMMA CopiesStay ==
    ASSUME UNCHANGED <<orders, reserved, journal>>, NEW K, NEW L,
           \A cid \in Cids : K[cid] \subseteq L[cid], OrdersIn(K), TInv
    PROVE  OrdersIn(L)'
  <1>1. \A i \in DOMAIN reserved : reserved[i].cid \in Cids
    BY ElementOfSeq, LenProperties DEF TInv, OrderTypes, RecordType
  <1> QED BY <1>1 DEF OrdersIn, Known

LEMMA CopyMade ==
    ASSUME TInv, NEW a \in Actors, NEW cid \in Cids, NEW p \in OrderType, NEW q \in [Commands -> Outcomes],
           orders' = [orders EXCEPT ![cid] = p], Reserve(a, cid, p, q), UNCHANGED journal,
           NEW K, NEW L, \A c \in Cids : K[c] \subseteq L[c], OrdersIn(K), p \in L[cid]
    PROVE  OrdersIn(L)'
  <1>0. OrderTypes /\ scenario \in Scenarios /\ reserved \in Seq(RecordType)
    BY DEF TInv, OrderTypes, HistoryTypes
  <1>1. \A c \in Cids : orders'[c] = IF c = cid THEN p ELSE orders[c]
    BY <1>0 DEF OrderTypes
  <1>2. \A c \in Known' : orders'[c] \in L[c]
    BY <1>1 DEF Known, OrdersIn
  <1>3. /\ Len(reserved) \in Nat /\ DOMAIN reserved = 1 .. Len(reserved)
        /\ DOMAIN reserved' = 1 .. Len(reserved) + 1
        /\ \A i \in DOMAIN reserved : reserved'[i] = reserved[i]
        /\ reserved'[Len(reserved) + 1] =
              [owner |-> a, cid |-> cid, superseded |-> FALSE, order |-> p,
               requests |-> [k \in RequestsOf(cid) |-> q[k]]]
    BY <1>0, ReserveTypes
  <1>4. \A i \in DOMAIN reserved : reserved[i].cid \in Cids
    BY <1>0, ElementOfSeq, LenProperties DEF RecordType
  <1>5. \A i \in DOMAIN reserved' : reserved'[i].order \in L[reserved'[i].cid]
    <2> SUFFICES ASSUME NEW i \in DOMAIN reserved' PROVE reserved'[i].order \in L[reserved'[i].cid]
      OBVIOUS
    <2>1. i \in DOMAIN reserved \/ i = Len(reserved) + 1
      BY <1>3
    <2>2. CASE i \in DOMAIN reserved
      BY <1>3, <1>4, <2>2 DEF OrdersIn
    <2>3. CASE i = Len(reserved) + 1
      BY <1>3, <2>3
    <2> QED BY <2>1, <2>2, <2>3
  <1> QED BY <1>2, <1>5 DEF OrdersIn

\* An append, or its failure, takes a record away and may put it into the journal.
LEMMA CopiesCommitted ==
    ASSUME TInv, NEW i \in DOMAIN reserved, Journaled(i) \/ (reserved' = RemoveAt(reserved, i) /\ UNCHANGED journal),
           UNCHANGED <<orders, scenario>>, NEW K, NEW L, \A c \in Cids : K[c] \subseteq L[c], OrdersIn(K)
    PROVE  OrdersIn(L)'
  <1>0. JournalTypes /\ scenario \in Scenarios /\ reserved \in Seq(RecordType)
    BY DEF TInv, OrderTypes, HistoryTypes
  <1>1. Len(reserved) \in Nat /\ DOMAIN reserved = 1 .. Len(reserved) /\ \A j \in DOMAIN reserved : reserved[j] \in RecordType
    BY <1>0, ElementOfSeq, LenProperties
  <1>2. /\ \A j \in DOMAIN reserved' : \E k \in DOMAIN reserved :
              reserved'[j].order = reserved[k].order /\ reserved'[j].cid = reserved[k].cid
        /\ \A c \in Cids : journal'[c] = journal[c] \/ (c = reserved[i].cid /\ journal'[c].order = reserved[i].order)
    <2>1. CASE Journaled(i)
      <3>1. /\ DOMAIN reserved' = 1 .. Len(reserved) - 1
            /\ \A j \in DOMAIN reserved' :
                 LET r == reserved[IF j < i THEN j ELSE j + 1]
                 IN  reserved'[j] = IF j < i /\ r.cid = reserved[i].cid
                                    THEN [r EXCEPT !.superseded = TRUE] ELSE r
            /\ journal' = IF reserved[i].superseded THEN journal
                          ELSE [journal EXCEPT ![reserved[i].cid] =
                                  [order |-> reserved[i].order, requests |-> reserved[i].requests]]
        BY <1>0, <2>1, JournaledFacts
      <3>2. \A j \in DOMAIN reserved' : (IF j < i THEN j ELSE j + 1) \in DOMAIN reserved
        BY <1>1, <3>1
      <3>3. ASSUME NEW j \in DOMAIN reserved'
            PROVE  \E k \in DOMAIN reserved :
                      reserved'[j].order = reserved[k].order /\ reserved'[j].cid = reserved[k].cid
        <4>1. PICK k : k = IF j < i THEN j ELSE j + 1
          OBVIOUS
        <4>2. k \in DOMAIN reserved /\ reserved[k] \in RecordType
          BY <1>1, <3>2, <4>1
        <4>3. reserved'[j] = reserved[k] \/ reserved'[j] = [reserved[k] EXCEPT !.superseded = TRUE]
          BY <3>1, <4>1
        <4>4. reserved'[j].order = reserved[k].order /\ reserved'[j].cid = reserved[k].cid
          BY <4>2, <4>3 DEF RecordType
        <4> QED BY <4>2, <4>4
      <3>4. reserved[i].cid \in Cids
        BY <1>1 DEF RecordType
      <3>5. \A c \in Cids : journal'[c] = journal[c] \/ (c = reserved[i].cid /\ journal'[c].order = reserved[i].order)
        BY <1>0, <3>1, <3>4 DEF JournalTypes
      <3> QED BY <3>3, <3>5
    <2>2. CASE reserved' = RemoveAt(reserved, i) /\ UNCHANGED journal
      <3>1. /\ DOMAIN reserved' = 1 .. Len(reserved) - 1
            /\ \A j \in 1 .. Len(reserved) - 1 : reserved'[j] = IF j < i THEN reserved[j] ELSE reserved[j + 1]
        BY <1>0, <2>2, RemoveAtFacts
      <3>2. \A j \in DOMAIN reserved' : j \in DOMAIN reserved /\ j + 1 \in DOMAIN reserved
        BY <1>1, <3>1
      <3> QED BY <2>2, <3>1, <3>2
    <2> QED BY <2>1, <2>2
  <1>3. \A j \in DOMAIN reserved : reserved[j].cid \in Cids /\ reserved[j].order \in L[reserved[j].cid]
    BY <1>1 DEF RecordType, OrdersIn
  <1>4. \A j \in DOMAIN reserved' : reserved'[j].order \in L[reserved'[j].cid]
    BY <1>2, <1>3
  <1>5. \A c \in Cids : journal'[c] # None => journal'[c].order \in L[c]
    BY <1>2, <1>3 DEF OrdersIn
  <1>6. \A c \in Known' : orders'[c] \in L[c]
    BY DEF OrdersIn, Known
  <1> QED BY <1>4, <1>5, <1>6 DEF OrdersIn

\* The copies after a step that is not a restart: those before it, and what it makes of an order.
LEMMA StepOrders ==
    ASSUME TInv, [Next]_vars, ~Crash, NEW S, S \subseteq VenueReport, ReportsIn(S),
           NEW K, NEW L, \A cid \in Cids : K[cid] \subseteq L[cid], OrdersIn(K),
           \A cid \in Cids, p \in OrderType : orders'[cid] = p /\ Becomes(cid, p, S) => p \in L[cid]
    PROVE  OrdersIn(L)'
  <1>0. /\ ActorTypes /\ OrderTypes /\ CallTypes /\ scenario \in Scenarios /\ Threads \subseteq Actors
        /\ requests \in [Commands -> Outcomes] /\ R \in Actors /\ "lane" \in Actors
        /\ \A cid \in Known : cid \in Cids /\ orders[cid] \in OrderType
    BY ActorFacts DEF TInv, HistoryTypes, OrderTypes, Known
  <1>1. ASSUME NEW a \in Actors, NEW cid \in Cids, NEW p \in OrderType, NEW q \in [Commands -> Outcomes],
               Update(a, cid, p, q), UNCHANGED journal, Becomes(cid, p, S)
        PROVE  OrdersIn(L)'
    <2>1. orders' = [orders EXCEPT ![cid] = p] /\ Reserve(a, cid, p, q)
      BY <1>1 DEF Update
    <2>2. orders'[cid] = p
      BY <1>0, <2>1 DEF OrderTypes
    <2>3. p \in L[cid]
      BY <1>1, <2>2
    <2> QED BY <1>1, <2>1, <2>3, CopyMade
  <1>2. ASSUME NEW t \in Threads, NEW cmd \in Commands,
               \/ PlaceBegin(t, cmd) \/ PlaceReject(t, cmd)
               \/ CancelBegin(t, cmd) \/ AmendBegin(t, cmd)
        PROVE  OrdersIn(L)'
    <2>0. cmd.cid \in Cids
      BY <1>0, CommandFacts
    <2>1. PICK pc \in {"intent", "rejected"}, p \in OrderType, q \in [Commands -> Outcomes] :
             Update(t, cmd.cid, p, q) /\ Begin(t, cmd, pc)
      BY <1>2, BeginFacts
    <2>2. UNCHANGED journal
      BY <2>1 DEF Begin
    <2>3. \A o, outcomes : Update(t, cmd.cid, o, outcomes) => o = p
      BY <1>0, <2>0, <2>1 DEF Update, OrderTypes
    <2>4. Becomes(cmd.cid, p, S)
      <3>1. CASE PlaceBegin(t, cmd) \/ PlaceReject(t, cmd)
        <4>1. cmd.op = "place" /\ cmd.cid \notin Known
          BY <3>1 DEF PlaceBegin, PlaceReject, MayBegin, Known
        <4>2. \/ p = MakeOrder(cmd.cid, cmd.price, cmd.quantity)
              \/ p = [MakeOrder(cmd.cid, cmd.price, cmd.quantity) EXCEPT !.status = "Rejected", !.pending = "None"]
          BY <2>3, <3>1 DEF PlaceBegin, PlaceReject
        <4> QED BY <4>1, <4>2 DEF Becomes
      <3>2. CASE CancelBegin(t, cmd) \/ AmendBegin(t, cmd)
        <4>1. cmd.cid \in Known
          BY <2>0, <3>2 DEF CancelBegin, AmendBegin, Known
        <4>2. \/ p = [orders[cmd.cid] EXCEPT !.pending = "Cancel"]
              \/ p = [orders[cmd.cid] EXCEPT !.pending = "Amend", !.pendingQuantity = cmd.quantity]
          BY <2>3, <3>2 DEF CancelBegin, AmendBegin
        <4>3. Remarked(orders[cmd.cid], p)
          BY <1>0, <4>1, <4>2 DEF Remarked, OrderType
        <4> QED BY <4>1, <4>3 DEF Becomes
      <3> QED BY <1>2, <3>1, <3>2
    <2> QED BY <1>0, <1>1, <2>0, <2>1, <2>2, <2>4
  <1>3. ASSUME NEW t \in Threads, SendStep(t) PROVE OrdersIn(L)'
    <2>1. PICK result : Answered(t, result)
      BY <1>3, SendTypes
    <2>2. UNCHANGED <<orders, reserved, journal>>
      BY <2>1 DEF Answered, core
    <2> QED BY <2>2, CopiesStay
  <1>4. ASSUME NEW t \in Threads, FinishStep(t) PROVE OrdersIn(L)'
    <2>1. PICK p \in OrderType, outcome \in Outcomes \cup {None} :
             /\ act[t].pc = "finish" /\ Finish(t, p, outcome)
             /\ act[t].cmd.op # "place" => outcome \in Outcomes \ {"absent"}
      BY <1>4, FinishTypes
    <2>2. PICK cid : cid = act[t].cmd.cid
      OBVIOUS
    <2>3. cid \in Known /\ cid \in Cids /\ orders[cid] \in OrderType /\ act[t].cmd \in Commands /\ Mine(t) = orders[cid]
      BY <1>0, <2>1, <2>2 DEF CallTypes, InVenueCall, Mine
    <2>4. PICK q : q = IF act[t].cmd.op = "place" THEN requests ELSE [requests EXCEPT ![act[t].cmd] = outcome]
      OBVIOUS
    <2>5. q \in [Commands -> Outcomes]
      BY <1>0, <2>1, <2>3, <2>4
    <2>6. Update(t, cid, p, q) /\ UNCHANGED journal
      BY <2>1, <2>2, <2>4 DEF Finish
    <2>7. \A o, u : Finish(t, o, u) => o = p
      <3> SUFFICES ASSUME NEW o, NEW u, Finish(t, o, u) PROVE o = p
        OBVIOUS
      <3>1. orders' = [orders EXCEPT ![cid] = o] /\ orders' = [orders EXCEPT ![cid] = p]
        BY <2>2, <2>6 DEF Finish, Update
      <3> QED BY <1>0, <2>3, <3>1 DEF OrderTypes
    <2>8. Becomes(cid, p, S)
      <3>1. CASE At(t, "place", "ack")
        <4>1. p = [orders[cid] EXCEPT !.exid = act[t].result.exid,
                     !.status = IF @ = "Unknown" THEN "Live" ELSE @, !.pending = "None"]
          BY <1>4, <2>3, <2>7, <3>1 DEF FinishStep, PlaceFinish, CancelFinish, AmendFinish, At
        <4> QED BY <2>2, <3>1, <4>1 DEF Becomes
      <3>2. CASE At(t, "place", "reject")
        <4>1. p = Apply(orders[cid], PlaceRejection(orders[cid]))
          BY <1>4, <2>3, <2>7, <3>2 DEF FinishStep, PlaceFinish, CancelFinish, AmendFinish, At
        <4> QED BY <2>2, <3>2, <4>1 DEF Becomes
      <3>3. CASE At(t, "amend", "ack") /\ act[t].result.exid # None
        <4>1. p = Replaced(orders[cid], act[t].result)
          BY <1>4, <2>3, <2>7, <3>3 DEF FinishStep, PlaceFinish, CancelFinish, AmendFinish, At
        <4> QED BY <2>2, <3>3, <4>1 DEF Becomes
      <3>4. CASE ~At(t, "place", "ack") /\ ~At(t, "place", "reject") /\ ~(At(t, "amend", "ack") /\ act[t].result.exid # None)
        <4>1. \/ p = orders[cid]
              \/ p = [orders[cid] EXCEPT !.status = "Unknown", !.pending = "Reconcile"]
              \/ p = [orders[cid] EXCEPT !.status = "Unknown", !.pending = "Cancel"]
              \/ p = [orders[cid] EXCEPT !.status = "Unknown", !.pending = "Amend"]
              \/ p = [orders[cid] EXCEPT !.pending = "None"]
              \/ p = [orders[cid] EXCEPT !.pending = "None", !.pendingQuantity = None, !.pendingPrice = None]
          BY <1>4, <2>3, <2>7, <3>4 DEF FinishStep, PlaceFinish, CancelFinish, AmendFinish, At
        <4>2. Remarked(orders[cid], p)
          BY <2>3, <4>1 DEF Remarked, OrderType
        <4> QED BY <2>3, <4>2 DEF Becomes
      <3> QED BY <3>1, <3>2, <3>3, <3>4
    <2> QED BY <1>0, <1>1, <2>3, <2>5, <2>6, <2>8
  <1>5. ASSUME NEW a \in Actors, NEW r \in S, ApplyExecution(a, r), UNCHANGED journal PROVE OrdersIn(L)'
    <2>1. CASE Records(r)
      <3>1. Owner(r) \in Known /\ Owner(r) \in Cids /\ orders[Owner(r)] \in OrderType
        BY <1>0, <2>1, OwnerKnown DEF Records
      <3>2. Apply(orders[Owner(r)], r) \in OrderType
        BY <3>1, ApplyType, VenueReportType
      <3>3. Update(a, Owner(r), Apply(orders[Owner(r)], r), requests)
        BY <1>5, <2>1 DEF ApplyExecution
      <3>4. Becomes(Owner(r), Apply(orders[Owner(r)], r), S)
        BY <3>1 DEF Becomes
      <3> QED BY <1>0, <1>1, <1>5, <3>1, <3>2, <3>3, <3>4
    <2>2. CASE ~Records(r)
      <3>1. UNCHANGED <<orders, reserved, journal>>
        BY <1>5, <2>2 DEF ApplyExecution, core
      <3> QED BY <3>1, CopiesStay
    <2> QED BY <2>1, <2>2
  <1>6. ASSUME NEW a \in Actors, act[a].reports # <<>> PROVE Head(act[a].reports) \in S
    <2>1. act[a].reports \in Seq(S)
      BY DEF ReportsIn
    <2> QED BY <1>6, <2>1, HeadTailProperties
  <1>7. ASSUME NEW t \in Threads, CommandApply(t) PROVE OrdersIn(L)'
    <2>1. /\ act[t].reports # <<>> /\ ApplyExecution(t, Head(act[t].reports)) /\ UNCHANGED journal
      BY <1>7 DEF CommandApply
    <2> QED BY <1>0, <1>5, <1>6, <2>1
  <1>8. CASE LaneApply
    <2>1. lane # <<>> /\ ApplyExecution("lane", Head(lane)) /\ UNCHANGED journal
      BY <1>8 DEF LaneApply
    <2>2. Head(lane) \in S
      BY <2>1, HeadTailProperties DEF ReportsIn
    <2> QED BY <1>0, <1>5, <2>1, <2>2
  <1>9. CASE RecApply
    <2>1. /\ act[R].reports # <<>> /\ ApplyExecution(R, Head(act[R].reports)) /\ UNCHANGED journal
      BY <1>0, <1>9 DEF RecApply, Rec, RecKeeps, CallTypes
    <2> QED BY <1>0, <1>5, <1>6, <2>1
  <1>10. CASE RecNull
    <2>1. /\ act[R].pc = "null" /\ orders' = [orders EXCEPT ![rec.cid] = Unknowable(orders[rec.cid])]
          /\ Reserve(R, rec.cid, Unknowable(orders[rec.cid]), requests) /\ UNCHANGED journal
      BY <1>10 DEF RecNull, Rec, RecKeeps
    <2>2. rec.cid \in Known
      BY <1>0, <2>1 DEF CallTypes
    <2>3. Remarked(orders[rec.cid], Unknowable(orders[rec.cid])) /\ Unknowable(orders[rec.cid]) \in OrderType
      <3>1. PICK o \in OrderType : o = orders[rec.cid]
        BY <1>0, <2>2
      <3>2. Unknowable(o) \in OrderType
        BY DEF Unknowable, OrderType, Statuses, PendingActions
      <3>3. Remarked(o, Unknowable(o))
        BY DEF Remarked, Unknowable, OrderType
      <3> QED BY <3>1, <3>2, <3>3
    <2>4. orders'[rec.cid] = Unknowable(orders[rec.cid])
      BY <1>0, <2>1, <2>2 DEF OrderTypes
    <2>5. Unknowable(orders[rec.cid]) \in L[rec.cid]
      BY <1>0, <2>2, <2>3, <2>4 DEF Becomes
    <2> QED BY <1>0, <2>1, <2>2, <2>3, <2>5, CopyMade
  <1>11. CASE \E a \in Actors : CommitPersist(a)
    <2>1. PICK i \in DOMAIN reserved : Journaled(i) /\ UNCHANGED <<orders, scenario>>
      BY <1>11 DEF CommitPersist, counters
    <2> QED BY <2>1, CopiesCommitted
  <1>12. CASE \E a \in Actors : CommitFails(a)
    <2>1. PICK i \in DOMAIN reserved : reserved' = RemoveAt(reserved, i) /\ UNCHANGED <<orders, journal, scenario>>
      BY <1>12 DEF CommitFails, counters
    <2> QED BY <2>1, CopiesCommitted
  <1>13. CASE UNCHANGED <<orders, reserved, journal>>
    BY <1>13, CopiesStay
  <1>14. CASE \E t \in Threads : CommandReturn(t)
    BY <1>13, <1>14 DEF CommandReturn, core
  <1>15. CASE \/ RecBegin \/ RecSnapshot \/ RecSnapshotFails \/ RecOpen \/ RecJudge
              \/ \E cid \in Cids : RecCandidate(cid)
              \/ RecQuery \/ RecQueryNull \/ RecQueryThrows
    <2>1. OrdersKept /\ RecKeeps
      BY <1>15 DEF RecBegin, RecSnapshot, RecSnapshotFails, RecOpen, RecJudge, RecCandidate,
           RecQuery, RecQueryNull, RecQueryThrows
    <2> QED BY <1>13, <2>1 DEF OrdersKept, RecKeeps, core
  <1>16. CASE RecEnd \/ Disconnect \/ Connect \/ UNCHANGED vars
    BY <1>13, <1>16 DEF RecEnd, Disconnect, Connect, core, vars
  <1>17. CASE \E x \in ExchangeIds, n \in 1 .. PositionLimit : VenueFill(x, n)
    BY <1>13, <1>17 DEF VenueFill, core
  <1>18. CASE \E r \in inflight : VenueArrive(r) \/ VenueLose(r)
    BY <1>13, <1>18 DEF VenueArrive, VenueLose, core
  <1> QED BY <1>2, <1>3, <1>4, <1>7, <1>8, <1>9, <1>10, <1>11, <1>12, <1>14, <1>15, <1>16, <1>17, <1>18
          DEF Next, CommandStep, SendStep, FinishStep, RecStep

\* A restart takes the journal's copies.
LEMMA CrashOrders ==
    ASSUME TInv, Crash, NEW K, NEW L, \A cid \in Cids : journal[cid] # None => K[cid] \subseteq L[cid],
           OrdersIn(K)
    PROVE  OrdersIn(L)'
  <1>1. /\ orders' = [cid \in Cids |-> IF journal[cid] = None THEN None ELSE journal[cid].order]
        /\ reserved' = <<>> /\ journal' = journal
    BY DEF Crash
  <1>2. \A cid \in Cids : journal[cid] # None => journal[cid].order \in L[cid]
    BY DEF OrdersIn
  <1>3. \A cid \in Known' : orders'[cid] \in L[cid]
    BY <1>1, <1>2 DEF Known
  <1>4. DOMAIN reserved' = {}
    BY <1>1
  <1> QED BY <1>1, <1>2, <1>3, <1>4 DEF OrdersIn
-----------------------------------------------------------------------------
\* A request takes effect: one on its way, or the one of a venue call.
Executes(r) ==
    \/ r \in inflight /\ inflight' = inflight \ {r} /\ UNCHANGED <<act, sent>>
    \/ \E t \in Threads :
          /\ act[t].pc = "send" /\ SendStep(t) /\ ~NothingToReplace(act[t].cmd)
          /\ r = Request(act[t].cmd, TRUE) /\ UNCHANGED inflight

\* What can happen to a physical order.
Continues(x) ==
    /\ venue[x] \in PhysType /\ venue'[x] \in PhysType
    /\ venue'[x].cid = venue[x].cid /\ venue'[x].first = venue[x].first
Traded(x) ==
    /\ Working(x) /\ Continues(x)
    /\ venue'[x].quantity = venue[x].quantity
    /\ venue[x].filled < venue'[x].filled /\ venue'[x].filled <= venue[x].quantity
    /\ venue'[x].status = IF venue'[x].filled = venue[x].quantity THEN "Filled" ELSE "PartiallyFilled"
Closed(x) ==
    /\ Working(x) /\ Continues(x)
    /\ venue'[x].quantity = venue[x].quantity /\ venue'[x].filled = venue[x].filled
    /\ venue'[x].status = "Canceled"
Resized(x, r) ==
    /\ Kind = "Okx" /\ r.op = "amend" /\ x \in Target(r.cid, r.exid)
    /\ Working(x) /\ Continues(x)
    /\ venue[x].filled < r.quantity /\ venue'[x].quantity = r.quantity
    /\ venue'[x].filled = venue[x].filled /\ venue'[x].status = venue[x].status
Appears(x, cid, quantity) ==
    /\ venue[x] = None /\ venue'[x] \in PhysType
    /\ venue'[x].cid = cid /\ venue'[x].quantity = quantity
    /\ venue'[x].filled = 0 /\ venue'[x].status = "Live"
Placed(x, r) == r.op = "place" /\ Appears(x, r.cid, r.quantity) /\ venue'[x].first
Supplants(x, old, r) ==
    /\ Kind = "Binance" /\ r.op = "amend" /\ old \in Target(r.cid, r.exid)
    /\ Closed(old) /\ Appears(x, venue[old].cid, r.quantity) /\ ~venue'[x].first

VenueStep ==
    \/ UNCHANGED venue
    \/ \E x \in ExchangeIds :
          /\ \A y \in ExchangeIds : y # x => venue'[y] = venue[y]
          /\ \/ Traded(x) \/ Closed(x)
             \/ \E r \in RequestType : Executes(r) /\ (Resized(x, r) \/ Placed(x, r))
    \/ \E x, old \in ExchangeIds :
          /\ x # old /\ \A y \in ExchangeIds : y \notin {x, old} => venue'[y] = venue[y]
          /\ \E r \in RequestType : Executes(r) /\ Supplants(x, old, r)

LEMMA MovesTo ==
    ASSUME VenueTypes, NEW x \in ExchangeIds, NEW phys \in PhysType, VenueMoves(x, phys)
    PROVE  /\ \A y \in ExchangeIds : y # x => venue'[y] = venue[y]
           /\ venue'[x] \in PhysType
           /\ venue'[x].cid = phys.cid /\ venue'[x].first = phys.first
           /\ venue'[x].quantity = phys.quantity /\ venue'[x].filled = phys.filled
           /\ venue'[x].status = phys.status
  <1>1. PICK moved : moved = [phys EXCEPT !.stamp = stamp + 1] /\ venue' = [venue EXCEPT ![x] = moved]
    BY DEF VenueMoves
  <1>2. /\ moved \in PhysType /\ moved.cid = phys.cid /\ moved.first = phys.first
        /\ moved.quantity = phys.quantity /\ moved.filled = phys.filled /\ moved.status = phys.status
    BY <1>1 DEF PhysType, VenueTypes
  <1>3. venue'[x] = moved /\ \A y \in ExchangeIds : y # x => venue'[y] = venue[y]
    BY <1>1 DEF VenueTypes
  <1> QED BY <1>2, <1>3

LEMMA CancelTo ==
    ASSUME VenueTypes, NEW x \in ExchangeIds, Working(x),
           VenueMoves(x, [venue[x] EXCEPT !.status = "Canceled"])
    PROVE  Closed(x) /\ \A y \in ExchangeIds : y # x => venue'[y] = venue[y]
  <1>1. venue[x] \in PhysType
    BY DEF Working, VenueTypes
  <1>2. PICK phys : phys = [venue[x] EXCEPT !.status = "Canceled"]
    OBVIOUS
  <1>3. /\ phys \in PhysType /\ phys.cid = venue[x].cid /\ phys.first = venue[x].first
        /\ phys.quantity = venue[x].quantity /\ phys.filled = venue[x].filled /\ phys.status = "Canceled"
    BY <1>1, <1>2 DEF PhysType, Statuses
  <1>4. VenueMoves(x, phys)
    BY <1>2
  <1> QED BY <1>1, <1>3, <1>4, MovesTo DEF Closed, Continues

LEMMA ResizeTo ==
    ASSUME VenueTypes, NEW r \in RequestType, NEW x \in Target(r.cid, r.exid), Working(x),
           Kind = "Okx", r.op = "amend", venue[x].filled < r.quantity,
           VenueMoves(x, [venue[x] EXCEPT !.quantity = r.quantity])
    PROVE  x \in ExchangeIds /\ Resized(x, r) /\ \A y \in ExchangeIds : y # x => venue'[y] = venue[y]
  <1>0. x \in ExchangeIds /\ r.quantity \in Nat
    BY DEF Target, RequestType
  <1>1. venue[x] \in PhysType
    BY <1>0 DEF Working, VenueTypes
  <1>2. PICK phys : phys = [venue[x] EXCEPT !.quantity = r.quantity]
    OBVIOUS
  <1>3. /\ phys \in PhysType /\ phys.cid = venue[x].cid /\ phys.first = venue[x].first
        /\ phys.quantity = r.quantity /\ phys.filled = venue[x].filled /\ phys.status = venue[x].status
    BY <1>0, <1>1, <1>2 DEF PhysType
  <1>4. VenueMoves(x, phys)
    BY <1>2
  <1> QED BY <1>0, <1>1, <1>3, <1>4, MovesTo DEF Resized, Continues

LEMMA PlaceTo ==
    ASSUME VenueTypes, scenario \in Scenarios, NEW r \in RequestType, r.op = "place", NEW x \in Free,
           NEW known \in BOOLEAN, VenueMoves(x, NewPhys(r.cid, r.quantity, TRUE, known))
    PROVE  x \in ExchangeIds /\ Placed(x, r) /\ \A y \in ExchangeIds : y # x => venue'[y] = venue[y]
  <1>0. x \in ExchangeIds /\ venue[x] = None /\ r.cid \in Cids /\ r.quantity \in Nat
    BY CommandFacts DEF Free, RequestType
  <1>1. PICK phys : phys = NewPhys(r.cid, r.quantity, TRUE, known)
    OBVIOUS
  <1>2. /\ phys \in PhysType /\ phys.cid = r.cid /\ phys.first
        /\ phys.quantity = r.quantity /\ phys.filled = 0 /\ phys.status = "Live"
    BY <1>0, <1>1 DEF PhysType, NewPhys, Statuses
  <1>3. VenueMoves(x, phys)
    BY <1>1
  <1> QED BY <1>0, <1>2, <1>3, MovesTo DEF Placed, Appears

LEMMA ReplaceTo ==
    ASSUME VenueTypes, scenario \in Scenarios, NEW r \in RequestType, r.op = "amend", Kind = "Binance",
           NEW old \in Target(r.cid, r.exid), Working(old), NEW x \in Free,
           NEW known \in BOOLEAN, VenueReplaces(old, x, r.quantity, known)
    PROVE  /\ x \in ExchangeIds /\ old \in ExchangeIds /\ x # old /\ Supplants(x, old, r)
           /\ \A y \in ExchangeIds : y \notin {x, old} => venue'[y] = venue[y]
  <1>0. /\ x \in ExchangeIds /\ venue[x] = None /\ r.quantity \in Nat
        /\ old \in ExchangeIds /\ venue[old] # None
    BY CommandFacts DEF Free, RequestType, Target
  <1>1. venue[old] \in PhysType /\ x # old
    BY <1>0 DEF VenueTypes
  <1>2. PICK canceled, fresh :
           /\ canceled = [venue[old] EXCEPT !.status = "Canceled", !.stamp = stamp + 1]
           /\ fresh = [NewPhys(venue[old].cid, r.quantity, FALSE, known) EXCEPT !.stamp = stamp + 2]
           /\ venue' = [venue EXCEPT ![old] = canceled, ![x] = fresh]
    BY DEF VenueReplaces
  <1>3. stamp + 1 \in Nat /\ stamp + 2 \in Nat
    BY DEF VenueTypes
  <1>4. /\ canceled \in PhysType /\ canceled.cid = venue[old].cid /\ canceled.first = venue[old].first
        /\ canceled.quantity = venue[old].quantity /\ canceled.filled = venue[old].filled
        /\ canceled.status = "Canceled"
    BY <1>1, <1>2, <1>3 DEF PhysType, Statuses
  <1>5. /\ fresh \in PhysType /\ fresh.cid = venue[old].cid /\ fresh.first = FALSE
        /\ fresh.quantity = r.quantity /\ fresh.filled = 0 /\ fresh.status = "Live"
    BY <1>0, <1>1, <1>2, <1>3 DEF PhysType, Statuses, NewPhys
  <1>6. /\ venue'[old] = canceled /\ venue'[x] = fresh
        /\ \A y \in ExchangeIds : y \notin {x, old} => venue'[y] = venue[y]
    BY <1>0, <1>1, <1>2 DEF VenueTypes
  <1> QED BY <1>0, <1>1, <1>4, <1>5, <1>6 DEF Supplants, Closed, Continues, Appears

\* The request of a venue call.
LEMMA RequestOfCall ==
    ASSUME TInv, NEW t \in Threads, act[t].pc = "send", ~NothingToReplace(act[t].cmd), NEW b \in BOOLEAN
    PROVE  /\ act[t].cmd \in Commands /\ act[t].cmd.cid \in Known /\ act[t].cmd.cid \in Cids
           /\ Request(act[t].cmd, b) \in RequestType
           /\ Request(act[t].cmd, b).op = act[t].cmd.op /\ Request(act[t].cmd, b).cid = act[t].cmd.cid
           /\ Request(act[t].cmd, b).exid = orders[act[t].cmd.cid].exid
           /\ Request(act[t].cmd, b).quantity = WireQuantity(act[t].cmd)
           /\ act[t].cmd.op = "place" \/ Kind = "Okx" => WireQuantity(act[t].cmd) = act[t].cmd.quantity
  <1>1. /\ act[t].cmd \in Commands /\ act[t].cmd.cid \in Known /\ scenario \in Scenarios
        /\ orders \in [Cids -> OrderType \cup {None}]
    BY DEF TInv, CallTypes, InVenueCall, HistoryTypes, OrderTypes
  <1>2. PICK k : k = act[t].cmd
    OBVIOUS
  <1>3. /\ k.cid \in Cids /\ k.quantity \in Nat /\ k.op \in {"place", "cancel", "amend"}
        /\ Kind \in {"Okx", "Binance"}
    BY <1>1, <1>2, CommandFacts
  <1>4. orders[k.cid] \in OrderType
    BY <1>1, <1>2 DEF Known
  <1>5. orders[k.cid].exid \in ExchangeIds \cup {None} /\ orders[k.cid].filled \in Nat
    BY <1>4 DEF OrderType
  <1>6. WireQuantity(k) \in Nat /\ (k.op = "place" \/ Kind = "Okx" => WireQuantity(k) = k.quantity)
    BY <1>2, <1>3, <1>5 DEF WireQuantity, NothingToReplace
  <1>7. /\ Request(k, b) \in RequestType
        /\ Request(k, b).op = k.op /\ Request(k, b).cid = k.cid
        /\ Request(k, b).exid = orders[k.cid].exid /\ Request(k, b).quantity = WireQuantity(k)
    BY <1>3, <1>5, <1>6 DEF Request, RequestType
  <1> QED BY <1>1, <1>2, <1>3, <1>6, <1>7

\* Every event at the venue is a trade, a cancel or a request that takes effect.
LEMMA VenueSteps ==
    ASSUME TInv, [Next]_vars, ~Crash
    PROVE  VenueStep
  <1>0. /\ ActorTypes /\ VenueTypes /\ scenario \in Scenarios
    BY DEF TInv, HistoryTypes
  <1>1. CASE UNCHANGED venue
    BY <1>1 DEF VenueStep
  <1>2. ASSUME NEW x \in ExchangeIds, NEW n \in 1 .. PositionLimit, VenueFill(x, n) PROVE VenueStep
    <2>1. PICK f, s : /\ f = venue[x].filled + n
                      /\ s = IF venue[x].filled + n = venue[x].quantity THEN "Filled" ELSE "PartiallyFilled"
      OBVIOUS
    <2>2. PICK phys : /\ phys = [venue[x] EXCEPT !.filled = f, !.status = s]
                      /\ VenueMoves(x, phys) /\ Working(x) /\ venue[x].filled + n <= venue[x].quantity
      BY <1>2, <2>1 DEF VenueFill
    <2>3. n \in Nat /\ n > 0 /\ venue[x] \in PhysType
      BY <1>0, <2>2, GatewayAssumption DEF PositionLimit, Working, VenueTypes
    <2>4. /\ f \in Nat /\ s \in Statuses /\ venue[x].filled < f /\ f <= venue[x].quantity
          /\ s = IF f = venue[x].quantity THEN "Filled" ELSE "PartiallyFilled"
      BY <2>1, <2>2, <2>3 DEF PhysType, Statuses
    <2>5. /\ phys \in PhysType /\ phys.cid = venue[x].cid /\ phys.first = venue[x].first
          /\ phys.quantity = venue[x].quantity /\ phys.filled = f /\ phys.status = s
      BY <2>2, <2>3, <2>4 DEF PhysType
    <2>6. Traded(x) /\ \A y \in ExchangeIds : y # x => venue'[y] = venue[y]
      BY <1>0, <2>2, <2>3, <2>4, <2>5, MovesTo DEF Traded, Continues
    <2> QED BY <2>6 DEF VenueStep
  <1>3. ASSUME NEW r \in inflight, VenueArrive(r) PROVE VenueStep
    <2>1. /\ r \in RequestType /\ r.known \in BOOLEAN /\ Executes(r)
      BY <1>0, <1>3 DEF VenueTypes, RequestType, VenueArrive, Executes, counters
    <2>2. CASE r.op = "place" /\ \E x \in Free : VenueMoves(x, NewPhys(r.cid, r.quantity, TRUE, r.known))
      BY <1>0, <2>1, <2>2, PlaceTo DEF VenueStep
    <2>3. CASE \E x \in Target(r.cid, r.exid) :
                  Working(x) /\ VenueMoves(x, [venue[x] EXCEPT !.status = "Canceled"])
      <3>1. PICK x \in Target(r.cid, r.exid) :
                  Working(x) /\ VenueMoves(x, [venue[x] EXCEPT !.status = "Canceled"])
        BY <2>3
      <3>2. x \in ExchangeIds
        BY DEF Target
      <3> QED BY <1>0, <3>1, <3>2, CancelTo DEF VenueStep
    <2>4. CASE r.op = "amend" /\ Kind = "Okx" /\ \E x \in Target(r.cid, r.exid) :
                  /\ Working(x) /\ venue[x].filled < r.quantity
                  /\ VenueMoves(x, [venue[x] EXCEPT !.quantity = r.quantity])
      BY <1>0, <2>1, <2>4, ResizeTo DEF VenueStep
    <2>5. CASE r.op = "amend" /\ Kind = "Binance" /\ \E old \in Target(r.cid, r.exid), x \in Free :
                  Working(old) /\ VenueReplaces(old, x, r.quantity, r.known)
      BY <1>0, <2>1, <2>5, ReplaceTo DEF VenueStep
    <2> QED BY <1>3, <2>2, <2>3, <2>4, <2>5 DEF VenueArrive
  <1>4. ASSUME NEW t \in Threads, SendStep(t) PROVE VenueStep
    <2>0. act[t].pc = "send"
      BY <1>4, SendTypes
    <2>1. PICK k, r : k = act[t].cmd /\ r = Request(k, TRUE)
      OBVIOUS
    <2>2. ASSUME ~NothingToReplace(k)
          PROVE  /\ r \in RequestType /\ r.op = k.op /\ r.cid = k.cid /\ r.exid = orders[k.cid].exid
                 /\ r.quantity = WireQuantity(k)
                 /\ k.op = "place" \/ Kind = "Okx" => r.quantity = k.quantity
                 /\ inflight' = inflight => Executes(r)
      BY <1>4, <2>0, <2>1, <2>2, RequestOfCall DEF Executes
    <2>3. CASE SendUncertain(t) \/ SendRejected(t) \/ CancelAccepted(t) \/ OkxAmendAccepted(t)
      BY <1>1, <2>3 DEF SendUncertain, SendRejected, CancelAccepted, OkxAmendAccepted, outside
    <2>4. CASE PlaceAccepted(t)
      <3>1. /\ k.op = "place" /\ inflight' = inflight
            /\ \E x \in Free : VenueMoves(x, NewPhys(k.cid, k.quantity, TRUE, TRUE))
        BY <2>1, <2>4 DEF PlaceAccepted
      <3>2. ~NothingToReplace(k)
        BY <3>1 DEF NothingToReplace
      <3>3. r \in RequestType /\ r.op = "place" /\ Executes(r) /\ r.cid = k.cid /\ r.quantity = k.quantity
        BY <2>2, <3>1, <3>2
      <3> QED BY <1>0, <3>1, <3>3, PlaceTo DEF VenueStep
    <2>5. CASE OkxAmendMade(t)
      <3>1. /\ k.op = "amend" /\ Kind = "Okx" /\ inflight' = inflight
            /\ \E x \in Target(k.cid, orders[k.cid].exid) :
                  /\ Working(x) /\ venue[x].filled < k.quantity
                  /\ VenueMoves(x, [venue[x] EXCEPT !.quantity = k.quantity])
        BY <2>1, <2>5 DEF OkxAmendMade
      <3>2. ~NothingToReplace(k)
        BY <3>1 DEF NothingToReplace
      <3>3. /\ r \in RequestType /\ r.op = "amend" /\ Executes(r) /\ r.quantity = k.quantity
            /\ Target(r.cid, r.exid) = Target(k.cid, orders[k.cid].exid)
        BY <2>2, <3>1, <3>2
      <3> QED BY <1>0, <3>1, <3>3, ResizeTo DEF VenueStep
    <2>6. CASE BinanceAmendAccepted(t)
      <3>1. /\ k.op = "amend" /\ Kind = "Binance" /\ inflight' = inflight /\ ~NothingToReplace(k)
            /\ \E old \in Target(k.cid, orders[k.cid].exid), x \in Free :
                  Working(old) /\ VenueReplaces(old, x, WireQuantity(k), TRUE)
        BY <2>1, <2>6 DEF BinanceAmendAccepted
      <3>2. /\ r \in RequestType /\ r.op = "amend" /\ Executes(r) /\ r.quantity = WireQuantity(k)
            /\ Target(r.cid, r.exid) = Target(k.cid, orders[k.cid].exid)
        BY <2>2, <3>1
      <3>3. PICK old \in Target(r.cid, r.exid), x \in Free :
               Working(old) /\ VenueReplaces(old, x, r.quantity, TRUE)
        BY <3>1, <3>2
      <3>4. /\ x \in ExchangeIds /\ old \in ExchangeIds /\ x # old /\ Supplants(x, old, r)
            /\ \A y \in ExchangeIds : y \notin {x, old} => venue'[y] = venue[y]
        BY <1>0, <3>1, <3>2, <3>3, ReplaceTo
      <3> QED BY <3>2, <3>4 DEF VenueStep
    <2>7. CASE BinanceAmendHalfDone(t)
      <3>1. PICK x \in Target(k.cid, orders[k.cid].exid) :
               Working(x) /\ VenueMoves(x, [venue[x] EXCEPT !.status = "Canceled"])
        BY <2>1, <2>7 DEF BinanceAmendHalfDone
      <3>2. x \in ExchangeIds
        BY DEF Target
      <3> QED BY <1>0, <3>1, <3>2, CancelTo DEF VenueStep
    <2> QED BY <1>4, <2>3, <2>4, <2>5, <2>6, <2>7 DEF SendStep
  <1>5. CASE \E t \in Threads, cmd \in Commands :
                \/ PlaceBegin(t, cmd) \/ PlaceReject(t, cmd)
                \/ CancelBegin(t, cmd) \/ AmendBegin(t, cmd)
    BY <1>1, <1>5 DEF PlaceBegin, PlaceReject, CancelBegin, AmendBegin, Begin, outside
  <1>6. CASE \E t \in Threads : FinishStep(t)
    BY <1>1, <1>6, FinishTypes DEF Finish, outside
  <1>7. CASE \E t \in Threads : CommandApply(t) \/ CommandReturn(t)
    BY <1>1, <1>7 DEF CommandApply, CommandReturn, outside
  <1>8. CASE \E a \in Actors : CommitPersist(a) \/ CommitFails(a)
    BY <1>1, <1>8 DEF CommitPersist, CommitFails, outside
  <1>9. CASE LaneApply \/ Disconnect \/ Connect \/ UNCHANGED vars
    BY <1>1, <1>9 DEF LaneApply, Disconnect, Connect, outside, vars
  <1>10. CASE RecBegin \/ RecStep
    BY <1>1, <1>10 DEF RecBegin, RecStep, RecSnapshot, RecSnapshotFails, RecOpen, RecApply, RecJudge,
         RecCandidate, RecQuery, RecQueryNull, RecQueryThrows, RecNull, RecEnd, RecKeeps, outside
  <1>11. CASE \E r \in inflight : VenueLose(r)
    BY <1>1, <1>11 DEF VenueLose
  <1> QED BY <1>2, <1>3, <1>4, <1>5, <1>6, <1>7, <1>8, <1>9, <1>10, <1>11
          DEF Next, CommandStep, SendStep, FinishStep

\* What a restart does to the physical orders.
LEMMA CrashVenue ==
    ASSUME TInv, Crash, NEW x \in ExchangeIds
    PROVE  /\ (venue'[x] # None) <=> (venue[x] # None)
           /\ venue[x] # None => Continues(x) /\ venue'[x].quantity = venue[x].quantity
                                 /\ venue'[x].filled = venue[x].filled /\ venue'[x].status = venue[x].status
  <1>1. VenueTypes /\ None \notin PhysType
    BY GatewayAssumption DEF TInv
  <1>2. PICK b : b = (venue[x].first \/ Restored(x, orders'))
    OBVIOUS
  <1>3. b \in BOOLEAN
    BY <1>2 DEF Restored
  <1>4. venue'[x] = IF venue[x] = None THEN None ELSE [venue[x] EXCEPT !.known = b]
    BY <1>2 DEF Crash
  <1>5. CASE venue[x] = None
    BY <1>4, <1>5
  <1>6. CASE venue[x] # None
    <2>1. venue[x] \in PhysType
      BY <1>1, <1>6 DEF VenueTypes
    <2>2. PICK p : p = [venue[x] EXCEPT !.known = b]
      OBVIOUS
    <2>3. /\ p \in PhysType /\ p.cid = venue[x].cid /\ p.first = venue[x].first
          /\ p.quantity = venue[x].quantity /\ p.filled = venue[x].filled /\ p.status = venue[x].status
      BY <1>3, <2>1, <2>2 DEF PhysType
    <2> QED BY <1>1, <1>4, <1>6, <2>1, <2>2, <2>3 DEF Continues
  <1> QED BY <1>5, <1>6

\* What a step does to a thread, as far as its command and its venue call go.
Proceeds(t) ==
    \/ /\ act[t].pc \in {"intent", "send", "finish"}
       /\ act'[t].pc = act[t].pc \/ (act[t].pc = "intent" /\ act'[t].pc = "send")
       /\ act'[t].cmd = act[t].cmd /\ act'[t].result = act[t].result
    \/ \E cmd \in Commands :
          /\ PlaceBegin(t, cmd) \/ CancelBegin(t, cmd) \/ AmendBegin(t, cmd)
          /\ act'[t].pc = "intent" /\ act'[t].cmd = cmd
    \/ SendStep(t) /\ act[t].pc = "send" /\ act'[t].pc = "finish" /\ act'[t].cmd = act[t].cmd
    \/ act'[t].pc \notin {"intent", "send", "finish"}

LEMMA ThreadSteps ==
    ASSUME TInv, [Next]_vars, NEW t \in Threads
    PROVE  Proceeds(t)
  <1>0. /\ ActorTypes /\ scenario \in Scenarios /\ t \in Actors /\ t # R /\ t # "lane"
        /\ act \in [Actors -> ActType] /\ Threads \subseteq Actors /\ "lane" \in Actors /\ R \in Actors
    BY ActorFacts DEF TInv, HistoryTypes, ActorTypes
  <1>1. CASE act'[t] = act[t]
    BY <1>1 DEF Proceeds
  <1>2. CASE act'[t].pc \notin {"intent", "send", "finish"}
    BY <1>2 DEF Proceeds
  <1>3. ASSUME NEW s \in Threads, NEW cmd \in Commands,
               \/ PlaceBegin(s, cmd) \/ PlaceReject(s, cmd)
               \/ CancelBegin(s, cmd) \/ AmendBegin(s, cmd)
        PROVE  Proceeds(t)
    <2>1. PICK pc \in {"intent", "rejected"} :
             /\ Begin(s, cmd, pc)
             /\ pc = "intent" => PlaceBegin(s, cmd) \/ CancelBegin(s, cmd) \/ AmendBegin(s, cmd)
      BY <1>3 DEF PlaceBegin, PlaceReject, CancelBegin, AmendBegin
    <2>2. act' = [act EXCEPT ![s] = [Idle EXCEPT !.pc = pc, !.cmd = cmd]]
      BY <2>1 DEF Begin
    <2>3. act'[s].pc = pc /\ act'[s].cmd = cmd /\ \A b \in Actors : b # s => act'[b] = act[b]
      BY <1>0, <2>2 DEF Idle
    <2>4. CASE s = t /\ pc = "intent"
      BY <2>1, <2>3, <2>4 DEF Proceeds
    <2> QED BY <1>0, <1>1, <1>2, <2>1, <2>3, <2>4
  <1>4. ASSUME NEW s \in Threads, SendStep(s) PROVE Proceeds(t)
    <2>1. act[s].pc = "send" /\ \E result : Answered(s, result)
      BY <1>4, SendTypes
    <2>2. PICK result : act' = [act EXCEPT ![s].pc = "finish", ![s].result = result]
      BY <2>1 DEF Answered
    <2>3. act'[s].pc = "finish" /\ act'[s].cmd = act[s].cmd /\ \A b \in Actors : b # s => act'[b] = act[b]
      BY <1>0, <2>2, ZenonT(30) DEF ActType
    <2>4. CASE s = t
      BY <1>4, <2>1, <2>3, <2>4 DEF Proceeds
    <2> QED BY <1>0, <1>1, <2>3, <2>4
  <1>5. ASSUME NEW s \in Threads, FinishStep(s) PROVE Proceeds(t)
    <2>1. PICK reports : act' = [act EXCEPT ![s].pc = "outcome", ![s].reports = reports]
      BY <1>5, FinishTypes DEF Finish
    <2>2. act'[s].pc = "outcome" /\ \A b \in Actors : b # s => act'[b] = act[b]
      BY <1>0, <2>1 DEF ActType
    <2> QED BY <1>0, <1>1, <1>2, <2>2
  <1>6. ASSUME NEW s \in Threads, CommandApply(s) \/ CommandReturn(s) PROVE Proceeds(t)
    <2>1. \/ act' = [act EXCEPT ![s] = Idle]
          \/ \E reports : \E pc \in {"applied", "apply"} :
                act' = [act EXCEPT ![s].reports = reports, ![s].pc = pc]
      BY <1>6 DEF CommandApply, CommandReturn
    <2>2. act'[s].pc \in {"idle", "applied", "apply"} /\ \A b \in Actors : b # s => act'[b] = act[b]
      <3>1. CASE act' = [act EXCEPT ![s] = Idle]
        BY <1>0, <3>1 DEF Idle
      <3>2. ASSUME NEW reports, NEW pc \in {"applied", "apply"},
                   act' = [act EXCEPT ![s].reports = reports, ![s].pc = pc]
            PROVE  act'[s].pc = pc /\ \A b \in Actors : b # s => act'[b] = act[b]
        BY <1>0, <3>2 DEF ActType
      <3> QED BY <2>1, <3>1, <3>2
    <2> QED BY <1>0, <1>1, <1>2, <2>2
  <1>7. ASSUME NEW a \in Actors, CommitPersist(a) PROVE Proceeds(t)
    <2>1. /\ act' = [act EXCEPT ![a].pc = AfterAppend(a)]
          /\ act[a].pc \in {"rejected", "intent", "outcome", "applied"}
      BY <1>7 DEF CommitPersist, Goto
    <2>2. act'[a].pc = AfterAppend(a) /\ act'[a].cmd = act[a].cmd /\ act'[a].result = act[a].result
          /\ \A b \in Actors : b # a => act'[b] = act[b]
      BY <1>0, <2>1 DEF ActType
    <2>3. AfterAppend(a) \in {"idle", "apply", "judge"} \/ (act[a].pc = "intent" /\ AfterAppend(a) = "send")
      BY <2>1 DEF AfterAppend
    <2>4. CASE a = t /\ act[a].pc = "intent" /\ AfterAppend(a) = "send"
      BY <2>2, <2>4 DEF Proceeds
    <2> QED BY <1>0, <1>1, <1>2, <2>2, <2>3, <2>4
  <1>8. ASSUME NEW a \in Actors, CommitFails(a) PROVE Proceeds(t)
    <2>1. \/ act' = [act EXCEPT ![a] = [Idle EXCEPT !.pc = "candidates"]]
          \/ act' = [act EXCEPT ![a] = Idle]
      BY <1>8 DEF CommitFails
    <2>2. act'[a].pc \in {"idle", "candidates"} /\ \A b \in Actors : b # a => act'[b] = act[b]
      BY <1>0, <2>1 DEF Idle
    <2> QED BY <1>0, <1>1, <1>2, <2>2
  <1>9. CASE LaneApply
    <2>1. act' = act \/ act' = [act EXCEPT !["lane"].pc = "applied"]
      BY <1>9 DEF LaneApply, Goto
    <2>2. act'[t] = act[t]
      BY <1>0, <2>1
    <2> QED BY <1>1, <2>2
  <1>10. CASE RecApply
    <2>1. \E reports, pc : act' = [act EXCEPT ![R].reports = reports, ![R].pc = pc]
      BY <1>10 DEF RecApply
    <2>2. act'[t] = act[t]
      BY <1>0, <2>1
    <2> QED BY <1>1, <2>2
  <1>11. CASE RecNull
    <2>1. act' = [act EXCEPT ![R].pc = "applied"]
      BY <1>11 DEF RecNull, Goto
    <2>2. act'[t] = act[t]
      BY <1>0, <2>1
    <2> QED BY <1>1, <2>2
  <1>12. CASE \/ RecBegin \/ RecSnapshot \/ RecSnapshotFails \/ RecOpen \/ RecJudge
              \/ \E cid \in Cids : RecCandidate(cid)
              \/ RecQuery \/ RecQueryNull \/ RecQueryThrows \/ RecEnd
    BY <1>0, <1>1, <1>12, RecQuietTypes
  <1>13. CASE OutsideStep
    BY <1>1, <1>13, OutsideStepTypes
  <1>14. CASE Crash
    <2>1. act'[t].pc = "idle"
      BY <1>0, <1>14 DEF Crash, Idle
    <2> QED BY <1>2, <2>1
  <1>15. CASE UNCHANGED vars
    BY <1>1, <1>15 DEF vars
  <1> QED BY <1>3, <1>4, <1>5, <1>6, <1>7, <1>8, <1>9, <1>10, <1>11, <1>12, <1>13, <1>14, <1>15
          DEF Next, CommandStep, SendStep, FinishStep, RecStep, OutsideStep

\* What a step does to the requests on their way and to the history of the calls.
Requested ==
    \/ inflight' \subseteq inflight
    \/ \E t \in Threads, b \in BOOLEAN :
          /\ act[t].pc = "send" /\ SendStep(t) /\ ~NothingToReplace(act[t].cmd)
          /\ inflight' = inflight \cup {Request(act[t].cmd, b)} /\ UNCHANGED venue
Counted ==
    \/ UNCHANGED sent
    \/ \E t \in Threads : SendStep(t) /\ sent' = [sent EXCEPT ![act[t].cmd] = @ + 1]

LEMMA RequestSteps ==
    ASSUME TInv, [Next]_vars, ~Crash
    PROVE  /\ Requested /\ Counted /\ UNCHANGED scenario /\ Known \subseteq Known'
           /\ \A t \in Threads : SendStep(t) => sent' = [sent EXCEPT ![act[t].cmd] = @ + 1] /\ UNCHANGED orders
  <1>0. OrderTypes
    BY DEF TInv
  <1>1. ASSUME NEW t \in Threads, SendStep(t)
        PROVE  /\ sent' = [sent EXCEPT ![act[t].cmd] = @ + 1] /\ UNCHANGED <<orders, scenario>>
               /\ act[t].pc = "send"
    BY <1>1, SendTypes DEF Answered, core
  <1>2. ASSUME NEW t \in Threads, SendStep(t) PROVE Requested
    <2>1. CASE SendUncertain(t)
      BY <1>2, <2>1 DEF SendUncertain, Requested
    <2>2. CASE CancelAccepted(t)
      <3>1. ~NothingToReplace(act[t].cmd)
        BY <2>2 DEF CancelAccepted, NothingToReplace
      <3> QED BY <1>2, <2>2, <3>1 DEF CancelAccepted, Requested
    <2>3. CASE OkxAmendAccepted(t)
      <3>1. ~NothingToReplace(act[t].cmd)
        BY <2>3 DEF OkxAmendAccepted, NothingToReplace
      <3> QED BY <1>2, <2>3, <3>1 DEF OkxAmendAccepted, Requested
    <2>4. CASE SendRejected(t) \/ PlaceAccepted(t) \/ OkxAmendMade(t) \/ BinanceAmendAccepted(t) \/ BinanceAmendHalfDone(t)
      <3>1. inflight' = inflight
        BY <2>4 DEF SendRejected, PlaceAccepted, OkxAmendMade, BinanceAmendAccepted, BinanceAmendHalfDone, outside
      <3> QED BY <3>1 DEF Requested
    <2> QED BY <1>2, <2>1, <2>2, <2>3, <2>4 DEF SendStep
  <1>3. CASE \E t \in Threads : SendStep(t)
    <2>1. Known' = Known
      BY <1>1, <1>3 DEF Known
    <2> QED BY <1>1, <1>2, <1>3, <2>1 DEF Counted
  <1>4. ASSUME UNCHANGED <<sent, scenario>>, inflight' \subseteq inflight, Known \subseteq Known',
               ~\E t \in Threads : SendStep(t)
        PROVE  /\ Requested /\ Counted /\ UNCHANGED scenario /\ Known \subseteq Known'
               /\ \A t \in Threads : SendStep(t) => sent' = [sent EXCEPT ![act[t].cmd] = @ + 1] /\ UNCHANGED orders
    BY <1>4 DEF Requested, Counted
  <1>5. UNCHANGED <<orders>> => Known' = Known
    BY DEF Known
  <1>6. ASSUME NEW a, NEW cid \in Cids, NEW o \in OrderType, NEW q, Update(a, cid, o, q) PROVE Known \subseteq Known'
    <2>1. orders' = [orders EXCEPT ![cid] = o] /\ o # None
      BY <1>6, NoneAssumption DEF Update
    <2> QED BY <1>0, <2>1 DEF Known, OrderTypes
  <1>7. CASE \E t \in Threads, cmd \in Commands :
                \/ PlaceBegin(t, cmd) \/ PlaceReject(t, cmd)
                \/ CancelBegin(t, cmd) \/ AmendBegin(t, cmd)
    <2>1. PICK t \in Threads, cmd \in Commands :
                \/ PlaceBegin(t, cmd) \/ PlaceReject(t, cmd)
                \/ CancelBegin(t, cmd) \/ AmendBegin(t, cmd)
      BY <1>7
    <2>2. PICK pc \in {"intent", "rejected"}, o \in OrderType, q \in [Commands -> Outcomes] :
             Update(t, cmd.cid, o, q) /\ Begin(t, cmd, pc)
      BY <2>1, BeginFacts
    <2>3. UNCHANGED <<sent, scenario, inflight>>
      BY <2>2 DEF Begin, outside
    <2>4. cmd.cid \in Cids
      BY CommandFacts DEF TInv, HistoryTypes
    <2> QED BY <1>3, <1>4, <1>6, <2>2, <2>3, <2>4
  <1>8. CASE \E t \in Threads : FinishStep(t)
    <2>1. PICK t \in Threads, o \in OrderType, outcome \in Outcomes \cup {None} :
             act[t].pc = "finish" /\ Finish(t, o, outcome)
      BY <1>8, FinishTypes
    <2>2. UNCHANGED <<sent, scenario, inflight>> /\ \E q : Update(t, act[t].cmd.cid, o, q)
      BY <2>1 DEF Finish, outside, counters
    <2>3. act[t].cmd.cid \in Cids
      BY <2>1 DEF TInv, CallTypes, InVenueCall, Known
    <2> QED BY <1>3, <1>4, <1>6, <2>2, <2>3
  <1>9. ASSUME NEW a, NEW r \in VenueReport, ApplyExecution(a, r) PROVE Known \subseteq Known'
    <2>1. CASE Records(r)
      <3>1. Owner(r) \in Known /\ Owner(r) \in Cids /\ orders[Owner(r)] \in OrderType
        BY <1>0, <2>1, OwnerKnown DEF Records, Known, OrderTypes
      <3>2. Apply(orders[Owner(r)], r) \in OrderType
        BY <3>1, ApplyType, VenueReportType
      <3> QED BY <1>6, <1>9, <2>1, <3>1, <3>2 DEF ApplyExecution
    <2>2. CASE ~Records(r)
      BY <1>5, <1>9, <2>2 DEF ApplyExecution, core
    <2> QED BY <2>1, <2>2
  <1>10. CASE \E t \in Threads : CommandApply(t)
    <2>1. PICK t \in Threads : CommandApply(t)
      BY <1>10
    <2>2. act[t].reports \in Seq(VenueReport)
      BY ActorFacts DEF TInv, ActorTypes, ActType
    <2>3. UNCHANGED <<sent, scenario, inflight>> /\ act[t].reports # <<>> /\ ApplyExecution(t, Head(act[t].reports))
      BY <2>1 DEF CommandApply, outside, counters
    <2>4. Head(act[t].reports) \in VenueReport
      BY <2>2, <2>3, HeadTailProperties
    <2> QED BY <1>3, <1>4, <1>9, <2>3, <2>4
  <1>11. CASE LaneApply
    <2>1. UNCHANGED <<sent, scenario, inflight>> /\ lane # <<>> /\ ApplyExecution("lane", Head(lane))
      BY <1>11 DEF LaneApply, counters
    <2>2. Head(lane) \in VenueReport
      BY <2>1, HeadTailProperties DEF TInv, VenueTypes
    <2> QED BY <1>3, <1>4, <1>9, <2>1, <2>2
  <1>12. CASE RecApply
    <2>1. act[R].reports \in Seq(VenueReport)
      BY ActorFacts DEF TInv, ActorTypes, ActType
    <2>2. UNCHANGED <<sent, scenario, inflight>> /\ act[R].reports # <<>> /\ ApplyExecution(R, Head(act[R].reports))
      BY <1>12 DEF RecApply, RecKeeps, Rec, TInv, CallTypes, outside, counters
    <2>3. Head(act[R].reports) \in VenueReport
      BY <2>1, <2>2, HeadTailProperties
    <2> QED BY <1>3, <1>4, <1>9, <2>2, <2>3
  <1>13. CASE RecNull
    <2>1. UNCHANGED <<sent, scenario, inflight>>
      BY <1>13 DEF RecNull, RecKeeps, outside, counters
    <2>2. Known' = Known
      BY <1>13, RecNullTypes
    <2> QED BY <1>3, <1>4, <2>1, <2>2
  <1>14. CASE \/ RecBegin \/ RecSnapshot \/ RecSnapshotFails \/ RecOpen \/ RecJudge
              \/ \E cid \in Cids : RecCandidate(cid)
              \/ RecQuery \/ RecQueryNull \/ RecQueryThrows \/ RecEnd
    <2>1. UNCHANGED <<sent, scenario, inflight, orders>>
      BY <1>14 DEF RecBegin, RecSnapshot, RecSnapshotFails, RecOpen, RecJudge, RecCandidate,
           RecQuery, RecQueryNull, RecQueryThrows, RecEnd, RecKeeps, OrdersKept, outside, counters, core
    <2> QED BY <1>3, <1>4, <1>5, <2>1
  <1>15. CASE \E a \in Actors : CommitPersist(a) \/ CommitFails(a)
    <2>1. UNCHANGED <<sent, scenario, inflight, orders>>
      BY <1>15 DEF CommitPersist, CommitFails, outside, counters
    <2> QED BY <1>3, <1>4, <1>5, <2>1
  <1>16. CASE \/ \E t \in Threads : CommandReturn(t)
              \/ Disconnect \/ Connect \/ UNCHANGED vars
              \/ \E x \in ExchangeIds, n \in 1 .. PositionLimit : VenueFill(x, n)
    <2>1. UNCHANGED <<sent, scenario, inflight, orders>>
      BY <1>16 DEF CommandReturn, Disconnect, Connect, VenueFill, outside, counters, core, vars
    <2> QED BY <1>3, <1>4, <1>5, <2>1
  <1>17. CASE \E r \in inflight : VenueArrive(r) \/ VenueLose(r)
    <2>1. UNCHANGED <<sent, scenario, orders>> /\ inflight' \subseteq inflight
      BY <1>17 DEF VenueArrive, VenueLose, counters, core
    <2> QED BY <1>3, <1>4, <1>5, <2>1
  <1> QED BY <1>3, <1>7, <1>8, <1>10, <1>11, <1>12, <1>13, <1>14, <1>15, <1>16, <1>17
          DEF Next, CommandStep, SendStep, FinishStep, RecStep
-----------------------------------------------------------------------------
\* What OrderStateMachine::apply writes.
LEMMA ApplyWrites ==
    ASSUME NEW o \in OrderType, NEW r \in ReportType, r.price = None
    PROVE  LET p == Apply(o, r)
               historical == IsHistoricalGeneration(o, r)
           IN  /\ p \in OrderType
               /\ p.clients = o.clients /\ p.aliases = o.aliases /\ p.offsets = o.offsets /\ p.price = o.price
               /\ p = o \/
                  /\ ~IsInvalid(o, r)
                  /\ p.exid = IF ~historical /\ r.exid # None THEN r.exid ELSE o.exid
                  /\ p.quantity = IF ~historical /\ r.quantity # None THEN ObservedQuantity(o, r) ELSE o.quantity
                  /\ p.status = DeriveStatus(MergeTerms(o, r), r, AggregateFilled(o, r), historical, StaleSequence(o, r))
                  /\ p.filled = FilledAfter(MergeTerms(o, r), p.status, AggregateFilled(o, r))
                  /\ MergeTerms(o, r).quantity = p.quantity /\ MergeTerms(o, r).status = o.status
                  /\ MergeTerms(o, r).filled = o.filled /\ MergeTerms(o, r) \in OrderType
  <1>0. PICK p : p = Apply(o, r)
    OBVIOUS
  <1>1. p \in OrderType
    BY <1>0, ApplyType
  <1>2. CASE Disposition(o, r) \in {"Duplicate", "Invalid"}
    BY <1>0, <1>1, <1>2 DEF Apply
  <1>3. CASE Disposition(o, r) \notin {"Duplicate", "Invalid"}
    <2>1. PICK historical : historical = IsHistoricalGeneration(o, r)
      OBVIOUS
    <2>2. PICK terms, q : /\ terms = MergeTerms(o, r)
                          /\ q = IF ~historical /\ r.quantity # None THEN ObservedQuantity(o, r) ELSE o.quantity
      OBVIOUS
    <2>3. terms \in OrderType
      BY <2>2, MergeTermsType
    <2>4. /\ terms.clients = o.clients /\ terms.aliases = o.aliases /\ terms.offsets = o.offsets
          /\ terms.price = o.price /\ terms.exid = o.exid /\ terms.quantity = q
          /\ terms.status = o.status /\ terms.filled = o.filled
      <3>1. CASE historical
        BY <2>1, <2>2, <3>1 DEF MergeTerms
      <3>2. CASE ~historical
        <4>1. terms = [o EXCEPT !.price = o.price, !.quantity = q]
          BY <2>1, <2>2, <3>2 DEF MergeTerms, OrderType
        <4> QED BY <4>1 DEF OrderType
      <3> QED BY <3>1, <3>2
    <2>5. PICK status, filled, exid, sequence, events :
             /\ status = DeriveStatus(terms, r, AggregateFilled(o, r), historical, StaleSequence(o, r))
             /\ filled = FilledAfter(terms, status, AggregateFilled(o, r))
             /\ exid = IF ~historical /\ r.exid # None THEN r.exid ELSE terms.exid
             /\ sequence = IF r.sequence # None /\ (terms.lastSequence = None \/ r.sequence > terms.lastSequence)
                           THEN r.sequence ELSE terms.lastSequence
             /\ events = IF r.event # None THEN terms.events \cup {r.event} ELSE terms.events
      OBVIOUS
    <2>6. PICK merged : merged = [terms EXCEPT !.status = status, !.filled = filled, !.exid = exid,
                                    !.lastSequence = sequence, !.events = events]
      OBVIOUS
    <2>7. merged = MergeFills(o, r)
      BY <2>1, <2>2, <2>3, <2>5, <2>6 DEF MergeFills, OrderType
    <2>8. /\ merged.clients = o.clients /\ merged.aliases = o.aliases /\ merged.offsets = o.offsets
          /\ merged.price = o.price /\ merged.exid = exid /\ merged.quantity = q
          /\ merged.status = status /\ merged.filled = filled
      BY <2>3, <2>4, <2>6 DEF OrderType
    <2>9. ~IsInvalid(o, r) /\ p = Merge(o, r)
      BY <1>0, <1>3 DEF Disposition, Apply
    <2>10. p = merged \/ p = [merged EXCEPT !.pending = "None", !.pendingPrice = None, !.pendingQuantity = None]
      BY <2>7, <2>9 DEF Merge
    <2>11. merged \in OrderType
      BY <2>7, <2>9, MergeFillsType
    <2>12. /\ p.clients = o.clients /\ p.aliases = o.aliases /\ p.offsets = o.offsets
           /\ p.price = o.price /\ p.exid = exid /\ p.quantity = q
           /\ p.status = status /\ p.filled = filled
      BY <2>8, <2>10, <2>11 DEF OrderType
    <2> QED BY <1>0, <1>1, <2>1, <2>2, <2>3, <2>4, <2>5, <2>9, <2>12
  <1> QED BY <1>2, <1>3
-----------------------------------------------------------------------------
(***************************************************************************)
(* Names.  Reports, copies, requests and answers name physical orders of   *)
(* the order they are about, and an order keeps its price.                 *)
(***************************************************************************)
NamedReports ==
    {r \in VenueReport : venue[r.exid] # None /\ r.client \in {venue[r.exid].cid, r.exid}}
NamedOrders ==
    [cid \in Cids |->
        {o \in OrderType : /\ cid \in Known /\ o.price = orders[cid].price
                           /\ o.clients \subseteq {cid} \cup PhysOf(cid)
                           /\ o.exid # None => o.exid \in PhysOf(cid)
                           /\ o.aliases \subseteq PhysOf(cid)}]
NamesInv ==
    /\ OrdersIn(NamedOrders)
    /\ ReportsIn(NamedReports)
    /\ \A t \in Threads : act[t].pc = "finish" /\ act[t].result.exid # None =>
          act[t].result.exid \in PhysOf(act[t].cmd.cid)
    /\ act[R].pc = "query" /\ rec.exid # None => rec.exid \in PhysOf(rec.cid)
    /\ \A r \in inflight : r.exid # None => r.exid \in PhysOf(r.cid)

LEMMA NamesTarget ==
    ASSUME TInv, NamesInv
    PROVE  TargetsOwn
  <1>1. ASSUME NEW cid, NEW exid, exid # None => exid \in PhysOf(cid)
        PROVE  Target(cid, exid) \subseteq PhysOf(cid)
    BY <1>1 DEF Target, PhysOf
  <1>2. ASSUME NEW cid \in Known PROVE orders[cid].exid # None => orders[cid].exid \in PhysOf(cid)
    <2>1. cid \in Cids /\ orders[cid] \in NamedOrders[cid]
      BY DEF NamesInv, OrdersIn, Known
    <2> QED BY <2>1 DEF NamedOrders
  <1>3. ASSUME NEW t \in Threads, act[t].pc = "send"
        PROVE  Target(act[t].cmd.cid, orders[act[t].cmd.cid].exid) \subseteq PhysOf(act[t].cmd.cid)
    <2>1. act[t].cmd.cid \in Known
      BY <1>3 DEF TInv, CallTypes, InVenueCall
    <2> QED BY <1>1, <1>2, <2>1
  <1>4. act[R].pc = "query" => Target(rec.cid, rec.exid) \subseteq PhysOf(rec.cid)
    BY <1>1 DEF NamesInv
  <1>5. \A r \in inflight : Target(r.cid, r.exid) \subseteq PhysOf(r.cid)
    BY <1>1 DEF NamesInv
  <1> QED BY <1>3, <1>4, <1>5 DEF TargetsOwn

\* locate_order_locked finds the order a report is about, or none.
LEMMA OwnerOwns ==
    ASSUME TInv, NamesInv, NEW r \in NamedReports, Owner(r) # None
    PROVE  /\ Owner(r) = venue[r.exid].cid /\ r.exid \in PhysOf(Owner(r))
           /\ Owner(r) \in Known /\ Owner(r) \in Cids /\ r \in VenueReport
  <1>1. /\ r \in VenueReport /\ r.exid \in ExchangeIds /\ venue[r.exid] # None
        /\ r.client \in {venue[r.exid].cid, r.exid}
    BY DEF NamedReports, VenueReport
  <1>2. venue[r.exid].cid \in Cids /\ r.exid \notin Cids
    BY <1>1, GatewayAssumption DEF TInv, VenueTypes, PhysType
  <1>3. ASSUME NEW cid \in Known, r.client \in orders[cid].clients \/ r.exid \in {orders[cid].exid} \cup orders[cid].aliases
        PROVE  cid = venue[r.exid].cid
    <2>1. orders[cid] \in NamedOrders[cid] /\ cid \in Cids
      BY DEF NamesInv, OrdersIn, Known
    <2>2. /\ orders[cid].clients \subseteq {cid} \cup PhysOf(cid)
          /\ orders[cid].exid # None => orders[cid].exid \in PhysOf(cid)
          /\ orders[cid].aliases \subseteq PhysOf(cid)
      BY <2>1 DEF NamedOrders
    <2>3. CASE r.client \in orders[cid].clients
      <3>1. CASE r.client = r.exid
        BY <1>2, <2>1, <2>2, <2>3, <3>1 DEF PhysOf
      <3>2. CASE r.client = venue[r.exid].cid
        BY <1>2, <2>1, <2>2, <2>3, <3>2, GatewayAssumption DEF PhysOf
      <3> QED BY <1>1, <3>1, <3>2
    <2>4. CASE r.exid \in {orders[cid].exid} \cup orders[cid].aliases
      BY <1>1, <2>2, <2>4, NoneAssumption DEF PhysOf
    <2> QED BY <1>3, <2>3, <2>4
  <1>4. Owner(r) \in Known /\
        (r.client \in orders[Owner(r)].clients \/ r.exid \in {orders[Owner(r)].exid} \cup orders[Owner(r)].aliases)
    BY DEF Owner
  <1>5. Owner(r) = venue[r.exid].cid
    BY <1>3, <1>4
  <1> QED BY <1>1, <1>2, <1>4, <1>5 DEF PhysOf

\* A physical order stays, and stays the order's.
LEMMA PhysStays ==
    ASSUME TInv, [Next]_vars, NEW x \in ExchangeIds, venue[x] # None
    PROVE  venue'[x] # None /\ venue'[x].cid = venue[x].cid /\ venue'[x].first = venue[x].first
  <1>0. None \notin PhysType
    BY GatewayAssumption
  <1>1. CASE Crash
    BY <1>0, <1>1, CrashVenue DEF Continues
  <1>2. CASE ~Crash
    <2>1. VenueStep
      BY <1>2, VenueSteps
    <2>2. venue'[x] = venue[x] \/ Continues(x)
      BY <2>1 DEF VenueStep, Traded, Closed, Resized, Placed, Supplants, Appears
    <2> QED BY <1>0, <2>2 DEF Continues
  <1> QED BY <1>1, <1>2

LEMMA PhysGrows ==
    ASSUME TInv, [Next]_vars
    PROVE  \A cid : PhysOf(cid) \subseteq PhysOf(cid)'
  BY PhysStays DEF PhysOf

\* The physical order an answer brings is one of the order.
LEMMA AnswerNames ==
    ASSUME TInv, TargetsOwn, NEW t \in Threads, SendStep(t), act'[t].result.exid # None
    PROVE  act'[t].result.exid \in PhysOf(act[t].cmd.cid)'
  <1>0. /\ VenueTypes /\ ActorTypes /\ scenario \in Scenarios /\ t \in Actors /\ act[t].pc = "send"
        /\ None \notin PhysType
    BY ActorFacts, SendTypes, GatewayAssumption DEF TInv, HistoryTypes
  <1>1. ASSUME NEW result, Answered(t, result) PROVE act'[t].result = result /\ act'[t].cmd = act[t].cmd
    <2>1. act' = [act EXCEPT ![t].pc = "finish", ![t].result = result]
      BY <1>1 DEF Answered
    <2> QED BY <1>0, <2>1, ZenonT(30) DEF ActorTypes, ActType
  <1>2. PICK k, r : k = act[t].cmd /\ r = Request(k, TRUE)
    OBVIOUS
  <1>3. ASSUME ~NothingToReplace(k)
        PROVE  /\ r \in RequestType /\ r.op = k.op /\ r.cid = k.cid /\ r.exid = orders[k.cid].exid
               /\ r.quantity = WireQuantity(k)
               /\ k.op = "place" \/ Kind = "Okx" => r.quantity = k.quantity
    BY <1>0, <1>2, <1>3, RequestOfCall
  <1>4. CASE PlaceAccepted(t)
    <2>1. PICK x \in Free : /\ VenueMoves(x, NewPhys(k.cid, k.quantity, TRUE, TRUE))
                            /\ Answered(t, Result("ack", x, <<>>)) /\ k.op = "place"
      BY <1>2, <1>4 DEF PlaceAccepted
    <2>2. /\ r \in RequestType /\ r.op = "place" /\ r.cid = k.cid /\ r.quantity = k.quantity
      BY <1>3, <2>1 DEF NothingToReplace
    <2>3. x \in ExchangeIds /\ Placed(x, r)
      BY <1>0, <2>1, <2>2, PlaceTo
    <2>4. act'[t].result.exid = x /\ act'[t].cmd = act[t].cmd
      BY <1>1, <2>1 DEF Result
    <2> QED BY <1>0, <1>2, <2>2, <2>3, <2>4 DEF Placed, Appears, PhysOf
  <1>5. CASE BinanceAmendAccepted(t)
    <2>1. PICK old \in Target(k.cid, orders[k.cid].exid), x \in Free :
             /\ Working(old) /\ VenueReplaces(old, x, WireQuantity(k), TRUE)
             /\ \E reports : Answered(t, Result("ack", x, reports))
      BY <1>2, <1>5 DEF BinanceAmendAccepted
    <2>2. Kind = "Binance" /\ k.op = "amend" /\ ~NothingToReplace(k)
      BY <1>2, <1>5 DEF BinanceAmendAccepted
    <2>3. /\ r \in RequestType /\ r.op = "amend" /\ r.cid = k.cid /\ r.exid = orders[k.cid].exid
          /\ r.quantity = WireQuantity(k)
      BY <1>3, <2>2
    <2>4. x \in ExchangeIds /\ Supplants(x, old, r)
      BY <1>0, <2>1, <2>2, <2>3, ReplaceTo
    <2>5. venue[old].cid = k.cid
      BY <1>0, <1>2, <2>1 DEF TargetsOwn, PhysOf
    <2>6. act'[t].result.exid = x /\ act'[t].cmd = act[t].cmd
      BY <1>1, <2>1 DEF Result
    <2> QED BY <1>0, <1>2, <2>4, <2>5, <2>6 DEF Supplants, Appears, PhysOf
  <1>6. CASE ~PlaceAccepted(t) /\ ~BinanceAmendAccepted(t)
    <2>1. \E kind, reports : Answered(t, Result(kind, None, reports))
      BY <1>6 DEF SendStep, SendUncertain, SendRejected, CancelAccepted, OkxAmendAccepted, OkxAmendMade,
           BinanceAmendHalfDone
    <2>2. act'[t].result.exid = None
      BY <1>1, <2>1 DEF Result
    <2> QED BY <2>2
  <1> QED BY <1>4, <1>5, <1>6

\* What the reconciler asks for is the order as it was when it decided to ask.
LEMMA QuerySteps ==
    ASSUME TInv, [Next]_vars, act'[R].pc = "query"
    PROVE  \/ act[R].pc = "query" /\ UNCHANGED rec
           \/ \E cid \in Known : rec'.cid = cid /\ rec'.exid = orders[cid].exid
  <1>0. /\ ActorTypes /\ R \in Actors /\ R \notin Threads /\ R # "lane" /\ act \in [Actors -> ActType]
        /\ Threads \subseteq Actors /\ rec \in RecType /\ CallTypes
    BY ActorFacts DEF TInv, ActorTypes
  <1>1. CASE act'[R] = act[R] /\ UNCHANGED rec
    BY <1>1
  <1>2. CASE \E t \in Threads, cmd \in Commands :
                \/ PlaceBegin(t, cmd) \/ PlaceReject(t, cmd)
                \/ CancelBegin(t, cmd) \/ AmendBegin(t, cmd)
    <2>1. PICK t \in Threads : \E cmd, pc : Begin(t, cmd, pc)
      BY <1>2 DEF PlaceBegin, PlaceReject, CancelBegin, AmendBegin
    <2>2. act'[R] = act[R] /\ UNCHANGED rec
      BY <1>0, <2>1 DEF Begin
    <2> QED BY <1>1, <2>2
  <1>3. CASE \E t \in Threads : CommandStep(t)
    <2>1. PICK t \in Threads : CommandStep(t)
      BY <1>3
    <2>2. CASE SendStep(t)
      <3>1. PICK result : Answered(t, result)
        BY <2>2, SendTypes
      <3>2. act' = [act EXCEPT ![t].pc = "finish", ![t].result = result] /\ UNCHANGED rec
        BY <3>1 DEF Answered
      <3> QED BY <1>0, <1>1, <3>2
    <2>3. CASE FinishStep(t)
      <3>1. PICK reports : act' = [act EXCEPT ![t].pc = "outcome", ![t].reports = reports] /\ UNCHANGED rec
        BY <2>3, FinishTypes DEF Finish
      <3> QED BY <1>0, <1>1, <3>1
    <2>4. CASE CommandApply(t)
      <3>1. PICK reports, pc : act' = [act EXCEPT ![t].reports = reports, ![t].pc = pc] /\ UNCHANGED rec
        BY <2>4 DEF CommandApply
      <3> QED BY <1>0, <1>1, <3>1
    <2>5. CASE CommandReturn(t)
      <3>1. act' = [act EXCEPT ![t] = Idle] /\ UNCHANGED rec
        BY <2>5 DEF CommandReturn
      <3> QED BY <1>0, <1>1, <3>1
    <2> QED BY <2>1, <2>2, <2>3, <2>4, <2>5 DEF CommandStep, SendStep, FinishStep
  <1>4. ASSUME NEW a \in Actors, CommitPersist(a)
        PROVE  act'[R] = act[R] /\ UNCHANGED rec
    <2>1. act' = [act EXCEPT ![a].pc = AfterAppend(a)] /\ UNCHANGED rec
          /\ act[a].pc \in {"rejected", "intent", "outcome", "applied"}
      BY <1>4 DEF CommitPersist, Goto
    <2>2. AfterAppend(a) # "query"
      BY <2>1 DEF AfterAppend
    <2>3. a # R
      BY <1>0, <2>1, <2>2 DEF ActType
    <2> QED BY <1>0, <2>1, <2>3
  <1>5. ASSUME NEW a \in Actors, CommitFails(a)
        PROVE  act'[R] = act[R] /\ UNCHANGED rec
    <2>1. CASE a = R
      <3>1. act' = [act EXCEPT ![a] = [Idle EXCEPT !.pc = "candidates"]]
        BY <1>5, <2>1 DEF CommitFails, R
      <3> QED BY <1>0, <2>1, <3>1 DEF Idle
    <2>2. CASE a # R
      <3>1. act' = [act EXCEPT ![a] = Idle] /\ UNCHANGED rec
        BY <1>5, <2>2 DEF CommitFails, R
      <3> QED BY <1>0, <2>2, <3>1
    <2> QED BY <2>1, <2>2
  <1>6. CASE LaneApply
    <2>1. (act' = act \/ act' = [act EXCEPT !["lane"].pc = "applied"]) /\ UNCHANGED rec
      BY <1>6 DEF LaneApply, Goto
    <2>2. act'[R] = act[R]
      BY <1>0, <2>1
    <2> QED BY <1>1, <2>1, <2>2
  <1>7. ASSUME NEW cid \in Cids, RecCandidate(cid)
        PROVE  \/ act[R].pc = "query" /\ UNCHANGED rec
               \/ \E c \in Known : rec'.cid = c /\ rec'.exid = orders[c].exid
    <2>1. act[R].pc = "candidates" /\ cid \in rec.todo
      BY <1>7 DEF RecCandidate, Rec
    <2>2. act' # act
      BY <2>1
    <2>3. rec' = [rec EXCEPT !.todo = @ \ {cid}, !.cid = cid, !.exid = orders[cid].exid]
      BY <1>7, <2>2 DEF RecCandidate
    <2>4. rec'.cid = cid /\ rec'.exid = orders[cid].exid /\ cid \in Known
      BY <1>0, <2>1, <2>3 DEF RecType, CallTypes
    <2> QED BY <2>4
  <1>8. CASE RecSnapshotFails \/ RecJudge \/ RecQueryNull \/ RecQueryThrows \/ RecNull \/ RecBegin
    <2>1. PICK pc \in {"candidates", "open", "null", "applied", "snapshot"} : Goto(R, pc)
      BY <1>8 DEF RecSnapshotFails, RecJudge, RecQueryNull, RecQueryThrows, RecNull, RecBegin
    <2>2. act'[R].pc = pc
      BY <1>0, <2>1 DEF Goto, ActType
    <2> QED BY <2>2
  <1>9. CASE RecSnapshot
    <2>1. PICK reports : act' = [act EXCEPT ![R].pc = "open", ![R].reports = reports]
      BY <1>9 DEF RecSnapshot
    <2>2. act'[R].pc = "open"
      BY <1>0, <2>1 DEF ActType
    <2> QED BY <2>2
  <1>10. CASE RecOpen
    <2>1. \/ act' = [act EXCEPT ![R].pc = "candidates"]
          \/ \E reports : act' = [act EXCEPT ![R].reports = reports]
          \/ \E cid : act' = [act EXCEPT ![R].reports[1].client = cid, ![R].pc = "openApply"]
      BY <1>10 DEF RecOpen, Goto
    <2>2. act[R].pc = "open"
      BY <1>10 DEF RecOpen, Rec
    <2>3. act'[R].pc \in {"open", "candidates", "openApply"}
      <3>1. CASE act' = [act EXCEPT ![R].pc = "candidates"]
        BY <1>0, <3>1 DEF ActType
      <3>2. ASSUME NEW reports, act' = [act EXCEPT ![R].reports = reports] PROVE act'[R].pc = act[R].pc
        BY <1>0, <3>2 DEF ActType
      <3>3. ASSUME NEW cid, act' = [act EXCEPT ![R].reports[1].client = cid, ![R].pc = "openApply"]
            PROVE  act'[R].pc = "openApply"
        BY <1>0, <3>3, ZenonT(30) DEF ActType
      <3> QED BY <2>1, <2>2, <3>1, <3>2, <3>3
    <2> QED BY <2>3
  <1>11. CASE RecApply
    <2>1. PICK reports, pc : act' = [act EXCEPT ![R].reports = reports, ![R].pc = pc] /\ pc \in {"applied", "judge"}
      BY <1>11 DEF RecApply
    <2>2. act'[R].pc = pc
      BY <1>0, <2>1 DEF ActType
    <2> QED BY <2>1, <2>2
  <1>12. CASE RecQuery
    <2>1. PICK reports : act' = [act EXCEPT ![R].pc = "answer", ![R].reports = reports]
      BY <1>12 DEF RecQuery
    <2>2. act'[R].pc = "answer"
      BY <1>0, <2>1 DEF ActType
    <2> QED BY <2>2
  <1>13. CASE RecEnd \/ Crash
    <2>1. act'[R] = Idle
      BY <1>0, <1>13 DEF RecEnd, Crash
    <2> QED BY <2>1 DEF Idle
  <1>14. CASE OutsideStep \/ UNCHANGED vars
    <2>1. UNCHANGED <<act, rec>>
      BY <1>14 DEF OutsideStep, Disconnect, Connect, VenueFill, VenueArrive, VenueLose, vars
    <2> QED BY <1>1, <2>1
  <1> QED BY <1>1, <1>2, <1>3, <1>4, <1>5, <1>6, <1>7, <1>8, <1>9, <1>10, <1>11, <1>12, <1>13, <1>14
          DEF Next, RecStep, OutsideStep

LEMMA RejectionType ==
    ASSUME NEW o \in OrderType
    PROVE  PlaceRejection(o) \in ReportType /\ PlaceRejection(o).price = None /\ PlaceRejection(o).exid = None
  <1>1. o.filled \in Int
    BY DEF OrderType
  <1> QED BY <1>1 DEF PlaceRejection, ReportType, Statuses

\* The names a replacement leaves.
LEMMA ReplacedNames ==
    ASSUME NEW o \in OrderType, NEW result
    PROVE  /\ Replaced(o, result).clients = o.clients \cup {result.exid}
           /\ Replaced(o, result).aliases = IF o.exid = None THEN o.aliases ELSE o.aliases \cup {o.exid}
           /\ Replaced(o, result).exid = result.exid /\ Replaced(o, result).price = o.price
  <1>1. PICK final, fresh : /\ final = FinalFill(o, result)
                            /\ fresh = CHOOSE r \in ToSet(result.reports) : r.exid = result.exid
    OBVIOUS
  <1>2. PICK aliases, offsets, status, q, clients :
           /\ aliases = IF o.exid = None THEN o.aliases ELSE o.aliases \cup {o.exid}
           /\ offsets = [o.offsets EXCEPT ![result.exid] = final]
           /\ status = IF final > 0 THEN "PartiallyFilled" ELSE "Live"
           /\ q = final + fresh.quantity /\ clients = o.clients \cup {result.exid}
    OBVIOUS
  <1>3. PICK p : p = [o EXCEPT !.aliases = aliases, !.filled = final, !.exid = result.exid, !.offsets = offsets,
                                !.status = status, !.pendingQuantity = q, !.clients = clients]
    OBVIOUS
  <1>4. Replaced(o, result) = p
    BY <1>1, <1>2, <1>3 DEF Replaced, OrderType
  <1>5. p.clients = clients /\ p.aliases = aliases /\ p.exid = result.exid /\ p.price = o.price
    BY <1>3 DEF OrderType
  <1> QED BY <1>2, <1>4, <1>5

\* A step makes the order's names of what it had, the answer and the reports of the order.
LEMMA BecomesNamed ==
    ASSUME TInv, NamesInv, NEW cid \in Cids, NEW p \in OrderType, Becomes(cid, p, NamedReports)
    PROVE  /\ p.clients \subseteq {cid} \cup PhysOf(cid)
           /\ p.exid # None => p.exid \in PhysOf(cid)
           /\ p.aliases \subseteq PhysOf(cid)
           /\ cid \in Known => p.price = orders[cid].price
  <1>0. ASSUME cid \in Known
        PROVE  /\ orders[cid] \in OrderType
               /\ orders[cid].clients \subseteq {cid} \cup PhysOf(cid)
               /\ orders[cid].exid # None => orders[cid].exid \in PhysOf(cid)
               /\ orders[cid].aliases \subseteq PhysOf(cid)
    <2>1. orders[cid] \in NamedOrders[cid]
      BY <1>0 DEF NamesInv, OrdersIn
    <2> QED BY <2>1 DEF NamedOrders
  <1>1. ASSUME NEW t \in Threads, act[t].pc = "finish", act[t].cmd.cid = cid
        PROVE  /\ cid \in Known /\ act[t].result.exid \in ExchangeIds \cup {None}
               /\ act[t].result.exid # None => act[t].result.exid \in PhysOf(cid)
    BY <1>1 DEF TInv, CallTypes, InVenueCall, Answer, ResultType, NamesInv
  <1>2. CASE \E cmd \in Commands :
                /\ cid \notin Known
                /\ \/ p = MakeOrder(cid, cmd.price, cmd.quantity)
                   \/ p = [MakeOrder(cid, cmd.price, cmd.quantity) EXCEPT !.status = "Rejected", !.pending = "None"]
    <2>1. PICK cmd \in Commands :
                /\ cid \notin Known
                /\ \/ p = MakeOrder(cid, cmd.price, cmd.quantity)
                   \/ p = [MakeOrder(cid, cmd.price, cmd.quantity) EXCEPT !.status = "Rejected", !.pending = "None"]
      BY <1>2
    <2>2. PICK m : m = MakeOrder(cid, cmd.price, cmd.quantity)
      OBVIOUS
    <2>3. p = m \/ p = [m EXCEPT !.status = "Rejected", !.pending = "None"]
      BY <2>1, <2>2
    <2>4. m.clients = {cid} /\ m.exid = None /\ m.aliases = {}
      BY <2>2 DEF MakeOrder
    <2>5. p.clients = m.clients /\ p.exid = m.exid /\ p.aliases = m.aliases
      BY <2>2, <2>3 DEF MakeOrder
    <2> QED BY <2>1, <2>4, <2>5
  <1>3. CASE cid \in Known /\ Remarked(orders[cid], p)
    BY <1>0, <1>3 DEF Remarked
  <1>4. CASE \E t \in Threads :
                /\ At(t, "place", "ack") /\ act[t].cmd.cid = cid
                /\ p = [orders[cid] EXCEPT !.exid = act[t].result.exid,
                          !.status = IF @ = "Unknown" THEN "Live" ELSE @, !.pending = "None"]
    <2>1. PICK t \in Threads : \E status :
                /\ act[t].pc = "finish" /\ act[t].cmd.cid = cid
                /\ p = [orders[cid] EXCEPT !.exid = act[t].result.exid, !.status = status, !.pending = "None"]
      BY <1>4 DEF At
    <2>2. cid \in Known /\ orders[cid] \in OrderType
      BY <1>0, <1>1, <2>1
    <2>3. /\ p.clients = orders[cid].clients /\ p.aliases = orders[cid].aliases /\ p.price = orders[cid].price
          /\ p.exid = act[t].result.exid
      BY <2>1, <2>2 DEF OrderType
    <2> QED BY <1>0, <1>1, <2>1, <2>2, <2>3
  <1>5. CASE \E t \in Threads :
                /\ At(t, "place", "reject") /\ act[t].cmd.cid = cid
                /\ p = Apply(orders[cid], PlaceRejection(orders[cid]))
    <2>1. PICK t \in Threads : act[t].pc = "finish" /\ act[t].cmd.cid = cid
                               /\ p = Apply(orders[cid], PlaceRejection(orders[cid]))
      BY <1>5 DEF At
    <2>2. cid \in Known /\ orders[cid] \in OrderType
      BY <1>0, <1>1, <2>1
    <2>3. PICK r \in ReportType : r = PlaceRejection(orders[cid]) /\ r.price = None /\ r.exid = None
      BY <2>2, RejectionType
    <2>4. /\ p.clients = orders[cid].clients /\ p.aliases = orders[cid].aliases /\ p.price = orders[cid].price
          /\ p.exid = orders[cid].exid
      BY <2>1, <2>2, <2>3, ApplyWrites
    <2> QED BY <1>0, <2>2, <2>4
  <1>6. CASE \E t \in Threads :
                /\ At(t, "amend", "ack") /\ act[t].cmd.cid = cid /\ act[t].result.exid # None
                /\ p = Replaced(orders[cid], act[t].result)
    <2>1. PICK t \in Threads :
                /\ act[t].pc = "finish" /\ act[t].cmd.cid = cid /\ act[t].result.exid # None
                /\ p = Replaced(orders[cid], act[t].result)
      BY <1>6 DEF At
    <2>2. cid \in Known /\ orders[cid] \in OrderType /\ act[t].result.exid \in PhysOf(cid)
      BY <1>0, <1>1, <2>1
    <2>3. PICK result : result = act[t].result
      OBVIOUS
    <2>4. /\ p.clients = orders[cid].clients \cup {result.exid}
          /\ p.aliases = IF orders[cid].exid = None THEN orders[cid].aliases
                         ELSE orders[cid].aliases \cup {orders[cid].exid}
          /\ p.exid = result.exid /\ p.price = orders[cid].price
      BY <2>1, <2>2, <2>3, ReplacedNames
    <2> QED BY <1>0, <2>2, <2>3, <2>4
  <1>7. CASE \E r \in NamedReports : cid \in Known /\ Owner(r) = cid /\ p = Apply(orders[cid], r)
    <2>1. PICK r \in NamedReports : cid \in Known /\ Owner(r) = cid /\ p = Apply(orders[cid], r)
      BY <1>7
    <2>2. r \in ReportType /\ r.price = None /\ r.exid \in PhysOf(cid) /\ orders[cid] \in OrderType
      <3>1. Owner(r) # None
        BY <2>1, NoneAssumption, GatewayAssumption
      <3>2. r \in VenueReport /\ r.exid \in PhysOf(cid)
        BY <2>1, <3>1, OwnerOwns
      <3> QED BY <1>0, <2>1, <3>2, VenueReportType DEF VenueReport
    <2>3. /\ p.clients = orders[cid].clients /\ p.aliases = orders[cid].aliases /\ p.price = orders[cid].price
          /\ p.exid \in {orders[cid].exid, r.exid}
      BY <2>1, <2>2, ApplyWrites
    <2> QED BY <1>0, <2>1, <2>2, <2>3
  <1> QED BY <1>2, <1>3, <1>4, <1>5, <1>6, <1>7 DEF Becomes

\* No step of the gateway changes the price of an order.
LEMMA PriceStays ==
    ASSUME TInv, NamesInv, [Next]_vars, ~Crash, NEW cid \in Known
    PROVE  cid \in Known' /\ orders'[cid] \in OrderType /\ orders'[cid].price = orders[cid].price
  <1>1. PICK S, K, L : /\ S = NamedReports /\ K = NamedOrders
                       /\ L = [c \in Cids |-> {o \in OrderType : c \in Known => o.price = orders[c].price}]
    OBVIOUS
  <1>2. S \subseteq VenueReport /\ ReportsIn(S) /\ OrdersIn(K)
    BY <1>1 DEF NamedReports, NamesInv
  <1>3. \A c \in Cids : K[c] \subseteq L[c]
    BY <1>1 DEF NamedOrders
  <1>4. ASSUME NEW c \in Cids, NEW p \in OrderType, Becomes(c, p, S) PROVE p \in L[c]
    <2>1. Becomes(c, p, NamedReports)
      BY <1>1, <1>4
    <2>2. c \in Known => p.price = orders[c].price
      BY <2>1, BecomesNamed
    <2> QED BY <1>1, <2>2
  <1>5. OrdersIn(L)'
    BY <1>2, <1>3, <1>4, StepOrders
  <1>6. cid \in Known' /\ cid \in Cids
    BY RequestSteps DEF Known
  <1>7. orders'[cid] \in L[cid]
    BY <1>5, <1>6 DEF OrdersIn
  <1> QED BY <1>1, <1>6, <1>7

LEMMA NamesStep ==
    ASSUME TInv, TInv', NamesInv, [Next]_vars
    PROVE  NamesInv'
  <1>0. /\ TargetsOwn /\ VenueTypes /\ VenueTypes' /\ OrderTypes' /\ scenario \in Scenarios
        /\ \A cid : PhysOf(cid) \subseteq PhysOf(cid)'
    BY NamesTarget, PhysGrows DEF TInv, HistoryTypes
  <1>1. PICK S, T, K, L : S = NamedReports /\ T = NamedReports' /\ K = NamedOrders /\ L = NamedOrders'
    OBVIOUS
  <1>2. S \subseteq VenueReport /\ ReportsIn(S) /\ OrdersIn(K)
    BY <1>1 DEF NamedReports, NamesInv
  <1>3. T = {r \in VenueReport : venue'[r.exid] # None /\ r.client \in {venue'[r.exid].cid, r.exid}}
    BY <1>1 DEF NamedReports, VenueReport
  <1>4. L = [cid \in Cids |->
                {o \in OrderType : /\ cid \in Known' /\ o.price = orders'[cid].price
                                   /\ o.clients \subseteq {cid} \cup PhysOf(cid)'
                                   /\ o.exid # None => o.exid \in PhysOf(cid)'
                                   /\ o.aliases \subseteq PhysOf(cid)'}]
    BY <1>1 DEF NamedOrders, OrderType
  <1>5. \A r \in S : r.exid \in ExchangeIds /\ venue'[r.exid] # None /\ venue'[r.exid].cid = venue[r.exid].cid
    <2> TAKE r \in S
    <2>1. r.exid \in ExchangeIds /\ venue[r.exid] # None
      BY <1>1 DEF NamedReports, VenueReport
    <2> QED BY <2>1, PhysStays
  <1>6. S \subseteq T
    BY <1>1, <1>3, <1>5 DEF NamedReports
  <1>7. \A r : Said(r)' => r \in T
    <2> SUFFICES ASSUME NEW r, Said(r)' PROVE r \in T
      OBVIOUS
    <2>1. PICK x \in ExchangeIds : venue'[x] # None /\ Says(r, x, venue'[x])
      BY DEF Said, Says, VenueReport
    <2> QED BY <1>3, <2>1 DEF Says
  <1>8. \A r \in S : Owner(r) # None => [r EXCEPT !.client = Owner(r)] \in T
    <2> SUFFICES ASSUME NEW r \in S, Owner(r) # None PROVE [r EXCEPT !.client = Owner(r)] \in T
      OBVIOUS
    <2>1. Owner(r) = venue[r.exid].cid /\ Owner(r) \in Cids /\ r \in VenueReport
      BY <1>1, OwnerOwns
    <2>2. PICK q : q = [r EXCEPT !.client = Owner(r)]
      OBVIOUS
    <2>3. Owner(r) \in STRING
      BY <2>1, GatewayAssumption
    <2>4. q \in VenueReport /\ q.exid = r.exid /\ q.client = Owner(r)
      BY <2>1, <2>2, <2>3 DEF VenueReport
    <2> QED BY <1>3, <1>5, <2>1, <2>2, <2>4
  <1>9. ReportsIn(T)'
    BY <1>0, <1>2, <1>6, <1>7, <1>8, StepReports
  <1>10. OrdersIn(L)'
    <2>1. CASE Crash
      <3>1. ASSUME NEW cid \in Cids, journal[cid] # None PROVE K[cid] \subseteq L[cid]
        <4>1. journal[cid].order \in K[cid]
          BY <1>2, <3>1 DEF OrdersIn
        <4>2. journal[cid].order \in OrderType /\ journal[cid].order.price = orders[cid].price
          BY <1>1, <4>1 DEF NamedOrders
        <4>3. orders'[cid] = journal[cid].order /\ cid \in Known'
          BY <2>1, <3>1, <4>2, NoneAssumption DEF Crash, Known
        <4> QED BY <1>0, <1>1, <1>4, <4>2, <4>3 DEF NamedOrders
      <3> QED BY <1>2, <2>1, <3>1, CrashOrders
    <2>2. CASE ~Crash
      <3>1. ASSUME NEW cid \in Cids PROVE K[cid] \subseteq L[cid]
        <4>1. CASE cid \in Known
          <5>1. cid \in Known' /\ orders'[cid].price = orders[cid].price
            BY <2>2, <4>1, PriceStays
          <5> QED BY <1>0, <1>1, <1>4, <5>1 DEF NamedOrders
        <4>2. CASE cid \notin Known
          BY <1>1, <4>2 DEF NamedOrders
        <4> QED BY <4>1, <4>2
      <3>2. ASSUME NEW cid \in Cids, NEW p \in OrderType, orders'[cid] = p, Becomes(cid, p, S)
            PROVE  p \in L[cid]
        <4>1. Becomes(cid, p, NamedReports)
          BY <1>1, <3>2
        <4>2. /\ p.clients \subseteq {cid} \cup PhysOf(cid)
              /\ p.exid # None => p.exid \in PhysOf(cid)
              /\ p.aliases \subseteq PhysOf(cid)
          BY <4>1, BecomesNamed
        <4>3. cid \in Known'
          BY <3>2, NoneAssumption DEF Known
        <4> QED BY <1>0, <1>4, <3>2, <4>2, <4>3
      <3> QED BY <1>2, <2>2, <3>1, <3>2, StepOrders
    <2> QED BY <2>1, <2>2
  <1>11. OrdersIn(NamedOrders)' /\ ReportsIn(NamedReports)'
    <2>1. OrdersIn(NamedOrders)'
      BY <1>1, <1>10 DEF OrdersIn
    <2>2. ReportsIn(NamedReports)'
      BY <1>1, <1>9 DEF ReportsIn
    <2> QED BY <2>1, <2>2
  <1>12. \A t \in Threads : act'[t].pc = "finish" /\ act'[t].result.exid # None =>
            act'[t].result.exid \in PhysOf(act[t].cmd.cid)'
    <2> SUFFICES ASSUME NEW t \in Threads, act'[t].pc = "finish", act'[t].result.exid # None
                 PROVE  act'[t].result.exid \in PhysOf(act[t].cmd.cid)'
      OBVIOUS
    <2>1. Proceeds(t)
      BY ThreadSteps
    <2>2. CASE SendStep(t)
      BY <1>0, <2>2, AnswerNames
    <2>3. CASE ~SendStep(t)
      <3>1. act[t].pc = "finish" /\ act'[t].cmd = act[t].cmd /\ act'[t].result = act[t].result
        BY <2>1, <2>3 DEF Proceeds
      <3>2. act[t].result.exid \in PhysOf(act[t].cmd.cid)
        BY <3>1 DEF NamesInv
      <3>3. PICK cid : cid = act[t].cmd.cid
        OBVIOUS
      <3>4. act'[t].result.exid \in PhysOf(cid)'
        BY <1>0, <3>1, <3>2, <3>3
      <3> QED BY <3>1, <3>3, <3>4 DEF PhysOf
    <2> QED BY <2>2, <2>3
  <1>13. ASSUME NEW cid \in Known, orders[cid].exid # None PROVE orders[cid].exid \in PhysOf(cid)
    <2>1. orders[cid] \in NamedOrders[cid] /\ cid \in Cids
      BY DEF NamesInv, OrdersIn, Known
    <2> QED BY <1>13, <2>1 DEF NamedOrders
  <1>14. act'[R].pc = "query" /\ rec'.exid # None => rec'.exid \in PhysOf(rec.cid)'
    <2> SUFFICES ASSUME act'[R].pc = "query", rec'.exid # None PROVE rec'.exid \in PhysOf(rec.cid)'
      OBVIOUS
    <2>1. PICK cid : cid = rec'.cid
      OBVIOUS
    <2>2. rec'.exid \in PhysOf(cid)
      BY <1>13, <2>1, QuerySteps DEF NamesInv
    <2>3. rec'.exid \in PhysOf(cid)'
      BY <1>0, <2>2
    <2> QED BY <2>1, <2>3 DEF PhysOf
  <1>15. ASSUME NEW r \in inflight', r.exid # None PROVE r.exid \in PhysOf(r.cid)'
    <2>1. CASE Crash
      <3>1. PICK q \in inflight : r = [q EXCEPT !.known = FALSE]
        BY <1>15, <2>1 DEF Crash
      <3>2. q \in RequestType
        BY <1>0 DEF VenueTypes
      <3>3. r.exid = q.exid /\ r.cid = q.cid
        BY <3>1, <3>2 DEF RequestType
      <3> QED BY <1>0, <1>15, <3>3 DEF NamesInv
    <2>2. CASE ~Crash
      <3>1. Requested
        BY <2>2, RequestSteps
      <3>2. CASE r \in inflight
        BY <1>0, <1>15, <3>2 DEF NamesInv
      <3>3. CASE r \notin inflight
        <4>1. PICK t \in Threads, b \in BOOLEAN :
                 act[t].pc = "send" /\ ~NothingToReplace(act[t].cmd) /\ r = Request(act[t].cmd, b)
          BY <1>15, <3>1, <3>3 DEF Requested
        <4>2. r.cid \in Known /\ r.exid = orders[r.cid].exid
          BY <4>1, RequestOfCall
        <4> QED BY <1>0, <1>13, <1>15, <4>2
      <3> QED BY <3>2, <3>3
    <2> QED BY <2>1, <2>2
  <1> QED BY <1>11, <1>12, <1>14, <1>15 DEF NamesInv

LEMMA NamesInit == Init => NamesInv
  <1> SUFFICES ASSUME Init PROVE NamesInv
    OBVIOUS
  <1>1. /\ \A cid \in Cids : orders[cid] = None /\ journal[cid] = None /\ deferred[cid] = <<>>
        /\ \A a \in Actors : act[a] = Idle
        /\ lane = <<>> /\ reserved = <<>> /\ inflight = {}
    BY DEF Init
  <1>2. Threads \subseteq Actors /\ R \in Actors /\ DOMAIN reserved = {}
    BY <1>1, ActorFacts
  <1>3. OrdersIn(NamedOrders)
    BY <1>1, <1>2 DEF OrdersIn, Known
  <1>4. ReportsIn(NamedReports)
    <2>1. PICK S : S = NamedReports
      OBVIOUS
    <2>2. <<>> \in Seq(S) /\ Idle.pc = "idle" /\ Idle.reports = <<>>
      BY DEF Idle
    <2>3. ReportsIn(S)
      BY <1>1, <1>2, <2>2 DEF ReportsIn
    <2> QED BY <2>1, <2>3
  <1> QED BY <1>1, <1>2, <1>3, <1>4 DEF NamesInv, Idle
-----------------------------------------------------------------------------
(***************************************************************************)
(* Limits.  What is placed at the venue, on its way there or about to be   *)
(* sent has passed RiskManager, and the rules of the instrument unless it  *)
(* is an amendment.                                                        *)
(***************************************************************************)
Sized(cid, quantity) ==
    /\ quantity > 0 /\ quantity <= scenario.limits.maxOrderSize
    /\ orders[cid].price # None =>
          quantity * orders[cid].price < (scenario.limits.maxNotional + 1) * Scale
Ruled(cid, quantity) ==
    \E rules \in scenario.rules \ {None} :
        /\ rules.trading /\ Within(quantity, rules.quantity)
        /\ orders[cid].price # None =>
              /\ Within(orders[cid].price, rules.price)
              /\ rules.notional.min # None =>
                    quantity * orders[cid].price >= rules.notional.min * Scale

\* The order, or an amendment of it, was given to the adapter.
WasSent(cid, op) == \E k \in Offered(cid) : k.op = op

RequestLegal(r) ==
    r.op # "cancel" => /\ WasSent(r.cid, r.op) /\ Sized(r.cid, r.quantity)
                       /\ r.op = "place" => Ruled(r.cid, r.quantity)
PhysLegal(x) ==
    /\ WasSent(venue[x].cid, "place") /\ Sized(venue[x].cid, venue[x].quantity)
    /\ NotAmended(venue[x].cid) => Ruled(venue[x].cid, venue[x].quantity)
IntentLegal(cmd) ==
    cmd.op # "cancel" => /\ Sized(cmd.cid, cmd.quantity)
                         /\ cmd.op = "place" => Ruled(cmd.cid, cmd.quantity)
LegalInv ==
    /\ \A x \in ExchangeIds : venue[x] # None => PhysLegal(x)
    /\ \A r \in inflight : RequestLegal(r)
    /\ \A t \in Threads : act[t].pc \in {"intent", "send"} => IntentLegal(act[t].cmd)

\* RiskManager::validate as far as the order alone goes.
LEMMA ValidatedSize ==
    ASSUME NEW limits, NEW side, NEW price \in Nat \cup {None}, NEW quantity \in Nat, NEW held,
           limits.maxNotional \in Nat, limits.maxOrderSize \in Nat,
           Validate(limits, side, price, quantity, held) = "accept"
    PROVE  /\ quantity > 0 /\ quantity <= limits.maxOrderSize /\ price \in Nat
           /\ quantity * price < (limits.maxNotional + 1) * Scale
  <1>1. /\ ~(limits = None \/ quantity <= 0 \/ quantity > limits.maxOrderSize \/ price = None)
        /\ ~(Times(quantity, price) > limits.maxNotional)
    BY DEF Validate, Require
  <1>2. quantity > 0 /\ quantity <= limits.maxOrderSize /\ price \in Nat
    BY <1>1
  <1>3. PICK exact : exact = quantity * price
    OBVIOUS
  <1>4. exact \in Nat /\ exact \div Scale <= limits.maxNotional
    <2>1. exact \in Nat /\ Times(quantity, price) = exact \div Scale
      BY <1>2, <1>3, TimesNat
    <2>2. exact \div Scale \in Int
      BY <2>1, DecimalAssumption
    <2> QED BY <1>1, <2>1, <2>2
  <1>5. exact < (limits.maxNotional + 1) * Scale
    BY <1>4, CutFromAbove
  <1> QED BY <1>2, <1>3, <1>5

\* place(): what an accepted order keeps, whether it has a price or not.
LEMMA AcceptedTerms ==
    ASSUME NEW limits, NEW request, NEW held, NEW market, NEW rules, NEW available,
           limits.maxNotional \in Nat, limits.maxOrderSize \in Nat,
           request.quantity \in Nat, request.price \in Nat \cup {None},
           rules # None => rules.notional.min \in Nat \cup {None},
           PlaceDecision(limits, request, held, market, rules, available) = "accept"
    PROVE  /\ rules # None /\ rules.trading
           /\ request.quantity > 0 /\ request.quantity <= limits.maxOrderSize
           /\ Within(request.quantity, rules.quantity)
           /\ request.price # None =>
                 /\ request.quantity * request.price < (limits.maxNotional + 1) * Scale
                 /\ Within(request.price, rules.price)
                 /\ rules.notional.min # None =>
                       request.quantity * request.price >= rules.notional.min * Scale
  <1>1. PICK quote, instrument, risk :
           /\ quote = market.quote /\ instrument = RulesDecision(request, quote, rules)
           /\ risk = IF request.price = None /\ market.book /\ quote = None THEN "reject"
                     ELSE CheckNew(limits, request, held, quote)
    OBVIOUS
  <1>2. instrument = "accept" /\ risk = "accept"
    <2>1. PlaceDecision(limits, request, held, market, rules, available) =
            CASE "throw" \in {instrument, risk} -> "throw"
              [] "throw" \notin {instrument, risk} ->
                    Require({instrument, risk, IF instrument = "accept"
                                THEN FundingDecision(request, quote, available) ELSE "accept"} = {"accept"})
      BY <1>1 DEF PlaceDecision
    <2> QED BY <2>1 DEF Require
  <1>3. PICK price : Validate(limits, request.side, price, request.quantity, held) = "accept"
                     /\ (request.price # None => price = request.price)
    BY <1>1, <1>2 DEF CheckNew
  <1>4. request.quantity > 0 /\ request.quantity <= limits.maxOrderSize
    BY <1>3 DEF Validate
  <1>5. /\ rules # None /\ rules.trading /\ Within(request.quantity, rules.quantity)
        /\ request.price # None => Within(request.price, rules.price)
    BY <1>1, <1>2 DEF RulesDecision, QuantityLegal
  <1>6. ASSUME request.price # None
        PROVE  /\ request.quantity * request.price < (limits.maxNotional + 1) * Scale
               /\ rules.notional.min # None =>
                     request.quantity * request.price >= rules.notional.min * Scale
    <2>1. request.price \in Nat /\ price = request.price
      BY <1>3, <1>6
    <2>2. request.quantity * request.price < (limits.maxNotional + 1) * Scale
      BY <1>3, <2>1, ValidatedSize
    <2>3. PICK exact : exact = request.quantity * request.price
      OBVIOUS
    <2>4. exact \in Nat /\ Times(request.quantity, request.price) = exact \div Scale
      BY <2>1, <2>3, TimesNat
    <2>5. Within(exact \div Scale, rules.notional)
      BY <1>1, <1>2, <1>6, <2>4 DEF RulesDecision, ExecutablePrice, Require
    <2>6. rules.notional.min # None => exact \div Scale >= rules.notional.min
      BY <2>5 DEF Within
    <2>7. rules.notional.min # None => exact >= rules.notional.min * Scale
      BY <1>5, <2>4, <2>6, CutFromBelow
    <2> QED BY <2>2, <2>3, <2>7
  <1> QED BY <1>4, <1>5, <1>6

\* What an order was offered for stays offered, and its price stays, a restart included.
LEMMA OfferedStays ==
    ASSUME GInv, [Next]_vars
    PROVE  /\ UNCHANGED scenario
           /\ \A cid : Offered(cid) \subseteq Offered(cid)'
           /\ \A t \in Threads : SendStep(t) /\ act[t].cmd.op # "cancel" => act[t].cmd \in Offered(act[t].cmd.cid)'
  <1>0. TInv /\ HistoryTypes /\ scenario \in Scenarios
    BY DEF GInv, TInv, HistoryTypes
  <1>1. CASE Crash
    <2>1. UNCHANGED <<scenario, sent>> /\ act' = [a \in Actors |-> Idle]
      BY <1>1 DEF Crash
    <2>2. ASSUME NEW t \in Threads PROVE ~SendStep(t)
      <3>1. SUFFICES ASSUME SendStep(t) PROVE FALSE
        OBVIOUS
      <3>2. PICK result : Answered(t, result) /\ act[t].pc = "send"
        BY <1>0, <3>1, SendTypes
      <3>3. act' = [act EXCEPT ![t].pc = "finish", ![t].result = result]
        BY <3>2 DEF Answered
      <3>4. act'[t].pc = "finish"
        BY <1>0, <3>3, ActorFacts DEF TInv, ActorTypes, ActType
      <3> QED BY <2>1, <3>4, ActorFacts DEF Idle
    <2> QED BY <2>1, <2>2 DEF Offered, RequestsOf, Commands
  <1>2. CASE ~Crash
    <2>1. UNCHANGED scenario /\ Counted
      BY <1>0, <1>2, RequestSteps
    <2>2. Commands' = Commands
      BY <2>1 DEF Commands
    <2>3. \A k \in Commands : sent[k] > 0 => sent'[k] > 0
      <3>1. CASE UNCHANGED sent
        BY <3>1
      <3>2. ASSUME NEW t \in Threads, sent' = [sent EXCEPT ![act[t].cmd] = @ + 1]
            PROVE  \A k \in Commands : sent[k] > 0 => sent'[k] > 0
        BY <1>0, <3>2 DEF HistoryTypes
      <3> QED BY <2>1, <3>1, <3>2 DEF Counted
    <2>4. ASSUME NEW t \in Threads, SendStep(t), act[t].cmd.op # "cancel"
          PROVE  act[t].cmd \in Offered(act[t].cmd.cid)'
      <3>1. act[t].pc = "send" /\ \E result : Answered(t, result)
        BY <1>0, <2>4, SendTypes
      <3>2. PICK k \in Commands : k = act[t].cmd
        BY <1>0, <3>1 DEF TInv, CallTypes, InVenueCall
      <3>3. sent' = [sent EXCEPT ![k] = @ + 1] /\ act'[t].cmd = k
        <4>1. PICK result : act' = [act EXCEPT ![t].pc = "finish", ![t].result = result]
          BY <3>1 DEF Answered
        <4>2. act'[t].cmd = act[t].cmd
          BY <1>0, <4>1, ActorFacts, ZenonT(30) DEF TInv, ActorTypes, ActType
        <4> QED BY <1>0, <1>2, <2>4, <3>2, <4>2, RequestSteps
      <3>4. sent'[k] > 0
        BY <1>0, <3>3 DEF HistoryTypes
      <3> QED BY <2>2, <2>4, <3>2, <3>3, <3>4 DEF Offered, RequestsOf
    <2> QED BY <2>1, <2>2, <2>3, <2>4 DEF Offered, RequestsOf
  <1> QED BY <1>1, <1>2

LEMMA TermsStay ==
    ASSUME GInv, NamesInv, [Next]_vars, NEW cid \in Known, Crash => journal[cid] # None
    PROVE  /\ cid \in Known' /\ orders'[cid].price = orders[cid].price
           /\ \A q : (Sized(cid, q) => Sized(cid, q)') /\ (Ruled(cid, q) => Ruled(cid, q)')
  <1>0. TInv /\ cid \in Cids
    BY DEF GInv, Known
  <1>1. cid \in Known' /\ orders'[cid].price = orders[cid].price
    <2>1. CASE Crash
      <3>1. PICK K : K = NamedOrders /\ OrdersIn(K)
        BY DEF NamesInv
      <3>2. journal[cid].order \in K[cid]
        BY <1>0, <2>1, <3>1 DEF OrdersIn
      <3>3. journal[cid].order \in OrderType /\ journal[cid].order.price = orders[cid].price
        BY <1>0, <3>1, <3>2 DEF NamedOrders
      <3> QED BY <1>0, <2>1, <3>3, NoneAssumption DEF Crash, Known
    <2>2. CASE ~Crash
      BY <1>0, <2>2, PriceStays
    <2> QED BY <2>1, <2>2
  <1>2. UNCHANGED scenario
    BY OfferedStays
  <1> QED BY <1>1, <1>2 DEF Sized, Ruled

\* What was sent is of an order that memory and journal know.
LEMMA SentIsKnown ==
    ASSUME GInv, NEW cid, Offered(cid) # {}
    PROVE  cid \in Known /\ journal[cid] # None
  <1>1. PICK k \in Commands : k.cid = cid /\ sent[k] > 0
    BY DEF Offered, RequestsOf
  <1> QED BY <1>1 DEF GInv, SentInv, AppendBeforeRoute

\* A smaller quantity keeps the limits of size and value.
LEMMA SizedSmaller ==
    ASSUME TInv, NEW cid \in Known, NEW q \in Nat, NEW w \in Nat, 0 < w, w <= q, Sized(cid, q)
    PROVE  Sized(cid, w)
  <1>1. /\ scenario.limits.maxOrderSize \in Nat /\ scenario.limits.maxNotional \in Nat
        /\ Scale \in Nat
    BY GatewayAssumption, DecimalAssumption DEF TInv, HistoryTypes
  <1>2. orders[cid].price \in Nat \cup {None}
    BY DEF TInv, OrderTypes, Known, OrderType
  <1>3. ASSUME NEW p \in Nat, NEW bound \in Nat, q * p < bound PROVE w * p < bound
    <2>1. w * p <= q * p
      OBVIOUS
    <2>2. w * p \in Nat /\ q * p \in Nat
      OBVIOUS
    <2> QED BY <1>3, <2>1, <2>2
  <1>4. PICK bound \in Nat : bound = (scenario.limits.maxNotional + 1) * Scale
    BY <1>1
  <1>5. w <= scenario.limits.maxOrderSize
    BY <1>1 DEF Sized
  <1> QED BY <1>2, <1>3, <1>4, <1>5 DEF Sized

\* A call in venue I/O sends what its command asks for, or less.
LEMMA CallLegal ==
    ASSUME TInv, LegalInv, NEW t \in Threads, act[t].pc = "send", ~NothingToReplace(act[t].cmd),
           NEW b \in BOOLEAN, NEW r, r = Request(act[t].cmd, b), r.op # "cancel"
    PROVE  /\ r.cid \in Known /\ r.cid = act[t].cmd.cid /\ r.op = act[t].cmd.op
           /\ Sized(r.cid, r.quantity) /\ (r.op = "place" => Ruled(r.cid, r.quantity))
  <1>1. PICK k : k = act[t].cmd
    OBVIOUS
  <1>2. /\ k \in Commands /\ k.cid \in Known /\ r.op = k.op /\ r.cid = k.cid
        /\ r.quantity = WireQuantity(k) /\ r \in RequestType
        /\ k.op = "place" \/ Kind = "Okx" => WireQuantity(k) = k.quantity
    BY <1>1, RequestOfCall
  <1>3. Sized(k.cid, k.quantity) /\ (k.op = "place" => Ruled(k.cid, k.quantity))
    BY <1>1, <1>2 DEF LegalInv, IntentLegal
  <1>4. k.quantity \in Nat /\ Kind \in {"Okx", "Binance"} /\ k.op \in {"place", "cancel", "amend"}
    BY <1>2, CommandFacts DEF TInv, HistoryTypes
  <1>5. orders[k.cid].filled \in Nat
    BY <1>2 DEF TInv, OrderTypes, Known, OrderType
  <1>6. WireQuantity(k) \in Nat /\ 0 < WireQuantity(k) /\ WireQuantity(k) <= k.quantity
    <2>1. k.quantity > 0
      BY <1>3 DEF Sized
    <2> QED BY <1>1, <1>2, <1>4, <1>5, <2>1 DEF WireQuantity, NothingToReplace
  <1>7. Sized(k.cid, WireQuantity(k))
    BY <1>2, <1>3, <1>4, <1>6, SizedSmaller
  <1> QED BY <1>1, <1>2, <1>3, <1>7

\* A call leaves its command in the history.
LEMMA CallIsSent ==
    ASSUME GInv, [Next]_vars, NEW t \in Threads, SendStep(t), act[t].cmd.op # "cancel"
    PROVE  act[t].pc = "send" /\ \A k : k = act[t].cmd => WasSent(k.cid, k.op)'
  <1>0. TInv
    BY DEF GInv
  <1>1. act[t].pc = "send" /\ \E result : Answered(t, result)
    BY <1>0, SendTypes
  <1>2. PICK result : act' = [act EXCEPT ![t].pc = "finish", ![t].result = result]
    BY <1>1 DEF Answered
  <1>3. act'[t].cmd = act[t].cmd
    BY <1>0, <1>2, ActorFacts, ZenonT(30) DEF TInv, ActorTypes, ActType
  <1>4. PICK k : k = act[t].cmd /\ k = act'[t].cmd
    BY <1>3
  <1>5. act[t].cmd \in Offered(act[t].cmd.cid)'
    BY OfferedStays
  <1>6. k \in Offered(k.cid)'
    BY <1>4, <1>5
  <1>7. WasSent(k.cid, k.op)'
    BY <1>6 DEF WasSent
  <1> QED BY <1>1, <1>4, <1>7

\* A request that takes effect was sent, is legal and is about its own order.
LEMMA ExecutedLegal ==
    ASSUME GInv, NamesInv, LegalInv, [Next]_vars, ~Crash, NEW r, Executes(r), r.op # "cancel"
    PROVE  /\ r.cid \in Known /\ WasSent(r.cid, r.op)'
           /\ Sized(r.cid, r.quantity)' /\ (r.op = "place" => Ruled(r.cid, r.quantity)')
           /\ Target(r.cid, r.exid) \subseteq PhysOf(r.cid)
  <1>0. TInv /\ TargetsOwn
    BY NamesTarget DEF GInv
  <1>1. ASSUME r.cid \in Known, Sized(r.cid, r.quantity), r.op = "place" => Ruled(r.cid, r.quantity)
        PROVE  Sized(r.cid, r.quantity)' /\ (r.op = "place" => Ruled(r.cid, r.quantity)')
    BY <1>1, TermsStay
  <1>2. CASE r \in inflight
    <2>1. RequestLegal(r)
      BY <1>2 DEF LegalInv
    <2>2. WasSent(r.cid, r.op) /\ Sized(r.cid, r.quantity) /\ (r.op = "place" => Ruled(r.cid, r.quantity))
      BY <2>1 DEF RequestLegal
    <2>3. r.cid \in Known
      BY <2>2, SentIsKnown DEF WasSent
    <2>4. WasSent(r.cid, r.op)'
      BY <2>2, OfferedStays DEF WasSent
    <2>5. Target(r.cid, r.exid) \subseteq PhysOf(r.cid)
      BY <1>0, <1>2 DEF TargetsOwn
    <2> QED BY <1>1, <2>2, <2>3, <2>4, <2>5
  <1>3. ASSUME NEW t \in Threads, act[t].pc = "send", SendStep(t), ~NothingToReplace(act[t].cmd),
               r = Request(act[t].cmd, TRUE)
        PROVE  /\ r.cid \in Known /\ WasSent(r.cid, r.op)'
               /\ Sized(r.cid, r.quantity)' /\ (r.op = "place" => Ruled(r.cid, r.quantity)')
               /\ Target(r.cid, r.exid) \subseteq PhysOf(r.cid)
    <2>1. /\ r.cid \in Known /\ r.cid = act[t].cmd.cid /\ r.op = act[t].cmd.op
          /\ Sized(r.cid, r.quantity) /\ (r.op = "place" => Ruled(r.cid, r.quantity))
      BY <1>0, <1>3, CallLegal
    <2>2. r.exid = orders[act[t].cmd.cid].exid
      BY <1>0, <1>3, RequestOfCall
    <2>3. Target(r.cid, r.exid) \subseteq PhysOf(r.cid)
      BY <1>0, <1>3, <2>1, <2>2 DEF TargetsOwn
    <2>4. PICK k : k = act[t].cmd
      OBVIOUS
    <2>5. WasSent(k.cid, k.op)'
      BY <1>3, <2>1, <2>4, CallIsSent
    <2>6. WasSent(r.cid, r.op)'
      BY <2>1, <2>4, <2>5
    <2> QED BY <1>1, <2>1, <2>3, <2>6
  <1> QED BY <1>2, <1>3 DEF Executes

\* Physical orders stay legal as long as no restart intervenes ...
LEMMA PhysStaysLegal ==
    ASSUME GInv, NamesInv, LegalInv, [Next]_vars, NEW x \in ExchangeIds, venue[x] # None,
           venue'[x].cid = venue[x].cid, venue'[x].quantity = venue[x].quantity
    PROVE  PhysLegal(x)'
  <1>1. PICK cid, q : cid = venue[x].cid /\ q = venue[x].quantity
    OBVIOUS
  <1>2. WasSent(cid, "place") /\ Sized(cid, q) /\ (NotAmended(cid) => Ruled(cid, q))
    BY <1>1 DEF LegalInv, PhysLegal
  <1>3. cid \in Known /\ journal[cid] # None
    BY <1>2, SentIsKnown DEF WasSent
  <1>4. Sized(cid, q)' /\ (NotAmended(cid) => Ruled(cid, q)')
    BY <1>2, <1>3, TermsStay
  <1>5. Offered(cid) \subseteq Offered(cid)'
    BY OfferedStays
  <1>6. WasSent(cid, "place")' /\ (NotAmended(cid)' => NotAmended(cid))
    BY <1>2, <1>5 DEF WasSent, NotAmended
  <1>7. WasSent(cid, "place")' /\ Sized(cid, q)' /\ (NotAmended(cid)' => Ruled(cid, q)')
    BY <1>4, <1>6
  <1>8. cid = venue'[x].cid /\ q = venue'[x].quantity
    BY <1>1
  <1> QED BY <1>7, <1>8 DEF PhysLegal

\* ... and what a request makes of one, or makes new, is legal.
LEMMA MadeLegal ==
    ASSUME GInv, NamesInv, LegalInv, [Next]_vars, ~Crash, NEW r, Executes(r), r.op # "cancel",
           NEW x \in ExchangeIds, venue'[x].cid = r.cid, venue'[x].quantity = r.quantity,
           r.op # "place" => r.op = "amend" /\ \E old \in ExchangeIds : venue[old] # None /\ venue[old].cid = r.cid
    PROVE  PhysLegal(x)'
  <1>1. PICK cid, q : cid = r.cid /\ q = r.quantity
    OBVIOUS
  <1>2. /\ WasSent(cid, r.op)' /\ Sized(cid, q)' /\ (r.op = "place" => Ruled(cid, q)')
    BY <1>1, ExecutedLegal
  <1>3. WasSent(cid, "place")' /\ (NotAmended(cid)' => Ruled(cid, q)')
    <2>1. CASE r.op = "place"
      BY <1>2, <2>1
    <2>2. CASE r.op # "place"
      <3>1. PICK old \in ExchangeIds : venue[old] # None /\ venue[old].cid = cid
        BY <1>1, <2>2
      <3>2. WasSent(cid, "place")
        BY <3>1 DEF LegalInv, PhysLegal
      <3>3. WasSent(cid, "place")'
        BY <3>2, OfferedStays DEF WasSent
      <3>4. ~NotAmended(cid)'
        BY <1>2, <2>2 DEF WasSent, NotAmended
      <3> QED BY <3>3, <3>4
    <2> QED BY <2>1, <2>2
  <1>4. cid = venue'[x].cid /\ q = venue'[x].quantity
    BY <1>1
  <1> QED BY <1>2, <1>3, <1>4 DEF PhysLegal

LEMMA LegalPhys ==
    ASSUME GInv, NamesInv, LegalInv, [Next]_vars, NEW x \in ExchangeIds, venue'[x] # None
    PROVE  PhysLegal(x)'
  <1>0. TInv /\ None \notin PhysType
    BY GatewayAssumption DEF GInv
  <1>1. CASE Crash
    BY <1>0, <1>1, CrashVenue, PhysStaysLegal DEF Continues
  <1>2. CASE ~Crash
    <2>0. VenueStep
      BY <1>0, <1>2, VenueSteps
    <2>1. CASE venue'[x] = venue[x] \/ Traded(x) \/ Closed(x)
      <3>1. venue[x] # None /\ venue'[x].cid = venue[x].cid /\ venue'[x].quantity = venue[x].quantity
        BY <2>1 DEF Traded, Closed, Continues, Working
      <3> QED BY <3>1, PhysStaysLegal
    <2>2. ASSUME NEW r \in RequestType, Executes(r), Resized(x, r) PROVE PhysLegal(x)'
      <3>1. /\ r.op = "amend" /\ x \in Target(r.cid, r.exid) /\ venue'[x].cid = venue[x].cid
            /\ venue'[x].quantity = r.quantity /\ venue[x] # None
        BY <2>2 DEF Resized, Continues, Working
      <3>2. venue[x].cid = r.cid
        BY <1>2, <2>2, <3>1, ExecutedLegal DEF PhysOf
      <3> QED BY <1>2, <2>2, <3>1, <3>2, MadeLegal
    <2>3. ASSUME NEW r \in RequestType, Executes(r), Placed(x, r) PROVE PhysLegal(x)'
      <3>1. r.op = "place" /\ venue'[x].cid = r.cid /\ venue'[x].quantity = r.quantity
        BY <2>3 DEF Placed, Appears
      <3> QED BY <1>2, <2>3, <3>1, MadeLegal
    <2>4. ASSUME NEW r \in RequestType, NEW old \in ExchangeIds, Executes(r), Supplants(x, old, r)
          PROVE  PhysLegal(x)'
      <3>1. /\ r.op = "amend" /\ old \in Target(r.cid, r.exid) /\ venue'[x].cid = venue[old].cid
            /\ venue'[x].quantity = r.quantity /\ venue[old] # None
        BY <2>4 DEF Supplants, Appears, Closed, Working
      <3>2. venue[old].cid = r.cid
        BY <1>2, <2>4, <3>1, ExecutedLegal DEF PhysOf
      <3> QED BY <1>2, <2>4, <3>1, <3>2, MadeLegal
    <2>5. ASSUME NEW r \in RequestType, NEW y \in ExchangeIds, Supplants(y, x, r) PROVE Closed(x)
      BY <2>5 DEF Supplants
    <2> QED BY <2>0, <2>1, <2>2, <2>3, <2>4, <2>5 DEF VenueStep
  <1> QED BY <1>1, <1>2

LEMMA LegalRequests ==
    ASSUME GInv, NamesInv, LegalInv, [Next]_vars, NEW r \in inflight'
    PROVE  RequestLegal(r)'
  <1>0. TInv
    BY DEF GInv
  <1>1. ASSUME NEW s \in inflight, s.op = r.op, s.cid = r.cid, s.quantity = r.quantity
        PROVE  RequestLegal(r)'
    <2>1. RequestLegal(s)
      BY DEF LegalInv
    <2>2. RequestLegal(r)
      BY <1>1, <2>1 DEF RequestLegal
    <2>3. SUFFICES ASSUME r.op # "cancel"
                   PROVE  /\ WasSent(r.cid, r.op)' /\ Sized(r.cid, r.quantity)'
                          /\ r.op = "place" => Ruled(r.cid, r.quantity)'
      BY DEF RequestLegal
    <2>4. WasSent(r.cid, r.op) /\ Sized(r.cid, r.quantity) /\ (r.op = "place" => Ruled(r.cid, r.quantity))
      BY <2>2, <2>3 DEF RequestLegal
    <2>5. r.cid \in Known /\ journal[r.cid] # None
      BY <2>4, SentIsKnown DEF WasSent
    <2>6. Sized(r.cid, r.quantity)' /\ (r.op = "place" => Ruled(r.cid, r.quantity)')
      BY <2>4, <2>5, TermsStay
    <2> QED BY <2>4, <2>6, OfferedStays DEF WasSent
  <1>2. CASE Crash
    <2>1. PICK s \in inflight : r = [s EXCEPT !.known = FALSE]
      BY <1>2 DEF Crash
    <2>2. s \in RequestType
      BY <1>0 DEF TInv, VenueTypes
    <2>3. s.op = r.op /\ s.cid = r.cid /\ s.quantity = r.quantity
      BY <2>1, <2>2 DEF RequestType
    <2> QED BY <1>1, <2>3
  <1>3. CASE ~Crash /\ r \in inflight
    BY <1>1, <1>3
  <1>4. CASE ~Crash /\ r \notin inflight
    <2>1. PICK t \in Threads, b \in BOOLEAN :
             /\ act[t].pc = "send" /\ SendStep(t) /\ ~NothingToReplace(act[t].cmd)
             /\ r = Request(act[t].cmd, b)
      <3>1. Requested
        BY <1>0, <1>4, RequestSteps
      <3> QED BY <1>4, <3>1 DEF Requested
    <2>2. SUFFICES ASSUME r.op # "cancel"
                   PROVE  /\ WasSent(r.cid, r.op)' /\ Sized(r.cid, r.quantity)'
                          /\ r.op = "place" => Ruled(r.cid, r.quantity)'
      BY DEF RequestLegal
    <2>3. /\ r.cid \in Known /\ r.cid = act[t].cmd.cid /\ r.op = act[t].cmd.op
          /\ Sized(r.cid, r.quantity) /\ (r.op = "place" => Ruled(r.cid, r.quantity))
      BY <1>0, <2>1, <2>2, CallLegal
    <2>4. PICK k : k = act[t].cmd
      OBVIOUS
    <2>5. WasSent(k.cid, k.op)'
      BY <2>1, <2>2, <2>3, <2>4, CallIsSent
    <2>6. Sized(r.cid, r.quantity)' /\ (r.op = "place" => Ruled(r.cid, r.quantity)')
      BY <1>4, <2>3, TermsStay
    <2> QED BY <2>3, <2>4, <2>5, <2>6
  <1> QED BY <1>2, <1>3, <1>4

\* place() accepts what the limits and the rules allow, amend() what the limits allow.
LEMMA BeginLegal ==
    ASSUME TInv, NEW t \in Threads, NEW cmd \in Commands,
           PlaceBegin(t, cmd) \/ CancelBegin(t, cmd) \/ AmendBegin(t, cmd)
    PROVE  IntentLegal(cmd)'
  <1>0. /\ scenario \in Scenarios /\ orders \in [Cids -> OrderType \cup {None}]
        /\ cmd.cid \in Cids /\ cmd.quantity \in Nat /\ cmd.price \in Nat \cup {None}
    BY CommandFacts DEF TInv, OrderTypes, HistoryTypes
  <1>1. /\ scenario.limits.maxOrderSize \in Nat /\ scenario.limits.maxNotional \in Nat
        /\ \A rules \in scenario.rules \ {None} : rules.notional.min \in Nat \cup {None}
    BY <1>0, GatewayAssumption
  <1>2. CASE PlaceBegin(t, cmd)
    <2>1. /\ cmd.op = "place" /\ Decided(cmd, "accept") /\ scenario' = scenario
          /\ orders' = [orders EXCEPT ![cmd.cid] = MakeOrder(cmd.cid, cmd.price, cmd.quantity)]
      BY <1>2 DEF PlaceBegin, MayBegin, Update, Begin
    <2>2. orders'[cmd.cid].price = cmd.price
      BY <1>0, <2>1 DEF MakeOrder
    <2>3. PICK request : request = [side |-> SideOf(cmd.cid), price |-> cmd.price, quantity |-> cmd.quantity]
      OBVIOUS
    <2>4. request.price = cmd.price /\ request.quantity = cmd.quantity
      BY <2>3
    <2>5. PICK market \in scenario.markets, rules \in scenario.rules, available \in scenario.balances :
             "accept" = PlaceDecision(scenario.limits, request, position, market, rules, available)
      BY <2>1, <2>3 DEF Decided
    <2>6. /\ rules # None /\ rules.trading
          /\ request.quantity > 0 /\ request.quantity <= scenario.limits.maxOrderSize
          /\ Within(request.quantity, rules.quantity)
          /\ request.price # None =>
                /\ request.quantity * request.price < (scenario.limits.maxNotional + 1) * Scale
                /\ Within(request.price, rules.price)
                /\ rules.notional.min # None =>
                      request.quantity * request.price >= rules.notional.min * Scale
      BY <1>0, <1>1, <2>4, <2>5, AcceptedTerms
    <2>7. Sized(cmd.cid, cmd.quantity)'
      BY <2>1, <2>2, <2>4, <2>6 DEF Sized
    <2>8. Ruled(cmd.cid, cmd.quantity)'
      BY <2>1, <2>2, <2>4, <2>6 DEF Ruled
    <2> QED BY <2>7, <2>8 DEF IntentLegal
  <1>3. CASE CancelBegin(t, cmd)
    BY <1>3 DEF CancelBegin, MayBegin, IntentLegal
  <1>4. CASE AmendBegin(t, cmd)
    <2>1. /\ cmd.op = "amend" /\ orders[cmd.cid] # None /\ scenario' = scenario
          /\ CheckAmend(scenario.limits, SideOf(cmd.cid), orders[cmd.cid], cmd.quantity,
                        PositionWithout(cmd.cid)) = "accept"
          /\ orders' = [orders EXCEPT ![cmd.cid] =
                           [orders[cmd.cid] EXCEPT !.pending = "Amend", !.pendingQuantity = cmd.quantity]]
      BY <1>4 DEF AmendBegin, MayBegin, Update, Begin
    <2>2. PICK o \in OrderType : o = orders[cmd.cid]
      BY <1>0, <2>1
    <2>3. orders'[cmd.cid].price = o.price /\ o.price \in Nat \cup {None}
      BY <1>0, <2>1, <2>2 DEF OrderType
    <2>4. Validate(scenario.limits, SideOf(cmd.cid), o.price, cmd.quantity, PositionWithout(cmd.cid)) = "accept"
      BY <2>1, <2>2 DEF CheckAmend
    <2>5. /\ cmd.quantity > 0 /\ cmd.quantity <= scenario.limits.maxOrderSize
          /\ cmd.quantity * o.price < (scenario.limits.maxNotional + 1) * Scale
      BY <1>0, <1>1, <2>3, <2>4, ValidatedSize
    <2>6. Sized(cmd.cid, cmd.quantity)'
      BY <2>1, <2>3, <2>5 DEF Sized
    <2> QED BY <2>1, <2>6 DEF IntentLegal
  <1> QED BY <1>2, <1>3, <1>4

LEMMA LegalThreads ==
    ASSUME GInv, NamesInv, LegalInv, [Next]_vars, NEW t \in Threads, act'[t].pc \in {"intent", "send"}
    PROVE  IntentLegal(act[t].cmd)'
  <1>0. TInv /\ Proceeds(t) /\ t \in Actors
    BY ThreadSteps, ActorFacts DEF GInv
  <1>1. ~Crash
    BY <1>0 DEF Crash, Idle
  <1>2. ASSUME act[t].pc \in {"intent", "send"}, act'[t].cmd = act[t].cmd
        PROVE  IntentLegal(act[t].cmd)'
    <2>1. PICK k : k = act[t].cmd /\ k = act'[t].cmd
      BY <1>2
    <2>2. IntentLegal(k) /\ k.cid \in Known
      BY <1>0, <1>2, <2>1 DEF LegalInv, TInv, CallTypes, InVenueCall
    <2>3. SUFFICES ASSUME k.op # "cancel"
                   PROVE  Sized(k.cid, k.quantity)' /\ (k.op = "place" => Ruled(k.cid, k.quantity)')
      BY <2>1 DEF IntentLegal
    <2>4. Sized(k.cid, k.quantity) /\ (k.op = "place" => Ruled(k.cid, k.quantity))
      BY <2>2, <2>3 DEF IntentLegal
    <2> QED BY <1>1, <2>2, <2>4, TermsStay
  <1>3. ASSUME NEW cmd \in Commands, act'[t].cmd = cmd,
               PlaceBegin(t, cmd) \/ CancelBegin(t, cmd) \/ AmendBegin(t, cmd)
        PROVE  IntentLegal(act[t].cmd)'
    <2>1. IntentLegal(cmd)'
      BY <1>0, <1>3, BeginLegal
    <2> QED BY <1>3, <2>1
  <1> QED BY <1>0, <1>2, <1>3 DEF Proceeds

LEMMA LegalStep ==
    ASSUME GInv, NamesInv, LegalInv, [Next]_vars
    PROVE  LegalInv'
  BY LegalPhys, LegalRequests, LegalThreads DEF LegalInv

LEMMA LegalInit == Init => LegalInv
  <1>1. SUFFICES ASSUME Init PROVE LegalInv
    OBVIOUS
  <1>2. /\ \A x \in ExchangeIds : venue[x] = None
        /\ inflight = {} /\ \A t \in Threads : act[t].pc = "idle"
    BY <1>1, ActorFacts DEF Init, Idle
  <1> QED BY <1>2 DEF LegalInv

LEMMA NamesAlways == Spec => [](GInv /\ NamesInv)
  <1>1. Init => GInv /\ NamesInv
    BY InitGInv, NamesInit
  <1>2. GInv /\ NamesInv /\ [Next]_vars => (GInv /\ NamesInv)'
    <2>1. SUFFICES ASSUME GInv, NamesInv, [Next]_vars PROVE GInv' /\ NamesInv'
      OBVIOUS
    <2>2. GInv'
      BY <2>1, StepGInv
    <2>3. TInv /\ TInv'
      BY <2>1, <2>2 DEF GInv
    <2> QED BY <2>1, <2>2, <2>3, NamesStep
  <1> QED BY <1>1, <1>2, PTL DEF Spec

(***************************************************************************)
(* RiskManager::validate, check_instrument_rules: what stands at the venue *)
(* keeps the limits of size and notional value, and the rules of the       *)
(* instrument unless it was amended, although requests that timed out take *)
(* effect late or after a restart, a cancel-replace subtracts fills that   *)
(* arrive while it is on its way, and amendments interleave with reports.  *)
(***************************************************************************)
THEOREM VenueKeepsLimits == Spec => []VenueOrdersLegal
  <1>1. Init => LegalInv
    BY LegalInit
  <1>2. GInv /\ NamesInv /\ LegalInv /\ [Next]_vars => LegalInv'
    BY LegalStep
  <1>3. LegalInv => VenueOrdersLegal
    <2>1. SUFFICES ASSUME LegalInv, NEW cid \in Known, NEW x \in PhysOf(cid)
                   PROVE  /\ Sized(cid, venue[x].quantity)
                          /\ NotAmended(cid) => Ruled(cid, venue[x].quantity)
      BY DEF VenueOrdersLegal, Sized, Ruled
    <2>2. x \in ExchangeIds /\ venue[x] # None /\ venue[x].cid = cid
      BY DEF PhysOf
    <2>3. PhysLegal(x)
      BY <2>1, <2>2 DEF LegalInv
    <2> QED BY <2>2, <2>3 DEF PhysLegal
  <1> QED BY <1>1, <1>2, <1>3, NamesAlways, PTL DEF Spec
-----------------------------------------------------------------------------
(***************************************************************************)
(* OKX amends in place: an order has one physical order, and the terms of  *)
(* that one are those of a command.                                        *)
(***************************************************************************)
PlacesUnderWay(cid) == {r \in inflight : r.op = "place" /\ r.cid = cid}
NotPlaced(cid) == PhysOf(cid) = {} /\ PlacesUnderWay(cid) = {}

\* A thread that has yet to place the order, or waits for its placement.
Placing(t, cid) ==
    act[t].pc \in {"intent", "send"} /\ act[t].cmd.op = "place" /\ act[t].cmd.cid = cid
Calling(t, cid) == InVenueCall(t) /\ act[t].cmd.op = "place" /\ act[t].cmd.cid = cid

PhysOne(x) ==
    /\ venue[x].filled <= venue[x].quantity
    /\ venue[x].status = "Filled" <=> venue[x].filled = venue[x].quantity
    /\ PhysOf(venue[x].cid) = {x} /\ PlacesUnderWay(venue[x].cid) = {}
    /\ \E k \in Offered(venue[x].cid) : k.quantity = venue[x].quantity
RequestOne(r) ==
    /\ r.op # "cancel" => \E k \in Offered(r.cid) : k.op = r.op /\ k.quantity = r.quantity
    /\ r.op = "place" => PlacesUnderWay(r.cid) = {r}
AnswerOne(t) ==
    /\ act[t].cmd.op = "place" /\ act[t].result.kind = "reject" => NotPlaced(act[t].cmd.cid)
    /\ act[t].cmd.op = "amend" => act[t].result.exid = None
OneInv ==
    /\ \A x \in ExchangeIds : venue[x] # None => PhysOne(x)
    /\ \A r \in inflight : RequestOne(r)
    /\ \A t \in Threads : act[t].pc = "finish" => AnswerOne(t)

\* What a step of an OKX order starts from.
OkxStep == GInv /\ NamesInv /\ LegalInv /\ OneInv /\ [Next]_vars /\ Kind = "Okx"

\* A thread that has yet to place an order is the first to do so.
LEMMA FirstPlacement ==
    ASSUME GInv, LegalInv, NEW t \in Threads, NEW cid, Placing(t, cid)
    PROVE  ~WasSent(cid, "place") /\ NotPlaced(cid)
  <1>1. ~WasSent(cid, "place")
    <2>1. SUFFICES ASSUME NEW k \in Commands, k.cid = cid, k.op = "place", sent[k] > 0 PROVE FALSE
      BY DEF WasSent, Offered, RequestsOf
    <2>2. SameIdentifier(act[t].cmd, k)
      BY <2>1 DEF SameIdentifier, Placing
    <2>3. sent[k] = 0
      BY <2>2 DEF GInv, SentInv, Placing
    <2> QED BY <2>1, <2>3
  <1>2. PhysOf(cid) = {}
    BY <1>1 DEF PhysOf, LegalInv, PhysLegal
  <1>3. PlacesUnderWay(cid) = {}
    <2>1. SUFFICES ASSUME NEW r \in inflight, r.op = "place", r.cid = cid PROVE FALSE
      BY DEF PlacesUnderWay
    <2>2. WasSent(r.cid, r.op)
      BY <2>1 DEF LegalInv, RequestLegal
    <2> QED BY <1>1, <2>1, <2>2
  <1> QED BY <1>1, <1>2, <1>3 DEF NotPlaced

\* The request of a thread that places or amends, with OKX.
LEMMA OkxCall ==
    ASSUME OkxStep, NEW t \in Threads, act[t].pc = "send", SendStep(t), ~NothingToReplace(act[t].cmd),
           NEW b \in BOOLEAN, NEW r, r = Request(act[t].cmd, b), r.op # "cancel"
    PROVE  /\ \E k \in Offered(r.cid)' : k.op = r.op /\ k.quantity = r.quantity
           /\ r.op = "place" => Placing(t, r.cid) /\ NotPlaced(r.cid)
  <1>0. TInv /\ GInv /\ LegalInv /\ [Next]_vars /\ Kind = "Okx"
    BY DEF OkxStep, GInv
  <1>1. PICK k : k = act[t].cmd
    OBVIOUS
  <1>2. r.op = k.op /\ r.cid = k.cid /\ r.quantity = k.quantity
    BY <1>0, <1>1, RequestOfCall
  <1>3. k \in Offered(k.cid)'
    <2>1. PICK result : act' = [act EXCEPT ![t].pc = "finish", ![t].result = result]
      BY <1>0, SendTypes DEF Answered
    <2>2. act'[t].cmd = act[t].cmd
      BY <1>0, <2>1, ActorFacts, ZenonT(30) DEF TInv, ActorTypes, ActType
    <2>3. act[t].cmd \in Offered(act[t].cmd.cid)'
      BY <1>0, <1>1, <1>2, OfferedStays
    <2> QED BY <1>1, <2>2, <2>3
  <1>4. r.op = "place" => Placing(t, r.cid)
    BY <1>1, <1>2 DEF Placing
  <1> QED BY <1>0, <1>2, <1>3, <1>4, FirstPlacement

\* A request that takes effect at OKX.
LEMMA OkxExecuted ==
    ASSUME OkxStep, ~Crash, NEW r, Executes(r), r.op # "cancel"
    PROVE  /\ \E k \in Offered(r.cid)' : k.op = r.op /\ k.quantity = r.quantity
           /\ r.op = "place" =>
                 /\ PhysOf(r.cid) = {} /\ PlacesUnderWay(r.cid)' = {}
                 /\ r \in PlacesUnderWay(r.cid) \/ \E t \in Threads : Placing(t, r.cid)
  <1>0. /\ TInv /\ GInv /\ LegalInv /\ OneInv /\ [Next]_vars /\ Kind = "Okx"
        /\ \A cid : Offered(cid) \subseteq Offered(cid)'
    BY OfferedStays DEF OkxStep, GInv
  <1>1. CASE r \in inflight /\ inflight' = inflight \ {r}
    <2>1. RequestOne(r)
      BY <1>0, <1>1 DEF OneInv
    <2>2. \E k \in Offered(r.cid)' : k.op = r.op /\ k.quantity = r.quantity
      BY <1>0, <2>1 DEF RequestOne
    <2>3. ASSUME r.op = "place" PROVE PhysOf(r.cid) = {} /\ PlacesUnderWay(r.cid)' = {} /\ r \in PlacesUnderWay(r.cid)
      <3>1. PlacesUnderWay(r.cid) = {r}
        BY <2>1, <2>3 DEF RequestOne
      <3>2. PlacesUnderWay(r.cid)' = {}
        BY <1>1, <3>1 DEF PlacesUnderWay
      <3>3. PhysOf(r.cid) = {}
        BY <1>0, <3>1 DEF PhysOf, OneInv, PhysOne
      <3> QED BY <3>1, <3>2, <3>3
    <2> QED BY <2>2, <2>3
  <1>2. ASSUME NEW t \in Threads, act[t].pc = "send", SendStep(t), ~NothingToReplace(act[t].cmd),
               r = Request(act[t].cmd, TRUE), UNCHANGED inflight
        PROVE  /\ \E k \in Offered(r.cid)' : k.op = r.op /\ k.quantity = r.quantity
               /\ r.op = "place" =>
                     PhysOf(r.cid) = {} /\ PlacesUnderWay(r.cid)' = {} /\ Placing(t, r.cid)
    <2>1. /\ \E k \in Offered(r.cid)' : k.op = r.op /\ k.quantity = r.quantity
          /\ r.op = "place" => Placing(t, r.cid) /\ NotPlaced(r.cid)
      BY <1>2, OkxCall
    <2> QED BY <1>2, <2>1 DEF NotPlaced, PlacesUnderWay
  <1> QED BY <1>1, <1>2 DEF Executes

\* Nothing new appears of an order that nobody is placing.
LEMMA NothingNew ==
    ASSUME OkxStep, NEW cid, PlacesUnderWay(cid) = {}, \A t \in Threads : act[t].pc = "send" => ~Placing(t, cid)
    PROVE  PhysOf(cid)' = PhysOf(cid) /\ PlacesUnderWay(cid)' = {}
  <1>0. TInv /\ [Next]_vars /\ Kind = "Okx" /\ PhysOf(cid) \subseteq PhysOf(cid)' /\ None \notin PhysType
    BY PhysGrows, GatewayAssumption DEF OkxStep, GInv
  <1>1. CASE Crash
    <2>1. PhysOf(cid)' = PhysOf(cid)
      BY <1>0, <1>1, CrashVenue DEF PhysOf, Continues
    <2>2. ASSUME NEW r \in inflight', r.op = "place", r.cid = cid PROVE FALSE
      <3>1. PICK s \in inflight : r = [s EXCEPT !.known = FALSE]
        BY <1>1 DEF Crash
      <3>2. s.op = "place" /\ s.cid = cid
        BY <1>0, <2>2, <3>1 DEF TInv, VenueTypes, RequestType
      <3> QED BY <3>1, <3>2 DEF PlacesUnderWay
    <2> QED BY <2>1, <2>2 DEF PlacesUnderWay
  <1>2. CASE ~Crash
    <2>1. VenueStep /\ Requested
      BY <1>0, <1>2, VenueSteps, RequestSteps
    <2>2. ASSUME NEW y \in PhysOf(cid)' PROVE y \in PhysOf(cid)
      <3>1. y \in ExchangeIds /\ venue'[y] # None /\ venue'[y].cid = cid
        BY DEF PhysOf
      <3>2. CASE venue[y] # None
        BY <1>0, <3>1, <3>2, PhysStays DEF PhysOf
      <3>3. CASE venue[y] = None
        <4>1. PICK r \in RequestType : Executes(r) /\ Placed(y, r)
          BY <1>0, <2>1, <3>1, <3>3 DEF VenueStep, Traded, Closed, Resized, Supplants, Working
        <4>2. r.op = "place" /\ r.cid = cid
          BY <3>1, <4>1 DEF Placed, Appears
        <4>3. r \in inflight \/ \E t \in Threads : act[t].pc = "send" /\ r = Request(act[t].cmd, TRUE)
          BY <4>1 DEF Executes
        <4>4. r \notin inflight
          BY <4>2 DEF PlacesUnderWay
        <4>5. PICK t \in Threads : act[t].pc = "send" /\ SendStep(t) /\ ~NothingToReplace(act[t].cmd)
                                   /\ r = Request(act[t].cmd, TRUE)
          BY <4>1, <4>4 DEF Executes
        <4>6. Placing(t, cid)
          BY <4>2, <4>5, OkxCall
        <4> QED BY <4>5, <4>6
      <3> QED BY <3>2, <3>3
    <2>3. ASSUME NEW r \in inflight', r.op = "place", r.cid = cid PROVE FALSE
      <3>1. r \notin inflight
        BY <2>3 DEF PlacesUnderWay
      <3>2. PICK t \in Threads, b \in BOOLEAN :
               /\ act[t].pc = "send" /\ SendStep(t) /\ ~NothingToReplace(act[t].cmd)
               /\ r = Request(act[t].cmd, b)
        BY <2>1, <3>1 DEF Requested
      <3>3. Placing(t, cid)
        BY <2>3, <3>2, OkxCall
      <3> QED BY <3>2, <3>3
    <2> QED BY <1>0, <2>2, <2>3 DEF PlacesUnderWay
  <1> QED BY <1>1, <1>2

\* A physical order stays the only one.
LEMMA PhysFixed ==
    ASSUME OkxStep, NEW cid, PhysOf(cid) # {}
    PROVE  PhysOf(cid)' = PhysOf(cid) /\ PlacesUnderWay(cid)' = {} /\ \A t \in Threads : ~Placing(t, cid)
  <1>1. PlacesUnderWay(cid) = {}
    BY DEF OkxStep, OneInv, PhysOne, PhysOf
  <1>2. \A t \in Threads : ~Placing(t, cid)
    BY FirstPlacement DEF OkxStep, NotPlaced
  <1> QED BY <1>1, <1>2, NothingNew

\* What can happen to an OKX order at the venue: its fill grows, an end is final, and unless an
\* amendment made it smaller its quantity grows too.
LEMMA PhysMoves ==
    ASSUME OkxStep, NEW x \in ExchangeIds, venue[x] # None
    PROVE  /\ venue[x] \in PhysType /\ venue'[x] \in PhysType /\ venue'[x].cid = venue[x].cid
           /\ venue[x].filled <= venue'[x].filled
           /\ ~Working(x) => ~Working(x)'
           /\ venue[x].status = "Filled" => venue'[x].status = "Filled"
           /\ NotReduced(venue[x].cid)' => NotReduced(venue[x].cid) /\ venue[x].quantity <= venue'[x].quantity
           /\ PhysOne(x)'
  <1>0. /\ TInv /\ GInv /\ NamesInv /\ LegalInv /\ [Next]_vars /\ Kind = "Okx" /\ None \notin PhysType
        /\ \A c : Offered(c) \subseteq Offered(c)'
    BY OfferedStays, GatewayAssumption DEF OkxStep, GInv
  <1>1. PICK cid, q : cid = venue[x].cid /\ q = venue[x].quantity
    OBVIOUS
  <1>2. /\ venue[x] \in PhysType /\ q \in Nat /\ venue[x].filled \in Nat
        /\ venue[x].filled <= q /\ (venue[x].status = "Filled" <=> venue[x].filled = q)
        /\ PhysOf(cid) = {x} /\ \E k \in Offered(cid) : k.quantity = q
    <2>1. venue[x] \in PhysType
      BY <1>0 DEF TInv, VenueTypes
    <2>2. PhysOne(x)
      BY DEF OkxStep, OneInv
    <2> QED BY <1>1, <2>1, <2>2 DEF PhysOne, PhysType
  <1>3. PhysOf(cid)' = {x} /\ PlacesUnderWay(cid)' = {} /\ venue'[x] # None /\ venue'[x].cid = cid
    BY <1>0, <1>1, <1>2, PhysFixed, PhysStays
  <1>4. NotReduced(cid)' => NotReduced(cid)
    BY <1>0 DEF NotReduced
  <1>5. ASSUME venue'[x] \in PhysType, venue'[x].quantity = q, venue'[x].filled >= venue[x].filled, venue'[x].filled <= q,
               \/ venue'[x].status = venue[x].status /\ venue'[x].filled = venue[x].filled
               \/ Working(x) /\ (venue'[x].status = "Filled" <=> venue'[x].filled = q)
        PROVE  /\ venue[x].filled <= venue'[x].filled
               /\ ~Working(x) => ~Working(x)'
               /\ venue[x].status = "Filled" => venue'[x].status = "Filled"
               /\ NotReduced(cid)' => NotReduced(cid) /\ q <= venue'[x].quantity
               /\ PhysOne(x)'
    <2>1. venue'[x].filled <= venue'[x].quantity /\ (venue'[x].status = "Filled" <=> venue'[x].filled = venue'[x].quantity)
      BY <1>2, <1>5
    <2>2. \E k \in Offered(cid)' : k.quantity = q
      BY <1>0, <1>2
    <2>3. PhysOne(x)'
      BY <1>3, <1>5, <2>1, <2>2 DEF PhysOne
    <2>4. /\ ~Working(x) => ~Working(x)'
          /\ venue[x].status = "Filled" => venue'[x].status = "Filled"
      BY <1>3, <1>5 DEF Working
    <2> QED BY <1>2, <1>4, <1>5, <2>3, <2>4
  <1>6. CASE Crash
    <2>1. /\ venue'[x] \in PhysType /\ venue'[x].quantity = q
          /\ venue'[x].filled = venue[x].filled /\ venue'[x].status = venue[x].status
      BY <1>0, <1>1, <1>6, CrashVenue DEF Continues
    <2> QED BY <1>1, <1>2, <1>3, <1>5, <2>1
  <1>7. CASE ~Crash
    <2>0. VenueStep
      BY <1>0, <1>7, VenueSteps
    <2>1. CASE venue'[x] = venue[x]
      BY <1>1, <1>2, <1>3, <1>5, <2>1
    <2>2. CASE Traded(x)
      <3>1. /\ venue'[x] \in PhysType /\ venue'[x].quantity = q /\ Working(x)
            /\ venue[x].filled < venue'[x].filled /\ venue'[x].filled <= q
            /\ venue'[x].status = IF venue'[x].filled = q THEN "Filled" ELSE "PartiallyFilled"
        BY <1>1, <2>2 DEF Traded, Continues
      <3>2. venue'[x].filled \in Nat
        BY <3>1 DEF PhysType
      <3> QED BY <1>1, <1>2, <1>3, <1>5, <3>1, <3>2
    <2>3. CASE Closed(x)
      <3>1. /\ venue'[x] \in PhysType /\ venue'[x].quantity = q /\ Working(x)
            /\ venue[x].filled = venue'[x].filled /\ venue'[x].status = "Canceled"
        BY <1>1, <2>3 DEF Closed, Continues
      <3>2. venue[x].status # "Filled" /\ venue'[x].filled # q
        BY <1>2, <3>1 DEF Working
      <3> QED BY <1>1, <1>2, <1>3, <1>5, <3>1, <3>2
    <2>4. ASSUME NEW r \in RequestType, Executes(r), Resized(x, r)
          PROVE  /\ venue'[x] \in PhysType
                 /\ venue[x].filled <= venue'[x].filled
                 /\ ~Working(x) => ~Working(x)'
                 /\ venue[x].status = "Filled" => venue'[x].status = "Filled"
                 /\ NotReduced(cid)' => NotReduced(cid) /\ q <= venue'[x].quantity
                 /\ PhysOne(x)'
      <3>1. /\ venue'[x] \in PhysType /\ venue'[x].quantity = r.quantity /\ Working(x)
            /\ venue[x].filled = venue'[x].filled /\ venue'[x].status = venue[x].status
            /\ venue[x].filled < r.quantity /\ r.op = "amend" /\ x \in Target(r.cid, r.exid)
        BY <2>4 DEF Resized, Continues
      <3>2. r.cid = cid
        BY <1>0, <1>1, <1>7, <2>4, <3>1, ExecutedLegal DEF PhysOf
      <3>3. PICK k \in Offered(cid)' : k.op = "amend" /\ k.quantity = r.quantity
        BY <1>7, <2>4, <3>1, <3>2, OkxExecuted
      <3>4. PICK l \in Offered(cid) : l.quantity = q
        BY <1>2
      <3>5. NotReduced(cid)' => q <= r.quantity
        BY <1>0, <3>3, <3>4 DEF NotReduced
      <3>6. r.quantity \in Nat /\ venue'[x].status # "Filled" /\ Working(x)'
        BY <1>3, <3>1 DEF Working, RequestType
      <3>7. venue'[x].filled <= r.quantity /\ venue'[x].filled # r.quantity
        BY <1>2, <3>1, <3>6
      <3>8. PhysOne(x)'
        BY <1>3, <3>1, <3>3, <3>6, <3>7 DEF PhysOne
      <3> QED BY <1>2, <1>4, <3>1, <3>5, <3>6, <3>8
    <2>5. venue'[x] = venue[x] \/ Traded(x) \/ Closed(x) \/ \E r \in RequestType : Executes(r) /\ Resized(x, r)
      BY <1>0, <1>2, <2>0 DEF VenueStep, Placed, Appears, Supplants
    <2> QED BY <1>1, <1>2, <1>3, <2>1, <2>2, <2>3, <2>4, <2>5
  <1> QED BY <1>6, <1>7

LEMMA OnePhys ==
    ASSUME OkxStep, NEW x \in ExchangeIds, venue'[x] # None
    PROVE  PhysOne(x)'
  <1>0. /\ TInv /\ GInv /\ NamesInv /\ LegalInv /\ [Next]_vars /\ Kind = "Okx" /\ None \notin PhysType
    BY GatewayAssumption DEF OkxStep, GInv
  <1>1. CASE venue[x] # None
    BY <1>1, PhysMoves
  <1>2. CASE venue[x] = None
    <2>1. ~Crash
      BY <1>0, <1>2, CrashVenue
    <2>2. VenueStep
      BY <1>0, <2>1, VenueSteps
    <2>3. PICK r \in RequestType : Executes(r) /\ Placed(x, r) /\ \A y \in ExchangeIds : y # x => venue'[y] = venue[y]
      BY <1>0, <1>2, <2>2 DEF VenueStep, Traded, Closed, Resized, Supplants, Working
    <2>4. /\ r.op = "place" /\ venue'[x].cid = r.cid /\ venue'[x].quantity = r.quantity
          /\ venue'[x].filled = 0 /\ venue'[x].status = "Live" /\ r.quantity \in Nat
      BY <2>3 DEF Placed, Appears, RequestType
    <2>5. PICK cid : cid = r.cid
      OBVIOUS
    <2>6. /\ \E k \in Offered(cid)' : k.quantity = r.quantity
          /\ PhysOf(cid) = {} /\ PlacesUnderWay(cid)' = {}
      BY <2>1, <2>3, <2>4, <2>5, OkxExecuted
    <2>7. PhysOf(cid)' = {x}
      BY <1>2, <2>3, <2>4, <2>5, <2>6 DEF PhysOf
    <2>8. r.quantity > 0
      BY <1>0, <2>1, <2>3, <2>4, ExecutedLegal DEF Sized
    <2> QED BY <2>4, <2>5, <2>6, <2>7, <2>8 DEF PhysOne
  <1> QED BY <1>1, <1>2

LEMMA OneRequest ==
    ASSUME OkxStep, NEW r \in inflight'
    PROVE  RequestOne(r)'
  <1>0. /\ TInv /\ GInv /\ LegalInv /\ OneInv /\ [Next]_vars /\ Kind = "Okx"
        /\ \A c : Offered(c) \subseteq Offered(c)'
    BY OfferedStays DEF OkxStep, GInv
  <1>1. CASE Crash
    <2>1. PICK s \in inflight : r = [s EXCEPT !.known = FALSE]
      BY <1>1 DEF Crash
    <2>2. \A u \in inflight : u \in RequestType
      BY <1>0 DEF TInv, VenueTypes
    <2>3. s.op = r.op /\ s.cid = r.cid /\ s.quantity = r.quantity /\ RequestOne(s)
      BY <1>0, <2>1, <2>2 DEF RequestType, OneInv
    <2>4. ASSUME r.op = "place", NEW v \in PlacesUnderWay(r.cid)' PROVE v = r
      <3>1. v \in inflight' /\ v.op = "place" /\ v.cid = r.cid
        BY DEF PlacesUnderWay
      <3>2. PICK u \in inflight : v = [u EXCEPT !.known = FALSE]
        BY <1>1, <3>1 DEF Crash
      <3>3. u.op = "place" /\ u.cid = s.cid
        BY <2>2, <2>3, <3>1, <3>2 DEF RequestType
      <3>4. u = s
        BY <2>3, <2>4, <3>3 DEF RequestOne, PlacesUnderWay
      <3> QED BY <2>1, <3>2, <3>4
    <2>5. r.op = "place" => PlacesUnderWay(r.cid)' = {r}
      BY <2>4 DEF PlacesUnderWay
    <2>6. r.op # "cancel" => \E k \in Offered(r.cid)' : k.op = r.op /\ k.quantity = r.quantity
      BY <1>0, <2>3 DEF RequestOne
    <2> QED BY <2>5, <2>6 DEF RequestOne
  <1>2. CASE ~Crash
    <2>0. Requested
      BY <1>0, <1>2, RequestSteps
    <2>1. CASE r \in inflight /\ inflight' \subseteq inflight
      <3>1. RequestOne(r)
        BY <1>0, <2>1 DEF OneInv
      <3>2. r.op = "place" => PlacesUnderWay(r.cid)' = {r}
        BY <2>1, <3>1 DEF RequestOne, PlacesUnderWay
      <3>3. r.op # "cancel" => \E k \in Offered(r.cid)' : k.op = r.op /\ k.quantity = r.quantity
        BY <1>0, <3>1 DEF RequestOne
      <3> QED BY <3>2, <3>3 DEF RequestOne
    <2>2. ASSUME NEW t \in Threads, NEW b \in BOOLEAN,
                 act[t].pc = "send", SendStep(t), ~NothingToReplace(act[t].cmd),
                 inflight' = inflight \cup {Request(act[t].cmd, b)}
          PROVE  RequestOne(r)'
      <3>1. PICK s : s = Request(act[t].cmd, b)
        OBVIOUS
      <3>2. s.op # "cancel" =>
              /\ \E k \in Offered(s.cid)' : k.op = s.op /\ k.quantity = s.quantity
              /\ s.op = "place" => NotPlaced(s.cid)
        BY <2>2, <3>1, OkxCall
      <3>3. CASE r = s
        <4>1. r.op = "place" => PlacesUnderWay(r.cid)' = {r}
          BY <2>2, <3>1, <3>2, <3>3 DEF NotPlaced, PlacesUnderWay
        <4> QED BY <3>2, <3>3, <4>1 DEF RequestOne
      <3>4. CASE r # s
        <4>1. r \in inflight /\ RequestOne(r)
          BY <1>0, <2>2, <3>1, <3>4 DEF OneInv
        <4>2. r.op = "place" => ~(s.op = "place" /\ s.cid = r.cid)
          BY <3>2, <4>1 DEF NotPlaced, PlacesUnderWay
        <4>3. r.op = "place" => PlacesUnderWay(r.cid)' = {r}
          BY <2>2, <3>1, <4>1, <4>2 DEF RequestOne, PlacesUnderWay
        <4>4. r.op # "cancel" => \E k \in Offered(r.cid)' : k.op = r.op /\ k.quantity = r.quantity
          BY <1>0, <4>1 DEF RequestOne
        <4> QED BY <4>3, <4>4 DEF RequestOne
      <3> QED BY <3>3, <3>4
    <2> QED BY <2>0, <2>1, <2>2 DEF Requested
  <1> QED BY <1>1, <1>2

\* A refused placement has left nothing at the venue, and OKX answers no amendment with a new order.
LEMMA OkxAnswers ==
    ASSUME TInv, NEW t \in Threads, SendStep(t), Kind = "Okx"
    PROVE  /\ act[t].cmd.op = "place" /\ act'[t].result.kind = "reject" => UNCHANGED <<venue, inflight>>
           /\ act[t].cmd.op = "amend" => act'[t].result.exid = None
  <1>0. ActorTypes /\ t \in Actors /\ act[t].pc = "send"
    BY ActorFacts, SendTypes DEF TInv
  <1>1. ASSUME NEW kind, NEW exid, NEW reports, Answered(t, Result(kind, exid, reports))
        PROVE  act'[t].result.kind = kind /\ act'[t].result.exid = exid
    <2>1. PICK result : result = Result(kind, exid, reports) /\ Answered(t, result)
      BY <1>1
    <2>2. act' = [act EXCEPT ![t].pc = "finish", ![t].result = result]
      BY <2>1 DEF Answered
    <2>3. act'[t].result = result
      BY <1>0, <2>2, ZenonT(30) DEF ActorTypes, ActType
    <2> QED BY <2>1, <2>3 DEF Result
  <1>2. CASE SendRejected(t)
    <2>1. UNCHANGED <<venue, inflight>> /\ Answered(t, Result("reject", None, <<>>))
      BY <1>2 DEF SendRejected, outside
    <2> QED BY <1>1, <2>1
  <1>3. CASE PlaceAccepted(t)
    <2>1. act[t].cmd.op = "place" /\ \E x : Answered(t, Result("ack", x, <<>>))
      BY <1>3 DEF PlaceAccepted
    <2>2. act'[t].result.kind = "ack"
      BY <1>1, <2>1
    <2> QED BY <2>1, <2>2
  <1>4. CASE SendUncertain(t)
    <2>1. Answered(t, Result("uncertain", None, <<>>))
      BY <1>4 DEF SendUncertain
    <2> QED BY <1>1, <2>1
  <1>5. CASE CancelAccepted(t)
    BY <1>5 DEF CancelAccepted
  <1>6. CASE OkxAmendAccepted(t) \/ OkxAmendMade(t)
    <2>1. act[t].cmd.op = "amend" /\ \E reports : Answered(t, Result("ack", None, reports))
      BY <1>6 DEF OkxAmendAccepted, OkxAmendMade
    <2> QED BY <1>1, <2>1
  <1>7. CASE BinanceAmendAccepted(t) \/ BinanceAmendHalfDone(t)
    BY <1>7 DEF BinanceAmendAccepted, BinanceAmendHalfDone
  <1> QED BY <1>2, <1>3, <1>4, <1>5, <1>6, <1>7 DEF SendStep

LEMMA OneAnswer ==
    ASSUME OkxStep, NEW t \in Threads, act'[t].pc = "finish"
    PROVE  AnswerOne(t)'
  <1>0. /\ TInv /\ GInv /\ LegalInv /\ OneInv /\ [Next]_vars /\ Kind = "Okx" /\ Proceeds(t)
    BY ThreadSteps DEF OkxStep, GInv
  <1>1. CASE act[t].pc = "finish" /\ act'[t].cmd = act[t].cmd /\ act'[t].result = act[t].result
    <2>1. PICK k, result : k = act[t].cmd /\ k = act'[t].cmd /\ result = act[t].result /\ result = act'[t].result
      BY <1>1
    <2>2. /\ k.op = "place" /\ result.kind = "reject" => NotPlaced(k.cid)
          /\ k.op = "amend" => result.exid = None
      BY <1>0, <1>1, <2>1 DEF OneInv, AnswerOne
    <2>3. ASSUME NotPlaced(k.cid) PROVE NotPlaced(k.cid)'
      <3>1. \A s \in Threads : act[s].pc = "send" => ~Placing(s, k.cid)
        BY <1>0, <1>1, <2>1 DEF GInv, CallInv, OneOperationPerOrder, InVenueCall, Placing
      <3> QED BY <2>3, <3>1, NothingNew DEF NotPlaced
    <2> QED BY <2>1, <2>2, <2>3 DEF AnswerOne
  <1>2. CASE SendStep(t) /\ act[t].pc = "send" /\ act'[t].cmd = act[t].cmd
    <2>1. PICK k : k = act[t].cmd /\ k = act'[t].cmd
      BY <1>2
    <2>2. /\ k.op = "place" /\ act'[t].result.kind = "reject" => UNCHANGED <<venue, inflight>>
          /\ k.op = "amend" => act'[t].result.exid = None
      BY <1>0, <1>2, <2>1, OkxAnswers
    <2>3. k.op = "place" => NotPlaced(k.cid)
      BY <1>0, <1>2, <2>1, FirstPlacement DEF Placing
    <2>4. k.op = "place" /\ act'[t].result.kind = "reject" => NotPlaced(k.cid)'
      BY <2>2, <2>3 DEF NotPlaced, PlacesUnderWay, PhysOf
    <2> QED BY <2>1, <2>2, <2>4 DEF AnswerOne
  <1>3. ASSUME NEW cmd \in Commands, act'[t].pc = "intent" PROVE FALSE
    BY <1>3
  <1> QED BY <1>0, <1>1, <1>2, <1>3 DEF Proceeds

LEMMA OneStep ==
    ASSUME OkxStep
    PROVE  OneInv'
  BY OnePhys, OneRequest, OneAnswer DEF OneInv

LEMMA OneInit == Init => OneInv
  <1>1. SUFFICES ASSUME Init PROVE OneInv
    OBVIOUS
  <1>2. /\ \A x \in ExchangeIds : venue[x] = None
        /\ inflight = {} /\ \A t \in Threads : act[t].pc = "idle"
    BY <1>1, ActorFacts DEF Init, Idle
  <1> QED BY <1>2 DEF OneInv
-----------------------------------------------------------------------------
(***************************************************************************)
(* Facts.  What a report says was so once, and what a copy of an order     *)
(* says the venue has said.                                                *)
(***************************************************************************)
Facts ==
    {r \in NamedReports :
        /\ r.quantity > 0
        /\ r.cumulative <= venue[r.exid].filled
        /\ IsTerminal(r.status) => ~Working(r.exid)
        /\ r.cumulative >= r.quantity => venue[r.exid].status = "Filled"
        /\ NotReduced(venue[r.exid].cid) => r.quantity <= venue[r.exid].quantity}

\* Nothing of the order trades, now or later.
Ended(cid) ==
    /\ \A x \in PhysOf(cid) : ~Working(x)
    /\ PlacesUnderWay(cid) = {}
    /\ \A t \in Threads : ~Placing(t, cid)

FactOrders ==
    [cid \in Cids |->
        {o \in OrderType :
            /\ cid \in Known
            /\ o.aliases = {} /\ \A x \in ExchangeIds : o.offsets[x] = 0
            /\ IsTerminal(o.status) => Ended(cid)
            /\ o.status = "Filled" => \E x \in PhysOf(cid) : venue[x].status = "Filled"
            /\ o.filled > 0 => \E x \in PhysOf(cid) : NotReduced(cid) => o.filled <= venue[x].filled
            /\ o.quantity > 0 \/ \A t \in Threads : ~Calling(t, cid)}]
FactsInv == OrdersIn(FactOrders) /\ ReportsIn(Facts)

\* A fact stays one ...
LEMMA FactsStay ==
    ASSUME OkxStep
    PROVE  Facts \subseteq Facts'
  <1>1. SUFFICES ASSUME NEW r \in Facts PROVE r \in Facts'
    OBVIOUS
  <1>2. PICK x : x = r.exid
    OBVIOUS
  <1>3. /\ x \in ExchangeIds /\ venue[x] # None /\ r \in VenueReport /\ r.client \in {venue[x].cid, x}
        /\ r.quantity > 0 /\ r.quantity \in Nat /\ r.cumulative \in Nat
        /\ r.cumulative <= venue[x].filled
        /\ IsTerminal(r.status) => ~Working(x)
        /\ r.cumulative >= r.quantity => venue[x].status = "Filled"
        /\ NotReduced(venue[x].cid) => r.quantity <= venue[x].quantity
    BY <1>2 DEF Facts, NamedReports, VenueReport
  <1>4. PICK cid : cid = venue[x].cid
    OBVIOUS
  <1>5. /\ venue[x] \in PhysType /\ venue'[x] \in PhysType /\ venue'[x].cid = cid
        /\ venue[x].filled <= venue'[x].filled
        /\ ~Working(x) => ~Working(x)'
        /\ venue[x].status = "Filled" => venue'[x].status = "Filled"
        /\ NotReduced(cid)' => NotReduced(cid) /\ venue[x].quantity <= venue'[x].quantity
    BY <1>3, <1>4, PhysMoves
  <1>6. /\ venue[x].filled \in Nat /\ venue'[x].filled \in Nat /\ venue[x].quantity \in Nat /\ venue'[x].quantity \in Nat
        /\ venue'[x] # None
    BY <1>5, GatewayAssumption DEF PhysType
  <1>7. r \in NamedReports'
    BY <1>2, <1>3, <1>4, <1>5, <1>6 DEF NamedReports
  <1>8. r.cumulative <= venue'[x].filled /\ (NotReduced(cid)' => r.quantity <= venue'[x].quantity)
    BY <1>3, <1>4, <1>5, <1>6
  <1>9. /\ IsTerminal(r.status) => ~Working(x)'
        /\ r.cumulative >= r.quantity => venue'[x].status = "Filled"
    BY <1>3, <1>5
  <1> QED BY <1>2, <1>3, <1>5, <1>7, <1>8, <1>9 DEF Facts

\* ... and what the venue says is one.
LEMMA SaidIsFact ==
    ASSUME TInv', LegalInv', OneInv', NEW r, Said(r)'
    PROVE  r \in Facts'
  <1>1. PICK x \in ExchangeIds : venue'[x] # None /\ Says(r, x, venue'[x])
    BY DEF Said
  <1>2. /\ r \in VenueReport /\ r.exid = x /\ r.client \in {venue'[x].cid, x}
        /\ r.status = venue'[x].status /\ r.cumulative = venue'[x].filled /\ r.quantity = venue'[x].quantity
    BY <1>1 DEF Says
  <1>3. r \in NamedReports'
    BY <1>1, <1>2 DEF NamedReports
  <1>4. /\ venue'[x].filled <= venue'[x].quantity
        /\ venue'[x].status = "Filled" <=> venue'[x].filled = venue'[x].quantity
    BY <1>1 DEF OneInv, PhysOne
  <1>5. venue'[x].quantity > 0 /\ venue'[x].filled \in Nat /\ venue'[x].quantity \in Nat
    BY <1>1 DEF TInv, VenueTypes, PhysType, LegalInv, PhysLegal, Sized
  <1>6. IsTerminal(r.status) => ~Working(x)'
    BY <1>2 DEF IsTerminal, Working
  <1> QED BY <1>2, <1>3, <1>4, <1>5, <1>6 DEF Facts

LEMMA FactReports ==
    ASSUME OkxStep, TInv', LegalInv', OneInv', ReportsIn(Facts)
    PROVE  ReportsIn(Facts)'
  <1>0. TInv /\ NamesInv /\ [Next]_vars /\ TargetsOwn
    BY NamesTarget DEF OkxStep, GInv
  <1>1. PICK S, T : S = Facts /\ T = Facts'
    OBVIOUS
  <1>2. S \subseteq T /\ S \subseteq VenueReport /\ ReportsIn(S)
    BY <1>1, FactsStay DEF Facts, NamedReports
  <1>3. \A r : Said(r)' => r \in T
    <2>1. \A r : Said(r)' => r \in Facts'
      BY SaidIsFact
    <2> QED BY <1>1, <2>1
  <1>4. ASSUME NEW r \in S, Owner(r) # None PROVE [r EXCEPT !.client = Owner(r)] \in T
    <2>1. r \in NamedReports /\ r \in Facts
      BY <1>1 DEF Facts
    <2>2. PICK cid : cid = Owner(r)
      OBVIOUS
    <2>3. cid = venue[r.exid].cid /\ cid \in Cids /\ r \in VenueReport
      BY <1>0, <1>4, <2>1, <2>2, OwnerOwns
    <2>4. PICK s : s = [r EXCEPT !.client = cid]
      OBVIOUS
    <2>5. /\ s \in VenueReport /\ s.client = cid /\ s.exid = r.exid /\ s.quantity = r.quantity
          /\ s.cumulative = r.cumulative /\ s.status = r.status
      BY <2>3, <2>4, GatewayAssumption DEF VenueReport
    <2>6. s \in NamedReports
      BY <2>1, <2>3, <2>5 DEF NamedReports
    <2>7. s \in Facts
      BY <2>1, <2>5, <2>6 DEF Facts
    <2> QED BY <1>1, <1>2, <2>2, <2>4, <2>7
  <1>5. ReportsIn(T)'
    BY <1>0, <1>2, <1>3, <1>4, StepReports
  <1> QED BY <1>1, <1>5 DEF ReportsIn

\* Nobody begins to place an order that exists.
LEMMA PlacersStay ==
    ASSUME TInv, [Next]_vars, NEW cid \in Known, NEW t \in Threads
    PROVE  /\ Placing(t, cid)' => Placing(t, cid)
           /\ Calling(t, cid)' => Calling(t, cid)
  <1>1. Proceeds(t)
    BY ThreadSteps
  <1>2. ASSUME NEW cmd \in Commands, PlaceBegin(t, cmd) \/ CancelBegin(t, cmd) \/ AmendBegin(t, cmd)
        PROVE  ~(cmd.op = "place" /\ cmd.cid = cid)
    BY <1>2 DEF PlaceBegin, CancelBegin, AmendBegin, MayBegin, Known
  <1> QED BY <1>1, <1>2 DEF Proceeds, Placing, Calling, InVenueCall

LEMMA EndedStays ==
    ASSUME OkxStep, NEW cid \in Known, Ended(cid)
    PROVE  Ended(cid)'
  <1>0. TInv /\ [Next]_vars
    BY DEF OkxStep, GInv
  <1>1. PhysOf(cid)' = PhysOf(cid) /\ PlacesUnderWay(cid)' = {}
    BY NothingNew DEF Ended
  <1>2. \A x \in PhysOf(cid) : ~Working(x)'
    BY PhysMoves DEF Ended, PhysOf
  <1>3. \A t \in Threads : ~Placing(t, cid)'
    BY <1>0, PlacersStay DEF Ended
  <1> QED BY <1>1, <1>2, <1>3 DEF Ended

\* What a copy says stays so.
LEMMA CopiesHold ==
    ASSUME OkxStep, NEW cid \in Cids, cid \in Known => cid \in Known', NEW o \in FactOrders[cid]
    PROVE  o \in FactOrders'[cid]
  <1>0. TInv /\ [Next]_vars /\ \A c : PhysOf(c) \subseteq PhysOf(c)'
    BY PhysGrows DEF OkxStep, GInv
  <1>1. /\ o \in OrderType /\ cid \in Known /\ cid \in Known'
        /\ o.aliases = {} /\ \A x \in ExchangeIds : o.offsets[x] = 0
        /\ IsTerminal(o.status) => Ended(cid)
        /\ o.status = "Filled" => \E x \in PhysOf(cid) : venue[x].status = "Filled"
        /\ o.filled > 0 => \E x \in PhysOf(cid) : NotReduced(cid) => o.filled <= venue[x].filled
        /\ o.quantity > 0 \/ \A t \in Threads : ~Calling(t, cid)
    BY DEF FactOrders
  <1>2. IsTerminal(o.status) => Ended(cid)'
    BY <1>1, EndedStays
  <1>3. o.status = "Filled" => \E x \in PhysOf(cid)' : venue'[x].status = "Filled"
    <2>1. ASSUME NEW x \in PhysOf(cid), venue[x].status = "Filled" PROVE venue'[x].status = "Filled"
      BY <2>1, PhysMoves DEF PhysOf
    <2> QED BY <1>0, <1>1, <2>1
  <1>4. o.filled > 0 => \E x \in PhysOf(cid)' : NotReduced(cid)' => o.filled <= venue'[x].filled
    <2>1. ASSUME NEW x \in PhysOf(cid), NotReduced(cid) => o.filled <= venue[x].filled
          PROVE  NotReduced(cid)' => o.filled <= venue'[x].filled
      <3>1. x \in ExchangeIds /\ venue[x] # None /\ venue[x].cid = cid
        BY DEF PhysOf
      <3>2. /\ venue[x] \in PhysType /\ venue'[x] \in PhysType /\ venue[x].filled <= venue'[x].filled
            /\ NotReduced(venue[x].cid)' => NotReduced(venue[x].cid)
        BY <3>1, PhysMoves
      <3>3. venue[x].filled \in Nat /\ venue'[x].filled \in Nat /\ o.filled \in Nat
        BY <1>1, <3>2 DEF PhysType, OrderType
      <3>4. NotReduced(cid)' => NotReduced(cid)
        BY OfferedStays DEF OkxStep, NotReduced
      <3> QED BY <2>1, <3>2, <3>3, <3>4
    <2> QED BY <1>0, <1>1, <2>1
  <1>5. o.quantity > 0 \/ \A t \in Threads : ~Calling(t, cid)'
    BY <1>0, <1>1, PlacersStay
  <1> QED BY <1>1, <1>2, <1>3, <1>4, <1>5 DEF FactOrders

\* The order that a report of the venue leaves behind.
LEMMA ReportedFact ==
    ASSUME GInv, NamesInv, LegalInv, OneInv, OrdersIn(FactOrders), NEW r \in Facts, Owner(r) # None
    PROVE  Apply(orders[Owner(r)], r) \in FactOrders[Owner(r)]
  <1>0. TInv /\ r \in NamedReports
    BY DEF GInv, Facts
  <1>1. PICK cid, x : cid = Owner(r) /\ x = r.exid
    OBVIOUS
  <1>2. cid = venue[x].cid /\ x \in PhysOf(cid) /\ cid \in Known /\ cid \in Cids /\ r \in VenueReport
    BY <1>0, <1>1, OwnerOwns
  <1>3. x \in ExchangeIds /\ venue[x] # None
    BY <1>2 DEF PhysOf
  <1>4. /\ PhysOf(cid) = {x} /\ PlacesUnderWay(cid) = {}
        /\ venue[x].status = "Filled" <=> venue[x].filled = venue[x].quantity
    BY <1>2, <1>3 DEF OneInv, PhysOne
  <1>5. \A t \in Threads : ~Placing(t, cid)
    BY <1>4, FirstPlacement DEF NotPlaced
  <1>6. /\ r.quantity > 0 /\ r.quantity \in Nat /\ r.cumulative \in Nat /\ r.cumulative <= venue[x].filled
        /\ IsTerminal(r.status) => ~Working(x)
        /\ r.cumulative >= r.quantity => venue[x].status = "Filled"
        /\ NotReduced(cid) => r.quantity <= venue[x].quantity
        /\ r \in ReportType /\ r.price = None /\ r.exid = x /\ x # None /\ r.quantity # None
    BY <1>1, <1>2, <1>3, NoneAssumption, VenueReportType DEF Facts, VenueReport
  <1>7. PICK o : o = orders[cid]
    OBVIOUS
  <1>8. o \in FactOrders[cid]
    BY <1>2, <1>7 DEF OrdersIn
  <1>9. /\ o \in OrderType /\ o.aliases = {} /\ o.offsets[x] = 0
        /\ IsTerminal(o.status) => Ended(cid)
        /\ o.status = "Filled" => venue[x].status = "Filled"
        /\ o.filled > 0 => (NotReduced(cid) => o.filled <= venue[x].filled)
    BY <1>2, <1>3, <1>4, <1>8 DEF FactOrders
  <1>10. o.filled \in Nat /\ venue[x].filled \in Nat /\ venue[x].quantity \in Nat /\ o.status \in Statuses
    BY <1>0, <1>3, <1>9 DEF OrderType, TInv, VenueTypes, PhysType
  <1>11. PICK p : p = Apply(o, r)
    OBVIOUS
  <1>12. CASE p = o
    BY <1>1, <1>7, <1>8, <1>11, <1>12
  <1>13. CASE p # o
    <2>0. PICK terms, stale : terms = MergeTerms(o, r) /\ stale = StaleSequence(o, r)
      OBVIOUS
    <2>1. IsHistoricalGeneration(o, r) = FALSE
      BY <1>9 DEF IsHistoricalGeneration
    <2>2. AggregateFilled(o, r) = r.cumulative /\ ObservedQuantity(o, r) = r.quantity
      BY <1>3, <1>6, <1>9 DEF AggregateFilled, ObservedQuantity, OffsetFor
    <2>3. /\ p \in OrderType /\ p.aliases = o.aliases /\ p.offsets = o.offsets
          /\ p.quantity = r.quantity
          /\ p.status = DeriveStatus(terms, r, r.cumulative, FALSE, stale)
          /\ p.filled = FilledAfter(terms, p.status, r.cumulative)
          /\ terms.quantity = r.quantity /\ terms.status = o.status /\ terms.filled = o.filled
      <3>1. /\ p \in OrderType /\ p.aliases = o.aliases /\ p.offsets = o.offsets
            /\ p.quantity = IF ~IsHistoricalGeneration(o, r) /\ r.quantity # None THEN ObservedQuantity(o, r) ELSE o.quantity
            /\ p.status = DeriveStatus(terms, r, AggregateFilled(o, r), IsHistoricalGeneration(o, r), stale)
            /\ p.filled = FilledAfter(terms, p.status, AggregateFilled(o, r))
            /\ terms.quantity = p.quantity /\ terms.status = o.status /\ terms.filled = o.filled
        BY <1>6, <1>9, <1>11, <1>13, <2>0, ApplyWrites
      <3> QED BY <1>6, <2>1, <2>2, <3>1
    <2>4. \/ p.status = "Filled" /\ venue[x].status = "Filled"
          \/ p.status # "Filled" /\ p.status = o.status
          \/ p.status # "Filled" /\ p.status = r.status
          \/ p.status \in {"Live", "PartiallyFilled"}
      BY <1>6, <1>9, <2>3 DEF DeriveStatus, IsTerminal
    <2>5. IsTerminal(p.status) => Ended(cid)
      <3>1. venue[x].status = "Filled" => ~Working(x)
        BY DEF Working
      <3>2. ~Working(x) => Ended(cid)
        BY <1>4, <1>5 DEF Ended
      <3> QED BY <1>6, <1>9, <2>4, <3>1, <3>2 DEF IsTerminal
    <2>6. p.status = "Filled" => venue[x].status = "Filled"
      BY <2>4
    <2>7. p.filled > 0 => (NotReduced(cid) => p.filled <= venue[x].filled)
      <3>1. CASE p.status = "Filled"
        BY <1>4, <1>6, <2>3, <2>6, <3>1 DEF FilledAfter
      <3>2. CASE p.status # "Filled"
        BY <1>6, <1>9, <1>10, <2>3, <3>2 DEF FilledAfter
      <3> QED BY <3>1, <3>2
    <2>8. p \in FactOrders[cid]
      <3>1. \A y \in ExchangeIds : p.offsets[y] = 0
        BY <1>2, <1>8, <2>3 DEF FactOrders
      <3> QED BY <1>2, <1>6, <1>9, <2>3, <2>5, <2>6, <2>7, <3>1 DEF FactOrders
    <2> QED BY <1>1, <1>7, <1>11, <2>8
  <1> QED BY <1>12, <1>13

\* The order that a refused placement leaves behind.
LEMMA RefusedFact ==
    ASSUME GInv, LegalInv, OneInv, OrdersIn(FactOrders), NEW t \in Threads, At(t, "place", "reject"),
           NEW cid, cid = act[t].cmd.cid
    PROVE  Apply(orders[cid], PlaceRejection(orders[cid])) \in FactOrders[cid]
  <1>0. TInv
    BY DEF GInv
  <1>1. act[t].pc = "finish" /\ act[t].cmd.op = "place" /\ act[t].result.kind = "reject" /\ InVenueCall(t)
    BY DEF At, InVenueCall
  <1>2. cid \in Known /\ cid \in Cids /\ NotPlaced(cid) /\ Calling(t, cid)
    BY <1>0, <1>1 DEF TInv, CallTypes, Known, OneInv, AnswerOne, Calling
  <1>3. \A s \in Threads : ~Placing(s, cid)
    BY <1>1 DEF GInv, CallInv, OneOperationPerOrder, InVenueCall, Placing
  <1>4. Ended(cid) /\ PhysOf(cid) = {}
    BY <1>2, <1>3 DEF Ended, NotPlaced
  <1>5. PICK o, r : o = orders[cid] /\ r = PlaceRejection(o)
    OBVIOUS
  <1>6. o \in FactOrders[cid]
    BY <1>2, <1>5 DEF OrdersIn
  <1>7. /\ o \in OrderType /\ o.aliases = {} /\ \A x \in ExchangeIds : o.offsets[x] = 0
        /\ o.status # "Filled" /\ ~(o.filled > 0) /\ o.quantity > 0 /\ o.filled \in Nat /\ o.quantity \in Nat
    BY <1>2, <1>4, <1>6 DEF FactOrders, OrderType
  <1>8. /\ r \in ReportType /\ r.price = None /\ r.exid = None /\ r.quantity = None
        /\ r.status = "Rejected" /\ r.cumulative = 0 /\ o.filled = 0
    <2>1. r \in ReportType /\ r.price = None /\ r.exid = None
      BY <1>5, <1>7, RejectionType
    <2>2. r.quantity = None /\ r.status = "Rejected" /\ r.cumulative = o.filled
      BY <1>5 DEF PlaceRejection
    <2>3. o.filled = 0
      BY <1>7
    <2> QED BY <2>1, <2>2, <2>3
  <1>9. PICK p : p = Apply(o, r)
    OBVIOUS
  <1>10. CASE p = o
    BY <1>5, <1>6, <1>9, <1>10
  <1>11. CASE p # o
    <2>0. PICK terms, stale : terms = MergeTerms(o, r) /\ stale = StaleSequence(o, r)
      OBVIOUS
    <2>1. IsHistoricalGeneration(o, r) = FALSE /\ AggregateFilled(o, r) = 0
      BY <1>7, <1>8, NoneAssumption DEF IsHistoricalGeneration, AggregateFilled, OffsetFor
    <2>2. /\ p \in OrderType /\ p.aliases = o.aliases /\ p.offsets = o.offsets
          /\ p.quantity = IF ~IsHistoricalGeneration(o, r) /\ r.quantity # None THEN ObservedQuantity(o, r) ELSE o.quantity
          /\ p.status = DeriveStatus(terms, r, AggregateFilled(o, r), IsHistoricalGeneration(o, r), stale)
          /\ p.filled = FilledAfter(terms, p.status, AggregateFilled(o, r))
          /\ terms.quantity = p.quantity /\ terms.status = o.status /\ terms.filled = o.filled
      BY <1>7, <1>8, <1>9, <1>11, <2>0, ApplyWrites
    <2>3. p.quantity = o.quantity /\ p.quantity > 0
      BY <1>7, <1>8, <2>2
    <2>4. p.status # "Filled"
      BY <1>7, <1>8, <2>1, <2>2, <2>3 DEF DeriveStatus
    <2>5. p.filled = 0
      BY <1>8, <2>1, <2>2, <2>4 DEF FilledAfter
    <2>6. p \in FactOrders[cid]
      BY <1>2, <1>4, <1>7, <2>2, <2>3, <2>4, <2>5 DEF FactOrders
    <2> QED BY <1>5, <1>9, <2>6
  <1> QED BY <1>10, <1>11

\* What a step makes of an order that exists.
LEMMA BecomesFact ==
    ASSUME GInv, NamesInv, LegalInv, OneInv, OrdersIn(FactOrders),
           NEW cid \in Known, NEW p \in OrderType, Becomes(cid, p, Facts)
    PROVE  p \in FactOrders[cid]
  <1>0. TInv /\ cid \in Cids
    BY DEF GInv, Known
  <1>1. PICK o : o = orders[cid] /\ o \in FactOrders[cid]
    BY DEF OrdersIn
  <1>2. /\ o \in OrderType /\ o.aliases = {} /\ \A x \in ExchangeIds : o.offsets[x] = 0
        /\ IsTerminal(o.status) => Ended(cid)
        /\ o.status = "Filled" => \E x \in PhysOf(cid) : venue[x].status = "Filled"
        /\ o.filled > 0 => \E x \in PhysOf(cid) : NotReduced(cid) => o.filled <= venue[x].filled
        /\ o.quantity > 0 \/ \A t \in Threads : ~Calling(t, cid)
    BY <1>0, <1>1 DEF FactOrders
  <1>3. ASSUME p.aliases = o.aliases, p.offsets = o.offsets, p.filled = o.filled, p.quantity = o.quantity,
               p.status \in {o.status, "Unknown", "Live"}
        PROVE  p \in FactOrders[cid]
    BY <1>0, <1>2, <1>3 DEF FactOrders, IsTerminal
  <1>4. CASE Remarked(orders[cid], p)
    BY <1>1, <1>3, <1>4 DEF Remarked
  <1>5. ASSUME NEW t \in Threads, At(t, "place", "ack"), act[t].cmd.cid = cid,
               p = [orders[cid] EXCEPT !.exid = act[t].result.exid,
                      !.status = IF @ = "Unknown" THEN "Live" ELSE @, !.pending = "None"]
        PROVE  p \in FactOrders[cid]
    <2>1. PICK exid, status : exid = act[t].result.exid /\ status = IF o.status = "Unknown" THEN "Live" ELSE o.status
      OBVIOUS
    <2>2. p = [o EXCEPT !.exid = exid, !.status = status, !.pending = "None"]
      BY <1>1, <1>5, <2>1
    <2>3. /\ p.aliases = o.aliases /\ p.offsets = o.offsets /\ p.filled = o.filled /\ p.quantity = o.quantity
          /\ p.status = status
      BY <1>2, <2>2 DEF OrderType
    <2> QED BY <1>3, <2>1, <2>3
  <1>6. ASSUME NEW t \in Threads, At(t, "place", "reject"), act[t].cmd.cid = cid,
               p = Apply(orders[cid], PlaceRejection(orders[cid]))
        PROVE  p \in FactOrders[cid]
    BY <1>6, RefusedFact
  <1>7. ASSUME NEW t \in Threads, At(t, "amend", "ack"), act[t].result.exid # None
        PROVE  FALSE
    BY <1>7 DEF At, OneInv, AnswerOne
  <1>8. ASSUME NEW r \in Facts, Owner(r) = cid, p = Apply(orders[cid], r)
        PROVE  p \in FactOrders[cid]
    <2>1. Owner(r) # None
      BY <1>0, <1>8, GatewayAssumption, NoneAssumption
    <2> QED BY <1>8, <2>1, ReportedFact
  <1> QED BY <1>4, <1>5, <1>6, <1>7, <1>8 DEF Becomes

\* What a step makes of an order that did not exist.
LEMMA NewFact ==
    ASSUME OkxStep, ~Crash, NEW cid \in Cids, cid \notin Known, NEW p \in OrderType, orders'[cid] = p,
           Becomes(cid, p, Facts)
    PROVE  p \in FactOrders'[cid]
  <1>0. TInv /\ GInv /\ LegalInv /\ [Next]_vars
    BY DEF OkxStep, GInv
  <1>1. \A t \in Threads : InVenueCall(t) => act[t].cmd.cid # cid
    BY <1>0 DEF TInv, CallTypes
  <1>2. PICK cmd \in Commands :
           /\ cmd.op = "place" /\ cmd.cid = cid
           /\ \/ p = MakeOrder(cid, cmd.price, cmd.quantity)
              \/ p = [MakeOrder(cid, cmd.price, cmd.quantity) EXCEPT !.status = "Rejected", !.pending = "None"]
    <2>1. ASSUME NEW t \in Threads, NEW op, NEW kind, At(t, op, kind) PROVE act[t].cmd.cid # cid
      BY <1>1, <2>1 DEF At, InVenueCall
    <2> QED BY <2>1 DEF Becomes
  <1>3. /\ p.aliases = {} /\ \A x \in ExchangeIds : p.offsets[x] = 0
        /\ p.filled = 0 /\ p.status \in {"Unknown", "Rejected"}
    <2>1. PICK o : o = MakeOrder(cid, cmd.price, cmd.quantity)
      OBVIOUS
    <2>2. cmd.price \in Nat \cup {None} /\ cmd.quantity \in Nat
      BY <1>0, CommandFacts DEF TInv, HistoryTypes
    <2>3. o \in OrderType
      BY <2>1, <2>2, GatewayAssumption DEF MakeOrder, OrderType, Statuses, PendingActions
    <2>4. o.aliases = {} /\ o.offsets = [x \in ExchangeIds |-> 0] /\ o.filled = 0 /\ o.status = "Unknown"
      BY <2>1 DEF MakeOrder
    <2>5. CASE p = o
      BY <2>4, <2>5
    <2>6. CASE p = [o EXCEPT !.status = "Rejected", !.pending = "None"]
      <3>1. p.aliases = o.aliases /\ p.offsets = o.offsets /\ p.filled = o.filled /\ p.status = "Rejected"
        BY <2>3, <2>6 DEF OrderType
      <3> QED BY <2>4, <3>1
    <2> QED BY <1>2, <2>1, <2>5, <2>6
  <1>4. cid \in Known'
    BY NoneAssumption DEF Known
  <1>5. ASSUME NEW t \in Threads, Calling(t, cid)' PROVE p.status = "Unknown" /\ p.quantity > 0
    <2>1. Proceeds(t) /\ act'[t].pc \in {"intent", "send", "finish"} /\ act'[t].cmd.cid = cid /\ act'[t].cmd.op = "place"
      BY <1>0, <1>5, ThreadSteps DEF Calling, InVenueCall
    <2>2. ~(act[t].pc \in {"intent", "send", "finish"} /\ act'[t].cmd = act[t].cmd)
      BY <1>1, <2>1 DEF InVenueCall
    <2>3. PICK k \in Commands : PlaceBegin(t, k) /\ act'[t].cmd = k
      BY <2>1, <2>2 DEF Proceeds, CancelBegin, AmendBegin, MayBegin
    <2>4. k.cid = cid /\ k.op = "place"
      BY <2>1, <2>3
    <2>5. orders' = [orders EXCEPT ![cid] = MakeOrder(cid, k.price, k.quantity)]
      BY <2>3, <2>4 DEF PlaceBegin, Update
    <2>6. p = MakeOrder(cid, k.price, k.quantity)
      BY <1>0, <2>5 DEF TInv, OrderTypes
    <2>7. IntentLegal(k)'
      BY <1>0, <2>3, BeginLegal
    <2>8. k.quantity > 0
      BY <2>4, <2>7 DEF IntentLegal, Sized
    <2> QED BY <2>6, <2>8 DEF MakeOrder
  <1>6. p.status = "Rejected" => Ended(cid)'
    <2>1. ~WasSent(cid, "place")
      BY <1>0, SentIsKnown DEF WasSent
    <2>2. PhysOf(cid) = {}
      BY <1>0, <2>1 DEF PhysOf, LegalInv, PhysLegal
    <2>3. PlacesUnderWay(cid) = {}
      <3>1. SUFFICES ASSUME NEW r \in inflight, r.op = "place", r.cid = cid PROVE FALSE
        BY DEF PlacesUnderWay
      <3>2. WasSent(r.cid, r.op)
        BY <1>0, <3>1 DEF LegalInv, RequestLegal
      <3> QED BY <2>1, <3>1, <3>2
    <2>4. \A t \in Threads : ~Placing(t, cid)
      BY <1>1 DEF Placing, InVenueCall
    <2>5. PhysOf(cid)' = {} /\ PlacesUnderWay(cid)' = {}
      BY <2>2, <2>3, <2>4, NothingNew
    <2>6. \A t \in Threads : Placing(t, cid)' => Calling(t, cid)'
      BY DEF Placing, Calling, InVenueCall
    <2> QED BY <1>5, <2>5, <2>6 DEF Ended
  <1>7. p.quantity > 0 \/ \A t \in Threads : ~Calling(t, cid)'
    BY <1>5
  <1> QED BY <1>3, <1>4, <1>6, <1>7 DEF FactOrders, IsTerminal

LEMMA FactOrdersStep ==
    ASSUME OkxStep, FactsInv
    PROVE  OrdersIn(FactOrders)'
  <1>0. TInv /\ GInv /\ NamesInv /\ LegalInv /\ OneInv /\ [Next]_vars
    BY DEF OkxStep, GInv
  <1>1. PICK S, K, L : S = Facts /\ K = FactOrders /\ L = FactOrders'
    OBVIOUS
  <1>2. S \subseteq VenueReport /\ ReportsIn(S) /\ OrdersIn(K)
    BY <1>1 DEF Facts, NamedReports, FactsInv
  <1>3. ASSUME NEW cid \in Cids, cid \in Known => cid \in Known' PROVE K[cid] \subseteq L[cid]
    BY <1>1, <1>3, CopiesHold
  <1>4. OrdersIn(L)'
    <2>1. CASE Crash
      <3>1. ASSUME NEW cid \in Cids, journal[cid] # None PROVE K[cid] \subseteq L[cid]
        <4>1. orders'[cid] = journal[cid].order /\ journal[cid].order \in OrderType
          BY <1>0, <2>1, <3>1 DEF Crash, TInv, JournalTypes, JournalType
        <4>2. cid \in Known'
          BY <4>1, NoneAssumption DEF Known
        <4> QED BY <1>3, <4>2
      <3> QED BY <1>0, <1>2, <2>1, <3>1, CrashOrders
    <2>2. CASE ~Crash
      <3>1. \A cid \in Cids : K[cid] \subseteq L[cid]
        BY <1>0, <1>3, <2>2, RequestSteps
      <3>2. ASSUME NEW cid \in Cids, NEW p \in OrderType, orders'[cid] = p, Becomes(cid, p, S) PROVE p \in L[cid]
        <4>1. Becomes(cid, p, Facts)
          BY <1>1, <3>2
        <4>2. CASE cid \in Known
          <5>1. OrdersIn(FactOrders)
            BY DEF FactsInv
          <5>2. p \in FactOrders[cid]
            BY <1>0, <4>1, <4>2, <5>1, BecomesFact
          <5> QED BY <1>1, <3>1, <5>2
        <4>3. CASE cid \notin Known
          BY <1>1, <2>2, <3>2, <4>1, <4>3, NewFact
        <4> QED BY <4>2, <4>3
      <3> QED BY <1>0, <1>2, <2>2, <3>1, <3>2, StepOrders
    <2> QED BY <2>1, <2>2
  <1> QED BY <1>1, <1>4 DEF OrdersIn

LEMMA FactsInit == Init => FactsInv
  <1>1. SUFFICES ASSUME Init PROVE FactsInv
    OBVIOUS
  <1>2. PICK S, K : S = Facts /\ K = FactOrders
    OBVIOUS
  <1>3. /\ Known = {} /\ DOMAIN reserved = {} /\ \A cid \in Cids : journal[cid] = None
    BY <1>1 DEF Init, Known
  <1>4. OrdersIn(K)
    BY <1>3 DEF OrdersIn
  <1>5. /\ lane = <<>> /\ \A a \in Actors : act[a].reports = <<>> /\ act[a].pc = "idle"
        /\ \A cid \in Cids : deferred[cid] = <<>>
    BY <1>1 DEF Init, Idle
  <1>6. <<>> \in Seq(S) /\ Threads \subseteq Actors
    BY ActorFacts
  <1>7. ReportsIn(S)
    BY <1>5, <1>6 DEF ReportsIn
  <1> QED BY <1>2, <1>4, <1>7 DEF FactsInv

\* The fills of the first generations, one after the other.
FillAt(cid, n) ==
    IF SetToSeq(ExchangeIds)[n] \in PhysOf(cid) THEN venue[SetToSeq(ExchangeIds)[n]].filled ELSE 0
AddsFills(f, cid, k) == f = [n \in 0 .. k |-> IF n = 0 THEN 0 ELSE f[n - 1] + FillAt(cid, n)]

\* The fills of an order are at least those of each of its generations.
LEMMA FillsAddUp ==
    ASSUME TInv, NEW cid
    PROVE  VenueFilled(cid) \in Nat /\ \A x \in PhysOf(cid) : venue[x].filled <= VenueFilled(cid)
  <1>1. PICK xs, N : xs = SetToSeq(ExchangeIds) /\ N = Cardinality(ExchangeIds)
    OBVIOUS
  <1>2. N \in Nat /\ xs \in [1 .. N -> ExchangeIds] /\ \A y \in ExchangeIds : \E j \in 1 .. N : xs[j] = y
    <2>1. N \in Nat /\ ExistsBijection(1 .. N, ExchangeIds)
      BY <1>1, GatewayAssumption, FS_CardinalityType
    <2>2. \E f \in [1 .. N -> ExchangeIds] : IsInjective(f)
      BY <2>1 DEF ExistsBijection, Bijection, Injection
    <2>3. xs \in [1 .. N -> ExchangeIds] /\ IsInjective(xs)
      BY <1>1, <2>2 DEF SetToSeq
    <2>4. xs \in Injection(1 .. N, ExchangeIds)
      BY <2>3 DEF Injection
    <2>5. IsFiniteSet(1 .. N) /\ Cardinality(1 .. N) = N
      BY <2>1, FS_Interval
    <2>6. xs \in Surjection(1 .. N, ExchangeIds)
      BY <1>1, <2>1, <2>4, <2>5, FS_Injection, GatewayAssumption
    <2> QED BY <2>1, <2>3, <2>6 DEF Surjection
  <1>3. PICK f : f = (CHOOSE h : AddsFills(h, cid, N)) /\ VenueFilled(cid) = f[N]
    BY <1>1 DEF VenueFilled, AddsFills, FillAt
  <1>4. AddsFills(f, cid, N)
    <2>1. PICK g : g = [n \in 1 .. N |-> FillAt(cid, n)]
      OBVIOUS
    <2>2. PICK h : h = [n \in 0 .. N |-> IF n = 0 THEN 0 ELSE h[n - 1] + g[n]]
      BY <1>2, SumOf
    <2>3. \A n \in 0 .. N : h[n] = IF n = 0 THEN 0 ELSE h[n - 1] + g[n]
      BY <2>2
    <2>4. \A n \in 0 .. N : n # 0 => g[n] = FillAt(cid, n)
      BY <1>2, <2>1
    <2>5. \A n \in 0 .. N : h[n] = IF n = 0 THEN 0 ELSE h[n - 1] + FillAt(cid, n)
      BY <2>3, <2>4
    <2>6. AddsFills(h, cid, N)
      BY <2>2, <2>5 DEF AddsFills
    <2> QED BY <1>3, <2>6
  <1>5. \A n \in 0 .. N : f[n] = IF n = 0 THEN 0 ELSE f[n - 1] + FillAt(cid, n)
    BY <1>4 DEF AddsFills
  <1>6. \A n \in 1 .. N : FillAt(cid, n) \in Nat
    <2>1. \A y \in PhysOf(cid) : venue[y].filled \in Nat
      BY DEF PhysOf, TInv, VenueTypes, PhysType
    <2> QED BY <2>1 DEF FillAt
  <1>7. PICK bad : bad = {n \in 0 .. N : ~(f[n] \in Nat /\ \A i \in 1 .. n : FillAt(cid, i) <= f[n])}
    OBVIOUS
  <1>8. CASE bad = {}
    <2>1. f[N] \in Nat /\ \A i \in 1 .. N : FillAt(cid, i) <= f[N]
      BY <1>2, <1>7, <1>8
    <2>2. ASSUME NEW x \in PhysOf(cid) PROVE venue[x].filled <= f[N]
      <3>1. PICK j \in 1 .. N : xs[j] = x
        BY <1>2 DEF PhysOf
      <3>2. FillAt(cid, j) = venue[x].filled
        BY <1>1, <3>1 DEF FillAt
      <3> QED BY <2>1, <3>2
    <2> QED BY <1>3, <2>1, <2>2
  <1>9. CASE bad # {}
    <2>1. bad \in SUBSET Nat
      BY <1>2, <1>7
    <2>2. PICK n \in bad : \A m \in bad : n <= m
      BY <1>9, <2>1, LeastNat
    <2>3. n \in 0 .. N /\ ~(f[n] \in Nat /\ \A i \in 1 .. n : FillAt(cid, i) <= f[n])
      BY <1>7, <2>2
    <2>4. n # 0
      BY <1>2, <1>5, <2>3
    <2>5. n - 1 \in 0 .. N /\ n \in 1 .. N
      BY <1>2, <2>3, <2>4
    <2>6. n - 1 \notin bad
      BY <2>1, <2>2, <2>5
    <2>7. f[n - 1] \in Nat /\ \A i \in 1 .. n - 1 : FillAt(cid, i) <= f[n - 1]
      BY <1>7, <2>5, <2>6
    <2>8. f[n] = f[n - 1] + FillAt(cid, n) /\ FillAt(cid, n) \in Nat
      BY <1>5, <1>6, <2>3, <2>4, <2>5
    <2>9. f[n] \in Nat /\ f[n - 1] <= f[n] /\ FillAt(cid, n) <= f[n]
      BY <2>7, <2>8
    <2>10. ASSUME NEW i \in 1 .. n PROVE FillAt(cid, i) <= f[n]
      <3>1. CASE i = n
        BY <2>9, <3>1
      <3>2. CASE i # n
        <4>1. i \in 1 .. n - 1 /\ i \in 1 .. N
          BY <1>2, <2>5, <3>2
        <4>2. FillAt(cid, i) \in Nat /\ FillAt(cid, i) <= f[n - 1]
          BY <1>6, <2>7, <4>1
        <4> QED BY <2>7, <2>9, <4>2
      <3> QED BY <3>1, <3>2
    <2> QED BY <2>3, <2>9, <2>10
  <1> QED BY <1>8, <1>9

(***************************************************************************)
(* OKX, for every number of orders, threads, faults, restarts and passes   *)
(* of reconciliation: an order that the gateway calls finished does not    *)
(* trade any more, and the fills it shows were made, although reports are  *)
(* lost, repeated, late and out of order, requests take effect after a     *)
(* time-out or a restart, and three channels report the same order.        *)
(***************************************************************************)
THEOREM OkxShowsOnlyFacts == Spec => [](Kind = "Okx" => OnlyFacts)
  <1> DEFINE Inv == GInv /\ NamesInv /\ LegalInv /\ (Kind = "Okx" => OneInv /\ FactsInv)
  <1>1. Init => Inv
    BY InitGInv, NamesInit, LegalInit, OneInit, FactsInit
  <1>2. Inv /\ [Next]_vars => Inv'
    <2>1. SUFFICES ASSUME Inv, [Next]_vars PROVE Inv'
      OBVIOUS
    <2>2. GInv' /\ TInv /\ TInv'
      BY <2>1, StepGInv DEF GInv
    <2>3. NamesInv' /\ LegalInv'
      BY <2>1, <2>2, NamesStep, LegalStep
    <2>4. Kind' = Kind
      BY <2>1, OfferedStays DEF Kind
    <2>5. ASSUME Kind = "Okx" PROVE OneInv' /\ FactsInv'
      <3>1. OkxStep /\ FactsInv
        BY <2>1, <2>5 DEF OkxStep
      <3>2. OneInv' /\ OrdersIn(FactOrders)'
        BY <3>1, OneStep, FactOrdersStep
      <3>3. ReportsIn(Facts)'
        BY <2>2, <2>3, <3>1, <3>2, FactReports DEF FactsInv
      <3> QED BY <3>2, <3>3 DEF FactsInv
    <2> QED BY <2>2, <2>3, <2>4, <2>5
  <1>3. Inv => (Kind = "Okx" => OnlyFacts)
    <2>1. SUFFICES ASSUME Inv, Kind = "Okx" PROVE OnlyFacts
      OBVIOUS
    <2>2. TInv
      BY <2>1 DEF GInv
    <2>3. ASSUME NEW cid \in Known
          PROVE  /\ IsTerminal(orders[cid].status) => \A x \in PhysOf(cid) : ~Working(x)
                 /\ NotReduced(cid) => orders[cid].filled <= VenueFilled(cid)
      <3>1. PICK o : o = orders[cid] /\ o \in FactOrders[cid] /\ cid \in Cids
        BY <2>1 DEF FactsInv, OrdersIn, Known
      <3>2. /\ o \in OrderType /\ (IsTerminal(o.status) => Ended(cid))
            /\ o.filled > 0 => \E x \in PhysOf(cid) : NotReduced(cid) => o.filled <= venue[x].filled
        BY <3>1 DEF FactOrders
      <3>3. IsTerminal(o.status) => \A x \in PhysOf(cid) : ~Working(x)
        BY <3>2 DEF Ended
      <3>4. ASSUME NotReduced(cid) PROVE o.filled <= VenueFilled(cid)
        <4>1. o.filled \in Nat
          BY <3>2 DEF OrderType
        <4>2. CASE o.filled > 0
          <5>1. PICK x \in PhysOf(cid) : o.filled <= venue[x].filled
            BY <3>2, <3>4, <4>2
          <5>2. VenueFilled(cid) \in Nat /\ venue[x].filled <= VenueFilled(cid)
            BY <2>2, FillsAddUp
          <5>3. venue[x].filled \in Nat
            BY <2>2 DEF TInv, VenueTypes, PhysOf, PhysType
          <5> QED BY <4>1, <5>1, <5>2, <5>3
        <4>3. CASE o.filled = 0
          BY <2>2, <4>3, FillsAddUp
        <4> QED BY <4>1, <4>2, <4>3
      <3> QED BY <3>1, <3>3, <3>4
    <2> QED BY <2>1, <2>3 DEF OnlyFacts, TerminalAgreesWithVenue, NoPhantomFill
  <1> QED BY <1>1, <1>2, <1>3, PTL DEF Spec
=============================================================================
