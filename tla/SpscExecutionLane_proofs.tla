---------------------- MODULE SpscExecutionLane_proofs ----------------------
(***************************************************************************)
(* Proofs about SpscExecutionLane for every capacity, every number of      *)
(* producer threads, flushes and submits.                                  *)
(***************************************************************************)
EXTENDS SpscExecutionLane, FiniteSetTheorems, SequenceTheorems, TLAPS

\* Some producer thread is at one of the steps.
Busy(pcs) == \E p \in Producers : producer[p].pc \in pcs
\* What a condition adds to a count.
One(b) == IF b THEN 1 ELSE 0

\* The producer flag: one thread is inside submit, none once stop is requested.
ProducerInv ==
    /\ SingleProducer
    /\ ~active => \A p \in Producers : ProducerAt(p, "idle")
    /\ owner # "alive" => \A p \in Producers : ProducerAt(p, "idle")
    /\ \A p \in Producers : ~ProducerAt(p, "idle") => producer[p].report \in Reports

\* What the counters count.  A slot is in the semaphore, holds a published
\* report, or is in the hands of the producer or of the worker; an item is in
\* the semaphore, in the hands of the worker or about to be released, and the
\* sentinel of the destructor is one more.
CountInv ==
    /\ Len(published) = tail
    /\ head <= tail
    /\ consumer.pc \in {"pop", "advance"} => head < tail
    /\ slots + (tail - head) + One(Busy({"emplace", "count", "publish"}))
           + One(consumer.pc = "free") = Capacity
    /\ items + One(consumer.pc \in {"check", "pop", "advance", "exit"})
           + One(Busy({"release"})) = (tail - head) + One(owner \in {"joining", "joined"})
    /\ Len(handled) = head - One(consumer.pc \in {"free", "handle"})
    /\ pending = (tail - Len(handled)) + One(Busy({"publish"})) + One(consumer.pc = "settle")
    /\ consumer.pc = "exit" => head = tail /\ owner # "alive"
    /\ owner = "joined" => consumer.pc = "exit"

\* What the slots hold: the published reports, the one being published, and
\* nothing else.
SlotInv ==
    /\ \A n \in Nat : head <= n /\ n < tail /\ (n > head \/ consumer.pc # "advance")
          => slot[Index(n)] = published[n + 1]
    /\ consumer.pc = "advance" => slot[Index(head)] = Empty
    /\ \A p \in Producers : producer[p].pc \in {"count", "publish"}
          => slot[Index(tail)] = producer[p].report
    /\ \A n \in Nat : tail <= n /\ n < head + Capacity
                      /\ (n > tail \/ ~Busy({"count", "publish"}))
          => slot[Index(n)] = Empty

\* What was handled, and what is in hand, is what was published; whoever waits
\* in flush waits for published reports, and leaves when they are handled.
WorkerHistory ==
    /\ \A i \in 1 .. Len(handled) : handled[i] = published[i]
    /\ consumer.pc \in {"advance", "free", "handle"}
          => consumer.report = published[Len(handled) + 1]

\* A report is in one of the histories.
Published(r) == \E i \in 1 .. tail : published[i] = r
Handled(r) == \E i \in 1 .. Len(handled) : handled[i] = r

ProducerHistory ==
    /\ \A p \in Producers : producer[p].pc \in {"release", "leave"} => Published(producer[p].report)
    /\ \A r \in returned : Published(r)

FlushHistory ==
    /\ \A f \in Flushers : \A r \in flusher[f].mark : Published(r)
    /\ \A f \in Flushers : flusher[f].pc = "done" => \A r \in flusher[f].mark : Handled(r)

HistoryInv == WorkerHistory /\ ProducerHistory /\ FlushHistory

LInv == TypeOK /\ ProducerInv /\ CountInv /\ SlotInv /\ HistoryInv
-----------------------------------------------------------------------------
(***************************************************************************)
(* Positions of the ring that are less than its capacity apart have        *)
(* different slots.                                                        *)
(***************************************************************************)
LEMMA IndexDistinct ==
    ASSUME NEW m \in Nat, NEW n \in Nat, m < n, n - m < Capacity
    PROVE  Index(m) # Index(n)
  <1> SUFFICES ASSUME Index(m) = Index(n) PROVE FALSE
    OBVIOUS
  <1>1. Capacity \in Nat \ {0}
    BY LaneAssumption
  <1> DEFINE a == m \div Capacity
             b == n \div Capacity
  <1>2. a \in Int /\ b \in Int /\ m = Capacity * a + Index(m) /\ n = Capacity * b + Index(n)
    BY <1>1 DEF Index
  <1> HIDE DEF a, b
  <1>3. n - m = Capacity * (b - a)
    BY <1>1, <1>2 DEF Index
  <1>4. b - a > 0
    BY <1>1, <1>2, <1>3
  <1>5. Capacity * (b - a) >= Capacity
    BY <1>1, <1>2, <1>4
  <1> QED BY <1>1, <1>3, <1>5

\* Positions that are the capacity apart have the same slot, and it exists.
LEMMA IndexWraps ==
    ASSUME NEW n \in Nat
    PROVE  /\ Index(n + Capacity) = Index(n)
           /\ Index(n) \in 0 .. Capacity - 1
  <1>1. Capacity \in Nat \ {0}
    BY LaneAssumption
  <1>2. \A k \in Nat : Index(k) \in 0 .. Capacity - 1
    BY <1>1 DEF Index
  <1> DEFINE a == n \div Capacity
             b == (n + Capacity) \div Capacity
  <1>3. /\ a \in Int /\ b \in Int /\ n = Capacity * a + Index(n)
        /\ n + Capacity = Capacity * b + Index(n + Capacity)
    BY <1>1 DEF Index
  <1> HIDE DEF a, b
  <1>4. Index(n + Capacity) - Index(n) = Capacity * (a + 1 - b)
    BY <1>1, <1>2, <1>3
  <1>5. Index(n + Capacity) \in Int /\ Index(n) \in Int
    BY <1>1, <1>2
  <1>6. a + 1 - b < 1
    <2> SUFFICES ASSUME a + 1 - b >= 1 PROVE FALSE
      BY <1>3
    <2>1. Capacity * (a + 1 - b) >= Capacity
      BY <1>1, <1>3
    <2> QED BY <1>1, <1>2, <1>4, <2>1
  <1>7. a + 1 - b > -1
    <2> SUFFICES ASSUME a + 1 - b <= -1 PROVE FALSE
      BY <1>3
    <2>1. Capacity * (a + 1 - b) <= -Capacity
      BY <1>1, <1>3
    <2> QED BY <1>1, <1>2, <1>4, <2>1
  <1>8. a + 1 - b = 0
    BY <1>3, <1>6, <1>7
  <1> QED BY <1>1, <1>2, <1>4, <1>5, <1>8
-----------------------------------------------------------------------------
\* The busy producer, if there is one, is at step pc.
BusyAt(pc) ==
    /\ Busy({"emplace", "count", "publish"}) <=> pc \in {"emplace", "count", "publish"}
    /\ Busy({"count", "publish"}) <=> pc \in {"count", "publish"}
    /\ Busy({"publish"}) <=> pc = "publish"
    /\ Busy({"release"}) <=> pc = "release"

\* The producer flag makes one thread's step that of all.
LEMMA BusyNow ==
    ASSUME ProducerInv, NEW p \in Producers, ~ProducerAt(p, "idle") \/ ~active
    PROVE  BusyAt(producer[p].pc)
  BY DEF ProducerInv, SingleProducer, ProducerAt, BusyAt, Busy

\* The same after a step.
LEMMA BusyThen ==
    ASSUME ProducerInv, NEW p \in Producers, ~ProducerAt(p, "idle") \/ ~active,
           \A q \in Producers : q # p => producer'[q] = producer[q]
    PROVE  /\ BusyAt(producer[p].pc)'
           /\ SingleProducer'
           /\ \A q \in Producers : q # p => producer'[q].pc = "idle" /\ producer[q].pc = "idle"
  <1>1. \A q \in Producers : q # p => producer'[q].pc = "idle" /\ producer[q].pc = "idle"
    BY DEF ProducerInv, SingleProducer, ProducerAt
  <1>2. SingleProducer'
    BY <1>1 DEF SingleProducer, ProducerAt
  <1>3. BusyAt(producer[p].pc)'
    BY <1>1 DEF BusyAt, Busy
  <1> QED BY <1>1, <1>2, <1>3

\* Where a thread may be, and what it may hold.
ProducerType == [Producers -> [pc : ProducerSteps, report : Reports \cup {Empty}]]
ConsumerType == [pc : ConsumerSteps, report : Reports \cup {Empty}]
FlusherType == [Flushers -> [pc : FlushSteps, loaded : Nat, mark : SUBSET Reports]]

\* A step of a thread to another place keeps the type of its locals.
LEMMA GotoType ==
    /\ producer \in ProducerType =>
          \A p \in Producers, x \in ProducerSteps :
              ProducerGoto(p, x) => producer' \in ProducerType
    /\ consumer \in ConsumerType =>
          \A x \in ConsumerSteps : ConsumerGoto(x) => consumer' \in ConsumerType
  BY DEF ProducerType, ConsumerType, ProducerGoto, ConsumerGoto

\* Every step of a producer keeps the types.
LEMMA ProducerTypeStep ==
    ASSUME LInv, NEW p \in Producers,
           SubmitEnter(p) \/ SubmitViolation(p) \/ ProducerStep(p)
    PROVE  TypeOK'
  <1>0. /\ TypeOK /\ ProducerInv /\ producer \in ProducerType
        /\ (producer' \in ProducerType <=>
              producer' \in [Producers -> [pc : ProducerSteps, report : Reports \cup {Empty}]])
    BY DEF LInv, TypeOK, ProducerType
  <1> DEFINE idle == [pc |-> "idle", report |-> Empty]
  <1>1. [producer EXCEPT ![p] = idle] \in ProducerType
    BY <1>0 DEF ProducerType, ProducerSteps
  <1>2. ASSUME ~ProducerAt(p, "idle") PROVE producer[p].report \in Reports
    BY <1>0, <1>2 DEF ProducerInv
  <1>3. CASE SubmitEnter(p)
    <2>1. calls' \in 0 .. MaxSubmits /\ calls + 1 \in Reports
      BY <1>0, <1>3, LaneAssumption DEF SubmitEnter, Reports, TypeOK
    <2>2. producer' \in ProducerType
      BY <1>0, <1>3, <2>1 DEF SubmitEnter, ProducerType, ProducerSteps
    <2> QED BY <1>0, <1>3, <2>1, <2>2 DEF SubmitEnter, ring, history, TypeOK
  <1>4. CASE SubmitViolation(p)
    <2>1. calls' \in 0 .. MaxSubmits
      BY <1>0, <1>4, LaneAssumption DEF SubmitViolation, TypeOK
    <2> QED BY <1>0, <1>4, <2>1 DEF SubmitViolation, ring, history, TypeOK
  <1>5. CASE AcquireSlot(p)
    <2>1. producer' \in ProducerType
      BY <1>0, <1>5, GotoType DEF AcquireSlot, ProducerSteps
    <2> QED BY <1>0, <1>5, <2>1 DEF AcquireSlot, ring, history, TypeOK
  <1>6. CASE SubmitTimeout(p)
    BY <1>0, <1>1, <1>6 DEF SubmitTimeout, ring, history, TypeOK
  <1>7. CASE PushEmplace(p)
    <2>1. producer' \in ProducerType
      BY <1>0, <1>7, GotoType DEF PushEmplace, ProducerSteps
    <2>2. producer[p].report \in Reports
      BY <1>2, <1>7 DEF PushEmplace, ProducerAt
    <2> QED BY <1>0, <1>7, <2>1, <2>2 DEF PushEmplace, history, TypeOK
  <1>8. CASE PushCount(p)
    <2>1. producer' \in ProducerType
      BY <1>0, <1>8, GotoType DEF PushCount, ProducerSteps
    <2> QED BY <1>0, <1>8, <2>1 DEF PushCount, ring, history, TypeOK
  <1>9. CASE PushPublish(p)
    <2>1. producer' \in ProducerType
      BY <1>0, <1>9, GotoType DEF PushPublish, ProducerSteps
    <2>2. producer[p].report \in Reports
      BY <1>2, <1>9 DEF PushPublish, ProducerAt
    <2> QED BY <1>0, <1>9, <2>1, <2>2 DEF PushPublish, TypeOK
  <1>10. CASE PushRelease(p)
    <2>1. producer' \in ProducerType
      BY <1>0, <1>10, GotoType DEF PushRelease, ProducerSteps
    <2> QED BY <1>0, <1>10, <2>1 DEF PushRelease, ring, history, TypeOK
  <1>11. CASE SubmitLeave(p)
    <2>1. producer[p].report \in Reports
      BY <1>2, <1>11 DEF SubmitLeave, ProducerAt
    <2> QED BY <1>0, <1>1, <1>11, <2>1 DEF SubmitLeave, ring, TypeOK
  <1> QED BY <1>3, <1>4, <1>5, <1>6, <1>7, <1>8, <1>9, <1>10, <1>11 DEF ProducerStep

\* Every step of the worker keeps the types; pending_ stays natural by what it
\* counts.
LEMMA ConsumerTypeStep ==
    ASSUME LInv, ConsumerStep
    PROVE  TypeOK'
  <1>0. /\ TypeOK /\ consumer \in ConsumerType /\ flusher \in FlusherType
        /\ (consumer' \in ConsumerType <=>
              consumer' \in [pc : ConsumerSteps, report : Reports \cup {Empty}])
        /\ (flusher' \in FlusherType <=>
              flusher' \in [Flushers -> [pc : FlushSteps, loaded : Nat, mark : SUBSET Reports]])
    BY DEF LInv, TypeOK, ConsumerType, FlusherType
  <1>1. [f \in Flushers |-> IF flusher[f].pc = "blocked" THEN [flusher[f] EXCEPT !.pc = "wait"]
                             ELSE flusher[f]] \in FlusherType
    BY <1>0 DEF FlusherType, FlushSteps
  <1>2. CASE AcquireItem
    <2>1. consumer' \in ConsumerType
      BY <1>0, <1>2, GotoType DEF AcquireItem, ConsumerSteps
    <2> QED BY <1>0, <1>2, <2>1 DEF AcquireItem, ring, history, TypeOK
  <1>3. CASE CheckStop
    <2>1. consumer' \in ConsumerType
      BY <1>0, <1>3, GotoType DEF CheckStop, ConsumerSteps
    <2>2. flusher' \in FlusherType
      BY <1>0, <1>1, <1>3 DEF CheckStop
    <2> QED BY <1>0, <1>3, <2>1, <2>2 DEF CheckStop, ring, history, TypeOK
  <1>4. CASE Pop
    <2>1. Index(head) \in 0 .. Capacity - 1
      BY <1>0, IndexWraps DEF TypeOK
    <2>2. CASE head = tail
      <3>1. consumer' \in ConsumerType
        BY <1>0, <1>4, <2>2, GotoType DEF Pop, ConsumerSteps
      <3> QED BY <1>0, <1>4, <2>2, <3>1 DEF Pop, history, TypeOK
    <2>3. CASE head # tail
      <3>1. consumer' \in ConsumerType /\ slot' \in [0 .. Capacity - 1 -> Reports \cup {Empty}]
        BY <1>0, <1>4, <2>1, <2>3 DEF Pop, ConsumerType, ConsumerSteps, TypeOK
      <3> QED BY <1>0, <1>4, <2>3, <3>1 DEF Pop, history, TypeOK
    <2> QED BY <2>2, <2>3
  <1>5. CASE AdvanceHead
    <2>1. consumer' \in ConsumerType
      BY <1>0, <1>5, GotoType DEF AdvanceHead, ConsumerSteps
    <2> QED BY <1>0, <1>5, <2>1 DEF AdvanceHead, history, TypeOK
  <1>6. CASE FreeSlot
    <2>1. consumer' \in ConsumerType
      BY <1>0, <1>6, GotoType DEF FreeSlot, ConsumerSteps
    <2> QED BY <1>0, <1>6, <2>1 DEF FreeSlot, ring, history, TypeOK
  <1>7. CASE Handle
    <2>1. consumer' \in ConsumerType
      BY <1>0, <1>7, GotoType DEF Handle, ConsumerSteps
    <2>2. /\ consumer.report = published[Len(handled) + 1]
          /\ Len(published) = tail /\ Len(handled) = head - 1 /\ head <= tail
      BY <1>7 DEF LInv, HistoryInv, WorkerHistory, CountInv, One, Handle, ConsumerAt
    <2>3. Len(handled) + 1 \in 1 .. Len(published)
      BY <1>0, <2>2 DEF TypeOK
    <2>4. consumer.report \in Reports
      BY <1>0, <2>2, <2>3 DEF TypeOK
    <2> QED BY <1>0, <1>7, <2>1, <2>4 DEF Handle, ring, TypeOK
  <1>8. CASE Settle
    <2>1. /\ pending = (tail - Len(handled)) + One(Busy({"publish"})) + 1
          /\ Len(handled) = head /\ head <= tail
      BY <1>0, <1>8 DEF LInv, CountInv, One, Settle, ConsumerAt, TypeOK
    <2>2. pending - 1 \in Nat
      BY <1>0, <2>1 DEF One, TypeOK
    <2>3. consumer' \in ConsumerType
      BY <1>8 DEF Settle, ConsumerType, ConsumerSteps
    <2> QED BY <1>0, <1>8, <2>2, <2>3 DEF Settle, ring, history, TypeOK
  <1>9. CASE Notify
    <2>1. consumer' \in ConsumerType
      BY <1>0, <1>9, GotoType DEF Notify, ConsumerSteps
    <2>2. flusher' \in FlusherType
      BY <1>1, <1>9 DEF Notify
    <2> QED BY <1>0, <1>9, <2>1, <2>2 DEF Notify, ring, history, TypeOK
  <1> QED BY <1>2, <1>3, <1>4, <1>5, <1>6, <1>7, <1>8, <1>9 DEF ConsumerStep

\* Every step keeps the types.
LEMMA LaneTypeStep == LInv /\ [Next]_vars => TypeOK'
  <1> SUFFICES ASSUME LInv, [Next]_vars PROVE TypeOK'
    OBVIOUS
  <1>0. TypeOK
    BY DEF LInv
  <1>1. ASSUME NEW f \in Flushers, FlushBegin(f) \/ FlushStep(f) PROVE TypeOK'
    <2>1. flusher' \in [Flushers -> [pc : FlushSteps, loaded : Nat, mark : SUBSET Reports]]
      <3> USE <1>0 DEF FlushSteps, TypeOK
      <3>1. CASE FlushBegin(f)
        BY <3>1 DEF FlushBegin
      <3>2. CASE FlushLoad(f)
        <4> DEFINE x == IF pending = 0 THEN "done" ELSE "wait"
        <4>1. x \in FlushSteps
          OBVIOUS
        <4>2. flusher' = [flusher EXCEPT ![f].pc = x, ![f].loaded = pending]
          BY <3>2 DEF FlushLoad
        <4> HIDE DEF x
        <4> QED BY <4>1, <4>2, ZenonT(60)
      <3>3. CASE FlushWait(f)
        <4> DEFINE y == IF pending = flusher[f].loaded THEN "blocked" ELSE "load"
        <4>1. y \in FlushSteps
          OBVIOUS
        <4>2. flusher' = [flusher EXCEPT ![f].pc = y]
          BY <3>3 DEF FlushWait
        <4> HIDE DEF y
        <4> QED BY <4>1, <4>2, ZenonT(60)
      <3>4. CASE FlushReturn(f)
        BY <3>4 DEF FlushReturn
      <3> QED BY <1>1, <3>1, <3>2, <3>3, <3>4 DEF FlushStep
    <2>2. UNCHANGED <<ring, pending, slots, items, active, calls, producer, consumer, owner, history>>
      BY <1>1 DEF FlushBegin, FlushStep, FlushLoad, FlushWait, FlushReturn
    <2> QED BY <1>0, <2>1, <2>2 DEF ring, history, TypeOK
  <1>2. CASE RequestStop \/ ReleaseSentinel \/ Join
    BY <1>0, <1>2, SMTT(30) DEF RequestStop, ReleaseSentinel, Join, ring, history, TypeOK
  <1>3. CASE UNCHANGED vars
    BY <1>0, <1>3 DEF vars, TypeOK
  <1> QED BY <1>1, <1>2, <1>3, ProducerTypeStep, ConsumerTypeStep DEF Next

\* Every step keeps the producer flag's promise.
LEMMA ProducerInvStep == LInv /\ [Next]_vars => ProducerInv'
  <1> SUFFICES ASSUME LInv, [Next]_vars PROVE ProducerInv'
    OBVIOUS
  <1>0. TypeOK /\ ProducerInv
    BY DEF LInv
  <1>1. ASSUME NEW p \in Producers, SubmitEnter(p) PROVE ProducerInv'
    <2>1. \A q \in Producers : q # p => producer'[q] = producer[q]
      BY <1>0, <1>1 DEF SubmitEnter, TypeOK
    <2>2. /\ SingleProducer'
          /\ \A q \in Producers : q # p => producer'[q].pc = "idle"
      BY <1>0, <1>1, <2>1, BusyThen DEF SubmitEnter
    <2>3. producer'[p].report \in Reports /\ active' /\ owner' = "alive"
      BY <1>0, <1>1, LaneAssumption DEF SubmitEnter, TypeOK, Reports
    <2> QED BY <2>2, <2>3 DEF ProducerInv, ProducerAt, Reports
  <1>2. ASSUME NEW p \in Producers, ProducerStep(p) PROVE ProducerInv'
    <2>1. ~ProducerAt(p, "idle")
      BY <1>2 DEF ProducerStep, AcquireSlot, SubmitTimeout, PushEmplace, PushCount, PushPublish,
                  PushRelease, SubmitLeave, ProducerAt
    <2>2. \A q \in Producers : q # p => producer'[q] = producer[q]
      BY <1>0, <1>2 DEF ProducerStep, AcquireSlot, SubmitTimeout, PushEmplace, PushCount,
             PushPublish, PushRelease, SubmitLeave, ProducerGoto, TypeOK
    <2>3. /\ SingleProducer'
          /\ \A q \in Producers : q # p => producer'[q].pc = "idle"
      BY <1>0, <2>1, <2>2, BusyThen
    <2>4. /\ producer'[p].pc = "idle" \/ (active' = active /\ producer'[p].report = producer[p].report)
          /\ owner' = owner
      BY <1>0, <1>2 DEF ProducerStep, AcquireSlot, SubmitTimeout, PushEmplace, PushCount,
             PushPublish, PushRelease, SubmitLeave, ProducerGoto, TypeOK
    <2> QED BY <1>0, <2>1, <2>3, <2>4 DEF ProducerInv, ProducerAt, Reports
  <1>3. CASE RequestStop
    BY <1>0, <1>3 DEF ProducerInv, SingleProducer, RequestStop, ProducerAt, Reports
  <1>4. CASE ReleaseSentinel \/ Join
    BY <1>0, <1>4 DEF ProducerInv, SingleProducer, ReleaseSentinel, Join, ProducerAt, Reports
  <1>5. ASSUME UNCHANGED <<producer, active, owner>> PROVE ProducerInv'
    BY <1>0, <1>5 DEF ProducerInv, SingleProducer, ProducerAt, Reports
  <1>6. \A p \in Producers : SubmitViolation(p) => UNCHANGED <<producer, active, owner>>
    BY DEF SubmitViolation
  <1>7. ConsumerStep => UNCHANGED <<producer, active, owner>>
    BY DEF ConsumerStep, AcquireItem, CheckStop, Pop, AdvanceHead, FreeSlot, Handle, Settle, Notify
  <1>8. \A f \in Flushers : FlushBegin(f) \/ FlushStep(f) => UNCHANGED <<producer, active, owner>>
    BY DEF FlushBegin, FlushStep, FlushLoad, FlushWait, FlushReturn
  <1>9. UNCHANGED vars => UNCHANGED <<producer, active, owner>>
    BY DEF vars
  <1> QED BY <1>1, <1>2, <1>3, <1>4, <1>5, <1>6, <1>7, <1>8, <1>9 DEF Next

\* What a producer does to the steps of all producers.
LEMMA ProducerMoves ==
    ASSUME LInv, NEW p \in Producers, ProducerStep(p)
    PROVE  /\ BusyAt(producer[p].pc) /\ BusyAt(producer[p].pc)'
           /\ owner' = "alive" /\ owner = "alive"
           /\ \A q \in Producers : q # p => producer'[q].pc = "idle" /\ producer[q].pc = "idle"
           /\ producer[p].pc # "idle"
           /\ producer'[p].pc # "idle" => producer'[p].report = producer[p].report
  <1>0. TypeOK /\ ProducerInv
    BY DEF LInv
  <1>1. ~ProducerAt(p, "idle")
    BY DEF ProducerStep, AcquireSlot, SubmitTimeout, PushEmplace, PushCount, PushPublish,
           PushRelease, SubmitLeave, ProducerAt
  <1>2. \A q \in Producers : q # p => producer'[q] = producer[q]
    BY <1>0 DEF ProducerStep, AcquireSlot, SubmitTimeout, PushEmplace, PushCount,
           PushPublish, PushRelease, SubmitLeave, ProducerGoto, TypeOK
  <1>3. owner' = owner
    BY DEF ProducerStep, AcquireSlot, SubmitTimeout, PushEmplace, PushCount,
           PushPublish, PushRelease, SubmitLeave
  <1>4. producer'[p].pc # "idle" => producer'[p].report = producer[p].report
    BY <1>0 DEF ProducerStep, AcquireSlot, SubmitTimeout, PushEmplace, PushCount,
           PushPublish, PushRelease, SubmitLeave, ProducerGoto, TypeOK
  <1> QED BY <1>0, <1>1, <1>2, <1>3, <1>4, BusyNow, BusyThen DEF ProducerInv, ProducerAt

\* Every step of a producer keeps the counts: push moves a slot from the
\* semaphore to the ring and then releases an item.
LEMMA ProducerCountStep ==
    ASSUME LInv, NEW p \in Producers, SubmitEnter(p) \/ ProducerStep(p)
    PROVE  CountInv'
  <1>0. /\ TypeOK /\ ProducerInv /\ CountInv
        /\ head \in Nat /\ tail \in Nat /\ slots \in Nat /\ items \in Nat /\ pending \in Nat
        /\ Len(published) \in Nat /\ Len(handled) \in Nat /\ Capacity \in Nat
    BY LaneAssumption DEF LInv, TypeOK
  <1>1. CASE SubmitEnter(p)
    <2>1. \A q \in Producers : q # p => producer'[q] = producer[q]
      BY <1>0, <1>1 DEF SubmitEnter, TypeOK
    <2>2. producer[p].pc = "idle" /\ producer'[p].pc = "waitSlot"
      BY <1>0, <1>1 DEF SubmitEnter, ProducerAt, TypeOK
    <2>3. BusyAt(producer[p].pc) /\ BusyAt(producer[p].pc)'
      BY <1>0, <1>1, <2>1, BusyNow, BusyThen DEF SubmitEnter
    <2> QED BY <1>0, <1>1, <2>2, <2>3 DEF SubmitEnter, CountInv, BusyAt, One, ring, history
  <1>2. CASE ProducerStep(p)
    <2>0. BusyAt(producer[p].pc) /\ BusyAt(producer[p].pc)' /\ owner' = "alive" /\ owner = "alive"
      BY <1>2, ProducerMoves
    <2>1. CASE AcquireSlot(p)
      <3>1. producer[p].pc = "waitSlot" /\ producer'[p].pc = "emplace"
        BY <1>0, <2>1 DEF AcquireSlot, ProducerAt, ProducerGoto, TypeOK
      <3> QED BY <1>0, <2>0, <2>1, <3>1 DEF AcquireSlot, CountInv, BusyAt, One, ring, history
    <2>2. CASE SubmitTimeout(p)
      <3>1. producer[p].pc = "waitSlot" /\ producer'[p].pc = "idle"
        BY <1>0, <2>2 DEF SubmitTimeout, ProducerAt, TypeOK
      <3> QED BY <1>0, <2>0, <2>2, <3>1 DEF SubmitTimeout, CountInv, BusyAt, One, ring, history
    <2>3. CASE PushEmplace(p)
      <3>1. producer[p].pc = "emplace" /\ producer'[p].pc = "count"
        BY <1>0, <2>3 DEF PushEmplace, ProducerAt, ProducerGoto, TypeOK
      <3> QED BY <1>0, <2>0, <2>3, <3>1 DEF PushEmplace, CountInv, BusyAt, One, history
    <2>4. CASE PushCount(p)
      <3>1. producer[p].pc = "count" /\ producer'[p].pc = "publish"
        BY <1>0, <2>4 DEF PushCount, ProducerAt, ProducerGoto, TypeOK
      <3>2. /\ Busy({"emplace", "count", "publish"}) /\ Busy({"emplace", "count", "publish"})'
            /\ ~Busy({"publish"}) /\ Busy({"publish"})'
            /\ ~Busy({"release"}) /\ ~Busy({"release"})'
        BY <2>0, <3>1 DEF BusyAt
      <3>3. /\ pending' = pending + 1
            /\ UNCHANGED <<head, tail, slots, items, consumer, owner, published, handled>>
        BY <2>4 DEF PushCount, ring, history
      <3>4. /\ One(Busy({"emplace", "count", "publish"})) = 1
            /\ One(Busy({"emplace", "count", "publish"}))' = 1
            /\ One(Busy({"publish"})) = 0 /\ One(Busy({"publish"}))' = 1
            /\ One(Busy({"release"})) = 0 /\ One(Busy({"release"}))' = 0
        BY <3>2, Zenon DEF One
      <3> QED BY <1>0, <3>3, <3>4 DEF CountInv, One
    <2>5. CASE PushPublish(p)
      <3>1. producer[p].pc = "publish" /\ producer'[p].pc = "release"
        BY <1>0, <2>5 DEF PushPublish, ProducerAt, ProducerGoto, TypeOK
      <3>2. Len(published') = Len(published) + 1
        BY <1>0, <2>5 DEF PushPublish, TypeOK
      <3>3. /\ Busy({"emplace", "count", "publish"}) /\ ~Busy({"emplace", "count", "publish"})'
            /\ Busy({"publish"}) /\ ~Busy({"publish"})'
            /\ ~Busy({"release"}) /\ Busy({"release"})'
        BY <2>0, <3>1 DEF BusyAt
      <3>4. /\ tail' = tail + 1
            /\ UNCHANGED <<head, pending, slots, items, consumer, owner, handled>>
        BY <2>5 DEF PushPublish
      <3>5. /\ One(Busy({"emplace", "count", "publish"})) = 1
            /\ One(Busy({"emplace", "count", "publish"}))' = 0
            /\ One(Busy({"publish"})) = 1 /\ One(Busy({"publish"}))' = 0
            /\ One(Busy({"release"})) = 0 /\ One(Busy({"release"}))' = 1
        BY <3>3, Zenon DEF One
      <3>6. /\ One(consumer.pc = "free")' = One(consumer.pc = "free")
            /\ One(consumer.pc = "settle")' = One(consumer.pc = "settle")
            /\ One(consumer.pc \in {"free", "handle"})' = One(consumer.pc \in {"free", "handle"})
            /\ One(consumer.pc \in {"check", "pop", "advance", "exit"})' =
                  One(consumer.pc \in {"check", "pop", "advance", "exit"})
            /\ One(owner \in {"joining", "joined"})' = One(owner \in {"joining", "joined"})
        BY <3>4
      <3>7. /\ One(consumer.pc = "free") \in 0 .. 1 /\ One(consumer.pc = "settle") \in 0 .. 1
            /\ One(consumer.pc \in {"free", "handle"}) \in 0 .. 1
            /\ One(consumer.pc \in {"check", "pop", "advance", "exit"}) \in 0 .. 1
            /\ One(owner \in {"joining", "joined"}) \in 0 .. 1
        BY DEF One
      <3>8. (consumer.pc = "exit" => head = tail /\ owner # "alive")
                /\ (owner = "joined" => consumer.pc = "exit")
        BY <1>0 DEF CountInv
      <3>9. consumer.pc # "exit" /\ owner = "alive"
        BY <2>0, <3>8
      <3>10. (slots + (tail - head) + One(Busy({"emplace", "count", "publish"}))
                 + One(consumer.pc = "free") = Capacity)'
        <4>1. slots + (tail - head) + 1 + One(consumer.pc = "free") = Capacity
          BY <1>0, <3>5 DEF CountInv
        <4>2. slots + (tail + 1 - head) + 0 + One(consumer.pc = "free") = Capacity
          BY <1>0, <3>7, <4>1
        <4> QED BY <1>0, <3>4, <3>5, <3>6, <3>7, <4>2
      <3>11. (items + One(consumer.pc \in {"check", "pop", "advance", "exit"})
                 + One(Busy({"release"})) = (tail - head) + One(owner \in {"joining", "joined"}))'
        <4>1. items + One(consumer.pc \in {"check", "pop", "advance", "exit"}) + 0
                  = (tail - head) + One(owner \in {"joining", "joined"})
          BY <1>0, <3>5 DEF CountInv
        <4>2. items + One(consumer.pc \in {"check", "pop", "advance", "exit"}) + 1
                  = (tail + 1 - head) + One(owner \in {"joining", "joined"})
          BY <1>0, <3>7, <4>1
        <4> QED BY <1>0, <3>4, <3>5, <3>6, <3>7, <4>2
      <3>12. (pending = (tail - Len(handled)) + One(Busy({"publish"})) + One(consumer.pc = "settle"))'
        <4>1. pending = (tail - Len(handled)) + 1 + One(consumer.pc = "settle")
          BY <1>0, <3>5 DEF CountInv
        <4>2. pending = (tail + 1 - Len(handled)) + 0 + One(consumer.pc = "settle")
          BY <1>0, <3>7, <4>1
        <4> QED BY <1>0, <3>4, <3>5, <3>6, <3>7, <4>2
      <3>13. /\ Len(published)' = tail' /\ head' <= tail'
             /\ consumer'.pc \in {"pop", "advance"} => head' < tail'
        BY <1>0, <3>2, <3>4 DEF CountInv
      <3>14. (Len(handled) = head - One(consumer.pc \in {"free", "handle"}))'
        BY <1>0, <3>4, <3>6 DEF CountInv
      <3> QED BY <3>4, <3>9, <2>0, <3>10, <3>11, <3>12, <3>13, <3>14 DEF CountInv
    <2>6. CASE PushRelease(p)
      <3>1. producer[p].pc = "release" /\ producer'[p].pc = "leave"
        BY <1>0, <2>6 DEF PushRelease, ProducerAt, ProducerGoto, TypeOK
      <3> QED BY <1>0, <2>0, <2>6, <3>1 DEF PushRelease, CountInv, BusyAt, One, ring, history
    <2>7. CASE SubmitLeave(p)
      <3>1. producer[p].pc = "leave" /\ producer'[p].pc = "idle"
        BY <1>0, <2>7 DEF SubmitLeave, ProducerAt, TypeOK
      <3> QED BY <1>0, <2>0, <2>7, <3>1 DEF SubmitLeave, CountInv, BusyAt, One, ring, history
    <2> QED BY <1>2, <2>1, <2>2, <2>3, <2>4, <2>5, <2>6, <2>7 DEF ProducerStep
  <1> QED BY <1>1, <1>2

\* What a producer is doing does not change when another thread steps.
LEMMA BusySame ==
    ASSUME producer' = producer, NEW pcs
    PROVE  Busy(pcs)' <=> Busy(pcs)
  BY DEF Busy

\* Every other step keeps the counts: try_pop moves an item to the worker and a
\* slot back to the semaphore, and the sentinel ends the worker.
LEMMA CountInvStep == LInv /\ [Next]_vars => CountInv'
  <1> SUFFICES ASSUME LInv, [Next]_vars PROVE CountInv'
    OBVIOUS
  <1>0. /\ TypeOK /\ ProducerInv /\ CountInv
        /\ head \in Nat /\ tail \in Nat /\ slots \in Nat /\ items \in Nat /\ pending \in Nat
        /\ Len(published) \in Nat /\ Len(handled) \in Nat /\ Capacity \in Nat
    BY LaneAssumption DEF LInv, TypeOK
  <1> DEFINE pc == consumer.pc
  <1>1. consumer \in [pc : ConsumerSteps, report : Reports \cup {Empty}]
    BY <1>0 DEF TypeOK
  <1>2. ASSUME producer' = producer
        PROVE  /\ Busy({"emplace", "count", "publish"})' <=> Busy({"emplace", "count", "publish"})
               /\ Busy({"release"})' <=> Busy({"release"})
               /\ Busy({"publish"})' <=> Busy({"publish"})
    BY <1>2, BusySame
  <1>3. CASE AcquireItem
    <2>1. consumer.pc = "acquire" /\ consumer'.pc = "check" /\ producer' = producer
      BY <1>1, <1>3 DEF AcquireItem, ConsumerAt, ConsumerGoto
    <2> QED BY <1>0, <1>2, <1>3, <2>1 DEF AcquireItem, CountInv, One, ring, history
  <1>4. CASE CheckStop
    <2>1. /\ consumer.pc = "check" /\ producer' = producer
          /\ consumer'.pc = IF owner # "alive" /\ head = tail THEN "exit" ELSE "pop"
      BY <1>1, <1>4 DEF CheckStop, ConsumerAt, ConsumerGoto
    <2>2. consumer'.pc = "pop" => head < tail
      BY <1>0, <2>1 DEF CountInv, One
    <2> QED BY <1>0, <1>2, <1>4, <2>1, <2>2 DEF CheckStop, CountInv, One, ring, history
  <1>5. CASE Pop
    <2>1. consumer.pc = "pop" /\ head < tail
      BY <1>0, <1>5 DEF Pop, ConsumerAt, CountInv
    <2>2. consumer'.pc = "advance" /\ producer' = producer
      BY <1>0, <1>5, <2>1 DEF Pop
    <2> QED BY <1>0, <1>2, <1>5, <2>1, <2>2 DEF Pop, CountInv, One, history
  <1>6. CASE AdvanceHead
    <2>1. consumer.pc = "advance" /\ consumer'.pc = "free" /\ producer' = producer
      BY <1>1, <1>6 DEF AdvanceHead, ConsumerAt, ConsumerGoto
    <2> QED BY <1>0, <1>2, <1>6, <2>1 DEF AdvanceHead, CountInv, One, history
  <1>7. CASE FreeSlot
    <2>1. consumer.pc = "free" /\ consumer'.pc = "handle" /\ producer' = producer
      BY <1>1, <1>7 DEF FreeSlot, ConsumerAt, ConsumerGoto
    <2> QED BY <1>0, <1>2, <1>7, <2>1 DEF FreeSlot, CountInv, One, ring, history
  <1>8. CASE Handle
    <2>1. consumer.pc = "handle" /\ consumer'.pc = "settle" /\ producer' = producer
      BY <1>1, <1>8 DEF Handle, ConsumerAt, ConsumerGoto
    <2>2. Len(handled') = Len(handled) + 1
      <3>1. consumer.report \in Reports
        BY <1>8, LaneTypeStep DEF Handle, TypeOK
      <3> QED BY <1>0, <1>8, <3>1 DEF Handle, TypeOK
    <2> QED BY <1>0, <1>2, <1>8, <2>1, <2>2 DEF Handle, CountInv, One, ring
  <1>9. CASE Settle
    <2>1. consumer.pc = "settle" /\ consumer'.pc \in {"notify", "acquire"} /\ producer' = producer
      BY <1>9 DEF Settle, ConsumerAt
    <2> QED BY <1>0, <1>2, <1>9, <2>1 DEF Settle, CountInv, One, ring, history
  <1>10. CASE Notify
    <2>1. consumer.pc = "notify" /\ consumer'.pc = "acquire" /\ producer' = producer
      BY <1>1, <1>10 DEF Notify, ConsumerAt, ConsumerGoto
    <2> QED BY <1>0, <1>2, <1>10, <2>1 DEF Notify, CountInv, One, ring, history
  <1>11. CASE RequestStop
    BY <1>0, <1>2, <1>11 DEF RequestStop, CountInv, One, ring, history
  <1>12. CASE ReleaseSentinel
    BY <1>0, <1>2, <1>12 DEF ReleaseSentinel, CountInv, One, ring, history
  <1>13. CASE Join
    BY <1>0, <1>2, <1>13 DEF Join, ConsumerAt, CountInv, One, ring, history
  <1>14. ASSUME UNCHANGED <<ring, pending, slots, items, producer, consumer, owner, history>>
         PROVE  CountInv'
    BY <1>0, <1>2, <1>14 DEF CountInv, One, ring, history
  <1>15. \A p \in Producers : SubmitViolation(p) =>
            UNCHANGED <<ring, pending, slots, items, producer, consumer, owner, history>>
    BY DEF SubmitViolation
  <1>16. \A f \in Flushers : FlushBegin(f) \/ FlushStep(f) =>
            UNCHANGED <<ring, pending, slots, items, producer, consumer, owner, history>>
    BY DEF FlushBegin, FlushStep, FlushLoad, FlushWait, FlushReturn
  <1>17. UNCHANGED vars =>
            UNCHANGED <<ring, pending, slots, items, producer, consumer, owner, history>>
    BY DEF vars, ring, history
  <1> QED BY <1>3, <1>4, <1>5, <1>6, <1>7, <1>8, <1>9, <1>10, <1>11, <1>12, <1>13, <1>14,
             <1>15, <1>16, <1>17, ProducerCountStep DEF Next, ConsumerStep

\* The ring is never over-full, and has room for the report being pushed.
LEMMA RoomInRing ==
    ASSUME LInv
    PROVE  /\ tail - head <= Capacity
           /\ Busy({"emplace", "count", "publish"}) => tail - head < Capacity
  <1>1. /\ head \in Nat /\ tail \in Nat /\ slots \in Nat /\ Capacity \in Nat
        /\ slots + (tail - head) + One(Busy({"emplace", "count", "publish"}))
               + One(consumer.pc = "free") = Capacity
    BY LaneAssumption DEF LInv, TypeOK, CountInv
  <1> QED BY <1>1 DEF One

\* A step that touches neither the ring nor the places that SlotInv speaks of.
LEMMA SlotSame ==
    ASSUME LInv, UNCHANGED <<slot, head, tail, published>>,
           consumer'.pc = "advance" <=> consumer.pc = "advance",
           Busy({"count", "publish"})' <=> Busy({"count", "publish"}),
           \A p \in Producers : producer'[p].pc \in {"count", "publish"} =>
               producer[p].pc \in {"count", "publish"} /\ producer'[p].report = producer[p].report
    PROVE  SlotInv'
  <1>1. SlotInv
    BY DEF LInv
  <1> QED BY <1>1 DEF SlotInv, Index

\* push writes a slot that is empty and then makes it visible.
LEMMA ProducerSlotStep ==
    ASSUME LInv, NEW p \in Producers, SubmitEnter(p) \/ ProducerStep(p)
    PROVE  SlotInv'
  <1>0. /\ TypeOK /\ ProducerInv /\ CountInv /\ SlotInv
        /\ head \in Nat /\ tail \in Nat /\ Capacity \in Nat \ {0} /\ head <= tail
    BY LaneAssumption DEF LInv, TypeOK, CountInv
  <1>1. CASE SubmitEnter(p)
    <2>1. \A q \in Producers : q # p => producer'[q] = producer[q]
      BY <1>0, <1>1 DEF SubmitEnter, TypeOK
    <2>2. producer[p].pc = "idle" /\ producer'[p].pc = "waitSlot"
      BY <1>0, <1>1 DEF SubmitEnter, ProducerAt, TypeOK
    <2>3. ~Busy({"count", "publish"}) /\ ~Busy({"count", "publish"})'
      BY <1>0, <1>1, <2>1, <2>2, BusyNow, BusyThen DEF SubmitEnter, BusyAt
    <2> QED BY <1>1, <2>1, <2>2, <2>3, SlotSame DEF SubmitEnter, ring, history
  <1>2. CASE ProducerStep(p)
    <2>0. /\ BusyAt(producer[p].pc) /\ BusyAt(producer[p].pc)'
          /\ \A q \in Producers : q # p => producer'[q].pc = "idle" /\ producer[q].pc = "idle"
          /\ producer'[p].pc # "idle" => producer'[p].report = producer[p].report
      BY <1>2, ProducerMoves
    <2>1. CASE AcquireSlot(p) \/ SubmitTimeout(p) \/ PushRelease(p) \/ SubmitLeave(p)
      <3>1. /\ producer[p].pc \notin {"count", "publish"}
            /\ producer'[p].pc \notin {"count", "publish"}
        BY <1>0, <2>1 DEF AcquireSlot, SubmitTimeout, PushRelease, SubmitLeave, ProducerAt,
               ProducerGoto, TypeOK
      <3>2. UNCHANGED <<slot, head, tail, published, consumer>>
        BY <2>1 DEF AcquireSlot, SubmitTimeout, PushRelease, SubmitLeave, ring, history
      <3>3. ~Busy({"count", "publish"}) /\ ~Busy({"count", "publish"})'
        BY <2>0, <3>1 DEF BusyAt
      <3> QED BY <2>0, <3>1, <3>2, <3>3, SlotSame
    <2>2. CASE PushCount(p)
      <3>1. producer[p].pc = "count" /\ producer'[p].pc = "publish"
        BY <1>0, <2>2 DEF PushCount, ProducerAt, ProducerGoto, TypeOK
      <3>2. UNCHANGED <<slot, head, tail, published, consumer>>
        BY <2>2 DEF PushCount, ring, history
      <3>3. Busy({"count", "publish"}) /\ Busy({"count", "publish"})'
        BY <2>0, <3>1 DEF BusyAt
      <3> QED BY <2>0, <3>1, <3>2, <3>3, SlotSame
    <2>3. CASE PushEmplace(p)
      <3>1. /\ producer[p].pc = "emplace" /\ producer'[p].pc = "count"
            /\ slot' = [slot EXCEPT ![Index(tail)] = producer[p].report]
            /\ UNCHANGED <<head, tail, published, consumer>>
        BY <1>0, <2>3 DEF PushEmplace, ProducerAt, ProducerGoto, TypeOK, history
      <3>2. tail - head < Capacity /\ ~Busy({"count", "publish"}) /\ Busy({"count", "publish"})'
        BY <2>0, <3>1, RoomInRing DEF BusyAt
      <3>3. \A n \in Nat : head <= n /\ n < head + Capacity /\ n # tail =>
                slot'[Index(n)] = slot[Index(n)]
        <4> SUFFICES ASSUME NEW n \in Nat, head <= n, n < head + Capacity, n # tail
                     PROVE  slot'[Index(n)] = slot[Index(n)]
          OBVIOUS
        <4>1. Index(n) # Index(tail)
          <5>1. CASE n < tail
            BY <1>0, <3>2, <5>1, IndexDistinct
          <5>2. CASE n > tail
            BY <1>0, <3>2, <5>2, IndexDistinct
          <5> QED BY <1>0, <5>1, <5>2
        <4> QED BY <1>0, <3>1, <4>1, IndexWraps DEF TypeOK
      <3>4. slot'[Index(tail)] = producer[p].report
        BY <1>0, <3>1, IndexWraps DEF TypeOK
      <3>5. consumer.pc = "advance" => head < tail
        BY <1>0 DEF CountInv
      <3>6. \A n \in Nat : head <= n /\ n < tail /\ (n > head \/ consumer'.pc # "advance")
                => slot'[Index(n)] = published'[n + 1]
        BY <1>0, <3>1, <3>2, <3>3 DEF SlotInv
      <3>7. consumer'.pc = "advance" => slot'[Index(head)] = Empty
        BY <1>0, <3>1, <3>2, <3>3, <3>5 DEF SlotInv
      <3>8. \A q \in Producers : producer'[q].pc \in {"count", "publish"}
                => slot'[Index(tail)] = producer'[q].report
        BY <2>0, <3>1, <3>4
      <3>9. \A n \in Nat : tail <= n /\ n < head + Capacity /\ n > tail => slot'[Index(n)] = Empty
        BY <1>0, <3>3 DEF SlotInv
      <3> QED BY <1>0, <3>1, <3>2, <3>6, <3>7, <3>8, <3>9 DEF SlotInv, Index
    <2>4. CASE PushPublish(p)
      <3>1. /\ producer[p].pc = "publish" /\ producer'[p].pc = "release"
            /\ tail' = tail + 1 /\ published' = Append(published, producer[p].report)
            /\ UNCHANGED <<slot, head, consumer>>
        BY <1>0, <2>4 DEF PushPublish, ProducerAt, ProducerGoto, TypeOK
      <3>2. ~Busy({"count", "publish"})'
        BY <2>0, <3>1 DEF BusyAt
      <3>3. producer[p].report \in Reports /\ published \in Seq(Reports) /\ Len(published) = tail
        BY <1>0, <3>1 DEF ProducerInv, ProducerAt, TypeOK, CountInv
      <3>4. /\ \A n \in Nat : n < tail => published'[n + 1] = published[n + 1]
            /\ published'[tail + 1] = producer[p].report
        BY <1>0, <3>1, <3>3
      <3>5. slot[Index(tail)] = producer[p].report
        BY <1>0, <3>1 DEF SlotInv
      <3>6. consumer.pc = "advance" => head < tail
        BY <1>0 DEF CountInv
      <3>7. \A n \in Nat : head <= n /\ n < tail + 1 /\ (n > head \/ consumer'.pc # "advance")
                => slot'[Index(n)] = published'[n + 1]
        <4> SUFFICES ASSUME NEW n \in Nat, head <= n, n < tail + 1,
                            n > head \/ consumer'.pc # "advance"
                     PROVE  slot'[Index(n)] = published'[n + 1]
          OBVIOUS
        <4>1. CASE n = tail
          BY <3>1, <3>4, <3>5, <4>1
        <4>2. CASE n < tail
          BY <1>0, <3>1, <3>4, <4>2 DEF SlotInv
        <4> QED BY <1>0, <4>1, <4>2
      <3>8. consumer'.pc = "advance" => slot'[Index(head)] = Empty
        BY <1>0, <3>1 DEF SlotInv
      <3>9. \A q \in Producers : producer'[q].pc \notin {"count", "publish"}
        BY <2>0, <3>1
      <3>10. \A n \in Nat : tail + 1 <= n /\ n < head + Capacity => slot'[Index(n)] = Empty
        BY <1>0, <3>1 DEF SlotInv
      <3> QED BY <1>0, <3>1, <3>2, <3>7, <3>8, <3>9, <3>10 DEF SlotInv, Index
    <2> QED BY <1>2, <2>1, <2>2, <2>3, <2>4 DEF ProducerStep
  <1> QED BY <1>1, <1>2

\* try_pop empties the slot at the head and then gives it up.
LEMMA SlotInvStep == LInv /\ [Next]_vars => SlotInv'
  <1> SUFFICES ASSUME LInv, [Next]_vars PROVE SlotInv'
    OBVIOUS
  <1>0. /\ TypeOK /\ CountInv /\ SlotInv
        /\ head \in Nat /\ tail \in Nat /\ Capacity \in Nat \ {0} /\ head <= tail
        /\ consumer \in [pc : ConsumerSteps, report : Reports \cup {Empty}]
    BY LaneAssumption DEF LInv, TypeOK, CountInv
  <1>1. CASE Pop
    <2>1. consumer.pc = "pop" /\ head < tail
      BY <1>0, <1>1 DEF Pop, ConsumerAt, CountInv
    <2>2. /\ consumer'.pc = "advance" /\ slot' = [slot EXCEPT ![Index(head)] = Empty]
          /\ UNCHANGED <<head, tail, producer, published>>
      BY <1>0, <1>1, <2>1 DEF Pop, history
    <2>3. tail - head <= Capacity /\ (Busy({"count", "publish"}) => tail - head < Capacity)
      BY RoomInRing DEF Busy
    <2>4. slot'[Index(head)] = Empty
      BY <1>0, <2>2, IndexWraps DEF TypeOK
    <2>5. \A n \in Nat : head < n /\ n < head + Capacity => slot'[Index(n)] = slot[Index(n)]
      <3> SUFFICES ASSUME NEW n \in Nat, head < n, n < head + Capacity
                   PROVE  slot'[Index(n)] = slot[Index(n)]
        OBVIOUS
      <3>1. Index(head) # Index(n)
        BY <1>0, IndexDistinct
      <3> QED BY <1>0, <2>2, <3>1, IndexWraps DEF TypeOK
    <2>6. \A n \in Nat : head < n /\ n < tail => slot'[Index(n)] = published[n + 1]
      BY <1>0, <2>1, <2>3, <2>5 DEF SlotInv
    <2>7. \A p \in Producers : producer[p].pc \in {"count", "publish"}
              => slot'[Index(tail)] = producer[p].report
      BY <1>0, <2>1, <2>3, <2>5 DEF SlotInv, Busy
    <2>8. \A n \in Nat : tail <= n /\ n < head + Capacity
                          /\ (n > tail \/ ~Busy({"count", "publish"}))
              => slot'[Index(n)] = Empty
      BY <1>0, <2>1, <2>5 DEF SlotInv
    <2>9. Busy({"count", "publish"})' <=> Busy({"count", "publish"})
      BY <2>2, BusySame
    <2> QED BY <1>0, <2>2, <2>4, <2>6, <2>7, <2>8, <2>9 DEF SlotInv, Index
  <1>2. CASE AdvanceHead
    <2>1. /\ consumer.pc = "advance" /\ consumer'.pc = "free" /\ head' = head + 1
          /\ UNCHANGED <<slot, tail, producer, published>>
      BY <1>0, <1>2 DEF AdvanceHead, ConsumerAt, ConsumerGoto, history
    <2>2. Busy({"count", "publish"})' <=> Busy({"count", "publish"})
      BY <2>1, BusySame
    <2>3. slot[Index(head + Capacity)] = Empty
      BY <1>0, <2>1, IndexWraps DEF SlotInv
    <2>4. \A n \in Nat : head + 1 <= n /\ n < tail => slot[Index(n)] = published[n + 1]
      BY <1>0, <2>1 DEF SlotInv
    <2>5. \A n \in Nat : tail <= n /\ n < head + 1 + Capacity
                          /\ (n > tail \/ ~Busy({"count", "publish"}))
              => slot[Index(n)] = Empty
      <3> SUFFICES ASSUME NEW n \in Nat, tail <= n, n < head + 1 + Capacity,
                          n > tail \/ ~Busy({"count", "publish"})
                   PROVE  slot[Index(n)] = Empty
        OBVIOUS
      <3>1. CASE n = head + Capacity
        BY <2>3, <3>1
      <3>2. CASE n < head + Capacity
        BY <1>0, <3>2 DEF SlotInv
      <3> QED BY <1>0, <3>1, <3>2
    <2> QED BY <1>0, <2>1, <2>2, <2>4, <2>5 DEF SlotInv, Index
  <1>3. ASSUME UNCHANGED <<slot, head, tail, published, producer>>,
               consumer'.pc = "advance" <=> consumer.pc = "advance"
        PROVE  SlotInv'
    BY <1>3, SlotSame, BusySame
  <1>4. CASE AcquireItem \/ CheckStop \/ FreeSlot \/ Handle \/ Settle \/ Notify
    <2>1. UNCHANGED <<slot, head, tail, published, producer>>
      BY <1>4 DEF AcquireItem, CheckStop, FreeSlot, Handle, Settle, Notify, ring, history
    <2>2. consumer'.pc # "advance" /\ consumer.pc # "advance"
      BY <1>0, <1>4 DEF AcquireItem, CheckStop, FreeSlot, Handle, Settle, Notify, ConsumerAt,
             ConsumerGoto
    <2> QED BY <1>3, <2>1, <2>2
  <1>5. CASE RequestStop \/ ReleaseSentinel \/ Join
    BY <1>3, <1>5 DEF RequestStop, ReleaseSentinel, Join, ring, history
  <1>6. ASSUME NEW p \in Producers, SubmitViolation(p) PROVE SlotInv'
    BY <1>3, <1>6 DEF SubmitViolation, ring, history
  <1>7. ASSUME NEW f \in Flushers, FlushBegin(f) \/ FlushStep(f) PROVE SlotInv'
    BY <1>3, <1>7 DEF FlushBegin, FlushStep, FlushLoad, FlushWait, FlushReturn, ring, history
  <1>8. CASE UNCHANGED vars
    BY <1>3, <1>8 DEF vars
  <1> QED BY <1>1, <1>2, <1>4, <1>5, <1>6, <1>7, <1>8, ProducerSlotStep DEF Next, ConsumerStep

\* The histories only grow: what was published or handled stays in its place.
LEMMA HistoriesGrow ==
    ASSUME LInv, [Next]_vars
    PROVE  /\ tail' >= tail /\ Len(handled') >= Len(handled)
           /\ \A i \in 1 .. tail : published'[i] = published[i]
           /\ \A i \in 1 .. Len(handled) : handled'[i] = handled[i]
  <1>0. /\ published \in Seq(Reports) /\ handled \in Seq(Reports) /\ tail \in Nat
        /\ Len(published) = tail /\ ProducerInv
    BY DEF LInv, TypeOK, CountInv
  <1>1. ASSUME NEW p \in Producers, PushPublish(p)
        PROVE  /\ tail' >= tail /\ \A i \in 1 .. tail : published'[i] = published[i]
               /\ handled' = handled
    <2>1. producer[p].report \in Reports
      BY <1>0, <1>1 DEF ProducerInv, ProducerAt, PushPublish
    <2> QED BY <1>0, <1>1, <2>1 DEF PushPublish
  <1>2. CASE Handle
    <2>1. consumer.report \in Reports
      BY <1>2, LaneTypeStep DEF Handle, TypeOK
    <2> QED BY <1>0, <1>2, <2>1 DEF Handle, ring
  <1>3. ASSUME UNCHANGED <<tail, published, handled>>
        PROVE  /\ tail' >= tail /\ Len(handled') >= Len(handled)
               /\ \A i \in 1 .. tail : published'[i] = published[i]
               /\ \A i \in 1 .. Len(handled) : handled'[i] = handled[i]
    BY <1>0, <1>3
  <1>4. ASSUME NEW p \in Producers, SubmitEnter(p) \/ SubmitViolation(p) \/ ProducerStep(p),
               ~PushPublish(p)
        PROVE  UNCHANGED <<tail, published, handled>>
    BY <1>4 DEF SubmitEnter, SubmitViolation, ProducerStep, AcquireSlot, SubmitTimeout,
           PushEmplace, PushCount, PushRelease, SubmitLeave, ring, history
  <1>5. CASE ConsumerStep /\ ~Handle
    <2>1. UNCHANGED <<tail, published, handled>>
      BY <1>5 DEF ConsumerStep, AcquireItem, CheckStop, Pop, AdvanceHead, FreeSlot, Settle,
             Notify, ring, history
    <2> QED BY <1>3, <2>1
  <1>6. ASSUME NEW f \in Flushers, FlushBegin(f) \/ FlushStep(f)
        PROVE  UNCHANGED <<tail, published, handled>>
    BY <1>6 DEF FlushBegin, FlushStep, FlushLoad, FlushWait, FlushReturn, ring, history
  <1>7. CASE RequestStop \/ ReleaseSentinel \/ Join
    BY <1>3, <1>7 DEF RequestStop, ReleaseSentinel, Join, ring, history
  <1>8. CASE UNCHANGED vars
    BY <1>3, <1>8 DEF vars
  <1>9. ASSUME NEW p \in Producers, SubmitEnter(p) \/ SubmitViolation(p) \/ ProducerStep(p)
        PROVE  /\ tail' >= tail /\ Len(handled') >= Len(handled)
               /\ \A i \in 1 .. tail : published'[i] = published[i]
               /\ \A i \in 1 .. Len(handled) : handled'[i] = handled[i]
    BY <1>0, <1>1, <1>3, <1>4, <1>9
  <1> QED BY <1>2, <1>3, <1>5, <1>6, <1>7, <1>8, <1>9 DEF Next

\* So a report stays published, and stays handled.
LEMMA HistoryKept ==
    ASSUME LInv, [Next]_vars, NEW r
    PROVE  (Published(r) => Published(r)') /\ (Handled(r) => Handled(r)')
  <1>1. /\ tail \in Nat /\ tail' \in Nat /\ Len(handled) \in Nat /\ Len(handled') \in Nat
    BY LaneTypeStep DEF LInv, TypeOK
  <1> QED BY <1>1, HistoriesGrow DEF Published, Handled

\* Every step keeps the worker's history: the slot at the head holds the
\* oldest report not yet handled.
LEMMA WorkerHistoryStep == LInv /\ [Next]_vars => WorkerHistory'
  <1> SUFFICES ASSUME LInv, [Next]_vars PROVE WorkerHistory'
    OBVIOUS
  <1>0. /\ TypeOK /\ WorkerHistory /\ SlotInv
        /\ published \in Seq(Reports) /\ handled \in Seq(Reports)
        /\ tail \in Nat /\ head \in Nat /\ head <= tail /\ Len(published) = tail
        /\ Len(handled) = head - One(consumer.pc \in {"free", "handle"})
        /\ consumer.pc \in {"pop", "advance"} => head < tail
        /\ consumer \in [pc : ConsumerSteps, report : Reports \cup {Empty}]
    BY DEF LInv, TypeOK, CountInv, HistoryInv
  <1>1. /\ \A i \in 1 .. tail : published'[i] = published[i]
        /\ \A i \in 1 .. Len(handled) : handled'[i] = handled[i]
    BY HistoriesGrow
  <1>2. Len(handled) <= tail
        /\ (consumer.pc \in {"advance", "free", "handle"} => Len(handled) + 1 <= tail)
    BY <1>0 DEF One
  <1>3. ASSUME handled' = handled,
               consumer'.pc \in {"advance", "free", "handle"} =>
                   consumer.pc \in {"advance", "free", "handle"} /\ consumer'.report = consumer.report
        PROVE  WorkerHistory'
    BY <1>0, <1>1, <1>2, <1>3 DEF WorkerHistory
  <1>4. CASE Pop
    <2>1. consumer.pc = "pop" /\ head < tail
      BY <1>0, <1>4 DEF Pop, ConsumerAt
    <2>2. /\ consumer'.pc = "advance" /\ consumer'.report = slot[Index(head)]
          /\ handled' = handled /\ published' = published
      BY <1>0, <1>4, <2>1 DEF Pop, history
    <2>3. slot[Index(head)] = published[head + 1] /\ Len(handled) = head
      BY <1>0, <2>1 DEF SlotInv, One
    <2> QED BY <1>0, <2>2, <2>3 DEF WorkerHistory
  <1>5. CASE Handle
    <2>1. /\ consumer.pc = "handle" /\ consumer'.pc = "settle" /\ published' = published
          /\ handled' = Append(handled, consumer.report)
      BY <1>0, <1>5 DEF Handle, ConsumerAt, ConsumerGoto
    <2>2. consumer.report \in Reports /\ consumer.report = published[Len(handled) + 1]
      BY <1>0, <1>2, <2>1 DEF WorkerHistory
    <2>3. Len(handled') = Len(handled) + 1 /\ handled'[Len(handled) + 1] = consumer.report
      BY <1>0, <2>1, <2>2
    <2>4. \A i \in 1 .. Len(handled') : handled'[i] = published'[i]
      BY <1>0, <1>1, <2>1, <2>2, <2>3 DEF WorkerHistory
    <2> QED BY <2>1, <2>4 DEF WorkerHistory
  <1>6. CASE AcquireItem \/ CheckStop \/ AdvanceHead \/ FreeSlot \/ Settle \/ Notify
    <2>1. handled' = handled
      BY <1>6 DEF AcquireItem, CheckStop, AdvanceHead, FreeSlot, Settle, Notify, history
    <2>2. consumer'.pc \in {"advance", "free", "handle"} =>
             consumer.pc \in {"advance", "free", "handle"} /\ consumer'.report = consumer.report
      BY <1>0, <1>6 DEF AcquireItem, CheckStop, AdvanceHead, FreeSlot, Settle, Notify,
             ConsumerAt, ConsumerGoto
    <2> QED BY <1>3, <2>1, <2>2
  <1>7. ASSUME NEW p \in Producers, SubmitEnter(p) \/ SubmitViolation(p) \/ ProducerStep(p)
        PROVE  UNCHANGED <<consumer, handled>>
    BY <1>7 DEF SubmitEnter, SubmitViolation, ProducerStep, AcquireSlot, SubmitTimeout,
           PushEmplace, PushCount, PushPublish, PushRelease, SubmitLeave, history
  <1>8. ASSUME NEW f \in Flushers, FlushBegin(f) \/ FlushStep(f)
        PROVE  UNCHANGED <<consumer, handled>>
    BY <1>8 DEF FlushBegin, FlushStep, FlushLoad, FlushWait, FlushReturn, history
  <1>9. RequestStop \/ ReleaseSentinel \/ Join \/ UNCHANGED vars => UNCHANGED <<consumer, handled>>
    BY DEF RequestStop, ReleaseSentinel, Join, history, vars
  <1>10. UNCHANGED <<consumer, handled>> => WorkerHistory'
    BY <1>3
  <1> QED BY <1>4, <1>5, <1>6, <1>7, <1>8, <1>9, <1>10 DEF Next, ConsumerStep

\* Every step keeps the producers' history: a submit returns true only after
\* its report is published.
LEMMA ProducerHistoryStep == LInv /\ [Next]_vars => ProducerHistory'
  <1> SUFFICES ASSUME LInv, [Next]_vars PROVE ProducerHistory'
    OBVIOUS
  <1>0. /\ TypeOK /\ ProducerInv /\ ProducerHistory /\ tail \in Nat
        /\ published \in Seq(Reports) /\ Len(published) = tail
        /\ producer \in [Producers -> [pc : ProducerSteps, report : Reports \cup {Empty}]]
    BY DEF LInv, TypeOK, CountInv, HistoryInv
  <1>1. \A r : Published(r) => Published(r)'
    BY HistoryKept
  <1>2. ASSUME \A p \in Producers : producer'[p].pc \in {"release", "leave"} =>
                   producer[p].pc \in {"release", "leave"} /\ producer'[p].report = producer[p].report,
               returned' = returned
        PROVE  ProducerHistory'
    BY <1>0, <1>1, <1>2 DEF ProducerHistory
  <1>3. ASSUME NEW p \in Producers, PushPublish(p) PROVE ProducerHistory'
    <2>1. /\ tail' = tail + 1 /\ published' = Append(published, producer[p].report)
          /\ producer'[p].report = producer[p].report /\ returned' = returned
          /\ producer[p].report \in Reports
          /\ \A q \in Producers : q # p => producer'[q] = producer[q]
      BY <1>0, <1>3 DEF PushPublish, ProducerGoto, ProducerAt, ProducerInv
    <2>2. published'[tail + 1] = producer[p].report /\ tail + 1 \in 1 .. tail'
      BY <1>0, <2>1
    <2>3. Published(producer[p].report)'
      BY <2>1, <2>2 DEF Published
    <2> QED BY <1>0, <1>1, <2>1, <2>3 DEF ProducerHistory
  <1>4. ASSUME NEW p \in Producers, SubmitLeave(p) PROVE ProducerHistory'
    <2>1. /\ returned' = returned \cup {producer[p].report} /\ producer[p].pc = "leave"
          /\ producer'[p].pc = "idle"
          /\ \A q \in Producers : q # p => producer'[q] = producer[q]
      BY <1>0, <1>4 DEF SubmitLeave, ProducerAt
    <2> QED BY <1>0, <1>1, <2>1 DEF ProducerHistory
  <1>5. ASSUME NEW p \in Producers,
               SubmitEnter(p) \/ AcquireSlot(p) \/ SubmitTimeout(p) \/ PushEmplace(p)
                  \/ PushCount(p) \/ PushRelease(p)
        PROVE  ProducerHistory'
    <2>1. returned' = returned
      BY <1>5 DEF SubmitEnter, AcquireSlot, SubmitTimeout, PushEmplace, PushCount, PushRelease,
             history
    <2>2. /\ \A q \in Producers : q # p => producer'[q] = producer[q]
          /\ producer'[p].pc \in {"release", "leave"} =>
                producer[p].pc \in {"release", "leave"} /\ producer'[p].report = producer[p].report
      BY <1>0, <1>5 DEF SubmitEnter, AcquireSlot, SubmitTimeout, PushEmplace, PushCount,
             PushRelease, ProducerGoto, ProducerAt
    <2> QED BY <1>2, <2>1, <2>2
  <1>6. ASSUME UNCHANGED <<producer, returned>> PROVE ProducerHistory'
    BY <1>2, <1>6
  <1>7. \A p \in Producers : SubmitViolation(p) => UNCHANGED <<producer, returned>>
    BY DEF SubmitViolation, history
  <1>8. ConsumerStep => UNCHANGED <<producer, returned>>
    BY DEF ConsumerStep, AcquireItem, CheckStop, Pop, AdvanceHead, FreeSlot, Handle, Settle,
           Notify, history
  <1>9. \A f \in Flushers : FlushBegin(f) \/ FlushStep(f) => UNCHANGED <<producer, returned>>
    BY DEF FlushBegin, FlushStep, FlushLoad, FlushWait, FlushReturn, history
  <1>10. RequestStop \/ ReleaseSentinel \/ Join \/ UNCHANGED vars => UNCHANGED <<producer, returned>>
    BY DEF RequestStop, ReleaseSentinel, Join, history, vars
  <1> QED BY <1>3, <1>4, <1>5, <1>6, <1>7, <1>8, <1>9, <1>10 DEF Next, ProducerStep

\* Every step keeps what flush knows: pending_ = 0 means that every published
\* report is handled.
LEMMA FlushHistoryStep == LInv /\ [Next]_vars => FlushHistory'
  <1> SUFFICES ASSUME LInv, [Next]_vars PROVE FlushHistory'
    OBVIOUS
  <1>0. /\ TypeOK /\ FlushHistory /\ ProducerHistory /\ WorkerHistory
        /\ flusher \in [Flushers -> [pc : FlushSteps, loaded : Nat, mark : SUBSET Reports]]
    BY DEF LInv, TypeOK, HistoryInv
  <1>1. \A r : (Published(r) => Published(r)') /\ (Handled(r) => Handled(r)')
    BY HistoryKept
  <1>2. ASSUME NEW f \in Flushers, FlushBegin(f) PROVE FlushHistory'
    <2>1. /\ flusher'[f].mark = returned /\ flusher'[f].pc = "load"
          /\ \A g \in Flushers : g # f => flusher'[g] = flusher[g]
      BY <1>0, <1>2 DEF FlushBegin
    <2> QED BY <1>0, <1>1, <2>1 DEF FlushHistory, ProducerHistory
  <1>3. ASSUME NEW f \in Flushers, FlushLoad(f) PROVE FlushHistory'
    <2>1. /\ flusher'[f].mark = flusher[f].mark /\ (flusher'[f].pc = "done" => pending = 0)
          /\ \A g \in Flushers : g # f => flusher'[g] = flusher[g]
      BY <1>0, <1>3 DEF FlushLoad
    <2>2. ASSUME pending = 0 PROVE \A r : Published(r) => Handled(r)
      <3>1. /\ pending = (tail - Len(handled)) + One(Busy({"publish"})) + One(consumer.pc = "settle")
            /\ Len(handled) = head - One(consumer.pc \in {"free", "handle"}) /\ head <= tail
            /\ head \in Nat /\ tail \in Nat /\ Len(handled) \in Nat
        BY DEF LInv, CountInv, TypeOK
      <3>2. tail = Len(handled)
        BY <2>2, <3>1 DEF One
      <3> QED BY <1>0, <3>2 DEF Published, Handled, WorkerHistory
    <2> QED BY <1>0, <1>1, <2>1, <2>2 DEF FlushHistory
  <1>4. ASSUME NEW f \in Flushers, FlushWait(f) \/ FlushReturn(f) PROVE FlushHistory'
    <2>1. /\ flusher'[f].mark \subseteq flusher[f].mark /\ flusher'[f].pc # "done"
          /\ \A g \in Flushers : g # f => flusher'[g] = flusher[g]
      BY <1>0, <1>4 DEF FlushWait, FlushReturn
    <2> QED BY <1>0, <1>1, <2>1 DEF FlushHistory
  <1>5. CASE CheckStop \/ Notify
    <2>1. \A f \in Flushers : /\ flusher'[f].mark = flusher[f].mark
                              /\ flusher'[f].pc = "done" => flusher[f].pc = "done"
      BY <1>0, <1>5 DEF CheckStop, Notify
    <2> QED BY <1>0, <1>1, <2>1 DEF FlushHistory
  <1>6. ASSUME flusher' = flusher PROVE FlushHistory'
    BY <1>0, <1>1, <1>6 DEF FlushHistory
  <1>7. \A p \in Producers : SubmitEnter(p) \/ SubmitViolation(p) \/ ProducerStep(p) =>
            flusher' = flusher
    BY DEF SubmitEnter, SubmitViolation, ProducerStep, AcquireSlot, SubmitTimeout,
           PushEmplace, PushCount, PushPublish, PushRelease, SubmitLeave
  <1>8. AcquireItem \/ Pop \/ AdvanceHead \/ FreeSlot \/ Handle \/ Settle => flusher' = flusher
    BY DEF AcquireItem, Pop, AdvanceHead, FreeSlot, Handle, Settle
  <1>9. RequestStop \/ ReleaseSentinel \/ Join \/ UNCHANGED vars => flusher' = flusher
    BY DEF RequestStop, ReleaseSentinel, Join, vars
  <1> QED BY <1>2, <1>3, <1>4, <1>5, <1>6, <1>7, <1>8, <1>9 DEF Next, ConsumerStep, FlushStep

\* The constructor establishes the invariant.
LEMMA LaneInit == Init => LInv
  <1> SUFFICES ASSUME Init PROVE LInv
    OBVIOUS
  <1>1. /\ \A p \in Producers : producer[p].pc = "idle"
        /\ consumer.pc = "acquire" /\ Len(published) = 0 /\ Len(handled) = 0
        /\ published = <<>> /\ handled = <<>> /\ returned = {}
        /\ head = 0 /\ tail = 0 /\ pending = 0 /\ slots = Capacity /\ items = 0 /\ calls = 0
        /\ active = FALSE /\ owner = "alive"
    BY DEF Init
  <1>2. TypeOK
    <2>1. /\ producer \in [Producers -> [pc : ProducerSteps, report : Reports \cup {Empty}]]
          /\ consumer \in [pc : ConsumerSteps, report : Reports \cup {Empty}]
      BY DEF Init, ProducerSteps, ConsumerSteps
    <2>2. flusher \in [Flushers -> [pc : FlushSteps, loaded : Nat, mark : SUBSET Reports]]
      BY DEF Init, FlushSteps
    <2>3. slot \in [0 .. Capacity - 1 -> Reports \cup {Empty}]
      BY DEF Init
    <2>4. slots \in Nat /\ calls \in 0 .. MaxSubmits
      BY <1>1, LaneAssumption
    <2>5. head \in Nat /\ tail \in Nat /\ pending \in Nat /\ items \in Nat
      BY <1>1
    <2>6. active \in BOOLEAN /\ owner \in {"alive", "stopping", "joining", "joined"}
      BY <1>1
    <2>7. published \in Seq(Reports) /\ handled \in Seq(Reports) /\ returned \subseteq Reports
      <3>1. <<>> \in Seq(Reports)
        BY EmptySeq
      <3> QED BY <1>1, <3>1
    <2> QED BY <2>1, <2>2, <2>3, <2>4, <2>5, <2>6, <2>7, Zenon DEF TypeOK
  <1>3. ProducerInv
    BY <1>1 DEF ProducerInv, SingleProducer, ProducerAt
  <1>4. CountInv
    <2>1. /\ ~Busy({"emplace", "count", "publish"}) /\ ~Busy({"publish"}) /\ ~Busy({"release"})
      BY <1>1 DEF Busy
    <2>2. /\ consumer.pc # "free" /\ consumer.pc # "settle" /\ consumer.pc # "exit"
          /\ consumer.pc \notin {"pop", "advance"} /\ consumer.pc \notin {"free", "handle"}
          /\ consumer.pc \notin {"check", "pop", "advance", "exit"}
          /\ owner \notin {"joining", "joined"} /\ owner # "joined"
      BY <1>1
    <2>3. Capacity \in Nat
      BY LaneAssumption
    <2>4. /\ One(Busy({"emplace", "count", "publish"})) = 0 /\ One(Busy({"publish"})) = 0
          /\ One(Busy({"release"})) = 0 /\ One(consumer.pc = "free") = 0
          /\ One(consumer.pc = "settle") = 0 /\ One(consumer.pc \in {"free", "handle"}) = 0
          /\ One(consumer.pc \in {"check", "pop", "advance", "exit"}) = 0
          /\ One(owner \in {"joining", "joined"}) = 0
      BY <2>1, <2>2, Zenon DEF One
    <2> QED BY <1>1, <2>2, <2>3, <2>4 DEF CountInv
  <1>5. SlotInv
    <2>1. \A n \in Nat : slot[Index(n)] = Empty
      BY IndexWraps DEF Init
    <2> QED BY <1>1, <2>1 DEF SlotInv
  <1>6. HistoryInv
    BY <1>1 DEF Init, HistoryInv, WorkerHistory, ProducerHistory, FlushHistory
  <1> QED BY <1>2, <1>3, <1>4, <1>5, <1>6 DEF LInv

\* The invariant holds in every state of the lane.
LEMMA LaneInvariant == Spec => []LInv
  <1>1. LInv /\ [Next]_vars => LInv'
    BY LaneTypeStep, ProducerInvStep, CountInvStep, SlotInvStep, WorkerHistoryStep,
       ProducerHistoryStep, FlushHistoryStep DEF LInv, HistoryInv
  <1> QED BY <1>1, LaneInit, PTL DEF Spec
-----------------------------------------------------------------------------
(***************************************************************************)
(* The counters of the lane keep their types: neither semaphore and not    *)
(* pending_ is ever taken below zero.                                      *)
(***************************************************************************)
THEOREM LaneTypeCorrect == Spec => []TypeOK
  BY LaneInvariant, PTL DEF LInv

(***************************************************************************)
(* producer_active_ admits one thread at a time to the tail.               *)
(***************************************************************************)
THEOREM OneProducer == Spec => []SingleProducer
  BY LaneInvariant, PTL DEF LInv, ProducerInv

(***************************************************************************)
(* The semaphores keep producer and worker off the same slot, for every    *)
(* capacity: push fills an empty slot only.                                *)
(***************************************************************************)
THEOREM SlotsNeverOverwritten == Spec => []NoOverwrite
  <1>1. LInv => NoOverwrite
    <2> SUFFICES ASSUME LInv, NEW p \in Producers, ProducerAt(p, "emplace")
                 PROVE  slot[Index(tail)] = Empty
      BY DEF NoOverwrite
    <2>1. BusyAt("emplace")
      BY BusyNow DEF LInv, ProducerAt
    <2>2. tail - head < Capacity /\ ~Busy({"count", "publish"})
      BY <2>1, RoomInRing DEF BusyAt
    <2> QED BY <2>2, LaneAssumption DEF LInv, SlotInv, TypeOK
  <1> QED BY <1>1, LaneInvariant, PTL

(***************************************************************************)
(* A worker past the semaphore finds a report: try_pop never reads an      *)
(* absent one and never comes back with empty hands.                       *)
(***************************************************************************)
THEOREM WakeupsAreReal == Spec => []WokenMeansReport
  <1>1. LInv => WokenMeansReport
    <2> SUFFICES ASSUME LInv, ConsumerAt("pop")
                 PROVE  head # tail /\ slot[Index(head)] # Empty
      BY DEF WokenMeansReport
    <2>1. head \in Nat /\ tail \in Nat /\ head < tail /\ Len(published) = tail
      BY DEF LInv, TypeOK, CountInv, ConsumerAt
    <2>2. slot[Index(head)] = published[head + 1]
      BY <2>1 DEF LInv, SlotInv, ConsumerAt
    <2>3. published[head + 1] \in Reports
      BY <2>1 DEF LInv, TypeOK
    <2> QED BY <2>1, <2>2, <2>3, LaneAssumption DEF Reports
  <1> QED BY <1>1, LaneInvariant, PTL

(***************************************************************************)
(* When flush returns, what was submitted before it is handled.            *)
(***************************************************************************)
THEOREM FlushIsComplete == Spec => []FlushMeansHandled
  <1>1. LInv => FlushMeansHandled
    BY DEF LInv, HistoryInv, FlushHistory, Handled, FlushMeansHandled, ToSet
  <1> QED BY <1>1, LaneInvariant, PTL

(***************************************************************************)
(* The destructor returns only after every published report is handled.    *)
(***************************************************************************)
THEOREM DestructorDrains == Spec => []StopDrains
  <1>1. LInv => StopDrains
    <2> SUFFICES ASSUME LInv, owner = "joined" PROVE handled = published
      BY DEF StopDrains
    <2>1. /\ consumer.pc = "exit" /\ head = tail /\ Len(handled) = head /\ Len(published) = tail
          /\ handled \in Seq(Reports) /\ published \in Seq(Reports)
      BY DEF LInv, CountInv, TypeOK, One
    <2> QED BY <2>1 DEF LInv, HistoryInv, WorkerHistory
  <1> QED BY <1>1, LaneInvariant, PTL

(***************************************************************************)
(* First in, first out, nothing lost and nothing repeated, for every       *)
(* capacity and every interleaving of push and try_pop.                    *)
(***************************************************************************)
THEOREM FirstInFirstOut == Spec => []Fifo
  <1>1. LInv => Fifo
    <2> SUFFICES ASSUME LInv PROVE Fifo
      OBVIOUS
    <2>0. /\ head \in Nat /\ tail \in Nat /\ head <= tail /\ Len(published) = tail
          /\ published \in Seq(Reports) /\ handled \in Seq(Reports)
          /\ Len(handled) = head - One(consumer.pc \in {"free", "handle"})
          /\ consumer.pc \in {"pop", "advance"} => head < tail
          /\ WorkerHistory /\ SlotInv
      BY DEF LInv, TypeOK, CountInv, HistoryInv
    <2> DEFINE done == handled \o InHand
               low == head + One(consumer.pc = "advance")
    <2>1. low \in Nat /\ low <= tail
      BY <2>0 DEF One
    <2>2. /\ done \in Seq(Reports) /\ Len(done) = low
          /\ \A i \in 1 .. low : done[i] = published[i]
      <3>1. CASE consumer.pc \in {"advance", "free", "handle"}
        <4>1. Len(handled) + 1 = low
          BY <2>0, <3>1 DEF One
        <4>2. consumer.report = published[low] /\ published[low] \in Reports
          BY <2>0, <2>1, <3>1, <4>1 DEF WorkerHistory
        <4>3. done = handled \o <<published[low]>>
          BY <3>1, <4>2 DEF InHand
        <4> QED BY <2>0, <2>1, <4>1, <4>2, <4>3 DEF WorkerHistory
      <3>2. CASE consumer.pc \notin {"advance", "free", "handle"}
        <4>1. done = handled /\ Len(handled) = low
          BY <2>0, <3>2 DEF InHand, One
        <4> QED BY <2>0, <4>1 DEF WorkerHistory
      <3> QED BY <3>1, <3>2
    <2>3. Live = low .. tail - 1
      BY <2>0, <2>1 DEF Live, One
    <2>4. Cardinality(Live) = tail - low
      <3>1. Cardinality(low .. tail - 1) = IF low > tail - 1 THEN 0 ELSE (tail - 1) - low + 1
        <4>1. low \in Int /\ tail - 1 \in Int
          BY <2>0, <2>1
        <4> HIDE DEF low
        <4> QED BY <4>1, FS_Interval
      <3> QED BY <2>0, <2>1, <2>3, <3>1
    <2> HIDE DEF done, low
    <2>5. done = SubSeq(published, 1, Len(done))
      BY <2>0, <2>1, <2>2
    <2>6. \A n \in Live : slot[Index(n)] = published[n + 1]
      BY <2>0 DEF SlotInv, Live
    <2>7. Len(published) = Len(done) + Cardinality(Live)
      BY <2>0, <2>1, <2>2, <2>4
    <2> QED BY <2>5, <2>6, <2>7 DEF Fifo, done
  <1> QED BY <1>1, LaneInvariant, PTL

(***************************************************************************)
(* For every capacity and any number of threads the ring is intact: the    *)
(* flag and the two semaphores suffice.                                    *)
(***************************************************************************)
THEOREM RingStaysIntact == Spec => []RingIntact
  <1>1. TypeOK /\ SingleProducer /\ NoOverwrite /\ WokenMeansReport /\ Fifo => RingIntact
    BY DEF RingIntact
  <1> QED BY <1>1, LaneTypeCorrect, OneProducer, SlotsNeverOverwritten, WakeupsAreReal, FirstInFirstOut, PTL

(***************************************************************************)
(* flush and the destructor return only when their work is complete.       *)
(***************************************************************************)
THEOREM CallsAreComplete == Spec => []CallsComplete
  <1>1. FlushMeansHandled /\ StopDrains => CallsComplete
    BY DEF CallsComplete
  <1> QED BY <1>1, FlushIsComplete, DestructorDrains, PTL
-----------------------------------------------------------------------------
\* The queue of the abstract specification, and what a step does to it.
Waiting == SubSeq(published, Len(handled) + 1, Len(published))

(***************************************************************************)
(* The lane implements the bounded queue that the gateway works with, its  *)
(* liveness aside: every step of the lane puts one report at the end of    *)
(* the queue when there is room, takes the first, or leaves it alone.      *)
(***************************************************************************)
THEOREM LaneIsAQueue == Spec => Queue!Init /\ [][Queue!Next]_<<Waiting, handled>>
  <1>1. Init => Queue!Init
    BY DEF Init, Queue!Init
  <1>2. LInv /\ [Next]_vars => [Queue!Next]_<<Waiting, handled>>
    <2> SUFFICES ASSUME LInv, [Next]_vars PROVE [Queue!Next]_<<Waiting, handled>>
      OBVIOUS
    <2>0. /\ TypeOK /\ published \in Seq(Reports) /\ handled \in Seq(Reports)
          /\ head \in Nat /\ tail \in Nat /\ Capacity \in Nat /\ slots \in Nat
          /\ Len(published) = tail /\ head <= tail
          /\ Len(handled) = head - One(consumer.pc \in {"free", "handle"})
      BY LaneAssumption DEF LInv, TypeOK, CountInv
    <2>1. ASSUME NEW p \in Producers, PushPublish(p) PROVE Queue!Next
      <3>1. /\ producer[p].pc = "publish" /\ producer[p].report \in Reports
            /\ published' = Append(published, producer[p].report) /\ handled' = handled
        BY <2>1 DEF PushPublish, ProducerAt, LInv, ProducerInv
      <3>2. BusyAt("publish")
        BY <3>1, BusyNow DEF LInv, ProducerAt
      <3>3. tail - Len(handled) <= Capacity
        <4>1. slots + (tail - head) + 1 + One(consumer.pc = "free") = Capacity
          BY <3>2 DEF LInv, CountInv, BusyAt, One
        <4> QED BY <2>0, <4>1 DEF One
      <3>4. Len(Waiting) = tail - Len(handled) /\ Len(handled) <= tail
        BY <2>0 DEF Waiting, One
      <3>5. Waiting' = Append(Waiting, producer[p].report)
        <4> DEFINE left == Waiting'
                   right == Append(Waiting, producer[p].report)
                   k == Len(handled)
        <4>1. /\ published' \in Seq(Reports) /\ Len(published') = tail + 1
              /\ \A i \in 1 .. tail : published'[i] = published[i]
              /\ published'[tail + 1] = producer[p].report
          BY <2>0, <3>1, AppendProperties
        <4>2. k \in Nat /\ k <= tail /\ Len(handled') = k
          BY <2>0, <3>1, <3>4
        <4> HIDE DEF k
        <4>3. /\ Waiting = SubSeq(published, k + 1, tail)
              /\ left = SubSeq(published', k + 1, tail + 1)
          BY <2>0, <3>1, <4>1, <4>2 DEF Waiting, k
        <4>4. /\ Waiting \in Seq(Reports) /\ Len(Waiting) = tail - k
              /\ \A i \in 1 .. tail - k : Waiting[i] = published[k + i]
          <5>1. \A i \in k + 1 .. tail : published[i] \in Reports
            BY <2>0, <4>2
          <5>2. /\ SubSeq(published, k + 1, tail) \in Seq(Reports)
                /\ Len(SubSeq(published, k + 1, tail)) = IF k + 1 <= tail THEN tail - (k + 1) + 1 ELSE 0
                /\ \A i \in 1 .. tail - (k + 1) + 1 :
                      SubSeq(published, k + 1, tail)[i] = published[k + 1 + i - 1]
            BY <2>0, <4>2, <5>1, SubSeqProperties
          <5> QED BY <2>0, <4>2, <4>3, <5>2
        <4>5. /\ left \in Seq(Reports) /\ Len(left) = tail + 1 - k
              /\ \A i \in 1 .. tail + 1 - k : left[i] = published'[k + i]
          <5>1. \A i \in k + 1 .. tail + 1 : published'[i] \in Reports
            BY <2>0, <4>1, <4>2
          <5>2. /\ SubSeq(published', k + 1, tail + 1) \in Seq(Reports)
                /\ Len(SubSeq(published', k + 1, tail + 1)) =
                      IF k + 1 <= tail + 1 THEN tail + 1 - (k + 1) + 1 ELSE 0
                /\ \A i \in 1 .. tail + 1 - (k + 1) + 1 :
                      SubSeq(published', k + 1, tail + 1)[i] = published'[k + 1 + i - 1]
            BY <2>0, <4>2, <5>1, SubSeqProperties
          <5> QED BY <2>0, <4>2, <4>3, <5>2
        <4>6. /\ right \in Seq(Reports) /\ Len(right) = tail + 1 - k
              /\ \A i \in 1 .. tail - k : right[i] = Waiting[i]
              /\ right[tail + 1 - k] = producer[p].report
          BY <2>0, <3>1, <4>2, <4>4, AppendProperties
        <4> HIDE DEF left, right
        <4>7. \A i \in 1 .. Len(left) : left[i] = right[i]
          <5> SUFFICES ASSUME NEW i \in 1 .. tail + 1 - k PROVE left[i] = right[i]
            BY <4>5
          <5>1. CASE i <= tail - k
            <6>1. i \in 1 .. tail - k /\ k + i \in 1 .. tail
              BY <2>0, <4>2, <5>1
            <6>2. left[i] = published'[k + i] /\ published'[k + i] = published[k + i]
              BY <4>1, <4>5, <6>1
            <6>3. right[i] = Waiting[i] /\ Waiting[i] = published[k + i]
              BY <4>4, <4>6, <6>1
            <6> QED BY <6>2, <6>3
          <5>2. CASE i = tail + 1 - k
            BY <2>0, <4>1, <4>2, <4>5, <4>6, <5>2
          <5> QED BY <2>0, <4>2, <5>1, <5>2, SMTT(30)
        <4>8. left = right
          BY <4>5, <4>6, <4>7, SeqEqual
        <4> QED BY <4>8 DEF left, right
      <3>6. Len(Waiting) < Capacity + 1
        BY <2>0, <3>3, <3>4
      <3> QED BY <3>1, <3>5, <3>6 DEF Queue!Next, Queue!Put, Waiting
    <2>2. CASE Handle
      <3>1. /\ consumer.pc = "handle" /\ consumer.report = published[Len(handled) + 1]
            /\ handled' = Append(handled, consumer.report) /\ published' = published
        BY <2>2 DEF Handle, ConsumerAt, LInv, HistoryInv, WorkerHistory
      <3>2. Len(handled) + 1 \in 1 .. Len(published)
        BY <2>0, <3>1 DEF One
      <3>3. consumer.report \in Reports /\ Len(handled') = Len(handled) + 1
        BY <2>0, <3>1, <3>2
      <3>4. /\ Waiting # <<>> /\ Head(Waiting) = consumer.report
            /\ Waiting' = Tail(Waiting)
        <4>1. /\ Head(Waiting) = published[Len(handled) + 1]
              /\ Tail(Waiting) = SubSeq(published, Len(handled) + 1 + 1, Len(published))
          <5>1. Len(published) \in Len(handled) + 1 .. Len(published)
            BY <2>0, <3>2
          <5> QED BY <2>0, <3>2, <5>1, HeadTailOfSubSeq DEF Waiting
        <4>2. Waiting # <<>>
          <5>1. Len(Waiting) = Len(published) - Len(handled)
            BY <2>0, <3>2 DEF Waiting
          <5> QED BY <2>0, <3>2, <5>1
        <4> QED BY <3>1, <3>3, <4>1, <4>2 DEF Waiting
      <3> QED BY <3>1, <3>4 DEF Queue!Next, Queue!Take, Waiting
    <2>3. ASSUME UNCHANGED <<published, handled>> PROVE UNCHANGED <<Waiting, handled>>
      BY <2>3 DEF Waiting
    <2>4. ASSUME NEW p \in Producers, SubmitEnter(p) \/ SubmitViolation(p) \/ ProducerStep(p),
                 ~PushPublish(p)
          PROVE  UNCHANGED <<published, handled>>
      BY <2>4 DEF SubmitEnter, SubmitViolation, ProducerStep, AcquireSlot, SubmitTimeout,
             PushEmplace, PushCount, PushRelease, SubmitLeave, history
    <2>5. ConsumerStep /\ ~Handle => UNCHANGED <<published, handled>>
      BY DEF ConsumerStep, AcquireItem, CheckStop, Pop, AdvanceHead, FreeSlot, Settle, Notify,
             history
    <2>6. \A f \in Flushers : FlushBegin(f) \/ FlushStep(f) => UNCHANGED <<published, handled>>
      BY DEF FlushBegin, FlushStep, FlushLoad, FlushWait, FlushReturn, history
    <2>7. RequestStop \/ ReleaseSentinel \/ Join \/ UNCHANGED vars =>
              UNCHANGED <<published, handled>>
      BY DEF RequestStop, ReleaseSentinel, Join, history, vars
    <2> QED BY <2>1, <2>2, <2>3, <2>4, <2>5, <2>6, <2>7 DEF Next, ProducerStep
  <1> QED BY <1>1, <1>2, LaneInvariant, PTL DEF Spec
=============================================================================
