------------------------ MODULE MpscEventQueue_proofs ------------------------
(***************************************************************************)
(* Proofs about MpscEventQueue for every capacity, every number of         *)
(* producer threads, posts and observers.                                  *)
(***************************************************************************)
EXTENDS MpscEventQueue, FiniteSetTheorems, SequenceTheorems, TLAPS

\* What a condition adds to a count.
One(b) == IF b THEN 1 ELSE 0

\* The threads that hold a permit and no position yet; the threads whose event is counted in
\* pending_ and has no position.
Claimers == {p \in Producers : At(p, "claim")}
Counted == {p \in Producers : producer[p].pc \in {"acquire", "claim", "undo"}}
\* The thread has a position whose slot is not published yet.
Writes(p) == producer[p].pc \in {"emplace", "publish"}
\* The thread has a position, and its post has not returned yet.
Holds(p) == producer[p].pc \in {"emplace", "publish", "release"}
\* The thread is inside post, and its event is neither accepted nor refused.
Posting(p) == producer[p].pc \in ProducerSteps \ {"idle", "notify"}

\* What the counters count: a slot is in available_slots_, in the hands of a thread, occupied by a
\* position or about to be given back by the worker; pending_ counts the events with a position
\* that are not settled and those that wait for one.
CountInv ==
    /\ Len(claimed) = tail
    /\ head <= tail
    /\ worker.pc \in {"take", "recycle"} => head < tail
    /\ slots + Cardinality(Claimers) + (tail - head) + One(worker.pc = "free") = Capacity
    /\ Len(handled) = head - One(worker.pc \in {"free", "dispatch", "call"})
    /\ pending = (tail - Len(handled)) + One(worker.pc = "settle") + Cardinality(Counted)

\* A thread that writes owns its position.
WriterInv ==
    /\ \A p \in Producers : Writes(p) =>
          /\ head <= producer[p].pos /\ producer[p].pos < tail
          /\ claimed[producer[p].pos + 1] = producer[p].event
          /\ slot[Index(producer[p].pos)].sequence = producer[p].pos
          /\ slot[Index(producer[p].pos)].value =
                IF At(p, "emplace") THEN Empty ELSE producer[p].event
    /\ \A p, q \in Producers : Writes(p) /\ Writes(q) /\ p # q => producer[p].pos # producer[q].pos

\* What the slots hold: published positions their event, positions to come nothing.
SlotInv ==
    /\ \A n \in Nat : head <= n /\ n < tail /\ (\A p \in Producers : Writes(p) => producer[p].pos # n) =>
          /\ slot[Index(n)].sequence = n + 1
          /\ n > head \/ ~WorkerAt("recycle") => slot[Index(n)].value = claimed[n + 1]
    /\ \A n \in Nat : tail <= n /\ n < head + Capacity =>
          slot[Index(n)].sequence = n /\ slot[Index(n)].value = Empty
    /\ worker.pc \in {"take", "recycle"} => slot[Index(head)].sequence = head + 1
    /\ WorkerAt("recycle") => slot[Index(head)].value = Empty

\* What was processed, and what is in hand, are the claimed events in order.
WorkerInv ==
    /\ \A i \in 1 .. Len(handled) : handled[i] = claimed[i]
    /\ worker.pc \in {"recycle", "free", "dispatch", "call"} =>
          worker.event = claimed[Len(handled) + 1]

\* Every call of an observer was about a processed event, or is about the one in hand and to an
\* observer that is done with it.
CallInv ==
    /\ ~WorkerAt("call") => worker.todo = {}
    /\ \A i \in 1 .. Len(calls) :
          \/ \E m \in 1 .. Len(handled) : claimed[m] = calls[i][2]
          \/ WorkerAt("call") /\ calls[i][1] \notin worker.todo /\ calls[i][2] = worker.event
    /\ ObserversSeeOrder

\* Where every event is.
Claimed(e) == \E i \in 1 .. Len(claimed) : claimed[i] = e
EventInv ==
    /\ \A p \in Producers : ~At(p, "idle") => producer[p].event \in 1 .. posts
    /\ \A e \in Events : Claimed(e) <=>
          e \in accepted \/ \E p \in Producers : Holds(p) /\ producer[p].event = e
    /\ \A e \in 1 .. posts :
          e \in accepted \cup dropped \/ \E p \in Producers : Posting(p) /\ producer[p].event = e
    /\ accepted \cup dropped \subseteq 1 .. posts

\* An event has one post and one position.
UniqueInv ==
    /\ \A p, q \in Producers : Posting(p) /\ Posting(q) /\ p # q => producer[p].event # producer[q].event
    /\ \A p \in Producers : Posting(p) /\ ~Holds(p) => ~Claimed(producer[p].event)
    /\ \A i, j \in 1 .. Len(claimed) : i # j => claimed[i] # claimed[j]

\* What the owner knows when its flush has returned, and while it destroys the queue.
OwnerInv ==
    /\ owner.pc # "serving" => observers = {}
    /\ mark \subseteq accepted
    /\ Closing => \A p \in Producers : At(p, "idle")
    /\ owner.pc \in {"stopping", "waking", "joining", "joined"} => Closing /\ pending = 0
    /\ Flushed => \A e \in mark : \E i \in 1 .. Len(handled) : handled[i] = e
    /\ NoCallAfterRemoval

QInv == /\ TypeOK /\ CountInv /\ WriterInv /\ SlotInv /\ WorkerInv /\ CallInv
        /\ EventInv /\ UniqueInv /\ OwnerInv

-----------------------------------------------------------------------------
(* Positions and slots *)

\* Positions of the ring that are less than its capacity apart have different slots.
LEMMA IndexDistinct ==
    ASSUME NEW m \in Nat, NEW n \in Nat, m # n, n - m < Capacity, m - n < Capacity
    PROVE  Index(m) # Index(n)
  <1>1. Capacity \in Nat \ {0}
    BY QueueAssumption
  <1> DEFINE a == m \div Capacity
             b == n \div Capacity
  <1>2. a \in Int /\ b \in Int /\ m = Capacity * a + Index(m) /\ n = Capacity * b + Index(n)
    BY <1>1 DEF Index
  <1> HIDE DEF a, b
  <1> SUFFICES ASSUME Index(m) = Index(n) PROVE FALSE
    OBVIOUS
  <1>3. n - m = Capacity * (b - a)
    BY <1>1, <1>2 DEF Index
  <1>4. CASE b - a > 0
    <2>1. Capacity * (b - a) >= Capacity
      BY <1>1, <1>2, <1>4
    <2> QED BY <1>1, <1>3, <2>1
  <1>5. CASE b - a < 0
    <2>1. Capacity * (b - a) <= -Capacity
      BY <1>1, <1>2, <1>5
    <2> QED BY <1>1, <1>3, <2>1
  <1>6. CASE b - a = 0
    BY <1>1, <1>2, <1>3, <1>6
  <1> QED BY <1>2, <1>4, <1>5, <1>6

\* Positions that are the capacity apart have the same slot, and it exists.
LEMMA IndexWraps ==
    ASSUME NEW n \in Nat
    PROVE  /\ Index(n + Capacity) = Index(n)
           /\ Index(n) \in 0 .. Capacity - 1
  <1>1. Capacity \in Nat \ {0}
    BY QueueAssumption
  <1>2. \A k \in Nat : Index(k) \in 0 .. Capacity - 1
    BY <1>1 DEF Index
  <1> DEFINE a == n \div Capacity
             b == (n + Capacity) \div Capacity
  <1>3. /\ a \in Int /\ b \in Int /\ n = Capacity * a + Index(n)
        /\ n + Capacity = Capacity * b + Index(n + Capacity)
    BY <1>1 DEF Index
  <1> HIDE DEF a, b
  <1>4. /\ Index(n + Capacity) - Index(n) = Capacity * (a + 1 - b)
        /\ Index(n + Capacity) \in Int /\ Index(n) \in Int
    BY <1>1, <1>2, <1>3
  <1>5. CASE a + 1 - b >= 1
    <2>1. Capacity * (a + 1 - b) >= Capacity
      BY <1>1, <1>3, <1>5
    <2> QED BY <1>1, <1>2, <1>4, <2>1
  <1>6. CASE a + 1 - b <= -1
    <2>1. Capacity * (a + 1 - b) <= -Capacity
      BY <1>1, <1>3, <1>6
    <2> QED BY <1>1, <1>2, <1>4, <2>1
  <1>7. CASE a + 1 - b = 0
    BY <1>1, <1>2, <1>4, <1>7
  <1> QED BY <1>3, <1>5, <1>6, <1>7

-----------------------------------------------------------------------------
(* What a step does to the threads *)

\* The step takes one thread to where it says and leaves the others alone.
Moves(p, pc, event, pos) ==
    /\ producer'[p].pc = pc /\ producer'[p].event = event /\ producer'[p].pos = pos
    /\ \A q \in Producers \ {p} : producer'[q] = producer[q]

\* The steps of a thread inside post.
LEMMA ProducerMoves ==
    ASSUME TypeOK, NEW p \in Producers
    PROVE  /\ PostBegin(p) => Moves(p, "acquire", posts + 1, 0)
           /\ TryAcquireSlot(p) =>
                Moves(p, IF slots > 0 THEN "claim" ELSE "undo", producer[p].event, producer[p].pos)
           /\ Claim(p) => Moves(p, "emplace", producer[p].event, tail)
           /\ Emplace(p) => Moves(p, "publish", producer[p].event, producer[p].pos)
           /\ Publish(p) => Moves(p, "release", producer[p].event, producer[p].pos)
           /\ ReleaseItem(p) => Moves(p, "idle", Empty, 0)
           /\ Undo(p) => \E e, n : Moves(p, IF pending = 1 THEN "notify" ELSE "idle", e, n)
                                   /\ (pending = 1 => e = producer[p].event)
           /\ UndoNotify(p) => Moves(p, "idle", Empty, 0)
  <1>0. producer \in [Producers -> [pc : ProducerSteps, event : Events \cup {Empty}, pos : Nat]]
    BY DEF TypeOK
  <1>1. PostBegin(p) => Moves(p, "acquire", posts + 1, 0)
    BY <1>0 DEF PostBegin, Moves
  <1>2. TryAcquireSlot(p) =>
          Moves(p, IF slots > 0 THEN "claim" ELSE "undo", producer[p].event, producer[p].pos)
    BY <1>0 DEF TryAcquireSlot, Goto, Moves
  <1>3. Claim(p) => Moves(p, "emplace", producer[p].event, tail)
    BY <1>0 DEF Claim, Moves
  <1>4. Emplace(p) => Moves(p, "publish", producer[p].event, producer[p].pos)
    BY <1>0 DEF Emplace, Goto, Moves
  <1>5. Publish(p) => Moves(p, "release", producer[p].event, producer[p].pos)
    BY <1>0 DEF Publish, Goto, Moves
  <1>6. ReleaseItem(p) => Moves(p, "idle", Empty, 0)
    BY <1>0 DEF ReleaseItem, NoProducer, Moves
  <1>7. ASSUME Undo(p)
        PROVE  \E e, n : Moves(p, IF pending = 1 THEN "notify" ELSE "idle", e, n)
                         /\ (pending = 1 => e = producer[p].event)
    <2>1. CASE pending = 1
      <3>1. Moves(p, "notify", producer[p].event, producer[p].pos)
        BY <1>0, <1>7, <2>1 DEF Undo, Moves
      <3> QED BY <2>1, <3>1
    <2>2. CASE pending # 1
      <3>1. Moves(p, "idle", Empty, 0)
        BY <1>0, <1>7, <2>2 DEF Undo, NoProducer, Moves
      <3> QED BY <2>2, <3>1
    <2> QED BY <2>1, <2>2
  <1>8. UndoNotify(p) => Moves(p, "idle", Empty, 0)
    BY <1>0 DEF UndoNotify, NoProducer, Moves
  <1> QED BY <1>1, <1>2, <1>3, <1>4, <1>5, <1>6, <1>7, <1>8

\* The counts of threads follow the step of one of them.
LEMMA Counts ==
    ASSUME TypeOK, NEW p \in Producers, NEW pc, NEW e, NEW n, Moves(p, pc, e, n)
    PROVE  /\ Cardinality(Claimers) \in Nat /\ Cardinality(Counted) \in Nat
           /\ Cardinality(Claimers') = Cardinality(Claimers) + One(pc = "claim") - One(At(p, "claim"))
           /\ Cardinality(Counted') = Cardinality(Counted) + One(pc \in {"acquire", "claim", "undo"})
                  - One(producer[p].pc \in {"acquire", "claim", "undo"})
  <1>1. ASSUME NEW S, IsFiniteSet(S)
        PROVE  /\ Cardinality(S) \in Nat
               /\ Cardinality(S \cup {p}) = Cardinality(S) + 1 - One(p \in S)
               /\ Cardinality(S \ {p}) = Cardinality(S) - One(p \in S)
    BY <1>1, FS_CardinalityType, FS_AddElement, FS_RemoveElement DEF One
  <1>2. IsFiniteSet(Claimers) /\ IsFiniteSet(Counted)
    BY QueueAssumption, FS_Subset DEF Claimers, Counted
  <1>3. /\ pc = "claim" => Claimers' = Claimers \cup {p}
        /\ pc # "claim" => Claimers' = Claimers \ {p}
        /\ pc \in {"acquire", "claim", "undo"} => Counted' = Counted \cup {p}
        /\ pc \notin {"acquire", "claim", "undo"} => Counted' = Counted \ {p}
    BY DEF Moves, Claimers, Counted, At
  <1>4. (p \in Claimers <=> At(p, "claim")) /\ (p \in Counted <=> producer[p].pc \in {"acquire", "claim", "undo"})
    BY DEF Claimers, Counted
  <1>5. Cardinality(Claimers') = Cardinality(Claimers) + One(pc = "claim") - One(At(p, "claim"))
    <2>1. /\ Cardinality(Claimers) \in Nat
          /\ Cardinality(Claimers \cup {p}) = Cardinality(Claimers) + 1 - One(p \in Claimers)
          /\ Cardinality(Claimers \ {p}) = Cardinality(Claimers) - One(p \in Claimers)
      BY <1>1, <1>2
    <2>2. CASE pc = "claim"
      BY <1>3, <1>4, <2>1, <2>2 DEF One
    <2>3. CASE pc # "claim"
      <3>1. Cardinality(Claimers') = Cardinality(Claimers \ {p})
        BY <1>3, <2>3
      <3>2. One(p \in Claimers) = One(At(p, "claim"))
        BY <1>4 DEF One
      <3>3. Cardinality(Claimers') = Cardinality(Claimers) - One(At(p, "claim"))
        BY <2>1, <3>1, <3>2
      <3> QED BY <2>1, <2>3, <3>3 DEF One
    <2> QED BY <2>2, <2>3
  <1>6. Cardinality(Counted') = Cardinality(Counted) + One(pc \in {"acquire", "claim", "undo"})
                  - One(producer[p].pc \in {"acquire", "claim", "undo"})
    <2>1. /\ Cardinality(Counted) \in Nat
          /\ Cardinality(Counted \cup {p}) = Cardinality(Counted) + 1 - One(p \in Counted)
          /\ Cardinality(Counted \ {p}) = Cardinality(Counted) - One(p \in Counted)
      BY <1>1, <1>2
    <2>2. CASE pc \in {"acquire", "claim", "undo"}
      BY <1>3, <1>4, <2>1, <2>2 DEF One
    <2>3. CASE pc \notin {"acquire", "claim", "undo"}
      <3>1. Cardinality(Counted') = Cardinality(Counted \ {p})
        BY <1>3, <2>3
      <3>2. Cardinality(Counted') = Cardinality(Counted) - One(producer[p].pc \in {"acquire", "claim", "undo"})
        BY <1>4, <2>1, <3>1
      <3> QED BY <2>1, <2>3, <3>2 DEF One
    <2> QED BY <2>2, <2>3
  <1> QED BY <1>1, <1>2, <1>5, <1>6

\* The threads stay where they are, and so do the counts.
LEMMA CountsStay ==
    ASSUME producer' = producer
    PROVE  Claimers' = Claimers /\ Counted' = Counted
  BY DEF Claimers, Counted, At

\* The counts are numbers, and a thread that is counted makes them positive.
LEMMA CountsType ==
    /\ Cardinality(Claimers) \in Nat /\ Cardinality(Counted) \in Nat
    /\ \A p \in Producers : At(p, "claim") => Cardinality(Claimers) > 0
    /\ \A p \in Producers : producer[p].pc \in {"acquire", "claim", "undo"} => Cardinality(Counted) > 0
  <1>1. IsFiniteSet(Claimers) /\ IsFiniteSet(Counted)
    BY QueueAssumption, FS_Subset DEF Claimers, Counted
  <1>2. Cardinality(Claimers) \in Nat /\ Cardinality(Counted) \in Nat
    BY <1>1, FS_CardinalityType
  <1>3. ASSUME NEW p \in Producers, At(p, "claim") PROVE Cardinality(Claimers) > 0
    <2>1. Claimers # {}
      BY <1>3 DEF Claimers
    <2> QED BY <1>1, <1>2, <2>1, FS_EmptySet
  <1>4. ASSUME NEW p \in Producers, producer[p].pc \in {"acquire", "claim", "undo"}
        PROVE  Cardinality(Counted) > 0
    <2>1. Counted # {}
      BY <1>4 DEF Counted
    <2> QED BY <1>1, <1>2, <2>1, FS_EmptySet
  <1> QED BY <1>2, <1>3, <1>4
-----------------------------------------------------------------------------
(* The counters *)

\* A step of a thread inside post keeps the books.
LEMMA ProducerCounts ==
    ASSUME TypeOK, CountInv, NEW p \in Producers, PostBegin(p) \/ ProducerStep(p)
    PROVE  CountInv'
  <1>0. /\ slots \in Nat /\ head \in Nat /\ tail \in Nat /\ pending \in Nat /\ Capacity \in Nat
        /\ claimed \in Seq(Events) /\ handled \in Seq(Events)
        /\ producer[p].event \in Events \cup {Empty}
        /\ Len(handled) \in Nat
    BY QueueAssumption DEF TypeOK
  <1>w. worker' = worker /\ head' = head /\ handled' = handled
    BY DEF PostBegin, ProducerStep, TryAcquireSlot, Claim, Emplace, Publish, ReleaseItem, Undo,
           UndoNotify, ring, history
  <1>c. Cardinality(Claimers) \in Nat /\ Cardinality(Counted) \in Nat
    BY CountsType
  <1> DEFINE freed == IF worker.pc = "free" THEN 1 ELSE 0
             settling == IF worker.pc = "settle" THEN 1 ELSE 0
  <1>n. freed \in Nat /\ settling \in Nat
    OBVIOUS
  <1>i. /\ Len(claimed) = tail /\ head <= tail
        /\ slots + Cardinality(Claimers) + (tail - head) + freed = Capacity
        /\ pending = (tail - Len(handled)) + settling + Cardinality(Counted)
    BY DEF CountInv, One
  <1>g. ASSUME Len(claimed') = tail', tail <= tail', tail' \in Nat,
               slots' + Cardinality(Claimers') + (tail' - head) + freed = Capacity,
               pending' = (tail' - Len(handled)) + settling + Cardinality(Counted')
        PROVE  CountInv'
    BY <1>0, <1>w, <1>g, SMTT(30) DEF CountInv, One
  <1> HIDE DEF freed, settling
  <1>1. CASE PostBegin(p)
    <2>1. UNCHANGED <<slots, tail, claimed>> /\ pending' = pending + 1 /\ At(p, "idle")
      BY <1>1 DEF PostBegin, ring, history
    <2>2. Moves(p, "acquire", posts + 1, 0)
      BY <1>1, ProducerMoves
    <2>3. Cardinality(Claimers') = Cardinality(Claimers) /\ Cardinality(Counted') = Cardinality(Counted) + 1
      BY <2>1, <2>2, <1>c, Counts DEF One, At
    <2> QED BY <1>0, <1>n, <1>i, <1>c, <1>g, <2>1, <2>3
  <1>2. CASE TryAcquireSlot(p)
    <2>1. UNCHANGED <<tail, claimed, pending>> /\ At(p, "acquire")
      BY <1>2 DEF TryAcquireSlot, history
    <2>2. CASE slots > 0
      <3>1. slots' = slots - 1
        BY <1>2, <2>2 DEF TryAcquireSlot
      <3>2. Moves(p, "claim", producer[p].event, producer[p].pos)
        BY <1>2, <2>2, ProducerMoves
      <3>3. Cardinality(Claimers') = Cardinality(Claimers) + 1 /\ Cardinality(Counted') = Cardinality(Counted)
        BY <2>1, <3>2, <1>c, Counts DEF One, At
      <3> QED BY <1>0, <1>n, <1>i, <1>c, <1>g, <2>1, <3>1, <3>3
    <2>3. CASE ~(slots > 0)
      <3>1. slots' = slots
        BY <1>2, <2>3 DEF TryAcquireSlot
      <3>2. Moves(p, "undo", producer[p].event, producer[p].pos)
        BY <1>2, <2>3, ProducerMoves
      <3>3. Cardinality(Claimers') = Cardinality(Claimers) /\ Cardinality(Counted') = Cardinality(Counted)
        BY <2>1, <3>2, <1>c, Counts DEF One, At
      <3> QED BY <1>0, <1>n, <1>i, <1>c, <1>g, <2>1, <3>1, <3>3
    <2> QED BY <2>2, <2>3
  <1>3. CASE Claim(p)
    <2>1. UNCHANGED <<slots, pending>> /\ tail' = tail + 1 /\ At(p, "claim")
          /\ claimed' = Append(claimed, producer[p].event)
      BY <1>3 DEF Claim
    <2>2. Len(claimed') = Len(claimed) + 1
      BY <1>0, <2>1
    <2>3. Moves(p, "emplace", producer[p].event, tail)
      BY <1>3, ProducerMoves
    <2>4. Cardinality(Claimers') = Cardinality(Claimers) - 1 /\ Cardinality(Counted') = Cardinality(Counted) - 1
      BY <2>1, <2>3, <1>c, Counts DEF One, At
    <2>5. UNCHANGED <<slots, pending>> /\ tail' = tail + 1
      BY <2>1
    <2>6. /\ Len(claimed') = tail' /\ tail <= tail' /\ tail' \in Nat
          /\ slots' + Cardinality(Claimers') + (tail' - head) + freed = Capacity
          /\ pending' = (tail' - Len(handled)) + settling + Cardinality(Counted')
      <3>1. Len(claimed') = tail' /\ tail <= tail' /\ tail' \in Nat
        BY <1>0, <1>i, <2>2, <2>5
      <3>2. slots' + Cardinality(Claimers') + (tail' - head) + freed = Capacity
        BY <1>0, <1>n, <1>i, <1>c, <2>4, <2>5, SMTT(30)
      <3>3. pending' = (tail' - Len(handled)) + settling + Cardinality(Counted')
        BY <1>0, <1>n, <1>i, <1>c, <2>4, <2>5
      <3> QED BY <3>1, <3>2, <3>3
    <2> QED BY <1>g, <2>6
  <1>4. CASE Undo(p)
    <2>1. UNCHANGED <<slots, tail, claimed>> /\ pending' = pending - 1 /\ At(p, "undo")
      BY <1>4 DEF Undo, ring
    <2>2. PICK e, n : Moves(p, IF pending = 1 THEN "notify" ELSE "idle", e, n)
      BY <1>4, ProducerMoves
    <2>3. Cardinality(Claimers') = Cardinality(Claimers) /\ Cardinality(Counted') = Cardinality(Counted) - 1
      BY <2>1, <2>2, <1>c, Counts DEF One, At
    <2> QED BY <1>0, <1>n, <1>i, <1>c, <1>g, <2>1, <2>3
  <1>5. CASE Emplace(p) \/ Publish(p) \/ ReleaseItem(p) \/ UndoNotify(p)
    <2>1. UNCHANGED <<slots, tail, claimed, pending>>
          /\ producer[p].pc \notin {"acquire", "claim", "undo"}
      BY <1>5 DEF Emplace, Publish, ReleaseItem, UndoNotify, ring, history, At
    <2>2. \E pc, e, n : pc \notin {"acquire", "claim", "undo"} /\ Moves(p, pc, e, n)
      BY <1>5, ProducerMoves
    <2>3. Cardinality(Claimers') = Cardinality(Claimers) /\ Cardinality(Counted') = Cardinality(Counted)
      BY <2>1, <2>2, <1>c, Counts DEF One, At
    <2> QED BY <1>0, <1>n, <1>i, <1>c, <1>g, <2>1, <2>3
  <1> QED BY <1>1, <1>2, <1>3, <1>4, <1>5 DEF ProducerStep

\* So does a step of the worker: it gives back the slots it took.
LEMMA WorkerCounts ==
    ASSUME TypeOK, CountInv, SlotInv, WorkerStep
    PROVE  CountInv'
  <1>0. /\ slots \in Nat /\ head \in Nat /\ tail \in Nat /\ pending \in Nat /\ Capacity \in Nat
        /\ claimed \in Seq(Events) /\ handled \in Seq(Events) /\ Len(handled) \in Nat
        /\ Capacity > 0 /\ worker \in [pc : WorkerSteps, event : Events \cup {Empty}, todo : SUBSET Observers]
    BY QueueAssumption DEF TypeOK
  <1>w. UNCHANGED <<tail, claimed, producer>>
    BY DEF WorkerStep, LoopCheck, AcquireItem, AwaitHead, Take, Recycle, FreeSlot, LoadObservers,
           CallObserver, CallsDone, Settle, WorkerNotify, Drain, DrainCheck, ring, history
  <1>c. Cardinality(Claimers) \in Nat /\ Cardinality(Counted) \in Nat
        /\ Claimers' = Claimers /\ Counted' = Counted
    BY CountsType, CountsStay, <1>w
  <1>r. Readable => head < tail
    <2> SUFFICES ASSUME Readable, head = tail PROVE FALSE
      BY <1>0 DEF CountInv
    <2>1. slot[Index(head)].sequence = head
      BY <1>0 DEF SlotInv
    <2> QED BY <1>0, <2>1 DEF Readable
  <1>1. CASE LoopCheck \/ AcquireItem \/ Take \/ LoadObservers \/ CallObserver \/ WorkerNotify \/ Drain
    <2>1. UNCHANGED <<slots, head, pending, handled>>
      BY <1>1 DEF LoopCheck, AcquireItem, Take, LoadObservers, CallObserver, WorkerNotify, Drain,
                  ring, history
    <2>2. /\ worker'.pc \in {"take", "recycle"} => worker.pc \in {"take", "recycle"}
          /\ worker.pc # "free" /\ worker'.pc # "free" /\ worker.pc # "settle" /\ worker'.pc # "settle"
          /\ worker'.pc \in {"dispatch", "call"} <=> worker.pc \in {"dispatch", "call"}
      <3>1. CASE LoopCheck
        BY <1>0, <3>1 DEF LoopCheck, WorkerAt, WorkerGoto
      <3>2. CASE AcquireItem \/ Drain
        BY <1>0, <3>2 DEF AcquireItem, Drain, WorkerAt, WorkerGoto
      <3>3. CASE Take \/ LoadObservers
        BY <1>0, <3>3 DEF Take, LoadObservers, WorkerAt
      <3>4. CASE CallObserver
        BY <1>0, <3>4 DEF CallObserver, WorkerAt
      <3>5. CASE WorkerNotify
        BY <1>0, <3>5 DEF WorkerNotify, WorkerAt, AtRest
      <3> QED BY <1>1, <3>1, <3>2, <3>3, <3>4, <3>5
    <2> QED BY <1>0, <1>w, <1>c, <2>1, <2>2 DEF CountInv, One
  <1>2. CASE AwaitHead \/ DrainCheck
    <2>1. UNCHANGED <<slots, head, pending, handled>>
      BY <1>2 DEF AwaitHead, DrainCheck, ring, history
    <2>2. /\ worker'.pc \in {"take", "recycle"} => Readable
          /\ worker.pc \in {"await", "drainCheck"} /\ worker'.pc \in {"take", "loop", "exit"}
      BY <1>0, <1>2 DEF AwaitHead, DrainCheck, WorkerAt, WorkerGoto
    <2> QED BY <1>0, <1>w, <1>c, <1>r, <2>1, <2>2 DEF CountInv, One
  <1>3. CASE Recycle
    <2>1. /\ UNCHANGED <<slots, pending, handled>> /\ head' = head + 1
          /\ worker.pc = "recycle" /\ worker'.pc = "free"
      BY <1>0, <1>3 DEF Recycle, WorkerAt, WorkerGoto, history
    <2> QED BY <1>0, <1>w, <1>c, <2>1, SMTT(30) DEF CountInv, One
  <1>4. CASE FreeSlot
    <2>1. /\ UNCHANGED <<head, pending, handled>> /\ slots' = slots + 1
          /\ worker.pc = "free" /\ worker'.pc = "dispatch"
      BY <1>0, <1>4 DEF FreeSlot, WorkerAt, WorkerGoto, history
    <2> QED BY <1>0, <1>w, <1>c, <2>1, SMTT(30) DEF CountInv, One
  <1>5. CASE CallsDone
    <2>1. /\ UNCHANGED <<slots, head, pending>> /\ Len(handled') = Len(handled) + 1
          /\ worker.pc = "call" /\ worker'.pc = "settle"
      BY <1>0, <1>5 DEF CallsDone, WorkerAt, WorkerGoto, ring
    <2> QED BY <1>0, <1>w, <1>c, <2>1, SMTT(30) DEF CountInv, One
  <1>6. CASE Settle
    <2>1. /\ UNCHANGED <<slots, head, handled>> /\ pending' = pending - 1
          /\ worker.pc = "settle" /\ worker'.pc \in {"notify", "loop"}
      BY <1>0, <1>6 DEF Settle, AtRest, WorkerAt, WorkerGoto, ring, history
    <2>2. pending = (tail - Len(handled)) + 1 + Cardinality(Counted)
      BY <2>1 DEF CountInv, One
    <2>3. pending' = (tail - Len(handled)) + Cardinality(Counted)
      BY <1>0, <1>c, <2>1, <2>2
    <2>4. /\ Len(claimed) = tail /\ head <= tail
          /\ slots + Cardinality(Claimers) + (tail - head) = Capacity
          /\ Len(handled) = head
      BY <1>0, <1>c, <2>1, SMTT(30) DEF CountInv, One
    <2>5. /\ worker'.pc \notin {"take", "recycle", "free", "dispatch", "call", "settle"}
          /\ UNCHANGED <<slots, head, handled, tail, claimed>>
      BY <1>w, <2>1
    <2>6. One(worker'.pc = "free") = 0 /\ One(worker'.pc = "settle") = 0
          /\ One(worker'.pc \in {"free", "dispatch", "call"}) = 0
      BY <2>5 DEF One
    <2>7. slots' + Cardinality(Claimers') + (tail' - head') + One(worker'.pc = "free") = Capacity
      BY <1>0, <1>c, <2>4, <2>5, <2>6
    <2>8. Len(handled') = head' - One(worker'.pc \in {"free", "dispatch", "call"})
      BY <1>0, <2>4, <2>5, <2>6
    <2>9. pending' = (tail' - Len(handled')) + One(worker'.pc = "settle") + Cardinality(Counted')
      BY <1>0, <1>c, <2>3, <2>5, <2>6
    <2>10. Len(claimed') = tail' /\ head' <= tail'
      BY <2>4, <2>5
    <2> QED BY <2>5, <2>7, <2>8, <2>9, <2>10 DEF CountInv
  <1> QED BY <1>1, <1>2, <1>3, <1>4, <1>5, <1>6 DEF WorkerStep

-----------------------------------------------------------------------------
(* Types *)

\* A step of a thread keeps the types.
LEMMA ProducerTypes ==
    ASSUME TypeOK, CountInv, EventInv, NEW p \in Producers, PostBegin(p) \/ ProducerStep(p)
    PROVE  TypeOK'
  <1>0. /\ MaxPosts \in Nat /\ Capacity \in Nat \ {0}
        /\ producer[p] \in [pc : ProducerSteps, event : Events \cup {Empty}, pos : Nat]
        /\ ~At(p, "idle") => producer[p].event \in Events
    BY QueueAssumption DEF TypeOK, EventInv, Events
  <1>p. /\ producer \in [Producers -> [pc : ProducerSteps, event : Events \cup {Empty}, pos : Nat]]
        /\ slot \in [0 .. Capacity - 1 -> [sequence : Nat, value : Events \cup {Empty}]]
        /\ tail \in Nat
    BY DEF TypeOK
  <1>w. UNCHANGED <<head, worker, observers, stop, mark, handled, calls>>
    BY DEF PostBegin, ProducerStep, TryAcquireSlot, Claim, Emplace, Publish, ReleaseItem, Undo,
           UndoNotify, ring, history
  <1>1. CASE PostBegin(p)
    <2>1. UNCHANGED <<slot, tail, slots, items, owner, claimed, accepted, dropped>>
      BY <1>1 DEF PostBegin, ring, history
    <2>2. posts' \in 0 .. MaxPosts /\ pending' \in Nat /\ posts + 1 \in Events
      BY <1>0, <1>1 DEF PostBegin, TypeOK, Events
    <2>3. producer' \in [Producers -> [pc : ProducerSteps, event : Events \cup {Empty}, pos : Nat]]
      BY <1>1, <2>2 DEF PostBegin, TypeOK, ProducerSteps
    <2> QED BY <1>w, <2>1, <2>2, <2>3 DEF TypeOK
  <1>2. CASE TryAcquireSlot(p)
    <2>1. UNCHANGED <<slot, tail, items, pending, posts, owner, claimed, accepted, dropped>>
      BY <1>2 DEF TryAcquireSlot, history
    <2>2. slots' \in 0 .. Capacity
      BY <1>0, <1>2 DEF TryAcquireSlot, TypeOK
    <2>3. producer' \in [Producers -> [pc : ProducerSteps, event : Events \cup {Empty}, pos : Nat]]
      BY <1>p, <1>2 DEF TryAcquireSlot, Goto, ProducerSteps
    <2> QED BY <1>w, <2>1, <2>2, <2>3 DEF TypeOK
  <1>3. CASE Claim(p)
    <2>1. UNCHANGED <<slot, slots, items, pending, posts, owner, accepted, dropped>>
      BY <1>3 DEF Claim
    <2>2. tail' \in Nat /\ claimed' \in Seq(Events)
      <3>1. producer[p].event \in Events /\ tail' = tail + 1 /\ claimed' = Append(claimed, producer[p].event)
        BY <1>0, <1>3 DEF Claim, At
      <3>2. claimed \in Seq(Events)
        BY DEF TypeOK
      <3> QED BY <1>p, <3>1, <3>2
    <2>3. producer' \in [Producers -> [pc : ProducerSteps, event : Events \cup {Empty}, pos : Nat]]
      <3>1. producer' = [producer EXCEPT ![p].pc = "emplace", ![p].pos = tail] /\ "emplace" \in ProducerSteps
        BY <1>3 DEF Claim, ProducerSteps
      <3> QED BY <1>p, <3>1
    <2> QED BY <1>w, <2>1, <2>2, <2>3 DEF TypeOK
  <1>4. CASE Emplace(p) \/ Publish(p)
    <2>1. UNCHANGED <<tail, slots, items, pending, posts, owner, claimed, accepted, dropped>>
      BY <1>4 DEF Emplace, Publish, history
    <2>2. slot' \in [0 .. Capacity - 1 -> [sequence : Nat, value : Events \cup {Empty}]]
      <3>1. Index(producer[p].pos) \in 0 .. Capacity - 1
        BY <1>0, IndexWraps
      <3>2. CASE Emplace(p)
        BY <1>0, <1>p, <3>1, <3>2 DEF Emplace, At
      <3>3. CASE Publish(p)
        <4>1. producer[p].pos + 1 \in Nat
          BY <1>0
        <4>2. slot' = [slot EXCEPT ![Index(producer[p].pos)].sequence = producer[p].pos + 1]
          BY <3>3 DEF Publish
        <4> QED BY <1>p, <3>1, <4>1, <4>2
      <3> QED BY <1>4, <3>2, <3>3
    <2>3. producer' \in [Producers -> [pc : ProducerSteps, event : Events \cup {Empty}, pos : Nat]]
      <3>1. producer' = [producer EXCEPT ![p].pc = "publish"] \/ producer' = [producer EXCEPT ![p].pc = "release"]
        BY <1>4 DEF Emplace, Publish, Goto
      <3>2. {"publish", "release"} \subseteq ProducerSteps
        BY DEF ProducerSteps
      <3> QED BY <1>p, <3>1, <3>2, ZenonT(60)
    <2> QED BY <1>w, <2>1, <2>2, <2>3 DEF TypeOK
  <1>5. CASE ReleaseItem(p)
    <2>1. UNCHANGED <<slot, tail, slots, pending, posts, owner, claimed, dropped>>
      BY <1>5 DEF ReleaseItem
    <2>2. items' \in Nat /\ accepted' \subseteq Events
      BY <1>0, <1>5 DEF ReleaseItem, TypeOK, At
    <2>3. producer' \in [Producers -> [pc : ProducerSteps, event : Events \cup {Empty}, pos : Nat]]
      <3>1. producer' = [producer EXCEPT ![p] = NoProducer]
        BY <1>5 DEF ReleaseItem
      <3>2. NoProducer \in [pc : ProducerSteps, event : Events \cup {Empty}, pos : Nat]
        BY DEF NoProducer, ProducerSteps
      <3> QED BY <1>p, <3>1, <3>2
    <2> QED BY <1>w, <2>1, <2>2, <2>3 DEF TypeOK
  <1>6. CASE Undo(p)
    <2>1. UNCHANGED <<slot, tail, slots, items, posts, owner, claimed, accepted>>
      BY <1>6 DEF Undo, ring
    <2>2. pending > 0
      <3>1. Cardinality(Counted) \in Nat /\ Cardinality(Counted) > 0
        BY <1>6, CountsType DEF Undo, At
      <3>2. pending >= Cardinality(Counted)
        BY <3>1, SMTT(30) DEF CountInv, TypeOK, One
      <3> QED BY <3>1, <3>2 DEF TypeOK
    <2>3. pending' \in Nat /\ dropped' \subseteq Events
      BY <1>0, <1>6, <2>2, SMTT(30) DEF Undo, TypeOK, At
    <2>4. producer' \in [Producers -> [pc : ProducerSteps, event : Events \cup {Empty}, pos : Nat]]
      <3>1. \/ producer' = [producer EXCEPT ![p] = NoProducer]
            \/ producer' = [producer EXCEPT ![p].pc = "notify"]
        BY <1>6, <1>p DEF Undo
      <3>2. "notify" \in ProducerSteps /\ NoProducer \in [pc : ProducerSteps, event : Events \cup {Empty}, pos : Nat]
        BY DEF NoProducer, ProducerSteps
      <3> QED BY <1>p, <3>1, <3>2, ZenonT(60)
    <2> QED BY <1>w, <2>1, <2>3, <2>4 DEF TypeOK
  <1>7. CASE UndoNotify(p)
    <2>1. UNCHANGED <<slot, tail, slots, items, pending, posts, claimed, accepted, dropped>>
      BY <1>7 DEF UndoNotify, ring, history
    <2>2. owner' \in [pc : OwnerSteps, loaded : Nat, then : {"served", "stopping"}]
      BY <1>7 DEF UndoNotify, OwnerWoken, TypeOK, OwnerSteps
    <2>3. producer' \in [Producers -> [pc : ProducerSteps, event : Events \cup {Empty}, pos : Nat]]
      <3>1. producer' = [producer EXCEPT ![p] = NoProducer]
        BY <1>7 DEF UndoNotify
      <3>2. NoProducer \in [pc : ProducerSteps, event : Events \cup {Empty}, pos : Nat]
        BY DEF NoProducer, ProducerSteps
      <3> QED BY <1>p, <3>1, <3>2
    <2> QED BY <1>w, <2>1, <2>2, <2>3 DEF TypeOK
  <1> QED BY <1>1, <1>2, <1>3, <1>4, <1>5, <1>6, <1>7 DEF ProducerStep

\* So does a step of the worker.
LEMMA WorkerTypes ==
    ASSUME TypeOK, CountInv, WorkerInv, WorkerStep
    PROVE  TypeOK'
  <1>0. /\ MaxPosts \in Nat /\ Capacity \in Nat \ {0}
        /\ worker \in [pc : WorkerSteps, event : Events \cup {Empty}, todo : SUBSET Observers]
        /\ head \in Nat /\ slots \in 0 .. Capacity /\ pending \in Nat /\ items \in Nat /\ tail \in Nat
        /\ Index(head) \in 0 .. Capacity - 1
    BY QueueAssumption, IndexWraps DEF TypeOK
  <1>w. UNCHANGED <<tail, posts, producer, observers, stop, mark, claimed, accepted, dropped>>
    BY DEF WorkerStep, LoopCheck, AcquireItem, AwaitHead, Take, Recycle, FreeSlot, LoadObservers,
           CallObserver, CallsDone, Settle, WorkerNotify, Drain, DrainCheck, ring, history
  <1>e. WorkerAt("call") => worker.event \in Events
    <2> SUFFICES ASSUME WorkerAt("call") PROVE worker.event \in Events
      OBVIOUS
    <2>1. Len(handled) + 1 \in 1 .. Len(claimed) /\ worker.event = claimed[Len(handled) + 1]
      BY <1>0 DEF CountInv, WorkerInv, WorkerAt, One, TypeOK
    <2> QED BY <2>1 DEF TypeOK
  <1>1. CASE LoopCheck \/ AcquireItem \/ AwaitHead \/ Drain \/ DrainCheck
    <2>1. UNCHANGED <<slot, head, slots, pending, owner, handled, calls>>
      BY <1>1 DEF LoopCheck, AcquireItem, AwaitHead, Drain, DrainCheck, ring, history
    <2>2. items' \in Nat
      BY <1>0, <1>1 DEF LoopCheck, AcquireItem, AwaitHead, Drain, DrainCheck, ring
    <2>3. worker' \in [pc : WorkerSteps, event : Events \cup {Empty}, todo : SUBSET Observers]
      BY <1>0, <1>1 DEF LoopCheck, AcquireItem, AwaitHead, Drain, DrainCheck, WorkerGoto, WorkerSteps
    <2> QED BY <1>w, <2>1, <2>2, <2>3 DEF TypeOK
  <1>2. CASE Take
    <2>1. UNCHANGED <<head, slots, items, pending, owner, handled, calls>>
      BY <1>2 DEF Take, history
    <2>2. slot' \in [0 .. Capacity - 1 -> [sequence : Nat, value : Events \cup {Empty}]]
      <3>1. slot \in [0 .. Capacity - 1 -> [sequence : Nat, value : Events \cup {Empty}]]
        BY DEF TypeOK
      <3>2. slot' = [slot EXCEPT ![Index(head)].value = Empty]
        BY <1>2 DEF Take
      <3> QED BY <3>1, <3>2
    <2>3. worker' \in [pc : WorkerSteps, event : Events \cup {Empty}, todo : SUBSET Observers]
      BY <1>0, <1>2 DEF Take, TypeOK, WorkerSteps
    <2> QED BY <1>w, <2>1, <2>2, <2>3 DEF TypeOK
  <1>3. CASE Recycle
    <2>1. UNCHANGED <<slots, items, pending, owner, handled, calls>>
      BY <1>3 DEF Recycle, history
    <2>2. slot' \in [0 .. Capacity - 1 -> [sequence : Nat, value : Events \cup {Empty}]]
      <3>1. slot \in [0 .. Capacity - 1 -> [sequence : Nat, value : Events \cup {Empty}]]
        BY DEF TypeOK
      <3>2. Index(head) \in 0 .. Capacity - 1 /\ NextTurn \in Nat
        BY <1>0, IndexWraps DEF NextTurn
      <3>3. slot' = [slot EXCEPT ![Index(head)].sequence = NextTurn]
        BY <1>3 DEF Recycle
      <3> QED BY <3>1, <3>2, <3>3
    <2>3. head' \in Nat
          /\ worker' \in [pc : WorkerSteps, event : Events \cup {Empty}, todo : SUBSET Observers]
      BY <1>0, <1>3 DEF Recycle, WorkerGoto, WorkerSteps
    <2> QED BY <1>w, <2>1, <2>2, <2>3 DEF TypeOK
  <1>4. CASE FreeSlot
    <2>1. UNCHANGED <<slot, head, items, pending, owner, handled, calls>>
      BY <1>4 DEF FreeSlot, history
    <2>2. slots' \in 0 .. Capacity
      <3>1. slots + Cardinality(Claimers) + (tail - head) + 1 = Capacity /\ head <= tail
        BY <1>4 DEF FreeSlot, WorkerAt, CountInv, One
      <3>2. slots + 1 <= Capacity
        BY <1>0, <3>1, CountsType
      <3> QED BY <1>0, <1>4, <3>2 DEF FreeSlot
    <2>3. worker' \in [pc : WorkerSteps, event : Events \cup {Empty}, todo : SUBSET Observers]
      BY <1>0, <1>4 DEF FreeSlot, WorkerGoto, WorkerSteps
    <2> QED BY <1>w, <2>1, <2>2, <2>3 DEF TypeOK
  <1>5. CASE LoadObservers
    <2>1. UNCHANGED <<slot, head, slots, items, pending, owner, handled, calls>>
      BY <1>5 DEF LoadObservers, ring, history
    <2>2. worker' \in [pc : WorkerSteps, event : Events \cup {Empty}, todo : SUBSET Observers]
      BY <1>0, <1>5 DEF LoadObservers, WorkerSteps, TypeOK
    <2> QED BY <1>w, <2>1, <2>2 DEF TypeOK
  <1>6. CASE CallObserver
    <2>1. UNCHANGED <<slot, head, slots, items, pending, owner, handled>>
      BY <1>6 DEF CallObserver, ring
    <2>2. PICK o \in worker.todo : /\ worker' = [worker EXCEPT !.todo = @ \ {o}]
                                   /\ calls' = Append(calls, <<o, worker.event>>)
      BY <1>6 DEF CallObserver
    <2>3. worker' \in [pc : WorkerSteps, event : Events \cup {Empty}, todo : SUBSET Observers]
      BY <1>0, <2>2
    <2>4. <<o, worker.event>> \in Observers \X Events
      BY <1>0, <1>e, <1>6, <2>2 DEF CallObserver
    <2>5. calls' \in Seq(Observers \X Events)
      BY <2>2, <2>4, AppendProperties DEF TypeOK
    <2> QED BY <1>w, <2>1, <2>3, <2>5 DEF TypeOK
  <1>7. CASE CallsDone
    <2>1. UNCHANGED <<slot, head, slots, items, pending, owner, calls>>
      BY <1>7 DEF CallsDone, ring
    <2>2. handled' \in Seq(Events)
      BY <1>e, <1>7 DEF CallsDone, TypeOK
    <2>3. worker' \in [pc : WorkerSteps, event : Events \cup {Empty}, todo : SUBSET Observers]
      BY <1>0, <1>7 DEF CallsDone, WorkerGoto, WorkerSteps
    <2> QED BY <1>w, <2>1, <2>2, <2>3 DEF TypeOK
  <1>8. CASE Settle
    <2>1. UNCHANGED <<slot, head, slots, items, owner, handled, calls>>
      BY <1>8 DEF Settle, ring, history
    <2>2. pending > 0
      <3>1. pending = (tail - Len(handled)) + 1 + Cardinality(Counted) /\ head <= tail /\ Len(handled) = head
        BY <1>0, <1>8 DEF Settle, WorkerAt, CountInv, One
      <3> QED BY <1>0, <3>1, CountsType
    <2>3. worker' \in [pc : WorkerSteps, event : Events \cup {Empty}, todo : SUBSET Observers]
      BY <1>0, <1>8 DEF Settle, AtRest, WorkerSteps
    <2>4. pending' \in Nat
      BY <1>0, <1>8, <2>2 DEF Settle
    <2> QED BY <1>w, <2>1, <2>3, <2>4 DEF TypeOK
  <1>9. CASE WorkerNotify
    <2>1. UNCHANGED <<slot, head, slots, items, pending, handled, calls>>
      BY <1>9 DEF WorkerNotify, ring, history
    <2>2. owner' \in [pc : OwnerSteps, loaded : Nat, then : {"served", "stopping"}]
      BY <1>9 DEF WorkerNotify, OwnerWoken, TypeOK, OwnerSteps
    <2>3. worker' \in [pc : WorkerSteps, event : Events \cup {Empty}, todo : SUBSET Observers]
      BY <1>0, <1>9 DEF WorkerNotify, AtRest, WorkerSteps
    <2> QED BY <1>w, <2>1, <2>2, <2>3 DEF TypeOK
  <1> QED BY <1>1, <1>2, <1>3, <1>4, <1>5, <1>6, <1>7, <1>8, <1>9 DEF WorkerStep

\* The owner's steps: they touch the observers, its own state, the stop token and one permit.
OwnerActs == (\E o \in Observers : AddObserver(o)) \/ RemoveAndFlush \/ Destroy \/ OwnerStep

LEMMA OwnerTypes ==
    ASSUME TypeOK, OwnerActs
    PROVE  /\ TypeOK'
           /\ UNCHANGED <<slot, head, tail, slots, pending, posts, producer, worker, claimed, handled,
                          accepted, dropped, calls>>
  <1>0. owner \in [pc : OwnerSteps, loaded : Nat, then : {"served", "stopping"}] /\ pending \in Nat
        /\ items \in Nat
    BY DEF TypeOK
  <1>1. UNCHANGED <<slot, head, tail, slots, pending, posts, producer, worker, claimed, handled,
                    accepted, dropped, calls>>
    BY DEF OwnerActs, AddObserver, RemoveAndFlush, Destroy, OwnerStep, FlushLoad, FlushWait,
           RequestStop, WakeConsumer, Join, ring, history
  <1>2. observers' \subseteq Observers /\ stop' \in BOOLEAN /\ mark' \subseteq Events /\ items' \in Nat
    <2>1. CASE \E o \in Observers : AddObserver(o)
      BY <2>1 DEF AddObserver, TypeOK, ring, history
    <2>2. CASE RemoveAndFlush \/ Destroy
      BY <2>2 DEF RemoveAndFlush, Destroy, TypeOK, ring
    <2>3. CASE FlushLoad \/ FlushWait \/ RequestStop \/ Join
      BY <2>3 DEF FlushLoad, FlushWait, RequestStop, Join, TypeOK, ring, history
    <2>4. CASE WakeConsumer
      BY <1>0, <2>4 DEF WakeConsumer, TypeOK, history
    <2> QED BY <2>1, <2>2, <2>3, <2>4 DEF OwnerActs, OwnerStep
  <1>3. owner' \in [pc : OwnerSteps, loaded : Nat, then : {"served", "stopping"}]
    <2>1. CASE (\E o \in Observers : AddObserver(o))
      BY <1>0, <2>1 DEF AddObserver
    <2>2. CASE RemoveAndFlush \/ Destroy
      BY <1>0, <2>2 DEF RemoveAndFlush, Destroy, OwnerGoto, OwnerSteps
    <2>3. CASE FlushLoad
      BY <1>0, <2>3 DEF FlushLoad, OwnerSteps
    <2>4. CASE FlushWait \/ RequestStop \/ WakeConsumer \/ Join
      BY <1>0, <2>4 DEF FlushWait, RequestStop, WakeConsumer, Join, OwnerGoto, OwnerSteps
    <2> QED BY <2>1, <2>2, <2>3, <2>4 DEF OwnerActs, OwnerStep
  <1> QED BY <1>1, <1>2, <1>3 DEF TypeOK

-----------------------------------------------------------------------------
(* Slots *)

\* What keeps the slots: the ring is left alone, the writers write on, and the worker comes to a
\* slot only when it is published.
LEMMA SlotsStay ==
    ASSUME TypeOK, WriterInv, SlotInv,
           UNCHANGED <<slot, head, tail, claimed>>,
           \A q \in Producers : Writes(q)' <=> Writes(q),
           \A q \in Producers : Writes(q) => producer'[q] = producer[q],
           worker'.pc = "recycle" <=> worker.pc = "recycle",
           worker'.pc = "take" => worker.pc = "take" \/ Readable
    PROVE  WriterInv' /\ SlotInv'
  <1>1. WriterInv'
    <2>1. ASSUME NEW q \in Producers, Writes(q)'
          PROVE  /\ head <= producer'[q].pos /\ producer'[q].pos < tail
                 /\ claimed[producer'[q].pos + 1] = producer'[q].event
                 /\ slot[Index(producer'[q].pos)].sequence = producer'[q].pos
                 /\ slot[Index(producer'[q].pos)].value =
                        IF At(q, "emplace")' THEN Empty ELSE producer'[q].event
      BY <2>1 DEF WriterInv, At
    <2>2. ASSUME NEW q \in Producers, NEW r \in Producers, Writes(q)', Writes(r)', q # r
          PROVE  producer'[q].pos # producer'[r].pos
      BY <2>2 DEF WriterInv
    <2> QED BY <2>1, <2>2 DEF WriterInv, Index, At
  <1>2. SlotInv'
    <2>1. ASSUME NEW n \in Nat, head <= n, n < tail,
                 \A q \in Producers : Writes(q)' => producer'[q].pos # n
          PROVE  /\ slot[Index(n)].sequence = n + 1
                 /\ n > head \/ worker'.pc # "recycle" => slot[Index(n)].value = claimed[n + 1]
      BY <2>1 DEF SlotInv, WorkerAt
    <2>2. worker'.pc \in {"take", "recycle"} => slot[Index(head)].sequence = head + 1
      BY DEF SlotInv, Readable
    <2>3. worker'.pc = "recycle" => slot[Index(head)].value = Empty
      BY DEF SlotInv, WorkerAt
    <2> QED BY <2>1, <2>2, <2>3 DEF SlotInv, WorkerAt, Index
  <1> QED BY <1>1, <1>2

\* A thread writes only the slot of its position.
LEMMA ProducerSlots ==
    ASSUME TypeOK, CountInv, WriterInv, SlotInv, EventInv, NEW p \in Producers,
           PostBegin(p) \/ ProducerStep(p)
    PROVE  WriterInv' /\ SlotInv'
  <1>0. /\ Capacity \in Nat \ {0} /\ head \in Nat /\ tail \in Nat /\ head <= tail
        /\ producer \in [Producers -> [pc : ProducerSteps, event : Events \cup {Empty}, pos : Nat]]
        /\ slot \in [0 .. Capacity - 1 -> [sequence : Nat, value : Events \cup {Empty}]]
        /\ claimed \in Seq(Events) /\ Len(claimed) = tail
    BY QueueAssumption DEF TypeOK, CountInv
  <1>c. tail <= head + Capacity /\ (At(p, "claim") => tail < head + Capacity)
    <2>1. One(worker.pc = "free") \in Nat /\ slots \in Nat
      BY DEF One, TypeOK
    <2>2. slots + Cardinality(Claimers) + (tail - head) + One(worker.pc = "free") = Capacity
      BY DEF CountInv
    <2> QED BY <1>0, <2>1, <2>2, CountsType, SMTT(30)
  <1>w. worker' = worker /\ head' = head
    BY DEF PostBegin, ProducerStep, TryAcquireSlot, Claim, Emplace, Publish, ReleaseItem, Undo,
           UndoNotify, ring, history
  <1>1. CASE PostBegin(p) \/ TryAcquireSlot(p) \/ ReleaseItem(p) \/ Undo(p) \/ UndoNotify(p)
    <2>1. UNCHANGED <<slot, tail, claimed>> /\ ~Writes(p)
      BY <1>1 DEF PostBegin, TryAcquireSlot, ReleaseItem, Undo, UndoNotify, ring, history, At, Writes
    <2>2. \E pc, e, n : Moves(p, pc, e, n) /\ pc \notin {"emplace", "publish"}
      BY <1>1, ProducerMoves
    <2>3. \A q \in Producers : (Writes(q)' <=> Writes(q)) /\ (Writes(q) => producer'[q] = producer[q])
      BY <2>1, <2>2 DEF Writes, Moves
    <2>4. /\ worker'.pc = "recycle" <=> worker.pc = "recycle"
          /\ worker'.pc = "take" => worker.pc = "take" \/ Readable
      BY <1>w
    <2> QED BY <1>w, <2>1, <2>3, <2>4, SlotsStay
  <1>2. CASE Claim(p)
    <2>1. /\ slot' = slot /\ tail' = tail + 1 /\ claimed' = Append(claimed, producer[p].event)
          /\ At(p, "claim") /\ producer[p].event \in Events
      <3>1. ~At(p, "idle") => producer[p].event \in Events
        BY QueueAssumption DEF EventInv, TypeOK, Events
      <3> QED BY <1>2, <3>1 DEF Claim, At
    <2>2. /\ claimed'[tail + 1] = producer[p].event
          /\ \A n \in Nat : n < tail => claimed'[n + 1] = claimed[n + 1]
      BY <1>0, <2>1
    <2>3. Moves(p, "emplace", producer[p].event, tail)
      BY <1>2, ProducerMoves
    <2>4. /\ Writes(p)' /\ At(p, "emplace")' /\ producer'[p].pos = tail
          /\ producer'[p].event = producer[p].event
          /\ \A q \in Producers : q # p => (Writes(q)' <=> Writes(q)) /\ producer'[q] = producer[q]
      BY <2>3 DEF Moves, Writes, At
    <2>5. slot[Index(tail)].sequence = tail /\ slot[Index(tail)].value = Empty
      BY <1>0, <1>c, <2>1 DEF SlotInv
    <2>6. WriterInv'
      <3>1. ASSUME NEW q \in Producers, Writes(q)'
            PROVE  /\ head <= producer'[q].pos /\ producer'[q].pos < tail + 1
                   /\ claimed'[producer'[q].pos + 1] = producer'[q].event
                   /\ slot[Index(producer'[q].pos)].sequence = producer'[q].pos
                   /\ slot[Index(producer'[q].pos)].value =
                        IF At(q, "emplace")' THEN Empty ELSE producer'[q].event
        <4>1. CASE q = p
          BY <1>0, <2>2, <2>4, <2>5, <4>1
        <4>2. CASE q # p
          <5>1. Writes(q) /\ producer'[q] = producer[q] /\ producer[q].pos \in Nat
            BY <1>0, <2>4, <3>1, <4>2
          <5> QED BY <1>0, <2>2, <5>1, SMTT(30) DEF WriterInv, At
        <4> QED BY <4>1, <4>2
      <3>2. ASSUME NEW q \in Producers, NEW r \in Producers, Writes(q)', Writes(r)', q # r
            PROVE  producer'[q].pos # producer'[r].pos
        <4>1. \A u \in Producers : u # p /\ Writes(u)' => producer'[u].pos # tail
          BY <1>0, <2>4 DEF WriterInv
        <4> QED BY <2>4, <3>2, <4>1 DEF WriterInv
      <3> QED BY <1>w, <2>1, <3>1, <3>2 DEF WriterInv, Index, At
    <2>7. SlotInv'
      <3>1. ASSUME NEW n \in Nat, head <= n, n < tail + 1,
                   \A q \in Producers : Writes(q)' => producer'[q].pos # n
            PROVE  /\ slot[Index(n)].sequence = n + 1
                   /\ n > head \/ worker.pc # "recycle" => slot[Index(n)].value = claimed'[n + 1]
        <4>1. n # tail /\ n < tail
          BY <1>0, <2>4, <3>1
        <4>2. \A q \in Producers : Writes(q) => producer[q].pos # n
          BY <2>1, <2>4, <3>1 DEF Writes, At
        <4> QED BY <2>2, <3>1, <4>1, <4>2 DEF SlotInv, WorkerAt
      <3>2. \A n \in Nat : tail + 1 <= n /\ n < head + Capacity =>
                slot[Index(n)].sequence = n /\ slot[Index(n)].value = Empty
        BY <1>0 DEF SlotInv
      <3> QED BY <1>w, <2>1, <3>1, <3>2 DEF SlotInv, WorkerAt, Index
    <2> QED BY <2>6, <2>7
  <1>3. CASE Emplace(p) \/ Publish(p)
    <2> DEFINE pos == producer[p].pos
    <2>1. /\ UNCHANGED <<tail, claimed>> /\ Writes(p) /\ pos \in Nat
          /\ head <= pos /\ pos < tail /\ claimed[pos + 1] = producer[p].event
          /\ slot[Index(pos)].sequence = pos
      BY <1>0, <1>3 DEF Emplace, Publish, history, At, Writes, WriterInv
    <2>2. \A n \in Nat : head <= n /\ n < head + Capacity /\ n # pos => Index(n) # Index(pos)
      <3> SUFFICES ASSUME NEW n \in Nat, head <= n, n < head + Capacity, n # pos
                   PROVE  Index(n) # Index(pos)
        OBVIOUS
      <3>1. n - pos < Capacity /\ pos - n < Capacity
        BY <1>0, <1>c, <2>1
      <3> QED BY <2>1, <3>1, IndexDistinct
    <2>3. Index(pos) \in 0 .. Capacity - 1 /\ \A n \in Nat : Index(n) \in 0 .. Capacity - 1
      BY <2>1, IndexWraps
    <2>4. \A n \in Nat : head <= n /\ n < head + Capacity /\ n # pos => slot'[Index(n)] = slot[Index(n)]
      BY <1>0, <1>3, <2>2, <2>3 DEF Emplace, Publish
    <2>5. worker.pc \in {"take", "recycle"} => head # pos
      BY <1>0, <2>1 DEF SlotInv
    <2>6. \A q \in Producers : q # p /\ Writes(q) =>
              producer[q].pos \in Nat /\ producer[q].pos # pos /\ head <= producer[q].pos
              /\ producer[q].pos < head + Capacity
      BY <1>0, <1>c, <2>1 DEF WriterInv
    <2>7. /\ producer'[p].event = producer[p].event /\ producer'[p].pos = pos
          /\ \A q \in Producers : q # p => producer'[q] = producer[q] /\ (Writes(q)' <=> Writes(q))
      BY <1>3, ProducerMoves DEF Moves, Writes
    <2>8. ASSUME NEW q \in Producers, q # p, Writes(q)'
          PROVE  /\ head <= producer'[q].pos /\ producer'[q].pos < tail
                 /\ claimed[producer'[q].pos + 1] = producer'[q].event
                 /\ slot'[Index(producer'[q].pos)].sequence = producer'[q].pos
                 /\ slot'[Index(producer'[q].pos)].value =
                        IF At(q, "emplace")' THEN Empty ELSE producer'[q].event
      BY <2>4, <2>6, <2>7, <2>8 DEF WriterInv, At
    <2>9. ASSUME NEW q \in Producers, NEW r \in Producers, Writes(q)', Writes(r)', q # r
          PROVE  producer'[q].pos # producer'[r].pos
      BY <2>1, <2>7, <2>9 DEF WriterInv, Writes
    <2>10. ASSUME NEW n \in Nat, n # pos, head <= n, n < tail,
                  \A q \in Producers : Writes(q)' => producer'[q].pos # n
           PROVE  /\ slot'[Index(n)].sequence = n + 1
                  /\ n > head \/ worker.pc # "recycle" => slot'[Index(n)].value = claimed[n + 1]
      <3>1. \A q \in Producers : Writes(q) => producer[q].pos # n
        BY <2>7, <2>10
      <3>2. slot'[Index(n)] = slot[Index(n)]
        <4>1. n < head + Capacity
          BY <1>0, <1>c, <2>10
        <4> QED BY <2>4, <2>10, <4>1
      <3> QED BY <2>10, <3>1, <3>2 DEF SlotInv, WorkerAt
    <2>11. ASSUME NEW n \in Nat, tail <= n, n < head + Capacity
           PROVE  slot'[Index(n)].sequence = n /\ slot'[Index(n)].value = Empty
      <3>1. slot'[Index(n)] = slot[Index(n)]
        BY <1>0, <2>1, <2>4, <2>11, SMTT(30)
      <3> QED BY <2>11, <3>1 DEF SlotInv
    <2>12. /\ worker.pc \in {"take", "recycle"} => slot'[Index(head)].sequence = head + 1
           /\ worker.pc = "recycle" => slot'[Index(head)].value = Empty
      BY <1>0, <2>4, <2>5 DEF SlotInv, WorkerAt
    <2>13. CASE Emplace(p)
      <3>1. /\ At(p, "publish")' /\ Writes(p)'
            /\ slot'[Index(pos)].sequence = pos /\ slot'[Index(pos)].value = producer[p].event
        <4>1. Moves(p, "publish", producer[p].event, pos)
          BY <2>13, ProducerMoves
        <4>2. slot'[Index(pos)].sequence = pos /\ slot'[Index(pos)].value = producer[p].event
          BY <1>0, <2>1, <2>3, <2>13 DEF Emplace
        <4> QED BY <4>1, <4>2 DEF Moves, At, Writes
      <3>2. WriterInv'
        <4>1. ~At(p, "emplace")'
          BY <3>1 DEF At
        <4> QED BY <1>w, <2>1, <2>7, <2>8, <2>9, <3>1, <4>1 DEF WriterInv, Index
      <3>3. SlotInv'
        <4>1. ASSUME NEW n \in Nat, head <= n, n < tail,
                     \A q \in Producers : Writes(q)' => producer'[q].pos # n
              PROVE  n # pos
          BY <2>7, <3>1, <4>1
        <4> QED BY <1>w, <2>1, <2>10, <2>11, <2>12, <4>1 DEF SlotInv, WorkerAt, Index
      <3> QED BY <3>2, <3>3
    <2>14. CASE Publish(p)
      <3>1. ~Writes(p)' /\ slot'[Index(pos)].sequence = pos + 1
            /\ slot'[Index(pos)].value = claimed[pos + 1]
        <4>1. Moves(p, "release", producer[p].event, pos)
          BY <2>14, ProducerMoves
        <4>2. slot'[Index(pos)].sequence = pos + 1 /\ slot'[Index(pos)].value = slot[Index(pos)].value
          BY <1>0, <2>1, <2>3, <2>14 DEF Publish
        <4>3. slot[Index(pos)].value = producer[p].event
          BY <2>1, <2>14 DEF WriterInv, Publish, At
        <4> QED BY <2>1, <4>1, <4>2, <4>3 DEF Moves, Writes
      <3>2. WriterInv'
        <4>1. \A q \in Producers : Writes(q)' => q # p
          BY <3>1
        <4> QED BY <1>w, <2>1, <2>8, <2>9, <4>1 DEF WriterInv, Index
      <3>3. SlotInv'
        <4>1. ASSUME NEW n \in Nat, head <= n, n < tail,
                     \A q \in Producers : Writes(q)' => producer'[q].pos # n
              PROVE  /\ slot'[Index(n)].sequence = n + 1
                     /\ n > head \/ worker.pc # "recycle" => slot'[Index(n)].value = claimed[n + 1]
          BY <2>10, <3>1, <4>1
        <4> QED BY <1>w, <2>1, <2>11, <2>12, <4>1 DEF SlotInv, WorkerAt, Index
      <3> QED BY <3>2, <3>3
    <2> QED BY <1>3, <2>13, <2>14
  <1> QED BY <1>1, <1>2, <1>3 DEF ProducerStep

\* The worker empties the slot at head_, and gives it to the position one turn later.
LEMMA WorkerSlots ==
    ASSUME TypeOK, CountInv, WriterInv, SlotInv, WorkerStep
    PROVE  WriterInv' /\ SlotInv'
  <1>0. /\ Capacity \in Nat \ {0} /\ head \in Nat /\ tail \in Nat /\ head <= tail
        /\ producer \in [Producers -> [pc : ProducerSteps, event : Events \cup {Empty}, pos : Nat]]
        /\ slot \in [0 .. Capacity - 1 -> [sequence : Nat, value : Events \cup {Empty}]]
        /\ worker \in [pc : WorkerSteps, event : Events \cup {Empty}, todo : SUBSET Observers]
        /\ worker.pc \in {"take", "recycle"} => head < tail
    BY QueueAssumption DEF TypeOK, CountInv
  <1>c. tail <= head + Capacity
    <2>1. One(worker.pc = "free") \in Nat /\ slots \in Nat
      BY DEF One, TypeOK
    <2>2. slots + Cardinality(Claimers) + (tail - head) + One(worker.pc = "free") = Capacity
      BY DEF CountInv
    <2> QED BY <1>0, <2>1, <2>2, CountsType
  <1>w. UNCHANGED <<tail, claimed, producer>>
    BY DEF WorkerStep, LoopCheck, AcquireItem, AwaitHead, Take, Recycle, FreeSlot, LoadObservers,
           CallObserver, CallsDone, Settle, WorkerNotify, Drain, DrainCheck, ring, history
  <1>p. \A q \in Producers : (Writes(q)' <=> Writes(q)) /\ (At(q, "emplace")' <=> At(q, "emplace"))
    BY <1>w DEF Writes, At
  <1>1. ASSUME ~Take, ~Recycle PROVE WriterInv' /\ SlotInv'
    <2>1. UNCHANGED <<slot, head>>
      BY <1>1 DEF WorkerStep, LoopCheck, AcquireItem, AwaitHead, FreeSlot, LoadObservers,
           CallObserver, CallsDone, Settle, WorkerNotify, Drain, DrainCheck, ring
    <2>2. worker.pc # "recycle" /\ worker'.pc # "recycle" /\ (worker'.pc = "take" => Readable)
      <3>1. CASE LoopCheck \/ AcquireItem \/ FreeSlot \/ CallsDone \/ Drain
        BY <1>0, <3>1 DEF LoopCheck, AcquireItem, FreeSlot, CallsDone, Drain, WorkerAt, WorkerGoto
      <3>2. CASE LoadObservers
        BY <1>0, <3>2 DEF LoadObservers, WorkerAt
      <3>3. CASE CallObserver
        BY <1>0, <3>3 DEF CallObserver, WorkerAt
      <3>4. CASE Settle \/ WorkerNotify
        BY <1>0, <3>4 DEF Settle, WorkerNotify, AtRest, WorkerAt
      <3>5. CASE AwaitHead \/ DrainCheck
        BY <1>0, <3>5 DEF AwaitHead, DrainCheck, WorkerAt, WorkerGoto
      <3> QED BY <1>1, <3>1, <3>2, <3>3, <3>4, <3>5 DEF WorkerStep
    <2> QED BY <1>w, <1>p, <2>1, <2>2, SlotsStay
  <1>h. ASSUME worker.pc \in {"take", "recycle"}
        PROVE  /\ \A q \in Producers : Writes(q) => producer[q].pos # head
               /\ \A n \in Nat : head < n /\ n < head + Capacity => Index(n) # Index(head)
               /\ Index(head) \in 0 .. Capacity - 1 /\ \A n \in Nat : Index(n) \in 0 .. Capacity - 1
    <2>1. \A q \in Producers : Writes(q) => producer[q].pos # head
      BY <1>0, <1>h DEF WriterInv, SlotInv
    <2>2. ASSUME NEW n \in Nat, head < n, n < head + Capacity PROVE Index(n) # Index(head)
      <3>1. n - head < Capacity /\ head - n < Capacity /\ n # head
        BY <1>0, <2>2
      <3> QED BY <1>0, <3>1, IndexDistinct
    <2> QED BY <1>0, <2>1, <2>2, IndexWraps
  <1>2. CASE Take
    <2>1. /\ worker.pc = "take" /\ worker'.pc = "recycle" /\ head' = head
          /\ slot' = [slot EXCEPT ![Index(head)].value = Empty]
      BY <1>0, <1>2 DEF Take, WorkerAt
    <2>2. /\ slot'[Index(head)].sequence = head + 1 /\ slot'[Index(head)].value = Empty
          /\ \A n \in Nat : head < n /\ n < head + Capacity => slot'[Index(n)] = slot[Index(n)]
      BY <1>0, <1>h, <2>1 DEF SlotInv
    <2>3. \A q \in Producers : Writes(q) => /\ producer[q].pos \in Nat /\ head < producer[q].pos
                                            /\ producer[q].pos < head + Capacity
                                            /\ slot'[Index(producer[q].pos)] = slot[Index(producer[q].pos)]
      BY <1>0, <1>c, <1>h, <2>1, <2>2 DEF WriterInv
    <2>4. WriterInv'
      <3>1. ASSUME NEW q \in Producers, Writes(q)
            PROVE  /\ head <= producer[q].pos /\ producer[q].pos < tail
                   /\ claimed[producer[q].pos + 1] = producer[q].event
                   /\ slot'[Index(producer[q].pos)].sequence = producer[q].pos
                   /\ slot'[Index(producer[q].pos)].value =
                        IF At(q, "emplace") THEN Empty ELSE producer[q].event
        BY <1>0, <2>3, <3>1 DEF WriterInv
      <3>2. \A q, r \in Producers : Writes(q) /\ Writes(r) /\ q # r => producer[q].pos # producer[r].pos
        BY DEF WriterInv
      <3> QED BY <1>w, <1>p, <2>1, <3>1, <3>2 DEF WriterInv, Index
    <2>5. SlotInv'
      <3>1. ASSUME NEW n \in Nat, head <= n, n < tail, \A q \in Producers : Writes(q) => producer[q].pos # n
            PROVE  slot'[Index(n)].sequence = n + 1 /\ (n > head => slot'[Index(n)].value = claimed[n + 1])
        <4>1. CASE n = head
          BY <1>0, <2>2, <4>1
        <4>2. CASE n # head
          <5>1. head < n /\ n < head + Capacity
            BY <1>0, <1>c, <3>1, <4>2
          <5> QED BY <2>2, <3>1, <5>1 DEF SlotInv
        <4> QED BY <4>1, <4>2
      <3>2. ASSUME NEW n \in Nat, tail <= n, n < head + Capacity
            PROVE  slot'[Index(n)].sequence = n /\ slot'[Index(n)].value = Empty
        <4>1. head < n
          BY <1>0, <2>1, <3>2
        <4> QED BY <2>2, <3>2, <4>1 DEF SlotInv
      <3> QED BY <1>w, <1>p, <2>1, <2>2, <3>1, <3>2 DEF SlotInv, WorkerAt, Index
    <2> QED BY <2>4, <2>5
  <1>3. CASE Recycle
    <2>1. /\ worker.pc = "recycle" /\ worker'.pc = "free" /\ head' = head + 1
          /\ slot' = [slot EXCEPT ![Index(head)].sequence = head + Capacity]
      BY <1>0, <1>3 DEF Recycle, NextTurn, WorkerAt, WorkerGoto
    <2>2. /\ slot'[Index(head)].sequence = head + Capacity /\ slot'[Index(head)].value = Empty
          /\ \A n \in Nat : head < n /\ n < head + Capacity => slot'[Index(n)] = slot[Index(n)]
      BY <1>0, <1>h, <2>1 DEF SlotInv, WorkerAt
    <2>3. \A q \in Producers : Writes(q) => /\ producer[q].pos \in Nat /\ head + 1 <= producer[q].pos
                                            /\ producer[q].pos < head + Capacity
                                            /\ slot'[Index(producer[q].pos)] = slot[Index(producer[q].pos)]
      BY <1>0, <1>c, <1>h, <2>1, <2>2 DEF WriterInv
    <2>4. WriterInv'
      <3>1. ASSUME NEW q \in Producers, Writes(q)
            PROVE  /\ head + 1 <= producer[q].pos /\ producer[q].pos < tail
                   /\ claimed[producer[q].pos + 1] = producer[q].event
                   /\ slot'[Index(producer[q].pos)].sequence = producer[q].pos
                   /\ slot'[Index(producer[q].pos)].value =
                        IF At(q, "emplace") THEN Empty ELSE producer[q].event
        BY <1>0, <2>3, <3>1 DEF WriterInv
      <3>2. \A q, r \in Producers : Writes(q) /\ Writes(r) /\ q # r => producer[q].pos # producer[r].pos
        BY DEF WriterInv
      <3> QED BY <1>w, <1>p, <2>1, <3>1, <3>2 DEF WriterInv, Index
    <2>5. SlotInv'
      <3>1. ASSUME NEW n \in Nat, head + 1 <= n, n < tail,
                   \A q \in Producers : Writes(q) => producer[q].pos # n
            PROVE  slot'[Index(n)].sequence = n + 1 /\ slot'[Index(n)].value = claimed[n + 1]
        <4>1. head < n /\ head <= n /\ n < head + Capacity
          BY <1>0, <1>c, <3>1
        <4>2. slot[Index(n)].sequence = n + 1 /\ slot[Index(n)].value = claimed[n + 1]
          BY <1>0, <3>1, <4>1 DEF SlotInv
        <4> QED BY <2>2, <4>1, <4>2
      <3>2. ASSUME NEW n \in Nat, tail <= n, n < head + 1 + Capacity
            PROVE  slot'[Index(n)].sequence = n /\ slot'[Index(n)].value = Empty
        <4>1. CASE n = head + Capacity
          BY <1>0, <2>2, <4>1, IndexWraps
        <4>2. CASE n # head + Capacity
          <5>1. head < tail
            BY <1>0, <2>1
          <5>2. head < n /\ n < head + Capacity
            BY <1>0, <3>2, <4>2, <5>1
          <5> QED BY <2>2, <3>2, <5>2 DEF SlotInv
        <4> QED BY <4>1, <4>2
      <3> QED BY <1>w, <1>p, <2>1, <3>1, <3>2 DEF SlotInv, WorkerAt, Index
    <2> QED BY <2>4, <2>5
  <1> QED BY <1>1, <1>2, <1>3
-----------------------------------------------------------------------------
(* The worker and the observers *)

\* A position, once given, keeps its event.
LEMMA ClaimedGrows ==
    ASSUME TypeOK, CountInv, EventInv, [Next]_vars
    PROVE  /\ Len(claimed) <= Len(claimed') /\ Len(claimed') \in Nat
           /\ \A i \in 1 .. Len(claimed) : claimed'[i] = claimed[i]
  <1>1. CASE claimed' = claimed
    BY <1>1 DEF TypeOK
  <1>2. ASSUME NEW p \in Producers, Claim(p)
        PROVE  /\ Len(claimed) <= Len(claimed') /\ Len(claimed') \in Nat
               /\ \A i \in 1 .. Len(claimed) : claimed'[i] = claimed[i]
    <2>1. claimed' = Append(claimed, producer[p].event) /\ claimed \in Seq(Events)
      BY <1>2 DEF Claim, TypeOK
    <2> QED BY <2>1
  <1>3. (\E p \in Producers : Claim(p)) \/ claimed' = claimed
    <2>1. ASSUME NEW p \in Producers, PostBegin(p) \/ ProducerStep(p) PROVE Claim(p) \/ claimed' = claimed
      BY <2>1 DEF PostBegin, ProducerStep, TryAcquireSlot, Emplace, Publish, ReleaseItem, Undo,
           UndoNotify, history
    <2>2. CASE WorkerStep
      BY <2>2 DEF WorkerStep, LoopCheck, AcquireItem, AwaitHead, Take, Recycle, FreeSlot, LoadObservers,
           CallObserver, CallsDone, Settle, WorkerNotify, Drain, DrainCheck, history
    <2>3. CASE OwnerActs
      BY <2>3, OwnerTypes
    <2>4. CASE UNCHANGED vars
      BY <2>4 DEF vars
    <2> QED BY <2>1, <2>2, <2>3, <2>4 DEF Next, OwnerActs
  <1> QED BY <1>1, <1>2, <1>3

\* A step that leaves the worker alone leaves its past alone.
LEMMA WorkerStays ==
    ASSUME TypeOK, CountInv, WorkerInv, CallInv, EventInv, [Next]_vars,
           UNCHANGED <<worker, head, handled, calls>>
    PROVE  WorkerInv' /\ CallInv'
  <1>1. /\ Len(claimed) <= Len(claimed') /\ Len(claimed') \in Nat
        /\ \A i \in 1 .. Len(claimed) : claimed'[i] = claimed[i]
    BY ClaimedGrows
  <1>2. /\ Len(handled) \in Nat /\ Len(claimed) \in Nat /\ Len(handled) <= Len(claimed)
        /\ worker.pc \in {"recycle", "free", "dispatch", "call"} => Len(handled) + 1 \in 1 .. Len(claimed)
    BY DEF TypeOK, CountInv, One
  <1>3. WorkerInv'
    BY <1>1, <1>2 DEF WorkerInv
  <1>4. \A i, j \in 1 .. Len(calls) : i < j /\ calls[i][1] = calls[j][1] =>
           \E m, n \in 1 .. Len(claimed') :
               m < n /\ claimed'[m] = calls[i][2] /\ claimed'[n] = calls[j][2]
    <2> SUFFICES ASSUME NEW i \in 1 .. Len(calls), NEW j \in 1 .. Len(calls), i < j,
                        calls[i][1] = calls[j][1]
                 PROVE  \E m, n \in 1 .. Len(claimed') :
                           m < n /\ claimed'[m] = calls[i][2] /\ claimed'[n] = calls[j][2]
      OBVIOUS
    <2>1. PICK m \in 1 .. Len(claimed), n \in 1 .. Len(claimed) :
             m < n /\ claimed[m] = calls[i][2] /\ claimed[n] = calls[j][2]
      BY DEF CallInv, ObserversSeeOrder
    <2>2. m \in 1 .. Len(claimed') /\ n \in 1 .. Len(claimed')
      BY <1>1, <1>2, <2>1
    <2> QED BY <1>1, <2>1, <2>2
  <1>5. \A i \in 1 .. Len(calls) :
          \/ \E m \in 1 .. Len(handled) : claimed'[m] = calls[i][2]
          \/ WorkerAt("call") /\ calls[i][1] \notin worker.todo /\ calls[i][2] = worker.event
    <2>1. \A m \in 1 .. Len(handled) : claimed'[m] = claimed[m]
      BY <1>1, <1>2
    <2> QED BY <2>1 DEF CallInv
  <1>6. CallInv'
    <2>1. ObserversSeeOrder'
      BY <1>4, SMTT(30) DEF ObserversSeeOrder
    <2>2. ~WorkerAt("call")' => worker'.todo = {}
      BY DEF CallInv, WorkerAt
    <2> QED BY <1>5, <2>1, <2>2 DEF CallInv, WorkerAt
  <1> QED BY <1>3, <1>6

\* The worker takes the events in the order of their positions.
LEMMA WorkerOrder ==
    ASSUME TypeOK, CountInv, WriterInv, SlotInv, WorkerInv, WorkerStep
    PROVE  WorkerInv'
  <1>0. /\ head \in Nat /\ tail \in Nat /\ claimed \in Seq(Events) /\ handled \in Seq(Events)
        /\ worker \in [pc : WorkerSteps, event : Events \cup {Empty}, todo : SUBSET Observers]
        /\ Len(handled) \in Nat /\ Len(claimed) = tail /\ head <= tail
        /\ worker.pc \in {"recycle", "free", "dispatch", "call"} => Len(handled) + 1 \in 1 .. Len(claimed)
        /\ worker.pc \in {"take", "recycle"} => head < tail /\ Len(handled) = head
    BY SMTT(30) DEF TypeOK, CountInv, One
  <1>w. claimed' = claimed
    BY DEF WorkerStep, LoopCheck, AcquireItem, AwaitHead, Take, Recycle, FreeSlot, LoadObservers,
           CallObserver, CallsDone, Settle, WorkerNotify, Drain, DrainCheck, history
  <1>1. CASE Take
    <2>1. /\ worker.pc = "take" /\ worker'.event = slot[Index(head)].value
          /\ handled' = handled
      BY <1>0, <1>1 DEF Take, WorkerAt, history
    <2>2. \A q \in Producers : Writes(q) => producer[q].pos # head
      BY <1>0, <2>1 DEF WriterInv, SlotInv
    <2>3. slot[Index(head)].value = claimed[head + 1]
      BY <1>0, <2>1, <2>2 DEF SlotInv, WorkerAt
    <2> QED BY <1>0, <1>w, <2>1, <2>3 DEF WorkerInv
  <1>2. CASE CallsDone
    <2>1. /\ worker.pc = "call" /\ worker'.pc = "settle" /\ handled' = Append(handled, worker.event)
          /\ worker.event = claimed[Len(handled) + 1]
      BY <1>0, <1>2 DEF CallsDone, WorkerAt, WorkerGoto, WorkerInv
    <2>2. worker.event \in Events
      BY <1>0, <2>1
    <2>3. /\ Len(handled') = Len(handled) + 1 /\ handled'[Len(handled) + 1] = worker.event
          /\ \A i \in 1 .. Len(handled) : handled'[i] = handled[i]
      BY <1>0, <2>1, <2>2
    <2>4. ASSUME NEW i \in 1 .. Len(handled) + 1 PROVE handled'[i] = claimed[i]
      <3>1. CASE i = Len(handled) + 1
        BY <2>1, <2>3, <3>1
      <3>2. CASE i # Len(handled) + 1
        <4>1. i \in 1 .. Len(handled)
          BY <1>0, <3>2
        <4> QED BY <2>3, <4>1 DEF WorkerInv
      <3> QED BY <3>1, <3>2
    <2> QED BY <1>w, <2>1, <2>3, <2>4 DEF WorkerInv
  <1>3. ASSUME ~Take, ~CallsDone PROVE WorkerInv'
    <2>1. handled' = handled
      BY <1>3 DEF WorkerStep, LoopCheck, AcquireItem, AwaitHead, Recycle, FreeSlot, LoadObservers,
           CallObserver, Settle, WorkerNotify, Drain, DrainCheck, history
    <2>2. \/ worker'.pc \notin {"recycle", "free", "dispatch", "call"}
          \/ worker'.event = worker.event /\ worker.pc \in {"recycle", "free", "dispatch", "call"}
      <3>1. CASE LoopCheck \/ AcquireItem \/ Drain \/ AwaitHead \/ DrainCheck
        BY <1>0, <3>1 DEF LoopCheck, AcquireItem, Drain, AwaitHead, DrainCheck, WorkerGoto
      <3>2. CASE Recycle \/ FreeSlot
        BY <1>0, <3>2 DEF Recycle, FreeSlot, WorkerGoto, WorkerAt
      <3>3. CASE LoadObservers
        BY <1>0, <3>3 DEF LoadObservers, WorkerAt
      <3>4. CASE CallObserver
        BY <1>0, <3>4 DEF CallObserver, WorkerAt
      <3>5. CASE Settle \/ WorkerNotify
        BY <1>0, <3>5 DEF Settle, WorkerNotify, AtRest
      <3> QED BY <1>3, <3>1, <3>2, <3>3, <3>4, <3>5 DEF WorkerStep
    <2> QED BY <1>w, <2>1, <2>2 DEF WorkerInv
  <1> QED BY <1>1, <1>2, <1>3

\* An observer is called about the events in the order of their positions, and once about each.
LEMMA WorkerCalls ==
    ASSUME TypeOK, CountInv, WorkerInv, CallInv, WorkerStep
    PROVE  CallInv'
  <1>0. /\ worker \in [pc : WorkerSteps, event : Events \cup {Empty}, todo : SUBSET Observers]
        /\ handled \in Seq(Events) /\ claimed \in Seq(Events) /\ calls \in Seq(Observers \X Events)
        /\ Len(handled) \in Nat /\ Len(claimed) \in Nat /\ Len(handled) <= Len(claimed)
        /\ worker.pc = "call" => /\ Len(handled) + 1 \in 1 .. Len(claimed)
                                 /\ worker.event = claimed[Len(handled) + 1]
    BY DEF TypeOK, CountInv, WorkerInv, One
  <1>w. claimed' = claimed
    BY DEF WorkerStep, LoopCheck, AcquireItem, AwaitHead, Take, Recycle, FreeSlot, LoadObservers,
           CallObserver, CallsDone, Settle, WorkerNotify, Drain, DrainCheck, history
  <1>1. CASE CallObserver
    <2>1. PICK o \in worker.todo : /\ worker' = [worker EXCEPT !.todo = @ \ {o}]
                                   /\ calls' = Append(calls, <<o, worker.event>>)
      BY <1>1 DEF CallObserver
    <2>2. /\ worker.pc = "call" /\ worker'.pc = "call" /\ worker'.event = worker.event
          /\ worker'.todo = worker.todo \ {o} /\ handled' = handled
      BY <1>0, <1>1, <2>1 DEF CallObserver, WorkerAt
    <2>3. <<o, worker.event>> \in Observers \X Events
      BY <1>0, <2>1, <2>2
    <2>4. /\ Len(calls') = Len(calls) + 1 /\ Len(calls) \in Nat
          /\ \A i \in 1 .. Len(calls) : calls'[i] = calls[i]
          /\ calls'[Len(calls) + 1] = <<o, worker.event>>
      BY <1>0, <2>1, <2>3, AppendProperties
    <2>5. \A i \in 1 .. Len(calls) + 1 :
            \/ \E m \in 1 .. Len(handled) : claimed[m] = calls'[i][2]
            \/ calls'[i][1] \notin worker'.todo /\ calls'[i][2] = worker'.event
      <3> SUFFICES ASSUME NEW i \in 1 .. Len(calls) + 1
                   PROVE  \/ \E m \in 1 .. Len(handled) : claimed[m] = calls'[i][2]
                          \/ calls'[i][1] \notin worker'.todo /\ calls'[i][2] = worker'.event
        OBVIOUS
      <3>1. CASE i = Len(calls) + 1
        BY <2>2, <2>4, <3>1
      <3>2. CASE i # Len(calls) + 1
        <4>1. i \in 1 .. Len(calls)
          BY <2>4, <3>2
        <4> QED BY <2>2, <2>4, <4>1 DEF CallInv
      <3> QED BY <3>1, <3>2
    <2>6. ASSUME NEW i \in 1 .. Len(calls) + 1, NEW j \in 1 .. Len(calls) + 1, i < j,
                 calls'[i][1] = calls'[j][1]
          PROVE  \E m, n \in 1 .. Len(claimed) :
                    m < n /\ claimed[m] = calls'[i][2] /\ claimed[n] = calls'[j][2]
      <3>1. i \in 1 .. Len(calls) /\ calls'[i] = calls[i]
        BY <2>4, <2>6
      <3>2. CASE j \in 1 .. Len(calls)
        <4>1. calls'[j] = calls[j] /\ calls[i][1] = calls[j][1]
          BY <2>4, <2>6, <3>1, <3>2
        <4>2. \E m, n \in 1 .. Len(claimed) :
                 m < n /\ claimed[m] = calls[i][2] /\ claimed[n] = calls[j][2]
          BY <2>6, <3>1, <3>2, <4>1 DEF CallInv, ObserversSeeOrder
        <4> QED BY <3>1, <4>1, <4>2
      <3>3. CASE j = Len(calls) + 1
        <4>1. calls[i][1] = o /\ calls'[j][2] = worker.event
          BY <2>4, <2>6, <3>1, <3>3
        <4>2. PICK m \in 1 .. Len(handled) : claimed[m] = calls[i][2]
          BY <2>1, <3>1, <4>1 DEF CallInv
        <4>3. m \in 1 .. Len(claimed) /\ m < Len(handled) + 1
          BY <1>0
        <4> QED BY <1>0, <2>2, <3>1, <4>1, <4>2, <4>3
      <3> QED BY <2>4, <2>6, <3>2, <3>3
    <2> QED BY <1>w, <2>2, <2>4, <2>5, <2>6 DEF CallInv, ObserversSeeOrder, WorkerAt
  <1>2. CASE CallsDone
    <2>1. /\ worker.pc = "call" /\ worker'.pc = "settle" /\ worker.todo = {} /\ worker'.todo = {}
          /\ handled' = Append(handled, worker.event) /\ calls' = calls
      BY <1>0, <1>2 DEF CallsDone, WorkerAt, WorkerGoto
    <2>2. Len(handled') = Len(handled) + 1
      BY <1>0, <2>1
    <2>3. \A i \in 1 .. Len(calls) : \E m \in 1 .. Len(handled) + 1 : claimed[m] = calls[i][2]
      <3> SUFFICES ASSUME NEW i \in 1 .. Len(calls)
                   PROVE  \E m \in 1 .. Len(handled) + 1 : claimed[m] = calls[i][2]
        OBVIOUS
      <3>1. CASE \E m \in 1 .. Len(handled) : claimed[m] = calls[i][2]
        BY <1>0, <3>1
      <3>2. CASE calls[i][2] = worker.event
        BY <1>0, <2>1, <3>2
      <3> QED BY <3>1, <3>2 DEF CallInv
    <2> QED BY <1>w, <2>1, <2>2, <2>3 DEF CallInv, ObserversSeeOrder, WorkerAt
  <1>3. ASSUME ~CallObserver, ~CallsDone PROVE CallInv'
    <2>1. handled' = handled /\ calls' = calls
      BY <1>3 DEF WorkerStep, LoopCheck, AcquireItem, AwaitHead, Take, Recycle, FreeSlot, LoadObservers,
           Settle, WorkerNotify, Drain, DrainCheck, history
    <2>2. worker.pc # "call" /\ (worker'.pc # "call" => worker'.todo = {})
      <3>1. CASE LoopCheck \/ AcquireItem \/ Drain \/ AwaitHead \/ DrainCheck \/ Recycle \/ FreeSlot
        BY <1>0, <3>1 DEF LoopCheck, AcquireItem, Drain, AwaitHead, DrainCheck, Recycle, FreeSlot,
                          WorkerGoto, WorkerAt, CallInv
      <3>2. CASE Take \/ LoadObservers
        BY <1>0, <3>2 DEF Take, LoadObservers, WorkerAt, CallInv
      <3>3. CASE Settle \/ WorkerNotify
        BY <1>0, <3>3 DEF Settle, WorkerNotify, AtRest, WorkerAt
      <3> QED BY <1>3, <3>1, <3>2, <3>3 DEF WorkerStep
    <2>3. \A i \in 1 .. Len(calls) : \E m \in 1 .. Len(handled) : claimed[m] = calls[i][2]
      BY <2>2 DEF CallInv, WorkerAt
    <2>4. ObserversSeeOrder'
      BY <1>w, <2>1, SMTT(30) DEF CallInv, ObserversSeeOrder
    <2> QED BY <1>w, <2>1, <2>2, <2>3, <2>4 DEF CallInv, WorkerAt
  <1> QED BY <1>1, <1>2, <1>3

-----------------------------------------------------------------------------
(* Events *)

\* Every event is accounted for, and has one post and one position.
LEMMA ProducerEvents ==
    ASSUME TypeOK, EventInv, UniqueInv, NEW p \in Producers, PostBegin(p) \/ ProducerStep(p)
    PROVE  EventInv' /\ UniqueInv'
  <1>0. /\ MaxPosts \in Nat /\ posts \in 0 .. MaxPosts /\ claimed \in Seq(Events) /\ Len(claimed) \in Nat
        /\ producer[p].pc \in ProducerSteps
        /\ ~At(p, "idle") => producer[p].event \in Events
    BY QueueAssumption DEF TypeOK, EventInv, Events
  <1>e. \A e \in Events : Claimed(e) => e \in 1 .. posts
    BY DEF EventInv, Holds, At
  <1>1. CASE PostBegin(p)
    <2>1. /\ UNCHANGED <<claimed, accepted, dropped>> /\ posts' = posts + 1 /\ posts + 1 \in Events
          /\ At(p, "idle")
      BY <1>0, <1>1 DEF PostBegin, history, Events
    <2>2. Moves(p, "acquire", posts + 1, 0)
      BY <1>1, ProducerMoves
    <2>3. /\ ~Holds(p) /\ ~Holds(p)' /\ ~Posting(p) /\ Posting(p)' /\ ~At(p, "idle")'
          /\ producer'[p].event = posts + 1
          /\ \A q \in Producers : q # p => /\ producer'[q] = producer[q] /\ (Holds(q)' <=> Holds(q))
                                           /\ (Posting(q)' <=> Posting(q)) /\ (At(q, "idle")' <=> At(q, "idle"))
      BY <2>1, <2>2 DEF Moves, Holds, Posting, At, ProducerSteps
    <2>4. \A e : Claimed(e)' <=> Claimed(e)
      BY <2>1 DEF Claimed
    <2>5. EventInv'
      <3>1. ASSUME NEW q \in Producers, ~At(q, "idle")' PROVE producer'[q].event \in 1 .. posts + 1
        BY <1>0, <2>3, <3>1 DEF EventInv
      <3>2. ASSUME NEW e \in Events
            PROVE  Claimed(e)' <=> e \in accepted \/ \E q \in Producers : Holds(q)' /\ producer'[q].event = e
        BY <2>3, <2>4 DEF EventInv
      <3>3. ASSUME NEW e \in 1 .. posts + 1
            PROVE  e \in accepted \cup dropped \/ \E q \in Producers : Posting(q)' /\ producer'[q].event = e
        <4>1. CASE e = posts + 1
          BY <2>3, <4>1
        <4>2. CASE e # posts + 1
          <5>1. e \in 1 .. posts
            BY <1>0, <4>2
          <5> QED BY <2>3, <5>1 DEF EventInv
        <4> QED BY <4>1, <4>2
      <3>4. accepted \cup dropped \subseteq 1 .. posts + 1
        BY <1>0 DEF EventInv
      <3> QED BY <2>1, <3>1, <3>2, <3>3, <3>4 DEF EventInv
    <2>6. UniqueInv'
      <3>1. ASSUME NEW q \in Producers, q # p, Posting(q) PROVE producer[q].event # posts + 1
        BY <1>0, <3>1 DEF EventInv, Posting, At
      <3>2. ~Claimed(posts + 1)
        BY <1>0, <1>e, <2>1
      <3>3. ASSUME NEW q \in Producers, NEW r \in Producers, Posting(q)', Posting(r)', q # r
            PROVE  producer'[q].event # producer'[r].event
        BY <2>3, <3>1, <3>3 DEF UniqueInv
      <3>4. ASSUME NEW q \in Producers, Posting(q)', ~Holds(q)', NEW i \in 1 .. Len(claimed)
            PROVE  claimed[i] # producer'[q].event
        BY <2>3, <3>2, <3>4 DEF UniqueInv, Claimed
      <3>5. \A i, j \in 1 .. Len(claimed) : i # j => claimed[i] # claimed[j]
        BY DEF UniqueInv
      <3> QED BY <2>1, <3>3, <3>4, <3>5 DEF UniqueInv, Claimed
    <2> QED BY <2>5, <2>6
  <1>2. CASE Claim(p)
    <2>1. /\ UNCHANGED <<posts, accepted, dropped>> /\ At(p, "claim")
          /\ claimed' = Append(claimed, producer[p].event)
      BY <1>2 DEF Claim
    <2>2. producer[p].event \in Events
      BY <1>0, <2>1 DEF At
    <2>3. /\ Len(claimed') = Len(claimed) + 1 /\ claimed'[Len(claimed) + 1] = producer[p].event
          /\ \A i \in 1 .. Len(claimed) : claimed'[i] = claimed[i]
      BY <1>0, <2>1, <2>2
    <2>4. Moves(p, "emplace", producer[p].event, tail)
      BY <1>2, ProducerMoves
    <2>5. /\ ~Holds(p) /\ Holds(p)' /\ Posting(p) /\ Posting(p)' /\ ~At(p, "idle") /\ ~At(p, "idle")'
          /\ producer'[p].event = producer[p].event
          /\ \A q \in Producers : q # p => /\ producer'[q] = producer[q] /\ (Holds(q)' <=> Holds(q))
                                           /\ (Posting(q)' <=> Posting(q)) /\ (At(q, "idle")' <=> At(q, "idle"))
      BY <2>1, <2>4 DEF Moves, Holds, Posting, At, ProducerSteps
    <2>6. \A e : Claimed(e)' <=> Claimed(e) \/ e = producer[p].event
      <3>1. ASSUME NEW e, Claimed(e)' PROVE Claimed(e) \/ e = producer[p].event
        <4>1. PICK i \in 1 .. Len(claimed) + 1 : claimed'[i] = e
          BY <2>3, <3>1 DEF Claimed
        <4>2. i \in 1 .. Len(claimed) \/ i = Len(claimed) + 1
          BY <1>0
        <4> QED BY <2>3, <4>1, <4>2 DEF Claimed
      <3>2. ASSUME NEW e, Claimed(e) \/ e = producer[p].event PROVE Claimed(e)'
        <4>1. \A i \in 1 .. Len(claimed) : i \in 1 .. Len(claimed')
          BY <1>0, <2>3
        <4>2. Len(claimed) + 1 \in 1 .. Len(claimed')
          BY <1>0, <2>3
        <4> QED BY <2>3, <3>2, <4>1, <4>2 DEF Claimed
      <3> QED BY <3>1, <3>2
    <2>7. EventInv'
      <3>1. ASSUME NEW q \in Producers, ~At(q, "idle")' PROVE producer'[q].event \in 1 .. posts
        BY <2>5, <3>1 DEF EventInv
      <3>2. ASSUME NEW e \in Events
            PROVE  Claimed(e)' <=> e \in accepted \/ \E q \in Producers : Holds(q)' /\ producer'[q].event = e
        BY <2>5, <2>6 DEF EventInv
      <3>3. ASSUME NEW e \in 1 .. posts
            PROVE  e \in accepted \cup dropped \/ \E q \in Producers : Posting(q)' /\ producer'[q].event = e
        BY <2>5 DEF EventInv
      <3> QED BY <2>1, <3>1, <3>2, <3>3 DEF EventInv
    <2>8. UniqueInv'
      <3>1. ASSUME NEW q \in Producers, NEW r \in Producers, Posting(q)', Posting(r)', q # r
            PROVE  producer'[q].event # producer'[r].event
        BY <2>5, <3>1 DEF UniqueInv
      <3>2. ASSUME NEW q \in Producers, Posting(q)', ~Holds(q)', NEW i \in 1 .. Len(claimed) + 1
            PROVE  claimed'[i] # producer'[q].event
        <4>1. q # p /\ Posting(q) /\ ~Holds(q) /\ producer'[q].event = producer[q].event
          BY <2>5, <3>2
        <4>2. producer[q].event # producer[p].event /\ ~Claimed(producer[q].event)
          BY <2>5, <4>1 DEF UniqueInv
        <4>3. i \in 1 .. Len(claimed) \/ i = Len(claimed) + 1
          BY <1>0
        <4> QED BY <2>3, <4>1, <4>2, <4>3 DEF Claimed
      <3>3. ASSUME NEW i \in 1 .. Len(claimed) + 1, NEW j \in 1 .. Len(claimed) + 1, i # j
            PROVE  claimed'[i] # claimed'[j]
        <4>1. \A k \in 1 .. Len(claimed) : claimed[k] # producer[p].event
          BY <2>5 DEF UniqueInv, Claimed
        <4>2. /\ i \in 1 .. Len(claimed) \/ i = Len(claimed) + 1
              /\ j \in 1 .. Len(claimed) \/ j = Len(claimed) + 1
          BY <1>0
        <4> QED BY <2>3, <3>3, <4>1, <4>2 DEF UniqueInv
      <3> QED BY <2>3, <3>1, <3>2, <3>3 DEF UniqueInv, Claimed
    <2> QED BY <2>7, <2>8
  <1>3. CASE TryAcquireSlot(p) \/ Emplace(p) \/ Publish(p)
    <2>1. UNCHANGED <<posts, claimed, accepted, dropped>>
      BY <1>3 DEF TryAcquireSlot, Emplace, Publish, history
    <2>2. /\ producer'[p].event = producer[p].event
          /\ ~At(p, "idle") /\ ~At(p, "idle")' /\ (Holds(p)' <=> Holds(p)) /\ Posting(p) /\ Posting(p)'
          /\ \A q \in Producers : q # p => producer'[q] = producer[q]
      <3>1. CASE TryAcquireSlot(p)
        BY <3>1, ProducerMoves DEF TryAcquireSlot, Moves, Holds, Posting, At, ProducerSteps
      <3>2. CASE Emplace(p)
        BY <3>2, ProducerMoves DEF Emplace, Moves, Holds, Posting, At, ProducerSteps
      <3>3. CASE Publish(p)
        BY <3>3, ProducerMoves DEF Publish, Moves, Holds, Posting, At, ProducerSteps
      <3> QED BY <1>3, <3>1, <3>2, <3>3
    <2>3. \A q \in Producers : /\ producer'[q].event = producer[q].event /\ (Holds(q)' <=> Holds(q))
                               /\ (Posting(q)' <=> Posting(q)) /\ (At(q, "idle")' <=> At(q, "idle"))
      BY <2>2 DEF Holds, Posting, At
    <2>4. \A e : Claimed(e)' <=> Claimed(e)
      BY <2>1 DEF Claimed
    <2>5. EventInv'
      BY <2>1, <2>3, <2>4 DEF EventInv
    <2>6. UniqueInv'
      BY <2>1, <2>3, <2>4 DEF UniqueInv
    <2> QED BY <2>5, <2>6
  <1>4. CASE ReleaseItem(p) \/ Undo(p)
    <2> DEFINE e0 == producer[p].event
    <2>1. /\ UNCHANGED <<posts, claimed>> /\ e0 \in 1 .. posts /\ Posting(p)
          /\ \/ Holds(p) /\ accepted' = accepted \cup {e0} /\ dropped' = dropped
             \/ ~Holds(p) /\ accepted' = accepted /\ dropped' = dropped \cup {e0}
      BY <1>4 DEF ReleaseItem, Undo, EventInv, Holds, Posting, At, ProducerSteps
    <2>2. /\ ~Holds(p)' /\ ~Posting(p)' /\ (~At(p, "idle")' => producer'[p].event = e0)
          /\ \A q \in Producers : q # p => producer'[q] = producer[q]
      <3>1. CASE ReleaseItem(p)
        BY <3>1, ProducerMoves DEF Moves, Holds, Posting, At
      <3>2. CASE Undo(p)
        BY <3>2, ProducerMoves DEF Moves, Holds, Posting, At
      <3> QED BY <1>4, <3>1, <3>2
    <2>3. \A q \in Producers : q # p => /\ producer'[q].event = producer[q].event /\ (Holds(q)' <=> Holds(q))
                                        /\ (Posting(q)' <=> Posting(q)) /\ (At(q, "idle")' <=> At(q, "idle"))
      BY <2>2 DEF Holds, Posting, At
    <2>4. \A e : Claimed(e)' <=> Claimed(e)
      BY <2>1 DEF Claimed
    <2>5. EventInv'
      <3>1. ASSUME NEW q \in Producers, ~At(q, "idle")' PROVE producer'[q].event \in 1 .. posts
        BY <2>1, <2>2, <2>3, <3>1 DEF EventInv
      <3>2. ASSUME NEW e \in Events
            PROVE  Claimed(e)' <=> e \in accepted' \/ \E q \in Producers : Holds(q)' /\ producer'[q].event = e
        BY <2>1, <2>2, <2>3, <2>4 DEF EventInv
      <3>3. ASSUME NEW e \in 1 .. posts
            PROVE  e \in accepted' \cup dropped' \/ \E q \in Producers : Posting(q)' /\ producer'[q].event = e
        BY <2>1, <2>3 DEF EventInv
      <3>4. accepted' \cup dropped' \subseteq 1 .. posts
        BY <2>1 DEF EventInv
      <3> QED BY <2>1, <3>1, <3>2, <3>3, <3>4 DEF EventInv
    <2>6. UniqueInv'
      BY <2>1, <2>2, <2>3, <2>4 DEF UniqueInv
    <2> QED BY <2>5, <2>6
  <1>5. CASE UndoNotify(p)
    <2>1. UNCHANGED <<posts, claimed, accepted, dropped>> /\ ~Posting(p) /\ ~Holds(p)
      BY <1>5 DEF UndoNotify, history, At, Posting, Holds
    <2>2. /\ ~Holds(p)' /\ ~Posting(p)' /\ At(p, "idle")'
          /\ \A q \in Producers : q # p => producer'[q] = producer[q]
      BY <1>5, ProducerMoves DEF Moves, Holds, Posting, At
    <2>3. \A q \in Producers : q # p => /\ producer'[q].event = producer[q].event /\ (Holds(q)' <=> Holds(q))
                                        /\ (Posting(q)' <=> Posting(q)) /\ (At(q, "idle")' <=> At(q, "idle"))
      BY <2>2 DEF Holds, Posting, At
    <2>4. \A e : Claimed(e)' <=> Claimed(e)
      BY <2>1 DEF Claimed
    <2>5. EventInv'
      <3>1. ASSUME NEW q \in Producers, ~At(q, "idle")' PROVE producer'[q].event \in 1 .. posts
        BY <2>2, <2>3, <3>1 DEF EventInv
      <3>2. ASSUME NEW e \in Events
            PROVE  Claimed(e)' <=> e \in accepted \/ \E q \in Producers : Holds(q)' /\ producer'[q].event = e
        BY <2>1, <2>2, <2>3, <2>4 DEF EventInv
      <3>3. ASSUME NEW e \in 1 .. posts
            PROVE  e \in accepted \cup dropped \/ \E q \in Producers : Posting(q)' /\ producer'[q].event = e
        BY <2>1, <2>3 DEF EventInv
      <3> QED BY <2>1, <3>1, <3>2, <3>3 DEF EventInv
    <2>6. UniqueInv'
      BY <2>1, <2>2, <2>3, <2>4 DEF UniqueInv
    <2> QED BY <2>5, <2>6
  <1> QED BY <1>1, <1>2, <1>3, <1>4, <1>5 DEF ProducerStep

\* Only threads inside post touch the events.
LEMMA EventsStay ==
    ASSUME EventInv, UniqueInv, UNCHANGED <<producer, posts, claimed, accepted, dropped>>
    PROVE  EventInv' /\ UniqueInv'
  <1>1. \A q \in Producers : /\ producer'[q].event = producer[q].event /\ (Holds(q)' <=> Holds(q))
                             /\ (Posting(q)' <=> Posting(q)) /\ (At(q, "idle")' <=> At(q, "idle"))
    BY DEF Holds, Posting, At
  <1>2. \A e : Claimed(e)' <=> Claimed(e)
    BY DEF Claimed
  <1>3. EventInv'
    BY <1>1, <1>2 DEF EventInv
  <1>4. UniqueInv'
    BY <1>1, <1>2 DEF UniqueInv
  <1> QED BY <1>3, <1>4

-----------------------------------------------------------------------------
(* The owner *)

\* Nobody is inside post while the queue is destroyed, and what was processed stays so.
LEMMA ProducerOwner ==
    ASSUME TypeOK, OwnerInv, NEW p \in Producers, PostBegin(p) \/ ProducerStep(p)
    PROVE  OwnerInv'
  <1>0. owner \in [pc : OwnerSteps, loaded : Nat, then : {"served", "stopping"}]
    BY DEF TypeOK
  <1>1. /\ UNCHANGED <<observers, mark, handled, worker>> /\ accepted \subseteq accepted'
    BY DEF PostBegin, ProducerStep, TryAcquireSlot, Claim, Emplace, Publish, ReleaseItem, Undo,
           UndoNotify, history
  <1>2. ~Closing
    BY DEF OwnerInv, At, PostBegin, ProducerStep, TryAcquireSlot, Claim, Emplace, Publish, ReleaseItem,
           Undo, UndoNotify
  <1>3. /\ owner'.then = owner.then
        /\ owner'.pc = owner.pc \/ (owner.pc = "blocked" /\ owner'.pc = "wait")
    <2>1. CASE UndoNotify(p)
      BY <1>0, <2>1 DEF UndoNotify, OwnerWoken
    <2>2. CASE ~UndoNotify(p)
      BY <2>2 DEF PostBegin, ProducerStep, TryAcquireSlot, Claim, Emplace, Publish, ReleaseItem, Undo
    <2> QED BY <2>1, <2>2
  <1>4. owner.pc \notin {"stopping", "waking", "joining", "joined"}
    BY <1>2 DEF OwnerInv
  <1>5. ~Closing'
    BY <1>2, <1>3 DEF Closing
  <1>6. (Flushed' => Flushed) /\ (owner'.pc # "serving" => owner.pc # "serving")
    BY <1>3 DEF Flushed
  <1> QED BY <1>1, <1>3, <1>4, <1>5, <1>6 DEF OwnerInv, NoCallAfterRemoval

\* The worker settles what is pending, and finds no observer after the flush.
LEMMA WorkerOwner ==
    ASSUME TypeOK, CountInv, CallInv, OwnerInv, WorkerStep
    PROVE  OwnerInv'
  <1>0. /\ owner \in [pc : OwnerSteps, loaded : Nat, then : {"served", "stopping"}]
        /\ worker \in [pc : WorkerSteps, event : Events \cup {Empty}, todo : SUBSET Observers]
        /\ handled \in Seq(Events) /\ Len(handled) \in Nat /\ tail \in Nat /\ head \in Nat
    BY DEF TypeOK
  <1>1. UNCHANGED <<observers, mark, accepted, producer>>
    BY DEF WorkerStep, LoopCheck, AcquireItem, AwaitHead, Take, Recycle, FreeSlot, LoadObservers,
           CallObserver, CallsDone, Settle, WorkerNotify, Drain, DrainCheck, history
  <1>2. /\ owner'.then = owner.then
        /\ owner'.pc = owner.pc \/ (owner.pc = "blocked" /\ owner'.pc = "wait")
    <2>1. CASE WorkerNotify
      BY <1>0, <2>1 DEF WorkerNotify, OwnerWoken
    <2>2. CASE ~WorkerNotify
      BY <2>2 DEF WorkerStep, LoopCheck, AcquireItem, AwaitHead, Take, Recycle, FreeSlot, LoadObservers,
           CallObserver, CallsDone, Settle, Drain, DrainCheck
    <2> QED BY <2>1, <2>2
  <1>3. (Flushed' => Flushed) /\ (owner'.pc # "serving" => owner.pc # "serving") /\ (Closing' <=> Closing)
    BY <1>2 DEF Flushed, Closing
  <1>4. pending = 0 => pending' = 0
    <2> SUFFICES ASSUME Settle PROVE pending # 0
      BY DEF WorkerStep, LoopCheck, AcquireItem, AwaitHead, Take, Recycle, FreeSlot, LoadObservers,
           CallObserver, CallsDone, WorkerNotify, Drain, DrainCheck
    <2>1. worker.pc = "settle"
      BY DEF Settle, WorkerAt
    <2>2. pending = (tail - Len(handled)) + 1 + Cardinality(Counted) /\ head <= tail /\ Len(handled) = head
      BY <1>0, <2>1 DEF CountInv, One
    <2> QED BY <1>0, <2>2, CountsType
  <1>5. \A e : (\E i \in 1 .. Len(handled) : handled[i] = e) => \E i \in 1 .. Len(handled') : handled'[i] = e
    <2>1. CASE CallsDone
      <3>1. handled' = Append(handled, worker.event)
        BY <2>1 DEF CallsDone
      <3>2. Len(handled') = Len(handled) + 1 /\ \A i \in 1 .. Len(handled) : handled'[i] = handled[i]
        BY <1>0, <3>1
      <3>3. \A i \in 1 .. Len(handled) : i \in 1 .. Len(handled')
        BY <1>0, <3>2
      <3> QED BY <3>2, <3>3
    <2>2. CASE ~CallsDone
      BY <2>2 DEF WorkerStep, LoopCheck, AcquireItem, AwaitHead, Take, Recycle, FreeSlot, LoadObservers,
           CallObserver, Settle, WorkerNotify, Drain, DrainCheck, history
    <2> QED BY <2>1, <2>2
  <1>6. NoCallAfterRemoval'
    <2> SUFFICES ASSUME Flushed' PROVE worker'.todo = {}
      BY DEF NoCallAfterRemoval
    <2>1. worker.todo = {} /\ observers = {}
      BY <1>3 DEF OwnerInv, NoCallAfterRemoval, Flushed
    <2>2. CASE LoadObservers
      BY <1>0, <2>1, <2>2 DEF LoadObservers
    <2>3. CASE CallObserver
      BY <2>1, <2>3 DEF CallObserver
    <2>4. CASE Take
      BY <1>0, <2>1, <2>4 DEF Take
    <2>5. CASE Settle \/ WorkerNotify
      BY <2>5 DEF Settle, WorkerNotify, AtRest
    <2>6. CASE LoopCheck \/ AcquireItem \/ AwaitHead \/ Recycle \/ FreeSlot \/ CallsDone \/ Drain \/ DrainCheck
      BY <1>0, <2>1, <2>6 DEF LoopCheck, AcquireItem, AwaitHead, Recycle, FreeSlot, CallsDone, Drain,
                              DrainCheck, WorkerGoto
    <2> QED BY <2>2, <2>3, <2>4, <2>5, <2>6 DEF WorkerStep
  <1>7. Closing' => \A q \in Producers : At(q, "idle")'
    BY <1>1, <1>3 DEF OwnerInv, At
  <1>8. owner'.pc \in {"stopping", "waking", "joining", "joined"} => Closing' /\ pending' = 0
    BY <1>2, <1>3, <1>4 DEF OwnerInv
  <1>9. Flushed' => \A e \in mark : \E i \in 1 .. Len(handled') : handled'[i] = e
    BY <1>3, <1>5 DEF OwnerInv
  <1> QED BY <1>1, <1>3, <1>6, <1>7, <1>8, <1>9 DEF OwnerInv

\* When flush finds pending_ at zero, every position is processed and nothing is in hand.
LEMMA PendingZero ==
    ASSUME TypeOK, CountInv, WorkerInv, CallInv, pending = 0
    PROVE  /\ Len(handled) = Len(claimed) /\ worker.todo = {}
           /\ \A e : Claimed(e) => \E i \in 1 .. Len(handled) : handled[i] = e
  <1>0. /\ head \in Nat /\ tail \in Nat /\ Len(handled) \in Nat /\ Len(claimed) = tail /\ head <= tail
    BY DEF TypeOK, CountInv
  <1>1. Len(handled) <= head /\ (worker.pc = "call" => Len(handled) < head)
    BY <1>0 DEF CountInv, One
  <1>2. One(worker.pc = "settle") \in Nat /\ Cardinality(Counted) \in Nat
    BY CountsType DEF One
  <1>3. Len(handled) = tail /\ worker.pc # "call"
    BY <1>0, <1>1, <1>2 DEF CountInv
  <1> QED BY <1>0, <1>3 DEF CallInv, WorkerAt, WorkerInv, Claimed

\* The owner's own steps.
LEMMA OwnerOwner ==
    ASSUME TypeOK, CountInv, WorkerInv, CallInv, EventInv, OwnerInv, OwnerActs
    PROVE  OwnerInv'
  <1>0. owner \in [pc : OwnerSteps, loaded : Nat, then : {"served", "stopping"}]
    BY DEF TypeOK
  <1>w. UNCHANGED <<pending, producer, worker, handled, accepted>>
    BY OwnerTypes
  <1>1. CASE \E o \in Observers : AddObserver(o)
    <2>1. owner.pc = "serving" /\ owner' = owner /\ mark' = mark
      BY <1>1 DEF AddObserver, history
    <2> QED BY <1>w, <2>1 DEF OwnerInv, Closing, Flushed, NoCallAfterRemoval, At
  <1>2. CASE RemoveAndFlush
    <2>1. /\ owner.pc = "serving" /\ owner'.pc = "load" /\ owner'.then = owner.then
          /\ observers' = {} /\ mark' = accepted
      BY <1>0, <1>2 DEF RemoveAndFlush, OwnerGoto
    <2> QED BY <1>w, <2>1 DEF OwnerInv, Closing, Flushed, NoCallAfterRemoval, At
  <1>3. CASE Destroy
    <2>1. /\ owner.pc = "served" /\ owner'.pc = "load" /\ \A q \in Producers : At(q, "idle")
          /\ observers' = observers /\ mark' = accepted
      BY <1>0, <1>3 DEF Destroy
    <2> QED BY <1>w, <2>1 DEF OwnerInv, Closing, Flushed, NoCallAfterRemoval, At
  <1>4. CASE FlushLoad
    <2>1. /\ owner.pc = "load" /\ owner'.pc = (IF pending = 0 THEN owner.then ELSE "wait")
          /\ owner'.then = owner.then /\ observers' = observers /\ mark' = mark
      BY <1>0, <1>4 DEF FlushLoad, FlushDone, history
    <2>2. CASE pending # 0
      BY <1>w, <2>1, <2>2 DEF OwnerInv, Closing, Flushed, NoCallAfterRemoval, At
    <2>3. CASE pending = 0
      <3>1. worker.todo = {} /\ \A e : Claimed(e) => \E i \in 1 .. Len(handled) : handled[i] = e
        BY <2>3, PendingZero
      <3>2. \A e \in mark : \E i \in 1 .. Len(handled) : handled[i] = e
        BY <3>1 DEF OwnerInv, EventInv, TypeOK
      <3>3. owner'.pc \in {"served", "stopping"} /\ owner'.pc = owner.then
        BY <1>0, <2>1, <2>3
      <3> QED BY <1>w, <2>1, <2>3, <3>1, <3>2, <3>3 DEF OwnerInv, Closing, Flushed, NoCallAfterRemoval, At
    <2> QED BY <2>2, <2>3
  <1>5. CASE FlushWait
    <2>1. /\ owner.pc = "wait" /\ owner'.pc \in {"blocked", "load"}
          /\ owner'.then = owner.then /\ observers' = observers /\ mark' = mark
      BY <1>0, <1>5 DEF FlushWait, OwnerGoto, history
    <2> QED BY <1>w, <2>1 DEF OwnerInv, Closing, Flushed, NoCallAfterRemoval, At
  <1>6. CASE RequestStop \/ WakeConsumer \/ Join
    <2>1. /\ owner.pc \in {"stopping", "waking", "joining"} /\ owner'.pc \in {"waking", "joining", "joined"}
          /\ owner'.then = owner.then /\ observers' = observers /\ mark' = mark
      BY <1>0, <1>6 DEF RequestStop, WakeConsumer, Join, OwnerGoto, history
    <2> QED BY <1>w, <2>1 DEF OwnerInv, Closing, Flushed, NoCallAfterRemoval, At
  <1> QED BY <1>1, <1>2, <1>3, <1>4, <1>5, <1>6 DEF OwnerActs, OwnerStep

-----------------------------------------------------------------------------
(* The invariant *)

\* An empty ring: nothing is claimed, and every slot waits for its first position.
LEMMA InitQInv == Init => QInv
  <1> SUFFICES ASSUME Init PROVE QInv
    OBVIOUS
  <1>0. Capacity \in Nat \ {0} /\ MaxPosts \in Nat /\ Empty \notin Nat
    BY QueueAssumption
  <1>p. /\ producer = [p \in Producers |-> NoProducer]
        /\ \A p \in Producers : /\ At(p, "idle") /\ ~Writes(p) /\ ~Holds(p) /\ ~Posting(p)
    BY DEF Init, NoProducer, At, Writes, Holds, Posting
  <1>1. TypeOK
    <2>1. slot \in [0 .. Capacity - 1 -> [sequence : Nat, value : Events \cup {Empty}]]
      BY <1>0 DEF Init
    <2>2. producer \in [Producers -> [pc : ProducerSteps, event : Events \cup {Empty}, pos : Nat]]
      BY <1>p DEF NoProducer, ProducerSteps
    <2>3. /\ worker \in [pc : WorkerSteps, event : Events \cup {Empty}, todo : SUBSET Observers]
          /\ owner \in [pc : OwnerSteps, loaded : Nat, then : {"served", "stopping"}]
      BY DEF Init, AtRest, WorkerSteps, OwnerSteps
    <2>4. claimed \in Seq(Events) /\ handled \in Seq(Events) /\ calls \in Seq(Observers \X Events)
      BY DEF Init
    <2>5. /\ head \in Nat /\ tail \in Nat /\ slots \in 0 .. Capacity /\ items \in Nat /\ pending \in Nat
          /\ posts \in 0 .. MaxPosts
      BY <1>0 DEF Init
    <2>6. /\ observers \subseteq Observers /\ stop \in BOOLEAN
          /\ mark \subseteq Events /\ accepted \subseteq Events /\ dropped \subseteq Events
      BY DEF Init
    <2> QED BY <2>1, <2>2, <2>3, <2>4, <2>5, <2>6 DEF TypeOK
  <1>2. CountInv
    <2>1. Claimers = {} /\ Counted = {}
      BY <1>p DEF Claimers, Counted, At
    <2>2. Cardinality(Claimers) = 0 /\ Cardinality(Counted) = 0
      BY <2>1, FS_EmptySet
    <2>3. /\ head = 0 /\ tail = 0 /\ slots = Capacity /\ pending = 0 /\ worker.pc = "loop"
          /\ Len(claimed) = 0 /\ Len(handled) = 0
      BY DEF Init, AtRest
    <2>4. /\ One(worker.pc = "free") = 0 /\ One(worker.pc = "settle") = 0
          /\ One(worker.pc \in {"free", "dispatch", "call"}) = 0
      BY <2>3 DEF One
    <2>5. worker.pc \notin {"take", "recycle"}
      BY <2>3
    <2> QED BY <1>0, <2>2, <2>3, <2>4, <2>5 DEF CountInv
  <1>3. WriterInv
    BY <1>p DEF WriterInv
  <1>4. SlotInv
    <2>1. ASSUME NEW n \in Nat, n < Capacity
          PROVE  slot[Index(n)].sequence = n /\ slot[Index(n)].value = Empty
      <3>1. Index(n) = n /\ n \in 0 .. Capacity - 1
        BY <1>0, <2>1 DEF Index
      <3> QED BY <3>1 DEF Init
    <2>2. head = 0 /\ tail = 0 /\ worker.pc = "loop"
      BY DEF Init, AtRest
    <2> QED BY <1>0, <2>1, <2>2 DEF SlotInv, WorkerAt
  <1>5. WorkerInv /\ CallInv
    BY DEF Init, WorkerInv, CallInv, AtRest, WorkerAt, ObserversSeeOrder
  <1>6. EventInv /\ UniqueInv
    BY <1>p DEF Init, EventInv, UniqueInv, Claimed
  <1>7. OwnerInv
    BY <1>p DEF Init, OwnerInv, Closing, Flushed, NoCallAfterRemoval, AtRest
  <1> QED BY <1>1, <1>2, <1>3, <1>4, <1>5, <1>6, <1>7 DEF QInv

\* Every step keeps the invariant.
LEMMA StepQInv == QInv /\ [Next]_vars => QInv'
  <1> SUFFICES ASSUME QInv, [Next]_vars PROVE QInv'
    OBVIOUS
  <1>0. TypeOK /\ CountInv /\ WriterInv /\ SlotInv /\ WorkerInv /\ CallInv /\ EventInv /\ UniqueInv /\ OwnerInv
    BY DEF QInv
  <1>1. ASSUME NEW p \in Producers, PostBegin(p) \/ ProducerStep(p) PROVE QInv'
    <2>1. TypeOK' /\ CountInv' /\ WriterInv' /\ SlotInv'
      BY <1>0, <1>1, ProducerTypes, ProducerCounts, ProducerSlots
    <2>2. UNCHANGED <<worker, head, handled, calls>>
      BY <1>1 DEF PostBegin, ProducerStep, TryAcquireSlot, Claim, Emplace, Publish, ReleaseItem, Undo,
           UndoNotify, ring, history
    <2>3. WorkerInv' /\ CallInv'
      BY <1>0, <2>2, WorkerStays
    <2>4. EventInv' /\ UniqueInv' /\ OwnerInv'
      BY <1>0, <1>1, ProducerEvents, ProducerOwner
    <2> QED BY <2>1, <2>3, <2>4 DEF QInv
  <1>2. CASE WorkerStep
    <2>1. TypeOK' /\ CountInv' /\ WriterInv' /\ SlotInv'
      BY <1>0, <1>2, WorkerTypes, WorkerCounts, WorkerSlots
    <2>2. WorkerInv' /\ CallInv' /\ OwnerInv'
      BY <1>0, <1>2, WorkerOrder, WorkerCalls, WorkerOwner
    <2>3. UNCHANGED <<producer, posts, claimed, accepted, dropped>>
      BY <1>2 DEF WorkerStep, LoopCheck, AcquireItem, AwaitHead, Take, Recycle, FreeSlot, LoadObservers,
           CallObserver, CallsDone, Settle, WorkerNotify, Drain, DrainCheck, history
    <2>4. EventInv' /\ UniqueInv'
      BY <1>0, <2>3, EventsStay
    <2> QED BY <2>1, <2>2, <2>4 DEF QInv
  <1>3. ASSUME UNCHANGED <<slot, head, tail, slots, pending, posts, producer, worker, claimed, handled,
                           accepted, dropped, calls>>, TypeOK', OwnerInv'
        PROVE  QInv'
    <2>1. Claimers' = Claimers /\ Counted' = Counted
      BY <1>3, CountsStay
    <2>2. CountInv'
      BY <1>0, <1>3, <2>1 DEF CountInv
    <2>3. \A q \in Producers : (Writes(q)' <=> Writes(q)) /\ producer'[q] = producer[q]
      BY <1>3 DEF Writes
    <2>4. WriterInv' /\ SlotInv'
      BY <1>0, <1>3, <2>3, SlotsStay
    <2>5. WorkerInv' /\ CallInv' /\ EventInv' /\ UniqueInv'
      BY <1>0, <1>3, WorkerStays, EventsStay
    <2> QED BY <1>3, <2>2, <2>4, <2>5 DEF QInv
  <1>4. CASE OwnerActs
    BY <1>0, <1>3, <1>4, OwnerTypes, OwnerOwner
  <1>5. CASE UNCHANGED vars
    <2>1. TypeOK'
      BY <1>0, <1>5 DEF TypeOK, vars
    <2>2. OwnerInv'
      BY <1>0, <1>5 DEF OwnerInv, vars, Closing, Flushed, NoCallAfterRemoval, At
    <2> QED BY <1>3, <1>5, <2>1, <2>2 DEF vars
  <1> QED BY <1>1, <1>2, <1>4, <1>5 DEF Next, OwnerActs

\* The invariant holds always.
THEOREM QueueInvariant == Spec => []QInv
  BY InitQInv, StepQInv, PTL DEF Spec
-----------------------------------------------------------------------------
(* What follows from it *)

\* For every capacity and any number of producers, posts and observers the ring is intact: events
\* are processed in the order of tail_, a producer finds its slot empty and the worker a value in
\* it, and every observer is called in that order (MpscRing::try_push, pop_item, dispatch).
THEOREM RingStaysIntact == Spec => []RingIntact
  <1>1. QInv => RingIntact
    <2> SUFFICES ASSUME QInv PROVE RingIntact
      OBVIOUS
    <2>0. /\ TypeOK /\ head \in Nat /\ tail \in Nat /\ claimed \in Seq(Events) /\ handled \in Seq(Events)
          /\ Len(claimed) = tail /\ Len(handled) \in Nat /\ Len(handled) <= tail
          /\ head <= tail /\ Empty \notin Events
          /\ producer \in [Producers -> [pc : ProducerSteps, event : Events \cup {Empty}, pos : Nat]]
          /\ worker.pc \in {"recycle", "free", "dispatch", "call"} => Len(handled) + 1 <= tail
          /\ worker.pc \in {"take", "recycle"} => head < tail
      <3>1. TypeOK /\ CountInv /\ Empty \notin Events
        BY QueueAssumption DEF QInv, Events
      <3>2. /\ head \in Nat /\ tail \in Nat /\ claimed \in Seq(Events) /\ handled \in Seq(Events)
            /\ Len(handled) \in Nat
            /\ producer \in [Producers -> [pc : ProducerSteps, event : Events \cup {Empty}, pos : Nat]]
        BY <3>1 DEF TypeOK
      <3> QED BY <3>1, <3>2 DEF CountInv, One
    <2>1. ASSUME NEW n \in head .. tail - 1, slot[Index(n)].sequence = n + 1
          PROVE  /\ \A q \in Producers : Writes(q) => producer[q].pos # n
                 /\ ~(WorkerAt("recycle") /\ n = head) => slot[Index(n)].value = claimed[n + 1]
      <3>1. n \in Nat /\ head <= n /\ n < tail
        BY <2>0
      <3>2. \A q \in Producers : Writes(q) => producer[q].pos # n
        BY <2>0, <2>1, <3>1 DEF QInv, WriterInv
      <3>3. ~(WorkerAt("recycle") /\ n = head) => n > head \/ ~WorkerAt("recycle")
        BY <2>0, <3>1
      <3> QED BY <3>1, <3>2, <3>3 DEF QInv, SlotInv
    <2>2. handled \o InHand = SubSeq(claimed, 1, Len(handled \o InHand))
      <3> DEFINE k == Len(handled \o InHand)
                 left == handled \o InHand
                 right == SubSeq(claimed, 1, k)
      <3>1. /\ left \in Seq(Events) /\ k \in 0 .. tail
            /\ \A i \in 1 .. k : left[i] = claimed[i]
        <4>1. CASE worker.pc \in {"recycle", "free", "dispatch", "call"}
          <5>1. worker.event = claimed[Len(handled) + 1] /\ Len(handled) + 1 \in 1 .. Len(claimed)
            BY <2>0, <4>1 DEF QInv, WorkerInv
          <5>2. worker.event \in Events /\ InHand = <<worker.event>>
            BY <2>0, <4>1, <5>1 DEF InHand
          <5>3. left = Append(handled, worker.event)
            BY <2>0, <5>2
          <5>4. /\ left \in Seq(Events) /\ k = Len(handled) + 1 /\ left[Len(handled) + 1] = worker.event
                /\ \A i \in 1 .. Len(handled) : left[i] = handled[i]
            BY <2>0, <5>2, <5>3, AppendProperties
          <5>5. k \in 0 .. tail
            BY <2>0, <4>1, <5>4
          <5>6. ASSUME NEW i \in 1 .. k PROVE left[i] = claimed[i]
            <6>1. i = Len(handled) + 1 \/ i \in 1 .. Len(handled)
              BY <2>0, <5>4
            <6> QED BY <5>1, <5>4, <6>1 DEF QInv, WorkerInv
          <5> QED BY <5>4, <5>5, <5>6
        <4>2. CASE worker.pc \notin {"recycle", "free", "dispatch", "call"}
          <5>1. InHand = <<>>
            BY <4>2 DEF InHand
          <5>2. left = handled
            BY <2>0, <5>1
          <5> QED BY <2>0, <5>2 DEF QInv, WorkerInv
        <4> QED BY <4>1, <4>2
      <3> HIDE DEF k, left
      <3>2. /\ right \in Seq(Events) /\ Len(right) = k
            /\ \A i \in 1 .. k : right[i] = claimed[i]
        BY <2>0, <3>1
      <3>3. Len(left) = k
        BY DEF k, left
      <3>4. left = right
        BY <3>1, <3>2, <3>3, SeqEqual
      <3> QED BY <3>4 DEF k, left
    <2>3. PositionOrder
      BY <2>1, <2>2 DEF PositionOrder
    <2>4. SlotsAreExclusive
      <3>1. \A p \in Producers : At(p, "emplace") => slot[Index(producer[p].pos)].value = Empty
        BY DEF QInv, WriterInv, Writes, At
      <3>2. ASSUME WorkerAt("take") PROVE slot[Index(head)].value # Empty
        <4>1. head \in head .. tail - 1 /\ slot[Index(head)].sequence = head + 1 /\ head + 1 \in 1 .. Len(claimed)
          BY <2>0, <3>2 DEF QInv, SlotInv, WorkerAt
        <4>2. slot[Index(head)].value = claimed[head + 1]
          BY <2>1, <3>2, <4>1 DEF WorkerAt
        <4> QED BY <2>0, <4>1, <4>2
      <3> QED BY <3>1, <3>2 DEF SlotsAreExclusive
    <2> QED BY <2>0, <2>3, <2>4 DEF RingIntact, QInv, CallInv
  <1> QED BY <1>1, QueueInvariant, PTL

\* When flush has returned, what was posted before is processed and no removed observer is called
\* any more; when the destructor has returned, every event was processed or refused to its caller.
THEOREM CallsAreComplete == Spec => []CallsComplete
  <1>1. QInv => CallsComplete
    <2> SUFFICES ASSUME QInv PROVE CallsComplete
      OBVIOUS
    <2>0. \A e : e \in ToSet(handled) <=> \E i \in 1 .. Len(handled) : handled[i] = e
      BY DEF ToSet, QInv, TypeOK
    <2>1. FlushMeansProcessed /\ NoCallAfterRemoval
      BY <2>0 DEF QInv, OwnerInv, FlushMeansProcessed
    <2>2. ASSUME owner.pc = "joined"
          PROVE  ToSet(handled) = accepted /\ accepted \cup dropped = 1 .. posts
      <3>1. pending = 0 /\ \A p \in Producers : At(p, "idle")
        BY <2>2 DEF QInv, OwnerInv
      <3>2. \A p \in Producers : ~Holds(p) /\ ~Posting(p)
        BY <3>1 DEF At, Holds, Posting
      <3>3. accepted \cup dropped = 1 .. posts
        BY <3>2 DEF QInv, EventInv
      <3>4. \A e \in Events : Claimed(e) <=> e \in accepted
        BY <3>2 DEF QInv, EventInv
      <3>5. Len(handled) = Len(claimed) /\ \A e : Claimed(e) => \E i \in 1 .. Len(handled) : handled[i] = e
        BY <3>1, PendingZero DEF QInv
      <3>6. \A e : (\E i \in 1 .. Len(handled) : handled[i] = e) => Claimed(e) /\ e \in Events
        BY <3>5 DEF QInv, WorkerInv, Claimed, TypeOK
      <3>7. accepted \subseteq Events
        BY DEF QInv, TypeOK
      <3> QED BY <2>0, <3>3, <3>4, <3>5, <3>6, <3>7
    <2> QED BY <2>1, <2>2 DEF CallsComplete, NothingLost
  <1> QED BY <1>1, QueueInvariant, PTL

\* No event has two positions, so none is processed twice and no observer gets it twice.
EachOnce ==
    /\ \A i, j \in 1 .. Len(handled) : i # j => handled[i] # handled[j]
    /\ \A i, j \in 1 .. Len(calls) : i # j /\ calls[i][1] = calls[j][1] => calls[i][2] # calls[j][2]

\* An event that was accepted is processed once, and an observer is told of it once at most, however
\* the producers interleave (tail_.fetch_add gives every position to one post).
THEOREM EventsComeOnce == Spec => []EachOnce
  <1>1. QInv => EachOnce
    <2> SUFFICES ASSUME QInv PROVE EachOnce
      OBVIOUS
    <2>0. /\ \A i, j \in 1 .. Len(claimed) : i # j => claimed[i] # claimed[j]
          /\ Len(handled) \in Nat /\ Len(claimed) \in Nat /\ Len(calls) \in Nat
          /\ \A i \in 1 .. Len(handled) : handled[i] = claimed[i]
      BY DEF QInv, UniqueInv, WorkerInv, TypeOK
    <2>1. Len(handled) <= Len(claimed)
      BY <2>0 DEF QInv, CountInv, TypeOK, One
    <2>2. \A i, j \in 1 .. Len(handled) : i # j => handled[i] # handled[j]
      BY <2>0, <2>1
    <2>3. ASSUME NEW i \in 1 .. Len(calls), NEW j \in 1 .. Len(calls), i < j, calls[i][1] = calls[j][1]
          PROVE  calls[i][2] # calls[j][2]
      <3>1. PICK m \in 1 .. Len(claimed), n \in 1 .. Len(claimed) :
                 m < n /\ claimed[m] = calls[i][2] /\ claimed[n] = calls[j][2]
        BY <2>3 DEF QInv, CallInv, ObserversSeeOrder
      <3> QED BY <2>0, <3>1
    <2>4. \A i, j \in 1 .. Len(calls) : i # j => i < j \/ j < i
      BY <2>0
    <2> QED BY <2>2, <2>3, <2>4 DEF EachOnce
  <1> QED BY <1>1, QueueInvariant, PTL
-----------------------------------------------------------------------------
\* The queue of the abstract specification: what has a position and is not processed.
Waiting == SubSeq(claimed, Len(handled) + 1, Len(claimed))

\* The elements of a suffix.
LEMMA Suffix ==
    ASSUME NEW S, NEW s \in Seq(S), NEW k \in Nat, k <= Len(s)
    PROVE  /\ SubSeq(s, k + 1, Len(s)) \in Seq(S) /\ Len(SubSeq(s, k + 1, Len(s))) = Len(s) - k
           /\ \A i \in 1 .. Len(s) - k : SubSeq(s, k + 1, Len(s))[i] = s[k + i]
  <1>1. \A i \in k + 1 .. Len(s) : s[i] \in S
    OBVIOUS
  <1>2. /\ SubSeq(s, k + 1, Len(s)) \in Seq(S)
        /\ Len(SubSeq(s, k + 1, Len(s))) = IF k + 1 <= Len(s) THEN Len(s) - (k + 1) + 1 ELSE 0
        /\ \A i \in 1 .. Len(s) - (k + 1) + 1 : SubSeq(s, k + 1, Len(s))[i] = s[k + 1 + i - 1]
    BY <1>1, SubSeqProperties
  <1> QED BY <1>2

\* Appending to the whole appends to the suffix.
LEMMA SuffixAppend ==
    ASSUME NEW S, NEW s \in Seq(S), NEW k \in Nat, k <= Len(s), NEW e \in S
    PROVE  SubSeq(Append(s, e), k + 1, Len(Append(s, e))) = Append(SubSeq(s, k + 1, Len(s)), e)
  <1> DEFINE t == Append(s, e)
             left == SubSeq(t, k + 1, Len(t))
             old == SubSeq(s, k + 1, Len(s))
             right == Append(old, e)
  <1>1. /\ t \in Seq(S) /\ Len(t) = Len(s) + 1 /\ t[Len(s) + 1] = e
        /\ \A i \in 1 .. Len(s) : t[i] = s[i]
    BY AppendProperties
  <1>2. old \in Seq(S) /\ Len(old) = Len(s) - k /\ \A i \in 1 .. Len(s) - k : old[i] = s[k + i]
    BY Suffix
  <1> HIDE DEF t, old
  <1>3. /\ left \in Seq(S) /\ Len(left) = Len(s) + 1 - k
        /\ \A i \in 1 .. Len(s) + 1 - k : left[i] = t[k + i]
    <2>1. k <= Len(t)
      BY <1>1
    <2> QED BY <1>1, <2>1, Suffix
  <1>4. /\ right \in Seq(S) /\ Len(right) = Len(s) + 1 - k /\ right[Len(s) + 1 - k] = e
        /\ \A i \in 1 .. Len(s) - k : right[i] = old[i]
    BY <1>2, AppendProperties
  <1> HIDE DEF left, right
  <1>5. ASSUME NEW i \in 1 .. Len(left) PROVE left[i] = right[i]
    <2>1. i \in 1 .. Len(s) + 1 - k
      BY <1>3
    <2>2. CASE i = Len(s) + 1 - k
      BY <1>1, <1>3, <1>4, <2>1, <2>2
    <2>3. CASE i # Len(s) + 1 - k
      <3>1. i \in 1 .. Len(s) - k /\ k + i \in 1 .. Len(s)
        BY <2>1, <2>3
      <3> QED BY <1>1, <1>2, <1>3, <1>4, <2>1, <3>1
    <2> QED BY <2>2, <2>3
  <1>6. left = right
    BY <1>3, <1>4, <1>5, SeqEqual
  <1> QED BY <1>6 DEF left, right, t, old

\* The queue implements a bounded first-in first-out queue, its liveness aside: tail_.fetch_add puts
\* an event at the end when there is room, the end of its processing takes the first, and no other
\* step touches it.  Publication in another order than that of the positions is invisible.
THEOREM EventsAreAQueue == Spec => Queue!Init /\ [][Queue!Next]_<<Waiting, handled>>
  <1>1. Init => Queue!Init
    BY DEF Init, Queue!Init
  <1>2. QInv /\ [Next]_vars => [Queue!Next]_<<Waiting, handled>>
    <2> SUFFICES ASSUME QInv, [Next]_vars PROVE [Queue!Next]_<<Waiting, handled>>
      OBVIOUS
    <2>0. /\ TypeOK /\ CountInv /\ claimed \in Seq(Events) /\ handled \in Seq(Events)
          /\ head \in Nat /\ tail \in Nat /\ Capacity \in Nat /\ slots \in Nat
          /\ Len(handled) \in Nat /\ Len(claimed) = tail
      <3>1. TypeOK /\ CountInv
        BY DEF QInv
      <3>2. Capacity \in Nat /\ 0 .. Capacity \subseteq Nat
        BY QueueAssumption
      <3>3. /\ claimed \in Seq(Events) /\ handled \in Seq(Events)
            /\ head \in Nat /\ tail \in Nat /\ slots \in Nat
        BY <3>1, <3>2 DEF TypeOK
      <3>4. Len(claimed) = tail
        BY <3>1 DEF CountInv
      <3> QED BY <3>1, <3>2, <3>3, <3>4
    <2>l. Len(handled) <= tail /\ Len(handled) >= head - 1
          /\ (worker.pc \notin {"free", "dispatch", "call"} => Len(handled) = head)
          /\ (worker.pc = "call" => Len(handled) + 1 <= tail)
      BY <2>0 DEF CountInv, One
    <2>1. ASSUME NEW p \in Producers, Claim(p) PROVE Queue!Next
      <3>1. /\ At(p, "claim") /\ claimed' = Append(claimed, producer[p].event) /\ handled' = handled
        BY <2>1 DEF Claim
      <3>2. producer[p].event \in Events
        BY <3>1, QueueAssumption DEF QInv, EventInv, At, TypeOK, Events
      <3>3. Waiting' = Append(Waiting, producer[p].event)
        <4>1. Len(handled) <= Len(claimed)
          BY <2>0, <2>l
        <4>2. SubSeq(Append(claimed, producer[p].event), Len(handled) + 1, Len(Append(claimed, producer[p].event)))
                = Append(SubSeq(claimed, Len(handled) + 1, Len(claimed)), producer[p].event)
          BY <2>0, <3>2, <4>1, SuffixAppend, ZenonT(60)
        <4> QED BY <3>1, <4>2 DEF Waiting
      <3>4. Len(Waiting) = tail - Len(handled)
        BY <2>0, <2>l, Suffix DEF Waiting
      <3>5. tail - head < Capacity
        <4>1. One(worker.pc = "free") \in Nat
          BY DEF One
        <4>2. Cardinality(Claimers) \in Nat /\ Cardinality(Claimers) > 0
          BY <3>1, CountsType
        <4>3. slots + Cardinality(Claimers) + (tail - head) + One(worker.pc = "free") = Capacity
          BY <2>0 DEF CountInv
        <4> QED BY <2>0, <4>1, <4>2, <4>3
      <3>6. Len(Waiting) < Capacity + 1
        BY <2>0, <2>l, <3>4, <3>5
      <3> QED BY <3>1, <3>2, <3>3, <3>6 DEF Queue!Next, Queue!Put, Waiting
    <2>2. CASE CallsDone
      <3>1. /\ worker.pc = "call" /\ worker.event = claimed[Len(handled) + 1]
            /\ handled' = Append(handled, worker.event) /\ claimed' = claimed
        BY <2>2 DEF CallsDone, WorkerAt, QInv, WorkerInv
      <3>2. Len(handled) + 1 \in 1 .. Len(claimed)
        BY <2>0, <2>l, <3>1
      <3>3. worker.event \in Events /\ Len(handled') = Len(handled) + 1
        BY <2>0, <3>1, <3>2
      <3>4. /\ Head(Waiting) = claimed[Len(handled) + 1]
            /\ Tail(Waiting) = SubSeq(claimed, Len(handled) + 1 + 1, Len(claimed))
        <4>1. Len(claimed) \in Len(handled) + 1 .. Len(claimed)
          BY <2>0, <3>2
        <4> QED BY <2>0, <3>2, <4>1, HeadTailOfSubSeq DEF Waiting
      <3>5. Len(Waiting) = tail - Len(handled)
        BY <2>0, <2>l, Suffix DEF Waiting
      <3>6. Waiting # <<>>
        BY <2>0, <3>2, <3>5
      <3> QED BY <3>1, <3>3, <3>4, <3>6 DEF Queue!Next, Queue!Take, Waiting
    <2>3. ASSUME UNCHANGED <<claimed, handled>> PROVE UNCHANGED <<Waiting, handled>>
      BY <2>3 DEF Waiting
    <2>4. ASSUME NEW p \in Producers, PostBegin(p) \/ ProducerStep(p), ~Claim(p)
          PROVE  UNCHANGED <<claimed, handled>>
      BY <2>4 DEF PostBegin, ProducerStep, TryAcquireSlot, Emplace, Publish, ReleaseItem, Undo,
           UndoNotify, history
    <2>5. WorkerStep /\ ~CallsDone => UNCHANGED <<claimed, handled>>
      BY DEF WorkerStep, LoopCheck, AcquireItem, AwaitHead, Take, Recycle, FreeSlot, LoadObservers,
           CallObserver, Settle, WorkerNotify, Drain, DrainCheck, history
    <2>6. OwnerActs => UNCHANGED <<claimed, handled>>
      BY <2>0, OwnerTypes
    <2>7. UNCHANGED vars => UNCHANGED <<claimed, handled>>
      BY DEF vars
    <2> QED BY <2>1, <2>2, <2>3, <2>4, <2>5, <2>6, <2>7 DEF Next, OwnerActs
  <1> QED BY <1>1, <1>2, QueueInvariant, PTL DEF Spec
==============================================================================
