------------------------ MODULE FileOrderStore_proofs ------------------------
(***************************************************************************)
(* Proofs about the order journal, for every number of callers, orders,    *)
(* records and crashes and every journal an earlier process may have left: *)
(* what was acknowledged survives every crash, the generation that the     *)
(* sync worker publishes is covered by an fdatasync, numbers are unique    *)
(* and the indexed snapshot of an order is never older than one that was   *)
(* acknowledged.                                                           *)
(***************************************************************************)
EXTENDS FileOrderStore, FiniteSetTheorems, SequenceTheorems, WellFoundedInduction, TLAPS

(***************************************************************************)
(* The inductive invariant                                                 *)
(***************************************************************************)
Tokens == Records \cup {NewLine}
ThreadType == [pc : {"idle", "write", "index", "signal", "notify"},
               op : Operations \cup {"none"}, record : Records \cup {NoRecord},
               done : 0 .. 3, gen : Nat]
AckType == [seq : Nat \ {0}, gen : Nat, op : Operations, id : Orders \cup {NoOrder}]

\* The types, without the bounds that a model run sets and without the caches of events.
Types ==
    /\ file \in Seq(Tokens)
    /\ durable \in 0 .. Len(file)
    /\ next \in Nat \ {0}
    /\ latest \in [Orders -> Nat]
    /\ generation \in Nat /\ synced \in Nat
    /\ stop \in BOOLEAN /\ torn \in BOOLEAN /\ syncFailed \in BOOLEAN
    /\ thread \in [Threads -> ThreadType]
    /\ worker \in [pc : WorkerSteps, target : Nat, upTo : Nat]
    /\ mode \in {"open", "closing", "closed", "down", "refused"}
    /\ acked \subseteq AckType
    /\ \A a \in acked : a.op = "append_order" => a.id \in Orders

\* The store exists.
Up == mode \in {"open", "closing", "closed"}

\* A call has taken its number and written nothing; it has written a part of its line.
Pending(t) == thread[t].pc = "write" /\ thread[t].done = 0
MidWrite(t) == thread[t].pc = "write" /\ thread[t].done > 0

\* Calls exist in an open store only, one at a time has a part of its line in the file, and a
\* record is the one its operation writes.
ThreadInv ==
    /\ \A t \in Threads : thread[t].pc = "idle" => thread[t] = Idle
    /\ \A t \in Threads : thread[t].pc # "idle" =>
        /\ mode = "open"
        /\ thread[t].record \in Records /\ thread[t].record.whole
        /\ thread[t].record.seq < next
        /\ thread[t].op \in Operations
        /\ thread[t].op = "append_order" =>
            thread[t].record.type = "order"
        /\ thread[t].record.type = "order" => thread[t].record.id \in Orders
        /\ thread[t].op # "append_event" => thread[t].record.id \in Orders
    /\ \A t \in Threads : thread[t].pc = "write" => thread[t].done \in 0 .. 2
    /\ \A t, u \in Threads : MidWrite(t) /\ MidWrite(u) => t = u

\* The record at i is whole and ended by its newline.
Complete(i) == file[i] # NewLine /\ file[i].whole /\ file[i + 1] = NewLine

\* Numbers: those of waiting calls are new, and all are below the next one.
NumberInv ==
    /\ NumbersAreUnique
    /\ Up => \A i \in 1 .. Len(file) : file[i] # NewLine => file[i].seq < next
    /\ \A t \in Threads : Pending(t) =>
        \A i \in 1 .. Len(file) : file[i] # NewLine => file[i].seq # thread[t].record.seq
    /\ \A t, u \in Threads : Pending(t) /\ Pending(u) /\ t # u =>
        thread[t].record.seq # thread[u].record.seq

\* What a call has written is where it left it.
WrittenInv ==
    /\ \A t \in Threads : MidWrite(t) =>
        /\ Len(file) > 0
        /\ file[Len(file)] # NewLine /\ file[Len(file)].seq = thread[t].record.seq
    /\ \A t \in Threads : thread[t].pc \in {"index", "signal", "notify"} =>
        \E i \in 1 .. Len(file) - 1 : file[i] = thread[t].record /\ file[i + 1] = NewLine

\* The appends that signal_sync has counted, with their generations.
Signed ==
    {<<a.seq, a.gen>> : a \in {b \in acked : b.gen > 0}}
      \cup {<<thread[t].record.seq, thread[t].gen>> : t \in {u \in Threads : thread[u].pc = "notify"}}

\* The line with number s ends within the first n tokens of f; those of the generations up to g.
Stored(f, s, n) == \E i \in 1 .. Len(f) - 1 :
    i < n /\ f[i] # NewLine /\ f[i].whole /\ f[i + 1] = NewLine /\ f[i].seq = s
Covered(S, f, g, n) == \A x \in S : x[2] <= g => Stored(f, x[1], n)

\* The worker and the destructor.
WorkerInv ==
    /\ Up => /\ stop <=> mode # "open"
             /\ worker.pc \in {"final", "finalFlushed", "ended"} => stop
             /\ mode = "closed" => worker.pc = "ended"
             /\ synced <= generation
             /\ worker.pc \in {"flush", "flushed"} => worker.target <= generation
             /\ worker.pc \in {"flushed", "finalFlushed"} => worker.upTo <= Len(file)
    /\ ~Up => synced = 0

\* What each generation covers.
SyncInv ==
    Up => /\ \A x \in Signed : x[2] \in 1 .. generation
          /\ Covered(Signed, file, generation, Len(file))
          /\ ~syncFailed => Covered(Signed, file, synced, durable)
          /\ worker.pc = "flushed" => Covered(Signed, file, worker.target, worker.upTo)
          /\ worker.pc = "finalFlushed" => Covered(Signed, file, generation, worker.upTo)
          /\ worker.pc = "ended" /\ ~syncFailed => Covered(Signed, file, generation, durable)

\* The record of an acknowledged append: for append_order it is a snapshot of its order.
RecordOf(a, r) ==
    /\ r.seq = a.seq
    /\ a.op = "append_order" => r.type = "order" /\ r.id = a.id

\* Lines that no failed write has broken: only the last token can be something else.
WellFormed(f) == \A i \in 1 .. Len(f) - 1 :
    f[i] # NewLine => f[i].whole /\ f[i + 1] = NewLine
Ended(f) == Len(f) = 0 \/ f[Len(f)] = NewLine

\* What a restart would find.
Survives(f, A) ==
    /\ ~InvalidRecord(f)
    /\ \A a \in A : \E i \in Starts(f) : Valid(f, i) /\ RecordOf(a, f[i])
SurviveInv ==
    ~torn => /\ ~Up => Survives(file, acked)
             /\ Up => /\ WellFormed(file)
                      /\ (\A t \in Threads : ~MidWrite(t)) => Ended(file)
                      /\ \A a \in acked : \E i \in 1 .. Len(file) - 1 :
                            Complete(i) /\ RecordOf(a, file[i])

\* append_order indexes its record before it signals.
LatestInv ==
    Up /\ ~torn =>
        /\ \A a \in acked : a.op = "append_order" => latest[a.id] >= a.seq
        /\ \A t \in Threads : thread[t].pc \in {"signal", "notify"} /\ thread[t].op = "append_order"
                => latest[thread[t].record.id] >= thread[t].record.seq

StoreInv ==
    /\ Types /\ ThreadInv /\ NumberInv /\ WrittenInv
    /\ WorkerInv /\ SyncInv /\ SurviveInv /\ LatestInv

(***************************************************************************)
(* Maxima                                                                  *)
(***************************************************************************)
\* A finite set of integers that is not empty has a greatest element: a smallest one without
\* would have a member whose removal leaves one.
LEMMA FiniteHasMax ==
    ASSUME NEW S \in SUBSET Int, IsFiniteSet(S), S # {}
    PROVE  \E x \in S : \A y \in S : x >= y
<1> DEFINE HasMax(A) == \E x \in A : \A y \in A : x >= y
           T == {A \in FiniteSubsetsOf(S) : A # {} /\ ~HasMax(A)}
<1>1. SUFFICES ASSUME ~HasMax(S) PROVE FALSE
  BY <1>1
<1>2. IsWellFoundedOn(StrictSubsetOrdering(S), FiniteSubsetsOf(S))
  BY FS_StrictSubsetOrderingWellFounded
<1>3. T # {} /\ T \subseteq FiniteSubsetsOf(S)
  BY <1>1 DEF FiniteSubsetsOf
<1>4. PICK A \in T : \A B \in T : <<B, A>> \notin StrictSubsetOrdering(S)
  <2> HIDE DEF T
  <2> QED BY <1>2, <1>3, WFMin
<1>5. PICK x \in A : TRUE
  BY <1>4
<1>6. A \in SUBSET Int /\ IsFiniteSet(A) /\ A \subseteq S
  BY <1>4 DEF FiniteSubsetsOf
<1>7. A \ {x} \in FiniteSubsetsOf(S)
  BY <1>6, FS_RemoveElement DEF FiniteSubsetsOf
<1>8. <<A \ {x}, A>> \in StrictSubsetOrdering(S)
  BY <1>5, <1>6 DEF StrictSubsetOrdering
<1>9. A \ {x} = {} \/ HasMax(A \ {x})
  BY <1>4, <1>7, <1>8
<1>10. CASE A \ {x} = {}
  BY <1>4, <1>5, <1>6, <1>10
<1>11. CASE HasMax(A \ {x})
  <2>1. PICK m \in A \ {x} : \A y \in A \ {x} : m >= y
    BY <1>11
  <2>2. CASE m >= x
    BY <1>4, <2>1, <2>2
  <2>3. CASE ~(m >= x)
    <3>1. \A y \in A : x >= y
      BY <1>5, <1>6, <2>1, <2>3
    <3> QED BY <1>4, <1>5, <3>1
  <2> QED BY <2>2, <2>3
<1> QED BY <1>9, <1>10, <1>11

LEMMA MaxProperties ==
    ASSUME NEW S \in SUBSET Int, IsFiniteSet(S), S # {}
    PROVE  Max(S) \in S /\ \A y \in S : Max(S) >= y
<1>1. PICK x \in S : \A y \in S : x >= y
  BY FiniteHasMax
<1> QED BY <1>1, Zenon DEF Max

\* The numbers of a part of the file have a maximum.
LEMMA MaxOfNumbers ==
    ASSUME NEW f \in Seq(Tokens), NEW P \in SUBSET (1 .. Len(f))
    PROVE  /\ Max({f[i].seq : i \in P} \cup {0}) \in Nat
           /\ \A i \in P : f[i].seq <= Max({f[i2].seq : i2 \in P} \cup {0})
<1> DEFINE T == {f[i].seq : i \in P}
           g == [i \in P |-> f[i].seq]
<1>1. \A i \in P : f[i] \in Tokens
  OBVIOUS
<1>2. \A r \in Tokens : r.seq \in Nat
  BY DEF Tokens, Records, NewLine
<1>3. T \in SUBSET Nat
  BY <1>1, <1>2
<1>4. IsFiniteSet(P)
  <2>1. IsFiniteSet(1 .. Len(f))
    BY FS_Interval
  <2> QED BY <2>1, FS_Subset
<1>5. g \in Surjection(P, T)
  BY DEF Surjection
<1>6. IsFiniteSet(T)
  <2> HIDE DEF T, g
  <2> QED BY <1>4, <1>5, FS_Surjection
<1>7. IsFiniteSet(T \cup {0})
  <2> HIDE DEF T
  <2> QED BY <1>6, FS_AddElement
<1>8. Max(T \cup {0}) \in T \cup {0} /\ \A y \in T \cup {0} : Max(T \cup {0}) >= y
  <2>1. PICK U : U = T \cup {0}
    OBVIOUS
  <2>2. U \in SUBSET Int /\ U # {}
    BY <1>3, <2>1
  <2>3. IsFiniteSet(U)
    BY <1>7, <2>1
  <2>4. Max(U) \in U /\ \A y \in U : Max(U) >= y
    BY <2>2, <2>3, MaxProperties, Zenon
  <2> HIDE DEF T
  <2> QED BY <2>1, <2>4, Zenon
<1>9. Max(T \cup {0}) \in Nat
  <2>1. PICK m : m = Max(T \cup {0})
    OBVIOUS
  <2>2. m \in T \cup {0}
    BY <1>8, <2>1, Zenon
  <2>3. m \in Nat
    BY <1>3, <2>2
  <2> QED BY <2>1, <2>3, Zenon
<1>10. \A i \in P : f[i].seq <= Max(T \cup {0})
  <2>1. SUFFICES ASSUME NEW i \in P PROVE f[i].seq <= Max(T \cup {0})
    OBVIOUS
  <2>2. f[i].seq \in T
    OBVIOUS
  <2> HIDE DEF T
  <2> QED BY <1>3, <1>8, <1>9, <2>2
<1> QED BY <1>9, <1>10

(***************************************************************************)
(* Lines and their repair                                                  *)
(***************************************************************************)
LEMMA LastStart ==
    ASSUME NEW f \in Seq(Tokens), Starts(f) # {}
    PROVE  /\ Max(Starts(f)) \in 1 .. Len(f)
           /\ Max(Starts(f)) \in Starts(f)
           /\ \A i \in Starts(f) : i <= Max(Starts(f))
<1>1. Starts(f) \in SUBSET (1 .. Len(f))
  BY DEF Starts
<1>2. IsFiniteSet(1 .. Len(f))
  BY FS_Interval
<1>3. IsFiniteSet(Starts(f))
  BY <1>1, <1>2, FS_Subset
<1>4. Starts(f) \in SUBSET Int
  BY <1>1
<1>5. Max(Starts(f)) \in Starts(f) /\ \A y \in Starts(f) : Max(Starts(f)) >= y
  BY <1>3, <1>4, MaxProperties, Zenon
<1> QED BY <1>1, <1>5

\* Where every line up to a record is valid, the record is a line.
LEMMA RecordIsLine ==
    ASSUME NEW f \in Seq(Tokens), NEW i \in 1 .. Len(f), f[i] # NewLine,
           \A s \in Starts(f) : s <= i => Valid(f, s)
    PROVE  i \in Starts(f) /\ Valid(f, i)
<1> DEFINE N == {j \in 1 .. i : f[j] = NewLine}
<1>1. CASE N = {}
  <2>1. 1 \in Starts(f) /\ Valid(f, 1)
    BY <1>1 DEF Starts
  <2>2. i = 1
    BY <1>1, <2>1 DEF Valid
  <2> QED BY <2>1, <2>2
<1>2. CASE N # {}
  <2>1. IsFiniteSet(1 .. i)
    BY FS_Interval
  <2>2. IsFiniteSet(N)
    BY <2>1, FS_Subset
  <2>3. PICK m \in N : \A y \in N : m >= y
    <3>1. N \in SUBSET Int
      OBVIOUS
    <3> HIDE DEF N
    <3> QED BY <1>2, <2>2, <3>1, FiniteHasMax
  <2>4. m \in 1 .. i /\ m # i /\ f[m] = NewLine
    OBVIOUS
  <2>5. f[m + 1] # NewLine
    BY <2>3, <2>4
  <2>6. m + 1 \in Starts(f) /\ Valid(f, m + 1)
    BY <2>4, <2>5 DEF Starts
  <2>7. i = m + 1
    <3>1. SUFFICES ASSUME i # m + 1 PROVE FALSE
      OBVIOUS
    <3>2. m + 1 + 1 \in 1 .. i /\ m + 1 # Len(f)
      BY <2>4, <3>1
    <3>3. f[m + 1 + 1] = NewLine
      BY <2>6, <3>2 DEF Valid
    <3> QED BY <2>3, <2>4, <3>2, <3>3
  <2> QED BY <2>6, <2>7
<1> QED BY <1>1, <1>2

\* After the repair every record is a line that was valid, and every valid line is kept.
LEMMA RepairedLines ==
    ASSUME NEW f \in Seq(Tokens), ~InvalidRecord(f)
    PROVE  /\ Repaired(f) \in Seq(Tokens)
           /\ \A i \in 1 .. Len(Repaired(f)) : Repaired(f)[i] # NewLine =>
                /\ i \in Starts(f) /\ Valid(f, i) /\ Repaired(f)[i] = f[i]
                /\ i < Len(Repaired(f)) /\ Repaired(f)[i + 1] = NewLine
           /\ \A i \in Starts(f) : Valid(f, i) =>
                /\ i \in 1 .. Len(Repaired(f)) - 1
                /\ Repaired(f)[i] = f[i] /\ Repaired(f)[i + 1] = NewLine
<1>0. Starts(f) \in SUBSET (1 .. Len(f))
  BY DEF Starts
<1>n. NewLine \in Tokens
  BY DEF Tokens
<1>1. CASE TornTail(f)
  <2> DEFINE m == Max(Starts(f))
             g == SubSeq(f, 1, m - 1)
  <2>1. Repaired(f) = g
    BY <1>1 DEF Repaired
  <2>2. m \in 1 .. Len(f) /\ m \in Starts(f) /\ \A i \in Starts(f) : i <= m
    BY <1>1, LastStart DEF TornTail
  <2>3. ~Valid(f, m)
    BY <1>1 DEF TornTail
  <2> HIDE DEF m
  <2>4. g \in Seq(Tokens) /\ Len(g) = m - 1 /\ \A i \in 1 .. m - 1 : g[i] = f[i]
    BY <2>2
  <2>5. \A s \in Starts(f) : s # m => Valid(f, s)
    BY DEF InvalidRecord, m
  <2>6. f[m] # NewLine
    BY <2>2 DEF Starts
  <2>7. ASSUME NEW i \in 1 .. m - 1, f[i] # NewLine
        PROVE  i \in Starts(f) /\ Valid(f, i) /\ f[i + 1] = NewLine
    <3>1. i \in Starts(f) /\ Valid(f, i)
      <4>1. i \in 1 .. Len(f) /\ i < m
        BY <2>2
      <4>2. \A s \in Starts(f) : s <= i => Valid(f, s)
        BY <1>0, <2>2, <2>5, <4>1
      <4> QED BY <2>7, <4>1, <4>2, RecordIsLine
    <3>2. i # Len(f)
      BY <2>2
    <3> QED BY <3>1, <3>2 DEF Valid
  <2>8. ASSUME NEW i \in Starts(f), Valid(f, i)
        PROVE  i \in 1 .. m - 2 /\ f[i + 1] = NewLine
    <3>1. i \in 1 .. m - 1
      BY <1>0, <2>2, <2>3, <2>8
    <3>2. f[i] # NewLine
      BY DEF Starts
    <3>3. f[i + 1] = NewLine
      BY <2>7, <3>1, <3>2
    <3>4. i + 1 # m
      BY <2>6, <3>3
    <3> QED BY <2>2, <3>1, <3>3, <3>4
  <2>9. \A i \in 1 .. m - 1 : f[i] # NewLine => i < m - 1
    <3>1. SUFFICES ASSUME NEW i \in 1 .. m - 1, f[i] # NewLine PROVE i < m - 1
      OBVIOUS
    <3>2. i \in 1 .. m - 2
      BY <2>7, <2>8, <3>1
    <3> QED BY <2>2, <3>2
  <2> HIDE DEF g
  <2>10. \A i \in 1 .. Len(g) : g[i] # NewLine =>
                /\ i \in Starts(f) /\ Valid(f, i) /\ g[i] = f[i]
                /\ i < Len(g) /\ g[i + 1] = NewLine
    <3>1. SUFFICES ASSUME NEW i \in 1 .. m - 1, f[i] # NewLine
                   PROVE  i \in Starts(f) /\ Valid(f, i) /\ i < m - 1 /\ g[i + 1] = NewLine
      BY <2>2, <2>4
    <3>2. i < m - 1
      BY <2>9, <3>1
    <3>3. i + 1 \in 1 .. m - 1
      BY <2>2, <3>2
    <3> QED BY <2>4, <2>7, <3>1, <3>2, <3>3
  <2>11. \A i \in Starts(f) : Valid(f, i) =>
                /\ i \in 1 .. Len(g) - 1
                /\ g[i] = f[i] /\ g[i + 1] = NewLine
    <3>1. SUFFICES ASSUME NEW i \in Starts(f), Valid(f, i)
                   PROVE  i \in 1 .. Len(g) - 1 /\ g[i] = f[i] /\ g[i + 1] = NewLine
      OBVIOUS
    <3>2. i \in 1 .. m - 2 /\ f[i + 1] = NewLine
      BY <2>8, <3>1
    <3>3. i \in 1 .. m - 1 /\ i + 1 \in 1 .. m - 1 /\ Len(g) - 1 = m - 2
      BY <2>2, <2>4, <3>2
    <3> QED BY <2>4, <3>2, <3>3
  <2> QED BY <2>1, <2>4, <2>10, <2>11
<1>2. CASE ~TornTail(f)
  <2> DEFINE g == Repaired(f)
  <2>1. \A s \in Starts(f) : Valid(f, s)
    BY <1>2 DEF TornTail, InvalidRecord
  <2>2. \A i \in 1 .. Len(f) : f[i] # NewLine => i \in Starts(f) /\ Valid(f, i)
    BY <2>1, RecordIsLine
  <2>3. CASE f # <<>> /\ Last(f) # NewLine
    <3>1. g = Append(f, NewLine)
      BY <1>2, <2>3 DEF Repaired
    <3>2. /\ g \in Seq(Tokens) /\ Len(g) = Len(f) + 1
          /\ \A i \in 1 .. Len(f) : g[i] = f[i]
          /\ g[Len(f) + 1] = NewLine
      BY <1>n, <3>1
    <3> HIDE DEF g
    <3>3. ASSUME NEW i \in Starts(f), Valid(f, i)
          PROVE  i \in 1 .. Len(f) /\ f[i] # NewLine /\ g[i] = f[i] /\ g[i + 1] = NewLine
      <4>1. i \in 1 .. Len(f) /\ f[i] # NewLine
        BY DEF Starts
      <4>2. i = Len(f) \/ f[i + 1] = NewLine
        BY <3>3 DEF Valid
      <4>3. CASE i = Len(f)
        BY <3>2, <4>1, <4>3
      <4>4. CASE i # Len(f)
        <5>1. i + 1 \in 1 .. Len(f)
          BY <4>1, <4>4
        <5> QED BY <3>2, <4>1, <4>2, <4>4, <5>1
      <4> QED BY <4>3, <4>4
    <3>4. \A i \in 1 .. Len(g) : g[i] # NewLine => i \in 1 .. Len(f)
      BY <3>2
    <3> QED BY <2>2, <3>2, <3>3, <3>4 DEF g
  <2>4. CASE ~(f # <<>> /\ Last(f) # NewLine)
    <3>1. g = f
      BY <1>2, <2>4 DEF Repaired
    <3> HIDE DEF g
    <3>2. ASSUME NEW i \in Starts(f), Valid(f, i)
          PROVE  i \in 1 .. Len(f) - 1 /\ f[i] # NewLine /\ f[i + 1] = NewLine
      <4>1. i \in 1 .. Len(f) /\ f[i] # NewLine
        BY DEF Starts
      <4>2. i = Len(f) \/ f[i + 1] = NewLine
        BY <3>2 DEF Valid
      <4>3. i # Len(f)
        BY <2>4, <4>1 DEF Last
      <4> QED BY <4>1, <4>2, <4>3
    <3> QED BY <2>2, <3>1, <3>2 DEF g
  <2> QED BY <2>3, <2>4
<1> QED BY <1>1, <1>2

\* A journal that no failed write has broken is accepted, and its finished lines are found.
LEMMA WellFormedIsAccepted ==
    ASSUME NEW f \in Seq(Tokens), WellFormed(f)
    PROVE  /\ ~InvalidRecord(f)
           /\ \A i \in 1 .. Len(f) - 1 : f[i] # NewLine => i \in Starts(f) /\ Valid(f, i)
<1>1. \A i \in 1 .. Len(f) - 1 : f[i] # NewLine => Valid(f, i)
  BY DEF WellFormed, Valid
<1>2. ~InvalidRecord(f)
  <2>1. SUFFICES ASSUME NEW i \in Starts(f), i # Max(Starts(f)) PROVE Valid(f, i)
    BY DEF InvalidRecord
  <2>2. Max(Starts(f)) \in 1 .. Len(f) /\ i <= Max(Starts(f)) /\ i \in 1 .. Len(f) /\ f[i] # NewLine
    BY LastStart DEF Starts
  <2>3. i \in 1 .. Len(f) - 1
    BY <2>1, <2>2
  <2> QED BY <1>1, <2>2, <2>3
<1>3. ASSUME NEW i \in 1 .. Len(f) - 1, f[i] # NewLine PROVE i \in Starts(f)
  <2>1. CASE i = 1
    BY <1>3, <2>1 DEF Starts
  <2>2. CASE i # 1
    <3>1. i - 1 \in 1 .. Len(f) - 1 /\ (i - 1) + 1 = i
      BY <2>2
    <3>2. f[i - 1] = NewLine
      BY <1>3, <3>1 DEF WellFormed
    <3> QED BY <1>3, <2>2, <3>2 DEF Starts
  <2> QED BY <2>1, <2>2
<1> QED BY <1>1, <1>2, <1>3

\* next_sequence_ and latest_orders_ as the constructor builds them.
LEMMA RecoveredNumbers ==
    ASSUME NEW f \in Seq(Tokens)
    PROVE  /\ NextAfter(f) \in Nat \ {0}
           /\ \A i \in Starts(f) : Valid(f, i) => f[i].seq < NextAfter(f)
<1> DEFINE P == {j \in Starts(f) : Valid(f, j)}
           m == Max({f[i].seq : i \in P} \cup {0})
<1>1. P \in SUBSET (1 .. Len(f))
  BY DEF Starts
<1>2. m \in Nat /\ \A i \in P : f[i].seq <= m
  <2> HIDE DEF P
  <2> QED BY <1>1, MaxOfNumbers
<1>3. {r.seq : r \in ValidRecords(f)} = {f[i].seq : i \in P}
  BY DEF ValidRecords
<1>4. NextAfter(f) = m + 1
  BY <1>3, Zenon DEF NextAfter
<1>5. \A i \in P : f[i].seq \in Nat
  <2>1. \A i \in P : f[i] \in Tokens
    BY <1>1
  <2> HIDE DEF P
  <2> QED BY <2>1 DEF Tokens, Records, NewLine
<1>6. \A i \in P : f[i].seq < m + 1
  <2> HIDE DEF P, m
  <2> QED BY <1>2, <1>5
<1> HIDE DEF m
<1> QED BY <1>2, <1>4, <1>6

LEMMA RecoveredLatest ==
    ASSUME NEW f \in Seq(Tokens), NEW o
    PROVE  /\ LatestIn(f, o) \in Nat
           /\ \A i \in Starts(f) : Valid(f, i) /\ f[i].type = "order" /\ f[i].id = o
                => f[i].seq <= LatestIn(f, o)
<1> DEFINE P == {j \in Starts(f) : Valid(f, j) /\ f[j].type = "order" /\ f[j].id = o}
           m == Max({f[i].seq : i \in P} \cup {0})
<1>1. P \in SUBSET (1 .. Len(f))
  BY DEF Starts
<1>2. m \in Nat /\ \A i \in P : f[i].seq <= m
  <2> HIDE DEF P
  <2> QED BY <1>1, MaxOfNumbers
<1>3. {r.seq : r \in {s \in ValidRecords(f) : s.type = "order" /\ s.id = o}}
        = {f[i].seq : i \in P}
  BY DEF ValidRecords
<1>4. LatestIn(f, o) = m
  BY <1>3, Zenon DEF LatestIn
<1> HIDE DEF m
<1> QED BY <1>2, <1>4

(***************************************************************************)
(* What the steps do to the file                                           *)
(***************************************************************************)
\* One write() replaces the piece that the call has written, if any, by a longer one.
Writes(t, n, b) ==
    /\ b \in 0 .. Len(file)
    /\ IF thread[t].done = 0 THEN b = Len(file) ELSE b + 1 = Len(file)
    /\ n \in thread[t].done + 1 .. 3
    /\ file' \in Seq(Tokens)
    /\ Len(file') = IF n = 3 THEN b + 2 ELSE b + 1
    /\ \A i \in 1 .. b : file'[i] = file[i]
    /\ file'[b + 1] # NewLine /\ file'[b + 1].seq = thread[t].record.seq
    /\ n > 1 => file'[b + 1] = thread[t].record
    /\ n = 3 => file'[b + 2] = NewLine
    /\ thread' = [thread EXCEPT ![t].done = n,
         ![t].pc = IF n < 3 THEN "write"
                   ELSE IF thread[t].op = "commit_order" THEN "signal" ELSE "index"]

LEMMA CutRecord ==
    ASSUME NEW r \in Tokens, r # NewLine
    PROVE  /\ Cut(r) \in Tokens
           /\ Cut(r) # NewLine
           /\ Cut(r).seq = r.seq
BY DEF Tokens, Records, NewLine, Cut

LEMMA PiecesForm ==
    ASSUME NEW r \in Records, NEW n \in 1 .. 3
    PROVE  /\ Pieces(r, n) \in Seq(Tokens) /\ Len(Pieces(r, n)) = IF n = 3 THEN 2 ELSE 1
           /\ Pieces(r, n)[1] # NewLine /\ Pieces(r, n)[1].seq = r.seq
           /\ n > 1 => Pieces(r, n)[1] = r
           /\ n = 3 => Pieces(r, n)[2] = NewLine
<1>1. r \in Tokens /\ r # NewLine /\ NewLine \in Tokens
  BY DEF Tokens, Records, NewLine
<1>2. PICK w : w = Cut(r)
  OBVIOUS
<1>3. w \in Tokens /\ w # NewLine /\ w.seq = r.seq
  BY <1>1, <1>2, CutRecord
<1>4. CASE n = 1
  <2>1. Pieces(r, n) = <<w>>
    BY <1>2, <1>4 DEF Pieces
  <2>2. <<w>> \in Seq(Tokens) /\ Len(<<w>>) = 1 /\ <<w>>[1] = w
    BY <1>3
  <2>3. ~(n > 1) /\ n # 3
    BY <1>4
  <2> QED BY <1>3, <2>1, <2>2, <2>3, Zenon
<1>5. CASE n = 2
  <2>1. Pieces(r, n) = <<r>>
    BY <1>5 DEF Pieces
  <2>2. <<r>> \in Seq(Tokens) /\ Len(<<r>>) = 1 /\ <<r>>[1] = r
    BY <1>1
  <2>3. n # 3
    BY <1>5
  <2> QED BY <1>1, <2>1, <2>2, <2>3, Zenon
<1>6. CASE n = 3
  <2>1. Pieces(r, n) = <<r, NewLine>>
    BY <1>6 DEF Pieces
  <2>2. /\ <<r, NewLine>> \in Seq(Tokens) /\ Len(<<r, NewLine>>) = 2
        /\ <<r, NewLine>>[1] = r /\ <<r, NewLine>>[2] = NewLine
    BY <1>1
  <2> QED BY <1>1, <1>6, <2>1, <2>2
<1> QED BY <1>4, <1>5, <1>6

\* Where the elements of a concatenation come from.
LEMMA ConcatAt ==
    ASSUME NEW S, NEW h \in Seq(S), NEW p \in Seq(S)
    PROVE  /\ \A i \in 1 .. Len(h) : (h \o p)[i] = h[i]
           /\ \A i \in 1 .. Len(p) : (h \o p)[Len(h) + i] = p[i]
  BY SMTT(30)

LEMMA WriteEffect ==
    ASSUME Types, ThreadInv, WrittenInv, NEW t \in Threads, WriteSome(t)
    PROVE  \E n, b \in Nat : Writes(t, n, b)
<1> DEFINE r == thread[t].record
           d == thread[t].done
           e == Len(Pieces(r, d))
<1>1. PICK n \in d + 1 .. 3 :
        /\ file' = SubSeq(file, 1, Len(file) - e) \o Pieces(r, n)
        /\ thread' = [thread EXCEPT ![t].done = n,
             ![t].pc = IF n < 3 THEN "write"
                       ELSE IF thread[t].op = "commit_order" THEN "signal" ELSE "index"]
  BY DEF WriteSome
<1>2. r \in Records /\ r.whole /\ d \in 0 .. 2
  BY DEF ThreadInv, WriteSome
<1>3. n \in 1 .. 3 /\ n \in Nat
  BY <1>1, <1>2
<1>4. e = IF d = 0 THEN 0 ELSE 1
  BY <1>2 DEF Pieces
<1>5. e <= Len(file)
  BY <1>2, <1>4, SMTT(30) DEF WrittenInv, MidWrite, WriteSome, Types
<1> DEFINE b == Len(file) - e
           p == Pieces(r, n)
<1>6. file \in Seq(Tokens)
  BY DEF Types
<1>7. b \in 0 .. Len(file) /\ (IF d = 0 THEN b = Len(file) ELSE b + 1 = Len(file))
  BY <1>4, <1>5, <1>6
<1>9. /\ p \in Seq(Tokens) /\ Len(p) = IF n = 3 THEN 2 ELSE 1
      /\ p[1] # NewLine /\ p[1].seq = r.seq
      /\ n > 1 => p[1] = r
      /\ n = 3 => p[2] = NewLine
  BY <1>2, <1>3, PiecesForm
<1>10. file' = SubSeq(file, 1, b) \o p
  BY <1>1
<1> HIDE DEF p, b
<1>11. SubSeq(file, 1, b) \in Seq(Tokens) /\ Len(SubSeq(file, 1, b)) = b
         /\ \A i \in 1 .. b : SubSeq(file, 1, b)[i] = file[i]
  BY <1>6, <1>7
<1>12. file' \in Seq(Tokens) /\ Len(file') = b + Len(p)
  <2>1. p \in Seq(Tokens) /\ SubSeq(file, 1, b) \in Seq(Tokens)
    BY <1>9, <1>11
  <2> HIDE DEF p, b
  <2>2. file' \in Seq(Tokens) /\ Len(file') = Len(SubSeq(file, 1, b)) + Len(p)
    BY <1>10, <2>1
  <2> QED BY <1>11, <2>2
<1>c. /\ \A i \in 1 .. b : file'[i] = SubSeq(file, 1, b)[i]
      /\ \A i \in 1 .. Len(p) : file'[b + i] = p[i]
  BY <1>9, <1>10, <1>11, ConcatAt, SMTT(30)
<1>13. \A i \in 1 .. b : file'[i] = file[i]
  BY <1>11, <1>c
<1>14. file'[b + 1] = p[1] /\ (n = 3 => file'[b + 2] = p[2])
  <2>1. 1 \in 1 .. Len(p) /\ (n = 3 => 2 \in 1 .. Len(p))
    BY <1>9
  <2> QED BY <1>c, <2>1
<1>15. Writes(t, n, b)
  BY <1>1, <1>3, <1>7, <1>9, <1>12, <1>13, <1>14 DEF Writes
<1> QED BY <1>3, <1>7, <1>15

\* Loss of power keeps what is durable; the token at the end may be a cut record.
Cuts(k) ==
    /\ k \in durable .. Len(file)
    /\ file' \in Seq(Tokens) /\ Len(file') = k /\ durable' = k
    /\ \A i \in 1 .. k : i < k \/ file[i] = NewLine => file'[i] = file[i]
    /\ \A i \in 1 .. k : file[i] # NewLine => file'[i] # NewLine /\ file'[i].seq = file[i].seq

LEMMA PowerLossEffect ==
    ASSUME Types, PowerLoss
    PROVE  \E k \in Nat : Cuts(k)
<1>1. PICK k \in durable .. Len(file), cut \in BOOLEAN :
        /\ file' = [i \in 1 .. k |-> IF cut /\ i = k /\ file[k] # NewLine
                                     THEN Cut(file[k]) ELSE file[i]]
        /\ durable' = k
  BY DEF PowerLoss
<1>2. file \in Seq(Tokens) /\ k \in Nat /\ \A i \in 1 .. k : i \in 1 .. Len(file)
  BY <1>1 DEF Types
<1>3. \A r \in Tokens : r # NewLine =>
        /\ Cut(r) \in Tokens
        /\ Cut(r) # NewLine
        /\ Cut(r).seq = r.seq
  BY CutRecord
<1>4. \A i \in 1 .. k : file'[i] \in Tokens
  BY <1>1, <1>2, <1>3
<1>5. file' \in [1 .. k -> Tokens]
  BY <1>1, <1>4
<1>6. file' \in Seq(Tokens) /\ Len(file') = k
  BY <1>2, <1>5
<1>7. \A i \in 1 .. k : i < k \/ file[i] = NewLine => file'[i] = file[i]
  BY <1>1, <1>2
<1>8. \A i \in 1 .. k : file[i] # NewLine => file'[i] # NewLine /\ file'[i].seq = file[i].seq
  <2>1. \A i \in 1 .. k : file[i] \in Tokens
    BY <1>2
  <2> QED BY <1>1, <1>2, <1>3, <2>1
<1> QED BY <1>1, <1>2, <1>6, <1>7, <1>8 DEF Cuts

(***************************************************************************)
(* The initial state                                                       *)
(***************************************************************************)
LEMMA IdleIsTyped == Idle \in ThreadType
BY DEF Idle, ThreadType, Operations, NoRecord

LEMMA InitStoreInv == Init => StoreInv
<1> SUFFICES ASSUME Init PROVE StoreInv
  OBVIOUS
<1>1. file \in Found /\ mode = "down" /\ ~Up
  BY DEF Init, Up
<1>2. /\ file \in Seq(Tokens)
      /\ \A i \in 1 .. Len(file) : file[i].type = "order" => file[i].id \in Orders
      /\ NumbersAreUnique
  BY <1>1, StoreAssumption DEF Tokens, NumbersAreUnique
<1>3. \A t \in Threads : thread[t] = Idle /\ thread[t].pc = "idle"
  BY DEF Init, Idle
<1>4. \A r \in ValidRecords(file) : \E i \in Starts(file) : i \in 1 .. Len(file) /\ Valid(file, i)
                                        /\ r = file[i] /\ r \in Records
  BY <1>2 DEF ValidRecords, Starts, Tokens
<1>5. acked = {[seq |-> r.seq, gen |-> 0, id |-> r.id,
                op |-> IF r.type = "order" THEN "append_order" ELSE "append_event"] :
                    r \in ValidRecords(file)}
  BY DEF Init
<1>6. acked \subseteq AckType
  <2>1. SUFFICES ASSUME NEW r \in ValidRecords(file)
        PROVE  [seq |-> r.seq, gen |-> 0, id |-> r.id,
                op |-> IF r.type = "order" THEN "append_order" ELSE "append_event"] \in AckType
    BY <1>5
  <2>2. r \in Records
    BY <1>4
  <2> QED BY <2>2 DEF Records, AckType, Operations
<1>7. \A a \in acked : \E r \in ValidRecords(file) :
        /\ a.seq = r.seq /\ a.id = r.id
        /\ a.op = "append_order" => r.type = "order"
  BY <1>5
<1>8. \A a \in acked : a.op = "append_order" => a.id \in Orders
  BY <1>2, <1>4, <1>7
<1>9. Types
  <2>1. /\ generation \in Nat /\ synced \in Nat /\ next \in Nat \ {0}
        /\ mode \in {"open", "closing", "closed", "down", "refused"}
    BY DEF Init
  <2>2. stop \in BOOLEAN /\ syncFailed \in BOOLEAN /\ torn \in BOOLEAN
    BY DEF Init, InvalidRecord
  <2>3. durable \in 0 .. Len(file)
    BY <1>2 DEF Init
  <2>4. latest \in [Orders -> Nat]
    BY DEF Init
  <2>5. thread \in [Threads -> ThreadType]
    BY IdleIsTyped DEF Init
  <2>6. worker \in [pc : WorkerSteps, target : Nat, upTo : Nat]
    BY DEF Init, Resting, WorkerSteps
  <2> QED BY <1>2, <1>6, <1>8, <2>1, <2>2, <2>3, <2>4, <2>5, <2>6 DEF Types
<1>10. ThreadInv
  BY <1>3 DEF ThreadInv, MidWrite
<1>11. NumberInv
  BY <1>1, <1>2, <1>3 DEF NumberInv, Pending
<1>12. WrittenInv
  BY <1>3 DEF WrittenInv, MidWrite
<1>13. SurviveInv
  <2>1. SUFFICES ASSUME ~torn PROVE Survives(file, acked)
    BY <1>1 DEF SurviveInv
  <2>2. ~InvalidRecord(file)
    BY <2>1 DEF Init
  <2>3. \A a \in acked : \E i \in Starts(file) : Valid(file, i) /\ RecordOf(a, file[i])
    <3>1. SUFFICES ASSUME NEW a \in acked
                   PROVE  \E i \in Starts(file) : Valid(file, i) /\ RecordOf(a, file[i])
      OBVIOUS
    <3>2. PICK r \in ValidRecords(file) : /\ a.seq = r.seq /\ a.id = r.id
                                          /\ a.op = "append_order" => r.type = "order"
      BY <1>7
    <3>3. PICK i \in Starts(file) : Valid(file, i) /\ r = file[i]
      BY <1>4
    <3> QED BY <3>2, <3>3 DEF RecordOf
  <2> QED BY <2>2, <2>3 DEF Survives
<1> QED BY <1>1, <1>9, <1>10, <1>11, <1>12, <1>13 DEF StoreInv, WorkerInv, SyncInv, LatestInv, Init

(***************************************************************************)
(* Types                                                                   *)
(***************************************************************************)
LEMMA WokenIsTyped ==
    ASSUME Types
    PROVE  /\ Woken \in [pc : WorkerSteps, target : Nat, upTo : Nat]
           /\ Woken.target = worker.target /\ Woken.upTo = worker.upTo
           /\ Woken.pc # worker.pc => Woken.pc = "check" /\ worker.pc = "sleeping"
<1>1. worker \in [pc : WorkerSteps, target : Nat, upTo : Nat] /\ "check" \in WorkerSteps
  BY DEF Types, WorkerSteps
<1> QED BY <1>1 DEF Woken

LEMMA DurableMaximum ==
    ASSUME Types
    PROVE  /\ Max({durable, worker.upTo}) \in {durable, worker.upTo}
           /\ Max({durable, worker.upTo}) >= durable
           /\ Max({durable, worker.upTo}) >= worker.upTo
<1>1. {durable, worker.upTo} \in SUBSET Int /\ {durable, worker.upTo} # {}
  BY DEF Types
<1>2. IsFiniteSet({durable, worker.upTo})
  <2>1. IsFiniteSet({durable} \cup {worker.upTo})
    BY FS_Singleton, FS_AddElement
  <2>2. {durable} \cup {worker.upTo} = {durable, worker.upTo}
    OBVIOUS
  <2> QED BY <2>1, <2>2
<1> QED BY <1>1, <1>2, MaxProperties, Zenon

LEMMA TypesStep ==
    ASSUME StoreInv, [Next]_vars
    PROVE  Types'
<1> USE DEF StoreInv
<1> DEFINE WorkerType == [pc : WorkerSteps, target : Nat, upTo : Nat]
<1>t. Types
  OBVIOUS
<1>w. Woken \in WorkerType
  BY WokenIsTyped
<1>r. Resting \in WorkerType /\ [Resting EXCEPT !.pc = "check"] \in WorkerType
  BY DEF Resting, WorkerSteps
<1>i. Idle \in ThreadType
  BY IdleIsTyped
<1> HIDE DEF WorkerType
<1>u. \A v \in WorkerType : Types /\ worker' = v /\ UNCHANGED <<file, next, latest, generation,
          synced, stop, thread, mode, acked, torn, syncFailed, durable>> => Types'
  BY DEF Types, WorkerType
<1>1. ASSUME NEW t \in Threads, NEW op \in Operations, NEW id \in Orders \cup {NoOrder},
             TakeSequence(t, op, id)
      PROVE  Types'
  <2>1. PICK q : q = [type |-> IF op = "append_event" THEN "event" ELSE "order",
                      id |-> id, seq |-> next, whole |-> TRUE]
    OBVIOUS
  <2>2. q \in Records
    BY <2>1 DEF Types, Records
  <2>3. [pc |-> "write", op |-> op, done |-> 0, gen |-> 0, record |-> q] \in ThreadType
    BY <2>2 DEF ThreadType
  <2>4. thread' = [thread EXCEPT ![t] =
                     [pc |-> "write", op |-> op, done |-> 0, gen |-> 0, record |-> q]]
    BY <1>1, <2>1, Zenon DEF TakeSequence
  <2>5. thread \in [Threads -> ThreadType]
    BY DEF Types
  <2>6. thread' \in [Threads -> ThreadType]
    BY <2>3, <2>4, <2>5
  <2>7. next' \in Nat \ {0}
    BY <1>1 DEF TakeSequence, Types
  <2> QED BY <1>1, <2>6, <2>7 DEF TakeSequence, Types, index, sync, history
<1>2. ASSUME NEW t \in Threads, WriteSome(t) PROVE Types'
  <2>1. PICK n, b \in Nat : Writes(t, n, b)
    BY <1>2, WriteEffect
  <2>2. n \in 1 .. 3
    <3>1. thread[t].done \in 0 .. 3 /\ n \in thread[t].done + 1 .. 3
      BY <2>1 DEF Types, ThreadType, Writes
    <3> QED BY <3>1
  <2>3. thread \in [Threads -> ThreadType] /\ thread[t] \in ThreadType
    BY DEF Types
  <2>4. thread' \in [Threads -> ThreadType]
    <3>1. PICK p : p = IF n < 3 THEN "write"
                       ELSE IF thread[t].op = "commit_order" THEN "signal" ELSE "index"
      OBVIOUS
    <3>2. thread' = [thread EXCEPT ![t].done = n, ![t].pc = p]
      BY <2>1, <3>1, Zenon DEF Writes
    <3>3. p \in {"idle", "write", "index", "signal", "notify"} /\ n \in 0 .. 3
      BY <2>2, <3>1
    <3> QED BY <2>3, <3>2, <3>3 DEF ThreadType
  <2>5. file' \in Seq(Tokens) /\ Len(file') >= Len(file)
    BY <2>1, SMTT(30) DEF Writes, Types
  <2>6. durable' \in 0 .. Len(file')
    <3>1. durable \in 0 .. Len(file) /\ durable' = durable /\ Len(file) \in Nat
      BY <1>2 DEF Types, WriteSome
    <3> QED BY <2>5, <3>1
  <2> QED BY <1>2, <2>4, <2>5, <2>6 DEF WriteSome, Types, index, sync, history
<1>3. ASSUME NEW t \in Threads, WriteFails(t) PROVE Types'
  <2>1. thread' \in [Threads -> ThreadType]
    BY <1>3, <1>i DEF WriteFails, Types
  <2>2. torn' \in BOOLEAN
    BY <1>3 DEF WriteFails, Types
  <2> QED BY <1>3, <2>1, <2>2 DEF WriteFails, Types, index, sync
<1>4. ASSUME NEW t \in Threads, UpdateIndex(t) PROVE Types'
  <2>1. thread \in [Threads -> ThreadType] /\ thread[t] \in ThreadType
    BY DEF Types
  <2>2. thread' \in [Threads -> ThreadType]
    BY <1>4, <2>1 DEF UpdateIndex, ThreadType
  <2>3. latest' \in [Orders -> Nat]
    <3>1. thread[t].record.seq \in Nat
      BY <1>4 DEF UpdateIndex, ThreadInv, Records
    <3>2. latest \in [Orders -> Nat]
      BY DEF Types
    <3> QED BY <1>4, <3>1, <3>2 DEF UpdateIndex, Superseded
  <2> QED BY <1>4, <2>2, <2>3 DEF UpdateIndex, Types, sync, history
<1>5. ASSUME NEW t \in Threads, Signal(t) PROVE Types'
  <2>1. thread \in [Threads -> ThreadType] /\ thread[t] \in ThreadType /\ generation + 1 \in Nat
    BY DEF Types
  <2>2. thread' \in [Threads -> ThreadType]
    BY <1>5, <2>1 DEF Signal, ThreadType
  <2> QED BY <1>5, <2>1, <2>2 DEF Signal, Types, index, history
<1>6. ASSUME NEW t \in Threads, Notify(t) PROVE Types'
  <2>1. thread' \in [Threads -> ThreadType]
    BY <1>6, <1>i DEF Notify, Types
  <2>2. PICK x : x = [seq |-> thread[t].record.seq, gen |-> thread[t].gen,
                      op |-> thread[t].op, id |-> thread[t].record.id]
    OBVIOUS
  <2>3. acked' = acked \cup {x}
    BY <1>6, <2>2 DEF Notify
  <2>4. /\ thread[t].record \in Records /\ thread[t].op \in Operations
        /\ thread[t].op = "append_order" => thread[t].record.id \in Orders
        /\ thread[t].gen \in Nat
    BY <1>6 DEF Notify, ThreadInv, Types, ThreadType
  <2>5. x \in AckType /\ (x.op = "append_order" => x.id \in Orders)
    BY <2>2, <2>4 DEF AckType, Records
  <2>6. acked' \subseteq AckType /\ \A a \in acked' : a.op = "append_order" => a.id \in Orders
    BY <2>3, <2>5 DEF Types
  <2>7. worker' \in WorkerType
    BY <1>6, <1>w DEF Notify
  <2> QED BY <1>6, <2>1, <2>6, <2>7 DEF Notify, Types, index, WorkerType
<1>7. ASSUME WorkerCheck \/ WorkerSleep \/ WorkerLoad \/ FlushBegin \/ SpuriousWakeup PROVE Types'
  <2>1. worker' \in WorkerType
    <3>1. CASE WorkerCheck
      BY <3>1 DEF WorkerCheck, AfterCheck, WorkerType, WorkerSteps, Types
    <3>2. CASE WorkerSleep
      BY <3>2 DEF WorkerSleep, WorkerType, WorkerSteps, Types
    <3>3. CASE WorkerLoad
      BY <3>3 DEF WorkerLoad, WorkerType, WorkerSteps, Types
    <3>4. CASE FlushBegin
      <4>1. /\ worker \in WorkerType /\ Len(file) \in Nat
            /\ "flushed" \in WorkerSteps /\ "finalFlushed" \in WorkerSteps
        BY DEF Types, WorkerSteps, WorkerType
      <4> QED BY <3>4, <4>1 DEF FlushBegin, WorkerType
    <3>5. CASE SpuriousWakeup
      BY <1>w, <3>5 DEF SpuriousWakeup
    <3> QED BY <1>7, <3>1, <3>2, <3>3, <3>4, <3>5
  <2>2. UNCHANGED <<file, next, latest, generation, synced, stop, thread, mode, acked, torn,
                    syncFailed, durable>>
    BY <1>7 DEF WorkerCheck, WorkerSleep, WorkerLoad, FlushBegin, SpuriousWakeup, OnlyWorker, index
  <2> QED BY <1>t, <1>u, <2>1, <2>2
<1>8. ASSUME FlushEnd PROVE Types'
  <2>1. worker' \in WorkerType /\ synced' \in Nat
    BY <1>8, <1>r DEF FlushEnd, SyncedTo, Types
  <2>2. durable' \in 0 .. Len(file)
    <3>1. worker.upTo \in 0 .. Len(file) /\ durable \in 0 .. Len(file)
      BY <1>8 DEF FlushEnd, Running, Up, WorkerInv, Types
    <3>2. durable' \in {durable, worker.upTo}
      BY <1>8, DurableMaximum DEF FlushEnd
    <3> QED BY <3>1, <3>2
  <2>3. syncFailed' \in BOOLEAN
    BY <1>8 DEF FlushEnd, Types
  <2> QED BY <1>8, <2>1, <2>2, <2>3 DEF FlushEnd, OnlyWorker, index, Types, WorkerType
<1>9. ASSUME CloseBegin PROVE Types'
  BY <1>9, <1>w DEF CloseBegin, Types, index, history, WorkerType
<1>10. ASSUME CloseEnd \/ RefuseToStart PROVE Types'
  BY <1>10 DEF CloseEnd, RefuseToStart, Types, index, sync, history
<1>11. ASSUME ProcessDies \/ PowerLoss PROVE Types'
  <2>1. /\ thread' \in [Threads -> ThreadType] /\ worker' \in WorkerType
        /\ latest' \in [Orders -> Nat]
        /\ generation' \in Nat /\ synced' \in Nat /\ stop' \in BOOLEAN /\ next' \in Nat \ {0}
        /\ mode' \in {"open", "closing", "closed", "down", "refused"}
    <3>1. Die
      BY <1>11 DEF ProcessDies, PowerLoss
    <3>2. thread' \in [Threads -> ThreadType]
      BY <1>i, <3>1 DEF Die
    <3>3. worker' \in WorkerType
      BY <1>r, <3>1 DEF Die
    <3>4. latest' \in [Orders -> Nat]
      BY <3>1 DEF Die
    <3>5. /\ generation' \in Nat /\ synced' \in Nat /\ next' \in Nat \ {0}
          /\ mode' \in {"open", "closing", "closed", "down", "refused"}
      BY <3>1 DEF Die
    <3>6. stop' \in BOOLEAN
      BY <3>1, Zenon DEF Die
    <3> QED BY <3>2, <3>3, <3>4, <3>5, <3>6
  <2>2. file' \in Seq(Tokens) /\ durable' \in 0 .. Len(file')
    <3>1. CASE ProcessDies
      BY <3>1 DEF ProcessDies, Types
    <3>2. CASE PowerLoss
      BY <3>2, PowerLossEffect DEF Cuts, Types
    <3> QED BY <1>11, <3>1, <3>2
  <2>3. acked' \subseteq acked /\ UNCHANGED <<torn, syncFailed>>
    BY <1>11 DEF ProcessDies, PowerLoss, history
  <2>4. /\ acked' \subseteq AckType /\ \A a \in acked' : a.op = "append_order" => a.id \in Orders
        /\ torn' \in BOOLEAN /\ syncFailed' \in BOOLEAN
    BY <2>3 DEF Types
  <2> QED BY <2>1, <2>2, <2>4 DEF Types, WorkerType
<1>12. ASSUME Recover PROVE Types'
  <2>1. file' \in Seq(Tokens)
    BY <1>12, RepairedLines DEF Recover, Types
  <2>2. durable' \in 0 .. Len(file')
    BY <1>12, <2>1 DEF Recover, DurableAfterRepair, Types
  <2>3. next' \in Nat \ {0}
    BY <1>12, RecoveredNumbers DEF Recover, Types
  <2>4. latest' \in [Orders -> Nat]
    BY <1>12, RecoveredLatest DEF Recover, Types
  <2>5. worker' \in WorkerType /\ generation' = 0 /\ synced' = 0 /\ stop' = FALSE
    BY <1>12, <1>r DEF Recover, Fresh
  <2>6. acked' \subseteq AckType /\ \A a \in acked' : a.op = "append_order" => a.id \in Orders
    <3>1. \A a \in AckType : [a EXCEPT !.gen = 0] \in AckType
                             /\ [a EXCEPT !.gen = 0].op = a.op /\ [a EXCEPT !.gen = 0].id = a.id
      BY DEF AckType
    <3>2. acked \subseteq AckType /\ \A a \in acked : a.op = "append_order" => a.id \in Orders
      BY DEF Types
    <3>3. \A x \in acked' : \E a \in acked : x = [a EXCEPT !.gen = 0]
      BY <1>12, Zenon DEF Recover
    <3>4. \A x \in acked' : x \in AckType /\ (x.op = "append_order" => x.id \in Orders)
      <4>1. SUFFICES ASSUME NEW x \in acked'
                     PROVE  x \in AckType /\ (x.op = "append_order" => x.id \in Orders)
        OBVIOUS
      <4>2. PICK a \in acked : x = [a EXCEPT !.gen = 0]
        BY <3>3
      <4>3. a \in AckType /\ (a.op = "append_order" => a.id \in Orders)
        BY <3>2
      <4>4. x \in AckType /\ x.op = a.op /\ x.id = a.id
        BY <3>1, <4>2, <4>3, Zenon
      <4> QED BY <4>3, <4>4
    <3> QED BY <3>4
  <2> QED BY <1>12, <2>1, <2>2, <2>3, <2>4, <2>5, <2>6 DEF Recover, Types, WorkerType
<1>13. ASSUME RepairFails PROVE Types'
  <2>1. file' \in Seq(Tokens)
    BY <1>13, RepairedLines DEF RepairFails, Types
  <2>2. durable' \in 0 .. Len(file')
    <3>1. durable \in Nat /\ Len(file') \in Nat
      BY <2>1 DEF Types
    <3>2. durable' = IF durable <= Len(file') THEN durable ELSE Len(file')
      BY <1>13 DEF RepairFails
    <3> QED BY <3>1, <3>2
  <2> QED BY <1>13, <2>1, <2>2 DEF RepairFails, Types, index, sync
<1>14. CASE UNCHANGED vars
  BY <1>14 DEF Types, vars
<1> QED BY <1>1, <1>2, <1>3, <1>4, <1>5, <1>6, <1>7, <1>8, <1>9, <1>10, <1>11, <1>12, <1>13, <1>14
         DEF Next, CallerStep, WorkerStep

(***************************************************************************)
(* Calls, numbers and lines                                                *)
(***************************************************************************)
\* The steps of the worker, and the ones at which nobody is in a call.
OfWorker == WorkerStep \/ SpuriousWakeup \/ UNCHANGED vars
LEMMA WorkerLeavesFile ==
    ASSUME OfWorker
    PROVE  UNCHANGED <<file, next, latest, thread, mode, acked, torn>>
BY DEF OfWorker, WorkerStep, WorkerCheck, WorkerSleep, WorkerLoad, FlushBegin, FlushEnd,
       SpuriousWakeup, OnlyWorker, index, vars

OfProcess ==
    CloseBegin \/ CloseEnd \/ ProcessDies \/ PowerLoss \/ Recover \/ RepairFails \/ RefuseToStart
LEMMA NobodyCalls ==
    ASSUME StoreInv, OfProcess
    PROVE  /\ \A t \in Threads : thread'[t] = Idle /\ thread'[t].pc = "idle"
           /\ UNCHANGED torn
<1>1. CASE CloseBegin
  BY <1>1 DEF CloseBegin, Idle, history
<1>2. CASE CloseEnd \/ Recover \/ RepairFails \/ RefuseToStart
  <2>1. mode # "open" /\ UNCHANGED <<thread, torn>>
    BY <1>2 DEF CloseEnd, Recover, RepairFails, RefuseToStart, history
  <2> QED BY <2>1 DEF StoreInv, ThreadInv, Idle
<1>3. CASE ProcessDies \/ PowerLoss
  BY <1>3 DEF ProcessDies, PowerLoss, Die, Idle, history
<1> QED BY <1>1, <1>2, <1>3 DEF OfProcess

LEMMA NextCases ==
    ASSUME [Next]_vars
    PROVE  \/ \E t \in Threads, op \in Operations, id \in Orders \cup {NoOrder} :
                  TakeSequence(t, op, id)
           \/ \E t \in Threads : WriteSome(t)
           \/ \E t \in Threads : WriteFails(t)
           \/ \E t \in Threads : UpdateIndex(t)
           \/ \E t \in Threads : Signal(t)
           \/ \E t \in Threads : Notify(t)
           \/ OfWorker
           \/ OfProcess
BY DEF Next, CallerStep, OfWorker, OfProcess

\* What TakeSequence and WriteSome do to the caller.
LEMMA TakeEffect ==
    ASSUME Types, NEW t \in Threads, NEW op \in Operations, NEW id \in Orders \cup {NoOrder},
           TakeSequence(t, op, id)
    PROVE  /\ \A u \in Threads \ {t} : thread'[u] = thread[u]
           /\ thread'[t].pc = "write" /\ thread'[t].done = 0 /\ thread'[t].op = op
           /\ thread'[t].record \in Records /\ thread'[t].record.whole
           /\ thread'[t].record.seq = next /\ thread'[t].record.id = id
           /\ thread'[t].record.type = IF op = "append_event" THEN "event" ELSE "order"
           /\ op # "append_event" => id \in Orders
           /\ mode = "open" /\ next' = next + 1
           /\ UNCHANGED <<file, mode, latest, acked, torn>>
<1>1. thread' = [thread EXCEPT ![t] =
         [pc |-> "write", op |-> op, done |-> 0, gen |-> 0,
          record |-> [type |-> IF op = "append_event" THEN "event" ELSE "order",
                      id |-> id, seq |-> next, whole |-> TRUE]]]
  BY DEF TakeSequence
<1>2. thread'[t] = [pc |-> "write", op |-> op, done |-> 0, gen |-> 0,
          record |-> [type |-> IF op = "append_event" THEN "event" ELSE "order",
                      id |-> id, seq |-> next, whole |-> TRUE]]
  BY <1>1 DEF Types
<1>3. \A u \in Threads \ {t} : thread'[u] = thread[u]
  BY <1>1 DEF Types
<1>4. thread'[t].record = [type |-> IF op = "append_event" THEN "event" ELSE "order",
                           id |-> id, seq |-> next, whole |-> TRUE]
  BY <1>2
<1>5. thread'[t].record \in Records /\ thread'[t].record.whole
  BY <1>4 DEF Records, Types
<1>6. /\ mode = "open" /\ next' = next + 1 /\ (id = NoOrder => op = "append_event")
      /\ UNCHANGED <<file, mode, latest, acked, torn>>
  BY DEF TakeSequence, index, history
<1>7. op # "append_event" => id \in Orders
  BY <1>6
<1> QED BY <1>2, <1>3, <1>4, <1>5, <1>6, <1>7

LEMMA WriteCaller ==
    ASSUME Types, NEW t \in Threads, NEW n \in Nat, NEW b \in Nat, WriteSome(t), Writes(t, n, b)
    PROVE  /\ \A u \in Threads \ {t} : thread'[u] = thread[u]
           /\ thread'[t].done = n /\ thread'[t].op = thread[t].op
           /\ thread'[t].record = thread[t].record /\ thread'[t].gen = thread[t].gen
           /\ n < 3 => thread'[t].pc = "write"
           /\ n = 3 => thread'[t].pc = IF thread[t].op = "commit_order" THEN "signal" ELSE "index"
           /\ n \in 1 .. 3 /\ thread[t].pc = "write"
           /\ \A u \in Threads \ {t} : ~MidWrite(u)
           /\ UNCHANGED <<next, latest, mode, acked, torn>>
<1>1. thread \in [Threads -> ThreadType] /\ thread[t] \in ThreadType
  BY DEF Types
<1>2. PICK p : p = IF n < 3 THEN "write"
                   ELSE IF thread[t].op = "commit_order" THEN "signal" ELSE "index"
  OBVIOUS
<1>3. thread' = [thread EXCEPT ![t].done = n, ![t].pc = p]
  BY <1>2, Zenon DEF Writes
<1>4. \A u \in Threads \ {t} : thread'[u] = thread[u]
  BY <1>1, <1>3
<1>5. /\ thread'[t].done = n /\ thread'[t].op = thread[t].op /\ thread'[t].pc = p
      /\ thread'[t].record = thread[t].record /\ thread'[t].gen = thread[t].gen
  BY <1>1, <1>3 DEF ThreadType
<1>6. thread[t].done \in 0 .. 3 /\ n \in thread[t].done + 1 .. 3
  BY <1>1 DEF Writes, ThreadType
<1>7. \A u \in Threads \ {t} : ~MidWrite(u)
  <2>1. \A u \in Threads : thread[u].done \in 0 .. 3
    BY <1>1 DEF ThreadType
  <2> QED BY <2>1 DEF WriteSome, WriteMutexFree, MidWrite
<1>8. UNCHANGED <<next, latest, mode, acked, torn>> /\ thread[t].pc = "write"
  BY DEF WriteSome, index, history
<1>9. n \in 1 .. 3
  BY <1>6
<1> QED BY <1>2, <1>4, <1>5, <1>7, <1>8, <1>9

\* The other steps of a caller move its program counter only, or end its call.
LEMMA CallerMoves ==
    ASSUME Types, NEW t \in Threads, UpdateIndex(t) \/ Signal(t)
    PROVE  /\ \A u \in Threads \ {t} : thread'[u] = thread[u]
           /\ thread'[t].record = thread[t].record /\ thread'[t].op = thread[t].op
           /\ thread'[t].done = thread[t].done
           /\ UpdateIndex(t) => thread[t].pc = "index" /\ thread'[t].pc = "signal"
           /\ Signal(t) => /\ thread[t].pc = "signal" /\ thread'[t].pc = "notify"
                           /\ thread'[t].gen = generation + 1 /\ latest' = latest
           /\ UNCHANGED <<file, next, mode, acked, torn>>
<1>1. thread \in [Threads -> ThreadType] /\ thread[t] \in ThreadType
  BY DEF Types
<1>2. CASE UpdateIndex(t)
  <2>1. thread' = [thread EXCEPT ![t].pc = "signal"] /\ thread[t].pc = "index"
    BY <1>2 DEF UpdateIndex
  <2>2. UNCHANGED <<file, next, mode, acked, torn>> /\ ~Signal(t)
    BY <1>2 DEF UpdateIndex, history, Signal
  <2> QED BY <1>1, <1>2, <2>1, <2>2 DEF ThreadType
<1>3. CASE Signal(t)
  <2>1. /\ thread' = [thread EXCEPT ![t].pc = "notify", ![t].gen = generation + 1]
        /\ thread[t].pc = "signal"
    BY <1>3 DEF Signal
  <2>2. UNCHANGED <<file, next, mode, acked, torn, latest>> /\ ~UpdateIndex(t)
    BY <1>3 DEF UpdateIndex, history, Signal, index
  <2> QED BY <1>1, <1>3, <2>1, <2>2 DEF ThreadType
<1> QED BY <1>2, <1>3

LEMMA CallEnds ==
    ASSUME Types, NEW t \in Threads, WriteFails(t) \/ Notify(t)
    PROVE  /\ \A u \in Threads \ {t} : thread'[u] = thread[u]
           /\ thread'[t] = Idle /\ thread'[t].pc = "idle"
           /\ UNCHANGED <<file, next, latest, mode>>
           /\ WriteFails(t) => acked' = acked
           /\ Notify(t) => thread[t].pc = "notify" /\ torn' = torn
<1>1. thread' = [thread EXCEPT ![t] = Idle]
  BY DEF WriteFails, Notify
<1>2. thread'[t] = Idle /\ \A u \in Threads \ {t} : thread'[u] = thread[u]
  BY <1>1 DEF Types
<1>3. Idle.pc = "idle"
  BY DEF Idle
<1>4. /\ UNCHANGED <<file, next, latest, mode>>
      /\ WriteFails(t) => acked' = acked
      /\ Notify(t) => thread[t].pc = "notify" /\ torn' = torn
  BY DEF WriteFails, Notify, index
<1> QED BY <1>2, <1>3, <1>4

LEMMA ThreadStep ==
    ASSUME StoreInv, [Next]_vars
    PROVE  ThreadInv'
<1>t. Types /\ ThreadInv /\ WrittenInv
  BY DEF StoreInv
<1>d. \A u \in Threads : thread[u].done \in 0 .. 3
  BY <1>t DEF Types, ThreadType
<1>n. next \in Nat \ {0}
  BY <1>t DEF Types
<1>1. ASSUME NEW t \in Threads, NEW op \in Operations, NEW id \in Orders \cup {NoOrder},
             TakeSequence(t, op, id)
      PROVE  ThreadInv'
  <2>1. /\ \A u \in Threads \ {t} : thread'[u] = thread[u]
        /\ thread'[t].pc = "write" /\ thread'[t].done = 0 /\ thread'[t].op = op
        /\ thread'[t].record \in Records /\ thread'[t].record.whole
        /\ thread'[t].record.seq = next /\ thread'[t].record.id = id
        /\ thread'[t].record.type = IF op = "append_event" THEN "event" ELSE "order"
        /\ op # "append_event" => id \in Orders
        /\ mode = "open" /\ next' = next + 1
        /\ UNCHANGED <<file, mode, latest, acked, torn>>
    BY <1>1, <1>t, TakeEffect
  <2>2. \A u \in Threads : thread[u].pc # "idle" => thread[u].record.seq < next'
    <3>1. \A u \in Threads : thread[u].pc # "idle" =>
            thread[u].record.seq \in Nat /\ thread[u].record.seq < next
      BY <1>t DEF ThreadInv, Records
    <3> QED BY <1>n, <2>1, <3>1
  <2>3. next < next'
    BY <1>n, <2>1
  <2> QED BY <1>t, <2>1, <2>2, <2>3 DEF ThreadInv, MidWrite
<1>2. ASSUME NEW t \in Threads, WriteSome(t) PROVE ThreadInv'
  <2>1. PICK n, b \in Nat : Writes(t, n, b)
    BY <1>2, <1>t, WriteEffect
  <2>2. /\ \A u \in Threads \ {t} : thread'[u] = thread[u]
        /\ thread'[t].done = n /\ thread'[t].op = thread[t].op
        /\ thread'[t].record = thread[t].record
        /\ n < 3 => thread'[t].pc = "write"
        /\ n = 3 => thread'[t].pc = IF thread[t].op = "commit_order" THEN "signal" ELSE "index"
        /\ n \in 1 .. 3 /\ thread[t].pc = "write"
        /\ \A u \in Threads \ {t} : ~MidWrite(u)
        /\ UNCHANGED <<next, mode>>
    BY <1>2, <1>t, <2>1, WriteCaller
  <2>3. thread'[t].pc # "idle" /\ (thread'[t].pc = "write" => thread'[t].done \in 0 .. 2)
    BY <2>2
  <2>4. \A u \in Threads \ {t} : ~MidWrite(u)'
    BY <2>2 DEF MidWrite
  <2> QED BY <1>t, <2>2, <2>3, <2>4 DEF ThreadInv
<1>3. ASSUME NEW t \in Threads, WriteFails(t) \/ Notify(t) PROVE ThreadInv'
  <2>1. /\ \A u \in Threads \ {t} : thread'[u] = thread[u]
        /\ thread'[t] = Idle /\ thread'[t].pc = "idle"
        /\ UNCHANGED <<next, mode>>
    BY <1>3, <1>t, CallEnds
  <2> QED BY <1>t, <2>1 DEF ThreadInv, MidWrite
<1>4. ASSUME NEW t \in Threads, UpdateIndex(t) \/ Signal(t) PROVE ThreadInv'
  <2>1. /\ \A u \in Threads \ {t} : thread'[u] = thread[u]
        /\ thread'[t].record = thread[t].record /\ thread'[t].op = thread[t].op
        /\ thread'[t].pc \in {"signal", "notify"} /\ thread[t].pc \in {"index", "signal"}
        /\ UNCHANGED <<next, mode>>
    BY <1>4, <1>t, CallerMoves
  <2> QED BY <1>t, <2>1 DEF ThreadInv, MidWrite
<1>5. CASE OfWorker
  <2>1. UNCHANGED <<thread, next, mode>>
    BY <1>5, WorkerLeavesFile
  <2> QED BY <1>t, <2>1 DEF ThreadInv, MidWrite
<1>6. CASE OfProcess
  <2>1. \A t \in Threads : thread'[t] = Idle /\ thread'[t].pc = "idle"
    BY <1>6, NobodyCalls
  <2> QED BY <2>1 DEF ThreadInv, MidWrite
<1> QED BY <1>1, <1>2, <1>3, <1>4, <1>5, <1>6, NextCases

\* A token of the new file is one of the old file, or the record being written.
LEMMA WriteTokens ==
    ASSUME StoreInv, NEW t \in Threads, NEW n \in Nat, NEW b \in Nat, Writes(t, n, b), WriteSome(t)
    PROVE  /\ \A i \in 1 .. Len(file') : file'[i] # NewLine =>
                 i = b + 1 \/ (i \in 1 .. b /\ i \in 1 .. Len(file) /\ file'[i] = file[i])
           /\ \A i \in 1 .. b : i \in 1 .. Len(file) /\ file[i] # NewLine =>
                 file[i].seq # thread[t].record.seq
           /\ \A i \in 1 .. Len(file) - 1 : file[i + 1] = NewLine =>
                 /\ i \in 1 .. b /\ i + 1 \in 1 .. b /\ i \in 1 .. Len(file') - 1
                 /\ file'[i] = file[i] /\ file'[i + 1] = NewLine
<1>t. Types /\ ThreadInv /\ WrittenInv /\ NumberInv
  BY DEF StoreInv
<1>1. file \in Seq(Tokens) /\ Len(file) \in Nat /\ thread[t].done \in 0 .. 2 /\ thread[t].pc = "write"
  BY <1>t DEF Types, ThreadInv, WriteSome
<1>2. \A i \in 1 .. Len(file') : file'[i] # NewLine =>
                 i = b + 1 \/ (i \in 1 .. b /\ i \in 1 .. Len(file) /\ file'[i] = file[i])
  <2>1. SUFFICES ASSUME NEW i \in 1 .. Len(file'), file'[i] # NewLine, i # b + 1
                 PROVE  i \in 1 .. b /\ i \in 1 .. Len(file) /\ file'[i] = file[i]
    BY Zenon
  <2>2. i # b + 2
    BY <2>1 DEF Writes
  <2>3. i \in 1 .. b
    BY <2>1, <2>2 DEF Writes
  <2>4. i \in 1 .. Len(file)
    BY <1>1, <2>3 DEF Writes
  <2> QED BY <2>3, <2>4 DEF Writes
<1>3. CASE thread[t].done = 0
  <2>1. Pending(t) /\ b = Len(file)
    BY <1>1, <1>3 DEF Pending, Writes
  <2>2. \A i \in 1 .. b : file[i] # NewLine => file[i].seq # thread[t].record.seq
    BY <1>t, <2>1 DEF NumberInv
  <2>3. \A i \in 1 .. Len(file) - 1 : i \in 1 .. b /\ i + 1 \in 1 .. b
    BY <1>1, <2>1
  <2>4. Len(file') >= b /\ \A i \in 1 .. b : file'[i] = file[i]
    BY <2>1 DEF Writes
  <2>5. \A i \in 1 .. Len(file) - 1 : i \in 1 .. Len(file') - 1
    BY <1>1, <2>1, <2>4 DEF Writes
  <2> QED BY <1>2, <2>2, <2>3, <2>4, <2>5
<1>4. CASE thread[t].done # 0
  <2>1. MidWrite(t) /\ b + 1 = Len(file)
    BY <1>1, <1>4 DEF MidWrite, Writes
  <2>2. file[Len(file)] # NewLine /\ file[Len(file)].seq = thread[t].record.seq
    BY <1>t, <2>1 DEF WrittenInv
  <2>3. \A i \in 1 .. b : file[i] # NewLine => file[i].seq # thread[t].record.seq
    <3>1. SUFFICES ASSUME NEW i \in 1 .. b, file[i] # NewLine
                   PROVE  file[i].seq # thread[t].record.seq
      OBVIOUS
    <3>2. i \in 1 .. Len(file) /\ Len(file) \in 1 .. Len(file) /\ i # Len(file)
      BY <1>1, <2>1
    <3> QED BY <1>t, <2>2, <3>1, <3>2 DEF NumberInv, NumbersAreUnique
  <2>4. \A i \in 1 .. Len(file) - 1 : file[i + 1] = NewLine => i \in 1 .. b /\ i + 1 \in 1 .. b
    <3>1. SUFFICES ASSUME NEW i \in 1 .. Len(file) - 1, file[i + 1] = NewLine
                   PROVE  i \in 1 .. b /\ i + 1 \in 1 .. b
      OBVIOUS
    <3>2. i + 1 # Len(file)
      BY <2>2, <3>1
    <3> QED BY <1>1, <2>1, <3>2
  <2>5. Len(file') >= b + 1 /\ \A i \in 1 .. b : file'[i] = file[i]
    BY <2>1 DEF Writes
  <2>6. \A i \in 1 .. Len(file) - 1 : i \in 1 .. Len(file') - 1
    BY <1>1, <2>1, <2>5 DEF Writes
  <2> QED BY <1>2, <2>3, <2>4, <2>5, <2>6
<1> QED BY <1>3, <1>4

LEMMA NumberStep ==
    ASSUME StoreInv, [Next]_vars
    PROVE  NumberInv'
<1>t. Types /\ ThreadInv /\ NumberInv /\ WrittenInv
  BY DEF StoreInv
<1>n. next \in Nat \ {0} /\ file \in Seq(Tokens)
  BY <1>t DEF Types
<1>f. \A i \in 1 .. Len(file) : file[i].seq \in Nat
  <2>1. \A i \in 1 .. Len(file) : file[i] \in Tokens
    BY <1>n
  <2> QED BY <2>1 DEF Tokens, Records, NewLine
<1>q. \A t \in Threads : thread[t].pc # "idle" => thread[t].record.seq \in Nat
  BY <1>t DEF ThreadInv, Records
<1>1. ASSUME NEW t \in Threads, NEW op \in Operations, NEW id \in Orders \cup {NoOrder},
             TakeSequence(t, op, id)
      PROVE  NumberInv'
  <2>1. /\ \A u \in Threads \ {t} : thread'[u] = thread[u]
        /\ thread'[t].pc = "write" /\ thread'[t].record.seq = next
        /\ mode = "open" /\ next' = next + 1 /\ UNCHANGED <<file, mode>>
    BY <1>1, <1>t, TakeEffect
  <2>2. \A i \in 1 .. Len(file) : file[i] # NewLine => file[i].seq < next
    BY <1>t, <2>1 DEF NumberInv, Up
  <2>3. \A i \in 1 .. Len(file) : file[i] # NewLine => file[i].seq < next' /\ file[i].seq # next
    BY <1>n, <1>f, <2>1, <2>2
  <2>4. \A u \in Threads : thread[u].pc # "idle" => thread[u].record.seq # next
    BY <1>t, <1>n, <1>q DEF ThreadInv
  <2>5. NumbersAreUnique'
    BY <1>t, <2>1 DEF NumberInv, NumbersAreUnique
  <2>6. (Up => \A i \in 1 .. Len(file) : file[i] # NewLine => file[i].seq < next)'
    BY <2>1, <2>3
  <2>7. ASSUME NEW u \in Threads, Pending(u)'
        PROVE  \A i \in 1 .. Len(file') : file'[i] # NewLine => file'[i].seq # thread'[u].record.seq
    <3>1. CASE u = t
      BY <2>1, <2>3, <3>1
    <3>2. CASE u # t
      BY <1>t, <2>1, <2>7, <3>2 DEF NumberInv, Pending
    <3> QED BY <3>1, <3>2
  <2>8. ASSUME NEW u \in Threads, NEW v \in Threads, Pending(u)', Pending(v)', u # v
        PROVE  thread'[u].record.seq # thread'[v].record.seq
    <3>1. \A x \in Threads \ {t} : Pending(x)' => Pending(x) /\ thread[x].pc # "idle"
      BY <2>1 DEF Pending
    <3>2. CASE u = t
      BY <2>1, <2>4, <2>8, <3>1, <3>2
    <3>3. CASE v = t
      BY <2>1, <2>4, <2>8, <3>1, <3>3
    <3>4. CASE u # t /\ v # t
      BY <1>t, <2>1, <2>8, <3>1, <3>4 DEF NumberInv
    <3> QED BY <3>2, <3>3, <3>4
  <2> QED BY <2>5, <2>6, <2>7, <2>8 DEF NumberInv
<1>2. ASSUME NEW t \in Threads, WriteSome(t) PROVE NumberInv'
  <2>1. PICK n, b \in Nat : Writes(t, n, b)
    BY <1>2, <1>t, WriteEffect
  <2>2. /\ \A u \in Threads \ {t} : thread'[u] = thread[u]
        /\ thread'[t].done = n /\ thread'[t].record = thread[t].record
        /\ n \in 1 .. 3 /\ thread[t].pc = "write"
        /\ UNCHANGED <<next, mode>>
    BY <1>2, <1>t, <2>1, WriteCaller
  <2>3. /\ \A i \in 1 .. Len(file') : file'[i] # NewLine =>
                 i = b + 1 \/ (i \in 1 .. b /\ i \in 1 .. Len(file) /\ file'[i] = file[i])
        /\ \A i \in 1 .. b : i \in 1 .. Len(file) /\ file[i] # NewLine =>
                 file[i].seq # thread[t].record.seq
    BY <1>2, <2>1, WriteTokens
  <2>4. file'[b + 1].seq = thread[t].record.seq
    BY <2>1 DEF Writes
  <2>5. ~Pending(t)' /\ \A u \in Threads : Pending(u)' => u # t /\ Pending(u)
    BY <2>2 DEF Pending
  <2>6. NumbersAreUnique'
    <3>1. SUFFICES ASSUME NEW i \in 1 .. Len(file'), NEW j \in 1 .. Len(file'),
                          i # j, file'[i] # NewLine, file'[j] # NewLine
                   PROVE  file'[i].seq # file'[j].seq
      BY DEF NumbersAreUnique
    <3>2. CASE i = b + 1
      BY <2>3, <2>4, <3>1, <3>2
    <3>3. CASE j = b + 1
      BY <2>3, <2>4, <3>1, <3>3
    <3>4. CASE i # b + 1 /\ j # b + 1
      BY <1>t, <2>3, <3>1, <3>4 DEF NumberInv, NumbersAreUnique
    <3> QED BY <3>2, <3>3, <3>4
  <2>7. (Up => \A i \in 1 .. Len(file) : file[i] # NewLine => file[i].seq < next)'
    <3>1. thread[t].record.seq < next /\ Up
      BY <1>t, <2>2 DEF ThreadInv, Up
    <3> QED BY <1>t, <2>2, <2>3, <2>4, <3>1 DEF NumberInv
  <2>8. ASSUME NEW u \in Threads, Pending(u)'
        PROVE  \A i \in 1 .. Len(file') : file'[i] # NewLine => file'[i].seq # thread'[u].record.seq
    <3>1. u # t /\ Pending(u) /\ thread'[u] = thread[u] /\ thread[u].done = 0 /\ thread[u].pc = "write"
      BY <2>2, <2>5, <2>8 DEF Pending
    <3>2. thread[u].record.seq # thread[t].record.seq
      <4>1. CASE thread[t].done = 0
        BY <1>t, <2>2, <3>1, <4>1 DEF NumberInv, Pending
      <4>2. CASE thread[t].done # 0
        <5>1. MidWrite(t)
          BY <1>t, <2>2, <4>2, SMTT(30) DEF MidWrite, Types, ThreadType
        <5>2. Len(file) \in 1 .. Len(file) /\ file[Len(file)] # NewLine
                /\ file[Len(file)].seq = thread[t].record.seq
          BY <1>t, <1>n, <5>1 DEF WrittenInv
        <5> QED BY <1>t, <3>1, <5>2 DEF NumberInv
      <4> QED BY <4>1, <4>2
    <3>3. \A i \in 1 .. Len(file) : file[i] # NewLine => file[i].seq # thread[u].record.seq
      BY <1>t, <3>1 DEF NumberInv
    <3> QED BY <2>3, <2>4, <3>1, <3>2, <3>3
  <2>9. ASSUME NEW u \in Threads, NEW v \in Threads, Pending(u)', Pending(v)', u # v
        PROVE  thread'[u].record.seq # thread'[v].record.seq
    BY <1>t, <2>2, <2>5, <2>9 DEF NumberInv
  <2> QED BY <2>6, <2>7, <2>8, <2>9 DEF NumberInv
<1>3. ASSUME NEW t \in Threads, UNCHANGED <<file, next, mode>>, thread'[t].pc # "write",
             \A u \in Threads \ {t} : thread'[u] = thread[u]
      PROVE  NumberInv'
  <2>1. \A u \in Threads : Pending(u)' => Pending(u) /\ thread'[u] = thread[u]
    BY <1>3 DEF Pending
  <2>2. Up' = Up
    BY <1>3 DEF Up
  <2>3. NumbersAreUnique'
    BY <1>3, <1>t DEF NumberInv, NumbersAreUnique
  <2> QED BY <1>t, <1>3, <2>1, <2>2, <2>3 DEF NumberInv
<1>4. ASSUME NEW t \in Threads, WriteFails(t) \/ Notify(t) PROVE NumberInv'
  <2>1. /\ \A u \in Threads \ {t} : thread'[u] = thread[u]
        /\ thread'[t].pc = "idle"
        /\ UNCHANGED <<file, next, mode>>
    BY <1>4, <1>t, CallEnds
  <2> QED BY <1>3, <2>1
<1>5. ASSUME NEW t \in Threads, UpdateIndex(t) \/ Signal(t) PROVE NumberInv'
  <2>1. /\ \A u \in Threads \ {t} : thread'[u] = thread[u]
        /\ thread'[t].pc \in {"signal", "notify"}
        /\ UNCHANGED <<file, next, mode>>
    BY <1>5, <1>t, CallerMoves
  <2> QED BY <1>3, <2>1
<1>6. CASE OfWorker
  <2>1. UNCHANGED <<file, thread, next, mode>>
    BY <1>6, WorkerLeavesFile
  <2> QED BY <1>t, <2>1 DEF NumberInv, NumbersAreUnique, Pending, Up
<1>7. CASE OfProcess
  <2>1. \A t \in Threads : ~Pending(t)'
    BY <1>7, NobodyCalls DEF Pending
  <2>2. SUFFICES NumbersAreUnique' /\
                 (Up' => \A i \in 1 .. Len(file') : file'[i] # NewLine => file'[i].seq < next')
    BY <2>1 DEF NumberInv
  <2>3. CASE CloseBegin \/ CloseEnd \/ RefuseToStart
    <3>1. UNCHANGED <<file, next>> /\ (Up' => Up)
      BY <2>3 DEF CloseBegin, CloseEnd, RefuseToStart, Up
    <3> QED BY <1>t, <3>1 DEF NumberInv, NumbersAreUnique
  <2>4. CASE ProcessDies
    <3>1. UNCHANGED file /\ ~Up'
      BY <2>4 DEF ProcessDies, Die, Up
    <3> QED BY <1>t, <3>1 DEF NumberInv, NumbersAreUnique
  <2>5. CASE PowerLoss
    <3>1. ~Up'
      BY <2>5 DEF PowerLoss, Die, Up
    <3>2. PICK k \in Nat : Cuts(k)
      BY <1>t, <2>5, PowerLossEffect
    <3>3. \A i \in 1 .. Len(file') : i \in 1 .. Len(file) /\ i \in 1 .. k
      BY <1>t, <3>2 DEF Cuts, Types
    <3>4. \A i \in 1 .. Len(file') : file'[i] # NewLine => file[i] # NewLine /\ file'[i].seq = file[i].seq
      BY <3>2, <3>3 DEF Cuts
    <3> QED BY <1>t, <3>1, <3>3, <3>4 DEF NumberInv, NumbersAreUnique
  <2>6. CASE Recover
    <3>1. ~InvalidRecord(file) /\ file' = Repaired(file) /\ next' = NextAfter(file)
      BY <2>6 DEF Recover
    <3>2. \A i \in 1 .. Len(file') : file'[i] # NewLine =>
            i \in Starts(file) /\ Valid(file, i) /\ file'[i] = file[i]
      BY <1>n, <3>1, RepairedLines
    <3>3. \A i \in Starts(file) : i \in 1 .. Len(file)
      BY DEF Starts
    <3>4. NumbersAreUnique'
      BY <1>t, <3>2, <3>3 DEF NumberInv, NumbersAreUnique
    <3>5. \A i \in 1 .. Len(file') : file'[i] # NewLine => file'[i].seq < next'
      BY <1>n, <3>1, <3>2, RecoveredNumbers
    <3> QED BY <3>4, <3>5
  <2>7. CASE RepairFails
    <3>1. ~InvalidRecord(file) /\ file' = Repaired(file) /\ ~Up'
      BY <2>7 DEF RepairFails, Up
    <3>2. \A i \in 1 .. Len(file') : file'[i] # NewLine =>
            i \in Starts(file) /\ file'[i] = file[i]
      BY <1>n, <3>1, RepairedLines
    <3>3. \A i \in Starts(file) : i \in 1 .. Len(file)
      BY DEF Starts
    <3> QED BY <1>t, <3>1, <3>2, <3>3 DEF NumberInv, NumbersAreUnique
  <2> QED BY <1>7, <2>3, <2>4, <2>5, <2>6, <2>7 DEF OfProcess
<1> QED BY <1>1, <1>2, <1>4, <1>5, <1>6, <1>7, NextCases

LEMMA WrittenStep ==
    ASSUME StoreInv, [Next]_vars
    PROVE  WrittenInv'
<1>t. Types /\ ThreadInv /\ NumberInv /\ WrittenInv
  BY DEF StoreInv
<1>1. ASSUME NEW t \in Threads, NEW op \in Operations, NEW id \in Orders \cup {NoOrder},
             TakeSequence(t, op, id)
      PROVE  WrittenInv'
  <2>1. /\ \A u \in Threads \ {t} : thread'[u] = thread[u]
        /\ thread'[t].pc = "write" /\ thread'[t].done = 0
        /\ UNCHANGED file
    BY <1>1, <1>t, TakeEffect
  <2> QED BY <1>t, <2>1 DEF WrittenInv, MidWrite
<1>2. ASSUME NEW t \in Threads, WriteSome(t) PROVE WrittenInv'
  <2>1. PICK n, b \in Nat : Writes(t, n, b)
    BY <1>2, <1>t, WriteEffect
  <2>2. /\ \A u \in Threads \ {t} : thread'[u] = thread[u]
        /\ thread'[t].done = n /\ thread'[t].record = thread[t].record
        /\ n < 3 => thread'[t].pc = "write"
        /\ n = 3 => thread'[t].pc = IF thread[t].op = "commit_order" THEN "signal" ELSE "index"
        /\ n \in 1 .. 3 /\ thread[t].pc = "write"
        /\ \A u \in Threads \ {t} : ~MidWrite(u)
    BY <1>2, <1>t, <2>1, WriteCaller
  <2>3. \A i \in 1 .. Len(file) - 1 : file[i + 1] = NewLine =>
                 /\ i \in 1 .. Len(file') - 1
                 /\ file'[i] = file[i] /\ file'[i + 1] = NewLine
    BY <1>2, <2>1, WriteTokens
  <2>4. \A u \in Threads : MidWrite(u)' => u = t /\ n < 3
    BY <2>2 DEF MidWrite
  <2>5. n < 3 => Len(file') = b + 1 /\ file'[b + 1] # NewLine
                   /\ file'[b + 1].seq = thread[t].record.seq
    BY <2>1, <2>2 DEF Writes
  <2>6. ASSUME NEW u \in Threads, thread'[u].pc \in {"index", "signal", "notify"}
        PROVE  \E i \in 1 .. Len(file') - 1 : file'[i] = thread'[u].record /\ file'[i + 1] = NewLine
    <3>1. CASE u = t
      <4>1. n = 3
        BY <2>2, <2>6, <3>1
      <4>2. /\ Len(file') = b + 2 /\ file'[b + 1] = thread[t].record /\ file'[b + 2] = NewLine
        BY <2>1, <4>1 DEF Writes
      <4>3. b + 1 \in 1 .. Len(file') - 1 /\ (b + 1) + 1 = b + 2
        BY <4>2
      <4> QED BY <2>2, <3>1, <4>2, <4>3
    <3>2. CASE u # t
      <4>1. PICK i \in 1 .. Len(file) - 1 : file[i] = thread[u].record /\ file[i + 1] = NewLine
        BY <1>t, <2>2, <2>6, <3>2 DEF WrittenInv
      <4> QED BY <2>2, <2>3, <3>2, <4>1
    <3> QED BY <3>1, <3>2
  <2>7. ASSUME NEW u \in Threads, MidWrite(u)'
        PROVE  /\ Len(file') > 0
               /\ file'[Len(file')] # NewLine /\ file'[Len(file')].seq = thread'[u].record.seq
    BY <2>2, <2>4, <2>5, <2>7
  <2> QED BY <2>6, <2>7 DEF WrittenInv
<1>3. ASSUME NEW t \in Threads, WriteFails(t) \/ Notify(t) PROVE WrittenInv'
  <2>1. /\ \A u \in Threads \ {t} : thread'[u] = thread[u]
        /\ thread'[t].pc = "idle" /\ UNCHANGED file
    BY <1>3, <1>t, CallEnds
  <2> QED BY <1>t, <2>1 DEF WrittenInv, MidWrite
<1>4. ASSUME NEW t \in Threads, UpdateIndex(t) \/ Signal(t) PROVE WrittenInv'
  <2>1. /\ \A u \in Threads \ {t} : thread'[u] = thread[u]
        /\ thread'[t].record = thread[t].record
        /\ thread'[t].pc \in {"signal", "notify"} /\ thread[t].pc \in {"index", "signal"}
        /\ UNCHANGED file
    BY <1>4, <1>t, CallerMoves
  <2> QED BY <1>t, <2>1 DEF WrittenInv, MidWrite
<1>5. CASE OfWorker
  <2>1. UNCHANGED <<thread, file>>
    BY <1>5, WorkerLeavesFile
  <2> QED BY <1>t, <2>1 DEF WrittenInv, MidWrite
<1>6. CASE OfProcess
  <2>1. \A t \in Threads : thread'[t].pc = "idle"
    BY <1>6, NobodyCalls
  <2> QED BY <2>1 DEF WrittenInv, MidWrite
<1> QED BY <1>1, <1>2, <1>3, <1>4, <1>5, <1>6, NextCases

(***************************************************************************)
(* The sync worker                                                         *)
(***************************************************************************)
\* What the steps leave alone of the worker's part.
LEMMA CallersLeaveWorker ==
    ASSUME Types, NEW t \in Threads,
           \/ WriteSome(t) \/ WriteFails(t) \/ UpdateIndex(t) \/ Signal(t) \/ Notify(t)
           \/ \E op \in Operations, id \in Orders \cup {NoOrder} : TakeSequence(t, op, id)
    PROVE  /\ UNCHANGED <<synced, stop, durable, syncFailed, mode>>
           /\ generation' = IF Signal(t) THEN generation + 1 ELSE generation
           /\ worker'.target = worker.target /\ worker'.upTo = worker.upTo
           /\ worker'.pc # worker.pc => worker'.pc = "check" /\ worker.pc = "sleeping"
<1>1. CASE Notify(t)
  <2>1. worker' = Woken /\ UNCHANGED <<generation, synced, stop, durable, syncFailed, mode>>
    BY <1>1 DEF Notify
  <2>2. ~Signal(t)
    BY <1>1 DEF Notify, Signal
  <2> QED BY <2>1, <2>2, WokenIsTyped
<1>2. CASE Signal(t)
  BY <1>2 DEF Signal, history
<1>3. CASE \/ WriteSome(t) \/ WriteFails(t) \/ UpdateIndex(t)
           \/ \E op \in Operations, id \in Orders \cup {NoOrder} : TakeSequence(t, op, id)
  <2>1. UNCHANGED <<generation, synced, stop, durable, syncFailed, mode, worker>>
    BY <1>3 DEF WriteSome, WriteFails, UpdateIndex, TakeSequence, sync, history
  <2>2. ~Signal(t)
    <3>1. WriteSome(t) \/ WriteFails(t) \/ UpdateIndex(t) => thread[t].pc \in {"write", "index"}
      BY DEF WriteSome, WriteFails, UpdateIndex
    <3>2. ASSUME NEW op \in Operations, NEW id \in Orders \cup {NoOrder}, TakeSequence(t, op, id)
          PROVE  thread[t].pc = "idle"
      BY <3>2 DEF TakeSequence, Idle
    <3> QED BY <1>3, <3>1, <3>2, SMTT(30) DEF Signal
  <2>3. /\ worker'.target = worker.target /\ worker'.upTo = worker.upTo /\ worker'.pc = worker.pc
        /\ generation' = generation
    BY <2>1
  <2> QED BY <2>1, <2>2, <2>3, SMTT(30)
<1> QED BY <1>1, <1>2, <1>3

\* The file never gets shorter while the store exists, and finished lines stay where they are.
LEMMA LinesStay ==
    ASSUME StoreInv, NEW t \in Threads,
           \/ WriteSome(t) \/ WriteFails(t) \/ UpdateIndex(t) \/ Signal(t) \/ Notify(t)
           \/ \E op \in Operations, id \in Orders \cup {NoOrder} : TakeSequence(t, op, id)
    PROVE  /\ Len(file') \in Nat /\ Len(file') >= Len(file)
           /\ \A i \in 1 .. Len(file) - 1 : file[i + 1] = NewLine =>
                 /\ i \in 1 .. Len(file') - 1
                 /\ file'[i] = file[i] /\ file'[i + 1] = NewLine
<1>t. Types /\ ThreadInv /\ WrittenInv /\ Len(file) \in Nat
  BY DEF StoreInv, Types
<1>1. CASE WriteSome(t)
  <2>1. PICK n, b \in Nat : Writes(t, n, b)
    BY <1>1, <1>t, WriteEffect
  <2>2. Len(file') \in Nat /\ Len(file') >= Len(file)
    BY <1>t, <2>1 DEF Writes
  <2>3. \A i \in 1 .. Len(file) - 1 : file[i + 1] = NewLine =>
                 /\ i \in 1 .. Len(file') - 1
                 /\ file'[i] = file[i] /\ file'[i + 1] = NewLine
    BY <1>1, <2>1, WriteTokens
  <2> QED BY <2>2, <2>3
<1>2. CASE UNCHANGED file
  BY <1>t, <1>2
<1> QED BY <1>1, <1>2 DEF WriteFails, UpdateIndex, Signal, Notify, TakeSequence

LEMMA WorkerInvStep ==
    ASSUME StoreInv, [Next]_vars
    PROVE  WorkerInv'
<1>t. Types /\ ThreadInv /\ WorkerInv /\ worker \in [pc : WorkerSteps, target : Nat, upTo : Nat]
  BY DEF StoreInv, Types
<1>n. generation \in Nat /\ synced \in Nat /\ Len(file) \in Nat
  BY <1>t DEF Types
<1>1. ASSUME NEW t \in Threads,
             \/ WriteSome(t) \/ WriteFails(t) \/ UpdateIndex(t) \/ Signal(t) \/ Notify(t)
             \/ \E op \in Operations, id \in Orders \cup {NoOrder} : TakeSequence(t, op, id)
      PROVE  WorkerInv'
  <2>1. /\ UNCHANGED <<synced, stop, mode>>
        /\ generation' = IF Signal(t) THEN generation + 1 ELSE generation
        /\ worker'.target = worker.target /\ worker'.upTo = worker.upTo
        /\ worker'.pc # worker.pc => worker'.pc = "check" /\ worker.pc = "sleeping"
    BY <1>1, <1>t, CallersLeaveWorker
  <2>2. Len(file') \in Nat /\ Len(file') >= Len(file)
    BY <1>1, LinesStay
  <2>3. Up' = Up /\ generation' \in Nat /\ generation' >= generation
    BY <1>n, <2>1 DEF Up
  <2>4. worker.target \in Nat /\ worker.upTo \in Nat
    BY <1>t
  <2>5. synced <= generation => synced' <= generation'
    BY <1>n, <2>1, <2>3
  <2>6. worker.target <= generation => worker'.target <= generation'
    BY <1>n, <2>1, <2>3, <2>4
  <2>7. worker.upTo <= Len(file) => worker'.upTo <= Len(file')
    BY <1>n, <2>1, <2>2, <2>4
  <2>9. mode = "closed" => worker'.pc = worker.pc \/ ~Up
    BY <1>t, <2>1 DEF WorkerInv
  <2> QED BY <1>t, <2>1, <2>3, <2>5, <2>6, <2>7, <2>9 DEF WorkerInv
<1>2. CASE OfWorker
  <2>f. UNCHANGED <<file, mode>> /\ Up' = Up
    BY <1>2, WorkerLeavesFile DEF Up
  <2>1. CASE WorkerCheck
    <3>1. /\ worker'.pc = AfterCheck /\ Running
          /\ UNCHANGED <<generation, synced, stop>>
      BY <1>t, <2>1 DEF WorkerCheck
    <3>2. worker'.pc \in {"final", "ended"} => stop
      BY <3>1 DEF AfterCheck
    <3>3. worker'.pc \in {"final", "ended", "load", "enter"} /\ worker.pc = "check"
      BY <2>1, <3>1 DEF AfterCheck, WorkerCheck
    <3> QED BY <1>t, <2>f, <3>1, <3>2, <3>3 DEF WorkerInv, Running
  <2>2. CASE WorkerSleep \/ SpuriousWakeup
    <3>1. worker'.pc \in {"sleeping", "check"} /\ UNCHANGED <<generation, synced, stop>>
           /\ worker.pc \in {"enter", "sleeping"}
      BY <1>t, <2>2 DEF WorkerSleep, SpuriousWakeup, Woken
    <3> QED BY <1>t, <2>f, <3>1 DEF WorkerInv
  <2>3. CASE WorkerLoad
    <3>1. worker'.pc = "flush" /\ worker'.target = generation /\ UNCHANGED <<generation, synced, stop>>
           /\ worker.pc = "load"
      BY <1>t, <2>3 DEF WorkerLoad
    <3> QED BY <1>t, <1>n, <2>f, <3>1 DEF WorkerInv
  <2>4. CASE FlushBegin
    <3>1. /\ worker'.pc = IF worker.pc = "flush" THEN "flushed" ELSE "finalFlushed"
          /\ worker'.target = worker.target /\ worker'.upTo = Len(file)
          /\ UNCHANGED <<generation, synced, stop>> /\ worker.pc \in {"flush", "final"}
      BY <1>t, <2>4 DEF FlushBegin
    <3> QED BY <1>t, <1>n, <2>f, <3>1 DEF WorkerInv
  <2>5. CASE FlushEnd
    <3>1. /\ worker.pc \in {"flushed", "finalFlushed"}
          /\ worker.pc = "flushed" => worker'.pc = "check" /\ synced' = worker.target
          /\ worker.pc = "finalFlushed" => worker'.pc = "ended" /\ synced' = synced
          /\ UNCHANGED <<generation, stop>>
      BY <2>5 DEF FlushEnd, Resting, SyncedTo
    <3>2. Up
      BY <2>5 DEF FlushEnd, Running, Up
    <3> QED BY <1>t, <1>n, <2>f, <3>1, <3>2 DEF WorkerInv
  <2>6. CASE UNCHANGED vars
    BY <1>t, <2>6 DEF vars, WorkerInv, Up
  <2> QED BY <1>2, <2>1, <2>2, <2>3, <2>4, <2>5, <2>6 DEF OfWorker, WorkerStep
<1>3. CASE OfProcess
  <2>1. CASE CloseBegin
    <3>1. /\ mode = "open" /\ mode' = "closing" /\ stop' = TRUE /\ worker' = Woken
          /\ UNCHANGED <<file, generation, synced>>
      BY <2>1 DEF CloseBegin
    <3>2. /\ worker'.target = worker.target /\ worker'.upTo = worker.upTo
          /\ worker'.pc # worker.pc => worker'.pc = "check" /\ worker.pc = "sleeping"
      BY <1>t, <3>1, WokenIsTyped
    <3> QED BY <1>t, <3>1, <3>2 DEF WorkerInv, Up
  <2>2. CASE CloseEnd
    BY <1>t, <2>2 DEF CloseEnd, WorkerInv, Up, sync
  <2>3. CASE ProcessDies \/ PowerLoss \/ RepairFails \/ RefuseToStart
    BY <1>t, <2>3 DEF ProcessDies, PowerLoss, Die, RepairFails, RefuseToStart, WorkerInv, Up, sync
  <2>4. CASE Recover
    <3>1. mode' = "open" /\ stop' = FALSE /\ generation' = 0 /\ synced' = 0 /\ worker'.pc = "check"
      BY <2>4 DEF Recover, Fresh, Resting
    <3> QED BY <3>1 DEF WorkerInv, Up
  <2> QED BY <1>3, <2>1, <2>2, <2>3, <2>4 DEF OfProcess
<1> QED BY <1>1, <1>2, <1>3, NextCases

LEMMA SignedMembers ==
    /\ \A a \in acked : a.gen > 0 => <<a.seq, a.gen>> \in Signed
    /\ \A t \in Threads : thread[t].pc = "notify" =>
           <<thread[t].record.seq, thread[t].gen>> \in Signed
    /\ \A x \in Signed : \/ \E a \in acked : a.gen > 0 /\ x = <<a.seq, a.gen>>
                         \/ \E t \in Threads : thread[t].pc = "notify"
                                /\ x = <<thread[t].record.seq, thread[t].gen>>
BY DEF Signed

\* No step but signal_sync counts an append.
LEMMA SignedStays ==
    ASSUME StoreInv, NEW t \in Threads,
           \/ WriteSome(t) \/ WriteFails(t) \/ UpdateIndex(t) \/ Signal(t) \/ Notify(t)
           \/ \E op \in Operations, id \in Orders \cup {NoOrder} : TakeSequence(t, op, id),
           NEW x \in Signed'
    PROVE  x \in Signed \/ (Signal(t) /\ x = <<thread[t].record.seq, generation + 1>>)
<1>t. Types /\ ThreadInv /\ WrittenInv
  BY DEF StoreInv
<1>1. \/ \E a \in acked' : a.gen > 0 /\ x = <<a.seq, a.gen>>
      \/ \E u \in Threads : thread'[u].pc = "notify"
             /\ x = <<thread'[u].record.seq, thread'[u].gen>>
  BY DEF Signed
<1>2. /\ \A u \in Threads \ {t} : thread'[u] = thread[u]
      /\ ~Signal(t) => thread'[t].pc # "notify"
      /\ Signal(t) => thread'[t].gen = generation + 1 /\ thread'[t].record = thread[t].record
      /\ ~Notify(t) => acked' = acked
  <2>1. CASE \E op \in Operations, id \in Orders \cup {NoOrder} : TakeSequence(t, op, id)
    <3>1. ~Signal(t)
      BY <2>1 DEF TakeSequence, Signal, Idle
    <3> QED BY <1>t, <2>1, <3>1, TakeEffect
  <2>2. CASE WriteSome(t)
    <3>1. PICK n, b \in Nat : Writes(t, n, b)
      BY <1>t, <2>2, WriteEffect
    <3>2. /\ \A u \in Threads \ {t} : thread'[u] = thread[u]
          /\ n < 3 => thread'[t].pc = "write"
          /\ n = 3 => thread'[t].pc = IF thread[t].op = "commit_order" THEN "signal" ELSE "index"
          /\ n \in 1 .. 3 /\ thread[t].pc = "write" /\ acked' = acked
      BY <1>t, <2>2, <3>1, WriteCaller
    <3>3. thread'[t].pc # "notify"
      BY <3>2
    <3> QED BY <3>2, <3>3 DEF Signal
  <2>3. CASE WriteFails(t) \/ Notify(t)
    <3>1. ~Signal(t)
      BY <2>3 DEF WriteFails, Notify, Signal
    <3> QED BY <1>t, <2>3, <3>1, CallEnds
  <2>4. CASE UpdateIndex(t) \/ Signal(t)
    <3>1. UpdateIndex(t) => ~Signal(t)
      BY DEF UpdateIndex, Signal
    <3> QED BY <1>t, <2>4, <3>1, CallerMoves
  <2> QED BY <2>1, <2>2, <2>3, <2>4
<1>3. ASSUME NEW a \in acked', a.gen > 0, x = <<a.seq, a.gen>> PROVE x \in Signed
  <2>1. CASE a \in acked
    BY <1>3, <2>1, SignedMembers
  <2>2. CASE a \notin acked
    <3>1. Notify(t)
      BY <1>2, <2>2
    <3>2. a = [seq |-> thread[t].record.seq, gen |-> thread[t].gen,
               op |-> thread[t].op, id |-> thread[t].record.id] /\ thread[t].pc = "notify"
      BY <2>2, <3>1 DEF Notify
    <3> QED BY <1>3, <3>2, SignedMembers
  <2> QED BY <2>1, <2>2
<1>4. ASSUME NEW u \in Threads, thread'[u].pc = "notify",
             x = <<thread'[u].record.seq, thread'[u].gen>>
      PROVE  x \in Signed \/ (Signal(t) /\ x = <<thread[t].record.seq, generation + 1>>)
  <2>1. CASE u = t
    BY <1>2, <1>4, <2>1
  <2>2. CASE u # t
    BY <1>2, <1>4, <2>2, SignedMembers
  <2> QED BY <2>1, <2>2
<1> QED BY <1>1, <1>3, <1>4

\* Finished lines that stay where they are, with what else the file may get.
LinesOf(f, g) ==
    \A i \in 1 .. Len(f) - 1 : f[i + 1] = NewLine =>
        /\ i \in 1 .. Len(g) - 1
        /\ g[i] = f[i] /\ g[i + 1] = NewLine

LEMMA CoveredStays ==
    ASSUME NEW f, NEW h, NEW S, NEW T, NEW g, NEW n, LinesOf(f, h), Covered(S, f, g, n),
           \A x \in T : x[2] <= g => x \in S
    PROVE  Covered(T, h, g, n)
<1>1. SUFFICES ASSUME NEW x \in T, x[2] <= g PROVE Stored(h, x[1], n)
  BY DEF Covered
<1>2. PICK i \in 1 .. Len(f) - 1 :
         i < n /\ f[i] # NewLine /\ f[i].whole /\ f[i + 1] = NewLine /\ f[i].seq = x[1]
  BY <1>1 DEF Covered, Stored
<1>3. i \in 1 .. Len(h) - 1 /\ h[i] = f[i] /\ h[i + 1] = NewLine
  BY <1>2 DEF LinesOf
<1> QED BY <1>2, <1>3 DEF Stored

\* Less is covered by more of the file.
LEMMA CoveredFurther ==
    ASSUME NEW f, NEW S, NEW g \in Nat, NEW h \in Nat, NEW m \in Nat, NEW n \in Nat,
           m <= n, h <= g, \A x \in S : x[2] \in Nat, Covered(S, f, g, m)
    PROVE  Covered(S, f, h, n)
<1>1. SUFFICES ASSUME NEW x \in S, x[2] <= h PROVE Stored(f, x[1], n)
  BY DEF Covered
<1>2. x[2] <= g
  BY <1>1
<1>3. PICK i \in 1 .. Len(f) - 1 :
         i < m /\ f[i] # NewLine /\ f[i].whole /\ f[i + 1] = NewLine /\ f[i].seq = x[1]
  BY <1>2 DEF Covered, Stored
<1>4. i < n
  BY <1>3
<1> QED BY <1>3, <1>4 DEF Stored

\* A line of the file ends within it.
LEMMA StoredAtAll ==
    ASSUME NEW f \in Seq(Tokens), NEW s, NEW n, Stored(f, s, n)
    PROVE  Stored(f, s, Len(f))
<1>1. PICK i \in 1 .. Len(f) - 1 :
         f[i] # NewLine /\ f[i].whole /\ f[i + 1] = NewLine /\ f[i].seq = s
  BY DEF Stored
<1>2. i < Len(f)
  OBVIOUS
<1> QED BY <1>1, <1>2 DEF Stored

LEMMA SyncStep ==
    ASSUME StoreInv, [Next]_vars, Types'
    PROVE  SyncInv'
<1>t. Types /\ ThreadInv /\ WrittenInv /\ WorkerInv /\ SyncInv
  BY DEF StoreInv
<1>n. /\ generation \in Nat /\ synced \in Nat /\ Len(file) \in Nat /\ durable \in Nat
      /\ worker.target \in Nat /\ worker.upTo \in Nat /\ file \in Seq(Tokens)
  BY <1>t DEF Types
<1>m. file' \in Seq(Tokens) /\ Len(file') \in Nat /\ durable' \in Nat
  BY DEF Types
<1>1. ASSUME NEW t \in Threads,
             \/ WriteSome(t) \/ WriteFails(t) \/ UpdateIndex(t) \/ Signal(t) \/ Notify(t)
             \/ \E op \in Operations, id \in Orders \cup {NoOrder} : TakeSequence(t, op, id)
      PROVE  SyncInv'
  <2>1. /\ UNCHANGED <<synced, stop, mode, durable, syncFailed>>
        /\ generation' = IF Signal(t) THEN generation + 1 ELSE generation
        /\ worker'.target = worker.target /\ worker'.upTo = worker.upTo
        /\ worker'.pc # worker.pc => worker'.pc = "check" /\ worker.pc = "sleeping"
    BY <1>1, <1>t, CallersLeaveWorker
  <2>2. Len(file') >= Len(file) /\ LinesOf(file, file')
    BY <1>1, LinesStay DEF LinesOf
  <2>4. \A x \in Signed' :
            x \in Signed \/ (Signal(t) /\ x = <<thread[t].record.seq, generation + 1>>)
    BY <1>1, SignedStays
  <2>5. Up' = Up
    BY <2>1 DEF Up
  <2>6. SUFFICES ASSUME Up PROVE
          /\ \A x \in Signed' : x[2] \in 1 .. generation'
          /\ Covered(Signed', file', generation', Len(file'))
          /\ ~syncFailed => Covered(Signed', file', synced, durable)
          /\ worker.pc = "flushed" => Covered(Signed', file', worker.target, worker.upTo)
          /\ worker.pc = "finalFlushed" => Covered(Signed', file', generation', worker.upTo)
          /\ worker.pc = "ended" /\ ~syncFailed => Covered(Signed', file', generation', durable)
    BY <2>1, <2>5 DEF SyncInv
  <2>7. /\ \A x \in Signed : x[2] \in 1 .. generation
        /\ Covered(Signed, file, generation, Len(file))
        /\ ~syncFailed => Covered(Signed, file, synced, durable)
        /\ worker.pc = "flushed" => Covered(Signed, file, worker.target, worker.upTo)
        /\ worker.pc = "finalFlushed" => Covered(Signed, file, generation, worker.upTo)
        /\ worker.pc = "ended" /\ ~syncFailed => Covered(Signed, file, generation, durable)
    BY <1>t, <2>6 DEF SyncInv
  <2>9. CASE Signal(t)
    <3>1. /\ mode = "open" /\ ~stop
          /\ worker.pc \notin {"final", "finalFlushed", "ended"}
          /\ synced <= generation
          /\ worker.pc = "flushed" => worker.target <= generation
      BY <1>t, <2>6, <2>9 DEF Signal, ThreadInv, WorkerInv
    <3>2. generation' = generation + 1
      BY <2>1, <2>9
    <3>3. Stored(file, thread[t].record.seq, Len(file))
      <4>1. PICK i \in 1 .. Len(file) - 1 : file[i] = thread[t].record /\ file[i + 1] = NewLine
        BY <1>t, <2>9 DEF Signal, WrittenInv
      <4>2. file[i] # NewLine /\ file[i].whole
        BY <1>t, <2>9, <4>1 DEF Signal, ThreadInv, Records, NewLine
      <4>3. i < Len(file)
        BY <1>n
      <4> QED BY <4>1, <4>2, <4>3 DEF Stored
    <3>4. \A x \in Signed' : x \in Signed \/ (x[1] = thread[t].record.seq /\ x[2] = generation + 1)
      BY <2>4
    <3>5. \A x \in Signed' : x[2] \in 1 .. generation'
      BY <1>n, <2>7, <3>2, <3>4
    <3>6. file' = file
      BY <2>9 DEF Signal
    <3>7. Covered(Signed', file', generation', Len(file'))
      BY <1>n, <2>7, <3>3, <3>4, <3>6 DEF Covered
    <3>8. \A g \in Nat : g <= generation => \A x \in Signed' : x[2] <= g => x \in Signed
      BY <1>n, <3>4
    <3>9. ~syncFailed => Covered(Signed', file', synced, durable)
      BY <1>n, <2>2, <2>7, <3>1, <3>8, CoveredStays
    <3>10. worker.pc = "flushed" => Covered(Signed', file', worker.target, worker.upTo)
      BY <1>n, <2>2, <2>7, <3>1, <3>8, CoveredStays
    <3> QED BY <3>1, <3>5, <3>7, <3>9, <3>10
  <2>10. CASE ~Signal(t)
    <3>1. \A x \in Signed' : x \in Signed
      BY <2>4, <2>10
    <3>2. generation' = generation
      BY <2>1, <2>10
    <3>3. \A x \in Signed' : x[2] \in 1 .. generation'
      BY <2>7, <3>1, <3>2
    <3>4. \A g, n : Covered(Signed, file, g, n) => Covered(Signed', file', g, n)
      BY <2>2, <3>1, CoveredStays
    <3>5. Covered(Signed', file', generation', Len(file'))
      <4>1. Covered(Signed', file', generation, Len(file))
        BY <2>7, <3>4
      <4> QED BY <1>m, <3>2, <4>1, StoredAtAll DEF Covered
    <3> QED BY <2>7, <3>2, <3>3, <3>4, <3>5
  <2> QED BY <2>9, <2>10
<1>2. CASE OfWorker
  <2>1. UNCHANGED <<file, thread, mode, acked>> /\ Up' = Up /\ Signed' = Signed
    BY <1>2, WorkerLeavesFile DEF Up, Signed
  <2>2. SUFFICES ASSUME Up PROVE
          /\ \A x \in Signed : x[2] \in 1 .. generation'
          /\ Covered(Signed, file, generation', Len(file))
          /\ ~syncFailed' => Covered(Signed, file, synced', durable')
          /\ worker'.pc = "flushed" => Covered(Signed, file, worker'.target, worker'.upTo)
          /\ worker'.pc = "finalFlushed" => Covered(Signed, file, generation', worker'.upTo)
          /\ worker'.pc = "ended" /\ ~syncFailed' => Covered(Signed, file, generation', durable')
    BY <2>1 DEF SyncInv
  <2>3. /\ \A x \in Signed : x[2] \in 1 .. generation
        /\ Covered(Signed, file, generation, Len(file))
        /\ ~syncFailed => Covered(Signed, file, synced, durable)
        /\ worker.pc = "flushed" => Covered(Signed, file, worker.target, worker.upTo)
        /\ worker.pc = "finalFlushed" => Covered(Signed, file, generation, worker.upTo)
        /\ worker.pc = "ended" /\ ~syncFailed => Covered(Signed, file, generation, durable)
    BY <1>t, <2>2 DEF SyncInv
  <2>g. generation' = generation
    BY <1>2 DEF OfWorker, WorkerStep, WorkerCheck, WorkerSleep, WorkerLoad, FlushBegin, FlushEnd,
                SpuriousWakeup, vars
  <2>s. \A x \in Signed : x[2] \in Nat
    BY <2>3
  <2>4. CASE WorkerCheck
    <3>1. /\ worker'.pc = AfterCheck /\ UNCHANGED <<synced, durable, syncFailed>>
      BY <1>t, <2>4 DEF WorkerCheck, Types
    <3>2. worker'.pc \in {"ended", "final", "load", "enter"}
            /\ (worker'.pc = "ended" => generation = synced)
      BY <3>1 DEF AfterCheck
    <3> QED BY <2>3, <2>g, <3>1, <3>2
  <2>5. CASE WorkerSleep \/ SpuriousWakeup \/ WorkerLoad
    <3>1. worker'.pc \in {"sleeping", "check", "flush"} /\ UNCHANGED <<synced, durable, syncFailed>>
      BY <1>t, <2>5 DEF WorkerSleep, SpuriousWakeup, Woken, WorkerLoad, Types
    <3> QED BY <2>3, <2>g, <3>1
  <2>6. CASE FlushBegin
    <3>1. /\ worker'.pc = IF worker.pc = "flush" THEN "flushed" ELSE "finalFlushed"
          /\ worker'.target = worker.target /\ worker'.upTo = Len(file)
          /\ UNCHANGED <<synced, durable, syncFailed>> /\ worker.pc \in {"flush", "final"}
      BY <1>t, <2>6 DEF FlushBegin, Types
    <3>2. worker.pc = "flush" => worker.target <= generation
      BY <1>t, <2>2 DEF WorkerInv
    <3>3. worker.pc = "flush" => Covered(Signed, file, worker.target, Len(file))
      <4>1. SUFFICES ASSUME worker.pc = "flush" PROVE Covered(Signed, file, worker.target, Len(file))
        OBVIOUS
      <4> QED BY <1>n, <2>3, <2>s, <3>2, <4>1, CoveredFurther
    <3> QED BY <2>3, <2>g, <3>1, <3>3
  <2>7. CASE FlushEnd
    <3>1. /\ worker.pc \in {"flushed", "finalFlushed"}
          /\ worker.pc = "flushed" => worker'.pc = "check" /\ synced' = worker.target
          /\ worker.pc = "finalFlushed" => worker'.pc = "ended" /\ synced' = synced
          /\ \/ durable' = Max({durable, worker.upTo}) /\ syncFailed' = syncFailed
             \/ syncFailed' = TRUE
      BY <2>7 DEF FlushEnd, Resting, SyncedTo
    <3>2. ~syncFailed' => ~syncFailed /\ durable' >= durable /\ durable' >= worker.upTo
      BY <1>t, <3>1, DurableMaximum
    <3>3. CASE worker.pc = "flushed"
      <4>1. ~syncFailed' => Covered(Signed, file, worker.target, durable')
        <5>1. SUFFICES ASSUME ~syncFailed' PROVE Covered(Signed, file, worker.target, durable')
          OBVIOUS
        <5> QED BY <1>n, <1>m, <2>3, <2>s, <3>2, <3>3, <5>1, CoveredFurther
      <4> QED BY <2>3, <2>g, <3>1, <3>3, <4>1
    <3>4. CASE worker.pc = "finalFlushed"
      <4>1. ~syncFailed' => Covered(Signed, file, generation, durable')
        <5>1. SUFFICES ASSUME ~syncFailed' PROVE Covered(Signed, file, generation, durable')
          OBVIOUS
        <5> QED BY <1>n, <1>m, <2>3, <2>s, <3>2, <3>4, <5>1, CoveredFurther
      <4>2. ~syncFailed' => Covered(Signed, file, synced, durable')
        <5>1. SUFFICES ASSUME ~syncFailed' PROVE Covered(Signed, file, synced, durable')
          OBVIOUS
        <5> QED BY <1>n, <1>m, <2>3, <2>s, <3>2, <5>1, CoveredFurther
      <4> QED BY <2>3, <2>g, <3>1, <3>4, <4>1, <4>2
    <3> QED BY <3>1, <3>3, <3>4
  <2>8. CASE UNCHANGED vars
    <3>1. UNCHANGED <<synced, durable, syncFailed, worker>>
      BY <2>8 DEF vars
    <3> QED BY <2>3, <2>g, <3>1
  <2> QED BY <1>2, <2>4, <2>5, <2>6, <2>7, <2>8 DEF OfWorker, WorkerStep
<1>3. CASE OfProcess
  <2>1. CASE CloseBegin
    <3>1. /\ mode = "open" /\ worker' = Woken
          /\ UNCHANGED <<file, generation, synced, durable, syncFailed, thread, acked>>
      BY <2>1 DEF CloseBegin, history
    <3>2. /\ worker'.target = worker.target /\ worker'.upTo = worker.upTo
          /\ worker'.pc # worker.pc => worker'.pc = "check" /\ worker.pc = "sleeping"
      BY <1>t, <3>1, WokenIsTyped
    <3>3. Signed' = Signed /\ Up
      BY <3>1 DEF Signed, Up
    <3> QED BY <1>t, <3>1, <3>2, <3>3 DEF SyncInv
  <2>2. CASE CloseEnd
    <3>1. /\ mode = "closing"
          /\ UNCHANGED <<file, generation, synced, durable, syncFailed, thread, acked, worker>>
      BY <2>2 DEF CloseEnd, history, sync
    <3>2. Signed' = Signed /\ Up
      BY <3>1 DEF Signed, Up
    <3> QED BY <1>t, <3>1, <3>2 DEF SyncInv
  <2>3. CASE ProcessDies \/ PowerLoss \/ RepairFails \/ RefuseToStart
    BY <2>3 DEF ProcessDies, PowerLoss, Die, RepairFails, RefuseToStart, SyncInv, Up
  <2>4. CASE Recover
    <3>1. worker'.pc = "check"
      BY <2>4 DEF Recover, Fresh, Resting
    <3>2. \A t \in Threads : thread'[t].pc = "idle"
      BY <2>4, NobodyCalls DEF OfProcess
    <3>3. \A a \in acked' : a.gen = 0
      <4>1. \A a \in AckType : [a EXCEPT !.gen = 0].gen = 0
        BY DEF AckType
      <4>2. acked \subseteq AckType /\ acked' = {[a EXCEPT !.gen = 0] : a \in acked}
        BY <1>t, <2>4 DEF Recover, Types
      <4> QED BY <4>1, <4>2
    <3>4. Signed' = {}
      BY <3>2, <3>3 DEF Signed
    <3> QED BY <3>1, <3>4 DEF SyncInv, Covered
  <2> QED BY <1>3, <2>1, <2>2, <2>3, <2>4 DEF OfProcess
<1> QED BY <1>1, <1>2, <1>3, NextCases

(***************************************************************************)
(* What survives, and what is indexed                                      *)
(***************************************************************************)
\* The file when nobody has failed half-way through a line, and the lines of what was acknowledged.
Sound(f, A) ==
    /\ WellFormed(f)
    /\ \A a \in A : \E i \in 1 .. Len(f) - 1 :
          f[i] # NewLine /\ f[i].whole /\ f[i + 1] = NewLine /\ RecordOf(a, f[i])

LEMMA SoundSurvives ==
    ASSUME NEW f \in Seq(Tokens), NEW A, Sound(f, A)
    PROVE  Survives(f, A)
<1>1. /\ ~InvalidRecord(f)
      /\ \A i \in 1 .. Len(f) - 1 : f[i] # NewLine => i \in Starts(f) /\ Valid(f, i)
  BY WellFormedIsAccepted DEF Sound
<1>2. ASSUME NEW a \in A PROVE \E i \in Starts(f) : Valid(f, i) /\ RecordOf(a, f[i])
  <2>1. PICK i \in 1 .. Len(f) - 1 : f[i] # NewLine /\ RecordOf(a, f[i])
    BY DEF Sound
  <2> QED BY <1>1, <2>1
<1> QED BY <1>1, <1>2 DEF Survives

LEMMA SurviveStep ==
    ASSUME StoreInv, [Next]_vars, Types'
    PROVE  SurviveInv'
<1>t. Types /\ ThreadInv /\ NumberInv /\ WrittenInv /\ SurviveInv
  BY DEF StoreInv
<1>n. file \in Seq(Tokens) /\ Len(file) \in Nat /\ file' \in Seq(Tokens) /\ Len(file') \in Nat
  BY <1>t DEF Types
<1>u. Up /\ ~torn => Sound(file, acked) /\ ((\A t \in Threads : ~MidWrite(t)) => Ended(file))
  BY <1>t DEF SurviveInv, Sound, Complete
<1>v. SurviveInv' <=>
        (~torn' => /\ ~Up' => Survives(file', acked')
                   /\ Up' => /\ Sound(file', acked')
                             /\ (\A t \in Threads : ~MidWrite(t)') => Ended(file'))
  BY DEF SurviveInv, Sound, Complete
<1>1. ASSUME NEW t \in Threads, NEW op \in Operations, NEW id \in Orders \cup {NoOrder},
             TakeSequence(t, op, id)
      PROVE  SurviveInv'
  <2>1. /\ \A u \in Threads \ {t} : thread'[u] = thread[u]
        /\ mode = "open" /\ UNCHANGED <<file, mode, acked, torn>>
    BY <1>1, <1>t, TakeEffect
  <2>2. Up /\ Up'
    BY <2>1 DEF Up
  <2>3. ~MidWrite(t)
    BY <1>1 DEF MidWrite, TakeSequence, Idle
  <2>4. (\A u \in Threads : ~MidWrite(u)') => \A u \in Threads : ~MidWrite(u)
    BY <2>1, <2>3 DEF MidWrite
  <2> QED BY <1>u, <1>v, <2>1, <2>2, <2>4
<1>2. ASSUME NEW t \in Threads, WriteSome(t) PROVE SurviveInv'
  <2>1. PICK n, b \in Nat : Writes(t, n, b)
    BY <1>2, <1>t, WriteEffect
  <2>2. /\ thread'[t].done = n
        /\ n < 3 => thread'[t].pc = "write"
        /\ n \in 1 .. 3 /\ thread[t].pc = "write"
        /\ \A u \in Threads \ {t} : ~MidWrite(u)
        /\ UNCHANGED <<mode, acked, torn>>
    BY <1>2, <1>t, <2>1, WriteCaller
  <2>3. Up /\ Up' /\ thread[t].record.whole /\ thread[t].done \in 0 .. 2
    BY <1>t, <2>2 DEF ThreadInv, Up
  <2>4. SUFFICES ASSUME ~torn
                 PROVE  Sound(file', acked) /\ ((\A u \in Threads : ~MidWrite(u)') => Ended(file'))
    BY <1>v, <2>2, <2>3
  <2>5. Sound(file, acked) /\ ((\A u \in Threads : ~MidWrite(u)) => Ended(file))
    BY <1>u, <2>3, <2>4
  <2>6. b \in 0 .. Len(file) /\ (b # 0 => file[b] = NewLine)
    <3>1. CASE thread[t].done = 0
      <4>1. Ended(file) /\ b = Len(file)
        BY <2>1, <2>2, <2>5, <3>1 DEF MidWrite, Writes
      <4> QED BY <1>n, <4>1 DEF Ended
    <3>2. CASE thread[t].done # 0
      <4>1. MidWrite(t) /\ b + 1 = Len(file)
        BY <2>1, <2>2, <2>3, <3>2 DEF MidWrite, Writes
      <4>2. file[b + 1] # NewLine
        BY <1>t, <4>1 DEF WrittenInv
      <4>3. b # 0 => b \in 1 .. Len(file) - 1
        BY <4>1
      <4> QED BY <1>n, <2>5, <4>1, <4>2, <4>3 DEF Sound, WellFormed
    <3> QED BY <3>1, <3>2
  <2>7. WellFormed(file')
    <3>1. SUFFICES ASSUME NEW i \in 1 .. Len(file') - 1, file'[i] # NewLine
                   PROVE  file'[i].whole /\ file'[i + 1] = NewLine
      BY DEF WellFormed
    <3>2. CASE i < b
      <4>1. i \in 1 .. b /\ i + 1 \in 1 .. b /\ i \in 1 .. Len(file) - 1
        BY <2>6, <3>2
      <4>2. file'[i] = file[i] /\ file'[i + 1] = file[i + 1]
        BY <2>1, <4>1 DEF Writes
      <4> QED BY <2>5, <3>1, <4>1, <4>2 DEF Sound, WellFormed
    <3>3. CASE i = b
      <4>1. b # 0 /\ i \in 1 .. b
        BY <3>3
      <4> QED BY <2>1, <2>6, <3>1, <3>3, <4>1 DEF Writes
    <3>4. CASE i > b
      <4>1. i = b + 1 /\ n = 3
        BY <2>1, <2>2, <3>4 DEF Writes
      <4>2. i + 1 = b + 2
        BY <4>1
      <4> QED BY <2>1, <2>3, <4>1, <4>2 DEF Writes
    <3> QED BY <3>2, <3>3, <3>4
  <2>8. \A i \in 1 .. Len(file) - 1 : file[i + 1] = NewLine =>
                 /\ i \in 1 .. Len(file') - 1
                 /\ file'[i] = file[i] /\ file'[i + 1] = NewLine
    BY <1>2, LinesStay
  <2>9. Sound(file', acked)
    BY <2>5, <2>7, <2>8 DEF Sound
  <2>10. ASSUME \A u \in Threads : ~MidWrite(u)' PROVE Ended(file')
    <3>1. n = 3
      BY <2>2, <2>10 DEF MidWrite
    <3>2. Len(file') = b + 2 /\ file'[b + 2] = NewLine
      BY <2>1, <3>1 DEF Writes
    <3> QED BY <3>2 DEF Ended
  <2> QED BY <2>9, <2>10
<1>3. ASSUME NEW t \in Threads, WriteFails(t) PROVE SurviveInv'
  <2>1. /\ \A u \in Threads \ {t} : thread'[u] = thread[u]
        /\ UNCHANGED <<file, mode, acked>>
    BY <1>3, <1>t, CallEnds
  <2>2. torn' = (torn \/ thread[t].done > 0) /\ thread[t].pc = "write"
    BY <1>3 DEF WriteFails
  <2>3. Up /\ Up'
    BY <1>t, <2>1, <2>2 DEF ThreadInv, Up
  <2>4. ~torn' => ~torn /\ ~MidWrite(t)
    BY <2>2 DEF MidWrite
  <2>5. ~torn' /\ (\A u \in Threads : ~MidWrite(u)') => \A u \in Threads : ~MidWrite(u)
    BY <2>1, <2>4 DEF MidWrite
  <2> QED BY <1>u, <1>v, <2>1, <2>3, <2>4, <2>5
<1>4. ASSUME NEW t \in Threads, UpdateIndex(t) \/ Signal(t) PROVE SurviveInv'
  <2>1. /\ \A u \in Threads \ {t} : thread'[u] = thread[u]
        /\ thread[t].pc \in {"index", "signal"}
        /\ UNCHANGED <<file, mode, acked, torn>>
    BY <1>4, <1>t, CallerMoves
  <2>2. Up /\ Up'
    BY <1>t, <2>1 DEF ThreadInv, Up
  <2>3. (\A u \in Threads : ~MidWrite(u)') => \A u \in Threads : ~MidWrite(u)
    BY <2>1 DEF MidWrite
  <2> QED BY <1>u, <1>v, <2>1, <2>2, <2>3
<1>5. ASSUME NEW t \in Threads, Notify(t) PROVE SurviveInv'
  <2>1. /\ \A u \in Threads \ {t} : thread'[u] = thread[u]
        /\ thread[t].pc = "notify" /\ UNCHANGED <<file, mode, torn>>
    BY <1>5, <1>t, CallEnds
  <2>2. Up /\ Up'
    BY <1>t, <2>1 DEF ThreadInv, Up
  <2>3. (\A u \in Threads : ~MidWrite(u)') => \A u \in Threads : ~MidWrite(u)
    BY <2>1 DEF MidWrite
  <2>4. PICK x : x = [seq |-> thread[t].record.seq, gen |-> thread[t].gen,
                      op |-> thread[t].op, id |-> thread[t].record.id]
    OBVIOUS
  <2>5. acked' = acked \cup {x}
    BY <1>5, <2>4 DEF Notify
  <2>6. PICK i \in 1 .. Len(file) - 1 : file[i] = thread[t].record /\ file[i + 1] = NewLine
    BY <1>t, <2>1 DEF WrittenInv
  <2>7. file[i] # NewLine /\ file[i].whole
    BY <1>t, <2>1, <2>6 DEF ThreadInv, Records, NewLine
  <2>8. RecordOf(x, file[i])
    BY <1>t, <2>1, <2>4, <2>6 DEF ThreadInv, RecordOf
  <2>9. Sound(file, acked) => Sound(file, acked')
    BY <2>5, <2>6, <2>7, <2>8 DEF Sound
  <2> QED BY <1>u, <1>v, <2>1, <2>2, <2>3, <2>9
<1>6. CASE OfWorker
  <2>1. UNCHANGED <<file, thread, mode, acked, torn>>
    BY <1>6, WorkerLeavesFile
  <2> QED BY <1>t, <2>1 DEF SurviveInv, Up, MidWrite, Complete
<1>7. CASE OfProcess
  <2>1. torn' = torn /\ \A t \in Threads : ~MidWrite(t)'
    BY <1>7, NobodyCalls DEF MidWrite
  <2>2. CASE CloseBegin \/ CloseEnd
    <3>1. Up /\ Up' /\ UNCHANGED <<file, acked, thread>>
      BY <2>2 DEF CloseBegin, CloseEnd, Up, history
    <3>2. \A t \in Threads : ~MidWrite(t)
      BY <2>1, <3>1 DEF MidWrite
    <3> QED BY <1>u, <1>v, <2>1, <3>1, <3>2
  <2>3. CASE RefuseToStart
    <3>1. ~Up /\ ~Up' /\ UNCHANGED <<file, acked>>
      BY <2>3 DEF RefuseToStart, Up, history
    <3> QED BY <1>t, <1>v, <2>1, <3>1 DEF SurviveInv
  <2>4. CASE ProcessDies
    <3>1. Up /\ ~Up' /\ UNCHANGED <<file, acked>>
      BY <2>4 DEF ProcessDies, Die, Running, Up, history
    <3> QED BY <1>n, <1>u, <1>v, <2>1, <3>1, SoundSurvives
  <2>5. CASE PowerLoss
    <3>1. Up /\ ~Up'
      BY <2>5 DEF PowerLoss, Die, Running, Up
    <3>2. acked' = {a \in acked : \E i \in 1 .. durable - 1 : file[i].seq = a.seq}
      BY <2>5 DEF PowerLoss
    <3>3. PICK k \in Nat : Cuts(k)
      BY <1>t, <2>5, PowerLossEffect
    <3>d. durable \in Nat /\ durable <= k /\ k <= Len(file) /\ Len(file') = k
      BY <1>t, <3>3 DEF Cuts, Types
    <3>4. SUFFICES ASSUME Sound(file, acked) PROVE Sound(file', acked')
      BY <1>n, <1>u, <1>v, <2>1, <3>1, SoundSurvives
    <3>5. \A i \in 1 .. k - 1 : file[i + 1] = NewLine =>
            file'[i] = file[i] /\ file'[i + 1] = NewLine
      <4>1. \A i \in 1 .. k - 1 : i \in 1 .. k /\ i < k /\ i + 1 \in 1 .. k
        OBVIOUS
      <4> QED BY <3>3, <4>1 DEF Cuts
    <3>6. WellFormed(file')
      <4>1. SUFFICES ASSUME NEW i \in 1 .. k - 1, file'[i] # NewLine
                     PROVE  file'[i].whole /\ file'[i + 1] = NewLine
        BY <3>d DEF WellFormed
      <4>2. i \in 1 .. k /\ i < k /\ i \in 1 .. Len(file) - 1
        BY <1>n, <3>d
      <4>3. file'[i] = file[i]
        BY <3>3, <4>2 DEF Cuts
      <4>4. file[i].whole /\ file[i + 1] = NewLine
        BY <3>4, <4>1, <4>2, <4>3 DEF Sound, WellFormed
      <4> QED BY <3>5, <4>3, <4>4
    <3>7. ASSUME NEW a \in acked'
          PROVE  \E i \in 1 .. Len(file') - 1 :
             file'[i] # NewLine /\ file'[i].whole /\ file'[i + 1] = NewLine /\ RecordOf(a, file'[i])
      <4>1. a \in acked /\ \E j \in 1 .. durable - 1 : file[j].seq = a.seq
        BY <3>2
      <4>2. PICK j \in 1 .. durable - 1 : file[j].seq = a.seq
        BY <4>1
      <4>3. PICK i \in 1 .. Len(file) - 1 :
              file[i] # NewLine /\ file[i].whole /\ file[i + 1] = NewLine /\ RecordOf(a, file[i])
        BY <3>4, <4>1 DEF Sound
      <4>4. i = j
        <5>1. file[i].seq = file[j].seq /\ i \in 1 .. Len(file) /\ j \in 1 .. Len(file)
          BY <1>n, <3>d, <4>2, <4>3 DEF RecordOf
        <5>2. a.seq # 0
          BY <1>t, <4>1 DEF Types, AckType
        <5>3. file[j] # NewLine
          BY <4>2, <5>2 DEF NewLine
        <5> QED BY <1>t, <4>3, <5>1, <5>3 DEF NumberInv, NumbersAreUnique
      <4>5. i \in 1 .. k - 1
        BY <3>d, <4>2, <4>4
      <4>6. file'[i] = file[i] /\ file'[i + 1] = NewLine
        BY <3>5, <4>3, <4>5
      <4> QED BY <3>d, <4>3, <4>5, <4>6
    <3> QED BY <3>6, <3>7 DEF Sound
  <2>6. CASE Recover
    <3>1. /\ ~Up /\ Up' /\ ~InvalidRecord(file) /\ file' = Repaired(file)
          /\ acked' = {[a EXCEPT !.gen = 0] : a \in acked}
      BY <2>6 DEF Recover, Up
    <3>2. /\ \A i \in 1 .. Len(file') : file'[i] # NewLine =>
                /\ i \in Starts(file) /\ Valid(file, i) /\ file'[i] = file[i]
                /\ i < Len(file') /\ file'[i + 1] = NewLine
          /\ \A i \in Starts(file) : Valid(file, i) =>
                /\ i \in 1 .. Len(file') - 1
                /\ file'[i] = file[i] /\ file'[i + 1] = NewLine
      BY <1>n, <3>1, RepairedLines
    <3>3. Ended(file')
      <4>1. Len(file') # 0 => Len(file') \in 1 .. Len(file')
        BY <1>n
      <4> QED BY <1>n, <3>2, <4>1 DEF Ended
    <3>4. WellFormed(file')
      <4>1. \A i \in 1 .. Len(file') - 1 : i \in 1 .. Len(file')
        BY <1>n
      <4> QED BY <3>2, <4>1 DEF WellFormed, Valid
    <3>5. SUFFICES ASSUME ~torn PROVE Sound(file', acked')
      BY <1>v, <2>1, <3>1, <3>3
    <3>6. ASSUME NEW a \in acked'
          PROVE  \E i \in 1 .. Len(file') - 1 :
             file'[i] # NewLine /\ file'[i].whole /\ file'[i + 1] = NewLine /\ RecordOf(a, file'[i])
      <4>1. PICK c \in acked : a = [c EXCEPT !.gen = 0]
        BY <3>1, Zenon
      <4>2. c \in AckType
        BY <1>t DEF Types
      <4>3. a.seq = c.seq /\ a.op = c.op /\ a.id = c.id
        BY <4>1, <4>2 DEF AckType
      <4>4. PICK i \in Starts(file) : Valid(file, i) /\ RecordOf(c, file[i])
        BY <1>t, <3>1, <3>5 DEF SurviveInv, Survives
      <4>5. file[i] # NewLine /\ file[i].whole
        BY <4>4 DEF Starts, Valid
      <4>6. RecordOf(a, file[i])
        BY <4>3, <4>4 DEF RecordOf
      <4> QED BY <3>2, <4>4, <4>5, <4>6
    <3> QED BY <3>4, <3>6 DEF Sound
  <2>7. CASE RepairFails
    <3>1. /\ ~Up /\ ~Up' /\ ~InvalidRecord(file) /\ file' = Repaired(file) /\ acked' = acked
      BY <2>7 DEF RepairFails, Up
    <3>2. /\ \A i \in 1 .. Len(file') : file'[i] # NewLine =>
                /\ i \in Starts(file) /\ Valid(file, i) /\ file'[i] = file[i]
                /\ i < Len(file') /\ file'[i + 1] = NewLine
          /\ \A i \in Starts(file) : Valid(file, i) =>
                /\ i \in 1 .. Len(file') - 1
                /\ file'[i] = file[i] /\ file'[i + 1] = NewLine
      BY <1>n, <3>1, RepairedLines
    <3>3. WellFormed(file')
      <4>1. \A i \in 1 .. Len(file') - 1 : i \in 1 .. Len(file')
        BY <1>n
      <4> QED BY <3>2, <4>1 DEF WellFormed, Valid
    <3>4. SUFFICES ASSUME ~torn PROVE Sound(file', acked')
      BY <1>n, <1>v, <2>1, <3>1, SoundSurvives
    <3>5. ASSUME NEW a \in acked'
          PROVE  \E i \in 1 .. Len(file') - 1 :
             file'[i] # NewLine /\ file'[i].whole /\ file'[i + 1] = NewLine /\ RecordOf(a, file'[i])
      <4>1. PICK i \in Starts(file) : Valid(file, i) /\ RecordOf(a, file[i])
        BY <1>t, <3>1, <3>4 DEF SurviveInv, Survives
      <4>2. file[i] # NewLine /\ file[i].whole
        BY <4>1 DEF Starts, Valid
      <4> QED BY <3>2, <4>1, <4>2
    <3> QED BY <3>3, <3>5 DEF Sound
  <2> QED BY <1>7, <2>2, <2>3, <2>4, <2>5, <2>6, <2>7 DEF OfProcess
<1> QED BY <1>1, <1>2, <1>3, <1>4, <1>5, <1>6, <1>7, NextCases

LEMMA LatestStep ==
    ASSUME StoreInv, [Next]_vars
    PROVE  LatestInv'
<1>t. Types /\ ThreadInv /\ WrittenInv /\ SurviveInv /\ LatestInv
  BY DEF StoreInv
<1>n. latest \in [Orders -> Nat] /\ acked \subseteq AckType /\ file \in Seq(Tokens)
        /\ \A a \in acked : a.op = "append_order" => a.id \in Orders
  BY <1>t DEF Types
<1>1. ASSUME NEW t \in Threads, NEW op \in Operations, NEW id \in Orders \cup {NoOrder},
             TakeSequence(t, op, id)
      PROVE  LatestInv'
  <2>1. /\ \A u \in Threads \ {t} : thread'[u] = thread[u]
        /\ thread'[t].pc = "write" /\ UNCHANGED <<mode, latest, acked, torn>>
    BY <1>1, <1>t, TakeEffect
  <2> QED BY <1>t, <2>1 DEF LatestInv, Up
<1>2. ASSUME NEW t \in Threads, WriteSome(t) PROVE LatestInv'
  <2>1. PICK n, b \in Nat : Writes(t, n, b)
    BY <1>2, <1>t, WriteEffect
  <2>2. /\ \A u \in Threads \ {t} : thread'[u] = thread[u]
        /\ thread'[t].op = thread[t].op
        /\ n < 3 => thread'[t].pc = "write"
        /\ n = 3 => thread'[t].pc = IF thread[t].op = "commit_order" THEN "signal" ELSE "index"
        /\ n \in 1 .. 3
        /\ UNCHANGED <<latest, mode, acked, torn>>
    BY <1>2, <1>t, <2>1, WriteCaller
  <2>3. thread'[t].pc \in {"signal", "notify"} => thread'[t].op # "append_order"
    BY <2>2
  <2> QED BY <1>t, <2>2, <2>3 DEF LatestInv, Up
<1>3. ASSUME NEW t \in Threads, WriteFails(t) PROVE LatestInv'
  <2>1. /\ \A u \in Threads \ {t} : thread'[u] = thread[u]
        /\ thread'[t].pc = "idle" /\ UNCHANGED <<mode, latest, acked>>
    BY <1>3, <1>t, CallEnds
  <2>2. ~torn' => ~torn
    BY <1>3 DEF WriteFails
  <2> QED BY <1>t, <2>1, <2>2 DEF LatestInv, Up
<1>4. ASSUME NEW t \in Threads, UpdateIndex(t) PROVE LatestInv'
  <2>1. /\ \A u \in Threads \ {t} : thread'[u] = thread[u]
        /\ thread'[t].record = thread[t].record /\ thread'[t].op = thread[t].op
        /\ thread[t].pc = "index" /\ UNCHANGED <<mode, acked, torn>>
    BY <1>4, <1>t, CallerMoves
  <2>2. /\ thread[t].op = "append_order" => thread[t].record.type = "order"
        /\ thread[t].record.type = "order" => thread[t].record.id \in Orders
        /\ thread[t].record.seq \in Nat
    BY <1>t, <2>1 DEF ThreadInv, Records
  <2>3. /\ thread[t].record.type = "order" => latest' = [latest EXCEPT ![thread[t].record.id] =
                 IF thread[t].record.seq < @ THEN @ ELSE thread[t].record.seq]
        /\ thread[t].record.type # "order" => latest' = latest
    BY <1>4 DEF UpdateIndex, Superseded
  <2>4. \A o \in Orders : latest'[o] \in Nat /\ latest'[o] >= latest[o]
    BY <1>n, <2>2, <2>3
  <2>5. thread[t].op = "append_order" => latest'[thread[t].record.id] >= thread[t].record.seq
    BY <1>n, <2>2, <2>3
  <2>6. SUFFICES ASSUME Up, ~torn
          PROVE  /\ \A a \in acked : a.op = "append_order" => latest'[a.id] >= a.seq
                 /\ \A u \in Threads : thread'[u].pc \in {"signal", "notify"}
                        /\ thread'[u].op = "append_order"
                          => latest'[thread'[u].record.id] >= thread'[u].record.seq
    BY <2>1 DEF LatestInv, Up
  <2>7. ASSUME NEW a \in acked, a.op = "append_order" PROVE latest'[a.id] >= a.seq
    <3>1. a.id \in Orders /\ a.seq \in Nat /\ latest[a.id] >= a.seq
      BY <1>t, <1>n, <2>6, <2>7 DEF LatestInv, AckType
    <3>2. latest[a.id] \in Nat /\ latest'[a.id] \in Nat /\ latest'[a.id] >= latest[a.id]
      BY <1>n, <2>4, <3>1
    <3> QED BY <3>1, <3>2
  <2>8. ASSUME NEW u \in Threads, thread'[u].pc \in {"signal", "notify"},
               thread'[u].op = "append_order"
        PROVE  latest'[thread'[u].record.id] >= thread'[u].record.seq
    <3>1. CASE u = t
      BY <2>1, <2>5, <2>8, <3>1
    <3>2. CASE u # t
      <4>1. /\ thread'[u] = thread[u] /\ thread[u].record.id \in Orders
            /\ thread[u].record.seq \in Nat
            /\ latest[thread[u].record.id] >= thread[u].record.seq
        BY <1>t, <2>1, <2>6, <2>8, <3>2 DEF LatestInv, ThreadInv, Records
      <4>2. /\ latest[thread[u].record.id] \in Nat /\ latest'[thread[u].record.id] \in Nat
            /\ latest'[thread[u].record.id] >= latest[thread[u].record.id]
        BY <1>n, <2>4, <4>1
      <4> QED BY <4>1, <4>2
    <3> QED BY <3>1, <3>2
  <2> QED BY <2>7, <2>8
<1>5. ASSUME NEW t \in Threads, Signal(t) PROVE LatestInv'
  <2>1. /\ \A u \in Threads \ {t} : thread'[u] = thread[u]
        /\ thread'[t].record = thread[t].record /\ thread'[t].op = thread[t].op
        /\ thread[t].pc = "signal" /\ UNCHANGED <<mode, latest, acked, torn>>
    BY <1>5, <1>t, CallerMoves
  <2> QED BY <1>t, <2>1 DEF LatestInv, Up
<1>6. ASSUME NEW t \in Threads, Notify(t) PROVE LatestInv'
  <2>1. /\ \A u \in Threads \ {t} : thread'[u] = thread[u]
        /\ thread'[t].pc = "idle"
        /\ thread[t].pc = "notify" /\ UNCHANGED <<mode, latest, torn>>
    BY <1>6, <1>t, CallEnds
  <2>2. \A a \in acked' : a \in acked \/ (a.seq = thread[t].record.seq /\ a.op = thread[t].op
                                            /\ a.id = thread[t].record.id)
    BY <1>6 DEF Notify
  <2> QED BY <1>t, <2>1, <2>2 DEF LatestInv, Up
<1>7. CASE OfWorker
  <2>1. UNCHANGED <<thread, mode, acked, torn, latest>>
    BY <1>7, WorkerLeavesFile
  <2> QED BY <1>t, <2>1 DEF LatestInv, Up
<1>8. CASE OfProcess
  <2>1. torn' = torn /\ \A t \in Threads : thread'[t].pc = "idle"
    BY <1>8, NobodyCalls
  <2>2. CASE CloseBegin \/ CloseEnd
    <3>1. Up /\ UNCHANGED <<acked, latest>>
      BY <2>2 DEF CloseBegin, CloseEnd, Up, history, index
    <3> QED BY <1>t, <2>1, <3>1 DEF LatestInv
  <2>3. CASE RepairFails \/ RefuseToStart \/ ProcessDies \/ PowerLoss
    BY <2>3 DEF RepairFails, RefuseToStart, ProcessDies, PowerLoss, Die, Up, LatestInv
  <2>4. CASE Recover
    <3>1. /\ ~Up /\ acked' = {[a EXCEPT !.gen = 0] : a \in acked}
          /\ latest' = [o \in Orders |-> LatestIn(file, o)]
      BY <2>4 DEF Recover, Up
    <3>2. SUFFICES ASSUME ~torn, NEW a \in acked', a.op = "append_order"
                   PROVE  latest'[a.id] >= a.seq
      BY <2>1 DEF LatestInv
    <3>3. PICK c \in acked : a = [c EXCEPT !.gen = 0]
      BY <3>1, Zenon
    <3>4. c \in AckType
      BY <1>n
    <3>5. a.seq = c.seq /\ a.op = c.op /\ a.id = c.id /\ a.seq \in Nat
      BY <3>3, <3>4 DEF AckType
    <3>6. a.id \in Orders
      BY <1>n, <3>2, <3>5
    <3>7. PICK i \in Starts(file) : Valid(file, i) /\ RecordOf(c, file[i])
      BY <1>t, <3>1, <3>2 DEF SurviveInv, Survives
    <3>8. file[i].seq = a.seq /\ file[i].type = "order" /\ file[i].id = a.id
      BY <3>2, <3>5, <3>7 DEF RecordOf
    <3>9. LatestIn(file, a.id) \in Nat /\ a.seq <= LatestIn(file, a.id)
      BY <1>n, <3>7, <3>8, RecoveredLatest
    <3> QED BY <3>1, <3>5, <3>6, <3>9
  <2> QED BY <1>8, <2>2, <2>3, <2>4 DEF OfProcess
<1> QED BY <1>1, <1>2, <1>3, <1>4, <1>5, <1>6, <1>7, <1>8, NextCases

(***************************************************************************)
(* The theorems                                                            *)
(***************************************************************************)
\* The invariant holds from every journal that is found, through every crash and restart.
THEOREM StoreInvariant == Spec => []StoreInv
<1>1. Init => StoreInv
  BY InitStoreInv
<1>2. StoreInv /\ [Next]_vars => StoreInv'
  <2>1. SUFFICES ASSUME StoreInv, [Next]_vars PROVE StoreInv'
    OBVIOUS
  <2>2. Types' /\ ThreadInv' /\ NumberInv' /\ WrittenInv' /\ WorkerInv' /\ LatestInv'
    BY <2>1, TypesStep, ThreadStep, NumberStep, WrittenStep, WorkerInvStep, LatestStep
  <2>3. SyncInv' /\ SurviveInv'
    BY <2>1, <2>2, SyncStep, SurviveStep
  <2> QED BY <2>2, <2>3 DEF StoreInv
<1> QED BY <1>1, <1>2, PTL DEF Spec

\* Start-up accepts the journal and finds every acknowledged record, whenever the process dies
\* and wherever power was lost, unless a write failed half-way through its line (write_all,
\* read_valid_records).
THEOREM AcknowledgedSurvives == Spec => []AckedSurvives
<1>1. StoreInv => AckedSurvives
  <2>1. SUFFICES ASSUME StoreInv, ~torn
                 PROVE  ~InvalidRecord(file) /\ \A a \in acked : Kept(a)
    BY DEF AckedSurvives
  <2>2. Survives(file, acked)
    <3>1. CASE ~Up
      BY <2>1, <3>1 DEF StoreInv, SurviveInv
    <3>2. CASE Up
      <4>1. Sound(file, acked) /\ file \in Seq(Tokens)
        BY <2>1, <3>2 DEF StoreInv, SurviveInv, Sound, Complete, Types
      <4> QED BY <4>1, SoundSurvives
    <3> QED BY <3>1, <3>2
  <2>3. ASSUME NEW a \in acked PROVE Kept(a)
    <3>1. PICK i \in Starts(file) : Valid(file, i) /\ RecordOf(a, file[i])
      BY <2>2 DEF Survives
    <3>2. file[i] \in ValidRecords(file) /\ file[i].seq = a.seq
      BY <3>1 DEF ValidRecords, RecordOf
    <3> QED BY <3>2 DEF Kept
  <2> QED BY <2>2, <2>3 DEF Survives
<1> QED BY <1>1, StoreInvariant, PTL

\* The place of a stored line is found by its number.
LEMMA PositionOfStored ==
    ASSUME StoreInv, NEW a \in acked, NEW n \in Nat, Stored(file, a.seq, n)
    PROVE  Position(a) < n
<1>1. PICK i \in 1 .. Len(file) - 1 :
        i < n /\ file[i] # NewLine /\ file[i].whole /\ file[i + 1] = NewLine /\ file[i].seq = a.seq
  BY DEF Stored
<1>2. i \in 1 .. Len(file)
  BY <1>1 DEF StoreInv, Types
<1>3. PICK p : p = Position(a)
  OBVIOUS
<1>4. p \in 1 .. Len(file) /\ file[p].seq = a.seq /\ file[p].whole
  BY <1>1, <1>2, <1>3 DEF Position
<1>5. a.seq # 0
  BY DEF StoreInv, Types, AckType
<1>6. file[p] # NewLine
  BY <1>4, <1>5 DEF NewLine
<1>7. p = i
  BY <1>1, <1>2, <1>4, <1>6 DEF StoreInv, NumberInv, NumbersAreUnique
<1> QED BY <1>1, <1>3, <1>7

\* Every append that returned up to the generation the worker has published is on stable storage,
\* and all of them once the destructor has returned, until an fdatasync has failed
\* (run_sync_worker, ~FileOrderStore).
THEOREM DurabilityAsPromised == Spec => []DurableAsPromised
<1>1. StoreInv => DurableAsPromised
  <2>1. SUFFICES ASSUME StoreInv PROVE DurableAsPromised
    OBVIOUS
  <2>2. /\ durable \in Nat /\ generation \in Nat /\ synced \in Nat
        /\ \A a \in acked : a.gen \in Nat /\ a.seq \in Nat
    BY <2>1 DEF StoreInv, Types, AckType
  <2>3. ASSUME NEW a \in acked, 0 < a.gen, a.gen <= synced, ~syncFailed
        PROVE  Position(a) < durable
    <3>1. <<a.seq, a.gen>> \in Signed
      BY <2>2, <2>3, SignedMembers
    <3>2. Up
      BY <2>1, <2>2, <2>3 DEF StoreInv, WorkerInv
    <3>3. Covered(Signed, file, synced, durable)
      BY <2>1, <2>3, <3>2 DEF StoreInv, SyncInv
    <3>4. Stored(file, a.seq, durable)
      BY <2>3, <3>1, <3>3 DEF Covered
    <3> QED BY <2>1, <2>2, <3>4, PositionOfStored
  <2>4. ASSUME NEW a \in acked, 0 < a.gen, mode = "closed", ~syncFailed
        PROVE  Position(a) < durable
    <3>1. <<a.seq, a.gen>> \in Signed
      BY <2>2, <2>4, SignedMembers
    <3>2. Up /\ worker.pc = "ended"
      BY <2>1, <2>4 DEF StoreInv, WorkerInv, Up
    <3>3. Covered(Signed, file, generation, durable) /\ \A x \in Signed : x[2] <= generation
      BY <2>1, <2>2, <2>4, <3>2 DEF StoreInv, SyncInv
    <3>4. Stored(file, a.seq, durable)
      BY <3>1, <3>3 DEF Covered
    <3> QED BY <2>1, <2>2, <3>4, PositionOfStored
  <2> QED BY <2>3, <2>4 DEF DurableAsPromised, SyncedMeansDurable, CloseMeansDurable
<1> QED BY <1>1, StoreInvariant, PTL

\* No two records of the journal have the same number, across restarts and torn tails too
\* (next_seq, next_sequence_.store(max_seq + 1)).
THEOREM UniqueNumbers == Spec => []NumbersAreUnique
<1>1. StoreInv => NumbersAreUnique
  BY DEF StoreInv, NumberInv
<1> QED BY <1>1, StoreInvariant, PTL

\* The indexed snapshot of an order is never older than one whose append_order has returned
\* (latest_orders_, under index_mutex_ and after the write).
THEOREM IndexIsNotStale == Spec => []LatestIsAcked
<1>1. StoreInv => LatestIsAcked
  BY DEF StoreInv, LatestInv, LatestIsAcked, Running, Up
<1> QED BY <1>1, StoreInvariant, PTL
(***************************************************************************)
(* The caches of events: insert_event_sorted, and the loop of the          *)
(* constructor, settled by the least token at which it would go wrong.     *)
(***************************************************************************)
LEMMA LeastNat ==
    ASSUME NEW T \in SUBSET Nat, T # {}
    PROVE  \E n \in T : \A m \in T : n <= m
<1>1. PICK less : less = OpToRel(<, Nat)
  OBVIOUS
<1>2. IsWellFoundedOn(less, Nat)
  BY <1>1, NatLessThanWellFounded
<1>3. \A v, w \in Nat : v < w => <<v, w>> \in less
  BY <1>1 DEF OpToRel
<1>4. PICK n \in T : \A m \in T : ~(<<m, n>> \in less)
  BY <1>2, WFMin
<1>5. \A m \in T : n <= m
  <2> SUFFICES ASSUME NEW m \in T PROVE n <= m
    OBVIOUS
  <2>1. n \in Nat /\ m \in Nat
    OBVIOUS
  <2>2. ~(m < n)
    BY <1>3, <1>4, <2>1
  <2> QED BY <2>1, <2>2
<1> QED BY <1>5

Ordered(q) == \A i, j \in 1 .. Len(q) : i < j => q[i] <= q[j]

LEMMA UpperBoundFacts ==
    ASSUME NEW q \in Seq(Nat), NEW s \in Nat, Ordered(q)
    PROVE  /\ UpperBound(q, s) \in 0 .. Len(q)
           /\ \A i \in 1 .. UpperBound(q, s) : q[i] <= s
           /\ \A i \in UpperBound(q, s) + 1 .. Len(q) : q[i] > s
<1>1. PICK T : T = {k \in 0 .. Len(q) : \A i \in k + 1 .. Len(q) : q[i] > s}
  OBVIOUS
<1>2. Len(q) \in T /\ T \in SUBSET Nat
  BY <1>1
<1>3. PICK k \in T : \A m \in T : k <= m
  BY <1>2, LeastNat
<1>4. k \in 0 .. Len(q) /\ \A i \in k + 1 .. Len(q) : q[i] > s
  BY <1>1, <1>3
<1>5. \A i \in 1 .. k : q[i] <= s
  <2>1. CASE k = 0
    BY <2>1
  <2>2. CASE k # 0
    <3>1. k - 1 \in 0 .. Len(q) /\ k - 1 \notin T
      BY <1>3, <1>4, <2>2
    <3>2. PICK i \in k .. Len(q) : ~(q[i] > s)
      BY <1>1, <1>4, <3>1
    <3>3. i = k /\ k \in 1 .. Len(q)
      BY <1>4, <2>2, <3>2
    <3>4. q[k] \in Nat /\ q[k] <= s
      BY <3>2, <3>3
    <3>5. ASSUME NEW j \in 1 .. k PROVE q[j] <= s
      <4>1. j \in 1 .. Len(q) /\ q[j] \in Nat
        BY <1>4
      <4>2. j = k \/ q[j] <= q[k]
        BY <3>3, <4>1 DEF Ordered
      <4> QED BY <3>4, <4>1, <4>2
    <3> QED BY <3>5
  <2> QED BY <2>1, <2>2
<1>6. \E b \in 0 .. Len(q) : /\ \A i \in 1 .. b : q[i] <= s
                             /\ \A i \in b + 1 .. Len(q) : q[i] > s
  BY <1>4, <1>5
<1> QED BY <1>6 DEF UpperBound

\* The entries after an insertion: k of them stay, the new one follows, the rest moves up, and
\* d are dropped at the front.
Shifted(q, s, k, d, p) ==
    /\ p \in Seq(Nat)
    /\ Len(p) = Len(q) + 1 - d
    /\ \A i \in 1 .. Len(p) : p[i] = IF i + d <= k THEN q[i + d]
                                     ELSE IF i + d = k + 1 THEN s ELSE q[i + d - 1]

LEMMA InsertedForm ==
    ASSUME NEW q \in Seq(Nat), NEW s \in Nat, Ordered(q)
    PROVE  Shifted(q, s, UpperBound(q, s),
                   IF Len(q) + 1 > MaxRecent THEN Len(q) + 1 - MaxRecent ELSE 0, Inserted(q, s))
<1>1. PICK k : k = UpperBound(q, s) /\ k \in 0 .. Len(q)
  BY UpperBoundFacts
<1>2. PICK a, b, all, h : /\ a = SubSeq(q, 1, k) /\ b = SubSeq(q, k + 1, Len(q))
                          /\ h = a \o <<s>> /\ all = h \o b
  OBVIOUS
<1>0. Len(q) \in Nat /\ k \in Nat /\ k <= Len(q) /\ \A i \in 1 .. Len(q) : q[i] \in Nat
  BY <1>1
<1>3. a \in Seq(Nat) /\ Len(a) = k /\ \A i \in 1 .. k : a[i] = q[i]
  <2>1. \A i \in 1 .. k : q[i] \in Nat
    BY <1>0
  <2>2. /\ a \in Seq(Nat) /\ Len(a) = (IF 1 <= k THEN k - 1 + 1 ELSE 0)
        /\ \A i \in 1 .. k - 1 + 1 : a[i] = q[1 + i - 1]
    BY <1>0, <1>2, <2>1, SubSeqProperties
  <2> QED BY <1>0, <2>2
<1>4. b \in Seq(Nat) /\ Len(b) = Len(q) - k /\ \A i \in 1 .. Len(q) - k : b[i] = q[k + i]
  <2>1. k + 1 \in Int /\ Len(q) \in Int /\ \A i \in k + 1 .. Len(q) : q[i] \in Nat
    BY <1>0
  <2>2. /\ b \in Seq(Nat) /\ Len(b) = (IF k + 1 <= Len(q) THEN Len(q) - (k + 1) + 1 ELSE 0)
        /\ \A i \in 1 .. Len(q) - (k + 1) + 1 : b[i] = q[k + 1 + i - 1]
    BY <1>2, <2>1, SubSeqProperties, SMTT(30)
  <2> QED BY <1>0, <2>2
<1>5. /\ h \in Seq(Nat) /\ Len(h) = k + 1
      /\ \A i \in 1 .. k + 1 : h[i] = IF i <= k THEN q[i] ELSE s
  <2>1. <<s>> \in Seq(Nat) /\ Len(<<s>>) = 1 /\ <<s>>[1] = s
    OBVIOUS
  <2>2. PICK c : c = <<s>> /\ c \in Seq(Nat) /\ Len(c) = 1 /\ c[1] = s
    BY <2>1
  <2>3. /\ h \in Seq(Nat) /\ Len(h) = Len(a) + Len(c)
        /\ \A i \in 1 .. Len(a) + Len(c) : h[i] = IF i <= Len(a) THEN a[i] ELSE c[i - Len(a)]
    BY <1>2, <1>3, <2>2, ConcatProperties, SMTT(30)
  <2> QED BY <1>0, <1>3, <2>2, <2>3
<1>6. /\ all \in Seq(Nat) /\ Len(all) = Len(q) + 1
      /\ \A i \in 1 .. Len(q) + 1 : all[i] = IF i <= k + 1 THEN h[i] ELSE b[i - (k + 1)]
  <2>0. h \in Seq(Nat) /\ b \in Seq(Nat) /\ all = h \o b
    BY <1>2, <1>4, <1>5
  <2>1. /\ all \in Seq(Nat) /\ Len(all) = Len(h) + Len(b)
        /\ \A i \in 1 .. Len(h) + Len(b) : all[i] = IF i <= Len(h) THEN h[i] ELSE b[i - Len(h)]
    BY <2>0, ConcatProperties
  <2> QED BY <1>0, <1>4, <1>5, <2>1
<1>9. \A i \in 1 .. Len(q) + 1 : all[i] = IF i <= k THEN q[i] ELSE IF i = k + 1 THEN s ELSE q[i - 1]
  <2> SUFFICES ASSUME NEW i \in 1 .. Len(q) + 1
               PROVE  all[i] = IF i <= k THEN q[i] ELSE IF i = k + 1 THEN s ELSE q[i - 1]
    OBVIOUS
  <2>1. CASE i <= k + 1
    BY <1>0, <1>5, <1>6, <2>1, SMTT(30)
  <2>2. CASE ~(i <= k + 1)
    <3>1. i - (k + 1) \in 1 .. Len(q) - k /\ k + (i - (k + 1)) = i - 1
      BY <1>0, <2>2
    <3>2. all[i] = b[i - (k + 1)] /\ b[i - (k + 1)] = q[i - 1]
      BY <1>4, <1>6, <2>2, <3>1
    <3> QED BY <1>0, <2>2, <3>2
  <2> QED BY <2>1, <2>2
<1>10. Inserted(q, s) = IF Len(all) > MaxRecent THEN SubSeq(all, Len(all) - MaxRecent + 1, Len(all))
                        ELSE all
  BY <1>1, <1>2 DEF Inserted
<1>11. CASE Len(q) + 1 > MaxRecent
  <2>1. PICK d : d = Len(q) + 1 - MaxRecent
    OBVIOUS
  <2>2. d \in 1 .. Len(q) /\ Len(q) \in Nat
    BY <1>11, <2>1, StoreAssumption
  <2>3. PICK p : p = Inserted(q, s) /\ p = SubSeq(all, d + 1, Len(q) + 1)
    <3>1. Len(all) > MaxRecent /\ Len(all) - MaxRecent + 1 = d + 1
      BY <1>0, <1>6, <1>11, <2>1, StoreAssumption
    <3> QED BY <1>6, <1>10, <3>1
  <2>4. d + 1 \in Int /\ Len(q) + 1 \in Int /\ \A i \in d + 1 .. Len(q) + 1 : all[i] \in Nat
    BY <1>6, <2>2
  <2>5. /\ p \in Seq(Nat)
        /\ Len(p) = (IF d + 1 <= Len(q) + 1 THEN Len(q) + 1 - (d + 1) + 1 ELSE 0)
        /\ \A i \in 1 .. Len(q) + 1 - (d + 1) + 1 : p[i] = all[d + 1 + i - 1]
    BY <2>3, <2>4, SubSeqProperties
  <2>6. Len(p) = Len(q) + 1 - d /\ \A i \in 1 .. Len(p) : p[i] = all[i + d] /\ i + d \in 1 .. Len(q) + 1
    BY <2>2, <2>5
  <2>7. ASSUME NEW i \in 1 .. Len(p)
        PROVE  p[i] = IF i + d <= k THEN q[i + d] ELSE IF i + d = k + 1 THEN s ELSE q[i + d - 1]
    <3>1. PICK x : x = i + d
      OBVIOUS
    <3>2. p[i] = all[x] /\ x \in 1 .. Len(q) + 1
      BY <2>6, <3>1
    <3>3. all[x] = IF x <= k THEN q[x] ELSE IF x = k + 1 THEN s ELSE q[x - 1]
      BY <1>9, <3>2
    <3>4. d \in Int /\ i \in Int /\ x \in Int /\ k \in Int
      BY <1>0, <2>2, <3>2
    <3> QED BY <3>1, <3>2, <3>3, <3>4
  <2>8. Shifted(q, s, k, d, p)
    BY <2>5, <2>6, <2>7, Zenon DEF Shifted
  <2> QED BY <1>1, <1>11, <2>1, <2>3, <2>8
<1>12. CASE ~(Len(q) + 1 > MaxRecent)
  <2>1. Inserted(q, s) = all
    BY <1>6, <1>10, <1>12
  <2> QED BY <1>1, <1>6, <1>9, <1>12, <2>1, SMTT(30) DEF Shifted
<1> QED BY <1>11, <1>12

LEMMA InsertedOrdered ==
    ASSUME NEW q \in Seq(Nat), NEW s \in Nat, Ordered(q)
    PROVE  Inserted(q, s) \in Seq(Nat) /\ Ordered(Inserted(q, s))
<1>1. PICK k, d, p : /\ k = UpperBound(q, s) /\ p = Inserted(q, s)
                     /\ d = IF Len(q) + 1 > MaxRecent THEN Len(q) + 1 - MaxRecent ELSE 0
  OBVIOUS
<1>2. Shifted(q, s, k, d, p)
  BY <1>1, InsertedForm
<1>3. /\ k \in 0 .. Len(q) /\ d \in 0 .. Len(q) /\ Len(q) \in Nat
      /\ \A i \in 1 .. k : q[i] <= s
      /\ \A i \in k + 1 .. Len(q) : q[i] > s
  <2>1. Len(q) \in Nat /\ MaxRecent \in Nat /\ MaxRecent >= 1
    BY StoreAssumption
  <2>2. d \in 0 .. Len(q)
    BY <1>1, <2>1
  <2> QED BY <1>1, <2>1, <2>2, UpperBoundFacts
<1>4. \A i \in 1 .. Len(q) : q[i] \in Nat
  OBVIOUS
<1>5. ASSUME NEW i \in 1 .. Len(p), NEW j \in 1 .. Len(p), i < j PROVE p[i] <= p[j]
  <2>1. i + d \in 1 .. Len(q) + 1 /\ j + d \in 1 .. Len(q) + 1 /\ i + d < j + d
    BY <1>2, <1>3, <1>5 DEF Shifted
  <2>2. p[i] = IF i + d <= k THEN q[i + d] ELSE IF i + d = k + 1 THEN s ELSE q[i + d - 1]
    BY <1>2 DEF Shifted
  <2>3. p[j] = IF j + d <= k THEN q[j + d] ELSE IF j + d = k + 1 THEN s ELSE q[j + d - 1]
    BY <1>2 DEF Shifted
  <2>4. PICK x, y : x = i + d /\ y = j + d /\ x \in 1 .. Len(q) + 1 /\ y \in 1 .. Len(q) + 1 /\ x < y
    BY <2>1
  <2>5. CASE y <= k
    <3>0. x \in 1 .. Len(q) /\ y \in 1 .. Len(q) /\ x <= k
      BY <1>3, <2>4, <2>5, SMTT(30)
    <3>1. p[i] = q[x] /\ p[j] = q[y]
      BY <2>2, <2>3, <2>4, <2>5, <3>0
    <3> QED BY <2>4, <3>0, <3>1 DEF Ordered
  <2>6. CASE y = k + 1
    BY <1>3, <2>2, <2>3, <2>4, <2>6
  <2>7. CASE y > k + 1 /\ x <= k + 1
    <3>0. y - 1 \in k + 1 .. Len(q) /\ p[j] = q[y - 1]
      BY <1>3, <2>3, <2>4, <2>7
    <3>1. p[j] = q[y - 1] /\ q[y - 1] \in Nat /\ q[y - 1] > s
      BY <1>3, <1>4, <3>0
    <3>2. p[i] \in Nat /\ p[i] <= s
      BY <1>3, <1>4, <2>2, <2>4, <2>7, SMTT(30)
    <3> QED BY <3>1, <3>2
  <2>8. CASE x > k + 1
    <3>1. x - 1 \in 1 .. Len(q) /\ y - 1 \in 1 .. Len(q) /\ x - 1 < y - 1
      BY <1>3, <2>4, <2>8
    <3>2. p[i] = q[x - 1] /\ p[j] = q[y - 1]
      BY <1>3, <2>2, <2>3, <2>4, <2>8
    <3> QED BY <3>1, <3>2 DEF Ordered
  <2> QED BY <1>3, <2>4, <2>5, <2>6, <2>7, <2>8
<1> QED BY <1>1, <1>2, <1>5 DEF Shifted, Ordered

\* Inserting a new number keeps the newest ones.
LEMMA InsertedNewest ==
    ASSUME NEW q \in Seq(Nat), NEW S \in SUBSET Nat, NEW s \in Nat, s \notin S, HoldsNewest(q, S)
    PROVE  HoldsNewest(Inserted(q, s), S \cup {s})
<1>1. PICK k, d, p : /\ k = UpperBound(q, s) /\ p = Inserted(q, s)
                     /\ d = IF Len(q) + 1 > MaxRecent THEN Len(q) + 1 - MaxRecent ELSE 0
  OBVIOUS
<1>2. /\ Len(q) \in Nat /\ MaxRecent \in Nat /\ MaxRecent >= 1 /\ Len(q) <= MaxRecent
      /\ \A i \in 1 .. Len(q) : q[i] \in Nat /\ q[i] \in S /\ q[i] # s
  BY StoreAssumption DEF HoldsNewest
<1>3. \A i, j \in 1 .. Len(q) : i < j => q[i] < q[j]
  BY DEF HoldsNewest
<1>4. Ordered(q)
  BY <1>2, <1>3 DEF Ordered
<1>5. k \in 0 .. Len(q) /\ (\A i \in 1 .. k : q[i] <= s) /\ \A i \in k + 1 .. Len(q) : q[i] > s
  BY <1>1, <1>4, UpperBoundFacts
<1>6. \A i \in 1 .. k : q[i] < s
  BY <1>2, <1>5
<1>7. Shifted(q, s, k, d, p)
  BY <1>1, <1>4, InsertedForm
<1>8. /\ d \in {0, 1} /\ (d = 0 => Len(q) < MaxRecent) /\ (d = 1 => Len(q) = MaxRecent)
      /\ Len(p) = Len(q) + 1 - d /\ Len(p) \in Nat /\ Len(p) <= MaxRecent
      /\ d = 1 => Len(p) = MaxRecent
  BY <1>1, <1>2, <1>7 DEF Shifted
<1>9. \A i \in 1 .. Len(p) : p[i] = IF i + d <= k THEN q[i + d]
                                    ELSE IF i + d = k + 1 THEN s ELSE q[i + d - 1]
  BY <1>7 DEF Shifted
<1>10. ASSUME NEW i \in 1 .. Len(p), NEW j \in 1 .. Len(p), i < j PROVE p[i] < p[j]
  <2>0. d \in Int /\ i \in Int /\ j \in Int /\ k \in Int
    BY <1>2, <1>5, <1>8
  <2>1. PICK x, y : x = i + d /\ y = j + d /\ x \in 1 .. Len(q) + 1 /\ y \in 1 .. Len(q) + 1 /\ x < y
    BY <1>2, <1>8, <1>10
  <2>2. p[i] = IF x <= k THEN q[x] ELSE IF x = k + 1 THEN s ELSE q[x - 1]
    <3>1. p[i] = IF i + d <= k THEN q[i + d] ELSE IF i + d = k + 1 THEN s ELSE q[i + d - 1]
      BY <1>9
    <3> QED BY <2>0, <2>1, <3>1
  <2>3. p[j] = IF y <= k THEN q[y] ELSE IF y = k + 1 THEN s ELSE q[y - 1]
    <3>1. p[j] = IF j + d <= k THEN q[j + d] ELSE IF j + d = k + 1 THEN s ELSE q[j + d - 1]
      BY <1>9
    <3> QED BY <2>0, <2>1, <3>1
  <2>5. CASE y <= k
    <3>1. x \in 1 .. Len(q) /\ y \in 1 .. Len(q) /\ x <= k
      BY <1>2, <1>5, <2>1, <2>5, SMTT(30)
    <3> QED BY <1>3, <2>1, <2>2, <2>3, <2>5, <3>1
  <2>6. CASE y = k + 1
    <3>0. x \in 1 .. k /\ x <= k /\ ~(y <= k)
      BY <2>0, <2>1, <2>6
    <3>1. x \in 1 .. k /\ p[i] = q[x] /\ p[j] = s
      BY <2>2, <2>3, <2>6, <3>0
    <3> QED BY <1>6, <3>1
  <2>7. CASE y > k + 1 /\ x <= k + 1
    <3>1. y - 1 \in k + 1 .. Len(q) /\ y - 1 \in 1 .. Len(q) /\ p[j] = q[y - 1]
      BY <1>2, <1>5, <2>1, <2>3, <2>7, SMTT(30)
    <3>2. q[y - 1] \in Nat /\ q[y - 1] > s
      BY <1>2, <1>5, <3>1
    <3>3. CASE x = k + 1
      <4>1. p[i] = s
        BY <1>5, <2>2, <3>3
      <4> QED BY <3>1, <3>2, <4>1
    <3>4. CASE x # k + 1
      <4>1. x \in 1 .. k /\ x \in 1 .. Len(q) /\ p[i] = q[x]
        BY <1>2, <1>5, <2>1, <2>2, <2>7, <3>4, SMTT(30)
      <4>2. q[x] \in Nat /\ q[x] < s
        BY <1>2, <1>6, <4>1
      <4> QED BY <3>1, <3>2, <4>1, <4>2, SMTT(30)
    <3> QED BY <3>3, <3>4
  <2>8. CASE x > k + 1
    <3>0. x \in Int /\ y \in Int /\ x < y /\ k >= 0 /\ y <= Len(q) + 1
      BY <1>5, <2>0, <2>1
    <3>1. x - 1 \in 1 .. Len(q) /\ y - 1 \in 1 .. Len(q) /\ x - 1 < y - 1
      BY <1>2, <2>0, <2>8, <3>0
    <3>2. p[i] = q[x - 1] /\ p[j] = q[y - 1]
      BY <1>5, <2>1, <2>2, <2>3, <2>8
    <3> QED BY <1>3, <3>1, <3>2
  <2> QED BY <1>5, <2>1, <2>5, <2>6, <2>7, <2>8
<1>11. ASSUME NEW i \in 1 .. Len(p) PROVE p[i] \in S \cup {s}
  <2>1. i + d \in 1 .. Len(q) + 1
    BY <1>2, <1>8
  <2>2. CASE i + d <= k
    <3>1. p[i] = q[i + d]
      BY <1>9, <2>2
    <3>2. i + d \in 1 .. Len(q)
      BY <1>2, <1>5, <2>1, <2>2
    <3> QED BY <1>2, <3>1, <3>2
  <2>3. CASE i + d = k + 1
    BY <1>5, <1>8, <1>9, <2>3
  <2>4. CASE i + d > k + 1
    <3>1. i + d - 1 \in 1 .. Len(q) /\ p[i] = q[i + d - 1]
      BY <1>2, <1>5, <1>8, <1>9, <2>1, <2>4
    <3> QED BY <1>2, <3>1
  <2> QED BY <1>5, <2>1, <2>2, <2>3, <2>4
\* Where the entries of q and s itself are found.
<1>12. ASSUME NEW x \in 1 .. Len(q) PROVE (x = 1 /\ d = 1 /\ k # 0) \/ \E i \in 1 .. Len(p) : p[i] = q[x]
  <2>1. CASE x <= k /\ x - d \in 1 .. Len(p)
    <3>1. (x - d) + d = x
      BY <1>8
    <3>2. p[x - d] = q[x]
      BY <1>9, <2>1, <3>1
    <3> QED BY <2>1, <3>2
  <2>2. CASE x > k
    <3>1. x + 1 - d \in 1 .. Len(p) /\ (x + 1 - d) + d = x + 1 /\ x + 1 - 1 = x
      BY <1>2, <1>5, <1>8, <2>2
    <3>2. PICK j \in 1 .. Len(p) : j + d = x + 1
      BY <3>1
    <3>3. ~(j + d <= k) /\ j + d # k + 1 /\ j + d - 1 = x
      BY <1>2, <1>5, <1>8, <2>2, <3>2
    <3>4. p[j] = q[x]
      BY <1>9, <3>3
    <3> QED BY <3>4
  <2> QED BY <1>2, <1>5, <1>8, <2>1, <2>2
<1>13. (k = 0 /\ d = 1) \/ \E i \in 1 .. Len(p) : p[i] = s
  <2>1. SUFFICES ASSUME ~(k = 0 /\ d = 1) PROVE \E i \in 1 .. Len(p) : p[i] = s
    OBVIOUS
  <2>2. k + 1 - d \in 1 .. Len(p) /\ (k + 1 - d) + d = k + 1
    BY <1>2, <1>5, <1>8, <2>1
  <2>3. p[k + 1 - d] = s
    BY <1>5, <1>9, <2>2
  <2> QED BY <2>2, <2>3
<1>14. \A i \in 1 .. Len(p) : p[i] \in Nat
  BY <1>11
\* What is left out is older than every entry.
<1>15. ASSUME NEW n \in S \cup {s}, ~\E i \in 1 .. Len(p) : p[i] = n
       PROVE  Len(p) = MaxRecent /\ \A i \in 1 .. Len(p) : n < p[i]
  <2>1. CASE n = s
    <3>1. k = 0 /\ d = 1
      BY <1>13, <1>15, <2>1
    <3>2. \A i \in 1 .. Len(p) : i \in k + 1 .. Len(q) /\ p[i] = q[i]
      BY <1>2, <1>8, <1>9, <3>1
    <3> QED BY <1>5, <1>8, <2>1, <3>1, <3>2
  <2>2. CASE n \in S /\ \E x \in 1 .. Len(q) : q[x] = n
    <3>1. PICK x \in 1 .. Len(q) : q[x] = n
      BY <2>2
    <3>2. x = 1 /\ d = 1 /\ k # 0
      BY <1>12, <1>15, <3>1
    <3>3. n = q[1] /\ n \in Nat /\ 1 \in 1 .. k
      BY <1>2, <1>5, <3>1, <3>2
    <3>4. ASSUME NEW i \in 1 .. Len(p) PROVE n < p[i]
      <4>1. i + 1 \in 1 .. Len(q) + 1
        BY <1>2, <1>8, <3>2
      <4>2. CASE i + 1 <= k
        <5>1. i + 1 \in 1 .. Len(q) /\ p[i] = q[i + 1] /\ 1 < i + 1 /\ 1 \in 1 .. Len(q)
          BY <1>2, <1>5, <1>9, <3>2, <4>1, <4>2
        <5> QED BY <1>3, <3>3, <5>1
      <4>3. CASE i + 1 = k + 1
        <5>1. p[i] = s
          BY <1>5, <1>9, <3>2, <4>3
        <5> QED BY <1>6, <3>3, <5>1
      <4>4. CASE i + 1 > k + 1
        <5>1. i \in k + 1 .. Len(q) /\ p[i] = q[i] /\ i \in 1 .. Len(q) /\ 1 \in 1 .. Len(q) /\ 1 < i
          BY <1>2, <1>5, <1>9, <3>2, <3>3, <4>1, <4>4
        <5> QED BY <1>3, <3>3, <5>1
      <4> QED BY <1>5, <4>1, <4>2, <4>3, <4>4
    <3> QED BY <1>8, <3>2, <3>4
  <2>3. CASE n \in S /\ ~\E x \in 1 .. Len(q) : q[x] = n
    <3>1. Len(q) = MaxRecent /\ \A i \in 1 .. Len(q) : n < q[i]
      BY <2>3 DEF HoldsNewest
    <3>2. d = 1 /\ n \in Nat
      BY <1>1, <1>2, <1>8, <2>3, <3>1
    <3>3. ASSUME NEW i \in 1 .. Len(p) PROVE n < p[i]
      <4>1. i + 1 \in 1 .. Len(q) + 1
        BY <1>2, <1>8, <3>2
      <4>2. CASE i + 1 <= k
        <5>1. i + 1 \in 1 .. Len(q) /\ p[i] = q[i + 1]
          BY <1>2, <1>5, <1>9, <3>2, <4>1, <4>2
        <5> QED BY <3>1, <5>1
      <4>3. CASE i + 1 = k + 1
        <5>1. p[i] = s /\ 1 \in 1 .. k /\ 1 \in 1 .. Len(q)
          BY <1>2, <1>5, <1>9, <3>2, <4>3
        <5>2. q[1] \in Nat /\ q[1] < s /\ n < q[1]
          BY <1>2, <1>6, <3>1, <5>1
        <5> QED BY <3>2, <5>1, <5>2
      <4>4. CASE i + 1 > k + 1
        <5>1. i \in 1 .. Len(q) /\ p[i] = q[i]
          BY <1>2, <1>5, <1>9, <3>2, <4>1, <4>4
        <5> QED BY <3>1, <5>1
      <4> QED BY <1>5, <4>1, <4>2, <4>3, <4>4
    <3> QED BY <1>8, <3>2, <3>3
  <2> QED BY <1>15, <2>1, <2>2, <2>3
<1>16. HoldsNewest(p, S \cup {s})
  BY <1>8, <1>10, <1>11, <1>15 DEF HoldsNewest
<1> QED BY <1>1, <1>16

\* The loop of the constructor: c is what it has collected after each token.
IsEvent(r, ids) == r.type = "event" /\ r.id \in ids /\ r.whole
Collects(c, f, ids, n) ==
    c = [i \in 0 .. n |-> IF i = 0 THEN <<>>
                          ELSE IF f[i].type = "event" /\ f[i].id \in ids /\ f[i].whole
                               THEN Inserted(c[i - 1], f[i].seq) ELSE c[i - 1]]
\* The numbers of the events among the first n tokens.
NumbersTo(f, ids, n) == {f[i].seq : i \in {j \in 1 .. n : IsEvent(f[j], ids)}}

LEMMA CollectExists ==
    ASSUME NEW f, NEW ids, NEW k \in Nat
    PROVE  \E c : Collects(c, f, ids, k)
<1>1. PICK bad : bad = {n \in Nat : ~\E c : Collects(c, f, ids, n)}
  OBVIOUS
<1>2. SUFFICES ASSUME bad # {} PROVE FALSE
  BY <1>1
<1>3. PICK n \in bad : \A m \in bad : n <= m
  BY <1>1, <1>2, LeastNat
<1>4. n \in Nat /\ ~\E c : Collects(c, f, ids, n)
  BY <1>1, <1>3
<1>5. CASE n = 0
  <2>1. PICK c : c = [m \in 0 .. 0 |-> <<>>]
    OBVIOUS
  <2>2. Collects(c, f, ids, 0)
    BY <2>1 DEF Collects
  <2> QED BY <1>4, <1>5, <2>2
<1>6. CASE n # 0
  <2>1. n - 1 \in Nat /\ n - 1 \notin bad
    BY <1>3, <1>4, <1>6
  <2>2. PICK c : Collects(c, f, ids, n - 1)
    BY <1>1, <2>1
  <2>3. PICK g : g = [m \in 0 .. n |->
                        IF m = n THEN (IF IsEvent(f[n], ids) THEN Inserted(c[n - 1], f[n].seq)
                                       ELSE c[n - 1])
                        ELSE c[m]]
    OBVIOUS
  <2>4. \A m \in 0 .. n - 1 :
           c[m] = IF m = 0 THEN <<>>
                  ELSE IF IsEvent(f[m], ids) THEN Inserted(c[m - 1], f[m].seq) ELSE c[m - 1]
    BY <2>2 DEF Collects, IsEvent
  <2>5. \A m \in 0 .. n :
           g[m] = IF m = 0 THEN <<>>
                  ELSE IF IsEvent(f[m], ids) THEN Inserted(g[m - 1], f[m].seq) ELSE g[m - 1]
    BY <1>4, <1>6, <2>3, <2>4
  <2>6. Collects(g, f, ids, n)
    BY <2>3, <2>5 DEF Collects, IsEvent
  <2> QED BY <1>4, <2>6
<1> QED BY <1>4, <1>5, <1>6

LEMMA CollectedLoop ==
    ASSUME NEW f \in Seq(Tokens), NEW ids
    PROVE  /\ Collected(f, ids)[0] = <<>>
           /\ \A i \in 1 .. Len(f) :
                Collected(f, ids)[i] = IF IsEvent(f[i], ids)
                                       THEN Inserted(Collected(f, ids)[i - 1], f[i].seq)
                                       ELSE Collected(f, ids)[i - 1]
<1>0. Len(f) \in Nat
  OBVIOUS
<1>1. \E c : Collects(c, f, ids, Len(f))
  BY <1>0, CollectExists
<1>2. Collected(f, ids) = CHOOSE c : Collects(c, f, ids, Len(f))
  BY DEF Collected, Collects
<1>3. PICK c : c = Collected(f, ids) /\ Collects(c, f, ids, Len(f))
  BY <1>1, <1>2
<1>4. \A i \in 0 .. Len(f) :
         c[i] = IF i = 0 THEN <<>>
                ELSE IF IsEvent(f[i], ids) THEN Inserted(c[i - 1], f[i].seq) ELSE c[i - 1]
  BY <1>3 DEF Collects, IsEvent
<1>5. 0 \in 0 .. Len(f) /\ \A i \in 1 .. Len(f) : i \in 0 .. Len(f) /\ i # 0
  BY <1>0
<1> QED BY <1>3, <1>4, <1>5

\* The constructor's loop leaves the newest numbers of the journal in the cache, in order.
LEMMA RecentNewest ==
    ASSUME NEW f \in Seq(Tokens), NEW ids,
           \A i, j \in 1 .. Len(f) : i # j /\ f[i] # NewLine /\ f[j] # NewLine => f[i].seq # f[j].seq
    PROVE  /\ RecentIn(f, ids) \in Seq(Nat)
           /\ HoldsNewest(RecentIn(f, ids), NumbersTo(f, ids, Len(f)))
<1>0. /\ Len(f) \in Nat
      /\ \A i \in 1 .. Len(f) : f[i] \in Tokens /\ f[i].seq \in Nat
      /\ \A i \in 1 .. Len(f) : IsEvent(f[i], ids) => f[i] # NewLine
  BY DEF Tokens, Records, NewLine, IsEvent
<1>1. PICK c : c = Collected(f, ids)
  OBVIOUS
<1>2. /\ c[0] = <<>>
      /\ \A i \in 1 .. Len(f) : c[i] = IF IsEvent(f[i], ids) THEN Inserted(c[i - 1], f[i].seq)
                                       ELSE c[i - 1]
  BY <1>1, CollectedLoop
<1>3. PICK bad : bad = {n \in 0 .. Len(f) :
                          ~(c[n] \in Seq(Nat) /\ HoldsNewest(c[n], NumbersTo(f, ids, n)))}
  OBVIOUS
<1>4. bad = {}
  <2>1. SUFFICES ASSUME bad # {} PROVE FALSE
    OBVIOUS
  <2>2. bad \in SUBSET Nat
    BY <1>3
  <2>3. PICK n \in bad : \A m \in bad : n <= m
    BY <2>1, <2>2, LeastNat
  <2>4. n \in 0 .. Len(f) /\ ~(c[n] \in Seq(Nat) /\ HoldsNewest(c[n], NumbersTo(f, ids, n)))
    BY <1>3, <2>3
  <2>5. n # 0
    <3>1. NumbersTo(f, ids, 0) = {}
      BY DEF NumbersTo
    <3>0. <<>> \in Seq(Nat) /\ Len(<<>>) = 0
      OBVIOUS
    <3>2. PICK e : e = <<>> /\ e \in Seq(Nat) /\ Len(e) = 0
      BY <3>0, Zenon
    <3>3. HoldsNewest(e, NumbersTo(f, ids, 0))
      BY <3>1, <3>2, StoreAssumption DEF HoldsNewest
    <3> QED BY <1>2, <2>4, <3>2, <3>3
  <2>6. n - 1 \in 0 .. Len(f) /\ n \in 1 .. Len(f) /\ ~(n <= n - 1)
    BY <1>0, <2>4, <2>5
  <2>7. c[n - 1] \in Seq(Nat) /\ HoldsNewest(c[n - 1], NumbersTo(f, ids, n - 1))
    BY <1>3, <2>3, <2>6
  <2>8. CASE IsEvent(f[n], ids)
    <3>1. NumbersTo(f, ids, n) = NumbersTo(f, ids, n - 1) \cup {f[n].seq}
      <4>1. \A j : j \in 1 .. n <=> j \in 1 .. n - 1 \/ j = n
        BY <2>6
      <4> QED BY <2>8, <4>1, Zenon DEF NumbersTo
    <3>2. f[n].seq \notin NumbersTo(f, ids, n - 1)
      <4>1. SUFFICES ASSUME NEW j \in 1 .. n - 1, IsEvent(f[j], ids), f[j].seq = f[n].seq PROVE FALSE
        BY Zenon DEF NumbersTo
      <4>2. j \in 1 .. Len(f) /\ j # n
        BY <2>6
      <4> QED BY <1>0, <2>6, <2>8, <4>1, <4>2
    <3>3. NumbersTo(f, ids, n - 1) \in SUBSET Nat /\ f[n].seq \in Nat
      <4>1. \A j \in 1 .. n - 1 : j \in 1 .. Len(f)
        BY <2>6
      <4> QED BY <1>0, <2>6, <4>1 DEF NumbersTo
    <3>4. c[n] = Inserted(c[n - 1], f[n].seq)
      BY <1>2, <2>6, <2>8
    <3>5. HoldsNewest(c[n], NumbersTo(f, ids, n))
      BY <2>7, <3>1, <3>2, <3>3, <3>4, InsertedNewest
    <3>6. Ordered(c[n - 1])
      BY <2>7, <3>3 DEF HoldsNewest, Ordered
    <3>7. c[n] \in Seq(Nat)
      BY <2>7, <3>3, <3>4, <3>6, InsertedOrdered
    <3> QED BY <2>4, <3>5, <3>7
  <2>9. CASE ~IsEvent(f[n], ids)
    <3>1. NumbersTo(f, ids, n) = NumbersTo(f, ids, n - 1)
      <4>1. \A j : j \in 1 .. n <=> j \in 1 .. n - 1 \/ j = n
        BY <2>6
      <4> QED BY <2>9, <4>1, Zenon DEF NumbersTo
    <3>2. c[n] = c[n - 1]
      BY <1>2, <2>6, <2>9
    <3> QED BY <2>4, <2>7, <3>1, <3>2
  <2> QED BY <2>8, <2>9
<1>5. c[Len(f)] \in Seq(Nat) /\ HoldsNewest(c[Len(f)], NumbersTo(f, ids, Len(f)))
  <2>1. Len(f) \in 0 .. Len(f)
    BY <1>0
  <2> QED BY <1>3, <1>4, <2>1
<1> QED BY <1>1, <1>5 DEF RecentIn

(***************************************************************************)
(* The caches of a running store                                           *)
(***************************************************************************)
\* A call that has its number and has not yet put it into the index.
Waiting(t) == thread[t].pc \in {"write", "index"}
\* The events of the file that no call has still to index.
Indexed(ids) == {s \in NumbersTo(file, ids, Len(file)) :
                    \A t \in Threads : Waiting(t) => thread[t].record.seq # s}

\* No two calls have the same number, and commit_order indexes nothing because it writes no event.
CallInv ==
    /\ \A t, u \in Threads : t # u /\ thread[t].pc # "idle" /\ thread[u].pc # "idle" =>
        thread[t].record.seq # thread[u].record.seq
    /\ \A t \in Threads : thread[t].op = "commit_order" => thread[t].record.type = "order"

CacheTypes ==
    /\ recent \in Seq(Nat) /\ Ordered(recent)
    /\ recentOf \in [Orders -> Seq(Nat)] /\ \A o \in Orders : Ordered(recentOf[o])

\* The caches hold the newest events that calls have indexed, in whatever order these did so.
NewestInv ==
    Up /\ ~torn => /\ HoldsNewest(recent, Indexed(Orders \cup {NoOrder}))
                   /\ \A o \in Orders : HoldsNewest(recentOf[o], Indexed({o}))

CacheInv == CallInv /\ CacheTypes /\ NewestInv

LEMMA InitCacheInv == Init => CacheInv
<1>1. SUFFICES ASSUME Init PROVE CacheInv
  OBVIOUS
<1>2. \A t \in Threads : thread[t] = Idle
  BY <1>1 DEF Init
<1>3. CallInv
  BY <1>2 DEF CallInv, Idle
<1>4. CacheTypes
  BY <1>1 DEF Init, CacheTypes, Ordered
<1>5. NewestInv
  BY <1>1 DEF Init, NewestInv, Up
<1> QED BY <1>3, <1>4, <1>5 DEF CacheInv

LEMMA CallStep ==
    ASSUME StoreInv, CallInv, [Next]_vars
    PROVE  CallInv'
<1>t. Types /\ ThreadInv /\ WrittenInv
  BY DEF StoreInv
<1>q. next \in Nat /\ \A t \in Threads : thread[t].pc # "idle" =>
          thread[t].record.seq \in Nat /\ thread[t].record.seq # next
  <2>1. next \in Nat /\ \A t \in Threads : thread[t].pc # "idle" =>
            thread[t].record \in Records /\ thread[t].record.seq < next
    BY <1>t DEF Types, ThreadInv
  <2>2. \A r \in Records : r.seq \in Nat
    BY DEF Records
  <2> QED BY <2>1, <2>2
<1>1. ASSUME NEW t \in Threads, NEW op \in Operations, NEW id \in Orders \cup {NoOrder},
             TakeSequence(t, op, id)
      PROVE  CallInv'
  <2>1. /\ \A u \in Threads \ {t} : thread'[u] = thread[u]
        /\ thread'[t].record.seq = next /\ thread'[t].op = op
        /\ thread'[t].record.type = IF op = "append_event" THEN "event" ELSE "order"
    BY <1>1, <1>t, TakeEffect
  <2> QED BY <1>q, <2>1 DEF CallInv
<1>2. ASSUME NEW t \in Threads, WriteSome(t) \/ UpdateIndex(t) \/ Signal(t) PROVE CallInv'
  <2>1. /\ \A u \in Threads \ {t} : thread'[u] = thread[u]
        /\ thread'[t].record = thread[t].record /\ thread'[t].op = thread[t].op
    <3>1. CASE WriteSome(t)
      BY <1>t, <3>1, WriteEffect, WriteCaller
    <3>2. CASE UpdateIndex(t) \/ Signal(t)
      BY <1>t, <3>2, CallerMoves
    <3> QED BY <1>2, <3>1, <3>2
  <2>2. thread[t].pc # "idle"
    BY <1>2 DEF WriteSome, UpdateIndex, Signal
  <2> QED BY <2>1, <2>2 DEF CallInv
<1>3. ASSUME NEW t \in Threads, WriteFails(t) \/ Notify(t) PROVE CallInv'
  <2>1. /\ \A u \in Threads \ {t} : thread'[u] = thread[u]
        /\ thread'[t] = Idle /\ thread'[t].pc = "idle"
    BY <1>3, <1>t, CallEnds
  <2> QED BY <2>1 DEF CallInv, Idle
<1>4. CASE OfWorker
  BY <1>4, WorkerLeavesFile DEF CallInv
<1>5. CASE OfProcess
  <2>1. \A t \in Threads : thread'[t] = Idle /\ thread'[t].pc = "idle"
    BY <1>5, NobodyCalls
  <2> QED BY <2>1 DEF CallInv, Idle
<1> QED BY <1>1, <1>2, <1>3, <1>4, <1>5, NextCases

\* Which steps touch the caches.
LEMMA CachesStay ==
    ASSUME \/ \E t \in Threads, op \in Operations, id \in Orders \cup {NoOrder} : TakeSequence(t, op, id)
           \/ \E t \in Threads : WriteSome(t) \/ WriteFails(t) \/ Signal(t) \/ Notify(t)
           \/ OfWorker
           \/ CloseBegin \/ CloseEnd \/ RepairFails \/ RefuseToStart
    PROVE  UNCHANGED <<recent, recentOf>>
BY DEF TakeSequence, WriteSome, WriteFails, Signal, Notify, OfWorker, WorkerStep, WorkerCheck,
       WorkerSleep, WorkerLoad, FlushBegin, FlushEnd, SpuriousWakeup, OnlyWorker, index, vars,
       CloseBegin, CloseEnd, RepairFails, RefuseToStart

\* A restart collects the caches from the journal.
LEMMA RecoverCollects ==
    ASSUME StoreInv', Recover, NEW ids
    PROVE  /\ RecentIn(file', ids) \in Seq(Nat)
           /\ Ordered(RecentIn(file', ids))
           /\ HoldsNewest(RecentIn(file', ids), NumbersTo(file', ids, Len(file')))
<1>1. PICK f : f = file'
  OBVIOUS
<1>2. /\ f \in Seq(Tokens)
      /\ \A i, j \in 1 .. Len(f) : i # j /\ f[i] # NewLine /\ f[j] # NewLine => f[i].seq # f[j].seq
  BY <1>1 DEF StoreInv, Types, NumberInv, NumbersAreUnique
<1>3. /\ RecentIn(f, ids) \in Seq(Nat)
      /\ HoldsNewest(RecentIn(f, ids), NumbersTo(f, ids, Len(f)))
  BY <1>2, RecentNewest
<1>4. PICK q : q = RecentIn(f, ids) /\ q \in Seq(Nat) /\ \A i, j \in 1 .. Len(q) : i < j => q[i] < q[j]
  BY <1>3 DEF HoldsNewest
<1>5. \A i \in 1 .. Len(q) : q[i] \in Nat
  BY <1>4
<1>6. Ordered(q)
  BY <1>4, <1>5 DEF Ordered
<1> QED BY <1>1, <1>3, <1>4, <1>6

LEMMA CacheTypesStep ==
    ASSUME StoreInv, StoreInv', CacheTypes, [Next]_vars
    PROVE  CacheTypes'
<1>1. CASE UNCHANGED <<recent, recentOf>>
  BY <1>1 DEF CacheTypes, Ordered
<1>2. ASSUME NEW t \in Threads, UpdateIndex(t) PROVE CacheTypes'
  <2>1. PICK r : r = thread[t].record /\ r \in Records
    BY <1>2 DEF StoreInv, ThreadInv, UpdateIndex
  <2>2. CASE r.type = "order"
    BY <1>1, <1>2, <2>1, <2>2 DEF UpdateIndex
  <2>3. CASE r.type # "order"
    <3>1. /\ recent' = Inserted(recent, r.seq)
          /\ recentOf' = [o \in Orders |-> IF o = r.id THEN Inserted(recentOf[o], r.seq)
                                           ELSE recentOf[o]]
      BY <1>2, <2>1, <2>3 DEF UpdateIndex
    <3>2. r.seq \in Nat
      BY <2>1 DEF Records
    <3>3. recent' \in Seq(Nat) /\ Ordered(recent')
      BY <3>1, <3>2, InsertedOrdered DEF CacheTypes
    <3>4. \A o \in Orders : /\ recentOf[o] \in Seq(Nat) /\ Ordered(recentOf[o])
                            /\ Inserted(recentOf[o], r.seq) \in Seq(Nat)
                            /\ Ordered(Inserted(recentOf[o], r.seq))
      BY <3>2, InsertedOrdered DEF CacheTypes
    <3>5. \A o \in Orders : recentOf'[o] \in Seq(Nat) /\ Ordered(recentOf'[o])
      BY <3>1, <3>4
    <3>6. recentOf' \in [Orders -> Seq(Nat)]
      BY <3>1, <3>5
    <3> QED BY <3>3, <3>5, <3>6 DEF CacheTypes, Ordered
  <2> QED BY <2>2, <2>3
<1>3. CASE OfProcess
  <2>1. CASE CloseBegin \/ CloseEnd \/ RepairFails \/ RefuseToStart
    BY <1>1, <2>1, CachesStay
  <2>2. CASE ProcessDies \/ PowerLoss
    <3>1. recent' = <<>> /\ recentOf' = [o \in Orders |-> <<>>]
      BY <2>2 DEF ProcessDies, PowerLoss, Die
    <3>2. <<>> \in Seq(Nat) /\ Ordered(<<>>)
      BY DEF Ordered
    <3>3. \A o \in Orders : recentOf'[o] = <<>>
      BY <3>1
    <3> QED BY <3>1, <3>2, <3>3 DEF CacheTypes, Ordered
  <2>3. CASE Recover
    <3>1. /\ recent' = RecentIn(file', Orders \cup {NoOrder})
          /\ recentOf' = [o \in Orders |-> RecentIn(file', {o})]
      BY <2>3 DEF Recover
    <3>2. recent' \in Seq(Nat) /\ Ordered(recent')
      BY <2>3, <3>1, RecoverCollects
    <3>3. \A o \in Orders : recentOf'[o] \in Seq(Nat) /\ Ordered(recentOf'[o])
      BY <2>3, <3>1, RecoverCollects
    <3>4. recentOf' \in [Orders -> Seq(Nat)]
      BY <3>1, <3>3
    <3> QED BY <3>2, <3>3, <3>4 DEF CacheTypes, Ordered
  <2> QED BY <1>3, <2>1, <2>2, <2>3 DEF OfProcess
<1> QED BY <1>1, <1>2, <1>3, NextCases, CachesStay

\* Who is in Indexed.
LEMMA IndexedMembers ==
    ASSUME NEW ids, NEW s
    PROVE  s \in Indexed(ids) <=>
             /\ \E i \in 1 .. Len(file) : IsEvent(file[i], ids) /\ file[i].seq = s
             /\ \A u \in Threads : Waiting(u) => thread[u].record.seq # s
BY Zenon DEF Indexed, NumbersTo

\* Events that are not followed by UpdateIndex leave what is indexed as it is: a number is new
\* when it is taken, and belongs to a waiting call from then on.
LEMMA IndexedStays ==
    ASSUME StoreInv, CallInv, NEW ids, ~torn',
           \/ \E t \in Threads, op \in Operations, id \in Orders \cup {NoOrder} : TakeSequence(t, op, id)
           \/ \E t \in Threads : WriteSome(t) \/ WriteFails(t) \/ Signal(t) \/ Notify(t)
           \/ OfWorker \/ CloseBegin \/ CloseEnd
    PROVE  Indexed(ids)' = Indexed(ids)
<1>t. Types /\ ThreadInv /\ WrittenInv /\ NumberInv
  BY DEF StoreInv
<1>f. /\ next \in Nat /\ Len(file) \in Nat
      /\ \A i \in 1 .. Len(file) : file[i].seq \in Nat
      /\ \A i \in 1 .. Len(file) : IsEvent(file[i], ids) => file[i] # NewLine
  <2>1. file \in Seq(Tokens) /\ next \in Nat
    BY <1>t DEF Types
  <2>2. \A i \in 1 .. Len(file) : file[i] \in Tokens
    BY <2>1
  <2> QED BY <2>1, <2>2 DEF Tokens, Records, NewLine, IsEvent
\* The file stays, and the calls that begin or stop waiting have numbers that are not in it.
<1>0. ASSUME file' = file,
             \A s : (\E i \in 1 .. Len(file) : IsEvent(file[i], ids) /\ file[i].seq = s) =>
                 ((\A u \in Threads : Waiting(u)' => thread'[u].record.seq # s)
                     <=> (\A u \in Threads : Waiting(u) => thread[u].record.seq # s))
      PROVE  Indexed(ids)' = Indexed(ids)
  <2>1. PICK E : /\ E = NumbersTo(file, ids, Len(file)) /\ E = NumbersTo(file', ids, Len(file'))
                 /\ \A s \in E : \E i \in 1 .. Len(file) : IsEvent(file[i], ids) /\ file[i].seq = s
    <3>1. NumbersTo(file', ids, Len(file')) = NumbersTo(file, ids, Len(file))
      BY <1>0
    <3>2. ASSUME NEW s \in NumbersTo(file, ids, Len(file))
          PROVE  \E i \in 1 .. Len(file) : IsEvent(file[i], ids) /\ file[i].seq = s
      BY Zenon DEF NumbersTo
    <3> QED BY <3>1, <3>2, Zenon
  <2>2. /\ Indexed(ids)' = {s \in E : \A u \in Threads : Waiting(u)' => thread'[u].record.seq # s}
        /\ Indexed(ids) = {s \in E : \A u \in Threads : Waiting(u) => thread[u].record.seq # s}
    BY <2>1 DEF Indexed
  <2>3. \A s \in E : (\A u \in Threads : Waiting(u)' => thread'[u].record.seq # s)
                         <=> (\A u \in Threads : Waiting(u) => thread[u].record.seq # s)
    BY <1>0, <2>1
  <2> QED BY <2>2, <2>3, Zenon
<1>1. ASSUME NEW t \in Threads, NEW op \in Operations, NEW id \in Orders \cup {NoOrder},
             TakeSequence(t, op, id)
      PROVE  Indexed(ids)' = Indexed(ids)
  <2>1. /\ \A u \in Threads \ {t} : thread'[u] = thread[u]
        /\ thread'[t].record.seq = next /\ mode = "open" /\ file' = file
    BY <1>1, <1>t, TakeEffect
  <2>2. ~Waiting(t)
    BY <1>1 DEF TakeSequence, Waiting, Idle
  <2>3. \A i \in 1 .. Len(file) : IsEvent(file[i], ids) => file[i].seq # next
    BY <1>f, <1>t, <2>1 DEF NumberInv, Up
  <2>4. \A u \in Threads \ {t} : Waiting(u)' <=> Waiting(u)
    BY <2>1 DEF Waiting
  <2> QED BY <1>0, <2>1, <2>2, <2>3, <2>4
<1>2. ASSUME NEW t \in Threads, WriteSome(t) PROVE Indexed(ids)' = Indexed(ids)
  <2>1. PICK n, b \in Nat : Writes(t, n, b)
    BY <1>2, <1>t, WriteEffect
  <2>2. /\ \A u \in Threads \ {t} : thread'[u] = thread[u]
        /\ thread'[t].record = thread[t].record
        /\ n < 3 => thread'[t].pc = "write"
        /\ n = 3 => thread'[t].pc = IF thread[t].op = "commit_order" THEN "signal" ELSE "index"
        /\ n \in 1 .. 3 /\ thread[t].pc = "write"
    BY <1>2, <1>t, <2>1, WriteCaller
  <2>3. /\ \A i \in 1 .. Len(file') : file'[i] # NewLine =>
             i = b + 1 \/ (i \in 1 .. b /\ i \in 1 .. Len(file) /\ file'[i] = file[i])
        /\ \A i \in 1 .. b : i \in 1 .. Len(file) /\ file[i] # NewLine =>
             file[i].seq # thread[t].record.seq
    BY <1>2, <2>1, WriteTokens
  <2>4. Waiting(t) /\ (\A u \in Threads \ {t} : Waiting(u)' <=> Waiting(u))
    BY <2>2 DEF Waiting
  <2>5. /\ \A i \in 1 .. b : file'[i] = file[i] /\ i \in 1 .. Len(file')
        /\ file'[b + 1].seq = thread[t].record.seq
        /\ n > 1 => file'[b + 1] = thread[t].record
    BY <2>1 DEF Writes
  <2>6. ASSUME NEW s \in Indexed(ids) PROVE s \in Indexed(ids)'
    <3>1. PICK i \in 1 .. Len(file) : IsEvent(file[i], ids) /\ file[i].seq = s
      BY <2>6, IndexedMembers
    <3>2. \A u \in Threads : Waiting(u) => thread[u].record.seq # s
      BY <2>6, IndexedMembers
    <3>3. i \in 1 .. b
      <4>1. thread[t].done \in 0 .. 2
        BY <1>t, <2>2 DEF ThreadInv
      <4>2. CASE thread[t].done = 0
        BY <2>1, <4>2 DEF Writes
      <4>3. CASE thread[t].done # 0
        <5>1. MidWrite(t) /\ b + 1 = Len(file)
          BY <2>1, <2>2, <4>1, <4>3 DEF MidWrite, Writes
        <5>2. file[Len(file)].seq = thread[t].record.seq
          BY <1>t, <5>1 DEF WrittenInv
        <5>3. i # Len(file)
          BY <2>4, <3>1, <3>2, <5>2
        <5> QED BY <1>f, <5>1, <5>3
      <4> QED BY <4>2, <4>3
    <3>4. i \in 1 .. Len(file') /\ IsEvent(file'[i], ids) /\ file'[i].seq = s
      BY <2>5, <3>1, <3>3
    <3>5. \A u \in Threads : Waiting(u)' => thread'[u].record.seq # s
      BY <2>2, <2>4, <3>2
    <3> QED BY <3>4, <3>5, Zenon DEF Indexed, NumbersTo
  <2>7. ASSUME NEW s \in Indexed(ids)' PROVE s \in Indexed(ids)
    <3>1. PICK i \in 1 .. Len(file') : IsEvent(file'[i], ids) /\ file'[i].seq = s
      BY <2>7, Zenon DEF Indexed, NumbersTo
    <3>2. \A u \in Threads : Waiting(u)' => thread'[u].record.seq # s
      BY <2>7, Zenon DEF Indexed, NumbersTo
    <3>3. i # b + 1
      <4>1. SUFFICES ASSUME i = b + 1 PROVE FALSE
        OBVIOUS
      <4>2. s = thread'[t].record.seq /\ ~Waiting(t)'
        BY <2>2, <2>5, <3>1, <3>2, <4>1
      <4>3. n = 3 /\ thread[t].op = "commit_order"
        BY <2>2, <4>2 DEF Waiting
      <4>4. file'[b + 1] = thread[t].record /\ thread[t].record.type = "order"
        BY <2>5, <4>3 DEF CallInv
      <4> QED BY <3>1, <4>1, <4>4 DEF IsEvent
    <3>4. file'[i] # NewLine
      BY <3>1 DEF IsEvent, NewLine
    <3>5. i \in 1 .. b /\ i \in 1 .. Len(file) /\ file'[i] = file[i]
      BY <2>3, <3>3, <3>4
    <3>6. s # thread[t].record.seq
      BY <2>3, <3>1, <3>4, <3>5
    <3>7. \A u \in Threads : Waiting(u) => thread[u].record.seq # s
      BY <2>2, <2>4, <3>2, <3>6
    <3> QED BY <3>1, <3>5, <3>7, IndexedMembers
  <2> QED BY <2>6, <2>7
<1>3. ASSUME NEW t \in Threads, WriteFails(t) PROVE Indexed(ids)' = Indexed(ids)
  <2>1. /\ \A u \in Threads \ {t} : thread'[u] = thread[u]
        /\ thread'[t].pc = "idle" /\ file' = file
    BY <1>3, <1>t, CallEnds
  <2>2. thread[t].pc = "write" /\ ~(thread[t].done > 0)
    BY <1>3 DEF WriteFails
  <2>3. Pending(t)
    BY <1>t, <2>2 DEF ThreadInv, Pending
  <2>4. \A i \in 1 .. Len(file) : IsEvent(file[i], ids) => file[i].seq # thread[t].record.seq
    BY <1>f, <1>t, <2>3 DEF NumberInv
  <2>5. ~Waiting(t)' /\ \A u \in Threads \ {t} : Waiting(u)' <=> Waiting(u)
    BY <2>1 DEF Waiting
  <2> QED BY <1>0, <2>1, <2>4, <2>5
<1>4. ASSUME NEW t \in Threads, Signal(t) \/ Notify(t) PROVE Indexed(ids)' = Indexed(ids)
  <2>1. /\ \A u \in Threads \ {t} : thread'[u] = thread[u]
        /\ thread'[t].pc \in {"idle", "notify"} /\ thread[t].pc \in {"signal", "notify"} /\ file' = file
    BY <1>4, <1>t, CallEnds, CallerMoves
  <2>2. ~Waiting(t) /\ ~Waiting(t)' /\ \A u \in Threads \ {t} : Waiting(u)' <=> Waiting(u)
    BY <2>1 DEF Waiting
  <2> QED BY <1>0, <2>1, <2>2
<1>5. CASE OfWorker \/ CloseBegin \/ CloseEnd
  <2>1. UNCHANGED <<file, thread>>
    BY <1>5, WorkerLeavesFile DEF CloseBegin, CloseEnd
  <2> QED BY <2>1 DEF Indexed, Waiting
<1> QED BY <1>1, <1>2, <1>3, <1>4, <1>5

\* UpdateIndex makes one number indexed, for the events it belongs to.
LEMMA IndexedGrows ==
    ASSUME StoreInv, CallInv, NEW t \in Threads, UpdateIndex(t), NEW ids
    PROVE  /\ thread[t].record.seq \notin Indexed(ids)
           /\ Indexed(ids)' = IF IsEvent(thread[t].record, ids)
                              THEN Indexed(ids) \cup {thread[t].record.seq} ELSE Indexed(ids)
<1>t. Types /\ ThreadInv /\ WrittenInv /\ NumberInv
  BY DEF StoreInv
<1>1. /\ \A u \in Threads \ {t} : thread'[u] = thread[u]
      /\ thread'[t].pc = "signal" /\ thread[t].pc = "index" /\ file' = file
  BY <1>t, CallerMoves
<1>2. PICK r : r = thread[t].record /\ r \in Records
  BY <1>t, <1>1 DEF ThreadInv
<1>3. PICK e \in 1 .. Len(file) - 1 : file[e] = r
  BY <1>t, <1>1, <1>2 DEF WrittenInv
<1>4. e \in 1 .. Len(file) /\ r # NewLine
  BY <1>2, <1>3 DEF Records, NewLine
<1>5. \A i \in 1 .. Len(file) : IsEvent(file[i], ids) /\ file[i].seq = r.seq => IsEvent(r, ids)
  <2>1. SUFFICES ASSUME NEW i \in 1 .. Len(file), IsEvent(file[i], ids), file[i].seq = r.seq
                 PROVE  i = e
    BY <1>3
  <2>2. file[i] # NewLine
    BY <2>1 DEF IsEvent, NewLine
  <2> QED BY <1>t, <1>3, <1>4, <2>1, <2>2 DEF NumberInv, NumbersAreUnique
<1>6. /\ Waiting(t) /\ ~Waiting(t)'
      /\ \A u \in Threads \ {t} : Waiting(u)' <=> Waiting(u)
      /\ \A u \in Threads \ {t} : Waiting(u) => thread[u].record.seq # r.seq
  BY <1>1, <1>2 DEF Waiting, CallInv
<1>7. r.seq \notin Indexed(ids)
  BY <1>2, <1>6, IndexedMembers
<1>8. PICK E : /\ E = NumbersTo(file, ids, Len(file)) /\ E = NumbersTo(file', ids, Len(file'))
               /\ r.seq \in E <=> IsEvent(r, ids)
  <2>1. r.seq \in NumbersTo(file, ids, Len(file)) <=> IsEvent(r, ids)
    BY <1>3, <1>4, <1>5, Zenon DEF NumbersTo
  <2> QED BY <1>1, <2>1, Zenon
<1>9. /\ Indexed(ids)' = {s \in E : \A u \in Threads : Waiting(u)' => thread'[u].record.seq # s}
      /\ Indexed(ids) = {s \in E : \A u \in Threads : Waiting(u) => thread[u].record.seq # s}
  BY <1>8 DEF Indexed
<1>10. \A s : (\A u \in Threads : Waiting(u) => thread[u].record.seq # s)
                <=> s # r.seq /\ \A u \in Threads : Waiting(u)' => thread'[u].record.seq # s
  BY <1>1, <1>2, <1>6
<1>11. \A u \in Threads : Waiting(u)' => thread'[u].record.seq # r.seq
  BY <1>1, <1>6
<1>12. Indexed(ids)' = IF IsEvent(r, ids) THEN Indexed(ids) \cup {r.seq} ELSE Indexed(ids)
  <2>1. \A s : s \in Indexed(ids)' <=> s \in Indexed(ids) \/ (s = r.seq /\ IsEvent(r, ids))
    BY <1>8, <1>9, <1>10, <1>11, Zenon
  <2>2. CASE IsEvent(r, ids)
    BY <2>1, <2>2
  <2>3. CASE ~IsEvent(r, ids)
    BY <2>1, <2>3
  <2> QED BY <2>2, <2>3
<1> QED BY <1>2, <1>7, <1>12

LEMMA NewestStep ==
    ASSUME StoreInv, StoreInv', CacheInv, [Next]_vars
    PROVE  NewestInv'
<1>0. SUFFICES ASSUME Up', ~torn'
               PROVE  /\ HoldsNewest(recent', Indexed(Orders \cup {NoOrder})')
                      /\ \A o \in Orders : HoldsNewest(recentOf'[o], Indexed({o})')
  BY DEF NewestInv
<1>t. Types /\ ThreadInv /\ CallInv /\ CacheTypes /\ NewestInv
  BY DEF StoreInv, CacheInv
\* The steps that change neither the caches nor what is indexed.
<1>1. ASSUME UNCHANGED <<recent, recentOf>>, Up, ~torn, \A ids : Indexed(ids)' = Indexed(ids)
      PROVE  /\ HoldsNewest(recent', Indexed(Orders \cup {NoOrder})')
             /\ \A o \in Orders : HoldsNewest(recentOf'[o], Indexed({o})')
  BY <1>t, <1>1 DEF NewestInv
<1>2. ASSUME \/ \E t \in Threads, op \in Operations, id \in Orders \cup {NoOrder} : TakeSequence(t, op, id)
             \/ \E t \in Threads : WriteSome(t) \/ WriteFails(t) \/ Signal(t) \/ Notify(t)
             \/ OfWorker \/ CloseBegin \/ CloseEnd
      PROVE  /\ HoldsNewest(recent', Indexed(Orders \cup {NoOrder})')
             /\ \A o \in Orders : HoldsNewest(recentOf'[o], Indexed({o})')
  <2>1. Up /\ ~torn
    <3>1. CASE OfWorker
      BY <1>0, <3>1, WorkerLeavesFile DEF Up
    <3>2. CASE CloseBegin \/ CloseEnd
      BY <1>0, <3>2 DEF Up, CloseBegin, CloseEnd, history
    <3>3. ASSUME NEW t \in Threads, WriteSome(t) \/ Signal(t) \/ Notify(t) PROVE Up /\ ~torn
      <4>1. mode' = mode /\ torn' = torn
        BY <3>3 DEF WriteSome, Signal, Notify, history
      <4> QED BY <1>0, <4>1 DEF Up
    <3>4. ASSUME NEW t \in Threads, WriteFails(t) PROVE Up /\ ~torn
      <4>1. mode' = mode /\ (torn => torn')
        BY <3>4 DEF WriteFails
      <4> QED BY <1>0, <4>1 DEF Up
    <3>5. ASSUME NEW t \in Threads, NEW op \in Operations, NEW id \in Orders \cup {NoOrder},
                 TakeSequence(t, op, id)
          PROVE  Up /\ ~torn
      <4>1. mode' = mode /\ torn' = torn
        BY <3>5 DEF TakeSequence, history
      <4> QED BY <1>0, <4>1 DEF Up
    <3> QED BY <1>2, <3>1, <3>2, <3>3, <3>4, <3>5
  <2>2. UNCHANGED <<recent, recentOf>>
    BY <1>2, CachesStay
  <2>3. \A ids : Indexed(ids)' = Indexed(ids)
    BY <1>0, <1>2, <1>t, IndexedStays
  <2> QED BY <1>1, <2>1, <2>2, <2>3
<1>3. ASSUME NEW t \in Threads, UpdateIndex(t)
      PROVE  /\ HoldsNewest(recent', Indexed(Orders \cup {NoOrder})')
             /\ \A o \in Orders : HoldsNewest(recentOf'[o], Indexed({o})')
  <2>1. Up /\ ~torn
    BY <1>0, <1>3, <1>t, CallerMoves DEF Up
  <2>2. PICK r : r = thread[t].record /\ r \in Records /\ r.whole
    BY <1>t, <1>3 DEF ThreadInv, UpdateIndex
  <2>3. \A ids : /\ r.seq \notin Indexed(ids)
                 /\ Indexed(ids)' = IF IsEvent(r, ids) THEN Indexed(ids) \cup {r.seq} ELSE Indexed(ids)
    BY <1>t, <1>3, <2>2, IndexedGrows
  <2>4. CASE r.type = "order"
    <3>1. UNCHANGED <<recent, recentOf>>
      BY <1>3, <2>2, <2>4 DEF UpdateIndex
    <3>2. \A ids : Indexed(ids)' = Indexed(ids)
      BY <2>3, <2>4 DEF IsEvent
    <3> QED BY <1>1, <2>1, <3>1, <3>2
  <2>5. CASE r.type # "order"
    <3>1. /\ recent' = Inserted(recent, r.seq)
          /\ recentOf' = [o \in Orders |-> IF o = r.id THEN Inserted(recentOf[o], r.seq)
                                           ELSE recentOf[o]]
      BY <1>3, <2>2, <2>5 DEF UpdateIndex
    <3>2. r.type = "event" /\ r.id \in Orders \cup {NoOrder} /\ r.seq \in Nat
      BY <2>2, <2>5 DEF Records
    <3>3. \A ids : Indexed(ids) \in SUBSET Nat
      <4>1. \A i \in 1 .. Len(file) : file[i] \in Tokens
        BY <1>t DEF Types
      <4>2. \A i \in 1 .. Len(file) : file[i].seq \in Nat
        BY <4>1 DEF Tokens, Records, NewLine
      <4> QED BY <4>2, IndexedMembers
    <3>4. HoldsNewest(recent', Indexed(Orders \cup {NoOrder})')
      <4>1. Indexed(Orders \cup {NoOrder})' = Indexed(Orders \cup {NoOrder}) \cup {r.seq}
        BY <2>2, <2>3, <3>2 DEF IsEvent
      <4>2. HoldsNewest(recent, Indexed(Orders \cup {NoOrder})) /\ recent \in Seq(Nat)
        BY <1>t, <2>1 DEF NewestInv, CacheTypes
      <4> QED BY <2>3, <3>1, <3>2, <3>3, <4>1, <4>2, InsertedNewest
    <3>5. ASSUME NEW o \in Orders PROVE HoldsNewest(recentOf'[o], Indexed({o})')
      <4>1. HoldsNewest(recentOf[o], Indexed({o})) /\ recentOf[o] \in Seq(Nat)
        BY <1>t, <2>1 DEF NewestInv, CacheTypes
      <4>2. CASE o = r.id
        <5>1. Indexed({o})' = Indexed({o}) \cup {r.seq}
          BY <2>2, <2>3, <3>2, <4>2 DEF IsEvent
        <5>2. recentOf'[o] = Inserted(recentOf[o], r.seq)
          BY <3>1, <4>2
        <5>3. PICK q, S : /\ q = recentOf[o] /\ S = Indexed({o}) /\ q \in Seq(Nat)
                          /\ S \in SUBSET Nat /\ r.seq \notin S /\ HoldsNewest(q, S)
          BY <2>3, <3>3, <4>1
        <5>4. HoldsNewest(Inserted(q, r.seq), S \cup {r.seq})
          BY <3>2, <5>3, InsertedNewest
        <5> QED BY <5>1, <5>2, <5>3, <5>4, Zenon
      <4>3. CASE o # r.id
        <5>1. Indexed({o})' = Indexed({o})
          BY <2>3, <4>3 DEF IsEvent
        <5>2. recentOf'[o] = recentOf[o]
          BY <3>1, <4>3
        <5> QED BY <4>1, <5>1, <5>2
      <4> QED BY <4>2, <4>3
    <3> QED BY <3>4, <3>5
  <2> QED BY <2>4, <2>5
<1>4. CASE Recover
  <2>1. \A u \in Threads : ~Waiting(u)'
    BY <1>4, NobodyCalls DEF OfProcess, Waiting
  <2>2. \A ids : Indexed(ids)' = NumbersTo(file', ids, Len(file'))
    BY <2>1 DEF Indexed
  <2>3. /\ recent' = RecentIn(file', Orders \cup {NoOrder})
        /\ recentOf' = [o \in Orders |-> RecentIn(file', {o})]
    BY <1>4 DEF Recover
  <2>4. \A ids : HoldsNewest(RecentIn(file', ids), NumbersTo(file', ids, Len(file')))
    BY <1>4, RecoverCollects
  <2> QED BY <2>2, <2>3, <2>4
<1>5. CASE ProcessDies \/ PowerLoss \/ RepairFails \/ RefuseToStart
  BY <1>0, <1>5 DEF Up, ProcessDies, PowerLoss, Die, RepairFails, RefuseToStart
<1> QED BY <1>2, <1>3, <1>4, <1>5, NextCases DEF OfProcess

\* With no call under way the indexed events are the valid ones of the journal.
LEMMA IdleIndexed ==
    ASSUME StoreInv, Up, ~torn, \A t \in Threads : thread[t] = Idle, NEW ids
    PROVE  Indexed(ids) = EventNumbers(ids)
<1>1. WellFormed(file) /\ Len(file) \in Nat
  BY DEF StoreInv, SurviveInv, Types
<1>2. \A u \in Threads : ~Waiting(u)
  BY DEF Waiting, Idle
<1>3. Indexed(ids) = NumbersTo(file, ids, Len(file))
  BY <1>2 DEF Indexed
<1>4. ASSUME NEW i \in 1 .. Len(file), IsEvent(file[i], ids)
      PROVE  i \in Starts(file) /\ Valid(file, i)
  <2>1. file[i] # NewLine
    BY <1>4 DEF IsEvent, NewLine
  <2>2. i = 1 \/ file[i - 1] = NewLine
    <3>1. SUFFICES ASSUME i # 1, file[i - 1] # NewLine PROVE FALSE
      OBVIOUS
    <3>2. i - 1 \in 1 .. Len(file) - 1 /\ (i - 1) + 1 = i
      BY <1>1, <3>1
    <3> QED BY <1>1, <2>1, <3>1, <3>2 DEF WellFormed
  <2>3. i = Len(file) \/ file[i + 1] = NewLine
    <3>1. SUFFICES ASSUME i # Len(file) PROVE file[i + 1] = NewLine
      OBVIOUS
    <3>2. i \in 1 .. Len(file) - 1
      BY <1>1, <3>1
    <3> QED BY <1>1, <2>1, <3>2 DEF WellFormed
  <2> QED BY <1>4, <2>1, <2>2, <2>3 DEF Starts, Valid, IsEvent
<1>5. ASSUME NEW i \in Starts(file), Valid(file, i), file[i].type = "event", file[i].id \in ids
      PROVE  i \in 1 .. Len(file) /\ IsEvent(file[i], ids)
  BY <1>5 DEF Starts, Valid, IsEvent
<1>6. ASSUME NEW s \in NumbersTo(file, ids, Len(file)) PROVE s \in EventNumbers(ids)
  <2>1. PICK i \in 1 .. Len(file) : IsEvent(file[i], ids) /\ file[i].seq = s
    BY DEF NumbersTo
  <2>2. file[i] \in ValidRecords(file)
    BY <1>4, <2>1, Zenon DEF ValidRecords
  <2>3. file[i].type = "event" /\ file[i].id \in ids
    BY <2>1 DEF IsEvent
  <2> QED BY <2>1, <2>2, <2>3, Zenon DEF EventNumbers
<1>7. ASSUME NEW s \in EventNumbers(ids) PROVE s \in NumbersTo(file, ids, Len(file))
  <2>1. PICK r \in ValidRecords(file) : r.type = "event" /\ r.id \in ids /\ r.seq = s
    BY Zenon DEF EventNumbers
  <2>2. PICK i \in Starts(file) : Valid(file, i) /\ r = file[i]
    BY <2>1, Zenon DEF ValidRecords
  <2>3. i \in 1 .. Len(file) /\ IsEvent(file[i], ids)
    BY <1>5, <2>1, <2>2
  <2> QED BY <2>1, <2>2, <2>3, Zenon DEF NumbersTo
<1> QED BY <1>3, <1>6, <1>7

\* The journal and what is kept of it in memory agree: types, unique numbers, the snapshot of an
\* order no older than its last acknowledged one, and with no call under way the caches of events
\* hold the newest ones of the journal, in whatever order they were indexed and wherever the
\* process died (append_order, append_event, insert_event_sorted, the constructor).
THEOREM IndexesDoAgree == Spec => []IndexesAgree
<1>1. Init => CacheInv
  BY InitCacheInv
<1>2. StoreInv /\ StoreInv' /\ CacheInv /\ [Next]_vars => CacheInv'
  <2>1. SUFFICES ASSUME StoreInv, StoreInv', CacheInv, [Next]_vars PROVE CacheInv'
    OBVIOUS
  <2>2. CallInv' /\ CacheTypes'
    BY <2>1, CallStep, CacheTypesStep DEF CacheInv
  <2>3. NewestInv'
    BY <2>1, NewestStep
  <2> QED BY <2>2, <2>3 DEF CacheInv
<1>3. StoreInv /\ CacheInv => IndexesAgree
  <2>1. SUFFICES ASSUME StoreInv, CacheInv PROVE IndexesAgree
    OBVIOUS
  <2>2. TypeOK
    <3>1. thread \in [Threads -> ThreadType] /\ worker \in [pc : WorkerSteps, target : Nat, upTo : Nat]
      BY <2>1 DEF StoreInv, Types
    <3>2. \A t \in Threads : /\ thread[t].pc \in {"idle", "write", "index", "signal", "notify"}
                             /\ thread[t].done \in 0 .. 3
      BY <3>1 DEF ThreadType
    <3>3. worker.pc \in WorkerSteps
      BY <3>1
    <3>4. recent \in Seq(Nat) /\ DOMAIN recentOf = Orders /\ \A o \in Orders : recentOf[o] \in Seq(Nat)
      BY <2>1 DEF CacheInv, CacheTypes
    <3>5. /\ file \in Seq(Records \cup {NewLine}) /\ durable \in 0 .. Len(file)
          /\ next \in Nat \ {0} /\ latest \in [Orders -> Nat]
          /\ generation \in Nat /\ synced \in Nat /\ stop \in BOOLEAN
          /\ mode \in {"open", "closing", "closed", "down", "refused"}
      BY <2>1 DEF StoreInv, Types, Tokens
    <3> QED BY <3>2, <3>3, <3>4, <3>5 DEF TypeOK
  <2>3. NumbersAreUnique /\ LatestIsAcked
    BY <2>1 DEF StoreInv, NumberInv, LatestInv, LatestIsAcked, Running, Up
  <2>4. CachesAgreeWithJournal
    <3>1. SUFFICES ASSUME Running, ~torn, \A t \in Threads : thread[t] = Idle
                   PROVE  /\ HoldsNewest(recent, EventNumbers(Orders \cup {NoOrder}))
                          /\ \A o \in Orders : HoldsNewest(recentOf[o], EventNumbers({o}))
      BY DEF CachesAgreeWithJournal
    <3>2. Up
      BY <3>1 DEF Running, Up
    <3>3. \A ids : Indexed(ids) = EventNumbers(ids)
      BY <2>1, <3>1, <3>2, IdleIndexed
    <3> QED BY <2>1, <3>1, <3>2, <3>3 DEF CacheInv, NewestInv
  <2> QED BY <2>2, <2>3, <2>4 DEF IndexesAgree
<1> QED BY <1>1, <1>2, <1>3, StoreInvariant, PTL DEF Spec
===============================================================================
