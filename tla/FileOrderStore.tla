---------------------------- MODULE FileOrderStore ----------------------------
(***************************************************************************)
(* The append-only order journal with its background fdatasync worker and  *)
(* its recovery at start-up (include/abex/infrastructure/                  *)
(* file_order_store_impl.hpp, src/infrastructure/file_order_store.cpp).    *)
(*                                                                         *)
(* The file is a sequence of tokens: a record, whole or cut short, or the  *)
(* newline that ends a line.  Payloads are left out: a record is its type, *)
(* the order it belongs to and its sequence number, which is unique.  The  *)
(* checksum and the JSON parser are modelled by what they decide: a line   *)
(* is valid when it holds one whole record and nothing else.               *)
(*                                                                         *)
(* The process can die between any two steps; the page cache survives.     *)
(* When power is lost, any part of the file after the last completed       *)
(* fdatasync may be gone, in the middle of a record too.                   *)
(***************************************************************************)
EXTENDS Integers, Sequences, FiniteSets, FiniteSetsExt, SequencesExt

CONSTANTS Threads,      \* the callers of the store
          Orders,       \* client order identifiers
          NoOrder,      \* an event without client_order_id
          MaxRecent,    \* k_max_cached_events and k_max_cached_order_events
          Faults,       \* subset of {"write", "sync"}: the system calls that may fail
          Found,        \* the journals an earlier process may have left
          MaxRecords,   \* bound on the sequence numbers taken
          MaxCrashes    \* bound on process deaths and power losses

\* What the file is made of.
NewLine == [type |-> "newline", id |-> NoOrder, seq |-> 0, whole |-> TRUE]
Records == [type : {"order", "event"}, id : Orders \cup {NoOrder}, seq : Nat \ {0},
            whole : BOOLEAN]

ASSUME StoreAssumption ==
    /\ NoOrder \notin Orders
    /\ MaxRecent \in Nat \ {0}
    /\ Faults \subseteq {"write", "sync"}
    \* A record of an order names the order; no two records that a process has written have the
    \* same number.
    /\ \A f \in Found :
        /\ f \in Seq(Records \cup {NewLine})
        /\ \A i \in 1 .. Len(f) : f[i].type = "order" => f[i].id \in Orders
        /\ \A i, j \in 1 .. Len(f) : i # j /\ f[i] # NewLine /\ f[j] # NewLine => f[i].seq # f[j].seq

VARIABLES
    file,        \* what the file holds, page cache included
    durable,     \* how many tokens of it are on stable storage for certain
    next,        \* next_sequence_
    latest,      \* latest_orders_: the sequence number of the indexed snapshot, or 0
    recent,      \* recent_events_, by sequence number
    recentOf,    \* recent_order_events_
    generation,  \* sync_generation_
    synced,      \* synced_generation_
    stop,        \* sync_stop_
    thread,      \* per caller: where it is, its operation and its record
    worker,      \* the sync worker: where it is, its target and what it flushes
    mode,        \* "open", "closing", "closed", "down" (process dead), "refused"
    crashes,     \* how often the process died or power was lost
    acked,       \* history: records whose append returned, with its generation and its operation
    torn,        \* history: a write() failed half-way through a record
    syncFailed   \* history: fdatasync failed; what it left out may stay out

sync == <<generation, synced, stop, worker>>
index == <<latest, recent, recentOf>>
history == <<acked, torn, syncFailed>>
vars == <<file, durable, next, latest, recent, recentOf, generation, synced, stop,
          thread, worker, mode, crashes, acked, torn, syncFailed>>

Operations == {"append_order", "commit_order", "append_event"}
NoRecord == [NewLine EXCEPT !.type = "none"]
Idle == [pc |-> "idle", op |-> "none", record |-> NoRecord, done |-> 0, gen |-> 0]
WorkerSteps == {"check", "enter", "sleeping", "load", "flush", "flushed", "final",
                "finalFlushed", "ended"}
Resting == [pc |-> "ended", target |-> 0, upTo |-> 0]

\* The types of the state; a caller never has more than a line of its record in the file.
TypeOK ==
    /\ file \in Seq(Records \cup {NewLine})
    /\ durable \in 0 .. Len(file)
    /\ next \in Nat \ {0}
    /\ latest \in [Orders -> Nat]
    /\ recent \in Seq(Nat) /\ DOMAIN recentOf = Orders /\ \A o \in Orders : recentOf[o] \in Seq(Nat)
    /\ generation \in Nat /\ synced \in Nat /\ stop \in BOOLEAN
    /\ \A t \in Threads :
        /\ thread[t].pc \in {"idle", "write", "index", "signal", "notify"}
        /\ thread[t].done \in 0 .. 3
    /\ worker.pc \in WorkerSteps
    /\ mode \in {"open", "closing", "closed", "down", "refused"}

(***************************************************************************)
(* Lines, and what start-up makes of them                                  *)
(***************************************************************************)
\* The first token of every line that is not empty.
Starts(f) == {i \in 1 .. Len(f) : f[i] # NewLine /\ (i = 1 \/ f[i - 1] = NewLine)}
\* The line that starts at i parses and its checksum is right.
Valid(f, i) == f[i].whole /\ (i = Len(f) \/ f[i + 1] = NewLine)

\* read_valid_records: only the last line may be invalid; it is cut off.
InvalidRecord(f) == \E i \in Starts(f) : i # Max(Starts(f)) /\ ~Valid(f, i)
TornTail(f) == Starts(f) # {} /\ ~Valid(f, Max(Starts(f)))
Repaired_NoNewline(f) ==
    IF TornTail(f) THEN SubSeq(f, 1, Max(Starts(f)) - 1) ELSE f
Repaired(f) ==
    IF TornTail(f) THEN SubSeq(f, 1, Max(Starts(f)) - 1)
    ELSE IF f # <<>> /\ Last(f) # NewLine THEN Append(f, NewLine)
    ELSE f
ValidRecords(f) == {f[i] : i \in {j \in Starts(f) : Valid(f, j)}}

\* The repair itself is followed by fdatasync.
DurableAfterRepair == IF Repaired(file) # file THEN Len(Repaired(file)) ELSE durable

\* next_sequence_.store(max_seq + 1)
NextAfter(f) == Max({r.seq : r \in ValidRecords(f)} \cup {0}) + 1

\* latest_orders_ as the constructor builds it
LatestIn(f, o) ==
    Max({r.seq : r \in {s \in ValidRecords(f) : s.type = "order" /\ s.id = o}} \cup {0})

\* std::upper_bound: how many entries come before the first one that is greater than s.
UpperBound(q, s) ==
    CHOOSE k \in 0 .. Len(q) : /\ \A i \in 1 .. k : q[i] <= s
                               /\ \A i \in k + 1 .. Len(q) : q[i] > s
\* insert_event_sorted
Inserted(q, s) ==
    LET k == UpperBound(q, s)
        all == SubSeq(q, 1, k) \o <<s>> \o SubSeq(q, k + 1, Len(q))
    IN  IF Len(all) > MaxRecent THEN SubSeq(all, Len(all) - MaxRecent + 1, Len(all)) ELSE all
\* recent_events_ (ids = all) and recent_order_events_ as the constructor builds them, from the
\* first i tokens.
Collected(f, ids) ==
    LET cache[i \in 0 .. Len(f)] ==
            IF i = 0 THEN <<>>
            ELSE IF f[i].type = "event" /\ f[i].id \in ids /\ f[i].whole
                 THEN Inserted(cache[i - 1], f[i].seq)
                 ELSE cache[i - 1]
    IN  cache
RecentIn(f, ids) == Collected(f, ids)[Len(f)]

(***************************************************************************)
(* The constructor                                                         *)
(***************************************************************************)
Fresh ==
    /\ generation' = 0 /\ synced' = 0 /\ stop' = FALSE
    /\ worker' = [Resting EXCEPT !.pc = "check"]

\* The file is opened, read, repaired and indexed, then the worker starts.
Recover ==
    /\ mode = "down" /\ ~InvalidRecord(file)
    /\ mode' = "open"
    /\ file' = Repaired(file)
    /\ durable' = DurableAfterRepair
    /\ next' = NextAfter(file)
    /\ latest' = [o \in Orders |-> LatestIn(file, o)]
    /\ recent' = RecentIn(file', Orders \cup {NoOrder})
    /\ recentOf' = [o \in Orders |-> RecentIn(file', {o})]
    /\ Fresh
    \* generation 0: acknowledged by an earlier process
    /\ acked' = {[a EXCEPT !.gen = 0] : a \in acked}
    /\ UNCHANGED <<thread, crashes, torn, syncFailed>>

\* The repair is made and its fdatasync fails: the constructor throws, and the process is down until
\* it is started again.  (A repair that fails itself changes nothing: the process stays down.)
RepairFails ==
    /\ mode = "down" /\ ~InvalidRecord(file) /\ Repaired(file) # file
    /\ "sync" \in Faults
    /\ file' = Repaired(file)
    /\ durable' = IF durable <= Len(file') THEN durable ELSE Len(file')
    /\ syncFailed' = TRUE
    /\ UNCHANGED <<next, index, sync, thread, mode, crashes, acked, torn>>

\* "invalid order journal record": the process does not start.
RefuseToStart ==
    /\ mode = "down" /\ InvalidRecord(file)
    /\ mode' = "refused"
    /\ UNCHANGED <<file, durable, next, index, sync, thread, crashes, history>>

(***************************************************************************)
(* append_order, reserve_sequence and commit_order, append_event           *)
(***************************************************************************)
\* next_seq(); the two-phase caller keeps the number from reserve_sequence to commit_order.
TakeSequence(t, op, id) ==
    /\ mode = "open" /\ thread[t] = Idle
    /\ next <= MaxRecords
    /\ id = NoOrder => op = "append_event"
    /\ next' = next + 1
    /\ thread' = [thread EXCEPT ![t] =
         [pc |-> "write", op |-> op, done |-> 0, gen |-> 0,
          record |-> [type |-> IF op = "append_event" THEN "event" ELSE "order",
                      id |-> id, seq |-> next, whole |-> TRUE]]]
    /\ UNCHANGED <<file, durable, index, sync, mode, crashes, history>>

\* A record of which only a part is in the file.
Cut(r) == [r EXCEPT !.whole = FALSE]
\* The first n pieces of a line: a part of the record, all of it, its newline.
Pieces(r, n) ==
    CASE n = 0 -> <<>>
      [] n = 1 -> <<Cut(r)>>
      [] n = 2 -> <<r>>
      [] OTHER -> <<r, NewLine>>

\* write_mutex_ is held from the first write() of a record to the last.
WriteMutexFree(t) == \A u \in Threads \ {t} : thread[u].pc # "write" \/ thread[u].done = 0

\* One write() of write_all: it may take less than it is given.
WriteSome(t) ==
    /\ thread[t].pc = "write" /\ WriteMutexFree(t)
    /\ \E n \in thread[t].done + 1 .. 3 :
        /\ file' = SubSeq(file, 1, Len(file) - Len(Pieces(thread[t].record, thread[t].done)))
                   \o Pieces(thread[t].record, n)
        /\ thread' = [thread EXCEPT ![t].done = n,
             ![t].pc = IF n < 3 THEN "write"
                       ELSE IF thread[t].op = "commit_order" THEN "signal" ELSE "index"]
    /\ UNCHANGED <<durable, next, index, sync, mode, crashes, history>>

\* write() fails: the exception leaves what was written of the line, and nothing is signalled.
WriteFails(t) ==
    /\ "write" \in Faults
    /\ thread[t].pc = "write" /\ WriteMutexFree(t)
    /\ thread' = [thread EXCEPT ![t] = Idle]
    /\ torn' = (torn \/ thread[t].done > 0)
    /\ UNCHANGED <<file, durable, next, index, sync, mode, crashes, acked, syncFailed>>

\* Mutant: the snapshot indexed last is taken for the latest.
Superseded_Never(s, current) == FALSE
Superseded(s, current) == s < current

\* Under index_mutex_, after the write: records may be indexed out of order.
UpdateIndex(t) ==
    /\ thread[t].pc = "index"
    /\ LET r == thread[t].record IN
        IF r.type = "order"
        THEN /\ latest' = [latest EXCEPT ![r.id] = IF Superseded(r.seq, @) THEN @ ELSE r.seq]
             /\ UNCHANGED <<recent, recentOf>>
        ELSE /\ recent' = Inserted(recent, r.seq)
             /\ recentOf' = [o \in Orders |-> IF o = r.id THEN Inserted(recentOf[o], r.seq)
                                              ELSE recentOf[o]]
             /\ UNCHANGED latest
    /\ thread' = [thread EXCEPT ![t].pc = "signal"]
    /\ UNCHANGED <<file, durable, next, sync, mode, crashes, history>>

\* signal_sync: sync_generation_.fetch_add, without sync_mutex_.
Signal(t) ==
    /\ thread[t].pc = "signal"
    /\ generation' = generation + 1
    /\ thread' = [thread EXCEPT ![t].pc = "notify", ![t].gen = generation + 1]
    /\ UNCHANGED <<file, durable, next, index, synced, stop, worker, mode, crashes, history>>

Woken == IF worker.pc = "sleeping" THEN [worker EXCEPT !.pc = "check"] ELSE worker

\* signal_sync: sync_cv_.notify_one, and the call returns.
Notify(t) ==
    /\ thread[t].pc = "notify"
    /\ worker' = Woken
    /\ acked' = acked \cup {[seq |-> thread[t].record.seq, gen |-> thread[t].gen,
                            op |-> thread[t].op, id |-> thread[t].record.id]}
    /\ thread' = [thread EXCEPT ![t] = Idle]
    /\ UNCHANGED <<file, durable, next, index, generation, synced, stop, mode, crashes,
                   torn, syncFailed>>

(***************************************************************************)
(* run_sync_worker                                                         *)
(***************************************************************************)
Running == mode \in {"open", "closing"}
OnlyWorker == UNCHANGED <<file, next, index, thread, mode, crashes, acked, torn>>

\* Where the predicate of sync_cv_.wait leads; after sync_stop_ what is unsynced is synced.
AfterCheck ==
    IF stop THEN (IF generation # synced THEN "final" ELSE "ended")
    ELSE IF generation # synced THEN "load" ELSE "enter"

\* The predicate, under sync_mutex_.
WorkerCheck ==
    /\ Running /\ worker.pc = "check"
    /\ worker' = [worker EXCEPT !.pc = AfterCheck]
    /\ UNCHANGED <<durable, generation, synced, stop, syncFailed>> /\ OnlyWorker
\* Releasing sync_mutex_ and going to sleep is one step, but not one with the predicate.
WorkerSleep ==
    /\ Running /\ worker.pc = "enter"
    /\ worker' = [worker EXCEPT !.pc = "sleeping"]
    /\ UNCHANGED <<durable, generation, synced, stop, syncFailed>> /\ OnlyWorker
WorkerLoad ==
    /\ Running /\ worker.pc = "load"
    /\ worker' = [worker EXCEPT !.pc = "flush", !.target = generation]
    /\ UNCHANGED <<durable, generation, synced, stop, syncFailed>> /\ OnlyWorker
\* fdatasync is called: it covers at least what the file holds now ...
FlushBegin ==
    /\ Running /\ worker.pc \in {"flush", "final"}
    /\ worker' = [worker EXCEPT !.pc = IF @ = "flush" THEN "flushed" ELSE "finalFlushed",
                                !.upTo = Len(file)]
    /\ UNCHANGED <<durable, generation, synced, stop, syncFailed>> /\ OnlyWorker
SyncedTo_Reloaded == generation
SyncedTo == worker.target

\* ... and returns; its result is not looked at.
FlushEnd ==
    /\ Running /\ worker.pc \in {"flushed", "finalFlushed"}
    /\ \/ durable' = Max({durable, worker.upTo}) /\ UNCHANGED syncFailed
       \/ "sync" \in Faults /\ syncFailed' = TRUE /\ UNCHANGED durable
    /\ IF worker.pc = "flushed"
       THEN synced' = SyncedTo /\ worker' = [Resting EXCEPT !.pc = "check"]
       ELSE worker' = Resting /\ UNCHANGED synced
    /\ UNCHANGED <<generation, stop>> /\ OnlyWorker
SpuriousWakeup ==
    /\ Running /\ worker.pc = "sleeping"
    /\ worker' = Woken
    /\ UNCHANGED <<durable, generation, synced, stop, syncFailed>> /\ OnlyWorker

(***************************************************************************)
(* The destructor                                                          *)
(***************************************************************************)
\* The worker holds sync_mutex_ from its predicate to its sleep.
SyncMutexFree_Ignored == TRUE
SyncMutexFree == worker.pc \notin {"enter", "load"}

\* sync_stop_ under sync_mutex_; no caller is left when the store is destroyed.
CloseBegin ==
    /\ mode = "open" /\ \A t \in Threads : thread[t] = Idle
    /\ SyncMutexFree
    /\ mode' = "closing"
    /\ stop' = TRUE /\ worker' = Woken
    /\ UNCHANGED <<file, durable, next, index, generation, synced, thread, crashes, history>>
\* join and close
CloseEnd ==
    /\ mode = "closing" /\ worker.pc = "ended"
    /\ mode' = "closed"
    /\ UNCHANGED <<file, durable, next, index, sync, thread, crashes, history>>

(***************************************************************************)
(* Failures of the process and of the machine                              *)
(***************************************************************************)
Die ==
    /\ Running \/ mode = "closed"
    /\ crashes < MaxCrashes /\ crashes' = crashes + 1
    /\ mode' = "down"
    /\ thread' = [t \in Threads |-> Idle]
    /\ worker' = Resting
    /\ generation' = 0 /\ synced' = 0 /\ stop' = FALSE
    /\ next' = 1
    /\ latest' = [o \in Orders |-> 0] /\ recent' = <<>> /\ recentOf' = [o \in Orders |-> <<>>]

ProcessDies == Die /\ UNCHANGED <<file, durable, history>>

\* The place of an acknowledged record with its newline in the file.
Position(a) == CHOOSE i \in 1 .. Len(file) : file[i].seq = a.seq /\ file[i].whole

\* The last record that is kept may be cut short, the one at the end of what is durable too: the
\* fdatasync may have found a part of it.
PowerLoss ==
    /\ Die
    /\ \E k \in durable .. Len(file), cut \in BOOLEAN :
        /\ file' = [i \in 1 .. k |-> IF cut /\ i = k /\ file[k] # NewLine
                                     THEN Cut(file[k]) ELSE file[i]]
        /\ durable' = k
    /\ acked' = {a \in acked : \E i \in 1 .. durable - 1 : file[i].seq = a.seq}
    /\ UNCHANGED <<torn, syncFailed>>

\* A journal is found, on stable storage, before the store is constructed.
Init ==
    /\ file \in Found /\ durable = Len(file) /\ next = 1
    /\ latest = [o \in Orders |-> 0] /\ recent = <<>> /\ recentOf = [o \in Orders |-> <<>>]
    /\ generation = 0 /\ synced = 0 /\ stop = FALSE
    /\ thread = [t \in Threads |-> Idle]
    /\ worker = Resting
    /\ mode = "down" /\ crashes = 0
    /\ acked = {[seq |-> r.seq, gen |-> 0, id |-> r.id,
                 op |-> IF r.type = "order" THEN "append_order" ELSE "append_event"] :
                    r \in ValidRecords(file)}
    /\ torn = InvalidRecord(file) /\ syncFailed = FALSE

WorkerStep == WorkerCheck \/ WorkerSleep \/ WorkerLoad \/ FlushBegin \/ FlushEnd
CallerStep(t) == WriteSome(t) \/ UpdateIndex(t) \/ Signal(t) \/ Notify(t)
Next ==
    \/ \E t \in Threads, op \in Operations, id \in Orders \cup {NoOrder} :
           TakeSequence(t, op, id)
    \/ \E t \in Threads : CallerStep(t) \/ WriteFails(t)
    \/ WorkerStep \/ SpuriousWakeup
    \/ CloseBegin \/ CloseEnd
    \/ ProcessDies \/ PowerLoss \/ Recover \/ RepairFails \/ RefuseToStart

Spec == Init /\ [][Next]_vars
\* The operating system runs the worker, the callers and the destructor that waits for the worker.
FairSpec ==
    /\ Spec
    /\ WF_vars(WorkerStep) /\ WF_vars(CloseEnd)
    /\ \A t \in Threads : WF_vars(CallerStep(t))

(***************************************************************************)
(* Properties                                                              *)
(***************************************************************************)
Kept(a) == \E r \in ValidRecords(file) : r.seq = a.seq

\* Whenever the process dies, start-up accepts the journal and finds the record of every append
\* that returned, unless a write has failed half-way (write_all,
\* read_valid_records).  Loss of power takes only what no completed fdatasync covered.
AckedSurvives == ~torn => /\ ~InvalidRecord(file)
                          /\ \A a \in acked : Kept(a)

\* A generation the worker has stored as synced covers every append that returned up to it:
\* the target is read before fdatasync starts (run_sync_worker).
SyncedMeansDurable ==
    \A a \in acked : 0 < a.gen /\ a.gen <= synced /\ ~syncFailed => Position(a) < durable

\* When the destructor has returned, everything appended by this process is on stable storage.
CloseMeansDurable ==
    mode = "closed" /\ ~syncFailed => \A a \in acked : 0 < a.gen => Position(a) < durable

\* No two records of the journal have the same number, so "the latest" is defined, across
\* restarts and torn tails too (next_seq, next_sequence_.store(max_seq + 1)).
NumbersAreUnique ==
    \A i, j \in 1 .. Len(file) :
        i # j /\ file[i] # NewLine /\ file[j] # NewLine => file[i].seq # file[j].seq

\* q holds the newest numbers of S in order: what it leaves out is older, and it leaves out
\* nothing unless it is full.
HoldsNewest(q, S) ==
    /\ \A i, j \in 1 .. Len(q) : i < j => q[i] < q[j]
    /\ \A i \in 1 .. Len(q) : q[i] \in S
    /\ Len(q) <= MaxRecent
    /\ \A s \in S : \/ \E i \in 1 .. Len(q) : q[i] = s
                    \/ Len(q) = MaxRecent /\ \A i \in 1 .. Len(q) : s < q[i]
EventNumbers(ids) == {r.seq : r \in {s \in ValidRecords(file) : s.type = "event" /\ s.id \in ids}}

\* With no call under way the caches of events hold the newest ones of the journal in order,
\* whatever order they were indexed in, and a restart would build the same (append_event,
\* insert_event_sorted, the constructor).
CachesAgreeWithJournal ==
    Running /\ ~torn /\ (\A t \in Threads : thread[t] = Idle) =>
        /\ HoldsNewest(recent, EventNumbers(Orders \cup {NoOrder}))
        /\ \A o \in Orders : HoldsNewest(recentOf[o], EventNumbers({o}))

\* The indexed snapshot of an order is never older than one whose append_order has returned,
\* although two threads may index their records in the other order (latest_orders_).
LatestIsAcked ==
    Running /\ ~torn => \A a \in acked : a.op = "append_order" => latest[a.id] >= a.seq

\* The file and what is kept of it in memory agree: numbers, caches of events, latest orders.
IndexesAgree == TypeOK /\ NumbersAreUnique /\ CachesAgreeWithJournal /\ LatestIsAcked

\* Durability as far as the store can promise it: up to the generation it calls synced, and for
\* everything once the destructor has returned, until an fdatasync has failed.
DurableAsPromised == SyncedMeansDurable /\ CloseMeansDurable

\* The destructor returns: the worker is woken and ends.
CloseTerminates == (mode = "closing") ~> (mode # "closing")

===============================================================================
