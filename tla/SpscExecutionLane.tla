-------------------------- MODULE SpscExecutionLane --------------------------
(***************************************************************************)
(* The bounded queue between a venue's event callback and the gateway      *)
(* (include/abex/application/spsc_execution_lane.hpp).  One step is one    *)
(* access to shared memory: the ring slots, head_, tail_, pending_, the    *)
(* two counting semaphores and the producer flag.  The accesses are        *)
(* acquire/release or stronger wherever another thread reads them, so      *)
(* they are interleaved as sequentially consistent steps.                  *)
(*                                                                         *)
(* A report is the number of the submit call that brings it.  head_ and    *)
(* tail_ are 64-bit and never wrap in the lifetime of a process, so they   *)
(* are unbounded here.                                                     *)
(***************************************************************************)
EXTENDS Integers, Sequences, FiniteSets, SequencesExt

CONSTANTS Producers,     \* threads that act for the one logical producer
          Flushers,      \* threads that call flush()
          Capacity,      \* capacity_, event_queue_capacity
          Empty,         \* std::nullopt
          MaxSubmits     \* bound on the calls of submit

ASSUME LaneAssumption ==
    /\ Capacity \in Nat \ {0}
    /\ MaxSubmits \in Nat
    /\ Empty \notin Nat

VARIABLES
    slot,       \* queue_
    head,       \* head_
    tail,       \* tail_
    pending,    \* pending_
    slots,      \* available_slots_
    items,      \* available_items_
    active,     \* producer_active_
    calls,      \* submit calls so far; a report is named by its call
    producer,   \* where each producer thread is, and its report
    consumer,   \* where the worker is, and the report it holds
    flusher,    \* where each flush() is, and the pending_ it loaded
    owner,      \* the destructor: "alive", "stopping", "joining", "joined"
    published,  \* history: the reports whose tail_ store is done, in order
    returned,   \* history: the reports whose submit returned true
    handled     \* history: the reports given to handler_, in order

ring == <<slot, head, tail>>
history == <<published, returned, handled>>
vars == <<slot, head, tail, pending, slots, items, active, calls,
          producer, consumer, flusher, owner, published, returned, handled>>

Reports == 1 .. MaxSubmits
Index(n) == n % Capacity

ProducerSteps == {"idle", "waitSlot", "emplace", "count", "publish", "release", "leave"}
ConsumerSteps == {"acquire", "check", "pop", "advance", "free", "handle",
                  "settle", "notify", "exit"}
FlushSteps == {"idle", "load", "wait", "blocked", "done"}

\* The types of the state; the counts of both semaphores, and pending_, never go below 0.
TypeOK ==
    /\ slot \in [0 .. Capacity - 1 -> Reports \cup {Empty}]
    /\ head \in Nat
    /\ tail \in Nat
    /\ pending \in Nat
    /\ slots \in Nat
    /\ items \in Nat
    /\ active \in BOOLEAN
    /\ calls \in 0 .. MaxSubmits
    /\ producer \in [Producers -> [pc : ProducerSteps, report : Reports \cup {Empty}]]
    /\ consumer \in [pc : ConsumerSteps, report : Reports \cup {Empty}]
    /\ flusher \in [Flushers -> [pc : FlushSteps, loaded : Nat, mark : SUBSET Reports]]
    /\ owner \in {"alive", "stopping", "joining", "joined"}
    /\ published \in Seq(Reports)
    /\ returned \subseteq Reports
    /\ handled \in Seq(Reports)

Init ==
    /\ slot = [i \in 0 .. Capacity - 1 |-> Empty]
    /\ head = 0
    /\ tail = 0
    /\ pending = 0
    /\ slots = Capacity
    /\ items = 0
    /\ active = FALSE
    /\ calls = 0
    /\ producer = [p \in Producers |-> [pc |-> "idle", report |-> Empty]]
    /\ consumer = [pc |-> "acquire", report |-> Empty]
    /\ flusher = [f \in Flushers |-> [pc |-> "idle", loaded |-> 0, mark |-> {}]]
    /\ owner = "alive"
    /\ published = <<>>
    /\ returned = {}
    /\ handled = <<>>
-----------------------------------------------------------------------------
(* submit() and push(), run by a producer thread *)

ProducerAt(p, pc) == producer[p].pc = pc
ProducerGoto(p, pc) == producer' = [producer EXCEPT ![p].pc = pc]

\* test_and_set finds the flag clear: this call owns the tail.
SubmitEnter(p) ==
    /\ owner = "alive"
    /\ ProducerAt(p, "idle")
    /\ calls < MaxSubmits
    /\ ~active
    /\ active' = TRUE
    /\ calls' = calls + 1
    /\ producer' = [producer EXCEPT ![p] = [pc |-> "waitSlot", report |-> calls + 1]]
    /\ UNCHANGED <<ring, pending, slots, items, consumer, flusher, owner, history>>

\* test_and_set finds the flag set: producer_violations_, return false.
SubmitViolation(p) ==
    /\ owner = "alive"
    /\ ProducerAt(p, "idle")
    /\ calls < MaxSubmits
    /\ active
    /\ calls' = calls + 1
    /\ UNCHANGED <<ring, pending, slots, items, active, producer, consumer,
                   flusher, owner, history>>

\* Mutant: the producer does not wait for a free slot.
AcquireSlot_NoWait(p) ==
    /\ ProducerAt(p, "waitSlot")
    /\ ProducerGoto(p, "emplace")
    /\ UNCHANGED <<ring, pending, slots, items, active, calls, consumer, flusher, owner, history>>

AcquireSlot(p) ==
    /\ ProducerAt(p, "waitSlot")
    /\ slots > 0
    /\ slots' = slots - 1
    /\ ProducerGoto(p, "emplace")
    /\ UNCHANGED <<ring, pending, items, active, calls, consumer, flusher, owner, history>>

\* try_acquire or try_acquire_for gives up; the guard clears the flag.
SubmitTimeout(p) ==
    /\ ProducerAt(p, "waitSlot")
    /\ slots = 0
    /\ active' = FALSE
    /\ producer' = [producer EXCEPT ![p] = [pc |-> "idle", report |-> Empty]]
    /\ UNCHANGED <<ring, pending, slots, items, calls, consumer, flusher, owner, history>>

PushEmplace(p) ==
    /\ ProducerAt(p, "emplace")
    /\ slot' = [slot EXCEPT ![Index(tail)] = producer[p].report]
    /\ ProducerGoto(p, "count")
    /\ UNCHANGED <<head, tail, pending, slots, items, active, calls, consumer,
                   flusher, owner, history>>

PushCount(p) ==
    /\ ProducerAt(p, "count")
    /\ pending' = pending + 1
    /\ ProducerGoto(p, "publish")
    /\ UNCHANGED <<ring, slots, items, active, calls, consumer, flusher, owner, history>>

PushPublish(p) ==
    /\ ProducerAt(p, "publish")
    /\ tail' = tail + 1
    /\ published' = Append(published, producer[p].report)
    /\ ProducerGoto(p, "release")
    /\ UNCHANGED <<slot, head, pending, slots, items, active, calls, consumer,
                   flusher, owner, returned, handled>>

\* Mutant: the worker is woken only for the first pending report.
PushRelease_OnlyFirst(p) ==
    /\ ProducerAt(p, "release")
    /\ items' = IF pending = 1 THEN items + 1 ELSE items
    /\ ProducerGoto(p, "leave")
    /\ UNCHANGED <<ring, pending, slots, active, calls, consumer, flusher, owner, history>>

PushRelease(p) ==
    /\ ProducerAt(p, "release")
    /\ items' = items + 1
    /\ ProducerGoto(p, "leave")
    /\ UNCHANGED <<ring, pending, slots, active, calls, consumer, flusher, owner, history>>

\* The guard clears the flag and submit returns true.
SubmitLeave(p) ==
    /\ ProducerAt(p, "leave")
    /\ active' = FALSE
    /\ returned' = returned \cup {producer[p].report}
    /\ producer' = [producer EXCEPT ![p] = [pc |-> "idle", report |-> Empty]]
    /\ UNCHANGED <<ring, pending, slots, items, calls, consumer, flusher, owner,
                   published, handled>>

ProducerStep(p) ==
    \/ AcquireSlot(p) \/ SubmitTimeout(p)
    \/ PushEmplace(p) \/ PushCount(p) \/ PushPublish(p) \/ PushRelease(p)
    \/ SubmitLeave(p)
-----------------------------------------------------------------------------
(* run() and try_pop(), run by the worker *)

ConsumerAt(pc) == consumer.pc = pc
ConsumerGoto(pc) == consumer' = [consumer EXCEPT !.pc = pc]

AcquireItem ==
    /\ ConsumerAt("acquire")
    /\ items > 0
    /\ items' = items - 1
    /\ ConsumerGoto("check")
    /\ UNCHANGED <<ring, pending, slots, active, calls, producer, flusher, owner, history>>

\* The loop ends only when stop was requested and the ring is empty; its
\* last statement wakes whoever is blocked in flush().
CheckStop ==
    /\ ConsumerAt("check")
    /\ IF owner # "alive" /\ head = tail
       THEN /\ ConsumerGoto("exit")
            /\ flusher' = [f \in Flushers |->
                  IF flusher[f].pc = "blocked" THEN [flusher[f] EXCEPT !.pc = "wait"]
                  ELSE flusher[f]]
       ELSE ConsumerGoto("pop") /\ UNCHANGED flusher
    /\ UNCHANGED <<ring, pending, slots, items, active, calls, producer, owner, history>>

\* try_pop: an empty ring sends the worker back to the semaphore.
Pop ==
    /\ ConsumerAt("pop")
    /\ IF head = tail
       THEN ConsumerGoto("acquire") /\ UNCHANGED slot
       ELSE /\ consumer' = [pc |-> "advance", report |-> slot[Index(head)]]
            /\ slot' = [slot EXCEPT ![Index(head)] = Empty]
    /\ UNCHANGED <<head, tail, pending, slots, items, active, calls, producer,
                   flusher, owner, history>>

AdvanceHead ==
    /\ ConsumerAt("advance")
    /\ head' = head + 1
    /\ ConsumerGoto("free")
    /\ UNCHANGED <<slot, tail, pending, slots, items, active, calls, producer,
                   flusher, owner, history>>

FreeSlot ==
    /\ ConsumerAt("free")
    /\ slots' = slots + 1
    /\ ConsumerGoto("handle")
    /\ UNCHANGED <<ring, pending, items, active, calls, producer, flusher, owner, history>>

\* handler_(report); an exception is swallowed.
Handle ==
    /\ ConsumerAt("handle")
    /\ handled' = Append(handled, consumer.report)
    /\ ConsumerGoto("settle")
    /\ UNCHANGED <<ring, pending, slots, items, active, calls, producer, flusher,
                   owner, published, returned>>

\* Mutant: nobody is told that pending_ fell to zero.
Settle_NoNotify ==
    /\ ConsumerAt("settle")
    /\ pending' = pending - 1
    /\ consumer' = [pc |-> "acquire", report |-> Empty]
    /\ UNCHANGED <<ring, slots, items, active, calls, producer, flusher, owner, history>>

\* fetch_sub; only the step to zero is announced.
Settle ==
    /\ ConsumerAt("settle")
    /\ pending' = pending - 1
    /\ consumer' = [pc |-> IF pending = 1 THEN "notify" ELSE "acquire", report |-> Empty]
    /\ UNCHANGED <<ring, slots, items, active, calls, producer, flusher, owner, history>>

\* notify_all
Notify ==
    /\ ConsumerAt("notify")
    /\ flusher' = [f \in Flushers |->
          IF flusher[f].pc = "blocked" THEN [flusher[f] EXCEPT !.pc = "wait"]
          ELSE flusher[f]]
    /\ ConsumerGoto("acquire")
    /\ UNCHANGED <<ring, pending, slots, items, active, calls, producer, owner, history>>

ConsumerStep ==
    \/ AcquireItem \/ CheckStop \/ Pop \/ AdvanceHead \/ FreeSlot
    \/ Handle \/ Settle \/ Notify
-----------------------------------------------------------------------------
(* flush() *)

FlushBegin(f) ==
    /\ owner = "alive"
    /\ flusher[f].pc = "idle"
    /\ flusher' = [flusher EXCEPT ![f] = [pc |-> "load", loaded |-> 0, mark |-> returned]]
    /\ UNCHANGED <<ring, pending, slots, items, active, calls, producer, consumer,
                   owner, history>>

\* Mutant: flush looks at the ring instead of pending_.
FlushLoad_RingEmpty(f) ==
    /\ flusher[f].pc = "load"
    /\ flusher' = [flusher EXCEPT ![f].pc = IF head = tail THEN "done" ELSE "wait",
                                  ![f].loaded = pending]
    /\ UNCHANGED <<ring, pending, slots, items, active, calls, producer, consumer,
                   owner, history>>

FlushLoad(f) ==
    /\ flusher[f].pc = "load"
    /\ flusher' = [flusher EXCEPT ![f].pc = IF pending = 0 THEN "done" ELSE "wait",
                                  ![f].loaded = pending]
    /\ UNCHANGED <<ring, pending, slots, items, active, calls, producer, consumer,
                   owner, history>>

\* pending_.wait(loaded): compare and block is one step of the futex.
FlushWait(f) ==
    /\ flusher[f].pc = "wait"
    /\ flusher' = [flusher EXCEPT ![f].pc =
                     IF pending = flusher[f].loaded THEN "blocked" ELSE "load"]
    /\ UNCHANGED <<ring, pending, slots, items, active, calls, producer, consumer,
                   owner, history>>

FlushReturn(f) ==
    /\ flusher[f].pc = "done"
    /\ flusher' = [flusher EXCEPT ![f] = [pc |-> "idle", loaded |-> 0, mark |-> {}]]
    /\ UNCHANGED <<ring, pending, slots, items, active, calls, producer, consumer,
                   owner, history>>

FlushStep(f) == FlushLoad(f) \/ FlushWait(f) \/ FlushReturn(f)
-----------------------------------------------------------------------------
(***************************************************************************)
(* ~SpscExecutionLane.  The gateway destroys a lane only after the adapter *)
(* has stopped, so no submit and no flush is under way.                    *)
(***************************************************************************)
RequestStop ==
    /\ owner = "alive"
    /\ \A p \in Producers : ProducerAt(p, "idle")
    /\ \A f \in Flushers : flusher[f].pc = "idle"
    /\ owner' = "stopping"
    /\ UNCHANGED <<ring, pending, slots, items, active, calls, producer, consumer,
                   flusher, history>>

ReleaseSentinel ==
    /\ owner = "stopping"
    /\ items' = items + 1
    /\ owner' = "joining"
    /\ UNCHANGED <<ring, pending, slots, active, calls, producer, consumer, flusher, history>>

Join ==
    /\ owner = "joining"
    /\ ConsumerAt("exit")
    /\ owner' = "joined"
    /\ UNCHANGED <<ring, pending, slots, items, active, calls, producer, consumer,
                   flusher, history>>

Next ==
    \/ \E p \in Producers : SubmitEnter(p) \/ SubmitViolation(p) \/ ProducerStep(p)
    \/ ConsumerStep
    \/ \E f \in Flushers : FlushBegin(f) \/ FlushStep(f)
    \/ RequestStop \/ ReleaseSentinel \/ Join

(***************************************************************************)
(* A thread inside a call keeps running; nobody is obliged to call submit  *)
(* or flush, or to destroy the lane.                                       *)
(***************************************************************************)
Fairness ==
    /\ \A p \in Producers : WF_vars(ProducerStep(p))
    /\ WF_vars(ConsumerStep)
    /\ \A f \in Flushers : WF_vars(FlushStep(f))
    /\ WF_vars(ReleaseSentinel \/ Join)

Spec == Init /\ [][Next]_vars /\ Fairness
-----------------------------------------------------------------------------
(***************************************************************************)
(* Reports are handled in the order of publication, none lost, none        *)
(* repeated: what was handled, what the worker holds and what the ring     *)
(* holds are together what was published (push and try_pop).               *)
(***************************************************************************)
InHand == IF consumer.pc \in {"advance", "free", "handle"} THEN <<consumer.report>> ELSE <<>>

\* The indices of the ring whose report is published and not yet taken out.
Live == {n \in head .. tail - 1 : n > head \/ consumer.pc # "advance"}

Fifo ==
    /\ handled \o InHand = SubSeq(published, 1, Len(handled \o InHand))
    /\ Len(published) = Len(handled \o InHand) + Cardinality(Live)
    /\ \A n \in Live : slot[Index(n)] = published[n + 1]

(***************************************************************************)
(* The producer fills only a slot that the worker has emptied: semaphores  *)
(* alone keep the two off the same slot (push reads no head_).             *)
(***************************************************************************)
NoOverwrite ==
    \A p \in Producers : ProducerAt(p, "emplace") => slot[Index(tail)] = Empty

(***************************************************************************)
(* A worker that got past the semaphore finds a published report, so       *)
(* `report = std::move( *slot)` never reads an absent one, and the branch  *)
(* that returns to the semaphore is never needed.                          *)
(***************************************************************************)
WokenMeansReport ==
    ConsumerAt("pop") => head # tail /\ slot[Index(head)] # Empty

(***************************************************************************)
(* The producer flag admits one thread to the tail at a time.              *)
(***************************************************************************)
SingleProducer ==
    \A p, q \in Producers :
        ~ProducerAt(p, "idle") /\ ~ProducerAt(q, "idle") => p = q

(***************************************************************************)
(* When flush returns, every report whose submit had returned when flush   *)
(* was called has been handled: pending_ rises before the report is        *)
(* visible and falls after the handler.                                    *)
(***************************************************************************)
FlushMeansHandled ==
    \A f \in Flushers :
        flusher[f].pc = "done" => \A r \in flusher[f].mark : r \in ToSet(handled)

(***************************************************************************)
(* "the worker drains first": when the destructor returns, every published *)
(* report has been handled.                                                *)
(***************************************************************************)
StopDrains == owner = "joined" => handled = published

(***************************************************************************)
(* The lane implements a bounded queue: the reports published and not yet  *)
(* handled leave it in the order in which they came, one at a time, none   *)
(* twice, never more than the ring and the worker's hand can hold, and     *)
(* each is handled in the end: the worker is never left asleep with work   *)
(* in the ring ("without the lost-wakeup window").                         *)
(***************************************************************************)
Queue == INSTANCE ReportQueue WITH
            Bound <- Capacity + 1,
            queue <- SubSeq(published, Len(handled) + 1, Len(published)),
            taken <- handled

ImplementsQueue == Queue!Spec

(***************************************************************************)
(* A flush in progress returns although only the step to zero wakes it.    *)
(***************************************************************************)
FlushReturns == \A f \in Flushers : flusher[f].pc = "load" ~> flusher[f].pc = "done"

(***************************************************************************)
(* The destructor returns: the sentinel reaches a worker asleep.           *)
(***************************************************************************)
StopTerminates == owner = "stopping" ~> owner = "joined"

(***************************************************************************)
(* The ring is intact although push reads no head_ and the worker looks at *)
(* tail_ only to stop: one producer at a time, no slot filled before it    *)
(* was emptied, no wake-up without a report, the reports in order, and no  *)
(* count of a semaphore, nor pending_, below 0.                            *)
(***************************************************************************)
RingIntact == TypeOK /\ SingleProducer /\ NoOverwrite /\ WokenMeansReport /\ Fifo

(***************************************************************************)
(* What flush and the destructor promise when they return: the reports     *)
(* submitted before are handled, and for the destructor all of them.       *)
(***************************************************************************)
CallsComplete == FlushMeansHandled /\ StopDrains

(***************************************************************************)
(* flush and the destructor return.                                        *)
(***************************************************************************)
CallsReturn == FlushReturns /\ StopTerminates
=============================================================================
