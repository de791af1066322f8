---------------------------- MODULE MpscEventQueue ----------------------------
(***************************************************************************)
(* The queue that takes order updates, audit records and journal writes    *)
(* off the caller's path: MpscRing (include/abex/application/              *)
(* mpsc_ring.hpp) with the counter, worker, flush and destructor that      *)
(* AsyncOrderObserverQueue, OperationalEventWriter and AsyncJournalLane    *)
(* put around it, the same in all three, and the observers that the worker *)
(* calls.  One step is one access to shared memory.                        *)
(*                                                                         *)
(* The owner is the thread that destroys the HTTP server and then the      *)
(* gateway: it takes the server's observer off the list, flushes, destroys *)
(* the server, and in the end destroys the queue, when nobody posts any    *)
(* more.  An event is the number of the post that brings it.               *)
(***************************************************************************)
EXTENDS Integers, Sequences, FiniteSets, SequencesExt

CONSTANTS Producers,   \* threads that post
          Observers,   \* observers that may be registered
          Capacity,    \* capacity_, a power of two
          Empty,       \* std::nullopt
          MaxPosts     \* bound on the calls of post

ASSUME QueueAssumption ==
    /\ IsFiniteSet(Producers)
    /\ Capacity \in Nat \ {0}
    /\ MaxPosts \in Nat
    /\ Empty \notin Nat

VARIABLES
    slot,        \* slots_: the sequence counter and the value of each
    head,        \* head_, private to the worker
    tail,        \* tail_
    slots,       \* available_slots_
    items,       \* available_items_
    pending,     \* pending_
    posts,       \* calls of post so far
    producer,    \* per thread: where it is, its event and its position
    worker,      \* the worker: where it is, its event and the observers it has yet to call
    observers,   \* observers_, copied on write
    owner,       \* where the owner is, the pending_ flush loaded, and where it goes after flush
    stop,        \* the stop token of worker_
    mark,        \* history: the posts that had returned when the owner's flush began
    claimed,     \* history: events in the order of their positions
    handled,     \* history: events whose processing ended, in order
    accepted,    \* history: events whose post returned true
    dropped,     \* history: events whose post returned false
    calls        \* history: <<observer, event>> for every call of an observer, in order

ring == <<slot, head, tail, slots, items>>
history == <<mark, claimed, handled, accepted, dropped, calls>>
vars == <<slot, head, tail, slots, items, pending, posts, producer, worker, observers,
          owner, stop, mark, claimed, handled, accepted, dropped, calls>>

Events == 1 .. MaxPosts
Index(n) == n % Capacity
NoProducer == [pc |-> "idle", event |-> Empty, pos |-> 0]
AtRest == [pc |-> "loop", event |-> Empty, todo |-> {}]

ProducerSteps == {"idle", "acquire", "claim", "emplace", "publish", "release", "undo", "notify"}
WorkerSteps == {"loop", "acquire", "await", "take", "recycle", "free", "dispatch", "call",
                "settle", "notify", "drain", "drainCheck", "exit"}
OwnerSteps == {"serving", "load", "wait", "blocked", "served",
               "stopping", "waking", "joining", "joined"}

\* The types of the state; neither semaphore and not pending_ goes below zero.
TypeOK ==
    /\ slot \in [0 .. Capacity - 1 -> [sequence : Nat, value : Events \cup {Empty}]]
    /\ head \in Nat /\ tail \in Nat
    /\ slots \in 0 .. Capacity /\ items \in Nat /\ pending \in Nat
    /\ posts \in 0 .. MaxPosts
    /\ producer \in [Producers -> [pc : ProducerSteps, event : Events \cup {Empty}, pos : Nat]]
    /\ worker \in [pc : WorkerSteps, event : Events \cup {Empty}, todo : SUBSET Observers]
    /\ observers \subseteq Observers /\ stop \in BOOLEAN
    /\ owner \in [pc : OwnerSteps, loaded : Nat, then : {"served", "stopping"}]
    /\ mark \subseteq Events /\ accepted \subseteq Events /\ dropped \subseteq Events
    /\ claimed \in Seq(Events) /\ handled \in Seq(Events)
    /\ calls \in Seq(Observers \X Events)

Init ==
    /\ slot = [i \in 0 .. Capacity - 1 |-> [sequence |-> i, value |-> Empty]]
    /\ head = 0 /\ tail = 0 /\ slots = Capacity /\ items = 0
    /\ pending = 0 /\ posts = 0
    /\ producer = [p \in Producers |-> NoProducer]
    /\ worker = AtRest
    /\ observers = {} /\ owner = [pc |-> "serving", loaded |-> 0, then |-> "served"] /\ stop = FALSE
    /\ mark = {} /\ claimed = <<>> /\ handled = <<>> /\ accepted = {} /\ dropped = {}
    /\ calls = <<>>
-----------------------------------------------------------------------------
(* post() and MpscRing::try_push *)

Closing == owner.then = "stopping"
At(p, pc) == producer[p].pc = pc
Goto(p, pc) == producer' = [producer EXCEPT ![p].pc = pc]
OwnerWoken == owner' = IF owner.pc = "blocked" THEN [owner EXCEPT !.pc = "wait"] ELSE owner

\* pending_ rises before the event can be seen.
PostBegin(p) ==
    /\ At(p, "idle") /\ posts < MaxPosts
    /\ ~Closing
    /\ posts' = posts + 1
    /\ pending' = pending + 1
    /\ producer' = [producer EXCEPT ![p] = [pc |-> "acquire", event |-> posts + 1, pos |-> 0]]
    /\ UNCHANGED <<ring, worker, observers, owner, stop, history>>

\* available_slots_.try_acquire: a full ring refuses the event.
TryAcquireSlot(p) ==
    /\ At(p, "acquire")
    /\ IF slots > 0 THEN slots' = slots - 1 /\ Goto(p, "claim")
                    ELSE UNCHANGED slots /\ Goto(p, "undo")
    /\ UNCHANGED <<slot, head, tail, items, pending, posts, worker, observers, owner, stop,
                   history>>

\* tail_.fetch_add
Claim_Ticket(p) ==
    /\ At(p, "claim")
    /\ tail' = tail + 1
    /\ producer' = [producer EXCEPT ![p].pc = "emplace", ![p].pos = producer[p].event - 1]
    /\ claimed' = Append(claimed, producer[p].event)
    /\ UNCHANGED <<slot, head, slots, items, pending, posts, worker, observers, owner, stop,
                   mark, handled, accepted, dropped, calls>>
Claim(p) ==
    /\ At(p, "claim")
    /\ tail' = tail + 1
    /\ producer' = [producer EXCEPT ![p].pc = "emplace", ![p].pos = tail]
    /\ claimed' = Append(claimed, producer[p].event)
    /\ UNCHANGED <<slot, head, slots, items, pending, posts, worker, observers, owner, stop,
                   mark, handled, accepted, dropped, calls>>

\* The spin on slot.sequence ends, and the value is written.
Emplace(p) ==
    /\ At(p, "emplace")
    /\ slot[Index(producer[p].pos)].sequence = producer[p].pos
    /\ slot' = [slot EXCEPT ![Index(producer[p].pos)].value = producer[p].event]
    /\ Goto(p, "publish")
    /\ UNCHANGED <<head, tail, slots, items, pending, posts, worker, observers, owner, stop,
                   history>>

Publish(p) ==
    /\ At(p, "publish")
    /\ slot' = [slot EXCEPT ![Index(producer[p].pos)].sequence = producer[p].pos + 1]
    /\ Goto(p, "release")
    /\ UNCHANGED <<head, tail, slots, items, pending, posts, worker, observers, owner, stop,
                   history>>

\* available_items_.release, and post returns true.
ReleaseItem_Missing(p) ==
    /\ At(p, "release")
    /\ accepted' = accepted \cup {producer[p].event}
    /\ producer' = [producer EXCEPT ![p] = NoProducer]
    /\ UNCHANGED <<ring, pending, posts, worker, observers, owner, stop, mark, claimed, handled,
                   dropped, calls>>
ReleaseItem(p) ==
    /\ At(p, "release")
    /\ items' = items + 1
    /\ accepted' = accepted \cup {producer[p].event}
    /\ producer' = [producer EXCEPT ![p] = NoProducer]
    /\ UNCHANGED <<slot, head, tail, slots, pending, posts, worker, observers, owner, stop,
                   mark, claimed, handled, dropped, calls>>

\* The count of a refused event is taken back ...
Undo(p) ==
    /\ At(p, "undo")
    /\ pending' = pending - 1
    /\ producer' = [producer EXCEPT ![p] = IF pending = 1 THEN [@ EXCEPT !.pc = "notify"]
                                           ELSE NoProducer]
    /\ dropped' = dropped \cup {producer[p].event}
    /\ UNCHANGED <<ring, posts, worker, observers, owner, stop, mark, claimed, handled,
                   accepted, calls>>
\* ... and the step to zero is announced.
UndoNotify(p) ==
    /\ At(p, "notify")
    /\ OwnerWoken
    /\ producer' = [producer EXCEPT ![p] = NoProducer]
    /\ UNCHANGED <<ring, pending, posts, worker, observers, stop, history>>

ProducerStep(p) ==
    \/ TryAcquireSlot(p) \/ Claim(p) \/ Emplace(p) \/ Publish(p) \/ ReleaseItem(p)
    \/ Undo(p) \/ UndoNotify(p)
-----------------------------------------------------------------------------
(* run(), MpscRing::pop_item, MpscRing::try_pop and dispatch() *)

WorkerAt(pc) == worker.pc = pc
WorkerGoto(pc) == worker' = [worker EXCEPT !.pc = pc]
Readable == slot[Index(head)].sequence = head + 1

LoopCheck ==
    /\ WorkerAt("loop")
    /\ WorkerGoto(IF stop THEN "drain" ELSE "acquire")
    /\ UNCHANGED <<ring, pending, posts, producer, observers, owner, stop, history>>

AcquireItem ==
    /\ WorkerAt("acquire") /\ items > 0
    /\ items' = items - 1
    /\ WorkerGoto("await")
    /\ UNCHANGED <<slot, head, tail, slots, pending, posts, producer, observers, owner, stop,
                   history>>

\* A permit of a later position, or the sentinel: the worker spins on the slot at head_, and gives
\* the permit up when stop is requested.
AwaitHead ==
    /\ WorkerAt("await")
    /\ IF Readable THEN WorkerGoto("take") ELSE stop /\ WorkerGoto("loop")
    /\ UNCHANGED <<ring, pending, posts, producer, observers, owner, stop, history>>

Take ==
    /\ WorkerAt("take")
    /\ worker' = [worker EXCEPT !.pc = "recycle", !.event = slot[Index(head)].value]
    /\ slot' = [slot EXCEPT ![Index(head)].value = Empty]
    /\ UNCHANGED <<head, tail, slots, items, pending, posts, producer, observers, owner, stop,
                   history>>

NextTurn == head + Capacity

Recycle ==
    /\ WorkerAt("recycle")
    /\ slot' = [slot EXCEPT ![Index(head)].sequence = NextTurn]
    /\ head' = head + 1
    /\ WorkerGoto("free")
    /\ UNCHANGED <<tail, slots, items, pending, posts, producer, observers, owner, stop, history>>

FreeSlot ==
    /\ WorkerAt("free")
    /\ slots' = slots + 1
    /\ WorkerGoto("dispatch")
    /\ UNCHANGED <<slot, head, tail, items, pending, posts, producer, observers, owner, stop,
                   history>>

\* observers_.load: one snapshot of the list for one event.
LoadObservers ==
    /\ WorkerAt("dispatch")
    /\ worker' = [worker EXCEPT !.pc = "call", !.todo = observers]
    /\ UNCHANGED <<ring, pending, posts, producer, observers, owner, stop, history>>

\* One observer is called; an exception of it is swallowed.
CallObserver ==
    /\ WorkerAt("call")
    /\ \E o \in worker.todo :
        /\ worker' = [worker EXCEPT !.todo = @ \ {o}]
        /\ calls' = Append(calls, <<o, worker.event>>)
    /\ UNCHANGED <<ring, pending, posts, producer, observers, owner, stop, mark, claimed, handled,
                   accepted, dropped>>

CallsDone ==
    /\ WorkerAt("call") /\ worker.todo = {}
    /\ WorkerGoto("settle")
    /\ handled' = Append(handled, worker.event)
    /\ UNCHANGED <<ring, pending, posts, producer, observers, owner, stop, mark, claimed,
                   accepted, dropped, calls>>

\* pending_ falls after the observers were called; the step to zero is announced.
Settle_NoNotify ==
    /\ WorkerAt("settle")
    /\ pending' = pending - 1
    /\ worker' = AtRest
    /\ UNCHANGED <<ring, posts, producer, observers, owner, stop, history>>
Settle ==
    /\ WorkerAt("settle")
    /\ pending' = pending - 1
    /\ worker' = [AtRest EXCEPT !.pc = IF pending = 1 THEN "notify" ELSE "loop"]
    /\ UNCHANGED <<ring, posts, producer, observers, owner, stop, history>>
WorkerNotify ==
    /\ WorkerAt("notify")
    /\ OwnerWoken
    /\ worker' = AtRest
    /\ UNCHANGED <<ring, pending, posts, producer, observers, stop, history>>

\* The drain after the loop: try_pop, which keeps the permit it took when the head is not published.
Drain ==
    /\ WorkerAt("drain")
    /\ IF items > 0 THEN items' = items - 1 /\ WorkerGoto("drainCheck")
                    ELSE UNCHANGED items /\ WorkerGoto("exit")
    /\ UNCHANGED <<slot, head, tail, slots, pending, posts, producer, observers, owner, stop,
                   history>>
DrainCheck ==
    /\ WorkerAt("drainCheck")
    /\ WorkerGoto(IF Readable THEN "take" ELSE "exit")
    /\ UNCHANGED <<ring, pending, posts, producer, observers, owner, stop, history>>

WorkerStep ==
    \/ LoopCheck \/ AcquireItem \/ AwaitHead \/ Take \/ Recycle \/ FreeSlot
    \/ LoadObservers \/ CallObserver \/ CallsDone \/ Settle \/ WorkerNotify
    \/ Drain \/ DrainCheck
-----------------------------------------------------------------------------
(* The owner: add(), remove(), flush(), the destructors *)

OwnerGoto(pc) == owner' = [owner EXCEPT !.pc = pc]

AddObserver(o) ==
    /\ owner.pc = "serving" /\ o \notin observers
    /\ observers' = observers \cup {o}
    /\ UNCHANGED <<ring, pending, posts, producer, worker, owner, stop, history>>

\* ~HttpServer: remove_order_observer, then flush_events.
RemoveAndFlush_NoFlush ==
    /\ owner.pc = "serving"
    /\ observers' = {}
    /\ OwnerGoto("served")
    /\ UNCHANGED <<ring, pending, posts, producer, worker, stop, history>>
RemoveAndFlush ==
    /\ owner.pc = "serving"
    /\ observers' = {}
    /\ mark' = accepted
    /\ OwnerGoto("load")
    /\ UNCHANGED <<ring, pending, posts, producer, worker, stop, claimed, handled, accepted,
                   dropped, calls>>

FlushDone == pending = 0

FlushLoad ==
    /\ owner.pc = "load"
    /\ owner' = [owner EXCEPT !.pc = IF FlushDone THEN owner.then ELSE "wait", !.loaded = pending]
    /\ UNCHANGED <<ring, pending, posts, producer, worker, observers, stop, history>>
\* pending_.wait(loaded): comparing and going to sleep is one step.
FlushWait ==
    /\ owner.pc = "wait"
    /\ OwnerGoto(IF pending = owner.loaded THEN "blocked" ELSE "load")
    /\ UNCHANGED <<ring, pending, posts, producer, worker, observers, stop, history>>

\* The destructor of the queue begins with a flush; nobody posts to an object being destroyed.
Destroy ==
    /\ owner.pc = "served" /\ \A p \in Producers : At(p, "idle")
    /\ owner' = [owner EXCEPT !.pc = "load", !.then = "stopping"]
    /\ mark' = accepted
    /\ UNCHANGED <<ring, pending, posts, producer, worker, observers, stop, claimed, handled,
                   accepted, dropped, calls>>
RequestStop ==
    /\ owner.pc = "stopping"
    /\ stop' = TRUE
    /\ OwnerGoto("waking")
    /\ UNCHANGED <<ring, pending, posts, producer, worker, observers, history>>
WakeConsumer ==
    /\ owner.pc = "waking"
    /\ items' = items + 1
    /\ OwnerGoto("joining")
    /\ UNCHANGED <<slot, head, tail, slots, pending, posts, producer, worker, observers, stop,
                   history>>
Join ==
    /\ owner.pc = "joining" /\ WorkerAt("exit")
    /\ OwnerGoto("joined")
    /\ UNCHANGED <<ring, pending, posts, producer, worker, observers, stop, history>>

OwnerStep == FlushLoad \/ FlushWait \/ RequestStop \/ WakeConsumer \/ Join
Next ==
    \/ \E p \in Producers : PostBegin(p) \/ ProducerStep(p)
    \/ WorkerStep
    \/ \E o \in Observers : AddObserver(o)
    \/ RemoveAndFlush \/ Destroy \/ OwnerStep

\* A thread inside a call keeps running; nobody is obliged to post or to destroy anything.
Spec ==
    /\ Init /\ [][Next]_vars
    /\ \A p \in Producers : WF_vars(ProducerStep(p))
    /\ WF_vars(WorkerStep) /\ WF_vars(OwnerStep)
-----------------------------------------------------------------------------
Flushed == owner.pc \in {"served", "stopping", "waking", "joining", "joined"}

\* Events are processed in the order of their positions although producers publish them in any
\* order (try_push, pop_item): none is skipped, none comes twice.
InHand == IF worker.pc \in {"recycle", "free", "dispatch", "call"} THEN <<worker.event>> ELSE <<>>
PositionOrder ==
    /\ handled \o InHand = SubSeq(claimed, 1, Len(handled \o InHand))
    /\ \A n \in head .. tail - 1 :
          slot[Index(n)].sequence = n + 1 /\ ~(WorkerAt("recycle") /\ n = head) =>
              slot[Index(n)].value = claimed[n + 1]

\* A producer whose turn has come finds its slot empty, and the worker takes only a value that is
\* there: the sequence counters alone keep them apart when producers share the ring.
SlotsAreExclusive ==
    /\ \A p \in Producers : At(p, "emplace") =>
          LET s == slot[Index(producer[p].pos)]
          IN  s.sequence = producer[p].pos => s.value = Empty
    /\ WorkerAt("take") => slot[Index(head)].value # Empty

\* When flush has returned, every event whose post had returned before it is processed: audit
\* records asked for by operational_events() are in the store.
FlushMeansProcessed == Flushed => mark \subseteq ToSet(handled)

\* After ~HttpServer has removed its observer and flushed, no call of it is under way or to come:
\* an event dispatched with an old snapshot of the list is counted in pending_ till it is done.
NoCallAfterRemoval == Flushed => worker.todo = {}

\* An observer gets the updates in the order of their positions, each at most once (dispatch).
ObserversSeeOrder ==
    \A i, j \in 1 .. Len(calls) : i < j /\ calls[i][1] = calls[j][1] =>
        \E m, n \in 1 .. Len(claimed) :
            m < n /\ claimed[m] = calls[i][2] /\ claimed[n] = calls[j][2]

\* The ring is intact while producers share it: positions in order, slots exclusive, and each
\* observer called in that order.
RingIntact == TypeOK /\ PositionOrder /\ SlotsAreExclusive /\ ObserversSeeOrder

\* Nothing is lost in silence: when the queue is gone every event was processed or its post
\* returned false (post, ~AsyncOrderObserverQueue).
NothingLost ==
    owner.pc = "joined" =>
        /\ ToSet(handled) = accepted
        /\ accepted \cup dropped = 1 .. posts

\* What flush and the destructor promise when they return.
CallsComplete == FlushMeansProcessed /\ NoCallAfterRemoval /\ NothingLost

\* The queue implements a bounded first-in first-out queue, filled in the order of tail_, and
\* every event that has its position is processed in the end.
Queue == INSTANCE ReportQueue WITH
            Reports <- Events,
            Bound <- Capacity + 1,
            queue <- SubSeq(claimed, Len(handled) + 1, Len(claimed)),
            taken <- handled
ImplementsQueue == Queue!Spec

\* A flush ends, although only the step of pending_ to zero wakes it.
FlushReturns == owner.pc = "load" ~> Flushed
\* The destructor ends: the sentinel reaches a sleeping worker.
StopTerminates == owner.pc = "stopping" ~> owner.pc = "joined"

\* flush and the destructor return.
CallsReturn == FlushReturns /\ StopTerminates
===============================================================================
