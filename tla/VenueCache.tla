------------------------------ MODULE VenueCache ------------------------------
(***************************************************************************)
(* The cache of instrument rules and balances in front of an adapter       *)
(* (include/abex/application/venue_cache.hpp), composed with the queries   *)
(* it makes: the adapter's own cache of instrument rules, the budget of    *)
(* requests (TokenBucket) and the venue (query_balances,                   *)
(* query_instrument_rules and observe_rate_limits of the adapters).        *)
(*                                                                         *)
(* Threads that place orders look entries up and refresh them themselves   *)
(* when they have expired; the worker refreshes what place() has announced *)
(* and what has expired.  A lookup is one atomic load; entries are         *)
(* replaced under write_mutex_.  Both maps have the same shape: a key is a *)
(* symbol (Rules) or a currency.  A result is known by the time at which   *)
(* the venue gave it.                                                      *)
(***************************************************************************)
EXTENDS TokenBucket, FiniteSets

CONSTANTS Worker,       \* the background thread
          Rules,        \* keys of the instrument map
          Balances,     \* keys of the balance map
          Ttl,          \* of each key: instrument_ttl_ or balance_ttl_
          InnerTtl,     \* instrument_cache_ttl of the adapter
          QueryCost,    \* tokens a query costs
          Timeout,      \* longest time from the query to the stored entry
          MaxOps        \* bound on the calls of the callers

Keys == Rules \cup Balances
Callers == Threads \ {Worker}
ASSUME CacheAssumption ==
    /\ Worker \in Threads /\ QueryCost \in Costs /\ Rules \cap Balances = {}
    /\ Ttl \in [Keys -> Nat] /\ {InnerTtl, Timeout, MaxOps} \subseteq Nat

VARIABLES
    entries,    \* instrument_snap_ and balance_snap_
    inner,      \* instrument_cache_ of the adapter
    pending,    \* pending_symbols_
    job,        \* the refresh each thread is in
    worker,     \* stage of run(), the keys it still has to visit and its snapshot of balances
    stop,       \* request_stop of the destructor
    ops         \* calls made so far

cacheVars == <<entries, inner, pending, job, worker, stop, ops>>
vars == <<bucketVars, cacheVars>>

None == [asOf |-> -1, at |-> -1]
NoBalances == [k \in Balances |-> None]
NoJob == [pc |-> "idle", key |-> "", asOf |-> 0, started |-> 0]

\* The types, and the stages of the threads.
TypeOK ==
    /\ BucketTypeOK
    /\ \A k \in Keys : entries[k] = None \/ entries[k].asOf \in 0 .. entries[k].at
    /\ \A k \in Rules : inner[k] = None \/ inner[k].asOf \in 0 .. inner[k].at
    /\ pending \subseteq Rules
    /\ \A t \in Threads : job[t].pc \in {"idle", "budget", "query", "report", "keep", "store"}
    /\ worker.pc \in {"wait", "rules", "balances", "exit"} /\ worker.todo \subseteq Keys

Init ==
    /\ BucketInit
    /\ entries = [k \in Keys |-> None] /\ inner = [k \in Rules |-> None]
    /\ pending = {}
    /\ job = [t \in Threads |-> NoJob]
    /\ worker = [pc |-> "wait", todo |-> {}, seen |-> NoBalances]
    /\ stop = FALSE /\ ops = 0
-----------------------------------------------------------------------------
\* Against the wall clock in the code, where the adapter's cache uses the steady one: the model's
\* clock is both, and steps of the wall clock are left out.
IsExpired(entry, k) == entry # None /\ now - entry.at > Ttl[k]
Expired(k) == IsExpired(entries[k], k)
\* Mutant: the adapter's rules never expire.
InnerFresh_Forever(k) == k \in Rules /\ inner[k] # None
InnerFresh(k) == k \in Rules /\ inner[k] # None /\ now - inner[k].at < InnerTtl

Idle(t) == job[t].pc = "idle" /\ call[t].pc = "idle"
Calling(t) == t \in Callers /\ Idle(t) /\ ~stop /\ ops < MaxOps /\ ops' = ops + 1
\* The adapter's query: its own cache, then the budget.
Refresh(t, k) ==
    IF InnerFresh(k)
    THEN /\ job' = [job EXCEPT ![t] = [pc |-> "store", key |-> k, asOf |-> inner[k].asOf, started |-> now]]
         /\ UNCHANGED bucketVars
    ELSE /\ job' = [job EXCEPT ![t] = [NoJob EXCEPT !.pc = "budget", !.key = k]]
         /\ Start(t, QueryCost)

\* instrument_rules and balances: a hit changes nothing.
LookUp(t, k) ==
    /\ Calling(t)
    /\ entries[k] = None \/ Expired(k)
    /\ Refresh(t, k)
    /\ UNCHANGED <<entries, inner, pending, worker, stop>>
\* place() announces the symbol; its own request then costs tokens of the same budget.
Warm(t, k) ==
    /\ Calling(t) /\ k \notin pending
    /\ pending' = pending \cup {k}
    /\ UNCHANGED <<bucketVars, entries, inner, job, worker, stop>>
OtherRequest(t) ==
    /\ Calling(t)
    /\ \E cost \in Costs : Start(t, cost)
    /\ UNCHANGED <<entries, inner, pending, job, worker, stop>>
AcquireStep(t) == Acquire(t) /\ UNCHANGED cacheVars

BudgetAnswered(t) ==
    /\ job[t].pc = "budget" /\ call[t].pc = "idle"
    /\ job' = [job EXCEPT ![t] = IF call[t].granted THEN [@ EXCEPT !.pc = "query", !.started = now]
                                 ELSE NoJob]
    /\ UNCHANGED <<bucketVars, entries, inner, pending, worker, stop, ops>>
\* External: the venue answers or the request fails; only a success is cached.
VenueAnswers(t) ==
    /\ job[t].pc = "query"
    /\ job' = [job EXCEPT ![t].pc = "report", ![t].asOf = now]
    /\ UNCHANGED <<bucketVars, entries, inner, pending, worker, stop, ops>>
QueryFails(t) ==
    /\ job[t].pc = "query"
    /\ job' = [job EXCEPT ![t] = NoJob]
    /\ UNCHANGED <<bucketVars, entries, inner, pending, worker, stop, ops>>
\* observe_rate_limits, when the answer carries the venue's count.
ReportCapacity(t) ==
    /\ job[t].pc = "report" /\ call[t].pc = "idle"
    /\ \E reported \in Capacities : StoreCapacity(t, reported)
    /\ UNCHANGED cacheVars
ReportPeriod(t) ==
    /\ job[t].pc = "report"
    /\ \E reported \in Periods : StorePeriod(t, reported)
    /\ UNCHANGED cacheVars
ReportArrival(t) ==
    /\ job[t].pc = "report" /\ call[t].pc = "store"
    /\ \E available \in 0 .. Largest : StoreArrival(t, available)
    /\ job' = [job EXCEPT ![t].pc = "keep"]
    /\ UNCHANGED <<entries, inner, pending, worker, stop, ops>>
NoReport(t) ==
    /\ job[t].pc = "report" /\ call[t].pc = "idle"
    /\ job' = [job EXCEPT ![t].pc = "keep"]
    /\ UNCHANGED <<bucketVars, entries, inner, pending, worker, stop, ops>>
Keep(t) ==
    /\ job[t].pc = "keep"
    /\ inner' = [k \in Rules |-> IF k = job[t].key THEN [asOf |-> job[t].asOf, at |-> now] ELSE inner[k]]
    /\ job' = [job EXCEPT ![t].pc = "store"]
    /\ UNCHANGED <<bucketVars, entries, pending, worker, stop, ops>>
\* Mutant: the copy that replaces the map has been taken when the query began.
Copied_Early(t) == [k \in Keys |-> IF entries[k].at > job[t].started THEN None ELSE entries[k]]
Copied(t) == entries
\* The map is copied and replaced under write_mutex_.
Store(t) ==
    /\ job[t].pc = "store"
    /\ entries' = [Copied(t) EXCEPT ![job[t].key] = [asOf |-> job[t].asOf, at |-> now]]
    /\ job' = [job EXCEPT ![t] = NoJob]
    /\ UNCHANGED <<bucketVars, inner, pending, worker, stop, ops>>
-----------------------------------------------------------------------------
(* run(), the worker *)

Awake == TRUE      \* wait_for ends with a symbol, with the interval or with the stop token
WorkerWakes ==
    /\ worker.pc = "wait" /\ Awake
    /\ IF stop
       THEN worker' = [pc |-> "exit", todo |-> {}, seen |-> NoBalances] /\ UNCHANGED pending
       ELSE /\ pending # {} \/ \E k \in Keys : Expired(k)
            /\ worker' = [worker EXCEPT !.pc = "rules", !.todo = pending \cup {k \in Rules : Expired(k)}]
            /\ pending' = {}
    /\ UNCHANGED <<bucketVars, entries, inner, job, stop, ops>>
WorkerRefreshes ==
    /\ worker.pc \in {"rules", "balances"} /\ Idle(Worker) /\ ~stop
    /\ \E k \in worker.todo :
        /\ worker' = [worker EXCEPT !.todo = @ \ {k}]
        /\ IF k \in Rules \/ IsExpired(worker.seen[k], k) THEN Refresh(Worker, k) ELSE UNCHANGED <<bucketVars, job>>
    /\ UNCHANGED <<entries, inner, pending, stop, ops>>
WorkerMovesOn ==
    /\ worker.pc \in {"rules", "balances"} /\ Idle(Worker)
    /\ worker.todo = {} \/ stop
    /\ worker' = IF worker.pc = "rules"
                 THEN [pc |-> "balances", todo |-> {k \in Balances : entries[k] # None},
                       seen |-> [k \in Balances |-> entries[k]]]
                 ELSE [pc |-> "wait", todo |-> {}, seen |-> NoBalances]
    /\ UNCHANGED <<bucketVars, entries, inner, pending, job, stop, ops>>
Stop ==
    /\ ~stop /\ stop' = TRUE
    /\ \A t \in Callers : Idle(t)
    /\ UNCHANGED <<bucketVars, entries, inner, pending, job, worker, ops>>

\* A query that takes longer than Timeout fails.
Tick ==
    /\ \A t \in Threads : job[t].pc \in {"query", "report", "keep", "store"} => now < job[t].started + Timeout
    /\ Advance /\ UNCHANGED cacheVars

ThreadStep(t) ==
    \/ AcquireStep(t) \/ BudgetAnswered(t) \/ VenueAnswers(t) \/ QueryFails(t)
    \/ ReportCapacity(t) \/ ReportPeriod(t) \/ ReportArrival(t) \/ NoReport(t) \/ Keep(t) \/ Store(t)
WorkerStep == WorkerWakes \/ WorkerRefreshes \/ WorkerMovesOn
Next ==
    \/ Tick \/ Stop \/ WorkerStep
    \/ \E t \in Threads : ThreadStep(t)
    \/ \E t \in Callers : OtherRequest(t) \/ (\E k \in Keys : LookUp(t, k)) \/ (\E k \in Rules : Warm(t, k))
Spec == Init /\ [][Next]_vars
\* Threads run on.
FairSpec == Spec /\ WF_vars(WorkerStep) /\ \A t \in Threads : WF_vars(ThreadStep(t))
-----------------------------------------------------------------------------
\* What the cache would serve is never older than its time to live, that of the adapter's cache
\* under it (which is excluded itself) and the time of the queries that filled the two: the caches
\* add up, they do not extend each other again and again.
InnerAge(k) == IF k \in Rules /\ InnerTtl > 0 THEN InnerTtl - 1 + Timeout ELSE 0
Staleness(k) == Ttl[k] + Timeout + InnerAge(k)
ServedIsFresh == \A k \in Keys : entries[k] # None /\ ~Expired(k) => now - entries[k].asOf <= Staleness(k)

\* The cache holds what its clocks allow: types and freshness.
CacheIsFresh == TypeOK /\ ServedIsFresh

\* An entry that is in the map stays in it: a refresh of one key does not undo another's.
NoLostEntry == [][\A k \in Keys : entries[k] # None => entries'[k].at >= entries[k].at]_vars

\* Every request for tokens and every refresh comes to an end, however the threads interleave.
RequestsEnd == \A t \in Threads : []<>(Idle(t))

\* After request_stop the worker leaves its loop, and the destructor's join returns.
StopTerminates == stop ~> worker.pc = "exit"

\* No caller hangs, and neither does the destructor.
CallsReturn == RequestsEnd /\ StopTerminates
===============================================================================
