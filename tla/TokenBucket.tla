----------------------------- MODULE TokenBucket -----------------------------
(***************************************************************************)
(* The local budget of an adapter's requests (include/abex/infrastructure/ *)
(* rate_limiter.hpp): a lock-free bucket that keeps one number, the        *)
(* theoretical arrival time.  Threads acquire tokens with a                *)
(* compare-and-swap; synchronize() replaces the bucket by what the venue   *)
(* reports.                                                                *)
(*                                                                         *)
(* Time is counted in units in which a token's period is a whole number,   *)
(* and costs are whole tokens, as in every call of the code: then          *)
(* scaled_duration is exact.  64-bit saturation is out of reach of the     *)
(* clocks and budgets in use.  Each access to an atomic and each reading   *)
(* of the clock is a step of its own: a request may work with the capacity *)
(* of one report, the period of another and the arrival time of a third.   *)
(***************************************************************************)
EXTENDS Integers

CONSTANTS Threads,
          Costs,        \* what the operations cost, in tokens
          Capacities,   \* the capacities configured or reported by the venue
          Largest,      \* a bound on the capacities
          Periods,      \* times in which one token is refilled, configured or reported
          Longest,      \* a bound on the periods
          MaxTime       \* bound on the clock

ASSUME BudgetAssumption ==
    /\ Costs \subseteq Nat \ {0} /\ Capacities \subseteq Nat \ {0} /\ Periods \subseteq Nat \ {0}
    /\ Largest \in Nat /\ \A c \in Capacities : c <= Largest
    /\ Longest \in Nat /\ \A p \in Periods : p <= Longest
    /\ MaxTime \in Nat

VARIABLES
    now,        \* the steady clock
    capacity,   \* capacity_units_
    period,     \* period_ns_
    tat,        \* theoretical_arrival_ns_
    call        \* where each thread is in try_acquire or synchronize

config == <<capacity, period>>
bucketVars == <<now, config, tat, call>>

Acquiring == {"period", "clock", "load", "try"}
Configuring == {"rate", "stamp", "store"}
Calls == [pc : {"idle"} \cup Acquiring \cup Configuring, cost : Costs \cup {0},
          limit : Capacities \cup {0}, period : Periods \cup {0},
          at : Nat, observed : Nat, granted : BOOLEAN]
NoCall == [pc |-> "idle", cost |-> 0, limit |-> 0, period |-> 0, at |-> 0, observed |-> 0,
           granted |-> FALSE]

\* The types of the bucket's variables.
BucketTypeOK ==
    /\ now \in Nat /\ capacity \in Capacities /\ period \in Periods /\ tat \in Nat
    /\ call \in [Threads -> Calls]

Later(a, b) == IF a < b THEN b ELSE a
ScaledDuration(units, p) == units * p
Full == Largest * Longest

\* The constructor configures a full bucket.
BucketInit ==
    /\ now = 0 /\ capacity \in Capacities /\ period \in Periods /\ tat = 0
    /\ call = [t \in Threads |-> NoCall]
-----------------------------------------------------------------------------
\* Time passes.
Advance == now < MaxTime /\ now' = now + 1 /\ UNCHANGED <<config, tat, call>>

\* try_acquire loads the capacity, then the period, gives up what no bucket can afford, reads the
\* clock and loads the arrival time.
Start(t, cost) ==
    /\ call[t].pc = "idle"
    /\ call' = [call EXCEPT ![t] = [NoCall EXCEPT !.pc = "period", !.cost = cost, !.limit = capacity]]
    /\ UNCHANGED <<now, config, tat>>
LoadPeriod(t) ==
    /\ call[t].pc = "period"
    /\ call' = [call EXCEPT ![t] = IF @.cost > @.limit THEN NoCall
                                   ELSE [@ EXCEPT !.pc = "clock", !.period = period]]
    /\ UNCHANGED <<now, config, tat>>
ReadClock(t) ==
    /\ call[t].pc \in {"clock", "stamp"}
    /\ call' = [call EXCEPT ![t].pc = IF @ = "clock" THEN "load" ELSE "store", ![t].at = now]
    /\ UNCHANGED <<now, config, tat>>
Load(t) ==
    /\ call[t].pc = "load"
    /\ call' = [call EXCEPT ![t].pc = "try", ![t].observed = tat]
    /\ UNCHANGED <<now, config, tat>>
Refused(c) == c.observed > c.at + ScaledDuration(c.limit - c.cost, c.period)
Refuse(t) ==
    /\ call[t].pc = "try" /\ Refused(call[t])
    /\ call' = [call EXCEPT ![t] = NoCall]
    /\ UNCHANGED <<now, config, tat>>
\* Mutant: an idle bucket banks credit, the arrival time is not brought up to the clock.
Begins_Banked(c) == c.observed
Begins(c) == Later(c.observed, c.at)
\* Mutant: a plain store instead of the compare-and-swap.
Unchanged_Ignored(c) == TRUE
Unchanged(c) == tat = c.observed
Grant(t) ==
    /\ call[t].pc = "try" /\ ~Refused(call[t]) /\ Unchanged(call[t])
    /\ tat' = Begins(call[t]) + ScaledDuration(call[t].cost, call[t].period)
    /\ call' = [call EXCEPT ![t] = [NoCall EXCEPT !.granted = TRUE]]
    /\ UNCHANGED <<now, config>>
\* Mutant: the failed exchange does not reload what it compares with.
Retry_SameExpected(t) ==
    /\ call[t].pc = "try" /\ ~Refused(call[t]) /\ ~Unchanged(call[t])
    /\ UNCHANGED bucketVars
Retry(t) ==
    /\ call[t].pc = "try" /\ ~Refused(call[t]) /\ ~Unchanged(call[t])
    /\ call' = [call EXCEPT ![t].observed = tat]
    /\ UNCHANGED <<now, config, tat>>

\* synchronize: the capacity, then the period, then the arrival time that leaves `available'
\* tokens at the time it has read.
StoreCapacity(t, reported) ==
    /\ call[t].pc = "idle"
    /\ capacity' = reported
    /\ call' = [call EXCEPT ![t] = [NoCall EXCEPT !.pc = "rate", !.limit = reported]]
    /\ UNCHANGED <<now, period, tat>>
StorePeriod(t, reported) ==
    /\ call[t].pc = "rate"
    /\ period' = reported
    /\ call' = [call EXCEPT ![t].pc = "stamp", ![t].period = reported]
    /\ UNCHANGED <<now, capacity, tat>>
StoreArrival(t, available) ==
    /\ call[t].pc = "store" /\ available <= call[t].limit
    /\ tat' = call[t].at + ScaledDuration(call[t].limit - available, call[t].period)
    /\ call' = [call EXCEPT ![t] = NoCall]
    /\ UNCHANGED <<now, config>>

Acquire(t) == LoadPeriod(t) \/ ReadClock(t) \/ Load(t) \/ Refuse(t) \/ Grant(t) \/ Retry(t)
BucketNext ==
    \/ Advance
    \/ \E t \in Threads :
        \/ \E cost \in Costs : Start(t, cost)
        \/ Acquire(t)
        \/ \E reported \in Capacities : StoreCapacity(t, reported)
        \/ \E reported \in Periods : StorePeriod(t, reported)
        \/ \E available \in 0 .. Largest : StoreArrival(t, available)
BucketSpec == BucketInit /\ [][BucketNext]_bucketVars
-----------------------------------------------------------------------------
\* The debt is never more than a full bucket: after that time without grants every affordable
\* request is admitted again.  A full bucket is the largest capacity at the longest period, for a
\* request may have read one of them before a report of the venue and the other after it.
DebtIsBounded == tat <= now + Full
==============================================================================
