---------------------------- MODULE BudgetWindow ------------------------------
(***************************************************************************)
(* An observer of the bucket.  At any time it may open a window; from then *)
(* on it adds up the tokens that are granted, each at the period that its  *)
(* request has read.  The variables are history: they never hold a step of *)
(* the bucket back.                                                        *)
(***************************************************************************)
EXTENDS TokenBucket

VARIABLES
    mark,       \* when the window began
    base,       \* the arrival time then, not before the mark
    spent       \* the time that the tokens granted in it take to refill

window == <<mark, base, spent>>

WindowInit == mark = 0 /\ base = 0 /\ spent = 0

OpenWindow ==
    /\ mark' = now /\ base' = Later(tat, now) /\ spent' = 0
    /\ UNCHANGED bucketVars

\* A grant counts, except by a call that has read the clock before the window began and moves an
\* arrival time that is past.
Counted(t) == call[t].at >= mark \/ tat >= base
SeesGrant(t) ==
    /\ Grant(t)
    /\ spent' = IF Counted(t) THEN spent + ScaledDuration(call[t].cost, call[t].period) ELSE spent
    /\ UNCHANGED <<mark, base>>
\* What the venue reports to be left begins a window.
SeesReport ==
    /\ \E t \in Threads, available \in 0 .. Largest : StoreArrival(t, available)
    /\ mark' = now /\ base' = Later(tat', now) /\ spent' = 0
SeesNothing ==
    /\ \A t \in Threads : ~Grant(t) /\ \A available \in 0 .. Largest : ~StoreArrival(t, available)
    /\ UNCHANGED window
\* What the observer does at a step of the bucket.
Observe == SeesReport \/ SeesNothing \/ \E t \in Threads : SeesGrant(t)

WindowNext == (BucketNext /\ Observe) \/ OpenWindow
ObservedInit == BucketInit /\ WindowInit
WindowSpec == ObservedInit /\ [][WindowNext]_<<bucketVars, window>>
-----------------------------------------------------------------------------
\* In every window, the refill time of the tokens granted is at most what was left at its start
\* plus what has passed since: threads that race for the last tokens never overdraw the bucket,
\* and an idle bucket saves up no more than a full one.  The budget that a report of the venue
\* leaves is such a window.
BudgetHeld == spent <= now + Full - base

\* The bucket neither overdraws nor falls into a debt it cannot leave.
BudgetKept == BudgetHeld /\ DebtIsBounded
===============================================================================
