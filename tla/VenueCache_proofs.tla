-------------------------- MODULE VenueCache_proofs ---------------------------
(***************************************************************************)
(* The bucket never overdraws, for any number of threads, any costs, any   *)
(* capacities and any periods, whatever the interleaving of the            *)
(* compare-and-swaps, the clock and the venue's reports; and the caches    *)
(* that share it serve nothing older than their times to live allow.       *)
(*                                                                         *)
(* The argument for the bucket is a pair of bounds on the arrival time.    *)
(* From below, it has moved by at least the tokens granted in the window;  *)
(* from above, a grant leaves it within a full bucket of the clock the     *)
(* thread has read.  The argument for the caches is what a refresh carries *)
(* from its query to the entry it stores.                                  *)
(***************************************************************************)
EXTENDS VenueCache, BudgetWindow, TLAPS

\* Below: the arrival time has moved by what was granted, or nothing has been granted in a window
\* that began with a full bucket.
Moved == \/ tat >= base + spent
         \/ spent = 0 /\ base = mark
\* What a thread carries has been configured, and its request fits its limit.
Configured(c) ==
    /\ c.pc \in Acquiring => c.cost \in Costs /\ c.limit \in Capacities
    /\ c.pc \in {"clock", "load", "try"} => c.cost <= c.limit
    /\ c.pc \in Configuring => c.limit \in Capacities
    /\ c.pc \in {"load", "try", "clock", "stamp", "store"} => c.period \in Periods
\* Nothing that it has read is from the future.
Carried == \A t \in Threads : call[t].at <= now /\ Configured(call[t])
\* The bucket's own invariant, and with what the observer has seen.
BInv == BucketTypeOK /\ Carried /\ DebtIsBounded
IInv ==
    /\ BInv /\ Moved /\ base <= now + Full
    /\ mark \in Nat /\ base \in Nat /\ spent \in Nat

\* A duration is not negative, linear in its tokens, and at most a full bucket.
LEMMA Durations ==
    ASSUME NEW a \in Nat, NEW b \in Nat, NEW p \in Nat, a <= b
    PROVE  /\ ScaledDuration(a, p) \in Nat /\ ScaledDuration(b, p) \in Nat
           /\ ScaledDuration(b - a, p) \in Nat
           /\ ScaledDuration(b - a, p) = ScaledDuration(b, p) - ScaledDuration(a, p)
           /\ b <= Largest /\ p <= Longest => ScaledDuration(b, p) <= Full
<1> USE BudgetAssumption DEF ScaledDuration
<1>1. a * p \in Nat /\ b * p \in Nat  OBVIOUS
<1>2. b - a \in Nat  OBVIOUS
<1>3. (b - a) * p \in Nat  BY <1>2
<1>4. (b - a) * p = b * p - a * p  OBVIOUS
<1>5. ASSUME b <= Largest, p <= Longest PROVE b * p <= Largest * Longest
  <2>1. Largest - b \in Nat /\ Longest - p \in Nat  BY <1>5
  <2>2. (Largest - b) * p \in Nat /\ Largest * (Longest - p) \in Nat  BY <2>1
  <2>3. (Largest - b) * p = Largest * p - b * p  OBVIOUS
  <2>4. Largest * (Longest - p) = Largest * Longest - Largest * p  OBVIOUS
  <2>5. Largest * p \in Nat /\ Largest * Longest \in Nat  OBVIOUS
  <2> QED  BY <1>1, <2>2, <2>3, <2>4, <2>5
<1> QED  BY <1>1, <1>3, <1>4, <1>5 DEF Full

LEMMA FullIsNat == Full \in Nat
  BY BudgetAssumption DEF Full

\* No call: nothing is carried.
LEMMA NothingCarried ==
    /\ NoCall \in Calls /\ NoCall.at = 0 /\ Configured(NoCall)
    /\ [NoCall EXCEPT !.granted = TRUE] \in Calls /\ [NoCall EXCEPT !.granted = TRUE].at = 0
    /\ Configured([NoCall EXCEPT !.granted = TRUE])
<1>1. NoCall \in Calls /\ NoCall.at = 0 /\ NoCall.pc = "idle"  BY DEF NoCall, Calls
<1> DEFINE g == [NoCall EXCEPT !.granted = TRUE]
<1>2. g \in Calls /\ g.at = 0 /\ g.pc = "idle"  BY DEF NoCall, Calls
<1> HIDE DEF g
<1>3. \A c : c.pc = "idle" => Configured(c)  BY DEF Configured, Acquiring, Configuring
<1>4. Configured(NoCall) /\ Configured(g)  BY <1>1, <1>2, <1>3
<1> QED  BY <1>1, <1>2, <1>4 DEF g

\* The constructor establishes the invariant.
LEMMA InitBInv == BucketInit => BInv
<1> SUFFICES ASSUME BucketInit PROVE BInv  OBVIOUS
<1>1. now = 0 /\ tat = 0 /\ call = [t \in Threads |-> NoCall]  BY DEF BucketInit
<1>2. BucketTypeOK  BY NothingCarried DEF BucketInit, BucketTypeOK
<1>3. Carried
  <2>1. \A t \in Threads : call[t] = NoCall  BY <1>1
  <2>2. NoCall.at <= now  BY <1>1, NothingCarried
  <2> QED  BY <2>1, <2>2, NothingCarried, Zenon DEF Carried
<1>4. DebtIsBounded  BY <1>1, FullIsNat DEF DebtIsBounded
<1> QED  BY <1>2, <1>3, <1>4 DEF BInv

LEMMA InitInv == BucketInit /\ WindowInit => IInv
  BY InitBInv, FullIsNat DEF BucketInit, WindowInit, IInv, Moved

\* Replacing what one thread carries keeps the types and what the others carry.
LEMMA OneCall ==
    ASSUME BucketTypeOK, Carried, NEW t \in Threads, NEW r \in Calls,
           call' = [call EXCEPT ![t] = r], r.at <= now, Configured(r), now' = now,
           capacity' \in Capacities, period' \in Periods, tat' \in Nat
    PROVE  BucketTypeOK' /\ Carried'
<1>1. call \in [Threads -> Calls] /\ now \in Nat  BY DEF BucketTypeOK
<1>2. BucketTypeOK'  BY <1>1 DEF BucketTypeOK
<1>3. ASSUME NEW u \in Threads PROVE call'[u].at <= now' /\ Configured(call'[u])
  <2>1. CASE u = t
    <3>1. call'[u] = r  BY <2>1, <1>1
    <3> QED  BY <3>1
  <2>2. CASE u # t
    <3>1. call'[u] = call[u]  BY <2>2, <1>1
    <3>2. call[u].at <= now /\ Configured(call[u])  BY DEF Carried
    <3> QED  BY <3>1, <3>2
  <2> QED  BY <2>1, <2>2
<1> QED  BY <1>2, <1>3 DEF Carried, Configured

\* A grant adds its cost to the arrival time and stays within a full bucket of the clock.
LEMMA GrantInv ==
    ASSUME BInv, NEW t \in Threads, Grant(t)
    PROVE  /\ BInv' /\ now' = now /\ tat \in Nat /\ tat' \in Nat /\ call[t].at \in Nat
           /\ ScaledDuration(call[t].cost, call[t].period) \in Nat
           /\ tat' >= tat + ScaledDuration(call[t].cost, call[t].period)
           /\ tat' >= call[t].at + ScaledDuration(call[t].cost, call[t].period)
<1> USE BudgetAssumption
<1> DEFINE c == call[t]
           D == ScaledDuration(c.cost, c.period)
           g == [NoCall EXCEPT !.granted = TRUE]
<1>1. /\ c \in Calls /\ c.pc = "try" /\ c.cost \in Nat /\ c.limit \in Nat /\ c.at \in Nat
      /\ c.period \in Nat /\ c.period <= Longest
      /\ c.observed \in Nat /\ c.at <= now /\ c.cost <= c.limit /\ c.limit <= Largest
      /\ tat = c.observed
  BY DEF BInv, BucketTypeOK, Carried, Configured, Acquiring, Grant, Unchanged, Calls
<1>2. /\ D \in Nat /\ ScaledDuration(c.limit, c.period) \in Nat /\ Full \in Nat
      /\ ScaledDuration(c.limit - c.cost, c.period) \in Nat
      /\ ScaledDuration(c.limit - c.cost, c.period) = ScaledDuration(c.limit, c.period) - D
      /\ ScaledDuration(c.limit, c.period) <= Full
  <2>1. PICK a \in Nat, b \in Nat, p \in Nat : a = c.cost /\ b = c.limit /\ p = c.period
    BY <1>1
  <2>2. a <= b /\ b <= Largest /\ p <= Longest  BY <1>1, <2>1
  <2>3. /\ ScaledDuration(a, p) \in Nat /\ ScaledDuration(b, p) \in Nat
        /\ ScaledDuration(b - a, p) \in Nat
        /\ ScaledDuration(b - a, p) = ScaledDuration(b, p) - ScaledDuration(a, p)
        /\ ScaledDuration(b, p) <= Full
    BY <2>2, Durations
  <2> QED  BY <2>1, <2>3, FullIsNat
<1>3. c.observed <= c.at + ScaledDuration(c.limit - c.cost, c.period)
  BY <1>1, <1>2 DEF Grant, Refused
<1>4. /\ now \in Nat /\ tat \in Nat /\ now' = now
      /\ capacity' \in Capacities /\ period' \in Periods /\ call' = [call EXCEPT ![t] = g]
  BY DEF BInv, BucketTypeOK, Grant, config
<1>5. tat' = (IF c.observed < c.at THEN c.at ELSE c.observed) + D
  BY DEF Grant, Begins, Later
<1>6. tat' \in Nat /\ tat' >= tat + D /\ tat' >= c.at + D
  BY <1>1, <1>2, <1>4, <1>5
<1>7. tat' <= now + Full
  BY <1>1, <1>2, <1>3, <1>4, <1>5
<1>8. BucketTypeOK' /\ Carried'
  <2>1. g \in Calls /\ g.at <= now /\ Configured(g)  BY <1>4, NothingCarried
  <2>2. BucketTypeOK /\ Carried  BY DEF BInv
  <2> HIDE DEF g
  <2> QED  BY <2>1, <2>2, <1>4, <1>6, OneCall
<1>9. Full' = Full  BY DEF Full
<1> QED  BY <1>1, <1>2, <1>4, <1>6, <1>7, <1>8, <1>9 DEF BInv, DebtIsBounded

\* A report leaves a debt of at most a full bucket.
LEMMA ReportInv ==
    ASSUME BInv, NEW t \in Threads, NEW available \in 0 .. Largest, StoreArrival(t, available)
    PROVE  BInv' /\ now' = now /\ tat' \in Nat
<1> USE BudgetAssumption
<1> DEFINE c == call[t]
           D == ScaledDuration(c.limit - available, c.period)
<1>1. c.pc = "store" /\ available <= c.limit  BY DEF StoreArrival
<1>2. c \in Calls /\ c.at <= now /\ Configured(c)  BY DEF BInv, BucketTypeOK, Carried
<1>3. c.at \in Nat  BY <1>2 DEF Calls
<1>4. c.limit \in Capacities /\ c.period \in Periods  BY <1>1, <1>2 DEF Configured, Configuring
<1>5. PICK b \in Nat, p \in Nat : b = c.limit - available /\ p = c.period /\ b <= Largest /\ p <= Longest
  <2>1. c.limit \in Nat /\ c.limit <= Largest /\ c.period \in Nat /\ c.period <= Longest  BY <1>4
  <2>2. available \in Nat /\ Largest \in Nat  OBVIOUS
  <2>3. c.limit - available \in Nat /\ c.limit - available <= Largest  BY <1>1, <2>1, <2>2
  <2> QED  BY <2>1, <2>3
<1>6. D \in Nat /\ Full \in Nat /\ D <= Full
  <2>1. b <= b  BY <1>5
  <2>2. ScaledDuration(b, p) \in Nat /\ ScaledDuration(b, p) <= Full  BY <1>5, <2>1, Durations
  <2> QED  BY <1>5, <2>2, FullIsNat
<1>7. /\ now \in Nat /\ now' = now /\ tat' = c.at + D
      /\ capacity' \in Capacities /\ period' \in Periods /\ call' = [call EXCEPT ![t] = NoCall]
  BY DEF BInv, BucketTypeOK, StoreArrival, config
<1>8. tat' \in Nat /\ tat' <= now + Full  BY <1>2, <1>3, <1>6, <1>7
<1>9. BucketTypeOK' /\ Carried'
  <2>1. NoCall \in Calls /\ NoCall.at <= now /\ Configured(NoCall)  BY <1>7, NothingCarried
  <2>2. BucketTypeOK /\ Carried  BY DEF BInv
  <2> QED  BY <2>1, <2>2, <1>7, <1>8, OneCall
<1>10. Full' = Full  BY DEF Full
<1> QED  BY <1>7, <1>8, <1>9, <1>10 DEF BInv, DebtIsBounded

\* A step that changes only the calls, and leaves each of them well-formed, keeps the invariant.
LEMMA CallInv ==
    ASSUME BInv, NEW t \in Threads, NEW r \in Calls,
           call' = [call EXCEPT ![t] = r], r.at <= now, Configured(r),
           UNCHANGED <<now, tat>>, capacity' \in Capacities, period' \in Periods
    PROVE  BInv' /\ now' = now /\ tat' = tat
<1>1. now' = now /\ tat' = tat /\ tat \in Nat  BY DEF BInv, BucketTypeOK
<1>2. BucketTypeOK' /\ Carried'  BY <1>1, OneCall DEF BInv
<1>3. Full' = Full  BY DEF Full
<1> QED  BY <1>1, <1>2, <1>3 DEF BInv, DebtIsBounded

\* The steps of a call that neither grant nor report.
LEMMA QuietInv ==
    ASSUME BInv, NEW t \in Threads,
           \/ \E cost \in Costs : Start(t, cost)
           \/ LoadPeriod(t) \/ ReadClock(t) \/ Load(t) \/ Refuse(t) \/ Retry(t)
           \/ \E reported \in Capacities : StoreCapacity(t, reported)
           \/ \E reported \in Periods : StorePeriod(t, reported)
    PROVE  BInv' /\ now' = now /\ tat' = tat
<1> USE BudgetAssumption
<1>0. /\ now \in Nat /\ tat \in Nat /\ capacity \in Capacities /\ period \in Periods
      /\ call \in [Threads -> Calls] /\ call[t] \in Calls
      /\ call[t].at \in Nat /\ call[t].at <= now /\ Configured(call[t])
  BY DEF BInv, BucketTypeOK, Carried, Calls
<1>1. ASSUME NEW cost \in Costs, Start(t, cost) PROVE BInv' /\ now' = now /\ tat' = tat
  <2> DEFINE r == [NoCall EXCEPT !.pc = "period", !.cost = cost, !.limit = capacity]
  <2>1. r \in Calls /\ r.at = 0 /\ r.pc = "period" /\ r.cost = cost /\ r.limit = capacity
    BY <1>0 DEF NoCall, Calls, Acquiring
  <2>2. call' = [call EXCEPT ![t] = r] /\ UNCHANGED <<now, tat>>
        /\ capacity' \in Capacities /\ period' \in Periods
    BY <1>0, <1>1 DEF Start, config
  <2> HIDE DEF r
  <2>3. r.at <= now /\ Configured(r)  BY <1>0, <2>1 DEF Configured, Configuring
  <2> QED  BY <2>1, <2>2, <2>3, CallInv
<1>2. CASE LoadPeriod(t)
  <2> DEFINE loaded == [call[t] EXCEPT !.pc = "clock", !.period = period]
             r == IF call[t].cost > call[t].limit THEN NoCall ELSE loaded
  <2>1. /\ loaded \in Calls /\ loaded.at = call[t].at /\ loaded.pc = "clock"
        /\ loaded.cost = call[t].cost /\ loaded.limit = call[t].limit /\ loaded.period = period
    BY <1>0 DEF Calls, Acquiring
  <2>2. call[t].pc = "period" /\ call[t].cost \in Costs /\ call[t].limit \in Capacities
    BY <1>0, <1>2 DEF LoadPeriod, Configured, Acquiring
  <2>3. call' = [call EXCEPT ![t] = r] /\ UNCHANGED <<now, tat>>
        /\ capacity' \in Capacities /\ period' \in Periods
    BY <1>0, <1>2 DEF LoadPeriod, config
  <2> HIDE DEF loaded
  <2>4. call[t].cost <= call[t].limit => Configured(loaded)
    BY <1>0, <2>1, <2>2 DEF Configured, Acquiring, Configuring
  <2>5. call[t].cost \in Nat /\ call[t].limit \in Nat  BY <2>2
  <2>6. r \in Calls /\ r.at <= now /\ Configured(r)  BY <1>0, <2>1, <2>4, <2>5, NothingCarried
  <2> HIDE DEF r
  <2> QED  BY <2>3, <2>6, CallInv
<1>3. CASE ReadClock(t)
  <2> DEFINE q == IF call[t].pc = "clock" THEN "load" ELSE "store"
             r == [call[t] EXCEPT !.pc = q, !.at = now]
  <2>1. /\ r \in Calls /\ r.at = now /\ r.pc = q
        /\ r.cost = call[t].cost /\ r.limit = call[t].limit /\ r.period = call[t].period
    BY <1>0, ZenonT(40) DEF Calls, Acquiring, Configuring
  <2>2. call' = [call EXCEPT ![t] = r] /\ UNCHANGED <<now, tat>>
        /\ capacity' \in Capacities /\ period' \in Periods
    BY <1>0, <1>3 DEF ReadClock, config
  <2>3. call[t].pc \in {"clock", "stamp"}  BY <1>3 DEF ReadClock
  <2> HIDE DEF r
  <2>4. Configured(r)  BY <1>0, <2>1, <2>3 DEF Configured, Acquiring, Configuring
  <2>5. r.at <= now  BY <1>0, <2>1
  <2> QED  BY <2>1, <2>2, <2>4, <2>5, CallInv
<1>4. CASE Load(t) \/ Retry(t)
  <2> DEFINE r == [call[t] EXCEPT !.pc = "try", !.observed = tat]
  <2>1. /\ r \in Calls /\ r.at = call[t].at /\ r.pc = "try"
        /\ r.cost = call[t].cost /\ r.limit = call[t].limit /\ r.period = call[t].period
    BY <1>0 DEF Calls, Acquiring
  <2>2. call[t].pc \in {"load", "try"}  BY <1>4 DEF Load, Retry
  <2>3. call' = [call EXCEPT ![t] = r]
    <3>1. CASE Load(t)  BY <1>0, <3>1 DEF Load
    <3>2. CASE Retry(t)
      <4>1. r = [call[t] EXCEPT !.observed = tat]  BY <1>0, <3>2 DEF Retry, Calls
      <4> QED  BY <1>0, <3>2, <4>1 DEF Retry
    <3> QED  BY <1>4, <3>1, <3>2
  <2>4. UNCHANGED <<now, tat>> /\ capacity' \in Capacities /\ period' \in Periods
    BY <1>0, <1>4 DEF Load, Retry, config
  <2> HIDE DEF r
  <2>5. Configured(r)  BY <1>0, <2>1, <2>2 DEF Configured, Acquiring, Configuring
  <2>6. r.at <= now  BY <1>0, <2>1
  <2> QED  BY <2>1, <2>3, <2>4, <2>5, <2>6, CallInv
<1>5. CASE Refuse(t)
  <2>1. call' = [call EXCEPT ![t] = NoCall] /\ UNCHANGED <<now, tat>>
        /\ capacity' \in Capacities /\ period' \in Periods
    BY <1>0, <1>5 DEF Refuse, config
  <2>2. NoCall \in Calls /\ NoCall.at <= now /\ Configured(NoCall)  BY <1>0, NothingCarried
  <2> QED  BY <2>1, <2>2, CallInv
<1>6. ASSUME NEW reported \in Capacities, StoreCapacity(t, reported) PROVE BInv' /\ now' = now /\ tat' = tat
  <2> DEFINE r == [NoCall EXCEPT !.pc = "rate", !.limit = reported]
  <2>1. r \in Calls /\ r.at = 0 /\ r.pc = "rate" /\ r.limit = reported
    BY DEF NoCall, Calls, Configuring
  <2>2. call' = [call EXCEPT ![t] = r] /\ UNCHANGED <<now, tat>>
        /\ capacity' \in Capacities /\ period' \in Periods
    BY <1>0, <1>6 DEF StoreCapacity
  <2> HIDE DEF r
  <2>3. r.at <= now /\ Configured(r)  BY <1>0, <2>1 DEF Configured, Acquiring
  <2> QED  BY <2>1, <2>2, <2>3, CallInv
<1>7. ASSUME NEW reported \in Periods, StorePeriod(t, reported) PROVE BInv' /\ now' = now /\ tat' = tat
  <2> DEFINE r == [call[t] EXCEPT !.pc = "stamp", !.period = reported]
  <2>1. /\ r \in Calls /\ r.at = call[t].at /\ r.pc = "stamp"
        /\ r.limit = call[t].limit /\ r.period = reported
    BY <1>0 DEF Calls, Configuring
  <2>2. call[t].pc = "rate" /\ call[t].limit \in Capacities
    BY <1>0, <1>7 DEF StorePeriod, Configured, Configuring
  <2>3. call' = [call EXCEPT ![t] = r] /\ UNCHANGED <<now, tat>>
        /\ capacity' \in Capacities /\ period' \in Periods
    BY <1>0, <1>7 DEF StorePeriod
  <2> HIDE DEF r
  <2>4. r.at <= now /\ Configured(r)  BY <1>0, <2>1, <2>2 DEF Configured, Acquiring
  <2> QED  BY <2>1, <2>3, <2>4, CallInv
<1> QED  BY <1>1, <1>2, <1>3, <1>4, <1>5, <1>6, <1>7

\* Every step of the bucket keeps its invariant.
LEMMA NextBInv == BInv /\ [BucketNext]_bucketVars => BInv'
<1> SUFFICES ASSUME BInv, [BucketNext]_bucketVars PROVE BInv'  OBVIOUS
<1>1. CASE Advance
  <2>1. /\ now \in Nat /\ now' = now + 1 /\ tat \in Nat /\ Full \in Nat /\ tat <= now + Full
        /\ UNCHANGED <<capacity, period, tat, call>>
    BY <1>1, FullIsNat DEF Advance, config, BInv, BucketTypeOK, DebtIsBounded
  <2>2. BucketTypeOK'  BY <2>1 DEF BInv, BucketTypeOK
  <2>3. ASSUME NEW u \in Threads PROVE call'[u].at <= now' /\ Configured(call'[u])
    <3>1. call[u].at \in Nat /\ call[u].at <= now /\ Configured(call[u]) /\ call'[u] = call[u]
      BY <2>1 DEF BInv, BucketTypeOK, Carried, Calls
    <3> QED  BY <2>1, <3>1
  <2>4. Carried'  BY <2>3 DEF Carried, Configured
  <2>5. Full' = Full  BY DEF Full
  <2> QED  BY <2>1, <2>2, <2>4, <2>5 DEF BInv, DebtIsBounded
<1>2. ASSUME NEW t \in Threads, NEW available \in 0 .. Largest, StoreArrival(t, available) PROVE BInv'
  BY <1>2, ReportInv
<1>3. ASSUME NEW t \in Threads, Grant(t) PROVE BInv'
  BY <1>3, GrantInv
<1>4. ASSUME NEW t \in Threads,
             \/ \E cost \in Costs : Start(t, cost)
             \/ LoadPeriod(t) \/ ReadClock(t) \/ Load(t) \/ Refuse(t) \/ Retry(t)
             \/ \E reported \in Capacities : StoreCapacity(t, reported)
             \/ \E reported \in Periods : StorePeriod(t, reported)
      PROVE  BInv'
  BY <1>4, QuietInv
<1>5. CASE UNCHANGED bucketVars
  BY <1>5 DEF bucketVars, config, BInv, BucketTypeOK, Carried, Configured, DebtIsBounded, Full
<1> QED  BY <1>1, <1>2, <1>3, <1>4, <1>5 DEF BucketNext, Acquire

\* And every step of the bucket and its observer keeps what the observer relies on.
LEMMA NextInv == IInv /\ [WindowNext]_<<bucketVars, window>> => IInv'
<1> SUFFICES ASSUME IInv, [WindowNext]_<<bucketVars, window>> PROVE IInv'  OBVIOUS
<1>0. /\ now \in Nat /\ tat \in Nat /\ mark \in Nat /\ base \in Nat /\ spent \in Nat
      /\ Full \in Nat /\ tat <= now + Full /\ base <= now + Full /\ Moved /\ BInv
  BY FullIsNat DEF IInv, BInv, BucketTypeOK, DebtIsBounded
<1>1. BInv' /\ tat' \in Nat /\ tat' <= now' + Full /\ now' \in Nat /\ Full' = Full
  <2>1. BInv'  BY <1>0, NextBInv DEF WindowNext, OpenWindow
  <2>2. Full' = Full  BY DEF Full
  <2> QED  BY <2>1, <2>2 DEF BInv, BucketTypeOK, DebtIsBounded
<1>2. CASE OpenWindow
  <2>1. /\ now' = now /\ tat' = tat /\ mark' = now /\ spent' = 0
        /\ base' = (IF tat < now THEN now ELSE tat)
    BY <1>2 DEF OpenWindow, bucketVars, Later
  <2>2. base' \in Nat /\ base' <= now + Full /\ (tat' >= base' \/ base' = mark')  BY <1>0, <2>1
  <2> QED  BY <1>0, <1>1, <2>1, <2>2 DEF IInv, Moved
<1>3. CASE SeesReport
  <2>1. now' = now  BY <1>0, <1>3, ReportInv DEF SeesReport
  <2>2. mark' = now /\ spent' = 0 /\ base' = (IF tat' < now THEN now ELSE tat')
    BY <1>3 DEF SeesReport, Later
  <2>3. base' \in Nat /\ base' <= now + Full /\ (tat' >= base' \/ base' = mark')
    BY <1>0, <1>1, <2>1, <2>2
  <2>4. tat' >= base' + spent' \/ (spent' = 0 /\ base' = mark')
    <3>1. spent' = 0 /\ base' \in Nat /\ (tat' >= base' \/ base' = mark')  BY <2>2, <2>3
    <3>2. base' + spent' = base'
      <4>1. \A x \in Nat : x + 0 = x  OBVIOUS
      <4> QED  BY <3>1, <4>1, Zenon
    <3> QED  BY <3>1, <3>2
  <2>5. Moved'  BY <2>4 DEF Moved
  <2> QED  BY <1>0, <1>1, <2>1, <2>2, <2>3, <2>5 DEF IInv
<1>4. ASSUME NEW t \in Threads, SeesGrant(t) PROVE IInv'
  <2>1. PICK D \in Nat, at \in Nat : D = ScaledDuration(call[t].cost, call[t].period) /\ at = call[t].at
    BY <1>0, <1>4, GrantInv DEF SeesGrant
  <2>2. now' = now /\ tat' >= tat + D /\ tat' >= at + D
    BY <1>0, <1>4, <2>1, GrantInv DEF SeesGrant
  <2>3. mark' = mark /\ base' = base /\ spent' = IF at >= mark \/ tat >= base THEN spent + D ELSE spent
    BY <1>4, <2>1 DEF SeesGrant, Counted
  <2>4. Moved'  BY <1>0, <1>1, <2>2, <2>3 DEF Moved
  <2> QED  BY <1>0, <1>1, <2>2, <2>3, <2>4 DEF IInv
<1>5. CASE BucketNext /\ SeesNothing
  <2>1. mark' = mark /\ base' = base /\ spent' = spent  BY <1>5 DEF SeesNothing, window
  <2>2. now' >= now /\ tat' = tat
    <3>1. CASE Advance  BY <1>0, <3>1 DEF Advance
    <3>2. ASSUME NEW t \in Threads,
                 \/ \E cost \in Costs : Start(t, cost)
                 \/ LoadPeriod(t) \/ ReadClock(t) \/ Load(t) \/ Refuse(t) \/ Retry(t)
                 \/ \E reported \in Capacities : StoreCapacity(t, reported)
                 \/ \E reported \in Periods : StorePeriod(t, reported)
          PROVE  now' >= now /\ tat' = tat
      BY <1>0, <3>2, QuietInv
    <3> QED  BY <1>5, <3>1, <3>2 DEF BucketNext, Acquire, SeesNothing
  <2>3. Moved'  BY <1>0, <2>1, <2>2 DEF Moved
  <2>4. \A x, y, z, w \in Nat : x <= y + w /\ z >= y => x <= z + w  OBVIOUS
  <2>5. base <= now' + Full  BY <1>0, <1>1, <2>2, <2>4
  <2> QED  BY <1>0, <1>1, <2>1, <2>3, <2>5 DEF IInv
<1>6. CASE UNCHANGED <<bucketVars, window>>
  <2>1. now' = now /\ tat' = tat /\ mark' = mark /\ base' = base /\ spent' = spent
    BY <1>6 DEF bucketVars, window
  <2> QED  BY <1>0, <1>1, <2>1 DEF IInv, Moved
<1> QED  BY <1>2, <1>3, <1>4, <1>5, <1>6 DEF WindowNext, Observe

\* The invariant holds in every behaviour.
THEOREM BucketInvariant == WindowSpec => []IInv
  BY InitInv, NextInv, PTL DEF WindowSpec, ObservedInit

\* What the invariant says of the budget.
LEMMA InvKeepsBudget == IInv => BudgetKept
<1> SUFFICES ASSUME IInv PROVE BudgetKept  OBVIOUS
<1>1. /\ now \in Nat /\ tat \in Nat /\ base \in Nat /\ spent \in Nat /\ Full \in Nat
  BY FullIsNat DEF IInv, BInv, BucketTypeOK
<1> QED  BY <1>1 DEF IInv, BInv, Moved, DebtIsBounded, BudgetHeld, BudgetKept

\* try_acquire and synchronize keep the budget, in any window: neither overdraft nor lasting debt,
\* for every number of threads, every cost and all capacities and periods that are reported.
THEOREM BudgetIsKept == WindowSpec => []BudgetKept
  BY BucketInvariant, InvKeepsBudget, PTL

-----------------------------------------------------------------------------
(***************************************************************************)
(* The cache uses the bucket as the bucket is meant to be used: each of    *)
(* its steps makes one access of a call to try_acquire or synchronize, or  *)
(* leaves the bucket alone.                                                *)
(***************************************************************************)
LEMMA BucketSteps == [Next]_vars => [BucketNext]_bucketVars
  <1> SUFFICES ASSUME [Next]_vars PROVE [BucketNext]_bucketVars
    OBVIOUS
  <1>0. Worker \in Threads /\ QueryCost \in Costs
    BY CacheAssumption
  <1>1. ASSUME NEW t \in Threads, NEW k, Refresh(t, k) PROVE [BucketNext]_bucketVars
    BY <1>0, <1>1 DEF Refresh, BucketNext
  <1>2. CASE Tick
    BY <1>2 DEF Tick, BucketNext
  <1>3. CASE Stop
    BY <1>3 DEF Stop
  <1>4. CASE WorkerStep
    <2>1. CASE WorkerWakes  BY <2>1 DEF WorkerWakes
    <2>2. CASE WorkerRefreshes
      <3>1. PICK k \in worker.todo :
                IF k \in Rules \/ IsExpired(worker.seen[k], k) THEN Refresh(Worker, k) ELSE UNCHANGED <<bucketVars, job>>
        BY <2>2 DEF WorkerRefreshes
      <3>2. CASE Refresh(Worker, k)  BY <3>2, <1>0, <1>1
      <3> QED BY <3>1, <3>2
    <2>3. CASE WorkerMovesOn  BY <2>3 DEF WorkerMovesOn
    <2> QED BY <1>4, <2>1, <2>2, <2>3 DEF WorkerStep
  <1>5. ASSUME NEW t \in Threads, ThreadStep(t) PROVE [BucketNext]_bucketVars
    <2>1. CASE AcquireStep(t)  BY <2>1 DEF AcquireStep, BucketNext
    <2>2. CASE ReportCapacity(t)  BY <2>2 DEF ReportCapacity, BucketNext
    <2>3. CASE ReportArrival(t)  BY <2>3 DEF ReportArrival, BucketNext
    <2>5. CASE ReportPeriod(t)  BY <2>5 DEF ReportPeriod, BucketNext
    <2>4. CASE BudgetAnswered(t) \/ VenueAnswers(t) \/ QueryFails(t) \/ NoReport(t) \/ Keep(t) \/ Store(t)
      BY <2>4 DEF BudgetAnswered, VenueAnswers, QueryFails, NoReport, Keep, Store
    <2> QED BY <1>5, <2>1, <2>2, <2>3, <2>4, <2>5 DEF ThreadStep
  <1>6. ASSUME NEW t \in Callers,
               OtherRequest(t) \/ (\E k \in Keys : LookUp(t, k)) \/ (\E k \in Rules : Warm(t, k))
        PROVE  [BucketNext]_bucketVars
    <2>0. t \in Threads  BY DEF Callers
    <2>1. CASE OtherRequest(t)  BY <2>0, <2>1 DEF OtherRequest, BucketNext
    <2>2. CASE \E k \in Keys : LookUp(t, k)  BY <2>0, <2>2, <1>1 DEF LookUp
    <2>3. CASE \E k \in Rules : Warm(t, k)  BY <2>3 DEF Warm
    <2> QED BY <1>6, <2>1, <2>2, <2>3
  <1>7. CASE UNCHANGED vars
    BY <1>7 DEF vars
  <1> QED BY <1>2, <1>3, <1>4, <1>5, <1>6, <1>7 DEF Next

\* VenueCache's behaviours are the bucket's, and no other use is made of it.
THEOREM UsesBucket == Spec => BucketSpec
  <1>1. Init => BucketInit
    BY DEF Init
  <1> QED BY <1>1, BucketSteps, PTL DEF Spec, BucketSpec

\* VenueCache with the observer of the bucket beside it, who opens windows at any time.
WatchedNext == (Next /\ Observe) \/ (OpenWindow /\ UNCHANGED cacheVars)
WatchedSpec == Init /\ WindowInit /\ [][WatchedNext]_<<vars, window>>

\* A step that leaves the bucket alone neither grants nor reports.
LEMMA NothingSeen ==
    ASSUME IInv, UNCHANGED bucketVars, Observe
    PROVE  UNCHANGED window
  <1>1. call \in [Threads -> Calls] /\ call' = call
    BY DEF IInv, BInv, BucketTypeOK, bucketVars
  <1>2. ASSUME NEW t \in Threads PROVE ~Grant(t)
    <2>1. ASSUME Grant(t) PROVE call'[t].pc = "idle" /\ call[t].pc = "try"
      BY <1>1, <2>1 DEF Grant, NoCall
    <2> QED BY <1>1, <2>1
  <1>3. ASSUME NEW t \in Threads, NEW available \in 0 .. Largest PROVE ~StoreArrival(t, available)
    <2>1. ASSUME StoreArrival(t, available) PROVE call'[t].pc = "idle" /\ call[t].pc = "store"
      BY <1>1, <2>1 DEF StoreArrival, NoCall
    <2> QED BY <1>1, <2>1
  <1> QED BY <1>2, <1>3 DEF Observe, SeesReport, SeesNothing, SeesGrant

LEMMA WatchedInv == IInv /\ [WatchedNext]_<<vars, window>> => IInv'
  <1> SUFFICES ASSUME IInv, [WatchedNext]_<<vars, window>> PROVE [WindowNext]_<<bucketVars, window>>
    BY NextInv
  <1>1. CASE Next /\ Observe
    <2>1. BucketNext \/ UNCHANGED bucketVars
      BY <1>1, BucketSteps
    <2>2. CASE BucketNext
      BY <1>1, <2>2 DEF WindowNext
    <2>3. CASE UNCHANGED bucketVars
      BY <1>1, <2>3, NothingSeen
    <2> QED BY <2>1, <2>2, <2>3
  <1>2. CASE OpenWindow
    BY <1>2 DEF WindowNext
  <1>3. CASE UNCHANGED <<vars, window>>
    BY <1>3 DEF vars
  <1> QED BY <1>1, <1>2, <1>3 DEF WatchedNext

(***************************************************************************)
(* The budget is kept, in any window, when try_acquire and synchronize are *)
(* called by the cache's queries and by the other requests of the adapter, *)
(* however the threads interleave.                                         *)
(***************************************************************************)
THEOREM QueriesKeepBudget == WatchedSpec => []BudgetKept
  <1>1. Init /\ WindowInit => IInv
    BY InitInv DEF Init
  <1> QED BY <1>1, WatchedInv, InvKeepsBudget, PTL DEF WatchedSpec
-----------------------------------------------------------------------------
(* The invariant of the caches. *)

Entry == {None} \cup [asOf : Nat, at : Nat]
Stages == {"idle", "budget", "query", "report", "keep", "store"}
Jobs == [pc : Stages, key : Keys \cup {""}, asOf : Nat, started : Nat]
Workers == [pc : {"wait", "rules", "balances", "exit"}, todo : SUBSET Keys, seen : [Balances -> Entry]]

CacheTypes ==
    /\ now \in Nat
    /\ entries \in [Keys -> Entry] /\ inner \in [Rules -> Entry]
    /\ pending \subseteq Rules
    /\ job \in [Threads -> Jobs]
    /\ worker \in Workers

\* What a refresh carries: it has a key, has not been on its way longer than Timeout, and its
\* result is younger than the query, or as old as the adapter's cache allows.
JobSound(j) ==
    /\ j.pc # "idle" => j.key \in Keys
    /\ j.pc \in {"query", "report", "keep", "store"} => j.started <= now /\ now <= j.started + Timeout
    /\ j.pc \in {"report", "keep"} => j.started <= j.asOf /\ j.asOf <= now
    /\ j.pc = "store" => j.asOf <= now /\ j.started - j.asOf <= InnerAge(j.key)
\* An entry has been stored in the past, with a result that was at most `age' old.
Sound(e, age) == e # None => e.asOf <= e.at /\ e.at <= now /\ e.at - e.asOf <= age

CacheInv ==
    /\ CacheTypes
    /\ \A t \in Threads : JobSound(job[t])
    /\ \A k \in Keys : Sound(entries[k], Timeout + InnerAge(k))
    /\ \A k \in Rules : Sound(inner[k], Timeout)

\* The constants of the caches, and the age a result of the adapter's cache may have.
LEMMA CacheNumbers ==
    /\ Worker \in Threads /\ Callers \subseteq Threads
    /\ Timeout \in Nat /\ InnerTtl \in Nat
    /\ Rules \subseteq Keys
    /\ \A k \in Keys : Ttl[k] \in Nat /\ InnerAge(k) \in Nat
    /\ \A k \in Rules : InnerTtl > 0 => InnerAge(k) = InnerTtl - 1 + Timeout
  <1>1. Timeout \in Nat /\ InnerTtl \in Nat
    BY CacheAssumption
  <1>2. \A k \in Keys : Ttl[k] \in Nat
    BY CacheAssumption
  <1>3. \A k \in Keys : InnerAge(k) \in Nat
    BY <1>1 DEF InnerAge
  <1>4. \A k \in Rules : InnerTtl > 0 => InnerAge(k) = InnerTtl - 1 + Timeout
    BY DEF InnerAge
  <1> QED BY <1>1, <1>2, <1>3, <1>4, CacheAssumption DEF Callers, Keys

LEMMA CacheInit == Init => CacheInv
  <1> SUFFICES ASSUME Init PROVE CacheInv
    OBVIOUS
  <1>1. CacheTypes
    <2>1. NoJob \in Jobs /\ None \in Entry
      BY DEF NoJob, Jobs, Stages, Entry
    <2>2. NoBalances \in [Balances -> Entry]
      BY <2>1 DEF NoBalances
    <2>3. worker \in Workers
      BY <2>2 DEF Init, Workers
    <2>4. entries \in [Keys -> Entry] /\ inner \in [Rules -> Entry] /\ job \in [Threads -> Jobs]
      BY <2>1 DEF Init
    <2> QED BY <2>3, <2>4 DEF Init, BucketInit, CacheTypes
  <1> QED BY <1>1 DEF Init, CacheInv, JobSound, Sound, NoJob

\* A step at one moment that leaves the entries alone and moves only the refresh of thread t.
LEMMA OneJob ==
    ASSUME CacheInv, NEW t \in Threads, NEW j, job' = [job EXCEPT ![t] = j],
           j \in Jobs, JobSound(j),
           UNCHANGED <<now, entries, inner>>,
           pending' \subseteq Rules,
           worker' \in Workers
    PROVE  CacheInv'
  <1>1. CacheTypes'
    BY DEF CacheInv, CacheTypes
  <1>2. ASSUME NEW u \in Threads PROVE JobSound(job[u])'
    <2>1. job'[u] = IF u = t THEN j ELSE job[u]
      BY DEF CacheInv, CacheTypes
    <2> QED BY <2>1 DEF CacheInv, JobSound, InnerAge
  <1>3. \A k \in Keys : Sound(entries[k], Timeout + InnerAge(k))'
    BY DEF CacheInv, Sound, InnerAge
  <1>4. \A k \in Rules : Sound(inner[k], Timeout)'
    BY DEF CacheInv, Sound
  <1> QED BY <1>1, <1>2, <1>3, <1>4 DEF CacheInv

\* query_instrument_rules and query_balances: the adapter's cache, or the budget.
LEMMA RefreshKeeps ==
    ASSUME CacheInv, NEW t \in Threads, NEW k \in Keys, Refresh(t, k),
           UNCHANGED <<entries, inner>>, pending' \subseteq Rules,
           worker' \in Workers
    PROVE  CacheInv'
  <1>1. now' = now
    BY DEF Refresh, Start, bucketVars
  <1>2. CASE InnerFresh(k)
    <2> DEFINE j == [pc |-> "store", key |-> k, asOf |-> inner[k].asOf, started |-> now]
    <2>1. k \in Rules /\ inner[k] # None /\ now - inner[k].at < InnerTtl
      BY <1>2 DEF InnerFresh
    <2>2. now \in Nat /\ inner[k].asOf \in Nat /\ inner[k].at \in Nat
      BY <2>1 DEF CacheInv, CacheTypes, Entry
    <2>3. inner[k].asOf <= inner[k].at /\ inner[k].at <= now /\ inner[k].at - inner[k].asOf <= Timeout
      BY <2>1 DEF CacheInv, Sound
    <2>4. InnerTtl > 0 /\ now - inner[k].asOf <= InnerTtl - 1 + Timeout
      BY <2>1, <2>2, <2>3, CacheNumbers
    <2>5. InnerAge(k) = InnerTtl - 1 + Timeout
      BY <2>1, <2>4, CacheNumbers
    <2>6. j \in Jobs
      BY <2>2 DEF Jobs, Stages
    <2>7. JobSound(j)
      BY <2>2, <2>3, <2>4, <2>5, CacheNumbers DEF JobSound
    <2>8. job' = [job EXCEPT ![t] = j]
      BY <1>2 DEF Refresh
    <2> HIDE DEF j
    <2> QED BY <1>1, <2>6, <2>7, <2>8, OneJob
  <1>3. CASE ~InnerFresh(k)
    <2> DEFINE j == [NoJob EXCEPT !.pc = "budget", !.key = k]
    <2>1. j \in Jobs
      BY DEF NoJob, Jobs, Stages
    <2>0. j.pc = "budget" /\ j.key = k
      BY DEF NoJob
    <2>2. JobSound(j)
      <3> HIDE DEF j
      <3> QED BY <2>0 DEF JobSound
    <2>3. job' = [job EXCEPT ![t] = j]
      BY <1>3 DEF Refresh
    <2> HIDE DEF j
    <2> QED BY <1>1, <2>1, <2>2, <2>3, OneJob
  <1> QED BY <1>2, <1>3

\* The refreshes that the worker and the callers begin.
LEMMA BeginKeeps ==
    ASSUME CacheInv,
           \/ WorkerStep \/ Stop
           \/ \E t \in Callers : \/ OtherRequest(t) \/ \E k \in Keys : LookUp(t, k)
                                 \/ \E k \in Rules : Warm(t, k)
    PROVE  CacheInv'
  <1>0. /\ Worker \in Threads /\ Callers \subseteq Threads /\ Rules \subseteq Keys
        /\ worker \in Workers /\ pending \subseteq Rules /\ Balances \subseteq Keys
    BY CacheNumbers DEF CacheInv, CacheTypes, Keys
  <1>1. ASSUME UNCHANGED <<now, entries, inner, job>>, worker' \in Workers, pending' \subseteq Rules
        PROVE  CacheInv'
    BY <1>1 DEF CacheInv, CacheTypes, JobSound, Sound, InnerAge
  <1>2. CASE WorkerWakes
    <2>1. worker' \in Workers /\ pending' \subseteq Rules
      <3>1. NoBalances \in [Balances -> Entry]
        BY DEF NoBalances, Entry
      <3>2. CASE stop
        BY <1>0, <1>2, <3>1, <3>2 DEF WorkerWakes, Workers
      <3>3. CASE ~stop
        <4>1. /\ worker' = [worker EXCEPT !.pc = "rules", !.todo = pending \cup {k \in Rules : Expired(k)}]
              /\ pending' = {}
          BY <1>2, <3>3 DEF WorkerWakes
        <4>2. pending \cup {k \in Rules : Expired(k)} \in SUBSET Keys
          BY <1>0
        <4> QED BY <1>0, <4>1, <4>2 DEF Workers
      <3> QED BY <3>2, <3>3
    <2> QED BY <1>1, <1>2, <2>1 DEF WorkerWakes, bucketVars
  <1>3. CASE WorkerRefreshes
    <2>1. PICK k \in worker.todo :
            /\ worker' = [worker EXCEPT !.todo = @ \ {k}]
            /\ IF k \in Rules \/ IsExpired(worker.seen[k], k) THEN Refresh(Worker, k) ELSE UNCHANGED <<bucketVars, job>>
      BY <1>3 DEF WorkerRefreshes
    <2>2. k \in Keys /\ worker' \in Workers
      BY <1>0, <2>1 DEF Workers
    <2>3. UNCHANGED <<entries, inner, pending>>
      BY <1>3 DEF WorkerRefreshes
    <2>4. CASE Refresh(Worker, k)
      BY <1>0, <2>2, <2>3, <2>4, RefreshKeeps
    <2>5. CASE UNCHANGED <<bucketVars, job>>
      BY <1>0, <1>1, <2>2, <2>3, <2>5 DEF bucketVars
    <2> QED BY <2>1, <2>4, <2>5
  <1>4. CASE WorkerMovesOn
    <2>1. worker' \in Workers
      <3>1. NoBalances \in [Balances -> Entry]
        BY DEF NoBalances, Entry
      <3>2. [k \in Balances |-> entries[k]] \in [Balances -> Entry]
        BY <1>0 DEF CacheInv, CacheTypes
      <3>3. {k \in Balances : entries[k] # None} \in SUBSET Keys
        BY <1>0
      <3> QED BY <1>4, <3>1, <3>2, <3>3 DEF WorkerMovesOn, Workers
    <2> QED BY <1>0, <1>1, <1>4, <2>1 DEF WorkerMovesOn, bucketVars
  <1>5. CASE Stop
    BY <1>0, <1>1, <1>5 DEF Stop, bucketVars
  <1>6. ASSUME NEW t \in Callers, OtherRequest(t) PROVE CacheInv'
    BY <1>0, <1>1, <1>6 DEF OtherRequest, Start
  <1>7. ASSUME NEW t \in Callers, NEW k \in Keys, LookUp(t, k) PROVE CacheInv'
    <2>1. Refresh(t, k) /\ UNCHANGED <<entries, inner, pending, worker>>
      BY <1>7 DEF LookUp
    <2> QED BY <1>0, <2>1, RefreshKeeps
  <1>8. ASSUME NEW t \in Callers, NEW k \in Rules, Warm(t, k) PROVE CacheInv'
    BY <1>0, <1>1, <1>8 DEF Warm, bucketVars
  <1> QED BY <1>2, <1>3, <1>4, <1>5, <1>6, <1>7, <1>8 DEF WorkerStep

\* The steps of a refresh, from the answer of the budget to the stored entry.
LEMMA ThreadKeeps ==
    ASSUME CacheInv, NEW t \in Threads, ThreadStep(t)
    PROVE  CacheInv'
  <1> DEFINE j == job[t]
             n == job'[t]
  <1>0. /\ now \in Nat /\ j \in Jobs /\ JobSound(j) /\ job \in [Threads -> Jobs]
        /\ worker \in Workers /\ pending \subseteq Rules
    BY DEF CacheInv, CacheTypes
  <1>1. NoJob \in Jobs /\ JobSound(NoJob)
    BY DEF NoJob, Jobs, Stages, JobSound
  <1>2. CASE AcquireStep(t) \/ ReportCapacity(t) \/ ReportPeriod(t)
    <2>1. UNCHANGED <<now, entries, inner, job, worker, pending>>
      BY <1>2 DEF AcquireStep, ReportCapacity, ReportPeriod, Acquire, LoadPeriod, ReadClock, Load, Refuse,
                  Grant, Retry, StoreCapacity, StorePeriod,
                  cacheVars, bucketVars
    <2> QED BY <2>1 DEF CacheInv, CacheTypes, JobSound, Sound, InnerAge
  <1>3. CASE BudgetAnswered(t)
    <2>1. UNCHANGED <<now, entries, inner, worker, pending>> /\ j.pc = "budget"
      BY <1>3 DEF BudgetAnswered, bucketVars
    <2>2. CASE call[t].granted
      <3> DEFINE q == [j EXCEPT !.pc = "query", !.started = now]
      <3>1. job' = [job EXCEPT ![t] = q]
        BY <1>0, <1>3, <2>2 DEF BudgetAnswered
      <3>3. q \in Jobs
        BY <1>0 DEF Jobs, Stages
      <3>4. q.pc = "query" /\ q.started = now /\ q.key = j.key
        BY <1>0 DEF Jobs
      <3> HIDE DEF q
      <3>5. JobSound(q)
        BY <1>0, <2>1, <3>4, CacheNumbers DEF JobSound
      <3>2. q \in Jobs /\ JobSound(q)
        BY <3>3, <3>5
      <3> QED BY <1>0, <2>1, <3>1, <3>2, OneJob
    <2>3. CASE ~call[t].granted
      <3>1. job' = [job EXCEPT ![t] = NoJob]
        BY <1>0, <1>3, <2>3 DEF BudgetAnswered
      <3> QED BY <1>0, <1>1, <2>1, <3>1, OneJob
    <2> QED BY <2>2, <2>3
  <1>4. CASE VenueAnswers(t)
    <2> DEFINE q == [j EXCEPT !.pc = "report", !.asOf = now]
    <2>1. UNCHANGED <<now, entries, inner, worker, pending>> /\ j.pc = "query"
      BY <1>4 DEF VenueAnswers, bucketVars
    <2>2. job' = [job EXCEPT ![t] = q]
      BY <1>0, <1>4 DEF VenueAnswers
    <2>4. q \in Jobs
      BY <1>0 DEF Jobs, Stages
    <2>5. q.pc = "report" /\ q.started = j.started /\ q.key = j.key /\ q.asOf = now
      BY <1>0 DEF Jobs
    <2> HIDE DEF q
    <2>3. q \in Jobs /\ JobSound(q)
      BY <1>0, <2>1, <2>4, <2>5, CacheNumbers DEF JobSound
    <2> QED BY <1>0, <2>1, <2>2, <2>3, OneJob
  <1>5. CASE QueryFails(t)
    <2>1. UNCHANGED <<now, entries, inner, worker, pending>> /\ job' = [job EXCEPT ![t] = NoJob]
      BY <1>5 DEF QueryFails, bucketVars
    <2> QED BY <1>0, <1>1, <2>1, OneJob
  <1>6. CASE ReportArrival(t) \/ NoReport(t)
    <2> DEFINE q == [j EXCEPT !.pc = "keep"]
    <2>1. UNCHANGED <<now, entries, inner, worker, pending>> /\ j.pc = "report"
      BY <1>6 DEF ReportArrival, NoReport, StoreArrival, bucketVars
    <2>2. job' = [job EXCEPT ![t] = q]
      BY <1>0, <1>6 DEF ReportArrival, NoReport
    <2>3. q \in Jobs /\ JobSound(q)
      BY <1>0, <2>1, CacheNumbers DEF Jobs, Stages, JobSound
    <2> HIDE DEF q
    <2> QED BY <1>0, <2>1, <2>2, <2>3, OneJob
  <1>7. CASE Keep(t)
    <2> DEFINE q == [j EXCEPT !.pc = "store"]
    <2>1. UNCHANGED <<now, entries, worker, pending>> /\ j.pc = "keep" /\ j.key \in Keys
      BY <1>0, <1>7 DEF Keep, bucketVars, JobSound
    <2>2. job' = [job EXCEPT ![t] = q]
      BY <1>0, <1>7 DEF Keep
    <2>3. /\ j.asOf \in Nat /\ j.started \in Nat /\ j.started <= j.asOf /\ j.asOf <= now
          /\ now <= j.started + Timeout
      BY <1>0, <2>1 DEF Jobs, JobSound
    <2>11. q \in Jobs
      BY <1>0 DEF Jobs, Stages
    <2>12. q.pc = "store" /\ q.started = j.started /\ q.key = j.key /\ q.asOf = j.asOf
      BY <1>0 DEF Jobs
    <2>4. q \in Jobs /\ JobSound(q)
      <3> HIDE DEF q
      <3>1. InnerAge(j.key) \in Nat
        BY <2>1, CacheNumbers
      <3>2. j.started - j.asOf <= InnerAge(j.key)
        BY <2>3, <3>1
      <3> QED BY <1>0, <2>1, <2>3, <2>11, <2>12, <3>2, CacheNumbers DEF JobSound
    <2>5. ASSUME NEW k \in Rules
          PROVE  inner'[k] \in Entry /\ Sound(inner'[k], Timeout)
      <3>1. inner'[k] = IF k = j.key THEN [asOf |-> j.asOf, at |-> now] ELSE inner[k]
        BY <1>7 DEF Keep
      <3>2. CASE k = j.key
        BY <1>0, <2>3, <3>1, <3>2, CacheNumbers DEF Entry, Sound
      <3>3. CASE k # j.key
        BY <3>1, <3>3 DEF CacheInv, CacheTypes
      <3> QED BY <3>2, <3>3
    <2>6. inner' \in [Rules -> Entry]
      <3>1. inner' = [k \in Rules |-> inner'[k]]
        BY <1>7 DEF Keep
      <3> QED BY <3>1, <2>5
    <2> HIDE DEF q
    <2>7. CacheTypes'
      BY <1>0, <2>1, <2>2, <2>4, <2>6 DEF CacheInv, CacheTypes
    <2>8. ASSUME NEW u \in Threads PROVE JobSound(job[u])'
      <3>1. job'[u] = IF u = t THEN q ELSE job[u]
        BY <1>0, <2>2
      <3> QED BY <2>1, <2>4, <3>1 DEF CacheInv, JobSound, InnerAge
    <2>9. \A k \in Keys : Sound(entries[k], Timeout + InnerAge(k))'
      BY <2>1 DEF CacheInv, Sound, InnerAge
    <2>10. \A k \in Rules : Sound(inner[k], Timeout)'
      BY <2>1, <2>5 DEF Sound
    <2> QED BY <2>7, <2>8, <2>9, <2>10 DEF CacheInv
  <1>8. CASE Store(t)
    <2> DEFINE e == [asOf |-> j.asOf, at |-> now]
    <2>1. /\ UNCHANGED <<now, inner, worker, pending>> /\ j.pc = "store" /\ j.key \in Keys
          /\ job' = [job EXCEPT ![t] = NoJob]
      BY <1>0, <1>8 DEF Store, bucketVars, JobSound
    <2>2. /\ j.asOf \in Nat /\ j.started \in Nat /\ j.asOf <= now
          /\ now <= j.started + Timeout /\ j.started - j.asOf <= InnerAge(j.key)
      BY <1>0, <2>1 DEF Jobs, JobSound
    <2>3. entries' = [entries EXCEPT ![j.key] = e]
      BY <1>8 DEF Store, Copied
    <2>4. e \in Entry /\ Sound(e, Timeout + InnerAge(j.key))
      BY <1>0, <2>1, <2>2, CacheNumbers DEF Entry, Sound
    <2> HIDE DEF e
    <2>5. CacheTypes'
      BY <1>0, <1>1, <2>1, <2>3, <2>4 DEF CacheInv, CacheTypes
    <2>6. ASSUME NEW u \in Threads PROVE JobSound(job[u])'
      <3>1. job'[u] = IF u = t THEN NoJob ELSE job[u]
        BY <1>0, <2>1
      <3> QED BY <1>1, <2>1, <3>1 DEF CacheInv, JobSound, InnerAge
    <2>7. ASSUME NEW k \in Keys PROVE Sound(entries[k], Timeout + InnerAge(k))'
      <3>1. entries'[k] = IF k = j.key THEN e ELSE entries[k]
        BY <2>3 DEF CacheInv, CacheTypes
      <3> QED BY <2>1, <2>4, <3>1 DEF CacheInv, Sound, InnerAge
    <2>8. \A k \in Rules : Sound(inner[k], Timeout)'
      BY <2>1 DEF CacheInv, Sound
    <2> QED BY <2>5, <2>6, <2>7, <2>8 DEF CacheInv
  <1> QED BY <1>2, <1>3, <1>4, <1>5, <1>6, <1>7, <1>8 DEF ThreadStep

\* Time passes only while no query has been on its way for Timeout.
LEMMA TickKeeps ==
    ASSUME CacheInv, Tick
    PROVE  CacheInv'
  <1>1. /\ now \in Nat /\ now' = now + 1 /\ UNCHANGED <<entries, inner, pending, job, worker>>
        /\ \A t \in Threads : job[t].pc \in {"query", "report", "keep", "store"} => now < job[t].started + Timeout
    BY DEF Tick, Advance, cacheVars, CacheInv, CacheTypes
  <1>2. CacheTypes'
    BY <1>1 DEF CacheInv, CacheTypes
  <1>3. ASSUME NEW t \in Threads PROVE JobSound(job[t])'
    <2>1. job[t] \in Jobs /\ JobSound(job[t])
      BY DEF CacheInv, CacheTypes
    <2>2. job[t].pc \in {"query", "report", "keep", "store"} => now < job[t].started + Timeout
      BY <1>1
    <2>3. job[t].asOf \in Nat /\ job[t].started \in Nat /\ job'[t] = job[t]
      BY <1>1, <2>1 DEF Jobs
    <2> QED BY <1>1, <2>1, <2>2, <2>3, CacheNumbers DEF JobSound, InnerAge
  <1>4. ASSUME NEW k \in Keys PROVE Sound(entries[k], Timeout + InnerAge(k))'
    <2>1. entries[k] \in Entry /\ Sound(entries[k], Timeout + InnerAge(k))
      BY DEF CacheInv, CacheTypes
    <2> QED BY <1>1, <2>1, CacheNumbers DEF Sound, Entry, InnerAge
  <1>5. ASSUME NEW k \in Rules PROVE Sound(inner[k], Timeout)'
    <2>1. inner[k] \in Entry /\ Sound(inner[k], Timeout)
      BY DEF CacheInv, CacheTypes
    <2> QED BY <1>1, <2>1, CacheNumbers DEF Sound, Entry
  <1> QED BY <1>2, <1>3, <1>4, <1>5 DEF CacheInv

LEMMA CacheNext == CacheInv /\ [Next]_vars => CacheInv'
  <1> SUFFICES ASSUME CacheInv, [Next]_vars PROVE CacheInv'
    OBVIOUS
  <1>1. CASE Tick  BY <1>1, TickKeeps
  <1>2. CASE Stop \/ WorkerStep  BY <1>2, BeginKeeps
  <1>3. ASSUME NEW t \in Threads, ThreadStep(t) PROVE CacheInv'
    BY <1>3, ThreadKeeps
  <1>4. CASE \E t \in Callers : \/ OtherRequest(t) \/ \E k \in Keys : LookUp(t, k)
                                \/ \E k \in Rules : Warm(t, k)
    BY <1>4, BeginKeeps
  <1>5. CASE UNCHANGED vars
    BY <1>5 DEF vars, bucketVars, cacheVars, CacheInv, CacheTypes, JobSound, Sound, InnerAge
  <1> QED BY <1>1, <1>2, <1>3, <1>4, <1>5 DEF Next

\* The invariant holds in every behaviour.
THEOREM CacheInvariant == Spec => []CacheInv
  BY CacheInit, CacheNext, PTL DEF Spec

(***************************************************************************)
(* VenueCache and the adapter's own cache under it: what a lookup would    *)
(* serve is at most as old as the two times to live and the two queries    *)
(* together, for any number of threads, keys and times to live.            *)
(***************************************************************************)
THEOREM ServedStaysFresh == Spec => []CacheIsFresh
  <1>1. CacheInv /\ BInv => CacheIsFresh
    <2> SUFFICES ASSUME CacheInv, BInv PROVE CacheIsFresh
      OBVIOUS
    <2>1. ASSUME NEW k \in Keys, entries[k] # None
          PROVE  /\ entries[k].asOf \in 0 .. entries[k].at
                 /\ ~Expired(k) => now - entries[k].asOf <= Staleness(k)
      <3>1. /\ now \in Nat /\ entries[k].asOf \in Nat /\ entries[k].at \in Nat
            /\ Sound(entries[k], Timeout + InnerAge(k))
        BY <2>1 DEF CacheInv, CacheTypes, Entry
      <3> QED BY <2>1, <3>1, CacheNumbers DEF Sound, Expired, IsExpired, Staleness
    <2>2. ASSUME NEW k \in Rules, inner[k] # None PROVE inner[k].asOf \in 0 .. inner[k].at
      <3>1. /\ inner[k].asOf \in Nat /\ inner[k].at \in Nat /\ Sound(inner[k], Timeout)
        BY <2>2 DEF CacheInv, CacheTypes, Entry
      <3> QED BY <2>2, <3>1 DEF Sound
    <2>3. TypeOK
      BY <2>1, <2>2 DEF TypeOK, CacheInv, CacheTypes, Jobs, Stages, Workers, BInv
    <2> QED BY <2>1, <2>3 DEF CacheIsFresh, ServedIsFresh
  <1>2. Init => BucketInit
    BY DEF Init
  <1>3. Spec => []BInv
    BY <1>2, BucketSteps, InitBInv, NextBInv, PTL DEF Spec
  <1> QED BY <1>1, <1>3, CacheInvariant, PTL

(***************************************************************************)
(* store_instrument and store_balances: replacing the map for one key      *)
(* loses no other thread's entry, and no entry is replaced by an earlier   *)
(* one.                                                                    *)
(***************************************************************************)
THEOREM EntriesStay == Spec => NoLostEntry
  <1>1. CacheInv /\ [Next]_vars => [\A k \in Keys : entries[k] # None => entries'[k].at >= entries[k].at]_vars
    <2> SUFFICES ASSUME CacheInv, Next, NEW k \in Keys, entries[k] # None
                 PROVE  entries'[k].at >= entries[k].at
      OBVIOUS
    <2>1. now \in Nat /\ entries[k].at \in Nat /\ entries[k].at <= now
      BY DEF CacheInv, CacheTypes, Entry, Sound
    <2>2. ASSUME NEW t \in Threads, Store(t) PROVE entries'[k].at >= entries[k].at
      <3>1. entries'[k] = IF k = job[t].key THEN [asOf |-> job[t].asOf, at |-> now] ELSE entries[k]
        BY <2>2 DEF Store, Copied, CacheInv, CacheTypes
      <3> QED BY <2>1, <3>1
    <2>3. CASE \A t \in Threads : ~Store(t)
      <3>1. entries' = entries
        BY <2>3 DEF Next, Tick, Stop, WorkerStep, WorkerWakes, WorkerRefreshes, WorkerMovesOn, ThreadStep,
               AcquireStep, BudgetAnswered, VenueAnswers, QueryFails, ReportCapacity, ReportPeriod, ReportArrival,
               NoReport, Keep, OtherRequest, LookUp, Warm, cacheVars
      <3> QED BY <2>1, <3>1
    <2> QED BY <2>2, <2>3
  <1> QED BY <1>1, CacheInvariant, PTL DEF Spec, NoLostEntry
===============================================================================
