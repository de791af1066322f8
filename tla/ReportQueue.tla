---------------------------- MODULE ReportQueue ----------------------------
(***************************************************************************)
(* What the execution lane of a venue promises the gateway: a bounded      *)
(* first-in first-out queue whose reports are handled one after another,   *)
(* each once.  This is the lane that OrderGateway works with;              *)
(* SpscExecutionLane implements it (see its Queue and ImplementsQueue).    *)
(***************************************************************************)
EXTENDS Naturals, Sequences

CONSTANTS Reports,   \* what may be queued
          Bound      \* most reports waiting or in hand at a time

VARIABLES queue,     \* accepted and not yet handled, oldest first
          taken      \* handled, in order

Init == queue = <<>> /\ taken = <<>>

\* submit accepts a report.
Put(r) ==
    /\ Len(queue) < Bound
    /\ queue' = Append(queue, r)
    /\ UNCHANGED taken

\* The worker hands the oldest report to the handler.
Take ==
    /\ queue # <<>>
    /\ taken' = Append(taken, Head(queue))
    /\ queue' = Tail(queue)

Next == (\E r \in Reports : Put(r)) \/ Take

Spec == Init /\ [][Next]_<<queue, taken>> /\ WF_<<queue, taken>>(Take)
=============================================================================
