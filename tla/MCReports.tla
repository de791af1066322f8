------------------------------ MODULE MCReports ------------------------------
(***************************************************************************)
(* OrderLifecycle and SimulatedExchange for TLC: the two sources of        *)
(* numbered reports, each beside the other at rest.  Whichever takes the   *)
(* first step is the subject of the behaviour.                             *)
(***************************************************************************)
EXTENDS OrderLifecycle, SimulatedExchange

ReportsInit == Init /\ SimInit
OneOrder == SimInit /\ Next /\ UNCHANGED simVars
Simulator == Init /\ SimNext /\ UNCHANGED vars
ReportsSpec == ReportsInit /\ [][OneOrder \/ Simulator]_<<vars, simVars>>
==============================================================================
