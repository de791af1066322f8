--------------------------- MODULE MCMpscEventQueue ---------------------------
(* MpscEventQueue for TLC: two producers, a ring that fills up, one observer *)
(* that comes and goes, and the destructor at the end.                       *)
EXTENDS MpscEventQueue
===============================================================================
