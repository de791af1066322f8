---------------------------- MODULE MCTokenBucket -----------------------------
(* The bucket and its observer for TLC. *)
EXTENDS BudgetWindow
===============================================================================
