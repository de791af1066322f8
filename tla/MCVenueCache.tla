----------------------------- MODULE MCVenueCache -----------------------------
(* VenueCache for TLC. *)
EXTENDS VenueCache
MCTtl == [k \in {"rules", "balance"} |-> 0]
===============================================================================
