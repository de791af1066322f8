--------------------------- MODULE MCVenueSession ---------------------------
(* VenueSession for TLC. *)
EXTENDS VenueSession
=============================================================================
