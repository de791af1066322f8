---------------------------- MODULE MCLiveStream ----------------------------
(* LiveStream for TLC. *)
EXTENDS LiveStream
=============================================================================
