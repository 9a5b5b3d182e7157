--------------------------- MODULE MCRequestTrace ---------------------------
(* One request with a few concurrent operations of each kind. *)
EXTENDS RequestTrace, TLC
=============================================================================
