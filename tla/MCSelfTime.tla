----------------------------- MODULE MCSelfTime -----------------------------
(* Three operations of any categories in a request of a few time units. *)
EXTENDS SelfTime, TLC

Symmetry == Permutations(Operations)
=============================================================================
