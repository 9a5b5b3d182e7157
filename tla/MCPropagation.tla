--------------------------- MODULE MCPropagation ---------------------------
(* A few services and units of work; enabled services are alike. *)
EXTENDS Propagation, TLC

Symmetry == Permutations(Services \ Disabled)
=============================================================================
