------------------------- MODULE MCManagedExporter --------------------------
(* managedExporter on a small instance. *)
EXTENDS ManagedExporter, TLC

\* Sends play the same part, so that permuting them is sound for safety.
Symmetry == Permutations(Sends)
=============================================================================
