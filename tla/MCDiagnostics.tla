--------------------------- MODULE MCDiagnostics ----------------------------
(* Diagnostics read against HTTPTransport on a small instance. *)
EXTENDS Diagnostics, TLC

\* Sends play the same part, so that permuting them is sound for safety.
Symmetry == Permutations(Sends)
=============================================================================
