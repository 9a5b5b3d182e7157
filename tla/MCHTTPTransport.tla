-------------------------- MODULE MCHTTPTransport ---------------------------
(* HTTPTransport on a small instance. *)
EXTENDS HTTPTransport, TLC

\* Sends play the same part, so that permuting them is sound for safety.
Symmetry == Permutations(Sends)
=============================================================================
