--------------------------- MODULE MCTracedDriver ---------------------------
(* Drivers with every set of optional interfaces. *)
EXTENDS TracedDriver
=============================================================================
