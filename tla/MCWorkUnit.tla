----------------------------- MODULE MCWorkUnit -----------------------------
(* Units of work of several entry points. *)
EXTENDS WorkUnit
=============================================================================
