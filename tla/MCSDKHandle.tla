---------------------------- MODULE MCSDKHandle ----------------------------
(* Every configuration, with each of the transports on a small instance. *)
EXTENDS SDKHandle
=============================================================================
