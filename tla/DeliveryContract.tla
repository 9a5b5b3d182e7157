-------------------------- MODULE DeliveryContract --------------------------
(***************************************************************************)
(* What the asynchronous transports of the SDK promise, with no channel,   *)
(* mutex or goroutine: batches are accepted while the transport is open    *)
(* and has room, every accepted batch is attempted once and in order, and  *)
(* the transport's goroutine is released only when it is closed with       *)
(* nothing left to attempt.  HTTPTransport and managedExporter implement   *)
(* this specification (the comments of Exporter, ExporterShutdown and of   *)
(* Flush and Shutdown in transport.go state it in prose).                  *)
(***************************************************************************)
EXTENDS Integers, SequencesExt

CONSTANTS
    Batches,    \* what may be sent
    Limit       \* how many accepted batches may be waiting for their attempt

VARIABLES
    open,       \* batches are accepted
    log,        \* the batches accepted, in order
    settled,    \* how many of them have been attempted
    released    \* the transport runs no more

contractVars == << open, log, settled, released >>

ContractInit ==
    /\ open \in BOOLEAN
    /\ log = << >>
    /\ settled = 0
    /\ released = FALSE

Accept(b) ==
    /\ open
    /\ b \notin ToSet(log)
    /\ Len(log) - settled < Limit
    /\ log' = Append(log, b)
    /\ UNCHANGED << open, settled, released >>

Attempt ==
    /\ settled < Len(log)
    /\ settled' = settled + 1
    /\ UNCHANGED << open, log, released >>

Shut ==
    /\ open
    /\ open' = FALSE
    /\ UNCHANGED << log, settled, released >>

Release ==
    /\ ~open /\ settled = Len(log)
    /\ ~released
    /\ released' = TRUE
    /\ UNCHANGED << open, log, settled >>

ContractNext == (\E b \in Batches : Accept(b)) \/ Attempt \/ Shut \/ Release

Contract == ContractInit /\ [][ContractNext]_contractVars

\* With exports that end, accepted batches are attempted.
AttemptsFair == WF_contractVars(Attempt)
=============================================================================
