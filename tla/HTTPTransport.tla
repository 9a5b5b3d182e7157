--------------------------- MODULE HTTPTransport ----------------------------
(***************************************************************************)
(* HTTPTransport (transport.go): the delivery core of BatchQueue with post *)
(* as its export, and the lifecycle methods Flush and Shutdown.            *)
(*                                                                         *)
(* Every member of FlushCalls and ShutdownCalls is one call, in a          *)
(* goroutine of its own; a program that calls Shutdown twice in a row is   *)
(* the behaviour in which the second call starts after the first returned. *)
(* Bounded holds the calls whose context has a deadline or is cancelled.   *)
(***************************************************************************)
EXTENDS BatchQueue

CONSTANTS
    FlushCalls, ShutdownCalls,  \* calls of Flush and of Shutdown
    Bounded                     \* those with a context that ends

Calls == FlushCalls \union ShutdownCalls

ASSUME CallsAssumption ==
    /\ FlushCalls \intersect ShutdownCalls = {}
    /\ Bounded \subseteq Calls

VARIABLES
    callPC,     \* where each call is
    expired,    \* expired[c]: the context of c is done
    result,     \* what each call returned; FALSE until then
    owed        \* history: the batches accepted before call c began

callVars == << callPC, expired, result, owed >>
vars == << queueVars, callVars >>

Init ==
    /\ BatchInit
    /\ callPC = [c \in Calls |-> "idle"]
    /\ expired = [c \in Calls |-> FALSE]
    /\ result = [c \in Calls |-> FALSE]
    /\ owed = [c \in Calls |-> {}]

-----------------------------------------------------------------------------
(* Flush and Shutdown *)

Goes(c, from, to) ==
    /\ callPC[c] = from
    /\ callPC' = [callPC EXCEPT ![c] = to]

Return(c, from, verdict) ==
    /\ Goes(c, from, "returned")
    /\ result' = [result EXCEPT ![c] = verdict]

\* A call starts; Flush goes straight to its loop, Shutdown to the mutex.
Call(c) ==
    /\ Goes(c, "idle", IF c \in ShutdownCalls THEN "close" ELSE "poll")
    /\ owed' = [owed EXCEPT ![c] = ToSet(acceptLog)]
    /\ UNCHANGED << queueVars, expired, result >>

Close(c) ==
    /\ Goes(c, "close", "poll")
    /\ CloseAcceptance
    /\ UNCHANGED << expired, result, owed >>

\* A fault: Flush looks at the length of the channel instead of pending.
PollQueueLength(c) ==
    /\ queue = << >>
    /\ IF c \in ShutdownCalls THEN Goes(c, "poll", "stop") /\ UNCHANGED result
                              ELSE Return(c, "poll", TRUE)
    /\ UNCHANGED << queueVars, expired, owed >>

\* Flush reads pending as zero: it returns true, to its caller or to Shutdown.
PollDrained(c) ==
    /\ pending = 0
    /\ IF c \in ShutdownCalls THEN Goes(c, "poll", "stop") /\ UNCHANGED result
                              ELSE Return(c, "poll", TRUE)
    /\ UNCHANGED << queueVars, expired, owed >>

PollPending(c) ==
    /\ Goes(c, "poll", "wait")
    /\ pending # 0
    /\ UNCHANGED << queueVars, expired, result, owed >>

Tick(c) ==
    /\ Goes(c, "wait", "poll")
    /\ UNCHANGED << queueVars, expired, result, owed >>

\* A fault: Shutdown stops the worker even though its Flush failed.
GiveUpAndStop(c) ==
    /\ expired[c]
    /\ IF c \in ShutdownCalls THEN Goes(c, "wait", "stop") /\ UNCHANGED result
                              ELSE Return(c, "wait", FALSE)
    /\ UNCHANGED << queueVars, expired, owed >>

\* ctx.Done in the select of Flush; Shutdown returns what Flush returned.
GiveUpFlush(c) ==
    /\ expired[c]
    /\ Return(c, "wait", FALSE)
    /\ UNCHANGED << queueVars, expired, owed >>

Stop(c) ==
    /\ Goes(c, "stop", "await")
    /\ SignalDone
    /\ UNCHANGED << expired, result, owed >>

\* A fault: Shutdown does not wait for the worker.
StoppedUnseen(c) ==
    /\ Return(c, "await", TRUE)
    /\ UNCHANGED << queueVars, expired, owed >>

SeeStopped(c) ==
    /\ Stopped
    /\ Return(c, "await", TRUE)
    /\ UNCHANGED << queueVars, expired, owed >>

GiveUpStop(c) ==
    /\ expired[c]
    /\ Return(c, "await", FALSE)
    /\ UNCHANGED << queueVars, expired, owed >>

\* The deadline of a context passes, or it is cancelled.
Expire(c) ==
    /\ c \in Bounded
    /\ ~expired[c]
    /\ expired' = [expired EXCEPT ![c] = TRUE]
    /\ UNCHANGED << queueVars, callPC, result, owed >>

-----------------------------------------------------------------------------
\* How an attempt ends.  Any HTTP response counts as a delivery, whatever its
\* status; every error and every recovered panic counts as a failure.
PostOutcomes == {"encoding failed", "no response", "panicked", "response"}

Post == \E outcome \in PostOutcomes : ExportEnds(outcome = "response")

Worker == Take \/ Begin \/ Post \/ Clear \/ Settle \/ Exit

Lifecycle(c) ==
    \/ Close(c) \/ PollDrained(c) \/ PollPending(c) \/ Tick(c) \/ GiveUpFlush(c)
    \/ Stop(c) \/ SeeStopped(c) \/ GiveUpStop(c)

\* The program ends when all calls have returned and the worker has stopped or
\* waits for batches that nobody will send.
Idle ==
    /\ \A b \in Sends : sendPC[b] = "returned"
    /\ \A c \in Calls : callPC[c] = "returned"
    /\ worker = "exited" \/ (worker = "select" /\ queue = << >> /\ ~done)
    /\ UNCHANGED vars

Next ==
    \/ \E b \in Sends : (Send(b) \/ Enqueue(b)) /\ UNCHANGED callVars
    \/ Worker /\ UNCHANGED callVars
    \/ \E c \in Calls : Call(c) \/ Lifecycle(c) \/ Expire(c)
    \/ Idle

Spec == Init /\ [][Next]_vars

-----------------------------------------------------------------------------
CallStates == {"idle", "close", "poll", "wait", "stop", "await", "returned"}

CallTypeOK ==
    /\ callPC \in [Calls -> CallStates]
    /\ expired \in [Calls -> BOOLEAN]
    /\ result \in [Calls -> BOOLEAN]
    /\ owed \in [Calls -> SUBSET Sends]

\* Types of all variables.
TypeOK == QueueTypeOK /\ CallTypeOK

\* A Shutdown that has got past its Flush found the transport closed and
\* drained, and both stay so.
StopInv ==
    \A c \in ShutdownCalls :
        /\ callPC[c] \in {"poll", "wait", "stop", "await"} => closed
        /\ callPC[c] \in {"stop", "await"} => pending = 0
        /\ result[c] => Stopped

\* Flush is not past its loop and Shutdown does not skip its first step.
CallPathInv ==
    /\ \A c \in FlushCalls : callPC[c] \notin {"close", "stop", "await"}
    /\ \A c \in Calls : result[c] => callPC[c] = "returned"

\* What a call owes was accepted.
OwedInv == \A c \in Calls : owed[c] \subseteq ToSet(acceptLog)

\* A Flush or Shutdown that returned true has seen every batch accepted before
\* it began through to the end of its export, though Sends go on meanwhile.
TrueCoversOwed ==
    \A c \in Calls : result[c] => owed[c] \subseteq ToSet(attempted)

\* A Shutdown that returned true leaves a transport at rest: closed, stopped
\* and with nothing accepted that was not attempted.
ShutdownQuiesces ==
    \A c \in ShutdownCalls : result[c] =>
        closed /\ Stopped /\ pending = 0 /\ inFlight = 0 /\ acceptLog = attempted

\* What the queue's state means for the calls of Flush and Shutdown.
CallInv == StopInv /\ CallPathInv /\ OwedInv /\ TrueCoversOwed

\* The inductive invariant of the transport: enqueue, run, Flush and Shutdown
\* together keep acceptance, pending and the worker's exit consistent.
IInv == QueueInv /\ CallTypeOK /\ CallInv

\* Once a Shutdown has returned true the transport never works again: no batch
\* is taken, exported or accepted, however many Sends follow.
FinalAfterShutdown ==
    [][(\E c \in ShutdownCalls : result[c]) =>
          UNCHANGED << closed, queue, pending, inFlight, accepted, delivered, failed,
                       acceptLog, attempted >>]_vars

\* HTTPTransport keeps the delivery contract: it accepts only while open, posts
\* every accepted batch once and in order, and stops with nothing left over.
KeepsContract == Promise!Contract
=============================================================================
