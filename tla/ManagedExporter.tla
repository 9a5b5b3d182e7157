-------------------------- MODULE ManagedExporter ---------------------------
(***************************************************************************)
(* managedExporter (transport.go): the delivery core of BatchQueue with a  *)
(* customer's Exporter as its export, the lifecycle methods Flush and      *)
(* Shutdown, and the customer's two optional hooks.                        *)
(*                                                                         *)
(* A hook runs in a goroutine of its own, which callExporterHook starts    *)
(* and may stop waiting for: it outlives the call that started it and has  *)
(* no fairness.  As in HTTPTransport a member of FlushCalls or of          *)
(* ShutdownCalls is one call.                                              *)
(***************************************************************************)
EXTENDS BatchQueue

CONSTANTS
    FlushCalls, ShutdownCalls,
    Bounded,                    \* the calls whose context ends
    HasFlusher, HasShutdown     \* the exporter implements the optional interfaces

Calls == FlushCalls \union ShutdownCalls

ASSUME CallsAssumption ==
    /\ FlushCalls \intersect ShutdownCalls = {}
    /\ Bounded \subseteq Calls

ASSUME HooksAssumption == HasFlusher \in BOOLEAN /\ HasShutdown \in BOOLEAN

VARIABLES
    callPC,     \* where each call is
    expired,    \* expired[c]: the context of c is done
    result,     \* what each call returned; FALSE until then
    owed,       \* history: the batches accepted before call c began
    flushHook,  \* the goroutine of the flush hook that call c started
    closeHook,  \* the goroutine of the shutdown hook that call c started
    once,       \* closeOnce: "new", "running" or "done"; "done": closeDone is closed
    closeOK     \* t.closeOK

callVars == << callPC, expired, result, owed, flushHook, closeHook, once, closeOK >>
vars == << queueVars, callVars >>

Init ==
    /\ BatchInit
    /\ callPC = [c \in Calls |-> "idle"]
    /\ expired = [c \in Calls |-> FALSE]
    /\ result = [c \in Calls |-> FALSE]
    /\ owed = [c \in Calls |-> {}]
    /\ flushHook = [c \in Calls |-> "none"]
    /\ closeHook = [c \in Calls |-> "none"]
    /\ once = "new"
    /\ closeOK = TRUE

-----------------------------------------------------------------------------
(* Flush and Shutdown *)

Goes(c, from, to) ==
    /\ callPC[c] = from
    /\ callPC' = [callPC EXCEPT ![c] = to]

Return(c, from, verdict) ==
    /\ Goes(c, from, "returned")
    /\ result' = [result EXCEPT ![c] = verdict]

\* Flush reports success: to its caller, or to Shutdown, which goes on.
FlushSucceeds(c, from) ==
    IF c \in ShutdownCalls THEN Goes(c, from, "stop") /\ UNCHANGED result
                           ELSE Return(c, from, TRUE)

\* A call starts.  Shutdown looks first whether the worker has gone already.
Call(c) ==
    /\ Goes(c, "idle", IF c \in FlushCalls THEN "poll"
                       ELSE IF Stopped THEN "once" ELSE "close")
    /\ owed' = [owed EXCEPT ![c] = ToSet(acceptLog)]
    /\ UNCHANGED << queueVars, expired, result, flushHook, closeHook, once, closeOK >>

Close(c) ==
    /\ Goes(c, "close", "poll")
    /\ CloseAcceptance
    /\ UNCHANGED << expired, result, owed, flushHook, closeHook, once, closeOK >>

\* A fault: the length of the channel is taken for the pending work.
PollQueueLength(c) ==
    /\ queue = << >>
    /\ IF HasFlusher /\ configured
       THEN /\ Goes(c, "poll", "flushing")
            /\ flushHook' = [flushHook EXCEPT ![c] = "running"]
            /\ UNCHANGED result
       ELSE FlushSucceeds(c, "poll") /\ UNCHANGED flushHook
    /\ UNCHANGED << queueVars, expired, owed, closeHook, once, closeOK >>

\* waitForPending returns true: the flush hook is started if there is one.
PollDrained(c) ==
    /\ pending = 0
    /\ IF HasFlusher /\ configured
       THEN /\ Goes(c, "poll", "flushing")
            /\ flushHook' = [flushHook EXCEPT ![c] = "running"]
            /\ UNCHANGED result
       ELSE FlushSucceeds(c, "poll") /\ UNCHANGED flushHook
    /\ UNCHANGED << queueVars, expired, owed, closeHook, once, closeOK >>

PollPending(c) ==
    /\ Goes(c, "poll", "wait")
    /\ pending # 0
    /\ UNCHANGED << queueVars, expired, result, owed, flushHook, closeHook, once, closeOK >>

Tick(c) ==
    /\ Goes(c, "wait", "poll")
    /\ UNCHANGED << queueVars, expired, result, owed, flushHook, closeHook, once, closeOK >>

\* The result of the flush hook arrives.
SeeFlushed(c) ==
    /\ flushHook[c] \in {"ok", "err"}
    /\ IF flushHook[c] = "ok" THEN FlushSucceeds(c, "flushing")
                              ELSE Return(c, "flushing", FALSE)
    /\ UNCHANGED << queueVars, expired, owed, flushHook, closeHook, once, closeOK >>

\* A fault: the wait for the flush hook does not look at the context.
GiveUpExceptHook(c) ==
    /\ expired[c]
    /\ \E at \in {"wait", "await"} : Return(c, at, FALSE)
    /\ UNCHANGED << queueVars, expired, owed, flushHook, closeHook, once, closeOK >>

\* A fault: running out of time while the worker stops reads as success.
GiveUpTrue(c) ==
    /\ expired[c]
    /\ \/ \E at \in {"wait", "flushing"} : Return(c, at, FALSE)
       \/ Return(c, "await", TRUE)
    /\ UNCHANGED << queueVars, expired, owed, flushHook, closeHook, once, closeOK >>

\* ctx.Done while waiting for pending work, for the flush hook or for the worker.
GiveUp(c) ==
    /\ expired[c]
    /\ \E at \in {"wait", "flushing", "await"} : Return(c, at, FALSE)
    /\ UNCHANGED << queueVars, expired, owed, flushHook, closeHook, once, closeOK >>

Stop(c) ==
    /\ Goes(c, "stop", "await")
    /\ SignalDone
    /\ UNCHANGED << expired, result, owed, flushHook, closeHook, once, closeOK >>

SeeStopped(c) ==
    /\ Stopped
    /\ Goes(c, "await", "once")
    /\ UNCHANGED << queueVars, expired, result, owed, flushHook, closeHook, once, closeOK >>

-----------------------------------------------------------------------------
(* shutdownExporter *)

NoShutdownHook(c) ==
    /\ ~(HasShutdown /\ configured)
    /\ Return(c, "once", TRUE)
    /\ UNCHANGED << queueVars, expired, owed, flushHook, closeHook, once, closeOK >>

\* A fault: no closeOnce around the hook.
EnterAgain(c) ==
    /\ HasShutdown /\ configured
    /\ Goes(c, "once", "closing")
    /\ once' = "running"
    /\ closeHook' = [closeHook EXCEPT ![c] = "running"]
    /\ UNCHANGED << queueVars, expired, result, owed, flushHook, closeOK >>

\* The first caller of closeOnce.Do starts the hook; the others wait inside Do
\* until it is through, whatever their own context says.
EnterOnce(c) ==
    /\ HasShutdown /\ configured
    /\ once = "new"
    /\ Goes(c, "once", "closing")
    /\ once' = "running"
    /\ closeHook' = [closeHook EXCEPT ![c] = "running"]
    /\ UNCHANGED << queueVars, expired, result, owed, flushHook, closeOK >>

\* A fault: closeOK keeps its initial true.
LeaveUnrecorded(c) ==
    /\ Goes(c, "closing", "verdict")
    /\ closeHook[c] \in {"ok", "err"} \/ expired[c]
    /\ once' = "done"
    /\ UNCHANGED << queueVars, expired, result, owed, flushHook, closeHook, closeOK >>

\* The hook's result, or the end of the first caller's context, becomes the
\* verdict of every Shutdown.
LeaveOnce(c) ==
    /\ Goes(c, "closing", "verdict")
    /\ \/ closeHook[c] \in {"ok", "err"} /\ closeOK' = (closeHook[c] = "ok")
       \/ expired[c] /\ closeOK' = FALSE
    /\ once' = "done"
    /\ UNCHANGED << queueVars, expired, result, owed, flushHook, closeHook >>

SkipOnce(c) ==
    /\ HasShutdown /\ configured
    /\ once = "done"
    /\ Goes(c, "once", "verdict")
    /\ UNCHANGED << queueVars, expired, result, owed, flushHook, closeHook, once, closeOK >>

\* A fault: only the caller that ran the hook learns its result.
VerdictOfRunner(c) ==
    /\ Return(c, "verdict", closeOK /\ closeHook[c] # "none")
    /\ UNCHANGED << queueVars, expired, owed, flushHook, closeHook, once, closeOK >>

\* closeDone is closed: it is ready, and so is ctx.Done once the context ended.
Verdict(c) ==
    /\ \/ Return(c, "verdict", closeOK)
       \/ expired[c] /\ Return(c, "verdict", FALSE)
    /\ UNCHANGED << queueVars, expired, owed, flushHook, closeHook, once, closeOK >>

-----------------------------------------------------------------------------
(* The customer's side and the clock *)

Expire(c) ==
    /\ c \in Bounded
    /\ ~expired[c]
    /\ expired' = [expired EXCEPT ![c] = TRUE]
    /\ UNCHANGED << queueVars, callPC, result, owed, flushHook, closeHook, once, closeOK >>

\* A hook returns nil, or an error or a panic.
FlushHookEnds(c) ==
    /\ flushHook[c] = "running"
    /\ \E r \in {"ok", "err"} : flushHook' = [flushHook EXCEPT ![c] = r]
    /\ UNCHANGED << queueVars, callPC, expired, result, owed, closeHook, once, closeOK >>

CloseHookEnds(c) ==
    /\ closeHook[c] = "running"
    /\ \E r \in {"ok", "err"} : closeHook' = [closeHook EXCEPT ![c] = r]
    /\ UNCHANGED << queueVars, callPC, expired, result, owed, flushHook, once, closeOK >>

Lifecycle(c) ==
    \/ Close(c) \/ PollDrained(c) \/ PollPending(c) \/ Tick(c) \/ SeeFlushed(c)
    \/ GiveUp(c) \/ Stop(c) \/ SeeStopped(c)
    \/ NoShutdownHook(c) \/ EnterOnce(c) \/ LeaveOnce(c) \/ SkipOnce(c) \/ Verdict(c)

Hooks(c) == FlushHookEnds(c) \/ CloseHookEnds(c)

\* All calls have returned, the hooks too, and the worker is out of work.
Idle ==
    /\ \A b \in Sends : sendPC[b] = "returned"
    /\ \A c \in Calls : callPC[c] = "returned" /\ "running" \notin {flushHook[c], closeHook[c]}
    /\ worker = "exited" \/ (worker = "select" /\ queue = << >> /\ ~done)
    /\ UNCHANGED vars

Next ==
    \/ QueueStep /\ UNCHANGED callVars
    \/ \E c \in Calls : Call(c) \/ Lifecycle(c) \/ Expire(c) \/ Hooks(c)
    \/ Idle

Spec == Init /\ [][Next]_vars

-----------------------------------------------------------------------------
CallStates == {"idle", "close", "poll", "wait", "flushing", "stop", "await", "once",
               "closing", "verdict", "returned"}
HookStates == {"none", "running", "ok", "err"}

CallTypeOK ==
    /\ callPC \in [Calls -> CallStates]
    /\ expired \in [Calls -> BOOLEAN]
    /\ result \in [Calls -> BOOLEAN]
    /\ owed \in [Calls -> SUBSET Sends]
    /\ flushHook \in [Calls -> HookStates]
    /\ closeHook \in [Calls -> HookStates]
    /\ once \in {"new", "running", "done"}
    /\ closeOK \in BOOLEAN

\* A Shutdown past its first steps found the transport closed, drained, stopped.
StopInv ==
    \A c \in ShutdownCalls :
        /\ callPC[c] \in {"poll", "wait", "flushing", "stop", "await"} => closed
        /\ callPC[c] \in {"flushing", "stop", "await"} => pending = 0
        /\ callPC[c] \in {"once", "closing", "verdict"} \/ result[c] => Stopped

CallPathInv ==
    /\ \A c \in FlushCalls :
          callPC[c] \notin {"close", "stop", "await", "once", "closing", "verdict"}
    /\ \A c \in Calls :
          /\ result[c] => callPC[c] = "returned"
          /\ callPC[c] = "idle" => flushHook[c] = "none"

OwedInv == \A c \in Calls : owed[c] \subseteq ToSet(acceptLog)

\* closeOnce: one call at most has started the shutdown hook, a Shutdown; while
\* it waits for the hook the Once is running, and the others wait for it.
OnceInv ==
    /\ \A c \in Calls : closeHook[c] # "none" => once # "new" /\ c \in ShutdownCalls /\ Stopped
    /\ \A c, d \in Calls : closeHook[c] # "none" /\ closeHook[d] # "none" => c = d
    /\ \A c \in Calls : callPC[c] = "closing" => once = "running" /\ closeHook[c] # "none"
    /\ \A c \in Calls : callPC[c] = "verdict" => once = "done"
    /\ once = "done" /\ closeOK => \E c \in Calls : closeHook[c] = "ok"

\* What was told to the callers: a Flush says true only if the hook it started
\* returned nil; with a shutdown hook every true Shutdown read the verdict the
\* Once left, and a false one had a reason of its own or read the same verdict.
VerdictInv ==
    /\ \A c \in FlushCalls : result[c] /\ HasFlusher /\ configured => flushHook[c] = "ok"
    /\ once # "new" => HasShutdown /\ configured
    /\ \A c \in ShutdownCalls :
          result[c] /\ HasShutdown /\ configured => once = "done" /\ closeOK
    /\ \A c \in ShutdownCalls :
          callPC[c] = "returned" /\ ~result[c] =>
              expired[c] \/ flushHook[c] = "err" \/ (once = "done" /\ ~closeOK)

\* A Flush or Shutdown that returned true has seen every batch accepted before
\* it began through to the end of its export, though Sends go on meanwhile.
TrueCoversOwed ==
    \A c \in Calls : result[c] => owed[c] \subseteq ToSet(attempted)

\* The flush hook starts only after the work accepted before the call is done.
FlushHookAfterDrain ==
    \A c \in Calls : flushHook[c] # "none" => owed[c] \subseteq ToSet(attempted)

\* The shutdown hook is started once in the life of the exporter and only when
\* the queue is closed and drained and the worker gone, whichever of several
\* concurrent or repeated Shutdowns gets there first.
ShutdownHookContract ==
    \A c \in Calls : closeHook[c] # "none" =>
        /\ closed /\ Stopped /\ queue = << >> /\ pending = 0 /\ acceptLog = attempted
        /\ \A d \in Calls : closeHook[d] # "none" => d = c

\* True is never returned over a hook's failure: Flush says true only if the
\* hook it started returned nil, and Shutdown only if the one shutdown hook did.
TrueMeansHooksSucceeded ==
    /\ \A c \in FlushCalls : result[c] /\ HasFlusher /\ configured => flushHook[c] = "ok"
    /\ \A c \in ShutdownCalls : result[c] /\ HasShutdown /\ configured =>
          \E d \in ShutdownCalls : closeHook[d] = "ok"

\* Concurrent and repeated Shutdowns agree: after one has said true another
\* says false only because its own context ended or its own flush hook failed.
VerdictsAgree ==
    \A c, d \in ShutdownCalls :
        result[c] /\ callPC[d] = "returned" /\ ~result[d] =>
            expired[d] \/ flushHook[d] = "err"

\* A Shutdown that returned true leaves a transport that never works again.
FinalAfterShutdown ==
    [][(\E c \in ShutdownCalls : result[c]) =>
          Stopped /\ UNCHANGED << closed, queue, pending, inFlight, accepted, delivered,
                                  failed, acceptLog, attempted >>]_vars

\* What the queue's state and the hooks' mean for the calls.
CallInv ==
    /\ StopInv /\ CallPathInv /\ OwedInv /\ OnceInv /\ VerdictInv
    /\ TrueCoversOwed /\ FlushHookAfterDrain

\* The inductive invariant: enqueue, run, Flush, Shutdown and shutdownExporter
\* together keep acceptance, pending, the worker's exit and closeOnce consistent.
IInv == QueueInv /\ CallTypeOK /\ CallInv

\* managedExporter keeps the delivery contract.
KeepsContract == Promise!Contract
=============================================================================
