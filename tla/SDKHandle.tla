----------------------------- MODULE SDKHandle -----------------------------
(***************************************************************************)
(* The handle that Init returns (restlytics.go): it resolves the           *)
(* configuration (config.go), selects a transport for traces and one for   *)
(* logs (transport.go), and forwards Flush and Shutdown to the transport   *)
(* for traces if that has a lifecycle.  HTTPTransport and managedExporter  *)
(* are the modules of these names, over the same variables; the null, log  *)
(* and preview transports have no lifecycle, and a transport of the        *)
(* application may have one of its own.                                    *)
(***************************************************************************)
EXTENDS BatchQueue

CONSTANTS
    FlushCalls, ShutdownCalls, Bounded, HasFlusher, HasShutdown     \* as in ManagedExporter

VARIABLES
    kind,       \* the transport for traces: "http", "exporter", "custom" or "other"
    logs,       \* where logs go: "traces" for the same transport, "custom" or "nowhere"
    callPC, expired, result, owed, flushHook, closeHook, once, closeOK  \* as in ManagedExporter

choice == << kind, logs >>
hookVars == << flushHook, closeHook, once, closeOK >>
callVars == << callPC, expired, result, owed >>
vars == << choice, queueVars, callVars, hookVars >>

HTTP == INSTANCE HTTPTransport
Managed == INSTANCE ManagedExporter

-----------------------------------------------------------------------------
(* Init *)

\* What the program and the environment may say; "" is a field left empty, a
\* transport of the application may take logs too.
Transports == {"", "http", "null", "log", "preview"}

Configs ==
    [key : {"", "key"}, exporter : BOOLEAN, custom : {"no", "traces", "both"},
     customLogs : BOOLEAN, transport : Transports]

Environments == [key : {"", "key"}, transport : Transports]

\* A value of the program, else of the environment, else the default.
Resolve(value, ofEnvironment, default) ==
    CASE value # "" -> value [] value = "" /\ ofEnvironment # "" -> ofEnvironment [] OTHER -> default

\* The transports that have a queue.
Queued == {"http", "exporter"}

\* transportFromConfig, with the key and the transport resolved.
transportFromConfig(c, transport) ==
    CASE c.exporter -> "exporter"
      [] ~c.exporter /\ c.custom # "no" -> "custom"
      [] OTHER -> IF transport = "http" THEN "http" ELSE "other"

\* The transports of the SDK take logs as well as traces.
TakesLogs(c) == c.custom # "traces"

\* A fault: a transport for logs takes precedence over the exporter.
CustomLogsFirst(c) ==
    CASE c.customLogs -> "custom"
      [] ~c.customLogs /\ (c.exporter \/ TakesLogs(c)) -> "traces"
      [] OTHER -> "nowhere"

logsTransportFromConfig(c) ==
    CASE c.exporter -> "traces"
      [] ~c.exporter /\ c.customLogs -> "custom"
      [] ~c.exporter /\ ~c.customLogs /\ TakesLogs(c) -> "traces"
      [] OTHER -> "nowhere"

Enabled(c, key, transport) ==
    key # "" \/ c.exporter \/ c.custom # "no" \/ c.customLogs \/ transport = "preview"

\* What Init makes of a configuration and an environment.  HTTPTransport is told the
\* key, managedExporter the exporter, without which they drop what they are given.
Handle(c, e) ==
    LET key == Resolve(c.key, e.key, "")
        transport == Resolve(c.transport, e.transport, "http")
    IN  [kind |-> transportFromConfig(c, transport),
         logs |-> logsTransportFromConfig(c),
         enabled |-> Enabled(c, key, transport),
         configured |-> c.exporter \/ key # ""]

Init ==
    \E c \in Configs, e \in Environments :
        LET handle == Handle(c, e)
        IN  /\ kind = handle.kind /\ logs = handle.logs
            /\ Managed!Init
            /\ configured = (handle.configured /\ kind \in Queued)

-----------------------------------------------------------------------------
(* Operations *)

\* Send or SendLogs: logs may go elsewhere, and a transport without a queue is done
\* with its batch at once.
CallSend(b) ==
    /\ \/ kind \in Queued /\ Send(b)
       \/ /\ kind \notin Queued \/ logs # "traces"
          /\ SendGoes(b, "new", "returned")
          /\ UNCHANGED << configured, acceptMu, closed, queue, pending, inFlight, counters,
                          done, worker, batch, acceptLog, attempted >>
    /\ UNCHANGED << choice, callVars, hookVars >>

EnqueueStep(b) == Enqueue(b) /\ UNCHANGED << choice, callVars, hookVars >>

WorkStep == Work /\ UNCHANGED << choice, callVars, hookVars >>

\* Without a lifecycle there is nothing to flush or to stop.  The lifecycle of the
\* application's transport, if it has one, answers as it likes, and a panic of it is
\* recovered to false; that it answers is taken for granted, as the SDK does.
CallUnqueued(c) ==
    /\ kind \notin Queued
    /\ \E ok \in (IF kind = "custom" THEN BOOLEAN ELSE {TRUE}) : HTTP!Return(c, "idle", ok)
    /\ UNCHANGED << choice, queueVars, expired, owed, hookVars >>

\* Flush or Shutdown of the handle calls that of the transport.
Call(c) ==
    \/ CallUnqueued(c)
    \/ kind = "http" /\ HTTP!Call(c) /\ UNCHANGED << choice, hookVars >>
    \/ kind = "exporter" /\ Managed!Call(c) /\ UNCHANGED choice

Lifecycle(c) ==
    \/ kind = "http" /\ HTTP!Lifecycle(c) /\ UNCHANGED << choice, hookVars >>
    \/ kind = "exporter" /\ Managed!Lifecycle(c) /\ UNCHANGED choice

GiveUp(c) ==
    \/ kind = "http" /\ (HTTP!GiveUpFlush(c) \/ HTTP!GiveUpStop(c)) /\ UNCHANGED << choice, hookVars >>
    \/ kind = "exporter" /\ Managed!GiveUp(c) /\ UNCHANGED choice

Expire(c) == kind \in Queued /\ HTTP!Expire(c) /\ UNCHANGED << choice, hookVars >>

Hooks(c) == kind = "exporter" /\ Managed!Hooks(c) /\ UNCHANGED choice

Idle ==
    /\ \A b \in Sends : sendPC[b] = "returned"
    /\ \A c \in HTTP!Calls : callPC[c] = "returned" /\ "running" \notin {flushHook[c], closeHook[c]}
    /\ worker = "exited" \/ (worker = "select" /\ queue = << >> /\ ~done)
    /\ UNCHANGED vars

Next ==
    \/ \E b \in Sends : CallSend(b) \/ EnqueueStep(b)
    \/ WorkStep
    \/ \E c \in HTTP!Calls : Call(c) \/ Lifecycle(c) \/ Expire(c) \/ Hooks(c)
    \/ Idle

Spec == Init /\ [][Next]_vars

(***************************************************************************)
(* The goroutines of the SDK are scheduled.  A call that keeps polling     *)
(* meets ctx.Done among the ready cases of its select again and again, at  *)
(* most once every 5 ms with both ready, and select chooses among ready    *)
(* cases at random: hence the strong fairness of GiveUp.  The export and   *)
(* the hooks of an exporter may hang, for it is asked to honour its        *)
(* context, not obliged to; that they end, and that post does, which its   *)
(* client and its context limit, is CallbacksEnd.  Nothing makes the       *)
(* application call Send, Flush or Shutdown.                               *)
(***************************************************************************)
CallersFair ==
    /\ \A b \in Sends : WF_vars(EnqueueStep(b))
    /\ \A c \in HTTP!Calls : WF_vars(Lifecycle(c)) /\ SF_vars(GiveUp(c)) /\ WF_vars(Expire(c))

LiveSpec == Spec /\ CallersFair

WorkerFair == WF_vars(WorkStep)

CallbacksEnd == WorkerFair /\ \A c \in HTTP!Calls : WF_vars(Hooks(c))

-----------------------------------------------------------------------------
\* What may have been given, with the handle it makes.
Givens ==
    {[exporter |-> c.exporter, custom |-> c.custom, customLogs |-> c.customLogs,
      handle |-> Handle(c, e)] : c \in Configs, e \in Environments}

\* Whatever configuration it was: an exporter gets both signals whatever else is
\* given, a transport for logs gets the logs if there is no exporter (Config,
\* config.go), and an SDK that says it is enabled does not drop all its traces for
\* want of a key, unless it was given nothing but a transport for logs.
DestinationsAgree ==
    \A given \in Givens :
        given.handle.kind = kind /\ given.handle.logs = logs =>
            /\ given.exporter => kind = "exporter" /\ logs = "traces" /\ configured
            /\ given.customLogs /\ ~given.exporter => logs = "custom"
            /\ given.handle.enabled /\ ~given.handle.configured =>
                  kind \notin Queued \/ (given.customLogs /\ given.custom = "no" /\ ~given.exporter)

\* Why that is so: what Init made of a configuration and an environment stays.
ChoiceInv ==
    \E c \in Configs, e \in Environments :
        /\ kind = Handle(c, e).kind /\ logs = Handle(c, e).logs
        /\ configured = (Handle(c, e).configured /\ kind \in Queued)

\* A Send returns whatever the worker, the network and the callbacks of the exporter
\* do (enqueue of both transports).
SendReturns == \A b \in Sends : sendPC[b] = "lock" ~> sendPC[b] = "returned"

\* A Flush or Shutdown whose context ends returns even if post, an export or a hook
\* hangs; what keeps one from it is a Shutdown without a deadline whose hook hangs
\* inside closeOnce.Do, and nothing else (Flush, Shutdown, shutdownExporter).
BoundedReturns ==
    \A c \in Bounded :
        callPC[c] # "idle" ~>
            \/ callPC[c] = "returned"
            \/ callPC[c] = "once" /\ \E d \in ShutdownCalls \ Bounded : closeHook[d] = "running"

\* If post and the callbacks end, every Flush and Shutdown returns, and one without
\* a deadline returns true unless a hook failed or a deadline cut the shutdown hook
\* short, even after another Shutdown gave up; unless the answer is that of the
\* application's own transport.
PatientSucceeds ==
    CallbacksEnd =>
        \A c \in HTTP!Calls :
            callPC[c] # "idle" ~>
                /\ callPC[c] = "returned"
                /\ c \in Bounded \/ result[c] \/ flushHook[c] = "err" \/ ~closeOK \/ kind = "custom"

\* If post and the export end, each accepted batch is attempted.
EachAttempted == WorkerFair => Promise!AttemptsFair
=============================================================================
