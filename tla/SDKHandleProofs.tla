--------------------------- MODULE SDKHandleProofs --------------------------
(***************************************************************************)
(* For every configuration and environment, and any number of Sends and    *)
(* calls: where the signals of a handle go, and that a handle which has    *)
(* selected a transport with a lifecycle behaves as that transport, so     *)
(* that what holds of HTTPTransport and ManagedExporter holds of it.       *)
(***************************************************************************)
EXTENDS SDKHandle, TLAPS

\* What Init selected, and whether it can deliver, stays as it is.
LEMMA ChoiceStays ==
    ASSUME [Next]_vars
    PROVE  UNCHANGED << kind, logs, configured >>
<1>1. CASE \E b \in Sends : CallSend(b) \/ EnqueueStep(b)
  BY <1>1 DEF CallSend, EnqueueStep, choice, Send, Enqueue, Refuse, Admit, Pend, Offer, CountAccepted,
              Overflow, CountDropped
<1>2. CASE WorkStep
  BY <1>2 DEF WorkStep, choice, Work, Take, Begin, ExportEnds, Clear, Settle, Exit
<1>3. ASSUME NEW c \in HTTP!Calls, Call(c) \/ Expire(c) \/ Hooks(c)
      PROVE  UNCHANGED << kind, logs, configured >>
  BY <1>3 DEF Call, CallUnqueued, Expire, Hooks, choice, queueVars, HTTP!Call, HTTP!Expire, HTTP!queueVars,
              Managed!Call, Managed!queueVars, Managed!Hooks, Managed!FlushHookEnds, Managed!CloseHookEnds
<1>4. ASSUME NEW c \in HTTP!Calls, Lifecycle(c)
      PROVE  UNCHANGED << kind, logs, configured >>
  <2>1. CASE kind = "http" /\ HTTP!Lifecycle(c) /\ UNCHANGED << choice, hookVars >>
    BY <2>1 DEF choice, HTTP!Lifecycle, HTTP!Close, HTTP!CloseAcceptance, HTTP!PollDrained,
                HTTP!PollPending, HTTP!Tick, HTTP!GiveUpFlush, HTTP!Stop, HTTP!SignalDone,
                HTTP!SeeStopped, HTTP!GiveUpStop, HTTP!queueVars
  <2>2. CASE kind = "exporter" /\ Managed!Lifecycle(c) /\ UNCHANGED choice
    BY <2>2 DEF choice, Managed!Lifecycle, Managed!Close, Managed!CloseAcceptance, Managed!PollDrained,
                Managed!PollPending, Managed!Tick, Managed!SeeFlushed, Managed!GiveUp, Managed!Stop,
                Managed!SignalDone, Managed!SeeStopped, Managed!NoShutdownHook, Managed!EnterOnce,
                Managed!LeaveOnce, Managed!SkipOnce, Managed!Verdict, Managed!queueVars
  <2> QED
    BY <1>4, <2>1, <2>2 DEF Lifecycle
<1>5. CASE Idle \/ UNCHANGED vars
  BY <1>5 DEF Idle, vars, choice, queueVars
<1> QED
  BY <1>1, <1>2, <1>3, <1>4, <1>5 DEF Next

\* What is known of the choice stays true.
THEOREM Invariance == Spec => []ChoiceInv
<1>1. Init => ChoiceInv
  BY DEF Init, ChoiceInv
<1>2. ChoiceInv /\ [Next]_vars => ChoiceInv'
  BY ChoiceStays DEF ChoiceInv
<1> QED
  BY <1>1, <1>2, PTL DEF Spec

\* An exporter is selected if and only if there is one, and then takes the logs too.
LEMMA ExporterTakesAll ==
    ASSUME NEW c \in Configs, NEW e \in Environments
    PROVE  /\ Handle(c, e).kind = "exporter" <=> c.exporter
           /\ c.exporter => Handle(c, e).logs = "traces" /\ Handle(c, e).configured
BY DEF Handle, transportFromConfig, logsTransportFromConfig, Configs

\* Both signals go where the configuration says, and an SDK that says it is enabled
\* does not drop all its traces for want of a key (transportFromConfig,
\* logsTransportFromConfig, Config).
THEOREM Destinations == Spec => []DestinationsAgree
<1>1. ASSUME ChoiceInv PROVE DestinationsAgree
  <2> SUFFICES ASSUME NEW given \in Givens, given.handle.kind = kind, given.handle.logs = logs
               PROVE  /\ given.exporter => kind = "exporter" /\ logs = "traces" /\ configured
                      /\ given.customLogs /\ ~given.exporter => logs = "custom"
                      /\ given.handle.enabled /\ ~given.handle.configured =>
                            kind \notin Queued \/ (given.customLogs /\ given.custom = "no" /\ ~given.exporter)
    BY DEF DestinationsAgree
  <2>1. PICK c \in Configs, e \in Environments :
            given = [exporter |-> c.exporter, custom |-> c.custom, customLogs |-> c.customLogs,
                     handle |-> Handle(c, e)]
    BY DEF Givens
  <2>2. /\ given.exporter = c.exporter /\ given.custom = c.custom
        /\ given.customLogs = c.customLogs /\ given.handle = Handle(c, e)
    BY <2>1
  <2>3. ASSUME c.exporter PROVE kind = "exporter" /\ logs = "traces" /\ configured
    <3>1. kind = "exporter" /\ logs = "traces"
      BY <2>2, <2>3, ExporterTakesAll
    <3>2. PICK c0 \in Configs, e0 \in Environments :
              /\ kind = Handle(c0, e0).kind
              /\ configured = (Handle(c0, e0).configured /\ kind \in Queued)
      BY <1>1 DEF ChoiceInv
    <3>3. Handle(c0, e0).configured
      BY <3>1, <3>2, ExporterTakesAll
    <3> QED
      BY <3>1, <3>2, <3>3 DEF Queued
  <2>4. ASSUME c.customLogs, ~c.exporter PROVE logs = "custom"
    <3>1. logsTransportFromConfig(c) = "custom"
      BY <2>4 DEF logsTransportFromConfig, Configs
    <3>2. Handle(c, e).logs = logsTransportFromConfig(c)
      BY DEF Handle
    <3> QED
      BY <2>2, <3>1, <3>2
  <2>5. ASSUME Handle(c, e).enabled, ~Handle(c, e).configured
        PROVE  kind \notin Queued \/ (c.customLogs /\ c.custom = "no" /\ ~c.exporter)
    <3> DEFINE key == Resolve(c.key, e.key, "")
               transport == Resolve(c.transport, e.transport, "http")
    <3>1. /\ kind = transportFromConfig(c, transport)
          /\ Enabled(c, key, transport) /\ ~c.exporter /\ key = ""
      <4>1. /\ Handle(c, e).kind = transportFromConfig(c, transport)
            /\ Handle(c, e).enabled = Enabled(c, key, transport)
            /\ Handle(c, e).configured = (c.exporter \/ key # "")
        BY DEF Handle
      <4> HIDE DEF key, transport
      <4> QED
        BY <2>2, <2>5, <4>1
    <3> HIDE DEF key, transport
    <3>2. CASE c.custom # "no"
      BY <3>1, <3>2 DEF transportFromConfig, Queued
    <3>3. CASE c.custom = "no" /\ transport = "preview"
      BY <3>1, <3>3 DEF transportFromConfig, Queued
    <3>4. CASE c.custom = "no" /\ c.customLogs
      BY <3>1, <3>4
    <3> QED
      BY <3>1, <3>2, <3>3, <3>4 DEF Enabled
  <2> QED
    BY <2>2, <2>3, <2>4, <2>5
<1> QED
  BY Invariance, <1>1, PTL

-----------------------------------------------------------------------------
(* The handle and its transport *)

\* The queue of the handle is that of managedExporter, step by step.
LEMMA QueueOfExporter ==
    ASSUME QueueStep
    PROVE  Managed!QueueStep
<1>1. ASSUME NEW b \in Sends, Send(b) \/ Enqueue(b) PROVE Managed!Send(b) \/ Managed!Enqueue(b)
  BY <1>1 DEF Send, Enqueue, Refuse, Admit, Pend, Offer, CountAccepted, Overflow, CountDropped,
       SendGoes, counters,
       Managed!Send, Managed!Enqueue, Managed!Refuse, Managed!Admit, Managed!Pend, Managed!Offer,
       Managed!CountAccepted, Managed!Overflow, Managed!CountDropped, Managed!SendGoes, Managed!counters
<1>2. ASSUME Work PROVE Managed!Work
  BY <1>2 DEF Work, Take, Begin, ExportEnds, Clear, Settle, Exit, WorkerGoes, counters,
       Managed!Work, Managed!Take, Managed!Begin, Managed!ExportEnds, Managed!Clear, Managed!Settle,
       Managed!Exit, Managed!WorkerGoes, Managed!counters
<1> QED
  BY <1>1, <1>2 DEF QueueStep, Managed!QueueStep

\* A handle with an exporter is a managedExporter: what Init selected forwards every
\* batch of either signal, every Flush and every Shutdown to it, and does nothing of
\* its own (Init, Flush, Shutdown, restlytics.go).
THEOREM ForwardsToExporter == Spec /\ kind = "exporter" => Managed!Spec
<1>1. Init => Managed!Init
  BY DEF Init
<1>2. kind = "exporter" /\ [Next]_vars => (kind = "exporter")'
  BY ChoiceStays
<1>3. ASSUME ChoiceInv, kind = "exporter", [Next]_vars
      PROVE  [Managed!Next]_(Managed!vars)
  <2>1. logs = "traces"
    BY <1>3, ExporterTakesAll DEF ChoiceInv
  <2>2. ASSUME QueueStep, UNCHANGED << callVars, hookVars >> PROVE Managed!Next
    BY <2>2, QueueOfExporter DEF Managed!Next, Managed!callVars, callVars, hookVars
  <2>3. CASE \E b \in Sends : CallSend(b) \/ EnqueueStep(b)
    BY <1>3, <2>1, <2>2, <2>3 DEF CallSend, Queued, EnqueueStep, QueueStep
  <2>4. CASE WorkStep
    BY <2>2, <2>4 DEF WorkStep, QueueStep
  <2>5. ASSUME NEW c \in HTTP!Calls, Call(c) \/ Lifecycle(c) \/ Expire(c) \/ Hooks(c)
        PROVE  Managed!Next
    <3>1. c \in Managed!Calls
      BY DEF HTTP!Calls, Managed!Calls
    <3>2. Expire(c) => Managed!Expire(c)
      BY DEF Expire, HTTP!Expire, Managed!Expire, HTTP!queueVars, Managed!queueVars, hookVars
    <3>3. Managed!Call(c) \/ Managed!Lifecycle(c) \/ Managed!Expire(c) \/ Managed!Hooks(c)
      BY <1>3, <2>5, <3>2 DEF Call, CallUnqueued, Queued, Lifecycle, Hooks
    <3> QED
      BY <3>1, <3>3 DEF Managed!Next
  <2>6. CASE Idle \/ UNCHANGED vars
    BY <2>6 DEF Idle, vars, queueVars, callVars, hookVars, Managed!vars, Managed!queueVars, Managed!callVars
  <2> QED
    BY <1>3, <2>3, <2>4, <2>5, <2>6 DEF Next
<1> QED
  BY <1>1, <1>2, <1>3, Invariance, PTL DEF Spec, Managed!Spec

\* The queue of the handle is that of HTTPTransport, step by step: an attempt that
\* succeeds is one with a response.
LEMMA QueueOfHTTPTransport ==
    ASSUME QueueStep
    PROVE  (\E b \in Sends : HTTP!Send(b) \/ HTTP!Enqueue(b)) \/ HTTP!Worker
<1>1. ASSUME NEW b \in Sends, Send(b) \/ Enqueue(b) PROVE HTTP!Send(b) \/ HTTP!Enqueue(b)
  BY <1>1 DEF Send, Enqueue, Refuse, Admit, Pend, Offer, CountAccepted, Overflow, CountDropped,
       SendGoes, counters,
       HTTP!Send, HTTP!Enqueue, HTTP!Refuse, HTTP!Admit, HTTP!Pend, HTTP!Offer,
       HTTP!CountAccepted, HTTP!Overflow, HTTP!CountDropped, HTTP!SendGoes, HTTP!counters
<1>2. ASSUME NEW ok \in BOOLEAN, ExportEnds(ok) PROVE HTTP!Post
  <2>1. HTTP!ExportEnds(ok)
    BY <1>2 DEF ExportEnds, HTTP!ExportEnds, WorkerGoes, HTTP!WorkerGoes, counters, HTTP!counters
  <2>2. ok = ("response" = "response") \/ ok = ("no response" = "response")
    OBVIOUS
  <2> QED
    BY <2>1, <2>2 DEF HTTP!Post, HTTP!PostOutcomes
<1>3. ASSUME Take \/ Begin \/ Clear \/ Settle \/ Exit PROVE HTTP!Worker
  BY <1>3 DEF Take, Begin, Clear, Settle, Exit, WorkerGoes, counters, HTTP!Worker, HTTP!Take, HTTP!Begin,
       HTTP!Clear, HTTP!Settle, HTTP!Exit, HTTP!WorkerGoes, HTTP!counters
<1> QED
  BY <1>1, <1>2, <1>3 DEF QueueStep, Work, HTTP!Worker

\* A handle that posts to the collector, and sends logs the same way, is an
\* HTTPTransport (Init, Flush, Shutdown, restlytics.go).
THEOREM ForwardsToHTTPTransport == Spec /\ kind = "http" /\ logs = "traces" => HTTP!Spec
<1>1. Init => HTTP!Init
  BY DEF Init, Managed!Init, HTTP!Init, Managed!BatchInit, HTTP!BatchInit, Managed!Calls, HTTP!Calls
<1>2. kind = "http" /\ logs = "traces" /\ [Next]_vars => (kind = "http" /\ logs = "traces")'
  BY ChoiceStays
<1>3. ASSUME kind = "http", logs = "traces", [Next]_vars
      PROVE  [HTTP!Next]_(HTTP!vars)
  <2>1. ASSUME QueueStep, UNCHANGED callVars PROVE HTTP!Next
    BY <2>1, QueueOfHTTPTransport DEF HTTP!Next, HTTP!callVars, callVars
  <2>2. CASE \E b \in Sends : CallSend(b) \/ EnqueueStep(b)
    BY <1>3, <2>1, <2>2 DEF CallSend, Queued, EnqueueStep, QueueStep
  <2>3. CASE WorkStep
    BY <2>1, <2>3 DEF WorkStep, QueueStep
  <2>4. ASSUME NEW c \in HTTP!Calls, Call(c) \/ Lifecycle(c) \/ Expire(c) \/ Hooks(c)
        PROVE  HTTP!Next
    BY <1>3, <2>4 DEF Call, CallUnqueued, Queued, Lifecycle, Expire, Hooks, HTTP!Next
  <2>5. CASE Idle \/ UNCHANGED vars
    BY <2>5 DEF Idle, vars, queueVars, callVars, HTTP!vars, HTTP!queueVars, HTTP!callVars
  <2> QED
    BY <1>3, <2>2, <2>3, <2>4, <2>5 DEF Next
<1> QED
  BY <1>1, <1>2, <1>3, PTL DEF Spec, HTTP!Spec
=============================================================================
