------------------------ MODULE ManagedExporterProofs -----------------------
(***************************************************************************)
(* For every number of Sends, Flushes and Shutdowns, any capacity, and an  *)
(* exporter with or without its optional hooks: ManagedExporter keeps      *)
(* IInv, and what the hooks and the callers may rely on follows from it.   *)
(***************************************************************************)
EXTENDS ManagedExporter, BatchQueueProofs

\* A Shutdown with the worker gone finds everything accepted attempted.
LEMMA StoppedMeansAttempted ==
    ASSUME QueueInv, Stopped
    PROVE  closed /\ queue = << >> /\ pending = 0 /\ acceptMu = Nobody /\ acceptLog = attempted
<1>1. acceptLog = attempted /\ queue = << >> /\ acceptMu = Nobody
  BY QueueInvNoLostBatch DEF NoLostBatch
<1>2. closed /\ pending = 0
  BY DEF QueueInv, ExitInv, DoneInv
<1> QED
  BY <1>1, <1>2

\* Sends and the worker never assign the exporter: what is configured stays so.
LEMMA QueueStepKeepsConfigured == QueueStep => UNCHANGED configured
  BY DEF QueueStep, Send, Enqueue, Refuse, Admit, Pend, Offer, CountAccepted, Overflow,
         CountDropped, Work, Take, Begin, ExportEnds, Clear, Settle, Exit

\* Steps of Sends and of the worker.
LEMMA QueueStepKeepsAll ==
    ASSUME IInv, QueueStep, UNCHANGED callVars
    PROVE  IInv'
<1>1. QueueInv'
  BY QueueStepKeeps DEF IInv
<1>2. CallTypeOK'
  BY DEF IInv, CallTypeOK, callVars
<1>3. StopInv'
  BY RestIsStable DEF IInv, CallInv, StopInv, callVars
<1>4. CallPathInv'
  BY DEF IInv, CallInv, CallPathInv, callVars
<1>5. OwedInv' /\ TrueCoversOwed' /\ FlushHookAfterDrain'
  BY HistoriesGrow DEF IInv, CallInv, OwedInv, TrueCoversOwed, FlushHookAfterDrain, callVars
<1>6. OnceInv'
  BY RestIsStable DEF IInv, CallInv, OnceInv, callVars
<1>7. VerdictInv'
  BY QueueStepKeepsConfigured DEF IInv, CallInv, VerdictInv, callVars
<1> QED
  BY <1>1, <1>2, <1>3, <1>4, <1>5, <1>6, <1>7 DEF IInv, CallInv

\* The start of a call.
LEMMA CallKeepsAll ==
    ASSUME IInv, NEW c \in Calls, Call(c)
    PROVE  IInv'
<1>0. ToSet(acceptLog) \subseteq Sends
  BY ElementOfSeq DEF IInv, QueueInv, QueueTypeOK, ToSet
<1>1. QueueInv'
  BY <1>0, QueueStutterKeeps DEF IInv, Call
<1>2. CallTypeOK'
  BY <1>0, CallsAssumption DEF IInv, CallTypeOK, Call, Goes, CallStates, HookStates
<1>3. StopInv' /\ CallPathInv'
  BY <1>0, CallsAssumption
  DEF IInv, CallInv, CallPathInv, StopInv, CallTypeOK, Call, Goes, queueVars, Stopped, Calls
<1>4. OwedInv' /\ TrueCoversOwed' /\ FlushHookAfterDrain'
  BY <1>0, CallsAssumption
  DEF IInv, CallInv, OwedInv, CallPathInv, TrueCoversOwed, FlushHookAfterDrain, CallTypeOK,
      Call, Goes, queueVars
<1>5. OnceInv'
  BY <1>0, CallsAssumption
  DEF IInv, CallInv, CallPathInv, StopInv, OnceInv, CallTypeOK, Call, Goes, queueVars, Stopped, Calls
<1>6. VerdictInv'
  BY <1>0, CallsAssumption
  DEF IInv, CallInv, CallPathInv, OnceInv, VerdictInv, CallTypeOK, Call, Goes, queueVars, Calls
<1> QED
  BY <1>1, <1>2, <1>3, <1>4, <1>5, <1>6 DEF IInv, CallInv

\* Close: Shutdown sets closed under the mutex.
LEMMA CloseKeepsAll ==
    ASSUME IInv, NEW c \in Calls, Close(c)
    PROVE  IInv'
<1>1. QueueInv'
  BY CloseAcceptanceKeeps DEF IInv, Close
<1>2. CallTypeOK'
  BY CallsAssumption DEF IInv, CallTypeOK, Close, Goes, CallStates, HookStates, CloseAcceptance
<1>3. StopInv' /\ CallPathInv'
  BY CallsAssumption
  DEF IInv, CallInv, CallPathInv, StopInv, CallTypeOK, Close, Goes, queueVars, Stopped, Calls, CloseAcceptance
<1>4. OwedInv' /\ TrueCoversOwed' /\ FlushHookAfterDrain'
  BY CallsAssumption
  DEF IInv, CallInv, OwedInv, CallPathInv, TrueCoversOwed, FlushHookAfterDrain, CallTypeOK,
      Close, Goes, queueVars, CloseAcceptance
<1>5. OnceInv'
  BY CallsAssumption
  DEF IInv, CallInv, CallPathInv, StopInv, OnceInv, CallTypeOK, Close, Goes, queueVars, Stopped, Calls, CloseAcceptance
<1>6. VerdictInv'
  BY CallsAssumption
  DEF IInv, CallInv, CallPathInv, OnceInv, VerdictInv, CallTypeOK, Close, Goes, queueVars, Calls, CloseAcceptance
<1> QED
  BY <1>1, <1>2, <1>3, <1>4, <1>5, <1>6 DEF IInv, CallInv

\* PollDrained: pending is read as zero, and everything accepted has been attempted.
LEMMA PollDrainedKeepsAll ==
    ASSUME IInv, NEW c \in Calls, PollDrained(c)
    PROVE  IInv'
<1>0. acceptLog = attempted /\ pending = 0
  BY DrainedMeansAttempted DEF IInv, PollDrained
<1>1. QueueInv'
  BY <1>0, QueueStutterKeeps DEF IInv, PollDrained
<1>2. CallTypeOK'
  BY <1>0, CallsAssumption DEF IInv, CallTypeOK, PollDrained, Goes, Return, FlushSucceeds, CallStates, HookStates
<1>3. StopInv' /\ CallPathInv'
  BY <1>0, CallsAssumption
  DEF IInv, CallInv, CallPathInv, StopInv, CallTypeOK, PollDrained, Goes, Return, FlushSucceeds, queueVars, Stopped, Calls
<1>4. OwedInv' /\ TrueCoversOwed' /\ FlushHookAfterDrain'
  BY <1>0, CallsAssumption
  DEF IInv, CallInv, OwedInv, CallPathInv, TrueCoversOwed, FlushHookAfterDrain, CallTypeOK,
      PollDrained, Goes, Return, FlushSucceeds, queueVars
<1>5. OnceInv'
  BY <1>0, CallsAssumption
  DEF IInv, CallInv, CallPathInv, StopInv, OnceInv, CallTypeOK, PollDrained, Goes, Return, FlushSucceeds, queueVars, Stopped, Calls
<1>6. VerdictInv'
  BY <1>0, CallsAssumption
  DEF IInv, CallInv, CallPathInv, OnceInv, VerdictInv, CallTypeOK, PollDrained, Goes, Return, FlushSucceeds, queueVars, Calls
<1> QED
  BY <1>1, <1>2, <1>3, <1>4, <1>5, <1>6 DEF IInv, CallInv

\* PollPending: pending is read as nonzero.
LEMMA PollPendingKeepsAll ==
    ASSUME IInv, NEW c \in Calls, PollPending(c)
    PROVE  IInv'
<1>1. QueueInv'
  BY QueueStutterKeeps DEF IInv, PollPending
<1>2. CallTypeOK'
  BY CallsAssumption DEF IInv, CallTypeOK, PollPending, Goes, CallStates, HookStates
<1>3. StopInv' /\ CallPathInv'
  BY CallsAssumption
  DEF IInv, CallInv, CallPathInv, StopInv, CallTypeOK, PollPending, Goes, queueVars, Stopped, Calls
<1>4. OwedInv' /\ TrueCoversOwed' /\ FlushHookAfterDrain'
  BY CallsAssumption
  DEF IInv, CallInv, OwedInv, CallPathInv, TrueCoversOwed, FlushHookAfterDrain, CallTypeOK,
      PollPending, Goes, queueVars
<1>5. OnceInv'
  BY CallsAssumption
  DEF IInv, CallInv, CallPathInv, StopInv, OnceInv, CallTypeOK, PollPending, Goes, queueVars, Stopped, Calls
<1>6. VerdictInv'
  BY CallsAssumption
  DEF IInv, CallInv, CallPathInv, OnceInv, VerdictInv, CallTypeOK, PollPending, Goes, queueVars, Calls
<1> QED
  BY <1>1, <1>2, <1>3, <1>4, <1>5, <1>6 DEF IInv, CallInv

\* Tick: the ticker fires.
LEMMA TickKeepsAll ==
    ASSUME IInv, NEW c \in Calls, Tick(c)
    PROVE  IInv'
<1>1. QueueInv'
  BY QueueStutterKeeps DEF IInv, Tick
<1>2. CallTypeOK'
  BY CallsAssumption DEF IInv, CallTypeOK, Tick, Goes, CallStates, HookStates
<1>3. StopInv' /\ CallPathInv'
  BY CallsAssumption
  DEF IInv, CallInv, CallPathInv, StopInv, CallTypeOK, Tick, Goes, queueVars, Stopped, Calls
<1>4. OwedInv' /\ TrueCoversOwed' /\ FlushHookAfterDrain'
  BY CallsAssumption
  DEF IInv, CallInv, OwedInv, CallPathInv, TrueCoversOwed, FlushHookAfterDrain, CallTypeOK,
      Tick, Goes, queueVars
<1>5. OnceInv'
  BY CallsAssumption
  DEF IInv, CallInv, CallPathInv, StopInv, OnceInv, CallTypeOK, Tick, Goes, queueVars, Stopped, Calls
<1>6. VerdictInv'
  BY CallsAssumption
  DEF IInv, CallInv, CallPathInv, OnceInv, VerdictInv, CallTypeOK, Tick, Goes, queueVars, Calls
<1> QED
  BY <1>1, <1>2, <1>3, <1>4, <1>5, <1>6 DEF IInv, CallInv

\* SeeFlushed: the result of the flush hook arrives.
LEMMA SeeFlushedKeepsAll ==
    ASSUME IInv, NEW c \in Calls, SeeFlushed(c)
    PROVE  IInv'
<1>1. QueueInv'
  BY QueueStutterKeeps DEF IInv, SeeFlushed
<1>2. CallTypeOK'
  BY CallsAssumption DEF IInv, CallTypeOK, SeeFlushed, Goes, Return, FlushSucceeds, CallStates, HookStates
<1>3. StopInv' /\ CallPathInv'
  BY CallsAssumption
  DEF IInv, CallInv, CallPathInv, StopInv, CallTypeOK, SeeFlushed, Goes, Return, FlushSucceeds, queueVars, Stopped, Calls
<1>4. OwedInv' /\ TrueCoversOwed' /\ FlushHookAfterDrain'
  BY CallsAssumption
  DEF IInv, CallInv, OwedInv, CallPathInv, TrueCoversOwed, FlushHookAfterDrain, CallTypeOK,
      SeeFlushed, Goes, Return, FlushSucceeds, queueVars
<1>5. OnceInv'
  BY CallsAssumption
  DEF IInv, CallInv, CallPathInv, StopInv, OnceInv, CallTypeOK, SeeFlushed, Goes, Return, FlushSucceeds, queueVars, Stopped, Calls
<1>6. VerdictInv'
  BY CallsAssumption
  DEF IInv, CallInv, CallPathInv, OnceInv, VerdictInv, CallTypeOK, SeeFlushed, Goes, Return, FlushSucceeds, queueVars, Calls
<1> QED
  BY <1>1, <1>2, <1>3, <1>4, <1>5, <1>6 DEF IInv, CallInv

\* GiveUp: the context ends while the call waits.
LEMMA GiveUpKeepsAll ==
    ASSUME IInv, NEW c \in Calls, GiveUp(c)
    PROVE  IInv'
<1>1. QueueInv'
  BY QueueStutterKeeps DEF IInv, GiveUp
<1>2. CallTypeOK'
  BY CallsAssumption DEF IInv, CallTypeOK, GiveUp, Goes, Return, CallStates, HookStates
<1>3. StopInv' /\ CallPathInv'
  BY CallsAssumption
  DEF IInv, CallInv, CallPathInv, StopInv, CallTypeOK, GiveUp, Goes, Return, queueVars, Stopped, Calls
<1>4. OwedInv' /\ TrueCoversOwed' /\ FlushHookAfterDrain'
  BY CallsAssumption
  DEF IInv, CallInv, OwedInv, CallPathInv, TrueCoversOwed, FlushHookAfterDrain, CallTypeOK,
      GiveUp, Goes, Return, queueVars
<1>5. OnceInv'
  BY CallsAssumption
  DEF IInv, CallInv, CallPathInv, StopInv, OnceInv, CallTypeOK, GiveUp, Goes, Return, queueVars, Stopped, Calls
<1>6. VerdictInv'
  BY CallsAssumption
  DEF IInv, CallInv, CallPathInv, OnceInv, VerdictInv, CallTypeOK, GiveUp, Goes, Return, queueVars, Calls
<1> QED
  BY <1>1, <1>2, <1>3, <1>4, <1>5, <1>6 DEF IInv, CallInv

\* Stop: Shutdown stops the worker.
LEMMA StopKeepsAll ==
    ASSUME IInv, NEW c \in Calls, Stop(c)
    PROVE  IInv'
<1>0. closed /\ pending = 0 /\ c \in ShutdownCalls
  BY CallsAssumption DEF IInv, CallInv, CallPathInv, StopInv, Stop, Goes, Calls
<1>1. QueueInv'
  BY <1>0, SignalDoneKeeps DEF IInv, Stop
<1>2. CallTypeOK'
  BY <1>0, CallsAssumption DEF IInv, CallTypeOK, Stop, Goes, CallStates, HookStates, SignalDone
<1>3. StopInv' /\ CallPathInv'
  BY <1>0, CallsAssumption
  DEF IInv, CallInv, CallPathInv, StopInv, CallTypeOK, Stop, Goes, queueVars, Stopped, Calls, SignalDone
<1>4. OwedInv' /\ TrueCoversOwed' /\ FlushHookAfterDrain'
  BY <1>0, CallsAssumption
  DEF IInv, CallInv, OwedInv, CallPathInv, TrueCoversOwed, FlushHookAfterDrain, CallTypeOK,
      Stop, Goes, queueVars, SignalDone
<1>5. OnceInv'
  BY <1>0, CallsAssumption
  DEF IInv, CallInv, CallPathInv, StopInv, OnceInv, CallTypeOK, Stop, Goes, queueVars, Stopped, Calls, SignalDone
<1>6. VerdictInv'
  BY <1>0, CallsAssumption
  DEF IInv, CallInv, CallPathInv, OnceInv, VerdictInv, CallTypeOK, Stop, Goes, queueVars, Calls, SignalDone
<1> QED
  BY <1>1, <1>2, <1>3, <1>4, <1>5, <1>6 DEF IInv, CallInv

\* SeeStopped: Shutdown sees the worker gone.
LEMMA SeeStoppedKeepsAll ==
    ASSUME IInv, NEW c \in Calls, SeeStopped(c)
    PROVE  IInv'
<1>1. QueueInv'
  BY QueueStutterKeeps DEF IInv, SeeStopped
<1>2. CallTypeOK'
  BY CallsAssumption DEF IInv, CallTypeOK, SeeStopped, Goes, CallStates, HookStates
<1>3. StopInv' /\ CallPathInv'
  BY CallsAssumption
  DEF IInv, CallInv, CallPathInv, StopInv, CallTypeOK, SeeStopped, Goes, queueVars, Stopped, Calls
<1>4. OwedInv' /\ TrueCoversOwed' /\ FlushHookAfterDrain'
  BY CallsAssumption
  DEF IInv, CallInv, OwedInv, CallPathInv, TrueCoversOwed, FlushHookAfterDrain, CallTypeOK,
      SeeStopped, Goes, queueVars
<1>5. OnceInv'
  BY CallsAssumption
  DEF IInv, CallInv, CallPathInv, StopInv, OnceInv, CallTypeOK, SeeStopped, Goes, queueVars, Stopped, Calls
<1>6. VerdictInv'
  BY CallsAssumption
  DEF IInv, CallInv, CallPathInv, OnceInv, VerdictInv, CallTypeOK, SeeStopped, Goes, queueVars, Calls
<1> QED
  BY <1>1, <1>2, <1>3, <1>4, <1>5, <1>6 DEF IInv, CallInv

\* NoShutdownHook: there is nothing more to do for Shutdown.
LEMMA NoShutdownHookKeepsAll ==
    ASSUME IInv, NEW c \in Calls, NoShutdownHook(c)
    PROVE  IInv'
<1>0. acceptLog = attempted
  BY StoppedMeansAttempted, CallsAssumption DEF IInv, CallInv, CallPathInv, StopInv, NoShutdownHook, Return, Goes, Calls
<1>1. QueueInv'
  BY <1>0, QueueStutterKeeps DEF IInv, NoShutdownHook
<1>2. CallTypeOK'
  BY <1>0, CallsAssumption DEF IInv, CallTypeOK, NoShutdownHook, Goes, Return, CallStates, HookStates
<1>3. StopInv' /\ CallPathInv'
  BY <1>0, CallsAssumption
  DEF IInv, CallInv, CallPathInv, StopInv, CallTypeOK, NoShutdownHook, Goes, Return, queueVars, Stopped, Calls
<1>4. OwedInv' /\ TrueCoversOwed' /\ FlushHookAfterDrain'
  BY <1>0, CallsAssumption
  DEF IInv, CallInv, OwedInv, CallPathInv, TrueCoversOwed, FlushHookAfterDrain, CallTypeOK,
      NoShutdownHook, Goes, Return, queueVars
<1>5. OnceInv'
  BY <1>0, CallsAssumption
  DEF IInv, CallInv, CallPathInv, StopInv, OnceInv, CallTypeOK, NoShutdownHook, Goes, Return, queueVars, Stopped, Calls
<1>6. VerdictInv'
  BY <1>0, CallsAssumption
  DEF IInv, CallInv, CallPathInv, OnceInv, VerdictInv, CallTypeOK, NoShutdownHook, Goes, Return, queueVars, Calls
<1> QED
  BY <1>1, <1>2, <1>3, <1>4, <1>5, <1>6 DEF IInv, CallInv

\* EnterOnce: the first Shutdown inside closeOnce starts the hook.
LEMMA EnterOnceKeepsAll ==
    ASSUME IInv, NEW c \in Calls, EnterOnce(c)
    PROVE  IInv'
<1>1. QueueInv'
  BY QueueStutterKeeps DEF IInv, EnterOnce
<1>2. CallTypeOK'
  BY CallsAssumption DEF IInv, CallTypeOK, EnterOnce, Goes, CallStates, HookStates
<1>3. StopInv' /\ CallPathInv'
  BY CallsAssumption
  DEF IInv, CallInv, CallPathInv, StopInv, CallTypeOK, EnterOnce, Goes, queueVars, Stopped, Calls
<1>4. OwedInv' /\ TrueCoversOwed' /\ FlushHookAfterDrain'
  BY CallsAssumption
  DEF IInv, CallInv, OwedInv, CallPathInv, TrueCoversOwed, FlushHookAfterDrain, CallTypeOK,
      EnterOnce, Goes, queueVars
<1>5. OnceInv'
  BY CallsAssumption
  DEF IInv, CallInv, CallPathInv, StopInv, OnceInv, CallTypeOK, EnterOnce, Goes, queueVars, Stopped, Calls
<1>6. VerdictInv'
  BY CallsAssumption
  DEF IInv, CallInv, CallPathInv, OnceInv, VerdictInv, CallTypeOK, EnterOnce, Goes, queueVars, Calls
<1> QED
  BY <1>1, <1>2, <1>3, <1>4, <1>5, <1>6 DEF IInv, CallInv

\* LeaveOnce: the verdict of the hook is recorded.
LEMMA LeaveOnceKeepsAll ==
    ASSUME IInv, NEW c \in Calls, LeaveOnce(c)
    PROVE  IInv'
<1>1. QueueInv'
  BY QueueStutterKeeps DEF IInv, LeaveOnce
<1>2. CallTypeOK'
  BY CallsAssumption DEF IInv, CallTypeOK, LeaveOnce, Goes, CallStates, HookStates
<1>3. StopInv' /\ CallPathInv'
  BY CallsAssumption
  DEF IInv, CallInv, CallPathInv, StopInv, CallTypeOK, LeaveOnce, Goes, queueVars, Stopped, Calls
<1>4. OwedInv' /\ TrueCoversOwed' /\ FlushHookAfterDrain'
  BY CallsAssumption
  DEF IInv, CallInv, OwedInv, CallPathInv, TrueCoversOwed, FlushHookAfterDrain, CallTypeOK,
      LeaveOnce, Goes, queueVars
<1>5. OnceInv'
  BY CallsAssumption
  DEF IInv, CallInv, CallPathInv, StopInv, OnceInv, CallTypeOK, LeaveOnce, Goes, queueVars, Stopped, Calls
<1>6. VerdictInv'
  BY CallsAssumption
  DEF IInv, CallInv, CallPathInv, OnceInv, VerdictInv, CallTypeOK, LeaveOnce, Goes, queueVars, Calls
<1> QED
  BY <1>1, <1>2, <1>3, <1>4, <1>5, <1>6 DEF IInv, CallInv

\* SkipOnce: a later Shutdown finds the Once done.
LEMMA SkipOnceKeepsAll ==
    ASSUME IInv, NEW c \in Calls, SkipOnce(c)
    PROVE  IInv'
<1>1. QueueInv'
  BY QueueStutterKeeps DEF IInv, SkipOnce
<1>2. CallTypeOK'
  BY CallsAssumption DEF IInv, CallTypeOK, SkipOnce, Goes, CallStates, HookStates
<1>3. StopInv' /\ CallPathInv'
  BY CallsAssumption
  DEF IInv, CallInv, CallPathInv, StopInv, CallTypeOK, SkipOnce, Goes, queueVars, Stopped, Calls
<1>4. OwedInv' /\ TrueCoversOwed' /\ FlushHookAfterDrain'
  BY CallsAssumption
  DEF IInv, CallInv, OwedInv, CallPathInv, TrueCoversOwed, FlushHookAfterDrain, CallTypeOK,
      SkipOnce, Goes, queueVars
<1>5. OnceInv'
  BY CallsAssumption
  DEF IInv, CallInv, CallPathInv, StopInv, OnceInv, CallTypeOK, SkipOnce, Goes, queueVars, Stopped, Calls
<1>6. VerdictInv'
  BY CallsAssumption
  DEF IInv, CallInv, CallPathInv, OnceInv, VerdictInv, CallTypeOK, SkipOnce, Goes, queueVars, Calls
<1> QED
  BY <1>1, <1>2, <1>3, <1>4, <1>5, <1>6 DEF IInv, CallInv

\* Verdict: the recorded verdict is read.
LEMMA VerdictKeepsAll ==
    ASSUME IInv, NEW c \in Calls, Verdict(c)
    PROVE  IInv'
<1>0. acceptLog = attempted
  BY StoppedMeansAttempted, CallsAssumption DEF IInv, CallInv, CallPathInv, StopInv, Verdict, Return, Goes, Calls
<1>1. QueueInv'
  BY <1>0, QueueStutterKeeps DEF IInv, Verdict
<1>2. CallTypeOK'
  BY <1>0, CallsAssumption DEF IInv, CallTypeOK, Verdict, Goes, Return, CallStates, HookStates
<1>3. StopInv' /\ CallPathInv'
  BY <1>0, CallsAssumption
  DEF IInv, CallInv, CallPathInv, StopInv, CallTypeOK, Verdict, Goes, Return, queueVars, Stopped, Calls
<1>4. OwedInv' /\ TrueCoversOwed' /\ FlushHookAfterDrain'
  BY <1>0, CallsAssumption
  DEF IInv, CallInv, OwedInv, CallPathInv, TrueCoversOwed, FlushHookAfterDrain, CallTypeOK,
      Verdict, Goes, Return, queueVars
<1>5. OnceInv'
  BY <1>0, CallsAssumption
  DEF IInv, CallInv, CallPathInv, StopInv, OnceInv, CallTypeOK, Verdict, Goes, Return, queueVars, Stopped, Calls
<1>6. VerdictInv'
  BY <1>0, CallsAssumption
  DEF IInv, CallInv, CallPathInv, OnceInv, VerdictInv, CallTypeOK, Verdict, Goes, Return, queueVars, Calls
<1> QED
  BY <1>1, <1>2, <1>3, <1>4, <1>5, <1>6 DEF IInv, CallInv

\* Expire: a context ends.
LEMMA ExpireKeepsAll ==
    ASSUME IInv, NEW c \in Calls, Expire(c)
    PROVE  IInv'
<1>1. QueueInv'
  BY QueueStutterKeeps DEF IInv, Expire
<1>2. CallTypeOK'
  BY CallsAssumption DEF IInv, CallTypeOK, Expire, CallStates, HookStates
<1>3. StopInv' /\ CallPathInv'
  BY CallsAssumption
  DEF IInv, CallInv, CallPathInv, StopInv, CallTypeOK, Expire, queueVars, Stopped, Calls
<1>4. OwedInv' /\ TrueCoversOwed' /\ FlushHookAfterDrain'
  BY CallsAssumption
  DEF IInv, CallInv, OwedInv, CallPathInv, TrueCoversOwed, FlushHookAfterDrain, CallTypeOK,
      Expire, queueVars
<1>5. OnceInv'
  BY CallsAssumption
  DEF IInv, CallInv, CallPathInv, StopInv, OnceInv, CallTypeOK, Expire, queueVars, Stopped, Calls
<1>6. VerdictInv'
  BY CallsAssumption
  DEF IInv, CallInv, CallPathInv, OnceInv, VerdictInv, CallTypeOK, Expire, queueVars, Calls
<1> QED
  BY <1>1, <1>2, <1>3, <1>4, <1>5, <1>6 DEF IInv, CallInv

\* FlushHookEnds: the flush hook returns.
LEMMA FlushHookEndsKeepsAll ==
    ASSUME IInv, NEW c \in Calls, FlushHookEnds(c)
    PROVE  IInv'
<1>1. QueueInv'
  BY QueueStutterKeeps DEF IInv, FlushHookEnds
<1>2. CallTypeOK'
  BY CallsAssumption DEF IInv, CallTypeOK, FlushHookEnds, CallStates, HookStates
<1>3. StopInv' /\ CallPathInv'
  BY CallsAssumption
  DEF IInv, CallInv, CallPathInv, StopInv, CallTypeOK, FlushHookEnds, queueVars, Stopped, Calls
<1>4. OwedInv' /\ TrueCoversOwed' /\ FlushHookAfterDrain'
  BY CallsAssumption
  DEF IInv, CallInv, OwedInv, CallPathInv, TrueCoversOwed, FlushHookAfterDrain, CallTypeOK,
      FlushHookEnds, queueVars
<1>5. OnceInv'
  BY CallsAssumption
  DEF IInv, CallInv, CallPathInv, StopInv, OnceInv, CallTypeOK, FlushHookEnds, queueVars, Stopped, Calls
<1>6. VerdictInv'
  BY CallsAssumption
  DEF IInv, CallInv, CallPathInv, OnceInv, VerdictInv, CallTypeOK, FlushHookEnds, queueVars, Calls
<1> QED
  BY <1>1, <1>2, <1>3, <1>4, <1>5, <1>6 DEF IInv, CallInv

\* CloseHookEnds: the shutdown hook returns.
LEMMA CloseHookEndsKeepsAll ==
    ASSUME IInv, NEW c \in Calls, CloseHookEnds(c)
    PROVE  IInv'
<1>1. QueueInv'
  BY QueueStutterKeeps DEF IInv, CloseHookEnds
<1>2. CallTypeOK'
  BY CallsAssumption DEF IInv, CallTypeOK, CloseHookEnds, CallStates, HookStates
<1>3. StopInv' /\ CallPathInv'
  BY CallsAssumption
  DEF IInv, CallInv, CallPathInv, StopInv, CallTypeOK, CloseHookEnds, queueVars, Stopped, Calls
<1>4. OwedInv' /\ TrueCoversOwed' /\ FlushHookAfterDrain'
  BY CallsAssumption
  DEF IInv, CallInv, OwedInv, CallPathInv, TrueCoversOwed, FlushHookAfterDrain, CallTypeOK,
      CloseHookEnds, queueVars
<1>5. OnceInv'
  BY CallsAssumption
  DEF IInv, CallInv, CallPathInv, StopInv, OnceInv, CallTypeOK, CloseHookEnds, queueVars, Stopped, Calls
<1>6. VerdictInv'
  BY CallsAssumption
  DEF IInv, CallInv, CallPathInv, OnceInv, VerdictInv, CallTypeOK, CloseHookEnds, queueVars, Calls
<1> QED
  BY <1>1, <1>2, <1>3, <1>4, <1>5, <1>6 DEF IInv, CallInv

-----------------------------------------------------------------------------
\* The exporter newManagedExporter returns satisfies the invariant.
LEMMA InitInv == Init => IInv
<1> SUFFICES ASSUME Init PROVE IInv
  OBVIOUS
<1>1. QueueInv
  BY BatchInitInv DEF Init
<1>2. CallTypeOK
  BY DEF Init, CallTypeOK, CallStates, HookStates
<1>3. StopInv /\ CallPathInv /\ OnceInv /\ VerdictInv
  BY CallsAssumption DEF Init, StopInv, CallPathInv, OnceInv, VerdictInv, Calls
<1>4. OwedInv /\ TrueCoversOwed /\ FlushHookAfterDrain
  BY DEF Init, OwedInv, TrueCoversOwed, FlushHookAfterDrain
<1> QED
  BY <1>1, <1>2, <1>3, <1>4 DEF IInv, CallInv

\* A step that changes nothing keeps the invariant.
LEMMA StutterKeepsAll == ASSUME IInv, UNCHANGED vars PROVE IInv'
<1>1. QueueInv'
  BY QueueStutterKeeps DEF IInv, vars
<1>2. CallTypeOK' /\ StopInv' /\ CallPathInv' /\ OwedInv' /\ TrueCoversOwed'
  BY DEF IInv, vars, queueVars, callVars, CallTypeOK, CallInv, StopInv, CallPathInv, OwedInv,
         TrueCoversOwed, Stopped
<1>3. OnceInv' /\ VerdictInv' /\ FlushHookAfterDrain'
  BY DEF IInv, vars, queueVars, callVars, CallInv, OnceInv, VerdictInv, FlushHookAfterDrain, Stopped
<1> QED
  BY <1>1, <1>2, <1>3 DEF IInv, CallInv

\* Every step keeps the invariant: one case for each action of Next.
LEMMA NextKeepsAll == ASSUME IInv, [Next]_vars PROVE IInv'
<1>1. CASE QueueStep /\ UNCHANGED callVars
  BY <1>1, QueueStepKeepsAll
<1>2. CASE \E c \in Calls : Call(c) \/ Lifecycle(c) \/ Expire(c) \/ Hooks(c)
  BY <1>2, CallKeepsAll, CloseKeepsAll, PollDrainedKeepsAll, PollPendingKeepsAll,
     TickKeepsAll, SeeFlushedKeepsAll, GiveUpKeepsAll, StopKeepsAll, SeeStoppedKeepsAll,
     NoShutdownHookKeepsAll, EnterOnceKeepsAll, LeaveOnceKeepsAll, SkipOnceKeepsAll,
     VerdictKeepsAll, ExpireKeepsAll, FlushHookEndsKeepsAll, CloseHookEndsKeepsAll
  DEF Lifecycle, Hooks
<1>3. CASE Idle \/ UNCHANGED vars
  BY <1>3, StutterKeepsAll DEF Idle
<1> QED
  BY <1>1, <1>2, <1>3 DEF Next

\* Every reachable state of managedExporter satisfies the inductive invariant: its
\* types, what the queue's state means for Flush and Shutdown, and closeOnce.
THEOREM Invariance == Spec => []IInv
<1>1. IInv /\ [Next]_vars => IInv'
  BY NextKeepsAll
<1> QED
  BY InitInv, <1>1, PTL DEF Spec

\* The shutdown hook is started once and only on a closed, drained, stopped queue
\* (shutdownExporter), however many Shutdowns run at the same time.
THEOREM ShutdownHookOnce == Spec => []ShutdownHookContract
<1>1. IInv => ShutdownHookContract
  <2> SUFFICES ASSUME IInv, NEW c \in Calls, closeHook[c] # "none"
               PROVE  /\ closed /\ Stopped /\ queue = << >> /\ pending = 0 /\ acceptLog = attempted
                      /\ \A d \in Calls : closeHook[d] # "none" => d = c
    BY DEF ShutdownHookContract
  <2>1. Stopped /\ \A d \in Calls : closeHook[d] # "none" => d = c
    BY DEF IInv, CallInv, OnceInv
  <2> QED
    BY <2>1, StoppedMeansAttempted DEF IInv
<1> QED
  BY Invariance, <1>1, PTL

\* Neither Flush nor Shutdown says true over the failure of a hook (Flush,
\* shutdownExporter, closeOK).
THEOREM HonestAboutHooks == Spec => []TrueMeansHooksSucceeded
<1>1. IInv => TrueMeansHooksSucceeded
  <2> SUFFICES ASSUME IInv PROVE TrueMeansHooksSucceeded
    OBVIOUS
  <2>1. \A c \in FlushCalls : result[c] /\ HasFlusher /\ configured => flushHook[c] = "ok"
    BY DEF IInv, CallInv, VerdictInv
  <2>2. ASSUME NEW c \in ShutdownCalls, result[c], HasShutdown, configured
        PROVE  \E d \in ShutdownCalls : closeHook[d] = "ok"
    <3>1. once = "done" /\ closeOK
      BY <2>2 DEF IInv, CallInv, VerdictInv
    <3> QED
      BY <3>1 DEF IInv, CallInv, OnceInv
  <2> QED
    BY <2>1, <2>2 DEF TrueMeansHooksSucceeded
<1> QED
  BY Invariance, <1>1, PTL

\* Shutdowns agree, but for those whose own context or flush hook failed
\* (closeDone, closeOK).
THEOREM Agreement == Spec => []VerdictsAgree
<1>1. IInv => VerdictsAgree
  <2> SUFFICES ASSUME IInv, NEW c \in ShutdownCalls, NEW d \in ShutdownCalls,
                      result[c], callPC[d] = "returned", ~result[d]
               PROVE  expired[d] \/ flushHook[d] = "err"
    BY DEF VerdictsAgree
  <2>1. \/ expired[d] \/ flushHook[d] = "err"
        \/ once = "done" /\ ~closeOK
    BY DEF IInv, CallInv, VerdictInv
  <2>2. once = "done" => closeOK
    BY DEF IInv, CallInv, VerdictInv
  <2> QED
    BY <2>1, <2>2
<1> QED
  BY Invariance, <1>1, PTL

\* Nothing moves in an exporter whose worker has stopped, except Sends that are
\* dropped, calls that return, and hooks.
LEMMA StoppedIsFinal ==
    ASSUME IInv, Stopped, [Next]_vars
    PROVE  Stopped /\ UNCHANGED << closed, queue, pending, inFlight, accepted, delivered,
                                   failed, acceptLog, attempted >>
<1>1. closed /\ acceptMu = Nobody /\ queue = << >>
  BY StoppedMeansAttempted DEF IInv
<1>2. \A b \in Sends : sendPC[b] \notin Critical
  BY <1>1, NobodyAssumption DEF IInv, QueueInv, LockInv
<1>3. CASE \E b \in Sends : Send(b) \/ Enqueue(b)
  BY <1>1, <1>2, <1>3
  DEF Send, Enqueue, Refuse, Admit, Pend, Offer, CountAccepted, Overflow, CountDropped,
      SendGoes, Critical, counters
<1>4. CASE Work
  BY <1>4 DEF Stopped, Work, Take, Begin, ExportEnds, Clear, Settle, Exit, WorkerGoes
<1>5. CASE \E c \in Calls : Call(c) \/ Lifecycle(c) \/ Expire(c) \/ Hooks(c)
  BY <1>1, <1>5
  DEF Call, Lifecycle, Expire, Hooks, Close, PollDrained, PollPending, Tick, SeeFlushed, GiveUp,
      Stop, SeeStopped, NoShutdownHook, EnterOnce, LeaveOnce, SkipOnce, Verdict, FlushHookEnds,
      CloseHookEnds, CloseAcceptance, SignalDone, queueVars, counters
<1>6. CASE Idle \/ UNCHANGED vars
  BY <1>6 DEF Idle, vars, queueVars, Stopped
<1> QED
  BY <1>3, <1>4, <1>5, <1>6 DEF Next, QueueStep

\* After a Shutdown that returned true the exporter is handed nothing any more,
\* whatever else the program calls.
THEOREM Finality == Spec => FinalAfterShutdown
<1>1. IInv /\ [Next]_vars =>
        [(\E c \in ShutdownCalls : result[c]) =>
            Stopped /\ UNCHANGED << closed, queue, pending, inFlight, accepted, delivered,
                                    failed, acceptLog, attempted >>]_vars
  BY StoppedIsFinal DEF IInv, CallInv, StopInv
<1> QED
  BY Invariance, <1>1, PTL DEF Spec, FinalAfterShutdown

\* managedExporter implements the delivery contract, step by step: hooks and their
\* verdicts are stutters of it.
THEOREM Implementation == Spec => KeepsContract
<1>1. Init => Promise!ContractInit
  <2> SUFFICES ASSUME Init PROVE Promise!ContractInit
    OBVIOUS
  <2>1. acceptLog = << >> /\ Len(attempted) = 0 /\ Stopped = FALSE
    BY DEF Init, BatchInit, Stopped
  <2> QED
    BY <2>1 DEF Promise!ContractInit, Init, BatchInit
<1>2. IInv /\ IInv' /\ [Next]_vars => [Promise!ContractNext]_(Promise!contractVars)
  <2> SUFFICES ASSUME IInv, IInv', [Next]_vars
               PROVE  [Promise!ContractNext]_(Promise!contractVars)
    OBVIOUS
  <2>1. QueueInv /\ QueueInv'
    BY DEF IInv
  <2>2. CASE QueueStep
    BY <2>1, <2>2, QueueStepRefines
  <2>3. CASE \E c \in Calls : Close(c)
    BY <2>1, <2>3, CloseRefines DEF Close
  <2>4. CASE UNCHANGED << configured, closed, acceptLog, attempted, worker >>
    BY <2>4 DEF Promise!contractVars, Stopped
  <2>5. ASSUME NEW c \in Calls, Call(c) \/ Lifecycle(c) \/ Expire(c) \/ Hooks(c), ~ Close(c)
        PROVE  UNCHANGED << configured, closed, acceptLog, attempted, worker >>
    BY <2>5
    DEF Call, Lifecycle, Expire, Hooks, PollDrained, PollPending, Tick, SeeFlushed, GiveUp, Stop,
        SeeStopped, NoShutdownHook, EnterOnce, LeaveOnce, SkipOnce, Verdict, FlushHookEnds,
        CloseHookEnds, SignalDone, queueVars
  <2>6. CASE Idle \/ UNCHANGED vars
    BY <2>4, <2>6 DEF Idle, vars, queueVars
  <2> QED
    BY <2>2, <2>3, <2>4, <2>5, <2>6 DEF Next
<1> QED
  BY Invariance, <1>1, <1>2, PTL DEF Spec, KeepsContract, Promise!Contract

=============================================================================
