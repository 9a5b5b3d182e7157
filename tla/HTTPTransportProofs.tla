------------------------- MODULE HTTPTransportProofs ------------------------
(***************************************************************************)
(* HTTPTransport keeps IInv; what its callers are told follows from it,    *)
(* and so does what a health check may conclude from the reports of its    *)
(* Diagnostics: for every number of Sends, calls and reports, the          *)
(* transport only moves forward under the reader, and not at all once it   *)
(* has stopped.                                                            *)
(***************************************************************************)
EXTENDS Diagnostics, BatchQueueProofs

\* The worker of HTTPTransport is the worker of BatchQueue with post as export.
LEMMA WorkerIsWork == Worker => Work
  BY DEF Worker, Work, Post, PostOutcomes

\* Steps of Sends and of the worker.
LEMMA QueueStepKeepsAll ==
    ASSUME IInv, QueueStep, UNCHANGED callVars
    PROVE  IInv'
<1>1. QueueInv'
  BY QueueStepKeeps DEF IInv, QueueStep
<1>2. CallTypeOK'
  BY DEF IInv, CallTypeOK, callVars
<1>3. StopInv'
  BY RestIsStable DEF IInv, CallInv, StopInv, callVars
<1>4. CallPathInv'
  BY DEF IInv, CallInv, CallPathInv, callVars
<1>5. OwedInv' /\ TrueCoversOwed'
  BY HistoriesGrow DEF IInv, CallInv, OwedInv, TrueCoversOwed, callVars
<1> QED
  BY <1>1, <1>2, <1>3, <1>4, <1>5 DEF IInv, CallInv

\* The start of a call.
LEMMA CallKeepsAll ==
    ASSUME IInv, NEW c \in Calls, Call(c)
    PROVE  IInv'
<1>1. QueueInv'
  BY QueueStutterKeeps DEF IInv, Call
<1>2. ToSet(acceptLog) \subseteq Sends
  BY ElementOfSeq DEF IInv, QueueInv, QueueTypeOK, ToSet
<1>3. CallTypeOK'
  BY <1>2 DEF IInv, CallTypeOK, Call, Goes, CallStates
<1>4. StopInv'
  BY CallsAssumption DEF IInv, CallInv, CallPathInv, StopInv, CallTypeOK, Call, Goes, queueVars, Stopped, Calls
<1>5. CallPathInv'
  BY CallsAssumption DEF IInv, CallInv, CallPathInv, CallTypeOK, Call, Goes, Calls
<1>6. OwedInv'
  BY DEF IInv, CallInv, OwedInv, CallTypeOK, Call, queueVars
<1>7. TrueCoversOwed'
  BY DEF IInv, CallInv, CallPathInv, TrueCoversOwed, CallTypeOK, Call, Goes, queueVars
<1> QED
  BY <1>1, <1>3, <1>4, <1>5, <1>6, <1>7 DEF IInv, CallInv

\* Close: Shutdown sets closed under the mutex.
LEMMA CloseKeepsAll ==
    ASSUME IInv, NEW c \in Calls, Close(c)
    PROVE  IInv'
<1>1. QueueInv'
  BY CloseAcceptanceKeeps DEF IInv, Close
<1>2. CallTypeOK'
  BY DEF IInv, CallTypeOK, Close, Goes, CallStates
<1>3. StopInv' /\ CallPathInv'
  BY CallsAssumption
  DEF IInv, CallInv, CallPathInv, StopInv, CallTypeOK, Close, Goes, CloseAcceptance, Stopped, Calls
<1>4. OwedInv' /\ TrueCoversOwed'
  BY CallsAssumption
  DEF IInv, CallInv, OwedInv, CallPathInv, TrueCoversOwed, CallTypeOK, Close, Goes, CloseAcceptance
<1> QED
  BY <1>1, <1>2, <1>3, <1>4 DEF IInv, CallInv

\* PollDrained: pending is read as zero.
LEMMA PollDrainedKeepsAll ==
    ASSUME IInv, NEW c \in Calls, PollDrained(c)
    PROVE  IInv'
<1>1. acceptLog = attempted
  BY DrainedMeansAttempted DEF IInv, PollDrained
<1>2. QueueInv'
  BY QueueStutterKeeps DEF IInv, PollDrained
<1>3. CallTypeOK'
  BY DEF IInv, CallTypeOK, PollDrained, Return, Goes, CallStates
<1>4. StopInv' /\ CallPathInv'
  BY <1>1, CallsAssumption
  DEF IInv, CallInv, CallPathInv, StopInv, CallTypeOK, PollDrained, Return, Goes, queueVars, Stopped, Calls
<1>5. OwedInv' /\ TrueCoversOwed'
  BY <1>1, CallsAssumption
  DEF IInv, CallInv, OwedInv, CallPathInv, TrueCoversOwed, CallTypeOK, PollDrained, Return, Goes, queueVars
<1> QED
  BY <1>2, <1>3, <1>4, <1>5 DEF IInv, CallInv

\* PollPending: pending is read as nonzero.
LEMMA PollPendingKeepsAll ==
    ASSUME IInv, NEW c \in Calls, PollPending(c)
    PROVE  IInv'
<1>1. QueueInv'
  BY QueueStutterKeeps DEF IInv, PollPending
<1>2. CallTypeOK'
  BY DEF IInv, CallTypeOK, PollPending, Goes, CallStates
<1>3. StopInv' /\ CallPathInv'
  BY CallsAssumption
  DEF IInv, CallInv, CallPathInv, StopInv, CallTypeOK, PollPending, Goes, queueVars, Stopped, Calls
<1>4. OwedInv' /\ TrueCoversOwed'
  BY CallsAssumption
  DEF IInv, CallInv, OwedInv, CallPathInv, TrueCoversOwed, CallTypeOK, PollPending, Goes, queueVars
<1> QED
  BY <1>1, <1>2, <1>3, <1>4 DEF IInv, CallInv

\* Tick: the ticker fires.
LEMMA TickKeepsAll ==
    ASSUME IInv, NEW c \in Calls, Tick(c)
    PROVE  IInv'
<1>1. QueueInv'
  BY QueueStutterKeeps DEF IInv, Tick
<1>2. CallTypeOK'
  BY DEF IInv, CallTypeOK, Tick, Goes, CallStates
<1>3. StopInv' /\ CallPathInv'
  BY CallsAssumption
  DEF IInv, CallInv, CallPathInv, StopInv, CallTypeOK, Tick, Goes, queueVars, Stopped, Calls
<1>4. OwedInv' /\ TrueCoversOwed'
  BY CallsAssumption
  DEF IInv, CallInv, OwedInv, CallPathInv, TrueCoversOwed, CallTypeOK, Tick, Goes, queueVars
<1> QED
  BY <1>1, <1>2, <1>3, <1>4 DEF IInv, CallInv

\* GiveUpFlush: the context ends while Flush waits.
LEMMA GiveUpFlushKeepsAll ==
    ASSUME IInv, NEW c \in Calls, GiveUpFlush(c)
    PROVE  IInv'
<1>1. QueueInv'
  BY QueueStutterKeeps DEF IInv, GiveUpFlush
<1>2. CallTypeOK'
  BY DEF IInv, CallTypeOK, GiveUpFlush, Return, Goes, CallStates
<1>3. StopInv' /\ CallPathInv'
  BY CallsAssumption
  DEF IInv, CallInv, CallPathInv, StopInv, CallTypeOK, GiveUpFlush, Return, Goes, queueVars, Stopped, Calls
<1>4. OwedInv' /\ TrueCoversOwed'
  BY CallsAssumption
  DEF IInv, CallInv, OwedInv, CallPathInv, TrueCoversOwed, CallTypeOK, GiveUpFlush, Return, Goes, queueVars
<1> QED
  BY <1>1, <1>2, <1>3, <1>4 DEF IInv, CallInv

\* Stop: Shutdown stops the worker.
LEMMA StopKeepsAll ==
    ASSUME IInv, NEW c \in Calls, Stop(c)
    PROVE  IInv'
<1>1. closed /\ pending = 0 /\ c \in ShutdownCalls
  BY CallsAssumption DEF IInv, CallInv, CallPathInv, StopInv, Stop, Goes, Calls
<1>2. QueueInv'
  BY <1>1, SignalDoneKeeps DEF IInv, Stop
<1>3. CallTypeOK'
  BY DEF IInv, CallTypeOK, Stop, Goes, CallStates
<1>4. StopInv' /\ CallPathInv'
  BY <1>1, CallsAssumption
  DEF IInv, CallInv, CallPathInv, StopInv, CallTypeOK, Stop, Goes, SignalDone, Stopped, Calls
<1>5. OwedInv' /\ TrueCoversOwed'
  BY <1>1, CallsAssumption
  DEF IInv, CallInv, OwedInv, CallPathInv, TrueCoversOwed, CallTypeOK, Stop, Goes, SignalDone
<1> QED
  BY <1>2, <1>3, <1>4, <1>5 DEF IInv, CallInv

\* SeeStopped: Shutdown sees the worker gone.
LEMMA SeeStoppedKeepsAll ==
    ASSUME IInv, NEW c \in Calls, SeeStopped(c)
    PROVE  IInv'
<1>1. acceptLog = attempted /\ c \in ShutdownCalls
  BY CallsAssumption, QueueInvNoLostBatch DEF IInv, NoLostBatch, CallInv, CallPathInv, SeeStopped, Return, Goes, Calls
<1>2. QueueInv'
  BY QueueStutterKeeps DEF IInv, SeeStopped
<1>3. CallTypeOK'
  BY DEF IInv, CallTypeOK, SeeStopped, Return, Goes, CallStates
<1>4. StopInv' /\ CallPathInv'
  BY <1>1, CallsAssumption
  DEF IInv, CallInv, CallPathInv, StopInv, CallTypeOK, SeeStopped, Return, Goes, queueVars, Stopped, Calls
<1>5. OwedInv' /\ TrueCoversOwed'
  BY <1>1, CallsAssumption
  DEF IInv, CallInv, OwedInv, CallPathInv, TrueCoversOwed, CallTypeOK, SeeStopped, Return, Goes, queueVars
<1> QED
  BY <1>2, <1>3, <1>4, <1>5 DEF IInv, CallInv

\* GiveUpStop: the context ends while Shutdown waits for the worker.
LEMMA GiveUpStopKeepsAll ==
    ASSUME IInv, NEW c \in Calls, GiveUpStop(c)
    PROVE  IInv'
<1>1. QueueInv'
  BY QueueStutterKeeps DEF IInv, GiveUpStop
<1>2. CallTypeOK'
  BY DEF IInv, CallTypeOK, GiveUpStop, Return, Goes, CallStates
<1>3. StopInv' /\ CallPathInv'
  BY CallsAssumption
  DEF IInv, CallInv, CallPathInv, StopInv, CallTypeOK, GiveUpStop, Return, Goes, queueVars, Stopped, Calls
<1>4. OwedInv' /\ TrueCoversOwed'
  BY CallsAssumption
  DEF IInv, CallInv, OwedInv, CallPathInv, TrueCoversOwed, CallTypeOK, GiveUpStop, Return, Goes, queueVars
<1> QED
  BY <1>1, <1>2, <1>3, <1>4 DEF IInv, CallInv

\* Expire: a context ends.
LEMMA ExpireKeepsAll ==
    ASSUME IInv, NEW c \in Calls, Expire(c)
    PROVE  IInv'
<1>1. QueueInv'
  BY QueueStutterKeeps DEF IInv, Expire
<1>2. CallTypeOK'
  BY DEF IInv, CallTypeOK, Expire, CallStates
<1>3. StopInv' /\ CallPathInv'
  BY CallsAssumption
  DEF IInv, CallInv, CallPathInv, StopInv, CallTypeOK, Expire, queueVars, Stopped, Calls
<1>4. OwedInv' /\ TrueCoversOwed'
  BY CallsAssumption
  DEF IInv, CallInv, OwedInv, CallPathInv, TrueCoversOwed, CallTypeOK, Expire, queueVars
<1> QED
  BY <1>1, <1>2, <1>3, <1>4 DEF IInv, CallInv

-----------------------------------------------------------------------------
\* The transport newHTTPTransport returns satisfies the invariant.
LEMMA InitInv == Init => IInv
<1> SUFFICES ASSUME Init PROVE IInv
  OBVIOUS
<1>1. QueueInv
  BY BatchInitInv DEF Init
<1>2. CallTypeOK
  BY DEF Init, CallTypeOK, CallStates
<1>3. StopInv /\ CallPathInv
  BY CallsAssumption DEF Init, StopInv, CallPathInv, Calls
<1>4. OwedInv /\ TrueCoversOwed
  BY DEF Init, OwedInv, TrueCoversOwed
<1> QED
  BY <1>1, <1>2, <1>3, <1>4 DEF IInv, CallInv

\* A step that changes nothing keeps the invariant.
LEMMA StutterKeepsAll == ASSUME IInv, UNCHANGED vars PROVE IInv'
<1>1. QueueInv'
  BY QueueStutterKeeps DEF IInv, vars
<1>2. CallTypeOK' /\ CallInv'
  BY DEF IInv, vars, queueVars, callVars, CallTypeOK, CallInv, StopInv, CallPathInv, OwedInv,
         TrueCoversOwed, Stopped
<1> QED
  BY <1>1, <1>2 DEF IInv

\* Every step keeps the invariant: one case for each action of Next.
LEMMA NextKeepsAll == ASSUME IInv, [Next]_vars PROVE IInv'
<1>1. CASE \E b \in Sends : (Send(b) \/ Enqueue(b)) /\ UNCHANGED callVars
  BY <1>1, QueueStepKeepsAll DEF QueueStep
<1>2. CASE Worker /\ UNCHANGED callVars
  BY <1>2, WorkerIsWork, QueueStepKeepsAll DEF QueueStep
<1>3. CASE \E c \in Calls : Call(c) \/ Lifecycle(c) \/ Expire(c)
  BY <1>3, CallKeepsAll, CloseKeepsAll, PollDrainedKeepsAll, PollPendingKeepsAll,
     TickKeepsAll, GiveUpFlushKeepsAll, StopKeepsAll, SeeStoppedKeepsAll,
     GiveUpStopKeepsAll, ExpireKeepsAll DEF Lifecycle
<1>4. CASE Idle \/ UNCHANGED vars
  BY <1>4, StutterKeepsAll DEF Idle
<1> QED
  BY <1>1, <1>2, <1>3, <1>4 DEF Next

\* Every reachable state of HTTPTransport satisfies the inductive invariant.
THEOREM Invariance == Spec => []IInv
<1>1. IInv /\ [Next]_vars => IInv'
  BY NextKeepsAll
<1> QED
  BY InitInv, <1>1, PTL DEF Spec

\* The variables of HTTPTransport keep their types (enqueue, run, Flush, Shutdown).
THEOREM TypeCorrectness == Spec => []TypeOK
<1>1. IInv => TypeOK
  BY DEF IInv, TypeOK, QueueInv
<1> QED
  BY Invariance, <1>1, PTL

\* When run returns, every batch that enqueue put in the channel has been posted
\* and no Send can put another one there.
THEOREM NothingLost == Spec => []NoLostBatch
<1>1. IInv => NoLostBatch
  BY QueueInvNoLostBatch DEF IInv
<1> QED
  BY Invariance, <1>1, PTL

\* Flush and Shutdown return true only after every batch accepted before the
\* call has been posted.
THEOREM TrueIsHonest == Spec => []TrueCoversOwed
<1>1. IInv => TrueCoversOwed
  BY DEF IInv, CallInv
<1> QED
  BY Invariance, <1>1, PTL

\* A Shutdown that returned true left the transport closed, stopped and empty.
THEOREM Quiescence == Spec => []ShutdownQuiesces
<1>1. IInv => ShutdownQuiesces
  <2> SUFFICES ASSUME IInv, NEW c \in ShutdownCalls, result[c]
               PROVE  closed /\ Stopped /\ pending = 0 /\ inFlight = 0 /\ acceptLog = attempted
    BY DEF ShutdownQuiesces
  <2>1. Stopped
    BY DEF IInv, CallInv, StopInv
  <2>2. closed /\ pending = 0 /\ inFlight = 0
    BY <2>1 DEF IInv, QueueInv, ExitInv, DoneInv, WorkerInv, Stopped
  <2> QED
    BY <2>1, <2>2, QueueInvNoLostBatch DEF IInv, NoLostBatch
<1> QED
  BY Invariance, <1>1, PTL

\* Every Send is counted once, as accepted or as dropped, when it returns (enqueue),
\* whatever Flush and Shutdown do meanwhile.
THEOREM Accounting == Spec => []EverySendCounted
<1>1. Init => SendsCounted
  BY NobodyHasReturned DEF Init
<1>2. IInv /\ SendsCounted /\ [Next]_vars => SendsCounted'
  <2> SUFFICES ASSUME IInv, SendsCounted, [Next]_vars PROVE SendsCounted'
    OBVIOUS
  <2>1. CASE QueueStep
    BY <2>1, QueueStepCounts DEF IInv
  <2>2. CASE \E c \in Calls : Call(c) \/ Lifecycle(c) \/ Expire(c)
    BY <2>2, CountStutters
    DEF Call, Lifecycle, Expire, Close, PollDrained, PollPending, Tick, GiveUpFlush, Stop,
        SeeStopped, GiveUpStop, CloseAcceptance, SignalDone, queueVars, counters
  <2>3. CASE Idle \/ UNCHANGED vars
    BY <2>3, CountStutters DEF Idle, vars, queueVars
  <2> QED
    BY <2>1, <2>2, <2>3, WorkerIsWork DEF Next, QueueStep
<1>3. SendsCounted => EverySendCounted
  BY DEF SendsCounted
<1> QED
  BY Invariance, <1>1, <1>2, <1>3, PTL DEF Spec

\* Nothing moves in a transport whose worker has stopped, except Sends that are
\* dropped and calls that return.
LEMMA StoppedIsFinal ==
    ASSUME IInv, Stopped, [Next]_vars
    PROVE  UNCHANGED << closed, queue, pending, inFlight, accepted, delivered, failed,
                        acceptLog, attempted >>
<1>1. closed /\ acceptMu = Nobody /\ queue = << >>
  BY QueueInvNoLostBatch DEF IInv, NoLostBatch, QueueInv, ExitInv, DoneInv
<1>2. \A b \in Sends : sendPC[b] \notin Critical
  BY <1>1, NobodyAssumption DEF IInv, QueueInv, LockInv
<1>3. CASE \E b \in Sends : (Send(b) \/ Enqueue(b)) /\ UNCHANGED callVars
  BY <1>1, <1>2, <1>3
  DEF Send, Enqueue, Refuse, Admit, Pend, Offer, CountAccepted, Overflow, CountDropped,
      SendGoes, Critical, counters
<1>4. CASE Worker /\ UNCHANGED callVars
  BY <1>4 DEF Stopped, Worker, Take, Begin, Post, ExportEnds, Clear, Settle, Exit, WorkerGoes
<1>5. CASE \E c \in Calls : Call(c) \/ Lifecycle(c) \/ Expire(c)
  BY <1>1, <1>5
  DEF Call, Lifecycle, Expire, Close, PollDrained, PollPending, Tick, GiveUpFlush, Stop,
      SeeStopped, GiveUpStop, CloseAcceptance, SignalDone, queueVars, counters
<1>6. CASE Idle \/ UNCHANGED vars
  BY <1>6 DEF Idle, vars, queueVars
<1> QED
  BY <1>3, <1>4, <1>5, <1>6 DEF Next

\* After a Shutdown that returned true nothing is accepted, taken or posted
\* any more, whatever else the program calls.
THEOREM Finality == Spec => FinalAfterShutdown
<1>1. IInv /\ [Next]_vars =>
        [(\E c \in ShutdownCalls : result[c]) =>
            UNCHANGED << closed, queue, pending, inFlight, accepted, delivered, failed,
                         acceptLog, attempted >>]_vars
  BY StoppedIsFinal DEF IInv, CallInv, StopInv
<1> QED
  BY Invariance, <1>1, PTL DEF Spec, FinalAfterShutdown

\* HTTPTransport implements the delivery contract, step by step.
THEOREM Implementation == Spec => KeepsContract
<1>1. Init => Promise!ContractInit
  <2> SUFFICES ASSUME Init PROVE Promise!ContractInit
    OBVIOUS
  <2>1. acceptLog = << >> /\ Len(attempted) = 0 /\ Stopped = FALSE
    BY DEF Init, BatchInit, Stopped
  <2> QED
    BY <2>1 DEF Promise!ContractInit, Init, BatchInit
<1>2. IInv /\ IInv' /\ [Next]_vars => [Promise!ContractNext]_(Promise!contractVars)
  <2> SUFFICES ASSUME IInv, IInv', [Next]_vars
               PROVE  [Promise!ContractNext]_(Promise!contractVars)
    OBVIOUS
  <2>1. QueueInv /\ QueueInv'
    BY DEF IInv
  <2>2. CASE QueueStep
    BY <2>1, <2>2, QueueStepRefines
  <2>3. CASE \E c \in Calls : Close(c)
    BY <2>1, <2>3, CloseRefines DEF Close
  <2>4. CASE UNCHANGED << configured, closed, acceptLog, attempted, worker >>
    BY <2>4 DEF Promise!contractVars, Stopped
  <2>5. ASSUME NEW c \in Calls, Call(c) \/ Lifecycle(c) \/ Expire(c), ~ Close(c)
        PROVE  UNCHANGED << configured, closed, acceptLog, attempted, worker >>
    BY <2>5
    DEF Call, Lifecycle, Expire, PollDrained, PollPending, Tick, GiveUpFlush, Stop,
        SeeStopped, GiveUpStop, SignalDone, queueVars
  <2>6. CASE Idle \/ UNCHANGED vars
    BY <2>4, <2>6 DEF Idle, vars, queueVars
  <2> QED
    BY <2>2, <2>3, <2>4, <2>5, <2>6, WorkerIsWork DEF Next, QueueStep
<1> QED
  BY Invariance, <1>1, <1>2, PTL DEF Spec, KeepsContract, Promise!Contract

-----------------------------------------------------------------------------
(* Diagnostics *)

\* The counters never go back and closed stays set, whatever step is taken.
LEMMA TransportMovesForward ==
    ASSUME IInv, [Next]_vars
    PROVE  /\ accepted <= accepted' /\ delivered <= delivered'
           /\ dropped <= dropped' /\ failed <= failed'
           /\ closed => closed'
<1>0. accepted \in Nat /\ delivered \in Nat /\ dropped \in Nat /\ failed \in Nat
  BY DEF IInv, QueueInv, QueueTypeOK
<1>1. CASE \E b \in Sends : (Send(b) \/ Enqueue(b)) /\ UNCHANGED callVars
  BY <1>0, <1>1
  DEF Send, Enqueue, Refuse, Admit, Pend, Offer, CountAccepted, Overflow, CountDropped, counters
<1>2. CASE Worker /\ UNCHANGED callVars
  BY <1>0, <1>2, WorkerIsWork DEF Work, Take, Begin, ExportEnds, Clear, Settle, Exit, counters
<1>3. CASE \E c \in Calls : Call(c) \/ Lifecycle(c) \/ Expire(c)
  <2>1. CASE \E c \in Calls : Close(c)
    BY <1>0, <2>1 DEF Close, CloseAcceptance, counters
  <2>2. ASSUME NEW c \in Calls, Call(c) \/ Lifecycle(c) \/ Expire(c), ~Close(c)
        PROVE  UNCHANGED << accepted, delivered, dropped, failed, closed >>
    BY <2>2
    DEF Call, Lifecycle, Expire, PollDrained, PollPending, Tick, GiveUpFlush, Stop,
        SeeStopped, GiveUpStop, SignalDone, queueVars, counters
  <2> QED
    BY <1>0, <1>3, <2>1, <2>2
<1>4. CASE Idle \/ UNCHANGED vars
  BY <1>0, <1>4 DEF Idle, vars, queueVars
<1> QED
  BY <1>1, <1>2, <1>3, <1>4 DEF Next

\* A stopped transport stays stopped and shows the same for good.
LEMMA StoppedShowsTheSame ==
    ASSUME IInv, Stopped, [Next]_vars
    PROVE  Stopped' /\ UNCHANGED << closed, queue, inFlight, accepted, delivered, failed >>
<1>1. UNCHANGED << closed, queue, inFlight, accepted, delivered, failed >>
  BY StoppedIsFinal
<1>2. CASE \E b \in Sends : (Send(b) \/ Enqueue(b)) /\ UNCHANGED callVars
  BY <1>1, <1>2, RestIsStable DEF QueueStep, IInv
<1>3. CASE Worker /\ UNCHANGED callVars
  BY <1>1, <1>3, WorkerIsWork, RestIsStable DEF QueueStep, IInv
<1>4. CASE \E c \in Calls : Call(c) \/ Lifecycle(c) \/ Expire(c)
  BY <1>1, <1>4
  DEF Call, Lifecycle, Expire, Close, PollDrained, PollPending, Tick, GiveUpFlush, Stop, Stopped,
      SeeStopped, GiveUpStop, CloseAcceptance, SignalDone, queueVars
<1>5. CASE Idle \/ UNCHANGED vars
  BY <1>1, <1>5 DEF Idle, vars, queueVars, Stopped
<1> QED
  BY <1>1, <1>2, <1>3, <1>4, <1>5 DEF Next

\* At most the one batch inside acceptMu is done before it is counted as accepted.
LEMMA DoneWithinAccepted ==
    ASSUME IInv
    PROVE  /\ delivered + failed <= accepted + 1
           /\ Stopped => accepted = delivered + failed
<1>1. /\ accepted \in Nat /\ delivered \in Nat /\ failed \in Nat
      /\ accepted + Uncounted = Len(acceptLog) /\ delivered + failed = Len(attempted)
  BY DEF IInv, QueueInv, QueueTypeOK, CountersAccount
<1>2. Len(attempted) \in Nat /\ Len(attempted) <= Len(acceptLog) /\ Len(acceptLog) \in Nat
  <2>1. Len(Held) \in Nat
    BY Outstanding DEF IInv
  <2> QED
    BY <2>1, Outstanding DEF IInv
<1>3. Uncounted \in {0, 1}
  BY DEF Uncounted
<1>4. ASSUME Stopped PROVE accepted = delivered + failed
  <2>1. acceptLog = attempted /\ acceptMu = Nobody
    BY <1>4, QueueInvNoLostBatch DEF IInv, NoLostBatch
  <2>2. Uncounted = 0
    BY <2>1 DEF Uncounted
  <2> QED
    BY <1>1, <2>1, <2>2
<1> QED
  BY <1>1, <1>2, <1>3, <1>4

-----------------------------------------------------------------------------
\* The types of what the reader holds.
LEMMA ReaderTypes ==
    ASSUME ReaderInv
    PROVE  /\ loaded \in 0 .. 6 /\ snapshot \in Snapshots /\ calm \in BOOLEAN
           /\ Len(reports) \in Nat
           /\ \A i \in 1 .. Len(reports) : reports[i].counts \in Snapshots
<1>1. /\ loaded \in 0 .. 6 /\ snapshot \in Snapshots /\ calm \in BOOLEAN
      /\ reports \in Seq([counts : Snapshots, calm : BOOLEAN])
  BY DEF ReaderInv, ReaderTypeOK
<1>2. ASSUME NEW i \in 1 .. Len(reports)
      PROVE  reports[i].counts \in Snapshots
  <2>1. reports[i] \in [counts : Snapshots, calm : BOOLEAN]
    BY <1>1, ElementOfSeq
  <2> QED
    BY <2>1
<1> QED
  BY <1>1, <1>2

\* What the loads would give has the type of a snapshot.
LEMMA CurrentType == IInv => Current \in Snapshots
BY DEF IInv, QueueInv, QueueTypeOK, Current, Snapshots

\* NotBehind, Follows and Same, of snapshots.
LEMMA NotBehindIsTransitive ==
    ASSUME NEW a \in Snapshots, NEW b \in Snapshots, NEW c \in Snapshots, NEW n \in 0 .. 7,
           NotBehind(a, b, n), NotBehind(b, c, 7)
    PROVE  NotBehind(a, c, n)
BY DEF NotBehind, Snapshots

LEMMA SameIsTransitive ==
    ASSUME NEW a, NEW b, NEW c, NEW n \in 0 .. 7, Same(a, b, n), Same(b, c, 7)
    PROVE  Same(a, c, n)
BY DEF Same

\* A step of the transport, as seen by the reader.
LEMMA CurrentMoves ==
    ASSUME IInv, [Next]_vars
    PROVE  /\ Current \in Snapshots /\ Current' \in Snapshots
           /\ NotBehind(Current, Current', 7)
           /\ Stopped => Stopped' /\ Same(Current, Current', 7)
<1>1. IInv'
  BY NextKeepsAll
<1>2. Current \in Snapshots /\ Current' \in Snapshots
  BY <1>1, CurrentType DEF IInv, QueueInv, QueueTypeOK, Current, Snapshots
<1>3. NotBehind(Current, Current', 7)
  BY TransportMovesForward DEF NotBehind, Current
<1>4. Stopped => Stopped' /\ Same(Current, Current', 7)
  BY StoppedShowsTheSame DEF Same, Current
<1> QED
  BY <1>2, <1>3, <1>4

\* A step of the transport keeps the reader's invariant.
LEMMA TransportKeepsReader ==
    ASSUME IInv, ReaderInv, [Next]_vars, UNCHANGED readerVars
    PROVE  ReaderInv'
<1>0. UNCHANGED << loaded, snapshot, calm, reports >>
  BY DEF readerVars
<1>1. ReaderTypeOK'
  BY <1>0 DEF ReaderInv, ReaderTypeOK
<1>2. /\ loaded \in 0 .. 7 /\ snapshot \in Snapshots
      /\ \A i \in 1 .. Len(reports) : reports[i].counts \in Snapshots
  BY ReaderTypes
<1>3. ASSUME NEW i \in 1 .. Len(reports)
      PROVE  /\ NotBehind(reports[i].counts, Current', 7)
             /\ reports[i].calm => Stopped' /\ Same(reports[i].counts, Current', 7)
             /\ i < Len(reports) => Follows(reports[i].counts, reports[i + 1].counts, 7)
  <2>1. /\ NotBehind(reports[i].counts, Current, 7)
        /\ reports[i].calm => Stopped /\ Same(reports[i].counts, Current, 7)
        /\ i < Len(reports) => Follows(reports[i].counts, reports[i + 1].counts, 7)
    BY DEF ReaderInv, ReportsInv
  <2>2. NotBehind(reports[i].counts, Current', 7)
    BY <1>2, <2>1, CurrentMoves, NotBehindIsTransitive
  <2>3. reports[i].calm => Stopped' /\ Same(reports[i].counts, Current', 7)
    BY <2>1, CurrentMoves, SameIsTransitive
  <2> QED
    BY <2>1, <2>2, <2>3
<1>4. /\ NotBehind(snapshot, Current', loaded)
      /\ loaded > 0 /\ calm => Stopped' /\ Same(snapshot, Current', loaded)
  BY <1>2, CurrentMoves, NotBehindIsTransitive, SameIsTransitive DEF ReaderInv, SnapshotInv
<1>5. ReportsInv'
  BY <1>0, <1>3 DEF ReportsInv
<1>6. SnapshotInv'
  BY <1>0, <1>4 DEF ReaderInv, SnapshotInv
<1> QED
  BY <1>1, <1>5, <1>6 DEF ReaderInv

\* The field that each load fills, and what a load that does not return does.
LEMMA OneLoad ==
    ASSUME NEW s \in Snapshots, NEW now \in Snapshots, NEW k \in 0 .. 6, NEW t,
           t = [s EXCEPT ![Fields[k + 1]] = now[Fields[k + 1]]]
    PROVE  /\ t \in Snapshots
           /\ NotBehind(s, now, k) => NotBehind(t, now, k + 1)
           /\ Same(s, now, k) => Same(t, now, k + 1)
           /\ \A a \in Snapshots :
                  /\ Follows(a, s, k)
                  /\ NotBehind(a, now, 7)
                  /\ a.delivered + a.failed <= now.accepted + 1
                  => Follows(a, t, k + 1)
<1>1. CASE k = 0
  <2>1. Fields[k + 1] = "accepted"
    BY <1>1 DEF Fields
  <2>2. t = [s EXCEPT !["accepted"] = now["accepted"]]
    BY <2>1
  <2> QED
    BY <1>1, <2>2 DEF Snapshots, NotBehind, Same, Follows
<1>2. CASE k = 1
  <2>1. Fields[k + 1] = "delivered"
    BY <1>2 DEF Fields
  <2>2. t = [s EXCEPT !["delivered"] = now["delivered"]]
    BY <2>1
  <2> QED
    BY <1>2, <2>2 DEF Snapshots, NotBehind, Same, Follows
<1>3. CASE k = 2
  <2>1. Fields[k + 1] = "dropped"
    BY <1>3 DEF Fields
  <2>2. t = [s EXCEPT !["dropped"] = now["dropped"]]
    BY <2>1
  <2> QED
    BY <1>3, <2>2 DEF Snapshots, NotBehind, Same, Follows
<1>4. CASE k = 3
  <2>1. Fields[k + 1] = "failed"
    BY <1>4 DEF Fields
  <2>2. t = [s EXCEPT !["failed"] = now["failed"]]
    BY <2>1
  <2> QED
    BY <1>4, <2>2 DEF Snapshots, NotBehind, Same, Follows
<1>5. CASE k = 4
  <2>1. Fields[k + 1] = "queued"
    BY <1>5 DEF Fields
  <2>2. t = [s EXCEPT !["queued"] = now["queued"]]
    BY <2>1
  <2> QED
    BY <1>5, <2>2 DEF Snapshots, NotBehind, Same, Follows
<1>6. CASE k = 5
  <2>1. Fields[k + 1] = "inFlight"
    BY <1>6 DEF Fields
  <2>2. t = [s EXCEPT !["inFlight"] = now["inFlight"]]
    BY <2>1
  <2> QED
    BY <1>6, <2>2 DEF Snapshots, NotBehind, Same, Follows
<1>7. CASE k = 6
  <2>1. Fields[k + 1] = "closed"
    BY <1>7 DEF Fields
  <2>2. t = [s EXCEPT !["closed"] = now["closed"]]
    BY <2>1
  <2> QED
    BY <1>7, <2>2 DEF Snapshots, NotBehind, Same, Follows
<1>8. k \in {0, 1, 2, 3, 4, 5, 6}
  OBVIOUS
<1> QED
  BY <1>1, <1>2, <1>3, <1>4, <1>5, <1>6, <1>7, <1>8

\* A load, the first or a later one, of a call of Diagnostics.
LEMMA LoadFills ==
    ASSUME IInv, ReaderInv, Load
    PROVE  /\ UNCHANGED vars
           /\ snapshot' \in Snapshots /\ calm' \in BOOLEAN
           /\ NotBehind(snapshot', Current, loaded + 1)
           /\ calm' => Stopped /\ Same(snapshot', Current, loaded + 1)
           /\ Len(reports) > 0 => Follows(reports[Len(reports)].counts, snapshot', loaded + 1)
           /\ \/ /\ loaded = 6 /\ loaded' = 0
                 /\ reports' = Append(reports, [counts |-> snapshot', calm |-> calm'])
              \/ loaded < 6 /\ loaded' = loaded + 1 /\ UNCHANGED reports
<1>1. /\ loaded \in 0 .. 6 /\ snapshot \in Snapshots /\ calm \in BOOLEAN
      /\ Current \in Snapshots
      /\ \A i \in 1 .. Len(reports) : reports[i].counts \in Snapshots
      /\ Len(reports) \in Nat
  BY CurrentType, ReaderTypes
<1>2. /\ snapshot' = [snapshot EXCEPT ![Fields[loaded + 1]] = Current[Fields[loaded + 1]]]
      /\ calm' = IF loaded = 0 THEN \E c \in ShutdownCalls : result[c] ELSE calm
      /\ UNCHANGED vars
      /\ IF loaded + 1 = 7
         THEN /\ loaded' = 0
              /\ reports' = Append(reports, [counts |-> snapshot', calm |-> calm'])
         ELSE loaded' = loaded + 1 /\ UNCHANGED reports
  BY DEF Load, Fields
<1>3. calm' \in BOOLEAN
  BY <1>1, <1>2
<1>4. NotBehind(snapshot, Current, loaded) /\ snapshot' \in Snapshots
  BY <1>1, <1>2, OneLoad DEF ReaderInv, SnapshotInv
<1>5. NotBehind(snapshot', Current, loaded + 1)
  BY <1>1, <1>2, <1>4, OneLoad
<1>6. ASSUME calm'
      PROVE  Stopped /\ Same(snapshot', Current, loaded + 1)
  <2>1. Stopped /\ Same(snapshot, Current, loaded)
    <3>1. CASE loaded = 0
      <4>1. PICK c \in ShutdownCalls : result[c]
        BY <1>2, <1>6, <3>1
      <4>2. Same(snapshot, Current, 0)
        BY DEF Same
      <4> QED
        BY <3>1, <4>1, <4>2 DEF IInv, CallInv, StopInv
    <3>2. CASE loaded # 0
      BY <1>1, <1>2, <1>6, <3>2 DEF ReaderInv, SnapshotInv
    <3> QED
      BY <3>1, <3>2
  <2> QED
    BY <1>1, <1>2, <2>1, OneLoad
<1>7. ASSUME Len(reports) > 0
      PROVE  Follows(reports[Len(reports)].counts, snapshot', loaded + 1)
  <2> DEFINE a == reports[Len(reports)].counts
  <2>1. a \in Snapshots /\ NotBehind(a, Current, 7) /\ Follows(a, snapshot, loaded)
    BY <1>1, <1>7 DEF ReaderInv, ReportsInv, SnapshotInv
  <2>2. a.delivered + a.failed <= Current.accepted + 1
    <3>1. a.delivered <= delivered /\ a.failed <= failed
      BY <2>1 DEF NotBehind, Current
    <3>2. /\ a.delivered \in Nat /\ a.failed \in Nat
          /\ accepted \in Nat /\ delivered \in Nat /\ failed \in Nat
      BY <2>1 DEF Snapshots, IInv, QueueInv, QueueTypeOK
    <3>3. delivered + failed <= accepted + 1 /\ Current.accepted = accepted
      BY DoneWithinAccepted DEF Current
    <3> QED
      BY <3>1, <3>2, <3>3
  <2> QED
    BY <1>1, <1>2, <2>1, <2>2, OneLoad
<1>8. \/ /\ loaded = 6 /\ loaded' = 0
         /\ reports' = Append(reports, [counts |-> snapshot', calm |-> calm'])
      \/ loaded < 6 /\ loaded' = loaded + 1 /\ UNCHANGED reports
  BY <1>1, <1>2
<1>9. UNCHANGED vars
  BY <1>2
<1> QED
  BY <1>3, <1>4, <1>5, <1>6, <1>7, <1>8, <1>9

\* A load keeps the reader's invariant: the last one makes a report of it.
LEMMA LoadKeepsReader ==
    ASSUME IInv, ReaderInv, Load
    PROVE  ReaderInv'
<1>1. /\ reports \in Seq([counts : Snapshots, calm : BOOLEAN])
      /\ loaded \in 0 .. 6 /\ Len(reports) \in Nat
  BY DEF ReaderInv, ReaderTypeOK
<1>2. Current' = Current /\ Stopped' = Stopped
  BY LoadFills DEF vars, queueVars, Current, Stopped
<1>3. CASE loaded < 6
  <2>1. loaded' = loaded + 1 /\ reports' = reports
    BY <1>1, <1>3, LoadFills
  <2>2. ReaderTypeOK'
    BY <1>1, <1>3, <2>1, LoadFills DEF ReaderInv, ReaderTypeOK
  <2>3. ReportsInv'
    BY <1>2, <2>1 DEF ReaderInv, ReportsInv
  <2>4. SnapshotInv'
    BY <1>2, <2>1, LoadFills DEF SnapshotInv
  <2> QED
    BY <2>2, <2>3, <2>4 DEF ReaderInv
<1>4. CASE loaded = 6
  <2> DEFINE entry == [counts |-> snapshot', calm |-> calm']
  <2>1. loaded' = 0 /\ reports' = Append(reports, entry)
    BY <1>4, LoadFills
  <2>2. /\ entry \in [counts : Snapshots, calm : BOOLEAN]
        /\ entry.counts = snapshot' /\ entry.calm = calm'
    BY LoadFills
  <2>3. /\ NotBehind(entry.counts, Current, 7)
        /\ entry.calm => Stopped /\ Same(entry.counts, Current, 7)
        /\ Len(reports) > 0 => Follows(reports[Len(reports)].counts, entry.counts, 7)
    BY <1>4, <2>2, LoadFills
  <2> HIDE DEF entry
  <2>4. /\ reports' \in Seq([counts : Snapshots, calm : BOOLEAN])
        /\ Len(reports') = Len(reports) + 1
        /\ \A i \in 1 .. Len(reports) : reports'[i] = reports[i]
        /\ reports'[Len(reports) + 1] = entry
    BY <1>1, <2>1, <2>2
  <2>5. ReaderTypeOK'
    BY <2>1, <2>4, LoadFills DEF ReaderTypeOK
  <2>6. ReportsInv'
    <3> SUFFICES ASSUME NEW i \in 1 .. Len(reports')
                 PROVE  /\ NotBehind(reports'[i].counts, Current, 7)
                        /\ reports'[i].calm => Stopped /\ Same(reports'[i].counts, Current, 7)
                        /\ i < Len(reports') =>
                              Follows(reports'[i].counts, reports'[i + 1].counts, 7)
      BY <1>2 DEF ReportsInv
    <3>1. CASE i = Len(reports) + 1
      BY <1>1, <2>3, <2>4, <3>1
    <3>2. CASE i = Len(reports) /\ Len(reports) > 0
      BY <1>1, <2>3, <2>4, <3>2 DEF ReaderInv, ReportsInv
    <3>3. CASE i \in 1 .. Len(reports) - 1
      <4>1. reports'[i] = reports[i] /\ reports'[i + 1] = reports[i + 1]
        BY <1>1, <2>4, <3>3
      <4> QED
        BY <1>1, <3>3, <4>1 DEF ReaderInv, ReportsInv
    <3> QED
      BY <1>1, <2>4, <3>1, <3>2, <3>3
  <2>7. SnapshotInv'
    BY <2>1 DEF SnapshotInv, NotBehind, Follows
  <2> QED
    BY <2>5, <2>6, <2>7 DEF ReaderInv
<1> QED
  BY <1>1, <1>3, <1>4

-----------------------------------------------------------------------------
\* A health check against an HTTPTransport keeps both invariants.
THEOREM ReaderInvariance == DiagnosticsSpec => [](IInv /\ ReaderInv)
<1>1. DiagnosticsInit => IInv /\ ReaderInv
  <2> SUFFICES ASSUME DiagnosticsInit PROVE IInv /\ ReaderInv
    OBVIOUS
  <2>1. IInv
    BY InitInv DEF DiagnosticsInit
  <2>2. /\ loaded = 0 /\ snapshot \in Snapshots /\ calm = FALSE
        /\ reports \in Seq([counts : Snapshots, calm : BOOLEAN]) /\ Len(reports) = 0
    BY <2>1, CurrentType DEF DiagnosticsInit
  <2>3. ReaderTypeOK
    <3>1. loaded \in 0 .. 6
      BY <2>2
    <3>2. calm \in BOOLEAN
      BY DEF DiagnosticsInit
    <3> QED
      BY <2>2, <3>1, <3>2 DEF ReaderTypeOK
  <2>4. ReportsInv
    BY <2>2 DEF ReportsInv
  <2>5. SnapshotInv
    BY <2>2 DEF SnapshotInv, NotBehind
  <2> QED
    BY <2>1, <2>3, <2>4, <2>5 DEF ReaderInv
<1>2. IInv /\ ReaderInv /\ [DiagnosticsNext]_<< vars, readerVars >> => IInv' /\ ReaderInv'
  <2> SUFFICES ASSUME IInv, ReaderInv, [DiagnosticsNext]_<< vars, readerVars >>
               PROVE  IInv' /\ ReaderInv'
    OBVIOUS
  <2>1. CASE [Next]_vars /\ UNCHANGED readerVars
    BY <2>1, NextKeepsAll, TransportKeepsReader
  <2>2. CASE Load
    BY <2>2, LoadFills, StutterKeepsAll, LoadKeepsReader
  <2> QED
    BY <2>1, <2>2 DEF DiagnosticsNext
<1> QED
  BY <1>1, <1>2, PTL DEF DiagnosticsSpec

\* Successive reports never go back, and a report makes up for the one before
\* (Diagnostics, which takes no lock).
THEOREM Monotonicity == DiagnosticsSpec => []ReportsMonotonic
<1>1. ReaderInv => ReportsMonotonic
  <2> SUFFICES ASSUME ReaderInv, NEW i \in 1 .. Len(reports) - 1
               PROVE  LET a == reports[i].counts
                          b == reports[i + 1].counts
                      IN  /\ \A f \in {"accepted", "delivered", "dropped", "failed"} : a[f] <= b[f]
                          /\ a.closed => b.closed
                          /\ a.delivered + a.failed <= b.accepted + 1
    BY DEF ReportsMonotonic
  <2>1. Len(reports) \in Nat
    BY DEF ReaderInv, ReaderTypeOK
  <2>2. Follows(reports[i].counts, reports[i + 1].counts, 7)
    BY <2>1 DEF ReaderInv, ReportsInv
  <2> QED
    BY <2>2 DEF Follows, NotBehind
<1> QED
  BY ReaderInvariance, <1>1, PTL

\* A report asked for after a Shutdown returned true is exact (Diagnostics, Shutdown).
THEOREM ExactAfterShutdown == DiagnosticsSpec => []ShutdownReportExact
<1>1. IInv /\ ReaderInv => ShutdownReportExact
  <2> SUFFICES ASSUME IInv, ReaderInv, NEW i \in 1 .. Len(reports), reports[i].calm
               PROVE  LET counts == reports[i].counts
                      IN  /\ counts.accepted = counts.delivered + counts.failed
                          /\ counts.queued = 0 /\ counts.inFlight = 0 /\ counts.closed
    BY DEF ShutdownReportExact
  <2>1. Stopped /\ Same(reports[i].counts, Current, 7)
    BY DEF ReaderInv, ReportsInv
  <2>2. closed /\ Len(queue) = 0 /\ inFlight = 0
    BY <2>1, QueueInvNoLostBatch
    DEF IInv, NoLostBatch, QueueInv, ExitInv, DoneInv, WorkerInv, Stopped
  <2>3. accepted = delivered + failed
    BY <2>1, DoneWithinAccepted
  <2>4. /\ Current.accepted = Current.delivered + Current.failed
        /\ Current.queued = 0 /\ Current.inFlight = 0 /\ Current.closed
    BY <2>2, <2>3 DEF Current
  <2> DEFINE counts == reports[i].counts
  <2>5. /\ counts.accepted = Current.accepted /\ counts.delivered = Current.delivered
        /\ counts.failed = Current.failed /\ counts.queued = Current.queued
        /\ counts.inFlight = Current.inFlight /\ counts.closed = Current.closed
    BY <2>1 DEF Same
  <2> QED
    BY <2>4, <2>5
<1> QED
  BY ReaderInvariance, <1>1, PTL

=============================================================================
