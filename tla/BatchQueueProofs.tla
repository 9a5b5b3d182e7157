-------------------------- MODULE BatchQueueProofs --------------------------
(***************************************************************************)
(* Every step of Send, of the worker and of Shutdown on the queue keeps    *)
(* QueueInv.  The proofs of HTTPTransport and managedExporter cite these   *)
(* lemmas: they hold whatever the rest of the transport does.              *)
(***************************************************************************)
EXTENDS BatchQueue, TLAPS, SequenceTheorems, FiniteSetTheorems

\* Moving the head of the queue into the worker's hands keeps the order.
LEMMA HeadMoves ==
    ASSUME NEW S, NEW s \in Seq(S), NEW q \in Seq(S), q # << >>
    PROVE  /\ Head(q) \in S /\ Tail(q) \in Seq(S)
           /\ Len(Tail(q)) = Len(q) - 1
           /\ (s \o << Head(q) >>) \o Tail(q) = s \o q
<1>1. Head(q) \in S /\ Tail(q) \in Seq(S) /\ Len(Tail(q)) = Len(q) - 1
  BY HeadTailProperties
<1>2. q = << Head(q) >> \o Tail(q)
  <2>1. << Head(q) >> \in Seq(S) /\ Len(<< Head(q) >>) = 1
    BY <1>1
  <2>2. \A i \in 1 .. Len(q) : q[i] = (<< Head(q) >> \o Tail(q))[i]
    BY <1>1, <2>1, HeadTailProperties, ConcatProperties
  <2> QED
    BY <1>1, <2>1, <2>2, HeadTailProperties, ConcatProperties, SeqEqual
<1>3. (s \o << Head(q) >>) \o Tail(q) = s \o (<< Head(q) >> \o Tail(q))
  BY <1>1, ConcatAssociative
<1> QED
  BY <1>1, <1>2, <1>3

\* A Send that moves on without touching the log keeps the log's invariant.
LEMMA LogStays ==
    ASSUME QueueInv, NEW b \in Sends, UNCHANGED acceptLog,
           sendPC[b] \notin {"count", "returned"} \/ sendPC'[b] \in {"count", "returned"},
           \A s \in Sends : s # b => sendPC'[s] = sendPC[s]
    PROVE  LogInv'
<1>1. \A i \in 1 .. Len(acceptLog) : acceptLog[i] \in Sends
  BY ElementOfSeq DEF QueueInv, QueueTypeOK
<1> QED
  BY <1>1 DEF QueueInv, LogInv

\* Send: the call of Send changes nothing but its own pc.
LEMMA SendKeeps ==
    ASSUME QueueInv, NEW b \in Sends, Send(b)
    PROVE  QueueInv'
<1>1. QueueTypeOK'
  BY DEF QueueInv, Send, SendGoes, counters, QueueTypeOK, SendStates, WorkerStates, PendingAccounts, WorkerInv,
         WorkerShare, SenderShare
<1>2. (LockInv /\ ClosedInv)'
  BY NobodyAssumption
  DEF QueueInv, Send, SendGoes, counters, LockInv, ClosedInv, Critical, QueueTypeOK, SendStates
<1>3. (PendingAccounts /\ DoneInv /\ ExitInv /\ WithinCapacity /\ WorkerInv)'
  BY CapacityAssumption, NobodyAssumption
  DEF QueueInv, Send, SendGoes, counters, PendingAccounts, DoneInv, ExitInv, WithinCapacity, WorkerInv, ClosedInv,
         WorkerShare, SenderShare, Stopped, LockInv, Critical, QueueTypeOK, SendStates,
         WorkerStates
<1>4. (FifoOnce /\ CountersAccount)'
  BY NobodyAssumption
  DEF QueueInv, Send, SendGoes, counters, FifoOnce, CountersAccount, Held, Uncounted,
         QueueTypeOK, LockInv, Critical
<1>5. LogInv'
  <2>1. /\ UNCHANGED acceptLog
        /\ sendPC[b] \notin {"count", "returned"} \/ sendPC'[b] \in {"count", "returned"}
        /\ \A s \in Sends : s # b => sendPC'[s] = sendPC[s]
    BY DEF QueueInv, QueueTypeOK, Send, SendGoes
  <2> QED
    BY <2>1, LogStays
<1> QED
  BY <1>1, <1>2, <1>3, <1>4, <1>5 DEF QueueInv

\* Refuse: refusing a batch leaves the queue alone.
LEMMA RefuseKeeps ==
    ASSUME QueueInv, NEW b \in Sends, Refuse(b)
    PROVE  QueueInv'
<1>1. QueueTypeOK'
  BY DEF QueueInv, Refuse, SendGoes, counters, QueueTypeOK, SendStates, WorkerStates, PendingAccounts, WorkerInv,
         WorkerShare, SenderShare
<1>2. (LockInv /\ ClosedInv)'
  BY NobodyAssumption
  DEF QueueInv, Refuse, SendGoes, counters, LockInv, ClosedInv, Critical, QueueTypeOK, SendStates
<1>3. (PendingAccounts /\ DoneInv /\ ExitInv /\ WithinCapacity /\ WorkerInv)'
  BY CapacityAssumption, NobodyAssumption
  DEF QueueInv, Refuse, SendGoes, counters, PendingAccounts, DoneInv, ExitInv, WithinCapacity, WorkerInv, ClosedInv,
         WorkerShare, SenderShare, Stopped, LockInv, Critical, QueueTypeOK, SendStates,
         WorkerStates
<1>4. (FifoOnce /\ CountersAccount)'
  BY NobodyAssumption
  DEF QueueInv, Refuse, SendGoes, counters, FifoOnce, CountersAccount, Held, Uncounted,
         QueueTypeOK, LockInv, Critical
<1>5. LogInv'
  <2>1. /\ UNCHANGED acceptLog
        /\ sendPC[b] \notin {"count", "returned"} \/ sendPC'[b] \in {"count", "returned"}
        /\ \A s \in Sends : s # b => sendPC'[s] = sendPC[s]
    BY DEF QueueInv, QueueTypeOK, Refuse, SendGoes
  <2> QED
    BY <2>1, LogStays
<1> QED
  BY <1>1, <1>2, <1>3, <1>4, <1>5 DEF QueueInv

\* Admit: the mutex is taken only while acceptance is open.
LEMMA AdmitKeeps ==
    ASSUME QueueInv, NEW b \in Sends, Admit(b)
    PROVE  QueueInv'
<1>1. QueueTypeOK'
  BY DEF QueueInv, Admit, SendGoes, counters, QueueTypeOK, SendStates, WorkerStates, PendingAccounts, WorkerInv,
         WorkerShare, SenderShare
<1>2. (LockInv /\ ClosedInv)'
  BY NobodyAssumption
  DEF QueueInv, Admit, SendGoes, counters, LockInv, ClosedInv, Critical, QueueTypeOK, SendStates
<1>3. (PendingAccounts /\ DoneInv /\ ExitInv /\ WithinCapacity /\ WorkerInv)'
  BY CapacityAssumption, NobodyAssumption
  DEF QueueInv, Admit, SendGoes, counters, PendingAccounts, DoneInv, ExitInv, WithinCapacity, WorkerInv, ClosedInv,
         WorkerShare, SenderShare, Stopped, LockInv, Critical, QueueTypeOK, SendStates,
         WorkerStates
<1>4. (FifoOnce /\ CountersAccount)'
  BY NobodyAssumption
  DEF QueueInv, Admit, SendGoes, counters, FifoOnce, CountersAccount, Held, Uncounted,
         QueueTypeOK, LockInv, Critical
<1>5. LogInv'
  <2>1. /\ UNCHANGED acceptLog
        /\ sendPC[b] \notin {"count", "returned"} \/ sendPC'[b] \in {"count", "returned"}
        /\ \A s \in Sends : s # b => sendPC'[s] = sendPC[s]
    BY DEF QueueInv, QueueTypeOK, Admit, SendGoes
  <2> QED
    BY <2>1, LogStays
<1> QED
  BY <1>1, <1>2, <1>3, <1>4, <1>5 DEF QueueInv

\* Pend: `pending` is raised before the batch is in the channel.
LEMMA PendKeeps ==
    ASSUME QueueInv, NEW b \in Sends, Pend(b)
    PROVE  QueueInv'
<1>1. acceptMu = b /\ b # Nobody
  BY NobodyAssumption DEF QueueInv, LockInv, Critical, Pend, SendGoes
<1>2. QueueTypeOK'
  BY <1>1
  DEF QueueInv, Pend, SendGoes, counters, QueueTypeOK, SendStates, WorkerStates, PendingAccounts, WorkerInv,
         WorkerShare, SenderShare
<1>3. (LockInv /\ ClosedInv)'
  BY <1>1, NobodyAssumption
  DEF QueueInv, Pend, SendGoes, counters, LockInv, ClosedInv, Critical, QueueTypeOK, SendStates
<1>4. (PendingAccounts /\ DoneInv /\ ExitInv /\ WithinCapacity /\ WorkerInv)'
  BY <1>1, CapacityAssumption, NobodyAssumption
  DEF QueueInv, Pend, SendGoes, counters, PendingAccounts, DoneInv, ExitInv, WithinCapacity, WorkerInv, ClosedInv,
         WorkerShare, SenderShare, Stopped, LockInv, Critical, QueueTypeOK, SendStates,
         WorkerStates
<1>5. (FifoOnce /\ CountersAccount)'
  BY <1>1, NobodyAssumption
  DEF QueueInv, Pend, SendGoes, counters, FifoOnce, CountersAccount, Held, Uncounted,
         QueueTypeOK, LockInv, Critical
<1>6. LogInv'
  <2>1. /\ UNCHANGED acceptLog
        /\ sendPC[b] \notin {"count", "returned"} \/ sendPC'[b] \in {"count", "returned"}
        /\ \A s \in Sends : s # b => sendPC'[s] = sendPC[s]
    BY DEF QueueInv, QueueTypeOK, Pend, SendGoes
  <2> QED
    BY <2>1, LogStays
<1> QED
  BY <1>2, <1>3, <1>4, <1>5, <1>6 DEF QueueInv

\* CountAccepted: the batch is counted after it is in the channel.
LEMMA CountAcceptedKeeps ==
    ASSUME QueueInv, NEW b \in Sends, CountAccepted(b)
    PROVE  QueueInv'
<1>1. acceptMu = b /\ b # Nobody
  BY NobodyAssumption DEF QueueInv, LockInv, Critical, CountAccepted, SendGoes
<1>2. QueueTypeOK'
  BY <1>1
  DEF QueueInv, CountAccepted, SendGoes, counters, QueueTypeOK, SendStates, WorkerStates, PendingAccounts, WorkerInv,
         WorkerShare, SenderShare
<1>3. (LockInv /\ ClosedInv)'
  BY <1>1, NobodyAssumption
  DEF QueueInv, CountAccepted, SendGoes, counters, LockInv, ClosedInv, Critical, QueueTypeOK, SendStates
<1>4. (PendingAccounts /\ DoneInv /\ ExitInv /\ WithinCapacity /\ WorkerInv)'
  BY <1>1, CapacityAssumption, NobodyAssumption
  DEF QueueInv, CountAccepted, SendGoes, counters, PendingAccounts, DoneInv, ExitInv, WithinCapacity, WorkerInv, ClosedInv,
         WorkerShare, SenderShare, Stopped, LockInv, Critical, QueueTypeOK, SendStates,
         WorkerStates
<1>5. (FifoOnce /\ CountersAccount)'
  BY <1>1, NobodyAssumption
  DEF QueueInv, CountAccepted, SendGoes, counters, FifoOnce, CountersAccount, Held, Uncounted,
         QueueTypeOK, LockInv, Critical
<1>6. LogInv'
  <2>1. /\ UNCHANGED acceptLog
        /\ sendPC[b] \notin {"count", "returned"} \/ sendPC'[b] \in {"count", "returned"}
        /\ \A s \in Sends : s # b => sendPC'[s] = sendPC[s]
    BY DEF QueueInv, QueueTypeOK, CountAccepted, SendGoes
  <2> QED
    BY <2>1, LogStays
<1> QED
  BY <1>2, <1>3, <1>4, <1>5, <1>6 DEF QueueInv

\* Overflow: a full channel gives the unit of `pending` back.
LEMMA OverflowKeeps ==
    ASSUME QueueInv, NEW b \in Sends, Overflow(b)
    PROVE  QueueInv'
<1>1. acceptMu = b /\ b # Nobody
  BY NobodyAssumption DEF QueueInv, LockInv, Critical, Overflow, SendGoes
<1>2. QueueTypeOK'
  BY <1>1
  DEF QueueInv, Overflow, SendGoes, counters, QueueTypeOK, SendStates, WorkerStates, PendingAccounts, WorkerInv,
         WorkerShare, SenderShare
<1>3. (LockInv /\ ClosedInv)'
  BY <1>1, NobodyAssumption
  DEF QueueInv, Overflow, SendGoes, counters, LockInv, ClosedInv, Critical, QueueTypeOK, SendStates
<1>4. (PendingAccounts /\ DoneInv /\ ExitInv /\ WithinCapacity /\ WorkerInv)'
  BY <1>1, CapacityAssumption, NobodyAssumption
  DEF QueueInv, Overflow, SendGoes, counters, PendingAccounts, DoneInv, ExitInv, WithinCapacity, WorkerInv, ClosedInv,
         WorkerShare, SenderShare, Stopped, LockInv, Critical, QueueTypeOK, SendStates,
         WorkerStates
<1>5. (FifoOnce /\ CountersAccount)'
  BY <1>1, NobodyAssumption
  DEF QueueInv, Overflow, SendGoes, counters, FifoOnce, CountersAccount, Held, Uncounted,
         QueueTypeOK, LockInv, Critical
<1>6. LogInv'
  <2>1. /\ UNCHANGED acceptLog
        /\ sendPC[b] \notin {"count", "returned"} \/ sendPC'[b] \in {"count", "returned"}
        /\ \A s \in Sends : s # b => sendPC'[s] = sendPC[s]
    BY DEF QueueInv, QueueTypeOK, Overflow, SendGoes
  <2> QED
    BY <2>1, LogStays
<1> QED
  BY <1>2, <1>3, <1>4, <1>5, <1>6 DEF QueueInv

\* CountDropped: the dropped batch is counted.
LEMMA CountDroppedKeeps ==
    ASSUME QueueInv, NEW b \in Sends, CountDropped(b)
    PROVE  QueueInv'
<1>1. acceptMu = b /\ b # Nobody
  BY NobodyAssumption DEF QueueInv, LockInv, Critical, CountDropped, SendGoes
<1>2. QueueTypeOK'
  BY <1>1
  DEF QueueInv, CountDropped, SendGoes, counters, QueueTypeOK, SendStates, WorkerStates, PendingAccounts, WorkerInv,
         WorkerShare, SenderShare
<1>3. (LockInv /\ ClosedInv)'
  BY <1>1, NobodyAssumption
  DEF QueueInv, CountDropped, SendGoes, counters, LockInv, ClosedInv, Critical, QueueTypeOK, SendStates
<1>4. (PendingAccounts /\ DoneInv /\ ExitInv /\ WithinCapacity /\ WorkerInv)'
  BY <1>1, CapacityAssumption, NobodyAssumption
  DEF QueueInv, CountDropped, SendGoes, counters, PendingAccounts, DoneInv, ExitInv, WithinCapacity, WorkerInv, ClosedInv,
         WorkerShare, SenderShare, Stopped, LockInv, Critical, QueueTypeOK, SendStates,
         WorkerStates
<1>5. (FifoOnce /\ CountersAccount)'
  BY <1>1, NobodyAssumption
  DEF QueueInv, CountDropped, SendGoes, counters, FifoOnce, CountersAccount, Held, Uncounted,
         QueueTypeOK, LockInv, Critical
<1>6. LogInv'
  <2>1. /\ UNCHANGED acceptLog
        /\ sendPC[b] \notin {"count", "returned"} \/ sendPC'[b] \in {"count", "returned"}
        /\ \A s \in Sends : s # b => sendPC'[s] = sendPC[s]
    BY DEF QueueInv, QueueTypeOK, CountDropped, SendGoes
  <2> QED
    BY <2>1, LogStays
<1> QED
  BY <1>2, <1>3, <1>4, <1>5, <1>6 DEF QueueInv

\* Offer: the batch enters the channel.
LEMMA OfferKeeps ==
    ASSUME QueueInv, NEW b \in Sends, Offer(b)
    PROVE  QueueInv'
<1>1. acceptMu = b /\ b # Nobody
  BY NobodyAssumption DEF QueueInv, LockInv, Critical, Offer, SendGoes
<1>2. QueueTypeOK'
  BY <1>1
  DEF QueueInv, Offer, SendGoes, counters, QueueTypeOK, SendStates, WorkerStates, PendingAccounts, WorkerInv,
         WorkerShare, SenderShare
<1>3. (LockInv /\ ClosedInv)'
  BY <1>1, NobodyAssumption
  DEF QueueInv, Offer, SendGoes, counters, LockInv, ClosedInv, Critical, QueueTypeOK, SendStates
<1>4. (PendingAccounts /\ DoneInv /\ ExitInv /\ WithinCapacity /\ WorkerInv)'
  BY <1>1, CapacityAssumption, NobodyAssumption
  DEF QueueInv, Offer, SendGoes, counters, PendingAccounts, DoneInv, ExitInv, WithinCapacity, WorkerInv, ClosedInv,
         WorkerShare, SenderShare, Stopped, LockInv, Critical, QueueTypeOK, SendStates,
         WorkerStates
<1>5. (FifoOnce /\ LogInv /\ CountersAccount)'
  <2>1. /\ attempted \in Seq(Sends) /\ Held \in Seq(Sends) /\ queue \in Seq(Sends)
        /\ acceptLog \in Seq(Sends) /\ << b >> \in Seq(Sends)
        /\ acceptLog = (attempted \o Held) \o queue
    BY DEF QueueInv, QueueTypeOK, Held, WorkerInv, FifoOnce
  <2>2. /\ acceptLog' = acceptLog \o << b >> /\ queue' = queue \o << b >>
        /\ attempted' = attempted /\ Held' = Held
    BY <2>1, AppendIsConcat DEF Offer, Held
  <2>3. FifoOnce'
    <3>1. attempted \o Held \in Seq(Sends)
      BY <2>1, ConcatProperties
    <3>2. ((attempted \o Held) \o queue) \o << b >> = (attempted \o Held) \o (queue \o << b >>)
      BY <2>1, <3>1, ConcatAssociative
    <3> QED
      BY <2>1, <2>2, <3>2 DEF FifoOnce
  <2>4. LogInv'
    <3>1. \A i \in 1 .. Len(acceptLog) : acceptLog[i] \in Sends /\ acceptLog[i] # b
      BY <2>1, ElementOfSeq DEF QueueInv, LogInv, Offer, SendGoes
    <3>2. /\ Len(acceptLog') = Len(acceptLog) + 1
          /\ acceptLog'[Len(acceptLog) + 1] = b
          /\ \A i \in 1 .. Len(acceptLog) : acceptLog'[i] = acceptLog[i]
      BY <2>1, AppendProperties DEF Offer
    <3>3. /\ sendPC'[b] = "count"
          /\ \A s \in Sends : s # b => sendPC'[s] = sendPC[s]
      BY DEF QueueInv, QueueTypeOK, Offer, SendGoes
    <3>4. Len(acceptLog) \in Nat
      BY <2>1
    <3> QED
      BY <3>1, <3>2, <3>3, <3>4 DEF QueueInv, LogInv
  <2>5. CountersAccount'
    BY <1>1, <2>1, AppendProperties
    DEF CountersAccount, Uncounted, QueueInv, QueueTypeOK, Offer, SendGoes, counters
  <2> QED
    BY <2>3, <2>4, <2>5
<1> QED
  BY <1>2, <1>3, <1>4, <1>5 DEF QueueInv

\* Take: the worker receives.
LEMMA TakeKeeps ==
    ASSUME QueueInv, Take
    PROVE  QueueInv'
<1>1. QueueTypeOK'
  BY HeadMoves
  DEF QueueInv, Take, WorkerGoes, counters, QueueTypeOK, SendStates, WorkerStates, PendingAccounts, WorkerInv,
         WorkerShare, SenderShare
<1>2. (LockInv /\ ClosedInv)'
  BY NobodyAssumption
  DEF QueueInv, Take, WorkerGoes, counters, LockInv, ClosedInv, Critical, QueueTypeOK, SendStates
<1>3. (PendingAccounts /\ DoneInv /\ ExitInv /\ WithinCapacity /\ WorkerInv)'
  BY CapacityAssumption, NobodyAssumption
  DEF QueueInv, Take, WorkerGoes, counters, PendingAccounts, DoneInv, ExitInv, WithinCapacity, WorkerInv, ClosedInv,
         WorkerShare, SenderShare, Stopped, LockInv, Critical, QueueTypeOK, SendStates,
         WorkerStates
<1>4. (FifoOnce /\ LogInv /\ CountersAccount)'
  <2>1. /\ attempted \in Seq(Sends) /\ queue \in Seq(Sends) /\ queue # << >>
        /\ Held = << >> /\ Held' = << Head(queue) >> /\ queue' = Tail(queue)
        /\ attempted' = attempted /\ acceptLog' = acceptLog
    BY DEF QueueInv, QueueTypeOK, Held, Take, WorkerGoes
  <2>2. attempted \o Held = attempted
    BY <2>1, ConcatEmptySeq
  <2>3. FifoOnce'
    BY <2>1, <2>2, HeadMoves DEF FifoOnce, QueueInv
  <2>4. LogInv' /\ CountersAccount'
    BY DEF LogInv, CountersAccount, Uncounted, QueueInv, Take, counters
  <2> QED
    BY <2>3, <2>4
<1> QED
  BY <1>1, <1>2, <1>3, <1>4 DEF QueueInv

\* Begin: inFlight is set.
LEMMA BeginKeeps ==
    ASSUME QueueInv, Begin
    PROVE  QueueInv'
<1>1. QueueTypeOK'
  BY DEF QueueInv, Begin, WorkerGoes, counters, QueueTypeOK, SendStates, WorkerStates, PendingAccounts, WorkerInv,
         WorkerShare, SenderShare
<1>2. (LockInv /\ ClosedInv)'
  BY NobodyAssumption
  DEF QueueInv, Begin, WorkerGoes, counters, LockInv, ClosedInv, Critical, QueueTypeOK, SendStates
<1>3. (PendingAccounts /\ DoneInv /\ ExitInv /\ WithinCapacity /\ WorkerInv)'
  BY CapacityAssumption, NobodyAssumption
  DEF QueueInv, Begin, WorkerGoes, counters, PendingAccounts, DoneInv, ExitInv, WithinCapacity, WorkerInv, ClosedInv,
         WorkerShare, SenderShare, Stopped, LockInv, Critical, QueueTypeOK, SendStates,
         WorkerStates
<1>4. (FifoOnce /\ LogInv /\ CountersAccount)'
  BY NobodyAssumption, ElementOfSeq
  DEF QueueInv, Begin, WorkerGoes, counters, FifoOnce, LogInv, CountersAccount, Held, Uncounted, QueueTypeOK, WorkerInv,
         LockInv, Critical, SendStates
<1> QED
  BY <1>1, <1>2, <1>3, <1>4 DEF QueueInv

\* ExportEnds: the export ends, well or badly.
LEMMA ExportEndsKeeps ==
    ASSUME QueueInv, NEW ok \in BOOLEAN, ExportEnds(ok)
    PROVE  QueueInv'
<1>1. QueueTypeOK'
  BY DEF QueueInv, ExportEnds, WorkerGoes, counters, QueueTypeOK, SendStates, WorkerStates, PendingAccounts, WorkerInv,
         WorkerShare, SenderShare
<1>2. (LockInv /\ ClosedInv)'
  BY NobodyAssumption
  DEF QueueInv, ExportEnds, WorkerGoes, counters, LockInv, ClosedInv, Critical, QueueTypeOK, SendStates
<1>3. (PendingAccounts /\ DoneInv /\ ExitInv /\ WithinCapacity /\ WorkerInv)'
  BY CapacityAssumption, NobodyAssumption
  DEF QueueInv, ExportEnds, WorkerGoes, counters, PendingAccounts, DoneInv, ExitInv, WithinCapacity, WorkerInv, ClosedInv,
         WorkerShare, SenderShare, Stopped, LockInv, Critical, QueueTypeOK, SendStates,
         WorkerStates
<1>4. (FifoOnce /\ LogInv /\ CountersAccount)'
  <2>1. /\ attempted \in Seq(Sends) /\ << batch >> \in Seq(Sends) /\ queue \in Seq(Sends)
        /\ Held = << batch >> /\ Held' = << >>
    BY DEF QueueInv, QueueTypeOK, Held, WorkerInv, ExportEnds, WorkerGoes
  <2>2. /\ attempted' = attempted \o << batch >> /\ attempted' \in Seq(Sends)
        /\ Len(attempted') = Len(attempted) + 1
    BY <2>1, AppendIsConcat, AppendProperties DEF ExportEnds
  <2>3. attempted' \o Held' = attempted \o Held
    BY <2>1, <2>2, ConcatEmptySeq
  <2>4. FifoOnce'
    BY <2>3 DEF FifoOnce, QueueInv, ExportEnds
  <2>5. LogInv'
    BY DEF LogInv, QueueInv, ExportEnds
  <2>6. CountersAccount'
    BY <2>1, <2>2 DEF CountersAccount, Uncounted, QueueInv, QueueTypeOK, ExportEnds
  <2> QED
    BY <2>4, <2>5, <2>6
<1> QED
  BY <1>1, <1>2, <1>3, <1>4 DEF QueueInv

\* Clear: inFlight is reset.
LEMMA ClearKeeps ==
    ASSUME QueueInv, Clear
    PROVE  QueueInv'
<1>1. QueueTypeOK'
  BY DEF QueueInv, Clear, WorkerGoes, counters, QueueTypeOK, SendStates, WorkerStates, PendingAccounts, WorkerInv,
         WorkerShare, SenderShare
<1>2. (LockInv /\ ClosedInv)'
  BY NobodyAssumption
  DEF QueueInv, Clear, WorkerGoes, counters, LockInv, ClosedInv, Critical, QueueTypeOK, SendStates
<1>3. (PendingAccounts /\ DoneInv /\ ExitInv /\ WithinCapacity /\ WorkerInv)'
  BY CapacityAssumption, NobodyAssumption
  DEF QueueInv, Clear, WorkerGoes, counters, PendingAccounts, DoneInv, ExitInv, WithinCapacity, WorkerInv, ClosedInv,
         WorkerShare, SenderShare, Stopped, LockInv, Critical, QueueTypeOK, SendStates,
         WorkerStates
<1>4. (FifoOnce /\ LogInv /\ CountersAccount)'
  BY NobodyAssumption, ElementOfSeq
  DEF QueueInv, Clear, WorkerGoes, counters, FifoOnce, LogInv, CountersAccount, Held, Uncounted, QueueTypeOK, WorkerInv,
         LockInv, Critical, SendStates
<1> QED
  BY <1>1, <1>2, <1>3, <1>4 DEF QueueInv

\* Settle: `pending` is lowered last.
LEMMA SettleKeeps ==
    ASSUME QueueInv, Settle
    PROVE  QueueInv'
<1>1. QueueTypeOK'
  BY DEF QueueInv, Settle, WorkerGoes, counters, QueueTypeOK, SendStates, WorkerStates, PendingAccounts, WorkerInv,
         WorkerShare, SenderShare
<1>2. (LockInv /\ ClosedInv)'
  BY NobodyAssumption
  DEF QueueInv, Settle, WorkerGoes, counters, LockInv, ClosedInv, Critical, QueueTypeOK, SendStates
<1>3. (PendingAccounts /\ DoneInv /\ ExitInv /\ WithinCapacity /\ WorkerInv)'
  BY CapacityAssumption, NobodyAssumption
  DEF QueueInv, Settle, WorkerGoes, counters, PendingAccounts, DoneInv, ExitInv, WithinCapacity, WorkerInv, ClosedInv,
         WorkerShare, SenderShare, Stopped, LockInv, Critical, QueueTypeOK, SendStates,
         WorkerStates
<1>4. (FifoOnce /\ LogInv /\ CountersAccount)'
  BY NobodyAssumption, ElementOfSeq
  DEF QueueInv, Settle, WorkerGoes, counters, FifoOnce, LogInv, CountersAccount, Held, Uncounted, QueueTypeOK, WorkerInv,
         LockInv, Critical, SendStates
<1> QED
  BY <1>1, <1>2, <1>3, <1>4 DEF QueueInv

\* Exit: the worker stops on done.
LEMMA ExitKeeps ==
    ASSUME QueueInv, Exit
    PROVE  QueueInv'
<1>1. QueueTypeOK'
  BY DEF QueueInv, Exit, WorkerGoes, counters, QueueTypeOK, SendStates, WorkerStates, PendingAccounts, WorkerInv,
         WorkerShare, SenderShare
<1>2. (LockInv /\ ClosedInv)'
  BY NobodyAssumption
  DEF QueueInv, Exit, WorkerGoes, counters, LockInv, ClosedInv, Critical, QueueTypeOK, SendStates
<1>3. (PendingAccounts /\ DoneInv /\ ExitInv /\ WithinCapacity /\ WorkerInv)'
  BY CapacityAssumption, NobodyAssumption
  DEF QueueInv, Exit, WorkerGoes, counters, PendingAccounts, DoneInv, ExitInv, WithinCapacity, WorkerInv, ClosedInv,
         WorkerShare, SenderShare, Stopped, LockInv, Critical, QueueTypeOK, SendStates,
         WorkerStates
<1>4. (FifoOnce /\ LogInv /\ CountersAccount)'
  BY NobodyAssumption, ElementOfSeq
  DEF QueueInv, Exit, WorkerGoes, counters, FifoOnce, LogInv, CountersAccount, Held, Uncounted, QueueTypeOK, WorkerInv,
         LockInv, Critical, SendStates
<1> QED
  BY <1>1, <1>2, <1>3, <1>4 DEF QueueInv

\* CloseAcceptance: Shutdown closes acceptance under the mutex.
LEMMA CloseAcceptanceKeeps ==
    ASSUME QueueInv, CloseAcceptance
    PROVE  QueueInv'
<1>1. QueueTypeOK'
  BY DEF QueueInv, CloseAcceptance, counters, QueueTypeOK, SendStates, WorkerStates, PendingAccounts, WorkerInv,
         WorkerShare, SenderShare
<1>2. (LockInv /\ ClosedInv)'
  BY NobodyAssumption
  DEF QueueInv, CloseAcceptance, counters, LockInv, ClosedInv, Critical, QueueTypeOK, SendStates
<1>3. (PendingAccounts /\ DoneInv /\ ExitInv /\ WithinCapacity /\ WorkerInv)'
  BY CapacityAssumption, NobodyAssumption
  DEF QueueInv, CloseAcceptance, counters, PendingAccounts, DoneInv, ExitInv, WithinCapacity, WorkerInv, ClosedInv,
         WorkerShare, SenderShare, Stopped, LockInv, Critical, QueueTypeOK, SendStates,
         WorkerStates
<1>4. (FifoOnce /\ LogInv /\ CountersAccount)'
  BY NobodyAssumption, ElementOfSeq
  DEF QueueInv, CloseAcceptance, counters, FifoOnce, LogInv, CountersAccount, Held, Uncounted, QueueTypeOK, WorkerInv,
         LockInv, Critical, SendStates
<1> QED
  BY <1>1, <1>2, <1>3, <1>4 DEF QueueInv

\* SignalDone: Shutdown stops the worker only after it found the transport
\* closed and drained.
LEMMA SignalDoneKeeps ==
    ASSUME QueueInv, SignalDone, closed, pending = 0
    PROVE  QueueInv'
<1>1. (QueueTypeOK /\ LockInv /\ ClosedInv)'
  BY DEF QueueInv, SignalDone, counters, QueueTypeOK, LockInv, ClosedInv
<1>2. (PendingAccounts /\ DoneInv /\ ExitInv /\ WithinCapacity /\ WorkerInv)'
  BY DEF QueueInv, SignalDone, counters, PendingAccounts, DoneInv, ExitInv,
         WithinCapacity, WorkerInv, WorkerShare, SenderShare, Stopped
<1>3. (FifoOnce /\ LogInv /\ CountersAccount)'
  BY DEF QueueInv, SignalDone, counters, FifoOnce, LogInv, CountersAccount, Held,
         Uncounted
<1> QED
  BY <1>1, <1>2, <1>3 DEF QueueInv

\* The initial state satisfies the invariant.
LEMMA BatchInitInv == BatchInit => QueueInv
<1> SUFFICES ASSUME BatchInit PROVE QueueInv
  OBVIOUS
<1>1. QueueTypeOK /\ LockInv /\ ClosedInv
  <2>1. << >> \in Seq(Sends)
    BY EmptySeq
  <2>2. QueueTypeOK
    BY <2>1 DEF BatchInit, QueueTypeOK, SendStates, WorkerStates
  <2>3. LockInv /\ ClosedInv
    BY NobodyAssumption DEF BatchInit, LockInv, ClosedInv, Critical
  <2> QED
    BY <2>2, <2>3
<1>2. PendingAccounts /\ DoneInv /\ ExitInv /\ WithinCapacity /\ WorkerInv
  BY CapacityAssumption
  DEF BatchInit, PendingAccounts, DoneInv, ExitInv, WithinCapacity, WorkerInv,
      WorkerShare, SenderShare, Stopped
<1>3. FifoOnce /\ LogInv /\ CountersAccount
  <2>1. << >> \o << >> \o << >> = << >>
    BY ConcatEmptySeq, EmptySeq
  <2> QED
    BY <2>1 DEF BatchInit, FifoOnce, LogInv, CountersAccount, Held, Uncounted
<1> QED
  BY <1>1, <1>2, <1>3 DEF QueueInv

\* Every step of a Send or of the worker keeps the invariant.
LEMMA QueueStepKeeps ==
    ASSUME QueueInv, QueueStep
    PROVE  QueueInv'
<1>1. CASE \E b \in Sends : Send(b) \/ Enqueue(b)
  BY <1>1, SendKeeps, RefuseKeeps, AdmitKeeps, PendKeeps, OfferKeeps,
     CountAcceptedKeeps, OverflowKeeps, CountDroppedKeeps DEF Enqueue
<1>2. CASE Work
  BY <1>2, TakeKeeps, BeginKeeps, ExportEndsKeeps, ClearKeeps, SettleKeeps, ExitKeeps
  DEF Work
<1> QED
  BY <1>1, <1>2 DEF QueueStep

\* A step that changes none of the queue's variables keeps it.
LEMMA QueueStutterKeeps ==
    ASSUME QueueInv, UNCHANGED queueVars
    PROVE  QueueInv'
<1>1. (QueueTypeOK /\ LockInv /\ ClosedInv)'
  BY DEF QueueInv, queueVars, QueueTypeOK, LockInv, ClosedInv
<1>2. (PendingAccounts /\ DoneInv /\ ExitInv /\ WithinCapacity /\ WorkerInv)'
  BY DEF QueueInv, queueVars, PendingAccounts, DoneInv, ExitInv,
         WithinCapacity, WorkerInv, WorkerShare, SenderShare, Stopped
<1>3. (FifoOnce /\ LogInv /\ CountersAccount)'
  BY DEF QueueInv, queueVars, FifoOnce, LogInv, CountersAccount, Held, Uncounted
<1> QED
  BY <1>1, <1>2, <1>3 DEF QueueInv

\* The invariant implies that a stopped worker left nothing behind.
LEMMA QueueInvNoLostBatch == QueueInv => NoLostBatch
<1> SUFFICES ASSUME QueueInv, Stopped PROVE acceptLog = attempted /\ queue = << >> /\ acceptMu = Nobody
  BY DEF NoLostBatch
<1>1. closed /\ pending = 0 /\ acceptMu = Nobody
  BY DEF QueueInv, ExitInv, DoneInv, ClosedInv, QueueTypeOK
<1>2. Len(queue) = 0 /\ queue \in Seq(Sends) /\ attempted \in Seq(Sends)
  BY <1>1 DEF QueueInv, PendingAccounts, WorkerShare, SenderShare, QueueTypeOK, Stopped
<1>3. queue = << >>
  BY <1>2, EmptySeq
<1>4. acceptLog = (attempted \o << >>) \o << >>
  BY <1>3 DEF QueueInv, FifoOnce, Held, Stopped
<1> QED
  BY <1>1, <1>2, <1>3, <1>4, ConcatEmptySeq

\* The histories only grow.
LEMMA AppendGrows ==
    ASSUME NEW s \in Seq(Sends), NEW b \in Sends
    PROVE  ToSet(s) \subseteq ToSet(Append(s, b))
  BY AppendProperties DEF ToSet

\* Sends and the worker only extend the two histories.
LEMMA HistoriesGrow ==
    ASSUME QueueInv, QueueStep
    PROVE  /\ ToSet(acceptLog) \subseteq ToSet(acceptLog')
           /\ ToSet(attempted) \subseteq ToSet(attempted')
<1>1. acceptLog \in Seq(Sends) /\ attempted \in Seq(Sends)
  BY DEF QueueInv, QueueTypeOK
<1>2. /\ acceptLog' = acceptLog \/ \E b \in Sends : acceptLog' = Append(acceptLog, b)
      /\ attempted' = attempted \/ \E b \in Sends : attempted' = Append(attempted, b)
  BY DEF QueueInv, WorkerInv, QueueStep, Send, Enqueue, Refuse, Admit, Pend, Offer,
         CountAccepted, Overflow, CountDropped, Work, Take, Begin, ExportEnds, Clear,
         Settle, Exit, WorkerGoes
<1> QED
  BY <1>1, <1>2, AppendGrows

\* pending = 0 means that every batch the channel ever took has been attempted.
LEMMA DrainedMeansAttempted ==
    ASSUME QueueInv, pending = 0
    PROVE  acceptLog = attempted /\ queue = << >> /\ WorkerShare = 0
<1>1. queue \in Seq(Sends) /\ attempted \in Seq(Sends) /\ Len(queue) \in Nat
  BY DEF QueueInv, QueueTypeOK
<1>2. Len(queue) = 0 /\ WorkerShare = 0 /\ worker \notin {"taken", "exporting"}
  <2>1. 0 = Len(queue) + WorkerShare + SenderShare
    BY DEF QueueInv, PendingAccounts
  <2>2. WorkerShare \in {0, 1} /\ SenderShare \in {0, 1}
    BY DEF WorkerShare, SenderShare
  <2>3. Len(queue) = 0 /\ WorkerShare = 0
    BY <1>1, <2>1, <2>2
  <2> QED
    BY <2>3 DEF WorkerShare
<1>3. queue = << >>
  BY <1>2, <1>1, EmptySeq
<1>4. acceptLog = (attempted \o << >>) \o << >>
  BY <1>2, <1>3 DEF QueueInv, FifoOnce, Held
<1> QED
  BY <1>1, <1>2, <1>3, <1>4, ConcatEmptySeq

\* Closed and drained is for good, and so is a stopped worker.
LEMMA RestIsStable ==
    ASSUME QueueInv, QueueStep
    PROVE  /\ closed => closed'
           /\ closed /\ pending = 0 => pending' = 0
           /\ Stopped => Stopped'
<1>1. closed' = closed
  BY DEF QueueStep, Send, Enqueue, Refuse, Admit, Pend, Offer,
         CountAccepted, Overflow, CountDropped, Work, Take, Begin, ExportEnds, Clear,
         Settle, Exit
<1>2. ASSUME closed, pending = 0 PROVE pending' = 0
  <2>1. acceptMu = Nobody /\ worker # "cleared"
    BY <1>2, DrainedMeansAttempted DEF QueueInv, ClosedInv, WorkerShare
  <2>2. \A b \in Sends : sendPC[b] \notin Critical
    BY <2>1, NobodyAssumption DEF QueueInv, LockInv
  <2> QED
    BY <1>2, <2>1, <2>2
    DEF QueueStep, Send, Enqueue, Refuse, Admit, Pend, Offer, SendGoes, Critical,
        CountAccepted, Overflow, CountDropped, Work, Take, Begin, ExportEnds, Clear,
        Settle, Exit, WorkerGoes
<1>3. Stopped => Stopped'
  BY DEF QueueStep, Send, Enqueue, Refuse, Admit, Pend, Offer, Stopped,
         CountAccepted, Overflow, CountDropped, Work, Take, Begin, ExportEnds, Clear,
         Settle, Exit, WorkerGoes
<1> QED
  BY <1>1, <1>2, <1>3

-----------------------------------------------------------------------------
(* Refinement: each step of the queue is a step of the contract or none.    *)

\* What is accepted and not attempted is in the channel or with the worker.
LEMMA Outstanding ==
    ASSUME QueueInv
    PROVE  /\ Len(acceptLog) \in Nat /\ Len(attempted) \in Nat /\ Len(queue) \in Nat
           /\ Len(acceptLog) = Len(attempted) + Len(Held) + Len(queue)
           /\ Len(Held) = IF worker \in {"taken", "exporting"} THEN 1 ELSE 0
<1>1. /\ attempted \in Seq(Sends) /\ Held \in Seq(Sends) /\ queue \in Seq(Sends)
      /\ acceptLog \in Seq(Sends)
  BY DEF QueueInv, QueueTypeOK, Held, WorkerInv
<1>2. attempted \o Held \in Seq(Sends) /\ Len(attempted \o Held) = Len(attempted) + Len(Held)
  BY <1>1, ConcatProperties
<1>3. Len(acceptLog) = Len(attempted \o Held) + Len(queue)
  BY <1>1, <1>2, ConcatProperties DEF QueueInv, FifoOnce
<1>4. Len(Held) = IF worker \in {"taken", "exporting"} THEN 1 ELSE 0
  BY DEF Held
<1> QED
  BY <1>1, <1>2, <1>3, <1>4

\* A step of a Send or of the worker is a step of the contract or none: it
\* accepts a batch, refuses one, ends an export or stops the worker.
LEMMA QueueStepRefines ==
    ASSUME QueueInv, QueueInv', QueueStep
    PROVE  [Promise!ContractNext]_(Promise!contractVars)
<1> USE DEF Promise!contractVars
<1>1. CASE \E b \in Sends : Offer(b)
  <2>1. PICK b \in Sends : Offer(b)
    BY <1>1
  <2>2. configured /\ ~closed
    BY <2>1, NobodyAssumption DEF QueueInv, LockInv, ClosedInv, Critical, Offer, SendGoes
  <2>3. b \notin ToSet(acceptLog)
    <3>1. ToSet(acceptLog) = {acceptLog[i] : i \in 1 .. Len(acceptLog)}
      BY DEF QueueInv, QueueTypeOK, ToSet
    <3> QED
      BY <2>1, <3>1 DEF QueueInv, LogInv, Offer, SendGoes
  <2>4. Len(acceptLog) - Len(attempted) < Capacity + 1
    <3>1. Len(Held) \in {0, 1} /\ Len(queue) < Capacity
      BY <2>1, Outstanding DEF Offer
    <3>2. /\ Len(acceptLog) = Len(attempted) + Len(Held) + Len(queue)
          /\ Len(attempted) \in Nat /\ Len(queue) \in Nat /\ Capacity \in Nat
      BY Outstanding, CapacityAssumption
    <3>3. ASSUME NEW l, NEW a \in Nat, NEW h \in {0, 1}, NEW q \in Nat, NEW k \in Nat,
                 l = a + h + q, q < k
          PROVE  l - a < k + 1
      BY <3>3
    <3> QED
      BY <3>1, <3>2, <3>3
  <2>5. UNCHANGED << configured, closed, attempted, worker >> /\ acceptLog' = Append(acceptLog, b)
    BY <2>1 DEF Offer
  <2>6. Promise!Accept(b)
    BY <2>2, <2>3, <2>4, <2>5 DEF Promise!Accept, Promise!ToSet, ToSet, Stopped
  <2> QED
    BY <2>6 DEF Promise!ContractNext
<1>2. CASE \E ok \in BOOLEAN : ExportEnds(ok)
  <2>1. Len(attempted) < Len(acceptLog) /\ worker # "exited" /\ worker' # "exited"
    BY <1>2, Outstanding DEF ExportEnds, WorkerGoes
  <2>2. Len(attempted') = Len(attempted) + 1
    BY <1>2, AppendProperties DEF ExportEnds, WorkerGoes, QueueInv, QueueTypeOK, WorkerInv
  <2>3. Promise!Attempt
    BY <1>2, <2>1, <2>2 DEF Promise!Attempt, ExportEnds, Stopped
  <2> QED
    BY <2>3 DEF Promise!ContractNext
<1>3. CASE Exit
  <2>1. closed /\ acceptLog = attempted
    BY <1>3, DrainedMeansAttempted DEF Exit, QueueInv, DoneInv
  <2>2. Promise!Release
    BY <1>3, <2>1 DEF Promise!Release, Exit, WorkerGoes, Stopped
  <2> QED
    BY <2>2 DEF Promise!ContractNext
<1>4. CASE \/ Take \/ Begin \/ Clear \/ Settle
           \/ \E b \in Sends : \/ Send(b) \/ Refuse(b) \/ Admit(b) \/ Pend(b)
                              \/ CountAccepted(b) \/ Overflow(b) \/ CountDropped(b)
  BY <1>4 DEF Take, Begin, Clear, Settle, WorkerGoes, Send, Refuse, Admit, Pend, CountAccepted, Overflow,
              CountDropped, Stopped
<1> QED
  BY <1>1, <1>2, <1>3, <1>4 DEF QueueStep, Work, Enqueue

\* Closing acceptance shuts the contract, if it was open.
LEMMA CloseRefines ==
    ASSUME QueueInv, CloseAcceptance
    PROVE  [Promise!ContractNext]_(Promise!contractVars)
<1>1. CASE configured /\ ~closed
  BY <1>1 DEF CloseAcceptance, Promise!ContractNext, Promise!Shut, Stopped
<1>2. CASE ~(configured /\ ~closed)
  BY <1>2 DEF CloseAcceptance, Promise!contractVars, Stopped, QueueInv, QueueTypeOK
<1> QED
  BY <1>1, <1>2

-----------------------------------------------------------------------------
\* EverySendCounted is inductive once the Sends that have returned are known to
\* be finitely many, which they are however many there are in all.
SendsCounted == IsFiniteSet(Returned) /\ EverySendCounted

LEMMA NobodyHasReturned == BatchInit => SendsCounted
<1> SUFFICES ASSUME BatchInit PROVE SendsCounted
  OBVIOUS
<1>1. Returned = {} /\ accepted + dropped = 0
  BY DEF BatchInit, Returned
<1> QED
  BY <1>1, FS_EmptySet DEF SendsCounted, EverySendCounted

\* A Send on its way leaves the set of those that have returned as it is.
LEMMA OthersStay ==
    ASSUME QueueInv, SendsCounted, NEW b \in Sends, NEW from, NEW to,
           from # "returned", to # "returned", SendGoes(b, from, to),
           UNCHANGED << accepted, dropped >>
    PROVE  SendsCounted'
<1>1. sendPC \in [Sends -> SendStates]
  BY DEF QueueInv, QueueTypeOK
<1>2. Returned' = Returned
  BY <1>1 DEF Returned, SendGoes
<1> QED
  BY <1>2 DEF SendsCounted, EverySendCounted

\* A Send that returns has one of the two counters raised.
LEMMA OneMoreReturns ==
    ASSUME QueueInv, SendsCounted, NEW b \in Sends, NEW from,
           from # "returned", SendGoes(b, from, "returned"),
           \/ accepted' = accepted + 1 /\ UNCHANGED dropped
           \/ dropped' = dropped + 1 /\ UNCHANGED accepted
    PROVE  SendsCounted'
<1>1. sendPC \in [Sends -> SendStates] /\ accepted \in Nat /\ dropped \in Nat
  BY DEF QueueInv, QueueTypeOK
<1>2. b \notin Returned /\ Returned' = Returned \cup {b}
  BY <1>1 DEF Returned, SendGoes
<1>3. IsFiniteSet(Returned) /\ Cardinality(Returned) \in Nat
  BY FS_CardinalityType DEF SendsCounted
<1>4. IsFiniteSet(Returned') /\ Cardinality(Returned') = Cardinality(Returned) + 1
  BY <1>2, <1>3, FS_AddElement
<1>5. accepted' + dropped' = accepted + dropped + 1
  BY <1>1
<1> QED
  BY <1>3, <1>4, <1>5 DEF SendsCounted, EverySendCounted

\* Steps that move no Send.
LEMMA CountStutters ==
    ASSUME SendsCounted, UNCHANGED << sendPC, accepted, dropped >>
    PROVE  SendsCounted'
BY DEF SendsCounted, EverySendCounted, Returned

\* Sends and the worker keep the account.
LEMMA QueueStepCounts ==
    ASSUME QueueInv, SendsCounted, QueueStep
    PROVE  SendsCounted'
<1>1. ASSUME NEW b \in Sends, Send(b) \/ Admit(b) \/ Pend(b) \/ Offer(b) \/ Overflow(b)
      PROVE  SendsCounted'
  BY <1>1, OthersStay DEF Send, Admit, Pend, Offer, Overflow, counters
<1>2. ASSUME NEW b \in Sends, Refuse(b) \/ CountAccepted(b) \/ CountDropped(b)
      PROVE  SendsCounted'
  BY <1>2, OneMoreReturns DEF Refuse, CountAccepted, CountDropped
<1>3. CASE Work
  BY <1>3, CountStutters DEF Work, Take, Begin, ExportEnds, Clear, Settle, Exit, counters
<1> QED
  BY <1>1, <1>2, <1>3 DEF QueueStep, Enqueue

=============================================================================
