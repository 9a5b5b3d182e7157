----------------------------- MODULE BatchQueue -----------------------------
(***************************************************************************)
(* The delivery core that HTTPTransport and managedExporter have in common *)
(* (transport.go): a bounded channel `queue`, the mutex `acceptMu` under   *)
(* which Send enqueues, one worker goroutine, and atomic counters.         *)
(*                                                                         *)
(* A member of Sends is one call of Send or SendLogs and, at the same time, *)
(* the batch it carries.  A step is what no other goroutine can observe in *)
(* parts: taking acceptMu is merged with the check that follows it and     *)
(* releasing it with the counter update that precedes it; the updates of   *)
(* `pending`, of the channel and of `accepted` in between are steps of     *)
(* their own, because the worker, Flush and Diagnostics take no lock.      *)
(***************************************************************************)
EXTENDS Integers, SequencesExt

CONSTANTS
    Sends,      \* the calls of Send, each with its batch
    Capacity,   \* cap(t.queue)
    Nobody      \* acceptMu is free

ASSUME CapacityAssumption == Capacity \in Nat \ {0}
ASSUME NobodyAssumption == Nobody \notin Sends

VARIABLES
    configured, \* an exporter is set (managedExporter); a key is set (HTTPTransport)
    acceptMu,   \* the Send holding the mutex, or Nobody
    closed,     \* t.closed
    queue,      \* the channel t.queue
    pending,    \* t.pending
    inFlight,   \* t.inFlight
    accepted,   \* t.accepted
    delivered,  \* t.delivered
    dropped,    \* t.dropped
    failed,     \* t.failed
    done,       \* t.done has been closed
    sendPC,     \* where each Send is
    worker,     \* where the goroutine run() is; "exited": t.stopped is closed
    batch,      \* run()'s local variable batch, Nobody before the first receive
    acceptLog,  \* history: batches in the order the channel took them
    attempted   \* history: batches in the order their export ended

queueVars == << configured, acceptMu, closed, queue, pending, inFlight, accepted,
                delivered, dropped, failed, done, sendPC, worker, batch,
                acceptLog, attempted >>

counters == << accepted, delivered, dropped, failed >>

BatchInit ==
    /\ configured \in BOOLEAN
    /\ acceptMu = Nobody
    /\ closed = FALSE
    /\ queue = << >>
    /\ pending = 0
    /\ inFlight = 0
    /\ accepted = 0 /\ delivered = 0 /\ dropped = 0 /\ failed = 0
    /\ done = FALSE
    /\ sendPC = [b \in Sends |-> "new"]
    /\ worker = "select"
    /\ batch = Nobody
    /\ acceptLog = << >>
    /\ attempted = << >>

-----------------------------------------------------------------------------
(* enqueue *)

SendGoes(b, from, to) ==
    /\ sendPC[b] = from
    /\ sendPC' = [sendPC EXCEPT ![b] = to]

\* Application code calls Send or SendLogs.
Send(b) ==
    /\ SendGoes(b, "new", "lock")
    /\ UNCHANGED << configured, acceptMu, closed, queue, pending, inFlight, counters,
                    done, worker, batch, acceptLog, attempted >>

\* The mutex is taken and the transport is closed or not configured: the batch
\* is dropped and the mutex released.
Refuse(b) ==
    /\ SendGoes(b, "lock", "returned")
    /\ acceptMu = Nobody
    /\ closed \/ ~configured
    /\ dropped' = dropped + 1
    /\ UNCHANGED << configured, acceptMu, closed, queue, pending, inFlight, accepted,
                    delivered, failed, done, worker, batch, acceptLog, attempted >>

\* The mutex is taken and the check passed.
Admit(b) ==
    /\ SendGoes(b, "lock", "pend")
    /\ acceptMu = Nobody
    /\ ~closed /\ configured
    /\ acceptMu' = b
    /\ UNCHANGED << configured, closed, queue, pending, inFlight, counters, done,
                    worker, batch, acceptLog, attempted >>

\* A fault: pending is not raised before the batch is offered.
PendForgotten(b) ==
    /\ SendGoes(b, "pend", "offer")
    /\ UNCHANGED << configured, acceptMu, closed, queue, pending, inFlight, counters,
                    done, worker, batch, acceptLog, attempted >>

Pend(b) ==
    /\ SendGoes(b, "pend", "offer")
    /\ pending' = pending + 1
    /\ UNCHANGED << configured, acceptMu, closed, queue, inFlight, counters, done,
                    worker, batch, acceptLog, attempted >>

\* The channel has room: the send case of the select.
Offer(b) ==
    /\ SendGoes(b, "offer", "count")
    /\ Len(queue) < Capacity
    /\ queue' = Append(queue, b)
    /\ acceptLog' = Append(acceptLog, b)
    /\ UNCHANGED << configured, acceptMu, closed, pending, inFlight, counters, done,
                    worker, batch, attempted >>

CountAccepted(b) ==
    /\ SendGoes(b, "count", "returned")
    /\ accepted' = accepted + 1
    /\ acceptMu' = Nobody
    /\ UNCHANGED << configured, closed, queue, pending, inFlight, delivered, dropped,
                    failed, done, worker, batch, acceptLog, attempted >>

\* A fault: the select has no default case, so that a full channel blocks Send.
OverflowBlocks(b) ==
    /\ FALSE
    /\ SendGoes(b, "offer", "drop")
    /\ UNCHANGED << configured, acceptMu, closed, queue, pending, inFlight, counters,
                    done, worker, batch, acceptLog, attempted >>

\* A fault: the batch is counted before the select and uncounted in its default
\* case.
OverflowUndoesAccepted(b) ==
    /\ SendGoes(b, "offer", "drop")
    /\ Len(queue) >= Capacity
    /\ pending' = pending - 1
    /\ accepted' = accepted - 1
    /\ UNCHANGED << configured, acceptMu, closed, queue, inFlight, delivered, dropped,
                    failed, done, worker, batch, acceptLog, attempted >>

\* The channel is full: the default case of the select.
Overflow(b) ==
    /\ SendGoes(b, "offer", "drop")
    /\ Len(queue) >= Capacity
    /\ pending' = pending - 1
    /\ UNCHANGED << configured, acceptMu, closed, queue, inFlight, counters, done,
                    worker, batch, acceptLog, attempted >>

\* A fault: a batch dropped for lack of room is not counted.
DropUncounted(b) ==
    /\ SendGoes(b, "drop", "returned")
    /\ acceptMu' = Nobody
    /\ UNCHANGED << configured, closed, queue, pending, inFlight, counters,
                    done, worker, batch, acceptLog, attempted >>

CountDropped(b) ==
    /\ SendGoes(b, "drop", "returned")
    /\ dropped' = dropped + 1
    /\ acceptMu' = Nobody
    /\ UNCHANGED << configured, closed, queue, pending, inFlight, accepted, delivered,
                    failed, done, worker, batch, acceptLog, attempted >>

\* What is left of a Send once it has been called.
Enqueue(b) ==
    \/ Refuse(b) \/ Admit(b) \/ Pend(b) \/ Offer(b)
    \/ CountAccepted(b) \/ Overflow(b) \/ CountDropped(b)

-----------------------------------------------------------------------------
(* run *)

WorkerGoes(from, to) == worker = from /\ worker' = to

Take ==
    /\ WorkerGoes("select", "taken")
    /\ queue # << >>
    /\ batch' = Head(queue)
    /\ queue' = Tail(queue)
    /\ UNCHANGED << configured, acceptMu, closed, pending, inFlight, counters, done,
                    sendPC, acceptLog, attempted >>

Begin ==
    /\ WorkerGoes("taken", "exporting")
    /\ inFlight' = 1
    /\ UNCHANGED << configured, acceptMu, closed, queue, pending, counters, done,
                    sendPC, batch, acceptLog, attempted >>

\* A fault: a panic is not recovered and takes the worker with it.
ExportPanics(ok) ==
    /\ worker = "exporting"
    /\ worker' = IF ok THEN "counted" ELSE "exited"
    /\ delivered' = IF ok THEN delivered + 1 ELSE delivered
    /\ failed' = IF ok THEN failed ELSE failed + 1
    /\ attempted' = Append(attempted, batch)
    /\ UNCHANGED << configured, acceptMu, closed, queue, pending, inFlight, accepted,
                    dropped, done, sendPC, batch, acceptLog >>

\* export or post returns; its result decides which counter moves.  A panic is
\* recovered and reads as a failure.
ExportEnds(ok) ==
    /\ WorkerGoes("exporting", "counted")
    /\ delivered' = IF ok THEN delivered + 1 ELSE delivered
    /\ failed' = IF ok THEN failed ELSE failed + 1
    /\ attempted' = Append(attempted, batch)
    /\ UNCHANGED << configured, acceptMu, closed, queue, pending, inFlight, accepted,
                    dropped, done, sendPC, batch, acceptLog >>

Clear ==
    /\ WorkerGoes("counted", "cleared")
    /\ inFlight' = 0
    /\ UNCHANGED << configured, acceptMu, closed, queue, pending, counters, done,
                    sendPC, batch, acceptLog, attempted >>

Settle ==
    /\ WorkerGoes("cleared", "select")
    /\ pending' = pending - 1
    /\ UNCHANGED << configured, acceptMu, closed, queue, inFlight, counters, done,
                    sendPC, batch, acceptLog, attempted >>

\* The select may choose the done case while the queue still holds batches.
Exit ==
    /\ WorkerGoes("select", "exited")
    /\ done
    /\ UNCHANGED << configured, acceptMu, closed, queue, pending, inFlight, counters,
                    done, sendPC, batch, acceptLog, attempted >>

\* run() with any export at all.
Work == Take \/ Begin \/ (\E ok \in BOOLEAN : ExportEnds(ok)) \/ Clear \/ Settle \/ Exit

\* A step of a Send or of the worker.
QueueStep == (\E b \in Sends : Send(b) \/ Enqueue(b)) \/ Work

-----------------------------------------------------------------------------
(* The two steps of Shutdown that touch the queue's state.  The mutex is   *)
(* taken and released around the store, so no Send is inside it.           *)

\* A fault: Shutdown sets closed without taking acceptMu.
CloseUnlocked ==
    /\ closed' = TRUE
    /\ UNCHANGED << configured, acceptMu, queue, pending, inFlight, counters, done,
                    sendPC, worker, batch, acceptLog, attempted >>

CloseAcceptance ==
    /\ acceptMu = Nobody
    /\ closed' = TRUE
    /\ UNCHANGED << configured, acceptMu, queue, pending, inFlight, counters, done,
                    sendPC, worker, batch, acceptLog, attempted >>

\* A fault: the done channel is never closed.
SignalForgotten ==
    UNCHANGED << configured, acceptMu, closed, queue, pending, inFlight, counters,
                 done, sendPC, worker, batch, acceptLog, attempted >>

\* stopOnce.Do: closing the channel twice would panic, the Once makes the
\* second call do nothing.
SignalDone ==
    /\ done' = TRUE
    /\ UNCHANGED << configured, acceptMu, closed, queue, pending, inFlight, counters,
                    sendPC, worker, batch, acceptLog, attempted >>

-----------------------------------------------------------------------------
SendStates == {"new", "lock", "pend", "offer", "count", "drop", "returned"}
WorkerStates == {"select", "taken", "exporting", "counted", "cleared", "exited"}

\* The variables of the queue keep their types; pending never goes below zero.
QueueTypeOK ==
    /\ configured \in BOOLEAN
    /\ acceptMu \in Sends \union {Nobody}
    /\ closed \in BOOLEAN
    /\ queue \in Seq(Sends)
    /\ pending \in Nat
    /\ inFlight \in {0, 1}
    /\ accepted \in Nat /\ delivered \in Nat /\ dropped \in Nat /\ failed \in Nat
    /\ done \in BOOLEAN
    /\ sendPC \in [Sends -> SendStates]
    /\ worker \in WorkerStates
    /\ batch \in Sends \union {Nobody}
    /\ acceptLog \in Seq(Sends)
    /\ attempted \in Seq(Sends)

Stopped == worker = "exited"

\* The batch the worker has taken and not yet exported, as a sequence.
Held == IF worker \in {"taken", "exporting"} THEN << batch >> ELSE << >>

\* Units of `pending` owned by the worker and by the Send inside the mutex.
WorkerShare == IF worker \in {"taken", "exporting", "counted", "cleared"} THEN 1 ELSE 0
SenderShare == IF acceptMu # Nobody /\ sendPC[acceptMu] = "offer" THEN 1 ELSE 0
Uncounted == IF acceptMu # Nobody /\ sendPC[acceptMu] = "count" THEN 1 ELSE 0

Critical == {"pend", "offer", "count", "drop"}

\* The mutex is held exactly by the Send whose pc is between Lock and Unlock.
LockInv == \A b \in Sends : sendPC[b] \in Critical <=> acceptMu = b

\* Once closed is set no Send is past the check: this is what taking acceptMu
\* in Shutdown buys.  Without an exporter or a key no Send gets past it at all.
ClosedInv == acceptMu # Nobody => configured /\ ~closed

\* A nonzero `pending` covers every batch that is queued, held by the worker or
\* about to be offered, so that a Flush that reads zero missed none.
PendingAccounts == pending = Len(queue) + WorkerShare + SenderShare

\* Nothing is queued and nothing can be queued once the worker is told to stop.
DoneInv == done => closed /\ pending = 0

\* The worker leaves its loop only when it was told to.
ExitInv == Stopped => done

\* The channel is never over its capacity.
WithinCapacity == Len(queue) <= Capacity

\* The batch variable holds a batch whenever it is used, and inFlight is one
\* exactly during the export.
WorkerInv ==
    /\ worker \in {"taken", "exporting"} => batch \in Sends
    /\ inFlight = IF worker \in {"exporting", "counted"} THEN 1 ELSE 0

\* Exports happen in the order of acceptance, each batch once, and none is lost
\* between the channel and the worker.
FifoOnce == acceptLog = attempted \o Held \o queue

\* Each Send is offered to the channel at most once, so a batch is in the log
\* only if its Send got that far.
LogInv ==
    /\ \A i \in 1 .. Len(acceptLog) :
          /\ sendPC[acceptLog[i]] \in {"count", "returned"}
          /\ \A j \in 1 .. Len(acceptLog) : acceptLog[i] = acceptLog[j] => i = j

\* The counters of a batch's two ends agree with the batches themselves.
CountersAccount ==
    /\ accepted + Uncounted = Len(acceptLog)
    /\ delivered + failed = Len(attempted)

\* A stopped worker leaves nothing behind: every batch that was ever accepted
\* has been attempted, and no Send can still be on its way into the channel
\* (run, Shutdown and enqueue of both transports).
NoLostBatch == Stopped => acceptLog = attempted /\ queue = << >> /\ acceptMu = Nobody

Returned == {b \in Sends : sendPC[b] = "returned"}

\* Each Send is counted exactly once, as accepted or as dropped, by the time it
\* returns; a Send that has not reached its counter is not counted (enqueue).
EverySendCounted == accepted + dropped = Cardinality(Returned)

\* The inductive invariant of the queue.
QueueInv ==
    /\ QueueTypeOK /\ LockInv /\ ClosedInv /\ PendingAccounts /\ DoneInv /\ ExitInv
    /\ WithinCapacity /\ WorkerInv /\ FifoOnce /\ LogInv /\ CountersAccount

-----------------------------------------------------------------------------
\* Both transports implement the contract: a batch is accepted when the channel
\* takes it and attempted when its export ends.
Promise == INSTANCE DeliveryContract WITH
    Batches  <- Sends,
    Limit    <- Capacity + 1,
    open     <- configured /\ ~closed,
    log      <- acceptLog,
    settled  <- Len(attempted),
    released <- Stopped
=============================================================================
