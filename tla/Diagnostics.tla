---------------------------- MODULE Diagnostics -----------------------------
(***************************************************************************)
(* A health check that calls Diagnostics (transport.go) while Sends, the   *)
(* worker and Shutdown go on.  Diagnostics takes no lock: it fills the     *)
(* fields of TransportDiagnostics one load after another, in the order of  *)
(* the struct literal.                                                     *)
(***************************************************************************)
EXTENDS HTTPTransport

CONSTANT MaxReports     \* bound on the snapshots the health check takes

ASSUME MaxReportsAssumption == MaxReports \in Nat

VARIABLES
    loaded,     \* how many fields the running call has loaded; 0 between calls
    snapshot,   \* the fields, filled so far
    calm,       \* history: a Shutdown had returned true before the call began
    reports     \* the snapshots returned, each with its calm

readerVars == << loaded, snapshot, calm, reports >>

\* The fields in the order of the loads; QueueCapacity is a constant.
Fields == << "accepted", "delivered", "dropped", "failed", "queued", "inFlight", "closed" >>

\* What the loads would give if all were made in this state.
Current ==
    [accepted |-> accepted, delivered |-> delivered, dropped |-> dropped,
     failed |-> failed, queued |-> Len(queue), inFlight |-> inFlight, closed |-> closed]

DiagnosticsInit ==
    /\ Init
    /\ loaded = 0
    /\ snapshot = Current
    /\ calm = FALSE
    /\ reports = << >>

\* One load; the first one starts the call and the last one returns.
Load ==
    /\ loaded = 0 => Len(reports) < MaxReports
    /\ LET field == Fields[loaded + 1]
           quiet == IF loaded = 0 THEN \E c \in ShutdownCalls : result[c] ELSE calm
           seen  == [snapshot EXCEPT ![field] = Current[field]]
       IN  /\ snapshot' = seen
           /\ calm' = quiet
           /\ IF loaded + 1 = Len(Fields)
              THEN /\ loaded' = 0
                   /\ reports' = Append(reports, [counts |-> seen, calm |-> quiet])
              ELSE loaded' = loaded + 1 /\ UNCHANGED reports
    /\ UNCHANGED vars

DiagnosticsNext ==
    \/ Next /\ UNCHANGED readerVars
    \/ Load

DiagnosticsSpec == DiagnosticsInit /\ [][DiagnosticsNext]_<< vars, readerVars >>

-----------------------------------------------------------------------------
\* The types of the reader's variables.
Snapshots ==
    [accepted : Nat, delivered : Nat, dropped : Nat, failed : Nat,
     queued : Nat, inFlight : {0, 1}, closed : BOOLEAN]

ReaderTypeOK ==
    /\ loaded \in 0 .. 6
    /\ snapshot \in Snapshots
    /\ calm \in BOOLEAN
    /\ reports \in Seq([counts : Snapshots, calm : BOOLEAN])

\* The first n fields of b, in the order of the loads, are not behind those of a.
NotBehind(a, b, n) ==
    /\ n >= 1 => a.accepted <= b.accepted
    /\ n >= 2 => a.delivered <= b.delivered
    /\ n >= 3 => a.dropped <= b.dropped
    /\ n >= 4 => a.failed <= b.failed
    /\ n >= 7 /\ a.closed => b.closed

\* They were loaded after a had been returned.
Follows(a, b, n) ==
    /\ NotBehind(a, b, n)
    /\ n >= 1 => a.delivered + a.failed <= b.accepted + 1

\* They are the same, but for the batches dropped.
Same(a, b, n) ==
    /\ n >= 1 => a.accepted = b.accepted
    /\ n >= 2 => a.delivered = b.delivered
    /\ n >= 4 => a.failed = b.failed
    /\ n >= 5 => a.queued = b.queued
    /\ n >= 6 => a.inFlight = b.inFlight
    /\ n >= 7 => a.closed = b.closed

\* What the reader has loaded the transport has not gone behind since, and a
\* stopped transport still shows the same; each report follows the one before.
ReportsInv ==
    \A i \in 1 .. Len(reports) :
        /\ NotBehind(reports[i].counts, Current, 7)
        /\ reports[i].calm => Stopped /\ Same(reports[i].counts, Current, 7)
        /\ i < Len(reports) => Follows(reports[i].counts, reports[i + 1].counts, 7)

SnapshotInv ==
    /\ NotBehind(snapshot, Current, loaded)
    /\ loaded > 0 /\ calm => Stopped /\ Same(snapshot, Current, loaded)
    /\ Len(reports) > 0 => Follows(reports[Len(reports)].counts, snapshot, loaded)

\* The inductive invariant of the reader, beside that of the transport.
ReaderInv == ReaderTypeOK /\ ReportsInv /\ SnapshotInv

\* Counts are monotonic from one snapshot to the next, and closed stays; a report may
\* show more batches done than it shows accepted, but the next one makes up for it to
\* within the one batch whose Send has not yet counted it (Diagnostics, enqueue).
ReportsMonotonic ==
    \A i \in 1 .. Len(reports) - 1 :
        LET a == reports[i].counts
            b == reports[i + 1].counts
        IN  /\ \A f \in {"accepted", "delivered", "dropped", "failed"} : a[f] <= b[f]
            /\ a.closed => b.closed
            /\ a.delivered + a.failed <= b.accepted + 1

\* The shutdown log is exact: a snapshot asked for after a Shutdown returned
\* true shows every accepted batch as delivered or failed and nothing in
\* flight, whatever Sends are still being refused.
ShutdownReportExact ==
    \A i \in 1 .. Len(reports) : reports[i].calm =>
        LET counts == reports[i].counts
        IN  /\ counts.accepted = counts.delivered + counts.failed
            /\ counts.queued = 0 /\ counts.inFlight = 0 /\ counts.closed
=============================================================================
