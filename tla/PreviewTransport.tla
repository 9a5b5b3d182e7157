-------------------------- MODULE PreviewTransport --------------------------
(***************************************************************************)
(* PreviewTransport (transport.go): Send and SendLogs build a report, keep *)
(* the latest 16 of each kind and write it out, in the caller's goroutine, *)
(* with t.mu held from before the report is kept until after it is         *)
(* written.  The recover of Send swallows a panic of the writer, but the   *)
(* unlock is not deferred.                                                 *)
(***************************************************************************)
EXTENDS Integers, Sequences

CONSTANTS
    Traces, Logs,   \* the calls of Send and of SendLogs, each with its payload
    Kept,           \* how many reports of each kind are kept (16 in the code)
    Nobody          \* t.mu is free

Calls == Traces \union Logs

VARIABLES
    mu,         \* the call that holds t.mu, or Nobody
    Reports,    \* t.Reports
    LogReports, \* t.LogReports
    written,    \* history: the calls whose report was written, of each kind in order
    pc          \* where each call is

vars == << mu, Reports, LogReports, written, pc >>

Init ==
    /\ mu = Nobody
    /\ Reports = << >>
    /\ LogReports = << >>
    /\ written = [traces |-> << >>, logs |-> << >>]
    /\ pc = [c \in Calls |-> "idle"]

-----------------------------------------------------------------------------
Goes(c, from, to) ==
    /\ pc[c] = from
    /\ pc' = [pc EXCEPT ![c] = to]

\* The report is built and encoded; a payload that cannot be is given up.
Build(c) ==
    /\ \E to \in {"lock", "returned"} : Goes(c, "idle", to)
    /\ UNCHANGED << mu, Reports, LogReports, written >>

\* The oldest above the limit are cut off.
Latest(reports) ==
    IF Len(reports) > Kept
    THEN SubSeq(reports, Len(reports) - Kept + 1, Len(reports)) ELSE reports

\* The report of a call, appended to those of its kind.
With(reports, c, kind) == IF c \in kind THEN Append(reports, c) ELSE reports

\* A fault: the report is written after the unlock.
LockBriefly(c) ==
    /\ Goes(c, "lock", "write")
    /\ mu = Nobody
    /\ Reports' = Latest(With(Reports, c, Traces))
    /\ LogReports' = Latest(With(LogReports, c, Logs))
    /\ UNCHANGED << mu, written >>

Lock(c) ==
    /\ Goes(c, "lock", "write")
    /\ mu = Nobody
    /\ mu' = c
    /\ Reports' = Latest(With(Reports, c, Traces))
    /\ LogReports' = Latest(With(LogReports, c, Logs))
    /\ UNCHANGED written

Write(c) ==
    /\ Goes(c, "write", "unlock")
    /\ written' = [traces |-> With(written.traces, c, Traces), logs |-> With(written.logs, c, Logs)]
    /\ UNCHANGED << mu, Reports, LogReports >>

\* The writer, which the application gives, panics; Send recovers and returns.
WritePanics(c) ==
    /\ Goes(c, "write", "recovered")
    /\ UNCHANGED << mu, Reports, LogReports, written >>

\* A fault: a return between the lock and the unlock.
ReturnLocked(c) ==
    /\ Goes(c, "unlock", "returned")
    /\ UNCHANGED << mu, Reports, LogReports, written >>

Unlock(c) ==
    /\ Goes(c, "unlock", "returned")
    /\ mu' = Nobody
    /\ UNCHANGED << Reports, LogReports, written >>

-----------------------------------------------------------------------------
Over(c) == pc[c] \in {"returned", "recovered"}

\* After a panic of the writer the mutex is never unlocked.
Poisoned == \E c \in Calls : pc[c] = "recovered"

\* Concurrent previews are kept in the order they are written, and none is lost but
\* the oldest ("safe for concurrent requests", PreviewTransport).
KeptAsWritten ==
    mu = Nobody =>
        /\ Reports = Latest(written.traces)
        /\ LogReports = Latest(written.logs)
=============================================================================
