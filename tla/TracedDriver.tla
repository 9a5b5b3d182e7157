---------------------------- MODULE TracedDriver ----------------------------
(***************************************************************************)
(* A driver wrapped by WrapConnector or WrapDriver (dbwrap.go), under      *)
(* database/sql.  The wrapper implements the context interfaces whether    *)
(* the base driver does or not, and answers ErrSkip, or falls back to an   *)
(* older method, where the base does not; it implements neither            *)
(* SessionResetter nor Validator.  record wraps the calls that may record  *)
(* a span.  The buffer of the request, and other goroutines of it, are in  *)
(* RequestTrace; here the spans of one call are followed.                  *)
(***************************************************************************)
EXTENDS Integers, Sequences, SequencesExt

VARIABLES
    base,       \* the optional interfaces of the base driver
    stage, call, tries, pool, asked, result,    \* as in DatabaseSQL
    sampled,    \* whether record records: the context of the call is that of a
                \* sampled request, and database instrumentation is enabled
    spans       \* the status of each span that the call recorded

sqlVars == << stage, call, tries, pool, asked, result >>
vars == << base, sqlVars, sampled, spans >>

Wrapper == {"DriverContext", "QueryerContext", "StmtQueryContext", "ConnBeginTx", "Pinger"}

SQL == INSTANCE DatabaseSQL WITH iface <- Wrapper

Bare == INSTANCE DatabaseSQL WITH iface <- base

Init ==
    /\ base \in SUBSET SQL!Interfaces
    /\ Bare!Init
    /\ sampled = FALSE
    /\ spans = << >>

-----------------------------------------------------------------------------
\* A fault: ErrSkip is not taken for an error.
StatusUnlessSkipped(answer) == IF answer \in {"ok", "eof", "skip"} THEN "unset" ELSE "error"

\* decorate: an error other than io.EOF makes the status of the span.
StatusOf(answer) == IF answer \in {"ok", "eof"} THEN "unset" ELSE "error"

\* record, after the call of the base.
Record(answer) == spans' = IF sampled THEN Append(spans, StatusOf(answer)) ELSE spans

\* OpenConnector asks the base for a connector, or keeps the name for Open.
OpenConnector ==
    /\ stage = "open"
    /\ stage' \in {"idle"} \union (IF "DriverContext" \in base THEN {"closed"} ELSE {})
    /\ UNCHANGED << base, call, tries, pool, asked, result, sampled, spans >>

\* The context of each call is its own.
Call(c) ==
    /\ SQL!Call(c)
    /\ sampled' \in BOOLEAN
    /\ spans' = << >>
    /\ UNCHANGED base

\* The wrapper is no SessionResetter, so that no session is reset.
TakeIdle == SQL!TakeIdle /\ UNCHANGED << base, sampled, spans >>

\* The connection of the base is wrapped, its error passed on.
Connect == SQL!Connect /\ UNCHANGED << base, sampled, spans >>

\* A fault: nil in place of ErrSkip where the base has no fast path.
QueryContextNil ==
    /\ stage = "query"
    /\ IF "QueryerContext" \in base
       THEN \/ SQL!Ask("query", "skip") /\ SQL!Fallback /\ Record("skip")
            \/ \E a \in SQL!Answers : SQL!AskAndSettle("query", a) /\ Record(a)
       ELSE SQL!Settle("ok", asked) /\ UNCHANGED spans
    /\ UNCHANGED << base, sampled >>

QueryContext ==
    /\ stage = "query"
    /\ IF "QueryerContext" \in base
       THEN \/ SQL!Ask("query", "skip") /\ SQL!Fallback /\ Record("skip")
            \/ \E a \in SQL!Answers : SQL!AskAndSettle("query", a) /\ Record(a)
       ELSE SQL!Fallback /\ UNCHANGED << asked, spans >>
    /\ UNCHANGED << base, sampled >>

\* Both ways the statement of the base is wrapped and no span recorded.
PrepareContext == SQL!Prepare /\ UNCHANGED << base, sampled, spans >>

\* database/sql does not fall back from a statement: it passes ErrSkip on.
StmtQueryContext ==
    /\ stage = "execute"
    /\ IF "StmtQueryContext" \in base
       THEN \E a \in SQL!Answers : SQL!AskAndSettle("execute", a) /\ Record(a)
       ELSE SQL!Settle("skip", asked) /\ UNCHANGED spans
    /\ UNCHANGED << base, sampled >>

\* Begin of the base takes no options: they are lost.
BeginTx ==
    /\ stage = "begin"
    /\ \E a \in SQL!Answers :
          SQL!AskAndSettle(IF "ConnBeginTx" \in base THEN call ELSE "begin", a)
    /\ UNCHANGED << base, sampled, spans >>

Ping ==
    /\ stage = "ping"
    /\ IF "Pinger" \in base
       THEN \E a \in SQL!Answers : SQL!AskAndSettle("ping", a)
       ELSE SQL!Settle("ok", asked)
    /\ UNCHANGED << base, sampled, spans >>

Next ==
    \/ OpenConnector \/ (\E c \in SQL!Calls : Call(c)) \/ TakeIdle \/ Connect
    \/ QueryContext \/ PrepareContext \/ StmtQueryContext \/ BeginTx \/ Ping

Spec == Init /\ [][Next]_vars

-----------------------------------------------------------------------------
\* A method was called, and the connection goes back to the pool.
GoesBack == stage \notin {"open", "idle", "conn"} /\ stage' = "idle" /\ result' # "badConn"

\* The steps with which a wrapped driver goes another way than a bare one: the
\* older Queryer is passed over for a prepared statement; a statement that has no
\* StmtQueryContext is ErrSkip to the application, where database/sql would run it
\* through Query; a plain transaction begins where options were asked for, which is
\* an error of a driver that takes none; the session of a connection is not reset; a
\* connection goes back to the pool without the driver's Validator being asked.
Degrades ==
    \/ stage = "query" /\ "Queryer" \in base /\ "QueryerContext" \notin base
    \/ stage = "execute" /\ "StmtQueryContext" \notin base
    \/ stage = "begin" /\ call = "beginReadOnly" /\ "ConnBeginTx" \notin base
    \/ stage = "conn" /\ pool # "none" /\ "SessionResetter" \in base
    \/ GoesBack /\ "Validator" \in base

\* But for these steps neither the application nor the base driver can tell that the
\* driver is wrapped: through fallbacks and retries the driver is asked the same in
\* the same order, and its answers reach the application ("fn does the real work",
\* record; "the context-aware optional interfaces").
Transparent == Bare!Init /\ [][~Degrades => Bare!Next]_(Bare!vars)

\* A call that ran statements and is over.
Queried == stage = "idle" /\ sampled /\ call \in {"query", "prepared"} /\ result # "none"

\* However often a query was skipped, retried or sent to a new connection, one that
\* succeeded shows one span without an error, its last, and one that failed shows
\* none (record, decorate).
SpansTellOutcome ==
    Queried =>
        /\ result = "ok" =>
              /\ spans # << >> /\ Last(spans) = "unset"
              /\ \A i \in DOMAIN Front(spans) : spans[i] = "error"
        /\ result \in {"error", "badConn", "skip"} =>
              \A i \in DOMAIN spans : spans[i] = "error"

\* "Every query in a traced request becomes a `db` child span" (README.md): a query
\* that met no bad connection and succeeded has one span (record).
OneSpanPerQuery == Queried /\ result = "ok" /\ tries = 0 => Len(spans) = 1

-----------------------------------------------------------------------------
Stages == {"open", "closed", "idle", "conn", "query", "prepare", "execute", "begin", "ping"}

Methods == {"connect", "query", "prepare", "execute", "begin", "beginReadOnly", "ping"}

\* Types of all variables.
TypeOK ==
    /\ base \in SUBSET SQL!Interfaces
    /\ stage \in Stages
    /\ call \in {"none"} \union SQL!Calls
    /\ tries \in 0 .. SQL!MaxBadConnRetries
    /\ pool \in {"none", "new", "used", "prepared"}
    /\ asked \in Seq(Methods \X (SQL!Answers \union {"skip"}))
    /\ result \in {"none", "skip"} \union SQL!Answers
    /\ sampled \in BOOLEAN
    /\ spans \in Seq({"unset", "error"})
=============================================================================
