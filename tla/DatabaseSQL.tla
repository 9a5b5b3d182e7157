---------------------------- MODULE DatabaseSQL ----------------------------
(***************************************************************************)
(* What database/sql does with a driver, as far as dbwrap.go depends on    *)
(* it: the optional interfaces it looks for, the way from the fast path of *)
(* a query to a prepared statement when a driver answers ErrSkip, the      *)
(* retries after ErrBadConn, and the pool, here of one idle connection.    *)
(* Query and Exec go the same way.  One call is followed at a time: a      *)
(* connection serves one call at a time.  Cancelled contexts are left out. *)
(***************************************************************************)
EXTENDS Integers, Sequences

VARIABLES
    iface,      \* the optional interfaces that the driver implements
    stage,      \* what comes next: "open", "idle", "conn", a method of the driver, or "closed"
    call,       \* the current or last call of the application
    tries,      \* how often the call met a bad connection
    pool,       \* the connection: "none", "new" or "used", and "prepared" if the
                \* application's statement was prepared on it
    asked,      \* history: what the driver was asked during the call, with its answers
    result      \* what the application got

vars == << iface, stage, call, tries, pool, asked, result >>

Interfaces == {"DriverContext", "QueryerContext", "Queryer", "StmtQueryContext",
               "ConnBeginTx", "Pinger", "SessionResetter", "Validator"}

Calls == {"query", "prepared", "begin", "beginReadOnly", "ping"}

\* "eof" is io.EOF, "badConn" driver.ErrBadConn; "skip" is driver.ErrSkip.
Answers == {"ok", "error", "eof", "badConn"}

MaxBadConnRetries == 2

Init ==
    /\ iface \in SUBSET Interfaces
    /\ stage = "open"
    /\ call = "none"
    /\ tries = 0
    /\ pool = "none"
    /\ asked = << >>
    /\ result = "none"

-----------------------------------------------------------------------------
\* The history with one question more, and its answer.
Heard(what, answer) == Append(asked, << what, answer >>)

Ask(what, answer) == asked' = Heard(what, answer)

\* sql.Open fails only where the driver looks at the data source name.
Open ==
    /\ stage = "open"
    /\ stage' \in {"idle"} \union (IF "DriverContext" \in iface THEN {"closed"} ELSE {})
    /\ UNCHANGED << call, tries, pool, asked, result >>

Call(c) ==
    /\ stage = "idle"
    /\ stage' = "conn"
    /\ call' = c
    /\ tries' = 0
    /\ asked' = << >>
    /\ result' = "none"
    /\ UNCHANGED pool

\* The method that a call starts with on a connection in a state.
FirstStage(connection) ==
    CASE call = "query" -> "query"
      [] call = "prepared" -> IF connection = "prepared" THEN "execute" ELSE "prepare"
      [] call = "ping" -> "ping"
      [] OTHER -> "begin"

\* The connection goes back to the pool, unless the driver finds it invalid.
PutConn(heard) ==
    LET returned == IF pool = "new" THEN "used" ELSE pool
    IN  IF "Validator" \in iface
        THEN \E valid \in BOOLEAN :
                /\ asked' = Append(heard, << "isValid", IF valid THEN "ok" ELSE "badConn" >>)
                /\ pool' = IF valid THEN returned ELSE "none"
        ELSE asked' = heard /\ pool' = returned

\* A method answered; `heard` is the history with it.  A bad connection is closed and
\* the call tried again with another, twice.
Settle(answer, heard) ==
    /\ IF answer = "badConn" THEN pool' = "none" /\ asked' = heard ELSE PutConn(heard)
    /\ IF answer = "badConn" /\ tries < MaxBadConnRetries
       THEN stage' = "conn" /\ tries' = tries + 1 /\ UNCHANGED result
       ELSE stage' = "idle" /\ result' = answer /\ UNCHANGED tries
    /\ UNCHANGED call

\* The driver was asked, and answered.
AskAndSettle(what, answer) == Settle(answer, Heard(what, answer))

\* db.conn takes the idle connection, whose session a driver may reset, ...
TakeIdle ==
    /\ stage = "conn" /\ pool # "none"
    /\ stage' = FirstStage(pool)
    /\ IF "SessionResetter" \in iface THEN Ask("reset", "ok") ELSE UNCHANGED asked
    /\ UNCHANGED << call, tries, pool, result >>

ResetFails ==
    /\ stage = "conn" /\ pool # "none" /\ "SessionResetter" \in iface
    /\ AskAndSettle("reset", "badConn")

\* ... or opens a connection.
Connect ==
    /\ stage = "conn" /\ pool = "none"
    /\ \/ /\ Ask("connect", "ok")
          /\ pool' = "new"
          /\ stage' = FirstStage("new")
          /\ UNCHANGED << call, tries, result >>
       \/ /\ Ask("connect", "error")
          /\ stage' = "idle" /\ result' = "error"
          /\ UNCHANGED << call, tries, pool >>

\* The fast path gives way to a prepared statement.
Fallback ==
    /\ stage' = "prepare"
    /\ UNCHANGED << call, tries, pool, result >>

\* The fast path, through QueryerContext or the older Queryer.
Query ==
    /\ stage = "query"
    /\ IF {"QueryerContext", "Queryer"} \intersect iface # {}
       THEN \/ Ask("query", "skip") /\ Fallback
            \/ \E a \in Answers : AskAndSettle("query", a)
       ELSE Fallback /\ UNCHANGED asked

\* A statement is there to be executed; the application's stays on the connection.
Prepared ==
    /\ stage' = "execute"
    /\ pool' = IF call = "prepared" THEN "prepared" ELSE pool
    /\ UNCHANGED << call, tries, result >>

Prepare ==
    /\ stage = "prepare"
    /\ \/ Ask("prepare", "ok") /\ Prepared
       \/ \E a \in Answers \ {"ok"} : AskAndSettle("prepare", a)

\* Through StmtQueryContext or Query, which every statement has.
Execute ==
    /\ stage = "execute"
    /\ \E a \in Answers : AskAndSettle("execute", a)

\* Options that Begin cannot take are an error.
Begin ==
    /\ stage = "begin"
    /\ IF call = "begin" \/ "ConnBeginTx" \in iface
       THEN \E a \in Answers : AskAndSettle(call, a)
       ELSE Settle("error", asked)

Ping ==
    /\ stage = "ping"
    /\ IF "Pinger" \in iface
       THEN \E a \in Answers : AskAndSettle("ping", a)
       ELSE Settle("ok", asked)

Next ==
    /\ \/ Open \/ (\E c \in Calls : Call(c)) \/ TakeIdle \/ ResetFails \/ Connect
       \/ Query \/ Prepare \/ Execute \/ Begin \/ Ping
    /\ UNCHANGED iface

=============================================================================
