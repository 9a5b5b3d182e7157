------------------------- MODULE TracedDriverProofs -------------------------
(***************************************************************************)
(* For every base driver and any number of calls: a wrapped driver is one  *)
(* that the application and the base cannot tell from a bare one, step by  *)
(* step, but where it degrades; and the spans of a call tell its outcome.  *)
(***************************************************************************)
EXTENDS TracedDriver, TLAPS, SequenceTheorems

\* What the definitions taken from DatabaseSQL are the same for the driver that
\* database/sql sees and for the base.
USE DEF SQL!Answers, SQL!Calls, SQL!Interfaces, SQL!MaxBadConnRetries,
        Bare!Answers, Bare!Calls, Bare!Interfaces, Bare!MaxBadConnRetries

Failures(s) == \A i \in DOMAIN s : s[i] = "error"

\* The calls that reach a method of the driver.
StageInv ==
    /\ stage = "open" => call = "none"
    /\ call = "none" => stage \in {"open", "closed", "idle"}
    /\ stage = "query" => call = "query"
    /\ stage \in {"prepare", "execute"} => call \in {"query", "prepared"}
    /\ stage = "begin" => call \in {"begin", "beginReadOnly"}
    /\ stage = "ping" => call = "ping"

\* Until a call is over, what it recorded is failures: of methods that were skipped,
\* and of connections that were bad.
FailuresSoFar ==
    stage \notin {"open", "closed", "idle"} =>
        result = "none" /\ \A i \in DOMAIN spans : spans[i] = "error"

\* The inductive invariant.
IInv == TypeOK /\ StageInv /\ FailuresSoFar /\ SpansTellOutcome

\* A call whose spans tell its outcome, and the spans of one that succeeded.
Told == sampled /\ call \in {"query", "prepared"}

OneSuccess(s) == s # << >> /\ Last(s) = "unset" /\ \A i \in DOMAIN Front(s) : s[i] = "error"

\* A span recorded after failures alone.
LEMMA RecordedStatus ==
    ASSUME spans \in Seq({"unset", "error"}), sampled \in BOOLEAN, Failures(spans),
           NEW a \in SQL!Answers \union {"skip"}, Record(a)
    PROVE  /\ spans' \in Seq({"unset", "error"})
           /\ a \notin {"ok", "eof"} => Failures(spans')
           /\ Told /\ a = "ok" => OneSuccess(spans')
<1>1. CASE ~sampled
  BY <1>1 DEF Record, Told
<1>2. CASE sampled
  <2>1. spans' = Append(spans, StatusOf(a)) /\ StatusOf(a) \in {"unset", "error"}
    BY <1>2 DEF Record, StatusOf
  <2>2. /\ spans' \in Seq({"unset", "error"}) /\ Len(spans) \in Nat
        /\ Len(spans') = Len(spans) + 1 /\ DOMAIN spans = 1 .. Len(spans)
        /\ DOMAIN spans' = 1 .. Len(spans) + 1
        /\ \A i \in 1 .. Len(spans) : spans'[i] = spans[i]
        /\ spans'[Len(spans) + 1] = StatusOf(a)
    BY <2>1, AppendProperties
  <2>3. a \notin {"ok", "eof"} => Failures(spans')
    <3>1. SUFFICES ASSUME a \notin {"ok", "eof"}, NEW i \in DOMAIN spans' PROVE spans'[i] = "error"
      BY DEF Failures
    <3>2. StatusOf(a) = "error"
      BY <3>1 DEF StatusOf
    <3>3. i \in DOMAIN spans \/ i = Len(spans) + 1
      BY <2>2
    <3> QED
      BY <2>2, <3>2, <3>3 DEF Failures
  <2>4. a = "ok" => OneSuccess(spans')
    <3>1. SUFFICES ASSUME a = "ok" PROVE OneSuccess(spans')
      OBVIOUS
    <3>2. StatusOf(a) = "unset"
      BY <3>1 DEF StatusOf
    <3>3. spans' # << >> /\ Last(spans') = "unset"
      BY <2>2, <3>2 DEF Last
    <3>4. Front(spans') = SubSeq(spans', 1, Len(spans))
      BY <2>2 DEF Front
    <3>5. /\ DOMAIN Front(spans') = 1 .. Len(spans)
          /\ \A i \in 1 .. Len(spans) : Front(spans')[i] = spans'[i]
      <4>1. \A i \in 1 .. Len(spans) : i \in 1 .. Len(spans')
        BY <2>2
      <4> QED
        BY <2>2, <3>4, <4>1, SubSeqProperties
    <3> QED
      BY <2>2, <3>3, <3>5 DEF OneSuccess, Failures
  <2> QED
    BY <2>2, <2>3, <2>4
<1> QED
  BY <1>1, <1>2

\* A call that is over, or goes on with another connection, has spans that tell how
\* its last method went.
LEMMA SettledInv ==
    ASSUME IInv, NEW a \in SQL!Answers \union {"skip"},
           NEW heard \in Seq(Methods \X (SQL!Answers \union {"skip"})), SQL!Settle(a, heard),
           stage \notin {"open", "closed", "idle"},
           UNCHANGED << base, sampled >>, spans' \in Seq({"unset", "error"}),
           a \notin {"ok", "eof"} => Failures(spans'),
           Told /\ a = "ok" => OneSuccess(spans')
    PROVE  IInv'
<1>1. /\ call' = call /\ pool' \in {"none", "new", "used", "prepared"} /\ asked' = heard
      /\ \/ a = "badConn" /\ stage' = "conn" /\ tries < 2 /\ tries' = tries + 1 /\ result' = result
         \/ stage' = "idle" /\ result' = a /\ tries' = tries
  BY DEF SQL!Settle, SQL!PutConn, Wrapper, IInv, TypeOK
<1>2. TypeOK'
  BY <1>1 DEF IInv, TypeOK, Stages
<1>3. StageInv'
  BY <1>1 DEF IInv, StageInv
<1>4. FailuresSoFar'
  BY <1>1 DEF IInv, FailuresSoFar, Failures
<1>5. SpansTellOutcome'
  <2>1. CASE stage' = "conn"
    BY <2>1 DEF SpansTellOutcome, Queried
  <2>2. CASE result' = a
    <3>1. SUFFICES ASSUME Queried'
                   PROVE  /\ result' = "ok" => OneSuccess(spans')
                          /\ result' \in {"error", "badConn", "skip"} => Failures(spans')
      BY DEF SpansTellOutcome, OneSuccess, Failures
    <3>2. Told
      BY <1>1, <3>1 DEF Queried, Told
    <3> QED
      BY <2>2, <3>2
  <2> QED
    BY <1>1, <2>1, <2>2
<1> QED
  BY <1>2, <1>3, <1>4, <1>5 DEF IInv

\* A call that goes on has failures so far.
LEMMA GoesOnInv ==
    ASSUME IInv, stage \notin {"open", "closed", "idle"},
           stage' \in {"query", "prepare", "execute", "begin", "ping"}, StageInv',
           pool' \in {"none", "new", "used", "prepared"},
           UNCHANGED << base, call, tries, result, sampled >>,
           asked' \in Seq(Methods \X (SQL!Answers \union {"skip"})), spans' \in Seq({"unset", "error"}),
           Failures(spans')
    PROVE  IInv'
<1>1. TypeOK'
  BY DEF IInv, TypeOK, Stages
<1>2. FailuresSoFar'
  BY DEF IInv, FailuresSoFar, Failures
<1>3. SpansTellOutcome'
  BY DEF SpansTellOutcome, Queried
<1> QED
  BY <1>1, <1>2, <1>3 DEF IInv

\* What a method finds when it is called.
LEMMA InCall ==
    ASSUME IInv, stage \notin {"open", "closed", "idle"}
    PROVE  /\ Failures(spans) /\ spans \in Seq({"unset", "error"}) /\ sampled \in BOOLEAN
           /\ result = "none" /\ asked \in Seq(Methods \X (SQL!Answers \union {"skip"}))
           /\ pool \in {"none", "new", "used", "prepared"}
BY DEF IInv, TypeOK, FailuresSoFar, Failures

\* The history of what was asked, with one entry more.
LEMMA HeardType ==
    ASSUME asked \in Seq(Methods \X (SQL!Answers \union {"skip"})),
           NEW what \in {"connect", "query", "prepare", "execute", "begin", "beginReadOnly", "ping"},
           NEW a \in SQL!Answers \union {"skip"}
    PROVE  /\ SQL!Heard(what, a) \in Seq(Methods \X (SQL!Answers \union {"skip"}))
           /\ SQL!Ask(what, a) => asked' \in Seq(Methods \X (SQL!Answers \union {"skip"}))
<1>1. << what, a >> \in Methods \X (SQL!Answers \union {"skip"})
  BY DEF Methods
<1>2. Append(asked, << what, a >>) \in Seq(Methods \X (SQL!Answers \union {"skip"}))
  <2>1. ASSUME NEW S, NEW s \in Seq(S), NEW e \in S
        PROVE  Append(s, e) \in Seq(S)
    BY <2>1, AppendProperties
  <2> QED
    BY <1>1, <2>1
<1>3. SQL!Heard(what, a) = Append(asked, << what, a >>)
  BY DEF SQL!Heard
<1>4. SQL!Ask(what, a) => asked' = SQL!Heard(what, a)
  BY DEF SQL!Ask
<1> QED
  BY <1>2, <1>3, <1>4

-----------------------------------------------------------------------------
(* The steps of the wrapper *)

\* sql.Open, and a call of the application.
LEMMA OpenCallInv ==
    ASSUME IInv, OpenConnector \/ \E c \in SQL!Calls : Call(c)
    PROVE  IInv'
<1>1. CASE OpenConnector
  <2>1. /\ stage' \in {"idle", "closed"} /\ stage = "open"
        /\ UNCHANGED << base, call, tries, pool, asked, result, sampled, spans >>
    BY <1>1 DEF OpenConnector
  <2> QED
    BY <2>1 DEF IInv, TypeOK, StageInv, FailuresSoFar, SpansTellOutcome, Queried, Stages
<1>2. ASSUME NEW c \in SQL!Calls, Call(c) PROVE IInv'
  <2>1. /\ stage' = "conn" /\ call' = c /\ tries' = 0 /\ pool' = pool /\ asked' = << >>
        /\ result' = "none" /\ sampled' \in BOOLEAN /\ spans' = << >> /\ base' = base
    BY <1>2 DEF Call, SQL!Call
  <2>2. TypeOK'
    BY <2>1 DEF IInv, TypeOK, Stages
  <2> QED
    BY <2>1, <2>2 DEF IInv, StageInv, FailuresSoFar, SpansTellOutcome, Queried
<1> QED
  BY <1>1, <1>2

\* A connection for a call.
LEMMA ConnInv ==
    ASSUME IInv, TakeIdle \/ Connect
    PROVE  IInv'
<1>1. /\ stage = "conn" /\ call \in SQL!Calls
      /\ UNCHANGED << base, call, tries, sampled, spans >>
  <2>1. stage = "conn" /\ UNCHANGED << base, call, tries, sampled, spans >>
    BY DEF TakeIdle, SQL!TakeIdle, Connect, SQL!Connect
  <2> QED
    BY <2>1 DEF IInv, TypeOK, StageInv
<1>2. ASSUME NEW connection, stage' = SQL!FirstStage(connection)
      PROVE  stage' \in {"query", "prepare", "execute", "begin", "ping"} /\ StageInv'
  BY <1>1, <1>2 DEF SQL!FirstStage, StageInv
<1>3. CASE TakeIdle
  <2>1. stage' = SQL!FirstStage(pool) /\ UNCHANGED << pool, result, asked >>
    BY <1>3 DEF TakeIdle, SQL!TakeIdle, Wrapper
  <2> QED
    BY <1>1, <1>2, <2>1, InCall, GoesOnInv
<1>4. CASE SQL!Ask("connect", "ok") /\ pool' = "new" /\ stage' = SQL!FirstStage("new") /\ result' = result
  <2>1. asked' \in Seq(Methods \X (SQL!Answers \union {"skip"}))
    BY <1>1, <1>4, InCall, HeardType
  <2> QED
    BY <1>1, <1>2, <1>4, <2>1, InCall, GoesOnInv
<1>5. CASE SQL!Ask("connect", "error") /\ stage' = "idle" /\ result' = "error" /\ pool' = pool
  <2>1. asked' \in Seq(Methods \X (SQL!Answers \union {"skip"}))
    BY <1>1, <1>5, InCall, HeardType
  <2>2. TypeOK'
    BY <1>1, <1>5, <2>1 DEF IInv, TypeOK, Stages
  <2>3. Failures(spans')
    BY <1>1, InCall
  <2>4. StageInv' /\ FailuresSoFar' /\ SpansTellOutcome'
    BY <1>5, <2>3 DEF StageInv, FailuresSoFar, SpansTellOutcome, Failures
  <2> QED
    BY <2>2, <2>4 DEF IInv
<1> QED
  BY <1>3, <1>4, <1>5 DEF Connect, SQL!Connect

\* The fast path of a query.
LEMMA QueryInv ==
    ASSUME IInv, QueryContext
    PROVE  IInv'
<1>1. /\ stage = "query" /\ call = "query" /\ UNCHANGED << base, sampled >>
  BY DEF QueryContext, IInv, StageInv
<1>2. ASSUME SQL!Fallback, asked' \in Seq(Methods \X (SQL!Answers \union {"skip"})),
             spans' \in Seq({"unset", "error"}), Failures(spans')
      PROVE  IInv'
  <2>1. stage' = "prepare" /\ UNCHANGED << call, tries, pool, result >>
    BY <1>2 DEF SQL!Fallback
  <2>2. StageInv'
    BY <1>1, <2>1 DEF StageInv
  <2> QED
    BY <1>1, <1>2, <2>1, <2>2, InCall, GoesOnInv
<1>3. CASE SQL!Ask("query", "skip") /\ SQL!Fallback /\ Record("skip")
  <2>1. spans' \in Seq({"unset", "error"}) /\ Failures(spans')
    BY <1>1, <1>3, InCall, RecordedStatus
  <2>2. asked' \in Seq(Methods \X (SQL!Answers \union {"skip"}))
    BY <1>1, <1>3, InCall, HeardType
  <2> QED
    BY <1>2, <1>3, <2>1, <2>2
<1>4. ASSUME NEW a \in SQL!Answers, SQL!AskAndSettle("query", a), Record(a)
      PROVE  IInv'
  <2>1. /\ spans' \in Seq({"unset", "error"})
        /\ a \notin {"ok", "eof"} => Failures(spans')
        /\ Told /\ a = "ok" => OneSuccess(spans')
    BY <1>1, <1>4, InCall, RecordedStatus
  <2>2. SQL!Heard("query", a) \in Seq(Methods \X (SQL!Answers \union {"skip"}))
    BY <1>1, InCall, HeardType
  <2> QED
    BY <1>1, <1>4, <2>1, <2>2, SettledInv DEF SQL!AskAndSettle
<1>5. CASE SQL!Fallback /\ UNCHANGED << asked, spans >>
  BY <1>1, <1>2, <1>5, InCall
<1> QED
  BY <1>3, <1>4, <1>5 DEF QueryContext

\* A statement is prepared, which records nothing.
LEMMA PrepareInv ==
    ASSUME IInv, PrepareContext
    PROVE  IInv'
<1>1. /\ stage = "prepare" /\ call \in {"query", "prepared"} /\ UNCHANGED << base, sampled, spans >>
  BY DEF PrepareContext, SQL!Prepare, IInv, StageInv
<1>2. CASE SQL!Ask("prepare", "ok") /\ SQL!Prepared
  <2>1. asked' \in Seq(Methods \X (SQL!Answers \union {"skip"}))
    BY <1>1, <1>2, InCall, HeardType
  <2>2. /\ stage' = "execute" /\ pool' \in {"prepared", pool}
        /\ UNCHANGED << call, tries, result >>
    BY <1>2 DEF SQL!Prepared
  <2>3. StageInv'
    BY <1>1, <2>2 DEF StageInv
  <2> QED
    BY <1>1, <2>1, <2>2, <2>3, InCall, GoesOnInv
<1>3. ASSUME NEW a \in SQL!Answers \ {"ok"}, SQL!AskAndSettle("prepare", a) PROVE IInv'
  <2>1. SQL!Heard("prepare", a) \in Seq(Methods \X (SQL!Answers \union {"skip"}))
    BY <1>1, InCall, HeardType
  <2> QED
    BY <1>1, <1>3, <2>1, InCall, SettledInv DEF SQL!AskAndSettle
<1> QED
  BY <1>2, <1>3 DEF PrepareContext, SQL!Prepare

\* A statement is executed.
LEMMA ExecuteInv ==
    ASSUME IInv, StmtQueryContext
    PROVE  IInv'
<1>1. /\ stage = "execute" /\ call \in {"query", "prepared"} /\ UNCHANGED << base, sampled >>
  BY DEF StmtQueryContext, IInv, StageInv
<1>2. ASSUME NEW a \in SQL!Answers, SQL!AskAndSettle("execute", a), Record(a)
      PROVE  IInv'
  <2>1. /\ spans' \in Seq({"unset", "error"})
        /\ a \notin {"ok", "eof"} => Failures(spans')
        /\ Told /\ a = "ok" => OneSuccess(spans')
    BY <1>1, <1>2, InCall, RecordedStatus
  <2>2. SQL!Heard("execute", a) \in Seq(Methods \X (SQL!Answers \union {"skip"}))
    BY <1>1, InCall, HeardType
  <2> QED
    BY <1>1, <1>2, <2>1, <2>2, SettledInv DEF SQL!AskAndSettle
<1>3. CASE SQL!Settle("skip", asked) /\ UNCHANGED spans
  BY <1>1, <1>3, InCall, SettledInv
<1> QED
  BY <1>2, <1>3 DEF StmtQueryContext

\* Transactions and pings record nothing.
LEMMA OtherCallsInv ==
    ASSUME IInv, BeginTx \/ Ping
    PROVE  IInv'
<1>1. /\ stage \in {"begin", "ping"} /\ call \in {"begin", "beginReadOnly", "ping"}
      /\ UNCHANGED << base, sampled, spans >>
  BY DEF BeginTx, Ping, IInv, StageInv
<1>. ~Told
  BY <1>1 DEF Told
<1>2. ASSUME NEW a \in SQL!Answers, NEW what \in {"begin", "beginReadOnly", "ping"},
             SQL!AskAndSettle(what, a)
      PROVE  IInv'
  <2>1. SQL!Heard(what, a) \in Seq(Methods \X (SQL!Answers \union {"skip"}))
    BY <1>1, InCall, HeardType
  <2> QED
    BY <1>1, <1>2, <2>1, InCall, SettledInv DEF SQL!AskAndSettle
<1>3. CASE SQL!Settle("ok", asked)
  BY <1>1, <1>3, InCall, SettledInv
<1>4. CASE BeginTx
  <2>1. (IF "ConnBeginTx" \in base THEN call ELSE "begin") \in {"begin", "beginReadOnly", "ping"}
    BY <1>1
  <2>2. PICK a \in SQL!Answers : SQL!AskAndSettle(IF "ConnBeginTx" \in base THEN call ELSE "begin", a)
    BY <1>4 DEF BeginTx
  <2> QED
    BY <1>2, <2>1, <2>2
<1>5. CASE Ping
  BY <1>2, <1>3, <1>5 DEF Ping
<1> QED
  BY <1>4, <1>5

\* IInv is an invariant of a wrapped driver: while a call lasts its spans are
\* failures, and a method is reached by the calls that it belongs to.
THEOREM Invariance == Spec => []IInv
<1>1. Init => IInv
  <2> SUFFICES ASSUME Init PROVE IInv
    OBVIOUS
  <2>1. /\ base \in SUBSET SQL!Interfaces /\ stage = "open" /\ call = "none" /\ tries = 0
        /\ pool = "none" /\ asked = << >> /\ result = "none" /\ sampled = FALSE /\ spans = << >>
    BY DEF Init, Bare!Init
  <2>2. << >> \in Seq(Methods \X (SQL!Answers \union {"skip"})) /\ << >> \in Seq({"unset", "error"})
    OBVIOUS
  <2>3. TypeOK
    <3>1. sampled \in BOOLEAN /\ asked \in Seq(Methods \X (SQL!Answers \union {"skip"}))
          /\ spans \in Seq({"unset", "error"})
      BY <2>1, <2>2
    <3>2. tries \in 0 .. SQL!MaxBadConnRetries
      BY <2>1
    <3>3. base \in SUBSET SQL!Interfaces
      BY <2>1
    <3> QED
      BY <2>1, <3>1, <3>2, <3>3 DEF TypeOK, Stages
  <2> QED
    BY <2>1, <2>3 DEF IInv, StageInv, FailuresSoFar, SpansTellOutcome, Queried
<1>2. IInv /\ [Next]_vars => IInv'
  <2> SUFFICES ASSUME IInv, [Next]_vars PROVE IInv'
    OBVIOUS
  <2>1. CASE UNCHANGED vars
    <3>1. UNCHANGED << base, stage, call, tries, pool, asked, result, sampled, spans >>
      BY <2>1 DEF vars, sqlVars
    <3> QED
      BY <3>1 DEF IInv, TypeOK, StageInv, FailuresSoFar, SpansTellOutcome, Queried
  <2> QED
    BY <2>1, OpenCallInv, ConnInv, QueryInv, PrepareInv, ExecuteInv, OtherCallsInv DEF Next
<1> QED
  BY <1>1, <1>2, PTL DEF Spec

\* However often a query was skipped, retried or sent to a new connection, its spans
\* tell its outcome: one without an error at the end if it succeeded, none if it
\* failed (record, decorate).
THEOREM OutcomeTold == Spec => []SpansTellOutcome
<1>1. IInv => SpansTellOutcome
  BY DEF IInv
<1> QED
  BY Invariance, <1>1, PTL

-----------------------------------------------------------------------------
(* The wrapper against the bare driver *)

\* A method that the wrapper answers as the base does settles the call for the bare
\* driver too, unless a Validator would be asked for the connection that goes back.
LEMMA SettlesAlike ==
    ASSUME NEW a, NEW heard, SQL!Settle(a, heard), stage \notin {"open", "idle", "conn"}, ~Degrades
    PROVE  Bare!Settle(a, heard)
<1>1. a = "badConn" \/ "Validator" \notin base
  BY DEF SQL!Settle, Degrades, GoesBack
<1> QED
  BY <1>1 DEF SQL!Settle, SQL!PutConn, Bare!Settle, Bare!PutConn, Wrapper

\* So it is when it was asked first.
LEMMA AsksAlike ==
    ASSUME NEW what, NEW a, SQL!AskAndSettle(what, a), stage \notin {"open", "idle", "conn"}, ~Degrades
    PROVE  Bare!AskAndSettle(what, a)
BY SettlesAlike DEF SQL!AskAndSettle, Bare!AskAndSettle, SQL!Heard, Bare!Heard

\* Each step of the wrapper is one that the bare driver can take, unless it is one of
\* those with which a wrapped driver goes another way.
LEMMA StepTransparent ==
    ASSUME IInv, Next, ~Degrades
    PROVE  Bare!Next
<1> base' = base
  BY DEF Next, OpenConnector, Call, TakeIdle, Connect, QueryContext, PrepareContext,
         StmtQueryContext, BeginTx, Ping
<1>1. CASE OpenConnector
  BY <1>1 DEF OpenConnector, Bare!Next, Bare!Open
<1>2. ASSUME NEW c \in SQL!Calls, Call(c) PROVE Bare!Next
  BY <1>2 DEF Call, SQL!Call, Bare!Next, Bare!Call
<1>3. CASE TakeIdle
  <2>1. Bare!TakeIdle
    BY <1>3 DEF TakeIdle, SQL!TakeIdle, Bare!TakeIdle, SQL!FirstStage, Bare!FirstStage,
                Degrades, Wrapper
  <2> QED
    BY <2>1 DEF Bare!Next
<1>4. CASE Connect
  <2>1. Bare!Connect
    BY <1>4 DEF Connect, SQL!Connect, Bare!Connect, SQL!FirstStage, Bare!FirstStage,
                SQL!Ask, Bare!Ask, SQL!Heard, Bare!Heard
  <2> QED
    BY <2>1 DEF Bare!Next
<1>5. CASE QueryContext
  <2>1. Bare!Query
    BY <1>5, SettlesAlike, AsksAlike DEF QueryContext, Bare!Query, Degrades, SQL!Ask, Bare!Ask, SQL!Heard, Bare!Heard,
                              SQL!Fallback, Bare!Fallback
  <2> QED
    BY <2>1 DEF Bare!Next
<1>6. CASE PrepareContext
  <2>1. Bare!Prepare
    BY <1>6, SettlesAlike, AsksAlike DEF PrepareContext, SQL!Prepare, Bare!Prepare, SQL!Ask, Bare!Ask, SQL!Heard, Bare!Heard,
                              SQL!Prepared, Bare!Prepared
  <2> QED
    BY <2>1 DEF Bare!Next
<1>7. CASE StmtQueryContext
  <2>1. Bare!Execute
    BY <1>7, SettlesAlike, AsksAlike DEF StmtQueryContext, Bare!Execute, Degrades, SQL!Ask, Bare!Ask, SQL!Heard, Bare!Heard
  <2> QED
    BY <2>1 DEF Bare!Next
<1>8. CASE BeginTx
  <2>1. stage = "begin" /\ call \in {"begin", "beginReadOnly"}
    BY <1>8 DEF BeginTx, IInv, StageInv
  <2>2. Bare!Begin
    BY <1>8, <2>1, SettlesAlike, AsksAlike DEF BeginTx, Bare!Begin, Degrades, SQL!Ask, Bare!Ask, SQL!Heard, Bare!Heard
  <2> QED
    BY <2>2 DEF Bare!Next
<1>9. CASE Ping
  <2>1. Bare!Ping
    BY <1>9, SettlesAlike, AsksAlike DEF Ping, Bare!Ping, SQL!Ask, Bare!Ask, SQL!Heard, Bare!Heard
  <2> QED
    BY <2>1 DEF Bare!Next
<1> QED
  BY <1>1, <1>2, <1>3, <1>4, <1>5, <1>6, <1>7, <1>8, <1>9 DEF Next

\* But for the steps that degrade it, a wrapped driver is one that neither the
\* application nor the base driver can tell from a bare one ("fn does the real
\* work", record): each of its steps is a step of the bare driver, or a stutter.
THEOREM WrappingIsTransparent == Spec => Transparent
<1>1. Init => Bare!Init
  BY DEF Init
<1>2. IInv /\ [Next]_vars => [~Degrades => Bare!Next]_(Bare!vars)
  <2>1. ASSUME UNCHANGED vars PROVE UNCHANGED Bare!vars
    BY <2>1 DEF vars, sqlVars, Bare!vars
  <2> QED
    BY <2>1, StepTransparent
<1> QED
  BY <1>1, <1>2, Invariance, PTL DEF Spec, Transparent
=============================================================================
