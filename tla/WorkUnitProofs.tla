--------------------------- MODULE WorkUnitProofs ---------------------------
(***************************************************************************)
(* For every set of entry points and status codes, and any number of       *)
(* WriteHeader calls: the inductive invariant IInv of WorkUnit, and from   *)
(* it what the export and the caller of a unit show of how it ended.       *)
(* Then, for every number of operations and every course of the clock:     *)
(* UnionLength is the time covered by its intervals, and the self times on *)
(* the root account for the unit (SelfTime).  The induction over a sorted  *)
(* list of intervals is made with sets: the numbers of turns after which   *)
(* something holds contain 0, or 1, and with each number the next one.     *)
(* Last, for every number of services, units and headers: the inductive    *)
(* invariant of Propagation, and from it that the spans of a distributed   *)
(* trace share the same fate and that a callee finds its parent.           *)
(***************************************************************************)
EXTENDS WorkUnit, SelfTime, Propagation, TLAPS, SequenceTheorems, FiniteSetTheorems, WellFoundedInduction

Finishing == pc \in {"finish", "send", "sendPanicked", "reraise"}

\* While the unit is finished, what its handler ended with is held: a panic by recover,
\* where there is one, and what else there is by being in flight.
Held ==
    /\ ~Lost
    /\ IF entry \in Recovering /\ outcome = "panic"
       THEN recovered = "panic" /\ inFlight = "returns"
       ELSE recovered = "none" /\ inFlight = outcome

\* What is in flight, and what was exported, in each part of a unit's life; and what the
\* application marked as failed stays so.
LifeInv ==
    /\ pc \in {"start", "handler"} => outcome = "none" /\ inFlight = "none" /\ recovered = "none"
    /\ pc = "start" => root = NoRoot
    /\ pc = "unwind" => outcome \in Endings /\ inFlight = outcome /\ recovered = "none"
    /\ Finishing => outcome \in Endings /\ Held
    /\ pc \in {"start", "handler", "unwind", "finish", "send"} => exports = 0
    /\ pc \in {"send", "sendPanicked"} => root # NoRoot
    /\ pc \in {"sendPanicked", "reraise"} => exports = (IF root = NoRoot THEN 0 ELSE 1)
    /\ root = NoRoot <=> root.status = "none"
    /\ marked => root.status = "error"

\* But for informational ones, the status kept is the one that went out.
ResponseInv ==
    IF response.wroteHeader
    THEN ~Informed => response.final = response.status
    ELSE response.sent = {} /\ response.final = 0 /\ response.status = 200

\* What FailureShows and StatusReported say of the root.
FailureTold ==
    Failed /\ ~Overlooked /\ ~Informed /\ ~(Contradicted /\ errorCode < 500) => root.status = "error"

StatusTold ==
    (/\ entry \in Requests /\ outcome \notin {"panic", "goexit"} /\ ~Informed
     /\ ~(ReturnedError /\ (entry = "fiber" \/ response.wroteHeader))) =>
        root.code = ClientStatus

\* A root that was marked tells them before it is sent.
ReportInv == pc \in {"send", "sendPanicked", "reraise"} /\ root # NoRoot => FailureTold /\ StatusTold

Promises == ExportedOnce /\ HostSeesOutcome /\ FailureShows /\ StatusReported

\* The inductive invariant.
IInv == TypeOK /\ LifeInv /\ ResponseInv /\ ReportInv /\ Promises

Roots == [status : {"none", "unset", "error", "ok"}, code : 0 .. 599]

\* A unit that starts satisfies the invariant.
LEMMA InitInv == Init => IInv
<1> SUFFICES ASSUME Init PROVE IInv
  OBVIOUS
<1>1. TypeOK
  <2>1. root \in [status : {"none", "unset", "error", "ok"}, code : 0 .. 599]
    BY DEF Init, NoRoot
  <2>2. response \in [sent : SUBSET Codes, final : 0 .. 599, status : 100 .. 599,
                     wroteHeader : BOOLEAN, errors : BOOLEAN]
    BY DEF Init
  <2> QED
    BY <2>1, <2>2 DEF Init, TypeOK
<1>2. LifeInv /\ ResponseInv /\ ReportInv
  BY DEF Init, LifeInv, Finishing, ResponseInv, ReportInv, NoRoot
<1>3. Promises
  BY DEF Init, Promises, ExportedOnce, HostSeesOutcome, FailureShows, StatusReported, NoRoot, Over
<1> QED
  BY <1>1, <1>2, <1>3 DEF IInv

\* Nothing is promised of a unit that is not over, but that it keeps its marks.
LEMMA NotOverYet ==
    ASSUME LifeInv', ~Over'
    PROVE  Promises'
BY DEF LifeInv, Promises, ExportedOnce, HostSeesOutcome, FailureShows, StatusReported

-----------------------------------------------------------------------------
(* The handler *)

\* The unit starts, its root is marked, or its handler ends.
LEMMA LifeStepInv ==
    ASSUME IInv, Start \/ SetStatus \/ EndHandler
    PROVE  IInv'
<1>1. UNCHANGED << entry, recovered, response, exports >> /\ pc \in {"start", "handler"}
      /\ pc' \in {"handler", "unwind"}
  BY DEF Start, SetStatus, EndHandler, flight
<1>2. ResponseInv' /\ ReportInv' /\ ~Over'
  BY <1>1 DEF IInv, ResponseInv, Informed, ReportInv, Over
<1>3. Endings' = Endings
  BY <1>1 DEF Endings
<1>4. root \in Roots /\ (root = NoRoot <=> root.status = "none") /\ (marked => root.status = "error")
      /\ exports = 0 /\ recovered = "none" /\ errorCode \in {0} \union Codes /\ marked \in BOOLEAN
      /\ outcome = "none" /\ inFlight = "none"
  BY <1>1 DEF IInv, TypeOK, LifeInv, Roots
<1>5. /\ root' \in Roots /\ (root' = NoRoot <=> root'.status = "none") /\ marked' \in BOOLEAN
      /\ marked' => root'.status = "error"
  <2>1. CASE Start
    BY <1>1, <1>4, <2>1 DEF Start, NoRoot, history, Roots, IInv, LifeInv
  <2>2. CASE SetStatus
    <3>1. root' = [root EXCEPT !.status = "error"] /\ marked' = TRUE
      BY <2>2 DEF SetStatus
    <3>2. root'.status = "error" /\ root' \in Roots
      BY <1>4, <3>1 DEF Roots
    <3> QED
      BY <3>1, <3>2 DEF NoRoot
  <2>3. CASE EndHandler
    BY <1>4, <2>3 DEF EndHandler
  <2> QED
    BY <2>1, <2>2, <2>3
<1>6. /\ IF pc' = "handler" THEN outcome' = "none" /\ inFlight' = "none"
         ELSE outcome' \in Endings /\ inFlight' = outcome'
      /\ errorCode' \in {0} \union Codes
  <2>1. CASE Start \/ SetStatus
    BY <1>1, <1>4, <2>1 DEF Start, SetStatus, history, flight
  <2>2. CASE EndHandler
    BY <2>2 DEF EndHandler
  <2> QED
    BY <2>1, <2>2
<1>7. TypeOK'
  BY <1>1, <1>3, <1>5, <1>6 DEF IInv, TypeOK, Roots
<1>8. LifeInv'
  BY <1>1, <1>3, <1>4, <1>5, <1>6 DEF LifeInv, Finishing
<1> QED
  BY <1>2, <1>7, <1>8, NotOverYet DEF IInv

\* The handler answers.
LEMMA ResponseStepInv ==
    ASSUME IInv, (\E code \in Codes : WriteHeader(code)) \/ Write \/ RecordError
    PROVE  IInv'
<1>1. /\ UNCHANGED << entry, root, pc, inFlight, recovered, errorCode, exports, outcome, marked >>
      /\ pc = "handler"
  BY DEF WriteHeader, Write, RecordError, flight, history
<1>2. LifeInv' /\ ReportInv' /\ ~Over'
  BY <1>1 DEF IInv, LifeInv, Finishing, ReportInv, Over
<1> DEFINE Sets == SUBSET Codes
           Finals == 0 .. 599
           Statuses == 100 .. 599
           Responses == [sent : Sets, final : Finals, status : Statuses,
                         wroteHeader : BOOLEAN, errors : BOOLEAN]
<1>3. response \in Responses
  BY DEF IInv, TypeOK
<1> HIDE DEF Responses
<1>0. /\ response.status \in 100 .. 599 /\ response.final \in 0 .. 599
      /\ response.sent \in SUBSET Codes /\ response.wroteHeader \in BOOLEAN
  BY <1>3 DEF Responses
<1> USE DEF Responses
<1> HIDE DEF Sets, Finals, Statuses
<1>4. response' \in Responses /\ ResponseInv'
  <2>1. ASSUME NEW code \in Codes, WriteHeader(code) PROVE response' \in Responses /\ ResponseInv'
    <3>1. code \in 100 .. 599
      BY CodesAssumption
    <3> DEFINE status == IF response.wroteHeader THEN response.status ELSE code
               final == IF response.final = 0 /\ code >= 200 THEN code ELSE response.final
               sent == response.sent \union {code}
    <3>2. response' = [response EXCEPT !.sent = sent, !.wroteHeader = TRUE,
                                       !.status = status, !.final = final]
      BY <2>1 DEF WriteHeader
    <3>3. /\ status \in Statuses /\ final \in Finals
          /\ sent \in Sets
      BY <1>0, <3>1 DEF Statuses, Finals, Sets
    <3>4. code < 200 \/ Informed \/ final = status
      BY <1>0, <3>1 DEF IInv, ResponseInv
    <3>5. \A n \in response.sent : n \in sent
      OBVIOUS
    <3> HIDE DEF status, final, sent
    <3>6. /\ response' \in Responses /\ response'.wroteHeader = TRUE
          /\ response'.sent = sent
          /\ response'.status = status /\ response'.final = final
      BY <1>3, <3>2, <3>3
    <3>7. ~Informed' => final = status
      <4>1. code \in sent
        BY DEF sent
      <4> QED
        BY <3>4, <3>5, <3>6, <4>1 DEF Informed
    <3> QED
      BY <3>6, <3>7 DEF ResponseInv
  <2>2. CASE Write
    <3> DEFINE final == IF response.final = 0 THEN 200 ELSE response.final
    <3>1. response' = [response EXCEPT !.wroteHeader = TRUE, !.final = final]
      BY <2>2 DEF Write
    <3>2. final \in Finals
      BY <1>0 DEF Finals
    <3>3. Informed \/ final = response.status
      BY <1>0, <1>3 DEF IInv, ResponseInv
    <3> HIDE DEF final
    <3>4. /\ response' \in Responses /\ response'.wroteHeader = TRUE
          /\ response'.sent = response.sent
          /\ response'.status = response.status /\ response'.final = final
      BY <1>3, <3>1, <3>2
    <3> QED
      BY <3>3, <3>4 DEF ResponseInv, Informed
  <2>3. CASE RecordError
    <3>1. /\ response' \in Responses /\ response'.wroteHeader = response.wroteHeader
          /\ response'.sent = response.sent
          /\ response'.status = response.status /\ response'.final = response.final
      BY <1>3, <2>3 DEF RecordError
    <3> QED
      BY <3>1 DEF IInv, ResponseInv, Informed
  <2> QED
    BY <2>1, <2>2, <2>3
<1>5. TypeOK'
  <2>1. Endings' = Endings
    BY <1>1 DEF Endings
  <2>2. response' \in [sent : SUBSET Codes, final : 0 .. 599, status : 100 .. 599,
                       wroteHeader : BOOLEAN, errors : BOOLEAN]
    BY <1>4 DEF Sets, Finals, Statuses
  <2> HIDE DEF Responses
  <2> QED
    BY <1>1, <2>1, <2>2 DEF IInv, TypeOK
<1> QED
  BY <1>2, <1>4, <1>5, NotOverYet DEF IInv

-----------------------------------------------------------------------------
(* The end of a unit *)

\* Once the handler has ended, only the root, what is in flight and the exports change:
\* what is to be told of the unit stays.
LEMMA ToldStays ==
    ASSUME UNCHANGED << entry, response, outcome, errorCode >>
    PROVE  /\ Endings' = Endings /\ Lost' = Lost /\ Informed' = Informed
           /\ ClientStatus' = ClientStatus /\ ReturnedError' = ReturnedError
           /\ Failed' = Failed /\ Overlooked' = Overlooked /\ Contradicted' = Contradicted
           /\ (ResponseInv => ResponseInv')
<1>1. Endings' = Endings /\ Lost' = Lost /\ Informed' = Informed /\ ReturnedError' = ReturnedError
  BY DEF Endings, Lost, Informed, ReturnedError
<1>2. ClientStatus' = ClientStatus
  BY <1>1 DEF ClientStatus
<1>3. Overlooked' = Overlooked /\ Contradicted' = Contradicted
  BY <1>1 DEF Overlooked, Contradicted
<1>4. Failed' = Failed
  BY <1>2 DEF Failed
<1>5. ResponseInv => ResponseInv'
  BY <1>1 DEF ResponseInv
<1> QED
  BY <1>1, <1>2, <1>3, <1>4, <1>5

\* What was in flight is recovered, or goes past an adapter.
LEMMA UnwindInv ==
    ASSUME IInv, Recover \/ CallFinish
    PROVE  IInv'
<1>1. /\ pc = "unwind" /\ UNCHANGED << entry, root, errorCode, response, exports, outcome, marked >>
  BY DEF Recover, CallFinish, flight, history
<1>2. /\ outcome \in Endings /\ inFlight = outcome /\ recovered = "none" /\ exports = 0
      /\ root = NoRoot <=> root.status = "none"
      /\ marked => root.status = "error"
  BY <1>1 DEF IInv, LifeInv
<1>3. \/ pc' = "finish" /\ Held'
      \/ pc' = "over" /\ Lost /\ inFlight' = outcome /\ recovered' = "none"
  <2>1. CASE Recover
    BY <1>1, <1>2, <2>1 DEF Recover, Held, Lost, Recovering, Background
  <2>2. CASE CallFinish
    <3>1. inFlight' = outcome /\ recovered' = "none" /\ entry \in Frameworks
      BY <1>2, <2>2 DEF CallFinish, flight
    <3>2. entry \notin Recovering /\ (entry = "gin" \/ entry \in {"echo", "fiber"})
      BY <3>1 DEF Frameworks, Recovering, Background
    <3> QED
      BY <1>1, <1>2, <2>2, <3>1, <3>2 DEF CallFinish, Held, Lost
  <2> QED
    BY <2>1, <2>2
<1>4. /\ Endings' = Endings /\ Lost' = Lost /\ ResponseInv'
  BY <1>1, ToldStays DEF IInv
<1>5. TypeOK'
  <2>1. inFlight' \in Endings /\ recovered' \in {"none", "panic"}
    BY <1>1, <1>2, <1>3 DEF Held, Endings
  <2> QED
    BY <1>1, <1>3, <1>4, <2>1 DEF IInv, TypeOK
<1>6. LifeInv' /\ ReportInv'
  BY <1>1, <1>2, <1>3, <1>4 DEF LifeInv, Finishing, ReportInv
<1>7. Promises'
  <2>1. CASE pc' = "over"
    BY <1>1, <1>2, <1>3, <1>4, <2>1
       DEF Promises, ExportedOnce, HostSeesOutcome, FailureShows, StatusReported
  <2>2. CASE pc' # "over"
    BY <1>6, <2>2, NotOverYet DEF Over
  <2> QED
    BY <2>1, <2>2
<1> QED
  BY <1>4, <1>5, <1>6, <1>7 DEF IInv

\* What the entry point takes for the status of a response is a status, or the code of
\* an error.
LEMMA StatusSeenType ==
    ASSUME TypeOK
    PROVE  StatusSeen \in 0 .. 599
<1>1. response.status \in 100 .. 599 /\ errorCode \in 0 .. 599
  BY CodesAssumption DEF TypeOK
<1> QED
  BY <1>1 DEF StatusSeen, HTTPStatus, EchoStatus

\* A unit that has failed is one that its entry point marks as failed, but for the
\* failures that FailureShows leaves out.
LEMMA FailureSeen ==
    ASSUME TypeOK, ResponseInv, Held, outcome \in Endings, Failed, ~Overlooked, ~Informed,
           ~(Contradicted /\ errorCode < 500)
    PROVE  RequestFailed \/ CommandFailed \/ JobFailed
<1>1. /\ response.status \in 100 .. 599 /\ response.final \in 0 .. 599 /\ entry \in Entries
      /\ response.wroteHeader \in BOOLEAN /\ errorCode \in 0 .. 599
      /\ response.final \in {0, response.status}
      /\ response.wroteHeader \/ response.status = 200
  BY CodesAssumption DEF TypeOK, ResponseInv
<1>2. entry \in {"http", "gin", "echo", "fiber", "job", "command", "schedule"}
  BY <1>1, EntriesAssumption DEF Requests, Frameworks, Background
<1>3. CASE entry = "http"
  <2>1. outcome \in {"returns", "panic", "goexit"}
    BY <1>3 DEF Endings
  <2>2. outcome = "panic" => recovered = "panic"
    BY <1>3 DEF Held, Recovering
  <2>3. outcome # "panic" => StatusSeen >= 500
    BY <1>1, <1>3, <2>1 DEF Failed, ClientStatus, Held, StatusSeen, HTTPStatus
  <2> QED
    BY <1>3, <2>1, <2>2, <2>3 DEF RequestFailed, Requests
<1>4. CASE entry = "gin"
  <2>1. outcome \in {"returns", "panic", "goexit"}
    BY <1>4 DEF Endings
  <2>2. response.status >= 500
    BY <1>1, <1>4, <2>1 DEF Failed, Overlooked, ClientStatus, ReturnedError
  <2> QED
    BY <1>4, <2>2 DEF RequestFailed, Requests, Frameworks, StatusSeen
<1>5. CASE entry = "echo"
  <2>1. outcome \in {"returns", "error", "httpError"} /\ inFlight = outcome
    BY <1>5 DEF Endings, Held, Lost, Recovering, Background
  <2>2. StatusSeen = EchoStatus
    BY <1>5 DEF StatusSeen
  <2>3. EchoStatus >= 500
    <3>1. CASE outcome = "returns"
      BY <1>1, <1>5, <2>1, <3>1 DEF Failed, ClientStatus, ReturnedError, EchoStatus
    <3>2. CASE outcome = "error"
      BY <1>1, <1>5, <2>1, <3>2 DEF Failed, ClientStatus, ReturnedError, EchoStatus, Background
    <3>3. CASE outcome = "httpError"
      BY <1>1, <1>5, <2>1, <3>3 DEF Failed, ClientStatus, ReturnedError, EchoStatus, Contradicted
    <3> QED
      BY <2>1, <3>1, <3>2, <3>3
  <2> QED
    BY <1>5, <2>2, <2>3 DEF RequestFailed, Requests, Frameworks
<1>6. CASE entry = "fiber"
  <2>1. outcome \in {"returns", "error", "httpError"}
    BY <1>6 DEF Endings, Held, Lost
  <2>2. response.status >= 500
    BY <1>1, <1>6, <2>1 DEF Failed, Overlooked, ClientStatus, ReturnedError
  <2> QED
    BY <1>6, <2>2 DEF RequestFailed, Requests, Frameworks, StatusSeen
<1>7. CASE entry \in {"job", "command", "schedule"}
  <2>1. outcome \in {"panic", "error", "exit"} /\ (outcome = "exit" => entry = "command")
    BY <1>7 DEF Endings, Failed, Requests, Frameworks
  <2>2. IF outcome = "panic" THEN recovered = "panic" ELSE inFlight = outcome
    BY <1>7 DEF Held, Recovering, Background
  <2> QED
    BY <1>7, <2>1, <2>2 DEF CommandFailed, JobFailed
<1> QED
  BY <1>2, <1>3, <1>4, <1>5, <1>6, <1>7

\* The status that the entry point sees is the client's, where StatusReported says so.
LEMMA StatusSeenTold ==
    ASSUME TypeOK, ResponseInv, Held, outcome \in Endings, entry \in Requests,
           outcome \notin {"panic", "goexit"}, ~Informed,
           ~(ReturnedError /\ (entry = "fiber" \/ response.wroteHeader))
    PROVE  StatusSeen = ClientStatus
<1>1. /\ response.status \in 100 .. 599 /\ response.wroteHeader \in BOOLEAN
      /\ IF response.wroteHeader THEN response.final = response.status
         ELSE response.final = 0 /\ response.status = 200
  BY DEF TypeOK, ResponseInv
<1>2. recovered = "none" /\ inFlight = outcome
  BY DEF Held
<1>3. CASE entry = "http"
  BY <1>1, <1>2, <1>3 DEF StatusSeen, HTTPStatus, ClientStatus
<1>4. CASE entry = "echo"
  BY <1>1, <1>2, <1>4 DEF StatusSeen, EchoStatus, ClientStatus, ReturnedError
<1>5. CASE entry \in {"gin", "fiber"}
  <2>1. ~ReturnedError
    BY <1>5 DEF ReturnedError, Endings
  <2> QED
    BY <1>5, <2>1 DEF StatusSeen, ClientStatus
<1> QED
  BY <1>3, <1>4, <1>5 DEF Requests, Frameworks

\* The entry point marks the root.
LEMMA MarkRootInv ==
    ASSUME IInv, MarkRoot
    PROVE  IInv'
<1>1. /\ pc = "finish"
      /\ UNCHANGED << entry, inFlight, recovered, errorCode, response, exports, outcome, marked >>
  BY DEF MarkRoot, flight, history
<1>2. /\ outcome \in Endings /\ Held /\ exports = 0 /\ root \in Roots
      /\ root = NoRoot <=> root.status = "none"
      /\ marked => root.status = "error"
  BY <1>1 DEF IInv, TypeOK, LifeInv, Finishing, Roots
<1>3. \/ root = NoRoot /\ pc' = "reraise" /\ root' = root
      \/ /\ root # NoRoot /\ pc' = "send"
         /\ root' = [status |-> FinalStatus, code |-> IF entry \in Requests THEN StatusSeen ELSE 0]
  BY DEF MarkRoot
<1>4. /\ FinalStatus \in {"unset", "error", "ok", root.status}
      /\ root.status = "error" => FinalStatus = "error"
      /\ root.status # "none" => FinalStatus # "none"
  BY DEF FinalStatus
<1>5. StatusSeen \in 0 .. 599
  BY StatusSeenType DEF IInv
<1> HIDE DEF FinalStatus, StatusSeen
<1>6. /\ root' \in Roots /\ (root' = NoRoot <=> root'.status = "none")
      /\ (root' = NoRoot <=> root = NoRoot)
      /\ marked => root'.status = "error"
  <2>1. root.status \in {"none", "unset", "error", "ok"}
    BY <1>2 DEF Roots
  <2> QED
    BY <1>2, <1>3, <1>4, <1>5, <2>1 DEF Roots, NoRoot
<1>7. /\ Endings' = Endings /\ Lost' = Lost /\ ResponseInv' /\ (Held <=> Held')
  BY <1>1, ToldStays DEF IInv, Held
<1>8. TypeOK'
  BY <1>1, <1>3, <1>6, <1>7 DEF IInv, TypeOK, Roots
<1>9. LifeInv'
  BY <1>1, <1>2, <1>3, <1>6, <1>7 DEF LifeInv, Finishing
<1>10. ReportInv'
  <2>1. SUFFICES ASSUME root # NoRoot PROVE FailureTold' /\ StatusTold'
    BY <1>6 DEF ReportInv
  <2>2. root'.status = FinalStatus /\ (entry \in Requests => root'.code = StatusSeen)
    BY <1>3, <2>1
  <2>3. FailureTold'
    <3>1. SUFFICES ASSUME Failed, ~Overlooked, ~Informed, ~(Contradicted /\ errorCode < 500)
                   PROVE  root'.status = "error"
      BY <1>1, ToldStays DEF FailureTold
    <3>2. RequestFailed \/ CommandFailed \/ JobFailed
      BY <1>2, <3>1, FailureSeen DEF IInv
    <3> QED
      BY <2>2, <3>2 DEF FinalStatus
  <2>4. StatusTold'
    <3>1. SUFFICES ASSUME entry \in Requests, outcome \notin {"panic", "goexit"}, ~Informed,
                          ~(ReturnedError /\ (entry = "fiber" \/ response.wroteHeader))
                   PROVE  root'.code = ClientStatus
      BY <1>1, ToldStays DEF StatusTold
    <3>2. StatusSeen = ClientStatus
      BY <1>2, <3>1, StatusSeenTold DEF IInv
    <3> QED
      BY <2>2, <3>1, <3>2
  <2> QED
    BY <2>3, <2>4
<1>11. ~Over'
  BY <1>3 DEF Over
<1> QED
  BY <1>7, <1>8, <1>9, <1>10, <1>11, NotOverYet DEF IInv

\* The spans are handed to the transport, whose panic is recovered.
LEMMA SendInv ==
    ASSUME IInv, TracerFinish \/ RecoverSend
    PROVE  IInv'
<1>1. /\ pc \in {"send", "sendPanicked"} /\ pc' \in {"sendPanicked", "reraise"}
      /\ UNCHANGED << entry, inFlight, recovered, errorCode, response, outcome, marked >>
  BY DEF TracerFinish, RecoverSend, flight, history
<1>2. /\ outcome \in Endings /\ Held /\ root \in Roots /\ root # NoRoot
      /\ root = NoRoot <=> root.status = "none"
      /\ marked => root.status = "error"
      /\ FailureTold /\ StatusTold
  BY <1>1 DEF IInv, TypeOK, LifeInv, Finishing, Roots, ReportInv
<1>3. /\ exports' = 1
      /\ root' \in Roots /\ root'.code = root.code /\ root'.status # "none"
      /\ root.status = "error" => root'.status = "error"
  <2>1. CASE TracerFinish
    <3>1. root' = [root EXCEPT !.status = IF @ = "unset" THEN "ok" ELSE @] /\ exports' = exports + 1
          /\ exports = 0
      BY <2>1 DEF TracerFinish, IInv, LifeInv
    <3> QED
      BY <1>2, <3>1 DEF Roots
  <2>2. CASE RecoverSend
    BY <1>2, <2>2 DEF RecoverSend, IInv, LifeInv
  <2> QED
    BY <2>1, <2>2
<1>4. /\ Endings' = Endings /\ Lost' = Lost /\ ResponseInv' /\ Held'
  BY <1>1, <1>2, ToldStays DEF IInv, Held
<1>5. root' # NoRoot
  BY <1>3 DEF NoRoot
<1>6. TypeOK'
  BY <1>1, <1>3, <1>4 DEF IInv, TypeOK, Roots
<1>7. LifeInv'
  BY <1>1, <1>2, <1>3, <1>4, <1>5 DEF LifeInv, Finishing
<1>8. ReportInv'
  <2>1. FailureTold' /\ StatusTold'
    BY <1>1, <1>2, <1>3, ToldStays DEF FailureTold, StatusTold
  <2> QED
    BY <2>1 DEF ReportInv
<1>9. ~Over'
  BY <1>1 DEF Over
<1> QED
  BY <1>4, <1>6, <1>7, <1>8, <1>9, NotOverYet DEF IInv

\* What was recovered is raised again: the caller gets what the handler ended with.
LEMMA ReraiseInv ==
    ASSUME IInv, Reraise
    PROVE  IInv'
<1>1. /\ pc = "reraise" /\ pc' = "over"
      /\ inFlight' = (IF recovered = "none" THEN inFlight ELSE recovered)
      /\ UNCHANGED << entry, root, recovered, errorCode, response, exports, outcome, marked >>
  BY DEF Reraise, history
<1>2. /\ outcome \in Endings /\ Held
      /\ exports = (IF root = NoRoot THEN 0 ELSE 1)
      /\ root = NoRoot <=> root.status = "none"
      /\ marked => root.status = "error"
      /\ root # NoRoot => FailureTold /\ StatusTold
  BY <1>1 DEF IInv, LifeInv, Finishing, ReportInv
<1>3. inFlight' = outcome
  BY <1>1, <1>2 DEF Held
<1>4. /\ Endings' = Endings /\ Lost' = Lost /\ ResponseInv' /\ ~Lost
      /\ (FailureTold' <=> FailureTold) /\ (StatusTold' <=> StatusTold)
  BY <1>1, <1>2, ToldStays DEF IInv, Held, FailureTold, StatusTold
<1>5. TypeOK'
  BY <1>1, <1>2, <1>3, <1>4 DEF IInv, TypeOK
<1>6. LifeInv' /\ ReportInv'
  BY <1>1, <1>2 DEF LifeInv, Finishing, ReportInv
<1>7. ExportedOnce' /\ HostSeesOutcome'
  BY <1>1, <1>2, <1>3, <1>4 DEF ExportedOnce, HostSeesOutcome
<1>8. FailureShows'
  BY <1>1, <1>2, <1>4 DEF FailureShows, FailureTold
<1>9. StatusReported'
  BY <1>1, <1>2, <1>4 DEF StatusReported, StatusTold
<1> QED
  BY <1>4, <1>5, <1>6, <1>7, <1>8, <1>9 DEF IInv, Promises

-----------------------------------------------------------------------------
\* IInv is an invariant of every unit of work: what its handler ended with is held while
\* the unit is finished, and its root tells of it before it is sent.
THEOREM Invariance == Spec => []IInv
<1>1. IInv /\ [Next]_vars => IInv'
  <2> SUFFICES ASSUME IInv, [Next]_vars PROVE IInv'
    OBVIOUS
  <2>1. CASE UNCHANGED vars
    <3>1. UNCHANGED << entry, root, pc, inFlight, recovered, errorCode, response, exports, outcome, marked >>
      BY <2>1 DEF vars, flight, history
    <3>2. TypeOK' /\ ResponseInv'
      BY <3>1, ToldStays DEF IInv, TypeOK
    <3>3. LifeInv' /\ ReportInv'
      BY <3>1, ToldStays DEF IInv, LifeInv, Finishing, Held, ReportInv, FailureTold, StatusTold
    <3>4. Promises'
      BY <3>1, ToldStays DEF IInv, Promises, ExportedOnce, HostSeesOutcome, FailureShows, StatusReported, Over
    <3> QED
      BY <3>2, <3>3, <3>4 DEF IInv
  <2> QED
    BY <2>1, LifeStepInv, ResponseStepInv, UnwindInv, MarkRootInv, SendInv, ReraiseInv DEF Next
<1> QED
  BY InitInv, <1>1, PTL DEF Spec

\* A traced unit is exported exactly once, however its handler ends and though the
\* transport panics, but for a panic or Goexit in Echo and Fiber (the deferred finish of
\* the entry points).
THEOREM OneExport == Spec => []ExportedOnce
<1>1. IInv => ExportedOnce
  BY DEF IInv, Promises
<1> QED
  BY Invariance, <1>1, PTL

\* What the handler ended with reaches the caller of the entry point past its recover,
\* its finish and the transport's own panics ("the host's own recovery still sees it").
THEOREM OutcomePassedOn == Spec => []HostSeesOutcome
<1>1. IInv => HostSeesOutcome
  BY DEF IInv, Promises
<1> QED
  BY Invariance, <1>1, PTL

\* A failed unit is exported as failed, but for the failures that FailureShows names, and
\* one that the application marked is never exported as OK (the switch of finishHTTP and
\* its like).
THEOREM FailureExported == Spec => []FailureShows
<1>1. IInv => FailureShows
  BY DEF IInv, Promises
<1> QED
  BY Invariance, <1>1, PTL

\* The status code on the root is the one that the client gets, in the cases that
\* StatusReported names (statusWriter, and the finish of each adapter).
THEOREM StatusExported == Spec => []StatusReported
<1>1. IInv => StatusReported
  BY DEF IInv, Promises
<1> QED
  BY Invariance, <1>1, PTL

-----------------------------------------------------------------------------
(* Where the time of a unit went (SelfTime) *)

(* Induction *)

\* A set of natural numbers has a least one.
LEMMA LeastNumber ==
    ASSUME NEW T, T \subseteq Nat, T # {}
    PROVE  \E m \in T : \A k \in T : m <= k
<1> DEFINE R == OpToRel(<, Nat)
<1>1. \A k, m \in Nat : k < m => << k, m >> \in R
  BY DEF OpToRel
<1>2. IsWellFoundedOn(R, Nat)
  BY NatLessThanWellFounded
<1> HIDE DEF R
<1>3. PICK m \in T : \A k \in T : ~(<< k, m >> \in R)
  BY <1>2, WFMin
<1>4. ASSUME NEW k \in T PROVE m <= k
  <2>1. ~(k < m)
    BY <1>1, <1>3
  <2> QED
    BY <2>1
<1> QED
  BY <1>4

\* A set that contains 0, and with each number of a range the next one, contains the range.
LEMMA Reaches ==
    ASSUME NEW G, NEW n \in Nat, 0 \in G, \A i \in 0 .. n - 1 : i \in G => i + 1 \in G
    PROVE  0 .. n \subseteq G
<1> DEFINE T == {i \in 0 .. n : i \notin G}
<1> SUFFICES ASSUME T # {} PROVE FALSE
  OBVIOUS
<1>1. PICK m \in T : \A k \in T : m <= k
  <2>1. T \subseteq Nat
    OBVIOUS
  <2> HIDE DEF T
  <2> QED
    BY <2>1, LeastNumber
<1>2. m \in 1 .. n /\ m \notin G
  OBVIOUS
<1>3. m - 1 \in 0 .. n - 1 /\ m - 1 \in G
  BY <1>1, <1>2
<1>4. (m - 1) + 1 \in G
  BY <1>3
<1> QED
  BY <1>2, <1>4

-----------------------------------------------------------------------------
(* The sweep *)

Intervals == {i \in [Start : Int, End : Int] : i.Start <= i.End}

RunTypes == [total : Nat, Start : Int, End : Int]

\* What a recursive function of the model says of itself.
Turns(sorted, n, run) ==
    run = [i \in 1 .. n |->
              IF i = 1 THEN [total |-> 0, Start |-> sorted[1].Start, End |-> sorted[1].End]
              ELSE Extend(run[i - 1], sorted[i])]

\* There is such a function: the turns up to i, and one more.
LEMMA TurnsExist ==
    ASSUME NEW sorted, NEW n \in Nat
    PROVE  Turns(sorted, n, Runs(sorted, n))
<1>1. Runs(sorted, n) = CHOOSE run : Turns(sorted, n, run)
  BY DEF Runs, Turns
<1> DEFINE G == {i \in 0 .. n : \E run : Turns(sorted, i, run)}
<1>2. 0 \in G
  <2>1. Turns(sorted, 0, [i \in 1 .. 0 |-> 0])
    BY DEF Turns
  <2> QED
    BY <2>1
<1>3. ASSUME NEW i \in 0 .. n - 1, i \in G PROVE i + 1 \in G
  <2>1. PICK run : Turns(sorted, i, run)
    BY <1>3
  <2> DEFINE first == [total |-> 0, Start |-> sorted[1].Start, End |-> sorted[1].End]
             next == [j \in 1 .. i + 1 |-> IF j = 1 THEN first
                                           ELSE Extend(run[j - 1], sorted[j])]
  <2> HIDE DEF first
  <2>2. \A j \in 1 .. i : run[j] = IF j = 1 THEN first ELSE Extend(run[j - 1], sorted[j])
    BY <2>1 DEF Turns, first
  <2>3. \A j \in 1 .. i : next[j] = run[j]
    BY <2>2
  <2>4. \A j \in 1 .. i + 1 : j # 1 => next[j - 1] = run[j - 1]
    BY <2>3
  <2>5. next = [j \in 1 .. i + 1 |-> IF j = 1 THEN first ELSE Extend(next[j - 1], sorted[j])]
    <3> DEFINE other == [j \in 1 .. i + 1 |-> IF j = 1 THEN first
                                              ELSE Extend(next[j - 1], sorted[j])]
    <3>1. \A j \in 1 .. i + 1 : next[j] = other[j]
      BY <2>4
    <3> QED
      BY <3>1
  <2> HIDE DEF next
  <2>6. Turns(sorted, i + 1, next)
    BY <2>5 DEF Turns, first
  <2> QED
    BY <2>6
<1>4. n \in G
  <2> HIDE DEF G
  <2> QED
    BY <1>2, <1>3, Reaches
<1>5. PICK run : Turns(sorted, n, run)
  BY <1>4
<1> QED
  BY <1>1, <1>5

CellsOf(interval) == interval.Start .. interval.End - 1

\* The cells that the first i intervals cover.
Cells(sorted, i) == UNION {CellsOf(sorted[j]) : j \in 1 .. i}

\* What the run amounts to over the cells seen so far, none of which is beyond it.
Measures(run, cells) ==
    /\ run \in RunTypes /\ run.Start <= run.End
    /\ IsFiniteSet(cells) /\ Cardinality(cells) = run.total + (run.End - run.Start)
    /\ \A x \in cells : x \in Int /\ x < run.End
    /\ CellsOf(run) \subseteq cells

\* How many cells an interval covers.
LEMMA CellCount ==
    ASSUME NEW a \in Int, NEW b \in Int, a <= b
    PROVE  IsFiniteSet(a .. b - 1) /\ Cardinality(a .. b - 1) = b - a
<1>1. b - 1 \in Int
  OBVIOUS
<1>2. IsFiniteSet(a .. b - 1) /\ Cardinality(a .. b - 1) = IF a > b - 1 THEN 0 ELSE (b - 1) - a + 1
  BY <1>1, FS_Interval, Zenon
<1> DEFINE size == Cardinality(a .. b - 1)
<1>3. size = IF a > b - 1 THEN 0 ELSE (b - 1) - a + 1
  BY <1>2, Zenon
<1> HIDE DEF size
<1>4. size = b - a
  BY <1>3
<1> QED
  BY <1>2, <1>4, Zenon DEF size

\* Adding an interval beyond all cells seen.
LEMMA CellsAbove ==
    ASSUME NEW cells, IsFiniteSet(cells), NEW a \in Int, NEW b \in Int, a <= b,
           \A x \in cells : x \in Int /\ x < a
    PROVE  /\ IsFiniteSet(cells \union (a .. b - 1))
           /\ Cardinality(cells \union (a .. b - 1)) = Cardinality(cells) + (b - a)
<1> DEFINE more == a .. b - 1
<1>1. IsFiniteSet(more) /\ Cardinality(more) = b - a
  BY CellCount
<1>2. cells \intersect more = {}
  OBVIOUS
<1>3. Cardinality(cells) \in Nat
  BY FS_CardinalityType
<1> HIDE DEF more
<1>4. Cardinality({}) = 0
  BY FS_EmptySet
<1>5. /\ IsFiniteSet(cells \union more)
      /\ Cardinality(cells \union more) =
            Cardinality(cells) + Cardinality(more) - Cardinality(cells \intersect more)
  BY <1>1, FS_Union
<1>6. Cardinality(cells \intersect more) = 0
  BY <1>2, <1>4, Zenon
<1>7. Cardinality(cells \union more) = Cardinality(cells) + (b - a)
  BY <1>1, <1>3, <1>5, <1>6
<1> QED
  BY <1>5, <1>7, Zenon DEF more

\* One turn of the loop keeps the measure.
LEMMA ExtendMeasures ==
    ASSUME NEW run, NEW cells, Measures(run, cells),
           NEW interval \in Intervals, run.Start <= interval.Start
    PROVE  /\ Measures(Extend(run, interval), cells \union CellsOf(interval))
           /\ Extend(run, interval).Start <= interval.Start
<1> DEFINE next == Extend(run, interval)
           seen == cells \union CellsOf(interval)
<1>1. /\ run.total \in Nat /\ run.Start \in Int /\ run.End \in Int
      /\ interval.Start \in Int /\ interval.End \in Int /\ interval.Start <= interval.End
  BY DEF Measures, RunTypes, Intervals
<1>2. CASE interval.Start > run.End
  <2>1. next = [total |-> run.total + (run.End - run.Start),
                Start |-> interval.Start, End |-> interval.End]
    BY <1>2 DEF Extend
  <2>2. next \in RunTypes /\ next.Start = interval.Start /\ next.End = interval.End
        /\ next.total = run.total + (run.End - run.Start)
    BY <1>1, <2>1 DEF RunTypes, Measures
  <2>3. \A x \in cells : x \in Int /\ x < interval.Start
    BY <1>1, <1>2 DEF Measures
  <2>4. IsFiniteSet(seen) /\ Cardinality(seen) = Cardinality(cells) + (interval.End - interval.Start)
    BY <1>1, <2>3, CellsAbove DEF Measures, CellsOf
  <2>5. \A x \in seen : x \in Int /\ x < interval.End
    BY <1>1, <2>3 DEF CellsOf
  <2>6. CellsOf(next) \subseteq seen
    BY <2>2 DEF CellsOf
  <2> HIDE DEF next, seen
  <2>7. Cardinality(cells) = run.total + (run.End - run.Start)
    BY DEF Measures
  <2>8. Measures(next, seen)
    BY <1>1, <2>2, <2>4, <2>5, <2>6, <2>7 DEF Measures
  <2> QED
    BY <1>1, <2>2, <2>8 DEF next, seen
<1>3. CASE interval.Start <= run.End /\ interval.End > run.End
  <2>1. next = [run EXCEPT !.End = interval.End]
    BY <1>1, <1>3 DEF Extend
  <2>2. next \in RunTypes /\ next.Start = run.Start /\ next.End = interval.End
        /\ next.total = run.total
    BY <1>1, <2>1 DEF RunTypes, Measures
  <2>3. seen = cells \union (run.End .. interval.End - 1)
    BY <1>1, <1>3 DEF Measures, CellsOf
  <2>4. IsFiniteSet(seen) /\ Cardinality(seen) = Cardinality(cells) + (interval.End - run.End)
    BY <1>1, <1>3, <2>3, CellsAbove DEF Measures
  <2>5. \A x \in seen : x \in Int /\ x < interval.End
    BY <1>1, <1>3 DEF CellsOf, Measures
  <2>6. CellsOf(next) \subseteq seen
    BY <1>1, <2>2, <2>3 DEF CellsOf, Measures
  <2> HIDE DEF next, seen
  <2>7. Cardinality(cells) = run.total + (run.End - run.Start)
    BY DEF Measures
  <2>8. Measures(next, seen)
    BY <1>1, <1>3, <2>2, <2>4, <2>5, <2>6, <2>7 DEF Measures
  <2> QED
    BY <2>2, <2>8 DEF next, seen
<1>4. CASE interval.Start <= run.End /\ interval.End <= run.End
  <2>1. next = run
    BY <1>1, <1>4 DEF Extend, Measures, RunTypes
  <2>2. seen = cells
    BY <1>1, <1>4 DEF Measures, CellsOf
  <2> QED
    BY <2>1, <2>2
<1> QED
  BY <1>1, <1>2, <1>3, <1>4

\* A sorted list of n intervals.
SortedLists(n) ==
    {s \in [1 .. n -> Intervals] : \A i \in 1 .. n - 1 : s[i].Start <= s[i + 1].Start}

\* The sweep over a sorted list yields the number of cells covered.
LEMMA SweepMeasures ==
    ASSUME NEW n \in Nat \ {0}, NEW s \in SortedLists(n)
    PROVE  IsFiniteSet(Cells(s, n)) /\ Sweep(s, n) = Cardinality(Cells(s, n))
<1> DEFINE run == Runs(s, n)
<1>1. /\ run[1] = [total |-> 0, Start |-> s[1].Start, End |-> s[1].End]
      /\ \A i \in 2 .. n : run[i] = Extend(run[i - 1], s[i])
  BY TurnsExist DEF Turns
<1> HIDE DEF run
<1> DEFINE Holds(i) == Measures(run[i], Cells(s, i)) /\ run[i].Start <= s[i].Start
           G == {i \in 0 .. n : i > 0 => Holds(i)}
<1>2. Holds(1)
  <2>1. s[1] \in Intervals
    BY DEF SortedLists
  <2>2. Cells(s, 1) = CellsOf(s[1])
    BY DEF Cells
  <2>3. s[1].Start \in Int /\ s[1].End \in Int /\ s[1].Start <= s[1].End
    BY <2>1 DEF Intervals
  <2>4. /\ run[1] \in RunTypes /\ run[1].Start = s[1].Start /\ run[1].End = s[1].End
        /\ run[1].total = 0
    BY <1>1, <2>3 DEF RunTypes
  <2>5. IsFiniteSet(CellsOf(s[1])) /\ Cardinality(CellsOf(s[1])) = s[1].End - s[1].Start
    BY <2>3, CellCount DEF CellsOf
  <2>6. \A x \in CellsOf(s[1]) : x \in Int /\ x < s[1].End
    BY <2>3 DEF CellsOf
  <2>7. CellsOf(run[1]) = CellsOf(s[1])
    BY <2>4 DEF CellsOf
  <2> QED
    BY <2>2, <2>3, <2>4, <2>5, <2>6, <2>7 DEF Measures
<1>3. ASSUME NEW i \in 0 .. n - 1, i \in G PROVE i + 1 \in G
  <2>1. CASE i = 0
    BY <1>2, <2>1
  <2>2. CASE i > 0
    <3>1. Holds(i) /\ i \in 1 .. n - 1
      BY <1>3, <2>2
    <3>2. s[i + 1] \in Intervals /\ s[i].Start <= s[i + 1].Start /\ s[i] \in Intervals
      BY <3>1 DEF SortedLists
    <3>3. run[i].Start <= s[i + 1].Start
      BY <3>1, <3>2 DEF Measures, RunTypes, Intervals
    <3>4. run[i + 1] = Extend(run[i], s[i + 1])
      BY <1>1, <3>1
    <3>5. Cells(s, i + 1) = Cells(s, i) \union CellsOf(s[i + 1])
      <4>1. 1 .. i + 1 = (1 .. i) \union {i + 1}
        BY <3>1
      <4> QED
        BY <4>1 DEF Cells
    <3>6. Holds(i + 1)
      BY <3>1, <3>2, <3>3, <3>4, <3>5, ExtendMeasures
    <3> QED
      BY <3>6
  <2> QED
    BY <2>1, <2>2
<1>4. Holds(n)
  <2>1. 0 \in G
    OBVIOUS
  <2> HIDE DEF G
  <2>2. n \in G
    BY <1>3, <2>1, Reaches
  <2> USE DEF G
  <2> QED
    BY <2>2
<1>5. Sweep(s, n) = run[n].total + (run[n].End - run[n].Start)
  BY DEF Sweep, run
<1> QED
  BY <1>4, <1>5 DEF Measures

-----------------------------------------------------------------------------
(* Sorting *)

Ordered(w, p, n) == \A i \in 1 .. n - 1 : w[p[i]].Start <= w[p[i + 1]].Start

\* Some interval of a finite list starts last.
LEMMA LastStart ==
    ASSUME NEW D, IsFiniteSet(D), D # {}, NEW w, \A o \in D : w[o].Start \in Int
    PROVE  \E m \in D : \A o \in D : w[o].Start <= w[m].Start
<1> DEFINE n == Cardinality(D)
<1>1. n \in Nat /\ n # 0 /\ ExistsBijection(1 .. n, D)
  BY FS_CardinalityType, FS_EmptySet
<1> HIDE DEF n
<1>2. PICK p \in [1 .. n -> D] : \A o \in D : \E i \in 1 .. n : p[i] = o
  BY <1>1 DEF ExistsBijection, Bijection, Surjection
<1> DEFINE Latest(i, m) == m \in 1 .. i /\ \A j \in 1 .. i : w[p[j]].Start <= w[p[m]].Start
           G == {i \in 0 .. n : i > 0 => \E m \in 1 .. i : Latest(i, m)}
<1>3. 0 \in G
  BY <1>1
<1>4. ASSUME NEW i \in 0 .. n - 1, i \in G PROVE i + 1 \in G
  <2>1. \A j \in 1 .. i + 1 : w[p[j]].Start \in Int
    BY <1>1, <1>2
  <2>2. CASE i = 0
    <3>1. Latest(1, 1)
      BY <2>1, <2>2
    <3> QED
      BY <1>1, <2>2, <3>1
  <2>3. CASE i > 0
    <3>1. PICK m \in 1 .. i : Latest(i, m)
      BY <1>4, <2>3
    <3>2. CASE w[p[m]].Start <= w[p[i + 1]].Start
      <4>1. Latest(i + 1, i + 1)
        BY <2>1, <2>3, <3>1, <3>2
      <4>2. i + 1 \in 1 .. i + 1
        BY <1>1
      <4> HIDE DEF Last
      <4> QED
        BY <1>1, <4>1, <4>2
    <3>3. CASE ~(w[p[m]].Start <= w[p[i + 1]].Start)
      <4>1. Latest(i + 1, m)
        BY <2>1, <2>3, <3>1, <3>3
      <4>2. m \in 1 .. i + 1
        BY <1>1
      <4> HIDE DEF Last
      <4> QED
        BY <1>1, <4>1, <4>2
    <3> QED
      BY <3>2, <3>3
  <2>4. i = 0 \/ i > 0
    BY <1>1
  <2> HIDE DEF G
  <2> QED
    BY <2>2, <2>3, <2>4
<1>5. n \in G
  <2> HIDE DEF G
  <2>1. 0 .. n \subseteq G
    BY <1>1, <1>3, <1>4, Reaches
  <2> QED
    BY <1>1, <2>1
<1>6. PICK m \in 1 .. n : Latest(n, m)
  BY <1>1, <1>5
<1>7. \A o \in D : w[o].Start <= w[p[m]].Start
  BY <1>2, <1>6
<1> QED
  BY <1>2, <1>6, <1>7

\* Whatever the intervals, there is an order by their starts.
LEMMA OrderExists ==
    ASSUME NEW D, IsFiniteSet(D), NEW w, \A o \in D : w[o].Start \in Int
    PROVE  \E p \in Bijection(1 .. Cardinality(D), D) : Ordered(w, p, Cardinality(D))
<1> DEFINE n == Cardinality(D)
           Has(T, i) == \E p \in Bijection(1 .. i, T) : Ordered(w, p, i)
           G == {i \in 0 .. n : \A T \in SUBSET D : Cardinality(T) = i => Has(T, i)}
<1>1. n \in Nat
  BY FS_CardinalityType
<1>2. \A T \in SUBSET D : IsFiniteSet(T)
  BY FS_Subset
<1> HIDE DEF n
<1>3. 0 \in G
  <2> SUFFICES ASSUME NEW T \in SUBSET D, Cardinality(T) = 0 PROVE Has(T, 0)
    BY <1>1
  <2>1. T = {}
    BY <1>2, FS_EmptySet
  <2> DEFINE p == [i \in 1 .. 0 |-> 0]
  <2>2. p \in Bijection(1 .. 0, T)
    BY <2>1 DEF Bijection, Injection, Surjection, IsInjective
  <2>3. Ordered(w, p, 0)
    BY DEF Ordered
  <2> QED
    BY <2>2, <2>3
<1>4. ASSUME NEW i \in 0 .. n - 1, i \in G PROVE i + 1 \in G
  <2> SUFFICES ASSUME NEW T \in SUBSET D, Cardinality(T) = i + 1 PROVE Has(T, i + 1)
    BY <1>1
  <2>1. IsFiniteSet(T) /\ T # {}
    <3>1. i + 1 # 0
      BY <1>1
    <3> QED
      BY <1>2, <3>1, FS_EmptySet
  <2>2. PICK m \in T : \A o \in T : w[o].Start <= w[m].Start
    BY <2>1, LastStart
  <2>3. T \ {m} \in SUBSET D /\ Cardinality(T \ {m}) = i
    <3>1. Cardinality(T \ {m}) = Cardinality(T) - 1
      BY <2>1, FS_RemoveElement
    <3> QED
      BY <1>1, <3>1
  <2>4. PICK p \in Bijection(1 .. i, T \ {m}) : Ordered(w, p, i)
    BY <1>4, <2>3
  <2>5. /\ p \in [1 .. i -> T \ {m}]
        /\ \A j, k \in 1 .. i : p[j] = p[k] => j = k
        /\ \A o \in T \ {m} : \E j \in 1 .. i : p[j] = o
    BY <2>4 DEF Bijection, Injection, Surjection, IsInjective
  <2> DEFINE q == [j \in 1 .. i + 1 |-> IF j = i + 1 THEN m ELSE p[j]]
  <2>6. /\ q \in [1 .. i + 1 -> T]
        /\ q[i + 1] = m /\ \A j \in 1 .. i : q[j] = p[j]
    BY <1>1, <2>5
  <2> HIDE DEF q
  <2>7. \A j, k \in 1 .. i + 1 : q[j] = q[k] => j = k
    BY <1>1, <2>5, <2>6
  <2>8. \A o \in T : \E j \in 1 .. i + 1 : q[j] = o
    <3> SUFFICES ASSUME NEW o \in T PROVE \E j \in 1 .. i + 1 : q[j] = o
      OBVIOUS
    <3>1. CASE o = m
      BY <1>1, <2>6, <3>1
    <3>2. CASE o # m
      <4>1. PICK j \in 1 .. i : p[j] = o
        BY <2>5, <3>2
      <4> QED
        BY <1>1, <2>6, <4>1
    <3> QED
      BY <3>1, <3>2
  <2>9. q \in Bijection(1 .. i + 1, T)
    BY <2>6, <2>7, <2>8 DEF Bijection, Injection, Surjection, IsInjective
  <2>10. Ordered(w, q, i + 1)
    <3>0. (i + 1) - 1 = i
      BY <1>1
    <3> SUFFICES ASSUME NEW j \in 1 .. i PROVE w[q[j]].Start <= w[q[j + 1]].Start
      BY <3>0, Zenon DEF Ordered
    <3>1. CASE j = i
      BY <2>2, <2>5, <2>6, <3>1
    <3>2. CASE j # i
      <4>1. j \in 1 .. i - 1 /\ j + 1 \in 1 .. i
        BY <1>1, <3>2
      <4> QED
        BY <2>4, <2>6, <4>1 DEF Ordered
    <3> QED
      BY <3>1, <3>2
  <2> QED
    BY <2>9, <2>10
<1>5. n \in G
  <2> HIDE DEF G
  <2> QED
    BY <1>1, <1>3, <1>4, Reaches
<1> QED
  BY <1>5 DEF n

-----------------------------------------------------------------------------
(* UnionLength *)

\* A sorting lists the same intervals.
LEMMA SortingLists ==
    ASSUME NEW D, IsFiniteSet(D), D # {}, NEW w \in [D -> Intervals], NEW s \in Sortings(w)
    PROVE  /\ Cardinality(D) \in Nat \ {0}
           /\ s \in SortedLists(Cardinality(D))
           /\ Cells(s, Cardinality(D)) = Covered(w)
<1> DEFINE n == Cardinality(D)
<1>1. n \in Nat \ {0}
  BY FS_CardinalityType, FS_EmptySet
<1>2. PICK p \in Bijection(1 .. n, D) :
          /\ \A i \in 1 .. n - 1 : w[p[i]].Start <= w[p[i + 1]].Start
          /\ s = [i \in 1 .. n |-> w[p[i]]]
  BY DEF Sortings
<1> HIDE DEF n
<1>3. /\ p \in [1 .. n -> D]
      /\ \A o \in D : \E i \in 1 .. n : p[i] = o
  BY DEF Bijection, Injection, Surjection
<1>4. s \in SortedLists(n)
  BY <1>1, <1>2, <1>3 DEF SortedLists
<1>5. \A x : x \in Cells(s, n) <=> x \in Covered(w)
  <2>1. ASSUME NEW x, x \in Cells(s, n) PROVE x \in Covered(w)
    <3>1. PICK i \in 1 .. n : x \in CellsOf(s[i])
      BY <2>1 DEF Cells
    <3>2. s[i] = w[p[i]] /\ p[i] \in D
      BY <1>2, <1>3
    <3> QED
      BY <3>1, <3>2 DEF Covered, CellsOf
  <2>2. ASSUME NEW x, x \in Covered(w) PROVE x \in Cells(s, n)
    <3>1. PICK o \in D : x \in CellsOf(w[o])
      BY <2>2 DEF Covered, CellsOf
    <3>2. PICK i \in 1 .. n : p[i] = o
      BY <1>3
    <3>3. s[i] = w[o]
      BY <1>2, <3>2
    <3> QED
      BY <3>1, <3>3 DEF Cells
  <2> QED
    BY <2>1, <2>2
<1> QED
  BY <1>1, <1>4, <1>5 DEF n

\* Intervals can be sorted.
LEMMA SortingExists ==
    ASSUME NEW D, IsFiniteSet(D), NEW w \in [D -> Intervals]
    PROVE  \E s : s \in Sortings(w)
<1> DEFINE n == Cardinality(D)
<1>1. DOMAIN w = D
  OBVIOUS
<1>2. \A o \in D : w[o].Start \in Int
  BY DEF Intervals
<1>3. PICK p \in Bijection(1 .. n, D) : Ordered(w, p, n)
  BY <1>2, OrderExists
<1> HIDE DEF n
<1>4. \A i \in 1 .. n - 1 : w[p[i]].Start <= w[p[i + 1]].Start
  BY <1>3 DEF Ordered
<1> DEFINE s == [i \in 1 .. n |-> w[p[i]]]
<1>5. s \in Sortings(w)
  BY <1>1, <1>3, <1>4 DEF Sortings, n
<1> QED
  BY <1>5

\* UnionLength is the length that its intervals cover.
LEMMA UnionLengthIsCoverage ==
    ASSUME NEW D, IsFiniteSet(D), NEW w \in [D -> Intervals]
    PROVE  IsFiniteSet(Covered(w)) /\ UnionLength(w) = Cardinality(Covered(w))
<1>1. CASE D = {}
  <2>1. Covered(w) = {}
    BY <1>1 DEF Covered
  <2>2. UnionLength(w) = 0
    BY <1>1 DEF UnionLength
  <2> QED
    BY <2>1, <2>2, FS_EmptySet
<1>2. CASE D # {}
  <2> DEFINE s == CHOOSE s \in Sortings(w) : TRUE
  <2>1. s \in Sortings(w)
    BY SortingExists
  <2>2. UnionLength(w) = Sweep(s, Cardinality(D))
    BY <1>2 DEF UnionLength
  <2> HIDE DEF s
  <2>3. /\ Cardinality(D) \in Nat \ {0} /\ s \in SortedLists(Cardinality(D))
        /\ Cells(s, Cardinality(D)) = Covered(w)
    BY <1>2, <2>1, SortingLists
  <2> QED
    BY <2>2, <2>3, SweepMeasures
<1> QED
  BY <1>1, <1>2

-----------------------------------------------------------------------------
(* The request *)

\* What every reachable state has: a type, and finitely many children.
TimeInv == TimeTypeOK /\ IsFiniteSet(rawSpans)

\* The invariant is kept, whatever the clock does.
THEOREM TimeInvariance == TimeSpec => []TimeInv
<1>1. TimeInit => TimeInv
  <2> SUFFICES ASSUME TimeInit PROVE TimeInv
    OBVIOUS
  <2>1. rawSpans = {}
    BY DEF TimeInit, rawSpans
  <2>2. TimeTypeOK
    BY DEF TimeInit, TimeTypeOK
  <2> QED
    BY <2>1, <2>2, FS_EmptySet DEF TimeInv
<1>2. TimeInv /\ [TimeNext]_timeVars => TimeInv'
  <2> SUFFICES ASSUME TimeInv, [TimeNext]_timeVars PROVE TimeInv'
    OBVIOUS
  <2>1. CASE Tick \/ SetClock \/ EndRoot \/ UNCHANGED timeVars
    <3>1. UNCHANGED << category, opPC, span >>
      BY <2>1 DEF Tick, SetClock, EndRoot, timeVars
    <3>2. rawSpans' = rawSpans
      BY <3>1 DEF rawSpans
    <3>3. elapsed' \in Nat
      BY <2>1 DEF TimeInv, TimeTypeOK, Tick, SetClock, EndRoot, timeVars
    <3>4. offset' \in Int
      BY <2>1 DEF TimeInv, TimeTypeOK, Tick, SetClock, EndRoot, timeVars
    <3>5. rootSpan' \in [ended : BOOLEAN, End : Int]
      <4>1. nowNs \in Int
        BY DEF TimeInv, TimeTypeOK, nowNs
      <4>2. rootSpan' = rootSpan \/ rootSpan' = [ended |-> TRUE, End |-> nowNs]
        BY <2>1 DEF Tick, SetClock, EndRoot, timeVars
      <4>3. rootSpan \in [ended : BOOLEAN, End : Int]
        BY DEF TimeInv, TimeTypeOK
      <4>4. CASE rootSpan' = rootSpan
        BY <4>3, <4>4
      <4>5. CASE rootSpan' = [ended |-> TRUE, End |-> nowNs]
        BY <4>1, <4>5
      <4> QED
        BY <4>2, <4>4, <4>5
    <3> QED
      BY <3>1, <3>2, <3>3, <3>4, <3>5 DEF TimeInv, TimeTypeOK
  <2>2. ASSUME NEW o \in Operations, Begin(o) \/ End(o) PROVE TimeInv'
    <3>1. nowNs \in Int
      BY DEF TimeInv, TimeTypeOK, nowNs
    <3>2. span' \in [Operations -> [Start : Int, End : Int]]
      BY <2>2, <3>1 DEF TimeInv, TimeTypeOK, Begin, End
    <3>3. TimeTypeOK'
      BY <2>2, <3>2 DEF TimeInv, TimeTypeOK, Begin, End, OpGoes
    <3>4. rawSpans' = rawSpans \/ rawSpans' = rawSpans \union {o}
      BY <2>2 DEF TimeInv, TimeTypeOK, rawSpans, Begin, End, OpGoes
    <3>5. IsFiniteSet(rawSpans')
      BY <3>4, FS_AddElement DEF TimeInv
    <3> QED
      BY <3>3, <3>5 DEF TimeInv
  <2> QED
    BY <2>1, <2>2 DEF TimeNext
<1> QED
  BY <1>1, <1>2, PTL DEF TimeSpec

\* The children of a category, or all of them, have windows that do not end before
\* they begin.
LEMMA WindowsAreIntervals ==
    ASSUME TimeInv, NEW spans \in SUBSET rawSpans
    PROVE  IsFiniteSet(spans) /\ Windows(spans) \in [spans -> Intervals]
<1>1. \A o \in spans : Window(o) \in Intervals
  BY DEF TimeInv, TimeTypeOK, rawSpans, Window, Intervals
<1> QED
  BY <1>1, FS_Subset DEF TimeInv, Windows

\* For any number of children, and in whatever order the sort leaves those that
\* begin together, UnionLength is the time covered by them (UnionLength).
THEOREM SweepIsCoverage == TimeSpec => []UnionIsCoverage
<1>1. TimeInv => UnionIsCoverage
  <2> SUFFICES ASSUME TimeInv,
                      NEW spans \in {rawSpans} \union {OfCategory(c) : c \in Categories},
                      spans # {}, NEW s \in Sortings(Windows(spans))
               PROVE  Sweep(s, Cardinality(spans)) = Cardinality(Covered(Windows(spans)))
    BY DEF UnionIsCoverage
  <2>1. spans \in SUBSET rawSpans
    BY DEF OfCategory
  <2>2. IsFiniteSet(spans) /\ Windows(spans) \in [spans -> Intervals]
    BY <2>1, WindowsAreIntervals
  <2>3. /\ Cardinality(spans) \in Nat \ {0}
        /\ s \in SortedLists(Cardinality(spans))
        /\ Cells(s, Cardinality(spans)) = Covered(Windows(spans))
    BY <2>2, SortingLists
  <2> QED
    BY <2>3, SweepMeasures
<1> QED
  BY <1>1, TimeInvariance, PTL

-----------------------------------------------------------------------------
(* The self times *)

\* The sizes of two finite sets and of their union.
LEMMA UnionBound ==
    ASSUME NEW A, IsFiniteSet(A), NEW B, IsFiniteSet(B)
    PROVE  /\ IsFiniteSet(A \union B)
           /\ Cardinality(A) \in Nat /\ Cardinality(B) \in Nat
           /\ Cardinality(A \union B) \in Nat
           /\ Cardinality(A \union B) <= Cardinality(A) + Cardinality(B)
           /\ A \intersect B = {} => Cardinality(A \union B) = Cardinality(A) + Cardinality(B)
<1> DEFINE both == A \intersect B
           all == A \union B
<1>1. IsFiniteSet(both) /\ IsFiniteSet(all)
  BY FS_Intersection, FS_Union
<1>2. Cardinality(all) = Cardinality(A) + Cardinality(B) - Cardinality(both)
  BY FS_Union
<1>3. both = {} => Cardinality(both) = 0
  BY FS_EmptySet
<1> HIDE DEF both, all
<1>4. /\ Cardinality(A) \in Nat /\ Cardinality(B) \in Nat
      /\ Cardinality(both) \in Nat /\ Cardinality(all) \in Nat
  BY <1>1, FS_CardinalityType
<1>5. /\ Cardinality(all) <= Cardinality(A) + Cardinality(B)
      /\ both = {} => Cardinality(all) = Cardinality(A) + Cardinality(B)
  BY <1>2, <1>3, <1>4
<1> QED
  BY <1>1, <1>4, <1>5 DEF both, all

\* The sizes of the sets of the five categories and of their union.
LEMMA FiveSets ==
    ASSUME NEW f, \A c \in Categories : IsFiniteSet(f[c])
    PROVE  LET all == f["db"] \union f["http"] \union f["cache"] \union f["queue"] \union f["app"]
               sum == Cardinality(f["db"]) + Cardinality(f["http"]) + Cardinality(f["cache"])
                      + Cardinality(f["queue"]) + Cardinality(f["app"])
           IN  /\ IsFiniteSet(all) /\ Cardinality(all) \in Nat /\ sum \in Nat
               /\ Cardinality(all) <= sum
               /\ (\A c, d \in Categories : c # d => f[c] \intersect f[d] = {})
                  => Cardinality(all) = sum
<1> DEFINE A == f["db"]
           B == f["http"]
           C == f["cache"]
           D == f["queue"]
           E == f["app"]
           AB == A \union B
           ABC == AB \union C
           ABCD == ABC \union D
           all == ABCD \union E
           Disjoint == \A c, d \in Categories : c # d => f[c] \intersect f[d] = {}
<1>1. IsFiniteSet(A) /\ IsFiniteSet(B) /\ IsFiniteSet(C) /\ IsFiniteSet(D) /\ IsFiniteSet(E)
  BY DEF Categories
<1>2. Disjoint => /\ A \intersect B = {} /\ AB \intersect C = {} /\ ABC \intersect D = {}
                  /\ ABCD \intersect E = {}
  BY DEF Categories
<1> HIDE DEF A, B, C, D, E, Disjoint
<1>3. /\ IsFiniteSet(AB) /\ Cardinality(A) \in Nat /\ Cardinality(B) \in Nat
      /\ Cardinality(AB) \in Nat /\ Cardinality(AB) <= Cardinality(A) + Cardinality(B)
      /\ Disjoint => Cardinality(AB) = Cardinality(A) + Cardinality(B)
  BY <1>1, <1>2, UnionBound
<1> HIDE DEF AB
<1>4. /\ IsFiniteSet(ABC) /\ Cardinality(C) \in Nat
      /\ Cardinality(ABC) \in Nat /\ Cardinality(ABC) <= Cardinality(AB) + Cardinality(C)
      /\ Disjoint => Cardinality(ABC) = Cardinality(AB) + Cardinality(C)
  BY <1>1, <1>2, <1>3, UnionBound
<1> HIDE DEF ABC
<1>5. /\ IsFiniteSet(ABCD) /\ Cardinality(D) \in Nat
      /\ Cardinality(ABCD) \in Nat /\ Cardinality(ABCD) <= Cardinality(ABC) + Cardinality(D)
      /\ Disjoint => Cardinality(ABCD) = Cardinality(ABC) + Cardinality(D)
  BY <1>1, <1>2, <1>4, UnionBound
<1> HIDE DEF ABCD
<1>6. /\ IsFiniteSet(all) /\ Cardinality(E) \in Nat
      /\ Cardinality(all) \in Nat /\ Cardinality(all) <= Cardinality(ABCD) + Cardinality(E)
      /\ Disjoint => Cardinality(all) = Cardinality(ABCD) + Cardinality(E)
  BY <1>1, <1>2, <1>5, UnionBound
<1> HIDE DEF all
<1> DEFINE sum == Cardinality(A) + Cardinality(B) + Cardinality(C) + Cardinality(D) + Cardinality(E)
<1>7. /\ IsFiniteSet(all) /\ Cardinality(all) \in Nat /\ sum \in Nat /\ Cardinality(all) <= sum
      /\ Disjoint => Cardinality(all) = sum
  BY <1>3, <1>4, <1>5, <1>6
<1> QED
  BY <1>7 DEF all, ABCD, ABC, AB, A, B, C, D, E, Disjoint

\* The cells that the children of a category cover.
CellsOfCategory == [c \in Categories |-> Covered(Windows(OfCategory(c)))]

\* The children of a category, or all of them, are measured by the cells they cover;
\* each child has a category.
LEMMA LengthsAreCells ==
    ASSUME TimeInv
    PROVE  LET f == CellsOfCategory
               all == f["db"] \union f["http"] \union f["cache"] \union f["queue"] \union f["app"]
           IN  /\ \A c \in Categories : /\ IsFiniteSet(f[c])
                                        /\ UnionLength(Windows(OfCategory(c))) = Cardinality(f[c])
               /\ UnionLength(Windows(rawSpans)) = Cardinality(all)
<1> DEFINE f == CellsOfCategory
           all == f["db"] \union f["http"] \union f["cache"] \union f["queue"] \union f["app"]
<1>1. ASSUME NEW spans \in SUBSET rawSpans
      PROVE  /\ IsFiniteSet(Covered(Windows(spans)))
             /\ UnionLength(Windows(spans)) = Cardinality(Covered(Windows(spans)))
  BY WindowsAreIntervals, UnionLengthIsCoverage
<1>2. ASSUME NEW c \in Categories
      PROVE  /\ IsFiniteSet(f[c])
             /\ UnionLength(Windows(OfCategory(c))) = Cardinality(f[c])
  <2>1. OfCategory(c) \in SUBSET rawSpans
    BY DEF OfCategory
  <2> QED
    BY <1>1, <2>1 DEF CellsOfCategory
<1>3. Covered(Windows(rawSpans)) = all
  <2>1. rawSpans = UNION {OfCategory(c) : c \in Categories}
    BY DEF TimeInv, TimeTypeOK, rawSpans, OfCategory
  <2>2. ASSUME NEW spans PROVE Covered(Windows(spans)) = UNION {CellsOf(Window(o)) : o \in spans}
    BY DEF Covered, Windows, CellsOf
  <2>3. Covered(Windows(rawSpans)) = UNION {f[c] : c \in Categories}
    <3>1. \A c \in Categories : f[c] = UNION {CellsOf(Window(o)) : o \in OfCategory(c)}
      BY <2>2 DEF CellsOfCategory
    <3> QED
      BY <2>1, <2>2, <3>1
  <2>4. UNION {f[c] : c \in Categories} = all
    BY DEF Categories
  <2> QED
    BY <2>3, <2>4
<1>4. rawSpans \in SUBSET rawSpans
  OBVIOUS
<1> QED
  BY <1>1, <1>2, <1>3, <1>4

\* For any number of children the self times account for the whole request, and for
\* no more when the categories do not overlap (attachSelfTime).
THEOREM SelfTimesAccount == TimeSpec => []SelfTimesAddUp
<1>1. TimeInv => SelfTimesAddUp
  <2> SUFFICES ASSUME TimeInv PROVE SelfTimesAddUp
    OBVIOUS
  <2> DEFINE f == CellsOfCategory
             all == f["db"] \union f["http"] \union f["cache"] \union f["queue"] \union f["app"]
             sum == Cardinality(f["db"]) + Cardinality(f["http"]) + Cardinality(f["cache"])
                    + Cardinality(f["queue"]) + Cardinality(f["app"])
             Apart == \A c, d \in Categories : c # d => f[c] \intersect f[d] = {}
             Inside == \A c \in Categories : f[c] \subseteq 0 .. RootDuration - 1
  <2>1. /\ \A c \in Categories : /\ IsFiniteSet(f[c])
                                 /\ UnionLength(Windows(OfCategory(c))) = Cardinality(f[c])
        /\ UnionLength(Windows(rawSpans)) = Cardinality(all)
    BY LengthsAreCells
  <2>2. /\ IsFiniteSet(all) /\ Cardinality(all) \in Nat /\ sum \in Nat
        /\ Cardinality(all) <= sum
        /\ Apart => Cardinality(all) = sum
    BY <2>1, FiveSets
  <2>3. RootDuration \in Nat
    BY DEF TimeInv, TimeTypeOK, RootDuration
  <2>4. Inside => Cardinality(all) <= RootDuration
    <3> SUFFICES ASSUME Inside PROVE Cardinality(all) <= RootDuration
      OBVIOUS
    <3>1. all \subseteq 0 .. RootDuration - 1
      BY DEF Categories
    <3>2. /\ IsFiniteSet(0 .. RootDuration - 1)
          /\ Cardinality(0 .. RootDuration - 1) = RootDuration
      BY <2>3, CellCount
    <3> HIDE DEF all
    <3> QED
      BY <3>1, <3>2, FS_Subset
  <2>5. \A c \in Categories : Cardinality(f[c]) \in Nat
    BY <2>1, FS_CardinalityType
  <2>6. Total = sum + AppExclusive
    <3>1. AppExclusive \in Int
      BY <2>1, <2>2, <2>3 DEF AppExclusive
    <3>2. /\ Self("db") = Cardinality(f["db"]) /\ Self("http") = Cardinality(f["http"])
          /\ Self("cache") = Cardinality(f["cache"]) /\ Self("queue") = Cardinality(f["queue"])
          /\ Self("app") = Cardinality(f["app"]) + AppExclusive
      BY <2>1, <2>5 DEF Self, Categories
    <3>3. /\ Cardinality(f["db"]) \in Int /\ Cardinality(f["http"]) \in Int
          /\ Cardinality(f["cache"]) \in Int /\ Cardinality(f["queue"]) \in Int
          /\ Cardinality(f["app"]) \in Int
      BY <2>5 DEF Categories
    <3> HIDE DEF f
    <3> QED
      BY <3>1, <3>2, <3>3 DEF Total
  <2>7. AppExclusive = IF RootDuration > Cardinality(all) THEN RootDuration - Cardinality(all) ELSE 0
    BY <2>1 DEF AppExclusive
  <2>8. Total >= RootDuration /\ (Apart /\ Inside => Total = RootDuration)
    <3> HIDE DEF sum, all, Apart, Inside
    <3> QED
      BY <2>2, <2>3, <2>4, <2>6, <2>7
  <2> QED
    BY <2>8 DEF SelfTimesAddUp, CellsOfCategory
<1> QED
  BY <1>1, TimeInvariance, PTL

-----------------------------------------------------------------------------
(* Distributed traces (Propagation) *)

\* There is no trace but those of the callers outside (0) and of the heads, numbered
\* by their units: the id of a new head is fresh.
TracesInv ==
    /\ \A u \in DOMAIN units : units[u].trace \in 0 .. Len(units)
    /\ \A h \in headers : h.trace \in 0 .. Len(units)

\* What has been decided of each trace, by its units and by the headers on the way.
Decisions ==
    {<< units[u].trace, units[u].sampled >> : u \in DOMAIN units}
    \union {<< h.trace, h.sampled >> : h \in headers}

\* A header still to be delivered agrees with every unit of its trace, and with
\* every other header.
FateInv ==
    \A c, d \in Decisions : c[1] = d[1] /\ c[1] \notin ThroughDisabled => c = d

\* A unit records only spans whose ids it has minted, and no more than MaxSpans; of
\* a sampled one with room, every call is recorded or in progress.  What was
\* answered before Finish was recorded by then.
SpansInv ==
    /\ inProgress \subseteq UNION {SpanIds(u, units[u].minted) : u \in DOMAIN units}
    /\ \A u \in DOMAIN units :
           /\ Len(units[u].rawSpans) <= MaxSpans
           /\ ToSet(units[u].rawSpans) \subseteq SpanIds(u, units[u].minted)
           /\ units[u].sampled /\ Len(units[u].rawSpans) < MaxSpans =>
                  SpanIds(u, units[u].minted) \ inProgress \subseteq ToSet(units[u].rawSpans)
           /\ units[u].finished /\ units[u].sampled =>
                  \/ units[u].answered \subseteq ToSet(units[u].exported)
                  \/ Len(units[u].exported) = MaxSpans

\* The inductive invariant.
PropagationInv == TraceTypeOK /\ TracesInv /\ FateInv /\ SpansInv

\* The spans of a sequence that has grown by one.
LEMMA AppendedSet ==
    ASSUME NEW S, NEW s \in Seq(S), NEW e \in S
    PROVE  ToSet(Append(s, e)) = ToSet(s) \union {e}
<1>1. /\ DOMAIN Append(s, e) = 1 .. Len(s) + 1 /\ DOMAIN s = 1 .. Len(s) /\ Len(s) \in Nat
      /\ \A i \in 1 .. Len(s) : Append(s, e)[i] = s[i]
      /\ Append(s, e)[Len(s) + 1] = e
  BY AppendProperties
<1>2. 1 .. Len(s) + 1 = 1 .. Len(s) \union {Len(s) + 1}
  BY <1>1
<1> QED
  BY <1>1, <1>2 DEF ToSet

\* What recording a span makes of the child spans of a unit.
LEMMA RecordedSpans ==
    ASSUME TraceTypeOK, SpansInv, NEW u \in DOMAIN units, NEW id \in Nat \X Nat
    PROVE  /\ Recorded(u, id) \in Seq(Nat \X Nat)
           /\ Len(Recorded(u, id)) <= MaxSpans
           /\ ToSet(Recorded(u, id)) \subseteq ToSet(units[u].rawSpans) \union {id}
           /\ ToSet(units[u].rawSpans) \subseteq ToSet(Recorded(u, id))
           /\ units[u].sampled /\ Len(Recorded(u, id)) < MaxSpans =>
                 /\ Len(units[u].rawSpans) < MaxSpans
                 /\ id \in ToSet(Recorded(u, id))
<1>1. units[u].rawSpans \in Seq(Nat \X Nat) /\ Len(units[u].rawSpans) \in Nat
  <2>1. units[u] \in Unit
    BY ElementOfSeq DEF TraceTypeOK
  <2> QED
    BY <2>1 DEF Unit
<1>2. Len(units[u].rawSpans) <= MaxSpans /\ MaxSpans \in Nat
  BY MaxSpansAssumption DEF SpansInv
<1>3. CASE units[u].sampled /\ Len(units[u].rawSpans) < MaxSpans
  <2>1. Recorded(u, id) = Append(units[u].rawSpans, id)
    BY <1>3 DEF Recorded
  <2>2. Recorded(u, id) \in Seq(Nat \X Nat) /\ Len(Recorded(u, id)) = Len(units[u].rawSpans) + 1
    BY <1>1, <2>1, AppendProperties
  <2>3. ToSet(Recorded(u, id)) = ToSet(units[u].rawSpans) \union {id}
    <3>1. ToSet(Append(units[u].rawSpans, id)) = ToSet(units[u].rawSpans) \union {id}
      BY <1>1, AppendedSet
    <3> QED
      BY <2>1, <3>1
  <2> QED
    BY <1>1, <1>2, <1>3, <2>2, <2>3
<1>4. CASE ~(units[u].sampled /\ Len(units[u].rawSpans) < MaxSpans)
  <2>1. Recorded(u, id) = units[u].rawSpans
    BY <1>4 DEF Recorded
  <2> QED
    BY <1>1, <1>2, <1>4, <2>1
<1> QED
  BY <1>3, <1>4

-----------------------------------------------------------------------------
\* The first state, with or without a caller outside, satisfies the invariant.
LEMMA PropagationInit == TraceInit => PropagationInv
<1> SUFFICES ASSUME TraceInit PROVE PropagationInv
  OBVIOUS
<1>1. units = << >> /\ inProgress = {} /\ headers \subseteq Outside /\ \A g, h \in headers : g = h
  BY DEF TraceInit
<1>2. TraceTypeOK
  BY <1>1 DEF TraceTypeOK, Header, Outside
<1>3. TracesInv
  BY <1>1 DEF TracesInv, Outside
<1>4. FateInv
  BY <1>1 DEF FateInv, Decisions
<1>5. SpansInv
  BY <1>1 DEF SpansInv
<1> QED
  BY <1>2, <1>3, <1>4, <1>5 DEF PropagationInv

-----------------------------------------------------------------------------
(* The fate of a trace *)

\* A step keeps what was decided of each trace if it decides nothing, or decides of
\* one trace what was decided before, or decides of a fresh trace, or of one with a
\* job of a disabled service on it.
LEMMA FateKept ==
    ASSUME FateInv, ThroughDisabled \subseteq ThroughDisabled', NEW t, NEW fate,
           Decisions' \subseteq Decisions \union {<< t, fate >>},
           \/ << t, fate >> \in Decisions
           \/ t \in ThroughDisabled'
           \/ \A d \in Decisions : d[1] # t
    PROVE  FateInv'
BY DEF FateInv

\* A unit that starts.
LEMMA StartRootInv ==
    ASSUME PropagationInv, NEW s \in Services, NEW h \in {NoHeader} \union headers, StartRoot(s, h),
           UNCHANGED << headers, inProgress >>
    PROVE  PropagationInv'
<1> DEFINE N == Len(units) + 1
<1>1. PICK kept \in BOOLEAN :
          /\ h # NoHeader => kept = h.sampled
          /\ units' = Append(units, Root(s, IF h = NoHeader THEN N ELSE h.trace,
                                         h.span, s \notin Disabled /\ kept))
  BY DEF StartRoot
<1> DEFINE new == Root(s, IF h = NoHeader THEN N ELSE h.trace, h.span, s \notin Disabled /\ kept)
<1>2. /\ units \in Seq(Unit) /\ Len(units) \in Nat /\ DOMAIN units = 1 .. Len(units)
      /\ headers \subseteq Header
  BY DEF PropagationInv, TraceTypeOK
<1>3. h \in headers \/ h = NoHeader
  OBVIOUS
<1>4. \A g \in headers : g # NoHeader /\ g.trace \in 0 .. Len(units)
  BY <1>2 DEF PropagationInv, TracesInv, Header, NoHeader
<1>5. (IF h = NoHeader THEN N ELSE h.trace) \in 0 .. N /\ h.span \in Int \X Nat
  <2>1. CASE h = NoHeader
    BY <1>2, <2>1 DEF NoHeader
  <2>2. CASE h \in headers
    BY <1>2, <1>4, <2>2 DEF Header
  <2> QED
    BY <1>3, <2>1, <2>2
<1>6. new \in Unit
  BY <1>2, <1>5 DEF Root, Unit
<1>7. /\ units' \in Seq(Unit) /\ Len(units') = N /\ DOMAIN units' = 1 .. N
      /\ \A u \in DOMAIN units : units'[u] = units[u]
      /\ units'[N] = new
  BY <1>1, <1>2, <1>6, AppendProperties
<1>8. DOMAIN units' = DOMAIN units \union {N} /\ N \notin DOMAIN units
  BY <1>2, <1>7
<1>9. /\ new.service = s /\ new.trace = (IF h = NoHeader THEN N ELSE h.trace)
      /\ new.sampled = (s \notin Disabled /\ kept)
      /\ new.minted = 0 /\ new.rawSpans = << >> /\ new.exported = << >>
      /\ new.answered = {} /\ new.finished = FALSE
  BY DEF Root
<1> HIDE DEF new
<1>10. TraceTypeOK'
  BY <1>2, <1>7 DEF PropagationInv, TraceTypeOK
<1>11. TracesInv'
  <2>1. \A u \in DOMAIN units : units'[u].trace \in 0 .. N
    BY <1>2, <1>7 DEF PropagationInv, TracesInv
  <2>2. \A g \in headers' : g.trace \in 0 .. N
    BY <1>2, <1>4
  <2> QED
    BY <1>5, <1>7, <1>8, <1>9, <2>1, <2>2 DEF TracesInv
<1>12. FateInv'
  <2>1. ThroughDisabled \subseteq ThroughDisabled'
    BY <1>7, <1>8 DEF ThroughDisabled, Traced
  <2>2. Decisions' \subseteq Decisions \union {<< new.trace, new.sampled >>}
    BY <1>7, <1>8 DEF Decisions
  <2>3. CASE s \in Disabled
    <3>1. new.trace \in ThroughDisabled'
      BY <1>7, <1>8, <1>9, <2>3 DEF ThroughDisabled, Traced
    <3> QED
      BY <2>1, <2>2, <3>1, FateKept DEF PropagationInv
  <2>4. CASE s \notin Disabled /\ h \in headers
    <3>1. << new.trace, new.sampled >> = << h.trace, h.sampled >>
      <4>1. h.sampled \in BOOLEAN
        BY <1>2, <2>4 DEF Header
      <4> QED
        BY <1>1, <1>4, <1>9, <2>4, <4>1
    <3>2. << new.trace, new.sampled >> \in Decisions
      BY <2>4, <3>1 DEF Decisions
    <3> QED
      BY <2>1, <2>2, <3>2, FateKept DEF PropagationInv
  <2>5. CASE h = NoHeader
    <3>1. \A d \in Decisions : d[1] # N
      <4>1. \A u \in DOMAIN units : units[u].trace # N
        BY <1>2 DEF PropagationInv, TracesInv
      <4>2. \A g \in headers : g.trace # N
        BY <1>2, <1>4
      <4> HIDE DEF N
      <4> QED
        BY <4>1, <4>2 DEF Decisions
    <3>2. new.trace = N
      BY <1>9, <2>5
    <3> QED
      BY <2>1, <2>2, <3>1, <3>2, FateKept DEF PropagationInv
  <2> QED
    BY <1>3, <2>3, <2>4, <2>5
<1>13. SpansInv'
  <2>1. inProgress' \subseteq UNION {SpanIds(u, units'[u].minted) : u \in DOMAIN units'}
    BY <1>7, <1>8 DEF PropagationInv, SpansInv
  <2>2. \A u \in DOMAIN units' :
           /\ Len(units'[u].rawSpans) <= MaxSpans
           /\ ToSet(units'[u].rawSpans) \subseteq SpanIds(u, units'[u].minted)
           /\ units'[u].sampled /\ Len(units'[u].rawSpans) < MaxSpans =>
                  SpanIds(u, units'[u].minted) \ inProgress' \subseteq ToSet(units'[u].rawSpans)
           /\ units'[u].finished /\ units'[u].sampled =>
                  \/ units'[u].answered \subseteq ToSet(units'[u].exported)
                  \/ Len(units'[u].exported) = MaxSpans
    <3>1. Len(new.rawSpans) <= MaxSpans /\ ToSet(new.rawSpans) = {} /\ SpanIds(N, new.minted) = {}
      BY <1>9, MaxSpansAssumption DEF ToSet, SpanIds
    <3> QED
      BY <1>7, <1>8, <1>9, <3>1 DEF PropagationInv, SpansInv
  <2> QED
    BY <2>1, <2>2 DEF SpansInv
<1> QED
  BY <1>10, <1>11, <1>12, <1>13 DEF PropagationInv

-----------------------------------------------------------------------------
(* A unit that goes on *)

\* A unit keeps its service, its trace and its fate, and the headers that it sends
\* tell them: nothing is decided.
LEMMA NothingDecided ==
    ASSUME PropagationInv, NEW u \in DOMAIN units, NEW unit \in Unit, units' = [units EXCEPT ![u] = unit],
           unit.service = units[u].service, unit.trace = units[u].trace,
           unit.sampled = units[u].sampled,
           NEW via \in {"http", "queue"}, headers' \in {headers, headers \union {Traceparent(u, via)}},
           inProgress' \subseteq Nat \X Nat
    PROVE  TraceTypeOK' /\ TracesInv' /\ FateInv'
<1>1. units \in Seq(Unit) /\ Len(units) \in Nat /\ DOMAIN units = 1 .. Len(units)
  BY DEF PropagationInv, TraceTypeOK
<1>2. /\ units' \in Seq(Unit) /\ Len(units') = Len(units) /\ DOMAIN units' = DOMAIN units
      /\ units'[u] = unit /\ \A v \in DOMAIN units : v # u => units'[v] = units[v]
  BY <1>1
<1>3. /\ units[u].trace \in Nat /\ units[u].minted \in Nat /\ units[u].sampled \in BOOLEAN
  <2>1. units[u] \in Unit
    BY <1>1, ElementOfSeq
  <2> QED
    BY <2>1 DEF Unit
<1>4. \A v \in DOMAIN units :
          /\ units'[v].service = units[v].service /\ units'[v].trace = units[v].trace
          /\ units'[v].sampled = units[v].sampled
  BY <1>2
<1>5. /\ Traceparent(u, via) \in Header
      /\ Traceparent(u, via).trace = units[u].trace /\ Traceparent(u, via).sampled = units[u].sampled
  BY <1>1, <1>3 DEF Traceparent, Header, NextSpan
<1>6. TraceTypeOK'
  BY <1>2, <1>5 DEF PropagationInv, TraceTypeOK
<1>7. TracesInv'
  BY <1>2, <1>4, <1>5 DEF PropagationInv, TracesInv
<1>8. FateInv'
  <2>1. ThroughDisabled' = ThroughDisabled
    BY <1>2, <1>4 DEF ThroughDisabled, Traced
  <2>2. Decisions' \subseteq Decisions
    BY <1>2, <1>4, <1>5 DEF Decisions
  <2> QED
    BY <2>1, <2>2 DEF PropagationInv, FateInv
<1> QED
  BY <1>6, <1>7, <1>8

\* The calls of the other units are as far as they were.
LEMMA SpansKept ==
    ASSUME PropagationInv, NEW u \in DOMAIN units, NEW unit \in Unit, units' = [units EXCEPT ![u] = unit],
           \A v \in DOMAIN units \ {u}, n \in Nat :
               << v, n >> \in inProgress' <=> << v, n >> \in inProgress,
           inProgress' \subseteq UNION {SpanIds(v, units'[v].minted) : v \in DOMAIN units},
           Len(unit.rawSpans) <= MaxSpans,
           ToSet(unit.rawSpans) \subseteq SpanIds(u, unit.minted),
           unit.sampled /\ Len(unit.rawSpans) < MaxSpans =>
               SpanIds(u, unit.minted) \ inProgress' \subseteq ToSet(unit.rawSpans),
           unit.finished /\ unit.sampled =>
               \/ unit.answered \subseteq ToSet(unit.exported)
               \/ Len(unit.exported) = MaxSpans
    PROVE  SpansInv'
<1>1. units \in Seq(Unit)
  BY DEF PropagationInv, TraceTypeOK
<1>2. /\ DOMAIN units' = DOMAIN units /\ units'[u] = unit
      /\ \A v \in DOMAIN units \ {u} : units'[v] = units[v]
  BY <1>1
<1>3. \A v \in DOMAIN units \ {u} :
          SpanIds(v, units[v].minted) \ inProgress' = SpanIds(v, units[v].minted) \ inProgress
  BY DEF SpanIds
<1>4. \A v \in DOMAIN units \ {u} :
           /\ Len(units'[v].rawSpans) <= MaxSpans
           /\ ToSet(units'[v].rawSpans) \subseteq SpanIds(v, units'[v].minted)
           /\ units'[v].sampled /\ Len(units'[v].rawSpans) < MaxSpans =>
                  SpanIds(v, units'[v].minted) \ inProgress' \subseteq ToSet(units'[v].rawSpans)
           /\ units'[v].finished /\ units'[v].sampled =>
                  \/ units'[v].answered \subseteq ToSet(units'[v].exported)
                  \/ Len(units'[v].exported) = MaxSpans
  BY <1>2, <1>3 DEF PropagationInv, SpansInv
<1> QED
  BY <1>2, <1>4 DEF SpansInv

\* What is known of a unit.
LEMMA UnitFacts ==
    ASSUME PropagationInv, NEW u \in DOMAIN units
    PROVE  /\ units[u] \in Unit /\ u \in Nat /\ units[u].minted \in Nat
           /\ SpanIds(u, units[u].minted) \subseteq Nat \X Nat
           /\ NextSpan(u) = << u, units[u].minted + 1 >> /\ NextSpan(u) \in Nat \X Nat
           /\ SpanIds(u, units[u].minted + 1) = SpanIds(u, units[u].minted) \union {NextSpan(u)}
<1>1. units[u] \in Unit /\ u \in Nat
  BY ElementOfSeq DEF PropagationInv, TraceTypeOK
<1>2. units[u].minted \in Nat
  BY <1>1 DEF Unit
<1> QED
  BY <1>1, <1>2 DEF SpanIds, NextSpan

\* A request goes out: its span is minted and in progress.
LEMMA RoundTripInv ==
    ASSUME PropagationInv, NEW u \in DOMAIN units, RoundTrip(u)
    PROVE  PropagationInv'
<1> DEFINE next == units[u].minted + 1
<1> DEFINE unit == [units[u] EXCEPT !.minted = next]
<1>1. units[u] \in Unit /\ u \in Nat /\ units[u].minted \in Nat /\ units \in Seq(Unit)
  BY UnitFacts DEF PropagationInv, TraceTypeOK
<1>2. /\ unit \in Unit /\ unit.minted = next
      /\ unit.service = units[u].service /\ unit.trace = units[u].trace
      /\ unit.sampled = units[u].sampled /\ unit.rawSpans = units[u].rawSpans
      /\ unit.finished = units[u].finished /\ unit.answered = units[u].answered
      /\ unit.exported = units[u].exported
  <2>1. next \in Nat
    BY <1>1
  <2> HIDE DEF next
  <2> QED
    BY <1>1, <2>1 DEF Unit
<1>3. units' = [units EXCEPT ![u] = unit]
  BY DEF RoundTrip
<1> HIDE DEF unit
<1>4. headers' = headers \union {Traceparent(u, "http")} /\ inProgress' = inProgress \union {NextSpan(u)}
  BY DEF RoundTrip
<1>5. inProgress' \subseteq Nat \X Nat
  BY <1>4, UnitFacts DEF PropagationInv, TraceTypeOK
<1>6. TraceTypeOK' /\ TracesInv' /\ FateInv'
  BY <1>2, <1>3, <1>4, <1>5, NothingDecided
<1>7. SpansInv'
  <2>1. /\ units'[u] = unit /\ \A v \in DOMAIN units \ {u} : units'[v] = units[v]
    BY <1>1, <1>3
  <2>2. SpanIds(u, unit.minted) = SpanIds(u, units[u].minted) \union {NextSpan(u)}
    BY <1>2, UnitFacts
  <2>3. \A v \in DOMAIN units \ {u}, n \in Nat :
            << v, n >> \in inProgress' <=> << v, n >> \in inProgress
    BY <1>4, UnitFacts
  <2>4. inProgress' \subseteq UNION {SpanIds(v, units'[v].minted) : v \in DOMAIN units}
    BY <1>4, <2>1, <2>2 DEF PropagationInv, SpansInv
  <2>5. /\ Len(unit.rawSpans) <= MaxSpans
        /\ ToSet(unit.rawSpans) \subseteq SpanIds(u, unit.minted)
        /\ unit.sampled /\ Len(unit.rawSpans) < MaxSpans =>
               SpanIds(u, unit.minted) \ inProgress' \subseteq ToSet(unit.rawSpans)
        /\ unit.finished /\ unit.sampled =>
               \/ unit.answered \subseteq ToSet(unit.exported)
               \/ Len(unit.exported) = MaxSpans
    BY <1>2, <1>4, <2>2 DEF PropagationInv, SpansInv
  <2> QED
    BY <1>2, <1>3, <2>3, <2>4, <2>5, SpansKept
<1> QED
  BY <1>6, <1>7 DEF PropagationInv

\* A response is there: the span of the request is recorded, if there is room.
LEMMA RecordOutboundHTTPInv ==
    ASSUME PropagationInv, NEW u \in DOMAIN units, RecordOutboundHTTP(u)
    PROVE  PropagationInv'
<1>1. PICK id \in inProgress :
          /\ id[1] = u
          /\ inProgress' = inProgress \ {id}
          /\ units' = [units EXCEPT ![u].rawSpans = Recorded(u, id)]
          /\ UNCHANGED headers
  BY DEF RecordOutboundHTTP
<1> DEFINE unit == [units[u] EXCEPT !.rawSpans = Recorded(u, id)]
<1>2. /\ units[u] \in Unit /\ u \in Nat /\ units[u].minted \in Nat /\ units \in Seq(Unit)
      /\ inProgress \subseteq Nat \X Nat
  BY UnitFacts DEF PropagationInv, TraceTypeOK
<1>3. id \in Nat \X Nat
  BY <1>2
<1>4. /\ Recorded(u, id) \in Seq(Nat \X Nat)
      /\ Len(Recorded(u, id)) <= MaxSpans
      /\ ToSet(Recorded(u, id)) \subseteq ToSet(units[u].rawSpans) \union {id}
      /\ ToSet(units[u].rawSpans) \subseteq ToSet(Recorded(u, id))
      /\ units[u].sampled /\ Len(Recorded(u, id)) < MaxSpans =>
            /\ Len(units[u].rawSpans) < MaxSpans
            /\ id \in ToSet(Recorded(u, id))
  BY <1>3, RecordedSpans DEF PropagationInv
<1>5. /\ unit \in Unit /\ unit.minted = units[u].minted
      /\ unit.service = units[u].service /\ unit.trace = units[u].trace
      /\ unit.sampled = units[u].sampled /\ unit.rawSpans = Recorded(u, id)
      /\ unit.finished = units[u].finished /\ unit.answered = units[u].answered
      /\ unit.exported = units[u].exported
  BY <1>2, <1>4 DEF Unit
<1>6. units' = [units EXCEPT ![u] = unit]
  BY <1>1
<1> HIDE DEF unit
<1>7. inProgress' \subseteq Nat \X Nat
  BY <1>1, <1>2
<1>8. TraceTypeOK' /\ TracesInv' /\ FateInv'
  BY <1>1, <1>5, <1>6, <1>7, NothingDecided
<1>9. SpansInv'
  <2>1. /\ units'[u] = unit /\ \A v \in DOMAIN units \ {u} : units'[v] = units[v]
    BY <1>2, <1>6
  <2>2. \A v \in DOMAIN units : units'[v].minted = units[v].minted
    BY <1>5, <2>1
  <2>3. \A v \in DOMAIN units \ {u}, n \in Nat :
            << v, n >> \in inProgress' <=> << v, n >> \in inProgress
    BY <1>1
  <2>4. inProgress' \subseteq UNION {SpanIds(v, units'[v].minted) : v \in DOMAIN units}
    BY <1>1, <2>2 DEF PropagationInv, SpansInv
  <2>5. id \in SpanIds(u, units[u].minted)
    <3>1. PICK v \in DOMAIN units : id \in SpanIds(v, units[v].minted)
      BY DEF PropagationInv, SpansInv
    <3>2. v = u
      BY <1>1, <3>1 DEF SpanIds
    <3> QED
      BY <3>1, <3>2
  <2>6. /\ Len(unit.rawSpans) <= MaxSpans
        /\ ToSet(unit.rawSpans) \subseteq SpanIds(u, unit.minted)
        /\ unit.sampled /\ Len(unit.rawSpans) < MaxSpans =>
               SpanIds(u, unit.minted) \ inProgress' \subseteq ToSet(unit.rawSpans)
        /\ unit.finished /\ unit.sampled =>
               \/ unit.answered \subseteq ToSet(unit.exported)
               \/ Len(unit.exported) = MaxSpans
    BY <1>1, <1>4, <1>5, <2>5 DEF PropagationInv, SpansInv
  <2> QED
    BY <1>5, <1>6, <2>3, <2>4, <2>6, SpansKept
<1> QED
  BY <1>8, <1>9 DEF PropagationInv

\* A message is sent, its span minted and recorded, if there is room.
LEMMA EnqueueInv ==
    ASSUME PropagationInv, NEW u \in DOMAIN units, Enqueue(u)
    PROVE  PropagationInv'
<1> DEFINE id == NextSpan(u)
<1> DEFINE next == units[u].minted + 1
<1> DEFINE unit == [units[u] EXCEPT !.minted = next, !.rawSpans = Recorded(u, id)]
<1>1. /\ headers' = headers \union {Traceparent(u, "queue")} /\ inProgress' = inProgress
      /\ units' = [units EXCEPT ![u] = unit]
  BY DEF Enqueue
<1>2. /\ units[u] \in Unit /\ u \in Nat /\ units[u].minted \in Nat /\ units \in Seq(Unit)
      /\ inProgress \subseteq Nat \X Nat /\ id \in Nat \X Nat
  BY UnitFacts DEF PropagationInv, TraceTypeOK
<1>3. /\ Recorded(u, id) \in Seq(Nat \X Nat)
      /\ Len(Recorded(u, id)) <= MaxSpans
      /\ ToSet(Recorded(u, id)) \subseteq ToSet(units[u].rawSpans) \union {id}
      /\ ToSet(units[u].rawSpans) \subseteq ToSet(Recorded(u, id))
      /\ units[u].sampled /\ Len(Recorded(u, id)) < MaxSpans =>
            /\ Len(units[u].rawSpans) < MaxSpans
            /\ id \in ToSet(Recorded(u, id))
  BY <1>2, RecordedSpans DEF PropagationInv
<1>4. /\ unit \in Unit /\ unit.minted = next
      /\ unit.service = units[u].service /\ unit.trace = units[u].trace
      /\ unit.sampled = units[u].sampled /\ unit.rawSpans = Recorded(u, id)
      /\ unit.finished = units[u].finished /\ unit.answered = units[u].answered
      /\ unit.exported = units[u].exported
  <2>1. next \in Nat
    BY <1>2
  <2> HIDE DEF next, id
  <2> QED
    BY <1>2, <1>3, <2>1 DEF Unit
<1> HIDE DEF unit
<1>5. TraceTypeOK' /\ TracesInv' /\ FateInv'
  BY <1>1, <1>2, <1>4, NothingDecided
<1>6. SpansInv'
  <2>1. /\ units'[u] = unit /\ \A v \in DOMAIN units \ {u} : units'[v] = units[v]
    BY <1>1, <1>2
  <2>2. SpanIds(u, unit.minted) = SpanIds(u, units[u].minted) \union {id}
    BY <1>4, UnitFacts
  <2> HIDE DEF id
  <2>3. inProgress' \subseteq UNION {SpanIds(v, units'[v].minted) : v \in DOMAIN units}
    BY <1>1, <2>1, <2>2 DEF PropagationInv, SpansInv
  <2>4. /\ Len(unit.rawSpans) <= MaxSpans
        /\ ToSet(unit.rawSpans) \subseteq SpanIds(u, unit.minted)
        /\ unit.sampled /\ Len(unit.rawSpans) < MaxSpans =>
               SpanIds(u, unit.minted) \ inProgress' \subseteq ToSet(unit.rawSpans)
        /\ unit.finished /\ unit.sampled =>
               \/ unit.answered \subseteq ToSet(unit.exported)
               \/ Len(unit.exported) = MaxSpans
    BY <1>1, <1>3, <1>4, <2>2 DEF PropagationInv, SpansInv
  <2> QED
    BY <1>1, <1>4, <2>3, <2>4, SpansKept
<1> QED
  BY <1>5, <1>6 DEF PropagationInv

\* Finish exports what was recorded: with room left, that is every call answered.
LEMMA FinishInv ==
    ASSUME PropagationInv, NEW u \in DOMAIN units, Finish(u)
    PROVE  PropagationInv'
<1> DEFINE answered == SpanIds(u, units[u].minted) \ inProgress
<1> DEFINE unit == [units[u] EXCEPT !.finished = TRUE, !.exported = units[u].rawSpans,
                                    !.answered = answered]
<1>1. headers' = headers /\ inProgress' = inProgress /\ units' = [units EXCEPT ![u] = unit]
  BY DEF Finish
<1>2. /\ units[u] \in Unit /\ units \in Seq(Unit) /\ inProgress \subseteq Nat \X Nat
      /\ answered \subseteq Nat \X Nat
  BY UnitFacts DEF PropagationInv, TraceTypeOK
<1>3. /\ unit \in Unit /\ unit.minted = units[u].minted
      /\ unit.service = units[u].service /\ unit.trace = units[u].trace
      /\ unit.sampled = units[u].sampled /\ unit.rawSpans = units[u].rawSpans
      /\ unit.answered = answered /\ unit.exported = units[u].rawSpans
      /\ units[u].rawSpans \in Seq(Nat \X Nat)
  BY <1>2 DEF Unit
<1> HIDE DEF unit
<1>4. TraceTypeOK' /\ TracesInv' /\ FateInv'
  BY <1>1, <1>2, <1>3, NothingDecided
<1>5. SpansInv'
  <2>1. \A v \in DOMAIN units : units'[v].minted = units[v].minted
    BY <1>1, <1>2, <1>3
  <2>2. inProgress' \subseteq UNION {SpanIds(v, units'[v].minted) : v \in DOMAIN units}
    BY <1>1, <2>1 DEF PropagationInv, SpansInv
  <2>3. /\ Len(unit.rawSpans) <= MaxSpans
        /\ ToSet(unit.rawSpans) \subseteq SpanIds(u, unit.minted)
        /\ unit.sampled /\ Len(unit.rawSpans) < MaxSpans =>
               SpanIds(u, unit.minted) \ inProgress' \subseteq ToSet(unit.rawSpans)
    BY <1>1, <1>3 DEF PropagationInv, SpansInv
  <2>4. unit.sampled =>
               \/ unit.answered \subseteq ToSet(unit.exported)
               \/ Len(unit.exported) = MaxSpans
    <3>1. Len(unit.rawSpans) \in Nat /\ MaxSpans \in Nat
      BY <1>3, MaxSpansAssumption
    <3> QED
      BY <1>1, <1>3, <2>3, <3>1
  <2> QED
    BY <1>1, <1>3, <2>2, <2>3, <2>4, SpansKept
<1> QED
  BY <1>4, <1>5 DEF PropagationInv

-----------------------------------------------------------------------------
\* PropagationInv is an invariant of all services together: every header on the way agrees
\* with the units of its trace, and every unit has recorded what was answered.
THEOREM PropagationInvariance == TraceSpec => []PropagationInv
<1>1. PropagationInv /\ [TraceNext]_traceVars => PropagationInv'
  <2> SUFFICES ASSUME PropagationInv, [TraceNext]_traceVars PROVE PropagationInv'
    OBVIOUS
  <2>1. ASSUME NEW s \in Services, Serve(s) PROVE PropagationInv'
    <3>1. PICK h \in {NoHeader} \union {h \in headers : h.via = "http"} : StartRoot(s, h)
      BY <2>1 DEF Serve
    <3> QED
      BY <2>1, <3>1, StartRootInv DEF Serve
  <2>2. ASSUME NEW s \in Services, RunJob(s) PROVE PropagationInv'
    <3>1. PICK h \in {NoHeader} \union {h \in headers : h.via = "queue"} : StartRoot(s, h)
      BY <2>2 DEF RunJob
    <3> QED
      BY <2>2, <3>1, StartRootInv DEF RunJob
  <2>3. CASE UNCHANGED traceVars
    <3>1. UNCHANGED << units, headers, inProgress >>
      BY <2>3 DEF traceVars
    <3>2. TraceTypeOK' /\ TracesInv'
      BY <3>1 DEF PropagationInv, TraceTypeOK, TracesInv
    <3>3. FateInv'
      BY <3>1 DEF PropagationInv, FateInv, Decisions, ThroughDisabled, Traced
    <3>4. SpansInv'
      BY <3>1 DEF PropagationInv, SpansInv
    <3> QED
      BY <3>2, <3>3, <3>4 DEF PropagationInv
  <2> QED
    BY <2>1, <2>2, <2>3, RoundTripInv, RecordOutboundHTTPInv, EnqueueInv, FinishInv DEF TraceNext
<1> QED
  BY PropagationInit, <1>1, PTL DEF TraceSpec

\* All spans of a trace share the same fate, however the trace travels and however
\* often a header is delivered (startRoot inherits the sampled flag).
THEOREM OneFate == TraceSpec => []SampledTogether
<1>1. ASSUME PropagationInv PROVE SampledTogether
  <2> SUFFICES ASSUME NEW u \in Traced, NEW v \in Traced,
                      units[u].trace = units[v].trace, units[u].trace \notin ThroughDisabled
               PROVE  units[u].sampled = units[v].sampled
    BY DEF SampledTogether
  <2> DEFINE c == << units[u].trace, units[u].sampled >>
             d == << units[v].trace, units[v].sampled >>
  <2>1. c \in Decisions /\ d \in Decisions
    BY DEF Decisions, Traced
  <2>2. c = d
    BY <1>1, <2>1 DEF PropagationInv, FateInv
  <2> QED
    BY <2>2
<1> QED
  BY PropagationInvariance, <1>1, PTL

\* The root of a callee finds its parent, a span exported by the caller, for every
\* call answered before Finish, unless the buffer is full (recordOutboundHTTP gives
\* the span the id that was sent).
THEOREM ParentsFound == TraceSpec => []ParentsExported
<1>1. PropagationInv => ParentsExported
  BY DEF PropagationInv, SpansInv, ParentsExported, Traced
<1> QED
  BY PropagationInvariance, <1>1, PTL
=============================================================================
