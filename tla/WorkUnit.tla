------------------------------ MODULE WorkUnit ------------------------------
(***************************************************************************)
(* The life of one unit of work in each of the entry points: the net/http  *)
(* middleware (httpmiddleware.go), the Gin, Echo and Fiber adapters, and   *)
(* RunJob, RunCommand and RunSchedule (background.go).  The handler is the *)
(* application's: it answers, sets attributes of the root span, and ends   *)
(* by returning, by an error, by a panic or by runtime.Goexit.  What it    *)
(* ends with is in flight to the caller of the entry point, and on its way *)
(* passes the code that recovers it, finishes the root span, hands it to a *)
(* transport that may panic itself, and raises the panic again.            *)
(***************************************************************************)
EXTENDS Integers, FiniteSets

CONSTANTS
    Entries,        \* the entry points under consideration
    Codes,          \* status codes the handler may write
    MaxWriteHeaders      \* bound of the model: WriteHeader calls of one handler

Frameworks == {"gin", "echo", "fiber"}
Requests == {"http"} \union Frameworks
Background == {"job", "command", "schedule"}

ASSUME EntriesAssumption == Entries \subseteq Requests \union Background
ASSUME CodesAssumption == Codes \subseteq 100 .. 599

VARIABLES
    entry,      \* the entry point
    root,       \* the root span
    pc,         \* "start", "handler", "unwind", "finish", "send", "sendPanicked", "reraise"
                \* or "over"
    inFlight,   \* what is on its way to the caller of the entry point, or reached it
    recovered,  \* what recover() returned: "none" is nil
    errorCode,  \* the code of the echo.HTTPError or fiber.Error that the handler returned
    response,   \* what the handler wrote: codes sent, the status kept, errors recorded
    exports,    \* how often the unit's spans were handed to the transport
    outcome,    \* history: how the handler ended
    marked      \* history: the application marked the root as failed

flight == << inFlight, recovered, errorCode >>
history == << outcome, marked >>
vars == << entry, root, pc, flight, response, exports, history >>

\* Without a root span (not traced or not sampled) the setters are not reached.
NoRoot == [status |-> "none", code |-> 0]

Init ==
    /\ entry \in Entries
    /\ root = NoRoot
    /\ pc = "start"
    /\ inFlight = "none"
    /\ recovered = "none"
    /\ errorCode = 0
    /\ response = [sent |-> {}, final |-> 0, status |-> 200, wroteHeader |-> FALSE, errors |-> FALSE]
    /\ exports = 0
    /\ outcome = "none"
    /\ marked = FALSE

-----------------------------------------------------------------------------
\* A middleware passes an ignored path or a disabled SDK by; startRoot opens the
\* root span when the unit is sampled.
Start ==
    /\ pc = "start"
    /\ pc' = "handler"
    /\ root' \in {NoRoot, [status |-> "unset", code |-> 0]}
    /\ UNCHANGED << entry, flight, response, exports, history >>

\* A fault: the last status is kept, though only the first goes out.
KeepLastStatus(code) ==
    /\ pc = "handler" /\ entry \in Requests /\ Cardinality(response.sent) < MaxWriteHeaders
    /\ response' = [response EXCEPT !.sent = @ \union {code}, !.wroteHeader = TRUE,
                        !.status = code, !.final = IF @ = 0 /\ code >= 200 THEN code ELSE @]
    /\ UNCHANGED << entry, root, pc, flight, exports, history >>

\* statusWriter.WriteHeader keeps the first code; net/http sends codes below 200 as
\* information and the first other one as the status of the response.  A handler of
\* a framework sets one status, which is not informational.
WriteHeader(code) ==
    /\ pc = "handler" /\ entry \in Requests /\ Cardinality(response.sent) < MaxWriteHeaders
    /\ entry = "http" \/ (~response.wroteHeader /\ code >= 200)
    /\ response' = [response EXCEPT !.sent = @ \union {code}, !.wroteHeader = TRUE,
                        !.status = IF response.wroteHeader THEN @ ELSE code,
                        !.final = IF @ = 0 /\ code >= 200 THEN code ELSE @]
    /\ UNCHANGED << entry, root, pc, flight, exports, history >>

\* The body goes out, under status 200 if no other was written.
Write ==
    /\ pc = "handler" /\ entry \in Requests
    /\ response' = [response EXCEPT !.wroteHeader = TRUE, !.final = IF @ = 0 THEN 200 ELSE @]
    /\ UNCHANGED << entry, root, pc, flight, exports, history >>

\* The application marks the root as failed.
SetStatus ==
    /\ pc = "handler" /\ root # NoRoot
    /\ root' = [root EXCEPT !.status = "error"]
    /\ marked' = TRUE
    /\ UNCHANGED << entry, pc, flight, response, exports, outcome >>

\* c.Error of Gin.
RecordError ==
    /\ pc = "handler" /\ entry = "gin"
    /\ response' = [response EXCEPT !.errors = TRUE]
    /\ UNCHANGED << entry, root, pc, flight, exports, history >>

\* The ways a handler of each entry point may end; "httpError" is an echo.HTTPError
\* or fiber.Error, "exit" a non-zero exit code.
Endings ==
    {"returns", "panic", "goexit"}
    \union (IF entry \in {"http", "gin"} THEN {} ELSE {"error"})
    \union (IF entry \in {"echo", "fiber"} THEN {"httpError"} ELSE {})
    \union (IF entry = "command" THEN {"exit"} ELSE {})

EndHandler ==
    /\ pc = "handler"
    /\ pc' = "unwind"
    /\ outcome' \in Endings
    /\ inFlight' = outcome'
    /\ errorCode' \in (IF outcome' = "httpError" THEN Codes ELSE {0})
    /\ UNCHANGED << entry, root, recovered, response, exports, marked >>

-----------------------------------------------------------------------------
(* The end of the unit *)

\* These entry points recover in their deferred function; Gin's only finishes.
Recovering == {"http"} \union Background

\* A recovered panic no longer unwinds the stack: by itself the entry point would now
\* return nil.  recover() leaves a Goexit alone.
Recover ==
    /\ pc = "unwind" /\ entry \in Recovering
    /\ pc' = "finish"
    /\ IF inFlight = "panic"
       THEN recovered' = "panic" /\ inFlight' = "returns"
       ELSE UNCHANGED << recovered, inFlight >>
    /\ UNCHANGED << entry, root, errorCode, response, exports, history >>

\* A fault: the unit is finished only when the handler returned.
FinishIfReturned ==
    /\ pc = "unwind" /\ entry \in Frameworks
    /\ pc' = IF inFlight \in {"panic", "goexit"} THEN "over" ELSE "finish"
    /\ UNCHANGED << entry, root, flight, response, exports, history >>

\* Gin's adapter finishes in a deferred function, past which a panic goes on; those of
\* Echo and Fiber call finish after the handler, which a panic or Goexit leaves out.
CallFinish ==
    /\ pc = "unwind" /\ entry \in Frameworks
    /\ pc' = IF entry # "gin" /\ inFlight \in {"panic", "goexit"} THEN "over" ELSE "finish"
    /\ UNCHANGED << entry, root, flight, response, exports, history >>

\* finishHTTP takes the status from statusWriter, and 500 after a panic.
HTTPStatus == IF recovered = "panic" THEN 500 ELSE response.status

\* Echo's error handler runs after the middleware: the code of an error that the
\* handler returned goes before the status that is there.
EchoStatus ==
    CASE inFlight = "httpError" -> errorCode
      [] inFlight = "error" /\ response.status < 400 -> 500
      [] OTHER -> response.status

\* Gin and Fiber look at the response alone; Fiber's error handler has not run yet.
StatusSeen ==
    CASE entry = "http" -> HTTPStatus
      [] entry = "echo" -> EchoStatus
      [] OTHER -> response.status

RequestFailed == entry \in Requests /\ (recovered = "panic" \/ StatusSeen >= 500 \/ response.errors)

CommandFailed == entry = "command" /\ (recovered = "panic" \/ inFlight \in {"error", "exit"})

JobFailed == entry \in {"job", "schedule"} /\ (recovered = "panic" \/ inFlight = "error")

\* A fault: the status of the application gives way to that of the response.
FinalStatusAnew ==
    IF RequestFailed \/ CommandFailed \/ JobFailed THEN "error"
    ELSE IF entry \in Requests THEN "ok" ELSE root.status

\* A request is marked as OK where no status was set.
FinalStatus ==
    IF RequestFailed \/ CommandFailed \/ JobFailed THEN "error"
    ELSE IF entry \in Requests /\ root.status = "unset" THEN "ok" ELSE root.status

\* finishHTTP and its like leave a unit without a root; Finish does so for the others.
MarkRoot ==
    /\ pc = "finish"
    /\ IF root = NoRoot
       THEN pc' = "reraise" /\ UNCHANGED root
       ELSE /\ pc' = "send"
            /\ root' = [status |-> FinalStatus, code |-> IF entry \in Requests THEN StatusSeen ELSE 0]
    /\ UNCHANGED << entry, flight, response, exports, history >>

\* Tracer.Finish: the status that is still unset becomes OK, and the spans go to the
\* transport, which is the application's and may panic.
TracerFinish ==
    /\ pc = "send"
    /\ root' = [root EXCEPT !.status = IF @ = "unset" THEN "ok" ELSE @]
    /\ exports' = exports + 1
    /\ pc' \in {"reraise", "sendPanicked"}
    /\ UNCHANGED << entry, flight, response, history >>

\* A fault: the panic of the transport leaves Finish, and takes the place of what was
\* in flight.
LetThrough ==
    /\ pc = "sendPanicked"
    /\ pc' = "over"
    /\ inFlight' = "panic"
    /\ UNCHANGED << entry, root, recovered, errorCode, response, exports, history >>

\* Finish recovers the panic of the transport, and that one only.
RecoverSend ==
    /\ pc = "sendPanicked"
    /\ pc' = "reraise"
    /\ UNCHANGED << entry, root, flight, response, exports, history >>

\* What was recovered is raised again; what was not, and an error, goes on by itself.
Reraise ==
    /\ pc = "reraise"
    /\ pc' = "over"
    /\ inFlight' = IF recovered = "none" THEN inFlight ELSE recovered
    /\ UNCHANGED << entry, root, recovered, errorCode, response, exports, history >>

Next ==
    \/ Start \/ (\E code \in Codes : WriteHeader(code)) \/ Write
    \/ SetStatus \/ RecordError \/ EndHandler
    \/ Recover \/ CallFinish \/ MarkRoot \/ TracerFinish \/ RecoverSend \/ Reraise

Spec == Init /\ [][Next]_vars

-----------------------------------------------------------------------------
Over == pc = "over"

\* Echo and Fiber, which finish after the handler and not in a deferred function, lose
\* the unit of a handler that panics or calls Goexit.
Lost == entry \in {"echo", "fiber"} /\ outcome \in {"panic", "goexit"}

\* A traced unit is exported exactly once, however its handler ends and though the
\* transport panics, and one that is not traced never is; but for the units that are
\* lost (the deferred functions of the entry points, echo.go, fiber.go).
ExportedOnce ==
    Over => exports = (IF root = NoRoot \/ Lost THEN 0 ELSE 1)

\* What the handler ended with, be it a panic, an error, an exit code or a Goexit, is
\* what the caller of the entry point gets, and nothing else: neither recovering it to
\* finish the unit nor a panic of the transport loses or replaces it ("the host's own
\* recovery still sees it", httpmiddleware.go; "resilient to panics", tracer.go).
HostSeesOutcome == Over => inFlight = outcome

-----------------------------------------------------------------------------
(* What the export tells of the unit *)

ReturnedError == outcome \in {"error", "httpError"}

\* The status that the client gets.  Echo's error handler answers where the handler
\* did not; Fiber's also replaces the answer.
ClientStatus ==
    CASE entry = "http" -> IF response.final = 0 THEN 200 ELSE response.final
      [] ReturnedError /\ (entry = "fiber" \/ (entry = "echo" /\ ~response.wroteHeader)) ->
            IF outcome = "httpError" THEN errorCode ELSE 500
      [] OTHER -> response.status

\* A request has failed if its handler panicked, the client got a 5xx, or the handler
\* returned an error that is neither a 4xx nor answered with one; a background unit
\* has failed if it panicked, returned an error or a non-zero exit code.
Failed ==
    \/ outcome \in {"panic", "exit"}
    \/ outcome = "error" /\ (entry \in Background \/ ClientStatus \notin 400 .. 499)
    \/ outcome = "httpError" /\ errorCode >= 500
    \/ entry \in Requests /\ ClientStatus >= 500

\* The handler sent an informational response, which statusWriter takes for the
\* status of the response.
Informed == \E code \in response.sent : code < 200

\* Echo's handler answered and then returned an echo.HTTPError: the export has the
\* code of the error, and the client the answer.
Contradicted == entry = "echo" /\ outcome = "httpError" /\ response.wroteHeader

\* Failures that the middleware does not look at: the panic of a Gin handler, and the
\* error of a Fiber handler.
Overlooked == \/ entry = "gin" /\ outcome = "panic" /\ response.status < 500
              \/ entry = "fiber" /\ ReturnedError /\ response.status < 500

\* A failed unit is exported as failed (the switch of finishHTTP and its like, and
\* Finish), unless its failure is overlooked, its 5xx is contradicted by the code of an
\* error below 500, or its status hides behind an informational one; and a unit that
\* the application marked as failed is never exported as OK.
FailureShows ==
    /\ (Over /\ exports > 0 /\ Failed /\ ~Overlooked /\ ~Informed
        /\ ~(Contradicted /\ errorCode < 500)) => root.status = "error"
    /\ root.status = "ok" => ~marked

\* The status code on the root of a request that returned is the one that the client
\* gets (statusWriter, and the finish of each adapter), if the handler sent no
\* informational response before it; unless it returned an error to Fiber, whose error
\* handler runs later, or to Echo after it had answered.
StatusReported ==
    (/\ Over /\ exports > 0 /\ entry \in Requests /\ outcome \notin {"panic", "goexit"} /\ ~Informed
     /\ ~(ReturnedError /\ (entry = "fiber" \/ response.wroteHeader))) =>
        root.code = ClientStatus

-----------------------------------------------------------------------------
\* Types of all variables.
TypeOK ==
    /\ entry \in Entries
    /\ root \in [status : {"none", "unset", "error", "ok"}, code : 0 .. 599]
    /\ pc \in {"start", "handler", "unwind", "finish", "send", "sendPanicked", "reraise", "over"}
    /\ inFlight \in {"none"} \union Endings
    /\ recovered \in {"none", "panic"}
    /\ errorCode \in {0} \union Codes
    /\ response \in [sent : SUBSET Codes, final : 0 .. 599, status : 100 .. 599,
                     wroteHeader : BOOLEAN, errors : BOOLEAN]
    /\ exports \in {0, 1}
    /\ outcome \in {"none"} \union Endings
    /\ marked \in BOOLEAN
=============================================================================
