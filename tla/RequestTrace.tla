---------------------------- MODULE RequestTrace ----------------------------
(***************************************************************************)
(* The state of one traced request (requestState, tracer.go) while the     *)
(* goroutines of its handler record spans in it and Finish exports it.     *)
(* An operation is one instrumented call; a handler may leave goroutines   *)
(* behind, so that operations end before, during and after Finish:         *)
(*   Queries    database calls (record, dbwrap.go; after, gormr.go)        *)
(*   HTTPCalls  outbound requests (RoundTrip, outbound_http.go)            *)
(*   Enqueues   messages sent (Enqueue, background.go)                     *)
(* A step that holds st.mu from beginning to end is one action; Finish     *)
(* holds it while it reads the spans one by one, twice, and spans are also *)
(* written by those who hold no lock.  Reading a span while it is written  *)
(* is a data race: setAttr updates the map s.index and appends to s.keys   *)
(* before s.values, so that the reader may see an old or a new value,      *)
(* index beyond s.values (a panic, recovered by Finish), or, in the map,   *)
(* be stopped by the runtime, which ends the process.                      *)
(***************************************************************************)
EXTENDS Integers, SequencesExt

CONSTANTS Queries, HTTPCalls, Enqueues, MaxSpans

Operations == Queries \union HTTPCalls \union Enqueues

ASSUME OperationsAssumption ==
    /\ Queries \intersect HTTPCalls = {}
    /\ (Queries \union HTTPCalls) \intersect Enqueues = {}

ASSUME MaxSpansAssumption == MaxSpans \in Nat

VARIABLES
    sampled,    \* st.sampled, decided when the request starts
    rawSpans,   \* st.rawSpans: the operations whose span was recorded, in order
    dbQueryCount, \* st.dbQueryCount
    span,       \* what the span of each operation holds
    opPC,       \* where each operation is
    finishPC,   \* where Finish is; it holds st.mu in "rollup" and "reading"
    rolledUp,   \* the categories attachSelfTime has charged the spans to
    payload,    \* the spans Finish has serialized, each as it was then
    stamped,    \* the query count Finish stamped on the root span
    atFinish    \* history: rawSpans when Finish took st.mu

requestVars == << sampled, finishPC, rolledUp, payload, stamped, atFinish >>
vars == << requestVars, rawSpans, dbQueryCount, span, opPC >>

\* A span is "bare" when only the fields newSpan sets are there, "torn" while
\* its owner writes attributes into it, "open" when only its end is missing.
SpanStates == {"none", "bare", "torn", "open", "whole"}

Init ==
    /\ sampled \in BOOLEAN
    /\ rawSpans = << >>
    /\ dbQueryCount = 0
    /\ span = [o \in Operations |-> "none"]
    /\ opPC = [o \in Operations |-> "idle"]
    /\ finishPC = "open"
    /\ rolledUp = << >>
    /\ payload = << >>
    /\ stamped = 0
    /\ atFinish = << >>

-----------------------------------------------------------------------------
\* A process the runtime has stopped takes no step.
OpGoes(o, from, to) ==
    /\ finishPC # "crashed"
    /\ opPC[o] = from
    /\ opPC' = [opPC EXCEPT ![o] = to]

\* A fault: the unlock is not deferred, so that a panic of Finish leaves st.mu locked.
UnlockedOnReturn == finishPC \notin {"rollup", "reading", "lost"}

\* Finish does not hold st.mu.
Unlocked == finishPC \notin {"rollup", "reading"}

Becomes(o, what) == span' = [span EXCEPT ![o] = what]

\* A fault: the lock is not taken.
AddSpanUnlocked(o, from, to, what, full) ==
    IF sampled /\ Len(rawSpans) < MaxSpans
    THEN /\ rawSpans' = Append(rawSpans, o)
         /\ Becomes(o, what)
         /\ OpGoes(o, from, to)
    ELSE OpGoes(o, from, full) /\ UNCHANGED << rawSpans, span >>

\* A fault: one span more than MaxSpans is let in.
AddSpanOneTooMany(o, from, to, what, full) ==
    /\ Unlocked
    /\ IF sampled /\ Len(rawSpans) <= MaxSpans
       THEN /\ rawSpans' = Append(rawSpans, o)
            /\ Becomes(o, what)
            /\ OpGoes(o, from, to)
       ELSE OpGoes(o, from, full) /\ UNCHANGED << rawSpans, span >>

\* AddChildSpan, startChildSpan, addChildSpanWithID: with st.mu held, a span is
\* added to the buffer if there is room, and then the operation goes on.
AddSpan(o, from, to, what, full) ==
    /\ Unlocked
    /\ IF sampled /\ Len(rawSpans) < MaxSpans
       THEN /\ rawSpans' = Append(rawSpans, o)
            /\ Becomes(o, what)
            /\ OpGoes(o, from, to)
       ELSE OpGoes(o, from, full) /\ UNCHANGED << rawSpans, span >>

\* record: the query runs; when it is back and the request is sampled, it is
\* counted under one lock and its span added under another.
Query(q) ==
    /\ OpGoes(q, "idle", IF sampled THEN "count" ELSE "over")
    /\ UNCHANGED << requestVars, rawSpans, dbQueryCount, span >>

\* A fault: only the queries without a span are counted.
CountIfRefused(q) ==
    /\ OpGoes(q, "count", "add")
    /\ Unlocked
    /\ dbQueryCount' = IF Len(rawSpans) < MaxSpans THEN dbQueryCount ELSE dbQueryCount + 1
    /\ UNCHANGED << requestVars, rawSpans, span >>

IncrementDBQueryCount(q) ==
    /\ OpGoes(q, "count", "add")
    /\ Unlocked
    /\ dbQueryCount' = dbQueryCount + 1
    /\ UNCHANGED << requestVars, rawSpans, span >>

AddChildSpan(q) ==
    /\ AddSpan(q, "add", "decorate", "bare", "over")
    /\ UNCHANGED << requestVars, dbQueryCount >>

\* decorate writes into the published span with no lock.
Decorate(q) ==
    /\ OpGoes(q, "decorate", "decorating")
    /\ Becomes(q, "torn")
    /\ UNCHANGED << requestVars, rawSpans, dbQueryCount >>

Decorated(q) ==
    /\ OpGoes(q, "decorating", "over")
    /\ Becomes(q, "whole")
    /\ UNCHANGED << requestVars, rawSpans, dbQueryCount >>

\* RoundTrip: the outgoing request carries a fresh span id.
RoundTrip(h) ==
    /\ OpGoes(h, "idle", "response")
    /\ UNCHANGED << requestVars, rawSpans, dbQueryCount, span >>

\* A fault: the span is published before it is decorated.
PublishUndecorated(h) ==
    \/ AddSpan(h, "response", "attributes", "bare", "over") /\ UNCHANGED << requestVars, dbQueryCount >>
    \/ /\ OpGoes(h, "attributes", "over")
       /\ Becomes(h, "whole")
       /\ UNCHANGED << requestVars, rawSpans, dbQueryCount >>

\* recordOutboundHTTP: decorate runs under the lock, before the span is added.
RecordOutboundHTTP(h) ==
    /\ AddSpan(h, "response", "over", "whole", "over")
    /\ UNCHANGED << requestVars, dbQueryCount >>

\* Enqueue: the span is added before the message is sent, ...
Enqueue(e) ==
    /\ AddSpan(e, "idle", "attributes", "bare", "over")
    /\ UNCHANGED << requestVars, dbQueryCount >>

\* ... gets its attributes while it is in the buffer already, ...
SetAttributes(e) ==
    /\ OpGoes(e, "attributes", "setting")
    /\ Becomes(e, "torn")
    /\ UNCHANGED << requestVars, rawSpans, dbQueryCount >>

AttributesSet(e) ==
    /\ OpGoes(e, "setting", "sending")
    /\ Becomes(e, "open")
    /\ UNCHANGED << requestVars, rawSpans, dbQueryCount >>

\* ... and its end and status when the broker has answered.
SetEnd(e) ==
    /\ OpGoes(e, "sending", "over")
    /\ Becomes(e, "whole")
    /\ UNCHANGED << requestVars, rawSpans, dbQueryCount >>

-----------------------------------------------------------------------------
(* Finish *)

operationVars == << sampled, rawSpans, dbQueryCount, span, opPC, atFinish >>

FinishGoes(from, to) ==
    /\ finishPC = from
    /\ finishPC' = to

\* st.mu is taken; a request that is not sampled exports nothing.
Finish ==
    /\ FinishGoes("open", IF sampled THEN "rollup" ELSE "skipped")
    /\ atFinish' = rawSpans
    /\ UNCHANGED << sampled, rawSpans, dbQueryCount, span, opPC, rolledUp, payload, stamped >>

\* The category a span shows: decorate sets a query's as its first attribute.
\* Until then the span counts as the application's own time.
Category(o) == CASE o \in Queries -> "db" [] o \in HTTPCalls -> "http" [] OTHER -> "queue"

CategoriesSeen(o) ==
    IF o \in Queries /\ span[o] # "whole"
    THEN {"app"} \union (IF span[o] = "torn" THEN {"db"} ELSE {})
    ELSE {Category(o)}

\* attachSelfTime reads the category and the window of the next child.
RollUp ==
    /\ FinishGoes("rollup", "rollup")
    /\ Len(rolledUp) < Len(rawSpans)
    /\ \E category \in CategoriesSeen(rawSpans[Len(rolledUp) + 1]) :
           rolledUp' = Append(rolledUp, category)
    /\ UNCHANGED << operationVars, payload, stamped >>

\* The root is stamped with the sums and the query count.
Stamp ==
    /\ FinishGoes("rollup", "reading")
    /\ Len(rolledUp) = Len(rawSpans)
    /\ stamped' = dbQueryCount
    /\ UNCHANGED << operationVars, rolledUp, payload >>

\* toData of the next child.
ReadSpan ==
    /\ FinishGoes("reading", "reading")
    /\ Len(payload) < Len(rawSpans)
    /\ LET o == rawSpans[Len(payload) + 1]
       IN  payload' = Append(payload, [op |-> o, span |-> span[o]])
    /\ UNCHANGED << operationVars, rolledUp, stamped >>

\* The span to be read next is being written.
RacesWith(position) ==
    /\ position <= Len(rawSpans)
    /\ span[rawSpans[position]] = "torn"

\* Such a read may panic: Finish unlocks st.mu and recovers, and the batch is gone.
ReadPanics ==
    /\ \/ FinishGoes("rollup", "lost") /\ RacesWith(Len(rolledUp) + 1)
       \/ FinishGoes("reading", "lost") /\ RacesWith(Len(payload) + 1)
    /\ UNCHANGED << operationVars, rolledUp, payload, stamped >>

\* The runtime finds the map read for the category being written.
RuntimeThrows ==
    /\ FinishGoes("rollup", "crashed")
    /\ RacesWith(Len(rolledUp) + 1)
    /\ UNCHANGED << operationVars, rolledUp, payload, stamped >>

\* The transport takes the payload.  It may also panic: the deferred functions
\* unlock st.mu and recover, and the batch is gone.
Send ==
    /\ finishPC' \in {"sent", "lost"}
    /\ finishPC = "reading"
    /\ Len(payload) = Len(rawSpans)
    /\ UNCHANGED << operationVars, rolledUp, payload, stamped >>

Operate(o) ==
    \/ o \in Queries /\ (IncrementDBQueryCount(o) \/ AddChildSpan(o) \/ Decorate(o) \/ Decorated(o))
    \/ o \in HTTPCalls /\ RecordOutboundHTTP(o)
    \/ o \in Enqueues /\ (SetAttributes(o) \/ AttributesSet(o) \/ SetEnd(o))

Start(o) ==
    \/ o \in Queries /\ Query(o)
    \/ o \in HTTPCalls /\ RoundTrip(o)
    \/ o \in Enqueues /\ Enqueue(o)

\* The request is over; its operations may go on.
Idle ==
    /\ finishPC \in {"sent", "lost", "skipped", "crashed"}
    /\ UNCHANGED vars

Finishing == RollUp \/ Stamp \/ ReadSpan \/ ReadPanics \/ RuntimeThrows \/ Send

Next ==
    \/ \E o \in Operations : Start(o) \/ Operate(o)
    \/ Finish \/ Finishing
    \/ Idle

Spec == Init /\ [][Next]_vars

\* Goroutines that can run do run, and the middleware calls Finish.  The
\* transport takes a payload without blocking (see SendReturns of SDKHandle).
FairSpec ==
    /\ Spec
    /\ WF_vars(Finish) /\ WF_vars(Finishing)
    /\ \A o \in Operations : WF_vars(Operate(o))

-----------------------------------------------------------------------------
OpStates == {"idle", "count", "add", "decorate", "decorating", "response", "attributes",
             "setting", "sending", "over"}

\* Types of all variables.
TypeOK ==
    /\ sampled \in BOOLEAN
    /\ rawSpans \in Seq(Operations)
    /\ dbQueryCount \in Nat
    /\ span \in [Operations -> SpanStates]
    /\ opPC \in [Operations -> OpStates]
    /\ finishPC \in {"open", "rollup", "reading", "sent", "lost", "skipped", "crashed"}
    /\ rolledUp \in Seq({"app", "db", "http", "queue"})
    /\ payload \in Seq([op : Operations, span : SpanStates])
    /\ stamped \in Nat
    /\ atFinish \in Seq(Operations)

\* The buffer keeps to its bound; an operation that has no span yet is not in it,
\* and no operation is in it twice.
BufferInv ==
    /\ Len(rawSpans) <= MaxSpans
    /\ \A i \in 1 .. Len(rawSpans) :
           opPC[rawSpans[i]] \notin {"idle", "count", "add", "response"}
    /\ \A i, j \in 1 .. Len(rawSpans) : rawSpans[i] = rawSpans[j] => i = j

\* While Finish holds st.mu the buffer does not change, and what it has read of
\* the buffer it has read in order.
LockInv ==
    /\ finishPC \in {"rollup", "reading"} => rawSpans = atFinish
    /\ finishPC = "open" => Len(rolledUp) = 0
    /\ finishPC \in {"open", "rollup"} => Len(payload) = 0
    /\ finishPC = "sent" => Len(payload) = Len(atFinish)
    /\ Len(payload) <= Len(atFinish)
    /\ \A i \in 1 .. Len(payload) : payload[i].op = atFinish[i]

\* An outbound HTTP span in the buffer is whole; the roll-up has charged those it
\* has come by to http, and it has come by all when the payload is made.
HTTPInv ==
    /\ \A i \in 1 .. Len(rawSpans) : rawSpans[i] \in HTTPCalls => span[rawSpans[i]] = "whole"
    /\ finishPC # "open" => Len(rolledUp) <= Len(atFinish)
    /\ finishPC = "reading" \/ Len(payload) > 0 => Len(rolledUp) = Len(atFinish)
    /\ \A i \in 1 .. Len(rolledUp) : atFinish[i] \in HTTPCalls => rolledUp[i] = "http"
    /\ \A i \in 1 .. Len(payload) : payload[i].op \in HTTPCalls => payload[i].span = "whole"

\* The queries that have been counted: those past their counter.
Counted ==
    {q \in Queries : opPC[q] \in {"add", "decorate", "decorating"} \/ (sampled /\ opPC[q] = "over")}

QueryPositions(ops) == {i \in 1 .. Len(ops) : ops[i] \in Queries}

\* Only the queries of a sampled request get to their counter; the query count is
\* that of the queries past it; what Finish stamped covers the queries in the buffer.
CountInv ==
    /\ \A q \in Queries :
          /\ opPC[q] \in {"idle", "count", "add", "decorate", "decorating", "over"}
          /\ opPC[q] \notin {"idle", "over"} => sampled
    /\ Len(rawSpans) > 0 => sampled
    /\ IsFiniteSet(Counted)
    /\ dbQueryCount = Cardinality(Counted)
    /\ finishPC \in {"reading", "sent"} => stamped >= Cardinality(QueryPositions(atFinish))

\* The inductive invariant: types, the buffer and the lock (requestState.mu), what
\* the outbound spans look like, and the query count.
TraceInv == TypeOK /\ BufferInv /\ LockInv

IInv == TraceInv /\ HTTPInv /\ CountInv

Exported == finishPC = "sent"

\* The children in the payload, in order.
PayloadOps == [i \in 1 .. Len(payload) |-> payload[i].op]

\* What the transport takes holds every span recorded by the time Finish took the
\* lock, once and in order, and none recorded later, though operations of
\* goroutines that outlive the handler go on recording (Finish, tracer.go).
PayloadIsComplete == Exported => PayloadOps = atFinish

\* The buffer never holds more than MaxSpans children, however many operations
\* end at the same time, and no operation twice (addChildSpanWithID).
BufferBounded ==
    /\ Len(rawSpans) <= MaxSpans
    /\ \A i, j \in 1 .. Len(rawSpans) : rawSpans[i] = rawSpans[j] => i = j

\* The query count on the root covers the query spans under it: a trace never
\* shows more queries than it counts, though count and span have critical
\* sections of their own and Finish may come in between (record, dbwrap.go).
CountCoversQueries ==
    Exported => stamped >= Cardinality({i \in 1 .. Len(payload) : payload[i].op \in Queries})

\* An outbound HTTP span is charged to self_ns.http and exported with all its
\* attributes, or not at all, even when the call ends while Finish runs
\* (recordOutboundHTTP decorates it before it is published).
HTTPSpansWhole ==
    \A i \in 1 .. Len(payload) :
        payload[i].op \in HTTPCalls =>
            payload[i].span = "whole" /\ i \in DOMAIN rolledUp /\ rolledUp[i] = "http"

\* Whatever the operations of a request do while Finish runs, the process goes on.
HostSurvives == finishPC # "crashed"

\* Every started operation gets its lock and ends, even if Finish panicked with
\* st.mu held: the deferred Unlock releases it.  (Unless the process has ended.)
OperationsEnd ==
    \A o \in Operations : opPC[o] # "idle" ~> opPC[o] = "over" \/ finishPC = "crashed"
=============================================================================
