---------------------------- MODULE Propagation ----------------------------
(***************************************************************************)
(* Distributed traces: services that pass the W3C traceparent on, in HTTP  *)
(* requests (RoundTrip, outbound_http.go) and in queue messages (Enqueue,  *)
(* background.go), and continue the trace they are handed (startRoot,      *)
(* tracer.go).  A unit is one request or job, from startRoot to Finish.    *)
(*                                                                         *)
(* A header stays available once it has been sent: a queue may deliver a   *)
(* message again and a proxy may retry a request.  Ids are random in the   *)
(* code and are taken to be distinct: the i-th unit mints trace id i (0 is *)
(* the id of a caller outside) and span ids << i, 0 >>, << i, 1 >>, ...    *)
(***************************************************************************)
EXTENDS Integers, SequencesExt

CONSTANTS
    Services,   \* processes that use the SDK
    Disabled,   \* those without an export destination (Config.Enabled is false)
    Consumers,  \* those that run jobs (RunJob)
    MaxUnits,   \* bound of the model: units of work in all
    MaxHeaders, \* bound of the model: traceparent values sent in all
    MaxSpans    \* Config.MaxSpans

ASSUME ServicesAssumption == Disabled \subseteq Services /\ Consumers \subseteq Services
ASSUME MaxSpansAssumption == MaxSpans \in Nat

VARIABLES
    units,      \* the units of work started so far
    headers,    \* the traceparent values sent so far
    inProgress  \* the span ids of HTTP requests whose response is not there yet

traceVars == << units, headers, inProgress >>

NoHeader == [trace |-> -1, span |-> << -1, 0 >>, sampled |-> FALSE, via |-> "none"]

\* A browser or a foreign service may send a header of its own.
Outside == [trace : {0}, span : {<< 0, 0 >>}, sampled : BOOLEAN, via : {"http"}]

TraceInit ==
    /\ units = << >>
    /\ headers \in {{}} \union {{h} : h \in Outside}
    /\ inProgress = {}

-----------------------------------------------------------------------------
\* A new unit of the given trace.
Root(s, trace, parent, sampled) ==
    [service |-> s, trace |-> trace, parent |-> parent, sampled |-> sampled,
     minted |-> 0,          \* span ids minted for outbound calls
     rawSpans |-> << >>,    \* ids of the child spans recorded
     exported |-> << >>,    \* those Finish sent
     answered |-> {},       \* history: ids of the calls answered before Finish
     finished |-> FALSE]

\* A fault: the decision is taken anew when a trace is continued.
StartRootAnew(s, h) ==
    /\ Len(units) < MaxUnits
    /\ \E kept \in BOOLEAN :
           units' = Append(units, Root(s, IF h = NoHeader THEN Len(units) + 1 ELSE h.trace,
                                       h.span, s \notin Disabled /\ kept))

\* A valid header is continued with its sampled flag.  Without one, or with one
\* that ParseTraceparent refuses, the unit is the head of a new trace: the hash of
\* its random id falls under SampleRate or not.
StartRoot(s, h) ==
    /\ Len(units) < MaxUnits
    /\ \E kept \in BOOLEAN :
           /\ h # NoHeader => kept = h.sampled
           /\ units' = Append(units, Root(s, IF h = NoHeader THEN Len(units) + 1 ELSE h.trace,
                                          h.span, s \notin Disabled /\ kept))

\* Middleware: a disabled SDK hands the request on untouched.
Serve(s) ==
    /\ s \notin Disabled
    /\ \E h \in {NoHeader} \union {h \in headers : h.via = "http"} : StartRoot(s, h)
    /\ UNCHANGED << headers, inProgress >>

\* RunJob starts a root without asking whether the SDK is enabled.
RunJob(s) ==
    /\ s \in Consumers
    /\ \E h \in {NoHeader} \union {h \in headers : h.via = "queue"} : StartRoot(s, h)
    /\ UNCHANGED << headers, inProgress >>

\* The first n span ids of unit u.
SpanIds(u, n) == {<< u, k >> : k \in 1 .. n}

\* The header that names the next span id of unit u.
NextSpan(u) == << u, units[u].minted + 1 >>

Traceparent(u, via) ==
    [trace |-> units[u].trace, span |-> NextSpan(u), sampled |-> units[u].sampled, via |-> via]

\* An operation of unit u may still run when u is finished.
MayCall == Cardinality(headers) < MaxHeaders

\* RoundTrip: an enabled service sends the request with a traceparent.
RoundTrip(u) ==
    /\ MayCall
    /\ units[u].service \notin Disabled
    /\ headers' = headers \union {Traceparent(u, "http")}
    /\ inProgress' = inProgress \union {NextSpan(u)}
    /\ units' = [units EXCEPT ![u].minted = @ + 1]

\* Span `span` is recorded in unit u if it is sampled and there is room.
Recorded(u, span) ==
    IF units[u].sampled /\ Len(units[u].rawSpans) < MaxSpans
    THEN Append(units[u].rawSpans, span) ELSE units[u].rawSpans

\* A fault: the span gets an id of its own instead of the one in the header.
RecordUnderNewId(u) ==
    \E span \in inProgress :
        /\ span[1] = u
        /\ inProgress' = inProgress \ {span}
        /\ units' = [units EXCEPT ![u].rawSpans = Recorded(u, << u, MaxHeaders + span[2] >>)]
        /\ UNCHANGED headers

\* recordOutboundHTTP: the response is there.
RecordOutboundHTTP(u) ==
    \E span \in inProgress :
        /\ span[1] = u
        /\ inProgress' = inProgress \ {span}
        /\ units' = [units EXCEPT ![u].rawSpans = Recorded(u, span)]
        /\ UNCHANGED headers

\* Enqueue: the carrier gets a traceparent whenever the context has a unit, and
\* the span is recorded before the message is sent.
Enqueue(u) ==
    /\ MayCall
    /\ headers' = headers \union {Traceparent(u, "queue")}
    /\ units' = [units EXCEPT ![u].minted = @ + 1, ![u].rawSpans = Recorded(u, NextSpan(u))]
    /\ UNCHANGED inProgress

Finish(u) ==
    /\ ~units[u].finished
    /\ units' = [units EXCEPT
            ![u].finished = TRUE,
            ![u].exported = units[u].rawSpans,
            ![u].answered = SpanIds(u, units[u].minted) \ inProgress]
    /\ UNCHANGED << headers, inProgress >>

TraceNext ==
    \/ \E s \in Services : Serve(s) \/ RunJob(s)
    \/ \E u \in DOMAIN units : RoundTrip(u) \/ RecordOutboundHTTP(u) \/ Enqueue(u) \/ Finish(u)

TraceSpec == TraceInit /\ [][TraceNext]_traceVars

-----------------------------------------------------------------------------
\* The units of services that can export.
Traced == {u \in DOMAIN units : units[u].service \notin Disabled}

\* The traces with a job of a disabled service, which sends messages on with the
\* sampled flag cleared.
ThroughDisabled == {units[u].trace : u \in DOMAIN units \ Traced}

\* "All spans in a trace share the same fate" (Tracer.Start): either every enabled
\* service on a trace records its part or none does, however the trace travels
\* and however often a header is delivered (startRoot inherits the sampled flag);
\* unless a job of a disabled service is on the trace.
SampledTogether ==
    \A u, v \in Traced :
        units[u].trace = units[v].trace /\ units[u].trace \notin ThroughDisabled =>
            units[u].sampled = units[v].sampled

\* A request or message that was answered before Finish carries the id of a span
\* that is exported (README: "injects that exact span's W3C `traceparent`"), so
\* that the callee's root finds its parent in the trace; unless the buffer is full.
ParentsExported ==
    \A u \in Traced :
        units[u].finished /\ units[u].sampled =>
            \/ units[u].answered \subseteq ToSet(units[u].exported)
            \/ Len(units[u].exported) = MaxSpans

Unit == [service : Services, trace : Nat, parent : Int \X Nat, sampled : BOOLEAN, minted : Nat,
         rawSpans : Seq(Nat \X Nat), exported : Seq(Nat \X Nat), answered : SUBSET (Nat \X Nat),
         finished : BOOLEAN]

Header == [trace : Nat, span : Nat \X Nat, sampled : BOOLEAN, via : {"http", "queue"}]

TraceTypeOK ==
    /\ units \in Seq(Unit)
    /\ headers \subseteq Header
    /\ inProgress \subseteq Nat \X Nat
=============================================================================
