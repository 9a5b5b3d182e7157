# A verification of restlytics-go

TLA+ models of the concurrent and failure-handling parts of the Restlytics SDK for Go, checked with
TLC on small instances, and proofs of their central theorems for every value of the constants,
checked with TLAPS. The code is the reference: definitions carry the names of the code, and
`PROJECT.json` maps each one to its lines.

    tlc -config HTTPSafety.cfg MCHTTPTransport.tla     # a run
    tlapm HTTPTransportProofs.tla                      # a module's proofs

## The system

The SDK sits inside a host application. A middleware opens a *root span* for a request, job, command
or schedule; instrumentation of database calls, outbound HTTP and message sending adds *child spans*
to a buffer in the request's context; `Finish` rolls the times up and hands the trace to a
*transport*, which delivers it in the background. Other services continue a trace through the
`traceparent` header. Logs captured by the `slog` handler use the same transports.

| component (source) | state | operations | what makes it correct |
|---|---|---|---|
| delivery queue of `HTTPTransport` and `managedExporter` (transport.go) | `acceptMu`, `closed`, `pending`, the bounded channel, `inFlight`, four counters, `done`, `stopped` | `enqueue`, `run` | nothing accepted is lost or exported twice; order kept; `Send` never blocks; counters add up |
| HTTP transport | + `stopOnce` and one context per call | `Send`, `SendLogs`, `Flush`, `Shutdown`, `post` | `true` means what was accepted before is through; a deadline is kept; after a successful `Shutdown` nothing moves |
| managed exporter | + `closeOnce`, `closeOK`, `closeDone`, goroutines of the customer's hooks | the same, `callExporterHook`, `shutdownExporter` | hooks run after the drain, the shutdown hook once; concurrent `Shutdown`s agree; `true` only if the hooks succeeded |
| diagnostics (transport.go) | none | `Diagnostics`: eight loads, no lock | counts never go back; exact after `Shutdown` |
| request trace (tracer.go, span.go, dbwrap.go, outbound_http.go, background.go, gormr) | `requestState`: `mu`, `rawSpans`, `dbQueryCount`; each span's attribute map | `AddChildSpan`, `IncrementDBQueryCount`, `decorate`, `RoundTrip`, `Enqueue`, `Finish` | the payload is what was recorded, bounded, whole; no goroutine is stuck; the host survives |
| propagation and sampling (tracer.go, ids.go, outbound_http.go, background.go) | trace id, span ids and `sampled` of each unit; headers in flight | `startRoot`, `RoundTrip`, `Enqueue`, `RunJob`, `Finish` | all of a trace is recorded or nothing; parents exist |
| self-time rollup (intervals.go, tracer.go) | windows of the children | `UnionLength`, `attachSelfTime` | overlaps count once; self times account for the request |
| entry points (httpmiddleware.go, background.go, adapters/gin, echo, fiber) | root span, status writer | `Middleware`, `finishHTTP`, `RunJob`, `RunCommand`, `RunSchedule` | exported once; the host sees panics and errors; failures show |
| query instrumentation (dbwrap.go) | none of its own, beneath the pool and the retries of `database/sql` | the methods of the wrapped connector, connection and statement | the application and the driver cannot tell; the spans tell the outcome |
| preview transport (transport.go) | `mu`, two rings of reports | `Send`, `SendLogs` | never blocks the caller; reports are kept as written |
| slog capture (logs.go) | attributes and groups of a handler, in slices | `WithAttrs`, `WithGroup`, `Enabled`, `Handle` | handlers are immutable; the copy has what `next` gets; `next` is unaffected |
| SDK handle and configuration (restlytics.go, config.go) | the transports for traces and for logs | `Init`, `Flush`, `Shutdown`, `TransportDiagnostics` | signals go where the configuration says; lifecycle calls return |
| redaction, SQL normalization, OTLP encoding, ids | none that is shared | | sequential string and JSON handling |

They interact by calls (middleware → handler → instrumentation → `Finish` → `Send`), by shared
memory (the request's buffer, the queue and its atomics), by the context of a request and by
`traceparent` values between services. The hard behaviours: goroutines that outlive their handler;
`Send` against `Shutdown`; polling a counter while others raise it; deadlines that race results;
hooks, writers, exporters and handlers of the customer that fail, panic or hang; overlapping and
repeated `Shutdown`s; drivers with any set of optional interfaces; a transport that logs through
the handler that called it; a full channel and a full span buffer; redelivered messages; a wall clock that
is set. `PROJECT.json` lists each hazard at its line, with the properties that cover it.

## The modules

| module | models | how state and actions correspond |
|---|---|---|
| `DeliveryContract` | abstract: what an asynchronous transport promises | `Accept`, `Attempt`, `Shut`, `Release` over a log of batches and the number settled |
| `BatchQueue` | the core both transports have in common | one action per step another goroutine can observe; the mutex is merged with the check after `Lock` and the counter before `Unlock`; `pending`, the channel and `accepted` move in steps of their own, since worker, `Flush` and `Diagnostics` take no lock |
| `HTTPTransport` | `BatchQueue` + `Flush`, `Shutdown`, `post` | every member of `FlushCalls` and `ShutdownCalls` is one call; `callPC` is its place, `expired` its context |
| `ManagedExporter` | `BatchQueue` + `Flush`, `Shutdown`, hooks, `closeOnce` | a hook is a goroutine (`flushHook[c]`, `closeHook[c]`) that outlives the call that gave up on it; callers wait inside `Do` until the first one is through, whatever their own context |
| `SDKHandle` | composes `HTTPTransport` and `ManagedExporter` with `Init`, `Flush` and `Shutdown` of the handle | `kind` says which transport `Init` chose from `Configs` and `Environments`; both modules run over the same variables, and the fairness is stated here. A transport of the application, to which the handle forwards if it has the two methods, answers anything |
| `Diagnostics` | composes `HTTPTransport` with a health check | one action per load |
| `RequestTrace` | a request's buffer and `Finish` | an operation is one instrumented call; a section under `st.mu` is one action; `Finish` reads span by span, twice, holding `mu`; a span is `torn` while somebody writes its attributes without it |
| `Propagation` | services, units of work, headers | a header once sent can be delivered again; services that disable the SDK are included |
| `SelfTime` | `UnionLength`, `attachSelfTime` and the clock | the sort is any order of equal starts; the clock may be set once |
| `WorkUnit` | the seven entry points | `inFlight` is what the handler ended with, on its way to the caller of the entry point: it passes `recover`, `finish` (a deferred function or not), a transport that may panic, and the panic that is raised again, one action each |
| `DatabaseSQL` | external: what `database/sql` asks of a driver | one method of the driver per step; `stage` is what comes next, `asked` what was asked and answered |
| `TracedDriver` | dbwrap.go beneath `DatabaseSQL` | one action per method of the wrapper; `SQL` is `DatabaseSQL` with the wrapper's interfaces, `Bare` the same with the driver's own, which `Transparent` refers to |
| `PreviewTransport` | `Send`, `SendLogs` | the writer may panic with the mutex held |
| `SlogHandler` | the handler of logs.go, composed with `PreviewTransport` and the log transport | first handlers are derived, over slices that share arrays (`append` writes into spare cells); then records are handled by concurrent goroutines; `Reentrant` says that the log package writes through this handler |
| `LogAttributes` | `SlogHandler` + the attributes of an exported record | `recordAttributes` and the recursive `appendLogAttr`, beside what `next` gets (`Delegated`, from the history of the handler) |
| `MC…` | instances for TLC | symmetry sets, sample attributes |
| `…Proofs` | theorems about the module of that name; `HTTPTransportProofs` also has those about `Diagnostics`, `WorkUnitProofs` those about `SelfTime` and `Propagation`, and `SlogHandlerProofs` those about `PreviewTransport` | see *Proofs* |

`BatchQueue!Promise` is the refinement mapping: `open` is `configured /\ ~closed`, the log is the
order in which the channel took batches, a batch is settled when its export ends, and the transport
is released when the worker has exited. `Limit` is `Capacity + 1`, the channel and the worker's hand.

Faulty variants (comments "A fault: ...") stand before the operators they vary: a dropped guard, a
missing reset, a swapped order. They are no part of the model; each property of a passing run is
violated when the variant `PROJECT.json` names for it under "mutants" takes the operator's place.

## The runs

| run | instance | shows |
|---|---|---|
| `http_safety` | 3 Sends, channel of 1, a Flush and a Shutdown with a deadline, a Shutdown without | no loss, honest `true`, quiescence, every Send counted once, finality, `DeliveryContract` |
| `exporter_safety` | 2 Sends, a Flush, two Shutdowns, both hooks | hook contracts, agreement on one verdict, finality, `DeliveryContract` |
| `sdk_live` | 1200 configurations and environments; 2 Sends, channel of 1, Shutdowns with and without a deadline, both hooks, exports and hooks may hang | signals go where they should; `Send` and bounded calls return, but for `closeOnce.Do`; if exports and hooks end, batches are attempted and the patient Shutdown succeeds though the other one gave up |
| `diagnostics_reports` | 2 Sends, a Shutdown, 2 snapshots | monotonic; exact after Shutdown |
| `request_trace` | 2 queries, an outbound request, a message, room for 3 spans | payload complete, bounded, counted, HTTP spans whole, no goroutine stuck |
| `request_trace_crash` | 2 queries, an outbound request | **violated**: finding 1 |
| `propagation` | 3 services (one disabled), 3 units, 3 headers, room for 2 spans | sampled together; parents exported |
| `self_time` | 3 operations of any of the 5 categories, 3 time units, a clock set by one unit back or forward | union is coverage; self times add up |
| `work_unit` | 7 entry points, statuses 103, 200, 404, 500, a returned HTTP error with any of them, a transport that may panic | exported once, the host gets what the handler ended with, failures show, status reported, but for named cases |
| `sql_driver` | all 256 sets of optional interfaces; queries, prepared statements, transactions, pings | a wrapped driver takes the steps of a bare one, but for the five kinds of `Degrades`, one of them a connection that is pooled again without the driver's `Validator` being asked; spans tell the outcome |
| `sql_one_span` | the same | **violated**: finding 2 |
| `log_capture` | 4 handlers, 2 attributes and 2 groups to derive them with, records of up to 4 nested attributes with a limit of 2 and one name too long to be exported; then 2 records, a trace, a preview that keeps 1 | handlers immutable, exported copy as delegated, both destinations served, previews kept as written, calls return but in two cases |

**Why the bounds are enough.** A channel of one with three Sends fills, overflows and drains in one
behaviour, with one batch in the worker's hand, one queued and one refused. Two Shutdowns
are what it takes to race on `closed`, `stopOnce` and `closeOnce`, to repeat a call that gave up and
to disagree; two of one kind of caller are enough for each order of any pair. Three spans for four
operations make the cap bite, in every order of the operations. Three units are a chain of two hops,
a fan-out, or a redelivery; two spans for three calls make the buffer overflow.
Four handlers are a chain of three calls, or two handlers derived from one that has a cell to spare;
three attributes overflow a limit of two, and three levels a depth of one. A query meets as many bad
connections as `database/sql` bears. Two records and a trace contend for the preview's mutex and push a
report out of a ring of one. Three windows give every kind of overlap (disjoint, touching, nested, bridging)
within a category and across. A unit of work runs no loops, so two status writes exhaust it. The bounds on
data (`MaxUnits`, `MaxHeaders`, `MaxTime`, `MaxJump`, `MaxReports`, `MaxHandlers`, `Kept`,
`MaxWriteHeaders`) are constants of the modules. Symmetry is used for safety only. Deadlock is checked where
the module has an explicit terminal state (`Idle`); in `Propagation`, `SelfTime`, `WorkUnit`, `TracedDriver`
and `SlogHandler` a program that has done everything stops.

**Fairness.** A goroutine that can take a step takes one (WF on the steps of each Send, call,
operation and on `Finish`). When a call polls, its `select` meets `ctx.Done()` together with the
ticker again and again, and Go's select chooses among ready cases at random: SF on giving up. A
context with a deadline expires (WF on `Expire`). Nothing makes the application call anything (no
fairness on starting a Send, a call or an operation), with one exception: the middleware does call
`Finish`. The worker has no fairness in `LiveSpec` of `SDKHandle`, because an export may hang;
properties that need it say so as an implication: `WorkerFair => ...`, which the client's timeout and the
request context give for `HTTPTransport`, and `CallbacksEnd => ...`, which for a custom exporter is up to
the customer, whose callbacks are merely asked to honour their context. In `SlogHandler` weak fairness of
each goroutine's next step is all `CallsReturn` needs.

## Proofs

Each theorem holds for every value of the constants, under the named assumptions of the modules:
`Capacity \in Nat \ {0}` and `Nobody \notin Sends`; a call is a Flush or a Shutdown and not both;
operations of different kinds are distinct; `MaxSpans`, `MaxReports` and the previews' `Kept` are naturals,
and `Nobody` is no preview call; status codes are 100 to 599. `Propagation` needs `MaxSpans` alone,
`SelfTime` nothing at all. Sets of Sends, calls, records, operations and services may be infinite. The pattern is
the same throughout: an inductive invariant, one lemma per action (or group of actions that touch the same
state), and the promised properties as consequences. Where the invariant says something of the component it
stands in the module and a run checks it too (`IInv` of the transports and of the request trace); what only
the induction needs stands beside the proof.

| module | theorems |
|---|---|
| `HTTPTransportProofs` | `Invariance`, `TypeCorrectness`; `NothingLost`; `TrueIsHonest`; `Quiescence`; `Accounting` (`EverySendCounted`); `Finality`; `Implementation` (of `DeliveryContract`). Of `Diagnostics`: `ReaderInvariance`, `Monotonicity`, `ExactAfterShutdown` |
| `ManagedExporterProofs` | `Invariance`; `ShutdownHookOnce`; `HonestAboutHooks`; `Agreement`; `Finality`; `Implementation` |
| `SDKHandleProofs` | `Destinations`; `ForwardsToExporter` and `ForwardsToHTTPTransport`: the handle implements the transport that `Init` selected |
| `RequestTraceProofs` | `Invariance`; `Bounded`; `Completeness`; `OutboundSpansWhole`; `QueriesCounted` |
| `TracedDriverProofs` | `Invariance`; `OutcomeTold` (`SpansTellOutcome`); `WrappingIsTransparent` (`Transparent`) |
| `WorkUnitProofs` | `Invariance`; `OneExport`, `OutcomePassedOn`, `FailureExported`, `StatusExported`. Of `SelfTime`: `TimeInvariance`; `SweepIsCoverage` (`UnionIsCoverage`); `SelfTimesAccount` (`SelfTimesAddUp`). Of `Propagation`: `PropagationInvariance`; `OneFate` (`SampledTogether`); `ParentsFound` (`ParentsExported`) |
| `SlogHandlerProofs` | `DerivationInvariance`; `Immutability` (`HandlersImmutable`); `HandleInvariance`; `BothDone` (`HandleDoesBoth`). Of `PreviewTransport`: `PreviewInvariance`; `PreviewsKept` (`KeptAsWritten`) |

*The queue* (`BatchQueueProofs`: one lemma per step, and lemmas on drained, resting and outstanding
batches, used for both transports). `QueueInv` says who holds the mutex, that nobody holds it once
`closed` is set (`ClosedInv`), that `pending` equals the queued batches plus the worker's and the
sender's share (`PendingAccounts`), that `done` implies closed and nothing pending (`DoneInv`), and that
the acceptance log is exactly what was attempted, what the worker holds and what is queued, in that order
(`FifoOnce`). None of the promised properties is inductive alone: `NoLostBatch` needs `DoneInv` and
`ClosedInv` (the worker may take `done` with a batch in the channel), and those need `PendingAccounts`
through every step of a Send. `CallInv` relates a call's place to the queue: a Shutdown past its `Flush`
has seen the transport closed and drained, and both stay. `EverySendCounted` is inductive beside it: the
set of Sends that have returned grows by one element with the step that completes the count.

*managedExporter* adds `OnceInv`, on who is inside `closeOnce.Do` and whose hook runs, and `VerdictInv`:
every true Shutdown read the verdict the Once left, and a false one had a reason of its own or read that
verdict too. `FlushHookAfterDrain` turned out not to be inductive without knowing that a call that has
not begun has no hook running, which `CallPathInv` now says.

*Diagnostics.* The reader's invariant compares what has been loaded so far with the transport as it is
(`NotBehind`, `Same`) and with the report before (`Follows`), by the number of fields loaded. That no step
of the transport goes behind a load is the one lemma about the transport it needs; that a stopped
transport stands still is the other.

*The handle.* `ChoiceInv` says that what `Init` selected came from a configuration and stays. With it,
every step of a handle with an exporter is a step of `ManagedExporter` (an exporter always takes the logs
too, so that no batch goes elsewhere), and every step of one that posts both signals is a step of
`HTTPTransport`: what is proved of the two transports holds of the handle.

*Request trace.* `TraceInv`: whoever appends to `rawSpans` needs the lock, which `Finish` holds from
`atFinish' = rawSpans` until the payload is sent, so the positions read are those of `atFinish`.
`HTTPInv`: an outbound span in the buffer is whole, since `RoundTrip` publishes it decorated, and nobody
writes it again. `CountInv`: the counter equals the number of queries past it, and each query position of
the buffer belongs to another one of these (an injection from positions to queries), so that the count
`Finish` stamps covers what it sends.

*Propagation.* Neither property is inductive: a header still on the way may contradict a unit later.
`FateInv` therefore ranges over units and headers alike: all decisions about a trace agree unless a job of
a disabled service is on it; `TracesInv` makes the trace of a new head fresh. `SpansInv` says that of a
sampled unit with room every minted span is recorded or in progress.

*Driver wrapper.* `FailuresSoFar`: until a call is over its spans are failures. `Transparent` is proved
action by action; only `BeginTx` needs the invariant (`StageInv`: which calls reach it). Both sides record
in `asked` what the driver was asked and answered, `IsValid` too: where the base has a `Validator`, a step that
puts the connection back without asking is one of `Degrades`, and of the others `SettlesAlike` and `AsksAlike`
say that a method answered, and the history, are the same on both sides. The resets and fallbacks a bare
driver may also choose make it the more liberal of the two, so the simulation is one way.

*Entry points.* The properties speak of the end of a unit, so the invariant says what each place on the way
there keeps of them. `Held`: what the handler ended with is in flight, or it is a panic and recovered, from
`EndHandler` to the last step. `LifeInv`: that, and whether the unit has been exported, follow from the place and
the root. `ReportInv`: once the root is marked it tells the failure (`FailureTold`) and the status
(`StatusTold`); `ToldStays` says that later steps undo neither. `ResponseInv` relates the status kept to the one
sent, but for informational ones. The lemma `FailureSeen` says that each failure, entry point by entry
point, is one its switch recognises after `recover`, `StatusSeenTold` that the status it takes is the client's.

*Self time.* The sweep of `UnionLength` is a loop, and the library's induction theorems cannot be applied; the
induction is made with sets instead. A set of numbers that contains 0, and with each number of a range the
next one, contains the range (`Reaches`, from the least element of its complement, `WFMin`). So the recursive
function of the turns exists (`TurnsExist`), each turn keeps `Measures` (the cells seen so far are counted by
`total` and the current run, and none lies beyond the run), and every finite set of intervals has an order by
starts (`OrderExists`). `UnionLengthIsCoverage` follows for every list and every sorting of it, and with the
cardinality of unions the two properties. What the model knows of the clock is not needed: they hold
whatever was read, since `Window` never ends before it begins.

*slog capture.* `DerivationInv`: every slice of a handler shows what its own chain of calls gave it. That is
inductive because `clone` copies before `append` writes: the array with the spare cell that `Push` fills
belongs to the clone alone (`Appended`: the other slices of the memory show what they did). `HandleInv` says of each
record, by its place in `Handle`, what was exported and what was returned. `PreviewInv`: who is between `Lock` and
`Unlock` holds `mu`; the two rings are the last `Kept` of what was written plus the report of the
holder that has not written yet (`Written`). That a ring cut at every turn is the end of the whole list is
the lemma about `Latest`.

**Only model-checked:** the six liveness properties (`SendReturns`, `BoundedReturns`, `PatientSucceeds`,
`EachAttempted`, `OperationsEnd`, `CallsReturn`), which are beyond the prover, and `ExportedAsDelegated`, whose
`appendLogAttr` recurses over nested groups with an operator; that is why it stands in `LogAttributes`, apart
from what is proved of `SlogHandler`. Of the invariants and action properties of the passing runs it is
the only one no theorem states. `HostSurvives` and `OneSpanPerQuery` do not hold (findings). What the handle
inherits from its transports (`Finality`, `Agreement` and the rest) follows from the `ForwardsTo` theorems and
the transports' own, and is not stated again.

## Findings

1. **A query that ends while `Finish` runs can end the process** (span.go:131 against dbwrap.go:114):
   the category is read from a map that `decorate` writes without the lock; the runtime's "concurrent
   map read and map write" is not a panic and is not recovered. A query of a goroutine that outlives
   its handler is enough.
2. **A query that a driver skips is counted and shown twice** (dbwrap.go:103): `record` takes
   `driver.ErrSkip`, with which a fast path sends `database/sql` to a prepared statement, for the end of
   the query and records a span with an error; the statement records the same query again.

## Observations

Divergences read off the code or met by TLC while modelling; the properties exempt the case or are not
stated.

- A bounded `Shutdown` can wait without bound (transport.go:235): `closeOnce.Do` holds the second caller
  until the first one's hook, under the first one's context, is through. `BoundedReturns` exempts it and
  shows that this is the only way; README.md:143 of the SDK says that the two calls are bounded.
- A writer that panics locks the preview for ever (transport.go:652): `Unlock` is not deferred, and the
  panic is swallowed. `CallsReturn` exempts it (`Poisoned`).
- With `slog.SetDefault` on this handler, INFO records captured and the preview or the log transport, the
  transport's own `log.Printf` comes back to it and waits for a mutex its caller holds (transport.go:650,
  :556). `CallsReturn` exempts it (`Reentrant`).
- A group opened with `WithGroup` is prefixed to the attributes added before it too when a record is exported
  (logs.go:223), while `next` keeps them outside. `ExportedAsDelegated` exempts it (`AttrBeforeGroup`).
- Where a wrapped driver behaves otherwise than a bare one (`Degrades`): a statement without
  `StmtQueryContext` answers `ErrSkip` to the application (dbwrap.go:245); the options of a transaction are
  dropped if the driver has no `BeginTx` (dbwrap.go:173); the older `Queryer` is passed over; a
  `SessionResetter` is hidden, as is a `Validator`.
- An SDK whose only destination is a transport for logs says it is enabled and drops its traces (config.go:155).
- `Diagnostics` is called an "atomic delivery-health snapshot" (transport.go:406) and is eight loads: a
  snapshot can show a batch delivered that it does not show accepted. `ReportsMonotonic` and
  `ShutdownReportExact` say what does hold.
- A query span can be exported before it is decorated (dbwrap.go:113) and is then charged to the
  application; tracer.go:207-208 says that after `Finish` the span is frozen.
- A disabled service that runs a job passes its cleared sampling flag on (background.go:145), while
  `outboundContext` asks whether the SDK is enabled (tracer.go:128): the consumers of a trace its head
  keeps record nothing. `SampledTogether` exempts such traces.
- `nowNs` drops the monotonic reading (tracer.go:335) that tracer.go:19-21 counts on. `SelfTime` lets the
  clock be set: the rollup still accounts for the request as measured.
- A handler that panics, or calls `runtime.Goexit`, under Echo or Fiber leaves no trace (echo.go:34-36,
  fiber.go:38-40: `finish` is not deferred). `ExportedOnce` exempts it (`Lost`). `HostSeesOutcome` holds all the same.
- Gin exports a panic, and Fiber a handler's error, as OK if no failing status was written yet: `FailureShows`
  exempts the two (`Overlooked`). A Goexit is nowhere taken for a failure: `recover` returns nil.
- An Echo handler that has answered and then returns an `echo.HTTPError` is exported with the code of the error in
  place of the status the client got (echo.go:60-61): a 500 that was written and a 404 that is returned read as
  404, OK. `FailureShows` and `StatusReported` exempt it (`Contradicted`).
- A transport of the application that has `Flush` and `Shutdown` is called by the handle as it is
  (restlytics.go:41): its panic is recovered to false, but nothing bounds a call of it that hangs.
- A 1xx response fixes the status that is reported (httpmiddleware.go:103): 103 and then 500 reads as 103,
  OK. `StatusReported` and `FailureShows` exempt it (`Informed`).
- `finishHTTP` overwrites what `SetRoute` stored on the root with `/*` (httpmiddleware.go:62), which the
  README recommends for net/http.

## What is not modelled

Formatting and parsing (JSON, OTLP, hex ids, `traceparent`: valid or not), redaction, SQL normalization,
the numbers, flags and path patterns of the configuration: sequential string handling over unbounded data,
which unit tests reach. A sample rate of zero that is set
on purpose reads as not set (config.go:107). The GORM plugin does what `record` does, so that a query of
`RequestTrace` stands for its callback too; the order in which GORM runs callbacks is GORM's. The optional
interfaces that convert arguments (`NamedValueChecker`, `ColumnConverter`), which the wrapper hides too, and cancelled contexts of `database/sql`
are left out. Trace ids are taken to be distinct. An `Enqueue` that waits for the request's lock has not begun in
`RequestTrace`, so that `OperationsEnd` speaks of the other operations until it has the lock. `runtime.Goexit` in an
exporter's callback is left out: the `Exporter` contract speaks of errors and panics.

## Plan

Done: the delivery core, both lifecycles and the handle over them, diagnostics, the request trace,
propagation, self time, entry points, the driver wrapper, slog capture, the preview; and the proofs
above. What could follow:

1. `LogAttributes`: the recursion as a fold over a flattened record, which could be reasoned about.
2. The GORM plugin's callbacks, in the order GORM runs them, as a module beside `TracedDriver`.
3. The deadlines of `Flush` and `Shutdown` against more than one retrying caller on larger instances.
