---------------------------- MODULE SlogHandler ----------------------------
(***************************************************************************)
(* The slog handler (logs.go) over the handler of the application.  First  *)
(* the application derives handlers with WithAttrs and WithGroup; what     *)
(* each holds is in slices, which may share an array.  Then it logs, from  *)
(* several goroutines, with one of them (StartLogging forgets what the     *)
(* handlers hold, which Handle does not look at): a record is captured,    *)
(* sent through a transport, and given to the next handler.  The preview   *)
(* and the log transport write with log.Printf in the caller's goroutine;  *)
(* where slog.SetDefault has sent the output of the log package to this    *)
(* handler, that comes back to it as a record of level Info.  What the     *)
(* exported copy of a record carries is in LogAttributes.                  *)
(***************************************************************************)
EXTENDS Integers, Sequences

CONSTANTS
    MaxHandlers,    \* bound of the model: handlers the application derives
    Given,          \* attributes given to WithAttrs
    Names,          \* names given to WithGroup
    Records,        \* the records logged
    Traces, Kept, Nobody    \* as in PreviewTransport

ASSUME PreviewAssumption == Kept \in Nat /\ Nobody \notin Records \union Traces

VARIABLES
    arrays,     \* the arrays behind the slices of the handlers, with unused cells
    handlers,   \* h.attrs and h.groups of each handler
    derived,    \* history: the groups opened for each handler, and the attributes
                \* added, each with how many groups were open by then
    setup,      \* how the SDK and the application are set up
    entry,      \* level and context of each record
    pc,         \* where Handle is with each record
    exported,   \* history: how each record was given to SendLogs
    result,     \* what Handle returned for each record
    mu, Reports, LogReports, written, preview   \* as in PreviewTransport, preview for its pc

derivation == << arrays, handlers, derived >>
previewVars == << mu, Reports, LogReports, written, preview >>
vars == << derivation, setup, entry, pc, exported, result, previewVars >>

Preview == INSTANCE PreviewTransport WITH Logs <- Records, pc <- preview

-----------------------------------------------------------------------------
(* Slices *)

Nil == [array |-> 1, len |-> 0]

Contents(mem, slice) == SubSeq(mem[slice.array], 1, slice.len)

\* A new array for some values, which may have a cell to spare.
Allocate(mem, values, spare) ==
    [mem |-> Append(mem, values \o spare),
     slice |-> [array |-> Len(mem) + 1, len |-> Len(values)]]

Spares == {<< >>, << "unused" >>}

\* append writes into the array if there is room, and else into a new one.
Push(mem, slice, value, spare) ==
    IF slice.len < Len(mem[slice.array])
    THEN [mem |-> [mem EXCEPT ![slice.array][slice.len + 1] = value],
          slice |-> [slice EXCEPT !.len = @ + 1]]
    ELSE Allocate(mem, Append(Contents(mem, slice), value), spare)

\* append([]T(nil), ...): nothing is copied from an empty slice.
Copy(mem, slice, spare) ==
    IF slice.len = 0 THEN [mem |-> mem, slice |-> Nil]
    ELSE Allocate(mem, Contents(mem, slice), spare)

-----------------------------------------------------------------------------
(* Deriving handlers *)

\* A fault: the copy of the struct shares the arrays.
CloneShallow(h, spare) ==
    [mem |-> arrays, attrs |-> handlers[h].attrs, groups |-> handlers[h].groups]

clone(h, spare) ==
    LET a == Copy(arrays, handlers[h].attrs, spare)
        g == Copy(a.mem, handlers[h].groups, spare)
    IN  [mem |-> g.mem, attrs |-> a.slice, groups |-> g.slice]

Derives(history) ==
    /\ setup = << >> /\ Len(handlers) < MaxHandlers
    /\ derived' = Append(derived, history)
    /\ UNCHANGED << setup, entry, pc, exported, result, previewVars >>

WithAttrs(h, attr) ==
    /\ Derives([derived[h] EXCEPT !.attrs =
                   Append(@, [attr |-> attr, under |-> Len(derived[h].groups)])])
    /\ \E spare \in Spares :
          LET c == clone(h, spare)
              p == Push(c.mem, c.attrs, attr, spare)
          IN  /\ arrays' = p.mem
              /\ handlers' = Append(handlers, [attrs |-> p.slice, groups |-> c.groups])

\* The name "" is passed by, without a handler of its own.
WithGroup(h, name) ==
    /\ Derives([derived[h] EXCEPT !.groups = Append(@, name)])
    /\ \E spare \in Spares :
          LET c == clone(h, spare)
              p == Push(c.mem, c.groups, name, spare)
          IN  /\ arrays' = p.mem
              /\ handlers' = Append(handlers, [attrs |-> c.attrs, groups |-> p.slice])

-----------------------------------------------------------------------------
(* Logging *)

\* slog levels and the severities of the wire format.
SlogSeverity(level) ==
    CASE level < 0 -> 5 [] level \in 0 .. 3 -> 9 [] level \in 4 .. 7 -> 13
      [] level \in 8 .. 11 -> 17 [] level \in 12 .. 15 -> 18 [] OTHER -> 21

Info == 0

Levels == {Info, 4}

\* LogsMinSeverity is in 1 .. 24 and WARN unless it is set; wants is the least
\* level the next handler is enabled for, "queue" any transport that hands over to
\* a queue or does nothing, "broken" one of the application that panics.
Setups ==
    [enabled : BOOLEAN, minSeverity : {9, 13}, wants : {Info, 99}, bridged : BOOLEAN,
     transport : {"queue", "broken", "preview", "log"}]

Captures(level) == setup.enabled /\ SlogSeverity(level) >= setup.minSeverity

Enabled(level) == Captures(level) \/ level >= setup.wants

\* What log.Printf writes would be captured in turn.
Reentrant == setup # << >> /\ setup.bridged /\ Captures(Info)

\* Init (restlytics.go) has made the transports, NewSlogHandler the handler.
StartLogging ==
    /\ setup = << >>
    /\ setup' \in Setups
    /\ arrays' = << << >> >> /\ handlers' = << >> /\ derived' = << >>
    /\ UNCHANGED << entry, pc, exported, result, previewVars >>

Goes(r, from, to) ==
    /\ pc[r] = from
    /\ pc' = [pc EXCEPT ![r] = to]

\* The ids of the request of the context, with its sampling decision as the flag.
Correlation(context) ==
    CASE context = "none" -> "no ids" [] context = "sampled" -> "flags 01" [] OTHER -> "flags 00"

\* slog asks Enabled, and Handle goes on to send what it captures.
Handle(r, level, context) ==
    /\ setup # << >>
    /\ Goes(r, "idle", IF ~Enabled(level) THEN "returned"
                       ELSE IF Captures(level) THEN "sending" ELSE "delegating")
    /\ entry' = [entry EXCEPT ![r] = [level |-> level, context |-> context]]
    /\ exported' = IF Captures(level)
                   THEN [exported EXCEPT ![r] = Correlation(context)] ELSE exported
    /\ UNCHANGED << derivation, setup, result, previewVars >>

\* A fault: captureSafely does not recover.
SendLogsUnsafely(r) ==
    /\ Goes(r, "sending", IF setup.transport = "broken" THEN "returned" ELSE "delegating")
    /\ \/ setup.transport \in {"queue", "broken"}
       \/ setup.transport = "log" /\ ~Reentrant
       \/ setup.transport = "preview" /\ Preview!Over(r)
    /\ UNCHANGED << derivation, setup, entry, exported, result, previewVars >>

\* SendLogs returned, or panicked and captureSafely recovered.  The log transport
\* waits for ever for the mutex of the log package if it is called from within it.
SendLogs(r) ==
    /\ Goes(r, "sending", "delegating")
    /\ \/ setup.transport \in {"queue", "broken"}
       \/ setup.transport = "log" /\ ~Reentrant
       \/ setup.transport = "preview" /\ Preview!Over(r)
    /\ UNCHANGED << derivation, setup, entry, exported, result, previewVars >>

\* The next handler, if it is enabled for the level, has the last word.
Delegate(r) ==
    /\ Goes(r, "delegating", "returned")
    /\ \E answer \in IF entry[r].level >= setup.wants THEN {"ok", "error", "panic"} ELSE {"not asked"} :
          result' = [result EXCEPT ![r] = answer]
    /\ UNCHANGED << derivation, setup, entry, exported, previewVars >>

\* The preview transport at work for a request or for a record.  What it writes
\* while it holds its mutex must not come back to it.
PreviewBuild(c) ==
    /\ setup # << >> /\ setup.transport = "preview"
    /\ c \in Records => pc[c] = "sending"
    /\ Preview!Build(c)

PreviewStep(c) ==
    \/ Preview!Lock(c) \/ Preview!WritePanics(c) \/ Preview!Unlock(c)
    \/ ~Reentrant /\ Preview!Write(c)

UnchangedByPreview == UNCHANGED << derivation, setup, entry, pc, exported, result >>

Step(r) == SendLogs(r) \/ Delegate(r)

PreviewSteps(c) == PreviewStep(c) /\ UnchangedByPreview

PreviewBuilds(c) == PreviewBuild(c) /\ UnchangedByPreview

Init ==
    /\ arrays = << << >> >>
    /\ handlers = << [attrs |-> Nil, groups |-> Nil] >>
    /\ derived = << [attrs |-> << >>, groups |-> << >>] >>
    /\ setup = << >>
    /\ entry = [r \in Records |-> << >>]
    /\ pc = [r \in Records |-> "idle"]
    /\ exported = [r \in Records |-> "none"]
    /\ result = [r \in Records |-> "none"]
    /\ Preview!Init

Next ==
    \/ \E h \in DOMAIN handlers : \/ \E a \in Given : WithAttrs(h, a)
                                  \/ \E n \in Names : WithGroup(h, n)
    \/ StartLogging
    \/ \E r \in Records :
          \/ \E level \in Levels, context \in {"none", "sampled", "unsampled"} : Handle(r, level, context)
          \/ Step(r)
    \/ \E c \in Records \union Traces : PreviewBuilds(c) \/ PreviewSteps(c)

\* A goroutine that can take its next step takes it.
Spec ==
    /\ Init /\ [][Next]_vars
    /\ \A r \in Records : WF_vars(Step(r)) /\ WF_vars(PreviewBuilds(r))
    /\ \A c \in Records \union Traces : WF_vars(PreviewSteps(c))
-----------------------------------------------------------------------------
(* Properties *)

\* Deriving a handler changes no other one, whatever arrays they grew from: each
\* holds what its own chain of WithAttrs and WithGroup gave it ("an immutable handler
\* clone as required by slog.Handler", WithAttrs, WithGroup, clone).
HandlersImmutable ==
    \A h \in DOMAIN handlers :
        /\ Contents(arrays, handlers[h].attrs) =
              [i \in DOMAIN derived[h].attrs |-> derived[h].attrs[i].attr]
        /\ Contents(arrays, handlers[h].groups) = derived[h].groups

\* Whatever the transport does, a transport that panics or waits included, a record
\* for which Handle returned was exported if it qualifies, in an unsampled request
\* too and with its ids, and was given to the next handler if that wants it, whose
\* answer is that of Handle ("an error from next remains next's").
HandleDoesBoth ==
    \A r \in Records : pc[r] = "returned" =>
        LET e == entry[r]
        IN  /\ exported[r] = (IF Captures(e.level) THEN Correlation(e.context) ELSE "none")
            /\ result[r] \in (IF e.level >= setup.wants THEN {"ok", "error", "panic"}
                              ELSE {"not asked", "none"})

KeptAsWritten == Preview!KeptAsWritten

\* A record that is captured and a trace that is previewed return to the application
\* ("the host app is never blocked", README.md), unless what the transport writes
\* comes back to it through the log package, or a writer panicked with the mutex
\* held (SendLogs, Send of the transports, transport.go).
CallsReturn ==
    /\ \A r \in Records : pc[r] = "sending" ~> (pc[r] = "returned" \/ Reentrant \/ Preview!Poisoned)
    /\ \A t \in Traces : preview[t] = "lock" ~> (Preview!Over(t) \/ Reentrant \/ Preview!Poisoned)
=============================================================================
