------------------------------ MODULE SelfTime ------------------------------
(***************************************************************************)
(* Where a request spent its time: the operations of a request read the    *)
(* clock when they begin and end, Finish reads it for the root, and        *)
(* attachSelfTime (tracer.go) sums the children up per category with       *)
(* UnionLength (intervals.go), so that overlapping ones count once.        *)
(* nowNs drops Go's monotonic reading: what is read is the wall clock,     *)
(* which may be set back or forward while the request runs.  A list of     *)
(* intervals is a function from the operations they belong to; in which    *)
(* order they ended does not matter, since UnionLength sorts them.         *)
(***************************************************************************)
EXTENDS Integers, FiniteSetsExt, Functions

CONSTANTS
    Operations,     \* the operations of the request
    MaxTime,        \* bound of the model: how long the request runs
    MaxJump         \* bound of the model: by how much the wall clock may be set

Categories == {"db", "http", "cache", "queue", "app"}

VARIABLES
    elapsed,    \* the time since the request began
    offset,     \* the wall clock reads elapsed + offset
    category,   \* the category of each operation
    opPC,       \* where each operation is
    span,       \* what its span holds of the clock
    rootSpan    \* the root span: whether it has ended, and when

timeVars == << elapsed, offset, category, opPC, span, rootSpan >>

nowNs == elapsed + offset

TimeInit ==
    /\ elapsed = 0
    /\ offset = 0
    /\ category \in [Operations -> Categories]
    /\ opPC = [o \in Operations |-> "idle"]
    /\ span = [o \in Operations |-> [Start |-> 0, End |-> 0]]
    /\ rootSpan = [ended |-> FALSE, End |-> 0]

-----------------------------------------------------------------------------
(* The request *)

Tick ==
    /\ ~rootSpan.ended /\ elapsed < MaxTime
    /\ elapsed' = elapsed + 1
    /\ UNCHANGED << offset, category, opPC, span, rootSpan >>

SetClock ==
    /\ ~rootSpan.ended /\ offset = 0
    /\ offset' \in -MaxJump .. MaxJump
    /\ UNCHANGED << elapsed, category, opPC, span, rootSpan >>

OpGoes(o, from, to) ==
    /\ ~rootSpan.ended
    /\ opPC[o] = from
    /\ opPC' = [opPC EXCEPT ![o] = to]
    /\ UNCHANGED << elapsed, offset, category, rootSpan >>

Begin(o) ==
    /\ OpGoes(o, "idle", "running")
    /\ span' = [span EXCEPT ![o].Start = nowNs]

\* The span is appended to rawSpans.
End(o) ==
    /\ OpGoes(o, "running", "ended")
    /\ span' = [span EXCEPT ![o].End = nowNs]

\* Finish reads the clock for the root.
EndRoot ==
    /\ ~rootSpan.ended
    /\ rootSpan' = [ended |-> TRUE, End |-> nowNs]
    /\ UNCHANGED << elapsed, offset, category, opPC, span >>

TimeNext == Tick \/ SetClock \/ (\E o \in Operations : Begin(o) \/ End(o)) \/ EndRoot

TimeSpec == TimeInit /\ [][TimeNext]_timeVars

-----------------------------------------------------------------------------
(* UnionLength *)

\* sort.Slice is not stable: intervals with equal starts come in any order.
Sortings(intervals) ==
    LET n == Cardinality(DOMAIN intervals)
    IN  {[i \in 1 .. n |-> intervals[p[i]]] : p \in
            {p \in Bijection(1 .. n, DOMAIN intervals) :
                \A i \in 1 .. n - 1 : intervals[p[i]].Start <= intervals[p[i + 1]].Start}}

\* A fault: an interval inside the current run ends the run early.
ExtendAlways(run, interval) ==
    IF interval.Start > run.End
    THEN [total |-> run.total + (run.End - run.Start), Start |-> interval.Start, End |-> interval.End]
    ELSE [run EXCEPT !.End = interval.End]

\* One turn of the loop: the run is banked if the next interval is disjoint from
\* it, and extended if the interval reaches beyond it.
Extend(run, interval) ==
    IF interval.Start > run.End
    THEN [total |-> run.total + (run.End - run.Start), Start |-> interval.Start, End |-> interval.End]
    ELSE [run EXCEPT !.End = IF interval.End > @ THEN interval.End ELSE @]

\* The run after each turn over n intervals, and what it amounts to at the end.
Runs(sorted, n) ==
    LET run[i \in 1 .. n] ==
            IF i = 1 THEN [total |-> 0, Start |-> sorted[1].Start, End |-> sorted[1].End]
            ELSE Extend(run[i - 1], sorted[i])
    IN  run

Sweep(sorted, n) ==
    LET last == Runs(sorted, n)[n]
    IN  last.total + (last.End - last.Start)

UnionLength(intervals) ==
    IF DOMAIN intervals = {} THEN 0
    ELSE Sweep(CHOOSE s \in Sortings(intervals) : TRUE, Cardinality(DOMAIN intervals))

-----------------------------------------------------------------------------
(* attachSelfTime *)

\* The children that have ended.
rawSpans == {o \in Operations : opPC[o] = "ended"}

OfCategory(c) == {o \in rawSpans : category[o] = c}

\* The window of a child; the root starts at 0.
Window(o) ==
    [Start |-> span[o].Start,
     End |-> IF span[o].End < span[o].Start THEN span[o].Start ELSE span[o].End]

Windows(spans) == [o \in spans |-> Window(o)]

RootDuration == IF rootSpan.End < 0 THEN 0 ELSE rootSpan.End

\* A fault: time no child covers is what the durations of the children leave.
ExclusiveOfSum ==
    LET covered == MapThenSumSet(LAMBDA o : Window(o).End - Window(o).Start, rawSpans)
    IN  IF RootDuration > covered THEN RootDuration - covered ELSE 0

\* The time of the root that no child covers, not negative.
AppExclusive ==
    LET covered == UnionLength(Windows(rawSpans))
    IN  IF RootDuration > covered THEN RootDuration - covered ELSE 0

Self(c) == UnionLength(Windows(OfCategory(c))) + (IF c = "app" THEN AppExclusive ELSE 0)

-----------------------------------------------------------------------------
(* Properties *)

TimeTypeOK ==
    /\ elapsed \in Nat /\ offset \in Int
    /\ category \in [Operations -> Categories]
    /\ opPC \in [Operations -> {"idle", "running", "ended"}]
    /\ span \in [Operations -> [Start : Int, End : Int]]
    /\ rootSpan \in [ended : BOOLEAN, End : Int]

\* The unit cells of time that some interval covers.
Covered(intervals) == UNION {intervals[o].Start .. intervals[o].End - 1 : o \in DOMAIN intervals}

\* UnionLength is the length covered by the intervals, none counted twice, in
\* whatever order equal starts are sorted, for each category and for all children
\* together (UnionLength, intervals.go).
UnionIsCoverage ==
    \A spans \in {rawSpans} \union {OfCategory(c) : c \in Categories} :
        spans # {} =>
            \A s \in Sortings(Windows(spans)) :
                Sweep(s, Cardinality(spans)) = Cardinality(Covered(Windows(spans)))

\* What the root's attributes say was spent, all categories together.
Total == Self("db") + Self("http") + Self("cache") + Self("queue") + Self("app")

\* The self times account for the whole request, and for no more of it than its
\* duration when no two categories overlap and no child sticks out of the root
\* (attachSelfTime, tracer.go).
SelfTimesAddUp ==
    rootSpan.ended =>
        /\ Total >= RootDuration
        /\ LET cells == [c \in Categories |-> Covered(Windows(OfCategory(c)))]
           IN  (/\ \A c, d \in Categories : c # d => cells[c] \intersect cells[d] = {}
                /\ \A c \in Categories : cells[c] \subseteq 0 .. RootDuration - 1)
               => Total = RootDuration
=============================================================================
