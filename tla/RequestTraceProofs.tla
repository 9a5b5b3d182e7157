------------------------- MODULE RequestTraceProofs -------------------------
(***************************************************************************)
(* For every number of operations and every MaxSpans: the inductive        *)
(* invariant of RequestTrace, and from it that the child buffer keeps to   *)
(* its bound, that an exported payload is complete, that it shows outbound *)
(* HTTP spans whole, and that the root counts the queries it shows.        *)
(***************************************************************************)
EXTENDS RequestTrace, TLAPS, SequenceTheorems, FiniteSetTheorems

\* The program counters of an operation that has not recorded its span.
Before == {"idle", "count", "add", "response"}

\* The initial states satisfy the invariant.
LEMMA InitTraceInv == Init => TraceInv
BY MaxSpansAssumption DEF Init, TraceInv, TypeOK, BufferInv, LockInv, OpStates, SpanStates

\* A step of an operation that leaves the buffer alone, and does not take the
\* operation back to where its span is not recorded, keeps the invariant.
LEMMA OperationKeeps ==
    ASSUME TraceInv, NEW o \in Operations, NEW from \in OpStates, NEW to \in OpStates,
           OpGoes(o, from, to), from \notin Before => to \notin Before,
           UNCHANGED << requestVars, rawSpans >>,
           span' \in [Operations -> SpanStates], dbQueryCount' \in Nat
    PROVE  TraceInv'
<1>1. TypeOK'
  BY DEF TraceInv, TypeOK, OpGoes, requestVars
<1>2. BufferInv'
  BY DEF TraceInv, TypeOK, BufferInv, OpGoes, Before
<1>3. LockInv'
  BY DEF TraceInv, LockInv, requestVars
<1> QED
  BY <1>1, <1>2, <1>3 DEF TraceInv

\* AddSpan keeps the invariant: it needs the lock that Finish holds while it
\* reads, and there is room and no span of the operation when it adds one.
LEMMA AddSpanKeeps ==
    ASSUME TraceInv, NEW o \in Operations, NEW from \in Before,
           NEW to \in OpStates \ Before, NEW full \in OpStates \ Before, NEW what \in SpanStates,
           AddSpan(o, from, to, what, full), UNCHANGED << requestVars, dbQueryCount >>
    PROVE  TraceInv'
<1>1. CASE sampled /\ Len(rawSpans) < MaxSpans
  <2>0. /\ rawSpans \in Seq(Operations) /\ MaxSpans \in Nat
        /\ rawSpans' = Append(rawSpans, o)
        /\ span' = [span EXCEPT ![o] = what]
        /\ opPC' = [opPC EXCEPT ![o] = to]
        /\ opPC[o] = from
        /\ finishPC \notin {"rollup", "reading"}
    BY <1>1, MaxSpansAssumption DEF AddSpan, TraceInv, TypeOK, Becomes, OpGoes, Unlocked
  <2>1. TypeOK'
    BY <2>0 DEF TraceInv, TypeOK, requestVars
  <2>2. \A i \in 1 .. Len(rawSpans) : rawSpans[i] # o
    BY <2>0 DEF TraceInv, BufferInv, Before
  <2>3. /\ Len(rawSpans') = Len(rawSpans) + 1
        /\ \A i \in 1 .. Len(rawSpans) : rawSpans'[i] = rawSpans[i]
        /\ rawSpans'[Len(rawSpans) + 1] = o
    BY <2>0
  <2>4. BufferInv'
    <3>1. Len(rawSpans') <= MaxSpans
      BY <1>1, <2>0, <2>3
    <3>2. ASSUME NEW i \in 1 .. Len(rawSpans')
          PROVE  opPC'[rawSpans'[i]] \notin Before
      <4>1. CASE i \in 1 .. Len(rawSpans)
        <5>1. rawSpans[i] \in Operations /\ opPC[rawSpans[i]] \notin Before
          BY <4>1, <2>0 DEF TraceInv, BufferInv, Before
        <5> QED
          BY <4>1, <5>1, <2>0, <2>2, <2>3 DEF TraceInv, TypeOK
      <4>2. CASE i = Len(rawSpans) + 1
        BY <4>2, <2>0, <2>3 DEF TraceInv, TypeOK
      <4> QED
        BY <4>1, <4>2, <2>0, <2>3
    <3>3. ASSUME NEW i \in 1 .. Len(rawSpans'), NEW j \in 1 .. Len(rawSpans'),
                 rawSpans'[i] = rawSpans'[j]
          PROVE  i = j
      BY <2>0, <2>2, <2>3, <3>3 DEF TraceInv, BufferInv
    <3> QED
      BY <3>1, <3>2, <3>3 DEF BufferInv, Before
  <2>5. LockInv'
    BY <2>0 DEF TraceInv, LockInv, requestVars
  <2> QED
    BY <2>1, <2>4, <2>5 DEF TraceInv
<1>2. CASE ~(sampled /\ Len(rawSpans) < MaxSpans)
  <2>1. OpGoes(o, from, full) /\ UNCHANGED << rawSpans, span >>
    BY <1>2 DEF AddSpan
  <2>2. from \in OpStates /\ full \in OpStates /\ span' \in [Operations -> SpanStates] /\ dbQueryCount' \in Nat
    BY <2>1 DEF TraceInv, TypeOK, Before, OpStates
  <2> QED
    BY <2>1, <2>2, OperationKeeps
<1> QED
  BY <1>1, <1>2

\* The steps of one operation.
LEMMA StartOrOperateKeeps ==
    ASSUME TraceInv, NEW o \in Operations, Start(o) \/ Operate(o)
    PROVE  TraceInv'
<1> USE DEF OpStates, Before, SpanStates
<1>0. dbQueryCount \in Nat /\ span \in [Operations -> SpanStates]
  BY DEF TraceInv, TypeOK
<1>1. CASE Query(o)
  BY <1>0, <1>1, OperationKeeps DEF Query
<1>2. CASE IncrementDBQueryCount(o)
  <2>1. OpGoes(o, "count", "add") /\ dbQueryCount' \in Nat /\ UNCHANGED << requestVars, rawSpans, span >>
    BY <1>0, <1>2 DEF IncrementDBQueryCount
  <2> QED
    BY <1>0, <2>1, OperationKeeps
<1>3. CASE AddChildSpan(o)
  BY <1>3, AddSpanKeeps DEF AddChildSpan
<1>4. CASE Decorate(o)
  <2>1. span' \in [Operations -> SpanStates]
    BY <1>0, <1>4 DEF Decorate, Becomes
  <2> QED
    BY <1>0, <1>4, <2>1, OperationKeeps DEF Decorate
<1>5. CASE Decorated(o)
  <2>1. span' \in [Operations -> SpanStates]
    BY <1>0, <1>5 DEF Decorated, Becomes
  <2> QED
    BY <1>0, <1>5, <2>1, OperationKeeps DEF Decorated
<1>6. CASE RoundTrip(o)
  BY <1>0, <1>6, OperationKeeps DEF RoundTrip
<1>7. CASE RecordOutboundHTTP(o)
  BY <1>7, AddSpanKeeps DEF RecordOutboundHTTP
<1>8. CASE Enqueue(o)
  BY <1>8, AddSpanKeeps DEF Enqueue
<1>9. CASE SetAttributes(o)
  <2>1. span' \in [Operations -> SpanStates]
    BY <1>0, <1>9 DEF SetAttributes, Becomes
  <2> QED
    BY <1>0, <1>9, <2>1, OperationKeeps DEF SetAttributes
<1>10. CASE AttributesSet(o)
  <2>1. span' \in [Operations -> SpanStates]
    BY <1>0, <1>10 DEF AttributesSet, Becomes
  <2> QED
    BY <1>0, <1>10, <2>1, OperationKeeps DEF AttributesSet
<1>11. CASE SetEnd(o)
  <2>1. span' \in [Operations -> SpanStates]
    BY <1>0, <1>11 DEF SetEnd, Becomes
  <2> QED
    BY <1>0, <1>11, <2>1, OperationKeeps DEF SetEnd
<1> QED
  BY <1>1, <1>2, <1>3, <1>4, <1>5, <1>6, <1>7, <1>8, <1>9, <1>10, <1>11 DEF Start, Operate

\* The steps of Finish.  They read the buffer and never write it.
LEMMA FinishKeeps ==
    ASSUME TraceInv, Finish \/ Finishing
    PROVE  TraceInv'
<1>0. /\ rawSpans \in Seq(Operations) /\ atFinish \in Seq(Operations)
      /\ payload \in Seq([op : Operations, span : SpanStates])
      /\ rolledUp \in Seq({"app", "db", "http", "queue"})
      /\ span \in [Operations -> SpanStates]
  BY DEF TraceInv, TypeOK
<1>1. BufferInv'
  <2>1. UNCHANGED << rawSpans, opPC >>
    BY DEF Finish, Finishing, RollUp, Stamp, ReadSpan, ReadPanics, RuntimeThrows, Send, operationVars
  <2> QED
    BY <2>1 DEF TraceInv, BufferInv
<1>2. CASE Finish
  <2>1. TypeOK'
    BY <1>2 DEF TraceInv, TypeOK, Finish, FinishGoes
  <2>2. LockInv'
    BY <1>0, <1>2 DEF TraceInv, LockInv, Finish, FinishGoes
  <2> QED
    BY <1>1, <2>1, <2>2 DEF TraceInv
<1>3. CASE RollUp
  <2>1. TypeOK'
    <3>1. PICK category \in CategoriesSeen(rawSpans[Len(rolledUp) + 1]) :
             rolledUp' = Append(rolledUp, category)
      BY <1>3 DEF RollUp
    <3>2. category \in {"app", "db", "http", "queue"}
      BY <3>1 DEF CategoriesSeen, Category
    <3> QED
      BY <1>0, <1>3, <3>1, <3>2 DEF TraceInv, TypeOK, RollUp, FinishGoes, operationVars
  <2>2. LockInv'
    BY <1>3 DEF TraceInv, LockInv, RollUp, FinishGoes, operationVars
  <2> QED
    BY <1>1, <2>1, <2>2 DEF TraceInv
<1>4. CASE Stamp
  <2>1. TypeOK'
    BY <1>4 DEF TraceInv, TypeOK, Stamp, FinishGoes, operationVars
  <2>2. LockInv'
    BY <1>4 DEF TraceInv, LockInv, Stamp, FinishGoes, operationVars
  <2> QED
    BY <1>1, <2>1, <2>2 DEF TraceInv
<1>5. CASE ReadSpan
  <2> DEFINE next == rawSpans[Len(payload) + 1]
             entry == [op |-> next, span |-> span[next]]
  <2>1. /\ finishPC = "reading" /\ finishPC' = "reading"
        /\ Len(payload) < Len(rawSpans) /\ rawSpans = atFinish
        /\ payload' = Append(payload, entry)
        /\ UNCHANGED << operationVars, rolledUp, stamped >>
    BY <1>5 DEF ReadSpan, FinishGoes, TraceInv, LockInv
  <2>2. next \in Operations /\ span[next] \in SpanStates
    BY <1>0, <2>1
  <2>3. entry \in [op : Operations, span : SpanStates] /\ entry.op = next
    BY <2>2
  <2> HIDE DEF entry, next
  <2>4. TypeOK'
    <3>1. payload' \in Seq([op : Operations, span : SpanStates])
      BY <1>0, <2>1, <2>3
    <3> QED
      BY <2>1, <3>1 DEF TraceInv, TypeOK, operationVars
  <2>5. /\ Len(payload') = Len(payload) + 1
        /\ \A i \in 1 .. Len(payload) : payload'[i] = payload[i]
        /\ payload'[Len(payload) + 1] = entry
    BY <1>0, <2>1, <2>3
  <2>6. \A i \in 1 .. Len(payload') : payload'[i].op = atFinish[i]
    <3>1. next = atFinish[Len(payload) + 1]
      BY <2>1 DEF next
    <3>2. \A i \in 1 .. Len(payload) : payload[i].op = atFinish[i]
      BY DEF TraceInv, LockInv
    <3> SUFFICES ASSUME NEW i \in 1 .. Len(payload') PROVE payload'[i].op = atFinish[i]
      OBVIOUS
    <3>3. Len(payload) \in Nat
      BY <1>0
    <3>4. CASE i = Len(payload) + 1
      <4>1. payload'[i] = entry
        BY <2>5, <3>4
      <4> QED
        BY <2>3, <3>1, <3>4, <4>1
    <3>5. CASE i \in 1 .. Len(payload)
      <4>1. payload'[i] = payload[i]
        BY <2>5, <3>5
      <4> QED
        BY <3>2, <3>5, <4>1
    <3> QED
      BY <2>5, <3>3, <3>4, <3>5
  <2>7. LockInv'
    BY <1>0, <2>1, <2>5, <2>6 DEF TraceInv, LockInv, operationVars
  <2> QED
    BY <1>1, <2>4, <2>7 DEF TraceInv
<1>6. CASE ReadPanics \/ RuntimeThrows
  <2>1. TypeOK'
    BY <1>6 DEF TraceInv, TypeOK, ReadPanics, RuntimeThrows, FinishGoes, operationVars
  <2>2. LockInv'
    BY <1>6 DEF TraceInv, LockInv, ReadPanics, RuntimeThrows, FinishGoes, operationVars
  <2> QED
    BY <1>1, <2>1, <2>2 DEF TraceInv
<1>7. CASE Send
  <2>1. TypeOK'
    BY <1>7 DEF TraceInv, TypeOK, Send, operationVars
  <2>2. LockInv'
    BY <1>7 DEF TraceInv, LockInv, Send, operationVars
  <2> QED
    BY <1>1, <2>1, <2>2 DEF TraceInv
<1> QED
  BY <1>2, <1>3, <1>4, <1>5, <1>6, <1>7 DEF Finishing

\* A stuttering step keeps the invariant.
LEMMA StutterKeeps == ASSUME TraceInv, UNCHANGED vars PROVE TraceInv'
BY DEF TraceInv, TypeOK, BufferInv, LockInv, vars, requestVars

-----------------------------------------------------------------------------
\* What outbound HTTP spans look like, in the buffer and in the payload.

\* An operation other than an outbound call may write into its span.
LEMMA OtherSpanWritten ==
    ASSUME TraceInv, HTTPInv, NEW o \in Operations, UNCHANGED << requestVars, rawSpans >>,
           UNCHANGED span \/ (o \notin HTTPCalls /\ \E what \in SpanStates : Becomes(o, what))
    PROVE  HTTPInv'
<1>1. rawSpans \in Seq(Operations) /\ span \in [Operations -> SpanStates]
  BY DEF TraceInv, TypeOK
<1>2. \A h \in HTTPCalls : h \in Operations => span'[h] = span[h]
  BY <1>1 DEF Becomes
<1>3. \A i \in 1 .. Len(rawSpans) : rawSpans[i] \in Operations
  BY <1>1, ElementOfSeq
<1> QED
  BY <1>2, <1>3 DEF HTTPInv, requestVars

\* An outbound call publishes its span when it is whole.
LEMMA SpanAdded ==
    ASSUME TraceInv, HTTPInv, NEW o \in Operations, NEW from, NEW to, NEW what, NEW full,
           AddSpan(o, from, to, what, full), UNCHANGED requestVars,
           o \in HTTPCalls => what = "whole"
    PROVE  HTTPInv'
<1>1. CASE UNCHANGED << rawSpans, span >>
  BY <1>1 DEF HTTPInv, requestVars
<1>2. CASE rawSpans' = Append(rawSpans, o) /\ Becomes(o, what)
  <2>1. rawSpans \in Seq(Operations) /\ span \in [Operations -> SpanStates]
    BY DEF TraceInv, TypeOK
  <2>2. /\ Len(rawSpans) \in Nat /\ Len(rawSpans') = Len(rawSpans) + 1
        /\ \A i \in 1 .. Len(rawSpans) : rawSpans'[i] = rawSpans[i]
        /\ rawSpans'[Len(rawSpans) + 1] = o
    BY <1>2, <2>1, AppendProperties
  <2>3. span'[o] = what /\ \A p \in Operations : p # o => span'[p] = span[p]
    BY <1>2, <2>1 DEF Becomes
  <2>4. ASSUME NEW i \in 1 .. Len(rawSpans'), rawSpans'[i] \in HTTPCalls
        PROVE  span'[rawSpans'[i]] = "whole"
    <3>1. CASE rawSpans'[i] = o
      BY <2>3, <2>4, <3>1
    <3>2. CASE rawSpans'[i] # o
      <4>1. i \in 1 .. Len(rawSpans) /\ rawSpans'[i] = rawSpans[i]
        BY <2>2, <3>2
      <4>2. rawSpans[i] \in Operations
        BY <2>1, <4>1, ElementOfSeq
      <4> QED
        BY <2>3, <2>4, <3>2, <4>1, <4>2 DEF HTTPInv
    <3> QED
      BY <3>1, <3>2
  <2> QED
    BY <2>4 DEF HTTPInv, requestVars
<1> QED
  BY <1>1, <1>2 DEF AddSpan

\* The steps of an operation.
LEMMA OperationsKeepHTTP ==
    ASSUME TraceInv, HTTPInv, NEW o \in Operations, Start(o) \/ Operate(o)
    PROVE  HTTPInv'
<1>1. CASE o \in Queries
  <2>1. o \notin HTTPCalls /\ o \notin Enqueues
    BY <1>1, OperationsAssumption
  <2>2. CASE AddChildSpan(o)
    BY <2>1, <2>2, SpanAdded DEF AddChildSpan
  <2>3. CASE Query(o) \/ IncrementDBQueryCount(o)
    BY <2>3, OtherSpanWritten DEF Query, IncrementDBQueryCount
  <2>4. CASE Decorate(o) \/ Decorated(o)
    BY <2>1, <2>4, OtherSpanWritten DEF Decorate, Decorated, SpanStates
  <2> QED
    BY <2>1, <2>2, <2>3, <2>4 DEF Start, Operate
<1>2. CASE o \in HTTPCalls
  <2>1. o \notin Queries /\ o \notin Enqueues
    BY <1>2, OperationsAssumption
  <2>2. CASE RecordOutboundHTTP(o)
    BY <2>2, SpanAdded DEF RecordOutboundHTTP
  <2>3. CASE RoundTrip(o)
    BY <2>3, OtherSpanWritten DEF RoundTrip
  <2> QED
    BY <2>1, <2>2, <2>3 DEF Start, Operate
<1>3. CASE o \in Enqueues
  <2>1. o \notin Queries /\ o \notin HTTPCalls
    BY <1>3, OperationsAssumption
  <2>2. CASE Enqueue(o)
    BY <2>1, <2>2, SpanAdded DEF Enqueue
  <2>3. CASE SetAttributes(o) \/ AttributesSet(o) \/ SetEnd(o)
    BY <2>1, <2>3, OtherSpanWritten DEF SetAttributes, AttributesSet, SetEnd, SpanStates
  <2> QED
    BY <2>1, <2>2, <2>3 DEF Start, Operate
<1> QED
  BY <1>1, <1>2, <1>3 DEF Operations

\* The steps of Finish: it sees a whole span of an outbound call, twice.
LEMMA FinishKeepsHTTP ==
    ASSUME TraceInv, HTTPInv, Finish \/ Finishing
    PROVE  HTTPInv'
<1>0. /\ rawSpans \in Seq(Operations) /\ atFinish \in Seq(Operations)
      /\ payload \in Seq([op : Operations, span : SpanStates])
      /\ rolledUp \in Seq({"app", "db", "http", "queue"})
  BY DEF TraceInv, TypeOK
<1>1. Len(rawSpans) \in Nat /\ Len(rolledUp) \in Nat /\ Len(payload) \in Nat /\ Len(atFinish) \in Nat
  BY <1>0
<1>2. CASE Finish
  BY <1>1, <1>2 DEF TraceInv, LockInv, HTTPInv, Finish, FinishGoes
<1>3. CASE RollUp
  <2>1. PICK category \in CategoriesSeen(rawSpans[Len(rolledUp) + 1]) :
           rolledUp' = Append(rolledUp, category)
    BY <1>3 DEF RollUp
  <2>2. /\ finishPC = "rollup" /\ finishPC' = "rollup" /\ rawSpans = atFinish
        /\ Len(rolledUp) < Len(rawSpans) /\ Len(payload) = 0
        /\ UNCHANGED << operationVars, payload, stamped >>
    BY <1>3 DEF TraceInv, LockInv, RollUp, FinishGoes
  <2>3. atFinish[Len(rolledUp) + 1] \in HTTPCalls => category = "http"
    BY <2>1, <2>2, OperationsAssumption DEF CategoriesSeen, Category
  <2>4. category \in {"app", "db", "http", "queue"}
    BY <2>1 DEF CategoriesSeen, Category
  <2>5. /\ Len(rolledUp') = Len(rolledUp) + 1
        /\ \A i \in 1 .. Len(rolledUp) : rolledUp'[i] = rolledUp[i]
        /\ rolledUp'[Len(rolledUp) + 1] = category
    BY <1>0, <2>1, <2>4, AppendProperties
  <2>6. \A i \in 1 .. Len(rolledUp') : atFinish[i] \in HTTPCalls => rolledUp'[i] = "http"
    BY <1>1, <2>3, <2>5 DEF HTTPInv
  <2> QED
    BY <1>1, <2>2, <2>5, <2>6 DEF HTTPInv, operationVars
<1>4. CASE Stamp
  BY <1>1, <1>4 DEF TraceInv, LockInv, HTTPInv, Stamp, FinishGoes, operationVars
<1>5. CASE ReadSpan
  <2> DEFINE next == rawSpans[Len(payload) + 1]
             entry == [op |-> next, span |-> span[next]]
  <2>1. /\ finishPC = "reading" /\ finishPC' = "reading" /\ rawSpans = atFinish
        /\ Len(payload) < Len(rawSpans)
        /\ payload' = Append(payload, entry)
        /\ UNCHANGED << operationVars, rolledUp, stamped >>
    BY <1>5 DEF TraceInv, LockInv, ReadSpan, FinishGoes
  <2>2. next \in Operations /\ span[next] \in SpanStates
    BY <1>0, <1>1, <2>1, ElementOfSeq DEF TraceInv, TypeOK
  <2>3. entry \in [op : Operations, span : SpanStates] /\ entry.op = next /\ entry.span = span[next]
    BY <2>2
  <2>4. entry.op \in HTTPCalls => entry.span = "whole"
    BY <1>1, <2>1, <2>3 DEF HTTPInv
  <2> HIDE DEF entry, next
  <2>5. /\ Len(payload') = Len(payload) + 1
        /\ \A i \in 1 .. Len(payload) : payload'[i] = payload[i]
        /\ payload'[Len(payload) + 1] = entry
    BY <1>0, <2>1, <2>3, AppendProperties
  <2>6. \A i \in 1 .. Len(payload') : payload'[i].op \in HTTPCalls => payload'[i].span = "whole"
    <3> SUFFICES ASSUME NEW i \in 1 .. Len(payload'), payload'[i].op \in HTTPCalls
                 PROVE  payload'[i].span = "whole"
      OBVIOUS
    <3>1. CASE i = Len(payload) + 1
      BY <2>4, <2>5, <3>1
    <3>2. CASE i \in 1 .. Len(payload)
      <4>1. payload'[i] = payload[i]
        BY <2>5, <3>2
      <4> QED
        BY <3>2, <4>1 DEF HTTPInv
    <3> QED
      BY <1>1, <2>5, <3>1, <3>2
  <2> QED
    BY <1>1, <2>1, <2>6 DEF HTTPInv, operationVars
<1>6. CASE ReadPanics \/ RuntimeThrows \/ Send
  <2>1. finishPC \in {"rollup", "reading"} /\ finishPC' \in {"lost", "crashed", "sent"}
    BY <1>6 DEF ReadPanics, RuntimeThrows, Send, FinishGoes
  <2>2. UNCHANGED << operationVars, rolledUp, payload >>
    BY <1>6 DEF ReadPanics, RuntimeThrows, Send
  <2> QED
    BY <2>1, <2>2 DEF HTTPInv, operationVars
<1> QED
  BY <1>2, <1>3, <1>4, <1>5, <1>6 DEF Finishing

-----------------------------------------------------------------------------
\* The query count.

\* A program counter past IncrementDBQueryCount.
Past(pc) == pc \in {"add", "decorate", "decorating"} \/ (sampled /\ pc = "over")

QueryStates == {"idle", "count", "add", "decorate", "decorating", "over"}

\* A step that moves no query over its counter leaves the account as it is.
LEMMA CountStays ==
    ASSUME TraceInv, CountInv, NEW o \in Operations, NEW from, NEW to, OpGoes(o, from, to),
           UNCHANGED << requestVars, dbQueryCount >>, Len(rawSpans') > 0 => sampled,
           o \in Queries => /\ to \in QueryStates /\ (to \notin {"idle", "over"} => sampled)
                            /\ Past(from) <=> Past(to)
    PROVE  CountInv'
<1>1. opPC \in [Operations -> OpStates] /\ Queries \subseteq Operations
  BY DEF TraceInv, TypeOK, Operations
<1>2. opPC[o] = from /\ opPC'[o] = to /\ \A p \in Operations : p # o => opPC'[p] = opPC[p]
  BY <1>1 DEF OpGoes
<1>3. \A q \in Queries : opPC'[q] \in QueryStates /\ (opPC'[q] \notin {"idle", "over"} => sampled)
  BY <1>1, <1>2 DEF CountInv, QueryStates
<1>4. sampled' = sampled
  BY DEF requestVars
<1>5. Counted' = Counted
  BY <1>1, <1>2, <1>4 DEF Counted, Past
<1> QED
  BY <1>3, <1>4, <1>5 DEF CountInv, requestVars, QueryStates

\* AddSpan lets a span into the buffer of a sampled request only.
LEMMA AddSpanCounts ==
    ASSUME TraceInv, CountInv, NEW o \in Operations, NEW from, NEW to, NEW what, NEW full,
           AddSpan(o, from, to, what, full), UNCHANGED << requestVars, dbQueryCount >>,
           o \in Queries => from = "add" /\ to = "decorate" /\ full = "over"
    PROVE  CountInv'
<1>1. o \in Queries => sampled
  BY DEF CountInv, AddSpan, OpGoes
<1>2. Len(rawSpans') > 0 => sampled
  BY DEF CountInv, AddSpan
<1>3. OpGoes(o, from, to) \/ OpGoes(o, from, full)
  BY DEF AddSpan
<1> QED
  BY <1>1, <1>2, <1>3, CountStays DEF QueryStates, Past

\* The steps of an operation.
LEMMA OperationsCount ==
    ASSUME TraceInv, CountInv, NEW o \in Operations, Start(o) \/ Operate(o)
    PROVE  CountInv'
<1>0. Len(rawSpans) > 0 => sampled
  BY DEF CountInv
<1>1. CASE o \in Queries
  <2>1. o \notin HTTPCalls /\ o \notin Enqueues
    BY <1>1, OperationsAssumption
  <2>2. opPC[o] \notin {"idle", "over"} => sampled
    BY <1>1 DEF CountInv
  <2>3. CASE Query(o)
    BY <1>0, <2>3, CountStays DEF Query, QueryStates, Past
  <2>4. CASE IncrementDBQueryCount(o)
    <3>1. opPC \in [Operations -> OpStates] /\ dbQueryCount \in Nat
      BY DEF TraceInv, TypeOK
    <3>2. /\ opPC[o] = "count" /\ opPC'[o] = "add" /\ sampled
          /\ \A p \in Operations : p # o => opPC'[p] = opPC[p]
          /\ dbQueryCount' = dbQueryCount + 1
          /\ UNCHANGED << requestVars, rawSpans >>
      BY <2>2, <2>4, <3>1 DEF IncrementDBQueryCount, OpGoes
    <3>3. o \notin Counted /\ Counted' = Counted \cup {o}
      BY <1>1, <3>2 DEF Counted, Operations, requestVars
    <3>4. IsFiniteSet(Counted) /\ dbQueryCount = Cardinality(Counted)
      BY DEF CountInv
    <3>5. IsFiniteSet(Counted') /\ dbQueryCount' = Cardinality(Counted')
      BY <3>2, <3>3, <3>4, FS_AddElement
    <3>6. \A q \in Queries :
             /\ opPC'[q] \in {"idle", "count", "add", "decorate", "decorating", "over"}
             /\ opPC'[q] \notin {"idle", "over"} => sampled
      BY <3>2 DEF CountInv, Operations
    <3> QED
      BY <3>2, <3>5, <3>6 DEF CountInv, requestVars
  <2>5. CASE AddChildSpan(o)
    BY <2>5, AddSpanCounts DEF AddChildSpan
  <2>6. CASE Decorate(o)
    BY <1>0, <2>2, <2>6, CountStays DEF Decorate, QueryStates, Past, OpGoes
  <2>7. CASE Decorated(o)
    BY <1>0, <2>2, <2>7, CountStays DEF Decorated, QueryStates, Past, OpGoes
  <2> QED
    BY <2>1, <2>3, <2>4, <2>5, <2>6, <2>7 DEF Start, Operate
<1>2. CASE o \notin Queries
  BY <1>0, <1>2, CountStays, AddSpanCounts
  DEF Start, Operate, RoundTrip, RecordOutboundHTTP, Enqueue, SetAttributes, AttributesSet, SetEnd
<1> QED
  BY <1>1, <1>2

\* The queries in a buffer have all been counted: its query positions are not more
\* than the queries counted, for no query is in it twice.
LEMMA PositionsWithinCount ==
    ASSUME TraceInv, CountInv
    PROVE  Cardinality(QueryPositions(rawSpans)) <= dbQueryCount
<1> DEFINE P == QueryPositions(rawSpans)
           f == [i \in P |-> rawSpans[i]]
<1>1. \A i \in P : rawSpans[i] \in Counted
  <2> SUFFICES ASSUME NEW i \in 1 .. Len(rawSpans), rawSpans[i] \in Queries
               PROVE  rawSpans[i] \in Counted
    BY DEF QueryPositions
  <2>1. opPC[rawSpans[i]] \notin {"idle", "count"}
    BY DEF TraceInv, BufferInv
  <2>2. sampled
    <3>1. Len(rawSpans) \in Nat
      BY DEF TraceInv, TypeOK
    <3> QED
      BY <3>1 DEF CountInv
  <2> QED
    BY <2>1, <2>2 DEF CountInv, Counted
<1>2. \A i, j \in P : rawSpans[i] = rawSpans[j] => i = j
  BY DEF TraceInv, BufferInv, QueryPositions
<1>3. f \in Injection(P, Counted)
  BY <1>1, <1>2 DEF Injection, IsInjective
<1> HIDE DEF f, P
<1>4. Cardinality(P) <= Cardinality(Counted)
  BY <1>3, FS_Injection DEF CountInv
<1> QED
  BY <1>4 DEF CountInv, P

\* The steps of Finish, which stamps the count when it has the lock.
LEMMA FinishCounts ==
    ASSUME TraceInv, CountInv, Finish \/ Finishing
    PROVE  CountInv'
<1>1. UNCHANGED << sampled, rawSpans, dbQueryCount, opPC >>
  BY DEF Finish, Finishing, RollUp, Stamp, ReadSpan, ReadPanics, RuntimeThrows, Send, operationVars
<1>2. Counted' = Counted
  BY <1>1 DEF Counted
<1>3. finishPC' \in {"reading", "sent"} => stamped' >= Cardinality(QueryPositions(atFinish'))
  <2>1. CASE Stamp
    <3>1. rawSpans = atFinish /\ atFinish' = atFinish /\ stamped' = dbQueryCount
      BY <2>1 DEF TraceInv, LockInv, Stamp, FinishGoes, operationVars
    <3>2. Cardinality(QueryPositions(atFinish')) <= stamped'
      BY <3>1, PositionsWithinCount
    <3>3. IsFiniteSet(QueryPositions(atFinish'))
      <4>1. Len(atFinish') \in Nat
        BY <3>1 DEF TraceInv, TypeOK
      <4>2. QueryPositions(atFinish') \subseteq 1 .. Len(atFinish')
        BY DEF QueryPositions
      <4>3. IsFiniteSet(1 .. Len(atFinish'))
        BY <4>1, FS_Interval
      <4> HIDE DEF QueryPositions
      <4> QED
        BY <4>2, <4>3, FS_Subset
    <3>4. Cardinality(QueryPositions(atFinish')) \in Nat /\ stamped' \in Nat
      BY <3>1, <3>3, FS_CardinalityType DEF TraceInv, TypeOK
    <3> QED
      BY <3>2, <3>4
  <2>2. CASE ReadSpan \/ Send
    BY <2>2 DEF CountInv, ReadSpan, Send, FinishGoes, operationVars
  <2>3. CASE Finish \/ RollUp \/ ReadPanics \/ RuntimeThrows
    BY <2>3 DEF Finish, RollUp, ReadPanics, RuntimeThrows, FinishGoes
  <2> QED
    BY <2>1, <2>2, <2>3 DEF Finishing
<1> QED
  BY <1>1, <1>2, <1>3 DEF CountInv

-----------------------------------------------------------------------------
\* A request that starts satisfies the invariant.
LEMMA InitInv == Init => IInv
<1> SUFFICES ASSUME Init PROVE IInv
  OBVIOUS
<1>1. HTTPInv
  BY DEF Init, HTTPInv
<1>2. CountInv
  <2>1. Counted = {} /\ \A q \in Queries : opPC[q] = "idle"
    BY DEF Init, Counted, Operations
  <2>2. Len(rawSpans) = 0 /\ finishPC = "open" /\ dbQueryCount = 0
    BY DEF Init
  <2> QED
    BY <2>1, <2>2, FS_EmptySet DEF CountInv
<1> QED
  BY <1>1, <1>2, InitTraceInv DEF IInv

\* IInv is an invariant of every request (requestState, tracer.go).
THEOREM Invariance == Spec => []IInv
<1>1. IInv /\ [Next]_vars => IInv'
  <2> SUFFICES ASSUME IInv, [Next]_vars PROVE IInv'
    OBVIOUS
  <2>1. CASE \E o \in Operations : Start(o) \/ Operate(o)
    BY <2>1, StartOrOperateKeeps, OperationsKeepHTTP, OperationsCount DEF IInv
  <2>2. CASE Finish \/ Finishing
    BY <2>2, FinishKeeps, FinishKeepsHTTP, FinishCounts DEF IInv
  <2>3. CASE Idle \/ UNCHANGED vars
    <3>1. UNCHANGED vars
      BY <2>3 DEF Idle
    <3>2. HTTPInv'
      BY <3>1 DEF IInv, HTTPInv, vars, requestVars
    <3>3. CountInv'
      <4>1. Counted' = Counted
        BY <3>1 DEF Counted, vars, requestVars
      <4> QED
        BY <3>1, <4>1 DEF IInv, CountInv, vars, requestVars
    <3> QED
      BY <3>1, <3>2, <3>3, StutterKeeps DEF IInv
  <2> QED
    BY <2>1, <2>2, <2>3 DEF Next
<1> QED
  BY InitInv, <1>1, PTL DEF Spec

\* The child buffer keeps to MaxSpans and holds no operation twice, whatever the
\* number of operations that end at the same time.
THEOREM Bounded == Spec => []BufferBounded
<1>1. IInv => BufferBounded
  BY DEF IInv, TraceInv, BufferInv, BufferBounded
<1> QED
  BY <1>1, Invariance, PTL

\* An exported payload holds the spans recorded by Finish's lock, all and in order.
THEOREM Completeness == Spec => []PayloadIsComplete
<1>1. IInv => PayloadIsComplete
  <2> SUFFICES ASSUME IInv, Exported PROVE PayloadOps = atFinish
    BY DEF PayloadIsComplete
  <2>1. /\ Len(payload) = Len(atFinish) /\ atFinish \in Seq(Operations)
        /\ \A i \in 1 .. Len(payload) : payload[i].op = atFinish[i]
    BY DEF IInv, TraceInv, TypeOK, LockInv, Exported
  <2> QED
    BY <2>1 DEF PayloadOps
<1> QED
  BY <1>1, Invariance, PTL

\* An outbound HTTP span is rolled up and exported with all its attributes, or not
\* at all, whenever its call ends (recordOutboundHTTP).
THEOREM OutboundSpansWhole == Spec => []HTTPSpansWhole
<1>1. IInv => HTTPSpansWhole
  <2> SUFFICES ASSUME IInv, NEW i \in 1 .. Len(payload), payload[i].op \in HTTPCalls
               PROVE  payload[i].span = "whole" /\ i \in DOMAIN rolledUp /\ rolledUp[i] = "http"
    BY DEF HTTPSpansWhole
  <2>1. /\ rolledUp \in Seq({"app", "db", "http", "queue"})
        /\ Len(payload) \in Nat /\ Len(atFinish) \in Nat /\ Len(rolledUp) \in Nat
    BY DEF IInv, TraceInv, TypeOK
  <2>2. Len(payload) <= Len(atFinish) /\ payload[i].op = atFinish[i]
    BY DEF IInv, TraceInv, LockInv
  <2>3. Len(rolledUp) = Len(atFinish)
    BY <2>1 DEF IInv, HTTPInv
  <2>4. i \in 1 .. Len(rolledUp) /\ DOMAIN rolledUp = 1 .. Len(rolledUp)
    BY <2>1, <2>2, <2>3
  <2> QED
    BY <2>2, <2>4 DEF IInv, HTTPInv
<1> QED
  BY <1>1, Invariance, PTL

\* The root of an exported trace counts at least the queries under it
\* (record, IncrementDBQueryCount, Finish).
THEOREM QueriesCounted == Spec => []CountCoversQueries
<1>1. IInv => CountCoversQueries
  <2> SUFFICES ASSUME IInv, Exported
               PROVE  stamped >= Cardinality({i \in 1 .. Len(payload) : payload[i].op \in Queries})
    BY DEF CountCoversQueries
  <2>1. Len(payload) = Len(atFinish) /\ \A i \in 1 .. Len(payload) : payload[i].op = atFinish[i]
    BY DEF IInv, TraceInv, LockInv, Exported
  <2>2. {i \in 1 .. Len(payload) : payload[i].op \in Queries} = QueryPositions(atFinish)
    BY <2>1 DEF QueryPositions
  <2> QED
    BY <2>2 DEF IInv, CountInv, Exported
<1> QED
  BY <1>1, Invariance, PTL
=============================================================================
