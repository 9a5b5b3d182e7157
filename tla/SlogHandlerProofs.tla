------------------------- MODULE SlogHandlerProofs -------------------------
(***************************************************************************)
(* For any number of handlers, whatever is given to them, and any number   *)
(* of records and previews: deriving a handler never changes another one,  *)
(* though their slices may share arrays; Handle does both of its jobs,     *)
(* whatever the transport does; and concurrent previews are kept as they   *)
(* are written.                                                            *)
(***************************************************************************)
EXTENDS SlogHandler, TLAPS, SequenceTheorems

-----------------------------------------------------------------------------
(* Slices *)

\* The length of a sequence is known from its domain.
LEMMA LengthOf ==
    ASSUME NEW S, NEW n \in Nat, NEW s \in [1 .. n -> S]
    PROVE  s \in Seq(S) /\ Len(s) = n
<1>1. s \in Seq(S)
  BY SeqDef
<1>2. 1 .. Len(s) = 1 .. n /\ Len(s) \in Nat
  BY <1>1, LenProperties
<1> DEFINE m == Len(s)
<1>3. m \in Nat /\ (m > 0 => m \in 1 .. n) /\ (n > 0 => n \in 1 .. m)
  <2> HIDE DEF m
  <2> QED
    BY <1>2 DEF m
<1>4. m = n
  <2> HIDE DEF m
  <2> QED
    BY <1>3
<1> QED
  BY <1>1, <1>4

\* A sequence of one.
LEMMA Singleton ==
    ASSUME NEW S, NEW e \in S
    PROVE  << e >> \in Seq(S) /\ Len(<< e >>) = 1 /\ << e >>[1] = e
<1>1. << e >> \in [1 .. 1 -> S] /\ << e >>[1] = e
  OBVIOUS
<1> QED
  BY <1>1, LengthOf

\* A slice of an array.
InMemory(mem, slice) ==
    /\ slice \in [array : Nat, len : Nat]
    /\ slice.array \in 1 .. Len(mem)
    /\ slice.len <= Len(mem[slice.array])

\* What a slice shows.
LEMMA ContentsOfSlice ==
    ASSUME NEW S, NEW mem \in Seq(Seq(S)), NEW slice, InMemory(mem, slice)
    PROVE  /\ Contents(mem, slice) \in Seq(S)
           /\ Len(Contents(mem, slice)) = slice.len
           /\ \A i \in 1 .. slice.len : Contents(mem, slice)[i] = mem[slice.array][i]
<1> DEFINE s == mem[slice.array]
           n == slice.len
<1>1. s \in Seq(S)
  BY ElementOfSeq DEF InMemory
<1>2. n \in Nat /\ n <= Len(s) /\ Len(s) \in Nat
  BY <1>1, LenProperties DEF InMemory
<1> HIDE DEF s, n
<1>3. \A i \in 1 .. n : s[i] \in S
  <2>1. 1 .. n \subseteq 1 .. Len(s)
    BY <1>2
  <2> QED
    BY <1>1, <2>1, ElementOfSeq
<1>4. /\ SubSeq(s, 1, n) \in Seq(S)
      /\ Len(SubSeq(s, 1, n)) = IF 1 <= n THEN n - 1 + 1 ELSE 0
      /\ \A i \in 1 .. n - 1 + 1 : SubSeq(s, 1, n)[i] = s[1 + i - 1]
  BY <1>2, <1>3, SubSeqProperties
<1>5. n - 1 + 1 = n /\ \A i \in 1 .. n : 1 + i - 1 = i
  BY <1>2
<1>6. Len(SubSeq(s, 1, n)) = n /\ \A i \in 1 .. n : SubSeq(s, 1, n)[i] = s[i]
  BY <1>2, <1>4, <1>5
<1> QED
  BY <1>4, <1>6 DEF Contents, s, n

\* A slice shows the same as long as its array stays.
LEMMA SliceStays ==
    ASSUME NEW mem, NEW slice, InMemory(mem, slice),
           NEW later, Len(mem) \in Nat, Len(later) \in Nat, Len(later) >= Len(mem),
           later[slice.array] = mem[slice.array]
    PROVE  InMemory(later, slice) /\ Contents(later, slice) = Contents(mem, slice)
BY DEF InMemory, Contents

\* The arrays of a memory after something was allocated: those that were there stay.
LEMMA AllocateAdds ==
    ASSUME NEW S, "unused" \in S, NEW mem \in Seq(Seq(S)), NEW values \in Seq(S),
           NEW spare \in Spares
    PROVE  LET a == Allocate(mem, values, spare)
           IN  /\ a.mem \in Seq(Seq(S)) /\ Len(a.mem) = Len(mem) + 1
               /\ \A i \in 1 .. Len(mem) : a.mem[i] = mem[i]
               /\ a.slice.array = Len(mem) + 1
               /\ InMemory(a.mem, a.slice) /\ Contents(a.mem, a.slice) = values
<1> DEFINE a == Allocate(mem, values, spare)
           array == values \o spare
<1>1. spare \in Seq(S)
  <2>1. << >> \in Seq(S)
    BY EmptySeq
  <2>2. << "unused" >> \in Seq(S)
    BY Singleton
  <2> QED
    BY <2>1, <2>2 DEF Spares
<1>2. /\ array \in Seq(S)
      /\ Len(array) = Len(values) + Len(spare)
      /\ \A i \in 1 .. Len(values) + Len(spare) :
            array[i] = IF i <= Len(values) THEN values[i] ELSE spare[i - Len(values)]
  BY <1>1, ConcatProperties
<1>3. /\ a.mem = Append(mem, array)
      /\ a.slice = [array |-> Len(mem) + 1, len |-> Len(values)]
  BY DEF Allocate
<1> HIDE DEF a, array
<1>4. /\ a.mem \in Seq(Seq(S)) /\ Len(a.mem) = Len(mem) + 1
      /\ \A i \in 1 .. Len(mem) : a.mem[i] = mem[i]
      /\ a.mem[Len(mem) + 1] = array
  BY <1>2, <1>3, AppendProperties
<1>5. Len(mem) \in Nat /\ Len(values) \in Nat /\ Len(spare) \in Nat
  BY <1>1, LenProperties
<1>6. /\ a.slice.array = Len(mem) + 1 /\ a.slice.len = Len(values)
      /\ a.slice \in [array : Nat, len : Nat]
  BY <1>3, <1>5
<1>7. InMemory(a.mem, a.slice)
  BY <1>2, <1>4, <1>5, <1>6 DEF InMemory
<1>8. Contents(a.mem, a.slice) = values
  <2>1. /\ Contents(a.mem, a.slice) \in Seq(S)
        /\ Len(Contents(a.mem, a.slice)) = Len(values)
        /\ \A i \in 1 .. Len(values) : Contents(a.mem, a.slice)[i] = array[i]
    BY <1>4, <1>6, <1>7, ContentsOfSlice
  <2>2. \A i \in 1 .. Len(values) : array[i] = values[i]
    BY <1>2, <1>5
  <2> QED
    BY <2>1, <2>2, SeqEqual
<1> QED
  BY <1>4, <1>6, <1>7, <1>8 DEF a

\* append leaves every array that was there as it is, but for the unused cells of
\* that of the slice.
LEMMA PushAppends ==
    ASSUME NEW S, "unused" \in S, NEW mem \in Seq(Seq(S)), NEW slice, InMemory(mem, slice),
           NEW value \in S, NEW spare \in Spares
    PROVE  LET p == Push(mem, slice, value, spare)
           IN  /\ p.mem \in Seq(Seq(S)) /\ Len(p.mem) >= Len(mem)
               /\ \A i \in 1 .. Len(mem) :
                     i # slice.array \/ slice.len = Len(mem[i]) => p.mem[i] = mem[i]
               /\ InMemory(p.mem, p.slice)
               /\ Contents(p.mem, p.slice) = Append(Contents(mem, slice), value)
<1> DEFINE p == Push(mem, slice, value, spare)
           c == Contents(mem, slice)
           s == mem[slice.array]
           k == slice.array
           n == slice.len
<1>1. /\ c \in Seq(S) /\ Len(c) = n
      /\ \A i \in 1 .. n : c[i] = s[i]
  BY ContentsOfSlice
<1>2. /\ Append(c, value) \in Seq(S) /\ Len(Append(c, value)) = n + 1
      /\ \A i \in 1 .. n : Append(c, value)[i] = c[i]
      /\ Append(c, value)[n + 1] = value
  <2> HIDE DEF c
  <2> QED
    BY <1>1, AppendProperties
<1>3. s \in Seq(S) /\ Len(s) \in Nat /\ n \in Nat /\ n <= Len(s) /\ k \in 1 .. Len(mem)
  <2>1. k \in 1 .. Len(mem) /\ n \in Nat /\ n <= Len(s)
    BY DEF InMemory
  <2>2. s \in Seq(S)
    BY <2>1, ElementOfSeq
  <2> QED
    BY <2>1, <2>2, LenProperties
<1>4. Len(mem) \in Nat
  BY LenProperties
<1>5. CASE n < Len(s)
  <2> DEFINE t == [s EXCEPT ![n + 1] = value]
             m == [mem EXCEPT ![k] = t]
  <2>1. p.mem = m /\ p.slice = [slice EXCEPT !.len = n + 1]
    <3>1. p = [mem |-> [mem EXCEPT ![k][n + 1] = value], slice |-> [slice EXCEPT !.len = @ + 1]]
      BY <1>5 DEF Push
    <3> QED
      BY <3>1 DEF InMemory
  <2>2. n + 1 \in 1 .. Len(s)
    BY <1>3, <1>5
  <2> HIDE DEF s, p
  <2>3. /\ t \in Seq(S) /\ Len(t) = Len(s)
        /\ \A j \in 1 .. Len(s) : t[j] = IF j = n + 1 THEN value ELSE s[j]
    BY <1>3, <2>2, ExceptSeq
  <2> HIDE DEF t
  <2>4. /\ m \in Seq(Seq(S)) /\ Len(m) = Len(mem)
        /\ \A j \in 1 .. Len(mem) : m[j] = IF j = k THEN t ELSE mem[j]
    BY <1>3, <2>3, ExceptSeq
  <2>5. /\ p.slice \in [array : Nat, len : Nat]
        /\ p.slice.array = k /\ p.slice.len = n + 1
    <3>1. slice \in [array : Nat, len : Nat]
      BY DEF InMemory
    <3> QED
      BY <2>1, <3>1
  <2> HIDE DEF m
  <2>6. InMemory(m, p.slice)
    BY <1>3, <2>2, <2>3, <2>4, <2>5 DEF InMemory
  <2>7. /\ Contents(m, p.slice) \in Seq(S)
        /\ Len(Contents(m, p.slice)) = n + 1
        /\ \A i \in 1 .. n + 1 : Contents(m, p.slice)[i] = t[i]
    <3>1. m[p.slice.array] = t
      BY <1>3, <2>4, <2>5
    <3>2. m \in Seq(Seq(S))
      BY <2>4
    <3>3. /\ Contents(m, p.slice) \in Seq(S)
          /\ Len(Contents(m, p.slice)) = p.slice.len
          /\ \A i \in 1 .. p.slice.len : Contents(m, p.slice)[i] = m[p.slice.array][i]
      BY <2>6, <3>2, ContentsOfSlice
    <3> QED
      BY <2>5, <3>1, <3>3
  <2>8. \A i \in 1 .. n + 1 : t[i] = Append(c, value)[i]
    <3> SUFFICES ASSUME NEW i \in 1 .. n + 1 PROVE t[i] = Append(c, value)[i]
      OBVIOUS
    <3>1. i \in 1 .. Len(s) /\ (i = n + 1 \/ (i \in 1 .. n /\ i # n + 1))
      <4>1. n \in Nat /\ n + 1 <= Len(s) /\ Len(s) \in Nat
        BY <1>3, <2>2
      <4> HIDE DEF n
      <4> QED
        BY <4>1
    <3> QED
      BY <1>1, <1>2, <2>3, <3>1 DEF s
  <2>9. Contents(m, p.slice) = Append(c, value)
    BY <1>2, <2>7, <2>8, SeqEqual
  <2>10. \A i \in 1 .. Len(mem) : i # k \/ n = Len(mem[i]) => m[i] = mem[i]
    BY <1>3, <1>5, <2>4 DEF s
  <2> QED
    <3>1. /\ p.mem \in Seq(Seq(S)) /\ Len(p.mem) >= Len(mem)
      BY <1>4, <2>1, <2>4
    <3>2. /\ InMemory(p.mem, p.slice)
          /\ Contents(p.mem, p.slice) = Append(c, value)
          /\ \A i \in 1 .. Len(mem) : i # k \/ n = Len(mem[i]) => p.mem[i] = mem[i]
      BY <2>1, <2>6, <2>9, <2>10
    <3> QED
      BY <3>1, <3>2 DEF p
<1>6. CASE ~(n < Len(s))
  <2>1. p = Allocate(mem, Append(c, value), spare)
    BY <1>6 DEF Push
  <2> HIDE DEF c
  <2>2. /\ p.mem \in Seq(Seq(S)) /\ Len(p.mem) = Len(mem) + 1
        /\ \A i \in 1 .. Len(mem) : p.mem[i] = mem[i]
        /\ InMemory(p.mem, p.slice) /\ Contents(p.mem, p.slice) = Append(c, value)
    <3> DEFINE a == Append(c, value)
    <3>1. p = Allocate(mem, a, spare) /\ a \in Seq(S)
      BY <1>2, <2>1
    <3> HIDE DEF p, a
    <3>2. /\ p.mem \in Seq(Seq(S)) /\ Len(p.mem) = Len(mem) + 1
          /\ \A i \in 1 .. Len(mem) : p.mem[i] = mem[i]
          /\ InMemory(p.mem, p.slice) /\ Contents(p.mem, p.slice) = a
      BY <3>1, AllocateAdds
    <3> QED
      BY <3>2 DEF a
  <2> QED
    BY <1>4, <2>2 DEF c
<1> QED
  BY <1>5, <1>6

\* clone leaves every array that was there as it is, and its own slices show what
\* those of the handler show, in arrays that no other slice has.
LEMMA CloneCopies ==
    ASSUME NEW S, "unused" \in S, arrays \in Seq(Seq(S)), Len(arrays) >= 1, arrays[1] = << >>,
           NEW h \in DOMAIN handlers,
           InMemory(arrays, handlers[h].attrs), InMemory(arrays, handlers[h].groups),
           NEW spare \in Spares
    PROVE  LET c == clone(h, spare)
           IN  /\ c.mem \in Seq(Seq(S)) /\ Len(c.mem) >= Len(arrays)
               /\ \A i \in 1 .. Len(arrays) : c.mem[i] = arrays[i]
               /\ InMemory(c.mem, c.attrs) /\ InMemory(c.mem, c.groups)
               /\ Contents(c.mem, c.attrs) = Contents(arrays, handlers[h].attrs)
               /\ Contents(c.mem, c.groups) = Contents(arrays, handlers[h].groups)
               /\ c.attrs = Nil \/ c.attrs.array > Len(arrays)
               /\ c.groups = Nil \/ c.groups.array > Len(arrays)
               /\ c.attrs.array # c.groups.array \/ (c.attrs = Nil /\ c.groups = Nil)
<1> DEFINE c == clone(h, spare)
           a == Copy(arrays, handlers[h].attrs, spare)
           g == Copy(a.mem, handlers[h].groups, spare)
<1>1. ASSUME NEW mem \in Seq(Seq(S)), Len(mem) >= 1, mem[1] = << >>,
             NEW slice, InMemory(mem, slice)
      PROVE  LET p == Copy(mem, slice, spare)
             IN  /\ p.mem \in Seq(Seq(S)) /\ Len(p.mem) >= Len(mem)
                 /\ \A i \in 1 .. Len(mem) : p.mem[i] = mem[i]
                 /\ InMemory(p.mem, p.slice)
                 /\ Contents(p.mem, p.slice) = Contents(mem, slice)
                 /\ p.slice = Nil \/ (p.slice.array = Len(mem) + 1 /\ Len(p.mem) = Len(mem) + 1)
  <2> DEFINE p == Copy(mem, slice, spare)
  <2>1. Len(mem) \in Nat
    BY LenProperties
  <2>2. CASE slice.len = 0
    <3>1. p.mem = mem /\ p.slice = Nil
      BY <2>2 DEF Copy
    <3>2. InMemory(mem, Nil)
      BY <1>1, <2>1 DEF InMemory, Nil
    <3>3. Contents(mem, Nil) = << >> /\ Contents(mem, slice) = << >>
      BY <2>2, SubSeqEmpty DEF Contents, Nil
    <3> QED
      BY <2>1, <3>1, <3>2, <3>3
  <2>3. CASE slice.len # 0
    <3> DEFINE values == Contents(mem, slice)
    <3>1. p = Allocate(mem, values, spare)
      BY <2>3 DEF Copy
    <3>2. values \in Seq(S)
      BY <1>1, ContentsOfSlice
    <3> HIDE DEF values, p
    <3>3. /\ p.mem \in Seq(Seq(S)) /\ Len(p.mem) = Len(mem) + 1
          /\ \A i \in 1 .. Len(mem) : p.mem[i] = mem[i]
          /\ p.slice.array = Len(mem) + 1
          /\ InMemory(p.mem, p.slice) /\ Contents(p.mem, p.slice) = values
      <4>1. LET q == Allocate(mem, values, spare)
            IN  /\ q.mem \in Seq(Seq(S)) /\ Len(q.mem) = Len(mem) + 1
                /\ \A i \in 1 .. Len(mem) : q.mem[i] = mem[i]
                /\ q.slice.array = Len(mem) + 1
                /\ InMemory(q.mem, q.slice) /\ Contents(q.mem, q.slice) = values
        BY <3>2, AllocateAdds
      <4> QED
        BY <3>1, <4>1
    <3> QED
      BY <2>1, <3>3 DEF p, values
  <2> QED
    BY <2>2, <2>3
<1>2. /\ a.mem \in Seq(Seq(S)) /\ Len(a.mem) >= Len(arrays)
      /\ \A i \in 1 .. Len(arrays) : a.mem[i] = arrays[i]
      /\ InMemory(a.mem, a.slice)
      /\ Contents(a.mem, a.slice) = Contents(arrays, handlers[h].attrs)
      /\ a.slice = Nil \/ (a.slice.array = Len(arrays) + 1 /\ Len(a.mem) = Len(arrays) + 1)
  BY <1>1
<1>3. Len(arrays) \in Nat /\ Len(a.mem) \in Nat
  BY <1>2, LenProperties
<1>4. c = [mem |-> g.mem, attrs |-> a.slice, groups |-> g.slice]
  BY DEF clone
<1> HIDE DEF a
<1>5. /\ Len(a.mem) >= 1 /\ a.mem[1] = << >>
  BY <1>2, <1>3
<1>6. /\ InMemory(a.mem, handlers[h].groups)
      /\ Contents(a.mem, handlers[h].groups) = Contents(arrays, handlers[h].groups)
  <2>1. handlers[h].groups.array \in 1 .. Len(arrays)
    BY DEF InMemory
  <2> QED
    BY <1>2, <1>3, <2>1, SliceStays
<1>7. /\ g.mem \in Seq(Seq(S)) /\ Len(g.mem) >= Len(a.mem)
      /\ \A i \in 1 .. Len(a.mem) : g.mem[i] = a.mem[i]
      /\ InMemory(g.mem, g.slice)
      /\ Contents(g.mem, g.slice) = Contents(arrays, handlers[h].groups)
      /\ g.slice = Nil \/ g.slice.array = Len(a.mem) + 1
  BY <1>1, <1>2, <1>5, <1>6
<1> HIDE DEF g
<1>8. Len(g.mem) \in Nat
  BY <1>7, LenProperties
<1>9. /\ Len(g.mem) >= Len(arrays)
      /\ \A i \in 1 .. Len(arrays) : g.mem[i] = arrays[i]
  <2>1. Len(g.mem) >= Len(arrays)
    BY <1>2, <1>3, <1>7, <1>8
  <2>2. 1 .. Len(arrays) \subseteq 1 .. Len(a.mem)
    BY <1>2, <1>3
  <2> QED
    BY <1>2, <1>7, <2>1, <2>2
<1>10. /\ InMemory(g.mem, a.slice)
       /\ Contents(g.mem, a.slice) = Contents(arrays, handlers[h].attrs)
  <2>1. a.slice.array \in 1 .. Len(a.mem)
    BY <1>2 DEF InMemory
  <2> QED
    BY <1>2, <1>3, <1>7, <1>8, <2>1, SliceStays
<1>11. /\ a.slice = Nil \/ a.slice.array > Len(arrays)
       /\ g.slice = Nil \/ g.slice.array > Len(arrays)
       /\ a.slice.array # g.slice.array \/ (a.slice = Nil /\ g.slice = Nil)
  <2>1. a.slice.array \in 1 .. Len(a.mem)
    BY <1>2 DEF InMemory
  <2>2. a.slice = Nil \/ a.slice.array > Len(arrays)
    <3>1. a.slice = Nil \/ a.slice.array = Len(arrays) + 1
      BY <1>2
    <3> QED
      BY <1>3, <3>1
  <2>3. g.slice = Nil \/ (g.slice.array > Len(arrays) /\ g.slice.array > a.slice.array)
    <3>1. g.slice = Nil \/ g.slice.array = Len(a.mem) + 1
      BY <1>7
    <3>2. Len(a.mem) >= Len(arrays)
      BY <1>2
    <3> QED
      BY <1>3, <2>1, <3>1, <3>2
  <2>4. CASE g.slice = Nil /\ a.slice # Nil
    <3>1. g.slice.array = 1 /\ a.slice.array > 1
      <4>1. a.slice.array > Len(arrays)
        BY <2>2, <2>4
      <4>2. Nil.array = 1
        BY DEF Nil
      <4> QED
        BY <1>3, <2>1, <2>4, <4>1, <4>2
    <3> QED
      BY <2>2, <2>4, <3>1
  <2>5. CASE g.slice # Nil
    <3>1. g.slice.array # a.slice.array
      BY <1>3, <2>1, <2>3, <2>5
    <3> QED
      BY <2>2, <2>3, <3>1
  <2> QED
    BY <2>2, <2>4, <2>5
<1> HIDE DEF c
<1> QED
  BY <1>4, <1>7, <1>9, <1>10, <1>11 DEF c

-----------------------------------------------------------------------------
(* Deriving handlers *)

Cells == Given \union Names \union {"unused"}

History == [attrs : Seq([attr : Given, under : Nat]), groups : Seq(Names)]

Slices == [array : Nat, len : Nat]

\* What a history says that a handler holds.
Holds(mem, handler, history) ==
    /\ InMemory(mem, handler.attrs) /\ InMemory(mem, handler.groups)
    /\ Contents(mem, handler.attrs) = [i \in DOMAIN history.attrs |-> history.attrs[i].attr]
    /\ Contents(mem, handler.groups) = history.groups

\* The first array is that of the empty slices: it has no cell that could be written.
DerivationInv ==
    /\ arrays \in Seq(Seq(Cells)) /\ Len(arrays) >= 1 /\ arrays[1] = << >>
    /\ handlers \in Seq([attrs : Slices, groups : Slices])
    /\ derived \in Seq(History) /\ Len(derived) = Len(handlers)
    /\ \A h \in DOMAIN handlers : Holds(arrays, handlers[h], derived[h])

\* A handler more, in a memory where the arrays that were there are as before.
LEMMA HandlerAdded ==
    ASSUME DerivationInv,
           NEW mem \in Seq(Seq(Cells)), Len(mem) >= Len(arrays),
           \A i \in 1 .. Len(arrays) : mem[i] = arrays[i],
           NEW handler \in [attrs : Slices, groups : Slices], NEW history \in History,
           Holds(mem, handler, history),
           arrays' = mem, handlers' = Append(handlers, handler), derived' = Append(derived, history)
    PROVE  DerivationInv'
<1> DEFINE n == Len(handlers)
<1>1. /\ handlers' \in Seq([attrs : Slices, groups : Slices]) /\ Len(handlers') = n + 1
      /\ \A h \in 1 .. n : handlers'[h] = handlers[h]
      /\ handlers'[n + 1] = handler
  BY AppendProperties DEF DerivationInv
<1>2. /\ derived' \in Seq(History) /\ Len(derived') = n + 1
      /\ \A h \in 1 .. n : derived'[h] = derived[h]
      /\ derived'[n + 1] = history
  <2>1. derived \in Seq(History) /\ Len(derived) = n
    BY DEF DerivationInv
  <2> HIDE DEF n
  <2>2. /\ Append(derived, history) \in Seq(History)
        /\ Len(Append(derived, history)) = n + 1
        /\ \A h \in 1 .. n : Append(derived, history)[h] = derived[h]
        /\ Append(derived, history)[n + 1] = history
    BY <2>1, AppendProperties
  <2> QED
    BY <2>2
<1>3. /\ Len(arrays) \in Nat /\ Len(mem) \in Nat /\ n \in Nat
      /\ DOMAIN handlers = 1 .. n /\ DOMAIN handlers' = 1 .. n + 1
  BY <1>1, LenProperties DEF DerivationInv
<1>4. Len(mem) >= 1 /\ mem[1] = << >>
  <2>1. Len(arrays) >= 1 /\ arrays[1] = << >>
    BY DEF DerivationInv
  <2>2. 1 \in 1 .. Len(arrays)
    BY <1>3, <2>1
  <2> QED
    BY <1>3, <2>1, <2>2
<1>5. ASSUME NEW h \in DOMAIN handlers' PROVE Holds(arrays', handlers'[h], derived'[h])
  <2>1. CASE h = n + 1
    BY <1>1, <1>2, <2>1
  <2>2. CASE h # n + 1
    <3>1. h \in 1 .. n
      <4> HIDE DEF n
      <4> QED
        BY <1>3, <1>5, <2>2
    <3>2. handlers'[h] = handlers[h] /\ derived'[h] = derived[h]
      BY <1>1, <1>2, <3>1
    <3>3. Holds(arrays, handlers[h], derived[h])
      BY <1>3, <3>1 DEF DerivationInv
    <3>4. ASSUME NEW slice, InMemory(arrays, slice)
          PROVE  InMemory(mem, slice) /\ Contents(mem, slice) = Contents(arrays, slice)
      <4>1. mem[slice.array] = arrays[slice.array]
        BY <3>4 DEF InMemory
      <4> QED
        BY <1>3, <3>4, <4>1, SliceStays
    <3> QED
      BY <3>2, <3>3, <3>4 DEF Holds
  <2> QED
    BY <2>1, <2>2
<1> QED
  BY <1>1, <1>2, <1>4, <1>5 DEF DerivationInv

\* What a memory and a slice are after a value was appended to a slice of mem: the
\* arrays of the handlers are as they were, and so is the other slice.
Appended(p, mem, slice, other, value) ==
    /\ p.mem \in Seq(Seq(Cells)) /\ Len(p.mem) >= Len(arrays)
    /\ \A i \in 1 .. Len(arrays) : p.mem[i] = arrays[i]
    /\ InMemory(p.mem, p.slice) /\ InMemory(p.mem, other)
    /\ p.slice \in Slices /\ other \in Slices
    /\ Contents(p.mem, p.slice) = Append(Contents(mem, slice), value)
    /\ Contents(p.mem, other) = Contents(mem, other)

\* What is appended to a slice of a clone is written to no array that a handler had,
\* nor to that of the clone's other slice.
LEMMA CloneExtended ==
    ASSUME DerivationInv, NEW h \in DOMAIN handlers, NEW spare \in Spares, NEW value \in Cells
    PROVE  LET c == clone(h, spare)
           IN  /\ Appended(Push(c.mem, c.attrs, value, spare), c.mem, c.attrs, c.groups, value)
               /\ Appended(Push(c.mem, c.groups, value, spare), c.mem, c.groups, c.attrs, value)
<1> DEFINE c == clone(h, spare)
           mem == c.mem
<1>1. "unused" \in Cells
  BY DEF Cells
<1>2. /\ arrays \in Seq(Seq(Cells)) /\ Len(arrays) >= 1 /\ arrays[1] = << >>
      /\ InMemory(arrays, handlers[h].attrs) /\ InMemory(arrays, handlers[h].groups)
  BY DEF DerivationInv, Holds
<1>3. /\ mem \in Seq(Seq(Cells)) /\ Len(mem) >= Len(arrays)
      /\ \A i \in 1 .. Len(arrays) : mem[i] = arrays[i]
      /\ InMemory(mem, c.attrs) /\ InMemory(mem, c.groups)
      /\ c.attrs = Nil \/ c.attrs.array > Len(arrays)
      /\ c.groups = Nil \/ c.groups.array > Len(arrays)
      /\ c.attrs.array # c.groups.array \/ (c.attrs = Nil /\ c.groups = Nil)
  BY <1>1, <1>2, CloneCopies
<1> HIDE DEF c, mem
<1>4. ASSUME NEW slice, NEW other, InMemory(mem, slice), InMemory(mem, other),
             slice = Nil \/ slice.array > Len(arrays),
             slice.array # other.array \/ (slice = Nil /\ other = Nil)
      PROVE  Appended(Push(mem, slice, value, spare), mem, slice, other, value)
  <2> DEFINE p == Push(mem, slice, value, spare)
  <2>1. /\ p.mem \in Seq(Seq(Cells)) /\ Len(p.mem) >= Len(mem)
        /\ \A i \in 1 .. Len(mem) : i # slice.array \/ slice.len = Len(mem[i]) => p.mem[i] = mem[i]
        /\ InMemory(p.mem, p.slice)
        /\ Contents(p.mem, p.slice) = Append(Contents(mem, slice), value)
    BY <1>1, <1>3, <1>4, PushAppends
  <2> HIDE DEF p
  <2>2. Len(arrays) \in Nat /\ Len(mem) \in Nat /\ Len(p.mem) \in Nat
    BY <1>2, <1>3, <2>1, LenProperties
  <2>3. slice = Nil => slice.array = 1 /\ slice.len = 0 /\ Len(mem[1]) = 0
    <3>1. 1 \in 1 .. Len(arrays)
      BY <1>2, <2>2
    <3>2. mem[1] = << >>
      BY <1>2, <1>3, <3>1
    <3> QED
      BY <3>2 DEF Nil
  <2>4. ASSUME NEW i \in 1 .. Len(arrays) PROVE p.mem[i] = arrays[i]
    <3>1. i \in 1 .. Len(mem)
      BY <1>3, <2>2
    <3>2. i # slice.array \/ slice.len = Len(mem[i])
      BY <1>4, <2>2, <2>3
    <3> QED
      BY <1>3, <2>1, <3>1, <3>2
  <2>5. InMemory(p.mem, other) /\ Contents(p.mem, other) = Contents(mem, other)
    <3>1. other.array \in 1 .. Len(mem)
      BY <1>4 DEF InMemory
    <3>2. other.array # slice.array \/ slice.len = Len(mem[other.array])
      BY <1>4, <2>3
    <3>3. p.mem[other.array] = mem[other.array]
      BY <2>1, <3>1, <3>2
    <3> QED
      BY <1>4, <2>1, <2>2, <3>3, SliceStays
  <2>6. p.slice \in Slices /\ other \in Slices
    BY <1>4, <2>1 DEF InMemory, Slices
  <2>7. Len(p.mem) >= Len(arrays)
    BY <1>3, <2>1, <2>2
  <2> QED
    BY <2>1, <2>4, <2>5, <2>6, <2>7 DEF p, Appended
<1> DEFINE a == Push(mem, c.attrs, value, spare)
           g == Push(mem, c.groups, value, spare)
<1>5. Appended(a, mem, c.attrs, c.groups, value)
  BY <1>3, <1>4
<1>6. Appended(g, mem, c.groups, c.attrs, value)
  BY <1>3, <1>4
<1> QED
  BY <1>5, <1>6 DEF c, mem

\* The attributes of a history, with one more.
LEMMA AttributeAdded ==
    ASSUME NEW s \in Seq([attr : Given, under : Nat]), NEW r \in [attr : Given, under : Nat]
    PROVE  Append([i \in DOMAIN s |-> s[i].attr], r.attr) =
              [i \in DOMAIN Append(s, r) |-> Append(s, r)[i].attr]
<1> DEFINE n == Len(s)
           t == Append(s, r)
           before == [i \in DOMAIN s |-> s[i].attr]
           after == [i \in DOMAIN t |-> t[i].attr]
<1>1. n \in Nat /\ DOMAIN s = 1 .. n /\ \A i \in 1 .. n : s[i].attr \in Given
  <2>1. n \in Nat /\ DOMAIN s = 1 .. n
    BY LenProperties
  <2>2. ASSUME NEW i \in 1 .. n PROVE s[i].attr \in Given
    <3>1. s[i] \in [attr : Given, under : Nat]
      BY ElementOfSeq
    <3> QED
      BY <3>1
  <2> QED
    BY <2>1, <2>2
<1>2. /\ DOMAIN t = 1 .. n + 1
      /\ \A i \in 1 .. n : t[i] = s[i]
      /\ t[n + 1] = r
  BY AppendProperties, LenProperties
<1> HIDE DEF n, t
<1>3. before \in Seq(Given) /\ Len(before) = n /\ \A i \in 1 .. n : before[i] = s[i].attr
  <2>1. before \in [1 .. n -> Given] /\ \A i \in 1 .. n : before[i] = s[i].attr
    BY <1>1
  <2> HIDE DEF before
  <2>2. n \in Nat
    BY <1>1
  <2> QED
    BY <2>1, <2>2, LengthOf
<1>4. after \in Seq(Given) /\ Len(after) = n + 1 /\ \A i \in 1 .. n + 1 : after[i] = t[i].attr
  <2>1. \A i \in 1 .. n + 1 : t[i].attr \in Given
    <3> SUFFICES ASSUME NEW i \in 1 .. n + 1 PROVE t[i].attr \in Given
      OBVIOUS
    <3>1. i \in 1 .. n \/ i = n + 1
      BY <1>1
    <3> QED
      BY <1>1, <1>2, <3>1
  <2>2. after \in [1 .. n + 1 -> Given] /\ \A i \in 1 .. n + 1 : after[i] = t[i].attr
    BY <1>2, <2>1
  <2> HIDE DEF after
  <2>3. n + 1 \in Nat
    BY <1>1
  <2> QED
    BY <2>2, <2>3, LengthOf
<1> HIDE DEF before, after
<1> DEFINE both == Append(before, r.attr)
<1>5. /\ both \in Seq(Given) /\ Len(both) = n + 1
      /\ \A i \in 1 .. n : both[i] = before[i]
      /\ both[n + 1] = r.attr
  <2>1. r.attr \in Given
    OBVIOUS
  <2> QED
    BY <1>3, <2>1, AppendProperties
<1> HIDE DEF both
<1>6. \A i \in 1 .. n + 1 : both[i] = after[i]
  <2> SUFFICES ASSUME NEW i \in 1 .. n + 1 PROVE both[i] = after[i]
    OBVIOUS
  <2>1. after[i] = t[i].attr
    BY <1>4
  <2>2. CASE i \in 1 .. n
    BY <1>2, <1>3, <1>5, <2>1, <2>2
  <2>3. CASE i = n + 1
    BY <1>2, <1>5, <2>1, <2>3
  <2> QED
    BY <1>1, <2>2, <2>3
<1>7. both = after
  BY <1>4, <1>5, <1>6, SeqEqual
<1> QED
  BY <1>7 DEF both, before, after, t

\* Deriving a handler keeps what the handlers hold.
LEMMA WithAttrsKeeps ==
    ASSUME DerivationInv, NEW h \in DOMAIN handlers, NEW attr \in Given, WithAttrs(h, attr)
    PROVE  DerivationInv'
<1>1. PICK spare \in Spares :
         LET c == clone(h, spare)
             p == Push(c.mem, c.attrs, attr, spare)
         IN  /\ arrays' = p.mem
             /\ handlers' = Append(handlers, [attrs |-> p.slice, groups |-> c.groups])
  BY DEF WithAttrs
<1> DEFINE c == clone(h, spare)
           p == Push(c.mem, c.attrs, attr, spare)
           r == [attr |-> attr, under |-> Len(derived[h].groups)]
           history == [derived[h] EXCEPT !.attrs = Append(@, r)]
           handler == [attrs |-> p.slice, groups |-> c.groups]
<1>2. arrays' = p.mem /\ handlers' = Append(handlers, handler)
  BY <1>1
<1>3. derived' = Append(derived, history)
  BY DEF WithAttrs, Derives
<1>4. derived[h] \in History /\ Holds(arrays, handlers[h], derived[h])
  <2>1. h \in 1 .. Len(derived)
    BY LenProperties DEF DerivationInv
  <2> QED
    BY <2>1, ElementOfSeq DEF DerivationInv
<1>5. attr \in Cells /\ "unused" \in Cells
  BY DEF Cells
<1>6. /\ p.mem \in Seq(Seq(Cells)) /\ Len(p.mem) >= Len(arrays)
      /\ \A i \in 1 .. Len(arrays) : p.mem[i] = arrays[i]
      /\ InMemory(p.mem, p.slice) /\ InMemory(p.mem, c.groups)
      /\ p.slice \in Slices /\ c.groups \in Slices
      /\ Contents(p.mem, p.slice) = Append(Contents(c.mem, c.attrs), attr)
      /\ Contents(p.mem, c.groups) = Contents(c.mem, c.groups)
  <2>1. Appended(Push(c.mem, c.attrs, attr, spare), c.mem, c.attrs, c.groups, attr)
    BY <1>5, CloneExtended
  <2> HIDE DEF c
  <2> QED
    BY <2>1 DEF Appended
<1>7. /\ Contents(c.mem, c.attrs) = Contents(arrays, handlers[h].attrs)
      /\ Contents(c.mem, c.groups) = Contents(arrays, handlers[h].groups)
  <2>1. /\ arrays \in Seq(Seq(Cells)) /\ Len(arrays) >= 1 /\ arrays[1] = << >>
        /\ InMemory(arrays, handlers[h].attrs) /\ InMemory(arrays, handlers[h].groups)
    BY <1>4 DEF DerivationInv, Holds
  <2> QED
    BY <1>5, <2>1, CloneCopies
<1> HIDE DEF c, p
<1>8. /\ r \in [attr : Given, under : Nat] /\ r.attr = attr
      /\ derived[h].attrs \in Seq([attr : Given, under : Nat])
  <2>1. derived[h].groups \in Seq(Names) /\ derived[h].attrs \in Seq([attr : Given, under : Nat])
    BY <1>4 DEF History
  <2>2. Len(derived[h].groups) \in Nat
    BY <2>1, LenProperties
  <2> QED
    BY <2>1, <2>2
<1> HIDE DEF r
<1>9. /\ history \in History
      /\ history.attrs = Append(derived[h].attrs, r) /\ history.groups = derived[h].groups
  <2>1. Append(derived[h].attrs, r) \in Seq([attr : Given, under : Nat])
    BY <1>8, AppendProperties
  <2> QED
    BY <1>4, <2>1 DEF History
<1> HIDE DEF history
<1>10. Holds(p.mem, handler, history)
  <2>1. Append([i \in DOMAIN derived[h].attrs |-> derived[h].attrs[i].attr], attr)
           = [i \in DOMAIN history.attrs |-> history.attrs[i].attr]
    BY <1>8, <1>9, AttributeAdded
  <2>2. /\ Contents(arrays, handlers[h].attrs) = [i \in DOMAIN derived[h].attrs |-> derived[h].attrs[i].attr]
        /\ Contents(arrays, handlers[h].groups) = derived[h].groups
    BY <1>4 DEF Holds
  <2>3. Contents(p.mem, p.slice) = [i \in DOMAIN history.attrs |-> history.attrs[i].attr]
    BY <1>6, <1>7, <2>1, <2>2
  <2> QED
    BY <1>6, <1>7, <1>9, <2>2, <2>3 DEF Holds
<1>11. handler \in [attrs : Slices, groups : Slices]
  BY <1>6
<1> HIDE DEF handler
<1> QED
  BY <1>2, <1>3, <1>6, <1>9, <1>10, <1>11, HandlerAdded

\* So does opening a group.
LEMMA WithGroupKeeps ==
    ASSUME DerivationInv, NEW h \in DOMAIN handlers, NEW name \in Names, WithGroup(h, name)
    PROVE  DerivationInv'
<1>1. PICK spare \in Spares :
         LET c == clone(h, spare)
             p == Push(c.mem, c.groups, name, spare)
         IN  /\ arrays' = p.mem
             /\ handlers' = Append(handlers, [attrs |-> c.attrs, groups |-> p.slice])
  BY DEF WithGroup
<1> DEFINE c == clone(h, spare)
           p == Push(c.mem, c.groups, name, spare)
           history == [derived[h] EXCEPT !.groups = Append(@, name)]
           handler == [attrs |-> c.attrs, groups |-> p.slice]
<1>2. arrays' = p.mem /\ handlers' = Append(handlers, handler)
  BY <1>1
<1>3. derived' = Append(derived, history)
  BY DEF WithGroup, Derives
<1>4. derived[h] \in History /\ Holds(arrays, handlers[h], derived[h])
  <2>1. h \in 1 .. Len(derived)
    BY LenProperties DEF DerivationInv
  <2> QED
    BY <2>1, ElementOfSeq DEF DerivationInv
<1>5. name \in Cells /\ "unused" \in Cells
  BY DEF Cells
<1>6. /\ p.mem \in Seq(Seq(Cells)) /\ Len(p.mem) >= Len(arrays)
      /\ \A i \in 1 .. Len(arrays) : p.mem[i] = arrays[i]
      /\ InMemory(p.mem, p.slice) /\ InMemory(p.mem, c.attrs)
      /\ p.slice \in Slices /\ c.attrs \in Slices
      /\ Contents(p.mem, p.slice) = Append(Contents(c.mem, c.groups), name)
      /\ Contents(p.mem, c.attrs) = Contents(c.mem, c.attrs)
  <2>1. Appended(Push(c.mem, c.groups, name, spare), c.mem, c.groups, c.attrs, name)
    BY <1>5, CloneExtended
  <2> HIDE DEF c
  <2> QED
    BY <2>1 DEF Appended
<1>7. /\ Contents(c.mem, c.attrs) = Contents(arrays, handlers[h].attrs)
      /\ Contents(c.mem, c.groups) = Contents(arrays, handlers[h].groups)
  <2>1. /\ arrays \in Seq(Seq(Cells)) /\ Len(arrays) >= 1 /\ arrays[1] = << >>
        /\ InMemory(arrays, handlers[h].attrs) /\ InMemory(arrays, handlers[h].groups)
    BY <1>4 DEF DerivationInv, Holds
  <2> QED
    BY <1>5, <2>1, CloneCopies
<1> HIDE DEF c, p
<1>8. /\ history \in History
      /\ history.groups = Append(derived[h].groups, name) /\ history.attrs = derived[h].attrs
  <2>1. Append(derived[h].groups, name) \in Seq(Names)
    BY <1>4, AppendProperties DEF History
  <2> QED
    BY <1>4, <2>1 DEF History
<1> HIDE DEF history
<1>9. Holds(p.mem, handler, history)
  <2>1. /\ Contents(arrays, handlers[h].attrs) = [i \in DOMAIN derived[h].attrs |-> derived[h].attrs[i].attr]
        /\ Contents(arrays, handlers[h].groups) = derived[h].groups
    BY <1>4 DEF Holds
  <2> QED
    BY <1>6, <1>7, <1>8, <2>1 DEF Holds
<1>10. handler \in [attrs : Slices, groups : Slices]
  BY <1>6
<1> HIDE DEF handler
<1> QED
  BY <1>2, <1>3, <1>6, <1>8, <1>9, <1>10, HandlerAdded

\* The steps of a record, or of a preview, derive nothing.
LEMMA LoggingDerivesNothing ==
    ASSUME NEW c,
           \/ \E level \in Levels, context \in {"none", "sampled", "unsampled"} : Handle(c, level, context)
           \/ Step(c) \/ PreviewBuilds(c) \/ PreviewSteps(c)
    PROVE  UNCHANGED derivation
BY DEF Handle, Step, SendLogs, Delegate, PreviewBuilds, PreviewSteps, UnchangedByPreview

\* What the handlers hold is what they were given.
THEOREM DerivationInvariance == Spec => []DerivationInv
<1>1. Init => DerivationInv
  <2> SUFFICES ASSUME Init PROVE DerivationInv
    OBVIOUS
  <2>1. /\ arrays = << << >> >>
        /\ handlers = << [attrs |-> Nil, groups |-> Nil] >>
        /\ derived = << [attrs |-> << >>, groups |-> << >>] >>
    BY DEF Init
  <2>2. /\ arrays \in Seq(Seq(Cells)) /\ Len(arrays) = 1 /\ arrays[1] = << >>
    <3>1. << >> \in Seq(Cells)
      BY EmptySeq
    <3> QED
      BY <2>1, <3>1, Singleton
  <2>3. /\ handlers \in Seq([attrs : Slices, groups : Slices])
        /\ Len(handlers) = 1 /\ DOMAIN handlers = 1 .. 1
        /\ handlers[1] = [attrs |-> Nil, groups |-> Nil]
    <3>1. Nil \in Slices
      BY DEF Nil, Slices
    <3>2. /\ handlers \in [1 .. 1 -> [attrs : Slices, groups : Slices]]
          /\ handlers[1] = [attrs |-> Nil, groups |-> Nil]
      BY <2>1, <3>1
    <3> QED
      BY <3>2, LengthOf
  <2>4. /\ derived \in Seq(History) /\ Len(derived) = 1
        /\ derived[1] = [attrs |-> << >>, groups |-> << >>]
    <3>1. << >> \in Seq([attr : Given, under : Nat]) /\ << >> \in Seq(Names)
      BY EmptySeq
    <3>2. [attrs |-> << >>, groups |-> << >>] \in History
      BY <3>1 DEF History
    <3>3. derived \in [1 .. 1 -> History] /\ derived[1] = [attrs |-> << >>, groups |-> << >>]
      BY <2>1, <3>2
    <3> QED
      BY <3>3, LengthOf
  <2>5. Holds(arrays, [attrs |-> Nil, groups |-> Nil], [attrs |-> << >>, groups |-> << >>])
    <3>1. Contents(arrays, Nil) = << >>
      BY SubSeqEmpty DEF Contents, Nil
    <3>2. InMemory(arrays, Nil)
      BY <2>2 DEF InMemory, Nil
    <3>3. [i \in DOMAIN << >> |-> << >>[i].attr] = << >>
      OBVIOUS
    <3> QED
      BY <3>1, <3>2, <3>3 DEF Holds
  <2> QED
    BY <2>2, <2>3, <2>4, <2>5 DEF DerivationInv
<1>2. DerivationInv /\ [Next]_vars => DerivationInv'
  <2> SUFFICES ASSUME DerivationInv, [Next]_vars PROVE DerivationInv'
    OBVIOUS
  <2>1. ASSUME NEW h \in DOMAIN handlers, NEW a \in Given, WithAttrs(h, a) PROVE DerivationInv'
    BY <2>1, WithAttrsKeeps
  <2>2. ASSUME NEW h \in DOMAIN handlers, NEW n \in Names, WithGroup(h, n) PROVE DerivationInv'
    BY <2>2, WithGroupKeeps
  <2>3. CASE StartLogging
    <3>1. arrays' = << << >> >> /\ handlers' = << >> /\ derived' = << >>
      BY <2>3 DEF StartLogging
    <3>2. arrays' \in Seq(Seq(Cells)) /\ Len(arrays') = 1 /\ arrays'[1] = << >>
      <4>1. << >> \in Seq(Cells)
        BY EmptySeq
      <4> QED
        BY <3>1, <4>1, Singleton
    <3>3. /\ handlers' \in Seq([attrs : Slices, groups : Slices]) /\ derived' \in Seq(History)
          /\ Len(derived') = Len(handlers') /\ DOMAIN handlers' = {}
      BY <3>1, EmptySeq
    <3> QED
      BY <3>2, <3>3 DEF DerivationInv
  <2>4. CASE UNCHANGED derivation
    BY <2>4 DEF derivation, DerivationInv, Holds, InMemory, Contents
  <2>5. ASSUME NEW r \in Records,
               \/ \E level \in Levels, context \in {"none", "sampled", "unsampled"} :
                     Handle(r, level, context)
               \/ Step(r)
        PROVE  UNCHANGED derivation
    BY <2>5, LoggingDerivesNothing
  <2>6. ASSUME NEW c \in Records \union Traces, PreviewBuilds(c) \/ PreviewSteps(c)
        PROVE  UNCHANGED derivation
    BY <2>6, LoggingDerivesNothing
  <2>7. CASE UNCHANGED vars
    BY <2>4, <2>7 DEF vars, derivation
  <2> QED
    BY <2>1, <2>2, <2>3, <2>4, <2>5, <2>6, <2>7 DEF Next
<1> QED
  BY <1>1, <1>2, PTL DEF Spec

\* Deriving a handler changes no other one, for any number of handlers, whatever room
\* append leaves in their arrays (WithAttrs, WithGroup, clone).
THEOREM Immutability == Spec => []HandlersImmutable
<1>1. DerivationInv => HandlersImmutable
  BY DEF DerivationInv, Holds, HandlersImmutable
<1> QED
  BY <1>1, DerivationInvariance, PTL

-----------------------------------------------------------------------------
(* Handle *)

\* Where a record is tells what was done with it.
RecordInv(r) ==
    LET e == entry[r]
    IN  /\ pc[r] # "idle" =>
              /\ setup # << >>
              /\ exported[r] = IF Captures(e.level) THEN Correlation(e.context) ELSE "none"
        /\ pc[r] = "delegating" => Enabled(e.level)
        /\ pc[r] = "sending" => Captures(e.level)
        /\ pc[r] # "returned" => result[r] = "none"
        /\ pc[r] = "idle" => exported[r] = "none"
        /\ pc[r] = "returned" =>
              result[r] \in IF e.level >= setup.wants THEN {"ok", "error", "panic"}
                            ELSE {"not asked", "none"}

Entries == {<< >>} \union [level : Levels, context : {"none", "sampled", "unsampled"}]

HandleInv ==
    /\ pc \in [Records -> {"idle", "sending", "delegating", "returned"}]
    /\ entry \in [Records -> Entries]
    /\ exported \in [Records -> {"none", "no ids", "flags 01", "flags 00"}]
    /\ result \in [Records -> {"none", "not asked", "ok", "error", "panic"}]
    /\ \A r \in Records : RecordInv(r)

\* A step that is not of a record leaves what is known of it.
LEMMA RecordKeeps ==
    ASSUME NEW r \in Records, RecordInv(r), setup # << >> \/ pc[r] = "idle",
           setup # << >> => setup' = setup,
           pc'[r] = pc[r], entry'[r] = entry[r], exported'[r] = exported[r], result'[r] = result[r]
    PROVE  RecordInv(r)'
<1>1. CASE setup # << >>
  BY <1>1 DEF RecordInv, Captures, Enabled, Correlation
<1>2. CASE pc[r] = "idle"
  BY <1>2 DEF RecordInv
<1> QED
  BY <1>1, <1>2

\* A step that moves a record on leaves the others.
LEMMA OtherRecordsKeep ==
    ASSUME HandleInv, NEW r \in Records, pc[r] # "idle" \/ setup # << >>, setup' = setup,
           pc' \in [Records -> {"idle", "sending", "delegating", "returned"}],
           entry' \in [Records -> Entries],
           exported' \in [Records -> {"none", "no ids", "flags 01", "flags 00"}],
           result' \in [Records -> {"none", "not asked", "ok", "error", "panic"}],
           \A q \in Records \ {r} : /\ pc'[q] = pc[q] /\ entry'[q] = entry[q]
                                    /\ exported'[q] = exported[q] /\ result'[q] = result[q],
           RecordInv(r)'
    PROVE  HandleInv'
<1>1. setup # << >>
  BY DEF HandleInv, RecordInv
<1>2. ASSUME NEW q \in Records \ {r} PROVE RecordInv(q)'
  <2>1. /\ pc'[q] = pc[q] /\ entry'[q] = entry[q]
        /\ exported'[q] = exported[q] /\ result'[q] = result[q]
    OBVIOUS
  <2>2. RecordInv(q)
    BY DEF HandleInv
  <2> QED
    BY <1>1, <2>1, <2>2, RecordKeeps
<1>3. \A q \in Records : RecordInv(q)'
  BY <1>2
<1> QED
  BY <1>3 DEF HandleInv

\* Taking a record in.
LEMMA HandleKeeps ==
    ASSUME HandleInv, NEW r \in Records, NEW level \in Levels,
           NEW context \in {"none", "sampled", "unsampled"}, Handle(r, level, context)
    PROVE  HandleInv'
<1> DEFINE to == IF ~Enabled(level) THEN "returned"
                 ELSE IF Captures(level) THEN "sending" ELSE "delegating"
           e == [level |-> level, context |-> context]
           sent == IF Captures(level) THEN Correlation(context) ELSE "none"
<1>1. /\ setup # << >> /\ setup' = setup /\ result' = result
      /\ pc[r] = "idle" /\ pc' = [pc EXCEPT ![r] = to]
      /\ entry' = [entry EXCEPT ![r] = e]
      /\ exported' = IF Captures(level) THEN [exported EXCEPT ![r] = Correlation(context)] ELSE exported
  BY DEF Handle, Goes
<1>2. exported[r] = "none" /\ result[r] = "none"
  BY <1>1 DEF HandleInv, RecordInv
<1>3. exported' = [exported EXCEPT ![r] = sent]
  <2>1. CASE Captures(level)
    BY <1>1, <2>1
  <2>2. CASE ~Captures(level)
    BY <1>1, <1>2, <2>2 DEF HandleInv
  <2> QED
    BY <2>1, <2>2
<1>4. /\ to \in {"sending", "delegating", "returned"}
      /\ e \in Entries
      /\ sent \in {"none", "no ids", "flags 01", "flags 00"}
  BY DEF Entries, Correlation
<1>5. /\ to = "sending" => Captures(level)
      /\ to = "delegating" => Enabled(level)
      /\ to = "returned" => ~(level >= setup.wants)
  BY DEF Enabled
<1>6. Captures(level)' = Captures(level) /\ Enabled(level)' = Enabled(level)
  BY <1>1 DEF Captures, Enabled
<1>7. e.level = level /\ e.context = context
  OBVIOUS
<1> HIDE DEF to, e
<1>8. /\ pc' \in [Records -> {"idle", "sending", "delegating", "returned"}] /\ pc'[r] = to
      /\ \A q \in Records \ {r} : pc'[q] = pc[q]
  BY <1>1, <1>4 DEF HandleInv
<1>9. /\ entry' \in [Records -> Entries] /\ entry'[r] = e
      /\ \A q \in Records \ {r} : entry'[q] = entry[q]
  BY <1>1, <1>4 DEF HandleInv
<1>10. /\ exported' \in [Records -> {"none", "no ids", "flags 01", "flags 00"}] /\ exported'[r] = sent
       /\ \A q \in Records \ {r} : exported'[q] = exported[q]
  <2> HIDE DEF sent
  <2> QED
    BY <1>3, <1>4 DEF HandleInv
<1>11. result' \in [Records -> {"none", "not asked", "ok", "error", "panic"}]
  BY <1>1 DEF HandleInv
<1>12. RecordInv(r)'
  <2>1. entry'[r].level = level /\ entry'[r].context = context
    BY <1>7, <1>9
  <2>2. exported'[r] = (IF Captures(level) THEN Correlation(context) ELSE "none")
    BY <1>10
  <2> QED
    BY <1>1, <1>2, <1>4, <1>5, <1>6, <1>8, <2>1, <2>2 DEF RecordInv, Correlation, Captures, Enabled
<1> QED
  BY <1>1, <1>8, <1>9, <1>10, <1>11, <1>12, OtherRecordsKeep

\* Sending a record on its way, and giving it to the next handler.
LEMMA StepKeeps ==
    ASSUME HandleInv, NEW r \in Records, Step(r)
    PROVE  HandleInv'
<1> USE DEF HandleInv
<1>1. CASE SendLogs(r)
  <2>1. /\ pc[r] = "sending" /\ pc' = [pc EXCEPT ![r] = "delegating"]
        /\ UNCHANGED << setup, entry, exported, result >>
    BY <1>1 DEF SendLogs, Goes
  <2>2. /\ pc' \in [Records -> {"idle", "sending", "delegating", "returned"}] /\ pc'[r] = "delegating"
        /\ \A q \in Records \ {r} : pc'[q] = pc[q]
    BY <2>1
  <2>3. RecordInv(r)'
    BY <2>1, <2>2 DEF RecordInv, Captures, Enabled, Correlation
  <2> QED
    BY <2>1, <2>2, <2>3, OtherRecordsKeep
<1>2. CASE Delegate(r)
  <2>1. PICK answer \in IF entry[r].level >= setup.wants THEN {"ok", "error", "panic"} ELSE {"not asked"} :
          result' = [result EXCEPT ![r] = answer]
    BY <1>2 DEF Delegate
  <2>2. /\ pc[r] = "delegating" /\ pc' = [pc EXCEPT ![r] = "returned"]
        /\ UNCHANGED << setup, entry, exported >>
    BY <1>2 DEF Delegate, Goes
  <2>3. /\ pc' \in [Records -> {"idle", "sending", "delegating", "returned"}] /\ pc'[r] = "returned"
        /\ \A q \in Records \ {r} : pc'[q] = pc[q]
    BY <2>2
  <2>4. /\ result' \in [Records -> {"none", "not asked", "ok", "error", "panic"}]
        /\ result'[r] = answer
        /\ \A q \in Records \ {r} : result'[q] = result[q]
    BY <2>1
  <2>5. RecordInv(r)'
    <3>1. /\ setup' # << >>
          /\ exported'[r] = (IF Captures(entry[r].level) THEN Correlation(entry[r].context) ELSE "none")
      BY <2>2 DEF RecordInv
    <3>2. Captures(entry[r].level)' = Captures(entry[r].level)
      BY <2>2 DEF Captures
    <3>3. result'[r] \in IF entry[r].level >= setup.wants THEN {"ok", "error", "panic"} ELSE {"not asked"}
      BY <2>1, <2>4
    <3> QED
      BY <2>2, <2>3, <3>1, <3>2, <3>3 DEF RecordInv, Correlation
  <2> QED
    BY <2>2, <2>3, <2>4, <2>5, OtherRecordsKeep
<1> QED
  BY <1>1, <1>2 DEF Step

\* A step that is of no record leaves them all, that which starts the logging too.
LEMMA NoRecordMoves ==
    ASSUME HandleInv, UNCHANGED << entry, pc, exported, result >>, setup = << >> \/ setup' = setup
    PROVE  HandleInv'
<1>1. ASSUME NEW r \in Records PROVE RecordInv(r)'
  <2>1. RecordInv(r)
    BY DEF HandleInv
  <2>2. setup # << >> \/ pc[r] = "idle"
    BY <2>1 DEF RecordInv
  <2> QED
    BY <2>1, <2>2, RecordKeeps
<1> QED
  BY <1>1 DEF HandleInv

\* What became of each record is told by where it is.
THEOREM HandleInvariance == Spec => []HandleInv
<1>1. Init => HandleInv
  BY DEF Init, HandleInv, RecordInv, Entries
<1>2. HandleInv /\ [Next]_vars => HandleInv'
  <2> SUFFICES ASSUME HandleInv, [Next]_vars PROVE HandleInv'
    OBVIOUS
  <2>1. ASSUME NEW h \in DOMAIN handlers,
               (\E a \in Given : WithAttrs(h, a)) \/ (\E n \in Names : WithGroup(h, n))
        PROVE  HandleInv'
    BY <2>1, NoRecordMoves DEF WithAttrs, WithGroup, Derives
  <2>2. CASE StartLogging
    BY <2>2, NoRecordMoves DEF StartLogging
  <2>3. ASSUME NEW r \in Records, NEW level \in Levels,
               NEW context \in {"none", "sampled", "unsampled"}, Handle(r, level, context)
        PROVE  HandleInv'
    BY <2>3, HandleKeeps
  <2>4. ASSUME NEW r \in Records, Step(r) PROVE HandleInv'
    BY <2>4, StepKeeps
  <2>5. ASSUME NEW c \in Records \union Traces, PreviewBuilds(c) \/ PreviewSteps(c) PROVE HandleInv'
    BY <2>5, NoRecordMoves DEF PreviewBuilds, PreviewSteps, UnchangedByPreview
  <2>6. CASE UNCHANGED vars
    BY <2>6, NoRecordMoves DEF vars
  <2> QED
    BY <2>1, <2>2, <2>3, <2>4, <2>5, <2>6 DEF Next
<1> QED
  BY <1>1, <1>2, PTL DEF Spec

\* A record for which Handle returned was exported if it qualifies and given to the next
\* handler if that wants it, whatever the transport did (Handle, captureSafely).
THEOREM BothDone == Spec => []HandleDoesBoth
<1>1. HandleInv => HandleDoesBoth
  BY DEF HandleInv, RecordInv, HandleDoesBoth
<1> QED
  BY <1>1, HandleInvariance, PTL

-----------------------------------------------------------------------------
(* The preview transport *)

\* The last Kept reports, or all.
LEMMA LatestShows ==
    ASSUME NEW S, NEW s \in Seq(S)
    PROVE  LET n == Len(s)
               k == IF n > Kept THEN Kept ELSE n
           IN  /\ k \in Nat /\ k <= n /\ n \in Nat
               /\ Preview!Latest(s) \in Seq(S) /\ Len(Preview!Latest(s)) = k
               /\ \A i \in 1 .. k : Preview!Latest(s)[i] = s[n - k + i]
<1> DEFINE n == Len(s)
           k == IF n > Kept THEN Kept ELSE n
           t == Preview!Latest(s)
<1>1. n \in Nat /\ Kept \in Nat
  BY LenProperties, PreviewAssumption
<1>2. k \in Nat /\ k <= n
  BY <1>1
<1>3. CASE n > Kept
  <2>1. t = SubSeq(s, n - Kept + 1, n) /\ k = Kept
    BY <1>3 DEF Preview!Latest
  <2>2. \A i \in n - Kept + 1 .. n : s[i] \in S
    <3>1. n - Kept + 1 .. n \subseteq 1 .. n
      BY <1>1, <1>3
    <3> QED
      BY <3>1, ElementOfSeq
  <2> HIDE DEF n, t, k
  <2>3. n - Kept + 1 \in Int /\ n \in Int
    BY <1>1
  <2>4. /\ t \in Seq(S)
        /\ Len(t) = IF n - Kept + 1 <= n THEN n - (n - Kept + 1) + 1 ELSE 0
        /\ \A i \in 1 .. n - (n - Kept + 1) + 1 : t[i] = s[(n - Kept + 1) + i - 1]
    BY <2>1, <2>2, <2>3, SubSeqProperties
  <2>5. n - (n - Kept + 1) + 1 = Kept /\ \A i \in 1 .. Kept : (n - Kept + 1) + i - 1 = n - Kept + i
    BY <1>1
  <2>6. /\ Len(t) = k
        /\ \A i \in 1 .. k : t[i] = s[n - k + i]
    BY <1>1, <2>1, <2>4, <2>5
  <2> QED
    BY <1>1, <1>2, <2>4, <2>6 DEF n, t, k
<1>4. CASE ~(n > Kept)
  <2>1. t = s /\ k = n
    BY <1>4 DEF Preview!Latest
  <2>2. \A i \in 1 .. n : n - n + i = i
    BY <1>1
  <2> QED
    BY <1>1, <1>2, <2>1, <2>2
<1> QED
  BY <1>3, <1>4

\* Cutting off the oldest before a report is added, and after, is as good as after.
LEMMA LatestOfLatest ==
    ASSUME NEW S, NEW s \in Seq(S), NEW e, NEW kind, e \in kind => e \in S
    PROVE  Preview!Latest(Preview!With(Preview!Latest(s), e, kind)) = Preview!Latest(Preview!With(s, e, kind))
<1> DEFINE l == Preview!Latest(s)
           n == Len(s)
           k == IF n > Kept THEN Kept ELSE n
<1>1. /\ k \in Nat /\ k <= n /\ n \in Nat
      /\ l \in Seq(S) /\ Len(l) = k
      /\ \A i \in 1 .. k : l[i] = s[n - k + i]
  BY LatestShows
<1>2. Kept \in Nat
  BY PreviewAssumption
<1>3. CASE e \notin kind
  <2>1. Preview!Latest(l) = l
    <3>1. ~(Len(l) > Kept)
      BY <1>1, <1>2
    <3> QED
      BY <3>1 DEF Preview!Latest
  <2> QED
    BY <1>3, <2>1 DEF Preview!With
<1>4. CASE e \in kind
  <2> DEFINE la == Append(l, e)
             sa == Append(s, e)
             m == IF n + 1 > Kept THEN Kept ELSE n + 1
  <2> HIDE DEF l
  <2>1. /\ la \in Seq(S) /\ Len(la) = k + 1
        /\ \A i \in 1 .. k : la[i] = l[i]
        /\ la[k + 1] = e
    <3> HIDE DEF k
    <3> QED
      BY <1>1, <1>4, AppendProperties
  <2>2. /\ sa \in Seq(S) /\ Len(sa) = n + 1
        /\ \A i \in 1 .. n : sa[i] = s[i]
        /\ sa[n + 1] = e
    BY <1>4, AppendProperties
  <2> HIDE DEF la, sa, n
  <2>3. m = (IF k + 1 > Kept THEN Kept ELSE k + 1) /\ m \in Nat /\ m <= k + 1
    BY <1>1, <1>2
  <2>4. /\ Preview!Latest(la) \in Seq(S) /\ Len(Preview!Latest(la)) = m
        /\ \A i \in 1 .. m : Preview!Latest(la)[i] = la[(k + 1) - m + i]
    <3> DEFINE p == IF Len(la) > Kept THEN Kept ELSE Len(la)
    <3>1. /\ Preview!Latest(la) \in Seq(S) /\ Len(Preview!Latest(la)) = p
          /\ \A i \in 1 .. p : Preview!Latest(la)[i] = la[Len(la) - p + i]
      BY <2>1, LatestShows
    <3>2. p = m /\ Len(la) = k + 1
      BY <2>1, <2>3
    <3> HIDE DEF k, m, p
    <3> QED
      BY <3>1, <3>2
  <2>5. /\ Preview!Latest(sa) \in Seq(S) /\ Len(Preview!Latest(sa)) = m
        /\ \A i \in 1 .. m : Preview!Latest(sa)[i] = sa[(n + 1) - m + i]
    BY <2>2, LatestShows
  <2>6. ASSUME NEW i \in 1 .. m PROVE la[(k + 1) - m + i] = sa[(n + 1) - m + i]
    <3> HIDE DEF k, m
    <3>1. CASE i = m
      <4>1. (k + 1) - m + i = k + 1 /\ (n + 1) - m + i = n + 1
        BY <1>1, <2>3, <3>1
      <4> QED
        BY <2>1, <2>2, <4>1
    <3>2. CASE i # m
      <4> DEFINE j == (k + 1) - m + i
      <4>1. j \in 1 .. k /\ n - k + j \in 1 .. n /\ (n + 1) - m + i = n - k + j
        BY <1>1, <2>3, <3>2
      <4> HIDE DEF j
      <4>2. la[j] = s[n - k + j] /\ sa[n - k + j] = s[n - k + j]
        BY <1>1, <2>1, <2>2, <4>1
      <4> QED
        BY <4>1, <4>2 DEF j
    <3> QED
      BY <3>1, <3>2
  <2>7. Preview!Latest(la) = Preview!Latest(sa)
    <3> HIDE DEF k, m
    <3>1. \A i \in 1 .. m : Preview!Latest(la)[i] = Preview!Latest(sa)[i]
      BY <2>4, <2>5, <2>6
    <3> QED
      BY <2>4, <2>5, <3>1, SeqEqual
  <2> QED
    BY <1>4, <2>7 DEF Preview!With, la, sa, l
<1> QED
  BY <1>3, <1>4

\* The reports of a kind that are kept while a call holds the mutex: its own is kept
\* before it is written.
Written(log, kind) ==
    IF mu # Nobody /\ preview[mu] \in {"write", "recovered"}
    THEN Preview!With(log, mu, kind) ELSE log

PreviewInv ==
    /\ mu \in Preview!Calls \union {Nobody}
    /\ preview \in [Preview!Calls -> {"idle", "lock", "write", "unlock", "recovered", "returned"}]
    /\ \A c \in Preview!Calls : preview[c] \in {"write", "unlock", "recovered"} => mu = c
    /\ mu # Nobody => preview[mu] \in {"write", "unlock", "recovered"}
    /\ written \in [traces : Seq(Traces), logs : Seq(Records)]
    /\ Reports = Preview!Latest(Written(written.traces, Traces))
    /\ LogReports = Preview!Latest(Written(written.logs, Records))

\* A step of a call that neither takes nor gives back the mutex, and writes nothing.
LEMMA OutsideTheLock ==
    ASSUME PreviewInv, NEW c \in Preview!Calls, NEW to \in {"lock", "returned"},
           preview[c] = "idle", preview' = [preview EXCEPT ![c] = to],
           UNCHANGED << mu, Reports, LogReports, written >>
    PROVE  PreviewInv'
<1>1. mu # c /\ Nobody \notin Preview!Calls
  BY PreviewAssumption DEF PreviewInv, Preview!Calls
<1>2. \A d \in Preview!Calls \ {c} : preview'[d] = preview[d]
  BY DEF PreviewInv
<1>3. preview'[c] = to
  BY DEF PreviewInv
<1>4. mu # Nobody => preview'[mu] = preview[mu]
  BY <1>1, <1>2 DEF PreviewInv
<1>5. Written(written.traces, Traces)' = Written(written.traces, Traces)
  BY <1>4 DEF Written, Preview!With
<1>6. Written(written.logs, Records)' = Written(written.logs, Records)
  BY <1>4 DEF Written, Preview!With
<1>7. \A d \in Preview!Calls : preview'[d] \in {"write", "unlock", "recovered"} => mu' = d
  BY <1>2, <1>3 DEF PreviewInv
<1>8. mu' # Nobody => preview'[mu'] \in {"write", "unlock", "recovered"}
  BY <1>4 DEF PreviewInv
<1>9. Reports' = Preview!Latest(Written(written.traces, Traces))'
  BY <1>5 DEF PreviewInv, Preview!Latest
<1>10. LogReports' = Preview!Latest(Written(written.logs, Records))'
  BY <1>6 DEF PreviewInv, Preview!Latest
<1> QED
  BY <1>7, <1>8, <1>9, <1>10 DEF PreviewInv

\* Keeping a report, with the mutex taken.
LEMMA LockKeeps ==
    ASSUME PreviewInv, NEW c \in Preview!Calls, Preview!Lock(c)
    PROVE  PreviewInv'
<1>1. /\ preview[c] = "lock" /\ preview' = [preview EXCEPT ![c] = "write"]
      /\ mu = Nobody /\ mu' = c /\ written' = written
      /\ Reports' = Preview!Latest(Preview!With(Reports, c, Traces))
      /\ LogReports' = Preview!Latest(Preview!With(LogReports, c, Records))
  BY DEF Preview!Lock, Preview!Goes
<1>2. c # Nobody
  BY PreviewAssumption DEF Preview!Calls
<1>3. preview'[c] = "write" /\ \A d \in Preview!Calls \ {c} : preview'[d] = preview[d]
  BY <1>1 DEF PreviewInv
<1>4. /\ Reports = Preview!Latest(written.traces) /\ LogReports = Preview!Latest(written.logs)
      /\ written.traces \in Seq(Traces) /\ written.logs \in Seq(Records)
  BY <1>1 DEF PreviewInv, Written
<1>5. /\ Written(written.traces, Traces)' = Preview!With(written.traces, c, Traces)
      /\ Written(written.logs, Records)' = Preview!With(written.logs, c, Records)
  BY <1>1, <1>2, <1>3 DEF Written, Preview!With
<1>6. Reports' = Preview!Latest(Preview!With(written.traces, c, Traces))
  <2>1. Preview!Latest(Preview!With(Preview!Latest(written.traces), c, Traces))
           = Preview!Latest(Preview!With(written.traces, c, Traces))
    BY <1>4, LatestOfLatest
  <2>2. Reports = Preview!Latest(written.traces)
    BY <1>4
  <2>3. Reports' = Preview!Latest(Preview!With(Reports, c, Traces))
    BY <1>1
  <2> QED
    BY <2>1, <2>2, <2>3
<1>7. LogReports' = Preview!Latest(Preview!With(written.logs, c, Records))
  <2>1. Preview!Latest(Preview!With(Preview!Latest(written.logs), c, Records))
           = Preview!Latest(Preview!With(written.logs, c, Records))
    BY <1>4, LatestOfLatest
  <2>2. LogReports = Preview!Latest(written.logs)
    BY <1>4
  <2>3. LogReports' = Preview!Latest(Preview!With(LogReports, c, Records))
    BY <1>1
  <2> QED
    BY <2>1, <2>2, <2>3
<1>8. \A d \in Preview!Calls : preview'[d] \in {"write", "unlock", "recovered"} => mu' = d
  BY <1>1, <1>3, PreviewAssumption DEF PreviewInv, Preview!Calls
<1>9. Reports' = Preview!Latest(Written(written.traces, Traces))'
  BY <1>5, <1>6 DEF Preview!Latest
<1>10. LogReports' = Preview!Latest(Written(written.logs, Records))'
  BY <1>5, <1>7 DEF Preview!Latest
<1> QED
  BY <1>1, <1>3, <1>8, <1>9, <1>10 DEF PreviewInv

\* Writing it, a writer that panics, and giving the mutex back.
LEMMA HolderKeeps ==
    ASSUME PreviewInv, NEW c \in Preview!Calls,
           Preview!Write(c) \/ Preview!WritePanics(c) \/ Preview!Unlock(c)
    PROVE  PreviewInv'
<1>1. mu = c /\ c # Nobody
  BY PreviewAssumption DEF PreviewInv, Preview!Calls, Preview!Write, Preview!WritePanics,
                           Preview!Unlock, Preview!Goes
<1>2. UNCHANGED << Reports, LogReports >>
  BY DEF Preview!Write, Preview!WritePanics, Preview!Unlock
<1>3. \A d \in Preview!Calls \ {c} :
         preview'[d] = preview[d] /\ preview[d] \notin {"write", "unlock", "recovered"}
  BY <1>1 DEF PreviewInv, Preview!Write, Preview!WritePanics, Preview!Unlock, Preview!Goes
<1>4. /\ written.traces \in Seq(Traces) /\ written.logs \in Seq(Records)
  BY DEF PreviewInv
<1>5. CASE Preview!Write(c)
  <2>1. /\ preview[c] = "write" /\ preview'[c] = "unlock" /\ mu' = mu
        /\ preview' \in [Preview!Calls -> {"idle", "lock", "write", "unlock", "recovered", "returned"}]
    BY <1>5 DEF PreviewInv, Preview!Write, Preview!Goes
  <2>2. written' = [traces |-> Preview!With(written.traces, c, Traces),
                    logs |-> Preview!With(written.logs, c, Records)]
    BY <1>5 DEF Preview!Write
  <2>3. /\ Reports = Preview!Latest(Preview!With(written.traces, c, Traces))
        /\ LogReports = Preview!Latest(Preview!With(written.logs, c, Records))
    BY <1>1, <2>1 DEF PreviewInv, Written
  <2>4. /\ Written(written.traces, Traces)' = Preview!With(written.traces, c, Traces)
        /\ Written(written.logs, Records)' = Preview!With(written.logs, c, Records)
    BY <1>1, <2>1, <2>2 DEF Written
  <2>5. written' \in [traces : Seq(Traces), logs : Seq(Records)]
    <3>1. Preview!With(written.traces, c, Traces) \in Seq(Traces)
      BY <1>4, AppendProperties DEF Preview!With
    <3>2. Preview!With(written.logs, c, Records) \in Seq(Records)
      BY <1>4, AppendProperties DEF Preview!With
    <3> QED
      BY <2>2, <3>1, <3>2
  <2>6. /\ Reports' = Preview!Latest(Written(written.traces, Traces))'
        /\ LogReports' = Preview!Latest(Written(written.logs, Records))'
    BY <1>2, <2>3, <2>4 DEF Preview!Latest
  <2> QED
    BY <1>1, <1>3, <2>1, <2>5, <2>6 DEF PreviewInv
<1>6. CASE Preview!WritePanics(c)
  <2>1. /\ preview[c] = "write" /\ preview'[c] = "recovered" /\ UNCHANGED << mu, written >>
        /\ preview' \in [Preview!Calls -> {"idle", "lock", "write", "unlock", "recovered", "returned"}]
    BY <1>6 DEF PreviewInv, Preview!WritePanics, Preview!Goes
  <2>2. /\ Written(written.traces, Traces)' = Written(written.traces, Traces)
        /\ Written(written.logs, Records)' = Written(written.logs, Records)
    BY <1>1, <2>1 DEF Written, Preview!With
  <2>3. /\ Reports' = Preview!Latest(Written(written.traces, Traces))'
        /\ LogReports' = Preview!Latest(Written(written.logs, Records))'
    BY <1>2, <2>2 DEF PreviewInv, Preview!Latest
  <2> QED
    BY <1>1, <1>3, <2>1, <2>3 DEF PreviewInv
<1>7. CASE Preview!Unlock(c)
  <2>1. /\ preview[c] = "unlock" /\ preview'[c] = "returned" /\ mu' = Nobody /\ written' = written
        /\ preview' \in [Preview!Calls -> {"idle", "lock", "write", "unlock", "recovered", "returned"}]
    BY <1>7 DEF PreviewInv, Preview!Unlock, Preview!Goes
  <2>2. /\ Written(written.traces, Traces)' = Written(written.traces, Traces)
        /\ Written(written.logs, Records)' = Written(written.logs, Records)
    BY <1>1, <2>1 DEF Written, Preview!With
  <2>3. /\ Reports' = Preview!Latest(Written(written.traces, Traces))'
        /\ LogReports' = Preview!Latest(Written(written.logs, Records))'
    BY <1>2, <2>2 DEF PreviewInv, Preview!Latest
  <2> QED
    BY <1>1, <1>3, <2>1, <2>3 DEF PreviewInv
<1> QED
  BY <1>5, <1>6, <1>7

\* What is kept is what was written and, while a call holds the mutex, what it is about
\* to write.
THEOREM PreviewInvariance == Spec => []PreviewInv
<1>1. Init => PreviewInv
  <2> SUFFICES ASSUME Init PROVE PreviewInv
    OBVIOUS
  <2>1. /\ mu = Nobody /\ Reports = << >> /\ LogReports = << >>
        /\ written = [traces |-> << >>, logs |-> << >>]
        /\ preview = [c \in Preview!Calls |-> "idle"]
    BY DEF Init, Preview!Init
  <2>2. /\ << >> \in Seq(Traces) /\ << >> \in Seq(Records)
        /\ Preview!Latest(<< >>) = << >>
    <3>1. Len(<< >>) = 0 /\ ~(0 > Kept)
      BY PreviewAssumption, EmptySeq
    <3> QED
      BY <3>1, EmptySeq DEF Preview!Latest
  <2> QED
    BY <2>1, <2>2 DEF PreviewInv, Written
<1>2. PreviewInv /\ [Next]_vars => PreviewInv'
  <2> SUFFICES ASSUME PreviewInv, [Next]_vars PROVE PreviewInv'
    OBVIOUS
  <2>1. CASE UNCHANGED previewVars
    BY <2>1 DEF previewVars, PreviewInv, Written, Preview!Latest, Preview!With
  <2>2. ASSUME NEW h \in DOMAIN handlers,
               (\E a \in Given : WithAttrs(h, a)) \/ (\E n \in Names : WithGroup(h, n))
        PROVE  UNCHANGED previewVars
    BY <2>2 DEF WithAttrs, WithGroup, Derives
  <2>3. CASE StartLogging
    BY <2>1, <2>3 DEF StartLogging
  <2>4. ASSUME NEW r \in Records,
               \/ \E level \in Levels, context \in {"none", "sampled", "unsampled"} :
                     Handle(r, level, context)
               \/ Step(r)
        PROVE  UNCHANGED previewVars
    BY <2>4 DEF Handle, Step, SendLogs, Delegate
  <2>5. ASSUME NEW c \in Records \union Traces, PreviewBuilds(c) \/ PreviewSteps(c) PROVE PreviewInv'
    <3>1. c \in Preview!Calls
      BY DEF Preview!Calls
    <3>2. CASE Preview!Build(c)
      <4>1. PICK to \in {"lock", "returned"} : Preview!Goes(c, "idle", to)
        BY <3>2 DEF Preview!Build
      <4> QED
        BY <3>1, <3>2, <4>1, OutsideTheLock DEF Preview!Build, Preview!Goes
    <3>3. CASE Preview!Lock(c)
      BY <3>1, <3>3, LockKeeps
    <3>4. CASE Preview!Write(c) \/ Preview!WritePanics(c) \/ Preview!Unlock(c)
      BY <3>1, <3>4, HolderKeeps
    <3> QED
      BY <2>5, <3>2, <3>3, <3>4 DEF PreviewBuilds, PreviewBuild, PreviewSteps, PreviewStep
  <2>6. CASE UNCHANGED vars
    BY <2>1, <2>6 DEF vars
  <2> QED
    BY <2>1, <2>2, <2>3, <2>4, <2>5, <2>6 DEF Next
<1> QED
  BY <1>1, <1>2, PTL DEF Spec

\* Whoever previews at the same time, with any number of reports kept, they are kept in
\* the order they were written (PreviewTransport).
THEOREM PreviewsKept == Spec => []KeptAsWritten
<1>1. PreviewInv => KeptAsWritten
  BY DEF PreviewInv, Written, KeptAsWritten, Preview!KeptAsWritten
<1> QED
  BY <1>1, PreviewInvariance, PTL
=============================================================================
