---------------------------- MODULE LogAttributes ----------------------------
(***************************************************************************)
(* The attributes of an exported record (recordAttributes, appendLogAttr,  *)
(* logs.go), beside those that the next handler gets.  Redaction and       *)
(* conversion of values are left out, an attribute is known by its key.    *)
(***************************************************************************)
EXTENDS SlogHandler, SequencesExt

CONSTANTS
    MaxAttributes, MaxGroupDepth,   \* maxLogAttributes and maxLogGroupDepth
    MaxKeyBytes,    \* the longest key that is exported, 256 bytes
    Bytes,      \* how long each name is
    Samples     \* sequences of attributes that a record may carry

Sensitive(path) == Contains(path, "secret")

\* The length of a key, whose parts are joined with dots.
KeyBytes(path) == FoldLeft(LAMBDA n, part : n + 1 + Bytes[part], -1, path)

Drop(acc) == [acc EXCEPT !.dropped = @ + 1]

Into(path, key) == IF key = "" THEN path ELSE Append(path, key)

\* A fault: one attribute more than the limit.
FullOneLate(acc) == Len(acc.out) > MaxAttributes

Full(acc) == Len(acc.out) >= MaxAttributes

RECURSIVE appendLogAttr(_, _, _, _)
appendLogAttr(acc, groups, attr, depth) ==
    IF depth > MaxGroupDepth THEN Drop(acc)
    ELSE IF attr.kind = "group"
    THEN FoldLeft(LAMBDA a, child : appendLogAttr(a, Into(groups, attr.key), child, depth + 1),
                  acc, attr.children)
    ELSE IF attr.key = "" \/ Full(acc) \/ Sensitive(Append(groups, attr.key))
            \/ KeyBytes(Append(groups, attr.key)) > MaxKeyBytes \/ attr.kind = "unsupported"
    THEN Drop(acc)
    ELSE [acc EXCEPT !.out = Append(@, Append(groups, attr.key))]

recordAttributes(h, attrs) ==
    FoldLeft(LAMBDA acc, attr : appendLogAttr(acc, Contents(arrays, handlers[h].groups), attr, 0),
             [out |-> << >>, dropped |-> 0], Contents(arrays, handlers[h].attrs) \o attrs)

-----------------------------------------------------------------------------
\* The leaves of an attribute as any slog.Handler sees them.
RECURSIVE Leaves(_, _, _)
Leaves(path, attr, depth) ==
    IF attr.kind = "group"
    THEN FlattenSeq([i \in DOMAIN attr.children |->
                        Leaves(Into(path, attr.key), attr.children[i], depth + 1)])
    ELSE << [path |-> Append(path, attr.key), key |-> attr.key, kind |-> attr.kind, depth |-> depth] >>

\* What the next handler gets with a record: an attribute is in the groups that were
\* open when it was added.
Delegated(history, attrs) ==
    LET open == Len(history.groups)
        all == history.attrs \o [i \in DOMAIN attrs |-> [attr |-> attrs[i], under |-> open]]
    IN  FlattenSeq([i \in DOMAIN all |->
                       Leaves(SubSeq(history.groups, 1, all[i].under), all[i].attr, 0)])

\* The SDK puts the attributes that a handler got before a group into that group too.
AttrBeforeGroup(history) ==
    \E i \in DOMAIN history.attrs : history.attrs[i].under < Len(history.groups)

Exportable(leaf) ==
    /\ leaf.key # "" /\ leaf.kind = "plain" /\ leaf.depth <= MaxGroupDepth
    /\ KeyBytes(leaf.path) <= MaxKeyBytes /\ ~Sensitive(leaf.path)

\* Where no attribute was added before a group, the exported copy has the attributes
\* that the next handler gets, under the same names and in the same order, but for
\* those that are withheld and those beyond the limit, and says so if there are any
\* ("only the exported copy is scrubbed", README.md; recordAttributes).
ExportedAsDelegated ==
    \A h \in DOMAIN handlers : ~AttrBeforeGroup(derived[h]) =>
        \A attrs \in Samples :
            LET copy == recordAttributes(h, attrs)
                all  == Delegated(derived[h], attrs)
                fit  == SelectSeq(all, Exportable)
            IN  /\ copy.out = [i \in 1 .. (IF Len(fit) > MaxAttributes THEN MaxAttributes ELSE Len(fit))
                                  |-> fit[i].path]
                /\ copy.dropped = 0 <=> Len(copy.out) = Len(all)
=============================================================================
