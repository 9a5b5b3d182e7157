--------------------------- MODULE MCSlogHandler ---------------------------
(* Four handlers, two of them from the same one, and records with nested, *)
(* inline, nameless, sensitive, unsupported and long-named attributes.     *)
EXTENDS LogAttributes

Leaf(key) == [kind |-> "plain", key |-> key]
Group(key, children) == [kind |-> "group", key |-> key, children |-> children]

MCGiven == {Leaf("a"), Leaf("secret")}
MCNames == {"g", "h"}

\* The longest path of short names has nine bytes; "long" is a key on its own, but not
\* inside a group.
MCBytes ==
    [name \in {"", "a", "secret", "g", "h", "x", "y", "z", "n", "m", "l", "long", "longer"} |->
        CASE name = "long" -> 9 [] name = "longer" -> 10 [] OTHER -> 1]

MCSamples ==
    { << >>,
      << Leaf("x"), [kind |-> "unsupported", key |-> "y"], Leaf("") >>,
      << Group("n", << Leaf("x"), Leaf("secret") >>), Group("", << Leaf("y") >>), Leaf("z") >>,
      << Group("n", << Leaf("x"), Group("m", << Leaf("y"), Group("l", << Leaf("z") >>) >>) >>) >>,
      << Leaf("longer"), Group("n", << Leaf("long") >>), Leaf("long") >> }

=============================================================================
