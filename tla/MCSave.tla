------------------------------- MODULE MCSave -------------------------------
(* A listing of a number, a structure with three values and another number, *)
(* and the same server after the structure became an object.  The data type *)
(* id of the structure is 7, so that the filter lets it through.            *)
EXTENDS Save, TLC

CONSTANTS null, num, dbl, str, obj, tag, leaf

MCNode == {num, dbl, str, obj, tag, leaf}

Scalar(t) == [variable |-> TRUE, type |-> t, structure |-> FALSE,
              leaves |-> << >>, links |-> {}]
Object == [variable |-> FALSE, type |-> 0, structure |-> FALSE,
              leaves |-> << >>, links |-> {}]
Struct(t) == [variable |-> TRUE, type |-> t, structure |-> TRUE,
              leaves |-> <<leaf, num, leaf>>, links |-> {leaf, num}]

Before == (num :> Scalar(6)) @@ (dbl :> Scalar(11)) @@ (str :> Struct(7))
              @@ (obj :> Object) @@ (tag :> Scalar(3)) @@ (leaf :> Scalar(1))
After == [Before EXCEPT ![str] = Object]

ChangingServers == {Before, After}
StaticServers == {Before}

OneListing == {<<num, dbl, str, tag>>}
MCListings == {<<num, dbl, str>>, <<str, obj, num, num>>}

Out == "output.txt"
Command(a) == [first |-> "other", args |-> a, name |-> "lost"]
Reply(first) == [first |-> first, args |-> << >>, name |-> Out]

\* Rows inside and past the listing, ranges inside it and past its end; Enter,
\* append, new name.
MCLine == {Command(a) : a \in {<<2>>, <<0, 2>>, <<3, 3>>, <<1, 9>>, <<4>>}}
              \cup {Reply(f) : f \in {"newline", "a", "n"}}
FewLines == {Command(a) : a \in {<<1>>, <<2>>, <<0, 2>>, <<2, 3>>}} \cup {Reply("a")}

NoNodes == {}
OpaqueNodes == {tag}
NoNames == {}
Lost == {"lost"}
MCName == {Out, "lost"}
=============================================================================
