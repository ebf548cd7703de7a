---------------------------- MODULE MCSerializer ----------------------------
(* Lists whose text ends around the 10240th character, at each boundary of   *)
(* a piece; lists that need two or three buffers, or more than there is;     *)
(* and lists with an identifier that cannot be printed.                      *)
EXTENDS Serializer

Short == [name |-> 1, namespace |-> 1, identifier |-> 1, opaque |-> FALSE]
Named(n) == [Short EXCEPT !.name = n]
Guid(n) == [Named(n) EXCEPT !.opaque = TRUE]

MCLists ==
    {<< >>} \cup {<<Named(n), Short>> : n \in 10030 .. 10145}
            \cup {<<[Short EXCEPT !.identifier = n]>> : n \in 10125 .. 10145}
            \cup {<<Named(n), Named(n), Named(n)>> : n \in {3000, 6800, 13000, 14000}}
            \cup {<<Short, Guid(1), Short>>, <<Guid(20500)>>}
=============================================================================
