------------------------------ MODULE MCConfig ------------------------------
(* Texts that some setting takes and the others do not, and a config file    *)
(* that sets everything, with one line missing, repeated with another value, *)
(* broken, or a comment.                                                    *)
EXTENDS Config

CONSTANTS objects, machine, null

MCNodeId == {objects, machine}

Text(opc, id, items, word, int) ==
    [opc |-> opc, nodeid |-> id, items |-> items, word |-> word, int |-> int]
Between(start, stop) == [dash |-> TRUE, clean |-> TRUE, start |-> start, stop |-> stop]
Plain(n) == [dash |-> FALSE, clean |-> FALSE, start |-> n, stop |-> 0]

Plc == Text(TRUE, null, <<Plain(0)>>, "other", 0)                    \* opc.tcp://plc
Machine == Text(FALSE, machine, <<Plain(0)>>, "other", 0)            \* ns=2;i=5
Edge == Text(FALSE, null, <<Between(0, 2), Between(30, 31)>>, "other", 0) \* 0-2,30-31
Wide == Text(FALSE, null, <<Between(1, 3), Between(30, 40)>>, "other", 1) \* 1-3,30-40
Comma == Text(FALSE, null, << >>, "other", 0)                        \* ,
Ua == Text(FALSE, null, <<Plain(0)>>, "UA", 0)                       \* UA

MCValue == {Plc, Machine, Edge, Wide, Comma, Ua}

MCDefault ==
    [endpoint |-> Plc, defaultRoot |-> objects, selectedDataTypeKinds |-> {5, 11},
     filterType |-> "ALL", printLevel |-> 0]

Pair(key, value) == [kind |-> "pair", key |-> key, value |-> value]
Other(kind) == [kind |-> kind, key |-> "endpoint", value |-> Plc]

Good == <<Pair("endpoint", Plc), Pair("defaultRoot", Machine), Pair("filter", Edge),
          Pair("filter_type", Ua), Pair("print_level", Wide)>>

Extra == {Pair(key, value) : key \in Key, value \in {Plc, Wide}}
         \cup {Other(kind) : kind \in {"ignored", "no_pair", "too_long"}}

MCFile == {Good, << >>} \cup {RemoveAt(Good, k) : k \in DOMAIN Good}
          \cup {InsertAt(Good, k, line) : k \in {1, 6}, line \in Extra}
          \cup {ReplaceAt(Good, k, line) : k \in DOMAIN Good, line \in Extra}
=============================================================================
