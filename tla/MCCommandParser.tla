-------------------------- MODULE MCCommandParser --------------------------
(* Every line of up to three tokens, and the long arguments (addresses,     *)
(* ranges, node ids) whole or with one token changed or cut, behind the     *)
(* commands that take them and with a command or a word behind.            *)
EXTENDS CommandParser

Short(n) == UNION {[1 .. k -> Token] : k \in 0 .. n}

IpTokens == <<"number", "dot", "number", "dot", "number", "dot", "number">>
NumericId == <<"ns", "assign", "number", "semicolon", "i", "assign", "number">>
StringId == <<"ns", "assign", "number", "semicolon", "s", "assign", "ident">>
RangeTokens == <<"number", "minus", "number">>

\* The list, with one token replaced by another or cut short.
Near(list) ==
    {list} \cup {[list EXCEPT ![k] = t] : k \in DOMAIN list, t \in {"ident", "number", "dot", "ls"}}
           \cup {SubSeq(list, 1, k) : k \in DOMAIN list}

Command == {<<"cd">>, <<"con">>, <<"ls">>, <<"save">>, <<"set">>, <<"set", "ident">>,
            <<"cd", "number">>, <<"ls", "number">>}
Argument == UNION {Near(list) : list \in {IpTokens, NumericId, StringId, RangeTokens}}
Behind == {<< >>, <<"number">>, <<"state">>, <<"save", "number">>}

Long == {c \o a \o b : c \in Command, a \in Argument, b \in Behind}

MCInput == Short(3) \cup Long
=============================================================================
