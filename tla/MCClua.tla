------------------------------- MODULE MCClua -------------------------------
(* Every command with and without its arguments, alone and before or behind  *)
(* a change of state, some commands that depend on the one before them in    *)
(* the line, and lines whose AST needs more text than the buffer holds; on a *)
(* server of two nodes that may lose one of them.                            *)
EXTENDS Clua, TLC

CONSTANTS base, tag, null

NodeId == <<"ns", "assign", "number", "semicolon", "i", "assign", "number">>
Ip == <<"number", "dot", "number", "dot", "number", "dot", "number">>

Browsing ==
    {<<"con">>, <<"con">> \o Ip, <<"ls">>, <<"ls", "number">>, <<"ls">> \o NodeId,
     <<"ls", "number">> \o NodeId, <<"cd", "dot", "dot">>,
     <<"cd", "dot", "dot">> \o NodeId, <<"cd", "number">>, <<"cd", "number">> \o NodeId,
     <<"cd">> \o NodeId, <<"save", "number">>, <<"save", "number", "minus", "number">>}

Other ==
    {<<"cd">>, <<"save", "ident">>, <<"save", "number", "minus", "number", "number">>,
     <<"set">>, <<"set", "ident">>, <<"set", "number", "ident">>,
     <<"set", "ident", "number">>, <<"ident">>, <<"unhandled">>}

Toggle == <<"state">>

First == {<< >>, <<"con">>, <<"cd", "number">>, <<"set", "ident", "number">>}

MCInput ==
    Browsing \cup Other
      \cup {c \o Toggle \o d : c \in First, d \in Browsing \cup Other \cup {<< >>}}
      \cup {Toggle \o d \o Toggle : d \in Other \cup {<<"ls", "number">>}}
      \cup {<<"con", "cd", "number">>, <<"cd", "dot", "dot", "ls">>,
            <<"ls", "cd", "number">>, <<"cd", "dot", "dot", "cd", "dot", "dot">>}
      \cup {[k \in 1 .. n |-> "save"] : n \in {4, 5}}

Up == (base :> <<tag>>) @@ (tag :> << >>)
Lost == (base :> << >>)

MCNode == {base, tag}
MCStringIds == {tag}
MCSpaces == {Up, Lost}
MCEndpoint == {"plc"}
=============================================================================
