------------------------------ MODULE MCLexer ------------------------------
(* Every text of up to three characters over one character of each class,   *)
(* every word the lexer compares with, alone and with a tail that makes     *)
(* another word of it, some whole lines, and lists around the capacity.     *)
EXTENDS Lexer

Char == {" ", "1", "l", "s", "_", "-", "=", ",", "high"}

Tail3 == {<<"x">>, <<"_">>, <<"1">>, <<"-">>, <<",">>, <<" ", " ", "1">>}

Lines ==
    {<<"s", "e", "t", " ", "x", " ", "1", "-", "3", ",", "5", "-", "7">>,
     <<"c", "d", " ", "n", "s", "=", "1", ";", "s", "=", "x", ".", "y", "/", "z", ":">>,
     <<"1", "s", "a", "v", "e", " ", " ", "2", "-", "3", " ">>}

MCText ==
    UNION {[1 .. n -> Char] : n \in 0 .. 3}
      \cup {w.text : w \in Words}
      \cup {w.text \o t : w \in Words, t \in Tail3}
      \cup Lines
      \cup {[k \in 1 .. n |-> "."] : n \in {9, 10, 11, 20}}
=============================================================================
