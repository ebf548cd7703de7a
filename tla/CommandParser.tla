--------------------------- MODULE CommandParser ---------------------------
(***************************************************************************)
(* parser_parse: the tokens of one command line become the statements of   *)
(* an AST.  A token is the kind the parser tells apart: identifiers are    *)
(* split by the three values it compares them with ("ns", "i", "s"), and   *)
(* the kinds no parser looks for, "help" among them, are "unhandled".      *)
(* The list the lexer hands over ends in the only "eof".  Each step is one *)
(* turn of the loop in parser_parse, which tries its sub-parsers in a      *)
(* fixed order.                                                            *)
(***************************************************************************)
EXTENDS Naturals, Sequences

CONSTANT Input    \* the token lists, without their "eof"

Identifier == {"ident", "ns", "i", "s"}
Keyword == {"cd", "con", "ls", "save", "state", "set"}
Punctuation == {"minus", "dot", "semicolon", "assign"}
Unhandled == {"unhandled"}
Token == Identifier \cup Keyword \cup Punctuation \cup Unhandled \cup {"number"}

ASSUME InputAssumption == Input \subseteq Seq(Token)

VARIABLES
    tokens,     \* parser->tokens
    current,    \* parser->current, 1-based: Len(tokens) + 1 is the end
    statements, \* the statements of the AST: a type and its children
    skipped     \* the positions reported as "Not handled token."

vars == <<tokens, current, statements, skipped>>

\* What a statement carries; "index" stands for data.list_dirs.idx # -1.
Child == {"nodeid", "int", "string", "range", "ip", "index"}
Type == {"navigate_up", "navigate_down", "navigate_to", "connect", "list_dirs",
         "save", "state", "set", "ip", "parameter"}
Statement == [type : Type, children : Seq(Child)]

TypeOK ==
    /\ tokens \in Seq(Token \cup {"eof"})
    /\ current \in 1 .. Len(tokens) + 1
    /\ statements \in Seq(Statement)
    /\ skipped \subseteq 1 .. Len(tokens)

Init ==
    /\ \E line \in Input : tokens = Append(line, "eof")
    /\ current = 1
    /\ statements = << >>
    /\ skipped = {}

-----------------------------------------------------------------------------
(* The sub-parsers: what each finds at position p, and where it leaves the  *)
(* parser.  None of them looks past the end of the list.                    *)

\* The tokens from p on start with the given kinds (each a set of tokens).
Ahead(p, kinds) ==
    /\ p + Len(kinds) - 1 <= Len(tokens)
    /\ \A k \in DOMAIN kinds : tokens[p + k - 1] \in kinds[k]

Number == {"number"}
Dot == {"dot"}

Nothing(p) == [child |-> << >>, next |-> p]

\* The position of the "eof".
Eof == Len(tokens)

parse_range(p) ==
    IF Ahead(p, <<Number, {"minus"}, Number>>)
      THEN [child |-> <<"range">>, next |-> p + 3]
      ELSE Nothing(p)

\* Mutant: any word is a parameter.
parse_parameter_AnyWord(p) ==
    CASE tokens[p] \in Identifier \cup Keyword -> [child |-> <<"string">>, next |-> p + 1]
      [] tokens[p] = "number"                   -> [child |-> <<"int">>, next |-> p + 1]
      [] OTHER                                  -> Nothing(p)

parse_parameter(p) ==
    CASE tokens[p] \in Identifier -> [child |-> <<"string">>, next |-> p + 1]
      [] tokens[p] = "number"     -> [child |-> <<"int">>, next |-> p + 1]
      [] OTHER                    -> Nothing(p)

\* Mutant: the last number of the address stays in the list.
parse_ip_LeavesLast(p) ==
    IF Ahead(p, <<Number, Dot, Number, Dot, Number, Dot, Number>>)
      THEN [child |-> <<"ip">>, next |-> p + 6]
      ELSE Nothing(p)

parse_ip(p) ==
    IF Ahead(p, <<Number, Dot, Number, Dot, Number, Dot, Number>>)
      THEN [child |-> <<"ip">>, next |-> p + 7]
      ELSE Nothing(p)

\* "ns=<n>;" then "i=<n>", or "s=" and all that is left.  A node id that goes
\* wrong half way gives nothing, but what was read of it stays consumed.
parse_nodeid(p) ==
    LET q == p + 4
    IN  IF ~Ahead(p, <<{"ns"}, {"assign"}, Number, {"semicolon"}>>)
          THEN Nothing(p)
        ELSE IF Ahead(q, <<{"i"}, {"assign"}, Number>>)
          THEN [child |-> <<"nodeid">>, next |-> q + 3]
        ELSE IF Ahead(q, <<{"s"}, {"assign"}>>)
          THEN [child |-> <<"nodeid">>, next |-> Eof]
        ELSE IF Ahead(q, <<Identifier, {"assign"}>>)
          THEN Nothing(q + 2)
        ELSE Nothing(q)

-----------------------------------------------------------------------------
(* The turns of the loop. *)

Running == current <= Len(tokens)

\* ast_add_statement, with the parser moved on to `next`.
Emit(type, children, next) ==
    /\ statements' = Append(statements, [type |-> type, children |-> children])
    /\ current' = next
    /\ UNCHANGED <<tokens, skipped>>

At(token) == Running /\ tokens[current] = token

\* Mutant: a node id is also read behind "cd ..".
NavigateUp_ReadsTarget ==
    /\ At("cd")
    /\ Ahead(current, <<{"cd"}, Dot, Dot>>)
    /\ LET id == parse_nodeid(current + 3)
       IN  Emit("navigate_up", id.child, id.next)

\* "cd .." needs both dots next to the command; "cd <n>" comes next, and any
\* other "cd" is a navigation to a node id, present or not.
NavigateUp ==
    /\ At("cd")
    /\ Ahead(current, <<{"cd"}, Dot, Dot>>)
    /\ Emit("navigate_up", << >>, current + 3)

NavigateDown ==
    /\ At("cd")
    /\ Ahead(current, <<{"cd"}, Number>>)
    /\ LET id == parse_nodeid(current + 2)
       IN  Emit("navigate_down", <<"int">> \o id.child, id.next)

NavigateTo ==
    /\ At("cd")
    /\ ~Ahead(current, <<{"cd"}, Dot, Dot>>)
    /\ ~Ahead(current, <<{"cd"}, Number>>)
    /\ LET id == parse_nodeid(current + 1)
       IN  Emit("navigate_to", id.child, id.next)

Ip ==
    /\ At("number")
    /\ parse_ip(current).child # << >>
    /\ Emit("ip", << >>, parse_ip(current).next)

Parameter ==
    /\ Running
    /\ parse_ip(current).child = << >>
    /\ parse_parameter(current).child # << >>
    /\ Emit("parameter", << >>, parse_parameter(current).next)

\* Mutant: a "con" without an address returns NULL, as a "set" without a key.
Connect_NeedsIp ==
    /\ At("con")
    /\ LET ip == parse_ip(current + 1)
       IN  IF ip.child # << >>
             THEN Emit("connect", ip.child, ip.next)
             ELSE /\ current' = current + 2
                  /\ skipped' = skipped \cup ({current + 1} \ {Eof})
                  /\ UNCHANGED <<tokens, statements>>

Connect ==
    /\ At("con")
    /\ LET ip == parse_ip(current + 1)
       IN  Emit("connect", ip.child, ip.next)

\* An index, then a node id; if the node id goes wrong half way, the token it
\* stopped at is taken as a parameter instead.
ListDirs ==
    /\ At("ls")
    /\ LET index == IF tokens[current + 1] = "number" THEN <<"index">> ELSE << >>
           p == current + 1 + Len(index)
           id == parse_nodeid(p)
           arg == CASE tokens[p] \notin Identifier -> Nothing(p)
                    [] id.child # << >>            -> id
                    [] OTHER                       -> parse_parameter(id.next)
       IN  Emit("list_dirs", index \o arg.child, arg.next)

\* A range and an index may both be there: then both are saved.
Save ==
    /\ At("save")
    /\ LET range == parse_range(current + 1)
           arg == parse_parameter(range.next)
       IN  Emit("save", range.child \o arg.child, arg.next)

State ==
    /\ At("state")
    /\ Emit("state", << >>, current + 1)

\* Mutant: the value is one token.
Set_OneToken ==
    /\ At("set")
    /\ LET key == parse_parameter(current + 1)
       IN  /\ key.child # << >>
           /\ Emit("set", IF key.next < Eof THEN key.child \o <<"string">> ELSE key.child,
                   IF key.next < Eof THEN key.next + 1 ELSE Eof)

\* The key is one parameter, the value is all that is left of the line.
Set ==
    /\ At("set")
    /\ LET key == parse_parameter(current + 1)
       IN  /\ key.child # << >>
           /\ Emit("set", IF key.next < Eof THEN key.child \o <<"string">> ELSE key.child,
                   Eof)

\* A "set" without a key is consumed, gives no statement, and the loop then
\* skips the token after it, whatever that is.
SetWithoutKey ==
    /\ At("set")
    /\ parse_parameter(current + 1).child = << >>
    /\ current' = current + 2
    /\ skipped' = skipped \cup ({current + 1} \ {Eof})
    /\ UNCHANGED <<tokens, statements>>

NotHandled ==
    /\ Running
    /\ tokens[current] \in Punctuation \cup Unhandled \cup {"eof"}
    /\ current' = current + 1
    /\ skipped' = skipped \cup ({current} \ {Eof})
    /\ UNCHANGED <<tokens, statements>>

Done == ~Running /\ UNCHANGED vars

Next ==
    \/ NavigateUp \/ NavigateDown \/ NavigateTo
    \/ Ip \/ Parameter \/ Connect \/ ListDirs \/ Save \/ State
    \/ Set \/ SetWithoutKey
    \/ NotHandled \/ Done

\* The loop of parser_parse has nothing to wait for.
Spec == Init /\ [][Next]_vars /\ WF_vars(Next)

-----------------------------------------------------------------------------
(* Properties. *)

\* The tokens of the statement read in this step, its first one left out.
Arguments == current + 1 .. current' - 1

\* The statement this step appends.
Added == statements'[Len(statements')]

\* The statement read in this step took the rest of the line: a "set", or a
\* node id whose identifier is a string.
TakesRest ==
    /\ current' = Eof
    /\ \/ Added.type = "set"
       \/ \E p \in Arguments : tokens[p] = "s" /\ tokens[p + 1] = "assign"

\* parse_set and the "s=" of parse_nodeid apart, a command word is never read
\* as an argument of the command before it: "con cd 1" is two commands.
CommandsSeparate ==
    [][\A p \in Arguments :
          statements' # statements /\ tokens[p] \in Keyword => TakesRest]_vars

\* The advances of the sub-parsers add up: between two statements no token is
\* lost or read twice.  Only a node id that goes wrong half way loses what was
\* read of it: "ns=<n>;" alone, or with an "<identifier>=".
Size == [nodeid |-> 7, int |-> 1, string |-> 1, range |-> 3, ip |-> 7, index |-> 1]

Own(type) == CASE type = "ip"          -> 7
               [] type = "navigate_up" -> 3
               [] OTHER                -> 1

Taken(statement) ==
    LET sum[k \in 0 .. Len(statement.children)] ==
            IF k = 0 THEN 0 ELSE sum[k - 1] + Size[statement.children[k]]
    IN  Own(statement.type) + sum[Len(statement.children)]

TokensAccounted ==
    [][statements' # statements /\ ~TakesRest =>
          LET lost == current' - current - Taken(Added)
          IN  \/ lost = 0
              \/ /\ lost \in {4, 6}
                 /\ \E p \in Arguments : tokens[p] = "ns" /\ tokens[p + 3] = "semicolon"]_vars

\* The value of a "set" is the whole rest of the line (parser.c:114): nothing
\* of it is left over to run as a command of its own.
SetIsLast == \A k \in 1 .. Len(statements) - 1 : statements[k].type # "set"

\* A command word is thrown away only behind a "set" that has no key.
CommandsKept ==
    \A p \in skipped : tokens[p] \in Keyword => p > 1 /\ tokens[p - 1] = "set"

=============================================================================
