---------------------------- MODULE Interpreter ----------------------------
(***************************************************************************)
(* The read-eval loop of main and the interpreter: a line is parsed (the   *)
(* whole CommandParser runs) and its statements are then executed one by   *)
(* one, each in the state the one before it left.  What a statement does   *)
(* is the set of the calls it makes into the mirua module; Clua puts the   *)
(* Session behind those calls, and gives the whole its fairness.           *)
(***************************************************************************)
EXTENDS Naturals, Sequences, FiniteSets

CONSTANTS
    Input,    \* the lines that may be typed, as token lists
    BufSize   \* the buffer of the AST's trace text

ASSUME BufSizeAssumption == BufSize \in Nat \ {0}

VARIABLES
    tokens, current, statements, skipped,  \* the parser of the line
    pc,       \* "prompt", "parse", "execute", "quit" or "overrun"
    state,    \* MiruaState: "normal" or "config"
    node,     \* the statement interpreter_execute_ast is at
    calls     \* the calls this line has made

parser == <<tokens, current, statements, skipped>>
vars == <<tokens, current, statements, skipped, pc, state, node, calls>>

P == INSTANCE CommandParser
Text == INSTANCE AstText

\* What the lexer makes of a line.
ASSUME LinesAssumption == Input \subseteq Seq(P!Token)

Operation ==
    {"connect", "connect_ip", "explore", "explore_idx", "explore_nodeid",
     "navigate_up", "navigate_to", "navigate_down", "save_range", "save_idx",
     "config_print", "config_print_idx", "config_set_idx", "config_set",
     "print_current_node", "print_current_children"}

\* The calls that move the session to another node.
Navigation == {"navigate_up", "navigate_to", "navigate_down"}

\* `of` is the statement, `child` the one of its children a loop was at, 0 for
\* none: calls of a statement are made in the order of the children.
Call == [op : Operation, of : Nat, child : Nat, typed : {"normal", "config"}]

TypeOK ==
    /\ P!TypeOK
    /\ pc \in {"prompt", "parse", "execute", "quit", "overrun"}
    /\ state \in {"normal", "config"}
    /\ node \in 1 .. Len(statements) + 1
    /\ calls \subseteq Call

\* No line is there: what ast_free, parser_free and lexer_free_tokens leave.
NoLine ==
    /\ tokens = <<"eof">> /\ current = 2 /\ statements = << >> /\ skipped = {}
    /\ node = 1
    /\ calls = {}

Init ==
    /\ NoLine
    /\ pc = "prompt"
    /\ state = "normal"

-----------------------------------------------------------------------------
(* process_input *)

ReadLine ==
    /\ pc = "prompt"
    /\ \E line \in Input : tokens' = Append(line, "eof")
    /\ current' = 1
    /\ pc' = "parse"
    /\ UNCHANGED <<statements, skipped, state, node, calls>>

\* "exit", "quit" or "q" alone on the line, or the end of the input.
Quit ==
    /\ pc = "prompt"
    /\ pc' = "quit"
    /\ UNCHANGED <<parser, state, node, calls>>

Parse ==
    /\ pc = "parse"
    /\ P!Running /\ P!Next
    /\ UNCHANGED <<pc, state, node, calls>>

\* The trace line of the AST is written before anything is executed; past its
\* buffer nothing is defined.
Parsed ==
    /\ pc = "parse" /\ ~P!Running
    /\ \E wide \in BOOLEAN :
          pc' = IF Text!Overruns(statements, wide) THEN "overrun" ELSE "execute"
    /\ UNCHANGED <<parser, state, node, calls>>

\* Mutant: the next line starts where this one ended.
LineDone_KeepsNode ==
    /\ pc = "execute" /\ node > Len(statements)
    /\ pc' = "prompt"
    /\ tokens' = <<"eof">> /\ current' = 2 /\ statements' = << >> /\ skipped' = {}
    /\ calls' = {}
    /\ UNCHANGED <<node, state>>

LineDone ==
    /\ pc = "execute" /\ node > Len(statements)
    /\ pc' = "prompt"
    /\ tokens' = <<"eof">> /\ current' = 2 /\ statements' = << >> /\ skipped' = {}
    /\ node' = 1 /\ calls' = {}
    /\ UNCHANGED state

-----------------------------------------------------------------------------
(* interpreter_execute_ast *)

Executing(type) ==
    /\ pc = "execute" /\ node <= Len(statements)
    /\ statements[node].type = type

Children == statements[node].children

Has(child) == \E k \in DOMAIN Children : Children[k] = child

CallOf(op, k) == [op |-> op, of |-> node, child |-> k, typed |-> state]

\* Calls made outside of the loop over the children.
Once(ops) == {CallOf(op, 0) : op \in ops}

\* The calls of a loop over the children: those `table` has a call for.
PerChild(table) ==
    {CallOf(table[Children[k]], k) :
        k \in {i \in DOMAIN Children : Children[i] \in DOMAIN table}}

\* The statement makes these calls, and the next one is its turn.
Make(made) ==
    /\ calls' = calls \cup made
    /\ node' = node + 1
    /\ UNCHANGED <<parser, pc>>

\* Only a warning.
Ignored(types) ==
    /\ \E type \in types : Executing(type)
    /\ Make({})
    /\ UNCHANGED state

\* Mutant: the statement behind it is consumed as well.
EnterConfig_SkipsNext ==
    /\ state = "normal" /\ Executing("state")
    /\ state' = "config"
    /\ calls' = calls \cup Once({"config_print"})
    /\ node' = IF node < Len(statements) THEN node + 2 ELSE node + 1
    /\ UNCHANGED <<parser, pc>>

EnterConfig ==
    /\ state = "normal" /\ Executing("state")
    /\ state' = "config"
    /\ Make(Once({"config_print"}))

Connect ==
    /\ state = "normal" /\ Executing("connect")
    /\ Make(Once({IF Has("ip") THEN "connect_ip" ELSE "connect"}))
    /\ UNCHANGED state

\* A node id wins over an index.
ListDirs ==
    /\ state = "normal" /\ Executing("list_dirs")
    /\ Make(Once({CASE Has("nodeid") -> "explore_nodeid"
                    [] ~Has("nodeid") /\ Has("index") -> "explore_idx"
                    [] OTHER -> "explore"}))
    /\ UNCHANGED state

NavigateToTable == [c \in {"nodeid"} |-> "navigate_to"]

\* AST_NAVIGATE_UP has no break: the loop of AST_NAVIGATE_TO runs after it.
NavigateUp ==
    /\ state = "normal" /\ Executing("navigate_up")
    /\ Make(Once({"navigate_up"}) \cup PerChild(NavigateToTable))
    /\ UNCHANGED state

NavigateTo ==
    /\ state = "normal" /\ Executing("navigate_to")
    /\ Make(PerChild(NavigateToTable))
    /\ UNCHANGED state

NavigateDown ==
    /\ state = "normal" /\ Executing("navigate_down")
    /\ Make(PerChild([c \in {"int"} |-> "navigate_down"]))
    /\ UNCHANGED state

Save ==
    /\ state = "normal" /\ Executing("save")
    /\ Make(PerChild([range |-> "save_range", int |-> "save_idx"]))
    /\ UNCHANGED state

\* Mutant: the loop continues without moving on.
NormalIgnores_Stays ==
    /\ state = "normal"
    /\ \E type \in {"set", "ip", "parameter"} : Executing(type)
    /\ UNCHANGED vars

NormalIgnores == state = "normal" /\ Ignored({"set", "ip", "parameter"})

\* mirua_state_change, then the print of where the session stands.
LeaveConfig ==
    /\ state = "config" /\ Executing("state")
    /\ state' = "normal"
    /\ Make(Once({"print_current_node", "print_current_children"}))

\* No node is explored from here: an index is one of the settings.
ListConfig ==
    /\ state = "config" /\ Executing("list_dirs")
    /\ Make(Once({IF Has("index") THEN "config_print_idx" ELSE "config_print"}))
    /\ UNCHANGED state

\* The value has to be there and to be a string.
SetConfig ==
    /\ state = "config" /\ Executing("set")
    /\ Make(Once({op \in {"config_set_idx", "config_set"} :
                     /\ Len(Children) >= 2 /\ Children[2] = "string"
                     /\ Children[1] = IF op = "config_set_idx" THEN "int" ELSE "string"}))
    /\ UNCHANGED state

ConfigIgnores == state = "config" /\ Ignored(P!Type \ {"state", "list_dirs", "set"})

Execute ==
    \/ EnterConfig \/ Connect \/ ListDirs \/ NavigateUp \/ NavigateTo
    \/ NavigateDown \/ Save \/ NormalIgnores
    \/ LeaveConfig \/ ListConfig \/ SetConfig \/ ConfigIgnores

Answer == Parse \/ Parsed \/ Execute \/ LineDone

Next == ReadLine \/ Quit \/ Answer

Spec == Init /\ [][Next]_vars

-----------------------------------------------------------------------------
(* Properties. *)

\* How often the statements from i up to, not including, j change the state.
Changes(i, j) == Cardinality({k \in i .. j - 1 : statements[k].type = "state"})

\* The state is read again before every statement (interpreter.c:42): a call is
\* made in the state that the statements of the line before it left.
StatePerStatement ==
    \A c \in calls : c.typed = state <=> Changes(c.of, node) % 2 = 0

\* A statement moves at most once: the missing break behind navigate_up
\* (interpreter.c:95) runs over no children, and the node id that "cd <n>"
\* also accepts is not gone to.
OneMovePerStatement ==
    \A c, d \in calls :
       c.op \in Navigation /\ d.op \in Navigation /\ c.of = d.of => c = d

\* The text of the AST overruns its buffer (ast.c:237) only for a long line: no
\* token adds more than 70 bytes to it, so that 4096 bytes hold the text of any
\* line of up to 58 words, numbers and signs.
OverrunNeedsLongLine ==
    pc = "overrun" => 70 * (Len(tokens) - 1) + 17 > BufSize
=============================================================================
