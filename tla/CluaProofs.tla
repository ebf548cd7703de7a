----------------------------- MODULE CluaProofs -----------------------------
(* For every set of lines, every server and every history: each statement    *)
(* runs in the state the ones before it left, none moves the session twice,  *)
(* only a command that was typed is remembered for "cd ..", and the text of  *)
(* the AST overruns its buffer only for a long line.  The session and the    *)
(* parser inside the program do what is proved of them alone, and a line is  *)
(* answered in as many steps as it has tokens, thrice, and two.              *)
EXTENDS Clua, TLAPS, FiniteSetTheorems, WellFoundedInduction

\* What is proved of the parser, for the parser in the program.
Proved == INSTANCE CommandParserProofs

\* What is proved of the session, for the session in the program.
Served == INSTANCE SessionProofs WITH pc <- call

\* What the parser gives a navigation to go to: nothing for "cd ..", one node
\* id at most for "cd <id>", one index for "cd <n>".
OneTarget(s) ==
    /\ s.type = "navigate_up" => s.children = << >>
    /\ s.type = "navigate_to" => \A i, j \in DOMAIN s.children : i = j
    /\ s.type = "navigate_down" =>
           \A i, j \in DOMAIN s.children :
               s.children[i] = "int" /\ s.children[j] = "int" => i = j

\* Calls are made by the statements already executed, of the line that is there.
Inv ==
    /\ statements \in Seq(P!Statement)
    /\ \A k \in 1 .. Len(statements) : OneTarget(statements[k])
    /\ node \in Nat \ {0}
    /\ state \in {"normal", "config"}
    /\ calls \subseteq Call
    /\ \A c \in calls : c.of < node
    /\ pc \in {"prompt", "parse"} => calls = {}

Properties == StatePerStatement /\ OneMovePerStatement

-----------------------------------------------------------------------------
(* The statements. *)

\* What the sub-parsers find.
LEMMA Found ==
    ASSUME NEW p
    PROVE  /\ P!parse_nodeid(p).child \in {<< >>, <<"nodeid">>}
           /\ P!parse_range(p).child \in {<< >>, <<"range">>}
           /\ P!parse_ip(p).child \in {<< >>, <<"ip">>}
           /\ P!parse_parameter(p).child \in {<< >>, <<"int">>, <<"string">>}
<1>1. P!parse_nodeid(p).child \in {<< >>, <<"nodeid">>}
  BY DEF P!parse_nodeid, P!Nothing
<1>2. P!parse_range(p).child \in {<< >>, <<"range">>}
  BY DEF P!parse_range, P!Nothing
<1>3. P!parse_ip(p).child \in {<< >>, <<"ip">>}
  BY DEF P!parse_ip, P!Nothing
<1>4. P!parse_parameter(p).child \in {<< >>, <<"int">>, <<"string">>}
  BY DEF P!parse_parameter, P!Nothing
<1>5. QED  BY <1>1, <1>2, <1>3, <1>4

\* What they find are lists of children.
LEMMA ChildLists ==
    /\ << >> \in Seq(P!Child)
    /\ \A c \in P!Child : <<c>> \in Seq(P!Child)
    /\ \A c, d \in Seq(P!Child) : c \o d \in Seq(P!Child)
    /\ \A p : /\ P!parse_nodeid(p).child \in Seq(P!Child)
             /\ P!parse_range(p).child \in Seq(P!Child)
             /\ P!parse_ip(p).child \in Seq(P!Child)
             /\ P!parse_parameter(p).child \in Seq(P!Child)
<1>1. << >> \in Seq(P!Child)
  OBVIOUS
<1>2. ASSUME NEW c \in P!Child PROVE <<c>> \in Seq(P!Child)
  OBVIOUS
<1>3. ASSUME NEW c \in Seq(P!Child), NEW d \in Seq(P!Child) PROVE c \o d \in Seq(P!Child)
  OBVIOUS
<1>4. {"nodeid", "range", "ip", "int", "string"} \subseteq P!Child
  BY DEF P!Child
<1>5. ASSUME NEW p
      PROVE  /\ P!parse_nodeid(p).child \in Seq(P!Child)
             /\ P!parse_range(p).child \in Seq(P!Child)
             /\ P!parse_ip(p).child \in Seq(P!Child)
             /\ P!parse_parameter(p).child \in Seq(P!Child)
  <2>1. /\ P!parse_nodeid(p).child \in {<< >>, <<"nodeid">>}
        /\ P!parse_range(p).child \in {<< >>, <<"range">>}
        /\ P!parse_ip(p).child \in {<< >>, <<"ip">>}
        /\ P!parse_parameter(p).child \in {<< >>, <<"int">>, <<"string">>}
    BY Found
  <2>2. \A c \in {"nodeid", "range", "ip", "int", "string"} : <<c>> \in Seq(P!Child)
    BY <1>2, <1>4
  <2>3. QED  BY <1>1, <2>1, <2>2
<1>6. QED  BY <1>1, <1>2, <1>3, <1>5

\* An index and what stands behind it.
LEMMA IndexFirst ==
    ASSUME NEW d \in {<< >>, <<"nodeid">>}, NEW i \in DOMAIN (<<"int">> \o d),
           (<<"int">> \o d)[i] = "int"
    PROVE  i = 1
<1> DEFINE e == <<"int">> \o d
<1>1. d \in Seq({"nodeid"}) /\ <<"int">> \in Seq({"int"}) /\ Len(<<"int">>) = 1
  <2>1. \A c \in {"int", "nodeid"} : <<c>> \in Seq({c}) /\ Len(<<c>>) = 1
    OBVIOUS
  <2>2. << >> \in Seq({"nodeid"})
    OBVIOUS
  <2>3. QED  BY <2>1, <2>2
<1>2. DOMAIN e = 1 .. 1 + Len(d) /\ Len(d) \in {0, 1}
  BY <1>1
<1>3. \A k \in 1 .. Len(d) : e[1 + k] = d[k] /\ d[k] = "nodeid"
  BY <1>1
<1>4. QED  BY <1>2, <1>3

\* A statement is appended to the others.
LEMMA Appended ==
    ASSUME Inv, NEW type \in P!Type, NEW kids \in Seq(P!Child), NEW next,
           P!Emit(type, kids, next),
           OneTarget([type |-> type, children |-> kids])
    PROVE  /\ statements' \in Seq(P!Statement)
           /\ \A k \in 1 .. Len(statements') : OneTarget(statements'[k])
<1> DEFINE s == [type |-> type, children |-> kids]
<1>1. s \in P!Statement
  BY DEF P!Statement
<1>2. statements' = Append(statements, s) /\ statements \in Seq(P!Statement)
  BY DEF P!Emit, Inv
<1>3. /\ statements' \in Seq(P!Statement)
      /\ Len(statements') = Len(statements) + 1 /\ Len(statements) \in Nat
      /\ \A k \in 1 .. Len(statements) : statements'[k] = statements[k]
      /\ statements'[Len(statements) + 1] = s
  BY <1>1, <1>2
<1>4. ASSUME NEW k \in 1 .. Len(statements')
      PROVE  OneTarget(statements'[k])
  <2>1. CASE k \in 1 .. Len(statements)
    BY <1>3, <2>1 DEF Inv
  <2>2. CASE k = Len(statements) + 1
    BY <1>3, <2>2
  <2>3. QED  BY <1>3, <1>4, <2>1, <2>2
<1>5. QED  BY <1>3, <1>4

\* A turn of the parser keeps the form of the statements.
LEMMA Parsing ==
    ASSUME Inv, P!Next
    PROVE  /\ statements' \in Seq(P!Statement)
           /\ \A k \in 1 .. Len(statements') : OneTarget(statements'[k])
<1> DEFINE Goal == /\ statements' \in Seq(P!Statement)
                   /\ \A k \in 1 .. Len(statements') : OneTarget(statements'[k])
<1>same. ASSUME statements' = statements PROVE Goal
  BY <1>same DEF Inv
<1>1. CASE P!NavigateUp
  <2>1. P!Emit("navigate_up", << >>, current + 3)
    BY <1>1 DEF P!NavigateUp
  <2>2. << >> \in Seq(P!Child) /\ "navigate_up" \in P!Type
    BY DEF P!Type
  <2>3. OneTarget([type |-> "navigate_up", children |-> << >>])
    BY DEF OneTarget
  <2>4. QED  BY <2>1, <2>2, <2>3, Appended
<1>2. CASE P!NavigateDown
  <2> DEFINE id == P!parse_nodeid(current + 2)
             c == <<"int">> \o id.child
  <2>1. P!Emit("navigate_down", c, id.next)
    BY <1>2 DEF P!NavigateDown
  <2>2. "int" \in P!Child /\ "navigate_down" \in P!Type
    BY DEF P!Child, P!Type
  <2>3. c \in Seq(P!Child)
    <3>1. <<"int">> \in Seq(P!Child) /\ id.child \in Seq(P!Child)
      BY <2>2, ChildLists
    <3>2. QED  BY <3>1, ChildLists
  <2>4. OneTarget([type |-> "navigate_down", children |-> c])
    <3>1. id.child \in {<< >>, <<"nodeid">>}
      BY Found
    <3>2. \A i \in DOMAIN c : c[i] = "int" => i = 1
      BY <3>1, IndexFirst
    <3> HIDE DEF c
    <3>3. QED  BY <3>2 DEF OneTarget
  <2>5. QED  BY <2>1, <2>2, <2>3, <2>4, Appended
<1>3. CASE P!NavigateTo
  <2> DEFINE id == P!parse_nodeid(current + 1)
  <2>1. P!Emit("navigate_to", id.child, id.next)
    BY <1>3 DEF P!NavigateTo
  <2>2. id.child = << >> \/ id.child = <<"nodeid">>
    BY Found
  <2>3. id.child \in Seq(P!Child) /\ "navigate_to" \in P!Type
    BY ChildLists DEF P!Type
  <2>4. OneTarget([type |-> "navigate_to", children |-> id.child])
    BY <2>2 DEF OneTarget
  <2>5. QED  BY <2>1, <2>3, <2>4, Appended
<1>other. ASSUME NEW type \in P!Type \ {"navigate_up", "navigate_to", "navigate_down"},
                 NEW kids \in Seq(P!Child), NEW next, P!Emit(type, kids, next)
          PROVE  Goal
  <2>1. OneTarget([type |-> type, children |-> kids])
    BY DEF OneTarget
  <2>2. QED  BY <1>other, <2>1, Appended
<1>none. << >> \in Seq(P!Child)
  OBVIOUS
<1>4. CASE P!Ip
  BY <1>4, <1>other, <1>none DEF P!Ip, P!Type
<1>5. CASE P!Parameter
  BY <1>5, <1>other, <1>none DEF P!Parameter, P!Type
<1>6. CASE P!Connect
  <2> DEFINE ip == P!parse_ip(current + 1)
  <2>1. P!Emit("connect", ip.child, ip.next)
    BY <1>6 DEF P!Connect
  <2>2. ip.child \in Seq(P!Child)
    BY ChildLists
  <2>3. QED  BY <2>1, <2>2, <1>other DEF P!Type
<1>7. CASE P!ListDirs
  <2> DEFINE index == IF tokens[current + 1] = "number" THEN <<"index">> ELSE << >>
             p == current + 1 + Len(index)
             id == P!parse_nodeid(p)
             arg == CASE tokens[p] \notin P!Identifier -> P!Nothing(p)
                      [] id.child # << >>              -> id
                      [] OTHER                         -> P!parse_parameter(id.next)
  <2>1. P!Emit("list_dirs", index \o arg.child, arg.next)
    BY <1>7 DEF P!ListDirs
  <2>2. arg.child \in Seq(P!Child)
    <3>1. P!Nothing(p).child \in Seq(P!Child)
      BY ChildLists DEF P!Nothing
    <3>2. id.child \in Seq(P!Child) /\ P!parse_parameter(id.next).child \in Seq(P!Child)
      BY ChildLists
    <3>3. arg \in {P!Nothing(p), id, P!parse_parameter(id.next)}
      OBVIOUS
    <3> HIDE DEF id, arg
    <3>4. QED  BY <3>1, <3>2, <3>3
  <2>3. index \in Seq(P!Child)
    BY ChildLists DEF P!Child
  <2>4. index \o arg.child \in Seq(P!Child)
    <3> HIDE DEF index, arg
    <3>1. QED  BY <2>2, <2>3, ChildLists
  <2>5. QED  BY <2>1, <2>4, <1>other DEF P!Type
<1>8. CASE P!Save
  <2> DEFINE range == P!parse_range(current + 1)
             arg == P!parse_parameter(range.next)
  <2>1. P!Emit("save", range.child \o arg.child, arg.next)
    BY <1>8 DEF P!Save
  <2>2. range.child \in Seq(P!Child) /\ arg.child \in Seq(P!Child)
    BY ChildLists
  <2>3. range.child \o arg.child \in Seq(P!Child)
    BY <2>2, ChildLists
  <2>4. QED  BY <2>1, <2>3, <1>other DEF P!Type
<1>9. CASE P!State
  BY <1>9, <1>other, <1>none DEF P!State, P!Type
<1>10. CASE P!Set
  <2> DEFINE key == P!parse_parameter(current + 1)
             c == IF key.next < P!Eof THEN key.child \o <<"string">> ELSE key.child
  <2>1. P!Emit("set", c, P!Eof)
    BY <1>10 DEF P!Set
  <2>2. key.child \in Seq(P!Child) /\ <<"string">> \in Seq(P!Child)
    BY ChildLists DEF P!Child
  <2>3. c \in Seq(P!Child)
    BY <2>2, ChildLists
  <2>4. QED  BY <2>1, <2>3, <1>other DEF P!Type
<1>11. CASE P!SetWithoutKey \/ P!NotHandled \/ P!Done
  BY <1>11, <1>same DEF P!SetWithoutKey, P!NotHandled, P!Done, P!vars
<1>12. QED
  BY <1>1, <1>2, <1>3, <1>4, <1>5, <1>6, <1>7, <1>8, <1>9, <1>10, <1>11 DEF P!Next
-----------------------------------------------------------------------------
(* The statement executed. *)

\* One more statement is one more change of the state, or none.
LEMMA ChangesNext ==
    ASSUME NEW i \in Nat, NEW j \in Nat, i <= j
    PROVE  /\ Changes(i, j) \in Nat
           /\ Changes(i, j + 1) =
                 IF statements[j].type = "state" THEN Changes(i, j) + 1 ELSE Changes(i, j)
<1> DEFINE Turns(k) == {m \in i .. k - 1 : statements[m].type = "state"}
<1>1. IsFiniteSet(Turns(j))
  <2>1. IsFiniteSet(i .. j - 1)
    BY FS_Interval
  <2>2. QED  BY <2>1, FS_Subset
<1>2. Cardinality(Turns(j)) \in Nat
  BY <1>1, FS_CardinalityType
<1>3. Turns(j + 1) = IF statements[j].type = "state" THEN Turns(j) \cup {j} ELSE Turns(j)
  OBVIOUS
<1>4. j \notin Turns(j)
  OBVIOUS
<1>5. Cardinality(Turns(j) \cup {j}) = Cardinality(Turns(j)) + 1
  BY <1>1, <1>4, FS_AddElement
<1>6. Changes(i, j) = Cardinality(Turns(j)) /\ Changes(i, j + 1) = Cardinality(Turns(j + 1))
  BY DEF Changes
<1> HIDE DEF Turns
<1>7. QED  BY <1>2, <1>3, <1>5, <1>6

LEMMA NoChangesYet ==
    ASSUME NEW j \in Nat
    PROVE  Changes(j, j) = 0
<1>1. {m \in j .. j - 1 : statements[m].type = "state"} = {}
  OBVIOUS
<1>2. QED  BY <1>1, FS_EmptySet DEF Changes

\* What every execution of a statement does: calls of this statement in this
\* state, at most one move, and the state turned if it is a "state".
LEMMA Executed ==
    ASSUME Inv, Properties, pc = "execute", node <= Len(statements),
           NEW made \in SUBSET Call, Make(made),
           \A c \in made : c.of = node /\ c.typed = state,
           \A c, d \in made : c.op \in Navigation /\ d.op \in Navigation => c = d,
           state' \in {"normal", "config"},
           state' = state <=> statements[node].type # "state"
    PROVE  Inv' /\ Properties'
<1>1. /\ calls' = calls \cup made /\ node' = node + 1
      /\ statements' = statements /\ pc' = pc
  BY DEF Make, parser
<1>2. /\ node \in Nat /\ calls \subseteq Call /\ state \in {"normal", "config"}
      /\ \A c \in calls : c.of < node
  BY DEF Inv
<1>3. ASSUME NEW c \in calls' PROVE c.of < node'
  <2>1. c.of \in Nat
    BY <1>1, <1>2 DEF Call
  <2>2. c.of < node \/ c.of = node
    BY <1>1, <1>2
  <2>3. QED  BY <1>1, <1>2, <2>1, <2>2
<1>4. Inv'
  BY <1>1, <1>2, <1>3 DEF Inv
<1>5. StatePerStatement'
  <2>1. SUFFICES ASSUME NEW c \in calls'
                 PROVE  c.typed = state' <=> Changes(c.of, node + 1) % 2 = 0
    BY <1>1 DEF StatePerStatement, Changes
  <2>2. c.of \in Nat /\ c.of <= node /\ c.typed \in {"normal", "config"}
    BY <1>1, <1>2 DEF Call
  <2>3. c.typed = state <=> Changes(c.of, node) % 2 = 0
    <3>1. CASE c \in calls
      BY <3>1 DEF Properties, StatePerStatement
    <3>2. CASE c \in made
      BY <1>2, <3>2, NoChangesYet
    <3>3. QED  BY <1>1, <3>1, <3>2
  <2> DEFINE old == Changes(c.of, node)
             new == Changes(c.of, node + 1)
  <2>4. old \in Nat /\ new = IF statements[node].type = "state" THEN old + 1 ELSE old
    BY <1>2, <2>2, ChangesNext
  <2> HIDE DEF old, new
  <2>5. (old + 1) % 2 = 0 <=> old % 2 # 0
    BY <2>4
  <2>6. CASE statements[node].type = "state"
    <3>1. new % 2 = 0 <=> old % 2 # 0
      BY <2>4, <2>5, <2>6
    <3>2. c.typed = state' <=> c.typed # state
      BY <1>2, <2>2, <2>6
    <3>3. QED  BY <2>3, <3>1, <3>2 DEF old, new
  <2>7. CASE statements[node].type # "state"
    BY <2>3, <2>4, <2>7 DEF old, new
  <2>8. QED  BY <2>6, <2>7
<1>6. OneMovePerStatement'
  <2>1. SUFFICES ASSUME NEW c \in calls', NEW d \in calls',
                        c.op \in Navigation, d.op \in Navigation, c.of = d.of
                 PROVE  c = d
    BY DEF OneMovePerStatement
  <2>2. CASE c \in calls /\ d \in calls
    BY <2>1, <2>2 DEF Properties, OneMovePerStatement
  <2>3. CASE c \in made /\ d \in made
    BY <2>1, <2>3
  <2>4. ~(c \in calls /\ d \in made) /\ ~(c \in made /\ d \in calls)
    BY <1>2, <2>1
  <2>5. QED  BY <1>1, <2>1, <2>2, <2>3, <2>4
<1>7. QED  BY <1>4, <1>5, <1>6 DEF Properties

\* The calls outside of the loop over the children.
LEMMA OnceCalls ==
    ASSUME Inv, NEW ops \in SUBSET Operation
    PROVE  /\ Once(ops) \in SUBSET Call
           /\ \A c \in Once(ops) : c.of = node /\ c.typed = state /\ c.op \in ops
BY DEF Inv, Once, CallOf, Call

\* The calls of the loop.
LEMMA LoopCalls ==
    ASSUME Inv, node \in 1 .. Len(statements), NEW table,
           \A t \in DOMAIN table : table[t] \in Operation
    PROVE  /\ PerChild(table) \in SUBSET Call
           /\ \A c \in PerChild(table) :
                 /\ c.of = node /\ c.typed = state
                 /\ c.child \in DOMAIN Children /\ Children[c.child] \in DOMAIN table
                 /\ c = CallOf(table[Children[c.child]], c.child)
<1>1. Children \in Seq(P!Child)
  <2>1. statements[node] \in P!Statement
    BY DEF Inv
  <2>2. QED  BY <2>1 DEF Children, P!Statement
<1>2. DOMAIN Children \subseteq Nat
  BY <1>1
<1>3. ASSUME NEW c \in PerChild(table)
      PROVE  /\ c \in Call /\ c.of = node /\ c.typed = state
             /\ c.child \in DOMAIN Children /\ Children[c.child] \in DOMAIN table
             /\ c = CallOf(table[Children[c.child]], c.child)
  <2>1. PICK k \in DOMAIN Children : /\ Children[k] \in DOMAIN table
                                    /\ c = CallOf(table[Children[k]], k)
    BY <1>3 DEF PerChild
  <2>2. /\ c.op = table[Children[k]] /\ c.child = k /\ c.of = node /\ c.typed = state
    BY <2>1 DEF CallOf
  <2>3. c \in Call
    BY <1>2, <2>1 DEF Inv, CallOf, Call
  <2>4. QED  BY <2>1, <2>2, <2>3
<1>4. QED  BY <1>3

\* A statement that changes nothing but its calls, of which none moves.
LEMMA Staying ==
    ASSUME Inv, Properties, pc = "execute", node <= Len(statements),
           NEW ops \in SUBSET (Operation \ Navigation), Make(Once(ops)),
           state' = state, statements[node].type # "state"
    PROVE  Inv' /\ Properties'
<1>1. ops \in SUBSET Operation /\ state' \in {"normal", "config"}
  BY DEF Inv
<1>2. \A c \in Once(ops) : c.op \notin Navigation
  BY <1>1, OnceCalls
<1>3. QED  BY <1>1, <1>2, OnceCalls, Executed

\* A "state" turns the state, and moves nowhere.
LEMMA Turning ==
    ASSUME Inv, Properties, pc = "execute", node <= Len(statements),
           NEW ops \in SUBSET (Operation \ Navigation), Make(Once(ops)),
           state' \in {"normal", "config"}, state' # state,
           statements[node].type = "state"
    PROVE  Inv' /\ Properties'
<1>1. ops \in SUBSET Operation
  OBVIOUS
<1>2. \A c \in Once(ops) : c.op \notin Navigation
  BY <1>1, OnceCalls
<1>3. QED  BY <1>1, <1>2, OnceCalls, Executed

LEMMA ExecuteStep == Inv /\ Properties /\ Execute => Inv' /\ Properties'
<1>1. SUFFICES ASSUME Inv, Properties, Execute PROVE Inv' /\ Properties'
  OBVIOUS
<1> DEFINE Other == Operation \ Navigation
<1>2. CASE EnterConfig
  <2>1. {"config_print"} \in SUBSET Other
    BY DEF Operation, Navigation
  <2>2. QED  BY <1>1, <1>2, <2>1, Turning DEF EnterConfig, Executing
<1>3. CASE LeaveConfig
  <2>1. {"print_current_node", "print_current_children"} \in SUBSET Other
    BY DEF Operation, Navigation
  <2>2. QED  BY <1>1, <1>3, <2>1, Turning DEF LeaveConfig, Executing
<1>4. CASE Connect
  <2> DEFINE ops == {IF Has("ip") THEN "connect_ip" ELSE "connect"}
  <2>1. ops \in SUBSET Other
    BY DEF Operation, Navigation
  <2>2. QED  BY <1>1, <1>4, <2>1, Staying DEF Connect, Executing
<1>5. CASE ListDirs
  <2> DEFINE ops == {CASE Has("nodeid") -> "explore_nodeid"
                       [] ~Has("nodeid") /\ Has("index") -> "explore_idx"
                       [] OTHER -> "explore"}
  <2>1. ops \in SUBSET Other
    BY DEF Operation, Navigation
  <2>2. QED  BY <1>1, <1>5, <2>1, Staying DEF ListDirs, Executing
<1>6. CASE ListConfig
  <2> DEFINE ops == {IF Has("index") THEN "config_print_idx" ELSE "config_print"}
  <2>1. ops \in SUBSET Other
    BY DEF Operation, Navigation
  <2>2. QED  BY <1>1, <1>6, <2>1, Staying DEF ListConfig, Executing
<1>7. CASE SetConfig
  <2> DEFINE ops == {op \in {"config_set_idx", "config_set"} :
                        /\ Len(Children) >= 2 /\ Children[2] = "string"
                        /\ Children[1] = IF op = "config_set_idx" THEN "int" ELSE "string"}
  <2>1. ops \in SUBSET Other
    BY DEF Operation, Navigation
  <2>2. Make(Once(ops)) /\ state' = state /\ Executing("set")
    BY <1>7 DEF SetConfig
  <2> HIDE DEF ops
  <2>3. QED  BY <1>1, <2>1, <2>2, Staying DEF Executing
<1>8. CASE NormalIgnores \/ ConfigIgnores
  <2>1. Once({}) = {} /\ {} \in SUBSET Other
    BY DEF Once
  <2>2. Make({}) /\ state' = state /\ \E type \in P!Type \ {"state"} : Executing(type)
    BY <1>8 DEF NormalIgnores, ConfigIgnores, Ignored, P!Type
  <2>3. QED  BY <1>1, <2>1, <2>2, Staying DEF Executing
<1>loop. ASSUME node \in 1 .. Len(statements), NEW table,
                \A t \in DOMAIN table : table[t] \in Operation,
                \A i, j \in DOMAIN Children :
                    Children[i] \in DOMAIN table /\ Children[j] \in DOMAIN table => i = j
         PROVE  \A c, d \in PerChild(table) : c = d
  BY <1>1, <1>loop, LoopCalls
<1>9. ASSUME NEW type \in P!Type, Executing(type)
      PROVE  /\ pc = "execute" /\ node \in 1 .. Len(statements)
             /\ statements[node].type = type /\ OneTarget(statements[node])
             /\ Children = statements[node].children
  BY <1>1, <1>9 DEF Executing, Inv, Children
<1>10. CASE NavigateUp
  <2>1. Executing("navigate_up") /\ "navigate_up" \in P!Type
    BY <1>10 DEF NavigateUp, P!Type
  <2>2. Children = << >>
    BY <1>9, <2>1 DEF OneTarget
  <2>3. PerChild(NavigateToTable) = {}
    BY <2>2 DEF PerChild
  <2>4. Make(Once({"navigate_up"})) /\ state' = state
    BY <1>10, <2>3 DEF NavigateUp
  <2>5. {"navigate_up"} \in SUBSET Operation
    BY DEF Operation
  <2>6. \A c, d \in Once({"navigate_up"}) : c = d
    BY DEF Once
  <2>7. state' \in {"normal", "config"}
    BY <1>1, <2>4 DEF Inv
  <2>8. QED  BY <1>1, <1>9, <2>1, <2>4, <2>5, <2>6, <2>7, OnceCalls, Executed
<1>11. CASE NavigateTo
  <2>1. Executing("navigate_to") /\ "navigate_to" \in P!Type
    BY <1>11 DEF NavigateTo, P!Type
  <2>2. \A i, j \in DOMAIN Children : i = j
    BY <1>9, <2>1 DEF OneTarget
  <2>3. \A t \in DOMAIN NavigateToTable : NavigateToTable[t] \in Operation
    BY DEF NavigateToTable, Operation
  <2>4. Make(PerChild(NavigateToTable)) /\ state' = state
    BY <1>11 DEF NavigateTo
  <2>5. \A c, d \in PerChild(NavigateToTable) : c = d
    BY <1>9, <1>loop, <2>1, <2>2, <2>3
  <2>6. state' \in {"normal", "config"}
    BY <1>1, <2>4 DEF Inv
  <2>7. QED  BY <1>1, <1>9, <2>1, <2>3, <2>4, <2>5, <2>6, LoopCalls, Executed
<1>12. CASE NavigateDown
  <2> DEFINE table == [c \in {"int"} |-> "navigate_down"]
  <2>1. Executing("navigate_down") /\ "navigate_down" \in P!Type
    BY <1>12 DEF NavigateDown, P!Type
  <2>2. DOMAIN table = {"int"} /\ table["int"] \in Operation
    BY DEF Operation
  <2>3. \A i, j \in DOMAIN Children :
            Children[i] \in DOMAIN table /\ Children[j] \in DOMAIN table => i = j
    BY <1>9, <2>1, <2>2 DEF OneTarget
  <2>4. Make(PerChild(table)) /\ state' = state
    BY <1>12 DEF NavigateDown
  <2> HIDE DEF table
  <2>5. \A c, d \in PerChild(table) : c = d
    BY <1>9, <1>loop, <2>1, <2>2, <2>3
  <2>6. state' \in {"normal", "config"}
    BY <1>1, <2>4 DEF Inv
  <2>7. QED  BY <1>1, <1>9, <2>1, <2>2, <2>4, <2>5, <2>6, LoopCalls, Executed
<1>13. CASE Save
  <2> DEFINE table == [range |-> "save_range", int |-> "save_idx"]
  <2>1. Executing("save") /\ "save" \in P!Type
    BY <1>13 DEF Save, P!Type
  <2>2. \A t \in DOMAIN table : table[t] \in Operation \ Navigation
    BY DEF Operation, Navigation
  <2>3. Make(PerChild(table)) /\ state' = state
    BY <1>13 DEF Save
  <2> HIDE DEF table
  <2>4. \A c \in PerChild(table) : c.op \notin Navigation
    BY <1>1, <1>9, <2>1, <2>2, LoopCalls DEF CallOf
  <2>5. state' \in {"normal", "config"}
    BY <1>1, <2>3 DEF Inv
  <2>6. QED  BY <1>1, <1>9, <2>1, <2>2, <2>3, <2>4, <2>5, LoopCalls, Executed
<1>14. QED
  BY <1>1, <1>2, <1>3, <1>4, <1>5, <1>6, <1>7, <1>8, <1>10, <1>11, <1>12, <1>13 DEF Execute

-----------------------------------------------------------------------------

LEMMA Start == Init => Inv /\ Properties
BY DEF Init, NoLine, Inv, Properties, StatePerStatement, OneMovePerStatement

LEMMA Step == Inv /\ Properties /\ [Next]_vars => Inv' /\ Properties'
<1>1. SUFFICES ASSUME Inv, Properties, [Next]_vars PROVE Inv' /\ Properties'
  OBVIOUS
<1>none. ASSUME calls' = {} PROVE Properties'
  BY <1>none DEF Properties, StatePerStatement, OneMovePerStatement
<1>same. ASSUME UNCHANGED <<statements, node, state, calls>>,
                pc' \in {"prompt", "parse"} => calls' = {}
         PROVE  Inv' /\ Properties'
  BY <1>1, <1>same DEF Inv, Properties, StatePerStatement, OneMovePerStatement, Changes
<1>2. CASE ReadLine
  BY <1>1, <1>2, <1>same DEF ReadLine, Inv
<1>3. CASE Quit
  BY <1>3, <1>same DEF Quit, parser
<1>4. CASE Parse
  <2>1. P!Next /\ UNCHANGED <<pc, state, node, calls>> /\ calls = {}
    BY <1>1, <1>4 DEF Parse, Inv
  <2>2. Inv'
    BY <1>1, <2>1, Parsing DEF Inv
  <2>3. QED  BY <1>none, <2>1, <2>2
<1>5. CASE Parsed
  BY <1>5, <1>same DEF Parsed, parser
<1>6. CASE LineDone
  <2>1. calls' = {} /\ node' = 1 /\ state' = state /\ statements' = << >>
    BY <1>6 DEF LineDone
  <2>2. Inv'
    BY <1>1, <2>1 DEF Inv
  <2>3. QED  BY <1>none, <2>1, <2>2
<1>7. CASE Execute
  BY <1>1, <1>7, ExecuteStep
<1>8. CASE UNCHANGED vars
  BY <1>1, <1>8, <1>same DEF vars, Inv
<1>9. QED
  BY <1>1, <1>2, <1>3, <1>4, <1>5, <1>6, <1>7, <1>8 DEF Next, Answer

\* What a step of the program does to a line is a step of the interpreter.
LEMMA LineStep == [CluaNext]_allvars => [Next]_vars
<1>1. SUFFICES ASSUME [CluaNext]_allvars PROVE [Next]_vars
  OBVIOUS
<1>2. CASE Prompt \/ Leave \/ Line \/ Statement
  BY <1>2 DEF Prompt, Leave, Line, Statement, Next, Answer
<1>3. CASE Reply \/ Environment \/ UNCHANGED allvars
  BY <1>3 DEF Reply, Environment, allvars
<1>4. QED  BY <1>1, <1>2, <1>3 DEF CluaNext

LEMMA Invariant == CluaSpec => [](Inv /\ Properties)
<1>1. CluaInit => Inv /\ Properties
  BY Start DEF CluaInit
<1>2. Inv /\ Properties /\ [CluaNext]_allvars => (Inv /\ Properties)'
  BY LineStep, Step
<1>3. QED  BY <1>1, <1>2, PTL DEF CluaSpec

\* Each statement of a line is executed in the state the ones before it left,
\* for every line and however often it changes the state.
THEOREM StatementsFollowState == CluaSpec => []StatePerStatement
<1>1. Inv /\ Properties => StatePerStatement
  BY DEF Properties
<1>2. QED  BY <1>1, Invariant, PTL

\* No statement of any line moves the session twice.
THEOREM StatementsMoveOnce == CluaSpec => []OneMovePerStatement
<1>1. Inv /\ Properties => OneMovePerStatement
  BY DEF Properties
<1>2. QED  BY <1>1, Invariant, PTL

-----------------------------------------------------------------------------
(* The history. *)

\* A statement's calls are its own.
LEMMA OwnCalls ==
    ASSUME Inv, Execute
    PROVE  \A c \in Made : c.of = node
<1>1. \A ops : \A c \in Once(ops) : c.of = node
  BY DEF Once, CallOf
<1>2. \A table : \A c \in PerChild(table) : c.of = node
  BY DEF PerChild, CallOf
<1>3. ASSUME NEW made, Make(made), \A c \in made : c.of = node
      PROVE  \A c \in Made : c.of = node
  BY <1>3 DEF Make, Made
<1>4. CASE EnterConfig \/ Connect \/ ListDirs
  BY <1>1, <1>3, <1>4 DEF EnterConfig, Connect, ListDirs
<1>5. CASE NavigateUp
  <2>1. Make(Once({"navigate_up"}) \cup PerChild(NavigateToTable))
    BY <1>5 DEF NavigateUp
  <2>2. \A c \in Once({"navigate_up"}) \cup PerChild(NavigateToTable) : c.of = node
    BY <1>1, <1>2
  <2>3. QED  BY <1>3, <2>1, <2>2
<1>6. CASE NavigateTo
  BY <1>2, <1>3, <1>6 DEF NavigateTo
<1>7. CASE NavigateDown
  BY <1>2, <1>3, <1>7 DEF NavigateDown
<1>8. CASE Save
  BY <1>2, <1>3, <1>8 DEF Save
<1>9. CASE NormalIgnores \/ ConfigIgnores
  BY <1>3, <1>9 DEF NormalIgnores, ConfigIgnores, Ignored
<1>10. CASE LeaveConfig \/ ListConfig
  BY <1>1, <1>3, <1>10 DEF LeaveConfig, ListConfig
<1>11. CASE SetConfig
  <2>1. PICK ops : Make(Once(ops))
    BY <1>11 DEF SetConfig
  <2>2. QED  BY <1>1, <1>3, <2>1
<1>12. QED
  BY <1>4, <1>5, <1>6, <1>7, <1>8, <1>9, <1>10, <1>11 DEF Execute

\* What the history is made of.
Nodes ==
    /\ history \in Seq(S!NodeOrNull)
    /\ children \in Seq(Node)
    /\ defaultRoot \in S!NodeOrNull
    /\ space \in Spaces

LEMMA Browsed ==
    ASSUME Nodes, NEW n
    PROVE  S!Browse(n) \in Seq(Node)
  BY SessionAssumption DEF S!SpacesAssumption, Nodes, S!Browse

\* Entering a node the server has, or one that is listed.
LEMMA Entered ==
    ASSUME Nodes, NEW n \in S!NodeOrNull
    PROVE  S!addToHistory(n) \in Seq(S!NodeOrNull)
  BY DEF Nodes, S!addToHistory

\* Typed: the commands that enter a node. The rest of a step leaves the history
\* alone or shortens it.
Typed ==
    Len(history') > Len(history) =>
        \/ call = "probe"
        \/ \E c \in calls' : c.op \in {"navigate_to", "navigate_down"} /\ c.of = node

\* A step that only lists, or sets the root, enters nothing.
LEMMA Quiet ==
    ASSUME Nodes, history' = history,
           children' \in Seq(Node), defaultRoot' \in S!NodeOrNull, space' \in Spaces
    PROVE  Nodes' /\ Typed
  BY DEF Nodes, Typed, S!NodeOrNull

LEMMA Untouched ==
    ASSUME Nodes, UNCHANGED <<history, children, defaultRoot, space>>
    PROVE  Nodes' /\ Typed
  BY Quiet DEF Nodes

\* A node entered by a call of the statement at hand.
LEMMA Moved ==
    ASSUME Inv, Nodes, Execute, Calls({"navigate_to", "navigate_down"}),
           NEW n \in Node, S!MoveTo(n), children' = << >>, UNCHANGED <<defaultRoot, space>>
    PROVE  Nodes' /\ Typed
<1>1. PICK c \in Made : c.op \in {"navigate_to", "navigate_down"}
  BY DEF Calls
<1>2. c \in calls' /\ c.of = node
  BY <1>1, OwnCalls DEF Made
<1>3. Typed
  BY <1>1, <1>2 DEF Typed
<1>4. history' \in Seq(S!NodeOrNull)
  BY Entered DEF S!MoveTo, S!NodeOrNull
<1>5. QED  BY <1>3, <1>4 DEF Nodes, S!NodeOrNull

LEMMA Crashed ==
    ASSUME Nodes, Crash
    PROVE  Nodes' /\ Typed
  BY Untouched DEF Crash, S!CommandWithoutClient, S!NullClient, S!ctx, S!trail, S!server

LEMMA Navigated ==
    ASSUME Inv, Nodes, Execute, NavigateCall
    PROVE  Nodes' /\ Typed
<1> USE DEF S!ctx, S!trail, S!server
<1>1. CASE Crash
  BY <1>1, Crashed
<1>2. CASE S!NavigateUp
  <2>1. CASE S!Top > 1
    <3>1. /\ history' = SubSeq(history, 1, Len(history) - 1)
          /\ Len(history) > 1 /\ history \in Seq(S!NodeOrNull)
      BY <1>2, <2>1 DEF S!NavigateUp, S!Top, Nodes
    <3>2. history' \in Seq(S!NodeOrNull) /\ Len(history') = Len(history) - 1
      BY <3>1
    <3>3. Typed
      BY <3>1, <3>2 DEF Typed
    <3>4. children' = << >> /\ UNCHANGED <<defaultRoot, space>>
      BY <1>2, <2>1 DEF S!NavigateUp
    <3>5. QED  BY <3>2, <3>3, <3>4 DEF Nodes, S!NodeOrNull
  <2>2. CASE ~(S!Top > 1)
    BY <1>2, <2>2, Untouched DEF S!NavigateUp
  <2>3. QED  BY <2>1, <2>2
<1>3. ASSUME Calls({"navigate_down"}), NEW i \in S!Index, S!NavigateDown(i)
      PROVE  Nodes' /\ Typed
  <2>1. Calls({"navigate_to", "navigate_down"})
    BY <1>3 DEF Calls
  <2>2. CASE i <= Len(children)
    <3>1. children[i] \in Node
      BY <2>2 DEF Nodes, S!Index
    <3>2. S!MoveTo(children[i]) /\ children' = << >> /\ UNCHANGED <<defaultRoot, space>>
      BY <1>3, <2>2 DEF S!NavigateDown
    <3>3. QED  BY <2>1, <3>1, <3>2, Moved
  <2>3. CASE ~(i <= Len(children))
    BY <1>3, <2>3, Untouched DEF S!NavigateDown
  <2>4. QED  BY <2>2, <2>3
<1>4. ASSUME Calls({"navigate_to"}), NEW n \in Node, S!NavigateTo(n)
      PROVE  Nodes' /\ Typed
  <2>1. Calls({"navigate_to", "navigate_down"})
    BY <1>4 DEF Calls
  <2>2. CASE S!NodeExists(n)
    <3>1. S!MoveTo(n) /\ children' = << >> /\ UNCHANGED <<defaultRoot, space>>
      BY <1>4, <2>2 DEF S!NavigateTo
    <3>2. QED  BY <2>1, <3>1, Moved
  <2>3. CASE ~S!NodeExists(n)
    BY <1>4, <2>3, Untouched DEF S!NavigateTo
  <2>4. QED  BY <2>2, <2>3
<1>5. QED  BY <1>1, <1>2, <1>3, <1>4 DEF NavigateCall

LEMMA Called ==
    ASSUME Inv, Nodes, Statement
    PROVE  Nodes' /\ Typed
<1> USE DEF S!ctx, S!trail, S!server
<1>1. Execute
  BY DEF Statement
<1>2. CASE ConnectCall
  <2>1. CASE S!AlreadyConnected
    BY <2>1, Untouched DEF S!AlreadyConnected, S!vars
  <2>2. CASE S!ConnectFails
    BY <2>2, Untouched DEF S!ConnectFails
  <2>3. ASSUME NEW e, S!ConnectSucceeds(e) PROVE Nodes' /\ Typed
    BY <2>3, Untouched DEF S!ConnectSucceeds
  <2>4. QED  BY <1>2, <2>1, <2>2, <2>3 DEF ConnectCall
<1>3. CASE ExploreCall
  <2>1. CASE Crash
    BY <2>1, Crashed
  <2>2. CASE S!ListCurrent
    <3>1. children' = << >> /\ UNCHANGED <<history, defaultRoot, space>>
      BY <2>2 DEF S!ListCurrent
    <3>2. QED  BY <3>1, Quiet DEF Nodes
  <2>3. ASSUME NEW i, S!ListIndex(i) PROVE Nodes' /\ Typed
    BY <2>3, Untouched DEF S!ListIndex
  <2>4. ASSUME NEW n, S!ListNode(n) PROVE Nodes' /\ Typed
    BY <2>4, Untouched DEF S!ListNode
  <2>5. QED  BY <1>3, <2>1, <2>2, <2>3, <2>4 DEF ExploreCall
<1>4. CASE NavigateCall
  BY <1>1, <1>4, Navigated
<1>5. CASE SaveCall
  BY <1>5, Crashed, Untouched DEF SaveCall, session
<1>6. CASE ChangeState
  <2>1. CASE S!EnterConfig
    BY <2>1, Untouched DEF S!EnterConfig
  <2>2. CASE S!LeaveConfig
    BY <2>2, Untouched DEF S!LeaveConfig
  <2>3. QED  BY <1>6, <2>1, <2>2 DEF ChangeState
<1>7. CASE SettingCall
  <2>1. ASSUME NEW e, S!SetEndpoint(e) PROVE Nodes' /\ Typed
    BY <2>1, Untouched DEF S!SetEndpoint
  <2>2. ASSUME NEW n \in S!NodeOrNull, S!SetDefaultRoot(n) PROVE Nodes' /\ Typed
    <3>1. defaultRoot' = n /\ UNCHANGED <<history, children, space>>
      BY <2>2 DEF S!SetDefaultRoot
    <3>2. QED  BY <3>1, Quiet DEF Nodes
  <2>3. CASE UNCHANGED session
    BY <2>3, Untouched DEF session
  <2>4. QED  BY <1>7, <2>1, <2>2, <2>3 DEF SettingCall
<1>8. CASE UNCHANGED session
  BY <1>8, Untouched DEF session
<1>9. QED
  BY <1>2, <1>3, <1>4, <1>5, <1>6, <1>7, <1>8 DEF Statement

LEMMA Replied ==
    ASSUME Nodes, S!Reply
    PROVE  Nodes' /\ Typed
<1> USE DEF S!ctx, S!trail, S!server
<1>1. CASE S!ProbeDefaultRoot
  <2> DEFINE root == IF S!Browse(defaultRoot) = << >> THEN Objects ELSE defaultRoot
  <2>1. /\ call = "probe"
        /\ history' = S!addToHistory(root) /\ defaultRoot' = root
        /\ UNCHANGED <<children, space>>
    BY <1>1 DEF S!ProbeDefaultRoot
  <2>2. root \in S!NodeOrNull
    BY SessionAssumption DEF S!NodesAssumption, Nodes, S!NodeOrNull
  <2>3. history' \in Seq(S!NodeOrNull)
    BY <2>1, <2>2, Entered
  <2>4. QED  BY <2>1, <2>2, <2>3 DEF Nodes, Typed, S!NodeOrNull
<1>2. CASE S!Peek
  BY <1>2, Untouched DEF S!Peek
<1>3. CASE S!ExploreChildren
  <2>1. children' = S!Browse(currentNode) /\ UNCHANGED <<history, defaultRoot, space>>
    BY <1>3 DEF S!ExploreChildren
  <2>2. children' \in Seq(Node)
    BY <2>1, Browsed
  <2>3. QED  BY <2>1, <2>2, Quiet DEF Nodes
<1>4. QED  BY <1>1, <1>2, <1>3 DEF S!Reply

LEMMA HistoryStep == Inv /\ Nodes /\ [CluaNext]_allvars => Nodes' /\ [Typed]_allvars
<1>1. SUFFICES ASSUME Inv, Nodes, CluaNext PROVE Nodes' /\ Typed
  <2>1. UNCHANGED allvars /\ Nodes => Nodes'
    BY DEF allvars, session, Nodes, S!NodeOrNull
  <2>2. QED  BY <2>1
<1>2. CASE Prompt \/ Line
  BY <1>1, <1>2, Untouched DEF Prompt, Line, session
<1>3. CASE Leave
  BY <1>1, <1>3, Untouched DEF Leave, S!Quit, S!ctx, S!trail, S!server
<1>4. CASE Statement
  BY <1>1, <1>4, Called
<1>5. CASE Reply
  BY <1>1, <1>5, Replied DEF Reply
<1>6. CASE Environment
  <2>1. UNCHANGED <<history, children, defaultRoot>> /\ space' \in Spaces
    BY <1>1, <1>6 DEF Environment, S!Environment, S!Reconfigure, S!FlipLink,
                      S!ctx, S!trail, Nodes
  <2>2. QED  BY <1>1, <2>1, Quiet DEF Nodes
<1>7. QED  BY <1>1, <1>2, <1>3, <1>4, <1>5, <1>6 DEF CluaNext

\* The way back holds only nodes that were gone to with a `cd` of the line, or
\* found by a `con`, whatever the line and the server.
THEOREM HistoryTyped == CluaSpec => HistoryWasTyped
<1>1. CluaInit => Nodes
  BY SessionAssumption DEF S!NodesAssumption, CluaInit, S!Init, Nodes, S!NodeOrNull
<1>2. Inv /\ Nodes /\ [CluaNext]_allvars => Nodes' /\ [Typed]_allvars
  BY HistoryStep
<1>3. CluaSpec => []Inv
  BY Invariant, PTL
<1>4. CluaSpec => [][Typed]_allvars
  BY <1>1, <1>2, <1>3, PTL DEF CluaSpec
<1>5. QED  BY <1>4 DEF HistoryWasTyped, Typed

-----------------------------------------------------------------------------
(* The parser in the program is the parser the theorems about it speak of. *)

LEMMA SameTokens == P!Token = Proved!Token /\ P!Identifier = Proved!Identifier
  BY DEF P!Token, P!Identifier, P!Keyword, P!Punctuation, P!Unhandled,
         Proved!Token, Proved!Identifier, Proved!Keyword, Proved!Punctuation,
         Proved!Unhandled

LEMMA SameInput == Input \subseteq Seq(Proved!Token)
  BY LinesAssumption, SameTokens

LEMMA SameTypes ==
    /\ P!Statement = Proved!Statement /\ P!Child = Proved!Child /\ P!Type = Proved!Type
    /\ P!TypeOK <=> Proved!TypeOK
    /\ P!Running <=> Proved!Running
<1>1. P!Child = Proved!Child /\ P!Type = Proved!Type
  BY DEF P!Child, Proved!Child, P!Type, Proved!Type
<1>2. P!Statement = Proved!Statement
  BY <1>1 DEF P!Statement, Proved!Statement
<1>3. P!TypeOK <=> Proved!TypeOK
  BY <1>2, SameTokens DEF P!TypeOK, Proved!TypeOK
<1>4. P!Running <=> Proved!Running
  BY DEF P!Running, Proved!Running
<1>5. QED  BY <1>1, <1>2, <1>3, <1>4

LEMMA SameTurns == P!Next <=> Proved!Next
<1> USE DEF P!At, P!Running, P!Ahead, P!Emit, P!Number, P!Dot, P!Nothing, P!Eof, P!vars,
            P!parse_nodeid, P!parse_range, P!parse_ip, P!parse_parameter,
            P!Identifier, P!Punctuation, P!Unhandled,
            Proved!At, Proved!Running, Proved!Ahead, Proved!Emit, Proved!Number,
            Proved!Dot, Proved!Nothing, Proved!Eof, Proved!vars,
            Proved!parse_nodeid, Proved!parse_range, Proved!parse_ip,
            Proved!parse_parameter, Proved!Identifier, Proved!Punctuation,
            Proved!Unhandled
<1>1. P!NavigateUp <=> Proved!NavigateUp
  BY Zenon DEF P!NavigateUp, Proved!NavigateUp
<1>2. P!NavigateDown <=> Proved!NavigateDown
  BY Zenon DEF P!NavigateDown, Proved!NavigateDown
<1>3. P!NavigateTo <=> Proved!NavigateTo
  BY Zenon DEF P!NavigateTo, Proved!NavigateTo
<1>4. P!Ip <=> Proved!Ip
  BY Zenon DEF P!Ip, Proved!Ip
<1>5. P!Parameter <=> Proved!Parameter
  BY Zenon DEF P!Parameter, Proved!Parameter
<1>6. P!Connect <=> Proved!Connect
  BY Zenon DEF P!Connect, Proved!Connect
<1>7. P!ListDirs <=> Proved!ListDirs
  BY Zenon DEF P!ListDirs, Proved!ListDirs
<1>8. P!Save <=> Proved!Save
  BY Zenon DEF P!Save, Proved!Save
<1>9. P!State <=> Proved!State
  BY Zenon DEF P!State, Proved!State
<1>10. P!Set <=> Proved!Set
  BY Zenon DEF P!Set, Proved!Set
<1>11. P!SetWithoutKey <=> Proved!SetWithoutKey
  BY Zenon DEF P!SetWithoutKey, Proved!SetWithoutKey
<1>12. P!NotHandled <=> Proved!NotHandled
  BY Zenon DEF P!NotHandled, Proved!NotHandled
<1>13. P!Done <=> Proved!Done
  BY Zenon DEF P!Done, Proved!Done
<1>14. QED
  BY <1>1, <1>2, <1>3, <1>4, <1>5, <1>6, <1>7, <1>8, <1>9, <1>10, <1>11, <1>12, <1>13
     DEF P!Next, Proved!Next

-----------------------------------------------------------------------------
(* The text of the AST. *)

LEMMA Lengths ==
    ASSUME NEW wide \in BOOLEAN, NEW kind
    PROVE  /\ Text!NodeLength(kind, 0, wide) \in Nat
           /\ Text!NodeLength(kind, 1, wide) \in Nat
           /\ Text!BodyLength(kind, wide) \in Nat
           /\ Text!NodeLength(kind, 0, wide) <= 66
           /\ kind # "save" => Text!NodeLength(kind, 0, wide) <= 62
  BY DEF Text!NodeLength, Text!TypeLength, Text!BodyLength

LEMMA ChildLength ==
    ASSUME NEW wide \in BOOLEAN, NEW c \in P!Child
    PROVE  Text!NodeLength(Text!Kind(c), 1, wide) \in 0 .. 64
  BY DEF Text!NodeLength, Text!TypeLength, Text!BodyLength, Text!Kind, P!Child

\* A sum of at most two pieces.
LEMMA StatementSum ==
    ASSUME NEW s \in P!Statement, NEW wide \in BOOLEAN, Len(s.children) <= 2
    PROVE  /\ Text!StatementLength(s, wide) \in Nat
           /\ Text!StatementLength(s, wide)
                <= Text!NodeLength(s.type, 0, wide) + 74 * Len(s.children)
<1> DEFINE kids == Text!Shown(s)
           n == Len(kids)
           own == Text!NodeLength(s.type, 0, wide)
           piece(k) == Text!NodeLength(Text!Kind(kids[k]), 1, wide)
           Sums(f) == f = [k \in 0 .. n |->
                              IF k = 0 THEN own ELSE f[k - 1] + 10 + piece(k)]
           f0 == [k \in 0 .. n |-> IF k = 0 THEN own
                                   ELSE IF k = 1 THEN own + 10 + piece(1)
                                   ELSE own + 10 + piece(1) + 10 + piece(2)]
<1>1. s.children \in Seq(P!Child)
  BY DEF P!Statement
<1>2. kids \in Seq(P!Child) /\ n <= Len(s.children)
  <2>1. CASE s.children # << >> /\ Head(s.children) = "index"
    BY <1>1, <2>1 DEF Text!Shown
  <2>2. CASE ~(s.children # << >> /\ Head(s.children) = "index")
    <3>1. kids = s.children
      BY <2>2 DEF Text!Shown
    <3> HIDE DEF kids
    <3>2. QED  BY <1>1, <3>1
  <2>3. QED  BY <2>1, <2>2
<1> HIDE DEF kids
<1>3. n \in Nat /\ n <= 2 /\ Len(s.children) \in Nat
  BY <1>1, <1>2
<1>4. own \in Nat
  BY Lengths
<1>5. \A k \in 1 .. n : piece(k) \in 0 .. 64
  <2>1. \A k \in 1 .. n : kids[k] \in P!Child
    BY <1>2
  <2>2. QED  BY <2>1, ChildLength
<1>6. Text!StatementLength(s, wide) = (CHOOSE f : Sums(f))[n]
  BY DEF Text!StatementLength, kids
<1> HIDE DEF own, piece, n
<1>7. Sums(f0)
  <2>1. \A k \in 0 .. n : f0[k] = IF k = 0 THEN own ELSE f0[k - 1] + 10 + piece(k)
    BY <1>3, <1>4, <1>5
  <2>2. f0 = [k \in 0 .. n |-> f0[k]]
    OBVIOUS
  <2> HIDE DEF f0
  <2>3. QED  BY <2>1, <2>2
<1>8. Sums(CHOOSE f : Sums(f))
  <2> HIDE DEF Sums, f0
  <2>1. QED  BY <1>7
<1>9. PICK f : f = (CHOOSE g : Sums(g))
  OBVIOUS
<1>10. f = [k \in 0 .. n |-> IF k = 0 THEN own ELSE f[k - 1] + 10 + piece(k)]
  <2>1. Sums(f)
    <3> HIDE DEF Sums
    <3>1. QED  BY <1>8, <1>9
  <2>2. QED  BY <2>1
<1>11. f[n] \in Nat /\ f[n] <= own + 74 * n
  <2>0. \A k \in 0 .. n : f[k] = IF k = 0 THEN own ELSE f[k - 1] + 10 + piece(k)
    BY <1>10
  <2>1. f[0] = own
    BY <1>3, <2>0
  <2>2. ASSUME n >= 1
        PROVE  \E p \in 0 .. 64 : f[1] = own + 10 + p
    <3>1. f[1] = f[0] + 10 + piece(1) /\ piece(1) \in 0 .. 64
      BY <1>3, <1>5, <2>0, <2>2
    <3>2. QED  BY <2>1, <3>1
  <2>3. ASSUME n >= 2
        PROVE  \E p \in 0 .. 64 : f[2] = f[1] + 10 + p
    <3>1. 2 \in 0 .. n /\ 2 \in 1 .. n
      BY <1>3, <2>3
    <3>2. f[2] = f[2 - 1] + 10 + piece(2)
      BY <2>0, <3>1
    <3>3. piece(2) \in 0 .. 64 /\ 2 - 1 = 1
      BY <1>5, <3>1
    <3>4. QED  BY <3>2, <3>3
  <2>4. CASE n = 0
    BY <1>4, <2>1, <2>4
  <2>5. CASE n = 1
    <3>1. PICK p \in 0 .. 64 : f[1] = own + 10 + p
      BY <2>2, <2>5
    <3>2. f[1] \in Nat /\ f[1] <= own + 74
      BY <1>4, <3>1
    <3>3. QED  BY <2>5, <3>2
  <2>6. CASE n = 2
    <3>1. PICK p \in 0 .. 64 : f[1] = own + 10 + p
      BY <2>2, <2>6
    <3>2. PICK q \in 0 .. 64 : f[2] = f[1] + 10 + q
      BY <2>3, <2>6
    <3>3. f[2] \in Nat /\ f[2] <= own + 148
      BY <1>4, <3>1, <3>2
    <3>4. QED  BY <2>6, <3>3
  <2>7. n = 0 \/ n = 1 \/ n = 2
    BY <1>3
  <2>8. QED  BY <2>4, <2>5, <2>6, <2>7
<1>12. Text!StatementLength(s, wide) = f[n]
  BY <1>6, <1>9
<1>13. n <= Len(s.children)
  BY <1>2 DEF n
<1>14. QED  BY <1>3, <1>4, <1>11, <1>12, <1>13 DEF own

\* No token of a statement stands for more than 70 bytes of it.
LEMMA StatementFits ==
    ASSUME NEW s \in P!Statement, NEW wide \in BOOLEAN, Len(s.children) <= 2,
           NEW t \in Nat, t >= 1 + Len(s.children),
           s.type = "save" /\ Len(s.children) = 2 => t >= 5
    PROVE  Text!StatementLength(s, wide) <= 70 * t
<1>1. s.children \in Seq(P!Child)
  BY DEF P!Statement
<1>2. PICK n \in Nat : n = Len(s.children)
  BY <1>1
<1>3. n = 0 \/ n = 1 \/ n = 2
  <2>1. n <= 2
    BY <1>2
  <2>2. ASSUME NEW m \in Nat, m <= 2 PROVE m = 0 \/ m = 1 \/ m = 2
    BY <2>2
  <2>3. QED  BY <2>1, <2>2
<1>4. PICK own \in Nat, all \in Nat : /\ own = Text!NodeLength(s.type, 0, wide)
                                      /\ all = Text!StatementLength(s, wide)
  <2>1. Text!StatementLength(s, wide) \in Nat
    BY StatementSum
  <2>2. Text!NodeLength(s.type, 0, wide) \in Nat
    BY Lengths
  <2>3. QED  BY <2>1, <2>2
<1>5. own <= 66 /\ (s.type # "save" => own <= 62) /\ all <= own + 74 * n
  BY <1>2, <1>4, StatementSum, Lengths
<1>6. t >= 1 + n /\ (s.type = "save" /\ n = 2 => t >= 5)
  BY <1>2
<1>7. all <= 70 * t
  BY <1>3, <1>5, <1>6
<1>8. QED  BY <1>4, <1>7

-----------------------------------------------------------------------------

\* The naturals are reached from 0 by steps of one.
LEMMA Induction ==
    ASSUME NEW T, 0 \in T, \A n \in Nat : n \in T => n + 1 \in T
    PROVE  Nat \subseteq T
<1> DEFINE R == OpToRel(<, Nat)
           Others == Nat \ T
<1>1. IsWellFoundedOn(R, Nat)
  BY NatLessThanWellFounded
<1>2. \A x, y \in Nat : y < x => <<y, x>> \in R
  BY Zenon DEF OpToRel
<1> HIDE DEF R
<1>3. SUFFICES ASSUME Others # {} PROVE FALSE
  OBVIOUS
<1>4. PICK x \in Others : \A y \in Others : ~(<<y, x>> \in R)
  BY <1>1, <1>3, WFMin
<1>5. x \in Nat /\ x # 0 /\ x - 1 \in Nat /\ (x - 1) + 1 = x
  OBVIOUS
<1>6. x - 1 \in Others
  BY <1>5
<1>7. x - 1 < x
  BY <1>5
<1>8. QED
  BY <1>2, <1>4, <1>5, <1>6, <1>7

\* A sum over positions exists.
SumOf(g, n, b, p) == g = [k \in 0 .. n |-> IF k = 0 THEN b ELSE g[k - 1] + p[k]]

LEMMA SumExists ==
    ASSUME NEW n \in Nat, NEW b, NEW p
    PROVE  \E g : SumOf(g, n, b, p)
<1> DEFINE T == {m \in Nat : \E g : SumOf(g, m, b, p)}
<1>1. 0 \in T
  <2> DEFINE g == [k \in 0 .. 0 |-> b]
  <2>1. g = [k \in 0 .. 0 |-> IF k = 0 THEN b ELSE g[k - 1] + p[k]]
    OBVIOUS
  <2> HIDE DEF g
  <2>2. SumOf(g, 0, b, p)
    BY <2>1 DEF SumOf
  <2>3. QED  BY <2>2
<1>2. ASSUME NEW m \in Nat, m \in T PROVE m + 1 \in T
  <2>1. PICK g : SumOf(g, m, b, p)
    BY <1>2
  <2>2. \A k \in 0 .. m : g[k] = IF k = 0 THEN b ELSE g[k - 1] + p[k]
    BY <2>1 DEF SumOf
  <2> DEFINE h == [k \in 0 .. m + 1 |-> IF k <= m THEN g[k] ELSE g[m] + p[m + 1]]
  <2>3. \A k \in 0 .. m + 1 : h[k] = IF k = 0 THEN b ELSE h[k - 1] + p[k]
    <3>1. ASSUME NEW k \in 0 .. m + 1
          PROVE  h[k] = IF k = 0 THEN b ELSE h[k - 1] + p[k]
      <4>1. CASE k = 0
        BY <2>2, <4>1
      <4>2. CASE k \in 1 .. m
        <5>1. h[k] = g[k] /\ h[k - 1] = g[k - 1]
          BY <4>2
        <5>2. g[k] = g[k - 1] + p[k]
          BY <2>2, <4>2
        <5>3. QED  BY <4>2, <5>1, <5>2
      <4>3. CASE k = m + 1
        <5>1. h[k] = g[m] + p[m + 1] /\ h[k - 1] = g[m]
          BY <4>3
        <5>2. QED  BY <4>3, <5>1
      <4>4. QED  BY <4>1, <4>2, <4>3
    <3>2. QED  BY <3>1
  <2>4. h = [k \in 0 .. m + 1 |-> h[k]]
    OBVIOUS
  <2> HIDE DEF h
  <2>5. SumOf(h, m + 1, b, p)
    BY <2>3, <2>4 DEF SumOf
  <2>6. QED  BY <2>5
<1> HIDE DEF T
<1>3. Nat \subseteq T
  BY <1>1, <1>2, Induction
<1>4. QED  BY <1>3 DEF T

\* What adds up to no more than f piece by piece does so in all.
LEMMA TextFits ==
    ASSUME NEW ss \in Seq(P!Statement), NEW wide \in BOOLEAN,
           NEW f \in [0 .. Len(ss) -> Nat],
           \A k \in 1 .. Len(ss) : /\ Text!StatementLength(ss[k], wide) \in Nat
                                   /\ f[k - 1] + Text!StatementLength(ss[k], wide) <= f[k]
    PROVE  /\ Text!TextLength(ss, wide) \in Nat
           /\ Text!TextLength(ss, wide) <= 17 + f[Len(ss)]
<1> DEFINE n == Len(ss)
           b == 14 + (IF n < 10 THEN 1 ELSE IF n < 100 THEN 2 ELSE 3)
           piece(k) == Text!StatementLength(ss[k], wide)
           Sums(g) == g = [k \in 0 .. n |-> IF k = 0 THEN b ELSE g[k - 1] + piece(k)]
           p == [k \in 1 .. n |-> piece(k)]
<1>1. n \in Nat
  OBVIOUS
<1>2. Text!TextLength(ss, wide) = (CHOOSE g : Sums(g))[n]
  BY DEF Text!TextLength
<1>3. \A k \in 1 .. n : piece(k) \in Nat /\ f[k - 1] + piece(k) <= f[k]
  OBVIOUS
<1>4. \A k \in 0 .. n : f[k] \in Nat
  OBVIOUS
<1> HIDE DEF n, piece
<1>5. b \in Nat /\ b <= 17
  BY <1>1
<1> HIDE DEF b
<1>6. \A k \in 1 .. n : p[k] = piece(k)
  OBVIOUS
<1> HIDE DEF p
<1>7. PICK g0 : SumOf(g0, n, b, p)
  BY <1>1, SumExists
<1>8. Sums(g0)
  <2>1. \A k \in 0 .. n : g0[k] = IF k = 0 THEN b ELSE g0[k - 1] + piece(k)
    <3>1. \A k \in 0 .. n : g0[k] = IF k = 0 THEN b ELSE g0[k - 1] + p[k]
      BY <1>7 DEF SumOf
    <3>2. \A k \in 0 .. n : k # 0 => k \in 1 .. n
      BY <1>1
    <3>3. QED  BY <1>6, <3>1, <3>2
  <2>2. g0 = [k \in 0 .. n |-> g0[k]]
    BY <1>7 DEF SumOf
  <2>3. QED  BY <2>1, <2>2
<1>9. Sums(CHOOSE g : Sums(g))
  <2> HIDE DEF Sums
  <2>1. QED  BY <1>8
<1>10. PICK g : g = (CHOOSE h : Sums(h))
  OBVIOUS
<1>11. \A k \in 0 .. n : g[k] = IF k = 0 THEN b ELSE g[k - 1] + piece(k)
  <2>1. Sums(g)
    <3> HIDE DEF Sums
    <3>1. QED  BY <1>9, <1>10
  <2>2. QED  BY <2>1
<1> DEFINE T == {m \in Nat : m <= n => g[m] \in Nat /\ g[m] <= 17 + f[m]}
<1>12. 0 \in T
  <2>1. g[0] = b /\ f[0] \in Nat
    BY <1>1, <1>4, <1>11
  <2>2. QED  BY <1>5, <2>1
<1>13. ASSUME NEW m \in Nat, m \in T PROVE m + 1 \in T
  <2>1. SUFFICES ASSUME m + 1 <= n PROVE g[m + 1] \in Nat /\ g[m + 1] <= 17 + f[m + 1]
    OBVIOUS
  <2>2. g[m] \in Nat /\ g[m] <= 17 + f[m]
    BY <1>1, <1>13, <2>1
  <2>3. PICK k \in 1 .. n : k = m + 1 /\ k - 1 = m
    BY <1>1, <2>1
  <2>4. g[k] = g[m] + piece(k)
    <3>1. k \in 0 .. n /\ k # 0
      BY <1>1, <2>3
    <3>2. QED  BY <1>11, <2>3, <3>1
  <2>5. piece(k) \in Nat /\ f[m] + piece(k) <= f[k]
    BY <1>3, <2>3
  <2>6. f[m] \in Nat /\ f[k] \in Nat
    <3>1. m \in 0 .. n /\ k \in 0 .. n
      BY <1>1, <2>1, <2>3
    <3>2. QED  BY <1>4, <3>1
  <2>7. PICK x \in Nat, y \in Nat, z \in Nat, w \in Nat :
            x = g[m] /\ y = piece(k) /\ z = f[m] /\ w = f[k]
    BY <2>2, <2>5, <2>6
  <2>8. x + y \in Nat /\ x + y <= 17 + w
    <3>1. x <= 17 + z
      BY <2>2, <2>7
    <3>2. z + y <= w
      BY <2>5, <2>7
    <3>3. QED  BY <3>1, <3>2
  <2>9. g[k] = x + y
    BY <2>4, <2>7
  <2>10. QED  BY <2>3, <2>7, <2>8, <2>9
<1> HIDE DEF T
<1>14. Nat \subseteq T
  BY <1>12, <1>13, Induction
<1>15. g[n] \in Nat /\ g[n] <= 17 + f[n]
  BY <1>1, <1>14 DEF T
<1>16. Text!TextLength(ss, wide) = g[n]
  BY <1>2, <1>10
<1>17. QED  BY <1>15, <1>16 DEF n

-----------------------------------------------------------------------------
(* The lines. *)

\* The statements ss have been read from m tokens: bounds of their lengths add
\* up to no more than 70 bytes for each.
Bounds(f, ss) ==
    /\ f \in [0 .. Len(ss) -> Nat]
    /\ \A k \in 1 .. Len(ss) : \A wide \in BOOLEAN :
          /\ Text!StatementLength(ss[k], wide) \in Nat
          /\ f[k - 1] + Text!StatementLength(ss[k], wide) <= f[k]

Fits(ss, m) == \E f : Bounds(f, ss) /\ f[Len(ss)] <= 70 * m

LEMMA NothingFits ==
    ASSUME NEW m \in Nat
    PROVE  Fits(<< >>, m)
<1> DEFINE f == [k \in 0 .. 0 |-> 0]
<1>1. Bounds(f, << >>) /\ f[0] <= 70 * m /\ Len(<< >>) = 0
  BY DEF Bounds
<1> HIDE DEF f
<1>2. QED  BY <1>1 DEF Fits

LEMMA MoreFits ==
    ASSUME NEW ss \in Seq(P!Statement), NEW m \in Nat, NEW n \in Nat, m <= n, Fits(ss, m)
    PROVE  Fits(ss, n)
<1>1. PICK f : Bounds(f, ss) /\ f[Len(ss)] <= 70 * m
  BY DEF Fits
<1>2. f[Len(ss)] \in Nat
  BY <1>1 DEF Bounds
<1>3. f[Len(ss)] <= 70 * n
  <2>1. PICK x \in Nat : x = f[Len(ss)]
    BY <1>2
  <2>2. x <= 70 * m
    BY <1>1, <2>1
  <2>3. x <= 70 * n
    BY <2>2
  <2>4. QED  BY <2>1, <2>3
<1>4. QED  BY <1>1, <1>3 DEF Fits

LEMMA OneMoreFits ==
    ASSUME NEW ss \in Seq(P!Statement), NEW m \in Nat, Fits(ss, m),
           NEW s \in P!Statement, Len(s.children) <= 2,
           NEW t \in Nat, t >= 1 + Len(s.children),
           s.type = "save" /\ Len(s.children) = 2 => t >= 5
    PROVE  Fits(Append(ss, s), m + t)
<1> DEFINE n == Len(ss)
           tt == Append(ss, s)
<1>1. PICK f : Bounds(f, ss) /\ f[n] <= 70 * m
  BY DEF Fits
<1>2. /\ f \in [0 .. n -> Nat] /\ n \in Nat /\ f[n] \in Nat
      /\ \A k \in 1 .. n : \A wide \in BOOLEAN :
            /\ Text!StatementLength(ss[k], wide) \in Nat
            /\ f[k - 1] + Text!StatementLength(ss[k], wide) <= f[k]
  BY <1>1 DEF Bounds
<1>3. /\ Len(tt) = n + 1 /\ tt[n + 1] = s
      /\ \A k \in 1 .. n : tt[k] = ss[k]
  OBVIOUS
<1> HIDE DEF n, tt
<1> DEFINE g == [k \in 0 .. n + 1 |-> IF k <= n THEN f[k] ELSE f[n] + 70 * t]
<1>4. /\ g \in [0 .. n + 1 -> Nat] /\ g[n + 1] = f[n] + 70 * t
      /\ \A k \in 0 .. n : g[k] = f[k]
  BY <1>2
<1> HIDE DEF g
<1>5. \A wide \in BOOLEAN : /\ Text!StatementLength(s, wide) \in Nat
                            /\ Text!StatementLength(s, wide) <= 70 * t
  BY StatementSum, StatementFits
<1>6. ASSUME NEW k \in 1 .. n + 1, NEW wide \in BOOLEAN
      PROVE  /\ Text!StatementLength(tt[k], wide) \in Nat
             /\ g[k - 1] + Text!StatementLength(tt[k], wide) <= g[k]
  <2>1. CASE k \in 1 .. n
    <3>1. g[k - 1] = f[k - 1] /\ g[k] = f[k]
      BY <1>2, <1>4, <2>1
    <3>2. QED  BY <1>2, <1>3, <2>1, <3>1
  <2>2. CASE k = n + 1
    <3>1. g[k - 1] = f[n] /\ g[k] = f[n] + 70 * t /\ tt[k] = s
      <4>1. k - 1 = n /\ n \in 0 .. n
        BY <1>2, <2>2
      <4>2. QED  BY <1>3, <1>4, <2>2, <4>1
    <3>2. PICK x \in Nat, y \in Nat : x = f[n] /\ y = Text!StatementLength(s, wide)
      BY <1>2, <1>5
    <3>3. y <= 70 * t
      BY <1>5, <3>2
    <3>4. x + y <= x + 70 * t
      BY <3>3
    <3>5. QED  BY <3>1, <3>2, <3>4
  <2>3. QED  BY <1>2, <2>1, <2>2
<1>7. Bounds(g, tt)
  BY <1>3, <1>4, <1>6 DEF Bounds
<1>8. g[Len(tt)] <= 70 * (m + t)
  <2>1. PICK x \in Nat : x = f[n]
    BY <1>2
  <2>2. x <= 70 * m
    BY <1>1, <2>1
  <2>3. x + 70 * t <= 70 * (m + t)
    BY <2>2
  <2>4. QED  BY <1>3, <1>4, <2>1, <2>3
<1>9. QED  BY <1>7, <1>8 DEF Fits, tt

\* Text that overruns the buffer has been read from many tokens.
LEMMA OverrunIsLong ==
    ASSUME NEW ss \in Seq(P!Statement), NEW m \in Nat, Fits(ss, m),
           NEW wide \in BOOLEAN, Text!Overruns(ss, wide)
    PROVE  70 * m + 17 > BufSize
<1>1. PICK f : Bounds(f, ss) /\ f[Len(ss)] <= 70 * m
  BY DEF Fits
<1>2. Text!TextLength(ss, wide) \in Nat /\ Text!TextLength(ss, wide) <= 17 + f[Len(ss)]
  BY <1>1, TextFits DEF Bounds
<1>3. Text!LastLength(Text!Last(ss), wide) \in Nat
  <2>1. Text!BodyLength(Text!Last(ss).type, wide) \in Nat
        /\ Text!BodyLength(Text!Kind(Text!Last(Text!Shown(Text!Last(ss)))), wide) \in Nat
    BY Lengths
  <2>2. QED  BY <2>1 DEF Text!LastLength
<1>4. PICK x \in Nat, y \in Nat, z \in Nat :
          /\ x = Text!TextLength(ss, wide) /\ y = Text!LastLength(Text!Last(ss), wide)
          /\ z = f[Len(ss)]
  BY <1>1, <1>2, <1>3 DEF Bounds
<1>5. x - y > BufSize
  BY <1>4 DEF Text!Overruns
<1>6. x <= 17 + z /\ z <= 70 * m
  BY <1>1, <1>2, <1>4
<1>7. QED  BY <1>5, <1>6, BufSizeAssumption

\* The parser is in its list, the interpreter in its statements, and the
\* statements are no longer than the tokens they were read from allow.
Lines ==
    /\ Proved!IInv
    /\ pc \in {"prompt", "parse", "execute", "quit", "overrun"}
    /\ node \in 1 .. Len(statements) + 1
    /\ pc \in {"prompt", "parse"} => node = 1
    /\ pc = "prompt" => statements = << >> /\ skipped = {}
    /\ pc = "parse" => /\ Fits(statements, Len(tokens) - 1)
                       /\ current <= Len(tokens) => Fits(statements, current - 1)
    /\ OverrunNeedsLongLine

\* What the parser knows of its list.
LEMMA Listed ==
    Proved!IInv => /\ statements \in Seq(P!Statement)
               /\ current \in Nat \ {0}
               /\ Len(tokens) \in Nat \ {0}
  BY SameTypes DEF Proved!IInv, Proved!TypeOK, Proved!EofAtEnd

LEMMA ListKept ==
    ASSUME Proved!IInv, UNCHANGED <<tokens, current, statements, skipped>>
    PROVE  Proved!IInv'
  BY DEF Proved!IInv, Proved!TypeOK, Proved!EofAtEnd, Proved!SetTakesRest,
         Proved!CommandsKept, Proved!Eof

\* A line of nothing but its end, and nothing read from it.
LEMMA NoLineIsLine ==
    NoLine => Proved!IInv
<1> DEFINE one == <<"eof">>
<1>1. /\ one \in Seq(Proved!Token \cup {"eof"}) /\ Len(one) = 1 /\ one[1] = "eof"
      /\ << >> \in Seq(Proved!Statement) /\ Len(<< >>) = 0
  OBVIOUS
<1>2. SUFFICES ASSUME tokens = one, current = 2, statements = << >>, skipped = {}
               PROVE  Proved!IInv
  BY DEF NoLine
<1> HIDE DEF one
<1>3. Proved!TypeOK
  BY <1>1, <1>2 DEF Proved!TypeOK
<1>4. Proved!EofAtEnd
  <2>1. Len(tokens) = 1 /\ tokens[1] = "eof" /\ 1 .. 1 - 1 = {}
    BY <1>1, <1>2
  <2>2. QED  BY <2>1 DEF Proved!EofAtEnd
<1>5. Proved!SetTakesRest /\ Proved!CommandsKept
  BY <1>1, <1>2 DEF Proved!SetTakesRest, Proved!CommandsKept
<1>6. QED  BY <1>3, <1>4, <1>5 DEF Proved!IInv

\* So is a line just typed.
LEMMA LineStartIsIInv == Proved!Init => Proved!IInv
  BY SameInput, Proved!StartIsIInv

LEMMA LinesStart == Init => Lines
<1>1. SUFFICES ASSUME Init PROVE Lines
  OBVIOUS
<1>2. Proved!IInv
  BY <1>1, NoLineIsLine DEF Init
<1>3. statements = << >> /\ skipped = {} /\ node = 1 /\ pc = "prompt"
  BY <1>1 DEF Init, NoLine
<1>4. Len(statements) = 0
  BY <1>3
<1>5. QED  BY <1>2, <1>3, <1>4 DEF Lines, OverrunNeedsLongLine

\* A statement executed leaves the line alone and is the next one's turn.
LEMMA ExecuteMoves ==
    ASSUME Execute
    PROVE  /\ node' = node + 1 /\ node <= Len(statements) /\ pc = "execute"
           /\ UNCHANGED <<tokens, current, statements, skipped, pc>>
  BY DEF Execute, EnterConfig, Connect, ListDirs, NavigateUp, NavigateTo, NavigateDown,
         Save, NormalIgnores, LeaveConfig, ListConfig, SetConfig, ConfigIgnores,
         Ignored, Executing, Make, parser

LEMMA LinesParse ==
    ASSUME Lines, Parse
    PROVE  Lines'
<1>1. /\ pc = "parse" /\ Proved!Running /\ Proved!Next /\ UNCHANGED <<pc, state, node, calls>>
  BY SameTypes, SameTurns DEF Parse
<1>2. Proved!IInv'
  BY <1>1, SameInput, Proved!TurnKeepsIInv DEF Lines
<1>3. Proved!Grown
  BY <1>1, SameInput, Proved!TurnGrows DEF Lines
<1>4. /\ tokens' = tokens /\ current \in Nat \ {0} /\ Len(tokens) \in Nat \ {0}
      /\ statements \in Seq(P!Statement) /\ current' \in Nat \ {0}
      /\ current <= Len(tokens) /\ node = 1
      /\ Fits(statements, Len(tokens) - 1) /\ Fits(statements, current - 1)
  <2>1. current' \in Nat \ {0}
    BY <1>2 DEF Proved!IInv, Proved!TypeOK
  <2>2. QED  BY <1>1, <1>3, <2>1, Listed DEF Lines, Proved!Grown, Proved!Running
<1>5. /\ Fits(statements', Len(tokens) - 1)
      /\ current' <= Len(tokens) => Fits(statements', current' - 1)
      /\ 1 \in 1 .. Len(statements') + 1
  <2>1. CASE statements' = statements /\ current' > current
    <3>1. Len(statements) \in Nat
      BY <1>4
    <3>2. current - 1 \in Nat /\ current' - 1 \in Nat /\ current - 1 <= current' - 1
      <4>1. PICK c \in Nat \ {0}, d \in Nat \ {0} : c = current /\ d = current'
        BY <1>4
      <4>2. d >= c
        BY <2>1, <4>1
      <4>3. c - 1 \in Nat /\ d - 1 \in Nat /\ c - 1 <= d - 1
        BY <4>2
      <4>4. QED  BY <4>1, <4>3
    <3>3. Fits(statements, current' - 1)
      BY <1>4, <3>2, MoreFits
    <3>4. QED  BY <1>4, <2>1, <3>1, <3>3
  <2>2. ASSUME NEW s \in Proved!Statement,
               statements' = Append(statements, s), Len(s.children) <= 2,
               current' >= current + 1 + Len(s.children), current' <= Len(tokens),
               s.type = "save" /\ Len(s.children) = 2 => current' >= current + 5
        PROVE  /\ Fits(statements', Len(tokens) - 1)
               /\ current' <= Len(tokens) => Fits(statements', current' - 1)
               /\ 1 \in 1 .. Len(statements') + 1
    <3>1. s \in P!Statement /\ s.children \in Seq(P!Child)
      BY SameTypes DEF P!Statement
    <3>2. PICK n \in Nat : n = Len(s.children)
      BY <3>1
    <3>3. PICK c \in Nat, d \in Nat : c = current /\ d = current'
      BY <1>4
    <3>4. d >= c + 1 + n /\ (s.type = "save" /\ n = 2 => d >= c + 5) /\ c # 0
      BY <1>4, <2>2, <3>2, <3>3
    <3>5. PICK t \in Nat : t = d - c
      BY <3>4
    <3>6. /\ t >= 1 + n /\ (s.type = "save" /\ n = 2 => t >= 5)
          /\ c - 1 \in Nat /\ (c - 1) + t = d - 1
      BY <3>4, <3>5
    <3>7. Fits(Append(statements, s), (c - 1) + t)
      <4>1. t >= 1 + Len(s.children) /\ (s.type = "save" /\ Len(s.children) = 2 => t >= 5)
        BY <3>2, <3>6
      <4>2. c - 1 \in Nat /\ Fits(statements, c - 1)
        BY <1>4, <3>3, <3>6
      <4>3. QED  BY <1>4, <2>2, <3>1, <4>1, <4>2, OneMoreFits
    <3>8. Fits(statements', current' - 1)
      BY <2>2, <3>3, <3>6, <3>7
    <3>9. statements' \in Seq(P!Statement)
      BY <1>4, <2>2, <3>1
    <3>10. current' - 1 \in Nat /\ Len(tokens) - 1 \in Nat /\ current' - 1 <= Len(tokens) - 1
      <4>1. PICK e \in Nat \ {0}, m \in Nat \ {0} : e = current' /\ m = Len(tokens)
        BY <1>4
      <4>2. e <= m
        BY <2>2, <4>1
      <4>3. e - 1 \in Nat /\ m - 1 \in Nat /\ e - 1 <= m - 1
        BY <4>2
      <4>4. QED  BY <4>1, <4>3
    <3>11. Fits(statements', Len(tokens) - 1)
      BY <3>8, <3>9, <3>10, MoreFits
    <3>12. Len(statements') \in Nat
      BY <3>9
    <3>13. QED  BY <3>8, <3>11, <3>12
  <2>3. QED  BY <1>3, <2>1, <2>2 DEF Proved!Grown
<1>6. pc' = "parse" /\ node' = 1 /\ tokens' = tokens
  BY <1>1, <1>4
<1>7. QED  BY <1>2, <1>5, <1>6 DEF Lines, OverrunNeedsLongLine

LEMMA LinesStep == Lines /\ [Next]_vars => Lines'
<1>1. SUFFICES ASSUME Lines, [Next]_vars PROVE Lines'
  OBVIOUS
<1>2. Proved!IInv
  BY <1>1 DEF Lines
<1>3. /\ statements \in Seq(P!Statement) /\ current \in Nat \ {0}
      /\ Len(tokens) \in Nat \ {0} /\ Len(statements) \in Nat
  BY <1>2, Listed
<1>4. CASE ReadLine
  <2>1. /\ Proved!Init'
        /\ pc' = "parse" /\ current' = 1 /\ node' = node
        /\ statements' = statements /\ skipped' = skipped
        /\ statements = << >> /\ skipped = {} /\ node = 1
    BY <1>1, <1>4 DEF ReadLine, Proved!Init, Lines
  <2>2. Proved!IInv'
    <3>1. Proved!Init' => Proved!IInv'
      BY LineStartIsIInv, PTL
    <3>2. QED  BY <2>1, <3>1
  <2>3. Len(tokens') \in Nat \ {0}
    BY <2>2 DEF Proved!IInv, Proved!TypeOK, Proved!EofAtEnd
  <2>4. Fits(<< >>, Len(tokens') - 1) /\ Fits(<< >>, 1 - 1) /\ Len(<< >>) = 0
    <3>1. Len(tokens') - 1 \in Nat /\ 1 - 1 \in Nat
      BY <2>3
    <3>2. QED  BY <3>1, NothingFits
  <2>5. QED  BY <2>1, <2>2, <2>4 DEF Lines, OverrunNeedsLongLine
<1>5. CASE Quit
  <2>1. pc' = "quit" /\ UNCHANGED <<tokens, current, statements, skipped, node>>
    BY <1>5 DEF Quit, parser
  <2>2. Proved!IInv'
    BY <1>2, <2>1, ListKept
  <2>3. QED  BY <1>1, <2>1, <2>2 DEF Lines, OverrunNeedsLongLine
<1>6. CASE Parse
  BY <1>1, <1>6, LinesParse
<1>7. CASE Parsed
  <2>1. PICK wide \in BOOLEAN :
            pc' = IF Text!Overruns(statements, wide) THEN "overrun" ELSE "execute"
    BY <1>7 DEF Parsed
  <2>2. pc = "parse" /\ UNCHANGED <<tokens, current, statements, skipped, node>>
    BY <1>7 DEF Parsed, parser
  <2>3. Proved!IInv'
    BY <1>2, <2>2, ListKept
  <2>4. Text!Overruns(statements, wide) => 70 * (Len(tokens) - 1) + 17 > BufSize
    <3>1. Fits(statements, Len(tokens) - 1) /\ Len(tokens) - 1 \in Nat
      BY <1>1, <1>3, <2>2 DEF Lines
    <3>2. QED  BY <1>3, <3>1, OverrunIsLong
  <2>5. OverrunNeedsLongLine'
    BY <2>1, <2>2, <2>4 DEF OverrunNeedsLongLine
  <2>6. pc' \in {"overrun", "execute"}
    BY <2>1
  <2>7. QED  BY <1>1, <2>2, <2>3, <2>5, <2>6 DEF Lines
<1>8. CASE LineDone
  <2>1. NoLine' /\ pc' = "prompt"
    BY <1>8 DEF LineDone, NoLine
  <2>2. Proved!IInv'
    <3>1. NoLine' => Proved!IInv'
      BY NoLineIsLine, PTL
    <3>2. QED  BY <2>1, <3>1
  <2>3. statements' = << >> /\ skipped' = {} /\ node' = 1 /\ Len(<< >>) = 0
    BY <2>1 DEF NoLine
  <2>4. QED  BY <2>1, <2>2, <2>3 DEF Lines, OverrunNeedsLongLine
<1>9. CASE Execute
  <2>1. /\ node' = node + 1 /\ node <= Len(statements) /\ pc = "execute"
        /\ UNCHANGED <<tokens, current, statements, skipped, pc>>
    BY <1>9, ExecuteMoves
  <2>2. Proved!IInv'
    BY <1>2, <2>1, ListKept
  <2>3. node' \in 1 .. Len(statements) + 1
    BY <1>1, <1>3, <2>1 DEF Lines
  <2>4. QED  BY <2>1, <2>2, <2>3 DEF Lines, OverrunNeedsLongLine
<1>10. CASE UNCHANGED vars
  <2>1. UNCHANGED <<tokens, current, statements, skipped, pc, node>>
    BY <1>10 DEF vars
  <2>2. Proved!IInv'
    BY <1>2, <2>1, ListKept
  <2>3. QED  BY <1>1, <2>1, <2>2 DEF Lines, OverrunNeedsLongLine, Fits
<1>11. QED
  BY <1>1, <1>4, <1>5, <1>6, <1>7, <1>8, <1>9, <1>10 DEF Next, Answer

LEMMA LinesInvariant == CluaSpec => []Lines
<1>1. CluaInit => Lines
  BY LinesStart DEF CluaInit
<1>2. Lines /\ [CluaNext]_allvars => Lines'
  BY LineStep, LinesStep
<1>3. QED  BY <1>1, <1>2, PTL DEF CluaSpec

\* The parser, the interpreter and the calls keep their types in the whole
\* program: the statement that is executed is always one of the line, or the
\* place behind the last.
THEOREM TypeCorrect == CluaSpec => []TypeOK
<1>1. Inv /\ Properties /\ Lines => TypeOK
  BY SameTypes DEF Inv, Lines, TypeOK, Proved!IInv
<1>2. QED  BY <1>1, Invariant, LinesInvariant, PTL

\* The text of the AST overruns its buffer only for a line of many tokens,
\* for every size of the buffer and every line.
THEOREM OverrunsAreLong == CluaSpec => []OverrunNeedsLongLine
<1>1. Lines => OverrunNeedsLongLine
  BY DEF Lines
<1>2. QED  BY <1>1, LinesInvariant, PTL

-----------------------------------------------------------------------------
(* The session in the program is the session the theorems about it speak of. *)

\* The program assumes of the server what the session assumes.
LEMMA SameServer ==
    /\ Served!NodesAssumption /\ Served!SpacesAssumption
    /\ Served!EndpointAssumption /\ Served!HistoryAssumption
  BY SessionAssumption
  DEF S!NodesAssumption, S!SpacesAssumption, S!EndpointAssumption, S!HistoryAssumption,
      Served!NodesAssumption, Served!SpacesAssumption, Served!EndpointAssumption,
      Served!HistoryAssumption, S!NoEndpoint, Served!NoEndpoint

\* Every command, reply and change of the server is the same in both.
LEMMA SameSession ==
    /\ S!Init <=> Served!Init
    /\ [S!Next]_(S!vars) <=> [Served!Next]_(Served!vars)
<1> USE DEF S!ctx, S!trail, S!server, S!Step, S!AtPrompt, S!Top, S!NodeOrNull, S!Index,
            S!NoEndpoint, S!Browse, S!NodeExists, S!addToHistory, S!FreedByClear, S!MoveTo,
            S!NullClient, S!vars,
            Served!ctx, Served!trail, Served!server, Served!Step, Served!AtPrompt,
            Served!Top, Served!NodeOrNull, Served!Index, Served!NoEndpoint, Served!Browse,
            Served!NodeExists, Served!addToHistory, Served!FreedByClear, Served!MoveTo,
            Served!NullClient, Served!vars
<1>1. S!Init <=> Served!Init
  BY DEF S!Init, Served!Init
<1>2. S!AlreadyConnected <=> Served!AlreadyConnected
  BY DEF S!AlreadyConnected, Served!AlreadyConnected
<1>3. S!ConnectFails <=> Served!ConnectFails
  BY DEF S!ConnectFails, Served!ConnectFails
<1>4. ASSUME NEW e PROVE S!ConnectSucceeds(e) <=> Served!ConnectSucceeds(e)
  BY Zenon DEF S!ConnectSucceeds, Served!ConnectSucceeds
<1>5. S!ListCurrent <=> Served!ListCurrent
  BY Zenon DEF S!ListCurrent, Served!ListCurrent
<1>6. ASSUME NEW i
      PROVE  /\ S!ListIndex(i) <=> Served!ListIndex(i)
             /\ S!NavigateDown(i) <=> Served!NavigateDown(i)
  BY Zenon DEF S!ListIndex, Served!ListIndex, S!NavigateDown, Served!NavigateDown
<1>7. ASSUME NEW n
      PROVE  /\ S!ListNode(n) <=> Served!ListNode(n)
             /\ S!NavigateTo(n) <=> Served!NavigateTo(n)
  BY Zenon DEF S!ListNode, Served!ListNode, S!NavigateTo, Served!NavigateTo
<1>8. S!NavigateUp <=> Served!NavigateUp
  BY Zenon DEF S!NavigateUp, Served!NavigateUp
<1>9. /\ S!CommandWithoutClient <=> Served!CommandWithoutClient
      /\ S!EnterConfig <=> Served!EnterConfig
      /\ S!LeaveConfig <=> Served!LeaveConfig
      /\ S!Quit <=> Served!Quit
  BY Zenon DEF S!CommandWithoutClient, Served!CommandWithoutClient, S!EnterConfig,
     Served!EnterConfig, S!LeaveConfig, Served!LeaveConfig, S!Quit, Served!Quit
<1>10. ASSUME NEW x
       PROVE  /\ S!SetEndpoint(x) <=> Served!SetEndpoint(x)
              /\ S!SetDefaultRoot(x) <=> Served!SetDefaultRoot(x)
  BY Zenon DEF S!SetEndpoint, Served!SetEndpoint, S!SetDefaultRoot, Served!SetDefaultRoot
<1>11. S!Reply <=> Served!Reply
  BY Zenon DEF S!Reply, Served!Reply, S!ProbeDefaultRoot, Served!ProbeDefaultRoot,
     S!Peek, Served!Peek, S!ExploreChildren, Served!ExploreChildren
<1>12. S!Environment <=> Served!Environment
  BY Zenon DEF S!Environment, Served!Environment, S!Reconfigure, Served!Reconfigure,
     S!FlipLink, Served!FlipLink
<1>13. S!Command <=> Served!Command
  BY <1>2, <1>3, <1>4, <1>5, <1>6, <1>7, <1>8, <1>9, <1>10, Zenon
  DEF S!Command, Served!Command
<1>14. QED
  BY <1>1, <1>11, <1>12, <1>13, Zenon DEF S!Next, Served!Next

\* Only the calls behind a change of the state are made in a step that makes one.
LEMMA StateCalls ==
    ASSUME Inv, Execute, state' # state
    PROVE  /\ Made # {}
           /\ \A c \in Made :
                 c.op \in {"config_print", "print_current_node", "print_current_children"}
<1>1. ASSUME NEW ops, ops # {}, Make(Once(ops))
      PROVE  Made # {} /\ \A c \in Made : c.op \in ops
  <2>1. \A c \in Once(ops) : c.op \in ops /\ c.of = node
    BY DEF Once, CallOf
  <2>2. \A c \in calls : c.of < node
    BY DEF Inv
  <2>3. \A c \in Once(ops) : c \notin calls
    BY <2>1, <2>2 DEF Inv
  <2>4. Made = Once(ops)
    BY <1>1, <2>3 DEF Make, Made
  <2>5. Once(ops) # {}
    BY <1>1 DEF Once
  <2>6. QED  BY <2>1, <2>4, <2>5
<1>2. CASE EnterConfig
  BY <1>1, <1>2 DEF EnterConfig
<1>3. CASE LeaveConfig
  BY <1>1, <1>3 DEF LeaveConfig
<1>4. CASE ~(EnterConfig \/ LeaveConfig)
  BY <1>4 DEF Execute, Connect, ListDirs, NavigateUp, NavigateTo, NavigateDown, Save,
     NormalIgnores, ListConfig, SetConfig, ConfigIgnores, Ignored
<1>5. QED  BY <1>2, <1>3, <1>4

\* A statement is one command of the session, or none.
LEMMA CommandOfStatement ==
    ASSUME Inv, Statement
    PROVE  [S!Next]_(S!vars)
<1>1. Execute
  BY DEF Statement
<1>2. CASE ConnectCall
  BY <1>2 DEF ConnectCall, S!Next, S!Command
<1>3. CASE ExploreCall
  BY <1>3 DEF ExploreCall, Crash, S!Next, S!Command
<1>4. CASE NavigateCall
  BY <1>4 DEF NavigateCall, Crash, S!Next, S!Command
<1>5. CASE ChangeState
  BY <1>5 DEF ChangeState, S!Next, S!Command
<1>6. ASSUME UNCHANGED session, state' = state
      PROVE  [S!Next]_(S!vars)
  BY <1>6 DEF session, S!vars
<1>7. CASE SaveCall
  <2>1. CASE Crash
    BY <2>1 DEF Crash, S!Next, S!Command
  <2>2. CASE ~Crash
    <3>1. Calls({"save_range", "save_idx"}) /\ UNCHANGED session
      BY <1>7, <2>2 DEF SaveCall, Calls
    <3>2. state' = state
      BY <1>1, <3>1, StateCalls DEF Calls
    <3>3. QED  BY <1>6, <3>1, <3>2
  <2>3. QED  BY <2>1, <2>2
<1>8. CASE SettingCall
  BY <1>6, <1>8 DEF SettingCall, S!Next, S!Command
<1>9. CASE Made = {} /\ UNCHANGED session
  BY <1>1, <1>6, <1>9, StateCalls
<1>10. QED
  BY <1>2, <1>3, <1>4, <1>5, <1>7, <1>8, <1>9 DEF Statement

\* What main does besides leaves the session as it is, or quits it.
LEMMA SessionStep == Inv /\ [CluaNext]_allvars => [S!Next]_(S!vars)
<1> SUFFICES ASSUME Inv, [CluaNext]_allvars PROVE [S!Next]_(S!vars)
  OBVIOUS
<1>1. CASE UNCHANGED allvars
  BY <1>1 DEF allvars, vars, session, S!vars
<1>2. CASE Prompt
  BY <1>2 DEF Prompt, ReadLine, session, S!vars
<1>3. CASE Leave
  BY <1>3 DEF Leave, S!Next, S!Command
<1>4. CASE Line
  BY <1>4 DEF Line, Parse, Parsed, LineDone, session, S!vars
<1>5. CASE Statement
  BY <1>5, CommandOfStatement
<1>6. CASE Reply
  BY <1>6 DEF Reply, S!Next
<1>7. CASE Environment
  BY <1>7 DEF Environment, S!Next
<1>8. QED
  BY <1>1, <1>2, <1>3, <1>4, <1>5, <1>6, <1>7 DEF CluaNext

\* The program is a session: whatever lines are typed, the calls of their
\* statements, the answers and the changes of the server are steps of it.
THEOREM SessionInside == CluaSpec => S!Init /\ [][S!Next]_(S!vars)
  BY Invariant, SessionStep, PTL DEF CluaSpec, CluaInit

\* What the session keeps.
Kept == Served!TypeOK /\ Served!Safe

\* Kept from step to step, and from the start.
LEMMA KeptStep == Kept /\ [S!Next]_(S!vars) => Kept'
  BY SameServer, SameSession, Served!TypeStep, Served!SafeStep DEF Kept

LEMMA KeptAlways == CluaSpec => []Kept
<1>1. S!Init => Kept
  BY SameServer, SameSession, Served!TypeStart, Served!SafeStart DEF Kept
<1>2. QED  BY <1>1, KeptStep, SessionInside, PTL

\* The invariants of Session and the ones the theorems speak of are the same.
LEMMA SameInvariants ==
    /\ Served!SessionCoherent <=> S!SessionCoherent
    /\ Served!ListingOfCurrent <=> S!ListingOfCurrent
    /\ Served!DanglingEntries <=> S!DanglingEntries
    /\ Served!UseAfterFreeNeedsStrings <=> S!UseAfterFreeNeedsStrings
  BY DEF Served!SessionCoherent, S!SessionCoherent, Served!ListingOfCurrent,
     S!ListingOfCurrent, Served!DanglingEntries, S!DanglingEntries, Served!Top, S!Top,
     Served!UseAfterFreeNeedsStrings, S!UseAfterFreeNeedsStrings

\* What Session promises holds of the whole program: the client and the
\* connection agree, the rows an index names are those of the current node,
\* and an identifier is only read after it was freed on a server with strings.
THEOREM SessionSafe ==
    CluaSpec => [](/\ S!SessionCoherent /\ S!ListingOfCurrent
                   /\ S!DanglingEntries /\ S!UseAfterFreeNeedsStrings)
<1>1. Kept => /\ S!SessionCoherent /\ S!ListingOfCurrent
              /\ S!DanglingEntries /\ S!UseAfterFreeNeedsStrings
  BY SameInvariants DEF Kept, Served!Safe
<1>2. QED  BY <1>1, KeptAlways, PTL

\* No line, of any number of statements, loses the node the session entered the
\* server at.
THEOREM EntryNodeStays == CluaSpec => S!EntryNodeKept
<1>1. Kept /\ [S!Next]_(S!vars)
          => [history # << >> => history' # << >> /\ history'[1] = history[1]]_(S!vars)
  BY SameServer, SameSession, Served!EntryStep DEF Kept
<1>2. QED  BY <1>1, KeptAlways, SessionInside, PTL DEF S!EntryNodeKept

\* Across the statements of every line, `cd ..` walks back the trail of Trail.
THEOREM TrailInside == CluaSpec => S!TrailKept
<1>1. S!Init => S!Walk!Init
  BY SessionAssumption DEF S!NodesAssumption, S!Init, S!Walk!Init
<1>2. Kept /\ [S!Next]_(S!vars) => [S!Walk!Next]_(S!Walk!vars)
  <2>1. [S!Walk!Next]_(S!Walk!vars) <=> [Served!Walk!Next]_(Served!Walk!vars)
    BY Zenon
    DEF S!Walk!Next, S!Walk!vars, S!Walk!Arrive, S!Walk!Enter, S!Walk!Visit, S!Walk!Back,
        S!Walk!ReturnToBase, S!Walk!ChangeBase,
        Served!Walk!Next, Served!Walk!vars, Served!Walk!Arrive, Served!Walk!Enter,
        Served!Walk!Visit, Served!Walk!Back, Served!Walk!ReturnToBase,
        Served!Walk!ChangeBase
  <2>2. QED  BY <2>1, SameServer, SameSession, Served!TrailStep DEF Kept
<1>3. QED  BY <1>1, <1>2, KeptAlways, SessionInside, PTL DEF S!TrailKept, S!Walk!Spec

\* On a server that names its nodes by number no line, however long, reads a
\* freed identifier.
COROLLARY NumbersAreSafe ==
    ASSUME StringIds = {}
    PROVE  CluaSpec => [](call # "use_after_free")
<1>1. S!UseAfterFreeNeedsStrings => call # "use_after_free"
  BY DEF S!UseAfterFreeNeedsStrings
<1>2. QED  BY <1>1, SessionSafe, PTL

\* Of the line that is executed no command was thrown away but behind a "set"
\* without a key, and nothing runs behind a "set".
THEOREM LinesKeepCommands == CluaSpec => [](P!SetIsLast /\ P!CommandsKept)
<1>1. Lines => P!SetIsLast /\ P!CommandsKept
  <2>1. SUFFICES ASSUME Lines PROVE P!SetIsLast /\ P!CommandsKept
    OBVIOUS
  <2>2. Proved!SetTakesRest /\ Proved!CommandsKept
    BY <2>1 DEF Lines, Proved!IInv
  <2>3. P!CommandsKept
    BY <2>2 DEF P!CommandsKept, Proved!CommandsKept, P!Keyword, Proved!Keyword
  <2>4. QED  BY <2>2, <2>3 DEF P!SetIsLast, Proved!SetTakesRest
<1>2. QED  BY <1>1, LinesInvariant, PTL

-----------------------------------------------------------------------------
(* How long a line takes. *)

\* The steps a line still takes at most: three for a token that is not parsed,
\* two for a statement that is not executed, one for an answer that is out.
Left ==
    CASE pc = "parse"   -> 3 * (Len(tokens) + 1 - current) + 2 * Len(statements) + 2
      [] pc = "execute" -> 2 * (Len(statements) + 1 - node)
                             + (IF call \in S!Pending THEN 2 ELSE 1)
      [] OTHER          -> 0

\* Nothing is asked of the server but by a statement.
Asked == call \in S!Pending => pc = "execute"

\* Whatever step is made.
LEMMA AskedStep == Asked /\ [CluaNext]_allvars => Asked'
<1> SUFFICES ASSUME Asked, [CluaNext]_allvars PROVE Asked'
  OBVIOUS
<1>1. CASE UNCHANGED allvars
  BY <1>1 DEF allvars, vars, session, Asked, S!Pending
<1>2. CASE Prompt
  BY <1>2 DEF Prompt, ReadLine, session, Asked, S!Pending
<1>3. CASE Leave
  BY <1>3 DEF Leave, S!Quit, S!Step, Asked, S!Pending
<1>4. CASE Line
  BY <1>4 DEF Line, session, Asked, S!Pending
<1>5. CASE Statement
  BY <1>5, ExecuteMoves DEF Statement, Asked
<1>6. CASE Reply
  BY <1>6 DEF Reply, S!Reply, S!ProbeDefaultRoot, S!Peek, S!ExploreChildren, S!Step,
     Asked, S!Pending
<1>7. CASE Environment
  BY <1>7 DEF Environment, S!Environment, S!Reconfigure, S!FlipLink, vars, Asked, S!Pending
<1>8. QED
  BY <1>1, <1>2, <1>3, <1>4, <1>5, <1>6, <1>7 DEF CluaNext

\* What is left while a line is executed.
LEMMA LeftExecuting ==
    ASSUME pc = "execute", NEW m \in Nat, m = Len(statements), NEW k \in Nat, k = node
    PROVE  /\ call \in S!Pending => Left = 2 * (m + 1 - k) + 2
           /\ call \notin S!Pending => Left = 2 * (m + 1 - k) + 1
  BY DEF Left

\* The numbers it is made of.
Counts(n, c, m, k) ==
    /\ n = Len(tokens) /\ c = current /\ m = Len(statements) /\ k = node
    /\ k \in 1 .. m + 1 /\ c \in 1 .. n + 1

Counted == \E n \in Nat, c \in Nat, m \in Nat, k \in Nat : Counts(n, c, m, k)

LEMMA LinesCounted == Lines => Counted
<1>1. SUFFICES ASSUME Lines
               PROVE  /\ Len(tokens) \in Nat /\ current \in Nat /\ Len(statements) \in Nat
                      /\ node \in Nat /\ node \in 1 .. Len(statements) + 1
                      /\ current \in 1 .. Len(tokens) + 1
  BY DEF Counted, Counts
<1>2. Len(tokens) \in Nat /\ current \in Nat /\ Len(statements) \in Nat
  BY <1>1, Listed DEF Lines
<1>3. node \in 1 .. Len(statements) + 1 /\ node \in Nat
  BY <1>1, <1>2 DEF Lines
<1>4. current \in 1 .. Len(tokens) + 1
  BY <1>1 DEF Lines, Proved!IInv, Proved!TypeOK
<1>5. QED  BY <1>2, <1>3, <1>4

LEMMA LeftTyped == Lines => Left \in Nat
<1>1. SUFFICES ASSUME Lines PROVE Left \in Nat
  OBVIOUS
<1>2. PICK n \in Nat, c \in Nat, m \in Nat, k \in Nat :
          /\ n = Len(tokens) /\ c = current /\ m = Len(statements) /\ k = node
          /\ k \in 1 .. m + 1 /\ c \in 1 .. n + 1
  BY <1>1, LinesCounted DEF Counted, Counts
<1>3. CASE pc = "parse"
  <2>1. 3 * (n + 1 - c) + 2 * m + 2 \in Nat
    BY <1>2
  <2>2. Left = 3 * (n + 1 - c) + 2 * m + 2
    BY <1>2, <1>3 DEF Left
  <2>3. QED  BY <2>1, <2>2
<1>4. CASE pc = "execute"
  <2>1. 2 * (m + 1 - k) + 2 \in Nat /\ 2 * (m + 1 - k) + 1 \in Nat
    BY <1>2
  <2>2. QED  BY <1>2, <1>4, <2>1, LeftExecuting
<1>5. CASE pc \notin {"parse", "execute"}
  BY <1>5 DEF Left
<1>6. QED  BY <1>3, <1>4, <1>5

\* A turn of the parser takes a token for one statement at most.
LEMMA ParseShortens ==
    ASSUME Lines, Lines', Parse
    PROVE  Left' < Left
<1>1. PICK n \in Nat, c \in Nat, m \in Nat, k \in Nat :
          /\ n = Len(tokens) /\ c = current /\ m = Len(statements) /\ k = node
          /\ k \in 1 .. m + 1 /\ c \in 1 .. n + 1
  BY LinesCounted DEF Counted, Counts
<1>2. Lines' => Counted'
  BY LinesCounted, PTL
<1>3. PICK n1 \in Nat, c1 \in Nat, m1 \in Nat, k1 \in Nat :
          /\ n1 = Len(tokens') /\ c1 = current' /\ m1 = Len(statements') /\ k1 = node'
          /\ k1 \in 1 .. m1 + 1 /\ c1 \in 1 .. n1 + 1
  BY <1>2 DEF Counted, Counts
<1>4. /\ pc = "parse" /\ pc' = "parse" /\ Proved!Running /\ Proved!Next
  BY SameTypes, SameTurns DEF Parse
<1>5. Proved!Grown
  BY <1>4, SameInput, Proved!TurnGrows DEF Lines
<1>6. n1 = n /\ c1 > c /\ m1 <= m + 1
  <2>1. CASE statements' = statements /\ current' > current
    BY <1>1, <1>3, <1>5, <2>1 DEF Proved!Grown
  <2>2. ASSUME NEW s \in Proved!Statement, statements' = Append(statements, s),
               current' >= current + 1 + Len(s.children)
        PROVE  n1 = n /\ c1 > c /\ m1 <= m + 1
    <3>1. PICK l \in Nat : l = Len(s.children)
      BY SameTypes DEF P!Statement
    <3>2. c1 > c
      <4>1. c1 >= c + 1 + l
        BY <1>1, <1>3, <2>2, <3>1
      <4>2. QED  BY <4>1
    <3>3. Len(statements') = Len(statements) + 1
      BY <2>2, Listed DEF Lines
    <3>4. QED  BY <1>1, <1>3, <1>5, <3>2, <3>3 DEF Proved!Grown
  <2>3. QED  BY <1>5, <2>1, <2>2 DEF Proved!Grown
<1>7. Left = 3 * (n + 1 - c) + 2 * m + 2
  BY <1>1, <1>4 DEF Left
<1>8. Left' = 3 * (n1 + 1 - c1) + 2 * m1 + 2
  BY <1>3, <1>4 DEF Left
<1>9. QED  BY <1>6, <1>7, <1>8

\* Every step of the program is one of them.
LEMMA Shortens ==
    ASSUME Lines, Lines', Asked, Line \/ Statement \/ Reply
    PROVE  Left' < Left
<1>1. PICK n \in Nat, c \in Nat, m \in Nat, k \in Nat :
          /\ n = Len(tokens) /\ c = current /\ m = Len(statements) /\ k = node
          /\ k \in 1 .. m + 1 /\ c \in 1 .. n + 1
  BY LinesCounted DEF Counted, Counts
<1>2. CASE Line /\ Parse
  BY <1>2, ParseShortens
<1>3. CASE Line /\ Parsed
  <2>1. /\ pc = "parse" /\ pc' \in {"overrun", "execute"} /\ call' \notin S!Pending
        /\ UNCHANGED <<tokens, current, statements, node>>
    BY <1>3 DEF Line, Parsed, parser, session, S!Pending
  <2>2. k = 1
    BY <1>1, <2>1 DEF Lines
  <2>3. Left = 3 * (n + 1 - c) + 2 * m + 2
    BY <1>1, <2>1 DEF Left
  <2>4. Left' = 2 * (m + 1 - k) + 1 \/ Left' = 0
    BY <1>1, <2>1 DEF Left
  <2>5. QED  BY <1>1, <2>2, <2>3, <2>4
<1>4. CASE Line /\ LineDone
  <2>1. pc = "execute" /\ pc' = "prompt"
    BY <1>4 DEF LineDone
  <2>2. Left \in Nat /\ Left # 0
    <3>1. Left = 2 * (m + 1 - k) + 1 \/ Left = 2 * (m + 1 - k) + 2
      BY <1>1, <2>1, LeftExecuting
    <3>2. QED  BY <1>1, <3>1
  <2>3. Left' = 0
    BY <2>1 DEF Left
  <2>4. QED  BY <2>2, <2>3
<1>5. CASE Statement
  <2>1. /\ pc = "execute" /\ pc' = "execute" /\ node' = node + 1 /\ statements' = statements
        /\ call \notin S!Pending
    BY <1>5, ExecuteMoves DEF Statement, S!Pending
  <2>2. Left = 2 * (m + 1 - k) + 1
    BY <1>1, <2>1, LeftExecuting
  <2>3. Left' = 2 * (m + 1 - (k + 1)) + 2 \/ Left' = 2 * (m + 1 - (k + 1)) + 1
    BY <1>1, <2>1 DEF Left
  <2>4. QED  BY <1>1, <2>2, <2>3
<1>6. CASE Reply
  <2>1. /\ call \in S!Pending /\ call' \notin S!Pending /\ UNCHANGED <<pc, node, statements>>
    BY <1>6 DEF Reply, vars, S!Reply, S!ProbeDefaultRoot, S!Peek, S!ExploreChildren,
       S!Step, S!Pending
  <2>2. pc = "execute"
    BY <2>1 DEF Asked
  <2>3. Left = 2 * (m + 1 - k) + 2
    BY <1>1, <2>1, <2>2, LeftExecuting
  <2>4. Left' = 2 * (m + 1 - k) + 1
    BY <1>1, <2>1, <2>2 DEF Left
  <2>5. QED  BY <1>1, <2>3, <2>4
<1>7. QED
  BY <1>2, <1>3, <1>4, <1>5, <1>6 DEF Line

\* The server cannot make a line longer, nor can a line make itself longer.
LEMMA NotLonger ==
    ASSUME Environment
    PROVE  Left' = Left
<1>1. UNCHANGED <<pc, tokens, current, statements, node, call>>
  BY DEF Environment, vars, S!Environment, S!Reconfigure, S!FlipLink
<1>2. QED  BY <1>1 DEF Left, S!Pending

\* A line is answered, or the program lost, within three steps for each of its
\* tokens and two more: every step of the program leaves less to do, and nothing
\* the server does leaves more.
THEOREM LinesEnd ==
    CluaSpec => /\ [](Left \in Nat)
                /\ [][Line \/ Statement \/ Reply => Left' < Left]_allvars
                /\ [][Environment => Left' = Left]_allvars
<1>1. CluaInit => Asked
  BY DEF CluaInit, S!Init, Asked, S!Pending
<1>2. Lines /\ Lines' /\ Asked /\ [CluaNext]_allvars
        => [Line \/ Statement \/ Reply => Left' < Left]_allvars
  BY Shortens
<1>3. [CluaNext]_allvars => [Environment => Left' = Left]_allvars
  BY NotLonger
<1>4. CluaSpec => [][Line \/ Statement \/ Reply => Left' < Left]_allvars
  BY <1>1, <1>2, AskedStep, LinesInvariant, PTL DEF CluaSpec
<1>5. CluaSpec => [][Environment => Left' = Left]_allvars
  BY <1>3, PTL DEF CluaSpec
<1>6. QED  BY <1>4, <1>5, LeftTyped, LinesInvariant, PTL
=============================================================================
