--------------------------- MODULE StructureTree ---------------------------
(***************************************************************************)
(* mirua_explore_structure and what save does with its tree: the root is   *)
(* read, the HasComponent references are followed down, the elements of    *)
(* arrays become nodes of their own, the values found are collected.  Each *)
(* read and browse is a step: the server and the link may change between   *)
(* any two of them.  The C stack of _mirua_build_structure_tree is         *)
(* `frames`; the tree is the list of its nodes in the order they are made, *)
(* which is the order the recursion visits them in again.                  *)
(***************************************************************************)
EXTENDS Naturals, Sequences, FiniteSets, SequencesExt

CONSTANTS
    Node,        \* the nodes of the server, data types included
    NullId,      \* the id of an array element: no node of a server has it
    NoType,      \* an array element that is no decoded structure
    Servers,     \* the servers seen over time: [Node -> Content]
    Roots,       \* the nodes save may explore
    MaxDepth,    \* the calls of _mirua_build_structure_tree the stack holds
    MaxWalks,    \* bound: explorations per behaviour
    MaxChanges   \* bound: changes of the server or the link

\* What the reads of a node give: no value, a plain one, or one made of
\* extension objects; the elements if it is an array (of a structure its data
\* type); the nodes its HasComponent references lead to.
Content == [value : {"unreadable", "plain", "structure"},
            elements : Seq(Node \cup {NoType}),
            components : Seq(Node)]

ASSUME TreeAssumption ==
    /\ IsFiniteSet(Node)
    /\ NullId \notin Node /\ NoType \notin Node
    /\ Servers \subseteq [Node -> Content]
    /\ Roots \subseteq Node
    /\ MaxDepth \in Nat /\ MaxDepth > Cardinality(Node)
    /\ MaxWalks \in Nat /\ MaxChanges \in Nat

VARIABLES
    pc,         \* the next read, "build", "collect", "release", or how it ended
    range,      \* the save command has a range
    root,       \* the node explored
    tree,       \* the nodes made so far
    frames,     \* the calls that have not returned, the outermost first
    collected,  \* the ids mirua_tree_collect_values appended
    server, link,
    disturbed,  \* the server or the link changed during this exploration
    walks, changes

world == <<server, link, disturbed, changes>>
vars == <<pc, range, root, tree, frames, collected, server, link, disturbed,
          walks, changes>>

\* `structure` says that the value is of extension objects, `parent` is the
\* position of the parent, 0 for the root.
TreeNode == [id : Node \cup {NullId}, type : {"structure", "array", "value"},
             structure : BOOLEAN, parent : Nat]

\* A call: its tree node, the node whose references it browses, the elements
\* and the references it has still to go through.
Frame == [at : Nat \ {0}, node : Node, elements : Seq(Node \cup {NoType}),
          fields : Seq(Node), browsed : BOOLEAN]

RootReads == {"is_structure", "name", "value", "type", "node_type"}
Ended == {"crashed", "null_root", "double_free", "stack_overflow"}

TypeOK ==
    /\ pc \in RootReads \cup {"idle", "build", "collect", "release"} \cup Ended
    /\ range \in BOOLEAN
    /\ root \in Node
    /\ tree \in Seq(TreeNode)
    /\ frames \in Seq(Frame) /\ Len(frames) <= MaxDepth
    /\ collected \in Seq(Node \cup {NullId})
    /\ server \in Servers
    /\ link \in BOOLEAN /\ disturbed \in BOOLEAN
    /\ walks \in 0 .. MaxWalks
    /\ changes \in 0 .. MaxChanges

Init ==
    /\ pc = "idle"
    /\ range = FALSE
    /\ root \in Roots
    /\ tree = << >> /\ frames = << >> /\ collected = << >>
    /\ server \in Servers
    /\ link = TRUE
    /\ disturbed = FALSE
    /\ walks = 0 /\ changes = 0

-----------------------------------------------------------------------------
(* The root *)

\* What UA_Client_readValueAttribute gives.
Value(n) ==
    IF link THEN [value |-> server[n].value, elements |-> server[n].elements]
            ELSE [value |-> "unreadable", elements |-> << >>]

Call(at, node, elements) ==
    [at |-> at, node |-> node, elements |-> elements, fields |-> << >>,
     browsed |-> FALSE]

Step(next) == pc' = next

\* Save explores a row, or the next structure of its range: what it just read
\* there was a structure.
Explore ==
    /\ pc = "idle"
    /\ walks < MaxWalks
    /\ walks' = walks + 1
    /\ range' \in BOOLEAN
    /\ root' \in {n \in Roots : Value(n).value = "structure"}
    /\ tree' = << >> /\ frames' = << >> /\ collected' = << >>
    /\ disturbed' = ~link
    /\ Step("is_structure")
    /\ UNCHANGED <<server, link, changes>>

\* The warning about another node has a %s without an argument: the program
\* ends there or goes on, and there is no tree.
IsStructure ==
    /\ pc = "is_structure"
    /\ IF Value(root).value = "structure" THEN Step("name")
                                          ELSE pc' \in {"crashed", "idle"}
    /\ UNCHANGED <<range, root, tree, frames, collected, walks, world>>

\* Without a root the build begins all the same, at a null pointer.
ReadName ==
    /\ pc = "name"
    /\ Step(IF link THEN "value" ELSE "null_root")
    /\ UNCHANGED <<range, root, tree, frames, collected, walks, world>>

\* Mutant: an array is no value for a root.
ReadValue_RefusesArrays ==
    /\ pc = "value"
    /\ LET v == Value(root)
           structure == v.value = "structure"
       IN  IF v.value = "unreadable" \/ v.elements # << >>
             THEN Step("null_root") /\ UNCHANGED <<tree, frames>>
             ELSE /\ Step("type")
                  /\ tree' = <<[id |-> root, structure |-> structure, parent |-> 0,
                                type |-> IF structure THEN "structure" ELSE "value"]>>
                  /\ frames' = <<Call(1, root, v.elements)>>
    /\ UNCHANGED <<range, root, collected, walks, world>>

\* An array is not looked at: a root is a structure or a value.
ReadValue ==
    /\ pc = "value"
    /\ LET v == Value(root)
           structure == v.value = "structure"
       IN  IF v.value = "unreadable"
             THEN Step("null_root") /\ UNCHANGED <<tree, frames>>
             ELSE /\ Step("type")
                  /\ tree' = <<[id |-> root, structure |-> structure, parent |-> 0,
                                type |-> IF structure THEN "structure" ELSE "value"]>>
                  /\ frames' = <<Call(1, root, v.elements)>>
    /\ UNCHANGED <<range, root, collected, walks, world>>

\* The data type is read twice: for the value and for the node.
ReadType ==
    /\ pc \in {"type", "node_type"}
    /\ Step(IF ~link THEN "null_root" ELSE IF pc = "type" THEN "node_type" ELSE "build")
    /\ UNCHANGED <<range, root, tree, frames, collected, walks, world>>

-----------------------------------------------------------------------------
(* The recursion *)

Top == frames[Len(frames)]

\* The calling frame, with its first element or reference dealt with.
SetTop(frame) == [frames EXCEPT ![Len(frames)] = frame]

Building == pc = "build" /\ frames # << >>

\* add_child, and the call for the child, if the stack has room for it.
AddAndCall(child, caller, node, elements) ==
    /\ tree' = Append(tree, child)
    /\ IF Len(frames) < MaxDepth
         THEN /\ frames' = Append(SetTop(caller), Call(Len(tree) + 1, node, elements))
              /\ UNCHANGED pc
         ELSE UNCHANGED frames /\ Step("stack_overflow")

\* The elements of an array of plain values are leaves without an id.
AddPlainElements ==
    /\ Building
    /\ Top.elements # << >> /\ ~tree[Top.at].structure
    /\ tree' = tree \o [k \in DOMAIN Top.elements |->
                           [id |-> NullId, type |-> "value", structure |-> FALSE,
                            parent |-> Top.at]]
    /\ frames' = SetTop([Top EXCEPT !.elements = << >>])
    /\ UNCHANGED <<pc, range, root, collected, walks, world>>

\* A decoded structure has no id either: what is below it is looked for under
\* its data type.  Others are passed over.
AddStructureElement ==
    /\ Building
    /\ Top.elements # << >> /\ tree[Top.at].structure
    /\ LET element == Head(Top.elements)
           caller == [Top EXCEPT !.elements = Tail(@)]
       IN  IF element = NoType
             THEN frames' = SetTop(caller) /\ UNCHANGED <<pc, tree>>
             ELSE AddAndCall([id |-> NullId, type |-> "structure", structure |-> FALSE,
                              parent |-> Top.at], caller, element, << >>)
    /\ UNCHANGED <<range, root, collected, walks, world>>

\* Mutant: without an answer the browse is repeated.
Browse_Again ==
    /\ Building
    /\ Top.elements = << >> /\ ~Top.browsed
    /\ frames' = SetTop([Top EXCEPT !.browsed = link,
                         !.fields = IF link THEN server[Top.node].components ELSE << >>])
    /\ UNCHANGED <<pc, range, root, tree, collected, walks, world>>

\* Mutant: the references are followed in the other direction.
Browse_Inverse ==
    /\ Building
    /\ Top.elements = << >> /\ ~Top.browsed
    /\ frames' = SetTop([Top EXCEPT !.browsed = TRUE,
                         !.fields = IF ~link THEN << >>
                                    ELSE SetToSeq({n \in Node :
                                           Top.node \in Range(server[n].components)})])
    /\ UNCHANGED <<pc, range, root, tree, collected, walks, world>>

\* An answer without results is no error.
Browse ==
    /\ Building
    /\ Top.elements = << >> /\ ~Top.browsed
    /\ frames' = SetTop([Top EXCEPT !.browsed = TRUE,
                         !.fields = IF link THEN server[Top.node].components ELSE << >>])
    /\ UNCHANGED <<pc, range, root, tree, collected, walks, world>>

\* Mutant: an unreadable field is taken for a structure.
FieldType_UnreadableIsNoValue(v) ==
    IF v.elements # << >> THEN "array"
    ELSE IF v.value \in {"structure", "unreadable"} THEN "structure"
    ELSE "value"

\* Mutant: the status of the read is not looked at.
FieldType_Unset(v) ==
    IF v.elements # << >> THEN "array"
    ELSE IF v.value = "unreadable" THEN "unset"
    ELSE v.value

\* Arrays first; a value that cannot be read counts as a plain one.
FieldType(v) ==
    IF v.elements # << >> THEN "array"
    ELSE IF v.value = "structure" THEN "structure"
    ELSE "value"

\* Mutant: the call is made for the parent's node.
AddField_SameNode ==
    /\ Building
    /\ Top.elements = << >> /\ Top.browsed /\ Top.fields # << >>
    /\ LET field == Head(Top.fields)
           v == Value(field)
       IN  AddAndCall([id |-> field, type |-> FieldType(v), parent |-> Top.at,
                       structure |-> v.value = "structure"],
                      [Top EXCEPT !.fields = Tail(@)], Top.node, v.elements)
    /\ UNCHANGED <<range, root, collected, walks, world>>

\* One reference: its value is read, it becomes a child, and is gone into.
AddField ==
    /\ Building
    /\ Top.elements = << >> /\ Top.browsed /\ Top.fields # << >>
    /\ LET field == Head(Top.fields)
           v == Value(field)
       IN  AddAndCall([id |-> field, type |-> FieldType(v), parent |-> Top.at,
                       structure |-> v.value = "structure"],
                      [Top EXCEPT !.fields = Tail(@)], field, v.elements)
    /\ UNCHANGED <<range, root, collected, walks, world>>

\* The name of a structure element is cleared twice once its call is back,
\* with the node id it was put into and by itself.
Return ==
    /\ Building
    /\ Top.elements = << >> /\ Top.browsed /\ Top.fields = << >>
    /\ frames' = Front(frames)
    /\ pc' \in {IF Len(frames) = 1 THEN "collect" ELSE "build"}
               \cup (IF tree[Top.at].id = NullId THEN {"double_free"} ELSE {})
    /\ UNCHANGED <<range, root, tree, collected, walks, world>>

-----------------------------------------------------------------------------
(* Collecting the values *)

IsPlainArray(k) == tree[k].type = "array" /\ ~tree[k].structure

\* Mutant: the elements of a plain array are collected with it.
Hidden_Never == [k \in DOMAIN tree |-> FALSE]

\* The nodes below an array of plain values are not looked at.
Hidden ==
    LET hidden[k \in DOMAIN tree] ==
            LET p == tree[k].parent
            IN  p # 0 /\ (IsPlainArray(p) \/ hidden[p])
    IN  hidden

\* mirua_tree_collect_values: plain arrays themselves, values, and what is
\* below structures, arrays of structures and values.
Collect ==
    /\ pc = "collect"
    /\ LET hidden == Hidden
           taken(k) == ~hidden[k] /\ (tree[k].type = "value" \/ IsPlainArray(k))
       IN  collected' = FlattenSeq([k \in DOMAIN tree |->
                                       IF taken(k) THEN <<tree[k].id>> ELSE << >>])
    /\ Step("release")
    /\ UNCHANGED <<range, root, tree, frames, walks, world>>

\* mirua_tree_destroy, which only a range does: `save <idx>` leaves its tree.
Release ==
    /\ pc = "release"
    /\ tree' = IF range THEN << >> ELSE tree
    /\ Step("idle")
    /\ UNCHANGED <<range, root, frames, collected, walks, world>>

-----------------------------------------------------------------------------
(* The server, at any time *)

Change ==
    /\ changes < MaxChanges
    /\ changes' = changes + 1
    /\ disturbed' = TRUE
    /\ \/ server' \in Servers \ {server} /\ UNCHANGED link
       \/ link' = ~link /\ UNCHANGED server
    /\ UNCHANGED <<pc, range, root, tree, frames, collected, walks>>

-----------------------------------------------------------------------------
Program ==
    \/ IsStructure \/ ReadName \/ ReadValue \/ ReadType
    \/ AddPlainElements \/ AddStructureElement \/ Browse \/ AddField \/ Return
    \/ Collect \/ Release

Next == Explore \/ Program \/ Change

\* A single thread; every read and browse returns.
Spec == Init /\ [][Next]_vars /\ WF_vars(Program)

-----------------------------------------------------------------------------
(* Properties. *)

\* Reference: the values server s has at m or below it, as long as it stays as
\* it is.  A structure stands for the values its references and the types of its
\* elements lead to, an array of plain values for itself alone, any other node
\* for itself and the values its references lead to.
Own(s, below, m) ==
    LET types == s[m].elements
    IN  IF s[m].value = "structure"
          THEN FlattenSeq([i \in DOMAIN types |->
                              IF types[i] = NoType THEN << >> ELSE below[types[i]]])
               \o below[m]
        ELSE IF types # << >> THEN <<m>>
        ELSE <<m>> \o below[m]

\* What the references of each node lead to, up to d references deep.
Below(s) ==
    LET below[d \in 0 .. MaxDepth] ==
            [m \in Node |->
                IF d = 0 THEN << >>
                ELSE FlattenSeq([i \in DOMAIN s[m].components |->
                                    Own(s, below[d - 1], s[m].components[i])])]
    IN  below

Reference(s, n) == Own(s, Below(s)[MaxDepth], n)

\* When nothing changes under the walk, the ids collected (which the file then
\* gets) are the reference's: each value once per way to it, in order, and no
\* array element among them (mirua_module.c:2130).
CollectExact == pc = "release" /\ ~disturbed => collected = Reference(server, root)

\* The null id of an array element is collected only if the root, a structure
\* when save looked at it, was an array of plain values two reads later.
NullIdNeedsRootChange ==
    pc = "release" /\ NullId \in Range(collected) => disturbed /\ ~tree[1].structure

\* Following a reference or the type of an array element, on any server seen.
Linked(m, n) ==
    \E s \in Servers : n \in Range(s[m].components) \cup Range(s[m].elements)

\* A set of nodes that no reference of any server leads out of.
Closed(S) == \A m \in S, n \in Node : Linked(m, n) => n \in S

\* However the server and the link change under the walk, what it collects is
\* reached from the root by references, each on some server seen, apart from
\* array elements without an id: nothing of another walk and nothing above the
\* root (mirua_module.c:2442, 2448).
FoundBelowRoot ==
    pc = "release" =>
        \A S \in SUBSET Node :
            root \in S /\ Closed(S) => Range(collected) \subseteq S \cup {NullId}

\* The walk has no depth bound and does not remember where it was
\* (mirua_module.c:2429); the stack overflows only on a cycle of references
\* between nodes still being explored.  The cycle may be one that no server
\* had at any one time.
OverflowNeedsCycle ==
    pc = "stack_overflow" =>
        \E i, j \in DOMAIN frames :
            /\ i < j
            /\ frames[i].node = frames[j].node
            /\ \A k \in i .. j - 1 : Linked(frames[k].node, frames[k + 1].node)

\* Only reads that contradict each other leave the walk without a root.
LostNeedsChange == pc \in {"crashed", "null_root"} => disturbed

\* Every exploration comes to an end, on cycles by overflowing the stack.
WalkEnds == pc = "is_structure" ~> pc \in {"idle"} \cup Ended
=============================================================================
