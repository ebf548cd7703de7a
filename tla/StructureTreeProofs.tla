------------------------ MODULE StructureTreeProofs ------------------------
(***************************************************************************)
(* For every set of servers and every depth of the stack: how the walk     *)
(* over a structure can go wrong, and what that needs; that it collects    *)
(* what the reference says of a server that stays as it is; and that it    *)
(* ends, whatever the servers do.                                          *)
(***************************************************************************)
EXTENDS StructureTree, TLAPS, FiniteSetTheorems, SequenceTheorems,
        WellFoundedInduction

\* A call of the recursion: its tree node is there; what it has still to go
\* through is linked to its node.
Good(f, tr) ==
    /\ f.at \in 1 .. Len(tr)
    /\ \A k \in 1 .. Len(f.elements) :
           f.elements[k] # NoType => Linked(f.node, f.elements[k])
    /\ \A k \in 1 .. Len(f.fields) : Linked(f.node, f.fields[k])

\* The stack: each call was made for a node linked to its caller's.
Stack(fs, tr) ==
    /\ fs \in Seq(Frame) /\ Len(fs) <= MaxDepth
    /\ \A k \in 1 .. Len(fs) : Good(fs[k], tr)
    /\ \A k \in 1 .. Len(fs) - 1 : Linked(fs[k].node, fs[k + 1].node)

\* Outside of the recursion nothing is on the stack.
Quiet == pc \in {"idle", "is_structure", "name", "value", "collect", "release"}

\* What was read of the root so far, when nothing changed.
RootRead ==
    pc \in RootReads /\ ~disturbed => link /\ server[root].value = "structure"

Inv ==
    /\ pc \in RootReads \cup {"idle", "build", "collect", "release"} \cup Ended
    /\ root \in Node
    /\ tree \in Seq(TreeNode)
    /\ server \in Servers
    /\ link \in BOOLEAN /\ disturbed \in BOOLEAN
    /\ Quiet => frames = << >>
    /\ Stack(frames, tree)
    /\ RootRead
    /\ pc = "stack_overflow" => Len(frames) = MaxDepth
    /\ LostNeedsChange

-----------------------------------------------------------------------------
(* Servers and stacks. *)

\* What a read of a node answers.
LEMMA Answer ==
    ASSUME NEW s \in Servers, NEW n \in Node
    PROVE  /\ s[n] \in Content
           /\ s[n].elements \in Seq(Node \cup {NoType})
           /\ s[n].components \in Seq(Node)
           /\ \A k \in 1 .. Len(s[n].elements) : Linked(n, s[n].elements[k])
           /\ \A k \in 1 .. Len(s[n].components) : Linked(n, s[n].components[k])
<1>1. /\ s[n] \in Content
      /\ s[n].elements \in Seq(Node \cup {NoType}) /\ s[n].components \in Seq(Node)
  BY TreeAssumption DEF Content
<1>2. ASSUME NEW k \in 1 .. Len(s[n].elements)
      PROVE  Linked(n, s[n].elements[k])
  BY <1>1 DEF Linked, Range
<1>3. ASSUME NEW k \in 1 .. Len(s[n].components)
      PROVE  Linked(n, s[n].components[k])
  BY <1>1 DEF Linked, Range
<1>4. QED
  BY <1>1, <1>2, <1>3

\* A tree that only grows leaves every stack as good as it was.
LEMMA TreeGrows ==
    ASSUME NEW tr, NEW tr2, NEW fs, Stack(fs, tr),
           Len(tr) \in Nat, Len(tr2) \in Nat, Len(tr) <= Len(tr2),
           \A k \in 1 .. Len(tr) : tr2[k] = tr[k]
    PROVE  Stack(fs, tr2)
<1>1. ASSUME NEW k \in 1 .. Len(fs)
      PROVE  Good(fs[k], tr2)
  <2>1. Good(fs[k], tr)
    BY DEF Stack
  <2>2. fs[k].at \in 1 .. Len(tr2) /\ tr2[fs[k].at] = tr[fs[k].at]
    BY <2>1 DEF Good
  <2>3. QED
    BY <2>1, <2>2 DEF Good
<1>2. QED
  BY <1>1 DEF Stack

\* The call on top has gone on, for the same node.
LEMMA Replace ==
    ASSUME NEW tr, NEW fs, Stack(fs, tr), fs # << >>,
           NEW c \in Frame, Good(c, tr), c.node = fs[Len(fs)].node
    PROVE  Stack([fs EXCEPT ![Len(fs)] = c], tr)
<1> DEFINE gs == [fs EXCEPT ![Len(fs)] = c]
<1>1. /\ fs \in Seq(Frame) /\ Len(fs) \in Nat \ {0}
      /\ gs \in Seq(Frame) /\ Len(gs) = Len(fs)
  BY DEF Stack
<1>d. DOMAIN fs = 1 .. Len(fs)
  BY <1>1
<1>g. \A k \in 1 .. Len(fs) : gs[k] = IF k = Len(fs) THEN c ELSE fs[k]
  BY <1>1, <1>d
<1>2. ASSUME NEW k \in 1 .. Len(fs)
      PROVE  gs[k].node = fs[k].node
  <2>1. CASE k = Len(fs)
    BY <1>g, <2>1
  <2>2. CASE k # Len(fs)
    BY <1>g, <2>2
  <2>3. QED
    BY <2>1, <2>2
<1> HIDE DEF gs
<1>3. \A k \in 1 .. Len(fs) : Good(gs[k], tr)
  BY <1>g DEF Stack
<1>4. ASSUME NEW k \in 1 .. Len(fs) - 1
      PROVE  Linked(gs[k].node, gs[k + 1].node)
  <2>1. k \in 1 .. Len(fs) /\ k + 1 \in 1 .. Len(fs)
    BY <1>1
  <2>2. gs[k].node = fs[k].node /\ gs[k + 1].node = fs[k + 1].node
    BY <1>2, <2>1
  <2>3. Linked(fs[k].node, fs[k + 1].node)
    BY DEF Stack
  <2>4. QED
    BY <2>2, <2>3
<1>5. QED
  BY <1>1, <1>3, <1>4 DEF Stack, gs

\* A call is made.
LEMMA Push ==
    ASSUME NEW tr, NEW fs, Stack(fs, tr), fs # << >>, Len(fs) < MaxDepth,
           NEW f \in Frame, Good(f, tr), Linked(fs[Len(fs)].node, f.node)
    PROVE  Stack(Append(fs, f), tr)
<1> DEFINE gs == Append(fs, f)
<1>1. /\ fs \in Seq(Frame) /\ Len(fs) \in Nat \ {0}
      /\ gs \in Seq(Frame) /\ Len(gs) = Len(fs) + 1
      /\ gs[Len(fs) + 1] = f
      /\ \A k \in 1 .. Len(fs) : gs[k] = fs[k]
  BY DEF Stack
<1> HIDE DEF gs
<1>2. Len(gs) <= MaxDepth
  BY <1>1, TreeAssumption
<1>3. \A k \in 1 .. Len(gs) : Good(gs[k], tr)
  BY <1>1 DEF Stack
<1>4. ASSUME NEW k \in 1 .. Len(gs) - 1
      PROVE  Linked(gs[k].node, gs[k + 1].node)
  <2>1. CASE k = Len(fs)
    BY <1>1, <2>1
  <2>2. CASE k # Len(fs)
    <3>1. k \in 1 .. Len(fs) - 1 /\ k + 1 \in 1 .. Len(fs)
      BY <1>1, <2>2
    <3>2. QED
      BY <1>1, <3>1 DEF Stack
  <2>3. QED
    BY <2>1, <2>2
<1>5. QED
  BY <1>1, <1>2, <1>3, <1>4 DEF Stack, gs

\* A stack without its top.
LEMMA FrontOf ==
    ASSUME NEW fs \in Seq(Frame), fs # << >>
    PROVE  /\ Front(fs) \in Seq(Frame) /\ Len(Front(fs)) = Len(fs) - 1
           /\ \A i \in 1 .. Len(fs) - 1 : Front(fs)[i] = fs[i]
<1> DEFINE m == Len(fs) - 1
           gs == Front(fs)
<1>1. m \in Int /\ m >= 0 /\ \A i \in 1 .. m : fs[i] \in Frame
  OBVIOUS
<1>2. gs = SubSeq(fs, 1, m)
  BY DEF Front
<1> HIDE DEF m, gs
<1>3. /\ gs \in Seq(Frame)
      /\ Len(gs) = IF 1 <= m THEN m - 1 + 1 ELSE 0
      /\ \A i \in 1 .. m - 1 + 1 : gs[i] = fs[1 + i - 1]
  BY ONLY <1>1, <1>2, SubSeqProperties
<1>4. Len(gs) = m /\ \A i \in 1 .. m : gs[i] = fs[i]
  <2>1. \A i \in 1 .. m : 1 + i - 1 = i /\ i \in 1 .. m - 1 + 1
    BY <1>1
  <2>2. Len(gs) = m
    BY <1>1, <1>3
  <2>3. QED  BY <1>3, <2>1, <2>2
<1>5. QED  BY <1>3, <1>4 DEF m, gs

\* A call returns.
LEMMA Pop ==
    ASSUME NEW tr, NEW fs, Stack(fs, tr), fs # << >>
    PROVE  /\ Stack(Front(fs), tr)
           /\ Len(fs) = 1 => Front(fs) = << >>
<1> DEFINE gs == Front(fs)
<1>0. fs \in Seq(Frame) /\ Len(fs) \in Nat \ {0}
  BY DEF Stack
<1>b. /\ gs \in Seq(Frame) /\ Len(gs) = Len(fs) - 1
      /\ \A k \in 1 .. Len(fs) - 1 : gs[k] = fs[k]
  BY <1>0, FrontOf
<1> HIDE DEF gs
<1>2. /\ Len(gs) <= MaxDepth
      /\ \A k \in 1 .. Len(gs) : k \in 1 .. Len(fs) /\ gs[k] = fs[k]
      /\ \A k \in 1 .. Len(gs) - 1 :
             k \in 1 .. Len(fs) - 1 /\ gs[k] = fs[k] /\ gs[k + 1] = fs[k + 1]
  BY <1>0, <1>b, TreeAssumption DEF Stack
<1>3. Stack(gs, tr)
  BY <1>b, <1>2 DEF Stack
<1>4. Len(fs) = 1 => gs = << >>
  BY <1>0, <1>b
<1>5. QED
  BY <1>3, <1>4 DEF gs

-----------------------------------------------------------------------------
(* The invariant. *)

\* Nothing is explored yet.
LEMMA InvInit == Init => Inv
<1> SUFFICES ASSUME Init
             PROVE  Inv
  OBVIOUS
<1>1. Stack(<< >>, << >>)
  BY TreeAssumption DEF Stack
<1>2. Stack(frames, tree)
  BY <1>1 DEF Init
<1>3. tree \in Seq(TreeNode)
  BY DEF Init
<1>4. QED
  BY <1>2, <1>3, TreeAssumption
  DEF Init, Inv, Quiet, RootRead, RootReads, Ended, LostNeedsChange

\* The call on top, and what it has been given.
LEMMA TopFrame ==
    ASSUME Inv, frames # << >>
    PROVE  /\ frames \in Seq(Frame) /\ Len(frames) \in 1 .. MaxDepth
           /\ Top \in Frame /\ Good(Top, tree)
<1>1. frames \in Seq(Frame) /\ Len(frames) \in Nat \ {0} /\ Len(frames) <= MaxDepth
  BY DEF Inv, Stack
<1>2. Len(frames) \in 1 .. Len(frames)
  BY <1>1
<1>3. Top \in Frame /\ Good(Top, tree)
  <2>1. \A k \in 1 .. Len(frames) : frames[k] \in Frame /\ Good(frames[k], tree)
    BY <1>1 DEF Inv, Stack
  <2>2. QED
    BY <1>2, <2>1 DEF Top
<1>4. QED
  BY <1>1, <1>3, TreeAssumption

\* add_child and the call for the child.
LEMMA Called ==
    ASSUME Inv, Building,
           NEW child \in TreeNode, NEW caller \in Frame, NEW node \in Node,
           NEW elements \in Seq(Node \cup {NoType}),
           Good(caller, tree), caller.node = Top.node,
           Linked(Top.node, node),
           \A k \in 1 .. Len(elements) : Linked(node, elements[k]),
           AddAndCall(child, caller, node, elements)
    PROVE  /\ tree' \in Seq(TreeNode)
           /\ Stack(frames', tree')
           /\ pc' \in {"build", "stack_overflow"}
           /\ pc' = "stack_overflow" => Len(frames') = MaxDepth
<1>1. /\ frames \in Seq(Frame) /\ Len(frames) \in 1 .. MaxDepth
      /\ Stack(frames, tree) /\ tree \in Seq(TreeNode) /\ frames # << >>
  BY TopFrame DEF Building, Inv
<1>2. tree' = Append(tree, child)
  BY DEF AddAndCall
<1>3. /\ tree' \in Seq(TreeNode)
      /\ Len(tree) \in Nat /\ Len(tree') = Len(tree) + 1
      /\ tree'[Len(tree) + 1] = child
      /\ \A k \in 1 .. Len(tree) : tree'[k] = tree[k]
  BY <1>1, <1>2
<1>4. Stack(frames, tree')
  <2>1. Len(tree') \in Nat /\ Len(tree) <= Len(tree')
    BY <1>3
  <2>2. QED  BY <1>1, <1>3, <2>1, TreeGrows, Zenon
<1>5. CASE Len(frames) < MaxDepth
  <2> DEFINE fs == SetTop(caller)
             f == Call(Len(tree) + 1, node, elements)
  <2>1. frames' = Append(fs, f) /\ pc' = "build"
    BY <1>5 DEF AddAndCall, Building
  <2>2. Stack(fs, tree)
    BY <1>1, Replace DEF SetTop, Top
  <2>3. Stack(fs, tree')
    BY <1>3, <2>2, TreeGrows
  <2>4. /\ Len(fs) = Len(frames) /\ fs # << >>
        /\ fs[Len(fs)] = caller
    BY <1>1 DEF SetTop
  <2>5. f \in Frame
    BY <1>3 DEF Call, Frame
  <2>6. Good(f, tree')
    BY <1>3 DEF Good, Call
  <2>7. f.node = node
    BY DEF Call
  <2> HIDE DEF fs, f
  <2>8. Stack(Append(fs, f), tree')
    BY <1>5, <2>3, <2>4, <2>5, <2>6, <2>7, Push
  <2>9. QED
    BY <1>3, <2>1, <2>8
<1>6. CASE ~(Len(frames) < MaxDepth)
  <2>1. UNCHANGED frames /\ pc' = "stack_overflow"
    BY <1>6 DEF AddAndCall, Step
  <2>2. Len(frames) = MaxDepth
    BY <1>1, <1>6, TreeAssumption
  <2>3. QED
    BY <1>3, <1>4, <2>1, <2>2
<1>7. QED
  BY <1>5, <1>6

\* Every step keeps the invariant.
LEMMA InvStep == Inv /\ [Next]_vars => Inv'
<1> SUFFICES ASSUME Inv, [Next]_vars
             PROVE  Inv'
  OBVIOUS
<1> USE DEF Quiet, RootRead, RootReads, Ended, LostNeedsChange, Step, world
<1>t. /\ root \in Node /\ tree \in Seq(TreeNode) /\ server \in Servers
      /\ link \in BOOLEAN /\ disturbed \in BOOLEAN
      /\ Stack(frames, tree)
  BY DEF Inv
<1>e. Stack(<< >>, << >>)
  BY TreeAssumption DEF Stack
<1>1. CASE Explore
  BY <1>1, <1>t, <1>e, TreeAssumption DEF Explore, Value, Inv
<1>2. CASE IsStructure
  BY <1>2, <1>t DEF IsStructure, Value, Inv
<1>3. CASE ReadName
  BY <1>3, <1>t DEF ReadName, Inv
<1>4. CASE ReadValue
  <2> DEFINE v == Value(root)
             node == [id |-> root, structure |-> v.value = "structure", parent |-> 0,
                      type |-> IF v.value = "structure" THEN "structure" ELSE "value"]
             f == Call(1, root, v.elements)
  <2>1. CASE v.value = "unreadable"
    <3>1. pc' = "null_root" /\ UNCHANGED <<root, tree, frames, server, link, disturbed>>
      BY <1>4, <2>1 DEF ReadValue
    <3>2. disturbed
      BY <1>4, <2>1 DEF Inv, ReadValue, Value
    <3>3. QED
      BY <1>t, <3>1, <3>2 DEF Inv
  <2>2. CASE v.value # "unreadable"
    <3>1. /\ pc' = "type" /\ tree' = <<node>> /\ frames' = <<f>>
          /\ UNCHANGED <<root, server, link, disturbed>>
      BY <1>4, <2>2 DEF ReadValue
    <3>2. link /\ v.elements = server[root].elements
      BY <2>2 DEF Value
    <3>3. /\ v.elements \in Seq(Node \cup {NoType})
          /\ \A k \in 1 .. Len(v.elements) : Linked(root, v.elements[k])
      BY <1>t, <3>2, Answer
    <3>4. node \in TreeNode /\ f \in Frame
      BY <1>t, <3>3 DEF TreeNode, Call, Frame
    <3>5. Good(f, <<node>>)
      BY <3>3 DEF Good, Call
    <3> HIDE DEF node, f
    <3>6. Stack(<<f>>, <<node>>)
      <4>1. MaxDepth >= 1
        BY TreeAssumption, FS_CardinalityType
      <4>2. QED
        BY <3>4, <3>5, <4>1 DEF Stack
    <3>7. ~disturbed => server[root].value = "structure"
      BY <1>4 DEF Inv, ReadValue
    <3>8. QED
      BY <1>t, <3>1, <3>2, <3>4, <3>6, <3>7 DEF Inv
  <2>3. QED
    BY <2>1, <2>2
<1>5. CASE ReadType
  BY <1>5, <1>t DEF ReadType, Inv
<1>6. CASE AddPlainElements
  <2> DEFINE leaves == [k \in DOMAIN Top.elements |->
                          [id |-> NullId, type |-> "value", structure |-> FALSE,
                           parent |-> Top.at]]
             caller == [Top EXCEPT !.elements = << >>]
  <2>1. /\ pc = "build" /\ pc' = "build" /\ frames # << >>
        /\ tree' = tree \o leaves /\ frames' = SetTop(caller)
        /\ UNCHANGED <<root, server, link, disturbed>>
    BY <1>6 DEF AddPlainElements, Building
  <2>2. Top \in Frame /\ Good(Top, tree)
    BY <2>1, TopFrame
  <2>3. leaves \in Seq(TreeNode)
    <3>1. /\ Len(Top.elements) \in Nat /\ DOMAIN Top.elements = 1 .. Len(Top.elements)
          /\ Top.at \in Nat
      BY <2>2 DEF Frame
    <3>2. [id |-> NullId, type |-> "value", structure |-> FALSE, parent |-> Top.at] \in TreeNode
      BY <3>1 DEF TreeNode
    <3>3. QED
      BY <3>1, <3>2
  <2>4. caller \in Frame /\ Good(caller, tree) /\ caller.node = Top.node
    <3>0. << >> \in Seq(Node \cup {NoType})
      OBVIOUS
    <3>a. caller \in Frame
      BY <2>2, <3>0 DEF Frame
    <3>1. /\ caller.node = Top.node /\ caller.at = Top.at
          /\ caller.elements = << >> /\ caller.fields = Top.fields
      BY <2>2 DEF Frame
    <3> HIDE DEF caller
    <3>2. QED
      BY <2>2, <3>a, <3>1 DEF Good
  <2> HIDE DEF leaves, caller
  <2>5. Stack(SetTop(caller), tree)
    BY <1>t, <2>1, <2>4, Replace DEF SetTop, Top
  <2>6. /\ tree' \in Seq(TreeNode)
        /\ Len(tree) \in Nat /\ Len(tree') \in Nat /\ Len(tree) <= Len(tree')
        /\ \A k \in 1 .. Len(tree) : tree'[k] = tree[k]
    BY <1>t, <2>1, <2>3
  <2>7. Stack(frames', tree')
    BY <2>1, <2>5, <2>6, TreeGrows
  <2>8. QED
    BY <1>t, <2>1, <2>6, <2>7 DEF Inv
<1>7. CASE AddStructureElement
  <2> DEFINE caller == [Top EXCEPT !.elements = Tail(@)]
             element == Head(Top.elements)
             child == [id |-> NullId, type |-> "structure", structure |-> FALSE,
                       parent |-> Top.at]
  <2>1. /\ pc = "build" /\ frames # << >> /\ Building /\ Top.elements # << >>
        /\ UNCHANGED <<root, server, link, disturbed>>
    BY <1>7 DEF AddStructureElement, Building
  <2>2. Top \in Frame /\ Good(Top, tree)
    BY <2>1, TopFrame
  <2>3. /\ Top.elements \in Seq(Node \cup {NoType})
        /\ Len(Top.elements) \in Nat \ {0}
        /\ element = Top.elements[1] /\ element \in Node \cup {NoType}
        /\ Tail(Top.elements) \in Seq(Node \cup {NoType})
        /\ Len(Tail(Top.elements)) = Len(Top.elements) - 1
        /\ \A k \in 1 .. Len(Top.elements) - 1 : Tail(Top.elements)[k] = Top.elements[k + 1]
    BY <2>1, <2>2 DEF Frame
  <2>4. caller \in Frame /\ caller.node = Top.node /\ caller.at = Top.at
        /\ caller.elements = Tail(Top.elements) /\ caller.fields = Top.fields
    BY <2>2, <2>3 DEF Frame
  <2>5. Good(caller, tree)
    <3>1. ASSUME NEW k \in 1 .. Len(caller.elements), caller.elements[k] # NoType
          PROVE  Linked(caller.node, caller.elements[k])
      <4>1. k + 1 \in 1 .. Len(Top.elements) /\ caller.elements[k] = Top.elements[k + 1]
        BY <2>3, <2>4
      <4>2. QED
        BY <2>2, <2>4, <3>1, <4>1 DEF Good
    <3>2. QED
      BY <2>2, <2>4, <3>1 DEF Good
  <2>6. CASE element = NoType
    <3>1. frames' = SetTop(caller) /\ UNCHANGED <<pc, tree>>
      BY <1>7, <2>6 DEF AddStructureElement
    <3>2. Stack(frames', tree)
      BY <1>t, <2>1, <2>4, <2>5, <3>1, Replace DEF SetTop, Top
    <3>3. QED
      BY <1>t, <2>1, <3>1, <3>2 DEF Inv
  <2>7. CASE element # NoType
    <3>1. AddAndCall(child, caller, element, << >>)
      BY <1>7, <2>7 DEF AddStructureElement
    <3>2. child \in TreeNode
      BY <2>2 DEF TreeNode, Frame
    <3>3. Linked(Top.node, element) /\ element \in Node
      BY <2>2, <2>3, <2>7 DEF Good
    <3>4. /\ << >> \in Seq(Node \cup {NoType})
          /\ \A k \in 1 .. Len(<< >>) : Linked(element, << >>[k])
      OBVIOUS
    <3> HIDE DEF child, caller, element
    <3>5. /\ tree' \in Seq(TreeNode)
          /\ Stack(frames', tree')
          /\ pc' \in {"build", "stack_overflow"}
          /\ pc' = "stack_overflow" => Len(frames') = MaxDepth
      BY <2>1, <2>4, <2>5, <3>1, <3>2, <3>3, <3>4, Called
    <3>6. QED
      BY <1>t, <2>1, <3>5 DEF Inv
  <2>8. QED
    BY <2>6, <2>7
<1>8. CASE Browse
  <2> DEFINE fields == IF link THEN server[Top.node].components ELSE << >>
             caller == [Top EXCEPT !.browsed = TRUE, !.fields = fields]
  <2>1. /\ pc = "build" /\ frames # << >> /\ frames' = SetTop(caller)
        /\ UNCHANGED <<pc, root, tree, server, link, disturbed>>
    BY <1>8 DEF Browse, Building
  <2>2. Top \in Frame /\ Good(Top, tree) /\ Top.node \in Node
    BY <2>1, TopFrame DEF Frame
  <2>3. /\ fields \in Seq(Node)
        /\ \A k \in 1 .. Len(fields) : Linked(Top.node, fields[k])
    BY <1>t, <2>2, Answer
  <2> HIDE DEF fields
  <2>4. caller \in Frame /\ caller.node = Top.node /\ Good(caller, tree)
    BY <2>2, <2>3 DEF Frame, Good
  <2> HIDE DEF caller
  <2>5. Stack(frames', tree)
    BY <1>t, <2>1, <2>4, Replace DEF SetTop, Top
  <2>6. QED
    BY <1>t, <2>1, <2>5 DEF Inv
<1>9. CASE AddField
  <2> DEFINE caller == [Top EXCEPT !.fields = Tail(@)]
             field == Head(Top.fields)
             v == Value(field)
             child == [id |-> field, type |-> FieldType(v), parent |-> Top.at,
                       structure |-> v.value = "structure"]
  <2>1. /\ pc = "build" /\ frames # << >> /\ Building /\ Top.fields # << >>
        /\ AddAndCall(child, caller, field, v.elements)
        /\ UNCHANGED <<root, server, link, disturbed>>
    BY <1>9 DEF AddField, Building
  <2>2. Top \in Frame /\ Good(Top, tree)
    BY <2>1, TopFrame
  <2>3. /\ Top.fields \in Seq(Node)
        /\ Len(Top.fields) \in Nat \ {0}
        /\ field = Top.fields[1] /\ field \in Node
        /\ Tail(Top.fields) \in Seq(Node)
        /\ Len(Tail(Top.fields)) = Len(Top.fields) - 1
        /\ \A k \in 1 .. Len(Top.fields) - 1 : Tail(Top.fields)[k] = Top.fields[k + 1]
    BY <2>1, <2>2 DEF Frame
  <2>4. caller \in Frame /\ caller.node = Top.node /\ caller.at = Top.at
        /\ caller.elements = Top.elements /\ caller.fields = Tail(Top.fields)
    BY <2>2, <2>3 DEF Frame
  <2>5. Good(caller, tree)
    <3>1. ASSUME NEW k \in 1 .. Len(caller.fields)
          PROVE  Linked(caller.node, caller.fields[k])
      <4>1. k + 1 \in 1 .. Len(Top.fields) /\ caller.fields[k] = Top.fields[k + 1]
        BY <2>3, <2>4
      <4>2. QED
        BY <2>2, <2>4, <4>1 DEF Good
    <3>2. QED
      BY <2>2, <2>4, <3>1 DEF Good
  <2>6. Linked(Top.node, field)
    BY <2>2, <2>3 DEF Good
  <2>7. /\ v.elements \in Seq(Node \cup {NoType})
        /\ \A k \in 1 .. Len(v.elements) : Linked(field, v.elements[k])
    BY <1>t, <2>3, Answer DEF Value
  <2>8. child \in TreeNode /\ child.id # NullId
    BY <2>2, <2>3, TreeAssumption DEF TreeNode, Frame, FieldType
  <2> HIDE DEF child, caller, field, v
  <2>9. /\ tree' \in Seq(TreeNode)
        /\ Stack(frames', tree')
        /\ pc' \in {"build", "stack_overflow"}
        /\ pc' = "stack_overflow" => Len(frames') = MaxDepth
    BY <2>1, <2>3, <2>4, <2>5, <2>6, <2>7, <2>8, Called
  <2>10. QED
    BY <1>t, <2>1, <2>9 DEF Inv
<1>10. CASE Return
  <2>1. /\ pc = "build" /\ frames # << >> /\ frames' = Front(frames)
        /\ pc' \in {IF Len(frames) = 1 THEN "collect" ELSE "build"}
                   \cup (IF tree[Top.at].id = NullId THEN {"double_free"} ELSE {})
        /\ UNCHANGED <<root, tree, server, link, disturbed>>
    BY <1>10 DEF Return, Building
  <2>2. Stack(frames', tree) /\ (Len(frames) = 1 => frames' = << >>)
    BY <1>t, <2>1, Pop
  <2>3. pc' \in {"collect", "build", "double_free"} /\ (pc' = "collect" => Len(frames) = 1)
    BY <2>1
  <2>4. QED
    BY <1>t, <2>1, <2>2, <2>3 DEF Inv
<1>11. CASE Collect
  BY <1>11, <1>t DEF Collect, Inv
<1>12. CASE Release
  BY <1>12, <1>t, <1>e DEF Release, Inv
<1>13. CASE Change
  BY <1>13, <1>t DEF Change, Inv
<1>14. CASE UNCHANGED vars
  BY <1>14, <1>t DEF vars, Inv
<1>15. QED
  BY <1>1, <1>2, <1>3, <1>4, <1>5, <1>6, <1>7, <1>8, <1>9, <1>10, <1>11, <1>12, <1>13, <1>14
  DEF Next, Program

\* The invariant holds in every reachable state.
LEMMA Invariant == Spec => []Inv
BY InvInit, InvStep, PTL DEF Spec

-----------------------------------------------------------------------------
(* Theorems. *)

\* Only reads that contradict each other leave the walk without a root
\* (mirua_module.c:2514), whatever the server holds.
THEOREM LostOnlyByChange == Spec => []LostNeedsChange
<1>1. Inv => LostNeedsChange
  BY DEF Inv
<1>2. QED
  BY <1>1, Invariant, PTL

\* With room for more calls than the server has nodes, the walk overflows the
\* stack only on a cycle (mirua_module.c:2493): by the pigeonhole principle two
\* of the calls on a full stack are for one node, and every call between them
\* was made along a reference.
THEOREM OverflowOnlyOnCycles == Spec => []OverflowNeedsCycle
<1>1. Inv => OverflowNeedsCycle
  <2> SUFFICES ASSUME Inv, pc = "stack_overflow"
               PROVE  \E i, j \in DOMAIN frames :
                         /\ i < j
                         /\ frames[i].node = frames[j].node
                         /\ \A k \in i .. j - 1 : Linked(frames[k].node, frames[k + 1].node)
    BY DEF OverflowNeedsCycle
  <2> DEFINE Calls == 1 .. MaxDepth
             f == [k \in Calls |-> frames[k].node]
  <2>1. /\ frames \in Seq(Frame) /\ Len(frames) = MaxDepth
        /\ DOMAIN frames = Calls
        /\ \A k \in 1 .. MaxDepth - 1 : Linked(frames[k].node, frames[k + 1].node)
    BY DEF Inv, Stack
  <2>2. IsFiniteSet(Calls) /\ Cardinality(Calls) = MaxDepth
    <3>1. MaxDepth \in Nat \ {0}
      BY TreeAssumption, FS_CardinalityType
    <3>2. /\ IsFiniteSet(1 .. MaxDepth)
          /\ Cardinality(1 .. MaxDepth) = IF 1 > MaxDepth THEN 0 ELSE MaxDepth - 1 + 1
      BY <3>1, FS_Interval
    <3>3. QED
      BY <3>1, <3>2
  <2>3. f \in [Calls -> Node]
    <3>1. \A k \in Calls : frames[k] \in Frame
      BY <2>1
    <3>2. \A k \in Calls : frames[k].node \in Node
      BY <3>1 DEF Frame
    <3>3. QED
      BY <3>2
  <2>4. \E x, y \in Calls : x # y /\ f[x] = f[y]
    <3> HIDE DEF Calls, f
    <3>1. Cardinality(Node) < Cardinality(Calls)
      BY <2>2, TreeAssumption, FS_CardinalityType
    <3>2. QED
      BY <2>2, <2>3, <3>1, TreeAssumption, FS_PigeonHole
  <2>5. PICK x, y \in Calls : x # y /\ f[x] = f[y]
    BY <2>4
  <2>6. PICK i, j \in Calls : i < j /\ frames[i].node = frames[j].node
    <3>1. frames[x].node = frames[y].node /\ (x < y \/ y < x)
      BY <2>5, TreeAssumption
    <3>2. QED
      BY <2>5, <3>1
  <2>7. \A k \in i .. j - 1 : Linked(frames[k].node, frames[k + 1].node)
    BY <2>1, <2>6, TreeAssumption
  <2>8. QED
    BY <2>1, <2>6, <2>7
<1>2. QED
  BY <1>1, Invariant, PTL

-----------------------------------------------------------------------------
(* Induction, and lists of lists put one behind the other. *)

\* A set of numbers that holds 0 and, with n, n + 1 holds them all.
LEMMA Induction ==
    ASSUME NEW T, 0 \in T, \A n \in Nat : n \in T => n + 1 \in T
    PROVE  Nat \subseteq T
<1> DEFINE R == OpToRel(<, Nat)
           Others == Nat \ T
<1>1. IsWellFoundedOn(R, Nat)
  BY NatLessThanWellFounded
<1>2. \A x, y \in Nat : y < x => <<y, x>> \in R
  BY Zenon DEF OpToRel
<1> HIDE DEF R
<1>3. SUFFICES ASSUME Others # {} PROVE FALSE
  OBVIOUS
<1>4. PICK x \in Others : \A y \in Others : ~(<<y, x>> \in R)
  BY <1>1, <1>3, WFMin
<1>5. x \in Nat /\ x # 0 /\ x - 1 \in Nat /\ (x - 1) + 1 = x
  OBVIOUS
<1>6. x - 1 \in Others
  BY <1>5
<1>7. x - 1 < x
  BY <1>5
<1>8. QED
  BY <1>2, <1>4, <1>5, <1>6, <1>7

\* The function by which FlattenSeq is defined.
Flattens(f, s) == f = [i \in 1 .. Len(s) |-> IF i = 1 THEN s[i] ELSE f[i - 1] \o s[i]]
Flattening(s) == CHOOSE f : Flattens(f, s)

\* That function exists, and FlattenSeq is its last value.
LEMMA FlattenFunction ==
    ASSUME NEW S, NEW s \in Seq(Seq(S))
    PROVE  /\ \A i \in 1 .. Len(s) :
                 /\ Flattening(s)[i] \in Seq(S)
                 /\ Flattening(s)[i] = IF i = 1 THEN s[i] ELSE Flattening(s)[i - 1] \o s[i]
           /\ FlattenSeq(s) = IF Len(s) = 0 THEN s ELSE Flattening(s)[Len(s)]
<1> DEFINE Partial(f, n) == /\ f \in [1 .. n -> Seq(S)]
                         /\ \A i \in 1 .. n : f[i] = IF i = 1 THEN s[i] ELSE f[i - 1] \o s[i]
           T == {n \in Nat : n <= Len(s) => \E f : Partial(f, n)}
<1>0. Len(s) \in Nat /\ \A i \in 1 .. Len(s) : s[i] \in Seq(S)
  OBVIOUS
<1>1. 0 \in T
  <2> DEFINE f == [i \in {} |-> s]
  <2>1. 1 .. 0 = {} /\ f \in [{} -> Seq(S)]
    <3>1. \A i \in {} : s \in Seq(S)
      OBVIOUS
    <3>2. f \in [{} -> Seq(S)]
      BY <3>1, Zenon
    <3>3. QED  BY <3>2
  <2>2. Partial(f, 0)
    BY <2>1
  <2>3. QED  BY <2>2
<1>2. ASSUME NEW n \in Nat, n \in T PROVE n + 1 \in T
  <2>1. SUFFICES ASSUME n + 1 <= Len(s) PROVE \E f : Partial(f, n + 1)
    <3> HIDE DEF Partial
    <3>1. QED  OBVIOUS
  <2>2. PICK g : Partial(g, n)
    <3> HIDE DEF Partial
    <3>1. n <= Len(s)
      BY <1>0, <2>1
    <3>2. QED  BY <1>2, <3>1
  <2> DEFINE f == [i \in 1 .. n + 1 |->
                      IF i <= n THEN g[i] ELSE IF i = 1 THEN s[i] ELSE g[i - 1] \o s[i]]
  <2>3. ASSUME NEW i \in 1 .. n + 1
        PROVE  f[i] \in Seq(S) /\ f[i] = IF i = 1 THEN s[i] ELSE f[i - 1] \o s[i]
    <3>1. s[i] \in Seq(S)
      BY <1>0, <2>1
    <3>2. i # 1 => i - 1 \in 1 .. n /\ i - 1 \in 1 .. n + 1 /\ f[i - 1] = g[i - 1]
      OBVIOUS
    <3>3. CASE i <= n
      <4>1. i \in 1 .. n /\ f[i] = g[i]
        BY <3>3
      <4>2. f[i] \in Seq(S)
        BY <2>2, <4>1
      <4>3. QED  BY <2>2, <3>2, <4>1, <4>2
    <3>4. CASE ~(i <= n)
      <4>1. f[i] = IF i = 1 THEN s[i] ELSE g[i - 1] \o s[i]
        BY <3>4
      <4>2. i # 1 => g[i - 1] \in Seq(S) /\ g[i - 1] \o s[i] \in Seq(S)
        BY <2>2, <3>1, <3>2, ConcatProperties
      <4>3. f[i] \in Seq(S)
        BY <3>1, <4>1, <4>2
      <4>4. QED  BY <3>2, <4>1, <4>3
    <3>5. QED  BY <3>3, <3>4
  <2>4. f \in [1 .. n + 1 -> Seq(S)]
    BY <2>3
  <2> HIDE DEF f
  <2>5. Partial(f, n + 1)
    BY <2>3, <2>4
  <2>6. QED  BY <2>5
<1>3. PICK f : Partial(f, Len(s))
  <2> HIDE DEF T, Partial
  <2>1. Len(s) \in T
    BY <1>0, <1>1, <1>2, Induction
  <2>2. QED  BY <1>0, <2>1 DEF T
<1>4. Flattens(f, s)
  <2>1. f = [i \in 1 .. Len(s) |-> f[i]]
    BY <1>3
  <2>2. \A i \in 1 .. Len(s) : f[i] = IF i = 1 THEN s[i] ELSE f[i - 1] \o s[i]
    BY <1>3
  <2>3. QED  BY <2>1, <2>2 DEF Flattens
<1>5. Flattens(Flattening(s), s)
  BY <1>4 DEF Flattening
<1> HIDE DEF Partial, T
<1>6. \A i \in 1 .. Len(s) :
         Flattening(s)[i] = IF i = 1 THEN s[i] ELSE Flattening(s)[i - 1] \o s[i]
  BY <1>5 DEF Flattens
<1> DEFINE U == {n \in Nat : n \in 1 .. Len(s) => Flattening(s)[n] \in Seq(S)}
<1>7. 0 \in U
  OBVIOUS
<1>8. ASSUME NEW n \in Nat, n \in U PROVE n + 1 \in U
  <2>1. SUFFICES ASSUME n + 1 \in 1 .. Len(s) PROVE Flattening(s)[n + 1] \in Seq(S)
    OBVIOUS
  <2>2. n + 1 # 1 => n \in 1 .. Len(s) /\ Flattening(s)[n] \in Seq(S)
    BY <1>8, <2>1
  <2>3. Flattening(s)[n + 1] =
            IF n + 1 = 1 THEN s[n + 1] ELSE Flattening(s)[n] \o s[n + 1]
    <3>1. (n + 1) - 1 = n
      OBVIOUS
    <3>2. QED  BY <1>6, <2>1, <3>1
  <2>4. s[n + 1] \in Seq(S)
    BY <1>0, <2>1
  <2>5. QED  BY <2>2, <2>3, <2>4, ConcatProperties
<1>9. Nat \subseteq U
  <2> HIDE DEF U
  <2>1. QED  BY <1>7, <1>8, Induction
<1>10. FlattenSeq(s) = IF Len(s) = 0 THEN s ELSE Flattening(s)[Len(s)]
  BY DEF FlattenSeq, Flattening, Flattens
<1>11. \A i \in 1 .. Len(s) : i \in U
  BY <1>0, <1>9
<1>12. QED  BY <1>6, <1>10, <1>11

\* FlattenSeq, from the front to the last.
LEMMA Flatten ==
    ASSUME NEW S
    PROVE  /\ FlattenSeq(<< >>) = << >>
           /\ \A s \in Seq(Seq(S)) : FlattenSeq(s) \in Seq(S)
           /\ \A s \in Seq(Seq(S)), e \in Seq(S) :
                 FlattenSeq(Append(s, e)) = FlattenSeq(s) \o e
<1>1. FlattenSeq(<< >>) = << >>
  BY DEF FlattenSeq
<1>2. ASSUME NEW s \in Seq(Seq(S)) PROVE FlattenSeq(s) \in Seq(S)
  <2>1. Len(s) \in Nat /\ (Len(s) = 0 => s = << >>)
    BY EmptySeq
  <2>2. QED  BY <1>1, <2>1, FlattenFunction
<1>3. ASSUME NEW s \in Seq(Seq(S)), NEW e \in Seq(S)
      PROVE  FlattenSeq(Append(s, e)) = FlattenSeq(s) \o e
  <2> DEFINE f == Flattening(s)
             t == Append(s, e)
             g == Flattening(t)
             T == {n \in Nat : n \in 1 .. Len(s) => g[n] = f[n]}
             n == Len(s)
  <2>1. \A i \in 1 .. n : f[i] = IF i = 1 THEN s[i] ELSE f[i - 1] \o s[i]
    BY FlattenFunction
  <2>2. /\ t \in Seq(Seq(S)) /\ Len(t) = n + 1 /\ t[n + 1] = e /\ n \in Nat
        /\ \A i \in 1 .. n : t[i] = s[i]
    BY AppendProperties
  <2>3. \A i \in 1 .. n + 1 : g[i] = IF i = 1 THEN t[i] ELSE g[i - 1] \o t[i]
    <3>1. \A i \in 1 .. Len(t) : g[i] = IF i = 1 THEN t[i] ELSE g[i - 1] \o t[i]
      <4> HIDE DEF t
      <4>1. QED  BY <2>2, FlattenFunction
    <3>2. QED  BY <2>2, <3>1
  <2>4. 0 \in T
    OBVIOUS
  <2>a. FlattenSeq(t) = g[n + 1]
    <3>1. FlattenSeq(t) = IF Len(t) = 0 THEN t ELSE g[Len(t)]
      <4> HIDE DEF t
      <4>1. QED  BY <2>2, FlattenFunction
    <3>2. QED  BY <2>2, <3>1
  <2>b. FlattenSeq(s) = IF n = 0 THEN s ELSE f[n]
    BY FlattenFunction
  <2> HIDE DEF f, g, t, n
  <2>5. ASSUME NEW m \in Nat, m \in T PROVE m + 1 \in T
    <3>1. SUFFICES ASSUME m + 1 \in 1 .. n PROVE g[m + 1] = f[m + 1]
      BY DEF n
    <3>2. m + 1 # 1 => m \in 1 .. n /\ g[m] = f[m]
      <4>1. m + 1 # 1 => m \in 1 .. n
        BY <2>2, <3>1
      <4>2. QED  BY <2>5, <4>1 DEF n
    <3>3. m + 1 \in 1 .. n + 1 /\ t[m + 1] = s[m + 1]
      BY <2>2, <3>1
    <3>4. (m + 1) - 1 = m
      OBVIOUS
    <3>5. QED  BY <2>1, <2>3, <3>1, <3>2, <3>3, <3>4
  <2> HIDE DEF T
  <2>6. Nat \subseteq T
    BY <2>4, <2>5, Induction
  <2>7. n + 1 \in 1 .. n + 1 /\ (n + 1) - 1 = n
    BY <2>2
  <2>8. g[n + 1] = IF n + 1 = 1 THEN e ELSE g[n] \o e
    BY <2>2, <2>3, <2>7
  <2>9. CASE n = 0
    <3>1. s = << >>
      BY <2>9, EmptySeq DEF n
    <3>2. << >> \o e = e
      BY ConcatEmptySeq
    <3>3. QED  BY <1>1, <2>8, <2>9, <2>a, <3>1, <3>2 DEF t
  <2>10. CASE n # 0
    <3>1. n \in 1 .. n /\ n + 1 # 1
      BY <2>2, <2>10
    <3>2. g[n] = f[n]
      BY <2>2, <2>6, <3>1 DEF T, n
    <3>3. QED  BY <2>8, <2>a, <2>b, <2>10, <3>1, <3>2 DEF t
  <2>11. QED  BY <2>9, <2>10
<1>4. QED  BY <1>1, <1>2, <1>3

\* One list more behind the others leaves the head what it is.
LEMMA HeadOfAppend ==
    ASSUME NEW S, NEW p \in Seq(Seq(S)), NEW e \in Seq(S), p # << >>,
           FlattenSeq(p) = Head(p) \o FlattenSeq(Tail(p))
    PROVE  FlattenSeq(Append(p, e)) = Head(Append(p, e)) \o FlattenSeq(Tail(Append(p, e)))
<1>1. Head(Append(p, e)) = Head(p) /\ Tail(Append(p, e)) = Append(Tail(p), e)
  BY HeadTailAppend
<1>2. Head(p) \in Seq(S) /\ Tail(p) \in Seq(Seq(S))
  BY HeadTailProperties
<1>3. PICK h, t, q : h = Head(p) /\ q = Tail(p) /\ t = FlattenSeq(Tail(p))
  OBVIOUS
<1>4. h \in Seq(S) /\ q \in Seq(Seq(S)) /\ t \in Seq(S) /\ e \in Seq(S)
  BY <1>2, <1>3, Flatten
<1>5. FlattenSeq(Append(p, e)) = (h \o t) \o e
  BY <1>3, Flatten
<1>6. FlattenSeq(Append(q, e)) = t \o e
  BY <1>3, <1>4, Flatten
<1>7. (h \o t) \o e = h \o (t \o e)
  <2>1. h \in Seq(S) /\ t \in Seq(S) /\ e \in Seq(S)
    BY <1>4
  <2>2. QED  BY ONLY <2>1, ConcatAssociative, Z3
<1>8. QED  BY <1>1, <1>3, <1>5, <1>6, <1>7

\* Of a single list, FlattenSeq is that list.
LEMMA HeadOfOne ==
    ASSUME NEW S, NEW s \in Seq(Seq(S)), Len(s) = 1
    PROVE  FlattenSeq(s) = Head(s) \o FlattenSeq(Tail(s))
<1>1. s[1] \in Seq(S) /\ s # << >>
  <2>1. 1 \in 1 .. Len(s)
    OBVIOUS
  <2>2. s[1] \in Seq(S)
    BY <2>1, ElementOfSeq
  <2>3. s # << >>
    OBVIOUS
  <2>4. QED  BY <2>2, <2>3
<1>2. Tail(s) = << >> /\ Head(s) = s[1] /\ s = Append(<< >>, s[1])
  <2>1. Tail(s) \in Seq(Seq(S)) /\ Len(Tail(s)) = 0
    BY <1>1, HeadTailProperties
  <2>2. Tail(s) = << >>
    BY <2>1, EmptySeq
  <2>3. s = Append(<< >>, s[1])
    BY <1>1
  <2>4. QED  BY <2>2, <2>3
<1>3. << >> \in Seq(Seq(S)) /\ FlattenSeq(<< >>) = << >>
  BY Flatten
<1>4. FlattenSeq(Append(<< >>, s[1])) = << >> \o s[1]
  BY <1>1, <1>3, Flatten
<1>5. << >> \o s[1] = s[1] /\ s[1] \o << >> = s[1]
  BY <1>1, ConcatEmptySeq
<1>6. QED  BY <1>2, <1>3, <1>4, <1>5

\* FlattenSeq, from the head on.
LEMMA FlattenHead ==
    ASSUME NEW S
    PROVE  \A s \in Seq(Seq(S)) : s # << >> => FlattenSeq(s) = Head(s) \o FlattenSeq(Tail(s))
<1> DEFINE T == {n \in Nat : \A s \in Seq(Seq(S)) : Len(s) = n + 1 =>
                    FlattenSeq(s) = Head(s) \o FlattenSeq(Tail(s))}
<1>1. 0 \in T
  BY HeadOfOne
<1>2. ASSUME NEW n \in Nat, n \in T PROVE n + 1 \in T
  <2>1. SUFFICES ASSUME NEW s \in Seq(Seq(S)), Len(s) = n + 2
                 PROVE  FlattenSeq(s) = Head(s) \o FlattenSeq(Tail(s))
    OBVIOUS
  <2>2. PICK p \in Seq(Seq(S)), e \in Seq(S) : s = Append(p, e)
    <3>1. s # << >>
      BY <2>1
    <3>2. QED  BY <3>1, SequenceEmptyOrAppend
  <2>3. Len(p) = n + 1 /\ p # << >>
    BY <2>1, <2>2
  <2>4. FlattenSeq(p) = Head(p) \o FlattenSeq(Tail(p))
    BY <1>2, <2>3
  <2>5. QED  BY <2>2, <2>3, <2>4, HeadOfAppend
<1> HIDE DEF T
<1>3. Nat \subseteq T
  BY <1>1, <1>2, Induction
<1>4. SUFFICES ASSUME NEW s \in Seq(Seq(S)), s # << >>
               PROVE  FlattenSeq(s) = Head(s) \o FlattenSeq(Tail(s))
  OBVIOUS
<1>5. Len(s) \in Nat \ {0} /\ Len(s) - 1 \in Nat /\ (Len(s) - 1) + 1 = Len(s)
  BY <1>4, EmptySeq
<1>6. QED  BY <1>3, <1>5 DEF T

-----------------------------------------------------------------------------
(* What is hidden and what is shown of a tree. *)

\* Node k is an array of plain values.
Plain(tr, k) == tr[k].type = "array" /\ ~tr[k].structure

ParentsFirst(tr) == \A k \in 1 .. Len(tr) : tr[k].parent \in 0 .. k - 1

\* h says of each node whether it is below an array of plain values.
Covers(h, tr) ==
    /\ h \in [1 .. Len(tr) -> BOOLEAN]
    /\ \A k \in 1 .. Len(tr) :
          h[k] = (tr[k].parent # 0 /\ (Plain(tr, tr[k].parent) \/ h[tr[k].parent]))

\* The recursion of mirua_tree_collect_values from parent to child ends.
LEMMA HiddenCovers ==
    ASSUME tree \in Seq(TreeNode), ParentsFirst(tree)
    PROVE  Covers(Hidden, tree)
<1> DEFINE Hides(h, k) ==
               tree[k].parent # 0 /\ (Plain(tree, tree[k].parent) \/ h[tree[k].parent])
           Shades(h, n) == /\ h \in [1 .. n -> BOOLEAN]
                         /\ \A k \in 1 .. n : h[k] = Hides(h, k)
           T == {n \in Nat : n <= Len(tree) => \E h : Shades(h, n)}
<1>0. Len(tree) \in Nat /\ DOMAIN tree = 1 .. Len(tree)
  OBVIOUS
<1>1. 0 \in T
  <2> DEFINE h == [k \in {} |-> TRUE]
  <2>1. 1 .. 0 = {} /\ h \in [{} -> BOOLEAN]
    OBVIOUS
  <2>2. Shades(h, 0)
    BY <2>1
  <2>3. QED  BY <2>2
<1>2. ASSUME NEW n \in Nat, n \in T PROVE n + 1 \in T
  <2>1. SUFFICES ASSUME n + 1 <= Len(tree) PROVE \E h : Shades(h, n + 1)
    <3> HIDE DEF Shades
    <3>1. QED  OBVIOUS
  <2>2. PICK g : Shades(g, n)
    <3> HIDE DEF Shades
    <3>1. n <= Len(tree)
      BY <1>0, <2>1
    <3>2. QED  BY <1>2, <3>1
  <2> DEFINE h == [k \in 1 .. n + 1 |-> IF k <= n THEN g[k] ELSE Hides(g, k)]
  <2>3. h \in [1 .. n + 1 -> BOOLEAN]
    <3>1. ASSUME NEW k \in 1 .. n + 1
          PROVE  (IF k <= n THEN g[k] ELSE Hides(g, k)) \in BOOLEAN
      <4>1. k <= n => g[k] \in BOOLEAN
        BY <2>2
      <4>2. Hides(g, k) \in BOOLEAN
        OBVIOUS
      <4>3. QED  BY <4>1, <4>2
    <3>2. QED  BY <3>1
  <2>4. ASSUME NEW k \in 1 .. n + 1 PROVE h[k] = Hides(h, k)
    <3>1. tree[k].parent \in 0 .. k - 1
      BY <2>1 DEF ParentsFirst
    <3>2. tree[k].parent # 0 => h[tree[k].parent] = g[tree[k].parent]
      BY <3>1
    <3>3. h[k] = Hides(g, k)
      BY <2>2
    <3>4. QED  BY <3>2, <3>3
  <2>5. Shades(h, n + 1)
    BY <2>3, <2>4
  <2>6. QED  BY <2>5
<1>3. PICK h : Shades(h, Len(tree))
  <2> HIDE DEF T, Shades
  <2>1. Len(tree) \in T
    BY <1>0, <1>1, <1>2, Induction
  <2>2. QED  BY <1>0, <2>1 DEF T
<1>4. h = [k \in DOMAIN tree |-> Hides(h, k)]
  <2>1. h = [k \in DOMAIN tree |-> h[k]]
    BY <1>0, <1>3
  <2>2. QED  BY <1>0, <1>3, <2>1
<1>5. Hidden = [k \in DOMAIN tree |-> Hides(Hidden, k)]
  <2>1. Hidden = CHOOSE f : f = [k \in DOMAIN tree |-> Hides(f, k)]
    BY DEF Hidden, IsPlainArray, Plain
  <2>2. QED  BY <1>4, <2>1
<1>6. QED  BY <1>0, <1>5 DEF Covers

Ids == Node \cup {NullId}

\* What is collected of each node, when h says which are hidden.
Shown(h, tr) ==
    [k \in 1 .. Len(tr) |->
        IF ~h[k] /\ (tr[k].type = "value" \/ Plain(tr, k)) THEN <<tr[k].id>> ELSE << >>]

\* Collect appends what the tree shows.
LEMMA CollectShows ==
    ASSUME tree \in Seq(TreeNode), Collect
    PROVE  collected' = FlattenSeq(Shown(Hidden, tree))
<1>1. DOMAIN tree = 1 .. Len(tree)
  OBVIOUS
<1>2. QED  BY <1>1 DEF Collect, Shown, Plain, IsPlainArray

\* Each node shows a list of ids.
LEMMA ShownType ==
    ASSUME NEW tr \in Seq(TreeNode), NEW h
    PROVE  Shown(h, tr) \in Seq(Seq(Ids))
<1>1. ASSUME NEW k \in 1 .. Len(tr)
      PROVE  (IF ~h[k] /\ (tr[k].type = "value" \/ Plain(tr, k))
                THEN <<tr[k].id>> ELSE << >>) \in Seq(Ids)
  <2>1. tr[k].id \in Ids
    <3>1. tr[k] \in TreeNode
      OBVIOUS
    <3>2. QED  BY <3>1 DEF TreeNode, Ids
  <2>2. <<tr[k].id>> \in Seq(Ids) /\ << >> \in Seq(Ids)
    BY <2>1
  <2>3. QED  BY <2>2
<1>2. Len(tr) \in Nat
  OBVIOUS
<1>3. QED  BY <1>1, <1>2, IsASeq DEF Shown

\* The rest of the types.
Rest ==
    /\ range \in BOOLEAN
    /\ collected \in Seq(Ids)
    /\ walks \in 0 .. MaxWalks
    /\ changes \in 0 .. MaxChanges

\* Every step keeps these types.
LEMMA RestStep == Inv /\ Rest /\ [Next]_vars => Rest'
<1> SUFFICES ASSUME Inv, Rest, [Next]_vars PROVE Rest'
  OBVIOUS
<1>1. CASE Explore
  BY <1>1, TreeAssumption DEF Explore, Rest
<1>2. CASE Collect
  <2>1. tree \in Seq(TreeNode)
    BY DEF Inv
  <2>2. collected' \in Seq(Ids)
    BY <1>2, <2>1, CollectShows, ShownType, Flatten
  <2>3. QED  BY <1>2, <2>2 DEF Collect, Rest, world
<1>3. CASE Change
  BY <1>3, TreeAssumption DEF Change, Rest
<1>4. CASE IsStructure \/ ReadName \/ ReadValue \/ ReadType \/ AddPlainElements
           \/ AddStructureElement \/ Browse \/ AddField \/ Return \/ Release
  BY <1>4 DEF IsStructure, ReadName, ReadValue, ReadType, AddPlainElements,
              AddStructureElement, Browse, AddField, Return, Release, Rest, world
<1>5. CASE UNCHANGED vars
  BY <1>5 DEF vars, Rest
<1>6. QED
  BY <1>1, <1>2, <1>3, <1>4, <1>5 DEF Next, Program

\* Every variable keeps its type, whatever the servers hold.
THEOREM TypeCorrect == Spec => []TypeOK
<1>1. Init => Rest
  <2>1. << >> \in Seq(Ids)
    OBVIOUS
  <2>2. 0 \in 0 .. MaxWalks /\ 0 \in 0 .. MaxChanges
    BY TreeAssumption
  <2>3. QED  BY <2>1, <2>2 DEF Init, Rest
<1>2. Inv /\ Rest => TypeOK
  BY DEF Inv, Rest, TypeOK, Stack, Ids
<1>3. Spec => []Rest
  BY <1>1, RestStep, Invariant, PTL DEF Spec
<1>4. QED
  BY <1>2, <1>3, Invariant, PTL

-----------------------------------------------------------------------------
(* Where the nodes without an id are. *)

\* A node without an id that is no structure is an element of an array of plain
\* values, or of a root that turned into one.
Leaf(tr, k) ==
    tr[k].id = NullId /\ tr[k].type # "structure" =>
        /\ tr[k].type = "value" /\ tr[k].parent # 0
        /\ ~tr[tr[k].parent].structure
        /\ tr[k].parent = 1 \/ tr[tr[k].parent].type = "array"

\* A call with elements to go through is for an array, or for the root.
Fed(f, tr) ==
    f.elements # << >> /\ ~tr[f.at].structure => f.at = 1 \/ tr[f.at].type = "array"

Placed ==
    /\ ParentsFirst(tree)
    /\ \A k \in 1 .. Len(tree) : Leaf(tree, k)
    /\ \A i \in 1 .. Len(frames) : Fed(frames[i], tree)
    /\ tree # << >> /\ ~disturbed => tree[1].structure

Extends(tr, tr2) ==
    /\ Len(tr) \in Nat /\ Len(tr2) \in Nat /\ Len(tr) <= Len(tr2)
    /\ \A k \in 1 .. Len(tr) : tr2[k] = tr[k]

\* Nodes are added below nodes that are there.
LEMMA Added ==
    ASSUME Inv, Placed, tree # << >>, disturbed' = disturbed, NEW tr2 \in Seq(TreeNode),
           tree' = tr2, Extends(tree, tr2),
           \A k \in Len(tree) + 1 .. Len(tr2) :
              /\ tr2[k].parent \in 1 .. Len(tree)
              /\ Leaf(tr2, k),
           \A i \in 1 .. Len(frames') : Fed(frames'[i], tr2)
    PROVE  Placed'
<1>1. Len(tree) \in Nat /\ Len(tr2) \in Nat /\ tree \in Seq(TreeNode)
  BY DEF Inv, Extends
<1>2. ASSUME NEW k \in 1 .. Len(tr2)
      PROVE  tr2[k].parent \in 0 .. k - 1 /\ Leaf(tr2, k)
  <2>1. CASE k \in 1 .. Len(tree)
    <3>1. tr2[k] = tree[k] /\ tree[k].parent \in 0 .. k - 1 /\ Leaf(tree, k)
      BY <2>1 DEF Extends, Placed, ParentsFirst
    <3>2. tree[k].parent # 0 => tr2[tree[k].parent] = tree[tree[k].parent]
      <4>1. tree[k].parent # 0 => tree[k].parent \in 1 .. Len(tree)
        BY <1>1, <2>1, <3>1
      <4>2. QED  BY <4>1 DEF Extends
    <3>3. QED  BY <3>1, <3>2 DEF Leaf
  <2>2. CASE k \in Len(tree) + 1 .. Len(tr2)
    <3>1. tr2[k].parent \in 1 .. Len(tree) /\ Leaf(tr2, k)
      BY <2>2
    <3>2. QED  BY <1>1, <2>2, <3>1
  <2>3. QED  BY <1>1, <2>1, <2>2
<1>3. ParentsFirst(tr2) /\ \A k \in 1 .. Len(tr2) : Leaf(tr2, k)
  BY <1>2 DEF ParentsFirst
<1>4. tr2 # << >> /\ ~disturbed => tr2[1].structure
  <2>1. Len(tree) # 0
    BY <1>1
  <2>2. tr2[1] = tree[1]
    BY <1>1, <2>1 DEF Extends
  <2>3. QED  BY <2>2 DEF Placed
<1>5. QED  BY <1>3, <1>4 DEF Placed

\* The calls that do not change are for nodes that are there.
LEMMA FedBelow ==
    ASSUME Inv, Placed, frames # << >>, NEW caller \in Frame, Fed(caller, tree),
           caller.at = Top.at,
           NEW tr2, Extends(tree, tr2)
    PROVE  /\ SetTop(caller) \in Seq(Frame) /\ Len(SetTop(caller)) = Len(frames)
           /\ \A i \in 1 .. Len(frames) : Fed(SetTop(caller)[i], tr2)
<1>1. frames \in Seq(Frame) /\ DOMAIN frames = 1 .. Len(frames) /\ Len(frames) \in Nat
  BY DEF Inv, Stack
<1>2. \A i \in 1 .. Len(frames) :
         SetTop(caller)[i] = IF i = Len(frames) THEN caller ELSE frames[i]
  BY <1>1 DEF SetTop
<1>3. ASSUME NEW i \in 1 .. Len(frames)
      PROVE  Fed(SetTop(caller)[i], tr2)
  <2>1. Good(frames[i], tree) /\ Fed(frames[i], tree)
    BY DEF Inv, Stack, Placed
  <2>2. tr2[frames[i].at] = tree[frames[i].at]
    BY <2>1 DEF Good, Extends
  <2>3. CASE i = Len(frames)
    <3>1. SetTop(caller)[i] = caller /\ caller.at = frames[i].at
      BY <1>2, <2>3 DEF Top
    <3>2. QED  BY <2>2, <3>1 DEF Fed
  <2>4. CASE i # Len(frames)
    <3>1. SetTop(caller)[i] = frames[i]
      BY <1>2, <2>4
    <3>2. QED  BY <2>1, <2>2, <3>1 DEF Fed
  <2>5. QED  BY <2>3, <2>4
<1>4. SetTop(caller) \in Seq(Frame) /\ Len(SetTop(caller)) = Len(frames)
  BY <1>1 DEF SetTop
<1>5. QED  BY <1>3, <1>4

\* add_child and the call for the child.
LEMMA PlacedCall ==
    ASSUME Inv, Placed, Building, disturbed' = disturbed,
           NEW child \in TreeNode, NEW caller \in Frame, NEW node \in Node,
           NEW elements \in Seq(Node \cup {NoType}),
           Fed(caller, tree), caller.at = Top.at,
           child.parent = Top.at,
           child.id = NullId => child.type = "structure",
           elements # << >> /\ ~child.structure => child.type = "array",
           AddAndCall(child, caller, node, elements)
    PROVE  Placed'
<1> DEFINE tr2 == Append(tree, child)
           n == Len(tree)
<1>1. /\ tree \in Seq(TreeNode) /\ frames \in Seq(Frame) /\ Good(Top, tree)
      /\ frames # << >> /\ n \in Nat
  BY TopFrame DEF Building, Inv
<1>2. /\ tr2 \in Seq(TreeNode) /\ Len(tr2) = n + 1 /\ tr2[n + 1] = child
      /\ \A k \in 1 .. n : tr2[k] = tree[k]
      /\ tree' = tr2
  BY <1>1 DEF AddAndCall
<1> HIDE DEF tr2
<1>3. Extends(tree, tr2)
  BY <1>1, <1>2 DEF Extends
<1>4. Top.at \in 1 .. n /\ tree # << >>
  BY <1>1 DEF Good
<1>5. \A k \in n + 1 .. Len(tr2) : tr2[k].parent \in 1 .. n /\ Leaf(tr2, k)
  BY <1>1, <1>2, <1>4 DEF Leaf
<1>6. ASSUME NEW i \in 1 .. Len(frames') PROVE Fed(frames'[i], tr2)
  <2>1. CASE Len(frames) < MaxDepth
    <3> DEFINE fs == SetTop(caller)
               f == Call(n + 1, node, elements)
    <3>1. frames' = Append(fs, f)
      BY <2>1 DEF AddAndCall
    <3>2. /\ fs \in Seq(Frame) /\ Len(fs) = Len(frames)
          /\ \A j \in 1 .. Len(frames) : Fed(fs[j], tr2)
      BY <1>1, <1>3, FedBelow
    <3>3. f \in Frame /\ f.at = n + 1 /\ f.elements = elements
      BY <1>1 DEF Call, Frame
    <3>4. Fed(f, tr2)
      BY <1>2, <3>3 DEF Fed
    <3> HIDE DEF fs, f
    <3>5. /\ Len(frames') = Len(fs) + 1 /\ frames'[Len(fs) + 1] = f
          /\ \A j \in 1 .. Len(fs) : frames'[j] = fs[j]
      BY <3>1, <3>2, <3>3
    <3>6. Len(fs) \in Nat /\ (i \in 1 .. Len(fs) \/ i = Len(fs) + 1)
      BY <3>2, <3>5
    <3>7. QED  BY <3>2, <3>4, <3>5, <3>6
  <2>2. CASE ~(Len(frames) < MaxDepth)
    <3>1. frames' = frames
      BY <2>2 DEF AddAndCall
    <3>2. Good(frames[i], tree) /\ Fed(frames[i], tree)
      BY <1>6, <3>1 DEF Inv, Stack, Placed
    <3>3. tr2[frames[i].at] = tree[frames[i].at]
      BY <1>2, <3>2 DEF Good
    <3>4. QED  BY <3>1, <3>2, <3>3 DEF Fed
  <2>3. QED  BY <2>1, <2>2
<1>7. QED  BY <1>2, <1>3, <1>4, <1>5, <1>6, Added

\* The call on top goes on, the tree stays as it is.
LEMMA PlacedTop ==
    ASSUME Inv, Placed, Building, NEW caller \in Frame, Fed(caller, tree),
           caller.at = Top.at, frames' = SetTop(caller), UNCHANGED <<tree, disturbed>>
    PROVE  Placed'
<1>1. tree \in Seq(TreeNode) /\ Good(Top, tree) /\ frames # << >>
  BY TopFrame DEF Building, Inv
<1>2. Extends(tree, tree) /\ tree # << >>
  BY <1>1 DEF Extends, Good
<1>3. \A i \in 1 .. Len(frames') : Fed(frames'[i], tree)
  BY <1>1, <1>2, FedBelow
<1>4. \A k \in Len(tree) + 1 .. Len(tree) : tree[k].parent \in 1 .. Len(tree) /\ Leaf(tree, k)
  BY <1>1
<1>5. QED  BY <1>1, <1>2, <1>3, <1>4, Added

\* A field with elements is an array.
LEMMA ArrayField ==
    ASSUME NEW v, v.elements # << >>
    PROVE  FieldType(v) = "array"
  BY DEF FieldType

\* Every step keeps the nodes without an id in these places.
LEMMA PlacedStep == Inv /\ Placed /\ [Next]_vars => Placed'
<1> SUFFICES ASSUME Inv, Placed, [Next]_vars PROVE Placed'
  OBVIOUS
<1> USE DEF world, Step
<1>e. << >> \in Seq(TreeNode) /\ Len(<< >>) = 0
  OBVIOUS
<1>1. CASE Explore
  BY <1>1, <1>e DEF Explore, Placed, ParentsFirst
<1>2. CASE IsStructure \/ ReadName \/ ReadType \/ Collect
  BY <1>2 DEF IsStructure, ReadName, ReadType, Collect, Placed, ParentsFirst, Leaf, Fed
<1>3. CASE ReadValue
  <2> DEFINE v == Value(root)
             node == [id |-> root, structure |-> v.value = "structure", parent |-> 0,
                      type |-> IF v.value = "structure" THEN "structure" ELSE "value"]
             f == Call(1, root, v.elements)
  <2>1. CASE v.value = "unreadable"
    <3>1. UNCHANGED <<tree, frames, disturbed>>
      BY <1>3, <2>1 DEF ReadValue
    <3>2. QED  BY <3>1 DEF Placed, ParentsFirst, Leaf, Fed
  <2>2. CASE v.value # "unreadable"
    <3>1. tree' = <<node>> /\ frames' = <<f>> /\ disturbed' = disturbed
      BY <1>3, <2>2 DEF ReadValue
    <3>2. ~disturbed => node.structure
      BY <1>3 DEF Inv, ReadValue, RootRead, RootReads, Value
    <3>3. node.parent = 0 /\ node.id # NullId /\ f.at = 1
      BY TreeAssumption DEF Inv, Call
    <3> HIDE DEF node, f
    <3>4. ParentsFirst(<<node>>) /\ \A k \in 1 .. Len(<<node>>) : Leaf(<<node>>, k)
      BY <3>3 DEF ParentsFirst, Leaf
    <3>5. \A i \in 1 .. Len(<<f>>) : Fed(<<f>>[i], <<node>>)
      BY <3>3 DEF Fed
    <3>6. <<node>>[1] = node
      OBVIOUS
    <3>7. QED  BY <3>1, <3>2, <3>4, <3>5, <3>6 DEF Placed
  <2>3. QED  BY <2>1, <2>2
<1>4. CASE AddPlainElements
  <2> DEFINE n == Len(tree)
             leaves == [k \in DOMAIN Top.elements |->
                          [id |-> NullId, type |-> "value", structure |-> FALSE,
                           parent |-> Top.at]]
             caller == [Top EXCEPT !.elements = << >>]
             tr2 == tree \o leaves
  <2>1. /\ Building /\ frames # << >> /\ Top.elements # << >> /\ ~tree[Top.at].structure
        /\ tree' = tr2 /\ frames' = SetTop(caller) /\ disturbed' = disturbed
    BY <1>4 DEF AddPlainElements, Building
  <2>2. Top \in Frame /\ Good(Top, tree) /\ tree \in Seq(TreeNode) /\ Fed(Top, tree)
    <3>1. Len(frames) \in 1 .. Len(frames)
      BY <2>1, TopFrame
    <3>2. QED  BY <2>1, <3>1, TopFrame DEF Inv, Placed, Top
  <2>3. Top.at \in 1 .. n /\ tree # << >> /\ n \in Nat
    BY <2>2 DEF Good
  <2>4. Top.at = 1 \/ tree[Top.at].type = "array"
    BY <2>1, <2>2 DEF Fed
  <2>5. caller \in Frame /\ caller.at = Top.at /\ caller.elements = << >>
    <3>1. << >> \in Seq(Node \cup {NoType})
      OBVIOUS
    <3>2. QED  BY <2>2, <3>1 DEF Frame
  <2>6. Fed(caller, tree)
    BY <2>5 DEF Fed
  <2>7. leaves \in Seq(TreeNode) /\ \A k \in 1 .. Len(leaves) :
            leaves[k] = [id |-> NullId, type |-> "value", structure |-> FALSE, parent |-> Top.at]
    <3>1. /\ Len(Top.elements) \in Nat /\ DOMAIN Top.elements = 1 .. Len(Top.elements)
          /\ Top.at \in Nat
      BY <2>2 DEF Frame
    <3>2. [id |-> NullId, type |-> "value", structure |-> FALSE, parent |-> Top.at] \in TreeNode
      BY <3>1 DEF TreeNode
    <3>3. QED  BY <3>1, <3>2
  <2> HIDE DEF leaves, caller
  <2>8. /\ tr2 \in Seq(TreeNode) /\ Len(tr2) = n + Len(leaves) /\ Len(leaves) \in Nat
        /\ \A k \in 1 .. n : tr2[k] = tree[k]
        /\ \A k \in n + 1 .. Len(tr2) : tr2[k] = leaves[k - n]
    BY <2>2, <2>7
  <2> HIDE DEF tr2
  <2>9. Extends(tree, tr2)
    BY <2>3, <2>8 DEF Extends
  <2>10. ASSUME NEW k \in n + 1 .. Len(tr2)
         PROVE  tr2[k].parent \in 1 .. n /\ Leaf(tr2, k)
    <3>1. k - n \in 1 .. Len(leaves)
      BY <2>3, <2>8
    <3>2. tr2[k] = [id |-> NullId, type |-> "value", structure |-> FALSE, parent |-> Top.at]
      BY <2>7, <2>8, <3>1
    <3>3. tr2[Top.at] = tree[Top.at]
      BY <2>3, <2>8
    <3>4. QED  BY <2>1, <2>3, <2>4, <3>2, <3>3 DEF Leaf
  <2>11. \A i \in 1 .. Len(frames') : Fed(frames'[i], tr2)
    BY <2>1, <2>5, <2>6, <2>9, FedBelow
  <2>12. QED  BY <2>1, <2>3, <2>8, <2>9, <2>10, <2>11, Added
<1>5. CASE AddStructureElement
  <2> DEFINE caller == [Top EXCEPT !.elements = Tail(@)]
             element == Head(Top.elements)
             child == [id |-> NullId, type |-> "structure", structure |-> FALSE,
                       parent |-> Top.at]
  <2>1. Building /\ Top.elements # << >> /\ tree[Top.at].structure /\ disturbed' = disturbed
    BY <1>5 DEF AddStructureElement
  <2>2. Top \in Frame /\ element \in Node \cup {NoType}
    <3>1. Top \in Frame
      BY <2>1, TopFrame DEF Building
    <3>2. Top.elements \in Seq(Node \cup {NoType})
      BY <3>1 DEF Frame
    <3>3. QED  BY <2>1, <3>1, <3>2
  <2>3. caller \in Frame /\ caller.at = Top.at
    <3>1. Tail(Top.elements) \in Seq(Node \cup {NoType})
      BY <2>1, <2>2 DEF Frame
    <3>2. QED  BY <2>2, <3>1 DEF Frame
  <2>4. Fed(caller, tree)
    BY <2>1, <2>3 DEF Fed
  <2>5. CASE element = NoType
    <3>1. frames' = SetTop(caller) /\ UNCHANGED tree
      BY <1>5, <2>5 DEF AddStructureElement
    <3>2. QED  BY <2>1, <2>3, <2>4, <3>1, PlacedTop
  <2>6. CASE element # NoType
    <3>1. AddAndCall(child, caller, element, << >>)
      BY <1>5, <2>6 DEF AddStructureElement
    <3>2. child \in TreeNode
      BY <2>2 DEF TreeNode, Frame
    <3>3. << >> \in Seq(Node \cup {NoType})
      OBVIOUS
    <3>4. element \in Node /\ child.parent = Top.at /\ child.type = "structure"
      BY <2>2, <2>6
    <3> HIDE DEF child, caller, element
    <3>5. QED  BY <2>1, <2>3, <2>4, <3>1, <3>2, <3>3, <3>4, PlacedCall
  <2>7. QED  BY <2>5, <2>6
<1>6. CASE Browse
  <2> DEFINE fields == IF link THEN server[Top.node].components ELSE << >>
             caller == [Top EXCEPT !.browsed = TRUE, !.fields = fields]
  <2>1. /\ Building /\ Top.elements = << >> /\ frames' = SetTop(caller)
        /\ UNCHANGED <<tree, disturbed>>
    BY <1>6 DEF Browse
  <2>2. Top \in Frame /\ server \in Servers
    BY <2>1, TopFrame DEF Building, Inv
  <2>3. fields \in Seq(Node)
    BY <2>2, Answer DEF Frame
  <2> HIDE DEF fields
  <2>4. caller \in Frame /\ caller.at = Top.at /\ caller.elements = << >>
    BY <2>1, <2>2, <2>3 DEF Frame
  <2> HIDE DEF caller
  <2>5. Fed(caller, tree)
    BY <2>4 DEF Fed
  <2>6. QED  BY <2>1, <2>4, <2>5, PlacedTop
<1>7. CASE AddField
  <2> DEFINE caller == [Top EXCEPT !.fields = Tail(@)]
             field == Head(Top.fields)
             v == Value(field)
             child == [id |-> field, type |-> FieldType(v), parent |-> Top.at,
                       structure |-> v.value = "structure"]
  <2>1. /\ Building /\ Top.fields # << >> /\ Top.elements = << >>
        /\ AddAndCall(child, caller, field, v.elements) /\ disturbed' = disturbed
    BY <1>7 DEF AddField
  <2>2. Top \in Frame /\ server \in Servers /\ Top.fields \in Seq(Node)
    BY <2>1, TopFrame DEF Building, Inv, Frame
  <2>3. field \in Node /\ Tail(Top.fields) \in Seq(Node)
    BY <2>1, <2>2
  <2>4. caller \in Frame /\ caller.at = Top.at /\ caller.elements = << >>
    BY <2>1, <2>2, <2>3 DEF Frame
  <2>5. v.elements \in Seq(Node \cup {NoType})
    BY <2>2, <2>3, Answer DEF Value
  <2>6. child \in TreeNode /\ child.id # NullId /\ child.parent = Top.at
    BY <2>2, <2>3, TreeAssumption DEF TreeNode, Frame, FieldType
  <2>7. v.elements # << >> => child.type = "array"
    <3>1. child.type = FieldType(v)
      OBVIOUS
    <3>2. v.elements # << >> => FieldType(v) = "array"
      BY ArrayField
    <3>3. QED  BY <3>1, <3>2
  <2> HIDE DEF child, caller, field, v
  <2>8. Fed(caller, tree)
    BY <2>4 DEF Fed
  <2>9. QED  BY <2>1, <2>3, <2>4, <2>5, <2>6, <2>7, <2>8, PlacedCall
<1>8. CASE Return
  <2>1. frames # << >> /\ frames' = Front(frames) /\ UNCHANGED <<tree, disturbed>>
    BY <1>8 DEF Return, Building
  <2>2. frames \in Seq(Frame)
    BY DEF Inv, Stack
  <2>3. \A i \in 1 .. Len(frames') : i \in 1 .. Len(frames) /\ frames'[i] = frames[i]
    BY <2>1, <2>2 DEF Front
  <2>4. QED  BY <2>1, <2>3 DEF Placed, ParentsFirst, Leaf, Fed
<1>9. CASE Release
  <2>1. frames' = frames /\ frames = << >> /\ disturbed' = disturbed
        /\ (tree' = tree \/ tree' = << >>)
    BY <1>9 DEF Release, Inv, Quiet
  <2>2. QED  BY <1>e, <2>1 DEF Placed, ParentsFirst, Leaf, Fed
<1>10. CASE Change
  BY <1>10 DEF Change, Placed, ParentsFirst, Leaf, Fed
<1>11. CASE UNCHANGED vars
  BY <1>11 DEF vars, Placed, ParentsFirst, Leaf, Fed
<1>12. QED
  BY <1>1, <1>2, <1>3, <1>4, <1>5, <1>6, <1>7, <1>8, <1>9, <1>10, <1>11 DEF Next, Program

\* No node, no wrong place.
LEMMA PlacedInit == Init => Placed
<1>1. Len(<< >>) = 0
  OBVIOUS
<1>2. QED  BY <1>1 DEF Init, Placed, ParentsFirst

\* Unless the root turned out to be no structure, only elements of arrays of
\* plain values have no id and could be collected, and those are hidden.
LEMMA ShownNodes ==
    ASSUME Inv, Placed, tree = << >> \/ tree[1].structure
    PROVE  Shown(Hidden, tree) \in Seq(Seq(Node))
<1>1. tree \in Seq(TreeNode) /\ Len(tree) \in Nat
  BY DEF Inv
<1>2. Covers(Hidden, tree)
  BY <1>1, HiddenCovers DEF Placed
<1>3. ASSUME NEW k \in 1 .. Len(tree)
      PROVE  (IF ~Hidden[k] /\ (tree[k].type = "value" \/ Plain(tree, k))
                THEN <<tree[k].id>> ELSE << >>) \in Seq(Node)
  <2>1. SUFFICES ASSUME ~Hidden[k], tree[k].type = "value" \/ Plain(tree, k)
                 PROVE  tree[k].id \in Node
    OBVIOUS
  <2>2. tree[k] \in TreeNode
    BY <1>1
  <2>3. tree[k].id # NullId
    <3>1. SUFFICES ASSUME tree[k].id = NullId PROVE FALSE
      OBVIOUS
    <3>2. tree[k].type # "structure"
      BY <2>1 DEF Plain
    <3> DEFINE p == tree[k].parent
    <3>3. p # 0 /\ ~tree[p].structure /\ (p = 1 \/ tree[p].type = "array")
      BY <3>1, <3>2 DEF Placed, Leaf
    <3>4. tree # << >>
      BY <1>1, <1>3
    <3>5. Plain(tree, p)
      BY <3>3, <3>4 DEF Plain
    <3>6. Hidden[k]
      BY <1>2, <3>3, <3>5 DEF Covers
    <3>7. QED  BY <2>1, <3>6
  <2>4. QED  BY <2>2, <2>3 DEF TreeNode
<1>4. QED  BY <1>1, <1>3, IsASeq DEF Shown

\* Collect is the step that could collect a null id.
LEMMA NullIdStep ==
    Inv /\ Placed /\ NullIdNeedsRootChange /\ [Next]_vars => NullIdNeedsRootChange'
<1> SUFFICES ASSUME Inv, Placed, NullIdNeedsRootChange, [Next]_vars, pc' = "release",
                    NullId \in Range(collected')
             PROVE  disturbed' /\ ~tree'[1].structure
  BY DEF NullIdNeedsRootChange
<1> USE DEF world, Step
<1>1. CASE Collect
  <2>1. UNCHANGED <<tree, disturbed>> /\ tree \in Seq(TreeNode)
    BY <1>1 DEF Collect, Inv
  <2>2. SUFFICES ASSUME ~(disturbed /\ ~tree[1].structure) PROVE FALSE
    BY <2>1
  <2>3. tree = << >> \/ tree[1].structure
    BY <2>2 DEF Placed
  <2>4. collected' \in Seq(Node)
    BY <1>1, <2>1, <2>3, CollectShows, ShownNodes, Flatten
  <2>5. \A i \in DOMAIN collected' : collected'[i] \in Node
    BY <2>4
  <2>6. QED  BY <2>5, TreeAssumption DEF Range
<1>2. CASE Change
  BY <1>2 DEF Change, NullIdNeedsRootChange
<1>3. CASE UNCHANGED vars
  BY <1>3 DEF vars, NullIdNeedsRootChange
<1>4. ~(Explore \/ IsStructure \/ ReadName \/ ReadValue \/ ReadType \/ Release)
  BY DEF Explore, IsStructure, ReadName, ReadValue, ReadType, Release
<1>5. ~(AddPlainElements \/ Browse)
  BY DEF AddPlainElements, Browse, Building
<1>6. ~(AddStructureElement \/ AddField)
  BY DEF AddStructureElement, AddField, AddAndCall, Building
<1>7. ~Return
  BY DEF Return
<1>8. QED
  BY <1>1, <1>2, <1>3, <1>4, <1>5, <1>6, <1>7 DEF Next, Program

\* No id of an array element reaches the file (mirua_module.c:2130) unless the
\* root was a structure when save looked and none when it was read again.
THEOREM NullIdOnlyByRootChange == Spec => []NullIdNeedsRootChange
<1>1. Init => NullIdNeedsRootChange
  BY DEF Init, NullIdNeedsRootChange
<1>2. Spec => []Placed
  BY PlacedInit, PlacedStep, Invariant, PTL DEF Spec
<1>3. QED
  BY <1>1, <1>2, NullIdStep, Invariant, PTL DEF Spec

-----------------------------------------------------------------------------
(* What is collected lies below the root. *)

\* The nodes made and the calls for them stay in every set that holds the root
\* and that no reference leads out of.
Within(S, tr, fs) ==
    /\ \A k \in 1 .. Len(tr) : tr[k].id \in S \cup {NullId}
    /\ \A k \in 1 .. Len(fs) : fs[k].node \in S

BelowRoot == \A S \in SUBSET Node : root \in S /\ Closed(S) => Within(S, tree, frames)

\* A node is added and its call made, or the stack overflows.
LEMMA CalledWithin ==
    ASSUME Inv, Building, NEW S \in SUBSET Node, Within(S, tree, frames),
           NEW child, child.id \in S \cup {NullId},
           NEW caller \in Frame, caller.node = Top.node,
           NEW node \in S, NEW elements, AddAndCall(child, caller, node, elements)
    PROVE  Within(S, tree', frames')
<1>1. tree \in Seq(TreeNode) /\ frames \in Seq(Frame) /\ Len(frames) \in Nat \ {0}
  BY TopFrame DEF Inv, Building
<1>2. \A k \in 1 .. Len(tree') : tree'[k].id \in S \cup {NullId}
  <2>1. tree' = Append(tree, child)
    BY DEF AddAndCall
  <2>2. Len(tree') = Len(tree) + 1 /\ Len(tree) \in Nat
    BY <1>1, <2>1
  <2>3. ASSUME NEW k \in 1 .. Len(tree')
        PROVE  tree'[k] = child \/ (k \in 1 .. Len(tree) /\ tree'[k] = tree[k])
    BY <1>1, <2>1, <2>2
  <2>4. QED  BY <2>3 DEF Within
<1>3. \A k \in 1 .. Len(frames') : frames'[k].node \in S
  <2>1. CASE Len(frames) < MaxDepth
    <3> DEFINE fs == SetTop(caller)
               f == Call(Len(tree) + 1, node, elements)
    <3>1. frames' = Append(fs, f)
      BY <2>1 DEF AddAndCall
    <3>2. fs \in Seq(Frame) /\ Len(fs) = Len(frames)
      BY <1>1 DEF SetTop
    <3>3. \A k \in 1 .. Len(frames) : fs[k].node \in S
      <4>1. \A k \in 1 .. Len(frames) : fs[k] = IF k = Len(frames) THEN caller ELSE frames[k]
        BY <1>1 DEF SetTop
      <4>2. Top.node \in S
        BY <1>1 DEF Within, Top
      <4>3. QED  BY <4>1, <4>2 DEF Within
    <3>4. f.node \in S
      BY DEF Call
    <3> HIDE DEF fs, f
    <3>5. Len(frames') = Len(frames) + 1
      BY <3>1, <3>2
    <3>6. ASSUME NEW k \in 1 .. Len(frames')
          PROVE  frames'[k] = f \/ (k \in 1 .. Len(frames) /\ frames'[k] = fs[k])
      BY <1>1, <3>1, <3>2, <3>5
    <3>7. QED  BY <3>3, <3>4, <3>6
  <2>2. CASE ~(Len(frames) < MaxDepth)
    BY <2>2 DEF AddAndCall, Within
  <2>3. QED  BY <2>1, <2>2
<1>4. QED  BY <1>2, <1>3 DEF Within

\* The call on top goes on.
LEMMA ReplacedWithin ==
    ASSUME Inv, frames # << >>, NEW S \in SUBSET Node, Within(S, tree, frames),
           NEW caller, caller.node = Top.node, frames' = SetTop(caller)
    PROVE  \A k \in 1 .. Len(frames') : frames'[k].node \in S
<1>1. frames \in Seq(Frame) /\ Len(frames) \in Nat \ {0}
  BY TopFrame
<1>2. Len(frames') = Len(frames)
  BY <1>1 DEF SetTop
<1>3. \A k \in 1 .. Len(frames) : frames'[k] = IF k = Len(frames) THEN caller ELSE frames[k]
  BY <1>1 DEF SetTop
<1>4. Top.node \in S
  BY <1>1 DEF Within, Top
<1>5. QED  BY <1>2, <1>3, <1>4 DEF Within

\* Every step keeps the walk below the root.
LEMMA BelowRootStep == Inv /\ BelowRoot /\ [Next]_vars => BelowRoot'
<1>1. SUFFICES ASSUME Inv, BelowRoot, [Next]_vars, NEW S \in SUBSET Node,
                      root' \in S, Closed(S)
               PROVE  Within(S, tree', frames')
  BY DEF BelowRoot, Closed, Linked
<1>2. root' = root => Within(S, tree, frames)
  BY <1>1 DEF BelowRoot
<1>t. tree \in Seq(TreeNode) /\ frames \in Seq(Frame) /\ Len(tree) \in Nat
  BY <1>1 DEF Inv, Stack
<1>e. Within(S, << >>, << >>)
  BY DEF Within
<1>3. CASE Explore
  BY <1>3, <1>e DEF Explore
<1>4. CASE ReadValue
  <2>1. CASE Value(root).value = "unreadable"
    BY <1>2, <1>4, <2>1 DEF ReadValue
  <2>2. CASE Value(root).value # "unreadable"
    <3> DEFINE v == Value(root)
               node == [id |-> root, structure |-> v.value = "structure", parent |-> 0,
                        type |-> IF v.value = "structure" THEN "structure" ELSE "value"]
               f == Call(1, root, v.elements)
    <3>1. tree' = <<node>> /\ frames' = <<f>> /\ root' = root
      BY <1>4, <2>2 DEF ReadValue
    <3>2. node.id = root /\ f.node = root
      BY DEF Call
    <3> HIDE DEF node, f
    <3>3. node.id \in S \cup {NullId} /\ f.node \in S
      BY <1>1, <3>1, <3>2
    <3>4. \A k \in 1 .. Len(<<node>>) : <<node>>[k].id \in S \cup {NullId}
      BY <3>3
    <3>5. \A k \in 1 .. Len(<<f>>) : <<f>>[k].node \in S
      BY <3>3
    <3>6. QED  BY <3>1, <3>4, <3>5, Zenon DEF Within
  <2>3. QED  BY <2>1, <2>2
<1>5. CASE AddPlainElements
  <2> DEFINE leaf == [id |-> NullId, type |-> "value", structure |-> FALSE,
                      parent |-> Top.at]
             leaves == [k \in DOMAIN Top.elements |-> leaf]
             caller == [Top EXCEPT !.elements = << >>]
  <2>1. /\ frames # << >> /\ root' = root
        /\ tree' = tree \o leaves /\ frames' = SetTop(caller)
    BY <1>5 DEF AddPlainElements, Building
  <2>2. Top \in Frame
    BY <1>1, <2>1, TopFrame
  <2>3. DOMAIN Top.elements = 1 .. Len(Top.elements) /\ Len(Top.elements) \in Nat
    BY <2>2 DEF Frame
  <2>4. leaves \in Seq({leaf}) /\ leaf.id = NullId
    BY <2>3
  <2>5. caller.node = Top.node
    BY <2>2 DEF Frame
  <2> HIDE DEF leaf, leaves, caller
  <2>6. \A k \in 1 .. Len(frames') : frames'[k].node \in S
    BY <1>1, <1>2, <2>1, <2>5, ReplacedWithin
  <2>7. \A k \in 1 .. Len(tree') : tree'[k].id \in S \cup {NullId}
    <3>1. Len(tree') = Len(tree) + Len(leaves) /\ Len(leaves) \in Nat
      BY <1>t, <2>1, <2>4
    <3>2. ASSUME NEW k \in 1 .. Len(tree')
          PROVE  \/ k \in 1 .. Len(tree) /\ tree'[k] = tree[k]
                 \/ tree'[k] = leaf
      <4>1. CASE k \in 1 .. Len(tree)
        BY <1>t, <2>1, <2>4, <4>1
      <4>2. CASE k \notin 1 .. Len(tree)
        <5>1. k - Len(tree) \in 1 .. Len(leaves) /\ tree'[k] = leaves[k - Len(tree)]
          BY <1>t, <2>1, <2>4, <3>1, <4>2
        <5>2. QED  BY <2>4, <5>1
      <4>3. QED  BY <4>1, <4>2
    <3>3. QED  BY <1>2, <2>1, <2>4, <3>2 DEF Within
  <2>8. QED  BY <2>6, <2>7 DEF Within
<1>6. CASE AddStructureElement
  <2> DEFINE caller == [Top EXCEPT !.elements = Tail(@)]
             element == Head(Top.elements)
             child == [id |-> NullId, type |-> "structure", structure |-> FALSE,
                       parent |-> Top.at]
  <2>1. Building /\ frames # << >> /\ Top.elements # << >> /\ root' = root
    BY <1>6 DEF AddStructureElement, Building
  <2>2. Top \in Frame /\ Good(Top, tree) /\ Len(frames) \in 1 .. Len(frames)
    <3>1. Top \in Frame /\ Good(Top, tree)
      BY <1>1, <2>1, TopFrame
    <3>2. Len(frames) \in Nat /\ Len(frames) # 0
      BY <1>t, <2>1, EmptySeq
    <3>3. QED  BY <3>1, <3>2
  <2>3. /\ caller \in Frame /\ caller.node = Top.node
        /\ element = Top.elements[1] /\ 1 \in 1 .. Len(Top.elements)
        /\ element \in Node \cup {NoType}
    <3>1. Top.elements \in Seq(Node \cup {NoType}) /\ Len(Top.elements) \in Nat \ {0}
      BY <2>1, <2>2 DEF Frame
    <3>2. /\ element = Top.elements[1] /\ element \in Node \cup {NoType}
          /\ Tail(Top.elements) \in Seq(Node \cup {NoType})
      BY <3>1
    <3>3. caller \in Frame /\ caller.node = Top.node
      BY <2>2, <3>2 DEF Frame
    <3>4. QED  BY <3>1, <3>2, <3>3
  <2>4. child.id = NullId
    OBVIOUS
  <2>5. CASE element = NoType
    <3>1. frames' = SetTop(caller) /\ UNCHANGED tree
      BY <1>6, <2>5 DEF AddStructureElement
    <3> HIDE DEF caller
    <3>2. QED  BY <1>1, <1>2, <2>1, <2>3, <3>1, ReplacedWithin DEF Within
  <2>6. CASE element # NoType
    <3>1. AddAndCall(child, caller, element, << >>)
      BY <1>6, <2>6 DEF AddStructureElement
    <3>2. Top.node \in S
      BY <1>2, <2>1, <2>2 DEF Within, Top
    <3>3. Linked(Top.node, element) /\ element \in Node
      BY <2>2, <2>3, <2>6 DEF Good
    <3>4. element \in S
      BY <1>1, <3>2, <3>3 DEF Closed
    <3> HIDE DEF child, caller, element
    <3>5. QED  BY <1>1, <1>2, <2>1, <2>3, <2>4, <3>1, <3>4, CalledWithin
  <2>7. QED  BY <2>5, <2>6
<1>7. CASE Browse
  <2>1. PICK caller : caller.node = Top.node /\ frames' = SetTop(caller)
    <3> DEFINE c == [Top EXCEPT !.browsed = TRUE,
                     !.fields = IF link THEN server[Top.node].components ELSE << >>]
    <3>1. Top \in Frame
      BY <1>1, <1>7, TopFrame DEF Browse, Building
    <3>2. c.node = Top.node /\ frames' = SetTop(c)
      BY <1>7, <3>1 DEF Browse, Frame
    <3> HIDE DEF c
    <3>3. QED  BY <3>2
  <2>2. frames # << >> /\ UNCHANGED <<root, tree>>
    BY <1>7 DEF Browse, Building
  <2>3. QED  BY <1>1, <1>2, <2>1, <2>2, ReplacedWithin DEF Within
<1>8. CASE AddField
  <2> DEFINE caller == [Top EXCEPT !.fields = Tail(@)]
             field == Head(Top.fields)
             v == Value(field)
             child == [id |-> field, type |-> FieldType(v), parent |-> Top.at,
                       structure |-> v.value = "structure"]
  <2>1. /\ Building /\ frames # << >> /\ Top.fields # << >> /\ root' = root
        /\ AddAndCall(child, caller, field, v.elements)
    BY <1>8 DEF AddField, Building
  <2>2. Top \in Frame /\ Good(Top, tree) /\ Len(frames) \in 1 .. Len(frames)
    <3>1. Top \in Frame /\ Good(Top, tree)
      BY <1>1, <2>1, TopFrame
    <3>2. Len(frames) \in Nat /\ Len(frames) # 0
      BY <1>t, <2>1, EmptySeq
    <3>3. QED  BY <3>1, <3>2
  <2>3. /\ caller \in Frame /\ caller.node = Top.node
        /\ field = Top.fields[1] /\ 1 \in 1 .. Len(Top.fields)
        /\ field \in Node
    <3>1. Top.fields \in Seq(Node) /\ Len(Top.fields) \in Nat \ {0}
      BY <2>1, <2>2 DEF Frame
    <3>2. /\ field = Top.fields[1] /\ field \in Node
          /\ Tail(Top.fields) \in Seq(Node)
      BY <3>1
    <3>3. caller \in Frame /\ caller.node = Top.node
      BY <2>2, <3>2 DEF Frame
    <3>4. QED  BY <3>1, <3>2, <3>3
  <2>4. Top.node \in S
    BY <1>2, <2>1, <2>2 DEF Within, Top
  <2>5. field \in S
    <3>1. Linked(Top.node, field)
      BY <2>2, <2>3 DEF Good
    <3>2. QED  BY <1>1, <2>3, <2>4, <3>1 DEF Closed
  <2>6. child.id = field
    OBVIOUS
  <2> HIDE DEF child, caller, field, v
  <2>7. QED  BY <1>1, <1>2, <2>1, <2>3, <2>5, <2>6, CalledWithin
<1>9. CASE Return
  <2>1. frames # << >> /\ frames' = Front(frames) /\ UNCHANGED <<root, tree>>
    BY <1>9 DEF Return, Building
  <2>2. /\ Len(frames') = Len(frames) - 1 /\ Len(frames) \in Nat
        /\ \A k \in 1 .. Len(frames) - 1 : frames'[k] = frames[k]
    BY <1>t, <2>1, FrontOf
  <2>3. \A k \in 1 .. Len(frames') : k \in 1 .. Len(frames) /\ frames'[k] = frames[k]
    BY <2>2
  <2>4. QED  BY <1>2, <2>1, <2>3 DEF Within
<1>10. CASE Release
  BY <1>2, <1>10 DEF Release, Within
<1>11. CASE IsStructure \/ ReadName \/ ReadType \/ Collect \/ Change \/ UNCHANGED vars
  <2>1. UNCHANGED <<root, tree, frames>>
    BY <1>11 DEF IsStructure, ReadName, ReadType, Collect, Change, vars
  <2>2. QED  BY <1>2, <2>1
<1>12. QED
  BY <1>1, <1>3, <1>4, <1>5, <1>6, <1>7, <1>8, <1>9, <1>10, <1>11 DEF Next, Program

\* Collect takes the ids of the tree and no other.
LEMMA CollectedWithin ==
    ASSUME Inv, NEW S \in SUBSET Node, Within(S, tree, frames), Collect
    PROVE  Range(collected') \subseteq S \cup {NullId}
<1> DEFINE I == S \cup {NullId}
<1>1. tree \in Seq(TreeNode) /\ Len(tree) \in Nat
  BY DEF Inv
<1>2. Shown(Hidden, tree) \in Seq(Seq(I))
  <2>1. ASSUME NEW k \in 1 .. Len(tree)
        PROVE  (IF ~Hidden[k] /\ (tree[k].type = "value" \/ Plain(tree, k))
                  THEN <<tree[k].id>> ELSE << >>) \in Seq(I)
    <3>1. tree[k].id \in I
      BY DEF Within
    <3> HIDE DEF I
    <3>2. <<tree[k].id>> \in Seq(I) /\ << >> \in Seq(I)
      BY <3>1
    <3>3. QED  BY <3>2
  <2>2. QED  BY <1>1, <2>1, IsASeq DEF Shown
<1> HIDE DEF I
<1>3. collected' \in Seq(I)
  BY <1>1, <1>2, CollectShows, Flatten
<1>4. \A i \in DOMAIN collected' : collected'[i] \in I
  BY <1>3
<1>5. QED  BY <1>4 DEF Range, I

LEMMA FoundStep == Inv /\ BelowRoot /\ FoundBelowRoot /\ [Next]_vars => FoundBelowRoot'
<1>1. SUFFICES ASSUME Inv, BelowRoot, FoundBelowRoot, [Next]_vars, pc' = "release",
                      NEW S \in SUBSET Node, root' \in S, Closed(S)
               PROVE  Range(collected') \subseteq S \cup {NullId}
  BY DEF FoundBelowRoot, Closed, Linked
<1> USE DEF world, Step
<1>2. CASE Collect
  <2>1. root' = root
    BY <1>2 DEF Collect
  <2>2. Within(S, tree, frames)
    BY <1>1, <2>1 DEF BelowRoot
  <2>3. QED  BY <1>1, <1>2, <2>2, CollectedWithin
<1>3. CASE Change \/ UNCHANGED vars
  BY <1>1, <1>3 DEF Change, vars, FoundBelowRoot
<1>4. ~(Explore \/ IsStructure \/ ReadName \/ ReadValue \/ ReadType \/ Release)
  BY <1>1 DEF Explore, IsStructure, ReadName, ReadValue, ReadType, Release
<1>5. ~(AddPlainElements \/ Browse)
  BY <1>1 DEF AddPlainElements, Browse, Building
<1>6. ~(AddStructureElement \/ AddField)
  BY <1>1 DEF AddStructureElement, AddField, AddAndCall, Building
<1>7. ~Return
  BY <1>1 DEF Return
<1>8. QED
  BY <1>1, <1>2, <1>3, <1>4, <1>5, <1>6, <1>7 DEF Next, Program

\* Whatever the servers hold, and however often they and the link change under
\* the walk, all that it collects is in every set of nodes that holds the root
\* and that no reference leads out of, or has no id.
THEOREM CollectedBelowRoot == Spec => []FoundBelowRoot
<1>1. Init => BelowRoot /\ FoundBelowRoot
  BY DEF Init, BelowRoot, Within, FoundBelowRoot
<1>2. Spec => []BelowRoot
  BY <1>1, BelowRootStep, Invariant, PTL DEF Spec
<1>3. QED
  BY <1>1, <1>2, FoundStep, Invariant, PTL DEF Spec

-----------------------------------------------------------------------------
(* The reference: what is found below elements and references. *)

\* A list for every element of a list, one behind the other.
Each(g, es) == FlattenSeq([i \in DOMAIN es |-> g[es[i]]])

Mapped(g, es, f) == f = [i \in DOMAIN es |-> g[es[i]]]

\* Head and tail of a mapped list are mapped from head and tail.
LEMMA TailOfMap ==
    ASSUME NEW S, NEW D, NEW g \in [D -> Seq(S)], NEW es \in Seq(D), es # << >>,
           NEW f, Mapped(g, es, f)
    PROVE  /\ f \in Seq(Seq(S)) /\ f # << >> /\ Head(f) = g[Head(es)]
           /\ Mapped(g, Tail(es), Tail(f))
<1>1. Len(es) \in Nat \ {0} /\ DOMAIN es = 1 .. Len(es) /\ Head(es) = es[1]
  OBVIOUS
<1>2. PICK ts \in Seq(D) : /\ ts = Tail(es) /\ Len(ts) = Len(es) - 1
                           /\ \A i \in 1 .. Len(ts) : ts[i] = es[i + 1]
  BY HeadTailProperties
<1>3. PICK n \in Nat : Len(es) = n + 1 /\ Len(ts) = n /\ DOMAIN ts = 1 .. n
  <2>1. Len(es) - 1 \in Nat /\ Len(es) = (Len(es) - 1) + 1
    BY <1>1
  <2>2. ts \in Seq(D)
    BY <1>2, HeadTailProperties
  <2>3. DOMAIN ts = 1 .. Len(es) - 1
    BY <1>2, <2>2
  <2>4. QED  BY <1>2, <2>1, <2>3
<1>4. \A i \in 1 .. n + 1 : g[es[i]] \in Seq(S)
  BY <1>1, <1>3
<1>5. f \in Seq(Seq(S)) /\ Len(f) = n + 1 /\ \A i \in 1 .. n + 1 : f[i] = g[es[i]]
  BY <1>1, <1>3, <1>4 DEF Mapped
<1>6. f # << >> /\ Head(f) = f[1]
  BY <1>5
<1>7. PICK q \in Seq(Seq(S)) : /\ q = Tail(f) /\ Len(q) = n
                               /\ \A i \in 1 .. n : q[i] = f[i + 1]
  <2>1. Tail(f) \in Seq(Seq(S)) /\ Len(Tail(f)) = Len(f) - 1
        /\ \A i \in 1 .. Len(Tail(f)) : Tail(f)[i] = f[i + 1]
    BY <1>5, <1>6, HeadTailProperties
  <2>2. Len(Tail(f)) = n
    BY <1>5, <2>1
  <2>3. QED  BY <2>1, <2>2
<1>8. \A i \in 1 .. n : i + 1 \in 1 .. n + 1 /\ q[i] = g[ts[i]]
  BY <1>2, <1>3, <1>5, <1>7
<1>9. q = [i \in 1 .. n |-> q[i]]
  <2>0. q \in Seq(Seq(S)) /\ Len(q) = n
    BY <1>7, Zenon
  <2>1. q \in [1 .. n -> Seq(S)]
    BY ONLY <2>0
  <2>2. QED  BY <2>1
<1>10. q = [i \in DOMAIN ts |-> g[ts[i]]]
  BY <1>3, <1>8, <1>9
<1>11. f[1] = g[Head(es)]
  BY <1>1, <1>5
<1>12. QED  BY <1>2, <1>5, <1>6, <1>7, <1>10, <1>11 DEF Mapped

\* What is found for a list is what is found for its head, then for its tail.
ByHead(S, g, es) ==
    /\ Each(g, es) \in Seq(S)
    /\ es = << >> => Each(g, es) = << >>
    /\ es # << >> => Each(g, es) = g[Head(es)] \o Each(g, Tail(es))

LEMMA FlattenEach ==
    ASSUME NEW S, NEW D, NEW g \in [D -> Seq(S)], NEW es \in Seq(D)
    PROVE  ByHead(S, g, es)
<1>1. PICK f : f = [i \in DOMAIN es |-> g[es[i]]]
  OBVIOUS
<1>2. Each(g, es) = FlattenSeq(f)
  BY <1>1 DEF Each
<1>3. CASE es = << >>
  <2>1. f = << >>
    BY <1>1, <1>3
  <2>2. << >> \in Seq(S)
    OBVIOUS
  <2>3. Each(g, es) = << >>
    BY <1>2, <2>1, Flatten
  <2>4. QED  BY <1>3, <2>2, <2>3 DEF ByHead
<1>4. CASE es # << >>
  <2>1. /\ f \in Seq(Seq(S)) /\ f # << >> /\ Head(f) = g[Head(es)]
        /\ Mapped(g, Tail(es), Tail(f))
    <3>1. Mapped(g, es, f)
      BY <1>1, Zenon DEF Mapped
    <3>2. QED  BY <1>4, <3>1, TailOfMap
  <2>2. FlattenSeq(f) \in Seq(S) /\ FlattenSeq(f) = Head(f) \o FlattenSeq(Tail(f))
    BY <2>1, Flatten, FlattenHead
  <2>3. Each(g, Tail(es)) = FlattenSeq(Tail(f))
    BY <2>1, Zenon DEF Each, Mapped
  <2>4. /\ Each(g, es) \in Seq(S)
        /\ Each(g, es) = g[Head(es)] \o Each(g, Tail(es))
    BY <1>2, <2>1, <2>2, <2>3
  <2>5. QED  BY <1>4, <2>4 DEF ByHead
<1>5. QED  BY <1>3, <1>4

Lists == [Node -> Seq(Ids)]

\* What is found below the types of elements, and for references.
Types(b, es) ==
    FlattenSeq([i \in DOMAIN es |-> IF es[i] = NoType THEN << >> ELSE b[es[i]]])
Owns(s, b, ns) == FlattenSeq([i \in DOMAIN ns |-> Own(s, b, ns[i])])

\* So it is for the types of elements,
LEMMA TypesOf ==
    ASSUME NEW b \in Lists, NEW es \in Seq(Node \cup {NoType})
    PROVE  /\ Types(b, es) \in Seq(Ids)
           /\ es = << >> => Types(b, es) = << >>
           /\ es # << >> => Types(b, es) = (IF Head(es) = NoType THEN << >> ELSE b[Head(es)])
                                           \o Types(b, Tail(es))
<1> DEFINE D == Node \cup {NoType}
           g == [e \in D |-> IF e = NoType THEN << >> ELSE b[e]]
<1>1. g \in [D -> Seq(Ids)]
  BY DEF Lists
<1>2. ASSUME NEW l \in Seq(D) PROVE Types(b, l) = Each(g, l)
  <2>1. \A i \in DOMAIN l : l[i] \in D
    OBVIOUS
  <2>2. \A i \in DOMAIN l : g[l[i]] = IF l[i] = NoType THEN << >> ELSE b[l[i]]
    BY <2>1
  <2> HIDE DEF g
  <2>3. [i \in DOMAIN l |-> g[l[i]]]
          = [i \in DOMAIN l |-> IF l[i] = NoType THEN << >> ELSE b[l[i]]]
    BY <2>2
  <2>4. QED  BY <2>3 DEF Types, Each
<1>3. /\ Each(g, es) \in Seq(Ids)
      /\ es = << >> => Each(g, es) = << >>
      /\ es # << >> => Each(g, es) = g[Head(es)] \o Each(g, Tail(es))
  <2>1. es \in Seq(D)
    OBVIOUS
  <2> HIDE DEF g, D
  <2>2. ByHead(Ids, g, es)
    BY <1>1, <2>1, FlattenEach
  <2>3. QED  BY <2>2 DEF ByHead
<1>4. es # << >> => Tail(es) \in Seq(D) /\ Head(es) \in D
  BY HeadTailProperties
<1> HIDE DEF g
<1>5. es # << >> => Types(b, Tail(es)) = Each(g, Tail(es))
  BY <1>2, <1>4
<1>6. es # << >> => g[Head(es)] = IF Head(es) = NoType THEN << >> ELSE b[Head(es)]
  BY <1>4 DEF g
<1>7. QED  BY <1>2, <1>3, <1>5, <1>6

\* What the reference finds at a node or below it is a list of ids.
LEMMA OwnType ==
    ASSUME NEW s \in Servers, NEW b \in Lists, NEW m \in Node
    PROVE  Own(s, b, m) \in Seq(Ids)
<1>1. s[m].elements \in Seq(Node \cup {NoType}) /\ b[m] \in Seq(Ids)
  BY Answer DEF Lists
<1>2. Types(b, s[m].elements) \in Seq(Ids)
  BY <1>1, TypesOf
<1>3. <<m>> \in Seq(Ids)
  BY DEF Ids
<1>4. Own(s, b, m) = IF s[m].value = "structure" THEN Types(b, s[m].elements) \o b[m]
                     ELSE IF s[m].elements # << >> THEN <<m>>
                     ELSE <<m>> \o b[m]
  BY DEF Own, Types
<1>5. Types(b, s[m].elements) \o b[m] \in Seq(Ids) /\ <<m>> \o b[m] \in Seq(Ids)
  BY <1>1, <1>2, <1>3, ConcatProperties
<1>6. QED  BY <1>3, <1>4, <1>5

\* and for references.
LEMMA OwnsOf ==
    ASSUME NEW s \in Servers, NEW b \in Lists, NEW ns \in Seq(Node)
    PROVE  /\ Owns(s, b, ns) \in Seq(Ids)
           /\ ns = << >> => Owns(s, b, ns) = << >>
           /\ ns # << >> => Owns(s, b, ns) = Own(s, b, Head(ns)) \o Owns(s, b, Tail(ns))
<1> DEFINE g == [e \in Node |-> Own(s, b, e)]
<1>1. g \in [Node -> Seq(Ids)]
  BY OwnType
<1>2. ASSUME NEW l \in Seq(Node) PROVE Owns(s, b, l) = Each(g, l)
  <2>1. \A i \in DOMAIN l : l[i] \in Node
    OBVIOUS
  <2>2. \A i \in DOMAIN l : g[l[i]] = Own(s, b, l[i])
    BY <2>1
  <2> HIDE DEF g
  <2>3. [i \in DOMAIN l |-> g[l[i]]] = [i \in DOMAIN l |-> Own(s, b, l[i])]
    BY <2>2
  <2>4. QED  BY <2>3 DEF Owns, Each
<1>3. /\ Each(g, ns) \in Seq(Ids)
      /\ ns = << >> => Each(g, ns) = << >>
      /\ ns # << >> => Each(g, ns) = g[Head(ns)] \o Each(g, Tail(ns))
  <2> HIDE DEF g
  <2>1. ByHead(Ids, g, ns)
    BY <1>1, FlattenEach
  <2>2. QED  BY <2>1 DEF ByHead
<1>4. ns # << >> => Tail(ns) \in Seq(Node) /\ Head(ns) \in Node
  BY HeadTailProperties
<1> HIDE DEF g
<1>5. ns # << >> => Owns(s, b, Tail(ns)) = Each(g, Tail(ns))
  BY <1>2, <1>4
<1>6. ns # << >> => g[Head(ns)] = Own(s, b, Head(ns))
  BY <1>4 DEF g
<1>7. QED  BY <1>2, <1>3, <1>5, <1>6

Ground == [m \in Node |-> << >>]
Rung(s, b) == [m \in Node |-> Owns(s, b, s[m].components)]

\* One reference more gives lists of ids again.
LEMMA RungType ==
    ASSUME NEW s \in Servers, NEW b \in Lists
    PROVE  Rung(s, b) \in Lists
<1>1. ASSUME NEW m \in Node PROVE Owns(s, b, s[m].components) \in Seq(Ids)
  BY Answer, OwnsOf
<1>2. QED  BY <1>1 DEF Rung, Lists

\* What lies below d references is what lies below d - 1 of them, for each
\* reference.
LEMMA BelowRungs ==
    ASSUME NEW s \in Servers
    PROVE  /\ \A d \in 0 .. MaxDepth : Below(s)[d] \in Lists
           /\ \A d \in 1 .. MaxDepth, m \in Node :
                 Below(s)[d][m] = Owns(s, Below(s)[d - 1], s[m].components)
<1> DEFINE Climbs(f, n) == /\ f \in [0 .. n -> Lists]
                           /\ \A d \in 0 .. n : f[d] = IF d = 0 THEN Ground ELSE Rung(s, f[d - 1])
           T == {n \in Nat : n <= MaxDepth => \E f : Climbs(f, n)}
<1>0. MaxDepth \in Nat
  BY TreeAssumption
<1>1. 0 \in T
  <2> DEFINE f == [d \in 0 .. 0 |-> Ground]
  <2>1. Ground \in Lists
    BY DEF Ground, Lists
  <2>2. Climbs(f, 0)
    BY <2>1
  <2>3. QED  BY <2>2
<1>2. ASSUME NEW n \in Nat, n \in T PROVE n + 1 \in T
  <2>1. SUFFICES ASSUME n + 1 <= MaxDepth PROVE \E f : Climbs(f, n + 1)
    <3> HIDE DEF Climbs
    <3>1. QED  OBVIOUS
  <2>2. PICK g : Climbs(g, n)
    <3> HIDE DEF Climbs
    <3>1. n <= MaxDepth
      BY <1>0, <2>1
    <3>2. QED  BY <1>2, <3>1
  <2> DEFINE f == [d \in 0 .. n + 1 |-> IF d <= n THEN g[d] ELSE Rung(s, g[d - 1])]
  <2>3. g[n] \in Lists
    BY <2>2
  <2>4. Rung(s, g[n]) \in Lists
    BY <2>3, RungType
  <2>5. f \in [0 .. n + 1 -> Lists]
    BY <2>2, <2>4
  <2>6. ASSUME NEW d \in 0 .. n + 1
        PROVE  f[d] = IF d = 0 THEN Ground ELSE Rung(s, f[d - 1])
    <3>1. d # 0 => d - 1 \in 0 .. n /\ f[d - 1] = g[d - 1]
      OBVIOUS
    <3>2. CASE d <= n
      <4>1. d \in 0 .. n /\ f[d] = g[d]
        BY <3>2
      <4>2. g[d] = IF d = 0 THEN Ground ELSE Rung(s, g[d - 1])
        BY <2>2, <4>1
      <4>3. QED  BY <3>1, <4>1, <4>2
    <3>3. CASE ~(d <= n)
      <4>1. d # 0 /\ f[d] = Rung(s, g[d - 1])
        BY <3>3
      <4>2. QED  BY <3>1, <4>1
    <3>4. QED  BY <3>2, <3>3
  <2>7. Climbs(f, n + 1)
    BY <2>5, <2>6
  <2>8. QED  BY <2>7
<1>3. PICK f : Climbs(f, MaxDepth)
  <2> HIDE DEF T, Climbs
  <2>1. MaxDepth \in T
    BY <1>0, <1>1, <1>2, Induction
  <2>2. QED  BY <1>0, <2>1 DEF T
<1> DEFINE Step1(g, d) ==
               [m \in Node |-> IF d = 0 THEN << >> ELSE Owns(s, g[d - 1], s[m].components)]
<1>4. ASSUME NEW d \in 0 .. MaxDepth, NEW g
      PROVE  Step1(g, d) = IF d = 0 THEN Ground ELSE Rung(s, g[d - 1])
  BY DEF Ground, Rung
<1>5. f = [d \in 0 .. MaxDepth |-> Step1(f, d)]
  <2>1. f = [d \in 0 .. MaxDepth |-> f[d]]
    BY <1>3
  <2>2. \A d \in 0 .. MaxDepth : f[d] = Step1(f, d)
    <3> HIDE DEF Step1
    <3>1. QED  BY <1>3, <1>4
  <2> HIDE DEF Step1, Climbs
  <2>3. QED  BY <2>1, <2>2
<1>6. Below(s) = CHOOSE g : g = [d \in 0 .. MaxDepth |-> Step1(g, d)]
  BY DEF Below, Owns
<1>7. Below(s) = [d \in 0 .. MaxDepth |-> Step1(Below(s), d)]
  <2> HIDE DEF Step1, Climbs
  <2>1. QED  BY <1>5, <1>6
<1>8. ASSUME NEW d \in 0 .. MaxDepth
      PROVE  Below(s)[d] = IF d = 0 THEN Ground ELSE Rung(s, Below(s)[d - 1])
  <2>1. Below(s)[d] = Step1(Below(s), d)
    <3> HIDE DEF Step1
    <3>1. QED  BY <1>7
  <2> HIDE DEF Step1
  <2>2. QED  BY <1>4, <2>1
<1> HIDE DEF Step1, T, Climbs
<1>9. \A d \in 0 .. MaxDepth : Below(s)[d] \in Lists
  <2> DEFINE U == {n \in Nat : n <= MaxDepth => Below(s)[n] \in Lists}
  <2>1. 0 \in U
    <3>1. Ground \in Lists
      BY DEF Ground, Lists
    <3>2. QED  BY <1>8, <3>1
  <2>2. ASSUME NEW n \in Nat, n \in U PROVE n + 1 \in U
    <3>1. SUFFICES ASSUME n + 1 <= MaxDepth PROVE Below(s)[n + 1] \in Lists
      OBVIOUS
    <3>2. Below(s)[n] \in Lists
      BY <1>0, <2>2, <3>1
    <3>3. Below(s)[n + 1] = Rung(s, Below(s)[n])
      BY <1>0, <1>8, <3>1
    <3>4. QED  BY <3>2, <3>3, RungType
  <2> HIDE DEF U
  <2>3. Nat \subseteq U
    BY <2>1, <2>2, Induction
  <2>4. QED  BY <1>0, <2>3 DEF U
<1>10. ASSUME NEW d \in 1 .. MaxDepth, NEW m \in Node
       PROVE  Below(s)[d][m] = Owns(s, Below(s)[d - 1], s[m].components)
  <2>1. Below(s)[d] = Rung(s, Below(s)[d - 1])
    BY <1>8
  <2>2. QED  BY <2>1 DEF Rung
<1>11. QED  BY <1>9, <1>10

-----------------------------------------------------------------------------
(* What the calls on the stack have still to collect. *)

\* What a call has still to visit, d references above the bottom, and how much
\* of that is collected.
Referred(f, d, s) ==
    IF f.browsed THEN Owns(s, Below(s)[d - 1], f.fields) ELSE Below(s)[d][f.node]
Still(f, d, s) == Types(Below(s)[d], f.elements) \o Referred(f, d, s)

Todo(h, tr, f, d, s) == IF h[f.at] \/ Plain(tr, f.at) THEN << >> ELSE Still(f, d, s)

\* r[i] is what the first i calls have still to collect.  With every call the
\* stack gets higher as the bottom comes nearer.
Owed(h, tr, fs, ds, r, s) ==
    /\ ds \in [1 .. Len(fs) -> 1 .. MaxDepth]
    /\ r \in [0 .. Len(fs) -> Seq(Ids)] /\ r[0] = << >>
    /\ \A i \in 1 .. Len(fs) : /\ ds[i] + i > MaxDepth
                               /\ r[i] = Todo(h, tr, fs[i], ds[i], s) \o r[i - 1]

\* What all calls have, and all but the one on top.
All(r, fs) == r[Len(fs)]
Others(r, fs) == r[Len(fs) - 1]
TopOf(fs) == fs[Len(fs)]
Depth(ds, fs) == ds[Len(fs)]

\* What the calls have is what the one on top has, then what the others have.
Divided(h, tr, fs, d, q, s, rest) ==
    All(q, fs) = Todo(h, tr, TopOf(fs), d, s) \o rest

\* What a call has to do is a list of ids.
LEMMA TodoType ==
    ASSUME NEW s \in Servers, NEW f \in Frame, NEW d \in 1 .. MaxDepth, NEW h, NEW tr
    PROVE  Todo(h, tr, f, d, s) \in Seq(Ids)
<1>1. d - 1 \in 0 .. MaxDepth /\ d \in 0 .. MaxDepth
  BY TreeAssumption
<1>2. Below(s)[d] \in Lists /\ Below(s)[d - 1] \in Lists
  BY <1>1, BelowRungs
<1>3. f.elements \in Seq(Node \cup {NoType}) /\ f.fields \in Seq(Node) /\ f.node \in Node
  BY DEF Frame
<1>4. /\ Types(Below(s)[d], f.elements) \in Seq(Ids)
      /\ Owns(s, Below(s)[d - 1], f.fields) \in Seq(Ids)
      /\ Below(s)[d][f.node] \in Seq(Ids)
  BY <1>2, <1>3, TypesOf, OwnsOf DEF Lists
<1>5. PICK a \in Seq(Ids), b \in Seq(Ids) :
         Todo(h, tr, f, d, s) = IF h[f.at] \/ Plain(tr, f.at) THEN << >> ELSE a \o b
  BY <1>4, Zenon DEF Todo, Still, Referred
<1>6. QED  BY ONLY <1>5

\* The calls below the one on top have to do what they had.
SameBelow(h, tr, fs, h2, tr2, gs, s) ==
    /\ Len(gs) = Len(fs)
    /\ \A i \in 1 .. Len(fs) - 1, d \in 1 .. MaxDepth :
          Todo(h2, tr2, gs[i], d, s) = Todo(h, tr, fs[i], d, s)

\* The call on top goes on.
LEMMA OwedTop ==
    ASSUME NEW s \in Servers, NEW h, NEW tr, NEW fs \in Seq(Frame), NEW ds, NEW r,
           Owed(h, tr, fs, ds, r, s), fs # << >>,
           NEW h2, NEW tr2, NEW gs \in Seq(Frame),
           SameBelow(h, tr, fs, h2, tr2, gs, s)
    PROVE  \E q : /\ Owed(h2, tr2, gs, ds, q, s)
                  /\ Divided(h2, tr2, gs, Depth(ds, gs), q, s, Others(r, fs))
<1> DEFINE n == Len(fs)
           x == Todo(h2, tr2, gs[n], ds[n], s) \o r[n - 1]
           q == [i \in 0 .. n |-> IF i = n THEN x ELSE r[i]]
<1>1. n \in Nat \ {0} /\ n \in 1 .. n /\ n - 1 \in 0 .. n /\ 0 \in 0 .. n /\ n # 0
  OBVIOUS
<1>2. gs[n] \in Frame /\ ds[n] \in 1 .. MaxDepth /\ r[n - 1] \in Seq(Ids)
  <2>1. ds \in [1 .. n -> 1 .. MaxDepth] /\ r \in [0 .. n -> Seq(Ids)]
    BY DEF Owed
  <2>2. gs[n] \in Frame
    BY <1>1 DEF SameBelow
  <2> HIDE DEF n
  <2>3. QED  BY <1>1, <2>1, <2>2
<1>3. Todo(h2, tr2, gs[n], ds[n], s) \in Seq(Ids)
  BY <1>2, TodoType
<1>4. x \in Seq(Ids)
  BY <1>2, <1>3, ConcatProperties
<1>5. q \in [0 .. n -> Seq(Ids)] /\ q[0] = << >> /\ q[n] = x
  <2> HIDE DEF x
  <2>1. r \in [0 .. n -> Seq(Ids)] /\ r[0] = << >>
    BY DEF Owed
  <2>2. QED  BY <1>1, <1>4, <2>1
<1>6. ASSUME NEW i \in 1 .. n
      PROVE  ds[i] + i > MaxDepth /\ q[i] = Todo(h2, tr2, gs[i], ds[i], s) \o q[i - 1]
  <2>1. ds[i] + i > MaxDepth /\ r[i] = Todo(h, tr, fs[i], ds[i], s) \o r[i - 1]
        /\ ds[i] \in 1 .. MaxDepth
    BY DEF Owed
  <2>2. i \in 0 .. n /\ i - 1 \in 0 .. n /\ i - 1 # n
    BY <1>1
  <2>3. q[i - 1] = r[i - 1]
    BY <2>2
  <2>4. CASE i = n
    BY <1>5, <2>1, <2>3, <2>4
  <2>5. CASE i # n
    <3>1. i \in 1 .. n - 1 /\ q[i] = r[i]
      BY <1>1, <2>2, <2>5
    <3>2. Todo(h2, tr2, gs[i], ds[i], s) = Todo(h, tr, fs[i], ds[i], s)
      BY <2>1, <3>1 DEF SameBelow
    <3> HIDE DEF q
    <3>3. QED  BY <2>1, <2>3, <3>1, <3>2
  <2>6. QED  BY <2>4, <2>5
<1> HIDE DEF q, x
<1>7. Len(gs) = n /\ ds \in [1 .. Len(gs) -> 1 .. MaxDepth]
  BY DEF Owed, SameBelow
<1>8. Owed(h2, tr2, gs, ds, q, s)
  BY <1>5, <1>6, <1>7 DEF Owed
<1>9. QED  BY <1>5, <1>7, <1>8 DEF x, All, Others, TopOf, Depth, Divided

\* A call is made.
LEMMA OwedCall ==
    ASSUME NEW s \in Servers, NEW h, NEW tr, NEW fs \in Seq(Frame), NEW ds, NEW r,
           Owed(h, tr, fs, ds, r, s),
           NEW f \in Frame, NEW d \in 1 .. MaxDepth, d + (Len(fs) + 1) > MaxDepth
    PROVE  \E es, q : /\ Owed(h, tr, Append(fs, f), es, q, s)
                      /\ Divided(h, tr, Append(fs, f), d, q, s, All(r, fs))
<1> DEFINE n == Len(fs)
           gs == Append(fs, f)
           x == Todo(h, tr, f, d, s) \o r[n]
           es == [i \in 1 .. n + 1 |-> IF i = n + 1 THEN d ELSE ds[i]]
           q == [i \in 0 .. n + 1 |-> IF i = n + 1 THEN x ELSE r[i]]
<1>1. n \in Nat /\ n \in 0 .. n
  OBVIOUS
<1>2. Len(gs) = n + 1 /\ gs[n + 1] = f /\ \A i \in 1 .. n : gs[i] = fs[i]
  OBVIOUS
<1>3. Todo(h, tr, f, d, s) \in Seq(Ids)
  BY TodoType
<1>4. r[n] \in Seq(Ids)
  BY <1>1 DEF Owed
<1>5. x \in Seq(Ids)
  BY <1>3, <1>4, ConcatProperties
<1> HIDE DEF x
<1>6. q \in [0 .. n + 1 -> Seq(Ids)] /\ q[0] = << >> /\ q[n + 1] = x
  <2>1. r \in [0 .. n -> Seq(Ids)] /\ r[0] = << >>
    BY DEF Owed
  <2>2. QED  BY <1>1, <1>5, <2>1
<1>7. es \in [1 .. n + 1 -> 1 .. MaxDepth]
  <2>1. ds \in [1 .. n -> 1 .. MaxDepth]
    BY DEF Owed
  <2>2. QED  BY <1>1, <2>1
<1>8. ASSUME NEW i \in 1 .. n + 1
      PROVE  es[i] + i > MaxDepth /\ q[i] = Todo(h, tr, gs[i], es[i], s) \o q[i - 1]
  <2>1. i - 1 \in 0 .. n + 1 /\ i - 1 # n + 1 /\ i \in 0 .. n + 1
    BY <1>1
  <2>2. q[i - 1] = r[i - 1]
    BY <2>1
  <2>3. CASE i = n + 1
    <3>1. es[i] = d /\ q[i - 1] = r[n] /\ q[i] = x /\ gs[i] = f
      BY <1>1, <1>2, <1>6, <2>2, <2>3
    <3> HIDE DEF es, q, gs
    <3>2. QED  BY <2>3, <3>1 DEF x
  <2>4. CASE i # n + 1
    <3>1. i \in 1 .. n /\ es[i] = ds[i] /\ q[i] = r[i] /\ gs[i] = fs[i]
      BY <1>1, <1>2, <2>1, <2>4
    <3>2. ds[i] + i > MaxDepth /\ r[i] = Todo(h, tr, fs[i], ds[i], s) \o r[i - 1]
      BY <3>1 DEF Owed
    <3> HIDE DEF es, q, gs
    <3>3. QED  BY <2>2, <3>1, <3>2
  <2>5. QED  BY <2>3, <2>4
<1> HIDE DEF es, q, gs
<1>9. Owed(h, tr, gs, es, q, s)
  BY <1>2, <1>6, <1>7, <1>8 DEF Owed
<1>10. q[Len(gs)] = x
  BY <1>2, <1>6
<1>11. TopOf(gs) = f
  BY <1>2 DEF TopOf
<1>12. Divided(h, tr, gs, d, q, s, All(r, fs))
  BY <1>10, <1>11 DEF Divided, x, All
<1>13. QED  BY <1>9, <1>12, Zenon DEF gs

Handed(q, r, fs) == All(q, Front(fs)) = Others(r, fs)

\* A call returns.
LEMMA OwedReturn ==
    ASSUME NEW s \in Servers, NEW h, NEW tr, NEW fs \in Seq(Frame), NEW ds, NEW r,
           Owed(h, tr, fs, ds, r, s), fs # << >>
    PROVE  \E es, q : /\ Owed(h, tr, Front(fs), es, q, s)
                      /\ Handed(q, r, fs)
<1> DEFINE n == Len(fs) - 1
           gs == Front(fs)
           es == [i \in 1 .. n |-> ds[i]]
           q == [i \in 0 .. n |-> r[i]]
<1>1. n \in Nat /\ n \in 0 .. n /\ 0 \in 0 .. n
  OBVIOUS
<1>2. Len(gs) = n /\ \A i \in 1 .. n : gs[i] = fs[i]
  BY <1>1, FrontOf
<1>3. /\ ds \in [1 .. n + 1 -> 1 .. MaxDepth]
      /\ r \in [0 .. n + 1 -> Seq(Ids)] /\ r[0] = << >>
  BY DEF Owed
<1>4. es \in [1 .. n -> 1 .. MaxDepth] /\ q \in [0 .. n -> Seq(Ids)] /\ q[0] = << >>
  BY <1>1, <1>3
<1>5. ASSUME NEW i \in 1 .. n
      PROVE  es[i] + i > MaxDepth /\ q[i] = Todo(h, tr, gs[i], es[i], s) \o q[i - 1]
  <2>1. i - 1 \in 0 .. n /\ i \in 0 .. n /\ i \in 1 .. Len(fs)
    BY <1>1
  <2>2. es[i] = ds[i] /\ q[i] = r[i] /\ q[i - 1] = r[i - 1]
    BY <2>1
  <2>3. ds[i] + i > MaxDepth /\ r[i] = Todo(h, tr, fs[i], ds[i], s) \o r[i - 1]
    BY <2>1 DEF Owed
  <2> HIDE DEF es, q, gs
  <2>4. QED  BY <1>2, <2>2, <2>3
<1>6. q[n] = r[n]
  BY <1>1
<1> HIDE DEF es, q, gs
<1>7. Owed(h, tr, gs, es, q, s)
  BY <1>2, <1>4, <1>5 DEF Owed
<1>8. QED  BY <1>2, <1>6, <1>7 DEF gs, All, Others, Handed

Cut(h, tr) == [k \in 1 .. Len(tr) |-> h[k]]

\* Nodes that are added leave what is hidden, shown and still to do above.
LEMMA Kept ==
    ASSUME NEW tr, NEW tr2, Extends(tr, tr2), ParentsFirst(tr2), NEW h2, Covers(h2, tr2)
    PROVE  /\ Covers(Cut(h2, tr), tr)
           /\ \A k \in 1 .. Len(tr) : Shown(h2, tr2)[k] = Shown(Cut(h2, tr), tr)[k]
           /\ \A d, s : \A f \in Frame :
                 f.at \in 1 .. Len(tr) => Todo(h2, tr2, f, d, s) = Todo(Cut(h2, tr), tr, f, d, s)
<1> DEFINE h == Cut(h2, tr)
<1>1. /\ Len(tr) \in Nat /\ Len(tr2) \in Nat
      /\ \A k \in 1 .. Len(tr) : k \in 1 .. Len(tr2) /\ h[k] = h2[k] /\ tr2[k] = tr[k]
  BY DEF Extends, Cut
<1>2. h \in [1 .. Len(tr) -> BOOLEAN]
  BY <1>1 DEF Covers, Cut
<1> HIDE DEF h
<1>3. ASSUME NEW k \in 1 .. Len(tr)
      PROVE  h[k] = (tr[k].parent # 0 /\ (Plain(tr, tr[k].parent) \/ h[tr[k].parent]))
  <2>1. h2[k] = (tr2[k].parent # 0 /\ (Plain(tr2, tr2[k].parent) \/ h2[tr2[k].parent]))
    BY <1>1 DEF Covers
  <2>2. tr2[k].parent \in 0 .. k - 1 /\ tr2[k] = tr[k]
    BY <1>1 DEF ParentsFirst
  <2>3. tr[k].parent # 0 => tr[k].parent \in 1 .. Len(tr)
    BY <1>1, <2>2
  <2>4. QED  BY <1>1, <2>1, <2>2, <2>3 DEF Plain
<1>4. Covers(h, tr)
  BY <1>2, <1>3 DEF Covers
<1>5. \A k \in 1 .. Len(tr) : Shown(h2, tr2)[k] = Shown(h, tr)[k]
  BY <1>1 DEF Shown, Plain
<1>6. ASSUME NEW f \in Frame, NEW d, NEW s, f.at \in 1 .. Len(tr)
      PROVE  Todo(h2, tr2, f, d, s) = Todo(h, tr, f, d, s)
  <2>1. h[f.at] = h2[f.at] /\ Plain(tr2, f.at) = Plain(tr, f.at)
    BY <1>1, <1>6 DEF Plain
  <2>2. QED  BY <2>1, Zenon DEF Todo
<1>7. QED  BY <1>4, <1>5, <1>6 DEF h

Walking == pc \in {"type", "node_type", "build", "collect"} /\ ~disturbed

Exact(h, tr, fs, r) == FlattenSeq(Shown(h, tr)) \o All(r, fs) = Reference(server, root)
Whole(h, tr, fs) == \E ds, r : Owed(h, tr, fs, ds, r, server) /\ Exact(h, tr, fs, r)

\* What was collected of the nodes made so far, and what the calls have still to
\* collect, is the reference's.
Walked ==
    Walking => link /\ \A h : Covers(h, tree) => Whole(h, tree, frames)

\* The call on top goes on as `caller`, d references above the bottom; `rest` is
\* what the calls below it have to do.
Continued(h, tr, caller, ds, q, rest, d) ==
    /\ Owed(h, tr, SetTop(caller), ds, q, server)
    /\ d + Len(frames) > MaxDepth
    /\ All(q, SetTop(caller)) = Todo(h, tr, caller, d, server) \o rest
    /\ FlattenSeq(Shown(Cut(h, tree), tree)) \o (Todo(h, tr, Top, d, server) \o rest)
         = Reference(server, root)

\* When the call on top goes on, the calls below it still have what they had.
LEMMA WalkedTop ==
    ASSUME Inv, Placed, Walked, Walking, frames # << >>,
           NEW caller \in Frame, caller.at = Top.at,
           NEW tr2, Extends(tree, tr2), ParentsFirst(tr2), NEW h2, Covers(h2, tr2)
    PROVE  \E ds, q : \E rest \in Seq(Ids), d \in 1 .. MaxDepth :
              Continued(h2, tr2, caller, ds, q, rest, d)
<1> DEFINE h == Cut(h2, tree)
           n == Len(frames)
           gs == SetTop(caller)
<1>1. /\ frames \in Seq(Frame) /\ n \in Nat \ {0} /\ n \in 1 .. n
      /\ Top \in Frame /\ Good(Top, tree) /\ Top = frames[n] /\ server \in Servers
  BY TopFrame DEF Inv, Top
<1>2. /\ gs \in Seq(Frame) /\ Len(gs) = n /\ gs[n] = caller
      /\ \A i \in 1 .. n - 1 : gs[i] = frames[i]
  BY <1>1 DEF SetTop
<1>3. PICK ds, r : /\ Owed(h, tree, frames, ds, r, server)
                   /\ Exact(h, tree, frames, r)
  <2>1. Covers(h, tree)
    BY Kept
  <2>2. Whole(h, tree, frames)
    BY <2>1 DEF Walked
  <2>3. QED  BY <2>2 DEF Whole
<1>4. \A d : \A f \in Frame : f.at \in 1 .. Len(tree) =>
          Todo(h2, tr2, f, d, server) = Todo(h, tree, f, d, server)
  BY Kept
<1> HIDE DEF h, gs
<1>5. ASSUME NEW i \in 1 .. n - 1, NEW d \in 1 .. MaxDepth
      PROVE  Todo(h2, tr2, gs[i], d, server) = Todo(h, tree, frames[i], d, server)
  <2>1. i \in 1 .. n
    BY <1>1
  <2>2. frames[i] \in Frame
    BY <1>1, <2>1
  <2>3. frames[i].at \in 1 .. Len(tree)
    BY <2>1 DEF Inv, Stack, Good
  <2>4. gs[i] = frames[i]
    BY <1>2
  <2>5. QED  BY <1>4, <2>2, <2>3, <2>4
<1>6. PICK q : /\ Owed(h2, tr2, gs, ds, q, server)
               /\ Divided(h2, tr2, gs, Depth(ds, gs), q, server, Others(r, frames))
  <2>1. Owed(h, tree, frames, ds, r, server)
    BY <1>3
  <2>2. SameBelow(h, tree, frames, h2, tr2, gs, server)
    BY <1>2, <1>5 DEF SameBelow
  <2>3. gs \in Seq(Frame) /\ frames \in Seq(Frame) /\ server \in Servers
    BY <1>1, <1>2
  <2>4. QED  BY <2>1, <2>2, <2>3, OwedTop
<1>7. PICK d : d = ds[n]
  OBVIOUS
<1>t. TopOf(gs) = caller /\ Depth(ds, gs) = d
  BY <1>2, <1>7 DEF TopOf, Depth
<1>8. /\ d \in 1 .. MaxDepth /\ d + n > MaxDepth
      /\ All(r, frames) = Todo(h, tree, Top, d, server) \o Others(r, frames)
  BY <1>1, <1>3, <1>7 DEF Owed, All, Others
<1>9. Others(r, frames) \in Seq(Ids)
  <2>1. r \in [0 .. n -> Seq(Ids)]
    BY <1>3 DEF Owed
  <2>2. n - 1 \in 0 .. n
    BY <1>1
  <2>3. QED  BY <2>1, <2>2 DEF Others
<1>10. Todo(h2, tr2, Top, d, server) = Todo(h, tree, Top, d, server)
  BY <1>1, <1>4 DEF Good
<1>11. All(q, gs) = Todo(h2, tr2, caller, d, server) \o Others(r, frames)
  BY <1>6, <1>t DEF Divided
<1>12. FlattenSeq(Shown(h, tree)) \o (Todo(h2, tr2, Top, d, server) \o Others(r, frames))
         = Reference(server, root)
  BY <1>3, <1>8, <1>10 DEF Exact
<1>13. PICK rest \in Seq(Ids) : rest = Others(r, frames)
  BY <1>9
<1>14. /\ Owed(h2, tr2, gs, ds, q, server)
       /\ d + Len(frames) > MaxDepth
       /\ All(q, SetTop(caller)) = Todo(h2, tr2, caller, d, server) \o rest
       /\ FlattenSeq(Shown(h, tree)) \o (Todo(h2, tr2, Top, d, server) \o rest)
            = Reference(server, root)
  BY <1>6, <1>8, <1>11, <1>12, <1>13 DEF gs
<1>17. Continued(h2, tr2, caller, ds, q, rest, d)
  BY <1>14 DEF gs, h, Continued
<1>15. d \in 1 .. MaxDepth
  BY <1>8
<1>16. QED  BY <1>13, <1>17, <1>15, Zenon

-----------------------------------------------------------------------------
(* A call on top goes on, or makes another. *)

Joined(a, b) == a \o b

LEMMA JoinedType ==
    ASSUME NEW S, NEW a \in Seq(S), NEW b \in Seq(S)
    PROVE  Joined(a, b) \in Seq(S)
  BY DEF Joined

LEMMA Associative ==
    ASSUME NEW S, NEW a \in Seq(S), NEW b \in Seq(S), NEW c \in Seq(S)
    PROVE  Joined(Joined(a, b), c) = Joined(a, Joined(b, c))
  BY DEF Joined

\* What is shown of a child moves from what is to do to what is done.
LEMMA Regroup ==
    ASSUME NEW S, NEW a \in Seq(S), NEW x \in Seq(S), NEW b \in Seq(S), NEW c \in Seq(S),
           NEW r \in Seq(S)
    PROVE  Joined(Joined(a, x), Joined(b, Joined(c, r)))
             = Joined(a, Joined(Joined(x, Joined(b, c)), r))
<1>1. /\ Joined(b, c) \in Seq(S) /\ Joined(c, r) \in Seq(S)
      /\ Joined(b, Joined(c, r)) \in Seq(S)
  BY JoinedType
<1>2. Joined(Joined(a, x), Joined(b, Joined(c, r)))
        = Joined(a, Joined(x, Joined(b, Joined(c, r))))
  BY <1>1, Associative
<1>3. Joined(b, Joined(c, r)) = Joined(Joined(b, c), r)
  BY Associative
<1>4. Joined(x, Joined(Joined(b, c), r)) = Joined(Joined(x, Joined(b, c)), r)
  BY <1>1, Associative
<1>5. QED  BY <1>2, <1>3, <1>4

\* The call on top goes on and has to do what it had.
LEMMA WalkedKeep ==
    ASSUME Inv, Placed, Walked, Building, NEW caller \in Frame, caller.at = Top.at,
           frames' = SetTop(caller), UNCHANGED <<pc, tree, root, server, link, disturbed>>,
           \A h : \A d \in 1 .. MaxDepth :
              Todo(h, tree, caller, d, server) = Todo(h, tree, Top, d, server)
    PROVE  Walked'
<1>1. SUFFICES ASSUME Walking
               PROVE  link /\ \A h : Covers(h, tree) => Whole(h, tree, SetTop(caller))
  BY DEF Walked, Walking, Whole, Exact
<1>2. frames # << >> /\ tree \in Seq(TreeNode) /\ Len(tree) \in Nat
  BY DEF Building, Inv
<1>3. link
  BY <1>1 DEF Walked
<1>4. SUFFICES ASSUME NEW h, Covers(h, tree) PROVE Whole(h, tree, SetTop(caller))
  BY <1>3
<1>5. Extends(tree, tree) /\ ParentsFirst(tree)
  BY <1>2 DEF Extends, Placed
<1>6. Cut(h, tree) = h
  BY <1>4 DEF Cut, Covers
<1>7. PICK ds, q : \E rest \in Seq(Ids), d \in 1 .. MaxDepth :
                      Continued(h, tree, caller, ds, q, rest, d)
  BY <1>1, <1>2, <1>4, <1>5, WalkedTop
<1>8. PICK rest \in Seq(Ids), d \in 1 .. MaxDepth : Continued(h, tree, caller, ds, q, rest, d)
  BY <1>7
<1>9. Todo(h, tree, caller, d, server) = Todo(h, tree, Top, d, server)
  OBVIOUS
<1>10. /\ Owed(h, tree, SetTop(caller), ds, q, server)
       /\ FlattenSeq(Shown(h, tree)) \o All(q, SetTop(caller)) = Reference(server, root)
  BY <1>6, <1>8, <1>9 DEF Continued
<1>11. QED  BY <1>10 DEF Whole, Exact

\* What a call had to do is shown of the child, to do for the call made for it,
\* or still to do.
CallExact(tr2, caller, f) ==
    \A h : \A d \in 1 .. MaxDepth :
        Covers(h, tr2) /\ d + Len(frames) > MaxDepth /\ Len(frames) < MaxDepth =>
            \E e \in 1 .. MaxDepth :
                /\ e + (Len(frames) + 1) > MaxDepth
                /\ Todo(h, tr2, Top, d, server)
                     = Shown(h, tr2)[Len(tr2)]
                       \o (Todo(h, tr2, f, e, server) \o Todo(h, tr2, caller, d, server))

\* A new node shows after all the others.
LEMMA ShownAppend ==
    ASSUME NEW tr \in Seq(TreeNode), NEW child \in TreeNode, NEW h2,
           ParentsFirst(Append(tr, child)), Covers(h2, Append(tr, child))
    PROVE  /\ Extends(tr, Append(tr, child))
           /\ Shown(h2, Append(tr, child))
                = Append(Shown(Cut(h2, tr), tr), Shown(h2, Append(tr, child))[Len(tr) + 1])
<1> DEFINE tr2 == Append(tr, child)
           n == Len(tr)
<1>1. /\ n \in Nat /\ Len(tr2) = n + 1 /\ tr2 \in Seq(TreeNode)
      /\ \A k \in 1 .. n : tr2[k] = tr[k]
  OBVIOUS
<1> HIDE DEF tr2
<1>2. Extends(tr, tr2)
  BY <1>1 DEF Extends
<1>3. PICK s2, s : s2 = Shown(h2, tr2) /\ s = Shown(Cut(h2, tr), tr)
  OBVIOUS
<1>4. s2 \in Seq(Seq(Ids)) /\ s \in Seq(Seq(Ids)) /\ Len(s2) = n + 1 /\ Len(s) = n
  <2>1. s2 \in Seq(Seq(Ids)) /\ s \in Seq(Seq(Ids))
    BY <1>1, <1>3, ShownType
  <2>2. DOMAIN s2 = 1 .. n + 1 /\ DOMAIN s = 1 .. n
    BY <1>1, <1>3 DEF Shown
  <2>3. QED  BY <1>1, <2>1, <2>2
<1>5. \A k \in 1 .. n : s2[k] = s[k]
  <2>1. \A k \in 1 .. n : Shown(h2, tr2)[k] = Shown(Cut(h2, tr), tr)[k]
    BY <1>2, Kept DEF tr2
  <2>2. QED  BY <1>3, <2>1
<1>6. s2 = Append(s, s2[n + 1])
  BY ONLY <1>1, <1>4, <1>5
<1>7. QED  BY <1>2, <1>3, <1>6 DEF tr2

\* add_child, and the call for the child.
LEMMA WalkedCall ==
    ASSUME Inv, Placed, Placed', Walked, Building, NEW child \in TreeNode, NEW caller \in Frame,
           NEW node \in Node, NEW elements \in Seq(Node \cup {NoType}),
           caller.at = Top.at, AddAndCall(child, caller, node, elements),
           UNCHANGED <<root, server, link, disturbed>>,
           CallExact(Append(tree, child), caller, Call(Len(tree) + 1, node, elements))
    PROVE  Walked'
<1> DEFINE n == Len(frames)
           f == Call(Len(tree) + 1, node, elements)
           gs == SetTop(caller)
<1>1. SUFFICES ASSUME Walking' PROVE Walked'
  BY DEF Walked
<1>2. /\ Walking /\ frames # << >> /\ tree \in Seq(TreeNode) /\ Len(tree) \in Nat
      /\ server \in Servers
  BY <1>1 DEF Building, Inv, Walking
<1>3. n < MaxDepth /\ frames' = Append(gs, f)
  BY <1>1 DEF Walking, AddAndCall, Step
<1>4. PICK tr2 : tr2 = Append(tree, child)
  OBVIOUS
<1>5. tree' = tr2 /\ ParentsFirst(tr2)
  BY <1>4 DEF AddAndCall, Placed
<1>6. tr2 \in Seq(TreeNode) /\ Len(tr2) = Len(tree) + 1
  BY <1>2, <1>4
<1>7. f \in Frame /\ gs \in Seq(Frame) /\ Len(gs) = n /\ n \in Nat
  <2>1. f \in Frame
    BY <1>2 DEF Call, Frame
  <2>2. frames \in Seq(Frame) /\ n \in Nat
    BY DEF Inv, Stack
  <2>3. gs \in Seq(Frame) /\ Len(gs) = n
    BY <1>2, <2>2 DEF SetTop
  <2>4. QED  BY <2>1, <2>2, <2>3
<1>8. CallExact(tr2, caller, f)
  BY <1>4
<1> HIDE DEF f, gs
<1>9. link
  BY <1>2 DEF Walked
<1>10. ASSUME NEW h, Covers(h, tr2) PROVE Whole(h, tr2, Append(gs, f))
  <2>1. /\ Extends(tree, tr2)
        /\ Shown(h, tr2) = Append(Shown(Cut(h, tree), tree), Shown(h, tr2)[Len(tree) + 1])
    BY <1>2, <1>4, <1>5, <1>10, ShownAppend
  <2>2. PICK ds, q : \E rest \in Seq(Ids), d \in 1 .. MaxDepth :
                        Continued(h, tr2, caller, ds, q, rest, d)
    BY <1>2, <1>5, <1>10, <2>1, WalkedTop
  <2>3. PICK rest \in Seq(Ids), d \in 1 .. MaxDepth : Continued(h, tr2, caller, ds, q, rest, d)
    BY <2>2
  <2>4. Owed(h, tr2, gs, ds, q, server) /\ d + n > MaxDepth
    BY <2>3 DEF Continued, gs
  <2>5. PICK e \in 1 .. MaxDepth :
           /\ e + (n + 1) > MaxDepth
           /\ Todo(h, tr2, Top, d, server)
                = Shown(h, tr2)[Len(tr2)]
                  \o (Todo(h, tr2, f, e, server) \o Todo(h, tr2, caller, d, server))
    BY <1>3, <1>8, <1>10, <2>4 DEF CallExact
  <2>6. e + (Len(gs) + 1) > MaxDepth
    BY <1>7, <2>5
  <2>7. PICK es, p : Owed(h, tr2, Append(gs, f), es, p, server)
                     /\ Divided(h, tr2, Append(gs, f), e, p, server, All(q, gs))
    BY <1>2, <1>7, <2>4, <2>5, <2>6, OwedCall
  <2>8. All(p, Append(gs, f)) = Todo(h, tr2, f, e, server) \o All(q, gs)
    <3>1. TopOf(Append(gs, f)) = f
      BY <1>7 DEF TopOf
    <3>2. QED  BY <2>7, <3>1 DEF Divided
  <2>9. PICK a, x, b, c, t : /\ a = FlattenSeq(Shown(Cut(h, tree), tree))
                             /\ x = Shown(h, tr2)[Len(tr2)]
                             /\ b = Todo(h, tr2, f, e, server)
                             /\ c = Todo(h, tr2, caller, d, server)
                             /\ t = Todo(h, tr2, Top, d, server)
    OBVIOUS
  <2>10. a \in Seq(Ids) /\ x \in Seq(Ids) /\ b \in Seq(Ids) /\ c \in Seq(Ids)
    <3>1. Shown(Cut(h, tree), tree) \in Seq(Seq(Ids)) /\ Shown(h, tr2) \in Seq(Seq(Ids))
      BY <1>2, <1>6, ShownType
    <3>2. a \in Seq(Ids)
      BY <2>9, <3>1, Flatten
    <3>3. Len(tr2) \in DOMAIN Shown(h, tr2)
      BY <1>2, <1>6 DEF Shown
    <3>4. x \in Seq(Ids)
      BY <2>9, <3>1, <3>3
    <3>5. QED  BY <1>2, <1>7, <2>3, <2>5, <2>9, <3>2, <3>4, TodoType
  <2>11. FlattenSeq(Shown(h, tr2)) = a \o x
    <3>1. Shown(Cut(h, tree), tree) \in Seq(Seq(Ids))
      BY <1>2, ShownType
    <3>2. Shown(h, tr2) = Append(Shown(Cut(h, tree), tree), x)
      BY <1>6, <2>1, <2>9
    <3>3. QED  BY <2>9, <2>10, <3>1, <3>2, Flatten
  <2>12. a \o (t \o rest) = Reference(server, root) /\ All(q, gs) = c \o rest
    BY <2>3, <2>9 DEF Continued, gs
  <2>13. t = x \o (b \o c)
    BY <2>5, <2>9
  <2>14. All(p, Append(gs, f)) = b \o (c \o rest)
    BY <2>8, <2>9, <2>12
  <2>15. (a \o x) \o (b \o (c \o rest)) = a \o ((x \o (b \o c)) \o rest)
    <3>0. rest \in Seq(Ids)
      BY <2>3
    <3>1. Joined(Joined(a, x), Joined(b, Joined(c, rest)))
            = Joined(a, Joined(Joined(x, Joined(b, c)), rest))
      BY <2>10, <3>0, Regroup
    <3>2. QED  BY <3>1, Zenon DEF Joined
  <2>16. FlattenSeq(Shown(h, tr2)) \o All(p, Append(gs, f)) = Reference(server, root)
    BY ONLY <2>11, <2>12, <2>13, <2>14, <2>15
  <2>17. QED  BY <2>7, <2>16 DEF Whole, Exact
<1>11. QED  BY <1>3, <1>5, <1>9, <1>10 DEF Walked, Whole, Exact

Grown(tr, child, tr2) == tr2 = Append(tr, child)
Made(f, at, node, elements) == f = Call(at, node, elements)
PlainArray(child) == child.type = "array" /\ ~child.structure

\* What is shown of the last node of tr and to do for it and for two more calls,
\* if the node its parent's call is for is hidden, or not.
Parts(child, tr, h, caller, f, d, e, hidden) ==
    /\ Todo(h, tr, Top, d, server) = IF hidden THEN << >> ELSE Still(Top, d, server)
    /\ Todo(h, tr, caller, d, server) = IF hidden THEN << >> ELSE Still(caller, d, server)
    /\ Todo(h, tr, f, e, server)
         = IF hidden \/ PlainArray(child) THEN << >> ELSE Still(f, e, server)
    /\ Shown(h, tr)[Len(tr)] = IF ~hidden /\ (child.type = "value" \/ PlainArray(child))
                                 THEN <<child.id>> ELSE << >>

\* Under a hidden node nothing is shown and nothing is to do.
LEMMA CallParts ==
    ASSUME Inv, Placed, Building, NEW child \in TreeNode, child.parent = Top.at,
           NEW tr2, Grown(tree, child, tr2),
           NEW caller \in Frame, caller.at = Top.at,
           NEW f \in Frame, f.at = Len(tree) + 1,
           NEW h, Covers(h, tr2), NEW d, NEW e
    PROVE  \E hidden : Parts(child, tr2, h, caller, f, d, e, hidden)
<1>2. tree \in Seq(TreeNode) /\ Len(tree) \in Nat /\ Top.at \in 1 .. Len(tree)
  BY TopFrame DEF Inv, Building, Good
<1>3. Len(tr2) = Len(tree) + 1 /\ tr2[Len(tr2)] = child
  BY <1>2 DEF Grown
<1>4. h[Len(tr2)] = (h[Top.at] \/ Plain(tr2, Top.at))
  <2>1. Len(tr2) \in 1 .. Len(tr2)
    BY <1>2, <1>3
  <2>2. h[Len(tr2)] = (Top.at # 0 /\ (Plain(tr2, Top.at) \/ h[Top.at]))
    BY <1>3, <2>1 DEF Covers
  <2>3. QED  BY <1>2, <2>2
<1>5. Plain(tr2, Len(tr2)) = PlainArray(child)
  BY <1>3 DEF Plain, PlainArray
<1>6. Shown(h, tr2)[Len(tr2)]
        = IF ~h[Len(tr2)] /\ (child.type = "value" \/ Plain(tr2, Len(tr2)))
            THEN <<child.id>> ELSE << >>
  BY <1>2, <1>3 DEF Shown
<1>7. f.at = Len(tr2)
  BY <1>3
<1>8. /\ Todo(h, tr2, Top, d, server)
           = IF h[Top.at] \/ Plain(tr2, Top.at) THEN << >> ELSE Still(Top, d, server)
      /\ Todo(h, tr2, caller, d, server)
           = IF h[Top.at] \/ Plain(tr2, Top.at) THEN << >> ELSE Still(caller, d, server)
      /\ Todo(h, tr2, f, e, server)
           = IF h[Len(tr2)] \/ Plain(tr2, Len(tr2)) THEN << >> ELSE Still(f, e, server)
  BY <1>7 DEF Todo
<1>9. Parts(child, tr2, h, caller, f, d, e, h[Top.at] \/ Plain(tr2, Top.at))
  BY <1>3, <1>4, <1>5, <1>6, <1>8 DEF Parts
<1>10. QED  BY <1>9

Fresh(f, node, elements, d, s) ==
    Still(f, d, s) = Types(Below(s)[d], elements) \o Below(s)[d][node]

\* A call that was just made has its elements and references before it.
LEMMA StillOfCall ==
    ASSUME NEW at, NEW node, NEW elements, NEW f, Made(f, at, node, elements),
           NEW d, NEW s
    PROVE  Fresh(f, node, elements, d, s)
<1>1. f.elements = elements /\ f.node = node /\ ~f.browsed
  BY DEF Call, Made
<1>2. Referred(f, d, s) = Below(s)[d][node]
  BY <1>1 DEF Referred
<1>3. Still(f, d, s) = Types(Below(s)[d], elements) \o Below(s)[d][node]
  BY <1>1, <1>2, Zenon DEF Still
<1>4. QED  BY <1>3 DEF Fresh

\* The reference's lists at two depths next to each other.
LEMMA BelowTypes ==
    ASSUME NEW s \in Servers, NEW d \in 1 .. MaxDepth
    PROVE  /\ d \in 0 .. MaxDepth /\ d - 1 \in 0 .. MaxDepth
           /\ Below(s)[d] \in Lists /\ Below(s)[d - 1] \in Lists
           /\ \A m \in Node : Below(s)[d][m] \in Seq(Ids) /\ Below(s)[d - 1][m] \in Seq(Ids)
<1>1. d \in 0 .. MaxDepth /\ d - 1 \in 0 .. MaxDepth
  BY TreeAssumption
<1>2. Below(s)[d] \in Lists /\ Below(s)[d - 1] \in Lists
  BY <1>1, BelowRungs
<1>3. QED  BY <1>1, <1>2 DEF Lists

\* Lists are joined in any grouping.
LEMMA Associated ==
    ASSUME NEW S, NEW a \in Seq(S), NEW b \in Seq(S), NEW c \in Seq(S)
    PROVE  Joined(Joined(a, b), c) = Joined(a, Joined(b, c))
BY DEF Joined

\* Joining nothing changes nothing.
LEMMA NoneShown ==
    /\ << >> \in Seq(Ids) /\ Joined(<< >>, << >>) = << >>
    /\ \A a \in Seq(Ids) : Joined(<< >>, a) = a /\ Joined(a, << >>) = a
    /\ \A a, b \in Seq(Ids) : Joined(a, b) \in Seq(Ids)
<1>1. << >> \in Seq(Ids) /\ Joined(<< >>, << >>) = << >>
  BY DEF Joined
<1>2. ASSUME NEW a \in Seq(Ids) PROVE Joined(<< >>, a) = a /\ Joined(a, << >>) = a
  BY DEF Joined
<1>3. ASSUME NEW a \in Seq(Ids), NEW b \in Seq(Ids) PROVE Joined(a, b) \in Seq(Ids)
  BY DEF Joined
<1>4. QED  BY <1>1, <1>2, <1>3

\* A decoded structure shows nothing itself, and what is below its data type is
\* what its call has to do.
LEMMA ElementExact ==
    ASSUME Inv, Placed, Building, Top.elements # << >>, NEW element \in Node,
           element = Head(Top.elements),
           NEW child \in TreeNode, child.parent = Top.at, child.type = "structure",
           NEW caller \in Frame, caller = [Top EXCEPT !.elements = Tail(@)],
           NEW f \in Frame, f = Call(Len(tree) + 1, element, << >>)
    PROVE  CallExact(Append(tree, child), caller, f)
<1>1. PICK tr2 : tr2 = Append(tree, child)
  OBVIOUS
<1>2. tree \in Seq(TreeNode) /\ Len(tree) \in Nat /\ Top \in Frame /\ server \in Servers
      /\ frames # << >> /\ frames \in Seq(Frame) /\ Len(frames) \in Nat
  BY TopFrame DEF Inv, Building, Stack
<1>3. SUFFICES ASSUME NEW h, NEW d \in 1 .. MaxDepth, Covers(h, tr2), d + Len(frames) > MaxDepth
               PROVE  Todo(h, tr2, Top, d, server)
                        = Shown(h, tr2)[Len(tr2)]
                          \o (Todo(h, tr2, f, d, server) \o Todo(h, tr2, caller, d, server))
  <2>1. \A d \in 1 .. MaxDepth : d + Len(frames) > MaxDepth => d + (Len(frames) + 1) > MaxDepth
    BY <1>2, TreeAssumption
  <2>2. QED  BY <1>1, <1>3, <2>1, Zenon DEF CallExact
<1>4. caller.at = Top.at /\ caller.elements = Tail(Top.elements)
      /\ caller.fields = Top.fields /\ caller.browsed = Top.browsed /\ caller.node = Top.node
  BY <1>2 DEF Frame
<1>5. f.at = Len(tree) + 1
  BY DEF Call
<1>6. PICK hidden :
         /\ Todo(h, tr2, Top, d, server) = IF hidden THEN << >> ELSE Still(Top, d, server)
         /\ Todo(h, tr2, caller, d, server) = IF hidden THEN << >> ELSE Still(caller, d, server)
         /\ Todo(h, tr2, f, d, server) = IF hidden THEN << >> ELSE Still(f, d, server)
         /\ Shown(h, tr2)[Len(tr2)] = << >>
  <2>1. PICK hidden : Parts(child, tr2, h, caller, f, d, d, hidden)
    <3>1. Grown(tree, child, tr2)
      BY <1>1 DEF Grown
    <3>2. QED  BY <1>3, <1>4, <1>5, <3>1, CallParts
  <2>2. ~PlainArray(child) /\ child.type # "value"
    BY DEF PlainArray
  <2>3. QED  BY <2>1, <2>2 DEF Parts
<1>7. PICK b, rest : b = Below(server)[d] /\ rest = Referred(Top, d, server)
  OBVIOUS
<1>8. b \in Lists /\ rest \in Seq(Ids) /\ b[element] \in Seq(Ids)
  <2>1. Top.fields \in Seq(Node) /\ Top.node \in Node
    BY <1>2 DEF Frame
  <2>2. rest \in Seq(Ids)
    BY <1>2, <1>7, <2>1, BelowTypes, OwnsOf DEF Referred
  <2>3. QED  BY <1>2, <1>7, <2>2, BelowTypes
<1>9. PICK types : types = Types(b, Tail(Top.elements))
  OBVIOUS
<1>10. Types(b, Top.elements) = b[element] \o types /\ types \in Seq(Ids)
       /\ Types(b, << >>) = << >>
  <2>1. Top.elements \in Seq(Node \cup {NoType})
    BY <1>2 DEF Frame
  <2>2. Tail(Top.elements) \in Seq(Node \cup {NoType}) /\ << >> \in Seq(Node \cup {NoType})
    BY <2>1, HeadTailProperties
  <2>3. element # NoType
    BY TreeAssumption
  <2>4. /\ Types(b, Top.elements) = (IF element = NoType THEN << >> ELSE b[element]) \o types
        /\ types \in Seq(Ids) /\ Types(b, << >>) = << >>
    BY <1>8, <1>9, <2>1, <2>2, TypesOf
  <2>5. QED  BY <2>3, <2>4
<1>11. Still(Top, d, server) = Joined(Joined(b[element], types), rest)
  BY <1>7, <1>10, Zenon DEF Still, Joined
<1>12. Still(caller, d, server) = Joined(types, rest)
  <2>1. Referred(caller, d, server) = rest
    BY <1>4, <1>7 DEF Referred
  <2>2. QED  BY <1>4, <1>7, <1>9, <2>1, Zenon DEF Still, Joined
<1>13. Still(f, d, server) = Joined(<< >>, b[element])
  <2>1. Still(f, d, server) = Types(Below(server)[d], << >>) \o Below(server)[d][element]
    <3>1. Made(f, Len(tree) + 1, element, << >>)
      BY DEF Made
    <3>2. Fresh(f, element, << >>, d, server)
      BY <3>1, StillOfCall
    <3>3. QED  BY <3>2, Zenon DEF Fresh
  <2>2. QED  BY <1>7, <1>10, <2>1, Zenon DEF Joined
<1>14. Todo(h, tr2, Top, d, server)
         = Joined(Shown(h, tr2)[Len(tr2)],
                  Joined(Todo(h, tr2, f, d, server), Todo(h, tr2, caller, d, server)))
  <2>1. CASE hidden
    BY <1>6, <2>1, NoneShown
  <2>2. CASE ~hidden
    <3>1. /\ Todo(h, tr2, Top, d, server) = Joined(Joined(b[element], types), rest)
          /\ Todo(h, tr2, caller, d, server) = Joined(types, rest)
          /\ Todo(h, tr2, f, d, server) = b[element]
          /\ Shown(h, tr2)[Len(tr2)] = << >>
      BY <1>6, <1>8, <1>11, <1>12, <1>13, <2>2, NoneShown
    <3>2. PICK x, y : x = b[element] /\ y = Joined(types, rest)
      OBVIOUS
    <3>3. Joined(Joined(x, types), rest) = Joined(<< >>, Joined(x, y))
      <4>1. x \in Seq(Ids) /\ y \in Seq(Ids) /\ Joined(x, y) \in Seq(Ids)
        BY <1>8, <1>10, <3>2, NoneShown
      <4>2. Joined(Joined(x, types), rest) = Joined(x, y)
        BY <1>8, <1>10, <3>2, <4>1, Associated
      <4>3. Joined(<< >>, Joined(x, y)) = Joined(x, y)
        BY <4>1, NoneShown
      <4>4. QED  BY <4>2, <4>3
    <3>4. QED  BY <3>1, <3>2, <3>3
  <2>3. QED  BY <2>1, <2>2
<1>15. QED  BY <1>14, Zenon DEF Joined

\* A call goes one level deeper, and there is room on the stack for as many more.
LEMMA OneDeeper ==
    ASSUME NEW d \in 1 .. MaxDepth, NEW n \in Nat, d + n > MaxDepth, n < MaxDepth
    PROVE  \E e \in 1 .. MaxDepth : e = d - 1 /\ e + (n + 1) > MaxDepth
<1>1. d - 1 \in 1 .. MaxDepth /\ (d - 1) + (n + 1) > MaxDepth
  BY TreeAssumption
<1>2. QED  BY <1>1

\* A reference shows its node or nothing, and then what the reference says is
\* below it.
LEMMA FieldExact ==
    ASSUME Inv, Placed, Building, Top.elements = << >>, Top.browsed, Top.fields # << >>,
           NEW field \in Node, field = Head(Top.fields), NEW v, v = server[field],
           NEW child \in TreeNode, child.parent = Top.at, child.id = field,
           child.type = FieldType(v), child.structure = (v.value = "structure"),
           NEW caller \in Frame, caller = [Top EXCEPT !.fields = Tail(@)],
           NEW f \in Frame, f = Call(Len(tree) + 1, field, v.elements)
    PROVE  CallExact(Append(tree, child), caller, f)
<1>1. PICK tr2 : tr2 = Append(tree, child)
  OBVIOUS
<1>2. tree \in Seq(TreeNode) /\ Len(tree) \in Nat /\ Top \in Frame /\ server \in Servers
      /\ frames # << >> /\ frames \in Seq(Frame) /\ Len(frames) \in Nat
  BY TopFrame DEF Inv, Building, Stack
<1>3. SUFFICES ASSUME NEW h, NEW d \in 1 .. MaxDepth, NEW e \in 1 .. MaxDepth, e = d - 1,
                      Covers(h, tr2)
               PROVE  Todo(h, tr2, Top, d, server)
                        = Shown(h, tr2)[Len(tr2)]
                          \o (Todo(h, tr2, f, e, server) \o Todo(h, tr2, caller, d, server))
  <2>1. ASSUME NEW d \in 1 .. MaxDepth, d + Len(frames) > MaxDepth, Len(frames) < MaxDepth
        PROVE  \E e \in 1 .. MaxDepth : e = d - 1 /\ e + (Len(frames) + 1) > MaxDepth
    BY <1>2, <2>1, OneDeeper, Zenon
  <2>2. ASSUME NEW h, NEW d \in 1 .. MaxDepth, Covers(h, tr2),
               d + Len(frames) > MaxDepth, Len(frames) < MaxDepth
        PROVE  \E e \in 1 .. MaxDepth :
                  /\ e + (Len(frames) + 1) > MaxDepth
                  /\ Todo(h, tr2, Top, d, server)
                       = Shown(h, tr2)[Len(tr2)]
                         \o (Todo(h, tr2, f, e, server) \o Todo(h, tr2, caller, d, server))
    BY <1>3, <2>1, <2>2, Zenon
  <2>3. CallExact(tr2, caller, f)
    BY <2>2, Zenon DEF CallExact
  <2>4. QED  BY <1>1, <2>3, Zenon
<1>4. caller.at = Top.at /\ caller.elements = << >> /\ caller.browsed
      /\ caller.fields = Tail(Top.fields)
  BY <1>2 DEF Frame
<1>5. f.at = Len(tree) + 1
  BY DEF Call
<1>6. PICK hidden, plain :
         /\ plain = PlainArray(child)
         /\ Todo(h, tr2, Top, d, server) = IF hidden THEN << >> ELSE Still(Top, d, server)
         /\ Todo(h, tr2, caller, d, server) = IF hidden THEN << >> ELSE Still(caller, d, server)
         /\ Todo(h, tr2, f, e, server) = IF hidden \/ plain THEN << >> ELSE Still(f, e, server)
         /\ Shown(h, tr2)[Len(tr2)] = IF ~hidden /\ (child.type = "value" \/ plain)
                                       THEN <<field>> ELSE << >>
  <2>1. PICK hidden : Parts(child, tr2, h, caller, f, d, e, hidden)
    <3>1. Grown(tree, child, tr2)
      BY <1>1 DEF Grown
    <3>2. QED  BY <1>3, <1>4, <1>5, <3>1, CallParts
  <2>2. QED  BY <2>1 DEF Parts
<1>7. PICK b, c : b = Below(server)[d] /\ c = Below(server)[e]
  OBVIOUS
<1>8. b \in Lists /\ c \in Lists /\ c[field] \in Seq(Ids)
  BY <1>2, <1>7, BelowTypes
<1>9. PICK own, rest : own = Own(server, c, field) /\ rest = Owns(server, c, Tail(Top.fields))
  OBVIOUS
<1>10. /\ Owns(server, c, Top.fields) = own \o rest
       /\ own \in Seq(Ids) /\ rest \in Seq(Ids)
  <2>1. Top.fields \in Seq(Node) /\ Tail(Top.fields) \in Seq(Node)
    BY <1>2, HeadTailProperties DEF Frame
  <2>2. QED  BY <1>2, <1>8, <1>9, <2>1, OwnsOf, OwnType
<1>11. Types(b, << >>) = << >> /\ Types(c, << >>) = << >>
  <2>1. << >> \in Seq(Node \cup {NoType})
    OBVIOUS
  <2>2. QED  BY <1>8, <2>1, TypesOf
<1>12. Still(Top, d, server) = Joined(<< >>, Joined(own, rest))
  <2>1. Referred(Top, d, server) = Owns(server, c, Top.fields)
    BY <1>3, <1>7 DEF Referred
  <2>2. QED  BY <1>7, <1>10, <1>11, <2>1, Zenon DEF Still, Joined
<1>13. Still(caller, d, server) = Joined(<< >>, rest)
  <2>1. Referred(caller, d, server) = rest
    BY <1>3, <1>4, <1>7, <1>9 DEF Referred
  <2>2. QED  BY <1>4, <1>7, <1>11, <2>1, Zenon DEF Still, Joined
<1>14. Still(f, e, server) = Joined(Types(c, v.elements), c[field])
  <2>1. Still(f, e, server) = Types(Below(server)[e], v.elements) \o Below(server)[e][field]
    <3>1. Made(f, Len(tree) + 1, field, v.elements)
      BY DEF Made
    <3>2. Fresh(f, field, v.elements, e, server)
      BY <3>1, StillOfCall
    <3>3. QED  BY <3>2, Zenon DEF Fresh
  <2>2. QED  BY <1>7, <2>1, Zenon DEF Joined
<1>15. Types(c, v.elements) \in Seq(Ids)
  BY <1>2, <1>8, Answer, TypesOf
<1>16. CASE hidden
  <2>1. Todo(h, tr2, Top, d, server)
         = Joined(Shown(h, tr2)[Len(tr2)],
                  Joined(Todo(h, tr2, f, e, server), Todo(h, tr2, caller, d, server)))
    BY <1>6, <1>16, NoneShown
  <2>2. QED  BY <2>1, Zenon DEF Joined
<1>17. CASE ~hidden
  <2>1. PICK x, t : x = Shown(h, tr2)[Len(tr2)] /\ t = Todo(h, tr2, f, e, server)
    OBVIOUS
  <2>2. own = Joined(x, t) /\ x \in Seq(Ids) /\ t \in Seq(Ids)
    <3>1. own = IF v.value = "structure" THEN Joined(Types(c, v.elements), c[field])
                ELSE IF v.elements # << >> THEN <<field>>
                ELSE Joined(<<field>>, c[field])
      BY <1>9, Zenon DEF Own, Types, Joined
    <3>2. <<field>> \in Seq(Ids)
      BY DEF Ids
    <3>3. CASE v.value = "structure"
      <4>1. child.type \in {"array", "structure"} /\ ~PlainArray(child)
        BY <3>3 DEF FieldType, PlainArray
      <4>2. x = << >> /\ t = Still(f, e, server)
        BY <1>6, <1>17, <2>1, <4>1
      <4>3. QED  BY <1>8, <1>14, <1>15, <3>1, <3>3, <4>2, NoneShown
    <3>4. CASE v.value # "structure" /\ v.elements # << >>
      <4>1. child.type = "array" /\ PlainArray(child)
        BY <3>4 DEF FieldType, PlainArray
      <4>2. x = <<field>> /\ t = << >>
        BY <1>6, <1>17, <2>1, <4>1
      <4>3. QED  BY <3>1, <3>2, <3>4, <4>2, NoneShown
    <3>5. CASE v.value # "structure" /\ v.elements = << >>
      <4>1. child.type = "value" /\ ~PlainArray(child)
        BY <3>5 DEF FieldType, PlainArray
      <4>2. x = <<field>> /\ t = Still(f, e, server)
        BY <1>6, <1>17, <2>1, <4>1
      <4>3. t = c[field]
        BY <1>8, <1>11, <1>14, <3>5, <4>2, NoneShown
      <4>4. QED  BY <1>8, <3>1, <3>2, <3>5, <4>2, <4>3, NoneShown
    <3>6. QED  BY <3>3, <3>4, <3>5
  <2>3. Todo(h, tr2, Top, d, server) = Joined(own, rest)
    BY <1>6, <1>10, <1>12, <1>17, NoneShown
  <2>4. Todo(h, tr2, caller, d, server) = rest
    BY <1>6, <1>10, <1>13, <1>17, NoneShown
  <2>5. Todo(h, tr2, Top, d, server) = Joined(x, Joined(t, rest))
    BY <1>10, <2>2, <2>3, Associated
  <2>6. QED  BY <2>1, <2>4, <2>5, Zenon DEF Joined
<1>18. QED  BY <1>16, <1>17

-----------------------------------------------------------------------------
(* The actions, and the walk as a whole. *)

\* Empty lists at the end add nothing.
Blanked(s, s2) ==
    /\ Len(s) <= Len(s2)
    /\ \A k \in 1 .. Len(s) : s2[k] = s[k]
    /\ \A k \in Len(s) + 1 .. Len(s2) : s2[k] = << >>

\* FlattenSeq does not see them.
LEMMA FlattenBlank ==
    ASSUME NEW S, NEW s \in Seq(Seq(S)), NEW s2 \in Seq(Seq(S)), Blanked(s, s2)
    PROVE  FlattenSeq(s2) = FlattenSeq(s)
<1> DEFINE T == {n \in Nat : \A t \in Seq(Seq(S)) :
                    Len(t) = Len(s) + n /\ Blanked(s, t) => FlattenSeq(t) = FlattenSeq(s)}
<1>0. Len(s) \in Nat /\ Len(s2) \in Nat
  OBVIOUS
<1>1. 0 \in T
  <2>1. ASSUME NEW t \in Seq(Seq(S)), Len(t) = Len(s), Blanked(s, t) PROVE t = s
    <3>1. Len(t) = Len(s) /\ \A k \in 1 .. Len(s) : t[k] = s[k]
      BY <1>0, <2>1 DEF Blanked
    <3>2. t \in [1 .. Len(s) -> Seq(S)] /\ s \in [1 .. Len(s) -> Seq(S)]
      BY <3>1
    <3>3. t = [k \in 1 .. Len(s) |-> t[k]] /\ s = [k \in 1 .. Len(s) |-> s[k]]
      BY <3>2
    <3>4. [k \in 1 .. Len(s) |-> t[k]] = [k \in 1 .. Len(s) |-> s[k]]
      BY <3>1
    <3>5. QED  BY <3>3, <3>4, Zenon
  <2>2. QED  BY <1>0, <2>1
<1>2. ASSUME NEW n \in Nat, n \in T PROVE n + 1 \in T
  <2>1. SUFFICES ASSUME NEW t \in Seq(Seq(S)), Len(t) = Len(s) + (n + 1), Blanked(s, t)
                 PROVE  FlattenSeq(t) = FlattenSeq(s)
    OBVIOUS
  <2> DEFINE u == [k \in 1 .. Len(s) + n |-> t[k]]
  <2>2. u \in Seq(Seq(S)) /\ Len(u) = Len(s) + n
    BY <1>0, <2>1
  <2>3. Blanked(s, u)
    BY <1>0, <2>1, <2>2 DEF Blanked
  <2>4. t[Len(s) + (n + 1)] = << >> /\ << >> \in Seq(S)
    <3>1. Len(s) + (n + 1) \in Len(s) + 1 .. Len(t)
      BY <1>0, <2>1
    <3>2. t[Len(s) + (n + 1)] = << >>
      BY <2>1, <3>1, Zenon DEF Blanked
    <3>3. << >> \in Seq(S)
      OBVIOUS
    <3>4. QED  BY <3>2, <3>3
  <2>5. t = Append(u, << >>)
    BY <1>0, <2>1, <2>2, <2>4
  <2>6. FlattenSeq(u) = FlattenSeq(s)
    <3> HIDE DEF u
    <3>1. QED  BY <1>2, <2>2, <2>3
  <2> HIDE DEF u
  <2>7. FlattenSeq(t) = FlattenSeq(u) \o << >> /\ FlattenSeq(u) \in Seq(S)
    BY <2>2, <2>4, <2>5, Flatten
  <2>8. QED  BY <2>6, <2>7, ConcatEmptySeq
<1>3. Len(s2) - Len(s) \in Nat
  BY <1>0 DEF Blanked
<1>4. Len(s2) - Len(s) \in T
  <2> HIDE DEF T
  <2>1. QED  BY <1>1, <1>2, <1>3, Induction
<1>5. QED  BY <1>0, <1>4

\* The elements of an array of plain values are hidden: none is to do, none is shown.
LEMMA WalkedPlain ==
    ASSUME Inv, Placed, Placed', Walked, AddPlainElements
    PROVE  Walked'
<1> DEFINE leaf == [id |-> NullId, type |-> "value", structure |-> FALSE, parent |-> Top.at]
           leaves == [k \in DOMAIN Top.elements |-> leaf]
           caller == [Top EXCEPT !.elements = << >>]
           n == Len(tree)
<1>1. /\ Building /\ frames # << >> /\ Top.elements # << >> /\ ~tree[Top.at].structure
      /\ tree' = tree \o leaves /\ frames' = SetTop(caller)
      /\ UNCHANGED <<pc, root, server, link, disturbed>>
  BY DEF AddPlainElements, Building, world
<1>2. SUFFICES ASSUME Walking
               PROVE  link /\ \A h : Covers(h, tree') => Whole(h, tree', SetTop(caller))
  BY <1>1 DEF Walked, Walking, Whole, Exact
<1>3. Top \in Frame /\ Good(Top, tree) /\ tree \in Seq(TreeNode) /\ Fed(Top, tree)
  <2>1. Len(frames) \in 1 .. Len(frames)
    BY <1>1, TopFrame
  <2>2. QED  BY <1>1, <2>1, TopFrame DEF Inv, Placed, Top
<1>4. Plain(tree, Top.at) /\ Top.at \in 1 .. n /\ n \in Nat
  <2>1. tree[1].structure
    BY <1>2, <1>3 DEF Placed, Walking, Good
  <2>2. QED  BY <1>1, <1>3, <2>1 DEF Fed, Plain, Good
<1>5. leaf \in TreeNode /\ leaves \in Seq(TreeNode)
      /\ \A k \in 1 .. Len(leaves) : leaves[k] = leaf
  <2>1. Top.elements \in Seq(Node \cup {NoType})
    BY <1>3 DEF Frame
  <2>2. leaf \in TreeNode
    BY <1>4 DEF TreeNode
  <2> HIDE DEF leaf
  <2>3. QED  BY <2>1, <2>2
<1>6. caller \in Frame /\ caller.at = Top.at
  <2>1. << >> \in Seq(Node \cup {NoType})
    OBVIOUS
  <2>2. QED  BY <1>3, <2>1 DEF Frame
<1>p. leaf.parent = Top.at
  OBVIOUS
<1> HIDE DEF leaves, leaf, caller
<1>7. PICK tr2 : tr2 = tree'
  OBVIOUS
<1>8. /\ tr2 \in Seq(TreeNode) /\ Len(tr2) = n + Len(leaves) /\ Len(leaves) \in Nat
      /\ \A k \in 1 .. n : tr2[k] = tree[k]
      /\ \A k \in n + 1 .. Len(tr2) : tr2[k] = leaf
  <2>1. tr2 = tree \o leaves
    BY <1>1, <1>7
  <2>2. /\ tr2 \in Seq(TreeNode) /\ Len(tr2) = n + Len(leaves) /\ Len(leaves) \in Nat
        /\ \A k \in 1 .. n : tr2[k] = tree[k]
        /\ \A k \in n + 1 .. Len(tr2) : tr2[k] = leaves[k - n] /\ k - n \in 1 .. Len(leaves)
    BY <1>3, <1>4, <1>5, <2>1
  <2>3. QED  BY <1>5, <2>2
<1>9. Extends(tree, tr2) /\ ParentsFirst(tr2)
  BY <1>4, <1>7, <1>8 DEF Extends, Placed
<1>10. ASSUME NEW h, Covers(h, tr2) PROVE Whole(h, tr2, SetTop(caller))
  <2>1. PICK ds, q : \E rest \in Seq(Ids), d \in 1 .. MaxDepth :
                        Continued(h, tr2, caller, ds, q, rest, d)
    BY <1>1, <1>2, <1>6, <1>9, <1>10, WalkedTop
  <2>2. PICK rest \in Seq(Ids), d \in 1 .. MaxDepth : Continued(h, tr2, caller, ds, q, rest, d)
    BY <2>1
  <2>3. Plain(tr2, Top.at)
    BY <1>4, <1>8 DEF Plain
  <2>4. Todo(h, tr2, caller, d, server) = << >> /\ Todo(h, tr2, Top, d, server) = << >>
    BY <1>6, <2>3 DEF Todo
  <2>5. PICK s, s2 : s = Shown(Cut(h, tree), tree) /\ s2 = Shown(h, tr2)
    OBVIOUS
  <2>6. /\ s \in Seq(Seq(Ids)) /\ s2 \in Seq(Seq(Ids)) /\ Len(s) = n /\ Len(s2) = Len(tr2)
        /\ \A k \in 1 .. n : s2[k] = s[k]
    <3>1. s \in Seq(Seq(Ids)) /\ s2 \in Seq(Seq(Ids))
      BY <1>3, <1>8, <2>5, ShownType
    <3>2. DOMAIN s = 1 .. n /\ DOMAIN s2 = 1 .. Len(tr2)
      BY <2>5 DEF Shown
    <3>3. \A k \in 1 .. n : Shown(h, tr2)[k] = Shown(Cut(h, tree), tree)[k]
      BY <1>9, <1>10, Kept
    <3>4. Len(tr2) \in Nat
      BY <1>4, <1>8
    <3>5. QED  BY <1>4, <2>5, <3>1, <3>2, <3>3, <3>4
  <2>7. ASSUME NEW k \in n + 1 .. Len(tr2) PROVE s2[k] = << >>
    <3>1. k \in 1 .. Len(tr2) /\ tr2[k].parent = Top.at
      BY <1>4, <1>8, <1>p
    <3>2. h[k]
      BY <1>4, <1>10, <2>3, <3>1 DEF Covers
    <3>3. QED  BY <2>5, <3>1, <3>2 DEF Shown
  <2>8. Blanked(s, s2)
    BY <1>8, <2>6, <2>7, <1>4 DEF Blanked
  <2>9. FlattenSeq(s2) = FlattenSeq(s)
    BY <2>6, <2>8, FlattenBlank
  <2>10. /\ Owed(h, tr2, SetTop(caller), ds, q, server)
         /\ FlattenSeq(Shown(h, tr2)) \o All(q, SetTop(caller)) = Reference(server, root)
    BY <2>2, <2>4, <2>5, <2>9 DEF Continued
  <2>11. QED  BY <2>10 DEF Whole, Exact
<1>11. link
  BY <1>2 DEF Walked
<1>12. QED  BY <1>7, <1>10, <1>11

\* The walk begins with all the reference says still to do.
LEMMA WalkedRoot ==
    ASSUME Inv, ReadValue, Walking', NEW h, Covers(h, tree')
    PROVE  Whole(h, tree', frames')
<1> DEFINE v == Value(root)
           node == [id |-> root, structure |-> v.value = "structure", parent |-> 0,
                    type |-> IF v.value = "structure" THEN "structure" ELSE "value"]
<1>1. /\ tree' = <<node>> /\ frames' = <<Call(1, root, v.elements)>>
      /\ pc = "value" /\ ~disturbed
  BY DEF ReadValue, Walking, Step, world
<1>2. link /\ v = [value |-> server[root].value, elements |-> server[root].elements]
      /\ server[root].value = "structure"
  BY <1>1 DEF Inv, RootRead, RootReads, Value
<1>3. PICK tr : tr = tree'
  OBVIOUS
<1>4. Len(tr) = 1 /\ tr[1].type = "structure" /\ tr[1].structure /\ tr[1].parent = 0
  <2>1. node.type = "structure" /\ node.structure /\ node.parent = 0
    <3>1. v.value = "structure"
      BY <1>2
    <3> HIDE DEF v
    <3>2. QED  BY <3>1
  <2>2. tr = <<node>>
    BY <1>1, <1>3
  <2> HIDE DEF node
  <2>3. QED  BY <2>1, <2>2
<1>5. root \in Node /\ server \in Servers /\ server[root].elements \in Seq(Node \cup {NoType})
  BY Answer DEF Inv
<1>6. PICK f : f = Call(1, root, server[root].elements)
  OBVIOUS
<1>7. f \in Frame /\ Append(<< >>, f) = frames' /\ f.at = 1 /\ frames' = <<f>>
  <2>1. f \in Frame /\ f.at = 1
    BY <1>5, <1>6 DEF Call, Frame
  <2>2. frames' = <<f>>
    BY <1>1, <1>2, <1>6
  <2>3. QED  BY <2>1, <2>2
<1>8. MaxDepth \in 1 .. MaxDepth /\ MaxDepth + (Len(<< >>) + 1) > MaxDepth
  BY TreeAssumption, FS_CardinalityType
<1>9. << >> \in Seq(Frame) /\ Len(<< >>) = 0 /\ << >> \in Seq(Ids)
  OBVIOUS
<1>10. PICK ds, r : Owed(h, tr, << >>, ds, r, server) /\ All(r, << >>) = << >>
  <2> DEFINE ds == [i \in {} |-> 1]
             r == [i \in 0 .. 0 |-> << >>]
  <2>1. 1 .. 0 = {} /\ ds \in [{} -> 1 .. MaxDepth]
    OBVIOUS
  <2>2. r \in [0 .. 0 -> Seq(Ids)] /\ r[0] = << >>
    BY <1>9
  <2> HIDE DEF ds, r
  <2>3. Owed(h, tr, << >>, ds, r, server) /\ All(r, << >>) = << >>
    BY <1>9, <2>1, <2>2 DEF Owed, All
  <2>4. QED  BY <2>3
<1>11. PICK es, q : /\ Owed(h, tr, Append(<< >>, f), es, q, server)
                    /\ Divided(h, tr, Append(<< >>, f), MaxDepth, q, server, All(r, << >>))
  BY <1>5, <1>7, <1>8, <1>9, <1>10, OwedCall
<1>12. TopOf(frames') = f
  <2>1. TopOf(<<f>>) = f
    BY DEF TopOf
  <2>2. QED  BY <1>7, <2>1
<1>13. All(q, frames') = Todo(h, tr, f, MaxDepth, server) \o << >>
  BY <1>7, <1>10, <1>11, <1>12 DEF Divided
<1>14. ~h[1] /\ ~Plain(tr, 1)
  BY <1>3, <1>4 DEF Covers, Plain
<1>15. Todo(h, tr, f, MaxDepth, server) = Still(f, MaxDepth, server)
  BY <1>7, <1>14 DEF Todo
<1>16. Still(f, MaxDepth, server) = Reference(server, root)
  <2>1. Made(f, 1, root, server[root].elements)
    BY <1>6 DEF Made
  <2>2. Fresh(f, root, server[root].elements, MaxDepth, server)
    BY <2>1, StillOfCall
  <2>3. QED  BY <1>2, <2>2, Zenon DEF Fresh, Reference, Own, Types
<1>17. FlattenSeq(Shown(h, tr)) = << >>
  <2>1. PICK s : s = Shown(h, tr)
    OBVIOUS
  <2>2. s = [k \in 1 .. 1 |-> << >>]
    BY <1>4, <2>1 DEF Shown, Plain
  <2>3. s = Append(<< >>, << >>)
    BY <2>2
  <2>4. << >> \in Seq(Seq(Ids)) /\ << >> \in Seq(Ids)
    OBVIOUS
  <2>5. FlattenSeq(Append(<< >>, << >>)) = FlattenSeq(<< >>) \o << >> /\ FlattenSeq(<< >>) = << >>
    BY <2>4, Flatten
  <2>6. << >> \o << >> = << >>
    OBVIOUS
  <2>7. QED  BY <2>1, <2>3, <2>5, <2>6
<1>18. Todo(h, tr, f, MaxDepth, server) \in Seq(Ids)
  BY <1>5, <1>7, <1>8, TodoType
<1>19. << >> \o All(q, frames') = Reference(server, root)
  BY <1>13, <1>15, <1>16, <1>18, ConcatEmptySeq
<1>20. UNCHANGED <<server, root>>
  BY DEF ReadValue, world
<1>21. QED  BY <1>3, <1>7, <1>11, <1>17, <1>19 DEF Whole, Exact

\* A call that returns had nothing left to do.
LEMMA WalkedReturn ==
    ASSUME Inv, Placed, Walked, Return
    PROVE  Walked'
<1>1. /\ frames # << >> /\ Top.elements = << >> /\ Top.browsed /\ Top.fields = << >>
      /\ frames' = Front(frames) /\ pc = "build"
      /\ UNCHANGED <<tree, root, server, link, disturbed>>
  BY DEF Return, Building, world
<1>2. frames \in Seq(Frame) /\ Top \in Frame /\ Len(frames) \in 1 .. Len(frames)
      /\ server \in Servers /\ frames[Len(frames)] = Top
  BY <1>1, TopFrame DEF Inv, Top
<1>3. SUFFICES ASSUME Walking
               PROVE  link /\ \A h : Covers(h, tree) => Whole(h, tree, Front(frames))
  BY <1>1 DEF Walked, Walking, Whole, Exact
<1>4. ASSUME NEW h, Covers(h, tree) PROVE Whole(h, tree, Front(frames))
  <2>1. PICK ds, r : /\ Owed(h, tree, frames, ds, r, server)
                     /\ Exact(h, tree, frames, r)
    <3>1. Whole(h, tree, frames)
      BY <1>3, <1>4 DEF Walked
    <3>2. QED  BY <3>1 DEF Whole
  <2>2. PICK d : d = ds[Len(frames)]
    OBVIOUS
  <2>3. /\ d \in 1 .. MaxDepth
        /\ All(r, frames) = Todo(h, tree, Top, d, server) \o Others(r, frames)
    BY <1>2, <2>1, <2>2 DEF Owed, All, Others
  <2>4. Others(r, frames) \in Seq(Ids)
    <3>1. r \in [0 .. Len(frames) -> Seq(Ids)]
      BY <2>1 DEF Owed
    <3>2. Len(frames) - 1 \in 0 .. Len(frames)
      BY <1>2
    <3>3. QED  BY <3>1, <3>2 DEF Others
  <2>5. Todo(h, tree, Top, d, server) = << >>
    <3>1. << >> \in Seq(Node \cup {NoType}) /\ << >> \in Seq(Node) /\ << >> \o << >> = << >>
      OBVIOUS
    <3>2. /\ Types(Below(server)[d], << >>) = << >>
          /\ Owns(server, Below(server)[d - 1], << >>) = << >>
      BY <1>2, <2>3, <3>1, BelowTypes, TypesOf, OwnsOf
    <3>3. Referred(Top, d, server) = << >>
      BY <1>1, <3>2 DEF Referred
    <3>4. Still(Top, d, server) = << >>
      BY <1>1, <3>1, <3>2, <3>3 DEF Still
    <3>5. QED  BY <3>4 DEF Todo
  <2>6. All(r, frames) = Others(r, frames)
    BY <2>3, <2>4, <2>5, ConcatEmptySeq
  <2>7. PICK es, q : /\ Owed(h, tree, Front(frames), es, q, server)
                     /\ Handed(q, r, frames)
    BY <1>1, <1>2, <2>1, OwedReturn
  <2>8. All(q, Front(frames)) = All(r, frames)
    BY <2>6, <2>7, Zenon DEF Handed
  <2>9. Exact(h, tree, Front(frames), q)
    BY <2>1, <2>8, Zenon DEF Exact
  <2>10. QED  BY <2>7, <2>9 DEF Whole
<1>5. link
  BY <1>3 DEF Walked
<1>6. QED  BY <1>4, <1>5

\* An element is passed over or gone into.
LEMMA WalkedElement ==
    ASSUME Inv, Placed, Placed', Walked, AddStructureElement
    PROVE  Walked'
<1> DEFINE caller == [Top EXCEPT !.elements = Tail(@)]
           element == Head(Top.elements)
           child == [id |-> NullId, type |-> "structure", structure |-> FALSE,
                     parent |-> Top.at]
<1>1. Building /\ Top.elements # << >> /\ UNCHANGED <<root, server, link, disturbed>>
  BY DEF AddStructureElement, world
<1>2. Top \in Frame /\ Top.elements \in Seq(Node \cup {NoType}) /\ element \in Node \cup {NoType}
      /\ server \in Servers /\ tree \in Seq(TreeNode)
  <2>1. Top \in Frame /\ server \in Servers /\ tree \in Seq(TreeNode)
    BY <1>1, TopFrame DEF Building, Inv
  <2>2. Top.elements \in Seq(Node \cup {NoType})
    BY <2>1 DEF Frame
  <2>3. QED  BY <1>1, <2>1, <2>2
<1>3. /\ caller \in Frame /\ caller.at = Top.at /\ caller.elements = Tail(Top.elements)
      /\ caller.fields = Top.fields /\ caller.browsed = Top.browsed /\ caller.node = Top.node
  <2>1. Tail(Top.elements) \in Seq(Node \cup {NoType})
    BY <1>1, <1>2
  <2>2. QED  BY <1>2, <2>1 DEF Frame
<1>4. CASE element = NoType
  <2>1. frames' = SetTop(caller) /\ UNCHANGED <<pc, tree>>
    BY <1>4 DEF AddStructureElement
  <2>2. ASSUME NEW h, NEW d \in 1 .. MaxDepth
        PROVE  Todo(h, tree, caller, d, server) = Todo(h, tree, Top, d, server)
    <3>1. PICK b, types : b = Below(server)[d] /\ types = Types(b, Tail(Top.elements))
      OBVIOUS
    <3>2. Tail(Top.elements) \in Seq(Node \cup {NoType}) /\ b \in Lists
      BY <1>1, <1>2, <3>1, BelowTypes
    <3>3. types \in Seq(Ids) /\ Types(b, Top.elements) = << >> \o types
      BY <1>1, <1>2, <1>4, <3>1, <3>2, TypesOf
    <3>4. Types(b, Top.elements) = types
      BY <3>3, ConcatEmptySeq
    <3> HIDE DEF caller
    <3>5. Referred(caller, d, server) = Referred(Top, d, server)
      BY <1>3 DEF Referred
    <3>6. Still(caller, d, server) = Still(Top, d, server)
      BY <1>3, <3>1, <3>4, <3>5, Zenon DEF Still
    <3>7. QED  BY <1>3, <3>6 DEF Todo
  <2> HIDE DEF caller
  <2>3. QED  BY <1>1, <1>3, <2>1, <2>2, WalkedKeep
<1>5. CASE element # NoType
  <2>1. AddAndCall(child, caller, element, << >>)
    BY <1>5 DEF AddStructureElement
  <2>2. child \in TreeNode /\ child.parent = Top.at /\ child.type = "structure"
    BY <1>2 DEF TreeNode, Frame
  <2>3. << >> \in Seq(Node \cup {NoType}) /\ element \in Node
    BY <1>2, <1>5
  <2>4. PICK f : f = Call(Len(tree) + 1, element, << >>)
    OBVIOUS
  <2>5. f \in Frame
    BY <1>2, <2>3, <2>4 DEF Call, Frame
  <2>6. CallExact(Append(tree, child), caller, f)
    <3> HIDE DEF child
    <3>1. PICK c : c = caller /\ c \in Frame /\ c = [Top EXCEPT !.elements = Tail(@)]
      BY <1>3
    <3>2. PICK e \in Node : e = element /\ e = Head(Top.elements)
      BY <2>3
    <3> HIDE DEF caller, element
    <3>3. f = Call(Len(tree) + 1, e, << >>)
      BY <2>4, <3>2
    <3>4. CallExact(Append(tree, child), c, f)
      BY <1>1, <2>2, <2>5, <3>1, <3>2, <3>3, ElementExact
    <3>5. QED  BY <3>1, <3>4
  <2> HIDE DEF child, caller, element
  <2>7. CallExact(Append(tree, child), caller, Call(Len(tree) + 1, element, << >>))
    BY <2>4, <2>6
  <2>8. QED  BY <1>1, <1>3, <2>1, <2>2, <2>3, <2>7, WalkedCall
<1>6. QED  BY <1>4, <1>5

\* To browse is to find the references the reference follows.
LEMMA WalkedBrowse ==
    ASSUME Inv, Placed, Walked, Browse
    PROVE  Walked'
<1> DEFINE fields == server[Top.node].components
           caller == [Top EXCEPT !.browsed = TRUE, !.fields = fields]
<1>1. /\ Building /\ Top.elements = << >> /\ ~Top.browsed
      /\ frames' = SetTop([Top EXCEPT !.browsed = TRUE,
                           !.fields = IF link THEN fields ELSE << >>])
      /\ UNCHANGED <<pc, tree, root, server, link, disturbed>>
  BY DEF Browse, world
<1>2. SUFFICES ASSUME Walking PROVE Walked'
  BY <1>1 DEF Walked, Walking
<1>3. frames' = SetTop(caller)
  BY <1>1, <1>2 DEF Walked
<1>4. Top \in Frame /\ server \in Servers /\ Top.node \in Node
  BY <1>1, TopFrame DEF Building, Inv, Frame
<1>5. fields \in Seq(Node)
  BY <1>4, Answer
<1> HIDE DEF fields
<1>6. /\ caller \in Frame /\ caller.at = Top.at /\ caller.elements = Top.elements
      /\ caller.fields = fields /\ caller.browsed
  BY <1>4, <1>5 DEF Frame
<1> HIDE DEF caller
<1>7. ASSUME NEW h, NEW d \in 1 .. MaxDepth
      PROVE  Todo(h, tree, caller, d, server) = Todo(h, tree, Top, d, server)
  <2>1. Below(server)[d][Top.node] = Owns(server, Below(server)[d - 1], fields)
    BY <1>4, BelowRungs DEF fields
  <2>2. Referred(caller, d, server) = Referred(Top, d, server)
    BY <1>1, <1>6, <2>1 DEF Referred
  <2>3. Still(caller, d, server) = Still(Top, d, server)
    BY <1>6, <2>2, Zenon DEF Still
  <2>4. QED  BY <1>6, <2>3 DEF Todo
<1>8. QED  BY <1>1, <1>3, <1>6, <1>7, WalkedKeep

\* A reference that is gone into is one less to do.
LEMMA WalkedField ==
    ASSUME Inv, Placed, Placed', Walked, AddField
    PROVE  Walked'
<1> DEFINE caller == [Top EXCEPT !.fields = Tail(@)]
           field == Head(Top.fields)
           v == server[field]
           child == [id |-> field, type |-> FieldType(v), parent |-> Top.at,
                     structure |-> v.value = "structure"]
<1>1. /\ Building /\ Top.fields # << >> /\ Top.elements = << >> /\ Top.browsed
      /\ UNCHANGED <<root, server, link, disturbed>>
  BY DEF AddField, world
<1>2. SUFFICES ASSUME Walking PROVE Walked'
  <2>1. SUFFICES ASSUME Walking' PROVE Walked'
    BY DEF Walked
  <2>2. QED  BY <1>1, <1>2, <2>1 DEF Walking, Building
<1>3. Top \in Frame /\ server \in Servers /\ Top.fields \in Seq(Node) /\ tree \in Seq(TreeNode)
  BY <1>1, TopFrame DEF Building, Inv, Frame
<1>4. field \in Node /\ Tail(Top.fields) \in Seq(Node)
  BY <1>1, <1>3
<1>5. caller \in Frame /\ caller.at = Top.at
  BY <1>3, <1>4 DEF Frame
<1>6. v \in Content /\ v.elements \in Seq(Node \cup {NoType})
  BY <1>3, <1>4, Answer
<1>7. child \in TreeNode /\ child.parent = Top.at /\ child.id = field
      /\ child.type = FieldType(v) /\ child.structure = (v.value = "structure")
  BY <1>3, <1>4 DEF TreeNode, Frame, FieldType
<1>8. AddAndCall(child, caller, field, v.elements)
  <2>1. Value(field).value = v.value /\ Value(field).elements = v.elements
    BY <1>2 DEF Walked, Value
  <2>2. FieldType(Value(field)) = FieldType(v)
    BY <2>1 DEF FieldType
  <2>3. AddAndCall([id |-> field, type |-> FieldType(Value(field)), parent |-> Top.at,
                    structure |-> Value(field).value = "structure"],
                   caller, field, Value(field).elements)
    BY DEF AddField
  <2>4. QED  BY <2>1, <2>2, <2>3
<1>9. PICK f : f = Call(Len(tree) + 1, field, v.elements)
  OBVIOUS
<1>10. f \in Frame
  BY <1>3, <1>4, <1>6, <1>9 DEF Call, Frame
<1> HIDE DEF child
<1>11. CallExact(Append(tree, child), caller, f)
  <2>1. PICK c : c = caller /\ c \in Frame /\ c = [Top EXCEPT !.fields = Tail(@)]
    BY <1>5
  <2>2. PICK e, w : e \in Node /\ e = field /\ e = Head(Top.fields) /\ w = v /\ w = server[e]
    BY <1>4
  <2> HIDE DEF caller, field, v
  <2>3. /\ f = Call(Len(tree) + 1, e, w.elements)
        /\ child.id = e /\ child.type = FieldType(w) /\ child.structure = (w.value = "structure")
    BY <1>7, <1>9, <2>2
  <2>4. CallExact(Append(tree, child), c, f)
    BY <1>1, <1>7, <1>10, <2>1, <2>2, <2>3, FieldExact
  <2>5. QED  BY <2>1, <2>4
<1> HIDE DEF caller, field, v
<1>12. CallExact(Append(tree, child), caller, Call(Len(tree) + 1, field, v.elements))
  BY <1>9, <1>11
<1>13. QED  BY <1>1, <1>4, <1>5, <1>6, <1>7, <1>8, <1>12, WalkedCall

\* Every step of an undisturbed walk keeps the account.
LEMMA WalkedStep == Inv /\ Placed /\ Placed' /\ Walked /\ [Next]_vars => Walked'
<1> SUFFICES ASSUME Inv, Placed, Placed', Walked, [Next]_vars PROVE Walked'
  OBVIOUS
<1> USE DEF world, Step
<1>1. ASSUME Explore \/ IsStructure \/ ReadName \/ Collect \/ Release \/ Change
      PROVE  ~Walking'
  BY <1>1 DEF Explore, IsStructure, ReadName, Collect, Release, Change, Walking
<1>2. CASE ReadValue
  <2>1. SUFFICES ASSUME Walking' PROVE Walked'
    BY DEF Walked
  <2>2. link'
    BY <1>2, <2>1 DEF ReadValue, Walking, Inv, RootRead, RootReads
  <2>3. UNCHANGED <<server, root>>
    BY <1>2 DEF ReadValue
  <2>4. \A h : Covers(h, tree') => Whole(h, tree', frames')
    BY <1>2, <2>1, WalkedRoot
  <2>5. QED  BY <2>2, <2>3, <2>4 DEF Walked, Whole, Exact
<1>3. CASE ReadType
  BY <1>3 DEF ReadType, Walked, Walking, Whole, Exact
<1>4. CASE UNCHANGED vars
  BY <1>4 DEF vars, Walked, Walking, Whole, Exact
<1>5. QED
  BY <1>1, <1>2, <1>3, <1>4, WalkedPlain, WalkedElement, WalkedBrowse, WalkedField,
     WalkedReturn DEF Next, Program, Walked

\* At the end nothing is to do, and what is shown is collected.
LEMMA ExactStep == Inv /\ Placed /\ Walked /\ CollectExact /\ [Next]_vars => CollectExact'
<1> SUFFICES ASSUME Inv, Placed, Walked, CollectExact, [Next]_vars, pc' = "release", ~disturbed'
             PROVE  collected' = Reference(server', root')
  BY DEF CollectExact
<1> USE DEF world, Step
<1>1. CASE Collect
  <2>1. pc = "collect" /\ UNCHANGED <<server, root, disturbed>> /\ tree \in Seq(TreeNode)
        /\ frames = << >>
    BY <1>1 DEF Collect, Inv, Quiet
  <2>2. Covers(Hidden, tree)
    BY <2>1, HiddenCovers DEF Placed
  <2>3. Whole(Hidden, tree, << >>)
    BY <2>1, <2>2 DEF Walked, Walking
  <2>4. FlattenSeq(Shown(Hidden, tree)) \in Seq(Ids)
    BY <2>1, ShownType, Flatten
  <2>5. PICK ds, r : /\ Owed(Hidden, tree, << >>, ds, r, server)
                     /\ Exact(Hidden, tree, << >>, r)
    BY <2>3 DEF Whole
  <2>6. All(r, << >>) = << >>
    <3>1. Len(<< >>) = 0
      OBVIOUS
    <3>2. QED  BY <2>5, <3>1 DEF Owed, All
  <2>7. FlattenSeq(Shown(Hidden, tree)) = Reference(server, root)
    BY <2>4, <2>5, <2>6, ConcatEmptySeq DEF Exact
  <2>8. QED  BY <1>1, <2>1, <2>7, CollectShows
<1>2. CASE Change
  BY <1>2 DEF Change
<1>3. CASE UNCHANGED vars
  BY <1>3 DEF vars, CollectExact
<1>4. ~(Explore \/ IsStructure \/ ReadName \/ ReadValue \/ ReadType \/ Release)
  BY DEF Explore, IsStructure, ReadName, ReadValue, ReadType, Release
<1>5. ~(AddPlainElements \/ Browse)
  BY DEF AddPlainElements, Browse, Building
<1>6. ~(AddStructureElement \/ AddField)
  BY DEF AddStructureElement, AddField, AddAndCall, Building
<1>7. ~Return
  BY DEF Return
<1>8. QED
  BY <1>1, <1>2, <1>3, <1>4, <1>5, <1>6, <1>7 DEF Next, Program

\* Of a server that stays as it is, the walk collects what the reference says,
\* however deep the references go and however they are shared.
THEOREM CollectedIsReference == Spec => []CollectExact
<1>1. Init => Walked /\ CollectExact
  BY DEF Init, Walked, Walking, CollectExact
<1>2. Spec => []Placed
  BY PlacedInit, PlacedStep, Invariant, PTL DEF Spec
<1>3. Spec => []Walked
  BY <1>1, <1>2, WalkedStep, Invariant, PTL DEF Spec
<1>4. QED
  BY <1>1, <1>2, <1>3, ExactStep, Invariant, PTL DEF Spec

-----------------------------------------------------------------------------
(* How long a walk takes. *)

\* No list of references or elements is longer than B.
Bounded(B) ==
    /\ B \in Nat
    /\ \A s \in Servers, n \in Node :
           Len(s[n].elements) <= B /\ Len(s[n].components) <= B

\* The steps a call has still to take itself: one for each element and each
\* reference, the browse and the references it may find, the return.
ToGo(f, B) == 1 + Len(f.elements) + Len(f.fields) + IF f.browsed THEN 0 ELSE B + 1

\* More than a call takes with all the calls below it, by the number of calls
\* the stack has room for behind it.
Weighs(w, B) == w[0] = 1 /\ \A d \in 1 .. MaxDepth : w[d] = (2 * B + 2) * w[d - 1] + 1
Weights(B) == CHOOSE w \in [0 .. MaxDepth -> Nat] : Weighs(w, B)

\* What the first k calls may cost, and the whole stack.
Sums(c, fs, B) ==
    /\ c[0] = 0
    /\ \A k \in 1 .. Len(fs) : c[k] = c[k - 1] + ToGo(fs[k], B) * Weights(B)[MaxDepth - k]
Costs(fs, B) == CHOOSE c \in [0 .. Len(fs) -> Nat] : Sums(c, fs, B)
Cost(fs, B) == Costs(fs, B)[Len(fs)]

\* f starts at c and goes on by g, up to m.
Follows(f, c, g, m) ==
    /\ f \in [0 .. m -> Nat]
    /\ f[0] = c
    /\ \A k \in 1 .. m : f[k] = g[<<k, f[k - 1]>>]

\* Such a function exists.
LEMMA Recursion ==
    ASSUME NEW c \in Nat, NEW g \in [Nat \X Nat -> Nat], NEW m \in Nat
    PROVE  \E f : Follows(f, c, g, m)
<1> DEFINE T == {n \in Nat : \E f : Follows(f, c, g, n)}
<1>1. 0 \in T
  <2>1. Follows([k \in 0 .. 0 |-> c], c, g, 0)
    BY DEF Follows
  <2>2. QED  BY <2>1
<1>2. ASSUME NEW n \in Nat, n \in T PROVE n + 1 \in T
  <2>p. PICK f : Follows(f, c, g, n)
    BY <1>2
  <2>1. /\ f \in [0 .. n -> Nat] /\ f[0] = c
        /\ \A k \in 1 .. n : f[k] = g[<<k, f[k - 1]>>]
    BY <2>p DEF Follows
  <2> DEFINE h == [k \in 0 .. n + 1 |-> IF k <= n THEN f[k] ELSE g[<<n + 1, f[n]>>]]
  <2>2. f[n] \in Nat /\ <<n + 1, f[n]>> \in Nat \X Nat
    BY <2>1
  <2>3. g[<<n + 1, f[n]>>] \in Nat
    BY <2>2
  <2>4. h \in [0 .. n + 1 -> Nat]
    BY <2>1, <2>3
  <2>5. h[0] = c /\ h[n + 1] = g[<<n + 1, f[n]>>] /\ \A k \in 0 .. n : h[k] = f[k]
    BY <2>1
  <2> HIDE DEF h
  <2>6. ASSUME NEW k \in 1 .. n + 1 PROVE h[k] = g[<<k, h[k - 1]>>]
    <3>1. CASE k = n + 1
      <4>1. k - 1 = n /\ n \in 0 .. n
        BY <3>1
      <4>2. QED  BY <2>5, <3>1, <4>1
    <3>2. CASE k # n + 1
      <4>1. k \in 1 .. n /\ k \in 0 .. n /\ k - 1 \in 0 .. n
        BY <3>2
      <4>2. h[k] = f[k] /\ h[k - 1] = f[k - 1] /\ f[k] = g[<<k, f[k - 1]>>]
        BY <2>1, <2>5, <4>1
      <4>3. QED  BY <4>2
    <3>3. QED  BY <3>1, <3>2
  <2>7. Follows(h, c, g, n + 1)
    BY <2>4, <2>5, <2>6 DEF Follows
  <2>8. QED  BY <2>7
<1>3. m \in T
  <2> HIDE DEF T
  <2>1. QED  BY <1>1, <1>2, Induction
<1>4. QED  BY <1>3

\* The weights exist, and none is 0.
LEMMA WeightsAre ==
    ASSUME NEW B \in Nat
    PROVE  /\ Weights(B) \in [0 .. MaxDepth -> Nat]
           /\ Weighs(Weights(B), B)
           /\ \A d \in 0 .. MaxDepth : Weights(B)[d] >= 1
<1> DEFINE g == [p \in Nat \X Nat |-> (2 * B + 2) * p[2] + 1]
<1>1. g \in [Nat \X Nat -> Nat] /\ \A k \in Nat, x \in Nat : g[<<k, x>>] = (2 * B + 2) * x + 1
  OBVIOUS
<1> HIDE DEF g
<1>2. MaxDepth \in Nat /\ 1 \in Nat
  BY TreeAssumption
<1>r. PICK f : Follows(f, 1, g, MaxDepth)
  BY <1>1, <1>2, Recursion
<1>3. /\ f \in [0 .. MaxDepth -> Nat] /\ f[0] = 1
      /\ \A k \in 1 .. MaxDepth : f[k] = g[<<k, f[k - 1]>>]
  BY <1>r DEF Follows
<1>4. Weighs(f, B)
  <2>1. ASSUME NEW d \in 1 .. MaxDepth PROVE f[d] = (2 * B + 2) * f[d - 1] + 1
    <3>1. d \in Nat /\ f[d - 1] \in Nat
      BY <1>2, <1>3
    <3>2. QED  BY <1>1, <1>3, <3>1
  <2>2. QED  BY <1>3, <2>1 DEF Weighs
<1>5. Weights(B) \in [0 .. MaxDepth -> Nat] /\ Weighs(Weights(B), B)
  BY <1>3, <1>4 DEF Weights
<1>6. ASSUME NEW d \in 0 .. MaxDepth PROVE Weights(B)[d] >= 1
  <2>1. CASE d = 0
    BY <1>5, <2>1 DEF Weighs
  <2>2. CASE d # 0
    <3>1. d \in 1 .. MaxDepth /\ d - 1 \in 0 .. MaxDepth
      BY <1>2, <2>2
    <3>2. PICK x \in Nat : x = Weights(B)[d - 1]
      BY <1>5, <3>1
    <3>3. Weights(B)[d] = (2 * B + 2) * x + 1
      BY <1>5, <3>1, <3>2 DEF Weighs
    <3>4. (2 * B + 2) * x \in Nat
      OBVIOUS
    <3>5. QED  BY <3>3, <3>4
  <2>3. QED  BY <2>1, <2>2
<1>7. QED  BY <1>5, <1>6

\* Every call has at least to return.
LEMMA ToGoType ==
    ASSUME NEW B \in Nat, NEW f \in Frame
    PROVE  ToGo(f, B) \in Nat /\ ToGo(f, B) >= 1
<1>1. PICK e \in Nat, r \in Nat : e = Len(f.elements) /\ r = Len(f.fields)
  BY DEF Frame
<1>2. PICK b \in Nat : b = IF f.browsed THEN 0 ELSE B + 1
  <2>1. (IF f.browsed THEN 0 ELSE B + 1) \in Nat
    OBVIOUS
  <2>2. QED  BY <2>1
<1>3. ToGo(f, B) = 1 + e + r + b
  BY <1>1, <1>2, Zenon DEF ToGo
<1>4. QED  BY <1>3

\* The sums exist.
LEMMA CostsAre ==
    ASSUME NEW B \in Nat, NEW fs \in Seq(Frame), Len(fs) <= MaxDepth
    PROVE  Costs(fs, B) \in [0 .. Len(fs) -> Nat] /\ Sums(Costs(fs, B), fs, B)
<1> DEFINE own(k) == ToGo(fs[k], B) * Weights(B)[MaxDepth - k]
           g == [p \in Nat \X Nat |-> p[2] + IF p[1] \in 1 .. Len(fs) THEN own(p[1]) ELSE 0]
<1>1. Len(fs) \in Nat /\ 0 \in Nat /\ MaxDepth \in Nat
  BY TreeAssumption
<1>2. ASSUME NEW k \in 1 .. Len(fs) PROVE own(k) \in Nat
  <2>1. fs[k] \in Frame /\ MaxDepth - k \in 0 .. MaxDepth
    BY <1>1
  <2>2. ToGo(fs[k], B) \in Nat /\ Weights(B)[MaxDepth - k] \in Nat
    BY <2>1, ToGoType, WeightsAre
  <2>3. QED  BY <2>2
<1> HIDE DEF own
<1>3. g \in [Nat \X Nat -> Nat]
  <2>1. ASSUME NEW k \in Nat, NEW x \in Nat
        PROVE  x + (IF k \in 1 .. Len(fs) THEN own(k) ELSE 0) \in Nat
    BY <1>2
  <2>2. QED  BY <2>1
<1>4. ASSUME NEW k \in 1 .. Len(fs), NEW x \in Nat PROVE g[<<k, x>>] = x + own(k)
  BY <1>1
<1> HIDE DEF g
<1>r. PICK f : Follows(f, 0, g, Len(fs))
  BY <1>1, <1>3, Recursion
<1>5. /\ f \in [0 .. Len(fs) -> Nat] /\ f[0] = 0
      /\ \A k \in 1 .. Len(fs) : f[k] = g[<<k, f[k - 1]>>]
  BY <1>r DEF Follows
<1>6. Sums(f, fs, B)
  <2>1. ASSUME NEW k \in 1 .. Len(fs) PROVE f[k] = f[k - 1] + own(k)
    <3>1. f[k - 1] \in Nat
      BY <1>1, <1>5
    <3>2. QED  BY <1>4, <1>5, <3>1
  <2>2. QED  BY <1>5, <2>1 DEF Sums, own
<1>7. QED  BY <1>5, <1>6 DEF Costs

\* Calls that are the same cost the same.
LEMMA CostsAgree ==
    ASSUME NEW B \in Nat, NEW fs \in Seq(Frame), NEW gs \in Seq(Frame), NEW n \in Nat,
           Len(fs) <= MaxDepth, Len(gs) <= MaxDepth, n <= Len(fs), n <= Len(gs),
           \A k \in 1 .. n : fs[k] = gs[k]
    PROVE  Costs(fs, B)[n] = Costs(gs, B)[n]
<1> DEFINE c == Costs(fs, B)
           d == Costs(gs, B)
           T == {k \in Nat : k <= n => c[k] = d[k]}
<1>1. /\ c[0] = 0 /\ d[0] = 0
      /\ \A k \in 1 .. Len(fs) : c[k] = c[k - 1] + ToGo(fs[k], B) * Weights(B)[MaxDepth - k]
      /\ \A k \in 1 .. Len(gs) : d[k] = d[k - 1] + ToGo(gs[k], B) * Weights(B)[MaxDepth - k]
  BY CostsAre DEF Sums
<1> HIDE DEF c, d
<1>2. 0 \in T
  BY <1>1
<1>3. ASSUME NEW k \in Nat, k \in T PROVE k + 1 \in T
  <2>1. CASE k + 1 <= n
    <3>1. k + 1 \in 1 .. n /\ k + 1 \in 1 .. Len(fs) /\ k + 1 \in 1 .. Len(gs)
          /\ (k + 1) - 1 = k /\ k <= n
      BY <2>1
    <3>2. c[k] = d[k] /\ fs[k + 1] = gs[k + 1]
      BY <1>3, <3>1
    <3>3. c[k + 1] = c[(k + 1) - 1] + ToGo(fs[k + 1], B) * Weights(B)[MaxDepth - (k + 1)]
      BY <1>1, <3>1
    <3>4. d[k + 1] = d[(k + 1) - 1] + ToGo(gs[k + 1], B) * Weights(B)[MaxDepth - (k + 1)]
      BY <1>1, <3>1
    <3>5. c[k + 1] = d[k + 1]
      BY <3>1, <3>2, <3>3, <3>4, Zenon
    <3>6. QED  BY <3>5
  <2>2. QED  BY <2>1
<1>4. n \in T
  <2> HIDE DEF T
  <2>1. QED  BY <1>2, <1>3, Induction
<1>5. QED  BY <1>4 DEF c, d

\* The product of two numbers, taken apart.
LEMMA OneLess == \A a, b, w \in Nat : a < b /\ w >= 1 => a * w + w <= b * w
<1>1. SUFFICES ASSUME NEW a \in Nat, NEW b \in Nat, NEW w \in Nat, a < b
               PROVE  a * w + w <= b * w
  OBVIOUS
<1>2. PICK r \in Nat : b = a + 1 + r
  <2>1. b - a - 1 \in Nat /\ b = a + 1 + (b - a - 1)
    BY <1>1
  <2>2. QED  BY <2>1
<1>3. b * w = a * w + w + r * w /\ r * w \in Nat /\ a * w \in Nat
  BY <1>2
<1>4. QED  BY <1>3

\* Products grow with their factors.
LEMMA AtMost == \A a, b, w \in Nat : a <= b => a * w <= b * w
<1>1. SUFFICES ASSUME NEW a \in Nat, NEW b \in Nat, NEW w \in Nat, a <= b
               PROVE  a * w <= b * w
  OBVIOUS
<1>2. PICK r \in Nat : b = a + r
  <2>1. b - a \in Nat /\ b = a + (b - a)
    BY <1>1
  <2>2. QED  BY <2>1
<1>3. b * w = a * w + r * w /\ r * w \in Nat /\ a * w \in Nat
  BY <1>2
<1>4. QED  BY <1>3

\* What is below the top, and the top.
LEMMA CostOfTop ==
    ASSUME NEW B \in Nat, NEW fs \in Seq(Frame), fs # << >>, Len(fs) <= MaxDepth
    PROVE  /\ Len(fs) - 1 \in 0 .. Len(fs)
           /\ Costs(fs, B)[Len(fs) - 1] \in Nat
           /\ Weights(B)[MaxDepth - Len(fs)] \in Nat
           /\ Weights(B)[MaxDepth - Len(fs)] >= 1
           /\ ToGo(fs[Len(fs)], B) \in Nat /\ ToGo(fs[Len(fs)], B) >= 1
           /\ Cost(fs, B) = Costs(fs, B)[Len(fs) - 1]
                              + ToGo(fs[Len(fs)], B) * Weights(B)[MaxDepth - Len(fs)]
           /\ Cost(fs, B) \in Nat
<1>1. Len(fs) \in Nat \ {0} /\ Len(fs) \in 1 .. Len(fs) /\ MaxDepth \in Nat
      /\ Len(fs) - 1 \in 0 .. Len(fs) /\ MaxDepth - Len(fs) \in 0 .. MaxDepth
      /\ Len(fs) \in 0 .. Len(fs)
  BY TreeAssumption
<1>2. fs[Len(fs)] \in Frame
  BY <1>1
<1>3. Costs(fs, B) \in [0 .. Len(fs) -> Nat] /\ Sums(Costs(fs, B), fs, B)
  BY CostsAre
<1>4. Cost(fs, B) = Costs(fs, B)[Len(fs) - 1]
                      + ToGo(fs[Len(fs)], B) * Weights(B)[MaxDepth - Len(fs)]
  BY <1>1, <1>3 DEF Cost, Sums
<1>5. ToGo(fs[Len(fs)], B) \in Nat /\ ToGo(fs[Len(fs)], B) >= 1
  BY <1>2, ToGoType
<1>6. /\ Weights(B)[MaxDepth - Len(fs)] \in Nat
      /\ Weights(B)[MaxDepth - Len(fs)] >= 1
  BY <1>1, WeightsAre
<1>7. Costs(fs, B)[Len(fs) - 1] \in Nat /\ Cost(fs, B) \in Nat
  BY <1>1, <1>3 DEF Cost
<1>8. QED  BY <1>1, <1>4, <1>5, <1>6, <1>7

\* A top that has less to go saves its weight.
LEMMA CostReplace ==
    ASSUME NEW B \in Nat, NEW fs \in Seq(Frame), fs # << >>, Len(fs) <= MaxDepth,
           NEW c \in Frame, ToGo(c, B) < ToGo(fs[Len(fs)], B)
    PROVE  LET gs == [fs EXCEPT ![Len(fs)] = c]
           IN  /\ gs \in Seq(Frame) /\ Len(gs) = Len(fs) /\ gs # << >>
               /\ gs[Len(fs)] = c /\ Cost(gs, B) \in Nat /\ Cost(fs, B) \in Nat
               /\ Cost(gs, B) + Weights(B)[MaxDepth - Len(fs)] <= Cost(fs, B)
<1> DEFINE gs == [fs EXCEPT ![Len(fs)] = c]
           n == Len(fs)
<1>0. n \in Nat \ {0} /\ n \in 1 .. n /\ n - 1 \in Nat /\ n - 1 <= n /\ n <= MaxDepth
  OBVIOUS
<1>1. gs \in Seq(Frame) /\ Len(gs) = n /\ gs # << >> /\ gs[n] = c
      /\ \A k \in 1 .. n - 1 : gs[k] = fs[k]
  BY <1>0
<1> HIDE DEF gs, n
<1>n. n = Len(fs)
  BY DEF n
<1>2. /\ Costs(fs, B)[n - 1] \in Nat /\ Weights(B)[MaxDepth - n] \in Nat
      /\ Weights(B)[MaxDepth - n] >= 1 /\ ToGo(fs[n], B) \in Nat
      /\ Cost(fs, B) = Costs(fs, B)[n - 1] + ToGo(fs[n], B) * Weights(B)[MaxDepth - n]
      /\ Cost(fs, B) \in Nat
  BY <1>0, <1>n, CostOfTop
<1>3. /\ ToGo(c, B) \in Nat
      /\ Cost(gs, B) = Costs(gs, B)[n - 1] + ToGo(c, B) * Weights(B)[MaxDepth - n]
      /\ Cost(gs, B) \in Nat
  BY <1>0, <1>1, CostOfTop
<1>4. Costs(fs, B)[n - 1] = Costs(gs, B)[n - 1]
  BY <1>0, <1>1, <1>n, CostsAgree
<1>5. PICK x \in Nat, w \in Nat, a \in Nat, b \in Nat :
         /\ x = Costs(fs, B)[n - 1] /\ w = Weights(B)[MaxDepth - n]
         /\ a = ToGo(c, B) /\ b = ToGo(fs[n], B)
  BY <1>2, <1>3
<1>6. a < b /\ w >= 1
  BY <1>2, <1>5, <1>n
<1>7. a * w + w <= b * w /\ a * w \in Nat /\ b * w \in Nat
  BY <1>6, OneLess
<1>8. Cost(gs, B) = x + a * w /\ Cost(fs, B) = x + b * w
  BY <1>2, <1>3, <1>4, <1>5
<1>9. Cost(gs, B) + w <= Cost(fs, B)
  BY <1>7, <1>8
<1>10. QED  BY <1>1, <1>2, <1>3, <1>5, <1>9, <1>n DEF gs

\* A call costs less than the weight its caller saved.
LEMMA CostPush ==
    ASSUME NEW B \in Nat, NEW fs \in Seq(Frame), fs # << >>, Len(fs) < MaxDepth,
           NEW f \in Frame, ToGo(f, B) <= 2 * B + 2
    PROVE  /\ Cost(Append(fs, f), B) \in Nat /\ Cost(fs, B) \in Nat
           /\ Cost(Append(fs, f), B) < Cost(fs, B) + Weights(B)[MaxDepth - Len(fs)]
<1> DEFINE gs == Append(fs, f)
           n == Len(fs)
<1>0. n \in Nat \ {0} /\ n + 1 \in Nat /\ (n + 1) - 1 = n /\ n <= n + 1 /\ n <= MaxDepth
      /\ n + 1 <= MaxDepth /\ MaxDepth \in Nat
  BY TreeAssumption
<1>1. gs \in Seq(Frame) /\ Len(gs) = n + 1 /\ gs # << >> /\ gs[n + 1] = f
      /\ \A k \in 1 .. n : gs[k] = fs[k]
  BY <1>0
<1> HIDE DEF gs, n
<1>n. n = Len(fs)
  BY DEF n
<1>2. Cost(fs, B) = Costs(fs, B)[n] /\ Cost(fs, B) \in Nat
  BY <1>0, <1>n, CostOfTop DEF Cost
<1>3. /\ ToGo(f, B) \in Nat /\ Weights(B)[MaxDepth - (n + 1)] \in Nat
      /\ Cost(gs, B) = Costs(gs, B)[(n + 1) - 1]
                         + ToGo(f, B) * Weights(B)[MaxDepth - (n + 1)]
      /\ Cost(gs, B) \in Nat
  BY <1>0, <1>1, CostOfTop
<1>4. Costs(fs, B)[n] = Costs(gs, B)[n]
  <2>1. /\ n \in Nat /\ Len(fs) <= MaxDepth /\ Len(gs) <= MaxDepth /\ n <= Len(fs)
        /\ n <= Len(gs) /\ \A k \in 1 .. n : fs[k] = gs[k]
    BY <1>0, <1>1, <1>n
  <2>2. QED  BY <1>1, <2>1, CostsAgree, Zenon
<1>5. MaxDepth - n \in 1 .. MaxDepth /\ (MaxDepth - n) - 1 = MaxDepth - (n + 1)
  BY <1>0
<1>6. Weights(B)[MaxDepth - n] = (2 * B + 2) * Weights(B)[MaxDepth - (n + 1)] + 1
  <2>1. Weighs(Weights(B), B)
    BY WeightsAre
  <2>2. Weights(B)[MaxDepth - n] = (2 * B + 2) * Weights(B)[(MaxDepth - n) - 1] + 1
    BY <1>5, <2>1 DEF Weighs
  <2>3. QED  BY <1>5, <2>2, Zenon
<1>7. PICK x \in Nat, w \in Nat, a \in Nat, b \in Nat :
         /\ x = Costs(fs, B)[n] /\ w = Weights(B)[MaxDepth - (n + 1)]
         /\ a = ToGo(f, B) /\ b = 2 * B + 2
  BY <1>2, <1>3
<1>8. a * w <= b * w /\ a * w \in Nat /\ b * w \in Nat
  BY <1>7, AtMost
<1>9. Cost(gs, B) = x + a * w /\ Cost(fs, B) = x /\ Weights(B)[MaxDepth - n] = b * w + 1
  BY <1>0, <1>2, <1>3, <1>4, <1>6, <1>7
<1>10. Cost(gs, B) < Cost(fs, B) + Weights(B)[MaxDepth - n]
  BY <1>8, <1>9
<1>11. QED  BY <1>2, <1>3, <1>10, <1>n DEF gs

\* A return costs something.
LEMMA CostPop ==
    ASSUME NEW B \in Nat, NEW fs \in Seq(Frame), fs # << >>, Len(fs) <= MaxDepth
    PROVE  Cost(Front(fs), B) \in Nat /\ Cost(fs, B) \in Nat /\ Cost(Front(fs), B) < Cost(fs, B)
<1> DEFINE gs == Front(fs)
           n == Len(fs)
<1>0. n \in Nat \ {0} /\ n - 1 \in Nat /\ n - 1 <= n /\ n <= MaxDepth /\ n - 1 <= MaxDepth
      /\ MaxDepth \in Nat
  BY TreeAssumption
<1>1. gs \in Seq(Frame) /\ Len(gs) = n - 1 /\ \A k \in 1 .. n - 1 : gs[k] = fs[k]
  BY FrontOf
<1> HIDE DEF gs, n
<1>n. n = Len(fs)
  BY DEF n
<1>2. /\ Costs(fs, B)[n - 1] \in Nat /\ Weights(B)[MaxDepth - n] \in Nat
      /\ Weights(B)[MaxDepth - n] >= 1 /\ ToGo(fs[n], B) \in Nat /\ ToGo(fs[n], B) >= 1
      /\ Cost(fs, B) = Costs(fs, B)[n - 1] + ToGo(fs[n], B) * Weights(B)[MaxDepth - n]
      /\ Cost(fs, B) \in Nat
  BY <1>0, <1>n, CostOfTop
<1>4. Costs(fs, B)[n - 1] = Costs(gs, B)[n - 1]
  <2>1. PICK m \in Nat : m = n - 1
    BY <1>0
  <2>2. /\ Len(gs) = m /\ m <= Len(gs) /\ Len(gs) <= MaxDepth /\ m <= Len(fs)
        /\ Len(fs) <= MaxDepth /\ \A k \in 1 .. m : fs[k] = gs[k]
    BY <1>0, <1>1, <1>n, <2>1
  <2>3. Costs(fs, B)[m] = Costs(gs, B)[m]
    BY <1>1, <2>2, CostsAgree
  <2>4. QED  BY <2>1, <2>3
<1>5. Cost(gs, B) = Costs(fs, B)[n - 1]
  BY <1>1, <1>4 DEF Cost
<1>6. PICK x \in Nat, w \in Nat, b \in Nat :
         /\ x = Costs(fs, B)[n - 1] /\ w = Weights(B)[MaxDepth - n] /\ b = ToGo(fs[n], B)
  BY <1>2
<1>7. 0 < b /\ w >= 1
  BY <1>2, <1>6
<1>8. 0 * w + w <= b * w /\ b * w \in Nat /\ 0 * w = 0
  BY <1>7, OneLess
<1>9. Cost(fs, B) = x + b * w /\ Cost(gs, B) = x
  BY <1>2, <1>5, <1>6
<1>10. QED  BY <1>2, <1>7, <1>8, <1>9, <1>n DEF gs

\* The most steps the walk may still take: those of the stack, or of the call
\* for the root, and the reads and the two walks over the tree around them.
Left(B) ==
    CASE pc = "is_structure" -> Weights(B)[MaxDepth] + 6
      [] pc = "name" -> Weights(B)[MaxDepth] + 5
      [] pc = "value" -> Weights(B)[MaxDepth] + 4
      [] pc = "type" -> Cost(frames, B) + 4
      [] pc = "node_type" -> Cost(frames, B) + 3
      [] pc = "build" -> Cost(frames, B) + 2
      [] pc = "collect" -> 2
      [] pc = "release" -> 1
      [] OTHER -> 0

\* A step of the walk brings its end nearer, a change of the server or the link
\* does not put it off.
Nearer(B) ==
    /\ Program => Left(B)' < Left(B)
    /\ Change => Left(B)' = Left(B)

\* The cost of a stack is a number.
LEMMA CostType ==
    ASSUME NEW B \in Nat, NEW fs \in Seq(Frame), Len(fs) <= MaxDepth
    PROVE  Cost(fs, B) \in Nat /\ Weights(B)[MaxDepth] \in Nat
<1>1. MaxDepth \in 0 .. MaxDepth
  BY TreeAssumption
<1>2. Weights(B)[MaxDepth] \in Nat
  BY <1>1, WeightsAre
<1>3. Len(fs) \in 0 .. Len(fs)
  OBVIOUS
<1>4. Costs(fs, B) \in [0 .. Len(fs) -> Nat]
  BY CostsAre
<1>5. QED  BY <1>2, <1>3, <1>4 DEF Cost

\* So is the measure.
LEMMA LeftType ==
    ASSUME NEW B \in Nat, Inv
    PROVE  Left(B) \in Nat
<1>1. frames \in Seq(Frame) /\ Len(frames) <= MaxDepth
  BY DEF Inv, Stack
<1>2. Cost(frames, B) \in Nat /\ Weights(B)[MaxDepth] \in Nat
  BY <1>1, CostType
<1>3. QED  BY <1>2 DEF Left

\* A new call takes no more than the longest lists.
LEMMA CallToGo ==
    ASSUME NEW B \in Nat, NEW at \in Nat \ {0}, NEW node \in Node,
           NEW elements \in Seq(Node \cup {NoType}), Len(elements) <= B
    PROVE  /\ Call(at, node, elements) \in Frame
           /\ ToGo(Call(at, node, elements), B) <= 2 * B + 2
<1> DEFINE f == Call(at, node, elements)
<1>0. << >> \in Seq(Node) /\ Len(<< >>) = 0 /\ Len(elements) \in Nat
  OBVIOUS
<1>1. f \in Frame /\ f.elements = elements /\ f.fields = << >> /\ f.browsed = FALSE
  BY <1>0 DEF Call, Frame
<1> HIDE DEF f
<1>2. ToGo(f, B) = 1 + Len(elements) + 0 + (B + 1)
  BY <1>0, <1>1 DEF ToGo
<1>3. ToGo(f, B) <= 2 * B + 2
  BY <1>0, <1>2
<1>4. QED  BY <1>1, <1>3 DEF f

\* The top goes on, and may make a call.
LEMMA CallerLess ==
    ASSUME NEW B \in Nat, Inv, Building, NEW caller \in Frame,
           ToGo(caller, B) < ToGo(Top, B)
    PROVE  /\ frames' = SetTop(caller) => Cost(frames', B) < Cost(frames, B)
           /\ \A f \in Frame :
                 /\ ToGo(f, B) <= 2 * B + 2 /\ Len(frames) < MaxDepth
                 /\ frames' = Append(SetTop(caller), f)
                 => Cost(frames', B) < Cost(frames, B)
<1>1. frames \in Seq(Frame) /\ frames # << >> /\ Len(frames) \in 1 .. MaxDepth
      /\ Len(frames) <= MaxDepth
  BY TopFrame, TreeAssumption DEF Building
<1> DEFINE gs == SetTop(caller)
           w == Weights(B)[MaxDepth - Len(frames)]
<1>2. /\ gs \in Seq(Frame) /\ Len(gs) = Len(frames) /\ gs # << >>
      /\ Cost(gs, B) \in Nat /\ Cost(frames, B) \in Nat
      /\ Cost(gs, B) + w <= Cost(frames, B)
  BY <1>1, CostReplace DEF SetTop, Top
<1>3. w \in Nat /\ w >= 1
  BY <1>1, CostOfTop
<1> HIDE DEF gs, w
<1>4. Cost(gs, B) < Cost(frames, B)
  BY <1>2, <1>3
<1>5. ASSUME NEW f \in Frame, ToGo(f, B) <= 2 * B + 2, Len(frames) < MaxDepth
      PROVE  Cost(Append(gs, f), B) < Cost(frames, B)
  <2>1. Len(gs) < MaxDepth
    BY <1>2, <1>5
  <2>2. /\ Cost(Append(gs, f), B) \in Nat
        /\ Cost(Append(gs, f), B) < Cost(gs, B) + Weights(B)[MaxDepth - Len(gs)]
    BY <1>2, <1>5, <2>1, CostPush
  <2>3. Weights(B)[MaxDepth - Len(gs)] = w
    BY <1>2 DEF w
  <2>4. PICK a \in Nat, b \in Nat, c \in Nat, v \in Nat :
           a = Cost(Append(gs, f), B) /\ b = Cost(gs, B) /\ c = Cost(frames, B) /\ v = w
    BY <1>2, <1>3, <2>2
  <2>5. a < b + v /\ b + v <= c
    BY <1>2, <2>2, <2>3, <2>4
  <2>6. a < c
    BY <2>5
  <2>7. QED  BY <2>4, <2>6
<1>6. QED  BY <1>4, <1>5 DEF gs

\* add_child and the call for it, seen from the caller.
LEMMA CalledLess ==
    ASSUME NEW B \in Nat, Inv, Building, NEW child, NEW caller \in Frame, NEW node \in Node,
           NEW elements \in Seq(Node \cup {NoType}), Len(elements) <= B,
           ToGo(caller, B) < ToGo(Top, B),
           AddAndCall(child, caller, node, elements)
    PROVE  \/ pc' = "build" /\ Cost(frames', B) < Cost(frames, B)
           \/ pc' = "stack_overflow"
<1>1. CASE Len(frames) < MaxDepth
  <2>1. Len(tree) + 1 \in Nat \ {0}
    BY DEF Inv
  <2>2. PICK f : f = Call(Len(tree) + 1, node, elements)
    OBVIOUS
  <2>3. f \in Frame /\ ToGo(f, B) <= 2 * B + 2
    BY <2>1, <2>2, CallToGo
  <2>4. frames' = Append(SetTop(caller), f) /\ pc' = "build"
    BY <1>1, <2>2 DEF AddAndCall, Building
  <2>5. QED  BY <1>1, <2>3, <2>4, CallerLess
<1>2. CASE ~(Len(frames) < MaxDepth)
  BY <1>2 DEF AddAndCall, Step
<1>3. QED  BY <1>1, <1>2

\* The call for the root, the first on the stack.
LEMMA RootCall ==
    ASSUME NEW B \in Nat, NEW f \in Frame, ToGo(f, B) <= 2 * B + 2
    PROVE  Cost(<<f>>, B) \in Nat /\ Cost(<<f>>, B) < Weights(B)[MaxDepth]
<1> DEFINE fs == <<f>>
<1>0. MaxDepth \in Nat \ {0}
  BY TreeAssumption, FS_CardinalityType
<1>1. fs \in Seq(Frame) /\ fs # << >> /\ Len(fs) = 1 /\ fs[1] = f /\ Len(fs) <= MaxDepth
  BY <1>0
<1> HIDE DEF fs
<1>2. /\ Cost(fs, B) = Costs(fs, B)[1 - 1] + ToGo(f, B) * Weights(B)[MaxDepth - 1]
      /\ ToGo(f, B) \in Nat /\ Weights(B)[MaxDepth - 1] \in Nat /\ Cost(fs, B) \in Nat
  BY <1>1, CostOfTop
<1>3. Costs(fs, B)[0] = 0
  BY <1>1, CostsAre DEF Sums
<1>4. MaxDepth \in 1 .. MaxDepth
  BY <1>0
<1>5. Weights(B)[MaxDepth] = (2 * B + 2) * Weights(B)[MaxDepth - 1] + 1
  BY <1>4, WeightsAre DEF Weighs
<1>6. PICK w \in Nat, a \in Nat, b \in Nat :
         w = Weights(B)[MaxDepth - 1] /\ a = ToGo(f, B) /\ b = 2 * B + 2
  BY <1>2
<1>7. a * w <= b * w /\ a * w \in Nat /\ b * w \in Nat
  BY <1>6, AtMost
<1>8. Cost(fs, B) = a * w /\ Weights(B)[MaxDepth] = b * w + 1
  BY <1>2, <1>3, <1>5, <1>6
<1>9. QED  BY <1>2, <1>7, <1>8 DEF fs

\* One step for each action of the walk.
LEMMA NearerStep ==
    ASSUME NEW B, Bounded(B)
    PROVE  Inv /\ [Next]_vars => [Nearer(B)]_vars
<1>1. SUFFICES ASSUME Inv, Next PROVE Nearer(B)
  OBVIOUS
<1>b. B \in Nat
  BY DEF Bounded
<1>2. ASSUME Change PROVE Left(B)' = Left(B)
  BY <1>2 DEF Change, Left
<1>3. ASSUME Program PROVE Left(B)' < Left(B)
  <2>1. Cost(frames, B) \in Nat /\ Weights(B)[MaxDepth] \in Nat
    BY <1>1, <1>b, CostType DEF Inv, Stack
  <2>2. root \in Node /\ server \in Servers /\ link \in BOOLEAN
    BY <1>1 DEF Inv
  <2>a. ASSUME NEW n \in Node
        PROVE  /\ Value(n).elements \in Seq(Node \cup {NoType}) /\ Len(Value(n).elements) <= B
               /\ server[n].components \in Seq(Node) /\ Len(server[n].components) <= B
    <3>1. /\ server[n].elements \in Seq(Node \cup {NoType}) /\ Len(server[n].elements) <= B
          /\ server[n].components \in Seq(Node) /\ Len(server[n].components) <= B
      BY <2>2, <2>a, Answer DEF Bounded
    <3>2. << >> \in Seq(Node \cup {NoType}) /\ Len(<< >>) <= B
      BY <1>b
    <3>3. QED  BY <3>1, <3>2 DEF Value
  <2>3. CASE IsStructure \/ ReadName \/ Collect \/ Release
    <3>1. \/ pc = "is_structure" /\ pc' \in {"name", "crashed", "idle"}
          \/ pc = "name" /\ pc' \in {"value", "null_root"}
          \/ pc = "collect" /\ pc' = "release"
          \/ pc = "release" /\ pc' = "idle"
      BY <2>3 DEF IsStructure, ReadName, Collect, Release, Step
    <3>2. QED  BY <2>1, <3>1 DEF Left
  <2>4. CASE ReadValue
    <3>1. CASE pc' = "null_root"
      BY <2>1, <2>4, <3>1 DEF ReadValue, Left
    <3>2. CASE pc' # "null_root"
      <4>1. pc = "value" /\ pc' = "type" /\ frames' = <<Call(1, root, Value(root).elements)>>
        BY <2>4, <3>2 DEF ReadValue, Step
      <4>2. PICK f : f = Call(1, root, Value(root).elements)
        OBVIOUS
      <4>3. f \in Frame /\ ToGo(f, B) <= 2 * B + 2
        BY <1>b, <2>2, <2>a, <4>2, CallToGo
      <4>4. Cost(frames', B) \in Nat /\ Cost(frames', B) < Weights(B)[MaxDepth]
        BY <1>b, <4>1, <4>2, <4>3, RootCall
      <4>5. Left(B) = Weights(B)[MaxDepth] + 4 /\ Left(B)' = Cost(frames', B) + 4
        BY <4>1 DEF Left
      <4>6. QED  BY <2>1, <4>4, <4>5
    <3>3. QED  BY <3>1, <3>2
  <2>5. CASE ReadType
    <3>1. /\ UNCHANGED frames
          /\ \/ pc = "type" /\ pc' \in {"null_root", "node_type"}
             \/ pc = "node_type" /\ pc' \in {"null_root", "build"}
      BY <2>5 DEF ReadType, Step
    <3>2. Cost(frames, B)' = Cost(frames, B)
      BY <3>1
    <3>3. QED  BY <2>1, <3>1, <3>2 DEF Left
  <2>6. CASE AddPlainElements \/ AddStructureElement \/ Browse \/ AddField \/ Return
    <3>1. Building /\ pc = "build"
      BY <2>6 DEF AddPlainElements, AddStructureElement, Browse, AddField, Return, Building
    <3>2. /\ Top \in Frame /\ frames \in Seq(Frame) /\ Len(frames) \in 1 .. MaxDepth
          /\ frames # << >>
      BY <1>1, <3>1, TopFrame DEF Building
    <3>3. SUFFICES \/ pc' = "build" /\ Cost(frames', B) < Cost(frames, B)
                   \/ pc' \in {"stack_overflow", "collect", "double_free"}
      <4>1. Cost(frames, B)' \in Nat
        <5>1. Inv'
          BY <1>1, InvStep
        <5>2. frames' \in Seq(Frame) /\ Len(frames') <= MaxDepth
          BY <5>1 DEF Inv, Stack
        <5>3. Cost(frames', B) \in Nat
          BY <1>b, <5>2, CostType
        <5>4. QED  BY <5>3
      <4>2. ASSUME pc' = "build", Cost(frames', B) < Cost(frames, B)
            PROVE  Left(B)' < Left(B)
        BY <2>1, <3>1, <4>1, <4>2 DEF Left
      <4>3. ASSUME pc' \in {"stack_overflow", "collect", "double_free"}
            PROVE  Left(B)' < Left(B)
        <5>1. Cost(frames, B) >= 1
          <6>1. Cost(frames, B) \in Nat /\ Cost(Front(frames), B) \in Nat
                /\ Cost(Front(frames), B) < Cost(frames, B)
            BY <1>b, <3>2, CostPop, TreeAssumption
          <6>2. QED  BY <6>1
        <5>2. QED  BY <2>1, <3>1, <4>3, <5>1 DEF Left
      <4>4. QED  BY <4>2, <4>3
    <3>4. PICK e \in Nat, r \in Nat :
             /\ e = Len(Top.elements) /\ r = Len(Top.fields)
             /\ Top.elements \in Seq(Node \cup {NoType}) /\ Top.fields \in Seq(Node)
             /\ Top.browsed \in BOOLEAN /\ Top.node \in Node /\ Top.at \in Nat \ {0}
      BY <3>2 DEF Frame
    <3>b. PICK b \in Nat : b = IF Top.browsed THEN 0 ELSE B + 1
      <4>1. (IF Top.browsed THEN 0 ELSE B + 1) \in Nat
        BY <1>b
      <4>2. QED  BY <4>1
    <3>t. ToGo(Top, B) = 1 + e + r + b
      BY <3>4, <3>b, Zenon DEF ToGo
    <3>5. CASE AddPlainElements
      <4>1. PICK caller : caller = [Top EXCEPT !.elements = << >>]
        OBVIOUS
      <4>2. /\ caller \in Frame /\ Len(caller.elements) = 0 /\ caller.fields = Top.fields
            /\ caller.browsed = Top.browsed
        <5>1. << >> \in Seq(Node \cup {NoType}) /\ Len(<< >>) = 0
          OBVIOUS
        <5>2. QED  BY <3>2, <4>1, <5>1 DEF Frame
      <4>3. e # 0
        BY <3>4, <3>5 DEF AddPlainElements
      <4>t. ToGo(caller, B) = 1 + 0 + r + b
        BY <3>4, <3>b, <4>2, Zenon DEF ToGo
      <4>4. ToGo(caller, B) < ToGo(Top, B)
        BY <3>t, <4>2, <4>3, <4>t
      <4>5. frames' = SetTop(caller) /\ pc' = "build"
        BY <3>1, <3>5, <4>1 DEF AddPlainElements
      <4>6. QED  BY <1>1, <1>b, <3>1, <4>2, <4>4, <4>5, CallerLess
    <3>6. CASE AddStructureElement
      <4>1. PICK caller : caller = [Top EXCEPT !.elements = Tail(@)]
        OBVIOUS
      <4>2. Top.elements # << >> /\ e # 0
        BY <3>4, <3>6 DEF AddStructureElement
      <4>3. /\ caller \in Frame /\ Len(caller.elements) = e - 1 /\ caller.fields = Top.fields
            /\ caller.browsed = Top.browsed
        <5>1. Tail(Top.elements) \in Seq(Node \cup {NoType}) /\ Len(Tail(Top.elements)) = e - 1
          BY <3>4, <4>2
        <5>2. QED  BY <3>2, <4>1, <5>1 DEF Frame
      <4>t. ToGo(caller, B) = 1 + (e - 1) + r + b
        BY <3>4, <3>b, <4>3, Zenon DEF ToGo
      <4>4. ToGo(caller, B) < ToGo(Top, B)
        BY <3>t, <4>2, <4>3, <4>t
      <4>5. CASE Head(Top.elements) = NoType
        <5>1. frames' = SetTop(caller) /\ pc' = "build"
          BY <3>1, <3>6, <4>1, <4>5 DEF AddStructureElement
        <5>2. QED  BY <1>1, <1>b, <3>1, <4>3, <4>4, <5>1, CallerLess
      <4>6. CASE Head(Top.elements) # NoType
        <5>1. PICK child :
                 AddAndCall(child, caller, Head(Top.elements), << >>)
          BY <3>6, <4>1, <4>6 DEF AddStructureElement
        <5>2. Head(Top.elements) \in Node
          BY <3>4, <4>2, <4>6
        <5>3. << >> \in Seq(Node \cup {NoType}) /\ Len(<< >>) <= B
          BY <1>b
        <5>4. QED  BY <1>1, <1>b, <3>1, <4>3, <4>4, <5>1, <5>2, <5>3, CalledLess
      <4>7. QED  BY <4>5, <4>6
    <3>7. CASE Browse
      <4>1. PICK fields : fields = IF link THEN server[Top.node].components ELSE << >>
        OBVIOUS
      <4>2. PICK caller : caller = [Top EXCEPT !.browsed = TRUE, !.fields = fields]
        OBVIOUS
      <4>3. fields \in Seq(Node) /\ Len(fields) <= B
        <5>1. << >> \in Seq(Node) /\ Len(<< >>) <= B
          BY <1>b
        <5>2. QED  BY <2>a, <3>4, <4>1, <5>1
      <4>4. caller \in Frame /\ caller.elements = Top.elements /\ caller.fields = fields
            /\ caller.browsed = TRUE
        BY <3>2, <4>2, <4>3 DEF Frame
      <4>5. PICK q \in Nat : q = Len(fields)
        BY <4>3
      <4>6. ToGo(caller, B) = 1 + e + q + 0 /\ ToGo(Top, B) = 1 + e + r + (B + 1)
        BY <3>4, <3>7, <4>4, <4>5 DEF ToGo, Browse
      <4>7. ToGo(caller, B) < ToGo(Top, B)
        BY <1>b, <4>3, <4>5, <4>6
      <4>8. frames' = SetTop(caller) /\ pc' = "build"
        BY <3>1, <3>7, <4>1, <4>2 DEF Browse
      <4>9. QED  BY <1>1, <1>b, <3>1, <4>4, <4>7, <4>8, CallerLess
    <3>8. CASE AddField
      <4>1. PICK caller : caller = [Top EXCEPT !.fields = Tail(@)]
        OBVIOUS
      <4>2. Top.fields # << >> /\ r # 0
        BY <3>4, <3>8 DEF AddField
      <4>3. /\ caller \in Frame /\ Len(caller.fields) = r - 1 /\ caller.elements = Top.elements
            /\ caller.browsed = Top.browsed
        <5>1. Tail(Top.fields) \in Seq(Node) /\ Len(Tail(Top.fields)) = r - 1
          BY <3>4, <4>2
        <5>2. QED  BY <3>2, <4>1, <5>1 DEF Frame
      <4>t. ToGo(caller, B) = 1 + e + (r - 1) + b
        BY <3>4, <3>b, <4>3, Zenon DEF ToGo
      <4>4. ToGo(caller, B) < ToGo(Top, B)
        BY <3>t, <4>2, <4>3, <4>t
      <4>5. PICK child :
               AddAndCall(child, caller, Head(Top.fields), Value(Head(Top.fields)).elements)
        BY <3>8, <4>1 DEF AddField
      <4>6. Head(Top.fields) \in Node
        BY <3>4, <4>2
      <4>7. QED  BY <1>1, <1>b, <2>a, <3>1, <4>3, <4>4, <4>5, <4>6, CalledLess
    <3>9. CASE Return
      <4>1. frames' = Front(frames) /\ pc' \in {"collect", "build", "double_free"}
        BY <3>9 DEF Return
      <4>2. Cost(frames', B) < Cost(frames, B)
        BY <1>b, <3>2, <4>1, CostPop, TreeAssumption
      <4>3. QED  BY <4>1, <4>2
    <3>10. QED  BY <2>6, <3>5, <3>6, <3>7, <3>8, <3>9
  <2>7. QED  BY <1>3, <2>3, <2>4, <2>5, <2>6 DEF Program
<1>4. QED  BY <1>2, <1>3 DEF Nearer

\* The walk over a structure ends, cycles or not: when no list of any server is
\* longer than B, it takes at most Weights(B)[MaxDepth] + 6 steps, however often
\* the server and the link change meanwhile, because every step of
\* _mirua_build_structure_tree works off an element or a reference, browses a
\* node for the first time or returns, and a call is made only while the stack
\* has room.
THEOREM WalksEnd ==
    ASSUME NEW B, Bounded(B)
    PROVE  Spec => [](Left(B) \in Nat) /\ [][Nearer(B)]_vars
<1>1. B \in Nat
  BY DEF Bounded
<1>2. Inv => Left(B) \in Nat
  BY <1>1, LeftType
<1>3. Inv /\ [Next]_vars => [Nearer(B)]_vars
  BY NearerStep
<1>4. QED  BY <1>2, <1>3, InvInit, InvStep, PTL DEF Spec
=============================================================================
