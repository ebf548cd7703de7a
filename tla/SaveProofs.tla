----------------------------- MODULE SaveProofs -----------------------------
(* Theorems of module Save, for every server, listing, link, set of lines  *)
(* and number of saves: the list fits, what is collected and what reaches  *)
(* a file, how a save can fail, and how long it takes.                     *)
EXTENDS Save, FiniteSetTheorems, SequenceTheorems, WellFoundedInduction, TLAPS

USE DEF Step, collection, output, console, world

\* The steps in which a row of the listing is being read.
RowRead == {"type", "value", "structure", "tree"}

RowListed == pc \in RowRead => row \in 1 .. Len(rows) /\ row <= LastRow

ArgsThere == Busy => args # << >> /\ args[1] + 1 <= row

FileThere == pc = "write" => filename \in DOMAIN files

\* Only a walk over a structure can be unsteady, and then something changed.
Steadiness == (pc # "tree" => steady) /\ (~steady => disturbed)

\* The list of a single row is empty until that row is appended.
SingleEmpty == ~IsRange /\ pc \in Reading => subset = << >>

Kept ==
    /\ TypeOK /\ SubsetFits /\ RowListed /\ ArgsThere /\ FileThere
    /\ Steadiness /\ SingleEmpty

-----------------------------------------------------------------------------
(* The list *)

LEMMA ElementOf ==
    ASSUME NEW S, NEW s \in Seq(S), NEW k \in 1 .. Len(s)
    PROVE  s[k] \in S
  OBVIOUS

LEMMA PairOf ==
    ASSUME NEW S, NEW s \in Seq(S), Len(s) = 2
    PROVE  s[1] \in S /\ s[2] \in S
<1>1. 1 \in 1 .. Len(s) /\ 2 \in 1 .. Len(s)
  OBVIOUS
<1>2. QED  BY <1>1, ElementOf

LEMMA AppendedElement ==
    ASSUME NEW S, NEW s \in Seq(S), NEW t \in Seq(S), NEW k \in DOMAIN (s \o t)
    PROVE  \/ k \in DOMAIN s /\ (s \o t)[k] = s[k]
           \/ \E j \in DOMAIN t : (s \o t)[k] = t[j]
<1>1. k \in 1 .. Len(s) + Len(t)
  OBVIOUS
<1>2. CASE k \in 1 .. Len(s)
  BY <1>2
<1>3. CASE k \notin 1 .. Len(s)
  <2>1. k - Len(s) \in 1 .. Len(t) /\ (s \o t)[k] = t[k - Len(s)]
    BY <1>1, <1>3
  <2>2. QED  BY <2>1
<1>4. QED  BY <1>2, <1>3

\* A set of numbers that holds 0 and, with n, n + 1 holds them all.
LEMMA Induction ==
    ASSUME NEW T, 0 \in T, \A n \in Nat : n \in T => n + 1 \in T
    PROVE  Nat \subseteq T
<1> DEFINE R == OpToRel(<, Nat)
           Others == Nat \ T
<1>1. IsWellFoundedOn(R, Nat)
  BY NatLessThanWellFounded
<1>2. \A x, y \in Nat : y < x => <<y, x>> \in R
  BY Zenon DEF OpToRel
<1> HIDE DEF R
<1>3. SUFFICES ASSUME Others # {} PROVE FALSE
  OBVIOUS
<1>4. PICK x \in Others : \A y \in Others : ~(<<y, x>> \in R)
  BY <1>1, <1>3, WFMin
<1>5. x \in Nat /\ x # 0 /\ x - 1 \in Nat /\ (x - 1) + 1 = x
  OBVIOUS
<1>6. x - 1 \in Others
  BY <1>5
<1>7. x - 1 < x
  BY <1>5
<1>8. QED
  BY <1>2, <1>4, <1>5, <1>6, <1>7

\* The function by which Grown is defined.
Growing(c, cap, size, n) ==
    c = [k \in 0 .. n |-> IF k = 0 THEN cap ELSE Doubled(c[k - 1], size + k - 1)]

LEMMA GrownBy ==
    ASSUME NEW cap \in Nat, NEW size \in Nat, NEW n \in Nat
    PROVE  \E c : Growing(c, cap, size, n) /\ Grown(cap, size, n) = c[n]
<1> DEFINE T == {m \in Nat : \E c : Growing(c, cap, size, m)}
<1>1. 0 \in T
  <2> DEFINE c == [k \in 0 .. 0 |-> cap]
  <2>1. c = [k \in 0 .. 0 |-> IF k = 0 THEN cap ELSE Doubled(c[k - 1], size + k - 1)]
    OBVIOUS
  <2> HIDE DEF c
  <2>2. Growing(c, cap, size, 0)
    BY <2>1 DEF Growing
  <2>3. QED  BY <2>2
<1>2. ASSUME NEW m \in Nat, m \in T PROVE m + 1 \in T
  <2>1. PICK g : Growing(g, cap, size, m)
    BY <1>2
  <2> DEFINE c == [k \in 0 .. m + 1 |-> IF k <= m THEN g[k] ELSE Doubled(g[m], size + m)]
             step(f, k) == IF k = 0 THEN cap ELSE Doubled(f[k - 1], size + k - 1)
  <2>2. \A k \in 0 .. m : g[k] = step(g, k)
    BY <2>1 DEF Growing
  <2>3. ASSUME NEW k \in 0 .. m + 1 PROVE c[k] = step(c, k)
    <3>1. CASE k = 0
      BY <2>2, <3>1
    <3>2. CASE k # 0 /\ k <= m
      <4>1. k \in 0 .. m /\ k - 1 \in 0 .. m /\ k - 1 \in 0 .. m + 1
        BY <3>2
      <4>2. c[k] = g[k] /\ c[k - 1] = g[k - 1]
        BY <4>1
      <4>3. QED  BY <2>2, <3>2, <4>1, <4>2
    <3>3. CASE k = m + 1
      <4>1. k - 1 = m /\ c[m] = g[m] /\ c[k] = Doubled(g[m], size + m)
        BY <3>3
      <4>2. size + k - 1 = size + m
        BY <3>3
      <4> HIDE DEF c
      <4>3. QED  BY <3>3, <4>1, <4>2
    <3>4. QED  BY <3>1, <3>2, <3>3
  <2>4. c = [k \in 0 .. m + 1 |-> c[k]]
    OBVIOUS
  <2> HIDE DEF c
  <2>5. Growing(c, cap, size, m + 1)
    BY <2>3, <2>4 DEF Growing
  <2>6. QED  BY <2>5
<1> HIDE DEF T
<1>3. n \in T
  BY <1>1, <1>2, Induction
<1>4. \E c : Growing(c, cap, size, n)
  BY <1>3 DEF T
<1>5. Grown(cap, size, n) = (CHOOSE c : Growing(c, cap, size, n))[n]
  BY DEF Grown, Growing
<1>6. QED  BY <1>4, <1>5

\* Doubling a full list before each append keeps ahead of the size, unless the
\* list never had any room.
LEMMA GrownFits ==
    ASSUME NEW cap \in Nat, NEW size \in Nat, NEW n \in Nat, size <= cap,
           cap # 0 \/ n = 0
    PROVE  /\ Grown(cap, size, n) \in Nat
           /\ Grown(cap, size, n) >= cap /\ Grown(cap, size, n) >= size + n
<1>1. PICK c : Growing(c, cap, size, n) /\ Grown(cap, size, n) = c[n]
  BY GrownBy
<1>2. \A k \in 0 .. n : c[k] = IF k = 0 THEN cap ELSE Doubled(c[k - 1], size + k - 1)
  BY <1>1 DEF Growing
<1> DEFINE U == {k \in Nat : k <= n => c[k] \in Nat /\ c[k] >= cap /\ c[k] >= size + k}
<1>3. 0 \in U
  BY <1>2
<1>4. ASSUME NEW k \in Nat, k \in U PROVE k + 1 \in U
  <2>1. SUFFICES ASSUME k + 1 <= n
                 PROVE  c[k + 1] \in Nat /\ c[k + 1] >= cap /\ c[k + 1] >= size + (k + 1)
    OBVIOUS
  <2>2. PICK d \in Nat : d = c[k] /\ d >= cap /\ d >= size + k
    BY <1>4, <2>1
  <2>3. c[k + 1] = Doubled(d, size + k)
    <3>1. k + 1 \in 0 .. n /\ k + 1 # 0 /\ (k + 1) - 1 = k /\ size + (k + 1) - 1 = size + k
      BY <2>1
    <3>2. QED  BY <1>2, <2>2, <3>1
  <2>4. cap >= 1
    BY <2>1
  <2>5. QED  BY <2>2, <2>3, <2>4 DEF Doubled
<1> HIDE DEF U
<1>5. n \in U
  BY <1>3, <1>4, Induction
<1>6. QED  BY <1>1, <1>5 DEF U

\* Appending either fails on a list without room or leaves one that fits.
LEMMA Collected ==
    ASSUME TypeOK, NEW nodes \in Seq(NodeId), NEW cap \in Nat, Len(subset) <= cap,
           Collect(nodes, cap)
    PROVE  \/ /\ pc' = "heap_error" /\ cap = 0
              /\ UNCHANGED <<row, subset, capacity>>
           \/ /\ subset' = subset \o nodes /\ subset' \in Seq(NodeId)
              /\ capacity' \in Nat /\ capacity' >= cap
              /\ Len(subset') <= capacity'
              /\ \/ IsRange /\ row' = row + 1 /\ pc' = "class"
                 \/ ~IsRange /\ row' = row /\ pc' = "check"
<1>1. subset \in Seq(NodeId) /\ Len(subset) \in Nat /\ Len(nodes) \in Nat
  BY DEF TypeOK
<1>d. Doubled(cap, Len(subset)) = 0 <=> cap = 0
  BY <1>1 DEF Doubled
<1>2. CASE nodes # << >> /\ cap = 0
  BY <1>2, <1>d DEF Collect
<1>3. CASE ~(nodes # << >> /\ cap = 0)
  <2>1. /\ subset' = subset \o nodes
        /\ capacity' = Grown(cap, Len(subset), Len(nodes))
        /\ IF IsRange THEN row' = row + 1 /\ pc' = "class"
                      ELSE UNCHANGED row /\ pc' = "check"
    BY <1>3, <1>d DEF Collect
  <2>2. cap # 0 \/ Len(nodes) = 0
    BY <1>3
  <2>3. capacity' \in Nat /\ capacity' >= cap /\ capacity' >= Len(subset) + Len(nodes)
    BY <1>1, <2>1, <2>2, GrownFits
  <2>4. subset' \in Seq(NodeId) /\ Len(subset') = Len(subset) + Len(nodes)
    BY <1>1, <2>1
  <2>5. QED  BY <2>1, <2>3, <2>4
<1>4. QED  BY <1>2, <1>3

\* A walk finds nodes at or below the row, or elements without an id if
\* something changed under it.
LEMMA WalkFinds ==
    ASSUME TypeOK, Current \in Node, NEW found \in Walked
    PROVE  /\ found \in Seq(NodeId)
           /\ \A k \in DOMAIN found : found[k] \in Below[Current]
                                      \/ (~steady /\ found[k] = NullId)
<1>1. Below[Current] \subseteq Node
  BY DEF Below
<1>2. CASE steady
  <2>1. found = server[Current].leaves /\ server \in Servers
    BY <1>2 DEF Walked, TypeOK
  <2>2. found \in Seq(Node) /\ Range(found) \subseteq Below[Current]
    BY <2>1, SaveAssumption DEF Attribute
  <2>3. \A k \in 1 .. Len(found) : found[k] \in Node
    BY <2>2, ElementOf
  <2>4. found \in Seq(NodeId)
    BY <2>2, <2>3, IsASeq DEF NodeId
  <2>5. QED  BY <2>2, <2>4 DEF Range
<1>3. CASE ~steady
  <2> DEFINE I == Below[Current] \cup {NullId}
  <2>1. found \in BoundedSeq(I, MaxFound)
    BY <1>3 DEF Walked
  <2> HIDE DEF I
  <2>2. PICK m \in Nat : found \in [1 .. m -> I]
    BY <2>1, SaveAssumption DEF BoundedSeq, SeqOf
  <2>3. found \in Seq(I) /\ \A k \in DOMAIN found : found[k] \in I
    BY <2>2
  <2>4. I \subseteq NodeId
    BY <1>1 DEF I, NodeId
  <2>5. found \in Seq(NodeId)
    BY <2>2, <2>4
  <2>6. QED  BY <1>3, <2>3, <2>5 DEF I
<1>4. QED  BY <1>2, <1>3

\* The node was found for the current row.
Mine(node) ==
    \/ node = Current
    \/ /\ pc \in {"structure", "tree"}
       /\ node \in Below[Current] \/ (~steady /\ node = NullId)

\* What one of the three steps that may append to the list does.
Appending == ReadValue \/ ExploreStructure \/ BuildTree

LEMMA RowAnswered ==
    ASSUME Kept, Appending
    PROVE  /\ UNCHANGED <<rows, args, output, files, console, saves, server, link, disturbed>>
           /\ steady'
           /\ pc \in RowRead /\ Current \in Node
           /\ \/ /\ pc' \in {"structure", "tree", "null_tree", "walk_failed"}
                 /\ UNCHANGED collection
              \/ \E nodes \in Seq(NodeId), cap \in Nat :
                    /\ cap = capacity \/ ~IsRange
                    /\ cap \in {capacity, 8}
                    /\ Len(subset) <= cap
                    /\ Collect(nodes, cap)
                    /\ \A k \in DOMAIN nodes : Mine(nodes[k])
<1> USE DEF Appending
<1>t. TypeOK
  BY DEF Kept
<1>1. pc \in RowRead
  BY DEF ReadValue, ExploreStructure, BuildTree, RowRead
<1>2. Current \in Node
  <2>1. rows \in Seq(Node) /\ row \in 1 .. Len(rows)
    BY <1>1, SaveAssumption DEF Kept, TypeOK, RowListed
  <2>2. QED  BY <2>1, ElementOf DEF Current
<1>3. /\ capacity \in Nat /\ Len(subset) <= capacity
      /\ ListCapacity \in Nat /\ ListCapacity \in {capacity, 8}
      /\ ListCapacity = capacity \/ ~IsRange
      /\ Len(subset) <= ListCapacity
  <2>1. capacity \in Nat /\ Len(subset) <= capacity
    BY DEF Kept, TypeOK, SubsetFits
  <2>2. ~IsRange => Len(subset) = 0
    BY <1>1 DEF Kept, SingleEmpty, RowRead, Reading
  <2>3. QED  BY <2>1, <2>2 DEF ListCapacity
<1>4. pc # "tree" => steady
  BY DEF Kept, Steadiness
<1>5. CASE ReadValue
  <2>0. /\ UNCHANGED <<rows, args, output, files, console, saves, world>> /\ pc = "value"
    BY <1>5 DEF ReadValue
  <2>1. CASE IsStructure(Current)
    BY <1>1, <1>2, <1>4, <1>5, <2>0, <2>1 DEF ReadValue
  <2>2. CASE ~IsStructure(Current)
    <3>1. Collect(<<Current>>, capacity)
      BY <1>5, <2>2 DEF ReadValue
    <3>2. <<Current>> \in Seq(NodeId)
      BY <1>2 DEF NodeId
    <3>3. \A k \in DOMAIN <<Current>> : Mine(<<Current>>[k])
      BY DEF Mine
    <3>4. QED  BY <1>1, <1>2, <1>3, <1>4, <2>0, <3>1, <3>2, <3>3
  <2>3. QED  BY <2>1, <2>2
<1>6. CASE ExploreStructure
  <2>0. /\ UNCHANGED <<rows, args, output, files, console, saves, world>> /\ pc = "structure"
    BY <1>6 DEF ExploreStructure
  <2>1. CASE Collect(<< >>, ListCapacity)
    <3>1. << >> \in Seq(NodeId) /\ DOMAIN << >> = {}
      OBVIOUS
    <3>2. QED  BY <1>1, <1>2, <1>3, <1>4, <2>0, <2>1, <3>1
  <2>2. CASE ~Collect(<< >>, ListCapacity)
    BY <1>1, <1>2, <1>4, <1>6, <2>0, <2>2 DEF ExploreStructure
  <2>3. QED  BY <2>1, <2>2
<1>7. CASE BuildTree
  <2>0. /\ UNCHANGED <<rows, args, output, files, console, saves, server, link, disturbed>>
        /\ pc = "tree" /\ steady' = TRUE
    BY <1>7 DEF BuildTree
  <2>1. ASSUME NEW found \in Walked, Collect(found, ListCapacity)
        PROVE  /\ found \in Seq(NodeId) /\ Collect(found, ListCapacity)
               /\ \A k \in DOMAIN found : Mine(found[k])
    BY <1>t, <1>2, <2>0, <2>1, WalkFinds DEF Mine
  <2>2. CASE \E found \in Walked : Collect(found, ListCapacity)
    BY <1>1, <1>2, <1>3, <2>0, <2>1, <2>2
  <2>3. CASE ~\E found \in Walked : Collect(found, ListCapacity)
    BY <1>1, <1>2, <1>7, <2>0, <2>3 DEF BuildTree
  <2>4. QED  BY <2>2, <2>3
<1>8. QED  BY <1>5, <1>6, <1>7

-----------------------------------------------------------------------------
(* The steps that neither start a command nor append to the list *)

LEMMA OtherSteps ==
    ASSUME [Next]_vars, ~ReadCommand, ~Appending
    PROVE  /\ UNCHANGED <<rows, args, subset, capacity>>
           /\ row' \in {row, row + 1}
           /\ pc' \in {"heap_error", "null_tree"} => pc' = pc
           /\ pc' \in Reading => pc \in Reading
           /\ Busy' => Busy
           /\ pc' \in RowRead =>
                 /\ row' = row
                 /\ \/ pc' = pc
                    \/ pc' = "type" /\ IsVariable(Current) /\ UNCHANGED world
                    \/ pc' = "value" /\ pc = "type" /\ UNCHANGED world
           /\ pc = "tree" => pc' = "tree"
           /\ \/ UNCHANGED world
              \/ disturbed' = TRUE /\ steady' = (pc # "tree") /\ pc' = pc
<1>1. CASE UNCHANGED vars
  BY <1>1 DEF vars, Busy
<1>2. CASE Environment
  BY <1>2 DEF Environment, Type, CloseInput, ServerChanges, FlipLink, Busy
<1>3. CASE EndOfInput \/ RowsDone \/ RowOutOfListing \/ ReadClass \/ Accept \/ Refuse
  BY <1>3
  DEF EndOfInput, RowsDone, RowOutOfListing, ReadClass, Accept, Refuse, SkipRow,
      Reading, RowRead, Busy
<1>4. CASE CheckFile \/ Answer \/ Swallow \/ AnswerAtEof
  BY <1>4 DEF CheckFile, Answer, Swallow, AnswerAtEof, Reading, RowRead, Busy
<1>5. CASE NewName \/ OpenFile \/ WriteFile
  BY <1>5 DEF NewName, OpenFile, WriteFile, Reading, RowRead, Busy
<1>6. QED  BY <1>1, <1>2, <1>3, <1>4, <1>5 DEF Next, Program, Appending

-----------------------------------------------------------------------------
(* What a walk and a single row start from *)

LEMMA SteadyStep ==
    ASSUME Kept, [Next]_vars
    PROVE  Steadiness' /\ SingleEmpty'
<1>k. TypeOK /\ Steadiness /\ SingleEmpty
  BY DEF Kept
<1>1. CASE ReadCommand
  BY <1>k, <1>1 DEF ReadCommand, Steadiness, SingleEmpty, Reading
<1>2. CASE Appending
  <2>1. /\ UNCHANGED args /\ steady' /\ pc \in Reading
        /\ \/ UNCHANGED collection
           \/ \E nodes \in Seq(NodeId), cap \in Nat : Len(subset) <= cap /\ Collect(nodes, cap)
    BY <1>2, RowAnswered DEF RowRead, Reading
  <2>2. IsRange' = IsRange
    BY <2>1 DEF IsRange
  <2>3. CASE UNCHANGED collection
    BY <1>k, <2>1, <2>2, <2>3 DEF Steadiness, SingleEmpty
  <2>4. ASSUME NEW nodes \in Seq(NodeId), NEW cap \in Nat,
               Len(subset) <= cap, Collect(nodes, cap)
        PROVE  pc' \in {"heap_error", "check"} \/ (IsRange /\ pc' = "class")
    BY <1>k, <2>4, Collected
  <2>5. QED
    BY <2>1, <2>2, <2>3, <2>4 DEF Steadiness, SingleEmpty, Reading
<1>3. CASE ~ReadCommand /\ ~Appending
  <2>1. /\ UNCHANGED <<args, subset>> /\ (pc' \in Reading => pc \in Reading)
        /\ pc = "tree" => pc' = "tree"
        /\ \/ UNCHANGED world
           \/ disturbed' = TRUE /\ steady' = (pc # "tree") /\ pc' = pc
    BY <1>3, OtherSteps
  <2>2. SingleEmpty'
    BY <1>k, <2>1 DEF SingleEmpty, IsRange
  <2>3. Steadiness'
    BY <1>k, <2>1 DEF Steadiness, TypeOK
  <2>4. QED  BY <2>2, <2>3
<1>4. QED  BY <1>1, <1>2, <1>3

-----------------------------------------------------------------------------
(* Types, and the list fits *)

LEMMA KeptInit == Init => Kept
<1>1. SUFFICES ASSUME Init PROVE Kept
  OBVIOUS
<1>2. << >> \in Seq(Nat) /\ << >> \in Seq(NodeId) /\ << >> \in Seq(Line)
  OBVIOUS
<1>3. DOMAIN files = {}
  BY <1>1 DEF Init
<1>4. TypeOK
  <2>1. Len(<< >>) = 0 /\ MaxTyped \in Nat /\ MaxSaves \in Nat /\ Reliable \in BOOLEAN
    BY SaveAssumption
  <2>2. args \in Seq(Nat) /\ Len(args) <= 2 /\ subset \in Seq(NodeId)
    BY <1>1, <1>2, <2>1 DEF Init
  <2>3. stdin \in Seq(Line) /\ Len(stdin) <= MaxTyped /\ saves \in 0 .. MaxSaves
    BY <1>1, <1>2, <2>1 DEF Init
  <2>4. pc \in Asking /\ rows \in Listings /\ server \in Servers /\ filename \in Name
    BY <1>1, SaveAssumption DEF Init, Asking
  <2>5. row \in Nat /\ capacity \in Nat /\ mode \in {"w", "a"}
        /\ asked \in BOOLEAN /\ eof \in BOOLEAN /\ link \in BOOLEAN /\ disturbed \in BOOLEAN
        /\ steady \in BOOLEAN
    BY <1>1 DEF Init
  <2>6. QED  BY <1>3, <2>2, <2>3, <2>4, <2>5 DEF TypeOK
<1>5. QED
  BY <1>1, <1>4
  DEF Init, Kept, SubsetFits, RowListed, RowRead, ArgsThere, Busy, FileThere, Steadiness,
      SingleEmpty, Reading

LEMMA LinesTaken ==
    ASSUME TypeOK, stdin # << >>
    PROVE  /\ Head(stdin) \in LineShape /\ Len(Head(stdin).args) <= 2
           /\ Tail(stdin) \in Seq(Line) /\ Len(Tail(stdin)) <= MaxTyped
<1>1. stdin \in Seq(Line) /\ Len(stdin) <= MaxTyped
  BY DEF TypeOK
<1>2. Head(stdin) \in Line /\ Tail(stdin) \in Seq(Line) /\ Len(Tail(stdin)) = Len(stdin) - 1
  BY <1>1
<1>3. QED  BY <1>1, <1>2, SaveAssumption

LEMMA KeptStep == Kept /\ [Next]_vars => Kept'
<1> DEFINE Rest == TypeOK /\ SubsetFits /\ RowListed /\ ArgsThere /\ FileThere
<1>1. SUFFICES ASSUME Kept, [Next]_vars PROVE Rest'
  BY SteadyStep DEF Kept
<1> USE DEF Kept, SubsetFits, RowListed, RowRead, ArgsThere, Busy, FileThere
<1>2. CASE UNCHANGED vars
  BY <1>1, <1>2 DEF vars, TypeOK, LastRow, IsRange
<1>3. CASE ReadCommand
  <2>0. PICK line : line = Head(stdin)
    OBVIOUS
  <2>1. stdin # << >> /\ stdin' = Tail(stdin)
    BY <1>3 DEF ReadCommand
  <2>2. /\ line \in LineShape /\ Len(line.args) <= 2
        /\ stdin' \in Seq(Line) /\ Len(stdin') <= MaxTyped
    BY <1>1, <2>0, <2>1, LinesTaken
  <2>3. CASE line.args = << >>
    BY <1>1, <1>3, <2>0, <2>2, <2>3 DEF ReadCommand, TypeOK, LastRow, IsRange
  <2>4. CASE line.args # << >>
    <3>1. /\ args' = line.args /\ row' = line.args[1] + 1 /\ subset' = << >>
          /\ saves < MaxSaves /\ saves' = saves + 1
          /\ capacity' = IF Len(line.args) = 2
                           THEN RangeSize(line.args[1], line.args[2], Len(rows)) ELSE 1
          /\ filename' = OutputPath /\ mode' = "w" /\ asked' = FALSE
          /\ disturbed' = ~link /\ pc' = "class"
          /\ UNCHANGED <<rows, files, eof, server, link, steady>>
      BY <1>3, <2>0, <2>4 DEF ReadCommand
    <3>2. line.args \in Seq(Nat) /\ Len(line.args) \in 1 .. 2
      <4>1. line.args \in Seq(Nat)
        BY <2>2 DEF LineShape
      <4>2. Len(line.args) \in Nat /\ Len(line.args) # 0
        BY <2>4, <4>1
      <4>3. Len(line.args) <= 2
        BY <2>2
      <4>4. PICK n \in Nat : n = Len(line.args)
        BY <4>2
      <4>5. n # 0
        BY <4>2, <4>4
      <4>6. n <= 2
        BY <4>3, <4>4
      <4>7. n \in 1 .. 2
        BY <4>5, <4>6
      <4>8. QED  BY <4>1, <4>4, <4>7
    <3>3. line.args[1] \in Nat /\ (Len(line.args) = 2 => line.args[2] \in Nat)
      BY <3>2
    <3>4. Len(rows) \in Nat
      BY <1>1, SaveAssumption DEF TypeOK
    <3>5. capacity' \in Nat
      BY <3>1, <3>3, <3>4 DEF RangeSize
    <3>6. << >> \in Seq(NodeId) /\ Len(<< >>) = 0
      OBVIOUS
    <3>7. saves' \in 0 .. MaxSaves
      BY <1>1, <3>1, SaveAssumption DEF TypeOK
    <3>8. TypeOK'
      <4>1. /\ pc' \in Reading /\ rows' \in Listings /\ row' \in Nat /\ capacity' \in Nat
            /\ args' \in Seq(Nat) /\ Len(args') <= 2
        <5>1. pc' \in Reading /\ capacity' \in Nat /\ args' \in Seq(Nat)
          BY <3>1, <3>2, <3>5 DEF Reading
        <5>2. row' \in Nat
          BY <3>1, <3>3
        <5>3. Len(args') <= 2
          BY <2>2, <3>1
        <5>4. rows' \in Listings
          BY <1>1, <3>1 DEF TypeOK
        <5>5. QED  BY <5>1, <5>2, <5>3, <5>4
      <4>2. /\ subset' \in Seq(NodeId) /\ filename' \in Name /\ mode' \in {"w", "a"}
            /\ asked' \in BOOLEAN /\ disturbed' \in BOOLEAN
        BY <3>1, <3>6, SaveAssumption
      <4>3. QED  BY <1>1, <2>2, <3>1, <3>7, <4>1, <4>2 DEF TypeOK
    <3>9. QED  BY <3>1, <3>2, <3>3, <3>5, <3>6, <3>8
  <2>5. QED  BY <2>3, <2>4
<1>4. CASE EndOfInput \/ RowsDone \/ RowOutOfListing \/ CheckFile \/ AnswerAtEof
  <2>1. /\ UNCHANGED <<rows, args, collection, output, files, console, saves, world>>
        /\ pc' \in Asking \cup {"check", "open", "bad_row", "exited"}
        /\ pc' \in {"prompt", "exited"} \/ pc \notin {"prompt", "exited"}
    BY <1>4 DEF EndOfInput, RowsDone, RowOutOfListing, CheckFile, AnswerAtEof, Asking
  <2>2. TypeOK'
    BY <1>1, <2>1 DEF TypeOK, Ended
  <2>3. QED  BY <1>1, <2>1, <2>2 DEF Asking
<1>5. CASE ReadClass \/ Accept \/ Refuse
  <2>1. row \in Nat /\ row + 1 \in Nat /\ Len(rows) \in Nat
    BY <1>1, SaveAssumption DEF TypeOK
  <2>2. ReadClass => row \in 1 .. Len(rows) /\ row <= LastRow
    <3>1. SUFFICES ASSUME ReadClass PROVE row \in 1 .. Len(rows) /\ row <= LastRow
      OBVIOUS
    <3>2. args # << >> /\ args[1] + 1 <= row /\ args \in Seq(Nat)
      BY <1>1, <3>1 DEF ReadClass, TypeOK
    <3>3. args[1] \in Nat
      BY <3>2
    <3>4. QED  BY <2>1, <3>1, <3>2, <3>3 DEF ReadClass
  <2>3. args # << >> /\ args[1] \in Nat /\ args[1] + 1 <= row
    <3>1. args # << >> /\ args[1] + 1 <= row /\ args \in Seq(Nat)
      BY <1>1, <1>5 DEF ReadClass, Accept, Refuse, TypeOK
    <3>2. QED  BY <3>1
  <2>4. /\ UNCHANGED <<rows, args, subset, capacity, output, files, console, saves, world>>
        /\ \/ row' = row + 1 /\ pc' = "class"
           \/ row' = row /\ pc' \in {"prompt", "type"} /\ ReadClass
           \/ row' = row /\ pc' \in {"prompt", "value"} /\ pc = "type"
    BY <1>5 DEF ReadClass, Accept, Refuse, SkipRow
  <2>5. TypeOK'
    BY <1>1, <2>1, <2>4 DEF TypeOK, Reading, Asking
  <2>6. LastRow' = LastRow
    BY <2>4 DEF LastRow, IsRange
  <2>7. QED  BY <1>1, <2>1, <2>2, <2>3, <2>4, <2>5, <2>6
<1>6. CASE Appending
  <2>1. /\ UNCHANGED <<rows, args, output, files, console, saves, server, link, disturbed>>
        /\ steady' /\ pc \in RowRead
        /\ \/ /\ pc' \in {"structure", "tree", "null_tree", "walk_failed"}
              /\ UNCHANGED collection
           \/ \E nodes \in Seq(NodeId), cap \in Nat : Len(subset) <= cap /\ Collect(nodes, cap)
    BY <1>1, <1>6, RowAnswered
  <2>b. steady' \in BOOLEAN
    <3>1. steady' = steady \/ steady' = TRUE
      BY <1>6 DEF ReadValue, ExploreStructure, BuildTree, Appending
    <3>2. QED  BY <1>1, <3>1 DEF TypeOK
  <2>2. LastRow' = LastRow /\ IsRange' = IsRange
    BY <2>1 DEF LastRow, IsRange
  <2>3. args # << >> /\ args[1] \in Nat /\ args[1] + 1 <= row /\ row \in Nat
    <3>1. args # << >> /\ args[1] + 1 <= row /\ args \in Seq(Nat) /\ row \in Nat
      BY <1>1, <2>1 DEF TypeOK
    <3>2. QED  BY <3>1
  <2>4. CASE /\ pc' \in {"structure", "tree", "null_tree", "walk_failed"}
             /\ UNCHANGED collection
    <3>1. TypeOK'
      BY <1>1, <2>1, <2>b, <2>4 DEF TypeOK, Reading, Ended
    <3>2. QED  BY <1>1, <2>1, <2>2, <2>4, <3>1 DEF Reading
  <2>5. CASE \E nodes \in Seq(NodeId), cap \in Nat :
                Len(subset) <= cap /\ Collect(nodes, cap)
    <3>1. PICK nodes \in Seq(NodeId), cap \in Nat : Len(subset) <= cap /\ Collect(nodes, cap)
      BY <2>5
    <3>2. \/ pc' = "heap_error" /\ UNCHANGED <<row, subset, capacity>>
          \/ /\ subset' \in Seq(NodeId) /\ capacity' \in Nat /\ Len(subset') <= capacity'
             /\ \/ IsRange /\ row' = row + 1 /\ pc' = "class"
                \/ row' = row /\ pc' = "check"
      BY <1>1, <3>1, Collected
    <3>3. /\ row' \in Nat /\ subset' \in Seq(NodeId) /\ capacity' \in Nat
          /\ row' \in {row, row + 1}
          /\ pc' \in {"heap_error", "class", "check"} /\ (pc' = "class" => IsRange)
      <4>1. row \in Nat /\ subset \in Seq(NodeId) /\ capacity \in Nat
        BY <1>1, <2>3 DEF TypeOK
      <4>2. QED  BY <3>2, <4>1
    <3>4. TypeOK'
      BY <1>1, <2>1, <2>b, <3>3 DEF TypeOK, Reading, Ended
    <3>5. args' = args /\ args' # << >> /\ args'[1] + 1 <= row'
      BY <2>1, <2>3, <3>3
    <3>6. Len(subset') <= capacity'
      BY <1>1, <3>2
    <3>7. QED  BY <1>1, <2>1, <3>3, <3>4, <3>5, <3>6
  <2>6. QED  BY <2>1, <2>4, <2>5
<1>7. CASE Answer \/ Swallow \/ NewName
  <2>1. /\ stdin' = stdin \/ (stdin # << >> /\ stdin' = Tail(stdin))
        /\ pc \in Asking \ {"prompt"} /\ pc' \in {"swallow", "new_name", "open"}
        /\ filename' \in {filename, Head(stdin).name}
        /\ filename' = filename \/ stdin # << >>
        /\ mode' \in {"w", "a", mode} /\ asked' \in {TRUE, FALSE, asked}
        /\ UNCHANGED <<rows, args, row, subset, capacity, files, eof, saves,
                       server, link, disturbed, steady>>
    <3>1. CASE Answer
      BY <3>1 DEF Answer, Asking
    <3>2. CASE Swallow
      BY <3>2 DEF Swallow, Asking
    <3>3. CASE NewName
      BY <3>3 DEF NewName, Asking
    <3>4. QED  BY <1>7, <3>1, <3>2, <3>3
  <2>2. stdin' \in Seq(Line) /\ Len(stdin') <= MaxTyped /\ filename' \in Name
    BY <1>1, <2>1, LinesTaken DEF TypeOK, LineShape
  <2>3. TypeOK'
    BY <1>1, <2>1, <2>2 DEF TypeOK, Asking
  <2>4. QED  BY <1>1, <2>1, <2>3 DEF Asking
<1>8. CASE OpenFile
  <2>1. CASE filename \in Unopenable
    BY <1>1, <1>8, <2>1 DEF OpenFile, TypeOK, Asking
  <2>2. CASE filename \notin Unopenable
    <3>1. /\ files' = [f \in DOMAIN files \cup {filename} |->
                         IF f # filename THEN files[f]
                         ELSE IF mode = "a" /\ f \in DOMAIN files THEN files[f] ELSE << >>]
          /\ pc' = "write"
          /\ UNCHANGED <<rows, args, collection, output, console, saves, world>>
      BY <1>8, <2>2 DEF OpenFile
    <3>2. << >> \in Seq(Entry)
      OBVIOUS
    <3>3. TypeOK'
      BY <1>1, <3>1, <3>2 DEF TypeOK
    <3>4. QED  BY <1>1, <1>8, <3>1, <3>3 DEF OpenFile
  <2>3. QED  BY <2>1, <2>2
<1>9. CASE WriteFile
  <2>1. Serialized \in Seq(Entry)
    BY <1>1 DEF Serialized, Entry, TypeOK
  <2>2. CASE UNCHANGED files
    BY <1>1, <1>9, <2>2 DEF WriteFile, TypeOK, Asking, Ended
  <2>3. CASE ~UNCHANGED files
    <3>1. PICK k \in 0 .. Len(Serialized) :
             files' = [files EXCEPT ![filename] = @ \o SubSeq(Serialized, 1, k)]
      BY <1>9, <2>3 DEF WriteFile
    <3>2. /\ pc = "write" /\ pc' = "prompt"
          /\ UNCHANGED <<rows, args, collection, output, console, saves, world>>
      BY <1>9, <2>3 DEF WriteFile
    <3>3. SubSeq(Serialized, 1, k) \in Seq(Entry)
      BY <2>1, <3>1
    <3>4. \A f \in DOMAIN files : files[f] \o SubSeq(Serialized, 1, k) \in Seq(Entry)
      BY <1>1, <3>3 DEF TypeOK
    <3>5. TypeOK'
      BY <1>1, <3>1, <3>2, <3>4 DEF TypeOK, Asking
    <3>6. QED  BY <1>1, <3>2, <3>5
  <2>4. QED  BY <2>2, <2>3
<1>10. CASE Environment
  <2>1. /\ \/ stdin' = stdin
           \/ \E line \in Line : Len(stdin) < MaxTyped /\ stdin' = Append(stdin, line)
        /\ eof' \in {eof, TRUE} /\ server' \in Servers \cup {server} /\ link' \in {link, ~link}
        /\ \/ disturbed' = disturbed /\ steady' = steady
           \/ disturbed' = TRUE /\ steady' = (pc # "tree")
        /\ UNCHANGED <<pc, rows, args, collection, output, files, saves>>
    BY <1>10 DEF Environment, Type, CloseInput, ServerChanges, FlipLink
  <2>2. stdin' \in Seq(Line) /\ Len(stdin') <= MaxTyped
    <3>1. stdin \in Seq(Line) /\ Len(stdin) <= MaxTyped /\ MaxTyped \in Nat
      BY <1>1, SaveAssumption DEF TypeOK
    <3>2. ASSUME NEW line \in Line, Len(stdin) < MaxTyped, stdin' = Append(stdin, line)
          PROVE  stdin' \in Seq(Line) /\ Len(stdin') <= MaxTyped
      BY <3>1, <3>2
    <3>3. QED  BY <2>1, <3>1, <3>2
  <2>3. TypeOK'
    <3>1. eof' \in BOOLEAN /\ server' \in Servers /\ link' \in BOOLEAN
      BY <1>1, <2>1 DEF TypeOK
    <3>2. disturbed' \in BOOLEAN /\ steady' \in BOOLEAN
      BY <1>1, <2>1 DEF TypeOK
    <3>3. QED  BY <1>1, <2>1, <2>2, <3>1, <3>2 DEF TypeOK
  <2>4. UNCHANGED <<pc, rows, args, row, subset, capacity, filename, files>>
    BY <2>1
  <2>5. QED  BY <1>1, <2>3, <2>4 DEF LastRow, IsRange
<1>11. QED
  BY <1>1, <1>2, <1>3, <1>4, <1>5, <1>6, <1>7, <1>8, <1>9, <1>10 DEF Next, Program, Appending

LEMMA Invariant == Spec => []Kept
BY KeptInit, KeptStep, PTL DEF Spec

\* Every variable keeps its type, whatever is typed and whatever changes.
THEOREM SaveTypeCorrect == Spec => []TypeOK
BY Invariant, PTL DEF Kept

\* No list of rows and structure leaves, of any length, is written past its
\* capacity.
THEOREM ListFits == Spec => []SubsetFits
BY Invariant, PTL DEF Kept

-----------------------------------------------------------------------------
(* The heap error *)

\* A command whose list has no room reads a range that is not in the listing.
Room ==
    pc \in Reading /\ capacity = 0 =>
        IsRange /\ (args[2] < args[1] \/ args[2] >= Len(rows))

LEMMA HeapStep ==
    Kept /\ Room /\ HeapErrorOnlyPastListing /\ [Next]_vars
       => Room' /\ HeapErrorOnlyPastListing'
<1>1. SUFFICES ASSUME Kept, Room, HeapErrorOnlyPastListing, [Next]_vars
               PROVE  Room' /\ HeapErrorOnlyPastListing'
  OBVIOUS
<1>2. CASE ReadCommand
  <2>1. CASE Head(stdin).args = << >>
    BY <1>2, <2>1 DEF ReadCommand, Room, HeapErrorOnlyPastListing, Reading
  <2>2. CASE Head(stdin).args # << >>
    <3>1. /\ args' = Head(stdin).args /\ rows' = rows /\ pc' = "class"
          /\ capacity' = IF Len(args') = 2 THEN RangeSize(args'[1], args'[2], Len(rows))
                                           ELSE 1
      BY <1>2, <2>2 DEF ReadCommand
    <3>2. args' \in Seq(Nat) /\ Len(rows) \in Nat
      BY <1>1, KeptStep, SaveAssumption DEF Kept, TypeOK
    <3>3. CASE Len(args') = 2
      <4>1. args'[1] \in Nat /\ args'[2] \in Nat
        BY <3>2, <3>3, PairOf
      <4>2. capacity' = 0 => args'[2] < args'[1] \/ args'[2] >= Len(rows)
        BY <3>1, <3>2, <3>3, <4>1 DEF RangeSize
      <4>3. QED  BY <3>1, <3>3, <4>2 DEF Room, HeapErrorOnlyPastListing, IsRange
    <3>4. CASE Len(args') # 2
      BY <3>1, <3>4 DEF Room, HeapErrorOnlyPastListing
    <3>5. QED  BY <3>3, <3>4
  <2>3. QED  BY <2>1, <2>2
<1>3. CASE Appending
  <2>1. /\ UNCHANGED <<rows, args>> /\ pc \in RowRead
        /\ \/ /\ pc' \in {"structure", "tree", "null_tree", "walk_failed"}
              /\ UNCHANGED collection
           \/ \E nodes \in Seq(NodeId), cap \in Nat :
                 /\ cap \in {capacity, 8} /\ (cap = capacity \/ ~IsRange)
                 /\ Len(subset) <= cap /\ Collect(nodes, cap)
    BY <1>1, <1>3, RowAnswered
  <2>2. IsRange' = IsRange
    BY <2>1 DEF IsRange
  <2>3. CASE /\ pc' \in {"structure", "tree", "null_tree", "walk_failed"}
             /\ UNCHANGED collection
    BY <1>1, <2>1, <2>2, <2>3 DEF Room, HeapErrorOnlyPastListing, Reading, RowRead
  <2>4. CASE \E nodes \in Seq(NodeId), cap \in Nat :
                /\ cap \in {capacity, 8} /\ (cap = capacity \/ ~IsRange)
                /\ Len(subset) <= cap /\ Collect(nodes, cap)
    <3>1. PICK nodes \in Seq(NodeId), cap \in Nat :
             /\ cap \in {capacity, 8} /\ (cap = capacity \/ ~IsRange)
             /\ Len(subset) <= cap /\ Collect(nodes, cap)
      BY <2>4
    <3>2. \/ pc' = "heap_error" /\ cap = 0
          \/ capacity' \in Nat /\ capacity' >= cap /\ pc' = "class" /\ IsRange
          \/ pc' = "check"
      BY <1>1, <3>1, Collected DEF Kept
    <3>3. CASE pc' = "heap_error" /\ cap = 0
      <4>1. IsRange /\ (args[2] < args[1] \/ args[2] >= Len(rows))
        BY <1>1, <2>1, <3>1, <3>3 DEF Room, Reading, RowRead
      <4>2. row \in 1 .. Len(rows) /\ row <= args[2] + 1 /\ args[1] + 1 <= row
        BY <1>1, <2>1, <4>1 DEF Kept, RowListed, ArgsThere, LastRow, Busy, RowRead
      <4>3. args[1] \in Nat /\ args[2] \in Nat /\ Len(rows) \in Nat
        <5>1. args \in Seq(Nat) /\ Len(args) = 2 /\ rows \in Seq(Node)
          BY <1>1, <4>1, SaveAssumption DEF Kept, TypeOK, IsRange
        <5>2. QED  BY <5>1, PairOf
      <4>4. args[1] < Len(rows) /\ args[2] >= Len(rows)
        BY <4>1, <4>2, <4>3
      <4>5. QED
        BY <2>1, <2>2, <3>3, <4>1, <4>4 DEF Room, HeapErrorOnlyPastListing, Reading
    <3>4. CASE capacity' \in Nat /\ capacity' >= cap /\ pc' = "class" /\ IsRange
      <4>1. capacity' = 0 => capacity = 0
        BY <1>1, <3>1, <3>4 DEF Kept, TypeOK
      <4>2. pc \in Reading
        BY <2>1 DEF RowRead, Reading
      <4>3. QED
        BY <1>1, <2>1, <2>2, <3>4, <4>1, <4>2 DEF Room, HeapErrorOnlyPastListing
    <3>5. CASE pc' = "check"
      BY <3>5 DEF Room, HeapErrorOnlyPastListing, Reading
    <3>6. QED  BY <3>2, <3>3, <3>4, <3>5
  <2>5. QED  BY <2>1, <2>3, <2>4
<1>4. CASE ~ReadCommand /\ ~Appending
  BY <1>1, <1>4, OtherSteps DEF Room, HeapErrorOnlyPastListing, IsRange
<1>5. QED  BY <1>2, <1>3, <1>4

\* The list of zero capacity is only made for a range past the listing's end.
THEOREM HeapErrorsExplained == Spec => []HeapErrorOnlyPastListing
<1>1. Init => Room /\ HeapErrorOnlyPastListing
  BY DEF Init, Room, HeapErrorOnlyPastListing, Reading
<1>2. QED  BY <1>1, HeapStep, Invariant, PTL DEF Spec

-----------------------------------------------------------------------------
(* Contradicting reads *)

\* As long as nothing changes, what an earlier read of the row told is true.
Seen ==
    Busy /\ ~disturbed =>
        /\ link
        /\ pc \in RowRead => server[Current].variable
        /\ pc \in {"structure", "tree"} => server[Current].structure

LEMMA SeenStep ==
    Kept /\ Seen /\ NoTreeLostUndisturbed /\ [Next]_vars
       => Seen' /\ NoTreeLostUndisturbed'
<1>1. SUFFICES ASSUME Kept, Seen, NoTreeLostUndisturbed, [Next]_vars
               PROVE  Seen' /\ NoTreeLostUndisturbed'
  OBVIOUS
<1>2. CASE ReadCommand
  BY <1>2 DEF ReadCommand, Seen, NoTreeLostUndisturbed, Busy, RowRead
<1>3. CASE Appending
  <2>1. UNCHANGED <<rows, args, server, link, disturbed>> /\ pc \in RowRead /\ Busy
    BY <1>1, <1>3, RowAnswered DEF Busy, RowRead
  <2>2. CASE disturbed
    BY <1>3, <2>1, <2>2 DEF Seen, NoTreeLostUndisturbed
  <2>3. CASE ~disturbed
    <3>1. /\ link /\ server[Current].variable /\ steady
          /\ pc \in {"structure", "tree"} => server[Current].structure
      BY <1>1, <2>1, <2>3 DEF Seen, Kept, Steadiness
    <3>2. pc' # "null_tree"
      <4>1. CASE ReadValue
        <5>1. pc' \in {"structure", "heap_error", "class", "check"}
          BY <4>1 DEF ReadValue, Collect
        <5>2. QED  BY <5>1
      <4>2. CASE ExploreStructure
        BY <3>1, <4>2 DEF ExploreStructure, IsStructure
      <4>3. CASE BuildTree
        <5>1. \/ pc' = "walk_failed"
              \/ \E found \in Walked : Collect(found, ListCapacity)
          BY <3>1, <4>3 DEF BuildTree
        <5>2. QED  BY <5>1 DEF Collect
      <4>4. QED  BY <1>3, <4>1, <4>2, <4>3 DEF Appending
    <3>3. CASE pc' \in {"structure", "tree"} /\ UNCHANGED collection
      <4>1. server[Current].structure
        <5>1. CASE ReadValue
          <6>1. pc' = "structure" => IsStructure(Current) \/ Collect(<<Current>>, capacity)
            BY <5>1 DEF ReadValue
          <6>2. pc' = "structure"
            BY <3>3, <5>1 DEF ReadValue, Collect
          <6>3. ~Collect(<<Current>>, capacity)
            BY <6>2 DEF Collect
          <6>4. QED  BY <6>1, <6>2, <6>3 DEF IsStructure
        <5>2. CASE ExploreStructure \/ BuildTree
          BY <3>1, <5>2 DEF ExploreStructure, BuildTree
        <5>3. QED  BY <1>3, <5>1, <5>2 DEF Appending
      <4>2. QED  BY <2>1, <3>1, <3>3, <4>1 DEF Seen, NoTreeLostUndisturbed, Current
    <3>4. CASE pc' \notin {"structure", "tree"}
      <4>1. pc' \notin RowRead
        <5>1. \/ pc' \in {"structure", "tree", "null_tree", "walk_failed"}
              \/ \E nodes \in Seq(NodeId), cap \in Nat : Collect(nodes, cap)
          BY <1>1, <1>3, RowAnswered
        <5>2. QED  BY <3>4, <5>1 DEF Collect, RowRead
      <4>2. QED  BY <2>1, <3>1, <3>2, <3>4, <4>1 DEF Seen, NoTreeLostUndisturbed
    <3>5. CASE pc' \in {"structure", "tree"} /\ ~UNCHANGED collection
      <4>1. \E nodes \in Seq(NodeId), cap \in Nat : Collect(nodes, cap)
        BY <1>1, <1>3, <3>5, RowAnswered
      <4>2. QED  BY <3>5, <4>1 DEF Collect
    <3>6. QED  BY <3>3, <3>4, <3>5
  <2>4. QED  BY <2>2, <2>3
<1>4. CASE ~ReadCommand /\ ~Appending
  BY <1>1, <1>4, OtherSteps DEF Seen, NoTreeLostUndisturbed, Current, IsVariable, RowRead
<1>5. QED  BY <1>2, <1>3, <1>4

\* A command is left without a tree only by a server or a link that changed
\* under it.
THEOREM LostTreesExplained == Spec => []NoTreeLostUndisturbed
<1>1. Init => Seen /\ NoTreeLostUndisturbed
  BY DEF Init, Seen, NoTreeLostUndisturbed, Busy
<1>2. QED  BY <1>1, SeenStep, Invariant, PTL DEF Spec

-----------------------------------------------------------------------------
(* What is collected *)

\* The node was asked for by one of the rows up to r; `changed` says that
\* something changed under the command.
Asked(node, r, changed) ==
    \E i \in args[1] + 1 .. r :
        /\ i <= Len(rows)
        /\ IsRange => i <= args[2] + 1
        /\ \/ node = rows[i]
           \/ /\ \E s \in Servers : s[rows[i]].structure
              /\ node \in Below[rows[i]] \/ (changed /\ node = NullId)

\* A row is explored because it was a structure when it was read.
Explored == pc \in {"structure", "tree"} => \E s \in Servers : s[Current].structure

LEMMA ExploredStep == Kept /\ Explored /\ [Next]_vars => Explored'
<1>1. SUFFICES ASSUME Kept, Explored, [Next]_vars PROVE Explored'
  OBVIOUS
<1>2. CASE ReadCommand
  BY <1>2 DEF ReadCommand, Explored
<1>3. CASE Appending
  <2>1. CASE ReadValue /\ pc' = "structure"
    <3>1. IsStructure(Current) /\ UNCHANGED <<row, rows>>
      BY <2>1 DEF ReadValue, Collect
    <3>2. server \in Servers
      BY <1>1 DEF Kept, TypeOK
    <3>3. QED  BY <3>1, <3>2 DEF Explored, IsStructure, Current
  <2>2. CASE ExploreStructure /\ pc' = "tree"
    <3>1. UNCHANGED <<row, rows>> /\ pc = "structure"
      BY <2>2 DEF ExploreStructure, Collect
    <3>2. QED  BY <1>1, <3>1 DEF Explored, Current
  <2>3. CASE ~(ReadValue /\ pc' = "structure") /\ ~(ExploreStructure /\ pc' = "tree")
    <3>1. pc' \notin {"structure", "tree"}
      BY <1>3, <2>3 DEF Appending, ReadValue, ExploreStructure, BuildTree, Collect
    <3>2. QED  BY <3>1 DEF Explored
  <2>4. QED  BY <2>1, <2>2, <2>3
<1>4. CASE ~ReadCommand /\ ~Appending
  <2>1. /\ UNCHANGED rows
        /\ pc' \in {"structure", "tree"} => pc' = pc /\ row' = row
    BY <1>1, <1>4, OtherSteps DEF RowRead
  <2>2. QED  BY <1>1, <2>1 DEF Explored, Current
<1>5. QED  BY <1>2, <1>3, <1>4

LEMMA RangeStep == Kept /\ Explored /\ SubsetFromRange /\ [Next]_vars => SubsetFromRange'
<1>1. SUFFICES ASSUME Kept, Explored, SubsetFromRange, [Next]_vars PROVE SubsetFromRange'
  OBVIOUS
<1>2. CASE ReadCommand
  <2>1. CASE Head(stdin).args = << >>
    BY <1>2, <2>1 DEF ReadCommand, SubsetFromRange, Busy
  <2>2. CASE Head(stdin).args # << >>
    <3>1. subset' = << >>
      BY <1>2, <2>2 DEF ReadCommand
    <3>2. QED  BY <3>1 DEF SubsetFromRange
  <2>3. QED  BY <2>1, <2>2
<1>3. CASE ~ReadCommand
  <2>0. /\ UNCHANGED <<rows, args>>
        /\ disturbed => disturbed'
    <3>1. CASE Appending
      BY <1>1, <3>1, RowAnswered
    <3>2. CASE ~Appending
      <4>1. /\ UNCHANGED <<rows, args>>
            /\ disturbed' = TRUE \/ disturbed' = disturbed
        BY <1>1, <1>3, <3>2, OtherSteps
      <4>2. QED  BY <4>1
    <3>3. QED  BY <3>1, <3>2
  <2>1. SUFFICES ASSUME Busy'
                 PROVE  \A k \in DOMAIN subset' : Asked(subset'[k], row', disturbed')
    BY <2>0, <2>1 DEF SubsetFromRange, Asked, IsRange
  <2>2. ASSUME Busy PROVE \A k \in DOMAIN subset : Asked(subset[k], row, disturbed)
    BY <1>1, <2>2 DEF SubsetFromRange, Asked
  <2>3. /\ row \in Nat /\ subset \in Seq(NodeId)
        /\ Busy => args[1] \in Nat /\ args[1] + 1 <= row
    <3>1. row \in Nat /\ subset \in Seq(NodeId) /\ args \in Seq(Nat)
      BY <1>1 DEF Kept, TypeOK
    <3>2. Busy => args # << >> /\ args[1] + 1 <= row
      BY <1>1 DEF Kept, ArgsThere
    <3>3. args # << >> => args[1] \in Nat
      BY <3>1
    <3>4. QED  BY <3>1, <3>2, <3>3
  <2>4. ASSUME Busy, NEW node, NEW r \in {row, row + 1}, Asked(node, row, disturbed)
        PROVE  Asked(node, r, disturbed')
    BY <2>0, <2>3, <2>4 DEF Asked
  <2>5. CASE ~Appending
    <3>1. subset' = subset /\ row' \in {row, row + 1} /\ Busy
      BY <1>1, <1>3, <2>1, <2>5, OtherSteps
    <3>2. QED  BY <2>2, <2>4, <3>1
  <2>6. CASE Appending
    <3>1. /\ pc \in RowRead /\ Current \in Node
          /\ \/ UNCHANGED <<subset, row>>
             \/ \E nodes \in Seq(NodeId), cap \in Nat :
                   /\ Len(subset) <= cap /\ Collect(nodes, cap)
                   /\ \A k \in DOMAIN nodes : Mine(nodes[k])
      BY <1>1, <2>6, RowAnswered
    <3>2. /\ Busy /\ row \in args[1] + 1 .. row /\ row <= Len(rows)
          /\ IsRange => row <= args[2] + 1
      <4>1. Busy /\ row <= Len(rows) /\ row <= LastRow
        BY <1>1, <3>1 DEF Kept, RowListed, Busy, RowRead
      <4>2. QED  BY <2>3, <4>1 DEF LastRow
    <3>3. CASE UNCHANGED <<subset, row>>
      BY <2>2, <2>4, <3>2, <3>3
    <3>4. CASE ~UNCHANGED <<subset, row>>
      <4>1. PICK nodes \in Seq(NodeId), cap \in Nat :
               /\ Len(subset) <= cap /\ Collect(nodes, cap)
               /\ \A k \in DOMAIN nodes : Mine(nodes[k])
        BY <3>1, <3>4
      <4>2. \/ UNCHANGED <<subset, row>>
            \/ subset' = subset \o nodes /\ row' \in {row, row + 1}
        BY <1>1, <4>1, Collected DEF Kept
      <4>3. subset' = subset \o nodes /\ row' \in {row, row + 1}
        BY <3>4, <4>2
      <4>4. ASSUME NEW k \in DOMAIN subset' PROVE Asked(subset'[k], row', disturbed')
        <5>1. \/ k \in DOMAIN subset /\ subset'[k] = subset[k]
              \/ \E j \in DOMAIN nodes : subset'[k] = nodes[j]
          BY <2>3, <4>3, AppendedElement
        <5>2. CASE k \in DOMAIN subset /\ subset'[k] = subset[k]
          BY <2>2, <2>4, <3>2, <4>3, <5>2
        <5>3. CASE \E j \in DOMAIN nodes : subset'[k] = nodes[j]
          <6>1. Mine(subset'[k])
            BY <4>1, <5>3
          <6>2. ~steady => disturbed
            BY <1>1 DEF Kept, Steadiness
          <6>3. Asked(subset'[k], row, disturbed)
            BY <1>1, <3>2, <6>1, <6>2 DEF Asked, Mine, Current, Explored
          <6>4. QED  BY <2>4, <3>2, <4>3, <6>3
        <5>4. QED  BY <5>1, <5>2, <5>3
      <4>5. QED  BY <4>4
    <3>5. QED  BY <3>3, <3>4
  <2>7. QED  BY <2>5, <2>6
<1>4. QED  BY <1>2, <1>3

\* Whatever changes meanwhile, a list holds rows of the range asked for and what
\* can be found below those that were structures; without a change, no element
\* without an id.
THEOREM OnlyTheRange == Spec => []SubsetFromRange
<1>1. Init => Explored /\ SubsetFromRange
  BY DEF Init, Explored, SubsetFromRange, Busy
<1>2. QED  BY <1>1, ExploredStep, RangeStep, Invariant, PTL DEF Spec

-----------------------------------------------------------------------------
(* Files *)

LEMMA PrefixKept ==
    ASSUME NEW S, NEW s \in Seq(S), NEW t \in Seq(S)
    PROVE  IsPrefix(s, s) /\ IsPrefix(s, s \o t)
<1>1. PICK n \in Nat : n = Len(s)
  OBVIOUS
<1>2. SubSeq(s, 1, n) = SubSeq(s \o t, 1, n)
  <2>1. s \o t \in Seq(S) /\ n <= Len(s \o t)
    BY <1>1
  <2>2. /\ SubSeq(s, 1, n) = [i \in 1 .. n |-> s[i]]
        /\ SubSeq(s \o t, 1, n) = [i \in 1 .. n |-> (s \o t)[i]]
    BY <1>1, <2>1
  <2>3. \A i \in 1 .. n : (s \o t)[i] = s[i]
    BY <1>1
  <2>4. QED  BY <2>2, <2>3
<1>3. Len(s) <= Len(s \o t)
  OBVIOUS
<1>4. QED  BY <1>1, <1>2, <1>3 DEF IsPrefix

\* No command, however it is interrupted by the end of the input, by a full
\* disk or by changes of the server, takes anything from a file that it does
\* not open for overwriting.
THEOREM FilesKept == Spec => OldContentKept
<1>1. Kept /\ [Next]_vars =>
        [\A f \in DOMAIN files :
            /\ f \in DOMAIN files'
            /\ f # filename \/ mode = "a" \/ pc # "open" =>
                  IsPrefix(files[f], files'[f])]_vars
  <2>1. SUFFICES ASSUME Kept, [Next]_vars, NEW f \in DOMAIN files
                 PROVE  /\ f \in DOMAIN files'
                        /\ f # filename \/ mode = "a" \/ pc # "open" =>
                              IsPrefix(files[f], files'[f])
    OBVIOUS
  <2>2. files[f] \in Seq(Entry)
    BY <2>1 DEF Kept, TypeOK
  <2>3. CASE UNCHANGED files
    BY <2>2, <2>3, PrefixKept
  <2>4. CASE OpenFile
    BY <2>2, <2>4, PrefixKept DEF OpenFile
  <2>5. CASE WriteFile
    <3>1. Serialized \in Seq(Entry)
      BY <2>1 DEF Kept, TypeOK, Serialized, Entry
    <3>2. ASSUME NEW k \in 0 .. Len(Serialized),
                 files' = [files EXCEPT ![filename] = @ \o SubSeq(Serialized, 1, k)]
          PROVE  f \in DOMAIN files' /\ IsPrefix(files[f], files'[f])
      <4>1. SubSeq(Serialized, 1, k) \in Seq(Entry)
        BY <3>1
      <4>2. f \in DOMAIN files' /\ files'[f] \in {files[f], files[f] \o SubSeq(Serialized, 1, k)}
        BY <3>2
      <4>3. QED  BY <2>2, <4>1, <4>2, PrefixKept
    <3>3. QED  BY <2>3, <2>5, <3>2 DEF WriteFile
  <2>6. CASE ~OpenFile /\ ~WriteFile
    <3>1. UNCHANGED files
      <4>1. CASE UNCHANGED vars
        BY <4>1 DEF vars
      <4>2. CASE Appending
        BY <2>1, <4>2, RowAnswered
      <4>3. CASE Environment
        BY <4>3 DEF Environment, Type, CloseInput, ServerChanges, FlipLink
      <4>4. CASE \/ ReadCommand \/ EndOfInput \/ RowsDone \/ RowOutOfListing
                 \/ ReadClass \/ Accept \/ Refuse
        BY <4>4
        DEF ReadCommand, EndOfInput, RowsDone, RowOutOfListing, ReadClass, Accept, Refuse
      <4>5. CASE CheckFile \/ Answer \/ Swallow \/ AnswerAtEof \/ NewName
        BY <4>5 DEF CheckFile, Answer, Swallow, AnswerAtEof, NewName
      <4>6. QED  BY <2>1, <2>6, <4>1, <4>2, <4>3, <4>4, <4>5 DEF Next, Program, Appending
    <3>2. QED  BY <2>3, <3>1
  <2>7. QED  BY <2>4, <2>5, <2>6
<1>2. QED  BY <1>1, Invariant, PTL DEF Spec, OldContentKept

-----------------------------------------------------------------------------
(* Lists of lists *)

\* The function by which FlattenSeq is defined.
Flattens(f, s) == f = [i \in 1 .. Len(s) |-> IF i = 1 THEN s[i] ELSE f[i - 1] \o s[i]]
Flattening(s) == CHOOSE f : Flattens(f, s)

LEMMA FlattenFunction ==
    ASSUME NEW S, NEW s \in Seq(Seq(S))
    PROVE  /\ \A i \in 1 .. Len(s) :
                 /\ Flattening(s)[i] \in Seq(S)
                 /\ Flattening(s)[i] = IF i = 1 THEN s[i] ELSE Flattening(s)[i - 1] \o s[i]
           /\ FlattenSeq(s) = IF Len(s) = 0 THEN s ELSE Flattening(s)[Len(s)]
<1> DEFINE Partial(f, n) == /\ f \in [1 .. n -> Seq(S)]
                         /\ \A i \in 1 .. n : f[i] = IF i = 1 THEN s[i] ELSE f[i - 1] \o s[i]
           T == {n \in Nat : n <= Len(s) => \E f : Partial(f, n)}
<1>0. Len(s) \in Nat /\ \A i \in 1 .. Len(s) : s[i] \in Seq(S)
  OBVIOUS
<1>1. 0 \in T
  <2> DEFINE f == [i \in {} |-> s]
  <2>1. 1 .. 0 = {} /\ f \in [{} -> Seq(S)]
    <3>1. \A i \in {} : s \in Seq(S)
      OBVIOUS
    <3>2. f \in [{} -> Seq(S)]
      BY <3>1, Zenon
    <3>3. QED  BY <3>2
  <2>2. Partial(f, 0)
    BY <2>1
  <2>3. QED  BY <2>2
<1>2. ASSUME NEW n \in Nat, n \in T PROVE n + 1 \in T
  <2>1. SUFFICES ASSUME n + 1 <= Len(s) PROVE \E f : Partial(f, n + 1)
    <3> HIDE DEF Partial
    <3>1. QED  OBVIOUS
  <2>2. PICK g : Partial(g, n)
    <3> HIDE DEF Partial
    <3>1. n <= Len(s)
      BY <1>0, <2>1
    <3>2. QED  BY <1>2, <3>1
  <2> DEFINE f == [i \in 1 .. n + 1 |->
                      IF i <= n THEN g[i] ELSE IF i = 1 THEN s[i] ELSE g[i - 1] \o s[i]]
  <2>3. ASSUME NEW i \in 1 .. n + 1
        PROVE  f[i] \in Seq(S) /\ f[i] = IF i = 1 THEN s[i] ELSE f[i - 1] \o s[i]
    <3>1. s[i] \in Seq(S)
      BY <1>0, <2>1
    <3>2. i # 1 => i - 1 \in 1 .. n /\ i - 1 \in 1 .. n + 1 /\ f[i - 1] = g[i - 1]
      OBVIOUS
    <3>3. CASE i <= n
      <4>1. i \in 1 .. n /\ f[i] = g[i]
        BY <3>3
      <4>2. f[i] \in Seq(S)
        BY <2>2, <4>1
      <4>3. QED  BY <2>2, <3>2, <4>1, <4>2
    <3>4. CASE ~(i <= n)
      <4>1. f[i] = IF i = 1 THEN s[i] ELSE g[i - 1] \o s[i]
        BY <3>4
      <4>2. i # 1 => g[i - 1] \in Seq(S) /\ g[i - 1] \o s[i] \in Seq(S)
        BY <2>2, <3>1, <3>2, ConcatProperties
      <4>3. f[i] \in Seq(S)
        BY <3>1, <4>1, <4>2
      <4>4. QED  BY <3>2, <4>1, <4>3
    <3>5. QED  BY <3>3, <3>4
  <2>4. f \in [1 .. n + 1 -> Seq(S)]
    BY <2>3
  <2> HIDE DEF f
  <2>5. Partial(f, n + 1)
    BY <2>3, <2>4
  <2>6. QED  BY <2>5
<1>3. PICK f : Partial(f, Len(s))
  <2> HIDE DEF T, Partial
  <2>1. Len(s) \in T
    BY <1>0, <1>1, <1>2, Induction
  <2>2. QED  BY <1>0, <2>1 DEF T
<1>4. Flattens(f, s)
  <2>1. f = [i \in 1 .. Len(s) |-> f[i]]
    BY <1>3
  <2>2. \A i \in 1 .. Len(s) : f[i] = IF i = 1 THEN s[i] ELSE f[i - 1] \o s[i]
    BY <1>3
  <2>3. QED  BY <2>1, <2>2 DEF Flattens
<1>5. Flattens(Flattening(s), s)
  BY <1>4 DEF Flattening
<1> HIDE DEF Partial, T
<1>6. \A i \in 1 .. Len(s) :
         Flattening(s)[i] = IF i = 1 THEN s[i] ELSE Flattening(s)[i - 1] \o s[i]
  BY <1>5 DEF Flattens
<1> DEFINE U == {n \in Nat : n \in 1 .. Len(s) => Flattening(s)[n] \in Seq(S)}
<1>7. 0 \in U
  OBVIOUS
<1>8. ASSUME NEW n \in Nat, n \in U PROVE n + 1 \in U
  <2>1. SUFFICES ASSUME n + 1 \in 1 .. Len(s) PROVE Flattening(s)[n + 1] \in Seq(S)
    OBVIOUS
  <2>2. n + 1 # 1 => n \in 1 .. Len(s) /\ Flattening(s)[n] \in Seq(S)
    BY <1>8, <2>1
  <2>3. Flattening(s)[n + 1] =
            IF n + 1 = 1 THEN s[n + 1] ELSE Flattening(s)[n] \o s[n + 1]
    <3>1. (n + 1) - 1 = n
      OBVIOUS
    <3>2. QED  BY <1>6, <2>1, <3>1
  <2>4. s[n + 1] \in Seq(S)
    BY <1>0, <2>1
  <2>5. QED  BY <2>2, <2>3, <2>4, ConcatProperties
<1>9. Nat \subseteq U
  <2> HIDE DEF U
  <2>1. QED  BY <1>7, <1>8, Induction
<1>10. FlattenSeq(s) = IF Len(s) = 0 THEN s ELSE Flattening(s)[Len(s)]
  BY DEF FlattenSeq, Flattening, Flattens
<1>11. \A i \in 1 .. Len(s) : i \in U
  BY <1>0, <1>9
<1>12. QED  BY <1>6, <1>10, <1>11

\* FlattenSeq, from the front to the last.
LEMMA Flatten ==
    ASSUME NEW S
    PROVE  /\ FlattenSeq(<< >>) = << >>
           /\ \A s \in Seq(Seq(S)) : FlattenSeq(s) \in Seq(S)
           /\ \A s \in Seq(Seq(S)), e \in Seq(S) :
                 FlattenSeq(Append(s, e)) = FlattenSeq(s) \o e
<1>1. FlattenSeq(<< >>) = << >>
  BY DEF FlattenSeq
<1>2. ASSUME NEW s \in Seq(Seq(S)) PROVE FlattenSeq(s) \in Seq(S)
  <2>1. Len(s) \in Nat /\ (Len(s) = 0 => s = << >>)
    BY EmptySeq
  <2>2. QED  BY <1>1, <2>1, FlattenFunction
<1>3. ASSUME NEW s \in Seq(Seq(S)), NEW e \in Seq(S)
      PROVE  FlattenSeq(Append(s, e)) = FlattenSeq(s) \o e
  <2> DEFINE f == Flattening(s)
             t == Append(s, e)
             g == Flattening(t)
             T == {n \in Nat : n \in 1 .. Len(s) => g[n] = f[n]}
             n == Len(s)
  <2>1. \A i \in 1 .. n : f[i] = IF i = 1 THEN s[i] ELSE f[i - 1] \o s[i]
    BY FlattenFunction
  <2>2. /\ t \in Seq(Seq(S)) /\ Len(t) = n + 1 /\ t[n + 1] = e /\ n \in Nat
        /\ \A i \in 1 .. n : t[i] = s[i]
    BY AppendProperties
  <2>3. \A i \in 1 .. n + 1 : g[i] = IF i = 1 THEN t[i] ELSE g[i - 1] \o t[i]
    <3>1. \A i \in 1 .. Len(t) : g[i] = IF i = 1 THEN t[i] ELSE g[i - 1] \o t[i]
      <4> HIDE DEF t
      <4>1. QED  BY <2>2, FlattenFunction
    <3>2. QED  BY <2>2, <3>1
  <2>4. 0 \in T
    OBVIOUS
  <2>a. FlattenSeq(t) = g[n + 1]
    <3>1. FlattenSeq(t) = IF Len(t) = 0 THEN t ELSE g[Len(t)]
      <4> HIDE DEF t
      <4>1. QED  BY <2>2, FlattenFunction
    <3>2. QED  BY <2>2, <3>1
  <2>b. FlattenSeq(s) = IF n = 0 THEN s ELSE f[n]
    BY FlattenFunction
  <2> HIDE DEF f, g, t, n
  <2>5. ASSUME NEW m \in Nat, m \in T PROVE m + 1 \in T
    <3>1. SUFFICES ASSUME m + 1 \in 1 .. n PROVE g[m + 1] = f[m + 1]
      BY DEF n
    <3>2. m + 1 # 1 => m \in 1 .. n /\ g[m] = f[m]
      <4>1. m + 1 # 1 => m \in 1 .. n
        BY <2>2, <3>1
      <4>2. QED  BY <2>5, <4>1 DEF n
    <3>3. m + 1 \in 1 .. n + 1 /\ t[m + 1] = s[m + 1]
      BY <2>2, <3>1
    <3>4. (m + 1) - 1 = m
      OBVIOUS
    <3>5. QED  BY <2>1, <2>3, <3>1, <3>2, <3>3, <3>4
  <2> HIDE DEF T
  <2>6. Nat \subseteq T
    BY <2>4, <2>5, Induction
  <2>7. n + 1 \in 1 .. n + 1 /\ (n + 1) - 1 = n
    BY <2>2
  <2>8. g[n + 1] = IF n + 1 = 1 THEN e ELSE g[n] \o e
    BY <2>2, <2>3, <2>7
  <2>9. CASE n = 0
    <3>1. s = << >>
      BY <2>9, EmptySeq DEF n
    <3>2. << >> \o e = e
      BY ConcatEmptySeq
    <3>3. QED  BY <1>1, <2>8, <2>9, <2>a, <3>1, <3>2 DEF t
  <2>10. CASE n # 0
    <3>1. n \in 1 .. n /\ n + 1 # 1
      BY <2>2, <2>10
    <3>2. g[n] = f[n]
      BY <2>2, <2>6, <3>1 DEF T, n
    <3>3. QED  BY <2>8, <2>a, <2>b, <2>10, <3>1, <3>2 DEF t
  <2>11. QED  BY <2>9, <2>10
<1>4. QED  BY <1>1, <1>2, <1>3

-----------------------------------------------------------------------------
(* The list is what the rows stand for *)

\* What a row stands for on the server as it is.
Entries(s, n) ==
    IF ~s[n].variable \/ s[n].type \notin 0 .. 10
      THEN << >>
      ELSE IF s[n].structure THEN s[n].leaves ELSE <<n>>

\* What each row of a part of the listing stands for.
RowsOf(s, wanted) == [i \in DOMAIN wanted |-> Entries(s, wanted[i])]

\* Selected, of any listing and server.
SelectedOf(s, rs, first, last) ==
    FlattenSeq(RowsOf(s, SubSeq(rs, first, IF last < Len(rs) THEN last ELSE Len(rs))))

\* A list is another one with some elements behind it.
Extends(t, s, more) == t = s \o more

LEMMA SelectedIs == Selected(args[1] + 1, LastRow) = SelectedOf(server, rows, args[1] + 1, LastRow)
  BY DEF Selected, SelectedOf, RowsOf, Entries

LEMMA EntriesOf ==
    ASSUME TypeOK
    PROVE  \A n \in Node : Entries(server, n) \in Seq(Node)
<1>1. SUFFICES ASSUME NEW n \in Node PROVE Entries(server, n) \in Seq(Node)
  OBVIOUS
<1>2. server[n].leaves \in Seq(Node)
  BY SaveAssumption DEF TypeOK, Attribute
<1>3. <<n>> \in Seq(Node) /\ << >> \in Seq(Node)
  OBVIOUS
<1>4. QED  BY <1>2, <1>3 DEF Entries

\* No row, nothing to collect.
LEMMA SelectedNone ==
    ASSUME TypeOK, NEW first \in Nat \ {0}, NEW last \in Nat, last < first
    PROVE  SelectedOf(server, rows, first, last) = << >>
<1> DEFINE end == IF last < Len(rows) THEN last ELSE Len(rows)
<1>1. rows \in Seq(Node)
  BY SaveAssumption DEF TypeOK
<1>2. end \in Nat /\ end < first
  BY <1>1
<1> HIDE DEF end
<1>3. SubSeq(rows, first, end) = << >>
  BY <1>1, <1>2
<1>4. RowsOf(server, << >>) = << >>
  <2>1. DOMAIN << >> = {} /\ RowsOf(server, << >>) = [i \in {} |-> Entries(server, << >>[i])]
    BY DEF RowsOf
  <2>2. QED  BY <2>1
<1>5. FlattenSeq(<< >>) = << >>
  BY Flatten
<1>6. QED  BY <1>3, <1>4, <1>5 DEF end, SelectedOf

\* One row more.
LEMMA SelectedNext ==
    ASSUME TypeOK, NEW first \in Nat \ {0}, NEW r \in Nat, first <= r, r <= Len(rows)
    PROVE  Extends(SelectedOf(server, rows, first, r), SelectedOf(server, rows, first, r - 1), Entries(server, rows[r]))
<1> DEFINE before == SubSeq(rows, first, r - 1)
           lists == RowsOf(server, before)
<1>1. rows \in Seq(Node) /\ Len(rows) \in Nat /\ r - 1 \in Nat /\ r \in 1 .. Len(rows)
  BY SaveAssumption DEF TypeOK
<1>2. SelectedOf(server, rows, first, r) = FlattenSeq(RowsOf(server, SubSeq(rows, first, r)))
  <2>1. (IF r < Len(rows) THEN r ELSE Len(rows)) = r
    BY <1>1
  <2>2. QED  BY <2>1 DEF SelectedOf
<1>3. SelectedOf(server, rows, first, r - 1) = FlattenSeq(lists)
  <2>1. (IF r - 1 < Len(rows) THEN r - 1 ELSE Len(rows)) = r - 1
    BY <1>1
  <2>2. QED  BY <2>1 DEF SelectedOf
<1>4. rows[r] \in Node /\ Entries(server, rows[r]) \in Seq(Node)
  BY <1>1, ElementOf, EntriesOf
<1>5. before \in Seq(Node) /\ Len(before) = r - first
  BY <1>1
<1>6. SubSeq(rows, first, r) = Append(before, rows[r])
  BY <1>1
<1> HIDE DEF before
<1>7. lists \in Seq(Seq(Node))
  <2>1. \A i \in 1 .. Len(before) : Entries(server, before[i]) \in Seq(Node)
    BY <1>5, ElementOf, EntriesOf
  <2>2. DOMAIN before = 1 .. Len(before) /\ Len(before) \in Nat
    BY <1>5
  <2>3. QED  BY <2>1, <2>2 DEF RowsOf
<1>8. RowsOf(server, Append(before, rows[r])) = Append(lists, Entries(server, rows[r]))
  <2> DEFINE n == Len(before)
             more == Append(before, rows[r])
  <2>1. /\ n \in Nat /\ DOMAIN before = 1 .. n /\ DOMAIN more = 1 .. n + 1
        /\ more[n + 1] = rows[r] /\ \A i \in 1 .. n : more[i] = before[i]
    BY <1>4, <1>5
  <2> HIDE DEF more
  <2>2. RowsOf(server, more) = [i \in 1 .. n + 1 |-> Entries(server, more[i])]
    BY <2>1 DEF RowsOf
  <2>3. Len(lists) = n /\ \A i \in 1 .. n : lists[i] = Entries(server, before[i])
    BY <1>7, <2>1 DEF RowsOf
  <2> HIDE DEF lists
  <2>4. Append(lists, Entries(server, rows[r])) =
            [i \in 1 .. n + 1 |-> IF i = n + 1 THEN Entries(server, rows[r]) ELSE lists[i]]
    BY <1>7, <2>1, <2>3
  <2>5. \A i \in 1 .. n + 1 :
           Entries(server, more[i]) = IF i = n + 1 THEN Entries(server, rows[r]) ELSE lists[i]
    BY <2>1, <2>3
  <2>6. QED  BY <2>2, <2>4, <2>5 DEF more
<1>9. FlattenSeq(Append(lists, Entries(server, rows[r]))) = FlattenSeq(lists) \o Entries(server, rows[r])
  BY <1>4, <1>7, Flatten
<1>10. QED  BY <1>2, <1>3, <1>6, <1>8, <1>9, Zenon DEF Extends

\* Rows behind the end of the listing add nothing.
LEMMA SelectedPast ==
    ASSUME NEW first, NEW a \in Nat, NEW b \in Nat, a >= Len(rows), b >= Len(rows),
           Len(rows) \in Nat
    PROVE  SelectedOf(server, rows, first, a) = SelectedOf(server, rows, first, b)
<1>1. (IF a < Len(rows) THEN a ELSE Len(rows)) = (IF b < Len(rows) THEN b ELSE Len(rows))
  OBVIOUS
<1>2. QED  BY <1>1, Zenon DEF SelectedOf

\* The row that is read next is the one behind the last in the list.
SoFar ==
    pc \in Reading =>
        /\ args # << >> /\ args[1] + 1 <= row
        /\ IsRange => row <= args[2] + 2 \/ row = args[1] + 1
        /\ ~IsRange => row = args[1] + 1

\* As long as nothing changes, the list holds what the rows before this one
\* stand for, and what an earlier read told of this one is true.
SelectedSoFar ==
    ~disturbed =>
        /\ pc \in Reading => subset = SelectedOf(server, rows, args[1] + 1, row - 1)
        /\ pc \in {"value", "structure", "tree"} => server[Current].type \in 0 .. 10
        /\ pc = "check" => subset = SelectedOf(server, rows, args[1] + 1, LastRow)

\* The row is read, and the list has what it stands for.
RowTaken ==
    /\ Extends(subset', subset, Entries(server, Current))
    /\ \/ IsRange /\ row' = row + 1 /\ pc' = "class"
       \/ ~IsRange /\ row' = row /\ pc' = "check"
       \/ ~IsRange /\ pc' = "prompt"

LEMMA ArgsTyped ==
    ASSUME TypeOK, args # << >>
    PROVE  /\ args[1] \in Nat
           /\ IsRange => args[2] \in Nat
           /\ LastRow \in Nat
<1>1. args \in Seq(Nat)
  BY DEF TypeOK
<1>2. args[1] \in Nat
  BY <1>1
<1>3. IsRange => args[2] \in Nat
  BY <1>1, PairOf DEF IsRange
<1>4. QED  BY <1>2, <1>3 DEF LastRow

\* What the three steps that append leave while nothing changes.
LEMMA RowTakenStep ==
    ASSUME Kept, Seen, SelectedSoFar, ~disturbed, Appending
    PROVE  \/ pc' \in {"structure", "tree"} /\ UNCHANGED collection
           \/ pc' \in {"heap_error", "walk_failed"}
           \/ RowTaken
<1>1. /\ pc \in RowRead /\ Busy /\ link /\ server[Current].variable /\ steady
      /\ pc \in {"structure", "tree"} => server[Current].structure
      /\ server[Current].type \in 0 .. 10
  BY DEF Appending, ReadValue, ExploreStructure, BuildTree, RowRead, Busy, Seen,
         SelectedSoFar, Kept, Steadiness
<1>2. Current \in Node /\ TypeOK
  BY RowAnswered DEF Kept
<1>3. Entries(server, Current) = IF server[Current].structure THEN server[Current].leaves
                                                      ELSE <<Current>>
  BY <1>1 DEF Entries
<1>4. Entries(server, Current) \in Seq(NodeId)
  <2>1. Entries(server, Current) \in Seq(Node)
    BY <1>2, EntriesOf
  <2>2. QED  BY <2>1 DEF NodeId
<1>c. /\ capacity \in Nat /\ ListCapacity \in Nat
      /\ Len(subset) <= capacity /\ Len(subset) <= ListCapacity
  <2>1. capacity \in Nat /\ Len(subset) <= capacity
    BY DEF Kept, TypeOK, SubsetFits
  <2>2. ~IsRange => Len(subset) = 0
    BY <1>1 DEF Kept, SingleEmpty, RowRead, Reading
  <2>3. QED  BY <2>1, <2>2 DEF ListCapacity
<1>5. ASSUME NEW cap \in Nat, Len(subset) <= cap, Collect(Entries(server, Current), cap)
      PROVE  pc' = "heap_error" \/ RowTaken
  BY <1>2, <1>4, <1>5, Collected DEF RowTaken, Extends
<1>6. CASE ReadValue
  <2>1. CASE server[Current].structure
    BY <1>1, <1>6, <2>1 DEF ReadValue, IsStructure
  <2>2. CASE ~server[Current].structure
    <3>1. Collect(Entries(server, Current), capacity)
      BY <1>3, <1>6, <2>2 DEF ReadValue, IsStructure
    <3>2. QED  BY <1>c, <1>5, <3>1
  <2>3. QED  BY <2>1, <2>2
<1>7. CASE ExploreStructure
  BY <1>1, <1>7 DEF ExploreStructure, IsStructure
<1>8. CASE BuildTree
  <2>1. server[Current].structure
    BY <1>1, <1>8 DEF BuildTree
  <2>2. Walked = {Entries(server, Current)}
    BY <1>1, <1>3, <2>1 DEF Walked
  <2>3. pc' = "walk_failed" \/ Collect(Entries(server, Current), ListCapacity)
    BY <1>1, <1>8, <2>2 DEF BuildTree
  <2>4. QED  BY <1>c, <1>5, <2>3
<1>9. QED  BY <1>6, <1>7, <1>8 DEF Appending

\* The same for a row that is skipped: it stands for nothing.
LEMMA RowSkipped ==
    ASSUME Kept, Seen, ~disturbed, ReadClass \/ Refuse, pc' # "type"
    PROVE  RowTaken
<1>1. Busy /\ link /\ subset \in Seq(NodeId)
  BY DEF ReadClass, Refuse, Busy, Seen, Kept, TypeOK
<1>2. ~server[Current].variable \/ server[Current].type \notin 0 .. 10
  BY <1>1 DEF ReadClass, Refuse, IsVariable, is_numeric_or_bool, TypeId
<1>3. Entries(server, Current) = << >> /\ subset' = subset
  BY <1>2 DEF Entries, ReadClass, Refuse
<1>4. subset = subset \o << >>
  BY <1>1
<1>5. \/ IsRange /\ row' = row + 1 /\ pc' = "class"
      \/ ~IsRange /\ pc' = "prompt"
  BY DEF ReadClass, Refuse, SkipRow
<1>6. QED  BY <1>3, <1>4, <1>5 DEF RowTaken, Extends

\* A row taken is one more of the rows before the next.
LEMMA RowTakenKeeps ==
    ASSUME Kept, SoFar, SelectedSoFar, RowTaken, ~disturbed, pc \in Reading,
           row <= Len(rows), row <= LastRow, UNCHANGED <<rows, args, server, disturbed>>
    PROVE  SoFar' /\ SelectedSoFar'
<1>1. /\ TypeOK /\ args # << >> /\ args[1] \in Nat /\ row \in Nat /\ args[1] + 1 <= row
      /\ IsRange => args[2] \in Nat
  BY ArgsTyped DEF Kept, SoFar, TypeOK
<1>2. subset = SelectedOf(server, rows, args[1] + 1, row - 1)
  BY DEF SelectedSoFar
<1>3. Extends(SelectedOf(server, rows, args[1] + 1, row), SelectedOf(server, rows, args[1] + 1, row - 1), Entries(server, rows[row]))
  BY <1>1, SelectedNext
<1>4. subset' = SelectedOf(server, rows, args[1] + 1, row)
  BY <1>2, <1>3, Zenon DEF RowTaken, Extends, Current
<1>5. server' = server /\ rows' = rows
  OBVIOUS
<1>6. IsRange' = IsRange /\ LastRow' = LastRow /\ args' = args
  BY DEF IsRange, LastRow
<1>7. CASE IsRange /\ row' = row + 1 /\ pc' = "class"
  <2>1. row' - 1 = row /\ row' <= args[2] + 2
    BY <1>1, <1>7 DEF LastRow
  <2>2. subset' = SelectedOf(server', rows', args'[1] + 1, row' - 1)
    BY <1>4, <1>5, <1>6, <2>1
  <2>3. QED  BY <1>1, <1>6, <1>7, <2>1, <2>2 DEF SoFar, SelectedSoFar
<1>8. CASE ~IsRange /\ row' = row /\ pc' = "check"
  <2>1. LastRow = row
    BY <1>1, <1>8 DEF SoFar, LastRow
  <2>2. subset' = SelectedOf(server', rows', args'[1] + 1, LastRow')
    BY <1>4, <1>5, <1>6, <2>1
  <2>3. QED  BY <1>6, <1>8, <2>2 DEF SoFar, SelectedSoFar, Reading
<1>9. CASE ~IsRange /\ pc' = "prompt"
  BY <1>9 DEF SoFar, SelectedSoFar, Reading
<1>10. QED  BY <1>7, <1>8, <1>9 DEF RowTaken

Exactly == ~disturbed => SoFar /\ SelectedSoFar

\* At the end of the range, or of the listing, the list is the reference.
LEMMA RowsDoneExactly ==
    ASSUME Kept, Exactly, RowsDone, ~disturbed
    PROVE  subset = SelectedOf(server, rows, args[1] + 1, LastRow)
<1>1. /\ TypeOK /\ pc = "class" /\ IsRange /\ row \in Nat /\ Len(rows) \in Nat
      /\ row > LastRow \/ row > Len(rows)
  BY SaveAssumption DEF Kept, TypeOK, RowsDone
<1>2. /\ args # << >> /\ args[1] + 1 <= row
      /\ row <= args[2] + 2 \/ row = args[1] + 1
      /\ subset = SelectedOf(server, rows, args[1] + 1, row - 1)
  BY <1>1 DEF Exactly, SoFar, SelectedSoFar, Reading
<1>3. args[1] \in Nat /\ args[2] \in Nat /\ LastRow = args[2] + 1
  BY <1>1, <1>2, ArgsTyped DEF LastRow
<1>4. CASE LastRow = row - 1
  BY <1>2, <1>4
<1>5. CASE LastRow < row - 1
  <2>1. /\ args[1] + 1 \in Nat \ {0} /\ row - 1 \in Nat /\ row - 1 < args[1] + 1
        /\ LastRow \in Nat /\ LastRow < args[1] + 1
    <3>1. PICK a \in Nat, b \in Nat : a = args[1] /\ b = args[2]
      BY <1>3
    <3>2. /\ row \in Nat /\ a + 1 <= row /\ LastRow = b + 1 /\ b + 1 < row - 1
          /\ row <= b + 2 \/ row = a + 1
      BY <1>1, <1>2, <1>3, <1>5, <3>1
    <3>3. row = a + 1
      BY <3>2
    <3>4. /\ a + 1 \in Nat \ {0} /\ row - 1 \in Nat /\ row - 1 < a + 1
          /\ b + 1 \in Nat /\ b + 1 < a + 1
      BY <3>2, <3>3
    <3>5. LastRow = b + 1
      BY <3>2
    <3>6. QED  BY <3>1, <3>4, <3>5
  <2>2. SelectedOf(server, rows, args[1] + 1, row - 1) = << >>
    BY <1>1, <2>1, SelectedNone
  <2>3. SelectedOf(server, rows, args[1] + 1, LastRow) = << >>
    BY <1>1, <2>1, SelectedNone
  <2>4. QED  BY <1>2, <2>2, <2>3
<1>6. CASE LastRow > row - 1
  <2>1. row - 1 \in Nat /\ LastRow \in Nat /\ row - 1 >= Len(rows) /\ LastRow >= Len(rows)
    BY <1>1, <1>2, <1>3, <1>6
  <2>2. QED  BY <1>1, <1>2, <2>1, SelectedPast
<1>7. QED  BY <1>1, <1>3, <1>4, <1>5, <1>6

LEMMA ExactlyStep == Kept /\ Seen /\ Exactly /\ [Next]_vars => Exactly'
<1>1. SUFFICES ASSUME Kept, Seen, Exactly, [Next]_vars, ~disturbed' PROVE Exactly'
  BY DEF Exactly
<1>t. TypeOK
  BY <1>1 DEF Kept
<1>2. CASE ReadCommand
  <2>1. CASE Head(stdin).args = << >>
    BY <1>2, <2>1 DEF ReadCommand, Exactly, SoFar, SelectedSoFar, Reading
  <2>2. CASE Head(stdin).args # << >>
    <3>1. /\ pc' = "class" /\ args' = Head(stdin).args /\ args' # << >> /\ subset' = << >>
          /\ row' = args'[1] + 1 /\ rows' = rows /\ server' = server
      BY <1>2, <2>2 DEF ReadCommand
    <3>2. args'[1] \in Nat
      <4>1. args' \in Seq(Nat)
        BY <1>1, KeptStep DEF Kept, TypeOK
      <4>2. QED  BY <3>1, <4>1
    <3>3. /\ args'[1] + 1 \in Nat \ {0} /\ row' - 1 = args'[1] /\ row' - 1 < args'[1] + 1
          /\ args'[1] + 1 <= row'
      BY <3>1, <3>2
    <3>4. SelectedOf(server, rows, args'[1] + 1, row' - 1) = << >>
      BY <1>t, <3>2, <3>3, SelectedNone
    <3>5. QED  BY <3>1, <3>3, <3>4 DEF Exactly, SoFar, SelectedSoFar
  <2>3. QED  BY <2>1, <2>2
<1>3. CASE Appending
  <2>1. /\ UNCHANGED <<rows, args, server, disturbed>> /\ pc \in RowRead /\ pc \in Reading
        /\ ~disturbed
        /\ row <= Len(rows) /\ row <= LastRow
    BY <1>1, <1>3, RowAnswered DEF Kept, RowListed, RowRead, Reading
  <2>2. SoFar /\ SelectedSoFar
    BY <1>1, <2>1 DEF Exactly
  <2>3. CASE pc' \in {"structure", "tree"} /\ UNCHANGED collection
    <3>1. server[Current].type \in 0 .. 10
      BY <1>3, <2>1, <2>2
      DEF Appending, ReadValue, ExploreStructure, BuildTree, SelectedSoFar
    <3>2. Current' = Current /\ IsRange' = IsRange
      BY <2>1, <2>3 DEF Current, IsRange
    <3>3. QED  BY <2>1, <2>2, <2>3, <3>1, <3>2 DEF Exactly, SoFar, SelectedSoFar
  <2>4. CASE pc' \in {"heap_error", "walk_failed"}
    BY <2>4 DEF Exactly, SoFar, SelectedSoFar, Reading
  <2>5. CASE RowTaken
    BY <1>1, <2>1, <2>2, <2>5, RowTakenKeeps DEF Exactly
  <2>6. QED  BY <1>1, <1>3, <2>1, <2>2, <2>3, <2>4, <2>5, RowTakenStep
<1>4. CASE ReadClass \/ Refuse
  <2>1. UNCHANGED <<rows, args, world>> /\ pc \in Reading /\ ~disturbed
    BY <1>1, <1>4 DEF ReadClass, Refuse, Reading
  <2>2. row <= Len(rows) /\ row <= LastRow
    BY <1>1, <1>4, <1>t, SaveAssumption DEF ReadClass, Refuse, Kept, RowListed, RowRead
  <2>3. SoFar /\ SelectedSoFar
    BY <1>1, <2>1 DEF Exactly
  <2>4. CASE pc' = "type"
    <3>1. UNCHANGED <<row, subset>>
      BY <1>4, <2>4 DEF ReadClass, Refuse, SkipRow
    <3>2. IsRange' = IsRange
      BY <2>1 DEF IsRange
    <3>3. QED  BY <2>1, <2>3, <2>4, <3>1, <3>2 DEF Exactly, SoFar, SelectedSoFar
  <2>5. CASE pc' # "type"
    <3>1. RowTaken
      BY <1>1, <1>4, <2>1, <2>5, RowSkipped
    <3>2. QED  BY <1>1, <2>1, <2>2, <2>3, <3>1, RowTakenKeeps DEF Exactly
  <2>6. QED  BY <2>4, <2>5
<1>5. CASE Accept
  <2>1. /\ pc = "type" /\ pc' = "value" /\ UNCHANGED <<rows, args, row, subset, world>>
        /\ ~disturbed /\ is_numeric_or_bool(Current)
    BY <1>1, <1>5 DEF Accept
  <2>2. server[Current].type \in 0 .. 10
    BY <1>1, <2>1 DEF Seen, Busy, is_numeric_or_bool, TypeId
  <2>3. Current' = Current /\ IsRange' = IsRange
    BY <2>1 DEF Current, IsRange
  <2>4. QED  BY <1>1, <2>1, <2>2, <2>3 DEF Exactly, SoFar, SelectedSoFar, Reading
<1>6. CASE RowsDone
  <2>1. /\ pc' = "check" /\ UNCHANGED <<rows, args, row, subset, world>> /\ ~disturbed
    BY <1>1, <1>6 DEF RowsDone
  <2>2. subset = SelectedOf(server, rows, args[1] + 1, LastRow)
    BY <1>1, <1>6, <2>1, RowsDoneExactly
  <2>3. LastRow' = LastRow
    BY <2>1 DEF LastRow, IsRange
  <2>4. QED  BY <2>1, <2>2, <2>3 DEF Exactly, SoFar, SelectedSoFar, Reading
<1>7. CASE \/ EndOfInput \/ RowOutOfListing \/ CheckFile \/ Answer \/ Swallow
           \/ AnswerAtEof \/ NewName \/ OpenFile \/ WriteFile
  <2>1. pc' \notin Reading \cup {"check"}
    BY <1>7
    DEF EndOfInput, RowOutOfListing, CheckFile, Answer, Swallow, AnswerAtEof, NewName,
        OpenFile, WriteFile, Reading
  <2>2. QED  BY <2>1 DEF Exactly, SoFar, SelectedSoFar, Reading
<1>8. CASE Environment \/ UNCHANGED vars
  <2>1. UNCHANGED <<pc, rows, args, row, subset, server, disturbed>>
    BY <1>1, <1>8 DEF Environment, Type, CloseInput, ServerChanges, FlipLink, vars
  <2>2. Current' = Current /\ IsRange' = IsRange /\ LastRow' = LastRow
    BY <2>1 DEF Current, IsRange, LastRow
  <2>3. QED  BY <1>1, <2>1, <2>2 DEF Exactly, SoFar, SelectedSoFar
<1>9. QED
  BY <1>1, <1>2, <1>3, <1>4, <1>5, <1>6, <1>7, <1>8 DEF Next, Program, Appending

\* When nothing changes under the command, what mirua_save collects is each
\* accepted row of the range once and in order, a structure as its leaves: for
\* every listing, range and server.
THEOREM SelectionIsExact == Spec => []SelectionExact
<1>1. Init => Seen /\ NoTreeLostUndisturbed /\ Exactly
  BY DEF Init, Seen, NoTreeLostUndisturbed, Busy, Exactly, SoFar, SelectedSoFar, Reading
<1>2. Exactly => SelectionExact
  BY SelectedIs DEF Exactly, SelectedSoFar, SelectionExact
<1>3. QED  BY <1>1, <1>2, SeenStep, ExactlyStep, Invariant, PTL DEF Spec

-----------------------------------------------------------------------------
(* How long a save takes *)

\* The rows of the listing from the current one on.
RowsLeft == IF row > Len(rows) THEN 0 ELSE Len(rows) + 1 - row

\* The steps a row may still take, and those of the file.
ReadsLeft ==
    CASE pc = "class" -> 5 [] pc = "type" -> 4 [] pc = "value" -> 3
      [] pc = "structure" -> 2 [] pc = "tree" -> 1 [] OTHER -> 0

FileLeft ==
    CASE pc = "check" -> 5 [] pc = "ask" -> 4 [] pc \in {"swallow", "new_name"} -> 3
      [] pc = "open" -> 2 [] pc = "write" -> 1 [] OTHER -> 0

\* The most steps the command being executed may still take.
Left == IF pc \in Reading THEN 5 * RowsLeft + ReadsLeft + 5 ELSE FileLeft

\* A step of a command that does not wait for a line brings its end nearer, and
\* nothing that happens meanwhile puts it off.
Nearer ==
    /\ Program /\ Busy /\ ~Waiting => Left' < Left
    /\ Environment => Left' = Left

LEMMA LeftTyped ==
    ASSUME TypeOK
    PROVE  RowsLeft \in Nat /\ ReadsLeft \in 0 .. 5 /\ FileLeft \in 0 .. 5 /\ Left \in Nat
<1>1. PICK n \in Nat : n = Len(rows)
  BY SaveAssumption DEF TypeOK
<1>2. RowsLeft \in Nat
  BY <1>1 DEF RowsLeft, TypeOK
<1>3. ReadsLeft \in 0 .. 5 /\ FileLeft \in 0 .. 5
  BY DEF ReadsLeft, FileLeft
<1>4. 5 * RowsLeft + ReadsLeft + 5 \in Nat
  BY <1>2, <1>3
<1>5. QED  BY <1>2, <1>3, <1>4 DEF Left

LEMMA NextRowLess ==
    ASSUME TypeOK, pc \in Reading, UNCHANGED rows, row \in 1 .. Len(rows), ReadsLeft >= 1,
           row' = row + 1, pc' = "class"
    PROVE  Left' < Left
<1>1. PICK n \in Nat : n = Len(rows)
  BY SaveAssumption DEF TypeOK
<1>2. PICK a \in Nat : a = ReadsLeft
  BY LeftTyped
<1>3. row \in Nat /\ row <= n /\ a >= 1 /\ Len(rows') = n
  BY <1>1, <1>2
<1>4. RowsLeft = n + 1 - row
  BY <1>1, <1>3 DEF RowsLeft
<1>5. RowsLeft' = n - row
  BY <1>1, <1>3 DEF RowsLeft
<1>6. ReadsLeft' = 5 /\ pc' \in Reading
  BY DEF ReadsLeft, Reading
<1>7. Left = 5 * (n + 1 - row) + a + 5 /\ Left' = 5 * (n - row) + 5 + 5
  BY <1>2, <1>4, <1>5, <1>6 DEF Left
<1>8. QED  BY <1>3, <1>7

LEMMA SameRowLess ==
    ASSUME TypeOK, pc \in Reading, UNCHANGED <<rows, row>>, pc' \in Reading,
           ReadsLeft' < ReadsLeft
    PROVE  Left' < Left
<1>1. RowsLeft' = RowsLeft
  BY DEF RowsLeft
<1>2. PICK r \in Nat, a \in Nat : r = RowsLeft /\ a = ReadsLeft
  BY LeftTyped
<1>3. PICK b \in Nat : b = ReadsLeft'
  <2>1. ReadsLeft' \in 0 .. 5
    BY DEF ReadsLeft
  <2>2. QED  BY <2>1
<1>4. Left = 5 * r + a + 5 /\ Left' = 5 * r + b + 5
  BY <1>1, <1>2, <1>3 DEF Left
<1>5. b < a
  BY <1>2, <1>3
<1>6. QED  BY <1>4, <1>5

LEMMA RowsOver ==
    ASSUME TypeOK, pc \in Reading, pc' \notin Reading
    PROVE  Left' < Left
<1>1. PICK r \in Nat, a \in Nat : r = RowsLeft /\ a = ReadsLeft
  BY LeftTyped
<1>2. a >= 1
  BY <1>1 DEF ReadsLeft, Reading
<1>3. Left = 5 * r + a + 5
  BY <1>1 DEF Left
<1>4. Left' \in 0 .. 5
  BY DEF Left, FileLeft
<1>5. PICK l \in 0 .. 5 : l = Left'
  BY <1>4
<1>6. QED  BY <1>2, <1>3, <1>5

\* The three ways on from a row: another read of it, the next row, the file or
\* the prompt.
LEMMA ReadOn ==
    ASSUME Kept, pc \in Reading, UNCHANGED rows,
           \/ UNCHANGED row /\ pc' \in Reading /\ ReadsLeft' < ReadsLeft
           \/ row <= Len(rows) /\ row' = row + 1 /\ pc' = "class"
           \/ pc' \notin Reading
    PROVE  Left' < Left
<1>1. TypeOK
  BY DEF Kept
<1>2. CASE row <= Len(rows) /\ row' = row + 1 /\ pc' = "class"
  <2>1. row \in Nat /\ Len(rows) \in Nat /\ args \in Seq(Nat)
    BY <1>1, SaveAssumption DEF TypeOK
  <2>2. args # << >> /\ args[1] + 1 <= row
    BY DEF Kept, ArgsThere, Busy, Reading
  <2>3. args[1] \in Nat
    BY <2>1, <2>2
  <2>4. row \in 1 .. Len(rows)
    BY <1>2, <2>1, <2>2, <2>3
  <2>5. ReadsLeft >= 1
    BY DEF ReadsLeft, Reading
  <2>6. QED  BY <1>1, <1>2, <2>4, <2>5, NextRowLess
<1>3. QED  BY <1>1, <1>2, SameRowLess, RowsOver

LEMMA NearerStep == Kept /\ [Next]_vars => [Nearer]_vars
<1>1. SUFFICES ASSUME Kept, Next PROVE Nearer
  OBVIOUS
<1>t. TypeOK
  BY <1>1 DEF Kept
<1>2. ASSUME Environment PROVE Left' = Left
  <2>1. UNCHANGED <<pc, rows, row>>
    BY <1>2 DEF Environment, Type, CloseInput, ServerChanges, FlipLink
  <2>2. QED  BY <2>1 DEF Left, FileLeft, ReadsLeft, RowsLeft
<1>3. ASSUME Program, Busy, ~Waiting PROVE Left' < Left
  <2>1. CASE ReadCommand \/ EndOfInput
    BY <1>3, <2>1 DEF ReadCommand, EndOfInput, Busy
  <2>2. CASE RowsDone \/ RowOutOfListing
    <3>1. pc \in Reading /\ pc' \notin Reading /\ UNCHANGED rows
      BY <2>2 DEF RowsDone, RowOutOfListing, Reading
    <3>2. QED  BY <1>1, <3>1, ReadOn
  <2>3. CASE ReadClass \/ Accept \/ Refuse
    <3>1. /\ pc \in Reading /\ UNCHANGED rows
          /\ \/ UNCHANGED row /\ pc = "class" /\ pc' = "type"
             \/ UNCHANGED row /\ pc = "type" /\ pc' = "value"
             \/ row' = row + 1 /\ pc' = "class"
             \/ pc' = "prompt"
      BY <2>3 DEF ReadClass, Accept, Refuse, SkipRow, Reading
    <3>2. row <= Len(rows)
      <4>1. row \in Nat /\ Len(rows) \in Nat
        BY <1>t, SaveAssumption DEF TypeOK
      <4>2. QED  BY <1>1, <2>3, <4>1 DEF ReadClass, Accept, Refuse, Kept, RowListed, RowRead
    <3>3. QED  BY <1>1, <3>1, <3>2, ReadOn DEF ReadsLeft, Reading
  <2>4. CASE Appending
    <3>1. /\ UNCHANGED rows /\ pc \in RowRead
          /\ \/ /\ pc' \in {"structure", "tree", "null_tree", "walk_failed"}
                /\ UNCHANGED collection
             \/ \E nodes \in Seq(NodeId), cap \in Nat : Collect(nodes, cap)
      BY <1>1, <2>4, RowAnswered
    <3>2. pc \in Reading /\ row <= Len(rows)
      <4>1. row \in Nat /\ Len(rows) \in Nat
        BY <1>t, SaveAssumption DEF TypeOK
      <4>2. QED  BY <1>1, <3>1, <4>1 DEF Kept, RowListed, RowRead, Reading
    <3>3. CASE \E nodes \in Seq(NodeId), cap \in Nat : Collect(nodes, cap)
      <4>1. pc' \notin Reading \/ (row' = row + 1 /\ pc' = "class")
        BY <3>3 DEF Collect, Reading
      <4>2. QED  BY <1>1, <3>1, <3>2, <4>1, ReadOn
    <3>4. CASE pc' \in {"null_tree", "walk_failed"}
      BY <1>1, <3>1, <3>2, <3>4, ReadOn DEF Reading
    <3>5. CASE pc' \in {"structure", "tree"} /\ UNCHANGED row
      <4>1. \/ pc = "value" /\ pc' = "structure"
            \/ pc = "structure" /\ pc' = "tree"
            \/ row' = row + 1 /\ pc' = "class"
            \/ pc' \notin Reading
        BY <2>4, <3>5 DEF Appending, ReadValue, ExploreStructure, BuildTree, Collect, Reading
      <4>2. QED  BY <1>1, <3>1, <3>2, <3>5, <4>1, ReadOn DEF ReadsLeft, Reading
    <3>6. QED  BY <3>1, <3>3, <3>4, <3>5
  <2>5. CASE CheckFile \/ Answer \/ Swallow \/ AnswerAtEof \/ NewName \/ OpenFile \/ WriteFile
    <3>1. \/ pc = "check" /\ pc' \in {"ask", "open"}
          \/ pc = "ask" /\ pc' \in {"swallow", "new_name", "open"}
          \/ pc \in {"swallow", "new_name"} /\ pc' = "open"
          \/ pc = "open" /\ pc' \in {"write", "prompt"}
          \/ pc = "write" /\ pc' \in {"assert_failed", "prompt"}
      BY <1>3, <2>5
      DEF CheckFile, Answer, Swallow, AnswerAtEof, NewName, OpenFile, WriteFile, Waiting,
          Asking
    <3>2. Left = FileLeft /\ Left' = FileLeft'
      BY <3>1 DEF Left, Reading
    <3>3. FileLeft' < FileLeft
      BY <3>1 DEF FileLeft
    <3>4. QED  BY <3>2, <3>3
  <2>6. QED  BY <1>3, <2>1, <2>2, <2>3, <2>4, <2>5 DEF Program, Appending
<1>4. QED  BY <1>2, <1>3 DEF Nearer

\* Every step of a save that is not waiting for the operator brings its end
\* nearer, whatever lines are typed and whatever the server and the link do
\* meanwhile: mirua_save is over after at most five steps for each row of the
\* listing and ten more.
THEOREM SavesEnd == Spec => [](Left \in Nat) /\ [][Nearer]_vars
<1>1. Kept => Left \in Nat
  BY LeftTyped DEF Kept
<1>2. QED  BY <1>1, KeptInit, KeptStep, NearerStep, PTL DEF Spec
=============================================================================
