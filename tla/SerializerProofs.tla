-------------------------- MODULE SerializerProofs --------------------------
(***************************************************************************)
(* For every set of lists, buffer size and memory: nothing is printed      *)
(* outside the buffer; seen from the save command there is one write, of   *)
(* the whole text; no more memory is asked for than the text needs, and    *)
(* the retries come to an end.                                             *)
(***************************************************************************)
EXTENDS Serializer, FiniteSetTheorems, WellFoundedInduction, TLAPS

\* Where the printing is, in each step of the program: what the others need to
\* be inductive.  A node has five pieces and a newline behind it.
Progress ==
    /\ pc = "header" => at = 1 /\ piece = 1 /\ offset = 0 /\ local = 0 /\ printed = 0
    /\ pc = "node" => printed = 6 * (at - 1) + piece
    /\ pc = "newline" => at <= Len(nodes) /\ printed = 6 * at /\ local = 0
    /\ pc = "write" => printed = 6 * Len(nodes) + 1 /\ local = 0
    /\ pc \notin {"saved", "short_write"} => file = 0

Inv == TypeOK /\ InBounds /\ Progress

\* The lengths of the five lines of a node are natural numbers.
LEMMA PieceLength ==
    ASSUME NEW e \in Entry, NEW k \in 1 .. 5
    PROVE  Pieces(e)[k] \in Nat
  BY DEF Pieces, Entry

\* A list that may be saved is a sequence of entries.
LEMMA ListEntry ==
    ASSUME nodes \in Lists
    PROVE  /\ Len(nodes) \in Nat
           /\ nodes = << >> <=> Len(nodes) = 0
           /\ \A k \in 1 .. Len(nodes) : nodes[k] \in Entry
  <1>1. nodes \in Seq(Entry)
    BY SerializerAssumption
  <1>2. QED
    BY <1>1

\* The invariant holds before anything is printed.
LEMMA InvInit == Init => Inv
  <1> SUFFICES ASSUME Init
               PROVE  Inv
    OBVIOUS
  <1>1. Len(nodes) \in Nat
    BY ListEntry DEF Init
  <1>2. QED
    BY <1>1, SerializerAssumption DEF Init, Inv, TypeOK, InBounds, Progress, Ended

\* Every step keeps the invariant.
LEMMA InvStep == Inv /\ [Next]_vars => Inv'
  <1> SUFFICES ASSUME Inv, [Next]_vars
               PROVE  Inv'
    OBVIOUS
  <1> USE DEF Inv, TypeOK, InBounds, Progress, Ended, Step, Fits, given
  <1>l. /\ Len(nodes) \in Nat
        /\ nodes = << >> <=> Len(nodes) = 0
        /\ \A k \in 1 .. Len(nodes) : nodes[k] \in Entry
    BY ListEntry
  <1>1. CASE PrintHeader
    BY <1>1, <1>l DEF PrintHeader, Header
  <1>2. CASE PrintPiece
    <2> DEFINE length == Pieces(nodes[at])[piece]
    <2>1. length \in Nat
      BY <1>2, <1>l, PieceLength DEF PrintPiece
    <2>2. CASE length < bufsize - offset - local
      <3>1. /\ local' = local + length /\ printed' = printed + 1 /\ piece' = piece + 1
            /\ UNCHANGED <<pc, nodes, assertions, bufsize, offset, at, file>>
        BY <1>2, <2>1, <2>2 DEF PrintPiece
      <3> HIDE DEF length
      <3>2. QED
        BY <1>2, <1>l, <2>1, <2>2, <3>1 DEF PrintPiece
    <2>3. CASE ~(length < bufsize - offset - local)
      <3>1. pc' = "grow" /\ UNCHANGED <<nodes, assertions, bufsize, position, file>>
        BY <1>2, <2>1, <2>3 DEF PrintPiece, position
      <3>2. QED
        BY <1>2, <1>l, <3>1 DEF PrintPiece, position
    <2>4. QED
      BY <2>2, <2>3
  <1>3. CASE Opaque
    BY <1>3, <1>l DEF Opaque, position
  <1>4. CASE NodeDone
    BY <1>4, <1>l DEF NodeDone
  <1>5. CASE PrintNewline
    <2>1. CASE 1 < bufsize - offset
      <3>1. /\ offset' = offset + 1 /\ printed' = printed + 1 /\ at' = at + 1 /\ piece' = 1
            /\ pc' = IF at = Len(nodes) THEN "write" ELSE "node"
            /\ UNCHANGED <<nodes, assertions, bufsize, local, file>>
        BY <1>5, <2>1 DEF PrintNewline
      <3>2. at \in 1 .. Len(nodes) /\ printed = 6 * at /\ pc = "newline"
        BY <1>5 DEF PrintNewline
      <3>3. TypeOK' /\ InBounds'
        BY <1>l, <2>1, <3>1, <3>2
      <3>4. Progress'
        BY <1>l, <2>1, <3>1, <3>2
      <3>5. QED
        BY <3>3, <3>4
    <2>2. CASE ~(1 < bufsize - offset)
      <3>1. pc' = "grow" /\ UNCHANGED <<nodes, assertions, bufsize, position, file>>
        BY <1>5, <2>2 DEF PrintNewline, position
      <3>2. QED
        BY <1>5, <1>l, <3>1 DEF PrintNewline, position
    <2>3. QED
      BY <2>1, <2>2
  <1>6. CASE Grow
    <2>1. CASE 2 * bufsize <= MaxMemory
      <3>1. /\ pc' = "header" /\ bufsize' = 2 * bufsize
            /\ offset' = 0 /\ local' = 0 /\ at' = 1 /\ piece' = 1 /\ printed' = 0
            /\ UNCHANGED <<nodes, assertions, file>> /\ pc = "grow"
        BY <1>6, <2>1 DEF Grow
      <3>2. QED
        BY <1>l, <3>1
    <2>2. CASE ~(2 * bufsize <= MaxMemory)
      <3>1. /\ pc' = "no_memory" /\ pc = "grow"
            /\ UNCHANGED <<nodes, assertions, bufsize, position, file>>
        BY <1>6, <2>2 DEF Grow
      <3>2. QED
        BY <1>l, <3>1 DEF position
    <2>3. QED
      BY <2>1, <2>2
  <1>7. CASE WriteFile
    BY <1>7, <1>l DEF WriteFile, position
  <1>8. CASE UNCHANGED vars
    BY <1>8 DEF vars
  <1>9. QED
    BY <1>1, <1>2, <1>3, <1>4, <1>5, <1>6, <1>7, <1>8 DEF Next

\* Every variable of the serializer keeps its type: in particular the node
\* being printed is one of the list (mirua_serialization.c:104).
THEOREM SerializerTypeCorrect == Spec => []TypeOK
  <1>1. Inv => TypeOK
    BY DEF Inv
  <1>2. QED
    BY <1>1, InvInit, InvStep, PTL DEF Spec

\* Every print is given a place inside the buffer and a size of at least one
\* (utils.c:8), for every list and every size of the first buffer.
THEOREM NothingPastTheBuffer == Spec => []InBounds
  <1>1. Inv => InBounds
    BY DEF Inv
  <1>2. QED
    BY <1>1, InvInit, InvStep, PTL DEF Spec

\* However many buffers it takes, one complete text is written, or a part of
\* it, or nothing: the serializer implements FileText.
THEOREM OneWrite == Spec => WritesOnce
  <1>1. Init => Written!Init
    <2> SUFFICES ASSUME Init
                 PROVE  Written!Init
      OBVIOUS
    <2>1. Len(nodes) \in Nat
      BY ListEntry DEF Init
    <2>2. QED
      BY <2>1 DEF Init, Written!Init, Ended
  <1>2. Inv /\ [Next]_vars => [Written!Write \/ Written!GiveUp]_<<1 + 6 * Len(nodes), file,
            CASE pc = "saved" -> "saved" [] pc \in Ended \ {"saved"} -> "failed"
              [] OTHER -> "pending">>
    <2> SUFFICES ASSUME Inv, [Next]_vars
                 PROVE  [Written!Write \/ Written!GiveUp]_<<1 + 6 * Len(nodes), file,
            CASE pc = "saved" -> "saved" [] pc \in Ended \ {"saved"} -> "failed"
              [] OTHER -> "pending">>
      OBVIOUS
    <2> USE DEF Written!Write, Written!GiveUp, Ended, Step, given
    <2>1. CASE PrintHeader
      BY <2>1 DEF PrintHeader
    <2>2. CASE PrintPiece
      BY <2>2 DEF PrintPiece
    <2>3. CASE Opaque
      BY <2>3 DEF Opaque, position
    <2>4. CASE NodeDone
      BY <2>4 DEF NodeDone
    <2>5. CASE PrintNewline
      BY <2>5 DEF PrintNewline
    <2>6. CASE Grow
      BY <2>6 DEF Grow, position
    <2>7. CASE WriteFile
      BY <2>7, ListEntry DEF WriteFile, position, Inv, TypeOK, Progress
    <2>8. CASE UNCHANGED vars
      BY <2>8 DEF vars
    <2>9. QED
      BY <2>1, <2>2, <2>3, <2>4, <2>5, <2>6, <2>7, <2>8 DEF Next
  <1>3. Spec => []Inv
    BY InvInit, InvStep, PTL DEF Spec
  <1>4. QED
    BY <1>1, <1>2, <1>3, PTL DEF Spec, WritesOnce, Written!Spec

-----------------------------------------------------------------------------
(* The length of the text. *)

\* A set of numbers that holds 0 and, with n, n + 1 holds them all.
LEMMA Induction ==
    ASSUME NEW T, 0 \in T, \A n \in Nat : n \in T => n + 1 \in T
    PROVE  Nat \subseteq T
  <1> DEFINE R == OpToRel(<, Nat)
             Others == Nat \ T
  <1>1. IsWellFoundedOn(R, Nat)
    BY NatLessThanWellFounded
  <1>2. \A x, y \in Nat : y < x => <<y, x>> \in R
    BY Zenon DEF OpToRel
  <1> HIDE DEF R
  <1>3. SUFFICES ASSUME Others # {} PROVE FALSE
    OBVIOUS
  <1>4. PICK x \in Others : \A y \in Others : ~(<<y, x>> \in R)
    BY <1>1, <1>3, WFMin
  <1>5. x \in Nat /\ x # 0 /\ x - 1 \in Nat /\ (x - 1) + 1 = x
    OBVIOUS
  <1>6. x - 1 \in Others
    BY <1>5
  <1>7. x - 1 < x
    BY <1>5
  <1>8. QED
    BY <1>2, <1>4, <1>5, <1>6, <1>7

\* The lengths of the first k lines of a node, and of the node and its newline.
Printed(e, k) ==
    LET p == Pieces(e)
    IN  CASE k = 0 -> 0
          [] k = 1 -> p[1]
          [] k = 2 -> p[1] + p[2]
          [] k = 3 -> p[1] + p[2] + p[3]
          [] k = 4 -> p[1] + p[2] + p[3] + p[4]
          [] OTHER -> p[1] + p[2] + p[3] + p[4] + p[5]

\* The function by which Length is defined, and what makes a function that one.
Measures(f) ==
    f = [k \in 0 .. Len(nodes) |->
            IF k = 0 THEN Header
            ELSE LET p == Pieces(nodes[k])
                 IN  f[k - 1] + p[1] + p[2] + p[3] + p[4] + p[5] + 1]
Measure == CHOOSE f : Measures(f)

LEMMA PrintedLength ==
    ASSUME NEW e \in Entry
    PROVE  /\ Printed(e, 0) = 0
           /\ \A k \in 0 .. 5 : Printed(e, k) \in Nat
           /\ \A k \in 1 .. 5 : Printed(e, k) = Printed(e, k - 1) + Pieces(e)[k]
  <1> DEFINE p == Pieces(e)
  <1>1. p[1] \in Nat /\ p[2] \in Nat /\ p[3] \in Nat /\ p[4] \in Nat /\ p[5] \in Nat
    BY PieceLength
  <1> HIDE DEF p
  <1>2. /\ Printed(e, 0) = 0
        /\ Printed(e, 1) = p[1]
        /\ Printed(e, 2) = p[1] + p[2]
        /\ Printed(e, 3) = p[1] + p[2] + p[3]
        /\ Printed(e, 4) = p[1] + p[2] + p[3] + p[4]
        /\ Printed(e, 5) = p[1] + p[2] + p[3] + p[4] + p[5]
    BY DEF Printed, p
  <1>3. \A k \in 0 .. 5 : Printed(e, k) \in Nat
    <2>1. \A k \in 0 .. 5 : k \in {0, 1, 2, 3, 4, 5}
      OBVIOUS
    <2>2. QED  BY <1>1, <1>2, <2>1
  <1>4. ASSUME NEW k \in 1 .. 5 PROVE Printed(e, k) = Printed(e, k - 1) + p[k]
    <2>1. k \in {1, 2, 3, 4, 5} /\ 1 - 1 = 0 /\ 2 - 1 = 1 /\ 3 - 1 = 2 /\ 4 - 1 = 3 /\ 5 - 1 = 4
      OBVIOUS
    <2>2. CASE k = 1
      <3>1. Printed(e, 1) = Printed(e, 0) + p[1]
        BY <1>1, <1>2
      <3>2. QED  BY <2>1, <2>2, <3>1
    <2>3. CASE k = 2
      <3>1. Printed(e, 2) = Printed(e, 1) + p[2]
        BY <1>2
      <3>2. QED  BY <2>1, <2>3, <3>1
    <2>4. CASE k = 3
      <3>1. Printed(e, 3) = Printed(e, 2) + p[3]
        BY <1>2
      <3>2. QED  BY <2>1, <2>4, <3>1
    <2>5. CASE k = 4
      <3>1. Printed(e, 4) = Printed(e, 3) + p[4]
        BY <1>2
      <3>2. QED  BY <2>1, <2>5, <3>1
    <2>6. CASE k = 5
      <3>1. Printed(e, 5) = Printed(e, 4) + p[5]
        BY <1>2
      <3>2. QED  BY <2>1, <2>6, <3>1
    <2>7. QED  BY <2>1, <2>2, <2>3, <2>4, <2>5, <2>6
  <1>5. QED  BY <1>2, <1>3, <1>4 DEF p

LEMMA LineSum ==
    ASSUME NEW m \in Nat, NEW a \in Nat, NEW b \in Nat, NEW c \in Nat, NEW d \in Nat,
           NEW e \in Nat
    PROVE  /\ m + a + b + c + d + e + 1 \in Nat
           /\ m + a + b + c + d + e + 1 = m + (a + b + c + d + e) + 1
  OBVIOUS

\* The lengths are added up from the header on.
LEMMA MeasureFunction ==
    ASSUME nodes \in Lists
    PROVE  /\ Measure[0] = Header
           /\ \A k \in 1 .. Len(nodes) :
                 /\ Measure[k - 1] \in Nat
                 /\ Measure[k] = Measure[k - 1] + Printed(nodes[k], 5) + 1
           /\ Length = Measure[Len(nodes)]
  <1> DEFINE step(f, k) == IF k = 0 THEN Header
                           ELSE LET p == Pieces(nodes[k])
                                IN  f[k - 1] + p[1] + p[2] + p[3] + p[4] + p[5] + 1
             Partial(f, n) == f = [k \in 0 .. n |-> step(f, k)]
             T == {n \in Nat : n <= Len(nodes) => \E f : Partial(f, n)}
  <1>1. Len(nodes) \in Nat
    BY ListEntry
  <1>2. 0 \in T
    <2> DEFINE f == [k \in 0 .. 0 |-> Header]
    <2>1. f = [k \in 0 .. 0 |-> step(f, k)]
      OBVIOUS
    <2>2. QED  BY <2>1
  <1>3. ASSUME NEW n \in Nat, n \in T PROVE n + 1 \in T
    <2>1. SUFFICES ASSUME n + 1 <= Len(nodes) PROVE \E f : Partial(f, n + 1)
      <3> HIDE DEF Partial
      <3>1. QED  OBVIOUS
    <2>2. PICK g : Partial(g, n)
      <3> HIDE DEF Partial
      <3>1. n <= Len(nodes)
        BY <1>1, <2>1
      <3>2. QED  BY <1>3, <3>1
    <2> DEFINE f == [k \in 0 .. n + 1 |-> IF k <= n THEN g[k] ELSE step(g, k)]
    <2>3. ASSUME NEW k \in 0 .. n + 1 PROVE f[k] = step(f, k)
      <3>1. k # 0 => k - 1 \in 0 .. n /\ f[k - 1] = g[k - 1]
        OBVIOUS
      <3>2. CASE k <= n
        <4>1. f[k] = step(g, k)
          BY <2>2, <3>2
        <4>2. QED  BY <3>1, <4>1
      <3>3. CASE ~(k <= n)
        <4>1. f[k] = step(g, k)
          BY <3>3
        <4>2. QED  BY <3>1, <4>1
      <3>4. QED  BY <3>2, <3>3
    <2>4. f = [k \in 0 .. n + 1 |-> f[k]]
      OBVIOUS
    <2> HIDE DEF f
    <2>5. QED  BY <2>3, <2>4
  <1>4. PICK f : Partial(f, Len(nodes))
    <2> HIDE DEF T, Partial
    <2>1. Len(nodes) \in T
      BY <1>1, <1>2, <1>3, Induction
    <2>2. QED  BY <1>1, <2>1 DEF T
  <1>5. Measures(Measure)
    <2>1. Measures(f)
      BY <1>4 DEF Measures
    <2>2. QED  BY <2>1 DEF Measure
  <1>6. \A k \in 0 .. Len(nodes) : Measure[k] = step(Measure, k)
    BY <1>5 DEF Measures
  <1>7. Measure[0] = Header
    BY <1>1, <1>6
  <1>8. \A k \in 1 .. Len(nodes) : Measure[k] = step(Measure, k) /\ k # 0
    BY <1>1, <1>6
  <1> DEFINE U == {n \in Nat : n <= Len(nodes) => Measure[n] \in Nat}
  <1>9. 0 \in U
    BY <1>7 DEF Header
  <1>10. ASSUME NEW n \in Nat, n \in U PROVE n + 1 \in U
    <2>1. SUFFICES ASSUME n + 1 <= Len(nodes) PROVE Measure[n + 1] \in Nat
      OBVIOUS
    <2>2. Measure[n] \in Nat /\ n + 1 \in 1 .. Len(nodes) /\ (n + 1) - 1 = n
      BY <1>1, <1>10, <2>1
    <2>3. PICK k \in 1 .. Len(nodes) : k = n + 1
      BY <2>2
    <2>4. PICK p : p = Pieces(nodes[k])
      OBVIOUS
    <2>5. p[1] \in Nat /\ p[2] \in Nat /\ p[3] \in Nat /\ p[4] \in Nat /\ p[5] \in Nat
      BY <2>4, ListEntry, PieceLength
    <2>6. Measure[k] = Measure[k - 1] + p[1] + p[2] + p[3] + p[4] + p[5] + 1
      BY <1>8, <2>4
    <2>7. k - 1 = n
      BY <2>2, <2>3
    <2>8. Measure[k - 1] \in Nat
      BY <2>2, <2>7
    <2>9. PICK m \in Nat, a \in Nat, b \in Nat, c \in Nat, d \in Nat, e \in Nat :
             m = Measure[k - 1] /\ a = p[1] /\ b = p[2] /\ c = p[3] /\ d = p[4] /\ e = p[5]
      BY <2>5, <2>8
    <2>10. Measure[k] = m + a + b + c + d + e + 1
      BY <2>6, <2>9
    <2>11. QED  BY <2>3, <2>10, LineSum
  <1>11. Nat \subseteq U
    <2> HIDE DEF U
    <2>1. QED  BY <1>9, <1>10, Induction
  <1>12. ASSUME NEW k \in 1 .. Len(nodes)
         PROVE  /\ Measure[k - 1] \in Nat
                /\ Measure[k] = Measure[k - 1] + Printed(nodes[k], 5) + 1
    <2>1. Measure[k - 1] \in Nat
      <3>1. k - 1 \in Nat /\ k - 1 <= Len(nodes)
        BY <1>1
      <3>2. QED  BY <1>11, <3>1
    <2>2. PICK p : p = Pieces(nodes[k])
      OBVIOUS
    <2>3. p[1] \in Nat /\ p[2] \in Nat /\ p[3] \in Nat /\ p[4] \in Nat /\ p[5] \in Nat
      BY <2>2, ListEntry, PieceLength
    <2>4. Measure[k] = Measure[k - 1] + p[1] + p[2] + p[3] + p[4] + p[5] + 1
      BY <1>8, <2>2
    <2>5. Printed(nodes[k], 5) = p[1] + p[2] + p[3] + p[4] + p[5]
      BY <2>2 DEF Printed
    <2>6. PICK m \in Nat, a \in Nat, b \in Nat, c \in Nat, d \in Nat, e \in Nat :
             m = Measure[k - 1] /\ a = p[1] /\ b = p[2] /\ c = p[3] /\ d = p[4] /\ e = p[5]
      BY <2>1, <2>3
    <2>7. /\ Measure[k] = m + a + b + c + d + e + 1
          /\ Printed(nodes[k], 5) = a + b + c + d + e
      BY <2>4, <2>5, <2>6
    <2>8. Measure[k] = m + (a + b + c + d + e) + 1
      BY <2>7, LineSum
    <2>9. QED  BY <2>6, <2>7, <2>8
  <1>13. Length = Measure[Len(nodes)]
    BY DEF Length, Measure, Measures
  <1>14. QED  BY <1>7, <1>12, <1>13

\* What is in the buffer, in each step of the program.
Filled ==
    /\ pc = "node" => offset = Measure[at - 1] /\ local = Printed(nodes[at], piece - 1)
    /\ pc = "newline" => offset = Measure[at - 1] + Printed(nodes[at], 5)
    /\ pc = "write" => offset = Length

LEMMA FilledStep == Inv /\ Filled /\ [Next]_vars => Filled'
  <1> SUFFICES ASSUME Inv, Filled, [Next]_vars
               PROVE  Filled'
    OBVIOUS
  <1>t. TypeOK /\ Progress /\ nodes \in Lists /\ Len(nodes) \in Nat
    BY ListEntry DEF Inv, TypeOK
  <1>m. nodes' = nodes => Measure' = Measure /\ Length' = Length
    BY DEF Measure, Measures, Length
  <1> HIDE DEF Measure, Length
  <1> USE DEF Step, given, Filled
  <1>1. CASE PrintHeader
    <2>1. CASE Fits(Header, offset, bufsize)
      <3>1. /\ offset' = Header /\ local' = 0 /\ at' = 1 /\ piece' = 1 /\ nodes' = nodes
            /\ pc' = IF nodes = << >> THEN "write" ELSE "node"
        BY <1>1, <1>t, <2>1 DEF PrintHeader, Progress, Header
      <3>2. CASE nodes = << >>
        <4>1. Length = Header
          BY <1>t, <3>2, ListEntry, MeasureFunction
        <4>2. QED  BY <1>m, <3>1, <3>2, <4>1
      <3>3. CASE nodes # << >>
        <4>1. Measure[0] = Header /\ Printed(nodes[1], 0) = 0
          BY <1>t, MeasureFunction DEF Printed
        <4>2. at' - 1 = 0 /\ piece' - 1 = 0
          BY <3>1
        <4>3. QED  BY <1>m, <3>1, <3>3, <4>1, <4>2
      <3>4. QED  BY <3>2, <3>3
    <2>2. CASE ~Fits(Header, offset, bufsize)
      BY <1>1, <2>2 DEF PrintHeader
    <2>3. QED  BY <2>1, <2>2
  <1>2. CASE PrintPiece
    <2>1. CASE pc' = "grow"
      BY <2>1
    <2>2. CASE pc' # "grow"
      <3>1. /\ pc = "node" /\ piece \in 1 .. 5 /\ local' = local + Pieces(nodes[at])[piece]
            /\ piece' = piece + 1 /\ pc' = pc /\ nodes' = nodes /\ offset' = offset /\ at' = at
        BY <1>2, <1>t, <2>2 DEF PrintPiece, TypeOK
      <3>2. Printed(nodes[at], piece) = Printed(nodes[at], piece - 1) + Pieces(nodes[at])[piece]
        <4>1. nodes[at] \in Entry
          BY <1>t, <3>1, ListEntry DEF TypeOK
        <4>2. QED  BY <3>1, <4>1, PrintedLength
      <3>3. piece' - 1 = piece
        BY <3>1
      <3>4. QED  BY <1>m, <3>1, <3>2, <3>3
    <2>3. QED  BY <2>1, <2>2
  <1>3. CASE Opaque
    BY <1>3 DEF Opaque
  <1>4. CASE NodeDone
    <2>1. /\ pc = "node" /\ piece = 6 /\ offset' = offset + local /\ at' = at
          /\ pc' = "newline" /\ nodes' = nodes
      BY <1>4 DEF NodeDone
    <2>2. local = Printed(nodes[at], 5)
      BY <2>1
    <2>3. QED  BY <1>m, <2>1, <2>2
  <1>5. CASE PrintNewline
    <2>1. CASE Fits(1, offset, bufsize)
      <3>1. /\ pc = "newline" /\ offset' = offset + 1 /\ at' = at + 1 /\ piece' = 1
            /\ pc' = IF at = Len(nodes) THEN "write" ELSE "node"
            /\ nodes' = nodes /\ local' = local
        BY <1>5, <2>1 DEF PrintNewline
      <3>2. at \in 1 .. Len(nodes) /\ local = 0
        BY <1>t, <3>1 DEF TypeOK, Progress
      <3>3. offset' = Measure[at]
        BY <1>t, <3>1, <3>2, MeasureFunction
      <3>4. CASE at = Len(nodes)
        <4>1. Length = Measure[at]
          BY <1>t, <3>4, MeasureFunction
        <4>2. QED  BY <1>m, <3>1, <3>3, <3>4, <4>1
      <3>5. CASE at # Len(nodes)
        <4>1. at' - 1 = at /\ piece' - 1 = 0
          BY <3>1, <3>2
        <4>2. Printed(nodes[at'], 0) = 0
          BY DEF Printed
        <4>3. QED  BY <1>m, <3>1, <3>2, <3>3, <3>5, <4>1, <4>2
      <3>6. QED  BY <3>4, <3>5
    <2>2. CASE ~Fits(1, offset, bufsize)
      BY <1>5, <2>2 DEF PrintNewline
    <2>3. QED  BY <2>1, <2>2
  <1>6. CASE Grow \/ WriteFile
    BY <1>6 DEF Grow, WriteFile
  <1>7. CASE UNCHANGED vars
    BY <1>7, <1>m DEF vars
  <1>8. QED
    BY <1>1, <1>2, <1>3, <1>4, <1>5, <1>6, <1>7 DEF Next

\* However many buffers it took, the text that is written is as long as the
\* header and all the nodes, each of its pieces printed once
\* (telegraf_serialize_nodes), for every list and every length of an entry.
THEOREM WholeTextWritten == Spec => []WholeText
  <1>1. Init => Filled
    BY DEF Init, Filled
  <1>2. Inv /\ Filled => WholeText
    <2>1. Inv => Len(nodes) \in Nat
      BY ListEntry DEF Inv, TypeOK
    <2>2. QED  BY <2>1 DEF Inv, Progress, Filled, WholeText
  <1>3. QED
    BY <1>1, <1>2, InvInit, InvStep, FilledStep, PTL DEF Spec

-----------------------------------------------------------------------------
(* How much memory it takes. *)

\* The text up to a node is no longer than the whole.
LEMMA MeasureBelow ==
    ASSUME nodes \in Lists, NEW k \in 0 .. Len(nodes)
    PROVE  Measure[k] \in Nat /\ Length \in Nat /\ Measure[k] <= Length
  <1> DEFINE N == Len(nodes)
             T == {d \in Nat : d <= N => Measure[N - d] \in Nat /\ Measure[N - d] <= Length}
  <1>1. N \in Nat
    BY ListEntry
  <1>2. Length = Measure[N] /\ Measure[0] = Header
    BY MeasureFunction
  <1>3. \A j \in 1 .. N : /\ Measure[j - 1] \in Nat /\ Printed(nodes[j], 5) \in Nat
                          /\ Measure[j] = Measure[j - 1] + Printed(nodes[j], 5) + 1
    <2>1. \A j \in 1 .. N : Printed(nodes[j], 5) \in Nat
      BY ListEntry, PrintedLength
    <2>2. QED  BY <2>1, MeasureFunction
  <1> HIDE DEF N, Length
  <1>4. Length \in Nat
    <2>1. CASE N = 0
      BY <1>2, <2>1 DEF Header
    <2>2. CASE N # 0
      <3>1. N \in 1 .. N
        BY <1>1, <2>2
      <3>2. PICK a \in Nat, b \in Nat : Measure[N] = a + b + 1
        BY <1>3, <3>1
      <3>3. QED  BY <1>2, <3>2
    <2>3. QED  BY <2>1, <2>2
  <1>5. 0 \in T
    <2>1. N - 0 = N
      BY <1>1
    <2>2. QED  BY <1>2, <1>4, <2>1
  <1>6. ASSUME NEW d \in Nat, d \in T PROVE d + 1 \in T
    <2>1. SUFFICES ASSUME d + 1 <= N
                   PROVE  Measure[N - (d + 1)] \in Nat /\ Measure[N - (d + 1)] <= Length
      OBVIOUS
    <2>2. PICK j \in 1 .. N : j = N - d /\ j - 1 = N - (d + 1)
      BY <1>1, <2>1
    <2>3. Measure[j] \in Nat /\ Measure[j] <= Length
      BY <1>1, <1>6, <2>1, <2>2
    <2>4. PICK a \in Nat, b \in Nat : Measure[j - 1] = a /\ Measure[j] = a + b + 1
      BY <1>3
    <2>5. a <= Length
      BY <1>4, <2>3, <2>4
    <2>6. QED  BY <2>2, <2>4, <2>5
  <1>7. Nat \subseteq T
    <2> HIDE DEF T
    <2>1. QED  BY <1>5, <1>6, Induction
  <1>8. PICK d \in Nat : d = N - k /\ d <= N /\ N - d = k
    BY <1>1 DEF N
  <1>9. QED  BY <1>4, <1>7, <1>8

\* So is a part of a node's.
LEMMA PrintedUp ==
    ASSUME NEW e \in Entry, NEW k \in 1 .. 5
    PROVE  Printed(e, k) <= Printed(e, 5) /\ Printed(e, 5) \in Nat
  <1>1. \A j \in 0 .. 5 : Printed(e, j) \in Nat
    BY PrintedLength
  <1>2. \A j \in 1 .. 5 : Pieces(e)[j] \in Nat
    BY PieceLength
  <1>3. /\ Printed(e, 2) = Printed(e, 1) + Pieces(e)[2]
        /\ Printed(e, 3) = Printed(e, 2) + Pieces(e)[3]
        /\ Printed(e, 4) = Printed(e, 3) + Pieces(e)[4]
        /\ Printed(e, 5) = Printed(e, 4) + Pieces(e)[5]
    <2>1. /\ 2 - 1 = 1 /\ 3 - 1 = 2 /\ 4 - 1 = 3 /\ 5 - 1 = 4
          /\ {2, 3, 4, 5} \subseteq 1 .. 5
      OBVIOUS
    <2>2. \A j \in 1 .. 5 : Printed(e, j) = Printed(e, j - 1) + Pieces(e)[j]
      BY PrintedLength
    <2>3. QED  BY <2>1, <2>2
  <1>4. PICK a \in Nat, b \in Nat, c \in Nat, d \in Nat, f \in Nat :
            /\ a = Printed(e, 1) /\ b = Printed(e, 2) /\ c = Printed(e, 3)
            /\ d = Printed(e, 4) /\ f = Printed(e, 5)
    BY <1>1
  <1>5. a <= f /\ b <= f /\ c <= f /\ d <= f
    BY <1>2, <1>3, <1>4
  <1>6. k \in {1, 2, 3, 4, 5}
    OBVIOUS
  <1>7. QED  BY <1>4, <1>5, <1>6

\* An identifier the serializer has no text for, and no assertion that says so.
Unprintable == ~assertions /\ \E k \in 1 .. Len(nodes) : nodes[k].opaque

\* A buffer is given up only if the text does not fit it.
Needed ==
    /\ pc = "grow" => bufsize <= Length \/ Unprintable
    /\ pc = "no_memory" => MaxMemory < 2 * Length \/ Unprintable
    /\ bufsize = InitialSize \/ bufsize <= 2 * Length \/ Unprintable

\* Whatever step is made.
LEMMA NeededStep == Inv /\ Filled /\ Needed /\ [Next]_vars => Needed'
  <1> SUFFICES ASSUME Inv, Filled, Needed, [Next]_vars
               PROVE  Needed'
    OBVIOUS
  <1>t. /\ TypeOK /\ Progress /\ InBounds /\ nodes \in Lists /\ Len(nodes) \in Nat
        /\ Length \in Nat /\ bufsize \in Nat /\ offset \in Nat /\ local \in Nat
        /\ MaxMemory \in Nat /\ InitialSize \in Nat
    BY ListEntry, MeasureBelow, SerializerAssumption DEF Inv, TypeOK
  <1>m. UNCHANGED <<nodes, assertions>> => Length' = Length /\ Unprintable' = Unprintable
    BY DEF Measure, Measures, Length, Unprintable
  <1>g. UNCHANGED <<nodes, assertions>>
    BY DEF Next, PrintHeader, PrintPiece, Opaque, NodeDone, PrintNewline, Grow, WriteFile,
           vars, given
  <1> HIDE DEF Length, Unprintable
  <1> USE DEF Step, given
  <1>s. ASSUME bufsize' = bufsize, pc' # "no_memory",
               pc' = "grow" => bufsize <= Length \/ Unprintable
        PROVE  Needed'
    BY <1>m, <1>g, <1>s DEF Needed
  <1>1. CASE PrintHeader
    <2>1. ASSUME ~Fits(Header, offset, bufsize) PROVE bufsize <= Length
      <3>1. Header <= Length /\ Header \in Nat
        <4>1. Measure[0] = Header /\ 0 \in 0 .. Len(nodes)
          BY <1>t, MeasureFunction
        <4>2. QED  BY <1>t, <4>1, MeasureBelow
      <3>2. offset = 0
        BY <1>1, <1>t DEF PrintHeader, Progress
      <3>3. QED  BY <1>t, <2>1, <3>1, <3>2 DEF Fits
    <2>2. QED  BY <1>1, <1>s, <2>1 DEF PrintHeader
  <1>2. CASE PrintPiece
    <2>1. pc = "node" /\ at \in 1 .. Len(nodes) /\ piece \in 1 .. 5
      BY <1>2, <1>t DEF PrintPiece, TypeOK
    <2> DEFINE length == Pieces(nodes[at])[piece]
               used == bufsize - offset
    <2>2. ASSUME ~Fits(length, local, used) PROVE bufsize <= Length
      <3>1. nodes[at] \in Entry
        BY <1>t, <2>1, ListEntry
      <3>2. PICK a \in Nat, b \in Nat : a = length /\ b = Printed(nodes[at], piece - 1)
        <4>1. length \in Nat
          BY <2>1, <3>1, PieceLength
        <4>2. piece - 1 \in 0 .. 5
          BY <2>1
        <4>3. Printed(nodes[at], piece - 1) \in Nat
          BY <3>1, <4>2, PrintedLength
        <4>4. QED  BY <4>1, <4>3
      <3>3. Printed(nodes[at], piece) = b + a
        BY <2>1, <3>1, <3>2, PrintedLength
      <3>4. Printed(nodes[at], piece) <= Printed(nodes[at], 5) /\ Printed(nodes[at], 5) \in Nat
        BY <2>1, <3>1, PrintedUp
      <3>5. PICK c \in Nat : c = Measure[at - 1] /\ Measure[at] = c + Printed(nodes[at], 5) + 1
        BY <1>t, <2>1, MeasureFunction
      <3>6. Measure[at] <= Length /\ Measure[at] \in Nat
        BY <1>t, <2>1, MeasureBelow
      <3>7. offset = c /\ local = b
        BY <2>1, <3>2, <3>5 DEF Filled
      <3>8. a >= bufsize - c - b
        <4>1. ~(a < used - local)
          BY <2>2, <3>2 DEF Fits
        <4> HIDE DEF length
        <4>2. QED  BY <1>t, <3>7, <4>1
      <3>9. PICK e \in Nat : e = Printed(nodes[at], 5)
        BY <3>4
      <3>10. b + a <= e /\ c + e + 1 <= Length
        BY <3>3, <3>4, <3>5, <3>6, <3>9
      <3>11. QED  BY <1>t, <3>8, <3>10
    <2>3. QED  BY <1>2, <1>s, <2>2 DEF PrintPiece
  <1>3. CASE Opaque
    <2>1. pc = "node" /\ at \in 1 .. Len(nodes) /\ nodes[at].opaque
      BY <1>3, <1>t DEF Opaque, TypeOK
    <2>2. pc' = "grow" => Unprintable
      BY <1>3, <2>1 DEF Opaque, Unprintable
    <2>3. QED  BY <1>3, <1>s, <2>2 DEF Opaque
  <1>4. CASE NodeDone
    BY <1>4, <1>s DEF NodeDone
  <1>5. CASE PrintNewline
    <2>1. ASSUME ~Fits(1, offset, bufsize) PROVE bufsize <= Length
      <3>1. pc = "newline" /\ at \in 1 .. Len(nodes)
        BY <1>5, <1>t DEF PrintNewline, TypeOK, Progress
      <3>2. Measure[at] = offset + 1
        BY <1>t, <3>1, MeasureFunction DEF Filled
      <3>3. Measure[at] <= Length
        BY <1>t, <3>1, MeasureBelow
      <3>4. QED  BY <1>t, <2>1, <3>2, <3>3 DEF Fits
    <2>2. QED  BY <1>5, <1>s, <2>1 DEF PrintNewline
  <1>6. CASE Grow
    <2>1. bufsize <= Length \/ Unprintable
      BY <1>6 DEF Grow, Needed
    <2>2. CASE 2 * bufsize <= MaxMemory
      <3>1. bufsize' = 2 * bufsize /\ pc' = "header"
        BY <1>6, <2>2 DEF Grow
      <3>2. 2 * bufsize <= 2 * Length \/ Unprintable
        BY <1>t, <2>1
      <3>3. QED  BY <1>m, <1>g, <3>1, <3>2 DEF Needed
    <2>3. CASE ~(2 * bufsize <= MaxMemory)
      <3>1. bufsize' = bufsize /\ pc' = "no_memory"
        BY <1>6, <2>3 DEF Grow
      <3>2. MaxMemory < 2 * Length \/ Unprintable
        BY <1>t, <2>1, <2>3
      <3>3. QED  BY <1>m, <1>g, <3>1, <3>2 DEF Needed
    <2>4. QED  BY <2>2, <2>3
  <1>7. CASE WriteFile
    BY <1>7, <1>s DEF WriteFile
  <1>8. CASE UNCHANGED vars
    BY <1>8, <1>m DEF vars, Needed
  <1>9. QED
    BY <1>1, <1>2, <1>3, <1>4, <1>5, <1>6, <1>7, <1>8 DEF Next

\* The save of a list fails for want of memory only if twice its text is more
\* than there is, and no buffer is ever more than twice as large as the text;
\* but for an identifier without a text, which takes all the memory there is if
\* assertions are off.
THEOREM MemoryAsNeeded == Spec => []Needed
  <1>1. Init => Needed
    BY DEF Init, Needed
  <1>2. Init => Filled
    BY DEF Init, Filled
  <1>3. QED
    BY <1>1, <1>2, InvInit, InvStep, FilledStep, NeededStep, PTL DEF Spec

-----------------------------------------------------------------------------
(* How long it takes. *)

\* The steps one buffer still takes at most: seven for a node.
Rest ==
    CASE pc = "header"            -> 7 * Len(nodes) + 2
      [] pc = "node"              -> 7 * (Len(nodes) - at) + (6 - piece) + 3
      [] pc = "newline"           -> 7 * (Len(nodes) - at) + 2
      [] pc \in {"grow", "write"} -> 1
      [] OTHER                    -> 0

\* A step comes closer to the end of the buffer, or takes one twice as large.
Ahead ==
    \/ bufsize' = bufsize /\ Rest' < Rest
    \/ bufsize' = 2 * bufsize /\ bufsize' <= MaxMemory

LEMMA RestTyped == Inv => Rest \in Nat
  <1>1. SUFFICES ASSUME Inv PROVE Rest \in Nat
    OBVIOUS
  <1>2. PICK n \in Nat : n = Len(nodes)
    BY <1>1, ListEntry DEF Inv, TypeOK
  <1>3. at \in 1 .. n + 1 /\ piece \in 1 .. 6 /\ (pc \in {"node", "newline"} => at <= n)
    BY <1>1, <1>2 DEF Inv, TypeOK, Progress
  <1>4. QED
    BY <1>2, <1>3 DEF Rest

\* Whatever step is made.
LEMMA StepAhead == Inv /\ Next => Ahead
  <1> SUFFICES ASSUME Inv, Next PROVE Ahead
    OBVIOUS
  <1> USE DEF Step, given
  <1>1. PICK n \in Nat : n = Len(nodes)
    BY ListEntry DEF Inv, TypeOK
  <1>2. /\ at \in 1 .. n + 1 /\ piece \in 1 .. 6 /\ (pc \in {"node", "newline"} => at <= n)
        /\ nodes = << >> <=> n = 0
        /\ pc = "header" => at = 1 /\ piece = 1
    BY <1>1, ListEntry DEF Inv, TypeOK, Progress
  <1>3. CASE PrintHeader
    <2>1. /\ pc = "header" /\ UNCHANGED <<nodes, bufsize, at, piece>>
          /\ \/ pc' = "grow" \/ (pc' = "write" /\ n = 0) \/ (pc' = "node" /\ n # 0)
      BY <1>2, <1>3 DEF PrintHeader
    <2>2. QED  BY <1>1, <1>2, <2>1 DEF Ahead, Rest
  <1>4. CASE PrintPiece
    <2>1. /\ pc = "node" /\ piece <= 5 /\ UNCHANGED <<nodes, bufsize, at>>
          /\ pc' = "grow" \/ (pc' = "node" /\ piece' = piece + 1)
      BY <1>4 DEF PrintPiece
    <2>2. Rest = 7 * (n - at) + (6 - piece) + 3 /\ at <= n
      BY <1>1, <1>2, <2>1 DEF Rest
    <2>3. Rest' = 1 \/ Rest' = 7 * (n - at) + (6 - (piece + 1)) + 3
      BY <1>1, <2>1 DEF Rest
    <2>4. QED  BY <1>1, <1>2, <2>1, <2>2, <2>3 DEF Ahead
  <1>5. CASE Opaque
    <2>1. /\ pc = "node" /\ piece = 4 /\ UNCHANGED <<nodes, bufsize>>
          /\ pc' \in {"grow", "assert_failed"}
      BY <1>5 DEF Opaque
    <2>2. QED  BY <1>1, <1>2, <2>1 DEF Ahead, Rest
  <1>6. CASE NodeDone
    <2>1. pc = "node" /\ piece = 6 /\ pc' = "newline" /\ UNCHANGED <<nodes, bufsize, at>>
      BY <1>6 DEF NodeDone
    <2>2. QED  BY <1>1, <1>2, <2>1 DEF Ahead, Rest
  <1>7. CASE PrintNewline
    <2>1. /\ pc = "newline" /\ UNCHANGED <<nodes, bufsize>>
          /\ \/ pc' = "grow" \/ (pc' = "write" /\ at = n)
             \/ (pc' = "node" /\ at # n /\ at' = at + 1 /\ piece' = 1)
      BY <1>1, <1>7 DEF PrintNewline
    <2>2. QED  BY <1>1, <1>2, <2>1 DEF Ahead, Rest
  <1>8. CASE Grow
    <2>1. \/ bufsize' = 2 * bufsize /\ bufsize' <= MaxMemory
          \/ pc = "grow" /\ pc' = "no_memory" /\ bufsize' = bufsize
      BY <1>8 DEF Grow
    <2>2. QED  BY <2>1 DEF Ahead, Rest
  <1>9. CASE WriteFile
    <2>1. pc = "write" /\ pc' \in {"saved", "short_write"} /\ bufsize' = bufsize
      BY <1>9 DEF WriteFile
    <2>2. QED  BY <2>1 DEF Ahead, Rest
  <1>10. QED
    BY <1>3, <1>4, <1>5, <1>6, <1>7, <1>8, <1>9 DEF Next

\* A list of n nodes is printed or given up within 7 n + 2 steps a buffer, and
\* each buffer behind the first is twice the one before and no more than there
\* is memory: the retries of telegraf_serialize_nodes_to_file come to an end.
THEOREM RetriesEnd == Spec => [](Rest \in Nat) /\ [][Ahead]_vars
  <1>1. Inv /\ [Next]_vars => [Ahead]_vars
    BY StepAhead
  <1>2. QED
    BY <1>1, RestTyped, InvInit, InvStep, PTL DEF Spec
=============================================================================
