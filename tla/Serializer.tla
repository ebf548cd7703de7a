----------------------------- MODULE Serializer -----------------------------
(***************************************************************************)
(* telegraf_serialize_nodes_to_file: the collected nodes are printed into  *)
(* one buffer, from the start again with a buffer of twice the size        *)
(* whenever a piece does not fit, and written to the file at once.  Each   *)
(* safe_snprintf is a step.  Of the text only lengths matter.              *)
(***************************************************************************)
EXTENDS Naturals, Sequences

CONSTANTS
    Lists,        \* the lists that may be saved
    InitialSize,  \* SERIALIZER_TO_FILE_INITIAL_MEMORY
    MaxMemory     \* the largest buffer realloc has room for

\* A collected node: the lengths of its name, its namespace index and its
\* identifier in print; the identifier is a GUID or a byte string.
Entry == [name : Nat, namespace : Nat, identifier : Nat, opaque : BOOLEAN]

ASSUME SerializerAssumption ==
    /\ Lists \subseteq Seq(Entry)
    /\ InitialSize \in Nat \ {0}
    /\ MaxMemory \in Nat /\ InitialSize <= MaxMemory

VARIABLES
    pc,         \* "header", "node", "newline", "grow", "write", or the outcome
    nodes,      \* the list
    assertions, \* assert is compiled in, as it is in a debug build
    bufsize,
    offset,     \* of telegraf_serialize_nodes
    local,      \* of telegraf_serialize_node, which counts from there
    at,         \* the node being printed, and the piece of it, 1-based
    piece,
    printed,    \* pieces in the buffer
    file        \* pieces in the file

position == <<offset, local, at, piece, printed>>
given == <<nodes, assertions>>
vars == <<pc, nodes, assertions, bufsize, offset, local, at, piece, printed, file>>

\* "#GENERATED NODES" and its newline.
Header == 17

\* The five lines of a node: the section, name, namespace, identifier_type and
\* identifier, with what is around the values.
Pieces(e) == <<23, 10 + e.name, 15 + e.namespace, 22, 16 + e.identifier>>

Ended == {"saved", "short_write", "no_memory", "assert_failed"}

TypeOK ==
    /\ pc \in {"header", "node", "newline", "grow", "write"} \cup Ended
    /\ nodes \in Lists
    /\ assertions \in BOOLEAN
    /\ bufsize \in Nat \ {0}
    /\ offset \in Nat /\ local \in Nat
    /\ at \in 1 .. Len(nodes) + 1
    /\ pc = "node" => at <= Len(nodes)
    /\ piece \in 1 .. 6
    /\ printed \in Nat /\ file \in Nat

Init ==
    /\ pc = "header"
    /\ nodes \in Lists
    /\ assertions \in BOOLEAN
    /\ bufsize = InitialSize
    /\ offset = 0 /\ local = 0 /\ at = 1 /\ piece = 1 /\ printed = 0
    /\ file = 0

-----------------------------------------------------------------------------
\* Mutant: the place for the terminating zero is forgotten.
Fits_NoTerminator(length, used, size) == length <= size - used

\* safe_snprintf: a text of `length` characters and its terminating zero fit
\* behind the `used` ones.
Fits(length, used, size) == length < size - used

Step(next) == pc' = next

PrintHeader ==
    /\ pc = "header"
    /\ IF Fits(Header, offset, bufsize)
         THEN /\ offset' = offset + Header
              /\ printed' = printed + 1
              /\ Step(IF nodes = << >> THEN "write" ELSE "node")
         ELSE Step("grow") /\ UNCHANGED <<offset, printed>>
    /\ UNCHANGED <<given, bufsize, local, at, piece, file>>

\* Mutant: the node is given the size of the whole buffer.
PrintPiece_WholeSize ==
    /\ pc = "node" /\ piece <= 5
    /\ piece > 3 => ~nodes[at].opaque
    /\ IF Fits(Pieces(nodes[at])[piece], local, bufsize)
         THEN /\ local' = local + Pieces(nodes[at])[piece]
              /\ printed' = printed + 1
              /\ piece' = piece + 1
              /\ UNCHANGED pc
         ELSE Step("grow") /\ UNCHANGED <<local, printed, piece>>
    /\ UNCHANGED <<given, bufsize, offset, at, file>>

\* A node is printed into what is left of the buffer.
PrintPiece ==
    /\ pc = "node" /\ piece <= 5
    /\ piece > 3 => ~nodes[at].opaque
    /\ IF Fits(Pieces(nodes[at])[piece], local, bufsize - offset)
         THEN /\ local' = local + Pieces(nodes[at])[piece]
              /\ printed' = printed + 1
              /\ piece' = piece + 1
              /\ UNCHANGED pc
         ELSE Step("grow") /\ UNCHANGED <<local, printed, piece>>
    /\ UNCHANGED <<given, bufsize, offset, at, file>>

\* "not implemented": with assertions off it looks as if the text did not fit.
Opaque ==
    /\ pc = "node" /\ piece = 4
    /\ nodes[at].opaque
    /\ Step(IF assertions THEN "assert_failed" ELSE "grow")
    /\ UNCHANGED <<given, bufsize, position, file>>

NodeDone ==
    /\ pc = "node" /\ piece = 6
    /\ offset' = offset + local
    /\ local' = 0
    /\ Step("newline")
    /\ UNCHANGED <<given, bufsize, at, piece, printed, file>>

PrintNewline ==
    /\ pc = "newline"
    /\ IF Fits(1, offset, bufsize)
         THEN /\ offset' = offset + 1
              /\ printed' = printed + 1
              /\ at' = at + 1
              /\ piece' = 1
              /\ Step(IF at = Len(nodes) THEN "write" ELSE "node")
         ELSE Step("grow") /\ UNCHANGED <<offset, printed, at, piece>>
    /\ UNCHANGED <<given, bufsize, local, file>>

\* Mutant: what is in the buffer is kept and appended to.
Grow_KeepsText ==
    /\ pc = "grow"
    /\ IF 2 * bufsize <= MaxMemory
         THEN /\ bufsize' = 2 * bufsize
              /\ Step("header")
              /\ offset' = offset /\ local' = 0 /\ at' = 1 /\ piece' = 1
              /\ printed' = printed
         ELSE Step("no_memory") /\ UNCHANGED <<bufsize, position>>
    /\ UNCHANGED <<given, file>>

\* Mutant: the buffer is not replaced by a larger one.
Grow_SameSize ==
    /\ pc = "grow"
    /\ Step("header")
    /\ offset' = 0 /\ local' = 0 /\ at' = 1 /\ piece' = 1 /\ printed' = 0
    /\ UNCHANGED <<given, bufsize, file>>

\* Twice the size, and the whole list is printed again.
Grow ==
    /\ pc = "grow"
    /\ IF 2 * bufsize <= MaxMemory
         THEN /\ bufsize' = 2 * bufsize
              /\ Step("header")
              /\ offset' = 0 /\ local' = 0 /\ at' = 1 /\ piece' = 1 /\ printed' = 0
         ELSE Step("no_memory") /\ UNCHANGED <<bufsize, position>>
    /\ UNCHANGED <<given, file>>

\* Mutant: a short write is written again from the start.
WriteFile_Retries ==
    /\ pc = "write"
    /\ \E n \in 0 .. printed :
           /\ file' = file + n
           /\ Step(IF n = printed THEN "saved" ELSE "write")
    /\ UNCHANGED <<given, bufsize, position>>

\* fwrite: as much as the disk has room for.
WriteFile ==
    /\ pc = "write"
    /\ \E n \in 0 .. printed :
           /\ file' = n
           /\ Step(IF n = printed THEN "saved" ELSE "short_write")
    /\ UNCHANGED <<given, bufsize, position>>

Next ==
    \/ PrintHeader \/ PrintPiece \/ Opaque \/ NodeDone \/ PrintNewline
    \/ Grow \/ WriteFile

\* A loop that waits for nothing.
Spec == Init /\ [][Next]_vars /\ WF_vars(Next)

-----------------------------------------------------------------------------
(* Properties. *)

\* What safe_snprintf is given is a place inside the buffer and a size that
\* did not wrap around (utils.c:8): there is always room for a terminating
\* zero, in the node's part of the buffer too.
InBounds == offset + local < bufsize

\* The lengths of the text up to the end.
Length ==
    LET length[k \in 0 .. Len(nodes)] ==
            IF k = 0 THEN Header
            ELSE LET p == Pieces(nodes[k])
                 IN  length[k - 1] + p[1] + p[2] + p[3] + p[4] + p[5] + 1
    IN  length[Len(nodes)]

\* What is written is the text of the whole list, none of it twice, whatever
\* number of buffers it took.
WholeText ==
    pc = "write" => printed = 1 + 6 * Len(nodes) /\ offset = Length

\* The retries end, with assertions off also for an id that cannot be printed.
Serialized == <>(pc \in Ended)

\* Seen from the save command, the retries do not show: one write, or none.
Written ==
    INSTANCE FileText WITH
        Whole <- Nat,
        text <- 1 + 6 * Len(nodes),
        outcome <- CASE pc = "saved" -> "saved"
                     [] pc \in Ended \ {"saved"} -> "failed"
                     [] OTHER -> "pending"

WritesOnce == Written!Spec
=============================================================================
