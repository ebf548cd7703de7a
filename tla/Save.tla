-------------------------------- MODULE Save --------------------------------
(***************************************************************************)
(* `save <idx>` and `save <start>-<end>` (mirua_save): which rows of the   *)
(* current listing are collected, what the operator is asked about an      *)
(* existing file, and what ends up in it.                                  *)
(*                                                                         *)
(* Each row costs three reads of the server (node class, data type, value) *)
(* and a structure two more; the server and the link may change between    *)
(* any two of them.  The walk over a structure, module StructureTree, is   *)
(* what happens between two steps: what it finds is what the server has    *)
(* below the row if nothing changes meanwhile, and anything found below it *)
(* on the servers seen otherwise.                                          *)
(* Prompt and command line share stdin: a queue of typed lines, each one   *)
(* taken by whichever reader comes next.                                   *)
(***************************************************************************)
EXTENDS Naturals, Sequences, FiniteSets, SequencesExt

CONSTANTS
    Node,        \* the nodes of the server
    NullId,      \* the id of an array element: no node of a server has it
    OpaqueIds,   \* the nodes identified by a GUID or a byte string
    Servers,     \* the servers seen over time: [Node -> Attribute]
    Listings,    \* what the other commands can leave in currentChildren
    Line,        \* the lines an operator can type
    Name,        \* file names
    OutputPath,  \* ctx->config.output_path
    Unopenable,  \* names fopen refuses to write
    Reliable,    \* the link does not drop
    MaxFound,    \* bound: nodes found by a walk under which something changes
    MaxTyped,    \* bound: lines typed ahead
    MaxSaves     \* bound: save commands per behaviour

\* A node as the reads see it: is it a variable, the 32 bits the filter takes
\* from its data type id, is its value an extension object, the value nodes
\* found below it when it is, and the nodes that its references and the data
\* types of its elements lead to.
Attribute == [variable : BOOLEAN, type : Nat, structure : BOOLEAN,
              leaves : Seq(Node), links : SUBSET Node]

\* A set of nodes that no reference of any server leads out of.
Closed(S) == \A s \in Servers, m \in S : s[m].links \subseteq S

\* What can be found at a node or below it, when the server may change on the
\* way (StructureTree: FoundBelowRoot).
Below == [n \in Node |-> {m \in Node : \A S \in SUBSET Node : n \in S /\ Closed(S) => m \in S}]

\* A line: the answer its first character gives, the arguments of the save
\* command it spells (none if it is another command), the name it spells.
LineShape == [first : {"o", "a", "n", "other", "newline"}, args : Seq(Nat), name : Name]

ASSUME SaveAssumption ==
    /\ NullId \notin Node
    /\ OpaqueIds \subseteq Node
    /\ Servers \subseteq [Node -> Attribute]
    /\ \A s \in Servers, n \in Node : Range(s[n].leaves) \subseteq Below[n]
    /\ Listings \subseteq Seq(Node)
    /\ Line \subseteq LineShape
    /\ \A l \in Line : Len(l.args) <= 2
    /\ OutputPath \in Name
    /\ Unopenable \subseteq Name
    /\ Reliable \in BOOLEAN
    /\ MaxFound \in Nat
    /\ MaxTyped \in Nat
    /\ MaxSaves \in Nat

VARIABLES
    pc,        \* the step of mirua_save, or how the program ended
    rows,      \* ctx->currentChildren
    args,      \* the arguments of the command being executed
    row,       \* the row being read, 1-based
    subset,    \* the nodes collected
    capacity,  \* subset.capacity
    filename,  \* the file to be written
    mode,      \* "w" or "a"
    files,     \* the files that exist, each a sequence of entries
    asked,     \* the operator was asked about `filename`
    stdin,     \* typed lines not read yet
    eof,       \* stdin is closed
    saves,     \* save commands so far, against MaxSaves
    server, link,
    disturbed, \* the server or the link changed under the command (history)
    steady     \* neither did since the walk under way began (history)

collection == <<row, subset, capacity>>
output == <<filename, mode, asked>>
console == <<stdin, eof>>
world == <<server, link, disturbed, steady>>
vars == <<pc, rows, args, row, subset, capacity, filename, mode, files, asked,
          stdin, eof, saves, server, link, disturbed, steady>>

Header == "#GENERATED NODES"
NodeId == Node \cup {NullId}
Entry == NodeId \cup {Header}

\* Where the program cannot go on: a doubled capacity of 0, a row that was
\* never listed, a read that contradicts an earlier one, a walk that overflows
\* the stack or clears a name twice (StructureTree), a failed assertion.
Ended == {"heap_error", "bad_row", "null_tree", "walk_failed", "assert_failed", "exited"}
Reading == {"class", "type", "value", "structure", "tree"}
Asking == {"prompt", "ask", "swallow", "new_name"}

TypeOK ==
    /\ pc \in Reading \cup Asking \cup {"check", "open", "write"} \cup Ended
    /\ rows \in Listings
    /\ args \in Seq(Nat) /\ Len(args) <= 2
    /\ row \in Nat
    /\ subset \in Seq(NodeId)
    /\ capacity \in Nat
    /\ filename \in Name
    /\ mode \in {"w", "a"}
    /\ DOMAIN files \subseteq Name
    /\ \A f \in DOMAIN files : files[f] \in Seq(Entry)
    /\ asked \in BOOLEAN
    /\ stdin \in Seq(Line) /\ Len(stdin) <= MaxTyped
    /\ eof \in BOOLEAN
    /\ saves \in 0 .. MaxSaves
    /\ server \in Servers
    /\ link \in BOOLEAN
    /\ disturbed \in BOOLEAN
    /\ steady \in BOOLEAN

Init ==
    /\ pc = "prompt"
    /\ rows \in Listings
    /\ args = << >>
    /\ row = 0
    /\ subset = << >>
    /\ capacity = 0
    /\ filename = OutputPath
    /\ mode = "w"
    /\ files = [f \in {} |-> << >>]
    /\ asked = FALSE
    /\ stdin = << >>
    /\ eof = FALSE
    /\ saves = 0
    /\ server \in Servers
    /\ link \in BOOLEAN /\ (Reliable => link)
    /\ disturbed = FALSE
    /\ steady = TRUE

-----------------------------------------------------------------------------
(* Arguments *)

IsRange == Len(args) = 2

\* Mutant: one row past the end of the range.
LastRow_PastEnd == IF IsRange THEN args[2] + 2 ELSE args[1] + 1

\* `save <idx>` reads one row, whatever the listing holds.
LastRow == IF IsRange THEN args[2] + 1 ELSE args[1] + 1

\* Mutant: the end of the range taken as exclusive.
RangeSize_ExclusiveEnd(start, end, size) ==
    IF end >= start /\ end < size THEN end - start ELSE 0

\* range_size: a range that leaves the listing, or runs backwards, is 0.
RangeSize(start, end, size) ==
    IF end >= start /\ end < size THEN end - start + 1 ELSE 0

-----------------------------------------------------------------------------
(* main: the prompt *)

Step(next) == pc' = next

\* A line read by the command line: a save, or a command that may relist.
ReadCommand ==
    /\ pc = "prompt"
    /\ stdin # << >>
    /\ stdin' = Tail(stdin)
    /\ LET line == Head(stdin)
       IN  IF line.args = << >>
             THEN /\ rows' \in Listings
                  /\ UNCHANGED <<pc, args, collection, output, saves, disturbed>>
             ELSE /\ saves < MaxSaves
                  /\ saves' = saves + 1
                  /\ args' = line.args
                  /\ row' = line.args[1] + 1
                  /\ subset' = << >>
                  /\ capacity' = IF Len(line.args) = 2
                                   THEN RangeSize(line.args[1], line.args[2], Len(rows))
                                   ELSE 1
                  /\ filename' = OutputPath
                  /\ mode' = "w"
                  /\ asked' = FALSE
                  /\ disturbed' = ~link
                  /\ Step("class")
                  /\ UNCHANGED rows
    /\ UNCHANGED <<files, eof, server, link, steady>>

EndOfInput ==
    /\ pc = "prompt"
    /\ stdin = << >> /\ eof
    /\ Step("exited")
    /\ UNCHANGED <<rows, args, collection, output, files, console, saves, world>>

-----------------------------------------------------------------------------
(* Collecting the rows *)

Current == rows[row]

\* What is read of a node: nothing without the link.
IsVariable(n) == link /\ server[n].variable
IsStructure(n) == link /\ server[n].structure

\* mirua_filter_is_numeric_or_bool: the data type id is compared with the
\* UA_DATATYPEKIND numbers 0 .. 10; a failed read leaves it 0.
TypeId(n) == IF link THEN server[n].type ELSE 0
\* Mutant: some kinds forgotten.
is_numeric_or_bool_Short(n) == TypeId(n) \in 0 .. 6

is_numeric_or_bool(n) == TypeId(n) \in 0 .. 10

\* A range goes on with the next row; a single row ends the command.
SkipRow ==
    IF IsRange
      THEN row' = row + 1 /\ Step("class")
      ELSE Step("prompt") /\ UNCHANGED row

\* Mutant: the listing's size forgotten.
RowsDone_RangeOnly ==
    /\ pc = "class"
    /\ IsRange
    /\ row > LastRow
    /\ Step("check")
    /\ UNCHANGED <<rows, args, collection, output, files, console, saves, world>>

\* The rows are done: past the range, or past the listing.
RowsDone ==
    /\ pc = "class"
    /\ IsRange
    /\ row > LastRow \/ row > Len(rows)
    /\ Step("check")
    /\ UNCHANGED <<rows, args, collection, output, files, console, saves, world>>

\* `save <idx>` does not compare idx with the listing's size: what it reads
\* there is a cleared entry, skipped because it is no variable, or garbage.
RowOutOfListing ==
    /\ pc = "class"
    /\ ~IsRange
    /\ row > Len(rows)
    /\ pc' \in {"prompt", "bad_row"}
    /\ UNCHANGED <<rows, args, collection, output, files, console, saves, world>>

ReadClass ==
    /\ pc = "class"
    /\ row <= LastRow /\ row <= Len(rows)
    /\ IF IsVariable(Current)
         THEN Step("type") /\ UNCHANGED row
         ELSE SkipRow
    /\ UNCHANGED <<rows, args, subset, capacity, output, files, console, saves, world>>

Accept ==
    /\ pc = "type"
    /\ is_numeric_or_bool(Current)
    /\ Step("value")
    /\ UNCHANGED <<rows, args, collection, output, files, console, saves, world>>

Refuse ==
    /\ pc = "type"
    /\ ~is_numeric_or_bool(Current)
    /\ SkipRow
    /\ UNCHANGED <<rows, args, subset, capacity, output, files, console, saves, world>>

\* Mutant: a list that is exactly full is not doubled yet.
Doubled_TooLate(cap, size) == IF size > cap THEN 2 * cap ELSE cap

\* Before a node is appended to a list of `size` nodes: a full list is doubled.
Doubled(cap, size) == IF size >= cap THEN 2 * cap ELSE cap

\* The capacity after n nodes have been appended one by one.
Grown(cap, size, n) ==
    LET c[k \in 0 .. n] == IF k = 0 THEN cap ELSE Doubled(c[k - 1], size + k - 1)
    IN  c[n]

\* Append nodes to subset.  Doubling a capacity of 0 frees the list and fails.
Collect(nodes, cap) ==
    IF nodes # << >> /\ Doubled(cap, Len(subset)) = 0
      THEN Step("heap_error") /\ UNCHANGED <<row, subset, capacity>>
      ELSE /\ subset' = subset \o nodes
           /\ capacity' = Grown(cap, Len(subset), Len(nodes))
           /\ IF IsRange
                THEN row' = row + 1 /\ Step("class")
                ELSE UNCHANGED row /\ Step("check")

\* The list of a range was made with the command, the one of a single
\* structure has room for 8.
ListCapacity == IF IsRange THEN capacity ELSE 8

ReadValue ==
    /\ pc = "value"
    /\ IF IsStructure(Current)
         THEN Step("structure") /\ UNCHANGED <<row, subset, capacity>>
         ELSE Collect(<<Current>>, capacity)
    /\ UNCHANGED <<rows, args, output, files, console, saves, world>>

\* mirua_explore_structure reads the value again, and the walk begins.  If it is
\* no structure any more the warning has a %s without an argument: the program
\* ends there, or goes on with no tree and collects nothing.
ExploreStructure ==
    /\ pc = "structure"
    /\ \/ /\ IsStructure(Current)
          /\ Step("tree") /\ UNCHANGED <<row, subset, capacity>>
       \/ /\ ~IsStructure(Current)
          /\ \/ Step("null_tree") /\ UNCHANGED <<row, subset, capacity>>
             \/ Collect(<< >>, ListCapacity)
    /\ UNCHANGED <<rows, args, output, files, console, saves, world>>

\* What the walk may have found: as long as the reads agree, what the server has
\* below the row (StructureTree: CollectExact); otherwise any part of what it
\* ever had there, and, from a row turned into an array, elements without an id
\* (FoundBelowRoot, NullIdNeedsRootChange).
Walked ==
    IF steady THEN {server[Current].leaves}
              ELSE BoundedSeq(Below[Current] \cup {NullId}, MaxFound)

\* The end of the walk: the values found are appended, or it broke off.  Only
\* reads that contradict each other leave it without a root, which is not tested
\* (StructureTree: LostNeedsChange).
BuildTree ==
    /\ pc = "tree"
    /\ \/ \E found \in Walked : Collect(found, ListCapacity)
       \/ /\ Step("walk_failed") \/ (~steady /\ Step("null_tree"))
          /\ UNCHANGED <<row, subset, capacity>>
    /\ steady' = TRUE
    /\ UNCHANGED <<rows, args, output, files, console, saves, server, link, disturbed>>

-----------------------------------------------------------------------------
(* The file *)

\* fopen(filename, "r"): an existing file is asked about.
CheckFile ==
    /\ pc = "check"
    /\ Step(IF filename \in DOMAIN files THEN "ask" ELSE "open")
    /\ UNCHANGED <<rows, args, collection, output, files, console, saves, world>>

\* getchar, then everything up to a newline: pressing Enter alone leaves the
\* newline of the next line to be waited for.
Answer ==
    /\ pc = "ask"
    /\ stdin # << >>
    /\ stdin' = Tail(stdin)
    /\ asked' = TRUE
    /\ LET first == Head(stdin).first
       IN  /\ mode' = IF first = "a" THEN "a" ELSE "w"
           /\ Step(CASE first = "newline" -> "swallow"
                     [] first = "n" -> "new_name"
                     [] OTHER -> "open")
    /\ UNCHANGED <<rows, args, collection, filename, files, eof, saves, world>>

Swallow ==
    /\ pc = "swallow"
    /\ stdin # << >>
    /\ stdin' = Tail(stdin)
    /\ Step("open")
    /\ UNCHANGED <<rows, args, collection, output, files, eof, saves, world>>

\* At the end of the input the loop that looks for a newline never ends.
AnswerAtEof ==
    /\ pc \in {"ask", "swallow"}
    /\ stdin = << >> /\ eof
    /\ Step("swallow")
    /\ UNCHANGED <<rows, args, collection, output, files, console, saves, world>>

NewName ==
    /\ pc = "new_name"
    /\ \/ /\ stdin # << >>
          /\ stdin' = Tail(stdin)
          /\ filename' = Head(stdin).name
          /\ asked' = (filename' = filename)
       \/ /\ stdin = << >> /\ eof
          /\ UNCHANGED <<stdin, filename, asked>>
    /\ Step("open")
    /\ UNCHANGED <<rows, args, collection, mode, files, eof, saves, world>>

\* Mutant: the file is opened with "w" whatever was answered.
OpenFile_Truncating ==
    /\ pc = "open"
    /\ IF filename \in Unopenable
         THEN Step("prompt") /\ UNCHANGED files
         ELSE /\ files' = [f \in DOMAIN files \cup {filename} |->
                              IF f # filename THEN files[f] ELSE << >>]
              /\ Step("write")
    /\ UNCHANGED <<rows, args, collection, output, console, saves, world>>

\* fopen(filename, mode): "w" empties the file before anything is serialized.
OpenFile ==
    /\ pc = "open"
    /\ IF filename \in Unopenable
         THEN Step("prompt") /\ UNCHANGED files
         ELSE /\ files' = [f \in DOMAIN files \cup {filename} |->
                              IF f # filename THEN files[f]
                              ELSE IF mode = "a" /\ f \in DOMAIN files
                                     THEN files[f] ELSE << >>]
              /\ Step("write")
    /\ UNCHANGED <<rows, args, collection, output, console, saves, world>>

Serialized == <<Header>> \o subset

\* The whole list is serialized into one buffer, then written at once; a full
\* disk takes a part of it.  GUID and byte string ids are not implemented.
WriteFile ==
    /\ pc = "write"
    /\ IF \E i \in DOMAIN subset : subset[i] \in OpaqueIds
         THEN Step("assert_failed") /\ UNCHANGED files
         ELSE /\ \E k \in 0 .. Len(Serialized) :
                    files' = [files EXCEPT ![filename] = @ \o SubSeq(Serialized, 1, k)]
              /\ Step("prompt")
    /\ UNCHANGED <<rows, args, collection, output, console, saves, world>>

-----------------------------------------------------------------------------
(* The operator and the server, at any time *)

Type(line) ==
    /\ ~eof
    /\ Len(stdin) < MaxTyped
    /\ stdin' = Append(stdin, line)
    /\ UNCHANGED <<pc, rows, args, collection, output, files, eof, saves, world>>

CloseInput ==
    /\ ~eof
    /\ eof' = TRUE
    /\ UNCHANGED <<pc, rows, args, collection, output, files, stdin, saves, world>>

ServerChanges ==
    /\ server' \in Servers \ {server}
    /\ disturbed' = TRUE /\ steady' = (pc # "tree")
    /\ UNCHANGED <<pc, rows, args, collection, output, files, console, saves, link>>

FlipLink ==
    /\ ~Reliable
    /\ link' = ~link
    /\ disturbed' = TRUE /\ steady' = (pc # "tree")
    /\ UNCHANGED <<pc, rows, args, collection, output, files, console, saves, server>>

-----------------------------------------------------------------------------
Program ==
    \/ ReadCommand \/ EndOfInput
    \/ RowsDone \/ RowOutOfListing \/ ReadClass \/ Accept \/ Refuse
    \/ ReadValue \/ ExploreStructure \/ BuildTree
    \/ CheckFile \/ Answer \/ Swallow \/ AnswerAtEof \/ NewName
    \/ OpenFile \/ WriteFile

Environment ==
    \/ \E line \in Line : Type(line)
    \/ CloseInput \/ ServerChanges \/ FlipLink

Next == Program \/ Environment

\* The program is a single thread that keeps running; service calls return.
Spec == Init /\ [][Next]_vars /\ WF_vars(Program)

-----------------------------------------------------------------------------
(* Safety *)

\* A save command is being executed, or has ended the program.
Busy == pc \notin {"prompt", "exited"}

\* No element is ever written past the list: doubling it when it is full keeps
\* the capacity ahead of the size, whatever mix of rows and structure leaves is
\* appended, and whichever of the two lists it began as.
SubsetFits == Len(subset) <= capacity

\* The zero capacity that ends in a heap error comes only from a range that
\* starts inside the listing and runs past its end.
HeapErrorOnlyPastListing ==
    pc = "heap_error" =>
        IsRange /\ args[1] < Len(rows) /\ args[2] >= Len(rows)

\* What is written was asked for: a row of the range read so far, or, for a row
\* that was a structure on some server seen, a value found below it, or an array
\* element of a row that changed under the command.  A listing that moves on,
\* or a walk under which the server changes, never leaks into the file.
SubsetFromRange ==
    Busy =>
        \A k \in DOMAIN subset :
            \E i \in args[1] + 1 .. row :
                /\ i <= Len(rows)
                /\ IsRange => i <= args[2] + 1
                /\ \/ subset[k] = rows[i]
                   \/ /\ \E s \in Servers : s[rows[i]].structure
                      /\ \/ subset[k] \in Below[rows[i]]
                         \/ disturbed /\ subset[k] = NullId

\* Reference: the entries a save of rows first .. last stands for on a server
\* that stays as it is, in the order of the listing.
Selected(first, last) ==
    LET size == Len(rows)
        wanted == SubSeq(rows, first, IF last < size THEN last ELSE size)
        entries(n) == IF ~server[n].variable \/ server[n].type \notin 0 .. 10
                        THEN << >>
                        ELSE IF server[n].structure THEN server[n].leaves ELSE <<n>>
    IN  FlattenSeq([i \in DOMAIN wanted |-> entries(wanted[i])])

\* When neither the server nor the link changes under the command, exactly the
\* accepted rows are collected, each once and in order, structures as their
\* leaves.
SelectionExact ==
    ~disturbed /\ pc = "check" => subset = Selected(args[1] + 1, LastRow)

\* The contradicting reads that leave a command without a tree need a server
\* or a link that changes between them.
NoTreeLostUndisturbed == pc = "null_tree" => disturbed

\* Only the file being saved changes, and what a file held is still its
\* beginning unless it was opened for overwriting.
OldContentKept ==
    [][\A f \in DOMAIN files :
           /\ f \in DOMAIN files'
           /\ f # filename \/ mode = "a" \/ pc # "open" =>
                  IsPrefix(files[f], files'[f])]_vars

-----------------------------------------------------------------------------
(* Liveness *)

\* A save command ends, or waits for a line that was not typed: no order of
\* server changes and lines typed ahead keeps it busy.  At the end of the input
\* that wait is the loop over getchar, which AnswerIsOneLine is about.
Waiting == pc \in Asking /\ stdin = << >>

SaveReturns == pc \notin Asking \cup Ended ~> (pc \in {"prompt"} \cup Ended \/ Waiting)

-----------------------------------------------------------------------------
(* What messages, comments and assertions of the code say, and the code does *)
(* not do.                                                                   *)

\* "Not numeric or bool" (mirua_module.c:251): a refused node is neither.
\* Boolean .. Double are the data types ns=0;i=1 .. ns=0;i=11.
RefusedIsNotNumeric ==
    [][Refuse => server[Current].type \notin 1 .. 11]_vars

\* "Consume newline" (mirua_module.c:327): an answer takes one line of input.
AnswerIsOneLine == pc # "swallow"

\* "already exists. Overwrite (o), Append (a), or New name (n)?"
\* (mirua_module.c:325): no existing file is emptied unasked.
NoSilentOverwrite ==
    [][\A f \in DOMAIN files : ~IsPrefix(files[f], files'[f]) => asked]_vars
=============================================================================
