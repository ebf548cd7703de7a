# A TLA+ model of Clua

Clua is an interactive client for OPC UA servers: the operator connects,
walks the address space with `ls` and `cd`, changes a few settings, and saves
the nodes of a listing as a configuration for Telegraf. It is one thread in one
process; what makes it hard is not its own concurrency but the world around it:
a server whose address space and link change between the calls of one command,
an operator who types ahead on the stdin that prompt and questions share, and
C's ways of ending badly that only a long sequence of legal commands reaches.

This directory holds TLA+ modules for the parts of the program, TLC
configurations that check them on small instances, and proofs that TLAPS
checks for every instance.

    tlasany Session.tla                          parse a module
    tlc -workers 2 -config Save.cfg MCSave.tla   run a configuration
    tlapm SessionProofs.tla                      check the proofs of a module

## 1. The system

Paths are below `src/clua/`; plain line numbers are in `modules/mirua_module.c`.

| part | state | operations | correct when |
|---|---|---|---|
| session (`:474-771`) | client, `connected`, endpoint, `defaultRoot`, `currentNode`, `currentChildren`, state | `con`, `ls`, `ls <n>`, `ls <id>`, `cd <n>`, `cd ..`, `cd <id>`, `state` | flag, client and history agree; the rows listed are the rows of the current node |
| history (`:848-861`, `modules/mirua_types_internal.h:40`) | up to 50 node ids, a count; `currentNode` may share a buffer with the top one | add, go back | it is a bounded back-trail whose first entry is never lost; no freed id is read |
| save (`:209-378`) | the list being collected, its capacity, file name, mode | `save <n>`, `save <a>-<b>` and the dialogue about an existing file | the file gets what was asked for, in order, and keeps what it held unless told otherwise |
| structure tree (`:1967-2532`) | a tree of nodes with values, built by browsing; the C stack of the walk | explore, collect the values, destroy | the values found are those of the structure, and never from outside it; the walk ends |
| serializer (`modules/mirua_serialization.c`, `src/utils.c`) | a text buffer that is doubled until the text fits | nodes to file | nothing is written past the buffer; the file gets the whole text in one write, or none |
| settings and filters (`:392-472`, `:1367-1772`) | `MiruaConfig` | set by index and key, load from a file, filter a listing | a file that loads is what is set; the two filter parsers agree |
| lexer (`src/lexer.c`) | position in the text, the list of tokens and its capacity | text to tokens | no character lost or read twice; one end token, last; a command is a whole word |
| parser (`src/parser.c`) | position in the token list, statements so far | one sub-parser per command | no token lost or read twice; the value of a `set` is never run |
| ast (`src/ast.c`) | statements and their children, the trace text | build, print, free | the trace text fits its buffer |
| interpreter (`src/interpreter.c`) | the statement it is at | execute a statement in the normal or config state | each statement in the state the one before left, moving at most once |
| read-eval loop (`src/main.c`) | the line | read, parse, execute, free | every line is answered |
| printing (`modules/mirua_to_string.c`), `log.c`, `debug_buf.c` | none that others read | | |
| file helpers (`modules/file/`) | none | look for a directory at start | |

How they interact: `main` hands a line to lexer and parser, which writes the
AST into the debug buffer; the AST goes to the interpreter, which calls into the
session, save and settings; these call the open62541 client, synchronously.
`save` reads `currentChildren`, which browsing and the filter of the settings leave
behind, explores the structures among them, takes stdin from under the prompt
and hands its list to the serializer. The back-trail is shared by reference:
`cd ..` copies a history entry shallowly into `currentNode`.

What is hard here: several service calls inside one command with a server that
moves between them; state that outlives what it describes (`connected`, the
listing, a copied id); limits (history, lists that double, text buffers, a mask
of 32 bits, the stack); steps that fail half way after having already cleared or
truncated something; the order in which sub-parsers consume tokens.
`PROJECT.json` lists these hazards, each with its line and the properties that
watch it.

## 2. The modules

| module | models | checked by | proofs |
|---|---|---|---|
| `Session` | session and history | `MCSession`: Session, SessionAlreadyConnected | `SessionProofs` |
| `Trail` | what a history promises (abstract) | as the property `TrailKept` of Session | `SessionProofs` |
| `Save` | save, its dialogue, what reaches the file | `MCSave`: Save and three runs for findings | `SaveProofs` |
| `StructureTree` | exploring a structure and collecting its values | `MCStructureTree`: StructureTree | `StructureTreeProofs` |
| `Serializer` | the text buffer, its retries, the write | `MCSerializer`: Serializer | `SerializerProofs` |
| `FileText` | what a save is promised of the serializer (abstract) | as the property `WritesOnce` of Serializer | `SerializerProofs` |
| `Config` | settings, filters, config files | `MCConfig`: Config | `ConfigProofs` |
| `Lexer` | text to tokens | `MCLexer`: Lexer | `LexerProofs` |
| `CommandParser` | the parser on token kinds | `MCCommandParser`: CommandParser | `CommandParserProofs` |
| `AstText` | the length of the trace text of an AST | in Clua | |
| `Interpreter` | read-eval loop and both command tables, over the parser | in Clua | `CluaProofs` |
| `Clua` | interpreter and session composed: whole lines against a server | `MCClua`: Clua | `CluaProofs` |

`Clua` extends `Interpreter`, which instantiates `CommandParser` (all of it runs for
each line) and `AstText`, and instantiates `Session`: a statement and the session
command it calls are one step, the replies come later, and `ctx->state` is the
variable both share. `Session` is shown to implement `Trail`, `Serializer` to
implement `FileText`. `Lexer` names its token kinds from `CommandParser`, and its
`Handover` is what the parser's `Init` starts from (`ParserIsFed`). Two seams are stated,
not checked: what a walk of `Save` may find (`Walked`) is what `StructureTree` shows of
it, the leaves when nothing changes (`CollectExact`), and otherwise nodes from below the
root (`FoundBelowRoot`) and elements without an id (`NullIdNeedsRootChange`); and its
write is `FileText`'s.

### Session
A command that browses is two actions. The first does everything up to the
service call (what `mirua_navigate_down` clears, copies and puts into the
history), the second takes the answer (`ProbeDefaultRoot`, `Peek`,
`ExploreChildren`); `Reconfigure` and `FlipLink` may come between. `space` is
what the server would answer, already narrowed by the filter. `alias` is the
history slot whose string buffer `currentNode` shares after `cd ..`, `freed` the
slots whose buffer was freed through such a share: pointers reduced to what
tells a dangling entry from a good one. Three ends are undefined behaviour in
the code and final states in the model: `null_client` (a service call before
`con`), `heap_overflow` (the zeroed list of `ls <n>` and `ls <id>`, whose
capacity 0 is "doubled") and `use_after_free`. Reading such an id is taken to end
the program; nothing is claimed of what runs after it.

### Save
One action per read of the server, per row; the two ways of taking a structure
differ in the capacity they start from. `stdin` is a queue of lines, taken by
prompt, question and file name question alike; `getchar` and the loop after it
are `Answer` and `Swallow`. The filter's comparison is modelled with the
numbers the code compares. A list is doubled node by node, before each append, as
in the three loops of the code (`Doubled`, and `Grown` for a list of leaves): nothing
says that the result is enough. The walk over a structure is an interval: it begins
with `ExploreStructure` and ends with `BuildTree`, and between them the server and the
link may change. `steady` remembers whether they did. If not, the walk has found the
`leaves` the server has below the row. If so, it has found any list of nodes that can be
reached from the row over references of any of the servers (`Below`), the row itself
included, and of elements without an id; or it has lost its root. `links` are the
nodes a walk can go on to from a node: its references, and the data types of its
elements. A walk may also break off (`walk_failed`: the stack, or a name cleared
twice). The warning of `mirua_explore_structure` lacks its argument, so that the program
may end there or go on.

### StructureTree
The five reads of the root are steps, then one turn of a loop each: the elements
of an array, the browse of the HasComponent references, a reference (`AddField`,
which calls the walk again) and the return. `frames` is the C stack; the tree
is the list of its nodes in the order they are made, each with the position of its
parent, which is also the order in which the collecting recursion meets them.
An array of structures clears each name twice, and the walk ends in `double_free` or goes
on, as the allocator decides; a stack of more than `MaxDepth` calls in
`stack_overflow`, a root that was not made in `null_root`.

### Serializer
One action per piece that `safe_snprintf` writes, with its length instead of its
wording: an entry counts its offset from its own beginning, the list from the
buffer's. A piece that does not fit gives up the whole text, the buffer is doubled
and everything is printed again. GUID and byte string ids end a build with
assertions and never fit in one without; both builds are in `Init`.

### Lexer
A step is one `lexer_next_token`, with the spaces it skips and the append to
the list. Characters are letters, digits and the symbols the code compares
with; `high` stands for every `char` above 127, about which `isspace`, `isdigit` and
`isalpha` are asked as a negative number: `Init` chooses what they answer.

### CommandParser, AstText and Interpreter
A token is what a sub-parser can tell apart: the keyword, punctuation, number,
and identifiers split by the values the code compares (`ns`, `i`, `s`). Each
turn of the loop in `parser_parse` is one action; the sub-parsers are operators
that return a child and the next position, consumed tokens of a broken node id
included. `AstText` adds up the lengths of what `ast_to_string_ast` writes; when the
offset has passed the buffer before the last piece, the size left wraps around and
the program is `overrun`. The interpreter records the calls of a line as a set: each
with its statement, the child it was made for, and the state it was made in; `Clua`
gives the calls of a step their effect.

### Config
A text is a record of what the parsers make of it (is it a node id, what are the
numbers around its dashes, ...), a bit mask the set of its bits. A file is a
sequence of lines; a load is one action per line. Two facts met on the way:
nothing in `main` calls the loader, and its branch for `default_path` cannot be
reached, so that `output_path` is always the compiled-in name; hence `Save`'s
constant `OutputPath`.

## 3. What the runs check, and the bounds

Passing runs:

* **session** (`Session.cfg`): three nodes, one of them the root, two with string
  ids; two address spaces, one of which misses a node, empties a folder and
  lists a node twice; a history of 3 instead of 50. Three entries are enough for
  every relation between an entry, the one below and a full history: the dangling
  id needs two, `cd ..` on a full history three. Both endpoint outcomes, the
  link dropping at any time. Flag, client and history agree (`SessionCoherent`),
  the rows are those of the current node (`ListingOfCurrent`), what can dangle
  (`DanglingEntries`, `UseAfterFreeNeedsStrings`), the back-trail (`TrailKept`), and
  commands end (`CommandReturns`).
* **save** (`Save.cfg`): a listing of a number, a Double, a structure with three
  leaves and a number; a server on which the structure may become an object, before or
  during the walk; one line
  typed ahead, two saves, so that the second finds the first one's file. Rows
  inside and past the listing, ranges inside it and past its end. A disturbed walk finds
  at most one node (`MaxFound`), any of those it may: what it adds to the list beside the
  rows and the three leaves is seen with one, and `ListFits` and `OnlyTheRange` hold for
  all lengths. The doubling keeps ahead of the list (`SubsetFits`), the zero capacity is
  explained (`HeapErrorOnlyPastListing`), only rows asked for, and what a walk below them
  can find, are collected (`SubsetFromRange`), exactly the reference
  selection when nothing changed (`SelectionExact`), files kept
  (`OldContentKept`), and an end (`SaveReturns`).
* **structure** (`StructureTree.cfg`): six nodes: a structure with a number, an array
  of numbers that has a component, and an array of structures; the same
  server after the structure became an array; and one with a cycle. Two walks, two
  changes of server or link, which is enough for two reads that contradict each
  other and a third that agrees with the first. The stack holds seven calls, one
  more than there are nodes. What is collected is the reference
  (`CollectExact`), the null id gets in only after a change (`NullIdNeedsRootChange`),
  nothing is collected that is not below the root on some server, whatever changes
  (`FoundBelowRoot`), the stack and the root are lost only for the cause named
  (`OverflowNeedsCycle`, `LostNeedsChange`), and walks end (`WalkEnds`).
* **serializer** (`Serializer.cfg`): the real first buffer of 10240 characters, with lists
  whose text ends at every position around its end, so that each piece is the one
  that just fits or just does not; lists that need two and three buffers, and more
  than the 40960 characters of memory; ids that cannot be printed. `InBounds`,
  `WholeText`, `Serialized`, and `WritesOnce`, the implementation of `FileText`.
* **config** (`Config.cfg`): any order of settings, and a complete file with one line
  missing, inserted or replaced by a line of each kind, loaded over any of them.
  What a filter lists (`FilterListsNamed`), a load that returns true has set what the
  file says (`LoadedAsWritten`), no load loses the root (`LoadKeepsRoot`).
* **lexer** (`Lexer.cfg`): every text of up to three characters over one of each
  class, every keyword alone and with every kind of tail, whole lines, and lists of
  9, 10, 11 and 20 tokens around the capacity of 10; every answer of `ctype.h`.
  Nothing lost or read twice (`Tiling`), values (`ValuesKeepText`), keywords
  (`WholeWords`), the list the parser starts from (`Handover`).
* **parser** (`CommandParser.cfg`): every list of up to three tokens of the alphabet, and
  each long argument (address, node id, range) whole, cut at every length, or with
  one token replaced, behind every command that takes it and with something behind
  it; that reaches both ends of every lookahead. `SetIsLast`, `CommandsKept`,
  `CommandsSeparate`, `TokensAccounted`.
* **clua** (`Clua.cfg`): sessions of any number of lines; a line is a command, one
  before or behind a change of state, two commands of which the second depends on
  the first, or as many saves as overrun the trace buffer, which has 300
  characters instead of 4096 so that five statements do. Two nodes, one of which the
  server may lose, a history of 2. `StatePerStatement`, `OneMovePerStatement`,
  `OverrunNeedsLongLine`, `HistoryWasTyped` and `LineAnswered`: every line gets back
  to the prompt, or the program is lost in one of the ways named.

Runs that show a disagreement between the program and what it says of itself,
each a violation of one property:

| run | what it shows |
|---|---|
| session_already_connected | after the link is lost `con` still answers "already connected!" |
| save_refused_numeric | a Double is refused as not numeric: type ids compared with numbers that start one lower |
| save_answer | Enter alone at the question swallows the next line, or loops at the end of the input |
| save_new_name | a new name that exists is emptied unasked |

Seen in the models, and left without a run of their own: a GUID or byte string id
reaches `assert(0 && "not implemented")` after the file was emptied
(`modules/mirua_serialization.c:87`, `Opaque`); "All types (no filtering)" still
drops every node without a readable value (`:409`, `:1663`, `FilterListsNamed` says
what is listed); a structure whose data type id is not one of the numbers 0 to 10 is
refused by the filter (`Refuse`); "target is structure. not doing anything" is
followed by writing it (`BuildTree`, then `CheckFile`); the name of each element of an
array of structures is cleared twice (`:2387`, `double_free`); characters the lexer does not
know disappear from the value of a `set` (`UnknownToken`); the trace text of a long
line runs past its buffer (`Overruns`); the `help` the banner advertises is no
command (`NotHandled`); and `cd ..` returns to the node visited before, which need not
be a parent (`TrailKept`).

Every property of a passing run has a mutant: a definition beside the one it
replaces, commented `Mutant:`, that changes the model the way a plausible bug
would change the code, and that breaks the property.

`CHECK_DEADLOCK FALSE` is given where the system stops: a scan, a text or a walk
that is finished, a program that exited, failed, or waits for input on a server that
does not change.

## 4. Fairness

The program is one thread without locks, so its own steps are weakly fair:
`Reply` in Session and Clua (open62541 calls are synchronous and return with an
answer or a timeout), `Line` and `Statement` in Clua, `Program` in Save and
StructureTree, `Load` in Config, and every step of Lexer, CommandParser and
Serializer, which wait for nothing. Nothing is fair about the operator, the server or
the link: no line need be typed, no link need come back. `SaveReturns` therefore
lets a save wait for a line; at the end of the input that wait is the endless
loop over `getchar`, which save_answer reports.

## 5. What is proved

The constants are arbitrary under the named assumptions of each module: any
set of nodes and servers, any history length but 0, any token list, any text and file.
Two assumptions are about a whole composition: `LinesAssumption` (the lines of the
interpreter are token lists) and `SessionAssumption` (the assumptions of the `Session`
inside `Clua`). Every module below proves its component's `TypeOK` and every invariant
and action property that a passing run checks; TLC found each of them, and most of the
strengthenings, to hold before.

* **SessionProofs.** `TypeCorrect` comes first. `SafetyCorrect` proves `Safe`, the
  conjunction of `SessionCoherent`, `ListingOfCurrent`, `DanglingEntries`,
  `UseAfterFreeNeedsStrings` and `Strengthening`. The last is what the others need: only a
  connected session waits for a reply, nothing is listed while the root is
  probed, and the current node shares a history entry only while the history has room,
  because only `cd ..` makes it share one and that lowers the count. Without it a `MoveTo`
  on a full history could free the top entry. The corollaries state the parts as the
  runs check them; `NumericServersAreSafe` draws the conclusion for servers without
  string ids. `HistoryIsTrail` is the refinement: the initial states map to initial
  states, each action to an action of `Trail` or a stutter. `EntryKept` follows from it:
  no step of `Trail` changes the first entry. Each step of these proofs is a lemma of
  its own (`TypeStep`, `SafeStep`, `TrailStep`), because `CluaProofs` uses them again.
* **SaveProofs.** `Kept` joins to the type what every read needs: the row being read
  is listed and in the range (`RowListed`), the arguments are there while the command
  runs (`ArgsThere`), that only a walk is unsteady and the list of a single row empty
  before it (`Steadiness`, `SingleEmpty`), and `SubsetFits`. `GrownFits` is the lemma about
  the doubling, by induction over the nodes appended: a list with any room at all never
  falls behind. `ListFits` follows, with `RowAnswered`, which says what each of the three
  steps that append may append. Over it, `Room` (the capacity is 0 only for a range that runs backwards or ends
  past the listing) gives `HeapErrorsExplained`, `Seen` (an undisturbed server still is
  what the reads before said) gives `LostTreesExplained`; `OnlyTheRange` needs `Explored`
  (the row that is explored was a structure on some server) and what a walk finds
  (`WalkFinds`); `FilesKept` follows from the type. `SelectionIsExact` is the strongest: `SoFar` says that what is
  collected is the reference for the rows before the current one, and each way a row can
  be taken, or passed over, extends both sides alike. `SavesEnd` bounds the command: five
  steps for each row of the listing and ten more, unless it waits for a line.
* **StructureTreeProofs.** `Inv` describes the stack: every frame's tree node exists,
  each frame is linked to the one below it on some server, and what the reads of the
  root have found. `OverflowOnlyOnCycles` is then the pigeonhole principle: more frames
  than nodes, so two frames of one node, and the frames between them are the cycle.
  `LostOnlyByChange` is a part of `Inv`. `CollectedBelowRoot` follows every set of nodes
  that holds the root and that no reference leaves: the tree, and the references
  and elements the calls on the stack still have to follow, stay in it (`Within`).
  `TypeCorrect`
  adds the types of the rest, of the list collected above all. `NullIdOnlyByRootChange`
  needs `Placed`: parents come before their children, so that the collecting recursion is
  defined, and a leaf without an id is below an array of plain values, which hides it, or
  below a root that was a structure when save looked and an array when the walk did.
  `CollectedIsReference` is the large one. `Walked` says, of an
  undisturbed walk, that what the tree shows so far followed by what the calls on the
  stack still owe is the reference. What a call owes is computed with the depth it has
  left, so that the two recursions, the code's over the stack and the reference's over
  the depth, are compared one reference at a time.
  `WalksEnd` bounds every walk, over servers that change as often as they like: when no
  list is longer than `B`, a call weighs `2 * B + 2` times what one below it weighs, and
  one more, so that a call made costs less than the element or reference it was made for.
* **SerializerProofs.** `Inv` is the type, `InBounds`, and `Progress`, which ties the
  number of pieces printed to the position in the list; the last gives `OneWrite`, the
  implementation of `FileText`, the other `NothingPastTheBuffer`. With `Filled` (the offset
  is the length of the pieces printed) `WholeTextWritten` follows. `MemoryAsNeeded`: no
  buffer is ever more than twice the text, and memory runs out only when half of it
  would not do, or on an id that cannot be printed. `RetriesEnd`: a step comes
  nearer to the end of this attempt, or doubles the buffer within the memory there is.
* **LexerProofs.** One lemma says that a step appends one token whose span begins behind
  spaces at the position and ends at the next. `TokensTile` and `ListHandedOver` follow by
  one step each; `CommandsAreWholeWords` needs `Boundary` besides: behind a letter
  no word goes on, because a run of word characters is always read to its end.
  `TokensKeepText` joins the values and compares them with the filtered text, step by
  step: a token adds the kept characters of its span on both sides. `ParserIsFed` closes
  the seam to the parser: the finished list satisfies the parser's `Init`, so that what is
  proved of every token list holds for every text. `TokensEnd` bounds the list.
* **CommandParserProofs.** One lemma for each sub-parser bounds where it leaves
  the parser. The invariant adds to the type that the one `eof` is the last
  token and that a `set` leaves the parser at it (`SetTakesRest`); from it follow
  `SetEndsTheLine` and `CommandsAreKept`. `CommandsStayApart` needs that the arguments of
  a statement hold no command word: one lemma per sub-parser says so of the tokens it
  consumes, and one turn of the loop adds one interval behind the others (`Grown`).
  `TokensAreAccounted` adds to it what the interval holds, `TurnsMoveOn` that the
  position grows with every turn.
* **CluaProofs.** A step of the program is a step of the interpreter or leaves it alone
  (`LineStep`), so the invariant is one of the interpreter over the parser's output:
  every statement has the form the parser gives it (`OneTarget`: `cd ..` has no child,
  a `cd` one target), and every call belongs to a statement already executed. With the
  count of the state changes between two statements that is enough for
  `StatementsFollowState` and `StatementsMoveOnce`. `HistoryTyped` adds the typing of the
  history and what is listed (`Nodes`), and goes through the calls of each command.
  `OverrunsAreLong` bounds the text of the AST by the tokens it was made of.
  The two instances inside the program keep what is proved of the modules:
  `Proved == INSTANCE CommandParserProofs` gives `LinesKeepCommands`, and
  `Served == INSTANCE SessionProofs WITH pc <- call` gives `SessionSafe`, `TrailInside`,
  `EntryNodeStays` and `NumbersAreSafe`, once `SessionInside` has shown that every step
  of the program is a step of `Session` or leaves it alone. `LinesEnd` bounds a line:
  three steps a token, the `eof` included, and two more.
* **ConfigProofs.** `FiltersAgree`: for filters of every length, what the first parser
  accepts the second one sets exactly; `FilterSetExactly` is its form for the
  settings of a session, and `FilterLists` what a listing then shows.
  `LoadKeepsDefaultRoot`: no file takes the root away; `LoadLeavesFile`: each setting is
  what the last line for it says. The type is all that the others need; this one
  needs `Progress`, that the settings set so far are what the file so far says.

Only model-checked: liveness (`CommandReturns`, `SaveReturns`, `WalkEnds`,
`Serialized`, `LineAnswered`), which needs ENABLED and is out of the prover's reach. Its
safety half is proved where an end could be put off: `SavesEnd`, `WalksEnd`, `LinesEnd`,
`TokensEnd` and `TurnsMoveOn` each give a number that every step of the program lowers
(a save may wait for a line) and that the server and the operator do not raise,
`RetriesEnd` one for each of the buffers, whose sizes double; that the program goes on
taking steps is the fairness of section 4. (`CommandReturns` waits for one step only.)
The four properties of the runs that expect a violation are refuted, not proved.

Where a proof needs induction over data, and the library's theorems would need an
operator for it, it is done in two ways: from the least number without the property
(`Induction`, from the well-foundedness of `<`), for functions whose recursive equation is
stated and whose existence is shown that way first; or along the behaviour, with an
invariant that says what the loop has computed so far. `FlattenSeq`, which is defined by a
recursive function, is used through two facts proved so: it takes a list apart at its
front or at its head.

## 6. What is not modelled

* Printing of nodes, values and trees (most of `mirua_module.c` between 863 and 1366 and
  1774 and 1966, all of `mirua_to_string.c`): it reads the server and changes nothing.
  That it fails without a client is part of `null_client`. Its texts are cut at 4096
  characters.
* Running out of memory, except where a size of 0 makes an allocation fail and where
  the serializer's doubling reaches the end of it. So a leak is not seen: the text
  buffer of 10 MB per explored structure, the tree a single save leaves.
* The text of a tree, which is asserted to fit into its 10 MB (`:2679`): its size is the
  server's.
* The command taken from `argv`, whose words are joined without a test for length
  (`src/main.c:184`), `--test`, and the lookup of a directory at start: they run the same
  `process_input`, a fixed script, or only print.
* Lines are whole: `fgets` cuts one of more than 1023 characters, and what is left
  runs as a line of its own (`src/main.c:205`), which is two lines of `Clua`.
* Widths of numbers in the text: `atoi` of one that is too large may give -1, which
  `save` and `ls` take for no index (`src/parser.c:64`). Names of nodes: the text of an id
  is cut at 255 characters (`src/parser.c:313`).
* `con <ip>` hands the bare address to the client; whether it is a url it
  accepts is in `Listening`.
* `log.c` (vendored), Windows file helpers, build scripts, Telegraf and Influx files.

## 7. Plan

Done, in the order of importance: Session with Trail, Save, CommandParser,
Interpreter, Config; then StructureTree, Serializer with FileText, Lexer, AstText, and
Clua, which composes interpreter and session; then proofs of all the safety properties the
runs check, of the session and the parser inside the program, and of how long a line, a
save, a walk, a list of tokens and a serialization take.

What is left:

1. `Clua` with `Save` behind `SaveCall` instead of leaving the session as it is, and
   with `StructureTree` as the refinement of `Save`'s walk; each alone is
   near the size TLC can take, so that this is one for the prover.
2. `Save`'s write as an implementation of `FileText`, whose promise it now states
   in its own words.
