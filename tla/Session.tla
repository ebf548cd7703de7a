------------------------------ MODULE Session ------------------------------
(***************************************************************************)
(* The browsing session of Clua (mirua_module.c): connecting to an OPC UA  *)
(* server, listing and walking its address space, and the history behind   *)
(* `cd ..`.  One operator command is one action; a command that browses    *)
(* is two, because the server's address space and the link to it may       *)
(* change between the service calls the command makes.                     *)
(*                                                                         *)
(* The connected server is the environment: `space` is what it would       *)
(* answer to a browse (already narrowed by the configured child filter,    *)
(* which is re-evaluated on every browse), `link` whether it answers.      *)
(***************************************************************************)
EXTENDS Naturals, Sequences

CONSTANTS
    Node,         \* the node ids an operator or a server can name
    NullId,       \* the null node id, outside Node
    Objects,      \* ns=0;i=85, the compiled-in default root
    StringIds,    \* the ids whose identifier owns a heap buffer
    Spaces,       \* the address spaces the server moves between
    Endpoint,     \* the endpoint urls an operator can type
    Listening,    \* the endpoints at which a server listens
    DefaultEndpoint,
    MaxHistory    \* MAX_HISTORY, 50 in mirua_types_internal.h

NoEndpoint == ""  \* `con` without an address

ASSUME NodesAssumption ==
    /\ NullId \notin Node
    /\ Objects \in Node
    /\ StringIds \subseteq Node

ASSUME SpacesAssumption ==
    \A s \in Spaces :
        /\ DOMAIN s \subseteq Node
        /\ \A n \in DOMAIN s : s[n] \in Seq(Node)

ASSUME EndpointAssumption ==
    /\ DefaultEndpoint \in Endpoint
    /\ Listening \subseteq Endpoint
    /\ NoEndpoint \notin Endpoint

ASSUME HistoryAssumption == MaxHistory \in Nat \ {0}

VARIABLES
    pc,          \* what the process is doing, or how it ended
    state,       \* ctx->state: which command set the interpreter obeys
    client,      \* ctx->client # NULL
    connected,   \* ctx->connected
    endpoint,    \* ctx->config.endpoint
    defaultRoot, \* ctx->config.defaultRoot
    currentNode, \* ctx->currentNode.nodeid
    alias,       \* the history slot whose buffer currentNode shares, 0 if none
    children,    \* ctx->currentChildren
    history,     \* ctx->history.nodeIds[0 .. count - 1]
    freed,       \* the slots of history whose string buffer was freed
    target,      \* the node a pending `ls <n>` browses, else NullId
    link,        \* the server answers
    space        \* the server's address space

ctx == <<client, connected, endpoint, defaultRoot>>
trail == <<history, freed>>
server == <<link, space>>
vars == <<pc, state, client, connected, endpoint, defaultRoot, currentNode,
          alias, children, history, freed, target, link, space>>

\* Ends the program cannot leave: a service call on a NULL client, a write
\* past a zero-capacity list, a read of a freed identifier.
Undefined == {"null_client", "heap_overflow", "use_after_free"}
Pending == {"probe", "explore", "explore_quiet", "peek"}

NodeOrNull == Node \cup {NullId}

TypeOK ==
    /\ pc \in {"prompt", "exited"} \cup Pending \cup Undefined
    /\ state \in {"normal", "config"}
    /\ client \in BOOLEAN
    /\ connected \in BOOLEAN
    /\ endpoint \in Endpoint
    /\ defaultRoot \in NodeOrNull
    /\ currentNode \in NodeOrNull
    /\ alias \in 0 .. MaxHistory
    /\ children \in Seq(Node)
    /\ history \in Seq(NodeOrNull) /\ Len(history) <= MaxHistory
    /\ freed \subseteq 1 .. MaxHistory
    /\ target \in NodeOrNull
    /\ link \in BOOLEAN
    /\ space \in Spaces

Init ==
    /\ pc = "prompt"
    /\ state = "normal"
    /\ client = FALSE
    /\ connected = FALSE
    /\ endpoint = DefaultEndpoint
    /\ defaultRoot = Objects
    /\ currentNode = NullId
    /\ alias = 0
    /\ children = << >>
    /\ history = << >>
    /\ freed = {}
    /\ target = NullId
    /\ link \in BOOLEAN
    /\ space \in Spaces

-----------------------------------------------------------------------------
(* What the server answers. *)

\* A failed browse and a node without children both give an empty list.
Browse(n) == IF link /\ n \in DOMAIN space THEN space[n] ELSE << >>

NodeExists(n) == link /\ n \in DOMAIN space

-----------------------------------------------------------------------------
(* Helpers of the navigation commands. *)

Top == Len(history)

\* Mutant: the string check of UA_NodeId_clear forgotten.
FreedByClear_AnyId == IF alias # 0 THEN {alias} ELSE {}

\* UA_NodeId_clear(&ctx->currentNode.nodeid): frees a string buffer, the
\* history's own one when currentNode was copied shallowly out of it.
FreedByClear == IF alias # 0 /\ currentNode \in StringIds THEN {alias} ELSE {}

\* mirua_history_addToHistory: a full history drops the entry silently.
addToHistory(n) == IF Top < MaxHistory THEN Append(history, n) ELSE history

\* Mutant: currentNode is taken to share its old entry after it was replaced.
MoveTo_KeepsAlias(n) ==
    /\ currentNode' = n
    /\ UNCHANGED alias
    /\ freed' = freed \cup FreedByClear
    /\ history' = addToHistory(n)

\* UA_NodeId_clear, UA_NodeId_copy and the history entry of a node entered.
MoveTo(n) ==
    /\ currentNode' = n
    /\ alias' = 0
    /\ freed' = freed \cup FreedByClear
    /\ history' = addToHistory(n)

Step(next) == pc' = next

AtPrompt(s) == pc = "prompt" /\ state = s

\* Any command that reaches the server before `con` passes it a NULL client.
NullClient ==
    /\ ~client
    /\ Step("null_client")
    /\ UNCHANGED <<state, ctx, currentNode, alias, children, trail, target, server>>

-----------------------------------------------------------------------------
(* mirua_connect *)

AlreadyConnected ==
    /\ AtPrompt("normal")
    /\ connected
    /\ UNCHANGED vars

\* Mutant: the client is deleted before the test of the connected flag.
ConnectFails_DropsClient ==
    /\ AtPrompt("normal")
    /\ client' = FALSE
    /\ UNCHANGED <<pc, state, connected, endpoint, defaultRoot, currentNode, alias,
                   children, trail, target, server>>

ConnectFails ==
    /\ AtPrompt("normal")
    /\ ~connected
    /\ client' = FALSE
    /\ UNCHANGED <<pc, state, connected, endpoint, defaultRoot, currentNode, alias,
                   children, trail, target, server>>

\* Only an endpoint that answered replaces the configured one.
ConnectSucceeds(e) ==
    /\ AtPrompt("normal")
    /\ ~connected
    /\ link
    /\ LET url == IF e = NoEndpoint THEN endpoint ELSE e
       IN  url \in Listening /\ endpoint' = url
    /\ client' = TRUE
    /\ connected' = TRUE
    /\ currentNode' = defaultRoot
    /\ alias' = 0
    /\ Step("probe")
    /\ UNCHANGED <<state, defaultRoot, children, trail, target, server>>

\* The test browse of the default root: an empty answer falls back to
\* Objects.  Its result is thrown away, so currentChildren stays empty.
ProbeDefaultRoot ==
    /\ pc = "probe"
    /\ LET root == IF Browse(defaultRoot) = << >> THEN Objects ELSE defaultRoot
       IN  /\ defaultRoot' = root
           /\ currentNode' = root
           /\ history' = addToHistory(root)
    /\ Step("prompt")
    /\ UNCHANGED <<state, client, connected, endpoint, alias, children, freed,
                   target, server>>

-----------------------------------------------------------------------------
(* mirua_exploreNodes *)

\* `ls`, and `ls` with any argument while no children are listed: the latter
\* walks back to the default root, whatever the current node is.
ListCurrent ==
    /\ AtPrompt("normal")
    /\ client
    /\ IF children = << >>
         THEN currentNode' = defaultRoot /\ alias' = 0
         ELSE UNCHANGED <<currentNode, alias>>
    /\ children' = << >>
    /\ Step("explore")
    /\ UNCHANGED <<state, ctx, trail, target, server>>

\* `ls <idx>`: an index out of range does nothing at all.
ListIndex(i) ==
    /\ AtPrompt("normal")
    /\ children # << >>
    /\ IF i <= Len(children)
         THEN target' = children[i] /\ Step("peek")
         ELSE UNCHANGED <<target, pc>>
    /\ UNCHANGED <<state, ctx, currentNode, alias, children, trail, server>>

\* `ls <nodeid>`
ListNode(n) ==
    /\ AtPrompt("normal")
    /\ children # << >>
    /\ IF NodeExists(n)
         THEN target' = n /\ Step("peek")
         ELSE UNCHANGED <<target, pc>>
    /\ UNCHANGED <<state, ctx, currentNode, alias, children, trail, server>>

\* The local list of `ls <idx>` and `ls <nodeid>` starts with capacity 0 and
\* grows by doubling it, so its first element is written out of bounds.
Peek ==
    /\ pc = "peek"
    /\ Step(IF Browse(target) = << >> THEN "prompt" ELSE "heap_overflow")
    /\ target' = NullId
    /\ UNCHANGED <<state, ctx, currentNode, alias, children, trail, server>>

-----------------------------------------------------------------------------
(* mirua_navigate_down, mirua_navigate_up, mirua_navigate_to *)

NavigateDown(i) ==
    /\ AtPrompt("normal")
    /\ client
    /\ IF i <= Len(children)
         THEN MoveTo(children[i]) /\ children' = << >> /\ Step("explore")
         ELSE UNCHANGED <<currentNode, alias, children, trail, pc>>
    /\ UNCHANGED <<state, ctx, target, server>>

\* Mutant: the children of the node are not browsed.
NavigateTo_NoListing(n) ==
    /\ AtPrompt("normal")
    /\ client
    /\ IF NodeExists(n)
         THEN MoveTo(n)
         ELSE UNCHANGED <<currentNode, alias, trail>>
    /\ UNCHANGED <<pc, state, ctx, children, target, server>>

NavigateTo(n) ==
    /\ AtPrompt("normal")
    /\ client
    /\ IF NodeExists(n)
         THEN MoveTo(n) /\ children' = << >> /\ Step("explore_quiet")
         ELSE UNCHANGED <<currentNode, alias, children, trail, pc>>
    /\ UNCHANGED <<state, ctx, target, server>>

\* Mutant: the entry left is uncovered instead of the one below it.
NavigateUp_OffByOne ==
    /\ AtPrompt("normal")
    /\ client
    /\ Top > 1
    /\ history' = SubSeq(history, 1, Top - 1)
    /\ freed' = freed \ {Top}
    /\ currentNode' = history[Top]
    /\ alias' = Top - 1
    /\ children' = << >>
    /\ Step("explore")
    /\ UNCHANGED <<state, ctx, target, server>>

\* mirua_history_goBack leaves the first entry in place; currentNode becomes
\* a shallow copy of the entry it uncovers, whose buffer may be gone.
NavigateUp ==
    /\ AtPrompt("normal")
    /\ client
    /\ IF Top > 1
         THEN /\ history' = SubSeq(history, 1, Top - 1)
              /\ freed' = freed \ {Top}
              /\ currentNode' = history[Top - 1]
              /\ alias' = Top - 1
              /\ children' = << >>
              /\ Step(IF Top - 1 \in freed THEN "use_after_free" ELSE "explore")
         ELSE UNCHANGED <<currentNode, alias, children, trail, pc>>
    /\ UNCHANGED <<state, ctx, target, server>>

\* Mutant: the browse is repeated until the server answers.
ExploreChildren_Retrying ==
    /\ pc \in {"explore", "explore_quiet"}
    /\ link
    /\ children' = Browse(currentNode)
    /\ Step("prompt")
    /\ UNCHANGED <<state, ctx, currentNode, alias, trail, target, server>>

\* mirua_explore_children(ctx, &ctx->currentChildren, currentNode)
ExploreChildren ==
    /\ pc \in {"explore", "explore_quiet"}
    /\ children' = Browse(currentNode)
    /\ Step("prompt")
    /\ UNCHANGED <<state, ctx, currentNode, alias, trail, target, server>>

\* Every command that browses, reads or prints a node, before `con`.
CommandWithoutClient == AtPrompt("normal") /\ NullClient

-----------------------------------------------------------------------------
(* The config state *)

EnterConfig ==
    /\ AtPrompt("normal")
    /\ state' = "config"
    /\ UNCHANGED <<pc, ctx, currentNode, alias, children, trail, target, server>>

\* Going back prints the current node, which reads it from the server.
LeaveConfig ==
    /\ AtPrompt("config")
    /\ state' = "normal"
    /\ Step(IF client THEN "prompt" ELSE "null_client")
    /\ UNCHANGED <<ctx, currentNode, alias, children, trail, target, server>>

SetEndpoint(e) ==
    /\ AtPrompt("config")
    /\ endpoint' = e
    /\ UNCHANGED <<pc, state, client, connected, defaultRoot, currentNode, alias,
                   children, trail, target, server>>

\* The old value is cleared before the new one is parsed: n is NullId when
\* the text is no node id.
SetDefaultRoot(n) ==
    /\ AtPrompt("config")
    /\ defaultRoot' = n
    /\ UNCHANGED <<pc, state, client, connected, endpoint, currentNode, alias,
                   children, trail, target, server>>

Quit ==
    /\ pc = "prompt"
    /\ Step("exited")
    /\ UNCHANGED <<state, ctx, currentNode, alias, children, trail, target, server>>

-----------------------------------------------------------------------------
(* The server, at any time *)

Reconfigure ==
    /\ space' \in Spaces \ {space}
    /\ UNCHANGED <<pc, state, ctx, currentNode, alias, children, trail, target, link>>

FlipLink ==
    /\ link' = ~link
    /\ UNCHANGED <<pc, state, ctx, currentNode, alias, children, trail, target, space>>

-----------------------------------------------------------------------------
Index == 1 .. Len(children) + 1   \* the rows listed and one beyond them

Command ==
    \/ AlreadyConnected
    \/ ConnectFails
    \/ \E e \in Endpoint \cup {NoEndpoint} : ConnectSucceeds(e)
    \/ ListCurrent
    \/ \E i \in Index : ListIndex(i) \/ NavigateDown(i)
    \/ \E n \in Node : ListNode(n) \/ NavigateTo(n)
    \/ NavigateUp
    \/ CommandWithoutClient
    \/ EnterConfig
    \/ LeaveConfig
    \/ \E e \in Endpoint : SetEndpoint(e)
    \/ \E n \in NodeOrNull : SetDefaultRoot(n)
    \/ Quit

Reply == ProbeDefaultRoot \/ Peek \/ ExploreChildren

Environment == Reconfigure \/ FlipLink

Next == Command \/ Reply \/ Environment

\* A service call returns, with an answer or a timeout; an operator, a
\* server and a link owe nothing.
Spec == Init /\ [][Next]_vars /\ WF_vars(Reply)
-----------------------------------------------------------------------------
(* Safety *)

\* The connection flag, the client and what was learnt over them agree: a
\* connected session has its client and, but for the probing of its root, a
\* history; children are listed only once connected; and no command of a
\* connected session reaches the server through a NULL client.
SessionCoherent ==
    /\ client <=> connected
    /\ history # << >> <=> connected /\ pc # "probe"
    /\ children # << >> => connected
    /\ pc = "null_client" => ~connected

\* The rows `cd <n>` and `save <n>` index are the rows of the current node:
\* currentChildren is empty or was browsed from currentNode, never left over
\* from the node the session was on before.
ListingOfCurrent ==
    children # << >> =>
        \E s \in Spaces : currentNode \in DOMAIN s /\ children = s[currentNode]

\* Which history entries can dangle: only string ids, because nothing else
\* owns a buffer, and never the entry on top, so that one `cd ..` is not
\* enough; currentNode shares the top entry or none.
DanglingEntries ==
    /\ \A i \in freed : i <= Top /\ history[i] \in StringIds
    /\ pc # "use_after_free" => Top \notin freed
    /\ alias # 0 => alias = Top /\ currentNode = history[Top]

\* A freed identifier is only ever read back as a string id: a server with
\* numeric ids is safe to walk in every order.
UseAfterFreeNeedsStrings ==
    pc = "use_after_free" => currentNode \in StringIds

\* No sequence of commands loses the node the session entered the server at:
\* `cd ..` stops there, and nothing overwrites it.
EntryNodeKept ==
    [][history # << >> =>
           history' # << >> /\ history'[1] = history[1]]_vars

\* The history is a bounded back-trail (module Trail), whatever the server
\* does meanwhile.
Walk == INSTANCE Trail WITH
            Place <- Node, Nowhere <- NullId, Limit <- MaxHistory,
            here <- currentNode, path <- history, base <- defaultRoot

TrailKept == Walk!Spec

-----------------------------------------------------------------------------
(* Liveness *)

\* Every command gets back to the prompt, or to the end it runs into: no
\* order of server changes leaves it waiting between two service calls.
CommandReturns == pc \in Pending ~> pc \notin Pending

-----------------------------------------------------------------------------
(* What a message of the code says, and the code does not do. *)

\* "already connected!" (mirua_module.c:512): when `con` answers this, the
\* client is connected.
AlreadyConnectedIsTrue ==
    AtPrompt("normal") /\ connected => link
=============================================================================
