-------------------------------- MODULE Clua --------------------------------
(***************************************************************************)
(* The program: the interpreter's statements on one side, the session they *)
(* act on on the other.  A statement and the session command it calls are  *)
(* one step; the next statement waits for the service calls the command    *)
(* makes, while the server and the link may change.  ctx->state is the one *)
(* variable both share.  What `save` and the settings that are no endpoint *)
(* and no root do is in Save and Config: here they leave the session as it *)
(* is.                                                                     *)
(***************************************************************************)
EXTENDS Interpreter

CONSTANTS Node, NullId, Objects, StringIds, Spaces,
          Endpoint, Listening, DefaultEndpoint, MaxHistory

VARIABLES
    call,     \* what the session is doing: Session's pc
    client, connected, endpoint, defaultRoot, currentNode, alias, children,
    history, freed, target, link, space

S == INSTANCE Session WITH pc <- call

\* What Session takes for granted of the server and of what is typed.
ASSUME SessionAssumption ==
    /\ S!NodesAssumption
    /\ S!SpacesAssumption
    /\ S!EndpointAssumption
    /\ S!HistoryAssumption

\* The session without the state it shares.
session == <<call, client, connected, endpoint, defaultRoot, currentNode, alias,
             children, history, freed, target, link, space>>

CluaInit == Init /\ S!Init

-----------------------------------------------------------------------------
(* The calls of a statement, as commands of the session *)

\* The calls made in this step.
Made == calls' \ calls

Calls(ops) == \E c \in Made : c.op \in ops

\* Without `con` before it, a command that reaches the server ends the program.
Crash == S!CommandWithoutClient

ConnectCall ==
    \/ /\ Calls({"connect", "connect_ip"})
       /\ S!AlreadyConnected \/ S!ConnectFails
    \/ Calls({"connect"}) /\ S!ConnectSucceeds(S!NoEndpoint)
    \/ Calls({"connect_ip"}) /\ \E e \in Endpoint : S!ConnectSucceeds(e)

\* mirua_exploreNodes looks at its arguments only behind a listing.
ExploreCall ==
    \/ Calls({"explore", "explore_idx", "explore_nodeid"}) /\ Crash
    \/ /\ Calls({"explore"}) \/ (Calls({"explore_idx", "explore_nodeid"}) /\ children = << >>)
       /\ S!ListCurrent
    \/ Calls({"explore_idx"}) /\ \E i \in S!Index : S!ListIndex(i)
    \/ Calls({"explore_nodeid"}) /\ \E n \in Node : S!ListNode(n)

\* Mutant: navigate_up falls through to navigate_down.
NavigateCall_FallsThrough ==
    \/ Calls(Navigation) /\ Crash
    \/ Calls({"navigate_up"}) /\ (S!NavigateUp \/ \E i \in S!Index : S!NavigateDown(i))
    \/ Calls({"navigate_down"}) /\ \E i \in S!Index : S!NavigateDown(i)
    \/ Calls({"navigate_to"}) /\ \E n \in Node : S!NavigateTo(n)

NavigateCall ==
    \/ Calls(Navigation) /\ Crash
    \/ Calls({"navigate_up"}) /\ S!NavigateUp
    \/ Calls({"navigate_down"}) /\ \E i \in S!Index : S!NavigateDown(i)
    \/ Calls({"navigate_to"}) /\ \E n \in Node : S!NavigateTo(n)

\* A range of an empty listing is empty; a single row is read unseen.
SaveCall ==
    \/ Calls({"save_idx"}) /\ Crash
    \/ /\ Calls({"save_range"}) \/ (Calls({"save_idx"}) /\ client)
       /\ UNCHANGED session

ChangeState ==
    \/ Calls({"config_print"}) /\ state' # state /\ S!EnterConfig
    \/ Calls({"print_current_node"}) /\ S!LeaveConfig

SettingCall ==
    \/ /\ Calls({"config_set", "config_set_idx"})
       /\ \/ \E e \in Endpoint : S!SetEndpoint(e)
          \/ \E n \in S!NodeOrNull : S!SetDefaultRoot(n)
    \/ /\ Calls({"config_set", "config_set_idx", "config_print", "config_print_idx"})
       /\ state' = state /\ UNCHANGED session

\* interpreter_execute_ast: the calls return before the next statement starts.
Statement ==
    /\ call = "prompt"
    /\ Execute
    /\ \/ ConnectCall \/ ExploreCall \/ NavigateCall \/ SaveCall
       \/ ChangeState \/ SettingCall
       \/ Made = {} /\ UNCHANGED session

-----------------------------------------------------------------------------
\* What runs as long as the program does, at the prompt or in a line.
Line ==
    /\ call = "prompt"
    /\ Parse \/ Parsed \/ LineDone
    /\ UNCHANGED session

Prompt == ReadLine /\ UNCHANGED session

Leave == Quit /\ S!Quit

Reply == S!Reply /\ UNCHANGED vars

Environment == S!Environment /\ UNCHANGED vars

CluaNext == Prompt \/ Leave \/ Line \/ Statement \/ Reply \/ Environment

allvars == <<vars, session>>

\* main is one thread that waits only for lines and for the server, and a
\* service call returns, with an answer or a timeout.
CluaSpec ==
    /\ CluaInit /\ [][CluaNext]_allvars
    /\ WF_allvars(Line) /\ WF_allvars(Statement) /\ WF_allvars(Reply)

-----------------------------------------------------------------------------
(* Properties. *)

\* Every line is answered with a prompt, whatever the server does meanwhile and
\* whatever state the statements of the line leave the session in, unless the
\* program is lost in one of the ways Session and AstText know.
LineAnswered ==
    pc = "parse" ~> \/ pc = "prompt" /\ call = "prompt"
                    \/ pc = "overrun"
                    \/ call \in S!Undefined

\* What `cd ..` walks back over was all typed: the history grows only where a
\* `cd` to a node or an index is executed, or where a `con` finds its root; the
\* fall through behind navigate_up (interpreter.c:95) records nothing.
HistoryWasTyped ==
    [][Len(history') > Len(history) =>
          \/ call = "probe"
          \/ \E c \in calls' : c.op \in {"navigate_to", "navigate_down"} /\ c.of = node]_allvars
=============================================================================
