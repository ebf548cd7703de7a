--------------------------- MODULE SessionProofs ---------------------------
(* Theorems of module Session, for every server, history length and set of *)
(* nodes.                                                                  *)
EXTENDS Session, TLAPS

USE DEF Step, AtPrompt, ctx, trail, server

\* What a browse answers is a list of nodes.
LEMMA BrowseType ==
    ASSUME link \in BOOLEAN, space \in Spaces, NEW n
    PROVE  Browse(n) \in Seq(Node)
  BY SpacesAssumption DEF Browse

\* Recording a visit keeps the history a list of at most MaxHistory nodes and
\* everything that was in it.
LEMMA AddToHistory ==
    ASSUME history \in Seq(NodeOrNull), Len(history) <= MaxHistory,
           NEW n \in NodeOrNull
    PROVE  /\ addToHistory(n) \in Seq(NodeOrNull)
           /\ Len(addToHistory(n)) <= MaxHistory
           /\ Len(addToHistory(n)) >= Top
           /\ Top < MaxHistory => /\ Len(addToHistory(n)) = Top + 1
                                  /\ addToHistory(n)[Top + 1] = n
           /\ Top >= MaxHistory => addToHistory(n) = history
           /\ \A i \in 1 .. Top : addToHistory(n)[i] = history[i]
           /\ addToHistory(n) # << >>
<1>1. CASE Top < MaxHistory
  <2>1. addToHistory(n) = Append(history, n)
    BY <1>1 DEF addToHistory
  <2> QED
    BY <1>1, <2>1, HistoryAssumption DEF Top
<1>2. CASE ~(Top < MaxHistory)
  <2>1. addToHistory(n) = history
    BY <1>2 DEF addToHistory
  <2>2. Top \in Nat /\ Top = MaxHistory
    BY <1>2, HistoryAssumption DEF Top
  <2> QED
    BY <2>1, <2>2, HistoryAssumption DEF Top
<1> QED
  BY <1>1, <1>2

\* The program starts with its types.
LEMMA TypeStart == Init => TypeOK
<1> SUFFICES ASSUME Init PROVE TypeOK
  OBVIOUS
<1>1. pc \in {"prompt", "exited"} \cup Pending \cup Undefined
  BY DEF Init
<1>2. /\ alias \in 0 .. MaxHistory
      /\ freed \subseteq 1 .. MaxHistory
  BY HistoryAssumption DEF Init
<1>3. /\ children \in Seq(Node)
      /\ history \in Seq(NodeOrNull) /\ Len(history) <= MaxHistory
  BY HistoryAssumption DEF Init
<1>4. /\ defaultRoot \in NodeOrNull /\ currentNode \in NodeOrNull
      /\ target \in NodeOrNull
  BY NodesAssumption DEF Init, NodeOrNull
<1> QED
  BY <1>1, <1>2, <1>3, <1>4, EndpointAssumption DEF Init, TypeOK

\* Every command, reply and change of the server keeps the types.
LEMMA TypeStep == TypeOK /\ [Next]_vars => TypeOK'
<1> SUFFICES ASSUME TypeOK, [Next]_vars PROVE TypeOK'
  OBVIOUS
<1> USE DEF TypeOK, Pending, Undefined
<1>1. ASSUME NEW n \in Node, MoveTo(n)
      PROVE  /\ currentNode' \in NodeOrNull
             /\ alias' \in 0 .. MaxHistory
             /\ history' \in Seq(NodeOrNull) /\ Len(history') <= MaxHistory
             /\ freed' \subseteq 1 .. MaxHistory
  <2>1. FreedByClear \subseteq 1 .. MaxHistory
    BY DEF FreedByClear
  <2>2. n \in NodeOrNull
    BY DEF NodeOrNull
  <2>3. /\ addToHistory(n) \in Seq(NodeOrNull)
        /\ Len(addToHistory(n)) <= MaxHistory
    BY <2>2, AddToHistory
  <2>4. 0 \in 0 .. MaxHistory
    BY HistoryAssumption
  <2> QED
    BY <1>1, <2>1, <2>2, <2>3, <2>4 DEF MoveTo
<1>2. CASE AlreadyConnected
  BY <1>2 DEF AlreadyConnected, vars
<1>3. CASE ConnectFails
  BY <1>3 DEF ConnectFails
<1>4. ASSUME NEW e \in Endpoint \cup {NoEndpoint}, ConnectSucceeds(e)
      PROVE  TypeOK'
  BY <1>4, EndpointAssumption, HistoryAssumption DEF ConnectSucceeds
<1>5. CASE ListCurrent
  BY <1>5, HistoryAssumption DEF ListCurrent
<1>6. ASSUME NEW i \in Index, ListIndex(i) PROVE TypeOK'
  BY <1>6 DEF ListIndex, Index, NodeOrNull
<1>7. ASSUME NEW i \in Index, NavigateDown(i) PROVE TypeOK'
  <2>1. CASE i <= Len(children)
    <3>1. children[i] \in Node
      BY <2>1 DEF Index
    <3>2. MoveTo(children[i]) /\ children' = << >> /\ pc' = "explore"
      BY <1>7, <2>1 DEF NavigateDown
    <3> QED
      BY <1>1, <1>7, <3>1, <3>2 DEF NavigateDown
  <2>2. CASE ~(i <= Len(children))
    BY <1>7, <2>2 DEF NavigateDown
  <2> QED
    BY <2>1, <2>2
<1>8. ASSUME NEW n \in Node, ListNode(n) PROVE TypeOK'
  BY <1>8 DEF ListNode, NodeOrNull
<1>9. ASSUME NEW n \in Node, NavigateTo(n) PROVE TypeOK'
  <2>1. CASE NodeExists(n)
    <3>1. MoveTo(n) /\ children' = << >> /\ pc' = "explore_quiet"
      BY <1>9, <2>1 DEF NavigateTo
    <3> QED
      BY <1>1, <1>9, <3>1 DEF NavigateTo
  <2>2. CASE ~NodeExists(n)
    BY <1>9, <2>2 DEF NavigateTo
  <2> QED
    BY <2>1, <2>2
<1>10. CASE NavigateUp
  <2>1. CASE Top > 1
    <3>1. /\ SubSeq(history, 1, Top - 1) \in Seq(NodeOrNull)
          /\ Len(SubSeq(history, 1, Top - 1)) = Top - 1
          /\ history[Top - 1] \in NodeOrNull
          /\ Top - 1 \in 0 .. MaxHistory
          /\ Top - 1 <= MaxHistory
      BY <2>1, HistoryAssumption DEF Top
    <3>2. /\ history' = SubSeq(history, 1, Top - 1)
          /\ freed' = freed \ {Top}
          /\ currentNode' = history[Top - 1]
          /\ alias' = Top - 1
          /\ children' = << >>
          /\ pc' \in {"use_after_free", "explore"}
      BY <1>10, <2>1 DEF NavigateUp
    <3>3. UNCHANGED <<state, ctx, target, server>>
      BY <1>10 DEF NavigateUp
    <3>4. freed' \subseteq 1 .. MaxHistory
      BY <3>2
    <3>5. children' \in Seq(Node)
      BY <3>2
    <3>6. history' \in Seq(NodeOrNull) /\ Len(history') <= MaxHistory
      BY <3>1, <3>2
    <3> QED
      BY <3>1, <3>2, <3>3, <3>4, <3>5, <3>6
  <2>2. CASE ~(Top > 1)
    BY <1>10, <2>2 DEF NavigateUp
  <2> QED
    BY <2>1, <2>2
<1>11. CASE CommandWithoutClient
  BY <1>11 DEF CommandWithoutClient, NullClient
<1>12. CASE EnterConfig
  BY <1>12 DEF EnterConfig
<1>13. CASE LeaveConfig
  BY <1>13 DEF LeaveConfig
<1>14. ASSUME NEW e \in Endpoint, SetEndpoint(e) PROVE TypeOK'
  BY <1>14 DEF SetEndpoint
<1>15. ASSUME NEW n \in NodeOrNull, SetDefaultRoot(n) PROVE TypeOK'
  BY <1>15 DEF SetDefaultRoot
<1>16. CASE Quit
  BY <1>16 DEF Quit
<1>17. CASE ProbeDefaultRoot
  <2>1. ASSUME NEW r \in NodeOrNull, defaultRoot' = r, currentNode' = r,
               history' = addToHistory(r), ProbeDefaultRoot
        PROVE  TypeOK'
    BY <2>1, AddToHistory DEF ProbeDefaultRoot
  <2> QED
    BY <1>17, <2>1, NodesAssumption DEF ProbeDefaultRoot, NodeOrNull
<1>18. CASE Peek
  BY <1>18 DEF Peek, NodeOrNull
<1>19. CASE ExploreChildren
  BY <1>19, BrowseType DEF ExploreChildren
<1>20. CASE Environment
  BY <1>20 DEF Environment, Reconfigure, FlipLink
<1>21. CASE UNCHANGED vars
  BY <1>21 DEF vars
<1> QED
  BY <1>2, <1>3, <1>4, <1>5, <1>6, <1>7, <1>8, <1>9, <1>10, <1>11, <1>12,
     <1>13, <1>14, <1>15, <1>16, <1>17, <1>18, <1>19, <1>20, <1>21
  DEF Next, Command, Reply

\* Every variable keeps its type, whatever the operator and the server do.
THEOREM TypeCorrect == Spec => []TypeOK
  BY TypeStart, TypeStep, PTL DEF Spec
-----------------------------------------------------------------------------
(* Safety.  SessionCoherent, ListingOfCurrent, DanglingEntries and          *)
(* UseAfterFreeNeedsStrings hold together: with Strengthening they are one  *)
(* inductive invariant.                                                     *)

\* What the four need to be inductive: only a connected session waits for the
\* server, nothing is listed while the root is probed, and an entry is shared
\* only after a `cd ..` made room above it.
Strengthening ==
    /\ pc \in Pending => connected
    /\ pc = "probe" => children = << >>
    /\ alias < MaxHistory

Safe ==
    /\ SessionCoherent
    /\ ListingOfCurrent
    /\ DanglingEntries
    /\ UseAfterFreeNeedsStrings
    /\ Strengthening

\* Entering a node frees at most the entry it was copied from, which the new
\* entry then covers: the top of the history is a live one.
LEMMA MoveKeepsEntries ==
    ASSUME TypeOK, DanglingEntries, Strengthening, pc = "prompt",
           NEW n \in Node, MoveTo(n),
           pc' \in {"explore", "explore_quiet"}, connected'
    PROVE  DanglingEntries' /\ Strengthening' /\ history' # << >>
<1>1. /\ Len(history) \in Nat /\ MaxHistory \in Nat /\ MaxHistory > 0
      /\ n \in NodeOrNull /\ alias \in 0 .. MaxHistory
  BY HistoryAssumption DEF TypeOK, NodeOrNull
<1>2. /\ addToHistory(n) \in Seq(NodeOrNull)
      /\ Len(addToHistory(n)) >= Top
      /\ Top < MaxHistory => Len(addToHistory(n)) = Top + 1
      /\ Top >= MaxHistory => addToHistory(n) = history
      /\ \A i \in 1 .. Top : addToHistory(n)[i] = history[i]
      /\ addToHistory(n) # << >>
  BY <1>1, AddToHistory DEF TypeOK
<1>3. /\ history' = addToHistory(n) /\ alias' = 0
      /\ freed' = freed \cup FreedByClear
  BY DEF MoveTo
<1>4. \A i \in FreedByClear : i = Top /\ Top < MaxHistory /\ history[i] \in StringIds
  BY DEF FreedByClear, DanglingEntries, Strengthening
<1>5. \A i \in freed : i \in 1 .. Top /\ i < Top /\ history[i] \in StringIds
  BY <1>1 DEF DanglingEntries, TypeOK, Top
<1>6. \A i \in FreedByClear : i \in 1 .. Top
  BY <1>1, <1>4 DEF FreedByClear, Top
<1>7. \A i \in freed' : i \in 1 .. Top /\ history'[i] \in StringIds
  BY <1>2, <1>3, <1>4, <1>5, <1>6
<1>8. Top' \notin freed'
  <2>1. CASE Top < MaxHistory
    BY <1>1, <1>2, <1>3, <1>7, <2>1 DEF Top
  <2>2. CASE ~(Top < MaxHistory)
    BY <1>1, <1>2, <1>3, <1>4, <1>5, <2>2 DEF Top
  <2> QED
    BY <2>1, <2>2
<1>9. \A i \in freed' : i <= Top'
  BY <1>1, <1>2, <1>3, <1>7 DEF Top
<1> QED
  BY <1>1, <1>2, <1>3, <1>7, <1>8, <1>9 DEF DanglingEntries, Strengthening

\* Going back uncovers an entry that may be gone, and then only for a string
\* id; an entry still there is the one currentNode shares.
LEMMA BackKeepsEntries ==
    ASSUME TypeOK, DanglingEntries, Strengthening, NavigateUp, Top > 1,
           connected'
    PROVE  /\ DanglingEntries' /\ UseAfterFreeNeedsStrings' /\ Strengthening'
           /\ history' # << >> /\ children' = << >>
           /\ pc' \in {"explore", "use_after_free"}
<1>1. Len(history) \in Nat /\ MaxHistory \in Nat /\ Top <= MaxHistory
  BY HistoryAssumption DEF TypeOK, Top
<1>2. /\ history' = SubSeq(history, 1, Top - 1)
      /\ freed' = freed \ {Top}
      /\ currentNode' = history[Top - 1]
      /\ alias' = Top - 1
      /\ children' = << >>
      /\ pc' = IF Top - 1 \in freed THEN "use_after_free" ELSE "explore"
  BY DEF NavigateUp
<1>3. /\ Len(history') = Top - 1
      /\ \A i \in 1 .. Top - 1 : history'[i] = history[i]
  BY <1>1, <1>2 DEF TypeOK, Top
<1>4. \A i \in freed' : i \in 1 .. Top - 1 /\ history'[i] \in StringIds
  BY <1>1, <1>2, <1>3 DEF DanglingEntries, TypeOK, Top
<1>5. Top' = Top - 1 /\ currentNode' = history'[Top']
  BY <1>1, <1>2, <1>3 DEF Top
<1>6. DanglingEntries'
  BY <1>1, <1>2, <1>4, <1>5 DEF DanglingEntries, Top
<1>7. UseAfterFreeNeedsStrings'
  BY <1>1, <1>2, <1>3 DEF UseAfterFreeNeedsStrings, DanglingEntries, TypeOK, Top
<1>8. Strengthening' /\ pc' \in {"explore", "use_after_free"}
  BY <1>1, <1>2 DEF Strengthening, Top
<1>9. Len(history') > 0
  BY <1>1, <1>3 DEF Top
<1>10. history' # << >>
  BY <1>9
<1> QED
  BY <1>2, <1>6, <1>7, <1>8, <1>10

\* The actions that leave the history and currentNode alone.
LEMMA EntriesUntouched ==
    ASSUME DanglingEntries, Strengthening,
           UNCHANGED <<currentNode, alias, history, freed>>,
           pc # "use_after_free", pc' # "use_after_free",
           pc' # "probe", pc' \in Pending => connected'
    PROVE  DanglingEntries' /\ UseAfterFreeNeedsStrings' /\ Strengthening'
  BY DEF DanglingEntries, UseAfterFreeNeedsStrings, Strengthening, Top

\* Nothing is known, listed or recorded at the start.
LEMMA SafeStart == Init => Safe
  BY HistoryAssumption
  DEF Init, Safe, SessionCoherent, ListingOfCurrent, DanglingEntries,
      UseAfterFreeNeedsStrings, Strengthening, Pending, Top

\* One case per command, reply and change of the server.
LEMMA SafeStep == TypeOK /\ Safe /\ [Next]_vars => Safe'
<1> SUFFICES ASSUME TypeOK, Safe, [Next]_vars PROVE Safe'
  OBVIOUS
<1> USE DEF Safe
<1>1. CASE AlreadyConnected \/ UNCHANGED vars
  BY <1>1 DEF AlreadyConnected, vars, SessionCoherent, ListingOfCurrent,
     DanglingEntries, UseAfterFreeNeedsStrings, Strengthening, Top
<1>2. CASE ConnectFails
  <2>1. DanglingEntries' /\ UseAfterFreeNeedsStrings' /\ Strengthening'
    BY <1>2, EntriesUntouched DEF ConnectFails, Pending
  <2> QED
    BY <1>2, <2>1 DEF ConnectFails, SessionCoherent, ListingOfCurrent
<1>3. ASSUME NEW e \in Endpoint \cup {NoEndpoint}, ConnectSucceeds(e)
      PROVE  Safe'
  <2>1. history = << >> /\ children = << >> /\ freed = {}
    BY <1>3 DEF ConnectSucceeds, SessionCoherent, DanglingEntries, TypeOK, Top
  <2> QED
    BY <1>3, <2>1, HistoryAssumption
    DEF ConnectSucceeds, SessionCoherent, ListingOfCurrent, DanglingEntries,
        UseAfterFreeNeedsStrings, Strengthening, Top
<1>4. CASE ProbeDefaultRoot
  <2>1. history = << >> /\ children = << >> /\ connected /\ client
    BY <1>4 DEF ProbeDefaultRoot, SessionCoherent, Strengthening, Pending
  <2>2. alias = 0 /\ freed = {}
    BY <2>1, <1>4 DEF ProbeDefaultRoot, DanglingEntries, TypeOK, Top
  <2>3. history' # << >>
    <3>1. ASSUME NEW r \in NodeOrNull PROVE addToHistory(r) # << >>
      BY AddToHistory DEF TypeOK
    <3> QED
      BY <1>4, <3>1, NodesAssumption DEF ProbeDefaultRoot, TypeOK, NodeOrNull
  <2>4. Len(history') \in Nat /\ Len(history') # 0
    <3>1. ASSUME NEW r \in NodeOrNull
          PROVE  Len(addToHistory(r)) = Top + 1
      BY <2>1, HistoryAssumption, AddToHistory DEF TypeOK, Top
    <3> QED
      BY <1>4, <2>1, <3>1, NodesAssumption
      DEF ProbeDefaultRoot, TypeOK, NodeOrNull, Top
  <2> QED
    BY <1>4, <2>1, <2>2, <2>3, <2>4, HistoryAssumption
    DEF ProbeDefaultRoot, SessionCoherent, ListingOfCurrent, DanglingEntries,
        UseAfterFreeNeedsStrings, Strengthening, Top
<1>5. CASE ListCurrent
  <2>1. DanglingEntries'
    BY <1>5 DEF ListCurrent, DanglingEntries, Top
  <2> QED
    BY <1>5, <2>1, HistoryAssumption
    DEF ListCurrent, SessionCoherent, ListingOfCurrent,
        UseAfterFreeNeedsStrings, Strengthening
<1>6. ASSUME NEW i \in Index, ListIndex(i) PROVE Safe'
  <2>1. DanglingEntries' /\ UseAfterFreeNeedsStrings' /\ Strengthening'
    BY <1>6, EntriesUntouched DEF ListIndex, SessionCoherent, Strengthening, Pending
  <2> QED
    BY <1>6, <2>1 DEF ListIndex, SessionCoherent, ListingOfCurrent
<1>7. ASSUME NEW n \in Node, ListNode(n) PROVE Safe'
  <2>1. DanglingEntries' /\ UseAfterFreeNeedsStrings' /\ Strengthening'
    BY <1>7, EntriesUntouched DEF ListNode, SessionCoherent, Strengthening, Pending
  <2> QED
    BY <1>7, <2>1 DEF ListNode, SessionCoherent, ListingOfCurrent
<1>8. CASE Peek
  <2>1. DanglingEntries' /\ UseAfterFreeNeedsStrings' /\ Strengthening'
    BY <1>8, EntriesUntouched DEF Peek, SessionCoherent, Strengthening, Pending
  <2> QED
    BY <1>8, <2>1 DEF Peek, SessionCoherent, ListingOfCurrent
<1>9. ASSUME NEW i \in Index, NavigateDown(i) PROVE Safe'
  <2>1. CASE i <= Len(children)
    <3>1. children[i] \in Node
      BY <2>1 DEF Index, TypeOK
    <3>2. /\ MoveTo(children[i]) /\ children' = << >> /\ pc' = "explore"
          /\ pc = "prompt"
      BY <1>9, <2>1 DEF NavigateDown
    <3>3. DanglingEntries' /\ Strengthening' /\ history' # << >>
      BY <1>9, <3>1, <3>2, MoveKeepsEntries DEF NavigateDown, SessionCoherent
    <3> QED
      BY <1>9, <3>2, <3>3 DEF NavigateDown, SessionCoherent,
         ListingOfCurrent, UseAfterFreeNeedsStrings
  <2>2. CASE ~(i <= Len(children))
    <3>1. DanglingEntries' /\ UseAfterFreeNeedsStrings' /\ Strengthening'
      BY <1>9, <2>2, EntriesUntouched DEF NavigateDown, Pending
    <3> QED
      BY <1>9, <2>2, <3>1 DEF NavigateDown, SessionCoherent, ListingOfCurrent
  <2> QED
    BY <2>1, <2>2
<1>10. ASSUME NEW n \in Node, NavigateTo(n) PROVE Safe'
  <2>1. CASE NodeExists(n)
    <3>1. /\ MoveTo(n) /\ children' = << >> /\ pc' = "explore_quiet"
          /\ pc = "prompt"
      BY <1>10, <2>1 DEF NavigateTo
    <3>2. DanglingEntries' /\ Strengthening' /\ history' # << >>
      BY <1>10, <3>1, MoveKeepsEntries DEF NavigateTo, SessionCoherent
    <3> QED
      BY <1>10, <3>1, <3>2 DEF NavigateTo, SessionCoherent,
         ListingOfCurrent, UseAfterFreeNeedsStrings
  <2>2. CASE ~NodeExists(n)
    <3>1. DanglingEntries' /\ UseAfterFreeNeedsStrings' /\ Strengthening'
      BY <1>10, <2>2, EntriesUntouched DEF NavigateTo, Pending
    <3> QED
      BY <1>10, <2>2, <3>1 DEF NavigateTo, SessionCoherent, ListingOfCurrent
  <2> QED
    BY <2>1, <2>2
<1>11. CASE NavigateUp
  <2>1. CASE Top > 1
    <3>1. /\ DanglingEntries' /\ UseAfterFreeNeedsStrings' /\ Strengthening'
          /\ history' # << >> /\ children' = << >>
          /\ pc' \in {"explore", "use_after_free"}
      BY <1>11, <2>1, BackKeepsEntries DEF NavigateUp, SessionCoherent
    <3>2. client /\ connected /\ UNCHANGED <<client, connected>>
      BY <1>11 DEF NavigateUp, SessionCoherent
    <3> QED
      BY <3>1, <3>2 DEF SessionCoherent, ListingOfCurrent
  <2>2. CASE ~(Top > 1)
    <3>1. DanglingEntries' /\ UseAfterFreeNeedsStrings' /\ Strengthening'
      BY <1>11, <2>2, EntriesUntouched DEF NavigateUp, Pending
    <3> QED
      BY <1>11, <2>2, <3>1 DEF NavigateUp, SessionCoherent, ListingOfCurrent
  <2> QED
    BY <2>1, <2>2
<1>12. CASE ExploreChildren
  <2>1. DanglingEntries' /\ UseAfterFreeNeedsStrings' /\ Strengthening'
    BY <1>12, EntriesUntouched DEF ExploreChildren, Pending
  <2>2. ListingOfCurrent'
    BY <1>12 DEF ExploreChildren, ListingOfCurrent, Browse, TypeOK
  <2>3. SessionCoherent'
    BY <1>12 DEF ExploreChildren, SessionCoherent, Strengthening, Pending
  <2> QED
    BY <2>1, <2>2, <2>3
<1>13. CASE CommandWithoutClient \/ EnterConfig \/ LeaveConfig \/ Quit
  <2>1. DanglingEntries' /\ UseAfterFreeNeedsStrings' /\ Strengthening'
    BY <1>13, EntriesUntouched
    DEF CommandWithoutClient, NullClient, EnterConfig, LeaveConfig, Quit, Pending
  <2>2. /\ UNCHANGED <<client, connected, children, history, currentNode>>
        /\ pc # "probe" /\ pc' # "probe"
        /\ pc' = "null_client" => ~client
    BY <1>13
    DEF CommandWithoutClient, NullClient, EnterConfig, LeaveConfig, Quit
  <2> QED
    BY <2>1, <2>2 DEF SessionCoherent, ListingOfCurrent
<1>14. CASE (\E e \in Endpoint : SetEndpoint(e))
            \/ (\E n \in NodeOrNull : SetDefaultRoot(n))
  <2>1. DanglingEntries' /\ UseAfterFreeNeedsStrings' /\ Strengthening'
    BY <1>14, EntriesUntouched DEF SetEndpoint, SetDefaultRoot, Pending
  <2> QED
    BY <1>14, <2>1
    DEF SetEndpoint, SetDefaultRoot, SessionCoherent, ListingOfCurrent
<1>15. CASE Environment
  BY <1>15
  DEF Environment, Reconfigure, FlipLink, SessionCoherent, ListingOfCurrent,
      DanglingEntries, UseAfterFreeNeedsStrings, Strengthening, Top
<1> QED
  BY <1>1, <1>2, <1>3, <1>4, <1>5, <1>6, <1>7, <1>8, <1>9, <1>10, <1>11,
     <1>12, <1>13, <1>14, <1>15
  DEF Next, Command, Reply

\* The invariants hold of the first state and are kept by every step.
THEOREM SafetyCorrect == Spec => []Safe
  BY SafeStart, SafeStep, TypeCorrect, PTL DEF Spec

\* One by one, as the runs check them.
COROLLARY Coherent == Spec => []SessionCoherent
BY SafetyCorrect, PTL DEF Safe

COROLLARY ListingIsCurrent == Spec => []ListingOfCurrent
BY SafetyCorrect, PTL DEF Safe

COROLLARY DanglingBounded == Spec => []DanglingEntries
BY SafetyCorrect, PTL DEF Safe

\* A freed identifier that is read back is a string id, in every behaviour.
COROLLARY FreedIdsAreStrings == Spec => []UseAfterFreeNeedsStrings
BY SafetyCorrect, PTL DEF Safe

\* A server that names its nodes by number is safe to walk in any order: no
\* sequence of commands reads a freed identifier.
COROLLARY NumericServersAreSafe ==
    ASSUME StringIds = {}
    PROVE  Spec => [](pc # "use_after_free")
<1>1. UseAfterFreeNeedsStrings => pc # "use_after_free"
  BY DEF UseAfterFreeNeedsStrings
<1> QED
  BY <1>1, SafetyCorrect, PTL DEF Safe

-----------------------------------------------------------------------------
(* The history implements the back-trail of module Trail. *)

\* A step of the session is one of the trail, or none.
LEMMA TrailStep == TypeOK /\ Safe /\ [Next]_vars => [Walk!Next]_(Walk!vars)
<1> SUFFICES ASSUME TypeOK, Safe, [Next]_vars
             PROVE  [Walk!Next]_(Walk!vars)
  OBVIOUS
<1> USE DEF Safe
<1>1. CASE UNCHANGED <<currentNode, history, defaultRoot>>
  BY <1>1 DEF Walk!vars
<1>2. ASSUME NEW n \in Node, MoveTo(n), connected, pc = "prompt",
             UNCHANGED defaultRoot
      PROVE  Walk!Next
  <2>1. history # << >>
    BY <1>2 DEF SessionCoherent
  <2> QED
    BY <1>2, <2>1 DEF MoveTo, addToHistory, Top, Walk!Next, Walk!Visit
<1>3. ASSUME NEW e \in Endpoint \cup {NoEndpoint}, ConnectSucceeds(e)
      PROVE  Walk!Next
  <2>1. history = << >> /\ currentNode' = defaultRoot
        /\ UNCHANGED <<history, defaultRoot>>
    BY <1>3 DEF ConnectSucceeds, SessionCoherent
  <2> QED
    BY <2>1 DEF TypeOK, NodeOrNull, Walk!Next, Walk!Arrive
<1>4. CASE ProbeDefaultRoot
  <2>1. history = << >> /\ Top = 0
    BY <1>4 DEF ProbeDefaultRoot, SessionCoherent, Strengthening, Pending, Top
  <2>2. ASSUME NEW r PROVE addToHistory(r) = <<r>>
    BY <2>1, HistoryAssumption DEF addToHistory
  <2>3. \E r \in NodeOrNull :
            defaultRoot' = r /\ currentNode' = r /\ history' = <<r>>
    BY <1>4, <2>2, NodesAssumption DEF ProbeDefaultRoot, TypeOK, NodeOrNull
  <2> QED
    BY <2>1, <2>3 DEF NodeOrNull, Walk!Next, Walk!Enter
<1>5. CASE ListCurrent
  <2>1. history # << >> /\ UNCHANGED <<history, defaultRoot>>
    BY <1>5 DEF ListCurrent, SessionCoherent
  <2>2. CASE children = << >>
    BY <1>5, <2>1, <2>2
    DEF ListCurrent, TypeOK, NodeOrNull, Walk!Next, Walk!ReturnToBase
  <2>3. CASE children # << >>
    BY <1>1, <1>5, <2>1, <2>3 DEF ListCurrent
  <2> QED
    BY <2>2, <2>3
<1>6. ASSUME NEW i \in Index, NavigateDown(i)
      PROVE  [Walk!Next]_(Walk!vars)
  <2>1. CASE i <= Len(children)
    <3>1. children[i] \in Node
      BY <2>1 DEF Index, TypeOK
    <3> QED
      BY <1>2, <1>6, <2>1, <3>1 DEF NavigateDown, SessionCoherent
  <2>2. CASE ~(i <= Len(children))
    BY <1>1, <1>6, <2>2 DEF NavigateDown
  <2> QED
    BY <2>1, <2>2
<1>7. ASSUME NEW n \in Node, NavigateTo(n)
      PROVE  [Walk!Next]_(Walk!vars)
  <2>1. CASE NodeExists(n)
    BY <1>2, <1>7, <2>1 DEF NavigateTo, SessionCoherent
  <2>2. CASE ~NodeExists(n)
    BY <1>1, <1>7, <2>2 DEF NavigateTo
  <2> QED
    BY <2>1, <2>2
<1>8. CASE NavigateUp
  <2>1. CASE Top > 1
    BY <1>8, <2>1 DEF NavigateUp, Top, Walk!Next, Walk!Back
  <2>2. CASE ~(Top > 1)
    BY <1>1, <1>8, <2>2 DEF NavigateUp
  <2> QED
    BY <2>1, <2>2
<1>9. CASE AlreadyConnected \/ UNCHANGED vars
  BY <1>1, <1>9 DEF AlreadyConnected, vars
<1>10. ASSUME NEW i \in Index, ListIndex(i)
       PROVE  [Walk!Next]_(Walk!vars)
  BY <1>1, <1>10 DEF ListIndex
<1>11. ASSUME NEW n \in Node, ListNode(n)
       PROVE  [Walk!Next]_(Walk!vars)
  BY <1>1, <1>11 DEF ListNode
<1>12. CASE ConnectFails \/ Peek \/ ExploreChildren \/ CommandWithoutClient
  BY <1>1, <1>12
  DEF ConnectFails, Peek, ExploreChildren, CommandWithoutClient, NullClient
<1>13. CASE \/ EnterConfig \/ LeaveConfig \/ Quit
            \/ \E e \in Endpoint : SetEndpoint(e)
  BY <1>1, <1>13 DEF EnterConfig, LeaveConfig, Quit, SetEndpoint
<1>14. CASE Environment
  BY <1>1, <1>14 DEF Environment, Reconfigure, FlipLink
<1>15. ASSUME NEW n \in NodeOrNull, SetDefaultRoot(n)
       PROVE  Walk!Next
  BY <1>15 DEF SetDefaultRoot, NodeOrNull, Walk!Next, Walk!ChangeBase
<1> QED
  BY <1>3, <1>4, <1>5, <1>6, <1>7, <1>8, <1>9, <1>10, <1>11, <1>12, <1>13,
     <1>14, <1>15
  DEF Next, Command, Reply

\* A command maps to a visit, a step back or a return to the root; what the
\* server does, and every other command, is a stutter of the trail.
THEOREM HistoryIsTrail == Spec => TrailKept
<1>1. Init => Walk!Init
  BY NodesAssumption DEF Init, Walk!Init
<1>2. QED
  BY <1>1, TrailStep, TypeCorrect, SafetyCorrect, PTL DEF Spec, TrailKept, Walk!Spec

\* No step of the trail loses its first entry.
LEMMA EntryStep ==
    ASSUME TypeOK, Safe, [Next]_vars, history # << >>
    PROVE  history' # << >> /\ history'[1] = history[1]
<1>1. Len(history) \in Nat /\ Len(history) >= 1
  BY DEF TypeOK
<1>2. CASE UNCHANGED Walk!vars
  BY <1>2 DEF Walk!vars
<1>3. ASSUME NEW p \in Node, Walk!Visit(p)
      PROVE  history' # << >> /\ history'[1] = history[1]
  <2>1. history' = addToHistory(p)
    BY <1>3 DEF Walk!Visit, addToHistory, Top
  <2>2. /\ addToHistory(p) # << >>
        /\ \A i \in 1 .. Top : addToHistory(p)[i] = history[i]
    BY AddToHistory DEF TypeOK, NodeOrNull
  <2>3. 1 \in 1 .. Top
    BY <1>1 DEF Top
  <2> QED
    BY <2>1, <2>2, <2>3
<1>4. CASE Walk!Back
  <2>1. /\ Len(history) > 1
        /\ history' = SubSeq(history, 1, Len(history) - 1)
    BY <1>4 DEF Walk!Back
  <2>2. Len(history') = Len(history) - 1 /\ history'[1] = history[1]
    BY <1>1, <2>1 DEF TypeOK
  <2>3. Len(history') > 0
    BY <1>1, <2>1, <2>2
  <2> QED
    BY <2>2, <2>3
<1>5. [Walk!Next]_(Walk!vars)
  BY TrailStep
<1> QED
  BY <1>2, <1>3, <1>4, <1>5
  DEF Walk!Next, Walk!Arrive, Walk!Enter, Walk!ReturnToBase, Walk!ChangeBase

\* The node the session entered the server at stays the first of the
\* history through every step.
THEOREM EntryKept == Spec => EntryNodeKept
<1>1. TypeOK /\ Safe /\ [Next]_vars
        => [history # << >> => history' # << >> /\ history'[1] = history[1]]_vars
  BY EntryStep
<1> QED
  BY <1>1, TypeCorrect, SafetyCorrect, PTL DEF Spec, EntryNodeKept
=============================================================================
