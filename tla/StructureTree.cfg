\* Two explorations of a server that changes twice, and of one that does not.
SPECIFICATION Spec
CONSTANTS
    r = r
    num = num
    arr = arr
    recs = recs
    t = t
    inner = inner
    Node <- MCNode
    NullId = NullId
    NoType = NoType
    Servers <- MCServers
    Roots <- MCRoots
    MaxDepth = 7
    MaxWalks = 2
    MaxChanges = 2
INVARIANTS
    TypeOK
    CollectExact
    NullIdNeedsRootChange
    OverflowNeedsCycle
    LostNeedsChange
    FoundBelowRoot
PROPERTY WalkEnds
CHECK_DEADLOCK FALSE
