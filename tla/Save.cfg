\* Two saves on a server and a link that change, one line typed ahead.
SPECIFICATION Spec
CONSTANTS
    null = null
    num = num
    dbl = dbl
    str = str
    obj = obj
    tag = tag
    leaf = leaf
    Node <- MCNode
    NullId = null
    OpaqueIds <- OpaqueNodes
    Servers <- ChangingServers
    Listings <- OneListing
    Line <- MCLine
    Name <- MCName
    OutputPath <- Out
    Unopenable <- Lost
    Reliable = FALSE
    MaxFound = 1
    MaxTyped = 1
    MaxSaves = 2
INVARIANTS
    SubsetFits
    HeapErrorOnlyPastListing
    SubsetFromRange
    SelectionExact
PROPERTIES
    OldContentKept
    SaveReturns
