\* A Double and the filter.
SPECIFICATION Spec
CONSTANTS
    null = null
    num = num
    dbl = dbl
    str = str
    obj = obj
    tag = tag
    leaf = leaf
    Node <- MCNode
    NullId = null
    OpaqueIds <- NoNodes
    Servers <- StaticServers
    Listings <- MCListings
    Line <- FewLines
    Name <- MCName
    OutputPath <- Out
    Unopenable <- NoNames
    Reliable = TRUE
    MaxFound = 1
    MaxTyped = 2
    MaxSaves = 2
PROPERTY RefusedIsNotNumeric
CHECK_DEADLOCK FALSE
