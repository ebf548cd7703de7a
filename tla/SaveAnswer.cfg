\* Enter at the overwrite question.
SPECIFICATION Spec
CONSTANTS
    null = null
    num = num
    dbl = dbl
    str = str
    obj = obj
    tag = tag
    leaf = leaf
    Node <- MCNode
    NullId = null
    OpaqueIds <- NoNodes
    Servers <- StaticServers
    Listings <- OneListing
    Line <- MCLine
    Name <- MCName
    OutputPath <- Out
    Unopenable <- NoNames
    Reliable = TRUE
    MaxFound = 1
    MaxTyped = 2
    MaxSaves = 2
INVARIANT AnswerIsOneLine
CHECK_DEADLOCK FALSE
