\* Sessions of any number of lines, on a server that changes.
SPECIFICATION CluaSpec
CONSTANTS
    base = base
    tag = tag
    null = null
    Input <- MCInput
    BufSize = 300
    Node <- MCNode
    NullId = null
    Objects = base
    StringIds <- MCStringIds
    Spaces <- MCSpaces
    Endpoint <- MCEndpoint
    Listening <- MCEndpoint
    DefaultEndpoint = "plc"
    MaxHistory = 2
INVARIANTS
    TypeOK
    StatePerStatement
    OneMovePerStatement
    OverrunNeedsLongLine
PROPERTIES
    HistoryWasTyped
    LineAnswered
\* The program ends.
CHECK_DEADLOCK FALSE
