\* Three nodes, two address spaces, a history of three entries.
SPECIFICATION Spec
CONSTANTS
    objects = objects
    folder = folder
    tag = tag
    null = null
    Node <- MCNode
    NullId = null
    Objects = objects
    StringIds <- MCStringIds
    Spaces <- MCSpaces
    Endpoint <- MCEndpoint
    Listening <- MCListening
    DefaultEndpoint = "plc"
    MaxHistory = 3
INVARIANTS
    SessionCoherent
    ListingOfCurrent
    DanglingEntries
    UseAfterFreeNeedsStrings
PROPERTIES
    TrailKept
    CommandReturns
