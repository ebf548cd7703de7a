\* The message of a second `con`, on a link that may drop.
SPECIFICATION Spec
CONSTANTS
    objects = objects
    folder = folder
    tag = tag
    null = null
    Node <- MCNode
    NullId = null
    Objects = objects
    StringIds <- MCStringIds
    Spaces <- MCSpaces
    Endpoint <- MCEndpoint
    Listening <- MCListening
    DefaultEndpoint = "plc"
    MaxHistory = 3
INVARIANT AlreadyConnectedIsTrue
