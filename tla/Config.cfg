\* The settings set in any order, and every file loaded over any of them.
SPECIFICATION Spec
CONSTANTS
    objects = objects
    machine = machine
    null = null
    NodeId <- MCNodeId
    NullId = null
    Value <- MCValue
    DefaultConfig <- MCDefault
    File <- MCFile
INVARIANTS
    FilterListsNamed
PROPERTIES
    LoadedAsWritten
    LoadKeepsRoot
