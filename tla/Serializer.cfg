\* Lists around the size of the first buffer, and around all the memory.
SPECIFICATION Spec
CONSTANTS
    Lists <- MCLists
    InitialSize = 10240
    MaxMemory = 40960
INVARIANTS
    InBounds
    WholeText
PROPERTIES
    Serialized
    WritesOnce
CHECK_DEADLOCK FALSE
