\* Every character class next to every other.
SPECIFICATION Spec
\* The function returns.
CHECK_DEADLOCK FALSE
CONSTANT Text <- MCText
INVARIANTS
    Tiling
    ValuesKeepText
    WholeWords
    Handover
