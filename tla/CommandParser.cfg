\* The parser over every short line and over the long arguments.
SPECIFICATION Spec
CONSTANT Input <- MCInput
INVARIANTS
    SetIsLast
    CommandsKept
PROPERTIES
    CommandsSeparate
    TokensAccounted
