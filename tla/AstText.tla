------------------------------ MODULE AstText ------------------------------
(***************************************************************************)
(* The text of the AST that parser_parse writes for its trace line, into a *)
(* buffer of fixed size: ast_to_string_ast, piece by piece.  A piece is    *)
(* known by its length: what snprintf would have written is what each call *)
(* adds to the offset, also when the buffer was too small for it.          *)
(***************************************************************************)
EXTENDS Naturals, SequencesExt

CONSTANT BufSize    \* DBGBUF_SIZE, 4096 in debug_buf.h

\* The length of ast_to_string_nodetype; the default is "UNKNOWN".
TypeLength(kind) ==
    CASE kind = "connect"       -> 11
      [] kind = "list_dirs"     -> 13
      [] kind = "parameter"     -> 13
      [] kind = "range"         -> 9
      [] kind = "ip"            -> 6
      [] kind = "nodeid"        -> 10
      [] kind = "navigate_up"   -> 15
      [] kind = "navigate_down" -> 17
      [] kind = "navigate_to"   -> 15
      [] kind = "save"          -> 13
      [] OTHER                  -> 7

\* The length of the line behind it.  Only a range and an address depend on
\* what was typed: numbers of one digit, or (`wide`) as long as an int has them
\* and as the 31 characters kept of an address.
BodyLength(kind, wide) ==
    CASE kind = "connect"       -> 7
      [] kind = "list_dirs"     -> 9
      [] kind = "parameter"     -> 36
      [] kind = "range"         -> IF wide THEN 29 ELSE 11
      [] kind = "ip"            -> IF wide THEN 35 ELSE 11
      [] kind = "nodeid"        -> 6
      [] kind = "navigate_up"   -> 10
      [] kind = "navigate_down" -> 12
      [] kind = "navigate_to"   -> 10
      [] OTHER                  -> 42

\* ast_to_string_node without its children: "NodeType: ..." and the line.
NodeLength(kind, indent, wide) ==
    2 * indent + 11 + TypeLength(kind) + 2 * indent + BodyLength(kind, wide)

\* A child as a node of its own; the index of a listing, which is read before
\* the rest of it, is none.
Kind(child) == IF child \in {"int", "string"} THEN "parameter" ELSE child
Shown(s) ==
    IF s.children # << >> /\ Head(s.children) = "index" THEN Tail(s.children)
                                                       ELSE s.children

\* Mutant: the parent is printed again in front of each child.
StatementLength_Again(s, wide) ==
    LET own == NodeLength(s.type, 0, wide)
        sum[k \in 0 .. Len(Shown(s))] ==
            IF k = 0 THEN own
            ELSE sum[k - 1] + own + 10 + NodeLength(Kind(Shown(s)[k]), 1, wide)
    IN  sum[Len(Shown(s))]

\* The statement, then "[CHILD_i]" and the node for each of its children.
StatementLength(s, wide) ==
    LET sum[k \in 0 .. Len(Shown(s))] ==
            IF k = 0 THEN NodeLength(s.type, 0, wide)
            ELSE sum[k - 1] + 10 + NodeLength(Kind(Shown(s)[k]), 1, wide)
    IN  sum[Len(Shown(s))]

\* The last piece: the line of the last node.
LastLength(s, wide) ==
    IF Shown(s) = << >> THEN BodyLength(s.type, wide)
                        ELSE 2 + BodyLength(Kind(Last(Shown(s))), wide)

\* "AST (n nodes):", then every statement.
TextLength(statements, wide) ==
    LET n == Len(statements)
        digits == IF n < 10 THEN 1 ELSE IF n < 100 THEN 2 ELSE 3
        sum[k \in 0 .. n] ==
            IF k = 0 THEN 14 + digits
            ELSE sum[k - 1] + StatementLength(statements[k], wide)
    IN  sum[n]

\* The last piece is asked for although the offset is past the buffer: the size
\* that is left wraps around, and the piece is written behind the buffer.
Overruns(statements, wide) ==
    /\ statements # << >>
    /\ TextLength(statements, wide) - LastLength(Last(statements), wide) > BufSize
=============================================================================
