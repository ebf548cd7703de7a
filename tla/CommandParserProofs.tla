------------------------ MODULE CommandParserProofs ------------------------
(* The parser stays inside its token list, accounts for every token it takes *)
(* and every command it throws away, leaves nothing behind a "set", and gets *)
(* to the end of the list, for every line.                                   *)
EXTENDS CommandParser, SequenceTheorems, TLAPS

\* What the lexer hands over: the end is marked once, at the end.
EofAtEnd ==
    /\ Len(tokens) > 0
    /\ tokens[Len(tokens)] = "eof"
    /\ \A p \in 1 .. Len(tokens) - 1 : tokens[p] \in Token

\* Behind a "set" only the end is left.
SetTakesRest ==
    \A k \in 1 .. Len(statements) :
       statements[k].type = "set" => k = Len(statements) /\ current >= Eof

IInv == TypeOK /\ EofAtEnd /\ SetTakesRest /\ CommandsKept

LEMMA NoEofToken == "eof" \notin Token
  BY DEF Token, Identifier, Keyword, Punctuation, Unhandled

-----------------------------------------------------------------------------
(* The sub-parsers. *)

\* Tokens that are looked for and found are all before the end.
LEMMA AheadBound ==
    ASSUME TypeOK, EofAtEnd, NEW p \in 1 .. Len(tokens),
           NEW kinds \in Seq(SUBSET Token), Len(kinds) > 0, Ahead(p, kinds)
    PROVE  p + Len(kinds) <= Len(tokens)
<1>1. Len(kinds) \in DOMAIN kinds /\ Len(kinds) \in Nat /\ Len(tokens) \in Nat
  BY DEF TypeOK
<1>2. tokens[p + Len(kinds) - 1] \in kinds[Len(kinds)]
  BY <1>1 DEF Ahead
<1>3. kinds[Len(kinds)] \in SUBSET Token
  BY <1>1
<1>4. tokens[p + Len(kinds) - 1] # "eof"
  BY <1>2, <1>3, NoEofToken
<1>5. p + Len(kinds) - 1 <= Len(tokens) /\ p + Len(kinds) - 1 # Len(tokens)
  BY <1>4 DEF Ahead, EofAtEnd
<1>6. QED  BY <1>1, <1>5

\* A sub-parser that starts in the list stops in the list; with something
\* found, it has moved on.
Result(p, result) ==
    /\ result.child \in Seq(Child) /\ Len(result.child) <= 1
    /\ result.next \in p .. Len(tokens)
    /\ result.child # << >> => result.next > p

LEMMA NothingResult ==
    ASSUME TypeOK, NEW p \in 1 .. Len(tokens)
    PROVE  Result(p, Nothing(p))
<1>1. << >> \in Seq(Child) /\ Len(<< >>) = 0
  OBVIOUS
<1>2. p \in p .. Len(tokens)
  BY DEF TypeOK
<1>3. QED  BY <1>1, <1>2 DEF Result, Nothing

\* The result of a sub-parser that found one thing.
LEMMA OneResult ==
    ASSUME TypeOK, NEW p \in 1 .. Len(tokens), NEW c \in Child,
           NEW q \in Nat, p < q, q <= Len(tokens)
    PROVE  Result(p, [child |-> <<c>>, next |-> q])
<1>1. <<c>> \in Seq(Child) /\ Len(<<c>>) = 1
  OBVIOUS
<1>2. QED  BY <1>1 DEF Result, TypeOK

LEMMA RangeResult ==
    ASSUME TypeOK, EofAtEnd, NEW p \in 1 .. Len(tokens)
    PROVE  Result(p, parse_range(p))
<1> DEFINE kinds == <<Number, {"minus"}, Number>>
<1>1. CASE Ahead(p, kinds)
  <2>1. kinds \in Seq(SUBSET Token) /\ Len(kinds) = 3 /\ Len(kinds) > 0
    BY DEF Number, Token, Punctuation
  <2> HIDE DEF kinds
  <2>2. p + Len(kinds) <= Len(tokens)
    BY <1>1, <2>1, AheadBound
  <2> USE DEF kinds
  <2>3. "range" \in Child /\ p + 3 \in Nat /\ p < p + 3
    BY DEF Child
  <2>4. Result(p, [child |-> <<"range">>, next |-> p + 3])
    BY <2>1, <2>2, <2>3, OneResult
  <2>5. QED  BY <1>1, <2>4 DEF parse_range
<1>2. CASE ~Ahead(p, kinds)
  BY <1>2, NothingResult DEF parse_range
<1>3. QED  BY <1>1, <1>2

LEMMA IpResult ==
    ASSUME TypeOK, EofAtEnd, NEW p \in 1 .. Len(tokens)
    PROVE  Result(p, parse_ip(p))
<1> DEFINE kinds == <<Number, Dot, Number, Dot, Number, Dot, Number>>
<1>1. CASE Ahead(p, kinds)
  <2>1. kinds \in Seq(SUBSET Token) /\ Len(kinds) = 7 /\ Len(kinds) > 0
    BY DEF Number, Dot, Token, Punctuation
  <2> HIDE DEF kinds
  <2>2. p + Len(kinds) <= Len(tokens)
    BY <1>1, <2>1, AheadBound
  <2> USE DEF kinds
  <2>3. "ip" \in Child /\ p + 7 \in Nat /\ p < p + 7
    BY DEF Child
  <2>4. Result(p, [child |-> <<"ip">>, next |-> p + 7])
    BY <2>1, <2>2, <2>3, OneResult
  <2>5. QED  BY <1>1, <2>4 DEF parse_ip
<1>2. CASE ~Ahead(p, kinds)
  BY <1>2, NothingResult DEF parse_ip
<1>3. QED  BY <1>1, <1>2

LEMMA ParameterResult ==
    ASSUME TypeOK, EofAtEnd, NEW p \in 1 .. Len(tokens)
    PROVE  Result(p, parse_parameter(p))
<1>1. ASSUME tokens[p] # "eof" PROVE p + 1 \in Nat /\ p < p + 1 /\ p + 1 <= Len(tokens)
  BY <1>1 DEF EofAtEnd, TypeOK
<1>2. {"string", "int"} \subseteq Child
  BY DEF Child
<1>3. CASE tokens[p] \in Identifier
  <2>1. tokens[p] # "eof" /\ tokens[p] # "number"
    BY <1>3 DEF Identifier
  <2>2. Result(p, [child |-> <<"string">>, next |-> p + 1])
    BY <1>1, <1>2, <2>1, OneResult
  <2>3. QED  BY <1>3, <2>1, <2>2 DEF parse_parameter
<1>4. CASE tokens[p] = "number"
  <2>1. tokens[p] # "eof" /\ tokens[p] \notin Identifier
    BY <1>4 DEF Identifier
  <2>2. Result(p, [child |-> <<"int">>, next |-> p + 1])
    BY <1>1, <1>2, <2>1, OneResult
  <2>3. QED  BY <1>4, <2>1, <2>2 DEF parse_parameter
<1>5. CASE tokens[p] \notin Identifier /\ tokens[p] # "number"
  <2>1. parse_parameter(p) = Nothing(p)
    BY <1>5 DEF parse_parameter
  <2>2. QED  BY <2>1, NothingResult
<1>6. QED  BY <1>3, <1>4, <1>5

\* A node id, whole, broken off, or not there.
LEMMA NodeIdResult ==
    ASSUME TypeOK, EofAtEnd, NEW p \in 1 .. Len(tokens)
    PROVE  Result(p, parse_nodeid(p))
<1> DEFINE ns    == <<{"ns"}, {"assign"}, Number, {"semicolon"}>>
           int   == <<{"i"}, {"assign"}, Number>>
           str   == <<{"s"}, {"assign"}>>
           other == <<Identifier, {"assign"}>>
           q     == p + 4
<1>1. /\ ns \in Seq(SUBSET Token) /\ Len(ns) = 4 /\ Len(ns) > 0
      /\ int \in Seq(SUBSET Token) /\ Len(int) = 3 /\ Len(int) > 0
      /\ str \in Seq(SUBSET Token) /\ Len(str) = 2 /\ Len(str) > 0
      /\ other \in Seq(SUBSET Token) /\ Len(other) = 2 /\ Len(other) > 0
  BY DEF Number, Token, Punctuation, Identifier
<1>2. "nodeid" \in Child /\ Len(tokens) \in Nat
  BY DEF Child, TypeOK
<1>3. parse_nodeid(p) =
        IF ~Ahead(p, ns) THEN Nothing(p)
        ELSE IF Ahead(q, int) THEN [child |-> <<"nodeid">>, next |-> q + 3]
        ELSE IF Ahead(q, str) THEN [child |-> <<"nodeid">>, next |-> Eof]
        ELSE IF Ahead(q, other) THEN Nothing(q + 2)
        ELSE Nothing(q)
  BY DEF parse_nodeid
<1> HIDE DEF ns, int, str, other
<1>4. CASE ~Ahead(p, ns)
  <2>1. parse_nodeid(p) = Nothing(p)
    BY <1>3, <1>4
  <2>2. QED  BY <2>1, NothingResult
<1>5. CASE Ahead(p, ns)
  <2>1. p + Len(ns) <= Len(tokens)
    BY <1>1, <1>5, AheadBound
  <2>2. q \in 1 .. Len(tokens)
    BY <1>1, <1>2, <2>1
  <2>3. ASSUME NEW r \in q .. Len(tokens)
        PROVE  Result(p, [child |-> <<"nodeid">>, next |-> r]) /\ Result(p, Nothing(r))
    <3>1. r \in Nat /\ p < r /\ r <= Len(tokens) /\ r \in p .. Len(tokens)
      BY <1>2, <2>2
    <3>2. Result(p, [child |-> <<"nodeid">>, next |-> r])
      BY <1>2, <3>1, OneResult
    <3>3. << >> \in Seq(Child) /\ Len(<< >>) = 0
      OBVIOUS
    <3>4. Result(p, Nothing(r))
      BY <3>1, <3>3 DEF Result, Nothing
    <3>5. QED  BY <3>2, <3>4
  <2>4. CASE Ahead(q, int)
    <3>1. q + Len(int) <= Len(tokens)
      BY <1>1, <2>2, <2>4, AheadBound
    <3>2. q + 3 \in q .. Len(tokens)
      BY <1>1, <1>2, <2>2, <3>1
    <3>3. parse_nodeid(p) = [child |-> <<"nodeid">>, next |-> q + 3]
      BY <1>3, <1>5, <2>4
    <3>4. QED  BY <2>3, <3>2, <3>3
  <2>5. CASE ~Ahead(q, int) /\ Ahead(q, str)
    <3>1. Eof \in q .. Len(tokens)
      BY <1>2, <2>2 DEF Eof
    <3>2. parse_nodeid(p) = [child |-> <<"nodeid">>, next |-> Eof]
      BY <1>3, <1>5, <2>5
    <3>3. QED  BY <2>3, <3>1, <3>2
  <2>6. CASE ~Ahead(q, int) /\ ~Ahead(q, str) /\ Ahead(q, other)
    <3>1. q + Len(other) <= Len(tokens)
      BY <1>1, <2>2, <2>6, AheadBound
    <3>2. q + 2 \in q .. Len(tokens)
      BY <1>1, <1>2, <2>2, <3>1
    <3>3. parse_nodeid(p) = Nothing(q + 2)
      BY <1>3, <1>5, <2>6
    <3>4. QED  BY <2>3, <3>2, <3>3
  <2>7. CASE ~Ahead(q, int) /\ ~Ahead(q, str) /\ ~Ahead(q, other)
    <3>1. q \in q .. Len(tokens)
      BY <1>2, <2>2
    <3>2. parse_nodeid(p) = Nothing(q)
      BY <1>3, <1>5, <2>7
    <3>3. QED  BY <2>3, <3>1, <3>2
  <2>8. QED  BY <2>4, <2>5, <2>6, <2>7
<1>6. QED  BY <1>4, <1>5

-----------------------------------------------------------------------------
(* The turns of the loop. *)

\* A token that is not the end has a token behind it.
LEMMA Behind ==
    ASSUME TypeOK, EofAtEnd, Running, tokens[current] # "eof"
    PROVE  /\ current \in 1 .. Len(tokens) /\ current + 1 \in 1 .. Len(tokens)
           /\ current # Eof /\ Len(tokens) \in Nat
  BY DEF TypeOK, EofAtEnd, Running, Eof

\* A statement is appended, the parser moves on inside the list, and a "set"
\* leaves nothing behind.
LEMMA EmitKeepsIInv ==
    ASSUME IInv, Running, tokens[current] # "eof",
           NEW type \in Type, NEW children \in Seq(Child), NEW next \in current + 1 .. Len(tokens),
           Emit(type, children, next), type = "set" => next = Eof
    PROVE  IInv'
<1>1. current \in 1 .. Len(tokens) /\ current < Eof /\ Len(tokens) \in Nat
  BY Behind DEF IInv, Eof
<1>2. [type |-> type, children |-> children] \in Statement
  BY DEF Statement
<1>3. /\ statements' = Append(statements, [type |-> type, children |-> children])
      /\ current' = next /\ tokens' = tokens /\ skipped' = skipped
  BY DEF Emit
<1>4. TypeOK'
  <2>1. current' \in 1 .. Len(tokens') + 1
    BY <1>1, <1>3
  <2>2. statements' \in Seq(Statement)
    BY <1>2, <1>3 DEF IInv, TypeOK
  <2>3. QED  BY <1>3, <2>1, <2>2 DEF IInv, TypeOK
<1>5. EofAtEnd'
  BY <1>3 DEF IInv, EofAtEnd
<1>6. SetTakesRest'
  <2>1. \A k \in 1 .. Len(statements) : statements[k].type # "set"
    BY <1>1 DEF IInv, SetTakesRest, TypeOK, Eof
  <2>2. /\ Len(statements') = Len(statements) + 1 /\ Len(statements) \in Nat
        /\ statements'[Len(statements')].type = type
        /\ \A k \in 1 .. Len(statements) : statements'[k] = statements[k]
    BY <1>3 DEF IInv, TypeOK
  <2>3. type = "set" => current' >= Eof'
    BY <1>1, <1>3 DEF Eof
  <2>4. QED  BY <2>1, <2>2, <2>3 DEF SetTakesRest
<1>7. CommandsKept'
  BY <1>3 DEF IInv, CommandsKept
<1>8. QED  BY <1>4, <1>5, <1>6, <1>7 DEF IInv

LEMMA ConcatType ==
    ASSUME NEW s \in Seq(Child), NEW t \in Seq(Child)
    PROVE  s \o t \in Seq(Child)
  OBVIOUS

\* The result of a sub-parser that starts behind the command is where a
\* statement may end.
LEMMA ResultNext ==
    ASSUME TypeOK, NEW p \in current + 1 .. Len(tokens), NEW r, Result(p, r)
    PROVE  /\ r.next \in current + 1 .. Len(tokens)
           /\ r.next \in 1 .. Len(tokens)
           /\ r.child \in Seq(Child)
  BY DEF Result, TypeOK

LEMMA TurnKeepsIInv == IInv /\ [Next]_vars => IInv'
<1>1. SUFFICES ASSUME IInv, [Next]_vars PROVE IInv'
  OBVIOUS
<1>2. TypeOK /\ EofAtEnd /\ SetTakesRest /\ CommandsKept
  BY <1>1 DEF IInv
<1>3. {"navigate_up", "navigate_down", "navigate_to", "connect", "list_dirs",
       "save", "state", "set", "ip", "parameter"} \subseteq Type
      /\ << >> \in Seq(Child) /\ <<"int">> \in Seq(Child) /\ <<"index">> \in Seq(Child)
      /\ <<"string">> \in Seq(Child)
  BY DEF Type, Child
<1>4. ASSUME NEW token, At(token), token # "eof"
      PROVE  /\ Running /\ tokens[current] # "eof"
             /\ current \in 1 .. Len(tokens) /\ current + 1 \in 1 .. Len(tokens)
             /\ current + 1 \in current + 1 .. Len(tokens) /\ Len(tokens) \in Nat
  BY <1>2, <1>4, Behind DEF At
<1>5. CASE NavigateUp
  <2>1. At("cd") /\ Ahead(current, <<{"cd"}, Dot, Dot>>) /\ Emit("navigate_up", << >>, current + 3)
    BY <1>5 DEF NavigateUp
  <2>2. /\ <<{"cd"}, Dot, Dot>> \in Seq(SUBSET Token)
        /\ Len(<<{"cd"}, Dot, Dot>>) = 3 /\ Len(<<{"cd"}, Dot, Dot>>) > 0
    BY DEF Dot, Token, Punctuation, Keyword
  <2>3. current + Len(<<{"cd"}, Dot, Dot>>) <= Len(tokens)
    BY <1>2, <1>4, <2>1, <2>2, AheadBound
  <2>4. current + 3 \in current + 1 .. Len(tokens)
    BY <1>4, <2>1, <2>2, <2>3
  <2>5. QED  BY <1>1, <1>3, <1>4, <2>1, <2>4, EmitKeepsIInv
<1>6. CASE NavigateDown
  <2> DEFINE id == parse_nodeid(current + 2)
  <2>1. At("cd") /\ Ahead(current, <<{"cd"}, Number>>)
        /\ Emit("navigate_down", <<"int">> \o id.child, id.next)
    BY <1>6 DEF NavigateDown
  <2>2. /\ <<{"cd"}, Number>> \in Seq(SUBSET Token)
        /\ Len(<<{"cd"}, Number>>) = 2 /\ Len(<<{"cd"}, Number>>) > 0
    BY DEF Number, Token, Keyword
  <2>3. current + Len(<<{"cd"}, Number>>) <= Len(tokens)
    BY <1>2, <1>4, <2>1, <2>2, AheadBound
  <2>4. current + 2 \in current + 1 .. Len(tokens) /\ current + 2 \in 1 .. Len(tokens)
    BY <1>4, <2>1, <2>2, <2>3
  <2>5. Result(current + 2, id)
    BY <1>2, <2>4, NodeIdResult
  <2> HIDE DEF id
  <2>6. id.next \in current + 1 .. Len(tokens) /\ id.child \in Seq(Child)
    BY <1>2, <2>4, <2>5, ResultNext
  <2>7. <<"int">> \o id.child \in Seq(Child)
    BY <1>3, <2>6, ConcatType
  <2>8. QED  BY <1>1, <1>3, <1>4, <2>1, <2>6, <2>7, EmitKeepsIInv
<1>7. CASE NavigateTo
  <2> DEFINE id == parse_nodeid(current + 1)
  <2>1. At("cd") /\ Emit("navigate_to", id.child, id.next)
    BY <1>7 DEF NavigateTo
  <2>2. Result(current + 1, id)
    BY <1>2, <1>4, <2>1, NodeIdResult
  <2> HIDE DEF id
  <2>3. id.next \in current + 1 .. Len(tokens) /\ id.child \in Seq(Child)
    BY <1>2, <1>4, <2>1, <2>2, ResultNext
  <2>4. QED  BY <1>1, <1>3, <1>4, <2>1, <2>3, EmitKeepsIInv
<1>8. CASE Ip
  <2> DEFINE ip == parse_ip(current)
  <2>1. At("number") /\ ip.child # << >> /\ Emit("ip", << >>, ip.next)
    BY <1>8 DEF Ip
  <2>2. Result(current, ip)
    BY <1>2, <1>4, <2>1, IpResult
  <2> HIDE DEF ip
  <2>3. ip.next \in current + 1 .. Len(tokens)
    BY <1>4, <2>1, <2>2 DEF Result
  <2>4. QED  BY <1>1, <1>3, <1>4, <2>1, <2>3, EmitKeepsIInv
<1>9. CASE Parameter
  <2> DEFINE arg == parse_parameter(current)
  <2>1. Running /\ arg.child # << >> /\ Emit("parameter", << >>, arg.next)
    BY <1>9 DEF Parameter
  <2>2. current \in 1 .. Len(tokens)
    BY <1>2, <2>1 DEF Running, TypeOK
  <2>3. Result(current, arg)
    BY <1>2, <2>2, ParameterResult
  <2>4. tokens[current] # "eof"
    BY <2>1 DEF parse_parameter, Nothing, Identifier
  <2> HIDE DEF arg
  <2>5. arg.next \in current + 1 .. Len(tokens)
    BY <2>1, <2>2, <2>3 DEF Result
  <2>6. QED  BY <1>1, <1>3, <2>1, <2>4, <2>5, EmitKeepsIInv
<1>10. CASE Connect
  <2> DEFINE ip == parse_ip(current + 1)
  <2>1. At("con") /\ Emit("connect", ip.child, ip.next)
    BY <1>10 DEF Connect
  <2>2. Result(current + 1, ip)
    BY <1>2, <1>4, <2>1, IpResult
  <2> HIDE DEF ip
  <2>3. ip.next \in current + 1 .. Len(tokens) /\ ip.child \in Seq(Child)
    BY <1>2, <1>4, <2>1, <2>2, ResultNext
  <2>4. QED  BY <1>1, <1>3, <1>4, <2>1, <2>3, EmitKeepsIInv
<1>11. CASE ListDirs
  <2> DEFINE index == IF tokens[current + 1] = "number" THEN <<"index">> ELSE << >>
             p     == current + 1 + Len(index)
             id    == parse_nodeid(p)
             param == parse_parameter(id.next)
             arg   == CASE tokens[p] \notin Identifier -> Nothing(p)
                        [] id.child # << >>            -> id
                        [] OTHER                       -> param
  <2>1. At("ls") /\ Emit("list_dirs", index \o arg.child, arg.next)
    BY <1>11 DEF ListDirs
  <2>2. index \in Seq(Child) /\ Len(index) \in {0, 1}
    BY <1>3
  <2>3. p \in current + 1 .. Len(tokens) /\ p \in 1 .. Len(tokens)
    <3>1. CASE tokens[current + 1] = "number"
      <4>1. current + 1 # Len(tokens)
        BY <1>2, <3>1 DEF EofAtEnd
      <4>2. QED  BY <1>4, <2>1, <2>2, <4>1
    <3>2. CASE tokens[current + 1] # "number"
      <4>1. Len(index) = 0
        BY <3>2
      <4>2. QED  BY <1>4, <2>1, <4>1
    <3>3. QED  BY <3>1, <3>2
  <2> HIDE DEF index, p
  <2>4. Result(p, id)
    BY <1>2, <2>3, NodeIdResult
  <2> HIDE DEF id
  <2>5. id.next \in current + 1 .. Len(tokens) /\ id.next \in 1 .. Len(tokens)
        /\ id.child \in Seq(Child)
    BY <1>2, <2>3, <2>4, ResultNext
  <2>6. Result(id.next, param)
    BY <1>2, <2>5, ParameterResult
  <2> HIDE DEF param
  <2>7. param.next \in current + 1 .. Len(tokens) /\ param.child \in Seq(Child)
    BY <1>2, <2>5, <2>6, ResultNext
  <2>8. Nothing(p).next = p /\ Nothing(p).child = << >>
    BY DEF Nothing
  <2>9. arg.next \in current + 1 .. Len(tokens) /\ arg.child \in Seq(Child)
    <3>1. CASE tokens[p] \notin Identifier /\ id.child = << >>
      BY <1>3, <2>3, <2>8, <3>1
    <3>2. CASE tokens[p] \notin Identifier /\ id.child # << >>
      <4>1. arg = Nothing(p) \/ arg = id
        BY <3>2
      <4>2. QED  BY <1>3, <2>3, <2>5, <2>8, <4>1
    <3>3. CASE tokens[p] \in Identifier /\ id.child # << >>
      BY <2>5, <3>3
    <3>4. CASE tokens[p] \in Identifier /\ id.child = << >>
      BY <2>7, <3>4
    <3>5. QED  BY <3>1, <3>2, <3>3, <3>4
  <2> HIDE DEF arg
  <2>10. index \o arg.child \in Seq(Child)
    BY <2>2, <2>9, ConcatType
  <2>11. QED  BY <1>1, <1>3, <1>4, <2>1, <2>9, <2>10, EmitKeepsIInv
<1>12. CASE Save
  <2> DEFINE range == parse_range(current + 1)
             arg   == parse_parameter(range.next)
  <2>1. At("save") /\ Emit("save", range.child \o arg.child, arg.next)
    BY <1>12 DEF Save
  <2>2. Result(current + 1, range)
    BY <1>2, <1>4, <2>1, RangeResult
  <2> HIDE DEF range
  <2>3. range.next \in current + 1 .. Len(tokens) /\ range.next \in 1 .. Len(tokens)
        /\ range.child \in Seq(Child)
    BY <1>2, <1>4, <2>1, <2>2, ResultNext
  <2>4. Result(range.next, arg)
    BY <1>2, <2>3, ParameterResult
  <2> HIDE DEF arg
  <2>5. arg.next \in current + 1 .. Len(tokens) /\ arg.child \in Seq(Child)
    BY <1>2, <2>3, <2>4, ResultNext
  <2>6. range.child \o arg.child \in Seq(Child)
    BY <2>3, <2>5, ConcatType
  <2>7. QED  BY <1>1, <1>3, <1>4, <2>1, <2>5, <2>6, EmitKeepsIInv
<1>13. CASE State
  <2>1. At("state") /\ Emit("state", << >>, current + 1)
    BY <1>13 DEF State
  <2>2. QED  BY <1>1, <1>3, <1>4, <2>1, EmitKeepsIInv
<1>14. CASE Set
  <2> DEFINE key      == parse_parameter(current + 1)
             children == IF key.next < Eof THEN key.child \o <<"string">> ELSE key.child
  <2>1. At("set") /\ Emit("set", children, Eof)
    BY <1>14 DEF Set
  <2>2. Result(current + 1, key)
    BY <1>2, <1>4, <2>1, ParameterResult
  <2> HIDE DEF key
  <2>3. key.child \in Seq(Child)
    BY <2>2 DEF Result
  <2>4. key.child \o <<"string">> \in Seq(Child)
    BY <1>3, <2>3, ConcatType
  <2>5. children \in Seq(Child)
    BY <2>3, <2>4
  <2> HIDE DEF children
  <2>6. Eof \in current + 1 .. Len(tokens)
    BY <1>4, <2>1 DEF Eof
  <2>7. QED  BY <1>1, <1>3, <1>4, <2>1, <2>5, <2>6, EmitKeepsIInv
<1>15. CASE SetWithoutKey
  <2>1. /\ At("set") /\ tokens[current] = "set"
        /\ current' = current + 2 /\ skipped' = skipped \cup ({current + 1} \ {Eof})
        /\ tokens' = tokens /\ statements' = statements
    BY <1>15 DEF SetWithoutKey, At
  <2>2. TypeOK'
    <3>1. current' \in 1 .. Len(tokens') + 1
      BY <1>2, <1>4, <2>1
    <3>2. skipped \subseteq 1 .. Len(tokens)
      BY <1>2 DEF TypeOK
    <3>3. skipped' \subseteq 1 .. Len(tokens')
      BY <1>4, <2>1, <3>2
    <3>4. QED  BY <1>2, <2>1, <3>1, <3>3 DEF TypeOK
  <2>3. EofAtEnd'
    BY <1>2, <2>1 DEF EofAtEnd
  <2>4. SetTakesRest'
    BY <1>2, <1>4, <2>1 DEF SetTakesRest, Eof
  <2>5. CommandsKept'
    BY <1>2, <1>4, <2>1 DEF CommandsKept, TypeOK
  <2>6. QED  BY <2>2, <2>3, <2>4, <2>5 DEF IInv
<1>16. CASE NotHandled
  <2>1. /\ Running /\ tokens[current] \notin Keyword
        /\ current' = current + 1 /\ skipped' = skipped \cup ({current} \ {Eof})
        /\ tokens' = tokens /\ statements' = statements
    BY <1>16 DEF NotHandled, Keyword, Punctuation, Unhandled
  <2>2. current \in 1 .. Len(tokens) /\ Len(tokens) \in Nat
    BY <1>2, <2>1 DEF Running, TypeOK
  <2>3. TypeOK'
    <3>1. current' \in 1 .. Len(tokens') + 1
      BY <2>1, <2>2
    <3>2. skipped \subseteq 1 .. Len(tokens)
      BY <1>2 DEF TypeOK
    <3>3. skipped' \subseteq 1 .. Len(tokens')
      BY <2>1, <2>2, <3>2
    <3>4. QED  BY <1>2, <2>1, <3>1, <3>3 DEF TypeOK
  <2>4. EofAtEnd'
    BY <1>2, <2>1 DEF EofAtEnd
  <2>5. SetTakesRest'
    BY <1>2, <2>1, <2>2 DEF SetTakesRest, Eof
  <2>6. CommandsKept'
    BY <1>2, <2>1 DEF CommandsKept
  <2>7. QED  BY <2>3, <2>4, <2>5, <2>6 DEF IInv
<1>17. CASE Done \/ UNCHANGED vars
  BY <1>1, <1>17 DEF Done, vars, IInv, TypeOK, EofAtEnd, SetTakesRest, CommandsKept, Eof
<1>18. QED
  BY <1>1, <1>5, <1>6, <1>7, <1>8, <1>9, <1>10, <1>11, <1>12, <1>13, <1>14, <1>15, <1>16, <1>17
     DEF Next

LEMMA StartIsIInv == Init => IInv
<1>1. SUFFICES ASSUME Init PROVE IInv
  OBVIOUS
<1>2. PICK line \in Input : tokens = Append(line, "eof")
  BY <1>1 DEF Init
<1>3. line \in Seq(Token)
  BY InputAssumption
<1>4. /\ tokens \in Seq(Token \cup {"eof"})
      /\ Len(tokens) = Len(line) + 1 /\ Len(line) \in Nat
      /\ tokens[Len(tokens)] = "eof"
      /\ \A p \in 1 .. Len(line) : tokens[p] = line[p]
  BY <1>2, <1>3
<1>5. EofAtEnd
  BY <1>3, <1>4 DEF EofAtEnd
<1>6. current \in 1 .. Len(tokens) + 1 /\ statements \in Seq(Statement) /\ skipped = {}
      /\ Len(statements) = 0
  BY <1>1, <1>4 DEF Init
<1>7. TypeOK
  BY <1>4, <1>6 DEF TypeOK
<1>8. SetTakesRest /\ CommandsKept
  BY <1>6 DEF SetTakesRest, CommandsKept
<1>9. QED  BY <1>5, <1>7, <1>8 DEF IInv

-----------------------------------------------------------------------------

\* The parser keeps its types: its position never passes the end of the list
\* by more than one, whatever was typed.
THEOREM ParserTypeCorrect == Spec => []TypeOK
<1>1. Spec => []IInv
  BY StartIsIInv, TurnKeepsIInv, PTL DEF Spec
<1>2. IInv => TypeOK
  BY DEF IInv
<1>3. QED  BY <1>1, <1>2, PTL

\* The words of a value never become a command: a "set" ends its line.
THEOREM SetEndsTheLine == Spec => []SetIsLast
<1>1. Spec => []IInv
  BY StartIsIInv, TurnKeepsIInv, PTL DEF Spec
<1>2. IInv => SetIsLast
  BY DEF IInv, TypeOK, SetTakesRest, SetIsLast
<1>3. QED  BY <1>1, <1>2, PTL

\* Only a "set" without a key throws a command word away.
THEOREM CommandsAreKept == Spec => []CommandsKept
<1>1. Spec => []IInv
  BY StartIsIInv, TurnKeepsIInv, PTL DEF Spec
<1>2. IInv => CommandsKept
  BY DEF IInv
<1>3. QED  BY <1>1, <1>2, PTL

-----------------------------------------------------------------------------
(* What a statement takes as its arguments. *)

\* None of the tokens from p up to, not including, q is a command word.
NoCommands(p, q) == \A k \in p .. q - 1 : tokens[k] \notin Keyword

\* The tokens from p on are the rest of the line, and a string id is among them.
StringId(p, q) ==
    q = Eof /\ \E k \in p .. q - 1 : tokens[k] = "s" /\ tokens[k + 1] = "assign"

LEMMA AheadArguments ==
    ASSUME NEW p \in Nat, NEW kinds \in Seq(SUBSET (Token \ Keyword)), Ahead(p, kinds)
    PROVE  NoCommands(p, p + Len(kinds))
<1>1. SUFFICES ASSUME NEW k \in p .. p + Len(kinds) - 1 PROVE tokens[k] \notin Keyword
  BY DEF NoCommands
<1>2. k - p + 1 \in DOMAIN kinds /\ p + (k - p + 1) - 1 = k
  BY <1>1
<1>3. tokens[k] \in kinds[k - p + 1]
  BY <1>2 DEF Ahead
<1>4. kinds[k - p + 1] \subseteq Token \ Keyword
  BY <1>2
<1>5. QED  BY <1>3, <1>4

\* What is read in two parts.
LEMMA BothParts ==
    ASSUME NEW p \in Nat, NEW q \in Nat, NEW r \in Nat,
           NoCommands(p, q), NoCommands(q, r)
    PROVE  NoCommands(p, r)
  BY DEF NoCommands

LEMMA RangeArguments ==
    ASSUME NEW p \in Nat
    PROVE  NoCommands(p, parse_range(p).next)
<1> DEFINE kinds == <<Number, {"minus"}, Number>>
<1>1. CASE Ahead(p, kinds)
  <2>1. kinds \in Seq(SUBSET (Token \ Keyword)) /\ Len(kinds) = 3
    BY DEF Number, Token, Punctuation, Keyword
  <2>2. NoCommands(p, p + 3)
    BY <1>1, <2>1, AheadArguments
  <2>3. QED  BY <1>1, <2>2 DEF parse_range
<1>2. CASE ~Ahead(p, kinds)
  BY <1>2 DEF parse_range, Nothing, NoCommands
<1>3. QED  BY <1>1, <1>2

LEMMA IpArguments ==
    ASSUME NEW p \in Nat
    PROVE  NoCommands(p, parse_ip(p).next)
<1> DEFINE kinds == <<Number, Dot, Number, Dot, Number, Dot, Number>>
<1>1. CASE Ahead(p, kinds)
  <2>1. kinds \in Seq(SUBSET (Token \ Keyword)) /\ Len(kinds) = 7
    BY DEF Number, Dot, Token, Punctuation, Keyword
  <2>2. NoCommands(p, p + 7)
    BY <1>1, <2>1, AheadArguments
  <2>3. QED  BY <1>1, <2>2 DEF parse_ip
<1>2. CASE ~Ahead(p, kinds)
  BY <1>2 DEF parse_ip, Nothing, NoCommands
<1>3. QED  BY <1>1, <1>2

LEMMA ParameterArguments ==
    ASSUME NEW p \in Nat
    PROVE  NoCommands(p, parse_parameter(p).next)
<1>1. CASE tokens[p] \in Identifier \/ tokens[p] = "number"
  <2>1. tokens[p] \notin Keyword
    BY <1>1 DEF Identifier, Keyword
  <2>2. parse_parameter(p).next = p + 1
    BY <1>1 DEF parse_parameter
  <2>3. QED  BY <2>1, <2>2 DEF NoCommands
<1>2. CASE tokens[p] \notin Identifier /\ tokens[p] # "number"
  BY <1>2 DEF parse_parameter, Nothing, NoCommands
<1>3. QED  BY <1>1, <1>2

\* A node id reads a command word only as a part of a string id, and gives a
\* node id then.
LEMMA NodeIdArguments ==
    ASSUME TypeOK, EofAtEnd, NEW p \in 1 .. Len(tokens)
    PROVE  \/ NoCommands(p, parse_nodeid(p).next)
           \/ parse_nodeid(p).child # << >> /\ StringId(p, parse_nodeid(p).next)
<1> DEFINE ns    == <<{"ns"}, {"assign"}, Number, {"semicolon"}>>
           int   == <<{"i"}, {"assign"}, Number>>
           str   == <<{"s"}, {"assign"}>>
           other == <<Identifier, {"assign"}>>
           q     == p + 4
<1>1. /\ ns \in Seq(SUBSET (Token \ Keyword)) /\ Len(ns) = 4
      /\ int \in Seq(SUBSET (Token \ Keyword)) /\ Len(int) = 3
      /\ str \in Seq(SUBSET (Token \ Keyword)) /\ Len(str) = 2
      /\ other \in Seq(SUBSET (Token \ Keyword)) /\ Len(other) = 2
  BY DEF Number, Token, Punctuation, Identifier, Keyword
<1>2. /\ 1 \in DOMAIN str /\ str[1] = {"s"} /\ 2 \in DOMAIN str /\ str[2] = {"assign"}
      /\ str \in Seq(SUBSET Token) /\ Len(str) > 0
  BY DEF Token, Punctuation, Identifier
<1>3. parse_nodeid(p) =
        IF ~Ahead(p, ns) THEN Nothing(p)
        ELSE IF Ahead(q, int) THEN [child |-> <<"nodeid">>, next |-> q + 3]
        ELSE IF Ahead(q, str) THEN [child |-> <<"nodeid">>, next |-> Eof]
        ELSE IF Ahead(q, other) THEN Nothing(q + 2)
        ELSE Nothing(q)
  BY DEF parse_nodeid
<1> HIDE DEF ns, int, str, other
<1>4. p \in Nat /\ q \in Nat /\ q + 3 \in Nat /\ q + 2 \in Nat /\ Len(tokens) \in Nat
  BY DEF TypeOK
<1>5. CASE ~Ahead(p, ns)
  BY <1>3, <1>5 DEF Nothing, NoCommands
<1>6. CASE Ahead(p, ns)
  <2>1. NoCommands(p, q)
    BY <1>1, <1>4, <1>6, AheadArguments
  <2>2. CASE Ahead(q, int)
    <3>1. NoCommands(q, q + 3)
      BY <1>1, <1>4, <2>2, AheadArguments
    <3>2. parse_nodeid(p).next = q + 3
      BY <1>3, <1>6, <2>2
    <3>3. NoCommands(p, q + 3)
      BY <1>4, <2>1, <3>1, BothParts
    <3>4. QED  BY <3>2, <3>3
  <2>3. CASE ~Ahead(q, int) /\ Ahead(q, str)
    <3>1. q \in 1 .. Len(tokens)
      BY <1>2, <1>4, <2>3 DEF Ahead
    <3>2. q + 2 <= Len(tokens)
      BY <1>1, <1>2, <2>3, <3>1, AheadBound
    <3>3. tokens[q] = "s" /\ tokens[q + 1] = "assign"
      <4>1. tokens[q + 1 - 1] \in str[1] /\ tokens[q + 2 - 1] \in str[2]
        BY <1>2, <2>3 DEF Ahead
      <4>2. QED  BY <1>2, <1>4, <4>1
    <3>4. parse_nodeid(p) = [child |-> <<"nodeid">>, next |-> Eof]
      BY <1>3, <1>6, <2>3
    <3>5. q \in p .. Eof - 1
      BY <1>4, <3>2 DEF Eof
    <3>6. <<"nodeid">> # << >>
      OBVIOUS
    <3>7. QED  BY <3>3, <3>4, <3>5, <3>6 DEF StringId
  <2>4. CASE ~Ahead(q, int) /\ ~Ahead(q, str) /\ Ahead(q, other)
    <3>1. NoCommands(q, q + 2)
      BY <1>1, <1>4, <2>4, AheadArguments
    <3>2. parse_nodeid(p).next = q + 2
      BY <1>3, <1>6, <2>4 DEF Nothing
    <3>3. NoCommands(p, q + 2)
      BY <1>4, <2>1, <3>1, BothParts
    <3>4. QED  BY <3>2, <3>3
  <2>5. CASE ~Ahead(q, int) /\ ~Ahead(q, str) /\ ~Ahead(q, other)
    <3>1. parse_nodeid(p).next = q
      BY <1>3, <1>6, <2>5 DEF Nothing
    <3>2. QED  BY <2>1, <3>1
  <2>6. QED  BY <2>2, <2>3, <2>4, <2>5
<1>7. QED  BY <1>5, <1>6

\* The statement appended reads no command word behind its own, or all the rest.
Apart ==
    \A p \in Arguments : statements' # statements /\ tokens[p] \in Keyword => TakesRest

LEMMA EmitApart ==
    ASSUME TypeOK, NEW type, NEW children, NEW next, Emit(type, children, next),
           \/ type = "set" /\ next = Eof
           \/ NoCommands(current + 1, next)
           \/ StringId(current + 1, next)
    PROVE  Apart
<1>1. current' = next /\ statements' = Append(statements, [type |-> type, children |-> children])
  BY DEF Emit
<1>2. CASE type = "set" /\ next = Eof
  <2>1. Added.type = "set"
    BY <1>1, <1>2 DEF Added, TypeOK
  <2>2. QED  BY <1>1, <1>2, <2>1 DEF Apart, TakesRest
<1>3. CASE NoCommands(current + 1, next)
  BY <1>1, <1>3 DEF Apart, Arguments, NoCommands
<1>4. CASE StringId(current + 1, next)
  BY <1>1, <1>4 DEF Apart, Arguments, StringId, TakesRest
<1>5. QED  BY <1>2, <1>3, <1>4

LEMMA TurnApart == IInv /\ [Next]_vars => [Apart]_vars
<1>1. SUFFICES ASSUME IInv, Next PROVE Apart
  OBVIOUS
<1>2. /\ TypeOK /\ EofAtEnd /\ Len(tokens) \in Nat
      /\ current \in Nat /\ current + 1 \in Nat /\ current + 2 \in Nat
  BY <1>1 DEF IInv, TypeOK
<1>3. ASSUME NEW token, At(token), token # "eof"
      PROVE  current + 1 \in 1 .. Len(tokens)
  <2>1. Running /\ tokens[current] # "eof"
    BY <1>3 DEF At
  <2>2. QED  BY <1>2, <2>1, Behind
<1>same. ASSUME statements' = statements PROVE Apart
  BY <1>same DEF Apart
<1>4. CASE NavigateUp
  <2> DEFINE kinds == <<{"cd"}, Dot, Dot>>
  <2>1. Ahead(current, kinds) /\ Emit("navigate_up", << >>, current + 3)
    BY <1>4 DEF NavigateUp
  <2>2. 2 \in DOMAIN kinds /\ kinds[2] = Dot /\ 3 \in DOMAIN kinds /\ kinds[3] = Dot
    OBVIOUS
  <2>3. tokens[current + 2 - 1] \in Dot /\ tokens[current + 3 - 1] \in Dot
    BY <2>1, <2>2 DEF Ahead
  <2>4. tokens[current + 1] \in Dot /\ tokens[current + 2] \in Dot
    BY <1>2, <2>3
  <2>5. NoCommands(current + 1, current + 3)
    BY <1>2, <2>4 DEF NoCommands, Dot, Keyword
  <2>6. QED  BY <1>2, <2>1, <2>5, EmitApart
<1>5. CASE NavigateDown
  <2> DEFINE kinds == <<{"cd"}, Number>>
             id == parse_nodeid(current + 2)
  <2>1. Ahead(current, kinds) /\ Emit("navigate_down", <<"int">> \o id.child, id.next)
    BY <1>5 DEF NavigateDown
  <2>2. 2 \in DOMAIN kinds /\ kinds[2] = Number /\ Len(kinds) = 2 /\ kinds \in Seq(SUBSET Token)
    BY DEF Number, Token, Keyword
  <2>3. tokens[current + 1] \in Number
    <3>1. tokens[current + 2 - 1] \in Number
      BY <2>1, <2>2 DEF Ahead
    <3>2. QED  BY <1>2, <3>1
  <2>4. current + 2 \in 1 .. Len(tokens)
    <3>1. current \in 1 .. Len(tokens)
      BY <1>2, <1>5 DEF NavigateDown, At, Running, TypeOK
    <3>2. kinds \in Seq(SUBSET Token) /\ Len(kinds) > 0 /\ Len(kinds) = 2
      BY <2>2
    <3>3. Ahead(current, kinds)
      BY <2>1
    <3> HIDE DEF kinds
    <3>4. current + Len(kinds) <= Len(tokens)
      BY <1>2, <3>1, <3>2, <3>3, AheadBound
    <3>5. QED  BY <1>2, <3>2, <3>4
  <2>5. NoCommands(current + 1, current + 2)
    BY <1>2, <2>3 DEF NoCommands, Number, Keyword
  <2>6. id.next \in Nat
    BY <1>2, <2>4, NodeIdResult DEF Result
  <2>7. NoCommands(current + 2, id.next) \/ StringId(current + 2, id.next)
    BY <1>2, <2>4, NodeIdArguments
  <2>8. NoCommands(current + 1, id.next) \/ StringId(current + 1, id.next)
    <3> HIDE DEF id
    <3>1. CASE NoCommands(current + 2, id.next)
      BY <1>2, <2>5, <2>6, <3>1, BothParts
    <3>2. CASE StringId(current + 2, id.next)
      BY <1>2, <2>6, <3>2 DEF StringId
    <3>3. QED  BY <2>7, <3>1, <3>2
  <2>9. QED  BY <1>2, <2>1, <2>8, EmitApart
<1>6. CASE NavigateTo
  <2> DEFINE id == parse_nodeid(current + 1)
  <2>1. At("cd") /\ Emit("navigate_to", id.child, id.next)
    BY <1>6 DEF NavigateTo
  <2>2. NoCommands(current + 1, id.next) \/ StringId(current + 1, id.next)
    BY <1>2, <1>3, <2>1, NodeIdArguments
  <2>3. QED  BY <1>2, <2>1, <2>2, EmitApart
<1>7. CASE Ip
  <2>1. Emit("ip", << >>, parse_ip(current).next)
    BY <1>7 DEF Ip
  <2>2. NoCommands(current, parse_ip(current).next)
    BY <1>2, IpArguments
  <2>3. NoCommands(current + 1, parse_ip(current).next)
    BY <1>2, <2>2 DEF NoCommands
  <2>4. QED  BY <1>2, <2>1, <2>3, EmitApart
<1>8. CASE Parameter
  <2>1. Emit("parameter", << >>, parse_parameter(current).next)
    BY <1>8 DEF Parameter
  <2>2. NoCommands(current, parse_parameter(current).next)
    BY <1>2, ParameterArguments
  <2>3. NoCommands(current + 1, parse_parameter(current).next)
    BY <1>2, <2>2 DEF NoCommands
  <2>4. QED  BY <1>2, <2>1, <2>3, EmitApart
<1>9. CASE Connect
  <2> DEFINE ip == parse_ip(current + 1)
  <2>1. Emit("connect", ip.child, ip.next)
    BY <1>9 DEF Connect
  <2>2. NoCommands(current + 1, ip.next)
    BY <1>2, IpArguments
  <2>3. QED  BY <1>2, <2>1, <2>2, EmitApart
<1>10. CASE ListDirs
  <2> DEFINE index == IF tokens[current + 1] = "number" THEN <<"index">> ELSE << >>
             p == current + 1 + Len(index)
             id == parse_nodeid(p)
             arg == CASE tokens[p] \notin Identifier -> Nothing(p)
                      [] id.child # << >>            -> id
                      [] OTHER                       -> parse_parameter(id.next)
  <2>1. At("ls") /\ Emit("list_dirs", index \o arg.child, arg.next)
    BY <1>10 DEF ListDirs
  <2>2. current + 1 \in 1 .. Len(tokens)
    BY <1>3, <2>1
  <2>3. p \in 1 .. Len(tokens) /\ NoCommands(current + 1, p)
    <3>1. CASE tokens[current + 1] = "number"
      <4>1. p = current + 2
        BY <1>2, <3>1
      <4>2. current + 1 # Len(tokens)
        BY <1>2, <3>1 DEF EofAtEnd
      <4>3. NoCommands(current + 1, current + 2)
        BY <1>2, <3>1 DEF NoCommands, Keyword
      <4>4. QED  BY <1>2, <2>2, <4>1, <4>2, <4>3
    <3>2. CASE tokens[current + 1] # "number"
      <4>1. p = current + 1
        BY <1>2, <3>2
      <4>2. QED  BY <1>2, <2>2, <4>1 DEF NoCommands
    <3>3. QED  BY <3>1, <3>2
  <2>4. id.next \in 1 .. Len(tokens) /\ id.next \in Nat /\ p \in Nat
    <3> HIDE DEF p
    <3>1. QED  BY <1>2, <2>3, NodeIdResult DEF Result
  <2>5. \/ NoCommands(p, id.next)
        \/ id.child # << >> /\ StringId(p, id.next)
    <3> HIDE DEF p
    <3>1. QED  BY <1>2, <2>3, NodeIdArguments
  <2>6. /\ parse_parameter(id.next).next \in Nat
        /\ NoCommands(id.next, parse_parameter(id.next).next)
    <3> HIDE DEF id
    <3>1. QED  BY <1>2, <2>4, ParameterResult, ParameterArguments DEF Result
  <2>7. \/ arg = Nothing(p)
        \/ arg = id
        \/ id.child = << >> /\ arg = parse_parameter(id.next)
    OBVIOUS
  <2> HIDE DEF index, p, id, arg
  <2>8. arg.next \in Nat /\ (NoCommands(p, arg.next) \/ StringId(p, arg.next))
    <3>1. CASE arg = Nothing(p)
      BY <2>4, <3>1 DEF Nothing, NoCommands
    <3>2. CASE arg = id
      BY <2>4, <2>5, <3>2
    <3>3. CASE id.child = << >> /\ arg = parse_parameter(id.next)
      BY <2>4, <2>5, <2>6, <3>3, BothParts
    <3>4. QED  BY <2>7, <3>1, <3>2, <3>3
  <2>9. NoCommands(current + 1, arg.next) \/ StringId(current + 1, arg.next)
    <3>1. CASE NoCommands(p, arg.next)
      BY <1>2, <2>3, <2>4, <2>8, <3>1, BothParts
    <3>2. CASE StringId(p, arg.next)
      <4>1. p >= current + 1
        BY <1>2 DEF p, index
      <4>2. QED  BY <1>2, <2>4, <2>8, <3>2, <4>1 DEF StringId
    <3>3. QED  BY <2>8, <3>1, <3>2
  <2>10. QED  BY <1>2, <2>1, <2>9, EmitApart
<1>11. CASE Save
  <2> DEFINE range == parse_range(current + 1)
             arg == parse_parameter(range.next)
  <2>1. At("save") /\ Emit("save", range.child \o arg.child, arg.next)
    BY <1>11 DEF Save
  <2>2. range.next \in 1 .. Len(tokens) /\ range.next \in Nat
    BY <1>2, <1>3, <2>1, RangeResult DEF Result
  <2>3. NoCommands(current + 1, range.next)
    BY <1>2, RangeArguments
  <2> HIDE DEF range
  <2>4. arg.next \in Nat /\ NoCommands(range.next, arg.next)
    BY <1>2, <2>2, ParameterResult, ParameterArguments DEF Result
  <2> HIDE DEF arg
  <2>5. NoCommands(current + 1, arg.next)
    BY <1>2, <2>2, <2>3, <2>4, BothParts
  <2>6. QED  BY <1>2, <2>1, <2>5, EmitApart
<1>12. CASE State
  <2>1. Emit("state", << >>, current + 1)
    BY <1>12 DEF State
  <2>2. NoCommands(current + 1, current + 1)
    BY <1>2 DEF NoCommands
  <2>3. QED  BY <1>2, <2>1, <2>2, EmitApart
<1>13. CASE Set
  <2>1. PICK children : Emit("set", children, Eof)
    BY <1>13 DEF Set
  <2>2. QED  BY <1>2, <2>1, EmitApart
<1>14. CASE SetWithoutKey \/ NotHandled \/ Done
  BY <1>14, <1>same DEF SetWithoutKey, NotHandled, Done, vars
<1>15. QED
  BY <1>1, <1>4, <1>5, <1>6, <1>7, <1>8, <1>9, <1>10, <1>11, <1>12, <1>13, <1>14 DEF Next

\* A command word is read as an argument only by a "set" or a string id, which
\* take all the rest of the line: on every other line it starts a command.
THEOREM CommandsStayApart == Spec => CommandsSeparate
<1>1. Spec => []IInv
  BY StartIsIInv, TurnKeepsIInv, PTL DEF Spec
<1>2. QED  BY <1>1, TurnApart, PTL DEF Spec, CommandsSeparate, Apart

-----------------------------------------------------------------------------
(* What a statement stands for. *)

LEMMA Sizes ==
    /\ Size["nodeid"] = 7 /\ Size["int"] = 1 /\ Size["string"] = 1
    /\ Size["range"] = 3 /\ Size["ip"] = 7 /\ Size["index"] = 1
    /\ \A c \in Child : Size[c] \in Nat
  BY DEF Size, Child

\* What the children of a statement stand for.
Total(children) ==
    LET sum[k \in 0 .. Len(children)] ==
            IF k = 0 THEN 0 ELSE sum[k - 1] + Size[children[k]]
    IN  sum[Len(children)]

LEMMA TakenIs ==
    ASSUME NEW type, NEW children
    PROVE  Taken([type |-> type, children |-> children]) = Own(type) + Total(children)
  BY DEF Taken, Total

\* A function that adds up is the one Total is defined by.
LEMMA TotalIs ==
    ASSUME NEW children \in Seq(Child), NEW f,
           f = [k \in 0 .. Len(children) |-> IF k = 0 THEN 0 ELSE f[k - 1] + Size[children[k]]]
    PROVE  \E g : /\ g = [k \in 0 .. Len(children) |->
                              IF k = 0 THEN 0 ELSE g[k - 1] + Size[children[k]]]
                  /\ Total(children) = g[Len(children)]
<1> DEFINE Sums(g) == g = [k \in 0 .. Len(children) |->
                              IF k = 0 THEN 0 ELSE g[k - 1] + Size[children[k]]]
<1>1. Sums(f)
  OBVIOUS
<1>2. Sums(CHOOSE g : Sums(g))
  <2> HIDE DEF Sums
  <2>1. QED  BY <1>1
<1>3. Total(children) = (CHOOSE g : Sums(g))[Len(children)]
  BY DEF Total
<1>4. QED  BY <1>2, <1>3

LEMMA Totals ==
    /\ Total(<< >>) = 0
    /\ \A c \in Child : Total(<<c>>) = Size[c]
    /\ \A c, d \in Child : Total(<<c, d>>) = Size[c] + Size[d]
<1>1. Total(<< >>) = 0
  <2> DEFINE f == [k \in 0 .. 0 |-> 0]
  <2>1. << >> \in Seq(Child) /\ Len(<< >>) = 0
    OBVIOUS
  <2>2. f = [k \in 0 .. 0 |-> IF k = 0 THEN 0 ELSE f[k - 1] + Size[(<< >>)[k]]]
    OBVIOUS
  <2> HIDE DEF f
  <2>3. PICK g : /\ g = [k \in 0 .. 0 |-> IF k = 0 THEN 0 ELSE g[k - 1] + Size[(<< >>)[k]]]
                 /\ Total(<< >>) = g[0]
    BY <2>1, <2>2, TotalIs
  <2>4. QED  BY <2>3
<1>2. ASSUME NEW c \in Child PROVE Total(<<c>>) = Size[c]
  <2> DEFINE s == <<c>>
             f == [k \in 0 .. 1 |-> IF k = 0 THEN 0 ELSE Size[c]]
  <2>1. s \in Seq(Child) /\ Len(s) = 1 /\ s[1] = c /\ Size[c] \in Nat
    BY Sizes
  <2> HIDE DEF s
  <2>2. f = [k \in 0 .. 1 |-> IF k = 0 THEN 0 ELSE f[k - 1] + Size[s[k]]]
    <3>1. \A k \in 0 .. 1 : f[k] = IF k = 0 THEN 0 ELSE f[k - 1] + Size[s[k]]
      BY <2>1
    <3>2. f = [k \in 0 .. 1 |-> f[k]]
      OBVIOUS
    <3> HIDE DEF f
    <3>3. QED  BY <3>1, <3>2
  <2> HIDE DEF f
  <2>3. PICK g : /\ g = [k \in 0 .. 1 |-> IF k = 0 THEN 0 ELSE g[k - 1] + Size[s[k]]]
                 /\ Total(s) = g[1]
    BY <2>1, <2>2, TotalIs
  <2>4. g[0] = 0 /\ g[1] = g[0] + Size[s[1]]
    BY <2>3
  <2>5. QED  BY <2>1, <2>3, <2>4 DEF s
<1>3. ASSUME NEW c \in Child, NEW d \in Child PROVE Total(<<c, d>>) = Size[c] + Size[d]
  <2> DEFINE s == <<c, d>>
             f == [k \in 0 .. 2 |-> IF k = 0 THEN 0
                                    ELSE IF k = 1 THEN Size[c] ELSE Size[c] + Size[d]]
  <2>1. /\ s \in Seq(Child) /\ Len(s) = 2 /\ s[1] = c /\ s[2] = d
        /\ Size[c] \in Nat /\ Size[d] \in Nat
    BY Sizes
  <2> HIDE DEF s
  <2>2. f = [k \in 0 .. 2 |-> IF k = 0 THEN 0 ELSE f[k - 1] + Size[s[k]]]
    <3>1. \A k \in 0 .. 2 : f[k] = IF k = 0 THEN 0 ELSE f[k - 1] + Size[s[k]]
      BY <2>1
    <3>2. f = [k \in 0 .. 2 |-> f[k]]
      OBVIOUS
    <3> HIDE DEF f
    <3>3. QED  BY <3>1, <3>2
  <2> HIDE DEF f
  <2>3. PICK g : /\ g = [k \in 0 .. 2 |-> IF k = 0 THEN 0 ELSE g[k - 1] + Size[s[k]]]
                 /\ Total(s) = g[2]
    BY <2>1, <2>2, TotalIs
  <2>4. g[0] = 0 /\ g[1] = g[0] + Size[s[1]] /\ g[2] = g[1] + Size[s[2]]
    BY <2>3
  <2>5. QED  BY <2>1, <2>3, <2>4 DEF s
<1>4. QED  BY <1>1, <1>2, <1>3

-----------------------------------------------------------------------------

LEMMA LenInNat == \A u \in Seq(Child) : Len(u) \in Nat
  OBVIOUS

LEMMA AtMostOne ==
    ASSUME NEW u \in Seq(Child), Len(u) <= 1
    PROVE  u = << >> \/ \E c \in Child : u = <<c>>
<1>1. ASSUME NEW n \in Nat, n <= 1 PROVE n = 0 \/ n = 1
  BY <1>1
<1>2. Len(u) = 0 \/ Len(u) = 1
  BY <1>1, LenInNat
<1>3. CASE Len(u) = 0
  BY <1>3
<1>4. CASE Len(u) = 1
  <2>1. u = <<u[1]>> /\ u[1] \in Child
    BY <1>4
  <2>2. QED  BY <2>1
<1>5. QED  BY <1>2, <1>3, <1>4

LEMMA ConcatIs ==
    ASSUME NEW S, NEW a \in Seq(S), NEW b \in Seq(S), Len(a) = 1, Len(b) = 1
    PROVE  /\ a \o b \in Seq(S) /\ Len(a \o b) = 2
           /\ (a \o b)[1] = a[1] /\ (a \o b)[2] = b[1]
<1>1. 1 \in 1 .. Len(a) + Len(b) /\ 2 \in 1 .. Len(a) + Len(b)
  OBVIOUS
<1>2. /\ a \o b \in Seq(S)
      /\ Len(a \o b) = Len(a) + Len(b)
      /\ (a \o b)[1] = IF 1 <= Len(a) THEN a[1] ELSE b[1 - Len(a)]
      /\ (a \o b)[2] = IF 2 <= Len(a) THEN a[2] ELSE b[2 - Len(a)]
  BY <1>1, ConcatProperties
<1>3. QED  BY <1>2

LEMMA Pair ==
    ASSUME NEW c \in Child, NEW d \in Child
    PROVE  <<c>> \o <<d>> = <<c, d>>
<1> DEFINE a == <<c>>
           b == <<d>>
<1>1. /\ a \in Seq(Child) /\ Len(a) = 1 /\ a[1] = c
      /\ b \in Seq(Child) /\ Len(b) = 1 /\ b[1] = d
  OBVIOUS
<1> HIDE DEF a, b
<1>2. /\ a \o b \in Seq(Child) /\ Len(a \o b) = 2
      /\ (a \o b)[1] = c /\ (a \o b)[2] = d
  BY <1>1, ConcatIs
<1>3. ASSUME NEW e \in Seq(Child), Len(e) = 2, e[1] = c, e[2] = d PROVE e = <<c, d>>
  BY <1>3
<1>4. a \o b = <<c, d>>
  BY <1>2, <1>3
<1>5. QED  BY <1>4 DEF a, b

\* What two short lists of children stand for together.
LEMMA TotalOfBoth ==
    ASSUME NEW s \in Seq(Child), Len(s) <= 1, NEW t \in Seq(Child), Len(t) <= 1
    PROVE  /\ Total(s) \in Nat /\ Total(t) \in Nat
           /\ Total(s \o t) = Total(s) + Total(t)
<1>2. (s = << >> \/ \E c \in Child : s = <<c>>) /\ (t = << >> \/ \E d \in Child : t = <<d>>)
  BY AtMostOne
<1>3. \A c \in Child : Size[c] \in Nat
  BY Sizes
<1>4. CASE s = << >>
  <2>1. s \o t = t /\ Total(s) = 0
    BY <1>4, Totals
  <2>2. Total(t) \in Nat
    BY <1>2, <1>3, Totals
  <2>3. QED  BY <2>1, <2>2
<1>5. CASE t = << >>
  <2>1. s \o t = s /\ Total(t) = 0
    BY <1>5, Totals
  <2>2. Total(s) \in Nat
    BY <1>2, <1>3, Totals
  <2>3. QED  BY <2>1, <2>2
<1>6. ASSUME NEW c \in Child, s = <<c>>, NEW d \in Child, t = <<d>>
      PROVE  /\ Total(s) \in Nat /\ Total(t) \in Nat
             /\ Total(s \o t) = Total(s) + Total(t)
  <2>1. s \o t = <<c, d>>
    BY <1>6, Pair, Zenon
  <2>2. Total(s) = Size[c] /\ Total(t) = Size[d] /\ Total(s \o t) = Size[c] + Size[d]
    BY <1>6, <2>1, Totals
  <2>3. Size[c] \in Nat /\ Size[d] \in Nat
    BY <1>3
  <2>4. QED  BY <2>2, <2>3
<1>7. QED  BY <1>2, <1>4, <1>5, <1>6

\* The tokens from p up to q stand for n, but for a node id that broke off.
BrokenId(p, q, n) ==
    /\ q - p - n \in {4, 6}
    /\ \E k \in p .. q - 1 : tokens[k] = "ns" /\ tokens[k + 3] = "semicolon"

LEMMA RangeAccounts ==
    ASSUME NEW p \in Nat
    PROVE  parse_range(p).next = p + Total(parse_range(p).child)
<1>1. "range" \in Child /\ Size["range"] = 3
  BY Sizes DEF Child
<1>2. Total(<<"range">>) = 3 /\ Total(<< >>) = 0
  BY <1>1, Totals
<1>3. QED  BY <1>2 DEF parse_range, Nothing

LEMMA IpAccounts ==
    ASSUME NEW p \in Nat
    PROVE  /\ parse_ip(p).next = p + Total(parse_ip(p).child)
           /\ parse_ip(p).child # << >> => parse_ip(p).next = p + 7
<1>1. "ip" \in Child /\ Size["ip"] = 7
  BY Sizes DEF Child
<1>2. Total(<<"ip">>) = 7 /\ Total(<< >>) = 0
  BY <1>1, Totals
<1>3. QED  BY <1>2 DEF parse_ip, Nothing

LEMMA ParameterAccounts ==
    ASSUME NEW p \in Nat
    PROVE  /\ parse_parameter(p).next = p + Total(parse_parameter(p).child)
           /\ parse_parameter(p).child # << >> => parse_parameter(p).next = p + 1
<1>1. /\ "string" \in Child /\ Size["string"] = 1
      /\ "int" \in Child /\ Size["int"] = 1
  BY Sizes DEF Child
<1>2. Total(<<"string">>) = 1 /\ Total(<<"int">>) = 1 /\ Total(<< >>) = 0
  BY <1>1, Totals
<1>3. QED  BY <1>2 DEF parse_parameter, Nothing

\* A node id is taken whole, or with the rest of the line, or it is broken off
\* and gives nothing.
NodeIdAccounted(p, r) ==
    \/ r.next = p + Total(r.child)
    \/ r.child # << >> /\ StringId(p, r.next)
    \/ r.child = << >> /\ BrokenId(p, r.next, 0)

LEMMA NodeIdAccounts ==
    ASSUME TypeOK, EofAtEnd, NEW p \in 1 .. Len(tokens)
    PROVE  NodeIdAccounted(p, parse_nodeid(p))
<1> DEFINE ns    == <<{"ns"}, {"assign"}, Number, {"semicolon"}>>
           int   == <<{"i"}, {"assign"}, Number>>
           str   == <<{"s"}, {"assign"}>>
           other == <<Identifier, {"assign"}>>
           q     == p + 4
<1>1. /\ 1 \in DOMAIN ns /\ ns[1] = {"ns"} /\ 4 \in DOMAIN ns /\ ns[4] = {"semicolon"}
      /\ 1 \in DOMAIN str /\ str[1] = {"s"} /\ 2 \in DOMAIN str /\ str[2] = {"assign"}
      /\ Len(str) = 2 /\ Len(str) > 0 /\ str \in Seq(SUBSET Token)
  BY DEF Token, Punctuation, Identifier
<1>2. parse_nodeid(p) =
        IF ~Ahead(p, ns) THEN Nothing(p)
        ELSE IF Ahead(q, int) THEN [child |-> <<"nodeid">>, next |-> q + 3]
        ELSE IF Ahead(q, str) THEN [child |-> <<"nodeid">>, next |-> Eof]
        ELSE IF Ahead(q, other) THEN Nothing(q + 2)
        ELSE Nothing(q)
  BY DEF parse_nodeid
<1> HIDE DEF ns, int, str, other
<1>3. p \in Nat /\ Len(tokens) \in Nat
  BY DEF TypeOK
<1>4. Total(<<"nodeid">>) = 7 /\ Total(<< >>) = 0 /\ <<"nodeid">> # << >>
  <2>1. "nodeid" \in Child /\ Size["nodeid"] = 7
    BY Sizes DEF Child
  <2>2. QED  BY <2>1, Totals
<1>5. CASE ~Ahead(p, ns)
  BY <1>2, <1>3, <1>4, <1>5 DEF NodeIdAccounted, Nothing
<1>6. CASE Ahead(p, ns)
  <2>1. tokens[p] = "ns" /\ tokens[p + 3] = "semicolon"
    <3>1. tokens[p + 1 - 1] \in ns[1] /\ tokens[p + 4 - 1] \in ns[4]
      BY <1>1, <1>6 DEF Ahead
    <3>2. p + 1 - 1 = p /\ p + 4 - 1 = p + 3
      BY <1>3
    <3>3. QED  BY <1>1, <3>1, <3>2
  <2>2. ASSUME NEW r \in {p + 4, p + 6} PROVE BrokenId(p, r, 0)
    <3>1. r - p - 0 \in {4, 6} /\ p \in p .. r - 1
      BY <1>3
    <3>2. QED  BY <2>1, <3>1 DEF BrokenId
  <2>3. CASE Ahead(q, int)
    <3>1. parse_nodeid(p) = [child |-> <<"nodeid">>, next |-> q + 3]
      BY <1>2, <1>6, <2>3
    <3>2. QED  BY <1>3, <1>4, <3>1 DEF NodeIdAccounted
  <2>4. CASE ~Ahead(q, int) /\ Ahead(q, str)
    <3>1. q \in 1 .. Len(tokens)
      BY <1>1, <1>3, <2>4 DEF Ahead
    <3>2. q + 2 <= Len(tokens)
      BY <1>1, <2>4, <3>1, AheadBound
    <3>3. tokens[q] = "s" /\ tokens[q + 1] = "assign"
      <4>1. tokens[q + 1 - 1] \in str[1] /\ tokens[q + 2 - 1] \in str[2]
        BY <1>1, <2>4 DEF Ahead
      <4>2. QED  BY <1>1, <1>3, <4>1
    <3>4. parse_nodeid(p) = [child |-> <<"nodeid">>, next |-> Eof]
      BY <1>2, <1>6, <2>4
    <3>5. q \in p .. Eof - 1
      BY <1>3, <3>2 DEF Eof
    <3>6. StringId(p, Eof)
      BY <3>3, <3>5 DEF StringId
    <3>7. QED  BY <1>4, <3>4, <3>6 DEF NodeIdAccounted
  <2>5. CASE ~Ahead(q, int) /\ ~Ahead(q, str) /\ Ahead(q, other)
    <3>1. parse_nodeid(p) = Nothing(q + 2) /\ q + 2 = p + 6
      BY <1>2, <1>3, <1>6, <2>5
    <3>2. QED  BY <2>2, <3>1 DEF NodeIdAccounted, Nothing
  <2>6. CASE ~Ahead(q, int) /\ ~Ahead(q, str) /\ ~Ahead(q, other)
    <3>1. parse_nodeid(p) = Nothing(q)
      BY <1>2, <1>6, <2>6
    <3>2. QED  BY <2>2, <3>1 DEF NodeIdAccounted, Nothing
  <2>7. QED  BY <2>3, <2>4, <2>5, <2>6
<1>7. QED  BY <1>5, <1>6

\* The tokens from p up to q are accounted for by children that stand for n.
Accounts(p, q, n) == q = p + n \/ BrokenId(p, q, n) \/ StringId(p, q)

\* What is read of the node id, with m read in front of it.
LEMMA AccountsBehind ==
    ASSUME NEW p \in Nat, NEW m \in Nat, NEW q \in Nat, NEW n \in Nat,
           Accounts(p + m, q, n)
    PROVE  Accounts(p, q, m + n)
<1>1. CASE q = p + m + n
  BY <1>1 DEF Accounts
<1>2. CASE BrokenId(p + m, q, n)
  <2>1. q - p - (m + n) \in {4, 6}
    BY <1>2 DEF BrokenId
  <2>2. PICK k \in p + m .. q - 1 : tokens[k] = "ns" /\ tokens[k + 3] = "semicolon"
    BY <1>2 DEF BrokenId
  <2>3. k \in p .. q - 1
    OBVIOUS
  <2>4. QED  BY <2>1, <2>2, <2>3 DEF Accounts, BrokenId
<1>3. CASE StringId(p + m, q)
  <2>1. PICK k \in p + m .. q - 1 : tokens[k] = "s" /\ tokens[k + 1] = "assign"
    BY <1>3 DEF StringId
  <2>2. k \in p .. q - 1
    OBVIOUS
  <2>3. QED  BY <1>3, <2>1, <2>2 DEF Accounts, StringId
<1>4. QED  BY <1>1, <1>2, <1>3 DEF Accounts

\* The statement appended accounts for the tokens read.
Accounted ==
    statements' # statements /\ ~TakesRest =>
        LET lost == current' - current - Taken(Added)
        IN  \/ lost = 0
            \/ /\ lost \in {4, 6}
               /\ \E p \in Arguments : tokens[p] = "ns" /\ tokens[p + 3] = "semicolon"

LEMMA EmitAccounts ==
    ASSUME TypeOK, NEW type, NEW children, NEW next \in Nat, Emit(type, children, next),
           Total(children) \in Nat,
           \/ type = "set" /\ next = Eof
           \/ next = current + Own(type) + Total(children)
           \/ Own(type) = 1 /\ Accounts(current + 1, next, Total(children))
    PROVE  Accounted
<1>1. /\ current' = next /\ current \in Nat
      /\ statements' = Append(statements, [type |-> type, children |-> children])
  BY DEF Emit, TypeOK
<1>2. Added = [type |-> type, children |-> children]
  BY <1>1 DEF Added, TypeOK
<1>3. Taken(Added) = Own(type) + Total(children)
  BY <1>2, TakenIs
<1>4. Own(type) \in Nat
  BY DEF Own
<1> DEFINE size  == Own(type)
           total == Total(children)
           taken == Taken(Added)
<1>5. CASE type = "set" /\ next = Eof
  BY <1>1, <1>2, <1>5 DEF Accounted, TakesRest
<1>6. ASSUME next = current + size + total PROVE Accounted
  <2>1. current' - current - taken = 0
    <3>1. taken = size + total /\ size \in Nat /\ total \in Nat
      BY <1>3, <1>4
    <3> HIDE DEF taken, size, total
    <3>2. QED  BY <1>1, <1>6, <3>1
  <2>2. QED  BY <2>1 DEF Accounted
<1>7. ASSUME size = 1, BrokenId(current + 1, next, total) PROVE Accounted
  <2>1. current' - current - taken \in {4, 6}
    <3>1. taken = 1 + total /\ total \in Nat /\ next - (current + 1) - total \in {4, 6}
      BY <1>3, <1>7 DEF BrokenId
    <3> HIDE DEF taken, total
    <3>2. QED  BY <1>1, <3>1
  <2>2. \E p \in Arguments : tokens[p] = "ns" /\ tokens[p + 3] = "semicolon"
    BY <1>1, <1>7 DEF Arguments, BrokenId
  <2>3. QED  BY <2>1, <2>2 DEF Accounted
<1>8. ASSUME StringId(current + 1, next) PROVE Accounted
  BY <1>1, <1>8 DEF Accounted, Arguments, StringId, TakesRest
<1>9. QED  BY <1>5, <1>6, <1>7, <1>8 DEF Accounts

\* A node id with m read in front of it: it stands for itself and for m.
LEMMA NodeIdBehind ==
    ASSUME TypeOK, EofAtEnd, NEW p \in Nat, NEW m \in Nat, p + m \in 1 .. Len(tokens)
    PROVE  /\ Accounts(p, parse_nodeid(p + m).next, m + Total(parse_nodeid(p + m).child))
           /\ parse_nodeid(p + m).next \in Nat
           /\ Total(parse_nodeid(p + m).child) \in Nat
<1> DEFINE r == parse_nodeid(p + m)
<1>1. NodeIdAccounted(p + m, r)
  BY NodeIdAccounts
<1>2. Result(p + m, r)
  BY NodeIdResult
<1> HIDE DEF r
<1>3. r.next \in Nat /\ r.child \in Seq(Child) /\ Len(r.child) <= 1
  BY <1>2 DEF Result, TypeOK
<1>4. Total(r.child) \in Nat
  BY <1>3, TotalOfBoth
<1>5. Accounts(p + m, r.next, Total(r.child))
  BY <1>1, Totals DEF NodeIdAccounted, Accounts
<1>6. Accounts(p, r.next, m + Total(r.child))
  BY <1>3, <1>4, <1>5, AccountsBehind
<1>7. QED  BY <1>3, <1>4, <1>6 DEF r

\* What an "ls" takes: an index, a node id, and behind a broken node id a
\* parameter.
LEMMA ListDirsAccounts ==
    ASSUME IInv, ListDirs
    PROVE  Accounted
<1> DEFINE index == IF tokens[current + 1] = "number" THEN <<"index">> ELSE << >>
           p == current + 1 + Len(index)
           id == parse_nodeid(p)
           par == parse_parameter(id.next)
           arg == CASE tokens[p] \notin Identifier -> Nothing(p)
                    [] id.child # << >>            -> id
                    [] OTHER                       -> par
<1>1. At("ls") /\ Emit("list_dirs", index \o arg.child, arg.next)
  BY DEF ListDirs
<1>2. /\ TypeOK /\ EofAtEnd /\ Len(tokens) \in Nat /\ current \in Nat
      /\ current + 1 \in 1 .. Len(tokens)
  BY <1>1, Behind DEF IInv, TypeOK, At
<1>3. /\ index \in Seq(Child) /\ Len(index) \in {0, 1} /\ Total(index) = Len(index)
  <2>1. "index" \in Child /\ Size["index"] = 1
    BY Sizes DEF Child
  <2>2. Total(<<"index">>) = 1 /\ Total(<< >>) = 0
    BY <2>1, Totals
  <2>3. QED  BY <2>1, <2>2
<1>4. p \in 1 .. Len(tokens)
  <2>1. CASE tokens[current + 1] = "number"
    BY <1>2, <2>1 DEF EofAtEnd
  <2>2. CASE tokens[current + 1] # "number"
    BY <1>2, <2>2
  <2>3. QED  BY <2>1, <2>2
<1>5. \/ arg = Nothing(p)
      \/ id.child # << >> /\ arg = id
      \/ id.child = << >> /\ arg = par
  OBVIOUS
<1>6. p = current + 1 + Len(index)
  OBVIOUS
<1> HIDE DEF index, p
<1>7. NodeIdAccounted(p, id) /\ Result(p, id)
  BY <1>2, <1>4, NodeIdAccounts, NodeIdResult
<1> HIDE DEF id
<1>8. id.next \in 1 .. Len(tokens) /\ id.child \in Seq(Child) /\ Len(id.child) <= 1 /\ id.next >= p
  BY <1>2, <1>4, <1>7 DEF Result
<1>9. Result(id.next, par) /\ par.next = id.next + Total(par.child)
  BY <1>2, <1>8, ParameterResult, ParameterAccounts
<1> HIDE DEF par
<1>10. par.next \in Nat /\ par.child \in Seq(Child) /\ Len(par.child) <= 1
  BY <1>2, <1>8, <1>9 DEF Result
<1> HIDE DEF arg
<1>11. /\ arg.next \in Nat /\ arg.child \in Seq(Child) /\ Len(arg.child) <= 1
  <2>1. << >> \in Seq(Child) /\ Len(<< >>) <= 1 /\ p \in Nat /\ id.next \in Nat
    BY <1>4, <1>8
  <2>2. CASE arg = Nothing(p)
    BY <2>1, <2>2 DEF Nothing
  <2>3. CASE id.child # << >> /\ arg = id
    BY <1>8, <2>1, <2>3
  <2>4. CASE id.child = << >> /\ arg = par
    BY <1>10, <2>4
  <2>5. QED  BY <1>5, <2>2, <2>3, <2>4
<1>12. Total(arg.child) \in Nat /\ Total(index \o arg.child) = Total(index) + Total(arg.child)
       /\ Total(par.child) \in Nat
  <2>1. Len(index) <= 1
    BY <1>3
  <2>2. QED  BY <1>3, <1>10, <1>11, <2>1, TotalOfBoth
<1>13. Accounts(p, arg.next, Total(arg.child))
  <2>1. CASE arg = Nothing(p)
    BY <1>4, <2>1, Totals DEF Accounts, Nothing
  <2>2. CASE id.child # << >> /\ arg = id
    BY <1>7, <2>2 DEF Accounts, NodeIdAccounted
  <2>3. CASE id.child = << >> /\ arg = par
    <3>1. \/ id.next = p
          \/ BrokenId(p, id.next, 0)
      BY <1>4, <1>7, <2>3, Totals DEF NodeIdAccounted
    <3>2. CASE id.next = p
      BY <1>9, <2>3, <3>2 DEF Accounts
    <3>3. CASE BrokenId(p, id.next, 0)
      <4>1. id.next - p - 0 \in {4, 6}
        BY <3>3 DEF BrokenId
      <4>2. PICK k \in p .. id.next - 1 : tokens[k] = "ns" /\ tokens[k + 3] = "semicolon"
        BY <3>3 DEF BrokenId
      <4>3. PICK n \in Nat : n = Total(par.child)
        BY <1>12
      <4>4. PICK q \in Nat : q = id.next
        BY <1>8
      <4>5. par.next = q + n /\ q - p - 0 \in {4, 6} /\ k \in p .. q - 1 /\ p \in Nat
        BY <1>4, <1>9, <4>1, <4>2, <4>3, <4>4
      <4>6. par.next - p - n \in {4, 6} /\ k \in p .. par.next - 1
        BY <4>5
      <4>7. BrokenId(p, par.next, n)
        BY <4>2, <4>6 DEF BrokenId
      <4>8. QED  BY <2>3, <4>3, <4>7 DEF Accounts
    <3>4. QED  BY <3>1, <3>2, <3>3
  <2>4. QED  BY <1>5, <2>1, <2>2, <2>3
<1>14. Accounts(current + 1, arg.next, Total(index \o arg.child))
  <2>1. PICK m \in Nat : m = Len(index)
    BY <1>3
  <2>2. Accounts(current + 1 + m, arg.next, Total(arg.child)) /\ current + 1 \in Nat
    BY <1>2, <1>6, <1>13, <2>1
  <2>3. Accounts(current + 1, arg.next, m + Total(arg.child))
    BY <1>11, <1>12, <2>2, AccountsBehind
  <2>4. QED  BY <1>3, <1>12, <2>1, <2>3
<1>15. Total(index \o arg.child) \in Nat
  BY <1>3, <1>12
<1>16. Own("list_dirs") = 1
  BY DEF Own
<1>17. QED  BY <1>1, <1>2, <1>11, <1>14, <1>15, <1>16, EmitAccounts

LEMMA TurnAccounts == IInv /\ [Next]_vars => [Accounted]_vars
<1>1. SUFFICES ASSUME IInv, Next PROVE Accounted
  OBVIOUS
<1>2. /\ TypeOK /\ EofAtEnd /\ Len(tokens) \in Nat
      /\ current \in Nat /\ current + 1 \in Nat /\ current + 2 \in Nat
  BY <1>1 DEF IInv, TypeOK
<1>3. ASSUME NEW token, At(token), token # "eof"
      PROVE  current + 1 \in 1 .. Len(tokens)
  <2>1. Running /\ tokens[current] # "eof"
    BY <1>3 DEF At
  <2>2. QED  BY <1>2, <2>1, Behind
<1>same. ASSUME statements' = statements PROVE Accounted
  BY <1>same DEF Accounted
<1>own. /\ Own("ip") = 7 /\ Own("navigate_up") = 3
        /\ \A type \in Type \ {"ip", "navigate_up"} : Own(type) = 1
        /\ {"navigate_down", "navigate_to", "connect", "save", "state", "parameter"}
             \subseteq Type \ {"ip", "navigate_up"}
  BY DEF Own, Type
<1>none. Total(<< >>) = 0
  BY Totals
<1>4. CASE NavigateUp
  <2>1. Emit("navigate_up", << >>, current + 3)
    BY <1>4 DEF NavigateUp
  <2>2. current + 3 = current + Own("navigate_up") + Total(<< >>) /\ current + 3 \in Nat
    BY <1>2, <1>own, <1>none
  <2>3. QED  BY <1>2, <1>none, <2>1, <2>2, EmitAccounts
<1>5. CASE NavigateDown
  <2> DEFINE kinds == <<{"cd"}, Number>>
             id == parse_nodeid(current + 2)
  <2>1. Ahead(current, kinds) /\ Emit("navigate_down", <<"int">> \o id.child, id.next)
    BY <1>5 DEF NavigateDown
  <2>2. Len(kinds) > 0 /\ Len(kinds) = 2 /\ kinds \in Seq(SUBSET Token)
    BY DEF Number, Token, Keyword
  <2>3. current + 2 \in 1 .. Len(tokens)
    <3>1. current \in 1 .. Len(tokens)
      BY <1>2, <1>5 DEF NavigateDown, At, Running, TypeOK
    <3> HIDE DEF kinds
    <3>2. current + Len(kinds) <= Len(tokens)
      BY <1>2, <2>1, <2>2, <3>1, AheadBound
    <3>3. QED  BY <1>2, <2>2, <3>2
  <2>4. Result(current + 2, id)
    BY <1>2, <2>3, NodeIdResult
  <2>5. /\ Accounts(current + 1, id.next, 1 + Total(id.child))
        /\ id.next \in Nat /\ Total(id.child) \in Nat
    <3>1. current + 1 + 1 = current + 2 /\ 1 \in Nat
      BY <1>2
    <3>2. current + 1 + 1 \in 1 .. Len(tokens)
      BY <2>3, <3>1
    <3>3. /\ Accounts(current + 1, parse_nodeid(current + 1 + 1).next,
                      1 + Total(parse_nodeid(current + 1 + 1).child))
          /\ parse_nodeid(current + 1 + 1).next \in Nat
          /\ Total(parse_nodeid(current + 1 + 1).child) \in Nat
      BY <1>2, <3>1, <3>2, NodeIdBehind
    <3>4. QED  BY <3>1, <3>3
  <2> HIDE DEF id
  <2>6. Total(<<"int">> \o id.child) = 1 + Total(id.child)
    <3>1. "int" \in Child /\ Size["int"] = 1
      BY Sizes DEF Child
    <3>2. <<"int">> \in Seq(Child) /\ Len(<<"int">>) <= 1 /\ Total(<<"int">>) = 1
      BY <3>1, Totals
    <3>3. id.child \in Seq(Child) /\ Len(id.child) <= 1
      BY <2>4 DEF Result
    <3>4. Total(<<"int">> \o id.child) = Total(<<"int">>) + Total(id.child)
      BY <3>2, <3>3, TotalOfBoth
    <3>5. QED  BY <3>2, <3>4
  <2>7. Total(<<"int">> \o id.child) \in Nat
    BY <2>5, <2>6
  <2>8. QED  BY <1>2, <1>own, <2>1, <2>5, <2>6, <2>7, EmitAccounts
<1>6. CASE NavigateTo
  <2> DEFINE id == parse_nodeid(current + 1)
  <2>1. At("cd") /\ Emit("navigate_to", id.child, id.next)
    BY <1>6 DEF NavigateTo
  <2>2. NodeIdAccounted(current + 1, id) /\ Result(current + 1, id)
    BY <1>2, <1>3, <2>1, NodeIdAccounts, NodeIdResult
  <2> HIDE DEF id
  <2>3. id.next \in Nat /\ Total(id.child) \in Nat
    BY <1>2, <2>2, TotalOfBoth DEF Result
  <2>4. Accounts(current + 1, id.next, Total(id.child))
    BY <2>2, Totals DEF Accounts, NodeIdAccounted
  <2>5. QED  BY <1>2, <1>own, <2>1, <2>3, <2>4, EmitAccounts
<1>7. CASE Ip
  <2>1. Emit("ip", << >>, parse_ip(current).next) /\ parse_ip(current).child # << >>
    BY <1>7 DEF Ip
  <2>2. parse_ip(current).next = current + 7
    BY <1>2, <2>1, IpAccounts
  <2>3. current + 7 \in Nat /\ current + 7 = current + Own("ip") + Total(<< >>)
    BY <1>2, <1>own, <1>none
  <2>4. QED  BY <1>2, <1>none, <2>1, <2>2, <2>3, EmitAccounts
<1>8. CASE Parameter
  <2>1. /\ Emit("parameter", << >>, parse_parameter(current).next)
        /\ parse_parameter(current).child # << >>
    BY <1>8 DEF Parameter
  <2>2. parse_parameter(current).next = current + 1
    BY <1>2, <2>1, ParameterAccounts
  <2>3. current + 1 = current + Own("parameter") + Total(<< >>)
    BY <1>2, <1>own, <1>none
  <2>4. QED  BY <1>2, <1>none, <2>1, <2>2, <2>3, EmitAccounts
<1>9. CASE Connect
  <2> DEFINE ip == parse_ip(current + 1)
  <2>1. At("con") /\ Emit("connect", ip.child, ip.next)
    BY <1>9 DEF Connect
  <2>2. Result(current + 1, ip) /\ ip.next = current + 1 + Total(ip.child)
    BY <1>2, <1>3, <2>1, IpResult, IpAccounts
  <2> HIDE DEF ip
  <2>3. ip.next \in Nat /\ Total(ip.child) \in Nat
    BY <1>2, <2>2, TotalOfBoth DEF Result
  <2>4. Accounts(current + 1, ip.next, Total(ip.child))
    BY <2>2 DEF Accounts
  <2>5. QED  BY <1>2, <1>own, <2>1, <2>3, <2>4, EmitAccounts
<1>10. CASE ListDirs
  BY <1>1, <1>10, ListDirsAccounts
<1>11. CASE Save
  <2> DEFINE range == parse_range(current + 1)
             arg == parse_parameter(range.next)
  <2>1. At("save") /\ Emit("save", range.child \o arg.child, arg.next)
    BY <1>11 DEF Save
  <2>2. Result(current + 1, range) /\ range.next = current + 1 + Total(range.child)
    BY <1>2, <1>3, <2>1, RangeResult, RangeAccounts
  <2> HIDE DEF range
  <2>3. range.next \in 1 .. Len(tokens) /\ range.next \in Nat
    BY <1>2, <1>3, <2>1, <2>2 DEF Result
  <2>4. Result(range.next, arg) /\ arg.next = range.next + Total(arg.child)
    BY <1>2, <2>3, ParameterResult, ParameterAccounts
  <2> HIDE DEF arg
  <2>5. /\ range.child \in Seq(Child) /\ Len(range.child) <= 1
        /\ arg.child \in Seq(Child) /\ Len(arg.child) <= 1 /\ arg.next \in Nat
    BY <1>2, <2>2, <2>3, <2>4 DEF Result
  <2>6. /\ Total(range.child) \in Nat /\ Total(arg.child) \in Nat
        /\ Total(range.child \o arg.child) = Total(range.child) + Total(arg.child)
    BY <2>5, TotalOfBoth
  <2>7. /\ arg.next = current + 1 + Total(range.child \o arg.child)
        /\ Total(range.child \o arg.child) \in Nat
    <3>1. PICK m \in Nat : m = Total(range.child)
      BY <2>6
    <3>2. PICK n \in Nat : n = Total(arg.child)
      BY <2>6
    <3>3. PICK k \in Nat : k = Total(range.child \o arg.child)
      BY <2>6, <3>1, <3>2
    <3>4. k = m + n /\ range.next = current + 1 + m /\ arg.next = range.next + n
      BY <2>2, <2>4, <2>6, <3>1, <3>2, <3>3
    <3>5. arg.next = current + 1 + k
      BY <1>2, <3>4
    <3>6. QED  BY <3>3, <3>5
  <2>8. Accounts(current + 1, arg.next, Total(range.child \o arg.child))
    BY <2>7 DEF Accounts
  <2>9. QED  BY <1>2, <1>own, <2>1, <2>5, <2>7, <2>8, EmitAccounts
<1>12. CASE State
  <2>1. Emit("state", << >>, current + 1)
    BY <1>12 DEF State
  <2>2. current + 1 = current + Own("state") + Total(<< >>)
    BY <1>2, <1>own, <1>none
  <2>3. QED  BY <1>2, <1>none, <2>1, <2>2, EmitAccounts
<1>13. CASE Set
  <2> DEFINE key == parse_parameter(current + 1)
             children == IF key.next < Eof THEN key.child \o <<"string">> ELSE key.child
  <2>1. At("set") /\ Emit("set", children, Eof)
    BY <1>13 DEF Set
  <2>2. Result(current + 1, key)
    BY <1>2, <1>3, <2>1, ParameterResult
  <2> HIDE DEF key
  <2>3. key.child \in Seq(Child) /\ Len(key.child) <= 1
    BY <2>2 DEF Result
  <2>4. <<"string">> \in Seq(Child) /\ Len(<<"string">>) <= 1
    BY DEF Child
  <2>5. Total(key.child) \in Nat /\ Total(key.child \o <<"string">>) \in Nat
    <3>1. /\ Total(key.child) \in Nat /\ Total(<<"string">>) \in Nat
          /\ Total(key.child \o <<"string">>) = Total(key.child) + Total(<<"string">>)
      BY <2>3, <2>4, TotalOfBoth
    <3>2. QED  BY <3>1
  <2>6. Total(children) \in Nat /\ Eof \in Nat
    BY <1>2, <2>5 DEF Eof
  <2>7. QED  BY <1>2, <2>1, <2>6, EmitAccounts
<1>14. CASE SetWithoutKey \/ NotHandled \/ Done
  BY <1>14, <1>same DEF SetWithoutKey, NotHandled, Done, vars
<1>15. QED
  BY <1>1, <1>4, <1>5, <1>6, <1>7, <1>8, <1>9, <1>10, <1>11, <1>12, <1>13, <1>14 DEF Next

\* Between two statements no token is lost or read twice, but for what a node
\* id that breaks off half way has read, for every line.
THEOREM TokensAreAccounted == Spec => TokensAccounted
<1>1. Spec => []IInv
  BY StartIsIInv, TurnKeepsIInv, PTL DEF Spec
<1>2. QED  BY <1>1, TurnAccounts, PTL DEF Spec, TokensAccounted, Accounted

-----------------------------------------------------------------------------
(* How much a statement can carry. *)

\* A turn moves on. It adds no statement, or one of at most two children that
\* has taken a token for itself and one for each child, three if the child is a
\* range.
Grown ==
    /\ tokens' = tokens
    /\ \/ statements' = statements /\ current' > current
       \/ \E s \in Statement :
             /\ statements' = Append(statements, s)
             /\ Len(s.children) <= 2
             /\ current' >= current + 1 + Len(s.children) /\ current' <= Len(tokens)
             /\ s.type = "save" /\ Len(s.children) = 2 => current' >= current + 5

LEMMA EmitGrows ==
    ASSUME NEW type \in Type, NEW kids \in Seq(Child), NEW next,
           Emit(type, kids, next), Len(kids) <= 2,
           next >= current + 1 + Len(kids), next <= Len(tokens),
           type = "save" /\ Len(kids) = 2 => next >= current + 5
    PROVE  Grown
<1> DEFINE s == [type |-> type, children |-> kids]
<1>1. s \in Statement /\ s.type = type /\ s.children = kids
  BY DEF Statement
<1>2. statements' = Append(statements, s) /\ current' = next /\ tokens' = tokens
  BY DEF Emit
<1> HIDE DEF s
<1>3. QED  BY <1>1, <1>2 DEF Grown

\* What is read in two parts, each of one child at most.
LEMMA Together ==
    ASSUME TypeOK, NEW p \in Nat, NEW a, Result(p, a), NEW b, Result(a.next, b)
    PROVE  /\ a.child \o b.child \in Seq(Child) /\ Len(a.child \o b.child) <= 2
           /\ Len(a.child \o b.child) = Len(a.child) + Len(b.child)
           /\ b.next >= p + Len(a.child \o b.child) /\ b.next <= Len(tokens)
<1>1. /\ a.child \in Seq(Child) /\ b.child \in Seq(Child)
      /\ Len(a.child) <= 1 /\ Len(b.child) <= 1
      /\ a.next \in Nat /\ b.next \in Nat /\ Len(tokens) \in Nat
      /\ a.next >= p /\ b.next >= a.next /\ b.next <= Len(tokens)
  BY DEF Result, TypeOK
<1>2. a.child # << >> => a.next > p
  BY DEF Result
<1>3. b.child # << >> => b.next > a.next
  BY DEF Result
<1>4. a.child \o b.child \in Seq(Child) /\ Len(a.child \o b.child) = Len(a.child) + Len(b.child)
  BY <1>1, ConcatProperties
<1>5. PICK m \in Nat : m = Len(a.child)
  BY <1>1, LenInNat
<1>6. PICK n \in Nat : n = Len(b.child)
  BY <1>1, LenInNat
<1>7. m = 0 \/ (m = 1 /\ a.next > p)
  <2>1. CASE a.child = << >>
    BY <1>5, <2>1
  <2>2. CASE a.child # << >>
    <3>1. \E c \in Child : a.child = <<c>>
      BY <1>1, <2>2, AtMostOne
    <3>2. QED  BY <1>2, <1>5, <2>2, <3>1
  <2>3. QED  BY <2>1, <2>2
<1>8. n = 0 \/ (n = 1 /\ b.next > a.next)
  <2>1. CASE b.child = << >>
    BY <1>6, <2>1
  <2>2. CASE b.child # << >>
    <3>1. \E c \in Child : b.child = <<c>>
      BY <1>1, <2>2, AtMostOne
    <3>2. QED  BY <1>3, <1>6, <2>2, <3>1
  <2>3. QED  BY <2>1, <2>2
<1>9. PICK x \in Nat, y \in Nat : x = a.next /\ y = b.next
  BY <1>1
<1>10. y >= p + (m + n) /\ m + n <= 2
  BY <1>1, <1>7, <1>8, <1>9
<1>11. Len(a.child \o b.child) = m + n
  BY <1>4, <1>5, <1>6
<1>12. QED  BY <1>1, <1>4, <1>9, <1>10, <1>11

\* One part alone.
LEMMA Alone ==
    ASSUME TypeOK, NEW p \in Nat, NEW a, Result(p, a)
    PROVE  /\ a.child \in Seq(Child) /\ Len(a.child) <= 1 /\ Len(a.child) <= 2
           /\ a.next >= p + Len(a.child) /\ a.next <= Len(tokens)
<1>1. /\ a.child \in Seq(Child) /\ Len(a.child) <= 1
      /\ a.next \in Nat /\ a.next >= p /\ a.next <= Len(tokens)
  BY DEF Result, TypeOK
<1>2. CASE a.child = << >>
  <2>1. Len(a.child) = 0
    BY <1>2
  <2>2. QED  BY <1>1, <2>1
<1>3. CASE a.child # << >>
  <2>1. \E c \in Child : a.child = <<c>>
    BY <1>1, <1>3, AtMostOne
  <2>2. Len(a.child) = 1 /\ a.next > p
    BY <1>3, <2>1 DEF Result
  <2>3. QED  BY <1>1, <2>2
<1>4. QED  BY <1>2, <1>3

LEMMA TurnGrows == IInv /\ Running /\ Next => Grown
<1>1. SUFFICES ASSUME IInv, Running, Next PROVE Grown
  OBVIOUS
<1>2. /\ TypeOK /\ EofAtEnd /\ Len(tokens) \in Nat
      /\ current \in Nat /\ current + 1 \in Nat /\ current + 2 \in Nat
      /\ current \in 1 .. Len(tokens) + 1
  BY <1>1 DEF IInv, TypeOK
<1>3. ASSUME NEW token, At(token), token # "eof"
      PROVE  current \in 1 .. Len(tokens) /\ current + 1 \in 1 .. Len(tokens)
  <2>1. Running /\ tokens[current] # "eof"
    BY <1>3 DEF At
  <2>2. QED  BY <1>2, <2>1, Behind
<1>types. /\ {"navigate_up", "navigate_down", "navigate_to", "connect", "list_dirs",
              "save", "state", "set", "ip", "parameter"} \subseteq Type
          /\ << >> \in Seq(Child) /\ Len(<< >>) = 0
          /\ {"int", "string", "index"} \subseteq Child
  BY DEF Type, Child
<1>4. CASE NavigateUp
  <2> DEFINE kinds == <<{"cd"}, Dot, Dot>>
  <2>1. At("cd") /\ Ahead(current, kinds) /\ Emit("navigate_up", << >>, current + 3)
    BY <1>4 DEF NavigateUp
  <2>2. kinds \in Seq(SUBSET Token) /\ Len(kinds) = 3 /\ Len(kinds) > 0
    BY DEF Dot, Token, Punctuation, Keyword
  <2> HIDE DEF kinds
  <2>3. current \in 1 .. Len(tokens)
    BY <1>3, <2>1
  <2>4. current + Len(kinds) <= Len(tokens)
    BY <1>2, <2>1, <2>2, <2>3, AheadBound
  <2>5. current + 3 <= Len(tokens) /\ current + 3 >= current + 1 + Len(<< >>) /\ Len(<< >>) <= 2
    BY <1>2, <1>types, <2>2, <2>4
  <2>6. QED  BY <1>types, <2>1, <2>5, EmitGrows
<1>5. CASE NavigateDown
  <2> DEFINE kinds == <<{"cd"}, Number>>
             int == [child |-> <<"int">>, next |-> current + 2]
             id == parse_nodeid(current + 2)
  <2>1. At("cd") /\ Ahead(current, kinds) /\ Emit("navigate_down", <<"int">> \o id.child, id.next)
    BY <1>5 DEF NavigateDown
  <2>2. kinds \in Seq(SUBSET Token) /\ Len(kinds) = 2 /\ Len(kinds) > 0
    BY DEF Number, Token, Keyword
  <2> HIDE DEF kinds
  <2>3. current \in 1 .. Len(tokens) /\ current + 1 \in 1 .. Len(tokens)
    BY <1>3, <2>1
  <2>4. current + 2 \in 1 .. Len(tokens)
    <3>1. current + Len(kinds) <= Len(tokens)
      BY <1>2, <2>1, <2>2, <2>3, AheadBound
    <3>2. QED  BY <1>2, <2>2, <3>1
  <2>5. Result(current + 2, id)
    BY <1>2, <2>4, NodeIdResult
  <2>6. Result(current + 1, int)
    BY <1>2, <1>types, <2>3, <2>4, OneResult
  <2>7. int.child = <<"int">> /\ int.next = current + 2
    OBVIOUS
  <2> HIDE DEF id, int
  <2>8. /\ <<"int">> \o id.child \in Seq(Child) /\ Len(<<"int">> \o id.child) <= 2
        /\ id.next >= current + 1 + Len(<<"int">> \o id.child) /\ id.next <= Len(tokens)
    BY <1>2, <2>5, <2>6, <2>7, Together
  <2>9. QED  BY <1>types, <2>1, <2>8, EmitGrows
<1>6. CASE NavigateTo
  <2> DEFINE id == parse_nodeid(current + 1)
  <2>1. At("cd") /\ Emit("navigate_to", id.child, id.next)
    BY <1>6 DEF NavigateTo
  <2>2. Result(current + 1, id)
    BY <1>2, <1>3, <2>1, NodeIdResult
  <2> HIDE DEF id
  <2>3. /\ id.child \in Seq(Child) /\ Len(id.child) <= 2
        /\ id.next >= current + 1 + Len(id.child) /\ id.next <= Len(tokens)
    BY <1>2, <2>2, Alone
  <2>4. QED  BY <1>types, <2>1, <2>3, EmitGrows
<1>7. CASE Ip
  <2> DEFINE ip == parse_ip(current)
  <2>1. At("number") /\ ip.child # << >> /\ Emit("ip", << >>, ip.next)
    BY <1>7 DEF Ip
  <2>2. Result(current, ip)
    BY <1>2, <1>3, <2>1, IpResult
  <2> HIDE DEF ip
  <2>3. ip.next >= current + 1 + Len(<< >>) /\ ip.next <= Len(tokens) /\ Len(<< >>) <= 2
    BY <1>2, <1>types, <2>1, <2>2 DEF Result
  <2>4. QED  BY <1>types, <2>1, <2>3, EmitGrows
<1>8. CASE Parameter
  <2> DEFINE par == parse_parameter(current)
  <2>1. Running /\ par.child # << >> /\ Emit("parameter", << >>, par.next)
    BY <1>8 DEF Parameter
  <2>2. current \in 1 .. Len(tokens)
    BY <1>2, <2>1 DEF Running
  <2>3. Result(current, par)
    BY <1>2, <2>2, ParameterResult
  <2> HIDE DEF par
  <2>4. par.next >= current + 1 + Len(<< >>) /\ par.next <= Len(tokens) /\ Len(<< >>) <= 2
    BY <1>2, <1>types, <2>1, <2>3 DEF Result
  <2>5. QED  BY <1>types, <2>1, <2>4, EmitGrows
<1>9. CASE Connect
  <2> DEFINE ip == parse_ip(current + 1)
  <2>1. At("con") /\ Emit("connect", ip.child, ip.next)
    BY <1>9 DEF Connect
  <2>2. Result(current + 1, ip)
    BY <1>2, <1>3, <2>1, IpResult
  <2> HIDE DEF ip
  <2>3. /\ ip.child \in Seq(Child) /\ Len(ip.child) <= 2
        /\ ip.next >= current + 1 + Len(ip.child) /\ ip.next <= Len(tokens)
    BY <1>2, <2>2, Alone
  <2>4. QED  BY <1>types, <2>1, <2>3, EmitGrows
<1>10. CASE ListDirs
  <2> DEFINE index == IF tokens[current + 1] = "number" THEN <<"index">> ELSE << >>
             p == current + 1 + Len(index)
             id == parse_nodeid(p)
             par == parse_parameter(id.next)
             arg == CASE tokens[p] \notin Identifier -> Nothing(p)
                      [] id.child # << >>            -> id
                      [] OTHER                       -> par
             first == [child |-> index, next |-> p]
  <2>1. At("ls") /\ Emit("list_dirs", index \o arg.child, arg.next)
    BY <1>10 DEF ListDirs
  <2>2. current + 1 \in 1 .. Len(tokens)
    BY <1>3, <2>1
  <2>3. p \in 1 .. Len(tokens) /\ Result(current + 1, first)
    <3>1. CASE tokens[current + 1] = "number"
      <4>1. current + 1 # Len(tokens)
        BY <1>2, <3>1 DEF EofAtEnd
      <4>2. index = <<"index">> /\ p = current + 2 /\ p \in 1 .. Len(tokens)
        BY <1>2, <2>2, <3>1, <4>1
      <4>3. Result(current + 1, [child |-> <<"index">>, next |-> current + 2])
        BY <1>2, <1>types, <2>2, <4>2, OneResult
      <4>4. QED  BY <4>2, <4>3
    <3>2. CASE tokens[current + 1] # "number"
      <4>1. index = << >> /\ p = current + 1
        BY <1>2, <3>2
      <4>2. Result(current + 1, Nothing(current + 1))
        BY <1>2, <2>2, NothingResult
      <4>3. QED  BY <2>2, <4>1, <4>2 DEF Nothing
    <3>3. QED  BY <3>1, <3>2
  <2>4. arg = Nothing(p) \/ arg = id \/ (id.child = << >> /\ arg = par)
    OBVIOUS
  <2>5. first.child = index /\ first.next = p
    OBVIOUS
  <2> HIDE DEF index, p, first
  <2>6. Result(p, id)
    BY <1>2, <2>3, NodeIdResult
  <2>7. Result(p, Nothing(p))
    BY <1>2, <2>3, NothingResult
  <2> HIDE DEF id
  <2>8. id.next \in 1 .. Len(tokens) /\ id.next >= p
    BY <1>2, <2>3, <2>6 DEF Result
  <2>9. Result(id.next, par)
    BY <1>2, <2>8, ParameterResult
  <2> HIDE DEF par
  <2>10. Result(p, par)
    BY <1>2, <2>3, <2>8, <2>9 DEF Result
  <2> HIDE DEF arg
  <2>11. Result(p, arg)
    BY <2>4, <2>6, <2>7, <2>10
  <2>12. /\ index \o arg.child \in Seq(Child) /\ Len(index \o arg.child) <= 2
         /\ arg.next >= current + 1 + Len(index \o arg.child) /\ arg.next <= Len(tokens)
    BY <1>2, <2>3, <2>5, <2>11, Together
  <2>13. QED  BY <1>types, <2>1, <2>12, EmitGrows
<1>11. CASE Save
  <2> DEFINE range == parse_range(current + 1)
             arg == parse_parameter(range.next)
  <2>1. At("save") /\ Emit("save", range.child \o arg.child, arg.next)
    BY <1>11 DEF Save
  <2>2. Result(current + 1, range)
    BY <1>2, <1>3, <2>1, RangeResult
  <2>3. range.child # << >> => range.next = current + 4
    BY <1>2 DEF parse_range, Nothing
  <2> HIDE DEF range
  <2>4. range.next \in 1 .. Len(tokens)
    BY <1>2, <1>3, <2>1, <2>2 DEF Result
  <2>5. Result(range.next, arg)
    BY <1>2, <2>4, ParameterResult
  <2> HIDE DEF arg
  <2>6. /\ range.child \o arg.child \in Seq(Child) /\ Len(range.child \o arg.child) <= 2
        /\ arg.next >= current + 1 + Len(range.child \o arg.child) /\ arg.next <= Len(tokens)
        /\ Len(range.child \o arg.child) = Len(range.child) + Len(arg.child)
    BY <1>2, <2>2, <2>5, Together
  <2>7. Len(range.child \o arg.child) = 2 => arg.next >= current + 5
    <3>1. SUFFICES ASSUME Len(range.child) + Len(arg.child) = 2 PROVE arg.next >= current + 5
      BY <2>6
    <3>2. PICK m \in Nat, n \in Nat : m = Len(range.child) /\ n = Len(arg.child)
      BY <2>2, <2>5, LenInNat DEF Result
    <3>3. m <= 1 /\ n <= 1 /\ m + n = 2
      BY <2>2, <2>5, <3>1, <3>2 DEF Result
    <3>single. m = 1 /\ n = 1
      BY <3>3
    <3>none. (range.child = << >> => m = 0) /\ (arg.child = << >> => n = 0)
      BY <1>types, <3>2, Zenon
    <3>4. range.child # << >> /\ arg.child # << >>
      BY <3>single, <3>none
    <3>5. arg.next \in Nat /\ arg.next > range.next
      BY <1>2, <2>4, <2>5, <3>4 DEF Result
    <3>6. QED  BY <1>2, <2>3, <3>4, <3>5
  <2>8. QED  BY <1>types, <2>1, <2>6, <2>7, EmitGrows
<1>12. CASE State
  <2>1. At("state") /\ Emit("state", << >>, current + 1)
    BY <1>12 DEF State
  <2>2. current + 1 <= Len(tokens) /\ current + 1 >= current + 1 + Len(<< >>) /\ Len(<< >>) <= 2
    BY <1>2, <1>3, <1>types, <2>1
  <2>3. QED  BY <1>types, <2>1, <2>2, EmitGrows
<1>13. CASE Set
  <2> DEFINE key == parse_parameter(current + 1)
             value == [child |-> <<"string">>, next |-> Eof]
             kids == IF key.next < Eof THEN key.child \o <<"string">> ELSE key.child
  <2>1. At("set") /\ Emit("set", kids, Eof)
    BY <1>13 DEF Set
  <2>2. Result(current + 1, key)
    BY <1>2, <1>3, <2>1, ParameterResult
  <2> HIDE DEF key
  <2>3. key.next \in 1 .. Len(tokens) /\ Eof = Len(tokens)
    BY <1>2, <1>3, <2>1, <2>2 DEF Result, Eof
  <2>4. CASE key.next < Eof
    <3>1. Result(key.next, value)
      BY <1>2, <1>types, <2>3, <2>4, OneResult
    <3>2. value.child = <<"string">> /\ value.next = Eof /\ kids = key.child \o <<"string">>
      BY <2>4
    <3> HIDE DEF value, kids
    <3>3. /\ kids \in Seq(Child) /\ Len(kids) <= 2
          /\ Eof >= current + 1 + Len(kids) /\ Eof <= Len(tokens)
      BY <1>2, <2>2, <3>1, <3>2, Together
    <3>4. QED  BY <1>types, <2>1, <3>3, EmitGrows
  <2>5. CASE ~(key.next < Eof)
    <3>1. kids = key.child /\ key.next = Eof
      BY <1>2, <2>3, <2>5
    <3> HIDE DEF kids
    <3>2. /\ kids \in Seq(Child) /\ Len(kids) <= 2
          /\ Eof >= current + 1 + Len(kids) /\ Eof <= Len(tokens)
      BY <1>2, <2>2, <3>1, Alone
    <3>3. QED  BY <1>types, <2>1, <3>2, EmitGrows
  <2>6. QED  BY <2>4, <2>5
<1>14. CASE SetWithoutKey \/ NotHandled \/ Done
  <2>1. statements' = statements /\ tokens' = tokens /\ current' \in {current + 1, current + 2}
    BY <1>1, <1>14 DEF SetWithoutKey, NotHandled, Done
  <2>2. current' > current
    BY <1>2, <2>1
  <2>3. QED  BY <2>1, <2>2 DEF Grown
<1>15. QED
  BY <1>1, <1>4, <1>5, <1>6, <1>7, <1>8, <1>9, <1>10, <1>11, <1>12, <1>13, <1>14 DEF Next

\* The loop of parser_parse is over after at most as many turns as the line has
\* tokens, whatever the sub-parsers find: every turn moves on, within the list.
THEOREM TurnsMoveOn == Spec => [][Running => current' \in current + 1 .. Len(tokens) + 1]_vars
<1>1. ASSUME IInv, IInv', Running, Next
      PROVE  current' \in current + 1 .. Len(tokens) + 1
  <2>1. PICK a \in Nat, b \in Nat, n \in Nat :
            a = current /\ b = current' /\ n = Len(tokens)
    <3>1. current \in Nat /\ Len(tokens) \in Nat
      BY <1>1 DEF IInv, TypeOK
    <3>2. current' \in Nat
      BY <1>1 DEF IInv, TypeOK
    <3>3. QED  BY <3>1, <3>2
  <2>2. Grown
    BY <1>1, TurnGrows
  <2>3. current' > current
    <3>1. CASE statements' = statements /\ current' > current
      BY <3>1
    <3>2. ASSUME NEW s \in Statement, current' >= current + 1 + Len(s.children)
          PROVE  current' > current
      <4>1. PICK m \in Nat : m = Len(s.children)
        BY LenInNat DEF Statement
      <4>2. b >= a + 1 + m
        BY <2>1, <3>2, <4>1
      <4>3. QED  BY <2>1, <4>2
    <3>3. QED  BY <2>2, <3>1, <3>2 DEF Grown
  <2>4. tokens' = tokens /\ b <= n + 1
    BY <1>1, <2>1, <2>2 DEF Grown, IInv, TypeOK
  <2>5. QED  BY <2>1, <2>3, <2>4
<1>2. IInv /\ IInv' /\ [Next]_vars
        => [Running => current' \in current + 1 .. Len(tokens) + 1]_vars
  BY <1>1
<1>3. QED  BY <1>2, StartIsIInv, TurnKeepsIInv, PTL DEF Spec
=============================================================================
