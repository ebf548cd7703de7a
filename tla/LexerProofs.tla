---------------------------- MODULE LexerProofs ----------------------------
(* The list of tokens for texts of any length: its room, where its tokens   *)
(* lie, which words are commands, that their values are the text, and that  *)
(* the list ends and is one the parser can start from.                      *)
EXTENDS Lexer, FiniteSetTheorems, SequenceTheorems, WellFoundedInduction, TLAPS

LEMMA WordsType ==
    \A w \in Words : w.kind \in P!Keyword \cup P!Identifier \cup {"unhandled"}
  BY DEF Words, P!Keyword, P!Identifier

\* A word becomes a command only if all of it is compared equal.
LEMMA WordKindIs ==
    ASSUME NEW text
    PROVE  /\ WordKind(text) \in Kind \ {"eof"}
           /\ WordKind(text) \in P!Keyword =>
                 \E w \in Words : w.kind = WordKind(text) /\ w.text = text
<1>1. CASE \E w \in Words : w.text = text
  <2>1. PICK w \in Words : w = CHOOSE v \in Words : v.text = text
    BY <1>1
  <2>2. w.text = text
    BY <1>1, <2>1
  <2>3. WordKind(text) = w.kind
    BY <1>1, <2>1 DEF WordKind
  <2>4. w.kind \in Kind \ {"eof"}
    BY WordsType DEF Kind, P!Token, P!Keyword, P!Identifier, P!Punctuation, P!Unhandled
  <2>5. QED  BY <2>2, <2>3, <2>4
<1>2. CASE ~\E w \in Words : w.text = text
  BY <1>2 DEF WordKind, Kind, P!Token, P!Keyword, P!Identifier
<1>3. QED  BY <1>1, <1>2

\* A piece of the text is a text.
LEMMA SpanType ==
    ASSUME TypeOK, NEW p \in 1 .. End, NEW q \in p .. End
    PROVE  Span(p, q) \in Seq(Character)
<1>1. source \in Seq(Character) /\ Len(source) \in Nat
  BY DEF TypeOK
<1>2. q - 1 \in 0 .. Len(source)
  BY <1>1 DEF End
<1>3. \A k \in p .. q - 1 : k \in DOMAIN source /\ source[k] \in Character
  BY <1>1, <1>2 DEF End
<1>4. QED  BY <1>1, <1>2, <1>3 DEF Span

\* Every step appends one token that starts where the skipping stopped.
LEMMA OneToken ==
    ASSUME TypeOK, Next
    PROVE  \E kind \in Kind, p, q \in 1 .. End, value \in Seq(Character) :
              /\ Running /\ Skip(p)
              /\ p <= q
              /\ Take(kind, p, q, value)
              /\ p = q => kind = "eof"
              /\ kind = "eof" => p = End /\ q = End
<1>1. source \in Seq(Character) /\ Len(source) \in Nat /\ End = Len(source) + 1
  BY DEF TypeOK, End
<1>2. << >> \in Seq(Character)
  OBVIOUS
<1>3. {"number", "unhandled", "eof", "minus", "dot", "semicolon", "assign"} \subseteq Kind
  BY DEF Kind, P!Token, P!Punctuation, P!Unhandled
<1>4. CASE Number
  <2>1. PICK p \in 1 .. End, q \in 1 .. End :
           /\ Running /\ Skip(p) /\ At(p, isdigit) /\ Run(p, q, isdigit)
           /\ Take("number", p, q, Span(p, q))
    BY <1>4 DEF Number
  <2>2. p < q
    BY <1>1, <2>1 DEF Run, At
  <2>3. Span(p, q) \in Seq(Character)
    BY <1>1, <2>2, SpanType
  <2>4. QED  BY <1>1, <1>3, <2>1, <2>2, <2>3
<1>5. CASE Word
  <2>1. PICK p \in 1 .. End, q \in 1 .. End :
           /\ Running /\ Skip(p) /\ At(p, WordStart) /\ Run(p, q, WordRest)
           /\ Take(WordKind(Span(p, q)), p, q, Span(p, q))
    BY <1>5 DEF Word
  <2>2. p < q
    BY <1>1, <2>1 DEF Run, At, WordRest
  <2>3. Span(p, q) \in Seq(Character)
    BY <1>1, <2>2, SpanType
  <2>4. QED  BY <1>1, <2>1, <2>2, <2>3, WordKindIs
<1>6. CASE SymbolToken
  <2>1. PICK p \in 1 .. Len(source) :
           /\ Running /\ Skip(p) /\ Take(SymbolKind(source[p]), p, p + 1, <<source[p]>>)
    BY <1>6 DEF SymbolToken
  <2>2. <<source[p]>> \in Seq(Character)
    BY <1>1
  <2>3. SymbolKind(source[p]) \in Kind \ {"eof"}
    BY <1>3 DEF SymbolKind
  <2>4. p \in 1 .. End /\ p + 1 \in 1 .. End /\ p <= p + 1 /\ p # p + 1
    BY <1>1
  <2>5. QED  BY <2>1, <2>2, <2>3, <2>4
<1>7. CASE UnknownToken
  <2>1. PICK p \in 1 .. Len(source) :
           Running /\ Skip(p) /\ Take("unhandled", p, p + 1, << >>)
    BY <1>7 DEF UnknownToken
  <2>2. p \in 1 .. End /\ p + 1 \in 1 .. End /\ p <= p + 1 /\ p # p + 1
    BY <1>1
  <2>3. QED  BY <1>2, <1>3, <2>1, <2>2
<1>8. CASE EofToken
  <2>1. End \in 1 .. End
    BY <1>1
  <2>2. Running /\ Skip(End) /\ Take("eof", End, End, << >>)
    BY <1>8 DEF EofToken
  <2>3. "eof" \in Kind /\ End <= End
    BY <1>1, <1>3
  <2>4. QED  BY <1>2, <2>1, <2>2, <2>3
<1>9. QED  BY <1>4, <1>5, <1>6, <1>7, <1>8 DEF Next

-----------------------------------------------------------------------------
(* Types, and the room of the list *)

\* The list never grows past what was allocated: what doubles is not 0.
Roomy == TypeOK /\ capacity >= 10

LEMMA RoomyInit == Init => Roomy
  BY TextAssumption DEF Init, Roomy, TypeOK, End

LEMMA RoomyStep == Roomy /\ [Next]_vars => Roomy'
<1>1. SUFFICES ASSUME Roomy, [Next]_vars PROVE Roomy'
  OBVIOUS
<1>2. CASE UNCHANGED vars
  BY <1>1, <1>2 DEF vars, Roomy, TypeOK, End
<1>3. CASE Next
  <2>1. TypeOK /\ capacity \in Nat /\ capacity >= 10 /\ Len(tokens) \in Nat
    BY <1>1 DEF Roomy, TypeOK
  <2>2. PICK kind \in Kind, p \in 1 .. End, q \in 1 .. End, value \in Seq(Character) :
           Take(kind, p, q, value)
    BY <1>3, <2>1, OneToken
  <2>4. /\ p \in Nat /\ q \in Nat
        /\ source' = source /\ high' = high /\ current' = q /\ End' = End
    BY <2>2 DEF Take, End
  <2>5. tokens' \in Seq([kind : Kind, first : Nat, next : Nat, value : Seq(Character)])
    <3>1. [kind |-> kind, first |-> p, next |-> q, value |-> value]
             \in [kind : Kind, first : Nat, next : Nat, value : Seq(Character)]
      BY <2>4
    <3>2. QED  BY <2>1, <2>2, <3>1 DEF Take, Push, TypeOK
  <2>6. Len(tokens') = Len(tokens) + 1
    BY <2>1, <2>2 DEF Take, Push, TypeOK
  <2>7. capacity' \in Nat /\ capacity' >= 10 /\ Len(tokens') <= capacity'
    BY <2>1, <2>2, <2>6 DEF Take, Push, TypeOK
  <2>8. QED  BY <2>1, <2>4, <2>5, <2>7 DEF Roomy, TypeOK
<1>4. QED  BY <1>1, <1>2, <1>3

\* For every text the tokens fit into their list, and the scan stays within
\* the text and its terminator.
THEOREM LexerTypeCorrect == Spec => []TypeOK
<1>1. Roomy => TypeOK
  BY DEF Roomy
<1>2. QED  BY RoomyInit, RoomyStep, <1>1, PTL DEF Spec

-----------------------------------------------------------------------------
(* Where the tokens lie *)

LEMMA ElementOf ==
    ASSUME NEW S, NEW s \in Seq(S), NEW k \in 1 .. Len(s)
    PROVE  s[k] \in S
  OBVIOUS

\* The tokens there are stay as they are; the new one is behind them.
LEMMA TokensAfter ==
    ASSUME TypeOK, NEW kind, NEW p, NEW q, NEW value, Take(kind, p, q, value)
    PROVE  /\ DOMAIN tokens' = 1 .. Len(tokens) + 1 /\ Len(tokens') = Len(tokens) + 1
           /\ \A k \in DOMAIN tokens : tokens'[k] = tokens[k]
           /\ tokens'[Len(tokens) + 1] =
                 [kind |-> kind, first |-> p, next |-> q, value |-> value]
           /\ source' = source /\ high' = high /\ current' = q
           /\ isspace' = isspace /\ End' = End
           /\ DOMAIN tokens = 1 .. Len(tokens) /\ Len(tokens) \in Nat
  BY DEF TypeOK, Take, Push, isspace, If, End

LEMMA TilingStep == TypeOK /\ Tiling /\ [Next]_vars => Tiling'
<1>1. SUFFICES ASSUME TypeOK, Tiling, [Next]_vars PROVE Tiling'
  OBVIOUS
<1>2. CASE UNCHANGED vars
  BY <1>1, <1>2 DEF vars, Tiling, Behind, isspace, If
<1>3. CASE Next
  <2>1. PICK kind \in Kind, p \in 1 .. End, q \in 1 .. End, value \in Seq(Character) :
           /\ Skip(p) /\ p <= q
           /\ Take(kind, p, q, value)
           /\ p = q => kind = "eof"
    BY <1>1, <1>3, OneToken
  <2>0. PICK n \in Nat : n = Len(tokens)
    BY <1>1 DEF TypeOK
  <2>2. /\ DOMAIN tokens' = 1 .. n + 1 /\ Len(tokens') = n + 1 /\ n \in Nat
        /\ DOMAIN tokens = 1 .. n
        /\ \A k \in 1 .. n : tokens'[k] = tokens[k]
        /\ tokens'[n + 1] = [kind |-> kind, first |-> p, next |-> q, value |-> value]
        /\ source' = source /\ current' = q /\ isspace' = isspace
    BY <1>1, <2>0, <2>1, TokensAfter
  <2>3. /\ current \in Nat /\ p \in Nat /\ q \in Nat /\ current <= p
        /\ \A c \in current .. p - 1 : source[c] \in isspace
    BY <1>1, <2>1 DEF TypeOK, End, Skip, Run
  <2>4. \A k \in 1 .. n : tokens[k].first \in Nat /\ tokens[k].next \in Nat
    <3>1. tokens \in Seq([kind : Kind, first : Nat, next : Nat, value : Seq(Character)])
      BY <1>1 DEF TypeOK
    <3>2. ASSUME NEW k \in 1 .. n
          PROVE  tokens[k] \in [kind : Kind, first : Nat, next : Nat, value : Seq(Character)]
      BY <2>0, <3>1, ElementOf
    <3>3. QED  BY <3>2
  <2>5. \A k \in 1 .. n : Behind(k)' = Behind(k)
    BY <2>2 DEF Behind
  <2>6. Behind(n + 1)' = current
    <3>1. current = IF n = 0 THEN 1 ELSE tokens[n].next
      BY <1>1, <2>0 DEF Tiling, Behind
    <3>2. n # 0 => tokens'[n] = tokens[n]
      BY <2>2
    <3>3. QED  BY <2>0, <3>1, <3>2 DEF Behind
  <2>7. ASSUME NEW k \in 1 .. n + 1
        PROVE  /\ Behind(k)' <= tokens'[k].first
               /\ tokens'[k].first <= tokens'[k].next /\ tokens'[k].next <= current'
               /\ \A c \in Behind(k)' .. tokens'[k].first - 1 : source'[c] \in isspace'
               /\ tokens'[k].first = tokens'[k].next => tokens'[k].kind = "eof"
    <3>1. CASE k \in 1 .. n
      <4>1. /\ Behind(k) <= tokens[k].first /\ tokens[k].first <= tokens[k].next
            /\ tokens[k].next <= current
            /\ \A c \in Behind(k) .. tokens[k].first - 1 : source[c] \in isspace
            /\ tokens[k].first = tokens[k].next => tokens[k].kind = "eof"
        BY <1>1, <2>2, <3>1 DEF Tiling
      <4>2. tokens'[k] = tokens[k] /\ Behind(k)' = Behind(k)
        BY <2>2, <2>5, <3>1
      <4>3. tokens[k].next <= q
        BY <2>1, <2>3, <2>4, <3>1, <4>1
      <4>4. QED  BY <2>2, <4>1, <4>2, <4>3
    <3>2. CASE k = n + 1
      BY <2>1, <2>2, <2>3, <2>6, <3>2
    <3>3. QED  BY <2>2, <3>1, <3>2
  <2>8. current' = Behind(Len(tokens) + 1)'
    BY <2>2 DEF Behind
  <2>9. QED  BY <2>2, <2>7, <2>8 DEF Tiling
<1>4. QED  BY <1>1, <1>2, <1>3

\* No character of any text is lost or read twice, whatever ctype.h says.
THEOREM TokensTile == Spec => []Tiling
<1>1. Init => Tiling
  BY DEF Init, Tiling, Behind
<1>2. QED  BY <1>1, TilingStep, LexerTypeCorrect, PTL DEF Spec

-----------------------------------------------------------------------------
(* The end of the list *)

\* For every text the parser gets a list with the one "eof" it looks for.
THEOREM ListHandedOver == Spec => []Handover
<1>1. Init => Handover
  BY DEF Init, Handover
<1>2. TypeOK /\ Handover /\ [Next]_vars => Handover'
  <2>1. SUFFICES ASSUME TypeOK, Handover, [Next]_vars PROVE Handover'
    OBVIOUS
  <2>2. CASE UNCHANGED vars
    BY <2>1, <2>2 DEF vars, Handover, End
  <2>3. CASE Next
    <3>1. PICK kind \in Kind, p \in 1 .. End, q \in 1 .. End, value \in Seq(Character) :
             /\ Running
             /\ Take(kind, p, q, value)
             /\ kind = "eof" => q = End
      BY <2>1, <2>3, OneToken
    <3> DEFINE n == Len(tokens)
    <3>2. /\ DOMAIN tokens' = 1 .. n + 1 /\ Len(tokens') = n + 1 /\ n \in Nat
          /\ DOMAIN tokens = 1 .. n
          /\ \A k \in 1 .. n : tokens'[k] = tokens[k]
          /\ tokens'[n + 1] = [kind |-> kind, first |-> p, next |-> q, value |-> value]
          /\ current' = q /\ End' = End
      BY <2>1, <3>1, TokensAfter
    <3>3. \A k \in 1 .. n : tokens[k].kind # "eof"
      <4>1. SUFFICES ASSUME NEW k \in 1 .. n, tokens[k].kind = "eof" PROVE FALSE
        OBVIOUS
      <4>2. k = n
        BY <2>1, <3>2, <4>1 DEF Handover
      <4>3. tokens # << >> /\ Last(tokens) = tokens[n]
        BY <3>2, <4>1 DEF Last
      <4>4. QED  BY <3>1, <4>1, <4>2, <4>3 DEF Running
    <3>4. ASSUME NEW k \in 1 .. n + 1, tokens'[k].kind = "eof"
          PROVE  k = n + 1 /\ q = End
      BY <3>1, <3>2, <3>3, <3>4
    <3>5. QED  BY <3>2, <3>4 DEF Handover
  <2>4. QED  BY <2>1, <2>2, <2>3
<1>3. QED  BY <1>1, <1>2, LexerTypeCorrect, PTL DEF Spec

-----------------------------------------------------------------------------
(* Whole words *)

\* What isdigit and isspace accept is never a letter or "_".
LEMMA Classes ==
    /\ (isdigit \cup isspace \cup Symbol) \cap (Letter \cup {"_"}) = {}
    /\ Letter \cup {"_"} \subseteq WordStart
    /\ WordStart \subseteq WordRest
    /\ Letter \cup Digit \cup {"_"} \subseteq WordRest
<1>1. (Digit \cup Blank \cup {"high"} \cup Symbol) \cap (Letter \cup {"_"}) = {}
  BY SMTT(20) DEF Digit, Blank, Symbol, Letter
<1>2. isdigit \cup isspace \subseteq Digit \cup Blank \cup {"high"}
  BY DEF isdigit, isspace, If
<1>3. Digit \subseteq isdigit
  BY DEF isdigit
<1>4. QED  BY <1>1, <1>2, <1>3 DEF WordStart, WordRest

\* Behind the end of a word there is no character of one.
Boundary == At(current - 1, Letter \cup {"_"}) /\ current > 1 => ~At(current, WordRest)

\* How a token that ends the step's scan begins and ends.
NewToken(kind, p, q, value) ==
    /\ Skip(p) /\ p <= q
    /\ Take(kind, p, q, value)
    /\ p < q /\ At(q - 1, Letter \cup {"_"}) => ~At(q, WordRest)
    /\ p = q => q = End
    /\ kind \in P!Keyword =>
          /\ \E w \in Words : w.kind = kind /\ w.text = value
          /\ At(p, WordStart) /\ ~At(q, WordRest)

LEMMA WholeToken ==
    ASSUME TypeOK, Next
    PROVE  \E p, q \in 1 .. End : \E kind, value : NewToken(kind, p, q, value)
<1>1. source \in Seq(Character) /\ Len(source) \in Nat /\ End = Len(source) + 1
  BY DEF TypeOK, End
<1>2. {"number", "unhandled", "eof", "minus", "dot", "semicolon", "assign"} \cap P!Keyword = {}
  BY DEF P!Keyword
<1>3. CASE Number
  <2>1. PICK p \in 1 .. End, q \in 1 .. End :
           /\ Skip(p) /\ At(p, isdigit) /\ Run(p, q, isdigit)
           /\ Take("number", p, q, Span(p, q))
    BY <1>3 DEF Number
  <2>2. p < q
    BY <1>1, <2>1 DEF Run, At
  <2>3. source[q - 1] \in isdigit
    BY <1>1, <2>1, <2>2 DEF Run
  <2>4. ~At(q - 1, Letter \cup {"_"})
    BY <2>3, Classes DEF At
  <2>5. p <= q /\ p # q
    BY <1>1, <2>2
  <2>6. NewToken("number", p, q, Span(p, q))
    BY <1>2, <2>1, <2>4, <2>5 DEF NewToken
  <2>7. QED  BY <2>6
<1>4. CASE Word
  <2>1. PICK p \in 1 .. End, q \in 1 .. End :
           /\ Skip(p) /\ At(p, WordStart) /\ Run(p, q, WordRest)
           /\ Take(WordKind(Span(p, q)), p, q, Span(p, q))
    BY <1>4 DEF Word
  <2>2. ~At(q, WordRest) /\ p <= q
    BY <1>1, <2>1 DEF Run
  <2>3. p # q
    BY <2>1, <2>2, Classes DEF At
  <2>4. NewToken(WordKind(Span(p, q)), p, q, Span(p, q))
    <3>1. WordKind(Span(p, q)) \in P!Keyword =>
             \E w \in Words : w.kind = WordKind(Span(p, q)) /\ w.text = Span(p, q)
      BY WordKindIs
    <3>2. QED  BY <2>1, <2>2, <2>3, <3>1 DEF NewToken
  <2>5. QED  BY <2>4
<1>5. CASE SymbolToken
  <2>1. PICK p \in 1 .. Len(source) :
           /\ Skip(p) /\ At(p, Symbol)
           /\ Take(SymbolKind(source[p]), p, p + 1, <<source[p]>>)
    BY <1>5 DEF SymbolToken
  <2>2. SymbolKind(source[p]) \notin P!Keyword
    BY <1>2 DEF SymbolKind
  <2>3. ~At(p, Letter \cup {"_"})
    BY <2>1, Classes DEF At
  <2>4. PICK q \in 1 .. End : q = p + 1
    BY <1>1
  <2>5. p \in 1 .. End /\ p <= q /\ p # q /\ q - 1 = p
    BY <1>1, <2>4
  <2>6. ~At(q - 1, Letter \cup {"_"})
    BY <2>3, <2>5
  <2>7. Take(SymbolKind(source[p]), p, q, <<source[p]>>)
    BY <2>1, <2>4
  <2>8. NewToken(SymbolKind(source[p]), p, q, <<source[p]>>)
    BY <2>1, <2>2, <2>5, <2>6, <2>7 DEF NewToken
  <2>9. QED  BY <2>5, <2>8
<1>6. CASE UnknownToken
  <2>1. PICK p \in 1 .. Len(source) :
           /\ Skip(p) /\ ~At(p, WordStart)
           /\ Take("unhandled", p, p + 1, << >>)
    BY <1>6 DEF UnknownToken
  <2>2. ~At(p, Letter \cup {"_"})
    BY <2>1, Classes DEF At
  <2>3. PICK q \in 1 .. End : q = p + 1
    BY <1>1
  <2>4. p \in 1 .. End /\ p <= q /\ p # q /\ q - 1 = p
    BY <1>1, <2>3
  <2>5. ~At(q - 1, Letter \cup {"_"})
    BY <2>2, <2>4
  <2>6. Take("unhandled", p, q, << >>)
    BY <2>1, <2>3
  <2>7. NewToken("unhandled", p, q, << >>)
    BY <1>2, <2>1, <2>4, <2>5, <2>6 DEF NewToken
  <2>8. QED  BY <2>4, <2>7
<1>7. CASE EofToken
  <2>1. Skip(End) /\ Take("eof", End, End, << >>)
    BY <1>7 DEF EofToken
  <2>2. End \in 1 .. End /\ End <= End /\ ~(End < End)
    BY <1>1
  <2>3. NewToken("eof", End, End, << >>)
    BY <1>2, <2>1, <2>2 DEF NewToken
  <2>4. QED  BY <2>2, <2>3
<1>8. QED  BY <1>3, <1>4, <1>5, <1>6, <1>7 DEF Next

LEMMA WholeWordsStep ==
    TypeOK /\ Boundary /\ WholeWords /\ [Next]_vars => Boundary' /\ WholeWords'
<1>1. SUFFICES ASSUME TypeOK, Boundary, WholeWords, [Next]_vars
               PROVE  Boundary' /\ WholeWords'
  OBVIOUS
<1>2. CASE UNCHANGED vars
  BY <1>1, <1>2 DEF vars, Boundary, WholeWords, At, End, WordRest, WordStart, isdigit, If
<1>3. CASE Next
  <2>0. PICK n \in Nat : n = Len(tokens)
    BY <1>1 DEF TypeOK
  <2>1. PICK p \in 1 .. End, q \in 1 .. End : \E kind, value : NewToken(kind, p, q, value)
    BY <1>1, <1>3, WholeToken
  <2>2. PICK kind, value : NewToken(kind, p, q, value)
    BY <2>1
  <2>3. /\ DOMAIN tokens' = 1 .. n + 1
        /\ DOMAIN tokens = 1 .. n
        /\ \A k \in 1 .. n : tokens'[k] = tokens[k]
        /\ tokens'[n + 1] = [kind |-> kind, first |-> p, next |-> q, value |-> value]
        /\ source' = source /\ high' = high /\ current' = q /\ End' = End
    <3>1. Take(kind, p, q, value)
      BY <2>2 DEF NewToken
    <3>2. QED  BY <1>1, <2>0, <3>1, TokensAfter
  <2>4. WordRest' = WordRest
    BY <2>3 DEF WordRest, WordStart, isdigit, If
  <2>5. /\ Skip(p) /\ p <= q
        /\ p < q /\ At(q - 1, Letter \cup {"_"}) => ~At(q, WordRest)
        /\ p = q => q = End
    BY <2>2 DEF NewToken
  <2>6. /\ current \in Nat /\ current >= 1 /\ current <= p
        /\ p \in Nat /\ q \in Nat /\ End \in Nat
        /\ \A c \in current .. p - 1 : source[c] \in isspace
    <3>1. End \in Nat /\ current \in 1 .. End
      BY <1>1 DEF TypeOK, End
    <3>2. p \in current .. End /\ \A c \in current .. p - 1 : source[c] \in isspace
      BY <2>5 DEF Skip, Run
    <3>3. QED  BY <3>1, <3>2
  <2>7. p <= q /\ p \in Nat /\ q \in Nat /\ End \in Nat
    BY <2>5, <2>6
  <2>8. Boundary'
    <3>1. At(q - 1, Letter \cup {"_"}) => ~At(q, WordRest)
      <4>1. CASE p = q
        <5>1. q = End
          BY <2>5, <4>1
        <5>2. ~(q < End)
          BY <2>7, <5>1
        <5>3. QED  BY <5>2 DEF At
      <4>2. CASE p # q
        <5>1. p < q
          BY <2>7, <4>2
        <5>2. QED  BY <2>5, <5>1
      <4>3. QED  BY <4>1, <4>2
    <3>2. QED  BY <2>3, <2>4, <3>1 DEF Boundary, At
  <2>9. ASSUME kind \in P!Keyword
        PROVE  /\ ~At(q, Letter \cup Digit \cup {"_"})
               /\ ~(p > 1 /\ At(p - 1, Letter \cup {"_"}))
    <3>1. ~At(q, Letter \cup Digit \cup {"_"})
      BY <2>2, <2>9, Classes DEF At, NewToken
    <3>2. CASE p = current
      <4>1. At(current, WordRest)
        BY <2>2, <2>9, <3>2, Classes DEF At, NewToken
      <4>2. QED  BY <1>1, <3>1, <3>2, <4>1 DEF Boundary
    <3>3. CASE p # current
      <4>1. source[p - 1] \in isspace
        BY <2>6, <3>3
      <4>2. QED  BY <3>1, <4>1, Classes DEF At
    <3>4. QED  BY <3>2, <3>3
  <2>10. ASSUME NEW k \in 1 .. n + 1, tokens'[k].kind \in P!Keyword
        PROVE  /\ \E w \in Words : w.kind = tokens'[k].kind /\ w.text = tokens'[k].value
               /\ ~At(tokens'[k].next, Letter \cup Digit \cup {"_"})
               /\ ~(tokens'[k].first > 1 /\ At(tokens'[k].first - 1, Letter \cup {"_"}))
    <3>1. CASE k \in 1 .. n
      BY <1>1, <2>3, <2>10, <3>1 DEF WholeWords
    <3>2. CASE k = n + 1
      <4>0. /\ tokens'[k].kind = kind /\ tokens'[k].value = value
            /\ tokens'[k].first = p /\ tokens'[k].next = q
        BY <2>3, <3>2
      <4>1. kind \in P!Keyword
        BY <2>10, <4>0
      <4>2. \E w \in Words : w.kind = kind /\ w.text = value
        BY <2>2, <4>1 DEF NewToken
      <4>3. QED  BY <2>9, <4>0, <4>1, <4>2
    <3>3. k \in 1 .. n \/ k = n + 1
      OBVIOUS
    <3>4. QED  BY <3>1, <3>2, <3>3
  <2>11. WholeWords'
    BY <2>3, <2>10 DEF WholeWords, At
  <2>12. QED  BY <2>8, <2>11
<1>4. QED  BY <1>1, <1>2, <1>3

\* In no text is a part of a word taken for a command.
THEOREM CommandsAreWholeWords == Spec => []WholeWords
<1>1. Init => Boundary /\ WholeWords
  BY DEF Init, Boundary, WholeWords
<1>2. QED  BY <1>1, WholeWordsStep, LexerTypeCorrect, PTL DEF Spec

-----------------------------------------------------------------------------
(* Lists of lists *)

\* A set of numbers that holds 0 and, with n, n + 1 holds them all.
LEMMA Induction ==
    ASSUME NEW T, 0 \in T, \A n \in Nat : n \in T => n + 1 \in T
    PROVE  Nat \subseteq T
<1> DEFINE R == OpToRel(<, Nat)
           Others == Nat \ T
<1>1. IsWellFoundedOn(R, Nat)
  BY NatLessThanWellFounded
<1>2. \A x, y \in Nat : y < x => <<y, x>> \in R
  BY Zenon DEF OpToRel
<1> HIDE DEF R
<1>3. SUFFICES ASSUME Others # {} PROVE FALSE
  OBVIOUS
<1>4. PICK x \in Others : \A y \in Others : ~(<<y, x>> \in R)
  BY <1>1, <1>3, WFMin
<1>5. x \in Nat /\ x # 0 /\ x - 1 \in Nat /\ (x - 1) + 1 = x
  OBVIOUS
<1>6. x - 1 \in Others
  BY <1>5
<1>7. x - 1 < x
  BY <1>5
<1>8. QED
  BY <1>2, <1>4, <1>5, <1>6, <1>7

\* The function by which FlattenSeq is defined.
Flattens(f, s) == f = [i \in 1 .. Len(s) |-> IF i = 1 THEN s[i] ELSE f[i - 1] \o s[i]]
Flattening(s) == CHOOSE f : Flattens(f, s)

LEMMA FlattenFunction ==
    ASSUME NEW S, NEW s \in Seq(Seq(S))
    PROVE  /\ \A i \in 1 .. Len(s) :
                 /\ Flattening(s)[i] \in Seq(S)
                 /\ Flattening(s)[i] = IF i = 1 THEN s[i] ELSE Flattening(s)[i - 1] \o s[i]
           /\ FlattenSeq(s) = IF Len(s) = 0 THEN s ELSE Flattening(s)[Len(s)]
<1> DEFINE Partial(f, n) == /\ f \in [1 .. n -> Seq(S)]
                         /\ \A i \in 1 .. n : f[i] = IF i = 1 THEN s[i] ELSE f[i - 1] \o s[i]
           T == {n \in Nat : n <= Len(s) => \E f : Partial(f, n)}
<1>0. Len(s) \in Nat /\ \A i \in 1 .. Len(s) : s[i] \in Seq(S)
  OBVIOUS
<1>1. 0 \in T
  <2> DEFINE f == [i \in {} |-> s]
  <2>1. 1 .. 0 = {} /\ f \in [{} -> Seq(S)]
    <3>1. \A i \in {} : s \in Seq(S)
      OBVIOUS
    <3>2. f \in [{} -> Seq(S)]
      BY <3>1, Zenon
    <3>3. QED  BY <3>2
  <2>2. Partial(f, 0)
    BY <2>1
  <2>3. QED  BY <2>2
<1>2. ASSUME NEW n \in Nat, n \in T PROVE n + 1 \in T
  <2>1. SUFFICES ASSUME n + 1 <= Len(s) PROVE \E f : Partial(f, n + 1)
    <3> HIDE DEF Partial
    <3>1. QED  OBVIOUS
  <2>2. PICK g : Partial(g, n)
    <3> HIDE DEF Partial
    <3>1. n <= Len(s)
      BY <1>0, <2>1
    <3>2. QED  BY <1>2, <3>1
  <2> DEFINE f == [i \in 1 .. n + 1 |->
                      IF i <= n THEN g[i] ELSE IF i = 1 THEN s[i] ELSE g[i - 1] \o s[i]]
  <2>3. ASSUME NEW i \in 1 .. n + 1
        PROVE  f[i] \in Seq(S) /\ f[i] = IF i = 1 THEN s[i] ELSE f[i - 1] \o s[i]
    <3>1. s[i] \in Seq(S)
      BY <1>0, <2>1
    <3>2. i # 1 => i - 1 \in 1 .. n /\ i - 1 \in 1 .. n + 1 /\ f[i - 1] = g[i - 1]
      OBVIOUS
    <3>3. CASE i <= n
      <4>1. i \in 1 .. n /\ f[i] = g[i]
        BY <3>3
      <4>2. f[i] \in Seq(S)
        BY <2>2, <4>1
      <4>3. QED  BY <2>2, <3>2, <4>1, <4>2
    <3>4. CASE ~(i <= n)
      <4>1. f[i] = IF i = 1 THEN s[i] ELSE g[i - 1] \o s[i]
        BY <3>4
      <4>2. i # 1 => g[i - 1] \in Seq(S) /\ g[i - 1] \o s[i] \in Seq(S)
        BY <2>2, <3>1, <3>2, ConcatProperties
      <4>3. f[i] \in Seq(S)
        BY <3>1, <4>1, <4>2
      <4>4. QED  BY <3>2, <4>1, <4>3
    <3>5. QED  BY <3>3, <3>4
  <2>4. f \in [1 .. n + 1 -> Seq(S)]
    BY <2>3
  <2> HIDE DEF f
  <2>5. Partial(f, n + 1)
    BY <2>3, <2>4
  <2>6. QED  BY <2>5
<1>3. PICK f : Partial(f, Len(s))
  <2> HIDE DEF T, Partial
  <2>1. Len(s) \in T
    BY <1>0, <1>1, <1>2, Induction
  <2>2. QED  BY <1>0, <2>1 DEF T
<1>4. Flattens(f, s)
  <2>1. f = [i \in 1 .. Len(s) |-> f[i]]
    BY <1>3
  <2>2. \A i \in 1 .. Len(s) : f[i] = IF i = 1 THEN s[i] ELSE f[i - 1] \o s[i]
    BY <1>3
  <2>3. QED  BY <2>1, <2>2 DEF Flattens
<1>5. Flattens(Flattening(s), s)
  BY <1>4 DEF Flattening
<1> HIDE DEF Partial, T
<1>6. \A i \in 1 .. Len(s) :
         Flattening(s)[i] = IF i = 1 THEN s[i] ELSE Flattening(s)[i - 1] \o s[i]
  BY <1>5 DEF Flattens
<1> DEFINE U == {n \in Nat : n \in 1 .. Len(s) => Flattening(s)[n] \in Seq(S)}
<1>7. 0 \in U
  OBVIOUS
<1>8. ASSUME NEW n \in Nat, n \in U PROVE n + 1 \in U
  <2>1. SUFFICES ASSUME n + 1 \in 1 .. Len(s) PROVE Flattening(s)[n + 1] \in Seq(S)
    OBVIOUS
  <2>2. n + 1 # 1 => n \in 1 .. Len(s) /\ Flattening(s)[n] \in Seq(S)
    BY <1>8, <2>1
  <2>3. Flattening(s)[n + 1] =
            IF n + 1 = 1 THEN s[n + 1] ELSE Flattening(s)[n] \o s[n + 1]
    <3>1. (n + 1) - 1 = n
      OBVIOUS
    <3>2. QED  BY <1>6, <2>1, <3>1
  <2>4. s[n + 1] \in Seq(S)
    BY <1>0, <2>1
  <2>5. QED  BY <2>2, <2>3, <2>4, ConcatProperties
<1>9. Nat \subseteq U
  <2> HIDE DEF U
  <2>1. QED  BY <1>7, <1>8, Induction
<1>10. FlattenSeq(s) = IF Len(s) = 0 THEN s ELSE Flattening(s)[Len(s)]
  BY DEF FlattenSeq, Flattening, Flattens
<1>11. \A i \in 1 .. Len(s) : i \in U
  BY <1>0, <1>9
<1>12. QED  BY <1>6, <1>10, <1>11

\* FlattenSeq, from the front to the last.
LEMMA Flatten ==
    ASSUME NEW S
    PROVE  /\ FlattenSeq(<< >>) = << >>
           /\ \A s \in Seq(Seq(S)) : FlattenSeq(s) \in Seq(S)
           /\ \A s \in Seq(Seq(S)), e \in Seq(S) :
                 FlattenSeq(Append(s, e)) = FlattenSeq(s) \o e
<1>1. FlattenSeq(<< >>) = << >>
  BY DEF FlattenSeq
<1>2. ASSUME NEW s \in Seq(Seq(S)) PROVE FlattenSeq(s) \in Seq(S)
  <2>1. Len(s) \in Nat /\ (Len(s) = 0 => s = << >>)
    BY EmptySeq
  <2>2. QED  BY <1>1, <2>1, FlattenFunction
<1>3. ASSUME NEW s \in Seq(Seq(S)), NEW e \in Seq(S)
      PROVE  FlattenSeq(Append(s, e)) = FlattenSeq(s) \o e
  <2> DEFINE f == Flattening(s)
             t == Append(s, e)
             g == Flattening(t)
             T == {n \in Nat : n \in 1 .. Len(s) => g[n] = f[n]}
             n == Len(s)
  <2>1. \A i \in 1 .. n : f[i] = IF i = 1 THEN s[i] ELSE f[i - 1] \o s[i]
    BY FlattenFunction
  <2>2. /\ t \in Seq(Seq(S)) /\ Len(t) = n + 1 /\ t[n + 1] = e /\ n \in Nat
        /\ \A i \in 1 .. n : t[i] = s[i]
    BY AppendProperties
  <2>3. \A i \in 1 .. n + 1 : g[i] = IF i = 1 THEN t[i] ELSE g[i - 1] \o t[i]
    <3>1. \A i \in 1 .. Len(t) : g[i] = IF i = 1 THEN t[i] ELSE g[i - 1] \o t[i]
      <4> HIDE DEF t
      <4>1. QED  BY <2>2, FlattenFunction
    <3>2. QED  BY <2>2, <3>1
  <2>4. 0 \in T
    OBVIOUS
  <2>a. FlattenSeq(t) = g[n + 1]
    <3>1. FlattenSeq(t) = IF Len(t) = 0 THEN t ELSE g[Len(t)]
      <4> HIDE DEF t
      <4>1. QED  BY <2>2, FlattenFunction
    <3>2. QED  BY <2>2, <3>1
  <2>b. FlattenSeq(s) = IF n = 0 THEN s ELSE f[n]
    BY FlattenFunction
  <2> HIDE DEF f, g, t, n
  <2>5. ASSUME NEW m \in Nat, m \in T PROVE m + 1 \in T
    <3>1. SUFFICES ASSUME m + 1 \in 1 .. n PROVE g[m + 1] = f[m + 1]
      BY DEF n
    <3>2. m + 1 # 1 => m \in 1 .. n /\ g[m] = f[m]
      <4>1. m + 1 # 1 => m \in 1 .. n
        BY <2>2, <3>1
      <4>2. QED  BY <2>5, <4>1 DEF n
    <3>3. m + 1 \in 1 .. n + 1 /\ t[m + 1] = s[m + 1]
      BY <2>2, <3>1
    <3>4. (m + 1) - 1 = m
      OBVIOUS
    <3>5. QED  BY <2>1, <2>3, <3>1, <3>2, <3>3, <3>4
  <2> HIDE DEF T
  <2>6. Nat \subseteq T
    BY <2>4, <2>5, Induction
  <2>7. n + 1 \in 1 .. n + 1 /\ (n + 1) - 1 = n
    BY <2>2
  <2>8. g[n + 1] = IF n + 1 = 1 THEN e ELSE g[n] \o e
    BY <2>2, <2>3, <2>7
  <2>9. CASE n = 0
    <3>1. s = << >>
      BY <2>9, EmptySeq DEF n
    <3>2. << >> \o e = e
      BY ConcatEmptySeq
    <3>3. QED  BY <1>1, <2>8, <2>9, <2>a, <3>1, <3>2 DEF t
  <2>10. CASE n # 0
    <3>1. n \in 1 .. n /\ n + 1 # 1
      BY <2>2, <2>10
    <3>2. g[n] = f[n]
      BY <2>2, <2>6, <3>1 DEF T, n
    <3>3. QED  BY <2>8, <2>a, <2>b, <2>10, <3>1, <3>2 DEF t
  <2>11. QED  BY <2>9, <2>10
<1>4. QED  BY <1>1, <1>2, <1>3


-----------------------------------------------------------------------------
(* What of a text is kept *)

\* The values of a list of tokens, joined.
Joined(list) == FlattenSeq([k \in DOMAIN list |-> list[k].value])

\* The first n characters of a text without those that are not kept.
Rest(src, kept, n) ==
    FlattenSeq([c \in 1 .. n |-> IF src[c] \in kept THEN <<src[c]>> ELSE << >>])

\* A text is another one with some characters behind it.
Extends(t, s, more) == t = s \o more

LEMMA Mapping ==
    ASSUME NEW src \in Seq(Character), NEW kept, NEW n \in Nat, n <= Len(src)
    PROVE  /\ [c \in 1 .. n |-> IF src[c] \in kept THEN <<src[c]>> ELSE << >>]
                 \in Seq(Seq(Character))
           /\ Rest(src, kept, n) \in Seq(Character)
<1>1. \A c \in 1 .. n : src[c] \in Character
  OBVIOUS
<1>2. \A c \in 1 .. n : (IF src[c] \in kept THEN <<src[c]>> ELSE << >>) \in Seq(Character)
  BY <1>1
<1>3. [c \in 1 .. n |-> IF src[c] \in kept THEN <<src[c]>> ELSE << >>] \in Seq(Seq(Character))
  BY <1>2
<1>4. QED  BY <1>3, Flatten DEF Rest

\* One character more.
LEMMA RestNext ==
    ASSUME NEW src \in Seq(Character), NEW kept, NEW n \in Nat, n + 1 <= Len(src)
    PROVE  Extends(Rest(src, kept, n + 1), Rest(src, kept, n),
                   IF src[n + 1] \in kept THEN <<src[n + 1]>> ELSE << >>)
<1> DEFINE one(c) == IF src[c] \in kept THEN <<src[c]>> ELSE << >>
           s == [c \in 1 .. n |-> one(c)]
           t == [c \in 1 .. n + 1 |-> one(c)]
<1>1. s \in Seq(Seq(Character)) /\ one(n + 1) \in Seq(Character)
  <2>1. s \in Seq(Seq(Character))
    BY Mapping
  <2>2. src[n + 1] \in Character
    OBVIOUS
  <2>3. QED  BY <2>1, <2>2
<1>2. Rest(src, kept, n) = FlattenSeq(s) /\ Rest(src, kept, n + 1) = FlattenSeq(t)
  BY DEF Rest
<1>3. t = Append(s, one(n + 1))
  <2>1. Len(s) = n /\ \A c \in 1 .. n : s[c] = one(c)
    OBVIOUS
  <2> HIDE DEF s, one
  <2>2. Append(s, one(n + 1)) = [c \in 1 .. n + 1 |-> IF c = n + 1 THEN one(n + 1) ELSE s[c]]
    BY <1>1, <2>1
  <2>3. \A c \in 1 .. n + 1 : one(c) = IF c = n + 1 THEN one(n + 1) ELSE s[c]
    BY <2>1
  <2>4. QED  BY <2>2, <2>3
<1> HIDE DEF s, t
<1>4. FlattenSeq(Append(s, one(n + 1))) = FlattenSeq(s) \o one(n + 1)
  BY <1>1, Flatten
<1>5. QED  BY <1>2, <1>3, <1>4, Zenon DEF Extends

\* Characters that are not kept change nothing.
LEMMA RestOfNone ==
    ASSUME NEW src \in Seq(Character), NEW kept, NEW a \in Nat, NEW b \in Nat,
           a <= b, b <= Len(src), \A c \in a + 1 .. b : src[c] \notin kept
    PROVE  Rest(src, kept, b) = Rest(src, kept, a)
<1> DEFINE T == {d \in Nat : a + d <= b => Rest(src, kept, a + d) = Rest(src, kept, a)}
<1>1. 0 \in T
  <2>1. a + 0 = a
    OBVIOUS
  <2>2. QED  BY <2>1
<1>2. ASSUME NEW d \in Nat, d \in T PROVE d + 1 \in T
  <2>1. SUFFICES ASSUME a + (d + 1) <= b
                 PROVE  Rest(src, kept, a + (d + 1)) = Rest(src, kept, a)
    OBVIOUS
  <2>2. PICK n \in Nat : n = a + d
    OBVIOUS
  <2>3. a + (d + 1) = n + 1 /\ n + 1 <= Len(src) /\ n + 1 \in a + 1 .. b /\ n <= b
    BY <2>1, <2>2
  <2>4. Extends(Rest(src, kept, n + 1), Rest(src, kept, n), << >>)
    <3>1. src[n + 1] \notin kept
      BY <2>3
    <3>2. QED  BY <2>3, <3>1, RestNext
  <2>5. Rest(src, kept, n) \in Seq(Character)
    BY <2>3, Mapping
  <2>6. Rest(src, kept, n + 1) = Rest(src, kept, n)
    BY <2>4, <2>5, ConcatEmptySeq DEF Extends
  <2>7. Rest(src, kept, n) = Rest(src, kept, a)
    BY <1>2, <2>2, <2>3
  <2>8. QED  BY <2>3, <2>6, <2>7
<1>3. b - a \in T
  <2> HIDE DEF T
  <2>1. Nat \subseteq T
    BY <1>1, <1>2, Induction
  <2>2. QED  BY <2>1
<1>4. a + (b - a) = b
  OBVIOUS
<1>5. QED  BY <1>3, <1>4

LEMMA Associative ==
    ASSUME NEW S, NEW a \in Seq(S), NEW b \in Seq(S), NEW c \in Seq(S)
    PROVE  (a \o b) \o c = a \o (b \o c)
  OBVIOUS

\* Characters that are all kept are appended as they are.
LEMMA RestOfAll ==
    ASSUME NEW src \in Seq(Character), NEW kept, NEW a \in Nat, NEW b \in Nat,
           a <= b, b <= Len(src), \A c \in a + 1 .. b : src[c] \in kept
    PROVE  Extends(Rest(src, kept, b), Rest(src, kept, a), SubSeq(src, a + 1, b))
<1> DEFINE T == {d \in Nat : a + d <= b =>
                    Extends(Rest(src, kept, a + d), Rest(src, kept, a),
                            SubSeq(src, a + 1, a + d))}
<1>0. Rest(src, kept, a) \in Seq(Character)
  BY Mapping
<1>1. 0 \in T
  <2>1. a + 0 = a /\ SubSeq(src, a + 1, a) = << >>
    OBVIOUS
  <2>2. Rest(src, kept, a) = Rest(src, kept, a) \o << >>
    BY <1>0, ConcatEmptySeq
  <2>3. QED  BY <2>1, <2>2 DEF Extends
<1>2. ASSUME NEW d \in Nat, d \in T PROVE d + 1 \in T
  <2>1. SUFFICES ASSUME a + (d + 1) <= b
                 PROVE  Extends(Rest(src, kept, a + (d + 1)), Rest(src, kept, a),
                                SubSeq(src, a + 1, a + (d + 1)))
    OBVIOUS
  <2>2. PICK n \in Nat : n = a + d
    OBVIOUS
  <2>3. a + (d + 1) = n + 1 /\ n + 1 <= Len(src) /\ n + 1 \in a + 1 .. b /\ n <= b /\ a <= n
    BY <2>1, <2>2
  <2>4. PICK x \in Character : x = src[n + 1]
    BY <2>3
  <2>5. Rest(src, kept, n + 1) = Rest(src, kept, n) \o <<x>>
    <3>1. src[n + 1] \in kept
      BY <2>3
    <3>2. Extends(Rest(src, kept, n + 1), Rest(src, kept, n),
                  IF src[n + 1] \in kept THEN <<src[n + 1]>> ELSE << >>)
      BY <2>3, RestNext
    <3>3. QED  BY <2>4, <3>1, <3>2 DEF Extends
  <2>6. Rest(src, kept, n) = Rest(src, kept, a) \o SubSeq(src, a + 1, n)
    BY <1>2, <2>2, <2>3 DEF Extends
  <2>7. PICK s \in Seq(Character) : s = SubSeq(src, a + 1, n)
    <3>1. \A k \in a + 1 .. n : k \in 1 .. Len(src) /\ src[k] \in Character
      BY <2>3
    <3>2. SubSeq(src, a + 1, n) \in Seq(Character)
      BY <2>3, <3>1
    <3>3. QED  BY <3>2
  <2>8. SubSeq(src, a + 1, n + 1) = s \o <<x>>
    BY <2>3, <2>4, <2>7
  <2>9. <<x>> \in Seq(Character)
    OBVIOUS
  <2>10. (Rest(src, kept, a) \o s) \o <<x>> = Rest(src, kept, a) \o (s \o <<x>>)
    BY <1>0, <2>9, Associative, SMTT(30)
  <2>11. QED  BY <2>3, <2>5, <2>6, <2>7, <2>8, <2>10 DEF Extends
<1>3. b - a \in T
  <2> HIDE DEF T
  <2>1. Nat \subseteq T
    BY <1>1, <1>2, Induction
  <2>2. QED  BY <2>1
<1>4. a + (b - a) = b
  OBVIOUS
<1>5. QED  BY <1>3, <1>4

\* The value of one token more is behind those of the others.
LEMMA JoinedNext ==
    ASSUME NEW list, list \in Seq([kind : Kind, first : Nat, next : Nat, value : Seq(Character)]),
           NEW t \in [kind : Kind, first : Nat, next : Nat, value : Seq(Character)]
    PROVE  Extends(Joined(Append(list, t)), Joined(list), t.value)
<1> DEFINE n == Len(list)
           more == Append(list, t)
           s == [k \in 1 .. n |-> list[k].value]
<1>1. /\ n \in Nat /\ DOMAIN list = 1 .. n /\ DOMAIN more = 1 .. n + 1
      /\ more[n + 1] = t /\ \A k \in 1 .. n : more[k] = list[k]
  OBVIOUS
<1>2. \A k \in 1 .. n : list[k].value \in Seq(Character)
  <2>1. \A k \in 1 .. n :
           list[k] \in [kind : Kind, first : Nat, next : Nat, value : Seq(Character)]
    BY ElementOf
  <2>2. QED  BY <2>1
<1>3. s \in Seq(Seq(Character)) /\ t.value \in Seq(Character) /\ Len(s) = n
  BY <1>1, <1>2
<1> HIDE DEF n, more
<1>4. Joined(list) = FlattenSeq(s)
  BY <1>1 DEF Joined
<1>5. Joined(more) = FlattenSeq(Append(s, t.value))
  <2>1. Joined(more) = FlattenSeq([k \in 1 .. n + 1 |-> more[k].value])
    BY <1>1 DEF Joined
  <2>2. \A k \in 1 .. n : s[k] = list[k].value
    OBVIOUS
  <2> HIDE DEF s
  <2>3. Append(s, t.value) = [k \in 1 .. n + 1 |-> IF k = n + 1 THEN t.value ELSE s[k]]
    BY <1>3
  <2>4. \A k \in 1 .. n + 1 : more[k].value = IF k = n + 1 THEN t.value ELSE s[k]
    <3>1. \A k \in 1 .. n + 1 : k = n + 1 \/ k \in 1 .. n
      BY <1>1
    <3>2. QED  BY <1>1, <2>2, <3>1, Zenon
  <2>5. [k \in 1 .. n + 1 |-> more[k].value] = Append(s, t.value)
    BY <2>3, <2>4, Zenon
  <2>6. QED  BY <2>1, <2>5, Zenon
<1> HIDE DEF s
<1>6. FlattenSeq(Append(s, t.value)) = FlattenSeq(s) \o t.value
  BY <1>3, Flatten
<1>7. QED  BY <1>4, <1>5, <1>6, Zenon DEF Extends, more

-----------------------------------------------------------------------------
(* The values are the text *)

Token == [kind : Kind, first : Nat, next : Nat, value : Seq(Character)]

\* What isspace says does not contradict what isdigit and isalpha say.
Sane == "space" \notin high \/ high = {"space"}

LEMMA KeptClasses ==
    ASSUME Sane
    PROVE  /\ isdigit \subseteq Kept /\ WordRest \subseteq Kept /\ Symbol \subseteq Kept
           /\ \A c \in isspace : c \notin Kept
           /\ \A c : c \notin isdigit /\ c \notin WordStart /\ c \notin Symbol => c \notin Kept
<1>1. Digit \cap Blank = {} /\ Letter \cap Blank = {} /\ Symbol \cap Blank = {}
      /\ "_" \notin Blank /\ "high" \notin Blank /\ "high" \notin Digit \cup Letter \cup Symbol
  BY DEF Digit, Letter, Symbol, Blank
<1>2. If("space") = {} \/ (If("digit") = {} /\ If("alpha") = {})
  BY DEF Sane, If
<1>3. \A class : If(class) \subseteq {"high"}
  BY DEF If
<1>4. QED
  BY <1>1, <1>2, <1>3 DEF Kept, isspace, isdigit, WordRest, WordStart

\* The characters of a step, the skipped ones with them, are what its token
\* keeps of them.
LEMMA TokenKeeps ==
    ASSUME TypeOK, Sane, Next
    PROVE  \E t \in Token, q \in 1 .. End :
              /\ tokens' = Append(tokens, t) /\ current' = q
              /\ UNCHANGED <<source, high>>
              /\ Extends(Rest(source, Kept, q - 1), Rest(source, Kept, current - 1), t.value)
<1>1. /\ source \in Seq(Character) /\ Len(source) \in Nat /\ End = Len(source) + 1
      /\ current \in 1 .. End
  BY DEF TypeOK, End
<1>2. ASSUME NEW p \in 1 .. End, Skip(p)
      PROVE  Rest(source, Kept, p - 1) = Rest(source, Kept, current - 1)
  <2>1. p \in current .. End /\ \A k \in current .. p - 1 : source[k] \in isspace
    BY <1>2 DEF Skip, Run
  <2>2. /\ current - 1 \in Nat /\ p - 1 \in Nat /\ current - 1 <= p - 1 /\ p - 1 <= Len(source)
        /\ (current - 1) + 1 = current
    BY <1>1, <2>1
  <2>3. \A c \in (current - 1) + 1 .. p - 1 : source[c] \notin Kept
    BY <2>1, <2>2, KeptClasses
  <2>4. QED  BY <1>1, <2>2, <2>3, RestOfNone
<1>3. ASSUME NEW kind \in Kind, NEW p \in 1 .. End, NEW q \in p .. End,
             NEW value \in Seq(Character), Skip(p), Take(kind, p, q, value),
             Extends(Rest(source, Kept, q - 1), Rest(source, Kept, p - 1), value)
      PROVE  \E t \in Token, r \in 1 .. End :
                /\ tokens' = Append(tokens, t) /\ current' = r
                /\ UNCHANGED <<source, high>>
                /\ Extends(Rest(source, Kept, r - 1), Rest(source, Kept, current - 1), t.value)
  <2> DEFINE t == [kind |-> kind, first |-> p, next |-> q, value |-> value]
  <2>1. t \in Token /\ t.value = value /\ q \in 1 .. End
    BY <1>1 DEF Token
  <2>2. tokens' = Append(tokens, t) /\ current' = q /\ UNCHANGED <<source, high>>
    BY <1>3 DEF Take, Push
  <2>3. Extends(Rest(source, Kept, q - 1), Rest(source, Kept, current - 1), t.value)
    BY <1>2, <1>3, <2>1
  <2> HIDE DEF t
  <2>4. QED  BY <2>1, <2>2, <2>3
<1>4. ASSUME NEW p \in 1 .. End, NEW q \in p .. End, \A k \in p .. q - 1 : source[k] \in Kept
      PROVE  Extends(Rest(source, Kept, q - 1), Rest(source, Kept, p - 1), Span(p, q))
  <2>1. /\ p - 1 \in Nat /\ q - 1 \in Nat /\ p - 1 <= q - 1 /\ q - 1 <= Len(source)
        /\ (p - 1) + 1 = p
    BY <1>1
  <2>2. Extends(Rest(source, Kept, q - 1), Rest(source, Kept, p - 1),
                SubSeq(source, (p - 1) + 1, q - 1))
    BY <1>1, <1>4, <2>1, RestOfAll
  <2>3. QED  BY <2>1, <2>2 DEF Span
<1>5. {"number", "unhandled", "eof", "minus", "dot", "semicolon", "assign"} \subseteq Kind
  BY DEF Kind, P!Token, P!Punctuation, P!Unhandled
<1>6. CASE Number
  <2>1. PICK p \in 1 .. End, q \in 1 .. End :
           /\ Skip(p) /\ Run(p, q, isdigit) /\ Take("number", p, q, Span(p, q))
    BY <1>6 DEF Number
  <2>2. q \in p .. End /\ \A k \in p .. q - 1 : source[k] \in Kept
    BY <2>1, KeptClasses DEF Run
  <2>3. Span(p, q) \in Seq(Character)
    BY <2>2, SpanType
  <2>4. QED  BY <1>3, <1>4, <1>5, <2>1, <2>2, <2>3
<1>7. CASE Word
  <2>1. PICK p \in 1 .. End, q \in 1 .. End :
           /\ Skip(p) /\ Run(p, q, WordRest)
           /\ Take(WordKind(Span(p, q)), p, q, Span(p, q))
    BY <1>7 DEF Word
  <2>2. q \in p .. End /\ \A k \in p .. q - 1 : source[k] \in Kept
    BY <2>1, KeptClasses DEF Run
  <2>3. Span(p, q) \in Seq(Character) /\ WordKind(Span(p, q)) \in Kind
    BY <2>2, SpanType, WordKindIs
  <2>4. QED  BY <1>3, <1>4, <2>1, <2>2, <2>3
<1>8. CASE SymbolToken
  <2>1. PICK p \in 1 .. Len(source) :
           Skip(p) /\ At(p, Symbol) /\ Take(SymbolKind(source[p]), p, p + 1, <<source[p]>>)
    BY <1>8 DEF SymbolToken
  <2>2. p \in 1 .. End /\ p + 1 \in p .. End /\ (p + 1) - 1 = p
    BY <1>1
  <2>3. \A k \in p .. (p + 1) - 1 : source[k] \in Kept
    BY <2>1, <2>2, KeptClasses DEF At
  <2>4. Span(p, p + 1) = <<source[p]>> /\ <<source[p]>> \in Seq(Character)
    <3>1. Span(p, p + 1) = SubSeq(source, p, p)
      BY <2>2 DEF Span
    <3>2. SubSeq(source, p, p) = <<source[p]>>
      <4> DEFINE piece == SubSeq(source, p, p)
      <4>1. Len(piece) = 1 /\ piece[1] = source[p] /\ piece \in Seq(Character)
        BY <1>1
      <4> HIDE DEF piece
      <4>2. piece = <<piece[1]>>
        BY <4>1
      <4>3. QED  BY <4>1, <4>2 DEF piece
    <3>3. source[p] \in Character
      BY <1>1
    <3>4. QED  BY <3>1, <3>2, <3>3
  <2>5. SymbolKind(source[p]) \in Kind
    BY <1>5 DEF SymbolKind
  <2>6. Extends(Rest(source, Kept, (p + 1) - 1), Rest(source, Kept, p - 1), <<source[p]>>)
    BY <1>4, <2>2, <2>3, <2>4
  <2>7. QED  BY <1>3, <2>1, <2>2, <2>4, <2>5, <2>6
<1>9. CASE UnknownToken
  <2>1. PICK p \in 1 .. Len(source) :
           /\ Skip(p) /\ ~At(p, isdigit) /\ ~At(p, WordStart) /\ ~At(p, Symbol)
           /\ Take("unhandled", p, p + 1, << >>)
    BY <1>9 DEF UnknownToken
  <2>2. /\ p \in 1 .. End /\ p + 1 \in p .. End /\ (p + 1) - 1 = p /\ p - 1 \in Nat
        /\ (p - 1) + 1 = p /\ p < End
    BY <1>1
  <2>3. source[p] \notin Kept
    BY <2>1, <2>2, KeptClasses DEF At
  <2>4. Extends(Rest(source, Kept, (p + 1) - 1), Rest(source, Kept, p - 1), << >>)
    <3>1. PICK m \in Nat : m = p - 1
      BY <2>2
    <3>2. m + 1 = p /\ m + 1 <= Len(source)
      BY <2>2, <3>1
    <3>3. Extends(Rest(source, Kept, m + 1), Rest(source, Kept, m), << >>)
      BY <1>1, <2>3, <3>2, RestNext
    <3>4. QED  BY <2>2, <3>1, <3>2, <3>3
  <2>5. << >> \in Seq(Character)
    OBVIOUS
  <2>6. QED  BY <1>3, <1>5, <2>1, <2>2, <2>4, <2>5
<1>10. CASE EofToken
  <2>1. Skip(End) /\ Take("eof", End, End, << >>) /\ End \in 1 .. End /\ End \in End .. End
    BY <1>1, <1>10 DEF EofToken
  <2>2. Rest(source, Kept, End - 1) \in Seq(Character) /\ << >> \in Seq(Character)
    BY <1>1, Mapping
  <2>3. Extends(Rest(source, Kept, End - 1), Rest(source, Kept, End - 1), << >>)
    BY <2>2, ConcatEmptySeq DEF Extends
  <2>4. QED  BY <1>3, <1>5, <2>1, <2>2, <2>3
<1>11. QED  BY <1>6, <1>7, <1>8, <1>9, <1>10 DEF Next

TextKept == Sane => Joined(tokens) = Rest(source, Kept, current - 1)

LEMMA TextKeptStep == TypeOK /\ TextKept /\ [Next]_vars => TextKept'
<1>1. SUFFICES ASSUME TypeOK, TextKept, [Next]_vars, Sane' PROVE TextKept'
  BY DEF TextKept
<1>2. high' = high => Sane' = Sane /\ Kept' = Kept
  BY DEF Sane, Kept, isspace, isdigit, WordRest, WordStart, If
<1>3. CASE UNCHANGED vars
  BY <1>1, <1>2, <1>3 DEF vars, TextKept
<1>4. CASE Next
  <2>1. high' = high
    BY <1>1, <1>4, OneToken DEF Take
  <2>2. PICK t \in Token, q \in 1 .. End :
           /\ tokens' = Append(tokens, t) /\ current' = q
           /\ UNCHANGED <<source, high>>
           /\ Extends(Rest(source, Kept, q - 1), Rest(source, Kept, current - 1), t.value)
    BY <1>1, <1>2, <1>4, <2>1, TokenKeeps
  <2>3. Joined(tokens) = Rest(source, Kept, current - 1)
    BY <1>1, <1>2, <2>1 DEF TextKept
  <2>4. Extends(Joined(tokens'), Joined(tokens), t.value)
    BY <1>1, <2>2, JoinedNext DEF Token, TypeOK
  <2>5. Joined(tokens') = Rest(source, Kept, q - 1)
    BY <2>2, <2>3, <2>4, Zenon DEF Extends
  <2>6. QED  BY <1>2, <2>1, <2>2, <2>5 DEF TextKept
<1>5. QED  BY <1>1, <1>3, <1>4

\* Whatever the text, the values of its tokens, joined, are the text without
\* its spaces and without the characters no token is made of (lexer.c:93).
THEOREM TokensKeepText == Spec => []ValuesKeepText
<1>1. Init => TextKept
  <2>1. SUFFICES ASSUME Init PROVE Joined(tokens) = Rest(source, Kept, current - 1)
    BY DEF TextKept
  <2>2. tokens = << >> /\ current - 1 = 0
    BY <2>1 DEF Init
  <2>3. Joined(<< >>) = FlattenSeq(<< >>)
    <3>1. DOMAIN << >> = {} /\ [k \in {} |-> << >>[k].value] = << >>
      OBVIOUS
    <3>2. QED  BY <3>1 DEF Joined
  <2>4. Rest(source, Kept, 0) = FlattenSeq(<< >>)
    <3>1. 1 .. 0 = {}
      OBVIOUS
    <3>2. [c \in 1 .. 0 |-> IF source[c] \in Kept THEN <<source[c]>> ELSE << >>] = << >>
      BY <3>1
    <3>3. QED  BY <3>2 DEF Rest
  <2>5. QED  BY <2>2, <2>3, <2>4
<1>2. TextKept => ValuesKeepText
  BY DEF TextKept, ValuesKeepText, Sane, Joined, Rest
<1>3. QED
  BY <1>1, <1>2, TextKeptStep, LexerTypeCorrect, PTL DEF Spec

-----------------------------------------------------------------------------
(* What the parser starts from, and how long the list takes *)

\* The kinds of the tokens, which are all the parser looks at, and the parser
\* at its start on them.
Kinds == [k \in 1 .. Len(tokens) |-> tokens[k].kind]
Fed == INSTANCE CommandParser WITH
          Input <- Seq(P!Token), tokens <- Kinds, current <- 1, statements <- << >>,
          skipped <- {}

\* parser_parse starts where lexer_tokenize_all ends: for every text, and
\* whatever ctype.h says, the finished list is one the parser can start from,
\* so that what CommandParserProofs says of every list holds for every text.
ParserFed == ~Running => Fed!Init

LEMMA HandedToParser ==
    ASSUME TypeOK, Handover
    PROVE  ParserFed
<1>1. SUFFICES ASSUME ~Running PROVE Fed!Init
  BY DEF ParserFed
<1>2. PICK n \in Nat : n = Len(tokens)
  BY DEF TypeOK
<1>3. n # 0 /\ tokens[n].kind = "eof"
  BY <1>1, <1>2 DEF Running, Last, TypeOK
<1>4. ASSUME NEW k \in 1 .. n - 1 PROVE tokens[k].kind \in P!Token
  <2>1. tokens[k].kind \in Kind
    <3>1. /\ k \in 1 .. Len(tokens)
          /\ tokens \in Seq([kind : Kind, first : Nat, next : Nat, value : Seq(Character)])
      BY <1>2, <1>4 DEF TypeOK
    <3>2. tokens[k] \in [kind : Kind, first : Nat, next : Nat, value : Seq(Character)]
      BY <3>1, ElementOf
    <3>3. QED  BY <3>2
  <2>2. k \in DOMAIN tokens /\ k # n
    BY <1>2, <1>4 DEF TypeOK
  <2>3. tokens[k].kind # "eof"
    BY <1>2, <2>2 DEF Handover
  <2>4. QED  BY <2>1, <2>3 DEF Kind
<1>5. PICK line : line = [k \in 1 .. n - 1 |-> tokens[k].kind]
  OBVIOUS
<1>6. line \in Seq(P!Token) /\ Len(line) = n - 1
  BY <1>2, <1>3, <1>4, <1>5
<1>7. Kinds = Append(line, "eof")
  <2>1. /\ Append(line, "eof") \in Seq(P!Token \cup {"eof"})
        /\ Len(Append(line, "eof")) = n
        /\ \A k \in 1 .. n : Append(line, "eof")[k] = IF k = n THEN "eof" ELSE line[k]
    BY <1>2, <1>3, <1>6
  <2>2. \A k \in 1 .. n : Append(line, "eof")[k] = tokens[k].kind
    BY <1>3, <1>5, <2>1
  <2>3. PICK s \in Seq(P!Token \cup {"eof"}) : s = Append(line, "eof")
    BY <2>1
  <2>4. s = [k \in 1 .. Len(s) |-> s[k]]
    OBVIOUS
  <2>5. Len(s) = n /\ \A k \in 1 .. n : s[k] = tokens[k].kind
    BY <2>1, <2>2, <2>3
  <2>6. s = Kinds
    BY <1>2, <2>4, <2>5 DEF Kinds
  <2>7. QED  BY <2>3, <2>6
<1>8. QED
  BY <1>6, <1>7
  DEF Fed!Init

THEOREM ParserIsFed == Spec => []ParserFed
<1>1. TypeOK /\ Handover => ParserFed
  BY HandedToParser
<1>2. QED  BY <1>1, LexerTypeCorrect, ListHandedOver, PTL

\* The most tokens still to come: one for each character, and the "eof".
Left == End - current + IF Running THEN 1 ELSE 0

\* The loop of lexer_tokenize_all ends: each turn reads a character, or is the
\* last one, so that a line of n characters gives at most n + 1 tokens.
THEOREM TokensEnd == Spec => [](Left \in Nat) /\ [][Left' < Left]_vars
<1>1. TypeOK => Left \in Nat
  <2>1. SUFFICES ASSUME TypeOK PROVE Left \in Nat
    OBVIOUS
  <2>2. End - current \in Nat
    BY <2>1 DEF TypeOK, End
  <2>3. QED  BY <2>2 DEF Left
<1>2. TypeOK /\ Handover /\ Handover' /\ [Next]_vars => [Left' < Left]_vars
  <2>1. SUFFICES ASSUME TypeOK, Handover, Handover', Next PROVE Left' < Left
    OBVIOUS
  <2>2. PICK kind \in Kind, p \in 1 .. End, q \in 1 .. End, value \in Seq(Character) :
           /\ Running /\ Skip(p) /\ p <= q
           /\ Take(kind, p, q, value)
           /\ p = q => kind = "eof"
           /\ kind = "eof" => p = End /\ q = End
    BY <2>1, OneToken
  <2>3. /\ current' = q /\ End' = End
        /\ Len(tokens') = Len(tokens) + 1 /\ tokens' # << >>
        /\ tokens'[Len(tokens')].kind = kind
    <3>1. /\ DOMAIN tokens' = 1 .. Len(tokens) + 1 /\ Len(tokens') = Len(tokens) + 1
          /\ tokens'[Len(tokens) + 1] =
                [kind |-> kind, first |-> p, next |-> q, value |-> value]
          /\ current' = q /\ End' = End /\ Len(tokens) \in Nat
      BY <2>1, <2>2, TokensAfter
    <3>2. tokens' # << >>
      BY <3>1
    <3>3. QED  BY <3>1, <3>2
  <2>4. current \in Nat /\ End \in Nat /\ current <= p /\ q <= End /\ p \in Nat /\ q \in Nat
    BY <2>1, <2>2 DEF TypeOK, Skip, Run, End
  <2>5. Left = End - current + 1
    BY <2>2 DEF Left
  <2>6. CASE kind = "eof"
    <3>1. ~Running'
      BY <2>3, <2>6 DEF Running, Last
    <3>2. Left' = 0
      BY <2>2, <2>3, <2>4, <2>6, <3>1 DEF Left
    <3>3. QED  BY <2>4, <2>5, <3>2
  <2>7. CASE kind # "eof"
    <3>1. current < q
      BY <2>2, <2>4, <2>7
    <3>2. Left' <= End - q + 1 /\ Left' \in Int
      BY <2>3, <2>4 DEF Left
    <3>3. QED  BY <2>4, <2>5, <3>1, <3>2
  <2>8. QED  BY <2>6, <2>7
<1>3. QED  BY <1>1, <1>2, LexerTypeCorrect, ListHandedOver, PTL DEF Spec
=============================================================================
