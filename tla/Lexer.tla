------------------------------- MODULE Lexer -------------------------------
(***************************************************************************)
(* lexer_tokenize_all: the text of one line becomes the list of tokens the *)
(* parser works on.  A text is a sequence of characters; "high" stands for *)
(* every character above 127, a negative `char` in the build.  Each step   *)
(* is one lexer_next_token, which skips spaces first, and the append that  *)
(* follows it.  Running out of memory is left out.                         *)
(***************************************************************************)
EXTENDS Naturals, SequencesExt

CONSTANT Text    \* the lines that may be typed

Digit == {"0", "1", "2", "3", "4", "5", "6", "7", "8", "9"}
Letter == {"a", "b", "c", "d", "e", "f", "g", "h", "i", "j", "k", "l", "m", "n",
           "o", "p", "q", "r", "s", "t", "u", "v", "w", "x", "y", "z"}
Blank == {" "}
Symbol == {"-", ".", ":", ";", "=", "/"}
Unknown == {","}    \* of which no token is made but TOKEN_UNKNOWN
Character == Digit \cup Letter \cup Blank \cup Symbol \cup Unknown \cup {"_", "high"}

ASSUME TextAssumption == Text \subseteq Seq(Character)

VARIABLES
    source,     \* lexer->source
    high,       \* what isspace, isdigit and isalpha say of a "high" character
    current,    \* lexer->current, 1-based: Len(source) + 1 is the end
    tokens,     \* the list: kinds as CommandParser has them, spans and values
    capacity    \* the room that was allocated for the list

vars == <<source, high, current, tokens, capacity>>

P == INSTANCE CommandParser WITH
        Input <- {}, current <- 1, tokens <- << >>, statements <- << >>, skipped <- {}

Kind == P!Token \cup {"eof"}
End == Len(source) + 1

TypeOK ==
    /\ source \in Seq(Character)
    /\ high \in SUBSET {"space", "digit", "alpha"}
    /\ current \in 1 .. End
    /\ tokens \in Seq([kind : Kind, first : Nat, next : Nat, value : Seq(Character)])
    /\ capacity \in Nat
    /\ Len(tokens) <= capacity

\* ctype.h is asked about a negative `char`, which is undefined: the answer is
\* what lies before its table.  One entry answers every question, so isalnum
\* agrees with isalpha and isdigit.
Init ==
    /\ source \in Text
    /\ high \in SUBSET {"space", "digit", "alpha"}
    /\ current = 1
    /\ tokens = << >>
    /\ capacity = 10

-----------------------------------------------------------------------------
(* lexer_next_token *)

If(class) == IF class \in high THEN {"high"} ELSE {}

isspace == Blank \cup If("space")
isdigit == Digit \cup If("digit")

WordStart == Letter \cup {"_"} \cup If("alpha")

\* Mutant: a digit ends a word.
WordRest_NoDigits == WordStart

WordRest == WordStart \cup isdigit

At(p, class) == p < End /\ source[p] \in class

\* The loops over lexer_peek and lexer_advance: from p they stop at q.
Run(p, q, class) ==
    /\ q \in p .. End
    /\ \A k \in p .. q - 1 : source[k] \in class
    /\ ~At(q, class)

Skip(p) == Run(current, p, isspace)

Push(token) ==
    /\ tokens' = Append(tokens, token)
    /\ capacity' = IF Len(tokens) >= capacity THEN 2 * capacity ELSE capacity

\* A token of the characters from p up to, not including, q.
Take(kind, p, q, value) ==
    /\ Push([kind |-> kind, first |-> p, next |-> q, value |-> value])
    /\ current' = q
    /\ UNCHANGED <<source, high>>

Span(p, q) == SubSeq(source, p, q - 1)

\* The do loop ends behind the first "eof".
Running == ~(tokens # << >> /\ Last(tokens).kind = "eof")

\* Mutant: the character that ends the number is lost.
Number_OneMore ==
    Running /\ \E p, q \in 1 .. End :
       /\ Skip(p) /\ At(p, isdigit)
       /\ Run(p, q, isdigit)
       /\ Push([kind |-> "number", first |-> p, next |-> q, value |-> Span(p, q)])
       /\ current' = IF q < End THEN q + 1 ELSE q
       /\ UNCHANGED <<source, high>>

Number ==
    Running /\ \E p, q \in 1 .. End :
       /\ Skip(p) /\ At(p, isdigit)
       /\ Run(p, q, isdigit)
       /\ Take("number", p, q, Span(p, q))

\* The words that are compared with: the commands, those of them that no later
\* part handles, and the three values parse_nodeid looks for.
Words ==
    {[text |-> <<"c", "d">>, kind |-> "cd"],
     [text |-> <<"c", "o", "n">>, kind |-> "con"],
     [text |-> <<"l", "s">>, kind |-> "ls"],
     [text |-> <<"s", "a", "v", "e">>, kind |-> "save"],
     [text |-> <<"s", "t", "a", "t", "e">>, kind |-> "state"],
     [text |-> <<"s", "e", "t">>, kind |-> "set"],
     [text |-> <<"n", "s">>, kind |-> "ns"],
     [text |-> <<"i">>, kind |-> "i"],
     [text |-> <<"s">>, kind |-> "s"]}
    \cup
    {[text |-> t, kind |-> "unhandled"] : t \in
       {<<"h", "e", "l", "p">>, <<"r", "e", "a", "d">>, <<"a", "d", "d">>,
        <<"u", "n", "d", "o">>, <<"r", "e", "d", "o">>, <<"c", "u", "r">>,
        <<"d", "i", "s", "c", "o", "n", "n", "e", "c", "t">>, <<"h", "i", "s", "t">>}}

\* Mutant: the comparison stops where the keyword ends.
WordKind_Prefix(text) ==
    IF \E w \in Words : IsPrefix(w.text, text)
      THEN (CHOOSE w \in Words : IsPrefix(w.text, text)).kind ELSE "ident"

WordKind(text) ==
    IF \E w \in Words : w.text = text
      THEN (CHOOSE w \in Words : w.text = text).kind ELSE "ident"

Word ==
    Running /\ \E p, q \in 1 .. End :
       /\ Skip(p) /\ At(p, WordStart) /\ ~At(p, isdigit)
       /\ Run(p, q, WordRest)
       /\ Take(WordKind(Span(p, q)), p, q, Span(p, q))

SymbolKind(c) ==
    CASE c = "-" -> "minus"
      [] c = "." -> "dot"
      [] c = ";" -> "semicolon"
      [] c = "=" -> "assign"
      [] OTHER   -> "unhandled"    \* ":" and "/", which the parser never looks for

SymbolToken ==
    Running /\ \E p \in 1 .. Len(source) :
       /\ Skip(p) /\ At(p, Symbol)
       /\ Take(SymbolKind(source[p]), p, p + 1, <<source[p]>>)

\* Mutant: the character is kept as the value.
UnknownToken_Kept ==
    Running /\ \E p \in 1 .. Len(source) :
       /\ Skip(p)
       /\ ~At(p, isdigit) /\ ~At(p, WordStart) /\ ~At(p, Symbol)
       /\ Take("unhandled", p, p + 1, <<source[p]>>)

\* Whatever else it is, its character is not kept.
UnknownToken ==
    Running /\ \E p \in 1 .. Len(source) :
       /\ Skip(p)
       /\ ~At(p, isdigit) /\ ~At(p, WordStart) /\ ~At(p, Symbol)
       /\ Take("unhandled", p, p + 1, << >>)

\* Mutant: a negative character is taken for the terminator.
EofToken_AtHigh ==
    Running /\ \E p \in 1 .. End :
       /\ Skip(p)
       /\ p = End \/ At(p, {"high"})
       /\ Take("eof", p, p, << >>)

EofToken == Running /\ Skip(End) /\ Take("eof", End, End, << >>)

Next == Number \/ Word \/ SymbolToken \/ UnknownToken \/ EofToken

\* The loop of lexer_tokenize_all waits for nothing.
Spec == Init /\ [][Next]_vars /\ WF_vars(Next)

-----------------------------------------------------------------------------
(* Properties. *)

\* Where token k may start: behind the token before it.
Behind(k) == IF k = 1 THEN 1 ELSE tokens[k - 1].next

\* lexer_skip_whitespace and the advances add up: the tokens lie in the order of
\* the text, none overlaps another, only spaces lie between them, and only the
\* "eof" is empty.
Tiling ==
    /\ \A k \in DOMAIN tokens :
          LET t == tokens[k]
          IN  /\ Behind(k) <= t.first /\ t.first <= t.next /\ t.next <= current
              /\ \A c \in Behind(k) .. t.first - 1 : source[c] \in isspace
              /\ t.first = t.next => t.kind = "eof"
    /\ current = Behind(Len(tokens) + 1)

\* The characters some token is made of, spaces aside.
Kept == (WordRest \cup isdigit \cup Symbol) \ isspace

\* The values the later parts join again are the text without its spaces and
\* without the characters no token is made of (lexer.c:93): "set filter 1-3,5-7"
\* stores 1-35-7.  (A "high" character that is called a space and something else
\* at once is skipped in front of a token and kept inside one.)
ValuesKeepText ==
    "space" \notin high \/ high = {"space"} =>
    FlattenSeq([k \in DOMAIN tokens |-> tokens[k].value]) =
       FlattenSeq([c \in 1 .. current - 1 |->
                      IF source[c] \in Kept THEN <<source[c]>> ELSE << >>])

\* A command word is a command only when it is the whole word: "lsx", "ls1" and
\* "ls_" are identifiers, and only a digit may stand right before it.
WholeWords ==
    \A k \in DOMAIN tokens :
       LET t == tokens[k]
       IN  t.kind \in P!Keyword =>
              /\ \E w \in Words : w.kind = t.kind /\ w.text = t.value
              /\ ~At(t.next, Letter \cup Digit \cup {"_"})
              /\ ~(t.first > 1 /\ At(t.first - 1, Letter \cup {"_"}))

\* What lexer_tokenize_all hands over is what parser_parse starts from: the
\* only "eof" is the last token, and the whole text is before it.
Handover ==
    \A k \in DOMAIN tokens : tokens[k].kind = "eof" => k = Len(tokens) /\ current = End

=============================================================================
