------------------------------- MODULE Lexing -------------------------------
(***************************************************************************)
(* The lexer (src/src/lexer/Lexer.cpp): from characters to tokens.         *)
(*                                                                         *)
(* A text is a sequence of characters, each a string of length one; a few  *)
(* letters and digits stand for all of them.  A token is its kind with the *)
(* positions of its first character and of the one after its last.        *)
(***************************************************************************)
EXTENDS Naturals, Sequences, FiniteSetsExt

Letter == {"e", "f", "i"}
Digit == {"0", "1"}
Blank == {" ", "\n"}
WordCharacter == Letter \cup Digit \cup {"_"}

(* The words that the map of keywords holds, for the letters above. *)
Keyword == {<<"i", "f">>}

---------------------------------------------------------------------------
(* Operators and marks, by what the branches of processOperator continue.  *)

ArithmeticMark ==
  {<<"+">>, <<"+", "+">>, <<"+", "=">>, <<"-">>, <<"-", "-">>, <<"-", "=">>, <<"-", ">">>,
   <<"*">>, <<"*", "*">>, <<"*", "=">>, <<"%">>, <<"%", "=">>, <<"^">>}

LogicMark ==
  {<<"&">>, <<"&", "=">>, <<"&", "&">>, <<"|">>, <<"|", "=">>, <<"|", "|">>,
   <<"!">>, <<"!", "=">>, <<"~">>, <<"<">>, <<"<", "=">>, <<"<", "<">>, <<"<", "<", "=">>,
   <<">">>, <<">", "=">>, <<">", ">">>, <<">", ">", "=">>, <<"=">>, <<"=", ">">>, <<"=", "=">>}

Punctuation ==
  {<<"(">>, <<")">>, <<"{">>, <<"}">>, <<"[">>, <<"]">>, <<".">>, <<".", ".">>,
   <<".", ".", ".">>, <<".", ".", "=">>, <<",">>, <<";">>, <<":">>, <<":", ":">>,
   <<"?">>, <<"$">>, <<"@">>}

Slash == {<<"/">>, <<"/", "=">>}

Mark == ArithmeticMark \cup LogicMark \cup Punctuation \cup Slash

---------------------------------------------------------------------------
(* Reading on in a text. *)

At(text, i) == IF i \in 1..Len(text) THEN text[i] ELSE ""

(* The first position from i on whose character is not in S. *)
After(text, i, S) == Min({j \in i..Len(text) + 1 : j > Len(text) \/ text[j] \notin S})

(* The end of a comment, at the end of its line or after its mark. *)
LineEnd(text, i) == Min({j \in i..Len(text) + 1 : At(text, j) \in {"\n", ""}})

BlockEnd(text, i) ==
  LET ends == {j \in i..Len(text) : At(text, j) = "*" /\ At(text, j + 1) = "/"}
  IN IF ends = {} THEN Len(text) + 1 ELSE Min(ends) + 2

RECURSIVE SkipWhitespace(_, _)
SkipWhitespace(text, i) ==
  CASE At(text, i) \in Blank -> SkipWhitespace(text, i + 1)
    [] At(text, i) = "/" /\ At(text, i + 1) = "/" -> SkipWhitespace(text, LineEnd(text, i + 2))
    [] At(text, i) = "/" /\ At(text, i + 1) = "*" -> SkipWhitespace(text, BlockEnd(text, i + 2))
    [] OTHER -> i

Token(kind, from, to) == [kind |-> kind, from |-> from, to |-> to]

Word(text, i) ==
  LET j == After(text, i, WordCharacter)
      word == SubSeq(text, i, j - 1)
      kind == CASE word \in Keyword -> "keyword"
                [] Len(word) >= 3 /\ word[1] = "_" /\ word[2] = "_" -> "builtin"
                [] OTHER -> "identifier"
  IN Token(kind, i, j)

\* Mutant of Number: any point after digits is taken.
NumberWithPoint(text, i) ==
  LET whole == After(text, i, Digit)
      fraction == IF At(text, whole) = "."
                  THEN After(text, whole + 1, Digit) ELSE whole
      sign == fraction + (IF At(text, fraction + 1) \in {"+", "-"} THEN 2 ELSE 1)
      exponent == IF At(text, fraction) = "e" THEN After(text, sign, Digit) ELSE fraction
      suffixed == At(text, exponent) \in Letter
      floating == IF suffixed THEN At(text, exponent) = "f" ELSE exponent # whole
  IN Token(IF floating THEN "floating" ELSE "integer", i,
           IF suffixed THEN exponent + 1 ELSE exponent)

(* A point belongs to a number when a digit follows; the last letter       *)
(* decides the kind, whatever the digits say.                              *)
Number(text, i) ==
  LET whole == After(text, i, Digit)
      fraction == IF At(text, whole) = "." /\ At(text, whole + 1) \in Digit
                  THEN After(text, whole + 1, Digit) ELSE whole
      sign == fraction + (IF At(text, fraction + 1) \in {"+", "-"} THEN 2 ELSE 1)
      exponent == IF At(text, fraction) = "e" THEN After(text, sign, Digit) ELSE fraction
      suffixed == At(text, exponent) \in Letter
      floating == IF suffixed THEN At(text, exponent) = "f" ELSE exponent # whole
  IN Token(IF floating THEN "floating" ELSE "integer", i,
           IF suffixed THEN exponent + 1 ELSE exponent)

Character(text, i) ==
  LET size == CASE At(text, i + 1) = "\\" -> 2
                [] At(text, i + 1) \in {"'", ""} -> 0
                [] OTHER -> 1
      end == Min({i + 1 + size, Len(text) + 1})
  IN IF At(text, end) = "'" THEN Token("character", i, end + 1) ELSE Token("none", i, end)

RECURSIVE Quote(_, _)
Quote(text, i) ==
  IF At(text, i) \in {"\"", ""} THEN i
  ELSE Quote(text, Min({i + (IF text[i] = "\\" THEN 2 ELSE 1), Len(text) + 1}))

String(text, i) ==
  LET end == Quote(text, i + 1)
  IN IF At(text, end) = "\"" THEN Token("string", i, end + 1) ELSE Token("none", i, end)

(* Each branch takes one more character as long as that makes a mark; an   *)
(* unknown character is a name of its own.                                 *)
RECURSIVE Munched(_, _, _)
Munched(text, i, j) ==
  IF j <= Len(text) /\ SubSeq(text, i, j) \in Mark THEN Munched(text, i, j + 1) ELSE j

Operator(text, i) ==
  IF <<text[i]>> \in Mark THEN Token("mark", i, Munched(text, i, i + 1))
  ELSE Token("identifier", i, i + 1)

NextToken(text, i) ==
  LET c == At(text, i)
  IN CASE c = "" -> Token("end", i, i)
       [] c \in Letter \cup {"_"} -> Word(text, i)
       [] c \in Digit -> Number(text, i)
       [] c = "'" -> Character(text, i)
       [] c = "\"" -> String(text, i)
       [] OTHER -> Operator(text, i)

RECURSIVE TokensFrom(_, _)
TokensFrom(text, i) ==
  LET token == NextToken(text, SkipWhitespace(text, i))
  IN IF token.kind = "end" THEN <<>> ELSE <<token>> \o TokensFrom(text, token.to)

Tokens(text) == TokensFrom(text, 1)

---------------------------------------------------------------------------
(* What the tokens and the blanks of the language are, said without the    *)
(* order in which the lexer looks.                                         *)

Digits(w) == w # <<>> /\ \A k \in DOMAIN w : w[k] \in Digit
OneOf(w, S) == Len(w) = 1 /\ w[1] \in S
Part(w, i, j) == SubSeq(w, i + 1, j)

IsWord(w) ==
  w # <<>> /\ w[1] \notin Digit /\ \A k \in DOMAIN w : w[k] \in WordCharacter

(* digits, a point and digits, an exponent, a letter *)
IsNumber(w) ==
  \E a \in 0..Len(w) : \E b \in a..Len(w) : \E c \in b..Len(w) :
    /\ Digits(Part(w, 0, a))
    /\ a = b \/ (w[a + 1] = "." /\ Digits(Part(w, a + 1, b)))
    /\ \/ b = c
       \/ /\ w[b + 1] = "e"
          /\ LET rest == Part(w, b + 1, c)
             IN \/ rest = <<>> \/ Digits(rest)
                \/ rest[1] \in {"+", "-"} /\ (Len(rest) = 1 \/ Digits(Tail(rest)))
    /\ c = Len(w) \/ OneOf(Part(w, c, Len(w)), Letter)

(* The inside of quotes has each backslash with the character after it. *)
Quoted(w, mark, sizes) ==
  /\ Len(w) >= 2 /\ w[1] = mark /\ w[Len(w)] = mark
  /\ \E escaped \in SUBSET (2..Len(w) - 1) :
       /\ \A k \in 2..Len(w) - 1 :
            /\ w[k] = "\\" => (k \in escaped \/ (k + 1 \in 2..Len(w) - 1 /\ k + 1 \in escaped))
            /\ k \in escaped => (k > 2 /\ w[k - 1] = "\\" /\ k - 1 \notin escaped)
            /\ w[k] = mark => k \in escaped
       /\ Len(w) - 2 - Cardinality(escaped) \in sizes

IsToken(w) ==
  \/ IsWord(w) \/ IsNumber(w) \/ w \in Mark
  \/ Quoted(w, "\"", 0..Len(w)) \/ Quoted(w, "'", {0, 1})

(* A comment ends with its line or mark, or with the text. *)
IsComment(w, final) ==
  /\ Len(w) >= 2
  /\ \/ /\ Part(w, 0, 2) = <<"/", "/">>
        /\ \A k \in 3..Len(w) - 1 : w[k] # "\n"
        /\ w[Len(w)] = "\n" \/ final
     \/ /\ Part(w, 0, 2) = <<"/", "*">>
        /\ \A k \in 4..Len(w) - 1 : ~(w[k - 1] = "*" /\ w[k] = "/")
        /\ (Len(w) >= 4 /\ Part(w, Len(w) - 2, Len(w)) = <<"*", "/">>) \/ final

RECURSIVE IsBlank(_, _)
IsBlank(w, final) ==
  \/ w = <<>>
  \/ \E k \in 1..Len(w) :
       /\ OneOf(Part(w, 0, k), Blank) \/ IsComment(Part(w, 0, k), final /\ k = Len(w))
       /\ IsBlank(Part(w, k, Len(w)), final)

(* From the end of the token before: a blank, then the longest token that  *)
(* stands there, or something that no token starts with.                   *)
IsLongest(text, last, token) ==
  LET starting == {j \in token.from..Len(text) : IsToken(SubSeq(text, token.from, j))}
  IN /\ token.from < token.to
     /\ IsBlank(SubSeq(text, last, token.from - 1), FALSE)
     /\ IF starting = {} THEN token.kind \in {"none", "identifier"}
        ELSE token.kind # "none" /\ token.to = Max(starting) + 1
=============================================================================
