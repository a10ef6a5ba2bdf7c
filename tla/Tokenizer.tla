----------------------------- MODULE Tokenizer -----------------------------
(***************************************************************************)
(* The tokenizer of src/src/compiler/tokenizer.c.                          *)
(*                                                                         *)
(* A source is a sequence of ATOMS: single characters, and whole words, of *)
(* which some are keywords.  A word is what letters make up; that it has   *)
(* several characters does not matter to anything but its end.  The tag of *)
(* a keyword, an operator or a symbol is the sequence of its atoms.        *)
(* Integers have the width of Numbers; a float's value is left out.        *)
(***************************************************************************)
EXTENDS Numbers, SequencesExt

CONSTANT Words      \* atoms of letters that are no keywords

Keywords ==
  {"const", "mut", "return", "fn", "pub", "if", "else", "switch", "while", "for", "break",
   "continue", "struct", "interface", "enum", "union", "sync", "unsafe", "true", "false",
   "bool", "int", "float", "str", "char", "import", "mod", "extern", "and", "or", "null"}

Digits == <<"0", "1", "2", "3", "4", "5", "6", "7", "8", "9">>

IsDigit(c) == c \in {"0", "1", "2", "3", "4", "5", "6", "7", "8", "9"}
IsSpace(c) == c \in {" ", "\n", "\t"}
IsLetter(c) == c \in Words \cup Keywords
DigitValue(c) == CHOOSE d \in 0 .. 9 : Digits[d + 1] = c

\* What is tried in this order, before the symbols; "*" and "&" are symbols too.
Operators ==
  << <<"<", "<", "=">>, <<"<", "<">>, <<">", ">", "=">>, <<">", ">">>, <<"=", "=">>, <<"=">>,
     <<"!", "=">>, <<"!">>, <<"<", "=">>, <<"<">>, <<">", "=">>, <<">">>, <<"+", "=">>, <<"+">>,
     <<"-", "=">>, <<"*", "=">>, <<"/", "=">>, <<"/">>, <<"~">>, <<"|", "=">>, <<"|">>,
     <<"&", "=">>, <<"^", "=">>, <<"^">> >>

Symbols ==
  << <<"(">>, <<")">>, <<"[">>, <<"]">>, <<"{">>, <<"}">>, <<":">>, <<";">>, <<".">>, <<",">> >>

None == <<"none">>
IntLiteral == <<"int literal">>
FloatLiteral == <<"float literal">>
StrLiteral == <<"str literal">>
Identifier == <<"identifier">>
ReferenceSymbol == <<"reference">>
PointerSymbol == <<"pointer">>

\* is_token_operator.
IsOperator(tag) == tag \in ToSet(Operators) \cup {<<"-">>, <<"*">>, <<"&">>}

\* The character at a place; sources end with a NUL.
CharAt(source, i) == IF i <= Len(source) THEN source[i] ELSE "NUL"

\* A token of `len' atoms, or an error that was reported at a place, or neither.
TokenFound(tag, len, value) == [tag |-> tag, len |-> len, value |-> value, error |-> "none", at |-> 0]
Failed(error, at) == [tag |-> None, len |-> 0, value |-> 0, error |-> error, at |-> at]
NotFound == Failed("none", 0)
-----------------------------------------------------------------------------
\* starts_with_operator_or_symbol_substring.
StartsWith(source, i, text) == \A k \in DOMAIN text : CharAt(source, i + k - 1) = text[k]

\* starts_with_keyword_substring.
StartsWithKeyword(source, i) ==
  /\ CharAt(source, i) \in Keywords
  /\ LET after == CharAt(source, i + 1)
     IN  after = "NUL" \/ IsSpace(after) \/ after \in {",", ".", ";", "(", ")"}

\* get_next_token_start_slice: the first place that is no space, or 0.
TokenStart(source, i) ==
  LET starts == {k \in i .. Len(source) : ~IsSpace(source[k])}
  IN  IF starts = {} THEN 0 ELSE Min(starts)

\* The first place from i on whose character is not in the run.
RunEnd(source, i, InRun(_)) ==
  CHOOSE e \in i .. Len(source) + 1 :
    /\ ~InRun(CharAt(source, e))
    /\ \A k \in i .. e - 1 : InRun(source[k])

\* One more digit of a whole part, which turns into a float when it overflows.
WithDigit(n, c) ==
  LET digit == DigitValue(c)
  IN  IF n.float THEN n
      ELSE IF n.int = IntMax \div 10 /\ digit = (IntMax % 10) + 1 THEN [n EXCEPT !.int = IntMin]
      ELSE IF MulOverflows(n.int, 10) \/ AddOverflows(n.int * 10, digit) THEN [n EXCEPT !.float = TRUE]
      ELSE [n EXCEPT !.int = @ * 10 + digit]

\* The digits before a point, as the loop reads them.
WholePart(digits) ==
  LET loop[k \in 0 .. Len(digits)] ==
        IF k = 0 THEN [float |-> FALSE, int |-> 0] ELSE WithDigit(loop[k - 1], digits[k])
  IN  loop[Len(digits)]

\* try_parse_num_literal.
NumLiteral(source, start) ==
  LET negative == source[start] = "-"
      first == IF negative THEN start + 1 ELSE start
      point == RunEnd(source, first, IsDigit)
      whole == WholePart(SubSeq(source, first, point - 1))
      decimal == CharAt(source, point) = "."
      end == IF decimal THEN RunEnd(source, point + 1, IsDigit) ELSE point
      after == CharAt(source, end)
  IN  IF after = "." THEN Failed("tooManyDecimal", end)
      ELSE IF ~IsSpace(after) /\ after \notin {"NUL", ";", ","} THEN Failed("invalidChar", end)
      ELSE IF decimal \/ whole.float THEN TokenFound(FloatLiteral, end - start, 0)
      ELSE TokenFound(IntLiteral, end - start,
                 IF negative /\ whole.int # IntMin THEN -whole.int ELSE whole.int)

\* try_parse_string_literal: a backslash hides the character behind it, and if that
\* is the NUL, the position of the error is not within the source.
StringLiteral(source, start) ==
  LET quote[i \in start + 1 .. Len(source) + 2] ==
        IF i > Len(source) THEN Len(source) - i
        ELSE IF source[i] = "\\" THEN quote[i + 2]
        ELSE IF source[i] = "\"" THEN i
        ELSE quote[i + 1]
      end == quote[start + 1]
  IN  IF end < -1 THEN Failed("assertion", Len(source))
      ELSE IF end < 0 THEN Failed("terminatedString", Len(source))
      ELSE TokenFound(StrLiteral, end - start + 1, 0)

\* try_parse_identifier.
IdentifierAt(source, start) ==
  LET end == RunEnd(source, start, LAMBDA c : IsLetter(c) \/ IsDigit(c))
  IN  TokenFound(Identifier, end - start, 0)

\* try_parse_literal_or_identifier; there are no literals of characters yet.
LiteralOrIdentifier(source, start) ==
  LET c == source[start]
  IN  IF c = "\"" THEN StringLiteral(source, start)
      ELSE IF IsDigit(c) THEN NumLiteral(source, start)
      ELSE IF IsLetter(c) THEN IdentifierAt(source, start)
      ELSE IF c = "'" THEN Failed("assertion", start)
      ELSE NotFound

\* What is compared with the source, one operator and symbol after the other.
OperatorsAndSymbols == Operators \o Symbols

\* A mutant: what is longer is tried later.
MatchShortFirst(source, start) ==
  LET matches == {i \in DOMAIN OperatorsAndSymbols : StartsWith(source, start, OperatorsAndSymbols[i])}
  IN  IF matches = {} THEN << >> ELSE OperatorsAndSymbols[Max(matches)]

\* The first of them that stands at a place, or nothing.
Match(source, start) ==
  LET matches == {i \in DOMAIN OperatorsAndSymbols : StartsWith(source, start, OperatorsAndSymbols[i])}
  IN  IF matches = {} THEN << >> ELSE OperatorsAndSymbols[Min(matches)]

\* get_next_token, of what stands at a place, after a token.
TokenAt(source, start, previous) ==
  LET c == source[start]
      afterValue == previous \in {IntLiteral, Identifier}
      afterNumber == afterValue \/ previous = FloatLiteral
      match == Match(source, start)
  IN  IF StartsWithKeyword(source, start) THEN TokenFound(<<c>>, 1, 0)
      ELSE IF match # << >> THEN TokenFound(match, Len(match), 0)
      ELSE IF c = "&" THEN TokenFound(IF afterValue THEN <<c>> ELSE ReferenceSymbol, 1, 0)
      ELSE IF c = "*" THEN TokenFound(IF afterNumber THEN <<c>> ELSE PointerSymbol, 1, 0)
      ELSE IF c = "-" THEN IF afterNumber THEN TokenFound(<<c>>, 1, 0) ELSE NumLiteral(source, start)
      ELSE LiteralOrIdentifier(source, start)

NoToken == [tag |-> None, value |-> 0, from |-> 0, len |-> 0]

\* cubs_token_iter_init; `errors' is what the callback was told.
TokenIterInit == [index |-> 0, previous |-> NoToken, current |-> NoToken, errors |-> << >>]

\* cubs_token_iter_next: without a token the position stays where it is.
TokenIterNext(source, iter) ==
  LET start == TokenStart(source, iter.index + 1)
      next == IF iter.index >= Len(source) \/ start = 0 THEN NotFound
              ELSE TokenAt(source, start, iter.current.tag)
      token == [tag |-> next.tag, value |-> next.value, from |-> start, len |-> next.len]
  IN  IF next.tag = None
      THEN [iter EXCEPT !.previous = iter.current, !.current = NoToken,
              !.errors = IF next.error = "none" THEN @ ELSE Append(@, <<next.error, next.at>>)]
      ELSE [iter EXCEPT !.previous = iter.current, !.current = token,
              !.index = start + next.len - 1]
=============================================================================
