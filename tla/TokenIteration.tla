--------------------------- MODULE TokenIteration ---------------------------
(***************************************************************************)
(* A source that is read to its end, token by token, with TokenIter of     *)
(* src/src/compiler/tokenizer.h.                                           *)
(***************************************************************************)
EXTENDS Tokenizer

VARIABLES
  source,
  tokens,    \* the TokenIter
  seen       \* a ghost: the tokens so far

tokenVars == <<source, tokens, seen>>

\* Atoms that are no words: "@" stands for the characters that nothing begins with.
Characters ==
  {"0", "1", "2", "3", "4", "5", "6", "7", "8", "9", " ", "\n", "\t",
   "<", ">", "=", "!", "+", "-", "*", "/", "~", "|", "&", "^",
   "(", ")", "[", "]", "{", "}", ":", ";", ".", ",", "\"", "'", "\\", "@"}

Atoms == Words \cup Keywords \cup Characters

ASSUME AtomsAssumption == Words \cap (Keywords \cup Characters \cup {"NUL"}) = {}

\* IntMax + 1 is a power of two, and none of them ends in a zero.
ASSUME LiteralsAssumption == IntMax >= 10 /\ IntMax % 10 # 9

TokensInit(sources) == source \in sources /\ tokens = TokenIterInit /\ seen = << >>

ReadToken ==
  /\ tokens = TokenIterInit \/ tokens.current.tag # None
  /\ tokens' = TokenIterNext(source, tokens)
  /\ seen' = IF tokens'.current.tag = None THEN seen ELSE Append(seen, tokens'.current)
  /\ UNCHANGED source

TokensSpec == TokensInit(Seq(Atoms)) /\ [][ReadToken]_tokenVars
-----------------------------------------------------------------------------
TextOf(src, token) == SubSeq(src, token.from, token.from + token.len - 1)

\* What digits spell, as far as it matters.
Spelled(digits) ==
  LET n[k \in 0 .. Len(digits)] ==
        IF k = 0 THEN 0
        ELSE IF n[k - 1] > 2 * IntMax THEN n[k - 1] ELSE 10 * n[k - 1] + DigitValue(digits[k])
  IN  n[Len(digits)]

\* A token is the longest its text allows, and an integer is what its digits spell,
\* if that fits: but the digits of -IntMin give IntMin without a sign, too.
GoodToken(src, token) ==
  LET text == TextOf(src, token)
      after == CharAt(src, token.from + token.len)
      digits == IF text[1] = "-" THEN Tail(text) ELSE text
      spelled == IF text[1] = "-" THEN -Spelled(digits) ELSE Spelled(digits)
  IN  CASE token.tag = IntLiteral ->
             /\ \A k \in DOMAIN digits : IsDigit(digits[k])
             /\ ~IsDigit(after)
             /\ token.value = IF spelled = -IntMin THEN IntMin ELSE spelled
        [] token.tag = FloatLiteral ->
             \/ \E k \in DOMAIN text : text[k] = "."
             \/ spelled \notin IntMin .. IntMax
        [] token.tag = StrLiteral ->
             text[1] = "\"" /\ text[token.len] = "\"" /\ token.len > 1
        [] token.tag = Identifier -> ~IsLetter(after) /\ ~IsDigit(after)
        [] token.tag = ReferenceSymbol -> text = <<"&">>
        [] token.tag = PointerSymbol -> text = <<"*">>
        [] OTHER ->
             /\ text = token.tag
             /\ \A i \in DOMAIN Operators :
                  StartsWith(src, token.from, Operators[i]) => Len(Operators[i]) <= token.len

\* The place that a number of tokens reach to.
EndOf(all, i) == IF i = 0 THEN 0 ELSE all[i].from + all[i].len - 1

\* tokenizer.c: tokens lie one behind the other with nothing but spaces in between, each
\* a good one; and when there is no next one, the source is at its end, or
\* an error was reported, or something stands there that no token begins with.
TokensCoverSource ==
  LET rest == {k \in tokens.index + 1 .. Len(source) : ~IsSpace(source[k])}
  IN  /\ \A i \in DOMAIN seen :
           /\ GoodToken(source, seen[i])
           /\ \A k \in EndOf(seen, i - 1) + 1 .. seen[i].from - 1 : IsSpace(source[k])
      /\ tokens.index = EndOf(seen, Len(seen))
      /\ tokens.current.tag = None =>
           \/ tokens = TokenIterInit \/ rest = {} \/ tokens.errors # << >>
           \/ source[Min(rest)] \in {"\\", "@"}
=============================================================================
