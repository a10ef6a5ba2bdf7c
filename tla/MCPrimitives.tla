----------------------------- MODULE MCPrimitives -----------------------------
(***************************************************************************)
(* Instances of the containers, of the program's memory and of the pure    *)
(* algorithms for TLC.  A behaviour is about one component; an algorithm   *)
(* is checked on an input that is chosen in the initial state.             *)
(***************************************************************************)
EXTENDS MCHashMap, HashSet, Program, Arithmetic, Strings, ContextWays, TokenIteration

VARIABLES
  component,          \* what the behaviour is about
  heap, value

Lowest == -16

\* What is inserted into the set: 1 and 2 have the same hash, 4 shares their mask.
SetKeys == {1, 2, 4}

\* The names 1 and 2 have the same hash, 3 shares their mask.
NameHashes ==
  [k \in 1 .. 3 |-> IF k = 3 THEN [group |-> 1, mask |-> 1] ELSE [group |-> 0, mask |-> 1]]

\* Contexts of the host: of a struct that owns nothing, of one that owns a string, of one
\* with all the functions that context.h documents, and of one that is empty.
HostContext(type, size, destructor) ==
  [size |-> size, destructor |-> destructor, clone |-> Clones(type),
   eql |-> Compares(type), compare |-> NoFunction, hash |-> Hashes(type)]
HostContexts ==
  [plain |-> HostContext("plain", 40, NoFunction),
   owner |-> HostContext("owner", 56, Deinits("owner")),
   documented |-> [HostContext("documented", 24, DeinitsByReference("documented"))
                     EXCEPT !.compare = Orders("documented")],
   none |-> [size |-> 0, destructor |-> NoFunction, clone |-> NoFunction, eql |-> NoFunction,
             compare |-> NoFunction, hash |-> NoFunction]]

Heap == INSTANCE Values WITH
  Variables <- 1 .. 2, Blocks <- 1 .. 10, MaxSize <- 3

SeqsUpTo(S, n) == UNION {[1 .. k -> S] : k \in 0 .. n}
-----------------------------------------------------------------------------
(***************************************************************************)
(* Inputs.                                                                 *)
(***************************************************************************)

\* A text with characters of one and two bytes, one to find or to append, and a place;
\* texts with the lead bytes of all lengths; and numbers with two digits behind the point.
Numerals ==
  LET digits == {48, 49}
  IN  {<<i, 46, f, g>> : i, f, g \in digits} \cup {<<h, i, 46, f, g>> : h, i, f, g \in digits}
StringInputs ==
  (SeqsUpTo({97, 98, 195, 169}, 4) \X SeqsUpTo({97, 98, 195, 169}, 2) \X (0 .. 5))
  \cup (SeqsUpTo({97, 195, 169, 226, 240, 248}, 5) \X {<<97>>} \X {2})
  \cup (Numerals \X {<<48>>} \X {1})

\* Sources of numbers, of operators, and of words and strings.
Sources ==
  SeqsUpTo({"1", "2", "5", "6", "0", "-", ".", ";", " "}, 4)
  \cup SeqsUpTo({"<", "=", "-", "&", "*", "a", "1", " "}, 4)
  \cup SeqsUpTo({"a", "if", " ", "\"", "\\", "(", "'", "@"}, 4)

\* Numbers of 5 bits; TLC's own integers have no room for their higher powers.
Inputs(c) == IF c = "numbers" THEN Ints \X (IntMin .. 7) ELSE {<< >>}
-----------------------------------------------------------------------------
PrimitivesInit ==
  /\ component \in {"map", "set", "program", "values", "strings", "numbers", "contexts",
                   "tokens"}
  /\ Init /\ SetInit /\ ProgramInit /\ Heap!Init
  /\ TokensInit(IF component = "tokens" THEN Sources ELSE {<< >>})
  /\ texts \in IF component = "strings" THEN StringInputs ELSE {<< << >>, << >>, 0 >>}
  /\ input \in Inputs(component)
  /\ held \in IF component = "contexts" THEN Types ELSE {"nothing"}

PrimitivesNext ==
  /\ \/ /\ component = "map" /\ Next
        /\ UNCHANGED <<set, iter, programVars, heap, value, tokens, seen>>
     \/ /\ component = "set" /\ SetNext /\ KeysIn(set') \subseteq SetKeys
        /\ UNCHANGED <<map, programVars, heap, value, tokens, seen>>
     \/ /\ component = "program" /\ ProgramNext
        /\ UNCHANGED <<map, set, iter, heap, value, tokens, seen>>
     \/ /\ component = "values" /\ Heap!Next
        /\ UNCHANGED <<map, set, iter, programVars, tokens, seen>>
     \/ /\ component = "tokens" /\ ReadToken
        /\ UNCHANGED <<map, set, iter, programVars, heap, value>>
  /\ UNCHANGED <<component, source, texts, input, held>>

PrimitivesSpec ==
  PrimitivesInit
  /\ [][PrimitivesNext]_<<component, map, set, iter, programVars, heap, value, source,
                          tokens, seen, texts, input, held>>
-----------------------------------------------------------------------------
\* array.c, option.c, result.c, error.c, string.c: every block is held as often as its
\* count says and freed once (Values).
OwnedOnce == component = "values" => Heap!OwnedOnce
\* The same: clones are equal, have the same hashes, and leave nothing behind (Values).
ClonesEqual == component = "values" => Heap!ClonesEqual
=============================================================================
