------------------------------- MODULE Values -------------------------------
(***************************************************************************)
(* Values that own memory and each other: strings, arrays, options, errors *)
(* and results of src/src/primitives, and types of the host.               *)
(*                                                                         *)
(* A value is a record: its type, the type OF its elements, what it says   *)
(* as a number, the block it owns, and the values in it.  Functions get    *)
(* values by their bytes: who passes a value moves it.  A heap is the      *)
(* number of references to each block, whether a block was freed that was  *)
(* not there, and whether one was LOST, with nothing that points to it;    *)
(* lost blocks are no longer counted.                                      *)
(***************************************************************************)
EXTENDS Contexts, FiniteSets, SequencesExt

CONSTANTS
  Variables,    \* where the host keeps values
  Blocks,       \* ids of heap blocks
  MaxSize       \* bound on a value, with what is in it

VARIABLES heap, value

NULL == 0
NoValue == [type |-> "none", of |-> "none", n |-> 0, buf |-> NULL, items |-> << >>]

NoHeap == [refs |-> << >>, lost |-> FALSE, wrong |-> FALSE]

Fresh(h) == Min(Blocks \ DOMAIN h.refs)
Malloc(h) == [h EXCEPT !.refs = [b \in DOMAIN @ \cup {Fresh(h)} |->
                                   IF b \in DOMAIN @ THEN @[b] ELSE 1]]
Freed(h, block) ==
  [h EXCEPT !.refs = [b \in DOMAIN @ \ {block} |-> @[b]], !.wrong = @ \/ block \notin DOMAIN h.refs]

\* Options and results have room for a value, or for a pointer to it.
OptionRoom == 32
ResultRoom == 48
Inline(type, room) == Context(type).size <= room
HasDestructor(type) == Context(type).destructor # NoFunction

\* cubs_string_deinit and heap_rep_deinit: the last reference frees the buffer.
StringDeinited(h, v) ==
  IF v.buf = NULL THEN h
  ELSE IF v.buf \in DOMAIN h.refs /\ h.refs[v.buf] > 1 THEN [h EXCEPT !.refs[v.buf] = @ - 1]
  ELSE Freed(h, v.buf)

RECURSIVE Deinited(_, _)
DeinitedAll(h, items) == FoldSeq(LAMBDA v, g : Deinited(g, v), h, items)

\* cubs_array_deinit: the elements if they have a destructor, then the buffer.
ArrayDeinited(h, v) ==
  IF v.buf = NULL THEN h
  ELSE Freed(IF HasDestructor(v.of) THEN DeinitedAll(h, v.items) ELSE h, v.buf)

Lost(h, block) == [Freed(h, block) EXCEPT !.lost = TRUE]

\* cubs_option_deinit: without a destructor, the memory of a value is lost.
OptionDeinited(h, v) ==
  IF v.items = << >> THEN h
  ELSE IF ~HasDestructor(v.of) THEN IF v.buf = NULL THEN h ELSE Lost(h, v.buf)
  ELSE IF v.buf = NULL THEN DeinitedAll(h, v.items)
  ELSE Freed(DeinitedAll(h, v.items), v.buf)

\* A mutant: the name stays.
ErrorDeinitedWithoutName(h, v) ==
  IF v.buf = NULL THEN h ELSE Freed(Deinited(h, v.items[2]), v.buf)

\* cubs_error_deinit: the name, and the metadata if it was not taken.
ErrorDeinited(h, v) ==
  IF v.buf = NULL THEN Deinited(h, v.items[1]) ELSE Freed(DeinitedAll(h, v.items), v.buf)

\* cubs_result_deinit: the error, or the value and its memory.
ResultDeinited(h, v) ==
  IF v.n = 1 \/ v.buf = NULL THEN DeinitedAll(h, v.items)
  ELSE Freed(DeinitedAll(h, v.items), v.buf)

\* cubs_context_fast_deinit; a destructor of the host destroys what is in the value.
Deinited(h, v) ==
  CASE DeinitWay(v.type) = "nothing" -> h
    [] v.type = "string" -> StringDeinited(h, v)
    [] v.type = "array" -> ArrayDeinited(h, v)
    [] v.type = "option" -> OptionDeinited(h, v)
    [] v.type = "error" -> ErrorDeinited(h, v)
    [] v.type = "result" -> ResultDeinited(h, v)
    [] OTHER -> DeinitedAll(h, v.items)
-----------------------------------------------------------------------------
RECURSIVE Cloned(_, _)
\* The clones of some values, and the heap with them.
ClonedAll(h, items) ==
  FoldLeft(LAMBDA c, v : LET d == Cloned(c.heap, v)
                         IN  [heap |-> d.heap, items |-> Append(c.items, d.value)],
           [heap |-> h, items |-> << >>], items)

\* A mutant: the bytes without a reference.
StringClonedBitwise(h, v) == [heap |-> h, value |-> v]

\* cubs_string_clone.
StringCloned(h, v) ==
  [heap |-> IF v.buf = NULL THEN h ELSE [h EXCEPT !.refs[v.buf] = @ + 1], value |-> v]

\* The memory of a clone, if the original has some, and then the clones in it.
BoxCloned(h, v) ==
  LET g == IF v.buf = NULL THEN h ELSE Malloc(h)
      c == ClonedAll(g, v.items)
  IN  [heap |-> c.heap,
       value |-> [v EXCEPT !.buf = IF @ = NULL THEN NULL ELSE Fresh(h), !.items = c.items]]

\* cubs_array_clone: of an empty array, one without a buffer.
ArrayCloned(h, v) ==
  IF v.items = << >> THEN [heap |-> h, value |-> [v EXCEPT !.buf = NULL]] ELSE BoxCloned(h, v)

\* cubs_option_clone.
OptionCloned(h, v) == BoxCloned(h, v)

\* cubs_error_clone.
ErrorCloned(h, v) == BoxCloned(h, v)

\* cubs_context_fast_clone.
Cloned(h, v) ==
  CASE v.type = "string" -> StringCloned(h, v)
    [] v.type = "array" -> ArrayCloned(h, v)
    [] v.type = "option" -> OptionCloned(h, v)
    [] v.type = "error" -> ErrorCloned(h, v)
    [] OTHER -> BoxCloned(h, v)

RECURSIVE Clonable(_)
Clonable(v) == CloneWay(v.type) # "fails" /\ \A i \in DOMAIN v.items : Clonable(v.items[i])

RECURSIVE Eql(_, _)
ItemsEql(v, w) ==
  /\ Len(v.items) = Len(w.items)
  /\ \A i \in DOMAIN v.items : Eql(v.items[i], w.items[i])

\* cubs_array_eql.
ArrayEql(v, w) == ItemsEql(v, w)

\* cubs_option_eql.
OptionEql(v, w) == ItemsEql(v, w)

\* cubs_error_eql: the names, and the metadata unless it was taken from one of them.
ErrorEql(v, w) ==
  /\ Eql(v.items[1], w.items[1])
  /\ v.of = "none" \/ (v.buf = NULL <=> w.buf = NULL)
  /\ v.buf # NULL /\ w.buf # NULL => Eql(v.items[2], w.items[2])

\* cubs_context_fast_eql, and cubs_string_eql.
Eql(v, w) ==
  CASE v.type = "array" -> ArrayEql(v, w)
    [] v.type = "option" -> OptionEql(v, w)
    [] v.type = "error" -> ErrorEql(v, w)
    [] v.type = "string" -> v.n = w.n /\ (v.buf = NULL <=> w.buf = NULL)
    [] OTHER -> v.n = w.n /\ ItemsEql(v, w)

RECURSIVE ValueHash(_)
HashOfItems(v) == [i \in DOMAIN v.items |-> ValueHash(v.items[i])]

\* cubs_array_hash: the elements' hashes combined, in order.
ArrayHash(v) == <<0, HashOfItems(v)>>

\* cubs_option_hash.
OptionHash(v) == IF v.items = << >> THEN <<0, << >> >> ELSE <<0, HashOfItems(v)>>

\* cubs_error_hash: the name's, and the metadata's if there is some.
ErrorHash(v) == <<0, HashOfItems(v)>>

\* cubs_context_fast_hash.
ValueHash(v) ==
  CASE v.type = "array" -> ArrayHash(v)
    [] v.type = "option" -> OptionHash(v)
    [] v.type = "error" -> ErrorHash(v)
    [] OTHER -> <<v.n, HashOfItems(v)>>
-----------------------------------------------------------------------------
(***************************************************************************)
(* What the host does.                                                     *)
(***************************************************************************)

RECURSIVE Size(_)
Size(v) == 1 + FoldSeq(LAMBDA item, n : n + Size(item), 0, v.items)

Free(x) == value[x] = NoValue
Sets(x, v, h) == heap' = h /\ value' = [value EXCEPT ![x] = v] /\ Size(v) <= MaxSize
Moves(x, v, y, w, h) ==
  heap' = h /\ value' = [value EXCEPT ![x] = v, ![y] = w] /\ Size(v) <= MaxSize

Init == heap = NoHeap /\ value = [x \in Variables |-> NoValue]

\* Values of the host: numbers, short and long strings, a struct without a destructor
\* and one with a string in it.
NewPlain(x) ==
  /\ Free(x)
  /\ \E type \in {"int", "plain"} : Sets(x, [NoValue EXCEPT !.type = type, !.n = 1], heap)
StringOf(h, n) == [NoValue EXCEPT !.type = "string", !.n = n, !.buf = IF n = 1 THEN NULL ELSE Fresh(h)]
HeapOf(h, n) == IF n = 1 THEN h ELSE Malloc(h)

\* cubs_string_init_unchecked.
NewString(x) == Free(x) /\ \E n \in 1 .. 2 : Sets(x, StringOf(heap, n), HeapOf(heap, n))
NewOwner(x) ==
  /\ Free(x)
  /\ Sets(x, [NoValue EXCEPT !.type = "owner", !.n = 1, !.items = <<StringOf(heap, 2)>>],
          Malloc(heap))

\* cubs_array_init.
NewArray(x, of) == Free(x) /\ Sets(x, [NoValue EXCEPT !.type = "array", !.of = of], heap)

\* cubs_array_push_unchecked: a first buffer has room for one, a later one for more.
Push(x, y) ==
  LET v == value[x]
  IN  /\ x # y /\ v.type = "array" /\ value[y].type = v.of
      /\ IF v.items = << >> /\ v.buf = NULL
         THEN Moves(x, [v EXCEPT !.buf = Fresh(heap), !.items = <<value[y]>>],
                    y, NoValue, Malloc(heap))
         ELSE IF Len(v.items) = 1
         THEN Moves(x, [v EXCEPT !.buf = Fresh(heap), !.items = Append(@, value[y])],
                    y, NoValue, Freed(Malloc(heap), v.buf))
         ELSE Moves(x, [v EXCEPT !.items = Append(@, value[y])], y, NoValue, heap)

\* A value moves into a box in another variable, inline or in memory of its own.
Boxed(x, y, box, inline) ==
  /\ x # y /\ Free(x) /\ ~Free(y)
  /\ Moves(x, [box EXCEPT !.of = value[y].type, !.buf = IF inline THEN NULL ELSE Fresh(heap),
                          !.items = Append(@, value[y])],
           y, NoValue, IF inline THEN heap ELSE Malloc(heap))

\* cubs_option_take, cubs_result_take_ok and cubs_error_take_metadata free the memory
\* that the value was in.
Unboxed(h, v) == IF v.buf = NULL THEN h ELSE Freed(h, v.buf)

\* cubs_option_init.
NewOption(x, y) ==
  Boxed(x, y, [NoValue EXCEPT !.type = "option"], Inline(value[y].type, OptionRoom))
NewNull(x, of) == Free(x) /\ Sets(x, [NoValue EXCEPT !.type = "option", !.of = of], heap)

\* cubs_option_take.
TakeOption(x, y) ==
  LET v == value[x]
  IN  /\ x # y /\ Free(y) /\ v.type = "option" /\ v.items # << >>
      /\ Moves(x, NoValue, y, v.items[1], Unboxed(heap, v))

\* cubs_error_init, without and with metadata.
NewError(x) == Free(x) /\ Sets(x, [NoValue EXCEPT !.type = "error", !.items = <<StringOf(heap, 2)>>],
                               Malloc(heap))
NewErrorWith(x, y) ==
  LET h == Malloc(heap)
  IN  /\ x # y /\ Free(x) /\ ~Free(y)
      /\ Moves(x, [NoValue EXCEPT !.type = "error", !.of = value[y].type, !.buf = Fresh(h),
                                  !.items = <<StringOf(heap, 2), value[y]>>],
               y, NoValue, Malloc(h))

\* cubs_error_take_metadata: the context stays.
TakeMetadata(x, y) ==
  LET v == value[x]
  IN  /\ x # y /\ Free(y) /\ v.type = "error" /\ v.buf # NULL
      /\ Moves(x, [v EXCEPT !.buf = NULL, !.items = <<@[1]>>], y, v.items[2], Unboxed(heap, v))

\* cubs_result_init_ok and cubs_result_init_err.
NewOk(x, y) == Boxed(x, y, [NoValue EXCEPT !.type = "result"], Inline(value[y].type, ResultRoom))
NewErr(x, y) ==
  value[y].type = "error" /\ Boxed(x, y, [NoValue EXCEPT !.type = "result", !.n = 1], TRUE)

\* cubs_result_take_ok and cubs_result_take_err.
TakeResult(x, y) ==
  LET v == value[x]
  IN  /\ x # y /\ Free(y) /\ v.type = "result" /\ v.items # << >>
      /\ Moves(x, NoValue, y, v.items[1], Unboxed(heap, v))

\* cubs_context_fast_clone and cubs_context_fast_deinit, by the host.
Clone(x, y) ==
  /\ Free(y) /\ ~Free(x) /\ Clonable(value[x])
  /\ Sets(y, Cloned(heap, value[x]).value, Cloned(heap, value[x]).heap)
Deinit(x) == ~Free(x) /\ Sets(x, NoValue, Deinited(heap, value[x]))

Next ==
  \/ \E x \in Variables :
       \/ NewPlain(x) \/ NewString(x) \/ NewOwner(x) \/ NewError(x) \/ Deinit(x)
       \/ \E of \in {"int", "string", "owner"} : NewArray(x, of) \/ NewNull(x, of)
  \/ \E x, y \in Variables :
       \/ Push(x, y) \/ NewOption(x, y) \/ TakeOption(x, y) \/ NewErrorWith(x, y)
       \/ TakeMetadata(x, y) \/ NewOk(x, y) \/ NewErr(x, y) \/ TakeResult(x, y) \/ Clone(x, y)

Spec == Init /\ [][Next]_<<heap, value>>
-----------------------------------------------------------------------------
RECURSIVE References(_, _)
\* How often a value and those in it hold a block.
References(v, b) ==
  FoldSeq(LAMBDA item, n : n + References(item, b), IF v.buf = b THEN 1 ELSE 0, v.items)

\* Every block has as many references as values hold it, one unless it is a long
\* string's, and none is freed twice; lost are only those of options whose type has
\* no destructor.
OwnedOnce ==
  /\ ~heap.wrong
  /\ \A b \in Blocks :
       LET held == FoldFunction(LAMBDA v, n : n + References(v, b), 0, value)
       IN  held = IF b \in DOMAIN heap.refs THEN heap.refs[b] ELSE 0

\* A clone is equal to the value and has its hash, and when it is destroyed the heap
\* is what it was before, but for what options lose; equal values of the same type
\* have equal hashes.
ClonesEqual ==
  /\ \A x \in Variables :
       Clonable(value[x]) =>
         LET c == Cloned(heap, value[x])
             h == Deinited(c.heap, c.value)
         IN  /\ Eql(value[x], c.value) /\ ValueHash(value[x]) = ValueHash(c.value)
             /\ ~h.wrong
             /\ h.refs = heap.refs
  /\ \A x, y \in Variables :
       value[x].type = value[y].type /\ value[x].of = value[y].of /\ Eql(value[x], value[y]) =>
         ValueHash(value[x]) = ValueHash(value[y])
=============================================================================
