-------------------------------- MODULE Stack --------------------------------
(***************************************************************************)
(* The interpreter's thread-local stack: src/src/interpreter/stack.c.      *)
(*                                                                         *)
(* Two arrays of slots run in parallel, the words of values and the type   *)
(* CONTEXTS that own them.  A frame is four reserved slots, where the      *)
(* frame below is saved, and frameLength slots of its own.  A value of     *)
(* several slots has its context at the first and none at the others.      *)
(* A context is NULL, a type, or a type whose bottom bit says that the     *)
(* value is only referred to: unwinding a frame deinitialises the owned    *)
(* values.                                                                 *)
(*                                                                         *)
(* The operators take the record of a thread and return the new one.  Its  *)
(* fields are those of the C file, `objects', which counts how often each  *)
(* owned object was destroyed, and `status': a failed assertion, or a      *)
(* NULL context that is followed, makes it "aborted".  Words beyond the    *)
(* stack's slots are variables of the host program, the destinations of    *)
(* what its calls return.                                                  *)
(***************************************************************************)
EXTENDS Integers, SequencesExt

CONSTANTS
  StackSlots,    \* CUBS_STACK_SLOTS
  HostSlots,     \* words of the host program
  SizeOf         \* SizeOf[type]: sizeOfType, in bytes

\* Every context the repository declares has a size; "none" is the type of no value.
ASSUME StackAssumption ==
  /\ StackSlots \in Nat /\ HostSlots \in Nat
  /\ \A type \in DOMAIN SizeOf : SizeOf[type] \in Nat /\ (type # "none" => SizeOf[type] > 0)

NULL == 0
RESERVED_SLOTS == 4

\* How many positions of arguments are in a word.
PositionsPerWord == 4

\* A word is a tuple that begins with its kind: no number, or the I-th word of
\* the object with an id, or the address or the context of a reference ...
Zero == <<"zero">>

NoContext == [type |-> "none", owning |-> TRUE]
OwningContext(type) == [type |-> type, owning |-> TRUE]
ReferenceContext(type) == [type |-> type, owning |-> FALSE]

NoFrame == [base |-> 0, length |-> 0, returnValue |-> NULL, returnContext |-> NULL]

Memory == 0 .. StackSlots + HostSlots - 1

\* threadLocalStack = {0}.
NewStack ==
  [next |-> 0, frame |-> NoFrame,
   stack |-> [a \in Memory |-> Zero], contexts |-> [a \in Memory |-> NoContext]]

SlotsOf(type) == (SizeOf[type] + 7) \div 8

\* An assertion of the code.
Checked(m, condition, next) == IF condition THEN next ELSE [m EXCEPT !.status = "aborted"]
-----------------------------------------------------------------------------
(***************************************************************************)
(* Memory.                                                                 *)
(***************************************************************************)

WordsAt(memory, from, n) == [i \in 1 .. n |-> memory[from + i - 1]]

\* memcpy of whole words.
Copied(memory, to, words) ==
  [a \in DOMAIN memory |->
     IF to <= a /\ a < to + Len(words) THEN words[a - to + 1] ELSE memory[a]]

\* A context, and none for the other slots of the value.
WithContext(contexts, at, context) ==
  [a \in DOMAIN contexts |->
     IF a = at THEN context
     ELSE IF a \in at + 1 .. at + (SizeOf[context.type] \div 8) - 1 THEN NoContext
     ELSE contexts[a]]

\* The objects whose first word is among the words.
ObjectsIn(words) ==
  {words[i][2] : i \in {j \in DOMAIN words : words[j][1] = "object" /\ words[j][3] = 0}}

\* cubs_context_fast_deinit: an object of the value is destroyed once more.
Deinited(m, words, type) ==
  [m EXCEPT !.objects =
     [id \in DOMAIN m.objects |->
        IF id \in ObjectsIn(words) THEN [m.objects[id] EXCEPT !.destroyed = @ + 1]
        ELSE m.objects[id]]]
-----------------------------------------------------------------------------
(***************************************************************************)
(* Frames.                                                                 *)
(***************************************************************************)

\* A mutant: the reserved slots are not counted.
PushFrameUnreserved(m, length, returnValue, returnContext) ==
  LET saved == IF m.next = 0
               THEN << <<"ip", NULL>>, <<"length", 0>>, <<"address", NULL>>, <<"address", NULL>> >>
               ELSE << <<"ip", m.ip>>, <<"length", m.frame.length>>,
                       <<"address", m.frame.returnValue>>, <<"address", m.frame.returnContext>> >>
  IN  [m EXCEPT
         !.stack = Copied(@, m.next, saved),
         !.frame = [base |-> m.next, length |-> length,
                    returnValue |-> returnValue, returnContext |-> returnContext],
         !.next = @ + length]

\* cubs_interpreter_push_frame.
PushFrame(m, length, returnValue, returnContext) ==
  LET saved == IF m.next = 0
               THEN << <<"ip", NULL>>, <<"length", 0>>, <<"address", NULL>>, <<"address", NULL>> >>
               ELSE << <<"ip", m.ip>>, <<"length", m.frame.length>>,
                       <<"address", m.frame.returnValue>>, <<"address", m.frame.returnContext>> >>
  IN  [m EXCEPT
         !.stack = Copied(@, m.next, saved),
         !.frame = [base |-> m.next, length |-> length,
                    returnValue |-> returnValue, returnContext |-> returnContext],
         !.next = @ + length + RESERVED_SLOTS]

\* A mutant: the length restored is that of the frame popped.
PopFrameKeepingLength(m) ==
  LET next == m.next - (m.frame.length + RESERVED_SLOTS)
      base == m.frame.base
  IN  IF next = 0 THEN [m EXCEPT !.next = 0]
      ELSE [m EXCEPT
              !.next = next,
              !.frame = [base |-> next - m.frame.length - RESERVED_SLOTS,
                         length |-> m.frame.length,
                         returnValue |-> m.stack[base + 2][2],
                         returnContext |-> m.stack[base + 3][2]]]

\* cubs_interpreter_pop_frame.  The instruction pointer is saved and not restored.
PopFrame(m) ==
  LET next == m.next - (m.frame.length + RESERVED_SLOTS)
      base == m.frame.base
      length == m.stack[base + 1][2]
  IN  IF next = 0 THEN [m EXCEPT !.next = 0]
      ELSE [m EXCEPT
              !.next = next,
              !.frame = [base |-> next - length - RESERVED_SLOTS, length |-> length,
                         returnValue |-> m.stack[base + 2][2],
                         returnContext |-> m.stack[base + 3][2]]]

\* The place of a slot of the current frame.
At(m, offset) == m.frame.base + offset + RESERVED_SLOTS

\* The assertion of every access to a slot.
InFrame(m, offsets) == \A offset \in offsets : offset < m.frame.length

ContextAt(m, offset) == m.contexts[At(m, offset)].type

HasValue(m, offset) == InFrame(m, {offset}) /\ ContextAt(m, offset) # "none"

ValueAt(m, offset) == WordsAt(m.stack, At(m, offset), SlotsOf(ContextAt(m, offset)))

SetNull(m, offset) == [m EXCEPT !.contexts[At(m, offset)] = NoContext]

\* stack_set_context_at; its last assertion adds an offset in slots to a size in
\* bytes.
SetContext(m, offset, context) ==
  Checked(m, /\ context.type # "none" /\ InFrame(m, {offset})
             /\ offset + SizeOf[context.type] < (m.frame.length + 1) * 8,
          [m EXCEPT !.contexts = WithContext(@, At(m, offset), context)])

\* The values at some slots are deinitialised and the slots set to NULL.
Cleared(m, offsets) ==
  [m EXCEPT
     !.contexts = [a \in DOMAIN @ |-> IF \E o \in offsets : a = At(m, o) THEN NoContext ELSE @[a]],
     !.objects = [id \in DOMAIN m.objects |->
        [m.objects[id] EXCEPT !.destroyed =
           @ + Cardinality({o \in offsets : id \in ObjectsIn(ValueAt(m, o))})]]]

\* cubs_interpreter_stack_unwind_frame: the values of the frame that are owned.
Unwound(m) ==
  Cleared(m, {o \in 0 .. m.frame.length - 1 :
                 ContextAt(m, o) # "none" /\ m.contexts[At(m, o)].owning})
-----------------------------------------------------------------------------
(***************************************************************************)
(* Arguments.  They are written where the frame of the callee will be.     *)
(***************************************************************************)

\* cubs_interpreter_push_script_function_arg.
PushScriptArg(m, words, type, offset) ==
  LET at == m.next + RESERVED_SLOTS + offset
  IN  [m EXCEPT !.stack = Copied(@, at, words),
                !.contexts = WithContext(@, at, OwningContext(type))]

\* A mutant: the offset that is tracked is the one behind the argument.
PushCArgLateOffset(m, words, type, offset, count) ==
  LET start == m.next + RESERVED_SLOTS
      at == start + offset
      track == at + SlotsOf(type)
      moved == IF offset > 0
               THEN Copied(m.stack, track, WordsAt(m.stack, start + offset, 2 + count \div 4))
               ELSE m.stack
      offsets == IF count = 0 THEN << >> ELSE moved[track + 1][2]
  IN  [m EXCEPT !.stack = Copied(Copied(moved, at, words), track,
                                 << <<"count", count + 1>>,
                                    <<"offsets", Append(offsets, offset + SlotsOf(type))>> >>),
                !.contexts = WithContext(@, at, OwningContext(type))]

\* cubs_interpreter_push_c_function_arg.  Behind the arguments follow their count
\* and their offsets, four to a word: up to four arguments have one such word.
\* Both are moved on to make room for the next argument.
PushCArg(m, words, type, offset, count) ==
  LET start == m.next + RESERVED_SLOTS
      at == start + offset
      track == at + SlotsOf(type)
      moved == IF offset > 0
               THEN Copied(m.stack, track, WordsAt(m.stack, start + offset, 2 + count \div 4))
               ELSE m.stack
      offsets == IF count = 0 THEN << >> ELSE moved[track + 1][2]
  IN  [m EXCEPT !.stack = Copied(Copied(moved, at, words), track,
                                 << <<"count", count + 1>>, <<"offsets", Append(offsets, offset)>> >>),
                !.contexts = WithContext(@, at, OwningContext(type))]

\* cubs_function_push_arg, for a call with an offset and a count of the arguments
\* so far.
PushArg(call, words, type) ==
  [m |-> IF call.kind = "script"
         THEN PushScriptArg(call.m, words, type, call.offset)
         ELSE PushCArg(call.m, words, type, call.offset, call.count),
   kind |-> call.kind,
   offset |-> call.offset + SlotsOf(type),
   count |-> call.count + 1]

\* cubs_function_start_call.
StartCall(m, kind) == [m |-> m, kind |-> kind, offset |-> 0, count |-> 0]

\* The same with all arguments, as [words, type].
PushedArgs(m, kind, args) ==
  FoldLeft(LAMBDA call, arg : PushArg(call, arg.words, arg.type), StartCall(m, kind), args)

\* The positions that are read from a word: what was tracked behind the arguments, or,
\* where a frame has been pushed since, the length that it saved and three zeros.
Positions(word) ==
  CASE word[1] = "offsets" -> word[2]
    [] word[1] = "length" -> <<word[2], 0, 0, 0>>
    [] OTHER -> << >>

\* cubs_function_take_arg: where the argument is, by the word behind the arguments of
\* the frame at base; no word but those two is ever there.
ArgPosition(m, base, offsetForArgs, i) ==
  LET positions == Positions(m.stack[base + RESERVED_SLOTS + offsetForArgs + 1])
  IN  IF i <= Len(positions) THEN positions[i] ELSE StackSlots
=============================================================================
