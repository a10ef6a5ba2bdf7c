----------------------------- MODULE Interpreter -----------------------------
(***************************************************************************)
(* Threads that execute script functions: src/src/interpreter/interpreter.c *)
(* on the stack of stack.c, with the calls of                              *)
(* src/src/program/function_call_args.c.                                   *)
(*                                                                         *)
(* A thread is a record: the fields of its thread-local stack, the         *)
(* instruction pointer, and `calls', the C activations of                  *)
(* cubs_interpreter_execute_function and of C functions, with what a C     *)
(* function keeps in local variables and what execute_operation will set   *)
(* the instruction pointer to when the call returns.  A step executes one  *)
(* operation, or one call a C function makes into the interpreter.         *)
(*                                                                         *)
(* An owned OBJECT is a string, a container or a handle of a shared value; *)
(* a value of such a type holds its id.  The value behind a handle is in   *)
(* `shared', where all threads see it.  A sync instruction enters its      *)
(* block with all locks or waits, as SyncQueue does by ImplementsSyncBlocks. *)
(***************************************************************************)
EXTENDS Stack

CONSTANTS
  Threads,
  Scenarios,     \* a sequence of programs, with what each thread executes
  MaxFrameLength, ImmediateBits, JumpBits,
  IntMin, IntMax,
  MembersOf      \* MembersOf[type]: the [slot, type] of its members, in order

Code == INSTANCE Bytecode

\* The interpreter validates no bytecode: it executes what the builders of functions
\* give it.  Every instruction is one that its encoder makes, with the fields that are
\* read and the words they lead to behind it; it begins where one before it ends or
\* jumps to; and calls of functions that are known by name have their function.
Decodable(code, at, functions) ==
  LET w == code[at]
  IN  /\ Code!Operands(w)
      /\ w.op = "add" => w \in Code!AddOperands
      /\ w.op = "increment" =>
           w \in Code!IncrementOperands
      /\ w.op = "call" =>
           /\ w.opType = "immediate" => code[at + 1].value \in functions
           /\ Code!HasSources(code, IF w.opType = "immediate" THEN at + 2 ELSE at + 1, w.argCount,
                              Code!StackOperand)
      /\ w.op = "sync" /\ w.opType = "sync" =>
           Code!HasSources(code, at + 1, w.num - 2, Code!LockSources)

WellFormedFunction(fn, functions) ==
  \/ /\ fn.kind = "c" /\ 1 \in DOMAIN fn.code /\ DOMAIN fn.code \subseteq Nat
     /\ \A i \in DOMAIN fn.code :
          /\ fn.code[i].do # "end" => i + 1 \in DOMAIN fn.code
          /\ fn.code[i].do = "pass" => fn.code[i].function \in functions
          /\ fn.code[i].do = "take" => fn.code[i].arg \in 1 .. PositionsPerWord
  \/ /\ fn.kind = "script" /\ fn.space \in Nat
     /\ 1 \in fn.starts /\ fn.starts \subseteq Nat
     /\ \A at \in fn.starts : /\ Decodable(fn.code, at, functions)
                             /\ \A next \in Code!Successors(fn.code, at) : next \in fn.starts

\* A value of a type, with as many words as it has slots.
IsValue(v) ==
  /\ v.type \in DOMAIN SizeOf \ {"none"}
  /\ v.words = [j \in 1 .. SlotsOf(v.type) |-> v.words[j]]

WellFormed(p) ==
  /\ \A f \in DOMAIN p.functions : WellFormedFunction(p.functions[f], DOMAIN p.functions)
  /\ \A t \in Threads :
       LET start == p.start[t]
       IN  /\ start.function \in DOMAIN p.functions \cup {"none"}
           /\ start.returnDst \in {NULL} \cup (StackSlots .. StackSlots + HostSlots - 1)
           /\ Len(start.args) \in Nat /\ DOMAIN start.args = 1 .. Len(start.args)
           /\ \A i \in 1 .. Len(start.args) :
                IsValue(start.args[i])

ASSUME MaxFrameLengthAssumption == MaxFrameLength \in Nat

ASSUME MembersAssumption ==
  \A type \in DOMAIN SizeOf :
    /\ Len(MembersOf[type]) \in Nat /\ DOMAIN MembersOf[type] = 1 .. Len(MembersOf[type])
    /\ \A i \in 1 .. Len(MembersOf[type]) : MembersOf[type][i].slot \in Nat

ASSUME ProgramsWellFormed ==
  LET scenarios == Scenarios
  IN  \A i \in DOMAIN scenarios : WellFormed(scenarios[i])

VARIABLES
  program,       \* its functions, and what each thread starts: one of Scenarios
  threads,
  shared,        \* the words of every shared value
  held           \* held[t]: the sync blocks t is in, each a set of [object, mode]

vars == <<program, threads, shared, held>>

HandleTypes == {"unique", "shared", "weak"}
ReferenceTypes == {"constRef", "mutRef"} \cup HandleTypes

Function(m) == program.functions[m.ip.function]
Word(m) == Function(m).code[m.ip.at]
Top(m) == m.calls[Len(m.calls)]

\* The slots with a value of their own, on any frame or beyond.
OwningSlots(m) == {a \in Memory : m.contexts[a].type # "none" /\ m.contexts[a].owning}

ObjectsAt(m, a) == ObjectsIn(WordsAt(m.stack, a, SlotsOf(m.contexts[a].type)))

\* Ghosts: the objects the program itself gives up the ownership of, by writing
\* over a value that owns them or by copying or destroying one it only refers to.
Excused(m, ids) == [m EXCEPT !.excused = @ \cup ids]

WrittenOver(m, at, n) ==
  UNION {ObjectsAt(m, a) : a \in {b \in OwningSlots(m) :
            b <= at + n - 1 /\ at <= b + SlotsOf(m.contexts[b].type) - 1}}

NotOwned(m, offset) ==
  IF m.contexts[At(m, offset)].owning THEN {} ELSE ObjectsIn(ValueAt(m, offset))
-----------------------------------------------------------------------------
(***************************************************************************)
(* Values.                                                                 *)
(***************************************************************************)

\* A new value of a type that owns an object, and the thread with that object.
NewId(m) == Len(m.objects) + 1

WithObject(m, content, pointee) ==
  [m EXCEPT !.objects = Append(@, [content |-> content, destroyed |-> 0, pointee |-> pointee])]

ObjectWords(id, type) == [i \in 1 .. SlotsOf(type) |-> <<"object", id, i - 1>>]

\* cubs_context_fast_clone: a string gets an object of its own, and so does a
\* handle, for the same shared value; other words are copied.
Cloned(m, words) ==
  IF ObjectsIn(words) = {} THEN [m |-> m, words |-> words]
  ELSE LET old == CHOOSE id \in ObjectsIn(words) : TRUE
       IN  [m |-> WithObject(m, m.objects[old].content, m.objects[old].pointee),
            words |-> [i \in DOMAIN words |->
                         IF words[i][1] = "object" THEN <<"object", NewId(m), words[i][3]>>
                         ELSE words[i]]]

\* What cubs_context_fast_eql and cubs_context_fast_compare compare.
Content(m, words) ==
  CASE words[1][1] = "object" -> m.objects[words[1][2]].content
    [] words[1][1] = "bool" -> IF words[1][2] THEN 1 ELSE 0
    [] OTHER -> words[1][2]

\* The type and the place a reference or a handle leads to.
PointeeType(words) == words[2][2]

Pointee(m, words) ==
  IF words[1][1] = "ref"
  THEN WordsAt(m.stack, words[1][2], SlotsOf(PointeeType(words)))
  ELSE shared[m.objects[words[1][2]].pointee]

\* Writes a value, with its context, into a slot.
Stored(m, dst, words, type) ==
  SetContext([Excused(m, WrittenOver(m, At(m, dst), Len(words)))
                EXCEPT !.stack = Copied(@, At(m, dst), words)],
             dst, OwningContext(type))

\* The same for a value that is only referred to.
StoredReference(m, dst, words, type) ==
  SetContext([Excused(m, WrittenOver(m, At(m, dst), Len(words)))
                EXCEPT !.stack = Copied(@, At(m, dst), words)],
             dst, ReferenceContext(type))

Advanced(m, n) == [m EXCEPT !.ip.at = @ + n]
-----------------------------------------------------------------------------
(***************************************************************************)
(* Calls and returns.                                                      *)
(***************************************************************************)

\* cubs_function_call: the start of cubs_interpreter_execute_function, or the
\* frame of a C function.  `args' is a ghost, what the caller passed.
Entered(call, f, returnDst, args) ==
  LET fn == program.functions[f]
      m == PushFrame(call.m, IF fn.kind = "script" THEN fn.space ELSE call.offset,
                     returnDst, returnDst)
  IN  Checked(m, /\ fn.kind = "c" \/ (call.count = Len(fn.args) /\ call.offset <= fn.space)
                 /\ m.frame.length <= MaxFrameLength,
              [m EXCEPT
                 !.ip = IF fn.kind = "script" THEN [function |-> f, at |-> 1] ELSE @,
                 !.calls = Append(@, [function |-> f, resume |-> call.resume, frame |-> m.frame,
                                      args |-> args, offset |-> call.offset, pc |-> 1,
                                      locals |-> << >>])])

\* A call whose own return resumes at `resume'.
Call(m, f, args, returnDst, resume) ==
  LET call == PushedArgs(m, program.functions[f].kind, args)
  IN  Entered([m |-> call.m, offset |-> call.offset, count |-> call.count, resume |-> resume],
              f, returnDst, args)

\* The end of a function, its frame gone: the host has its answer, a C function
\* goes on, or execute_operation sets the instruction pointer behind the call.
\* Neither of the callers looks at the error.
Finished(m, err) ==
  LET top == Top(m)
      calls == Front(m.calls)
  IN  IF calls = << >>
      THEN [m EXCEPT !.calls = calls, !.status = IF err THEN "error" ELSE "ended"]
      ELSE IF program.functions[calls[Len(calls)].function].kind = "c"
      THEN [m EXCEPT !.calls = [calls EXCEPT ![Len(calls)].pc = calls[Len(calls)].pc + 1]]
      ELSE [m EXCEPT !.calls = calls, !.ip = top.resume]

\* A function that ends with a runtime error: the rest of
\* cubs_interpreter_execute_function.
Failed(m) == Finished(PopFrame(Unwound(m)), TRUE)

\* A mutant: the last, partly filled word is not counted.
SourceWordsFull(n) == n \div 4

\* The words behind a call or a sync that hold n sources, four to a word.
SourceWords(n) == IF n % 4 = 0 THEN n \div 4 ELSE n \div 4 + 1

Sources(m, from, n) ==
  [i \in 1 .. n |-> Function(m).code[m.ip.at + from + (i - 1) \div 4].quad[1 + ((i - 1) % 4)]]

\* execute_return.  Only the context at the destination itself is set, and as
\* one that owns the value.
Returned(m) ==
  LET w == Word(m)
      type == ContextAt(m, w.returnSrc)
      dst == m.frame.returnValue
      lost == WrittenOver(m, dst, SlotsOf(type)) \cup NotOwned(m, w.returnSrc)
  IN  IF ~w.hasReturn THEN Finished(PopFrame(Unwound(m)), FALSE)
      ELSE Checked(m, dst # NULL /\ HasValue(m, w.returnSrc),
             Finished(PopFrame(Unwound(
               [SetNull(Excused(m, lost), w.returnSrc)
                  EXCEPT !.stack = Copied(@, dst, ValueAt(m, w.returnSrc)),
                         !.contexts[m.frame.returnContext] = OwningContext(type)])), FALSE))

\* execute_call.  The caller's slots keep the contexts of the arguments.
Called(m) ==
  LET w == Word(m)
      direct == w.opType = "immediate"
      srcs == Sources(m, IF direct THEN 2 ELSE 1, w.argCount)
      length == (IF direct THEN 2 ELSE 1) + SourceWords(w.argCount)
      f == IF direct THEN Function(m).code[m.ip.at + 1].value
           ELSE ValueAt(m, w.funcSrc)[1][2]
      args == [i \in DOMAIN srcs |-> [words |-> ValueAt(m, srcs[i]),
                                      type |-> ContextAt(m, srcs[i])]]
      owned == UNION {ObjectsIn(args[i].words) : i \in DOMAIN args}
  IN  Checked(m, /\ ~direct => HasValue(m, w.funcSrc) /\ ContextAt(m, w.funcSrc) = "function"
                 /\ \A i \in DOMAIN srcs : HasValue(m, srcs[i])
                 /\ w.hasReturn => InFrame(m, {w.returnDst}),
              Call(Excused(m, owned), f, args,
                   IF w.hasReturn THEN At(m, w.returnDst) ELSE NULL,
                   [m.ip EXCEPT !.at = @ + length]))
-----------------------------------------------------------------------------
(***************************************************************************)
(* The other operations.                                                   *)
(***************************************************************************)

DefaultWords(tag) == IF tag = "map" THEN 2 ELSE IF tag \in {"array", "set", "option"} THEN 1 ELSE 0

\* The default of a type; an option gets the context of a set.
LoadedDefault(m, w) ==
  CASE w.tag = "bool" -> Stored(m, w.dst, << <<"bool", FALSE>> >>, "bool")
    [] w.tag \in {"int", "float"} -> Stored(m, w.dst, << <<w.tag, 0>> >>, w.tag)
    [] w.tag \in {"string", "array", "set", "map", "option"} ->
         LET type == IF w.tag = "option" THEN "set" ELSE w.tag
         IN  Stored(WithObject(m, 0, NULL), w.dst, ObjectWords(NewId(m), type), type)
    [] OTHER -> [m EXCEPT !.status = "aborted"]

\* execute_load.
Loaded(m) ==
  LET w == Word(m)
      next(i) == Function(m).code[m.ip.at + i].value
  IN  Checked(m, InFrame(m, {w.dst}),
        CASE w.loadType = "immediate" ->
               Advanced(Stored(m, w.dst,
                          << IF w.immediateType = "bool" THEN <<"bool", w.immediate # 0>>
                             ELSE <<"int", w.immediate>> >>, w.immediateType), 1)
          [] w.loadType = "immediateLong" ->
               Checked(m, w.tag # "bool",
                       Advanced(Stored(m, w.dst, << <<w.tag, next(1)>> >>, w.tag), 2))
          [] w.loadType = "default" -> Advanced(LoadedDefault(m, w), 1 + DefaultWords(w.tag))
          [] w.loadType = "cloneFromPtr" ->
               LET clone == Cloned(m, WordsAt(m.stack, next(1), SlotsOf(next(2))))
               IN  Advanced(Stored(clone.m, w.dst, clone.words, next(2)), 3))

\* execute_jump.
Jumped(m) ==
  LET w == Word(m)
      taken == \/ w.opType = "default"
               \/ ValueAt(m, w.optSrc)[1][2] = (w.opType = "ifTrue")
  IN  Checked(m, w.opType # "default" => InFrame(m, {w.optSrc}) /\ ContextAt(m, w.optSrc) = "bool",
              Advanced(m, IF taken THEN w.jumpAmount ELSE 1))

HasDestructor(type) == type \in {"string", "array", "set", "map", "struct"} \cup HandleTypes

\* execute_deinit, whether the slot owns its value or refers to it.
DeinitDone(m) ==
  LET src == Word(m).src
  IN  Checked(m, HasValue(m, src),
              Advanced(IF HasDestructor(ContextAt(m, src))
                       THEN SetNull(Deinited(Excused(m, NotOwned(m, src)), ValueAt(m, src),
                                             ContextAt(m, src)), src)
                       ELSE m, 1))

\* A mutant: the source keeps its context.
MovedAsCopy(m) ==
  LET w == Word(m)
  IN  Checked(m, HasValue(m, w.src) /\ InFrame(m, {w.dst}),
              Advanced(Stored(m, w.dst, ValueAt(m, w.src), ContextAt(m, w.src)), 1))

\* execute_move.  The destination owns what the source may have referred to.
Moved(m) ==
  LET w == Word(m)
      new == Excused(m, NotOwned(m, w.src))
  IN  Checked(m, HasValue(m, w.src) /\ InFrame(m, {w.dst}),
              LET stored == Stored(new, w.dst, ValueAt(m, w.src), ContextAt(m, w.src))
              IN  Advanced(SetNull(stored, w.src), 1))

\* execute_clone.
CloneDone(m) ==
  LET w == Word(m)
      clone == Cloned(m, ValueAt(m, w.src))
  IN  Checked(m, HasValue(m, w.src) /\ InFrame(m, {w.dst}) /\ ContextAt(m, w.src) # "unique",
              Advanced(Stored(clone.m, w.dst, clone.words, ContextAt(m, w.src)), 1))

\* execute_dereference.
Dereferenced(m) ==
  LET w == Word(m)
      ref == ValueAt(m, w.src)
  IN  Checked(m, HasValue(m, w.src) /\ ContextAt(m, w.src) \in ReferenceTypes /\ InFrame(m, {w.dst}),
              Advanced(StoredReference(m, w.dst, Pointee(m, ref), PointeeType(ref)), 1))

\* execute_make_reference.  The slot may have no value: what follows the reference then
\* fails at the NULL context in it.
MadeReference(m) ==
  LET w == Word(m)
  IN  Checked(m, InFrame(m, {w.src, w.dst}),
              Advanced(Stored(m, w.dst,
                         << <<"ref", At(m, w.src)>>, <<"context", ContextAt(m, w.src)>> >>,
                         IF w.mutable THEN "mutRef" ELSE "constRef"), 1))

\* The value whose member is meant: that in the slot, or the one it refers to.
MemberTarget(m, offset) ==
  LET words == ValueAt(m, offset)
  IN  IF ContextAt(m, offset) \in ReferenceTypes
      THEN [type |-> PointeeType(words), words |-> Pointee(m, words)]
      ELSE [type |-> ContextAt(m, offset), words |-> words]

\* execute_get_member.
GotMember(m) ==
  LET w == Word(m)
      target == MemberTarget(m, w.src)
      member == MembersOf[target.type][w.memberIndex + 1]
  IN  Checked(m, /\ HasValue(m, w.src) /\ target.type # "none"
                 /\ Len(MembersOf[target.type]) > w.memberIndex /\ InFrame(m, {w.dst}),
              Advanced(StoredReference(m, w.dst, WordsAt(target.words, member.slot + 1, SlotsOf(member.type)),
                                       member.type), 1))

\* Writes words behind a reference, or into the value of a slot.
WrittenThrough(m, offset, at, words) ==
  LET ref == ValueAt(m, offset)
      place == IF ContextAt(m, offset) \in ReferenceTypes THEN ref[1][2] + at ELSE At(m, offset) + at
      lost == ObjectsIn(WordsAt(m.stack, place, Len(words))) \cup ObjectsIn(words)
  IN  IF ContextAt(m, offset) \in HandleTypes THEN m
      ELSE [Excused(m, lost) EXCEPT !.stack = Copied(@, place, words)]

\* The shared values after the same write.
SharedAfter(m, offset, at, words) ==
  IF ContextAt(m, offset) \in HandleTypes
  THEN [shared EXCEPT ![m.objects[ValueAt(m, offset)[1][2]].pointee] = Copied(@, at + 1, words)]
  ELSE shared

MaySetReference(m) ==
  LET w == Word(m)
  IN  /\ HasValue(m, w.dst) /\ HasValue(m, w.src)
      /\ ContextAt(m, w.dst) \in ReferenceTypes \ {"constRef"}
      /\ ContextAt(m, w.src) = PointeeType(ValueAt(m, w.dst))

MaySetMember(m) ==
  LET w == Word(m)
      type == MemberTarget(m, w.dst).type
  IN  /\ HasValue(m, w.dst) /\ HasValue(m, w.src) /\ type # "none"
      /\ Len(MembersOf[type]) > w.memberIndex
      /\ MembersOf[type][w.memberIndex + 1].type = ContextAt(m, w.src)

\* The six comparisons.
Compared(m) ==
  LET w == Word(m)
      a == Content(m, ValueAt(m, w.src1))
      b == Content(m, ValueAt(m, w.src2))
      result == CASE w.op = "equal" -> a = b
                  [] w.op = "notEqual" -> a # b
                  [] w.op = "less" -> a < b
                  [] w.op = "lessOrEqual" -> a <= b
                  [] w.op = "greater" -> a > b
                  [] w.op = "greaterOrEqual" -> a >= b
  IN  Checked(m, /\ HasValue(m, w.src1) /\ HasValue(m, w.src2) /\ InFrame(m, {w.dst})
                 /\ ContextAt(m, w.src1) = ContextAt(m, w.src2),
              Advanced(Stored(m, w.dst, << <<"bool", result>> >>, "bool"), 1))

InRange(n) == n \in IntMin .. IntMax

\* A mutant: overflow goes unnoticed.
IntegerResultUnchecked(m, opType, dst, src, n) ==
  IF opType = "dst" THEN Advanced(Stored(m, dst, << <<"int", n>> >>, "int"), 1)
  ELSE Advanced([m EXCEPT !.stack = Copied(@, At(m, src), << <<"int", n>> >>)], 1)

\* An integer result goes into a destination or, without a context, into the
\* slot of the first source.
IntegerResult(m, opType, dst, src, n) ==
  IF ~InRange(n) THEN Failed(Advanced(m, 1))
  ELSE IF opType = "dst" THEN Advanced(Stored(m, dst, << <<"int", n>> >>, "int"), 1)
  ELSE Advanced([m EXCEPT !.stack = Copied(@, At(m, src), << <<"int", n>> >>)], 1)

\* The destination of an increment is read where an addition has its own, behind all
\* that an increment stores.
IncrementDestination == 0

\* execute_increment.
Incremented(m) ==
  LET w == Word(m)
  IN  Checked(m, HasValue(m, w.src) /\ ContextAt(m, w.src) = "int" /\ ~w.canOverflow,
              IntegerResult(m, w.opType,
                            IF w.opType = "dst" THEN IncrementDestination ELSE w.src, w.src,
                            ValueAt(m, w.src)[1][2] + 1))

\* The floats of execute_add, whose values are integers here that always fit.
FloatSum(m, w, n) ==
  IF w.opType = "dst" THEN Stored(m, w.dst, << <<"float", n>> >>, "float")
  ELSE [m EXCEPT !.stack = Copied(@, At(m, w.src1), << <<"float", n>> >>)]

\* The strings of execute_add.
Concatenated(m, w) ==
  LET content == Content(m, ValueAt(m, w.src1)) + Content(m, ValueAt(m, w.src2))
      new == WithObject(m, content, NULL)
      words == ObjectWords(NewId(m), "string")
  IN  IF w.opType = "dst" THEN Stored(new, w.dst, words, "string")
      ELSE [Deinited(Excused(new, NotOwned(m, w.src1)), ValueAt(m, w.src1), "string")
              EXCEPT !.stack = Copied(@, At(m, w.src1), words)]

\* execute_add.
Added(m) ==
  LET w == Word(m)
      a == ValueAt(m, w.src1)
      b == ValueAt(m, w.src2)
      type == ContextAt(m, w.src1)
  IN  Checked(m, /\ HasValue(m, w.src1) /\ HasValue(m, w.src2)
                 /\ w.opType = "dst" => InFrame(m, {w.dst})
                 /\ ContextAt(m, w.src2) = type /\ type \in {"int", "float", "string"}
                 /\ type = "int" => ~w.canOverflow,
              IF type = "string" THEN Advanced(Concatenated(m, w), 1)
              ELSE IF type = "float" THEN Advanced(FloatSum(m, w, a[1][2] + b[1][2]), 1)
              ELSE IntegerResult(m, w.opType, IF w.opType = "dst" THEN w.dst ELSE w.src1, w.src1,
                                 a[1][2] + b[1][2]))
-----------------------------------------------------------------------------
(***************************************************************************)
(* Steps of a thread.                                                      *)
(***************************************************************************)

Executing(t, ops) ==
  LET m == threads[t]
  IN  /\ m.status = "running"
      /\ program.functions[Top(m).function].kind = "script"
      /\ Word(m).op \in ops

Becomes(t, m) == threads' = [threads EXCEPT ![t] = m] /\ UNCHANGED program

Nop(t) ==
  /\ Executing(t, {"nop"})
  /\ Becomes(t, Advanced(threads[t], 1))
  /\ UNCHANGED <<shared, held>>

Load(t) ==
  /\ Executing(t, {"load"})
  /\ Becomes(t, Loaded(threads[t]))
  /\ UNCHANGED <<shared, held>>

Return(t) ==
  /\ Executing(t, {"return"})
  /\ Becomes(t, Returned(threads[t]))
  /\ UNCHANGED <<shared, held>>

DoCall(t) ==
  /\ Executing(t, {"call"})
  /\ Becomes(t, Called(threads[t]))
  /\ UNCHANGED <<shared, held>>

Jump(t) ==
  /\ Executing(t, {"jump"})
  /\ Becomes(t, Jumped(threads[t]))
  /\ UNCHANGED <<shared, held>>

\* execute_deinit, execute_move and execute_clone.
DeinitMoveClone(t) ==
  /\ \/ Executing(t, {"deinit"}) /\ Becomes(t, DeinitDone(threads[t]))
     \/ Executing(t, {"move"}) /\ Becomes(t, Moved(threads[t]))
     \/ Executing(t, {"clone"}) /\ Becomes(t, CloneDone(threads[t]))
  /\ UNCHANGED <<shared, held>>

\* execute_dereference, execute_make_reference and execute_get_member.
Refer(t) ==
  /\ \/ Executing(t, {"dereference"}) /\ Becomes(t, Dereferenced(threads[t]))
     \/ Executing(t, {"makeReference"}) /\ Becomes(t, MadeReference(threads[t]))
     \/ Executing(t, {"getMember"}) /\ Becomes(t, GotMember(threads[t]))
  /\ UNCHANGED <<shared, held>>

\* execute_set_reference: the source keeps its context.
SetReference(t) ==
  LET m == threads[t]
      words == ValueAt(m, Word(m).src)
  IN  /\ Executing(t, {"setReference"})
      /\ Becomes(t, Checked(m, MaySetReference(m),
                            Advanced(WrittenThrough(m, Word(m).dst, 0, words), 1)))
      /\ shared' = IF MaySetReference(m) THEN SharedAfter(m, Word(m).dst, 0, words) ELSE shared
      /\ UNCHANGED held

\* execute_set_member, likewise.
SetMember(t) ==
  LET m == threads[t]
      words == ValueAt(m, Word(m).src)
      slot == MembersOf[MemberTarget(m, Word(m).dst).type][Word(m).memberIndex + 1].slot
  IN  /\ Executing(t, {"setMember"})
      /\ Becomes(t, Checked(m, MaySetMember(m),
                            Advanced(WrittenThrough(m, Word(m).dst, slot, words), 1)))
      /\ shared' = IF MaySetMember(m) THEN SharedAfter(m, Word(m).dst, slot, words) ELSE shared
      /\ UNCHANGED held

Compare(t) ==
  /\ Executing(t, Code!CompareOps)
  /\ Becomes(t, Compared(threads[t]))
  /\ UNCHANGED <<shared, held>>

\* execute_increment and execute_add.
Arithmetic(t) ==
  /\ \/ Executing(t, {"increment"}) /\ Becomes(t, Incremented(threads[t]))
     \/ Executing(t, {"add"}) /\ Becomes(t, Added(threads[t]))
  /\ UNCHANGED <<shared, held>>

\* sync_value_at: what a lock source asks for, through a reference if it is one.
LockTarget(m, offset) ==
  LET words == ValueAt(m, offset)
  IN  IF ContextAt(m, offset) \in {"constRef", "mutRef"}
      THEN [type |-> PointeeType(words), words |-> Pointee(m, words)]
      ELSE [type |-> ContextAt(m, offset), words |-> words]

MayLock(m, source) ==
  /\ HasValue(m, source.src)
  /\ LockTarget(m, source.src).type \in HandleTypes
  /\ source.lock = "write" => ContextAt(m, source.src) # "constRef"

LockSources(m) ==
  LET w == Word(m)
  IN  <<w.src1>> \o (IF w.num > 1 THEN <<w.src2>> ELSE << >>)
      \o (IF w.num > 2 THEN Sources(m, 1, w.num - 2) ELSE << >>)

\* A request for an object that was requested before is dropped.
Requests(m) ==
  FoldLeft(LAMBDA rs, source :
             LET object == m.objects[LockTarget(m, source.src).words[1][2]].pointee
             IN  IF \E r \in rs : r.object = object THEN rs
                 ELSE rs \cup {[object |-> object, mode |-> source.lock]},
           {}, LockSources(m))

\* A mutant: two writers do not exclude each other.
ConflictsReadersOnly(requests, u) ==
  \E block \in ToSet(held[u]) : \E r \in requests, s \in block :
    r.object = s.object /\ r.mode # s.mode

Conflicts(requests, u) ==
  \E block \in ToSet(held[u]) : \E r \in requests, s \in block :
    r.object = s.object /\ "write" \in {r.mode, s.mode}

\* execute_sync: all requests are queued, and their locks taken.
Sync(t) ==
  LET m == threads[t]
      may == \A source \in ToSet(LockSources(m)) : MayLock(m, source)
  IN  /\ Executing(t, {"sync"}) /\ Word(m).opType = "sync"
      /\ may => \A u \in Threads : ~Conflicts(Requests(m), u)
      /\ Becomes(t, Checked(m, may,
           Advanced(m, IF Word(m).num > 2 THEN 1 + SourceWords(Word(m).num - 2) ELSE 1)))
      /\ held' = IF may THEN [held EXCEPT ![t] = Append(@, Requests(m))] ELSE held
      /\ UNCHANGED shared

\* A mutant: the locks of the block are kept.
UnsyncKeepingLocks(t) ==
  /\ Executing(t, {"sync"}) /\ Word(threads[t]).opType = "unsync"
  /\ held[t] # << >>
  /\ Becomes(t, Advanced(threads[t], 1))
  /\ UNCHANGED <<shared, held>>

\* The unsync half of execute_sync.
Unsync(t) ==
  /\ Executing(t, {"sync"}) /\ Word(threads[t]).opType = "unsync"
  /\ held[t] # << >>
  /\ Becomes(t, Advanced(threads[t], 1))
  /\ held' = [held EXCEPT ![t] = Front(@)]
  /\ UNCHANGED shared
-----------------------------------------------------------------------------
(***************************************************************************)
(* C functions: what their bodies do with the interpreter.                 *)
(***************************************************************************)

\* cubs_function_take_arg, from 1: the value moves into a local variable.
Taken(m, i) ==
  LET top == Top(m)
      position == ArgPosition(m, top.frame.base, top.offset, i)
  IN  Checked(m, i <= Len(top.args) /\ HasValue(m, position),
        SetNull([m EXCEPT !.calls[Len(m.calls)].pc = @ + 1,
                          !.calls[Len(m.calls)].locals =
                             Append(@, [words |-> ValueAt(m, position),
                                        type |-> ContextAt(m, position)])], position))

WithoutLocal(m, i) ==
  [m EXCEPT !.calls[Len(m.calls)].pc = @ + 1,
            !.calls[Len(m.calls)].locals = RemoveAt(@, i)]

\* cubs_function_return_set_value.
Given(m, i) ==
  LET top == Top(m)
      local == top.locals[i]
  IN  Checked(m, top.frame.returnValue # NULL,
        [Excused(WithoutLocal(m, i), WrittenOver(m, top.frame.returnValue, Len(local.words)))
           EXCEPT !.stack = Copied(@, top.frame.returnValue, local.words),
                  !.contexts[top.frame.returnContext] = OwningContext(local.type)])

Dropped(m, i) ==
  LET local == Top(m).locals[i]
  IN  Deinited(WithoutLocal(m, i), local.words, local.type)

\* A call by a C function, which resumes in its next step.
Passed(m, f, i) ==
  LET local == Top(m).locals[i]
      rest == [m EXCEPT !.calls[Len(m.calls)].locals = RemoveAt(@, i)]
  IN  Call(rest, f, <<local>>, NULL, m.ip)

BodyStep(m) == program.functions[Top(m).function].code[Top(m).pc]

\* One step of a C function: it takes an argument, deinitialises or returns one it
\* took, passes one on to a function it calls, or ends.
CStep(t) ==
  LET m == threads[t]
      step == BodyStep(m)
  IN  /\ m.status = "running" /\ program.functions[Top(m).function].kind = "c"
      /\ \/ step.do = "take" /\ Becomes(t, Taken(m, step.arg))
         \/ step.do = "drop" /\ Becomes(t, Dropped(m, step.local))
         \/ step.do = "give" /\ Becomes(t, Given(m, step.local))
         \/ step.do = "pass" /\ Becomes(t, Passed(m, step.function, step.local))
         \/ step.do = "end" /\ Becomes(t, Finished(PopFrame(Unwound(m)), step.error))
      /\ UNCHANGED <<shared, held>>
-----------------------------------------------------------------------------
Step(t) ==
  \/ Nop(t) \/ Load(t) \/ Return(t) \/ DoCall(t) \/ Jump(t) \/ DeinitMoveClone(t) \/ Refer(t)
  \/ SetReference(t) \/ SetMember(t) \/ Compare(t) \/ Arithmetic(t) \/ Sync(t) \/ Unsync(t)
  \/ CStep(t)

\* The host of a thread: it has the objects, the words and the arguments of the
\* scenario, and calls a function unless the thread has nothing to do.
Started(start) ==
  LET new == [ip |-> [function |-> start.function, at |-> 1], calls |-> << >>,
              objects |-> start.objects, excused |-> {},
              status |-> IF start.function = "none" THEN "ended" ELSE "running",
              next |-> NewStack.next, frame |-> NewStack.frame, stack |-> NewStack.stack,
              contexts |-> NewStack.contexts]
      m == IF start.hostType = "none" THEN new
           ELSE [new EXCEPT
                   !.stack = Copied(@, StackSlots, start.hostWords),
                   !.contexts = WithContext(@, StackSlots, OwningContext(start.hostType))]
  IN  IF start.function = "none" THEN m
      ELSE Call(m, start.function, start.args, start.returnDst, m.ip)

Init ==
  /\ LET scenarios == Scenarios
     IN  \E i \in DOMAIN scenarios : program = scenarios[i]
  /\ threads = [t \in Threads |-> Started(program.start[t])]
  /\ shared = program.shared
  /\ held = [t \in Threads |-> << >>]

Next == \E t \in Threads : Step(t)

\* ENABLED Step(t): a thread that has not ended can take its next step, unless it
\* waits for a lock.
MayStep(t) ==
  LET m == threads[t]
  IN  /\ m.status = "running"
      /\ Executing(t, {"sync"}) /\ Word(m).opType = "sync" =>
           \/ \E source \in ToSet(LockSources(m)) : ~MayLock(m, source)
           \/ \A u \in Threads : ~Conflicts(Requests(m), u)
      /\ Executing(t, {"sync"}) /\ Word(m).opType = "unsync" => held[t] # << >>

\* WF_vars(Step(t)) of each thread, with the ENABLED that TLC would be too slow to
\* evaluate: the operating system runs every thread, and locks that are free are got.
Fairness == \A t \in Threads : []<>~MayStep(t) \/ []<><<Step(t)>>_vars

Spec == Init /\ [][Next]_vars /\ Fairness
-----------------------------------------------------------------------------
(***************************************************************************)
(* Properties.                                                             *)
(***************************************************************************)

Alive(m) == m.status \in {"running", "ended", "error"}

WordKinds == {"zero", "int", "float", "bool", "object", "ref", "context", "function",
              "functionType", "ip", "length", "address", "count", "offsets"}

\* Words, contexts and counters have their types; integers are in the range that
\* the overflow checks guard, and the code consists of operands that fit.
TypeOK ==
  /\ \A t \in Threads :
       LET m == threads[t]
       IN  /\ m.status \in {"running", "ended", "error", "aborted"}
           /\ DOMAIN m.stack = Memory /\ DOMAIN m.contexts = Memory
           /\ m.next \in 0 .. StackSlots /\ m.frame.base \in 0 .. StackSlots
           /\ \A a \in Memory :
                /\ m.stack[a][1] \in WordKinds
                /\ m.stack[a][1] = "int" => InRange(m.stack[a][2])
                /\ m.contexts[a].type \in DOMAIN SizeOf \cup {"none"}
           /\ \A c \in DOMAIN m.calls : \A i \in DOMAIN m.calls[c].locals :
                m.calls[c].locals[i].type \in DOMAIN SizeOf
           /\ \A id \in DOMAIN m.objects : m.objects[id].destroyed \in Nat
           /\ held[t] \in Seq(SUBSET [object : DOMAIN shared, mode : {"read", "write"}])
  /\ \A f \in DOMAIN program.functions :
       program.functions[f].kind = "script" =>
         \A at \in program.functions[f].starts : Code!Operands(program.functions[f].code[at])

\* Where an object is owned: slots, the locals of C functions and the host's words.
Owners(m, id) ==
  {<<0, a>> : a \in {b \in OwningSlots(m) : id \in ObjectsAt(m, b)}}
  \cup {p \in (DOMAIN m.calls) \X (1 .. 3) :
          LET locals == m.calls[p[1]].locals
          IN  p[2] \in DOMAIN locals /\ id \in ObjectsIn(locals[p[2]].words)}

\* Every object has exactly one owner until it is destroyed, and none afterwards:
\* moves, clones, returns, C functions and the unwinding of frames, after errors
\* too, neither leak nor destroy twice, and no frame starts with a context that
\* an earlier one left.  Exempt are objects the program itself writes over or
\* copies bit by bit.
OwnedOnce ==
  \A t \in Threads : Alive(threads[t]) =>
    \A id \in DOMAIN threads[t].objects \ threads[t].excused :
      /\ threads[t].objects[id].destroyed \in {0, 1}
      /\ Cardinality(Owners(threads[t], id)) = 1 - threads[t].objects[id].destroyed

\* The first slots of all frames, in which the frames below are saved.
Reserved(m) ==
  UNION {m.calls[c].frame.base .. m.calls[c].frame.base + RESERVED_SLOTS - 1 : c \in DOMAIN m.calls}

\* The slots that the next operation writes to outside of the frame: what a function
\* returns into, or what a reference leads to.
Outside(m) ==
  LET w == Word(m)
      step == BodyStep(m)
      slots(at, words) == {a \in Memory : at <= a /\ a < at + Len(words)}
      referred(at) == slots(ValueAt(m, w.dst)[1][2] + at, ValueAt(m, w.src))
  IN  IF program.functions[Top(m).function].kind = "c"
      THEN IF step.do = "give"
           THEN slots(Top(m).frame.returnValue, Top(m).locals[step.local].words)
           ELSE {}
      ELSE CASE w.op = "return" /\ w.hasReturn ->
                  slots(m.frame.returnValue, ValueAt(m, w.returnSrc))
             [] w.op = "setReference" /\ ContextAt(m, w.dst) = "mutRef" -> referred(0)
             [] w.op = "setMember" /\ ContextAt(m, w.dst) \in {"constRef", "mutRef"} ->
                  referred(MembersOf[MemberTarget(m, w.dst).type][w.memberIndex + 1].slot)
             [] OTHER -> {}

\* The next operation calls the function that is the value of a slot.
CallsValue(m) ==
  LET w == Word(m)
  IN  /\ m.status = "running" /\ program.functions[Top(m).function].kind = "script"
      /\ w.op = "call" /\ w.opType = "src"
      /\ HasValue(m, w.funcSrc) /\ ContextAt(m, w.funcSrc) = "function"

CalleesExist ==
  \A t \in Threads :
    LET m == threads[t]
    IN  CallsValue(m) => ValueAt(m, Word(m).funcSrc)[1][2] \in DOMAIN program.functions

\* A C function uses the local variables that it has.
LocalsExist ==
  \A t \in Threads :
    LET m == threads[t]
    IN  /\ m.status = "running" /\ program.functions[Top(m).function].kind = "c"
        /\ BodyStep(m).do \in {"drop", "give", "pass"}
        => BodyStep(m).local \in DOMAIN Top(m).locals

\* The count and the offsets of the arguments of a C function are on the stack, too.
OffsetsFit ==
  \A t \in Threads :
    LET m == threads[t]
    IN  m.status = "running" /\ program.functions[Top(m).function].kind = "c" =>
          m.next + 2 <= StackSlots

\* What no check of the interpreter ensures, and what it needs of a program: a value
\* that is called is a function, a C function uses locals that it has, there is room on
\* the stack for the offsets of what it was passed, and a value that is returned, or
\* written through a reference, does not go beyond the slots that are there for it and
\* into those where a frame is saved.
TrustKept ==
  /\ CalleesExist /\ LocalsExist /\ OffsetsFit
  /\ \A t \in Threads :
       threads[t].status = "running" => Outside(threads[t]) \cap Reserved(threads[t]) = {}

\* The current frame, and all that are saved below it, are those that were pushed
\* for the calls that have not returned, and lie one behind the other.
FramesMatchCalls ==
  \A t \in Threads :
    LET m == threads[t]
        frame(i) == m.calls[i].frame
    IN  Alive(m) =>
        /\ m.calls = << >> => m.next = 0
        /\ m.calls # << >> => /\ m.frame = Top(m).frame
                             /\ m.next = m.frame.base + m.frame.length + RESERVED_SLOTS
        /\ \A i \in 2 .. Len(m.calls) :
             /\ frame(i).base = frame(i - 1).base + frame(i - 1).length + RESERVED_SLOTS
             /\ [j \in 1 .. 3 |-> m.stack[frame(i).base + j][2]] =
                  <<frame(i - 1).length, frame(i - 1).returnValue, frame(i - 1).returnContext>>

\* The slots of values that lie one behind the other.
ArgSlots(args) ==
  LET slot[i \in 1 .. Len(args) + 1] ==
        IF i = 1 THEN 0 ELSE slot[i - 1] + SlotsOf(args[i - 1].type)
  IN  slot

\* The function that executes has what it was passed in its first slots.
ArgsInSlots(m) ==
  LET args == Top(m).args
  IN  Alive(m) /\ m.calls # << >> =>
        \A i \in 1 .. Len(args) : /\ ContextAt(m, ArgSlots(args)[i]) = args[i].type
                                 /\ ValueAt(m, ArgSlots(args)[i]) = args[i].words

\* A C function has called another before its next step.
HasCalled(c) ==
  LET code == program.functions[c.function].code
  IN  \E i \in DOMAIN code : i < c.pc /\ code[i].do = "pass"

\* A C function takes an argument.
Takes(t) ==
  LET m == threads[t]
  IN  /\ m.status = "running" /\ program.functions[Top(m).function].kind = "c"
      /\ BodyStep(m).do = "take" /\ threads'[t] # m /\ Alive(threads'[t])

\* What it has then is what it was passed at that position.
TakesWhatWasPassed(t) ==
  LET local == Last(Top(threads'[t]).locals)
      arg == Top(threads[t]).args[BodyStep(threads[t]).arg]
  IN  local.words = arg.words /\ local.type = arg.type

\* Every call, of a script function or a C function, by the host or by either, gives
\* the function that is called the values it is passed in its first slots, one behind
\* the other; and what a C function takes before it calls another one, in whatever
\* order and whatever else it did, is the argument that was passed at that position.
ArgumentsArrive ==
  /\ \A t \in Threads : ArgsInSlots(threads[t])
  /\ [][\A t \in Threads :
          /\ Len(threads'[t].calls) > Len(threads[t].calls) => ArgsInSlots(threads'[t])
          /\ Takes(t) /\ ~HasCalled(Top(threads[t])) => TakesWhatWasPassed(t)]_vars

\* The instruction pointer leads to the first word of an instruction of the
\* function that is executing, whatever the length of the instruction before, and
\* after calls that return.
AtInstruction ==
  \A t \in Threads :
    LET m == threads[t]
    IN  m.status = "running" /\ program.functions[Top(m).function].kind = "script" =>
          /\ m.ip.function = Top(m).function
          /\ m.ip.at \in Function(m).starts

\* When all threads have ended, the shared values are what their sync blocks make of
\* them one after the other: no update of a block is lost.
NoLostUpdate ==
  (\A t \in Threads : threads[t].status = "ended") => shared = program.expectedShared

\* A thread that ended normally has left its sync blocks, and every thread ends,
\* unless another failed within a block, whose locks it keeps.
EveryScriptEnds ==
  \A t \in Threads :
    <>(\/ threads[t].status # "running" /\ (threads[t].status = "ended" => held[t] = << >>)
       \/ \E u \in Threads \ {t} : threads[u].status \in {"error", "aborted"} /\ held[u] # << >>)

\* function_call_args.h on cubs_function_take_arg: "Moves the argument at `argIndex` to
\* the memory at `outArg`.  `argIndex` is an array index, in which `0` is the first
\* argument, `1` is the second argument, etc."  Whatever the function did before.
TakesArgAtIndex == [][\A t \in Threads : Takes(t) => TakesWhatWasPassed(t)]_vars

\* bytecode.h on OpCodeDereference: "This results in a non-owning value as a
\* reference, in which `OpCodeDeinit` will not  deinit the value."
DeinitKeepsReferredValues ==
  [][\A t \in Threads :
       Executing(t, {"deinit"}) /\ Alive(threads[t]') =>
         LET m == threads[t]
         IN  ~m.contexts[At(m, Word(m).src)].owning => m.objects' = m.objects]_vars
=============================================================================
