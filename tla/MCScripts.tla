------------------------------ MODULE MCScripts ------------------------------
(***************************************************************************)
(* Instances of Interpreter for TLC: programs by hand for each operation,  *)
(* all short programs over a pool of instructions that move, copy and      *)
(* destroy strings, and threads that share values.                         *)
(***************************************************************************)
EXTENDS Interpreter

CONSTANTS t1, t2

LowestInt == -5

Sizes == [none |-> 0, bool |-> 1, int |-> 8, float |-> 8, string |-> 16, array |-> 16,
          set |-> 16, map |-> 16, constRef |-> 16, mutRef |-> 16, unique |-> 16,
          shared |-> 16, weak |-> 16, function |-> 16, struct |-> 24]

StructMembers ==
  [type \in DOMAIN Sizes |->
     IF type = "struct" THEN <<[slot |-> 0, type |-> "int"], [slot |-> 1, type |-> "string"]>>
     ELSE << >>]

Host == StackSlots          \* where a host waits for a result
Constant == StackSlots + 2  \* where it keeps a string for scripts to clone

\* A script function of the instructions, each a sequence of words.
Script(space, args, instructions) ==
  [kind |-> "script", space |-> space, args |-> args, code |-> FlattenSeq(instructions),
   starts |-> {1 + Len(FlattenSeq(SubSeq(instructions, 1, i - 1))) : i \in DOMAIN instructions}]

CFunction(steps) == [kind |-> "c", code |-> steps]

Take(i) == [do |-> "take", arg |-> i]
Drop(i) == [do |-> "drop", local |-> i]
Give(i) == [do |-> "give", local |-> i]
Pass(f, i) == [do |-> "pass", function |-> f, local |-> i]
End(error) == [do |-> "end", error |-> error]

IntArg(n) == [words |-> << <<"int", n>> >>, type |-> "int"]
Object(id, type) == [words |-> << <<"object", id, 0>>, <<"object", id, 1>> >>, type |-> type]
Handle(id) == [words |-> << <<"object", id, 0>>, <<"context", "int">> >>, type |-> "shared"]
Struct(n, id) ==
  [words |-> << <<"int", n>>, <<"object", id, 0>>, <<"object", id, 1>> >>, type |-> "struct"]
FunctionValue(f) ==
  [words |-> << <<"function", f>>, <<"functionType", "script">> >>, type |-> "function"]

New(content) == [content |-> content, destroyed |-> 0, pointee |-> NULL]
NewHandle(o) == [content |-> 0, destroyed |-> 0, pointee |-> o]

Idle == [function |-> "none", args |-> << >>, objects |-> << >>, returnDst |-> NULL,
         hostType |-> "none", hostWords |-> << >>]
Start(f, args, objects, returnDst) ==
  [Idle EXCEPT !.function = f, !.args = args, !.objects = objects, !.returnDst = returnDst]

NoMeaning == [status |-> "none", value |-> 0]

\* One thread that runs a program without shared values.
Alone(functions, start) ==
  [functions |-> functions, start |-> (t1 :> start @@ t2 :> Idle),
   shared |-> << >>, expectedShared |-> << >>, meaning |-> NoMeaning]

\* An increment's operands with its opcode; its encoders store another one.
IncrementAssign(src) ==
  << [op |-> "increment", opType |-> "srcAssign", canOverflow |-> FALSE, src |-> src] >>
IncrementDst(dst, src) ==
  << [op |-> "increment", opType |-> "dst", canOverflow |-> FALSE, src |-> src, dst |-> dst] >>
CallSrc(args, returnDst, funcSrc) ==
  << [Code!MakeCallSrc(args, TRUE, returnDst, funcSrc)[1] EXCEPT !.opType = "src"] >>
  \o Tail(Code!MakeCallSrc(args, TRUE, returnDst, funcSrc))
-----------------------------------------------------------------------------
(***************************************************************************)
(* All programs of three instructions on a string that was passed in slot  *)
(* 0, and what becomes of it: slot 2 or nothing is returned, by turns.     *)
(***************************************************************************)

Pool ==
  << Code!MakeMove(2, 0), Code!MakeMove(0, 2), Code!MakeClone(2, 0), Code!MakeClone(4, 2),
    Code!MakeReference(6, 0, TRUE), Code!MakeDereference(2, 6), Code!MakeSetReference(6, 2),
    Code!MakeDeinit(0), Code!MakeDeinit(2), Code!MakeLoadDefault("string", 4, << >>),
    Code!MakeLoadImmediate("int", 0, 1), Code!MakeAddDst(FALSE, 4, 0, 2),
    Code!MakeAddAssign(FALSE, 0, 2), Code!MakeCompare("equal", 6, 0, 2),
    Code!MakeCallImmediate(<<0>>, TRUE, 4, "script", "callee") >>

Callee == Script(4, <<"string">>, <<Code!MakeClone(2, 0), Code!MakeReturn(TRUE, 2)>>)

Digit(i, n) == Pool[((i \div n) % Len(Pool)) + 1]

ShortProgram(i) ==
  LET n == Len(Pool)
  IN  Alone([main |-> Script(8, <<"string">>,
               << Digit(i, 1), Digit(i, n), Digit(i, n * n), Code!MakeReturn(i % 2 = 0, 2) >>),
             callee |-> Callee],
            Start("main", <<Object(1, "string")>>, <<New(1)>>, Host))
-----------------------------------------------------------------------------
(***************************************************************************)
(* Programs by hand.                                                       *)
(***************************************************************************)

\* A loop that counts to a number, while the counter is less; it overflows when it
\* should go on at IntMax.
Counting(n, while) ==
  Alone([main |-> Script(4, << >>,
           << Code!MakeLoadImmediate("int", 0, 0), Code!MakeLoadImmediateLong("int", 1, n),
              Code!MakeLoadImmediate("int", 2, 1),
              Code!MakeAddAssign(FALSE, 0, 2), << [op |-> "nop"] >>,
              Code!MakeCompare(while, 3, 0, 1), Code!MakeJump("ifTrue", -3, 3),
              Code!MakeCompare("greaterOrEqual", 3, 0, 1), Code!MakeJump("ifFalse", -5, 3),
              Code!MakeJump("default", 2, 0), << [op |-> "nop"] >>,
              Code!MakeReturn(TRUE, 0) >>)],
        Start("main", << >>, << >>, Host))

\* Calls two deep, with arguments of several sizes, six of them in two words, by the
\* function and by its value, and a result that is a string of the callee's.
Nested ==
  Alone([main |-> Script(9, <<"int", "function", "struct">>,
           << Code!MakeLoadImmediate("bool", 6, 1), Code!MakeLoadImmediate("int", 7, 1),
              IncrementDst(7, 0), CallSrc(<<6, 0, 7, 0, 7, 0>>, 6, 1),
              Code!MakeGetMember(8, 3, 0), Code!MakeReturn(TRUE, 6) >>),
         middle |-> Script(10, <<"bool", "int", "int", "int", "int", "int">>,
           << Code!MakeLoadDefault("string", 6, << >>),
              Code!MakeCallImmediate(<<1, 2, 3, 4, 5>>, TRUE, 8, "script", "inner"),
              Code!MakeReturn(TRUE, 6) >>),
         inner |-> Script(6, <<"int", "int", "int", "int", "int">>,
           << Code!MakeCompare("notEqual", 5, 0, 1), Code!MakeCompare("greater", 5, 1, 2),
              Code!MakeCompare("lessOrEqual", 5, 1, 2), Code!MakeReturn(TRUE, 4) >>)],
        Start("main", <<IntArg(1), FunctionValue("middle"), Struct(1, 1)>>, <<New(1)>>, Host))

\* Sums of floats and of strings, in place and elsewhere, and an order of them.
Sums ==
  Alone([main |-> Script(7, <<"string">>,
           << Code!MakeLoadImmediateLong("float", 2, 3), Code!MakeLoadDefault("float", 3, << >>),
              Code!MakeAddDst(FALSE, 4, 2, 2), Code!MakeAddAssign(FALSE, 3, 4),
              Code!MakeCompare("less", 6, 2, 3), Code!MakeAddDst(FALSE, 4, 0, 0),
              Code!MakeJump("ifFalse", 2, 6), Code!MakeAddAssign(FALSE, 4, 0),
              Code!MakeReturn(TRUE, 4) >>)],
        Start("main", <<Object(1, "string")>>, <<New(1)>>, Host))

\* A callee that fails, with a string of its own, and a caller that goes on.
FailingCallee ==
  Alone([main |-> Script(6, <<"string">>,
           << Code!MakeLoadImmediate("int", 2, 1),
              Code!MakeCallImmediate(<<2>>, FALSE, 0, "script", "fails"),
              Code!MakeClone(4, 0), Code!MakeReturn(TRUE, 4) >>),
         fails |-> Script(5, <<"int">>,
           << Code!MakeLoadDefault("string", 1, << >>), Code!MakeLoadImmediate("int", 3, IntMax),
              Code!MakeAddDst(FALSE, 4, 0, 3), Code!MakeReturn(FALSE, 0) >>)],
        Start("main", <<Object(1, "string")>>, <<New(1)>>, Host))

\* A C function that takes its arguments in some order, leaves some to the unwinding,
\* passes one on, and returns one.
CBodies ==
  << << Take(4), Take(2), Take(1), Give(2), End(FALSE) >>,
     << Take(3), Drop(1), Take(2), Pass("next", 1), End(FALSE) >>,
     << Take(2), Take(1), Drop(1), End(TRUE) >>,
     << End(FALSE) >>,
     << Take(2), Pass("next", 1), Take(3), End(FALSE) >> >>

CFunctions ==
  [i \in DOMAIN CBodies |->
     Alone([main |-> CFunction(CBodies[i]),
            next |-> Script(4, <<"string">>, <<Code!MakeClone(2, 0), Code!MakeReturn(FALSE, 0)>>)],
           Start("main", <<IntArg(3), Object(1, "string"), Struct(2, 2), IntArg(4)>>,
                 <<New(1), New(2)>>, Host))]

\* A script that calls a C function.
CallsC ==
  Alone([main |-> Script(6, <<"int">>,
           << Code!MakeCallImmediate(<<0, 0, 0, 0>>, TRUE, 2, "c", "c"),
              Code!MakeMove(3, 2), Code!MakeReturn(TRUE, 3) >>),
         c |-> CFunction(<< Take(4), Take(2), Give(1), Drop(1), End(FALSE) >>)],
        Start("main", <<IntArg(2)>>, << >>, Host))

\* Members of a struct, in its slot and through a reference, and a clone of what the
\* host keeps.
MembersOfStruct ==
  Alone([main |-> Script(10, <<"struct">>,
           << Code!MakeLoadImmediate("int", 3, 2), Code!MakeSetMember(0, 3, 0),
              Code!MakeReference(4, 0, TRUE), Code!MakeGetMember(6, 4, 0),
              IncrementAssign(6), Code!MakeSetMember(4, 6, 0), Code!MakeGetMember(7, 0, 1),
              Code!MakeLoadCloneFromPtr(8, Host, "string"), Code!MakeReturn(FALSE, 0) >>)],
        [Start("main", <<Struct(1, 1)>>, <<New(1), New(1)>>, NULL) EXCEPT
           !.hostType = "string", !.hostWords = Object(2, "string").words])
-----------------------------------------------------------------------------
(***************************************************************************)
(* Threads with shared values.                                             *)
(***************************************************************************)

Together(functions, starts, shared0, shared1) ==
  [functions |-> functions, start |-> starts,
   shared |-> [o \in DOMAIN shared0 |-> << <<"int", shared0[o]>> >>],
   expectedShared |-> [o \in DOMAIN shared1 |-> << <<"int", shared1[o]>> >>],
   meaning |-> NoMeaning]

\* Adds 1 to the value behind a handle, in a sync block.
Adding ==
  Script(4, <<"shared">>,
    << Code!MakeSync(<<[src |-> 0, lock |-> "write"]>>),
       Code!MakeDereference(2, 0), IncrementAssign(2), Code!MakeSetReference(0, 2),
       Code!MakeUnsync, Code!MakeReturn(FALSE, 0) >>)

\* Adds the first of three values to the third; the handles' order is the caller's,
\* one is locked through a reference to it, and twice.
Combining ==
  Script(12, <<"shared", "shared", "shared">>,
    << Code!MakeReference(6, 0, FALSE),
       Code!MakeSync(<<[src |-> 4, lock |-> "write"], [src |-> 6, lock |-> "read"],
                       [src |-> 2, lock |-> "read"], [src |-> 0, lock |-> "read"]>>),
       Code!MakeDereference(8, 0), Code!MakeDereference(9, 4),
       Code!MakeAddDst(FALSE, 10, 8, 9), Code!MakeSetReference(4, 10),
       Code!MakeUnsync, Code!MakeReturn(FALSE, 0) >>)

\* A thread that passes handles of the shared values.
Passing(f, names) ==
  Start(f, [i \in DOMAIN names |-> Handle(i)], [i \in DOMAIN names |-> NewHandle(names[i])], NULL)

Sharing ==
  << Together([main |-> Adding],
      [t \in {t1, t2} |-> Passing("main", <<"x">>)],
      [x |-> 1, y |-> 1, z |-> 1], [x |-> 3, y |-> 1, z |-> 1]),
    \* the one that comes second overflows within its block
    Together([main |-> Adding],
      [t \in {t1, t2} |-> Passing("main", <<"x">>)],
      [x |-> IntMax - 1, y |-> 1, z |-> 1], [x |-> IntMax, y |-> 1, z |-> 1]),
    Together([add |-> Adding, main |-> Combining],
      [t \in {t1, t2} |-> Passing("main", <<"x", "y", "z">>)],
      [x |-> 1, y |-> 1, z |-> 0], [x |-> 1, y |-> 1, z |-> 2]),
    Together([add |-> Adding, main |-> Combining],
      t1 :> Passing("main", <<"x", "y", "z">>) @@ t2 :> Passing("add", <<"z">>),
      [x |-> 1, y |-> 1, z |-> 0], [x |-> 1, y |-> 1, z |-> 2]) >>

-----------------------------------------------------------------------------
(***************************************************************************)
(* Sources, what the compiler makes of them, and what they mean.           *)
(***************************************************************************)

Names == {"main", "a", "b", "x", "y"}
Source == INSTANCE Compiler WITH Words <- Names \cup {"_", "_tmpIntLit", "_tmpBinExprOut"}

\* Operands are sequences of atoms: a name or a literal.
Literals == ( <<"3">> :> 3 @@ <<"-", "3">> :> -3 @@ <<"1">> :> 1 )
Sum(l, r) == [lhs |-> l, rhs |-> r]
Single(operand) == Sum(operand, << >>)
Nothing == Single(<< >>)

\* A program: two arguments, the initial values of two variables, what is returned, and
\* whether the source goes on to the closing brace.
XValues ==
  <<Nothing, Sum(<<"3">>, <<"-", "3">>), Sum(<<"a">>, <<"b">>), Sum(<<"b">>, <<"3">>),
    Sum(<<"-", "3">>, <<"-", "3">>)>>
YValues == <<Nothing, Sum(<<"x">>, <<"x">>), Sum(<<"3">>, <<"x">>)>>
Results ==
  <<Nothing, Single(<<"y">>), Single(<<"3">>), Sum(<<"x">>, <<"y">>), Sum(<<"1">>, <<"y">>)>>

Programs ==
  [i \in 1 .. Len(XValues) * Len(YValues) * Len(Results) |->
     [x |-> XValues[(i % Len(XValues)) + 1],
      y |-> YValues[((i \div Len(XValues)) % Len(YValues)) + 1],
      result |-> Results[((i \div (Len(XValues) * Len(YValues))) % Len(Results)) + 1],
      closed |-> i % 4 # 0]]

Expression(e) == e.lhs \o (IF e.rhs = << >> THEN << >> ELSE <<" ", "+", " ">> \o e.rhs)
Declaration(keyword, name, e) ==
  <<keyword, " ", name, ":", " ", "int">>
  \o (IF e = Nothing THEN << >> ELSE <<" ", "=", " ">> \o Expression(e)) \o <<";", "\n">>

TextOf(p) ==
  <<"fn", " ", "main", "(", "a", ":", "int", ",", " ", "b", ":", " ", "int", ")", " ", "int", " ", "{">>
  \o Declaration("const", "x", p.x) \o Declaration("mut", "y", p.y)
  \o (IF p.result = Nothing THEN <<"return">> ELSE <<"return", " ">> \o Expression(p.result))
  \o (IF p.closed THEN <<";", "}">> ELSE <<";">>)

\* What a program returns for arguments 1 and 2, or that an addition overflows.
Meaning(p) ==
  LET operand(env, o) == IF o = << >> THEN 0 ELSE IF o \in DOMAIN Literals THEN Literals[o] ELSE env[o[1]]
      value(env, e) == operand(env, e.lhs) + operand(env, e.rhs)
      env0 == ("a" :> 1 @@ "b" :> 2)
      env1 == "x" :> value(env0, p.x) @@ env0
      env2 == "y" :> value(env1, p.y) @@ env1
      values == <<value(env0, p.x), value(env1, p.y), value(env2, p.result)>>
  IN  IF \E i \in DOMAIN values : ~InRange(values[i]) THEN [status |-> "error", value |-> 0]
      ELSE [status |-> "ended", value |-> values[3]]

\* A source that the compiler does not take has an empty function.
Compiling(p) ==
  LET source == TextOf(p)
      c == Source!Compiled(source)[1]
      script == IF Source!Compiles(source)
                THEN Script(c.stackSpaceRequired, [i \in 1 .. c.argCount |-> "int"], c.instructions)
                ELSE Script(2, <<"int", "int">>, << >>)
  IN  [Alone([main |-> script],
             Start("main", <<IntArg(1), IntArg(2)>>, << >>, IF p.result = Nothing THEN NULL ELSE Host))
         EXCEPT !.meaning = Meaning(p)]

\* A function that was compiled from a source ends as the source says, in an error if
\* a sum does not fit, and else with the value that is returned.
CompiledMeaning ==
  LET meaning == program.meaning
  IN  meaning # NoMeaning /\ threads[t1].status # "running" =>
        /\ threads[t1].status = meaning.status
        /\ meaning.status = "ended" /\ program.start[t1].returnDst = Host =>
             threads[t1].stack[Host] = <<"int", meaning.value>>

ByHand ==
  <<Counting(2, "less"), Counting(IntMax, "lessOrEqual"), Nested, Sums, FailingCallee,
    CallsC, MembersOfStruct>> \o CFunctions \o Sharing

MCScenarios ==
  LET hand == Len(ByHand)
      compiled == Len(Programs)
      short == Len(Pool) * Len(Pool) * Len(Pool)
  IN  [i \in 1 .. hand + compiled + short |->
         CASE i <= hand -> ByHand[i]
           [] i \in hand + 1 .. hand + compiled -> Compiling(Programs[i - hand])
           [] OTHER -> ShortProgram(i - hand - compiled)]
=============================================================================
