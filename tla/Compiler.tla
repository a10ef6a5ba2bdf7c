------------------------------ MODULE Compiler ------------------------------
(***************************************************************************)
(* From a source to the bytecode of its function: the parser of            *)
(* src/src/compiler/ast.c and ast_nodes/, the variables of                 *)
(* stack_variables.c, and the code each node builds.                       *)
(*                                                                         *)
(* A PARSER is a record: the source and its iterator, the variables of the *)
(* function so far, and `ok', which a failed assertion or a panic makes    *)
(* FALSE.  Names are sequences of atoms; variables are numbered from 0.    *)
(***************************************************************************)
EXTENDS Tokenizer

CONSTANTS MaxFrameLength, ImmediateBits, JumpBits

Bytes == INSTANCE Bytecode

TmpIntLit == <<"_tmpIntLit">>
TmpBinExprOut == <<"_tmpBinExprOut">>
-----------------------------------------------------------------------------
(***************************************************************************)
(* Variables.  All of them are of type int, of 8 bytes.                    *)
(***************************************************************************)

Variable(name, isTemporary) == [name |-> name, isTemporary |-> isTemporary, size |-> 8]

IsDeclared(variables, name) == \E i \in DOMAIN variables : variables[i].name = name

\* cubs_stack_variables_array_push: a name that is there already is not pushed.
PushVariable(variables, name) ==
  IF IsDeclared(variables, name) THEN variables ELSE Append(variables, Variable(name, FALSE))

\* cubs_stack_variables_array_push_temporary: underscores make the name a new one.
PushTemporary(variables, name) ==
  LET named(n) == name \o [i \in 1 .. n |-> "_"]
      fresh == CHOOSE n \in 0 .. Len(variables) :
                 /\ ~IsDeclared(variables, named(n))
                 /\ \A k \in 0 .. n - 1 : IsDeclared(variables, named(k))
  IN  Append(variables, Variable(named(fresh), TRUE))

\* cubs_stack_variables_array_find.
FindVariable(variables, name) ==
  (CHOOSE i \in DOMAIN variables : variables[i].name = name) - 1

SlotsFor(size) == IF size > 8 THEN size \div 8 ELSE 1

\* cubs_stack_assignment_init, which pushes every variable.
AssignStack(variables) ==
  FoldLeft(LAMBDA a, v : [positions |-> Append(a.positions, a.requiredFrameSize),
                          requiredFrameSize |-> a.requiredFrameSize + SlotsFor(v.size)],
           [positions |-> << >>, requiredFrameSize |-> 0], variables)

PositionOf(assignment, index) == assignment.positions[index + 1]
-----------------------------------------------------------------------------
(***************************************************************************)
(* Parsing.                                                                *)
(***************************************************************************)

Tag(p) == p.iter.current.tag
Text(p) == SubSeq(p.source, p.iter.current.from, p.iter.current.from + p.iter.current.len - 1)

Step(p) == [p EXCEPT !.iter = TokenIterNext(p.source, @)]
Require(p, condition) == [p EXCEPT !.ok = @ /\ condition]
Expect(p, tag) == LET q == Step(p) IN Require(q, Tag(q) = tag)

\* A loop that ends at the latest with the source.
Repeated(p, Body(_)) ==
  LET after[i \in 0 .. Len(p.source)] ==
        IF i = 0 THEN p
        ELSE LET q == after[i - 1] IN IF q.done \/ ~q.ok THEN q ELSE Body(q)
  IN  after[Len(p.source)]

\* parse_function_args, one of the arguments and the symbol behind it.
ParseArg(p) ==
  LET name == Require(p, Tag(p) = Identifier)
      type == Expect(Expect(name, <<":">>), <<"int">>)
      next == Step([type EXCEPT !.variables = PushVariable(@, Text(p))])
      after == IF Tag(next) = <<",">> THEN Step(next) ELSE next
  IN  [Require(after, Tag(next) \in {<<",">>, <<")">>}) EXCEPT !.done = Tag(after) = <<")">>]

ParseArgs(p) ==
  LET first == Step(p)
  IN  Repeated([first EXCEPT !.done = Tag(first) = <<")">>], ParseArg)

\* parse_function_return: whatever stands before the brace, an int or not.
ParseReturnType(p) ==
  LET next == Step(p)
  IN  IF Tag(next) = <<"{">> THEN next ELSE Expect(next, <<"{">>)

\* A mutant: the variable of a literal is the one behind its own.
ParseValueLate(p) ==
  CASE Tag(p) = IntLiteral ->
         [p |-> Step([p EXCEPT !.variables = PushTemporary(@, TmpIntLit)]),
          value |-> [tag |-> "IntLit", literal |-> p.iter.current.value,
                     variableIndex |-> IF p.variables = << >> THEN 0 ELSE Len(p.variables) - 1]]
    [] Tag(p) = Identifier /\ IsDeclared(p.variables, Text(p)) ->
         [p |-> Step(p),
          value |-> [tag |-> "Variable", variableIndex |-> FindVariable(p.variables, Text(p))]]
    [] OTHER -> [p |-> Require(p, FALSE), value |-> [tag |-> "none"]]

\* parse_expression_value: a literal gets a temporary variable.
ParseValue(p) ==
  CASE Tag(p) = IntLiteral ->
         [p |-> Step([p EXCEPT !.variables = PushTemporary(@, TmpIntLit)]),
          value |-> [tag |-> "IntLit", literal |-> p.iter.current.value,
                     variableIndex |-> Len(p.variables)]]
    [] Tag(p) = Identifier /\ IsDeclared(p.variables, Text(p)) ->
         [p |-> Step(p),
          value |-> [tag |-> "Variable", variableIndex |-> FindVariable(p.variables, Text(p))]]
    [] OTHER -> [p |-> Require(p, FALSE), value |-> [tag |-> "none"]]

\* cubs_parse_expression: one value up to a semicolon, or the sum of two, whatever
\* follows.  Without a destination the sum gets a temporary variable.
ParseExpression(p, hasDestination, destination) ==
  LET first == ParseValue(p)
      dst == IF hasDestination THEN destination ELSE Len(first.p.variables)
      q == IF hasDestination THEN first.p
           ELSE [first.p EXCEPT !.variables = PushTemporary(@, TmpBinExprOut)]
      second == ParseValue(Step(q))
  IN  IF ~first.p.ok \/ Tag(first.p) = <<";">> THEN first
      ELSE IF Tag(first.p) # <<"+">> THEN [first EXCEPT !.p = Require(@, FALSE)]
      ELSE [p |-> second.p,
            value |-> [tag |-> "Expression", outputVariableIndex |-> dst,
                       lhs |-> first.value, rhs |-> second.value]]

WithItem(p, item) == [p EXCEPT !.items = Append(@, item)]

\* cubs_return_node_init.
NoValue == [tag |-> "none"]
ParseReturn(p) ==
  LET next == Step(p)
      expression == ParseExpression(next, FALSE, 0)
  IN  IF Tag(next) = <<";">> THEN WithItem(next, [node |-> "return", value |-> NoValue])
      ELSE IF Tag(next) \notin {Identifier, IntLiteral} THEN Require(next, FALSE)
      ELSE WithItem(Require(expression.p, Tag(expression.p) = <<";">>),
                    [node |-> "return", value |-> expression.value])

\* cubs_variable_declaration_node_init: the variable is there before its initial
\* value is parsed.
ParseDeclaration(p) ==
  LET name == Expect(p, Identifier)
      type == Expect(Expect(name, <<":">>), <<"int">>)
      declared == Require([type EXCEPT !.variables = PushVariable(@, Text(name))],
                          ~IsDeclared(p.variables, Text(name)))
      index == Len(p.variables)
      next == Step(declared)
      expression == ParseExpression(Step(Require(next, Tag(next) = <<"=">>)), TRUE, index)
      item(value) == [node |-> "declaration", variableNameIndex |-> index, value |-> value]
  IN  IF ~declared.ok THEN declared
      ELSE IF Tag(next) = <<";">>
           THEN WithItem(next, item([tag |-> "IntLit", literal |-> 0, variableIndex |-> 0]))
      ELSE WithItem(expression.p, item(expression.value))

\* A statement of cubs_function_node_init; the end of the source ends the function
\* as a brace does.
ParseStatement(p) ==
  CASE Tag(p) \in {<<"}">>, None} -> [p EXCEPT !.done = TRUE]
    [] Tag(p) = <<"return">> -> Step(ParseReturn(p))
    [] Tag(p) \in {<<"const">>, <<"mut">>} -> Step(ParseDeclaration(p))
    [] OTHER -> Require(p, FALSE)

\* cubs_function_node_init, behind `fn'.
ParseFunction(p) ==
  LET name == Expect(p, Identifier)
      args == ParseArgs(Expect(name, <<"(">>))
      body == ParseReturnType(args)
      end == Repeated([Step(body) EXCEPT !.done = FALSE], ParseStatement)
      endsWithReturn == /\ Tag(end) = <<"}">> /\ end.items # << >>
                        /\ Last(end.items).node = "return"
      items == IF endsWithReturn THEN end.items
               ELSE Append(end.items, [node |-> "return", value |-> NoValue])
  IN  [ok |-> end.ok /\ end.done, functionName |-> IF name.ok THEN Text(name) ELSE << >>,
       argCount |-> Len(args.variables), variables |-> end.variables, items |-> items]

\* cubs_file_node_init: the first function of the source is the file, if there is one.
FileStart(source) ==
  [source |-> source, iter |-> TokenIterInit, variables |-> << >>, items |-> << >>,
   done |-> FALSE, ok |-> TRUE]
ParseFile(source) ==
  IF Tag(Step(FileStart(source))) = None THEN << >>
  ELSE << ParseFunction(Expect(FileStart(source), <<"fn">>)) >>
-----------------------------------------------------------------------------
(***************************************************************************)
(* Code.                                                                   *)
(***************************************************************************)

LoadLiteral(value, dst) == Bytes!MakeLoadImmediateLong("int", dst, value.literal)

\* binary_expr_node_build_function: the destination is the index of its variable.
BuildSum(value, assignment) ==
  LET src(v) == PositionOf(assignment, v.variableIndex)
      loads(v) == IF v.tag = "IntLit" THEN << LoadLiteral(v, src(v)) >> ELSE << >>
  IN  loads(value.lhs) \o loads(value.rhs)
      \o << Bytes!MakeAddDst(FALSE, value.outputVariableIndex, src(value.lhs), src(value.rhs)) >>

\* return_node_build_function.
BuildReturn(item, assignment) ==
  LET value == item.value
      returned(index) == << Bytes!MakeReturn(TRUE, PositionOf(assignment, index)) >>
  IN  CASE value.tag = "none" -> << Bytes!MakeReturn(FALSE, 0) >>
        [] value.tag = "Variable" -> returned(value.variableIndex)
        [] value.tag = "IntLit" ->
             << LoadLiteral(value, PositionOf(assignment, value.variableIndex)) >>
             \o returned(value.variableIndex)
        [] value.tag = "Expression" ->
             BuildSum(value, assignment) \o returned(value.outputVariableIndex)

\* variable_declaration_node_build_function.
BuildDeclaration(item, assignment) ==
  IF item.value.tag = "IntLit"
  THEN << LoadLiteral(item.value, PositionOf(assignment, item.variableNameIndex)) >>
  ELSE BuildSum(item.value, assignment)

\* The assertion of variable_declaration_node_build_function.
CanBuild(item) == item.node = "declaration" => item.value.tag # "Variable"

\* function_node_compile: what is built of it, the instructions in their order.
\* The type of the result is never set: it is looked for under another token.
CompiledFunction(function) ==
  LET assignment == AssignStack(function.variables)
  IN  [name |-> function.functionName, returnType |-> "none",
       stackSpaceRequired |-> assignment.requiredFrameSize, argCount |-> function.argCount,
       instructions |-> FlattenSeq([i \in DOMAIN function.items |->
                          IF function.items[i].node = "return"
                          THEN BuildReturn(function.items[i], assignment)
                          ELSE BuildDeclaration(function.items[i], assignment)])]

\* cubs_ast_init and cubs_ast_codegen: whether no assertion fails, and what is built.
Compiles(source) ==
  \A function \in ToSet(ParseFile(source)) :
    function.ok /\ \A i \in DOMAIN function.items : CanBuild(function.items[i])
Compiled(source) ==
  LET file == ParseFile(source) IN [i \in DOMAIN file |-> CompiledFunction(file[i])]
=============================================================================
