------------------------------ MODULE Bytecode ------------------------------
(***************************************************************************)
(* The instructions of src/src/interpreter/operations.h and operations.c.  *)
(*                                                                         *)
(* An instruction is a sequence of 64 bit words.  The first is one of the  *)
(* operand structs, here a record of its bit fields; immediates, pointers, *)
(* the sources of arguments (four to a word) and further lock sources      *)
(* follow in words of their own.  Where the encoder stores a constant in a *)
(* field, so does the operator here, right or wrong.                       *)
(***************************************************************************)
EXTENDS Integers, Sequences

CONSTANTS
  MaxFrameLength,   \* MAX_FRAME_LENGTH, the largest stack operand
  ImmediateBits,    \* the width of the inline immediate, 40
  JumpBits          \* the width of a jump, 32

StackOperand == 0 .. MaxFrameLength

\* A signed bit field: what is stored and what reads back.
SignedRange(bits) == -(2 ^ (bits - 1)) .. 2 ^ (bits - 1) - 1
AsSigned(n, bits) == ((n + 2 ^ (bits - 1)) % 2 ^ bits) - 2 ^ (bits - 1)

Tags == {"bool", "int", "float", "char", "string", "array", "set", "map", "option",
         "error", "result", "unique", "shared", "weak"}
-----------------------------------------------------------------------------
(***************************************************************************)
(* The operand structs, as sets of words.                                  *)
(***************************************************************************)

LoadOperands ==
  [op : {"load"}, loadType : {"immediate"}, immediateType : {"bool", "int"},
   dst : StackOperand, immediate : SignedRange(ImmediateBits)]
  \cup [op : {"load"}, loadType : {"immediateLong", "default"}, tag : Tags, dst : StackOperand]
  \cup [op : {"load"}, loadType : {"cloneFromPtr"}, dst : StackOperand]

ReturnOperands == [op : {"return"}, hasReturn : BOOLEAN, returnSrc : StackOperand]

CallOperands ==
  [op : {"call"}, opType : {"immediate"}, argCount : StackOperand, hasReturn : BOOLEAN,
   returnDst : StackOperand, funcType : {"c", "script"}]
  \cup [op : {"call"}, opType : {"immediate", "src"}, argCount : StackOperand,
        hasReturn : BOOLEAN, returnDst : StackOperand, funcSrc : StackOperand]

JumpOperands ==
  [op : {"jump"}, opType : {"default", "ifTrue", "ifFalse"}, optSrc : StackOperand,
   jumpAmount : SignedRange(JumpBits)]

LockSources == [src : StackOperand, lock : {"read", "write"}]

SyncOperands ==
  [op : {"sync"}, opType : {"unsync"}]
  \cup [op : {"sync"}, opType : {"sync"}, num : StackOperand \ {0},
        src1 : LockSources, src2 : LockSources]

DeinitOperands == [op : {"deinit"}, src : StackOperand]

MoveOperands == [op : {"move"}, dst : StackOperand, src : StackOperand]

CloneOperands == [op : {"clone"}, dst : StackOperand, src : StackOperand]

CompareOps == {"equal", "notEqual", "less", "greater", "lessOrEqual", "greaterOrEqual"}

CompareOperands ==
  [op : CompareOps, dst : StackOperand, src1 : StackOperand, src2 : StackOperand]

ReferenceOperands ==
  [op : {"dereference", "setReference"}, dst : StackOperand, src : StackOperand]
  \cup [op : {"makeReference"}, dst : StackOperand, src : StackOperand, mutable : BOOLEAN]

MemberOperands ==
  [op : {"getMember", "setMember"}, dst : StackOperand, src : StackOperand, memberIndex : Nat]

IncrementOperands ==
  [op : {"increment", "add"}, opType : {"dst"}, canOverflow : BOOLEAN,
   src : StackOperand, dst : StackOperand]
  \cup [op : {"increment", "add"}, opType : {"dst", "srcAssign"}, canOverflow : BOOLEAN,
        src : StackOperand]

AddOperands ==
  [op : {"add"}, opType : {"dst"}, canOverflow : BOOLEAN, src1 : StackOperand,
   src2 : StackOperand, dst : StackOperand]
  \cup [op : {"add"}, opType : {"srcAssign"}, canOverflow : BOOLEAN,
        src1 : StackOperand, src2 : StackOperand]

\* The first word of an instruction.
Operands(w) ==
  CASE w.op = "load" -> w \in LoadOperands
    [] w.op = "return" -> w \in ReturnOperands
    [] w.op = "call" -> w \in CallOperands
    [] w.op = "jump" -> w \in JumpOperands
    [] w.op = "sync" -> w \in SyncOperands
    [] w.op = "deinit" -> w \in DeinitOperands
    [] w.op = "move" -> w \in MoveOperands
    [] w.op = "clone" -> w \in CloneOperands
    [] w.op \in CompareOps -> w \in CompareOperands
    [] w.op \in {"dereference", "setReference", "makeReference"} -> w \in ReferenceOperands
    [] w.op \in {"getMember", "setMember"} -> w \in MemberOperands
    [] w.op \in {"increment", "add"} -> w \in IncrementOperands \cup AddOperands
    [] OTHER -> w = [op |-> "nop"]

Values(xs) == [i \in DOMAIN xs |-> [value |-> xs[i]]]

\* Four sources to a word.
QuadsNeeded(n) == IF n % 4 = 0 THEN n \div 4 ELSE n \div 4 + 1

Quads(xs) ==
  [q \in 1 .. QuadsNeeded(Len(xs)) |->
     [quad |-> SubSeq(xs, 4 * q - 3, IF 4 * q < Len(xs) THEN 4 * q ELSE Len(xs))]]
-----------------------------------------------------------------------------
(***************************************************************************)
(* The encoders of operations.c.                                           *)
(***************************************************************************)

MakeLoadImmediate(immediateType, dst, immediate) ==
  << [op |-> "load", loadType |-> "immediate", immediateType |-> immediateType,
      dst |-> dst, immediate |-> AsSigned(immediate, ImmediateBits)] >>

MakeLoadImmediateLong(tag, dst, immediate) ==
  << [op |-> "load", loadType |-> "immediateLong", tag |-> tag, dst |-> dst] >>
  \o Values(<<immediate>>)

\* Contexts that are given are stored as the word they begin with, their size.
MakeLoadDefault(tag, dst, contextSizes) ==
  << [op |-> "load", loadType |-> "default", tag |-> tag, dst |-> dst] >>
  \o Values(contextSizes)

MakeLoadCloneFromPtr(dst, pointer, context) ==
  << [op |-> "load", loadType |-> "cloneFromPtr", dst |-> dst] >>
  \o Values(<<pointer, context>>)

MakeReturn(hasReturn, returnSrc) ==
  << [op |-> "return", hasReturn |-> hasReturn, returnSrc |-> returnSrc] >>

MakeCallImmediate(args, hasReturn, returnDst, funcType, function) ==
  << [op |-> "call", opType |-> "immediate", argCount |-> Len(args),
      hasReturn |-> hasReturn, returnDst |-> returnDst, funcType |-> funcType] >>
  \o Values(<<function>>) \o Quads(args)

\* The encoder's type of call is that of an immediate one.
MakeCallSrc(args, hasReturn, returnDst, funcSrc) ==
  << [op |-> "call", opType |-> "immediate", argCount |-> Len(args),
      hasReturn |-> hasReturn, returnDst |-> returnDst, funcSrc |-> funcSrc] >>
  \o Quads(args)

MakeJump(jumpType, jumpAmount, jumpSrc) ==
  << [op |-> "jump", opType |-> jumpType, optSrc |-> jumpSrc,
      jumpAmount |-> AsSigned(jumpAmount, JumpBits)] >>

SyncBytecodeRequired(num) == IF num > 2 THEN 1 + QuadsNeeded(num - 2) ELSE 1

MakeSync(sources) ==
  << [op |-> "sync", opType |-> "sync", num |-> Len(sources), src1 |-> sources[1],
      src2 |-> IF Len(sources) = 1 THEN [src |-> 0, lock |-> "read"] ELSE sources[2]] >>
  \o Quads(SubSeq(sources, 3, Len(sources)))

MakeUnsync == << [op |-> "sync", opType |-> "unsync"] >>

MakeDeinit(src) == << [op |-> "deinit", src |-> src] >>

MakeMove(dst, src) == << [op |-> "move", dst |-> dst, src |-> src] >>

MakeClone(dst, src) == << [op |-> "clone", dst |-> dst, src |-> src] >>

MakeCompare(compareOp, dst, src1, src2) ==
  << [op |-> compareOp, dst |-> dst, src1 |-> src1, src2 |-> src2] >>

MakeDereference(dst, src) == << [op |-> "dereference", dst |-> dst, src |-> src] >>

MakeSetReference(dst, src) == << [op |-> "setReference", dst |-> dst, src |-> src] >>

MakeReference(dst, src, mutable) ==
  << [op |-> "makeReference", dst |-> dst, src |-> src, mutable |-> mutable] >>

MakeGetMember(dst, src, i) ==
  << [op |-> "getMember", dst |-> dst, src |-> src, memberIndex |-> i] >>

MakeSetMember(dst, src, i) ==
  << [op |-> "setMember", dst |-> dst, src |-> src, memberIndex |-> i] >>

\* Both encoders of an increment store the opcode of an addition.
MakeIncrementDst(canOverflow, dst, src) ==
  << [op |-> "add", opType |-> "dst", canOverflow |-> canOverflow, src |-> src, dst |-> dst] >>

MakeIncrementAssign(canOverflow, src) ==
  << [op |-> "add", opType |-> "dst", canOverflow |-> canOverflow, src |-> src] >>

MakeAddDst(canOverflow, dst, src1, src2) ==
  << [op |-> "add", opType |-> "dst", canOverflow |-> canOverflow,
      src1 |-> src1, src2 |-> src2, dst |-> dst] >>

MakeAddAssign(canOverflow, src1, src2) ==
  << [op |-> "add", opType |-> "srcAssign", canOverflow |-> canOverflow,
      src1 |-> src1, src2 |-> src2] >>
-----------------------------------------------------------------------------
(***************************************************************************)
(* Where an instruction ends, by what its encoder makes of it.             *)
(***************************************************************************)

\* The contexts behind the load of a default: of the keys, and of the values.
ContextCount(tag) == IF tag = "map" THEN 2 ELSE IF tag \in {"array", "set", "option"} THEN 1 ELSE 0

\* How many words the encoders make of an instruction.
InstructionLength(w) ==
  CASE w.op = "load" ->
         IF w.loadType = "immediate" THEN 1
         ELSE IF w.loadType = "immediateLong" THEN 2
         ELSE IF w.loadType = "cloneFromPtr" THEN 3
         ELSE 1 + ContextCount(w.tag)
    [] w.op = "call" -> (IF w.opType = "immediate" THEN 2 ELSE 1) + QuadsNeeded(w.argCount)
    [] w.op = "sync" -> IF w.opType = "sync" THEN SyncBytecodeRequired(w.num) ELSE 1
    [] OTHER -> 1

\* Where execution goes on behind the instruction at a place.
Successors(code, at) ==
  LET w == code[at]
  IN  CASE w.op = "return" -> {}
        [] w.op = "jump" -> {at + w.jumpAmount} \cup (IF w.opType = "default" THEN {} ELSE {at + 1})
        [] OTHER -> {at + InstructionLength(w)}

\* The sources in the words behind an instruction, from the one at a place.
HasSources(code, from, n, sources) ==
  \A i \in 1 .. n : code[from + (i - 1) \div 4].quad[1 + ((i - 1) % 4)] \in sources
=============================================================================
