------------------------------- MODULE Program -------------------------------
(***************************************************************************)
(* A program, the tables of its script functions and of its types, the     *)
(* arena that owns their memory, and the builder of script functions:      *)
(* src/src/program and src/src/interpreter/function_definition.c.          *)
(*                                                                         *)
(* Memory is a set of BLOCKS.  The arena keeps a list, itself a block of   *)
(* the heap, of the blocks it allocated, NoBlock for those freed before    *)
(* the end.  The program's data, which the arena is a part of, is the      *)
(* first of these blocks.  A table is an array of elements, which nobody   *)
(* reads, and an array of groups of named pairs, all blocks of the arena.  *)
(* What blocks contain is kept next to them; a block is named for what it  *)
(* was allocated for and its number or capacity, so that no two            *)
(* allocations give the same.                                              *)
(*                                                                         *)
(* Scripts call back into the host under the context's mutex; deinit tries *)
(* that mutex and panics if it is held.                                    *)
(***************************************************************************)
EXTENDS Integers, SequencesExt, FiniteSetsExt

CONSTANTS
  Names,         \* of functions
  LongNames,     \* those that a string has no room for in itself
  TypeNames,     \* of types
  NameHash,      \* NameHash[n]: the hash of a name, as its group and mask bits
  QualifiedGroupSize,                    \* GROUP_ALLOC_SIZE, the pairs of a new group
  DefaultElements, DefaultAllocations,   \* 16 and 256, the first capacities
  MaxBytecode, MaxArgs   \* bounds on what the host builds

ASSUME NameHashAssumption ==
  NameHash \in [Names \cup TypeNames -> [group : Nat, mask : Nat]]
ASSUME LongNamesAssumption == LongNames \subseteq Names
ASSUME FirstSizesAssumption ==
  /\ {QualifiedGroupSize, DefaultElements, DefaultAllocations} \subseteq Nat \ {0}
  /\ MaxBytecode \in Nat /\ MaxArgs \in Nat

VARIABLES
  memory,    \* the heap and, in it, the arena
  tables,    \* of functions and of types
  builder,   \* of one function
  built,     \* what the host put into each table, by its name
  host       \* the program's data and the mutex around the host's context

Fields == {"functions", "types"}

NoBlock == <<"none", 0>>

\* What a pair leads to: a header with its arguments' types, its name and its code, or a
\* context.
Object(at, argsAt, nameAt, args, code) ==
  [at |-> at, argsAt |-> argsAt, nameAt |-> nameAt, args |-> args, code |-> code]
NoObject == Object(NoBlock, NoBlock, NoBlock, 0, << >>)

\* The block of a function's name.  Its two strings, fullyQualifiedName and name, are a
\* string and its clone: they share a block, which goes with the last of them.
NameBlock(name) == IF name \in LongNames THEN <<"name", name>> ELSE NoBlock

NoTable == [elementsAt |-> NoBlock, count |-> 0, capacity |-> 0,
            groupsAt |-> NoBlock, groups |-> << >>, available |-> 0]
NoBuilder == [code |-> << >>, codeAt |-> NoBlock, codeCapacity |-> 0,
              args |-> 0, argsAt |-> NoBlock, argsCapacity |-> 0, nameAt |-> NoBlock]

\* A heap with an arena that has no list yet.
NoMemory == [live |-> {}, wrong |-> {}, allocations |-> << >>, list |-> NoBlock, capacity |-> 0]

\* cubs_malloc and cubs_free; it is wrong to free what is not alive.
Malloc(m, block) == [m EXCEPT !.live = @ \cup {block}]
Free(m, block) == [m EXCEPT !.live = @ \ {block}, !.wrong = @ \cup ({block} \ m.live)]

\* An array that doubles: the block of the new capacity, then the end of the old one.
Regrown(m, new, old) ==
  IF old = NoBlock THEN Malloc(m, new) ELSE Free(Malloc(m, new), old)
-----------------------------------------------------------------------------
(***************************************************************************)
(* The arena.                                                              *)
(***************************************************************************)

\* The list doubles when it is full.
ListEnsured(m) ==
  LET capacity == IF m.capacity = 0 THEN DefaultAllocations ELSE 2 * m.capacity
      list == <<"list", capacity>>
  IN  IF Len(m.allocations) # m.capacity THEN m
      ELSE [Regrown(m, list, m.list) EXCEPT !.list = list, !.capacity = capacity]

\* cubs_protected_arena_malloc; the new block is the last of the allocations.
ArenaMalloc(m) ==
  LET block == <<"arena", Len(m.allocations) + 1>>
  IN  [Malloc(ListEnsured(m), block) EXCEPT !.allocations = Append(@, block)]

LastBlock(m) == m.allocations[Len(m.allocations)]

\* cubs_protected_arena_free; a block of another arena is a panic.
ArenaFree(m, block) ==
  IF \E i \in DOMAIN m.allocations : m.allocations[i] = block
  THEN [Free(m, block) EXCEPT
          !.allocations = [i \in DOMAIN @ |-> IF @[i] = block THEN NoBlock ELSE @[i]]]
  ELSE [m EXCEPT !.wrong = @ \cup {block}]

\* cubs_protected_arena_deinit.
ArenaDeinit(m) ==
  LET freed[i \in 0 .. Len(m.allocations)] ==
        IF i = 0 THEN m
        ELSE IF m.allocations[i] = NoBlock THEN freed[i - 1]
        ELSE Free(freed[i - 1], m.allocations[i])
  IN  IF m.list = NoBlock THEN m
      ELSE [Free(freed[Len(m.allocations)], m.list) EXCEPT !.list = NoBlock]
-----------------------------------------------------------------------------
(***************************************************************************)
(* A table.  Nothing is erased from it, so the pairs of a group fill its   *)
(* first slots.  What works on the new groups of a table changes a record  *)
(* s of the memory and these groups.                                       *)
(***************************************************************************)

PlaceOf(name, groupCount) == (NameHash[name].group % groupCount) + 1

\* qualified_group_init.
QualifiedGroup(m) == [at |-> LastBlock(m), pairs |-> << >>, capacity |-> QualifiedGroupSize]

\* The loop over n new groups.
QualifiedGroups(m, n) ==
  LET made[i \in 0 .. n] ==
        IF i = 0 THEN [memory |-> m, groups |-> << >>]
        ELSE LET before == made[i - 1]
                 after == ArenaMalloc(before.memory)
             IN  [memory |-> after, groups |-> Append(before.groups, QualifiedGroup(after))]
  IN  made[n]

\* qualified_group_ensure_total_capacity, for the next pair of the group g.
RoomEnsured(s, g) ==
  LET group == s.groups[g]
      needed == Len(group.pairs) + 1
      after == ArenaMalloc(s.memory)
      capacity == needed + (QualifiedGroupSize - (needed % QualifiedGroupSize))
  IN  IF needed <= group.capacity THEN s
      ELSE [memory |-> ArenaFree(after, group.at),
            groups |-> [s.groups EXCEPT ![g] = [at |-> LastBlock(after), pairs |-> group.pairs,
                                                capacity |-> capacity]]]

\* qualified_group_insert, and the same of a pair that is dealt out: it goes into the
\* group of its name.  An existing name is a panic in debug builds.
PairInserted(s, pair) ==
  LET g == PlaceOf(pair.name, Len(s.groups))
      ensured == RoomEnsured(s, g)
  IN  [memory |-> ensured.memory,
       groups |-> [ensured.groups EXCEPT ![g].pairs = Append(@, pair)]]

\* The pairs of an old group, whose array is freed behind them.
PairsDealt(s, old) ==
  LET dealt[i \in 0 .. Len(old.pairs)] ==
        IF i = 0 THEN s ELSE PairInserted(dealt[i - 1], old.pairs[i])
      all == dealt[Len(old.pairs)]
  IN  [memory |-> ArenaFree(all.memory, old.at), groups |-> all.groups]

\* A mutant: the pairs stay in the group that had them.
GroupsDealtInPlace(s, old) ==
  LET freed[g \in 0 .. Len(old)] ==
        IF g = 0 THEN s.memory ELSE ArenaFree(freed[g - 1], old[g].at)
  IN  [memory |-> freed[Len(old)],
       groups |-> [g \in DOMAIN s.groups |->
                     [s.groups[g] EXCEPT !.pairs = IF g <= Len(old) THEN old[g].pairs ELSE @]]]

\* The pairs of all the old groups.
GroupsDealt(s, old) ==
  LET dealt[g \in 0 .. Len(old)] == IF g = 0 THEN s ELSE PairsDealt(dealt[g - 1], old[g])
  IN  dealt[Len(old)]

\* A mutant: the array that was outgrown is not freed.
ElementsKept(s) ==
  LET table == s.table
      after == ArenaMalloc(s.memory)
  IN  IF table.count # table.capacity THEN s
      ELSE [memory |-> after,
            table |-> [table EXCEPT
                         !.elementsAt = LastBlock(after),
                         !.capacity = IF @ = 0 THEN DefaultElements ELSE 2 * @]]

\* generic_map_ensure_total_capacity: the array of elements doubles when it is full, ...
ElementsEnsured(s) ==
  LET table == s.table
      after == ArenaMalloc(s.memory)
  IN  IF table.count # table.capacity THEN s
      ELSE [memory |-> IF table.elementsAt = NoBlock THEN after
                       ELSE ArenaFree(after, table.elementsAt),
            table |-> [table EXCEPT
                         !.elementsAt = LastBlock(after),
                         !.capacity = IF @ = 0 THEN DefaultElements ELSE 2 * @]]

\* ... and the groups when no pair is available, and their pairs are dealt out.
GroupsEnsured(s) ==
  LET table == s.table
      n == IF table.groups = << >> THEN 1 ELSE 2 * Len(table.groups)
      array == ArenaMalloc(s.memory)
      dealt == GroupsDealt(QualifiedGroups(array, n), table.groups)
  IN  IF table.groups # << >> /\ table.available # 0 THEN s
      ELSE [memory |-> IF table.groupsAt = NoBlock THEN dealt.memory
                       ELSE ArenaFree(dealt.memory, table.groupsAt),
            table |-> [table EXCEPT
                         !.groupsAt = LastBlock(array), !.groups = dealt.groups,
                         !.available = (QualifiedGroupSize * n * 4) \div 5]]

\* generic_string_pointer_map_insert: with room for a pair, it goes into its group.
PairTaken(s, pair) ==
  LET t == PairInserted([memory |-> s.memory, groups |-> s.table.groups], pair)
  IN  [memory |-> t.memory,
       table |-> [s.table EXCEPT !.groups = t.groups, !.count = @ + 1, !.available = @ - 1]]

TableInserted(m, table, name, object) ==
  PairTaken(GroupsEnsured(ElementsEnsured([memory |-> m, table |-> table])),
            [name |-> name, object |-> object])

\* generic_string_pointer_map_find: the first pair of the name's group with its mask
\* and the name itself, or else NULL.
FoundIn(table, name) ==
  IF table.count = 0 THEN NoObject
  ELSE LET pairs == table.groups[PlaceOf(name, Len(table.groups))].pairs
           i == SelectInSeq(pairs, LAMBDA pair :
                  NameHash[pair.name].mask = NameHash[name].mask /\ pair.name = name)
       IN  IF i = 0 THEN NoObject ELSE pairs[i].object

\* What comes of a look-up: an object, NULL, or the end of the host.
Answer(outcome, object) == [outcome |-> outcome, object |-> object]
FoundObject(object) == Answer("found", object)
Null == Answer("null", NoObject)
Crash == Answer("crash", NoObject)

\* cubs_function_map_find.
FindFunction(name) ==
  LET object == FoundIn(tables["functions"], name)
  IN  IF object = NoObject THEN Null ELSE FoundObject(object)

\* cubs_type_map_find: it reads from the pointer that it found, NULL too, whose context
\* it is.
FindType(name) ==
  LET object == FoundIn(tables["types"], name)
  IN  IF object = NoObject THEN Crash ELSE FoundObject(object)
-----------------------------------------------------------------------------
(***************************************************************************)
(* The builder of a script function.                                       *)
(***************************************************************************)

\* function_builder_add_n and cubs_function_builder_push_bytecode_many.
PushBytecode(n) ==
  LET length == Len(builder.code) + n
      capacity == IF length > 2 * builder.codeCapacity THEN length ELSE 2 * builder.codeCapacity
      code == <<"code", capacity>>
      longer == builder.code \o [i \in 1 .. n |-> Len(builder.code) + i]
  IN  /\ host.deinit = "no" /\ length <= MaxBytecode
      /\ IF builder.codeCapacity >= length
         THEN builder' = [builder EXCEPT !.code = longer] /\ UNCHANGED memory
         ELSE /\ memory' = Regrown(memory, code, builder.codeAt)
              /\ builder' = [builder EXCEPT !.code = longer, !.codeAt = code,
                                            !.codeCapacity = capacity]
      /\ UNCHANGED <<tables, built, host>>

\* cubs_function_builder_add_arg.
AddArg ==
  LET capacity == 2 * (builder.argsCapacity + 1)
      types == <<"args", capacity>>
  IN  /\ host.deinit = "no" /\ builder.args < MaxArgs
      /\ IF builder.args # builder.argsCapacity
         THEN builder' = [builder EXCEPT !.args = @ + 1] /\ UNCHANGED memory
         ELSE /\ memory' = Regrown(memory, types, builder.argsAt)
              /\ builder' = [builder EXCEPT !.args = @ + 1, !.argsAt = types,
                                            !.argsCapacity = capacity]
      /\ UNCHANGED <<tables, built, host>>

\* The host sets fullyQualifiedName and name, of a function that is not there yet; short
\* names own nothing.
NameFunction(name) ==
  /\ host.deinit = "no" /\ builder.nameAt = NoBlock
  /\ FindFunction(name) = Null
  /\ memory' = Malloc(memory, NameBlock(name))
  /\ builder' = [builder EXCEPT !.nameAt = NameBlock(name)]
  /\ UNCHANGED <<tables, built, host>>

\* The end of a builder: its two arrays are freed, and it is zeroed.
ArraysFreed(m) ==
  LET n == IF builder.codeCapacity > 0 THEN Free(m, builder.codeAt) ELSE m
  IN  IF builder.argsCapacity > 0 THEN Free(n, builder.argsAt) ELSE n

\* cubs_function_builder_deinit: the names first, which one that was built has no more.
BuilderFreed(m) ==
  ArraysFreed(IF builder.nameAt # NoBlock THEN Free(m, builder.nameAt) ELSE m)
BuilderDeinit ==
  /\ builder # NoBuilder
  /\ memory' = BuilderFreed(memory) /\ builder' = NoBuilder
  /\ UNCHANGED <<tables, built, host>>

\* An object goes into the table of a field, from the memory m.
Put(m, field, name, object) ==
  LET s == TableInserted(m, tables[field], name, object)
  IN  /\ FoundIn(tables[field], name) = NoObject
      /\ memory' = s.memory
      /\ tables' = [tables EXCEPT ![field] = s.table]
      /\ built' = [built EXCEPT ![field] =
                     [n \in DOMAIN @ \cup {name} |-> IF n = name THEN object ELSE @[n]]]

\* cubs_function_builder_build: arguments and code move into the arena, the names into
\* the header, and the header, as the object of its name, into the table.
Build(name) ==
  LET withArgs == IF builder.args > 0 THEN ArenaMalloc(memory) ELSE memory
      withHeader == ArenaMalloc(withArgs)
      argsAt == IF builder.args > 0 THEN LastBlock(withArgs) ELSE NoBlock
  IN  /\ host.deinit = "no" /\ builder.code # << >> /\ builder.nameAt = NameBlock(name)
      /\ Put(ArraysFreed(withHeader), "functions", name,
             Object(LastBlock(withHeader), argsAt, builder.nameAt, builder.args, builder.code))
      /\ builder' = NoBuilder
      /\ UNCHANGED host

\* cubs_program_context_insert, of a type with its context.
ContextInsert(name) ==
  LET withContext == ArenaMalloc(memory)
  IN  /\ host.deinit = "no"
      /\ Put(withContext, "types", name, Object(LastBlock(withContext), NoBlock, NoBlock, 0, << >>))
      /\ UNCHANGED <<builder, host>>
-----------------------------------------------------------------------------
(***************************************************************************)
(* The program.                                                            *)
(***************************************************************************)

\* cubs_program_init.
ProgramInit ==
  /\ memory = ArenaMalloc(NoMemory)
  /\ host = [inner |-> LastBlock(memory), mutex |-> "free", callback |-> "none",
             deinit |-> "no"]
  /\ tables = [field \in Fields |-> NoTable]
  /\ built = [field \in Fields |-> << >>]
  /\ builder = NoBuilder

\* _cubs_internal_program_print and _cubs_internal_program_runtime_error: the lock,
\* which finds the context alive or comes late, and the end of the callback.
CallBack ==
  /\ host.deinit # "done" /\ host.mutex = "free"
  /\ host' = [host EXCEPT !.mutex = "script",
                          !.callback = IF host.deinit = "no" THEN "alive" ELSE "late"]
  /\ UNCHANGED <<memory, tables, builder, built>>
CallBackEnds ==
  /\ host.callback # "none"
  /\ host' = [host EXCEPT !.mutex = "free", !.callback = "none"]
  /\ UNCHANGED <<memory, tables, builder, built>>

\* cubs_mutex_try_lock.
MayLock(mutex) == mutex = "free"

\* cubs_program_deinit: with the context's mutex it ends the context, ...
DeinitContext ==
  /\ host.deinit = "no"
  /\ host' = IF MayLock(host.mutex) THEN [host EXCEPT !.mutex = "deinit", !.deinit = "context"]
             ELSE [host EXCEPT !.deinit = "panic"]
  /\ UNCHANGED <<memory, tables, builder, built>>
\* ... then unlocks it, ...
DeinitUnlock ==
  /\ host.deinit = "context"
  /\ host' = [host EXCEPT !.mutex = "free", !.deinit = "unlocked"]
  /\ UNCHANGED <<memory, tables, builder, built>>
\* ... and frees the memory of the arena, whoever has the mutex then.  The names in the
\* headers are not deinitialised.
DeinitMemory ==
  /\ host.deinit = "unlocked"
  /\ memory' = ArenaDeinit(ArenaFree(memory, host.inner))
  /\ host' = [host EXCEPT !.deinit = "done"]
  /\ UNCHANGED <<tables, builder, built>>

ProgramNext ==
  /\ host.deinit # "panic"
  /\ \/ \E n \in 1 .. 2 : PushBytecode(n)
     \/ AddArg \/ BuilderDeinit
     \/ \E name \in LongNames : NameFunction(name)
     \/ \E name \in Names : Build(name)
     \/ \E name \in TypeNames : ContextInsert(name)
     \/ CallBack \/ CallBackEnds
     \/ DeinitContext \/ DeinitUnlock \/ DeinitMemory

programVars == <<memory, tables, builder, built, host>>

ProgramSpec == ProgramInit /\ [][ProgramNext]_programVars
-----------------------------------------------------------------------------
(***************************************************************************)
(* Pointers, each with the place it is kept in.                            *)
(***************************************************************************)

Pointer(of, part, i, j, to) == [from |-> <<of, part, i, j>>, to |-> to]

\* Of the pairs of a group: to objects and to what these point to.
PairPointers(of, g, pairs) ==
  {Pointer(of, "object", g, i, pairs[i].object.at) : i \in DOMAIN pairs}
  \cup {Pointer(of, "args", g, i, pairs[i].object.argsAt) : i \in DOMAIN pairs}

\* Of a table: to its arrays, and those of its pairs.
TablePointers(of, table) ==
  {Pointer(of, "elements", 0, 0, table.elementsAt), Pointer(of, "groups", 0, 0, table.groupsAt)}
  \cup {Pointer(of, "group", g, 0, table.groups[g].at) : g \in DOMAIN table.groups}
  \cup UNION {PairPointers(of, g, table.groups[g].pairs) : g \in DOMAIN table.groups}

\* Into the program's memory, and those of the builder and the arena itself.
DataPointers ==
  {Pointer("program", "inner", 0, 0, host.inner)}
  \cup UNION {TablePointers(field, tables[field]) : field \in Fields}
BuilderPointers ==
  {Pointer("builder", "code", 0, 0, builder.codeAt),
   Pointer("builder", "args", 0, 0, builder.argsAt),
   Pointer("builder", "name", 0, 0, builder.nameAt)}
\* From the headers, out of the arena.
NamePointers ==
  {Pointer("header", "name", n, 0, built["functions"][n].nameAt) :
     n \in DOMAIN built["functions"]}
ListPointer == Pointer("arena", "list", 0, 0, memory.list)

Targets(pointers) == {p.to : p \in pointers} \ {NoBlock}

\* No block is pointed to from two places.
OneEach(pointers) ==
  \A p, q \in pointers : p.to = q.to /\ p.to # NoBlock => p = q

\* Every live block has one owner, the arena, its list, the builder or, of its name, a
\* header; what tables and headers point to else is the arena's and alive, nothing is
\* pointed to twice; no block is freed twice.  Once the program is gone, what is left are
\* a builder's blocks and, since nothing frees them, the names of the functions that were
\* built.  Nor does the context end under a callback that found it alive.
EveryBlockFreedOnce ==
  LET list == memory.allocations
      names == BuilderPointers \cup NamePointers
      owners == DataPointers \cup names \cup {ListPointer}
  IN  /\ memory.wrong = {}
      /\ host.callback = "alive" => host.deinit \in {"no", "panic"}
      /\ IF host.deinit = "done" THEN OneEach(names) /\ memory.live = Targets(names)
         ELSE /\ OneEach(owners) /\ memory.live = Targets(owners)
              /\ \A i, j \in DOMAIN list : list[i] = list[j] /\ list[i] # NoBlock => i = j
              /\ {list[i] : i \in DOMAIN list} \ {NoBlock} = Targets(DataPointers)

\* However the groups grew and doubled, the name of a function leads to the function that
\* was built with it, with all the code that was pushed, and other names to NULL; the name
\* of a type that was inserted leads to its context.  (Looking up another type crashes.)
TablesFind ==
  host.deinit = "no" =>
    /\ \A name \in Names :
         FindFunction(name) = IF name \in DOMAIN built["functions"]
                              THEN FoundObject(built["functions"][name]) ELSE Null
    /\ \A name \in DOMAIN built["types"] : FindType(name) = FoundObject(built["types"][name])
=============================================================================
