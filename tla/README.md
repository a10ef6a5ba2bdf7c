# A TLA+ model of CubicScript

CubicScript is an embeddable scripting language written in C: a compiler in its
beginnings, a bytecode interpreter, and the runtime library both rest on. What
the language promises above all is that threads may share objects without data
races and without deadlocks: objects live behind unique, shared and weak
pointers, and a program touches them inside *sync blocks* that lock everything
they need at once. This directory models that core, the interpreter that
executes scripts on it with the stack and the calls, the compiler as far as it is
written, the memory of a program, and the containers and values of the runtime.

The modules are checked by TLC on small instances. With TLAPS, the two concurrent
components at the bottom, the containers, the memory of a program, the arithmetic, and
the interpreter's control and frames are proved correct for every instance.

## Inventory

Paths are below `src/src/`.

| Component | State | Operations | Interacts with | What makes it correct |
|---|---|---|---|---|
| sync queue, `sync/sync_queue.c` | per thread: an array of queues of (address, mode), the current level | add, lock, try_lock, unlock | the locks of all objects; called by the interpreter's sync instruction | blocks exclude each other, no lock lost, no deadlock, buffers hold what is stored |
| locks, `sync/locks.c` | pthread mutex, pthread rwlock | lock, try, unlock | everything below | a writer excludes everyone |
| pointers, `primitives/sync_ptr/sync_ptr.c`, `sync/atomic.c` | a header with lock, two counts, expired flag; handles | init, clone, make_weak, lock, get, unlock, deinit | locks, sync queue | value destroyed once and after its users, memory freed once and at last |
| hash seed, `util/hash.c` | one global seed and mutex | cubs_hash_seed | every hash of a string, map key or set key | one seed per process |
| hash map and set, `primitives/map`, `primitives/set` | groups of masks and pair pointers, a linked list of pairs | insert, find, erase, clone, eql, hash, iterators | contexts (eql, hash, deinit), hash seed | a map: finds what was inserted, iterates in order of insertion, also while it changes |
| array, option, result, error, `primitives/` | a buffer, or a value in place or on the heap, with the context of its type | push, take, clone, deinit, eql, hash | contexts | every block freed once, clones equal |
| string, `primitives/string`, `util/utf8.c`, `util/simd.c` | bytes in place or in a counted buffer | init, compare, hash, find, concat, substr | | what the definition over bytes says, well-formed UTF-8 |
| contexts, `primitives/context.c` | a table of functions per type | `cubs_context_fast_*` | everything that holds values of any type | functions are called with what their prototype says |
| interpreter stack, `interpreter/stack.c` | thread-local array of slots, contexts beside it, frame base | push and pop frame, set context, unwind, pass and take arguments | interpreter, function calls | every value deinitialised once, frames nest |
| interpreter, `interpreter/interpreter.c`, `operations.c` | instruction pointer, stack | one per bytecode | stack, sync queue, program | calls, returns and errors leave stack and queue balanced, an operand is what was encoded |
| function builder, `interpreter/function_definition.c` | a growing bytecode array, argument types, two names | push, add argument, name, build, deinit | program, compiler | nothing leaks, the function is what was pushed |
| program, `program/` | arena of allocations, tables of functions and types, context with mutex | malloc, free, find, insert, callbacks, deinit | compiler, interpreter, host | every block freed once, names found, the host's context not ended in use |
| tokenizer, `compiler/tokenizer.c` | position, current and previous token | next | parser | tokens cover the source, each the longest |
| parser, syntax tree, stack variables, `compiler/` | tree, list of variables and temporaries | parse, assign slots, build | tokenizer, function builder | the bytecode computes what the source says |
| platform, util | none | wrappers, arithmetic | | |

Hard behaviours: threads interleave between any two lock operations of a sync
block and between any two atomic accesses of a deinit; `try_lock` fails half way
and has to back out; buffers grow at their limits; a weak pointer races the
destruction of what it points at; the seed is initialised by whoever comes
first; a map grows while pairs with colliding hashes sit in it, and changes under
an iterator; values move between frames bit by bit while contexts beside them
say who owns them, and a runtime error unwinds any of it; instructions have
several words, whose number two places compute; a program is deinitialised while
a script calls back into its host. `PROJECT.json` lists these hazards, each at
its line, with the properties that cover it.

## Modules

| Module | Models |
|---|---|
| `RwLock` | the reader-writer lock of `locks.c` as its users see it: two sets of holders |
| `SyncBlocks` | the promise: a thread enters a block with all it asked for, or not at all |
| `SyncQueue` | `sync_queue.c`, with `RwLock` for the locks |
| `NatLemmas` | least and greatest numbers, induction and recursion up to a bound, for the proofs |
| `SyncQueueProofs` | the theorems about `SyncQueue` |
| `SyncPtr` | one object of `sync_ptr.c` and all its handles, with `RwLock` |
| `SyncPtrProofs` | the theorems about `SyncPtr` |
| `HashSeed` | `cubs_hash_seed` of `hash.c` |
| `OrderedMap` | the promise of a map: one value per key, in order of insertion |
| `HashTable` | what `map.c` and `set.c` have in common: groups, links, growth, cloning, as operators |
| `HashMap` | `map.c`: a table whose entries have values |
| `HashSet` | `set.c`, and an iterator that goes on while the set changes |
| `HashTableProofs` | lemmas: what each operator of `HashTable` makes of a table |
| `ContainerProofs` | the theorems about the two |
| `Contexts`, `ContextWays` | the tables of `context.c`, and the ways `cubs_context_fast_*` take with a value of any type |
| `Values` | arrays, options, results, errors, strings and host structs as owners of heap blocks, nested into each other |
| `Strings` | the algorithms of `string.c`, `utf8.c` and the string part of `simd.c` |
| `Numbers` | the overflow checks and the power of `math.c` |
| `Arithmetic` | that they are exact, as a property of an input |
| `AlgorithmProofs` | the theorems about `Arithmetic`, `Strings`, `ContextWays` and `TokenIteration` |
| `Bytecode` | the operand structs of `operations.h` and their encoders in `operations.c` |
| `Stack` | `stack.c`: operators on the stack of one thread |
| `Interpreter` | `interpreter.c`, `function_call_args.c`, `function.c`: threads that execute scripts and C functions on `Stack`, with sync blocks as `SyncBlocks` has them |
| `InterpreterProofs` | the theorems about `Interpreter` and its `Stack` |
| `Program` | the arena, the tables, the builder, callbacks and deinit of `program/` and `function_definition.c` |
| `ProgramProofs` | the theorems about `Program` |
| `Tokenizer`, `TokenIteration` | `tokenizer.c`, and a source read to its end |
| `Compiler` | `ast.c`, `ast_nodes/`, `stack_variables.c`: from a source to bytecode |
| `MCSyncQueue`, `MCSyncPtr`, `MCHashMap` | constants and symmetry for TLC |
| `MCPrimitives` | the containers, `Program`, `Values`, `ContextWays`, `Strings`, `Arithmetic`, `TokenIteration` in one instance |
| `MCScripts` | scripts, by hand, by enumeration and by `Compiler`, for `Interpreter` |

A definition with a name such as `GiveUpTooEarly` and a comment that begins "A
mutant" is not part of a model: it is the variant of the definition after it
that a plausible bug would give, and each property of a passing run is violated
when one of them takes that definition's place.

### SyncQueue

`queues[t][l]` is `threadLocalQueues.queues[l]` of thread `t` without its spare
room, whose size is `capacity[t][l]`; `queueCount[t]` and `current[t]` are the
fields of `SyncQueues`. `locks` is the memory the threads share. Adding an
object touches thread-local memory only and is one action, `Add`, with the
growth of both buffers, the search for the place and the duplicate check.
`Lock`, `TryLock` and `Unlock` start a call; each turn of its loop is an action
(`TakeNext`, `GiveBackNext`, `ReleaseNext`), and so is how the loop ends
(`Enter`, `Refused`, `GiveUp`, `Leave`). `phase` and `iter` are the program
counter and the loop variable.

Objects are their addresses, since the code compares them; tag bits and vtables
are abstracted to the mode. Not modelled: a failing malloc (the code panics),
and `isAcquired`, which nothing uses.

What a caller sees to is in `MayLock`: it has added at that level before (the
interpreter's sync instruction always adds first), and it does not lock an
object an outer block of its own holds, which the `TODO` of `add_sync_object`
leaves to the caller.

### SyncPtr

The actors are the handles: a handle belongs to one thread at a time, but
different handles of an object are used and deinitialised by different threads
at once. Every atomic access of `cubs_unique_deinit`, `cubs_shared_deinit` and
`cubs_weak_deinit` is an action, and `pc[h]` says which comes next; `seen[h]` is
the local boolean that is kept across steps. Atomics are sequentially
consistent in the code (`atomic.h`), so interleaving is faithful. `alive` and
`frees` are ghosts for the value and the memory. A handle that is released gets
`pc = "none"` and may be reused for a new one.

The ghost `overlapped` says whether a weak handle's deinit and the teardown of the
value have overlapped. Once they have, the code can free too early, twice or
never (see Findings); as long as they have not, `FreedOnceAtTheEnd` and
`AbandonedIsFreed` hold.

### HashSeed

The loop of `cubs_hash_seed`, one action per load, try_lock, store and unlock,
for a build with assertions: without them `cubs_mutex_unlock` is compiled away,
being the argument of an `assert`.

### HashTable, HashMap and HashSet

`set.c` repeats the functions of `map.c` line by line, for entries without a value, so
they are the operators of one module. The state is one record whose fields are those of
`Metadata` and `len`; headers are a function from addresses, and `NULL` is 0. An
operation is the composition of operators named for the C functions it calls, and a
loop is a recursive function of its number of turns, which is what the proofs can
reason about. A slot is a mask with the header pointer at the same index; `Found` is
what the SIMD scan of `group_find` computes. A hash is given by its group and mask bits,
so collisions of either are chosen in `MCHashMap`. `Reinsert` and `CloneLimit` say what
the program does with the two operations that do not keep their promise; the set is
always given new keys, and cloned as `CloneLimit` says.

`iter` of the set is an iterator that survives changes: it keeps the header it goes to
next, so keys may come and go between two of its steps except that one. `due` and
`seen` are ghosts: what was there from the beginning and not yet visited, and what was.

### Contexts and Values

A context is a record of its size and functions. A function is a `Handler`: what it takes,
values (`ByValue`) or references to them (`ByConstRef`, `ByMutRef`), and the type it returns,
as far as assertions look at it, and `Broken` for one
that asserts or reads beyond its value whatever it gets. `DeinitWay` and its kind
say, for each type, what becomes of a container's request: `"direct"` without a call,
`"call"` with arguments that the function takes and a result that the caller asserts,
`"broken"` with others, or `"fails"`, where `cubs_context_fast_*` asserts that there is a
function and there is none; only a missing destructor is `"nothing"`. `context.h:19` says that
a destructor takes a mutable reference, the destructors of the built-in types take the value
itself, and the value is what they are passed: a host's type may have either
(`UserContextsAssumption`), and `WaysAreGood` says that no call but that of a documented
destructor, or for the order of a host's type, is a wrong one.

In `Values` a value is a tree of records and `heap` counts the references to each
block; `Variables` are what the host keeps. Every operation that allocates, moves
or frees is an action, recursive deinit, clone, equality and hash are operators.
`heap.wrong` says that a block was freed that was not there. An option whose type
has no destructor never frees a value it keeps on the heap (`option.c:33-49`):
such blocks are taken off the count as `lost`, so that all others are held to
account.

### Strings, Numbers, Tokenizer

Pure algorithms, checked on all inputs up to a length: the initial state chooses one
(`texts`, `input`, `source`; `held` for the contexts). `Strings` keeps the two representations, with smaller constants, and memory behind a string's end, which
`cubs_utf8_is_valid` reads. `FindsOccurrences` lets `cubs_string_find` return that there is none
only if there is none, or one right at the start of the search that ends the string, which
the code misses (see Findings). `Numbers` has the checks with C's division; a trap is
a value of its own. The tokenizer's source is a sequence of atoms, characters or
whole words; the longest match, the look at the previous token for `-`, `&`, `*`
and the errors are as in the code.

### Program

`memory` is the heap, a set of live blocks, with the arena in it: the list
`allAllocations` of its blocks, `NoBlock` where one was freed, and the block that this
list is itself. A block is named for its purpose and its number or capacity, so that no
two allocations are confused; `wrong` collects what was freed without being alive. A
table has an array of elements, which only growing touches and of which the block and
the counts are kept, and an array of groups, each `[at, pairs, capacity]`: the block of
its masks and pairs, the pairs (nothing is erased, so they fill its first slots), and the
room. `TableInserted` is the whole of `generic_string_pointer_map_insert`: the elements
grow, the groups grow and all pairs are dealt out again, one at a time, then the group
of the name grows and takes the pair. `builder` is the host's until `Build` hands its
code, arguments and name over; `built` remembers what the host put in under which name. A
function's two names, a string and its clone, share one block, if the name is too long to be
kept in the string itself (`LongNames`): `NameFunction` allocates it, a builder's deinit frees
it, and `Build` moves it to the header, where nothing does. A look-up has an `Answer`: an object,
NULL, or, for a type that is not there, the crash of `cubs_type_map_find`. `host`
has the first block of the arena, in which the program's data lies, and the mutex:
callbacks and deinit interleave, and deinit takes the mutex with a try_lock, ends the
context, unlocks and frees, in three steps.

### Stack, Bytecode, Interpreter

A thread is a record: the slots (`stack`) and the contexts beside them, the frame,
the instruction pointer, and `calls`, the C activations that the recursion of
`cubs_interpreter_execute_function` keeps on the C stack. A word of a slot is
tagged with its kind, so that reading a slot that holds something else is visible.
A context has a bit for owning, as in the code. The caller's saved frame lies in
the reserved slots as in `stack.c`, arguments are pushed above the frame, and a C
function reads them through the area of offsets that `push_arg` leaves. If the function has
called another one since, the frame of that call has saved its length in the first word of
this area, and `Positions` reads it as the code does, as four numbers of 16 bits: the length
and three zeros.

A step executes one operation, or one call a C function makes (`take_arg`, `drop`,
`give`, a call of its own, its end). Instructions are sequences of words, built by
`Bytecode`'s encoders and decoded from the words, so their lengths have to agree.
A failed assertion makes a thread `aborted`; what a script may never do is left
to that. Objects (strings, containers, handles) have ids and count how often they
were destroyed. `excused` are objects the *program* gives up: overwritten while
owned, copied bit by bit, or passed by a call instruction, whose source keeps its
context (see Findings); every other object has to have one owner all the time.

The interpreter validates no bytecode, so a program is assumed to be one that the
builders of functions make (`ProgramsWellFormed`). `WellFormed` says that every
instruction begins with an operand of `Bytecode`, has the words behind it that its
operand counts, and is followed, or jumps, to another one (`Decodable`,
`Successors`), that a function called by its name exists, and that a C function's steps
go on until one ends it. What a program does beyond that is not assumed but followed:
`push_frame` asserts the frame's length (`stack.c:26`), `cubs_function_return_set_value`
that there is a place for the result (`function_call_args.c:131`), and both abort the
thread. What nothing in the code asserts is in `TrustKept`, an invariant of the scripts: a
value that is called is a function (`CalleesExist`), a C function drops, returns and passes
on locals that it has (`LocalsExist`), the count and the offsets that `function_call_args.c`
leaves behind the arguments of a C function are still on the stack (`OffsetsFit`), and what
is returned or written through a reference does not reach into the reserved slots of a
frame. Nor does `push_frame` see whether the stack has room: that `next` stays within
`StackSlots` is a part of `TypeOK`.

`Sync` is atomic, one step that takes all locks of a block: that the one-by-one
locking of `sync_queue.c` amounts to this is what `syncqueue_nested` checks and
`ImplementsBlocks` proves.

### Compiler

The parser is a record that the operators of the grammar pass on; a failed
assertion makes `ok` false. A source that is cut off before the closing brace gets a further
empty return, even if it ends with one. The result is the sequence of instructions of the
function, for `MCScripts` to execute.

## Runs

| Run | Shows | Bounds, and why they suffice |
|---|---|---|
| `syncqueue_flat` | queues sorted; locks match queues; no deadlock; capacity; liveness | 2 threads, 3 objects in either mode, first buffer of 2 entries: a back-out gives back up to two locks, a cycle of waits would need two threads and two objects, the buffer grows once |
| `syncqueue_nested` | `IInv`, with the types; mutual exclusion; allocated levels; `SyncBlocks` implemented | 2 threads, 2 levels, array of 1 queue first: locks at two levels, entries pending above a locked queue, the array grows |
| `syncqueue_overrun` | violation of `WithinCapacity` | 9 objects with the code's sizes |
| `syncptr` | `IInv`; memory kept; no use after destruction; until a weak deinit overlaps the teardown, freed once, at the end, and always | 5 handles: two strong and two weak ones and one that is being made, in any state |
| `syncptr_weak_free` | violation of `WeakFreesAlone` | 3 handles |
| `hash_seed` | violation of `OneSeed` | 2 threads, 3 draws, one of them 0 |
| `primitives` | one component per behaviour. Maps: types, slots, links, lookups, equal clones, `OrderedMap` implemented. Sets: filed keys, complete iterations, equal clones. Program: blocks, names and tables. Values: one owner, equal clones, good ways. Strings, numbers, tokens: what they do or promise | map: 4 keys, two with one hash, three in one group of 2 slots, two with one mask in different groups: groups double twice, one group grows. Set: 3 keys, two of which collide, groups double under an iterator. Program: 3 names, two of which collide, two long and one short, a first table of 1, 2 words of bytecode, 1 argument: every array grows or doubles. Values: 2 variables, nesting up to size 3. Strings: texts of up to 5 bytes with lead bytes of all lengths, in-place up to 2 bytes, chunks of 4. Numbers: all pairs of 5 bits whose second is at most 7 (TLC's own integers have no room for higher powers). Tokens: all sources of up to 4 atoms over three alphabets, integers of 5 bits |
| `scripts` | scripts of one and two threads: types, one owner, frames, what the interpreter trusts of programs, arguments, instruction pointer, no lost update, compiled programs mean what their source says, every script ends | all 3375 programs of 3 instructions of a pool of 15 on a string; 12 programs by hand for loops, sums, nested calls with 6 arguments, errors, C functions, members, 5 of them for what a thread's first C function takes, drops, passes on and gives back; 4 programs of two threads with up to three shared values; 75 compiled sources, a quarter of which are cut off before the closing brace. 44 slots, integers -5 .. 4, frames up to 12 |
| `script_deinit` | violation of `DeinitKeepsReferredValues` | the same |
| `scripts_take` | violation of `TakesArgAtIndex` | the same |
| `hashmap_overwrite` | violation of `OnePairPerKey` | 2 keys |
| `hashmap_clone` | violation of `FindsWhatIsThere` | clones of up to 4 pairs |

`MaxLevel` bounds nesting, `Handles` the handles at one time, `MaxHeaders`
the pairs of a map and the keys of a set, `MaxBytecode` and `MaxArgs`
what a builder is given, `MaxSize` and `Blocks` the values, `StackSlots`,
`ImmediateBits`, `JumpBits`, `IntMin` and `IntMax` the sizes of the machine.
Deadlock is checked where nothing may stop. It is not checked
in `syncqueue_nested`, because nested blocks may wait for each other (see
below), nor for `SyncPtr`, where nothing is left to do once the last handle is
gone, nor for scripts and algorithms, which end. Symmetry is used only for
threads, handles or values that are never compared and only in runs without
liveness.

### Fairness

`SyncQueue!Fairness`: a thread inside a call goes on when it can (weak fairness
of `Continue`), and a thread inside a sync block leaves it (weak fairness of
`Unlock`): blocks are finite pieces of script. Nothing makes a thread start a
call. Weak fairness is all that pthread's lock gives, for it may let readers
overtake a waiting writer, so no single thread is promised to get in;
`SyncBlocksProgress` says that the waiting threads as a whole make progress.
`SyncPtr!Fairness`: a handle inside its deinit goes on. No user is made to
release a lock: the premise of `AbandonedIsFreed` is that no handle is live, and
only a live handle can hold the lock to use the value.
`Interpreter!Fairness`: every thread goes on when it can, which is weak fairness
of `Step`, with the condition for being enabled written out (`MayStep`). A thread
waits in a `sync` only while a conflicting block is held, the scripts of the
instance unlock what they lock, and their loops end, so `EveryScriptEnds`; a
thread that fails inside a block keeps its locks, and those that wait for them
are exempt.

## Theorems

For any constants that satisfy the modules' assumptions: any set of threads, any finite
set of addresses, any bound on nesting, any finite set of handles, integers of any width,
any keys with any hashes, any group size, any bound on the headers that stays far below
2^64, any names of functions and types with any hashes, any first sizes of the arrays, any
well-formed programs, threads that run them and sizes of the stack, any types of the host
whose functions have the prototypes of `context.h` or, the destructor, that of the built-in
types, any source text.

**SyncQueue.** Mutual exclusion rests on `LocksMatchQueues`: the locks in shared
memory are those the queues account for, and an `RwLock` excludes. That is not
inductive alone. A thread that gave back a lock it has twice would free one it
still counts on, so no object may be claimed at two levels (`ClaimsDistinct`)
nor twice in one queue (`QueuesSorted`, strictly), and the loops must stay in the
range of their queue (`LoopsInRange`). `IInv` is their conjunction; `Invariance`
proves it from one lemma per action, and `TypeCorrect`, `AlwaysSorted`,
`NoLockLost` and `BlocksExclude` follow from it. `AlwaysAllocated` adds that the
levels below `current` and the nonempty queues lie inside the thread's array,
which needs `IInv` for the range of `current` only. `ImplementsBlocks` is the
refinement: under the mapping `Blocks`, `Enter` is the abstract step that enters
(what it adds is held, so nobody inside a block conflicts with it), `Unlock` is
the one that leaves, and every other action changes the loop of one thread or a
queue at or above its depth, and so stutters.

`FlatDeadlockFree` says that blocks that do not nest never deadlock: of the finitely many
objects somebody waits for, take the one with the greatest address; whoever holds it
waits for one above it, or not at all. `DeadlockFreeInOrder` is the same of nested blocks
whose objects are all above those of the outer ones (`WaitsInOrder`), which nothing in
the code sees to. `AlwaysWithinCapacity` assumes at most `2 * FirstCapacity` objects, so
that a sorted queue, which has none twice, fits into the second buffer; the run
`syncqueue_overrun` shows what happens with one more.

**SyncPtr.** `IInv` relates the counts to the handles that exist, the lock to
the calls that hold it, the flag and the value to the one handle that tears the
object down, and every decision to free to there being no handle left. Counting
is done with `Cardinality`; the lemmas on adding and removing one element come
first. `MemoryKept` and `ValueKept` hold whatever overlaps. `FreedOnce` needs
one more invariant, which holds until the two overlap, `Apart`: while a value is torn
down no weak handle is in its deinit, and the reverse.

**HashTable.** `Table(m, entries, s)` says that the headers of `m` are linked as the
sequence `s` of addresses, each once, `before` mirroring `after`, that every group counts
its used slots, and that there is one slot for each header, in the group of its hash and
with its mask. That a header is filed under the hash it was inserted with, not under
that of its key, is what makes this an invariant of clones as well. The lemmas go through
the C functions one by one: compacting a group loses no slot (`UsedOfLists`), dealing
out again gives each header one slot under the new count, inserting appends to `s`
(`InsertedTable`), erasing takes one out of it (`ErasedTable`), a clone has the same
entries in the same order (`ClonedEqual`), deinit unlinks them all (`DeinitedFrees`).
Loops are proved by induction on the number of their turns, for which `NatLemmas`
gives induction and recursion over sets (`Induction`, `Recursion`): the library's
theorems have an operator for a parameter.

**HashMap.** With any clones and inserts, `HeadersKept` (`SlotsMatchPairs`) and
`IterationsKept` (`IterationsMirror`, so a clone of any size is equal to its map).
`FindsKept` and `TypesKept` need two more invariants: every header has the hash of its
key (`Keyed`), and what is available and what is used together stay between the load
factor and that and `MaxHeaders` (`Roomy`; doubling adds what is there once more).
A clone of several pairs breaks both, so they assume `CloneLimit <= 1`.
`OrderKept` is the refinement of `OrderedMap`, for programs that insert new keys only
(`Reinsert = FALSE`): an insert appends an entry, an erase leaves one out, a write changes
a value, a clone of any size stutters.

**HashSet.** The invariant adds that no key has two headers and that the iterator is
`OnItsWay` along `s`: no key that is due lies before the header it goes to next, and no
key it has been to lies behind. An insert appends to `s`, so it stays behind the
iterator, or before it in reverse; an erase of another header keeps the order of the rest;
the slots that move meanwhile are not links. `IterationKept` and `ClonesKept` hold for
clones of any size, `SetKept` (`KeysFiled`) assumes `CloneLimit <= 1`.

**Numbers.** `AddOverflowsExact`, `SubOverflowsExact` and `MulOverflowsExact`: the
checks before a sum, a difference and a product say exactly whether the result fits,
for two's complement of any width; that of a product where it does not trap, by the
bounds of C's quotient (`QuotientFits`) and the growth of products (`ProductsGrow`).
`IPowExact` is the same of the power by squaring, as far as no check traps. The loop goes
on after an overflow, with numbers that are wrapped around. Its invariant (`LoopHolds`) says that there are exponents `e` and `d` with `e + d *
exp = b`, that the accumulator and the base are the powers `a^e` and `a^d`, wrapped, and
that a check that spoke of an overflow was right about `a^b` (`Tells`). It holds because
wrapping respects products (`WrappedProduct`), exponents add up (`PowersAdd`), once a
power does not fit no higher one does (`LargePowers`), and the loop ends before it squares
what the result does not need.
`ArithmeticAlwaysExact` (`ArithmeticExact`) is all four.

**Strings.** `StringsAlwaysAgree` (`StringsAgree`) is about every two texts of bytes and
every place, for any size of a vector and of what a string keeps in place; of searching it
says what `FindsOccurrences` does, the miss at the end of the string included. The check of
the encoding is a function from places to truth values that looks a character ahead.
`CharacterByCharacter` says that a text is well-formed from a place on just if a whole
character stands there (`Begins`) and the text is well-formed behind it; `ReadsWhole` that
the check reads such a character and goes on behind it, and no other. So the two agree:
at the last place where they would not, they would not at a later one either
(`ValidExact`). Strings of equal length have equal chunks just if they have equal bytes
(`LanesEqual`: byte `k` is in chunk `(k - 1) \div Chunk`), which with the zeros behind a
text (`StringOfBytes`) gives the two comparisons; `CmpExact` finds the first byte that
differs, or the terminator that does. `CutAndJoined` is about concatenations and
substrings, of which what is cut off must not change how the rest reads;
`ShortestPrinted` about the zeros and the point that are cut from a printed number.

**Contexts.** `WaysAlwaysGood` (`WaysAreGood`) goes through the tables of `context.c`. A
container that clones, compares for equality or hashes a value never calls a handler with the wrong
arguments, or one that fails whatever it gets: those of booleans and pointers (see Findings)
are all behind a branch that does without the call. It destroys with the wrong argument only
values of the host whose destructor takes a mutable reference. Of the built-in types,
cloning fails an assertion for orderings, results and unique pointers and no others, a type
whose equality fails has no hash either, and an order is got to without a call or
fails. For the types of the host it assumes no more than that a function is either missing or has the
prototype of `context.h`, or a destructor that of the built-in types
(`UserContextsAssumption`). One lemma per operation (`DeinitsWell`,
`ClonesWell`, `ComparesWell`, `HashesWell`, `OrdersWell`).

**Tokenizer.** `SourcesAreCovered` (`TokensCoverSource`) is about every source: a
sequence of any length of keywords, characters, and any other words. `Sound` says of one
place that the token read there is a good one, or an error, or that nothing begins there;
`TokensSound` proves it by kinds. An operator is found at the first entry of the table
that stands there (`MatchSound`), which is the longest because a longer one further
down begins with another character (`LongestFirst`). A string ends at the first quote
that no backslash escapes (`SearchFinds`). Of a number, the loop that looks for
an overflow, digit by digit, and the value the digits spell agree (`DigitsRead`,
`WholePartRead`), for integers of any width whose greatest does not end in a 9
(`LiteralsAssumption`: it is a power of two less one, and no power of two ends in a 0): with one that does, a tenth digit
could not overflow where the loop looks for it. `TokensInv` keeps the iterator within the
source; `NoTokenRead` and `OneTokenRead` are the two ways a step ends.

**Program.** `EveryBlockIsFreedOnce` and `TablesAlwaysFind` follow from `ProgramIInv`
(`ProgramInvariant`). The first alone is not inductive: that a table's new array is not
one that somebody points to must be known of the list of the arena, and that the array
that is freed is the arena's of the table. The invariant says who has the mutex while a
callback or deinit is under way (`HostHolds`); that the builder has the blocks of its two
capacities and of its name (`BuilderHolds`); that each table is a table of what was put into it, in the
groups that the hashes and the number of groups give, and that its arrays, its groups,
the objects of both tables, what they point to, and the program's data are all different
blocks (`TablesHold`); that no two of the headers and the builder have one name's block; and that the memory has
exactly these, the builder's, the headers' names, and the list (`MemoryHolds`). So the names
of the functions that were built are what is left, with a builder's blocks, after the
program is gone: the theorem says so, and since nobody frees those, they leak. In `ArenaHolds(m, A, B)`, the part about memory, every block of
the arena's is at the place of the list its number says: what is allocated next is new,
however the list doubled, and to free a block clears one place. The lemmas go through
the C functions in the order in which they call each other (`ArenaMallocHolds`,
`ArenaFreeHolds`, `RoomEnsuredSound`, `PairInsertedSound`, `PairsDealtSound`,
`GroupsDealtSound`, `ElementsEnsuredSound`, `GroupsEnsuredSound`, `TableInsertedSound`,
`FoundInSound`), each for any memory and table, then one per action (`BuildKeeps` and the
others). In the middle of dealing out, old and new groups are alive at once, and the
pairs dealt so far are told by the names they have (`Dealing`). Assumed are
only that hashes are pairs of numbers and that the first sizes are positive; two names
may collide in group and mask, and are still told apart.

**Interpreter.** Three theorems follow threads through every operation, call, return,
error and step of a C function. `InstructionsAreReached` (`AtInstruction`) says that the
instruction pointer never gets into the middle of an instruction. After a return it is
what the C activation of the caller's `execute_operation` will set, so the invariant
`ControlOK` is about all calls that have not returned: the resumption of each leads to an
instruction of the function below it (`Resumes`), and if that is a C function, which step
of it is next. One lemma per operation (`LoadControl` and the others) shows that the
length it advances by is what `Successors` says of its encoding; operations that only
touch slots leave the fields of control alone (`Like`).

`FramesAreRestored` (`FramesMatchCalls`) says that every return restores the frame of the
caller. The reserved slots below a frame are ordinary slots of the same array that values
are written into, so the invariant `Framed` is about memory: frames lie one behind the other
(`Chain`), and the four words below each hold the one before (`SavedAt`). `Kept` says that
an operation leaves a set of slots as they are: one lemma per operation shows that what
it writes is within its frame (`AtFrame`, from the assertions of `stack_set_context_at` and
its kind), above all frames (the arguments of the next call, `KeptPushedArgs`), or outside
of both, where `TrustKept` is needed. `ChainAppend` and `ChainFront` are the push and the
pop. Arguments are pushed by a fold, which `PushedOneByOne` unfolds.

`ArgumentsAlwaysArrive` (`ArgumentsArrive`) is an action property: a step that makes a call,
of any kind and at any depth, leaves each argument in its slot of the new frame, with its
context, and what a C function takes before it calls another one is what it was passed at
that position.
That the values arrive is `PushedArgsArrive`: each push fills its own slots and leaves those
before it alone, with `SlotsInOrder` for where they are, from the recursion of `ArgSlots`
(`Sums`). What a C function takes needs an invariant, `Arguments`. Its part `Tracked`
says that while the word behind the arguments of the function on top holds offsets, they are
those of its arguments, and the arguments are in their slots unless they were taken; and that
if it holds anything else, that is the length of a frame, and the function has called another
one (`HasCalled`). Such a call writes over the word, for the callee's frame begins there, and
what the function takes after the return (`LeftArgs`) comes from the positions that are read
from the length: it need not be an argument, as `scripts_take` shows, so the property leaves it out.

The hypotheses of the three are invariants of the run `scripts`: `InstructionsAreReached` needs
the first part of `TrustKept` (`CalleesExist`); `FramesAreRestored` also that writes stay
outside the reserved slots, and from `TypeOK` that the stack does not overflow and that
contexts are types; `ArgumentsAlwaysArrive` all of both, and that every type but none has a
size greater than 0 (`StackAssumption`), as all contexts in the repository have: the slot of a value without
bytes would be the next one's. Without these hypotheses the statements are false, since
the code has no check for what they say.

Only model-checked: liveness (`NonBlockingCallsReturn`, `SyncBlocksProgress`,
`AbandonedIsFreed`, `EveryScriptEnds`), which is out of reach of the prover; `Values`, whose
operators are RECURSIVE as its values are trees; `Compiler`, which computes by recursion over
its input. Of the interpreter, `TypeOK`, `TrustKept` and `OwnedOnce` do not hold of
every well-formed program, because no instruction checks for a full stack, for the type
of what it moves, or for a reference that dangles; `NoLostUpdate` and `CompiledMeaning` are about what particular programs compute.

## Findings

- A sync block with nine objects stores past the end of its queue's buffer
  (`syncqueue_overrun`): the second growth computes the capacity it already has.
- The last weak handle, when it finds the object expired, frees the header while
  the strong one that set the flag has still to unlock and to read the count
  (`syncptr_weak_free`).
- First calls of `cubs_hash_seed` that race can return different seeds
  (`hash_seed`).
- `cubs_map_insert` of an existing key adds a second pair (`hashmap_overwrite`); so does
  `cubs_set_insert` (`set.c:189`).
- `cubs_map_clone` files every pair under the hash of the first
  (`hashmap_clone`); so does `cubs_set_clone` (`set.c:392`).
- `execute_deinit` destroys values that its slot only refers to
  (`script_deinit`).
- An argument that a C function takes after a call of its own is read from a position that
  is the length of the callee's frame, or 0 (`scripts_take`).

Also met while modelling, and modelled as the code has it, without a run of its
own.

In the interpreter:

- `execute_call` copies arguments into the new frame and leaves their contexts
  in the caller's: both frames own them.
- `execute_set_reference` does not set the source's context to NULL as
  `bytecode.h:43-45` says.
- A runtime error leaves the locks of its sync block held (`interpreter.c:862`).
- The encoder of calls by a source stores `CALL_TYPE_IMMEDIATE`, those of
  increments `OpCodeAdd`; the interpreter reads the destination of an increment where an
  addition has its own (`interpreter.c:685`), behind all that an increment's operand has: the sum goes into
  slot 0 (`IncrementDestination`). A default option is loaded with the context of a set, and
  a user type's default takes the first word of its context, the size, for the
  context.

In the program:

- `cubs_program_deinit` frees the headers of functions with the arena but not the names in
  them, which `program.c:192` moved out of the builder: long names leak, though
  `function_map.h:21` says that deinitialising the arena frees everything.
- `cubs_type_map_find` and `cubs_type_map_find_mut` dereference NULL if there is no such
  type (`type_map.c:12`, `:24`), where `type_map.h:24` promises NULL.
- `string_slice_pointer_map.h:195` moves as many bytes as it has pointers; only
  `find` reads the table, and goes through the groups.
- `cubs_program_deinit` unlocks the
  context's mutex before it frees the memory it lies in: a callback that comes
  in between still gets an ended context (`program.c:80-93`).

In the primitives:

- `cubs_context_fast_deinit` passes a destructor the value (`context.c:1149`), not the
  mutable reference that `context.h:19` says it expects.
- `cubs_context_fast_compare` calls the function for equality (`context.c:1299`) and asserts
  that it returns an order (`context.c:1310`).
- `cubs_string_find` misses an occurrence where the search starts that ends at the end of
  the string (`string.c:272`), where `string.h:89` promises the first from there on.
- `cubs_utf8_is_valid` reads past a slice, so that a substring
  that ends inside a character is accepted; the hash of a heap string leaves
  out its last chunk.
- The handlers `bool_eql` and `bool_compare` of `context.c` assert, `bool_hash`
  reads 8 bytes, those of shared and weak pointers assert the context of errors,
  `mut_ref_hash` that of constant references; `cubs_context_fast_eql` tests for weak pointers twice.
- An option without a destructor never frees what it keeps on the heap.
- `cubs_math_would_mul_overflow` divides the least integer by -1, which traps.

In the compiler:

- A keyword before one of `{ } [ ] : = +` is read as an identifier; a number before
  `)`, `}` or `+` is an error; 9223372036854775808 is accepted as the least integer;
  a minus before a space or a semicolon is a literal 0; lines and columns of
  error positions never advance, and after an error every next one reports it
  again.
- A second argument of the same name is dropped; the end of the source passes
  for a closing brace; only the first function of a file is parsed; `const x: int
  = y;` fails an assertion, as does a variable named like a temporary;
  `cubs_compile` has no body.

## Not modelled

- Nested sync blocks may deadlock and nothing in the code prevents it; the
  language forbids nesting, so no property is claimed.
- `cubs_unique_clone` and the equality of pointers; the value offset of the
  constant iterators for keys whose size is not a multiple of 8.
- Iterators of arrays and the functions of references, which forward; vectors,
  element by element; conversions between strings and numbers other than the
  digits that are cut from a printed float: libc does them.
- `build_options.c`, a list; `thread.c`, `mem.c`, `panic.c` and the wrappers of
  `locks.c`: the platform. The C++ and Zig bindings, and doctest.
- The precision of floats in scripts, whose values are integers here, casts and the operations that
  `execute_operation` does not know yet.
- Text: messages, names of types, the layout of error positions.
- Failing allocations, which panic.

## Plan

The modules follow what matters most to the language's promises: sync blocks and
pointers, the interpreter on its stack, the program's memory, the containers and
values, the compiler. All of these are on disk. What is left is proof:

1. `Interpreter`: what of `OwnedOnce` holds for all that a compiler writes.
2. In `HashSeed`, one seed once it is stored and nobody is past the load.
