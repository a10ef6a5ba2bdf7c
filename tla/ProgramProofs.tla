---------------------------- MODULE ProgramProofs ----------------------------
(***************************************************************************)
(* Proofs about Program: for any names with any hashes and any first       *)
(* sizes, every block of a program's memory has one owner and is freed     *)
(* once, and the tables find what was put into them.                       *)
(*                                                                         *)
(* The arena is proved first: ArenaHolds(m, A, B) says that the memory m   *)
(* has the blocks A of the arena and B of a builder and of the names that  *)
(* headers have from one, and nothing else.                                *)
(* What works on a table needs to know no more about memory.               *)
(***************************************************************************)
EXTENDS Program, NatLemmas, SequenceTheorems

-----------------------------------------------------------------------------
(***************************************************************************)
(* Memory.                                                                 *)
(***************************************************************************)

Blocks == ({"none", "arena", "list", "code", "args"} \X Nat) \cup ({"name"} \X Names)
ArenaBlocks == {"arena"} \X Nat
BuilderBlocks == ({"code", "args"} \X Nat) \cup ({"name"} \X Names)

Memories == [live : SUBSET Blocks, wrong : SUBSET Blocks,
             allocations : Seq(Blocks), list : Blocks, capacity : Nat]

\* Each block of the arena is in the place of the list that its number says, or freed.
Listed(m) ==
  /\ Len(m.allocations) <= m.capacity
  /\ \A i \in 1 .. Len(m.allocations) : m.allocations[i] \in {NoBlock, <<"arena", i>>}
  /\ m.list = IF m.capacity = 0 THEN NoBlock ELSE <<"list", m.capacity>>

Allocated(m) == {m.allocations[i] : i \in 1 .. Len(m.allocations)} \ {NoBlock}

ArenaHolds(m, A, B) ==
  /\ m \in Memories /\ m.wrong = {} /\ Listed(m)
  /\ A = Allocated(m) /\ B \subseteq BuilderBlocks
  /\ m.live = A \cup B \cup ({m.list} \ {NoBlock})

\* The first sizes are positive.
LEMMA FirstSizes ==
  /\ QualifiedGroupSize \in Nat /\ QualifiedGroupSize # 0
  /\ DefaultElements \in Nat /\ DefaultElements # 0
  /\ DefaultAllocations \in Nat /\ DefaultAllocations # 0
BY FirstSizesAssumption

\* Blocks for different purposes are different.
LEMMA BlocksDiffer ==
  /\ NoBlock \in Blocks /\ NoBlock \notin ArenaBlocks /\ NoBlock \notin BuilderBlocks
  /\ \A i \in Nat : /\ <<"arena", i>> \in Blocks /\ <<"arena", i>> \in ArenaBlocks
                    /\ <<"list", i>> \in Blocks /\ <<"list", i>> # NoBlock
                    /\ <<"list", i>> \notin ArenaBlocks /\ <<"list", i>> \notin BuilderBlocks
  /\ \A i, j \in Nat : /\ <<"arena", i>> = <<"arena", j>> => i = j
                       /\ <<"list", i>> = <<"list", j>> => i = j
  /\ \A b \in ArenaBlocks : b \notin BuilderBlocks /\ b \in Blocks
  /\ \A b \in BuilderBlocks : b \in Blocks
BY DEF Blocks, NoBlock, ArenaBlocks, BuilderBlocks

\* What the arena holds are blocks of the arena.
LEMMA AllocatedBlocks ==
  ASSUME NEW m \in Memories, Listed(m)
  PROVE  /\ Allocated(m) \subseteq ArenaBlocks
         /\ <<"arena", Len(m.allocations) + 1>> \notin Allocated(m)
<1>1. Len(m.allocations) \in Nat
  BY LenProperties DEF Memories
<1>2. \A b \in Allocated(m) : \E i \in 1 .. Len(m.allocations) : b = <<"arena", i>>
  BY DEF Allocated, Listed
<1>3. \A i \in 1 .. Len(m.allocations) : i \in Nat /\ i # Len(m.allocations) + 1
  BY <1>1
<1>4. Len(m.allocations) + 1 \in Nat
  BY <1>1
<1>. QED  BY <1>2, <1>3, <1>4, BlocksDiffer

\* The arena, the builder and the list have different blocks.
LEMMA HeldBlocks ==
  ASSUME NEW m, NEW A, NEW B, ArenaHolds(m, A, B)
  PROVE  /\ A \subseteq ArenaBlocks /\ B \subseteq BuilderBlocks /\ NoBlock \notin A \cup B
         /\ m.list \notin A \cup B
         /\ m.list # NoBlock => m.list \in m.live /\ m.list \notin ArenaBlocks \cup BuilderBlocks
<1>1. A \subseteq ArenaBlocks /\ B \subseteq BuilderBlocks
  BY AllocatedBlocks DEF ArenaHolds
<1>2. NoBlock \notin ArenaBlocks \cup BuilderBlocks
  BY BlocksDiffer
<1>3. m.list # NoBlock => m.list \notin ArenaBlocks \cup BuilderBlocks
  <2>1. m.list = NoBlock \/ m.list = <<"list", m.capacity>>
    BY DEF ArenaHolds, Listed
  <2>2. m.capacity \in Nat
    BY DEF ArenaHolds, Memories
  <2>. QED  BY <2>1, <2>2, BlocksDiffer
<1>4. m.list # NoBlock => m.list \in m.live
  BY DEF ArenaHolds
<1>. QED  BY <1>1, <1>2, <1>3, <1>4

\* Memory is a record.
MemoryShape(m) ==
  m = [live |-> m.live, wrong |-> m.wrong, allocations |-> m.allocations,
       list |-> m.list, capacity |-> m.capacity]

\* Every memory has the fields of memory.
LEMMA MemoriesShape ==
  \A m \in Memories : MemoryShape(m)
BY DEF Memories, MemoryShape

\* What malloc and free change.
LEMMA MallocRecord ==
  ASSUME NEW m, MemoryShape(m), NEW b
  PROVE  LET n == Malloc(m, b)
         IN  /\ MemoryShape(n) /\ n.live = m.live \cup {b} /\ n.wrong = m.wrong
             /\ n.allocations = m.allocations /\ n.list = m.list /\ n.capacity = m.capacity
<1> DEFINE live == m.live \cup {b}
           n == Malloc(m, b)
<1>1. n = [m EXCEPT !.live = live]
  BY DEF Malloc
<1> HIDE DEF live, n
<1>2. n = [live |-> live, wrong |-> m.wrong, allocations |-> m.allocations,
           list |-> m.list, capacity |-> m.capacity]
  BY <1>1 DEF MemoryShape
<1>3. n.live = live /\ n.wrong = m.wrong /\ n.allocations = m.allocations
      /\ n.list = m.list /\ n.capacity = m.capacity
  BY <1>2
<1>. QED  BY <1>2, <1>3 DEF MemoryShape, live, n

\* What free changes.
LEMMA FreeRecord ==
  ASSUME NEW m, MemoryShape(m), NEW b
  PROVE  LET n == Free(m, b)
         IN  /\ MemoryShape(n) /\ n.live = m.live \ {b}
             /\ n.wrong = m.wrong \cup ({b} \ m.live)
             /\ n.allocations = m.allocations /\ n.list = m.list /\ n.capacity = m.capacity
<1> DEFINE live == m.live \ {b}
           wrong == m.wrong \cup ({b} \ m.live)
           n == Free(m, b)
<1>1. n = [m EXCEPT !.live = live, !.wrong = wrong]
  BY DEF Free
<1> HIDE DEF live, wrong, n
<1>2. n = [live |-> live, wrong |-> wrong, allocations |-> m.allocations,
           list |-> m.list, capacity |-> m.capacity]
  BY <1>1 DEF MemoryShape
<1>3. n.live = live /\ n.wrong = wrong /\ n.allocations = m.allocations
      /\ n.list = m.list /\ n.capacity = m.capacity
  BY <1>2
<1>. QED  BY <1>2, <1>3 DEF MemoryShape, live, wrong, n

\* So does an array that doubles, if the old one was alive.
LEMMA RegrownRecord ==
  ASSUME NEW m, MemoryShape(m), NEW new, NEW old, old # NoBlock => old \in m.live
  PROVE  LET n == Regrown(m, new, old)
         IN  /\ MemoryShape(n)
             /\ n.live = (m.live \cup {new}) \ ({old} \ {NoBlock}) /\ n.wrong = m.wrong
             /\ n.allocations = m.allocations /\ n.list = m.list /\ n.capacity = m.capacity
<1> DEFINE grown == Malloc(m, new)
<1>1. /\ MemoryShape(grown) /\ grown.live = m.live \cup {new} /\ grown.wrong = m.wrong
      /\ grown.allocations = m.allocations /\ grown.list = m.list
      /\ grown.capacity = m.capacity
  BY MallocRecord
<1> HIDE DEF grown
<1>2. CASE old = NoBlock
  <2>1. Regrown(m, new, old) = grown
    BY <1>2 DEF Regrown, grown
  <2>2. (m.live \cup {new}) \ ({old} \ {NoBlock}) = m.live \cup {new}
    BY <1>2
  <2>. QED  BY <1>1, <2>1, <2>2
<1>3. CASE old # NoBlock
  <2>1. Regrown(m, new, old) = Free(grown, old)
    BY <1>3 DEF Regrown, grown
  <2>2. grown.wrong \cup ({old} \ grown.live) = m.wrong
    BY <1>1, <1>3
  <2>3. {old} \ {NoBlock} = {old}
    BY <1>3
  <2> DEFINE n == Free(grown, old)
  <2>4. /\ MemoryShape(n) /\ n.live = grown.live \ {old}
        /\ n.wrong = grown.wrong \cup ({old} \ grown.live)
        /\ n.allocations = grown.allocations /\ n.list = grown.list
        /\ n.capacity = grown.capacity
    BY <1>1, FreeRecord
  <2> HIDE DEF n
  <2>. QED  BY <1>1, <2>1, <2>2, <2>3, <2>4 DEF n
<1>. QED  BY <1>2, <1>3

\* The list doubles, and nothing else changes.
LEMMA ListEnsuredHolds ==
  ASSUME NEW m, NEW A, NEW B, ArenaHolds(m, A, B)
  PROVE  /\ ArenaHolds(ListEnsured(m), A, B)
         /\ ListEnsured(m).allocations = m.allocations
         /\ Len(m.allocations) < ListEnsured(m).capacity
<1> DEFINE capacity == IF m.capacity = 0 THEN DefaultAllocations ELSE 2 * m.capacity
           list == <<"list", capacity>>
           n == ListEnsured(m)
<1>1. m \in Memories /\ Len(m.allocations) \in Nat /\ m.capacity \in Nat
  BY LenProperties DEF ArenaHolds, Memories
<1>2. CASE Len(m.allocations) # m.capacity
  BY <1>1, <1>2 DEF ListEnsured, ArenaHolds, Listed
<1>3. CASE Len(m.allocations) = m.capacity
  <2>1. capacity \in Nat /\ capacity > m.capacity /\ capacity # 0
    BY <1>1, FirstSizes
  <2> HIDE DEF capacity
  <2>2. list \in Blocks /\ list # NoBlock /\ list # m.list /\ list \notin m.live
    <3>1. list # m.list
      <4>1. m.capacity # capacity
        BY <1>1, <2>1
      <4>. QED  BY <1>1, <2>1, <4>1, BlocksDiffer DEF ArenaHolds, Listed
    <3>2. list \in Blocks /\ list # NoBlock /\ list \notin ArenaBlocks \cup BuilderBlocks
      BY <2>1, BlocksDiffer
    <3>3. A \subseteq ArenaBlocks /\ B \subseteq BuilderBlocks
      BY AllocatedBlocks DEF ArenaHolds
    <3>. QED  BY <3>1, <3>2, <3>3 DEF ArenaHolds
  <2> HIDE DEF list
  <2> DEFINE r == Regrown(m, list, m.list)
             live == (m.live \cup {list}) \ ({m.list} \ {NoBlock})
  <2>3. live = A \cup B \cup {list} /\ live \in SUBSET Blocks
    <3>2. /\ m.list = NoBlock \/ m.list \notin A \cup B
          /\ NoBlock \notin A \cup B
      BY HeldBlocks
    <3>3. m.live \in SUBSET Blocks
      BY <1>1 DEF Memories
    <3>. QED  BY <2>2, <3>2, <3>3 DEF ArenaHolds
  <2>4. n = [live |-> live, wrong |-> {}, allocations |-> m.allocations,
             list |-> list, capacity |-> capacity]
    <3>1. m.list # NoBlock => m.list \in m.live
      BY DEF ArenaHolds
    <3>2. /\ MemoryShape(r) /\ r.live = live /\ r.wrong = {}
          /\ r.allocations = m.allocations
      BY <1>1, <3>1, MemoriesShape, RegrownRecord DEF ArenaHolds
    <3>3. n = [r EXCEPT !.list = list, !.capacity = capacity]
      BY <1>3 DEF ListEnsured, list, capacity
    <3> HIDE DEF r, live, n
    <3>. QED  BY <3>2, <3>3 DEF MemoryShape
  <2> HIDE DEF n, live, list, capacity
  <2>5. n \in Memories
    BY <1>1, <2>1, <2>2, <2>3, <2>4 DEF Memories
  <2>6. Listed(n) /\ Allocated(n) = Allocated(m)
    BY <1>1, <1>3, <2>1, <2>4 DEF ArenaHolds, Listed, Allocated, list
  <2>7. n.live = A \cup B \cup ({n.list} \ {NoBlock})
    BY <2>2, <2>3, <2>4
  <2>. QED  BY <1>1, <1>3, <2>1, <2>4, <2>5, <2>6, <2>7 DEF ArenaHolds, n
<1>. QED  BY <1>2, <1>3

\* What the arena allocates is new, and the last of its list.
LEMMA ArenaMallocHolds ==
  ASSUME NEW m, NEW A, NEW B, ArenaHolds(m, A, B)
  PROVE  LET q == ArenaMalloc(m)
         IN  /\ ArenaHolds(q, A \cup {LastBlock(q)}, B)
             /\ LastBlock(q) \notin A /\ LastBlock(q) \in ArenaBlocks
<1> DEFINE k == Len(m.allocations)
           block == <<"arena", k + 1>>
           n == ListEnsured(m)
           q == ArenaMalloc(m)
           live == n.live \cup {block}
           allocations == Append(m.allocations, block)
<1>1. /\ ArenaHolds(n, A, B) /\ n.allocations = m.allocations /\ k < n.capacity
  BY ListEnsuredHolds
<1>2. n \in Memories /\ k \in Nat /\ n.capacity \in Nat /\ m.allocations \in Seq(Blocks)
  BY <1>1, LenProperties DEF ArenaHolds, Memories
<1>3. block \in Blocks /\ block \in ArenaBlocks /\ block # NoBlock
  <2>1. k + 1 \in Nat
    BY <1>2
  <2> HIDE DEF k
  <2>2. block \in Blocks /\ block \in ArenaBlocks
    BY <2>1, BlocksDiffer
  <2>. QED  BY <2>2, BlocksDiffer
<1>4. block \notin A
  BY <1>1, AllocatedBlocks DEF ArenaHolds
<1>5. /\ allocations \in Seq(Blocks) /\ Len(allocations) = k + 1 /\ allocations[k + 1] = block
      /\ \A i \in 1 .. k : allocations[i] = m.allocations[i]
  BY <1>2, <1>3, AppendProperties
<1>6. q = [live |-> live, wrong |-> {}, allocations |-> allocations,
           list |-> n.list, capacity |-> n.capacity]
  <2> DEFINE grown == Malloc(n, block)
  <2>1. /\ MemoryShape(grown) /\ grown.live = live /\ grown.wrong = n.wrong
        /\ grown.allocations = n.allocations /\ grown.list = n.list
        /\ grown.capacity = n.capacity
    BY <1>2, MemoriesShape, MallocRecord
  <2>2. q = [grown EXCEPT !.allocations = Append(@, block)]
    BY DEF ArenaMalloc
  <2> HIDE DEF grown, q, n, live
  <2>. QED  BY <1>1, <2>1, <2>2 DEF MemoryShape, ArenaHolds
<1> HIDE DEF allocations, n, q, live, block
<1>7. /\ q.live = live /\ q.wrong = {} /\ q.allocations = allocations /\ q.list = n.list
      /\ q.capacity = n.capacity
  BY <1>6
<1>8. LastBlock(q) = block
  BY <1>5, <1>7 DEF LastBlock
<1>9. q \in Memories
  BY <1>2, <1>3, <1>5, <1>6 DEF Memories, live
<1>10. \A i \in 1 .. k + 1 : i = k + 1 \/ i \in 1 .. k
  BY <1>2
<1>11. Allocated(q) = A \cup {block}
  <2>1. \A i \in 1 .. k : i \in 1 .. k + 1
    BY <1>2
  <2>2. A = {m.allocations[i] : i \in 1 .. k} \ {NoBlock}
    BY DEF ArenaHolds, Allocated
  <2>3. Allocated(q) = {allocations[i] : i \in 1 .. k + 1} \ {NoBlock}
    BY <1>5, <1>7 DEF Allocated
  <2>4. k + 1 \in 1 .. k + 1
    BY <1>2
  <2> HIDE DEF k
  <2>. QED  BY <1>3, <1>5, <1>10, <2>1, <2>2, <2>3, <2>4
<1>12. Listed(q)
  <2>1. \A i \in 1 .. k : m.allocations[i] \in {NoBlock, <<"arena", i>>}
    BY DEF ArenaHolds, Listed
  <2>2. \A i \in 1 .. k + 1 : allocations[i] \in {NoBlock, <<"arena", i>>}
    BY <1>5, <1>10, <2>1 DEF block
  <2>3. n.list = IF n.capacity = 0 THEN NoBlock ELSE <<"list", n.capacity>>
    BY <1>1 DEF ArenaHolds, Listed
  <2>4. k + 1 <= n.capacity
    BY <1>1, <1>2
  <2>. QED  BY <1>5, <1>7, <2>2, <2>3, <2>4 DEF Listed
<1>13. q.live = (A \cup {block}) \cup B \cup ({q.list} \ {NoBlock})
  BY <1>1, <1>7 DEF ArenaHolds, live
<1>14. ArenaHolds(q, A \cup {block}, B)
  BY <1>1, <1>7, <1>9, <1>11, <1>12, <1>13 DEF ArenaHolds
<1>. QED  BY <1>3, <1>4, <1>8, <1>14 DEF q

\* The arena frees what it allocated.
LEMMA ArenaFreeHolds ==
  ASSUME NEW m, NEW A, NEW B, ArenaHolds(m, A, B), NEW block \in A
  PROVE  /\ ArenaHolds(ArenaFree(m, block), A \ {block}, B)
         /\ ArenaFree(m, block).list = m.list
<1> DEFINE k == Len(m.allocations)
           f == Free(m, block)
           q == ArenaFree(m, block)
           allocations == [i \in 1 .. k |-> IF m.allocations[i] = block THEN NoBlock
                                            ELSE m.allocations[i]]
           live == m.live \ {block}
<1>1. /\ m \in Memories /\ k \in Nat /\ m.allocations \in Seq(Blocks)
      /\ DOMAIN m.allocations = 1 .. k /\ \A i \in 1 .. k : m.allocations[i] \in Blocks
  BY LenProperties DEF ArenaHolds, Memories
<1>2. block \in ArenaBlocks /\ block # NoBlock /\ block \in m.live /\ block \notin B
  BY AllocatedBlocks, BlocksDiffer DEF ArenaHolds
<1>3. \E i \in 1 .. k : m.allocations[i] = block
  BY DEF ArenaHolds, Allocated
<1>4. q = [live |-> live, wrong |-> {}, allocations |-> allocations,
           list |-> m.list, capacity |-> m.capacity]
  <2>1. /\ MemoryShape(f) /\ f.live = live /\ f.wrong = m.wrong \cup ({block} \ m.live)
        /\ f.allocations = m.allocations /\ f.list = m.list /\ f.capacity = m.capacity
    BY <1>1, MemoriesShape, FreeRecord
  <2>2. q = [f EXCEPT !.allocations = [i \in DOMAIN @ |-> IF @[i] = block THEN NoBlock
                                                          ELSE @[i]]]
    BY <1>1, <1>3 DEF ArenaFree
  <2>3. m.wrong \cup ({block} \ m.live) = {}
    BY <1>2 DEF ArenaHolds
  <2> HIDE DEF f, q, live
  <2>4. q = [f EXCEPT !.allocations = allocations]
    BY <1>1, <2>1, <2>2
  <2> HIDE DEF allocations
  <2>. QED  BY <2>1, <2>3, <2>4 DEF MemoryShape
<1> HIDE DEF f, q, live
<1>5. /\ q.live = live /\ q.wrong = {} /\ q.allocations = allocations /\ q.list = m.list
      /\ q.capacity = m.capacity
  <2> HIDE DEF allocations
  <2>. QED  BY <1>4
<1>6. /\ allocations \in Seq(Blocks) /\ Len(allocations) = k
      /\ \A i \in 1 .. k : allocations[i] = IF m.allocations[i] = block THEN NoBlock
                                            ELSE m.allocations[i]
  <2>1. allocations \in [1 .. k -> Blocks]
    BY <1>1, BlocksDiffer
  <2>. QED  BY <1>1, <2>1, LenProperties
<1> HIDE DEF allocations
<1>7. q \in Memories
  BY <1>1, <1>4, <1>6 DEF Memories, live
<1>8. Listed(q)
  BY <1>5, <1>6 DEF ArenaHolds, Listed
<1>9. Allocated(q) = A \ {block}
  <2>1. A = {m.allocations[i] : i \in 1 .. k} \ {NoBlock}
    BY DEF ArenaHolds, Allocated
  <2>2. Allocated(q) = {allocations[i] : i \in 1 .. k} \ {NoBlock}
    BY <1>5, <1>6 DEF Allocated
  <2> HIDE DEF k
  <2>. QED  BY <1>2, <1>6, <2>1, <2>2
<1>10. block \notin {m.list} \ {NoBlock}
  BY <1>2, HeldBlocks
<1>11. q.live = (A \ {block}) \cup B \cup ({q.list} \ {NoBlock})
  BY <1>2, <1>5, <1>10 DEF ArenaHolds, live
<1>. QED  BY <1>5, <1>7, <1>8, <1>9, <1>11 DEF ArenaHolds, q

\* An arena with blocks has a list.
LEMMA ListKept ==
  ASSUME NEW m, NEW A, NEW B, ArenaHolds(m, A, B), A # {}
  PROVE  m.list # NoBlock
<1>1. Len(m.allocations) \in Nat /\ m.capacity \in Nat
  BY LenProperties DEF ArenaHolds, Memories
<1>2. Len(m.allocations) # 0
  BY DEF ArenaHolds, Allocated
<1>3. m.capacity # 0
  BY <1>1, <1>2 DEF ArenaHolds, Listed
<1>. QED  BY <1>1, <1>3, BlocksDiffer DEF ArenaHolds, Listed

\* The builder allocates a block of its own, and frees it.
LEMMA BuilderMallocHolds ==
  ASSUME NEW m, NEW A, NEW B, ArenaHolds(m, A, B), NEW block \in BuilderBlocks
  PROVE  ArenaHolds(Malloc(m, block), A, B \cup {block})
<1> DEFINE q == Malloc(m, block)
           live == m.live \cup {block}
<1>1. m \in Memories /\ MemoryShape(m) /\ block \in Blocks
  BY MemoriesShape, BlocksDiffer DEF ArenaHolds
<1>2. /\ MemoryShape(q) /\ q.live = live /\ q.wrong = {} /\ q.allocations = m.allocations
      /\ q.list = m.list /\ q.capacity = m.capacity
  BY <1>1, MallocRecord DEF ArenaHolds
<1> HIDE DEF q
<1>3. q \in Memories
  BY <1>1, <1>2 DEF MemoryShape, Memories
<1>4. Listed(q) /\ Allocated(q) = Allocated(m)
  BY <1>2 DEF ArenaHolds, Listed, Allocated
<1>. QED  BY <1>2, <1>3, <1>4 DEF ArenaHolds, q

\* The builder frees a block of its own.
LEMMA BuilderFreeHolds ==
  ASSUME NEW m, NEW A, NEW B, ArenaHolds(m, A, B), NEW block \in B
  PROVE  ArenaHolds(Free(m, block), A, B \ {block})
<1> DEFINE q == Free(m, block)
           live == m.live \ {block}
<1>1. m \in Memories /\ MemoryShape(m)
  BY MemoriesShape DEF ArenaHolds
<1>2. block \in BuilderBlocks /\ block \in m.live
  BY DEF ArenaHolds
<1>3. block \notin A /\ block \notin {m.list} \ {NoBlock}
  BY <1>2, HeldBlocks, BlocksDiffer
<1>4. /\ MemoryShape(q) /\ q.live = live /\ q.wrong = {} /\ q.allocations = m.allocations
      /\ q.list = m.list /\ q.capacity = m.capacity
  <2>1. m.wrong \cup ({block} \ m.live) = {}
    BY <1>2 DEF ArenaHolds
  <2>2. /\ MemoryShape(q) /\ q.live = live /\ q.wrong = m.wrong \cup ({block} \ m.live)
        /\ q.allocations = m.allocations /\ q.list = m.list /\ q.capacity = m.capacity
    BY <1>1, FreeRecord
  <2> HIDE DEF q, live
  <2>. QED  BY <2>1, <2>2
<1> HIDE DEF q
<1>5. q \in Memories
  BY <1>1, <1>4 DEF MemoryShape, Memories
<1>6. Listed(q) /\ Allocated(q) = Allocated(m)
  BY <1>4 DEF ArenaHolds, Listed, Allocated
<1>7. q.live = A \cup (B \ {block}) \cup ({q.list} \ {NoBlock})
  BY <1>3, <1>4 DEF ArenaHolds
<1>. QED  BY <1>4, <1>5, <1>6, <1>7 DEF ArenaHolds, q

\* What is left before the i-th turn of the arena's deinit.
LeftBehind(x, m, B, i) ==
  /\ MemoryShape(x) /\ x.wrong = {}
  /\ x.live = ({m.allocations[j] : j \in i + 1 .. Len(m.allocations)} \ {NoBlock})
              \cup B \cup ({m.list} \ {NoBlock})

\* The end of the arena frees its blocks and its list, and leaves what is the builder's.
LEMMA ArenaDeinitHolds ==
  ASSUME NEW m, NEW A, NEW B, ArenaHolds(m, A, B), m.list # NoBlock
  PROVE  LET q == ArenaDeinit(m) IN MemoryShape(q) /\ q.live = B /\ q.wrong = {}
<1> DEFINE k == Len(m.allocations)
           X == Memories
           Good(x, i) == LeftBehind(x, m, B, i) /\ x.allocations = m.allocations /\ x.list = m.list
           Next(x, i) == IF m.allocations[i] = NoBlock THEN x ELSE Free(x, m.allocations[i])
<1>0. m \in Memories
  BY DEF ArenaHolds
<1>1. k \in Nat
  BY <1>0, LenProperties DEF Memories
<1>2. m \in X /\ Good(m, 0)
  <2>1. 0 + 1 .. Len(m.allocations) = 1 .. Len(m.allocations)
    OBVIOUS
  <2>2. m.live = ({m.allocations[j] : j \in 0 + 1 .. Len(m.allocations)} \ {NoBlock})
                 \cup B \cup ({m.list} \ {NoBlock})
    BY <2>1 DEF ArenaHolds, Allocated
  <2>. QED  BY <1>0, <2>2, MemoriesShape DEF LeftBehind, ArenaHolds
<1>3. ASSUME NEW i \in 1 .. k, NEW x \in X, Good(x, i - 1)
      PROVE  Next(x, i) \in X /\ Good(Next(x, i), i)
  <2> DEFINE block == m.allocations[i]
             R == {m.allocations[j] : j \in i + 1 .. k} \ {NoBlock}
             S == {m.allocations[j] : j \in (i - 1) + 1 .. k} \ {NoBlock}
  <2>1. \A j \in (i - 1) + 1 .. k : j = i \/ j \in i + 1 .. k
    BY <1>1
  <2>2. i \in (i - 1) + 1 .. k /\ \A j \in i + 1 .. k : j \in (i - 1) + 1 .. k /\ j # i
    BY <1>1
  <2>3. \A j \in i + 1 .. k : j \in 1 .. k
    BY <1>1
  <2>4. x.live = S \cup B \cup ({m.list} \ {NoBlock})
    BY <1>3 DEF LeftBehind
  <2>5. CASE block = NoBlock
    <3>1. S = R
      BY <2>1, <2>2, <2>5
    <3>2. Next(x, i) = x
      BY <2>5
    <3> HIDE DEF S, R, Next
    <3>. QED  BY <1>3, <2>4, <3>1, <3>2 DEF LeftBehind, R
  <2>6. CASE block # NoBlock
    <3>1. block = <<"arena", i>> /\ i \in Nat
      BY <1>1, <2>6 DEF ArenaHolds, Listed
    <3>2. \A j \in i + 1 .. k : m.allocations[j] # block
      <4>. SUFFICES ASSUME NEW j \in i + 1 .. k
                    PROVE  m.allocations[j] # block
        OBVIOUS
      <4>1. m.allocations[j] \in {NoBlock, <<"arena", j>>} /\ j \in Nat /\ j # i
        BY <1>1, <2>2, <2>3 DEF ArenaHolds, Listed
      <4>. QED  BY <2>6, <3>1, <4>1, BlocksDiffer
    <3>3. block \in S /\ R = S \ {block}
      BY <2>1, <2>2, <2>6, <3>2
    <3>4. block \notin B /\ block # m.list
      <4>1. block \in A
        <5>1. A = Allocated(m)
          BY DEF ArenaHolds
        <5>. QED  BY <2>6, <5>1 DEF Allocated
      <4>. QED  BY <4>1, HeldBlocks, BlocksDiffer
    <3> DEFINE f == Free(x, block)
    <3>5. /\ MemoryShape(f) /\ f.live = x.live \ {block}
          /\ f.wrong = x.wrong \cup ({block} \ x.live)
          /\ f.allocations = x.allocations /\ f.list = x.list /\ f.capacity = x.capacity
      BY <1>3, FreeRecord DEF LeftBehind
    <3>6. Next(x, i) = f
      BY <2>6
    <3> HIDE DEF f, S, R, block, Next
    <3>7. f.live = R \cup B \cup ({m.list} \ {NoBlock})
      BY <2>4, <3>3, <3>4, <3>5
    <3>8. f.wrong = {}
      BY <1>3, <2>4, <3>3, <3>5 DEF LeftBehind
    <3>9. f \in Memories
      <4>1. x.live \in SUBSET Blocks /\ {} \in SUBSET Blocks
        BY DEF Memories
      <4>. QED  BY <3>5, <3>8, <4>1 DEF MemoryShape, Memories
    <3>. QED  BY <1>3, <3>5, <3>6, <3>7, <3>8, <3>9 DEF LeftBehind, R
  <2>. QED  BY <2>5, <2>6
<1> DEFINE Y == [i \in 0 .. k |-> {x \in X : Good(x, i)}]
           step == [x \in X \X (1 .. k) |-> Next(x[1], x[2])]
           Solves(w) == w = [i \in 0 .. k |-> IF i = 0 THEN m ELSE Next(w[i - 1], i)]
           loop == CHOOSE w : Solves(w)
<1> HIDE DEF k, X, Good, Next
<1>4. m \in Y[0] /\ \A i \in 0 .. k : Y[i] \subseteq X
  BY <1>1, <1>2
<1>5. \A i \in 1 .. k : \A x \in Y[i - 1] : Next(x, i) \in Y[i] /\ step[<<x, i>>] = Next(x, i)
  <2>1. \A i \in 1 .. k : i - 1 \in 0 .. k /\ i \in 0 .. k
    BY <1>1
  <2>. QED  BY <1>3, <2>1
<1>6. \E w : Solves(w)
  <2>1. StaysWithin(k, X, Y, m, step)
    <3> HIDE DEF Y, step
    <3>. QED  BY <1>1, <1>4, <1>5 DEF StaysWithin
  <2>2. PICK w \in [0 .. k -> X] :
          /\ w[0] = m /\ \A i \in 1 .. k : w[i] = step[<<w[i - 1], i>>]
          /\ \A i \in 0 .. k : w[i] \in Y[i]
    <3> HIDE DEF Y, step
    <3>. QED  BY <2>1, Recursion
  <2>3. \A i \in 0 .. k : w[i] = IF i = 0 THEN m ELSE Next(w[i - 1], i)
    <3>1. \A i \in 0 .. k : i # 0 => i \in 1 .. k /\ i - 1 \in 0 .. k
      BY <1>1
    <3> HIDE DEF Y, step
    <3>. QED  BY <1>5, <2>2, <3>1
  <2>4. [i \in 0 .. k |-> w[i]] = [i \in 0 .. k |-> IF i = 0 THEN m ELSE Next(w[i - 1], i)]
    BY <2>3
  <2>. QED  BY <2>4
<1>7. Solves(loop)
  <2> HIDE DEF Solves
  <2>. QED  BY <1>6
<1> HIDE DEF loop
<1>8. loop[0] = m /\ \A i \in 1 .. k : loop[i] = Next(loop[i - 1], i)
  <2>1. \A i \in 0 .. k : loop[i] = IF i = 0 THEN m ELSE Next(loop[i - 1], i)
    BY <1>7
  <2>2. 0 \in 0 .. k /\ \A i \in 1 .. k : i \in 0 .. k /\ i # 0
    BY <1>1
  <2>. QED  BY <2>1, <2>2
<1>9. \A i \in 0 .. k : loop[i] \in X /\ Good(loop[i], i)
  <2>1. \A i \in 0 .. k : loop[i] \in Y[i]
    <3> HIDE DEF Y
    <3>1. Inductive(k, Y, loop)
      BY <1>1, <1>4, <1>5, <1>8 DEF Inductive
    <3>. QED  BY <3>1, InductionUpTo
  <2>. QED  BY <2>1
<1>10. LeftBehind(loop[k], m, B, k) /\ loop[k].list = m.list /\ loop[k] \in Memories
  <2>1. k \in 0 .. k
    BY <1>1
  <2>. QED  BY <1>9, <2>1 DEF Good, X
<1>11. loop[k].live = B \cup {m.list} /\ loop[k].wrong = {} /\ MemoryShape(loop[k])
  <2>1. k + 1 .. Len(m.allocations) = {}
    BY <1>1 DEF k
  <2>. QED  BY <1>10, <2>1 DEF LeftBehind
<1>12. m.list \notin B
  BY HeldBlocks, BlocksDiffer
<1> DEFINE f == Free(loop[k], m.list)
<1>13. f.live = B /\ f.wrong = {} /\ MemoryShape(f)
  <2>1. f.live = loop[k].live \ {m.list} /\ f.wrong = loop[k].wrong \cup ({m.list} \ loop[k].live)
        /\ MemoryShape(f)
    BY <1>11, FreeRecord
  <2> HIDE DEF f
  <2>. QED  BY <1>11, <1>12, <2>1
<1>14. ArenaDeinit(m) = [f EXCEPT !.list = NoBlock]
  BY DEF ArenaDeinit, loop, Solves, Next, k
<1> HIDE DEF f
<1>. QED  BY <1>13, <1>14 DEF MemoryShape

-----------------------------------------------------------------------------
(***************************************************************************)
(* The groups of a table.  Filed(groups, f, D) says that they have a pair  *)
(* for each name of D, with the object f[name], in the group of its hash.  *)
(* Dealing(s, W, B, n, f, D) says this of the groups of s, and that the    *)
(* arena has, besides the blocks W, one array for each group.              *)
(***************************************************************************)

AllNames == Names \cup TypeNames
Objects == [at : Blocks, argsAt : Blocks, nameAt : Blocks, args : Nat, code : Seq(Nat)]
Pairs == [name : AllNames, object : Objects]
Groups == [at : Blocks, pairs : Seq(Pairs), capacity : Nat]

\* What a table is a table of.
Contents(f) == DOMAIN f \subseteq AllNames /\ \A name \in DOMAIN f : f[name] \in Objects

PairsFiled(pairs, g, n, f, D) ==
  /\ \A i \in 1 .. Len(pairs) :
       /\ pairs[i].name \in D /\ pairs[i].object = f[pairs[i].name]
       /\ PlaceOf(pairs[i].name, n) = g
  /\ \A i, j \in 1 .. Len(pairs) : pairs[i].name = pairs[j].name => i = j

Filed(groups, f, D) ==
  /\ \A g \in 1 .. Len(groups) : PairsFiled(groups[g].pairs, g, Len(groups), f, D)
  /\ \A name \in D :
       \E i \in 1 .. Len(groups[PlaceOf(name, Len(groups))].pairs) :
         groups[PlaceOf(name, Len(groups))].pairs[i].name = name

Arrays(groups) == {groups[g].at : g \in 1 .. Len(groups)}

\* Each group has an array of its own, and none of those in W.
ArraysApart(groups, W) ==
  /\ \A g \in 1 .. Len(groups) : groups[g].at \in ArenaBlocks /\ groups[g].at \notin W
  /\ \A g, h \in 1 .. Len(groups) : groups[g].at = groups[h].at => g = h

States == [memory : Memories, groups : Seq(Groups)]

Dealing(s, W, B, n, f, D) ==
  /\ s \in States /\ Len(s.groups) = n /\ n # 0
  /\ Contents(f) /\ D \subseteq DOMAIN f
  /\ ArenaHolds(s.memory, W \cup Arrays(s.groups), B)
  /\ ArraysApart(s.groups, W)
  /\ Filed(s.groups, f, D)

\* The group of a name is one of the groups.
LEMMA PlaceInRange ==
  ASSUME NEW name \in AllNames, NEW n \in Nat, n # 0
  PROVE  PlaceOf(name, n) \in 1 .. n
<1>1. NameHash[name].group \in Nat
  BY NameHashAssumption DEF AllNames
<1>2. NameHash[name].group % n \in 0 .. n - 1
  BY <1>1
<1>. QED  BY <1>2 DEF PlaceOf

\* What is known of states.
LEMMA StateFacts ==
  ASSUME NEW s \in States
  PROVE  /\ s = [memory |-> s.memory, groups |-> s.groups]
         /\ s.memory \in Memories /\ s.groups \in Seq(Groups) /\ Len(s.groups) \in Nat
         /\ DOMAIN s.groups = 1 .. Len(s.groups)
         /\ \A g \in 1 .. Len(s.groups) :
              /\ s.groups[g] \in Groups /\ s.groups[g].at \in Blocks
              /\ s.groups[g].pairs \in Seq(Pairs) /\ Len(s.groups[g].pairs) \in Nat
              /\ s.groups[g].capacity \in Nat
<1>1. s.memory \in Memories /\ s.groups \in Seq(Groups)
  BY DEF States
<1>2. \A g \in 1 .. Len(s.groups) : s.groups[g] \in Groups
  BY <1>1, LenProperties
<1>3. \A group \in Groups : /\ group.at \in Blocks /\ group.pairs \in Seq(Pairs)
                            /\ group.capacity \in Nat /\ Len(group.pairs) \in Nat
  BY LenProperties DEF Groups
<1>4. s = [memory |-> s.memory, groups |-> s.groups]
  BY DEF States
<1>. QED  BY <1>1, <1>2, <1>3, <1>4, LenProperties

\* One group of a sequence is replaced.
LEMMA ReplacedGroup ==
  ASSUME NEW groups \in Seq(Groups), NEW g \in 1 .. Len(groups), NEW group \in Groups
  PROVE  LET new == [groups EXCEPT ![g] = group]
         IN  /\ new \in Seq(Groups) /\ Len(new) = Len(groups) /\ new[g] = group
             /\ \A h \in 1 .. Len(groups) : h # g => new[h] = groups[h]
<1>1. groups \in [1 .. Len(groups) -> Groups] /\ Len(groups) \in Nat
  BY LenProperties
<1> DEFINE new == [groups EXCEPT ![g] = group]
<1>2. new \in [1 .. Len(groups) -> Groups]
  BY <1>1
<1>3. new \in Seq(Groups) /\ Len(new) = Len(groups)
  BY <1>1, <1>2, LenProperties
<1>. QED  BY <1>1, <1>3

\* A group that grows has a new array, and the same pairs.
LEMMA RoomEnsuredSound ==
  ASSUME NEW s, NEW W, NEW B, NEW n, NEW f, NEW D, Dealing(s, W, B, n, f, D), NEW g \in 1 .. n
  PROVE  /\ Dealing(RoomEnsured(s, g), W, B, n, f, D)
         /\ \A h \in 1 .. n : RoomEnsured(s, g).groups[h].pairs = s.groups[h].pairs
<1> DEFINE group == s.groups[g]
           needed == Len(group.pairs) + 1
           after == ArenaMalloc(s.memory)
           capacity == needed + (QualifiedGroupSize - (needed % QualifiedGroupSize))
           at == LastBlock(after)
           new == [at |-> at, pairs |-> group.pairs, capacity |-> capacity]
           groups == [s.groups EXCEPT ![g] = new]
           freed == ArenaFree(after, group.at)
           e == RoomEnsured(s, g)
           A == W \cup Arrays(s.groups)
<1>1. /\ s \in States /\ Len(s.groups) = n /\ n \in Nat /\ s.groups \in Seq(Groups)
      /\ ArenaHolds(s.memory, A, B) /\ ArraysApart(s.groups, W) /\ Filed(s.groups, f, D)
      /\ n # 0 /\ Contents(f) /\ D \subseteq DOMAIN f
  BY StateFacts DEF Dealing
<1>2. group \in Groups /\ group.pairs \in Seq(Pairs) /\ needed \in Nat
  BY <1>1, StateFacts
<1>3. CASE needed <= group.capacity
  BY <1>3 DEF RoomEnsured
<1>4. CASE ~(needed <= group.capacity)
  <2>1. e = [memory |-> freed, groups |-> groups]
    BY <1>4 DEF RoomEnsured
  <2>2. ArenaHolds(after, A \cup {at}, B) /\ at \notin A /\ at \in ArenaBlocks
    BY <1>1, ArenaMallocHolds
  <2>3. group.at \in A
    BY <1>1 DEF Arrays
  <2>4. ArenaHolds(freed, (A \cup {at}) \ {group.at}, B)
    BY <2>2, <2>3, ArenaFreeHolds
  <2>5. capacity \in Nat
    <3>1. QualifiedGroupSize \in Nat /\ QualifiedGroupSize # 0
      BY FirstSizes
    <3>2. needed % QualifiedGroupSize \in 0 .. QualifiedGroupSize - 1
      <4> HIDE DEF needed
      <4>. QED  BY <1>2, <3>1
    <3> HIDE DEF needed
    <3>. QED  BY <1>2, <3>1, <3>2
  <2> HIDE DEF capacity, after, freed, A
  <2>6. new \in Groups
    BY <1>2, <2>2, <2>5, BlocksDiffer DEF Groups
  <2>7. /\ groups \in Seq(Groups) /\ Len(groups) = n /\ groups[g] = new
        /\ \A h \in 1 .. n : h # g => groups[h] = s.groups[h]
    BY <1>1, <2>6, ReplacedGroup
  <2> HIDE DEF groups, at
  <2>8. \A h \in 1 .. n : groups[h].pairs = s.groups[h].pairs
    BY <2>7
  <2>9. /\ groups[g].at = at /\ \A h \in 1 .. n : h # g => groups[h].at = s.groups[h].at
    BY <2>7
  <2>10. (A \cup {at}) \ {group.at} = W \cup Arrays(groups)
    <3>1. \A h \in 1 .. n : s.groups[h].at \notin W /\ (s.groups[h].at = group.at => h = g)
      BY <1>1 DEF ArraysApart
    <3>2. at # group.at
      BY <2>2, <2>3
    <3>3. Arrays(groups) = {groups[h].at : h \in 1 .. n}
          /\ Arrays(s.groups) = {s.groups[h].at : h \in 1 .. n}
      BY <1>1, <2>7 DEF Arrays
    <3> HIDE DEF new
    <3>4. Arrays(groups) = (Arrays(s.groups) \ {group.at}) \cup {at}
      BY <2>9, <3>1, <3>3
    <3>. QED  BY <3>1, <3>2, <3>4 DEF A
  <2>11. ArraysApart(groups, W)
    <3>1. \A h \in 1 .. n : s.groups[h].at \in A
      BY <1>1 DEF Arrays, A
    <3>. QED  BY <1>1, <2>2, <2>7, <2>9, <3>1 DEF ArraysApart, A
  <2>12. Filed(groups, f, D)
    <3>1. \A h \in 1 .. n : PairsFiled(groups[h].pairs, h, n, f, D)
      BY <1>1, <2>8 DEF Filed
    <3>2. ASSUME NEW name \in D
          PROVE  \E i \in 1 .. Len(groups[PlaceOf(name, n)].pairs) :
                   groups[PlaceOf(name, n)].pairs[i].name = name
      <4> DEFINE h == PlaceOf(name, n)
      <4>1. PICK i \in 1 .. Len(s.groups[h].pairs) : s.groups[h].pairs[i].name = name
        BY <1>1 DEF Filed
      <4>2. h \in 1 .. n
        BY <1>1, PlaceInRange DEF Contents
      <4>. QED  BY <2>8, <4>1, <4>2
    <3>. QED  BY <2>7, <3>1, <3>2 DEF Filed
  <2>13. e \in States
    <3>1. freed \in Memories
      BY <2>4 DEF ArenaHolds
    <3>. QED  BY <2>1, <2>7, <3>1 DEF States
  <2> HIDE DEF e
  <2>14. e.memory = freed /\ e.groups = groups
    BY <2>1
  <2>15. Dealing(e, W, B, n, f, D)
    BY <1>1, <2>4, <2>7, <2>10, <2>11, <2>12, <2>13, <2>14 DEF Dealing
  <2>. QED  BY <2>8, <2>14, <2>15 DEF e
<1>. QED  BY <1>3, <1>4

\* A pair goes into the group of its name.
LEMMA PairInsertedSound ==
  ASSUME NEW s, NEW W, NEW B, NEW n, NEW f, NEW D, Dealing(s, W, B, n, f, D),
         NEW pair \in Pairs, pair.name \in DOMAIN f, pair.name \notin D,
         pair.object = f[pair.name]
  PROVE  Dealing(PairInserted(s, pair), W, B, n, f, D \cup {pair.name})
<1> DEFINE g == PlaceOf(pair.name, Len(s.groups))
           e == RoomEnsured(s, g)
           pairs == Append(e.groups[g].pairs, pair)
           group == [e.groups[g] EXCEPT !.pairs = pairs]
           groups == [e.groups EXCEPT ![g] = group]
           q == PairInserted(s, pair)
<1>1. s \in States /\ Len(s.groups) = n /\ n \in Nat /\ n # 0 /\ Contents(f)
  BY StateFacts DEF Dealing
<1>2. g \in 1 .. n /\ g = PlaceOf(pair.name, n)
  BY <1>1, PlaceInRange DEF Contents
<1>3. Dealing(e, W, B, n, f, D)
  BY <1>2, RoomEnsuredSound
<1>4. q = [memory |-> e.memory, groups |-> groups]
  <2>1. q = [memory |-> e.memory,
             groups |-> [e.groups EXCEPT ![g].pairs = Append(@, pair)]]
    BY DEF PairInserted
  <2> HIDE DEF e, q, g
  <2>. QED  BY <2>1
<1> HIDE DEF e, q, g
<1>5. /\ e \in States /\ Len(e.groups) = n /\ e.groups \in Seq(Groups) /\ e.memory \in Memories
      /\ ArenaHolds(e.memory, W \cup Arrays(e.groups), B) /\ ArraysApart(e.groups, W)
      /\ Filed(e.groups, f, D) /\ D \subseteq DOMAIN f
  BY <1>3, StateFacts DEF Dealing
<1>6. /\ e.groups[g] \in Groups /\ e.groups[g].pairs \in Seq(Pairs)
      /\ Len(e.groups[g].pairs) \in Nat
  BY <1>2, <1>5, StateFacts
<1> DEFINE k == Len(e.groups[g].pairs)
<1>7. /\ pairs \in Seq(Pairs) /\ Len(pairs) = k + 1 /\ pairs[k + 1] = pair
      /\ \A i \in 1 .. k : pairs[i] = e.groups[g].pairs[i]
  BY <1>6, AppendProperties
<1> HIDE DEF pairs
<1>8. group \in Groups /\ group.pairs = pairs /\ group.at = e.groups[g].at
  BY <1>6, <1>7 DEF Groups
<1> HIDE DEF group
<1>9. /\ groups \in Seq(Groups) /\ Len(groups) = n /\ groups[g] = group
      /\ \A h \in 1 .. n : h # g => groups[h] = e.groups[h]
  BY <1>2, <1>5, <1>8, ReplacedGroup DEF groups
<1> HIDE DEF groups
<1>10. \A h \in 1 .. n : groups[h].at = e.groups[h].at
  BY <1>8, <1>9
<1>11. Arrays(groups) = Arrays(e.groups) /\ ArraysApart(groups, W)
  BY <1>5, <1>9, <1>10, SMTT(30) DEF Arrays, ArraysApart
<1> DEFINE E == D \cup {pair.name}
<1>12. /\ \A i \in 1 .. k + 1 : i = k + 1 \/ i \in 1 .. k
       /\ \A i \in 1 .. k : i \in 1 .. k + 1
  BY <1>6
<1>13. PairsFiled(pairs, g, n, f, E)
  <2>1. PairsFiled(e.groups[g].pairs, g, n, f, D)
    BY <1>2, <1>5 DEF Filed
  <2>2. ASSUME NEW i \in 1 .. k + 1
        PROVE  /\ pairs[i].name \in E /\ pairs[i].object = f[pairs[i].name]
               /\ PlaceOf(pairs[i].name, n) = g
    <3> HIDE DEF k
    <3>1. CASE i = k + 1
      BY <1>2, <1>7, <3>1
    <3>2. CASE i \in 1 .. k
      BY <1>7, <2>1, <3>2 DEF PairsFiled, k
    <3>. QED  BY <1>12, <3>1, <3>2
  <2>3. ASSUME NEW i \in 1 .. k + 1, NEW j \in 1 .. k + 1, pairs[i].name = pairs[j].name
        PROVE  i = j
    <3>1. \A h \in 1 .. k : pairs[h].name \in D
      BY <1>7, <2>1 DEF PairsFiled
    <3> HIDE DEF k
    <3>2. CASE i \in 1 .. k /\ j \in 1 .. k
      BY <1>7, <2>1, <2>3, <3>2 DEF PairsFiled, k
    <3>3. CASE i = k + 1 \/ j = k + 1
      BY <1>7, <1>12, <2>3, <3>1, <3>3
    <3>. QED  BY <1>12, <3>2, <3>3
  <2>. QED  BY <1>7, <2>2, <2>3 DEF PairsFiled
<1>14. ASSUME NEW h \in 1 .. n
       PROVE  PairsFiled(groups[h].pairs, h, n, f, E)
  <2>1. CASE h = g
    BY <1>8, <1>9, <1>13, <2>1
  <2>2. CASE h # g
    <3>1. PairsFiled(e.groups[h].pairs, h, n, f, D)
      BY <1>5 DEF Filed
    <3>. QED  BY <1>9, <2>2, <3>1 DEF PairsFiled
  <2>. QED  BY <2>1, <2>2
<1>15. ASSUME NEW name \in E
       PROVE  \E i \in 1 .. Len(groups[PlaceOf(name, n)].pairs) :
                groups[PlaceOf(name, n)].pairs[i].name = name
  <2>1. CASE name = pair.name
    <3>1. k + 1 \in 1 .. k + 1
      BY <1>6
    <3>. QED  BY <1>2, <1>7, <1>8, <1>9, <2>1, <3>1
  <2>2. CASE name \in D
    <3> DEFINE h == PlaceOf(name, n)
    <3>1. h \in 1 .. n
      BY <1>1, <1>5, <2>2, PlaceInRange DEF Contents
    <3>2. PICK i \in 1 .. Len(e.groups[h].pairs) : e.groups[h].pairs[i].name = name
      BY <1>5, <2>2 DEF Filed
    <3> HIDE DEF h, g
    <3>3. CASE h = g
      <4>1. i \in 1 .. k /\ i \in 1 .. Len(e.groups[g].pairs) /\ e.groups[g].pairs[i].name = name
        BY <3>2, <3>3
      <4> HIDE DEF k
      <4>2. i \in 1 .. k + 1 /\ pairs[i].name = name
        BY <1>7, <1>12, <4>1
      <4>. QED  BY <1>7, <1>8, <1>9, <3>3, <4>2 DEF h
    <3>4. CASE h # g
      BY <1>9, <3>1, <3>2, <3>4 DEF h
    <3>. QED  BY <3>3, <3>4
  <2>. QED  BY <2>1, <2>2
<1>16. Filed(groups, f, E)
  BY <1>9, <1>14, <1>15 DEF Filed
<1>17. q.memory = e.memory /\ q.groups = groups /\ q \in States
  BY <1>4, <1>5, <1>9 DEF States
<1>18. Dealing(q, W, B, n, f, E)
  BY <1>1, <1>5, <1>9, <1>11, <1>16, <1>17 DEF Dealing
<1>. QED  BY <1>18 DEF q

\* The first i names of some pairs.
NamesTo(pairs, i) == {pairs[j].name : j \in 1 .. i}

\* The pairs of an old group are dealt out, and its array is freed.
LEMMA PairsDealtSound ==
  ASSUME NEW s, NEW W, NEW B, NEW n, NEW f, NEW D, Dealing(s, W, B, n, f, D),
         NEW old \in Groups, old.at \in W,
         \A i \in 1 .. Len(old.pairs) :
           /\ old.pairs[i].name \in DOMAIN f /\ old.pairs[i].name \notin D
           /\ old.pairs[i].object = f[old.pairs[i].name],
         \A i, j \in 1 .. Len(old.pairs) : old.pairs[i].name = old.pairs[j].name => i = j
  PROVE  Dealing(PairsDealt(s, old), W \ {old.at}, B, n, f,
                 D \cup NamesTo(old.pairs, Len(old.pairs)))
<1> DEFINE k == Len(old.pairs)
           X == States
           Good(x, i) == Dealing(x, W, B, n, f, D \cup NamesTo(old.pairs, i))
           Next(x, i) == PairInserted(x, old.pairs[i])
<1>1. k \in Nat /\ \A i \in 1 .. k : old.pairs[i] \in Pairs
  BY LenProperties DEF Groups
<1>2. s \in X /\ Good(s, 0)
  <2>1. NamesTo(old.pairs, 0) = {}
    BY DEF NamesTo
  <2>2. D \cup NamesTo(old.pairs, 0) = D
    BY <2>1
  <2>. QED  BY <2>2 DEF Dealing
<1>3. ASSUME NEW i \in 1 .. k, NEW x \in X, Good(x, i - 1)
      PROVE  Next(x, i) \in X /\ Good(Next(x, i), i)
  <2> DEFINE pair == old.pairs[i]
             E == D \cup NamesTo(old.pairs, i - 1)
  <2>1. pair \in Pairs /\ pair.name \in DOMAIN f /\ pair.object = f[pair.name]
    BY <1>1
  <2>2. pair.name \notin E
    <3>1. \A j \in 1 .. i - 1 : j \in 1 .. k /\ j # i
      BY <1>1
    <3>. QED  BY <3>1 DEF NamesTo
  <2>3. E \cup {pair.name} = D \cup NamesTo(old.pairs, i)
    <3>1. \A j \in 1 .. i : j = i \/ j \in 1 .. i - 1
      BY <1>1
    <3>2. i \in 1 .. i /\ \A j \in 1 .. i - 1 : j \in 1 .. i
      BY <1>1
    <3> HIDE DEF k
    <3>. QED  BY <3>1, <3>2 DEF NamesTo
  <2>4. Dealing(x, W, B, n, f, E)
    BY <1>3
  <2> HIDE DEF E, pair
  <2>5. Dealing(PairInserted(x, pair), W, B, n, f, E \cup {pair.name})
    BY <2>1, <2>2, <2>4, PairInsertedSound
  <2>6. Good(PairInserted(x, pair), i)
    BY <2>3, <2>5
  <2>. QED  BY <2>6 DEF Dealing, pair
<1> DEFINE Y == [i \in 0 .. k |-> {x \in X : Good(x, i)}]
           step == [x \in X \X (1 .. k) |-> Next(x[1], x[2])]
           Solves(w) == w = [i \in 0 .. k |-> IF i = 0 THEN s ELSE Next(w[i - 1], i)]
           loop == CHOOSE w : Solves(w)
<1> HIDE DEF k, X, Good, Next
<1>4. s \in Y[0] /\ \A i \in 0 .. k : Y[i] \subseteq X
  BY <1>1, <1>2
<1>5. \A i \in 1 .. k : \A x \in Y[i - 1] : Next(x, i) \in Y[i] /\ step[<<x, i>>] = Next(x, i)
  <2>1. \A i \in 1 .. k : i - 1 \in 0 .. k /\ i \in 0 .. k
    BY <1>1
  <2>. QED  BY <1>3, <2>1
<1>6. \E w : Solves(w)
  <2>1. StaysWithin(k, X, Y, s, step)
    <3> HIDE DEF Y, step
    <3>. QED  BY <1>1, <1>4, <1>5 DEF StaysWithin
  <2>2. PICK w \in [0 .. k -> X] :
          /\ w[0] = s /\ \A i \in 1 .. k : w[i] = step[<<w[i - 1], i>>]
          /\ \A i \in 0 .. k : w[i] \in Y[i]
    <3> HIDE DEF Y, step
    <3>. QED  BY <2>1, Recursion
  <2>3. \A i \in 0 .. k : w[i] = IF i = 0 THEN s ELSE Next(w[i - 1], i)
    <3>1. \A i \in 0 .. k : i # 0 => i \in 1 .. k /\ i - 1 \in 0 .. k
      BY <1>1
    <3> HIDE DEF Y, step
    <3>. QED  BY <1>5, <2>2, <3>1
  <2>4. [i \in 0 .. k |-> w[i]] = [i \in 0 .. k |-> IF i = 0 THEN s ELSE Next(w[i - 1], i)]
    BY <2>3
  <2>. QED  BY <2>4
<1>7. Solves(loop)
  <2> HIDE DEF Solves
  <2>. QED  BY <1>6
<1> HIDE DEF loop
<1>8. loop[0] = s /\ \A i \in 1 .. k : loop[i] = Next(loop[i - 1], i)
  <2>1. \A i \in 0 .. k : loop[i] = IF i = 0 THEN s ELSE Next(loop[i - 1], i)
    BY <1>7
  <2>2. 0 \in 0 .. k /\ \A i \in 1 .. k : i \in 0 .. k /\ i # 0
    BY <1>1
  <2>. QED  BY <2>1, <2>2
<1>9. \A i \in 0 .. k : loop[i] \in X /\ Good(loop[i], i)
  <2>1. \A i \in 0 .. k : loop[i] \in Y[i]
    <3> HIDE DEF Y
    <3>1. Inductive(k, Y, loop)
      BY <1>1, <1>4, <1>5, <1>8, ZenonT(60) DEF Inductive
    <3>. QED  BY <3>1, InductionUpTo
  <2>. QED  BY <2>1
<1> DEFINE all == loop[k]
           E == D \cup NamesTo(old.pairs, k)
<1>10. Dealing(all, W, B, n, f, E)
  <2>1. k \in 0 .. k
    BY <1>1
  <2>. QED  BY <1>9, <2>1 DEF Good
<1>11. PairsDealt(s, old) = [memory |-> ArenaFree(all.memory, old.at), groups |-> all.groups]
  BY DEF PairsDealt, loop, Solves, Next, k
<1> HIDE DEF all, E
<1> DEFINE A == W \cup Arrays(all.groups)
           freed == ArenaFree(all.memory, old.at)
           q == PairsDealt(s, old)
<1>12. ArenaHolds(all.memory, A, B) /\ ArraysApart(all.groups, W) /\ all \in States
  BY <1>10 DEF Dealing
<1>13. ArenaHolds(freed, A \ {old.at}, B)
  BY <1>12, ArenaFreeHolds
<1>14. A \ {old.at} = (W \ {old.at}) \cup Arrays(all.groups)
       /\ ArraysApart(all.groups, W \ {old.at})
  BY <1>12 DEF ArraysApart, Arrays
<1> HIDE DEF freed, q, A
<1>15. q.memory = freed /\ q.groups = all.groups /\ q \in States
  <2>1. freed \in Memories /\ all.groups \in Seq(Groups)
    BY <1>12, <1>13 DEF ArenaHolds, States
  <2>2. q = [memory |-> freed, groups |-> all.groups]
    BY <1>11 DEF q, freed
  <2>. QED  BY <2>1, <2>2 DEF States
<1>16. Dealing(q, W \ {old.at}, B, n, f, E)
  BY <1>10, <1>13, <1>14, <1>15 DEF Dealing
<1>. QED  BY <1>16 DEF q, E, k

\* The arrays of the first i groups, and the names of D that belong into these.
ArraysTo(groups, i) == {groups[g].at : g \in 1 .. i}
BelongTo(D, n, i) == {name \in D : PlaceOf(name, n) \in 1 .. i}

\* The pairs of all the old groups are dealt out, and their arrays are freed.
LEMMA GroupsDealtSound ==
  ASSUME NEW s, NEW W, NEW B, NEW n, NEW f, NEW E, Dealing(s, W, B, n, f, {}),
         NEW old \in Seq(Groups), Filed(old, f, E), ArraysApart(old, {}),
         Arrays(old) \subseteq W, E \subseteq DOMAIN f, Len(old) = 0 => E = {}
  PROVE  Dealing(GroupsDealt(s, old), W \ Arrays(old), B, n, f, E)
<1> DEFINE k == Len(old)
           X == States
           Good(x, i) == Dealing(x, W \ ArraysTo(old, i), B, n, f, BelongTo(E, k, i))
           Next(x, i) == PairsDealt(x, old[i])
<1>1. k \in Nat /\ \A i \in 1 .. k : old[i] \in Groups
  BY LenProperties
<1>2. s \in X /\ Good(s, 0)
  <2>1. ArraysTo(old, 0) = {} /\ BelongTo(E, k, 0) = {}
    BY DEF ArraysTo, BelongTo
  <2>2. W \ ArraysTo(old, 0) = W
    BY <2>1
  <2>. QED  BY <2>1, <2>2 DEF Dealing
<1>3. ASSUME NEW i \in 1 .. k, NEW x \in X, Good(x, i - 1)
      PROVE  Next(x, i) \in X /\ Good(Next(x, i), i)
  <2> DEFINE group == old[i]
             V == W \ ArraysTo(old, i - 1)
             D == BelongTo(E, k, i - 1)
             names == NamesTo(group.pairs, Len(group.pairs))
  <2>1. group \in Groups /\ PairsFiled(group.pairs, i, k, f, E)
    BY <1>1 DEF Filed
  <2>2. i \notin 1 .. i - 1 /\ \A j \in 1 .. i - 1 : j \in 1 .. k /\ j # i
    BY <1>1
  <2>3. group.at \in V
    <3>1. group.at \in W
      BY DEF Arrays
    <3>2. \A j \in 1 .. i - 1 : old[j].at # old[i].at
      BY <2>2 DEF ArraysApart
    <3>. QED  BY <3>1, <3>2 DEF ArraysTo
  <2>4. \A j \in 1 .. Len(group.pairs) :
          /\ group.pairs[j].name \in DOMAIN f /\ group.pairs[j].name \notin D
          /\ group.pairs[j].object = f[group.pairs[j].name]
    BY <2>1, <2>2 DEF PairsFiled, BelongTo
  <2>5. \A j, h \in 1 .. Len(group.pairs) : group.pairs[j].name = group.pairs[h].name => j = h
    BY <2>1 DEF PairsFiled
  <2>6. D \cup names = BelongTo(E, k, i)
    <3>1. \A j \in 1 .. i : j = i \/ j \in 1 .. i - 1
      BY <1>1
    <3>2. i \in 1 .. i /\ \A j \in 1 .. i - 1 : j \in 1 .. i
      BY <1>1
    <3>3. \A name \in names : name \in E /\ PlaceOf(name, k) = i
      BY <2>1 DEF PairsFiled, NamesTo
    <3>4. \A name \in E : PlaceOf(name, k) = i => name \in names
      BY DEF Filed, NamesTo
    <3> HIDE DEF names, k
    <3>. QED  BY <3>1, <3>2, <3>3, <3>4 DEF BelongTo
  <2>7. V \ {group.at} = W \ ArraysTo(old, i)
    <3>1. \A j \in 1 .. i : j = i \/ j \in 1 .. i - 1
      BY <1>1
    <3>2. i \in 1 .. i /\ \A j \in 1 .. i - 1 : j \in 1 .. i
      BY <1>1
    <3> HIDE DEF k
    <3>. QED  BY <3>1, <3>2 DEF ArraysTo
  <2>8. Dealing(x, V, B, n, f, D)
    BY <1>3
  <2> HIDE DEF V, D, group, names
  <2>9. Dealing(PairsDealt(x, group), V \ {group.at}, B, n, f, D \cup names)
    BY <2>1, <2>3, <2>4, <2>5, <2>8, PairsDealtSound DEF names
  <2>10. Good(PairsDealt(x, group), i)
    BY <2>6, <2>7, <2>9
  <2>. QED  BY <2>10 DEF Dealing, group
<1> DEFINE Y == [i \in 0 .. k |-> {x \in X : Good(x, i)}]
           step == [x \in X \X (1 .. k) |-> Next(x[1], x[2])]
           Solves(w) == w = [i \in 0 .. k |-> IF i = 0 THEN s ELSE Next(w[i - 1], i)]
           loop == CHOOSE w : Solves(w)
<1> HIDE DEF k, X, Good, Next
<1>4. s \in Y[0] /\ \A i \in 0 .. k : Y[i] \subseteq X
  BY <1>1, <1>2
<1>5. \A i \in 1 .. k : \A x \in Y[i - 1] : Next(x, i) \in Y[i] /\ step[<<x, i>>] = Next(x, i)
  <2>1. \A i \in 1 .. k : i - 1 \in 0 .. k /\ i \in 0 .. k
    BY <1>1
  <2>. QED  BY <1>3, <2>1
<1>6. \E w : Solves(w)
  <2>1. StaysWithin(k, X, Y, s, step)
    <3> HIDE DEF Y, step
    <3>. QED  BY <1>1, <1>4, <1>5 DEF StaysWithin
  <2>2. PICK w \in [0 .. k -> X] :
          /\ w[0] = s /\ \A i \in 1 .. k : w[i] = step[<<w[i - 1], i>>]
          /\ \A i \in 0 .. k : w[i] \in Y[i]
    <3> HIDE DEF Y, step
    <3>. QED  BY <2>1, Recursion
  <2>3. \A i \in 0 .. k : w[i] = IF i = 0 THEN s ELSE Next(w[i - 1], i)
    <3>1. \A i \in 0 .. k : i # 0 => i \in 1 .. k /\ i - 1 \in 0 .. k
      BY <1>1
    <3> HIDE DEF Y, step
    <3>. QED  BY <1>5, <2>2, <3>1
  <2>4. [i \in 0 .. k |-> w[i]] = [i \in 0 .. k |-> IF i = 0 THEN s ELSE Next(w[i - 1], i)]
    BY <2>3
  <2>. QED  BY <2>4
<1>7. Solves(loop)
  <2> HIDE DEF Solves
  <2>. QED  BY <1>6
<1> HIDE DEF loop
<1>8. loop[0] = s /\ \A i \in 1 .. k : loop[i] = Next(loop[i - 1], i)
  <2>1. \A i \in 0 .. k : loop[i] = IF i = 0 THEN s ELSE Next(loop[i - 1], i)
    BY <1>7
  <2>2. 0 \in 0 .. k /\ \A i \in 1 .. k : i \in 0 .. k /\ i # 0
    BY <1>1
  <2>. QED  BY <2>1, <2>2
<1>9. \A i \in 0 .. k : loop[i] \in X /\ Good(loop[i], i)
  <2>1. \A i \in 0 .. k : loop[i] \in Y[i]
    <3> HIDE DEF Y
    <3>1. Inductive(k, Y, loop)
      BY <1>1, <1>4, <1>5, <1>8 DEF Inductive
    <3>. QED  BY <3>1, InductionUpTo
  <2>. QED  BY <2>1
<1>10. Good(loop[k], k)
  <2>1. k \in 0 .. k
    BY <1>1
  <2>. QED  BY <1>9, <2>1
<1>11. GroupsDealt(s, old) = loop[k]
  BY DEF GroupsDealt, loop, Solves, Next, k
<1>12. BelongTo(E, k, k) = E
  <2>1. CASE k = 0
    BY <2>1 DEF BelongTo, k
  <2>2. CASE k # 0
    <3>1. \A name \in E : PlaceOf(name, k) \in 1 .. k
      BY <1>1, <2>2, PlaceInRange DEF Dealing, Contents
    <3>. QED  BY <3>1 DEF BelongTo
  <2>. QED  BY <2>1, <2>2
<1>13. ArraysTo(old, k) = Arrays(old)
  BY DEF ArraysTo, Arrays, k
<1>. QED  BY <1>10, <1>11, <1>12, <1>13 DEF Good

\* New groups have an array each, and no pairs.
LEMMA QualifiedGroupsSound ==
  ASSUME NEW m, NEW A, NEW B, ArenaHolds(m, A, B), NEW f, Contents(f), NEW n \in Nat, n # 0
  PROVE  Dealing(QualifiedGroups(m, n), A, B, n, f, {})
<1> DEFINE k == n
           X == States
           Good(x, i) == /\ Len(x.groups) = i /\ ArenaHolds(x.memory, A \cup Arrays(x.groups), B)
                         /\ ArraysApart(x.groups, A)
                         /\ \A g \in 1 .. i : x.groups[g].pairs = << >>
           start == [memory |-> m, groups |-> << >>]
           Next(x, i) == LET after == ArenaMalloc(x.memory)
                         IN  [memory |-> after, groups |-> Append(x.groups, QualifiedGroup(after))]
<1>1. k \in Nat
  OBVIOUS
<1>2. start \in X /\ Good(start, 0)
  <2>1. start.memory = m /\ start.groups = << >> /\ << >> \in Seq(Groups)
    OBVIOUS
  <2>2. start \in X /\ m \in Memories
    BY <2>1 DEF States, ArenaHolds
  <2>3. Len(<< >>) = 0 /\ Arrays(<< >>) = {} /\ ArraysApart(<< >>, A)
    BY DEF Arrays, ArraysApart
  <2> HIDE DEF start
  <2>4. A \cup Arrays(start.groups) = A /\ 1 .. 0 = {}
    BY <2>1, <2>3
  <2>5. ArenaHolds(start.memory, A \cup Arrays(start.groups), B)
    BY <2>1, <2>4
  <2>. QED  BY <2>1, <2>2, <2>3, <2>4, <2>5
<1>3. ASSUME NEW i \in 1 .. k, NEW x \in X, Good(x, i - 1)
      PROVE  Next(x, i) \in X /\ Good(Next(x, i), i)
  <2> DEFINE after == ArenaMalloc(x.memory)
             at == LastBlock(after)
             group == QualifiedGroup(after)
             groups == Append(x.groups, group)
  <2>1. /\ ArenaHolds(after, (A \cup Arrays(x.groups)) \cup {at}, B)
        /\ at \notin A \cup Arrays(x.groups) /\ at \in ArenaBlocks
    BY <1>3, ArenaMallocHolds
  <2>2. group = [at |-> at, pairs |-> << >>, capacity |-> QualifiedGroupSize]
    BY DEF QualifiedGroup
  <2>3. Next(x, i) = [memory |-> after, groups |-> groups]
    OBVIOUS
  <2> HIDE DEF after, at, group
  <2>4. group \in Groups /\ group.at = at /\ group.pairs = << >>
    BY <2>1, <2>2, FirstSizes, BlocksDiffer DEF Groups
  <2>5. x.groups \in Seq(Groups) /\ Len(x.groups) = i - 1 /\ i \in Nat /\ i \in 1 .. i
    BY <1>3 DEF States
  <2>6. /\ groups \in Seq(Groups) /\ Len(groups) = i /\ groups[i] = group
        /\ \A g \in 1 .. i - 1 : groups[g] = x.groups[g]
    BY <2>4, <2>5, AppendProperties
  <2>7. /\ \A g \in 1 .. i : g = i \/ g \in 1 .. i - 1
        /\ \A g \in 1 .. i - 1 : g \in 1 .. i
    BY <2>5
  <2> HIDE DEF groups
  <2>8. Arrays(groups) = Arrays(x.groups) \cup {at}
    BY <2>4, <2>5, <2>6, <2>7 DEF Arrays
  <2>9. ArraysApart(groups, A)
    <3>1. \A g \in 1 .. i - 1 : x.groups[g].at \in Arrays(x.groups)
      BY <2>5 DEF Arrays
    <3>2. \A g \in 1 .. i - 1 : groups[g].at # at
      BY <2>1, <2>6, <3>1
    <3>3. \A g \in 1 .. i : groups[g].at \in ArenaBlocks /\ groups[g].at \notin A
      BY <1>3, <2>1, <2>4, <2>5, <2>6, <2>7 DEF ArraysApart
    <3>4. \A g, h \in 1 .. i : groups[g].at = groups[h].at => g = h
      BY <1>3, <2>4, <2>5, <2>6, <2>7, <3>2 DEF ArraysApart
    <3>. QED  BY <2>6, <3>3, <3>4 DEF ArraysApart
  <2>10. \A g \in 1 .. i : groups[g].pairs = << >>
    BY <1>3, <2>4, <2>6, <2>7
  <2>11. (A \cup Arrays(x.groups)) \cup {at} = A \cup Arrays(groups)
    BY <2>8
  <2> DEFINE q == [memory |-> after, groups |-> groups]
  <2>12. q.memory = after /\ q.groups = groups
    OBVIOUS
  <2>13. q \in States
    BY <2>1, <2>6 DEF States, ArenaHolds
  <2> HIDE DEF q
  <2>14. Good(q, i)
    BY <2>1, <2>6, <2>9, <2>10, <2>11, <2>12
  <2>. QED  BY <2>3, <2>13, <2>14 DEF q
<1> HIDE DEF start
<1> DEFINE Y == [i \in 0 .. k |-> {x \in X : Good(x, i)}]
           step == [x \in X \X (1 .. k) |-> Next(x[1], x[2])]
           Solves(w) == w = [i \in 0 .. k |-> IF i = 0 THEN start ELSE Next(w[i - 1], i)]
           loop == CHOOSE w : Solves(w)
<1> HIDE DEF k, X, Good, Next
<1>4. start \in Y[0] /\ \A i \in 0 .. k : Y[i] \subseteq X
  BY <1>1, <1>2
<1>5. \A i \in 1 .. k : \A x \in Y[i - 1] : Next(x, i) \in Y[i] /\ step[<<x, i>>] = Next(x, i)
  <2>1. \A i \in 1 .. k : i - 1 \in 0 .. k /\ i \in 0 .. k
    BY <1>1
  <2>. QED  BY <1>3, <2>1
<1>6. \E w : Solves(w)
  <2>1. StaysWithin(k, X, Y, start, step)
    <3> HIDE DEF Y, step
    <3>. QED  BY <1>1, <1>4, <1>5 DEF StaysWithin
  <2>2. PICK w \in [0 .. k -> X] :
          /\ w[0] = start /\ \A i \in 1 .. k : w[i] = step[<<w[i - 1], i>>]
          /\ \A i \in 0 .. k : w[i] \in Y[i]
    <3> HIDE DEF Y, step
    <3>. QED  BY <2>1, Recursion
  <2>3. \A i \in 0 .. k : w[i] = IF i = 0 THEN start ELSE Next(w[i - 1], i)
    <3>1. \A i \in 0 .. k : i # 0 => i \in 1 .. k /\ i - 1 \in 0 .. k
      BY <1>1
    <3> HIDE DEF Y, step
    <3>. QED  BY <1>5, <2>2, <3>1
  <2>4. [i \in 0 .. k |-> w[i]] = [i \in 0 .. k |-> IF i = 0 THEN start ELSE Next(w[i - 1], i)]
    BY <2>3
  <2>. QED  BY <2>4
<1>7. Solves(loop)
  <2> HIDE DEF Solves
  <2>. QED  BY <1>6
<1> HIDE DEF loop
<1>8. loop[0] = start /\ \A i \in 1 .. k : loop[i] = Next(loop[i - 1], i)
  <2>1. \A i \in 0 .. k : loop[i] = IF i = 0 THEN start ELSE Next(loop[i - 1], i)
    BY <1>7
  <2>2. 0 \in 0 .. k /\ \A i \in 1 .. k : i \in 0 .. k /\ i # 0
    BY <1>1
  <2>. QED  BY <2>1, <2>2
<1>9. \A i \in 0 .. k : loop[i] \in X /\ Good(loop[i], i)
  <2>1. \A i \in 0 .. k : loop[i] \in Y[i]
    <3> HIDE DEF Y
    <3>1. Inductive(k, Y, loop)
      BY <1>1, <1>4, <1>5, <1>8 DEF Inductive
    <3>. QED  BY <3>1, InductionUpTo
  <2>. QED  BY <2>1
<1>10. loop[k] \in States /\ Good(loop[k], k)
  <2>1. k \in 0 .. k
    BY <1>1
  <2>. QED  BY <1>9, <2>1 DEF X
<1>11. QualifiedGroups(m, n) = loop[k]
  BY DEF QualifiedGroups, loop, Solves, Next, k, start
<1> DEFINE q == loop[k]
<1> HIDE DEF loop, q
<1>12. /\ q \in States /\ Len(q.groups) = n /\ ArenaHolds(q.memory, A \cup Arrays(q.groups), B)
       /\ ArraysApart(q.groups, A) /\ \A g \in 1 .. n : q.groups[g].pairs = << >>
  BY <1>10 DEF Good, k, q
<1>13. Filed(q.groups, f, {})
  <2>1. \A g \in 1 .. n : Len(q.groups[g].pairs) = 0
    BY <1>12
  <2>. QED  BY <1>12, <2>1 DEF Filed, PairsFiled
<1>14. Dealing(q, A, B, n, f, {})
  BY <1>12, <1>13 DEF Dealing
<1>. QED  BY <1>11, <1>14 DEF q

-----------------------------------------------------------------------------
(***************************************************************************)
(* A table.  TableHolds(t, f, R) says that the table t has the objects of  *)
(* f, and that its arrays are neither the same nor among the blocks R of   *)
(* the rest of the program.                                                *)
(***************************************************************************)

Tables == [elementsAt : Blocks, count : Nat, capacity : Nat, groupsAt : Blocks,
           groups : Seq(Groups), available : Int]

\* The arrays of a table.
Parts(t) == ({t.elementsAt, t.groupsAt} \ {NoBlock}) \cup Arrays(t.groups)

\* A table that nothing was put into has no groups.
Tabled(t, f) ==
  /\ t \in Tables /\ Contents(f)
  /\ IF t.groups = << >> THEN DOMAIN f = {} /\ t.count = 0 /\ t.groupsAt = NoBlock
     ELSE Filed(t.groups, f, DOMAIN f) /\ t.count # 0 /\ t.groupsAt # NoBlock

PartsApart(t, R) ==
  /\ t.elementsAt \in ArenaBlocks \cup {NoBlock} /\ t.groupsAt \in ArenaBlocks \cup {NoBlock}
  /\ t.elementsAt \notin R \cup Arrays(t.groups) /\ t.groupsAt \notin R \cup Arrays(t.groups)
  /\ t.elementsAt = t.groupsAt => t.elementsAt = NoBlock
  /\ ArraysApart(t.groups, R)

TableHolds(t, f, R) == Tabled(t, f) /\ PartsApart(t, R)

\* The table's fields.
LEMMA TableFields ==
  ASSUME NEW t \in Tables
  PROVE  /\ t = [elementsAt |-> t.elementsAt, count |-> t.count, capacity |-> t.capacity,
                 groupsAt |-> t.groupsAt, groups |-> t.groups, available |-> t.available]
         /\ t.elementsAt \in Blocks /\ t.count \in Nat /\ t.capacity \in Nat
         /\ t.groupsAt \in Blocks /\ t.groups \in Seq(Groups) /\ t.available \in Int
         /\ Len(t.groups) \in Nat /\ (Len(t.groups) = 0 <=> t.groups = << >>)
BY EmptySeq, LenProperties DEF Tables

\* The array of elements that grows is a new one, and the old one is freed.
LEMMA ElementsEnsuredSound ==
  ASSUME NEW s, NEW R, NEW B, NEW f, NoBlock \notin R, TableHolds(s.table, f, R),
         s = [memory |-> s.memory, table |-> s.table],
         ArenaHolds(s.memory, R \cup Parts(s.table), B)
  PROVE  LET e == ElementsEnsured(s)
         IN  /\ e = [memory |-> e.memory, table |-> e.table]
             /\ ArenaHolds(e.memory, R \cup Parts(e.table), B)
             /\ TableHolds(e.table, f, R)
<1> DEFINE t == s.table
           after == ArenaMalloc(s.memory)
           at == LastBlock(after)
           e == ElementsEnsured(s)
           capacity == IF t.capacity = 0 THEN DefaultElements ELSE 2 * t.capacity
           grown == [t EXCEPT !.elementsAt = at, !.capacity = capacity]
           A == R \cup Parts(t)
<1>1. CASE t.count # t.capacity
  <2>1. e = s
    BY <1>1 DEF ElementsEnsured
  <2>. QED  BY <2>1
<1>2. CASE t.count = t.capacity
  <2> DEFINE m == IF t.elementsAt = NoBlock THEN after ELSE ArenaFree(after, t.elementsAt)
  <2>1. e = [memory |-> m, table |-> grown]
    BY <1>2 DEF ElementsEnsured
  <2>2. ArenaHolds(after, A \cup {at}, B) /\ at \notin A /\ at \in ArenaBlocks
    BY ArenaMallocHolds
  <2>3. t \in Tables /\ Tabled(t, f) /\ PartsApart(t, R)
    BY DEF TableHolds, Tabled
  <2>4. ArenaHolds(m, (A \cup {at}) \ ({t.elementsAt} \ {NoBlock}), B)
    <3>1. CASE t.elementsAt = NoBlock
      <4>1. (A \cup {at}) \ ({t.elementsAt} \ {NoBlock}) = A \cup {at}
        BY <3>1
      <4> HIDE DEF A, after, at
      <4>. QED  BY <2>2, <3>1, <4>1
    <3>2. CASE t.elementsAt # NoBlock
      <4>1. t.elementsAt \in A \cup {at}
        BY <3>2 DEF Parts
      <4>2. (A \cup {at}) \ ({t.elementsAt} \ {NoBlock}) = (A \cup {at}) \ {t.elementsAt}
        BY <3>2
      <4> HIDE DEF A, after, at
      <4>3. ArenaHolds(ArenaFree(after, t.elementsAt), (A \cup {at}) \ {t.elementsAt}, B)
        BY <2>2, <4>1, ArenaFreeHolds
      <4>. QED  BY <3>2, <4>2, <4>3
    <3>. QED  BY <3>1, <3>2
  <2>5. capacity \in Nat
    BY <2>3, FirstSizes, TableFields
  <2> HIDE DEF m, after, at, capacity
  <2>6. /\ grown \in Tables /\ grown.elementsAt = at /\ grown.groupsAt = t.groupsAt
        /\ grown.groups = t.groups /\ grown.count = t.count
    BY <2>2, <2>3, <2>5, BlocksDiffer DEF Tables
  <2> HIDE DEF grown
  <2>7. Tabled(grown, f)
    BY <2>3, <2>6 DEF Tabled
  <2>8. at # NoBlock
    BY <2>2, BlocksDiffer
  <2> HIDE DEF t
  <2>9. PartsApart(grown, R)
    <3>1. at \notin R \cup Arrays(t.groups) /\ (t.groupsAt # NoBlock => at # t.groupsAt)
      BY <2>2 DEF Parts
    <3>. QED  BY <2>2, <2>3, <2>6, <2>8, <3>1 DEF PartsApart
  <2>10. (A \cup {at}) \ ({t.elementsAt} \ {NoBlock}) = R \cup Parts(grown)
    <3>1. t.elementsAt # NoBlock =>
            /\ t.elementsAt \notin R \cup Arrays(t.groups) /\ t.elementsAt # t.groupsAt
            /\ t.elementsAt # at
      BY <2>2, <2>3 DEF PartsApart, Parts
    <3>2. Parts(grown) = ({at, t.groupsAt} \ {NoBlock}) \cup Arrays(t.groups)
      BY <2>6 DEF Parts
    <3>. QED  BY <2>8, <3>1, <3>2 DEF Parts
  <2> HIDE DEF A
  <2>11. e.memory = m /\ e.table = grown
    BY <2>1
  <2>12. ArenaHolds(m, R \cup Parts(grown), B)
    BY <2>4, <2>10
  <2> HIDE DEF e
  <2>. QED  BY <2>1, <2>7, <2>9, <2>11, <2>12 DEF TableHolds, e
<1>. QED  BY <1>1, <1>2

\* A table with groups, into which a pair can go.
Grouped(t, f, R) ==
  /\ t \in Tables /\ Contents(f) /\ t.groups # << >> /\ t.groupsAt # NoBlock
  /\ Filed(t.groups, f, DOMAIN f) /\ PartsApart(t, R)

\* The groups that grow are new, have the same pairs, and the old ones are freed.
LEMMA GroupsEnsuredSound ==
  ASSUME NEW s, NEW R, NEW B, NEW f, NoBlock \notin R, TableHolds(s.table, f, R),
         s = [memory |-> s.memory, table |-> s.table],
         ArenaHolds(s.memory, R \cup Parts(s.table), B)
  PROVE  LET e == GroupsEnsured(s)
         IN  /\ e = [memory |-> e.memory, table |-> e.table]
             /\ ArenaHolds(e.memory, R \cup Parts(e.table), B)
             /\ Grouped(e.table, f, R)
<1> DEFINE t == s.table
           n == IF t.groups = << >> THEN 1 ELSE 2 * Len(t.groups)
           array == ArenaMalloc(s.memory)
           at == LastBlock(array)
           dealt == GroupsDealt(QualifiedGroups(array, n), t.groups)
           e == GroupsEnsured(s)
           available == (QualifiedGroupSize * n * 4) \div 5
           grown == [t EXCEPT !.groupsAt = at, !.groups = dealt.groups, !.available = available]
           A == R \cup Parts(t)
<1>1. t \in Tables /\ Tabled(t, f) /\ PartsApart(t, R) /\ Contents(f)
  BY DEF TableHolds, Tabled
<1>2. CASE t.groups # << >> /\ t.available # 0
  <2>1. e = s
    BY <1>2 DEF GroupsEnsured
  <2>2. Grouped(t, f, R)
    BY <1>1, <1>2 DEF Tabled, Grouped
  <2>. QED  BY <2>1, <2>2
<1>3. CASE ~(t.groups # << >> /\ t.available # 0)
  <2> DEFINE m == IF t.groupsAt = NoBlock THEN dealt.memory
                  ELSE ArenaFree(dealt.memory, t.groupsAt)
             W == (A \cup {at}) \ Arrays(t.groups)
  <2>1. e = [memory |-> m, table |-> grown]
    BY <1>3 DEF GroupsEnsured
  <2>2. ArenaHolds(array, A \cup {at}, B) /\ at \notin A /\ at \in ArenaBlocks
    BY ArenaMallocHolds
  <2>3. n \in Nat /\ n # 0
    BY <1>1, TableFields
  <2>4. available \in Int
    <3> HIDE DEF n
    <3>. QED  BY <2>3, FirstSizes
  <2>5. Dealing(dealt, W, B, n, f, DOMAIN f)
    <3> DEFINE q == QualifiedGroups(array, n)
    <3> HIDE DEF n, array, at, A
    <3>1. Dealing(q, A \cup {at}, B, n, f, {})
      BY <1>1, <2>2, <2>3, QualifiedGroupsSound
    <3> HIDE DEF q, t
    <3>2. t.groups \in Seq(Groups) /\ (Len(t.groups) = 0 => DOMAIN f = {})
      BY <1>1, TableFields DEF Tabled
    <3>3. Filed(t.groups, f, DOMAIN f)
      <4>1. CASE t.groups = << >>
        <5>1. Len(t.groups) = 0 /\ DOMAIN f = {}
          BY <1>1, <4>1 DEF Tabled
        <5>. QED  BY <5>1 DEF Filed
      <4>2. CASE t.groups # << >>
        BY <1>1, <4>2 DEF Tabled
      <4>. QED  BY <4>1, <4>2
    <3>4. ArraysApart(t.groups, {}) /\ Arrays(t.groups) \subseteq A \cup {at}
      BY <1>1 DEF PartsApart, ArraysApart, A, Parts
    <3>5. Dealing(GroupsDealt(q, t.groups), (A \cup {at}) \ Arrays(t.groups), B, n, f, DOMAIN f)
      BY <3>1, <3>2, <3>3, <3>4, GroupsDealtSound
    <3>. QED  BY <3>5 DEF q
  <2> HIDE DEF n, array, at, dealt, available, A, W
  <2>6. /\ dealt \in States /\ Len(dealt.groups) = n /\ dealt.groups \in Seq(Groups)
        /\ ArenaHolds(dealt.memory, W \cup Arrays(dealt.groups), B)
        /\ ArraysApart(dealt.groups, W) /\ Filed(dealt.groups, f, DOMAIN f)
    BY <2>5 DEF Dealing, States
  <2>7. dealt.groups # << >>
    BY <2>3, <2>6, EmptySeq
  <2>8. /\ grown \in Tables /\ grown.elementsAt = t.elementsAt /\ grown.groupsAt = at
        /\ grown.groups = dealt.groups /\ grown.count = t.count
    BY <1>1, <2>2, <2>4, <2>6, BlocksDiffer DEF Tables
  <2> HIDE DEF grown, t
  <2>9. at # NoBlock
    BY <2>2, BlocksDiffer
  <2>10. /\ t.groupsAt # NoBlock => t.groupsAt \notin R \cup Arrays(t.groups)
         /\ t.elementsAt # NoBlock => t.elementsAt \notin R \cup Arrays(t.groups)
         /\ t.elementsAt = t.groupsAt => t.elementsAt = NoBlock
         /\ t.elementsAt \in ArenaBlocks \cup {NoBlock}
         /\ \A b \in Arrays(t.groups) : b \notin R
    BY <1>1 DEF PartsApart, ArraysApart, Arrays
  <2>11. W = R \cup ({t.elementsAt, t.groupsAt, at} \ {NoBlock})
    BY <2>2, <2>9, <2>10 DEF W, A, Parts
  <2>12. \A b \in Arrays(dealt.groups) : b \notin W /\ b \in ArenaBlocks
    BY <2>6 DEF ArraysApart, Arrays
  <2>13. NoBlock \notin ArenaBlocks
    BY BlocksDiffer
  <2>14. t.groupsAt # at /\ t.elementsAt # at /\ at \notin R
    BY <2>2, <2>9 DEF A, Parts
  <2>15. ArenaHolds(m, (W \cup Arrays(dealt.groups)) \ ({t.groupsAt} \ {NoBlock}), B)
    <3>1. CASE t.groupsAt = NoBlock
      <4>1. (W \cup Arrays(dealt.groups)) \ ({t.groupsAt} \ {NoBlock})
              = W \cup Arrays(dealt.groups)
        BY <3>1
      <4>. QED  BY <2>6, <3>1, <4>1
    <3>2. CASE t.groupsAt # NoBlock
      <4>1. t.groupsAt \in W \cup Arrays(dealt.groups)
        BY <2>11, <3>2
      <4>2. (W \cup Arrays(dealt.groups)) \ ({t.groupsAt} \ {NoBlock})
              = (W \cup Arrays(dealt.groups)) \ {t.groupsAt}
        BY <3>2
      <4>3. ArenaHolds(ArenaFree(dealt.memory, t.groupsAt),
                       (W \cup Arrays(dealt.groups)) \ {t.groupsAt}, B)
        BY <2>6, <4>1, ArenaFreeHolds
      <4>. QED  BY <3>2, <4>2, <4>3
    <3>. QED  BY <3>1, <3>2
  <2>16. (W \cup Arrays(dealt.groups)) \ ({t.groupsAt} \ {NoBlock}) = R \cup Parts(grown)
    <3>1. Parts(grown) = ({t.elementsAt, at} \ {NoBlock}) \cup Arrays(dealt.groups)
      BY <2>8 DEF Parts
    <3>2. t.groupsAt # NoBlock => t.groupsAt \notin Arrays(dealt.groups)
      BY <2>11, <2>12
    <3>. QED  BY <2>9, <2>10, <2>11, <2>14, <3>1, <3>2
  <2>17. PartsApart(grown, R)
    <3>1. ArraysApart(dealt.groups, R)
      BY <2>6, <2>11 DEF ArraysApart
    <3>2. t.elementsAt \notin Arrays(dealt.groups) /\ at \notin Arrays(dealt.groups)
      BY <2>9, <2>11, <2>12, <2>13
    <3>. QED  BY <1>1, <2>2, <2>8, <2>14, <3>1, <3>2 DEF PartsApart
  <2>18. Grouped(grown, f, R)
    BY <1>1, <2>6, <2>7, <2>8, <2>9, <2>17 DEF Grouped
  <2> HIDE DEF m, e
  <2>19. e.memory = m /\ e.table = grown
    BY <2>1
  <2>20. ArenaHolds(m, R \cup Parts(grown), B)
    BY <2>15, <2>16
  <2>. QED  BY <2>1, <2>18, <2>19, <2>20 DEF e
<1>. QED  BY <1>2, <1>3

\* What a table is a table of, with one more name.
With(f, name, object) == [n \in DOMAIN f \cup {name} |-> IF n = name THEN object ELSE f[n]]

\* One more name and its object are added to what the table is a table of.
LEMMA WithContents ==
  ASSUME NEW f, Contents(f), NEW name \in AllNames, name \notin DOMAIN f, NEW object \in Objects
  PROVE  LET g == With(f, name, object)
         IN  /\ Contents(g) /\ DOMAIN g = DOMAIN f \cup {name} /\ g[name] = object
             /\ \A n \in DOMAIN f : g[n] = f[n]
BY DEF With, Contents

\* What the groups have is told by the objects of its names.
LEMMA FiledAgrees ==
  ASSUME NEW groups, NEW D, NEW f, NEW g, Filed(groups, f, D), \A name \in D : g[name] = f[name]
  PROVE  Filed(groups, g, D)
<1>1. ASSUME NEW h \in 1 .. Len(groups)
      PROVE  PairsFiled(groups[h].pairs, h, Len(groups), g, D)
  <2>1. PairsFiled(groups[h].pairs, h, Len(groups), f, D)
    BY DEF Filed
  <2>. QED  BY <2>1 DEF PairsFiled
<1>. QED  BY <1>1 DEF Filed

\* An insertion puts the object into the table and changes nothing else of it; the
\* memory it needs comes from the arena.
LEMMA TableInsertedSound ==
  ASSUME NEW m, NEW t, NEW R, NEW B, NEW f, NoBlock \notin R, TableHolds(t, f, R),
         ArenaHolds(m, R \cup Parts(t), B),
         NEW name \in AllNames, name \notin DOMAIN f, NEW object \in Objects
  PROVE  LET q == TableInserted(m, t, name, object)
         IN  /\ ArenaHolds(q.memory, R \cup Parts(q.table), B)
             /\ TableHolds(q.table, With(f, name, object), R)
<1> DEFINE start == [memory |-> m, table |-> t]
           e == ElementsEnsured(start)
           s == GroupsEnsured(e)
           dealing == [memory |-> s.memory, groups |-> s.table.groups]
           pair == [name |-> name, object |-> object]
           d == PairInserted(dealing, pair)
           new == [s.table EXCEPT !.groups = d.groups, !.count = @ + 1, !.available = @ - 1]
           q == TableInserted(m, t, name, object)
           g == With(f, name, object)
           n == Len(s.table.groups)
           W == R \cup ({s.table.elementsAt, s.table.groupsAt} \ {NoBlock})
<1>1. q = [memory |-> d.memory, table |-> new]
  BY DEF TableInserted, PairTaken
<1>2. start = [memory |-> start.memory, table |-> start.table] /\ start.memory = m /\ start.table = t
  OBVIOUS
<1> HIDE DEF start
<1>3. /\ e = [memory |-> e.memory, table |-> e.table]
      /\ ArenaHolds(e.memory, R \cup Parts(e.table), B) /\ TableHolds(e.table, f, R)
  BY <1>2, ElementsEnsuredSound
<1> HIDE DEF e
<1>4. ArenaHolds(s.memory, R \cup Parts(s.table), B) /\ Grouped(s.table, f, R)
  BY <1>3, GroupsEnsuredSound
<1> HIDE DEF s
<1>5. /\ s.table \in Tables /\ s.table.groups \in Seq(Groups) /\ n \in Nat /\ n # 0
      /\ Contents(f) /\ Filed(s.table.groups, f, DOMAIN f) /\ PartsApart(s.table, R)
      /\ s.table.groupsAt # NoBlock
  BY <1>4, TableFields DEF Grouped
<1>6. /\ Contents(g) /\ DOMAIN g = DOMAIN f \cup {name} /\ g[name] = object
      /\ \A x \in DOMAIN f : g[x] = f[x]
  BY <1>5, WithContents, ZenonT(60)
<1>7. pair \in Pairs /\ pair.name = name /\ pair.object = object
  BY DEF Pairs
<1> HIDE DEF g, pair
<1>8. Dealing(dealing, W, B, n, g, DOMAIN f)
  <2>1. dealing.memory = s.memory /\ dealing.groups = s.table.groups
    OBVIOUS
  <2>2. dealing \in States
    BY <1>4, <1>5 DEF States, ArenaHolds
  <2> HIDE DEF dealing
  <2>3. W \cup Arrays(dealing.groups) = R \cup Parts(s.table)
    BY <2>1 DEF Parts
  <2>4. ArraysApart(dealing.groups, W)
    BY <1>5, <2>1 DEF PartsApart, ArraysApart, Arrays
  <2>5. Filed(dealing.groups, g, DOMAIN f)
    BY <1>5, <1>6, <2>1, FiledAgrees
  <2> HIDE DEF W
  <2>6. ArenaHolds(dealing.memory, W \cup Arrays(dealing.groups), B)
    BY <1>4, <2>1, <2>3
  <2>. QED  BY <1>5, <1>6, <2>1, <2>2, <2>4, <2>5, <2>6 DEF Dealing
<1>9. Dealing(d, W, B, n, g, DOMAIN g)
  BY <1>6, <1>7, <1>8, PairInsertedSound
<1> HIDE DEF d, dealing, n, W
<1>10. /\ d \in States /\ Len(d.groups) = n /\ d.groups \in Seq(Groups)
       /\ ArenaHolds(d.memory, W \cup Arrays(d.groups), B)
       /\ ArraysApart(d.groups, W) /\ Filed(d.groups, g, DOMAIN g)
  BY <1>9 DEF Dealing, States
<1>11. d.groups # << >>
  BY <1>5, <1>10, EmptySeq
<1>12. /\ new \in Tables /\ new.elementsAt = s.table.elementsAt
       /\ new.groupsAt = s.table.groupsAt /\ new.groups = d.groups
       /\ new.count = s.table.count + 1
  <2> DEFINE count == s.table.count + 1
             available == s.table.available - 1
  <2>1. new = [s.table EXCEPT !.groups = d.groups, !.count = count, !.available = available]
    OBVIOUS
  <2>2. count \in Nat /\ available \in Int
    BY <1>5, TableFields
  <2> HIDE DEF count, available, new
  <2>3. new.count = count
    BY <1>5, <2>1 DEF Tables
  <2>. QED  BY <1>5, <1>10, <2>1, <2>2, <2>3 DEF Tables, count
<1> HIDE DEF new
<1>13. new.count # 0
  BY <1>5, <1>12, TableFields
<1>14. Tabled(new, g)
  BY <1>5, <1>6, <1>10, <1>11, <1>12, <1>13 DEF Tabled
<1>15. \A b \in Arrays(d.groups) : b \notin W /\ b \in ArenaBlocks
  BY <1>10 DEF ArraysApart, Arrays
<1>16. PartsApart(new, R)
  <2>1. ArraysApart(d.groups, R)
    BY <1>10 DEF ArraysApart, W
  <2>2. /\ s.table.elementsAt \notin Arrays(d.groups)
        /\ s.table.groupsAt \notin Arrays(d.groups)
    BY <1>15, BlocksDiffer DEF W
  <2>. QED  BY <1>5, <1>12, <2>1, <2>2 DEF PartsApart
<1>17. R \cup Parts(new) = W \cup Arrays(d.groups)
  BY <1>12 DEF Parts, W
<1>18. ArenaHolds(d.memory, R \cup Parts(new), B)
  BY <1>10, <1>17
<1>19. q.memory = d.memory /\ q.table = new
  BY <1>1
<1> HIDE DEF q
<1>20. ArenaHolds(q.memory, R \cup Parts(q.table), B) /\ TableHolds(q.table, g, R)
  BY <1>14, <1>16, <1>18, <1>19 DEF TableHolds
<1>. QED  BY <1>20 DEF q, g

\* A table finds what it is a table of, and nothing else.
LEMMA FoundInSound ==
  ASSUME NEW t, NEW f, Tabled(t, f), NEW name \in AllNames
  PROVE  FoundIn(t, name) = IF name \in DOMAIN f THEN f[name] ELSE NoObject
<1>1. t \in Tables /\ Contents(f)
  BY DEF Tabled
<1>2. CASE t.groups = << >>
  BY <1>2 DEF Tabled, FoundIn
<1>3. CASE t.groups # << >>
  <2> DEFINE n == Len(t.groups)
             g == PlaceOf(name, n)
             pairs == t.groups[g].pairs
             i == SelectInSeq(pairs, LAMBDA pair :
                    NameHash[pair.name].mask = NameHash[name].mask /\ pair.name = name)
  <2>1. n \in Nat /\ n # 0 /\ t.groups \in Seq(Groups)
    BY <1>1, <1>3, TableFields
  <2>2. g \in 1 .. n
    BY <2>1, PlaceInRange
  <2>3. Filed(t.groups, f, DOMAIN f) /\ t.count # 0
    BY <1>3 DEF Tabled
  <2>4. pairs \in Seq(Pairs) /\ Len(pairs) \in Nat
    <3>1. t.groups[g] \in Groups
      BY <2>1, <2>2, LenProperties
    <3> HIDE DEF g
    <3>2. pairs \in Seq(Pairs)
      BY <3>1 DEF Groups
    <3> HIDE DEF pairs
    <3>. QED  BY <3>2, LenProperties
  <2>5. PairsFiled(pairs, g, n, f, DOMAIN f)
    BY <2>2, <2>3 DEF Filed
  <2>6. FoundIn(t, name) = IF i = 0 THEN NoObject ELSE pairs[i].object
    BY <2>3 DEF FoundIn
  <2>7. CASE name \in DOMAIN f
    <3>1. PICK j \in 1 .. Len(pairs) : pairs[j].name = name
      BY <2>3, <2>7 DEF Filed
    <3> HIDE DEF pairs, g, n
    <3>2. \A h \in 1 .. Len(pairs) : pairs[h].name = name => h = j
      BY <2>5, <3>1 DEF PairsFiled
    <3>3. i = j
      <4> DEFINE I == {h \in 1 .. Len(pairs) :
                         NameHash[pairs[h].name].mask = NameHash[name].mask
                         /\ pairs[h].name = name}
      <4>1. I = {j} /\ I # {}
        BY <3>1, <3>2
      <4>2. i = Min(I)
        BY <4>1 DEF SelectInSeq
      <4> HIDE DEF I, i
      <4>3. Min(I) = j
        BY <2>4, <3>1, <4>1 DEF Min
      <4>. QED  BY <4>2, <4>3
    <3> HIDE DEF i
    <3>4. pairs[j].object = f[name] /\ j # 0
      BY <2>4, <2>5, <3>1 DEF PairsFiled
    <3>. QED  BY <2>6, <2>7, <3>3, <3>4
  <2>8. CASE name \notin DOMAIN f
    <3> HIDE DEF pairs, g, n
    <3>1. \A h \in 1 .. Len(pairs) : pairs[h].name # name
      BY <2>5, <2>8 DEF PairsFiled
    <3>2. i = 0
      <4> DEFINE I == {j \in 1 .. Len(pairs) :
                         NameHash[pairs[j].name].mask = NameHash[name].mask
                         /\ pairs[j].name = name}
      <4>1. I = {}
        BY <3>1
      <4>. QED  BY <4>1 DEF SelectInSeq
    <3>. QED  BY <2>6, <2>8, <3>2
  <2>. QED  BY <2>7, <2>8
<1>. QED  BY <1>2, <1>3

-----------------------------------------------------------------------------
(***************************************************************************)
(* Both tables.  TablesHold(inner, T, F) says that the tables T are tables *)
(* of F, and that their blocks and those of the objects are all different  *)
(* and not the program's own block inner.                                  *)
(***************************************************************************)

\* The blocks of the objects of a table.
Held(f) == ({f[n].at : n \in DOMAIN f} \cup {f[n].argsAt : n \in DOMAIN f}) \ {NoBlock}

ObjectsApart(f, R) ==
  /\ \A n \in DOMAIN f : /\ f[n].at \in ArenaBlocks /\ f[n].at \notin R
                         /\ f[n].argsAt \in ArenaBlocks \cup {NoBlock} /\ f[n].argsAt \notin R
  /\ \A n, o \in DOMAIN f : /\ f[n].at = f[o].at => n = o
                            /\ f[n].argsAt = f[o].argsAt => n = o \/ f[n].argsAt = NoBlock
                            /\ f[n].at # f[o].argsAt

Other(x) == IF x = "functions" THEN "types" ELSE "functions"

\* The blocks of the program that are not of the table x.
Objs(inner, F) == {inner} \cup Held(F["functions"]) \cup Held(F["types"])
Rest(inner, T, F, x) == Objs(inner, F) \cup Parts(T[Other(x)])
Data(inner, T, F) == Objs(inner, F) \cup Parts(T["functions"]) \cup Parts(T["types"])

TablesHold(inner, T, F) ==
  /\ inner \in ArenaBlocks
  /\ T = [x \in Fields |-> T[x]] /\ F = [x \in Fields |-> F[x]]
  /\ \A x \in Fields : /\ TableHolds(T[x], F[x], Rest(inner, T, F, x))
                       /\ ObjectsApart(F[x], {inner} \cup Held(F[Other(x)]))

\* What is apart from some blocks is apart from others that it has none of.
LEMMA PartsApartFrom ==
  ASSUME NEW t, NEW R, NEW S, PartsApart(t, R), NoBlock \notin S
  PROVE  /\ Parts(t) \cap S = {} => PartsApart(t, S)
         /\ Parts(t) \cap R = {}
         /\ Parts(t) \subseteq ArenaBlocks
BY DEF PartsApart, ArraysApart, Arrays, Parts

\* Objects are apart from what is apart from their blocks, and are blocks of the arena.
LEMMA ObjectsApartFrom ==
  ASSUME NEW f, NEW R, NEW S, ObjectsApart(f, R), NoBlock \notin S
  PROVE  /\ Held(f) \cap S = {} => ObjectsApart(f, S)
         /\ Held(f) \cap R = {}
         /\ Held(f) \subseteq ArenaBlocks
BY BlocksDiffer DEF ObjectsApart, Held

\* The blocks of the objects, with one more.
LEMMA WithHeld ==
  ASSUME NEW f, Contents(f), NEW name \in AllNames, name \notin DOMAIN f, NEW object \in Objects
  PROVE  Held(With(f, name, object)) = Held(f) \cup ({object.at, object.argsAt} \ {NoBlock})
<1> DEFINE g == With(f, name, object)
<1>1. /\ DOMAIN g = DOMAIN f \cup {name} /\ g[name] = object
      /\ \A n \in DOMAIN f : g[n] = f[n]
  BY WithContents
<1> HIDE DEF g
<1>2. {g[n].at : n \in DOMAIN g} = {f[n].at : n \in DOMAIN f} \cup {object.at}
  BY <1>1
<1>3. {g[n].argsAt : n \in DOMAIN g} = {f[n].argsAt : n \in DOMAIN f} \cup {object.argsAt}
  BY <1>1
<1>4. Held(g) = Held(f) \cup ({object.at, object.argsAt} \ {NoBlock})
  BY <1>2, <1>3 DEF Held
<1>. QED  BY <1>4 DEF g

\* The blocks of a program are the arena's.
LEMMA DataBlocks ==
  ASSUME NEW inner, NEW T, NEW F, TablesHold(inner, T, F)
  PROVE  /\ Data(inner, T, F) \subseteq ArenaBlocks /\ NoBlock \notin Data(inner, T, F)
         /\ \A x \in Fields : Data(inner, T, F) = Rest(inner, T, F, x) \cup Parts(T[x])
<1>1. NoBlock \notin {} /\ NoBlock \notin ArenaBlocks
  BY BlocksDiffer
<1>2. \A x \in Fields : Parts(T[x]) \subseteq ArenaBlocks
  BY <1>1, PartsApartFrom DEF TablesHold, TableHolds
<1>3. \A x \in Fields : Held(F[x]) \subseteq ArenaBlocks
  BY <1>1, ObjectsApartFrom DEF TablesHold
<1>4. Data(inner, T, F) \subseteq ArenaBlocks
  BY <1>2, <1>3 DEF Data, Objs, Fields, TablesHold
<1>5. \A x \in Fields : Data(inner, T, F) = Rest(inner, T, F, x) \cup Parts(T[x])
  BY DEF Data, Rest, Other, Fields
<1>. QED  BY <1>1, <1>4, <1>5

\* An object whose blocks are new goes into one of the tables.
LEMMA PutSound ==
  ASSUME NEW inner, NEW T, NEW F, TablesHold(inner, T, F), NEW x \in Fields,
         NEW object \in Objects, NEW New, New = {object.at, object.argsAt} \ {NoBlock},
         object.at \in ArenaBlocks, object.argsAt \in ArenaBlocks \cup {NoBlock},
         object.at # object.argsAt, New \cap Data(inner, T, F) = {},
         NEW m, NEW B, ArenaHolds(m, Data(inner, T, F) \cup New, B),
         NEW name \in AllNames, name \notin DOMAIN F[x]
  PROVE  LET s == TableInserted(m, T[x], name, object)
             U == [T EXCEPT ![x] = s.table]
             G == [F EXCEPT ![x] = With(F[x], name, object)]
         IN  /\ ArenaHolds(s.memory, Data(inner, U, G), B)
             /\ TablesHold(inner, U, G)
<1> DEFINE s == TableInserted(m, T[x], name, object)
           g == With(F[x], name, object)
           U == [T EXCEPT ![x] = s.table]
           G == [F EXCEPT ![x] = g]
           y == Other(x)
           D == Data(inner, T, F)
           R == Rest(inner, T, F, x) \cup New
<1>1. /\ D \subseteq ArenaBlocks /\ NoBlock \notin D /\ NoBlock \notin ArenaBlocks
      /\ D = Rest(inner, T, F, x) \cup Parts(T[x])
  BY DataBlocks, BlocksDiffer
<1>2. /\ y \in Fields /\ y # x /\ Other(y) = x /\ Fields = {x, y} /\ x # y
  BY DEF Other, Fields
<1>3. /\ Tabled(T[x], F[x]) /\ PartsApart(T[x], Rest(inner, T, F, x)) /\ Contents(F[x])
      /\ Tabled(T[y], F[y]) /\ PartsApart(T[y], Rest(inner, T, F, y))
      /\ ObjectsApart(F[x], {inner} \cup Held(F[y])) /\ ObjectsApart(F[y], {inner} \cup Held(F[x]))
  BY <1>2 DEF TablesHold, TableHolds, Tabled
<1>4. NoBlock \notin R /\ D \cup New = R \cup Parts(T[x])
  BY <1>1
<1>5. Parts(T[x]) \cap R = {} /\ PartsApart(T[x], R)
  <2>1. Parts(T[x]) \cap Rest(inner, T, F, x) = {}
    BY <1>1, <1>3, PartsApartFrom
  <2>2. Parts(T[x]) \cap R = {}
    BY <1>1, <2>1
  <2> HIDE DEF R
  <2>. QED  BY <1>3, <1>4, <2>2, PartsApartFrom
<1>6. ArenaHolds(s.memory, R \cup Parts(s.table), B) /\ TableHolds(s.table, g, R)
  <2>1. ArenaHolds(m, R \cup Parts(T[x]), B)
    BY <1>4
  <2>2. TableHolds(T[x], F[x], R)
    BY <1>3, <1>5 DEF TableHolds
  <2> HIDE DEF R
  <2>. QED  BY <1>4, <2>1, <2>2, TableInsertedSound
<1>7. Held(g) = Held(F[x]) \cup New
  BY <1>3, WithHeld
<1> HIDE DEF s
<1>8. /\ U[x] = s.table /\ U[y] = T[y] /\ G[x] = g /\ G[y] = F[y]
      /\ U = [z \in Fields |-> U[z]] /\ G = [z \in Fields |-> G[z]]
  <2>1. DOMAIN T = Fields /\ DOMAIN F = Fields
    BY DEF TablesHold
  <2> HIDE DEF g
  <2>. QED  BY <1>2, <2>1
<1> HIDE DEF U, G, g
<1> DEFINE V == {inner} \cup Held(F[x]) \cup Held(F[y])
<1>9. Objs(inner, F) = V /\ Objs(inner, G) = V \cup New
  BY <1>2, <1>7, <1>8 DEF Objs, Fields, Other
<1>10. /\ Rest(inner, T, F, x) = V \cup Parts(T[y]) /\ Rest(inner, T, F, y) = V \cup Parts(T[x])
       /\ Rest(inner, U, G, x) = R
       /\ Rest(inner, U, G, y) = V \cup New \cup Parts(s.table)
       /\ Data(inner, U, G) = R \cup Parts(s.table)
  <2>1. Rest(inner, T, F, x) = V \cup Parts(T[y]) /\ Rest(inner, T, F, y) = V \cup Parts(T[x])
    BY <1>2, <1>9 DEF Rest
  <2>2. Rest(inner, U, G, x) = R /\ Rest(inner, U, G, y) = V \cup New \cup Parts(s.table)
    <3> HIDE DEF V
    <3>. QED  BY <1>2, <1>8, <1>9, <2>1 DEF Rest
  <2>3. Data(inner, U, G) = Objs(inner, G) \cup Parts(U[x]) \cup Parts(U[y])
    BY <1>2 DEF Data, Fields, Other
  <2> HIDE DEF V
  <2>. QED  BY <1>8, <1>9, <2>1, <2>2, <2>3
<1>11. PartsApart(T[y], V \cup New \cup Parts(s.table))
  <2>1. Parts(T[y]) \cap V = {}
    <3>1. Parts(T[y]) \cap Rest(inner, T, F, y) = {}
      BY <1>1, <1>3, PartsApartFrom
    <3>. QED  BY <1>10, <3>1
  <2>2. Parts(T[y]) \cap New = {}
    BY <1>1, <1>10
  <2>3. Parts(s.table) \cap R = {} /\ Parts(s.table) \subseteq ArenaBlocks
    BY <1>4, <1>6, PartsApartFrom DEF TableHolds
  <2>4. Parts(T[y]) \subseteq R
    BY <1>10
  <2>5. NoBlock \notin V
    BY <1>1, <1>10
  <2> HIDE DEF V, R
  <2>6. Parts(T[y]) \cap (V \cup New \cup Parts(s.table)) = {}
    BY <2>1, <2>2, <2>3, <2>4
  <2>7. NoBlock \notin V \cup New \cup Parts(s.table)
    BY <1>1, <2>3, <2>5
  <2>. QED  BY <1>3, <2>6, <2>7, PartsApartFrom
<1>12. ObjectsApart(F[y], {inner} \cup Held(G[x]))
  <2>1. Held(F[y]) \subseteq D /\ NoBlock \notin {inner} \cup Held(F[x])
    BY <1>1, <1>10
  <2>2. Held(F[y]) \cap ({inner} \cup Held(F[x])) = {}
    BY <1>3, <2>1, ObjectsApartFrom
  <2>3. Held(F[y]) \cap ({inner} \cup Held(G[x])) = {}
    BY <1>7, <1>8, <2>1, <2>2
  <2>4. NoBlock \notin {inner} \cup Held(G[x])
    BY <1>7, <1>8, <2>1
  <2>. QED  BY <1>3, <2>3, <2>4, ObjectsApartFrom
<1>13. ObjectsApart(g, {inner} \cup Held(F[y]))
  <2>1. /\ DOMAIN g = DOMAIN F[x] \cup {name} /\ g[name] = object
        /\ \A n \in DOMAIN F[x] : g[n] = F[x][n]
    BY <1>3, WithContents DEF g
  <2>2. {inner} \cup Held(F[y]) \subseteq D /\ Held(F[x]) \subseteq D
    BY <1>1, <1>10
  <2>3. object.at \notin D /\ (object.argsAt # NoBlock => object.argsAt \notin D)
        /\ object.at # NoBlock
    BY <1>1
  <2>4. \A n \in DOMAIN F[x] : /\ F[x][n].at # object.at /\ F[x][n].at # object.argsAt
                               /\ F[x][n].argsAt # object.at
                               /\ (F[x][n].argsAt = object.argsAt => F[x][n].argsAt = NoBlock)
    <3>1. \A n \in DOMAIN F[x] : F[x][n].at \in ArenaBlocks
      BY <1>3 DEF ObjectsApart
    <3>2. \A n \in DOMAIN F[x] : /\ F[x][n].at \in Held(F[x])
                                 /\ F[x][n].argsAt # NoBlock => F[x][n].argsAt \in Held(F[x])
      BY <1>1, <3>1 DEF Held
    <3>. QED  BY <1>1, <2>2, <2>3, <3>1, <3>2
  <2>5. ASSUME NEW n \in DOMAIN g
        PROVE  /\ g[n].at \in ArenaBlocks /\ g[n].at \notin {inner} \cup Held(F[y])
               /\ g[n].argsAt \in ArenaBlocks \cup {NoBlock}
               /\ g[n].argsAt \notin {inner} \cup Held(F[y])
    <3>1. CASE n = name
      BY <1>1, <2>1, <2>2, <2>3, <3>1
    <3>2. CASE n \in DOMAIN F[x]
      BY <1>3, <2>1, <3>2 DEF ObjectsApart
    <3>. QED  BY <2>1, <3>1, <3>2
  <2>6. ASSUME NEW n \in DOMAIN g, NEW o \in DOMAIN g
        PROVE  /\ g[n].at = g[o].at => n = o
               /\ g[n].argsAt = g[o].argsAt => n = o \/ g[n].argsAt = NoBlock
               /\ g[n].at # g[o].argsAt
    <3>1. CASE n \in DOMAIN F[x] /\ o \in DOMAIN F[x]
      BY <1>3, <2>1, <3>1 DEF ObjectsApart
    <3>2. CASE n = name /\ o \in DOMAIN F[x]
      BY <2>1, <2>4, <3>2
    <3>3. CASE n \in DOMAIN F[x] /\ o = name
      BY <2>1, <2>4, <3>3
    <3>4. CASE n = name /\ o = name
      BY <2>1, <3>4
    <3>. QED  BY <2>1, <3>1, <3>2, <3>3, <3>4
  <2>. QED  BY <2>5, <2>6 DEF ObjectsApart
<1>14. TableHolds(U[y], G[y], Rest(inner, U, G, y)) /\ TableHolds(U[x], G[x], Rest(inner, U, G, x))
  <2> HIDE DEF R, V
  <2>. QED  BY <1>3, <1>6, <1>8, <1>10, <1>11 DEF TableHolds
<1>15. TablesHold(inner, U, G)
  <2>1. inner \in ArenaBlocks
    BY DEF TablesHold
  <2>2. /\ ObjectsApart(G[x], {inner} \cup Held(G[Other(x)]))
        /\ ObjectsApart(G[y], {inner} \cup Held(G[Other(y)]))
    BY <1>2, <1>8, <1>12, <1>13
  <2>. QED  BY <1>2, <1>8, <1>14, <2>1, <2>2 DEF TablesHold
<1>16. ArenaHolds(s.memory, Data(inner, U, G), B)
  BY <1>6, <1>10
<1>. QED  BY <1>15, <1>16 DEF U, G, g, s

-----------------------------------------------------------------------------
(***************************************************************************)
(* Pointers.                                                               *)
(***************************************************************************)

\* Pointers to different blocks from different places can be put together.
LEMMA OneEachUnion ==
  ASSUME NEW P, NEW Q, OneEach(P), OneEach(Q), Targets(P) \cap Targets(Q) = {}
  PROVE  OneEach(P \cup Q)
BY DEF OneEach, Targets

\* What two sets of pointers lead to.
LEMMA TargetsUnion ==
  ASSUME NEW P, NEW Q
  PROVE  Targets(P \cup Q) = Targets(P) \cup Targets(Q)
BY DEF Targets

\* A single pointer leads to its target.
LEMMA OnePointer ==
  ASSUME NEW p
  PROVE  OneEach({p}) /\ Targets({p}) = {p.to} \ {NoBlock}
BY DEF OneEach, Targets

\* A pointer tells where it is and where it leads.
LEMMA PointerFields ==
  ASSUME NEW of, NEW part, NEW i, NEW j, NEW to
  PROVE  Pointer(of, part, i, j, to).to = to
BY DEF Pointer

\* The pointers of the pairs lead to the objects, one to each.
LEMMA PairPointersSound ==
  ASSUME NEW of, NEW t, NEW f, NEW R, t.groups \in Seq(Groups), t.groups # << >>,
         Contents(f), Filed(t.groups, f, DOMAIN f), ObjectsApart(f, R)
  PROVE  LET P == UNION {PairPointers(of, g, t.groups[g].pairs) : g \in DOMAIN t.groups}
         IN  OneEach(P) /\ Targets(P) = Held(f)
<1> DEFINE n == Len(t.groups)
           pairs(g) == t.groups[g].pairs
           At(g, i) == Pointer(of, "object", g, i, pairs(g)[i].object.at)
           ArgsAt(g, i) == Pointer(of, "args", g, i, pairs(g)[i].object.argsAt)
           P == UNION {PairPointers(of, g, t.groups[g].pairs) : g \in DOMAIN t.groups}
<1>1. /\ DOMAIN t.groups = 1 .. n
      /\ \A g \in 1 .. n : DOMAIN pairs(g) = 1 .. Len(pairs(g))
  <2>1. \A g \in 1 .. n : t.groups[g] \in Groups
    BY LenProperties
  <2>2. \A g \in 1 .. n : pairs(g) \in Seq(Pairs)
    BY <2>1 DEF Groups
  <2>. QED  BY <2>2, LenProperties
<1>2. ASSUME NEW g \in 1 .. n, NEW i \in 1 .. Len(pairs(g))
      PROVE  /\ pairs(g)[i].name \in DOMAIN f
             /\ pairs(g)[i].object = f[pairs(g)[i].name]
             /\ At(g, i).to = f[pairs(g)[i].name].at
             /\ ArgsAt(g, i).to = f[pairs(g)[i].name].argsAt
  <2>1. PairsFiled(pairs(g), g, n, f, DOMAIN f)
    BY DEF Filed
  <2>2. pairs(g)[i].name \in DOMAIN f /\ pairs(g)[i].object = f[pairs(g)[i].name]
    BY <2>1 DEF PairsFiled
  <2>. QED  BY <2>2, PointerFields
<1>3. ASSUME NEW p \in P
      PROVE  \E g \in 1 .. n : \E i \in 1 .. Len(pairs(g)) : p = At(g, i) \/ p = ArgsAt(g, i)
  BY <1>1 DEF PairPointers
<1>4. ASSUME NEW g \in 1 .. n, NEW i \in 1 .. Len(pairs(g))
      PROVE  At(g, i) \in P /\ ArgsAt(g, i) \in P
  <2>1. {At(g, i), ArgsAt(g, i)} \subseteq PairPointers(of, g, t.groups[g].pairs)
    BY <1>1 DEF PairPointers
  <2> HIDE DEF At, ArgsAt
  <2>. QED  BY <1>1, <2>1
<1>5. ASSUME NEW g \in 1 .. n, NEW i \in 1 .. Len(pairs(g)),
             NEW h \in 1 .. n, NEW j \in 1 .. Len(pairs(h)),
             pairs(g)[i].name = pairs(h)[j].name
      PROVE  g = h /\ i = j
  <2>1. PairsFiled(pairs(g), g, n, f, DOMAIN f) /\ PairsFiled(pairs(h), h, n, f, DOMAIN f)
    BY DEF Filed
  <2>2. PlaceOf(pairs(g)[i].name, n) = g /\ PlaceOf(pairs(h)[j].name, n) = h
    BY <2>1 DEF PairsFiled
  <2>3. g = h
    BY <1>5, <2>2
  <2>. QED  BY <1>5, <2>1, <2>3 DEF PairsFiled
<1>6. ASSUME NEW name \in DOMAIN f
      PROVE  \E g \in 1 .. n : \E i \in 1 .. Len(pairs(g)) : pairs(g)[i].name = name
  <2> DEFINE g == PlaceOf(name, n)
  <2>1. PICK i \in 1 .. Len(pairs(g)) : pairs(g)[i].name = name
    BY DEF Filed
  <2>2. g \in 1 .. n
    BY EmptySeq, LenProperties, PlaceInRange DEF Contents
  <2>. QED  BY <2>1, <2>2
<1> HIDE DEF P, At, ArgsAt, pairs
<1>7. OneEach(P)
  <2>. SUFFICES ASSUME NEW p \in P, NEW q \in P, p.to = q.to, p.to # NoBlock
                PROVE  p = q
    BY DEF OneEach
  <2>1. PICK g \in 1 .. n : \E i \in 1 .. Len(pairs(g)) : p = At(g, i) \/ p = ArgsAt(g, i)
    BY <1>3
  <2>2. PICK i \in 1 .. Len(pairs(g)) : p = At(g, i) \/ p = ArgsAt(g, i)
    BY <2>1
  <2>3. PICK h \in 1 .. n : \E j \in 1 .. Len(pairs(h)) : q = At(h, j) \/ q = ArgsAt(h, j)
    BY <1>3
  <2>4. PICK j \in 1 .. Len(pairs(h)) : q = At(h, j) \/ q = ArgsAt(h, j)
    BY <2>3
  <2> DEFINE a == pairs(g)[i].name
             b == pairs(h)[j].name
  <2>5. /\ a \in DOMAIN f /\ At(g, i).to = f[a].at /\ ArgsAt(g, i).to = f[a].argsAt
        /\ b \in DOMAIN f /\ At(h, j).to = f[b].at /\ ArgsAt(h, j).to = f[b].argsAt
    BY <1>2
  <2>6. a = b => g = h /\ i = j
    BY <1>5
  <2> HIDE DEF a, b
  <2>7. /\ f[a].at = f[b].at => a = b
        /\ f[a].argsAt = f[b].argsAt => a = b \/ f[a].argsAt = NoBlock
        /\ f[a].at # f[b].argsAt /\ f[b].at # f[a].argsAt
    BY <2>5 DEF ObjectsApart
  <2>. QED  BY <2>2, <2>4, <2>5, <2>6, <2>7
<1>8. ASSUME NEW p \in P
      PROVE  \E name \in DOMAIN f : p.to = f[name].at \/ p.to = f[name].argsAt
  BY <1>2, <1>3
<1>9. ASSUME NEW name \in DOMAIN f
      PROVE  (\E p \in P : p.to = f[name].at) /\ (\E p \in P : p.to = f[name].argsAt)
  <2>1. PICK g \in 1 .. n : \E i \in 1 .. Len(pairs(g)) : pairs(g)[i].name = name
    BY <1>6
  <2>2. PICK i \in 1 .. Len(pairs(g)) : pairs(g)[i].name = name
    BY <2>1
  <2>. QED  BY <1>2, <1>4, <2>2
<1>10. Targets(P) = Held(f)
  BY <1>8, <1>9 DEF Targets, Held
<1>. QED  BY <1>7, <1>10 DEF P

\* The pointers of a table lead to its arrays and to the objects, one to each.
LEMMA TablePointersSound ==
  ASSUME NEW of, NEW t, NEW f, NEW R, NEW S, TableHolds(t, f, R), ObjectsApart(f, S),
         Held(f) \subseteq R, NoBlock \notin R, NoBlock \notin S
  PROVE  LET P == TablePointers(of, t)
         IN  OneEach(P) /\ Targets(P) = Parts(t) \cup Held(f)
<1> DEFINE E == {Pointer(of, "elements", 0, 0, t.elementsAt)}
           G == {Pointer(of, "groups", 0, 0, t.groupsAt)}
           At(g) == Pointer(of, "group", g, 0, t.groups[g].at)
           A == {At(g) : g \in DOMAIN t.groups}
           O == UNION {PairPointers(of, g, t.groups[g].pairs) : g \in DOMAIN t.groups}
           P == TablePointers(of, t)
<1>1. P = ((E \cup G) \cup A) \cup O
  BY DEF TablePointers
<1>2. /\ t \in Tables /\ Tabled(t, f) /\ PartsApart(t, R) /\ Contents(f)
      /\ DOMAIN t.groups = 1 .. Len(t.groups) /\ t.groups \in Seq(Groups)
  BY TableFields, LenProperties DEF TableHolds, Tabled
<1>3. /\ OneEach(E) /\ Targets(E) = {t.elementsAt} \ {NoBlock}
      /\ OneEach(G) /\ Targets(G) = {t.groupsAt} \ {NoBlock}
  <2> DEFINE p == Pointer(of, "elements", 0, 0, t.elementsAt)
             q == Pointer(of, "groups", 0, 0, t.groupsAt)
  <2>1. p.to = t.elementsAt /\ q.to = t.groupsAt
    BY DEF Pointer
  <2> HIDE DEF p, q
  <2>2. OneEach({p}) /\ OneEach({q}) /\ Targets({p}) = {p.to} \ {NoBlock}
        /\ Targets({q}) = {q.to} \ {NoBlock}
    BY OnePointer
  <2>. QED  BY <2>1, <2>2 DEF p, q
<1>4. OneEach(A) /\ Targets(A) = Arrays(t.groups)
  <2>1. \A g \in 1 .. Len(t.groups) : At(g).to = t.groups[g].at
    BY PointerFields
  <2>2. A = {At(g) : g \in 1 .. Len(t.groups)}
    BY <1>2
  <2>3. \A g, h \in 1 .. Len(t.groups) : t.groups[g].at = t.groups[h].at => g = h
    BY <1>2 DEF PartsApart, ArraysApart
  <2>4. \A g \in 1 .. Len(t.groups) : t.groups[g].at # NoBlock
    BY <1>2, BlocksDiffer DEF PartsApart, ArraysApart
  <2> HIDE DEF A, At
  <2>. QED  BY <2>1, <2>2, <2>3, <2>4 DEF OneEach, Targets, Arrays
<1>5. OneEach(O) /\ Targets(O) = Held(f)
  <2>1. CASE t.groups = << >>
    <3>1. O = {} /\ Held(f) = {}
      BY <1>2, <2>1 DEF Tabled, Held
    <3> HIDE DEF O
    <3>. QED  BY <3>1 DEF OneEach, Targets
  <2>2. CASE t.groups # << >>
    <3>1. Filed(t.groups, f, DOMAIN f)
      BY <1>2, <2>2 DEF Tabled
    <3>. QED  BY <1>2, <2>2, <3>1, PairPointersSound
  <2>. QED  BY <2>1, <2>2
<1> HIDE DEF E, G, A, O, P
<1>6. /\ Parts(t) \cap Held(f) = {}
      /\ t.elementsAt = t.groupsAt => t.elementsAt = NoBlock
      /\ t.elementsAt \notin Arrays(t.groups) /\ t.groupsAt \notin Arrays(t.groups)
  <2>1. Parts(t) \cap R = {}
    BY <1>2, PartsApartFrom
  <2>. QED  BY <1>2, <2>1 DEF PartsApart
<1>7. OneEach(E \cup G) /\ Targets(E \cup G) = {t.elementsAt, t.groupsAt} \ {NoBlock}
  <2>1. Targets(E) \cap Targets(G) = {}
    BY <1>3, <1>6
  <2>. QED  BY <1>3, <2>1, OneEachUnion, TargetsUnion
<1>8. OneEach((E \cup G) \cup A) /\ Targets((E \cup G) \cup A) = Parts(t)
  <2>1. Targets(E \cup G) \cap Targets(A) = {}
    BY <1>4, <1>6, <1>7
  <2>2. Targets((E \cup G) \cup A) = Targets(E \cup G) \cup Targets(A)
    BY TargetsUnion
  <2>3. OneEach((E \cup G) \cup A)
    BY <1>4, <1>7, <2>1, OneEachUnion
  <2>. QED  BY <1>4, <1>7, <2>2, <2>3 DEF Parts
<1>9. OneEach(((E \cup G) \cup A) \cup O)
  BY <1>5, <1>6, <1>8, OneEachUnion
<1>10. Targets(((E \cup G) \cup A) \cup O) = Parts(t) \cup Held(f)
  BY <1>5, <1>8, TargetsUnion
<1>. QED  BY <1>1, <1>9, <1>10 DEF P

\* The pointers into a program's memory lead to its blocks, one to each.
LEMMA DataPointersSound ==
  ASSUME TablesHold(host.inner, tables, built)
  PROVE  OneEach(DataPointers) /\ Targets(DataPointers) = Data(host.inner, tables, built)
<1> DEFINE inner == host.inner
           x == "functions"
           y == "types"
           I == {Pointer("program", "inner", 0, 0, inner)}
           X == TablePointers(x, tables[x])
           Y == TablePointers(y, tables[y])
           V == Objs(inner, built)
           a == Parts(tables[x]) \cup Held(built[x])
           b == Parts(tables[y]) \cup Held(built[y])
<1>1. DataPointers = (I \cup X) \cup Y
  BY DEF DataPointers, Fields
<1>2. /\ TableHolds(tables[x], built[x], V \cup Parts(tables[y]))
      /\ TableHolds(tables[y], built[y], V \cup Parts(tables[x]))
      /\ ObjectsApart(built[x], {inner} \cup Held(built[y]))
      /\ ObjectsApart(built[y], {inner} \cup Held(built[x]))
  <2>1. x \in Fields /\ y \in Fields /\ Other(x) = y /\ Other(y) = x
    BY DEF Fields, Other
  <2>. QED  BY <2>1 DEF TablesHold, Rest
<1>3. /\ Data(inner, tables, built) = V \cup Parts(tables[x]) \cup Parts(tables[y])
      /\ V = {inner} \cup Held(built[x]) \cup Held(built[y])
  BY DEF Data, Objs
<1>4. NoBlock \notin Data(inner, tables, built)
  BY DataBlocks
<1> HIDE DEF V
<1>5. /\ NoBlock \notin V \cup Parts(tables[y]) /\ NoBlock \notin V \cup Parts(tables[x])
      /\ NoBlock \notin {inner} \cup Held(built[y]) /\ NoBlock \notin {inner} \cup Held(built[x])
      /\ Held(built[x]) \subseteq V \cup Parts(tables[y])
      /\ Held(built[y]) \subseteq V \cup Parts(tables[x])
  BY <1>3, <1>4
<1>6. OneEach(X) /\ Targets(X) = a /\ OneEach(Y) /\ Targets(Y) = b
  BY <1>2, <1>5, TablePointersSound
<1>7. OneEach(I) /\ Targets(I) = {inner}
  <2> DEFINE p == Pointer("program", "inner", 0, 0, inner)
  <2>1. p.to = inner
    BY DEF Pointer
  <2> HIDE DEF p
  <2>2. OneEach({p}) /\ Targets({p}) = {inner} \ {NoBlock}
    BY <2>1, OnePointer
  <2>. QED  BY <1>3, <1>4, <2>2 DEF p
<1> HIDE DEF I, X, Y
<1>8. /\ Parts(tables[x]) \cap (V \cup Parts(tables[y])) = {}
      /\ Parts(tables[y]) \cap (V \cup Parts(tables[x])) = {}
      /\ Held(built[x]) \cap ({inner} \cup Held(built[y])) = {}
      /\ Held(built[y]) \cap ({inner} \cup Held(built[x])) = {}
  BY <1>2, <1>5, PartsApartFrom, ObjectsApartFrom DEF TableHolds
<1>9. {inner} \cap a = {} /\ ({inner} \cup a) \cap b = {}
  <2>1. inner \in V /\ Held(built[x]) \subseteq V /\ Held(built[y]) \subseteq V
    BY <1>3
  <2>2. inner \notin a /\ inner \notin b
    BY <1>8, <2>1
  <2>3. a \cap b = {}
    BY <1>8, <2>1
  <2>. QED  BY <2>2, <2>3
<1>10. {inner} \cup a \cup b = Data(inner, tables, built)
  BY <1>3
<1> HIDE DEF a, b
<1>11. OneEach(I \cup X) /\ Targets(I \cup X) = {inner} \cup a
  BY <1>6, <1>7, <1>9, OneEachUnion, TargetsUnion
<1>12. OneEach((I \cup X) \cup Y) /\ Targets((I \cup X) \cup Y) = {inner} \cup a \cup b
  BY <1>6, <1>9, <1>11, OneEachUnion, TargetsUnion
<1>. QED  BY <1>1, <1>10, <1>12

-----------------------------------------------------------------------------
(***************************************************************************)
(* The program.  ProgramIInv adds to its properties who has the mutex, the *)
(* blocks of the builder, what the tables are tables of, and that memory   *)
(* has the blocks that are pointed to and no others.                       *)
(***************************************************************************)

Hosts == [inner : Blocks, mutex : {"free", "script", "deinit"},
          callback : {"none", "alive", "late"},
          deinit : {"no", "panic", "context", "unlocked", "done"}]

HostHolds(h) ==
  /\ h \in Hosts
  /\ h.callback # "none" <=> h.mutex = "script"
  /\ h.deinit = "context" <=> h.mutex = "deinit"
  /\ h.callback = "alive" => h.deinit \in {"no", "panic"}

Builders == [code : Seq(Nat), codeAt : Blocks, codeCapacity : Nat,
             args : Nat, argsAt : Blocks, argsCapacity : Nat, nameAt : Blocks]

BuilderHolds(b) ==
  /\ b \in Builders
  /\ b.codeAt = IF b.codeCapacity = 0 THEN NoBlock ELSE <<"code", b.codeCapacity>>
  /\ b.argsAt = IF b.argsCapacity = 0 THEN NoBlock ELSE <<"args", b.argsCapacity>>
  /\ b.nameAt = NoBlock \/ \E n \in Names : b.nameAt = <<"name", n>>

\* The builder's blocks.
Own(b) == {b.codeAt, b.argsAt, b.nameAt} \ {NoBlock}

\* The names that the functions of f have.
HeldNames(f) == {f[n].nameAt : n \in DOMAIN f} \ {NoBlock}

\* Each function has its own name, and the builder that of no function.
NamesHold(b, f) ==
  /\ \A n \in DOMAIN f : f[n].nameAt = NameBlock(n)
  /\ \A n \in DOMAIN f : b.nameAt # <<"name", n>>

\* Once the program is gone, the builder's blocks are left, and the names.
MemoryHolds(m, data, own, done) ==
  IF done THEN MemoryShape(m) /\ m.live = own /\ m.wrong = {} ELSE ArenaHolds(m, data, own)

ProgramIInv ==
  /\ HostHolds(host) /\ BuilderHolds(builder)
  /\ TablesHold(host.inner, tables, built)
  /\ NamesHold(builder, built["functions"])
  /\ MemoryHolds(memory, Data(host.inner, tables, built),
                 Own(builder) \cup HeldNames(built["functions"]), host.deinit = "done")

\* The builder's blocks are not the arena's, and each other's.
LEMMA OwnBlocks ==
  ASSUME NEW b, BuilderHolds(b)
  PROVE  /\ Own(b) \subseteq BuilderBlocks /\ NoBlock \notin Own(b)
         /\ b.codeAt = b.argsAt => b.codeAt = NoBlock
         /\ b.codeAt = b.nameAt => b.codeAt = NoBlock
         /\ b.argsAt = b.nameAt => b.argsAt = NoBlock
         /\ b.codeAt # NoBlock <=> b.codeCapacity > 0
         /\ b.argsAt # NoBlock <=> b.argsCapacity > 0
<1>1. b.codeCapacity \in Nat /\ b.argsCapacity \in Nat
  BY DEF BuilderHolds, Builders
<1>2. /\ b.codeAt # NoBlock <=> b.codeCapacity > 0
      /\ b.argsAt # NoBlock <=> b.argsCapacity > 0
  BY <1>1 DEF BuilderHolds, NoBlock
<1>3. /\ b.codeAt \in {NoBlock} \cup ({"code"} \X Nat)
      /\ b.argsAt \in {NoBlock} \cup ({"args"} \X Nat)
      /\ b.nameAt \in {NoBlock} \cup ({"name"} \X Names)
  BY <1>1 DEF BuilderHolds
<1>. QED  BY <1>2, <1>3 DEF Own, BuilderBlocks, NoBlock

\* The names of functions are blocks of their own.
LEMMA NameBlocks ==
  /\ \A n \in LongNames : NameBlock(n) = <<"name", n>> /\ NameBlock(n) # NoBlock
  /\ \A n : NameBlock(n) # NoBlock =>
              /\ n \in LongNames /\ NameBlock(n) = <<"name", n>>
              /\ NameBlock(n) \in BuilderBlocks
  /\ \A n, o : <<"name", n>> = <<"name", o>> => n = o
BY LongNamesAssumption DEF NameBlock, NoBlock, BuilderBlocks

\* A function's name is no other block of the builder.
LEMMA HeldNameBlocks ==
  ASSUME NEW b, NEW f, BuilderHolds(b), NamesHold(b, f)
  PROVE  /\ HeldNames(f) \subseteq BuilderBlocks /\ NoBlock \notin HeldNames(f)
         /\ HeldNames(f) \subseteq {"name"} \X Names
         /\ Own(b) \cap HeldNames(f) = {}
<1>1. \A x \in HeldNames(f) : \E n \in DOMAIN f \cap LongNames : x = <<"name", n>>
  BY NameBlocks DEF HeldNames, NamesHold
<1>2. HeldNames(f) \subseteq {"name"} \X Names /\ NoBlock \notin HeldNames(f)
  BY <1>1, LongNamesAssumption DEF HeldNames
<1>3. b.nameAt \notin HeldNames(f)
  BY <1>1 DEF NamesHold
<1>4. /\ b.codeAt \in {NoBlock} \cup ({"code"} \X Nat)
      /\ b.argsAt \in {NoBlock} \cup ({"args"} \X Nat)
  BY DEF BuilderHolds, Builders
<1>5. b.codeAt \notin HeldNames(f) /\ b.argsAt \notin HeldNames(f)
  BY <1>2, <1>4
<1>. QED  BY <1>2, <1>3, <1>5 DEF Own, BuilderBlocks

\* The pointers of the builder lead to its blocks, one to each.
LEMMA BuilderPointersSound ==
  ASSUME BuilderHolds(builder)
  PROVE  OneEach(BuilderPointers) /\ Targets(BuilderPointers) = Own(builder)
<1> DEFINE p == Pointer("builder", "code", 0, 0, builder.codeAt)
           q == Pointer("builder", "args", 0, 0, builder.argsAt)
           r == Pointer("builder", "name", 0, 0, builder.nameAt)
<1>1. /\ p.to = builder.codeAt /\ q.to = builder.argsAt /\ r.to = builder.nameAt
      /\ BuilderPointers = {p, q, r}
  BY DEF Pointer, BuilderPointers
<1> HIDE DEF p, q, r
<1>. QED  BY <1>1, OwnBlocks DEF OneEach, Targets, Own

\* The pointers of the headers lead to the names, one to each.
LEMMA NamePointersSound ==
  ASSUME NamesHold(builder, built["functions"])
  PROVE  /\ OneEach(NamePointers)
         /\ Targets(NamePointers) = HeldNames(built["functions"])
<1> DEFINE f == built["functions"]
           P(n) == Pointer("header", "name", n, 0, f[n].nameAt)
<1>1. NamePointers = {P(n) : n \in DOMAIN f}
  BY DEF NamePointers
<1>2. \A n \in DOMAIN f : P(n).to = NameBlock(n) /\ P(n).to = f[n].nameAt
  BY DEF Pointer, NamesHold
<1> HIDE DEF P, f
<1>3. \A n, o \in DOMAIN f : P(n).to = P(o).to /\ P(n).to # NoBlock => n = o
  BY <1>2, NameBlocks
<1>4. Targets(NamePointers) = HeldNames(f)
  BY <1>1, <1>2 DEF Targets, HeldNames
<1>. QED  BY <1>1, <1>3, <1>4 DEF OneEach, f

\* Whoever has blocks is a live program, a builder, or a header that had a name.
LEMMA ProgramHolds ==
  ASSUME ProgramIInv
  PROVE  EveryBlockFreedOnce
<1> DEFINE inner == host.inner
           D == Data(inner, tables, built)
           f == built["functions"]
           B == Own(builder) \cup HeldNames(f)
           names == BuilderPointers \cup NamePointers
           owners == (DataPointers \cup names) \cup {ListPointer}
           list == memory.allocations
<1>1. /\ HostHolds(host) /\ BuilderHolds(builder) /\ TablesHold(inner, tables, built)
      /\ NamesHold(builder, f) /\ MemoryHolds(memory, D, B, host.deinit = "done")
  BY DEF ProgramIInv
<1>2. /\ OneEach(DataPointers) /\ Targets(DataPointers) = D
      /\ OneEach(names) /\ Targets(names) = B
  <2>1. /\ OneEach(DataPointers) /\ Targets(DataPointers) = D
        /\ OneEach(BuilderPointers) /\ Targets(BuilderPointers) = Own(builder)
        /\ OneEach(NamePointers) /\ Targets(NamePointers) = HeldNames(f)
    BY <1>1, DataPointersSound, BuilderPointersSound, NamePointersSound
  <2>2. Own(builder) \cap HeldNames(f) = {}
    BY <1>1, HeldNameBlocks
  <2> HIDE DEF f, D
  <2>. QED  BY <2>1, <2>2, OneEachUnion, TargetsUnion
<1> HIDE DEF B
<1>3. memory.wrong = {}
  BY <1>1 DEF MemoryHolds, ArenaHolds
<1>4. host.callback = "alive" => host.deinit \in {"no", "panic"}
  BY <1>1 DEF HostHolds
<1>5. CASE host.deinit = "done"
  BY <1>1, <1>2, <1>3, <1>4, <1>5 DEF MemoryHolds, EveryBlockFreedOnce
<1>6. CASE host.deinit # "done"
  <2>1. ArenaHolds(memory, D, B)
    BY <1>1, <1>6 DEF MemoryHolds
  <2>2. /\ D \subseteq ArenaBlocks /\ B \subseteq BuilderBlocks
        /\ memory.list \notin D \cup B
    BY <2>1, HeldBlocks
  <2>3. D \cap B = {}
    BY <2>2, BlocksDiffer
  <2>4. OneEach({ListPointer}) /\ Targets({ListPointer}) = {memory.list} \ {NoBlock}
    <3>1. ListPointer.to = memory.list
      BY DEF Pointer, ListPointer
    <3>. QED  BY <3>1, OnePointer
  <2> HIDE DEF D
  <2>5. /\ OneEach(DataPointers \cup names)
        /\ Targets(DataPointers \cup names) = D \cup B
    BY <1>2, <2>3, OneEachUnion, TargetsUnion
  <2>6. Targets(DataPointers \cup names) \cap Targets({ListPointer}) = {}
    BY <2>2, <2>4, <2>5
  <2>7. OneEach(owners)
    BY <2>4, <2>5, <2>6, OneEachUnion
  <2>8. Targets(owners) = D \cup B \cup ({memory.list} \ {NoBlock})
    BY <2>4, <2>5, TargetsUnion
  <2>9. memory.live = Targets(owners)
    BY <2>1, <2>8 DEF ArenaHolds
  <2>10. DOMAIN list = 1 .. Len(list) /\ Len(list) \in Nat
    <3>1. list \in Seq(Blocks)
      BY <2>1 DEF ArenaHolds, Memories
    <3>. QED  BY <3>1, LenProperties
  <2>11. \A i, j \in DOMAIN list : list[i] = list[j] /\ list[i] # NoBlock => i = j
    <3>. SUFFICES ASSUME NEW i \in 1 .. Len(list), NEW j \in 1 .. Len(list),
                         list[i] = list[j], list[i] # NoBlock
                  PROVE  i = j
      BY <2>10
    <3>1. list[i] = <<"arena", i>> /\ list[j] = <<"arena", j>>
      BY <2>1 DEF ArenaHolds, Listed
    <3>2. <<"arena", i>> = <<"arena", j>>
      BY <3>1, Zenon
    <3>3. i \in Nat /\ j \in Nat
      BY <2>10
    <3> HIDE DEF list
    <3>. QED  BY <3>2, <3>3, BlocksDiffer
  <2>12. {list[i] : i \in DOMAIN list} \ {NoBlock} = Targets(DataPointers)
    BY <1>2, <2>1, <2>10 DEF ArenaHolds, Allocated
  <2>. QED  BY <1>3, <1>4, <1>6, <2>7, <2>9, <2>11, <2>12 DEF EveryBlockFreedOnce
<1>. QED  BY <1>5, <1>6

\* The tables find what was built.
LEMMA ProgramFinds ==
  ASSUME ProgramIInv
  PROVE  TablesFind
<1>1. \A x \in Fields : Tabled(tables[x], built[x])
  BY DEF ProgramIInv, TablesHold, TableHolds
<1>2. \A x \in Fields, name \in AllNames :
        FoundIn(tables[x], name) =
          IF name \in DOMAIN built[x] THEN built[x][name] ELSE NoObject
  BY <1>1, FoundInSound
<1>3. \A x \in Fields : \A name \in DOMAIN built[x] :
        name \in AllNames /\ built[x][name] # NoObject
  <2>. SUFFICES ASSUME NEW x \in Fields, NEW name \in DOMAIN built[x]
                PROVE  name \in AllNames /\ built[x][name].at # NoBlock
    BY DEF NoObject, Object
  <2>1. Contents(built[x]) /\ built[x][name].at \in ArenaBlocks
    BY <1>1 DEF Tabled, ProgramIInv, TablesHold, ObjectsApart
  <2>. QED  BY <2>1, BlocksDiffer DEF Contents
<1>4. "functions" \in Fields /\ "types" \in Fields /\ Names \subseteq AllNames
  BY DEF Fields, AllNames
<1>5. \A name \in Names :
        FindFunction(name) = IF name \in DOMAIN built["functions"]
                             THEN FoundObject(built["functions"][name]) ELSE Null
  BY <1>2, <1>3, <1>4 DEF FindFunction
<1>6. \A name \in DOMAIN built["types"] :
        FindType(name) = FoundObject(built["types"][name])
  BY <1>2, <1>3, <1>4 DEF FindType
<1>. QED  BY <1>5, <1>6 DEF TablesFind

\* The invariant holds of a new program.
LEMMA ProgramIInvInit ==
  ASSUME ProgramInit
  PROVE  ProgramIInv
<1> DEFINE inner == LastBlock(memory)
           D == Data(inner, tables, built)
<1>1. /\ memory = ArenaMalloc(NoMemory)
      /\ host = [inner |-> inner, mutex |-> "free", callback |-> "none", deinit |-> "no"]
      /\ tables = [x \in Fields |-> NoTable] /\ built = [x \in Fields |-> << >>]
      /\ builder = NoBuilder
  BY DEF ProgramInit
<1>2. ArenaHolds(NoMemory, {}, {})
  <2>1. /\ NoMemory.live = {} /\ NoMemory.wrong = {} /\ NoMemory.allocations = << >>
        /\ NoMemory.list = NoBlock /\ NoMemory.capacity = 0
    BY DEF NoMemory
  <2>2. NoMemory \in Memories
    <3>1. << >> \in Seq(Blocks)
      OBVIOUS
    <3>. QED  BY <3>1, BlocksDiffer DEF NoMemory, Memories
  <2>3. Len(<< >>) = 0
    OBVIOUS
  <2>4. Listed(NoMemory) /\ Allocated(NoMemory) = {}
    BY <2>1, <2>3 DEF Listed, Allocated
  <2>. QED  BY <2>1, <2>2, <2>4 DEF ArenaHolds
<1>3. ArenaHolds(memory, {inner}, {}) /\ inner \in ArenaBlocks
  <2>1. ArenaHolds(memory, {} \cup {inner}, {}) /\ inner \in ArenaBlocks
    BY <1>1, <1>2, ArenaMallocHolds
  <2>2. {} \cup {inner} = {inner}
    OBVIOUS
  <2>. QED  BY <2>1, <2>2
<1> HIDE DEF inner
<1>4. Parts(NoTable) = {} /\ Arrays(NoTable.groups) = {} /\ Held(<< >>) = {}
  BY DEF Parts, Arrays, NoTable, Held
<1>5. \A x \in Fields : /\ tables[x] = NoTable /\ built[x] = << >>
                        /\ Parts(tables[x]) = {} /\ Held(built[x]) = {}
  BY <1>1, <1>4
<1>6. Objs(inner, built) = {inner} /\ D = {inner}
      /\ \A x \in Fields : Rest(inner, tables, built, x) = {inner}
  BY <1>5 DEF Objs, Data, Rest, Other, Fields
<1>7. Tabled(NoTable, << >>)
  <2>1. NoTable.groups = << >> /\ NoTable.count = 0 /\ NoTable.groupsAt = NoBlock
    BY DEF NoTable
  <2>2. NoTable \in Tables
    <3>1. << >> \in Seq(Groups)
      OBVIOUS
    <3>. QED  BY <3>1, BlocksDiffer DEF NoTable, Tables
  <2>3. DOMAIN << >> = {}
    OBVIOUS
  <2>. QED  BY <2>1, <2>2, <2>3 DEF Tabled, Contents
<1>8. PartsApart(NoTable, {inner})
  <2>1. /\ NoTable.elementsAt = NoBlock /\ NoTable.groupsAt = NoBlock /\ NoTable.groups = << >>
    BY DEF NoTable
  <2>2. NoBlock # inner
    BY <1>3, BlocksDiffer
  <2>3. ArraysApart(<< >>, {inner})
    BY DEF ArraysApart
  <2>. QED  BY <1>4, <2>1, <2>2, <2>3 DEF PartsApart
<1>9. \A x \in Fields : ObjectsApart(built[x], {inner} \cup Held(built[Other(x)]))
  <2>1. DOMAIN << >> = {}
    OBVIOUS
  <2>. QED  BY <1>5, <2>1 DEF ObjectsApart
<1>10. TablesHold(inner, tables, built)
  <2>1. tables = [x \in Fields |-> tables[x]] /\ built = [x \in Fields |-> built[x]]
    BY <1>1
  <2>2. \A x \in Fields : TableHolds(tables[x], built[x], Rest(inner, tables, built, x))
    BY <1>5, <1>6, <1>7, <1>8 DEF TableHolds
  <2>. QED  BY <1>3, <1>9, <2>1, <2>2 DEF TablesHold
<1>11. /\ BuilderHolds(builder) /\ Own(builder) = {} /\ HeldNames(built["functions"]) = {}
       /\ NamesHold(builder, built["functions"])
  <2>1. NoBuilder \in Builders
    <3>1. << >> \in Seq(Nat)
      OBVIOUS
    <3>. QED  BY <3>1, BlocksDiffer DEF NoBuilder, Builders
  <2>2. BuilderHolds(builder) /\ Own(builder) = {}
    BY <1>1, <2>1 DEF BuilderHolds, Own, NoBuilder
  <2>3. built["functions"] = << >> /\ DOMAIN << >> = {}
    BY <1>1 DEF Fields
  <2>. QED  BY <2>2, <2>3 DEF HeldNames, NamesHold
<1>12. HostHolds(host) /\ host.inner = inner /\ host.deinit = "no"
  BY <1>1, <1>3, BlocksDiffer DEF HostHolds, Hosts
<1>13. ArenaHolds(memory, D, Own(builder) \cup HeldNames(built["functions"]))
  <2>1. Own(builder) \cup HeldNames(built["functions"]) = {}
    BY <1>11
  <2>. QED  BY <1>3, <1>6, <2>1
<1>. QED  BY <1>10, <1>11, <1>12, <1>13 DEF ProgramIInv, MemoryHolds

\* An array of the builder that doubles has a new block, and the old one is freed.
LEMMA RegrownHolds ==
  ASSUME NEW m, NEW A, NEW B, ArenaHolds(m, A, B), NEW new \in BuilderBlocks, NEW old,
         old = NoBlock \/ old \in B, old # new
  PROVE  ArenaHolds(Regrown(m, new, old), A, (B \cup {new}) \ ({old} \ {NoBlock}))
<1>1. ArenaHolds(Malloc(m, new), A, B \cup {new})
  BY BuilderMallocHolds
<1>2. CASE old = NoBlock
  <2>1. (B \cup {new}) \ ({old} \ {NoBlock}) = B \cup {new}
    BY <1>2
  <2>. QED  BY <1>1, <1>2, <2>1 DEF Regrown
<1>3. CASE old # NoBlock
  <2>1. (B \cup {new}) \ ({old} \ {NoBlock}) = (B \cup {new}) \ {old} /\ old \in B \cup {new}
    BY <1>3
  <2>2. ArenaHolds(Free(Malloc(m, new), old), A, (B \cup {new}) \ {old})
    BY <1>1, <2>1, BuilderFreeHolds
  <2>. QED  BY <1>3, <2>1, <2>2 DEF Regrown
<1>. QED  BY <1>2, <1>3

\* What is freed is held no longer, before and after the end of the program.
LEMMA FreeHolds ==
  ASSUME NEW m, NEW A, NEW B, NEW done \in BOOLEAN, MemoryHolds(m, A, B, done),
         NEW x, x \in B \/ x = NoBlock,
         NEW n, n = IF x # NoBlock THEN Free(m, x) ELSE m
  PROVE  MemoryHolds(n, A, B \ ({x} \ {NoBlock}), done)
<1>1. CASE x = NoBlock
  <2>1. n = m /\ B \ ({x} \ {NoBlock}) = B
    BY <1>1
  <2>. QED  BY <2>1
<1>2. CASE x # NoBlock
  <2>1. n = Free(m, x) /\ B \ ({x} \ {NoBlock}) = B \ {x} /\ x \in B
    BY <1>2
  <2>2. CASE ~done
    BY <2>1, <2>2, BuilderFreeHolds DEF MemoryHolds
  <2>3. CASE done
    <3>1. MemoryShape(m) /\ m.live = B /\ m.wrong = {}
      BY <2>3 DEF MemoryHolds
    <3>2. /\ MemoryShape(Free(m, x)) /\ Free(m, x).live = m.live \ {x}
          /\ Free(m, x).wrong = m.wrong \cup ({x} \ m.live)
      BY <3>1, FreeRecord
    <3>. QED  BY <2>1, <2>3, <3>1, <3>2 DEF MemoryHolds
  <2>. QED  BY <2>2, <2>3
<1>. QED  BY <1>1, <1>2

\* The end of the builder frees its arrays, ...
LEMMA ArraysFreedHolds ==
  ASSUME NEW m, NEW A, NEW B, NEW done \in BOOLEAN, MemoryHolds(m, A, B, done),
         BuilderHolds(builder), {builder.codeAt, builder.argsAt} \ {NoBlock} \subseteq B,
         NoBlock \notin B
  PROVE  MemoryHolds(ArraysFreed(m), A, B \ {builder.codeAt, builder.argsAt}, done)
<1> DEFINE c == builder.codeAt
           a == builder.argsAt
           n == IF builder.codeCapacity > 0 THEN Free(m, c) ELSE m
           C == B \ ({c} \ {NoBlock})
<1>1. /\ c = a => c = NoBlock
      /\ n = IF c # NoBlock THEN Free(m, c) ELSE m
      /\ ArraysFreed(m) = IF a # NoBlock THEN Free(n, a) ELSE n
  BY OwnBlocks DEF ArraysFreed
<1>2. C \ ({a} \ {NoBlock}) = B \ {c, a}
  OBVIOUS
<1> HIDE DEF n
<1>3. MemoryHolds(n, A, C, done) /\ (a \in C \/ a = NoBlock)
  BY <1>1, FreeHolds
<1> HIDE DEF C
<1>4. MemoryHolds(ArraysFreed(m), A, C \ ({a} \ {NoBlock}), done)
  BY <1>1, <1>3, FreeHolds
<1>. QED  BY <1>2, <1>4

\* ... and before them the name that it did not give to a header.
LEMMA BuilderFreedHolds ==
  ASSUME NEW m, NEW A, NEW H, NEW done \in BOOLEAN, NoBlock \notin H,
         MemoryHolds(m, A, Own(builder) \cup H, done),
         BuilderHolds(builder), Own(builder) \cap H = {}
  PROVE  MemoryHolds(BuilderFreed(m), A, H, done)
<1> DEFINE x == builder.nameAt
           n == IF x # NoBlock THEN Free(m, x) ELSE m
           B == (Own(builder) \cup H) \ ({x} \ {NoBlock})
<1>1. MemoryHolds(n, A, B, done)
  BY FreeHolds DEF Own
<1>2. /\ {builder.codeAt, builder.argsAt} \ {NoBlock} \subseteq B
      /\ B \ {builder.codeAt, builder.argsAt} = H /\ NoBlock \notin B
  BY OwnBlocks DEF Own
<1>3. BuilderFreed(m) = ArraysFreed(n)
  BY DEF BuilderFreed
<1> HIDE DEF n, B
<1>. QED  BY <1>1, <1>2, <1>3, ArraysFreedHolds

\* A step that changes no more than memory and the builder, and not its name.
LEMMA BuilderStep ==
  ASSUME ProgramIInv, UNCHANGED <<tables, built, host>>, BuilderHolds(builder'),
         builder'.nameAt \in {NoBlock, builder.nameAt},
         MemoryHolds(memory', Data(host.inner, tables, built),
                     Own(builder') \cup HeldNames(built["functions"]), host.deinit = "done")
  PROVE  ProgramIInv'
<1>1. NamesHold(builder', built["functions"])
  BY DEF ProgramIInv, NamesHold, NoBlock
<1>. QED  BY <1>1 DEF ProgramIInv

\* Before the end of a program the arena has its blocks.
LEMMA AliveFacts ==
  ASSUME ProgramIInv
  PROVE  /\ HostHolds(host) /\ BuilderHolds(builder) /\ TablesHold(host.inner, tables, built)
         /\ NamesHold(builder, built["functions"])
         /\ host.deinit # "done" =>
              ArenaHolds(memory, Data(host.inner, tables, built),
                         Own(builder) \cup HeldNames(built["functions"]))
BY DEF ProgramIInv, MemoryHolds

\* Code is pushed: the array of the builder has room, or doubles.
LEMMA PushBytecodeKeeps ==
  ASSUME ProgramIInv, NEW n \in 1 .. 2, PushBytecode(n)
  PROVE  ProgramIInv'
<1> DEFINE b == builder
           length == Len(b.code) + n
           capacity == IF length > 2 * b.codeCapacity THEN length ELSE 2 * b.codeCapacity
           code == <<"code", capacity>>
           longer == b.code \o [i \in 1 .. n |-> Len(b.code) + i]
           D == Data(host.inner, tables, built)
           H == HeldNames(built["functions"])
<1>1. /\ BuilderHolds(b) /\ ArenaHolds(memory, D, Own(b) \cup H) /\ host.deinit = "no"
      /\ NamesHold(b, built["functions"]) /\ UNCHANGED <<tables, built, host>>
  BY AliveFacts DEF PushBytecode
<1>2. b \in Builders /\ b.code \in Seq(Nat) /\ Len(b.code) \in Nat /\ b.codeCapacity \in Nat
  BY <1>1, LenProperties DEF BuilderHolds, Builders
<1>3. longer \in Seq(Nat)
  <2>1. [i \in 1 .. n |-> Len(b.code) + i] \in Seq(Nat)
    <3>1. \A i \in 1 .. n : Len(b.code) + i \in Nat
      BY <1>2
    <3>2. n \in Nat
      OBVIOUS
    <3> HIDE DEF b
    <3>. QED  BY <3>1, <3>2, IsASeq
  <2>. QED  BY <1>2, <2>1, ConcatProperties
<1> HIDE DEF longer
<1>4. CASE b.codeCapacity >= length
  <2>1. memory' = memory /\ builder' = [b EXCEPT !.code = longer]
    BY <1>4 DEF PushBytecode, longer
  <2>2. /\ builder' \in Builders /\ builder'.codeAt = b.codeAt /\ builder'.argsAt = b.argsAt
        /\ builder'.codeCapacity = b.codeCapacity /\ builder'.argsCapacity = b.argsCapacity
        /\ builder'.nameAt = b.nameAt
    BY <1>2, <1>3, <2>1 DEF Builders
  <2>3. BuilderHolds(builder') /\ Own(builder') = Own(b)
    BY <1>1, <2>2 DEF BuilderHolds, Own
  <2>. QED  BY <1>1, <2>1, <2>2, <2>3, BuilderStep DEF MemoryHolds
<1>5. CASE ~(b.codeCapacity >= length)
  <2>1. memory' = Regrown(memory, code, b.codeAt)
        /\ builder' = [b EXCEPT !.code = longer, !.codeAt = code, !.codeCapacity = capacity]
    BY <1>5 DEF PushBytecode, longer
  <2>2. capacity \in Nat /\ capacity > b.codeCapacity /\ capacity # 0
    BY <1>2, <1>5, SMTT(30)
  <2> HIDE DEF capacity
  <2>3. code \in BuilderBlocks /\ code # NoBlock /\ code # b.codeAt /\ code # b.argsAt
        /\ code # b.nameAt /\ code \notin H
    <3>1. code \in BuilderBlocks /\ code # NoBlock
      BY <2>2 DEF BuilderBlocks, NoBlock
    <3>2. b.codeAt = NoBlock \/ b.codeAt = <<"code", b.codeCapacity>>
      BY <1>1 DEF BuilderHolds
    <3>3. b.argsAt = NoBlock \/ b.argsAt = <<"args", b.argsCapacity>>
      BY <1>1 DEF BuilderHolds
    <3>4. <<"code", b.codeCapacity>> # code /\ <<"args", b.argsCapacity>> # code
      BY <1>2, <2>2
    <3>5. b.nameAt = NoBlock \/ \E o \in Names : b.nameAt = <<"name", o>>
      BY <1>1 DEF BuilderHolds
    <3>6. H \subseteq {"name"} \X Names
      BY <1>1, HeldNameBlocks
    <3>7. \A o : <<"name", o>> # code
      OBVIOUS
    <3> HIDE DEF code, H, b
    <3>8. code \notin H
      BY <3>6, <3>7
    <3>. QED  BY <3>1, <3>2, <3>3, <3>4, <3>5, <3>7, <3>8
  <2>4. code \in Blocks
    BY <2>3, BlocksDiffer
  <2> HIDE DEF code
  <2>5. /\ builder' \in Builders /\ builder'.codeAt = code /\ builder'.argsAt = b.argsAt
        /\ builder'.codeCapacity = capacity /\ builder'.argsCapacity = b.argsCapacity
        /\ builder'.nameAt = b.nameAt
    BY <1>2, <1>3, <2>1, <2>2, <2>4 DEF Builders
  <2>6. BuilderHolds(builder')
    BY <1>1, <2>2, <2>5 DEF BuilderHolds, code
  <2>7. Own(builder') \cup H = (Own(b) \cup H \cup {code}) \ ({b.codeAt} \ {NoBlock})
    <3>1. /\ b.codeAt = b.argsAt => b.codeAt = NoBlock
          /\ b.codeAt = b.nameAt => b.codeAt = NoBlock
          /\ b.argsAt = b.nameAt => b.argsAt = NoBlock
      BY <1>1, OwnBlocks
    <3>2. Own(b) \cap H = {} /\ NoBlock \notin H
      BY <1>1, HeldNameBlocks
    <3> HIDE DEF b, H
    <3>3. b.codeAt \notin H
      BY <3>2 DEF Own
    <3>. QED  BY <2>3, <2>5, <3>1, <3>3 DEF Own
  <2>8. b.codeAt = NoBlock \/ b.codeAt \in Own(b) \cup H
    BY DEF Own
  <2>9. ArenaHolds(memory', D, Own(builder') \cup H)
    <3> HIDE DEF D, b, H
    <3>. QED  BY <1>1, <2>1, <2>3, <2>7, <2>8, RegrownHolds
  <2>. QED  BY <1>1, <2>5, <2>6, <2>9, BuilderStep DEF MemoryHolds
<1>. QED  BY <1>4, <1>5

\* An argument is added: the array of types has room, or doubles.
LEMMA AddArgKeeps ==
  ASSUME ProgramIInv, AddArg
  PROVE  ProgramIInv'
<1> DEFINE b == builder
           capacity == 2 * (b.argsCapacity + 1)
           types == <<"args", capacity>>
           args == b.args + 1
           D == Data(host.inner, tables, built)
           H == HeldNames(built["functions"])
<1>1. /\ BuilderHolds(b) /\ ArenaHolds(memory, D, Own(b) \cup H) /\ host.deinit = "no"
      /\ NamesHold(b, built["functions"]) /\ UNCHANGED <<tables, built, host>>
  BY AliveFacts DEF AddArg
<1>2. b \in Builders /\ b.argsCapacity \in Nat /\ args \in Nat
  BY <1>1 DEF BuilderHolds, Builders
<1>3. CASE b.args # b.argsCapacity
  <2>1. memory' = memory /\ builder' = [b EXCEPT !.args = args]
    BY <1>3 DEF AddArg
  <2> HIDE DEF args
  <2>2. /\ builder' \in Builders /\ builder'.codeAt = b.codeAt /\ builder'.argsAt = b.argsAt
        /\ builder'.codeCapacity = b.codeCapacity /\ builder'.argsCapacity = b.argsCapacity
        /\ builder'.nameAt = b.nameAt
    BY <1>2, <2>1 DEF Builders
  <2>3. BuilderHolds(builder') /\ Own(builder') = Own(b)
    BY <1>1, <2>2 DEF BuilderHolds, Own
  <2>. QED  BY <1>1, <2>1, <2>2, <2>3, BuilderStep DEF MemoryHolds
<1>4. CASE b.args = b.argsCapacity
  <2>1. memory' = Regrown(memory, types, b.argsAt)
        /\ builder' = [b EXCEPT !.args = args, !.argsAt = types, !.argsCapacity = capacity]
    BY <1>4 DEF AddArg
  <2>2. capacity \in Nat /\ capacity > b.argsCapacity /\ capacity # 0
    BY <1>2
  <2> HIDE DEF capacity, args
  <2>3. types \in BuilderBlocks /\ types # NoBlock /\ types # b.codeAt /\ types # b.argsAt
        /\ types # b.nameAt /\ types \notin H
    <3>1. types \in BuilderBlocks /\ types # NoBlock
      BY <2>2 DEF BuilderBlocks, NoBlock
    <3>2. b.codeAt = NoBlock \/ b.codeAt = <<"code", b.codeCapacity>>
      BY <1>1 DEF BuilderHolds
    <3>3. b.argsAt = NoBlock \/ b.argsAt = <<"args", b.argsCapacity>>
      BY <1>1 DEF BuilderHolds
    <3>4. <<"code", b.codeCapacity>> # types /\ <<"args", b.argsCapacity>> # types
      BY <1>2, <2>2
    <3>5. b.nameAt = NoBlock \/ \E o \in Names : b.nameAt = <<"name", o>>
      BY <1>1 DEF BuilderHolds
    <3>6. H \subseteq {"name"} \X Names
      BY <1>1, HeldNameBlocks
    <3>7. \A o : <<"name", o>> # types
      OBVIOUS
    <3> HIDE DEF types, H, b
    <3>8. types \notin H
      BY <3>6, <3>7
    <3>. QED  BY <3>1, <3>2, <3>3, <3>4, <3>5, <3>7, <3>8
  <2>4. types \in Blocks
    BY <2>3, BlocksDiffer
  <2> HIDE DEF types
  <2>5. /\ builder' \in Builders /\ builder'.codeAt = b.codeAt /\ builder'.argsAt = types
        /\ builder'.codeCapacity = b.codeCapacity /\ builder'.argsCapacity = capacity
        /\ builder'.nameAt = b.nameAt
    BY <1>2, <2>1, <2>2, <2>4 DEF Builders
  <2>6. BuilderHolds(builder')
    BY <1>1, <2>2, <2>5 DEF BuilderHolds, types
  <2>7. Own(builder') \cup H = (Own(b) \cup H \cup {types}) \ ({b.argsAt} \ {NoBlock})
    <3>1. /\ b.codeAt = b.argsAt => b.codeAt = NoBlock
          /\ b.codeAt = b.nameAt => b.codeAt = NoBlock
          /\ b.argsAt = b.nameAt => b.argsAt = NoBlock
      BY <1>1, OwnBlocks
    <3>2. Own(b) \cap H = {} /\ NoBlock \notin H
      BY <1>1, HeldNameBlocks
    <3> HIDE DEF b, H
    <3>3. b.argsAt \notin H
      BY <3>2 DEF Own
    <3>. QED  BY <2>3, <2>5, <3>1, <3>3 DEF Own
  <2>8. b.argsAt = NoBlock \/ b.argsAt \in Own(b) \cup H
    BY DEF Own
  <2>9. ArenaHolds(memory', D, Own(builder') \cup H)
    <3> HIDE DEF D, b, H
    <3>. QED  BY <1>1, <2>1, <2>3, <2>7, <2>8, RegrownHolds
  <2>. QED  BY <1>1, <2>5, <2>6, <2>9, BuilderStep DEF MemoryHolds
<1>. QED  BY <1>3, <1>4

\* A builder that was built or given up has nothing.
LEMMA NoBuilderHolds ==
  BuilderHolds(NoBuilder) /\ Own(NoBuilder) = {}
<1>1. NoBuilder \in Builders
  <2>1. << >> \in Seq(Nat)
    OBVIOUS
  <2>. QED  BY <2>1, BlocksDiffer DEF NoBuilder, Builders
<1>. QED  BY <1>1 DEF BuilderHolds, Own, NoBuilder

\* The builder has a name.
LEMMA NameFunctionKeeps ==
  ASSUME ProgramIInv, NEW name \in LongNames, NameFunction(name)
  PROVE  ProgramIInv'
<1> DEFINE D == Data(host.inner, tables, built)
           f == built["functions"]
           H == HeldNames(f)
           block == <<"name", name>>
<1>1. /\ BuilderHolds(builder) /\ NamesHold(builder, f) /\ host.deinit = "no"
      /\ ArenaHolds(memory, D, Own(builder) \cup H) /\ TablesHold(host.inner, tables, built)
      /\ builder.nameAt = NoBlock /\ memory' = Malloc(memory, block)
      /\ builder' = [builder EXCEPT !.nameAt = block] /\ UNCHANGED <<tables, built, host>>
  BY AliveFacts, NameBlocks DEF NameFunction
<1>2. name \notin DOMAIN f
  <2>. SUFFICES ASSUME name \in DOMAIN f
                PROVE  FALSE
    OBVIOUS
  <2>1. Tabled(tables["functions"], f) /\ f[name].at \in ArenaBlocks
    BY <1>1 DEF TablesHold, TableHolds, ObjectsApart, Fields
  <2>2. FoundIn(tables["functions"], name) = f[name]
    BY <2>1, LongNamesAssumption, FoundInSound DEF AllNames
  <2>3. FoundIn(tables["functions"], name) = NoObject
    BY DEF NameFunction, FindFunction, Null, FoundObject, Answer
  <2>4. NoObject.at = NoBlock
    BY DEF NoObject, Object
  <2>. QED  BY <2>1, <2>2, <2>3, <2>4, BlocksDiffer
<1>3. block \in BuilderBlocks /\ block \in Blocks /\ block # NoBlock
  BY LongNamesAssumption DEF BuilderBlocks, Blocks, NoBlock
<1>4. /\ builder' \in Builders /\ builder'.nameAt = block
      /\ builder'.codeAt = builder.codeAt /\ builder'.argsAt = builder.argsAt
      /\ builder'.codeCapacity = builder.codeCapacity
      /\ builder'.argsCapacity = builder.argsCapacity
  <2> HIDE DEF block
  <2>. QED  BY <1>1, <1>3 DEF BuilderHolds, Builders
<1>5. BuilderHolds(builder')
  BY <1>1, <1>4, LongNamesAssumption DEF BuilderHolds
<1>6. NamesHold(builder', f)
  BY <1>1, <1>2, <1>4 DEF NamesHold
<1>7. Own(builder') \cup H = (Own(builder) \cup H) \cup {block}
  <2> HIDE DEF block, H
  <2>. QED  BY <1>1, <1>3, <1>4 DEF Own
<1>8. ArenaHolds(memory', D, Own(builder') \cup H)
  <2> HIDE DEF D, H, block
  <2>. QED  BY <1>1, <1>3, <1>7, BuilderMallocHolds
<1>. QED  BY <1>1, <1>5, <1>6, <1>8 DEF ProgramIInv, MemoryHolds

\* The builder is given up, before or after the end of the program.
LEMMA BuilderDeinitKeeps ==
  ASSUME ProgramIInv, BuilderDeinit
  PROVE  ProgramIInv'
<1> DEFINE D == Data(host.inner, tables, built)
           H == HeldNames(built["functions"])
           done == host.deinit = "done"
<1>1. /\ BuilderHolds(builder) /\ memory' = BuilderFreed(memory) /\ builder' = NoBuilder
      /\ UNCHANGED <<tables, built, host>> /\ NamesHold(builder, built["functions"])
      /\ MemoryHolds(memory, D, Own(builder) \cup H, done)
  BY DEF BuilderDeinit, ProgramIInv
<1>2. BuilderHolds(builder') /\ Own(builder') = {} /\ builder'.nameAt = NoBlock
  BY <1>1, NoBuilderHolds DEF NoBuilder
<1>3. MemoryHolds(memory', D, H, done)
  <2>1. Own(builder) \cap H = {} /\ NoBlock \notin H
    BY <1>1, HeldNameBlocks
  <2>2. done \in BOOLEAN
    OBVIOUS
  <2> HIDE DEF D, H, done
  <2>. QED  BY <1>1, <2>1, <2>2, BuilderFreedHolds
<1>4. Own(builder') \cup H = H
  BY <1>2
<1>. QED  BY <1>1, <1>2, <1>3, <1>4, BuilderStep

\* What is put into a table has a name that the table does not find.
LEMMA PutKeeps ==
  ASSUME ProgramIInv, NEW x \in Fields, NEW name \in AllNames, NEW object \in Objects,
         NEW New, New = {object.at, object.argsAt} \ {NoBlock},
         object.at \in ArenaBlocks, object.argsAt \in ArenaBlocks \cup {NoBlock},
         object.at # object.argsAt, New \cap Data(host.inner, tables, built) = {},
         NEW m, NEW B, ArenaHolds(m, Data(host.inner, tables, built) \cup New, B),
         Put(m, x, name, object)
  PROVE  /\ ArenaHolds(memory', Data(host.inner, tables', built'), B)
         /\ TablesHold(host.inner, tables', built')
         /\ name \notin DOMAIN built[x]
         /\ built' = [built EXCEPT ![x] = With(built[x], name, object)]
         /\ built = [y \in Fields |-> built[y]]
<1> DEFINE f == built[x]
           s == TableInserted(m, tables[x], name, object)
<1>1. TablesHold(host.inner, tables, built)
  BY AliveFacts
<1>2. /\ FoundIn(tables[x], name) = NoObject /\ memory' = s.memory
      /\ tables' = [tables EXCEPT ![x] = s.table]
      /\ built' = [built EXCEPT ![x] = With(f, name, object)]
  BY DEF Put, With
<1>3. name \notin DOMAIN f
  <2>. SUFFICES ASSUME name \in DOMAIN f
                PROVE  FALSE
    OBVIOUS
  <2>1. Tabled(tables[x], f) /\ ObjectsApart(f, {host.inner} \cup Held(built[Other(x)]))
    BY <1>1 DEF TablesHold, TableHolds
  <2>2. f[name] = NoObject
    BY <1>2, <2>1, FoundInSound
  <2>3. f[name].at \in ArenaBlocks
    BY <2>1 DEF ObjectsApart
  <2>4. NoObject.at = NoBlock
    BY DEF NoObject, Object
  <2>. QED  BY <2>2, <2>3, <2>4, BlocksDiffer
<1> HIDE DEF s, f
<1>4. /\ ArenaHolds(s.memory, Data(host.inner, [tables EXCEPT ![x] = s.table],
                                   [built EXCEPT ![x] = With(f, name, object)]), B)
      /\ TablesHold(host.inner, [tables EXCEPT ![x] = s.table],
                    [built EXCEPT ![x] = With(f, name, object)])
  BY <1>1, <1>3, PutSound DEF s, f
<1>. QED  BY <1>1, <1>2, <1>3, <1>4 DEF f, TablesHold

\* A function is built.
LEMMA BuildKeeps ==
  ASSUME ProgramIInv, NEW name \in Names, Build(name)
  PROVE  ProgramIInv'
<1> DEFINE withArgs == IF builder.args > 0 THEN ArenaMalloc(memory) ELSE memory
           withHeader == ArenaMalloc(withArgs)
           argsAt == IF builder.args > 0 THEN LastBlock(withArgs) ELSE NoBlock
           at == LastBlock(withHeader)
           m == ArraysFreed(withHeader)
           nameAt == builder.nameAt
           object == Object(at, argsAt, nameAt, builder.args, builder.code)
           New == {at, argsAt} \ {NoBlock}
           D == Data(host.inner, tables, built)
           f == built["functions"]
           B == Own(builder) \cup HeldNames(f)
           N == B \ {builder.codeAt, builder.argsAt}
<1>1. /\ host.deinit = "no" /\ Put(m, "functions", name, object)
      /\ builder' = NoBuilder /\ host' = host /\ nameAt = NameBlock(name)
  BY DEF Build
<1>2. /\ HostHolds(host) /\ BuilderHolds(builder) /\ ArenaHolds(memory, D, B)
      /\ TablesHold(host.inner, tables, built) /\ NamesHold(builder, f)
  BY <1>1, AliveFacts
<1>3. /\ D \subseteq ArenaBlocks /\ NoBlock \notin D /\ NoBlock \notin ArenaBlocks
  BY <1>2, DataBlocks, BlocksDiffer
<1> HIDE DEF D
<1> HIDE DEF B
<1>4. /\ ArenaHolds(withArgs, D \cup ({argsAt} \ {NoBlock}), B)
      /\ argsAt \in ArenaBlocks \cup {NoBlock} /\ argsAt \notin D
  <2>1. CASE builder.args > 0
    <3> DEFINE q == ArenaMalloc(memory)
    <3>1. /\ ArenaHolds(q, D \cup {LastBlock(q)}, B)
          /\ LastBlock(q) \notin D /\ LastBlock(q) \in ArenaBlocks
      BY <1>2, ArenaMallocHolds
    <3>2. withArgs = q /\ argsAt = LastBlock(q)
      BY <2>1
    <3> HIDE DEF q, withArgs, argsAt
    <3>3. {argsAt} \ {NoBlock} = {LastBlock(q)}
      BY <1>3, <3>1, <3>2
    <3>. QED  BY <3>1, <3>2, <3>3
  <2>2. CASE ~(builder.args > 0)
    <3>1. withArgs = memory /\ argsAt = NoBlock
      BY <2>2
    <3> HIDE DEF withArgs, argsAt
    <3>2. D \cup ({argsAt} \ {NoBlock}) = D
      BY <3>1
    <3>. QED  BY <1>2, <1>3, <3>1, <3>2
  <2>. QED  BY <2>1, <2>2
<1> HIDE DEF withArgs, argsAt
<1>5. /\ ArenaHolds(withHeader, (D \cup ({argsAt} \ {NoBlock})) \cup {at}, B)
      /\ at \notin D \cup ({argsAt} \ {NoBlock}) /\ at \in ArenaBlocks
  BY <1>4, ArenaMallocHolds
<1> HIDE DEF withHeader, at
<1>6. /\ (D \cup ({argsAt} \ {NoBlock})) \cup {at} = D \cup New /\ at # argsAt
      /\ New \cap D = {}
  BY <1>3, <1>4, <1>5
<1>7. ArenaHolds(m, D \cup New, N)
  <2>1. {builder.codeAt, builder.argsAt} \ {NoBlock} \subseteq B /\ NoBlock \notin B
    BY <1>2, OwnBlocks, HeldNameBlocks DEF B, Own
  <2>2. MemoryHolds(withHeader, D \cup New, B, FALSE)
    BY <1>5, <1>6 DEF MemoryHolds
  <2> HIDE DEF New
  <2>3. MemoryHolds(m, D \cup New, N, FALSE)
    BY <1>2, <2>1, <2>2, ArraysFreedHolds
  <2>. QED  BY <2>3 DEF MemoryHolds
<1>8. object \in Objects /\ object.at = at /\ object.argsAt = argsAt /\ object.nameAt = nameAt
  <2>1. builder.args \in Nat /\ builder.code \in Seq(Nat) /\ nameAt \in Blocks
    BY <1>2 DEF BuilderHolds, Builders
  <2>2. at \in Blocks /\ argsAt \in Blocks
    BY <1>4, <1>5, BlocksDiffer
  <2>. QED  BY <2>1, <2>2 DEF Object, Objects
<1> HIDE DEF object, m, N
<1>9. /\ ArenaHolds(memory', Data(host.inner, tables', built'), N)
      /\ TablesHold(host.inner, tables', built') /\ name \notin DOMAIN f
      /\ built' = [built EXCEPT !["functions"] = With(f, name, object)]
      /\ built = [y \in Fields |-> built[y]]
  <2>1. "functions" \in Fields /\ name \in AllNames
    BY DEF Fields, AllNames
  <2>2. New = {object.at, object.argsAt} \ {NoBlock}
    BY <1>8
  <2> HIDE DEF New
  <2>. QED  BY <1>1, <1>4, <1>5, <1>6, <1>7, <1>8, <2>1, <2>2, PutKeeps DEF D
<1>10. BuilderHolds(builder') /\ Own(builder') = {} /\ builder'.nameAt = NoBlock
  BY <1>1, NoBuilderHolds DEF NoBuilder
<1> DEFINE g == With(f, name, object)
<1>11. built'["functions"] = g
  BY <1>9 DEF Fields
<1>12. DOMAIN g = DOMAIN f \cup {name} /\ g[name] = object /\ \A n \in DOMAIN f : g[n] = f[n]
  <2>1. name \notin DOMAIN f
    BY <1>9
  <2> HIDE DEF f
  <2>. QED  BY <2>1 DEF With
<1> HIDE DEF g, f
<1>13. N = HeldNames(g)
  <2>1. HeldNames(g) = HeldNames(f) \cup ({nameAt} \ {NoBlock})
    BY <1>8, <1>12 DEF HeldNames
  <2>2. /\ builder.codeAt = nameAt => nameAt = NoBlock
        /\ builder.argsAt = nameAt => nameAt = NoBlock
    BY <1>2, OwnBlocks
  <2>3. /\ Own(builder) \cap HeldNames(f) = {} /\ NoBlock \notin HeldNames(f)
        /\ NoBlock \notin Own(builder)
    BY <1>2, HeldNameBlocks, OwnBlocks
  <2>4. builder.codeAt \notin HeldNames(f) /\ builder.argsAt \notin HeldNames(f)
    BY <2>3 DEF Own
  <2>. QED  BY <2>1, <2>2, <2>3, <2>4 DEF N, B, Own
<1>14. NamesHold(builder', g)
  <2>1. \A n \in DOMAIN g : g[n].nameAt = NameBlock(n)
    BY <1>1, <1>2, <1>8, <1>12 DEF NamesHold
  <2>. QED  BY <1>10, <2>1 DEF NamesHold, NoBlock
<1>15. Own(builder') \cup HeldNames(g) = N
  BY <1>10, <1>13
<1>. QED  BY <1>1, <1>2, <1>9, <1>10, <1>11, <1>14, <1>15 DEF ProgramIInv, MemoryHolds

\* A type is inserted with its context.
LEMMA ContextInsertKeeps ==
  ASSUME ProgramIInv, NEW name \in TypeNames, ContextInsert(name)
  PROVE  ProgramIInv'
<1> DEFINE m == ArenaMalloc(memory)
           at == LastBlock(m)
           object == Object(at, NoBlock, NoBlock, 0, << >>)
           D == Data(host.inner, tables, built)
           B == Own(builder) \cup HeldNames(built["functions"])
<1>1. /\ host.deinit = "no" /\ Put(m, "types", name, object)
      /\ builder' = builder /\ host' = host
  BY DEF ContextInsert
<1>2. /\ HostHolds(host) /\ BuilderHolds(builder) /\ ArenaHolds(memory, D, B)
      /\ TablesHold(host.inner, tables, built) /\ NamesHold(builder, built["functions"])
  BY <1>1, AliveFacts
<1>3. NoBlock \notin ArenaBlocks /\ NoBlock \in Blocks
  BY BlocksDiffer
<1> HIDE DEF D, B
<1>4. /\ ArenaHolds(m, D \cup {at}, B) /\ at \notin D /\ at \in ArenaBlocks
  BY <1>2, ArenaMallocHolds
<1> HIDE DEF m, at
<1>5. object \in Objects /\ object.at = at /\ object.argsAt = NoBlock
  <2>1. at \in Blocks /\ << >> \in Seq(Nat)
    BY <1>4, BlocksDiffer
  <2>. QED  BY <1>3, <2>1 DEF Object, Objects
<1> HIDE DEF object
<1>6. {at} = {object.at, object.argsAt} \ {NoBlock} /\ {at} \cap D = {} /\ at # NoBlock
  BY <1>3, <1>4, <1>5
<1>7. /\ ArenaHolds(memory', Data(host.inner, tables', built'), B)
      /\ TablesHold(host.inner, tables', built')
      /\ built' = [built EXCEPT !["types"] = With(built["types"], name, object)]
      /\ built = [y \in Fields |-> built[y]]
  <2>1. "types" \in Fields /\ name \in AllNames
    BY DEF Fields, AllNames
  <2>. QED  BY <1>1, <1>4, <1>5, <1>6, <2>1, PutKeeps DEF D
<1>8. built'["functions"] = built["functions"]
  BY <1>7 DEF Fields
<1>. QED  BY <1>1, <1>2, <1>7, <1>8 DEF ProgramIInv, MemoryHolds, B

\* Callbacks, and the steps of deinit that take and release the mutex.
LEMMA HostStepKeeps ==
  ASSUME ProgramIInv, CallBack \/ CallBackEnds \/ DeinitContext \/ DeinitUnlock
  PROVE  ProgramIInv'
<1>1. UNCHANGED <<memory, tables, builder, built>>
  BY DEF CallBack, CallBackEnds, DeinitContext, DeinitUnlock
<1>2. HostHolds(host) /\ host \in Hosts
  BY DEF ProgramIInv, HostHolds
<1>3. HostHolds(host') /\ host'.inner = host.inner /\ (host'.deinit = "done" <=> host.deinit = "done")
  <2>1. CASE CallBack
    BY <1>2, <2>1 DEF CallBack, HostHolds, Hosts
  <2>2. CASE CallBackEnds
    BY <1>2, <2>2 DEF CallBackEnds, HostHolds, Hosts
  <2>3. CASE DeinitContext
    BY <1>2, <2>3 DEF DeinitContext, HostHolds, Hosts, MayLock
  <2>4. CASE DeinitUnlock
    BY <1>2, <2>4 DEF DeinitUnlock, HostHolds, Hosts
  <2>. QED  BY <2>1, <2>2, <2>3, <2>4
<1>. QED  BY <1>1, <1>3 DEF ProgramIInv

\* The end of the program leaves the blocks of the builder, and the names.
LEMMA DeinitMemoryKeeps ==
  ASSUME ProgramIInv, DeinitMemory
  PROVE  ProgramIInv'
<1> DEFINE D == Data(host.inner, tables, built)
           m == ArenaFree(memory, host.inner)
           B == Own(builder) \cup HeldNames(built["functions"])
<1>1. /\ host.deinit = "unlocked" /\ memory' = ArenaDeinit(m)
      /\ host' = [host EXCEPT !.deinit = "done"] /\ UNCHANGED <<tables, builder, built>>
  BY DEF DeinitMemory
<1>2. /\ HostHolds(host) /\ BuilderHolds(builder) /\ ArenaHolds(memory, D, B)
      /\ TablesHold(host.inner, tables, built) /\ NamesHold(builder, built["functions"])
  BY <1>1, AliveFacts
<1>3. host.inner \in D
  BY DEF Data, Objs
<1>4. HostHolds(host') /\ host'.inner = host.inner /\ host'.deinit = "done"
  BY <1>1, <1>2 DEF HostHolds, Hosts
<1> HIDE DEF D, B
<1>5. memory.list # NoBlock
  BY <1>2, <1>3, ListKept
<1>6. ArenaHolds(m, D \ {host.inner}, B) /\ m.list # NoBlock
  BY <1>2, <1>3, <1>5, ArenaFreeHolds
<1> HIDE DEF m
<1>7. MemoryShape(memory') /\ memory'.live = B /\ memory'.wrong = {}
  BY <1>1, <1>6, ArenaDeinitHolds
<1>. QED  BY <1>1, <1>2, <1>4, <1>7 DEF ProgramIInv, MemoryHolds, B

\* Every step keeps the invariant.
LEMMA ProgramIInvNext ==
  ASSUME ProgramIInv, [ProgramNext]_programVars
  PROVE  ProgramIInv'
<1>1. CASE UNCHANGED programVars
  BY <1>1 DEF programVars, ProgramIInv
<1>2. ASSUME NEW n \in 1 .. 2, PushBytecode(n)
      PROVE  ProgramIInv'
  BY <1>2, PushBytecodeKeeps
<1>3. CASE AddArg
  BY <1>3, AddArgKeeps
<1>4. CASE BuilderDeinit
  BY <1>4, BuilderDeinitKeeps
<1>5. ASSUME NEW name \in Names, Build(name)
      PROVE  ProgramIInv'
  BY <1>5, BuildKeeps
<1>6. ASSUME NEW name \in TypeNames, ContextInsert(name)
      PROVE  ProgramIInv'
  BY <1>6, ContextInsertKeeps
<1>7. CASE CallBack \/ CallBackEnds \/ DeinitContext \/ DeinitUnlock
  BY <1>7, HostStepKeeps
<1>8. CASE DeinitMemory
  BY <1>8, DeinitMemoryKeeps
<1>9. ASSUME NEW name \in LongNames, NameFunction(name)
      PROVE  ProgramIInv'
  BY <1>9, NameFunctionKeeps
<1>. QED  BY <1>1, <1>2, <1>3, <1>4, <1>5, <1>6, <1>7, <1>8, <1>9 DEF ProgramNext

\* The invariant of a program, its tables and its builder.
THEOREM ProgramInvariant == ProgramSpec => []ProgramIInv
BY ProgramIInvInit, ProgramIInvNext, PTL DEF ProgramSpec

\* Whatever functions and types a host puts into a program, and whenever callbacks come
\* and the program ends, every block has one owner, is pointed to from one place, and is
\* freed once at most; the end of the program frees all but the names of its functions.
THEOREM EveryBlockIsFreedOnce == ProgramSpec => []EveryBlockFreedOnce
BY ProgramInvariant, ProgramHolds, PTL

\* A table finds what was put into it under a name, and the functions' table nothing under
\* others, whatever the hashes of the names and however the groups grew and were dealt out.
THEOREM TablesAlwaysFind == ProgramSpec => []TablesFind
BY ProgramInvariant, ProgramFinds, PTL
=============================================================================
