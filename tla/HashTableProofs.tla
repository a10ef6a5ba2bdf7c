--------------------------- MODULE HashTableProofs ---------------------------
(***************************************************************************)
(* Lemmas about the functions of the hash map and of the hash set.         *)
(***************************************************************************)
EXTENDS HashTable, SequenceTheorems, FiniteSetTheorems, NatLemmas, TLAPS

\* The loops of HashTable go through a sequence: u lists the used slots among
\* the first i of slots, by the places p they have there.
UsedUpTo(slots, i) == {j \in 1 .. i : Used(slots[j])}

Lists(u, p, slots, places) ==
  /\ p \in [1 .. Len(u) -> places]
  /\ \A j \in 1 .. Len(u) : u[j] = slots[p[j]]
  /\ \A j, k \in 1 .. Len(u) : p[j] = p[k] => j = k
  /\ \A i \in places : \E j \in 1 .. Len(u) : p[j] = i
  /\ Len(u) = Cardinality(places)

\* UsedOf lists all used slots once.
LEMMA UsedOfLists ==
  ASSUME NEW S, NEW slots \in Seq(S)
  PROVE  /\ UsedOf(slots) \in Seq(S)
         /\ IsFiniteSet(UsedPlaces(slots))
         /\ \E p : Lists(UsedOf(slots), p, slots, UsedPlaces(slots))
<1> DEFINE k == Len(slots)
           Next(u, i) == IF Used(slots[i]) THEN Append(u, slots[i]) ELSE u
           Y == [i \in 0 .. k |-> {u \in Seq(S) : \E p : Lists(u, p, slots, UsedUpTo(slots, i))}]
           step == [x \in Seq(S) \X (1 .. k) |-> Next(x[1], x[2])]
           Solves(f) == f = [i \in 0 .. k |-> IF i = 0 THEN << >> ELSE Next(f[i - 1], i)]
<1>1. k \in Nat /\ slots \in [1 .. k -> S] /\ DOMAIN slots = 1 .. k
  BY LenProperties
<1>2. UsedUpTo(slots, 0) = {}
  BY DEF UsedUpTo
<1>3. << >> \in Y[0]
  <2> DEFINE p == [j \in {} |-> j]
  <2>1. Len(<< >>) = 0 /\ p \in [1 .. 0 -> {}]
    BY EmptySeq
  <2>2. Lists(<< >>, p, slots, UsedUpTo(slots, 0))
    BY <1>2, <2>1, FS_EmptySet DEF Lists
  <2>3. << >> \in Seq(S) /\ 0 \in 0 .. k
    BY <1>1, EmptySeq
  <2> HIDE DEF k, p
  <2>. QED  BY <2>2, <2>3
<1>4. ASSUME NEW i \in 1 .. k, NEW u \in Y[i - 1]
      PROVE  Next(u, i) \in Y[i] /\ u \in Seq(S)
  <2>. DEFINE old == UsedUpTo(slots, i - 1)
              new == UsedUpTo(slots, i)
  <2>1. i - 1 \in 0 .. k /\ i \in 0 .. k /\ i \in Nat /\ i - 1 \in Nat
    BY <1>1
  <2>2. u \in Seq(S) /\ \E p : Lists(u, p, slots, old)
    BY <2>1
  <2>3. PICK p : Lists(u, p, slots, old)
    BY <2>2
  <2>4. IsFiniteSet(old)
    <3>1. old \subseteq 1 .. i
      BY <2>1 DEF UsedUpTo
    <3>2. IsFiniteSet(1 .. i)
      BY <2>1, FS_Interval
    <3>. QED  BY <3>1, <3>2, FS_Subset
  <2>5. CASE Used(slots[i])
    <3> DEFINE v == Append(u, slots[i])
               q == [j \in 1 .. Len(v) |-> IF j = Len(v) THEN i ELSE p[j]]
    <3>1. new = old \cup {i} /\ i \notin old
      BY <2>1, <2>5 DEF UsedUpTo
    <3>2. slots[i] \in S
      BY <1>1
    <3>3. /\ v \in Seq(S) /\ Len(v) = Len(u) + 1 /\ Len(u) \in Nat
          /\ \A j \in 1 .. Len(u) : v[j] = u[j]
          /\ v[Len(v)] = slots[i]
      BY <2>2, <3>2, AppendProperties, LenProperties
    <3>4. Cardinality(new) = Cardinality(old) + 1
      BY <2>4, <3>1, FS_AddElement
    <3> HIDE DEF v, old, new, Y
    <3>5. \A j \in 1 .. Len(v) : j = Len(v) \/ j \in 1 .. Len(u)
      BY <3>3
    <3>6. \A j \in 1 .. Len(u) : j \in 1 .. Len(v) /\ j # Len(v) /\ q[j] = p[j] /\ p[j] \in old
      <4>1. \A j \in 1 .. Len(u) : j \in 1 .. Len(v) /\ j # Len(v)
        BY <3>3
      <4>2. \A j \in 1 .. Len(u) : q[j] = p[j]
        BY <4>1
      <4>3. \A j \in 1 .. Len(u) : p[j] \in old
        <5> HIDE DEF q
        <5>. QED  BY <2>3 DEF Lists
      <4>. QED  BY <4>1, <4>2, <4>3
    <3>7. q[Len(v)] = i /\ Len(v) \in 1 .. Len(v)
      BY <3>3
    <3>8. q \in [1 .. Len(v) -> new]
      BY <3>1, <3>5, <3>6
    <3> HIDE DEF q
    <3>9. \A j \in 1 .. Len(v) : v[j] = slots[q[j]]
      BY <3>3, <3>5, <3>6, <3>7, <2>3 DEF Lists
    <3>10. \A j, l \in 1 .. Len(v) : q[j] = q[l] => j = l
      BY <3>1, <3>5, <3>6, <3>7, <2>3 DEF Lists
    <3>11. \A m \in new : \E j \in 1 .. Len(v) : q[j] = m
      BY <3>1, <3>6, <3>7, <2>3 DEF Lists
    <3>12. Len(v) = Cardinality(new)
      BY <3>3, <3>4, <2>3 DEF Lists
    <3>13. Lists(v, q, slots, new)
      BY <3>8, <3>9, <3>10, <3>11, <3>12 DEF Lists
    <3>. QED  BY <2>1, <2>2, <2>5, <3>3, <3>13 DEF Y, v, new
  <2>6. CASE ~Used(slots[i])
    <3>1. new = old
      BY <2>1, <2>6 DEF UsedUpTo
    <3>. QED  BY <2>1, <2>2, <2>6, <3>1
  <2>. QED  BY <2>2, <2>5, <2>6
<1>5. \E f : Solves(f)
  <2>1. \A i \in 1 .. k : \A u \in Y[i - 1] : step[<<u, i>>] = Next(u, i)
    <3> HIDE DEF Y, Next
    <3>. QED  BY <1>4
  <2>2. \A i \in 1 .. k : \A u \in Y[i - 1] : step[<<u, i>>] \in Y[i]
    <3> HIDE DEF Y, Next, step
    <3>. QED  BY <1>4, <2>1
  <2>3. \A i \in 0 .. k : Y[i] \subseteq Seq(S)
    OBVIOUS
  <2>4. PICK f \in [0 .. k -> Seq(S)] :
          /\ f[0] = << >> /\ \A i \in 1 .. k : f[i] = step[<<f[i - 1], i>>]
          /\ \A i \in 0 .. k : f[i] \in Y[i]
    <3> HIDE DEF Y, step, k
    <3>1. StaysWithin(k, Seq(S), Y, << >>, step)
      BY <1>1, <1>3, <2>2, <2>3 DEF StaysWithin
    <3>. QED  BY <3>1, Recursion
  <2>5. \A i \in 0 .. k : f[i] = IF i = 0 THEN << >> ELSE Next(f[i - 1], i)
    <3> HIDE DEF Y, Next, step
    <3>1. \A i \in 0 .. k : i # 0 => i \in 1 .. k /\ i - 1 \in 0 .. k
      BY <1>1
    <3>. QED  BY <2>1, <2>4, <3>1
  <2>6. f = [i \in 0 .. k |-> f[i]]
    OBVIOUS
  <2>7. [i \in 0 .. k |-> f[i]] = [i \in 0 .. k |-> IF i = 0 THEN << >> ELSE Next(f[i - 1], i)]
    <3> HIDE DEF Next
    <3>. QED  BY <2>5
  <2>. QED  BY <2>6, <2>7
<1> DEFINE used == CHOOSE f : Solves(f)
<1>6. Solves(used)
  <2> HIDE DEF Solves
  <2>. QED  BY <1>5
<1>7. UsedOf(slots) = used[k]
  BY DEF UsedOf
<1> HIDE DEF used
<1>8. used[0] = << >> /\ \A i \in 1 .. k : used[i] = Next(used[i - 1], i)
  <2>1. \A i \in 0 .. k : used[i] = IF i = 0 THEN << >> ELSE Next(used[i - 1], i)
    <3> HIDE DEF Next
    <3>. QED  BY <1>6
  <2>2. 0 \in 0 .. k /\ \A i \in 1 .. k : i \in 0 .. k /\ i # 0
    BY <1>1
  <2> HIDE DEF Next
  <2>. QED  BY <2>1, <2>2
<1>9. \A i \in 0 .. k : used[i] \in Y[i]
  <2> HIDE DEF Y, Next, k
  <2>1. Inductive(k, Y, used)
    BY <1>1, <1>3, <1>4, <1>8 DEF Inductive
  <2>. QED  BY <2>1, InductionUpTo
<1>10. used[k] \in Y[k] /\ k \in 0 .. k
  BY <1>1, <1>9
<1>11. UsedPlaces(slots) = UsedUpTo(slots, k)
  BY <1>1 DEF UsedPlaces, UsedUpTo
<1>12. IsFiniteSet(UsedPlaces(slots))
  <2>1. IsFiniteSet(1 .. k)
    BY <1>1, FS_Interval
  <2>2. UsedPlaces(slots) \subseteq 1 .. k
    BY <1>1 DEF UsedPlaces
  <2>. QED  BY <2>1, <2>2, FS_Subset
<1>. QED  BY <1>7, <1>10, <1>11, <1>12
-----------------------------------------------------------------------------
(***************************************************************************)
(* Groups.                                                                 *)
(***************************************************************************)

Slot == [mask : Nat, header : 0 .. MaxHeaders]

Group == [slots : Seq(Slot), pairCount : Nat]

\* A used slot of the group has the header h.
GroupHolds(group, h) == \E i \in UsedPlaces(group.slots) : group.slots[i].header = h

\* The used slots are the first ones.
Packed(group) == UsedPlaces(group.slots) = 1 .. group.pairCount

\* The next multiple of d above a is one.
LEMMA RoundedUp ==
  ASSUME NEW d \in Nat \ {0}, NEW a \in Nat
  PROVE  /\ (a + (d - (a % d))) % d = 0
         /\ a + (d - (a % d)) \in Nat /\ a + (d - (a % d)) > a
<1>1. a = d * (a \div d) + (a % d) /\ a \div d \in Nat /\ a % d \in 0 .. d - 1
  OBVIOUS
<1>2. a + (d - (a % d)) = d * ((a \div d) + 1) /\ (a \div d) + 1 \in Nat
  BY <1>1
<1>3. (d * ((a \div d) + 1)) % d = 0
  <2>1. \A q \in Nat : (d * q) % d = 0
    OBVIOUS
  <2>. QED  BY <1>2, <2>1
<1>4. d - (a % d) \in Nat /\ d - (a % d) > 0
  BY <1>1
<1> DEFINE r == d - (a % d)
<1>5. (a + r) % d = 0
  BY <1>2, <1>3
<1> HIDE DEF r
<1>6. a + r \in Nat /\ a + r > a
  BY <1>4 DEF r
<1>. QED  BY <1>5, <1>6 DEF r

\* The slots of a group, one by one.
LEMMA GroupSlots ==
  ASSUME NEW group \in Group
  PROVE  /\ group.slots \in Seq(Slot) /\ group.pairCount \in Nat
         /\ Len(group.slots) \in Nat /\ DOMAIN group.slots = 1 .. Len(group.slots)
         /\ \A i \in 1 .. Len(group.slots) : group.slots[i] \in Slot
         /\ UsedPlaces(group.slots) \subseteq 1 .. Len(group.slots)
         /\ IsFiniteSet(UsedPlaces(group.slots))
         /\ group = [slots |-> group.slots, pairCount |-> group.pairCount]
<1>1. group.slots \in Seq(Slot) /\ group.pairCount \in Nat
  BY DEF Group
<1>2. /\ Len(group.slots) \in Nat /\ DOMAIN group.slots = 1 .. Len(group.slots)
      /\ \A i \in 1 .. Len(group.slots) : group.slots[i] \in Slot
  BY <1>1, LenProperties, ElementOfSeq
<1>3. UsedPlaces(group.slots) \subseteq 1 .. Len(group.slots)
  BY <1>2 DEF UsedPlaces
<1>4. IsFiniteSet(UsedPlaces(group.slots))
  BY <1>1, UsedOfLists
<1>5. group = [slots |-> group.slots, pairCount |-> group.pairCount]
  BY DEF Group
<1>. QED  BY <1>1, <1>2, <1>3, <1>4, <1>5

\* A group that counts fewer used slots than it has slots has a free one.
LEMMA FreePlace ==
  ASSUME NEW group \in Group,
         group.pairCount = Cardinality(UsedPlaces(group.slots)),
         group.pairCount < Len(group.slots)
  PROVE  \E i \in 1 .. Len(group.slots) : ~Used(group.slots[i])
<1> DEFINE k == Len(group.slots)
<1>0. k \in Nat
  BY GroupSlots
<1>1. Cardinality(1 .. k) = k
  <2> HIDE DEF k
  <2>. QED  BY <1>0, FS_Interval
<1>2. UsedPlaces(group.slots) # 1 .. k
  BY <1>0, <1>1
<1>3. DOMAIN group.slots = 1 .. k
  BY GroupSlots
<1>. SUFFICES ASSUME \A i \in 1 .. k : Used(group.slots[i])
              PROVE  UsedPlaces(group.slots) = 1 .. k
  BY <1>2
<1>. QED  BY <1>3 DEF UsedPlaces

\* Making room in a group keeps its used slots and what is filed in it.
LEMMA EnsuredGroup ==
  ASSUME NEW group \in Group, NEW g, NEW c, NEW headers, GroupFiled(group, g, c, headers)
  PROVE  LET ensured == GroupEnsured(group, group.pairCount + 1)
         IN  /\ ensured \in Group /\ ensured.pairCount = group.pairCount
             /\ GroupFiled(ensured, g, c, headers)
             /\ ensured.pairCount < Len(ensured.slots)
             /\ \A h : GroupHolds(ensured, h) <=> GroupHolds(group, h)
             /\ Packed(group) => Packed(ensured)
<1> DEFINE n == group.pairCount + 1
           ensured == GroupEnsured(group, n)
<1>0. n \in Nat /\ group.pairCount \in Nat
  BY GroupSlots
<1>1. CASE n <= Len(group.slots)
  <2>1. ensured = group
    BY <1>1 DEF GroupEnsured
  <2>. QED  BY <1>0, <1>1, <2>1, GroupSlots
<1>2. CASE ~(n <= Len(group.slots))
  <2> DEFINE capacity == n + (GroupSize - (n % GroupSize))
             used == UsedOf(group.slots)
             k == Len(used)
             free == FreeSlots(capacity - k)
             slots == used \o free
  <2>1. /\ used \in Seq(Slot) /\ k \in Nat
        /\ \E p : Lists(used, p, group.slots, UsedPlaces(group.slots))
    BY GroupSlots, UsedOfLists, LenProperties
  <2>2. PICK p : Lists(used, p, group.slots, UsedPlaces(group.slots))
    BY <2>1
  <2>3. k = group.pairCount
    BY <2>2 DEF Lists, GroupFiled
  <2>4. capacity \in Nat /\ capacity > n /\ capacity % GroupSize = 0
    BY <1>0, RoundedUp, SizesAssumption
  <2> HIDE DEF capacity, used
  <2>5. capacity - k \in Nat
    BY <1>0, <2>3, <2>4
  <2>6. free \in Seq(Slot) /\ Len(free) = capacity - k
        /\ \A i \in 1 .. capacity - k : free[i] = FreeSlot
    <3>1. FreeSlot \in Slot
      BY SizesAssumption DEF FreeSlot, Slot, NULL
    <3>2. free \in [1 .. capacity - k -> Slot]
      BY <3>1 DEF FreeSlots
    <3>. QED  BY <2>5, <3>2 DEF FreeSlots
  <2> HIDE DEF free
  <2>7. /\ slots \in Seq(Slot) /\ Len(slots) = capacity
        /\ DOMAIN slots = 1 .. capacity
        /\ \A i \in 1 .. k : slots[i] = used[i]
        /\ \A i \in k + 1 .. capacity : slots[i] = FreeSlot
    <3>1. /\ slots \in Seq(Slot) /\ Len(slots) = k + (capacity - k)
          /\ \A i \in 1 .. k + (capacity - k) :
               slots[i] = IF i <= k THEN used[i] ELSE free[i - k]
      BY <2>1, <2>6, ConcatProperties
    <3>2. DOMAIN slots = 1 .. Len(slots)
      BY <3>1, LenProperties
    <3> HIDE DEF slots
    <3>3. k + (capacity - k) = capacity
      BY <2>1, <2>4
    <3>4. \A i \in 1 .. k : slots[i] = used[i]
      BY <2>1, <2>4, <2>5, <3>1, <3>3
    <3>5. \A i \in k + 1 .. capacity : slots[i] = FreeSlot
      <4>. SUFFICES ASSUME NEW i \in k + 1 .. capacity
                    PROVE  slots[i] = FreeSlot
        OBVIOUS
      <4>1. i - k \in 1 .. capacity - k /\ i \in 1 .. capacity /\ ~(i <= k)
        BY <2>1, <2>4
      <4>. QED  BY <2>6, <3>1, <3>3, <4>1
    <3>. QED  BY <3>1, <3>2, <3>3, <3>4, <3>5
  <2>8. ensured = [slots |-> slots, pairCount |-> group.pairCount]
    <3>1. ensured = [group EXCEPT !.slots = slots]
      BY <1>2 DEF GroupEnsured, capacity, used, free
    <3> HIDE DEF ensured, slots
    <3>. QED  BY <3>1, GroupSlots
  <2> HIDE DEF ensured, slots, n
  <2>9. \A i \in 1 .. k : /\ p[i] \in UsedPlaces(group.slots)
                          /\ slots[i] = group.slots[p[i]]
    BY <2>2, <2>7 DEF Lists
  <2>10. UsedPlaces(slots) = 1 .. k
    <3>1. \A i \in 1 .. k : Used(slots[i])
      BY <2>9 DEF UsedPlaces
    <3>2. ~Used(FreeSlot)
      BY DEF Used, FreeSlot
    <3>3. \A i \in 1 .. capacity : i \in 1 .. k \/ i \in k + 1 .. capacity
      BY <2>1, <2>4
    <3>4. \A i \in 1 .. k : i \in 1 .. capacity
      BY <2>1, <2>4, <2>5
    <3>. QED  BY <2>7, <3>1, <3>2, <3>3, <3>4 DEF UsedPlaces
  <2>11. Cardinality(UsedPlaces(slots)) = group.pairCount
    <3>1. Cardinality(1 .. k) = k
      BY <2>1, FS_Interval, SMTT(30)
    <3>. QED  BY <2>3, <2>10, <3>1
  <2>12. ASSUME NEW i \in UsedPlaces(slots)
         PROVE  LET h == slots[i].header
                IN  /\ h \in DOMAIN headers
                    /\ slots[i].mask = headers[h].hash.mask
                    /\ GroupIndex(headers[h].hash, c) = g
                    /\ \A j \in UsedPlaces(slots) : slots[j].header = h => i = j
    <3>1. i \in 1 .. k
      BY <2>10
    <3>2. p[i] \in UsedPlaces(group.slots) /\ slots[i] = group.slots[p[i]]
      BY <2>9, <3>1
    <3>3. ASSUME NEW j \in UsedPlaces(slots), slots[j].header = slots[i].header
          PROVE  i = j
      <4>1. j \in 1 .. k
        BY <2>10
      <4>2. p[j] \in UsedPlaces(group.slots) /\ slots[j] = group.slots[p[j]]
        BY <2>9, <4>1
      <4>3. p[i] = p[j]
        BY <3>2, <3>3, <4>2 DEF GroupFiled
      <4>. QED  BY <2>2, <3>1, <4>1, <4>3 DEF Lists
    <3>. QED  BY <3>2, <3>3 DEF GroupFiled
  <2>13. ensured \in Group /\ ensured.pairCount = group.pairCount /\ ensured.slots = slots
    BY <1>0, <2>7, <2>8 DEF Group
  <2>14. GroupFiled(ensured, g, c, headers)
    BY <2>4, <2>7, <2>11, <2>12, <2>13 DEF GroupFiled
  <2>15. ensured.pairCount < Len(ensured.slots)
    BY <1>0, <2>4, <2>7, <2>13 DEF n
  <2>16. ASSUME NEW h
         PROVE  GroupHolds(ensured, h) <=> GroupHolds(group, h)
    <3>1. ASSUME GroupHolds(ensured, h)
          PROVE  GroupHolds(group, h)
      BY <2>9, <2>10, <2>13, <3>1 DEF GroupHolds
    <3>2. ASSUME GroupHolds(group, h)
          PROVE  GroupHolds(ensured, h)
      <4>1. PICK i \in UsedPlaces(group.slots) : group.slots[i].header = h
        BY <3>2 DEF GroupHolds
      <4>2. PICK j \in 1 .. k : p[j] = i
        BY <2>2, <4>1 DEF Lists
      <4>. QED  BY <2>9, <2>10, <2>13, <4>1, <4>2 DEF GroupHolds
    <3>. QED  BY <3>1, <3>2
  <2>17. Packed(ensured)
    BY <2>3, <2>10, <2>13 DEF Packed
  <2>. QED  BY <2>13, <2>14, <2>15, <2>16, <2>17 DEF ensured, n
<1>. QED  BY <1>1, <1>2

\* The headers of one table have the hashes they have in the other, too.
SameHashes(headers, more) ==
  /\ DOMAIN headers \subseteq DOMAIN more
  /\ \A h \in DOMAIN headers : more[h].hash = headers[h].hash

\* What is filed stays so when there are more headers.
LEMMA FiledAmongMore ==
  ASSUME NEW group, NEW g, NEW c, NEW headers, NEW more,
         GroupFiled(group, g, c, headers), SameHashes(headers, more)
  PROVE  GroupFiled(group, g, c, more)
BY DEF GroupFiled, SameHashes

\* A header that is not in the group is filed in a free slot.
LEMMA FilledGroup ==
  ASSUME NEW group \in Group, NEW g, NEW c, NEW headers, NEW more,
         GroupFiled(group, g, c, headers), SameHashes(headers, more),
         NEW i \in 1 .. Len(group.slots), ~Used(group.slots[i]),
         NEW slot \in Slot, Used(slot),
         slot.header \in DOMAIN more \ DOMAIN headers,
         slot.mask = more[slot.header].hash.mask,
         GroupIndex(more[slot.header].hash, c) = g
  PROVE  LET filled == Filled(group, i, slot)
         IN  /\ filled \in Group /\ filled.pairCount = group.pairCount + 1
             /\ GroupFiled(filled, g, c, more)
             /\ \A h : GroupHolds(filled, h) <=> GroupHolds(group, h) \/ h = slot.header
             /\ Packed(group) /\ i = group.pairCount + 1 => Packed(filled)
<1> DEFINE filled == Filled(group, i, slot)
           slots == [group.slots EXCEPT ![i] = slot]
           old == UsedPlaces(group.slots)
           new == UsedPlaces(slots)
<1>1. /\ slots \in Seq(Slot) /\ Len(slots) = Len(group.slots)
      /\ \A j \in 1 .. Len(group.slots) : slots[j] = IF j = i THEN slot ELSE group.slots[j]
  BY GroupSlots, ExceptSeq
<1>2. DOMAIN slots = 1 .. Len(group.slots) /\ DOMAIN group.slots = 1 .. Len(group.slots)
  BY GroupSlots
<1>3. filled.slots = slots /\ filled.pairCount = group.pairCount + 1
  BY DEF Filled
<1> HIDE DEF slots
<1>4. new = old \cup {i} /\ i \notin old
  BY <1>1, <1>2 DEF UsedPlaces
<1>5. Cardinality(new) = Cardinality(old) + 1
  BY <1>4, GroupSlots, FS_AddElement
<1>6. \A j \in old : j \in 1 .. Len(group.slots) /\ j # i
  BY <1>4, GroupSlots
<1>7. \A j \in old : slots[j] = group.slots[j]
  BY <1>1, <1>6
<1>8. slots[i] = slot
  BY <1>1
<1>9. filled \in Group
  <2>1. group.pairCount + 1 \in Nat
    BY GroupSlots
  <2>. QED  BY <1>1, <2>1 DEF Group, Filled, slots
<1> HIDE DEF filled, old, new
<1>10. \A j \in old : group.slots[j].header \in DOMAIN headers
  BY DEF GroupFiled, old
<1>11. ASSUME NEW j \in new
       PROVE  LET h == slots[j].header
              IN  /\ h \in DOMAIN more
                  /\ slots[j].mask = more[h].hash.mask
                  /\ GroupIndex(more[h].hash, c) = g
                  /\ \A l \in new : slots[l].header = h => j = l
  <2>1. CASE j = i
    <3>1. \A l \in new : slots[l].header = slot.header => i = l
      BY <1>4, <1>7, <1>10
    <3>. QED  BY <1>8, <2>1, <3>1
  <2>2. CASE j \in old
    <3>1. /\ slots[j] = group.slots[j]
          /\ slots[j].header \in DOMAIN headers
      BY <1>7, <1>10, <2>2
    <3>2. \A l \in new : slots[l].header = slots[j].header => j = l
      <4>. SUFFICES ASSUME NEW l \in new, slots[l].header = slots[j].header
                    PROVE  j = l
        OBVIOUS
      <4>1. l # i
        BY <1>8, <3>1
      <4>2. l \in old /\ slots[l] = group.slots[l]
        BY <1>4, <1>7, <4>1
      <4>. QED  BY <2>2, <3>1, <4>2 DEF GroupFiled, old
    <3>. QED  BY <2>2, <3>1, <3>2 DEF GroupFiled, SameHashes, old
  <2>. QED  BY <1>4, <2>1, <2>2
<1>12. GroupFiled(filled, g, c, more)
  <2>1. filled.pairCount = Cardinality(new) /\ Len(filled.slots) % GroupSize = 0
    BY <1>1, <1>3, <1>5 DEF GroupFiled, old
  <2>. QED  BY <1>3, <1>11, <2>1 DEF GroupFiled, new
<1>13. ASSUME NEW h
       PROVE  GroupHolds(filled, h) <=> GroupHolds(group, h) \/ h = slot.header
  BY <1>3, <1>4, <1>7, <1>8 DEF GroupHolds, old, new
<1>14. ASSUME Packed(group), i = group.pairCount + 1
       PROVE  Packed(filled)
  <2>1. group.pairCount \in Nat
    BY GroupSlots
  <2>2. 1 .. group.pairCount + 1 = (1 .. group.pairCount) \cup {group.pairCount + 1}
    BY <2>1
  <2>. QED  BY <1>3, <1>4, <1>14, <2>2 DEF Packed, old, new
<1>. QED  BY <1>3, <1>9, <1>12, <1>13, <1>14 DEF filled

\* A header that leaves its slot leaves the group.
LEMMA FreedGroup ==
  ASSUME NEW group \in Group, NEW g, NEW c, NEW headers, NEW fewer,
         GroupFiled(group, g, c, headers), SameHashes(fewer, headers),
         NEW i \in UsedPlaces(group.slots),
         DOMAIN fewer = DOMAIN headers \ {group.slots[i].header}
  PROVE  LET freed == Freed(group, i)
         IN  /\ freed \in Group
             /\ GroupFiled(freed, g, c, fewer)
             /\ \A h : GroupHolds(freed, h) <=> GroupHolds(group, h) /\ h # group.slots[i].header
<1> DEFINE slots == [group.slots EXCEPT ![i] = FreeSlot]
           freed == [slots |-> slots, pairCount |-> group.pairCount - 1]
           old == UsedPlaces(group.slots)
           new == UsedPlaces(slots)
<1>0. FreeSlot \in Slot /\ ~Used(FreeSlot)
  BY SizesAssumption DEF FreeSlot, Slot, NULL, Used
<1>1. i \in 1 .. Len(group.slots)
  BY GroupSlots
<1>2. /\ slots \in Seq(Slot) /\ Len(slots) = Len(group.slots)
      /\ \A j \in 1 .. Len(group.slots) : slots[j] = IF j = i THEN FreeSlot ELSE group.slots[j]
  BY <1>0, <1>1, GroupSlots, ExceptSeq
<1>3. DOMAIN slots = 1 .. Len(group.slots) /\ DOMAIN group.slots = 1 .. Len(group.slots)
  BY GroupSlots
<1> HIDE DEF slots
<1>4. new = old \ {i} /\ i \in old
  BY <1>0, <1>1, <1>2, <1>3 DEF UsedPlaces
<1>5. Cardinality(new) = Cardinality(old) - 1 /\ Cardinality(new) \in Nat
  BY <1>4, GroupSlots, FS_RemoveElement, FS_CardinalityType
<1>6. \A j \in new : slots[j] = group.slots[j]
  BY <1>2, <1>4, GroupSlots
<1>7. group.pairCount - 1 = Cardinality(new)
  BY <1>5 DEF GroupFiled
<1>8. freed \in Group
  BY <1>2, <1>5, <1>7 DEF Group
<1> HIDE DEF old, new
<1>9. ASSUME NEW j \in new
      PROVE  LET h == slots[j].header
             IN  /\ h \in DOMAIN fewer
                 /\ slots[j].mask = fewer[h].hash.mask
                 /\ GroupIndex(fewer[h].hash, c) = g
                 /\ \A l \in new : slots[l].header = h => j = l
  <2>1. j \in old /\ j # i /\ slots[j] = group.slots[j]
    BY <1>4, <1>6
  <2>2. slots[j].header \in DOMAIN headers /\ slots[j].header # group.slots[i].header
    BY <1>4, <2>1 DEF GroupFiled, old
  <2>3. slots[j].header \in DOMAIN fewer
    BY <2>2
  <2>4. \A l \in new : slots[l].header = slots[j].header => j = l
    BY <1>4, <1>6, <2>1 DEF GroupFiled, old
  <2>5. /\ slots[j].mask = headers[slots[j].header].hash.mask
        /\ GroupIndex(headers[slots[j].header].hash, c) = g
    BY <2>1 DEF GroupFiled, old
  <2>. QED  BY <2>3, <2>4, <2>5 DEF SameHashes
<1>10. GroupFiled(freed, g, c, fewer)
  BY <1>2, <1>7, <1>9 DEF GroupFiled, new
<1>11. ASSUME NEW h
       PROVE  GroupHolds(freed, h) <=> GroupHolds(group, h) /\ h # group.slots[i].header
  <2>1. \A j \in old : group.slots[j].header = group.slots[i].header => j = i
    BY <1>4 DEF GroupFiled, old
  <2>. QED  BY <1>4, <1>6, <2>1 DEF GroupHolds, old, new
<1> HIDE DEF freed
<1>. QED  BY <1>8, <1>10, <1>11 DEF freed, slots, Freed
-----------------------------------------------------------------------------
(***************************************************************************)
(* All groups of a table.                                                  *)
(***************************************************************************)

\* What HeadersFiled says of the groups and the headers of a table.
GroupsFiled(groups, headers) ==
  /\ groups \in Seq(Group)
  /\ \A g \in 1 .. Len(groups) : GroupFiled(groups[g], g, Len(groups), headers)
  /\ \A h \in DOMAIN headers :
       /\ GroupIndex(headers[h].hash, Len(groups)) \in 1 .. Len(groups)
       /\ GroupHolds(groups[GroupIndex(headers[h].hash, Len(groups))], h)

\* The hashes of keys.
Hashes == [group : Nat, mask : Nat \ {0}]

\* Every hash has a group.
LEMMA GroupIndexInRange ==
  ASSUME NEW hash \in Hashes, NEW n \in Nat \ {0}
  PROVE  GroupIndex(hash, n) \in 1 .. n
<1>1. hash.group \in Nat
  BY DEF Hashes
<1>2. hash.group % n \in 0 .. n - 1
  BY <1>1
<1>. QED  BY <1>2 DEF GroupIndex

\* New groups hold nothing.
LEMMA NewGroupsFiled ==
  ASSUME NEW n \in Nat, NEW headers, DOMAIN headers = {}
  PROVE  /\ GroupsFiled(NewGroups(n), headers) /\ Len(NewGroups(n)) = n
         /\ \A g \in 1 .. n : Packed(NewGroups(n)[g])
<1>1. FreeSlot \in Slot /\ ~Used(FreeSlot)
  BY SizesAssumption DEF FreeSlot, Slot, NULL, Used
<1>2. /\ FreeSlots(GroupSize) \in Seq(Slot) /\ Len(FreeSlots(GroupSize)) = GroupSize
      /\ DOMAIN FreeSlots(GroupSize) = 1 .. GroupSize
      /\ \A i \in 1 .. GroupSize : FreeSlots(GroupSize)[i] = FreeSlot
  <2>1. FreeSlots(GroupSize) \in [1 .. GroupSize -> Slot] /\ GroupSize \in Nat
    BY <1>1, SizesAssumption DEF FreeSlots
  <2>. QED  BY <2>1 DEF FreeSlots
<1>3. UsedPlaces(NewGroup.slots) = {}
  BY <1>1, <1>2 DEF NewGroup, UsedPlaces
<1>4. NewGroup \in Group
  BY <1>2 DEF NewGroup, Group
<1>5. GroupSize % GroupSize = 0
  BY SizesAssumption
<1>6. \A g : GroupFiled(NewGroup, g, n, headers)
  BY <1>2, <1>3, <1>5, FS_EmptySet DEF GroupFiled, NewGroup
<1>7. Packed(NewGroup)
  BY <1>3 DEF Packed, NewGroup
<1> HIDE DEF NewGroup
<1>8. /\ NewGroups(n) \in Seq(Group) /\ Len(NewGroups(n)) = n
      /\ \A g \in 1 .. n : NewGroups(n)[g] = NewGroup
  <2>1. NewGroups(n) \in [1 .. n -> Group]
    BY <1>4 DEF NewGroups
  <2>. QED  BY <2>1 DEF NewGroups
<1>. QED  BY <1>6, <1>7, <1>8 DEF GroupsFiled

Replaced(groups, g, group) == [groups EXCEPT ![g] = group]

\* The group with the header h, of the headers that are the more by h, can take
\* the place of the group g without it.
Joins(group, g, h, groups, headers, more) ==
  /\ group \in Group /\ SameHashes(headers, more)
  /\ DOMAIN more = DOMAIN headers \cup {h}
  /\ g \in 1 .. Len(groups) /\ GroupIndex(more[h].hash, Len(groups)) = g
  /\ GroupFiled(group, g, Len(groups), more)
  /\ \A x : GroupHolds(group, x) <=> GroupHolds(groups[g], x) \/ x = h

\* A header that is filed in its group is filed in the table.
LEMMA FilledGroups ==
  ASSUME NEW groups, NEW headers, NEW more, NEW h, NEW g, NEW group,
         GroupsFiled(groups, headers), Joins(group, g, h, groups, headers, more)
  PROVE  /\ GroupsFiled(Replaced(groups, g, group), more)
         /\ Len(Replaced(groups, g, group)) = Len(groups)
<1> USE DEF Joins
<1> DEFINE new == Replaced(groups, g, group)
<1>1. groups \in Seq(Group)
  BY DEF GroupsFiled
<1>2. /\ new \in Seq(Group) /\ Len(new) = Len(groups)
      /\ \A x \in 1 .. Len(groups) : new[x] = IF x = g THEN group ELSE groups[x]
  BY <1>1, ExceptSeq DEF Replaced
<1> HIDE DEF new
<1>3. \A x \in 1 .. Len(new) : GroupFiled(new[x], x, Len(new), more)
  <2>. SUFFICES ASSUME NEW x \in 1 .. Len(groups)
                PROVE  GroupFiled(new[x], x, Len(groups), more)
    BY <1>2
  <2>1. GroupFiled(groups[x], x, Len(groups), more)
    BY FiledAmongMore DEF GroupsFiled
  <2>. QED  BY <1>2, <2>1
<1>4. ASSUME NEW x \in DOMAIN more
      PROVE  /\ GroupIndex(more[x].hash, Len(groups)) \in 1 .. Len(groups)
             /\ GroupHolds(new[GroupIndex(more[x].hash, Len(groups))], x)
  <2>1. CASE x = h
    BY <1>2, <2>1
  <2>2. CASE x \in DOMAIN headers
    <3>1. more[x].hash = headers[x].hash
      BY <2>2 DEF SameHashes
    <3>2. /\ GroupIndex(headers[x].hash, Len(groups)) \in 1 .. Len(groups)
          /\ GroupHolds(groups[GroupIndex(headers[x].hash, Len(groups))], x)
      BY <2>2 DEF GroupsFiled
    <3>. QED  BY <1>2, <3>1, <3>2
  <2>. QED  BY <2>1, <2>2
<1>5. GroupsFiled(new, more)
  BY <1>2, <1>3, <1>4 DEF GroupsFiled
<1>. QED  BY <1>2, <1>5 DEF new

\* What the loop over the groups has gathered after g of them.
Gathers(u, groups, headers, g) ==
  /\ \A j \in 1 .. Len(u) :
       /\ Used(u[j]) /\ u[j].header \in DOMAIN headers
       /\ u[j].mask = headers[u[j].header].hash.mask
       /\ GroupIndex(headers[u[j].header].hash, Len(groups)) \in 1 .. g
  /\ \A j, k \in 1 .. Len(u) : u[j].header = u[k].header => j = k
  /\ \A h \in DOMAIN headers :
       GroupIndex(headers[h].hash, Len(groups)) \in 1 .. g => \E j \in 1 .. Len(u) : u[j].header = h

\* The used slots of one group more are gathered.
LEMMA GathersMore ==
  ASSUME NEW groups, NEW headers, GroupsFiled(groups, headers),
         NEW g \in 1 .. Len(groups), NEW u \in Seq(Slot), Gathers(u, groups, headers, g - 1)
  PROVE  /\ u \o UsedOf(groups[g].slots) \in Seq(Slot)
         /\ Gathers(u \o UsedOf(groups[g].slots), groups, headers, g)
<1> DEFINE group == groups[g]
           w == UsedOf(group.slots)
           places == UsedPlaces(group.slots)
           v == u \o w
<1>1. group \in Group /\ GroupFiled(group, g, Len(groups), headers) /\ Len(groups) \in Nat
  <2>1. groups \in Seq(Group)
    BY DEF GroupsFiled
  <2>2. groups[g] \in Group /\ Len(groups) \in Nat
    BY <2>1, ElementOfSeq, LenProperties
  <2>. QED  BY <2>2 DEF GroupsFiled
<1> HIDE DEF group
<1>2. group.slots \in Seq(Slot)
  BY <1>1, GroupSlots
<1>3. w \in Seq(Slot) /\ \E p : Lists(w, p, group.slots, places)
  BY <1>2, UsedOfLists
<1>4. PICK p : Lists(w, p, group.slots, places)
  BY <1>3
<1> HIDE DEF w, places
<1>5. /\ v \in Seq(Slot) /\ Len(v) = Len(u) + Len(w)
      /\ \A j \in 1 .. Len(u) + Len(w) : v[j] = IF j <= Len(u) THEN u[j] ELSE w[j - Len(u)]
      /\ Len(u) \in Nat /\ Len(w) \in Nat
  BY <1>3, ConcatProperties, LenProperties
<1> HIDE DEF v
<1>6. ASSUME NEW j \in 1 .. Len(w)
      PROVE  /\ Used(w[j]) /\ w[j].header \in DOMAIN headers
             /\ w[j].mask = headers[w[j].header].hash.mask
             /\ GroupIndex(headers[w[j].header].hash, Len(groups)) = g
  <2>1. p[j] \in places /\ w[j] = group.slots[p[j]]
    BY <1>4 DEF Lists
  <2>. QED  BY <1>1, <2>1 DEF GroupFiled, places, UsedPlaces
<1>7. ASSUME NEW j \in 1 .. Len(w), NEW k \in 1 .. Len(w), w[j].header = w[k].header
      PROVE  j = k
  <2>1. /\ p[j] \in places /\ w[j] = group.slots[p[j]]
        /\ p[k] \in places /\ w[k] = group.slots[p[k]]
    BY <1>4 DEF Lists
  <2>2. p[j] = p[k]
    BY <1>1, <1>7, <2>1 DEF GroupFiled, places
  <2>. QED  BY <1>4, <2>2 DEF Lists
<1>8. ASSUME NEW h \in DOMAIN headers, GroupIndex(headers[h].hash, Len(groups)) = g
      PROVE  \E j \in 1 .. Len(w) : w[j].header = h
  <2>1. GroupHolds(group, h)
    BY <1>8 DEF GroupsFiled, group
  <2>2. PICK i \in places : group.slots[i].header = h
    BY <2>1 DEF GroupHolds, places
  <2>3. PICK j \in 1 .. Len(w) : p[j] = i
    BY <1>4 DEF Lists
  <2>. QED  BY <1>4, <2>2, <2>3 DEF Lists
<1>9. \A j \in 1 .. Len(v) : \/ j \in 1 .. Len(u) /\ v[j] = u[j]
                             \/ j - Len(u) \in 1 .. Len(w) /\ v[j] = w[j - Len(u)]
  BY <1>5
<1>10. /\ \A j \in 1 .. Len(u) : j \in 1 .. Len(v) /\ v[j] = u[j]
       /\ \A j \in 1 .. Len(w) : j + Len(u) \in 1 .. Len(v) /\ v[j + Len(u)] = w[j]
  <2>1. \A j \in 1 .. Len(u) : j \in 1 .. Len(v) /\ v[j] = u[j]
    BY <1>5
  <2>2. ASSUME NEW j \in 1 .. Len(w)
        PROVE  j + Len(u) \in 1 .. Len(v) /\ v[j + Len(u)] = w[j]
    <3>1. /\ j + Len(u) \in 1 .. Len(u) + Len(w) /\ ~(j + Len(u) <= Len(u))
          /\ (j + Len(u)) - Len(u) = j
      BY <1>5
    <3>2. v[j + Len(u)] = w[(j + Len(u)) - Len(u)]
      BY <1>5, <3>1
    <3>. QED  BY <1>5, <3>1, <3>2
  <2>. QED  BY <2>1, <2>2
<1>11. ASSUME NEW j \in 1 .. Len(v)
       PROVE  /\ Used(v[j]) /\ v[j].header \in DOMAIN headers
              /\ v[j].mask = headers[v[j].header].hash.mask
              /\ GroupIndex(headers[v[j].header].hash, Len(groups)) \in 1 .. g
  <2>1. CASE j \in 1 .. Len(u) /\ v[j] = u[j]
    <3>1. GroupIndex(headers[u[j].header].hash, Len(groups)) \in 1 .. g - 1
      BY <2>1 DEF Gathers
    <3>2. 1 .. g - 1 \subseteq 1 .. g
      BY <1>1
    <3>. QED  BY <2>1, <3>1, <3>2 DEF Gathers
  <2>2. CASE j - Len(u) \in 1 .. Len(w) /\ v[j] = w[j - Len(u)]
    <3>1. g \in 1 .. g
      BY <1>1
    <3>. QED  BY <1>6, <2>2, <3>1
  <2>. QED  BY <1>9, <2>1, <2>2
<1>12. ASSUME NEW j \in 1 .. Len(u), NEW k \in 1 .. Len(w)
       PROVE  u[j].header # w[k].header
  <2>1. GroupIndex(headers[u[j].header].hash, Len(groups)) \in 1 .. g - 1
    BY DEF Gathers
  <2>2. g \notin 1 .. g - 1
    BY <1>1
  <2>. QED  BY <1>6, <2>1, <2>2
<1>13. ASSUME NEW j \in 1 .. Len(v), NEW k \in 1 .. Len(v), v[j].header = v[k].header
       PROVE  j = k
  <2>1. \A x, y \in 1 .. Len(u) : u[x].header = u[y].header => x = y
    BY DEF Gathers
  <2>2. j \in Nat /\ k \in Nat
    BY <1>5
  <2>3. CASE j \in 1 .. Len(u) /\ v[j] = u[j]
    BY <1>9, <1>12, <1>13, <2>1, <2>3
  <2>4. CASE j - Len(u) \in 1 .. Len(w) /\ v[j] = w[j - Len(u)]
    <3>1. k - Len(u) \in 1 .. Len(w) /\ v[k] = w[k - Len(u)]
      BY <1>9, <1>12, <1>13, <2>4
    <3>2. j - Len(u) = k - Len(u)
      BY <1>7, <1>13, <2>4, <3>1
    <3>. QED  BY <1>5, <2>2, <3>2
  <2>. QED  BY <1>9, <2>3, <2>4
<1>14. ASSUME NEW h \in DOMAIN headers,
              GroupIndex(headers[h].hash, Len(groups)) \in 1 .. g
       PROVE  \E j \in 1 .. Len(v) : v[j].header = h
  <2>1. CASE GroupIndex(headers[h].hash, Len(groups)) = g
    BY <1>8, <1>10, <2>1
  <2>2. CASE GroupIndex(headers[h].hash, Len(groups)) # g
    <3>1. GroupIndex(headers[h].hash, Len(groups)) \in 1 .. g - 1
      BY <1>1, <1>14, <2>2
    <3>2. PICK j \in 1 .. Len(u) : u[j].header = h
      BY <3>1 DEF Gathers
    <3>. QED  BY <1>10, <3>2
  <2>. QED  BY <2>1, <2>2
<1>15. Gathers(v, groups, headers, g)
  BY <1>11, <1>13, <1>14 DEF Gathers
<1>. QED  BY <1>5, <1>15 DEF v, w, group

\* UsedSlots gathers the slots of all groups.
LEMMA UsedSlotsGathered ==
  ASSUME NEW m, GroupsFiled(m.groups, m.headers)
  PROVE  /\ UsedSlots(m) \in Seq(Slot)
         /\ Gathers(UsedSlots(m), m.groups, m.headers, Len(m.groups))
<1> DEFINE k == Len(m.groups)
           Next(u, g) == u \o UsedOf(m.groups[g].slots)
           Y == [g \in 0 .. k |-> {u \in Seq(Slot) : Gathers(u, m.groups, m.headers, g)}]
           step == [x \in Seq(Slot) \X (1 .. k) |-> Next(x[1], x[2])]
           Solves(f) == f = [g \in 0 .. k |-> IF g = 0 THEN << >> ELSE Next(f[g - 1], g)]
<1>1. k \in Nat
  <2>1. m.groups \in Seq(Group)
    BY DEF GroupsFiled
  <2>. QED  BY <2>1, LenProperties
<1>2. << >> \in Y[0]
  <2>1. Len(<< >>) = 0 /\ << >> \in Seq(Slot) /\ 0 \in 0 .. k
    BY <1>1, EmptySeq
  <2>2. Gathers(<< >>, m.groups, m.headers, 0)
    BY <2>1 DEF Gathers
  <2> HIDE DEF k
  <2>. QED  BY <2>1, <2>2
<1>3. ASSUME NEW g \in 1 .. k, NEW u \in Y[g - 1]
      PROVE  Next(u, g) \in Y[g] /\ u \in Seq(Slot)
  <2>1. g - 1 \in 0 .. k /\ g \in 0 .. k
    BY <1>1
  <2>2. u \in Seq(Slot) /\ Gathers(u, m.groups, m.headers, g - 1)
    BY <2>1
  <2>3. Next(u, g) \in Seq(Slot) /\ Gathers(Next(u, g), m.groups, m.headers, g)
    BY <2>2, GathersMore
  <2> HIDE DEF Next, k
  <2>. QED  BY <2>1, <2>2, <2>3
<1>4. \E f : Solves(f)
  <2>1. \A g \in 1 .. k : \A u \in Y[g - 1] : step[<<u, g>>] = Next(u, g)
    <3> HIDE DEF Y, Next
    <3>. QED  BY <1>3
  <2>2. \A g \in 1 .. k : \A u \in Y[g - 1] : step[<<u, g>>] \in Y[g]
    <3> HIDE DEF Y, Next, step
    <3>. QED  BY <1>3, <2>1
  <2>3. \A g \in 0 .. k : Y[g] \subseteq Seq(Slot)
    OBVIOUS
  <2>4. PICK f \in [0 .. k -> Seq(Slot)] :
          /\ f[0] = << >> /\ \A g \in 1 .. k : f[g] = step[<<f[g - 1], g>>]
          /\ \A g \in 0 .. k : f[g] \in Y[g]
    <3> HIDE DEF Y, step, k
    <3>1. StaysWithin(k, Seq(Slot), Y, << >>, step)
      BY <1>1, <1>2, <2>2, <2>3 DEF StaysWithin
    <3>. QED  BY <3>1, Recursion
  <2>5. \A g \in 0 .. k : f[g] = IF g = 0 THEN << >> ELSE Next(f[g - 1], g)
    <3> HIDE DEF Y, Next, step
    <3>1. \A g \in 0 .. k : g # 0 => g \in 1 .. k /\ g - 1 \in 0 .. k
      BY <1>1
    <3>. QED  BY <2>1, <2>4, <3>1
  <2>6. f = [g \in 0 .. k |-> f[g]]
    OBVIOUS
  <2>7. [g \in 0 .. k |-> f[g]] = [g \in 0 .. k |-> IF g = 0 THEN << >> ELSE Next(f[g - 1], g)]
    <3> HIDE DEF Next
    <3>. QED  BY <2>5
  <2>. QED  BY <2>6, <2>7
<1> DEFINE loop == CHOOSE f : Solves(f)
<1>5. Solves(loop)
  <2> HIDE DEF Solves
  <2>. QED  BY <1>4
<1>6. UsedSlots(m) = loop[k]
  BY DEF UsedSlots
<1> HIDE DEF loop
<1>7. loop[0] = << >> /\ \A g \in 1 .. k : loop[g] = Next(loop[g - 1], g)
  <2>1. \A g \in 0 .. k : loop[g] = IF g = 0 THEN << >> ELSE Next(loop[g - 1], g)
    <3> HIDE DEF Next
    <3>. QED  BY <1>5
  <2>2. 0 \in 0 .. k /\ \A g \in 1 .. k : g \in 0 .. k /\ g # 0
    BY <1>1
  <2> HIDE DEF Next
  <2>. QED  BY <2>1, <2>2
<1>8. \A g \in 0 .. k : loop[g] \in Y[g]
  <2> HIDE DEF Y, Next, k
  <2>1. Inductive(k, Y, loop)
    BY <1>1, <1>2, <1>3, <1>7 DEF Inductive
  <2>. QED  BY <2>1, InductionUpTo
<1>9. loop[k] \in Y[k] /\ k \in 0 .. k
  <2> HIDE DEF Y, k
  <2>. QED  BY <1>1, <1>8
<1>. QED  BY <1>6, <1>9

\* The headers of the first k of the slots.
FirstOf(headers, slots, k) == [h \in {slots[j].header : j \in 1 .. k} |-> headers[h]]

HaveHashes(headers) == \A h \in DOMAIN headers : headers[h].hash \in Hashes

\* The table into which the first k of the slots were dealt out.
DealtFirst(groups, headers, slots, k, n) ==
  /\ GroupsFiled(groups, FirstOf(headers, slots, k)) /\ Len(groups) = n
  /\ \A g \in 1 .. n : Packed(groups[g])

\* A slot is dealt out to the place behind the used ones of its group.
LEMMA DealtOutNext ==
  ASSUME NEW m, HaveHashes(m.headers),
         NEW slots \in Seq(Slot), Gathers(slots, m.groups, m.headers, Len(m.groups)),
         NEW n \in Nat \ {0}, NEW k \in 1 .. Len(slots),
         NEW groups, DealtFirst(groups, m.headers, slots, k - 1, n)
  PROVE  DealtFirst(DealtOut(m, groups, slots[k]), m.headers, slots, k, n)
<1> DEFINE slot == slots[k]
           h == slot.header
           headers == FirstOf(m.headers, slots, k - 1)
           more == FirstOf(m.headers, slots, k)
           g == GroupIndex(m.headers[h].hash, n)
           group == GroupEnsured(groups[g], groups[g].pairCount + 1)
           i == group.pairCount + 1
           filled == Filled(group, i, slot)
<1>1. /\ slot \in Slot /\ Used(slot) /\ h \in DOMAIN m.headers
      /\ slot.mask = m.headers[h].hash.mask
      /\ Len(slots) \in Nat
  BY ElementOfSeq, LenProperties DEF Gathers
<1>2. \A j \in 1 .. k - 1 : j \in 1 .. Len(slots) /\ j # k /\ j \in 1 .. k
  BY <1>1
<1>3. /\ DOMAIN headers = {slots[j].header : j \in 1 .. k - 1}
      /\ DOMAIN more = {slots[j].header : j \in 1 .. k}
      /\ \A x \in DOMAIN headers : headers[x] = m.headers[x]
      /\ \A x \in DOMAIN more : more[x] = m.headers[x]
  BY DEF FirstOf
<1> HIDE DEF headers, more
<1>4. \A j \in 1 .. k : j = k \/ j \in 1 .. k - 1
  BY <1>1
<1>5. DOMAIN more = DOMAIN headers \cup {h} /\ k \in 1 .. k
  BY <1>1, <1>2, <1>3, <1>4
<1>6. h \notin DOMAIN headers
  BY <1>2, <1>3 DEF Gathers
<1>7. SameHashes(headers, more)
  BY <1>3, <1>5 DEF SameHashes
<1>8. m.headers[h].hash \in Hashes
  BY <1>1 DEF HaveHashes
<1> HIDE DEF slot, h
<1>9. g \in 1 .. n
  BY <1>8, GroupIndexInRange
<1>10. /\ groups \in Seq(Group) /\ Len(groups) = n /\ GroupsFiled(groups, headers)
       /\ \A x \in 1 .. n : Packed(groups[x])
  BY DEF DealtFirst, GroupsFiled, headers
<1> HIDE DEF g
<1>11. groups[g] \in Group /\ GroupFiled(groups[g], g, n, headers) /\ Packed(groups[g])
  BY <1>9, <1>10, ElementOfSeq DEF GroupsFiled
<1>12. /\ group \in Group /\ GroupFiled(group, g, n, headers)
       /\ group.pairCount < Len(group.slots)
       /\ \A x : GroupHolds(group, x) <=> GroupHolds(groups[g], x)
       /\ Packed(group)
  BY <1>11, EnsuredGroup
<1> HIDE DEF group
<1>13. i \in 1 .. Len(group.slots) /\ ~Used(group.slots[i])
  <2>1. group.pairCount \in Nat /\ Len(group.slots) \in Nat
        /\ DOMAIN group.slots = 1 .. Len(group.slots)
    BY <1>12, GroupSlots
  <2>2. i \in 1 .. Len(group.slots) /\ i \notin 1 .. group.pairCount
    BY <1>12, <2>1
  <2>. QED  BY <1>12, <2>1, <2>2 DEF Packed, UsedPlaces
<1>14. /\ h \in DOMAIN more \ DOMAIN headers
       /\ slot.mask = more[h].hash.mask
       /\ GroupIndex(more[h].hash, n) = g
  BY <1>1, <1>3, <1>5, <1>6 DEF g
<1> HIDE DEF i
<1>15. /\ filled \in Group /\ GroupFiled(filled, g, n, more) /\ Packed(filled)
       /\ \A x : GroupHolds(filled, x) <=> GroupHolds(group, x) \/ x = h
  <2>1. slot.header \in DOMAIN more \ DOMAIN headers
        /\ slot.mask = more[slot.header].hash.mask /\ GroupIndex(more[slot.header].hash, n) = g
    BY <1>14 DEF h
  <2>. QED  BY <1>1, <1>7, <1>12, <1>13, <2>1, FilledGroup DEF i, h
<1> HIDE DEF filled
<1>16. /\ GroupsFiled(Replaced(groups, g, filled), more)
       /\ Len(Replaced(groups, g, filled)) = n
  <2>1. Joins(filled, g, h, groups, headers, more)
    BY <1>5, <1>7, <1>9, <1>10, <1>12, <1>14, <1>15 DEF Joins
  <2>2. /\ GroupsFiled(Replaced(groups, g, filled), more)
        /\ Len(Replaced(groups, g, filled)) = Len(groups)
    BY <1>10, <2>1, FilledGroups
  <2>. QED  BY <1>10, <2>2
<1>17. \A x \in 1 .. n : Packed(Replaced(groups, g, filled)[x])
  BY <1>9, <1>10, <1>15, ExceptSeq DEF Replaced
<1>18. DealtOut(m, groups, slots[k]) = Replaced(groups, g, filled)
  BY <1>10 DEF DealtOut, Replaced, g, h, slot, group, i, filled
<1>. QED  BY <1>16, <1>17, <1>18 DEF DealtFirst, more

\* Dealing out loses no header.
LEMMA DealtFiled ==
  ASSUME NEW m, GroupsFiled(m.groups, m.headers), HaveHashes(m.headers),
         m.groups # << >>, NEW n \in Nat \ {0}, m.headers = [h \in DOMAIN m.headers |-> m.headers[h]]
  PROVE  GroupsFiled(Dealt(m, n), m.headers) /\ Len(Dealt(m, n)) = n
<1> DEFINE slots == UsedSlots(m)
           k == Len(slots)
           Next(groups, i) == DealtOut(m, groups, slots[i])
           Y == [i \in 0 .. k |->
                   {groups \in Seq(Group) : DealtFirst(groups, m.headers, slots, i, n)}]
           step == [x \in Seq(Group) \X (1 .. k) |-> Next(x[1], x[2])]
           Solves(f) == f = [i \in 0 .. k |-> IF i = 0 THEN NewGroups(n) ELSE Next(f[i - 1], i)]
<1>0. slots \in Seq(Slot) /\ Gathers(slots, m.groups, m.headers, Len(m.groups))
  BY UsedSlotsGathered
<1> HIDE DEF slots
<1>1. k \in Nat
  BY <1>0, LenProperties
<1>2. NewGroups(n) \in Y[0]
  <2>1. DOMAIN FirstOf(m.headers, slots, 0) = {}
    BY DEF FirstOf
  <2>2. DealtFirst(NewGroups(n), m.headers, slots, 0, n) /\ NewGroups(n) \in Seq(Group)
    BY <2>1, NewGroupsFiled DEF DealtFirst, GroupsFiled
  <2>3. 0 \in 0 .. k
    BY <1>1
  <2> HIDE DEF k
  <2>. QED  BY <2>2, <2>3
<1>3. ASSUME NEW i \in 1 .. k, NEW groups \in Y[i - 1]
      PROVE  Next(groups, i) \in Y[i] /\ groups \in Seq(Group)
  <2>1. i - 1 \in 0 .. k /\ i \in 0 .. k
    BY <1>1
  <2>2. groups \in Seq(Group) /\ DealtFirst(groups, m.headers, slots, i - 1, n)
    BY <2>1
  <2>3. DealtFirst(Next(groups, i), m.headers, slots, i, n)
    BY <1>0, <2>2, DealtOutNext
  <2>4. Next(groups, i) \in Seq(Group)
    BY <2>3 DEF DealtFirst, GroupsFiled
  <2> HIDE DEF Next, k
  <2>. QED  BY <2>1, <2>2, <2>3, <2>4
<1>4. \E f : Solves(f)
  <2>1. \A i \in 1 .. k : \A groups \in Y[i - 1] : step[<<groups, i>>] = Next(groups, i)
    <3> HIDE DEF Y, Next
    <3>. QED  BY <1>3
  <2>2. \A i \in 1 .. k : \A groups \in Y[i - 1] : step[<<groups, i>>] \in Y[i]
    <3> HIDE DEF Y, Next, step
    <3>. QED  BY <1>3, <2>1
  <2>3. \A i \in 0 .. k : Y[i] \subseteq Seq(Group)
    OBVIOUS
  <2>4. PICK f \in [0 .. k -> Seq(Group)] :
          /\ f[0] = NewGroups(n) /\ \A i \in 1 .. k : f[i] = step[<<f[i - 1], i>>]
          /\ \A i \in 0 .. k : f[i] \in Y[i]
    <3> HIDE DEF Y, step, k
    <3>1. StaysWithin(k, Seq(Group), Y, NewGroups(n), step)
      BY <1>1, <1>2, <2>2, <2>3 DEF StaysWithin
    <3>. QED  BY <3>1, Recursion
  <2>5. \A i \in 0 .. k : f[i] = IF i = 0 THEN NewGroups(n) ELSE Next(f[i - 1], i)
    <3> HIDE DEF Y, Next, step
    <3>1. \A i \in 0 .. k : i # 0 => i \in 1 .. k /\ i - 1 \in 0 .. k
      BY <1>1
    <3>. QED  BY <2>1, <2>4, <3>1
  <2>6. f = [i \in 0 .. k |-> f[i]]
    OBVIOUS
  <2>7. [i \in 0 .. k |-> f[i]] = [i \in 0 .. k |-> IF i = 0 THEN NewGroups(n) ELSE Next(f[i - 1], i)]
    <3> HIDE DEF Next
    <3>. QED  BY <2>5
  <2>. QED  BY <2>6, <2>7
<1> DEFINE loop == CHOOSE f : Solves(f)
<1>5. Solves(loop)
  <2> HIDE DEF Solves
  <2>. QED  BY <1>4
<1>6. Dealt(m, n) = loop[k]
  BY DEF Dealt, slots
<1> HIDE DEF loop
<1>7. loop[0] = NewGroups(n) /\ \A i \in 1 .. k : loop[i] = Next(loop[i - 1], i)
  <2>1. \A i \in 0 .. k : loop[i] = IF i = 0 THEN NewGroups(n) ELSE Next(loop[i - 1], i)
    <3> HIDE DEF Next
    <3>. QED  BY <1>5
  <2>2. 0 \in 0 .. k /\ \A i \in 1 .. k : i \in 0 .. k /\ i # 0
    BY <1>1
  <2> HIDE DEF Next
  <2>. QED  BY <2>1, <2>2
<1>8. \A i \in 0 .. k : loop[i] \in Y[i]
  <2> HIDE DEF Y, Next, k
  <2>1. Inductive(k, Y, loop)
    BY <1>1, <1>2, <1>3, <1>7 DEF Inductive
  <2>. QED  BY <2>1, InductionUpTo
<1>9. loop[k] \in Y[k] /\ k \in 0 .. k
  <2> HIDE DEF Y, k
  <2>. QED  BY <1>1, <1>8
<1>10. DealtFirst(Dealt(m, n), m.headers, slots, k, n)
  <2> HIDE DEF k
  <2>. QED  BY <1>6, <1>9
<1>11. FirstOf(m.headers, slots, k) = m.headers
  <2>1. \A h \in DOMAIN m.headers : \E j \in 1 .. k : slots[j].header = h
    <3>1. \A h \in DOMAIN m.headers : GroupIndex(m.headers[h].hash, Len(m.groups)) \in 1 .. Len(m.groups)
      BY DEF GroupsFiled
    <3>. QED  BY <1>0, <3>1 DEF Gathers
  <2>2. \A j \in 1 .. k : slots[j].header \in DOMAIN m.headers
    BY <1>0 DEF Gathers
  <2>3. {slots[j].header : j \in 1 .. k} = DOMAIN m.headers
    BY <2>1, <2>2
  <2>. QED  BY <2>3 DEF FirstOf
<1>. QED  BY <1>10, <1>11 DEF DealtFirst
-----------------------------------------------------------------------------
(***************************************************************************)
(* The links.                                                              *)
(***************************************************************************)

Addresses == 0 .. MaxHeaders

Header(entries) ==
  [entry : entries, hash : Range(HashOf), before : Addresses, after : Addresses]

\* The headers that a table may have.
HeadersOK(headers, entries) ==
  /\ DOMAIN headers \subseteq 1 .. MaxHeaders
  /\ headers \in [DOMAIN headers -> Header(entries)]

\* The links lead through the headers in the order s, and back.
Chained(headers, first, last, s) ==
  /\ s \in Seq(DOMAIN headers)
  /\ \A i, j \in 1 .. Len(s) : s[i] = s[j] => i = j
  /\ \A h \in DOMAIN headers : \E i \in 1 .. Len(s) : s[i] = h
  /\ first = IF Len(s) = 0 THEN NULL ELSE s[1]
  /\ last = IF Len(s) = 0 THEN NULL ELSE s[Len(s)]
  /\ \A i \in 1 .. Len(s) :
       /\ headers[s[i]].before = IF i = 1 THEN NULL ELSE s[i - 1]
       /\ headers[s[i]].after = IF i = Len(s) THEN NULL ELSE s[i + 1]

\* As many as there are.
LEMMA ChainLength ==
  ASSUME NEW headers, NEW first, NEW last, NEW s, Chained(headers, first, last, s)
  PROVE  /\ Len(s) \in Nat /\ s \in [1 .. Len(s) -> DOMAIN headers]
         /\ IsFiniteSet(DOMAIN headers) /\ Cardinality(DOMAIN headers) = Len(s)
<1> DEFINE k == Len(s)
           D == DOMAIN headers
<1>1. s \in Seq(D) /\ k \in Nat /\ s \in [1 .. k -> D]
  BY LenProperties DEF Chained
<1>2. s \in Bijection(1 .. k, D)
  <2>1. \A i, j \in 1 .. k : s[i] = s[j] => i = j
    BY DEF Chained
  <2>2. \A h \in D : \E i \in 1 .. k : s[i] = h
    BY DEF Chained
  <2> HIDE DEF k, D
  <2>. QED  BY <1>1, <2>1, <2>2 DEF Bijection, Injection, Surjection, IsInjective
<1>3. ExistsBijection(1 .. k, D)
  BY <1>2 DEF ExistsBijection
<1>4. IsFiniteSet(1 .. k) /\ Cardinality(1 .. k) = k
  <2> HIDE DEF k
  <2>. QED  BY <1>1, FS_Interval
<1> HIDE DEF k, D
<1>5. IsFiniteSet(D) /\ Cardinality(D) = k
  BY <1>3, <1>4, FS_Bijection
<1>. QED  BY <1>1, <1>5 DEF k, D

\* A new header becomes the last of the chain.
LEMMA LinkedChained ==
  ASSUME NEW m, NEW entries, HeadersOK(m.headers, entries),
         NEW s, Chained(m.headers, m.first, m.last, s),
         NEW h \in 1 .. MaxHeaders \ DOMAIN m.headers,
         NEW new \in Header(entries), new.before = m.last, new.after = NULL
  PROVE  /\ HeadersOK(Linked(m, h, new), entries)
         /\ DOMAIN Linked(m, h, new) = DOMAIN m.headers \cup {h}
         /\ SameHashes(m.headers, Linked(m, h, new))
         /\ Linked(m, h, new)[h] = new
         /\ \A a \in DOMAIN m.headers : Linked(m, h, new)[a].entry = m.headers[a].entry
         /\ Chained(Linked(m, h, new), IF m.first = NULL THEN h ELSE m.first, h, Append(s, h))
<1> DEFINE D == DOMAIN m.headers
           more == Linked(m, h, new)
           t == Append(s, h)
           k == Len(s)
<1>1. k \in Nat /\ s \in [1 .. k -> D] /\ s \in Seq(D)
  BY ChainLength DEF Chained
<1>2. DOMAIN more = D \cup {h} /\ h \notin D
  BY DEF Linked
<1>3. more[h] = new
  BY DEF Linked
<1>4. \A a \in D : more[a] = IF a = m.last THEN [m.headers[a] EXCEPT !.after = h] ELSE m.headers[a]
  BY DEF Linked
<1>5. more = [a \in D \cup {h} |-> more[a]]
  BY DEF Linked
<1> HIDE DEF more, k
<1>6. D \subseteq 1 .. MaxHeaders /\ \A a \in D : m.headers[a] \in Header(entries)
  BY DEF HeadersOK
<1>7. h \in Addresses /\ h # NULL /\ \A a \in D : a # NULL
  BY <1>6, SizesAssumption DEF Addresses, NULL
<1>8. ASSUME NEW a \in D
      PROVE  /\ more[a] \in Header(entries)
             /\ more[a].entry = m.headers[a].entry /\ more[a].hash = m.headers[a].hash
             /\ more[a].before = m.headers[a].before
             /\ more[a].after = IF a = m.last THEN h ELSE m.headers[a].after
  <2> DEFINE r == m.headers[a]
  <2>1. r \in Header(entries)
    BY <1>6
  <2> HIDE DEF r
  <2>2. LET q == [r EXCEPT !.after = h]
        IN  /\ q \in Header(entries)
            /\ q.entry = r.entry /\ q.hash = r.hash /\ q.before = r.before /\ q.after = h
    BY <1>7, <2>1 DEF Header
  <2>3. more[a] = IF a = m.last THEN [r EXCEPT !.after = h] ELSE r
    BY <1>4 DEF r
  <2>4. CASE a = m.last
    BY <2>2, <2>3, <2>4 DEF r
  <2>5. CASE a # m.last
    BY <2>1, <2>3, <2>5 DEF r
  <2>. QED  BY <2>4, <2>5
<1>9. HeadersOK(more, entries)
  <2>1. DOMAIN more \subseteq 1 .. MaxHeaders
    BY <1>2, <1>6
  <2>2. \A a \in DOMAIN more : more[a] \in Header(entries)
    BY <1>2, <1>3, <1>8
  <2>3. more \in [DOMAIN more -> Header(entries)]
    <3> HIDE DEF D
    <3>. QED  BY <1>2, <1>5, <2>2
  <2>. QED  BY <2>1, <2>3 DEF HeadersOK
<1>10. SameHashes(m.headers, more)
  BY <1>2, <1>8 DEF SameHashes
<1>11. /\ t \in Seq(D \cup {h}) /\ Len(t) = k + 1
       /\ \A i \in 1 .. k : t[i] = s[i]
       /\ t[k + 1] = h
  <2>1. s \in Seq(D \cup {h}) /\ h \in D \cup {h}
    BY <1>1, SeqMonotonic
  <2>. QED  BY <2>1, AppendProperties DEF k
<1> HIDE DEF t
<1>12. \A i \in 1 .. k + 1 : i = k + 1 \/ i \in 1 .. k
  BY <1>1
<1>13. /\ m.first = IF k = 0 THEN NULL ELSE s[1]
       /\ m.last = IF k = 0 THEN NULL ELSE s[k]
       /\ \A i \in 1 .. k :
            /\ m.headers[s[i]].before = IF i = 1 THEN NULL ELSE s[i - 1]
            /\ m.headers[s[i]].after = IF i = k THEN NULL ELSE s[i + 1]
       /\ \A i, j \in 1 .. k : s[i] = s[j] => i = j
       /\ \A a \in D : \E i \in 1 .. k : s[i] = a
  BY DEF Chained, k
<1>14. \A i, j \in 1 .. k + 1 : t[i] = t[j] => i = j
  BY <1>1, <1>2, <1>11, <1>12, <1>13, SMTT(30)
<1>15. \A a \in D \cup {h} : \E i \in 1 .. k + 1 : t[i] = a
  <2>1. k + 1 \in 1 .. k + 1 /\ \A i \in 1 .. k : i \in 1 .. k + 1
    BY <1>1
  <2>. QED  BY <1>11, <1>13, <2>1
<1>16. (IF m.first = NULL THEN h ELSE m.first) = t[1]
  <2>1. CASE k = 0
    BY <1>11, <1>13, <2>1
  <2>2. CASE k # 0
    <3>1. 1 \in 1 .. k
      BY <1>1, <2>2
    <3>2. m.first = s[1] /\ s[1] \in D
      BY <1>1, <1>13, <2>2, <3>1
    <3>. QED  BY <1>7, <1>11, <3>1, <3>2
  <2>. QED  BY <2>1, <2>2
<1>17. ASSUME NEW i \in 1 .. k + 1
       PROVE  /\ more[t[i]].before = IF i = 1 THEN NULL ELSE t[i - 1]
              /\ more[t[i]].after = IF i = k + 1 THEN NULL ELSE t[i + 1]
  <2>1. CASE i = k + 1
    <3>1. t[i] = h /\ more[t[i]].before = m.last /\ more[t[i]].after = NULL
      BY <1>3, <1>11, <2>1
    <3>2. CASE k = 0
      BY <1>13, <2>1, <3>1, <3>2
    <3>3. CASE k # 0
      <4>1. i - 1 = k /\ k \in 1 .. k /\ i # 1
        BY <1>1, <2>1, <3>3
      <4>. QED  BY <1>11, <1>13, <2>1, <3>1, <3>3, <4>1
    <3>. QED  BY <3>2, <3>3
  <2>2. CASE i \in 1 .. k
    <3>1. t[i] = s[i] /\ s[i] \in D
      BY <1>1, <1>11, <2>2
    <3>2. more[t[i]].before = IF i = 1 THEN NULL ELSE t[i - 1]
      <4>1. i # 1 => i - 1 \in 1 .. k
        BY <1>1, <2>2
      <4>. QED  BY <1>8, <1>11, <1>13, <2>2, <3>1, <4>1
    <3>3. more[t[i]].after = t[i + 1]
      <4>1. CASE i = k
        <5>1. s[i] = m.last
          BY <1>1, <1>13, <2>2, <4>1
        <5>. QED  BY <1>8, <1>11, <3>1, <4>1, <5>1
      <4>2. CASE i # k
        <5>1. i + 1 \in 1 .. k /\ k \in 1 .. k /\ k # 0
          BY <1>1, <2>2, <4>2
        <5>2. s[i] # m.last
          BY <1>13, <2>2, <4>2, <5>1
        <5>. QED  BY <1>8, <1>11, <1>13, <2>2, <3>1, <4>2, <5>1, <5>2, SMTT(30)
      <4>. QED  BY <4>1, <4>2
    <3>4. i # k + 1
      BY <1>1, <2>2
    <3>. QED  BY <3>2, <3>3, <3>4
  <2>. QED  BY <1>12, <2>1, <2>2
<1>18. k + 1 # 0
  BY <1>1
<1> DEFINE f == IF m.first = NULL THEN h ELSE m.first
<1>19. Chained(more, f, h, t)
  <2> HIDE DEF D, f
  <2>1. f = t[1]
    BY <1>16 DEF f
  <2>. QED  BY <1>2, <1>11, <1>14, <1>15, <1>17, <1>18, <2>1 DEF Chained
<1>. QED  BY <1>2, <1>3, <1>8, <1>9, <1>10, <1>19 DEF more, t

\* A sequence without its i-th element.
Without(s, i) == [j \in 1 .. Len(s) - 1 |-> IF j < i THEN s[j] ELSE s[j + 1]]

\* A table is a record.
TableShape(m) ==
  m = [groups |-> m.groups, available |-> m.available, len |-> m.len,
       first |-> m.first, last |-> m.last, headers |-> m.headers]

\* What Unlinked changes.
LEMMA UnlinkedFields ==
  ASSUME NEW m, TableShape(m), NEW h
  PROVE  LET u == Unlinked(m, h)
             before == m.headers[h].before
             after == m.headers[h].after
         IN  /\ TableShape(u) /\ u.groups = m.groups /\ u.available = m.available
             /\ u.len = m.len
             /\ u.first = IF before = NULL THEN after ELSE m.first
             /\ u.last = IF after = NULL THEN before ELSE m.last
             /\ u.headers = [a \in DOMAIN m.headers \ {h} |->
                               IF a = before THEN [m.headers[a] EXCEPT !.after = after]
                               ELSE IF a = after THEN [m.headers[a] EXCEPT !.before = before]
                               ELSE m.headers[a]]
<1> DEFINE before == m.headers[h].before
           after == m.headers[h].after
           f == IF before = NULL THEN after ELSE m.first
           l == IF after = NULL THEN before ELSE m.last
           headers == [a \in DOMAIN m.headers \ {h} |->
                         IF a = before THEN [m.headers[a] EXCEPT !.after = after]
                         ELSE IF a = after THEN [m.headers[a] EXCEPT !.before = before]
                         ELSE m.headers[a]]
           u == Unlinked(m, h)
<1>1. u = [m EXCEPT !.first = f, !.last = l, !.headers = headers]
  BY DEF Unlinked, TableShape
<1> HIDE DEF u, f, l, headers
<1>2. u = [groups |-> m.groups, available |-> m.available, len |-> m.len,
           first |-> f, last |-> l, headers |-> headers]
  BY <1>1 DEF TableShape
<1>3. /\ u.groups = m.groups /\ u.available = m.available /\ u.len = m.len
      /\ u.first = f /\ u.last = l /\ u.headers = headers
  BY <1>2
<1>4. TableShape(u)
  BY <1>2, <1>3 DEF TableShape
<1>. QED  BY <1>3, <1>4 DEF u, f, l, headers

\* Unlinking a header takes it out of the chain.
LEMMA UnlinkedChained ==
  ASSUME NEW m, TableShape(m), NEW entries, HeadersOK(m.headers, entries),
         NEW s, Chained(m.headers, m.first, m.last, s), NEW i \in 1 .. Len(s)
  PROVE  LET u == Unlinked(m, s[i])
         IN  /\ TableShape(u) /\ u.groups = m.groups /\ u.available = m.available
             /\ u.len = m.len
             /\ HeadersOK(u.headers, entries)
             /\ DOMAIN u.headers = DOMAIN m.headers \ {s[i]}
             /\ SameHashes(u.headers, m.headers)
             /\ \A a \in DOMAIN u.headers : u.headers[a].entry = m.headers[a].entry
             /\ Chained(u.headers, u.first, u.last, Without(s, i))
<1> DEFINE D == DOMAIN m.headers
           h == s[i]
           u == Unlinked(m, h)
           before == m.headers[h].before
           after == m.headers[h].after
           t == Without(s, i)
           k == Len(s)
           headers == u.headers
<1>1. k \in Nat /\ s \in [1 .. k -> D] /\ s \in Seq(D)
  BY ChainLength DEF Chained
<1> HIDE DEF k
<1>2. /\ m.first = IF k = 0 THEN NULL ELSE s[1]
      /\ m.last = IF k = 0 THEN NULL ELSE s[k]
      /\ \A j \in 1 .. k :
           /\ m.headers[s[j]].before = IF j = 1 THEN NULL ELSE s[j - 1]
           /\ m.headers[s[j]].after = IF j = k THEN NULL ELSE s[j + 1]
      /\ \A j, l \in 1 .. k : s[j] = s[l] => j = l
      /\ \A a \in D : \E j \in 1 .. k : s[j] = a
  BY DEF Chained, k
<1>3. i \in 1 .. k /\ i \in Nat /\ k # 0
  BY <1>1 DEF k
<1>4. h \in D
  BY <1>1, <1>3
<1>5. /\ TableShape(u) /\ u.groups = m.groups /\ u.available = m.available /\ u.len = m.len
      /\ u.first = IF before = NULL THEN after ELSE m.first
      /\ u.last = IF after = NULL THEN before ELSE m.last
      /\ headers = [a \in D \ {h} |->
                      IF a = before THEN [m.headers[a] EXCEPT !.after = after]
                      ELSE IF a = after THEN [m.headers[a] EXCEPT !.before = before]
                      ELSE m.headers[a]]
  <2> HIDE DEF h, D
  <2>1. TableShape(m)
    OBVIOUS
  <2>2. LET n == Unlinked(m, h)
            b == m.headers[h].before
            c == m.headers[h].after
        IN  /\ TableShape(n) /\ n.groups = m.groups /\ n.available = m.available
            /\ n.len = m.len
            /\ n.first = IF b = NULL THEN c ELSE m.first
            /\ n.last = IF c = NULL THEN b ELSE m.last
            /\ n.headers = [a \in DOMAIN m.headers \ {h} |->
                              IF a = b THEN [m.headers[a] EXCEPT !.after = c]
                              ELSE IF a = c THEN [m.headers[a] EXCEPT !.before = b]
                              ELSE m.headers[a]]
    BY <2>1, UnlinkedFields, ZenonT(60)
  <2>. QED  BY <2>2 DEF D
<1> HIDE DEF u, headers
<1>6. D \subseteq 1 .. MaxHeaders /\ \A a \in D : m.headers[a] \in Header(entries)
  BY DEF HeadersOK
<1>7. \A a \in D : a # NULL /\ a \in Addresses
  BY <1>6, SizesAssumption DEF NULL, Addresses
<1>8. /\ before = IF i = 1 THEN NULL ELSE s[i - 1]
      /\ after = IF i = k THEN NULL ELSE s[i + 1]
  BY <1>2, <1>3
<1>9. before \in Addresses /\ after \in Addresses
  BY <1>4, <1>6 DEF Header
<1> HIDE DEF before, after, h
<1>10. i # 1 => i - 1 \in 1 .. k
  BY <1>1, <1>3
<1>11. i # k => i + 1 \in 1 .. k
  BY <1>1, <1>3
<1>12. before # NULL => before # after
  <2>1. i - 1 # i + 1
    BY <1>3
  <2>. QED  BY <1>2, <1>7, <1>8, <1>10, <1>11, <2>1, <1>1
<1>13. ASSUME NEW a \in D \ {h}
       PROVE  /\ headers[a] \in Header(entries)
              /\ headers[a].entry = m.headers[a].entry /\ headers[a].hash = m.headers[a].hash
              /\ headers[a].before = IF a = after THEN before ELSE m.headers[a].before
              /\ headers[a].after = IF a = before THEN after ELSE m.headers[a].after
  <2> DEFINE r == m.headers[a]
  <2>1. r \in Header(entries)
    BY <1>6
  <2>2. headers[a] = IF a = before THEN [r EXCEPT !.after = after]
                     ELSE IF a = after THEN [r EXCEPT !.before = before] ELSE r
    BY <1>5
  <2> HIDE DEF r
  <2>3. LET q == [r EXCEPT !.after = after]
        IN  /\ q \in Header(entries)
            /\ q.entry = r.entry /\ q.hash = r.hash /\ q.before = r.before /\ q.after = after
    BY <1>9, <2>1 DEF Header
  <2>4. LET q == [r EXCEPT !.before = before]
        IN  /\ q \in Header(entries)
            /\ q.entry = r.entry /\ q.hash = r.hash /\ q.before = before /\ q.after = r.after
    BY <1>9, <2>1 DEF Header
  <2>5. a # NULL
    BY <1>7
  <2>6. CASE a = before
    <3>1. a # after
      BY <1>12, <2>5, <2>6
    <3>. QED  BY <2>2, <2>3, <2>6, <3>1 DEF r
  <2>7. CASE a # before /\ a = after
    BY <2>2, <2>4, <2>7 DEF r
  <2>8. CASE a # before /\ a # after
    BY <2>1, <2>2, <2>8 DEF r
  <2>. QED  BY <2>6, <2>7, <2>8
<1>14. DOMAIN headers = D \ {h}
  BY <1>5
<1>15. HeadersOK(headers, entries)
  <2>1. headers = [a \in D \ {h} |-> headers[a]]
    BY <1>5
  <2>2. headers \in [D \ {h} -> Header(entries)]
    <3> HIDE DEF D
    <3>. QED  BY <1>13, <2>1
  <2>. QED  BY <1>6, <1>14, <2>2 DEF HeadersOK
<1>16. SameHashes(headers, m.headers)
  BY <1>13, <1>14 DEF SameHashes
<1>17. /\ t \in [1 .. k - 1 -> D] /\ k - 1 \in Nat
       /\ \A j \in 1 .. k - 1 : t[j] = IF j < i THEN s[j] ELSE s[j + 1]
  <2>1. \A j \in 1 .. k - 1 : j \in 1 .. k /\ j + 1 \in 1 .. k
    BY <1>1
  <2>2. k - 1 \in Nat
    BY <1>1, <1>3
  <2>. QED  BY <1>1, <2>1, <2>2 DEF Without, k
<1> HIDE DEF t
<1>18. \A j \in 1 .. k - 1 : t[j] # h
  <2>. SUFFICES ASSUME NEW j \in 1 .. k - 1
                PROVE  t[j] # h
    OBVIOUS
  <2>1. j \in 1 .. k /\ j + 1 \in 1 .. k
    BY <1>1
  <2>2. CASE j < i
    <3>1. j # i /\ t[j] = s[j]
      BY <1>3, <1>17, <2>1, <2>2
    <3>. QED  BY <1>2, <1>3, <2>1, <3>1 DEF h
  <2>3. CASE ~(j < i)
    <3>1. j + 1 # i /\ t[j] = s[j + 1]
      BY <1>3, <1>17, <2>1, <2>3
    <3>. QED  BY <1>2, <1>3, <2>1, <3>1 DEF h
  <2>. QED  BY <2>2, <2>3
<1>19. t \in Seq(D \ {h}) /\ Len(t) = k - 1
  <2>1. t \in [1 .. k - 1 -> D \ {h}]
    <3> HIDE DEF D
    <3>1. t = [j \in 1 .. k - 1 |-> t[j]] /\ \A j \in 1 .. k - 1 : t[j] \in D \ {h}
      BY <1>17, <1>18
    <3>. QED  BY <3>1
  <2>. QED  BY <1>17, <2>1
\* The place that an element of t has in s.
<1> DEFINE at == [j \in 1 .. k - 1 |-> IF j < i THEN j ELSE j + 1]
<1>20. \A j \in 1 .. k - 1 : at[j] \in 1 .. k /\ at[j] # i /\ t[j] = s[at[j]]
  BY <1>1, <1>3, <1>17
<1>21. \A j, l \in 1 .. k - 1 : at[j] = at[l] => j = l
  BY <1>1, <1>3
<1>22. \A j \in 1 .. k : j # i => \E l \in 1 .. k - 1 : at[l] = j
  <2>. SUFFICES ASSUME NEW j \in 1 .. k, j # i
                PROVE  \E l \in 1 .. k - 1 : at[l] = j
    OBVIOUS
  <2>1. CASE j < i
    <3>1. j \in 1 .. k - 1 /\ at[j] = j
      BY <1>1, <1>3, <2>1
    <3>. QED  BY <3>1
  <2>2. CASE ~(j < i)
    <3>1. j - 1 \in 1 .. k - 1 /\ at[j - 1] = j
      BY <1>1, <1>3, <2>2
    <3>. QED  BY <3>1
  <2>. QED  BY <2>1, <2>2
<1>23. \A j \in 1 .. k - 1 :
         /\ at[j] + 1 = i => j = i - 1
         /\ at[j] = i + 1 => j = i
         /\ (j # 1 => at[j - 1] = IF at[j] = i + 1 THEN i - 1 ELSE at[j] - 1)
         /\ (j # k - 1 => at[j + 1] = IF at[j] = i - 1 THEN i + 1 ELSE at[j] + 1)
         /\ j = 1 => at[j] = (IF i = 1 THEN 2 ELSE 1)
         /\ j = k - 1 => at[j] = (IF i = k THEN k - 1 ELSE k)
  BY <1>1, <1>3
<1> HIDE DEF at
<1>24. \A j, l \in 1 .. k - 1 : t[j] = t[l] => j = l
  <2>. SUFFICES ASSUME NEW j \in 1 .. k - 1, NEW l \in 1 .. k - 1, t[j] = t[l]
                PROVE  j = l
    OBVIOUS
  <2>1. at[j] \in 1 .. k /\ at[l] \in 1 .. k /\ s[at[j]] = s[at[l]]
    BY <1>20
  <2>2. at[j] = at[l]
    BY <1>2, <2>1
  <2>. QED  BY <1>21, <2>2
<1>25. \A a \in D \ {h} : \E j \in 1 .. k - 1 : t[j] = a
  <2>. SUFFICES ASSUME NEW a \in D \ {h}
                PROVE  \E j \in 1 .. k - 1 : t[j] = a
    OBVIOUS
  <2>1. PICK j \in 1 .. k : s[j] = a
    BY <1>2
  <2>2. j # i
    BY <2>1 DEF h
  <2>. QED  BY <1>20, <1>22, <2>1, <2>2
<1>26. \A j \in 1 .. k - 1 : j \in Nat /\ at[j] \in Nat
  BY <1>1, <1>20
<1>27. ASSUME NEW j \in 1 .. k - 1
       PROVE  headers[t[j]].before = IF j = 1 THEN NULL ELSE t[j - 1]
  <2>0. j # 1 => j - 1 \in 1 .. k - 1
    BY <1>17
  <2>1. /\ t[j] = s[at[j]] /\ t[j] \in D \ {h} /\ at[j] \in 1 .. k /\ at[j] # i
        /\ j \in Nat /\ at[j] \in Nat
    BY <1>17, <1>18, <1>20, <1>26
  <2>2. headers[t[j]].before = IF t[j] = after THEN before ELSE m.headers[t[j]].before
    BY <1>13, <2>1
  <2>3. t[j] = after <=> at[j] = i + 1
    <3>1. ASSUME at[j] = i + 1
          PROVE  t[j] = after
      <4>1. i # k
        BY <1>1, <1>3, <2>1, <3>1
      <4>. QED  BY <1>8, <2>1, <3>1, <4>1
    <3>2. ASSUME t[j] = after
          PROVE  at[j] = i + 1
      <4>1. after # NULL
        BY <1>7, <2>1, <3>2
      <4>2. i # k /\ i + 1 \in 1 .. k /\ s[at[j]] = s[i + 1]
        BY <1>8, <1>11, <2>1, <3>2, <4>1
      <4>. QED  BY <1>2, <2>1, <4>2
    <3>. QED  BY <3>1, <3>2
  <2>4. CASE at[j] = i + 1
    <3>1. headers[t[j]].before = before /\ j = i
      BY <1>23, <2>2, <2>3, <2>4
    <3>2. CASE j = 1
      BY <1>8, <3>1, <3>2
    <3>3. CASE j # 1
      <4>1. t[j - 1] = s[i - 1]
        BY <1>20, <1>23, <2>0, <2>4, <3>3
      <4>. QED  BY <1>8, <3>1, <3>3, <4>1
    <3>. QED  BY <3>2, <3>3
  <2>5. CASE at[j] # i + 1
    <3>1. headers[t[j]].before = IF at[j] = 1 THEN NULL ELSE s[at[j] - 1]
      BY <1>2, <2>1, <2>2, <2>3, <2>5
    <3>2. CASE j = 1
      <4>1. at[j] = 1
        BY <1>3, <1>23, <2>5, <3>2
      <4>. QED  BY <3>1, <3>2, <4>1
    <3>3. CASE j # 1
      <4>1. at[j - 1] = at[j] - 1
        BY <1>23, <2>5, <3>3
      <4>2. at[j - 1] \in 1 .. k /\ t[j - 1] = s[at[j - 1]]
        BY <1>20, <2>0, <3>3
      <4>3. at[j] # 1
        BY <2>1, <4>1, <4>2
      <4>. QED  BY <3>1, <3>3, <4>1, <4>2, <4>3
    <3>. QED  BY <3>2, <3>3
  <2>. QED  BY <2>4, <2>5
<1>28. ASSUME NEW j \in 1 .. k - 1
       PROVE  headers[t[j]].after = IF j = k - 1 THEN NULL ELSE t[j + 1]
  <2>0. j # k - 1 => j + 1 \in 1 .. k - 1
    BY <1>17
  <2>1. /\ t[j] = s[at[j]] /\ t[j] \in D \ {h} /\ at[j] \in 1 .. k /\ at[j] # i
        /\ j \in Nat /\ at[j] \in Nat
    BY <1>17, <1>18, <1>20, <1>26
  <2>2. headers[t[j]].after = IF t[j] = before THEN after ELSE m.headers[t[j]].after
    BY <1>13, <2>1
  <2>3. t[j] = before <=> at[j] = i - 1
    <3>1. ASSUME at[j] = i - 1
          PROVE  t[j] = before
      <4>1. i # 1
        BY <1>1, <1>3, <2>1, <3>1
      <4>. QED  BY <1>8, <2>1, <3>1, <4>1
    <3>2. ASSUME t[j] = before
          PROVE  at[j] = i - 1
      <4>1. before # NULL
        BY <1>7, <2>1, <3>2
      <4>2. i # 1 /\ i - 1 \in 1 .. k /\ s[at[j]] = s[i - 1]
        BY <1>8, <1>10, <2>1, <3>2, <4>1
      <4>. QED  BY <1>2, <2>1, <4>2
    <3>. QED  BY <3>1, <3>2
  <2>4. CASE at[j] = i - 1
    <3>1. headers[t[j]].after = after
      BY <2>2, <2>3, <2>4
    <3>2. CASE j = k - 1
      <4>1. i = k
        BY <1>1, <1>3, <1>23, <2>4, <3>2
      <4>. QED  BY <1>8, <3>1, <3>2, <4>1
    <3>3. CASE j # k - 1
      <4>1. t[j + 1] = s[i + 1] /\ i # k
        <5>1. at[j + 1] = i + 1 /\ at[j + 1] \in 1 .. k
          BY <1>20, <1>23, <2>0, <2>4, <3>3
        <5>. QED  BY <1>1, <1>3, <1>20, <2>0, <3>3, <5>1
      <4>. QED  BY <1>8, <3>1, <3>3, <4>1
    <3>. QED  BY <3>2, <3>3
  <2>5. CASE at[j] # i - 1
    <3>1. headers[t[j]].after = IF at[j] = k THEN NULL ELSE s[at[j] + 1]
      BY <1>2, <2>1, <2>2, <2>3, <2>5, SMTT(30)
    <3>2. CASE j = k - 1
      <4>1. at[j] = k
        BY <1>1, <1>3, <1>23, <2>5, <3>2
      <4>. QED  BY <3>1, <3>2, <4>1
    <3>3. CASE j # k - 1
      <4>1. at[j + 1] = at[j] + 1
        BY <1>23, <2>5, <3>3
      <4>2. at[j + 1] \in 1 .. k /\ t[j + 1] = s[at[j + 1]]
        BY <1>20, <2>0, <3>3
      <4>3. at[j] # k
        BY <1>1, <2>1, <4>1, <4>2
      <4>. QED  BY <3>1, <3>3, <4>1, <4>2, <4>3
    <3>. QED  BY <3>2, <3>3
  <2>. QED  BY <2>4, <2>5
<1>29. u.first = IF k - 1 = 0 THEN NULL ELSE t[1]
  <2>1. CASE i = 1
    <3>1. u.first = after
      BY <1>5, <1>8, <2>1
    <3>2. CASE k = 1
      BY <1>8, <2>1, <3>1, <3>2
    <3>3. CASE k # 1
      <4>1. 1 \in 1 .. k - 1 /\ k - 1 # 0
        BY <1>1, <1>3, <3>3
      <4>2. t[1] = s[2]
        BY <1>17, <2>1, <4>1
      <4>. QED  BY <1>8, <2>1, <3>1, <3>3, <4>1, <4>2
    <3>. QED  BY <3>2, <3>3
  <2>2. CASE i # 1
    <3>1. i - 1 \in 1 .. k /\ 1 \in 1 .. k - 1 /\ k - 1 # 0 /\ 1 < i
      BY <1>1, <1>3, <2>2
    <3>2. before = s[i - 1] /\ before # NULL
      BY <1>1, <1>7, <1>8, <2>2, <3>1
    <3>3. u.first = m.first /\ t[1] = s[1]
      BY <1>5, <1>17, <3>1, <3>2
    <3>. QED  BY <1>2, <1>3, <3>1, <3>3
  <2>. QED  BY <2>1, <2>2
<1>30. u.last = IF k - 1 = 0 THEN NULL ELSE t[k - 1]
  <2>1. CASE i = k
    <3>1. u.last = before
      BY <1>5, <1>8, <2>1
    <3>2. CASE k = 1
      BY <1>8, <2>1, <3>1, <3>2
    <3>3. CASE k # 1
      <4>1. k - 1 \in 1 .. k - 1 /\ k - 1 # 0 /\ k - 1 < i
        BY <1>1, <1>3, <2>1, <3>3
      <4>2. t[k - 1] = s[k - 1]
        BY <1>17, <4>1
      <4>. QED  BY <1>8, <2>1, <3>1, <3>3, <4>1, <4>2
    <3>. QED  BY <3>2, <3>3
  <2>2. CASE i # k
    <3>1. i + 1 \in 1 .. k /\ k - 1 \in 1 .. k - 1 /\ k - 1 # 0 /\ ~(k - 1 < i) /\ (k - 1) + 1 = k
      BY <1>1, <1>3, <2>2
    <3>2. after = s[i + 1] /\ after # NULL
      BY <1>1, <1>7, <1>8, <2>2, <3>1
    <3>3. u.last = m.last /\ t[k - 1] = s[k]
      BY <1>5, <1>17, <3>1, <3>2
    <3>. QED  BY <1>2, <1>3, <3>1, <3>3
  <2>. QED  BY <2>1, <2>2
<1>31. Chained(headers, u.first, u.last, t)
  <2> DEFINE n == k - 1
             rest == D \ {h}
  <2>1. DOMAIN headers = rest /\ t \in Seq(rest) /\ Len(t) = n
    BY <1>14, <1>19
  <2>2. /\ \A j, l \in 1 .. n : t[j] = t[l] => j = l
        /\ \A a \in rest : \E j \in 1 .. n : t[j] = a
    BY <1>24, <1>25
  <2>3. /\ u.first = IF n = 0 THEN NULL ELSE t[1]
        /\ u.last = IF n = 0 THEN NULL ELSE t[n]
    BY <1>29, <1>30
  <2>4. \A j \in 1 .. n : /\ headers[t[j]].before = IF j = 1 THEN NULL ELSE t[j - 1]
                          /\ headers[t[j]].after = IF j = n THEN NULL ELSE t[j + 1]
    BY <1>27, <1>28
  <2> HIDE DEF n, rest
  <2>. QED  BY <2>1, <2>2, <2>3, <2>4 DEF Chained
<1>. QED  BY <1>5, <1>13, <1>14, <1>15, <1>16, <1>31 DEF u, h, t, headers

\* Where the links lead to, in either direction.
Way(s, forward) == IF forward THEN s ELSE Reverse(s)

\* Reversing a sequence turns places around.
LEMMA ReversedAt ==
  ASSUME NEW S, NEW s \in Seq(S)
  PROVE  /\ Reverse(s) \in Seq(S) /\ Len(Reverse(s)) = Len(s)
         /\ \A i \in 1 .. Len(s) : Reverse(s)[i] = s[Len(s) - i + 1]
<1> DEFINE k == Len(s)
<1>1. k \in Nat /\ s \in [1 .. k -> S]
  BY LenProperties
<1>2. Reverse(s) \in [1 .. k -> S] /\ \A i \in 1 .. k : Reverse(s)[i] = s[k - i + 1]
  <2>1. \A i \in 1 .. k : k - i + 1 \in 1 .. k /\ (k - i) + 1 = k - i + 1
    BY <1>1
  <2>. QED  BY <1>1, <2>1 DEF Reverse
<1>. QED  BY <1>1, <1>2

\* Following a header of the chain leads to the next one, and at last to NULL.
LEMMA FollowingOnWay ==
  ASSUME NEW m, NEW s, NEW forward \in BOOLEAN,
         DOMAIN m.headers \subseteq 1 .. MaxHeaders,
         Chained(m.headers, m.first, m.last, s), NEW i \in 1 .. Len(s)
  PROVE  Following(m, Way(s, forward)[i], forward)
           = IF i = Len(s) THEN NULL ELSE Way(s, forward)[i + 1]
<1> DEFINE k == Len(s)
<1>1. k \in Nat /\ s \in [1 .. k -> DOMAIN m.headers] /\ s \in Seq(DOMAIN m.headers)
  BY ChainLength DEF Chained
<1>2. i \in Nat /\ i \in 1 .. k /\ k # 0 /\ k \in 1 .. k /\ 1 \in 1 .. k
  BY <1>1
<1>3. /\ m.first = s[1] /\ m.last = s[k]
      /\ \A j \in 1 .. k :
           /\ m.headers[s[j]].before = IF j = 1 THEN NULL ELSE s[j - 1]
           /\ m.headers[s[j]].after = IF j = k THEN NULL ELSE s[j + 1]
      /\ \A j, l \in 1 .. k : s[j] = s[l] => j = l
  BY <1>2 DEF Chained
<1>4. CASE forward = TRUE
  <2>1. Way(s, forward) = s
    BY <1>4 DEF Way
  <2>2. Following(m, s[i], forward) = IF s[i] = m.last THEN NULL ELSE m.headers[s[i]].after
    BY <1>4 DEF Following
  <2> HIDE DEF k
  <2>3. s[i] = m.last <=> i = k
    BY <1>2, <1>3 DEF k
  <2>. QED  BY <1>3, <2>1, <2>2, <2>3 DEF k
<1>5. CASE forward = FALSE
  <2> DEFINE j == k - i + 1
  <2>1. Way(s, forward) = Reverse(s)
    BY <1>5 DEF Way
  <2>2. j \in 1 .. k /\ (i = k <=> j = 1) /\ (i # k => k - (i + 1) + 1 = j - 1 /\ i + 1 \in 1 .. k)
    <3> HIDE DEF k
    <3>. QED  BY <1>1, <1>2
  <2>3. Reverse(s)[i] = s[j] /\ (i # k => Reverse(s)[i + 1] = s[j - 1])
    BY <1>1, <2>2, ReversedAt
  <2>4. Following(m, s[j], forward) = IF s[j] = m.first THEN NULL ELSE m.headers[s[j]].before
    BY <1>5 DEF Following
  <2> HIDE DEF j, k
  <2>5. s[j] = m.first <=> j = 1
    BY <1>2, <1>3, <2>2
  <2>. QED  BY <1>3, <2>1, <2>2, <2>3, <2>4, <2>5 DEF k
<1>. QED  BY <1>4, <1>5

\* The iterators go along the chain, forward and in reverse.
LEMMA IteratedOnWay ==
  ASSUME NEW m, NEW s, NEW forward \in BOOLEAN,
         DOMAIN m.headers \subseteq 1 .. MaxHeaders,
         Chained(m.headers, m.first, m.last, s)
  PROVE  Iterated(m, forward) = Way(s, forward) /\ Len(s) <= MaxHeaders
<1> DEFINE k == MaxHeaders
           way == Way(s, forward)
           begin == IF forward THEN m.first ELSE m.last
           Ends == DOMAIN m.headers \cup {NULL}
           next == [h \in Ends |-> IF h = NULL THEN NULL ELSE Following(m, h, forward)]
           Next(h, n) == next[h]
           Y == [n \in 0 .. k |-> {IF n < Len(s) THEN way[n + 1] ELSE NULL}]
           step == [x \in Ends \X (1 .. k) |-> Next(x[1], x[2])]
           Solves(f) == f = [n \in 0 .. k |-> IF n = 0 THEN begin ELSE Next(f[n - 1], n)]
<1>0. /\ Len(s) \in Nat /\ s \in Seq(DOMAIN m.headers) /\ Len(s) <= k
      /\ \A h \in DOMAIN m.headers : h # NULL
  <2>1. /\ Len(s) \in Nat /\ IsFiniteSet(DOMAIN m.headers)
        /\ Cardinality(DOMAIN m.headers) = Len(s)
    BY ChainLength
  <2>2. IsFiniteSet(1 .. k) /\ Cardinality(1 .. k) = k
    BY SizesAssumption, FS_Interval
  <2>3. Cardinality(DOMAIN m.headers) <= Cardinality(1 .. k)
    BY <2>2, FS_Subset
  <2>. QED  BY <2>1, <2>2, <2>3, SizesAssumption DEF Chained, NULL
<1>1. k \in Nat
  BY SizesAssumption
<1>w. /\ Len(way) = Len(s) /\ way \in Seq(DOMAIN m.headers)
      /\ \A i \in 1 .. Len(s) : way[i] \in DOMAIN m.headers
  BY <1>0, ReversedAt, ElementOfSeq DEF Way
<1>2. begin \in Y[0]
  <2>1. 0 \in 0 .. k
    BY <1>1
  <2>2. CASE Len(s) = 0
    <3>1. begin = NULL
      BY <2>2 DEF Chained
    <3>. QED  BY <2>1, <2>2, <3>1
  <2>3. CASE Len(s) # 0
    <3>1. 1 \in 1 .. Len(s) /\ Len(s) - 1 + 1 = Len(s) /\ 0 < Len(s) /\ 0 + 1 = 1
      BY <1>0, <2>3
    <3>2. Reverse(s)[1] = s[Len(s) - 1 + 1]
      BY <1>0, <3>1, ReversedAt
    <3>3. begin = way[1]
      BY <2>3, <3>1, <3>2 DEF Chained, Way
    <3> HIDE DEF begin, way
    <3>. QED  BY <2>1, <3>1, <3>3
  <2>. QED  BY <2>2, <2>3
<1>3. ASSUME NEW n \in 1 .. k, NEW h \in Y[n - 1]
      PROVE  Next(h, n) \in Y[n] /\ h \in Ends
  <2>1. n - 1 \in 0 .. k /\ n \in 0 .. k /\ n \in Nat /\ (n - 1) + 1 = n
    BY <1>1
  <2>2. h = IF n - 1 < Len(s) THEN way[n] ELSE NULL
    BY <2>1
  <2>3. CASE n - 1 < Len(s)
    <3>1. n \in 1 .. Len(s) /\ (n = Len(s) <=> ~(n < Len(s)))
      BY <1>0, <2>1, <2>3
    <3>2. h = way[n] /\ h \in DOMAIN m.headers /\ h # NULL
      BY <1>0, <1>w, <2>2, <2>3, <3>1
    <3>3. Next(h, n) = Following(m, h, forward)
      BY <3>2
    <3>4. Following(m, h, forward) = IF n = Len(s) THEN NULL ELSE way[n + 1]
      BY <3>1, <3>2, FollowingOnWay
    <3> HIDE DEF Next, way
    <3>. QED  BY <2>1, <3>1, <3>2, <3>3, <3>4
  <2>4. CASE ~(n - 1 < Len(s))
    <3>1. ~(n < Len(s))
      BY <1>0, <2>1, <2>4
    <3>. QED  BY <2>1, <2>2, <2>4, <3>1
  <2>. QED  BY <2>3, <2>4
<1>4. \E f : Solves(f)
  <2>1. \A n \in 1 .. k : \A h \in Y[n - 1] : step[<<h, n>>] = Next(h, n)
    <3> HIDE DEF Y, Next
    <3>. QED  BY <1>3
  <2>2. \A n \in 1 .. k : \A h \in Y[n - 1] : step[<<h, n>>] \in Y[n]
    <3> HIDE DEF Y, Next, step
    <3>. QED  BY <1>3, <2>1
  <2>3. \A n \in 0 .. k : Y[n] \subseteq Ends
    <3>1. \A n \in 0 .. k : n < Len(s) => n + 1 \in 1 .. Len(s)
      BY <1>0
    <3> HIDE DEF way
    <3>. QED  BY <1>w, <3>1
  <2>4. PICK f \in [0 .. k -> Ends] :
          /\ f[0] = begin /\ \A n \in 1 .. k : f[n] = step[<<f[n - 1], n>>]
          /\ \A n \in 0 .. k : f[n] \in Y[n]
    <3> HIDE DEF Y, step, k
    <3>1. StaysWithin(k, Ends, Y, begin, step)
      BY <1>1, <1>2, <2>2, <2>3 DEF StaysWithin
    <3>. QED  BY <3>1, Recursion
  <2>5. \A n \in 0 .. k : f[n] = IF n = 0 THEN begin ELSE Next(f[n - 1], n)
    <3> HIDE DEF Y, Next, step
    <3>1. \A n \in 0 .. k : n # 0 => n \in 1 .. k /\ n - 1 \in 0 .. k
      BY <1>1
    <3>. QED  BY <2>1, <2>4, <3>1
  <2>6. f = [n \in 0 .. k |-> f[n]]
    OBVIOUS
  <2>7. [n \in 0 .. k |-> f[n]] = [n \in 0 .. k |-> IF n = 0 THEN begin ELSE Next(f[n - 1], n)]
    <3> HIDE DEF Next
    <3>. QED  BY <2>5
  <2>. QED  BY <2>6, <2>7
<1> DEFINE loop == CHOOSE f : Solves(f)
<1>5. Solves(loop)
  <2> HIDE DEF Solves
  <2>. QED  BY <1>4
<1>6. Iterated(m, forward) = [i \in 1 .. Cardinality({n \in 0 .. k : loop[n] # NULL}) |-> loop[i - 1]]
  BY DEF Iterated
<1> HIDE DEF loop
<1>7. loop[0] = begin /\ \A n \in 1 .. k : loop[n] = Next(loop[n - 1], n)
  <2>1. \A n \in 0 .. k : loop[n] = IF n = 0 THEN begin ELSE Next(loop[n - 1], n)
    <3> HIDE DEF Next
    <3>. QED  BY <1>5
  <2>2. 0 \in 0 .. k /\ \A n \in 1 .. k : n \in 0 .. k /\ n # 0
    BY <1>1
  <2> HIDE DEF Next
  <2>. QED  BY <2>1, <2>2
<1>8. \A n \in 0 .. k : loop[n] \in Y[n]
  <2> HIDE DEF Y, Next, k
  <2>1. Inductive(k, Y, loop)
    BY <1>1, <1>2, <1>3, <1>7 DEF Inductive
  <2>. QED  BY <2>1, InductionUpTo
<1>9. \A n \in 0 .. k : loop[n] = IF n < Len(s) THEN way[n + 1] ELSE NULL
  <2> HIDE DEF way
  <2>. QED  BY <1>8
<1> HIDE DEF way, k
<1>10. \A n \in 0 .. k : loop[n] # NULL <=> n < Len(s)
  <2>1. \A n \in 0 .. k : n < Len(s) => n + 1 \in 1 .. Len(s)
    BY <1>0
  <2>. QED  BY <1>0, <1>9, <1>w, <2>1
<1>11. {n \in 0 .. k : loop[n] # NULL} = 0 .. Len(s) - 1
  BY <1>0, <1>1, <1>10
<1>12. Cardinality(0 .. Len(s) - 1) = Len(s)
  <2>1. 0 \in Int /\ Len(s) - 1 \in Int
    BY <1>0
  <2>2. Cardinality(0 .. Len(s) - 1) = IF 0 > Len(s) - 1 THEN 0 ELSE (Len(s) - 1) - 0 + 1
    BY <2>1, FS_Interval
  <2>. QED  BY <1>0, <2>2
<1>13. Iterated(m, forward) = [i \in 1 .. Len(s) |-> loop[i - 1]]
  BY <1>6, <1>11, <1>12
<1>14. \A i \in 1 .. Len(s) : loop[i - 1] = way[i]
  <2>1. \A i \in 1 .. Len(s) : i - 1 \in 0 .. k /\ i - 1 < Len(s) /\ (i - 1) + 1 = i
    BY <1>0, <1>1
  <2>. QED  BY <1>9, <2>1
<1>15. way = [i \in 1 .. Len(s) |-> way[i]]
  BY <1>w, LenProperties
<1>16. [i \in 1 .. Len(s) |-> loop[i - 1]] = [i \in 1 .. Len(s) |-> way[i]]
  BY <1>14
<1>. QED  BY <1>0, <1>13, <1>15, <1>16 DEF way, k
-----------------------------------------------------------------------------
(***************************************************************************)
(* Tables.                                                                 *)
(***************************************************************************)

\* A table whose headers are filed, and linked in the order s.
Sound(m, entries, s) ==
  /\ TableShape(m)
  /\ HeadersOK(m.headers, entries)
  /\ GroupsFiled(m.groups, m.headers)
  /\ Chained(m.headers, m.first, m.last, s)

\* The least element of a set is in it.
LEMMA MinIsIn ==
  ASSUME NEW S \in SUBSET Nat, S # {}
  PROVE  Min(S) \in S
<1>1. \E n \in S : \A k \in S : n <= k
  BY LeastNat
<1>. QED  BY <1>1 DEF Min

\* The hashes that headers have are hashes.
LEMMA HashesOfKeys ==
  /\ Range(HashOf) \subseteq Hashes
  /\ \A key \in Keys : HashOf[key] \in Range(HashOf)
BY HashOfAssumption DEF Range, Hashes

\* The hashes of headers are hashes of keys.
LEMMA HeadersHaveHashes ==
  ASSUME NEW headers, NEW entries, HeadersOK(headers, entries)
  PROVE  HaveHashes(headers)
<1>1. \A h \in DOMAIN headers : headers[h] \in Header(entries)
  BY DEF HeadersOK
<1>. QED  BY <1>1, HashesOfKeys DEF HaveHashes, Header

\* With room for a header there is an address for it.
LEMMA FreshIsFree ==
  ASSUME NEW m, NEW s, Chained(m.headers, m.first, m.last, s),
         DOMAIN m.headers \subseteq 1 .. MaxHeaders, Len(s) < MaxHeaders
  PROVE  FreshHeader(m) \in 1 .. MaxHeaders \ DOMAIN m.headers
<1> DEFINE D == DOMAIN m.headers
<1>1. Cardinality(D) = Len(s)
  BY ChainLength
<1>2. Cardinality(1 .. MaxHeaders) = MaxHeaders
  BY SizesAssumption, FS_Interval
<1>3. D # 1 .. MaxHeaders
  <2>1. Len(s) # MaxHeaders
    BY ChainLength, SizesAssumption
  <2>. QED  BY <1>1, <1>2, <2>1
<1> HIDE DEF D
<1>4. /\ (1 .. MaxHeaders) \ D # {}
      /\ (1 .. MaxHeaders) \ D \in SUBSET Nat
  <2>1. D \subseteq 1 .. MaxHeaders
    BY DEF D
  <2>2. 1 .. MaxHeaders \subseteq Nat
    BY SizesAssumption
  <2> DEFINE I == 1 .. MaxHeaders
  <2>3. D \subseteq I /\ D # I /\ I \subseteq Nat
    BY <1>3, <2>1, <2>2
  <2> HIDE DEF I
  <2>4. I \ D # {} /\ I \ D \in SUBSET Nat
    BY <2>3
  <2>. QED  BY <2>4 DEF I
<1>. QED  BY <1>4, MinIsIn DEF FreshHeader, D

\* What GroupInserted changes.
LEMMA GroupInsertedFields ==
  ASSUME NEW m, TableShape(m), NEW entry, NEW hash
  PROVE  LET c == GroupInserted(m, entry, hash)
             g == GroupIndex(hash, Len(m.groups))
             group == GroupEnsured(m.groups[g], m.groups[g].pairCount + 1)
             i == SelectInSeq(group.slots, LAMBDA slot : ~Used(slot))
             h == FreshHeader(m)
             new == [entry |-> entry, hash |-> hash, before |-> m.last, after |-> NULL]
         IN  /\ TableShape(c) /\ c.available = m.available /\ c.len = m.len
             /\ c.groups = Replaced(m.groups, g,
                                    Filled(group, i, [mask |-> hash.mask, header |-> h]))
             /\ c.first = (IF m.first = NULL THEN h ELSE m.first) /\ c.last = h
             /\ c.headers = Linked(m, h, new)
<1> DEFINE g == GroupIndex(hash, Len(m.groups))
           group == GroupEnsured(m.groups[g], m.groups[g].pairCount + 1)
           i == SelectInSeq(group.slots, LAMBDA slot : ~Used(slot))
           h == FreshHeader(m)
           new == [entry |-> entry, hash |-> hash, before |-> m.last, after |-> NULL]
           filled == Filled(group, i, [mask |-> hash.mask, header |-> h])
           headers == Linked(m, h, new)
           groups == Replaced(m.groups, g, filled)
           f == IF m.first = NULL THEN h ELSE m.first
           c == GroupInserted(m, entry, hash)
<1>1. c = [m EXCEPT !.headers = headers, !.first = IF @ = NULL THEN h ELSE @, !.last = h,
                    !.groups[g] = filled]
  BY DEF GroupInserted
<1> HIDE DEF c, h, headers, g, filled
<1>2. c = [groups |-> groups, available |-> m.available, len |-> m.len,
           first |-> f, last |-> h, headers |-> headers]
  BY <1>1 DEF TableShape, Replaced
<1> HIDE DEF groups, f
<1>3. /\ c.groups = groups /\ c.available = m.available /\ c.len = m.len
      /\ c.first = f /\ c.last = h /\ c.headers = headers
  BY <1>2
<1>4. TableShape(c)
  BY <1>2, <1>3 DEF TableShape
<1>. QED  BY <1>3, <1>4 DEF c, h, headers, g, filled, groups, f

\* Inserting into a group files and links one header more.
LEMMA GroupInsertedSound ==
  ASSUME NEW m, NEW entries, TableShape(m), HeadersOK(m.headers, entries),
         GroupsFiled(m.groups, m.headers), m.groups # << >>,
         NEW s, Chained(m.headers, m.first, m.last, s), Len(s) < MaxHeaders,
         NEW entry \in entries, NEW hash \in Range(HashOf)
  PROVE  LET c == GroupInserted(m, entry, hash)
         IN  /\ TableShape(c) /\ c.available = m.available /\ c.len = m.len
             /\ Len(c.groups) = Len(m.groups) /\ c.groups # << >>
             /\ HeadersOK(c.headers, entries)
             /\ GroupsFiled(c.groups, c.headers)
             /\ SameHashes(m.headers, c.headers)
             /\ \A a \in DOMAIN m.headers : c.headers[a].entry = m.headers[a].entry
             /\ \E h : /\ h \notin DOMAIN m.headers
                       /\ DOMAIN c.headers = DOMAIN m.headers \cup {h}
                       /\ c.headers[h].entry = entry /\ c.headers[h].hash = hash
                       /\ Chained(c.headers, c.first, c.last, Append(s, h))
<1> DEFINE g == GroupIndex(hash, Len(m.groups))
           group == GroupEnsured(m.groups[g], m.groups[g].pairCount + 1)
           i == SelectInSeq(group.slots, LAMBDA slot : ~Used(slot))
           h == FreshHeader(m)
           new == [entry |-> entry, hash |-> hash, before |-> m.last, after |-> NULL]
           slot == [mask |-> hash.mask, header |-> h]
           filled == Filled(group, i, slot)
           c == GroupInserted(m, entry, hash)
<1>1. /\ TableShape(c) /\ c.available = m.available /\ c.len = m.len
      /\ c.groups = Replaced(m.groups, g, filled)
      /\ c.first = (IF m.first = NULL THEN h ELSE m.first) /\ c.last = h
      /\ c.headers = Linked(m, h, new)
  BY GroupInsertedFields
<1> HIDE DEF c
<1>2. h \in 1 .. MaxHeaders \ DOMAIN m.headers
  BY FreshIsFree DEF HeadersOK
<1>3. hash \in Hashes
  BY HashesOfKeys
<1>4. m.last \in Addresses
  <2>1. m.last = NULL \/ m.last \in DOMAIN m.headers
    <3>1. Len(s) # 0 => Len(s) \in 1 .. Len(s)
      BY ChainLength
    <3>. QED  BY <3>1, ChainLength DEF Chained
  <2>. QED  BY <2>1, SizesAssumption DEF HeadersOK, Addresses, NULL
<1>5. new \in Header(entries) /\ new.before = m.last /\ new.after = NULL
  BY <1>4, SizesAssumption DEF Header, Addresses, NULL
<1>6. new.entry = entry /\ new.hash = hash
  OBVIOUS
<1> HIDE DEF new, h
<1>7. /\ HeadersOK(c.headers, entries)
      /\ DOMAIN c.headers = DOMAIN m.headers \cup {h}
      /\ SameHashes(m.headers, c.headers)
      /\ c.headers[h] = new
      /\ \A a \in DOMAIN m.headers : c.headers[a].entry = m.headers[a].entry
      /\ Chained(c.headers, c.first, c.last, Append(s, h))
  <2> DEFINE more == Linked(m, h, new)
             first == IF m.first = NULL THEN h ELSE m.first
  <2>1. /\ HeadersOK(more, entries)
        /\ DOMAIN more = DOMAIN m.headers \cup {h}
        /\ SameHashes(m.headers, more)
        /\ more[h] = new
        /\ \A a \in DOMAIN m.headers : more[a].entry = m.headers[a].entry
        /\ Chained(more, first, h, Append(s, h))
    BY <1>2, <1>5, LinkedChained
  <2>2. c.headers = more /\ c.first = first /\ c.last = h
    BY <1>1
  <2> HIDE DEF more, first
  <2>. QED  BY <2>1, <2>2
<1>8. m.groups \in Seq(Group) /\ Len(m.groups) \in Nat \ {0}
  <2>1. m.groups \in Seq(Group)
    BY DEF GroupsFiled
  <2>. QED  BY <2>1, EmptySeq
<1>9. g \in 1 .. Len(m.groups)
  BY <1>3, <1>8, GroupIndexInRange
<1> HIDE DEF g
<1>10. m.groups[g] \in Group /\ GroupFiled(m.groups[g], g, Len(m.groups), m.headers)
  BY <1>8, <1>9, ElementOfSeq DEF GroupsFiled
<1>11. /\ group \in Group /\ GroupFiled(group, g, Len(m.groups), m.headers)
       /\ group.pairCount < Len(group.slots)
       /\ \A x : GroupHolds(group, x) <=> GroupHolds(m.groups[g], x)
  BY <1>10, EnsuredGroup
<1> HIDE DEF group
<1>12. i \in 1 .. Len(group.slots) /\ ~Used(group.slots[i])
  <2> DEFINE I == {j \in 1 .. Len(group.slots) : ~Used(group.slots[j])}
  <2>1. I # {} /\ I \in SUBSET Nat
    <3>1. group.pairCount = Cardinality(UsedPlaces(group.slots))
      BY <1>11 DEF GroupFiled
    <3>2. \E j \in 1 .. Len(group.slots) : ~Used(group.slots[j])
      BY <1>11, <3>1, FreePlace
    <3>3. Len(group.slots) \in Nat
      BY <1>11, GroupSlots
    <3>. QED  BY <3>2, <3>3
  <2>2. i = Min(I)
    BY <2>1 DEF SelectInSeq
  <2> HIDE DEF i
  <2>3. i \in I
    <3> HIDE DEF I
    <3>. QED  BY <2>1, <2>2, MinIsIn
  <2>. QED  BY <2>3
<1> HIDE DEF i
<1>13. /\ slot \in Slot /\ Used(slot) /\ slot.header = h /\ slot.mask = hash.mask
  BY <1>2, <1>3, SizesAssumption DEF Slot, Used, Hashes
<1> HIDE DEF slot
<1>14. /\ c.headers[h].hash = hash /\ h \in DOMAIN c.headers \ DOMAIN m.headers
       /\ GroupIndex(c.headers[h].hash, Len(m.groups)) = g
  BY <1>2, <1>6, <1>7 DEF g
<1>15. /\ filled \in Group /\ GroupFiled(filled, g, Len(m.groups), c.headers)
       /\ \A x : GroupHolds(filled, x) <=> GroupHolds(group, x) \/ x = h
  <2>1. /\ slot.header \in DOMAIN c.headers \ DOMAIN m.headers
        /\ slot.mask = c.headers[slot.header].hash.mask
        /\ GroupIndex(c.headers[slot.header].hash, Len(m.groups)) = g
    BY <1>13, <1>14
  <2>2. /\ filled \in Group /\ GroupFiled(filled, g, Len(m.groups), c.headers)
        /\ \A x : GroupHolds(filled, x) <=> GroupHolds(group, x) \/ x = slot.header
    BY <1>7, <1>11, <1>12, <1>13, <2>1, FilledGroup
  <2>. QED  BY <1>13, <2>2
<1> HIDE DEF filled
<1>16. Joins(filled, g, h, m.groups, m.headers, c.headers)
  BY <1>7, <1>9, <1>11, <1>14, <1>15 DEF Joins
<1>17. GroupsFiled(c.groups, c.headers) /\ Len(c.groups) = Len(m.groups)
  BY <1>1, <1>16, FilledGroups
<1>18. c.groups # << >>
  BY <1>8, <1>17, EmptySeq
<1>19. /\ h \notin DOMAIN m.headers
       /\ DOMAIN c.headers = DOMAIN m.headers \cup {h}
       /\ c.headers[h].entry = entry /\ c.headers[h].hash = hash
       /\ Chained(c.headers, c.first, c.last, Append(s, h))
  BY <1>2, <1>6, <1>7
<1>. QED  BY <1>1, <1>7, <1>17, <1>18, <1>19 DEF c

\* What a longer table kept of a shorter one, and the header h it has besides.
Extends(c, m, h, entry, hash) ==
  /\ SameHashes(m.headers, c.headers)
  /\ \A a \in DOMAIN m.headers : c.headers[a].entry = m.headers[a].entry
  /\ h \notin DOMAIN m.headers /\ DOMAIN c.headers = DOMAIN m.headers \cup {h}
  /\ c.headers[h].entry = entry /\ c.headers[h].hash = hash

\* The same of a table that is Sound.
LEMMA GroupInsertedExtends ==
  ASSUME NEW m, NEW entries, NEW s, Sound(m, entries, s), m.groups # << >>,
         Len(s) < MaxHeaders, NEW entry \in entries, NEW hash \in Range(HashOf)
  PROVE  LET c == GroupInserted(m, entry, hash)
         IN  /\ c.available = m.available /\ c.len = m.len
             /\ Len(c.groups) = Len(m.groups) /\ c.groups # << >>
             /\ \E h : Sound(c, entries, Append(s, h)) /\ Extends(c, m, h, entry, hash)
<1> DEFINE c == GroupInserted(m, entry, hash)
<1>1. /\ TableShape(c) /\ c.available = m.available /\ c.len = m.len
      /\ Len(c.groups) = Len(m.groups) /\ c.groups # << >>
      /\ HeadersOK(c.headers, entries)
      /\ GroupsFiled(c.groups, c.headers)
      /\ SameHashes(m.headers, c.headers)
      /\ \A a \in DOMAIN m.headers : c.headers[a].entry = m.headers[a].entry
      /\ \E h : /\ h \notin DOMAIN m.headers
                /\ DOMAIN c.headers = DOMAIN m.headers \cup {h}
                /\ c.headers[h].entry = entry /\ c.headers[h].hash = hash
                /\ Chained(c.headers, c.first, c.last, Append(s, h))
  <2>1. /\ TableShape(m) /\ HeadersOK(m.headers, entries)
        /\ GroupsFiled(m.groups, m.headers) /\ Chained(m.headers, m.first, m.last, s)
    BY DEF Sound
  <2>. QED  BY <2>1, GroupInsertedSound
<1> HIDE DEF c
<1>. QED  BY <1>1 DEF Sound, Extends, c

\* Making room keeps what a table has, and there is a group afterwards.
LEMMA EnsuredSound ==
  ASSUME NEW m, NEW entries, NEW s, Sound(m, entries, s)
  PROVE  LET e == Ensured(m)
         IN  /\ Sound(e, entries, s) /\ e.len = m.len /\ e.headers = m.headers
             /\ e.groups # << >>
<1> DEFINE e == Ensured(m)
<1>0. /\ TableShape(m) /\ HeadersOK(m.headers, entries)
      /\ GroupsFiled(m.groups, m.headers) /\ Chained(m.headers, m.first, m.last, s)
  BY DEF Sound
<1>1. CASE m.groups = << >>
  <2>1. e = [groups |-> NewGroups(1), available |-> LoadFactor(1), len |-> m.len,
             first |-> NULL, last |-> NULL, headers |-> m.headers]
    BY <1>0, <1>1 DEF Ensured, TableShape
  <2>2. DOMAIN m.headers = {}
    <3>1. Len(m.groups) = 0
      BY <1>1
    <3>. QED  BY <1>0, <3>1 DEF GroupsFiled
  <2>3. m.first = NULL /\ m.last = NULL
    <3>1. Cardinality(DOMAIN m.headers) = 0
      BY <2>2, FS_EmptySet
    <3>2. Len(s) = 0
      BY <1>0, <3>1, ChainLength
    <3>. QED  BY <1>0, <3>2 DEF Chained
  <2>4. GroupsFiled(NewGroups(1), m.headers) /\ Len(NewGroups(1)) = 1
    BY <2>2, NewGroupsFiled
  <2>5. NewGroups(1) # << >>
    BY <2>4
  <2> HIDE DEF e
  <2>6. TableShape(e)
    BY <2>1 DEF TableShape
  <2>. QED  BY <1>0, <2>1, <2>3, <2>4, <2>5, <2>6 DEF Sound, e
<1>2. CASE m.groups # << >> /\ m.available # 0
  <2>1. e = m
    BY <1>2 DEF Ensured
  <2>. QED  BY <1>2, <2>1
<1>3. CASE m.groups # << >> /\ m.available = 0
  <2> DEFINE n == 2 * Len(m.groups)
             dealt == Dealt(m, n)
  <2>1. n \in Nat \ {0}
    <3>1. m.groups \in Seq(Group)
      BY <1>0 DEF GroupsFiled
    <3>2. Len(m.groups) \in Nat \ {0}
      BY <1>3, <3>1, EmptySeq
    <3>. QED  BY <3>2
  <2>2. e = [m EXCEPT !.available = LoadFactor(n), !.groups = dealt]
    BY <1>3 DEF Ensured
  <2> HIDE DEF e, n, dealt
  <2>3. e = [groups |-> dealt, available |-> LoadFactor(n), len |-> m.len,
             first |-> m.first, last |-> m.last, headers |-> m.headers]
    BY <1>0, <2>2 DEF TableShape
  <2>4. GroupsFiled(dealt, m.headers) /\ Len(dealt) = n
    <3>1. HaveHashes(m.headers)
      BY <1>0, HeadersHaveHashes
    <3>2. m.headers = [h \in DOMAIN m.headers |-> m.headers[h]]
      BY <1>0 DEF HeadersOK
    <3>. QED  BY <1>0, <1>3, <2>1, <3>1, <3>2, DealtFiled DEF dealt
  <2>5. dealt # << >>
    BY <2>1, <2>4
  <2>6. TableShape(e)
    BY <2>3 DEF TableShape
  <2>. QED  BY <1>0, <2>3, <2>4, <2>5, <2>6 DEF Sound, e
<1>. QED  BY <1>1, <1>2, <1>3

\* Inserting adds one header, with the hash of its key.
LEMMA InsertedSound ==
  ASSUME NEW m, NEW entries, NEW s, Sound(m, entries, s), Len(s) < MaxHeaders,
         NEW entry \in entries, entry.key \in Keys
  PROVE  LET c == Inserted(m, entry)
         IN  /\ c.len = m.len + 1 /\ c.groups # << >>
             /\ c.available = Ensured(m).available - 1
             /\ Len(c.groups) = Len(Ensured(m).groups)
             /\ \E h : /\ Sound(c, entries, Append(s, h))
                       /\ Extends(c, m, h, entry, HashOf[entry.key])
<1> DEFINE e == Ensured(m)
           hash == HashOf[entry.key]
           d == GroupInserted(e, entry, hash)
           c == Inserted(m, entry)
<1>1. /\ Sound(e, entries, s) /\ e.len = m.len /\ e.headers = m.headers
      /\ e.groups # << >>
  BY EnsuredSound
<1>2. hash \in Range(HashOf)
  BY HashesOfKeys
<1> HIDE DEF e, hash
<1>3. /\ d.available = e.available /\ d.len = e.len
      /\ Len(d.groups) = Len(e.groups) /\ d.groups # << >>
      /\ \E h : Sound(d, entries, Append(s, h)) /\ Extends(d, e, h, entry, hash)
  BY <1>1, <1>2, GroupInsertedExtends
<1>4. PICK h : Sound(d, entries, Append(s, h)) /\ Extends(d, e, h, entry, hash)
  BY <1>3
<1>5. c = [d EXCEPT !.len = @ + 1, !.available = @ - 1]
  BY DEF Inserted, e, hash
<1> HIDE DEF c, d
<1>6. c = [groups |-> d.groups, available |-> d.available - 1, len |-> d.len + 1,
           first |-> d.first, last |-> d.last, headers |-> d.headers]
  BY <1>4, <1>5 DEF Sound, TableShape
<1>7. /\ c.groups = d.groups /\ c.available = d.available - 1 /\ c.len = d.len + 1
      /\ c.first = d.first /\ c.last = d.last /\ c.headers = d.headers
  BY <1>6
<1>8. Sound(c, entries, Append(s, h))
  BY <1>4, <1>6, <1>7 DEF Sound, TableShape
<1>9. Extends(c, m, h, entry, hash)
  BY <1>1, <1>4, <1>7 DEF Extends
<1>. QED  BY <1>1, <1>3, <1>7, <1>8, <1>9 DEF c, hash, e

\* A table with its length.
Table(m, entries, s) == Sound(m, entries, s) /\ m.len = Len(s)

\* A loop that selects the first of a sequence.
LEMMA FirstSelected ==
  ASSUME NEW n \in Nat, NEW I \in SUBSET (1 .. n)
  PROVE  LET first == IF I # {} THEN Min(I) ELSE 0
         IN  (first # 0 => first \in I) /\ (first = 0 => I = {})
<1>1. CASE I = {}
  BY <1>1
<1>2. CASE I # {}
  <2>1. I \in SUBSET Nat
    OBVIOUS
  <2>2. Min(I) \in I
    BY <1>2, <2>1, MinIsIn
  <2>. QED  BY <1>2, <2>2
<1>. QED  BY <1>1, <1>2

\* What was found for a key is a used slot with a header of that key; and if there
\* is such a slot in the key's group, it is found.
LEMMA FoundHeader ==
  ASSUME NEW m, NEW entries, NEW s, Table(m, entries, s), NEW key \in Keys
  PROVE  LET g == GroupIndex(HashOf[key], Len(m.groups))
             i == Found(m, key)
             h == HeaderAt(m, key, i)
         IN  /\ i # 0 =>
                  /\ g \in 1 .. Len(m.groups)
                  /\ i \in UsedPlaces(m.groups[g].slots)
                  /\ h = m.groups[g].slots[i].header /\ h \in DOMAIN m.headers
                  /\ m.headers[h].entry.key = key
             /\ i = 0 =>
                  \A a \in DOMAIN m.headers :
                    m.headers[a].hash = HashOf[key] => m.headers[a].entry.key # key
<1> DEFINE g == GroupIndex(HashOf[key], Len(m.groups))
           i == Found(m, key)
           h == HeaderAt(m, key, i)
           slots == m.groups[g].slots
           I == {j \in 1 .. Len(slots) : /\ slots[j].mask = HashOf[key].mask
                                         /\ m.headers[slots[j].header].entry.key = key}
           first == IF I # {} THEN Min(I) ELSE 0
<1>0. /\ TableShape(m) /\ HeadersOK(m.headers, entries) /\ m.len = Len(s)
      /\ GroupsFiled(m.groups, m.headers) /\ Chained(m.headers, m.first, m.last, s)
  BY DEF Sound, Table
<1>1. i = IF m.len = 0 THEN 0 ELSE first
  BY DEF Found, SelectInSeq
<1>2. HashOf[key] \in Hashes
  BY HashesOfKeys
<1>3. m.len = 0 <=> DOMAIN m.headers = {}
  <2>1. m.len = Cardinality(DOMAIN m.headers) /\ IsFiniteSet(DOMAIN m.headers)
    BY <1>0, ChainLength
  <2>. QED  BY <2>1, FS_EmptySet
<1>4. m.groups \in Seq(Group) /\ Len(m.groups) \in Nat
  BY <1>0 DEF GroupsFiled
<1>5. m.len # 0 => /\ g \in 1 .. Len(m.groups) /\ m.groups[g] \in Group
                   /\ GroupFiled(m.groups[g], g, Len(m.groups), m.headers)
                   /\ slots \in Seq(Slot) /\ Len(slots) \in Nat
                   /\ UsedPlaces(slots) \subseteq 1 .. Len(slots)
  <2>. SUFFICES ASSUME m.len # 0
                PROVE  /\ g \in 1 .. Len(m.groups) /\ m.groups[g] \in Group
                       /\ GroupFiled(m.groups[g], g, Len(m.groups), m.headers)
                       /\ slots \in Seq(Slot) /\ Len(slots) \in Nat
                       /\ UsedPlaces(slots) \subseteq 1 .. Len(slots)
    OBVIOUS
  <2>1. Len(m.groups) # 0
    BY <1>0, <1>3 DEF GroupsFiled
  <2>2. g \in 1 .. Len(m.groups)
    BY <1>2, <1>4, <2>1, GroupIndexInRange
  <2> HIDE DEF g
  <2>3. m.groups[g] \in Group
    BY <1>4, <2>2, ElementOfSeq
  <2>4. slots \in Seq(Slot) /\ Len(slots) \in Nat
    BY <2>3 DEF Group
  <2>5. UsedPlaces(slots) \subseteq 1 .. Len(slots)
    BY <2>4 DEF UsedPlaces
  <2>. QED  BY <1>0, <2>2, <2>3, <2>4, <2>5 DEF GroupsFiled
<1>6. m.len # 0 => (first # 0 => first \in I) /\ (first = 0 => I = {})
  <2>1. I \in SUBSET (1 .. Len(slots))
    OBVIOUS
  <2> HIDE DEF I
  <2>. QED  BY <1>5, <2>1, FirstSelected
<1>7. ASSUME i # 0
      PROVE  /\ g \in 1 .. Len(m.groups)
             /\ i \in UsedPlaces(m.groups[g].slots)
             /\ h = m.groups[g].slots[i].header /\ h \in DOMAIN m.headers
             /\ m.headers[h].entry.key = key
  <2>1. m.len # 0 /\ i \in I
    <3> HIDE DEF first, I
    <3>. QED  BY <1>1, <1>6, <1>7
  <2>2. h = slots[i].header
    BY DEF HeaderAt
  <2> HIDE DEF i, h, g
  <2>3. HashOf[key].mask # 0
    BY <1>2 DEF Hashes
  <2>4. i \in UsedPlaces(slots)
    <3>1. slots[i].mask # 0 /\ i \in 1 .. Len(slots)
      BY <2>1, <2>3
    <3>2. DOMAIN slots = 1 .. Len(slots)
      BY <1>5, <2>1
    <3>. QED  BY <3>1, <3>2 DEF UsedPlaces, Used
  <2>5. h \in DOMAIN m.headers
    BY <1>5, <2>1, <2>2, <2>4 DEF GroupFiled
  <2>. QED  BY <1>5, <2>1, <2>2, <2>4, <2>5
<1>8. ASSUME i = 0, NEW a \in DOMAIN m.headers, m.headers[a].hash = HashOf[key]
      PROVE  m.headers[a].entry.key # key
  <2>1. m.len # 0
    BY <1>3
  <2>2. I = {}
    <3> HIDE DEF first, I
    <3>. QED  BY <1>1, <1>6, <1>8, <2>1
  <2> HIDE DEF i, h
  <2>3. GroupHolds(m.groups[g], a)
    BY <1>0, <1>8 DEF GroupsFiled
  <2>4. PICK j \in UsedPlaces(slots) : slots[j].header = a
    BY <2>3 DEF GroupHolds
  <2>5. slots[j].mask = HashOf[key].mask /\ j \in 1 .. Len(slots)
    <3> HIDE DEF g
    <3>. QED  BY <1>5, <1>8, <2>1, <2>4 DEF GroupFiled
  <2>. QED  BY <2>2, <2>4, <2>5
<1>. QED  BY <1>7, <1>8

\* A header leaves its group and with it the table.
LEMMA FreedGroups ==
  ASSUME NEW groups, NEW headers, NEW fewer, NEW g \in 1 .. Len(groups),
         GroupsFiled(groups, headers), SameHashes(fewer, headers),
         NEW i \in UsedPlaces(groups[g].slots),
         DOMAIN fewer = DOMAIN headers \ {groups[g].slots[i].header}
  PROVE  LET freed == Freed(groups[g], i)
         IN  /\ GroupsFiled(Replaced(groups, g, freed), fewer)
             /\ Len(Replaced(groups, g, freed)) = Len(groups)
<1> DEFINE freed == Freed(groups[g], i)
           new == Replaced(groups, g, freed)
           h == groups[g].slots[i].header
           n == Len(groups)
<1>1. groups \in Seq(Group) /\ groups[g] \in Group
  BY ElementOfSeq DEF GroupsFiled
<1>2. GroupFiled(groups[g], g, n, headers)
  BY DEF GroupsFiled
<1>3. /\ freed \in Group /\ GroupFiled(freed, g, n, fewer)
      /\ \A x : GroupHolds(freed, x) <=> GroupHolds(groups[g], x) /\ x # h
  BY <1>1, <1>2, FreedGroup
<1>4. h \in DOMAIN headers /\ GroupIndex(headers[h].hash, n) = g
  BY <1>2 DEF GroupFiled
<1> HIDE DEF freed, h
<1>5. /\ new \in Seq(Group) /\ Len(new) = n
      /\ \A x \in 1 .. n : new[x] = IF x = g THEN freed ELSE groups[x]
  BY <1>1, <1>3, ExceptSeq DEF Replaced
<1> HIDE DEF new
<1>6. ASSUME NEW x \in 1 .. n, x # g
      PROVE  GroupFiled(groups[x], x, n, fewer)
  <2>1. GroupFiled(groups[x], x, n, headers)
    BY DEF GroupsFiled
  <2>2. \A j \in UsedPlaces(groups[x].slots) : groups[x].slots[j].header # h
    BY <1>4, <1>6, <2>1 DEF GroupFiled
  <2>. QED  BY <2>1, <2>2 DEF GroupFiled, SameHashes, h
<1>7. \A x \in 1 .. Len(new) : GroupFiled(new[x], x, Len(new), fewer)
  BY <1>3, <1>5, <1>6
<1>8. ASSUME NEW x \in DOMAIN fewer
      PROVE  /\ GroupIndex(fewer[x].hash, n) \in 1 .. n
             /\ GroupHolds(new[GroupIndex(fewer[x].hash, n)], x)
  <2>1. x \in DOMAIN headers /\ x # h /\ fewer[x].hash = headers[x].hash
    BY DEF SameHashes, h
  <2>2. /\ GroupIndex(headers[x].hash, n) \in 1 .. n
        /\ GroupHolds(groups[GroupIndex(headers[x].hash, n)], x)
    BY <2>1 DEF GroupsFiled
  <2>. QED  BY <1>3, <1>5, <2>1, <2>2
<1>9. GroupsFiled(new, fewer)
  BY <1>5, <1>7, <1>8 DEF GroupsFiled
<1>. QED  BY <1>5, <1>9 DEF new, freed

\* Erasing takes the header that was found out of its slot and out of the chain.
LEMMA ErasedSound ==
  ASSUME NEW m, NEW entries, NEW s, Table(m, entries, s), NEW key \in Keys,
         Found(m, key) # 0
  PROVE  LET e == Erased(m, key, Found(m, key))
         IN  /\ e.available = m.available + 1 /\ Len(e.groups) = Len(m.groups)
             /\ e.len = m.len - 1 /\ e.groups # << >>
             /\ \E i \in 1 .. Len(s) :
                  /\ Sound(e, entries, Without(s, i))
                  /\ s[i] = HeaderAt(m, key, Found(m, key))
                  /\ m.headers[s[i]].entry.key = key
                  /\ DOMAIN e.headers = DOMAIN m.headers \ {s[i]}
                  /\ SameHashes(e.headers, m.headers)
                  /\ \A a \in DOMAIN e.headers : e.headers[a].entry = m.headers[a].entry
<1> DEFINE g == GroupIndex(HashOf[key], Len(m.groups))
           i == Found(m, key)
           h == HeaderAt(m, key, i)
           e == Erased(m, key, i)
           u == Unlinked(m, h)
           freed == Freed(m.groups[g], i)
<1>0. /\ TableShape(m) /\ HeadersOK(m.headers, entries) /\ m.len = Len(s)
      /\ GroupsFiled(m.groups, m.headers) /\ Chained(m.headers, m.first, m.last, s)
  BY DEF Sound, Table
<1>1. /\ g \in 1 .. Len(m.groups) /\ i \in UsedPlaces(m.groups[g].slots)
      /\ h = m.groups[g].slots[i].header /\ h \in DOMAIN m.headers
      /\ m.headers[h].entry.key = key
  BY FoundHeader
<1>2. PICK j \in 1 .. Len(s) : s[j] = h
  BY <1>0, <1>1 DEF Chained
<1>3. e = [u EXCEPT !.groups[g] = Freed(@, i), !.len = @ - 1, !.available = @ + 1]
  BY DEF Erased
<1> HIDE DEF e, u, g, i, h
<1>4. /\ TableShape(u) /\ u.groups = m.groups /\ u.available = m.available
      /\ u.len = m.len
      /\ HeadersOK(u.headers, entries)
      /\ DOMAIN u.headers = DOMAIN m.headers \ {s[j]}
      /\ SameHashes(u.headers, m.headers)
      /\ \A a \in DOMAIN u.headers : u.headers[a].entry = m.headers[a].entry
      /\ Chained(u.headers, u.first, u.last, Without(s, j))
  <2> DEFINE v == Unlinked(m, s[j])
  <2>1. /\ TableShape(v) /\ v.groups = m.groups /\ v.available = m.available
        /\ v.len = m.len
        /\ HeadersOK(v.headers, entries)
        /\ DOMAIN v.headers = DOMAIN m.headers \ {s[j]}
        /\ SameHashes(v.headers, m.headers)
        /\ \A a \in DOMAIN v.headers : v.headers[a].entry = m.headers[a].entry
        /\ Chained(v.headers, v.first, v.last, Without(s, j))
    BY <1>0, UnlinkedChained
  <2>2. u = v
    BY <1>2 DEF u
  <2> HIDE DEF v
  <2>. QED  BY <2>1, <2>2
<1>5. m.groups \in Seq(Group) /\ m.groups[g] \in Group
  BY <1>0, <1>1, ElementOfSeq DEF GroupsFiled
<1>6. e = [groups |-> Replaced(m.groups, g, freed), available |-> m.available + 1,
           len |-> m.len - 1, first |-> u.first, last |-> u.last, headers |-> u.headers]
  <2>1. u = [groups |-> m.groups, available |-> m.available, len |-> m.len,
             first |-> u.first, last |-> u.last, headers |-> u.headers]
    BY <1>4 DEF TableShape
  <2> DEFINE groups == Replaced(m.groups, g, freed)
  <2>2. [u EXCEPT !.groups[g] = Freed(@, i)] = [u EXCEPT !.groups = groups]
    BY <1>4 DEF Replaced
  <2>3. e = [[u EXCEPT !.groups[g] = Freed(@, i)] EXCEPT !.len = @ - 1, !.available = @ + 1]
    BY <1>3, <2>1
  <2> HIDE DEF groups
  <2>4. e = [[u EXCEPT !.groups = groups] EXCEPT !.len = @ - 1, !.available = @ + 1]
    BY <2>2, <2>3
  <2> DEFINE v == [groups |-> groups, available |-> m.available, len |-> m.len,
                   first |-> u.first, last |-> u.last, headers |-> u.headers]
  <2>5. [u EXCEPT !.groups = groups] = v
    BY <2>1
  <2>6. v.len = m.len /\ v.available = m.available
    OBVIOUS
  <2>7. e = [v EXCEPT !.len = m.len - 1, !.available = m.available + 1]
    <3> HIDE DEF v
    <3>. QED  BY <2>4, <2>5, <2>6
  <2>8. e = [groups |-> groups, available |-> m.available + 1, len |-> m.len - 1,
             first |-> u.first, last |-> u.last, headers |-> u.headers]
    BY <2>7
  <2>. QED  BY <2>8 DEF groups
<1>7. /\ GroupsFiled(Replaced(m.groups, g, freed), u.headers)
      /\ Len(Replaced(m.groups, g, freed)) = Len(m.groups)
  BY <1>0, <1>1, <1>2, <1>4, FreedGroups, SMTT(30)
<1> HIDE DEF freed
<1>8. /\ e.groups = Replaced(m.groups, g, freed) /\ e.available = m.available + 1
      /\ e.len = m.len - 1 /\ e.first = u.first /\ e.last = u.last /\ e.headers = u.headers
  BY <1>6
<1>9. Sound(e, entries, Without(s, j))
  BY <1>4, <1>6, <1>7, <1>8 DEF Sound, TableShape
<1>10. e.groups # << >>
  <2>1. Len(e.groups) # 0
    BY <1>1, <1>7, <1>8
  <2>. QED  BY <2>1
<1>. QED  BY <1>1, <1>2, <1>4, <1>7, <1>8, <1>9, <1>10 DEF e, i, h

\* A table whose headers are linked, while they are not all filed any more.
LinkedUp(m, entries, s) ==
  /\ TableShape(m)
  /\ HeadersOK(m.headers, entries)
  /\ Chained(m.headers, m.first, m.last, s)

\* All links lead to headers of the table.
LEMMA LinksLead ==
  ASSUME NEW m, NEW entries, NEW s, LinkedUp(m, entries, s)
  PROVE  /\ {m.first, m.last} \subseteq DOMAIN m.headers \cup {NULL}
         /\ {m.first, m.last} \subseteq Addresses
         /\ \A h \in DOMAIN m.headers :
              /\ m.headers[h].before \in DOMAIN m.headers \cup {NULL}
              /\ m.headers[h].after \in DOMAIN m.headers \cup {NULL}
<1>1. /\ HeadersOK(m.headers, entries) /\ Chained(m.headers, m.first, m.last, s)
  BY DEF LinkedUp
<1>2. Len(s) \in Nat /\ s \in [1 .. Len(s) -> DOMAIN m.headers]
  BY <1>1, ChainLength
<1>3. {m.first, m.last} \subseteq DOMAIN m.headers \cup {NULL}
  <2>1. Len(s) # 0 => 1 \in 1 .. Len(s) /\ Len(s) \in 1 .. Len(s)
    BY <1>2
  <2>2. /\ m.first = IF Len(s) = 0 THEN NULL ELSE s[1]
        /\ m.last = IF Len(s) = 0 THEN NULL ELSE s[Len(s)]
    BY <1>1 DEF Chained
  <2>3. Len(s) # 0 => s[1] \in DOMAIN m.headers /\ s[Len(s)] \in DOMAIN m.headers
    BY <1>2, <2>1
  <2>. QED  BY <2>2, <2>3
<1>4. ASSUME NEW h \in DOMAIN m.headers
      PROVE  /\ m.headers[h].before \in DOMAIN m.headers \cup {NULL}
             /\ m.headers[h].after \in DOMAIN m.headers \cup {NULL}
  <2>1. PICK i \in 1 .. Len(s) : s[i] = h
    BY <1>1 DEF Chained
  <2>2. /\ m.headers[h].before = IF i = 1 THEN NULL ELSE s[i - 1]
        /\ m.headers[h].after = IF i = Len(s) THEN NULL ELSE s[i + 1]
    <3>1. \A j \in 1 .. Len(s) :
            /\ m.headers[s[j]].before = IF j = 1 THEN NULL ELSE s[j - 1]
            /\ m.headers[s[j]].after = IF j = Len(s) THEN NULL ELSE s[j + 1]
      BY <1>1 DEF Chained
    <3>. QED  BY <2>1, <3>1
  <2>3. (i # 1 => i - 1 \in 1 .. Len(s)) /\ (i # Len(s) => i + 1 \in 1 .. Len(s))
    <3>1. Len(s) \in Nat
      BY <1>2
    <3>. QED  BY <3>1
  <2>4. /\ i # 1 => s[i - 1] \in DOMAIN m.headers
        /\ i # Len(s) => s[i + 1] \in DOMAIN m.headers
    <3>1. \A j \in 1 .. Len(s) : s[j] \in DOMAIN m.headers
      BY <1>2
    <3>. QED  BY <2>3, <3>1
  <2>. QED  BY <2>2, <2>4
<1>5. DOMAIN m.headers \cup {NULL} \subseteq Addresses
  BY <1>1, SizesAssumption DEF HeadersOK, Addresses, NULL
<1>. QED  BY <1>3, <1>4, <1>5

\* The table that is made first.
LEMMA EmptyTableSound ==
  ASSUME NEW entries, NEW n \in Nat, NEW m, TableShape(m), m.groups = NewGroups(n),
         m.first = NULL, m.last = NULL, m.headers = << >>
  PROVE  Sound(m, entries, << >>) /\ Len(m.groups) = n
<1>1. DOMAIN m.headers = {}
  <2>1. m.headers \in Seq({}) /\ Len(m.headers) = 0
    BY EmptySeq
  <2>. QED  BY <2>1, LenProperties
<1>2. GroupsFiled(m.groups, m.headers) /\ Len(m.groups) = n
  BY <1>1, NewGroupsFiled
<1>3. HeadersOK(m.headers, entries)
  <2>1. << >> \in Seq(Header(entries)) /\ Len(<< >>) = 0
    BY EmptySeq
  <2>2. << >> \in [1 .. 0 -> Header(entries)]
    BY <2>1, LenProperties
  <2>. QED  BY <1>1, <2>2 DEF HeadersOK
<1>4. Chained(m.headers, m.first, m.last, << >>)
  <2>1. << >> \in Seq(DOMAIN m.headers) /\ Len(<< >>) = 0
    BY EmptySeq
  <2>2. 1 .. Len(<< >>) = {}
    BY <2>1
  <2>. QED  BY <1>1, <2>1, <2>2 DEF Chained
<1>. QED  BY <1>2, <1>3, <1>4 DEF Sound

\* A table that was just initialised.
LEMMA EmptyTableIsTable ==
  ASSUME NEW entries
  PROVE  Table(EmptyTable, entries, << >>)
<1>1. /\ TableShape(EmptyTable) /\ EmptyTable.groups = << >>
      /\ EmptyTable.first = NULL /\ EmptyTable.last = NULL
      /\ EmptyTable.headers = << >> /\ EmptyTable.len = 0
  BY DEF EmptyTable, TableShape
<1>2. << >> = NewGroups(0)
  <2>1. << >> \in [1 .. 0 -> {NewGroup}]
    <3>1. << >> \in Seq({NewGroup}) /\ Len(<< >>) = 0
      BY EmptySeq
    <3>. QED  BY <3>1, LenProperties
  <2>2. NewGroups(0) \in [1 .. 0 -> {NewGroup}]
    BY DEF NewGroups
  <2>. QED  BY <2>1, <2>2
<1> HIDE DEF EmptyTable
<1>3. Sound(EmptyTable, entries, << >>)
  BY <1>1, <1>2, EmptyTableSound
<1>4. Len(<< >>) = 0
  BY EmptySeq
<1>. QED  BY <1>1, <1>3, <1>4 DEF Table

\* What the iterators give: the entries in the order of the links.
Along(m, s) == [i \in 1 .. Len(s) |-> m.headers[s[i]].entry]

\* Iterating a table gives its headers and entries in the order of its links.
LEMMA IteratedTable ==
  ASSUME NEW m, NEW entries, NEW s, Sound(m, entries, s)
  PROVE  /\ Len(s) \in Nat /\ Len(s) <= MaxHeaders
         /\ Iterated(m, TRUE) = s /\ Iterated(m, FALSE) = Reverse(s)
         /\ EntriesOf(m, TRUE) = Along(m, s) /\ EntriesOf(m, TRUE) \in Seq(entries)
         /\ Len(EntriesOf(m, TRUE)) = Len(s)
<1>1. /\ HeadersOK(m.headers, entries) /\ Chained(m.headers, m.first, m.last, s)
      /\ DOMAIN m.headers \subseteq 1 .. MaxHeaders
  BY DEF Sound, HeadersOK
<1>2. Len(s) \in Nat /\ s \in [1 .. Len(s) -> DOMAIN m.headers]
  BY <1>1, ChainLength
<1>3. Iterated(m, TRUE) = Way(s, TRUE) /\ Len(s) <= MaxHeaders
  BY <1>1, IteratedOnWay
<1>4. Iterated(m, FALSE) = Way(s, FALSE)
  BY <1>1, IteratedOnWay
<1>5. Way(s, TRUE) = s /\ Way(s, FALSE) = Reverse(s)
  BY DEF Way
<1>6. EntriesOf(m, TRUE) = Along(m, s)
  BY <1>2, <1>3, <1>5 DEF EntriesOf, Along
<1>7. Along(m, s) \in [1 .. Len(s) -> entries]
  BY <1>1, <1>2 DEF Along, HeadersOK, Header
<1>8. Along(m, s) \in Seq(entries) /\ Len(Along(m, s)) = Len(s)
  BY <1>2, <1>7
<1>. QED  BY <1>2, <1>3, <1>4, <1>5, <1>6, <1>8

\* A table is a good one.
LEMMA TableIsGood ==
  ASSUME NEW m, NEW entries, NEW s, Table(m, entries, s)
  PROVE  HeadersFiled(m) /\ IterationsAgree(m)
<1>1. /\ Sound(m, entries, s) /\ m.len = Len(s) /\ GroupsFiled(m.groups, m.headers)
      /\ Chained(m.headers, m.first, m.last, s)
  BY DEF Table, Sound
<1>2. Len(s) \in Nat /\ s \in [1 .. Len(s) -> DOMAIN m.headers] /\ m.len = Cardinality(DOMAIN m.headers)
  BY <1>1, ChainLength
<1>3. HeadersFiled(m)
  <2>1. DOMAIN m.groups = 1 .. Len(m.groups)
    BY <1>1 DEF GroupsFiled
  <2>. QED  BY <1>1, <1>2, <2>1 DEF HeadersFiled, GroupsFiled, GroupHolds
<1>4. IterationsAgree(m)
  <2>1. Iterated(m, TRUE) = s /\ Iterated(m, FALSE) = Reverse(s)
    BY <1>1, IteratedTable
  <2>2. ToSet(s) = DOMAIN m.headers
    BY <1>1, <1>2 DEF ToSet, Chained
  <2>. QED  BY <1>1, <2>1, <2>2 DEF IterationsAgree
<1>. QED  BY <1>3, <1>4

\* The clone c of m after k turns: it has the first k of the entries, in order,
\* all with the same hash.
Copied(c, m, entries, all, hash, k, a) ==
  /\ c.groups # << >> /\ Len(c.groups) = Len(m.groups)
  /\ c.len = m.len /\ c.available = a
  /\ \E t : /\ Sound(c, entries, t) /\ Len(t) = k
            /\ \A i \in 1 .. k : /\ c.headers[t[i]].entry = all[i]
                                 /\ c.headers[t[i]].hash = hash

\* One turn copies one entry.
LEMMA CopiedNext ==
  ASSUME NEW c, NEW m, NEW entries, NEW all \in Seq(entries), NEW hash \in Range(HashOf),
         Len(all) <= MaxHeaders, NEW k \in 1 .. Len(all), NEW a,
         Copied(c, m, entries, all, hash, k - 1, a)
  PROVE  Copied(GroupInserted(c, all[k], hash), m, entries, all, hash, k, a)
<1> DEFINE d == GroupInserted(c, all[k], hash)
<1>1. /\ c.groups # << >> /\ Len(c.groups) = Len(m.groups)
      /\ c.len = m.len /\ c.available = a
  BY DEF Copied
<1>2. PICK t : /\ Sound(c, entries, t) /\ Len(t) = k - 1
               /\ \A i \in 1 .. k - 1 : /\ c.headers[t[i]].entry = all[i]
                                        /\ c.headers[t[i]].hash = hash
  BY DEF Copied
<1>3. k \in Nat /\ k - 1 < MaxHeaders /\ all[k] \in entries
  <2>1. Len(all) \in Nat
    OBVIOUS
  <2>2. all[k] \in entries
    BY ElementOfSeq
  <2>. QED  BY <2>1, <2>2, SizesAssumption
<1>4. /\ d.available = c.available /\ d.len = c.len
      /\ Len(d.groups) = Len(c.groups) /\ d.groups # << >>
      /\ \E h : Sound(d, entries, Append(t, h)) /\ Extends(d, c, h, all[k], hash)
  BY <1>1, <1>2, <1>3, GroupInsertedExtends
<1> HIDE DEF d
<1>5. PICK h : Sound(d, entries, Append(t, h)) /\ Extends(d, c, h, all[k], hash)
  BY <1>4
<1> DEFINE u == Append(t, h)
<1>6. t \in Seq(DOMAIN c.headers)
  BY <1>2 DEF Sound, Chained
<1>7. Len(u) = k /\ u[k] = h /\ \A i \in 1 .. k - 1 : u[i] = t[i] /\ t[i] \in DOMAIN c.headers
  <2>1. t \in Seq(DOMAIN c.headers \cup {h})
    BY <1>6
  <2>2. Len(u) = Len(t) + 1 /\ u[Len(t) + 1] = h /\ \A i \in 1 .. Len(t) : u[i] = t[i]
    BY <2>1, AppendProperties
  <2>3. \A i \in 1 .. Len(t) : t[i] \in DOMAIN c.headers
    BY <1>6, ElementOfSeq
  <2> HIDE DEF u
  <2>. QED  BY <1>2, <1>3, <2>2, <2>3
<1>8. ASSUME NEW i \in 1 .. k
      PROVE  d.headers[u[i]].entry = all[i] /\ d.headers[u[i]].hash = hash
  <2> HIDE DEF u
  <2>1. CASE i = k
    BY <1>5, <1>7, <2>1 DEF Extends
  <2>2. CASE i # k
    <3>1. i \in 1 .. k - 1
      BY <1>3, <2>2
    <3>2. u[i] = t[i] /\ t[i] \in DOMAIN c.headers
      BY <1>7, <3>1
    <3>3. c.headers[t[i]].entry = all[i] /\ c.headers[t[i]].hash = hash
      BY <1>2, <3>1
    <3>. QED  BY <1>5, <3>2, <3>3 DEF Extends, SameHashes
  <2>. QED  BY <2>1, <2>2
<1> HIDE DEF u
<1>9. Sound(d, entries, u)
  BY <1>5 DEF u
<1>. QED  BY <1>1, <1>4, <1>7, <1>8, <1>9 DEF Copied, d

\* The tables with the length l and a available entries.
Tables(entries, l, a) ==
  [groups : Seq(Group), available : {a}, len : {l}, first : Addresses, last : Addresses,
   headers : UNION {[D -> Header(entries)] : D \in SUBSET (1 .. MaxHeaders)}]

\* A table is one of them.
LEMMA LinkedIsTable ==
  ASSUME NEW m, NEW entries, NEW s, LinkedUp(m, entries, s), m.groups \in Seq(Group)
  PROVE  m \in Tables(entries, m.len, m.available)
<1>1. m.first \in Addresses /\ m.last \in Addresses
  BY LinksLead
<1>2. m.headers \in UNION {[D -> Header(entries)] : D \in SUBSET (1 .. MaxHeaders)}
  <2>1. /\ DOMAIN m.headers \in SUBSET (1 .. MaxHeaders)
        /\ m.headers \in [DOMAIN m.headers -> Header(entries)]
    BY DEF LinkedUp, HeadersOK
  <2>. QED  BY <2>1
<1>3. TableShape(m)
  BY DEF LinkedUp
<1>. QED  BY <1>1, <1>2, <1>3 DEF Tables, TableShape

\* A clone has the entries of the table in their order.
LEMMA ClonedSound ==
  ASSUME NEW m, NEW entries, NEW s, Table(m, entries, s), Len(s) # 0
  PROVE  LET c == Cloned(m)
         IN  Copied(c, m, entries, EntriesOf(m, TRUE), m.headers[m.first].hash, Len(s),
                    (LoadFactor(Len(m.groups)) - m.len) % SizeT)
<1> DEFINE all == EntriesOf(m, TRUE)
           hash == m.headers[m.first].hash
           k == Len(all)
           n == Len(m.groups)
           a == (LoadFactor(n) - m.len) % SizeT
           fresh == [EmptyTable EXCEPT !.groups = NewGroups(n), !.len = m.len, !.available = a]
           Good(c, i) == Copied(c, m, entries, all, hash, i, a)
           X == Tables(entries, m.len, a)
           Next(c, i) == GroupInserted(c, all[i], hash)
           Y == [i \in 0 .. k |-> {c \in X : Good(c, i)}]
           step == [x \in X \X (1 .. k) |-> Next(x[1], x[2])]
           Solves(f) == f = [i \in 0 .. k |-> IF i = 0 THEN fresh ELSE Next(f[i - 1], i)]
<1>0. /\ Sound(m, entries, s) /\ m.len = Len(s) /\ GroupsFiled(m.groups, m.headers)
      /\ HeadersOK(m.headers, entries) /\ Chained(m.headers, m.first, m.last, s)
      /\ Len(s) \in Nat
  <2>1. Sound(m, entries, s) /\ m.len = Len(s)
    BY DEF Table
  <2>. QED  BY <2>1, IteratedTable DEF Sound
<1>a. all \in Seq(entries) /\ Len(all) = Len(s) /\ Len(all) <= MaxHeaders
  BY <1>0, IteratedTable
<1> HIDE DEF all
<1>1. k \in Nat
  BY <1>0, <1>a
<1>b. m.first \in DOMAIN m.headers /\ hash \in Range(HashOf)
  <2>1. 1 \in 1 .. Len(s)
    BY <1>0
  <2>2. s[1] \in DOMAIN m.headers /\ m.first = s[1]
    BY <1>0, <2>1, ElementOfSeq DEF Chained
  <2>. QED  BY <1>0, <2>2 DEF HeadersOK, Header
<1> HIDE DEF hash
<1>c. n \in Nat \ {0}
  <2>1. m.groups \in Seq(Group)
    BY <1>0 DEF GroupsFiled
  <2>2. Len(m.groups) # 0
    <3>1. GroupIndex(hash, Len(m.groups)) \in 1 .. Len(m.groups)
      BY <1>0, <1>b DEF GroupsFiled, hash
    <3>. QED  BY <3>1
  <2>. QED  BY <2>1, <2>2
<1> HIDE DEF a
<1>d. ASSUME NEW c, NEW i, Good(c, i)
      PROVE  c \in X
  <2>1. PICK t : Sound(c, entries, t)
    BY <1>d DEF Copied
  <2>2. LinkedUp(c, entries, t) /\ c.groups \in Seq(Group)
    BY <2>1 DEF Sound, LinkedUp, GroupsFiled
  <2>. QED  BY <1>d, <2>2, LinkedIsTable DEF Copied
<1>2. Good(fresh, 0)
  <2>1. fresh = [groups |-> NewGroups(n), available |-> a, len |-> m.len,
                 first |-> NULL, last |-> NULL, headers |-> << >>]
    <3> DEFINE groups == NewGroups(n)
               l == m.len
    <3>1. ASSUME NEW f, f = [EmptyTable EXCEPT !.groups = groups, !.len = l, !.available = a]
          PROVE  f = [groups |-> groups, available |-> a, len |-> l,
                      first |-> NULL, last |-> NULL, headers |-> << >>]
      <4> HIDE DEF groups, l
      <4>. QED  BY <3>1 DEF EmptyTable
    <3>2. fresh = [EmptyTable EXCEPT !.groups = groups, !.len = l, !.available = a]
      OBVIOUS
    <3> HIDE DEF fresh, groups, l
    <3>3. fresh = [groups |-> groups, available |-> a, len |-> l,
                   first |-> NULL, last |-> NULL, headers |-> << >>]
      BY <3>1, <3>2
    <3>. QED  BY <3>3 DEF groups, l
  <2> HIDE DEF fresh, n
  <2>2. TableShape(fresh)
    BY <2>1 DEF TableShape
  <2>3. Sound(fresh, entries, << >>) /\ Len(fresh.groups) = n
    BY <1>c, <2>1, <2>2, EmptyTableSound
  <2>4. fresh.groups # << >> /\ Len(<< >>) = 0
    BY <1>c, <2>3, EmptySeq
  <2>5. 1 .. 0 = {}
    OBVIOUS
  <2>. QED  BY <2>1, <2>3, <2>4, <2>5 DEF Copied, n
<1>3. fresh \in Y[0]
  <2>1. 0 \in 0 .. k
    BY <1>1
  <2> HIDE DEF fresh, X, Good
  <2>. QED  BY <1>2, <1>d, <2>1
<1>4. ASSUME NEW i \in 1 .. k, NEW c \in Y[i - 1]
      PROVE  Next(c, i) \in Y[i] /\ c \in X
  <2>1. i - 1 \in 0 .. k /\ i \in 0 .. k
    BY <1>1
  <2>2. c \in X /\ Good(c, i - 1)
    <3> HIDE DEF Good, X
    <3>. QED  BY <2>1
  <2>3. Good(Next(c, i), i)
    BY <1>a, <1>b, <2>2, CopiedNext
  <2> HIDE DEF Next, k, Good, X
  <2>. QED  BY <1>d, <2>1, <2>2, <2>3
<1> HIDE DEF fresh, X, Good
<1>5. \E f : Solves(f)
  <2>1. \A i \in 1 .. k : \A c \in Y[i - 1] : step[<<c, i>>] = Next(c, i)
    <3> HIDE DEF Y, Next
    <3>. QED  BY <1>4
  <2>2. \A i \in 1 .. k : \A c \in Y[i - 1] : step[<<c, i>>] \in Y[i]
    <3> HIDE DEF Y, Next, step
    <3>. QED  BY <1>4, <2>1
  <2>3. \A i \in 0 .. k : Y[i] \subseteq X
    OBVIOUS
  <2>4. PICK f \in [0 .. k -> X] :
          /\ f[0] = fresh /\ \A i \in 1 .. k : f[i] = step[<<f[i - 1], i>>]
          /\ \A i \in 0 .. k : f[i] \in Y[i]
    <3> HIDE DEF Y, step, k
    <3>1. StaysWithin(k, X, Y, fresh, step)
      BY <1>1, <1>3, <2>2, <2>3 DEF StaysWithin
    <3>. QED  BY <3>1, Recursion
  <2>5. \A i \in 0 .. k : f[i] = IF i = 0 THEN fresh ELSE Next(f[i - 1], i)
    <3> HIDE DEF Y, Next, step
    <3>1. \A i \in 0 .. k : i # 0 => i \in 1 .. k /\ i - 1 \in 0 .. k
      BY <1>1
    <3>. QED  BY <2>1, <2>4, <3>1
  <2>6. f = [i \in 0 .. k |-> f[i]]
    OBVIOUS
  <2>7. [i \in 0 .. k |-> f[i]] = [i \in 0 .. k |-> IF i = 0 THEN fresh ELSE Next(f[i - 1], i)]
    <3> HIDE DEF Next
    <3>. QED  BY <2>5
  <2>. QED  BY <2>6, <2>7
<1> DEFINE loop == CHOOSE f : Solves(f)
<1>6. Solves(loop)
  <2> HIDE DEF Solves
  <2>. QED  BY <1>5
<1>7. Cloned(m) = loop[k]
  BY <1>0 DEF Cloned, all, hash, fresh, a
<1> HIDE DEF loop
<1>8. loop[0] = fresh /\ \A i \in 1 .. k : loop[i] = Next(loop[i - 1], i)
  <2>1. \A i \in 0 .. k : loop[i] = IF i = 0 THEN fresh ELSE Next(loop[i - 1], i)
    <3> HIDE DEF Next
    <3>. QED  BY <1>6
  <2>2. 0 \in 0 .. k /\ \A i \in 1 .. k : i \in 0 .. k /\ i # 0
    BY <1>1
  <2> HIDE DEF Next
  <2>. QED  BY <2>1, <2>2
<1>9. \A i \in 0 .. k : loop[i] \in Y[i]
  <2> HIDE DEF Y, Next, k
  <2>1. Inductive(k, Y, loop)
    BY <1>1, <1>3, <1>4, <1>8 DEF Inductive
  <2>. QED  BY <2>1, InductionUpTo

<1>10. loop[k] \in Y[k] /\ k \in 0 .. k
  <2> HIDE DEF Y, k
  <2>. QED  BY <1>1, <1>9
<1>11. Good(Cloned(m), k)
  <2> HIDE DEF k
  <2>. QED  BY <1>7, <1>10
<1>. QED  BY <1>11, <1>a DEF Good, all, hash, a

\* A clone is equal to the table.
LEMMA ClonedEqual ==
  ASSUME NEW m, NEW entries, NEW s, Table(m, entries, s)
  PROVE  LET c == Cloned(m)
         IN  /\ \E t : /\ Table(c, entries, t) /\ Len(t) = Len(s)
                       /\ \A i \in 1 .. Len(t) :
                            c.headers[t[i]].hash = m.headers[m.first].hash
             /\ EntriesOf(c, TRUE) = EntriesOf(m, TRUE)
             /\ Eql(m, c)
<1> DEFINE c == Cloned(m)
           all == EntriesOf(m, TRUE)
<1>1. /\ Sound(m, entries, s) /\ m.len = Len(s) /\ Len(s) \in Nat
      /\ all \in Seq(entries) /\ Len(all) = Len(s)
  <2>1. Sound(m, entries, s) /\ m.len = Len(s)
    BY DEF Table
  <2>. QED  BY <2>1, IteratedTable
<1>2. CASE Len(s) = 0
  <2>1. c = EmptyTable /\ EmptyTable.len = 0
    BY <1>1, <1>2 DEF Cloned, EmptyTable
  <2>2. Table(c, entries, << >>) /\ Len(<< >>) = 0
    BY <2>1, EmptyTableIsTable, EmptySeq
  <2>3. /\ EntriesOf(c, TRUE) \in Seq(entries) /\ Len(EntriesOf(c, TRUE)) = 0
    <3>1. Sound(c, entries, << >>)
      BY <2>2 DEF Table
    <3> HIDE DEF c
    <3>. QED  BY <2>2, <3>1, IteratedTable
  <2>4. EntriesOf(c, TRUE) = all
    <3> DEFINE x == EntriesOf(c, TRUE)
    <3> HIDE DEF all, x
    <3>1. x \in Seq(entries) /\ Len(x) = 0
      BY <2>3 DEF x
    <3>2. x = << >> /\ all = << >>
      BY <1>1, <1>2, <3>1, EmptySeq
    <3>. QED  BY <3>2 DEF x
  <2>5. \A i \in 1 .. Len(<< >>) : FALSE
    BY <2>2
  <2>6. c.len = m.len
    BY <1>1, <1>2, <2>1
  <2> HIDE DEF c, all
  <2>. QED  BY <1>2, <2>2, <2>4, <2>5, <2>6 DEF Eql, c, all
<1>3. CASE Len(s) # 0
  <2> DEFINE hash == m.headers[m.first].hash
             a == (LoadFactor(Len(m.groups)) - m.len) % SizeT
  <2>1. Copied(c, m, entries, all, hash, Len(s), a)
    BY <1>3, ClonedSound
  <2> HIDE DEF c, all, hash, a
  <2>2. c.len = m.len
    BY <2>1 DEF Copied
  <2>3. PICK t : /\ Sound(c, entries, t) /\ Len(t) = Len(s)
                 /\ \A i \in 1 .. Len(s) : /\ c.headers[t[i]].entry = all[i]
                                           /\ c.headers[t[i]].hash = hash
    BY <2>1 DEF Copied
  <2>4. Table(c, entries, t)
    BY <1>1, <2>2, <2>3 DEF Table
  <2>5. EntriesOf(c, TRUE) = all
    <3>1. EntriesOf(c, TRUE) = [i \in 1 .. Len(s) |-> c.headers[t[i]].entry]
      <4>1. EntriesOf(c, TRUE) = Along(c, t)
        BY <2>3, IteratedTable
      <4>2. Along(c, t) = [i \in 1 .. Len(s) |-> c.headers[t[i]].entry]
        BY <2>3 DEF Along
      <4>. QED  BY <4>1, <4>2
    <3>2. [i \in 1 .. Len(s) |-> c.headers[t[i]].entry] = [i \in 1 .. Len(s) |-> all[i]]
      BY <2>3
    <3>3. all = [i \in 1 .. Len(all) |-> all[i]]
      BY <1>1, LenProperties
    <3>. QED  BY <1>1, <3>1, <3>2, <3>3
  <2>. QED  BY <2>2, <2>3, <2>4, <2>5 DEF Eql, c, all, hash
<1>. QED  BY <1>1, <1>2, <1>3

\* A clone links its entries as the table does.
LEMMA ClonedAlong ==
  ASSUME NEW m, NEW entries, NEW s, Table(m, entries, s)
  PROVE  \E t : /\ Table(Cloned(m), entries, t) /\ Len(t) = Len(s)
                /\ Along(Cloned(m), t) = Along(m, s)
<1> DEFINE c == Cloned(m)
<1>1. /\ \E t : /\ Table(c, entries, t) /\ Len(t) = Len(s)
                /\ \A i \in 1 .. Len(t) : c.headers[t[i]].hash = m.headers[m.first].hash
      /\ EntriesOf(c, TRUE) = EntriesOf(m, TRUE)
      /\ Eql(m, c)
  BY ClonedEqual
<1> HIDE DEF c
<1>2. PICK t : Table(c, entries, t) /\ Len(t) = Len(s)
  BY <1>1
<1>3. Sound(c, entries, t) /\ Sound(m, entries, s)
  BY <1>2 DEF Table
<1>4. EntriesOf(c, TRUE) = Along(c, t)
  BY <1>3, IteratedTable
<1>5. EntriesOf(m, TRUE) = Along(m, s)
  BY <1>3, IteratedTable
<1>. QED  BY <1>1, <1>2, <1>4, <1>5 DEF c

\* The headers have the hashes of their keys.
Keyed(m) == \A h \in DOMAIN m.headers : m.headers[h].hash = HashOf[m.headers[h].entry.key]

\* Then find finds the keys of the table.
LEMMA KeyedTableFinds ==
  ASSUME NEW m, NEW entries, NEW s, Table(m, entries, s), Keyed(m)
  PROVE  FindsKeys(m)
<1>. SUFFICES ASSUME NEW key \in Keys
              PROVE  IF Found(m, key) = 0
                     THEN \A h \in DOMAIN m.headers : m.headers[h].entry.key # key
                     ELSE m.headers[HeaderAt(m, key, Found(m, key))].entry.key = key
  BY DEF FindsKeys
<1>1. Found(m, key) # 0 => m.headers[HeaderAt(m, key, Found(m, key))].entry.key = key
  BY FoundHeader
<1>2. Found(m, key) = 0 =>
        \A h \in DOMAIN m.headers :
          m.headers[h].hash = HashOf[key] => m.headers[h].entry.key # key
  BY FoundHeader
<1>. QED  BY <1>1, <1>2 DEF Keyed

\* The count of available entries: with those of the table, it is not below the load
\* factor, and above it by as many as there were when the groups doubled at most.
Roomy(m) ==
  LET load == LoadFactor(Len(m.groups))
  IN  /\ m.available \in Nat
      /\ m.groups = << >> => m.available = 0 /\ m.len = 0
      /\ m.groups # << >> =>
           /\ load \in Nat /\ load <= GroupSize + 2 * MaxHeaders + 1
           /\ load <= m.available + m.len
           /\ m.available + m.len <= load + MaxHeaders

\* The load factors of the groups.
LEMMA LoadFactors ==
  /\ LoadFactor(1) \in 1 .. GroupSize
  /\ \A n \in Nat \ {0} :
       /\ LoadFactor(n) \in Nat \ {0}
       /\ LoadFactor(2 * n) <= 2 * LoadFactor(n) + 1
<1>1. GroupSize \in Nat /\ GroupSize >= 2
  BY SizesAssumption
<1>2. LoadFactor(1) \in 1 .. GroupSize
  <2> DEFINE a == GroupSize * 1 * 4
  <2>1. a = 4 * GroupSize
    BY <1>1
  <2>. QED  BY <1>1, <2>1 DEF LoadFactor
<1>3. ASSUME NEW n \in Nat \ {0}
      PROVE  LoadFactor(n) \in Nat \ {0} /\ LoadFactor(2 * n) <= 2 * LoadFactor(n) + 1
  <2> DEFINE a == GroupSize * n
  <2>1. a \in Nat /\ a >= 2
    <3>1. GroupSize * n \in Nat
      BY <1>1
    <3>2. GroupSize * n >= GroupSize
      BY <1>1
    <3>. QED  BY <1>1, <3>1, <3>2
  <2>2. GroupSize * (2 * n) = 2 * a
    BY <1>1
  <2>3. LoadFactor(n) = (a * 4) \div 5 /\ LoadFactor(2 * n) = (GroupSize * (2 * n) * 4) \div 5
    BY DEF LoadFactor
  <2> HIDE DEF a
  <2>4. LoadFactor(2 * n) = (2 * a * 4) \div 5
    BY <2>2, <2>3
  <2>. QED  BY <2>1, <2>3, <2>4
<1>. QED  BY <1>2, <1>3

\* Making room leaves an entry available.
LEMMA EnsuredRoomy ==
  ASSUME NEW m, NEW entries, NEW s, Table(m, entries, s), Roomy(m)
  PROVE  Roomy(Ensured(m)) /\ Ensured(m).available # 0
<1> DEFINE e == Ensured(m)
           l == m.len
<1>1. /\ TableShape(m) /\ l \in Nat /\ l <= MaxHeaders /\ m.groups \in Seq(Group)
      /\ GroupsFiled(m.groups, m.headers)
  <2>1. Sound(m, entries, s) /\ m.len = Len(s)
    BY DEF Table
  <2>. QED  BY <2>1, IteratedTable DEF Sound, GroupsFiled
<1>2. /\ Sound(e, entries, s) /\ e.len = l /\ e.groups # << >>
  BY EnsuredSound DEF Table
<1>3. GroupSize \in Nat /\ MaxHeaders \in Nat
  BY SizesAssumption
<1>4. CASE m.groups = << >>
  <2>1. e.groups = NewGroups(1) /\ e.available = LoadFactor(1)
    BY <1>1, <1>4 DEF Ensured, TableShape
  <2>2. Len(NewGroups(1)) = 1
    BY EmptyTableSound DEF NewGroups
  <2>3. l = 0
    BY <1>4 DEF Roomy
  <2> DEFINE load == LoadFactor(1)
  <2>4. load \in Nat \ {0} /\ load <= GroupSize
    BY <1>3, LoadFactors
  <2>5. LoadFactor(Len(e.groups)) = load /\ e.available = load /\ e.len = 0 /\ e.groups # << >>
    BY <1>2, <2>1, <2>2, <2>3
  <2> HIDE DEF e, l, load
  <2>. QED  BY <1>3, <2>4, <2>5 DEF Roomy, e
<1>5. CASE m.groups # << >> /\ m.available # 0
  BY <1>5 DEF Ensured
<1>6. CASE m.groups # << >> /\ m.available = 0
  <2> DEFINE n == Len(m.groups)
  <2>1. n \in Nat \ {0} /\ 2 * n \in Nat \ {0}
    BY <1>1, <1>6, EmptySeq
  <2>2. e.groups = Dealt(m, 2 * n) /\ e.available = LoadFactor(2 * n)
    BY <1>1, <1>6 DEF Ensured, TableShape
  <2>3. Len(e.groups) = 2 * n
    <3>1. HaveHashes(m.headers) /\ m.headers = [h \in DOMAIN m.headers |-> m.headers[h]]
      <4>1. HeadersOK(m.headers, entries)
        BY DEF Table, Sound
      <4>. QED  BY <4>1, HeadersHaveHashes DEF HeadersOK
    <3> HIDE DEF n
    <3>2. GroupsFiled(Dealt(m, 2 * n), m.headers) /\ Len(Dealt(m, 2 * n)) = 2 * n
      BY <1>1, <1>6, <2>1, <3>1, DealtFiled
    <3>. QED  BY <2>2, <3>2
  <2>4. LoadFactor(n) <= l
    <3>1. LoadFactor(n) <= m.available + l
      BY <1>6 DEF Roomy
    <3> HIDE DEF l, n
    <3>2. m.available + l = l
      BY <1>1, <1>6
    <3>. QED  BY <3>1, <3>2
  <2>5. LoadFactor(2 * n) \in Nat \ {0} /\ LoadFactor(2 * n) <= 2 * LoadFactor(n) + 1 /\ LoadFactor(n) \in Nat
    <3> HIDE DEF n
    <3>. QED  BY <2>1, LoadFactors
  <2> HIDE DEF e, l, n
  <2>. QED  BY <1>1, <1>2, <1>3, <2>2, <2>3, <2>4, <2>5 DEF Roomy, e
<1>. QED  BY <1>4, <1>5, <1>6

\* The length of a sequence without one of its elements.
LEMMA WithoutOne ==
  ASSUME NEW S, NEW s \in Seq(S), NEW i \in 1 .. Len(s)
  PROVE  Without(s, i) \in Seq(S) /\ Len(Without(s, i)) = Len(s) - 1
<1>1. Len(s) - 1 \in Nat /\ s \in [1 .. Len(s) -> S] /\ i \in Nat /\ Len(s) \in Nat
  BY LenProperties
<1>2. \A j \in 1 .. Len(s) - 1 : j \in 1 .. Len(s) /\ j + 1 \in 1 .. Len(s)
  <2>1. Len(s) \in Nat
    BY <1>1
  <2>. QED  BY <2>1
<1>3. Without(s, i) \in [1 .. Len(s) - 1 -> S]
  BY <1>1, <1>2 DEF Without
<1> DEFINE k == Len(s) - 1
           t == Without(s, i)
<1>4. k \in Nat /\ t \in [1 .. k -> S]
  BY <1>1, <1>3
<1> HIDE DEF k, t
<1>5. t \in Seq(S) /\ Len(t) = k
  BY <1>4
<1>. QED  BY <1>5 DEF k, t

\* A table stays one when an entry is inserted.
LEMMA InsertedTable ==
  ASSUME NEW m, NEW entries, NEW s, Table(m, entries, s), m.len < MaxHeaders,
         NEW entry \in entries, entry.key \in Keys
  PROVE  LET c == Inserted(m, entry)
         IN  /\ \E h : /\ Table(c, entries, Append(s, h))
                       /\ Extends(c, m, h, entry, HashOf[entry.key])
             /\ Keyed(m) => Keyed(c)
             /\ Roomy(m) => Roomy(c)
<1> DEFINE c == Inserted(m, entry)
           e == Ensured(m)
<1>1. Sound(m, entries, s) /\ m.len = Len(s) /\ Len(s) \in Nat /\ Len(s) < MaxHeaders
  <2>1. Sound(m, entries, s) /\ m.len = Len(s)
    BY DEF Table
  <2>. QED  BY <2>1, IteratedTable
<1>2. /\ c.len = m.len + 1 /\ c.groups # << >>
      /\ c.available = e.available - 1 /\ Len(c.groups) = Len(e.groups)
      /\ \E h : /\ Sound(c, entries, Append(s, h))
                /\ Extends(c, m, h, entry, HashOf[entry.key])
  BY <1>1, InsertedSound
<1>3. /\ Sound(e, entries, s) /\ e.len = m.len /\ e.groups # << >>
  BY <1>1, EnsuredSound
<1>4. PICK h : /\ Sound(c, entries, Append(s, h))
               /\ Extends(c, m, h, entry, HashOf[entry.key])
  BY <1>2
<1>5. Table(c, entries, Append(s, h))
  <2>1. s \in Seq(DOMAIN m.headers \cup {h})
    BY <1>1 DEF Sound, Chained
  <2>2. Len(Append(s, h)) = Len(s) + 1
    BY <2>1, AppendProperties
  <2> HIDE DEF c
  <2>. QED  BY <1>1, <1>2, <1>4, <2>2 DEF Table
<1> HIDE DEF c
<1>6. Keyed(m) => Keyed(c)
  BY <1>4 DEF Keyed, Extends, SameHashes
<1>7. Roomy(m) => Roomy(c)
  <2>. SUFFICES ASSUME Roomy(m)
                PROVE  Roomy(c)
    OBVIOUS
  <2>1. Roomy(e) /\ e.available # 0
    BY EnsuredRoomy
  <2> HIDE DEF e
  <2> DEFINE load == LoadFactor(Len(e.groups))
  <2>2. /\ e.available \in Nat /\ load \in Nat /\ load <= GroupSize + 2 * MaxHeaders + 1
        /\ load <= e.available + e.len /\ e.available + e.len <= load + MaxHeaders
    BY <1>3, <2>1 DEF Roomy
  <2>3. c.available + c.len = e.available + e.len /\ c.available \in Nat
    BY <1>1, <1>2, <1>3, <2>1, <2>2, SMTT(30)
  <2>4. LoadFactor(Len(c.groups)) = load
    BY <1>2
  <2> HIDE DEF load
  <2>. QED  BY <1>2, <2>2, <2>3, <2>4 DEF Roomy
<1>. QED  BY <1>4, <1>5, <1>6, <1>7 DEF c

\* What an erase keeps: all headers but the i-th.
Loses(e, m, s, i) ==
  /\ DOMAIN e.headers = DOMAIN m.headers \ {s[i]}
  /\ SameHashes(e.headers, m.headers)
  /\ \A a \in DOMAIN e.headers : e.headers[a].entry = m.headers[a].entry

\* A table stays one when an entry is erased.
LEMMA ErasedTable ==
  ASSUME NEW m, NEW entries, NEW s, Table(m, entries, s), NEW key \in Keys,
         Found(m, key) # 0
  PROVE  LET e == Erased(m, key, Found(m, key))
         IN  /\ \E i \in 1 .. Len(s) :
                  /\ Table(e, entries, Without(s, i))
                  /\ s[i] = HeaderAt(m, key, Found(m, key))
                  /\ m.headers[s[i]].entry.key = key
                  /\ Loses(e, m, s, i)
             /\ Keyed(m) => Keyed(e)
             /\ Roomy(m) => Roomy(e)
<1> DEFINE e == Erased(m, key, Found(m, key))
<1>1. Sound(m, entries, s) /\ m.len = Len(s) /\ Len(s) \in Nat
  <2>1. Sound(m, entries, s) /\ m.len = Len(s)
    BY DEF Table
  <2>. QED  BY <2>1, IteratedTable
<1>2. /\ e.available = m.available + 1 /\ Len(e.groups) = Len(m.groups)
      /\ e.len = m.len - 1 /\ e.groups # << >>
      /\ \E i \in 1 .. Len(s) :
           /\ Sound(e, entries, Without(s, i))
           /\ s[i] = HeaderAt(m, key, Found(m, key))
           /\ m.headers[s[i]].entry.key = key
           /\ DOMAIN e.headers = DOMAIN m.headers \ {s[i]}
           /\ SameHashes(e.headers, m.headers)
           /\ \A a \in DOMAIN e.headers : e.headers[a].entry = m.headers[a].entry
  BY ErasedSound
<1> HIDE DEF e
<1>3. PICK i \in 1 .. Len(s) : /\ Sound(e, entries, Without(s, i))
                               /\ s[i] = HeaderAt(m, key, Found(m, key))
                               /\ m.headers[s[i]].entry.key = key
                               /\ Loses(e, m, s, i)
  BY <1>2 DEF Loses
<1>4. Table(e, entries, Without(s, i))
  <2>1. s \in Seq(DOMAIN m.headers)
    BY <1>1 DEF Sound, Chained
  <2>2. Len(Without(s, i)) = Len(s) - 1
    BY <2>1, WithoutOne
  <2>. QED  BY <1>1, <1>2, <1>3, <2>2 DEF Table
<1>5. Keyed(m) => Keyed(e)
  BY <1>3 DEF Keyed, Loses, SameHashes
<1>6. m.groups # << >>
  <2>1. m.headers[s[i]].hash \in Hashes /\ s[i] \in DOMAIN m.headers
    <3>1. HeadersOK(m.headers, entries) /\ s \in Seq(DOMAIN m.headers)
      BY <1>1 DEF Sound, Chained
    <3>2. s[i] \in DOMAIN m.headers
      BY <3>1, ElementOfSeq
    <3>. QED  BY <3>1, <3>2, HeadersHaveHashes DEF HaveHashes
  <2>2. GroupIndex(m.headers[s[i]].hash, Len(m.groups)) \in 1 .. Len(m.groups)
    BY <1>1, <2>1 DEF Sound, GroupsFiled
  <2>3. 1 .. 0 = {}
    OBVIOUS
  <2>. QED  BY <2>2, <2>3, EmptySeq
<1>7. Roomy(m) => Roomy(e)
  <2>. SUFFICES ASSUME Roomy(m)
                PROVE  Roomy(e)
    OBVIOUS
  <2> DEFINE load == LoadFactor(Len(m.groups))
  <2>1. /\ m.available \in Nat /\ load \in Nat /\ load <= GroupSize + 2 * MaxHeaders + 1
        /\ load <= m.available + m.len /\ m.available + m.len <= load + MaxHeaders
    BY <1>6 DEF Roomy
  <2>2. e.available + e.len = m.available + m.len /\ e.available \in Nat
    <3>1. m.len \in Nat /\ m.available \in Nat
      BY <1>1, <2>1
    <3>2. \A a, l \in Nat : (a + 1) + (l - 1) = a + l /\ a + 1 \in Nat
      OBVIOUS
    <3>3. /\ (m.available + 1) + (m.len - 1) = m.available + m.len
          /\ m.available + 1 \in Nat
      BY <3>1, <3>2
    <3>. QED  BY <1>2, <3>3
  <2>3. LoadFactor(Len(e.groups)) = load
    BY <1>2
  <2> HIDE DEF load
  <2>4. load <= e.available + e.len /\ e.available + e.len <= load + MaxHeaders
    BY <2>1, <2>2
  <2>5. e.groups # << >> /\ e.available \in Nat
    BY <1>2, <2>2
  <2>. QED  BY <2>1, <2>3, <2>4, <2>5 DEF Roomy
<1>. QED  BY <1>3, <1>4, <1>5, <1>7 DEF e

\* A clone of an entry at most stays one that find and the counts are right for.
LEMMA ClonedTable ==
  ASSUME NEW m, NEW entries, NEW s, Table(m, entries, s), m.len <= 1,
         Keyed(m), Roomy(m)
  PROVE  Keyed(Cloned(m)) /\ Roomy(Cloned(m))
<1> DEFINE c == Cloned(m)
           all == EntriesOf(m, TRUE)
           hash == m.headers[m.first].hash
<1>1. /\ Sound(m, entries, s) /\ m.len = Len(s) /\ Len(s) \in Nat
      /\ all = Along(m, s)
  <2>1. Sound(m, entries, s) /\ m.len = Len(s)
    BY DEF Table
  <2>. QED  BY <2>1, IteratedTable
<1>2. CASE Len(s) = 0
  <2>1. c = EmptyTable
    BY <1>1, <1>2 DEF Cloned
  <2>2. EmptyTable.groups = << >> /\ EmptyTable.available = 0 /\ EmptyTable.len = 0 /\ EmptyTable.headers = << >>
    BY DEF EmptyTable
  <2>3. DOMAIN << >> = {}
    OBVIOUS
  <2>. QED  BY <2>1, <2>2, <2>3 DEF Keyed, Roomy
<1>3. CASE Len(s) = 1
  <2> DEFINE load == LoadFactor(Len(m.groups))
             a == (load - m.len) % SizeT
  <2>1. Copied(c, m, entries, all, hash, Len(s), a)
    <3>1. Len(s) # 0
      BY <1>3
    <3>. QED  BY <3>1, ClonedSound
  <2> HIDE DEF c, all, a
  <2>2. PICK t : /\ Sound(c, entries, t) /\ Len(t) = 1
                 /\ \A i \in 1 .. 1 : /\ c.headers[t[i]].entry = all[i]
                                      /\ c.headers[t[i]].hash = hash
    BY <1>3, <2>1 DEF Copied
  <2>3. \A h \in DOMAIN c.headers : h = t[1]
    BY <2>2 DEF Sound, Chained
  <2>4. s[1] \in DOMAIN m.headers /\ m.first = s[1] /\ all[1] = m.headers[s[1]].entry
    <3>1. s \in Seq(DOMAIN m.headers) /\ 1 \in 1 .. Len(s)
      BY <1>1, <1>3 DEF Sound, Chained
    <3>2. s[1] \in DOMAIN m.headers
      BY <3>1, ElementOfSeq
    <3>. QED  BY <1>1, <1>3, <3>1, <3>2 DEF Sound, Chained, Along
  <2>5. Keyed(c)
    <3>1. c.headers[t[1]].entry = all[1] /\ c.headers[t[1]].hash = hash
      BY <2>2
    <3>. QED  BY <2>3, <2>4, <3>1 DEF Keyed
  <2>6. Roomy(c)
    <3>1. c.groups # << >> /\ Len(c.groups) = Len(m.groups) /\ c.len = m.len /\ c.available = a
      BY <2>1 DEF Copied
    <3>2. load \in Nat \ {0} /\ load <= GroupSize + 2 * MaxHeaders + 1
      <4>1. m.groups # << >>
        BY <1>1, <1>3 DEF Roomy
      <4>2. m.groups \in Seq(Group)
        BY <1>1 DEF Sound, GroupsFiled
      <4>3. Len(m.groups) \in Nat \ {0}
        BY <4>1, <4>2, EmptySeq
      <4>4. load \in Nat \ {0}
        BY <4>3, LoadFactors
      <4>. QED  BY <4>1, <4>4 DEF Roomy
    <3> HIDE DEF load
    <3>3. load - m.len \in 0 .. SizeT - 1
      BY <1>1, <1>3, <3>2, SizesAssumption
    <3>4. a = load - m.len
      BY <3>3, SizesAssumption DEF a
    <3>5. a \in Nat /\ a + m.len = load
      <4>1. m.len = 1
        BY <1>1, <1>3
      <4>. QED  BY <3>2, <3>4, <4>1
    <3>6. load <= load + MaxHeaders /\ load \in Nat
      BY <3>2, SizesAssumption
    <3>. QED  BY <3>1, <3>2, <3>5, <3>6 DEF Roomy, load
  <2>. QED  BY <2>5, <2>6 DEF c
<1>. QED  BY <1>1, <1>2, <1>3

\* The types of a table.
LEMMA TableTypes ==
  ASSUME NEW m, NEW entries, NEW s, Table(m, entries, s), Roomy(m)
  PROVE  TableTypeOK(m, entries)
<1>1. /\ Sound(m, entries, s) /\ m.len = Len(s) /\ Len(s) \in Nat /\ Len(s) <= MaxHeaders
      /\ HeadersOK(m.headers, entries) /\ GroupsFiled(m.groups, m.headers)
  <2>1. Sound(m, entries, s) /\ m.len = Len(s)
    BY DEF Table
  <2>. QED  BY <2>1, IteratedTable DEF Sound
<1>2. ASSUME NEW g \in DOMAIN m.groups
      PROVE  /\ m.groups[g].pairCount \in 0 .. MaxHeaders
             /\ \A i \in DOMAIN m.groups[g].slots :
                  m.groups[g].slots[i] \in [mask : Nat, header : 0 .. MaxHeaders]
  <2> DEFINE group == m.groups[g]
             U == UsedPlaces(group.slots)
             f == [i \in U |-> group.slots[i].header]
  <2>1. m.groups \in Seq(Group) /\ g \in 1 .. Len(m.groups)
    BY <1>1 DEF GroupsFiled
  <2>2. group \in Group /\ GroupFiled(group, g, Len(m.groups), m.headers)
    BY <1>1, <2>1, ElementOfSeq DEF GroupsFiled
  <2> HIDE DEF group
  <2>3. group.slots \in Seq(Slot) /\ group.pairCount \in Nat
    BY <2>2 DEF Group
  <2>4. \A i \in DOMAIN group.slots : group.slots[i] \in Slot
    BY <2>3
  <2>5. f \in Injection(U, 1 .. MaxHeaders)
    <3>1. \A i \in U : group.slots[i].header \in 1 .. MaxHeaders
      BY <1>1, <2>2 DEF GroupFiled, HeadersOK
    <3>2. \A i, j \in U : group.slots[i].header = group.slots[j].header => i = j
      BY <2>2 DEF GroupFiled
    <3>. QED  BY <3>1, <3>2 DEF Injection, IsInjective
  <2>6. IsFiniteSet(1 .. MaxHeaders) /\ Cardinality(1 .. MaxHeaders) = MaxHeaders
    BY SizesAssumption, FS_Interval
  <2>7. Cardinality(U) <= MaxHeaders
    <3> HIDE DEF U, f
    <3>. QED  BY <2>5, <2>6, FS_Injection
  <2>8. group.pairCount \in 0 .. MaxHeaders
    BY <2>2, <2>3, <2>7, SizesAssumption DEF GroupFiled
  <2>. QED  BY <2>4, <2>8 DEF group, Slot
<1>3. m.available \in 0 .. SizeT - 1
  <2>1. m.available \in Nat /\ m.available <= GroupSize + 3 * MaxHeaders + 1
    <3>1. CASE m.groups = << >>
      BY <3>1, SizesAssumption DEF Roomy
    <3>2. CASE m.groups # << >>
      <4> DEFINE load == LoadFactor(Len(m.groups))
      <4>1. /\ m.available \in Nat /\ load \in Nat /\ load <= GroupSize + 2 * MaxHeaders + 1
            /\ m.available + m.len <= load + MaxHeaders
        BY <3>2 DEF Roomy
      <4> HIDE DEF load
      <4>. QED  BY <1>1, <4>1, SizesAssumption
    <3>. QED  BY <3>1, <3>2
  <2>. QED  BY <2>1, SizesAssumption
<1>4. m.len \in 0 .. MaxHeaders
  BY <1>1, SizesAssumption
<1>5. /\ {m.first, m.last} \subseteq DOMAIN m.headers \cup {NULL}
      /\ \A h \in DOMAIN m.headers :
           /\ m.headers[h].before \in DOMAIN m.headers \cup {NULL}
           /\ m.headers[h].after \in DOMAIN m.headers \cup {NULL}
  BY <1>1, LinksLead DEF Sound, LinkedUp
<1>6. DOMAIN m.headers \subseteq 1 .. MaxHeaders
  BY <1>1 DEF HeadersOK
<1>7. ASSUME NEW h \in DOMAIN m.headers
      PROVE  m.headers[h] \in [entry : entries, hash : Range(HashOf),
                               before : DOMAIN m.headers \cup {NULL},
                               after : DOMAIN m.headers \cup {NULL}]
  <2>1. m.headers[h] \in Header(entries)
    BY <1>1 DEF HeadersOK
  <2> DEFINE x == m.headers[h]
             D == DOMAIN m.headers \cup {NULL}
  <2>2. x \in Header(entries) /\ x.before \in D /\ x.after \in D
    BY <1>5, <2>1
  <2> HIDE DEF x, D
  <2>3. x \in [entry : entries, hash : Range(HashOf), before : D, after : D]
    BY <2>2 DEF Header
  <2>. QED  BY <2>3 DEF x, D
<1>. QED  BY <1>2, <1>3, <1>4, <1>5, <1>6, <1>7 DEF TableTypeOK

-----------------------------------------------------------------------------
(***************************************************************************)
(* Freeing a table.                                                        *)
(***************************************************************************)

\* What is left after the headers of the first k of the slots were freed.
LeftAfter(x, m, entries, slots, k) ==
  /\ x.groups = m.groups /\ x.len = m.len /\ x.available = m.available
  /\ \E s : LinkedUp(x, entries, s)
  /\ DOMAIN x.headers = DOMAIN m.headers \ {slots[j].header : j \in 1 .. k}

\* Freeing the header of the next slot leaves one header less.
LEMMA FreedNext ==
  ASSUME NEW m, NEW x, NEW entries, NEW slots, NEW k \in 1 .. Len(slots),
         Gathers(slots, m.groups, m.headers, Len(m.groups)), Len(slots) \in Nat,
         LeftAfter(x, m, entries, slots, k - 1)
  PROVE  LeftAfter(Unlinked(x, slots[k].header), m, entries, slots, k)
<1> DEFINE h == slots[k].header
           u == Unlinked(x, h)
<1>1. PICK s : LinkedUp(x, entries, s)
  BY DEF LeftAfter
<1>2. h \in DOMAIN x.headers
  <2>1. h \in DOMAIN m.headers
    <3>1. \A j \in 1 .. Len(slots) : slots[j].header \in DOMAIN m.headers
      BY DEF Gathers
    <3>. QED  BY <3>1
  <2>2. \A j \in 1 .. k - 1 : slots[j].header # h
    <3>1. \A j \in 1 .. k - 1 : j \in 1 .. Len(slots) /\ j # k
      OBVIOUS
    <3>. QED  BY <3>1 DEF Gathers
  <2>. QED  BY <2>1, <2>2 DEF LeftAfter
<1>3. PICK i \in 1 .. Len(s) : s[i] = h
  BY <1>1, <1>2 DEF LinkedUp, Chained
<1> HIDE DEF h
<1>4. /\ TableShape(u) /\ u.groups = x.groups /\ u.available = x.available
      /\ u.len = x.len
      /\ HeadersOK(u.headers, entries)
      /\ DOMAIN u.headers = DOMAIN x.headers \ {h}
      /\ Chained(u.headers, u.first, u.last, Without(s, i))
  <2> DEFINE v == Unlinked(x, s[i])
  <2>1. /\ TableShape(v) /\ v.groups = x.groups /\ v.available = x.available
        /\ v.len = x.len
        /\ HeadersOK(v.headers, entries)
        /\ DOMAIN v.headers = DOMAIN x.headers \ {s[i]}
        /\ Chained(v.headers, v.first, v.last, Without(s, i))
    <3>1. TableShape(x) /\ HeadersOK(x.headers, entries) /\ Chained(x.headers, x.first, x.last, s)
      BY <1>1 DEF LinkedUp
    <3> HIDE DEF v
    <3>2. /\ TableShape(v) /\ v.groups = x.groups /\ v.available = x.available
          /\ v.len = x.len
          /\ HeadersOK(v.headers, entries)
          /\ DOMAIN v.headers = DOMAIN x.headers \ {s[i]}
          /\ SameHashes(v.headers, x.headers)
          /\ \A a \in DOMAIN v.headers : v.headers[a].entry = x.headers[a].entry
          /\ Chained(v.headers, v.first, v.last, Without(s, i))
      BY <3>1, UnlinkedChained DEF v
    <3>. QED  BY <3>2
  <2>2. u = v
    BY <1>3
  <2> HIDE DEF u, v
  <2>. QED  BY <1>3, <2>1, <2>2
<1> HIDE DEF u
<1>5. LinkedUp(u, entries, Without(s, i))
  BY <1>4 DEF LinkedUp
<1>6. {slots[j].header : j \in 1 .. k} = {slots[j].header : j \in 1 .. k - 1} \cup {h}
  <2>1. \A j : j \in 1 .. k <=> j \in 1 .. k - 1 \/ j = k
    OBVIOUS
  <2>. QED  BY <2>1 DEF h
<1>7. DOMAIN u.headers = DOMAIN m.headers \ {slots[j].header : j \in 1 .. k}
  BY <1>4, <1>6 DEF LeftAfter
<1>. QED  BY <1>4, <1>5, <1>7 DEF LeftAfter, u, h

\* Deinitialising a table frees every header once.
LEMMA DeinitedFrees ==
  ASSUME NEW m, NEW entries, NEW s, Sound(m, entries, s)
  PROVE  DOMAIN Deinited(m).headers = {} /\ Deinited(m).first = NULL
<1> DEFINE slots == UsedSlots(m)
           k == Len(slots)
           Good(x, i) == LeftAfter(x, m, entries, slots, i)
           X == Tables(entries, m.len, m.available)
           Next(x, i) == Unlinked(x, slots[i].header)
           Y == [i \in 0 .. k |-> {x \in X : Good(x, i)}]
           step == [x \in X \X (1 .. k) |-> Next(x[1], x[2])]
           Solves(f) == f = [i \in 0 .. k |-> IF i = 0 THEN m ELSE Next(f[i - 1], i)]
<1>0. /\ GroupsFiled(m.groups, m.headers) /\ LinkedUp(m, entries, s)
      /\ m.groups \in Seq(Group)
  BY DEF Sound, LinkedUp, GroupsFiled
<1>a. slots \in Seq(Slot) /\ Gathers(slots, m.groups, m.headers, Len(m.groups))
  BY <1>0, UsedSlotsGathered
<1> HIDE DEF slots
<1>1. k \in Nat
  BY <1>a, LenProperties
<1>d. ASSUME NEW x, NEW i, Good(x, i)
      PROVE  x \in X
  <2>1. x.groups \in Seq(Group) /\ x.len = m.len /\ x.available = m.available
    BY <1>0, <1>d DEF LeftAfter
  <2>2. PICK t : LinkedUp(x, entries, t)
    BY <1>d DEF LeftAfter
  <2>. QED  BY <2>1, <2>2, LinkedIsTable
<1>2. Good(m, 0)
  BY <1>0 DEF LeftAfter
<1>3. m \in Y[0]
  <2>1. 0 \in 0 .. k
    BY <1>1
  <2> HIDE DEF X, Good, k
  <2>. QED  BY <1>2, <1>d, <2>1
<1>4. ASSUME NEW i \in 1 .. k, NEW x \in Y[i - 1]
      PROVE  Next(x, i) \in Y[i] /\ x \in X
  <2>1. i - 1 \in 0 .. k /\ i \in 0 .. k
    BY <1>1
  <2>2. x \in X /\ Good(x, i - 1)
    <3> HIDE DEF Good, X
    <3>. QED  BY <2>1
  <2>3. Good(Next(x, i), i)
    BY <1>1, <1>a, <2>2, FreedNext
  <2> HIDE DEF Next, k, Good, X
  <2>. QED  BY <1>d, <2>1, <2>2, <2>3
<1> HIDE DEF X, Good
<1>5. \E f : Solves(f)
  <2>1. \A i \in 1 .. k : \A x \in Y[i - 1] : step[<<x, i>>] = Next(x, i)
    <3> HIDE DEF Y, Next
    <3>. QED  BY <1>4
  <2>2. \A i \in 1 .. k : \A x \in Y[i - 1] : step[<<x, i>>] \in Y[i]
    <3> HIDE DEF Y, Next, step
    <3>. QED  BY <1>4, <2>1
  <2>3. \A i \in 0 .. k : Y[i] \subseteq X
    OBVIOUS
  <2>4. PICK f \in [0 .. k -> X] :
          /\ f[0] = m /\ \A i \in 1 .. k : f[i] = step[<<f[i - 1], i>>]
          /\ \A i \in 0 .. k : f[i] \in Y[i]
    <3> HIDE DEF Y, step, k
    <3>1. StaysWithin(k, X, Y, m, step)
      BY <1>1, <1>3, <2>2, <2>3 DEF StaysWithin
    <3>. QED  BY <3>1, Recursion
  <2>5. \A i \in 0 .. k : f[i] = IF i = 0 THEN m ELSE Next(f[i - 1], i)
    <3> HIDE DEF Y, Next, step
    <3>1. \A i \in 0 .. k : i # 0 => i \in 1 .. k /\ i - 1 \in 0 .. k
      BY <1>1
    <3>. QED  BY <2>1, <2>4, <3>1
  <2>6. f = [i \in 0 .. k |-> f[i]]
    OBVIOUS
  <2>7. [i \in 0 .. k |-> f[i]] = [i \in 0 .. k |-> IF i = 0 THEN m ELSE Next(f[i - 1], i)]
    <3> HIDE DEF Next
    <3>. QED  BY <2>5
  <2>. QED  BY <2>6, <2>7
<1> DEFINE loop == CHOOSE f : Solves(f)
<1>6. Solves(loop)
  <2> HIDE DEF Solves
  <2>. QED  BY <1>5
<1>7. Deinited(m) = loop[k]
  BY DEF Deinited, slots
<1> HIDE DEF loop
<1>8. loop[0] = m /\ \A i \in 1 .. k : loop[i] = Next(loop[i - 1], i)
  <2>1. \A i \in 0 .. k : loop[i] = IF i = 0 THEN m ELSE Next(loop[i - 1], i)
    <3> HIDE DEF Next
    <3>. QED  BY <1>6
  <2>2. 0 \in 0 .. k /\ \A i \in 1 .. k : i \in 0 .. k /\ i # 0
    BY <1>1
  <2> HIDE DEF Next
  <2>. QED  BY <2>1, <2>2
<1>9. \A i \in 0 .. k : loop[i] \in Y[i]
  <2> HIDE DEF Y, Next, k
  <2>1. Inductive(k, Y, loop)
    BY <1>1, <1>3, <1>4, <1>8 DEF Inductive
  <2>. QED  BY <2>1, InductionUpTo
<1>10. loop[k] \in Y[k] /\ k \in 0 .. k
  <2> HIDE DEF Y, k
  <2>. QED  BY <1>1, <1>9
<1> DEFINE d == Deinited(m)
<1>11. Good(d, k)
  <2> HIDE DEF k
  <2>. QED  BY <1>7, <1>10
<1> HIDE DEF d
<1>12. DOMAIN d.headers = {}
  <2>1. \A h \in DOMAIN m.headers : \E j \in 1 .. k : slots[j].header = h
    <3>1. \A h \in DOMAIN m.headers : GroupIndex(m.headers[h].hash, Len(m.groups)) \in 1 .. Len(m.groups)
      BY <1>0 DEF GroupsFiled
    <3>. QED  BY <1>a, <3>1 DEF Gathers
  <2>. QED  BY <1>11, <2>1 DEF LeftAfter, Good
<1>13. d.first = NULL
  <2>1. PICK t : LinkedUp(d, entries, t)
    BY <1>11 DEF LeftAfter, Good
  <2>2. Chained(d.headers, d.first, d.last, t)
    BY <2>1 DEF LinkedUp
  <2>3. Len(t) = 0
    BY <1>12, <2>2, ChainLength, FS_EmptySet
  <2>. QED  BY <2>2, <2>3 DEF Chained
<1>. QED  BY <1>12, <1>13 DEF d
=============================================================================
