--------------------------- MODULE ContainerProofs ---------------------------
(***************************************************************************)
(* Theorems about the hash map and the hash set, from the lemmas about the *)
(* table that they share.                                                  *)
(*                                                                         *)
(* The map: its pairs are filed and linked whatever the program does with  *)
(* it; they are found and counted as long as it goes on with no clone of   *)
(* several pairs; and it is an ordered map as long as it inserts new keys  *)
(* only.                                                                   *)
(*                                                                         *)
(* The set and its iterators: iteration is complete and clones are equal   *)
(* whatever the program does with it, and its keys are found and freed as  *)
(* long as it goes on with no clone of several keys.                       *)
(***************************************************************************)
EXTENDS HashMap, HashSet, HashTableProofs

-----------------------------------------------------------------------------
(***************************************************************************)
(* The inductive invariants.                                               *)
(***************************************************************************)

\* The map is a table: its links lead through its pairs in some order s, and its
\* groups have a slot for each of them (Table in HashTableProofs).
MapIsTable == \E s : Table(map, Entries, s)

\* And find and the counts are right.
MapIsKept == MapIsTable /\ Keyed(map) /\ Roomy(map)

\* What a write through the pointer that find_mut gave changes: the value of a pair.
Written(m, h, value) == [m EXCEPT !.headers[h].entry.value = value]

Writes(w, m, h, value) ==
  /\ DOMAIN w.headers = DOMAIN m.headers
  /\ \A a \in DOMAIN m.headers :
       w.headers[a].entry = IF a = h THEN [m.headers[a].entry EXCEPT !.value = value]
                            ELSE m.headers[a].entry

\* A map stays a table when a value is written.
LEMMA WrittenTable ==
  ASSUME NEW m, NEW s, Table(m, Entries, s), NEW h \in DOMAIN m.headers, NEW value \in Values
  PROVE  LET w == Written(m, h, value)
         IN  /\ Table(w, Entries, s)
             /\ Writes(w, m, h, value)
             /\ Keyed(m) => Keyed(w)
             /\ Roomy(m) => Roomy(w)
<1> DEFINE w == Written(m, h, value)
           D == DOMAIN m.headers
           new == [m.headers[h] EXCEPT !.entry.value = value]
<1>1. /\ TableShape(m) /\ HeadersOK(m.headers, Entries) /\ m.len = Len(s)
      /\ GroupsFiled(m.groups, m.headers) /\ Chained(m.headers, m.first, m.last, s)
  BY DEF Table, Sound
<1>2. m.headers \in [D -> Header(Entries)] /\ D \subseteq 1 .. MaxHeaders
  BY <1>1 DEF HeadersOK
<1>3. m.headers[h] \in Header(Entries) /\ m.headers[h].entry \in Entries
  BY <1>2 DEF Header
<1>4. /\ new \in Header(Entries)
      /\ new.entry = [m.headers[h].entry EXCEPT !.value = value]
      /\ new.entry.key = m.headers[h].entry.key
      /\ new.hash = m.headers[h].hash
      /\ new.before = m.headers[h].before /\ new.after = m.headers[h].after
  BY <1>3 DEF Header, Entries
<1> DEFINE headers == Replaced(m.headers, h, new)
<1>5. w = [m EXCEPT !.headers = headers]
  BY DEF Written, Replaced
<1> HIDE DEF new
<1>6. /\ headers \in [D -> Header(Entries)] /\ DOMAIN headers = D
      /\ \A a \in D : headers[a] = IF a = h THEN new ELSE m.headers[a]
  BY <1>2, <1>4 DEF Replaced
<1> HIDE DEF w, headers
<1>7. w = [groups |-> m.groups, available |-> m.available, len |-> m.len,
           first |-> m.first, last |-> m.last, headers |-> headers]
  BY <1>1, <1>5 DEF TableShape
<1>8. /\ w.groups = m.groups /\ w.available = m.available /\ w.len = m.len
      /\ w.first = m.first /\ w.last = m.last /\ w.headers = headers
  BY <1>7
<1>9. TableShape(w)
  BY <1>7, <1>8 DEF TableShape
<1>10. HeadersOK(headers, Entries)
  BY <1>2, <1>6 DEF HeadersOK
<1>11. \A a \in D : /\ headers[a].hash = m.headers[a].hash
                    /\ headers[a].before = m.headers[a].before
                    /\ headers[a].after = m.headers[a].after
                    /\ headers[a].entry.key = m.headers[a].entry.key
  BY <1>4, <1>6
<1>12. GroupsFiled(m.groups, headers)
  <2>1. SameHashes(m.headers, headers)
    BY <1>6, <1>11 DEF SameHashes
  <2>2. \A g \in 1 .. Len(m.groups) : GroupFiled(m.groups[g], g, Len(m.groups), headers)
    BY <1>1, <2>1, FiledAmongMore DEF GroupsFiled
  <2>. QED  BY <1>1, <1>6, <1>11, <2>2 DEF GroupsFiled
<1>13. Chained(headers, m.first, m.last, s)
  <2>1. \A i \in 1 .. Len(s) : s[i] \in D
    BY <1>1, ChainLength
  <2>2. \A i \in 1 .. Len(s) :
          /\ m.headers[s[i]].before = IF i = 1 THEN NULL ELSE s[i - 1]
          /\ m.headers[s[i]].after = IF i = Len(s) THEN NULL ELSE s[i + 1]
    BY <1>1 DEF Chained
  <2>3. \A i \in 1 .. Len(s) :
          /\ headers[s[i]].before = IF i = 1 THEN NULL ELSE s[i - 1]
          /\ headers[s[i]].after = IF i = Len(s) THEN NULL ELSE s[i + 1]
    BY <1>11, <2>1, <2>2
  <2>. QED  BY <1>1, <1>6, <2>3 DEF Chained
<1>14. Table(w, Entries, s)
  BY <1>1, <1>8, <1>9, <1>10, <1>12, <1>13 DEF Table, Sound
<1>15. \A a \in D : headers[a].entry = IF a = h THEN [m.headers[a].entry EXCEPT !.value = value]
                                       ELSE m.headers[a].entry
  BY <1>4, <1>6
<1>16. Keyed(m) => Keyed(w)
  BY <1>6, <1>8, <1>11 DEF Keyed
<1>17. Roomy(m) => Roomy(w)
  BY <1>8 DEF Roomy
<1>18. Writes(w, m, h, value)
  BY <1>6, <1>8, <1>15 DEF Writes
<1>. QED  BY <1>14, <1>16, <1>17, <1>18 DEF w

\* The map starts as a table, and every operation leaves it one; and unless it goes
\* on with a clone of several pairs, find and the counts stay right.
LEMMA MapInitKept == Init => MapIsKept
<1>. SUFFICES ASSUME Init
              PROVE  MapIsKept
  OBVIOUS
<1>1. Table(map, Entries, << >>)
  BY EmptyTableIsTable DEF Init
<1>2. map.headers = << >> /\ map.groups = << >> /\ map.available = 0 /\ map.len = 0
  BY DEF Init, EmptyTable
<1>3. DOMAIN << >> = {}
  OBVIOUS
<1>. QED  BY <1>1, <1>2, <1>3 DEF MapIsKept, MapIsTable, Keyed, Roomy

\* Every operation keeps the invariants.
LEMMA MapStepKept ==
  ASSUME MapIsTable, [Next]_map
  PROVE  MapIsTable' /\ (CloneLimit <= 1 /\ MapIsKept => MapIsKept')
<1>1. PICK s : Table(map, Entries, s)
  BY DEF MapIsTable
<1>2. ASSUME NEW key \in Keys, NEW value \in Values, Insert(key, value)
      PROVE  MapIsTable' /\ (MapIsKept => MapIsKept')
  <2> DEFINE entry == [key |-> key, value |-> value]
  <2>1. entry \in Entries /\ entry.key \in Keys
    BY DEF Entries
  <2>2. map' = Inserted(map, entry) /\ map.len < MaxHeaders
    BY <1>2 DEF Insert
  <2> HIDE DEF entry
  <2>3. /\ \E h : Table(map', Entries, Append(s, h))
        /\ Keyed(map) => Keyed(map')
        /\ Roomy(map) => Roomy(map')
    BY <1>1, <2>1, <2>2, InsertedTable
  <2>. QED  BY <2>3 DEF MapIsTable, MapIsKept
<1>3. ASSUME NEW key \in Keys, NEW value \in Values, FindMut(key, value)
      PROVE  MapIsTable' /\ (MapIsKept => MapIsKept')
  <2> DEFINE h == HeaderAt(map, key, Found(map, key))
  <2>1. Found(map, key) # 0 /\ map' = Written(map, h, value)
    BY <1>3 DEF FindMut, Written
  <2>2. h \in DOMAIN map.headers
    BY <1>1, <2>1, FoundHeader
  <2> HIDE DEF h
  <2>3. /\ Table(map', Entries, s)
        /\ Keyed(map) => Keyed(map')
        /\ Roomy(map) => Roomy(map')
    BY <1>1, <2>1, <2>2, WrittenTable
  <2>. QED  BY <2>3 DEF MapIsTable, MapIsKept
<1>4. ASSUME NEW key \in Keys, Erase(key)
      PROVE  MapIsTable' /\ (MapIsKept => MapIsKept')
  <2>1. Found(map, key) # 0 /\ map' = Erased(map, key, Found(map, key))
    BY <1>4 DEF Erase
  <2>2. /\ \E i \in 1 .. Len(s) : Table(map', Entries, Without(s, i))
        /\ Keyed(map) => Keyed(map')
        /\ Roomy(map) => Roomy(map')
    BY <1>1, <2>1, ErasedTable
  <2>. QED  BY <2>2 DEF MapIsTable, MapIsKept
<1>5. ASSUME Clone
      PROVE  MapIsTable' /\ (CloneLimit <= 1 /\ MapIsKept => MapIsKept')
  <2>1. map' = Cloned(map) /\ map.len <= CloneLimit
    BY <1>5 DEF Clone
  <2>2. \E t : Table(map', Entries, t)
    BY <1>1, <2>1, ClonedEqual
  <2>3. CloneLimit <= 1 => map.len <= 1
    <3>1. map.len \in Nat
      BY <1>1, IteratedTable DEF Table
    <3>. QED  BY <2>1, <3>1, SizesAssumption
  <2>4. CloneLimit <= 1 /\ Keyed(map) /\ Roomy(map) => Keyed(map') /\ Roomy(map')
    BY <1>1, <2>1, <2>3, ClonedTable
  <2>. QED  BY <2>2, <2>4 DEF MapIsTable, MapIsKept
<1>6. ASSUME UNCHANGED map
      PROVE  MapIsTable' /\ (MapIsKept => MapIsKept')
  BY <1>1, <1>6 DEF MapIsTable, MapIsKept
<1>. QED  BY <1>2, <1>3, <1>4, <1>5, <1>6 DEF Next

\* The two invariants, for any program and for one that clones small maps only.
LEMMA MapTableAlways == Spec => []MapIsTable
<1>1. Init => MapIsTable
  BY MapInitKept DEF MapIsKept
<1>2. MapIsTable /\ [Next]_map => MapIsTable'
  BY MapStepKept
<1>. QED  BY <1>1, <1>2, PTL DEF Spec

\* The same of the invariant of programs that clone small maps only.
LEMMA MapKeptAlways == CloneLimit <= 1 /\ Spec => []MapIsKept
<1>. SUFFICES ASSUME CloneLimit <= 1
              PROVE  Spec => []MapIsKept
  OBVIOUS
<1>1. MapIsKept /\ [Next]_map => MapIsKept'
  BY MapStepKept DEF MapIsKept
<1>. QED  BY <1>1, MapInitKept, PTL DEF Spec
-----------------------------------------------------------------------------
(***************************************************************************)
(* The theorems.                                                           *)
(***************************************************************************)

\* No header of a map is lost or duplicated, however its groups grow and double
\* (group_ensure_total_capacity, map_ensure_total_capacity), whatever is inserted,
\* overwritten, erased and cloned, for any hashes and any group size.
THEOREM HeadersKept == Spec => []SlotsMatchPairs
<1>1. MapIsTable => SlotsMatchPairs
  BY TableIsGood DEF MapIsTable, SlotsMatchPairs
<1>. QED  BY <1>1, MapTableAlways, PTL

\* The iterators go through all pairs, the reverse ones in reverse; and a clone of any
\* size is equal to its map and has its hash, although its pairs are filed elsewhere.
THEOREM IterationsKept == Spec => []IterationsMirror
<1>1. MapIsTable => IterationsMirror
  <2>. SUFFICES ASSUME MapIsTable
                PROVE  IterationsMirror
    OBVIOUS
  <2>1. PICK s : Table(map, Entries, s)
    BY DEF MapIsTable
  <2>2. IterationsAgree(map)
    BY <2>1, TableIsGood
  <2>3. EntriesOf(Cloned(map), TRUE) = EntriesOf(map, TRUE) /\ Eql(map, Cloned(map))
    BY <2>1, ClonedEqual
  <2>4. HashOfMap(map) = HashOfMap(Cloned(map))
    BY <2>3 DEF HashOfMap
  <2>. QED  BY <2>2, <2>3, <2>4 DEF IterationsMirror
<1>. QED  BY <1>1, MapTableAlways, PTL

\* The fields of the map keep their types; above all, the count of available entries
\* never wraps around (map.c:492, 511), although doubling the groups does not take the
\* pairs there are off it.
THEOREM TypesKept == CloneLimit <= 1 /\ Spec => []TypeOK
<1>1. MapIsKept => TypeOK
  BY TableTypes DEF MapIsKept, MapIsTable, TypeOK
<1>. QED  BY <1>1, MapKeptAlways, PTL

\* find, find_mut and erase find a key just if iteration shows it, however many keys
\* share its group and its mask.
THEOREM FindsKept == CloneLimit <= 1 /\ Spec => []FindsWhatIsThere
<1>1. MapIsKept => FindsWhatIsThere
  BY KeyedTableFinds DEF MapIsKept, MapIsTable, FindsWhatIsThere
<1>. QED  BY <1>1, MapKeptAlways, PTL

-----------------------------------------------------------------------------
(***************************************************************************)
(* The refinement of OrderedMap.                                           *)
(***************************************************************************)

\* What is appended comes after all of the old sequence.
LEMMA AppendedAtEnd ==
  ASSUME NEW S, NEW t \in Seq(S), NEW x \in S
  PROVE  /\ Len(Append(t, x)) = Len(t) + 1
         /\ t = SubSeq(Append(t, x), 1, Len(t))
         /\ Append(t, x)[Len(Append(t, x))] = x
<1> DEFINE k == Len(t)
           u == Append(t, x)
<1>1. k \in Nat /\ t \in [1 .. k -> S]
  BY LenProperties
<1>2. u \in Seq(S) /\ Len(u) = k + 1 /\ u[k + 1] = x /\ \A i \in 1 .. k : u[i] = t[i]
  BY AppendProperties
<1> HIDE DEF u, k
<1>3. SubSeq(u, 1, k) = [i \in 1 .. k |-> u[i]]
  <2>1. /\ SubSeq(u, 1, k) \in Seq(S) /\ Len(SubSeq(u, 1, k)) = k
        /\ \A i \in 1 .. k : SubSeq(u, 1, k)[i] = u[i]
    BY <1>1, <1>2, SubSeqProperties
  <2> DEFINE v == SubSeq(u, 1, k)
  <2> HIDE DEF v
  <2>2. v = [i \in 1 .. Len(v) |-> v[i]]
    BY <2>1, LenProperties DEF v
  <2>. QED  BY <2>1, <2>2 DEF v
<1>4. [i \in 1 .. k |-> u[i]] = [i \in 1 .. k |-> t[i]]
  BY <1>2
<1>5. t = [i \in 1 .. k |-> t[i]]
  BY <1>1
<1>. QED  BY <1>2, <1>3, <1>4, <1>5 DEF u, k

\* Leaving one out leaves what is before and what is after it.
LEMMA WithoutIsRest ==
  ASSUME NEW S, NEW t \in Seq(S), NEW i \in 1 .. Len(t)
  PROVE  Without(t, i) = SubSeq(t, 1, i - 1) \o SubSeq(t, i + 1, Len(t))
<1> DEFINE k == Len(t)
           a == SubSeq(t, 1, i - 1)
           b == SubSeq(t, i + 1, k)
           u == Without(t, i)
<1>1. k \in Nat /\ t \in [1 .. k -> S] /\ i \in 1 .. k
  BY LenProperties
<1>2. u \in Seq(S) /\ Len(u) = k - 1 /\ u = [j \in 1 .. k - 1 |-> IF j < i THEN t[j] ELSE t[j + 1]]
  BY WithoutOne DEF Without
<1> HIDE DEF k, u
<1>3. a \in Seq(S) /\ Len(a) = i - 1 /\ \A j \in 1 .. i - 1 : a[j] = t[j]
  BY <1>1, SubSeqProperties DEF k
<1>4. b \in Seq(S) /\ Len(b) = k - i /\ \A j \in 1 .. k - i : b[j] = t[i + j]
  <2>1. /\ b \in Seq(S) /\ Len(b) = IF i + 1 <= k THEN k - (i + 1) + 1 ELSE 0
        /\ \A j \in 1 .. k - (i + 1) + 1 : b[j] = t[(i + 1) + j - 1]
    BY <1>1, SubSeqProperties DEF k
  <2>2. i \in Nat /\ k \in Nat /\ i <= k
    BY <1>1
  <2>3. k - (i + 1) + 1 = k - i /\ (~(i + 1 <= k) => k - i = 0)
    BY <2>2
  <2>4. \A j \in 1 .. k - i : (i + 1) + j - 1 = i + j
    BY <2>2
  <2>. QED  BY <2>1, <2>3, <2>4
<1> HIDE DEF a, b
<1>5. /\ a \o b \in Seq(S) /\ Len(a \o b) = k - 1
      /\ \A j \in 1 .. k - 1 : (a \o b)[j] = IF j < i THEN t[j] ELSE t[j + 1]
  <2>1. /\ a \o b \in Seq(S) /\ Len(a \o b) = Len(a) + Len(b)
        /\ \A j \in 1 .. Len(a) + Len(b) :
             (a \o b)[j] = IF j <= Len(a) THEN a[j] ELSE b[j - Len(a)]
    BY <1>3, <1>4, ConcatProperties
  <2>2. i \in Nat /\ k \in Nat /\ i <= k /\ i # 0 /\ Len(a) + Len(b) = k - 1
    BY <1>1, <1>3, <1>4
  <2>3. ASSUME NEW j \in 1 .. k - 1
        PROVE  (a \o b)[j] = IF j < i THEN t[j] ELSE t[j + 1]
    <3>1. j <= i - 1 <=> j < i
      BY <2>2
    <3>2. CASE j < i
      <4>1. j \in 1 .. i - 1
        BY <2>2, <3>2
      <4>. QED  BY <1>3, <2>1, <2>2, <3>1, <3>2, <4>1
    <3>3. CASE ~ (j < i)
      <4>1. j - (i - 1) \in 1 .. k - i /\ i + (j - (i - 1)) = j + 1
        BY <2>2, <3>3
      <4>2. b[j - (i - 1)] = t[i + (j - (i - 1))]
        BY <1>4, <4>1
      <4>3. (a \o b)[j] = b[j - (i - 1)]
        BY <1>3, <2>1, <2>2, <3>1, <3>3
      <4>. QED  BY <3>3, <4>1, <4>2, <4>3
    <3>. QED  BY <3>2, <3>3
  <2>. QED  BY <2>1, <2>2, <2>3
<1> DEFINE v == a \o b
<1> HIDE DEF v
<1>6. v = [j \in 1 .. Len(v) |-> v[j]]
  BY <1>5, LenProperties DEF v
<1>7. [j \in 1 .. k - 1 |-> v[j]] = [j \in 1 .. k - 1 |-> IF j < i THEN t[j] ELSE t[j + 1]]
  BY <1>5 DEF v
<1>8. v = u
  BY <1>2, <1>5, <1>6, <1>7 DEF v
<1>. QED  BY <1>8 DEF u, v, a, b, k

\* The entries after an insert, ...
LEMMA AlongAppended ==
  ASSUME NEW m, NEW c, NEW s, NEW h, NEW entry, NEW hash, NEW S,
         s \in Seq(DOMAIN m.headers), Extends(c, m, h, entry, hash),
         Along(m, s) \in Seq(S), Len(Along(m, s)) = Len(s), entry \in S
  PROVE  Along(c, Append(s, h)) = Append(Along(m, s), entry)
<1> DEFINE k == Len(s)
           t == Append(s, h)
           a == Along(m, s)
           u == Append(a, entry)
<1>1. k \in Nat /\ \A i \in 1 .. k : s[i] \in DOMAIN m.headers
  <2>1. s \in [1 .. k -> DOMAIN m.headers] /\ k \in Nat
    BY LenProperties
  <2> HIDE DEF k
  <2>. QED  BY <2>1
<1>2. Len(t) = k + 1 /\ t[k + 1] = h /\ \A i \in 1 .. k : t[i] = s[i]
  <2>1. s \in Seq(DOMAIN m.headers \cup {h})
    OBVIOUS
  <2>. QED  BY <2>1, AppendProperties
<1>3. u \in Seq(S) /\ Len(u) = k + 1 /\ u[k + 1] = entry /\ \A i \in 1 .. k : u[i] = a[i]
  BY AppendProperties
<1>4. \A i \in 1 .. k : a[i] = m.headers[s[i]].entry
  BY DEF Along
<1> HIDE DEF t, u, a, k
<1>5. ASSUME NEW i \in 1 .. k + 1
      PROVE  c.headers[t[i]].entry = u[i]
  <2>1. CASE i = k + 1
    BY <1>2, <1>3, <2>1 DEF Extends
  <2>2. CASE i # k + 1
    <3>1. i \in 1 .. k
      BY <1>1, <2>2
    <3>. QED  BY <1>1, <1>2, <1>3, <1>4, <3>1 DEF Extends
  <2>. QED  BY <2>1, <2>2
<1>6. Along(c, t) = [i \in 1 .. k + 1 |-> u[i]]
  BY <1>2, <1>5 DEF Along
<1>7. u = [i \in 1 .. Len(u) |-> u[i]]
  BY <1>3, LenProperties
<1>. QED  BY <1>3, <1>6, <1>7 DEF t, u, a

\* ... after an erase, ...
LEMMA AlongWithout ==
  ASSUME NEW m, NEW e, NEW s, NEW i \in 1 .. Len(s),
         s \in Seq(DOMAIN m.headers), \A x, y \in 1 .. Len(s) : s[x] = s[y] => x = y,
         Loses(e, m, s, i)
  PROVE  Along(e, Without(s, i)) = Without(Along(m, s), i)
<1> DEFINE k == Len(s)
           t == Without(s, i)
           a == Along(m, s)
<1>1. k \in Nat /\ \A j \in 1 .. k : s[j] \in DOMAIN m.headers
  <2>1. s \in [1 .. k -> DOMAIN m.headers] /\ k \in Nat
    BY LenProperties
  <2> HIDE DEF k
  <2>. QED  BY <2>1
<1>2. Len(t) = k - 1 /\ \A j \in 1 .. k - 1 : t[j] = IF j < i THEN s[j] ELSE s[j + 1]
  BY WithoutOne DEF Without
<1>3. Len(a) = k /\ \A j \in 1 .. k : a[j] = m.headers[s[j]].entry
  BY <1>1 DEF Along
<1> HIDE DEF t, a
<1>4. ASSUME NEW j \in 1 .. k - 1
      PROVE  e.headers[t[j]].entry = IF j < i THEN a[j] ELSE a[j + 1]
  <2> DEFINE x == IF j < i THEN j ELSE j + 1
  <2>1. x \in 1 .. k /\ x # i /\ j \in 1 .. k /\ i \in Nat
    BY <1>1
  <2>2. t[j] = s[x] /\ (IF j < i THEN a[j] ELSE a[j + 1]) = a[x]
    BY <1>2
  <2> HIDE DEF x, k
  <2>3. s[x] # s[i] /\ s[x] \in DOMAIN m.headers
    BY <1>1, <2>1 DEF k
  <2>4. e.headers[s[x]].entry = m.headers[s[x]].entry
    BY <2>3 DEF Loses
  <2>. QED  BY <1>3, <2>1, <2>2, <2>4
<1>5. Along(e, t) = [j \in 1 .. k - 1 |-> IF j < i THEN a[j] ELSE a[j + 1]]
  <2> HIDE DEF k
  <2>. QED  BY <1>2, <1>4 DEF Along
<1>6. Without(a, i) = [j \in 1 .. k - 1 |-> IF j < i THEN a[j] ELSE a[j + 1]]
  BY <1>3 DEF Without
<1>. QED  BY <1>5, <1>6 DEF t, a

\* ... and after a write.
ValueSet(t, i, value) == [t EXCEPT ![i].value = value]

\* The entries after a write.
LEMMA AlongWritten ==
  ASSUME NEW m, NEW w, NEW s, NEW i \in 1 .. Len(s), NEW value,
         s \in Seq(DOMAIN m.headers), \A x, y \in 1 .. Len(s) : s[x] = s[y] => x = y,
         Writes(w, m, s[i], value)
  PROVE  Along(w, s) = ValueSet(Along(m, s), i, value)
<1> DEFINE k == Len(s)
           a == Along(m, s)
           new == [a[i] EXCEPT !.value = value]
<1>1. k \in Nat /\ \A j \in 1 .. k : s[j] \in DOMAIN m.headers
  <2>1. s \in [1 .. k -> DOMAIN m.headers] /\ k \in Nat
    BY LenProperties
  <2> HIDE DEF k
  <2>. QED  BY <2>1
<1>2. DOMAIN a = 1 .. k /\ \A j \in 1 .. k : a[j] = m.headers[s[j]].entry
  BY DEF Along
<1>3. ValueSet(a, i, value) = [a EXCEPT ![i] = new]
  BY DEF ValueSet
<1>4. a[i] = m.headers[s[i]].entry
  BY <1>2
<1>5. new = [m.headers[s[i]].entry EXCEPT !.value = value]
  BY <1>4
<1> HIDE DEF a, new
<1>6. ASSUME NEW j \in 1 .. k
      PROVE  w.headers[s[j]].entry = IF j = i THEN new ELSE a[j]
  <2>1. s[j] \in DOMAIN m.headers
    BY <1>1
  <2>. QED  BY <1>2, <1>5, <2>1 DEF Writes
<1>7. Along(w, s) = [j \in 1 .. k |-> IF j = i THEN new ELSE a[j]]
  BY <1>6 DEF Along
<1>8. [a EXCEPT ![i] = new] = [j \in 1 .. k |-> IF j = i THEN new ELSE a[j]]
  BY <1>2
<1>. QED  BY <1>3, <1>7, <1>8 DEF a

\* Each operation is one of OrderedMap, or leaves the entries as they are.
LEMMA StepRefines ==
  ASSUME Reinsert = FALSE, NEW s, Table(map, Entries, s), [Next]_map
  PROVE  LET old == EntriesOf(map, TRUE)
             new == EntriesOf(map', TRUE)
         IN  Abs!Insert(old, new) \/ Abs!Set(old, new) \/ Abs!Erase(old, new) \/ new = old
<1> DEFINE old == EntriesOf(map, TRUE)
           new == EntriesOf(map', TRUE)
<1>1. /\ old = Along(map, s) /\ old \in Seq(Entries) /\ Len(old) = Len(s)
      /\ Len(s) \in Nat /\ s \in Seq(DOMAIN map.headers)
      /\ \A i \in 1 .. Len(s) : s[i] \in DOMAIN map.headers
      /\ \A i, j \in 1 .. Len(s) : s[i] = s[j] => i = j
  <2>1. Sound(map, Entries, s) /\ Chained(map.headers, map.first, map.last, s)
    BY DEF Table, Sound
  <2>2. \A i \in 1 .. Len(s) : s[i] \in DOMAIN map.headers
    BY <2>1, ChainLength
  <2>. QED  BY <2>1, <2>2, IteratedTable DEF Chained
<1> HIDE DEF old, new
<1>2. ASSUME NEW t, Table(map', Entries, t)
      PROVE  new = Along(map', t)
  BY <1>2, IteratedTable DEF Table, new
<1>3. ASSUME NEW key \in Keys, NEW value \in Values, Insert(key, value)
      PROVE  Abs!Insert(old, new)
  <2> DEFINE entry == [key |-> key, value |-> value]
  <2>1. entry \in Entries /\ entry.key = key
    BY DEF Entries
  <2>2. /\ map' = Inserted(map, entry) /\ map.len < MaxHeaders
        /\ \A h \in DOMAIN map.headers : map.headers[h].entry.key # key
    BY <1>3 DEF Insert
  <2> HIDE DEF entry
  <2>3. PICK h : /\ Table(map', Entries, Append(s, h))
                 /\ Extends(map', map, h, entry, HashOf[key])
    <3>1. entry.key \in Keys
      BY <2>1
    <3>. QED  BY <2>1, <2>2, <3>1, InsertedTable
  <2>4. new = Append(old, entry)
    BY <1>1, <1>2, <2>1, <2>3, AlongAppended
  <2>5. Len(new) = Len(old) + 1 /\ old = SubSeq(new, 1, Len(old)) /\ new[Len(new)] = entry
    BY <1>1, <2>1, <2>4, AppendedAtEnd
  <2>6. \A i \in DOMAIN old : old[i].key # key
    BY <1>1, <2>2 DEF Along
  <2>. QED  BY <2>1, <2>5, <2>6 DEF Abs!Insert, Entries
<1>4. ASSUME NEW key \in Keys, NEW value \in Values, FindMut(key, value)
      PROVE  Abs!Set(old, new)
  <2> DEFINE h == HeaderAt(map, key, Found(map, key))
  <2>1. Found(map, key) # 0 /\ map' = Written(map, h, value)
    BY <1>4 DEF FindMut, Written
  <2>2. h \in DOMAIN map.headers
    BY <2>1, FoundHeader
  <2> HIDE DEF h
  <2>3. PICK i \in 1 .. Len(s) : s[i] = h
    BY <2>2 DEF Table, Sound, Chained
  <2>4. Table(map', Entries, s) /\ Writes(map', map, h, value)
    BY <2>1, <2>2, WrittenTable
  <2>5. Along(map', s) = ValueSet(Along(map, s), i, value)
    BY <1>1, <2>3, <2>4, AlongWritten
  <2>6. new = [old EXCEPT ![i].value = value]
    BY <1>1, <1>2, <2>4, <2>5 DEF ValueSet
  <2>7. Len(new) = Len(old) /\ i \in DOMAIN old
    <3>1. new \in Seq(Entries) /\ Len(new) = Len(s)
      BY <2>4, IteratedTable DEF Table, new
    <3>. QED  BY <1>1, <3>1
  <2>. QED  BY <2>6, <2>7 DEF Abs!Set
<1>5. ASSUME NEW key \in Keys, Erase(key)
      PROVE  Abs!Erase(old, new)
  <2>1. Found(map, key) # 0 /\ map' = Erased(map, key, Found(map, key))
    BY <1>5 DEF Erase
  <2>2. PICK i \in 1 .. Len(s) : Table(map', Entries, Without(s, i)) /\ Loses(map', map, s, i)
    BY <2>1, ErasedTable
  <2>3. new = Without(old, i)
    BY <1>1, <1>2, <2>2, AlongWithout
  <2>4. i \in 1 .. Len(old) /\ i \in DOMAIN old
    BY <1>1
  <2>5. Len(new) = Len(old) - 1 /\ new = SubSeq(old, 1, i - 1) \o SubSeq(old, i + 1, Len(old))
    BY <1>1, <2>3, <2>4, WithoutOne, WithoutIsRest
  <2>. QED  BY <2>4, <2>5 DEF Abs!Erase
<1>6. ASSUME Clone
      PROVE  new = old
  BY <1>6, ClonedEqual DEF Clone, old, new
<1>7. ASSUME UNCHANGED map
      PROVE  new = old
  BY <1>7 DEF old, new
<1>. QED  BY <1>3, <1>4, <1>5, <1>6, <1>7 DEF Next, old, new

\* As long as the program inserts new keys only, the map implements OrderedMap: its
\* iteration shows the pairs in the order they were inserted, no other pair is
\* disturbed by an insert, a write or an erase, and a clone shows the same.
THEOREM OrderKept == Reinsert = FALSE /\ Spec => ImplementsOrderedMap
<1>. SUFFICES ASSUME Reinsert = FALSE
              PROVE  Spec => ImplementsOrderedMap
  OBVIOUS
<1>1. Init => Abs!Init
  <2>. SUFFICES ASSUME Init
                PROVE  EntriesOf(map, TRUE) = << >>
    BY DEF Abs!Init
  <2>1. Table(map, Entries, << >>) /\ Len(<< >>) = 0
    BY EmptyTableIsTable, EmptySeq DEF Init
  <2>2. EntriesOf(map, TRUE) \in Seq(Entries) /\ Len(EntriesOf(map, TRUE)) = 0
    BY <2>1, IteratedTable DEF Table
  <2>. QED  BY <2>2, EmptySeq
<1>2. MapIsTable /\ [Next]_map => [Abs!Next]_(EntriesOf(map, TRUE))
  <2>. SUFFICES ASSUME MapIsTable, [Next]_map
                PROVE  [Abs!Next]_(EntriesOf(map, TRUE))
    OBVIOUS
  <2>1. PICK s : Table(map, Entries, s)
    BY DEF MapIsTable
  <2> DEFINE old == EntriesOf(map, TRUE)
             new == EntriesOf(map', TRUE)
  <2>2. Abs!Insert(old, new) \/ Abs!Set(old, new) \/ Abs!Erase(old, new) \/ new = old
    BY <2>1, StepRefines
  <2>. QED  BY <2>2 DEF Abs!Next
<1>. QED  BY <1>1, <1>2, MapTableAlways, PTL DEF Spec, ImplementsOrderedMap, Abs!Spec

-----------------------------------------------------------------------------
(***************************************************************************)
(* The set.                                                                *)
(***************************************************************************)

setVars == <<set, iter>>

KeyOf(m, h) == m.headers[h].entry.key

\* No two headers of a set have the same key.
NoneTwice(m) == \A a, b \in DOMAIN m.headers : KeyOf(m, a) = KeyOf(m, b) => a = b

\* The iterator it is on its way along the links of m, which lead through s: the keys
\* that are due are not before the header it goes to next, and those it has been to are.
OnItsWay(m, it, s) ==
  /\ it = [next |-> it.next, forward |-> it.forward, due |-> it.due, seen |-> it.seen,
           again |-> it.again]
  /\ it.forward \in BOOLEAN /\ it.again = FALSE
  /\ it.next \in DOMAIN m.headers \cup {NULL}
  /\ it.due \cup it.seen \subseteq KeysIn(m)
  /\ it.next = NULL => it.due = {}
  /\ \A i, j \in 1 .. Len(s) :
       s[j] = it.next =>
         /\ KeyOf(m, s[i]) \in it.due => IF it.forward THEN i >= j ELSE i <= j
         /\ KeyOf(m, s[i]) \in it.seen => IF it.forward THEN i < j ELSE i > j

\* The set is a table, and the iterator is on its way along it.
SetIsTable(s) == Table(set, Members, s) /\ NoneTwice(set) /\ OnItsWay(set, iter, s)

SetIInv == \E s : SetIsTable(s)

SetIsKept == Keyed(set) /\ Roomy(set)

\* What a table says of its links.
LEMMA TableLinks ==
  ASSUME NEW m, NEW s, Table(m, Members, s)
  PROVE  /\ Len(s) \in Nat /\ m.len = Len(s) /\ s \in Seq(DOMAIN m.headers)
         /\ \A i \in 1 .. Len(s) : s[i] \in DOMAIN m.headers
         /\ \A i, j \in 1 .. Len(s) : s[i] = s[j] => i = j
         /\ \A h \in DOMAIN m.headers : (\E i \in 1 .. Len(s) : s[i] = h) /\ h # NULL
         /\ \A h \in DOMAIN m.headers : KeyOf(m, h) \in Keys
         /\ Sound(m, Members, s) /\ Chained(m.headers, m.first, m.last, s)
<1>1. /\ Sound(m, Members, s) /\ Chained(m.headers, m.first, m.last, s) /\ m.len = Len(s)
      /\ HeadersOK(m.headers, Members)
  BY DEF Table, Sound
<1>2. Len(s) \in Nat /\ s \in [1 .. Len(s) -> DOMAIN m.headers]
  BY <1>1, ChainLength
<1>3. \A i \in 1 .. Len(s) : s[i] \in DOMAIN m.headers
  BY <1>2
<1>4. \A h \in DOMAIN m.headers : h # NULL
  BY <1>1, SizesAssumption DEF HeadersOK, NULL
<1>5. \A h \in DOMAIN m.headers : KeyOf(m, h) \in Keys
  BY <1>1 DEF HeadersOK, Header, Members, KeyOf
<1>. QED  BY <1>1, <1>2, <1>3, <1>4, <1>5 DEF Chained

\* Where the iterator goes to after the j-th header.
LEMMA FollowingAt ==
  ASSUME NEW m, NEW s, Table(m, Members, s), NEW j \in 1 .. Len(s), NEW forward \in BOOLEAN
  PROVE  Following(m, s[j], forward)
           = IF forward THEN IF j = Len(s) THEN NULL ELSE s[j + 1]
             ELSE IF j = 1 THEN NULL ELSE s[j - 1]
<1>1. /\ Chained(m.headers, m.first, m.last, s) /\ Len(s) \in Nat
      /\ \A x, y \in 1 .. Len(s) : s[x] = s[y] => x = y
  BY TableLinks
<1>2. Len(s) # 0 /\ 1 \in 1 .. Len(s) /\ Len(s) \in 1 .. Len(s)
  BY <1>1
<1>3. /\ m.first = s[1] /\ m.last = s[Len(s)]
      /\ \A x \in 1 .. Len(s) :
           /\ m.headers[s[x]].before = IF x = 1 THEN NULL ELSE s[x - 1]
           /\ m.headers[s[x]].after = IF x = Len(s) THEN NULL ELSE s[x + 1]
  BY <1>1, <1>2 DEF Chained
<1>4. (s[j] = m.last <=> j = Len(s)) /\ (s[j] = m.first <=> j = 1)
  BY <1>1, <1>2, <1>3
<1>5. CASE forward = TRUE
  BY <1>3, <1>4, <1>5 DEF Following
<1>6. CASE forward = FALSE
  BY <1>3, <1>4, <1>6 DEF Following
<1>. QED  BY <1>5, <1>6

\* The iterator is on its way to the next header after a step.
LEMMA NextOnItsWay ==
  ASSUME NEW s, SetIsTable(s), IterNext
  PROVE  OnItsWay(set, iter', s)
<1> DEFINE h == iter.next
           key == KeyOf(set, h)
           f == Following(set, h, iter.forward)
           due == iter.due \ {key}
           seen == IF key \in iter.due THEN iter.seen \cup {key} ELSE iter.seen
           again == iter.again \/ key \in iter.seen
           it == [next |-> f, forward |-> iter.forward, due |-> due, seen |-> seen,
                  again |-> again]
<1>1. Table(set, Members, s) /\ NoneTwice(set) /\ OnItsWay(set, iter, s)
  BY DEF SetIsTable
<1>2. /\ iter.next # NULL
      /\ iter' = [iter EXCEPT !.next = f, !.due = due, !.seen = seen, !.again = again]
  BY DEF IterNext, KeyOf
<1> HIDE DEF f, due, seen, again
<1>3. iter' = it
  BY <1>1, <1>2 DEF OnItsWay
<1>4. PICK j \in 1 .. Len(s) : s[j] = h
  BY <1>1, <1>2, TableLinks DEF OnItsWay
<1>5. /\ Len(s) \in Nat
      /\ \A i \in 1 .. Len(s) : s[i] \in DOMAIN set.headers
      /\ \A x, y \in 1 .. Len(s) : s[x] = s[y] => x = y
      /\ \A a \in DOMAIN set.headers : (\E i \in 1 .. Len(s) : s[i] = a) /\ a # NULL
  BY <1>1, TableLinks
<1>6. /\ iter.forward \in BOOLEAN /\ iter.again = FALSE
      /\ iter.due \cup iter.seen \subseteq KeysIn(set)
      /\ \A i \in 1 .. Len(s) :
           /\ KeyOf(set, s[i]) \in iter.due => IF iter.forward THEN i >= j ELSE i <= j
           /\ KeyOf(set, s[i]) \in iter.seen => IF iter.forward THEN i < j ELSE i > j
  BY <1>1, <1>4 DEF OnItsWay
<1>7. f = IF iter.forward THEN IF j = Len(s) THEN NULL ELSE s[j + 1]
          ELSE IF j = 1 THEN NULL ELSE s[j - 1]
  <2>1. Following(set, s[j], iter.forward)
          = IF iter.forward THEN IF j = Len(s) THEN NULL ELSE s[j + 1]
            ELSE IF j = 1 THEN NULL ELSE s[j - 1]
    BY <1>1, <1>6, FollowingAt
  <2>. QED  BY <1>4, <2>1 DEF f
<1>8. again = FALSE
  BY <1>4, <1>5, <1>6 DEF again
<1>9. f \in DOMAIN set.headers \cup {NULL}
  <2>1. /\ j # Len(s) => j + 1 \in 1 .. Len(s)
        /\ j # 1 => j - 1 \in 1 .. Len(s)
    <3>1. Len(s) \in Nat
      BY <1>5
    <3>. QED  BY <3>1
  <2>2. /\ j # Len(s) => s[j + 1] \in DOMAIN set.headers
        /\ j # 1 => s[j - 1] \in DOMAIN set.headers
    BY <1>5, <2>1
  <2>. QED  BY <1>7, <2>2
<1>10. due \cup seen \subseteq KeysIn(set)
  <2>1. key \in KeysIn(set)
    BY <1>4, <1>5 DEF KeysIn, KeyOf
  <2>. QED  BY <1>6, <2>1 DEF due, seen
<1>11. \A i \in 1 .. Len(s) :
         /\ KeyOf(set, s[i]) \in due => IF iter.forward THEN i > j ELSE i < j
         /\ KeyOf(set, s[i]) \in seen => IF iter.forward THEN i <= j ELSE i >= j
  <2>. SUFFICES ASSUME NEW i \in 1 .. Len(s)
                PROVE  /\ KeyOf(set, s[i]) \in due => IF iter.forward THEN i > j ELSE i < j
                       /\ KeyOf(set, s[i]) \in seen => IF iter.forward THEN i <= j ELSE i >= j
    OBVIOUS
  <2>1. i \in Nat /\ j \in Nat
    OBVIOUS
  <2>2. KeyOf(set, s[i]) = key => i = j
    BY <1>1, <1>4, <1>5 DEF NoneTwice
  <2>3. KeyOf(set, s[j]) = key
    BY <1>4
  <2>4. KeyOf(set, s[i]) \in due => KeyOf(set, s[i]) \in iter.due /\ i # j
    BY <2>3 DEF due
  <2>5. KeyOf(set, s[i]) \in seen => KeyOf(set, s[i]) \in iter.seen \/ i = j
    BY <2>2 DEF seen
  <2>. QED  BY <1>6, <2>1, <2>4, <2>5
<1>12. f = NULL => due = {}
  <2>. SUFFICES ASSUME f = NULL, NEW k \in due
                PROVE  FALSE
    OBVIOUS
  <2>1. k \in KeysIn(set)
    BY <1>10
  <2>2. PICK i \in 1 .. Len(s) : KeyOf(set, s[i]) = k
    BY <1>5, <2>1 DEF KeysIn, KeyOf
  <2>3. IF iter.forward THEN i > j ELSE i < j
    BY <1>11, <2>2
  <2>4. /\ j # Len(s) => j + 1 \in 1 .. Len(s)
        /\ j # 1 => j - 1 \in 1 .. Len(s)
        /\ i <= Len(s) /\ i >= 1 /\ i \in Nat /\ j \in Nat /\ Len(s) \in Nat
    <3>1. Len(s) \in Nat
      BY <1>5
    <3>. QED  BY <3>1
  <2>5. IF iter.forward THEN j = Len(s) ELSE j = 1
    BY <1>5, <1>7, <2>4
  <2>. QED  BY <2>3, <2>4, <2>5
<1>13. ASSUME NEW i \in 1 .. Len(s), NEW x \in 1 .. Len(s), s[x] = f
       PROVE  /\ KeyOf(set, s[i]) \in due => IF iter.forward THEN i >= x ELSE i <= x
              /\ KeyOf(set, s[i]) \in seen => IF iter.forward THEN i < x ELSE i > x
  <2>1. f # NULL
    BY <1>5, <1>13
  <2>2. x = IF iter.forward THEN j + 1 ELSE j - 1
    <3>1. /\ j # Len(s) => j + 1 \in 1 .. Len(s)
          /\ j # 1 => j - 1 \in 1 .. Len(s)
      <4>1. Len(s) \in Nat
        BY <1>5
      <4>. QED  BY <4>1
    <3>. QED  BY <1>5, <1>7, <1>13, <2>1, <3>1
  <2>3. i \in Nat /\ j \in Nat /\ x \in Nat
    OBVIOUS
  <2>. QED  BY <1>11, <2>2, <2>3
<1>14. it = [next |-> it.next, forward |-> it.forward, due |-> it.due, seen |-> it.seen,
             again |-> it.again]
  OBVIOUS
<1>15. /\ it.next = f /\ it.forward = iter.forward /\ it.due = due /\ it.seen = seen
       /\ it.again = again
  OBVIOUS
<1> HIDE DEF it
<1>16. OnItsWay(set, it, s)
  BY <1>6, <1>8, <1>9, <1>10, <1>12, <1>13, <1>14, <1>15 DEF OnItsWay
<1>. QED  BY <1>3, <1>16

\* A key that is inserted comes at the end of the links: after all keys an iterator has
\* still to go to, and for a reverse iterator before them.
LEMMA InsertedOnItsWay ==
  ASSUME NEW m, NEW c, NEW s, NEW h, NEW key, NEW it, NEW hash,
         Table(m, Members, s), Table(c, Members, Append(s, h)),
         Extends(c, m, h, [key |-> key], hash), key \notin KeysIn(m),
         NoneTwice(m), OnItsWay(m, it, s)
  PROVE  NoneTwice(c) /\ OnItsWay(c, it, Append(s, h))
<1> DEFINE t == Append(s, h)
           k == Len(s)
<1>1. /\ k \in Nat /\ s \in Seq(DOMAIN m.headers)
      /\ \A i \in 1 .. k : s[i] \in DOMAIN m.headers
      /\ \A a \in DOMAIN m.headers : a # NULL
  BY TableLinks
<1>2. Len(t) = k + 1 /\ t[k + 1] = h /\ \A i \in 1 .. k : t[i] = s[i]
  <2>1. s \in Seq(DOMAIN m.headers \cup {h})
    BY <1>1
  <2>. QED  BY <2>1, AppendProperties
<1> HIDE DEF t, k
<1>3. /\ h \notin DOMAIN m.headers /\ DOMAIN c.headers = DOMAIN m.headers \cup {h}
      /\ KeyOf(c, h) = key
      /\ \A a \in DOMAIN m.headers : KeyOf(c, a) = KeyOf(m, a) /\ KeyOf(m, a) # key
  BY DEF Extends, KeyOf, KeysIn
<1>4. NoneTwice(c)
  BY <1>3 DEF NoneTwice
<1>5. KeysIn(m) \subseteq KeysIn(c)
  BY <1>3 DEF KeysIn, KeyOf
<1>6. key \notin it.due /\ key \notin it.seen /\ it.next # h
  <2>1. h \in DOMAIN c.headers
    BY <1>3
  <2>2. h # NULL
    BY <2>1, TableLinks
  <2>3. it.next \in DOMAIN m.headers \cup {NULL} /\ it.due \cup it.seen \subseteq KeysIn(m)
    BY DEF OnItsWay
  <2>. QED  BY <1>3, <2>2, <2>3
<1>7. ASSUME NEW i \in 1 .. k + 1, NEW j \in 1 .. k + 1, t[j] = it.next
      PROVE  /\ KeyOf(c, t[i]) \in it.due => IF it.forward THEN i >= j ELSE i <= j
             /\ KeyOf(c, t[i]) \in it.seen => IF it.forward THEN i < j ELSE i > j
  <2>1. j \in 1 .. k /\ s[j] = it.next
    BY <1>1, <1>2, <1>6, <1>7
  <2>2. CASE i = k + 1
    BY <1>2, <1>3, <1>6, <2>2
  <2>3. CASE i \in 1 .. k
    <3>1. KeyOf(c, t[i]) = KeyOf(m, s[i])
      BY <1>1, <1>2, <1>3, <2>3
    <3>. QED  BY <2>1, <2>3, <3>1 DEF OnItsWay, k
  <2>4. i = k + 1 \/ i \in 1 .. k
    BY <1>1
  <2>. QED  BY <2>2, <2>3, <2>4
<1>8. it.next \in DOMAIN c.headers \cup {NULL} /\ it.due \cup it.seen \subseteq KeysIn(c)
  BY <1>3, <1>5 DEF OnItsWay
<1>9. OnItsWay(c, it, t)
  BY <1>2, <1>7, <1>8 DEF OnItsWay
<1>. QED  BY <1>4, <1>9 DEF t

\* Erasing another key than the next leaves the others in their order.
LEMMA ErasedOnItsWay ==
  ASSUME NEW m, NEW e, NEW s, NEW d \in 1 .. Len(s), NEW key, NEW it,
         Table(m, Members, s), Loses(e, m, s, d), KeyOf(m, s[d]) = key,
         s[d] # it.next, NoneTwice(m), OnItsWay(m, it, s)
  PROVE  /\ NoneTwice(e)
         /\ OnItsWay(e, [it EXCEPT !.due = @ \ {key}, !.seen = @ \ {key}], Without(s, d))
<1> DEFINE t == Without(s, d)
           k == Len(s)
           due == it.due \ {key}
           seen == it.seen \ {key}
           new == [it EXCEPT !.due = @ \ {key}, !.seen = @ \ {key}]
           At(i) == IF i < d THEN i ELSE i + 1
<1>1. /\ k \in Nat /\ s \in Seq(DOMAIN m.headers)
      /\ \A i \in 1 .. k : s[i] \in DOMAIN m.headers
      /\ \A i, j \in 1 .. k : s[i] = s[j] => i = j
      /\ \A a \in DOMAIN m.headers : (\E i \in 1 .. k : s[i] = a) /\ a # NULL
  BY TableLinks, ZenonT(60)
<1>2. Len(t) = k - 1 /\ \A i \in 1 .. k - 1 : t[i] = s[At(i)]
  BY <1>1, WithoutOne DEF Without
<1>3. /\ d \in 1 .. k /\ d \in Nat
      /\ \A i \in 1 .. k - 1 : i \in Nat /\ At(i) \in 1 .. k /\ At(i) # d
      /\ \A i, j \in 1 .. k - 1 : (i >= j <=> At(i) >= At(j)) /\ (i < j <=> At(i) < At(j))
  <2>1. d \in 1 .. k
    OBVIOUS
  <2> HIDE DEF k
  <2>. QED  BY <1>1, <2>1, SMTT(30)
<1> HIDE DEF t, k, At
<1>4. /\ DOMAIN e.headers = DOMAIN m.headers \ {s[d]}
      /\ \A a \in DOMAIN e.headers : KeyOf(e, a) = KeyOf(m, a)
  BY DEF Loses, KeyOf
<1>5. NoneTwice(e)
  BY <1>4 DEF NoneTwice
<1>6. KeysIn(m) \ {key} \subseteq KeysIn(e)
  BY <1>4 DEF KeysIn, KeyOf
<1>7. new = [next |-> it.next, forward |-> it.forward, due |-> due, seen |-> seen,
             again |-> it.again]
  <2>1. it = [next |-> it.next, forward |-> it.forward, due |-> it.due, seen |-> it.seen,
              again |-> it.again]
    BY DEF OnItsWay
  <2>2. new = [it EXCEPT !.due = due, !.seen = seen]
    OBVIOUS
  <2> HIDE DEF due, seen, new
  <2>. QED  BY <2>1, <2>2
<1> HIDE DEF due, seen, new
<1>8. /\ new.next = it.next /\ new.forward = it.forward /\ new.due = due /\ new.seen = seen
      /\ new.again = it.again
      /\ new = [next |-> new.next, forward |-> new.forward, due |-> new.due,
                seen |-> new.seen, again |-> new.again]
  BY <1>7
<1>9. due \subseteq it.due /\ seen \subseteq it.seen /\ key \notin due /\ key \notin seen
  BY DEF due, seen
<1>10. ASSUME NEW i \in 1 .. k - 1, NEW j \in 1 .. k - 1, t[j] = it.next
       PROVE  /\ KeyOf(e, t[i]) \in due => IF it.forward THEN i >= j ELSE i <= j
              /\ KeyOf(e, t[i]) \in seen => IF it.forward THEN i < j ELSE i > j
  <2>1. s[At(j)] = it.next /\ At(i) \in 1 .. k /\ At(j) \in 1 .. k
    BY <1>2, <1>3, <1>10
  <2>2. /\ KeyOf(m, s[At(i)]) \in it.due => IF it.forward THEN At(i) >= At(j) ELSE At(i) <= At(j)
        /\ KeyOf(m, s[At(i)]) \in it.seen => IF it.forward THEN At(i) < At(j) ELSE At(i) > At(j)
    BY <2>1 DEF OnItsWay, k
  <2>3. KeyOf(e, t[i]) = KeyOf(m, s[At(i)])
    <3>1. s[At(i)] \in DOMAIN e.headers
      BY <1>1, <1>3, <1>4, <2>1
    <3>. QED  BY <1>2, <1>4, <3>1
  <2>4. /\ At(i) >= At(j) <=> i >= j
        /\ At(i) <= At(j) <=> i <= j
        /\ At(i) < At(j) <=> i < j
        /\ At(i) > At(j) <=> i > j
    <3>1. /\ j >= i <=> At(j) >= At(i)
          /\ i >= j <=> At(i) >= At(j)
          /\ i < j <=> At(i) < At(j)
          /\ j < i <=> At(j) < At(i)
      BY <1>3
    <3>2. i \in Nat /\ j \in Nat /\ At(i) \in Nat /\ At(j) \in Nat
      <4>1. \A x \in 1 .. k : x \in Nat
        OBVIOUS
      <4>2. i \in Nat /\ j \in Nat
        OBVIOUS
      <4>. QED  BY <2>1, <4>1, <4>2
    <3>3. \A a, b \in Nat : (a >= b <=> b <= a) /\ (a > b <=> b < a)
      OBVIOUS
    <3>. QED  BY <3>1, <3>2, <3>3
  <2>. QED  BY <1>9, <2>2, <2>3, <2>4
<1>11. /\ it.next \in DOMAIN e.headers \cup {NULL}
       /\ due \cup seen \subseteq KeysIn(e)
       /\ it.next = NULL => due = {}
  BY <1>4, <1>6, <1>9 DEF OnItsWay
<1>12. OnItsWay(e, new, t)
  BY <1>2, <1>8, <1>10, <1>11 DEF OnItsWay
<1>. QED  BY <1>5, <1>12 DEF new, t

\* An iterator that begins has all keys before it.
LEMMA BeginOnItsWay ==
  ASSUME NEW s, SetIsTable(s), NEW forward \in BOOLEAN, IterBegin(forward)
  PROVE  OnItsWay(set, iter', s)
<1> DEFINE next == IF forward THEN set.first ELSE set.last
           it == [next |-> next, forward |-> forward, due |-> KeysIn(set), seen |-> {},
                  again |-> FALSE]
<1>1. iter' = it /\ set.len # 0
  BY DEF IterBegin, NoIter
<1>2. /\ Len(s) \in Nat /\ set.len = Len(s) /\ Chained(set.headers, set.first, set.last, s)
      /\ \A i \in 1 .. Len(s) : s[i] \in DOMAIN set.headers
      /\ \A i, j \in 1 .. Len(s) : s[i] = s[j] => i = j
      /\ \A a \in DOMAIN set.headers : a # NULL
  BY TableLinks DEF SetIsTable
<1>3. Len(s) # 0 /\ 1 \in 1 .. Len(s) /\ Len(s) \in 1 .. Len(s)
  BY <1>1, <1>2
<1>4. next = IF forward THEN s[1] ELSE s[Len(s)]
  BY <1>2, <1>3 DEF Chained
<1>5. next \in DOMAIN set.headers /\ next # NULL
  BY <1>2, <1>3, <1>4
<1> HIDE DEF next
<1>6. /\ it.next = next /\ it.forward = forward /\ it.due = KeysIn(set) /\ it.seen = {}
      /\ it.again = FALSE
      /\ it = [next |-> it.next, forward |-> it.forward, due |-> it.due, seen |-> it.seen,
               again |-> it.again]
  OBVIOUS
<1> HIDE DEF it
<1>7. ASSUME NEW i \in 1 .. Len(s), NEW j \in 1 .. Len(s), s[j] = next
      PROVE  IF forward THEN i >= j ELSE i <= j
  <2>1. j = IF forward THEN 1 ELSE Len(s)
    BY <1>2, <1>3, <1>4, <1>7
  <2>2. i \in Nat /\ i >= 1 /\ i <= Len(s)
    <3>1. Len(s) \in Nat
      BY <1>2
    <3>. QED  BY <3>1
  <2>. QED  BY <2>1, <2>2
<1>8. OnItsWay(set, it, s)
  BY <1>5, <1>6, <1>7 DEF OnItsWay
<1>. QED  BY <1>1, <1>8

\* No iterator is on its way.
LEMMA NoIterOnItsWay ==
  ASSUME NEW m, NEW s
  PROVE  OnItsWay(m, NoIter, s)
<1> DEFINE it == NoIter
<1>1. /\ it.next = NULL /\ it.forward = TRUE /\ it.due = {} /\ it.seen = {} /\ it.again = FALSE
      /\ it = [next |-> it.next, forward |-> it.forward, due |-> it.due, seen |-> it.seen,
               again |-> it.again]
  BY DEF NoIter
<1> HIDE DEF it
<1>2. OnItsWay(m, it, s)
  BY <1>1 DEF OnItsWay
<1>. QED  BY <1>2 DEF it

\* A clone has the keys of its set, each of them once.
LEMMA ClonedOnce ==
  ASSUME NEW m, NEW s, NEW c, Table(m, Members, s), NoneTwice(m), c = Cloned(m)
  PROVE  \E t : Table(c, Members, t) /\ NoneTwice(c)
<1>1. PICK t : /\ Table(c, Members, t) /\ Len(t) = Len(s)
               /\ Along(c, t) = Along(m, s)
  BY ClonedAlong
<1>2. \A i \in 1 .. Len(s) : KeyOf(c, t[i]) = KeyOf(m, s[i])
  <2>2. /\ \A i \in 1 .. Len(t) : Along(c, t)[i] = c.headers[t[i]].entry
        /\ \A i \in 1 .. Len(s) : Along(m, s)[i] = m.headers[s[i]].entry
    BY DEF Along
  <2>3. \A i \in 1 .. Len(s) : c.headers[t[i]].entry = m.headers[s[i]].entry
    BY <1>1, <2>2
  <2>. QED  BY <2>3 DEF KeyOf
<1>3. ASSUME NEW a \in DOMAIN c.headers, NEW b \in DOMAIN c.headers, KeyOf(c, a) = KeyOf(c, b)
      PROVE  a = b
  <2>1. \A h \in DOMAIN c.headers : (\E x \in 1 .. Len(t) : t[x] = h) /\ h # NULL
    <3>1. Table(c, Members, t)
      BY <1>1
    <3>. QED  BY <3>1, TableLinks
  <2>2. PICK i \in 1 .. Len(t) : t[i] = a
    BY <2>1
  <2>3. PICK j \in 1 .. Len(t) : t[j] = b
    BY <2>1
  <2>4. KeyOf(m, s[i]) = KeyOf(m, s[j])
    <3>1. i \in 1 .. Len(s) /\ j \in 1 .. Len(s)
      BY <1>1
    <3>. QED  BY <1>2, <1>3, <2>2, <2>3, <3>1
  <2>5. \A x \in 1 .. Len(s) : s[x] \in DOMAIN m.headers
    BY TableLinks
  <2>6. s[i] = s[j]
    BY <1>1, <2>4, <2>5 DEF NoneTwice
  <2>7. i = j
    <3>1. i \in 1 .. Len(s) /\ j \in 1 .. Len(s)
      BY <1>1
    <3>2. \A x, y \in 1 .. Len(s) : s[x] = s[y] => x = y
      BY TableLinks
    <3>. QED  BY <2>6, <3>1, <3>2
  <2>. QED  BY <2>2, <2>3, <2>7
<1>. QED  BY <1>1, <1>3 DEF NoneTwice

\* The set starts as a table with no iterator.
LEMMA SetInitKept == SetInit => SetIInv /\ SetIsKept
<1>. SUFFICES ASSUME SetInit
              PROVE  SetIInv /\ SetIsKept
  OBVIOUS
<1>1. Table(set, Members, << >>)
  BY EmptyTableIsTable DEF SetInit
<1>2. set.headers = << >> /\ set.groups = << >> /\ set.available = 0 /\ set.len = 0
  BY DEF SetInit, EmptyTable
<1>3. DOMAIN << >> = {}
  OBVIOUS
<1>4. NoneTwice(set)
  BY <1>2, <1>3 DEF NoneTwice
<1>5. OnItsWay(set, iter, << >>)
  BY NoIterOnItsWay DEF SetInit
<1>. QED  BY <1>1, <1>2, <1>3, <1>4, <1>5 DEF SetIInv, SetIsTable, SetIsKept, Keyed, Roomy

\* Every operation keeps the invariants.
LEMMA SetStepKept ==
  ASSUME SetIInv, [SetNext]_setVars
  PROVE  SetIInv' /\ (CloneLimit <= 1 /\ SetIsKept => SetIsKept')
<1>1. PICK s : SetIsTable(s)
  BY DEF SetIInv
<1>2. Table(set, Members, s) /\ NoneTwice(set) /\ OnItsWay(set, iter, s)
  BY <1>1 DEF SetIsTable
<1>3. ASSUME NEW key \in Keys, SetInsert(key)
      PROVE  SetIInv' /\ (SetIsKept => SetIsKept')
  <2> DEFINE entry == [key |-> key]
  <2>1. entry \in Members /\ entry.key = key
    BY DEF Members
  <2>2. /\ set' = Inserted(set, entry) /\ set.len < MaxHeaders /\ key \notin KeysIn(set)
        /\ iter' = iter
    BY <1>3 DEF SetInsert
  <2> HIDE DEF entry
  <2>3. /\ \E h : Table(set', Members, Append(s, h)) /\ Extends(set', set, h, entry, HashOf[key])
        /\ Keyed(set) => Keyed(set')
        /\ Roomy(set) => Roomy(set')
    BY <1>2, <2>1, <2>2, InsertedTable
  <2>4. PICK h : Table(set', Members, Append(s, h)) /\ Extends(set', set, h, entry, HashOf[key])
    BY <2>3
  <2>5. NoneTwice(set') /\ OnItsWay(set', iter, Append(s, h))
    BY <1>2, <2>2, <2>4, InsertedOnItsWay DEF entry
  <2>. QED  BY <2>2, <2>3, <2>4, <2>5 DEF SetIInv, SetIsTable, SetIsKept
<1>4. ASSUME NEW key \in Keys, SetErase(key)
      PROVE  SetIInv' /\ (SetIsKept => SetIsKept')
  <2>1. /\ Found(set, key) # 0 /\ set' = Erased(set, key, Found(set, key))
        /\ HeaderAt(set, key, Found(set, key)) # iter.next
        /\ iter' = [iter EXCEPT !.due = @ \ {key}, !.seen = @ \ {key}]
    BY <1>4 DEF SetErase
  <2>2. /\ \E i \in 1 .. Len(s) :
             /\ Table(set', Members, Without(s, i))
             /\ s[i] = HeaderAt(set, key, Found(set, key))
             /\ set.headers[s[i]].entry.key = key
             /\ Loses(set', set, s, i)
        /\ Keyed(set) => Keyed(set')
        /\ Roomy(set) => Roomy(set')
    BY <1>2, <2>1, ErasedTable
  <2>3. PICK i \in 1 .. Len(s) :
             /\ Table(set', Members, Without(s, i))
             /\ s[i] = HeaderAt(set, key, Found(set, key))
             /\ set.headers[s[i]].entry.key = key
             /\ Loses(set', set, s, i)
    BY <2>2
  <2>4. KeyOf(set, s[i]) = key /\ s[i] # iter.next
    BY <2>1, <2>3 DEF KeyOf
  <2>5. /\ NoneTwice(set')
        /\ OnItsWay(set', [iter EXCEPT !.due = @ \ {key}, !.seen = @ \ {key}], Without(s, i))
    BY <1>2, <2>3, <2>4, ErasedOnItsWay
  <2>6. OnItsWay(set', iter', Without(s, i))
    BY <2>1, <2>5
  <2>. QED  BY <2>2, <2>3, <2>5, <2>6 DEF SetIInv, SetIsTable, SetIsKept
<1>5. ASSUME SetClone
      PROVE  SetIInv' /\ (CloneLimit <= 1 /\ SetIsKept => SetIsKept')
  <2>1. set' = Cloned(set) /\ set.len <= CloneLimit /\ iter' = NoIter
    BY <1>5 DEF SetClone
  <2>2. PICK t : Table(set', Members, t) /\ NoneTwice(set')
    BY <1>2, <2>1, ClonedOnce
  <2>3. OnItsWay(set', iter', t)
    BY <2>1, NoIterOnItsWay
  <2>4. CloneLimit <= 1 => set.len <= 1
    <3>1. set.len \in Nat
      BY <1>2, TableLinks
    <3>. QED  BY <2>1, <3>1, SizesAssumption
  <2>5. CloneLimit <= 1 /\ Keyed(set) /\ Roomy(set) => Keyed(set') /\ Roomy(set')
    BY <1>2, <2>1, <2>4, ClonedTable
  <2>. QED  BY <2>2, <2>3, <2>5 DEF SetIInv, SetIsTable, SetIsKept
<1>6. ASSUME NEW forward \in BOOLEAN, IterBegin(forward)
      PROVE  SetIInv' /\ (SetIsKept => SetIsKept')
  <2>1. OnItsWay(set, iter', s) /\ set' = set
    BY <1>1, <1>6, BeginOnItsWay DEF IterBegin
  <2>. QED  BY <1>2, <2>1 DEF SetIInv, SetIsTable, SetIsKept
<1>7. ASSUME IterNext
      PROVE  SetIInv' /\ (SetIsKept => SetIsKept')
  <2>1. OnItsWay(set, iter', s) /\ set' = set
    BY <1>1, <1>7, NextOnItsWay DEF IterNext
  <2>. QED  BY <1>2, <2>1 DEF SetIInv, SetIsTable, SetIsKept
<1>8. ASSUME IterDone
      PROVE  SetIInv' /\ (SetIsKept => SetIsKept')
  <2>1. iter' = NoIter /\ set' = set
    BY <1>8 DEF IterDone
  <2>2. OnItsWay(set, iter', s)
    BY <2>1, NoIterOnItsWay
  <2>. QED  BY <1>2, <2>1, <2>2 DEF SetIInv, SetIsTable, SetIsKept
<1>9. ASSUME UNCHANGED setVars
      PROVE  SetIInv' /\ (SetIsKept => SetIsKept')
  <2>1. set' = set /\ iter' = iter
    BY <1>9 DEF setVars
  <2>. QED  BY <1>2, <2>1 DEF SetIInv, SetIsTable, SetIsKept
<1>. QED  BY <1>3, <1>4, <1>5, <1>6, <1>7, <1>8, <1>9 DEF SetNext

\* The set is always a table, and the iterator always on its way.
LEMMA SetTableAlways == SetSpec => []SetIInv
<1>1. SetInit => SetIInv
  BY SetInitKept
<1>2. SetIInv /\ [SetNext]_setVars => SetIInv'
  BY SetStepKept
<1>. QED  BY <1>1, <1>2, PTL DEF SetSpec, setVars

\* And find and the counts are right, if the program clones small sets only.
LEMMA SetKeptAlways == CloneLimit <= 1 /\ SetSpec => [](SetIInv /\ SetIsKept)
<1>. SUFFICES ASSUME CloneLimit <= 1
              PROVE  SetSpec => [](SetIInv /\ SetIsKept)
  OBVIOUS
<1>1. SetIInv /\ SetIsKept /\ [SetNext]_setVars => (SetIInv /\ SetIsKept)'
  BY SetStepKept
<1>. QED  BY <1>1, SetInitKept, PTL DEF SetSpec, setVars
-----------------------------------------------------------------------------
(***************************************************************************)
(* The theorems.                                                           *)
(***************************************************************************)

\* An iterator (cubs_set_iter_next, cubs_set_reverse_iter_next) goes to every key that
\* stays in the set, and to none twice, whatever the program inserts and erases between
\* its steps: groups that grow and double move the slots, but not the headers.
THEOREM IterationKept == SetSpec => []IterationComplete
<1>1. SetIInv => IterationComplete
  BY DEF SetIInv, SetIsTable, OnItsWay, IterationComplete
<1>. QED  BY <1>1, SetTableAlways, PTL

\* A clone (cubs_set_clone) of any size is equal to its set (cubs_set_eql) and has its
\* hash, although it files all its keys under the hash of the first.
THEOREM ClonesKept == SetSpec => []CloneEqual
<1>1. SetIInv => CloneEqual
  <2>. SUFFICES ASSUME SetIInv
                PROVE  CloneEqual
    OBVIOUS
  <2>1. PICK s : Table(set, Members, s)
    BY DEF SetIInv, SetIsTable
  <2>2. EntriesOf(Cloned(set), TRUE) = EntriesOf(set, TRUE) /\ Eql(set, Cloned(set))
    BY <2>1, ClonedEqual
  <2>3. HashOfSet(set) = HashOfSet(Cloned(set))
    BY <2>2 DEF HashOfSet
  <2>. QED  BY <2>2, <2>3 DEF CloneEqual
<1>. QED  BY <1>1, SetTableAlways, PTL

\* No header of a set is lost or duplicated, cubs_set_contains finds just the keys that
\* iteration shows, the counts do not wrap around, and cubs_set_deinit frees every
\* header, as long as the program goes on with no clone of several keys.
THEOREM SetKept == CloneLimit <= 1 /\ SetSpec => []KeysFiled
<1>1. SetIInv /\ SetIsKept => KeysFiled
  <2>. SUFFICES ASSUME SetIInv, SetIsKept
                PROVE  KeysFiled
    OBVIOUS
  <2>1. PICK s : Table(set, Members, s)
    BY DEF SetIInv, SetIsTable
  <2>2. TableTypeOK(set, Members)
    BY <2>1, TableTypes DEF SetIsKept
  <2>3. HeadersFiled(set) /\ IterationsAgree(set)
    BY <2>1, TableIsGood
  <2>4. DOMAIN Deinited(set).headers = {} /\ Deinited(set).first = NULL
    <3>1. Sound(set, Members, s)
      BY <2>1 DEF Table
    <3>. QED  BY <3>1, DeinitedFrees
  <2>5. ASSUME NEW key \in Keys
        PROVE  SetContains(set, key) <=> key \in KeysIn(set)
    <3>1. Found(set, key) # 0 =>
            \E h \in DOMAIN set.headers : set.headers[h].entry.key = key
      BY <2>1, FoundHeader
    <3>2. Found(set, key) = 0 =>
            \A h \in DOMAIN set.headers :
              set.headers[h].hash = HashOf[key] => set.headers[h].entry.key # key
      BY <2>1, FoundHeader
    <3>3. \A h \in DOMAIN set.headers : set.headers[h].hash = HashOf[set.headers[h].entry.key]
      BY DEF SetIsKept, Keyed
    <3>. QED  BY <3>1, <3>2, <3>3 DEF SetContains, KeysIn
  <2>. QED  BY <2>2, <2>3, <2>4, <2>5 DEF KeysFiled
<1>. QED  BY <1>1, SetKeptAlways, PTL
=============================================================================
