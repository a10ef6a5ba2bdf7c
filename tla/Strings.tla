------------------------------ MODULE Strings ------------------------------
(***************************************************************************)
(* Strings of src/src/primitives/string/string.c, the check of their       *)
(* encoding in src/src/util/utf8.c, and the vector operations on them and  *)
(* on the masks of maps in src/src/util/simd.c.                            *)
(*                                                                         *)
(* Bytes are a sequence of numbers.  A string's REPRESENTATION has them in *)
(* place, filled up with zeros, when they are few, and else in a buffer of *)
(* whole chunks.  Memory behind a string's bytes starts with a zero.       *)
(***************************************************************************)
EXTENDS Integers, SequencesExt

CONSTANTS
  MaxSso,      \* MAX_SSO_LEN, 23
  Chunk        \* bytes of a vector, 32

ASSUME TextSizesAssumption == MaxSso \in Nat /\ Chunk \in Nat \ {0}

VARIABLE texts  \* two texts, and a place in the first

NPos == -1     \* CUBS_STRING_N_POS, the largest size_t

Zeros(n) == [i \in 1 .. n |-> 0]

\* A mutant: two bytes are enough for a character of three.
ValidInShort(memory, len) ==
  LET c(i) == IF i > Len(memory) THEN 0 ELSE memory[i]
      trails(i, n) == \A k \in 1 .. n : c(i + k) \div 64 = 2
      from[i \in 1 .. len + 4] ==
        \/ i > len
        \/ c(i) # 0 /\ c(i) < 128 /\ from[i + 1]
        \/ c(i) \div 32 = 6 /\ trails(i, 1) /\ from[i + 2]
        \/ c(i) \div 16 = 14 /\ trails(i, 1) /\ from[i + 3]
        \/ c(i) \div 8 = 30 /\ trails(i, 3) /\ from[i + 4]
  IN  from[1]

\* cubs_utf8_is_valid: of the memory from a place on, for a number of bytes.
ValidIn(memory, len) ==
  LET c(i) == IF i > Len(memory) THEN 0 ELSE memory[i]
      trails(i, n) == \A k \in 1 .. n : c(i + k) \div 64 = 2
      from[i \in 1 .. len + 4] ==
        \/ i > len
        \/ c(i) # 0 /\ c(i) < 128 /\ from[i + 1]
        \/ c(i) \div 32 = 6 /\ trails(i, 1) /\ from[i + 2]
        \/ c(i) \div 16 = 14 /\ trails(i, 2) /\ from[i + 3]
        \/ c(i) \div 8 = 30 /\ trails(i, 3) /\ from[i + 4]
  IN  from[1]
-----------------------------------------------------------------------------
(***************************************************************************)
(* Vectors.                                                                *)
(***************************************************************************)

\* _cubs_simd_cmpeq_mask_8bit_32wide_aligned and the one of 16: the bits that are set.
CmpeqMask32(byte, lane) == {i \in 1 .. Chunk : lane[i] = byte}
CmpeqMask16(byte, lane) == {i \in 1 .. Chunk \div 2 : lane[i] = byte}

\* _cubs_simd_index_of_first_zero_8bit_32wide_aligned and the one of 16; 0 if none is.
LowestBit(mask) == IF mask = {} THEN 0 ELSE Min(mask)
FirstZero32(lane) == LowestBit(CmpeqMask32(0, lane))
FirstZero16(lane) == LowestBit(CmpeqMask16(0, lane))

Lane(buf, i) == SubSeq(buf, i * Chunk + 1, (i + 1) * Chunk)

\* _cubs_simd_cmpeq_strings: all chunks with the terminator.
CmpeqStrings(buf, other, len) ==
  \A i \in 0 .. len \div Chunk : Lane(buf, i) = Lane(other, i)

\* _cubs_simd_cmpeq_string_slice: whole chunks, then byte by byte.
CmpeqSlice(buf, slice) ==
  LET whole == Len(slice) \div Chunk
  IN  /\ \A i \in 0 .. whole - 1 : Lane(buf, i) = Lane(slice, i)
      /\ \A i \in whole * Chunk + 1 .. Len(slice) : buf[i] = slice[i]

\* string_hash_iteration: the bytes before num, each with num.
HashIteration(lane, num) ==
  [i \in DOMAIN lane |-> ((IF num > i - 1 THEN lane[i] ELSE 0) + num) % 256]

\* _cubs_simd_string_hash_sso; HASH_MERGE is taken as the list of what it merges.
HashSso(sso, len) == <<len, <<HashIteration(SubSeq(sso, 1, len) \o Zeros(Chunk - len), len)>> >>

Char(n) == ((n + 128) % 256) - 128

\* _cubs_simd_string_hash_heap.
HashHeap(buf, len) ==
  LET n == (len + Chunk - 1) \div Chunk
  IN  <<len, [j \in 1 .. n |-> HashIteration(Lane(buf, j - 1),
                                  IF j # n THEN Chunk ELSE Char(n * (j - 1) - len))]>>
-----------------------------------------------------------------------------
(***************************************************************************)
(* Strings.                                                                *)
(***************************************************************************)

IsSso(s) == s.sso

\* cubs_string_init_unchecked.
StringOf(bytes) ==
  LET len == Len(bytes)
  IN  IF len <= MaxSso THEN [len |-> len, sso |-> TRUE, buf |-> bytes \o Zeros(MaxSso + 1 - len)]
      ELSE [len |-> len, sso |-> FALSE,
            buf |-> bytes \o Zeros(1 + Chunk - ((len + 1) % Chunk))]

\* cubs_string_as_slice.
AsSlice(s) == SubSeq(s.buf, 1, s.len)

\* cubs_string_eql.
StringEql(s, t) ==
  IF IsSso(s) THEN s.len = t.len /\ s.buf = t.buf
  ELSE s.len = t.len /\ CmpeqStrings(s.buf, t.buf, s.len)

\* cubs_string_eql_slice.
EqlSlice(s, slice) ==
  /\ s.len = Len(slice)
  /\ IF IsSso(s) THEN s.buf = slice \o Zeros(MaxSso + 1 - s.len) ELSE CmpeqSlice(s.buf, slice)

\* cubs_string_cmp, by strcmp.
Cmp(s, t) ==
  LET a == AsSlice(s) \o <<0>>
      b == AsSlice(t) \o <<0>>
      differ == {i \in DOMAIN a \cap DOMAIN b : a[i] # b[i]}
  IN  IF differ = {} THEN "equal"
      ELSE IF a[Min(differ)] > b[Min(differ)] THEN "greater" ELSE "less"

\* cubs_string_hash.
StringHash(s) == IF IsSso(s) THEN HashSso(s.buf, s.len) ELSE HashHeap(s.buf, s.len)

MatchesAt(bytes, slice, i) == \A k \in 1 .. Len(slice) : bytes[i + k] = slice[k]

\* cubs_string_find and index_of_pos_linear.
Find(s, slice, start) ==
  LET at == {i \in start .. s.len - Len(slice) : MatchesAt(AsSlice(s), slice, i)}
  IN  IF Len(slice) > s.len \/ start + Len(slice) >= s.len \/ slice = << >> \/ at = {}
      THEN NPos ELSE Min(at)

\* cubs_string_rfind; what is below 0 wraps to a number that is too large.
RFind(s, slice, start) ==
  LET at == {i \in 0 .. start - Len(slice) : MatchesAt(AsSlice(s), slice, i)}
  IN  IF Len(slice) > s.len \/ start > s.len \/ slice = << >> \/ at = {} THEN NPos ELSE Max(at)

\* concat_valid_slices, of cubs_string_concat and its variants.
Concat(s, t) == StringOf(AsSlice(s) \o AsSlice(t))

\* cubs_string_init, of bytes with what is behind them in memory.
Error(error) == [error |-> error, string |-> StringOf(<< >>)]
Created(memory, len) ==
  IF ValidIn(memory, len) THEN [error |-> "none", string |-> StringOf(SubSeq(memory, 1, len))]
  ELSE Error("invalidUtf8")

\* cubs_string_concat_slice.
ConcatSlice(s, slice) ==
  IF ValidIn(slice, Len(slice)) THEN [error |-> "none", string |-> StringOf(AsSlice(s) \o slice)]
  ELSE Error("invalidUtf8")

\* cubs_string_substr.
Substr(s, start, end) ==
  IF start = 0 /\ end = 0 THEN Error("none")
  ELSE IF start >= s.len \/ end > s.len \/ start > end THEN Error("indexOutOfBounds")
  ELSE IF start = end THEN Error("none")
  ELSE Created(SubSeq(s.buf, start + 1, Len(s.buf)), end - start)

\* cubs_string_from_float, after sprintf: zeros at the end go, and the point with them.
Printed(text) ==
  LET point == Min({i \in DOMAIN text : text[i] = 46})
      kept == {i \in DOMAIN text : i < point \/ \E k \in i .. Len(text) : text[k] \notin {46, 48}}
  IN  SubSeq(text, 1, Max(kept))
-----------------------------------------------------------------------------
(***************************************************************************)
(* What is promised.                                                       *)
(***************************************************************************)

Trails(lead) ==
  IF lead \div 32 = 6 THEN 1 ELSE IF lead \div 16 = 14 THEN 2 ELSE IF lead \div 8 = 30 THEN 3 ELSE 0
IsTrail(byte) == byte \div 64 = 2

\* Every lead byte has its trail bytes, and every trail byte its lead.
WellFormed(bytes) ==
  /\ \A i \in DOMAIN bytes : bytes[i] # 0 /\ bytes[i] < 248
  /\ \A i \in DOMAIN bytes :
       /\ i + Trails(bytes[i]) <= Len(bytes)
       /\ \A k \in 1 .. Trails(bytes[i]) : IsTrail(bytes[i + k])
       /\ IsTrail(bytes[i]) => \E k \in 1 .. 3 : i - k > 0 /\ ~IsTrail(bytes[i - k]) /\ Trails(bytes[i - k]) >= k
                                 /\ \A j \in i - k + 1 .. i : IsTrail(bytes[j])

Before(a, b) == \E k \in 0 .. Min({Len(a), Len(b)}) :
  /\ SubSeq(a, 1, k) = SubSeq(b, 1, k)
  /\ \/ k = Len(a) /\ k < Len(b)
     \/ k < Len(a) /\ k < Len(b) /\ a[k + 1] < b[k + 1]

\* Whole strings are accepted exactly when they are well-formed: no lead byte
\* at the end whose trail bytes would be read from what follows.
EncodingChecked(a) == Created(a \o <<0>>, Len(a)).error = "none" <=> WellFormed(a)

\* Comparing chunks and words decides as comparing bytes does, for either
\* representation, and equal strings have equal hashes.
ComparesBytes(a, b) ==
  LET s == StringOf(a)
      t == StringOf(b)
  IN  /\ StringEql(s, t) <=> a = b
      /\ EqlSlice(s, b) <=> a = b
      /\ Cmp(s, t) = IF a = b THEN "equal" ELSE IF Before(a, b) THEN "less" ELSE "greater"
      /\ StringEql(s, t) => StringHash(s) = StringHash(t)

\* Where a text is in another.
Occurrences(a, b) == {i \in 0 .. Len(a) - Len(b) : b # << >> /\ SubSeq(a, i + 1, i + Len(b)) = b}

\* What find returns is the first occurrence from the start on; where it returns none, there
\* is none, but perhaps one right at the start that ends the string.  rfind returns the last
\* occurrence that ends at the start or before.
FindsOccurrences(a, b, start) ==
  LET s == StringOf(a)
      from == {i \in Occurrences(a, b) : i >= start}
      upTo == {i \in Occurrences(a, b) : i + Len(b) <= start /\ start <= Len(a)}
  IN  /\ \/ from # {} /\ Find(s, b, start) = Min(from)
         \/ Find(s, b, start) = NPos /\ \A i \in from : i = start /\ i + Len(b) = Len(a)
      /\ RFind(s, b, start) = IF upTo = {} THEN NPos ELSE Max(upTo)

\* Concatenation and substrings keep the bytes, and a concatenation is well-formed.
CutsAndJoins(a, b, start) ==
  LET joined == ConcatSlice(StringOf(a), b)
      head == Substr(StringOf(a), 0, start)
      tail == Substr(StringOf(a), start, Len(a))
  IN  /\ AsSlice(Concat(StringOf(a), StringOf(b))) = a \o b
      /\ joined.error = "none" <=> WellFormed(b)
      /\ joined.error = "none" => WellFormed(AsSlice(joined.string))
      /\ start \in 1 .. Len(a) - 1 /\ head.error = "none" /\ tail.error = "none" =>
           AsSlice(head.string) \o AsSlice(tail.string) = a

\* What is printed of a number is the shortest text that reads as the number.
PrintsShortest(a) ==
  (\E p \in 2 .. Len(a) - 1 : a[p] = 46 /\ \A i \in DOMAIN a \ {p} : a[i] \in 48 .. 57) =>
    LET padded(text) ==
          LET read == IF 46 \in Range(text) THEN text ELSE Append(text, 46)
          IN  read \o [i \in 1 .. Len(a) - Len(read) |-> 48]
        same == {n \in 1 .. Len(a) : padded(SubSeq(a, 1, n)) = a /\ a[n] # 46}
    IN  Printed(a) = SubSeq(a, 1, Min(same))

Bytes == 0 .. 255
Texts == Seq(Bytes) \X Seq(Bytes) \X Nat

\* string.c, utf8.c, simd.c: strings do what the definitions over their bytes say; the
\* code takes well-formed texts for granted where it looks at more than their encoding.
StringsAgree ==
  LET a == texts[1]
      b == texts[2]
      start == texts[3]
  IN  /\ EncodingChecked(a)
      /\ PrintsShortest(a)
      /\ WellFormed(a) => /\ FindsOccurrences(a, b, start)
                           /\ CutsAndJoins(a, b, start)
                           /\ WellFormed(b) => ComparesBytes(a, b)
=============================================================================
