-------------------------- MODULE InterpreterProofs --------------------------
(***************************************************************************)
(* Theorems about the interpreter.                                         *)
(***************************************************************************)
EXTENDS Interpreter, NatLemmas, SequenceTheorems

-----------------------------------------------------------------------------
(***************************************************************************)
(* The records of threads, and what leaves their control as it is.         *)
(***************************************************************************)

Fields ==
  {"ip", "calls", "objects", "excused", "status", "next", "frame", "stack", "contexts"}

IsPointer(ip) == ip = [function |-> ip.function, at |-> ip.at]

IsThread(m) == m = [x \in Fields |-> m[x]] /\ IsPointer(m.ip)

\* A record of a thread in the middle of an operation that began with m: its calls,
\* frames and instruction pointer are the same, unless an assertion failed.
Like(m, s) ==
  /\ IsThread(s)
  /\ s.ip = m.ip /\ s.calls = m.calls /\ s.next = m.next /\ s.frame = m.frame
  /\ s.status \in {m.status, "aborted"}

\* What is like a record that is like another is like that one.
LEMMA LikeTransitive ==
  ASSUME NEW m, NEW s, NEW r, Like(m, s), Like(s, r)
  PROVE  Like(m, r)
BY DEF Like

\* A new value in a field other than those of control.
LEMMA LikeExcept ==
  ASSUME NEW m, IsThread(m), NEW v
  PROVE  /\ Like(m, m)
         /\ Like(m, [m EXCEPT !.stack = v]) /\ [m EXCEPT !.stack = v].stack = v
         /\ Like(m, [m EXCEPT !.contexts = v]) /\ [m EXCEPT !.contexts = v].stack = m.stack
         /\ Like(m, [m EXCEPT !.objects = v]) /\ [m EXCEPT !.objects = v].stack = m.stack
         /\ Like(m, [m EXCEPT !.excused = v]) /\ [m EXCEPT !.excused = v].stack = m.stack
         /\ Like(m, [m EXCEPT !.status = "aborted"])
         /\ [m EXCEPT !.status = "aborted"].stack = m.stack
BY DEF Like, IsThread, Fields, IsPointer

\* What operations do with the record of a thread before the pointer goes on.
LEMMA LikeChecked ==
  ASSUME NEW m, NEW s, IsThread(m), Like(m, s), NEW condition \in BOOLEAN
  PROVE  Like(m, Checked(m, condition, s)) /\ Like(m, Checked(s, condition, s))
BY DEF Like, Checked, IsThread, Fields, IsPointer

\* Excusing objects changes nothing that a step goes by.
LEMMA LikeExcused ==
  ASSUME NEW m, IsThread(m), NEW ids
  PROVE  Like(m, Excused(m, ids)) /\ Excused(m, ids).stack = m.stack
BY LikeExcept DEF Excused

\* Nor does a new object.
LEMMA LikeWithObject ==
  ASSUME NEW m, IsThread(m), NEW content, NEW pointee
  PROVE  /\ Like(m, WithObject(m, content, pointee))
         /\ WithObject(m, content, pointee).stack = m.stack
<1> DEFINE objects ==
             Append(m.objects, [content |-> content, destroyed |-> 0, pointee |-> pointee])
<1>1. WithObject(m, content, pointee) = [m EXCEPT !.objects = objects]
  BY Zenon DEF WithObject
<1> HIDE DEF objects
<1>2. Like(m, [m EXCEPT !.objects = objects]) /\ [m EXCEPT !.objects = objects].stack = m.stack
  BY LikeExcept, Zenon
<1>. QED  BY <1>1, <1>2

\* Nor does the destruction of objects.
LEMMA LikeDeinited ==
  ASSUME NEW m, IsThread(m), NEW words, NEW type
  PROVE  Like(m, Deinited(m, words, type)) /\ Deinited(m, words, type).stack = m.stack
<1> DEFINE objects == [id \in DOMAIN m.objects |->
                          IF id \in ObjectsIn(words)
                          THEN [m.objects[id] EXCEPT !.destroyed = m.objects[id].destroyed + 1]
                          ELSE m.objects[id]]
<1>1. Deinited(m, words, type) = [m EXCEPT !.objects = objects]
  BY Zenon DEF Deinited
<1> HIDE DEF objects
<1>2. Like(m, [m EXCEPT !.objects = objects]) /\ [m EXCEPT !.objects = objects].stack = m.stack
  BY LikeExcept, Zenon
<1>. QED  BY <1>1, <1>2

\* Nor does setting a slot to NULL.
LEMMA LikeSetNull ==
  ASSUME NEW m, IsThread(m), NEW offset
  PROVE  Like(m, SetNull(m, offset)) /\ SetNull(m, offset).stack = m.stack
<1> DEFINE contexts == [m.contexts EXCEPT ![At(m, offset)] = NoContext]
<1>1. SetNull(m, offset) = [m EXCEPT !.contexts = contexts]
  BY DEF SetNull
<1> HIDE DEF contexts
<1>2. Like(m, [m EXCEPT !.contexts = contexts]) /\ [m EXCEPT !.contexts = contexts].stack = m.stack
  BY LikeExcept, Zenon
<1>. QED  BY <1>1, <1>2

\* Nor does setting a context, if its assertions do not fail.
LEMMA LikeSetContext ==
  ASSUME NEW m, IsThread(m), NEW offset, NEW context
  PROVE  Like(m, SetContext(m, offset, context)) /\ SetContext(m, offset, context).stack = m.stack
BY LikeExcept DEF SetContext, Checked

\* Nor does writing a value or a reference with its context.
LEMMA LikeStored ==
  ASSUME NEW m, IsThread(m), NEW dst, NEW words, NEW type
  PROVE  /\ Like(m, Stored(m, dst, words, type))
         /\ Like(m, StoredReference(m, dst, words, type))
<1> DEFINE e == Excused(m, WrittenOver(m, At(m, dst), Len(words)))
           s == [e EXCEPT !.stack = Copied(@, At(m, dst), words)]
<1>1. Like(m, e)
  BY LikeExcused
<1>2. Like(e, s)
  <2>1. IsThread(e)
    BY <1>1 DEF Like
  <2> HIDE DEF e
  <2>. QED  BY <2>1, LikeExcept
<1>3. Like(m, s)
  <2> HIDE DEF e, s
  <2>. QED  BY <1>1, <1>2, LikeTransitive
<1>4. \A context : Like(m, SetContext(s, dst, context))
  <2>1. IsThread(s)
    BY <1>3 DEF Like
  <2> HIDE DEF s
  <2>. QED  BY <2>1, <1>3, LikeSetContext, LikeTransitive
<1>5. /\ Stored(m, dst, words, type) = SetContext(s, dst, OwningContext(type))
      /\ StoredReference(m, dst, words, type) = SetContext(s, dst, ReferenceContext(type))
  BY DEF Stored, StoredReference
<1> HIDE DEF s
<1>. QED  BY <1>4, <1>5

\* Nor does cloning a value.
LEMMA LikeCloned ==
  ASSUME NEW m, IsThread(m), NEW words
  PROVE  Like(m, Cloned(m, words).m) /\ Cloned(m, words).m.stack = m.stack
<1>1. CASE ObjectsIn(words) = {}
  BY <1>1, LikeExcept DEF Cloned
<1>2. CASE ObjectsIn(words) # {}
  <2> DEFINE old == CHOOSE id \in ObjectsIn(words) : TRUE
  <2>1. Cloned(m, words).m = WithObject(m, m.objects[old].content, m.objects[old].pointee)
    BY <1>2 DEF Cloned
  <2> HIDE DEF old
  <2>. QED  BY <2>1, LikeWithObject
<1>. QED  BY <1>1, <1>2

\* Nor does loading a default, if its type has one.
LEMMA LikeLoadedDefault ==
  ASSUME NEW m, IsThread(m), NEW w, w.tag \in Code!Tags
  PROVE  Like(m, LoadedDefault(m, w))
<1> DEFINE new == WithObject(m, 0, NULL)
           type == IF w.tag = "option" THEN "set" ELSE w.tag
<1>1. Like(m, new) /\ IsThread(new)
  BY LikeWithObject DEF Like
<1>2. CASE w.tag = "bool"
  BY <1>2, LikeStored DEF LoadedDefault
<1>3. CASE w.tag \in {"int", "float"}
  <2>1. LoadedDefault(m, w) = Stored(m, w.dst, << <<w.tag, 0>> >>, w.tag)
    BY <1>3 DEF LoadedDefault
  <2>. QED  BY <2>1, LikeStored
<1>4. CASE w.tag \in {"string", "array", "set", "map", "option"}
  <2>1. LoadedDefault(m, w) = Stored(new, w.dst, ObjectWords(NewId(m), type), type)
    BY <1>4 DEF LoadedDefault
  <2> HIDE DEF new, type
  <2>2. Like(new, Stored(new, w.dst, ObjectWords(NewId(m), type), type))
    BY <1>1, LikeStored
  <2>. QED  BY <1>1, <2>1, <2>2, LikeTransitive
<1>5. CASE w.tag \notin {"bool", "int", "float", "string", "array", "set", "map", "option"}
  <2>1. LoadedDefault(m, w) = [m EXCEPT !.status = "aborted"]
    BY <1>5 DEF LoadedDefault
  <2>. QED  BY <2>1, LikeExcept
<1>. QED  BY <1>2, <1>3, <1>4, <1>5

\* Nor does adding floats.
LEMMA LikeFloatSum ==
  ASSUME NEW m, IsThread(m), NEW w, NEW n
  PROVE  Like(m, FloatSum(m, w, n))
BY LikeExcept, LikeStored DEF FloatSum

\* Nor does concatenating strings.
LEMMA LikeConcatenated ==
  ASSUME NEW m, IsThread(m), NEW w
  PROVE  Like(m, Concatenated(m, w))
<1> DEFINE content == Content(m, ValueAt(m, w.src1)) + Content(m, ValueAt(m, w.src2))
           new == WithObject(m, content, NULL)
           words == ObjectWords(NewId(m), "string")
           d == Deinited(Excused(new, NotOwned(m, w.src1)), ValueAt(m, w.src1), "string")
<1>1. Like(m, new) /\ IsThread(new)
  <2> HIDE DEF content
  <2>. QED  BY LikeWithObject DEF Like
<1>2. Like(m, Stored(new, w.dst, words, "string"))
  <2> HIDE DEF new, words
  <2>. QED  BY <1>1, LikeStored, LikeTransitive
<1>3. Like(m, d) /\ IsThread(d)
  <2> HIDE DEF new
  <2> DEFINE e == Excused(new, NotOwned(m, w.src1))
  <2>1. Like(m, e) /\ IsThread(e)
    BY <1>1, LikeExcused, LikeTransitive DEF Like
  <2> HIDE DEF e
  <2>2. Like(e, Deinited(e, ValueAt(m, w.src1), "string"))
    BY <2>1, LikeDeinited
  <2>. QED  BY <2>1, <2>2, LikeTransitive DEF d, e, Like
<1>4. Like(m, [d EXCEPT !.stack = Copied(@, At(m, w.src1), words)])
  <2> HIDE DEF d, words
  <2>. QED  BY <1>3, LikeExcept, LikeTransitive
<1>5. \/ Concatenated(m, w) = Stored(new, w.dst, words, "string")
      \/ Concatenated(m, w) = [d EXCEPT !.stack = Copied(@, At(m, w.src1), words)]
  BY DEF Concatenated
<1> HIDE DEF new, d, words
<1>. QED  BY <1>2, <1>4, <1>5

\* Nor does writing through a reference.
LEMMA LikeWrittenThrough ==
  ASSUME NEW m, IsThread(m), NEW offset, NEW at, NEW words
  PROVE  Like(m, WrittenThrough(m, offset, at, words))
<1> DEFINE ref == ValueAt(m, offset)
           place == IF ContextAt(m, offset) \in ReferenceTypes THEN ref[1][2] + at ELSE At(m, offset) + at
           lost == ObjectsIn(WordsAt(m.stack, place, Len(words))) \cup ObjectsIn(words)
           e == Excused(m, lost)
<1>1. \/ WrittenThrough(m, offset, at, words) = m
      \/ WrittenThrough(m, offset, at, words) = [e EXCEPT !.stack = Copied(@, place, words)]
  BY DEF WrittenThrough
<1>2. Like(m, e) /\ IsThread(e)
  <2> HIDE DEF lost
  <2>. QED  BY LikeExcused DEF Like
<1> HIDE DEF e, place
<1>3. Like(m, [e EXCEPT !.stack = Copied(@, place, words)])
  BY <1>2, LikeExcept, LikeTransitive
<1>. QED  BY <1>1, <1>3, LikeExcept

-----------------------------------------------------------------------------
(***************************************************************************)
(* Arguments are pushed one after the other.                               *)
(***************************************************************************)

PushedBy(f, m, kind, args, k) ==
  /\ f[0] = StartCall(m, kind)
  /\ \A n \in 1 .. k : f[n] = PushArg(f[n - 1], args[n].words, args[n].type)
  /\ PushedArgs(m, kind, args) = f[k]

\* A fold over the arguments goes through the calls with the first of them.
LEMMA PushedOneByOne ==
  ASSUME NEW m, NEW kind, NEW args, NEW k \in Nat, DOMAIN args = 1 .. k
  PROVE  \E f : PushedBy(f, m, kind, args, k)
<1> DEFINE base == StartCall(m, kind)
           Pushed(c, x) == PushArg(c, args[x].words, args[x].type)
           Iter(g, j) == g = [s \in SUBSET (1 .. j) |->
                                IF s = {} THEN base ELSE Pushed(g[s \ {Max(s)}], Max(s))]
           it == CHOOSE g : Iter(g, k)
<1>1. PushedArgs(m, kind, args) = it[1 .. k]
  BY Zenon DEF PushedArgs, FoldLeft, MapThenFoldSet
<1>2. ASSUME NEW j \in Nat, NEW s \in SUBSET (1 .. j + 1), s # {}
      PROVE  /\ Max(s) \in s /\ \A x \in s : x <= Max(s)
             /\ s \ {Max(s)} \in SUBSET (1 .. j)
  <2>1. \E x \in s : \A y \in s : y <= x
    <3> DEFINE b == j + 1
    <3>1. s \in SUBSET Nat /\ b \in Nat /\ \A x \in s : x <= b
      OBVIOUS
    <3> HIDE DEF b
    <3>. QED  BY <1>2, <3>1, GreatestNat
  <2>2. \A x, y \in s : y <= x <=> x >= y
    OBVIOUS
  <2>3. \E x \in s : \A y \in s : x >= y
    BY <2>1, <2>2
  <2>4. Max(s) \in s /\ \A y \in s : Max(s) >= y
    BY <2>3, Zenon DEF Max
  <2> DEFINE x == Max(s)
  <2> HIDE DEF x
  <2>5. x \in s /\ \A y \in s : y <= x
    BY <2>2, <2>4 DEF x
  <2>6. ASSUME NEW y \in s \ {x}
        PROVE  y \in 1 .. j
    BY <2>5
  <2>. QED  BY <2>5, <2>6 DEF x
<1> DEFINE T == {j \in Nat : \E g : Iter(g, j)}
<1> HIDE DEF base, Pushed
<1>3. 0 \in T
  <2> DEFINE g == [s \in SUBSET (1 .. 0) |-> base]
  <2>1. 1 .. 0 = {} /\ SUBSET (1 .. 0) = {{}}
    OBVIOUS
  <2>2. g = [s \in SUBSET (1 .. 0) |-> IF s = {} THEN base ELSE Pushed(g[s \ {Max(s)}], Max(s))]
    BY <2>1
  <2>. QED  BY <2>2
<1>4. ASSUME NEW j \in T
      PROVE  j + 1 \in T
  <2>1. j \in Nat
    OBVIOUS
  <2>2. PICK g : Iter(g, j)
    OBVIOUS
  <2> DEFINE h == [s \in SUBSET (1 .. j + 1) |->
                     IF s = {} THEN base ELSE Pushed(g[s \ {Max(s)}], Max(s))]
  <2>3. SUBSET (1 .. j) \subseteq SUBSET (1 .. j + 1)
    BY <2>1
  <2>4. ASSUME NEW s \in SUBSET (1 .. j)
        PROVE  h[s] = g[s]
    <3>1. h[s] = IF s = {} THEN base ELSE Pushed(g[s \ {Max(s)}], Max(s))
      BY <2>3
    <3>2. g[s] = IF s = {} THEN base ELSE Pushed(g[s \ {Max(s)}], Max(s))
      BY <2>2
    <3>. QED  BY <3>1, <3>2
  <2>5. ASSUME NEW s \in SUBSET (1 .. j + 1), s # {}
        PROVE  h[s \ {Max(s)}] = g[s \ {Max(s)}]
    <3>1. s \ {Max(s)} \in SUBSET (1 .. j)
      BY <1>2, <2>1, <2>5
    <3> HIDE DEF h
    <3>. QED  BY <2>4, <3>1
  <2>6. Iter(h, j + 1)
    <3>1. \A s \in SUBSET (1 .. j + 1) :
            h[s] = IF s = {} THEN base ELSE Pushed(h[s \ {Max(s)}], Max(s))
      <4>. SUFFICES ASSUME NEW s \in SUBSET (1 .. j + 1)
                    PROVE  h[s] = IF s = {} THEN base ELSE Pushed(h[s \ {Max(s)}], Max(s))
        OBVIOUS
      <4>1. h[s] = IF s = {} THEN base ELSE Pushed(g[s \ {Max(s)}], Max(s))
        OBVIOUS
      <4> HIDE DEF h
      <4>. QED  BY <2>5, <4>1
    <3>2. h = [s \in SUBSET (1 .. j + 1) |-> h[s]]
      OBVIOUS
    <3> HIDE DEF h
    <3>. QED  BY <3>1, <3>2
  <2> HIDE DEF Iter
  <2>. QED  BY <2>1, <2>6
<1>5. Iter(it, k)
  <2>1. T \in SUBSET Nat
    OBVIOUS
  <2>2. T = Nat
    <3> HIDE DEF T
    <3>. QED  BY <1>3, <1>4, <2>1, Induction
  <2>3. \E g : Iter(g, k)
    BY <2>2
  <2> HIDE DEF Iter
  <2>. QED  BY <2>3
<1> HIDE DEF it
<1>6. /\ it[{}] = base
      /\ \A n \in 1 .. k : it[1 .. n] = Pushed(it[1 .. n - 1], n)
  <2>1. it[{}] = base
    BY <1>5
  <2>2. ASSUME NEW n \in 1 .. k
        PROVE  it[1 .. n] = Pushed(it[1 .. n - 1], n)
    <3> DEFINE s == 1 .. n
    <3>1. s \in SUBSET (1 .. k) /\ s # {} /\ n \in s /\ \A x \in s : x <= n
      OBVIOUS
    <3>2. it[s] = Pushed(it[s \ {Max(s)}], Max(s))
      <4> HIDE DEF s
      <4>. QED  BY <1>5, <3>1
    <3>3. Max(s) = n
      <4>1. s \in SUBSET (1 .. k + 1)
        OBVIOUS
      <4> HIDE DEF s
      <4>2. Max(s) \in s /\ \A x \in s : x <= Max(s)
        BY <1>2, <3>1, <4>1
      <4>3. Max(s) \in Int
        BY <4>2 DEF s
      <4>. QED  BY <3>1, <4>2, <4>3
    <3>4. s \ {n} = 1 .. n - 1
      OBVIOUS
    <3> HIDE DEF s
    <3>. QED  BY <3>2, <3>3, <3>4 DEF s
  <2>. QED  BY <2>1, <2>2
<1> DEFINE f == [n \in 0 .. k |-> it[1 .. n]]
<1>7. f[0] = base
  <2>1. 1 .. 0 = {}
    OBVIOUS
  <2>. QED  BY <1>6, <2>1
<1>8. \A n \in 1 .. k : f[n] = Pushed(f[n - 1], n)
  BY <1>6
<1>9. f[k] = it[1 .. k]
  OBVIOUS
<1> HIDE DEF f
<1>. QED  BY <1>1, <1>7, <1>8, <1>9 DEF base, Pushed, PushedBy

\* Neither kind of argument changes the control.
LEMMA LikePushArg ==
  ASSUME NEW call, IsThread(call.m), NEW words, NEW type
  PROVE  Like(call.m, PushArg(call, words, type).m)
<1> DEFINE m == call.m
<1>1. Like(m, PushScriptArg(m, words, type, call.offset))
  <2> DEFINE stack == Copied(m.stack, m.next + RESERVED_SLOTS + call.offset, words)
             contexts == WithContext(m.contexts, m.next + RESERVED_SLOTS + call.offset,
                                     OwningContext(type))
  <2>1. PushScriptArg(m, words, type, call.offset) =
          [m EXCEPT !.stack = stack, !.contexts = contexts]
    BY Zenon DEF PushScriptArg
  <2> HIDE DEF stack, contexts
  <2>2. Like(m, [m EXCEPT !.stack = stack, !.contexts = contexts])
    BY DEF Like, IsThread, Fields, IsPointer
  <2>. QED  BY <2>1, <2>2
<1>2. Like(m, PushCArg(m, words, type, call.offset, call.count))
  <2> DEFINE r == PushCArg(m, words, type, call.offset, call.count)
  <2>1. PICK stack, contexts : r = [m EXCEPT !.stack = stack, !.contexts = contexts]
    BY Zenon DEF PushCArg
  <2> HIDE DEF r
  <2>2. Like(m, [m EXCEPT !.stack = stack, !.contexts = contexts])
    BY DEF Like, IsThread, Fields, IsPointer
  <2>. QED  BY <2>1, <2>2 DEF r
<1>3. \/ PushArg(call, words, type).m = PushScriptArg(m, words, type, call.offset)
      \/ PushArg(call, words, type).m = PushCArg(m, words, type, call.offset, call.count)
  BY DEF PushArg
<1>. QED  BY <1>1, <1>2, <1>3

\* Nor does pushing all arguments.
LEMMA LikePushedArgs ==
  ASSUME NEW m, IsThread(m), NEW kind, NEW args, NEW k \in Nat, DOMAIN args = 1 .. k
  PROVE  Like(m, PushedArgs(m, kind, args).m)
<1>0. PICK f : PushedBy(f, m, kind, args, k)
  BY PushedOneByOne
<1>1. /\ f[0] = StartCall(m, kind)
      /\ \A n \in 1 .. k : f[n] = PushArg(f[n - 1], args[n].words, args[n].type)
      /\ PushedArgs(m, kind, args) = f[k]
  BY <1>0 DEF PushedBy
<1> DEFINE S == {n \in Nat : n <= k => Like(m, f[n].m)}
<1>2. 0 \in S
  <2>1. f[0].m = m
    BY <1>1 DEF StartCall
  <2>. QED  BY <2>1, LikeExcept
<1>3. ASSUME NEW n \in S
      PROVE  n + 1 \in S
  <2>. SUFFICES ASSUME n + 1 <= k
                PROVE  Like(m, f[n + 1].m)
    OBVIOUS
  <2>1. n + 1 \in 1 .. k /\ (n + 1) - 1 = n /\ Like(m, f[n].m)
    OBVIOUS
  <2>2. f[n + 1] = PushArg(f[n], args[n + 1].words, args[n + 1].type)
    BY <1>1, <2>1
  <2>3. Like(f[n].m, f[n + 1].m)
    <3>1. IsThread(f[n].m)
      BY <2>1 DEF Like
    <3>. QED  BY <2>2, <3>1, LikePushArg
  <2>. QED  BY <2>1, <2>3, LikeTransitive
<1>4. S = Nat
  <2>1. S \in SUBSET Nat
    OBVIOUS
  <2> HIDE DEF S
  <2>. QED  BY <1>2, <1>3, <2>1, Induction
<1>. QED  BY <1>1, <1>4
-----------------------------------------------------------------------------
(***************************************************************************)
(* The calls that have not returned.                                       *)
(***************************************************************************)

IsSeq(s) == s \in Seq({s[i] : i \in 1 .. Len(s)})

CallFields == {"function", "resume", "frame", "args", "offset", "pc", "locals"}

IsCall(c) == c = [x \in CallFields |-> c[x]] /\ IsPointer(c.resume)

\* If the function is a script, ip leads to one of its instructions.
Leads(p, ip, f) ==
  p.functions[f].kind = "script" => ip.function = f /\ ip.at \in p.functions[f].starts

\* A call of a known function, of whose body, if it is in C, it has not left.
CallOK(p, c) ==
  /\ IsCall(c) /\ c.function \in DOMAIN p.functions
  /\ p.functions[c.function].kind = "c" => c.pc \in DOMAIN p.functions[c.function].code

\* What goes on when a call returns: an instruction, or the body of a C function.
Resumes(p, resume, caller) ==
  /\ Leads(p, resume, caller.function)
  /\ p.functions[caller.function].kind = "c" =>
       p.functions[caller.function].code[caller.pc].do = "pass"

\* Every call that has been made resumes its caller.
CallsOK(p, calls) ==
  /\ IsSeq(calls)
  /\ \A i \in 1 .. Len(calls) : CallOK(p, calls[i])
  /\ \A i \in 2 .. Len(calls) : Resumes(p, calls[i].resume, calls[i - 1])

\* The elements of a sequence with one more.
LEMMA SeqAppend ==
  ASSUME NEW s, IsSeq(s), NEW e
  PROVE  /\ IsSeq(Append(s, e)) /\ Len(s) \in Nat /\ Len(Append(s, e)) = Len(s) + 1
         /\ \A i \in 1 .. Len(s) : Append(s, e)[i] = s[i]
         /\ Append(s, e)[Len(s) + 1] = e
<1> DEFINE S == {s[i] : i \in 1 .. Len(s)} \cup {e}
           r == Append(s, e)
<1>1. Len(s) \in Nat
  BY LenProperties DEF IsSeq
<1>2. s \in [1 .. Len(s) -> S] /\ e \in S
  BY LenProperties DEF IsSeq
<1>3. s \in Seq(S)
  <2>1. {s[i] : i \in 1 .. Len(s)} \subseteq S
    OBVIOUS
  <2>. QED  BY <1>1, <1>2 DEF IsSeq
<1> HIDE DEF S
<1>4. /\ r \in Seq(S) /\ Len(r) = Len(s) + 1
      /\ \A i \in 1 .. Len(s) : r[i] = s[i]
      /\ r[Len(s) + 1] = e
  BY <1>2, <1>3, AppendProperties
<1> HIDE DEF r
<1>5. r \in Seq({r[i] : i \in 1 .. Len(r)})
  <2>1. r \in [1 .. Len(r) -> S]
    BY <1>4, LenProperties
  <2>2. r \in [1 .. Len(r) -> {r[i] : i \in 1 .. Len(r)}]
    BY <2>1
  <2>3. Len(r) \in Nat
    BY <1>1, <1>4
  <2>. QED  BY <2>2, <2>3
<1>. QED  BY <1>1, <1>4, <1>5 DEF IsSeq, r

\* The elements of a sequence without the last.
LEMMA SeqFront ==
  ASSUME NEW s, IsSeq(s), s # << >>
  PROVE  /\ IsSeq(Front(s)) /\ Len(s) \in Nat \ {0} /\ Len(Front(s)) = Len(s) - 1
         /\ \A i \in 1 .. Len(s) - 1 : Front(s)[i] = s[i]
<1> DEFINE S == {s[i] : i \in 1 .. Len(s)}
           r == Front(s)
<1>1. Len(s) \in Nat \ {0}
  BY EmptySeq DEF IsSeq
<1>2. \A i \in 1 .. Len(s) - 1 : s[i] \in S
  BY <1>1
<1> HIDE DEF S
<1>3. r \in Seq(S) /\ Len(r) = Len(s) - 1 /\ \A i \in 1 .. Len(s) - 1 : r[i] = s[i]
  <2> DEFINE n == Len(s) - 1
  <2>1. n \in Nat /\ 1 \in Int /\ n = (IF 1 <= n THEN n - 1 + 1 ELSE 0)
        /\ n - 1 + 1 = n
    <3>1. n \in Nat
      BY <1>1
    <3> HIDE DEF n
    <3>. QED  BY <3>1
  <2>2. \A i \in 1 .. n : 1 + i - 1 = i
    BY <2>1
  <2>3. \A i \in 1 .. n : s[i] \in S
    BY <1>2
  <2>4. r = SubSeq(s, 1, n)
    BY DEF Front
  <2> HIDE DEF n, r
  <2>5. r \in Seq(S) /\ Len(r) = n /\ \A i \in 1 .. n - 1 + 1 : r[i] = s[1 + i - 1]
    BY <2>1, <2>3, <2>4, SubSeqProperties
  <2>. QED  BY <2>1, <2>2, <2>5 DEF n
<1> HIDE DEF r
<1>4. r \in Seq({r[i] : i \in 1 .. Len(r)})
  <2>1. r \in [1 .. Len(r) -> S]
    BY <1>3, LenProperties
  <2>2. r \in [1 .. Len(r) -> {r[i] : i \in 1 .. Len(r)}]
    BY <2>1
  <2>3. Len(r) \in Nat
    BY <1>1, <1>3
  <2>. QED  BY <2>2, <2>3
<1>. QED  BY <1>1, <1>3, <1>4 DEF IsSeq, r

\* One element of a sequence is replaced.
Updates(r, s, n, e) == r = [s EXCEPT ![n] = e]

\* The elements that it has then.
LEMMA SeqUpdated ==
  ASSUME NEW s, IsSeq(s), NEW n \in 1 .. Len(s), NEW e, NEW r, Updates(r, s, n, e)
  PROVE  /\ IsSeq(r) /\ Len(s) \in Nat /\ Len(r) = Len(s)
         /\ \A i \in 1 .. Len(s) : r[i] = IF i = n THEN e ELSE s[i]
<1> DEFINE S == {s[i] : i \in 1 .. Len(s)} \cup {e}
<1>1. Len(s) \in Nat
  BY LenProperties DEF IsSeq
<1>2. s \in [1 .. Len(s) -> S] /\ e \in S
  BY LenProperties DEF IsSeq
<1>3. s \in Seq(S)
  BY <1>1, <1>2 DEF IsSeq
<1> HIDE DEF S
<1>4. /\ r \in Seq(S) /\ Len(r) = Len(s)
      /\ \A i \in 1 .. Len(s) : r[i] = IF i = n THEN e ELSE s[i]
  BY <1>2, <1>3, ExceptSeq DEF Updates
<1>5. r \in Seq({r[i] : i \in 1 .. Len(r)})
  <2>1. r \in [1 .. Len(r) -> S]
    BY <1>4, LenProperties
  <2>2. r \in [1 .. Len(r) -> {r[i] : i \in 1 .. Len(r)}]
    BY <2>1
  <2>3. Len(r) \in Nat
    BY <1>1, <1>4
  <2>. QED  BY <2>2, <2>3
<1>. QED  BY <1>1, <1>4, <1>5 DEF IsSeq

\* A call is made.
LEMMA CallsAppend ==
  ASSUME NEW p, NEW calls, CallsOK(p, calls), NEW c, CallOK(p, c),
         calls # << >> => Resumes(p, c.resume, calls[Len(calls)])
  PROVE  /\ CallsOK(p, Append(calls, c)) /\ Len(Append(calls, c)) = Len(calls) + 1
         /\ Append(calls, c) # << >> /\ Append(calls, c)[Len(calls) + 1] = c
<1> DEFINE r == Append(calls, c)
           n == Len(calls)
<1>1. /\ IsSeq(r) /\ n \in Nat /\ Len(r) = n + 1
      /\ \A i \in 1 .. n : r[i] = calls[i]
      /\ r[n + 1] = c
  BY SeqAppend DEF CallsOK
<1>2. n > 0 => calls # << >>
  OBVIOUS
<1> HIDE DEF r, n
<1>3. r # << >>
  BY <1>1
<1>4. \A i \in 1 .. Len(r) : CallOK(p, r[i])
  <2>. SUFFICES ASSUME NEW i \in 1 .. Len(r)
                PROVE  CallOK(p, r[i])
    OBVIOUS
  <2>1. i = n + 1 \/ i \in 1 .. n
    BY <1>1
  <2>. QED  BY <1>1, <2>1 DEF CallsOK, n
<1>5. \A i \in 2 .. Len(r) : Resumes(p, r[i].resume, r[i - 1])
  <2>. SUFFICES ASSUME NEW i \in 2 .. Len(r)
                PROVE  Resumes(p, r[i].resume, r[i - 1])
    OBVIOUS
  <2>1. CASE i = n + 1
    <3>1. n > 0 /\ i - 1 = n /\ n \in 1 .. n
      BY <1>1, <2>1
    <3>. QED  BY <1>1, <1>2, <2>1, <3>1 DEF n
  <2>2. CASE i \in 2 .. n
    <3>1. i \in 1 .. n /\ i - 1 \in 1 .. n
      BY <1>1, <2>2
    <3>. QED  BY <1>1, <2>2, <3>1 DEF CallsOK, n
  <2>. QED  BY <1>1, <2>1, <2>2
<1>. QED  BY <1>1, <1>3, <1>4, <1>5 DEF CallsOK, r, n

\* A call returns.
LEMMA CallsFront ==
  ASSUME NEW p, NEW calls, CallsOK(p, calls), calls # << >>
  PROVE  /\ CallsOK(p, Front(calls)) /\ Len(calls) \in Nat \ {0}
         /\ Len(Front(calls)) = Len(calls) - 1
         /\ \A i \in 1 .. Len(calls) - 1 : Front(calls)[i] = calls[i]
         /\ Front(calls) # << >> =>
              Resumes(p, calls[Len(calls)].resume, Front(calls)[Len(Front(calls))])
<1> DEFINE r == Front(calls)
           n == Len(calls)
<1>1. /\ IsSeq(r) /\ n \in Nat \ {0} /\ Len(r) = n - 1
      /\ \A i \in 1 .. n - 1 : r[i] = calls[i]
  BY SeqFront DEF CallsOK
<1>2. r # << >> => n - 1 # 0
  <2>1. r # << >> => Len(r) \in Nat \ {0}
    <3> HIDE DEF r
    <3>. QED  BY <1>1, EmptySeq DEF IsSeq
  <2>. QED  BY <1>1, <2>1
<1> HIDE DEF r, n
<1>3. \A i \in 1 .. Len(r) : CallOK(p, r[i])
  BY <1>1 DEF CallsOK, n
<1>4. \A i \in 2 .. Len(r) : Resumes(p, r[i].resume, r[i - 1])
  <2>. SUFFICES ASSUME NEW i \in 2 .. Len(r)
                PROVE  Resumes(p, r[i].resume, r[i - 1])
    OBVIOUS
  <2>1. i \in 1 .. n - 1 /\ i - 1 \in 1 .. n - 1 /\ i \in 2 .. n
    BY <1>1
  <2>. QED  BY <1>1, <2>1 DEF CallsOK, n
<1>5. r # << >> => Resumes(p, calls[n].resume, r[Len(r)])
  <2>. SUFFICES ASSUME r # << >>
                PROVE  Resumes(p, calls[n].resume, r[Len(r)])
    OBVIOUS
  <2>1. n \in 2 .. n /\ n - 1 \in 1 .. n - 1
    BY <1>1, <1>2
  <2>. QED  BY <1>1, <2>1 DEF CallsOK, n
<1>. QED  BY <1>1, <1>3, <1>4, <1>5 DEF CallsOK, r, n

\* A C function goes on.
LEMMA CallsUpdate ==
  ASSUME NEW p, NEW calls, CallsOK(p, calls), calls # << >>, NEW c, CallOK(p, c),
         c.function = calls[Len(calls)].function, c.resume = calls[Len(calls)].resume
  PROVE  LET r == [calls EXCEPT ![Len(calls)] = c]
         IN  /\ CallsOK(p, r) /\ Len(r) = Len(calls) /\ r # << >>
             /\ r[Len(calls)] = c
<1> DEFINE n == Len(calls)
           r == [calls EXCEPT ![n] = c]
<1>1. n \in Nat \ {0}
  BY CallsFront
<1>2. /\ IsSeq(r) /\ Len(r) = n
      /\ \A i \in 1 .. n : r[i] = IF i = n THEN c ELSE calls[i]
  <2>1. IsSeq(calls)
    BY DEF CallsOK
  <2>2. Len(calls) \in 1 .. Len(calls)
    BY <1>1
  <2>3. Updates(r, calls, Len(calls), c)
    BY DEF Updates
  <2> HIDE DEF r
  <2>. QED  BY <2>1, <2>2, <2>3, SeqUpdated
<1>3. r # << >>
  <2> HIDE DEF r, n
  <2>. QED  BY <1>1, <1>2
<1> HIDE DEF r
<1>5. \A i \in 1 .. Len(r) : CallOK(p, r[i])
  BY <1>2 DEF CallsOK
<1>6. \A i \in 2 .. Len(r) : Resumes(p, r[i].resume, r[i - 1])
  <2>. SUFFICES ASSUME NEW i \in 2 .. Len(r)
                PROVE  Resumes(p, r[i].resume, r[i - 1])
    OBVIOUS
  <2> HIDE DEF n
  <2>1. i \in 1 .. n /\ i - 1 \in 1 .. n /\ i \in 2 .. n /\ i - 1 # n
    BY <1>1, <1>2
  <2>2. r[i - 1] = calls[i - 1] /\ r[i].resume = calls[i].resume
    BY <1>2, <2>1 DEF n
  <2>. QED  BY <2>1, <2>2 DEF CallsOK, n
<1>. QED  BY <1>1, <1>2, <1>3, <1>5, <1>6 DEF CallsOK, r

\* A running thread's pointer leads to an instruction, if it executes a script.
ControlOK(p, m) ==
  /\ IsThread(m) /\ CallsOK(p, m.calls)
  /\ m.status = "running" => m.calls # << >> /\ Leads(p, m.ip, Top(m).function)

\* Frames are pushed and popped, and values deinitialised, with no effect on the calls.
SameCalls(m, s) ==
  IsThread(s) /\ s.ip = m.ip /\ s.calls = m.calls /\ s.status \in {m.status, "aborted"}

\* Pushing and popping a frame leaves the calls alone.
LEMMA FramesKeepCalls ==
  ASSUME NEW m, IsThread(m), NEW length, NEW value, NEW context
  PROVE  /\ SameCalls(m, PushFrame(m, length, value, context))
         /\ PushFrame(m, length, value, context).status = m.status
         /\ SameCalls(m, PopFrame(m)) /\ PopFrame(m).status = m.status
<1>1. /\ SameCalls(m, PushFrame(m, length, value, context))
      /\ PushFrame(m, length, value, context).status = m.status
  <2> DEFINE r == PushFrame(m, length, value, context)
  <2>1. PICK stack, frame, next : r = [m EXCEPT !.stack = stack, !.frame = frame, !.next = next]
    BY Zenon DEF PushFrame
  <2> HIDE DEF r
  <2>. QED  BY <2>1 DEF r, SameCalls, IsThread, Fields, IsPointer
<1>2. SameCalls(m, PopFrame(m)) /\ PopFrame(m).status = m.status
  <2> DEFINE r == PopFrame(m)
             gone == m.next - (m.frame.length + RESERVED_SLOTS) = 0
  <2>1. CASE gone
    <3>1. PICK next : r = [m EXCEPT !.next = next]
      BY <2>1, Zenon DEF PopFrame
    <3> HIDE DEF r
    <3>. QED  BY <3>1 DEF r, SameCalls, IsThread, Fields, IsPointer
  <2>2. CASE ~gone
    <3>1. PICK next, frame : r = [m EXCEPT !.next = next, !.frame = frame]
      BY <2>2, Zenon DEF PopFrame
    <3> HIDE DEF r
    <3>. QED  BY <3>1 DEF r, SameCalls, IsThread, Fields, IsPointer
  <2>. QED  BY <2>1, <2>2
<1>. QED  BY <1>1, <1>2

\* Unwinding a frame leaves calls and frames alone.
LEMMA LikeUnwound ==
  ASSUME NEW m, IsThread(m)
  PROVE  /\ Like(m, Unwound(m)) /\ Unwound(m).status = m.status
         /\ Unwound(m).stack = m.stack
<1> DEFINE r == Unwound(m)
<1>1. PICK contexts, objects : r = [m EXCEPT !.contexts = contexts, !.objects = objects]
  BY Zenon DEF Unwound, Cleared
<1> HIDE DEF r
<1>. QED  BY <1>1 DEF r, Like, IsThread, Fields, IsPointer
-----------------------------------------------------------------------------
(***************************************************************************)
(* The control of a thread at each operation.                              *)
(***************************************************************************)

\* An assertion that fails stops the thread.
LEMMA CheckedControl ==
  ASSUME NEW m, IsThread(m), CallsOK(program, m.calls), NEW s, NEW condition,
         condition => ControlOK(program, s)
  PROVE  ControlOK(program, Checked(m, condition, s))
<1>1. CASE condition
  BY <1>1 DEF Checked
<1>2. CASE ~condition
  <2> DEFINE r == [m EXCEPT !.status = "aborted"]
  <2>1. Checked(m, condition, s) = r
    BY <1>2 DEF Checked
  <2>2. IsThread(r) /\ r.calls = m.calls /\ r.status = "aborted"
    BY DEF IsThread, Fields, IsPointer
  <2> HIDE DEF r
  <2>. QED  BY <2>1, <2>2 DEF ControlOK
<1>. QED  BY <1>1, <1>2

\* Where a thread that executes a script is.
LEMMA AtScript ==
  ASSUME WellFormed(program), NEW m, ControlOK(program, m), m.status = "running",
         program.functions[Top(m).function].kind = "script"
  PROVE  /\ IsThread(m) /\ CallsOK(program, m.calls) /\ m.calls # << >>
         /\ Top(m).function \in DOMAIN program.functions
         /\ m.ip.function = Top(m).function /\ m.ip.at \in Nat
         /\ Word(m) = Function(m).code[m.ip.at]
         /\ Decodable(Function(m).code, m.ip.at, DOMAIN program.functions)
         /\ \A next \in Code!Successors(Function(m).code, m.ip.at) :
              Leads(program, [m.ip EXCEPT !.at = next], Top(m).function)
<1>1. /\ IsThread(m) /\ CallsOK(program, m.calls) /\ m.calls # << >>
      /\ Leads(program, m.ip, Top(m).function)
  BY DEF ControlOK
<1>2. m.ip.function = Top(m).function /\ m.ip.at \in program.functions[Top(m).function].starts
  BY <1>1 DEF Leads
<1>3. Top(m).function \in DOMAIN program.functions
  BY <1>1, CallsFront DEF CallsOK, CallOK, Top
<1>4. WellFormedFunction(Function(m), DOMAIN program.functions) /\ Function(m).kind = "script"
  BY <1>2, <1>3 DEF WellFormed, Function
<1>5. /\ m.ip.at \in Function(m).starts /\ Function(m).starts \subseteq Nat
      /\ Decodable(Function(m).code, m.ip.at, DOMAIN program.functions)
      /\ \A next \in Code!Successors(Function(m).code, m.ip.at) : next \in Function(m).starts
  BY <1>2, <1>4 DEF WellFormedFunction, Function
<1>6. ASSUME NEW next \in Code!Successors(Function(m).code, m.ip.at)
      PROVE  Leads(program, [m.ip EXCEPT !.at = next], Top(m).function)
  <2>1. next \in program.functions[Top(m).function].starts
    BY <1>2, <1>5 DEF Function
  <2>2. m.ip = [function |-> m.ip.function, at |-> m.ip.at]
    BY <1>1 DEF IsThread, IsPointer
  <2>3. /\ [m.ip EXCEPT !.at = next].function = m.ip.function
        /\ [m.ip EXCEPT !.at = next].at = next
    BY <2>2
  <2>. QED  BY <1>2, <2>1, <2>3 DEF Leads
<1>. QED  BY <1>1, <1>2, <1>3, <1>5, <1>6 DEF Word

\* The pointer goes on to the next instruction, and nothing else of the control changes.
LEMMA AdvancedControl ==
  ASSUME WellFormed(program), NEW m, ControlOK(program, m), m.status = "running",
         program.functions[Top(m).function].kind = "script",
         NEW s, Like(m, s), NEW k,
         m.ip.at + k \in Code!Successors(Function(m).code, m.ip.at)
  PROVE  ControlOK(program, Advanced(s, k))
<1> DEFINE r == Advanced(s, k)
           ip == [m.ip EXCEPT !.at = m.ip.at + k]
<1>1. IsThread(s) /\ s.ip = m.ip /\ s.calls = m.calls
  BY DEF Like
<1>2. /\ IsThread(r) /\ r.calls = m.calls /\ r.status = s.status
      /\ r.ip = ip
  BY <1>1 DEF Advanced, IsThread, Fields, IsPointer
<1>3. Leads(program, ip, Top(m).function) /\ CallsOK(program, m.calls) /\ m.calls # << >>
  BY AtScript
<1> HIDE DEF r, ip
<1>4. Top(r) = Top(m)
  BY <1>2 DEF Top
<1>. QED  BY <1>2, <1>3, <1>4 DEF ControlOK, r

\* An instruction of one word, other than jumps and returns.
LEMMA NextInstruction ==
  ASSUME NEW code, NEW at \in Nat
  PROVE  /\ code[at].op \notin {"return", "jump"} =>
              at + Code!InstructionLength(code[at]) \in Code!Successors(code, at)
         /\ code[at].op \notin {"load", "call", "sync", "return", "jump"} =>
              at + 1 \in Code!Successors(code, at)
<1>1. /\ code[at].op \notin {"return", "jump"} =>
           Code!Successors(code, at) = {at + Code!InstructionLength(code[at])}
      /\ code[at].op \notin {"load", "call", "sync"} => Code!InstructionLength(code[at]) = 1
  BY DEF Code!Successors, Code!InstructionLength
<1>. QED  BY <1>1

\* A thread that executes one of some operations.
Executes(m, ops) ==
  /\ WellFormed(program) /\ ControlOK(program, m) /\ m.status = "running"
  /\ program.functions[Top(m).function].kind = "script" /\ Word(m).op \in ops

Simple == {"deinit", "move", "clone", "dereference", "makeReference", "setReference",
           "getMember", "setMember", "increment", "add"} \cup Code!CompareOps

\* What the operations have in common that are followed by the next instruction.
LEMMA SimpleControl ==
  ASSUME NEW m, Executes(m, Simple), NEW s, Like(m, s)
  PROVE  /\ IsThread(m) /\ CallsOK(program, m.calls) /\ m.calls # << >> /\ ControlOK(program, m)
         /\ IsThread(s)
         /\ ControlOK(program, Advanced(s, 1))
<1>1. /\ IsThread(m) /\ CallsOK(program, m.calls) /\ m.calls # << >> /\ m.ip.at \in Nat
      /\ Word(m) = Function(m).code[m.ip.at]
  BY AtScript DEF Executes
<1>2. m.ip.at + 1 \in Code!Successors(Function(m).code, m.ip.at)
  <2>1. Word(m).op \notin {"load", "call", "sync", "return", "jump"}
    BY DEF Executes, Simple, Code!CompareOps
  <2>. QED  BY <1>1, <2>1, NextInstruction
<1>. QED  BY <1>1, <1>2, AdvancedControl DEF Executes, Like

\* execute_deinit.
LEMMA DeinitControl ==
  ASSUME NEW m, Executes(m, {"deinit"})
  PROVE  ControlOK(program, DeinitDone(m))
<1> DEFINE src == Word(m).src
           e == Excused(m, NotOwned(m, src))
           d == Deinited(e, ValueAt(m, src), ContextAt(m, src))
           s == IF HasDestructor(ContextAt(m, src)) THEN SetNull(d, src) ELSE m
<1>1. Executes(m, Simple)
  BY DEF Executes, Simple
<1>2. Like(m, m) /\ IsThread(m) /\ CallsOK(program, m.calls)
  BY LikeExcept, AtScript DEF Executes
<1>3. Like(m, e) /\ IsThread(e)
  BY <1>2, LikeExcused DEF Like
<1>4. Like(m, d) /\ IsThread(d)
  <2> HIDE DEF e
  <2>. QED  BY <1>3, LikeDeinited, LikeTransitive DEF Like
<1>5. Like(m, s)
  <2> HIDE DEF d
  <2>. QED  BY <1>2, <1>4, LikeSetNull, LikeTransitive
<1>6. DeinitDone(m) = Checked(m, HasValue(m, src), Advanced(s, 1))
  BY DEF DeinitDone
<1> HIDE DEF s
<1>. QED  BY <1>1, <1>2, <1>5, <1>6, SimpleControl, CheckedControl

\* execute_move.
LEMMA MoveControl ==
  ASSUME NEW m, Executes(m, {"move"})
  PROVE  ControlOK(program, Moved(m))
<1> DEFINE w == Word(m)
           e == Excused(m, NotOwned(m, w.src))
           d == Stored(e, w.dst, ValueAt(m, w.src), ContextAt(m, w.src))
           s == SetNull(d, w.src)
<1>1. Executes(m, Simple)
  BY DEF Executes, Simple
<1>2. IsThread(m) /\ CallsOK(program, m.calls)
  BY AtScript DEF Executes
<1>3. Like(m, e) /\ IsThread(e)
  BY <1>2, LikeExcused DEF Like
<1>4. Like(m, d) /\ IsThread(d)
  <2> HIDE DEF e
  <2>. QED  BY <1>3, LikeStored, LikeTransitive DEF Like
<1>5. Like(m, s)
  <2> HIDE DEF d
  <2>. QED  BY <1>4, LikeSetNull, LikeTransitive
<1>6. Moved(m) = Checked(m, HasValue(m, w.src) /\ InFrame(m, {w.dst}), Advanced(s, 1))
  BY DEF Moved
<1> HIDE DEF s
<1>. QED  BY <1>1, <1>2, <1>5, <1>6, SimpleControl, CheckedControl

\* execute_clone.
LEMMA CloneControl ==
  ASSUME NEW m, Executes(m, {"clone"})
  PROVE  ControlOK(program, CloneDone(m))
<1> DEFINE w == Word(m)
           c == Cloned(m, ValueAt(m, w.src))
           s == Stored(c.m, w.dst, c.words, ContextAt(m, w.src))
<1>1. Executes(m, Simple)
  BY DEF Executes, Simple
<1>2. IsThread(m) /\ CallsOK(program, m.calls)
  BY AtScript DEF Executes
<1>3. Like(m, c.m) /\ IsThread(c.m)
  BY <1>2, LikeCloned DEF Like
<1>4. Like(m, s)
  <2> HIDE DEF c
  <2>. QED  BY <1>3, LikeStored, LikeTransitive
<1>5. CloneDone(m) = Checked(m, /\ HasValue(m, w.src) /\ InFrame(m, {w.dst})
                                /\ ContextAt(m, w.src) # "unique", Advanced(s, 1))
  BY DEF CloneDone
<1> HIDE DEF s
<1>. QED  BY <1>1, <1>2, <1>4, <1>5, SimpleControl, CheckedControl

\* OpCodeNop.
LEMMA NopControl ==
  ASSUME NEW m, Executes(m, {"nop"})
  PROVE  ControlOK(program, Advanced(m, 1))
<1>1. /\ IsThread(m) /\ m.ip.at \in Nat /\ Word(m) = Function(m).code[m.ip.at]
  BY AtScript DEF Executes
<1>2. m.ip.at + 1 \in Code!Successors(Function(m).code, m.ip.at)
  <2>1. Word(m).op \notin {"load", "call", "sync", "return", "jump"}
    BY DEF Executes
  <2>. QED  BY <1>1, <2>1, NextInstruction
<1>3. Like(m, m)
  BY <1>1, LikeExcept
<1>. QED  BY <1>2, <1>3, AdvancedControl DEF Executes

\* The references that are made, followed, or lead to a member.
LEMMA ReferControl ==
  ASSUME NEW m
  PROVE  /\ Executes(m, {"dereference"}) => ControlOK(program, Dereferenced(m))
         /\ Executes(m, {"makeReference"}) => ControlOK(program, MadeReference(m))
         /\ Executes(m, {"getMember"}) => ControlOK(program, GotMember(m))
<1> DEFINE w == Word(m)
<1>1. ASSUME Executes(m, Simple), NEW dst, NEW words, NEW type, NEW condition
      PROVE  /\ ControlOK(program, Checked(m, condition, Advanced(Stored(m, dst, words, type), 1)))
             /\ ControlOK(program,
                          Checked(m, condition, Advanced(StoredReference(m, dst, words, type), 1)))
  <2>1. IsThread(m) /\ CallsOK(program, m.calls)
    BY <1>1, AtScript DEF Executes
  <2>2. /\ Like(m, Stored(m, dst, words, type))
        /\ Like(m, StoredReference(m, dst, words, type))
    BY <2>1, LikeStored
  <2>. QED  BY <1>1, <2>1, <2>2, SimpleControl, CheckedControl
<1>2. ASSUME Executes(m, {"dereference"})
      PROVE  ControlOK(program, Dereferenced(m))
  <2>1. Executes(m, Simple)
    BY <1>2 DEF Executes, Simple
  <2>. QED  BY <1>1, <2>1, Zenon DEF Dereferenced
<1>3. ASSUME Executes(m, {"makeReference"})
      PROVE  ControlOK(program, MadeReference(m))
  <2>1. Executes(m, Simple)
    BY <1>3 DEF Executes, Simple
  <2>. QED  BY <1>1, <2>1, Zenon DEF MadeReference
<1>4. ASSUME Executes(m, {"getMember"})
      PROVE  ControlOK(program, GotMember(m))
  <2>1. Executes(m, Simple)
    BY <1>4 DEF Executes, Simple
  <2>. QED  BY <1>1, <2>1, Zenon DEF GotMember
<1>. QED  BY <1>2, <1>3, <1>4

\* Writes through a reference, and into a member.
LEMMA WriteControl ==
  ASSUME NEW m, Executes(m, {"setReference", "setMember"}),
         NEW offset, NEW at, NEW words, NEW condition
  PROVE  ControlOK(program, Checked(m, condition, Advanced(WrittenThrough(m, offset, at, words), 1)))
<1>1. Executes(m, Simple)
  BY DEF Executes, Simple
<1>2. IsThread(m) /\ CallsOK(program, m.calls)
  BY AtScript DEF Executes
<1>3. Like(m, WrittenThrough(m, offset, at, words))
  BY <1>2, LikeWrittenThrough
<1>. QED  BY <1>1, <1>2, <1>3, SimpleControl, CheckedControl

\* The six comparisons.
LEMMA CompareControl ==
  ASSUME NEW m, Executes(m, Code!CompareOps)
  PROVE  ControlOK(program, Compared(m))
<1>1. Executes(m, Simple)
  BY DEF Executes, Simple
<1>2. IsThread(m) /\ CallsOK(program, m.calls)
  BY AtScript DEF Executes
<1>3. \A words : Like(m, Stored(m, Word(m).dst, words, "bool"))
  BY <1>2, LikeStored
<1>4. \A condition, words :
        ControlOK(program, Checked(m, condition, Advanced(Stored(m, Word(m).dst, words, "bool"), 1)))
  BY <1>1, <1>2, <1>3, SimpleControl, CheckedControl
<1>. QED  BY <1>4, Zenon DEF Compared

\* The fields of an instruction, by its opcode.
LEMMA FieldsOfOperands ==
  ASSUME NEW w, Code!Operands(w)
  PROVE  /\ w.op = "load" => w \in Code!LoadOperands
         /\ w.op = "return" => w \in Code!ReturnOperands
         /\ w.op = "call" => w \in Code!CallOperands
         /\ w.op = "jump" => w \in Code!JumpOperands
         /\ w.op = "sync" => w \in Code!SyncOperands
BY DEF Code!Operands, Code!CompareOps

\* execute_load: the words that follow are those that its encoder counted.
LEMMA LoadControl ==
  ASSUME NEW m, Executes(m, {"load"})
  PROVE  ControlOK(program, Loaded(m))
<1> DEFINE w == Word(m)
           at == m.ip.at
           code == Function(m).code
           next(i) == code[at + i].value
<1>1. /\ IsThread(m) /\ CallsOK(program, m.calls) /\ at \in Nat /\ w = code[at]
      /\ w.op = "load" /\ w \in Code!LoadOperands
  <2>1. /\ IsThread(m) /\ CallsOK(program, m.calls) /\ at \in Nat /\ w = code[at]
        /\ w.op = "load" /\ Decodable(code, at, DOMAIN program.functions)
    BY AtScript DEF Executes
  <2>2. Code!Operands(w)
    <3> HIDE DEF w, code, at
    <3>. QED  BY <2>1 DEF Decodable
  <2>. QED  BY <2>1, <2>2, FieldsOfOperands
<1>2. at + Code!InstructionLength(w) \in Code!Successors(code, at)
  BY <1>1, NextInstruction
<1>3. ASSUME NEW s, Like(m, s), NEW k, k = Code!InstructionLength(w)
      PROVE  ControlOK(program, Advanced(s, k))
  BY <1>1, <1>2, <1>3, AdvancedControl DEF Executes
<1>4. CASE w.loadType = "immediate"
  <2> DEFINE words == << IF w.immediateType = "bool" THEN <<"bool", w.immediate # 0>>
                         ELSE <<"int", w.immediate>> >>
  <2>1. Loaded(m) = Checked(m, InFrame(m, {w.dst}), Advanced(Stored(m, w.dst, words, w.immediateType), 1))
    BY <1>4, Zenon DEF Loaded
  <2>2. 1 = Code!InstructionLength(w)
    BY <1>1, <1>4 DEF Code!InstructionLength
  <2> HIDE DEF words
  <2>. QED  BY <1>1, <1>3, <2>1, <2>2, LikeStored, CheckedControl
<1>5. CASE w.loadType = "immediateLong"
  <2> DEFINE r == Advanced(Stored(m, w.dst, << <<w.tag, next(1)>> >>, w.tag), 2)
  <2>1. Loaded(m) = Checked(m, InFrame(m, {w.dst}), Checked(m, w.tag # "bool", r))
    BY <1>5 DEF Loaded
  <2>2. 2 = Code!InstructionLength(w)
    BY <1>1, <1>5 DEF Code!InstructionLength
  <2>3. Like(m, Stored(m, w.dst, << <<w.tag, next(1)>> >>, w.tag))
    BY <1>1, LikeStored
  <2>4. ControlOK(program, r)
    BY <1>3, <2>2, <2>3
  <2> HIDE DEF r
  <2>. QED  BY <1>1, <2>1, <2>4, CheckedControl
<1>6. CASE w.loadType = "default"
  <2>1. Loaded(m) = Checked(m, InFrame(m, {w.dst}),
                            Advanced(LoadedDefault(m, w), 1 + DefaultWords(w.tag)))
    BY <1>6 DEF Loaded
  <2>2. 1 + DefaultWords(w.tag) = Code!InstructionLength(w) /\ w.tag \in Code!Tags
    BY <1>1, <1>6 DEF Code!InstructionLength, Code!ContextCount, DefaultWords, Code!LoadOperands
  <2>3. Like(m, LoadedDefault(m, w))
    BY <1>1, <2>2, LikeLoadedDefault
  <2>. QED  BY <1>1, <1>3, <2>1, <2>2, <2>3, CheckedControl
<1>7. CASE w.loadType = "cloneFromPtr"
  <2> DEFINE c == Cloned(m, WordsAt(m.stack, next(1), SlotsOf(next(2))))
             s == Stored(c.m, w.dst, c.words, next(2))
  <2>1. Loaded(m) = Checked(m, InFrame(m, {w.dst}), Advanced(s, 3))
    BY <1>7 DEF Loaded
  <2>2. 3 = Code!InstructionLength(w)
    BY <1>1, <1>7 DEF Code!InstructionLength
  <2>3. Like(m, c.m) /\ IsThread(c.m)
    BY <1>1, LikeCloned DEF Like
  <2>4. Like(m, s)
    <3> HIDE DEF c
    <3>. QED  BY <2>3, LikeStored, LikeTransitive
  <2> HIDE DEF s
  <2>. QED  BY <1>1, <1>3, <2>1, <2>2, <2>4, CheckedControl
<1>8. w.loadType \in {"immediate", "immediateLong", "default", "cloneFromPtr"}
  BY <1>1 DEF Code!LoadOperands
<1>. QED  BY <1>4, <1>5, <1>6, <1>7, <1>8

\* execute_jump.
LEMMA JumpControl ==
  ASSUME NEW m, Executes(m, {"jump"})
  PROVE  ControlOK(program, Jumped(m))
<1> DEFINE w == Word(m)
           at == m.ip.at
           code == Function(m).code
           taken == w.opType = "default" \/ ValueAt(m, w.optSrc)[1][2] = (w.opType = "ifTrue")
           k == IF taken THEN w.jumpAmount ELSE 1
<1>1. IsThread(m) /\ CallsOK(program, m.calls) /\ w = code[at] /\ w.op = "jump"
  BY AtScript DEF Executes
<1>2. at + k \in Code!Successors(code, at)
  <2>1. Code!Successors(code, at) =
          {at + w.jumpAmount} \cup (IF w.opType = "default" THEN {} ELSE {at + 1})
    BY <1>1 DEF Code!Successors
  <2>. QED  BY <2>1
<1>3. ControlOK(program, Advanced(m, k))
  <2>1. Like(m, m)
    BY <1>1, LikeExcept
  <2> HIDE DEF k
  <2>. QED  BY <1>2, <2>1, AdvancedControl DEF Executes
<1>4. Jumped(m) = Checked(m, w.opType # "default" => InFrame(m, {w.optSrc}) /\ ContextAt(m, w.optSrc) = "bool",
                          Advanced(m, k))
  BY DEF Jumped
<1> HIDE DEF k
<1>. QED  BY <1>1, <1>3, <1>4, CheckedControl

\* A function ends.
LEMMA FinishedControl ==
  ASSUME NEW m, IsThread(m), WellFormed(program), CallsOK(program, m.calls), m.calls # << >>, NEW err
  PROVE  ControlOK(program, Finished(m, err))
<1> DEFINE n == Len(m.calls)
           calls == Front(m.calls)
           k == Len(calls)
           r == Finished(m, err)
<1>1. /\ CallsOK(program, calls)
      /\ calls # << >> => Resumes(program, m.calls[n].resume, calls[k])
      /\ CallOK(program, m.calls[n])
  <2>1. n \in 1 .. n
    BY CallsFront
  <2>. QED  BY <2>1, CallsFront DEF CallsOK
<1>2. CASE calls = << >>
  <2>1. PICK status \in {"error", "ended"} : r = [m EXCEPT !.calls = calls, !.status = status]
    BY <1>2 DEF Finished
  <2> HIDE DEF r, calls
  <2>2. IsThread(r) /\ r.calls = calls /\ r.status # "running"
    BY <2>1 DEF IsThread, Fields, IsPointer
  <2>. QED  BY <1>1, <2>2 DEF ControlOK, r
<1>3. CASE calls # << >> /\ program.functions[calls[k].function].kind = "c"
  <2> DEFINE c == [calls[k] EXCEPT !.pc = calls[k].pc + 1]
             code == program.functions[calls[k].function].code
             new == [calls EXCEPT ![k] = c]
  <2>1. CallOK(program, calls[k])
    <3>1. k \in 1 .. k
      <4> HIDE DEF calls
      <4>. QED  BY <1>1, <1>3, CallsFront
    <3>. QED  BY <1>1, <3>1 DEF CallsOK
  <2>2. /\ IsCall(c) /\ c.function = calls[k].function /\ c.resume = calls[k].resume
        /\ c.pc = calls[k].pc + 1
    <3> HIDE DEF calls, k
    <3>. QED  BY <2>1 DEF CallOK, IsCall, CallFields, IsPointer
  <2>3. calls[k].pc \in DOMAIN code /\ code[calls[k].pc].do # "end"
    <3> HIDE DEF calls, k
    <3>1. calls[k].pc \in DOMAIN code /\ code[calls[k].pc].do = "pass"
      BY <1>1, <1>3, <2>1 DEF CallOK, Resumes
    <3> HIDE DEF code
    <3>. QED  BY <3>1
  <2>4. calls[k].pc + 1 \in DOMAIN code
    <3> DEFINE f == calls[k].function
    <3>1. f \in DOMAIN program.functions /\ program.functions[f].kind = "c"
      BY <1>3, <2>1 DEF CallOK
    <3> HIDE DEF f
    <3>2. WellFormedFunction(program.functions[f], DOMAIN program.functions)
      BY <3>1 DEF WellFormed
    <3>3. \A i \in DOMAIN program.functions[f].code :
            program.functions[f].code[i].do # "end" => i + 1 \in DOMAIN program.functions[f].code
      BY <3>1, <3>2 DEF WellFormedFunction
    <3> HIDE DEF calls, k
    <3>. QED  BY <2>3, <3>3 DEF f
  <2>5. CallOK(program, c)
    <3> HIDE DEF calls, k, c
    <3>. QED  BY <2>1, <2>2, <2>4 DEF CallOK
  <2>6. r = [m EXCEPT !.calls = new]
    BY <1>3 DEF Finished
  <2>7. CallsOK(program, new) /\ Len(new) = k /\ new # << >> /\ new[k] = c
    <3> HIDE DEF calls, c
    <3>. QED  BY <1>1, <1>3, <2>2, <2>5, CallsUpdate
  <2> HIDE DEF new, r
  <2>8. IsThread(r) /\ r.calls = new /\ r.ip = m.ip
    BY <2>6 DEF IsThread, Fields, IsPointer
  <2>9. Top(r) = c
    BY <2>7, <2>8 DEF Top
  <2>10. Leads(program, r.ip, Top(r).function)
    <3> HIDE DEF c, calls
    <3>. QED  BY <1>3, <2>2, <2>9 DEF Leads
  <2>. QED  BY <2>7, <2>8, <2>10 DEF ControlOK, r
<1>4. CASE calls # << >> /\ program.functions[calls[k].function].kind # "c"
  <2> DEFINE ip == Top(m).resume
  <2>1. r = [m EXCEPT !.calls = calls, !.ip = ip]
    BY <1>4 DEF Finished
  <2>2. ip = m.calls[n].resume /\ IsPointer(ip)
    BY <1>1 DEF Top, CallOK, IsCall
  <2> HIDE DEF r, calls, ip
  <2>3. IsThread(r) /\ r.calls = calls /\ r.ip = ip
    BY <2>1, <2>2 DEF IsThread, Fields
  <2>4. Top(r) = calls[k]
    BY <2>3 DEF Top
  <2>. QED  BY <1>1, <1>4, <2>2, <2>3, <2>4 DEF ControlOK, Resumes, r
<1>. QED  BY <1>2, <1>3, <1>4

\* Its frame is unwound and popped.
LEMMA LeftControl ==
  ASSUME NEW m, IsThread(m), WellFormed(program), CallsOK(program, m.calls), m.calls # << >>, NEW err
  PROVE  ControlOK(program, Finished(PopFrame(Unwound(m)), err))
<1> DEFINE u == Unwound(m)
           s == PopFrame(u)
<1>1. IsThread(u) /\ u.calls = m.calls
  BY LikeUnwound DEF Like
<1> HIDE DEF u
<1>2. IsThread(s) /\ s.calls = m.calls
  BY <1>1, FramesKeepCalls DEF SameCalls
<1> HIDE DEF s
<1>. QED  BY <1>2, FinishedControl DEF s, u

\* execute_return: the caller goes on behind its call.
LEMMA ReturnControl ==
  ASSUME NEW m, Executes(m, {"return"})
  PROVE  ControlOK(program, Returned(m))
<1> DEFINE w == Word(m)
           type == ContextAt(m, w.returnSrc)
           dst == m.frame.returnValue
           lost == WrittenOver(m, dst, SlotsOf(type)) \cup NotOwned(m, w.returnSrc)
           e == SetNull(Excused(m, lost), w.returnSrc)
           s == [e EXCEPT !.stack = Copied(@, dst, ValueAt(m, w.returnSrc)),
                          !.contexts[m.frame.returnContext] = OwningContext(type)]
<1>1. IsThread(m) /\ CallsOK(program, m.calls) /\ m.calls # << >> /\ WellFormed(program)
  BY AtScript DEF Executes
<1>2. Like(m, Excused(m, lost)) /\ IsThread(Excused(m, lost))
  <2> HIDE DEF lost
  <2>. QED  BY <1>1, LikeExcused DEF Like
<1>3. Like(m, e) /\ IsThread(e)
  <2> HIDE DEF lost
  <2>. QED  BY <1>2, LikeSetNull, LikeTransitive DEF Like
<1>4. IsThread(s) /\ s.calls = m.calls
  <2>1. PICK stack, contexts : s = [e EXCEPT !.stack = stack, !.contexts = contexts]
    <3> HIDE DEF e
    <3>. QED  BY Zenon
  <2> HIDE DEF e, s
  <2>. QED  BY <1>3, <2>1 DEF Like, IsThread, Fields, IsPointer
<1>5. ControlOK(program, Finished(PopFrame(Unwound(s)), FALSE))
  <2> HIDE DEF s
  <2>. QED  BY <1>1, <1>4, LeftControl
<1>6. Returned(m) = IF ~w.hasReturn THEN Finished(PopFrame(Unwound(m)), FALSE)
                    ELSE Checked(m, dst # NULL /\ HasValue(m, w.returnSrc),
                                 Finished(PopFrame(Unwound(s)), FALSE))
  BY Zenon DEF Returned
<1> HIDE DEF s
<1>. QED  BY <1>1, <1>5, <1>6, LeftControl, CheckedControl

\* A function begins, with what goes on when it returns.
LEMMA CallControl ==
  ASSUME NEW m, IsThread(m), WellFormed(program), CallsOK(program, m.calls),
         NEW f \in DOMAIN program.functions, NEW resume, IsPointer(resume),
         m.calls # << >> => Resumes(program, resume, Top(m)),
         NEW args, NEW argCount \in Nat, DOMAIN args = 1 .. argCount, NEW returnDst
  PROVE  ControlOK(program, Call(m, f, args, returnDst, resume))
<1> DEFINE fn == program.functions[f]
           pushed == PushedArgs(m, fn.kind, args)
           length == IF fn.kind = "script" THEN fn.space ELSE pushed.offset
           s == PushFrame(pushed.m, length, returnDst, returnDst)
           c == [function |-> f, resume |-> resume, frame |-> s.frame, args |-> args,
                 offset |-> pushed.offset, pc |-> 1, locals |-> << >>]
           ip == IF fn.kind = "script" THEN [function |-> f, at |-> 1] ELSE s.ip
           calls == Append(s.calls, c)
           r == [s EXCEPT !.ip = ip, !.calls = calls]
           may == /\ fn.kind = "c" \/ (pushed.count = Len(fn.args) /\ pushed.offset <= fn.space)
                  /\ s.frame.length <= MaxFrameLength
<1>1. Call(m, f, args, returnDst, resume) = Checked(s, may, r)
  BY Zenon DEF Call, Entered
<1>2. Like(m, pushed.m) /\ IsThread(pushed.m)
  BY LikePushedArgs DEF Like
<1>3. SameCalls(pushed.m, s)
  <2> HIDE DEF pushed, length
  <2>. QED  BY <1>2, FramesKeepCalls
<1>4. IsThread(s) /\ s.calls = m.calls
  <2> HIDE DEF pushed, s
  <2>. QED  BY <1>2, <1>3 DEF Like, SameCalls
<1>5. WellFormedFunction(fn, DOMAIN program.functions)
  BY DEF WellFormed
<1> HIDE DEF s, pushed
<1>6. CallOK(program, c) /\ c.function = f /\ c.resume = resume
  <2>1. IsCall(c) /\ c.function = f /\ c.resume = resume /\ c.pc = 1
    BY DEF IsCall, CallFields, IsPointer
  <2>2. fn.kind = "c" => 1 \in DOMAIN fn.code
    BY <1>5 DEF WellFormedFunction
  <2> HIDE DEF c
  <2>. QED  BY <2>1, <2>2 DEF CallOK
<1>7. CallsOK(program, calls) /\ Len(calls) = Len(m.calls) + 1 /\ calls # << >>
      /\ calls[Len(m.calls) + 1] = c
  <2>1. s.calls # << >> => Resumes(program, c.resume, s.calls[Len(s.calls)])
    BY <1>4, <1>6 DEF Top
  <2> HIDE DEF c
  <2>. QED  BY <1>4, <1>6, <2>1, CallsAppend
<1>8. IsPointer(ip) /\ Leads(program, ip, f)
  <2>1. CASE fn.kind = "script"
    BY <1>5, <2>1 DEF WellFormedFunction, Leads, IsPointer
  <2>2. CASE fn.kind # "script"
    BY <1>4, <2>2 DEF Leads, IsThread
  <2>. QED  BY <2>1, <2>2
<1> HIDE DEF ip, calls
<1>9. IsThread(r) /\ r.ip = ip /\ r.calls = calls
  BY <1>4, <1>8 DEF IsThread, Fields
<1> HIDE DEF r, c
<1>10. Top(r) = c
  BY <1>7, <1>9 DEF Top
<1>11. ControlOK(program, r)
  BY <1>6, <1>7, <1>8, <1>9, <1>10 DEF ControlOK
<1> HIDE DEF may
<1>. QED  BY <1>1, <1>4, <1>11, CheckedControl

\* A script calls a function by its name, or one that is the value of a slot.
LEMMA CalledControl ==
  ASSUME NEW m, Executes(m, {"call"}),
         /\ Word(m).opType = "src" /\ HasValue(m, Word(m).funcSrc)
         /\ ContextAt(m, Word(m).funcSrc) = "function"
         => ValueAt(m, Word(m).funcSrc)[1][2] \in DOMAIN program.functions
  PROVE  ControlOK(program, Called(m))
<1> DEFINE w == Word(m)
           at == m.ip.at
           code == Function(m).code
           direct == w.opType = "immediate"
           srcs == Sources(m, IF direct THEN 2 ELSE 1, w.argCount)
           length == (IF direct THEN 2 ELSE 1) + SourceWords(w.argCount)
           f == IF direct THEN code[at + 1].value ELSE ValueAt(m, w.funcSrc)[1][2]
           args == [i \in DOMAIN srcs |-> [words |-> ValueAt(m, srcs[i]),
                                           type |-> ContextAt(m, srcs[i])]]
           owned == UNION {ObjectsIn(args[i].words) : i \in DOMAIN args}
           e == Excused(m, owned)
           resume == [m.ip EXCEPT !.at = @ + length]
           returnDst == IF w.hasReturn THEN At(m, w.returnDst) ELSE NULL
           may == /\ ~direct => HasValue(m, w.funcSrc) /\ ContextAt(m, w.funcSrc) = "function"
                  /\ \A i \in DOMAIN srcs : HasValue(m, srcs[i])
                  /\ w.hasReturn => InFrame(m, {w.returnDst})
<1>1. /\ IsThread(m) /\ CallsOK(program, m.calls) /\ m.calls # << >> /\ at \in Nat /\ w = code[at]
      /\ w.op = "call" /\ Decodable(code, at, DOMAIN program.functions)
      /\ program.functions[Top(m).function].kind = "script" /\ WellFormed(program)
      /\ \A next \in Code!Successors(code, at) :
           Leads(program, [m.ip EXCEPT !.at = next], Top(m).function)
  BY AtScript DEF Executes
<1>2. /\ w \in Code!CallOperands
      /\ w.opType = "immediate" => code[at + 1].value \in DOMAIN program.functions
  <2>1. /\ Code!Operands(w)
        /\ w.opType = "immediate" => code[at + 1].value \in DOMAIN program.functions
    <3> HIDE DEF w, code, at
    <3>. QED  BY <1>1 DEF Decodable
  <2>. QED  BY <1>1, <2>1, FieldsOfOperands
<1>3. w.argCount \in Nat /\ w.opType \in {"immediate", "src"}
  <2>1. w.argCount \in Code!StackOperand /\ w.opType \in {"immediate", "src"}
    BY <1>2 DEF Code!CallOperands
  <2>. QED  BY <2>1, MaxFrameLengthAssumption DEF Code!StackOperand
<1>4. Leads(program, resume, Top(m).function)
  <2>1. Code!InstructionLength(w) = length
    BY <1>1 DEF Code!InstructionLength, Code!QuadsNeeded, SourceWords
  <2>2. at + length \in Code!Successors(code, at)
    BY <1>1, <2>1, NextInstruction
  <2>. QED  BY <1>1, <2>2
<1>5. IsPointer(resume)
  <2> HIDE DEF length
  <2>. QED  BY <1>1 DEF IsThread, IsPointer
<1>6. DOMAIN args = 1 .. w.argCount
  BY DEF Sources
<1>7. Called(m) = Checked(m, may, Call(e, f, args, returnDst, resume))
  BY Zenon DEF Called
<1>8. Like(m, e) /\ IsThread(e)
  <2> HIDE DEF owned
  <2>. QED  BY <1>1, LikeExcused DEF Like
<1>9. Resumes(program, resume, Top(m)) /\ Top(e) = Top(m) /\ e.calls = m.calls
  <2>1. e.calls = m.calls
    <3> HIDE DEF e
    <3>. QED  BY <1>8 DEF Like
  <2> HIDE DEF e, resume
  <2>. QED  BY <1>1, <1>4, <2>1 DEF Resumes, Top
<1>10. ASSUME may
       PROVE  f \in DOMAIN program.functions
  BY <1>2, <1>3, <1>10
<1>11. ASSUME may
       PROVE  ControlOK(program, Call(e, f, args, returnDst, resume))
  <2> HIDE DEF e, f, args, returnDst, resume, may
  <2>. QED  BY <1>1, <1>3, <1>5, <1>6, <1>8, <1>9, <1>10, <1>11, CallControl
<1> HIDE DEF may, e, f, args, returnDst, resume
<1>. QED  BY <1>1, <1>7, <1>11, CheckedControl

\* A sum goes into a slot, or the function fails.
LEMMA IntegerControl ==
  ASSUME NEW m, Executes(m, {"increment", "add"}), NEW opType, NEW dst, NEW src, NEW n
  PROVE  ControlOK(program, IntegerResult(m, opType, dst, src, n))
<1>1. IsThread(m) /\ CallsOK(program, m.calls) /\ m.calls # << >> /\ WellFormed(program)
  BY AtScript DEF Executes
<1>2. Executes(m, Simple)
  BY DEF Executes, Simple
<1>3. CASE ~InRange(n)
  <2> DEFINE r == Advanced(m, 1)
  <2>1. IsThread(r) /\ r.calls = m.calls
    BY <1>1 DEF Advanced, IsThread, Fields, IsPointer
  <2>2. IntegerResult(m, opType, dst, src, n) = Failed(r)
    BY <1>3 DEF IntegerResult
  <2> HIDE DEF r
  <2>. QED  BY <1>1, <2>1, <2>2, LeftControl DEF Failed
<1>4. CASE InRange(n) /\ opType = "dst"
  <2>1. IntegerResult(m, opType, dst, src, n) = Advanced(Stored(m, dst, << <<"int", n>> >>, "int"), 1)
    BY <1>4 DEF IntegerResult
  <2>. QED  BY <1>1, <1>2, <2>1, LikeStored, SimpleControl
<1>5. CASE InRange(n) /\ opType # "dst"
  <2> DEFINE stack == Copied(m.stack, At(m, src), << <<"int", n>> >>)
  <2>1. IntegerResult(m, opType, dst, src, n) = Advanced([m EXCEPT !.stack = stack], 1)
    BY <1>5, Zenon DEF IntegerResult
  <2> HIDE DEF stack
  <2>2. Like(m, [m EXCEPT !.stack = stack])
    BY <1>1, LikeExcept, Zenon
  <2>. QED  BY <1>2, <2>1, <2>2, SimpleControl
<1>. QED  BY <1>3, <1>4, <1>5

\* execute_increment and execute_add.
LEMMA ArithmeticControl ==
  ASSUME NEW m
  PROVE  /\ Executes(m, {"increment"}) => ControlOK(program, Incremented(m))
         /\ Executes(m, {"add"}) => ControlOK(program, Added(m))
<1> DEFINE w == Word(m)
           type == ContextAt(m, w.src1)
           sum == ValueAt(m, w.src1)[1][2] + ValueAt(m, w.src2)[1][2]
<1>1. ASSUME Executes(m, {"increment"})
      PROVE  ControlOK(program, Incremented(m))
  <2>1. Executes(m, {"increment", "add"}) /\ IsThread(m) /\ CallsOK(program, m.calls)
    BY <1>1, AtScript DEF Executes
  <2>2. \A condition, opType, dst, src, n :
          ControlOK(program, Checked(m, condition, IntegerResult(m, opType, dst, src, n)))
    BY <2>1, IntegerControl, CheckedControl
  <2>. QED  BY <2>2, Zenon DEF Incremented
<1>2. ASSUME Executes(m, {"add"})
      PROVE  ControlOK(program, Added(m))
  <2> DEFINE s == IF type = "string" THEN Advanced(Concatenated(m, w), 1)
                  ELSE IF type = "float" THEN Advanced(FloatSum(m, w, sum), 1)
                  ELSE IntegerResult(m, w.opType, IF w.opType = "dst" THEN w.dst ELSE w.src1,
                                     w.src1, sum)
             may == /\ HasValue(m, w.src1) /\ HasValue(m, w.src2)
                    /\ w.opType = "dst" => InFrame(m, {w.dst})
                    /\ ContextAt(m, w.src2) = type /\ type \in {"int", "float", "string"}
                    /\ type = "int" => ~w.canOverflow
  <2>1. /\ Executes(m, {"increment", "add"}) /\ Executes(m, Simple)
        /\ IsThread(m) /\ CallsOK(program, m.calls)
    BY <1>2, AtScript DEF Executes, Simple
  <2>2. ControlOK(program, Advanced(Concatenated(m, w), 1))
    BY <2>1, LikeConcatenated, SimpleControl
  <2>3. ControlOK(program, Advanced(FloatSum(m, w, sum), 1))
    <3> HIDE DEF sum
    <3>. QED  BY <2>1, LikeFloatSum, SimpleControl
  <2>4. ControlOK(program, s)
    <3> HIDE DEF w, sum, type
    <3>. QED  BY <2>1, <2>2, <2>3, IntegerControl
  <2>5. Added(m) = Checked(m, may, s)
    BY Zenon DEF Added
  <2> HIDE DEF s, may
  <2>. QED  BY <2>1, <2>4, <2>5, CheckedControl
<1>. QED  BY <1>1, <1>2

\* execute_sync.
LEMMA SyncControl ==
  ASSUME NEW m, Executes(m, {"sync"})
  PROVE  /\ Word(m).opType = "sync" => \A may :
              ControlOK(program, Checked(m, may,
                Advanced(m, IF Word(m).num > 2 THEN 1 + SourceWords(Word(m).num - 2) ELSE 1)))
         /\ Word(m).opType = "unsync" => ControlOK(program, Advanced(m, 1))
<1> DEFINE w == Word(m)
           k == IF w.num > 2 THEN 1 + SourceWords(w.num - 2) ELSE 1
<1>1. /\ IsThread(m) /\ CallsOK(program, m.calls) /\ m.ip.at \in Nat
      /\ w = Function(m).code[m.ip.at] /\ w.op = "sync"
  BY AtScript DEF Executes
<1>2. m.ip.at + Code!InstructionLength(w) \in Code!Successors(Function(m).code, m.ip.at)
  BY <1>1, NextInstruction
<1>3. /\ w.opType = "sync" => Code!InstructionLength(w) = k
      /\ w.opType = "unsync" => Code!InstructionLength(w) = 1
  BY <1>1 DEF Code!InstructionLength, Code!SyncBytecodeRequired, Code!QuadsNeeded, SourceWords
<1>4. Like(m, m)
  BY <1>1, LikeExcept
<1> HIDE DEF k
<1>5. w.opType = "sync" => ControlOK(program, Advanced(m, k))
  BY <1>2, <1>3, <1>4, AdvancedControl DEF Executes
<1>6. w.opType = "unsync" => ControlOK(program, Advanced(m, 1))
  BY <1>2, <1>3, <1>4, AdvancedControl DEF Executes
<1>. QED  BY <1>1, <1>5, <1>6, CheckedControl DEF k

\* The current call of a C function changes.
BodyOK(m) ==
  /\ IsThread(m) /\ CallsOK(program, m.calls) /\ m.calls # << >>
  /\ program.functions[Top(m).function].kind = "c"

\* What leaves calls alone leaves a C function in its body.
LEMMA BodyControl ==
  ASSUME NEW m, BodyOK(m), NEW s, Like(m, s)
  PROVE  ControlOK(program, s) /\ BodyOK(s)
BY DEF BodyOK, ControlOK, Like, Leads, Top

\* Its call is replaced by one of the same function.
LEMMA CallChanged ==
  ASSUME NEW m, BodyOK(m), NEW c, CallOK(program, c),
         c.function = Top(m).function, c.resume = Top(m).resume
  PROVE  LET r == [m EXCEPT !.calls = [m.calls EXCEPT ![Len(m.calls)] = c]]
         IN  /\ BodyOK(r) /\ r.status = m.status /\ r.ip = m.ip
             /\ Len(r.calls) = Len(m.calls) /\ Top(r) = c
<1> DEFINE n == Len(m.calls)
           calls == [m.calls EXCEPT ![n] = c]
           r == [m EXCEPT !.calls = calls]
<1>1. CallsOK(program, calls) /\ Len(calls) = n /\ calls # << >> /\ calls[n] = c
  <2> HIDE DEF calls
  <2>1. CallsOK(program, m.calls) /\ m.calls # << >>
    BY DEF BodyOK
  <2>. QED  BY <2>1, CallsUpdate DEF Top, calls
<1> HIDE DEF calls
<1>2. IsThread(r) /\ r.calls = calls /\ r.status = m.status /\ r.ip = m.ip
  BY DEF BodyOK, IsThread, Fields, IsPointer
<1> HIDE DEF r
<1>3. Top(r) = c
  BY <1>1, <1>2 DEF Top
<1>. QED  BY <1>1, <1>2, <1>3 DEF BodyOK, r, calls

\* Other local variables, and another step.
Remaining(m, locals) == [m EXCEPT !.calls[Len(m.calls)].locals = locals]

\* It has other local variables.
LEMMA LocalsChanged ==
  ASSUME NEW m, BodyOK(m), NEW locals
  PROVE  LET r == Remaining(m, locals)
         IN  BodyOK(r) /\ r.status = m.status /\ r.ip = m.ip /\ Len(r.calls) = Len(m.calls)
             /\ Top(r).function = Top(m).function /\ Top(r).pc = Top(m).pc
<1> DEFINE c == [Top(m) EXCEPT !.locals = locals]
           r == Remaining(m, locals)
<1>1. CallOK(program, Top(m))
  <2>1. Len(m.calls) \in 1 .. Len(m.calls)
    BY CallsFront DEF BodyOK
  <2>. QED  BY <2>1 DEF BodyOK, CallsOK, Top
<1>2. /\ IsCall(c) /\ c.function = Top(m).function /\ c.resume = Top(m).resume
      /\ c.pc = Top(m).pc
  <2> HIDE DEF Top
  <2>. QED  BY <1>1 DEF CallOK, IsCall, CallFields, IsPointer
<1>3. r = [m EXCEPT !.calls = [m.calls EXCEPT ![Len(m.calls)] = c]]
  BY DEF Top, Remaining
<1> HIDE DEF c
<1>4. CallOK(program, c)
  BY <1>1, <1>2 DEF CallOK
<1> HIDE DEF r
<1>. QED  BY <1>2, <1>3, <1>4, CallChanged DEF r

\* It goes on to the next step of its body.
LEMMA StepChanged ==
  ASSUME NEW m, BodyOK(m), WellFormed(program),
         program.functions[Top(m).function].code[Top(m).pc].do # "end"
  PROVE  LET r == [m EXCEPT !.calls[Len(m.calls)].pc = @ + 1]
         IN  BodyOK(r) /\ r.status = m.status /\ r.ip = m.ip /\ Len(r.calls) = Len(m.calls)
<1> DEFINE c == [Top(m) EXCEPT !.pc = Top(m).pc + 1]
           r == [m EXCEPT !.calls[Len(m.calls)].pc = @ + 1]
           fn == program.functions[Top(m).function]
<1>1. CallOK(program, Top(m))
  <2>1. Len(m.calls) \in 1 .. Len(m.calls)
    BY CallsFront DEF BodyOK
  <2>. QED  BY <2>1 DEF BodyOK, CallsOK, Top
<1>2. /\ IsCall(c) /\ c.function = Top(m).function /\ c.resume = Top(m).resume
      /\ c.pc = Top(m).pc + 1
  <2> HIDE DEF Top
  <2>. QED  BY <1>1 DEF CallOK, IsCall, CallFields, IsPointer
<1>3. r = [m EXCEPT !.calls = [m.calls EXCEPT ![Len(m.calls)] = c]]
  BY DEF Top
<1> HIDE DEF c
<1>4. Top(m).pc + 1 \in DOMAIN fn.code
  <2>1. fn.kind = "c" /\ Top(m).pc \in DOMAIN fn.code /\ Top(m).function \in DOMAIN program.functions
    BY <1>1 DEF CallOK, BodyOK
  <2>2. WellFormedFunction(fn, DOMAIN program.functions)
    BY <2>1 DEF WellFormed
  <2> DEFINE pc == Top(m).pc
  <2>3. pc \in DOMAIN fn.code /\ fn.code[pc].do # "end" /\ fn.kind = "c"
    BY <2>1
  <2> HIDE DEF fn, pc
  <2>4. pc + 1 \in DOMAIN fn.code
    BY <2>2, <2>3 DEF WellFormedFunction
  <2>. QED  BY <2>4 DEF pc
<1>5. CallOK(program, c)
  BY <1>1, <1>2, <1>4 DEF CallOK
<1> HIDE DEF r
<1>. QED  BY <1>2, <1>3, <1>5, CallChanged DEF r

\* Both.
Stepped(m, locals) ==
  [m EXCEPT !.calls[Len(m.calls)].pc = @ + 1, !.calls[Len(m.calls)].locals = locals]

\* Both leave it in its body.
LEMMA BothChanged ==
  ASSUME NEW m, BodyOK(m), WellFormed(program), BodyStep(m).do # "end", NEW locals
  PROVE  BodyOK(Stepped(m, locals))
<1> DEFINE one == [m EXCEPT !.calls[Len(m.calls)].pc = @ + 1]
<1>1. BodyOK(one) /\ Len(one.calls) = Len(m.calls)
  BY StepChanged DEF BodyStep
<1>2. Stepped(m, locals) = [one EXCEPT !.calls[Len(m.calls)].locals = locals]
  BY Zenon DEF Stepped
<1> HIDE DEF one
<1>3. Stepped(m, locals) = Remaining(one, locals)
  BY <1>1, <1>2 DEF Remaining
<1>. QED  BY <1>1, <1>3, LocalsChanged

\* A C function takes an argument.
LEMMA TakenControl ==
  ASSUME NEW m, BodyOK(m), WellFormed(program), BodyStep(m).do # "end", NEW i
  PROVE  ControlOK(program, Taken(m, i))
<1> DEFINE position == ArgPosition(m, Top(m).frame.base, Top(m).offset, i)
           may == i <= Len(Top(m).args) /\ HasValue(m, position)
           local == [words |-> ValueAt(m, position), type |-> ContextAt(m, position)]
           r == [m EXCEPT !.calls[Len(m.calls)].pc = @ + 1,
                          !.calls[Len(m.calls)].locals = Append(@, local)]
<1>1. PICK locals : r = Stepped(m, locals)
  BY Zenon DEF Stepped
<1>2. Taken(m, i) = Checked(m, may, SetNull(r, position))
  BY Zenon DEF Taken
<1> HIDE DEF r, may, position
<1>3. BodyOK(r) /\ IsThread(r)
  BY <1>1, BothChanged DEF BodyOK
<1>4. ControlOK(program, SetNull(r, position))
  BY <1>3, LikeSetNull, BodyControl
<1>. QED  BY <1>2, <1>4, CheckedControl DEF BodyOK

\* It gives up a local variable, which it deinitialises or returns.
LEMMA WithoutLocalControl ==
  ASSUME NEW m, BodyOK(m), WellFormed(program), BodyStep(m).do # "end", NEW i
  PROVE  BodyOK(WithoutLocal(m, i)) /\ IsThread(WithoutLocal(m, i))
<1>1. PICK locals : WithoutLocal(m, i) = Stepped(m, locals)
  BY Zenon DEF WithoutLocal, Stepped
<1>2. BodyOK(WithoutLocal(m, i))
  BY <1>1, BothChanged
<1>. QED  BY <1>2 DEF BodyOK

\* It deinitialises it.
LEMMA DroppedControl ==
  ASSUME NEW m, BodyOK(m), WellFormed(program), BodyStep(m).do # "end", NEW i
  PROVE  ControlOK(program, Dropped(m, i))
BY WithoutLocalControl, LikeDeinited, BodyControl DEF Dropped

\* A value and its context are written.
Written(m, stack, contexts) == [m EXCEPT !.stack = stack, !.contexts = contexts]

\* They leave calls and frames alone.
LEMMA LikeReturned ==
  ASSUME NEW m, IsThread(m), NEW stack, NEW contexts
  PROVE  Like(m, Written(m, stack, contexts))
BY DEF Written, Like, IsThread, Fields, IsPointer

\* It returns it.
LEMMA GivenControl ==
  ASSUME NEW m, BodyOK(m), WellFormed(program), BodyStep(m).do # "end", NEW i
  PROVE  ControlOK(program, Given(m, i))
<1> DEFINE local == Top(m).locals[i]
           lost == WrittenOver(m, Top(m).frame.returnValue, Len(local.words))
           s == WithoutLocal(m, i)
           e == Excused(s, lost)
           r == [e EXCEPT !.stack = Copied(@, Top(m).frame.returnValue, local.words),
                          !.contexts[Top(m).frame.returnContext] = OwningContext(local.type)]
<1>1. Given(m, i) = Checked(m, Top(m).frame.returnValue # NULL, r)
  BY Zenon DEF Given
<1>2. PICK stack, contexts : r = Written(e, stack, contexts)
  <2> HIDE DEF e
  <2>. QED  BY Zenon DEF Written
<1>3. BodyOK(s) /\ IsThread(s)
  BY WithoutLocalControl
<1> HIDE DEF s, lost
<1>4. BodyOK(e) /\ IsThread(e)
  BY <1>3, LikeExcused, BodyControl DEF Like
<1> HIDE DEF r, e
<1>5. ControlOK(program, r)
  BY <1>2, <1>4, LikeReturned, BodyControl
<1>. QED  BY <1>1, <1>5, CheckedControl DEF BodyOK

\* It passes a local variable to a function it calls.
LEMMA PassedControl ==
  ASSUME NEW m, BodyOK(m), WellFormed(program), BodyStep(m).do = "pass", NEW i,
         NEW f \in DOMAIN program.functions
  PROVE  ControlOK(program, Passed(m, f, i))
<1> DEFINE local == Top(m).locals[i]
           rest == [m EXCEPT !.calls[Len(m.calls)].locals = RemoveAt(@, i)]
           args == <<local>>
<1>1. PICK locals : rest = Remaining(m, locals)
  BY Zenon DEF Remaining
<1>2. Passed(m, f, i) = Call(rest, f, args, NULL, m.ip)
  BY Zenon DEF Passed
<1> HIDE DEF rest
<1>3. /\ BodyOK(rest) /\ Top(rest).function = Top(m).function /\ Top(rest).pc = Top(m).pc
      /\ IsThread(rest)
  <2>1. /\ BodyOK(rest) /\ Top(rest).function = Top(m).function /\ Top(rest).pc = Top(m).pc
    BY <1>1, LocalsChanged
  <2>. QED  BY <2>1 DEF BodyOK
<1>4. Resumes(program, m.ip, Top(rest)) /\ IsPointer(m.ip)
  <2>1. program.functions[Top(m).function].kind = "c" /\ IsPointer(m.ip)
    BY DEF BodyOK, IsThread
  <2> HIDE DEF args
  <2>. QED  BY <1>3, <2>1 DEF Resumes, Leads, BodyStep
<1>5. DOMAIN args = 1 .. 1
  OBVIOUS
<1> HIDE DEF args
<1>. QED  BY <1>2, <1>3, <1>4, <1>5, CallControl DEF BodyOK

-----------------------------------------------------------------------------
(***************************************************************************)
(* Every step of a thread.                                                 *)
(***************************************************************************)

\* What is invariant: the programs are well formed, and every thread is in one of
\* its instructions or of its C functions.
Control ==
  /\ WellFormed(program)
  /\ threads = [t \in Threads |-> threads[t]]
  /\ \A t \in Threads : ControlOK(program, threads[t])

\* A step of a C function.
LEMMA CStepControl ==
  ASSUME Control, NEW t \in Threads, CStep(t)
  PROVE  \E s : Becomes(t, s) /\ ControlOK(program, s)
<1> DEFINE m == threads[t]
           step == BodyStep(m)
<1>1. /\ m.status = "running" /\ program.functions[Top(m).function].kind = "c"
      /\ \/ step.do = "take" /\ Becomes(t, Taken(m, step.arg))
         \/ step.do = "drop" /\ Becomes(t, Dropped(m, step.local))
         \/ step.do = "give" /\ Becomes(t, Given(m, step.local))
         \/ step.do = "pass" /\ Becomes(t, Passed(m, step.function, step.local))
         \/ step.do = "end" /\ Becomes(t, Finished(PopFrame(Unwound(m)), step.error))
  BY DEF CStep
<1>2. BodyOK(m) /\ WellFormed(program)
  BY <1>1 DEF Control, ControlOK, BodyOK
<1>3. ASSUME step.do = "pass"
      PROVE  step.function \in DOMAIN program.functions
  <2> DEFINE f == Top(m).function
             fn == program.functions[f]
             pc == Top(m).pc
  <2>1. CallOK(program, Top(m))
    <3>1. Len(m.calls) \in 1 .. Len(m.calls)
      BY <1>2, CallsFront DEF BodyOK
    <3>. QED  BY <1>2, <3>1 DEF BodyOK, CallsOK, Top
  <2>2. f \in DOMAIN program.functions /\ fn.kind = "c" /\ pc \in DOMAIN fn.code
    BY <1>1, <2>1 DEF CallOK
  <2>3. WellFormedFunction(fn, DOMAIN program.functions)
    BY <1>2, <2>2 DEF WellFormed
  <2>4. step = fn.code[pc]
    BY DEF BodyStep
  <2> HIDE DEF step, fn, pc
  <2>. QED  BY <1>3, <2>2, <2>3, <2>4 DEF WellFormedFunction
<1> HIDE DEF m, step
<1>4. step = BodyStep(m)
  BY DEF step
<1>5. CASE step.do = "take" /\ Becomes(t, Taken(m, step.arg))
  BY <1>2, <1>4, <1>5, TakenControl
<1>6. CASE step.do = "drop" /\ Becomes(t, Dropped(m, step.local))
  BY <1>2, <1>4, <1>6, DroppedControl
<1>7. CASE step.do = "give" /\ Becomes(t, Given(m, step.local))
  BY <1>2, <1>4, <1>7, GivenControl
<1>8. CASE step.do = "pass" /\ Becomes(t, Passed(m, step.function, step.local))
  BY <1>2, <1>3, <1>4, <1>8, PassedControl
<1>9. CASE step.do = "end" /\ Becomes(t, Finished(PopFrame(Unwound(m)), step.error))
  BY <1>2, <1>9, LeftControl DEF BodyOK
<1>. QED  BY <1>1, <1>5, <1>6, <1>7, <1>8, <1>9

\* A step of a script, or of a C function.
LEMMA StepControl ==
  ASSUME Control, CalleesExist, NEW t \in Threads, Step(t)
  PROVE  \E s : Becomes(t, s) /\ ControlOK(program, s)
<1> DEFINE m == threads[t]
           w == Word(m)
<1>1. ASSUME NEW ops, Executing(t, ops)
      PROVE  Executes(m, ops)
  BY <1>1 DEF Executing, Executes, Control
<1>2. CASE Load(t)
  BY <1>1, <1>2, LoadControl DEF Load
<1>3. CASE Return(t)
  BY <1>1, <1>3, ReturnControl DEF Return
<1>4. CASE DoCall(t)
  <2>1. Executes(m, {"call"}) /\ Becomes(t, Called(m))
    BY <1>1, <1>4 DEF DoCall
  <2>2. /\ w.opType = "src" /\ HasValue(m, w.funcSrc) /\ ContextAt(m, w.funcSrc) = "function"
        => ValueAt(m, w.funcSrc)[1][2] \in DOMAIN program.functions
    BY <2>1 DEF Executes, CalleesExist, CallsValue
  <2>. QED  BY <2>1, <2>2, CalledControl
<1>5. CASE Jump(t)
  BY <1>1, <1>5, JumpControl DEF Jump
<1>6. CASE DeinitMoveClone(t)
  BY <1>1, <1>6, DeinitControl, MoveControl, CloneControl DEF DeinitMoveClone
<1>7. CASE Refer(t)
  BY <1>1, <1>7, ReferControl DEF Refer
<1>8. CASE SetReference(t)
  <2>1. Executes(m, {"setReference", "setMember"})
    <3>1. Executes(m, {"setReference"})
      BY <1>1, <1>8 DEF SetReference
    <3>. QED  BY <3>1 DEF Executes
  <2>2. Becomes(t, Checked(m, MaySetReference(m),
                           Advanced(WrittenThrough(m, w.dst, 0, ValueAt(m, w.src)), 1)))
    BY <1>8 DEF SetReference
  <2>. QED  BY <2>1, <2>2, WriteControl
<1>9. CASE SetMember(t)
  <2> DEFINE slot == MembersOf[MemberTarget(m, w.dst).type][w.memberIndex + 1].slot
  <2>1. Executes(m, {"setReference", "setMember"})
    <3>1. Executes(m, {"setMember"})
      BY <1>1, <1>9 DEF SetMember
    <3>. QED  BY <3>1 DEF Executes
  <2>2. Becomes(t, Checked(m, MaySetMember(m),
                           Advanced(WrittenThrough(m, w.dst, slot, ValueAt(m, w.src)), 1)))
    BY <1>9 DEF SetMember
  <2>. QED  BY <2>1, <2>2, WriteControl
<1>10. CASE Compare(t)
  BY <1>1, <1>10, CompareControl DEF Compare
<1>11. CASE Arithmetic(t)
  BY <1>1, <1>11, ArithmeticControl DEF Arithmetic
<1>12. CASE Sync(t)
  <2> DEFINE may == \A source \in ToSet(LockSources(m)) : MayLock(m, source)
  <2>1. /\ Executes(m, {"sync"}) /\ w.opType = "sync"
        /\ Becomes(t, Checked(m, may,
             Advanced(m, IF w.num > 2 THEN 1 + SourceWords(w.num - 2) ELSE 1)))
    BY <1>1, <1>12 DEF Sync
  <2> HIDE DEF may
  <2>. QED  BY <2>1, SyncControl
<1>13. CASE Unsync(t)
  BY <1>1, <1>13, SyncControl DEF Unsync
<1>14. CASE CStep(t)
  BY <1>14, CStepControl
<1>15. CASE Nop(t)
  BY <1>1, <1>15, NopControl DEF Nop
<1>. QED  BY <1>2, <1>3, <1>4, <1>5, <1>6, <1>7, <1>8, <1>9, <1>10, <1>11, <1>12, <1>13, <1>14,
             <1>15 DEF Step

\* The thread when its host has called a function.
LEMMA StartedControl ==
  ASSUME WellFormed(program), NEW t \in Threads
  PROVE  ControlOK(program, Started(program.start[t]))
<1> DEFINE start == program.start[t]
           f == start.function
           new == [ip |-> [function |-> f, at |-> 1], calls |-> << >>,
                   objects |-> start.objects, excused |-> {},
                   status |-> IF f = "none" THEN "ended" ELSE "running",
                   next |-> NewStack.next, frame |-> NewStack.frame,
                   stack |-> NewStack.stack, contexts |-> NewStack.contexts]
           m == IF start.hostType = "none" THEN new
                ELSE [new EXCEPT
                        !.stack = Copied(@, StackSlots, start.hostWords),
                        !.contexts = WithContext(@, StackSlots, OwningContext(start.hostType))]
<1>1. IsThread(new) /\ new.calls = << >> /\ (new.status = "running" => f # "none")
  BY DEF IsThread, Fields, IsPointer, NewStack
<1>2. IsThread(m) /\ m.calls = << >> /\ (m.status = "running" => f # "none")
  <2>1. PICK stack, contexts : m \in {new, [new EXCEPT !.stack = stack, !.contexts = contexts]}
    <3> HIDE DEF new
    <3>. QED  BY Zenon
  <2> HIDE DEF m, new
  <2>. QED  BY <1>1, <2>1 DEF IsThread, Fields, IsPointer
<1>3. CallsOK(program, << >>)
  BY DEF CallsOK, IsSeq
<1>4. Started(start) = IF f = "none" THEN m ELSE Call(m, f, start.args, start.returnDst, m.ip)
  BY Zenon DEF Started
<1>5. /\ f \in DOMAIN program.functions \cup {"none"}
      /\ Len(start.args) \in Nat /\ DOMAIN start.args = 1 .. Len(start.args)
  BY DEF WellFormed
<1> HIDE DEF m, new
<1>6. f = "none" => ControlOK(program, m)
  BY <1>2, <1>3 DEF ControlOK
<1>7. f # "none" => ControlOK(program, Call(m, f, start.args, start.returnDst, m.ip))
  <2>1. IsPointer(m.ip)
    BY <1>2 DEF IsThread
  <2> HIDE DEF f, start
  <2>. QED  BY <1>2, <1>3, <1>5, <2>1, CallControl
<1>. QED  BY <1>4, <1>6, <1>7

\* The threads that their hosts have started.
LEMMA ControlInit == Init => Control
<1>. SUFFICES ASSUME Init
              PROVE  Control
  OBVIOUS
<1>1. WellFormed(program)
  BY ProgramsWellFormed DEF Init
<1>2. \A t \in Threads : threads[t] = Started(program.start[t])
  BY DEF Init
<1>. QED  BY <1>1, <1>2, StartedControl DEF Control, Init

\* A step of one of them, the others unchanged.
LEMMA ControlNext == Control /\ CalleesExist /\ [Next]_vars => Control'
<1>. SUFFICES ASSUME Control, CalleesExist, [Next]_vars
              PROVE  Control'
  OBVIOUS
<1>1. ASSUME NEW t \in Threads, Step(t)
      PROVE  Control'
  <2>1. PICK s : Becomes(t, s) /\ ControlOK(program, s)
    BY <1>1, StepControl
  <2>2. program' = program /\ threads' = [threads EXCEPT ![t] = s]
    BY <2>1 DEF Becomes
  <2>3. /\ threads' = [u \in Threads |-> threads'[u]]
        /\ \A u \in Threads : threads'[u] = IF u = t THEN s ELSE threads[u]
    BY <2>2 DEF Control
  <2>4. \A u \in Threads : ControlOK(program', threads'[u])
    BY <2>1, <2>2, <2>3 DEF Control
  <2>5. WellFormed(program')
    BY <2>2 DEF Control
  <2>. QED  BY <2>3, <2>4, <2>5 DEF Control, WellFormed, ControlOK
<1>2. CASE UNCHANGED vars
  BY <1>2 DEF vars, Control
<1>. QED  BY <1>1, <1>2 DEF Next

\* interpreter.c, execute_operation: a thread that runs a script is always at the
\* beginning of one of its instructions, as far as the functions it calls exist.
THEOREM InstructionsAreReached == Spec /\ []CalleesExist => []AtInstruction
<1>1. Control => AtInstruction
  BY DEF Control, ControlOK, Leads, AtInstruction, Function
<1>. QED  BY <1>1, ControlInit, ControlNext, PTL DEF Spec
-----------------------------------------------------------------------------
(***************************************************************************)
(* The words on the stack that an operation leaves as they are.            *)
(***************************************************************************)

IsStack(stack) == stack = [a \in Memory |-> stack[a]]

Kept(old, new, A) == IsStack(new) /\ \A a \in A : new[a] = old[a]

\* Memory that is copied elsewhere.
LEMMA KeptCopied ==
  ASSUME NEW stack, IsStack(stack), NEW A \in SUBSET Memory, NEW to, NEW words,
         \A a \in A : ~(to <= a /\ a < to + Len(words))
  PROVE  Kept(stack, Copied(stack, to, words), A)
BY DEF IsStack, Kept, Copied

\* Memory that is copied behind some slots.
LEMMA KeptBefore ==
  ASSUME NEW stack, IsStack(stack), NEW A \in SUBSET Memory, NEW to \in Int,
         \A a \in A : a < to, NEW words
  PROVE  Kept(stack, Copied(stack, to, words), A)
<1>1. \A a \in A : a \in Int
  BY StackAssumption DEF Memory
<1>2. \A a \in A : ~(to <= a)
  BY <1>1
<1>. QED  BY <1>2, KeptCopied

\* One copy after another.
LEMMA KeptTransitive ==
  ASSUME NEW one, NEW two, NEW three, NEW A, Kept(one, two, A), Kept(two, three, A)
  PROVE  Kept(one, three, A)
BY DEF Kept

\* Nothing but the stack changes.
LEMMA LikeStack ==
  ASSUME NEW m, IsThread(m), NEW v
  PROVE  Like(m, [m EXCEPT !.stack = v]) /\ [m EXCEPT !.stack = v].stack = v
BY LikeExcept

\* A value is written into a slot behind them.
LEMMA KeptStored ==
  ASSUME NEW m, IsThread(m), IsStack(m.stack), NEW A \in SUBSET Memory, NEW dst,
         At(m, dst) \in Int, \A a \in A : a < At(m, dst), NEW words, NEW type
  PROVE  /\ Kept(m.stack, Stored(m, dst, words, type).stack, A)
         /\ Kept(m.stack, StoredReference(m, dst, words, type).stack, A)
<1> DEFINE e == Excused(m, WrittenOver(m, At(m, dst), Len(words)))
           stack == Copied(e.stack, At(m, dst), words)
           s == [e EXCEPT !.stack = stack]
<1>1. IsThread(e) /\ e.stack = m.stack
  BY LikeExcused DEF Like
<1>2. Kept(m.stack, stack, A)
  <2> HIDE DEF e
  <2>. QED  BY <1>1, KeptBefore
<1>3. /\ Stored(m, dst, words, type) = SetContext(s, dst, OwningContext(type))
      /\ StoredReference(m, dst, words, type) = SetContext(s, dst, ReferenceContext(type))
  BY Zenon DEF Stored, StoredReference
<1> HIDE DEF stack, e
<1>4. IsThread(s) /\ s.stack = stack
  <2>1. Like(e, s) /\ s.stack = stack
    BY <1>1, LikeStack
  <2>. QED  BY <2>1 DEF Like
<1> HIDE DEF s
<1>. QED  BY <1>2, <1>3, <1>4, LikeSetContext

\* A default is written.
LEMMA KeptLoadedDefault ==
  ASSUME NEW m, IsThread(m), IsStack(m.stack), NEW A \in SUBSET Memory, NEW w,
         At(m, w.dst) \in Int, \A a \in A : a < At(m, w.dst), w.tag \in Code!Tags
  PROVE  Kept(m.stack, LoadedDefault(m, w).stack, A)
<1> DEFINE new == WithObject(m, 0, NULL)
           type == IF w.tag = "option" THEN "set" ELSE w.tag
<1>1. IsThread(new) /\ new.stack = m.stack /\ new.frame = m.frame
  BY LikeWithObject DEF Like
<1>2. CASE w.tag = "bool"
  BY <1>2, KeptStored DEF LoadedDefault
<1>3. CASE w.tag \in {"int", "float"}
  <2>1. LoadedDefault(m, w) = Stored(m, w.dst, << <<w.tag, 0>> >>, w.tag)
    BY <1>3 DEF LoadedDefault
  <2>. QED  BY <2>1, KeptStored
<1>4. CASE w.tag \in {"string", "array", "set", "map", "option"}
  <2>1. LoadedDefault(m, w) = Stored(new, w.dst, ObjectWords(NewId(m), type), type)
    BY <1>4 DEF LoadedDefault
  <2> HIDE DEF new, type
  <2>2. At(new, w.dst) = At(m, w.dst)
    BY <1>1 DEF At
  <2>. QED  BY <1>1, <2>1, <2>2, KeptStored
<1>5. CASE w.tag \notin {"bool", "int", "float", "string", "array", "set", "map", "option"}
  <2>1. LoadedDefault(m, w) = [m EXCEPT !.status = "aborted"]
    BY <1>5 DEF LoadedDefault
  <2>. QED  BY <2>1, LikeExcept DEF Kept
<1>. QED  BY <1>2, <1>3, <1>4, <1>5

\* The sum of floats is written into the destination or the first source.
LEMMA KeptFloatSum ==
  ASSUME NEW m, IsThread(m), IsStack(m.stack), NEW A \in SUBSET Memory, NEW w, NEW n,
         w.opType = "dst" => At(m, w.dst) \in Int /\ \A a \in A : a < At(m, w.dst),
         At(m, w.src1) \in Int, \A a \in A : a < At(m, w.src1)
  PROVE  Kept(m.stack, FloatSum(m, w, n).stack, A)
<1>1. CASE w.opType = "dst"
  BY <1>1, KeptStored DEF FloatSum
<1>2. CASE w.opType # "dst"
  <2> DEFINE stack == Copied(m.stack, At(m, w.src1), << <<"float", n>> >>)
  <2>1. FloatSum(m, w, n) = [m EXCEPT !.stack = stack]
    BY <1>2, Zenon DEF FloatSum
  <2>2. Kept(m.stack, stack, A)
    BY KeptBefore
  <2> HIDE DEF stack
  <2>. QED  BY <2>1, <2>2, LikeExcept
<1>. QED  BY <1>1, <1>2

\* The same of a string.
LEMMA KeptConcatenated ==
  ASSUME NEW m, IsThread(m), IsStack(m.stack), NEW A \in SUBSET Memory, NEW w,
         w.opType = "dst" => At(m, w.dst) \in Int /\ \A a \in A : a < At(m, w.dst),
         At(m, w.src1) \in Int, \A a \in A : a < At(m, w.src1)
  PROVE  Kept(m.stack, Concatenated(m, w).stack, A)
<1> DEFINE content == Content(m, ValueAt(m, w.src1)) + Content(m, ValueAt(m, w.src2))
           new == WithObject(m, content, NULL)
           words == ObjectWords(NewId(m), "string")
           e == Excused(new, NotOwned(m, w.src1))
           d == Deinited(e, ValueAt(m, w.src1), "string")
           stack == Copied(d.stack, At(m, w.src1), words)
<1>1. IsThread(new) /\ new.stack = m.stack /\ new.frame = m.frame
  <2> HIDE DEF content
  <2>. QED  BY LikeWithObject DEF Like
<1>2. Concatenated(m, w) = IF w.opType = "dst" THEN Stored(new, w.dst, words, "string")
                           ELSE [d EXCEPT !.stack = stack]
  BY Zenon DEF Concatenated
<1> HIDE DEF new, words
<1>3. CASE w.opType = "dst"
  <2>1. At(new, w.dst) = At(m, w.dst)
    BY <1>1 DEF At
  <2>. QED  BY <1>1, <1>2, <1>3, <2>1, KeptStored
<1>4. CASE w.opType # "dst"
  <2>1. IsThread(e) /\ e.stack = m.stack
    BY <1>1, LikeExcused DEF Like
  <2> HIDE DEF e
  <2>2. IsThread(d) /\ d.stack = m.stack
    BY <2>1, LikeDeinited DEF Like
  <2> HIDE DEF d
  <2>3. Kept(m.stack, stack, A)
    BY <2>2, KeptBefore
  <2> HIDE DEF stack
  <2>. QED  BY <1>2, <1>4, <2>2, <2>3, LikeExcept
<1>. QED  BY <1>3, <1>4

\* A value is written elsewhere, unless it is one that all threads share.
LEMMA KeptWrittenThrough ==
  ASSUME NEW m, IsThread(m), IsStack(m.stack), NEW A \in SUBSET Memory,
         NEW offset, NEW at, NEW words, NEW place,
         place = IF ContextAt(m, offset) \in ReferenceTypes
                 THEN ValueAt(m, offset)[1][2] + at ELSE At(m, offset) + at,
         ContextAt(m, offset) \notin HandleTypes =>
           \A a \in A : ~(place <= a /\ a < place + Len(words))
  PROVE  Kept(m.stack, WrittenThrough(m, offset, at, words).stack, A)
<1> DEFINE lost == ObjectsIn(WordsAt(m.stack, place, Len(words))) \cup ObjectsIn(words)
           e == Excused(m, lost)
           stack == Copied(e.stack, place, words)
<1>1. WrittenThrough(m, offset, at, words) =
        IF ContextAt(m, offset) \in HandleTypes THEN m ELSE [e EXCEPT !.stack = stack]
  BY Zenon DEF WrittenThrough
<1>2. IsThread(e) /\ e.stack = m.stack
  <2> HIDE DEF lost
  <2>. QED  BY LikeExcused DEF Like
<1> HIDE DEF e
<1>3. CASE ContextAt(m, offset) \in HandleTypes
  BY <1>1, <1>3 DEF Kept
<1>4. CASE ContextAt(m, offset) \notin HandleTypes
  <2>1. Kept(m.stack, stack, A)
    BY <1>2, <1>4, KeptCopied
  <2> HIDE DEF stack
  <2>. QED  BY <1>1, <1>2, <1>4, <2>1, LikeExcept
<1>. QED  BY <1>3, <1>4

\* The arguments of a call are written behind the frame.
LEMMA KeptPushArg ==
  ASSUME NEW call, IsThread(call.m), IsStack(call.m.stack), NEW A \in SUBSET Memory,
         NEW words, NEW type, SlotsOf(type) \in Nat,
         call.m.next \in Nat, call.offset \in Nat,
         \A a \in A : a < call.m.next + RESERVED_SLOTS
  PROVE  /\ Kept(call.m.stack, PushArg(call, words, type).m.stack, A)
         /\ PushArg(call, words, type).offset \in Nat
<1> DEFINE m == call.m
           start == m.next + RESERVED_SLOTS
           at == start + call.offset
           track == at + SlotsOf(type)
<1>1. /\ start \in Nat /\ at \in Nat /\ track \in Nat /\ start <= at /\ start <= track
      /\ \A a \in A : a < start
  <2> DEFINE next == call.m.next
             offset == call.offset
             slots == SlotsOf(type)
  <2>1. next \in Nat /\ offset \in Nat /\ slots \in Nat
    OBVIOUS
  <2> HIDE DEF next, offset, slots
  <2>2. /\ next + 4 \in Nat /\ next + 4 + offset \in Nat /\ next + 4 + offset + slots \in Nat
        /\ next + 4 <= next + 4 + offset /\ next + 4 <= next + 4 + offset + slots
    BY <2>1
  <2>. QED  BY <2>2 DEF next, offset, slots, RESERVED_SLOTS
<1>2. \A a \in A : a < at /\ a < track
  <2>1. \A a \in A : a \in Int
    BY StackAssumption DEF Memory
  <2> HIDE DEF track, at, start
  <2>. QED  BY <1>1, <2>1
<1>3. PushArg(call, words, type).offset \in Nat
  BY DEF PushArg
<1>4. Kept(m.stack, PushScriptArg(m, words, type, call.offset).stack, A)
  <2> DEFINE stack == Copied(m.stack, at, words)
             contexts == WithContext(m.contexts, at, OwningContext(type))
  <2>1. PushScriptArg(m, words, type, call.offset) = Written(m, stack, contexts)
    BY Zenon DEF PushScriptArg, Written
  <2>2. Kept(m.stack, stack, A)
    <3> HIDE DEF at
    <3>. QED  BY <1>1, <1>2, KeptBefore
  <2> HIDE DEF stack, contexts
  <2>3. Written(m, stack, contexts).stack = stack
    BY DEF Written, IsThread, Fields
  <2>. QED  BY <2>1, <2>2, <2>3
<1>5. Kept(m.stack, PushCArg(m, words, type, call.offset, call.count).stack, A)
  <2> DEFINE moved == IF call.offset > 0
                      THEN Copied(m.stack, track,
                                  WordsAt(m.stack, start + call.offset, 2 + call.count \div 4))
                      ELSE m.stack
             offsets == IF call.count = 0 THEN << >> ELSE moved[track + 1][2]
             tracked == << <<"count", call.count + 1>>, <<"offsets", Append(offsets, call.offset)>> >>
             stack == Copied(Copied(moved, at, words), track, tracked)
             contexts == WithContext(m.contexts, at, OwningContext(type))
  <2>1. PushCArg(m, words, type, call.offset, call.count) = Written(m, stack, contexts)
    BY Zenon DEF PushCArg, Written
  <2> HIDE DEF at, track, tracked
  <2>2. Kept(m.stack, moved, A)
    <3>1. Kept(m.stack, m.stack, A)
      BY DEF Kept
    <3>2. \A ws : Kept(m.stack, Copied(m.stack, track, ws), A)
      BY <1>1, <1>2, KeptBefore
    <3>. QED  BY <3>1, <3>2
  <2> HIDE DEF moved
  <2>3. Kept(m.stack, Copied(moved, at, words), A)
    <3>1. Kept(moved, Copied(moved, at, words), A)
      BY <1>1, <1>2, <2>2, KeptBefore DEF Kept
    <3>. QED  BY <2>2, <3>1, KeptTransitive
  <2>4. Kept(m.stack, stack, A)
    <3> DEFINE mid == Copied(moved, at, words)
    <3>1. IsStack(mid)
      BY <2>3 DEF Kept
    <3> HIDE DEF mid
    <3>2. Kept(mid, Copied(mid, track, tracked), A)
      BY <1>1, <1>2, <3>1, KeptBefore
    <3>. QED  BY <2>3, <3>2, KeptTransitive DEF mid
  <2> HIDE DEF stack, contexts
  <2>5. Written(m, stack, contexts).stack = stack
    BY DEF Written, IsThread, Fields
  <2>. QED  BY <2>1, <2>4, <2>5
<1>6. \/ PushArg(call, words, type).m = PushScriptArg(m, words, type, call.offset)
      \/ PushArg(call, words, type).m = PushCArg(m, words, type, call.offset, call.count)
  BY DEF PushArg
<1>. QED  BY <1>3, <1>4, <1>5, <1>6

\* Pushing all arguments writes behind the frame.
LEMMA KeptPushedArgs ==
  ASSUME NEW m, IsThread(m), IsStack(m.stack), NEW A \in SUBSET Memory, NEW kind, NEW args,
         NEW k \in Nat, DOMAIN args = 1 .. k, \A i \in 1 .. k : SlotsOf(args[i].type) \in Nat,
         m.next \in Nat, \A a \in A : a < m.next + RESERVED_SLOTS
  PROVE  LET pushed == PushedArgs(m, kind, args)
         IN  Kept(m.stack, pushed.m.stack, A) /\ pushed.offset \in Nat
<1>0. PICK f : PushedBy(f, m, kind, args, k)
  BY PushedOneByOne
<1>1. /\ f[0] = StartCall(m, kind)
      /\ \A n \in 1 .. k : f[n] = PushArg(f[n - 1], args[n].words, args[n].type)
      /\ PushedArgs(m, kind, args) = f[k]
  BY <1>0 DEF PushedBy
<1> DEFINE Good(c) == Like(m, c.m) /\ Kept(m.stack, c.m.stack, A) /\ c.offset \in Nat
           S == {n \in Nat : n <= k => Good(f[n])}
<1>2. 0 \in S
  <2>1. f[0].m = m /\ f[0].offset = 0
    BY <1>1 DEF StartCall
  <2>2. Like(m, m)
    BY LikeExcept
  <2>3. Kept(m.stack, m.stack, A)
    BY DEF Kept
  <2>4. Good(f[0])
    BY <2>1, <2>2, <2>3
  <2> HIDE DEF Good
  <2>. QED  BY <2>4
<1>3. ASSUME NEW n \in S
      PROVE  n + 1 \in S
  <2>. SUFFICES ASSUME n + 1 <= k
                PROVE  Good(f[n + 1])
    OBVIOUS
  <2>1. n + 1 \in 1 .. k /\ (n + 1) - 1 = n /\ Good(f[n])
    <3> HIDE DEF Good
    <3>1. n \in Nat /\ (n <= k => Good(f[n]))
      OBVIOUS
    <3>. QED  BY <3>1
  <2> DEFINE c == f[n]
             d == f[n + 1]
  <2>2. d = PushArg(c, args[n + 1].words, args[n + 1].type)
    BY <1>1, <2>1
  <2>3. IsThread(c.m) /\ IsStack(c.m.stack) /\ c.m.next = m.next /\ c.offset \in Nat
        /\ SlotsOf(args[n + 1].type) \in Nat
    BY <2>1 DEF Like, Kept
  <2> HIDE DEF d
  <2>4. Good(c)
    BY <2>1
  <2> HIDE DEF c
  <2>5. Like(c.m, d.m) /\ Kept(c.m.stack, d.m.stack, A) /\ d.offset \in Nat
    BY <2>2, <2>3, LikePushArg, KeptPushArg
  <2>6. Good(d)
    BY <2>4, <2>5, LikeTransitive, KeptTransitive
  <2>. QED  BY <2>6 DEF d
<1>4. S = Nat
  <2>1. S \in SUBSET Nat
    OBVIOUS
  <2> HIDE DEF S
  <2>. QED  BY <1>2, <1>3, <2>1, Induction
<1>5. Good(f[k])
  BY <1>4
<1>. QED  BY <1>1, <1>5
-----------------------------------------------------------------------------
(***************************************************************************)
(* The frames of the calls that have not returned.                         *)
(***************************************************************************)

\* A frame lies within the slots of the stack.
FrameOK(f) ==
  /\ f = [base |-> f.base, length |-> f.length,
          returnValue |-> f.returnValue, returnContext |-> f.returnContext]
  /\ f.base \in Nat /\ f.length \in Nat
  /\ f.base + f.length + RESERVED_SLOTS <= StackSlots

\* The slots from a base on say what the frame below is.
SavedAt(stack, base, f) ==
  /\ stack[base + 1] = <<"length", f.length>>
  /\ stack[base + 2][2] = f.returnValue
  /\ stack[base + 3][2] = f.returnContext

\* The slot behind a frame.
Behind(f) == f.base + f.length + RESERVED_SLOTS

ReservedOf(f) == f.base .. f.base + RESERVED_SLOTS - 1

\* The frames lie one behind the other, each with the one below saved.
Chain(stack, calls) ==
  /\ \A i \in 1 .. Len(calls) : FrameOK(calls[i].frame)
  /\ \A i, j \in 1 .. Len(calls) : i <= j => calls[i].frame.base <= calls[j].frame.base
  /\ \A i \in 2 .. Len(calls) :
       /\ calls[i].frame.base = Behind(calls[i - 1].frame)
       /\ SavedAt(stack, calls[i].frame.base, calls[i - 1].frame)
  /\ 1 \in 1 .. Len(calls) => calls[1].frame.base = 0

FramesOK(m) ==
  /\ IsStack(m.stack) /\ Chain(m.stack, m.calls)
  /\ m.calls = << >> => m.next = 0
  /\ m.calls # << >> => m.frame = Top(m).frame /\ m.next = Behind(m.frame)

\* Calls with the same frames.
SameFrames(calls, new) ==
  /\ IsSeq(new) /\ Len(new) = Len(calls)
  /\ \A i \in 1 .. Len(calls) : new[i].frame = calls[i].frame

\* The slots at the bottom of a frame are among those that are reserved.
LEMMA ReservedSlots ==
  ASSUME NEW m, IsSeq(m.calls), Chain(m.stack, m.calls)
  PROVE  /\ Reserved(m) \in SUBSET Memory
         /\ \A i \in 1 .. Len(m.calls) : \A j \in 0 .. 3 :
              m.calls[i].frame.base + j \in Reserved(m)
         /\ \A a \in Reserved(m) : a \in Nat
         /\ \A a \in Reserved(m) :
              \E i \in 1 .. Len(m.calls) : a < m.calls[i].frame.base + RESERVED_SLOTS
<1> DEFINE base(i) == m.calls[i].frame.base
<1>1. DOMAIN m.calls = 1 .. Len(m.calls)
  BY LenProperties DEF IsSeq
<1>2. \A i \in 1 .. Len(m.calls) : base(i) \in Nat /\ base(i) + 4 <= StackSlots
  <2>. SUFFICES ASSUME NEW i \in 1 .. Len(m.calls)
                PROVE  base(i) \in Nat /\ base(i) + 4 <= StackSlots
    OBVIOUS
  <2> DEFINE f == m.calls[i].frame
  <2>1. FrameOK(f)
    BY DEF Chain
  <2> HIDE DEF f
  <2>2. f.base \in Nat /\ f.base + 4 <= StackSlots
    BY <2>1, StackAssumption DEF FrameOK, RESERVED_SLOTS
  <2>. QED  BY <2>2 DEF f
<1>3. Reserved(m) = UNION {base(c) .. base(c) + 3 : c \in 1 .. Len(m.calls)}
  <2>1. \A c \in DOMAIN m.calls : base(c) + RESERVED_SLOTS - 1 = base(c) + 3
    BY <1>1, <1>2 DEF RESERVED_SLOTS
  <2>. QED  BY <1>1, <2>1 DEF Reserved
<1> HIDE DEF base
<1>4. \A a \in Reserved(m) : \E i \in 1 .. Len(m.calls) : a \in base(i) .. base(i) + 3
  BY <1>3
<1>5. ASSUME NEW i \in 1 .. Len(m.calls), NEW a \in base(i) .. base(i) + 3
      PROVE  a \in Memory /\ a \in Nat /\ a < base(i) + RESERVED_SLOTS
  <2>1. base(i) \in Nat /\ base(i) + 4 <= StackSlots
    BY <1>2
  <2>. QED  BY <2>1, StackAssumption DEF Memory, RESERVED_SLOTS
<1>6. ASSUME NEW i \in 1 .. Len(m.calls), NEW j \in 0 .. 3
      PROVE  base(i) + j \in Reserved(m)
  <2>1. base(i) + j \in base(i) .. base(i) + 3
    <3>1. \A x \in Nat : x + j \in x .. x + 3
      OBVIOUS
    <3>. QED  BY <1>2, <3>1
  <2>. QED  BY <1>3, <2>1
<1>. QED  BY <1>4, <1>5, <1>6 DEF base

\* The slots of values are behind those that are reserved.
LEMMA ReservedBelow ==
  ASSUME NEW m, IsSeq(m.calls), m.calls # << >>, FramesOK(m)
  PROVE  /\ Reserved(m) \in SUBSET Memory
         /\ FrameOK(m.frame)
         /\ \A o \in Nat : At(m, o) \in Int /\ \A a \in Reserved(m) : a < At(m, o)
         /\ \A o \in Nat : HasValue(m, o) => At(m, o) \in Memory
<1> DEFINE n == Len(m.calls)
           base == m.frame.base
<1>1. n \in 1 .. n
  BY EmptySeq DEF IsSeq
<1>2. m.frame = m.calls[n].frame /\ FrameOK(m.frame)
  BY <1>1 DEF FramesOK, Chain, Top
<1>3. base \in Nat /\ m.frame.length \in Nat /\ base + m.frame.length + 4 <= StackSlots
  BY <1>2 DEF FrameOK, RESERVED_SLOTS
<1>4. Chain(m.stack, m.calls)
  BY DEF FramesOK
<1>5. ASSUME NEW a \in Reserved(m)
      PROVE  a \in Nat /\ a < base + 4
  <2>1. PICK i \in 1 .. n : a < m.calls[i].frame.base + 4
    BY <1>4, ReservedSlots DEF RESERVED_SLOTS
  <2>2. m.calls[i].frame.base <= base /\ FrameOK(m.calls[i].frame)
    <3>1. i <= n
      BY <1>1
    <3>. QED  BY <1>1, <1>2, <1>4, <3>1 DEF Chain
  <2>3. m.calls[i].frame.base \in Nat
    BY <2>2 DEF FrameOK
  <2>4. a \in Nat
    BY <1>4, ReservedSlots
  <2> DEFINE below == m.calls[i].frame.base
  <2>5. a < below + 4 /\ below <= base /\ below \in Nat
    BY <2>1, <2>2, <2>3
  <2> HIDE DEF base, below
  <2>. QED  BY <1>3, <2>4, <2>5
<1>6. ASSUME NEW o \in Nat
      PROVE  At(m, o) \in Int /\ \A a \in Reserved(m) : a < At(m, o)
  <2> HIDE DEF base
  <2>1. At(m, o) = base + o + 4
    BY DEF At, RESERVED_SLOTS, base
  <2>. QED  BY <1>3, <1>5, <2>1
<1>7. ASSUME NEW o \in Nat, HasValue(m, o)
      PROVE  At(m, o) \in Memory
  <2>1. o < m.frame.length
    BY <1>7 DEF HasValue, InFrame
  <2>2. At(m, o) = base + o + 4
    BY DEF At, RESERVED_SLOTS
  <2> HIDE DEF base
  <2>. QED  BY <1>3, <2>1, <2>2, StackAssumption DEF Memory
<1>. QED  BY <1>2, <1>4, <1>6, <1>7, ReservedSlots

\* The words that are reserved are as they were.
LEMMA ChainKept ==
  ASSUME NEW m, IsSeq(m.calls), Chain(m.stack, m.calls),
         NEW stack, Kept(m.stack, stack, Reserved(m)), NEW calls, SameFrames(m.calls, calls)
  PROVE  Chain(stack, calls)
<1> DEFINE n == Len(m.calls)
<1>1. Len(calls) = n /\ \A i \in 1 .. n : calls[i].frame = m.calls[i].frame
  BY DEF SameFrames
<1>2. n \in Nat
  BY LenProperties DEF IsSeq
<1> HIDE DEF n
<1>3. ASSUME NEW i \in 2 .. n
      PROVE  /\ calls[i].frame.base = Behind(calls[i - 1].frame)
             /\ SavedAt(stack, calls[i].frame.base, calls[i - 1].frame)
  <2>1. i \in 1 .. n /\ i - 1 \in 1 .. n
    BY <1>2
  <2>2. /\ m.calls[i].frame.base = Behind(m.calls[i - 1].frame)
        /\ SavedAt(m.stack, m.calls[i].frame.base, m.calls[i - 1].frame)
    BY DEF Chain, n
  <2>3. \A j \in 0 .. 3 : stack[m.calls[i].frame.base + j] = m.stack[m.calls[i].frame.base + j]
    BY <2>1, ReservedSlots DEF Kept, n
  <2>4. SavedAt(stack, m.calls[i].frame.base, m.calls[i - 1].frame)
    <3> DEFINE base == m.calls[i].frame.base
               f == m.calls[i - 1].frame
    <3>1. SavedAt(m.stack, base, f) /\ \A j \in 0 .. 3 : stack[base + j] = m.stack[base + j]
      BY <2>2, <2>3
    <3> HIDE DEF base, f
    <3>2. /\ stack[base + 1] = m.stack[base + 1] /\ stack[base + 2] = m.stack[base + 2]
          /\ stack[base + 3] = m.stack[base + 3]
      BY <3>1
    <3>. QED  BY <3>1, <3>2, Zenon DEF SavedAt, base, f
  <2>. QED  BY <1>1, <2>1, <2>2, <2>4
<1>4. /\ \A i \in 1 .. n : FrameOK(calls[i].frame)
      /\ \A i, j \in 1 .. n : i <= j => calls[i].frame.base <= calls[j].frame.base
      /\ 1 \in 1 .. n => calls[1].frame.base = 0
  <2>1. /\ \A i \in 1 .. n : FrameOK(m.calls[i].frame)
        /\ \A i, j \in 1 .. n : i <= j => m.calls[i].frame.base <= m.calls[j].frame.base
        /\ 1 \in 1 .. n => m.calls[1].frame.base = 0
    BY DEF Chain, n
  <2>. QED  BY <1>1, <2>1, Zenon
<1>. QED  BY <1>1, <1>3, <1>4 DEF Chain

\* A function returns.
LEMMA ChainFront ==
  ASSUME NEW stack, NEW calls, IsSeq(calls), calls # << >>, Chain(stack, calls)
  PROVE  Chain(stack, Front(calls))
<1> DEFINE n == Len(calls)
           r == Front(calls)
<1>1. n \in Nat \ {0} /\ Len(r) = n - 1 /\ \A i \in 1 .. n - 1 : r[i] = calls[i]
  BY SeqFront
<1> HIDE DEF r
<1>2. /\ \A i \in 1 .. n : FrameOK(calls[i].frame)
      /\ \A i, j \in 1 .. n : i <= j => calls[i].frame.base <= calls[j].frame.base
      /\ \A i \in 2 .. n : /\ calls[i].frame.base = Behind(calls[i - 1].frame)
                           /\ SavedAt(stack, calls[i].frame.base, calls[i - 1].frame)
      /\ 1 \in 1 .. n => calls[1].frame.base = 0
  BY DEF Chain
<1> HIDE DEF n
<1>3. \A i \in 1 .. n - 1 : i \in 1 .. n /\ r[i] = calls[i]
  BY <1>1
<1>4. \A i \in 2 .. n - 1 : i \in 1 .. n - 1 /\ i - 1 \in 1 .. n - 1 /\ i \in 2 .. n
  BY <1>1
<1>5. /\ \A i \in 1 .. n - 1 : FrameOK(r[i].frame)
      /\ \A i, j \in 1 .. n - 1 : i <= j => r[i].frame.base <= r[j].frame.base
      /\ 1 \in 1 .. n - 1 => r[1].frame.base = 0
  BY <1>2, <1>3, Zenon
<1>6. \A i \in 2 .. n - 1 : /\ r[i].frame.base = Behind(r[i - 1].frame)
                            /\ SavedAt(stack, r[i].frame.base, r[i - 1].frame)
  <2>. SUFFICES ASSUME NEW i \in 2 .. n - 1
                PROVE  /\ r[i].frame.base = Behind(r[i - 1].frame)
                       /\ SavedAt(stack, r[i].frame.base, r[i - 1].frame)
    OBVIOUS
  <2>1. r[i] = calls[i] /\ r[i - 1] = calls[i - 1] /\ i \in 2 .. n
    BY <1>3, <1>4
  <2>. QED  BY <1>2, <2>1
<1>. QED  BY <1>1, <1>5, <1>6 DEF Chain, r

\* A function is called.
LEMMA ChainAppend ==
  ASSUME NEW stack, NEW calls, IsSeq(calls), Chain(stack, calls),
         NEW c, FrameOK(c.frame),
         calls = << >> => c.frame.base = 0,
         calls # << >> => /\ c.frame.base = Behind(calls[Len(calls)].frame)
                          /\ SavedAt(stack, c.frame.base, calls[Len(calls)].frame)
  PROVE  Chain(stack, Append(calls, c))
<1> DEFINE n == Len(calls)
           r == Append(calls, c)
<1>1. /\ n \in Nat /\ Len(r) = n + 1 /\ \A i \in 1 .. n : r[i] = calls[i]
      /\ r[n + 1] = c
  BY SeqAppend
<1> HIDE DEF r
<1>2. /\ \A i \in 1 .. n : FrameOK(calls[i].frame)
      /\ \A i, j \in 1 .. n : i <= j => calls[i].frame.base <= calls[j].frame.base
      /\ \A i \in 2 .. n : /\ calls[i].frame.base = Behind(calls[i - 1].frame)
                           /\ SavedAt(stack, calls[i].frame.base, calls[i - 1].frame)
      /\ 1 \in 1 .. n => calls[1].frame.base = 0
  BY DEF Chain
<1>3. n = 0 <=> calls = << >>
  BY EmptySeq DEF IsSeq
<1>4. n # 0 => /\ c.frame.base = Behind(calls[n].frame)
               /\ SavedAt(stack, c.frame.base, calls[n].frame)
  BY <1>3
<1>5. n = 0 => c.frame.base = 0
  BY <1>3
<1> HIDE DEF n
<1>6. n # 0 => calls[n].frame.base <= c.frame.base
  <2>. SUFFICES ASSUME n # 0
                PROVE  calls[n].frame.base <= c.frame.base
    OBVIOUS
  <2> DEFINE f == calls[n].frame
  <2>1. n \in 1 .. n
    BY <1>1
  <2>2. FrameOK(f) /\ c.frame.base = Behind(f)
    BY <1>2, <1>4, <2>1
  <2> HIDE DEF f
  <2>3. f.base <= c.frame.base
    BY <2>2 DEF FrameOK, Behind, RESERVED_SLOTS
  <2>. QED  BY <2>3 DEF f
<1>7. \A i \in 1 .. n + 1 : i \in 1 .. n \/ i = n + 1
  BY <1>1
<1>8. \A i \in 1 .. n + 1 : FrameOK(r[i].frame)
  BY <1>1, <1>2, <1>7
<1>9. ASSUME NEW i \in 1 .. n + 1, NEW j \in 1 .. n + 1, i <= j
      PROVE  r[i].frame.base <= r[j].frame.base
  <2>1. CASE j \in 1 .. n
    <3>1. i \in 1 .. n
      BY <1>1, <1>9, <2>1
    <3>. QED  BY <1>1, <1>2, <1>9, <2>1, <3>1
  <2>2. CASE i \in 1 .. n /\ j = n + 1
    <3>1. n # 0 /\ n \in 1 .. n /\ i <= n
      BY <1>1, <2>2
    <3>2. calls[i].frame.base <= calls[n].frame.base /\ calls[n].frame.base <= c.frame.base
      BY <1>2, <1>6, <2>2, <3>1
    <3>3. calls[i].frame.base \in Nat /\ calls[n].frame.base \in Nat /\ c.frame.base \in Nat
      <4>1. FrameOK(calls[i].frame) /\ FrameOK(calls[n].frame) /\ FrameOK(c.frame)
        BY <1>2, <2>2, <3>1
      <4>. QED  BY <4>1 DEF FrameOK
    <3>4. calls[i].frame.base <= c.frame.base
      <4> DEFINE x == calls[i].frame.base
                 y == calls[n].frame.base
                 z == c.frame.base
      <4>1. x \in Nat /\ y \in Nat /\ z \in Nat /\ x <= y /\ y <= z
        BY <3>2, <3>3
      <4> HIDE DEF x, y, z
      <4>2. x <= z
        BY <4>1
      <4>. QED  BY <4>2 DEF x, z
    <3>. QED  BY <1>1, <2>2, <3>4
  <2>3. CASE i = n + 1 /\ j = n + 1
    <3>1. c.frame.base \in Nat
      BY DEF FrameOK
    <3>2. c.frame.base <= c.frame.base
      BY <3>1
    <3>. QED  BY <1>1, <2>3, <3>2
  <2>. QED  BY <1>7, <2>1, <2>2, <2>3
<1>10. \A i \in 2 .. n + 1 : /\ r[i].frame.base = Behind(r[i - 1].frame)
                             /\ SavedAt(stack, r[i].frame.base, r[i - 1].frame)
  <2>. SUFFICES ASSUME NEW i \in 2 .. n + 1
                PROVE  /\ r[i].frame.base = Behind(r[i - 1].frame)
                       /\ SavedAt(stack, r[i].frame.base, r[i - 1].frame)
    OBVIOUS
  <2>1. CASE i \in 2 .. n
    <3>1. i \in 1 .. n /\ i - 1 \in 1 .. n
      BY <1>1, <2>1
    <3>2. r[i] = calls[i] /\ r[i - 1] = calls[i - 1]
      BY <1>1, <3>1
    <3>. QED  BY <1>2, <2>1, <3>2
  <2>2. CASE i = n + 1
    <3>1. n # 0 /\ n \in 1 .. n /\ i - 1 = n
      BY <1>1, <2>2
    <3>2. r[i] = c /\ r[i - 1] = calls[n]
      BY <1>1, <2>2, <3>1
    <3>. QED  BY <1>4, <3>1, <3>2
  <2>. QED  BY <1>1, <2>1, <2>2
<1>11. r[1].frame.base = 0
  <2>1. CASE n = 0
    BY <1>1, <1>5, <2>1
  <2>2. CASE n # 0
    <3>1. 1 \in 1 .. n
      BY <1>1, <2>2
    <3>. QED  BY <1>1, <1>2, <3>1
  <2>. QED  BY <2>1, <2>2
<1>. QED  BY <1>1, <1>8, <1>9, <1>10, <1>11 DEF Chain, r
-----------------------------------------------------------------------------
(***************************************************************************)
(* The frames of a thread at each operation.                               *)
(***************************************************************************)

\* After an assertion that failed nothing is said of the frames.
Framed(m) == m.status # "aborted" => FramesOK(m)

\* An assertion that fails makes a thread aborted; its frames are lost.
LEMMA CheckedFramed ==
  ASSUME NEW m, IsThread(m), NEW s, NEW condition, condition => Framed(s)
  PROVE  Framed(Checked(m, condition, s))
<1>1. CASE condition
  BY <1>1 DEF Checked
<1>2. CASE ~condition
  <2>1. Checked(m, condition, s) = [m EXCEPT !.status = "aborted"]
    BY <1>2 DEF Checked
  <2>2. [m EXCEPT !.status = "aborted"].status = "aborted"
    BY DEF IsThread, Fields
  <2>. QED  BY <2>1, <2>2 DEF Framed
<1>. QED  BY <1>1, <1>2

\* Neither the frames nor what is saved of them changes.
LEMMA FramesKept ==
  ASSUME NEW m, IsSeq(m.calls), FramesOK(m), NEW s, SameFrames(m.calls, s.calls),
         s.frame = m.frame, s.next = m.next, Kept(m.stack, s.stack, Reserved(m))
  PROVE  FramesOK(s)
<1>1. Len(s.calls) = Len(m.calls) /\ IsSeq(s.calls)
  BY DEF SameFrames
<1>2. s.calls = << >> <=> m.calls = << >>
  BY <1>1, EmptySeq DEF IsSeq
<1>3. m.calls # << >> => Top(s).frame = Top(m).frame
  <2>1. m.calls # << >> => Len(m.calls) \in 1 .. Len(m.calls)
    BY EmptySeq DEF IsSeq
  <2>. QED  BY <1>1, <2>1 DEF Top, SameFrames
<1>4. Chain(s.stack, s.calls)
  BY ChainKept DEF FramesOK
<1>. QED  BY <1>2, <1>3, <1>4 DEF FramesOK, Kept

\* The same for an operation that does not call.
LEMMA FramesLike ==
  ASSUME NEW m, IsSeq(m.calls), FramesOK(m), NEW s, Like(m, s),
         Kept(m.stack, s.stack, Reserved(m))
  PROVE  /\ FramesOK(s)
         /\ \A k : Advanced(s, k).calls = m.calls /\ FramesOK(Advanced(s, k))
<1>1. SameFrames(m.calls, m.calls)
  BY DEF SameFrames
<1>2. s.calls = m.calls /\ s.frame = m.frame /\ s.next = m.next
  BY DEF Like
<1>3. ASSUME NEW k
      PROVE  LET r == Advanced(s, k)
             IN  r.calls = m.calls /\ r.frame = m.frame /\ r.next = m.next /\ r.stack = s.stack
  BY <1>2 DEF Like, Advanced, IsThread, Fields
<1>4. FramesOK(s)
  BY <1>1, <1>2, FramesKept
<1>5. ASSUME NEW k
      PROVE  Advanced(s, k).calls = m.calls /\ FramesOK(Advanced(s, k))
  <2> DEFINE r == Advanced(s, k)
  <2>1. r.calls = m.calls /\ r.frame = m.frame /\ r.next = m.next /\ r.stack = s.stack
    BY <1>3
  <2> HIDE DEF r
  <2>2. FramesOK(r)
    BY <1>1, <2>1, FramesKept
  <2>. QED  BY <2>1, <2>2 DEF r
<1>. QED  BY <1>4, <1>5

\* A function ends, and its caller's frame is restored from the stack.
LEMMA LeftFramed ==
  ASSUME NEW m, IsThread(m), CallsOK(program, m.calls), m.calls # << >>, FramesOK(m), NEW err
  PROVE  FramesOK(Finished(PopFrame(Unwound(m)), err))
<1> DEFINE u == Unwound(m)
           s == PopFrame(u)
           n == Len(m.calls)
           base == m.frame.base
           below == m.calls[n - 1].frame
           calls == Front(m.calls)
           r == Finished(s, err)
<1>1. IsThread(u) /\ u.calls = m.calls /\ u.frame = m.frame /\ u.next = m.next /\ u.stack = m.stack
  BY LikeUnwound DEF Like
<1>2. n \in Nat \ {0} /\ n \in 1 .. n /\ IsSeq(m.calls)
  BY EmptySeq DEF CallsOK, IsSeq
<1>3. /\ Chain(m.stack, m.calls) /\ IsStack(m.stack)
      /\ m.frame = m.calls[n].frame /\ m.next = Behind(m.frame) /\ FrameOK(m.frame)
  BY <1>2 DEF FramesOK, Chain, Top
<1>4. base \in Nat /\ m.frame.length \in Nat /\ m.next = base + m.frame.length + 4
  BY <1>3 DEF FrameOK, Behind, RESERVED_SLOTS
<1>5. u.next - (u.frame.length + RESERVED_SLOTS) = base
  <2> HIDE DEF u, base
  <2>. QED  BY <1>1, <1>4 DEF RESERVED_SLOTS
<1>6. /\ IsSeq(calls) /\ Len(calls) = n - 1 /\ \A i \in 1 .. n - 1 : calls[i] = m.calls[i]
      /\ Chain(m.stack, calls)
  BY <1>2, <1>3, SeqFront, ChainFront
<1> HIDE DEF u, calls
<1>7. /\ IsThread(s) /\ s.calls = m.calls /\ s.stack = m.stack
      /\ n > 1 => s.frame = below /\ s.next = Behind(below)
      /\ n = 1 => s.next = 0
  <2>1. n = 1 => base = 0
    BY <1>2, <1>3 DEF Chain
  <2>2. n > 1 => /\ base = Behind(below) /\ SavedAt(m.stack, base, below)
                 /\ FrameOK(below)
    <3>1. n > 1 => n \in 2 .. n /\ n - 1 \in 1 .. n
      BY <1>2
    <3>. QED  BY <1>3, <3>1 DEF Chain
  <2>3. CASE n = 1
    <3>1. s = [u EXCEPT !.next = 0]
      <4> HIDE DEF base
      <4>. QED  BY <1>5, <2>1, <2>3 DEF PopFrame
    <3> HIDE DEF s
    <3>2. IsThread(s) /\ s.calls = u.calls /\ s.stack = u.stack /\ s.next = 0
      BY <1>1, <3>1 DEF IsThread, Fields, IsPointer
    <3>. QED  BY <1>1, <2>3, <3>2
  <2>4. CASE n > 1
    <3> HIDE DEF below
    <3>1. base = Behind(below) /\ SavedAt(m.stack, base, below) /\ FrameOK(below)
      BY <2>2, <2>4
    <3>2. /\ below.base \in Nat /\ below.length \in Nat
          /\ base = below.base + below.length + 4
          /\ base # 0 /\ base - below.length - 4 = below.base
      <4>1. below.base \in Nat /\ below.length \in Nat /\ base = below.base + below.length + 4
        BY <3>1 DEF FrameOK, Behind, RESERVED_SLOTS
      <4> DEFINE x == below.base
                 y == below.length
      <4> HIDE DEF base, x, y
      <4>2. x \in Nat /\ y \in Nat /\ base = x + y + 4
        BY <4>1 DEF x, y
      <4>3. base # 0 /\ base - y - 4 = x
        BY <4>2
      <4>. QED  BY <4>1, <4>3 DEF x, y
    <3> DEFINE f == [base |-> base - u.stack[u.frame.base + 1][2] - RESERVED_SLOTS,
                     length |-> u.stack[u.frame.base + 1][2],
                     returnValue |-> u.stack[u.frame.base + 2][2],
                     returnContext |-> u.stack[u.frame.base + 3][2]]
    <3>3. s = [u EXCEPT !.next = base, !.frame = f]
      <4> HIDE DEF base
      <4>. QED  BY <1>5, <3>2, Zenon DEF PopFrame
    <3>4. f = below
      <4>1. /\ u.stack[u.frame.base + 1][2] = below.length
            /\ u.stack[u.frame.base + 2][2] = below.returnValue
            /\ u.stack[u.frame.base + 3][2] = below.returnContext
        BY <1>1, <3>1 DEF SavedAt
      <4>2. f = [base |-> below.base, length |-> below.length,
                 returnValue |-> below.returnValue, returnContext |-> below.returnContext]
        <5> HIDE DEF base
        <5>. QED  BY <3>2, <4>1 DEF RESERVED_SLOTS
      <4> HIDE DEF f
      <4>. QED  BY <3>1, <4>2 DEF FrameOK
    <3> HIDE DEF s, f, base
    <3>5. IsThread(s) /\ s.calls = u.calls /\ s.stack = u.stack /\ s.next = base /\ s.frame = f
      BY <1>1, <3>3 DEF IsThread, Fields, IsPointer
    <3>6. n # 1
      <4> HIDE DEF n
      <4>. QED  BY <2>4
    <3> HIDE DEF n
    <3>. QED  BY <1>1, <3>1, <3>4, <3>5, <3>6
  <2>5. n = 1 \/ n > 1
    <3> HIDE DEF n
    <3>. QED  BY <1>2
  <2> HIDE DEF n, s, below
  <2>. QED  BY <2>3, <2>4, <2>5
<1> HIDE DEF s
<1>8. calls = << >> <=> n = 1
  <2>1. calls = << >> <=> Len(calls) = 0
    BY <1>6, EmptySeq DEF IsSeq
  <2> HIDE DEF n
  <2>. QED  BY <1>2, <1>6, <2>1
<1>9. calls = Front(s.calls)
  BY <1>7 DEF calls
<1>10. CASE calls = << >>
  <2>1. PICK status : r = [s EXCEPT !.calls = calls, !.status = status]
    BY <1>9, <1>10, Zenon DEF Finished
  <2> HIDE DEF r
  <2>2. r.calls = calls /\ r.next = s.next /\ r.stack = s.stack
    BY <1>7, <2>1 DEF IsThread, Fields
  <2>3. FramesOK(r)
    BY <1>3, <1>6, <1>7, <1>8, <1>10, <2>2 DEF FramesOK
  <2>. QED  BY <2>3 DEF r, s, u
<1>11. CASE calls # << >>
  <2> DEFINE k == Len(calls)
             c == [calls[k] EXCEPT !.pc = calls[k].pc + 1]
             new == [calls EXCEPT ![k] = c]
  <2>1. k = n - 1 /\ k \in 1 .. k /\ calls[k].frame = below /\ n > 1 /\ calls[k] = m.calls[k]
        /\ k \in 1 .. n
    <3>1. k = n - 1 /\ k \in 1 .. n - 1 /\ n > 1 /\ k \in 1 .. n
      <4> HIDE DEF n
      <4>. QED  BY <1>2, <1>6, <1>8, <1>11
    <3>. QED  BY <1>6, <3>1
  <2>2. c.frame = calls[k].frame
    <3>1. IsCall(m.calls[k])
      BY <2>1 DEF CallsOK, CallOK
    <3>2. \A x, v : IsCall(x) => [x EXCEPT !.pc = v].frame = x.frame
      BY DEF IsCall, CallFields
    <3>. QED  BY <2>1, <3>1, <3>2
  <2>3. IsSeq(new) /\ Len(new) = k /\ \A i \in 1 .. k : new[i].frame = calls[i].frame
    <3> HIDE DEF calls, c
    <3>1. Updates(new, calls, k, c)
      BY DEF Updates
    <3> HIDE DEF new
    <3>2. /\ IsSeq(new) /\ Len(new) = k
          /\ \A i \in 1 .. k : new[i] = IF i = k THEN c ELSE calls[i]
      BY <1>6, <2>1, <3>1, SeqUpdated
    <3>. QED  BY <2>2, <3>2
  <2> HIDE DEF c, new
  <2>4. /\ r.calls \in {calls, new}
        /\ r.next = s.next /\ r.stack = s.stack /\ r.frame = s.frame
    <3>1. CASE program.functions[calls[Len(calls)].function].kind = "c"
      <4>1. r = [s EXCEPT !.calls = new]
        BY <1>9, <1>11, <3>1, Zenon DEF Finished, new, c
      <4> HIDE DEF r
      <4>. QED  BY <1>7, <4>1 DEF IsThread, Fields
    <3>2. CASE program.functions[calls[Len(calls)].function].kind # "c"
      <4> DEFINE resume == Top(s).resume
      <4>1. r = [s EXCEPT !.calls = calls, !.ip = resume]
        BY <1>9, <1>11, <3>2, Zenon DEF Finished
      <4> HIDE DEF r, resume
      <4>. QED  BY <1>7, <4>1 DEF IsThread, Fields
    <3> HIDE DEF r
    <3>. QED  BY <3>1, <3>2
  <2> DEFINE cs == r.calls
  <2>5. r.calls = cs
    OBVIOUS
  <2> HIDE DEF cs, r, k
  <2>6. s.frame = below /\ s.next = Behind(below)
    BY <1>7, <2>1
  <2>7. SameFrames(calls, cs)
    BY <1>6, <2>3, <2>4 DEF SameFrames, k, cs
  <2>8. Chain(m.stack, cs)
    <3> DEFINE x == [m EXCEPT !.calls = calls]
    <3>1. x.calls = calls /\ x.stack = m.stack
      BY DEF IsThread, Fields
    <3> HIDE DEF x
    <3>2. Kept(x.stack, x.stack, Reserved(x))
      BY <1>3, <3>1 DEF Kept
    <3>. QED  BY <1>6, <2>7, <3>1, <3>2, ChainKept
  <2>9. Top(r).frame = below /\ cs # << >>
    <3>1. Len(cs) = k /\ cs[k].frame = below
      BY <2>1, <2>7 DEF SameFrames, k
    <3>2. cs # << >>
      BY <2>1, <3>1, EmptySeq
    <3>. QED  BY <2>5, <3>1, <3>2 DEF Top
  <2>10. FramesOK(r)
    BY <1>3, <1>7, <2>4, <2>5, <2>6, <2>8, <2>9 DEF FramesOK
  <2>. QED  BY <2>10 DEF r, s, u
<1>. QED  BY <1>10, <1>11
-----------------------------------------------------------------------------
(***************************************************************************)
(* Calls push a frame.                                                     *)
(***************************************************************************)

\* The next frame begins behind all that is reserved.
LEMMA NextFree ==
  ASSUME NEW m, IsSeq(m.calls), FramesOK(m)
  PROVE  /\ m.next \in Nat /\ (m.next = 0 <=> m.calls = << >>)
         /\ Reserved(m) \in SUBSET Memory
         /\ \A a \in Reserved(m) : a \in Nat /\ a < m.next
<1>1. Reserved(m) \in SUBSET Memory /\ \A a \in Reserved(m) : a \in Nat
  BY ReservedSlots DEF FramesOK
<1>2. CASE m.calls = << >>
  <2>1. m.next = 0 /\ Len(m.calls) = 0
    BY <1>2 DEF FramesOK
  <2>2. Reserved(m) = {}
    <3>1. \A a \in Reserved(m) : \E i \in 1 .. Len(m.calls) : TRUE
      BY ReservedSlots DEF FramesOK
    <3>. QED  BY <2>1, <3>1
  <2>. QED  BY <1>1, <1>2, <2>1, <2>2
<1>3. CASE m.calls # << >>
  <2> DEFINE base == m.frame.base
             length == m.frame.length
  <2>1. m.next = base + length + 4 /\ base \in Nat /\ length \in Nat
    BY <1>3, ReservedBelow DEF FramesOK, FrameOK, Behind, RESERVED_SLOTS
  <2>2. \A a \in Reserved(m) : a < base + 4
    <3>1. \A a \in Reserved(m) : a < At(m, 0)
      BY <1>3, ReservedBelow
    <3>2. At(m, 0) = base + 4
      <4>1. At(m, 0) = base + 0 + 4
        BY DEF At, RESERVED_SLOTS
      <4> HIDE DEF base
      <4>. QED  BY <2>1, <4>1
    <3>. QED  BY <3>1, <3>2
  <2> HIDE DEF base, length
  <2>3. m.next \in Nat /\ m.next # 0 /\ base + 4 <= m.next
    BY <2>1
  <2>4. \A a \in Reserved(m) : a \in Nat /\ a < m.next
    BY <1>1, <2>1, <2>2, <2>3
  <2>. QED  BY <1>1, <1>3, <2>3, <2>4
<1>. QED  BY <1>2, <1>3

\* A frame is pushed, with the one below saved in it.
LEMMA FramePushed ==
  ASSUME NEW m, IsThread(m), IsStack(m.stack), m.next \in Nat, m.next + 4 <= StackSlots,
         NEW A \in SUBSET Memory, \A a \in A : a < m.next, NEW length, NEW dst
  PROVE  LET s == PushFrame(m, length, dst, dst)
         IN  /\ IsThread(s) /\ s.calls = m.calls
             /\ s.frame = [base |-> m.next, length |-> length, returnValue |-> dst, returnContext |-> dst]
             /\ s.next = m.next + length + RESERVED_SLOTS
             /\ Kept(m.stack, s.stack, A)
             /\ m.next # 0 => SavedAt(s.stack, m.next, m.frame)
<1> DEFINE saved == IF m.next = 0
                    THEN << <<"ip", NULL>>, <<"length", 0>>, <<"address", NULL>>, <<"address", NULL>> >>
                    ELSE << <<"ip", m.ip>>, <<"length", m.frame.length>>,
                            <<"address", m.frame.returnValue>>, <<"address", m.frame.returnContext>> >>
           stack == Copied(m.stack, m.next, saved)
           frame == [base |-> m.next, length |-> length, returnValue |-> dst, returnContext |-> dst]
           next == m.next + length + RESERVED_SLOTS
           s == PushFrame(m, length, dst, dst)
<1>1. s = [m EXCEPT !.stack = stack, !.frame = frame, !.next = next]
  BY Zenon DEF PushFrame
<1>2. Kept(m.stack, stack, A)
  <2> HIDE DEF saved
  <2>. QED  BY KeptBefore
<1>3. m.next # 0 => SavedAt(stack, m.next, m.frame)
  <2>. SUFFICES ASSUME m.next # 0
                PROVE  SavedAt(stack, m.next, m.frame)
    OBVIOUS
  <2>1. /\ Len(saved) = 4
        /\ saved[2] = <<"length", m.frame.length>>
        /\ saved[3][2] = m.frame.returnValue
        /\ saved[4][2] = m.frame.returnContext
    OBVIOUS
  <2> HIDE DEF saved
  <2>2. ASSUME NEW j \in 1 .. 3
        PROVE  stack[m.next + j] = saved[j + 1]
    <3> DEFINE a == m.next + j
    <3>1. a \in Memory /\ m.next <= a /\ a < m.next + 4 /\ a - m.next + 1 = j + 1
      BY StackAssumption DEF Memory
    <3>2. a \in DOMAIN m.stack
      BY <3>1 DEF IsStack
    <3> HIDE DEF a
    <3>3. stack[a] = saved[a - m.next + 1]
      BY <2>1, <3>1, <3>2 DEF Copied
    <3>. QED  BY <3>1, <3>3 DEF a
  <2>3. /\ stack[m.next + 1] = saved[2] /\ stack[m.next + 2] = saved[3]
        /\ stack[m.next + 3] = saved[4]
    <3>1. 1 + 1 = 2 /\ 2 + 1 = 3 /\ 3 + 1 = 4 /\ 1 \in 1 .. 3 /\ 2 \in 1 .. 3 /\ 3 \in 1 .. 3
      OBVIOUS
    <3> HIDE DEF stack
    <3>. QED  BY <2>2, <3>1
  <2> HIDE DEF stack
  <2>. QED  BY <2>1, <2>3, Zenon DEF SavedAt
<1> HIDE DEF stack, frame, next, s
<1>4. /\ IsThread(s) /\ s.calls = m.calls /\ s.frame = frame /\ s.next = next
      /\ s.stack = stack
  BY <1>1 DEF IsThread, Fields, IsPointer
<1>. QED  BY <1>2, <1>3, <1>4 DEF s, frame, next

\* A function is called that has room on the stack.
LEMMA CallFramed ==
  ASSUME NEW m, IsThread(m), WellFormed(program), CallsOK(program, m.calls), FramesOK(m),
         NEW f \in DOMAIN program.functions, NEW resume,
         NEW args, NEW argCount \in Nat, DOMAIN args = 1 .. argCount,
         \A i \in 1 .. argCount : SlotsOf(args[i].type) \in Nat, NEW returnDst,
         Call(m, f, args, returnDst, resume).next \in 0 .. StackSlots
  PROVE  Framed(Call(m, f, args, returnDst, resume))
<1> DEFINE fn == program.functions[f]
           pushed == PushedArgs(m, fn.kind, args)
           x == pushed.m
           length == IF fn.kind = "script" THEN fn.space ELSE pushed.offset
           s == PushFrame(x, length, returnDst, returnDst)
           c == [function |-> f, resume |-> resume, frame |-> s.frame, args |-> args,
                 offset |-> pushed.offset, pc |-> 1, locals |-> << >>]
           ip == IF fn.kind = "script" THEN [function |-> f, at |-> 1] ELSE s.ip
           calls == Append(s.calls, c)
           r == [s EXCEPT !.ip = ip, !.calls = calls]
           may == /\ fn.kind = "c" \/ (pushed.count = Len(fn.args) /\ pushed.offset <= fn.space)
                  /\ s.frame.length <= MaxFrameLength
<1>1. Call(m, f, args, returnDst, resume) = Checked(s, may, r)
  BY Zenon DEF Call, Entered
<1>2. /\ IsSeq(m.calls) /\ Chain(m.stack, m.calls) /\ IsStack(m.stack)
      /\ m.next \in Nat /\ (m.next = 0 <=> m.calls = << >>)
      /\ Reserved(m) \in SUBSET Memory
      /\ \A a \in Reserved(m) : a < m.next
      /\ \A a \in Reserved(m) : a < m.next + RESERVED_SLOTS
  <2>1. IsSeq(m.calls) /\ Chain(m.stack, m.calls) /\ IsStack(m.stack)
    BY DEF CallsOK, FramesOK
  <2>2. /\ m.next \in Nat /\ (m.next = 0 <=> m.calls = << >>)
        /\ Reserved(m) \in SUBSET Memory
        /\ \A a \in Reserved(m) : a \in Nat /\ a < m.next
    BY <2>1, NextFree
  <2>3. \A a \in Nat : \A n \in Nat : a < n => a < n + RESERVED_SLOTS
    BY DEF RESERVED_SLOTS
  <2>. QED  BY <2>1, <2>2, <2>3
<1>3. Like(m, x) /\ IsThread(x) /\ Kept(m.stack, x.stack, Reserved(m)) /\ pushed.offset \in Nat
  <2>1. Like(m, x)
    BY LikePushedArgs
  <2>2. Kept(m.stack, x.stack, Reserved(m)) /\ pushed.offset \in Nat
    BY <1>2, KeptPushedArgs
  <2> HIDE DEF pushed
  <2>. QED  BY <2>1, <2>2 DEF Like
<1>4. length \in Nat
  <2>1. WellFormedFunction(fn, DOMAIN program.functions)
    BY DEF WellFormed
  <2> HIDE DEF fn, pushed
  <2>. QED  BY <1>3, <2>1 DEF WellFormedFunction
<1> HIDE DEF pushed
<1>5. s.next = m.next + length + 4 /\ IsThread(s)
  <2>1. x.next = m.next
    BY <1>3 DEF Like
  <2>2. PICK stack, frame : s = [x EXCEPT !.stack = stack, !.frame = frame,
                                         !.next = m.next + length + RESERVED_SLOTS]
    <3> HIDE DEF x, length
    <3>. QED  BY <2>1, Zenon DEF PushFrame
  <2> HIDE DEF s, length
  <2>3. s.next = m.next + length + RESERVED_SLOTS /\ IsThread(s)
    BY <1>3, <2>2 DEF IsThread, Fields, IsPointer
  <2>. QED  BY <2>3 DEF RESERVED_SLOTS
<1> HIDE DEF x, length, s, c, ip, may
<1>6. CASE ~may
  <2>1. Checked(s, may, r).status = "aborted"
    <3>1. [s EXCEPT !.status = "aborted"].status = "aborted"
      BY <1>5 DEF IsThread, Fields
    <3>. QED  BY <1>6, <3>1 DEF Checked
  <2>. QED  BY <1>1, <2>1 DEF Framed
<1>7. CASE may
  <2>1. Call(m, f, args, returnDst, resume) = r
    BY <1>1, <1>7 DEF Checked
  <2>2. r.next = s.next /\ r.frame = s.frame /\ r.stack = s.stack /\ r.calls = calls
    <3> HIDE DEF calls
    <3>. QED  BY <1>5 DEF IsThread, Fields
  <2>3. m.next + length + 4 <= StackSlots /\ m.next + 4 <= StackSlots
    <3>1. m.next + length + 4 \in 0 .. StackSlots
      BY <1>5, <2>1, <2>2
    <3>. QED  BY <1>2, <1>4, <3>1, StackAssumption
  <2>4. x.next = m.next /\ x.calls = m.calls /\ x.frame = m.frame
    BY <1>3 DEF Like
  <2>5. /\ s.calls = m.calls
        /\ s.frame = [base |-> m.next, length |-> length,
                      returnValue |-> returnDst, returnContext |-> returnDst]
        /\ Kept(x.stack, s.stack, Reserved(m))
        /\ m.next # 0 => SavedAt(s.stack, m.next, m.frame)
    <3>1. IsStack(x.stack)
      BY <1>3 DEF Kept
    <3> DEFINE A == Reserved(m)
    <3>2. /\ IsThread(x) /\ IsStack(x.stack) /\ x.next \in Nat /\ x.next + 4 <= StackSlots
          /\ A \in SUBSET Memory /\ \A a \in A : a < x.next
      BY <1>2, <1>3, <2>3, <2>4, <3>1
    <3> HIDE DEF A
    <3>3. LET q == PushFrame(x, length, returnDst, returnDst)
          IN  /\ IsThread(q) /\ q.calls = x.calls
              /\ q.frame = [base |-> x.next, length |-> length,
                            returnValue |-> returnDst, returnContext |-> returnDst]
              /\ q.next = x.next + length + RESERVED_SLOTS
              /\ Kept(x.stack, q.stack, A)
              /\ x.next # 0 => SavedAt(q.stack, x.next, x.frame)
      BY <3>2, FramePushed, Zenon
    <3>. QED  BY <2>4, <3>3 DEF s, A
  <2>6. Kept(m.stack, s.stack, Reserved(m))
    BY <1>3, <2>5, KeptTransitive
  <2>7. Chain(s.stack, m.calls)
    <3>1. SameFrames(m.calls, m.calls)
      BY <1>2 DEF SameFrames
    <3>. QED  BY <1>2, <2>6, <3>1, ChainKept
  <2>8. c.frame = s.frame /\ FrameOK(s.frame)
    <3>1. FrameOK(s.frame)
      BY <1>2, <1>4, <2>3, <2>5 DEF FrameOK, RESERVED_SLOTS
    <3>. QED  BY <3>1 DEF c
  <2>9. m.calls # << >> => /\ s.frame.base = Behind(m.calls[Len(m.calls)].frame)
                           /\ SavedAt(s.stack, s.frame.base, m.calls[Len(m.calls)].frame)
    <3>1. m.calls # << >> => m.next = Behind(m.frame) /\ m.frame = m.calls[Len(m.calls)].frame
      BY DEF FramesOK, Top
    <3>. QED  BY <1>2, <2>5, <3>1
  <2>10. m.calls = << >> => s.frame.base = 0
    BY <1>2, <2>5
  <2>11. Chain(s.stack, calls)
    <3>1. calls = Append(m.calls, c)
      BY <2>5
    <3> HIDE DEF calls
    <3>. QED  BY <1>2, <2>7, <2>8, <2>9, <2>10, <3>1, ChainAppend
  <2>12. Len(calls) = Len(m.calls) + 1 /\ calls[Len(m.calls) + 1] = c /\ calls # << >>
    <3>1. calls = Append(m.calls, c)
      BY <2>5
    <3> HIDE DEF calls
    <3>2. /\ Len(calls) = Len(m.calls) + 1 /\ Len(m.calls) \in Nat
          /\ calls[Len(m.calls) + 1] = c
      BY <1>2, <3>1, SeqAppend
    <3>3. calls # << >>
      BY <3>2
    <3>. QED  BY <3>2, <3>3
  <2>13. s.next = Behind(s.frame)
    BY <1>2, <1>4, <1>5, <2>5 DEF Behind, RESERVED_SLOTS
  <2> HIDE DEF r, calls
  <2>14. Top(r).frame = r.frame
    BY <2>2, <2>8, <2>12 DEF Top
  <2>15. FramesOK(r)
    BY <2>2, <2>6, <2>11, <2>12, <2>13, <2>14 DEF FramesOK, Kept
  <2>. QED  BY <2>1, <2>15 DEF Framed
<1>. QED  BY <1>6, <1>7
-----------------------------------------------------------------------------
(***************************************************************************)
(* The frames of a thread that executes a script.                          *)
(***************************************************************************)

\* What the types of words and contexts say of one thread.
Typed(m) ==
  /\ m.next \in 0 .. StackSlots
  /\ \A a \in Memory : m.contexts[a].type \in DOMAIN SizeOf \cup {"none"}
  /\ \A c \in DOMAIN m.calls : \A i \in DOMAIN m.calls[c].locals :
       m.calls[c].locals[i].type \in DOMAIN SizeOf

Runs(m, ops) == Executes(m, ops) /\ FramesOK(m) /\ Typed(m)

\* The operands are offsets of slots.
LEMMA SlotOperands ==
  ASSUME NEW w, Code!Operands(w)
  PROVE  /\ w.op \in {"load", "move", "clone", "dereference", "makeReference", "getMember",
                      "setReference", "setMember"} \cup Code!CompareOps => w.dst \in Nat
         /\ w.op = "return" => w.returnSrc \in Nat
         /\ w \in Code!IncrementOperands => w.src \in Nat
         /\ w \in Code!AddOperands => w.src1 \in Nat /\ (w.opType = "dst" => w.dst \in Nat)
<1>1. Code!StackOperand \subseteq Nat
  BY MaxFrameLengthAssumption DEF Code!StackOperand
<1>2. w.op = "load" => w.dst \in Code!StackOperand
  BY FieldsOfOperands DEF Code!LoadOperands
<1>3. w.op = "return" => w.returnSrc \in Code!StackOperand
  BY FieldsOfOperands DEF Code!ReturnOperands
<1>4. w.op = "move" => w.dst \in Code!StackOperand
  BY DEF Code!Operands, Code!CompareOps, Code!MoveOperands
<1>5. w.op = "clone" => w.dst \in Code!StackOperand
  BY DEF Code!Operands, Code!CompareOps, Code!CloneOperands
<1>6. w.op \in {"dereference", "makeReference", "setReference"} => w.dst \in Code!StackOperand
  BY DEF Code!Operands, Code!CompareOps, Code!ReferenceOperands
<1>7. w.op \in {"getMember", "setMember"} => w.dst \in Code!StackOperand
  BY DEF Code!Operands, Code!CompareOps, Code!MemberOperands
<1>8. w.op \in Code!CompareOps => w.dst \in Code!StackOperand
  BY DEF Code!Operands, Code!CompareOps, Code!CompareOperands
<1>9. w \in Code!IncrementOperands => w.src \in Code!StackOperand
  BY DEF Code!IncrementOperands
<1>10. w \in Code!AddOperands =>
         w.src1 \in Code!StackOperand /\ (w.opType = "dst" => w.dst \in Code!StackOperand)
  BY DEF Code!AddOperands
<1>. QED  BY <1>1, <1>2, <1>3, <1>4, <1>5, <1>6, <1>7, <1>8, <1>9, <1>10

\* Where a thread is, and what its stack is like, when it executes an instruction.
LEMMA AtFrame ==
  ASSUME NEW m, NEW ops, Runs(m, ops)
  PROVE  /\ IsThread(m) /\ CallsOK(program, m.calls) /\ IsSeq(m.calls) /\ m.calls # << >>
         /\ FramesOK(m) /\ IsStack(m.stack) /\ Code!Operands(Word(m))
         /\ Reserved(m) \in SUBSET Memory
         /\ \A o \in Nat : At(m, o) \in Int /\ \A a \in Reserved(m) : a < At(m, o)
         /\ \A o \in Nat : HasValue(m, o) =>
              ContextAt(m, o) \in DOMAIN SizeOf /\ SlotsOf(ContextAt(m, o)) \in Nat
<1>1. /\ IsThread(m) /\ CallsOK(program, m.calls) /\ m.calls # << >>
      /\ Word(m) = Function(m).code[m.ip.at]
      /\ Decodable(Function(m).code, m.ip.at, DOMAIN program.functions)
  BY AtScript DEF Runs, Executes
<1>2. Code!Operands(Word(m))
  BY <1>1 DEF Decodable
<1>3. IsSeq(m.calls) /\ FramesOK(m) /\ IsStack(m.stack)
  BY <1>1 DEF CallsOK, Runs, FramesOK
<1>4. /\ Reserved(m) \in SUBSET Memory
      /\ \A o \in Nat : At(m, o) \in Int /\ \A a \in Reserved(m) : a < At(m, o)
      /\ \A o \in Nat : HasValue(m, o) => At(m, o) \in Memory
  BY <1>1, <1>3, ReservedBelow
<1>5. ASSUME NEW o \in Nat, HasValue(m, o)
      PROVE  ContextAt(m, o) \in DOMAIN SizeOf /\ SlotsOf(ContextAt(m, o)) \in Nat
  <2>1. At(m, o) \in Memory
    BY <1>4, <1>5
  <2>2. ContextAt(m, o) \in DOMAIN SizeOf
    BY <1>5, <2>1 DEF Runs, Typed, ContextAt, HasValue
  <2> DEFINE size == SizeOf[ContextAt(m, o)]
  <2>3. size \in Nat
    BY <2>2, StackAssumption
  <2> HIDE DEF size
  <2>4. (size + 7) \div 8 \in Nat
    BY <2>3
  <2>. QED  BY <2>2, <2>4 DEF SlotsOf, size
<1>. QED  BY <1>1, <1>2, <1>3, <1>4, <1>5

\* The function of m ends, after something that changed no calls.
Ends(m, s) ==
  \E r, err : /\ IsThread(r) /\ r.calls = m.calls /\ FramesOK(r)
             /\ s = Finished(PopFrame(Unwound(r)), err)

\* What a step that calls no function makes of m: its frames are as they should be, and
\* its calls are the same unless the function ends.
Proceeds(m, s) ==
  Framed(s) /\ (s.status # "aborted" => s.calls = m.calls \/ Ends(m, s))

\* The same when an assertion fails.
LEMMA CheckedProceeds ==
  ASSUME NEW m, IsThread(m), NEW s, NEW condition, condition => Proceeds(m, s)
  PROVE  Proceeds(m, Checked(m, condition, s))
<1>1. CASE condition
  BY <1>1 DEF Checked
<1>2. CASE ~condition
  <2>1. Checked(m, condition, s) = [m EXCEPT !.status = "aborted"]
    BY <1>2 DEF Checked
  <2>2. [m EXCEPT !.status = "aborted"].status = "aborted"
    BY DEF IsThread, Fields
  <2>. QED  BY <2>1, <2>2 DEF Proceeds, Framed
<1>. QED  BY <1>1, <1>2

\* An operation that writes behind what is reserved, and goes on.
LEMMA SimpleFramed ==
  ASSUME NEW m, NEW ops, Runs(m, ops), NEW s, Like(m, s), Kept(m.stack, s.stack, Reserved(m)),
         NEW k, NEW condition
  PROVE  Proceeds(m, Advanced(s, k)) /\ Proceeds(m, Checked(m, condition, Advanced(s, k)))
<1>1. IsThread(m) /\ IsSeq(m.calls) /\ FramesOK(m)
  BY AtFrame
<1>2. Advanced(s, k).calls = m.calls /\ FramesOK(Advanced(s, k))
  BY <1>1, FramesLike
<1>3. Proceeds(m, Advanced(s, k))
  BY <1>2 DEF Proceeds, Framed
<1>. QED  BY <1>1, <1>3, CheckedProceeds

\* A value goes into a slot, after others were accounted for.
LEMMA SlotKept ==
  ASSUME NEW m, NEW ops, Runs(m, ops), NEW e, Like(m, e), e.stack = m.stack,
         NEW dst \in Nat, NEW words, NEW type
  PROVE  /\ Like(m, Stored(e, dst, words, type))
         /\ Kept(m.stack, Stored(e, dst, words, type).stack, Reserved(m))
         /\ Like(m, StoredReference(e, dst, words, type))
         /\ Kept(m.stack, StoredReference(e, dst, words, type).stack, Reserved(m))
<1>1. /\ IsStack(m.stack) /\ Reserved(m) \in SUBSET Memory
      /\ At(m, dst) \in Int /\ \A a \in Reserved(m) : a < At(m, dst)
  BY AtFrame
<1>2. IsThread(e) /\ At(e, dst) = At(m, dst)
  BY DEF Like, At
<1>3. /\ Like(m, Stored(e, dst, words, type))
      /\ Like(m, StoredReference(e, dst, words, type))
  BY <1>2, LikeStored, LikeTransitive
<1> DEFINE A == Reserved(m)
<1>4. /\ IsThread(e) /\ IsStack(e.stack) /\ A \in SUBSET Memory /\ At(e, dst) \in Int
      /\ \A a \in A : a < At(e, dst)
  BY <1>1, <1>2
<1> HIDE DEF A
<1>5. /\ Kept(e.stack, Stored(e, dst, words, type).stack, A)
      /\ Kept(e.stack, StoredReference(e, dst, words, type).stack, A)
  BY <1>4, KeptStored
<1>. QED  BY <1>3, <1>5 DEF A

\* Nothing is written.
LEMMA UnwrittenKept ==
  ASSUME NEW m, NEW ops, Runs(m, ops), NEW e, e.stack = m.stack
  PROVE  Kept(m.stack, e.stack, Reserved(m))
BY AtFrame DEF Kept

\* execute_deinit, execute_move and execute_clone.
LEMMA DeinitMoveCloneFramed ==
  ASSUME NEW m
  PROVE  /\ Runs(m, {"deinit"}) => Proceeds(m, DeinitDone(m))
         /\ Runs(m, {"move"}) => Proceeds(m, Moved(m))
         /\ Runs(m, {"clone"}) => Proceeds(m, CloneDone(m))
<1> DEFINE w == Word(m)
<1>1. ASSUME Runs(m, {"deinit"})
      PROVE  Proceeds(m, DeinitDone(m))
  <2> DEFINE src == w.src
             e == Excused(m, NotOwned(m, src))
             d == Deinited(e, ValueAt(m, src), ContextAt(m, src))
             s == IF HasDestructor(ContextAt(m, src)) THEN SetNull(d, src) ELSE m
  <2>1. Like(m, m) /\ IsThread(m)
    BY <1>1, AtFrame, LikeExcept
  <2>2. Like(m, e) /\ IsThread(e) /\ e.stack = m.stack
    BY <2>1, LikeExcused DEF Like
  <2>3. Like(m, d) /\ IsThread(d) /\ d.stack = m.stack
    <3> HIDE DEF e
    <3>. QED  BY <2>2, LikeDeinited, LikeTransitive DEF Like
  <2>4. Like(m, s) /\ s.stack = m.stack
    <3> HIDE DEF d
    <3>. QED  BY <2>1, <2>3, LikeSetNull, LikeTransitive
  <2>5. DeinitDone(m) = Checked(m, HasValue(m, src), Advanced(s, 1))
    BY DEF DeinitDone
  <2> HIDE DEF s
  <2>. QED  BY <1>1, <2>4, <2>5, UnwrittenKept, SimpleFramed
<1>2. ASSUME Runs(m, {"move"})
      PROVE  Proceeds(m, Moved(m))
  <2> DEFINE e == Excused(m, NotOwned(m, w.src))
             d == Stored(e, w.dst, ValueAt(m, w.src), ContextAt(m, w.src))
             s == SetNull(d, w.src)
  <2>1. IsThread(m) /\ w.dst \in Nat
    <3>1. Code!Operands(w) /\ w.op = "move"
      BY <1>2, AtFrame DEF Runs, Executes
    <3>. QED  BY <1>2, <3>1, AtFrame, SlotOperands
  <2>2. Like(m, e) /\ e.stack = m.stack
    BY <2>1, LikeExcused
  <2>3. Like(m, d) /\ IsThread(d) /\ Kept(m.stack, d.stack, Reserved(m))
    <3> HIDE DEF e
    <3>. QED  BY <1>2, <2>1, <2>2, SlotKept DEF Like
  <2>4. Like(m, s) /\ Kept(m.stack, s.stack, Reserved(m))
    <3> HIDE DEF d
    <3>. QED  BY <2>3, LikeSetNull, LikeTransitive
  <2>5. Moved(m) = Checked(m, HasValue(m, w.src) /\ InFrame(m, {w.dst}), Advanced(s, 1))
    BY DEF Moved
  <2> HIDE DEF s
  <2>. QED  BY <1>2, <2>4, <2>5, SimpleFramed
<1>3. ASSUME Runs(m, {"clone"})
      PROVE  Proceeds(m, CloneDone(m))
  <2> DEFINE c == Cloned(m, ValueAt(m, w.src))
             s == Stored(c.m, w.dst, c.words, ContextAt(m, w.src))
  <2>1. IsThread(m) /\ w.dst \in Nat
    <3>1. Code!Operands(w) /\ w.op = "clone"
      BY <1>3, AtFrame DEF Runs, Executes
    <3>. QED  BY <1>3, <3>1, AtFrame, SlotOperands
  <2>2. Like(m, c.m) /\ c.m.stack = m.stack
    BY <2>1, LikeCloned
  <2>3. Like(m, s) /\ Kept(m.stack, s.stack, Reserved(m))
    <3> HIDE DEF c
    <3>. QED  BY <1>3, <2>1, <2>2, SlotKept
  <2>4. CloneDone(m) = Checked(m, /\ HasValue(m, w.src) /\ InFrame(m, {w.dst})
                                  /\ ContextAt(m, w.src) # "unique", Advanced(s, 1))
    BY DEF CloneDone
  <2> HIDE DEF s
  <2>. QED  BY <1>3, <2>3, <2>4, SimpleFramed
<1>. QED  BY <1>1, <1>2, <1>3

\* The operations that write a value or a reference to one into a slot.
LEMMA StoringFramed ==
  ASSUME NEW m
  PROVE  /\ Runs(m, {"dereference"}) => Proceeds(m, Dereferenced(m))
         /\ Runs(m, {"makeReference"}) => Proceeds(m, MadeReference(m))
         /\ Runs(m, {"getMember"}) => Proceeds(m, GotMember(m))
         /\ Runs(m, Code!CompareOps) => Proceeds(m, Compared(m))
<1> DEFINE w == Word(m)
<1>1. ASSUME NEW ops \in SUBSET ({"dereference", "makeReference", "getMember"} \cup Code!CompareOps),
             Runs(m, ops), NEW words, NEW type, NEW condition
      PROVE  /\ Proceeds(m, Checked(m, condition, Advanced(Stored(m, w.dst, words, type), 1)))
             /\ Proceeds(m, Checked(m, condition, Advanced(StoredReference(m, w.dst, words, type), 1)))
  <2>1. w.dst \in Nat
    <3>1. Code!Operands(w) /\ w.op \in ops
      BY <1>1, AtFrame DEF Runs, Executes
    <3>. QED  BY <3>1, SlotOperands
  <2>2. Like(m, m)
    BY <1>1, AtFrame, LikeExcept
  <2>. QED  BY <1>1, <2>1, <2>2, SlotKept, SimpleFramed
<1>2. ASSUME Runs(m, {"dereference"})
      PROVE  Proceeds(m, Dereferenced(m))
  BY <1>1, <1>2, Zenon DEF Dereferenced
<1>3. ASSUME Runs(m, {"makeReference"})
      PROVE  Proceeds(m, MadeReference(m))
  BY <1>1, <1>3, Zenon DEF MadeReference
<1>4. ASSUME Runs(m, {"getMember"})
      PROVE  Proceeds(m, GotMember(m))
  BY <1>1, <1>4, Zenon DEF GotMember
<1>5. ASSUME Runs(m, Code!CompareOps)
      PROVE  Proceeds(m, Compared(m))
  <2>1. \A words, condition :
          Proceeds(m, Checked(m, condition, Advanced(Stored(m, w.dst, words, "bool"), 1)))
    BY <1>1, <1>5
  <2>. QED  BY <2>1, Zenon DEF Compared
<1>. QED  BY <1>2, <1>3, <1>4, <1>5
-----------------------------------------------------------------------------
(***************************************************************************)
(* Loads, jumps and sums.                                                  *)
(***************************************************************************)

\* execute_load.
LEMMA LoadFramed ==
  ASSUME NEW m, Runs(m, {"load"})
  PROVE  Proceeds(m, Loaded(m))
<1> DEFINE w == Word(m)
           next(i) == Function(m).code[m.ip.at + i].value
           A == Reserved(m)
<1>1. /\ IsThread(m) /\ w.dst \in Nat /\ w \in Code!LoadOperands /\ IsStack(m.stack)
      /\ A \in SUBSET Memory /\ At(m, w.dst) \in Int /\ \A a \in A : a < At(m, w.dst)
  <2>1. Code!Operands(w) /\ w.op = "load"
    BY AtFrame DEF Runs, Executes
  <2>2. w.dst \in Nat /\ w \in Code!LoadOperands
    BY <2>1, SlotOperands, FieldsOfOperands
  <2>. QED  BY <2>2, AtFrame
<1>2. Like(m, m)
  BY <1>1, LikeExcept
<1>3. ASSUME NEW s, Like(m, s), Kept(m.stack, s.stack, Reserved(m)), NEW k, NEW condition
      PROVE  Proceeds(m, Advanced(s, k)) /\ Proceeds(m, Checked(m, condition, Advanced(s, k)))
  BY <1>3, SimpleFramed
<1> HIDE DEF A
<1>4. CASE w.loadType = "immediate"
  <2> DEFINE words == << IF w.immediateType = "bool" THEN <<"bool", w.immediate # 0>>
                         ELSE <<"int", w.immediate>> >>
  <2>1. Loaded(m) = Checked(m, InFrame(m, {w.dst}), Advanced(Stored(m, w.dst, words, w.immediateType), 1))
    BY <1>4, Zenon DEF Loaded
  <2> HIDE DEF words
  <2>2. /\ Like(m, Stored(m, w.dst, words, w.immediateType))
        /\ Kept(m.stack, Stored(m, w.dst, words, w.immediateType).stack, Reserved(m))
    BY <1>1, <1>2, SlotKept
  <2>. QED  BY <1>3, <2>1, <2>2
<1>5. CASE w.loadType = "immediateLong"
  <2> DEFINE s == Stored(m, w.dst, << <<w.tag, next(1)>> >>, w.tag)
  <2>1. Loaded(m) = Checked(m, InFrame(m, {w.dst}), Checked(m, w.tag # "bool", Advanced(s, 2)))
    BY <1>5 DEF Loaded
  <2>2. Like(m, s) /\ Kept(m.stack, s.stack, Reserved(m))
    BY <1>1, <1>2, SlotKept
  <2> HIDE DEF s
  <2>3. Proceeds(m, Checked(m, w.tag # "bool", Advanced(s, 2)))
    BY <1>3, <2>2
  <2>. QED  BY <1>1, <2>1, <2>3, CheckedProceeds
<1>6. CASE w.loadType = "default"
  <2> DEFINE s == LoadedDefault(m, w)
  <2>1. Loaded(m) = Checked(m, InFrame(m, {w.dst}), Advanced(s, 1 + DefaultWords(w.tag)))
    BY <1>6 DEF Loaded
  <2>2. w.tag \in Code!Tags
    BY <1>1, <1>6 DEF Code!LoadOperands
  <2>3. Like(m, s)
    BY <1>1, <2>2, LikeLoadedDefault
  <2>4. Kept(m.stack, s.stack, A)
    BY <1>1, <2>2, KeptLoadedDefault
  <2> HIDE DEF s
  <2>. QED  BY <1>3, <2>1, <2>3, <2>4 DEF A
<1>7. CASE w.loadType = "cloneFromPtr"
  <2> DEFINE c == Cloned(m, WordsAt(m.stack, next(1), SlotsOf(next(2))))
             s == Stored(c.m, w.dst, c.words, next(2))
  <2>1. Loaded(m) = Checked(m, InFrame(m, {w.dst}), Advanced(s, 3))
    BY <1>7 DEF Loaded
  <2>2. Like(m, c.m) /\ c.m.stack = m.stack
    BY <1>1, LikeCloned
  <2>3. Like(m, s) /\ Kept(m.stack, s.stack, Reserved(m))
    <3> HIDE DEF c
    <3>. QED  BY <1>1, <2>2, SlotKept
  <2> HIDE DEF s
  <2>. QED  BY <1>3, <2>1, <2>3
<1>8. w.loadType \in {"immediate", "immediateLong", "default", "cloneFromPtr"}
  BY <1>1 DEF Code!LoadOperands
<1>. QED  BY <1>4, <1>5, <1>6, <1>7, <1>8

\* execute_jump and execute_sync write nothing.
LEMMA JumpSyncFramed ==
  ASSUME NEW m, NEW ops, Runs(m, ops), NEW condition, NEW k
  PROVE  /\ Proceeds(m, Checked(m, condition, Advanced(m, k))) /\ Proceeds(m, Advanced(m, k))
         /\ ops = {"jump"} => Proceeds(m, Jumped(m))
<1>1. Like(m, m)
  BY AtFrame, LikeExcept
<1>2. \A c, n : Proceeds(m, Checked(m, c, Advanced(m, n))) /\ Proceeds(m, Advanced(m, n))
  BY <1>1, UnwrittenKept, SimpleFramed
<1>. QED  BY <1>2, Zenon DEF Jumped

\* A sum goes into a slot, or the function fails.
LEMMA IntegerFramed ==
  ASSUME NEW m, NEW ops, Runs(m, ops), NEW opType, NEW dst, NEW src \in Nat,
         opType = "dst" => dst \in Nat, NEW n
  PROVE  Proceeds(m, IntegerResult(m, opType, dst, src, n))
<1>1. /\ IsThread(m) /\ CallsOK(program, m.calls) /\ m.calls # << >> /\ FramesOK(m)
      /\ IsSeq(m.calls) /\ Like(m, m)
  BY AtFrame, LikeExcept
<1>2. CASE ~InRange(n)
  <2> DEFINE r == Advanced(m, 1)
  <2>1. IsThread(r) /\ r.calls = m.calls
    BY <1>1 DEF Advanced, IsThread, Fields, IsPointer
  <2>2. FramesOK(r)
    BY <1>1, UnwrittenKept, FramesLike
  <2>3. IntegerResult(m, opType, dst, src, n) = Failed(r)
    BY <1>2 DEF IntegerResult
  <2> HIDE DEF r
  <2>. QED  BY <1>1, <2>1, <2>2, <2>3, LeftFramed DEF Failed, Proceeds, Ends, Framed
<1>3. CASE InRange(n) /\ opType = "dst"
  <2>1. IntegerResult(m, opType, dst, src, n) = Advanced(Stored(m, dst, << <<"int", n>> >>, "int"), 1)
    BY <1>3 DEF IntegerResult
  <2>. QED  BY <1>1, <1>3, <2>1, SlotKept, SimpleFramed
<1>4. CASE InRange(n) /\ opType # "dst"
  <2> DEFINE stack == Copied(m.stack, At(m, src), << <<"int", n>> >>)
             A == Reserved(m)
  <2>1. IntegerResult(m, opType, dst, src, n) = Advanced([m EXCEPT !.stack = stack], 1)
    BY <1>4, Zenon DEF IntegerResult
  <2>2. /\ IsStack(m.stack) /\ A \in SUBSET Memory /\ At(m, src) \in Int
        /\ \A a \in A : a < At(m, src)
    BY AtFrame
  <2> HIDE DEF A
  <2>3. Kept(m.stack, stack, A)
    BY <2>2, KeptBefore
  <2> HIDE DEF stack
  <2>4. Like(m, [m EXCEPT !.stack = stack]) /\ [m EXCEPT !.stack = stack].stack = stack
    BY <1>1, LikeStack
  <2>. QED  BY <2>1, <2>3, <2>4, SimpleFramed DEF A
<1>. QED  BY <1>2, <1>3, <1>4

\* execute_increment and execute_add.
LEMMA ArithmeticFramed ==
  ASSUME NEW m
  PROVE  /\ Runs(m, {"increment"}) => Proceeds(m, Incremented(m))
         /\ Runs(m, {"add"}) => Proceeds(m, Added(m))
<1> DEFINE w == Word(m)
           type == ContextAt(m, w.src1)
           sum == ValueAt(m, w.src1)[1][2] + ValueAt(m, w.src2)[1][2]
<1>1. ASSUME Runs(m, {"increment"})
      PROVE  Proceeds(m, Incremented(m))
  <2>1. IsThread(m) /\ w.src \in Nat
    <3>1. /\ Decodable(Function(m).code, m.ip.at, DOMAIN program.functions)
          /\ w = Function(m).code[m.ip.at] /\ w.op = "increment"
      BY <1>1, AtScript DEF Runs, Executes
    <3>2. w \in Code!IncrementOperands
      <4> HIDE DEF w
      <4>. QED  BY <3>1 DEF Decodable
    <3>3. Code!Operands(w)
      BY <1>1, AtFrame
    <3>. QED  BY <1>1, <3>2, <3>3, SlotOperands, AtFrame
  <2> DEFINE dst == IF w.opType = "dst" THEN IncrementDestination ELSE w.src
             n == ValueAt(m, w.src)[1][2] + 1
             s == IntegerResult(m, w.opType, dst, w.src, n)
  <2>2. Proceeds(m, s)
    <3> HIDE DEF n
    <3>1. w.opType = "dst" => dst \in Nat
      BY DEF IncrementDestination
    <3> HIDE DEF dst
    <3>. QED  BY <1>1, <2>1, <3>1, IntegerFramed
  <2>3. Incremented(m) = Checked(m, /\ HasValue(m, w.src) /\ ContextAt(m, w.src) = "int"
                                    /\ ~w.canOverflow, s)
    BY Zenon DEF Incremented
  <2> HIDE DEF s
  <2>. QED  BY <2>1, <2>2, <2>3, CheckedProceeds
<1>2. ASSUME Runs(m, {"add"})
      PROVE  Proceeds(m, Added(m))
  <2> DEFINE A == Reserved(m)
             dst == IF w.opType = "dst" THEN w.dst ELSE w.src1
             c == Concatenated(m, w)
             f == FloatSum(m, w, sum)
             i == IntegerResult(m, w.opType, dst, w.src1, sum)
             s == IF type = "string" THEN Advanced(c, 1)
                  ELSE IF type = "float" THEN Advanced(f, 1) ELSE i
             may == /\ HasValue(m, w.src1) /\ HasValue(m, w.src2)
                    /\ w.opType = "dst" => InFrame(m, {w.dst})
                    /\ ContextAt(m, w.src2) = type /\ type \in {"int", "float", "string"}
                    /\ type = "int" => ~w.canOverflow
  <2>1. IsThread(m) /\ w.src1 \in Nat /\ (w.opType = "dst" => w.dst \in Nat)
    <3>1. /\ Decodable(Function(m).code, m.ip.at, DOMAIN program.functions)
          /\ w = Function(m).code[m.ip.at] /\ w.op = "add"
      BY <1>2, AtScript DEF Runs, Executes
    <3>2. w \in Code!AddOperands
      <4> HIDE DEF w
      <4>. QED  BY <3>1 DEF Decodable
    <3>3. Code!Operands(w)
      BY <1>2, AtFrame
    <3>. QED  BY <1>2, <3>2, <3>3, SlotOperands, AtFrame
  <2>2. /\ IsStack(m.stack) /\ A \in SUBSET Memory
        /\ At(m, w.src1) \in Int /\ \A a \in A : a < At(m, w.src1)
        /\ w.opType = "dst" => At(m, w.dst) \in Int /\ \A a \in A : a < At(m, w.dst)
    BY <1>2, <2>1, AtFrame
  <2> HIDE DEF A, sum, w
  <2>3. Like(m, c) /\ Kept(m.stack, c.stack, A)
    BY <2>1, <2>2, LikeConcatenated, KeptConcatenated
  <2>4. Like(m, f) /\ Kept(m.stack, f.stack, A)
    BY <2>1, <2>2, LikeFloatSum, KeptFloatSum
  <2>5. Proceeds(m, i)
    <3>1. w.opType = "dst" => dst \in Nat
      BY <2>1
    <3> HIDE DEF dst
    <3>. QED  BY <1>2, <2>1, <3>1, IntegerFramed
  <2> HIDE DEF c, f, i, type
  <2>6. Proceeds(m, s)
    <3>1. Proceeds(m, Advanced(c, 1)) /\ Proceeds(m, Advanced(f, 1))
      BY <1>2, <2>3, <2>4, SimpleFramed DEF A
    <3>. QED  BY <2>5, <3>1
  <2>7. Added(m) = Checked(m, may, s)
    BY Zenon DEF Added, w, sum, c, f, i, type
  <2> HIDE DEF s, may
  <2>. QED  BY <2>1, <2>6, <2>7, CheckedProceeds
<1>. QED  BY <1>1, <1>2
-----------------------------------------------------------------------------
(***************************************************************************)
(* Writes outside of the frame, as far as the program may be trusted.      *)
(***************************************************************************)

\* The slots that an instruction writes to outside of the frame.
LEMMA OutsideOfScript ==
  ASSUME NEW m, program.functions[Top(m).function].kind = "script",
         Outside(m) \cap Reserved(m) = {}, Reserved(m) \subseteq Memory, NEW a \in Reserved(m)
  PROVE  LET w == Word(m)
             n == Len(ValueAt(m, w.src))
             place(at) == ValueAt(m, w.dst)[1][2] + at
             slot == MembersOf[MemberTarget(m, w.dst).type][w.memberIndex + 1].slot
         IN  /\ w.op = "return" /\ w.hasReturn =>
                  ~(/\ m.frame.returnValue <= a
                    /\ a < m.frame.returnValue + Len(ValueAt(m, w.returnSrc)))
             /\ w.op = "setReference" /\ ContextAt(m, w.dst) = "mutRef" =>
                  ~(place(0) <= a /\ a < place(0) + n)
             /\ w.op = "setMember" /\ ContextAt(m, w.dst) \in {"constRef", "mutRef"} =>
                  ~(place(slot) <= a /\ a < place(slot) + n)
<1> DEFINE w == Word(m)
           slots(at, words) == {b \in Memory : at <= b /\ b < at + Len(words)}
           place(at) == ValueAt(m, w.dst)[1][2] + at
           slot == MembersOf[MemberTarget(m, w.dst).type][w.memberIndex + 1].slot
<1>1. a \notin Outside(m) /\ a \in Memory
  OBVIOUS
<1>2. /\ w.op = "return" /\ w.hasReturn => Outside(m) = slots(m.frame.returnValue, ValueAt(m, w.returnSrc))
      /\ w.op = "setReference" /\ ContextAt(m, w.dst) = "mutRef" =>
           Outside(m) = slots(place(0), ValueAt(m, w.src))
      /\ w.op = "setMember" /\ ContextAt(m, w.dst) \in {"constRef", "mutRef"} =>
           Outside(m) = slots(place(slot), ValueAt(m, w.src))
  <2> HIDE DEF w, slot
  <2>1. Outside(m) = CASE w.op = "return" /\ w.hasReturn ->
                            slots(m.frame.returnValue, ValueAt(m, w.returnSrc))
                       [] w.op = "setReference" /\ ContextAt(m, w.dst) = "mutRef" ->
                            slots(place(0), ValueAt(m, w.src))
                       [] w.op = "setMember" /\ ContextAt(m, w.dst) \in {"constRef", "mutRef"} ->
                            slots(place(slot), ValueAt(m, w.src))
                       [] OTHER -> {}
    BY Zenon DEF Outside, w, slot
  <2> HIDE DEF slots, place
  <2>. QED  BY <2>1
<1> HIDE DEF w, place, slot
<1>3. \A at, words : a \in slots(at, words) <=> at <= a /\ a < at + Len(words)
  BY <1>1
<1> HIDE DEF slots
<1>4. /\ w.op = "return" /\ w.hasReturn =>
           ~(/\ m.frame.returnValue <= a
             /\ a < m.frame.returnValue + Len(ValueAt(m, w.returnSrc)))
      /\ w.op = "setReference" /\ ContextAt(m, w.dst) = "mutRef" =>
           ~(place(0) <= a /\ a < place(0) + Len(ValueAt(m, w.src)))
      /\ w.op = "setMember" /\ ContextAt(m, w.dst) \in {"constRef", "mutRef"} =>
           ~(place(slot) <= a /\ a < place(slot) + Len(ValueAt(m, w.src)))
  BY <1>1, <1>2, <1>3
<1>. QED  BY <1>4 DEF w, place, slot

\* execute_set_reference.
LEMMA SetReferenceFramed ==
  ASSUME NEW m, Runs(m, {"setReference"}), Outside(m) \cap Reserved(m) = {}
  PROVE  Proceeds(m, Checked(m, MaySetReference(m),
                        Advanced(WrittenThrough(m, Word(m).dst, 0, ValueAt(m, Word(m).src)), 1)))
<1> DEFINE w == Word(m)
           words == ValueAt(m, w.src)
           s == WrittenThrough(m, w.dst, 0, words)
           place == IF ContextAt(m, w.dst) \in ReferenceTypes
                    THEN ValueAt(m, w.dst)[1][2] + 0 ELSE At(m, w.dst) + 0
           A == Reserved(m)
<1>1. IsThread(m) /\ IsStack(m.stack) /\ A \in SUBSET Memory /\ w.op = "setReference"
      /\ program.functions[Top(m).function].kind = "script"
  BY AtFrame DEF Runs, Executes
<1>2. CASE ~MaySetReference(m)
  BY <1>1, <1>2, CheckedProceeds
<1>3. CASE MaySetReference(m)
  <2>1. ContextAt(m, w.dst) \notin HandleTypes => ContextAt(m, w.dst) = "mutRef"
    BY <1>3 DEF MaySetReference, ReferenceTypes, HandleTypes
  <2>2. ContextAt(m, w.dst) \notin HandleTypes =>
          \A a \in A : ~(place <= a /\ a < place + Len(words))
    <3>. SUFFICES ASSUME ContextAt(m, w.dst) \notin HandleTypes, NEW a \in A
                  PROVE  ~(place <= a /\ a < place + Len(words))
      OBVIOUS
    <3>1. place = ValueAt(m, w.dst)[1][2] + 0
      BY <2>1 DEF ReferenceTypes
    <3>2. ~(ValueAt(m, w.dst)[1][2] + 0 <= a /\ a < ValueAt(m, w.dst)[1][2] + 0 + Len(words))
      BY <1>1, <2>1, OutsideOfScript
    <3> HIDE DEF place, words, w
    <3>. QED  BY <3>1, <3>2
  <2>3. Like(m, s)
    BY <1>1, LikeWrittenThrough
  <2>4. Kept(m.stack, s.stack, A)
    <3>1. place = IF ContextAt(m, w.dst) \in ReferenceTypes
                  THEN ValueAt(m, w.dst)[1][2] + 0 ELSE At(m, w.dst) + 0
      OBVIOUS
    <3> HIDE DEF place, words, w, A
    <3>. QED  BY <1>1, <2>2, <3>1, KeptWrittenThrough
  <2> HIDE DEF s
  <2>5. Proceeds(m, Checked(m, MaySetReference(m), Advanced(s, 1)))
    BY <2>3, <2>4, SimpleFramed
  <2>. QED  BY <2>5 DEF s
<1>. QED  BY <1>2, <1>3

\* execute_set_member, into the value of a slot, or through a reference.
LEMMA SetMemberFramed ==
  ASSUME NEW m, Runs(m, {"setMember"}), Outside(m) \cap Reserved(m) = {}
  PROVE  LET w == Word(m)
             slot == MembersOf[MemberTarget(m, w.dst).type][w.memberIndex + 1].slot
         IN  Proceeds(m, Checked(m, MaySetMember(m),
                            Advanced(WrittenThrough(m, w.dst, slot, ValueAt(m, w.src)), 1)))
<1> DEFINE w == Word(m)
           words == ValueAt(m, w.src)
           slot == MembersOf[MemberTarget(m, w.dst).type][w.memberIndex + 1].slot
           s == WrittenThrough(m, w.dst, slot, words)
           place == IF ContextAt(m, w.dst) \in ReferenceTypes
                    THEN ValueAt(m, w.dst)[1][2] + slot ELSE At(m, w.dst) + slot
           A == Reserved(m)
<1>1. IsThread(m) /\ IsStack(m.stack) /\ A \in SUBSET Memory /\ w.op = "setMember"
      /\ program.functions[Top(m).function].kind = "script" /\ w.dst \in Nat
      /\ w \in Code!MemberOperands
  <2>1. Code!Operands(w) /\ w.op = "setMember"
    BY AtFrame DEF Runs, Executes
  <2>2. w \in Code!MemberOperands
    BY <2>1 DEF Code!Operands, Code!CompareOps
  <2>. QED  BY <2>1, <2>2, AtFrame, SlotOperands DEF Runs, Executes
<1>2. CASE ~MaySetMember(m)
  BY <1>1, <1>2, CheckedProceeds
<1>3. CASE MaySetMember(m)
  <2>1. ContextAt(m, w.dst) \in {"constRef", "mutRef"} =>
          \A a \in A : ~(place <= a /\ a < place + Len(words))
    <3>. SUFFICES ASSUME ContextAt(m, w.dst) \in {"constRef", "mutRef"}, NEW a \in A
                  PROVE  ~(place <= a /\ a < place + Len(words))
      OBVIOUS
    <3>1. place = ValueAt(m, w.dst)[1][2] + slot
      BY DEF ReferenceTypes
    <3>2. ~(ValueAt(m, w.dst)[1][2] + slot <= a /\ a < ValueAt(m, w.dst)[1][2] + slot + Len(words))
      BY <1>1, OutsideOfScript
    <3> HIDE DEF place, words, w, slot
    <3>. QED  BY <3>1, <3>2
  <2>2. ContextAt(m, w.dst) \notin ReferenceTypes =>
          \A a \in A : ~(place <= a /\ a < place + Len(words))
    <3>. SUFFICES ASSUME ContextAt(m, w.dst) \notin ReferenceTypes, NEW a \in A
                  PROVE  ~(place <= a /\ a < place + Len(words))
      OBVIOUS
    <3> DEFINE type == ContextAt(m, w.dst)
    <3>1. place = At(m, w.dst) + slot
      OBVIOUS
    <3>2. MemberTarget(m, w.dst).type = type
      BY DEF MemberTarget
    <3>3. type \in DOMAIN SizeOf /\ Len(MembersOf[type]) > w.memberIndex /\ w.memberIndex \in Nat
      <4>1. HasValue(m, w.dst) /\ Len(MembersOf[type]) > w.memberIndex
        BY <1>3, <3>2 DEF MaySetMember
      <4>2. w.memberIndex \in Nat
        <5> HIDE DEF w
        <5>. QED  BY <1>1 DEF Code!MemberOperands
      <4>. QED  BY <1>1, <4>1, <4>2, AtFrame
    <3>4. slot \in Nat
      <4> DEFINE i == w.memberIndex + 1
                 n == Len(MembersOf[type])
      <4>1. n \in Nat
        BY <3>3, MembersAssumption
      <4>2. i \in 1 .. n
        <5> DEFINE k == w.memberIndex
        <5>1. k \in Nat /\ n > k /\ n \in Nat
          BY <3>3, <4>1
        <5> HIDE DEF k, n
        <5>2. k + 1 \in 1 .. n
          BY <5>1
        <5>. QED  BY <5>2 DEF k
      <4>3. slot = MembersOf[type][i].slot
        BY <3>2
      <4> HIDE DEF slot, i, type, n
      <4>. QED  BY <3>3, <4>2, <4>3, MembersAssumption DEF n
    <3>5. At(m, w.dst) \in Int /\ a < At(m, w.dst)
      BY <1>1, AtFrame
    <3>6. a \in Int
      BY <1>1, StackAssumption DEF Memory
    <3> DEFINE at == At(m, w.dst)
    <3>7. ~(at + slot <= a)
      <4> HIDE DEF at, slot
      <4>1. at \in Int /\ a < at /\ slot \in Nat /\ a \in Int
        BY <3>4, <3>5, <3>6 DEF at
      <4>. QED  BY <4>1
    <3> HIDE DEF place, slot, w, words
    <3>. QED  BY <3>1, <3>7
  <2>3. Like(m, s)
    BY <1>1, LikeWrittenThrough
  <2>4. Kept(m.stack, s.stack, A)
    <3>1. place = IF ContextAt(m, w.dst) \in ReferenceTypes
                  THEN ValueAt(m, w.dst)[1][2] + slot ELSE At(m, w.dst) + slot
      OBVIOUS
    <3>2. ContextAt(m, w.dst) \notin HandleTypes =>
            \A a \in A : ~(place <= a /\ a < place + Len(words))
      BY <2>1, <2>2 DEF ReferenceTypes
    <3> HIDE DEF place, words, w, A, slot
    <3>. QED  BY <1>1, <3>1, <3>2, KeptWrittenThrough
  <2> HIDE DEF s
  <2>5. Proceeds(m, Checked(m, MaySetMember(m), Advanced(s, 1)))
    BY <2>3, <2>4, SimpleFramed
  <2>. QED  BY <2>5 DEF s
<1>. QED  BY <1>2, <1>3
-----------------------------------------------------------------------------
(***************************************************************************)
(* Calls and returns of scripts, and their frames.                         *)
(***************************************************************************)

\* execute_return.
LEMMA ReturnFramed ==
  ASSUME NEW m, Runs(m, {"return"}), Outside(m) \cap Reserved(m) = {}
  PROVE  Proceeds(m, Returned(m))
<1> DEFINE w == Word(m)
           words == ValueAt(m, w.returnSrc)
           type == ContextAt(m, w.returnSrc)
           dst == m.frame.returnValue
           lost == WrittenOver(m, dst, SlotsOf(type)) \cup NotOwned(m, w.returnSrc)
           e == SetNull(Excused(m, lost), w.returnSrc)
           stack == Copied(m.stack, dst, words)
           s == [e EXCEPT !.stack = Copied(@, dst, words),
                          !.contexts[m.frame.returnContext] = OwningContext(type)]
           A == Reserved(m)
<1>1. /\ IsThread(m) /\ CallsOK(program, m.calls) /\ m.calls # << >> /\ FramesOK(m)
      /\ IsSeq(m.calls) /\ IsStack(m.stack) /\ A \in SUBSET Memory /\ w.op = "return"
      /\ program.functions[Top(m).function].kind = "script"
  BY AtFrame DEF Runs, Executes
<1>2. Like(m, Excused(m, lost)) /\ IsThread(Excused(m, lost)) /\ Excused(m, lost).stack = m.stack
  <2> HIDE DEF lost
  <2>. QED  BY <1>1, LikeExcused DEF Like
<1>3. Like(m, e) /\ IsThread(e) /\ e.stack = m.stack
  <2> HIDE DEF lost
  <2>. QED  BY <1>2, LikeSetNull, LikeTransitive DEF Like
<1>4. CASE ~w.hasReturn
  <2>1. Returned(m) = Finished(PopFrame(Unwound(m)), FALSE)
    BY <1>4 DEF Returned
  <2>. QED  BY <1>1, <2>1, LeftFramed DEF Proceeds, Ends, Framed
<1>5. CASE w.hasReturn
  <2>1. Returned(m) = Checked(m, dst # NULL /\ HasValue(m, w.returnSrc),
                              Finished(PopFrame(Unwound(s)), FALSE))
    BY <1>5, Zenon DEF Returned
  <2>2. PICK contexts : s = Written(e, stack, contexts)
    <3>1. e.stack = m.stack
      BY <1>3
    <3> HIDE DEF e, dst, words
    <3>. QED  BY <3>1, Zenon DEF Written
  <2>3. Kept(m.stack, stack, A)
    <3>1. \A a \in A : ~(dst <= a /\ a < dst + Len(words))
      BY <1>1, <1>5, OutsideOfScript
    <3> HIDE DEF A, dst, words
    <3>. QED  BY <1>1, <3>1, KeptCopied
  <2> HIDE DEF e, s, stack
  <2>4. Like(m, s) /\ s.stack = stack
    <3>1. Like(e, s)
      BY <1>3, <2>2, LikeReturned
    <3>2. s.stack = stack
      BY <1>3, <2>2 DEF Written, IsThread, Fields
    <3>. QED  BY <1>3, <3>1, <3>2, LikeTransitive
  <2>5. FramesOK(s)
    BY <1>1, <2>3, <2>4, FramesLike DEF A
  <2>6. IsThread(s) /\ s.calls = m.calls
    BY <2>4 DEF Like
  <2>7. FramesOK(Finished(PopFrame(Unwound(s)), FALSE)) /\ Ends(m, Finished(PopFrame(Unwound(s)), FALSE))
    BY <1>1, <2>5, <2>6, LeftFramed DEF Ends
  <2> DEFINE r == Finished(PopFrame(Unwound(s)), FALSE)
  <2>8. Proceeds(m, r)
    BY <2>7 DEF Proceeds, Framed
  <2> HIDE DEF r
  <2>. QED  BY <1>1, <2>1, <2>8, CheckedProceeds DEF r
<1>. QED  BY <1>4, <1>5

\* A function of 1 .. n is as long as its domain.
LEMMA LenOfDomain ==
  ASSUME NEW n \in Nat, NEW s, s = [j \in 1 .. n |-> s[j]]
  PROVE  Len(s) = n /\ s \in Seq({s[j] : j \in 1 .. n})
<1> DEFINE S == {s[j] : j \in 1 .. n}
<1>1. s \in [1 .. n -> S]
  <2>1. \A j \in 1 .. n : s[j] \in S
    OBVIOUS
  <2> HIDE DEF S
  <2>. QED  BY <2>1
<1> HIDE DEF S
<1>2. s \in Seq(S)
  BY <1>1, SeqDef
<1>3. DOMAIN s = 1 .. Len(s) /\ Len(s) \in Nat /\ DOMAIN s = 1 .. n
  BY <1>1, <1>2, LenProperties
<1>4. Len(s) = n
  BY <1>3
<1>. QED  BY <1>2, <1>4 DEF S

\* The slots of a value.
LEMMA SlotsOfValue ==
  ASSUME NEW v, IsValue(v)
  PROVE  SlotsOf(v.type) \in Nat \ {0} /\ Len(v.words) = SlotsOf(v.type)
<1> DEFINE size == SizeOf[v.type]
<1>1. size \in Nat /\ size > 0
  BY StackAssumption DEF IsValue
<1> HIDE DEF size
<1>2. (size + 7) \div 8 \in Nat \ {0}
  BY <1>1
<1>3. SlotsOf(v.type) \in Nat \ {0}
  BY <1>2 DEF SlotsOf, size
<1>. QED  BY <1>3, LenOfDomain DEF IsValue

\* Values have the slots of their types, one behind the other.
AreValues(args) ==
  /\ Len(args) \in Nat /\ DOMAIN args = 1 .. Len(args)
  /\ \A i \in 1 .. Len(args) : IsValue(args[i])

\* Not in a frame from base on.
Elsewhere(a, base) == a = NULL \/ (a \in Int /\ (a < base \/ a >= StackSlots))

\* execute_call calls a function with values, which returns into the frame of its caller.
LEMMA CalledWith ==
  ASSUME NEW m, Runs(m, {"call"}),
         /\ Word(m).opType = "src" /\ HasValue(m, Word(m).funcSrc)
         /\ ContextAt(m, Word(m).funcSrc) = "function"
         => ValueAt(m, Word(m).funcSrc)[1][2] \in DOMAIN program.functions
  PROVE  \E e, f, args, returnDst, resume, may :
           /\ Called(m) = Checked(m, may, Call(e, f, args, returnDst, resume))
           /\ Like(m, e) /\ e.stack = m.stack /\ e.contexts = m.contexts /\ e.status = m.status
           /\ may => /\ f \in DOMAIN program.functions
                     /\ AreValues(args) /\ Elsewhere(returnDst, m.next)
<1> DEFINE w == Word(m)
           at == m.ip.at
           code == Function(m).code
           direct == w.opType = "immediate"
           srcs == Sources(m, IF direct THEN 2 ELSE 1, w.argCount)
           length == (IF direct THEN 2 ELSE 1) + SourceWords(w.argCount)
           f == IF direct THEN code[at + 1].value ELSE ValueAt(m, w.funcSrc)[1][2]
           args == [i \in DOMAIN srcs |-> [words |-> ValueAt(m, srcs[i]),
                                           type |-> ContextAt(m, srcs[i])]]
           owned == UNION {ObjectsIn(args[i].words) : i \in DOMAIN args}
           e == Excused(m, owned)
           resume == [m.ip EXCEPT !.at = @ + length]
           returnDst == IF w.hasReturn THEN At(m, w.returnDst) ELSE NULL
           may == /\ ~direct => HasValue(m, w.funcSrc) /\ ContextAt(m, w.funcSrc) = "function"
                  /\ \A i \in DOMAIN srcs : HasValue(m, srcs[i])
                  /\ w.hasReturn => InFrame(m, {w.returnDst})
<1>1. /\ IsThread(m) /\ CallsOK(program, m.calls) /\ m.calls # << >> /\ at \in Nat /\ w = code[at]
      /\ w.op = "call" /\ Decodable(code, at, DOMAIN program.functions) /\ WellFormed(program)
  BY AtScript DEF Runs, Executes
<1>2. IsSeq(m.calls) /\ FramesOK(m)
  BY AtFrame
<1>3. /\ w \in Code!CallOperands
      /\ w.opType = "immediate" => code[at + 1].value \in DOMAIN program.functions
      /\ Code!HasSources(code, IF direct THEN at + 2 ELSE at + 1, w.argCount, Code!StackOperand)
  <2>1. /\ Code!Operands(w)
        /\ w.opType = "immediate" => code[at + 1].value \in DOMAIN program.functions
        /\ Code!HasSources(code, IF w.opType = "immediate" THEN at + 2 ELSE at + 1, w.argCount,
                           Code!StackOperand)
    <3> HIDE DEF w, code, at
    <3>. QED  BY <1>1 DEF Decodable
  <2>. QED  BY <1>1, <2>1, FieldsOfOperands
<1>4. w.argCount \in Nat /\ w.opType \in {"immediate", "src"} /\ Code!StackOperand \subseteq Nat
  <2>1. w.argCount \in Code!StackOperand /\ w.opType \in {"immediate", "src"}
    BY <1>3 DEF Code!CallOperands
  <2>2. Code!StackOperand \subseteq Nat
    BY MaxFrameLengthAssumption DEF Code!StackOperand
  <2>. QED  BY <2>1, <2>2
<1>5. DOMAIN srcs = 1 .. w.argCount /\ \A i \in 1 .. w.argCount : srcs[i] \in Nat
  <2>1. DOMAIN srcs = 1 .. w.argCount
    BY DEF Sources
  <2>2. ASSUME NEW i \in 1 .. w.argCount
        PROVE  srcs[i] \in Nat
    <3>1. CASE direct
      <4>1. srcs[i] = code[at + 2 + (i - 1) \div 4].quad[1 + ((i - 1) % 4)]
        BY <3>1 DEF Sources
      <4>2. code[at + 2 + (i - 1) \div 4].quad[1 + ((i - 1) % 4)] \in Code!StackOperand
        <5> HIDE DEF code, at
        <5>. QED  BY <1>3, <3>1 DEF Code!HasSources
      <4> HIDE DEF code, at, srcs
      <4>. QED  BY <1>4, <4>1, <4>2
    <3>2. CASE ~direct
      <4>1. srcs[i] = code[at + 1 + (i - 1) \div 4].quad[1 + ((i - 1) % 4)]
        BY <3>2 DEF Sources
      <4>2. code[at + 1 + (i - 1) \div 4].quad[1 + ((i - 1) % 4)] \in Code!StackOperand
        <5> HIDE DEF code, at
        <5>. QED  BY <1>3, <3>2 DEF Code!HasSources
      <4> HIDE DEF code, at, srcs
      <4>. QED  BY <1>4, <4>1, <4>2
    <3>. QED  BY <3>1, <3>2
  <2>. QED  BY <2>1, <2>2
<1> HIDE DEF srcs
<1>6. DOMAIN args = 1 .. w.argCount
  BY <1>5
<1>7. ASSUME may
      PROVE  AreValues(args)
  <2>1. ASSUME NEW i \in 1 .. w.argCount
        PROVE  IsValue(args[i])
    <3>1. HasValue(m, srcs[i]) /\ srcs[i] \in Nat
      BY <1>5, <1>7
    <3> DEFINE type == ContextAt(m, srcs[i])
               words == ValueAt(m, srcs[i])
    <3>2. args[i] = [words |-> words, type |-> type]
      BY <1>5
    <3>3. type \in DOMAIN SizeOf \ {"none"}
      BY <3>1, AtFrame DEF HasValue
    <3>4. words = [j \in 1 .. SlotsOf(type) |-> words[j]]
      BY DEF ValueAt, WordsAt
    <3> HIDE DEF type, words, args
    <3>5. args[i].words = words /\ args[i].type = type
      BY <3>2
    <3>. QED  BY <3>3, <3>4, <3>5 DEF IsValue
  <2>2. args = [i \in 1 .. w.argCount |-> args[i]]
    BY <1>6
  <2> HIDE DEF args
  <2>3. Len(args) = w.argCount
    BY <1>4, <2>2, LenOfDomain
  <2>. QED  BY <1>4, <1>6, <2>1, <2>3 DEF AreValues
<1>8. Called(m) = Checked(m, may, Call(e, f, args, returnDst, resume))
  BY Zenon DEF Called, srcs
<1>9. Like(m, e) /\ e.stack = m.stack /\ e.contexts = m.contexts /\ e.status = m.status
  <2> HIDE DEF owned
  <2>1. e.contexts = m.contexts /\ e.status = m.status
    BY <1>1 DEF Excused, IsThread, Fields
  <2>. QED  BY <1>1, <2>1, LikeExcused
<1>10. ASSUME may
       PROVE  f \in DOMAIN program.functions
  BY <1>3, <1>4, <1>10
<1>11. ASSUME may
       PROVE  Elsewhere(returnDst, m.next)
  <2>. SUFFICES ASSUME w.hasReturn
                PROVE  At(m, w.returnDst) \in Int /\ At(m, w.returnDst) < m.next
    BY DEF Elsewhere
  <2> DEFINE base == m.frame.base
             size == m.frame.length
             dst == w.returnDst
  <2>1. dst \in Nat
    BY <1>3, <1>4 DEF Code!CallOperands
  <2>2. dst < size
    BY <1>11 DEF InFrame
  <2>3. m.next = base + size + 4 /\ base \in Nat /\ size \in Nat
    BY <1>1, <1>2, ReservedBelow DEF FramesOK, FrameOK, Behind, RESERVED_SLOTS
  <2>4. At(m, dst) = base + dst + 4
    BY DEF At, RESERVED_SLOTS
  <2> HIDE DEF base, size, dst
  <2>. QED  BY <2>1, <2>2, <2>3, <2>4 DEF dst
<1> HIDE DEF may, e, f, args, returnDst, resume
<1>. QED  BY <1>7, <1>8, <1>9, <1>10, <1>11

\* Its frame.
LEMMA CalledFramed ==
  ASSUME NEW m, Runs(m, {"call"}),
         /\ Word(m).opType = "src" /\ HasValue(m, Word(m).funcSrc)
         /\ ContextAt(m, Word(m).funcSrc) = "function"
         => ValueAt(m, Word(m).funcSrc)[1][2] \in DOMAIN program.functions,
         Called(m).next \in 0 .. StackSlots
  PROVE  Framed(Called(m))
<1>1. PICK e, f, args, returnDst, resume, may :
        /\ Called(m) = Checked(m, may, Call(e, f, args, returnDst, resume))
        /\ Like(m, e) /\ e.stack = m.stack
        /\ may => f \in DOMAIN program.functions /\ AreValues(args)
  BY CalledWith
<1>2. IsThread(m) /\ IsSeq(m.calls) /\ FramesOK(m) /\ CallsOK(program, m.calls) /\ WellFormed(program)
  BY AtFrame DEF Runs, Executes
<1>3. IsThread(e) /\ CallsOK(program, e.calls) /\ FramesOK(e)
  <2>1. IsThread(e) /\ e.calls = m.calls
    BY <1>1 DEF Like
  <2>. QED  BY <1>1, <1>2, <2>1, UnwrittenKept, FramesLike
<1>4. ASSUME may
      PROVE  Framed(Call(e, f, args, returnDst, resume))
  <2>1. Call(e, f, args, returnDst, resume).next \in 0 .. StackSlots
    BY <1>1, <1>4 DEF Checked
  <2>2. /\ Len(args) \in Nat /\ DOMAIN args = 1 .. Len(args)
        /\ \A i \in 1 .. Len(args) : SlotsOf(args[i].type) \in Nat
    BY <1>1, <1>4, SlotsOfValue DEF AreValues
  <2>. QED  BY <1>1, <1>2, <1>3, <1>4, <2>1, <2>2, CallFramed
<1>. QED  BY <1>1, <1>2, <1>4, CheckedFramed

-----------------------------------------------------------------------------
(***************************************************************************)
(* Frames: C functions.                                                    *)
(***************************************************************************)

\* What a C function does with its local variables leaves the frames alone.
SameBody(m, r) ==
  /\ IsThread(r) /\ SameFrames(m.calls, r.calls)
  /\ r.frame = m.frame /\ r.next = m.next /\ r.stack = m.stack

\* The current call of a C function changes, and its frame does not.
LEMMA CallKept ==
  ASSUME NEW m, BodyOK(m), NEW c, c.frame = Top(m).frame
  PROVE  SameBody(m, [m EXCEPT !.calls = [m.calls EXCEPT ![Len(m.calls)] = c]])
<1> DEFINE n == Len(m.calls)
           calls == [m.calls EXCEPT ![n] = c]
           r == [m EXCEPT !.calls = calls]
<1>1. IsSeq(m.calls) /\ n \in 1 .. n
  BY CallsFront DEF BodyOK, CallsOK
<1>2. Updates(calls, m.calls, n, c)
  BY DEF Updates
<1>3. m.calls[n].frame = c.frame
  BY DEF Top
<1> HIDE DEF calls
<1>4. IsSeq(calls) /\ Len(calls) = n /\ \A i \in 1 .. n : calls[i] = IF i = n THEN c ELSE m.calls[i]
  BY <1>1, <1>2, SeqUpdated
<1>5. SameFrames(m.calls, calls)
  <2> HIDE DEF n
  <2>. QED  BY <1>3, <1>4 DEF SameFrames, n
<1>6. IsThread(r) /\ r.calls = calls /\ r.frame = m.frame /\ r.next = m.next /\ r.stack = m.stack
  BY DEF BodyOK, IsThread, Fields, IsPointer
<1> HIDE DEF r
<1>. QED  BY <1>5, <1>6 DEF SameBody, r, calls

\* Other local variables.
LEMMA RemainingKept ==
  ASSUME NEW m, BodyOK(m), NEW locals
  PROVE  SameBody(m, Remaining(m, locals))
<1> DEFINE c == [Top(m) EXCEPT !.locals = locals]
           r == Remaining(m, locals)
<1>1. CallOK(program, Top(m))
  <2>1. Len(m.calls) \in 1 .. Len(m.calls)
    BY CallsFront DEF BodyOK
  <2>. QED  BY <2>1 DEF BodyOK, CallsOK, Top
<1>2. c.frame = Top(m).frame
  <2> HIDE DEF Top
  <2>. QED  BY <1>1 DEF CallOK, IsCall, CallFields
<1>3. r = [m EXCEPT !.calls = [m.calls EXCEPT ![Len(m.calls)] = c]]
  BY DEF Top, Remaining
<1> HIDE DEF c, r
<1>. QED  BY <1>2, <1>3, CallKept DEF r

\* Other local variables, and another step.
LEMMA SteppedKept ==
  ASSUME NEW m, BodyOK(m), WellFormed(program), BodyStep(m).do # "end", NEW locals
  PROVE  SameBody(m, Stepped(m, locals))
<1> DEFINE one == [m EXCEPT !.calls[Len(m.calls)].pc = @ + 1]
           c == [Top(m) EXCEPT !.pc = Top(m).pc + 1]
<1>1. BodyOK(one) /\ Len(one.calls) = Len(m.calls)
  BY StepChanged DEF BodyStep
<1>2. SameBody(m, one)
  <2>1. CallOK(program, Top(m))
    <3>1. Len(m.calls) \in 1 .. Len(m.calls)
      BY CallsFront DEF BodyOK
    <3>. QED  BY <3>1 DEF BodyOK, CallsOK, Top
  <2>2. c.frame = Top(m).frame
    <3> HIDE DEF Top
    <3>. QED  BY <2>1 DEF CallOK, IsCall, CallFields
  <2>3. one = [m EXCEPT !.calls = [m.calls EXCEPT ![Len(m.calls)] = c]]
    BY DEF Top
  <2> HIDE DEF c, one
  <2>. QED  BY <2>2, <2>3, CallKept DEF one
<1>3. Stepped(m, locals) = [one EXCEPT !.calls[Len(m.calls)].locals = locals]
  BY Zenon DEF Stepped
<1> HIDE DEF one
<1>4. Stepped(m, locals) = Remaining(one, locals)
  BY <1>1, <1>3 DEF Remaining
<1>5. SameBody(one, Stepped(m, locals))
  BY <1>1, <1>4, RemainingKept
<1> DEFINE two == Stepped(m, locals)
<1> HIDE DEF two
<1>6. SameBody(one, two) => SameBody(m, two)
  BY <1>2 DEF SameBody, SameFrames
<1>. QED  BY <1>5, <1>6 DEF two

\* The frames after such a change, and what is written elsewhere after it.
LEMMA BodyFramed ==
  ASSUME NEW m, BodyOK(m), FramesOK(m), NEW r, SameBody(m, r), NEW s, Like(r, s)
  PROVE  /\ s.stack = m.stack => FramesOK(s)
         /\ Kept(m.stack, s.stack, Reserved(m)) => FramesOK(s)
<1>1. IsSeq(m.calls) /\ IsStack(m.stack)
  BY DEF BodyOK, CallsOK, FramesOK
<1>2. SameFrames(m.calls, s.calls) /\ s.frame = m.frame /\ s.next = m.next
  BY DEF SameBody, Like
<1>3. s.stack = m.stack => Kept(m.stack, s.stack, Reserved(m))
  BY <1>1 DEF Kept
<1>4. Kept(m.stack, s.stack, Reserved(m)) => FramesOK(s)
  BY <1>1, <1>2, FramesKept
<1>. QED  BY <1>3, <1>4

\* A C function takes an argument.
LEMMA TakenFramed ==
  ASSUME NEW m, BodyOK(m), WellFormed(program), BodyStep(m).do # "end", FramesOK(m), NEW i
  PROVE  Framed(Taken(m, i))
<1> DEFINE position == ArgPosition(m, Top(m).frame.base, Top(m).offset, i)
           may == i <= Len(Top(m).args) /\ HasValue(m, position)
           local == [words |-> ValueAt(m, position), type |-> ContextAt(m, position)]
           r == [m EXCEPT !.calls[Len(m.calls)].pc = @ + 1,
                          !.calls[Len(m.calls)].locals = Append(@, local)]
<1>1. PICK locals : r = Stepped(m, locals)
  BY Zenon DEF Stepped
<1>2. Taken(m, i) = Checked(m, may, SetNull(r, position))
  BY Zenon DEF Taken
<1> HIDE DEF r, may, position
<1>3. SameBody(m, r) /\ IsThread(r) /\ r.stack = m.stack
  <2>1. SameBody(m, r)
    BY <1>1, SteppedKept
  <2>. QED  BY <2>1 DEF SameBody
<1>4. Like(r, SetNull(r, position)) /\ SetNull(r, position).stack = m.stack
  BY <1>3, LikeSetNull
<1>5. FramesOK(SetNull(r, position))
  BY <1>3, <1>4, BodyFramed
<1>. QED  BY <1>2, <1>5, CheckedFramed DEF BodyOK, Framed

\* It gives up a local variable.
LEMMA WithoutLocalKept ==
  ASSUME NEW m, BodyOK(m), WellFormed(program), BodyStep(m).do # "end", NEW i
  PROVE  LET s == WithoutLocal(m, i)
         IN  SameBody(m, s) /\ IsThread(s) /\ s.stack = m.stack
<1>1. PICK locals : WithoutLocal(m, i) = Stepped(m, locals)
  BY Zenon DEF WithoutLocal, Stepped
<1>2. SameBody(m, WithoutLocal(m, i))
  BY <1>1, SteppedKept
<1>. QED  BY <1>2 DEF SameBody

\* It deinitialises it.
LEMMA DroppedFramed ==
  ASSUME NEW m, BodyOK(m), WellFormed(program), BodyStep(m).do # "end", FramesOK(m), NEW i
  PROVE  Framed(Dropped(m, i))
<1> DEFINE s == WithoutLocal(m, i)
           local == Top(m).locals[i]
<1>1. SameBody(m, s) /\ IsThread(s) /\ s.stack = m.stack
  BY WithoutLocalKept
<1>2. Dropped(m, i) = Deinited(s, local.words, local.type)
  BY DEF Dropped
<1> HIDE DEF s, local
<1>3. Like(s, Dropped(m, i)) /\ Dropped(m, i).stack = m.stack
  BY <1>1, <1>2, LikeDeinited
<1>. QED  BY <1>1, <1>3, BodyFramed DEF Framed

\* What is written outside of the frame by a C function that returns a value.
LEMMA OutsideOfBody ==
  ASSUME NEW m, program.functions[Top(m).function].kind = "c", BodyStep(m).do = "give",
         Outside(m) \cap Reserved(m) = {}, Reserved(m) \subseteq Memory, NEW a \in Reserved(m)
  PROVE  LET to == Top(m).frame.returnValue
         IN  ~(to <= a /\ a < to + Len(Top(m).locals[BodyStep(m).local].words))
<1> DEFINE to == Top(m).frame.returnValue
           words == Top(m).locals[BodyStep(m).local].words
<1>1. Outside(m) = {b \in Memory : to <= b /\ b < to + Len(words)}
  BY DEF Outside
<1> HIDE DEF to, words
<1>2. a \in Memory /\ a \notin Outside(m)
  OBVIOUS
<1>. QED  BY <1>1, <1>2 DEF to, words

\* It returns it.
LEMMA GivenFramed ==
  ASSUME NEW m, BodyOK(m), WellFormed(program), BodyStep(m).do = "give", FramesOK(m),
         Outside(m) \cap Reserved(m) = {}
  PROVE  Framed(Given(m, BodyStep(m).local))
<1> DEFINE i == BodyStep(m).local
           to == Top(m).frame.returnValue
           words == Top(m).locals[i].words
           type == Top(m).locals[i].type
           lost == WrittenOver(m, to, Len(words))
           s == WithoutLocal(m, i)
           e == Excused(s, lost)
           stack == Copied(m.stack, to, words)
           r == [e EXCEPT !.stack = Copied(@, to, words),
                          !.contexts[Top(m).frame.returnContext] = OwningContext(type)]
<1>1. Given(m, i) = Checked(m, to # NULL, r)
  BY Zenon DEF Given
<1>2. SameBody(m, s) /\ IsThread(s) /\ s.stack = m.stack
  BY WithoutLocalKept
<1>3. Like(s, e) /\ e.stack = m.stack /\ IsThread(e)
  <2> HIDE DEF s, lost
  <2>. QED  BY <1>2, LikeExcused DEF Like
<1>4. PICK contexts : r = Written(e, stack, contexts)
  <2> HIDE DEF e, to, words, type
  <2>. QED  BY <1>3, Zenon DEF Written
<1>5. Kept(m.stack, stack, Reserved(m))
  <2>1. IsStack(m.stack) /\ Reserved(m) \in SUBSET Memory
    BY ReservedSlots DEF BodyOK, CallsOK, FramesOK
  <2>2. \A a \in Reserved(m) : ~(to <= a /\ a < to + Len(words))
    BY <2>1, OutsideOfBody DEF BodyOK
  <2> HIDE DEF to, words
  <2>. QED  BY <2>1, <2>2, KeptCopied
<1> HIDE DEF r, e, s, stack
<1>6. Like(s, r) /\ r.stack = stack
  <2>1. Like(e, r)
    BY <1>3, <1>4, LikeReturned
  <2>2. r.stack = stack
    BY <1>3, <1>4 DEF Written, IsThread, Fields
  <2>. QED  BY <1>3, <2>1, <2>2, LikeTransitive
<1>7. FramesOK(r)
  BY <1>2, <1>5, <1>6, BodyFramed
<1>. QED  BY <1>1, <1>7, CheckedFramed DEF BodyOK, Framed

\* It passes a local variable to a function it calls.
LEMMA PassedFramed ==
  ASSUME NEW m, BodyOK(m), WellFormed(program), FramesOK(m), NEW i,
         SlotsOf(Top(m).locals[i].type) \in Nat, NEW f \in DOMAIN program.functions,
         Passed(m, f, i).next \in 0 .. StackSlots
  PROVE  Framed(Passed(m, f, i))
<1> DEFINE local == Top(m).locals[i]
           rest == [m EXCEPT !.calls[Len(m.calls)].locals = RemoveAt(@, i)]
           args == <<local>>
<1>1. PICK locals : rest = Remaining(m, locals)
  BY Zenon DEF Remaining
<1>2. Passed(m, f, i) = Call(rest, f, args, NULL, m.ip)
  BY Zenon DEF Passed
<1> HIDE DEF rest
<1>3. BodyOK(rest) /\ SameBody(m, rest)
  <2>1. BodyOK(rest)
    BY <1>1, LocalsChanged
  <2>. QED  BY <1>1, <2>1, RemainingKept
<1>4. IsThread(rest) /\ CallsOK(program, rest.calls) /\ FramesOK(rest)
  <2>1. IsThread(rest) /\ CallsOK(program, rest.calls) /\ rest.stack = m.stack
    BY <1>3 DEF BodyOK, SameBody
  <2>2. Like(rest, rest)
    BY <2>1 DEF Like
  <2>. QED  BY <1>3, <2>1, <2>2, BodyFramed
<1>5. DOMAIN args = 1 .. 1 /\ \A k \in 1 .. 1 : SlotsOf(args[k].type) \in Nat
  BY DEF local
<1>6. Call(rest, f, args, NULL, m.ip).next \in 0 .. StackSlots
  BY <1>2
<1> HIDE DEF args
<1>. QED  BY <1>2, <1>4, <1>5, <1>6, CallFramed
-----------------------------------------------------------------------------
(***************************************************************************)
(* Frames: every step of a thread.                                         *)
(***************************************************************************)

\* What is invariant together with Control.
Frames == \A t \in Threads : Framed(threads[t])

\* A step of a C function.
LEMMA CStepFramed ==
  ASSUME Control, Frames, TypeOK, TrustKept, NEW t \in Threads, CStep(t),
         threads'[t].next \in 0 .. StackSlots
  PROVE  \E s : Becomes(t, s) /\ Framed(s)
<1> DEFINE m == threads[t]
           step == BodyStep(m)
<1>1. /\ m.status = "running" /\ program.functions[Top(m).function].kind = "c"
      /\ \/ step.do = "take" /\ Becomes(t, Taken(m, step.arg))
         \/ step.do = "drop" /\ Becomes(t, Dropped(m, step.local))
         \/ step.do = "give" /\ Becomes(t, Given(m, step.local))
         \/ step.do = "pass" /\ Becomes(t, Passed(m, step.function, step.local))
         \/ step.do = "end" /\ Becomes(t, Finished(PopFrame(Unwound(m)), step.error))
  BY DEF CStep
<1>2. BodyOK(m) /\ WellFormed(program) /\ FramesOK(m)
  BY <1>1 DEF Control, ControlOK, BodyOK, Frames, Framed
<1>3. Outside(m) \cap Reserved(m) = {}
  BY <1>1 DEF TrustKept
<1>4. Len(m.calls) \in 1 .. Len(m.calls) /\ DOMAIN m.calls = 1 .. Len(m.calls)
  BY <1>2, CallsFront DEF BodyOK, CallsOK, IsSeq
<1>5. ASSUME step.do = "pass"
      PROVE  step.function \in DOMAIN program.functions /\ SlotsOf(Top(m).locals[step.local].type) \in Nat
  <2> DEFINE f == Top(m).function
             fn == program.functions[f]
             pc == Top(m).pc
             type == Top(m).locals[step.local].type
  <2>1. CallOK(program, Top(m))
    BY <1>2, <1>4 DEF BodyOK, CallsOK, Top
  <2>2. f \in DOMAIN program.functions /\ fn.kind = "c" /\ pc \in DOMAIN fn.code
    BY <1>1, <2>1 DEF CallOK
  <2>3. WellFormedFunction(fn, DOMAIN program.functions)
    BY <1>2, <2>2 DEF WellFormed
  <2>4. step = fn.code[pc]
    BY DEF BodyStep
  <2>5. step.local \in DOMAIN Top(m).locals
    BY <1>1, <1>5 DEF TrustKept, LocalsExist
  <2>6. type \in DOMAIN SizeOf
    BY <1>4, <2>5 DEF TypeOK, Top
  <2>7. SlotsOf(type) \in Nat
    <3> HIDE DEF type
    <3>1. SizeOf[type] \in Nat
      BY <2>6, StackAssumption
    <3>. QED  BY <3>1 DEF SlotsOf
  <2>8. step.function \in DOMAIN program.functions
    <3> HIDE DEF step, fn, pc
    <3>. QED  BY <1>5, <2>2, <2>3, <2>4 DEF WellFormedFunction
  <2>. QED  BY <2>7, <2>8
<1>6. ASSUME NEW s, Becomes(t, s)
      PROVE  threads'[t] = s
  BY <1>6 DEF Becomes, Control
<1> HIDE DEF m, step
<1>7. step = BodyStep(m)
  BY DEF step
<1>8. CASE step.do = "take" /\ Becomes(t, Taken(m, step.arg))
  BY <1>2, <1>7, <1>8, TakenFramed
<1>9. CASE step.do = "drop" /\ Becomes(t, Dropped(m, step.local))
  BY <1>2, <1>7, <1>9, DroppedFramed
<1>10. CASE step.do = "give" /\ Becomes(t, Given(m, step.local))
  BY <1>2, <1>3, <1>7, <1>10, GivenFramed
<1>11. CASE step.do = "pass" /\ Becomes(t, Passed(m, step.function, step.local))
  <2>1. Passed(m, step.function, step.local).next \in 0 .. StackSlots
    BY <1>6, <1>11
  <2>. QED  BY <1>2, <1>5, <1>7, <1>11, <2>1, PassedFramed
<1>12. CASE step.do = "end" /\ Becomes(t, Finished(PopFrame(Unwound(m)), step.error))
  BY <1>2, <1>12, LeftFramed DEF BodyOK, Framed
<1>. QED  BY <1>1, <1>8, <1>9, <1>10, <1>11, <1>12

\* A step of a script, or of a C function.
LEMMA StepFramed ==
  ASSUME Control, Frames, TypeOK, TrustKept, NEW t \in Threads, Step(t),
         threads'[t].next \in 0 .. StackSlots
  PROVE  \E s : Becomes(t, s) /\ Framed(s)
<1> DEFINE m == threads[t]
           w == Word(m)
<1>1. ASSUME NEW ops, Executing(t, ops)
      PROVE  Runs(m, ops) /\ Outside(m) \cap Reserved(m) = {}
  <2>1. Executes(m, ops) /\ m.status = "running"
    BY <1>1 DEF Executing, Executes, Control
  <2>2. FramesOK(m)
    BY <2>1 DEF Frames, Framed
  <2>3. Typed(m)
    BY DEF TypeOK, Typed
  <2>. QED  BY <2>1, <2>2, <2>3 DEF Runs, TrustKept
<1>2. CASE Load(t)
  BY <1>1, <1>2, LoadFramed DEF Load, Proceeds
<1>3. CASE Return(t)
  BY <1>1, <1>3, ReturnFramed DEF Return, Proceeds
<1>4. CASE DoCall(t)
  <2>1. Runs(m, {"call"}) /\ Becomes(t, Called(m))
    BY <1>1, <1>4 DEF DoCall
  <2>2. /\ w.opType = "src" /\ HasValue(m, w.funcSrc) /\ ContextAt(m, w.funcSrc) = "function"
        => ValueAt(m, w.funcSrc)[1][2] \in DOMAIN program.functions
    BY <2>1 DEF Runs, Executes, TrustKept, CalleesExist, CallsValue
  <2>3. Called(m).next \in 0 .. StackSlots
    BY <2>1 DEF Becomes, Control
  <2>. QED  BY <2>1, <2>2, <2>3, CalledFramed
<1>5. CASE Jump(t)
  BY <1>1, <1>5, JumpSyncFramed DEF Jump, Proceeds
<1>6. CASE DeinitMoveClone(t)
  BY <1>1, <1>6, DeinitMoveCloneFramed DEF DeinitMoveClone, Proceeds
<1>7. CASE Refer(t)
  BY <1>1, <1>7, StoringFramed DEF Refer, Proceeds
<1>8. CASE SetReference(t)
  <2>1. Runs(m, {"setReference"}) /\ Outside(m) \cap Reserved(m) = {}
    BY <1>1, <1>8 DEF SetReference
  <2>2. Becomes(t, Checked(m, MaySetReference(m),
                           Advanced(WrittenThrough(m, w.dst, 0, ValueAt(m, w.src)), 1)))
    BY <1>8 DEF SetReference
  <2>. QED  BY <2>1, <2>2, SetReferenceFramed DEF Proceeds
<1>9. CASE SetMember(t)
  <2> DEFINE slot == MembersOf[MemberTarget(m, w.dst).type][w.memberIndex + 1].slot
  <2>1. Runs(m, {"setMember"}) /\ Outside(m) \cap Reserved(m) = {}
    BY <1>1, <1>9 DEF SetMember
  <2>2. Becomes(t, Checked(m, MaySetMember(m),
                           Advanced(WrittenThrough(m, w.dst, slot, ValueAt(m, w.src)), 1)))
    BY <1>9 DEF SetMember
  <2>. QED  BY <2>1, <2>2, SetMemberFramed DEF Proceeds
<1>10. CASE Compare(t)
  BY <1>1, <1>10, StoringFramed DEF Compare, Proceeds
<1>11. CASE Arithmetic(t)
  BY <1>1, <1>11, ArithmeticFramed DEF Arithmetic, Proceeds
<1>12. CASE Sync(t)
  <2> DEFINE may == \A source \in ToSet(LockSources(m)) : MayLock(m, source)
             k == IF w.num > 2 THEN 1 + SourceWords(w.num - 2) ELSE 1
  <2>1. Runs(m, {"sync"}) /\ Becomes(t, Checked(m, may, Advanced(m, k)))
    BY <1>1, <1>12 DEF Sync
  <2> HIDE DEF may, k
  <2>. QED  BY <2>1, JumpSyncFramed DEF Proceeds
<1>13. CASE Unsync(t)
  BY <1>1, <1>13, JumpSyncFramed DEF Unsync, Proceeds
<1>14. CASE CStep(t)
  BY <1>14, CStepFramed
<1>15. CASE Nop(t)
  BY <1>1, <1>15, JumpSyncFramed DEF Nop, Proceeds
<1>. QED  BY <1>2, <1>3, <1>4, <1>5, <1>6, <1>7, <1>8, <1>9, <1>10, <1>11, <1>12, <1>13, <1>14,
             <1>15 DEF Step

\* The frame of the function that the host of a thread has called.
LEMMA StartedFramed ==
  ASSUME WellFormed(program), NEW t \in Threads,
         Started(program.start[t]).next \in 0 .. StackSlots
  PROVE  Framed(Started(program.start[t]))
<1> DEFINE start == program.start[t]
           f == start.function
           new == [ip |-> [function |-> f, at |-> 1], calls |-> << >>,
                   objects |-> start.objects, excused |-> {},
                   status |-> IF f = "none" THEN "ended" ELSE "running",
                   next |-> NewStack.next, frame |-> NewStack.frame,
                   stack |-> NewStack.stack, contexts |-> NewStack.contexts]
           words == Copied(new.stack, StackSlots, start.hostWords)
           m == IF start.hostType = "none" THEN new
                ELSE [new EXCEPT
                        !.stack = Copied(@, StackSlots, start.hostWords),
                        !.contexts = WithContext(@, StackSlots, OwningContext(start.hostType))]
<1>1. IsThread(new) /\ new.calls = << >> /\ new.next = 0 /\ IsStack(new.stack)
  BY DEF IsThread, Fields, IsPointer, NewStack, IsStack
<1>2. IsStack(words)
  <2> DEFINE old == new.stack
  <2>1. IsStack(old)
    BY <1>1
  <2> HIDE DEF old
  <2>2. IsStack(Copied(old, StackSlots, start.hostWords))
    BY <2>1 DEF Copied, IsStack
  <2>. QED  BY <2>2 DEF old
<1>3. IsThread(m) /\ m.calls = << >> /\ m.next = 0 /\ IsStack(m.stack)
  <2>1. PICK contexts : m \in {new, [new EXCEPT !.stack = words, !.contexts = contexts]}
    <3> HIDE DEF new
    <3>. QED  BY Zenon
  <2> HIDE DEF m, new, words
  <2>. QED  BY <1>1, <1>2, <2>1 DEF IsThread, Fields, IsPointer
<1>4. CallsOK(program, << >>)
  BY DEF CallsOK, IsSeq
<1>5. Started(start) = IF f = "none" THEN m ELSE Call(m, f, start.args, start.returnDst, m.ip)
  BY Zenon DEF Started
<1>6. /\ f \in DOMAIN program.functions \cup {"none"}
      /\ Len(start.args) \in Nat /\ DOMAIN start.args = 1 .. Len(start.args)
      /\ \A i \in 1 .. Len(start.args) : SlotsOf(start.args[i].type) \in Nat
  <2>1. /\ f \in DOMAIN program.functions \cup {"none"}
        /\ Len(start.args) \in Nat /\ DOMAIN start.args = 1 .. Len(start.args)
        /\ \A i \in 1 .. Len(start.args) : start.args[i].type \in DOMAIN SizeOf
    BY DEF WellFormed, IsValue
  <2>2. \A type \in DOMAIN SizeOf : SlotsOf(type) \in Nat
    BY StackAssumption DEF SlotsOf
  <2>. QED  BY <2>1, <2>2
<1> HIDE DEF m, new, words
<1>7. FramesOK(m)
  BY <1>3 DEF FramesOK, Chain
<1>8. f = "none" => Framed(m)
  BY <1>7 DEF Framed
<1>9. f # "none" => Framed(Call(m, f, start.args, start.returnDst, m.ip))
  <2>1. f # "none" => Call(m, f, start.args, start.returnDst, m.ip).next \in 0 .. StackSlots
    BY <1>5
  <2> HIDE DEF f, start
  <2>. QED  BY <1>3, <1>4, <1>6, <1>7, <2>1, CallFramed
<1>. QED  BY <1>5, <1>8, <1>9

\* The stacks before the first step.
LEMMA FramesInit == Init /\ TypeOK => Frames
<1>. SUFFICES ASSUME Init, TypeOK, NEW t \in Threads
              PROVE  Framed(threads[t])
  BY DEF Frames
<1>1. WellFormed(program)
  BY ProgramsWellFormed DEF Init
<1>2. threads[t] = Started(program.start[t])
  BY DEF Init
<1>3. threads[t].next \in 0 .. StackSlots
  BY DEF TypeOK
<1>. QED  BY <1>1, <1>2, <1>3, StartedFramed

\* The stacks after a step.
LEMMA FramesNext ==
  Control /\ Frames /\ TypeOK /\ TypeOK' /\ TrustKept /\ [Next]_vars => Frames'
<1>. SUFFICES ASSUME Control, Frames, TypeOK, TypeOK', TrustKept, [Next]_vars
              PROVE  Frames'
  OBVIOUS
<1>1. ASSUME NEW t \in Threads, Step(t)
      PROVE  Frames'
  <2>1. threads'[t].next \in 0 .. StackSlots
    BY DEF TypeOK
  <2>2. PICK s : Becomes(t, s) /\ Framed(s)
    BY <1>1, <2>1, StepFramed
  <2>3. program' = program /\ \A u \in Threads : threads'[u] = IF u = t THEN s ELSE threads[u]
    BY <2>2 DEF Becomes, Control
  <2>4. \A u \in Threads : Framed(threads'[u])
    BY <2>2, <2>3 DEF Frames
  <2>. QED  BY <2>4 DEF Frames, Framed
<1>2. CASE UNCHANGED vars
  BY <1>2 DEF vars, Frames
<1>. QED  BY <1>1, <1>2 DEF Next

\* The frames of a thread, as the property states them.
Match(m) ==
  /\ m.calls = << >> => m.next = 0
  /\ m.calls # << >> => /\ m.frame = Top(m).frame
                       /\ m.next = m.frame.base + m.frame.length + RESERVED_SLOTS
  /\ \A i \in 2 .. Len(m.calls) :
       /\ m.calls[i].frame.base =
            m.calls[i - 1].frame.base + m.calls[i - 1].frame.length + RESERVED_SLOTS
       /\ [j \in 1 .. 3 |-> m.stack[m.calls[i].frame.base + j][2]] =
            <<m.calls[i - 1].frame.length, m.calls[i - 1].frame.returnValue,
              m.calls[i - 1].frame.returnContext>>

\* What the invariant says of them.
LEMMA FramesAgree ==
  ASSUME NEW m, FramesOK(m)
  PROVE  Match(m)
<1>1. ASSUME NEW i \in 2 .. Len(m.calls)
      PROVE  /\ m.calls[i].frame.base =
                  m.calls[i - 1].frame.base + m.calls[i - 1].frame.length + RESERVED_SLOTS
             /\ [j \in 1 .. 3 |-> m.stack[m.calls[i].frame.base + j][2]] =
                  <<m.calls[i - 1].frame.length, m.calls[i - 1].frame.returnValue,
                    m.calls[i - 1].frame.returnContext>>
  <2> DEFINE base == m.calls[i].frame.base
             below == m.calls[i - 1].frame
             stack == m.stack
  <2>1. base = Behind(below) /\ SavedAt(stack, base, below)
    BY DEF FramesOK, Chain
  <2> HIDE DEF base, below, stack
  <2>2. /\ stack[base + 1][2] = below.length /\ stack[base + 2][2] = below.returnValue
        /\ stack[base + 3][2] = below.returnContext
    BY <2>1 DEF SavedAt
  <2>3. [j \in 1 .. 3 |-> stack[base + j][2]] =
          <<below.length, below.returnValue, below.returnContext>>
    BY <2>2
  <2>4. base = below.base + below.length + RESERVED_SLOTS
    BY <2>1 DEF Behind
  <2>. QED  BY <2>3, <2>4, Zenon DEF base, below, stack
<1>2. /\ m.calls = << >> => m.next = 0
      /\ m.calls # << >> => m.frame = Top(m).frame /\ m.next = Behind(m.frame)
  BY DEF FramesOK
<1>3. \A i \in 2 .. Len(m.calls) :
        /\ m.calls[i].frame.base =
             m.calls[i - 1].frame.base + m.calls[i - 1].frame.length + RESERVED_SLOTS
        /\ [j \in 1 .. 3 |-> m.stack[m.calls[i].frame.base + j][2]] =
             <<m.calls[i - 1].frame.length, m.calls[i - 1].frame.returnValue,
               m.calls[i - 1].frame.returnContext>>
  BY <1>1, Zenon
<1>. QED  BY <1>2, <1>3, Zenon DEF Match, Behind

\* stack.c, push_frame and pop_frame: a thread's frames, those saved on its stack too,
\* are those of the calls that have not returned, whatever the calls, returns and
\* errors; as long as the stack does not overflow, which nothing checks, and as values
\* are written into the slots that are there for them.
THEOREM FramesAreRestored == Spec /\ []TypeOK /\ []TrustKept => []FramesMatchCalls
<1>1. Init /\ TypeOK => Control /\ Frames
  BY ControlInit, FramesInit
<1>2. /\ Control /\ Frames /\ TypeOK /\ TypeOK' /\ TrustKept /\ [Next]_vars
      => Control' /\ Frames'
  BY ControlNext, FramesNext DEF TrustKept
<1>3. Frames => FramesMatchCalls
  <2>1. Frames => \A t \in Threads : Alive(threads[t]) => Match(threads[t])
    BY FramesAgree DEF Frames, Framed, Alive
  <2>2. (\A t \in Threads : Alive(threads[t]) => Match(threads[t])) => FramesMatchCalls
    BY Zenon DEF Match, FramesMatchCalls
  <2>. QED  BY <2>1, <2>2
<1>. QED  BY <1>1, <1>2, <1>3, PTL DEF Spec
-----------------------------------------------------------------------------
(***************************************************************************)
(* Arguments: where they are on the stack.                                 *)
(***************************************************************************)

\* The slots of values are one behind the other.
LEMMA SlotsInOrder ==
  ASSUME NEW args, NEW k \in Nat, Len(args) = k, \A i \in 1 .. k : SlotsOf(args[i].type) \in Nat
  PROVE  LET slot == ArgSlots(args)
         IN  /\ slot[1] = 0
             /\ \A i \in 1 .. k : slot[i + 1] = slot[i] + SlotsOf(args[i].type)
             /\ \A i \in 1 .. k + 1 : slot[i] \in Nat
             /\ \A j \in 1 .. k + 1 : \A i \in 1 .. k : i < j => slot[i] + SlotsOf(args[i].type) <= slot[j]
<1> DEFINE size(i) == SlotsOf(args[i].type)
           Iter(g) == g = [i \in 1 .. k + 1 |-> IF i = 1 THEN 0 ELSE g[i - 1] + size(i - 1)]
           slot == CHOOSE g : Iter(g)
<1>1. ArgSlots(args) = slot
  BY Zenon DEF ArgSlots
<1>2. \A i \in 1 .. k : size(i) \in Nat
  OBVIOUS
<1> HIDE DEF size
<1>3. PICK f \in [0 .. k -> Nat] : f[0] = 0 /\ \A n \in 1 .. k : f[n] = f[n - 1] + size(n)
  <2> DEFINE sizes == [n \in 1 .. k |-> size(n)]
  <2>1. sizes \in [1 .. k -> Nat] /\ \A n \in 1 .. k : sizes[n] = size(n)
    BY <1>2
  <2> HIDE DEF sizes
  <2>2. PICK f \in [0 .. k -> Nat] : f[0] = 0 /\ \A n \in 1 .. k : f[n] = f[n - 1] + sizes[n]
    BY <2>1, Sums
  <2>. QED  BY <2>1, <2>2
<1>5. \E g : Iter(g)
  <2> DEFINE g == [i \in 1 .. k + 1 |-> f[i - 1]]
  <2>1. \A i \in 1 .. k + 1 : g[i] = IF i = 1 THEN 0 ELSE g[i - 1] + size(i - 1)
    <3>. SUFFICES ASSUME NEW i \in 1 .. k + 1
                  PROVE  g[i] = IF i = 1 THEN 0 ELSE g[i - 1] + size(i - 1)
      OBVIOUS
    <3>1. CASE i = 1
      BY <1>3, <3>1
    <3>2. CASE i # 1
      <4>1. i - 1 \in 1 .. k /\ i - 1 \in 1 .. k + 1
        BY <3>2
      <4>2. g[i] = f[i - 1] /\ g[i - 1] = f[(i - 1) - 1]
        BY <4>1
      <4> HIDE DEF g
      <4>. QED  BY <1>3, <3>2, <4>1, <4>2
    <3>. QED  BY <3>1, <3>2
  <2>2. g = [i \in 1 .. k + 1 |-> g[i]]
    OBVIOUS
  <2> HIDE DEF g
  <2>3. Iter(g)
    BY <2>1, <2>2
  <2>. QED  BY <2>3
<1>6. Iter(slot)
  <2> HIDE DEF Iter
  <2>. QED  BY <1>5
<1> HIDE DEF slot
<1>7. /\ slot[1] = 0
      /\ \A i \in 1 .. k : slot[i + 1] = slot[i] + size(i)
  <2>1. \A i \in 1 .. k + 1 : slot[i] = IF i = 1 THEN 0 ELSE slot[i - 1] + size(i - 1)
    BY <1>6
  <2>2. 1 \in 1 .. k + 1 /\ \A i \in 1 .. k : i + 1 \in 1 .. k + 1 /\ i + 1 # 1 /\ (i + 1) - 1 = i
    OBVIOUS
  <2>3. slot[1] = 0
    BY <2>1, <2>2
  <2>4. ASSUME NEW i \in 1 .. k
        PROVE  slot[i + 1] = slot[i] + size(i)
    BY <2>1, <2>2
  <2>. QED  BY <2>3, <2>4
<1> HIDE DEF Iter
<1> DEFINE S == {n \in Nat : n <= k => /\ slot[n + 1] \in Nat
                                      /\ \A i \in 1 .. n : slot[i] \in Nat /\ slot[i] + size(i) <= slot[n + 1]}
<1>8. 0 \in S
  BY <1>7
<1>9. ASSUME NEW n \in S
      PROVE  n + 1 \in S
  <2>. SUFFICES ASSUME n + 1 <= k
                PROVE  /\ slot[(n + 1) + 1] \in Nat
                       /\ \A i \in 1 .. n + 1 : slot[i] \in Nat /\ slot[i] + size(i) <= slot[(n + 1) + 1]
    OBVIOUS
  <2>1. /\ n \in Nat /\ n + 1 \in 1 .. k /\ slot[n + 1] \in Nat
        /\ \A i \in 1 .. n : slot[i] \in Nat /\ slot[i] + size(i) <= slot[n + 1]
    OBVIOUS
  <2>2. slot[(n + 1) + 1] = slot[n + 1] + size(n + 1) /\ size(n + 1) \in Nat
    BY <1>2, <1>7, <2>1
  <2>3. ASSUME NEW i \in 1 .. n + 1
        PROVE  slot[i] \in Nat /\ slot[i] + size(i) <= slot[(n + 1) + 1]
    <3>1. CASE i = n + 1
      BY <2>1, <2>2, <3>1
    <3>2. CASE i # n + 1
      <4>1. i \in 1 .. n /\ i \in 1 .. k
        BY <2>1, <3>2
      <4>2. slot[i] \in Nat /\ size(i) \in Nat /\ slot[i] + size(i) <= slot[n + 1]
        BY <1>2, <2>1, <4>1
      <4>. QED  BY <2>1, <2>2, <4>2
    <3>. QED  BY <3>1, <3>2
  <2>. QED  BY <2>1, <2>2, <2>3
<1>10. S = Nat
  <2>1. S \in SUBSET Nat
    OBVIOUS
  <2> HIDE DEF S
  <2>. QED  BY <1>8, <1>9, <2>1, Induction
<1>11. ASSUME NEW j \in 1 .. k + 1
       PROVE  /\ slot[j] \in Nat
              /\ \A i \in 1 .. k : i < j => slot[i] + size(i) <= slot[j]
  <2> DEFINE n == j - 1
  <2>1. n \in Nat /\ n <= k /\ n + 1 = j /\ \A i \in 1 .. k : i < j => i \in 1 .. n
    OBVIOUS
  <2> HIDE DEF n
  <2>2. n \in S
    <3> HIDE DEF S
    <3>. QED  BY <1>10, <2>1
  <2>3. slot[n + 1] \in Nat /\ \A i \in 1 .. n : slot[i] + size(i) <= slot[n + 1]
    BY <2>1, <2>2
  <2>. QED  BY <2>1, <2>3
<1>. QED  BY <1>1, <1>7, <1>11 DEF size

\* A word that is copied, and one that is not.
LEMMA CopiedWord ==
  ASSUME NEW memory, NEW to \in Int, NEW words, Len(words) \in Nat, NEW a \in DOMAIN memory, a \in Int
  PROVE  /\ ~(to <= a /\ a < to + Len(words)) => Copied(memory, to, words)[a] = memory[a]
         /\ \A j \in 1 .. Len(words) : a = to + j - 1 => Copied(memory, to, words)[a] = words[j]
<1>1. Copied(memory, to, words)[a] =
        IF to <= a /\ a < to + Len(words) THEN words[a - to + 1] ELSE memory[a]
  BY Zenon DEF Copied
<1>2. ASSUME NEW j \in 1 .. Len(words), a = to + j - 1
      PROVE  to <= a /\ a < to + Len(words) /\ a - to + 1 = j
  BY <1>2
<1>. QED  BY <1>1, <1>2

\* An argument is on the stack from its slot on, and what was before it is unchanged; for a
\* C function its offset is behind it, after those of the arguments before.
LEMMA PushedArg ==
  ASSUME NEW call, IsThread(call.m), IsStack(call.m.stack), DOMAIN call.m.contexts = Memory,
         call.m.next \in Nat, call.offset \in Nat, call.count \in Nat,
         call.offset > 0 <=> call.count > 0, NEW v, IsValue(v),
         call.m.next + RESERVED_SLOTS + call.offset + SlotsOf(v.type) <= StackSlots
  PROVE  LET m == call.m
             r == PushArg(call, v.words, v.type).m
             at == m.next + RESERVED_SLOTS + call.offset
             end == at + SlotsOf(v.type)
             offsets == IF call.count = 0 THEN << >> ELSE m.stack[at + 1][2]
         IN  /\ IsStack(r.stack) /\ DOMAIN r.contexts = Memory
             /\ \A a \in Memory : a < at => r.stack[a] = m.stack[a] /\ r.contexts[a] = m.contexts[a]
             /\ r.contexts[at] = OwningContext(v.type)
             /\ \A j \in 1 .. SlotsOf(v.type) : r.stack[at + j - 1] = v.words[j]
             /\ call.kind # "script" /\ end + 1 \in Memory =>
                  r.stack[end + 1] = <<"offsets", Append(offsets, call.offset)>>
<1> DEFINE m == call.m
           r == PushArg(call, v.words, v.type).m
           start == m.next + RESERVED_SLOTS
           at == start + call.offset
           n == SlotsOf(v.type)
           end == at + n
           offsets == IF call.count = 0 THEN << >> ELSE m.stack[at + 1][2]
           words == v.words
           contexts == WithContext(m.contexts, at, OwningContext(v.type))
           moved == IF call.offset > 0
                    THEN Copied(m.stack, end, WordsAt(m.stack, at, 2 + call.count \div 4))
                    ELSE m.stack
           list == IF call.count = 0 THEN << >> ELSE moved[end + 1][2]
           tracked == << <<"count", call.count + 1>>, <<"offsets", Append(list, call.offset)>> >>
           mid == Copied(moved, at, words)
           stack == IF call.kind = "script" THEN Copied(m.stack, at, words)
                    ELSE Copied(mid, end, tracked)
<1>1. n \in Nat \ {0} /\ Len(words) = n
  BY SlotsOfValue
<1>2. /\ at \in Nat /\ end \in Nat /\ at + 1 <= end /\ end <= StackSlots /\ end = at + n
      /\ \A a \in Memory : a \in Nat
      /\ \A a \in Nat : a < StackSlots => a \in Memory
      /\ at \in Memory /\ \A j \in 1 .. n : at + j - 1 \in Memory
  <2>1. \A a \in Memory : a \in Nat
    BY StackAssumption DEF Memory
  <2>2. \A a \in Nat : a < StackSlots => a \in Memory
    BY StackAssumption DEF Memory
  <2> DEFINE next == m.next
             offset == call.offset
  <2>3. next \in Nat /\ offset \in Nat /\ next + 4 + offset + n <= StackSlots
    BY DEF RESERVED_SLOTS
  <2> HIDE DEF next, offset, n
  <2>4. /\ next + 4 + offset \in Nat /\ next + 4 + offset + n \in Nat
        /\ next + 4 + offset + 1 <= next + 4 + offset + n
    BY <1>1, <2>3
  <2>5. /\ at = next + 4 + offset /\ end = at + n /\ at \in Nat /\ end \in Nat /\ at + 1 <= end
        /\ end <= StackSlots
    BY <2>3, <2>4 DEF next, offset, RESERVED_SLOTS
  <2> HIDE DEF at, end
  <2>6. ASSUME NEW j \in 1 .. n
        PROVE  at + j - 1 \in Memory
    <3>1. at + j - 1 \in Nat /\ at + j - 1 < StackSlots
      BY <1>1, <2>5, StackAssumption DEF n
    <3>. QED  BY <2>2, <3>1
  <2>7. at \in Memory
    <3>1. at < StackSlots
      BY <2>5, StackAssumption
    <3>. QED  BY <2>2, <2>5, <3>1
  <2>. QED  BY <2>1, <2>2, <2>5, <2>6, <2>7
<1>3. r = [m EXCEPT !.stack = stack, !.contexts = contexts]
  <2>1. CASE call.kind = "script"
    BY <2>1, Zenon DEF PushArg, PushScriptArg
  <2>2. CASE call.kind # "script"
    <3>1. r = PushCArg(m, words, v.type, call.offset, call.count)
      BY <2>2, Zenon DEF PushArg
    <3>2. stack = Copied(mid, end, tracked)
      BY <2>2
    <3> HIDE DEF stack, r
    <3>3. PushCArg(m, words, v.type, call.offset, call.count) =
            [m EXCEPT !.stack = Copied(mid, end, tracked), !.contexts = contexts]
      BY Zenon DEF PushCArg
    <3>. QED  BY <3>1, <3>2, <3>3
  <2>. QED  BY <2>1, <2>2
<1> HIDE DEF r, at, end, n, words
<1>4. r.stack = stack /\ r.contexts = contexts
  <2> HIDE DEF stack, contexts
  <2>. QED  BY <1>3 DEF IsThread, Fields
<1>5. /\ DOMAIN contexts = Memory
      /\ \A a \in Memory : a < at => contexts[a] = m.contexts[a]
      /\ contexts[at] = OwningContext(v.type)
  <2>1. at \in Memory
    BY <1>2
  <2>2. \A a \in Memory :
          contexts[a] = IF a = at THEN OwningContext(v.type)
                        ELSE IF a \in at + 1 .. at + (SizeOf[OwningContext(v.type).type] \div 8) - 1
                             THEN NoContext ELSE m.contexts[a]
    BY Zenon DEF WithContext
  <2>3. DOMAIN contexts = Memory
    BY DEF WithContext
  <2> HIDE DEF contexts
  <2>4. ASSUME NEW a \in Memory, a < at
        PROVE  contexts[a] = m.contexts[a]
    <3>1. a # at /\ \A z : a \notin at + 1 .. z
      BY <1>2, <2>4
    <3>. QED  BY <2>2, <3>1
  <2>. QED  BY <2>1, <2>2, <2>3, <2>4
<1>6. CASE call.kind = "script"
  <2>1. stack = Copied(m.stack, at, words)
    BY <1>6
  <2> HIDE DEF stack
  <2>2. IsStack(stack)
    BY <2>1 DEF Copied, IsStack
  <2>3. ASSUME NEW a \in Memory
        PROVE  /\ a < at => stack[a] = m.stack[a]
               /\ \A j \in 1 .. n : a = at + j - 1 => stack[a] = words[j]
    <3>1. a \in DOMAIN m.stack /\ a \in Int
      BY <1>2 DEF IsStack
    <3>2. Len(words) = n /\ n \in Nat /\ at \in Int
      BY <1>1, <1>2
    <3> DEFINE copy == Copied(m.stack, at, words)
    <3>3. /\ ~(at <= a /\ a < at + Len(words)) => copy[a] = m.stack[a]
          /\ \A j \in 1 .. Len(words) : a = at + j - 1 => copy[a] = words[j]
      <4>1. a \in DOMAIN m.stack /\ at \in Int /\ Len(words) \in Nat
        BY <3>1, <3>2
      <4>. QED  BY <3>1, <4>1, CopiedWord
    <3> HIDE DEF copy
    <3>. QED  BY <2>1, <3>1, <3>2, <3>3 DEF copy
  <2>4. \A j \in 1 .. n : at + j - 1 \in Memory
    BY <1>2
  <2>. QED  BY <1>4, <1>5, <1>6, <2>2, <2>3, <2>4 DEF r, at, end, n, words
<1>7. CASE call.kind # "script"
  <2>1. stack = Copied(mid, end, tracked)
    BY <1>7
  <2>2. Len(tracked) = 2 /\ tracked[2] = <<"offsets", Append(list, call.offset)>>
    OBVIOUS
  <2> HIDE DEF stack, tracked
  <2>3. IsStack(moved) /\ IsStack(mid) /\ IsStack(stack)
    <3>1. \A s, to, ws : IsStack(s) => IsStack(Copied(s, to, ws))
      BY DEF IsStack, Copied
    <3>2. IsStack(moved)
      BY <3>1
    <3> HIDE DEF moved
    <3>. QED  BY <2>1, <3>1, <3>2
  <2>4. /\ \A a \in Memory : a < end => moved[a] = m.stack[a]
        /\ end + 1 \in Memory /\ call.count # 0 => moved[end + 1] = m.stack[at + 1]
    <3> DEFINE ws == WordsAt(m.stack, at, 2 + call.count \div 4)
               k == 2 + call.count \div 4
    <3>1. k \in Nat /\ 2 <= k
      <4> DEFINE count == call.count
      <4>1. count \in Nat
        OBVIOUS
      <4> HIDE DEF count
      <4>2. 2 + count \div 4 \in Nat /\ 2 <= 2 + count \div 4
        BY <4>1
      <4>. QED  BY <4>2 DEF count
    <3> HIDE DEF k
    <3>2. ws = [i \in 1 .. k |-> m.stack[at + i - 1]]
      BY DEF WordsAt, k
    <3> HIDE DEF ws
    <3>3. Len(ws) = k /\ ws[2] = m.stack[at + 1]
      <4>1. Len(ws) = k
        <5>1. ws = [i \in 1 .. k |-> ws[i]]
          BY <3>2
        <5>. QED  BY <3>1, <5>1, LenOfDomain
      <4>2. 2 \in 1 .. k /\ at + 2 - 1 = at + 1
        BY <1>2, <3>1
      <4>3. ws[2] = m.stack[at + 2 - 1]
        BY <3>2, <4>2
      <4>. QED  BY <4>1, <4>2, <4>3
    <3>4. ASSUME NEW a \in Memory
          PROVE  /\ a < end => Copied(m.stack, end, ws)[a] = m.stack[a]
                 /\ a = end + 1 => Copied(m.stack, end, ws)[a] = m.stack[at + 1]
      <4>1. a \in DOMAIN m.stack /\ a \in Int /\ end \in Int /\ Len(ws) \in Nat /\ 2 \in 1 .. Len(ws)
        <5>1. a \in DOMAIN m.stack
          BY DEF IsStack
        <5>2. Len(ws) \in Nat /\ 2 \in 1 .. Len(ws)
          BY <3>1, <3>3
        <5>3. a \in Int /\ end \in Int
          BY <1>2
        <5>. QED  BY <5>1, <5>2, <5>3
      <4>2. a = end + 1 => a = end + 2 - 1
        BY <1>2
      <4>3. a < end => ~(end <= a /\ a < end + Len(ws))
        BY <1>2, <4>1
      <4> DEFINE copy == Copied(m.stack, end, ws)
      <4>4. /\ ~(end <= a /\ a < end + Len(ws)) => copy[a] = m.stack[a]
            /\ \A j \in 1 .. Len(ws) : a = end + j - 1 => copy[a] = ws[j]
        BY <4>1, CopiedWord
      <4> HIDE DEF copy
      <4>5. a = end + 1 => copy[a] = ws[2]
        BY <4>1, <4>2, <4>4
      <4>6. a < end => copy[a] = m.stack[a]
        BY <4>3, <4>4
      <4>. QED  BY <3>3, <4>5, <4>6 DEF copy
    <3>5. moved = IF call.offset > 0 THEN Copied(m.stack, end, ws) ELSE m.stack
      BY DEF ws, k
    <3>6. call.count # 0 => call.offset > 0
      OBVIOUS
    <3> HIDE DEF moved
    <3>. QED  BY <3>4, <3>5, <3>6
  <2> HIDE DEF moved
  <2>5. ASSUME NEW a \in Memory
        PROVE  /\ a < at => stack[a] = m.stack[a]
               /\ \A j \in 1 .. n : a = at + j - 1 => stack[a] = words[j]
               /\ a = end + 1 => stack[a] = tracked[2]
    <3>1. a \in DOMAIN moved /\ a \in DOMAIN mid /\ a \in Int
      BY <1>2, <2>3 DEF IsStack
    <3> HIDE DEF mid
    <3>2. a < end => stack[a] = mid[a]
      <4>1. a < end => ~(end <= a /\ a < end + Len(tracked))
        BY <1>2, <2>2, <3>1
      <4>2. Len(tracked) \in Nat /\ end \in Int
        BY <1>2, <2>2
      <4>3. ~(end <= a /\ a < end + Len(tracked)) => Copied(mid, end, tracked)[a] = mid[a]
        BY <3>1, <4>2, CopiedWord
      <4>. QED  BY <2>1, <4>1, <4>3
    <3>3. a = end + 1 => stack[a] = tracked[2]
      <4>1. (a = end + 1 => a = end + 2 - 1) /\ 2 \in 1 .. Len(tracked)
        BY <1>2, <2>2
      <4>2. \A j \in 1 .. Len(tracked) : a = end + j - 1 => Copied(mid, end, tracked)[a] = tracked[j]
        <5>1. end \in Int /\ Len(tracked) \in Nat
          BY <1>2, <2>2
        <5>. QED  BY <3>1, <5>1, CopiedWord
      <4>3. a = end + 1 => Copied(mid, end, tracked)[a] = tracked[2]
        BY <4>1, <4>2
      <4>. QED  BY <2>1, <4>3
    <3>4. /\ a < at => mid[a] = moved[a]
          /\ \A j \in 1 .. n : a = at + j - 1 => mid[a] = words[j]
      <4>1. a < at => ~(at <= a /\ a < at + Len(words))
        BY <1>2, <3>1
      <4>2. Len(words) = n /\ n \in Nat /\ at \in Int
        BY <1>1, <1>2
      <4>3. /\ ~(at <= a /\ a < at + Len(words)) => Copied(moved, at, words)[a] = moved[a]
            /\ \A j \in 1 .. Len(words) : a = at + j - 1 => Copied(moved, at, words)[a] = words[j]
        <5>1. a \in DOMAIN moved /\ a \in Int /\ at \in Int /\ Len(words) \in Nat
          BY <3>1, <4>2
        <5> HIDE DEF moved
        <5>. QED  BY <5>1, CopiedWord
      <4>. QED  BY <4>1, <4>2, <4>3 DEF mid
    <3>5. /\ a < at => a < end
          /\ \A j \in 1 .. n : a = at + j - 1 => a < end
      BY <1>1, <1>2, <3>1
    <3>. QED  BY <2>4, <3>2, <3>3, <3>4, <3>5
  <2>6. \A j \in 1 .. n : at + j - 1 \in Memory
    BY <1>2
  <2>7. end + 1 \in Memory => list = offsets
    BY <2>4
  <2> HIDE DEF list, offsets, mid
  <2>. QED  BY <1>4, <1>5, <1>7, <2>2, <2>3, <2>5, <2>6, <2>7 DEF r, at, end, n, words, offsets
<1>. QED  BY <1>6, <1>7

\* One more element of a list of numbers.
LEMMA OneMore ==
  ASSUME NEW n \in Nat, NEW s, \A i \in 1 .. n + 1 : s[i] \in Nat
  PROVE  LET first(k) == [i \in 1 .. k |-> s[i]]
         IN  Append(IF n = 0 THEN << >> ELSE first(n), s[n + 1]) = first(n + 1)
<1> DEFINE first(k) == [i \in 1 .. k |-> s[i]]
           l == IF n = 0 THEN << >> ELSE first(n)
           r == Append(l, s[n + 1])
<1>1. l \in Seq(Nat) /\ Len(l) = n /\ \A i \in 1 .. n : l[i] = s[i]
  <2>1. CASE n = 0
    BY <2>1
  <2>2. CASE n # 0
    <3> DEFINE g == first(n)
    <3>1. g \in [1 .. n -> Nat] /\ \A i \in 1 .. n : g[i] = s[i]
      OBVIOUS
    <3>2. l = g
      BY <2>2
    <3> HIDE DEF g, l
    <3>3. g \in Seq(Nat) /\ DOMAIN g = 1 .. n
      BY <3>1, SeqDef
    <3>4. Len(g) = n
      BY <3>3, LenProperties
    <3>. QED  BY <3>1, <3>2, <3>3, <3>4
  <2>. QED  BY <2>1, <2>2
<1> HIDE DEF l
<1>2. s[n + 1] \in Nat
  OBVIOUS
<1>3. r \in Seq(Nat) /\ Len(r) = n + 1 /\ (\A i \in 1 .. n : r[i] = s[i]) /\ r[n + 1] = s[n + 1]
  BY <1>1, <1>2, AppendProperties
<1> HIDE DEF r
<1>4. DOMAIN r = 1 .. n + 1 /\ r = [i \in 1 .. n + 1 |-> r[i]]
  BY <1>3, LenProperties
<1>5. \A i \in 1 .. n + 1 : r[i] = s[i]
  <2>1. \A i \in 1 .. n + 1 : i \in 1 .. n \/ i = n + 1
    OBVIOUS
  <2>. QED  BY <1>3, <2>1
<1>. QED  BY <1>4, <1>5 DEF r, l

\* What is known of the slots of values.
LEMMA SlotsOfValues ==
  ASSUME NEW args, AreValues(args)
  PROVE  LET slot == ArgSlots(args)
             k == Len(args)
         IN  /\ slot[1] = 0
             /\ \A i \in 1 .. k : slot[i + 1] = slot[i] + SlotsOf(args[i].type)
             /\ \A i \in 1 .. k + 1 : slot[i] \in Nat
             /\ \A j \in 1 .. k + 1 : \A i \in 1 .. k : i < j => slot[i] + SlotsOf(args[i].type) <= slot[j]
             /\ \A i \in 1 .. k : SlotsOf(args[i].type) \in Nat \ {0}
<1>1. \A i \in 1 .. Len(args) : SlotsOf(args[i].type) \in Nat \ {0}
  BY SlotsOfValue DEF AreValues
<1>2. Len(args) \in Nat
  BY DEF AreValues
<1> DEFINE k == Len(args)
<1>3. k \in Nat /\ Len(args) = k /\ \A i \in 1 .. k : SlotsOf(args[i].type) \in Nat
  BY <1>1, <1>2
<1> HIDE DEF k
<1>4. LET slot == ArgSlots(args)
      IN  /\ slot[1] = 0
          /\ \A i \in 1 .. k : slot[i + 1] = slot[i] + SlotsOf(args[i].type)
          /\ \A i \in 1 .. k + 1 : slot[i] \in Nat
          /\ \A j \in 1 .. k + 1 : \A i \in 1 .. k : i < j => slot[i] + SlotsOf(args[i].type) <= slot[j]
  BY <1>3, SlotsInOrder, Zenon
<1>. QED  BY <1>1, <1>4 DEF k

\* The offset and the count after each argument.
LEMMA PushedOffsets ==
  ASSUME NEW m, NEW kind, NEW args, AreValues(args), NEW f, PushedBy(f, m, kind, args, Len(args))
  PROVE  \A n \in 0 .. Len(args) :
           f[n].kind = kind /\ f[n].count = n /\ f[n].offset = ArgSlots(args)[n + 1]
<1> DEFINE k == Len(args)
           slot == ArgSlots(args)
           S == {n \in Nat : n <= k =>
                   f[n].kind = kind /\ f[n].count = n /\ f[n].offset = slot[n + 1]}
<1>1. /\ f[0] = StartCall(m, kind)
      /\ \A n \in 1 .. k : f[n] = PushArg(f[n - 1], args[n].words, args[n].type)
  BY DEF PushedBy
<1>2. slot[1] = 0 /\ \A i \in 1 .. k : slot[i + 1] = slot[i] + SlotsOf(args[i].type)
  BY SlotsOfValues
<1>3. k \in Nat
  BY DEF AreValues
<1> HIDE DEF k, slot
<1>4. 0 \in S
  BY <1>1, <1>2 DEF StartCall
<1>5. ASSUME NEW n \in S
      PROVE  n + 1 \in S
  <2>. SUFFICES ASSUME n + 1 <= k
                PROVE  /\ f[n + 1].kind = kind /\ f[n + 1].count = n + 1
                       /\ f[n + 1].offset = slot[(n + 1) + 1]
    OBVIOUS
  <2>1. n \in Nat /\ f[n].kind = kind /\ f[n].count = n /\ f[n].offset = slot[n + 1]
    BY <1>3
  <2>2. n + 1 \in 1 .. k /\ (n + 1) - 1 = n
    BY <1>3, <2>1
  <2>3. f[n + 1] = PushArg(f[n], args[n + 1].words, args[n + 1].type)
    BY <1>1, <2>2
  <2>4. slot[(n + 1) + 1] = slot[n + 1] + SlotsOf(args[n + 1].type)
    BY <1>2, <2>2
  <2>. QED  BY <2>1, <2>3, <2>4 DEF PushArg
<1>6. S = Nat
  <2>1. S \in SUBSET Nat
    OBVIOUS
  <2> HIDE DEF S
  <2>. QED  BY <1>4, <1>5, <2>1, Induction
<1>7. ASSUME NEW n \in 0 .. k
      PROVE  f[n].kind = kind /\ f[n].count = n /\ f[n].offset = slot[n + 1]
  <2>1. n \in S /\ n <= k
    BY <1>3, <1>6
  <2>. QED  BY <2>1
<1>. QED  BY <1>7 DEF k, slot

\* The first n arguments are where a frame has its slots, from start on.
InSlots(stack, contexts, start, args, n) ==
  \A i \in 1 .. n :
    LET at == start + ArgSlots(args)[i]
    IN  /\ contexts[at] = OwningContext(args[i].type)
        /\ \A j \in 1 .. SlotsOf(args[i].type) : stack[at + j - 1] = args[i].words[j]

\* So are all of them when they have been pushed, if they fit, and for a C function their
\* offsets are behind them.
LEMMA PushedArgsArrive ==
  ASSUME NEW m, IsThread(m), IsStack(m.stack), DOMAIN m.contexts = Memory, m.next \in Nat,
         NEW kind, NEW args, AreValues(args),
         m.next + RESERVED_SLOTS + ArgSlots(args)[Len(args) + 1] <= StackSlots,
         kind # "script" =>
           m.next + RESERVED_SLOTS + ArgSlots(args)[Len(args) + 1] + 2 <= StackSlots
  PROVE  LET p == PushedArgs(m, kind, args).m
             start == m.next + RESERVED_SLOTS
             slot == ArgSlots(args)
         IN  /\ IsStack(p.stack) /\ DOMAIN p.contexts = Memory
             /\ InSlots(p.stack, p.contexts, start, args, Len(args))
             /\ kind # "script" /\ Len(args) > 0 =>
                  p.stack[start + slot[Len(args) + 1] + 1] =
                    <<"offsets", [i \in 1 .. Len(args) |-> slot[i]]>>
<1> DEFINE k == Len(args)
           slot == ArgSlots(args)
           start == m.next + RESERVED_SLOTS
           first(n) == [i \in 1 .. n |-> slot[i]]
           Good(q, n) == /\ Like(m, q) /\ IsStack(q.stack) /\ DOMAIN q.contexts = Memory
                         /\ InSlots(q.stack, q.contexts, start, args, n)
                         /\ kind # "script" /\ n > 0 =>
                              q.stack[start + slot[n + 1] + 1] = <<"offsets", first(n)>>
<1>0. k \in Nat /\ DOMAIN args = 1 .. k /\ \A i \in 1 .. k : IsValue(args[i])
  BY DEF AreValues
<1>1. PICK f : PushedBy(f, m, kind, args, k)
  BY <1>0, PushedOneByOne
<1>2. /\ f[0] = StartCall(m, kind)
      /\ \A n \in 1 .. k : f[n] = PushArg(f[n - 1], args[n].words, args[n].type)
      /\ PushedArgs(m, kind, args) = f[k]
  BY <1>1 DEF PushedBy
<1>3. \A n \in 0 .. k : f[n].kind = kind /\ f[n].count = n /\ f[n].offset = slot[n + 1]
  BY <1>1, PushedOffsets
<1>4. /\ slot[1] = 0
      /\ \A i \in 1 .. k : slot[i + 1] = slot[i] + SlotsOf(args[i].type)
      /\ \A i \in 1 .. k + 1 : slot[i] \in Nat
      /\ \A j \in 1 .. k + 1 : \A i \in 1 .. k : i < j => slot[i] + SlotsOf(args[i].type) <= slot[j]
      /\ \A i \in 1 .. k : SlotsOf(args[i].type) \in Nat \ {0}
  BY SlotsOfValues
<1>5. start \in Nat /\ start + slot[k + 1] <= StackSlots
      /\ (kind # "script" => start + slot[k + 1] + 2 <= StackSlots)
  BY DEF RESERVED_SLOTS
<1> HIDE DEF k, slot, start
<1>6. /\ StackSlots \in Nat /\ \A a \in Memory : a \in Nat
      /\ \A a \in Nat : a < StackSlots => a \in Memory
  BY StackAssumption DEF Memory
<1> DEFINE S == {n \in Nat : n <= k => Good(f[n].m, n)}
<1>7. 0 \in S
  <2>1. f[0].m = m
    BY <1>2 DEF StartCall
  <2>2. Like(m, m)
    BY LikeExcept
  <2>3. InSlots(m.stack, m.contexts, start, args, 0)
    BY DEF InSlots
  <2>4. Good(m, 0)
    BY <2>2, <2>3
  <2> HIDE DEF Good
  <2>. QED  BY <2>1, <2>4
<1>8. ASSUME NEW n \in S
      PROVE  n + 1 \in S
  <2>. SUFFICES ASSUME n + 1 <= k
                PROVE  Good(f[n + 1].m, n + 1)
    <3> HIDE DEF Good
    <3>. QED  OBVIOUS
  <2> DEFINE c == f[n]
             q == c.m
             v == args[n + 1]
             r == f[n + 1].m
             at == start + slot[n + 1]
             end == at + SlotsOf(v.type)
  <2>1. n \in Nat /\ n <= k /\ n + 1 \in 1 .. k /\ (n + 1) - 1 = n /\ n \in 0 .. k /\ n + 1 \in 1 .. k + 1
    BY <1>0
  <2>2. Good(q, n)
    <3> HIDE DEF Good
    <3>. QED  BY <2>1
  <2>3. c.kind = kind /\ c.count = n /\ c.offset = slot[n + 1]
    BY <1>3, <2>1
  <2>4. f[n + 1] = PushArg(c, v.words, v.type)
    BY <1>2, <2>1
  <2>5. /\ slot[n + 1] \in Nat /\ SlotsOf(v.type) \in Nat \ {0}
        /\ slot[(n + 1) + 1] = slot[n + 1] + SlotsOf(v.type) /\ slot[(n + 1) + 1] \in Nat
        /\ end = start + slot[(n + 1) + 1]
        /\ slot[(n + 1) + 1] <= slot[k + 1]
    <3>1. (n + 1) + 1 \in 1 .. k + 1
      BY <1>0, <2>1
    <3>2. (n + 1) + 1 = k + 1 \/ (n + 1) + 1 \in 1 .. k
      BY <1>0, <2>1
    <3>3. (n + 1) + 1 \in 1 .. k =>
            slot[(n + 1) + 1] + SlotsOf(args[(n + 1) + 1].type) <= slot[k + 1]
      <4>1. k + 1 \in 1 .. k + 1 /\ ((n + 1) + 1 \in 1 .. k => (n + 1) + 1 < k + 1)
        BY <1>0
      <4>. QED  BY <1>4, <4>1
    <3>4. /\ slot[n + 1] \in Nat /\ SlotsOf(v.type) \in Nat \ {0}
          /\ slot[(n + 1) + 1] = slot[n + 1] + SlotsOf(v.type) /\ slot[(n + 1) + 1] \in Nat
          /\ slot[k + 1] \in Nat
          /\ (n + 1) + 1 \in 1 .. k => SlotsOf(args[(n + 1) + 1].type) \in Nat
      <4>1. k + 1 \in 1 .. k + 1
        BY <1>0
      <4>. QED  BY <1>4, <2>1, <3>1, <4>1
    <3>5. end = start + slot[(n + 1) + 1]
      BY <1>5, <3>4
    <3>6. slot[(n + 1) + 1] <= slot[k + 1]
      BY <3>2, <3>3, <3>4
    <3>. QED  BY <3>4, <3>5, <3>6
  <2>6. n > 0 => slot[n + 1] > 0
    <3>1. n > 0 => 1 \in 1 .. k /\ 1 < n + 1
      BY <1>0, <2>1
    <3>2. n > 0 => slot[1] + SlotsOf(args[1].type) <= slot[n + 1] /\ SlotsOf(args[1].type) \in Nat \ {0}
      BY <1>4, <2>1, <3>1
    <3>. QED  BY <1>4, <2>5, <3>2
  <2>7. /\ IsThread(q) /\ IsStack(q.stack) /\ DOMAIN q.contexts = Memory /\ q.next = m.next
        /\ InSlots(q.stack, q.contexts, start, args, n)
        /\ kind # "script" /\ n > 0 => q.stack[at + 1] = <<"offsets", first(n)>>
    BY <2>2 DEF Like
  <2>8. q.next + RESERVED_SLOTS + c.offset = at
    BY <2>3, <2>7 DEF start
  <2> HIDE DEF Good
  <2>9. c.offset > 0 <=> c.count > 0
    <3>1. n = 0 => slot[n + 1] = 0
      BY <1>4
    <3>. QED  BY <2>1, <2>3, <2>6, <3>1
  <2>10. IsValue(v) /\ end <= StackSlots /\ at \in Nat /\ end \in Nat /\ at < end
    <3>1. IsValue(v)
      BY <1>0, <2>1
    <3>2. slot[k + 1] \in Nat
      <4>1. k + 1 \in 1 .. k + 1
        BY <1>0
      <4>. QED  BY <1>4, <4>1
    <3>3. at \in Nat /\ end \in Nat /\ at < end
      BY <1>5, <2>5
    <3>4. end <= start + slot[k + 1]
      BY <1>5, <2>5, <3>2
    <3>5. start + slot[k + 1] <= StackSlots
      BY <1>5
    <3> HIDE DEF at, end, v
    <3>. QED  BY <1>5, <1>6, <3>1, <3>2, <3>3, <3>4, <3>5
  <2>11. kind # "script" => end + 1 \in Memory
    <3>1. kind # "script" => end + 2 <= StackSlots
      <4>1. slot[k + 1] \in Nat
        <5>1. k + 1 \in 1 .. k + 1
          BY <1>0
        <5>. QED  BY <1>4, <5>1
      <4>. QED  BY <1>5, <1>6, <2>5, <4>1
    <3>. QED  BY <1>6, <2>10, <3>1
  <2> HIDE DEF c, q, r, v, at, end
  <2>12. c.m = q /\ c.offset \in Nat /\ c.count \in Nat /\ r = PushArg(c, v.words, v.type).m
    BY <2>1, <2>3, <2>4, <2>5 DEF q, r, c
  <2>13. end = q.next + RESERVED_SLOTS + c.offset + SlotsOf(v.type)
    BY <2>8 DEF end
  <2>14. /\ IsStack(r.stack) /\ DOMAIN r.contexts = Memory
         /\ \A a \in Memory : a < at => r.stack[a] = q.stack[a] /\ r.contexts[a] = q.contexts[a]
         /\ r.contexts[at] = OwningContext(v.type)
         /\ \A j \in 1 .. SlotsOf(v.type) : r.stack[at + j - 1] = v.words[j]
         /\ kind # "script" =>
              r.stack[end + 1] = <<"offsets", Append(IF c.count = 0 THEN << >> ELSE q.stack[at + 1][2],
                                                     c.offset)>>
    <3> DEFINE at1 == q.next + RESERVED_SLOTS + c.offset
               end1 == at1 + SlotsOf(v.type)
               offsets == IF c.count = 0 THEN << >> ELSE q.stack[at1 + 1][2]
    <3>1. /\ IsStack(r.stack) /\ DOMAIN r.contexts = Memory
          /\ \A a \in Memory : a < at1 => r.stack[a] = q.stack[a] /\ r.contexts[a] = q.contexts[a]
          /\ r.contexts[at1] = OwningContext(v.type)
          /\ \A j \in 1 .. SlotsOf(v.type) : r.stack[at1 + j - 1] = v.words[j]
          /\ c.kind # "script" /\ end1 + 1 \in Memory =>
               r.stack[end1 + 1] = <<"offsets", Append(offsets, c.offset)>>
      <4>1. /\ IsThread(c.m) /\ IsStack(c.m.stack) /\ DOMAIN c.m.contexts = Memory
            /\ c.m.next \in Nat /\ c.offset \in Nat /\ c.count \in Nat
            /\ c.m.next + RESERVED_SLOTS + c.offset + SlotsOf(v.type) <= StackSlots
        BY <2>7, <2>10, <2>12, <2>13
      <4>2. c.offset > 0 <=> c.count > 0
        BY <2>9
      <4>3. IsValue(v)
        BY <2>10
      <4>4. LET p == PushArg(c, v.words, v.type).m
                at0 == c.m.next + RESERVED_SLOTS + c.offset
                end0 == at0 + SlotsOf(v.type)
                list == IF c.count = 0 THEN << >> ELSE c.m.stack[at0 + 1][2]
            IN  /\ IsStack(p.stack) /\ DOMAIN p.contexts = Memory
                /\ \A a \in Memory : a < at0 => p.stack[a] = c.m.stack[a] /\ p.contexts[a] = c.m.contexts[a]
                /\ p.contexts[at0] = OwningContext(v.type)
                /\ \A j \in 1 .. SlotsOf(v.type) : p.stack[at0 + j - 1] = v.words[j]
                /\ c.kind # "script" /\ end0 + 1 \in Memory =>
                     p.stack[end0 + 1] = <<"offsets", Append(list, c.offset)>>
        BY <4>1, <4>2, <4>3, PushedArg, Zenon
      <4>5. c.m = q /\ r = PushArg(c, v.words, v.type).m
        BY <2>12
      <4>. QED  BY <4>4, <4>5, Zenon
    <3>2. at1 = at
      BY <2>8, Zenon
    <3>4. end1 = end
      BY <2>13, Zenon
    <3>. QED  BY <2>3, <2>11, <3>1, <3>2, <3>4
  <2>15. Like(m, r)
    <3>1. Like(q, r)
      BY <2>7, <2>12, LikePushArg
    <3>2. Like(m, q)
      BY <2>2 DEF Good
    <3>. QED  BY <3>1, <3>2, LikeTransitive
  <2>16. InSlots(r.stack, r.contexts, start, args, n + 1)
    <3>1. ASSUME NEW i \in 1 .. n + 1
          PROVE  LET to == start + slot[i]
                 IN  /\ r.contexts[to] = OwningContext(args[i].type)
                     /\ \A j \in 1 .. SlotsOf(args[i].type) : r.stack[to + j - 1] = args[i].words[j]
      <4>1. CASE i = n + 1
        BY <2>14, <4>1 DEF at, v
      <4>2. CASE i # n + 1
        <5> DEFINE to == start + slot[i]
                   size == SlotsOf(args[i].type)
        <5>1. i \in 1 .. n /\ i \in 1 .. k /\ i < n + 1 /\ i \in 1 .. k + 1
          BY <1>0, <2>1, <4>2
        <5>2. size \in Nat \ {0} /\ slot[i] \in Nat /\ slot[i] + size <= slot[n + 1]
          BY <1>4, <2>1, <5>1
        <5>3. to \in Nat /\ to + size <= at /\ size \in Nat \ {0}
          <6>1. at = start + slot[n + 1] /\ slot[n + 1] \in Nat
            BY <2>5 DEF at
          <6>2. start \in Nat
            BY <1>5
          <6>3. \A x, y, z, w \in Nat : y + z <= w => x + y \in Nat /\ (x + y) + z <= x + w
            OBVIOUS
          <6> HIDE DEF size
          <6>. QED  BY <5>2, <6>1, <6>2, <6>3, Zenon
        <5>4. /\ q.contexts[to] = OwningContext(args[i].type)
              /\ \A j \in 1 .. size : q.stack[to + j - 1] = args[i].words[j]
          BY <2>7, <5>1 DEF InSlots, slot
        <5> HIDE DEF to, size
        <5>5. to < at /\ to \in Memory
          BY <1>6, <2>10, <5>3
        <5>6. ASSUME NEW j \in 1 .. size
              PROVE  r.stack[to + j - 1] = args[i].words[j]
          <6>1. to + j - 1 \in Nat /\ to + j - 1 < at
            BY <2>10, <5>3
          <6>2. to + j - 1 \in Memory
            BY <1>6, <2>10, <6>1
          <6>. QED  BY <2>14, <5>4, <6>1, <6>2
        <5>7. r.contexts[to] = OwningContext(args[i].type)
          BY <2>14, <5>4, <5>5
        <5>. QED  BY <5>6, <5>7 DEF to, size
      <4>. QED  BY <4>1, <4>2
    <3>. QED  BY <3>1 DEF InSlots, slot
  <2>17. kind # "script" => r.stack[start + slot[(n + 1) + 1] + 1] = <<"offsets", first(n + 1)>>
    <3>1. kind # "script" /\ c.count # 0 => q.stack[at + 1][2] = first(n)
      <4> HIDE DEF first
      <4>. QED  BY <2>1, <2>3, <2>7
    <3>2. Append(IF n = 0 THEN << >> ELSE first(n), slot[n + 1]) = first(n + 1)
      <4>1. \A i \in 1 .. n + 1 : slot[i] \in Nat
        <5>1. \A i \in 1 .. n + 1 : i \in 1 .. k + 1
          BY <1>0, <2>1
        <5>. QED  BY <1>4, <5>1
      <4>. QED  BY <2>1, <4>1, OneMore
    <3> HIDE DEF first
    <3>. QED  BY <2>3, <2>5, <2>14, <3>1, <3>2
  <2>. QED  BY <2>14, <2>15, <2>16, <2>17 DEF Good, r
<1>9. S = Nat
  <2>1. S \in SUBSET Nat
    OBVIOUS
  <2> HIDE DEF S
  <2>. QED  BY <1>7, <1>8, <2>1, Induction
<1>10. Good(f[k].m, k)
  <2>1. k \in S
    BY <1>0, <1>9
  <2> HIDE DEF Good
  <2>. QED  BY <1>0, <2>1
<1> DEFINE p == PushedArgs(m, kind, args).m
<1>11. p = f[k].m
  BY <1>2
<1> HIDE DEF p
<1>. QED  BY <1>10, <1>11 DEF p, k, slot, start
-----------------------------------------------------------------------------
(***************************************************************************)
(* Arguments: calls and returns.                                           *)
(***************************************************************************)

\* A sequence of values: the local variables of a C function.
AreLocals(locals) == \E S : locals \in Seq(S) /\ \A v \in S : IsValue(v)

\* A call passed values, has some as local variables, and returns outside of its frame.
CallArgs(c) ==
  /\ AreValues(c.args) /\ AreLocals(c.locals)
  /\ Elsewhere(c.frame.returnValue, c.frame.base) /\ c.frame.returnContext = c.frame.returnValue
  /\ program.functions[c.function].kind = "c" =>
       c.offset = c.frame.length /\ c.offset = ArgSlots(c.args)[Len(c.args) + 1]

\* Behind the arguments of a C function are their offsets, which lead to those that have
\* not been taken, or, once it has called another function, the length of its frame.
Tracked(stack, contexts, c) ==
  LET n == Len(c.args)
      slot == ArgSlots(c.args)
      start == c.frame.base + RESERVED_SLOTS
      word == stack[start + c.offset + 1]
  IN  program.functions[c.function].kind = "c" /\ n > 0 =>
        /\ word[1] = "offsets" =>
             /\ word[2] = [i \in 1 .. n |-> slot[i]]
             /\ \A i \in 1 .. n :
                  /\ contexts[start + slot[i]].type \in {c.args[i].type, "none"}
                  /\ \A j \in 1 .. SlotsOf(c.args[i].type) :
                       stack[start + slot[i] + j - 1] = c.args[i].words[j]
        /\ word[1] # "offsets" => word = <<"length", c.frame.length>> /\ HasCalled(c)

ArgsOK(m) ==
  /\ \A i \in 1 .. Len(m.calls) : CallArgs(m.calls[i])
  /\ m.calls # << >> => Tracked(m.stack, m.contexts, Top(m))

\* What is invariant of a thread, and what a step makes of it.
Argued(m) == m.status # "aborted" => ArgsOK(m)

Arrives(m, s) ==
  s.status # "aborted" => ArgsOK(s) /\ (Len(s.calls) > Len(m.calls) => ArgsInSlots(s))

\* The thread when a call has been made.
LEMMA CallMade ==
  ASSUME NEW m, IsThread(m), NEW f, NEW resume, NEW args, AreValues(args), NEW returnDst,
         Call(m, f, args, returnDst, resume).status # "aborted"
  PROVE  LET kind == program.functions[f].kind
             space == program.functions[f].space
             pushed == PushedArgs(m, kind, args)
             length == IF kind = "script" THEN space ELSE pushed.offset
             s == PushFrame(pushed.m, length, returnDst, returnDst)
             r == Call(m, f, args, returnDst, resume)
         IN  /\ Like(m, pushed.m) /\ r.stack = s.stack /\ r.contexts = pushed.m.contexts
             /\ r.next = m.next + length + RESERVED_SLOTS
             /\ r.frame = [base |-> m.next, length |-> length,
                           returnValue |-> returnDst, returnContext |-> returnDst]
             /\ r.calls = Append(m.calls, [function |-> f, resume |-> resume, frame |-> r.frame,
                                           args |-> args, offset |-> pushed.offset, pc |-> 1,
                                           locals |-> << >>])
             /\ kind # "c" => pushed.offset <= space
             /\ r.status \in {m.status, "aborted"}
<1> DEFINE fn == program.functions[f]
           pushed == PushedArgs(m, fn.kind, args)
           x == pushed.m
           length == IF fn.kind = "script" THEN fn.space ELSE pushed.offset
           s == PushFrame(x, length, returnDst, returnDst)
           frame == [base |-> x.next, length |-> length, returnValue |-> returnDst,
                     returnContext |-> returnDst]
           c == [function |-> f, resume |-> resume, frame |-> s.frame, args |-> args,
                 offset |-> pushed.offset, pc |-> 1, locals |-> << >>]
           ip == IF fn.kind = "script" THEN [function |-> f, at |-> 1] ELSE s.ip
           calls == Append(s.calls, c)
           r == [s EXCEPT !.ip = ip, !.calls = calls]
           may == /\ fn.kind = "c" \/ (pushed.count = Len(fn.args) /\ pushed.offset <= fn.space)
                  /\ s.frame.length <= MaxFrameLength
<1>1. Call(m, f, args, returnDst, resume) = Checked(s, may, r)
  BY Zenon DEF Call, Entered
<1>2. Like(m, x) /\ IsThread(x)
  <2>1. Like(m, x)
    BY LikePushedArgs DEF AreValues
  <2>. QED  BY <2>1 DEF Like
<1>3. /\ IsThread(s) /\ s.calls = x.calls /\ s.status = x.status /\ s.contexts = x.contexts
      /\ s.frame = frame /\ s.next = x.next + length + RESERVED_SLOTS
  <2>1. PICK stack : s = [x EXCEPT !.stack = stack, !.frame = frame,
                                   !.next = x.next + length + RESERVED_SLOTS]
    <3> HIDE DEF x, length
    <3>. QED  BY Zenon DEF PushFrame
  <2> HIDE DEF s, length, frame, x
  <2>. QED  BY <1>2, <2>1 DEF IsThread, Fields, IsPointer
<1> HIDE DEF s, frame
<1>4. may
  <2>1. ~may => Checked(s, may, r) = [s EXCEPT !.status = "aborted"]
    <3> HIDE DEF may, r
    <3>. QED  BY DEF Checked
  <2>2. [s EXCEPT !.status = "aborted"].status = "aborted"
    BY <1>3 DEF IsThread, Fields
  <2> HIDE DEF may, r
  <2>. QED  BY <1>1, <2>1, <2>2
<1>5. Call(m, f, args, returnDst, resume) = r
  <2> HIDE DEF may, r
  <2>. QED  BY <1>1, <1>4 DEF Checked
<1>6. /\ r.stack = s.stack /\ r.contexts = s.contexts /\ r.next = s.next /\ r.frame = s.frame
      /\ r.calls = calls /\ r.status = s.status
  <2> HIDE DEF calls, ip
  <2>. QED  BY <1>3 DEF IsThread, Fields
<1>7. x.next = m.next /\ x.calls = m.calls /\ x.status \in {m.status, "aborted"}
  BY <1>2 DEF Like
<1>8. fn.kind # "c" => pushed.offset <= fn.space
  BY <1>4
<1> HIDE DEF r, may, x, length
<1>9. r.calls = Append(m.calls, [c EXCEPT !.frame = r.frame])
  BY <1>3, <1>6, <1>7
<1>. QED  BY <1>2, <1>3, <1>5, <1>6, <1>7, <1>8, <1>9 DEF x, length, s, frame

\* The frame that is pushed begins with what is saved, and its slots are as they were.
LEMMA SlotsBehind ==
  ASSUME NEW x, IsThread(x), IsStack(x.stack), x.next \in Nat, NEW length, NEW dst
  PROVE  LET s == PushFrame(x, length, dst, dst)
         IN  \A a \in Memory : a >= x.next + RESERVED_SLOTS => s.stack[a] = x.stack[a]
<1> DEFINE saved == IF x.next = 0
                    THEN << <<"ip", NULL>>, <<"length", 0>>, <<"address", NULL>>, <<"address", NULL>> >>
                    ELSE << <<"ip", x.ip>>, <<"length", x.frame.length>>,
                            <<"address", x.frame.returnValue>>, <<"address", x.frame.returnContext>> >>
           stack == Copied(x.stack, x.next, saved)
           s == PushFrame(x, length, dst, dst)
           A == {a \in Memory : a >= x.next + RESERVED_SLOTS}
<1>1. PICK frame, next : s = [x EXCEPT !.stack = stack, !.frame = frame, !.next = next]
  BY Zenon DEF PushFrame
<1>2. Len(saved) = 4
  OBVIOUS
<1> HIDE DEF saved
<1>3. \A a \in A : ~(x.next <= a /\ a < x.next + Len(saved))
  BY <1>2, StackAssumption DEF Memory, RESERVED_SLOTS
<1>4. Kept(x.stack, stack, A)
  <2> HIDE DEF A
  <2>1. A \in SUBSET Memory
    BY DEF A
  <2>. QED  BY <1>3, <2>1, KeptCopied
<1> HIDE DEF stack, s
<1>5. s.stack = stack
  BY <1>1 DEF IsThread, Fields
<1>. QED  BY <1>4, <1>5 DEF Kept, s

\* The words and contexts of values that are in their slots.
LEMMA ValuesInSlots ==
  ASSUME NEW r, NEW args, AreValues(args), NEW start \in Nat,
         start + ArgSlots(args)[Len(args) + 1] <= StackSlots,
         InSlots(r.stack, r.contexts, start, args, Len(args)),
         start = r.frame.base + RESERVED_SLOTS, r.frame.base \in Nat
  PROVE  \A i \in 1 .. Len(args) : /\ ContextAt(r, ArgSlots(args)[i]) = args[i].type
                                   /\ ValueAt(r, ArgSlots(args)[i]) = args[i].words
<1>. SUFFICES ASSUME NEW i \in 1 .. Len(args)
              PROVE  /\ ContextAt(r, ArgSlots(args)[i]) = args[i].type
                     /\ ValueAt(r, ArgSlots(args)[i]) = args[i].words
  OBVIOUS
<1> DEFINE slot == ArgSlots(args)[i]
           v == args[i]
           at == start + slot
<1>1. slot \in Nat
  <2>1. Len(args) \in Nat
    BY DEF AreValues
  <2>2. i \in 1 .. Len(args) + 1
    BY <2>1
  <2>. QED  BY <2>2, SlotsOfValues
<1>2. /\ r.contexts[at] = OwningContext(v.type)
      /\ \A j \in 1 .. SlotsOf(v.type) : r.stack[at + j - 1] = v.words[j]
  BY DEF InSlots
<1>3. IsValue(v)
  BY DEF AreValues
<1> HIDE DEF slot, v
<1>4. At(r, slot) = at
  BY <1>1 DEF At, RESERVED_SLOTS
<1>5. ContextAt(r, slot) = v.type
  BY <1>2, <1>4 DEF ContextAt, OwningContext
<1>6. ValueAt(r, slot) = [j \in 1 .. SlotsOf(v.type) |-> r.stack[at + j - 1]]
  BY <1>4, <1>5 DEF ValueAt, WordsAt
<1>7. [j \in 1 .. SlotsOf(v.type) |-> r.stack[at + j - 1]] = [j \in 1 .. SlotsOf(v.type) |-> v.words[j]]
  <2> HIDE DEF at
  <2>. QED  BY <1>2
<1>8. ValueAt(r, slot) = v.words
  BY <1>3, <1>6, <1>7 DEF IsValue
<1>. QED  BY <1>5, <1>8 DEF slot, v

\* The function that has been called has its arguments in its slots.
LEMMA CallArrives ==
  ASSUME NEW m, IsThread(m), IsSeq(m.calls), FramesOK(m), DOMAIN m.contexts = Memory, WellFormed(program),
         \A i \in 1 .. Len(m.calls) : CallArgs(m.calls[i]),
         NEW f \in DOMAIN program.functions, NEW resume, NEW args, AreValues(args),
         NEW returnDst, Elsewhere(returnDst, m.next), m.status = "running",
         LET r == Call(m, f, args, returnDst, resume)
         IN  /\ r.next \in 0 .. StackSlots
             /\ r.status = "running" /\ program.functions[Top(r).function].kind = "c" =>
                  r.next + 2 <= StackSlots
  PROVE  Arrives(m, Call(m, f, args, returnDst, resume))
<1> DEFINE kind == program.functions[f].kind
           space == program.functions[f].space
           pushed == PushedArgs(m, kind, args)
           p == pushed.m
           length == IF kind = "script" THEN space ELSE pushed.offset
           s == PushFrame(p, length, returnDst, returnDst)
           r == Call(m, f, args, returnDst, resume)
           k == Len(args)
           slot == ArgSlots(args)
           start == m.next + RESERVED_SLOTS
           c == [function |-> f, resume |-> resume, frame |-> r.frame, args |-> args,
                 offset |-> pushed.offset, pc |-> 1, locals |-> << >>]
<1>. SUFFICES ASSUME r.status # "aborted"
              PROVE  /\ \A i \in 1 .. Len(r.calls) : CallArgs(r.calls[i])
                     /\ Tracked(r.stack, r.contexts, Top(r))
                     /\ ArgsInSlots(r)
  BY DEF Arrives, ArgsOK
<1>1. /\ Like(m, p) /\ r.stack = s.stack /\ r.contexts = p.contexts
      /\ r.next = m.next + length + RESERVED_SLOTS
      /\ r.frame = [base |-> m.next, length |-> length,
                    returnValue |-> returnDst, returnContext |-> returnDst]
      /\ r.calls = Append(m.calls, c)
      /\ kind # "c" => pushed.offset <= space
      /\ r.status \in {m.status, "aborted"}
  BY CallMade
<1>2. k \in Nat /\ m.next \in Nat /\ IsStack(m.stack)
  BY NextFree DEF AreValues, FramesOK
<1>3. pushed.offset = slot[k + 1]
  <2>1. PICK g : PushedBy(g, m, kind, args, k)
    BY <1>2, PushedOneByOne DEF AreValues
  <2>2. pushed = g[k]
    BY <2>1 DEF PushedBy
  <2>3. k \in 0 .. k
    BY <1>2
  <2> HIDE DEF pushed, k, slot
  <2>4. \A n \in 0 .. k : g[n].offset = slot[n + 1]
    BY <2>1, PushedOffsets DEF k, slot
  <2>. QED  BY <2>2, <2>3, <2>4
<1>4. /\ \A i \in 1 .. k + 1 : slot[i] \in Nat
      /\ slot[k + 1] \in Nat
  <2>1. k + 1 \in 1 .. k + 1
    BY <1>2
  <2> HIDE DEF k, slot
  <2>2. \A i \in 1 .. k + 1 : slot[i] \in Nat
    BY SlotsOfValues DEF k, slot
  <2>. QED  BY <2>1, <2>2
<1>5. kind \in {"c", "script"} /\ (kind = "script" => space \in Nat)
  BY DEF WellFormed, WellFormedFunction
<1> HIDE DEF pushed, p, s, r, slot, k, kind, space
<1>6. length \in Nat /\ (kind = "c" => length = slot[k + 1]) /\ slot[k + 1] <= length
  BY <1>1, <1>3, <1>4, <1>5
<1> HIDE DEF length
<1>7. /\ IsSeq(m.calls) /\ Len(m.calls) \in Nat /\ Len(r.calls) = Len(m.calls) + 1
      /\ \A i \in 1 .. Len(m.calls) : r.calls[i] = m.calls[i]
      /\ r.calls[Len(m.calls) + 1] = c /\ Top(r) = c
  <2> HIDE DEF c
  <2>. QED  BY <1>1, SeqAppend DEF Top
<1>8. r.next = start + length /\ start \in Nat /\ start + length <= StackSlots /\ StackSlots \in Nat
  BY <1>1, <1>2, <1>6, StackAssumption DEF RESERVED_SLOTS, r
<1>9. start + slot[k + 1] <= StackSlots
  <2> HIDE DEF start
  <2>. QED  BY <1>4, <1>6, <1>8
<1>10. kind # "script" => start + slot[k + 1] + 2 <= StackSlots
  <2>1. r.status = "running" /\ program.functions[Top(r).function].kind = kind
    BY <1>1, <1>7 DEF kind
  <2>2. kind = "c" => r.next + 2 <= StackSlots
    BY <2>1 DEF r
  <2> HIDE DEF start
  <2>. QED  BY <1>4, <1>5, <1>6, <1>8, <2>2
<1>11. /\ IsStack(p.stack) /\ InSlots(p.stack, p.contexts, start, args, k)
       /\ kind # "script" /\ k > 0 =>
            p.stack[start + slot[k + 1] + 1] = <<"offsets", [i \in 1 .. k |-> slot[i]]>>
  BY <1>2, <1>9, <1>10, PushedArgsArrive DEF pushed, p, slot, k
<1>12. \A a \in Memory : a >= start => r.stack[a] = p.stack[a]
  <2>1. IsThread(p) /\ p.next = m.next
    BY <1>1 DEF Like
  <2>. QED  BY <1>1, <1>2, <1>11, <2>1, SlotsBehind DEF s
<1> HIDE DEF start
<1>13. \A a \in Nat : a >= start /\ a < StackSlots => a \in Memory /\ r.stack[a] = p.stack[a]
  BY <1>8, <1>12, StackAssumption DEF Memory
<1>14. InSlots(r.stack, r.contexts, start, args, k)
  <2>. SUFFICES ASSUME NEW i \in 1 .. k
                PROVE  LET at == start + slot[i]
                       IN  /\ r.contexts[at] = OwningContext(args[i].type)
                           /\ \A j \in 1 .. SlotsOf(args[i].type) : r.stack[at + j - 1] = args[i].words[j]
    BY DEF InSlots, slot
  <2> DEFINE at == start + slot[i]
             size == SlotsOf(args[i].type)
  <2>1. size \in Nat \ {0} /\ slot[i] \in Nat /\ slot[i] + size <= slot[k + 1]
    <3>1. k + 1 \in 1 .. k + 1 /\ i \in 1 .. k + 1 /\ i < k + 1
      BY <1>2
    <3>2. /\ \A j \in 1 .. k + 1 : \A h \in 1 .. k : h < j => slot[h] + SlotsOf(args[h].type) <= slot[j]
          /\ \A h \in 1 .. k : SlotsOf(args[h].type) \in Nat \ {0}
      BY SlotsOfValues DEF slot, k
    <3>. QED  BY <1>4, <3>1, <3>2
  <2>2. p.contexts[at] = OwningContext(args[i].type) /\ \A j \in 1 .. size : p.stack[at + j - 1] = args[i].words[j]
    BY <1>11 DEF InSlots, slot
  <2> HIDE DEF size
  <2>3. ASSUME NEW j \in 1 .. size
        PROVE  r.stack[at + j - 1] = args[i].words[j]
    <3> DEFINE a == at + j - 1
    <3>1. a \in Nat /\ a >= start /\ a < StackSlots
      <4> DEFINE x == slot[i]
                 y == slot[k + 1]
      <4>1. x \in Nat /\ y \in Nat /\ x + size <= y /\ start + y <= StackSlots /\ start \in Nat
            /\ StackSlots \in Nat /\ size \in Nat /\ a = start + x + j - 1
        BY <1>4, <1>8, <1>9, <2>1
      <4> HIDE DEF a, x, y
      <4>. QED  BY <4>1
    <3> HIDE DEF a
    <3>2. r.stack[a] = p.stack[a]
      BY <1>13, <3>1
    <3>. QED  BY <2>2, <3>2 DEF a
  <2>. QED  BY <1>1, <2>2, <2>3 DEF size
<1>15. ArgsInSlots(r)
  <2>1. r.frame.base = m.next
    BY <1>1
  <2>2. \A i \in 1 .. Len(args) : /\ ContextAt(r, ArgSlots(args)[i]) = args[i].type
                                  /\ ValueAt(r, ArgSlots(args)[i]) = args[i].words
    <3>1. start = r.frame.base + RESERVED_SLOTS /\ r.frame.base \in Nat
      BY <1>2, <2>1 DEF start
    <3>. QED  BY <1>8, <1>9, <1>14, <3>1, ValuesInSlots DEF k, slot
  <2>3. Top(r).args = args
    BY <1>7
  <2>. QED  BY <2>2, <2>3 DEF ArgsInSlots
<1>16. CallArgs(c)
  <2>1. AreLocals(<< >>)
    <3> DEFINE S == {}
    <3>1. << >> \in Seq(S) /\ \A v \in S : IsValue(v)
      OBVIOUS
    <3> HIDE DEF S
    <3>. QED  BY <3>1 DEF AreLocals
  <2>2. /\ r.frame.base = m.next /\ r.frame.length = length
        /\ r.frame.returnValue = returnDst /\ r.frame.returnContext = returnDst
    BY <1>1
  <2>3. kind = "c" => pushed.offset = length /\ pushed.offset = slot[k + 1]
    BY <1>3, <1>6
  <2>. QED  BY <2>1, <2>2, <2>3 DEF CallArgs, kind, slot, k
<1>17. Tracked(r.stack, r.contexts, c)
  <2> DEFINE word == r.stack[start + slot[k + 1] + 1]
  <2>. SUFFICES ASSUME kind = "c", k > 0
                PROVE  /\ word[1] = "offsets" /\ word[2] = [i \in 1 .. k |-> slot[i]]
                       /\ \A i \in 1 .. k :
                            /\ r.contexts[start + slot[i]].type = args[i].type
                            /\ \A j \in 1 .. SlotsOf(args[i].type) :
                                 r.stack[start + slot[i] + j - 1] = args[i].words[j]
    <3>1. /\ c.function = f /\ c.args = args /\ c.offset = slot[k + 1]
          /\ c.frame.base + RESERVED_SLOTS = start
      BY <1>1, <1>3 DEF start
    <3> HIDE DEF c
    <3>. QED  BY <3>1 DEF Tracked, kind, k, slot
  <2>1. word = <<"offsets", [i \in 1 .. k |-> slot[i]]>>
    <3> DEFINE a == start + slot[k + 1] + 1
    <3>1. a \in Nat /\ a >= start /\ a < StackSlots
      <4> DEFINE y == slot[k + 1]
      <4>1. y \in Nat /\ start \in Nat /\ start + y + 2 <= StackSlots /\ StackSlots \in Nat /\ a = start + y + 1
        BY <1>4, <1>8, <1>10
      <4> HIDE DEF a, y
      <4>. QED  BY <4>1
    <3> HIDE DEF a
    <3>2. r.stack[a] = p.stack[a]
      BY <1>13, <3>1
    <3>. QED  BY <1>11, <3>2 DEF a
  <2>2. word[1] = "offsets" /\ word[2] = [i \in 1 .. k |-> slot[i]]
    <3> HIDE DEF word
    <3>. QED  BY <2>1
  <2>3. \A i \in 1 .. k :
          /\ r.contexts[start + slot[i]] = OwningContext(args[i].type)
          /\ \A j \in 1 .. SlotsOf(args[i].type) :
               r.stack[start + slot[i] + j - 1] = args[i].words[j]
    BY <1>14, Zenon DEF InSlots, slot
  <2>4. \A type : OwningContext(type).type = type
    BY DEF OwningContext
  <2> HIDE DEF word
  <2>. QED  BY <2>2, <2>3, <2>4, Zenon
<1>18. \A i \in 1 .. Len(r.calls) : CallArgs(r.calls[i])
  <2>1. \A i \in 1 .. Len(r.calls) : i \in 1 .. Len(m.calls) \/ i = Len(m.calls) + 1
    BY <1>7
  <2> HIDE DEF c
  <2>. QED  BY <1>7, <1>16, <2>1
<1> HIDE DEF c
<1>. QED  BY <1>7, <1>15, <1>17, <1>18 DEF r

\* Another call of the same function, with the same arguments and local variables.
SameArgs(c, d) ==
  /\ d.function = c.function /\ d.frame = c.frame /\ d.args = c.args /\ d.offset = c.offset
  /\ d.locals = c.locals

\* The calls when a function has ended.
LEMMA LeftCalls ==
  ASSUME NEW m, IsThread(m), WellFormed(program), CallsOK(program, m.calls), m.calls # << >>, NEW err
  PROVE  LET r == Finished(PopFrame(Unwound(m)), err)
             n == Len(m.calls)
         IN  /\ r.stack = m.stack /\ IsSeq(r.calls) /\ Len(r.calls) = n - 1
             /\ \A i \in 1 .. n - 1 : SameArgs(m.calls[i], r.calls[i])
             /\ n > 1 /\ program.functions[r.calls[n - 1].function].kind = "c" =>
                  HasCalled(r.calls[n - 1])
<1> DEFINE u == Unwound(m)
           s == PopFrame(u)
           n == Len(m.calls)
           calls == Front(m.calls)
           k == Len(calls)
           r == Finished(s, err)
<1>1. IsThread(u) /\ u.calls = m.calls /\ u.stack = m.stack
  BY LikeUnwound DEF Like
<1> HIDE DEF u
<1>2. IsThread(s) /\ s.calls = m.calls /\ s.stack = u.stack
  <2>1. IsThread(s) /\ s.calls = u.calls
    BY <1>1, FramesKeepCalls DEF SameCalls
  <2>2. PICK next, frame : s \in {[u EXCEPT !.next = next], [u EXCEPT !.next = next, !.frame = frame]}
    <3>1. \/ \E next : s = [u EXCEPT !.next = next]
          \/ \E next, frame : s = [u EXCEPT !.next = next, !.frame = frame]
      BY Zenon DEF PopFrame
    <3> HIDE DEF s
    <3>. QED  BY <3>1
  <2> HIDE DEF s
  <2>3. s.stack = u.stack
    BY <1>1, <2>2 DEF IsThread, Fields
  <2>. QED  BY <1>1, <2>1, <2>3
<1> HIDE DEF s
<1>3. /\ CallsOK(program, calls) /\ n \in Nat \ {0} /\ k = n - 1
      /\ \A i \in 1 .. n - 1 : calls[i] = m.calls[i]
  BY CallsFront
<1>4. calls = Front(s.calls)
  BY <1>2
<1>5. \A c : SameArgs(c, c)
  BY DEF SameArgs
<1>6. CASE calls = << >>
  <2>1. PICK status : r = [s EXCEPT !.calls = calls, !.status = status]
    BY <1>4, <1>6, Zenon DEF Finished
  <2> HIDE DEF r, calls
  <2>2. r.calls = calls /\ r.stack = s.stack
    BY <1>2, <2>1 DEF IsThread, Fields
  <2>3. ~(n > 1)
    <3>1. k = 0
      BY <1>6
    <3> HIDE DEF k, n
    <3>. QED  BY <1>3, <3>1
  <2>. QED  BY <1>1, <1>2, <1>3, <1>5, <2>2, <2>3 DEF r, s, u, CallsOK
<1>7. CASE calls # << >> /\ program.functions[calls[k].function].kind # "c"
  <2> DEFINE resume == Top(s).resume
  <2>0. n - 1 = k
    <3> HIDE DEF calls, k, n
    <3>. QED  BY <1>3
  <2>1. r = [s EXCEPT !.calls = calls, !.ip = resume]
    BY <1>4, <1>7, Zenon DEF Finished
  <2> HIDE DEF r, calls, resume
  <2>2. r.calls = calls /\ r.stack = s.stack
    BY <1>2, <2>1 DEF IsThread, Fields
  <2>. QED  BY <1>1, <1>2, <1>3, <1>5, <1>7, <2>0, <2>2 DEF r, s, u, CallsOK
<1>8. CASE calls # << >> /\ program.functions[calls[k].function].kind = "c"
  <2> DEFINE c == [calls[k] EXCEPT !.pc = calls[k].pc + 1]
             new == [calls EXCEPT ![k] = c]
  <2>1. r = [s EXCEPT !.calls = new]
    BY <1>4, <1>8, Zenon DEF Finished
  <2>2. k \in 1 .. k /\ k \in Nat \ {0} /\ IsCall(calls[k])
    <3> HIDE DEF calls
    <3>1. k \in Nat \ {0}
      BY <1>3, <1>8, CallsFront
    <3> HIDE DEF k
    <3>2. k \in 1 .. k
      BY <3>1
    <3>3. \A i \in 1 .. k : IsCall(calls[i])
      BY <1>3 DEF CallsOK, CallOK, k
    <3>. QED  BY <3>1, <3>2, <3>3
  <2>3. SameArgs(calls[k], c) /\ HasCalled(c)
    <3>1. \A x, v : IsCall(x) => SameArgs(x, [x EXCEPT !.pc = v]) /\ [x EXCEPT !.pc = v].pc = v
      BY DEF IsCall, CallFields, SameArgs
    <3>2. SameArgs(calls[k], c) /\ c.pc = calls[k].pc + 1
      BY <2>2, <3>1
    <3> HIDE DEF calls, k, c
    <3>3. CallOK(program, calls[k]) /\ Resumes(program, m.calls[n].resume, calls[k])
      BY <1>3, <1>8, <2>2, CallsFront DEF CallsOK, calls, k
    <3> DEFINE f == calls[k].function
               pc == calls[k].pc
               fn == program.functions[f]
    <3>4. /\ f \in DOMAIN program.functions /\ fn.kind = "c" /\ pc \in DOMAIN fn.code
          /\ fn.code[pc].do = "pass"
      BY <1>8, <3>3 DEF CallOK, Resumes
    <3>5. DOMAIN fn.code \subseteq Nat
      <4>1. WellFormedFunction(fn, DOMAIN program.functions)
        BY <3>4 DEF WellFormed
      <4> HIDE DEF fn
      <4>. QED  BY <3>4, <4>1 DEF WellFormedFunction
    <3>6. pc < c.pc
      <4> HIDE DEF fn
      <4>. QED  BY <3>2, <3>4, <3>5
    <3>7. c.function = f
      BY <3>2 DEF SameArgs
    <3> HIDE DEF pc, f
    <3>. QED  BY <3>2, <3>4, <3>6, <3>7 DEF HasCalled
  <2>4. /\ IsSeq(new) /\ Len(new) = k
        /\ \A i \in 1 .. k : new[i] = IF i = k THEN c ELSE calls[i]
    <3> HIDE DEF calls, c
    <3>1. Updates(new, calls, k, c)
      BY DEF Updates
    <3>2. IsSeq(calls) /\ k \in 1 .. Len(calls)
      BY <1>3, <2>2 DEF CallsOK
    <3> HIDE DEF new, k
    <3>. QED  BY <3>1, <3>2, SeqUpdated DEF k
  <2> HIDE DEF r, new, c
  <2>5. r.calls = new /\ r.stack = s.stack
    BY <1>2, <2>1 DEF IsThread, Fields
  <2>6. \A i \in 1 .. n - 1 : SameArgs(m.calls[i], new[i])
    <3>. SUFFICES ASSUME NEW i \in 1 .. n - 1
                  PROVE  SameArgs(m.calls[i], new[i])
      OBVIOUS
    <3> HIDE DEF calls, n
    <3>1. calls[i] = m.calls[i] /\ i \in 1 .. k
      BY <1>3
    <3>2. CASE i = k
      BY <2>3, <2>4, <3>1, <3>2
    <3>3. CASE i # k
      BY <1>5, <2>4, <3>1, <3>3
    <3>. QED  BY <3>2, <3>3
  <2>7. n - 1 = k /\ new[k] = c
    <3> HIDE DEF calls, k, n
    <3>. QED  BY <1>3, <2>2, <2>4
  <2>. QED  BY <1>1, <1>2, <1>3, <2>3, <2>4, <2>5, <2>6, <2>7 DEF r, s, u
<1>. QED  BY <1>6, <1>7, <1>8

\* The arguments of the calls that are left.
LEMMA LeftArgs ==
  ASSUME NEW m, IsThread(m), WellFormed(program), CallsOK(program, m.calls), m.calls # << >>,
         FramesOK(m),
         \A i \in 1 .. Len(m.calls) : CallArgs(m.calls[i]), NEW err
  PROVE  LET r == Finished(PopFrame(Unwound(m)), err)
         IN  ArgsOK(r) /\ ~(Len(r.calls) > Len(m.calls))
<1> DEFINE r == Finished(PopFrame(Unwound(m)), err)
           n == Len(m.calls)
<1>1. /\ r.stack = m.stack /\ IsSeq(r.calls) /\ Len(r.calls) = n - 1
      /\ \A i \in 1 .. n - 1 : SameArgs(m.calls[i], r.calls[i])
      /\ n > 1 /\ program.functions[r.calls[n - 1].function].kind = "c" => HasCalled(r.calls[n - 1])
  BY LeftCalls
<1>2. n \in Nat \ {0}
  BY CallsFront
<1> HIDE DEF r, n
<1>3. ASSUME NEW i \in 1 .. Len(r.calls)
      PROVE  CallArgs(r.calls[i])
  <2>1. i \in 1 .. n - 1 /\ i \in 1 .. n
    BY <1>1, <1>2
  <2>2. CallArgs(m.calls[i]) /\ SameArgs(m.calls[i], r.calls[i])
    BY <1>1, <2>1 DEF n
  <2>. QED  BY <2>2 DEF CallArgs, SameArgs
<1>4. ASSUME r.calls # << >>
      PROVE  Tracked(r.stack, r.contexts, Top(r))
  <2> DEFINE c == Top(r)
             start == c.frame.base + RESERVED_SLOTS
             word == r.stack[start + c.offset + 1]
  <2>1. n - 1 \in 1 .. n - 1 /\ n \in 2 .. n /\ n - 1 \in 1 .. n
    <3>1. Len(r.calls) # 0
      BY <1>1, <1>4, EmptySeq DEF IsSeq
    <3>. QED  BY <1>1, <1>2, <3>1
  <2>2. c = r.calls[n - 1] /\ SameArgs(m.calls[n - 1], c)
    BY <1>1, <2>1 DEF Top
  <2> DEFINE below == m.calls[n - 1].frame
             base == m.calls[n].frame.base
  <2>3. base = Behind(below) /\ SavedAt(m.stack, base, below) /\ FrameOK(below)
    BY <2>1 DEF FramesOK, Chain, n
  <2>4. c.frame = below /\ CallArgs(c)
    <3>1. n - 1 \in 1 .. Len(r.calls)
      BY <1>1, <2>1
    <3>. QED  BY <1>3, <2>2, <3>1 DEF SameArgs
  <2>6. program.functions[c.function].kind = "c" => HasCalled(c)
    BY <1>1, <2>1, <2>2
  <2> HIDE DEF c, below, base
  <2>5. ASSUME program.functions[c.function].kind = "c"
        PROVE  word[1] # "offsets" /\ word = <<"length", c.frame.length>>
    <3>1. c.offset = below.length /\ below.base \in Nat /\ below.length \in Nat
      BY <2>3, <2>4, <2>5 DEF CallArgs, FrameOK
    <3>2. start + c.offset + 1 = base + 1
      BY <2>3, <2>4, <3>1 DEF Behind, RESERVED_SLOTS
    <3>3. word = <<"length", below.length>>
      BY <1>1, <2>3, <3>2 DEF SavedAt
    <3> HIDE DEF word
    <3>. QED  BY <2>4, <3>3
  <2> HIDE DEF start, word
  <2>. QED  BY <2>5, <2>6 DEF Tracked, c, start, word
<1>5. ~(Len(r.calls) > n)
  BY <1>1, <1>2
<1>. QED  BY <1>3, <1>4, <1>5 DEF ArgsOK, r, n

\* A step of a script that calls no function.
LEMMA ProceedsArrives ==
  ASSUME NEW m, IsThread(m), WellFormed(program), CallsOK(program, m.calls), m.calls # << >>,
         ArgsOK(m), program.functions[Top(m).function].kind = "script", NEW s, Proceeds(m, s)
  PROVE  Arrives(m, s)
<1>1. CASE s.calls = m.calls
  <2>1. Len(m.calls) \in Nat
    BY CallsFront
  <2>2. ~(Len(s.calls) > Len(m.calls))
    BY <1>1, <2>1
  <2>3. Tracked(s.stack, s.contexts, Top(s))
    BY <1>1 DEF Tracked, Top
  <2>. QED  BY <1>1, <2>2, <2>3 DEF Arrives, ArgsOK
<1>2. CASE Ends(m, s)
  <2>1. PICK r, err : /\ IsThread(r) /\ r.calls = m.calls /\ FramesOK(r)
                      /\ s = Finished(PopFrame(Unwound(r)), err)
    BY <1>2 DEF Ends
  <2>2. ArgsOK(s) /\ ~(Len(s.calls) > Len(m.calls))
    <3>1. CallsOK(program, r.calls) /\ r.calls # << >> /\ \A i \in 1 .. Len(r.calls) : CallArgs(r.calls[i])
      BY <2>1 DEF ArgsOK
    <3>2. LET q == Finished(PopFrame(Unwound(r)), err)
          IN  ArgsOK(q) /\ ~(Len(q.calls) > Len(r.calls))
      BY <2>1, <3>1, LeftArgs
    <3>. QED  BY <2>1, <3>2
  <2>. QED  BY <2>2 DEF Arrives
<1>3. CASE s.status = "aborted"
  BY <1>3 DEF Arrives
<1>. QED  BY <1>1, <1>2, <1>3 DEF Proceeds

\* execute_call.
LEMMA CalledArrives ==
  ASSUME NEW m, Runs(m, {"call"}), DOMAIN m.contexts = Memory, ArgsOK(m),
         /\ Word(m).opType = "src" /\ HasValue(m, Word(m).funcSrc)
         /\ ContextAt(m, Word(m).funcSrc) = "function"
         => ValueAt(m, Word(m).funcSrc)[1][2] \in DOMAIN program.functions,
         Called(m).next \in 0 .. StackSlots,
         Called(m).status = "running" /\ program.functions[Top(Called(m)).function].kind = "c" =>
           Called(m).next + 2 <= StackSlots
  PROVE  Arrives(m, Called(m))
<1>1. PICK e, f, args, returnDst, resume, may :
        /\ Called(m) = Checked(m, may, Call(e, f, args, returnDst, resume))
        /\ Like(m, e) /\ e.stack = m.stack /\ e.contexts = m.contexts /\ e.status = m.status
        /\ may => /\ f \in DOMAIN program.functions
                  /\ AreValues(args) /\ Elsewhere(returnDst, m.next)
  BY CalledWith
<1>2. /\ IsThread(m) /\ IsSeq(m.calls) /\ FramesOK(m) /\ WellFormed(program) /\ m.status = "running"
  BY AtFrame DEF Runs, Executes
<1>3. IsThread(e) /\ e.calls = m.calls /\ FramesOK(e) /\ e.next = m.next
  <2>1. IsThread(e) /\ e.calls = m.calls /\ e.next = m.next
    BY <1>1 DEF Like
  <2>. QED  BY <1>1, <1>2, <2>1, UnwrittenKept, FramesLike
<1>4. CASE may
  <2> DEFINE r == Call(e, f, args, returnDst, resume)
  <2>1. Called(m) = r
    BY <1>1, <1>4 DEF Checked
  <2> HIDE DEF r
  <2>2. Arrives(e, r)
    <3>1. /\ r.next \in 0 .. StackSlots
          /\ r.status = "running" /\ program.functions[Top(r).function].kind = "c" =>
               r.next + 2 <= StackSlots
      BY <2>1
    <3>2. /\ \A i \in 1 .. Len(e.calls) : CallArgs(e.calls[i])
          /\ IsSeq(e.calls) /\ DOMAIN e.contexts = Memory /\ e.status = "running"
          /\ Elsewhere(returnDst, e.next)
      BY <1>1, <1>2, <1>3, <1>4 DEF ArgsOK
    <3>. QED  BY <1>1, <1>2, <1>3, <1>4, <3>1, <3>2, CallArrives DEF r
  <2>. QED  BY <1>3, <2>1, <2>2 DEF Arrives
<1>5. CASE ~may
  <2>1. Called(m) = [m EXCEPT !.status = "aborted"]
    BY <1>1, <1>5 DEF Checked
  <2>2. [m EXCEPT !.status = "aborted"].status = "aborted"
    BY <1>2 DEF IsThread, Fields
  <2>. QED  BY <2>1, <2>2 DEF Arrives
<1>. QED  BY <1>4, <1>5
-----------------------------------------------------------------------------
(***************************************************************************)
(* Arguments: C functions.                                                 *)
(***************************************************************************)

\* The local variables of the C function that executes are others.
OtherLocals(m, r, locals) ==
  /\ r.stack = m.stack /\ r.contexts = m.contexts /\ r.status = m.status
  /\ Len(r.calls) = Len(m.calls)
  /\ \A i \in 1 .. Len(m.calls) - 1 : r.calls[i] = m.calls[i]
  /\ Top(r).function = Top(m).function /\ Top(r).frame = Top(m).frame
  /\ Top(r).args = Top(m).args /\ Top(r).offset = Top(m).offset
  /\ Top(r).locals = locals
  /\ HasCalled(Top(m)) => HasCalled(Top(r))

\* The call of a C function changes.
LEMMA TopChanged ==
  ASSUME NEW m, BodyOK(m), NEW c
  PROVE  LET r == [m EXCEPT !.calls = [m.calls EXCEPT ![Len(m.calls)] = c]]
         IN  /\ r.stack = m.stack /\ r.contexts = m.contexts /\ r.status = m.status
             /\ Len(r.calls) = Len(m.calls) /\ Top(r) = c
             /\ \A i \in 1 .. Len(m.calls) - 1 : r.calls[i] = m.calls[i]
<1> DEFINE n == Len(m.calls)
           calls == [m.calls EXCEPT ![n] = c]
           r == [m EXCEPT !.calls = calls]
<1>1. IsSeq(m.calls) /\ n \in 1 .. n /\ n \in Nat
  BY CallsFront DEF BodyOK, CallsOK
<1>2. Updates(calls, m.calls, n, c)
  BY DEF Updates
<1> HIDE DEF calls
<1>3. Len(calls) = n /\ \A i \in 1 .. n : calls[i] = IF i = n THEN c ELSE m.calls[i]
  BY <1>1, <1>2, SeqUpdated
<1>4. r.calls = calls /\ r.stack = m.stack /\ r.contexts = m.contexts /\ r.status = m.status
  BY DEF BodyOK, IsThread, Fields
<1> HIDE DEF r, n
<1>5. \A i \in 1 .. n - 1 : i \in 1 .. n /\ i # n
  BY <1>1
<1>6. calls[n] = c /\ \A i \in 1 .. n - 1 : calls[i] = m.calls[i]
  BY <1>1, <1>3, <1>5
<1>. QED  BY <1>3, <1>4, <1>6 DEF r, n, Top, calls

\* Other local variables.
LEMMA RemainingLocals ==
  ASSUME NEW m, BodyOK(m), NEW locals
  PROVE  OtherLocals(m, Remaining(m, locals), locals)
<1> DEFINE c == [Top(m) EXCEPT !.locals = locals]
           r == Remaining(m, locals)
<1>1. IsCall(Top(m))
  <2>1. Len(m.calls) \in 1 .. Len(m.calls)
    BY CallsFront DEF BodyOK
  <2>. QED  BY <2>1 DEF BodyOK, CallsOK, CallOK, Top
<1>2. /\ c.function = Top(m).function /\ c.frame = Top(m).frame /\ c.args = Top(m).args
      /\ c.offset = Top(m).offset /\ c.locals = locals /\ c.pc = Top(m).pc
  <2> HIDE DEF Top
  <2>. QED  BY <1>1 DEF IsCall, CallFields
<1>5. HasCalled(Top(m)) => HasCalled(c)
  <2> HIDE DEF Top, c
  <2>. QED  BY <1>2 DEF HasCalled
<1>3. r = [m EXCEPT !.calls = [m.calls EXCEPT ![Len(m.calls)] = c]]
  BY DEF Top, Remaining
<1> HIDE DEF c, r
<1>4. /\ r.stack = m.stack /\ r.contexts = m.contexts /\ r.status = m.status
      /\ Len(r.calls) = Len(m.calls) /\ Top(r) = c
      /\ \A i \in 1 .. Len(m.calls) - 1 : r.calls[i] = m.calls[i]
  BY <1>3, TopChanged, Zenon
<1> HIDE DEF Top
<1>. QED  BY <1>2, <1>4, <1>5, Zenon DEF OtherLocals, r

\* Another step.
LEMMA SameLocals ==
  ASSUME NEW m, BodyOK(m), WellFormed(program)
  PROVE  OtherLocals(m, [m EXCEPT !.calls[Len(m.calls)].pc = @ + 1], Top(m).locals)
<1> DEFINE c == [Top(m) EXCEPT !.pc = Top(m).pc + 1]
           r == [m EXCEPT !.calls[Len(m.calls)].pc = @ + 1]
<1>1. CallOK(program, Top(m)) /\ IsCall(Top(m))
  <2>1. Len(m.calls) \in 1 .. Len(m.calls)
    BY CallsFront DEF BodyOK
  <2>. QED  BY <2>1 DEF BodyOK, CallsOK, CallOK, Top
<1>2. /\ c.function = Top(m).function /\ c.frame = Top(m).frame /\ c.args = Top(m).args
      /\ c.offset = Top(m).offset /\ c.locals = Top(m).locals /\ c.pc = Top(m).pc + 1
  <2> HIDE DEF Top
  <2>. QED  BY <1>1 DEF IsCall, CallFields
<1>5. HasCalled(Top(m)) => HasCalled(c)
  <2> DEFINE f == Top(m).function
             fn == program.functions[f]
  <2>1. f \in DOMAIN program.functions /\ fn.kind = "c" /\ Top(m).pc \in DOMAIN fn.code
    BY <1>1 DEF CallOK, BodyOK
  <2>2. DOMAIN fn.code \subseteq Nat
    <3>1. WellFormedFunction(fn, DOMAIN program.functions)
      BY <2>1 DEF WellFormed
    <3> HIDE DEF fn, f
    <3>. QED  BY <2>1, <3>1 DEF WellFormedFunction
  <2> HIDE DEF Top, c
  <2>3. \A i \in DOMAIN fn.code : i < Top(m).pc => i < c.pc
    <3> HIDE DEF fn
    <3>. QED  BY <1>2, <2>1, <2>2
  <2>. QED  BY <1>2, <2>3 DEF HasCalled
<1>3. r = [m EXCEPT !.calls = [m.calls EXCEPT ![Len(m.calls)] = c]]
  BY DEF Top
<1> HIDE DEF c, r
<1>4. /\ r.stack = m.stack /\ r.contexts = m.contexts /\ r.status = m.status
      /\ Len(r.calls) = Len(m.calls) /\ Top(r) = c
      /\ \A i \in 1 .. Len(m.calls) - 1 : r.calls[i] = m.calls[i]
  BY <1>3, TopChanged, Zenon
<1> HIDE DEF Top
<1>. QED  BY <1>2, <1>4, <1>5, Zenon DEF OtherLocals, r

\* Both.
LEMMA SteppedLocals ==
  ASSUME NEW m, BodyOK(m), WellFormed(program), BodyStep(m).do # "end", NEW locals
  PROVE  OtherLocals(m, Stepped(m, locals), locals)
<1> DEFINE one == [m EXCEPT !.calls[Len(m.calls)].pc = @ + 1]
           two == Stepped(m, locals)
<1>1. BodyOK(one) /\ Len(one.calls) = Len(m.calls)
  BY StepChanged DEF BodyStep
<1>2. OtherLocals(m, one, Top(m).locals)
  BY SameLocals
<1>3. two = [one EXCEPT !.calls[Len(m.calls)].locals = locals]
  BY Zenon DEF Stepped
<1> HIDE DEF one, two
<1>4. two = Remaining(one, locals)
  BY <1>1, <1>3 DEF Remaining
<1>5. OtherLocals(one, two, locals)
  BY <1>1, <1>4, RemainingLocals
<1>. QED  BY <1>2, <1>5 DEF OtherLocals, two

\* What a C function takes or gives up.
LEMMA LocalsOfSteps ==
  ASSUME NEW m, BodyOK(m), WellFormed(program)
  PROVE  /\ \A i : WithoutLocal(m, i) = Stepped(m, RemoveAt(Top(m).locals, i))
         /\ \A local : [m EXCEPT !.calls[Len(m.calls)].pc = @ + 1,
                                 !.calls[Len(m.calls)].locals = Append(@, local)]
                       = Stepped(m, Append(Top(m).locals, local))
<1> DEFINE one == [m EXCEPT !.calls[Len(m.calls)].pc = @ + 1]
           locals == one.calls[Len(m.calls)].locals
<1>1. locals = Top(m).locals
  <2> HIDE DEF one
  <2>1. OtherLocals(m, one, Top(m).locals)
    BY SameLocals DEF one
  <2>. QED  BY <2>1 DEF OtherLocals, Top
<1>2. ASSUME NEW i
      PROVE  WithoutLocal(m, i) = Stepped(m, RemoveAt(locals, i))
  BY Zenon DEF WithoutLocal, Stepped
<1>3. ASSUME NEW local
      PROVE  [m EXCEPT !.calls[Len(m.calls)].pc = @ + 1,
                       !.calls[Len(m.calls)].locals = Append(@, local)]
             = Stepped(m, Append(locals, local))
  BY Zenon DEF Stepped
<1> HIDE DEF locals
<1>. QED  BY <1>1, <1>2, <1>3, Zenon

\* A sequence without one of its elements.
LEMMA RemovedInSeq ==
  ASSUME NEW S, NEW s \in Seq(S), NEW i \in DOMAIN s
  PROVE  RemoveAt(s, i) \in Seq(S)
<1>1. Len(s) \in Nat /\ i \in 1 .. Len(s)
  BY LenProperties
<1>2. SubSeq(s, 1, i - 1) \in Seq(S) /\ SubSeq(s, i + 1, Len(s)) \in Seq(S)
  <2>1. \A k \in 1 .. i - 1 : s[k] \in S
    BY <1>1, ElementOfSeq
  <2>2. \A k \in i + 1 .. Len(s) : s[k] \in S
    BY <1>1, ElementOfSeq
  <2>. QED  BY <1>1, <2>1, <2>2, SubSeqProperties
<1>. QED  BY <1>2, ConcatProperties DEF RemoveAt

\* It has changed its local variables, and nothing that is tracked of its arguments.
LEMMA LocalsArgs ==
  ASSUME NEW m, BodyOK(m), ArgsOK(m), NEW r, NEW locals, OtherLocals(m, r, locals),
         AreLocals(locals),
         NEW s, s.calls = r.calls, Tracked(s.stack, s.contexts, Top(m))
  PROVE  ArgsOK(s) /\ ~(Len(s.calls) > Len(m.calls))
<1> DEFINE n == Len(m.calls)
<1>1. n \in Nat \ {0} /\ n \in 1 .. n
  BY CallsFront DEF BodyOK
<1>2. /\ Len(s.calls) = n /\ \A i \in 1 .. n - 1 : s.calls[i] = m.calls[i]
      /\ s.calls[n] = Top(r) /\ Top(s) = Top(r) /\ Top(m) = m.calls[n]
  BY DEF OtherLocals, Top
<1>3. CallArgs(Top(r))
  <2>1. CallArgs(Top(m))
    BY <1>1 DEF ArgsOK, Top
  <2>. QED  BY <2>1 DEF CallArgs, OtherLocals
<1>4. \A i \in 1 .. Len(s.calls) : CallArgs(s.calls[i])
  <2> HIDE DEF n
  <2>1. \A i \in 1 .. n : i \in 1 .. n - 1 \/ i = n
    BY <1>1
  <2>. QED  BY <1>2, <1>3, <2>1 DEF ArgsOK, n
<1>5. Tracked(s.stack, s.contexts, Top(s))
  <2>1. Tracked(s.stack, s.contexts, Top(r))
    BY DEF Tracked, OtherLocals
  <2>. QED  BY <1>2, <2>1
<1>6. ~(Len(s.calls) > n)
  BY <1>1, <1>2
<1>. QED  BY <1>4, <1>5, <1>6 DEF ArgsOK

\* Writes outside of the frame of a C function leave what is tracked of its arguments; it
\* may lose contexts.
LEMMA TrackedKept ==
  ASSUME NEW c, CallArgs(c), FrameOK(c.frame), NEW stack, NEW contexts, Tracked(stack, contexts, c),
         program.functions[c.function].kind = "c" => Behind(c.frame) + 2 <= StackSlots,
         NEW new, NEW left,
         \A a \in Nat : a >= c.frame.base + RESERVED_SLOTS /\ a < StackSlots =>
           new[a] = stack[a] /\ left[a].type \in {contexts[a].type, "none"}
  PROVE  Tracked(new, left, c)
<1> DEFINE k == Len(c.args)
           slot == ArgSlots(c.args)
           base == c.frame.base
           length == c.frame.length
           start == base + RESERVED_SLOTS
           S == StackSlots
           word == new[start + c.offset + 1]
<1>. SUFFICES ASSUME program.functions[c.function].kind = "c", k > 0
              PROVE  /\ word[1] = "offsets" =>
                          /\ word[2] = [i \in 1 .. k |-> slot[i]]
                          /\ \A i \in 1 .. k :
                               /\ left[start + slot[i]].type \in {c.args[i].type, "none"}
                               /\ \A j \in 1 .. SlotsOf(c.args[i].type) :
                                    new[start + slot[i] + j - 1] = c.args[i].words[j]
                     /\ word[1] # "offsets" => word = <<"length", c.frame.length>> /\ HasCalled(c)
  BY DEF Tracked
<1>1. /\ base \in Nat /\ length \in Nat /\ S \in Nat /\ start = base + 4
      /\ start + length + 2 <= S /\ c.offset = length /\ slot[k + 1] = length
  BY StackAssumption DEF FrameOK, Behind, CallArgs, RESERVED_SLOTS
<1>2. /\ k \in Nat
      /\ \A i \in 1 .. k : slot[i] \in Nat /\ SlotsOf(c.args[i].type) \in Nat \ {0}
                           /\ slot[i] + SlotsOf(c.args[i].type) <= length
  <2>1. AreValues(c.args) /\ k \in Nat
    BY DEF CallArgs, AreValues
  <2>2. /\ \A j \in 1 .. k + 1 : \A i \in 1 .. k : i < j => slot[i] + SlotsOf(c.args[i].type) <= slot[j]
        /\ \A i \in 1 .. k : SlotsOf(c.args[i].type) \in Nat \ {0}
        /\ \A i \in 1 .. k + 1 : slot[i] \in Nat
    BY <2>1, SlotsOfValues
  <2> HIDE DEF k, slot, length
  <2>3. k + 1 \in 1 .. k + 1 /\ \A i \in 1 .. k : i < k + 1 /\ i \in 1 .. k + 1
    BY <2>1
  <2>. QED  BY <1>1, <2>1, <2>2, <2>3
<1>3. \A a \in Nat : a >= start /\ a < S => new[a] = stack[a] /\ left[a].type \in {contexts[a].type, "none"}
  OBVIOUS
<1>4. /\ stack[start + c.offset + 1][1] = "offsets" =>
           /\ stack[start + c.offset + 1][2] = [i \in 1 .. k |-> slot[i]]
           /\ \A i \in 1 .. k :
                /\ contexts[start + slot[i]].type \in {c.args[i].type, "none"}
                /\ \A j \in 1 .. SlotsOf(c.args[i].type) :
                     stack[start + slot[i] + j - 1] = c.args[i].words[j]
      /\ stack[start + c.offset + 1][1] # "offsets" =>
           stack[start + c.offset + 1] = <<"length", c.frame.length>> /\ HasCalled(c)
  BY DEF Tracked
<1> HIDE DEF k, slot, base, length, start, S, word
<1>5. word = stack[start + c.offset + 1]
  <2> DEFINE a == start + c.offset + 1
  <2>1. a \in Nat /\ a >= start /\ a < S
    BY <1>1
  <2> HIDE DEF a
  <2>2. new[a] = stack[a]
    BY <1>3, <2>1
  <2>. QED  BY <2>2 DEF a, word
<1>6. ASSUME word[1] = "offsets", NEW i \in 1 .. k
      PROVE  /\ left[start + slot[i]].type \in {c.args[i].type, "none"}
             /\ \A j \in 1 .. SlotsOf(c.args[i].type) :
                  new[start + slot[i] + j - 1] = c.args[i].words[j]
  <2> DEFINE at == start + slot[i]
             size == SlotsOf(c.args[i].type)
  <2>1. at \in Nat /\ at >= start /\ size \in Nat \ {0} /\ at + size < S
    BY <1>1, <1>2
  <2>2. /\ contexts[at].type \in {c.args[i].type, "none"}
        /\ \A j \in 1 .. size : stack[at + j - 1] = c.args[i].words[j]
    BY <1>4, <1>5, <1>6
  <2> HIDE DEF at, size
  <2>3. left[at].type \in {contexts[at].type, "none"}
    <3>1. at < S
      BY <1>1, <2>1
    <3>. QED  BY <1>3, <2>1, <3>1
  <2>4. ASSUME NEW j \in 1 .. size
        PROVE  new[at + j - 1] = c.args[i].words[j]
    <3> DEFINE a == at + j - 1
    <3>1. a \in Nat /\ a >= start /\ a < S
      BY <1>1, <2>1
    <3> HIDE DEF a
    <3>2. new[a] = stack[a]
      BY <1>3, <3>1
    <3>. QED  BY <2>2, <3>2 DEF a
  <2>. QED  BY <2>2, <2>3, <2>4 DEF at, size
<1>. QED  BY <1>4, <1>5, <1>6

\* A thread that executes a C function.
AtBody(m) ==
  /\ BodyOK(m) /\ WellFormed(program) /\ FramesOK(m) /\ ArgsOK(m)
  /\ DOMAIN m.contexts = Memory /\ m.next + 2 <= StackSlots
  /\ \A a \in Memory : m.contexts[a].type \in DOMAIN SizeOf \cup {"none"}

\* The call of that function.
LEMMA AtBodyCall ==
  ASSUME NEW m, AtBody(m)
  PROVE  LET c == Top(m)
         IN  /\ CallArgs(c) /\ FrameOK(c.frame) /\ Tracked(m.stack, m.contexts, c)
             /\ m.frame = c.frame /\ Behind(c.frame) + 2 <= StackSlots
             /\ program.functions[c.function].kind = "c"
             /\ Len(m.calls) \in 1 .. Len(m.calls)
             /\ c.frame.base \in Reserved(m) /\ c.frame.base \in Nat
<1> DEFINE n == Len(m.calls)
<1>1. n \in Nat \ {0} /\ n \in 1 .. n /\ DOMAIN m.calls = 1 .. n /\ Top(m) = m.calls[n]
  BY CallsFront DEF AtBody, BodyOK, CallsOK, IsSeq, Top
<1> HIDE DEF n
<1>2. CallArgs(Top(m)) /\ FrameOK(Top(m).frame)
  BY <1>1 DEF AtBody, ArgsOK, FramesOK, Chain, n
<1>3. /\ Tracked(m.stack, m.contexts, Top(m)) /\ m.frame = Top(m).frame /\ m.next = Behind(m.frame)
      /\ program.functions[Top(m).function].kind = "c"
  BY DEF AtBody, ArgsOK, FramesOK, BodyOK
<1>4. Top(m).frame.base \in Reserved(m)
  <2> DEFINE base == Top(m).frame.base
  <2>1. base \in Nat
    BY <1>2 DEF FrameOK
  <2>2. base = m.calls[n].frame.base
    BY <1>1
  <2> HIDE DEF base
  <2>3. base \in base .. base + RESERVED_SLOTS - 1
    BY <2>1 DEF RESERVED_SLOTS
  <2>. QED  BY <1>1, <2>2, <2>3, Zenon DEF Reserved, base
<1>. QED  BY <1>1, <1>2, <1>3, <1>4 DEF AtBody, FrameOK, n

\* What it takes is a value, and, unless it has called another function, the argument that
\* it was passed.
LEMMA TakenLocal ==
  ASSUME NEW m, AtBody(m), NEW i \in 1 .. PositionsPerWord, i <= Len(Top(m).args),
         LET position == ArgPosition(m, Top(m).frame.base, Top(m).offset, i)
         IN  HasValue(m, position)
  PROVE  LET position == ArgPosition(m, Top(m).frame.base, Top(m).offset, i)
             arg == Top(m).args[i]
         IN  /\ IsValue([words |-> ValueAt(m, position), type |-> ContextAt(m, position)])
             /\ ~HasCalled(Top(m)) =>
                  ValueAt(m, position) = arg.words /\ ContextAt(m, position) = arg.type
<1> DEFINE c == Top(m)
           k == Len(c.args)
           slot == ArgSlots(c.args)
           start == c.frame.base + RESERVED_SLOTS
           word == m.stack[start + c.offset + 1]
           position == ArgPosition(m, c.frame.base, c.offset, i)
           v == c.args[i]
<1>1. /\ CallArgs(c) /\ FrameOK(c.frame) /\ Tracked(m.stack, m.contexts, c)
      /\ m.frame = c.frame /\ program.functions[c.function].kind = "c"
  BY AtBodyCall
<1>2. AreValues(c.args) /\ k \in Nat /\ i \in 1 .. k /\ k > 0
  <2>1. AreValues(c.args) /\ k \in Nat
    BY <1>1 DEF CallArgs, AreValues
  <2>. QED  BY <2>1 DEF PositionsPerWord
<1>3. HasValue(m, position) /\ m.frame = c.frame
  BY <1>1
<1> HIDE DEF c, k
<1>4. position = IF i <= Len(Positions(word)) THEN Positions(word)[i] ELSE StackSlots
  BY DEF ArgPosition
<1>5. /\ c.frame.base \in Nat /\ c.frame.length \in Nat /\ StackSlots \in Nat
      /\ c.frame.base + c.frame.length + 4 <= StackSlots /\ position < c.frame.length
  BY <1>1, <1>3, StackAssumption DEF FrameOK, RESERVED_SLOTS, HasValue, InFrame
<1>6. position # StackSlots
  <2> DEFINE base == c.frame.base
             length == c.frame.length
  <2>1. base \in Nat /\ length \in Nat /\ StackSlots \in Nat /\ base + length + 4 <= StackSlots
        /\ position < length
    BY <1>5
  <2> HIDE DEF position, base, length
  <2>. QED  BY <2>1
<1> HIDE DEF position
<1>7. position = Positions(word)[i]
  BY <1>4, <1>6
<1>8. CASE word[1] = "offsets"
  <2>1. /\ word[2] = [j \in 1 .. k |-> slot[j]]
        /\ m.contexts[start + slot[i]].type \in {v.type, "none"}
        /\ \A j \in 1 .. SlotsOf(v.type) : m.stack[start + slot[i] + j - 1] = v.words[j]
    <3> HIDE DEF slot, start, v
    <3>. QED  BY <1>1, <1>2, <1>8 DEF Tracked, k, slot, start, v
  <2>2. position = word[2][i]
    BY <1>7, <1>8 DEF Positions
  <2> HIDE DEF word
  <2>3. position = slot[i] /\ position \in Nat
    <3>1. i \in 1 .. k + 1
      BY <1>2
    <3>2. slot[i] \in Nat
      BY <1>2, <3>1, SlotsOfValues DEF k, slot
    <3> HIDE DEF slot
    <3>. QED  BY <1>2, <2>1, <2>2, <3>2
  <2>4. At(m, position) = start + slot[i]
    <3> DEFINE base == c.frame.base
    <3>1. base \in Nat
      BY <1>5
    <3> HIDE DEF base, slot
    <3>2. At(m, position) = base + position + 4
      BY <1>3 DEF At, RESERVED_SLOTS, base
    <3>3. start = base + 4
      BY DEF base, RESERVED_SLOTS
    <3> HIDE DEF start
    <3>. QED  BY <2>3, <3>1, <3>2, <3>3
  <2> HIDE DEF start, slot, v
  <2>5. ContextAt(m, position) = v.type
    BY <1>3, <2>1, <2>4 DEF HasValue, ContextAt
  <2>6. ValueAt(m, position) = [j \in 1 .. SlotsOf(v.type) |-> m.stack[start + slot[i] + j - 1]]
    BY <2>4, <2>5 DEF ValueAt, WordsAt
  <2>7. [j \in 1 .. SlotsOf(v.type) |-> m.stack[start + slot[i] + j - 1]] =
          [j \in 1 .. SlotsOf(v.type) |-> v.words[j]]
    BY <2>1
  <2>8. IsValue(v)
    BY <1>2 DEF AreValues, v, k
  <2>9. ValueAt(m, position) = v.words
    BY <2>6, <2>7, <2>8 DEF IsValue
  <2>10. IsValue([words |-> v.words, type |-> v.type])
    BY <2>8 DEF IsValue
  <2>. QED  BY <2>5, <2>9, <2>10 DEF c, v, position
<1>9. CASE word[1] # "offsets"
  <2>1. word = <<"length", c.frame.length>> /\ HasCalled(c)
    <3> HIDE DEF slot, start, v
    <3>. QED  BY <1>1, <1>2, <1>9 DEF Tracked, k, slot, start, v
  <2>2. position \in {c.frame.length, 0}
    <3> HIDE DEF word
    <3>1. Positions(word) = <<c.frame.length, 0, 0, 0>>
      BY <2>1 DEF Positions
    <3>2. i \in {1, 2, 3, 4}
      BY DEF PositionsPerWord
    <3>. QED  BY <1>7, <3>1, <3>2
  <2> DEFINE base == c.frame.base
             length == c.frame.length
             a == At(m, position)
  <2>3. a \in Memory
    <3>1. /\ base \in Nat /\ length \in Nat /\ StackSlots \in Nat /\ HostSlots \in Nat
          /\ base + length + 4 <= StackSlots /\ position < length /\ position \in {length, 0}
      BY <1>5, <2>2, StackAssumption
    <3>2. a = base + position + 4
      BY <1>3 DEF At, RESERVED_SLOTS
    <3> HIDE DEF a, base, length
    <3>. QED  BY <3>1, <3>2 DEF Memory
  <2>4. ContextAt(m, position) \in DOMAIN SizeOf \ {"none"}
    <3>1. m.contexts[a].type \in DOMAIN SizeOf \cup {"none"}
      BY <2>3 DEF AtBody
    <3>. QED  BY <1>3, <3>1 DEF HasValue, ContextAt
  <2>5. ValueAt(m, position) =
          [j \in 1 .. SlotsOf(ContextAt(m, position)) |-> m.stack[a + j - 1]]
    BY DEF ValueAt, WordsAt
  <2> DEFINE type == ContextAt(m, position)
             words == ValueAt(m, position)
  <2>6. type \in DOMAIN SizeOf \ {"none"} /\ words = [j \in 1 .. SlotsOf(type) |-> words[j]]
    BY <2>4, <2>5
  <2> HIDE DEF type, words
  <2>7. IsValue([words |-> words, type |-> type])
    BY <2>6 DEF IsValue
  <2>. QED  BY <2>1, <2>7 DEF c, position, type, words
<1>. QED  BY <1>8, <1>9

\* The thread when it has taken one.
LEMMA TakenMade ==
  ASSUME NEW m, AtBody(m), BodyStep(m).do # "end", NEW i, Taken(m, i).status # "aborted"
  PROVE  LET position == ArgPosition(m, Top(m).frame.base, Top(m).offset, i)
             local == [words |-> ValueAt(m, position), type |-> ContextAt(m, position)]
             locals == Append(Top(m).locals, local)
             r == Stepped(m, locals)
             s == Taken(m, i)
         IN  /\ i <= Len(Top(m).args) /\ HasValue(m, position)
             /\ OtherLocals(m, r, locals) /\ s.calls = r.calls /\ s.stack = m.stack
             /\ s.contexts = [m.contexts EXCEPT ![At(r, position)] = NoContext]
<1> DEFINE c == Top(m)
           position == ArgPosition(m, c.frame.base, c.offset, i)
           may == i <= Len(c.args) /\ HasValue(m, position)
           local == [words |-> ValueAt(m, position), type |-> ContextAt(m, position)]
           locals == Append(c.locals, local)
           r == Stepped(m, locals)
           s == SetNull(r, position)
<1>1. Taken(m, i) = Checked(m, may, s)
  <2>1. [m EXCEPT !.calls[Len(m.calls)].pc = @ + 1,
                  !.calls[Len(m.calls)].locals = Append(@, local)] = r
    BY LocalsOfSteps DEF AtBody
  <2>2. Taken(m, i) =
          Checked(m, may,
            SetNull([m EXCEPT !.calls[Len(m.calls)].pc = @ + 1,
                              !.calls[Len(m.calls)].locals = Append(@, local)], position))
    BY Zenon DEF Taken
  <2> HIDE DEF local, r, may, position
  <2>. QED  BY <2>1, <2>2, Zenon
<1>2. may
  <2>. SUFFICES ASSUME ~may
                PROVE  FALSE
    OBVIOUS
  <2>1. Taken(m, i) = [m EXCEPT !.status = "aborted"]
    <3> HIDE DEF may, s
    <3>. QED  BY <1>1 DEF Checked
  <2>2. [m EXCEPT !.status = "aborted"].status = "aborted"
    BY DEF AtBody, BodyOK, IsThread, Fields
  <2>. QED  BY <2>1, <2>2
<1>3. Taken(m, i) = s
  <2> HIDE DEF may, s
  <2>. QED  BY <1>1, <1>2 DEF Checked
<1>4. i <= Len(c.args) /\ HasValue(m, position)
  BY <1>2
<1> HIDE DEF locals, position, c, r, s
<1>5. OtherLocals(m, r, locals) /\ IsThread(r)
  <2>1. SameBody(m, r)
    BY SteppedKept DEF AtBody, r
  <2>2. OtherLocals(m, r, locals)
    BY SteppedLocals DEF AtBody, r
  <2>. QED  BY <2>1, <2>2 DEF SameBody
<1>6. /\ s.calls = r.calls /\ s.stack = m.stack
      /\ s.contexts = [m.contexts EXCEPT ![At(r, position)] = NoContext]
  <2>1. s = [r EXCEPT !.contexts[At(r, position)] = NoContext] /\ r.contexts = m.contexts
    BY <1>5 DEF s, SetNull, OtherLocals
  <2>2. s.calls = r.calls /\ s.stack = r.stack /\ s.contexts = [r.contexts EXCEPT ![At(r, position)] = NoContext]
    BY <1>5, <2>1 DEF IsThread, Fields
  <2>. QED  BY <1>5, <2>1, <2>2 DEF OtherLocals
<1>. QED  BY <1>3, <1>4, <1>5, <1>6 DEF locals, position, c, r

\* It takes one.
LEMMA TakenArrives ==
  ASSUME NEW m, AtBody(m), BodyStep(m).do # "end", NEW i \in 1 .. PositionsPerWord
  PROVE  Arrives(m, Taken(m, i))
<1> DEFINE c == Top(m)
           position == ArgPosition(m, c.frame.base, c.offset, i)
           local == [words |-> ValueAt(m, position), type |-> ContextAt(m, position)]
           locals == Append(c.locals, local)
           r == Stepped(m, locals)
           s == Taken(m, i)
<1>. SUFFICES ASSUME s.status # "aborted"
              PROVE  ArgsOK(s) /\ ~(Len(s.calls) > Len(m.calls))
  BY DEF Arrives
<1>1. /\ i <= Len(c.args) /\ HasValue(m, position)
      /\ OtherLocals(m, r, locals) /\ s.calls = r.calls /\ s.stack = m.stack
      /\ s.contexts = [m.contexts EXCEPT ![At(r, position)] = NoContext]
  BY TakenMade
<1>2. IsValue(local)
  BY <1>1, TakenLocal
<1>3. /\ CallArgs(c) /\ FrameOK(c.frame) /\ Tracked(m.stack, m.contexts, c)
      /\ Behind(c.frame) + 2 <= StackSlots
  BY AtBodyCall
<1>4. AreLocals(locals)
  <2>1. PICK S : c.locals \in Seq(S) /\ \A v \in S : IsValue(v)
    BY <1>3 DEF CallArgs, AreLocals
  <2> HIDE DEF local, c
  <2>2. locals \in Seq(S \cup {local})
    <3>1. c.locals \in Seq(S \cup {local}) /\ local \in S \cup {local}
      BY <2>1
    <3>. QED  BY <3>1, AppendProperties
  <2>3. \A v \in S \cup {local} : IsValue(v)
    BY <1>2, <2>1
  <2>. QED  BY <2>2, <2>3 DEF AreLocals
<1> HIDE DEF locals, position, c, r, s
<1>5. \A a \in Nat : a >= c.frame.base + RESERVED_SLOTS /\ a < StackSlots =>
        s.stack[a] = m.stack[a] /\ s.contexts[a].type \in {m.contexts[a].type, "none"}
  <2>1. \A a \in Nat : a < StackSlots => a \in DOMAIN m.contexts
    BY StackAssumption DEF Memory, AtBody
  <2>. QED  BY <1>1, <2>1 DEF NoContext
<1>6. Tracked(s.stack, s.contexts, c)
  BY <1>3, <1>5, TrackedKept
<1>. QED  BY <1>1, <1>4, <1>6, LocalsArgs DEF AtBody, c

\* The local variables that are left when it gives one up, a value.
LEMMA LocalsLeft ==
  ASSUME NEW m, AtBody(m), NEW i \in DOMAIN Top(m).locals
  PROVE  AreLocals(RemoveAt(Top(m).locals, i)) /\ IsValue(Top(m).locals[i])
<1> DEFINE s == Top(m).locals
<1>1. PICK S : s \in Seq(S) /\ \A v \in S : IsValue(v)
  BY AtBodyCall DEF CallArgs, AreLocals
<1>2. s \in Seq(S) /\ i \in DOMAIN s
  BY <1>1
<1> HIDE DEF s
<1>3. RemoveAt(s, i) \in Seq(S)
  BY <1>2, RemovedInSeq
<1>4. s[i] \in S
  <2>1. i \in 1 .. Len(s)
    BY <1>2, LenProperties
  <2>. QED  BY <1>2, <2>1, ElementOfSeq
<1>. QED  BY <1>1, <1>3, <1>4 DEF s, AreLocals

\* It deinitialises one.
LEMMA DroppedArrives ==
  ASSUME NEW m, AtBody(m), BodyStep(m).do # "end", NEW i \in DOMAIN Top(m).locals
  PROVE  Arrives(m, Dropped(m, i))
<1> DEFINE local == Top(m).locals[i]
           locals == RemoveAt(Top(m).locals, i)
           r == Stepped(m, locals)
           s == Dropped(m, i)
<1>1. s = Deinited(r, local.words, local.type)
  <2>1. WithoutLocal(m, i) = r
    BY LocalsOfSteps DEF AtBody
  <2> HIDE DEF r, local
  <2>. QED  BY <2>1 DEF Dropped, local
<1>2. AreLocals(locals)
  BY LocalsLeft
<1> HIDE DEF locals, local, s
<1>3. OtherLocals(m, r, locals) /\ IsThread(r)
  <2>1. SameBody(m, r)
    BY SteppedKept DEF AtBody
  <2>2. OtherLocals(m, r, locals)
    BY SteppedLocals DEF AtBody
  <2>. QED  BY <2>1, <2>2 DEF SameBody
<1> HIDE DEF r
<1>4. s.calls = r.calls /\ s.stack = r.stack /\ s.contexts = r.contexts
  <2> DEFINE objects == [id \in DOMAIN r.objects |->
                            IF id \in ObjectsIn(local.words)
                            THEN [r.objects[id] EXCEPT !.destroyed = r.objects[id].destroyed + 1]
                            ELSE r.objects[id]]
  <2>1. s = [r EXCEPT !.objects = objects]
    BY <1>1, Zenon DEF Deinited
  <2> HIDE DEF objects
  <2>. QED  BY <1>3, <2>1 DEF IsThread, Fields
<1>5. Tracked(s.stack, s.contexts, Top(m))
  BY <1>3, <1>4, AtBodyCall DEF OtherLocals
<1>6. ArgsOK(s) /\ ~(Len(s.calls) > Len(m.calls))
  BY <1>2, <1>3, <1>4, <1>5, LocalsArgs DEF AtBody
<1>. QED  BY <1>6 DEF Arrives, s

\* It returns one.
LEMMA GivenArrives ==
  ASSUME NEW m, AtBody(m), BodyStep(m).do = "give", BodyStep(m).local \in DOMAIN Top(m).locals,
         Outside(m) \cap Reserved(m) = {}
  PROVE  Arrives(m, Given(m, BodyStep(m).local))
<1> DEFINE i == BodyStep(m).local
           c == Top(m)
           to == c.frame.returnValue
           words == c.locals[i].words
           context == OwningContext(c.locals[i].type)
           locals == RemoveAt(c.locals, i)
           lost == WrittenOver(m, to, Len(words))
           r == Stepped(m, locals)
           e == Excused(r, lost)
           s == [e EXCEPT !.stack = Copied(e.stack, to, words), !.contexts = [e.contexts EXCEPT ![to] = context]]
<1>1. /\ CallArgs(c) /\ FrameOK(c.frame) /\ Tracked(m.stack, m.contexts, c)
      /\ Behind(c.frame) + 2 <= StackSlots
      /\ c.frame.base \in Reserved(m) /\ c.frame.base \in Nat
  BY AtBodyCall
<1>2. Given(m, i) = Checked(m, to # NULL, s)
  <2>1. WithoutLocal(m, i) = r
    BY LocalsOfSteps DEF AtBody
  <2>2. c.frame.returnContext = to
    BY <1>1 DEF CallArgs
  <2>3. Given(m, i) =
          Checked(m, c.frame.returnValue # NULL,
            [Excused(WithoutLocal(m, i), lost)
               EXCEPT !.stack = Copied(@, to, words),
                      !.contexts[c.frame.returnContext] = context])
    BY Zenon DEF Given
  <2> HIDE DEF r, lost, words, context, i, c
  <2>. QED  BY <2>1, <2>2, <2>3
<1>3. AreLocals(locals)
  BY LocalsLeft
<1>4. \A a \in Reserved(m) : ~(to <= a /\ a < to + Len(words))
  <2>1. Reserved(m) \subseteq Memory
    BY ReservedSlots DEF AtBody, BodyOK, CallsOK, FramesOK
  <2>. QED  BY <2>1, OutsideOfBody DEF AtBody, BodyOK
<1> HIDE DEF locals, c, words, context, i, lost, r
<1>5. OtherLocals(m, r, locals) /\ IsThread(r)
  <2>1. SameBody(m, r)
    BY SteppedKept DEF AtBody, r
  <2>2. OtherLocals(m, r, locals)
    BY SteppedLocals DEF AtBody, r
  <2>. QED  BY <2>1, <2>2 DEF SameBody
<1>6. IsThread(e) /\ e.calls = r.calls /\ e.stack = m.stack /\ e.contexts = m.contexts
  <2>1. e = [r EXCEPT !.excused = r.excused \cup lost]
    BY DEF Excused
  <2> HIDE DEF e
  <2>. QED  BY <1>5, <2>1 DEF OtherLocals, IsThread, Fields, IsPointer
<1> HIDE DEF e, s
<1>7. /\ s.calls = r.calls /\ s.stack = Copied(m.stack, to, words)
      /\ s.contexts = [m.contexts EXCEPT ![to] = context]
  <2> DEFINE stack == Copied(e.stack, to, words)
             contexts == [e.contexts EXCEPT ![to] = context]
  <2>1. s = [e EXCEPT !.stack = stack, !.contexts = contexts]
    BY DEF s
  <2> HIDE DEF stack, contexts
  <2>2. s.calls = e.calls /\ s.stack = stack /\ s.contexts = contexts
    BY <1>6, <2>1 DEF IsThread, Fields
  <2>. QED  BY <1>6, <2>2 DEF stack, contexts
<1>8. CASE to = NULL
  <2>1. Given(m, i) = [m EXCEPT !.status = "aborted"]
    BY <1>2, <1>8 DEF Checked
  <2>2. [m EXCEPT !.status = "aborted"].status = "aborted"
    BY DEF AtBody, BodyOK, IsThread, Fields
  <2>. QED  BY <2>1, <2>2 DEF Arrives, i
<1>9. CASE to # NULL
  <2>1. \A a \in Nat : a >= c.frame.base + RESERVED_SLOTS /\ a < StackSlots =>
          s.stack[a] = m.stack[a] /\ s.contexts[a].type \in {m.contexts[a].type, "none"}
    <3>. SUFFICES ASSUME NEW a \in Nat, a >= c.frame.base + RESERVED_SLOTS, a < StackSlots
                  PROVE  s.stack[a] = m.stack[a] /\ s.contexts[a] = m.contexts[a]
      OBVIOUS
    <3> DEFINE base == c.frame.base
    <3>1. to \in Int /\ (to < base \/ to >= StackSlots)
      BY <1>1, <1>9 DEF CallArgs, Elsewhere
    <3>2. base \in Nat /\ ~(to <= base /\ base < to + Len(words)) /\ a >= base + 4 /\ StackSlots \in Nat
      BY <1>1, <1>4, StackAssumption DEF RESERVED_SLOTS
    <3>3. a \in Memory
      BY StackAssumption DEF Memory
    <3>4. IsStack(m.stack) /\ DOMAIN m.contexts = Memory
      BY DEF AtBody, FramesOK
    <3> HIDE DEF to, base
    <3>5. a # to /\ ~(to <= a /\ a < to + Len(words))
      <4>1. CASE to >= StackSlots
        BY <3>1, <3>2, <4>1
      <4>2. CASE to < base /\ ~(base < to + Len(words))
        <5>1. IsValue(c.locals[i])
          BY LocalsLeft DEF c, i
        <5>2. Len(words) \in Nat
          <6> DEFINE type == c.locals[i].type
          <6>1. type \in DOMAIN SizeOf /\ words = [j \in 1 .. SlotsOf(type) |-> words[j]]
            BY <5>1 DEF IsValue, words
          <6>2. SlotsOf(type) \in Nat
            <7> HIDE DEF type
            <7>1. SizeOf[type] \in Nat
              BY <6>1, StackAssumption
            <7>. QED  BY <7>1 DEF SlotsOf
          <6> HIDE DEF type
          <6>. QED  BY <6>1, <6>2, LenOfDomain
        <5>. QED  BY <3>1, <3>2, <4>2, <5>2
      <4>. QED  BY <3>1, <3>2, <4>1, <4>2
    <3>6. s.stack[a] = m.stack[a]
      <4>1. a \in DOMAIN m.stack
        BY <3>3, <3>4 DEF IsStack
      <4>. QED  BY <1>7, <3>5, <4>1 DEF Copied
    <3>7. s.contexts[a] = m.contexts[a]
      BY <1>7, <3>3, <3>4, <3>5
    <3>. QED  BY <3>6, <3>7
  <2>2. Tracked(s.stack, s.contexts, c)
    BY <1>1, <2>1, TrackedKept
  <2>3. ArgsOK(s) /\ ~(Len(s.calls) > Len(m.calls))
    BY <1>3, <1>5, <1>7, <2>2, LocalsArgs DEF AtBody, c
  <2>4. Given(m, i) = s
    BY <1>2, <1>9 DEF Checked
  <2>. QED  BY <2>3, <2>4 DEF Arrives, i
<1>. QED  BY <1>8, <1>9

\* It passes one to a function it calls.
LEMMA PassedArrives ==
  ASSUME NEW m, AtBody(m), m.status = "running", NEW i \in DOMAIN Top(m).locals,
         NEW f \in DOMAIN program.functions,
         Passed(m, f, i).next \in 0 .. StackSlots,
         /\ Passed(m, f, i).status = "running"
         /\ program.functions[Top(Passed(m, f, i)).function].kind = "c"
         => Passed(m, f, i).next + 2 <= StackSlots
  PROVE  Arrives(m, Passed(m, f, i))
<1> DEFINE local == Top(m).locals[i]
           locals == RemoveAt(Top(m).locals, i)
           rest == Remaining(m, locals)
           args == <<local>>
           r == Call(rest, f, args, NULL, m.ip)
<1>1. Passed(m, f, i) = r
  <2>1. rest = [m EXCEPT !.calls[Len(m.calls)].locals = RemoveAt(@, i)]
    <3> DEFINE old == Top(m).locals
    <3>1. old = m.calls[Len(m.calls)].locals
      BY DEF Top
    <3>2. rest = [m EXCEPT !.calls[Len(m.calls)].locals = RemoveAt(old, i)]
      BY DEF Remaining
    <3> HIDE DEF old, rest
    <3>. QED  BY <3>1, <3>2
  <2> HIDE DEF rest
  <2>2. Passed(m, f, i) =
          Call([m EXCEPT !.calls[Len(m.calls)].locals = RemoveAt(@, i)], f, args, NULL, m.ip)
    BY Zenon DEF Passed
  <2>. QED  BY <2>1, <2>2, Zenon
<1>2. AreLocals(locals) /\ IsValue(local)
  BY LocalsLeft
<1>3. OtherLocals(m, rest, locals) /\ BodyOK(rest) /\ SameBody(m, rest)
  BY RemainingLocals, LocalsChanged, RemainingKept DEF AtBody
<1>4. AreValues(args)
  <2> HIDE DEF local
  <2>. QED  BY <1>2 DEF AreValues
<1> HIDE DEF locals, local, rest, args
<1>5. IsThread(rest) /\ IsSeq(rest.calls) /\ FramesOK(rest)
  <2>1. IsThread(rest) /\ CallsOK(program, rest.calls) /\ rest.stack = m.stack
    BY <1>3 DEF BodyOK, SameBody
  <2>2. Like(rest, rest)
    BY <2>1 DEF Like
  <2>. QED  BY <1>3, <2>1, <2>2, BodyFramed DEF AtBody, CallsOK
<1>6. DOMAIN rest.contexts = Memory /\ rest.status = "running" /\ Len(rest.calls) = Len(m.calls)
  BY <1>3 DEF OtherLocals, AtBody
<1>7. \A k \in 1 .. Len(rest.calls) : CallArgs(rest.calls[k])
  <2>1. Tracked(rest.stack, rest.contexts, Top(m))
    BY <1>3, AtBodyCall DEF OtherLocals
  <2>2. ArgsOK(rest)
    BY <1>2, <1>3, <2>1, LocalsArgs DEF AtBody
  <2>. QED  BY <2>2 DEF ArgsOK
<1> HIDE DEF r
<1>8. /\ r.next \in 0 .. StackSlots
      /\ r.status = "running" /\ program.functions[Top(r).function].kind = "c" => r.next + 2 <= StackSlots
  BY <1>1
<1>9. Elsewhere(NULL, rest.next)
  BY DEF Elsewhere
<1>10. Arrives(rest, r)
  BY <1>4, <1>5, <1>6, <1>7, <1>8, <1>9, CallArrives DEF r, AtBody
<1>. QED  BY <1>1, <1>6, <1>10 DEF Arrives
-----------------------------------------------------------------------------
(***************************************************************************)
(* Arguments: every step of a thread.                                      *)
(***************************************************************************)

\* What is invariant together with Control and Frames.
Arguments == \A t \in Threads : Argued(threads[t])

\* A thread that executes a C function, and its next step.
LEMMA BodyOfThread ==
  ASSUME Control, Frames, Arguments, TypeOK, TrustKept, NEW t \in Threads,
         LET m == threads[t]
         IN  m.status = "running" /\ program.functions[Top(m).function].kind = "c"
  PROVE  LET m == threads[t]
             step == BodyStep(m)
         IN  /\ AtBody(m)
             /\ step.do = "pass" => step.function \in DOMAIN program.functions
             /\ step.do = "take" => step.arg \in 1 .. PositionsPerWord
<1> DEFINE m == threads[t]
           step == BodyStep(m)
<1>1. m.status = "running" /\ program.functions[Top(m).function].kind = "c"
  OBVIOUS
<1>2. AtBody(m)
  <2>1. BodyOK(m) /\ WellFormed(program) /\ FramesOK(m) /\ ArgsOK(m)
    BY <1>1 DEF Control, ControlOK, BodyOK, Frames, Framed, Arguments, Argued
  <2>2. /\ DOMAIN m.contexts = Memory
        /\ \A a \in Memory : m.contexts[a].type \in DOMAIN SizeOf \cup {"none"}
    BY DEF TypeOK
  <2>3. m.next + 2 <= StackSlots
    BY <1>1 DEF TrustKept, OffsetsFit
  <2>. QED  BY <2>1, <2>2, <2>3 DEF AtBody
<1>5. /\ step.do = "pass" => step.function \in DOMAIN program.functions
      /\ step.do = "take" => step.arg \in 1 .. PositionsPerWord
  <2> DEFINE f == Top(m).function
             fn == program.functions[f]
             pc == Top(m).pc
  <2>1. CallOK(program, Top(m))
    <3>1. Len(m.calls) \in 1 .. Len(m.calls)
      BY <1>2, AtBodyCall
    <3>. QED  BY <1>2, <3>1 DEF AtBody, BodyOK, CallsOK, Top
  <2>2. f \in DOMAIN program.functions /\ fn.kind = "c" /\ pc \in DOMAIN fn.code
    BY <1>1, <2>1 DEF CallOK
  <2>3. WellFormedFunction(fn, DOMAIN program.functions)
    BY <1>2, <2>2 DEF AtBody, WellFormed
  <2>4. step = fn.code[pc]
    BY DEF BodyStep
  <2> HIDE DEF step, fn, pc
  <2>. QED  BY <2>2, <2>3, <2>4 DEF WellFormedFunction
<1>. QED  BY <1>2, <1>5

\* A step of a C function.
LEMMA CStepArrives ==
  ASSUME Control, Frames, Arguments, TypeOK, TrustKept, NEW t \in Threads, CStep(t),
         threads'[t].next \in 0 .. StackSlots,
         /\ threads'[t].status = "running" /\ program.functions[Top(threads'[t]).function].kind = "c"
         => threads'[t].next + 2 <= StackSlots
  PROVE  \E s : Becomes(t, s) /\ Arrives(threads[t], s)
<1> DEFINE m == threads[t]
           step == BodyStep(m)
<1>1. /\ m.status = "running" /\ program.functions[Top(m).function].kind = "c"
      /\ \/ step.do = "take" /\ Becomes(t, Taken(m, step.arg))
         \/ step.do = "drop" /\ Becomes(t, Dropped(m, step.local))
         \/ step.do = "give" /\ Becomes(t, Given(m, step.local))
         \/ step.do = "pass" /\ Becomes(t, Passed(m, step.function, step.local))
         \/ step.do = "end" /\ Becomes(t, Finished(PopFrame(Unwound(m)), step.error))
  BY DEF CStep
<1>2. AtBody(m)
  BY <1>1, BodyOfThread
<1>3. Outside(m) \cap Reserved(m) = {}
  BY <1>1 DEF TrustKept
<1>4. step.do \in {"drop", "give", "pass"} => step.local \in DOMAIN Top(m).locals
  BY <1>1 DEF TrustKept, LocalsExist
<1>5. /\ step.do = "pass" => step.function \in DOMAIN program.functions
      /\ step.do = "take" => step.arg \in 1 .. PositionsPerWord
  BY <1>1, BodyOfThread
<1>6. ASSUME NEW s, Becomes(t, s)
      PROVE  threads'[t] = s
  BY <1>6 DEF Becomes, Control
<1> HIDE DEF m, step
<1>7. step = BodyStep(m)
  BY DEF step
<1>8. CASE step.do = "take" /\ Becomes(t, Taken(m, step.arg))
  BY <1>2, <1>5, <1>7, <1>8, TakenArrives DEF m
<1>9. CASE step.do = "drop" /\ Becomes(t, Dropped(m, step.local))
  BY <1>2, <1>4, <1>7, <1>9, DroppedArrives DEF m
<1>10. CASE step.do = "give" /\ Becomes(t, Given(m, step.local))
  BY <1>2, <1>3, <1>4, <1>7, <1>10, GivenArrives DEF m
<1>11. CASE step.do = "pass" /\ Becomes(t, Passed(m, step.function, step.local))
  <2> DEFINE s == Passed(m, step.function, step.local)
  <2>1. threads'[t] = s
    BY <1>6, <1>11
  <2>2. /\ s.next \in 0 .. StackSlots
        /\ s.status = "running" /\ program.functions[Top(s).function].kind = "c" => s.next + 2 <= StackSlots
    BY <2>1
  <2>3. Arrives(m, s)
    BY <1>1, <1>2, <1>4, <1>5, <1>11, <2>2, PassedArrives DEF m
  <2>. QED  BY <1>11, <2>3 DEF m
<1>12. CASE step.do = "end" /\ Becomes(t, Finished(PopFrame(Unwound(m)), step.error))
  <2>1. Arrives(m, Finished(PopFrame(Unwound(m)), step.error))
    BY <1>2, LeftArgs DEF AtBody, BodyOK, ArgsOK, Arrives
  <2>. QED  BY <1>12, <2>1 DEF m
<1>. QED  BY <1>1, <1>8, <1>9, <1>10, <1>11, <1>12 DEF m, step

\* A step of a script, or of a C function.
LEMMA StepArrives ==
  ASSUME Control, Frames, Arguments, TypeOK, TrustKept, NEW t \in Threads, Step(t),
         threads'[t].next \in 0 .. StackSlots,
         /\ threads'[t].status = "running" /\ program.functions[Top(threads'[t]).function].kind = "c"
         => threads'[t].next + 2 <= StackSlots
  PROVE  \E s : Becomes(t, s) /\ Arrives(threads[t], s)
<1> DEFINE m == threads[t]
           w == Word(m)
<1>1. ASSUME NEW ops, Executing(t, ops)
      PROVE  Runs(m, ops) /\ Outside(m) \cap Reserved(m) = {}
  <2>1. Executes(m, ops) /\ m.status = "running"
    BY <1>1 DEF Executing, Executes, Control
  <2>2. FramesOK(m)
    BY <2>1 DEF Frames, Framed
  <2>3. Typed(m)
    BY DEF TypeOK, Typed
  <2>. QED  BY <2>1, <2>2, <2>3 DEF Runs, TrustKept
<1>2. ASSUME NEW ops, Executing(t, ops), NEW s, Proceeds(m, s)
      PROVE  Arrives(m, s)
  <2>1. /\ IsThread(m) /\ CallsOK(program, m.calls) /\ m.calls # << >>
        /\ program.functions[Top(m).function].kind = "script"
    BY <1>1, <1>2, AtFrame DEF Executing
  <2>2. ArgsOK(m) /\ WellFormed(program)
    BY <1>1, <1>2 DEF Executing, Arguments, Argued, Control
  <2>. QED  BY <1>2, <2>1, <2>2, ProceedsArrives
<1>3. ASSUME NEW ops, Executing(t, ops), \E s : Becomes(t, s) /\ Proceeds(m, s)
      PROVE  \E s : Becomes(t, s) /\ Arrives(m, s)
  BY <1>2, <1>3
<1>4. CASE Load(t)
  BY <1>1, <1>3, <1>4, LoadFramed DEF Load
<1>5. CASE Return(t)
  BY <1>1, <1>3, <1>5, ReturnFramed DEF Return
<1>6. CASE DoCall(t)
  <2>1. Runs(m, {"call"}) /\ Becomes(t, Called(m)) /\ m.status = "running"
    BY <1>1, <1>6 DEF DoCall, Executing
  <2>2. /\ w.opType = "src" /\ HasValue(m, w.funcSrc) /\ ContextAt(m, w.funcSrc) = "function"
        => ValueAt(m, w.funcSrc)[1][2] \in DOMAIN program.functions
    BY <2>1 DEF Runs, Executes, TrustKept, CalleesExist, CallsValue
  <2>3. threads'[t] = Called(m)
    BY <2>1 DEF Becomes, Control
  <2>4. /\ Called(m).next \in 0 .. StackSlots
        /\ Called(m).status = "running" /\ program.functions[Top(Called(m)).function].kind = "c"
           => Called(m).next + 2 <= StackSlots
    BY <2>3
  <2>5. DOMAIN m.contexts = Memory /\ ArgsOK(m)
    BY <2>1 DEF TypeOK, Arguments, Argued
  <2>. QED  BY <2>1, <2>2, <2>4, <2>5, CalledArrives
<1>7. CASE Jump(t)
  BY <1>1, <1>3, <1>7, JumpSyncFramed DEF Jump
<1>8. CASE DeinitMoveClone(t)
  BY <1>1, <1>3, <1>8, DeinitMoveCloneFramed DEF DeinitMoveClone
<1>9. CASE Refer(t)
  BY <1>1, <1>3, <1>9, StoringFramed DEF Refer
<1>10. CASE SetReference(t)
  <2>1. Runs(m, {"setReference"}) /\ Outside(m) \cap Reserved(m) = {} /\ Executing(t, {"setReference"})
    BY <1>1, <1>10 DEF SetReference
  <2>2. Becomes(t, Checked(m, MaySetReference(m),
                           Advanced(WrittenThrough(m, w.dst, 0, ValueAt(m, w.src)), 1)))
    BY <1>10 DEF SetReference
  <2>. QED  BY <1>3, <2>1, <2>2, SetReferenceFramed
<1>11. CASE SetMember(t)
  <2> DEFINE slot == MembersOf[MemberTarget(m, w.dst).type][w.memberIndex + 1].slot
  <2>1. Runs(m, {"setMember"}) /\ Outside(m) \cap Reserved(m) = {} /\ Executing(t, {"setMember"})
    BY <1>1, <1>11 DEF SetMember
  <2>2. Becomes(t, Checked(m, MaySetMember(m),
                           Advanced(WrittenThrough(m, w.dst, slot, ValueAt(m, w.src)), 1)))
    BY <1>11 DEF SetMember
  <2>. QED  BY <1>3, <2>1, <2>2, SetMemberFramed
<1>12. CASE Compare(t)
  BY <1>1, <1>3, <1>12, StoringFramed DEF Compare
<1>13. CASE Arithmetic(t)
  BY <1>1, <1>3, <1>13, ArithmeticFramed DEF Arithmetic
<1>14. CASE Sync(t)
  <2> DEFINE may == \A source \in ToSet(LockSources(m)) : MayLock(m, source)
             k == IF w.num > 2 THEN 1 + SourceWords(w.num - 2) ELSE 1
  <2>1. Runs(m, {"sync"}) /\ Becomes(t, Checked(m, may, Advanced(m, k))) /\ Executing(t, {"sync"})
    BY <1>1, <1>14 DEF Sync
  <2> HIDE DEF may, k
  <2>. QED  BY <1>3, <2>1, JumpSyncFramed
<1>15. CASE Unsync(t)
  BY <1>1, <1>3, <1>15, JumpSyncFramed DEF Unsync
<1>16. CASE CStep(t)
  BY <1>16, CStepArrives
<1>17. CASE Nop(t)
  BY <1>1, <1>3, <1>17, JumpSyncFramed DEF Nop
<1>. QED  BY <1>4, <1>5, <1>6, <1>7, <1>8, <1>9, <1>10, <1>11, <1>12, <1>13, <1>14, <1>15, <1>16,
             <1>17 DEF Step

\* The function that the host of a thread has called.
LEMMA StartedArrives ==
  ASSUME WellFormed(program), NEW t \in Threads,
         LET s == Started(program.start[t])
         IN  /\ ControlOK(program, s) /\ s.next \in 0 .. StackSlots
             /\ s.status = "running" /\ program.functions[Top(s).function].kind = "c" =>
                  s.next + 2 <= StackSlots
  PROVE  LET s == Started(program.start[t]) IN  Argued(s) /\ ArgsInSlots(s)
<1> DEFINE start == program.start[t]
           f == start.function
           new == [ip |-> [function |-> f, at |-> 1], calls |-> << >>,
                   objects |-> start.objects, excused |-> {},
                   status |-> IF f = "none" THEN "ended" ELSE "running",
                   next |-> NewStack.next, frame |-> NewStack.frame,
                   stack |-> NewStack.stack, contexts |-> NewStack.contexts]
           words == Copied(new.stack, StackSlots, start.hostWords)
           contexts == WithContext(new.contexts, StackSlots, OwningContext(start.hostType))
           m == IF start.hostType = "none" THEN new
                ELSE [new EXCEPT
                        !.stack = Copied(@, StackSlots, start.hostWords),
                        !.contexts = WithContext(@, StackSlots, OwningContext(start.hostType))]
           s == Started(start)
<1>1. IsThread(new) /\ new.calls = << >> /\ new.next = 0 /\ IsStack(new.stack)
      /\ DOMAIN new.contexts = Memory
  BY DEF IsThread, Fields, IsPointer, NewStack, IsStack
<1>2. IsStack(words)
  <2> DEFINE old == new.stack
  <2>1. IsStack(old)
    BY <1>1
  <2> HIDE DEF old
  <2>2. IsStack(Copied(old, StackSlots, start.hostWords))
    BY <2>1 DEF Copied, IsStack
  <2>. QED  BY <2>2 DEF old
<1>3. DOMAIN contexts = Memory
  <2> DEFINE old == new.contexts
  <2>1. DOMAIN old = Memory
    BY <1>1
  <2> HIDE DEF old
  <2>. QED  BY <2>1 DEF WithContext, old
<1>4. /\ IsThread(m) /\ m.calls = << >> /\ m.next = 0 /\ IsStack(m.stack)
      /\ DOMAIN m.contexts = Memory /\ m.status = new.status
  <2>1. m \in {new, [new EXCEPT !.stack = words, !.contexts = contexts]}
    <3> HIDE DEF new
    <3>. QED  BY Zenon
  <2> HIDE DEF m, new, words, contexts
  <2>. QED  BY <1>1, <1>2, <1>3, <2>1 DEF IsThread, Fields, IsPointer
<1>5. s = IF f = "none" THEN m ELSE Call(m, f, start.args, start.returnDst, m.ip)
  BY Zenon DEF Started
<1>6. /\ f \in DOMAIN program.functions \cup {"none"}
      /\ start.returnDst \in {NULL} \cup (StackSlots .. StackSlots + HostSlots - 1)
      /\ AreValues(start.args)
  BY DEF WellFormed, AreValues
<1>7. f # "none" => m.status = "running"
  BY <1>4
<1> HIDE DEF m, new, words, contexts, s, f, start
<1>8. FramesOK(m) /\ IsSeq(m.calls) /\ Len(m.calls) = 0
  BY <1>4 DEF FramesOK, Chain, IsSeq
<1>9. CASE f = "none"
  <2>1. s.calls = << >> /\ Len(s.calls) = 0
    BY <1>4, <1>5, <1>8, <1>9
  <2>. QED  BY <2>1 DEF Argued, ArgsOK, ArgsInSlots, s, start
<1>10. CASE f # "none"
  <2>1. s = Call(m, f, start.args, start.returnDst, m.ip)
    BY <1>5, <1>10
  <2>2. /\ s.next \in 0 .. StackSlots
        /\ s.status = "running" /\ program.functions[Top(s).function].kind = "c" =>
             s.next + 2 <= StackSlots
    BY DEF s, start
  <2>3. Elsewhere(start.returnDst, m.next)
    BY <1>6, StackAssumption DEF Elsewhere
  <2>4. \A i \in 1 .. Len(m.calls) : CallArgs(m.calls[i])
    BY <1>8
  <2>5. Arrives(m, s)
    BY <1>4, <1>6, <1>7, <1>8, <1>10, <2>1, <2>2, <2>3, <2>4, CallArrives
  <2>6. s.calls # << >> => Len(s.calls) > 0
    <3>1. CallsOK(program, s.calls)
      BY DEF ControlOK, s, start
    <3>2. s.calls # << >> => Len(s.calls) \in Nat \ {0}
      BY <3>1, CallsFront
    <3>. QED  BY <3>2
  <2>7. s.status # "aborted" => ArgsOK(s) /\ (s.calls # << >> => ArgsInSlots(s))
    BY <1>8, <2>5, <2>6 DEF Arrives
  <2>8. ArgsInSlots(s)
    BY <2>7 DEF ArgsInSlots, Alive
  <2>. QED  BY <2>7, <2>8 DEF Argued, s, start
<1>. QED  BY <1>9, <1>10

\* What a C function takes before it calls another is what it was passed.
LEMMA TakesArg ==
  ASSUME Control, Frames, Arguments, TypeOK, TrustKept, NEW t \in Threads, CStep(t),
         Takes(t), ~HasCalled(Top(threads[t]))
  PROVE  TakesWhatWasPassed(t)
<1> DEFINE m == threads[t]
           step == BodyStep(m)
           i == step.arg
           s == Taken(m, i)
<1>1. /\ m.status = "running" /\ program.functions[Top(m).function].kind = "c" /\ step.do = "take"
      /\ Becomes(t, s)
  BY DEF Takes, CStep
<1>2. threads'[t] = s /\ s.status # "aborted"
  BY <1>1 DEF Becomes, Control, Takes, Alive
<1>3. AtBody(m) /\ i \in 1 .. PositionsPerWord
  BY <1>1, BodyOfThread
<1> DEFINE c == Top(m)
           position == ArgPosition(m, c.frame.base, c.offset, i)
           local == [words |-> ValueAt(m, position), type |-> ContextAt(m, position)]
           r == Stepped(m, Append(c.locals, local))
<1>4. /\ i <= Len(c.args) /\ HasValue(m, position)
      /\ OtherLocals(m, r, Append(c.locals, local)) /\ s.calls = r.calls
  <2>1. BodyStep(m).do # "end"
    BY <1>1
  <2> HIDE DEF i, m
  <2>. QED  BY <1>2, <1>3, <2>1, TakenMade
<1>5. local.words = c.args[i].words /\ local.type = c.args[i].type
  <2> HIDE DEF i
  <2>. QED  BY <1>3, <1>4, TakenLocal
<1>6. Top(s).locals = Append(c.locals, local)
  <2> HIDE DEF r, s, local
  <2>1. Top(s) = Top(r)
    BY <1>4 DEF Top
  <2>. QED  BY <1>4, <2>1 DEF OtherLocals
<1>7. Last(Append(c.locals, local)) = local
  <2>1. PICK S : c.locals \in Seq(S)
    BY <1>3, AtBodyCall DEF CallArgs, AreLocals
  <2> HIDE DEF c, local
  <2>2. c.locals \in Seq(S \cup {local}) /\ local \in S \cup {local}
    BY <2>1
  <2>. QED  BY <2>2, AppendProperties DEF Last
<1> HIDE DEF local, s, i, c
<1>. QED  BY <1>2, <1>5, <1>6, <1>7 DEF TakesWhatWasPassed, i, c

\* No other step is taken while a C function executes.
LEMMA CFunctionSteps ==
  ASSUME NEW t, Step(t), program.functions[Top(threads[t]).function].kind = "c"
  PROVE  CStep(t)
<1>1. \A ops : ~Executing(t, ops)
  BY DEF Executing
<1>. QED  BY <1>1, Zenon
          DEF Step, Nop, Load, Return, DoCall, Jump, DeinitMoveClone, Refer, SetReference, SetMember,
              Compare, Arithmetic, Sync, Unsync

\* The arguments before the first step.
LEMMA ArgumentsInit ==
  Init /\ TypeOK /\ TrustKept => Arguments /\ \A t \in Threads : ArgsInSlots(threads[t])
<1>. SUFFICES ASSUME Init, TypeOK, TrustKept, NEW t \in Threads
              PROVE  Argued(threads[t]) /\ ArgsInSlots(threads[t])
  BY DEF Arguments
<1>1. WellFormed(program) /\ ControlOK(program, threads[t])
  BY ControlInit DEF Control
<1>2. threads[t] = Started(program.start[t])
  BY DEF Init
<1>3. threads[t].next \in 0 .. StackSlots
  BY DEF TypeOK
<1>4. threads[t].status = "running" /\ program.functions[Top(threads[t]).function].kind = "c" =>
        threads[t].next + 2 <= StackSlots
  BY DEF TrustKept, OffsetsFit
<1>. QED  BY <1>1, <1>2, <1>3, <1>4, StartedArrives

\* What a step does to the arguments of all threads.
ArgumentsKept ==
  \A t \in Threads : /\ Len(threads'[t].calls) > Len(threads[t].calls) => ArgsInSlots(threads'[t])
                     /\ Takes(t) /\ ~HasCalled(Top(threads[t])) => TakesWhatWasPassed(t)

\* The arguments after a step.
LEMMA ArgumentsNext ==
  Control /\ Control' /\ Frames /\ Arguments /\ TypeOK /\ TypeOK' /\ TrustKept /\ TrustKept' /\ Next
  => Arguments' /\ ArgumentsKept
<1>. SUFFICES ASSUME Control, Control', Frames, Arguments, TypeOK, TypeOK', TrustKept, TrustKept',
                     NEW t \in Threads, Step(t)
              PROVE  Arguments' /\ ArgumentsKept
  BY DEF Next
<1>1. program' = program
  BY StepFramed DEF Becomes, TypeOK
<1>2. PICK s : Becomes(t, s) /\ Arrives(threads[t], s)
  <2>1. threads'[t].next \in 0 .. StackSlots
    BY DEF TypeOK
  <2>2. /\ threads'[t].status = "running" /\ program.functions[Top(threads'[t]).function].kind = "c"
        => threads'[t].next + 2 <= StackSlots
    BY <1>1 DEF TrustKept, OffsetsFit, Top
  <2>. QED  BY <2>1, <2>2, StepArrives
<1>3. \A u \in Threads : threads'[u] = IF u = t THEN s ELSE threads[u]
  BY <1>2 DEF Becomes, Control
<1>4. ASSUME NEW u \in Threads
      PROVE  /\ Argued(threads'[u])
             /\ Takes(u) /\ ~HasCalled(Top(threads[u])) => TakesWhatWasPassed(u)
             /\ Len(threads'[u].calls) > Len(threads[u].calls) => ArgsInSlots(threads'[u])
  <2>1. Argued(threads'[u])
    BY <1>2, <1>3 DEF Arguments, Argued, Arrives
  <2>3. ASSUME Takes(u), ~HasCalled(Top(threads[u]))
        PROVE  TakesWhatWasPassed(u)
    <3>1. u = t /\ program.functions[Top(threads[t]).function].kind = "c"
      BY <1>3, <2>3 DEF Takes
    <3>2. CStep(t)
      BY <3>1, CFunctionSteps
    <3>. QED  BY <2>3, <3>1, <3>2, TakesArg
  <2>4. Len(threads'[u].calls) > Len(threads[u].calls) => ArgsInSlots(threads'[u])
    <3>1. CASE u = t
      <4>1. s.status = "aborted" => ArgsInSlots(s)
        BY DEF ArgsInSlots, Alive
      <4>. QED  BY <1>2, <1>3, <3>1, <4>1 DEF Arrives
    <3>2. CASE u # t
      <4>1. threads'[u] = threads[u] /\ CallsOK(program, threads[u].calls)
        BY <1>3, <3>2 DEF Control, ControlOK
      <4>2. Len(threads[u].calls) \in Nat
        BY <4>1, CallsFront
      <4>. QED  BY <4>1, <4>2
    <3>. QED  BY <3>1, <3>2
  <2>. QED  BY <2>1, <2>3, <2>4
<1>5. ASSUME NEW u \in Threads
      PROVE  Argued(threads[u])'
  BY <1>1, <1>4 DEF Argued, ArgsOK, CallArgs, Tracked, HasCalled, Top
<1>. QED  BY <1>4, <1>5 DEF Arguments, ArgumentsKept

\* function_call_args.c and execute_call: every call gives the function that is called
\* the values it is passed in its first slots, and what a C function takes before it
\* calls another is the argument that was passed at that position; as long as the stack
\* does not overflow, which nothing checks, and as values are written into the slots that
\* are there for them.
THEOREM ArgumentsAlwaysArrive == Spec /\ []TypeOK /\ []TrustKept => ArgumentsArrive
<1> DEFINE Invariant == Control /\ Frames /\ Arguments
<1>1. Init /\ TypeOK /\ TrustKept => Invariant /\ \A t \in Threads : ArgsInSlots(threads[t])
  BY ControlInit, FramesInit, ArgumentsInit
<1>2. /\ Invariant /\ TypeOK /\ TypeOK' /\ TrustKept /\ TrustKept' /\ [Next]_vars
      => Invariant' /\ [ArgumentsKept]_vars
  <2>. SUFFICES ASSUME Invariant, TypeOK, TypeOK', TrustKept, TrustKept', [Next]_vars
                PROVE  Invariant' /\ [ArgumentsKept]_vars
    OBVIOUS
  <2>1. Control' /\ Frames'
    BY ControlNext, FramesNext DEF TrustKept
  <2>2. CASE Next
    BY <2>1, <2>2, ArgumentsNext
  <2>3. CASE UNCHANGED vars
    <3>1. program' = program /\ threads' = threads
      BY <2>3 DEF vars
    <3>2. ASSUME NEW u \in Threads
          PROVE  Argued(threads[u])'
      <4>1. Argued(threads'[u]) /\ program' = program
        BY <3>1 DEF Arguments
      <4>. QED  BY <4>1 DEF Argued, ArgsOK, CallArgs, Tracked, HasCalled, Top
    <3>. QED  BY <2>1, <2>3, <3>2 DEF Arguments
  <2>. QED  BY <2>2, <2>3
<1> HIDE DEF Invariant
<1>. QED  BY <1>1, <1>2, PTL DEF Spec, ArgumentsArrive, ArgumentsKept
=============================================================================
