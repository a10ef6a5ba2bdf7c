------------------------------ MODULE Contexts ------------------------------
(***************************************************************************)
(* The type contexts of src/src/primitives/context.c: for each type its    *)
(* size and its functions, and cubs_context_fast_*, the ways to them.      *)
(*                                                                         *)
(* A function is a handler that the interpreter calls with its arguments   *)
(* in the stack.  It TAKES values or references, asserts their types, and  *)
(* sets a result of the type it RETURNS, which its caller asserts in turn. *)
(* The fast paths do without a call for the types they know.               *)
(***************************************************************************)
EXTENDS Integers, Sequences

CONSTANT UserContexts   \* the contexts of the host's and scripts' own types

\* Arguments: a value itself, and references to one.
ByValue(type) == <<"value", type>>
ByConstRef(type) == <<"constRef", type>>
ByMutRef(type) == <<"mutRef", type>>

Handler(takes, returns) == [takes |-> takes, returns |-> returns]
NoFunction == Handler(<< >>, "none")

\* A function that ends in an assertion, or reads memory that is not its own.
Broken == Handler(<< >>, "garbage")

\* The destructors of the built-in types take the value, the one that context.h
\* documents takes a mutable reference to it.
Deinits(type) == Handler(<<ByValue(type)>>, "nothing")
DeinitsByReference(type) == Handler(<<ByMutRef(type)>>, "nothing")
Clones(type) == Handler(<<ByConstRef(type)>>, type)
Compares(type) == Handler(<<ByConstRef(type), ByConstRef(type)>>, "bool")
Orders(type) == Handler(<<ByConstRef(type), ByConstRef(type)>>, "ordering")
Hashes(type) == Handler(<<ByConstRef(type)>>, "int")

\* bool_eql and bool_compare take both arguments into lhs; bool_hash reads 8 bytes.
BoolContext == [size |-> 1, destructor |-> NoFunction, clone |-> Clones("bool"),
                eql |-> Broken, compare |-> Broken, hash |-> Broken]
IntContext == [size |-> 8, destructor |-> NoFunction, clone |-> Clones("int"), eql |-> Compares("int"),
               compare |-> Orders("int"), hash |-> Hashes("int")]
FloatContext == [size |-> 8, destructor |-> NoFunction, clone |-> Clones("float"),
                 eql |-> Compares("float"), compare |-> Orders("float"), hash |-> Hashes("float")]
CharContext == [size |-> 4, destructor |-> NoFunction, clone |-> Clones("char"),
                eql |-> Compares("char"), compare |-> Orders("char"), hash |-> Hashes("char")]
StringContext == [size |-> 32, destructor |-> Deinits("string"), clone |-> Clones("string"),
                  eql |-> Compares("string"), compare |-> Orders("string"),
                  hash |-> Hashes("string")]
OrderingContext == [size |-> 4, destructor |-> NoFunction, clone |-> NoFunction, eql |-> NoFunction,
                    compare |-> NoFunction, hash |-> NoFunction]
ArrayContext == [size |-> 32, destructor |-> Deinits("array"), clone |-> Clones("array"),
                 eql |-> Compares("array"), compare |-> NoFunction, hash |-> Hashes("array")]
SetContext == [size |-> 64, destructor |-> Deinits("set"), clone |-> Clones("set"),
               eql |-> Compares("set"), compare |-> NoFunction, hash |-> Hashes("set")]
MapContext == [size |-> 64, destructor |-> Deinits("map"), clone |-> Clones("map"),
               eql |-> Compares("map"), compare |-> NoFunction, hash |-> Hashes("map")]
OptionContext == [size |-> 48, destructor |-> Deinits("option"), clone |-> Clones("option"),
                  eql |-> Compares("option"), compare |-> NoFunction, hash |-> Hashes("option")]
ErrorContext == [size |-> 48, destructor |-> Deinits("error"), clone |-> Clones("error"),
                 eql |-> Compares("error"), compare |-> NoFunction, hash |-> Hashes("error")]
ResultContext == [size |-> 64, destructor |-> Deinits("result"), clone |-> NoFunction, eql |-> NoFunction,
                  compare |-> NoFunction, hash |-> NoFunction]
UniqueContext == [size |-> 16, destructor |-> Deinits("unique"), clone |-> NoFunction, eql |-> NoFunction,
                  compare |-> NoFunction, hash |-> NoFunction]
\* The functions of shared and weak pointers assert the context of an error.
SharedContext == [size |-> 16, destructor |-> Deinits("error"),
                  clone |-> Handler(<<ByConstRef("error")>>, "shared"), eql |-> Compares("error"),
                  compare |-> NoFunction, hash |-> NoFunction]
WeakContext == [size |-> 16, destructor |-> Deinits("error"),
                clone |-> Handler(<<ByConstRef("error")>>, "weak"), eql |-> Compares("error"),
                compare |-> NoFunction, hash |-> NoFunction]
FunctionContext == [size |-> 16, destructor |-> NoFunction, clone |-> Clones("function"),
                    eql |-> Compares("function"), compare |-> NoFunction, hash |-> Hashes("function")]
ConstRefContext == [size |-> 16, destructor |-> NoFunction, clone |-> Clones("constRef"),
                    eql |-> Compares("constRef"), compare |-> NoFunction, hash |-> Hashes("constRef")]
\* mut_ref_hash asserts the context of a const reference.
MutRefContext == [size |-> 16, destructor |-> NoFunction, clone |-> Clones("mutRef"),
                  eql |-> Compares("mutRef"), compare |-> NoFunction, hash |-> Hashes("constRef")]

Context(type) ==
  CASE type = "bool" -> BoolContext         [] type = "int" -> IntContext
    [] type = "float" -> FloatContext       [] type = "char" -> CharContext
    [] type = "string" -> StringContext     [] type = "ordering" -> OrderingContext
    [] type = "array" -> ArrayContext       [] type = "set" -> SetContext
    [] type = "map" -> MapContext           [] type = "option" -> OptionContext
    [] type = "error" -> ErrorContext       [] type = "result" -> ResultContext
    [] type = "unique" -> UniqueContext     [] type = "shared" -> SharedContext
    [] type = "weak" -> WeakContext         [] type = "function" -> FunctionContext
    [] type = "constRef" -> ConstRefContext [] type = "mutRef" -> MutRefContext
    [] OTHER -> UserContexts[type]

BuiltIn ==
  {"bool", "int", "float", "char", "string", "ordering", "array", "set", "map", "option",
   "error", "result", "unique", "shared", "weak", "function", "constRef", "mutRef"}

Types == BuiltIn \cup DOMAIN UserContexts

\* Functions of the prototypes that context.h documents, where there are any; the
\* destructor may be one that takes the value, as those of the built-in types do.
ASSUME UserContextsAssumption ==
  \A type \in DOMAIN UserContexts :
    LET c == UserContexts[type]
    IN  /\ type \notin BuiltIn
        /\ c.destructor \in {NoFunction, Deinits(type), DeinitsByReference(type)}
        /\ c.clone \in {NoFunction, Clones(type)} /\ c.eql \in {NoFunction, Compares(type)}
        /\ c.compare \in {NoFunction, Orders(type)} /\ c.hash \in {NoFunction, Hashes(type)}
-----------------------------------------------------------------------------
(***************************************************************************)
(* The fast paths.  A way is what happens to a value of a type: nothing;   *)
(* what the type's own C function does; a call of the context's function   *)
(* with the arguments PASSED, which is broken unless the function takes    *)
(* those and returns what the caller asserts; or a failed assertion that   *)
(* there is a function.                                                    *)
(***************************************************************************)

Containers == {"array", "set", "map", "option", "error"}

\* The branches for the types that are handled without a call, and the one with a call.
Way(function, type, direct, passed, returns) ==
  IF type \in direct THEN "direct"
  ELSE IF function = Handler(passed, returns) THEN "call" ELSE "broken"

\* The assertion of all but the destructor's: the context has a function.
AssertedWay(function, way) == IF function = NoFunction THEN "fails" ELSE way

\* A mutant: the branches of the pointers are missing.
DeinitWayOfValues(type) ==
  IF Context(type).destructor = NoFunction THEN "nothing"
  ELSE Way(Context(type).destructor, type, Containers \cup {"string", "result"},
           <<ByValue(type)>>, "nothing")

\* cubs_context_fast_deinit, which passes the value itself.
DeinitWay(type) ==
  IF Context(type).destructor = NoFunction THEN "nothing"
  ELSE Way(Context(type).destructor, type,
           Containers \cup {"string", "result", "unique", "shared", "weak"},
           <<ByValue(type)>>, "nothing")

\* cubs_context_fast_clone.
CloneWay(type) ==
  AssertedWay(Context(type).clone,
    Way(Context(type).clone, type,
        Containers \cup {"bool", "int", "float", "char", "string", "shared", "weak", "function",
                         "constRef", "mutRef"}, <<ByConstRef(type)>>, type))

\* cubs_context_fast_eql, where the branch of functions tests for a weak pointer again.
EqlWay(type) ==
  AssertedWay(Context(type).eql,
    Way(Context(type).eql, type,
        Containers \cup {"bool", "int", "float", "char", "string", "shared", "weak",
                         "constRef", "mutRef"}, <<ByConstRef(type), ByConstRef(type)>>, "bool"))

\* cubs_context_fast_compare, which calls the function for equality.
CompareWay(type) ==
  AssertedWay(Context(type).compare,
    Way(Context(type).eql, type, {"bool", "int", "float", "char", "string"},
        <<ByConstRef(type), ByConstRef(type)>>, "ordering"))

\* cubs_context_fast_hash, without a branch for arrays.
HashWay(type) ==
  AssertedWay(Context(type).hash,
    Way(Context(type).hash, type,
        {"bool", "int", "float", "char", "string", "set", "map", "option", "error", "function",
         "constRef", "mutRef"}, <<ByConstRef(type)>>, "int"))
=============================================================================
