----------------------------- MODULE ContextWays -----------------------------
(***************************************************************************)
(* A value of some type in a container, and the ways that                  *)
(* cubs_context_fast_* of src/src/primitives/context.c take for it.        *)
(***************************************************************************)
EXTENDS Contexts

VARIABLE held                \* the type of the value

\* A call of a context's function is of the prototype the function has; excepted are a
\* destructor that takes a mutable reference, as context.h has it but no caller, and the
\* order of a type of the host.  A container that clones, compares or hashes a built-in type fails
\* the assertion that there is a function just for the types that have none; keys of a
\* type that can be hashed can be told apart; and an order is got to without a call.
WaysAreGood ==
  held \in Types =>
    /\ DeinitWay(held) = "broken" => Context(held).destructor = DeinitsByReference(held)
    /\ "broken" \notin {CloneWay(held), EqlWay(held), HashWay(held)}
    /\ held \in BuiltIn =>
         /\ CloneWay(held) = "fails" <=> held \in {"ordering", "result", "unique"}
         /\ EqlWay(held) = "fails" => HashWay(held) = "fails"
         /\ CompareWay(held) \in {"direct", "fails"}
=============================================================================
