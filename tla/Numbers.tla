------------------------------- MODULE Numbers -------------------------------
(***************************************************************************)
(* The checked arithmetic of src/src/util/math.c, which the interpreter    *)
(* asks before it adds, on signed integers of any width.                   *)
(***************************************************************************)
EXTENDS Integers

CONSTANTS IntMin, IntMax     \* INT64_MIN and INT64_MAX

ASSUME TwosComplement == IntMin \in Int /\ IntMax \in Int /\ IntMin = -IntMax - 1 /\ IntMax > 0

Ints == IntMin .. IntMax
Width == IntMax - IntMin + 1
Wrapped(n) == ((n - IntMin) % Width) + IntMin

\* Division in C rounds towards 0; on x86-64, IntMin / -1 is a trap.
Magnitude(n) == IF n < 0 THEN -n ELSE n
Quotient(a, b) ==
  IF (a < 0) = (b < 0) THEN Magnitude(a) \div Magnitude(b) ELSE -(Magnitude(a) \div Magnitude(b))

\* A mutant: the other bound for sums with a negative number.
AddOverflowsAbove(a, b) == IF a >= 0 THEN b > IntMax - a ELSE b > IntMax - a

\* cubs_math_would_add_overflow.
AddOverflows(a, b) == IF a >= 0 THEN b > IntMax - a ELSE b < IntMin - a

\* cubs_math_would_sub_overflow.
SubOverflows(a, b) == (b > 0 /\ a < IntMin + b) \/ (b < 0 /\ a > IntMax + b)

\* cubs_math_would_mul_overflow, where it comes to an answer.
MulOverflows(a, b) ==
  \/ a = IntMin /\ b = -1
  \/ a = -1 /\ b = IntMin
  \/ b > 0 /\ (a > Quotient(IntMax, b) \/ a < Quotient(IntMin, b))
  \/ b < 0 /\ (a < Quotient(IntMax, b) \/ a > Quotient(IntMin, b))

\* It divides IntMin by -1, for every product with -1 that does not overflow.
MulTraps(a, b) == b = -1 /\ a # IntMin

\* In the loop of cubs_math_ipow_overflow: a product of two of its numbers, and
\* whether the check before it says that it overflows, or traps.
Times(s, a, b) ==
  [s EXCEPT !.out = Wrapped(a * b), !.over = @ \/ MulOverflows(a, b),
            !.trap = @ \/ MulTraps(a, b)]

\* A turn of the loop: an odd exponent multiplies the result, and the base is squared.
Turn(s) ==
  LET product == IF s.exp % 2 = 1 THEN Times(s, s.out, s.base) ELSE s
      square == Times(product, s.base, s.base)
  IN  [square EXCEPT !.out = product.out, !.base = square.out, !.exp = s.exp \div 2]

\* cubs_math_ipow_overflow: its result, whether it says that it overflowed, and
\* whether it trapped on the way.
IPow(base, exp) ==
  LET loop[k \in 0 .. IntMax] ==
        IF k = 0 THEN [out |-> 1, base |-> base, exp |-> exp, over |-> FALSE, trap |-> FALSE]
        ELSE LET s == loop[k - 1] IN IF s.exp <= 1 THEN s ELSE Turn(s)
      end == loop[IntMax]
  IN  IF end.exp = 1 THEN Times(end, end.out, end.base) ELSE end
=============================================================================
