------------------------------ MODULE Arithmetic ------------------------------
(***************************************************************************)
(* Two numbers, and what src/src/util/math.c says of them.                 *)
(***************************************************************************)
EXTENDS Numbers

VARIABLE input               \* of an algorithm: here, of two numbers

Fits(n) == n \in Ints

\* The powers of a number.
Powers(a) == LET power[e \in 0 .. IntMax] == IF e = 0 THEN 1 ELSE a * power[e - 1] IN power

\* The checks say of two numbers whether the exact result fits, the one of products as
\* far as it gives an answer; and so does the power of a number to one that is
\* not negative, which is exact if it fits.
NumbersExact(a, b) ==
  LET p == IPow(a, b)
  IN  /\ AddOverflows(a, b) = ~Fits(a + b)
      /\ SubOverflows(a, b) = ~Fits(a - b)
      /\ ~MulTraps(a, b) => MulOverflows(a, b) = ~Fits(a * b)
      /\ b >= 0 /\ ~p.trap => /\ p.over = ~Fits(Powers(a)[b])
                              /\ p.out = Wrapped(Powers(a)[b])

\* math.c: the checks and the power are exact, whatever numbers they are asked about.
ArithmeticExact == input \in Ints \X Ints => NumbersExact(input[1], input[2])
=============================================================================
