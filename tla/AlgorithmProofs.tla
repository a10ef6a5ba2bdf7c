-------------------------- MODULE AlgorithmProofs --------------------------
(***************************************************************************)
(* The pure algorithms of the program, for every input: the overflow       *)
(* checks and the power of src/src/util/math.c for every width of numbers, *)
(* strings of src/src/primitives/string/string.c with the check of their   *)
(* encoding and the vector operations they use, for every two texts, the   *)
(* ways to the functions of any type's context in                          *)
(* src/src/primitives/context.c, and the tokens of                         *)
(* src/src/compiler/tokenizer.c for every source.                          *)
(***************************************************************************)
EXTENDS Arithmetic, Strings, ContextWays, TokenIteration, NatLemmas, SequenceTheorems

\* cubs_math_would_add_overflow is right for every two integers of any width.
THEOREM AddOverflowsExact ==
  ASSUME NEW a \in Ints, NEW b \in Ints
  PROVE  AddOverflows(a, b) <=> ~Fits(a + b)
BY TwosComplement DEF AddOverflows, Fits, Ints

\* cubs_math_would_sub_overflow is right for every two integers of any width.
THEOREM SubOverflowsExact ==
  ASSUME NEW a \in Ints, NEW b \in Ints
  PROVE  SubOverflows(a, b) <=> ~Fits(a - b)
BY TwosComplement DEF SubOverflows, Fits, Ints

\* The quotient of two natural numbers is the greatest factor that fits.
LEMMA QuotientFits ==
  ASSUME NEW n \in Nat, NEW c \in Nat \ {0}
  PROVE  n \div c \in Nat /\ (n \div c) * c <= n /\ n < (n \div c + 1) * c
OBVIOUS

\* Products with a positive number grow with the other one.
LEMMA ProductsGrow ==
  ASSUME NEW x \in Int, NEW y \in Int, NEW c \in Nat, x <= y
  PROVE  x * c <= y * c
OBVIOUS


\* So a factor is above the quotient just if the product is above the number.
LEMMA AboveQuotient ==
  ASSUME NEW n \in Nat, NEW c \in Nat \ {0}, NEW x \in Int
  PROVE  /\ x > n \div c <=> x * c > n
         /\ x < -(n \div c) <=> x * c < -n
<1> DEFINE q == n \div c
<1>1. q \in Nat /\ q * c <= n /\ n < (q + 1) * c
  BY QuotientFits
<1> HIDE DEF q
<1>2. x * c \in Int /\ (-x) * c = -(x * c)
  OBVIOUS
<1>3. \A y \in Int : y > q <=> y * c > n
  <2>. SUFFICES ASSUME NEW y \in Int
                PROVE  y > q <=> y * c > n
    OBVIOUS
  <2>1. CASE y > q
    <3>1. (q + 1) * c <= y * c
      BY <1>1, <2>1, ProductsGrow
    <3>2. y * c \in Int /\ (q + 1) * c \in Int
      BY <1>1
    <3>. QED  BY <1>1, <2>1, <3>1, <3>2
  <2>2. CASE y <= q
    <3>1. y * c <= q * c
      BY <1>1, <2>2, ProductsGrow
    <3>2. y * c \in Int /\ q * c \in Int
      BY <1>1
    <3>. QED  BY <1>1, <2>2, <3>1, <3>2
  <2>. QED  BY <1>1, <2>1, <2>2
<1>4. -x > q <=> (-x) * c > n
  BY <1>3
<1>5. -x > q <=> x < -q
  BY <1>1
<1>. QED  BY <1>2, <1>3, <1>4, <1>5 DEF q

\* cubs_math_would_mul_overflow, where it does not divide the least integer by -1, is
\* right for every two integers of any width.
THEOREM MulOverflowsExact ==
  ASSUME NEW a \in Ints, NEW b \in Ints, ~MulTraps(a, b)
  PROVE  MulOverflows(a, b) <=> ~Fits(a * b)
<1>1. /\ IntMax \in Nat \ {0} /\ IntMin = -IntMax - 1 /\ IntMin < 0 /\ IntMin \in Int
      /\ a \in Int /\ b \in Int /\ a >= IntMin /\ a <= IntMax /\ b >= IntMin /\ b <= IntMax
  BY TwosComplement DEF Ints
<1>2. a * b \in Int /\ (Fits(a * b) <=> a * b >= IntMin /\ a * b <= IntMax)
  BY <1>1 DEF Fits, Ints
<1> DEFINE n == IntMax
           k == IntMax + 1
<1>3. CASE b = 0
  <2>1. a * b = 0
    BY <1>1, <1>3
  <2>. QED  BY <1>1, <1>2, <1>3, <2>1 DEF MulOverflows
<1>4. CASE b > 0
  <2>1. b \in Nat \ {0} /\ k \in Nat
    BY <1>1, <1>4
  <2>2. Quotient(IntMax, b) = n \div b /\ Quotient(IntMin, b) = -(k \div b)
    BY <1>1, <1>4 DEF Quotient, Magnitude
  <2>3. a > n \div b <=> a * b > n
    BY <1>1, <2>1, AboveQuotient
  <2>4. a < -(k \div b) <=> a * b < -k
    BY <1>1, <2>1, AboveQuotient
  <2>5. MulOverflows(a, b) <=> a > n \div b \/ a < -(k \div b)
    <3>1. ~(a = IntMin /\ b = -1) /\ ~(a = -1 /\ b = IntMin)
      BY <1>1, <1>4
    <3>2. ~(b < 0)
      BY <1>1, <1>4
    <3>. QED  BY <1>4, <2>2, <3>1, <3>2 DEF MulOverflows
  <2>. QED  BY <1>1, <1>2, <2>3, <2>4, <2>5
<1>5. CASE b < 0
  <2>1. -b \in Nat \ {0} /\ k \in Nat /\ a * (-b) = -(a * b)
    BY <1>1, <1>5
  <2>2. Quotient(IntMax, b) = -(n \div (-b)) /\ Quotient(IntMin, b) = k \div (-b)
    BY <1>1, <1>5 DEF Quotient, Magnitude
  <2>3. a > k \div (-b) <=> a * (-b) > k
    BY <1>1, <2>1, AboveQuotient
  <2>4. a < -(n \div (-b)) <=> a * (-b) < -n
    BY <1>1, <2>1, AboveQuotient
  <2>5. MulOverflows(a, b) <=> \/ a = IntMin /\ b = -1
                               \/ a = -1 /\ b = IntMin
                               \/ a < -(n \div (-b)) \/ a > k \div (-b)
    <3>1. ~(b > 0)
      BY <1>1, <1>5
    <3>. QED  BY <1>5, <2>2, <3>1 DEF MulOverflows
  <2>6. (a = IntMin /\ b = -1) \/ (a = -1 /\ b = IntMin) => a * b = k
    BY <1>1
  <2>. QED  BY <1>1, <1>2, <2>1, <2>3, <2>4, <2>5, <2>6
<1>. QED  BY <1>1, <1>3, <1>4, <1>5
-----------------------------------------------------------------------------
(***************************************************************************)
(* Wrapping around.                                                        *)
(***************************************************************************)

\* The remainder of any integer, and the quotient that goes with it.
LEMMA Division ==
  ASSUME NEW x \in Int, NEW w \in Nat \ {0}
  PROVE  /\ x % w \in 0 .. w - 1 /\ x \div w \in Int
         /\ x = w * (x \div w) + (x % w)
OBVIOUS

\* Two remainders that differ by a multiple of the divisor are equal.
LEMMA RemaindersEqual ==
  ASSUME NEW w \in Nat \ {0}, NEW r \in 0 .. w - 1, NEW s \in 0 .. w - 1, NEW q \in Int,
         r = s + w * q
  PROVE  r = s
<1>1. r \in Nat /\ s \in Nat /\ r < w /\ s < w
  OBVIOUS
<1>2. CASE q >= 1
  <2>1. 1 * w <= q * w
    BY <1>2, ProductsGrow
  <2>2. q * w = w * q /\ w * q \in Int
    OBVIOUS
  <2>. QED  BY <1>1, <2>1, <2>2
<1>3. CASE q <= -1
  <2>1. q * w <= (-1) * w
    BY <1>3, ProductsGrow
  <2>2. q * w = w * q /\ w * q \in Int
    OBVIOUS
  <2>. QED  BY <1>1, <2>1, <2>2
<1>4. CASE q = 0
  BY <1>1, <1>4
<1>. QED  BY <1>2, <1>3, <1>4

\* A wrapped number fits and differs by a multiple of the width.
LEMMA WrappedDiffers ==
  ASSUME NEW x \in Int
  PROVE  /\ Wrapped(x) \in Ints /\ Width \in Nat \ {0}
         /\ \E q \in Int : Wrapped(x) = x + Width * q
<1>1. /\ IntMin \in Int /\ IntMax \in Int /\ IntMin = -IntMax - 1 /\ IntMax > 0
      /\ Width = IntMax - IntMin + 1
  BY TwosComplement DEF Width
<1>2. Width \in Nat \ {0}
  BY <1>1
<1> DEFINE d == (x - IntMin) \div Width
           r == (x - IntMin) % Width
<1>3. x - IntMin \in Int
  BY <1>1
<1>4. r \in 0 .. Width - 1 /\ d \in Int /\ x - IntMin = Width * d + r
  BY <1>2, <1>3, Division
<1>5. Wrapped(x) = r + IntMin
  BY DEF Wrapped
<1> HIDE DEF r, d
<1>6. Wrapped(x) \in Ints
  BY <1>1, <1>4, <1>5 DEF Ints
<1>7. Width * (-d) = -(Width * d) /\ Width * d \in Int /\ -d \in Int
  BY <1>2, <1>4
<1>8. Wrapped(x) = x + Width * (-d)
  BY <1>1, <1>4, <1>5, <1>7
<1>. QED  BY <1>2, <1>6, <1>7, <1>8

\* The only number that does so.
LEMMA WrappedUnique ==
  ASSUME NEW x \in Int, NEW y \in Ints, NEW q \in Int, y = x + Width * q
  PROVE  Wrapped(x) = y
<1>1. PICK p \in Int : Wrapped(x) = x + Width * p
  BY WrappedDiffers
<1>2. Wrapped(x) \in Ints /\ Width \in Nat \ {0}
  BY WrappedDiffers
<1>3. IntMin \in Int /\ IntMax \in Int /\ Width = IntMax - IntMin + 1
  BY TwosComplement DEF Width
<1> DEFINE r == y - IntMin
           s == Wrapped(x) - IntMin
<1>4. r \in 0 .. Width - 1 /\ s \in 0 .. Width - 1
  BY <1>2, <1>3 DEF Ints
<1>5. /\ q - p \in Int /\ Width * (q - p) = Width * q - Width * p
      /\ Width * q \in Int /\ Width * p \in Int
  BY <1>2
<1>6. y \in Int /\ Wrapped(x) \in Int
  BY <1>2, <1>3 DEF Ints
<1>7. r = s + Width * (q - p)
  BY <1>1, <1>3, <1>5, <1>6
<1> HIDE DEF r, s
<1>8. r = s
  BY <1>2, <1>4, <1>5, <1>7, RemaindersEqual
<1>. QED  BY <1>3, <1>6, <1>8 DEF r, s

\* What fits does not change.
LEMMA WrappedFits ==
  ASSUME NEW x \in Int, Fits(x)
  PROVE  Wrapped(x) = x
<1>1. Width \in Nat \ {0} /\ x = x + Width * 0
  BY WrappedDiffers
<1>. QED  BY <1>1, WrappedUnique DEF Fits

\* Numbers may be wrapped before they are multiplied as well as after that.
LEMMA WrappedProduct ==
  ASSUME NEW x \in Int, NEW y \in Int
  PROVE  Wrapped(Wrapped(x) * Wrapped(y)) = Wrapped(x * y)
<1>1. PICK p \in Int : Wrapped(x) = x + Width * p
  BY WrappedDiffers
<1>2. PICK q \in Int : Wrapped(y) = y + Width * q
  BY WrappedDiffers
<1> DEFINE z == Wrapped(x) * Wrapped(y)
<1>3. Width \in Int /\ Wrapped(x) \in Int /\ Wrapped(y) \in Int
  BY WrappedDiffers, TwosComplement DEF Ints
<1>4. z \in Int
  BY <1>3
<1>5. z = x * y + Width * (x * q + p * y + p * (Width * q))
  BY <1>1, <1>2, <1>3
<1>6. PICK r \in Int : Wrapped(z) = z + Width * r
  BY <1>4, WrappedDiffers
<1> DEFINE f == x * q + p * y + p * (Width * q)
<1>7. f \in Int /\ f + r \in Int /\ x * y \in Int
  BY <1>3
<1> HIDE DEF z
<1>8. Wrapped(z) = x * y + Width * (f + r)
  <2> HIDE DEF f
  <2>1. z = x * y + Width * f
    BY <1>5 DEF f
  <2>. QED  BY <1>3, <1>4, <1>6, <1>7, <2>1
<1>9. Wrapped(z) \in Ints
  BY <1>4, WrappedDiffers
<1> HIDE DEF f
<1>10. Wrapped(x * y) = Wrapped(z)
  BY <1>7, <1>8, <1>9, WrappedUnique
<1>. QED  BY <1>10 DEF z
-----------------------------------------------------------------------------
(***************************************************************************)
(* The powers of a number.                                                 *)
(***************************************************************************)

\* Powers are defined by recursion.
LEMMA PowersExist ==
  ASSUME NEW a \in Int
  PROVE  /\ Powers(a) \in [0 .. IntMax -> Int] /\ Powers(a)[0] = 1
         /\ \A n \in 1 .. IntMax : Powers(a)[n] = a * Powers(a)[n - 1]
<1> DEFINE k == IntMax
           Y == [n \in 0 .. k |-> Int]
           step == [x \in Int \X (1 .. k) |-> a * x[1]]
           Solves(f) == f = [n \in 0 .. k |-> IF n = 0 THEN 1 ELSE a * f[n - 1]]
           power == CHOOSE f : Solves(f)
<1>1. k \in Nat
  BY TwosComplement
<1>2. \A n \in 1 .. k : n \in 0 .. k /\ n - 1 \in 0 .. k /\ n # 0
  BY <1>1
<1>3. \E f : Solves(f)
  <2>1. \A x \in Int : a * x \in Int
    OBVIOUS
  <2>2. \A n \in 1 .. k : \A x \in Int : step[<<x, n>>] = a * x
    OBVIOUS
  <2>3. \A n \in 0 .. k : Y[n] = Int
    OBVIOUS
  <2> HIDE DEF Y, step, k
  <2>4. StaysWithin(k, Int, Y, 1, step)
    BY <1>1, <1>2, <2>1, <2>2, <2>3 DEF StaysWithin
  <2>5. PICK f \in [0 .. k -> Int] :
          f[0] = 1 /\ \A n \in 1 .. k : f[n] = step[<<f[n - 1], n>>]
    <3>1. PICK g : IsSolution(g, k, Int, Y, 1, step)
      BY <2>4, RecursionSolved
    <3>. QED  BY <3>1 DEF IsSolution
  <2>6. \A n \in 0 .. k : f[n] = IF n = 0 THEN 1 ELSE a * f[n - 1]
    <3>1. \A n \in 0 .. k : n # 0 => n \in 1 .. k /\ n - 1 \in 0 .. k
      BY <1>1
    <3>. QED  BY <2>2, <2>5, <3>1
  <2>7. f = [n \in 0 .. k |-> f[n]]
    OBVIOUS
  <2>8. [n \in 0 .. k |-> f[n]] = [n \in 0 .. k |-> IF n = 0 THEN 1 ELSE a * f[n - 1]]
    BY <2>6
  <2>. QED  BY <2>7, <2>8
<1>4. Solves(power)
  <2> HIDE DEF Solves
  <2>. QED  BY <1>3
<1>5. Powers(a) = power
  BY DEF Powers
<1> HIDE DEF power
<1>6. \A n \in 0 .. k : power[n] = IF n = 0 THEN 1 ELSE a * power[n - 1]
  BY <1>4
<1>7. power[0] = 1 /\ \A n \in 1 .. k : power[n] = a * power[n - 1]
  <2>1. 0 \in 0 .. k
    BY <1>1
  <2> HIDE DEF k, Solves
  <2>. QED  BY <1>2, <1>6, <2>1
<1>8. \A n \in 0 .. k : power[n] \in Int
  <2>1. \A n \in 0 .. k : Y[n] = Int
    OBVIOUS
  <2>2. \A x \in Int : a * x \in Int
    OBVIOUS
  <2> HIDE DEF Y, k, Solves
  <2>3. Inductive(k, Y, power)
    BY <1>1, <1>2, <1>7, <2>1, <2>2 DEF Inductive
  <2>. QED  BY <2>1, <2>3, InductionUpTo
<1>9. power = [n \in 0 .. k |-> power[n]]
  <2>1. power = [n \in 0 .. k |-> IF n = 0 THEN 1 ELSE a * power[n - 1]]
    BY <1>4
  <2> HIDE DEF Solves
  <2>. QED  BY <2>1, <1>6
<1>. QED  BY <1>5, <1>7, <1>8, <1>9

\* The power to a sum is the product of the powers.
LEMMA PowersAdd ==
  ASSUME NEW a \in Int, NEW m \in 0 .. IntMax, NEW n \in 0 .. IntMax, m + n <= IntMax
  PROVE  Powers(a)[m + n] = Powers(a)[m] * Powers(a)[n]
<1> DEFINE P == Powers(a)
           S == {i \in Nat : m + i <= IntMax => P[m + i] = P[m] * P[i]}
<1>1. IntMax \in Nat /\ P[0] = 1 /\ P[m] \in Int
  BY TwosComplement, PowersExist
<1>2. 0 \in S
  BY <1>1
<1>3. ASSUME NEW i \in S
      PROVE  i + 1 \in S
  <2>. SUFFICES ASSUME m + (i + 1) <= IntMax
                PROVE  P[m + (i + 1)] = P[m] * P[i + 1]
    OBVIOUS
  <2>1. P[m + i] = P[m] * P[i]
    BY <1>1
  <2>2. /\ m + (i + 1) \in 1 .. IntMax /\ (m + (i + 1)) - 1 = m + i
        /\ i + 1 \in 1 .. IntMax /\ (i + 1) - 1 = i /\ i \in 0 .. IntMax
    BY <1>1
  <2>3. P[m + (i + 1)] = a * P[m + i] /\ P[i + 1] = a * P[i] /\ P[i] \in Int
    BY <2>2, PowersExist
  <2> HIDE DEF P, S
  <2>4. a * (P[m] * P[i]) = P[m] * (a * P[i])
    BY <1>1, <2>3
  <2>. QED  BY <2>1, <2>3, <2>4
<1>4. S = Nat
  <2>1. S \in SUBSET Nat
    OBVIOUS
  <2> HIDE DEF S
  <2>. QED  BY <1>2, <1>3, <2>1, Induction
<1>5. n \in S
  BY <1>4
<1>. QED  BY <1>5

\* The powers of a number that is no more than 1 are no more than 1.
LEMMA SmallPowers ==
  ASSUME NEW a \in {-1, 0, 1}, NEW n \in 0 .. IntMax
  PROVE  Powers(a)[n] \in {-1, 0, 1}
<1> DEFINE P == Powers(a)
           Y == [i \in 0 .. IntMax |-> {-1, 0, 1}]
<1>1. IntMax \in Nat /\ a \in Int
  BY TwosComplement
<1>2. P[0] = 1 /\ \A i \in 1 .. IntMax : P[i] = a * P[i - 1]
  BY <1>1, PowersExist
<1>3. \A x \in {-1, 0, 1} : a * x \in {-1, 0, 1}
  OBVIOUS
<1>4. \A i \in 1 .. IntMax : i \in 0 .. IntMax /\ i - 1 \in 0 .. IntMax
  BY <1>1
<1>5. 0 \in 0 .. IntMax
  BY <1>1
<1>6. Inductive(IntMax, Y, P)
  <2> HIDE DEF P
  <2>. QED  BY <1>1, <1>2, <1>3, <1>4, <1>5 DEF Inductive
<1> HIDE DEF P
<1>7. P[n] \in Y[n]
  BY <1>6, InductionUpTo
<1>. QED  BY <1>7 DEF P

\* A product with a number of at least 2, or at most -2, fits only if the other does.
LEMMA LargeProducts ==
  ASSUME NEW a \in Int, a \notin {-1, 0, 1}, NEW x \in Int, ~Fits(x)
  PROVE  ~Fits(a * x)
<1>1. /\ IntMin \in Int /\ IntMax \in Nat \ {0} /\ IntMin = -IntMax - 1
      /\ x < IntMin \/ x > IntMax
  BY TwosComplement DEF Fits, Ints
<1>2. a * x \in Int
  OBVIOUS
<1>3. CASE a >= 2 /\ x > IntMax
  <2>1. 2 * x <= a * x
    BY <1>1, <1>3, ProductsGrow
  <2>. QED  BY <1>1, <1>2, <1>3, <2>1 DEF Fits, Ints
<1>4. CASE a >= 2 /\ x < IntMin
  <2>1. 2 * (-x) <= a * (-x) /\ a * (-x) = -(a * x)
    BY <1>1, <1>4, ProductsGrow
  <2>. QED  BY <1>1, <1>2, <1>4, <2>1 DEF Fits, Ints
<1>5. CASE a <= -2 /\ x > IntMax
  <2>1. a * x <= (-2) * x
    BY <1>1, <1>5, ProductsGrow
  <2>. QED  BY <1>1, <1>2, <1>5, <2>1 DEF Fits, Ints
<1>6. CASE a <= -2 /\ x < IntMin
  <2>1. a * (-x) <= (-2) * (-x) /\ a * (-x) = -(a * x)
    BY <1>1, <1>6, ProductsGrow
  <2>. QED  BY <1>1, <1>2, <1>6, <2>1 DEF Fits, Ints
<1>. QED  BY <1>1, <1>3, <1>4, <1>5, <1>6

\* Once a power does not fit, no later one does.
LEMMA LargePowers ==
  ASSUME NEW a \in Int, NEW m \in 0 .. IntMax, NEW n \in 0 .. IntMax, m <= n,
         ~Fits(Powers(a)[m])
  PROVE  ~Fits(Powers(a)[n])
<1> DEFINE P == Powers(a)
           S == {i \in Nat : m + i <= IntMax => ~Fits(P[m + i])}
<1>1. IntMax \in Nat
  BY TwosComplement
<1>2. a \notin {-1, 0, 1}
  <2>1. \A x \in {-1, 0, 1} : Fits(x)
    BY TwosComplement DEF Fits, Ints
  <2>. QED  BY <2>1, SmallPowers
<1>3. 0 \in S
  BY <1>1
<1>4. ASSUME NEW i \in S
      PROVE  i + 1 \in S
  <2>. SUFFICES ASSUME m + (i + 1) <= IntMax
                PROVE  ~Fits(P[m + (i + 1)])
    OBVIOUS
  <2>1. ~Fits(P[m + i])
    BY <1>1
  <2>2. /\ m + (i + 1) \in 1 .. IntMax /\ (m + (i + 1)) - 1 = m + i /\ m + i \in 0 .. IntMax
    BY <1>1
  <2>3. P[m + (i + 1)] = a * P[m + i] /\ P[m + i] \in Int
    BY <2>2, PowersExist
  <2> HIDE DEF P, S
  <2>. QED  BY <1>2, <2>1, <2>3, LargeProducts
<1>5. S = Nat
  <2>1. S \in SUBSET Nat
    OBVIOUS
  <2> HIDE DEF S
  <2>. QED  BY <1>3, <1>4, <2>1, Induction
<1>6. n - m \in Nat /\ m + (n - m) = n /\ n <= IntMax
  BY <1>1
<1>7. n - m \in S
  BY <1>5, <1>6
<1>. QED  BY <1>6, <1>7
-----------------------------------------------------------------------------
(***************************************************************************)
(* The loop of the power.                                                  *)
(***************************************************************************)

Loops == [out : Ints, base : Ints, exp : Nat, over : BOOLEAN, trap : BOOLEAN]

\* If no check trapped: that a power of a was found not to fit says that the one to b
\* does not, and if none was, those to e and to d fit.
Tells(a, b, s, e, d) ==
  ~s.trap => IF s.over THEN ~Fits(Powers(a)[b]) ELSE Fits(Powers(a)[e]) /\ Fits(Powers(a)[d])

\* The numbers of the loop are powers of a, wrapped: what remains is to multiply the
\* result with the base so often as the exponent says.
Holds(a, b, s, e, d) ==
  /\ s \in Loops /\ e + d * s.exp = b
  /\ s.out = Wrapped(Powers(a)[e]) /\ s.base = Wrapped(Powers(a)[d])
  /\ Tells(a, b, s, e, d)

LoopHolds(a, b, s) == \E e, d \in 0 .. IntMax : Holds(a, b, s, e, d)

\* A product changes the result, and what the checks said.
LEMMA TimesFields ==
  ASSUME NEW s \in Loops, NEW x \in Ints, NEW y \in Ints
  PROVE  /\ Times(s, x, y) \in Loops
         /\ Times(s, x, y).out = Wrapped(x * y)
         /\ Times(s, x, y).base = s.base /\ Times(s, x, y).exp = s.exp
         /\ Times(s, x, y).over <=> s.over \/ MulOverflows(x, y)
         /\ Times(s, x, y).trap <=> s.trap \/ MulTraps(x, y)
<1> DEFINE over == s.over \/ MulOverflows(x, y)
           trap == s.trap \/ MulTraps(x, y)
           out == Wrapped(x * y)
<1>1. out \in Ints
  <2>1. x * y \in Int
    BY TwosComplement DEF Ints
  <2>. QED  BY <2>1, WrappedDiffers
<1>2. over \in BOOLEAN /\ trap \in BOOLEAN
  OBVIOUS
<1>3. Times(s, x, y) = [s EXCEPT !.out = out, !.over = over, !.trap = trap]
  BY DEF Times
<1> HIDE DEF over, trap, out
<1>4. Times(s, x, y) \in Loops /\ Times(s, x, y).out = out
      /\ Times(s, x, y).base = s.base /\ Times(s, x, y).exp = s.exp
      /\ Times(s, x, y).over = over /\ Times(s, x, y).trap = trap
  BY <1>1, <1>2, <1>3 DEF Loops
<1>. QED  BY <1>4 DEF over, trap, out

\* The product of two powers that the loop has is the power to the sum, and the check
\* before it tells whether that fits.
LEMMA ProductOfPowers ==
  ASSUME NEW a \in Int, NEW b \in 0 .. IntMax, NEW s \in Loops,
         NEW e \in 0 .. IntMax, NEW d \in 0 .. IntMax, e + d <= b, Tells(a, b, s, e, d)
  PROVE  LET r == Times(s, Wrapped(Powers(a)[e]), Wrapped(Powers(a)[d]))
         IN  r.out = Wrapped(Powers(a)[e + d]) /\ Tells(a, b, r, e + d, e + d)
<1> DEFINE P == Powers(a)
           x == Wrapped(P[e])
           y == Wrapped(P[d])
           r == Times(s, x, y)
<1>1. e + d \in 0 .. IntMax /\ P[e + d] = P[e] * P[d]
  <2>1. IntMax \in Nat
    BY TwosComplement
  <2>2. e + d \in 0 .. IntMax
    BY <2>1
  <2>. QED  BY <2>2, PowersAdd
<1>2. P[e] \in Int /\ P[d] \in Int /\ P[e + d] \in Int
  BY <1>1, PowersExist
<1> HIDE DEF P
<1>3. x \in Ints /\ y \in Ints
  BY <1>2, WrappedDiffers
<1>4. Wrapped(x * y) = Wrapped(P[e + d])
  <2>1. Wrapped(x * y) = Wrapped(P[e] * P[d])
    BY <1>2, WrappedProduct, Zenon
  <2>. QED  BY <1>1, <2>1, Zenon
<1>5. /\ r.out = Wrapped(x * y) /\ (r.over <=> s.over \/ MulOverflows(x, y))
      /\ (r.trap <=> s.trap \/ MulTraps(x, y))
  <2> HIDE DEF x, y
  <2>. QED  BY <1>3, TimesFields
<1>6. ASSUME ~r.trap, ~s.over
      PROVE  r.over <=> ~Fits(P[e + d])
  <2>1. ~MulTraps(x, y) /\ ~s.trap
    BY <1>5, <1>6
  <2>2. Fits(P[e]) /\ Fits(P[d])
    BY <1>6, <2>1 DEF Tells, P
  <2>3. x = P[e] /\ y = P[d]
    BY <1>2, <2>2, WrappedFits
  <2>4. MulOverflows(x, y) <=> ~Fits(x * y)
    <3> HIDE DEF x, y
    <3>. QED  BY <1>3, <2>1, MulOverflowsExact
  <2>. QED  BY <1>1, <1>5, <1>6, <2>3, <2>4
<1>7. ~Fits(P[e + d]) => ~Fits(P[b])
  BY <1>1, LargePowers DEF P
<1>8. Tells(a, b, r, e + d, e + d)
  <2>. SUFFICES ASSUME ~r.trap
                PROVE  IF r.over THEN ~Fits(P[b]) ELSE Fits(P[e + d])
    BY Zenon DEF Tells, P
  <2>1. CASE s.over
    <3>1. ~s.trap /\ r.over
      BY <1>5, <2>1
    <3>2. ~Fits(P[b])
      BY <2>1, <3>1 DEF Tells, P
    <3>. QED  BY <3>1, <3>2
  <2>2. CASE ~s.over
    BY <1>6, <1>7, <2>2
  <2>. QED  BY <2>1, <2>2
<1>. QED  BY <1>4, <1>5, <1>8 DEF P

\* A turn of the loop keeps what its numbers say.
LEMMA TurnHolds ==
  ASSUME NEW a \in Int, NEW b \in 0 .. IntMax, NEW s, LoopHolds(a, b, s), s.exp > 1
  PROVE  LoopHolds(a, b, Turn(s)) /\ Turn(s).exp \in Nat /\ Turn(s).exp < s.exp
<1>1. PICK e \in 0 .. IntMax, d \in 0 .. IntMax : Holds(a, b, s, e, d)
  BY DEF LoopHolds
<1> DEFINE P == Powers(a)
           product == IF s.exp % 2 = 1 THEN Times(s, s.out, s.base) ELSE s
           square == Times(product, s.base, s.base)
           turned == [square EXCEPT !.out = product.out, !.base = square.out,
                                    !.exp = s.exp \div 2]
           n == s.exp \div 2
           f == IF s.exp % 2 = 1 THEN e + d ELSE e
<1>2. /\ s \in Loops /\ e + d * s.exp = b /\ s.out = Wrapped(P[e]) /\ s.base = Wrapped(P[d])
      /\ Tells(a, b, s, e, d) /\ s.exp \in Nat /\ s.out \in Ints /\ s.base \in Ints
  BY <1>1 DEF Holds, Loops
<1>3. IntMax \in Nat /\ e \in Nat /\ d \in Nat
  BY TwosComplement
<1>4. /\ n \in Nat /\ n >= 1 /\ n < s.exp
      /\ s.exp = IF s.exp % 2 = 1 THEN 2 * n + 1 ELSE 2 * n
  <2> DEFINE exp == s.exp
  <2>1. exp \in Nat /\ exp > 1
    BY <1>2
  <2> HIDE DEF exp
  <2>2. LET half == exp \div 2
        IN  half \in Nat /\ half >= 1 /\ half < exp
              /\ exp = IF exp % 2 = 1 THEN 2 * half + 1 ELSE 2 * half
    BY <2>1
  <2>. QED  BY <2>2 DEF exp
<1>5. f \in Nat /\ d + d \in Nat /\ f + (d + d) * n = b
  <2> HIDE DEF n
  <2>1. d * (2 * n + 1) = d + (d + d) * n /\ d * (2 * n) = (d + d) * n
    BY <1>3, <1>4
  <2>2. (d + d) * n \in Nat
    BY <1>3, <1>4
  <2>. QED  BY <1>2, <1>3, <1>4, <2>1, <2>2
<1>6. f \in 0 .. IntMax /\ d + d \in 0 .. IntMax /\ f <= b /\ d + d <= b
  <2> HIDE DEF f, n
  <2>1. 1 * (d + d) <= n * (d + d)
    BY <1>3, <1>4, ProductsGrow
  <2>2. n * (d + d) = (d + d) * n /\ (d + d) * n \in Nat
    BY <1>3, <1>4
  <2>. QED  BY <1>3, <1>5, <2>1, <2>2
<1>7. /\ product \in Loops /\ product.base = s.base /\ product.out = Wrapped(P[f])
      /\ Tells(a, b, product, f, d) /\ Tells(a, b, product, d, d)
  <2>1. CASE s.exp % 2 = 1
    <3>1. product = Times(s, s.out, s.base) /\ f = e + d
      BY <2>1
    <3>2. /\ product \in Loops /\ product.base = s.base
          /\ product.over <=> s.over \/ MulOverflows(s.out, s.base)
          /\ product.trap <=> s.trap \/ MulTraps(s.out, s.base)
      <4> HIDE DEF product
      <4>. QED  BY <1>2, <3>1, TimesFields
    <3>3. product.out = Wrapped(P[f]) /\ Tells(a, b, product, f, f)
      <4>1. e + d <= b
        BY <1>6, <3>1
      <4> HIDE DEF product
      <4>. QED  BY <1>2, <3>1, <4>1, ProductOfPowers DEF P
    <3> HIDE DEF product, f
    <3>4. Tells(a, b, product, f, d)
      BY <1>2, <3>2, <3>3 DEF Tells
    <3>. QED  BY <3>2, <3>3, <3>4 DEF Tells
  <2>2. CASE s.exp % 2 # 1
    <3>1. product = s /\ f = e
      BY <2>2
    <3> HIDE DEF product, f
    <3>. QED  BY <1>2, <3>1 DEF Tells
  <2>. QED  BY <2>1, <2>2
<1> HIDE DEF product, f
<1>8. /\ square \in Loops
      /\ square.over <=> product.over \/ MulOverflows(s.base, s.base)
      /\ square.trap <=> product.trap \/ MulTraps(s.base, s.base)
  BY <1>2, <1>7, TimesFields
<1>9. square.out = Wrapped(P[d + d]) /\ Tells(a, b, square, d + d, d + d)
  BY <1>2, <1>6, <1>7, ProductOfPowers DEF P
<1> HIDE DEF square, P
<1>10. /\ turned \in Loops /\ turned.out = product.out /\ turned.base = square.out
       /\ turned.exp = n /\ turned.over = square.over /\ turned.trap = square.trap
  <2> HIDE DEF n
  <2>1. product.out \in Ints /\ square.out \in Ints
    BY <1>7, <1>8 DEF Loops
  <2>2. turned = [square EXCEPT !.out = product.out, !.base = square.out, !.exp = n]
    BY DEF n
  <2> HIDE DEF turned
  <2>. QED  BY <1>4, <1>8, <2>1, <2>2 DEF Loops
<1>11. Turn(s) = turned
  BY DEF Turn, product, square
<1> HIDE DEF turned, n
<1>12. Tells(a, b, turned, f, d + d)
  BY <1>7, <1>8, <1>9, <1>10 DEF Tells
<1>13. Holds(a, b, turned, f, d + d)
  BY <1>5, <1>7, <1>9, <1>10, <1>12 DEF Holds, P
<1>. QED  BY <1>4, <1>6, <1>10, <1>11, <1>13 DEF LoopHolds

\* What the loop begins with.
Begun(base, exp) == [out |-> 1, base |-> base, exp |-> exp, over |-> FALSE, trap |-> FALSE]

\* Nothing is multiplied yet.
LEMMA BegunHolds ==
  ASSUME NEW a \in Ints, NEW b \in 0 .. IntMax
  PROVE  LoopHolds(a, b, Begun(a, b))
<1> DEFINE P == Powers(a)
<1>1. IntMax \in Nat \ {0} /\ IntMin = -IntMax - 1 /\ a \in Int
  BY TwosComplement DEF Ints
<1>2. P[0] = 1 /\ P[1] = a
  <2>1. 1 \in 1 .. IntMax /\ 1 - 1 = 0
    BY <1>1
  <2>2. P[0] = 1 /\ P[1] = a * P[0]
    BY <1>1, <2>1, PowersExist
  <2>. QED  BY <1>1, <2>2
<1> HIDE DEF P
<1>3. Fits(P[0]) /\ Fits(P[1]) /\ P[0] \in Int /\ P[1] \in Int
  BY <1>1, <1>2 DEF Fits, Ints
<1>4. Wrapped(P[0]) = 1 /\ Wrapped(P[1]) = a
  BY <1>2, <1>3, WrappedFits
<1>5. Begun(a, b) \in Loops /\ 0 + 1 * b = b
  BY <1>1 DEF Begun, Loops, Ints
<1>6. Holds(a, b, Begun(a, b), 0, 1)
  BY <1>3, <1>4, <1>5 DEF Holds, Tells, Begun, P
<1>7. 0 \in 0 .. IntMax /\ 1 \in 0 .. IntMax
  BY <1>1
<1>. QED  BY <1>6, <1>7 DEF LoopHolds

\* cubs_math_ipow_overflow is right for every integer and every exponent of any width,
\* where no check before a product traps.
THEOREM IPowExact ==
  ASSUME NEW a \in Ints, NEW b \in 0 .. IntMax, ~IPow(a, b).trap
  PROVE  /\ IPow(a, b).over = ~Fits(Powers(a)[b])
         /\ IPow(a, b).out = Wrapped(Powers(a)[b])
<1> DEFINE k == IntMax
           P == Powers(a)
           Next(s) == IF s.exp <= 1 THEN s ELSE Turn(s)
           X == {s \in Loops : LoopHolds(a, b, s)}
           Y == [n \in 0 .. k |-> {s \in X : s.exp <= 1 \/ s.exp + n <= b}]
           step == [x \in X \X (1 .. k) |-> Next(x[1])]
           Solves(f) == f = [n \in 0 .. k |-> IF n = 0 THEN Begun(a, b) ELSE Next(f[n - 1])]
           loop == CHOOSE f : Solves(f)
<1>1. k \in Nat /\ a \in Int /\ b \in Nat
  BY TwosComplement DEF Ints
<1>2. \A s : LoopHolds(a, b, s) => s \in Loops
  BY DEF LoopHolds, Holds
<1>3. Begun(a, b) \in Y[0]
  <2>1. LoopHolds(a, b, Begun(a, b)) /\ Begun(a, b).exp = b /\ b + 0 <= b /\ 0 \in 0 .. k
    BY <1>1, BegunHolds DEF Begun
  <2>. QED  BY <1>2, <2>1
<1>4. ASSUME NEW n \in 1 .. k, NEW s \in Y[n - 1]
      PROVE  Next(s) \in Y[n] /\ s \in X
  <2>1. n - 1 \in 0 .. k /\ n \in 0 .. k
    BY <1>1
  <2>2. s \in X /\ (s.exp <= 1 \/ s.exp + (n - 1) <= b)
    BY <2>1
  <2>3. LoopHolds(a, b, s) /\ s.exp \in Nat
    BY <2>2 DEF Loops
  <2>4. CASE s.exp <= 1
    BY <2>1, <2>2, <2>4
  <2>5. CASE s.exp > 1
    <3>1. LoopHolds(a, b, Turn(s)) /\ Turn(s).exp \in Nat /\ Turn(s).exp < s.exp
      BY <1>1, <2>3, <2>5, TurnHolds
    <3>2. Next(s) = Turn(s)
      BY <2>3, <2>5
    <3>3. Turn(s).exp + n <= b
      BY <1>1, <2>2, <2>3, <2>5, <3>1
    <3> HIDE DEF Next
    <3>. QED  BY <1>2, <2>1, <2>2, <3>1, <3>2, <3>3
  <2>. QED  BY <2>3, <2>4, <2>5
<1>5. \E f : Solves(f)
  <2>1. \A n \in 1 .. k : \A s \in Y[n - 1] : step[<<s, n>>] = Next(s)
    <3> HIDE DEF Y, Next
    <3>. QED  BY <1>4
  <2>2. \A n \in 1 .. k : \A s \in Y[n - 1] : step[<<s, n>>] \in Y[n]
    <3> HIDE DEF Y, Next, step
    <3>. QED  BY <1>4, <2>1
  <2>3. \A n \in 0 .. k : Y[n] \subseteq X
    OBVIOUS
  <2>4. PICK f \in [0 .. k -> X] :
          /\ f[0] = Begun(a, b) /\ \A n \in 1 .. k : f[n] = step[<<f[n - 1], n>>]
          /\ \A n \in 0 .. k : f[n] \in Y[n]
    <3> HIDE DEF X, Y, step, k
    <3>1. StaysWithin(k, X, Y, Begun(a, b), step)
      BY <1>1, <1>3, <2>2, <2>3 DEF StaysWithin
    <3>. QED  BY <3>1, Recursion
  <2>5. \A n \in 0 .. k : f[n] = IF n = 0 THEN Begun(a, b) ELSE Next(f[n - 1])
    <3> HIDE DEF X, Y, Next, step
    <3>1. \A n \in 0 .. k : n # 0 => n \in 1 .. k /\ n - 1 \in 0 .. k
      BY <1>1
    <3>. QED  BY <2>1, <2>4, <3>1
  <2>6. f = [n \in 0 .. k |-> f[n]]
    OBVIOUS
  <2>7. [n \in 0 .. k |-> f[n]] = [n \in 0 .. k |-> IF n = 0 THEN Begun(a, b) ELSE Next(f[n - 1])]
    <3> HIDE DEF Next
    <3>. QED  BY <2>5
  <2>. QED  BY <2>6, <2>7
<1>6. Solves(loop)
  <2> HIDE DEF Solves
  <2>. QED  BY <1>5
<1> DEFINE end == loop[k]
           final == Times(end, end.out, end.base)
<1>7. IPow(a, b) = IF end.exp = 1 THEN final ELSE end
  BY DEF IPow, Begun
<1> HIDE DEF loop
<1>8. loop[0] = Begun(a, b) /\ \A n \in 1 .. k : loop[n] = Next(loop[n - 1])
  <2>1. \A n \in 0 .. k : loop[n] = IF n = 0 THEN Begun(a, b) ELSE Next(loop[n - 1])
    <3> HIDE DEF Next
    <3>. QED  BY <1>6
  <2>2. 0 \in 0 .. k /\ \A n \in 1 .. k : n \in 0 .. k /\ n # 0
    BY <1>1
  <2> HIDE DEF Next
  <2>. QED  BY <2>1, <2>2
<1>9. end \in Y[k]
  <2> HIDE DEF Y, Next, k, Solves
  <2>1. Inductive(k, Y, loop)
    BY <1>1, <1>3, <1>4, <1>8 DEF Inductive
  <2>2. k \in 0 .. k
    BY <1>1
  <2>. QED  BY <2>1, <2>2, InductionUpTo
<1>10. LoopHolds(a, b, end) /\ (end.exp <= 1 \/ end.exp + k <= b)
  <2>1. k \in 0 .. k
    BY <1>1
  <2> HIDE DEF end
  <2>. QED  BY <1>9, <2>1
<1> HIDE DEF end, Solves, Y, X, step, Next
<1>11. PICK e \in 0 .. k, d \in 0 .. k : Holds(a, b, end, e, d)
  BY <1>10 DEF LoopHolds
<1>12. /\ end \in Loops /\ end.exp \in Nat /\ e + d * end.exp = b
       /\ end.out = Wrapped(P[e]) /\ end.base = Wrapped(P[d]) /\ Tells(a, b, end, e, d)
       /\ end.out \in Ints /\ end.base \in Ints /\ end.over \in BOOLEAN
  BY <1>11 DEF Holds, Loops
<1>13. end.exp \in {0, 1}
  BY <1>1, <1>10, <1>12
<1> HIDE DEF P
<1>14. CASE end.exp = 1
  <2>1. e + d = b /\ IPow(a, b) = final
    BY <1>1, <1>7, <1>12, <1>14
  <2>2. final.out = Wrapped(P[b]) /\ Tells(a, b, final, b, b)
    <3>1. e + d <= b
      BY <1>1, <2>1
    <3>2. LET r == Times(end, Wrapped(P[e]), Wrapped(P[d]))
          IN  r.out = Wrapped(P[e + d]) /\ Tells(a, b, r, e + d, e + d)
      BY <1>1, <1>12, <3>1, ProductOfPowers DEF P
    <3>3. final = Times(end, Wrapped(P[e]), Wrapped(P[d]))
      BY <1>12
    <3> HIDE DEF final
    <3>. QED  BY <2>1, <3>2, <3>3
  <2>3. final.over \in BOOLEAN
    <3>1. final \in Loops
      BY <1>12, TimesFields
    <3>. QED  BY <3>1 DEF Loops
  <2> HIDE DEF final
  <2>4. ~final.trap
    BY <2>1
  <2>5. final.over <=> ~Fits(P[b])
    BY <2>2, <2>4 DEF Tells, P
  <2>. QED  BY <2>1, <2>2, <2>3, <2>5 DEF P, Fits
<1>15. CASE end.exp = 0
  <2>1. e = b /\ IPow(a, b) = end
    <3>1. d * end.exp = 0
      BY <1>1, <1>15
    <3>2. IPow(a, b) = end
      BY <1>7, <1>15
    <3>. QED  BY <1>1, <1>12, <3>1, <3>2
  <2>2. end.over <=> ~Fits(P[b])
    BY <1>12, <2>1 DEF Tells, P
  <2>. QED  BY <1>12, <2>1, <2>2 DEF P, Fits
<1>. QED  BY <1>13, <1>14, <1>15

\* math.c: whatever two numbers the interpreter asks about, the checks say whether the
\* sum, the difference, the product and the power fit, and the power is right.
THEOREM ArithmeticAlwaysExact == ArithmeticExact
<1>. SUFFICES ASSUME NEW a \in Ints, NEW b \in Ints
              PROVE  NumbersExact(a, b)
  BY DEF ArithmeticExact
<1>1. AddOverflows(a, b) = ~Fits(a + b) /\ SubOverflows(a, b) = ~Fits(a - b)
  BY AddOverflowsExact, SubOverflowsExact DEF AddOverflows, SubOverflows, Fits
<1>2. ~MulTraps(a, b) => MulOverflows(a, b) = ~Fits(a * b)
  BY MulOverflowsExact DEF MulOverflows, Fits
<1>3. b >= 0 => b \in 0 .. IntMax
  BY TwosComplement DEF Ints
<1>4. ASSUME b >= 0, ~IPow(a, b).trap
      PROVE  /\ IPow(a, b).over = ~Fits(Powers(a)[b])
             /\ IPow(a, b).out = Wrapped(Powers(a)[b])
  BY <1>3, <1>4, IPowExact DEF Fits
<1>. QED  BY <1>1, <1>2, <1>4 DEF NumbersExact
-----------------------------------------------------------------------------
(***************************************************************************)
(* The encoding of texts.                                                  *)
(***************************************************************************)

\* What the first bits of a byte say, and what of the memory behind the bytes is read.
LEMMA ByteKinds ==
  ASSUME NEW b \in Bytes
  PROVE  /\ IsTrail(b) <=> b \in 128 .. 191
         /\ b \div 32 = 6 <=> b \in 192 .. 223
         /\ b \div 16 = 14 <=> b \in 224 .. 239
         /\ b \div 8 = 30 <=> b \in 240 .. 247
         /\ Trails(b) = IF b \in 192 .. 223 THEN 1 ELSE IF b \in 224 .. 239 THEN 2
                        ELSE IF b \in 240 .. 247 THEN 3 ELSE 0
<1>1. b \in Int /\ 0 <= b /\ b <= 255
  BY DEF Bytes
<1>2. b \div 64 = 2 <=> b \in 128 .. 191
  BY <1>1
<1>3. b \div 32 = 6 <=> b \in 192 .. 223
  BY <1>1
<1>4. b \div 16 = 14 <=> b \in 224 .. 239
  BY <1>1
<1>5. b \div 8 = 30 <=> b \in 240 .. 247
  BY <1>1
<1>. QED  BY <1>2, <1>3, <1>4, <1>5 DEF IsTrail, Trails

\* Trail bytes, and no others that are not 0, have no trail bytes of their own.
LEMMA TrailKinds ==
  ASSUME NEW b \in Bytes
  PROVE  /\ Trails(b) \in 0 .. 3 /\ (b \in 128 .. 191 => Trails(b) = 0)
         /\ IsTrail(b) => b # 0 /\ b < 248 /\ Trails(b) = 0
<1>1. Trails(b) = IF b \in 192 .. 223 THEN 1 ELSE IF b \in 224 .. 239 THEN 2
                  ELSE IF b \in 240 .. 247 THEN 3 ELSE 0
  BY ByteKinds
<1>2. IsTrail(b) <=> b \in 128 .. 191
  BY ByteKinds
<1>. QED  BY <1>1, <1>2

\* A character begins at i, with all of its bytes.
Begins(a, i) ==
  /\ a[i] # 0 /\ a[i] < 248 /\ ~IsTrail(a[i])
  /\ i + Trails(a[i]) <= Len(a)
  /\ \A k \in 1 .. Trails(a[i]) : IsTrail(a[i + k])

\* The bytes from i on are those of whole characters.
WholeFrom(a, i) ==
  \A j \in i .. Len(a) :
    /\ a[j] # 0 /\ a[j] < 248
    /\ j + Trails(a[j]) <= Len(a)
    /\ \A k \in 1 .. Trails(a[j]) : IsTrail(a[j + k])
    /\ IsTrail(a[j]) => \E k \in 1 .. 3 : /\ j - k >= i /\ ~IsTrail(a[j - k]) /\ Trails(a[j - k]) >= k
                                         /\ \A l \in j - k + 1 .. j : IsTrail(a[l])

\* A text is well-formed if it is from its first byte on.
LEMMA WholeText ==
  ASSUME NEW a \in Seq(Bytes)
  PROVE  WellFormed(a) <=> WholeFrom(a, 1)
<1>1. DOMAIN a = 1 .. Len(a) /\ Len(a) \in Nat
  OBVIOUS
<1>2. \A j \in 1 .. Len(a), k \in 1 .. 3 : j - k > 0 <=> j - k >= 1
  BY <1>1
<1>. QED  BY <1>1, <1>2 DEF WellFormed, WholeFrom

\* From a byte on there are whole characters if one begins there and others behind it.
LEMMA CharacterByCharacter ==
  ASSUME NEW a \in Seq(Bytes), NEW i \in 1 .. Len(a)
  PROVE  WholeFrom(a, i) <=> Begins(a, i) /\ WholeFrom(a, i + Trails(a[i]) + 1)
<1> DEFINE n == Trails(a[i])
           len == Len(a)
           next == i + n + 1
<1>1. len \in Nat /\ i \in Nat /\ \A j \in 1 .. len : a[j] \in Bytes /\ a[j] \in Nat
  <2>1. \A b \in Bytes : b \in Nat
    BY DEF Bytes
  <2>. QED  BY <2>1
<1>2. n \in 0 .. 3 /\ \A j \in 1 .. len : Trails(a[j]) \in 0 .. 3 /\ (IsTrail(a[j]) => Trails(a[j]) = 0)
  <2>. SUFFICES ASSUME NEW j \in 1 .. len
                PROVE  Trails(a[j]) \in 0 .. 3 /\ (IsTrail(a[j]) => Trails(a[j]) = 0)
    OBVIOUS
  <2>1. a[j] \in Bytes
    BY <1>1
  <2>. QED  BY <2>1, TrailKinds
<1>3. next \in Nat /\ i < next
  BY <1>1, <1>2
<1>4. ASSUME WholeFrom(a, i)
      PROVE  Begins(a, i) /\ WholeFrom(a, next)
  <2> HIDE DEF n, next, len
  <2>1. i \in i .. len
    BY <1>1 DEF len
  <2>2. ~IsTrail(a[i])
    <3>. SUFFICES ASSUME IsTrail(a[i])
                  PROVE  FALSE
      OBVIOUS
    <3>1. PICK k \in 1 .. 3 : i - k >= i
      BY <1>4, <2>1 DEF WholeFrom, len
    <3>. QED  BY <1>1, <3>1
  <2>3. Begins(a, i)
    BY <1>4, <2>1, <2>2 DEF WholeFrom, Begins, len
  <2>4. \A j \in i + 1 .. i + n : IsTrail(a[j])
    <3>. SUFFICES ASSUME NEW j \in i + 1 .. i + n
                  PROVE  IsTrail(a[j])
      OBVIOUS
    <3>1. j - i \in 1 .. n /\ i + (j - i) = j
      BY <1>1, <1>2
    <3>. QED  BY <2>3, <3>1 DEF Begins, n
  <2>5. ASSUME NEW j \in next .. len
        PROVE  /\ j \in i .. len
               /\ IsTrail(a[j]) =>
                    \E k \in 1 .. 3 : /\ j - k >= next /\ ~IsTrail(a[j - k]) /\ Trails(a[j - k]) >= k
                                      /\ \A l \in j - k + 1 .. j : IsTrail(a[l])
    <3>1. j \in i .. len
      BY <1>1, <1>3
    <3>. SUFFICES ASSUME IsTrail(a[j])
                  PROVE  \E k \in 1 .. 3 : /\ j - k >= next /\ ~IsTrail(a[j - k]) /\ Trails(a[j - k]) >= k
                                           /\ \A l \in j - k + 1 .. j : IsTrail(a[l])
      BY <3>1
    <3>2. PICK k \in 1 .. 3 : /\ j - k >= i /\ ~IsTrail(a[j - k]) /\ Trails(a[j - k]) >= k
                              /\ \A l \in j - k + 1 .. j : IsTrail(a[l])
      BY <1>4, <3>1 DEF WholeFrom, len
    <3>3. j - k # i
      <4>. SUFFICES ASSUME j - k = i
                    PROVE  FALSE
        OBVIOUS
      <4>1. k <= n
        BY <3>2 DEF n
      <4>2. j >= next /\ k = j - i
        BY <1>1, <1>2, <1>3
      <4>. QED  BY <1>1, <1>2, <4>1, <4>2 DEF next
    <3>4. j - k \notin i + 1 .. i + n
      BY <2>4, <3>2
    <3>5. j - k >= next
      BY <1>1, <1>2, <1>3, <3>2, <3>3, <3>4 DEF next
    <3>. QED  BY <3>2, <3>5
  <2>6. WholeFrom(a, next)
    BY <1>4, <2>5 DEF WholeFrom, len
  <2>. QED  BY <2>3, <2>6
<1>5. ASSUME Begins(a, i), WholeFrom(a, next)
      PROVE  WholeFrom(a, i)
  <2> HIDE DEF n, next, len
  <2>1. \A j \in i + 1 .. i + n : IsTrail(a[j])
    <3>. SUFFICES ASSUME NEW j \in i + 1 .. i + n
                  PROVE  IsTrail(a[j])
      OBVIOUS
    <3>1. j - i \in 1 .. n /\ i + (j - i) = j
      BY <1>1, <1>2
    <3>. QED  BY <1>5, <3>1 DEF Begins, n
  <2>2. i + n <= len
    BY <1>5 DEF Begins, n, len
  <2>3. ASSUME NEW j \in i .. len
        PROVE  /\ a[j] # 0 /\ a[j] < 248
               /\ j + Trails(a[j]) <= len
               /\ \A k \in 1 .. Trails(a[j]) : IsTrail(a[j + k])
               /\ IsTrail(a[j]) =>
                    \E k \in 1 .. 3 : /\ j - k >= i /\ ~IsTrail(a[j - k]) /\ Trails(a[j - k]) >= k
                                      /\ \A l \in j - k + 1 .. j : IsTrail(a[l])
    <3>1. CASE j = i
      BY <1>5, <3>1 DEF Begins, len
    <3>2. CASE j \in i + 1 .. i + n
      <4>1. j \in 1 .. len /\ IsTrail(a[j])
        BY <1>1, <1>2, <2>1, <2>2, <3>2
      <4>2. a[j] # 0 /\ a[j] < 248 /\ Trails(a[j]) = 0
        BY <1>1, <4>1, TrailKinds
      <4>3. j - i \in 1 .. 3 /\ j - (j - i) = i /\ j - i <= n
        BY <1>1, <1>2, <3>2
      <4>4. \A l \in i + 1 .. j : l \in i + 1 .. i + n
        BY <1>1, <1>2, <3>2
      <4>5. ~IsTrail(a[i])
        BY <1>5 DEF Begins
      <4>6. \A l \in j - (j - i) + 1 .. j : IsTrail(a[l])
        BY <4>3, <4>4, <2>1
      <4>7. \E k \in 1 .. 3 : /\ j - k >= i /\ ~IsTrail(a[j - k]) /\ Trails(a[j - k]) >= k
                              /\ \A l \in j - k + 1 .. j : IsTrail(a[l])
        <5>1. j - (j - i) >= i /\ Trails(a[j - (j - i)]) >= j - i /\ ~IsTrail(a[j - (j - i)])
          BY <4>3, <4>5, <1>1, <1>2 DEF n
        <5>. QED  BY <4>3, <4>6, <5>1
      <4>8. j + Trails(a[j]) <= len /\ 1 .. Trails(a[j]) = {}
        BY <4>1, <4>2, <1>1
      <4>. QED  BY <4>2, <4>7, <4>8
    <3>3. CASE j \in next .. len
      <4>1. /\ a[j] # 0 /\ a[j] < 248
            /\ j + Trails(a[j]) <= len
            /\ \A k \in 1 .. Trails(a[j]) : IsTrail(a[j + k])
            /\ IsTrail(a[j]) =>
                 \E k \in 1 .. 3 : /\ j - k >= next /\ ~IsTrail(a[j - k]) /\ Trails(a[j - k]) >= k
                                   /\ \A l \in j - k + 1 .. j : IsTrail(a[l])
        BY <1>5, <3>3 DEF WholeFrom, len
      <4>2. j \in Nat /\ \A k \in 1 .. 3 : j - k >= next => j - k >= i
        BY <1>1, <1>3, <3>3
      <4>. QED  BY <4>1, <4>2
    <3>. QED  BY <1>1, <1>2, <2>2, <3>1, <3>2, <3>3 DEF next
  <2>. QED  BY <2>3 DEF WholeFrom, len
<1>. QED  BY <1>4, <1>5

\* A byte begins a character of one to four bytes, or none.
LEMMA ByteShapes ==
  ASSUME NEW b \in Bytes
  PROVE  LET One == b # 0 /\ b < 128
             Two == b \div 32 = 6
             Three == b \div 16 = 14
             Four == b \div 8 = 30
             Lead == b # 0 /\ b < 248 /\ ~IsTrail(b)
         IN  \/ One /\ ~Two /\ ~Three /\ ~Four /\ Trails(b) = 0 /\ Lead
             \/ ~One /\ Two /\ ~Three /\ ~Four /\ Trails(b) = 1 /\ Lead
             \/ ~One /\ ~Two /\ Three /\ ~Four /\ Trails(b) = 2 /\ Lead
             \/ ~One /\ ~Two /\ ~Three /\ Four /\ Trails(b) = 3 /\ Lead
             \/ ~One /\ ~Two /\ ~Three /\ ~Four /\ Trails(b) = 0 /\ ~Lead
<1>1. b \in Int /\ 0 <= b /\ b <= 255
  BY DEF Bytes
<1>2. /\ IsTrail(b) <=> b \in 128 .. 191
      /\ b \div 32 = 6 <=> b \in 192 .. 223
      /\ b \div 16 = 14 <=> b \in 224 .. 239
      /\ b \div 8 = 30 <=> b \in 240 .. 247
      /\ Trails(b) = IF b \in 192 .. 223 THEN 1 ELSE IF b \in 224 .. 239 THEN 2
                     ELSE IF b \in 240 .. 247 THEN 3 ELSE 0
  BY ByteKinds
<1>. QED  BY <1>1, <1>2

\* What cubs_utf8_is_valid looks for at a place: a character, with the rest behind it.
CharacterRead(c, f, i) ==
  \/ c[i] # 0 /\ c[i] < 128 /\ f[i + 1]
  \/ c[i] \div 32 = 6 /\ (\A k \in 1 .. 1 : c[i + k] \div 64 = 2) /\ f[i + 2]
  \/ c[i] \div 16 = 14 /\ (\A k \in 1 .. 2 : c[i + k] \div 64 = 2) /\ f[i + 3]
  \/ c[i] \div 8 = 30 /\ (\A k \in 1 .. 3 : c[i + k] \div 64 = 2) /\ f[i + 4]

\* The characters that cubs_utf8_is_valid looks for at a place, one after the other, are
\* what begins there.
LEMMA ReadsCharacter ==
  ASSUME NEW a \in Seq(Bytes), NEW c, NEW f, NEW i \in 1 .. Len(a),
         \A j \in 1 .. Len(a) : c[j] = a[j],
         c[Len(a) + 1] = 0
  PROVE  CharacterRead(c, f, i) <=> Begins(a, i) /\ f[i + Trails(a[i]) + 1]
<1> DEFINE len == Len(a)
           Trail(n) == \A k \in 1 .. n : c[i + k] \div 64 = 2
<1>1. len \in Nat /\ i \in Nat /\ a[i] \in Bytes /\ c[i] = a[i] /\ \A j \in 1 .. len : a[j] \in Bytes
  OBVIOUS
<1>2. ASSUME NEW n \in 0 .. 3, i + n <= len
      PROVE  Trail(n) <=> \A k \in 1 .. n : IsTrail(a[i + k])
  <2>1. \A k \in 1 .. n : c[i + k] = a[i + k]
    BY <1>1, <1>2
  <2>. QED  BY <2>1 DEF IsTrail
<1>3. ASSUME NEW n \in 0 .. 3, i + n > len
      PROVE  ~Trail(n)
  <2>1. len + 1 - i \in 1 .. n /\ i + (len + 1 - i) = len + 1
    BY <1>1, <1>3
  <2>2. c[i + (len + 1 - i)] = 0
    BY <2>1
  <2>3. ~(c[i + (len + 1 - i)] \div 64 = 2)
    BY <2>2
  <2>. QED  BY <2>1, <2>3
<1> HIDE DEF Trail, len
<1>4. \A n \in 0 .. 3 : n = Trails(a[i]) =>
        (Begins(a, i) <=> a[i] # 0 /\ a[i] < 248 /\ ~IsTrail(a[i]) /\ Trail(n))
  <2>. SUFFICES ASSUME NEW n \in 0 .. 3, n = Trails(a[i])
                PROVE  Begins(a, i) <=> a[i] # 0 /\ a[i] < 248 /\ ~IsTrail(a[i]) /\ Trail(n)
    OBVIOUS
  <2>1. CASE i + n <= len
    BY <2>1, <1>2 DEF Begins, len
  <2>2. CASE i + n > len
    <3>1. ~(i + n <= len)
      BY <2>2, <1>1
    <3>. QED  BY <2>2, <3>1, <1>3 DEF Begins, len
  <2>. QED  BY <2>1, <2>2, <1>1
<1>5. Trail(0)
  BY DEF Trail
<1> DEFINE One == a[i] # 0 /\ a[i] < 128
           Two == a[i] \div 32 = 6
           Three == a[i] \div 16 = 14
           Four == a[i] \div 8 = 30
           Lead == a[i] # 0 /\ a[i] < 248 /\ ~IsTrail(a[i])
           F(n) == f[i + n]
<1>6. \/ One /\ ~Two /\ ~Three /\ ~Four /\ Trails(a[i]) = 0 /\ Lead
      \/ ~One /\ Two /\ ~Three /\ ~Four /\ Trails(a[i]) = 1 /\ Lead
      \/ ~One /\ ~Two /\ Three /\ ~Four /\ Trails(a[i]) = 2 /\ Lead
      \/ ~One /\ ~Two /\ ~Three /\ Four /\ Trails(a[i]) = 3 /\ Lead
      \/ ~One /\ ~Two /\ ~Three /\ ~Four /\ Trails(a[i]) = 0 /\ ~Lead
  BY <1>1, ByteShapes, Zenon
<1>7. i + Trails(a[i]) + 1 = i + (Trails(a[i]) + 1) /\ 0 + 1 = 1 /\ 1 + 1 = 2 /\ 2 + 1 = 3 /\ 3 + 1 = 4
  <2>1. Trails(a[i]) \in Int
    BY <1>6
  <2>. QED  BY <1>1, <2>1
<1>8. f[i + Trails(a[i]) + 1] <=> F(Trails(a[i]) + 1)
  BY <1>7, Zenon
<1>9. 0 \in 0 .. 3 /\ 1 \in 0 .. 3 /\ 2 \in 0 .. 3 /\ 3 \in 0 .. 3
  OBVIOUS
<1>10. \A n \in 0 .. 3 : n = Trails(a[i]) => (Begins(a, i) <=> Lead /\ Trail(n))
  BY <1>4
<1>11. (One /\ F(1)) \/ (Two /\ Trail(1) /\ F(2)) \/ (Three /\ Trail(2) /\ F(3)) \/ (Four /\ Trail(3) /\ F(4))
       <=> Begins(a, i) /\ F(Trails(a[i]) + 1)
  <2> HIDE DEF One, Two, Three, Four, Lead, F
  <2>1. CASE Trails(a[i]) = 0
    <3>1. (Begins(a, i) <=> Lead) /\ ~Two /\ ~Three /\ ~Four /\ (One <=> Lead)
      BY <2>1, <1>5, <1>6, <1>9, <1>10
    <3>2. F(Trails(a[i]) + 1) <=> F(1)
      BY <2>1, <1>7, Zenon
    <3>. QED  BY <3>1, <3>2, Zenon
  <2>2. CASE Trails(a[i]) = 1
    <3>1. (Begins(a, i) <=> Trail(1)) /\ ~One /\ Two /\ ~Three /\ ~Four
      BY <2>2, <1>6, <1>9, <1>10
    <3>2. F(Trails(a[i]) + 1) <=> F(2)
      BY <2>2, <1>7, Zenon
    <3>. QED  BY <3>1, <3>2, Zenon
  <2>3. CASE Trails(a[i]) = 2
    <3>1. (Begins(a, i) <=> Trail(2)) /\ ~One /\ ~Two /\ Three /\ ~Four
      BY <2>3, <1>6, <1>9, <1>10
    <3>2. F(Trails(a[i]) + 1) <=> F(3)
      BY <2>3, <1>7, Zenon
    <3>. QED  BY <3>1, <3>2, Zenon
  <2>4. CASE Trails(a[i]) = 3
    <3>1. (Begins(a, i) <=> Trail(3)) /\ ~One /\ ~Two /\ ~Three /\ Four
      BY <2>4, <1>6, <1>9, <1>10
    <3>2. F(Trails(a[i]) + 1) <=> F(4)
      BY <2>4, <1>7, Zenon
    <3>. QED  BY <3>1, <3>2, Zenon
  <2>. QED  BY <1>6, <2>1, <2>2, <2>3, <2>4
<1>12. c[i] = a[i]
  BY <1>1
<1>. QED  BY <1>8, <1>11, <1>12, Zenon DEF Trail, CharacterRead

\* What is found from a place on, from the end of the bytes to their begin, is whether
\* they are whole characters.
LEMMA ReadsWhole ==
  ASSUME NEW a \in Seq(Bytes), NEW f,
         \A i \in 1 .. Len(a) + 4 :
           f[i] <=> i > Len(a) \/ (Begins(a, i) /\ f[i + Trails(a[i]) + 1])
  PROVE  \A i \in 1 .. Len(a) + 4 : f[i] <=> WholeFrom(a, i)
<1> DEFINE D == {i \in 1 .. Len(a) + 4 : ~(f[i] <=> WholeFrom(a, i))}
<1>. SUFFICES ASSUME D # {}
              PROVE  FALSE
  OBVIOUS
<1>1. Len(a) \in Nat /\ D \in SUBSET Nat /\ \A i \in D : i <= Len(a) + 4
  OBVIOUS
<1>2. PICK i \in D : \A j \in D : j <= i
  <2>1. Len(a) + 4 \in Nat
    BY <1>1
  <2> HIDE DEF D
  <2>. QED  BY <1>1, <2>1, GreatestNat
<1>3. i \in 1 .. Len(a) + 4 /\ ~(f[i] <=> WholeFrom(a, i))
  OBVIOUS
<1>4. CASE i > Len(a)
  <2>1. i .. Len(a) = {}
    BY <1>1, <1>3, <1>4
  <2>2. WholeFrom(a, i)
    BY <2>1 DEF WholeFrom
  <2>. QED  BY <1>3, <1>4, <2>2
<1>5. CASE i <= Len(a)
  <2>1. i \in 1 .. Len(a) /\ a[i] \in Bytes
    BY <1>1, <1>3, <1>5
  <2>2. Trails(a[i]) \in 0 .. 3
    BY <2>1, TrailKinds
  <2>3. i + Trails(a[i]) + 1 \in 1 .. Len(a) + 4 /\ i + Trails(a[i]) + 1 > i /\ ~(i > Len(a))
    BY <2>1, <2>2, <1>1
  <2>4. i + Trails(a[i]) + 1 \notin D
    <3> HIDE DEF D
    <3>. QED  BY <1>2, <2>1, <2>2, <2>3
  <2>5. f[i + Trails(a[i]) + 1] <=> WholeFrom(a, i + Trails(a[i]) + 1)
    BY <2>3, <2>4
  <2>6. WholeFrom(a, i) <=> Begins(a, i) /\ WholeFrom(a, i + Trails(a[i]) + 1)
    BY <2>1, CharacterByCharacter
  <2>7. f[i] <=> i > Len(a) \/ (Begins(a, i) /\ f[i + Trails(a[i]) + 1])
    BY <1>3
  <2>. QED  BY <1>3, <2>3, <2>5, <2>6, <2>7
<1>. QED  BY <1>1, <1>3, <1>4, <1>5

\* cubs_utf8_is_valid accepts exactly the well-formed texts, if what is behind them in
\* memory begins with a zero.
LEMMA ValidExact ==
  ASSUME NEW memory \in Seq(Bytes), NEW len \in 0 .. Len(memory),
         len < Len(memory) => memory[len + 1] = 0
  PROVE  ValidIn(memory, len) <=> WellFormed(SubSeq(memory, 1, len))
<1> DEFINE a == SubSeq(memory, 1, len)
           c(i) == IF i > Len(memory) THEN 0 ELSE memory[i]
           trails(i, n) == \A k \in 1 .. n : c(i + k) \div 64 = 2
           Reads(f, i) ==
             \/ i > len
             \/ c(i) # 0 /\ c(i) < 128 /\ f[i + 1]
             \/ c(i) \div 32 = 6 /\ trails(i, 1) /\ f[i + 2]
             \/ c(i) \div 16 = 14 /\ trails(i, 2) /\ f[i + 3]
             \/ c(i) \div 8 = 30 /\ trails(i, 3) /\ f[i + 4]
           Solves(f) == f = [i \in 1 .. len + 4 |-> Reads(f, i)]
           from == CHOOSE f : Solves(f)
           g == [i \in 1 .. len + 4 |-> WholeFrom(a, i)]
           m == [i \in 1 .. len + 4 |-> c(i)]
<1>1. a \in Seq(Bytes) /\ Len(a) = len /\ len \in Nat /\ Len(memory) \in Nat
      /\ \A i \in 1 .. len : a[i] = memory[i] /\ i \in 1 .. Len(memory)
  OBVIOUS
<1>2. /\ \A i \in 1 .. len : m[i] = a[i]
      /\ m[len + 1] = 0
  <2>1. \A i \in 1 .. len : i \in 1 .. len + 4 /\ ~(i > Len(memory))
    BY <1>1
  <2>2. len + 1 \in 1 .. len + 4 /\ c(len + 1) = 0
    BY <1>1
  <2> HIDE DEF a
  <2>. QED  BY <1>1, <2>1, <2>2
<1>3. ASSUME NEW f, NEW i \in 1 .. len + 4
      PROVE  Reads(f, i) <=> i > len \/ (Begins(a, i) /\ f[i + Trails(a[i]) + 1])
  <2>1. CASE i > len
    BY <2>1
  <2>2. CASE i <= len
    <3>1. i \in 1 .. Len(a) /\ ~(i > len)
      BY <1>1, <2>2
    <3>2. \A k \in 0 .. 3 : c(i + k) = m[i + k]
      <4>1. \A k \in 0 .. 3 : i + k \in 1 .. len + 4
        BY <1>1, <2>2
      <4>. QED  BY <4>1
    <3>3. c(i) = m[i] /\ \A n \in 1 .. 3 : trails(i, n) <=> \A k \in 1 .. n : m[i + k] \div 64 = 2
      <4>1. i + 0 = i /\ 0 \in 0 .. 3
        BY <1>1, <3>1
      <4>2. \A n \in 1 .. 3 : \A k \in 1 .. n : k \in 0 .. 3
        OBVIOUS
      <4> HIDE DEF c, m
      <4>. QED  BY <3>2, <4>1, <4>2
    <3> HIDE DEF a, m, c
    <3>4. CharacterRead(m, f, i) <=> Begins(a, i) /\ f[i + Trails(a[i]) + 1]
      <4>1. (\A j \in 1 .. Len(a) : m[j] = a[j]) /\ m[Len(a) + 1] = 0 /\ a \in Seq(Bytes)
        BY <1>1, <1>2
      <4>. QED  BY <3>1, <4>1, ReadsCharacter
    <3>5. 1 \in 1 .. 3 /\ 2 \in 1 .. 3 /\ 3 \in 1 .. 3
      OBVIOUS
    <3>6. /\ trails(i, 1) <=> \A k \in 1 .. 1 : m[i + k] \div 64 = 2
          /\ trails(i, 2) <=> \A k \in 1 .. 2 : m[i + k] \div 64 = 2
          /\ trails(i, 3) <=> \A k \in 1 .. 3 : m[i + k] \div 64 = 2
      BY <3>3, <3>5
    <3>7. c(i) = m[i]
      BY <3>3
    <3> HIDE DEF trails
    <3>. QED  BY <3>1, <3>4, <3>6, <3>7, Zenon DEF CharacterRead
  <2>. QED  BY <1>1, <2>1, <2>2
<1> HIDE DEF a, m, c, trails
<1>4. Solves(g)
  <2>1. \A i \in 1 .. len + 4 : g[i] <=> WholeFrom(a, i)
    OBVIOUS
  <2>2. ASSUME NEW i \in 1 .. len + 4
        PROVE  WholeFrom(a, i) <=> i > len \/ (Begins(a, i) /\ g[i + Trails(a[i]) + 1])
    <3>1. CASE i > len
      <4>1. i .. Len(a) = {}
        BY <1>1, <3>1
      <4>. QED  BY <3>1, <4>1 DEF WholeFrom
    <3>2. CASE i <= len
      <4>1. i \in 1 .. Len(a) /\ a[i] \in Bytes /\ ~(i > len)
        BY <1>1, <3>2
      <4>2. Trails(a[i]) \in 0 .. 3
        BY <4>1, TrailKinds
      <4>3. i + Trails(a[i]) + 1 \in 1 .. len + 4
        BY <4>1, <4>2, <1>1, <3>2
      <4>4. g[i + Trails(a[i]) + 1] <=> WholeFrom(a, i + Trails(a[i]) + 1)
        BY <2>1, <4>3
      <4>5. WholeFrom(a, i) <=> Begins(a, i) /\ WholeFrom(a, i + Trails(a[i]) + 1)
        BY <1>1, <4>1, CharacterByCharacter
      <4> HIDE DEF g
      <4>. QED  BY <4>1, <4>4, <4>5, Zenon
    <3>. QED  BY <1>1, <3>1, <3>2
  <2>3. \A i \in 1 .. len + 4 : WholeFrom(a, i) <=> Reads(g, i)
    <3> HIDE DEF Reads, g
    <3>. QED  BY <1>3, <2>2
  <2>4. [i \in 1 .. len + 4 |-> WholeFrom(a, i)] = [i \in 1 .. len + 4 |-> Reads(g, i)]
    <3>1. \A i \in 1 .. len + 4 : WholeFrom(a, i) = Reads(g, i)
      <4>. SUFFICES ASSUME NEW i \in 1 .. len + 4
                    PROVE  WholeFrom(a, i) = Reads(g, i)
        OBVIOUS
      <4>1. WholeFrom(a, i) <=> Reads(g, i)
        BY <2>3
      <4> HIDE DEF g
      <4>. QED  BY <4>1 DEF WholeFrom
    <3> HIDE DEF g
    <3>. QED  BY <3>1, Zenon
  <2>. QED  BY <2>4, Zenon
<1>5. Solves(from)
  <2> HIDE DEF Solves, g
  <2>. QED  BY <1>4
<1>6. ValidIn(memory, len) = from[1]
  BY Zenon DEF ValidIn, c, trails
<1> HIDE DEF from
<1>7. \A i \in 1 .. len + 4 : from[i] <=> Reads(from, i)
  <2>1. \A i \in 1 .. len + 4 : from[i] = Reads(from, i)
    <3>1. from = [i \in 1 .. len + 4 |-> Reads(from, i)]
      BY <1>5, Zenon
    <3> HIDE DEF Reads, Solves
    <3>. QED  BY <3>1, Zenon
  <2> HIDE DEF Reads, Solves
  <2>. QED  BY <2>1, Zenon
<1>8. \A i \in 1 .. Len(a) + 4 :
        from[i] <=> i > Len(a) \/ (Begins(a, i) /\ from[i + Trails(a[i]) + 1])
  <2> HIDE DEF Reads, Solves, g
  <2>. QED  BY <1>1, <1>3, <1>7
<1>9. \A i \in 1 .. Len(a) + 4 : from[i] <=> WholeFrom(a, i)
  <2> HIDE DEF Reads, Solves, g
  <2>. QED  BY <1>1, <1>8, ReadsWhole
<1>10. from[1] <=> WholeFrom(a, 1)
  <2>1. 1 \in 1 .. Len(a) + 4
    BY <1>1
  <2> HIDE DEF Reads, Solves, g
  <2>. QED  BY <1>9, <2>1
<1>11. WholeFrom(a, 1) <=> WellFormed(a)
  BY <1>1, WholeText
<1>12. from[1] <=> WellFormed(SubSeq(memory, 1, len))
  BY <1>10, <1>11 DEF a
<1> HIDE DEF Reads, Solves, g
<1>. QED  BY <1>6, <1>12, Zenon

\* What is behind a text is zeros.
LEMMA ZerosBehind ==
  ASSUME NEW a \in Seq(Bytes), NEW n \in Nat
  PROVE  /\ a \o Zeros(n) \in Seq(Bytes) /\ Len(a \o Zeros(n)) = Len(a) + n
         /\ \A i \in 1 .. Len(a) : (a \o Zeros(n))[i] = a[i]
         /\ \A i \in Len(a) + 1 .. Len(a) + n : (a \o Zeros(n))[i] = 0
<1>1. \A i \in 1 .. n : 0 \in Bytes
  BY DEF Bytes
<1>2. Zeros(n) \in Seq(Bytes) /\ Len(Zeros(n)) = n /\ \A i \in 1 .. n : Zeros(n)[i] = 0
  <2>1. Zeros(n) \in [1 .. n -> Bytes]
    BY <1>1 DEF Zeros
  <2>. QED  BY <2>1 DEF Zeros
<1> DEFINE z == Zeros(n)
<1> HIDE DEF z
<1>3. z \in Seq(Bytes) /\ Len(z) = n /\ \A i \in 1 .. n : z[i] = 0
  BY <1>2 DEF z
<1>4. /\ a \o z \in Seq(Bytes) /\ Len(a \o z) = Len(a) + n /\ Len(a) \in Nat
      /\ \A i \in 1 .. Len(a) : (a \o z)[i] = a[i]
  BY <1>3
<1>5. ASSUME NEW i \in Len(a) + 1 .. Len(a) + n
      PROVE  (a \o z)[i] = 0
  <2>1. i \in 1 .. Len(a) + Len(z) /\ ~(i <= Len(a)) /\ i - Len(a) \in 1 .. n
    BY <1>3, <1>4
  <2>2. (a \o z)[i] = z[i - Len(a)]
    BY <1>3, <2>1
  <2>. QED  BY <1>3, <2>1, <2>2
<1>. QED  BY <1>4, <1>5 DEF z

\* A string has its bytes, whichever the representation, and zeros behind them.
LEMMA StringOfBytes ==
  ASSUME NEW a \in Seq(Bytes)
  PROVE  LET s == StringOf(a)
         IN  /\ s.len = Len(a) /\ (s.sso <=> Len(a) <= MaxSso)
             /\ s.buf \in Seq(Bytes) /\ Len(s.buf) > Len(a)
             /\ \A i \in 1 .. Len(a) : s.buf[i] = a[i]
             /\ \A i \in Len(a) + 1 .. Len(s.buf) : s.buf[i] = 0
             /\ s.sso => s.buf = a \o Zeros(MaxSso + 1 - Len(a))
             /\ ~s.sso => Len(s.buf) = Len(a) + 1 + Chunk - ((Len(a) + 1) % Chunk)
<1> DEFINE s == StringOf(a)
           room == IF Len(a) <= MaxSso THEN MaxSso + 1 - Len(a)
                   ELSE 1 + Chunk - ((Len(a) + 1) % Chunk)
<1>1. Len(a) \in Nat
  OBVIOUS
<1>2. room \in Nat /\ room > 0
  BY <1>1, TextSizesAssumption
<1>3. /\ s.len = Len(a) /\ (s.sso <=> Len(a) <= MaxSso) /\ s.buf = a \o Zeros(room)
  <2>1. CASE Len(a) <= MaxSso
    <3>1. room = MaxSso + 1 - Len(a)
      BY <2>1
    <3>2. s = [len |-> Len(a), sso |-> TRUE, buf |-> a \o Zeros(MaxSso + 1 - Len(a))]
      BY <2>1 DEF StringOf
    <3> HIDE DEF s, room
    <3>. QED  BY <2>1, <3>1, <3>2
  <2>2. CASE ~(Len(a) <= MaxSso)
    <3>1. room = 1 + Chunk - ((Len(a) + 1) % Chunk)
      BY <2>2
    <3>2. s = [len |-> Len(a), sso |-> FALSE, buf |-> a \o Zeros(1 + Chunk - ((Len(a) + 1) % Chunk))]
      BY <2>2 DEF StringOf
    <3> HIDE DEF s, room
    <3>. QED  BY <2>2, <3>1, <3>2
  <2>. QED  BY <2>1, <2>2
<1> HIDE DEF room, s
<1>4. /\ s.buf = a \o Zeros(room) /\ a \o Zeros(room) \in Seq(Bytes)
      /\ Len(a \o Zeros(room)) = Len(a) + room
      /\ \A i \in 1 .. Len(a) : (a \o Zeros(room))[i] = a[i]
      /\ \A i \in Len(a) + 1 .. Len(a) + room : (a \o Zeros(room))[i] = 0
  BY <1>2, <1>3, ZerosBehind, Zenon
<1>5. /\ s.buf \in Seq(Bytes) /\ Len(s.buf) = Len(a) + room
      /\ \A i \in 1 .. Len(a) : s.buf[i] = a[i]
      /\ \A i \in Len(a) + 1 .. Len(s.buf) : s.buf[i] = 0
  BY <1>4, Zenon
<1>6. Len(s.buf) > Len(a)
  BY <1>1, <1>2, <1>5
<1>7. s.sso => s.buf = a \o Zeros(MaxSso + 1 - Len(a))
  BY <1>3 DEF room
<1>8. ~s.sso => Len(s.buf) = Len(a) + 1 + Chunk - ((Len(a) + 1) % Chunk)
  <2>. SUFFICES ASSUME ~s.sso
                PROVE  Len(s.buf) = Len(a) + 1 + Chunk - ((Len(a) + 1) % Chunk)
    OBVIOUS
  <2>1. room = 1 + Chunk - ((Len(a) + 1) % Chunk)
    BY <1>3 DEF room
  <2>2. (Len(a) + 1) % Chunk \in Nat /\ Chunk \in Nat
    BY <1>1, TextSizesAssumption
  <2>3. Len(s.buf) = Len(a) + room
    BY <1>5
  <2> DEFINE rest == (Len(a) + 1) % Chunk
  <2> HIDE DEF rest
  <2>4. rest \in Nat /\ room = 1 + Chunk - rest
    BY <2>1, <2>2 DEF rest
  <2>5. Len(s.buf) = Len(a) + 1 + Chunk - rest
    BY <1>1, <2>2, <2>3, <2>4
  <2>. QED  BY <2>5 DEF rest
<1>. QED  BY <1>3, <1>5, <1>6, <1>7, <1>8 DEF s

\* cubs_string_as_slice gives the bytes that the string was made of.
LEMMA SliceOfString ==
  ASSUME NEW a \in Seq(Bytes)
  PROVE  AsSlice(StringOf(a)) = a
<1> DEFINE s == StringOf(a)
<1>1. /\ s.len = Len(a) /\ s.buf \in Seq(Bytes) /\ Len(s.buf) > Len(a)
      /\ \A i \in 1 .. Len(a) : s.buf[i] = a[i]
  BY StringOfBytes
<1>2. AsSlice(s) = SubSeq(s.buf, 1, Len(a))
  BY <1>1 DEF AsSlice
<1> HIDE DEF s
<1>3. Len(SubSeq(s.buf, 1, Len(a))) = Len(a) /\ SubSeq(s.buf, 1, Len(a)) \in Seq(Bytes)
      /\ \A i \in 1 .. Len(a) : SubSeq(s.buf, 1, Len(a))[i] = s.buf[i]
  BY <1>1
<1>4. SubSeq(s.buf, 1, Len(a)) = a
  BY <1>1, <1>3
<1>. QED  BY <1>2, <1>4 DEF s

\* cubs_string_init: whole strings are accepted exactly when they are well-formed.
LEMMA EncodingIsChecked ==
  ASSUME NEW a \in Seq(Bytes)
  PROVE  EncodingChecked(a)
<1> DEFINE m == a \o <<0>>
<1>1. 0 \in Bytes
  BY DEF Bytes
<1>2. m \in Seq(Bytes) /\ Len(m) = Len(a) + 1 /\ Len(a) \in Nat /\ m[Len(a) + 1] = 0
      /\ \A i \in 1 .. Len(a) : m[i] = a[i]
  BY <1>1
<1> HIDE DEF m
<1>3. SubSeq(m, 1, Len(a)) = a
  BY <1>2
<1>4. Len(a) \in 0 .. Len(m)
  BY <1>2
<1>5. ValidIn(m, Len(a)) <=> WellFormed(SubSeq(m, 1, Len(a)))
  BY <1>2, <1>4, ValidExact
<1>6. ValidIn(m, Len(a)) <=> WellFormed(a)
  BY <1>3, <1>5
<1>7. (Created(m, Len(a)).error = "none") <=> ValidIn(m, Len(a))
  BY DEF Created, Error
<1>. QED  BY <1>6, <1>7 DEF EncodingChecked, m

\* The same of a text on its own.
LEMMA ValidText ==
  ASSUME NEW b \in Seq(Bytes)
  PROVE  ValidIn(b, Len(b)) <=> WellFormed(b)
<1>1. Len(b) \in 0 .. Len(b) /\ ~(Len(b) < Len(b)) /\ SubSeq(b, 1, Len(b)) = b
  OBVIOUS
<1>2. ValidIn(b, Len(b)) <=> WellFormed(SubSeq(b, 1, Len(b)))
  BY <1>1, ValidExact
<1>. QED  BY <1>1, <1>2

\* What well-formed texts make up is well-formed.
LEMMA JoinedWellFormed ==
  ASSUME NEW a \in Seq(Bytes), NEW b \in Seq(Bytes), WellFormed(a), WellFormed(b)
  PROVE  WellFormed(a \o b)
<1> DEFINE c == a \o b
           n == Len(a)
<1>1. /\ c \in Seq(Bytes) /\ Len(c) = n + Len(b) /\ n \in Nat /\ Len(b) \in Nat
      /\ \A i \in 1 .. n : c[i] = a[i]
      /\ \A i \in 1 .. Len(b) : c[n + i] = b[i]
  OBVIOUS
<1>2. \A b1 \in Bytes : Trails(b1) \in 0 .. 3
  BY TrailKinds
<1> HIDE DEF c
<1>3. ASSUME NEW j \in 1 .. Len(c)
      PROVE  /\ c[j] # 0 /\ c[j] < 248 /\ j + Trails(c[j]) <= Len(c)
             /\ \A k \in 1 .. Trails(c[j]) : IsTrail(c[j + k])
             /\ IsTrail(c[j]) =>
                  \E k \in 1 .. 3 : /\ j - k >= 1 /\ ~IsTrail(c[j - k]) /\ Trails(c[j - k]) >= k
                                    /\ \A l \in j - k + 1 .. j : IsTrail(c[l])
  <2>1. CASE j <= n
    <3>1. j \in 1 .. Len(a) /\ c[j] = a[j] /\ a[j] \in Bytes
      BY <1>1, <2>1
    <3>2. WholeFrom(a, 1)
      BY WholeText
    <3> DEFINE t == Trails(a[j])
    <3>3. t \in 0 .. 3
      BY <1>2, <3>1
    <3> HIDE DEF t
    <3>4. /\ a[j] # 0 /\ a[j] < 248 /\ j + t <= n /\ \A k \in 1 .. t : IsTrail(a[j + k])
          /\ IsTrail(a[j]) =>
               \E k \in 1 .. 3 : /\ j - k >= 1 /\ ~IsTrail(a[j - k]) /\ Trails(a[j - k]) >= k
                                 /\ \A l \in j - k + 1 .. j : IsTrail(a[l])
      BY <3>1, <3>2 DEF WholeFrom, t
    <3>5. \A k \in 1 .. t : j + k \in 1 .. n /\ c[j + k] = a[j + k]
      BY <1>1, <3>1, <3>3, <3>4
    <3>6. j + t <= Len(c)
      BY <1>1, <3>1, <3>3, <3>4
    <3>7. IsTrail(c[j]) =>
            \E k \in 1 .. 3 : /\ j - k >= 1 /\ ~IsTrail(c[j - k]) /\ Trails(c[j - k]) >= k
                              /\ \A l \in j - k + 1 .. j : IsTrail(c[l])
      <4>. SUFFICES ASSUME IsTrail(c[j])
                    PROVE  \E k \in 1 .. 3 : /\ j - k >= 1 /\ ~IsTrail(c[j - k]) /\ Trails(c[j - k]) >= k
                                             /\ \A l \in j - k + 1 .. j : IsTrail(c[l])
        OBVIOUS
      <4>1. PICK k \in 1 .. 3 : /\ j - k >= 1 /\ ~IsTrail(a[j - k]) /\ Trails(a[j - k]) >= k
                                /\ \A l \in j - k + 1 .. j : IsTrail(a[l])
        BY <3>1, <3>4
      <4>2. j - k \in 1 .. n /\ \A l \in j - k + 1 .. j : l \in 1 .. n
        BY <1>1, <3>1, <4>1
      <4>3. c[j - k] = a[j - k] /\ \A l \in j - k + 1 .. j : c[l] = a[l]
        BY <1>1, <4>2
      <4>. QED  BY <4>1, <4>3
    <3>. QED  BY <3>1, <3>4, <3>5, <3>6, <3>7 DEF t
  <2>2. CASE j > n
    <3> DEFINE i == j - n
    <3>1. i \in 1 .. Len(b) /\ c[j] = b[i] /\ b[i] \in Bytes /\ j = n + i
      <4>1. i \in 1 .. Len(b) /\ n + i = j
        BY <1>1, <2>2
      <4> HIDE DEF i
      <4>. QED  BY <1>1, <4>1
    <3> HIDE DEF i
    <3>2. WholeFrom(b, 1)
      BY WholeText
    <3> DEFINE t == Trails(b[i])
    <3>3. t \in 0 .. 3
      BY <1>2, <3>1
    <3> HIDE DEF t
    <3>4. /\ b[i] # 0 /\ b[i] < 248 /\ i + t <= Len(b) /\ \A k \in 1 .. t : IsTrail(b[i + k])
          /\ IsTrail(b[i]) =>
               \E k \in 1 .. 3 : /\ i - k >= 1 /\ ~IsTrail(b[i - k]) /\ Trails(b[i - k]) >= k
                                 /\ \A l \in i - k + 1 .. i : IsTrail(b[l])
      BY <3>1, <3>2 DEF WholeFrom, t
    <3>5. \A k \in 1 .. t : c[j + k] = b[i + k]
      <4>1. \A k \in 1 .. t : i + k \in 1 .. Len(b) /\ n + (i + k) = j + k
        BY <1>1, <3>1, <3>3, <3>4
      <4>. QED  BY <1>1, <4>1
    <3>6. j + t <= Len(c)
      BY <1>1, <3>1, <3>3, <3>4
    <3>7. IsTrail(c[j]) =>
            \E k \in 1 .. 3 : /\ j - k >= 1 /\ ~IsTrail(c[j - k]) /\ Trails(c[j - k]) >= k
                              /\ \A l \in j - k + 1 .. j : IsTrail(c[l])
      <4>. SUFFICES ASSUME IsTrail(c[j])
                    PROVE  \E k \in 1 .. 3 : /\ j - k >= 1 /\ ~IsTrail(c[j - k]) /\ Trails(c[j - k]) >= k
                                             /\ \A l \in j - k + 1 .. j : IsTrail(c[l])
        OBVIOUS
      <4>1. PICK k \in 1 .. 3 : /\ i - k >= 1 /\ ~IsTrail(b[i - k]) /\ Trails(b[i - k]) >= k
                                /\ \A l \in i - k + 1 .. i : IsTrail(b[l])
        BY <3>1, <3>4
      <4>2. i - k \in 1 .. Len(b) /\ n + (i - k) = j - k /\ j - k >= 1
        <5>1. /\ i - k >= 1 /\ k \in 1 .. 3 /\ i \in 1 .. Len(b) /\ j = n + i
              /\ n \in Nat /\ Len(b) \in Nat
          <6>1. i - k >= 1
            BY <4>1
          <6>. QED  BY <1>1, <3>1, <6>1
        <5>. QED  BY <5>1
      <4>3. c[j - k] = b[i - k]
        BY <1>1, <4>2
      <4>4. ASSUME NEW l \in j - k + 1 .. j
            PROVE  IsTrail(c[l])
        <5>1. l - n \in i - k + 1 .. i /\ l - n \in 1 .. Len(b) /\ n + (l - n) = l
          BY <1>1, <3>1, <4>1
        <5>2. c[l] = b[l - n]
          BY <1>1, <5>1
        <5>. QED  BY <4>1, <5>1, <5>2
      <4>. QED  BY <4>1, <4>2, <4>3, <4>4
    <3>. QED  BY <3>1, <3>4, <3>5, <3>6, <3>7 DEF t
  <2>. QED  BY <1>1, <2>1, <2>2
<1>4. WholeFrom(c, 1)
  BY <1>3 DEF WholeFrom
<1>. QED  BY <1>1, <1>4, WholeText DEF c

-----------------------------------------------------------------------------
(***************************************************************************)
(* Finding, cutting and joining.                                           *)
(***************************************************************************)

\* Texts with the same bytes are equal.
LEMMA SameText ==
  ASSUME NEW a \in Seq(Bytes), NEW b \in Seq(Bytes), Len(a) = Len(b),
         \A i \in 1 .. Len(a) : a[i] = b[i]
  PROVE  a = b
OBVIOUS

\* A text is made up of what is cut from it.
LEMMA SplitText ==
  ASSUME NEW a \in Seq(Bytes), NEW n \in 0 .. Len(a)
  PROVE  SubSeq(a, 1, n) \o SubSeq(a, n + 1, Len(a)) = a
<1> DEFINE left == SubSeq(a, 1, n)
           right == SubSeq(a, n + 1, Len(a))
<1>1. Len(a) \in Nat /\ n \in Nat /\ n <= Len(a)
  OBVIOUS
<1>2. left \in Seq(Bytes) /\ Len(left) = n /\ \A i \in 1 .. n : left[i] = a[i]
  BY <1>1
<1>3. right \in Seq(Bytes) /\ Len(right) = Len(a) - n /\ \A i \in 1 .. Len(a) - n : right[i] = a[n + i]
  <2>1. \A i \in 1 .. Len(a) - n : n + 1 + i - 1 = n + i
    BY <1>1
  <2>. QED  BY <1>1, <2>1
<1> HIDE DEF left, right
<1> DEFINE c == left \o right
<1>4. c \in Seq(Bytes) /\ Len(c) = Len(a) /\ \A i \in 1 .. Len(a) : c[i] = IF i <= n THEN left[i] ELSE right[i - n]
  BY <1>1, <1>2, <1>3
<1> HIDE DEF c
<1>5. ASSUME NEW i \in 1 .. Len(a)
      PROVE  c[i] = a[i]
  <2>1. CASE i <= n
    BY <1>1, <1>2, <1>4, <2>1
  <2>2. CASE ~(i <= n)
    <3>1. i - n \in 1 .. Len(a) - n /\ n + (i - n) = i
      BY <1>1, <2>2
    <3>. QED  BY <1>3, <1>4, <2>2, <3>1
  <2>. QED  BY <2>1, <2>2
<1>6. c = a
  BY <1>4, <1>5, SameText
<1>. QED  BY <1>6 DEF c, left, right

\* A slice matches at a place if the bytes there are the slice.
LEMMA MatchingSlice ==
  ASSUME NEW a \in Seq(Bytes), NEW b \in Seq(Bytes), NEW i \in 0 .. Len(a) - Len(b)
  PROVE  MatchesAt(a, b, i) <=> SubSeq(a, i + 1, i + Len(b)) = b
<1> DEFINE c == SubSeq(a, i + 1, i + Len(b))
<1>1. Len(a) \in Nat /\ Len(b) \in Nat /\ i \in Nat /\ i + Len(b) <= Len(a)
  OBVIOUS
<1>2. c \in Seq(Bytes) /\ Len(c) = Len(b) /\ \A k \in 1 .. Len(b) : c[k] = a[i + k]
  <2>1. \A k \in 1 .. Len(b) : i + 1 + k - 1 = i + k
    BY <1>1
  <2>. QED  BY <1>1, <2>1
<1> HIDE DEF c
<1>3. c = b <=> \A k \in 1 .. Len(b) : c[k] = b[k]
  <2>1. (\A k \in 1 .. Len(b) : c[k] = b[k]) => c = b
    BY <1>2, SameText
  <2>. QED  BY <2>1
<1>4. c = b <=> MatchesAt(a, b, i)
  BY <1>2, <1>3 DEF MatchesAt
<1>. QED  BY <1>4 DEF c

\* What cubs_string_find and cubs_string_rfind return is the first and the last occurrence;
\* find misses at most one that ends the string.
LEMMA OccurrencesFound ==
  ASSUME NEW a \in Seq(Bytes), NEW b \in Seq(Bytes), NEW start \in Nat
  PROVE  FindsOccurrences(a, b, start)
<1> DEFINE s == StringOf(a)
           at == {i \in 0 .. Len(a) - Len(b) : b # << >> /\ SubSeq(a, i + 1, i + Len(b)) = b}
           from == {i \in at : i >= start}
           first == {i \in at : i >= start /\ start + Len(b) < Len(a)}
           last == {i \in at : i + Len(b) <= start /\ start <= Len(a)}
           found == {i \in start .. s.len - Len(b) : MatchesAt(AsSlice(s), b, i)}
           rfound == {i \in 0 .. start - Len(b) : MatchesAt(AsSlice(s), b, i)}
<1>1. s.len = Len(a) /\ AsSlice(s) = a
  BY StringOfBytes, SliceOfString
<1>2. Len(a) \in Nat /\ Len(b) \in Nat
  OBVIOUS
<1>3. \A i \in 0 .. Len(a) - Len(b) : MatchesAt(a, b, i) <=> SubSeq(a, i + 1, i + Len(b)) = b
  BY MatchingSlice
<1> HIDE DEF s
<1>4. Find(s, b, start) = IF first = {} THEN NPos ELSE Min(first)
  <2> DEFINE none == Len(b) > s.len \/ start + Len(b) >= s.len \/ b = << >>
  <2>1. CASE none
    <3>1. first = {}
      BY <1>1, <1>2, <2>1
    <3>2. Find(s, b, start) = NPos
      BY <2>1 DEF Find
    <3>. QED  BY <3>1, <3>2
  <2>2. CASE ~none
    <3>1. ASSUME NEW i
          PROVE  i \in first <=> i \in found
      <4>1. i \in start .. Len(a) - Len(b) <=> i \in 0 .. Len(a) - Len(b) /\ i >= start
        BY <1>2
      <4>2. b # << >> /\ start + Len(b) < Len(a)
        BY <1>1, <1>2, <2>2
      <4> HIDE DEF none
      <4>. QED  BY <1>1, <1>3, <4>1, <4>2
    <3> HIDE DEF at
    <3>2. first = found
      <4> HIDE DEF first, found
      <4>. QED  BY <3>1
    <3>3. Find(s, b, start) = IF found = {} THEN NPos ELSE Min(found)
      BY <2>2 DEF Find
    <3>. QED  BY <3>2, <3>3
  <2>. QED  BY <2>1, <2>2
<1>5. RFind(s, b, start) = IF last = {} THEN NPos ELSE Max(last)
  <2> DEFINE none == Len(b) > s.len \/ start > s.len \/ b = << >>
  <2>1. CASE none
    <3>1. last = {}
      BY <1>1, <1>2, <2>1
    <3>2. RFind(s, b, start) = NPos
      BY <2>1 DEF RFind
    <3>. QED  BY <3>1, <3>2
  <2>2. CASE ~none
    <3>1. ASSUME NEW i
          PROVE  i \in last <=> i \in rfound
      <4>1. start <= Len(a) /\ b # << >>
        BY <1>1, <1>2, <2>2
      <4>2. i \in 0 .. start - Len(b) <=> i \in 0 .. Len(a) - Len(b) /\ i + Len(b) <= start
        BY <1>2, <4>1
      <4> HIDE DEF none
      <4>. QED  BY <1>1, <1>3, <4>1, <4>2
    <3> HIDE DEF at
    <3>2. last = rfound
      <4> HIDE DEF last, rfound
      <4>. QED  BY <3>1
    <3>3. RFind(s, b, start) = IF rfound = {} THEN NPos ELSE Max(rfound)
      BY <2>2 DEF RFind
    <3>. QED  BY <3>2, <3>3
  <2>. QED  BY <2>1, <2>2
<1>6. \/ from # {} /\ Find(s, b, start) = Min(from)
      \/ Find(s, b, start) = NPos /\ \A i \in from : i = start /\ i + Len(b) = Len(a)
  <2>1. CASE start + Len(b) < Len(a)
    <3>1. first = from
      BY <2>1
    <3> HIDE DEF first, from
    <3>2. CASE from = {}
      BY <1>4, <3>1, <3>2
    <3>3. CASE from # {}
      BY <1>4, <3>1, <3>3
    <3>. QED  BY <3>2, <3>3
  <2>2. CASE ~(start + Len(b) < Len(a))
    <3>1. first = {}
      BY <2>2
    <3>2. ASSUME NEW i \in from
          PROVE  i = start /\ i + Len(b) = Len(a)
      BY <1>2, <2>2, <3>2
    <3> HIDE DEF first, from
    <3>. QED  BY <1>4, <3>1, <3>2
  <2>. QED  BY <2>1, <2>2
<1>. QED  BY <1>5, <1>6 DEF FindsOccurrences, Occurrences, s

\* Part of a text, cut from the memory that begins with it.
LEMMA CutText ==
  ASSUME NEW a \in Seq(Bytes), NEW from \in 0 .. Len(a), NEW n \in 0 .. Len(a) - from
  PROVE  LET buf == StringOf(a).buf
             cut == SubSeq(SubSeq(buf, from + 1, Len(buf)), 1, n)
         IN  cut = SubSeq(a, from + 1, from + n) /\ cut \in Seq(Bytes)
<1> DEFINE buf == StringOf(a).buf
           rest == SubSeq(buf, from + 1, Len(buf))
           cut == SubSeq(rest, 1, n)
           part == SubSeq(a, from + 1, from + n)
<1>1. buf \in Seq(Bytes) /\ Len(buf) > Len(a) /\ \A i \in 1 .. Len(a) : buf[i] = a[i]
  BY StringOfBytes
<1>2. Len(a) \in Nat /\ from \in Nat /\ n \in Nat /\ from + n <= Len(a)
  OBVIOUS
<1> HIDE DEF buf
<1>3. /\ rest \in Seq(Bytes) /\ Len(rest) = Len(buf) - from
      /\ \A i \in 1 .. Len(buf) - from : rest[i] = buf[from + i]
  BY <1>1, <1>2
<1> HIDE DEF rest
<1>4. n <= Len(rest)
  BY <1>1, <1>2, <1>3
<1>5. cut \in Seq(Bytes) /\ Len(cut) = n /\ \A i \in 1 .. n : cut[i] = rest[i]
  BY <1>2, <1>3, <1>4
<1>6. part \in Seq(Bytes) /\ Len(part) = n /\ \A i \in 1 .. n : part[i] = a[from + i]
  <2> DEFINE x == from + 1
             y == from + n
  <2>1. x \in Int /\ y \in Int
    BY <1>2
  <2>2. \A i \in x .. y : a[i] \in Bytes
    <3>1. \A i \in x .. y : i \in 1 .. Len(a)
      BY <1>2
    <3>. QED  BY <3>1
  <2>3. y - x + 1 = n /\ (x <= y <=> n > 0) /\ \A i \in 1 .. n : x + i - 1 = from + i
    BY <1>2
  <2> HIDE DEF x, y
  <2>4. /\ SubSeq(a, x, y) \in Seq(Bytes)
        /\ Len(SubSeq(a, x, y)) = IF x <= y THEN y - x + 1 ELSE 0
        /\ \A i \in 1 .. y - x + 1 : SubSeq(a, x, y)[i] = a[x + i - 1]
    BY <2>1, <2>2, SubSeqProperties
  <2>5. part = SubSeq(a, x, y)
    BY DEF x, y
  <2> HIDE DEF part
  <2>6. Len(part) = n
    <3>1. Len(part) = IF n > 0 THEN n ELSE 0
      BY <2>3, <2>4, <2>5
    <3>. QED  BY <1>2, <3>1
  <2>7. \A i \in 1 .. n : part[i] = a[x + i - 1]
    BY <2>3, <2>4, <2>5
  <2>8. part \in Seq(Bytes)
    BY <2>4, <2>5
  <2>. QED  BY <2>3, <2>6, <2>7, <2>8
<1>7. \A i \in 1 .. n : cut[i] = part[i]
  <2>1. \A i \in 1 .. n : i \in 1 .. Len(buf) - from /\ from + i \in 1 .. Len(a)
    BY <1>1, <1>2
  <2> HIDE DEF cut, part
  <2>. QED  BY <1>1, <1>3, <1>5, <1>6, <2>1
<1>8. cut = part
  <2> HIDE DEF cut, part
  <2>. QED  BY <1>5, <1>6, <1>7
<1>. QED  BY <1>5, <1>8 DEF buf, rest

\* Concatenation and substrings keep the bytes, and what is joined is well-formed.
LEMMA CutAndJoined ==
  ASSUME NEW a \in Seq(Bytes), NEW b \in Seq(Bytes), NEW start \in Nat, WellFormed(a)
  PROVE  CutsAndJoins(a, b, start)
<1> DEFINE s == StringOf(a)
           joined == ConcatSlice(s, b)
           head == Substr(s, 0, start)
           tail == Substr(s, start, Len(a))
<1>1. s.len = Len(a) /\ AsSlice(s) = a /\ AsSlice(StringOf(b)) = b /\ Len(a) \in Nat
  BY StringOfBytes, SliceOfString
<1>2. a \o b \in Seq(Bytes)
  OBVIOUS
<1>3. AsSlice(Concat(s, StringOf(b))) = a \o b
  BY <1>1, <1>2, SliceOfString DEF Concat
<1>4. /\ (joined.error = "none") <=> WellFormed(b)
      /\ joined.error = "none" => WellFormed(AsSlice(joined.string))
  <2>1. CASE WellFormed(b)
    <3>1. joined = [error |-> "none", string |-> StringOf(a \o b)]
      BY <1>1, <2>1, ValidText DEF ConcatSlice
    <3>2. WellFormed(a \o b) /\ AsSlice(StringOf(a \o b)) = a \o b
      BY <1>2, <2>1, JoinedWellFormed, SliceOfString
    <3> HIDE DEF joined
    <3>. QED  BY <2>1, <3>1, <3>2
  <2>2. CASE ~WellFormed(b)
    <3>1. joined = Error("invalidUtf8")
      BY <2>2, ValidText DEF ConcatSlice
    <3> HIDE DEF joined
    <3>. QED  BY <2>2, <3>1 DEF Error
  <2>. QED  BY <2>1, <2>2
<1>5. ASSUME start \in 1 .. Len(a) - 1, head.error = "none", tail.error = "none"
      PROVE  AsSlice(head.string) \o AsSlice(tail.string) = a
  <2> DEFINE buf == s.buf
             left == SubSeq(SubSeq(buf, 0 + 1, Len(buf)), 1, start)
             right == SubSeq(SubSeq(buf, start + 1, Len(buf)), 1, Len(a) - start)
  <2>1. start \in Nat /\ start > 0 /\ start < Len(a) /\ Len(a) - start \in 0 .. Len(a) - start
        /\ start \in 0 .. Len(a) - 0 /\ 0 \in 0 .. Len(a) /\ start \in 0 .. Len(a)
    BY <1>1, <1>5
  <2>2. left = SubSeq(a, 0 + 1, 0 + start) /\ left \in Seq(Bytes)
    BY <2>1, CutText
  <2>3. right = SubSeq(a, start + 1, start + (Len(a) - start)) /\ right \in Seq(Bytes)
    BY <2>1, CutText
  <2>4. head = Created(SubSeq(buf, 0 + 1, Len(buf)), start)
    <3>1. ~(0 = 0 /\ start = 0) /\ ~(0 >= s.len \/ start > s.len \/ 0 > start) /\ ~(0 = start) /\ start - 0 = start
      BY <1>1, <2>1
    <3>2. head = Created(SubSeq(s.buf, 0 + 1, Len(s.buf)), start - 0)
      <4> HIDE DEF s
      <4>. QED  BY <3>1 DEF Substr
    <3>. QED  BY <3>1, <3>2
  <2>5. tail = Created(SubSeq(buf, start + 1, Len(buf)), Len(a) - start)
    <3>1. ~(start = 0 /\ Len(a) = 0) /\ ~(start >= s.len \/ Len(a) > s.len \/ start > Len(a)) /\ ~(start = Len(a))
      BY <1>1, <2>1
    <3> HIDE DEF s
    <3>. QED  BY <3>1 DEF Substr
  <2>6. \A memory, len : Created(memory, len).error = "none" =>
          Created(memory, len).string = StringOf(SubSeq(memory, 1, len))
    BY DEF Created, Error
  <2>7. head.string = StringOf(left) /\ tail.string = StringOf(right)
    <3> HIDE DEF head, tail, buf
    <3>. QED  BY <1>5, <2>4, <2>5, <2>6
  <2>8. AsSlice(head.string) = left /\ AsSlice(tail.string) = right
    BY <2>2, <2>3, <2>7, SliceOfString
  <2> HIDE DEF left, right, head, tail
  <2>9. 0 + 1 = 1 /\ 0 + start = start /\ start + (Len(a) - start) = Len(a)
    BY <1>1, <2>1
  <2>10. left \o right = a
    <3>1. left = SubSeq(a, 1, start) /\ right = SubSeq(a, start + 1, Len(a))
      BY <2>2, <2>3, <2>9
    <3>. QED  BY <2>1, <3>1, SplitText
  <2>. QED  BY <2>8, <2>10
<1>. QED  BY <1>3, <1>4, <1>5 DEF CutsAndJoins

-----------------------------------------------------------------------------
(***************************************************************************)
(* Comparing texts by chunks, words and bytes.                             *)
(***************************************************************************)

\* The least and the greatest of some numbers.
LEMMA LeastOf ==
  ASSUME NEW S \in SUBSET Nat, S # {}
  PROVE  Min(S) \in S /\ \A n \in S : Min(S) <= n
<1>1. \E n \in S : \A k \in S : n <= k
  BY LeastNat
<1>. QED  BY <1>1 DEF Min

\* The same for the greatest.
LEMMA GreatestOf ==
  ASSUME NEW S \in SUBSET Nat, S # {}, NEW b \in Nat, \A n \in S : n <= b
  PROVE  Max(S) \in S /\ \A n \in S : n <= Max(S)
<1>1. \E n \in S : \A k \in S : k <= n
  BY GreatestNat
<1>2. PICK n \in S : \A k \in S : n >= k
  BY <1>1
<1>. QED  BY <1>2 DEF Max

\* A chunk of a buffer.
LEMMA LaneBytes ==
  ASSUME NEW x \in Seq(Bytes), NEW i \in Nat, (i + 1) * Chunk <= Len(x)
  PROVE  /\ Lane(x, i) \in Seq(Bytes) /\ Len(Lane(x, i)) = Chunk
         /\ \A j \in 1 .. Chunk : Lane(x, i)[j] = x[i * Chunk + j]
<1> DEFINE low == i * Chunk
           high == (i + 1) * Chunk
<1>1. low \in Nat /\ high \in Nat /\ high = low + Chunk /\ Chunk \in Nat /\ Chunk > 0
  BY TextSizesAssumption
<1>2. Lane(x, i) = SubSeq(x, low + 1, high)
  BY DEF Lane
<1>3. high <= Len(x)
  OBVIOUS
<1> HIDE DEF low, high
<1>4. \A j \in 1 .. Chunk : low + 1 + j - 1 = low + j
  BY <1>1
<1>5. /\ SubSeq(x, low + 1, high) \in Seq(Bytes) /\ Len(SubSeq(x, low + 1, high)) = Chunk
      /\ \A j \in 1 .. Chunk : SubSeq(x, low + 1, high)[j] = x[low + j]
  BY <1>1, <1>3, <1>4
<1>6. \A j \in 1 .. Chunk : Lane(x, i)[j] = x[low + j]
  BY <1>2, <1>5
<1>. QED  BY <1>2, <1>5, <1>6 DEF low

\* Buffers have the same first chunks if the bytes are the same.
LEMMA LanesEqual ==
  ASSUME NEW x \in Seq(Bytes), NEW y \in Seq(Bytes), NEW n \in Nat,
         n * Chunk <= Len(x), n * Chunk <= Len(y)
  PROVE  (\A i \in 0 .. n - 1 : Lane(x, i) = Lane(y, i)) <=> \A k \in 1 .. n * Chunk : x[k] = y[k]
<1>1. Chunk \in Nat /\ Chunk # 0 /\ Chunk \in Int
  BY TextSizesAssumption
<1>2. ASSUME NEW i \in 0 .. n - 1
      PROVE  (i + 1) * Chunk <= n * Chunk /\ i \in Nat /\ i * Chunk \in Nat /\ (i + 1) * Chunk = i * Chunk + Chunk
  <2>1. i + 1 <= n /\ i + 1 \in Int /\ n \in Int /\ i \in Nat
    OBVIOUS
  <2>2. (i + 1) * Chunk <= n * Chunk
    BY <1>1, <2>1, ProductsGrow
  <2>. QED  BY <1>1, <2>1, <2>2
<1>3. ASSUME NEW i \in 0 .. n - 1
      PROVE  /\ Lane(x, i) \in Seq(Bytes) /\ Len(Lane(x, i)) = Chunk
             /\ Lane(y, i) \in Seq(Bytes) /\ Len(Lane(y, i)) = Chunk
             /\ \A j \in 1 .. Chunk : Lane(x, i)[j] = x[i * Chunk + j] /\ Lane(y, i)[j] = y[i * Chunk + j]
  <2>1. n * Chunk \in Int /\ (i + 1) * Chunk \in Int /\ Len(x) \in Int /\ Len(y) \in Int
    BY <1>1, <1>2
  <2>2. (i + 1) * Chunk <= Len(x) /\ (i + 1) * Chunk <= Len(y) /\ i \in Nat
    <3> DEFINE p == n * Chunk
               q == (i + 1) * Chunk
    <3>1. q <= p /\ q \in Int /\ p \in Int /\ p <= Len(x) /\ p <= Len(y) /\ i \in Nat
      BY <1>2, <2>1
    <3> HIDE DEF p, q
    <3>2. q <= Len(x) /\ q <= Len(y)
      BY <2>1, <3>1
    <3>. QED  BY <3>1, <3>2 DEF q
  <2>. QED  BY <2>2, LaneBytes
<1>4. ASSUME \A i \in 0 .. n - 1 : Lane(x, i) = Lane(y, i), NEW k \in 1 .. n * Chunk
      PROVE  x[k] = y[k]
  <2> DEFINE i == (k - 1) \div Chunk
             j == k - i * Chunk
  <2>1. k - 1 \in Nat /\ k \in Nat
    BY <1>1
  <2>2. i \in Nat /\ i * Chunk <= k - 1 /\ k - 1 < (i + 1) * Chunk
    BY <2>1, TextSizesAssumption, QuotientFits
  <2> HIDE DEF i
  <2>3. i * Chunk \in Nat /\ (i + 1) * Chunk = i * Chunk + Chunk
    BY <1>1, <2>2
  <2>4. i <= n - 1
    <3>. SUFFICES ASSUME n <= i
                  PROVE  FALSE
      BY <2>2
    <3>1. n * Chunk <= i * Chunk
      BY <1>1, <2>2, ProductsGrow
    <3>2. n * Chunk \in Nat
      BY <1>1
    <3>. QED  BY <2>1, <2>2, <2>3, <3>1, <3>2
  <2>5. i \in 0 .. n - 1
    BY <2>2, <2>4
  <2>6. j \in 1 .. Chunk /\ i * Chunk + j = k
    BY <1>1, <2>1, <2>2, <2>3
  <2> HIDE DEF j
  <2>. QED  BY <1>3, <1>4, <2>5, <2>6
<1>5. ASSUME \A k \in 1 .. n * Chunk : x[k] = y[k], NEW i \in 0 .. n - 1
      PROVE  Lane(x, i) = Lane(y, i)
  <2>1. n * Chunk \in Nat /\ i * Chunk \in Nat /\ i * Chunk + Chunk <= n * Chunk
    BY <1>1, <1>2
  <2>2. \A j \in 1 .. Chunk : i * Chunk + j \in 1 .. n * Chunk
    BY <1>1, <2>1
  <2>3. \A j \in 1 .. Chunk : Lane(x, i)[j] = Lane(y, i)[j]
    BY <1>3, <1>5, <2>2
  <2>. QED  BY <1>3, <2>3, SameText
<1>. QED  BY <1>4, <1>5

\* cubs_string_eql decides whether the bytes are the same, in either representation.
LEMMA EqlExact ==
  ASSUME NEW a \in Seq(Bytes), NEW b \in Seq(Bytes)
  PROVE  StringEql(StringOf(a), StringOf(b)) <=> a = b
<1> DEFINE s == StringOf(a)
           t == StringOf(b)
<1>1. ASSUME a = b
      PROVE  StringEql(s, t)
  BY <1>1 DEF StringEql, CmpeqStrings
<1>2. ASSUME StringEql(s, t)
      PROVE  a = b
  <2>1. /\ s.len = Len(a) /\ t.len = Len(b) /\ AsSlice(s) = a /\ AsSlice(t) = b
        /\ s.sso <=> Len(a) <= MaxSso
        /\ t.sso <=> Len(b) <= MaxSso
        /\ s.buf \in Seq(Bytes) /\ t.buf \in Seq(Bytes)
        /\ \A i \in 1 .. Len(a) : s.buf[i] = a[i]
        /\ \A i \in 1 .. Len(b) : t.buf[i] = b[i]
        /\ ~s.sso => Len(s.buf) = Len(a) + 1 + Chunk - ((Len(a) + 1) % Chunk)
        /\ ~t.sso => Len(t.buf) = Len(b) + 1 + Chunk - ((Len(b) + 1) % Chunk)
    BY StringOfBytes, SliceOfString
  <2> HIDE DEF s, t
  <2>2. Len(a) = Len(b)
    BY <1>2, <2>1 DEF StringEql
  <2>3. CASE s.sso
    <3>1. s.buf = t.buf
      BY <1>2, <2>3 DEF StringEql, IsSso
    <3>2. AsSlice(s) = AsSlice(t)
      BY <2>1, <2>2, <3>1 DEF AsSlice
    <3>. QED  BY <2>1, <3>2
  <2>4. CASE ~s.sso
    <3> DEFINE len == Len(a)
               n == len \div Chunk + 1
               m == (len + 1) \div Chunk + 1
    <3>1. len \in Nat /\ Chunk \in Nat /\ Chunk # 0
      BY TextSizesAssumption
    <3>2. len \div Chunk \in Nat /\ (len \div Chunk) * Chunk <= len /\ len < n * Chunk
      BY <3>1, QuotientFits
    <3>3. (len + 1) \div Chunk \in Nat /\ len + 1 < m * Chunk
          /\ len + 1 = ((len + 1) \div Chunk) * Chunk + ((len + 1) % Chunk)
      <4>1. len + 1 \in Nat /\ len + 1 \in Int /\ Chunk \in Nat \ {0}
        BY <3>1
      <4>2. (len + 1) \div Chunk \in Nat /\ len + 1 < ((len + 1) \div Chunk + 1) * Chunk
        BY <4>1, QuotientFits
      <4>3. len + 1 = Chunk * ((len + 1) \div Chunk) + ((len + 1) % Chunk)
        BY <4>1, Division
      <4>4. Chunk * ((len + 1) \div Chunk) = ((len + 1) \div Chunk) * Chunk
        BY <4>1, <4>2
      <4>5. len + 1 = ((len + 1) \div Chunk) * Chunk + ((len + 1) % Chunk)
        BY <4>3, <4>4, Zenon
      <4>. QED  BY <4>2, <4>5, Zenon
    <3>4. Len(s.buf) = m * Chunk /\ Len(t.buf) = m * Chunk
      <4>1. m * Chunk = ((len + 1) \div Chunk) * Chunk + Chunk
        BY <3>1, <3>3
      <4>2. (len + 1) % Chunk \in Nat /\ ((len + 1) \div Chunk) * Chunk \in Nat
        BY <3>1, <3>3
      <4>3. Len(s.buf) = len + 1 + Chunk - ((len + 1) % Chunk) /\ Len(t.buf) = len + 1 + Chunk - ((len + 1) % Chunk)
        BY <2>1, <2>2, <2>4
      <4> DEFINE q == ((len + 1) \div Chunk) * Chunk
                 r == (len + 1) % Chunk
      <4>4. m * Chunk = q + Chunk /\ q \in Nat /\ r \in Nat /\ len + 1 = q + r
            /\ Len(s.buf) = len + 1 + Chunk - r /\ Len(t.buf) = len + 1 + Chunk - r
        BY <3>3, <4>1, <4>2, <4>3, Zenon
      <4> HIDE DEF q, r, m, len
      <4>. QED  BY <3>1, <4>4
    <3> HIDE DEF m
    <3>5. n \in Nat /\ m \in Nat
      BY <3>2, <3>3 DEF m
    <3> HIDE DEF n
    <3>6. n <= m
      <4>. SUFFICES ASSUME m + 1 <= n
                    PROVE  FALSE
        BY <3>5
      <4>1. m <= len \div Chunk
        BY <3>2, <3>5 DEF n
      <4>2. m * Chunk <= (len \div Chunk) * Chunk
        BY <3>1, <3>2, <3>5, <4>1, ProductsGrow
      <4>3. m * Chunk \in Nat /\ (len \div Chunk) * Chunk \in Nat
        BY <3>1, <3>2, <3>5
      <4> DEFINE x == (len \div Chunk) * Chunk
                 y == m * Chunk
      <4>4. y <= x /\ x \in Nat /\ y \in Nat /\ x <= len /\ len + 1 < y
        BY <3>2, <3>3, <4>2, <4>3 DEF m
      <4> HIDE DEF x, y
      <4>. QED  BY <3>1, <4>4
    <3>7. n * Chunk <= Len(s.buf) /\ n * Chunk <= Len(t.buf)
      BY <3>1, <3>4, <3>5, <3>6, ProductsGrow
    <3>8. \A i \in 0 .. n - 1 : Lane(s.buf, i) = Lane(t.buf, i)
      <4>1. CmpeqStrings(s.buf, t.buf, s.len)
        BY <1>2, <2>4 DEF StringEql, IsSso
      <4>2. n - 1 = s.len \div Chunk
        BY <2>1, <3>2 DEF n
      <4>. QED  BY <4>1, <4>2 DEF CmpeqStrings
    <3>9. \A k \in 1 .. n * Chunk : s.buf[k] = t.buf[k]
      BY <2>1, <3>5, <3>7, <3>8, LanesEqual
    <3>10. \A k \in 1 .. len : k \in 1 .. n * Chunk
      <4>1. n * Chunk \in Nat
        BY <3>1, <3>5
      <4> DEFINE y == n * Chunk
      <4>2. y \in Nat /\ len < y
        BY <3>2, <4>1 DEF n
      <4> HIDE DEF y
      <4>3. \A k \in 1 .. len : k \in 1 .. y
        BY <3>1, <4>2
      <4>. QED  BY <4>3 DEF y
    <3>11. \A k \in 1 .. Len(a) : a[k] = b[k]
      BY <2>1, <2>2, <3>9, <3>10
    <3>. QED  BY <2>2, <3>11, SameText
  <2>. QED  BY <2>3, <2>4
<1>. QED  BY <1>1, <1>2

\* cubs_string_eql_slice decides whether the bytes are those of the slice.
LEMMA EqlSliceExact ==
  ASSUME NEW a \in Seq(Bytes), NEW b \in Seq(Bytes)
  PROVE  EqlSlice(StringOf(a), b) <=> a = b
<1> DEFINE s == StringOf(a)
<1>1. /\ s.len = Len(a) /\ AsSlice(s) = a
      /\ s.sso <=> Len(a) <= MaxSso
      /\ s.buf \in Seq(Bytes) /\ Len(s.buf) > Len(a)
      /\ \A i \in 1 .. Len(a) : s.buf[i] = a[i]
      /\ s.sso => s.buf = a \o Zeros(MaxSso + 1 - Len(a))
  BY StringOfBytes, SliceOfString
<1>2. Len(a) \in Nat /\ Len(b) \in Nat /\ MaxSso \in Nat /\ Chunk \in Nat /\ Chunk # 0
  BY TextSizesAssumption
<1> HIDE DEF s
<1>. SUFFICES EqlSlice(s, b) <=> a = b
  BY DEF s
<1>3. CASE Len(a) # Len(b)
  BY <1>1, <1>3 DEF EqlSlice
<1>4. CASE Len(a) = Len(b) /\ s.sso
  <2> DEFINE n == MaxSso + 1 - Len(a)
  <2>1. n \in Nat
    BY <1>1, <1>2, <1>4
  <2>2. EqlSlice(s, b) <=> a \o Zeros(n) = b \o Zeros(n)
    <3>1. EqlSlice(s, b) <=> s.buf = b \o Zeros(MaxSso + 1 - s.len)
      BY <1>1, <1>4 DEF EqlSlice, IsSso
    <3>2. s.buf = a \o Zeros(n) /\ s.len = Len(a)
      BY <1>1, <1>4
    <3>. QED  BY <3>1, <3>2
  <2> HIDE DEF n
  <2>3. /\ \A i \in 1 .. Len(a) : (a \o Zeros(n))[i] = a[i]
        /\ \A i \in 1 .. Len(b) : (b \o Zeros(n))[i] = b[i]
    BY <2>1, ZerosBehind
  <2>4. ASSUME a \o Zeros(n) = b \o Zeros(n)
        PROVE  a = b
    <3>1. \A i \in 1 .. Len(a) : a[i] = b[i]
      BY <1>4, <2>3, <2>4, Zenon
    <3>. QED  BY <1>4, <3>1, SameText
  <2>. QED  BY <2>2, <2>4
<1>5. CASE Len(a) = Len(b) /\ ~s.sso
  <2> DEFINE n == Len(b) \div Chunk
             x == n * Chunk
  <2>1. n \in Nat /\ x <= Len(b) /\ n - 1 \in Int
    BY <1>2, QuotientFits
  <2>2. x \in Nat
    BY <1>2, <2>1
  <2>3. EqlSlice(s, b) <=> /\ \A i \in 0 .. n - 1 : Lane(s.buf, i) = Lane(b, i)
                           /\ \A i \in x + 1 .. Len(b) : s.buf[i] = b[i]
    BY <1>1, <1>5 DEF EqlSlice, IsSso, CmpeqSlice
  <2> HIDE DEF n
  <2>4. x <= Len(s.buf)
    <3> HIDE DEF x
    <3>. QED  BY <1>1, <1>2, <1>5, <2>1, <2>2
  <2>5. (\A i \in 0 .. n - 1 : Lane(s.buf, i) = Lane(b, i)) <=> \A k \in 1 .. x : s.buf[k] = b[k]
    BY <1>1, <2>1, <2>4, LanesEqual
  <2> HIDE DEF x
  <2>6. EqlSlice(s, b) <=> \A k \in 1 .. Len(b) : s.buf[k] = b[k]
    <3>1. \A k : k \in 1 .. Len(b) <=> (k \in 1 .. x \/ k \in x + 1 .. Len(b))
      BY <1>2, <2>1, <2>2
    <3>. QED  BY <2>3, <2>5, <3>1, Zenon
  <2>7. (\A k \in 1 .. Len(b) : s.buf[k] = b[k]) <=> \A k \in 1 .. Len(a) : a[k] = b[k]
    BY <1>1, <1>5
  <2>8. (\A k \in 1 .. Len(a) : a[k] = b[k]) <=> a = b
    BY <1>5, SameText
  <2>. QED  BY <2>6, <2>7, <2>8
<1>. QED  BY <1>3, <1>4, <1>5

\* strcmp orders texts as their bytes do: texts have no zero within.
LEMMA CmpExact ==
  ASSUME NEW a \in Seq(Bytes), NEW b \in Seq(Bytes), WellFormed(a), WellFormed(b)
  PROVE  Cmp(StringOf(a), StringOf(b)) = IF a = b THEN "equal" ELSE IF Before(a, b) THEN "less" ELSE "greater"
<1> DEFINE x == a \o <<0>>
           y == b \o <<0>>
           differ == {i \in DOMAIN x \cap DOMAIN y : x[i] # y[i]}
           d == Min(differ)
<1>1. Len(a) \in Nat /\ Len(b) \in Nat
  OBVIOUS
<1>2. /\ \A i \in 1 .. Len(a) : a[i] \in Nat /\ a[i] > 0
      /\ \A i \in 1 .. Len(b) : b[i] \in Nat /\ b[i] > 0
  <2>1. \A n \in Bytes : n \in Nat
    BY DEF Bytes
  <2>2. /\ \A i \in 1 .. Len(a) : a[i] \in Bytes /\ i \in DOMAIN a
        /\ \A i \in 1 .. Len(b) : b[i] \in Bytes /\ i \in DOMAIN b
    OBVIOUS
  <2>3. /\ \A i \in DOMAIN a : a[i] # 0
        /\ \A i \in DOMAIN b : b[i] # 0
    BY DEF WellFormed
  <2>4. \A n \in Nat : n # 0 => n > 0
    OBVIOUS
  <2>. QED  BY <2>1, <2>2, <2>3, <2>4, Zenon
<1>3. /\ DOMAIN x = 1 .. Len(a) + 1 /\ DOMAIN y = 1 .. Len(b) + 1
      /\ x[Len(a) + 1] = 0 /\ y[Len(b) + 1] = 0
      /\ \A i \in 1 .. Len(a) : x[i] = a[i]
      /\ \A i \in 1 .. Len(b) : y[i] = b[i]
  <2>1. 0 \in Bytes
    BY DEF Bytes
  <2>. QED  BY <2>1
<1>4. Cmp(StringOf(a), StringOf(b)) =
        IF differ = {} THEN "equal" ELSE IF x[d] > y[d] THEN "greater" ELSE "less"
  BY SliceOfString DEF Cmp
<1> HIDE DEF x, y
<1>5. /\ \A i \in 1 .. Len(a) + 1 : x[i] \in Nat
      /\ \A i \in 1 .. Len(b) + 1 : y[i] \in Nat
  <2>1. /\ \A i \in 1 .. Len(a) + 1 : i \in 1 .. Len(a) \/ i = Len(a) + 1
        /\ \A i \in 1 .. Len(b) + 1 : i \in 1 .. Len(b) \/ i = Len(b) + 1
    BY <1>1
  <2>2. 0 \in Nat
    OBVIOUS
  <2>. QED  BY <1>2, <1>3, <2>1, <2>2, Zenon
<1>6. CASE a = b
  <2>1. differ = {}
    BY <1>6 DEF x, y
  <2>. QED  BY <1>4, <1>6, <2>1
<1>7. CASE a # b
  <2>1. differ # {}
    <3>. SUFFICES ASSUME differ = {}
                  PROVE  FALSE
      OBVIOUS
    <3>1. \A i \in 1 .. Len(a) + 1 : i \in 1 .. Len(b) + 1 => x[i] = y[i]
      BY <1>3
    <3>2. CASE Len(a) = Len(b)
      <4>1. \A i \in 1 .. Len(a) : i \in 1 .. Len(a) + 1 /\ i \in 1 .. Len(b) + 1
        BY <1>1, <3>2
      <4>2. \A i \in 1 .. Len(a) : a[i] = b[i]
        BY <1>3, <3>1, <3>2, <4>1
      <4>. QED  BY <1>7, <3>2, <4>2, SameText
    <3>3. CASE Len(a) < Len(b)
      <4>1. Len(a) + 1 \in 1 .. Len(a) + 1 /\ Len(a) + 1 \in 1 .. Len(b)
            /\ Len(a) + 1 \in 1 .. Len(b) + 1
        BY <1>1, <3>3
      <4>2. x[Len(a) + 1] = 0 /\ y[Len(a) + 1] = b[Len(a) + 1] /\ b[Len(a) + 1] > 0
        BY <1>2, <1>3, <4>1
      <4>. QED  BY <3>1, <4>1, <4>2
    <3>4. CASE Len(b) < Len(a)
      <4>1. Len(b) + 1 \in 1 .. Len(b) + 1 /\ Len(b) + 1 \in 1 .. Len(a)
            /\ Len(b) + 1 \in 1 .. Len(a) + 1
        BY <1>1, <3>4
      <4>2. y[Len(b) + 1] = 0 /\ x[Len(b) + 1] = a[Len(b) + 1] /\ a[Len(b) + 1] > 0
        BY <1>2, <1>3, <4>1
      <4>. QED  BY <3>1, <4>1, <4>2
    <3>. QED  BY <1>1, <3>2, <3>3, <3>4
  <2>2. differ \in SUBSET Nat
    BY <1>1, <1>3
  <2>3. d \in differ /\ \A i \in differ : d <= i
    <3> HIDE DEF differ
    <3>. QED  BY <2>1, <2>2, LeastOf
  <2>4. /\ d \in 1 .. Len(a) + 1 /\ d \in 1 .. Len(b) + 1 /\ x[d] # y[d]
        /\ x[d] \in Nat /\ y[d] \in Nat
    <3>1. d \in DOMAIN x /\ d \in DOMAIN y /\ x[d] # y[d]
      <4>1. \A i \in differ : i \in DOMAIN x /\ i \in DOMAIN y /\ x[i] # y[i]
        OBVIOUS
      <4> HIDE DEF d, differ
      <4>. QED  BY <2>3, <4>1
    <3> HIDE DEF d, differ
    <3>. QED  BY <1>3, <1>5, <3>1
  <2>5. \A i \in 1 .. d - 1 : i \in 1 .. Len(a) /\ i \in 1 .. Len(b) /\ a[i] = b[i]
    <3>1. \A i \in 1 .. d - 1 : i \in 1 .. Len(a) /\ i \in 1 .. Len(b) /\ i \in DOMAIN x /\ i \in DOMAIN y /\ i < d
      <4> HIDE DEF d, differ
      <4>. QED  BY <1>1, <1>3, <2>4
    <3>2. \A i \in DOMAIN x \cap DOMAIN y : i \notin differ => x[i] = y[i]
      OBVIOUS
    <3>3. \A i \in 1 .. d - 1 : i \notin differ
      <4>1. d \in Nat
        BY <2>2, <2>3
      <4> HIDE DEF d, differ
      <4>. QED  BY <2>3, <4>1
    <3> HIDE DEF d, differ
    <3>. QED  BY <1>3, <3>1, <3>2, <3>3
  <2> HIDE DEF d, differ
  <2> DEFINE m == Min({Len(a), Len(b)})
  <2>6. m \in Nat /\ m <= Len(a) /\ m <= Len(b) /\ (m = Len(a) \/ m = Len(b))
    <3>1. {Len(a), Len(b)} \in SUBSET Nat /\ {Len(a), Len(b)} # {}
      BY <1>1
    <3>2. m \in {Len(a), Len(b)} /\ \A n \in {Len(a), Len(b)} : m <= n
      BY <3>1, LeastOf
    <3>. QED  BY <1>1, <3>2
  <2>7. Before(a, b) <=> \E k \in 0 .. m : /\ SubSeq(a, 1, k) = SubSeq(b, 1, k)
                                           /\ \/ k = Len(a) /\ k < Len(b)
                                              \/ k < Len(a) /\ k < Len(b) /\ a[k + 1] < b[k + 1]
    BY DEF Before
  <2> HIDE DEF m
  <2>8. ASSUME x[d] < y[d]
        PROVE  Before(a, b)
    <3>1. d <= Len(b)
      <4>1. d # Len(b) + 1
        BY <1>3, <2>4, <2>8
      <4>. QED  BY <1>1, <2>4, <4>1
    <3>2. d - 1 \in 0 .. m /\ d - 1 \in Nat /\ (d - 1) + 1 = d /\ d - 1 < Len(b)
      BY <1>1, <2>4, <2>6, <3>1
    <3>3. SubSeq(a, 1, d - 1) = SubSeq(b, 1, d - 1)
      <4> DEFINE k == d - 1
      <4>1. k \in Nat /\ k <= Len(a) /\ k <= Len(b) /\ \A i \in 1 .. k : a[i] = b[i]
        BY <1>1, <2>4, <2>5, <3>2
      <4> HIDE DEF k
      <4>2. /\ SubSeq(a, 1, k) \in Seq(Bytes) /\ Len(SubSeq(a, 1, k)) = k
            /\ SubSeq(b, 1, k) \in Seq(Bytes) /\ Len(SubSeq(b, 1, k)) = k
            /\ \A i \in 1 .. k : SubSeq(a, 1, k)[i] = a[i] /\ SubSeq(b, 1, k)[i] = b[i]
        BY <4>1
      <4>3. \A i \in 1 .. k : SubSeq(a, 1, k)[i] = SubSeq(b, 1, k)[i]
        BY <4>1, <4>2, Zenon
      <4>4. SubSeq(a, 1, k) = SubSeq(b, 1, k)
        BY <4>2, <4>3, SameText
      <4>. QED  BY <4>4 DEF k
    <3>4. \/ d - 1 = Len(a) /\ d - 1 < Len(b)
          \/ d - 1 < Len(a) /\ d - 1 < Len(b) /\ a[(d - 1) + 1] < b[(d - 1) + 1]
      <4>1. CASE d = Len(a) + 1
        BY <1>1, <3>2, <4>1
      <4>2. CASE d # Len(a) + 1
        <5>1. d \in 1 .. Len(a) /\ d \in 1 .. Len(b)
          BY <1>1, <2>4, <3>1, <4>2
        <5>2. a[d] < b[d]
          BY <1>3, <2>8, <5>1
        <5>3. d - 1 < Len(a)
          BY <1>1, <5>1
        <5>. QED  BY <3>2, <5>2, <5>3
      <4>. QED  BY <4>1, <4>2
    <3>. QED  BY <2>7, <3>2, <3>3, <3>4, Zenon
  <2>9. ASSUME Before(a, b)
        PROVE  x[d] < y[d]
    <3>1. PICK k \in 0 .. m : /\ SubSeq(a, 1, k) = SubSeq(b, 1, k)
                              /\ \/ k = Len(a) /\ k < Len(b)
                                 \/ k < Len(a) /\ k < Len(b) /\ a[k + 1] < b[k + 1]
      BY <2>7, <2>9
    <3>2. k \in Nat /\ k <= Len(a) /\ k <= Len(b) /\ k < Len(b)
      BY <1>1, <2>6, <3>1
    <3>3. x[k + 1] < y[k + 1]
      <4>1. k + 1 \in 1 .. Len(b)
        BY <1>1, <3>2
      <4>2. y[k + 1] = b[k + 1] /\ b[k + 1] > 0
        BY <1>2, <1>3, <4>1
      <4>3. CASE k = Len(a)
        BY <1>2, <1>3, <4>1, <4>2, <4>3
      <4>4. CASE k # Len(a)
        <5>1. k + 1 \in 1 .. Len(a)
          BY <1>1, <3>2, <4>4
        <5>2. x[k + 1] = a[k + 1]
          BY <1>3, <5>1
        <5>. QED  BY <3>1, <4>2, <4>4, <5>2
      <4>. QED  BY <4>3, <4>4
    <3>4. k + 1 \in DOMAIN x /\ k + 1 \in DOMAIN y
      BY <1>1, <1>3, <3>2
    <3>5. x[k + 1] # y[k + 1]
      <4>1. x[k + 1] \in Nat /\ y[k + 1] \in Nat
        BY <1>3, <1>5, <3>4
      <4>. QED  BY <3>3, <4>1
    <3>6. d <= k + 1
      <4>1. k + 1 \in differ
        BY <3>4, <3>5 DEF differ
      <4>. QED  BY <2>3, <4>1
    <3>7. d > k
      <4>. SUFFICES ASSUME d <= k
                    PROVE  FALSE
        BY <2>4, <3>2
      <4>1. d \in 1 .. k /\ d \in 1 .. Len(a) /\ d \in 1 .. Len(b)
        BY <1>1, <2>4, <3>2
      <4>2. SubSeq(a, 1, k)[d] = a[d] /\ SubSeq(b, 1, k)[d] = b[d]
        BY <3>2, <4>1
      <4>3. a[d] = b[d]
        BY <3>1, <4>2
      <4>. QED  BY <1>3, <2>4, <4>1, <4>3
    <3>8. d = k + 1
      BY <2>4, <3>2, <3>6, <3>7
    <3>. QED  BY <3>3, <3>8
  <2>10. Cmp(StringOf(a), StringOf(b)) = IF x[d] > y[d] THEN "greater" ELSE "less"
    BY <1>4, <2>1 DEF d, differ
  <2>11. x[d] > y[d] <=> ~(x[d] < y[d])
    BY <2>4
  <2>. QED  BY <1>7, <2>8, <2>9, <2>10, <2>11
<1>. QED  BY <1>6, <1>7

\* All comparisons decide as those of the bytes, and equal strings have equal hashes.
LEMMA ComparedByBytes ==
  ASSUME NEW a \in Seq(Bytes), NEW b \in Seq(Bytes), WellFormed(a), WellFormed(b)
  PROVE  ComparesBytes(a, b)
<1>1. StringEql(StringOf(a), StringOf(b)) <=> a = b
  BY EqlExact
<1>2. EqlSlice(StringOf(a), b) <=> a = b
  BY EqlSliceExact
<1>3. Cmp(StringOf(a), StringOf(b)) = IF a = b THEN "equal" ELSE IF Before(a, b) THEN "less" ELSE "greater"
  BY CmpExact
<1>. QED  BY <1>1, <1>2, <1>3 DEF ComparesBytes

-----------------------------------------------------------------------------
(***************************************************************************)
(* Printed numbers.                                                        *)
(***************************************************************************)

\* The text that a numeral's first characters stand for, in its length: with the point
\* if it is not among them, and zeros behind.
PaddedTo(a, text) ==
  LET read == IF 46 \in Range(text) THEN text ELSE Append(text, 46)
  IN  read \o [i \in 1 .. Len(a) - Len(read) |-> 48]

\* What stands where in it.
LEMMA PaddedCharacters ==
  ASSUME NEW a \in Seq(Bytes), NEW n \in 1 .. Len(a), NEW point,
         point <=> 46 \in Range(SubSeq(a, 1, n)), ~point => n < Len(a)
  PROVE  LET c == PaddedTo(a, SubSeq(a, 1, n))
         IN  /\ c \in Seq(Bytes) /\ Len(c) = Len(a)
             /\ \A i \in 1 .. n : c[i] = a[i]
             /\ ~point => c[n + 1] = 46
             /\ \A i \in n + 1 .. Len(a) : point \/ i # n + 1 => c[i] = 48
<1> DEFINE text == SubSeq(a, 1, n)
           read == IF 46 \in Range(text) THEN text ELSE Append(text, 46)
           m == Len(a) - Len(read)
           zeros == [i \in 1 .. m |-> 48]
<1>1. Len(a) \in Nat /\ n \in Nat /\ n > 0 /\ n <= Len(a) /\ 46 \in Bytes /\ 48 \in Bytes
  BY DEF Bytes
<1>2. text \in Seq(Bytes) /\ Len(text) = n /\ \A i \in 1 .. n : text[i] = a[i]
  BY <1>1
<1> HIDE DEF text
<1>3. /\ read \in Seq(Bytes) /\ \A i \in 1 .. n : read[i] = a[i]
      /\ point => Len(read) = n
      /\ ~point => Len(read) = n + 1 /\ read[n + 1] = 46
  <2>1. CASE point
    <3>1. read = text
      BY <2>1 DEF text
    <3>. QED  BY <1>2, <2>1, <3>1
  <2>2. CASE ~point
    <3>1. read = Append(text, 46)
      BY <2>2 DEF text
    <3>2. Append(text, 46) \in Seq(Bytes) /\ Len(Append(text, 46)) = n + 1
          /\ Append(text, 46)[n + 1] = 46 /\ \A i \in 1 .. n : Append(text, 46)[i] = text[i]
      BY <1>1, <1>2
    <3> HIDE DEF read
    <3>. QED  BY <1>2, <2>2, <3>1, <3>2
  <2>. QED  BY <2>1, <2>2
<1> HIDE DEF read
<1>4. m \in Nat
  BY <1>1, <1>3
<1>5. zeros \in Seq(Bytes) /\ Len(zeros) = m /\ \A i \in 1 .. m : zeros[i] = 48
  <2> HIDE DEF m
  <2>1. zeros \in [1 .. m -> Bytes]
    BY <1>1
  <2>. QED  BY <1>4, <2>1
<1> HIDE DEF zeros
<1> DEFINE c == read \o zeros
<1>6. /\ c \in Seq(Bytes) /\ Len(c) = Len(a)
      /\ \A i \in 1 .. Len(read) : c[i] = read[i]
      /\ \A i \in Len(read) + 1 .. Len(a) : c[i] = zeros[i - Len(read)]
  <2>1. Len(read) \in Nat
    BY <1>3
  <2> HIDE DEF m
  <2>2. /\ c \in Seq(Bytes) /\ Len(c) = Len(read) + m
        /\ \A i \in 1 .. Len(read) + m : c[i] = IF i <= Len(read) THEN read[i] ELSE zeros[i - Len(read)]
    BY <1>3, <1>4, <1>5
  <2>3. Len(read) + m = Len(a)
    BY <1>1, <2>1 DEF m
  <2>4. /\ \A i \in 1 .. Len(read) : i \in 1 .. Len(read) + m /\ i <= Len(read)
        /\ \A i \in Len(read) + 1 .. Len(a) : i \in 1 .. Len(read) + m /\ ~(i <= Len(read))
    BY <1>1, <1>4, <2>1, <2>3
  <2> HIDE DEF c
  <2>. QED  BY <2>2, <2>3, <2>4
<1> HIDE DEF c
<1>7. /\ \A i \in 1 .. n : c[i] = a[i]
      /\ ~point => c[n + 1] = 46
  <2>1. \A i \in 1 .. n : i \in 1 .. Len(read)
    BY <1>1, <1>3
  <2>2. ~point => n + 1 \in 1 .. Len(read)
    BY <1>1, <1>3
  <2>. QED  BY <1>3, <1>6, <2>1, <2>2
<1>8. \A i \in n + 1 .. Len(a) : point \/ i # n + 1 => c[i] = 48
  <2>. SUFFICES ASSUME NEW i \in n + 1 .. Len(a), point \/ i # n + 1
                PROVE  c[i] = 48
    OBVIOUS
  <2>1. i \in Len(read) + 1 .. Len(a) /\ i - Len(read) \in 1 .. m
    BY <1>1, <1>3
  <2>. QED  BY <1>5, <1>6, <2>1
<1>9. c = PaddedTo(a, SubSeq(a, 1, n))
  BY DEF c, zeros, read, text, PaddedTo
<1>. QED  BY <1>6, <1>7, <1>8, <1>9

\* What cubs_string_from_float leaves of the digits is the shortest text that reads as
\* the number.
LEMMA ShortestPrinted ==
  ASSUME NEW a \in Seq(Bytes)
  PROVE  PrintsShortest(a)
<1>. SUFFICES ASSUME NEW p \in 2 .. Len(a) - 1, a[p] = 46, \A i \in DOMAIN a \ {p} : a[i] \in 48 .. 57
              PROVE  LET padded(text) ==
                           LET read == IF 46 \in Range(text) THEN text ELSE Append(text, 46)
                           IN  read \o [i \in 1 .. Len(a) - Len(read) |-> 48]
                         same == {n \in 1 .. Len(a) : padded(SubSeq(a, 1, n)) = a /\ a[n] # 46}
                     IN  Printed(a) = SubSeq(a, 1, Min(same))
  BY DEF PrintsShortest
<1> DEFINE same == {n \in 1 .. Len(a) : PaddedTo(a, SubSeq(a, 1, n)) = a /\ a[n] # 46}
           points == {i \in DOMAIN a : a[i] = 46}
           kept == {i \in DOMAIN a : i < Min(points) \/ \E k \in i .. Len(a) : a[k] \notin {46, 48}}
           m == Max(kept)
<1>1. Len(a) \in Nat /\ p \in Nat /\ p >= 2 /\ p < Len(a) /\ DOMAIN a = 1 .. Len(a) /\ p \in 1 .. Len(a)
  OBVIOUS
<1>2. \A i \in 1 .. Len(a) : i # p => a[i] # 46
  BY <1>1
<1>3. Min(points) = p
  <2>1. points = {p}
    BY <1>1, <1>2
  <2>2. {p} \in SUBSET Nat /\ {p} # {}
    BY <1>1
  <2>3. Min({p}) \in {p}
    BY <2>2, LeastOf
  <2>. QED  BY <2>1, <2>3
<1>4. Printed(a) = SubSeq(a, 1, m)
  BY DEF Printed
<1> HIDE DEF points
<1>5. /\ kept \in SUBSET Nat /\ p - 1 \in kept /\ \A i \in kept : i <= Len(a)
      /\ \A i : i \in kept <=> i \in 1 .. Len(a) /\ (i < p \/ \E k \in i .. Len(a) : a[k] \notin {46, 48})
  <2>1. kept \in SUBSET Nat /\ \A i \in kept : i <= Len(a)
    BY <1>1
  <2>2. p - 1 \in 1 .. Len(a) /\ p - 1 < p
    BY <1>1
  <2>. QED  BY <1>1, <1>3, <2>1, <2>2
<1> HIDE DEF kept
<1>6. m \in kept /\ \A i \in kept : i <= m
  BY <1>1, <1>5, GreatestOf
<1> HIDE DEF m
<1>7. m \in 1 .. Len(a) /\ m >= p - 1
  BY <1>5, <1>6
<1>8. \A i \in 1 .. Len(a) : i > m /\ i # p => a[i] = 48
  <2>. SUFFICES ASSUME NEW i \in 1 .. Len(a), i > m, i # p, a[i] # 48
                PROVE  FALSE
    OBVIOUS
  <2>1. a[i] \notin {46, 48} /\ i \in i .. Len(a)
    BY <1>1, <1>2
  <2>2. i \in kept
    BY <1>5, <2>1
  <2>. QED  BY <1>6, <1>7, <2>2
<1>9. m # p
  <2>. SUFFICES ASSUME m = p
                PROVE  FALSE
    OBVIOUS
  <2>1. PICK k \in p .. Len(a) : a[k] \notin {46, 48}
    BY <1>1, <1>5, <1>6
  <2>2. k # p /\ k \in 1 .. Len(a) /\ k > p
    BY <1>1, <2>1
  <2>. QED  BY <1>1, <1>8, <2>1, <2>2
<1>10. ASSUME NEW n \in 1 .. Len(a)
       PROVE  46 \in Range(SubSeq(a, 1, n)) <=> p <= n
  <2> DEFINE text == SubSeq(a, 1, n)
  <2>1. text \in Seq(Bytes) /\ DOMAIN text = 1 .. n /\ \A i \in 1 .. n : text[i] = a[i]
    BY <1>1
  <2> HIDE DEF text
  <2>2. 46 \in Range(text) <=> \E i \in 1 .. n : a[i] = 46
    BY <2>1 DEF Range
  <2>3. (\E i \in 1 .. n : a[i] = 46) <=> p <= n
    <3>1. \A i \in 1 .. n : i \in 1 .. Len(a)
      BY <1>1
    <3>2. p <= n <=> p \in 1 .. n
      BY <1>1
    <3>. QED  BY <1>2, <3>1, <3>2
  <2>. QED  BY <2>2, <2>3 DEF text
<1>11. m \in same
  <2> DEFINE c == PaddedTo(a, SubSeq(a, 1, m))
             point == p <= m
  <2>1. a[m] # 46
    BY <1>2, <1>7, <1>9
  <2>2. point <=> 46 \in Range(SubSeq(a, 1, m))
    BY <1>7, <1>10
  <2>3. ~point => m < Len(a) /\ m + 1 = p
    BY <1>1, <1>7
  <2> HIDE DEF point
  <2>4. /\ c \in Seq(Bytes) /\ Len(c) = Len(a)
        /\ \A i \in 1 .. m : c[i] = a[i]
        /\ ~point => c[m + 1] = 46
        /\ \A i \in m + 1 .. Len(a) : point \/ i # m + 1 => c[i] = 48
    BY <1>7, <2>2, <2>3, PaddedCharacters
  <2> HIDE DEF c
  <2>5. ASSUME NEW i \in 1 .. Len(a)
        PROVE  c[i] = a[i]
    <3>1. CASE i <= m
      <4>1. i \in 1 .. m
        BY <1>7, <3>1
      <4>. QED  BY <2>4, <4>1
    <3>2. CASE i > m /\ ~point /\ i = m + 1
      BY <2>3, <2>4, <3>2
    <3>3. CASE i > m /\ (point \/ i # m + 1)
      <4>1. i \in m + 1 .. Len(a) /\ i # p
        <5>1. point => p < i
          BY <1>1, <1>7, <3>3 DEF point
        <5>. QED  BY <1>1, <1>7, <2>3, <3>3, <5>1
      <4>. QED  BY <1>8, <2>4, <3>3, <4>1
    <3>. QED  BY <1>7, <3>1, <3>2, <3>3
  <2>6. c = a
    BY <2>4, <2>5, SameText
  <2>. QED  BY <1>7, <2>1, <2>6 DEF c
<1>12. ASSUME NEW n \in same
       PROVE  m <= n
  <2> DEFINE c == PaddedTo(a, SubSeq(a, 1, n))
             point == p <= n
  <2>1. n \in 1 .. Len(a) /\ c = a /\ a[n] # 46 /\ n # p
    OBVIOUS
  <2>. SUFFICES ASSUME n < m
                PROVE  FALSE
    BY <1>7, <2>1
  <2>2. point <=> 46 \in Range(SubSeq(a, 1, n))
    BY <1>10, <2>1
  <2>3. n < Len(a)
    BY <1>1, <1>7, <2>1
  <2> HIDE DEF point
  <2>4. /\ ~point => c[n + 1] = 46
        /\ \A i \in n + 1 .. Len(a) : point \/ i # n + 1 => c[i] = 48
    BY <2>1, <2>2, <2>3, PaddedCharacters
  <2> HIDE DEF c, same
  <2>5. ~point => n + 1 = p
    <3>1. n + 1 \in 1 .. Len(a)
      BY <1>1, <2>1, <2>3
    <3>. QED  BY <1>2, <2>1, <2>4, <3>1
  <2>6. m > p
    <3>1. CASE point
      BY <1>1, <1>7, <2>1, <3>1 DEF point
    <3>2. CASE ~point
      BY <1>1, <1>7, <1>9, <2>1, <2>5, <3>2
    <3>. QED  BY <3>1, <3>2
  <2>7. PICK k \in m .. Len(a) : a[k] \notin {46, 48}
    BY <1>1, <1>5, <1>6, <1>7, <2>6
  <2>8. k \in n + 1 .. Len(a) /\ (point \/ k # n + 1)
    BY <1>1, <1>7, <2>1, <2>5, <2>6, <2>7
  <2>9. a[k] = 48
    BY <2>1, <2>4, <2>8
  <2>. QED  BY <2>7, <2>9
<1>13. Min(same) = m
  <2>1. same \in SUBSET Nat /\ same # {}
    BY <1>1, <1>11
  <2> HIDE DEF same
  <2>2. Min(same) \in same /\ Min(same) <= m /\ m <= Min(same)
    BY <1>11, <1>12, <2>1, LeastOf
  <2>3. Min(same) \in Nat
    BY <2>1, <2>2
  <2>. QED  BY <1>7, <2>2, <2>3
<1>. QED  BY <1>4, <1>13, Zenon DEF PaddedTo

\* Strings do what the definitions over their bytes say, for every two texts, whatever the
\* size of a vector and of what is kept in place.  What find returns is right; it may miss
\* an occurrence where start and slice reach the end of the string together.
THEOREM StringsAlwaysAgree == texts \in Texts => StringsAgree
<1>. SUFFICES ASSUME texts \in Texts
              PROVE  StringsAgree
  OBVIOUS
<1> DEFINE a == texts[1]
           b == texts[2]
           start == texts[3]
<1>1. a \in Seq(Bytes) /\ b \in Seq(Bytes) /\ start \in Nat
  BY DEF Texts
<1> HIDE DEF a, b, start
<1>2. EncodingChecked(a) /\ PrintsShortest(a) /\ FindsOccurrences(a, b, start)
  BY <1>1, EncodingIsChecked, ShortestPrinted, OccurrencesFound
<1>3. WellFormed(a) => CutsAndJoins(a, b, start)
  BY <1>1, CutAndJoined
<1>4. WellFormed(a) /\ WellFormed(b) => ComparesBytes(a, b)
  BY <1>1, ComparedByBytes
<1>. QED  BY <1>2, <1>3, <1>4 DEF StringsAgree, a, b, start

-----------------------------------------------------------------------------
(***************************************************************************)
(* The ways to a type's functions, in three steps: the context of each type, *)
(* what makes a way good, and each operation's way.                        *)
(***************************************************************************)

\* The contexts of the types that are built in, and the others.
LEMMA ContextOf ==
  /\ Context("bool") = BoolContext /\ Context("int") = IntContext
  /\ Context("float") = FloatContext /\ Context("char") = CharContext
  /\ Context("string") = StringContext /\ Context("ordering") = OrderingContext
  /\ Context("array") = ArrayContext /\ Context("set") = SetContext
  /\ Context("map") = MapContext /\ Context("option") = OptionContext
  /\ Context("error") = ErrorContext /\ Context("result") = ResultContext
  /\ Context("unique") = UniqueContext /\ Context("shared") = SharedContext
  /\ Context("weak") = WeakContext /\ Context("function") = FunctionContext
  /\ Context("constRef") = ConstRefContext /\ Context("mutRef") = MutRefContext
  /\ \A type \in DOMAIN UserContexts : Context(type) = UserContexts[type]
<1>1. ASSUME NEW type \in DOMAIN UserContexts
      PROVE  Context(type) = UserContexts[type]
  <2>1. type \notin BuiltIn
    BY UserContextsAssumption, Zenon
  <2>. QED  BY <2>1, Zenon DEF Context, BuiltIn
<1>. QED  BY <1>1 DEF Context

\* No type that is built in has the destructor that context.h documents; and the context
\* of one has a function, good or broken, or none.
LEMMA HandlersApart ==
  /\ \A takes, returns : takes # << >> => Handler(takes, returns) # NoFunction
  /\ Broken # NoFunction
  /\ \A type : Deinits(type) # DeinitsByReference(type)
<1>1. \A takes, returns : Handler(takes, returns).takes = takes
  BY DEF Handler
<1>2. Broken.returns = "garbage" /\ NoFunction.returns = "none"
  BY DEF Broken, NoFunction, Handler
<1>3. ASSUME NEW type
      PROVE  Deinits(type) # DeinitsByReference(type)
  <2>1. Deinits(type).takes[1][1] = "value" /\ DeinitsByReference(type).takes[1][1] = "mutRef"
    BY <1>1 DEF Deinits, DeinitsByReference, ByValue, ByMutRef
  <2>. QED  BY <2>1
<1>4. ASSUME NEW takes, NEW returns, takes # << >>
      PROVE  Handler(takes, returns) # NoFunction
  BY <1>1, <1>4 DEF NoFunction
<1>. QED  BY <1>2, <1>3, <1>4

\* A way is not broken where the type's own C function is called, and where the context's
\* function takes and returns what the caller has.
LEMMA GoodWay ==
  ASSUME NEW f, NEW type, NEW direct, NEW passed, NEW returns
  PROVE  /\ type \in direct \/ f = Handler(passed, returns)
              => Way(f, type, direct, passed, returns) \notin {"broken", "fails"}
         /\ Way(f, type, direct, passed, returns) # "fails"
         /\ type \notin direct /\ f # Handler(passed, returns)
              => Way(f, type, direct, passed, returns) = "broken"
BY DEF Way

\* cubs_context_fast_deinit makes a good call but of a destructor that takes a reference.
LEMMA DeinitsWell ==
  ASSUME NEW type \in Types
  PROVE  DeinitWay(type) = "broken" <=> Context(type).destructor = DeinitsByReference(type)
<1> DEFINE direct == Containers \cup {"string", "result", "unique", "shared", "weak"}
<1>0. DeinitWay(type) = IF Context(type).destructor = NoFunction THEN "nothing"
                        ELSE Way(Context(type).destructor, type, direct, <<ByValue(type)>>, "nothing")
  BY Zenon DEF DeinitWay
<1> HIDE DEF direct
<1>w. /\ type \in direct \/ Context(type).destructor = Handler(<<ByValue(type)>>, "nothing")
           => Way(Context(type).destructor, type, direct, <<ByValue(type)>>, "nothing")
                # "broken"
      /\ type \notin direct
         /\ Context(type).destructor # Handler(<<ByValue(type)>>, "nothing")
           => Way(Context(type).destructor, type, direct, <<ByValue(type)>>, "nothing")
                = "broken"
  BY GoodWay
<1>1. DeinitsByReference(type) # NoFunction
  BY HandlersApart DEF DeinitsByReference
<1>2. CASE type \in {"bool", "int", "float", "char", "ordering", "function", "constRef", "mutRef"}
  <2>1. Context(type).destructor = NoFunction
    BY <1>2, ContextOf DEF BoolContext, IntContext, FloatContext, CharContext, OrderingContext,
       FunctionContext, ConstRefContext, MutRefContext
  <2>. QED  BY <1>0, <1>1, <2>1, Zenon
<1>3. CASE type \in {"string", "array", "set", "map", "option", "error", "result", "unique",
                     "shared", "weak"}
  <2>1. type \in direct
    BY <1>3 DEF direct, Containers
  <2>2. DeinitWay(type) # "broken"
    BY <1>0, <1>w, <2>1
  <2>3. \E t : Context(type).destructor = Deinits(t)
    BY <1>3, ContextOf DEF StringContext, ArrayContext, SetContext, MapContext, OptionContext,
       ErrorContext, ResultContext, UniqueContext, SharedContext, WeakContext
  <2>4. \A t : Deinits(t) # DeinitsByReference(type)
    <3>1. ASSUME NEW t
          PROVE  /\ Deinits(t).takes = <<ByValue(t)>>
                 /\ DeinitsByReference(type).takes = <<ByMutRef(type)>>
      BY DEF Deinits, DeinitsByReference, Handler
    <3>2. ASSUME NEW t
          PROVE  <<ByValue(t)>> # <<ByMutRef(type)>>
      BY DEF ByValue, ByMutRef
    <3>. QED  BY <3>1, <3>2
  <2>. QED  BY <2>2, <2>3, <2>4, Zenon
<1>4. CASE type \in DOMAIN UserContexts
  <2>1. Context(type).destructor \in {NoFunction, Deinits(type), DeinitsByReference(type)}
        /\ type \notin BuiltIn
    BY <1>4, ContextOf, UserContextsAssumption, Zenon
  <2>2. type \notin direct
    BY <2>1 DEF direct, Containers, BuiltIn
  <2>3. CASE Context(type).destructor = NoFunction
    BY <1>0, <1>1, <2>3, Zenon
  <2>4. CASE Context(type).destructor = Deinits(type)
    <3>1. Context(type).destructor = Handler(<<ByValue(type)>>, "nothing")
      BY <2>4, Zenon DEF Deinits
    <3>2. DeinitWay(type) # "broken"
      BY <1>0, <1>w, <3>1
    <3>. QED  BY <2>4, <3>2, HandlersApart, Zenon
  <2>5. CASE Context(type).destructor = DeinitsByReference(type)
    <3>1. Context(type).destructor # Handler(<<ByValue(type)>>, "nothing")
      BY <2>5, HandlersApart, Zenon DEF Deinits
    <3>2. Way(Context(type).destructor, type, direct, <<ByValue(type)>>, "nothing") = "broken"
      BY <1>w, <2>2, <3>1
    <3>. QED  BY <1>0, <1>1, <2>5, <3>2, Zenon
  <2>. QED  BY <2>1, <2>3, <2>4, <2>5, Zenon
<1>. QED  BY <1>2, <1>3, <1>4, Zenon DEF Types, BuiltIn

\* cubs_context_fast_clone is good for every type with a function; some have none.
LEMMA ClonesWell ==
  ASSUME NEW type \in Types
  PROVE  /\ CloneWay(type) # "broken"
         /\ CloneWay(type) = "fails" <=> Context(type).clone = NoFunction
         /\ type \in BuiltIn =>
              (Context(type).clone = NoFunction
                 <=> type \in {"ordering", "result", "unique"})
<1> DEFINE direct == Containers \cup {"bool", "int", "float", "char", "string", "shared", "weak",
                                    "function", "constRef", "mutRef"}
           passed == <<ByConstRef(type)>>
           f == Context(type).clone
<1>0. CloneWay(type) = IF f = NoFunction THEN "fails" ELSE Way(f, type, direct, passed, type)
  BY Zenon DEF CloneWay, AssertedWay
<1> HIDE DEF direct, passed
<1>w. type \in direct \/ f = Handler(passed, type)
        => Way(f, type, direct, passed, type) \notin {"broken", "fails"}
  BY GoodWay
<1>1. CASE type \in {"ordering", "result", "unique"}
  <2>1. f = NoFunction
    BY <1>1, ContextOf DEF OrderingContext, ResultContext, UniqueContext
  <2>. QED  BY <1>0, <1>1, <2>1, Zenon
<1>2. CASE type \in {"bool", "int", "float", "char", "string", "array", "set", "map", "option",
                     "error", "shared", "weak", "function", "constRef", "mutRef"}
  <2>1. type \in direct
    BY <1>2 DEF direct, Containers
  <2>2. f # NoFunction
    <3>1. f = Broken \/ \E takes, returns : takes # << >> /\ f = Handler(takes, returns)
      BY <1>2, ContextOf DEF BoolContext, IntContext, FloatContext, CharContext, StringContext, ArrayContext,
         SetContext, MapContext, OptionContext, ErrorContext, SharedContext, WeakContext,
         FunctionContext, ConstRefContext, MutRefContext,
         Clones, ByConstRef
    <3>. QED  BY <3>1, HandlersApart, Zenon
  <2>3. type \notin {"ordering", "result", "unique"}
    BY <1>2
  <2>. QED  BY <1>0, <1>w, <2>1, <2>2, <2>3
<1>3. CASE type \in DOMAIN UserContexts
  <2>1. f \in {NoFunction, Handler(passed, type)} /\ type \notin BuiltIn
    BY <1>3, ContextOf, UserContextsAssumption, Zenon DEF Clones, passed
  <2>. QED  BY <1>0, <1>w, <2>1
<1>. QED  BY <1>1, <1>2, <1>3, Zenon DEF Types, BuiltIn

\* cubs_context_fast_eql is good for every type with a function, with a call for functions.
LEMMA ComparesWell ==
  ASSUME NEW type \in Types
  PROVE  /\ EqlWay(type) # "broken"
         /\ EqlWay(type) = "fails" <=> Context(type).eql = NoFunction
         /\ type \in BuiltIn =>
              (Context(type).eql = NoFunction
                 <=> type \in {"ordering", "result", "unique"})
<1> DEFINE direct == Containers \cup {"bool", "int", "float", "char", "string", "shared", "weak",
                                    "constRef", "mutRef"}
           passed == <<ByConstRef(type), ByConstRef(type)>>
           f == Context(type).eql
<1>0. EqlWay(type) = IF f = NoFunction THEN "fails" ELSE Way(f, type, direct, passed, "bool")
  BY Zenon DEF EqlWay, AssertedWay
<1> HIDE DEF direct, passed
<1>w. type \in direct \/ f = Handler(passed, "bool")
        => Way(f, type, direct, passed, "bool") \notin {"broken", "fails"}
  BY GoodWay
<1>1. CASE type \in {"ordering", "result", "unique"}
  <2>1. f = NoFunction
    BY <1>1, ContextOf DEF OrderingContext, ResultContext, UniqueContext
  <2>. QED  BY <1>0, <1>1, <2>1, Zenon
<1>2. CASE type \in {"bool", "int", "float", "char", "string", "array", "set", "map", "option",
                     "error", "shared", "weak", "constRef", "mutRef"}
  <2>1. type \in direct
    BY <1>2 DEF direct, Containers
  <2>2. f # NoFunction
    <3>1. f = Broken \/ \E takes, returns : takes # << >> /\ f = Handler(takes, returns)
      BY <1>2, ContextOf DEF BoolContext, IntContext, FloatContext, CharContext, StringContext, ArrayContext,
         SetContext, MapContext, OptionContext, ErrorContext, SharedContext, WeakContext,
         ConstRefContext, MutRefContext,
         Compares, ByConstRef
    <3>. QED  BY <3>1, HandlersApart, Zenon
  <2>3. type \notin {"ordering", "result", "unique"}
    BY <1>2
  <2>. QED  BY <1>0, <1>w, <2>1, <2>2, <2>3
<1>3. CASE type = "function"
  <2>1. f = Handler(passed, "bool")
    BY <1>3, ContextOf DEF FunctionContext, Compares, passed
  <2>2. f # NoFunction
    BY <2>1, HandlersApart DEF passed
  <2>3. type \notin {"ordering", "result", "unique"}
    BY <1>3
  <2>. QED  BY <1>0, <1>w, <2>1, <2>2, <2>3
<1>4. CASE type \in DOMAIN UserContexts
  <2>1. f \in {NoFunction, Handler(passed, "bool")} /\ type \notin BuiltIn
    BY <1>4, ContextOf, UserContextsAssumption, Zenon DEF Compares, passed
  <2>. QED  BY <1>0, <1>w, <2>1
<1>. QED  BY <1>1, <1>2, <1>3, <1>4, Zenon DEF Types, BuiltIn

\* cubs_context_fast_hash is good for every type with a function, with a call for arrays.
LEMMA HashesWell ==
  ASSUME NEW type \in Types
  PROVE  /\ HashWay(type) # "broken"
         /\ HashWay(type) = "fails" <=> Context(type).hash = NoFunction
         /\ type \in BuiltIn =>
              (Context(type).hash = NoFunction
                 <=> type \in {"ordering", "result", "unique", "shared", "weak"})
<1> DEFINE direct == {"bool", "int", "float", "char", "string", "set", "map", "option", "error",
                       "function", "constRef", "mutRef"}
           passed == <<ByConstRef(type)>>
           f == Context(type).hash
<1>0. HashWay(type) = IF f = NoFunction THEN "fails" ELSE Way(f, type, direct, passed, "int")
  BY Zenon DEF HashWay, AssertedWay
<1> HIDE DEF direct, passed
<1>w. type \in direct \/ f = Handler(passed, "int")
        => Way(f, type, direct, passed, "int") \notin {"broken", "fails"}
  BY GoodWay
<1>1. CASE type \in {"ordering", "result", "unique", "shared", "weak"}
  <2>1. f = NoFunction
    BY <1>1, ContextOf DEF OrderingContext, ResultContext, UniqueContext, SharedContext,
                           WeakContext
  <2>. QED  BY <1>0, <1>1, <2>1, Zenon
<1>2. CASE type \in {"bool", "int", "float", "char", "string", "set", "map", "option", "error",
                     "function", "constRef", "mutRef"}
  <2>1. type \in direct
    BY <1>2 DEF direct, Containers
  <2>2. f # NoFunction
    <3>1. f = Broken \/ \E takes, returns : takes # << >> /\ f = Handler(takes, returns)
      BY <1>2, ContextOf DEF BoolContext, IntContext, FloatContext, CharContext, StringContext, SetContext,
         MapContext, OptionContext, ErrorContext, FunctionContext, ConstRefContext, MutRefContext,
         Hashes, ByConstRef
    <3>. QED  BY <3>1, HandlersApart, Zenon
  <2>3. type \notin {"ordering", "result", "unique", "shared", "weak"}
    BY <1>2
  <2>. QED  BY <1>0, <1>w, <2>1, <2>2, <2>3
<1>3. CASE type = "array"
  <2>1. f = Handler(passed, "int")
    BY <1>3, ContextOf DEF ArrayContext, Hashes, passed
  <2>2. f # NoFunction
    BY <2>1, HandlersApart DEF passed
  <2>3. type \notin {"ordering", "result", "unique", "shared", "weak"}
    BY <1>3
  <2>. QED  BY <1>0, <1>w, <2>1, <2>2, <2>3
<1>4. CASE type \in DOMAIN UserContexts
  <2>1. f \in {NoFunction, Handler(passed, "int")} /\ type \notin BuiltIn
    BY <1>4, ContextOf, UserContextsAssumption, Zenon DEF Hashes, passed
  <2>. QED  BY <1>0, <1>w, <2>1
<1>. QED  BY <1>1, <1>2, <1>3, <1>4, Zenon DEF Types, BuiltIn

\* The order of a type that is built in is got to without a call, if it has one.
LEMMA OrdersWell ==
  ASSUME NEW type \in BuiltIn
  PROVE  CompareWay(type) \in {"direct", "fails"}
<1>1. CASE Context(type).compare = NoFunction
  BY <1>1, Zenon DEF CompareWay, AssertedWay
<1>2. CASE Context(type).compare # NoFunction
  <2>1. type \notin {"ordering", "array", "set", "map", "option", "error", "result", "unique",
                     "shared", "weak", "function", "constRef", "mutRef"}
    BY <1>2, ContextOf DEF OrderingContext, ArrayContext, SetContext, MapContext, OptionContext,
       ErrorContext, ResultContext, UniqueContext, SharedContext, WeakContext, FunctionContext,
       ConstRefContext, MutRefContext
  <2>2. type \in {"bool", "int", "float", "char", "string"}
    BY <2>1, Zenon DEF BuiltIn
  <2>. QED  BY <1>2, <2>2, Zenon DEF CompareWay, AssertedWay, Way
<1>. QED  BY <1>1, <1>2

\* The ways of every type to its functions, whatever types the host adds with functions of
\* the documented prototypes, or with a destructor that takes the value.
THEOREM WaysAlwaysGood == WaysAreGood
<1>. SUFFICES ASSUME held \in Types
              PROVE  /\ DeinitWay(held) = "broken"
                          => Context(held).destructor = DeinitsByReference(held)
                     /\ "broken" \notin {CloneWay(held), EqlWay(held), HashWay(held)}
                     /\ held \in BuiltIn =>
                          /\ CloneWay(held) = "fails" <=> held \in {"ordering", "result", "unique"}
                          /\ EqlWay(held) = "fails" => HashWay(held) = "fails"
                          /\ CompareWay(held) \in {"direct", "fails"}
  BY DEF WaysAreGood
<1>1. "broken" \notin {CloneWay(held), EqlWay(held), HashWay(held)}
  BY ClonesWell, ComparesWell, HashesWell
<1>2. ASSUME held \in BuiltIn
      PROVE  /\ CloneWay(held) = "fails" <=> held \in {"ordering", "result", "unique"}
             /\ EqlWay(held) = "fails" => HashWay(held) = "fails"
  <2>1. CloneWay(held) = "fails" <=> held \in {"ordering", "result", "unique"}
    BY <1>2, ClonesWell, Zenon
  <2>2. EqlWay(held) = "fails" <=> held \in {"ordering", "result", "unique"}
    BY <1>2, ComparesWell, Zenon
  <2>3. HashWay(held) = "fails" <=> held \in {"ordering", "result", "unique", "shared", "weak"}
    BY <1>2, HashesWell, Zenon
  <2>. QED  BY <2>1, <2>2, <2>3
<1>. QED  BY <1>1, <1>2, DeinitsWell, OrdersWell, Zenon

-----------------------------------------------------------------------------
(***************************************************************************)
(* The tokens of a source: runs and digits, what a number reads, the       *)
(* tables of operators, strings, and each kind of token in turn.  Sound    *)
(* says it of one place; TokensInv is the invariant of an iterator that    *)
(* goes on.                                                                *)
(***************************************************************************)

\* No character is a letter, nor is the end of a source a character.
LEMMA CharactersApart ==
  /\ Keywords \cap Characters = {} /\ "NUL" \notin Atoms
  /\ \A c \in Characters \cup {"NUL"} : ~IsLetter(c)
  /\ \A c : IsDigit(c) => c \in Characters
<1>1. Keywords \cap Characters = {} /\ "NUL" \notin Keywords /\ "NUL" \notin Characters
  BY DEF Keywords, Characters
<1>2. \A c : IsDigit(c) => c \in Characters
  BY DEF IsDigit, Characters
<1>. QED  BY <1>1, <1>2, AtomsAssumption DEF IsLetter, Atoms

\* What stands at a place of a source, or behind it.
LEMMA CharAtPlaces ==
  ASSUME NEW s \in Seq(Atoms), NEW i \in Nat \ {0}
  PROVE  /\ i <= Len(s) => CharAt(s, i) = s[i] /\ CharAt(s, i) \in Atoms
         /\ CharAt(s, i) # "NUL" => i <= Len(s)
BY DEF CharAt

\* The run of digits from a place ends, at the first that is none.
LEMMA DigitsEnd ==
  ASSUME NEW s \in Seq(Atoms), NEW i \in 1 .. Len(s) + 1
  PROVE  LET e == RunEnd(s, i, IsDigit)
         IN  /\ e \in i .. Len(s) + 1 /\ ~IsDigit(CharAt(s, e))
             /\ \A k \in i .. e - 1 : IsDigit(s[k])
<1> DEFINE Ends(e) == e \in i .. Len(s) + 1 /\ ~IsDigit(CharAt(s, e))
           S == {e \in Nat : Ends(e)}
<1>1. Len(s) \in Nat /\ Ends(Len(s) + 1)
  BY CharactersApart DEF CharAt, IsDigit
<1>2. Len(s) + 1 \in S
  BY <1>1
<1>3. PICK e \in S : \A k \in S : e <= k
  BY <1>2, LeastNat
<1>4. \A k \in i .. e - 1 : IsDigit(s[k])
  <2>. SUFFICES ASSUME NEW k \in i .. e - 1
                PROVE  IsDigit(s[k])
    OBVIOUS
  <2>1. k \in Nat /\ k < e /\ k \in i .. Len(s) + 1 /\ k <= Len(s)
    BY <1>1, <1>3
  <2>2. IsDigit(CharAt(s, k))
    BY <1>3, <2>1
  <2>. QED  BY <2>1, <2>2 DEF CharAt
<1>. QED  BY <1>3, <1>4 DEF RunEnd

\* The run of letters and digits.
LEMMA LettersEnd ==
  ASSUME NEW s \in Seq(Atoms), NEW i \in 1 .. Len(s), IsLetter(s[i])
  PROVE  LET e == RunEnd(s, i, LAMBDA c : IsLetter(c) \/ IsDigit(c))
         IN  /\ e \in i + 1 .. Len(s) + 1 /\ ~IsLetter(CharAt(s, e)) /\ ~IsDigit(CharAt(s, e))
<1> DEFINE Ends(e) == e \in i .. Len(s) + 1 /\ ~(IsLetter(CharAt(s, e)) \/ IsDigit(CharAt(s, e)))
           S == {e \in Nat : Ends(e)}
<1>1. Len(s) \in Nat /\ Ends(Len(s) + 1)
  BY CharactersApart DEF CharAt, IsDigit
<1>2. Len(s) + 1 \in S
  BY <1>1
<1>3. PICK e \in S : \A k \in S : e <= k
  BY <1>2, LeastNat
<1>4. \A k \in i .. e - 1 : IsLetter(s[k]) \/ IsDigit(s[k])
  <2>. SUFFICES ASSUME NEW k \in i .. e - 1
                PROVE  IsLetter(s[k]) \/ IsDigit(s[k])
    OBVIOUS
  <2>1. k \in Nat /\ k < e /\ k \in i .. Len(s) + 1 /\ k <= Len(s)
    BY <1>1, <1>3
  <2>2. IsLetter(CharAt(s, k)) \/ IsDigit(CharAt(s, k))
    BY <1>3, <2>1
  <2>. QED  BY <2>1, <2>2 DEF CharAt
<1> DEFINE E == RunEnd(s, i, LAMBDA c : IsLetter(c) \/ IsDigit(c))
<1>5. E \in i .. Len(s) + 1 /\ ~(IsLetter(CharAt(s, E)) \/ IsDigit(CharAt(s, E)))
  BY <1>3, <1>4 DEF RunEnd
<1>6. E # i
  BY <1>5 DEF CharAt
<1>. QED  BY <1>1, <1>5, <1>6

\* A digit's value.
LEMMA DigitsHaveValues ==
  ASSUME NEW c, IsDigit(c)
  PROVE  DigitValue(c) \in 0 .. 9
<1>1. \E d \in 0 .. 9 : Digits[d + 1] = c
  <2>1. /\ Digits[0 + 1] = "0" /\ Digits[1 + 1] = "1" /\ Digits[2 + 1] = "2" /\ Digits[3 + 1] = "3"
        /\ Digits[4 + 1] = "4" /\ Digits[5 + 1] = "5" /\ Digits[6 + 1] = "6" /\ Digits[7 + 1] = "7"
        /\ Digits[8 + 1] = "8" /\ Digits[9 + 1] = "9"
    BY DEF Digits
  <2>. QED  BY <2>1 DEF IsDigit
<1>. QED  BY <1>1 DEF DigitValue

\* What both readings of the digits have in common, after as many digits: as long as the
\* integer is none of the program's it is what they spell, or IntMin; then it is a float.
Reads(n, spelled) ==
  /\ spelled \in Nat /\ n \in [float : BOOLEAN, int : Int]
  /\ n.float => spelled > IntMax + 1
  /\ ~n.float => \/ n.int = spelled /\ spelled <= IntMax
                 \/ n.int = IntMin /\ spelled = IntMax + 1

\* One more digit.
LEMMA ReadsDigit ==
  ASSUME NEW n, NEW spelled, Reads(n, spelled), NEW c, IsDigit(c)
  PROVE  Reads(WithDigit(n, c),
               IF spelled > 2 * IntMax THEN spelled ELSE 10 * spelled + DigitValue(c))
<1> DEFINE d == DigitValue(c)
           more == IF spelled > 2 * IntMax THEN spelled ELSE 10 * spelled + d
<1>1. d \in 0 .. 9
  BY DigitsHaveValues
<1>2. /\ IntMax \in Int /\ IntMax >= 10 /\ IntMin = -IntMax - 1 /\ IntMax % 10 # 9
  BY TwosComplement, LiteralsAssumption
<1>3. /\ IntMax = 10 * (IntMax \div 10) + (IntMax % 10) /\ IntMax % 10 \in 0 .. 8
      /\ IntMax \div 10 \in Nat
  BY <1>2
<1>4. spelled \in Nat /\ n \in [float : BOOLEAN, int : Int]
  BY DEF Reads
<1>5. more \in Nat /\ more >= spelled
  BY <1>1, <1>2, <1>4
<1>6. spelled <= IntMax + 1 => more = 10 * spelled + d
  BY <1>2, <1>4
<1> HIDE DEF d, more
<1>8. WithDigit(n, c) =
        IF n.float THEN n
        ELSE IF n.int = IntMax \div 10 /\ d = (IntMax % 10) + 1 THEN [n EXCEPT !.int = IntMin]
        ELSE IF MulOverflows(n.int, 10) \/ AddOverflows(n.int * 10, d) THEN [n EXCEPT !.float = TRUE]
        ELSE [n EXCEPT !.int = @ * 10 + d]
  BY DEF WithDigit, d
<1>7. Reads(WithDigit(n, c), more)
  <2>1. CASE n.float
    BY <1>4, <1>5, <1>2, <1>8, <2>1 DEF Reads
  <2>2. CASE ~n.float /\ n.int = spelled /\ spelled <= IntMax
    <3>1. more = 10 * spelled + d /\ n.int \in Ints /\ 10 \in Ints
      BY <1>2, <1>4, <1>6, <2>2 DEF Ints
    <3>2. CASE n.int = IntMax \div 10 /\ d = (IntMax % 10) + 1
      <4>1. more = IntMax + 1
        BY <1>1, <1>2, <1>3, <1>4, <2>2, <3>1, <3>2
      <4>2. WithDigit(n, c) = [n EXCEPT !.int = IntMin]
        BY <1>8, <2>2, <3>2
      <4>. QED  BY <1>2, <1>4, <2>2, <4>1, <4>2 DEF Reads
    <3>3. CASE ~(n.int = IntMax \div 10 /\ d = (IntMax % 10) + 1)
      <4>1. more # IntMax + 1
        <5>1. \A q \in Nat, r \in 0 .. 8, x \in Nat, y \in 0 .. 9 :
                10 * x + y = 10 * q + r + 1 => x = q /\ y = r + 1
          OBVIOUS
        <5> DEFINE q == IntMax \div 10
                   r == IntMax % 10
        <5>2. q \in Nat /\ r \in 0 .. 8 /\ IntMax = 10 * q + r /\ ~(spelled = q /\ d = r + 1)
          BY <1>3, <2>2, <3>3
        <5> HIDE DEF q, r
        <5>3. 10 * spelled + d # 10 * q + r + 1
          BY <1>1, <1>4, <5>1, <5>2
        <5>. QED  BY <1>1, <1>4, <3>1, <5>2, <5>3
      <4>2. MulOverflows(n.int, 10) <=> ~Fits(n.int * 10)
        BY <1>2, <3>1, MulOverflowsExact DEF MulTraps
      <4>3. MulOverflows(n.int, 10) <=> 10 * spelled > IntMax
        BY <1>2, <1>4, <2>2, <4>2 DEF Fits, Ints
      <4>4. ~MulOverflows(n.int, 10) => (AddOverflows(n.int * 10, d) <=> more > IntMax)
        BY <1>1, <1>2, <1>4, <2>2, <3>1, <4>3 DEF AddOverflows
      <4>5. MulOverflows(n.int, 10) \/ AddOverflows(n.int * 10, d) <=> more > IntMax
        BY <1>1, <1>2, <1>4, <3>1, <4>3, <4>4
      <4>6. CASE more > IntMax
        <5>1. WithDigit(n, c) = [n EXCEPT !.float = TRUE]
          BY <1>8, <2>2, <3>3, <4>5, <4>6
        <5>2. WithDigit(n, c) \in [float : BOOLEAN, int : Int] /\ WithDigit(n, c).float
          BY <1>4, <5>1
        <5>3. more > IntMax + 1
          BY <1>2, <1>5, <4>1, <4>6
        <5>. QED  BY <1>5, <5>2, <5>3 DEF Reads
      <4>7. CASE ~(more > IntMax)
        <5>1. WithDigit(n, c) = [n EXCEPT !.int = n.int * 10 + d]
          BY <1>8, <2>2, <3>3, <4>5, <4>7
        <5>. QED  BY <1>1, <1>2, <1>4, <1>5, <2>2, <3>1, <4>7, <5>1 DEF Reads
      <4>. QED  BY <4>6, <4>7
    <3>. QED  BY <3>2, <3>3
  <2>3. CASE ~n.float /\ n.int = IntMin /\ spelled = IntMax + 1
    <3>1. more = 10 * spelled + d /\ more > IntMax + 1 /\ n.int \in Ints /\ 10 \in Ints
      BY <1>1, <1>2, <1>4, <1>6, <2>3 DEF Ints
    <3>2. MulOverflows(n.int, 10)
      <4>1. MulOverflows(n.int, 10) <=> ~Fits(n.int * 10)
        BY <1>2, <3>1, MulOverflowsExact DEF MulTraps
      <4>. QED  BY <1>2, <2>3, <4>1 DEF Fits, Ints
    <3>3. n.int # IntMax \div 10
      BY <1>2, <1>3, <2>3
    <3>4. WithDigit(n, c) = [n EXCEPT !.float = TRUE]
      BY <1>8, <2>3, <3>2, <3>3
    <3>. QED  BY <1>4, <1>5, <3>1, <3>4 DEF Reads
  <2>. QED  BY <1>4, <2>1, <2>2, <2>3 DEF Reads
<1>. QED  BY <1>7 DEF d, more

\* What the digits up to each place spell.
LEMMA DigitsSpelled ==
  ASSUME NEW digits, Len(digits) \in Nat, \A k \in 1 .. Len(digits) : IsDigit(digits[k])
  PROVE  \E n : /\ Spelled(digits) = n[Len(digits)] /\ n[0] = 0
                /\ \A k \in 1 .. Len(digits) :
                     n[k] = IF n[k - 1] > 2 * IntMax THEN n[k - 1]
                            ELSE 10 * n[k - 1] + DigitValue(digits[k])
<1> DEFINE len == Len(digits)
           Next(x, k) == IF x > 2 * IntMax THEN x ELSE 10 * x + DigitValue(digits[k])
           Y == [k \in 0 .. len |-> Int]
           step == [x \in Int \X (1 .. len) |-> Next(x[1], x[2])]
           Solves(f) == f = [k \in 0 .. len |-> IF k = 0 THEN 0 ELSE Next(f[k - 1], k)]
           n == CHOOSE f : Solves(f)
<1>1. len \in Nat /\ 0 \in 0 .. len
      /\ \A k \in 1 .. len : k \in 0 .. len /\ k - 1 \in 0 .. len /\ k # 0
  OBVIOUS
<1>2. \E f : Solves(f)
  <2>1. \A k \in 1 .. len, x \in Int : step[<<x, k>>] = Next(x, k) /\ step[<<x, k>>] \in Int
    <3>. SUFFICES ASSUME NEW k \in 1 .. len, NEW x \in Int
                  PROVE  step[<<x, k>>] = Next(x, k) /\ Next(x, k) \in Int
      OBVIOUS
    <3>1. DigitValue(digits[k]) \in Int
      BY DigitsHaveValues
    <3>. QED  BY <3>1
  <2>2. \A k \in 0 .. len : Y[k] = Int
    OBVIOUS
  <2> HIDE DEF Y, step, len, Next
  <2>3. StaysWithin(len, Int, Y, 0, step)
    BY <1>1, <2>1, <2>2 DEF StaysWithin
  <2>4. PICK f \in [0 .. len -> Int] :
          f[0] = 0 /\ \A k \in 1 .. len : f[k] = step[<<f[k - 1], k>>]
    BY <2>3, Recursion
  <2>5. \A k \in 0 .. len : f[k] = IF k = 0 THEN 0 ELSE Next(f[k - 1], k)
    <3>1. \A k \in 0 .. len : k # 0 => k \in 1 .. len /\ k - 1 \in 0 .. len
      BY <1>1
    <3>. QED  BY <2>1, <2>4, <3>1
  <2>6. f = [k \in 0 .. len |-> f[k]]
    OBVIOUS
  <2>. QED  BY <2>5, <2>6
<1>3. Solves(n)
  <2> HIDE DEF Solves
  <2>. QED  BY <1>2
<1>4. Spelled(digits) = n[len]
  BY DEF Spelled
<1> HIDE DEF n
<1>5. \A k \in 0 .. len : n[k] = IF k = 0 THEN 0 ELSE Next(n[k - 1], k)
  BY <1>3
<1>6. n[0] = 0 /\ \A k \in 1 .. len : n[k] = Next(n[k - 1], k)
  <2> HIDE DEF Next, Solves, len
  <2>. QED  BY <1>1, <1>5
<1>. QED  BY <1>4, <1>6

\* What the tokenizer has read of them.
LEMMA DigitsRead ==
  ASSUME NEW digits, Len(digits) \in Nat, \A k \in 1 .. Len(digits) : IsDigit(digits[k])
  PROVE  \E n : /\ WholePart(digits) = n[Len(digits)] /\ n[0] = [float |-> FALSE, int |-> 0]
                /\ \A k \in 1 .. Len(digits) : n[k] = WithDigit(n[k - 1], digits[k])
<1> DEFINE len == Len(digits)
           X == [float : BOOLEAN, int : Int]
           zero == [float |-> FALSE, int |-> 0]
           Next(x, k) == WithDigit(x, digits[k])
           Y == [k \in 0 .. len |-> X]
           step == [x \in X \X (1 .. len) |-> Next(x[1], x[2])]
           Solves(f) == f = [k \in 0 .. len |-> IF k = 0 THEN zero ELSE Next(f[k - 1], k)]
           n == CHOOSE f : Solves(f)
<1>1. len \in Nat /\ 0 \in 0 .. len
      /\ \A k \in 1 .. len : k \in 0 .. len /\ k - 1 \in 0 .. len /\ k # 0
  OBVIOUS
<1>2. \E f : Solves(f)
  <2>1. \A k \in 1 .. len, x \in X : step[<<x, k>>] = Next(x, k) /\ step[<<x, k>>] \in X
    <3>. SUFFICES ASSUME NEW k \in 1 .. len, NEW x \in X
                  PROVE  step[<<x, k>>] = Next(x, k) /\ Next(x, k) \in X
      OBVIOUS
    <3>1. IntMin \in Int /\ DigitValue(digits[k]) \in Int
      BY DigitsHaveValues, TwosComplement
    <3>2. x \in [float : BOOLEAN, int : Int] /\ x.int \in Int /\ x.int * 10 + DigitValue(digits[k]) \in Int
      BY <3>1
    <3>3. [x EXCEPT !.int = IntMin] \in X /\ [x EXCEPT !.float = TRUE] \in X
          /\ [x EXCEPT !.int = x.int * 10 + DigitValue(digits[k])] \in X
      BY <3>1, <3>2
    <3>4. Next(x, k) \in X
      BY <3>2, <3>3, Zenon DEF WithDigit
    <3>5. step[<<x, k>>] = Next(x, k)
      <4> HIDE DEF Next, X, len
      <4>. QED  OBVIOUS
    <3>. QED  BY <3>4, <3>5
  <2>2. \A k \in 0 .. len : Y[k] = X
    OBVIOUS
  <2>3. zero \in X
    OBVIOUS
  <2> HIDE DEF Y, step, len, Next, X, zero
  <2>4. StaysWithin(len, X, Y, zero, step)
    BY <1>1, <2>1, <2>2, <2>3 DEF StaysWithin
  <2>5. PICK f \in [0 .. len -> X] :
          f[0] = zero /\ \A k \in 1 .. len : f[k] = step[<<f[k - 1], k>>]
    BY <2>4, Recursion
  <2>6. \A k \in 0 .. len : f[k] = IF k = 0 THEN zero ELSE Next(f[k - 1], k)
    <3>1. \A k \in 0 .. len : k # 0 => k \in 1 .. len /\ k - 1 \in 0 .. len
      BY <1>1
    <3>. QED  BY <2>1, <2>5, <3>1
  <2>7. f = [k \in 0 .. len |-> f[k]]
    OBVIOUS
  <2>. QED  BY <2>6, <2>7
<1>3. Solves(n)
  <2> HIDE DEF Solves
  <2>. QED  BY <1>2
<1>4. WholePart(digits) = n[len]
  BY DEF WholePart
<1> HIDE DEF n
<1>5. \A k \in 0 .. len : n[k] = IF k = 0 THEN zero ELSE Next(n[k - 1], k)
  <2> HIDE DEF Next, zero
  <2>. QED  BY <1>3
<1>6. n[0] = zero /\ \A k \in 1 .. len : n[k] = Next(n[k - 1], k)
  <2> HIDE DEF Next, Solves, len, zero
  <2>. QED  BY <1>1, <1>5
<1>. QED  BY <1>4, <1>6

\* The two agree.
LEMMA WholePartRead ==
  ASSUME NEW digits, Len(digits) \in Nat, \A k \in 1 .. Len(digits) : IsDigit(digits[k])
  PROVE  Reads(WholePart(digits), Spelled(digits))
<1> DEFINE len == Len(digits)
<1>1. PICK n : /\ WholePart(digits) = n[len] /\ n[0] = [float |-> FALSE, int |-> 0]
               /\ \A k \in 1 .. len : n[k] = WithDigit(n[k - 1], digits[k])
  BY DigitsRead
<1>2. PICK s : /\ Spelled(digits) = s[len] /\ s[0] = 0
               /\ \A k \in 1 .. len :
                    s[k] = IF s[k - 1] > 2 * IntMax THEN s[k - 1]
                           ELSE 10 * s[k - 1] + DigitValue(digits[k])
  BY DigitsSpelled
<1> DEFINE S == {k \in Nat : k <= len => Reads(n[k], s[k])}
<1>3. 0 \in S
  <2>1. Reads([float |-> FALSE, int |-> 0], 0)
    BY TwosComplement DEF Reads
  <2>. QED  BY <1>1, <1>2, <2>1
<1>4. ASSUME NEW k \in S
      PROVE  k + 1 \in S
  <2>. SUFFICES ASSUME k + 1 <= len
                PROVE  Reads(n[k + 1], s[k + 1])
    OBVIOUS
  <2>1. k + 1 \in 1 .. len /\ (k + 1) - 1 = k /\ Reads(n[k], s[k])
    OBVIOUS
  <2> HIDE DEF S, len
  <2>2. n[k + 1] = WithDigit(n[k], digits[k + 1])
    BY <1>1, <2>1
  <2>3. s[k + 1] = IF s[k] > 2 * IntMax THEN s[k] ELSE 10 * s[k] + DigitValue(digits[k + 1])
    BY <1>2, <2>1
  <2>4. IsDigit(digits[k + 1])
    BY <2>1 DEF len
  <2>. QED  BY <2>1, <2>2, <2>3, <2>4, ReadsDigit
<1>5. S = Nat
  <2> HIDE DEF S
  <2>. QED  BY <1>3, <1>4, Induction DEF S
<1>6. len \in S
  BY <1>5
<1>. QED  BY <1>1, <1>2, <1>6

Tags == {IntLiteral, FloatLiteral, StrLiteral, Identifier, ReferenceSymbol, PointerSymbol, None}

AllTags ==
  Tags \cup {<<c>> : c \in Atoms} \cup {OperatorsAndSymbols[i] : i \in DOMAIN OperatorsAndSymbols}

\* What the tokenizer says of a place: a good token, or an error, or nothing at a
\* character that none begins with.
Sound(start, t) ==
  /\ t.tag \in AllTags /\ t.value \in Int
  /\ t.tag = None => t.error # "none" \/ source[start] \in {"\\", "@"}
  /\ t.tag # None =>
       /\ t.len \in 1 .. Len(source) - start + 1
       /\ GoodToken(source, [tag |-> t.tag, value |-> t.value, from |-> start, len |-> t.len])

\* The tags that are not the text itself are different.
LEMMA TagsApart ==
  /\ Tags \subseteq AllTags
  /\ IntLiteral # FloatLiteral /\ IntLiteral # StrLiteral /\ IntLiteral # Identifier
  /\ IntLiteral # ReferenceSymbol /\ IntLiteral # PointerSymbol /\ IntLiteral # None
  /\ FloatLiteral # StrLiteral /\ FloatLiteral # Identifier /\ FloatLiteral # ReferenceSymbol
  /\ FloatLiteral # PointerSymbol /\ FloatLiteral # None
  /\ StrLiteral # Identifier /\ StrLiteral # ReferenceSymbol /\ StrLiteral # PointerSymbol
  /\ StrLiteral # None
  /\ Identifier # ReferenceSymbol /\ Identifier # PointerSymbol /\ Identifier # None
  /\ ReferenceSymbol # PointerSymbol /\ ReferenceSymbol # None /\ PointerSymbol # None
<1>1. /\ IntLiteral[1] = "int literal" /\ FloatLiteral[1] = "float literal"
      /\ StrLiteral[1] = "str literal" /\ Identifier[1] = "identifier"
      /\ ReferenceSymbol[1] = "reference" /\ PointerSymbol[1] = "pointer" /\ None[1] = "none"
  BY DEF IntLiteral, FloatLiteral, StrLiteral, Identifier, ReferenceSymbol, PointerSymbol, None
<1>2. Tags \subseteq AllTags
  BY DEF AllTags
<1>. QED  BY <1>1, <1>2

\* An error is no token.
LEMMA FailedSound ==
  ASSUME NEW start, NEW error, NEW at, error # "none"
  PROVE  Sound(start, Failed(error, at))
BY TagsApart DEF Sound, Failed, Tags

\* The text of a token.
LEMMA TextOfToken ==
  ASSUME source \in Seq(Atoms), NEW from \in 1 .. Len(source), NEW len \in 1 .. Len(source) - from + 1,
         NEW tag, NEW value
  PROVE  LET text == TextOf(source, [tag |-> tag, value |-> value, from |-> from, len |-> len])
         IN  /\ text \in Seq(Atoms) /\ Len(text) = len
             /\ \A k \in 1 .. len : text[k] = source[from + k - 1]
<1>1. TextOf(source, [tag |-> tag, value |-> value, from |-> from, len |-> len])
        = SubSeq(source, from, from + len - 1)
  BY DEF TextOf
<1>2. from \in Nat /\ len \in Nat /\ from >= 1 /\ from + len - 1 <= Len(source) /\ from + len - 1 \in Int
      /\ len >= 1
  OBVIOUS
<1> DEFINE to == from + len - 1
<1>3. to \in Int /\ to <= Len(source) /\ from <= to + 1 /\ to - from + 1 = len
  BY <1>2
<1> HIDE DEF to
<1>4. /\ SubSeq(source, from, to) \in Seq(Atoms) /\ Len(SubSeq(source, from, to)) = len
      /\ \A k \in 1 .. len : SubSeq(source, from, to)[k] = source[from + k - 1]
  BY <1>2, <1>3
<1>. QED  BY <1>1, <1>4 DEF to

\* A number is a good token.
LEMMA NumbersSound ==
  ASSUME source \in Seq(Atoms), NEW start \in 1 .. Len(source),
         source[start] = "-" \/ IsDigit(source[start])
  PROVE  Sound(start, NumLiteral(source, start))
<1> DEFINE negative == source[start] = "-"
           first == IF negative THEN start + 1 ELSE start
           point == RunEnd(source, first, IsDigit)
           digits == SubSeq(source, first, point - 1)
           whole == WholePart(digits)
           decimal == CharAt(source, point) = "."
           end == IF decimal THEN RunEnd(source, point + 1, IsDigit) ELSE point
           after == CharAt(source, end)
           value == IF negative /\ whole.int # IntMin THEN -whole.int ELSE whole.int
<1>1. Len(source) \in Nat /\ start \in Nat /\ start >= 1 /\ start <= Len(source)
      /\ first \in start .. start + 1 /\ first \in 1 .. Len(source) + 1
  OBVIOUS
<1>2. ~IsDigit("-") /\ "NUL" # "."
  BY DEF IsDigit
<1> HIDE DEF first
<1>3. /\ point \in first .. Len(source) + 1 /\ ~IsDigit(CharAt(source, point))
      /\ \A k \in first .. point - 1 : IsDigit(source[k])
  BY <1>1, DigitsEnd
<1> HIDE DEF point
<1>4. point > start
  <2>1. CASE negative
    BY <1>1, <1>3, <2>1 DEF first
  <2>2. CASE ~negative
    <3>1. first = start /\ IsDigit(CharAt(source, start))
      BY <1>1, <2>2 DEF first, CharAt
    <3>. QED  BY <1>1, <1>3, <3>1
  <2>. QED  BY <2>1, <2>2
<1>5. end \in point .. Len(source) + 1 /\ (decimal => source[point] = "." /\ end > point)
  <2>1. CASE decimal
    <3>1. point \in 1 .. Len(source) /\ source[point] = "."
      BY <1>1, <1>2, <1>3, <2>1 DEF CharAt
    <3>2. point + 1 \in 1 .. Len(source) + 1
      BY <3>1
    <3>3. RunEnd(source, point + 1, IsDigit) \in point + 1 .. Len(source) + 1
      BY <3>2, DigitsEnd
    <3>. QED  BY <1>1, <1>3, <2>1, <3>1, <3>3
  <2>2. CASE ~decimal
    BY <1>1, <1>3, <2>2
  <2>. QED  BY <2>1, <2>2
<1>6. end - start \in 1 .. Len(source) - start + 1 /\ end \in Int
  <2> HIDE DEF end
  <2>. QED  BY <1>1, <1>3, <1>4, <1>5
<1>7. /\ digits \in Seq(Atoms) /\ Len(digits) = point - first
      /\ \A k \in 1 .. Len(digits) : digits[k] = source[first + k - 1] /\ IsDigit(digits[k])
  <2>1. point \in Int /\ first \in Nat /\ first >= 1 /\ point - 1 <= Len(source) /\ first <= point
    BY <1>1, <1>3
  <2>2. digits \in Seq(Atoms) /\ Len(digits) = point - first
        /\ \A k \in 1 .. point - first : digits[k] = source[first + k - 1]
    BY <2>1
  <2>3. \A k \in 1 .. point - first : first + k - 1 \in first .. point - 1
    BY <2>1
  <2>. QED  BY <1>3, <2>2, <2>3
<1> HIDE DEF digits
<1>8. Reads(whole, Spelled(digits))
  BY <1>7, WholePartRead
<1> HIDE DEF whole
<1>9. IntMax \in Int /\ IntMax > 0 /\ IntMin = -IntMax - 1
  BY TwosComplement
<1>10. value \in Int
  BY <1>8, <1>9 DEF Reads
<1> HIDE DEF end
<1> DEFINE token(tag, val) == [tag |-> tag, value |-> val, from |-> start, len |-> end - start]
           text(tag, val) == TextOf(source, token(tag, val))
<1>11. ASSUME NEW tag, NEW val
       PROVE  /\ text(tag, val) \in Seq(Atoms) /\ Len(text(tag, val)) = end - start
              /\ \A k \in 1 .. end - start : text(tag, val)[k] = source[start + k - 1]
              /\ text(tag, val)[1] = source[start]
              /\ ~decimal => digits = IF text(tag, val)[1] = "-" THEN Tail(text(tag, val))
                             ELSE text(tag, val)
  <2> DEFINE T == text(tag, val)
  <2>1. /\ T \in Seq(Atoms) /\ Len(T) = end - start
        /\ \A k \in 1 .. end - start : T[k] = source[start + k - 1]
    BY <1>6, TextOfToken
  <2> HIDE DEF T
  <2>2. T[1] = source[start]
    <3>1. 1 \in 1 .. end - start /\ start + 1 - 1 = start
      BY <1>1, <1>6
    <3>. QED  BY <2>1, <3>1
  <2>3. ASSUME ~decimal
        PROVE  digits = IF T[1] = "-" THEN Tail(T) ELSE T
    <3>1. end = point
      BY <2>3 DEF end
    <3>2. CASE negative
      <4>1. first = start + 1 /\ T[1] = "-" /\ T # << >>
        BY <1>1, <1>6, <2>1, <2>2, <3>2 DEF first
      <4>2. /\ Tail(T) \in Seq(Atoms) /\ Len(Tail(T)) = Len(T) - 1
            /\ \A k \in 1 .. Len(T) - 1 : Tail(T)[k] = T[k + 1]
        BY <2>1, <4>1
      <4>3. \A k \in 1 .. Len(T) - 1 : T[k + 1] = source[start + 1 + k - 1]
        <5>1. \A k \in 1 .. Len(T) - 1 : k + 1 \in 1 .. end - start /\ start + (k + 1) - 1 = start + 1 + k - 1
          BY <1>1, <1>6, <2>1
        <5>. QED  BY <2>1, <5>1
      <4>4. Len(digits) = Len(T) - 1
        BY <1>1, <1>3, <1>7, <2>1, <3>1, <4>1
      <4>5. \A k \in 1 .. Len(digits) : digits[k] = Tail(T)[k]
        BY <1>7, <4>1, <4>2, <4>3, <4>4
      <4>6. digits = Tail(T)
        BY <1>7, <4>2, <4>4, <4>5
      <4>. QED  BY <4>1, <4>6
    <3>3. CASE ~negative
      <4>1. first = start /\ T[1] # "-" /\ Len(digits) = Len(T)
        BY <1>1, <1>7, <2>1, <2>2, <3>1, <3>3 DEF first
      <4>2. \A k \in 1 .. Len(digits) : digits[k] = T[k]
        BY <1>7, <2>1, <4>1
      <4>3. digits = T
        BY <1>7, <2>1, <4>1, <4>2
      <4>. QED  BY <4>1, <4>3
    <3>. QED  BY <3>2, <3>3
  <2>. QED  BY <2>1, <2>2, <2>3 DEF T
<1>12. Spelled(digits) \in Nat
  BY <1>8 DEF Reads
<1>15. ASSUME decimal \/ whole.float
       PROVE  Sound(start, TokenFound(FloatLiteral, end - start, 0))
  <2> DEFINE T == text(FloatLiteral, 0)
  <2>1. /\ Len(T) = end - start /\ T \in Seq(Atoms)
        /\ \A k \in 1 .. end - start : T[k] = source[start + k - 1]
        /\ ~decimal => digits = IF T[1] = "-" THEN Tail(T) ELSE T
    BY <1>11
  <2> HIDE DEF T
  <2>2. \/ \E k \in DOMAIN T : T[k] = "."
        \/ (IF T[1] = "-" THEN -Spelled(digits) ELSE Spelled(digits)) \notin IntMin .. IntMax
           /\ digits = IF T[1] = "-" THEN Tail(T) ELSE T
    <3>1. CASE decimal
      <4>1. point - start + 1 \in 1 .. end - start /\ start + (point - start + 1) - 1 = point
        BY <1>1, <1>3, <1>4, <1>5, <1>6, <3>1
      <4>2. T[point - start + 1] = "."
        BY <1>5, <2>1, <3>1, <4>1
      <4>. QED  BY <2>1, <4>1, <4>2
    <3>2. CASE ~decimal
      <4>1. whole.float
        BY <1>15, <3>2
      <4>2. Spelled(digits) > IntMax + 1 /\ Spelled(digits) \in Nat
        BY <1>8, <4>1 DEF Reads
      <4>. QED  BY <1>9, <2>1, <3>2, <4>2
    <3>. QED  BY <3>1, <3>2
  <2>3. GoodToken(source, token(FloatLiteral, 0))
    <3>1. token(FloatLiteral, 0).tag = FloatLiteral
      OBVIOUS
    <3> DEFINE tok == token(FloatLiteral, 0)
    <3>2. T = TextOf(source, tok) /\ tok.tag = FloatLiteral
      BY DEF T
    <3> HIDE DEF tok
    <3>3. GoodToken(source, tok) <=>
            \/ \E k \in DOMAIN T : T[k] = "."
            \/ LET ds == IF T[1] = "-" THEN Tail(T) ELSE T
               IN  (IF T[1] = "-" THEN -Spelled(ds) ELSE Spelled(ds)) \notin IntMin .. IntMax
      BY <3>2, TagsApart, Zenon DEF GoodToken
    <3>. QED  BY <2>2, <3>3 DEF tok
  <2>. QED  BY <1>6, <2>3, TagsApart DEF Sound, TokenFound, Tags
<1>16. ASSUME ~decimal, ~whole.float
       PROVE  Sound(start, TokenFound(IntLiteral, end - start, value))
  <2> DEFINE T == text(IntLiteral, value)
  <2>1. /\ Len(T) = end - start /\ T \in Seq(Atoms) /\ T[1] = source[start]
        /\ digits = IF T[1] = "-" THEN Tail(T) ELSE T
    BY <1>11, <1>16
  <2> DEFINE tok == token(IntLiteral, value)
             spelled == IF T[1] = "-" THEN -Spelled(digits) ELSE Spelled(digits)
             next == CharAt(source, tok.from + tok.len)
  <2>2. T = TextOf(source, tok) /\ tok.tag = IntLiteral /\ tok.value = value
    OBVIOUS
  <2>3. ~IsDigit(next)
    <3>1. tok.from + tok.len = point
      BY <1>1, <1>3, <1>6, <1>16 DEF end
    <3>. QED  BY <1>3, <3>1
  <2>4. value = IF spelled = -IntMin THEN IntMin ELSE spelled
    <3>1. \/ whole.int = Spelled(digits) /\ Spelled(digits) <= IntMax
          \/ whole.int = IntMin /\ Spelled(digits) = IntMax + 1
      BY <1>8, <1>16 DEF Reads
    <3>2. Spelled(digits) \in Nat
      BY <1>12
    <3> HIDE DEF T
    <3>. QED  BY <1>9, <2>1, <3>1, <3>2
  <2>5. \A k \in DOMAIN digits : IsDigit(digits[k])
    BY <1>7
  <2>6. GoodToken(source, tok)
    <3> HIDE DEF T, tok
    <3>1. GoodToken(source, tok) <=>
            LET ds == IF T[1] = "-" THEN Tail(T) ELSE T
                sp == IF T[1] = "-" THEN -Spelled(ds) ELSE Spelled(ds)
            IN  /\ \A k \in DOMAIN ds : IsDigit(ds[k])
                /\ ~IsDigit(next)
                /\ tok.value = IF sp = -IntMin THEN IntMin ELSE sp
      BY <2>2, TagsApart, Zenon DEF GoodToken
    <3> HIDE DEF value
    <3>. QED  BY <2>1, <2>2, <2>3, <2>4, <2>5, <3>1
  <2>. QED  BY <1>6, <1>10, <2>6, TagsApart DEF Sound, TokenFound, Tags
<1>13. NumLiteral(source, start) =
         IF after = "." THEN Failed("tooManyDecimal", end)
         ELSE IF ~IsSpace(after) /\ after \notin {"NUL", ";", ","} THEN Failed("invalidChar", end)
         ELSE IF decimal \/ whole.float THEN TokenFound(FloatLiteral, end - start, 0)
         ELSE TokenFound(IntLiteral, end - start, value)
  BY Zenon DEF NumLiteral, first, point, digits, whole, end
<1>14. Sound(start, Failed("tooManyDecimal", end)) /\ Sound(start, Failed("invalidChar", end))
  BY FailedSound
<1>. QED  BY <1>13, <1>14, <1>15, <1>16, Zenon

LenAt(i) == Len(Operators[i])
FirstAt(i) == Operators[i][1]

\* The lengths of the operators, and what they begin with.
LEMMA OperatorTable ==
  /\ /\ LenAt(1) = 3 /\ LenAt(2) = 2 /\ LenAt(3) = 3 /\ LenAt(4) = 2 /\ LenAt(5) = 2 /\ LenAt(6) = 1
     /\ LenAt(7) = 2 /\ LenAt(8) = 1 /\ LenAt(9) = 2 /\ LenAt(10) = 1 /\ LenAt(11) = 2 /\ LenAt(12) = 1
     /\ LenAt(13) = 2 /\ LenAt(14) = 1 /\ LenAt(15) = 2 /\ LenAt(16) = 2 /\ LenAt(17) = 2 /\ LenAt(18) = 1
     /\ LenAt(19) = 1 /\ LenAt(20) = 2 /\ LenAt(21) = 1 /\ LenAt(22) = 2 /\ LenAt(23) = 2 /\ LenAt(24) = 1
  /\ /\ FirstAt(1) = "<" /\ FirstAt(2) = "<" /\ FirstAt(3) = ">" /\ FirstAt(4) = ">"
     /\ FirstAt(5) = "=" /\ FirstAt(6) = "=" /\ FirstAt(7) = "!" /\ FirstAt(8) = "!"
     /\ FirstAt(9) = "<" /\ FirstAt(10) = "<" /\ FirstAt(11) = ">" /\ FirstAt(12) = ">"
     /\ FirstAt(13) = "+" /\ FirstAt(14) = "+" /\ FirstAt(15) = "-" /\ FirstAt(16) = "*"
     /\ FirstAt(17) = "/" /\ FirstAt(18) = "/" /\ FirstAt(19) = "~" /\ FirstAt(20) = "|"
     /\ FirstAt(21) = "|" /\ FirstAt(22) = "&" /\ FirstAt(23) = "^" /\ FirstAt(24) = "^"
BY DEF Operators, LenAt, FirstAt

\* An operator that is longer than one before it begins with another character.
LEMMA LongestFirst ==
  ASSUME NEW i \in 1 .. 24, NEW j \in 1 .. 24, i < j, LenAt(j) > LenAt(i)
  PROVE  FirstAt(i) # FirstAt(j)
<1>1. \/ i = 1 \/ i = 2 \/ i = 3 \/ i = 4 \/ i = 5 \/ i = 6 \/ i = 7 \/ i = 8
      \/ i = 9 \/ i = 10 \/ i = 11 \/ i = 12 \/ i = 13 \/ i = 14 \/ i = 15 \/ i = 16
      \/ i = 17 \/ i = 18 \/ i = 19 \/ i = 20 \/ i = 21 \/ i = 22 \/ i = 23 \/ i = 24
  OBVIOUS
<1>2. \/ j = 1 \/ j = 2 \/ j = 3 \/ j = 4 \/ j = 5 \/ j = 6 \/ j = 7 \/ j = 8
      \/ j = 9 \/ j = 10 \/ j = 11 \/ j = 12 \/ j = 13 \/ j = 14 \/ j = 15 \/ j = 16
      \/ j = 17 \/ j = 18 \/ j = 19 \/ j = 20 \/ j = 21 \/ j = 22 \/ j = 23 \/ j = 24
  OBVIOUS
<1>. QED  BY <1>1, <1>2, OperatorTable

\* They are texts of characters.
LEMMA OperatorTexts ==
  /\ Operators \in Seq(Seq(Characters)) /\ Len(Operators) = 24
  /\ Symbols \in Seq(Seq(Characters)) /\ Len(Symbols) = 10
BY DEF Operators, Symbols, Characters

SymbolLen(i) == Len(Symbols[i])

\* The symbols are of one character each.
LEMMA SymbolTable ==
  \A i \in 1 .. 10 : SymbolLen(i) = 1
<1>1. /\ SymbolLen(1) = 1 /\ SymbolLen(2) = 1 /\ SymbolLen(3) = 1 /\ SymbolLen(4) = 1
      /\ SymbolLen(5) = 1 /\ SymbolLen(6) = 1 /\ SymbolLen(7) = 1 /\ SymbolLen(8) = 1
      /\ SymbolLen(9) = 1 /\ SymbolLen(10) = 1
  BY DEF Symbols, SymbolLen
<1>. SUFFICES ASSUME NEW i \in 1 .. 10
              PROVE  SymbolLen(i) = 1
  OBVIOUS
<1>2. \/ i = 1 \/ i = 2 \/ i = 3 \/ i = 4 \/ i = 5 \/ i = 6 \/ i = 7 \/ i = 8 \/ i = 9 \/ i = 10
  OBVIOUS
<1>. QED  BY <1>1, <1>2

\* The operators come before the symbols.
LEMMA TableTexts ==
  /\ DOMAIN OperatorsAndSymbols = 1 .. 34 /\ DOMAIN Operators = 1 .. 24
  /\ \A i \in 1 .. 24 : Operators[i] = OperatorsAndSymbols[i]
  /\ \A i \in 1 .. 10 : i + 24 \in 1 .. 34 /\ Symbols[i] = OperatorsAndSymbols[i + 24]
  /\ \A i \in 1 .. 34 :
       OperatorsAndSymbols[i] \in Seq(Characters) /\ Len(OperatorsAndSymbols[i]) \in 1 .. 3
<1>1. ASSUME NEW i \in 1 .. 24
      PROVE  LenAt(i) \in 1 .. 3
  <2>1. \/ i = 1 \/ i = 2 \/ i = 3 \/ i = 4 \/ i = 5 \/ i = 6 \/ i = 7 \/ i = 8
        \/ i = 9 \/ i = 10 \/ i = 11 \/ i = 12 \/ i = 13 \/ i = 14 \/ i = 15 \/ i = 16
        \/ i = 17 \/ i = 18 \/ i = 19 \/ i = 20 \/ i = 21 \/ i = 22 \/ i = 23 \/ i = 24
    OBVIOUS
  <2>. QED  BY <2>1, OperatorTable
<1> DEFINE T == OperatorsAndSymbols
<1>2. /\ T \in Seq(Seq(Characters)) /\ Len(T) = Len(Operators) + Len(Symbols)
      /\ \A i \in 1 .. Len(Operators) + Len(Symbols) :
           T[i] = IF i <= Len(Operators) THEN Operators[i] ELSE Symbols[i - Len(Operators)]
  BY OperatorTexts, ConcatProperties, Zenon DEF OperatorsAndSymbols
<1> HIDE DEF T
<1>3. Len(Operators) = 24 /\ Len(Symbols) = 10 /\ 24 + 10 = 34
  BY OperatorTexts
<1>4. T \in Seq(Seq(Characters)) /\ Len(T) = 34
  BY <1>2, <1>3
<1>5. \A i \in 1 .. 34 : T[i] = IF i <= 24 THEN Operators[i] ELSE Symbols[i - 24]
  BY <1>2, <1>3, Zenon
<1>6. \A i \in 1 .. 24 : i \in 1 .. 34 /\ i <= 24 /\ T[i] = Operators[i]
  <2>1. \A i \in 1 .. 24 : i \in 1 .. 34 /\ i <= 24
    OBVIOUS
  <2>. QED  BY <1>5, <2>1, Zenon
<1>7. \A i \in 1 .. 34 : i > 24 => i - 24 \in 1 .. 10 /\ T[i] = Symbols[i - 24]
  <2>1. \A i \in 1 .. 34 : i > 24 => i - 24 \in 1 .. 10 /\ ~(i <= 24)
    OBVIOUS
  <2>. QED  BY <1>5, <2>1, Zenon
<1>8. DOMAIN T = 1 .. 34 /\ DOMAIN Operators = 1 .. 24
  BY <1>3, <1>4, OperatorTexts
<1>9. ASSUME NEW i \in 1 .. 34
      PROVE  T[i] \in Seq(Characters) /\ Len(T[i]) \in 1 .. 3
  <2>1. T[i] \in Seq(Characters)
    BY <1>4, ElementOfSeq, Zenon
  <2>2. CASE i <= 24
    <3>1. i \in 1 .. 24
      BY <2>2
    <3>2. T[i] = Operators[i] /\ Len(Operators[i]) \in 1 .. 3
      BY <1>1, <1>6, <3>1, Zenon DEF LenAt
    <3>. QED  BY <2>1, <3>2, Zenon
  <2>3. CASE i > 24
    <3>1. i - 24 \in 1 .. 10 /\ T[i] = Symbols[i - 24]
      BY <1>7, <2>3
    <3>2. Len(Symbols[i - 24]) = 1
      BY <3>1, SymbolTable, Zenon DEF SymbolLen
    <3>3. Len(T[i]) = 1
      BY <3>1, <3>2, Zenon
    <3>. QED  BY <2>1, <3>3
  <2>. QED  BY <2>2, <2>3
<1>10. \A i \in 1 .. 10 : i + 24 \in 1 .. 34 /\ T[i + 24] = Symbols[i]
  <2>1. \A i \in 1 .. 10 : i + 24 \in 1 .. 34 /\ i + 24 > 24 /\ (i + 24) - 24 = i
    OBVIOUS
  <2>. QED  BY <1>7, <2>1
<1>. QED  BY <1>6, <1>8, <1>9, <1>10 DEF T

\* What begins with a keyword or a character is no tag of another token.
LEMMA TextsNoTags ==
  ASSUME NEW text, text[1] \in Keywords \cup Characters
  PROVE  text \notin Tags
<1>1. /\ IntLiteral[1] = "int literal" /\ FloatLiteral[1] = "float literal"
      /\ StrLiteral[1] = "str literal" /\ Identifier[1] = "identifier"
      /\ ReferenceSymbol[1] = "reference" /\ PointerSymbol[1] = "pointer" /\ None[1] = "none"
  BY DEF IntLiteral, FloatLiteral, StrLiteral, Identifier, ReferenceSymbol, PointerSymbol, None
<1>2. "int literal" \notin Characters /\ "float literal" \notin Characters
      /\ "str literal" \notin Characters /\ "identifier" \notin Characters
      /\ "reference" \notin Characters /\ "pointer" \notin Characters /\ "none" \notin Characters
  BY DEF Characters
<1>3. "int literal" \notin Keywords /\ "float literal" \notin Keywords
      /\ "str literal" \notin Keywords /\ "identifier" \notin Keywords
      /\ "reference" \notin Keywords /\ "pointer" \notin Keywords /\ "none" \notin Keywords
  BY DEF Keywords
<1>. QED  BY <1>1, <1>2, <1>3 DEF Tags

\* No operator that stands at a place is longer.
NoLonger(start, len) ==
  \A i \in 1 .. 24 : StartsWith(source, start, Operators[i]) => LenAt(i) <= len

\* A token whose tag is its text is good if no operator that stands there is longer.
LEMMA TextsSound ==
  ASSUME source \in Seq(Atoms), NEW start \in 1 .. Len(source), NEW tag \in Seq(Atoms),
         tag \in AllTags, tag[1] \in Keywords \cup Characters,
         Len(tag) \in 1 .. Len(source) - start + 1, StartsWith(source, start, tag),
         NoLonger(start, Len(tag))
  PROVE  Sound(start, TokenFound(tag, Len(tag), 0))
<1> DEFINE token == [tag |-> tag, value |-> 0, from |-> start, len |-> Len(tag)]
           T == TextOf(source, token)
<1>1. /\ T \in Seq(Atoms) /\ Len(T) = Len(tag)
      /\ \A k \in 1 .. Len(tag) : T[k] = source[start + k - 1]
  BY TextOfToken
<1> HIDE DEF T
<1>2. \A k \in 1 .. Len(tag) : tag[k] = source[start + k - 1]
  <2>1. DOMAIN tag = 1 .. Len(tag)
    OBVIOUS
  <2>2. \A k \in 1 .. Len(tag) : start + k - 1 <= Len(source)
    OBVIOUS
  <2>. QED  BY <2>1, <2>2, Zenon DEF StartsWith, CharAt
<1>3. T = tag
  <2>1. \A k \in 1 .. Len(tag) : T[k] = tag[k]
    BY <1>1, <1>2
  <2>. QED  BY <1>1, <2>1, SeqEqual
<1>4. tag \notin Tags
  BY TextsNoTags
<1>5. GoodToken(source, token)
  <2>1. token.tag = tag /\ token.from = start /\ token.len = Len(tag) /\ T = TextOf(source, token)
    BY DEF T
  <2>2. DOMAIN Operators = 1 .. 24
    BY TableTexts
  <2> HIDE DEF token
  <2>3. tag # IntLiteral /\ tag # FloatLiteral /\ tag # StrLiteral /\ tag # Identifier
        /\ tag # ReferenceSymbol /\ tag # PointerSymbol
    BY <1>4 DEF Tags
  <2>4. GoodToken(source, token) <=>
          /\ T = tag
          /\ \A i \in DOMAIN Operators :
               StartsWith(source, token.from, Operators[i]) => Len(Operators[i]) <= token.len
    BY <2>1, <2>3, Zenon DEF GoodToken
  <2>. QED  BY <1>3, <2>1, <2>2, <2>4, Zenon DEF LenAt, NoLonger
<1>6. tag # None
  BY <1>4 DEF Tags
<1> DEFINE t == TokenFound(tag, Len(tag), 0)
<1>7. t.tag = tag /\ t.value = 0 /\ t.len = Len(tag) /\ t.error = "none"
  BY DEF TokenFound
<1> HIDE DEF t
<1>8. GoodToken(source, [tag |-> t.tag, value |-> t.value, from |-> start, len |-> t.len])
  BY <1>5, <1>7, Zenon
<1>9. 0 \in Int
  OBVIOUS
<1>. QED  BY <1>6, <1>7, <1>8, <1>9, Zenon DEF Sound, t

\* A text that stands at a place ends in the source, and begins with the character there.
LEMMA StandsThere ==
  ASSUME source \in Seq(Atoms), NEW start \in 1 .. Len(source), NEW i \in 1 .. 34,
         StartsWith(source, start, OperatorsAndSymbols[i])
  PROVE  /\ OperatorsAndSymbols[i][1] = source[start]
         /\ Len(OperatorsAndSymbols[i]) \in 1 .. Len(source) - start + 1
<1> DEFINE T == OperatorsAndSymbols[i]
           n == Len(T)
<1>1. T \in Seq(Characters) /\ n \in 1 .. 3
  BY TableTexts
<1> HIDE DEF T
<1>2. /\ DOMAIN T = 1 .. n /\ 1 \in 1 .. n /\ n \in 1 .. n /\ start + 1 - 1 = start
      /\ start + n - 1 \in Nat \ {0}
  <2>1. start \in Nat \ {0}
    OBVIOUS
  <2> HIDE DEF n
  <2>2. 1 \in 1 .. n /\ n \in 1 .. n /\ start + 1 - 1 = start /\ start + n - 1 \in Nat \ {0}
    BY <1>1, <2>1
  <2>3. DOMAIN T = 1 .. n
    BY <1>1 DEF n
  <2>. QED  BY <2>2, <2>3
<1>3. \A k \in 1 .. n : CharAt(source, start + k - 1) = T[k] /\ T[k] \in Characters
  <2>1. \A k \in 1 .. n : T[k] \in Characters
    BY <1>1
  <2>. QED  BY <1>2, <2>1, Zenon DEF StartsWith, T
<1>4. CharAt(source, start + n - 1) # "NUL" /\ CharAt(source, start) = T[1]
  <2>1. "NUL" \notin Characters
    BY CharactersApart DEF Atoms
  <2>. QED  BY <1>2, <1>3, <2>1, Zenon
<1>5. start + n - 1 <= Len(source)
  BY <1>2, <1>4, CharAtPlaces
<1>6. T[1] = source[start]
  BY <1>4 DEF CharAt
<1>. QED  BY <1>1, <1>5, <1>6 DEF T

\* What the tables match is a good token.
LEMMA MatchSound ==
  ASSUME source \in Seq(Atoms), NEW start \in 1 .. Len(source), Match(source, start) # << >>
  PROVE  Sound(start, TokenFound(Match(source, start), Len(Match(source, start)), 0))
<1> DEFINE matches == {i \in DOMAIN OperatorsAndSymbols : StartsWith(source, start, OperatorsAndSymbols[i])}
           m == Min(matches)
           T == OperatorsAndSymbols[m]
<1>1. matches # {} /\ Match(source, start) = T
  BY Zenon DEF Match
<1>2. matches \in SUBSET Nat /\ matches \subseteq 1 .. 34
  <2>1. matches \subseteq 1 .. 34
    BY TableTexts, Zenon
  <2> HIDE DEF matches
  <2>. QED  BY <2>1
<1>3. m \in matches /\ \A i \in matches : m <= i
  <2> HIDE DEF matches
  <2>. QED  BY <1>1, <1>2, LeastOf
<1>4. m \in 1 .. 34 /\ StartsWith(source, start, T) /\ T \in AllTags
  BY <1>2, <1>3, Zenon DEF AllTags
<1> HIDE DEF m
<1>5. /\ T \in Seq(Characters) /\ T \in Seq(Atoms) /\ T[1] \in Characters
      /\ T[1] = source[start] /\ Len(T) \in 1 .. Len(source) - start + 1
  <2>1. T \in Seq(Characters) /\ Len(T) \in 1 .. 3
    BY <1>4, TableTexts, Zenon
  <2>2. T[1] = source[start] /\ Len(T) \in 1 .. Len(source) - start + 1
    BY <1>4, StandsThere, Zenon
  <2> HIDE DEF T
  <2>3. T[1] \in Characters /\ T \in Seq(Atoms)
    BY <2>1 DEF Atoms
  <2>. QED  BY <2>1, <2>2, <2>3
<1>7. 1 .. 24 \subseteq 1 .. 34
  OBVIOUS
<1>6. ASSUME NEW i \in 1 .. 24, StartsWith(source, start, Operators[i])
      PROVE  LenAt(i) <= Len(T)
  <2>1. i \in 1 .. 34 /\ Operators[i] = OperatorsAndSymbols[i]
    BY <1>7, TableTexts, Zenon
  <2>2. i \in matches
    BY <1>6, <2>1, TableTexts, Zenon
  <2>3. m <= i /\ m \in 1 .. 24
    BY <1>3, <1>4, <2>2
  <2>4. FirstAt(i) = source[start]
    BY <1>6, <2>1, StandsThere, Zenon DEF FirstAt
  <2>5. FirstAt(m) = source[start] /\ LenAt(m) = Len(T)
    BY <1>5, <2>3, TableTexts, Zenon DEF FirstAt, LenAt
  <2>6. LenAt(i) \in Int /\ LenAt(m) \in Int
    BY <2>1, <2>3, TableTexts DEF LenAt
  <2>7. ~(m < i /\ LenAt(i) > LenAt(m))
    BY <2>3, <2>4, <2>5, LongestFirst
  <2>8. CASE m = i
    BY <2>5, <2>6, <2>8
  <2>9. CASE m < i
    <3> HIDE DEF T
    <3>. QED  BY <2>5, <2>6, <2>7, <2>9
  <2>. QED  BY <2>3, <2>8, <2>9
<1> HIDE DEF T
<1>8. NoLonger(start, Len(T))
  BY <1>6, Zenon DEF NoLonger
<1>9. Sound(start, TokenFound(T, Len(T), 0))
  BY <1>4, <1>5, <1>8, TextsSound
<1>. QED  BY <1>1, <1>9, Zenon

\* Where nothing is matched, no operator stands.
LEMMA NoMatch ==
  ASSUME source \in Seq(Atoms), NEW start \in 1 .. Len(source), Match(source, start) = << >>,
         NEW i \in 1 .. 34
  PROVE  ~StartsWith(source, start, OperatorsAndSymbols[i])
<1> DEFINE matches == {j \in DOMAIN OperatorsAndSymbols : StartsWith(source, start, OperatorsAndSymbols[j])}
<1>. SUFFICES ASSUME StartsWith(source, start, OperatorsAndSymbols[i])
              PROVE  FALSE
  OBVIOUS
<1>1. i \in matches /\ matches \subseteq 1 .. 34
  BY TableTexts, Zenon
<1>2. Min(matches) \in 1 .. 34
  <2> HIDE DEF matches
  <2>1. matches \in SUBSET Nat /\ matches # {}
    BY <1>1
  <2>. QED  BY <1>1, <2>1, LeastOf
<1>3. OperatorsAndSymbols[Min(matches)] = << >>
  BY <1>1, Zenon DEF Match
<1> HIDE DEF matches
<1>4. Len(OperatorsAndSymbols[Min(matches)]) \in 1 .. 3
  BY <1>2, TableTexts, Zenon
<1>. QED  BY <1>3, <1>4

\* A tag that stands for one atom, when no operator that stands there is longer.
LEMMA AtomsSound ==
  ASSUME source \in Seq(Atoms), NEW start \in 1 .. Len(source),
         source[start] \in Keywords \cup Characters, NoLonger(start, 1)
  PROVE  Sound(start, TokenFound(<<source[start]>>, 1, 0))
<1> DEFINE c == source[start]
           tag == <<c>>
<1>1. c \in Atoms
  OBVIOUS
<1> HIDE DEF c
<1>2. tag \in Seq(Atoms) /\ Len(tag) = 1 /\ tag[1] = c /\ DOMAIN tag = {1}
  BY <1>1
<1>3. tag \in AllTags
  BY <1>1, Zenon DEF AllTags
<1>4. StartsWith(source, start, tag)
  <2>1. start + 1 - 1 = start /\ start <= Len(source)
    OBVIOUS
  <2>. QED  BY <1>2, <2>1, Zenon DEF StartsWith, CharAt, c
<1>5. 1 \in 1 .. Len(source) - start + 1
  OBVIOUS
<1> HIDE DEF tag
<1>6. Sound(start, TokenFound(tag, Len(tag), 0))
  BY <1>2, <1>3, <1>4, <1>5, TextsSound, Zenon DEF c
<1>. QED  BY <1>2, <1>6, Zenon DEF c, tag

\* The text of a token of one atom.
LEMMA TextOfOne ==
  ASSUME source \in Seq(Atoms), NEW start \in 1 .. Len(source), NEW tag, NEW value
  PROVE  TextOf(source, [tag |-> tag, value |-> value, from |-> start, len |-> 1]) = <<source[start]>>
<1> DEFINE T == TextOf(source, [tag |-> tag, value |-> value, from |-> start, len |-> 1])
           c == source[start]
<1>1. 1 \in 1 .. Len(source) - start + 1 /\ c \in Atoms
  OBVIOUS
<1>2. /\ T \in Seq(Atoms) /\ Len(T) = 1
      /\ \A k \in 1 .. 1 : T[k] = source[start + k - 1]
  BY <1>1, TextOfToken
<1> HIDE DEF T
<1>3. T[1] = c
  <2>1. 1 \in 1 .. 1 /\ start + 1 - 1 = start
    OBVIOUS
  <2>. QED  BY <1>2, <2>1
<1> HIDE DEF c
<1>4. <<c>> \in Seq(Atoms) /\ Len(<<c>>) = 1 /\ \A k \in 1 .. 1 : <<c>>[k] = T[k]
  BY <1>1, <1>3
<1>5. T = <<c>>
  BY <1>2, <1>4, SeqEqual
<1>. QED  BY <1>5 DEF T, c

\* A reference or a pointer.
LEMMA MarksSound ==
  ASSUME source \in Seq(Atoms), NEW start \in 1 .. Len(source)
  PROVE  /\ source[start] = "&" => Sound(start, TokenFound(ReferenceSymbol, 1, 0))
         /\ source[start] = "*" => Sound(start, TokenFound(PointerSymbol, 1, 0))
<1>1. 1 \in 1 .. Len(source) - start + 1 /\ 0 \in Int
  OBVIOUS
<1>2. ReferenceSymbol \in AllTags /\ PointerSymbol \in AllTags
  BY TagsApart DEF Tags
<1>3. ASSUME source[start] = "&"
      PROVE  Sound(start, TokenFound(ReferenceSymbol, 1, 0))
  <2> DEFINE token == [tag |-> ReferenceSymbol, value |-> 0, from |-> start, len |-> 1]
  <2>1. TextOf(source, token) = <<"&">> /\ token.tag = ReferenceSymbol
    BY <1>3, TextOfOne
  <2> HIDE DEF token
  <2>2. GoodToken(source, token)
    BY <2>1, TagsApart, Zenon DEF GoodToken
  <2>. QED  BY <1>1, <1>2, <2>2, TagsApart DEF Sound, TokenFound, token
<1>4. ASSUME source[start] = "*"
      PROVE  Sound(start, TokenFound(PointerSymbol, 1, 0))
  <2> DEFINE token == [tag |-> PointerSymbol, value |-> 0, from |-> start, len |-> 1]
  <2>1. TextOf(source, token) = <<"*">> /\ token.tag = PointerSymbol
    BY <1>4, TextOfOne
  <2> HIDE DEF token
  <2>2. GoodToken(source, token)
    BY <2>1, TagsApart, Zenon DEF GoodToken
  <2>. QED  BY <1>1, <1>2, <2>2, TagsApart DEF Sound, TokenFound, token
<1>. QED  BY <1>3, <1>4

\* An identifier goes on to the end of its letters and digits.
LEMMA IdentifiersSound ==
  ASSUME source \in Seq(Atoms), NEW start \in 1 .. Len(source), IsLetter(source[start])
  PROVE  Sound(start, IdentifierAt(source, start))
<1> DEFINE end == RunEnd(source, start, LAMBDA c : IsLetter(c) \/ IsDigit(c))
           token == [tag |-> Identifier, value |-> 0, from |-> start, len |-> end - start]
<1>1. /\ end \in start + 1 .. Len(source) + 1
      /\ ~IsLetter(CharAt(source, end)) /\ ~IsDigit(CharAt(source, end))
  BY LettersEnd
<1>2. IdentifierAt(source, start) = TokenFound(Identifier, end - start, 0)
  BY Zenon DEF IdentifierAt
<1> HIDE DEF end
<1>3. start \in Int /\ start >= 1 /\ Len(source) \in Int /\ end \in Int
  BY <1>1
<1>4. end - start \in 1 .. Len(source) - start + 1 /\ start + (end - start) = end /\ 0 \in Int
  BY <1>1, <1>3
<1>5. token.tag = Identifier /\ token.from + token.len = end
  BY <1>4
<1> HIDE DEF token
<1>6. GoodToken(source, token)
  BY <1>1, <1>5, TagsApart, Zenon DEF GoodToken
<1>7. Identifier \in AllTags /\ Identifier # None
  BY TagsApart DEF Tags
<1>. QED  BY <1>2, <1>4, <1>6, <1>7 DEF Sound, TokenFound, token

\* What the search for a quote goes on with at a place, from the results further on.
QuoteFrom(i, next, later) ==
  IF i > Len(source) THEN Len(source) - i
  ELSE IF source[i] = "\\" THEN later
  ELSE IF source[i] = "\"" THEN i
  ELSE next

\* The search for a quote, from each place.
Searches(q, from) ==
  q = [i \in from .. Len(source) + 2 |->
         IF i > Len(source) THEN Len(source) - i
         ELSE IF source[i] = "\\" THEN q[i + 2]
         ELSE IF source[i] = "\"" THEN i
         ELSE q[i + 1]]

\* There is such a search.
LEMMA SearchExists ==
  ASSUME source \in Seq(Atoms), NEW from \in 1 .. Len(source) + 1
  PROVE  \E q : Searches(q, from)
<1> DEFINE m == Len(source) + 2
           k == m - from
           X == Int \X Int
           Y == [n \in 0 .. k |-> X]
           step == [x \in X \X (1 .. k) |-> <<QuoteFrom(m - x[2], x[1][1], x[1][2]), x[1][1]>>]
<1>1. /\ m \in Nat /\ from \in Nat /\ k \in Nat /\ Len(source) \in Nat /\ Len(source) - m = -2
      /\ \A i \in from .. m : m - i \in 0 .. k
      /\ \A i \in from .. m : i <= Len(source) =>
           /\ m - i \in 1 .. k /\ m - (i + 1) \in 1 .. k /\ m - (i + 2) \in 0 .. k
           /\ i + 1 \in from .. m /\ i + 2 \in from .. m
           /\ (m - i) - 1 = m - (i + 1) /\ (m - (i + 1)) - 1 = m - (i + 2)
           /\ m - (m - i) = i
      /\ \A i \in from .. m : i > Len(source) =>
           \/ i = m /\ m - i = 0
           \/ /\ i = m - 1 /\ m - i = 1 /\ 1 \in 1 .. k /\ 0 \in 0 .. k /\ (m - i) - 1 = 0 /\ 1 - 1 = 0
              /\ m - (m - i) = i
  OBVIOUS
<1>2. ASSUME NEW x \in X, NEW n \in 1 .. k
      PROVE  step[<<x, n>>] = <<QuoteFrom(m - n, x[1], x[2]), x[1]>> /\ step[<<x, n>>] \in X
  <2>1. QuoteFrom(m - n, x[1], x[2]) \in Int
    <3>1. m - n \in Int /\ Len(source) - (m - n) \in Int /\ x[1] \in Int /\ x[2] \in Int
      BY <1>1
    <3> HIDE DEF m
    <3>. QED  BY <3>1, Zenon DEF QuoteFrom
  <2>2. step[<<x, n>>] = <<QuoteFrom(m - n, x[1], x[2]), x[1]>>
    <3> HIDE DEF X, k, m
    <3>. QED  OBVIOUS
  <2>3. <<QuoteFrom(m - n, x[1], x[2]), x[1]>> \in X
    BY <2>1
  <2>. QED  BY <2>2, <2>3
<1>3. <<-2, -2>> \in X /\ \A n \in 0 .. k : Y[n] = X
  OBVIOUS
<1> HIDE DEF Y, step, k
<1>4. StaysWithin(k, X, Y, <<-2, -2>>, step)
  <2>1. 0 \in 0 .. k /\ \A n \in 1 .. k : n - 1 \in 0 .. k /\ n \in 0 .. k
    BY <1>1
  <2> HIDE DEF X
  <2>. QED  BY <1>1, <1>2, <1>3, <2>1 DEF StaysWithin
<1>5. PICK f \in [0 .. k -> X] :
        f[0] = <<-2, -2>> /\ \A n \in 1 .. k : f[n] = step[<<f[n - 1], n>>]
  BY <1>4, Recursion
<1>6. \A n \in 1 .. k : /\ n - 1 \in 0 .. k
                        /\ f[n][1] = QuoteFrom(m - n, f[n - 1][1], f[n - 1][2])
                        /\ f[n][2] = f[n - 1][1]
  <2>. SUFFICES ASSUME NEW n \in 1 .. k
                PROVE  /\ n - 1 \in 0 .. k
                       /\ f[n][1] = QuoteFrom(m - n, f[n - 1][1], f[n - 1][2])
                       /\ f[n][2] = f[n - 1][1]
    OBVIOUS
  <2>1. n - 1 \in 0 .. k
    BY <1>1
  <2>2. f[n - 1] \in X
    BY <1>5, <2>1
  <2> HIDE DEF X, m
  <2>3. f[n] = <<QuoteFrom(m - n, f[n - 1][1], f[n - 1][2]), f[n - 1][1]>>
    BY <1>2, <1>5, <2>2
  <2>. QED  BY <2>1, <2>3
<1> DEFINE Value(i) == f[m - i][1]
           q == [i \in from .. m |-> Value(i)]
<1>7. ASSUME NEW i \in from .. m
      PROVE  Value(i) = IF i > Len(source) THEN Len(source) - i
                        ELSE IF source[i] = "\\" THEN q[i + 2]
                        ELSE IF source[i] = "\"" THEN i
                        ELSE q[i + 1]
  <2>1. CASE i <= Len(source)
    <3>1. /\ m - i \in 1 .. k /\ m - (i + 1) \in 1 .. k /\ m - (i + 2) \in 0 .. k
          /\ i + 1 \in from .. m /\ i + 2 \in from .. m
          /\ (m - i) - 1 = m - (i + 1) /\ (m - (i + 1)) - 1 = m - (i + 2)
          /\ m - (m - i) = i
      BY <1>1, <2>1
    <3>2. q[i + 1] = Value(i + 1) /\ q[i + 2] = Value(i + 2)
      <4> HIDE DEF Value, m
      <4>. QED  BY <3>1
    <3> HIDE DEF m
    <3>3. Value(i) = QuoteFrom(i, f[m - (i + 1)][1], f[m - (i + 1)][2])
      BY <1>6, <3>1
    <3>4. f[m - (i + 1)][2] = Value(i + 2)
      BY <1>6, <3>1
    <3>5. Value(i) = QuoteFrom(i, q[i + 1], q[i + 2])
      <4> HIDE DEF q
      <4>. QED  BY <3>2, <3>3, <3>4
    <3> HIDE DEF q, Value
    <3>. QED  BY <3>5, Zenon DEF QuoteFrom
  <2>2. CASE i > Len(source)
    <3>1. CASE i = m /\ m - i = 0
      BY <1>1, <1>5, <2>2, <3>1
    <3>2. CASE /\ i = m - 1 /\ m - i = 1 /\ 1 \in 1 .. k /\ m - (m - i) = i
      <4>1. Value(i) = QuoteFrom(i, f[0][1], f[0][2])
        <5>1. 1 - 1 = 0 /\ m - 1 = i
          BY <3>2
        <5> HIDE DEF m
        <5>. QED  BY <1>6, <3>2, <5>1
      <4> HIDE DEF Value, q, m
      <4>. QED  BY <2>2, <4>1, Zenon DEF QuoteFrom
    <3>. QED  BY <1>1, <2>2, <3>1, <3>2
  <2>3. i <= Len(source) \/ i > Len(source)
    BY <1>1
  <2> HIDE DEF Value, q
  <2>. QED  BY <2>1, <2>2, <2>3
<1>8. q = [i \in from .. m |-> Value(i)]
  OBVIOUS
<1> HIDE DEF Value, q
<1>9. Searches(q, from)
  BY <1>7, <1>8 DEF Searches
<1>. QED  BY <1>9

\* A quote that is not before a place, or an error.
GoodQuote(i, e) ==
  \/ e \in Int /\ e < 0
  \/ e \in i .. Len(source) /\ source[e] = "\""

\* It is not before an earlier place, either.
LEMMA EarlierQuote ==
  ASSUME source \in Seq(Atoms), NEW i \in Nat, NEW j \in Nat, i <= j, NEW e, GoodQuote(j, e)
  PROVE  GoodQuote(i, e)
<1>1. Len(source) \in Nat
  OBVIOUS
<1>2. e \in j .. Len(source) => e \in i .. Len(source)
  BY <1>1
<1>. QED  BY <1>2, Zenon DEF GoodQuote

\* A search finds such a quote.
LEMMA SearchFinds ==
  ASSUME source \in Seq(Atoms), NEW from \in 1 .. Len(source) + 1, NEW q, Searches(q, from)
  PROVE  GoodQuote(from, q[from])
<1> DEFINE m == Len(source) + 2
           Good(i) == GoodQuote(i, q[i])
           Bad == {n \in Nat : m - n \in from .. m /\ ~Good(m - n)}
<1>1. m \in Nat /\ from \in Nat /\ Len(source) \in Nat /\ from \in from .. m
  OBVIOUS
<1>2. ASSUME NEW i \in from .. m
      PROVE  q[i] = IF i > Len(source) THEN Len(source) - i
                    ELSE IF source[i] = "\\" THEN q[i + 2]
                    ELSE IF source[i] = "\"" THEN i
                    ELSE q[i + 1]
  BY DEF Searches
<1>3. Bad = {}
  <2>. SUFFICES ASSUME Bad # {}
                PROVE  FALSE
    OBVIOUS
  <2>1. PICK n \in Bad : \A k \in Bad : n <= k
    <3>1. Bad \in SUBSET Nat
      OBVIOUS
    <3> HIDE DEF Bad
    <3>. QED  BY <3>1, LeastNat
  <2> DEFINE i == m - n
  <2>2. n \in Nat /\ i \in from .. m /\ ~Good(i)
    <3> HIDE DEF Good, m
    <3>. QED  BY <2>1
  <2> HIDE DEF Good
  <2>3. i \in Nat /\ i <= m /\ i >= from
    BY <1>1, <2>2
  <2>4. ASSUME NEW j \in 1 .. 2, i + j <= m
        PROVE  Good(i + j)
    <3>1. n - j \in Nat /\ m - (n - j) = i + j /\ i + j \in from .. m /\ ~(n <= n - j)
      BY <1>1, <2>2, <2>3, <2>4
    <3> HIDE DEF m, i
    <3>. QED  BY <2>1, <3>1
  <2> HIDE DEF i, Bad
  <2>5. CASE i > Len(source)
    <3>1. q[i] = Len(source) - i
      BY <1>2, <2>2, <2>5, Zenon
    <3>2. Len(source) - i \in Int /\ Len(source) - i < 0
      BY <1>1, <2>3, <2>5
    <3>. QED  BY <2>2, <3>1, <3>2, Zenon DEF Good, GoodQuote
  <2>6. CASE i <= Len(source)
    <3>1. i + 1 <= m /\ i + 2 <= m /\ ~(i > Len(source)) /\ 1 \in 1 .. 2 /\ 2 \in 1 .. 2
          /\ i + 1 \in Nat /\ i + 2 \in Nat /\ i <= i + 1 /\ i <= i + 2 /\ i \in i .. Len(source)
      BY <1>1, <2>3, <2>6
    <3>2. Good(i + 1) /\ Good(i + 2)
      BY <2>4, <3>1, Zenon
    <3>3. GoodQuote(i, q[i + 1]) /\ GoodQuote(i, q[i + 2])
      BY <2>3, <3>1, <3>2, EarlierQuote DEF Good
    <3>4. q[i] = IF source[i] = "\\" THEN q[i + 2] ELSE IF source[i] = "\"" THEN i ELSE q[i + 1]
      BY <1>2, <2>2, <3>1, Zenon
    <3>5. source[i] = "\"" => GoodQuote(i, i)
      BY <3>1, Zenon DEF GoodQuote
    <3>6. GoodQuote(i, q[i])
      BY <3>3, <3>4, <3>5, Zenon
    <3>. QED  BY <2>2, <3>6, Zenon DEF Good
  <2>. QED  BY <1>1, <2>3, <2>5, <2>6
<1>4. Good(from)
  <2>1. m - from \in Nat /\ m - (m - from) = from
    BY <1>1
  <2> HIDE DEF m, Good
  <2>. QED  BY <1>1, <1>3, <2>1
<1>. QED  BY <1>4

\* What strings begin and end with.
QuoteMark == "\""

\* A string of a source ends with a quote, or there is an error.
LEMMA StringsSound ==
  ASSUME source \in Seq(Atoms), NEW start \in 1 .. Len(source), source[start] = QuoteMark
  PROVE  Sound(start, StringLiteral(source, start))
<1> DEFINE q == CHOOSE f : Searches(f, start + 1)
           end == q[start + 1]
<1> HIDE DEF q
<1>1. start \in Int /\ start >= 1 /\ Len(source) \in Nat /\ start + 1 \in 1 .. Len(source) + 1
  OBVIOUS
<1> USE DEF q
<1>2. Searches(q, start + 1)
  BY <1>1, SearchExists
<1>3. StringLiteral(source, start) =
        IF end < -1 THEN Failed("assertion", Len(source))
        ELSE IF end < 0 THEN Failed("terminatedString", Len(source))
        ELSE TokenFound(StrLiteral, end - start + 1, 0)
  BY Zenon DEF StringLiteral, Searches
<1> HIDE DEF q
<1>4. \/ end \in Int /\ end < 0
      \/ end \in start + 1 .. Len(source) /\ source[end] = QuoteMark
  BY <1>1, <1>2, SearchFinds, Zenon DEF GoodQuote, QuoteMark
<1> HIDE DEF end
<1>5. CASE end < 0
  <2>1. /\ Sound(start, Failed("assertion", Len(source)))
        /\ Sound(start, Failed("terminatedString", Len(source)))
    BY FailedSound
  <2>. QED  BY <1>3, <1>5, <2>1, Zenon
<1>6. CASE end \in start + 1 .. Len(source) /\ source[end] = QuoteMark
  <2> DEFINE len == end - start + 1
             token == [tag |-> StrLiteral, value |-> 0, from |-> start, len |-> len]
             T == TextOf(source, token)
  <2>1. /\ len \in 1 .. Len(source) - start + 1 /\ len > 1 /\ 0 \in Int
        /\ start + 1 - 1 = start /\ start + len - 1 = end /\ 1 \in 1 .. len /\ len \in 1 .. len
        /\ ~(end < -1) /\ ~(end < 0)
    BY <1>1, <1>6
  <2>2. \A k \in 1 .. len : T[k] = source[start + k - 1]
    BY <2>1, TextOfToken
  <2> HIDE DEF T, len
  <2>3. T[1] = QuoteMark /\ T[len] = QuoteMark
    BY <1>6, <2>1, <2>2
  <2>4. token.tag = StrLiteral /\ T = TextOf(source, token) /\ token.len = len
    BY DEF T
  <2> HIDE DEF token
  <2>5. GoodToken(source, token)
    BY <2>1, <2>3, <2>4, TagsApart, Zenon DEF GoodToken, QuoteMark
  <2>6. StringLiteral(source, start) = TokenFound(StrLiteral, len, 0)
    BY <1>3, <2>1, Zenon DEF len
  <2>7. StrLiteral \in AllTags /\ StrLiteral # None
    BY TagsApart DEF Tags
  <2> DEFINE t == TokenFound(StrLiteral, len, 0)
  <2>8. t.tag = StrLiteral /\ t.value = 0 /\ t.len = len
    BY DEF TokenFound
  <2> HIDE DEF t
  <2>9. GoodToken(source, [tag |-> t.tag, value |-> t.value, from |-> start, len |-> t.len])
    BY <2>5, <2>8, Zenon DEF token
  <2>10. Sound(start, t)
    BY <2>1, <2>7, <2>8, <2>9, Zenon DEF Sound
  <2>. QED  BY <2>6, <2>10 DEF t
<1>. QED  BY <1>4, <1>5, <1>6

\* The texts of one character.
LEMMA OfOneCharacter ==
  \A c \in {"<", ">", "=", "!", "+", "/", "~", "|", "^",
           "(", ")", "[", "]", "{", "}", ":", ";", ".", ","} :
    \E i \in 1 .. 34 : OperatorsAndSymbols[i] = <<c>>
<1>1. /\ Operators[10] = <<"<">> /\ Operators[12] = <<">">> /\ Operators[6] = <<"=">>
      /\ Operators[8] = <<"!">> /\ Operators[14] = <<"+">> /\ Operators[18] = <<"/">>
      /\ Operators[19] = <<"~">> /\ Operators[21] = <<"|">> /\ Operators[24] = <<"^">>
  BY DEF Operators
<1>2. /\ Symbols[1] = <<"(">> /\ Symbols[2] = <<")">> /\ Symbols[3] = <<"[">>
      /\ Symbols[4] = <<"]">> /\ Symbols[5] = <<"{">> /\ Symbols[6] = <<"}">>
      /\ Symbols[7] = <<":">> /\ Symbols[8] = <<";">> /\ Symbols[9] = <<".">>
      /\ Symbols[10] = <<",">>
  BY DEF Symbols
<1>3. \A i \in 1 .. 24 : i \in 1 .. 34
  OBVIOUS
<1>4. \A c : \A i \in 1 .. 24 : Operators[i] = <<c>> => \E j \in 1 .. 34 : OperatorsAndSymbols[j] = <<c>>
  BY <1>3, TableTexts, Zenon
<1>5. \A c : \A i \in 1 .. 10 : Symbols[i] = <<c>> => \E j \in 1 .. 34 : OperatorsAndSymbols[j] = <<c>>
  BY TableTexts, Zenon
<1>6. /\ 10 \in 1 .. 24 /\ 12 \in 1 .. 24 /\ 6 \in 1 .. 24 /\ 8 \in 1 .. 24 /\ 14 \in 1 .. 24
      /\ 18 \in 1 .. 24 /\ 19 \in 1 .. 24 /\ 21 \in 1 .. 24 /\ 24 \in 1 .. 24
      /\ 1 \in 1 .. 10 /\ 2 \in 1 .. 10 /\ 3 \in 1 .. 10 /\ 4 \in 1 .. 10 /\ 5 \in 1 .. 10
      /\ 6 \in 1 .. 10 /\ 7 \in 1 .. 10 /\ 8 \in 1 .. 10 /\ 9 \in 1 .. 10 /\ 10 \in 1 .. 10
  OBVIOUS
<1>. SUFFICES ASSUME NEW c \in {"<", ">", "=", "!", "+", "/", "~", "|", "^",
                                 "(", ")", "[", "]", "{", "}", ":", ";", ".", ","}
              PROVE  \E i \in 1 .. 34 : OperatorsAndSymbols[i] = <<c>>
  BY Zenon
<1>7. \/ \E i \in 1 .. 24 : Operators[i] = <<c>>
      \/ \E i \in 1 .. 10 : Symbols[i] = <<c>>
  <2>1. c \in {"<", ">", "=", "!", "+", "/", "~", "|", "^"} => \E i \in 1 .. 24 : Operators[i] = <<c>>
    BY <1>1, <1>6, Zenon
  <2>2. c \in {"(", ")", "[", "]", "{", "}", ":", ";", ".", ","} => \E i \in 1 .. 10 : Symbols[i] = <<c>>
    BY <1>2, <1>6, Zenon
  <2>3. \/ c \in {"<", ">", "=", "!", "+", "/", "~", "|", "^"}
        \/ c \in {"(", ")", "[", "]", "{", "}", ":", ";", ".", ","}
    BY Zenon
  <2>. QED  BY <2>1, <2>2, <2>3, Zenon
<1>. QED  BY <1>4, <1>5, <1>7, Zenon

\* Each character begins something, or none of the tokenizer's cases is for it.
LEMMA NothingBegins ==
  ASSUME source \in Seq(Atoms), NEW start \in 1 .. Len(source), Match(source, start) = << >>,
         ~IsSpace(source[start]), ~IsDigit(source[start]), ~IsLetter(source[start]),
         source[start] \notin {"&", "*", "-", QuoteMark, "'"}
  PROVE  source[start] \in {"\\", "@"}
<1> DEFINE c == source[start]
<1>1. c \in Atoms
  BY ElementOfSeq, Zenon
<1>2. c \in Characters
  BY <1>1, Zenon DEF Atoms, IsLetter
<1>3. ASSUME NEW i \in 1 .. 34
      PROVE  OperatorsAndSymbols[i] # <<c>>
  <2>. SUFFICES ASSUME OperatorsAndSymbols[i] = <<c>>
                PROVE  FALSE
    OBVIOUS
  <2>1. StartsWith(source, start, <<c>>)
    <3> HIDE DEF c
    <3>1. DOMAIN <<c>> = {1} /\ <<c>>[1] = c
      OBVIOUS
    <3>2. start \in Int /\ start + 1 - 1 = start /\ start <= Len(source)
      OBVIOUS
    <3>. QED  BY <3>1, <3>2, Zenon DEF StartsWith, CharAt, c
  <2>. QED  BY <2>1, NoMatch, Zenon
<1>4. c \notin {"<", ">", "=", "!", "+", "/", "~", "|", "^",
                "(", ")", "[", "]", "{", "}", ":", ";", ".", ","}
  BY <1>3, OfOneCharacter, Zenon
<1>. QED  BY <1>2, <1>4, Zenon DEF Characters, IsSpace, IsDigit, QuoteMark

\* Without a match no operator is longer than one atom.
LEMMA NoMatchNoLonger ==
  ASSUME source \in Seq(Atoms), NEW start \in 1 .. Len(source), Match(source, start) = << >>
  PROVE  NoLonger(start, 1)
<1>1. 1 .. 24 \subseteq 1 .. 34
  OBVIOUS
<1>. QED  BY <1>1, NoMatch, TableTexts, Zenon DEF NoLonger

\* What get_next_token finds at a place that is no space is good.
LEMMA TokensSound ==
  ASSUME source \in Seq(Atoms), NEW start \in 1 .. Len(source), NEW previous,
         ~IsSpace(source[start])
  PROVE  Sound(start, TokenAt(source, start, previous))
<1> DEFINE c == source[start]
           match == Match(source, start)
           t == TokenAt(source, start, previous)
<1>1. CASE StartsWithKeyword(source, start)
  <2>1. c \in Keywords
    <3>1. start <= Len(source)
      OBVIOUS
    <3>. QED  BY <1>1, <3>1, Zenon DEF StartsWithKeyword, CharAt
  <2>2. NoLonger(start, 1)
    <3>. SUFFICES ASSUME NEW i \in 1 .. 24, StartsWith(source, start, Operators[i])
                  PROVE  FALSE
      BY Zenon DEF NoLonger
    <3>1. i \in 1 .. 34
      OBVIOUS
    <3>2. OperatorsAndSymbols[i][1] = c /\ OperatorsAndSymbols[i] \in Seq(Characters)
          /\ Len(OperatorsAndSymbols[i]) \in 1 .. 3
      BY <3>1, StandsThere, TableTexts, Zenon
    <3>3. c \in Characters
      <4>1. 1 \in 1 .. Len(OperatorsAndSymbols[i])
        BY <3>2
      <4>. QED  BY <3>2, <4>1, ElementOfSeq, Zenon
    <3>. QED  BY <2>1, <3>3, CharactersApart
  <2>3. c \in Keywords \cup Characters
    BY <2>1
  <2>4. Sound(start, TokenFound(<<c>>, 1, 0))
    BY <2>2, <2>3, AtomsSound
  <2>. QED  BY <1>1, <2>4, Zenon DEF TokenAt
<1>2. CASE ~StartsWithKeyword(source, start) /\ match # << >>
  <2>1. Sound(start, TokenFound(match, Len(match), 0))
    BY <1>2, MatchSound
  <2>. QED  BY <1>2, <2>1, Zenon DEF TokenAt
<1>3. CASE ~StartsWithKeyword(source, start) /\ match = << >>
  <2>1. NoLonger(start, 1)
    BY <1>3, NoMatchNoLonger
  <2>2. "&" \in Characters /\ "*" \in Characters /\ "-" \in Characters
    BY Zenon DEF Characters
  <2>3. c \in {"&", "*", "-"} => Sound(start, TokenFound(<<c>>, 1, 0))
    BY <2>1, <2>2, AtomsSound, Zenon
  <2>4. CASE c = "&"
    BY <1>3, <2>3, <2>4, MarksSound, Zenon DEF TokenAt
  <2>5. CASE c = "*" /\ c # "&"
    BY <1>3, <2>3, <2>5, MarksSound, Zenon DEF TokenAt
  <2>6. CASE c = "-" /\ c # "&" /\ c # "*"
    BY <1>3, <2>3, <2>6, NumbersSound, Zenon DEF TokenAt
  <2>7. CASE c # "-" /\ c # "&" /\ c # "*"
    <3>1. t = LiteralOrIdentifier(source, start)
      BY <1>3, <2>7, Zenon DEF TokenAt
    <3>2. c = "\"" => Sound(start, StringLiteral(source, start))
      BY StringsSound, Zenon DEF QuoteMark
    <3>3. IsDigit(c) => Sound(start, NumLiteral(source, start))
      BY NumbersSound
    <3>4. IsLetter(c) => Sound(start, IdentifierAt(source, start))
      BY IdentifiersSound
    <3>5. Sound(start, Failed("assertion", start))
      BY FailedSound
    <3>6. ASSUME c # "\"", ~IsDigit(c), ~IsLetter(c), c # "'"
          PROVE  Sound(start, NotFound)
      <4>1. c \in {"\\", "@"}
        BY <1>3, <2>7, <3>6, NothingBegins, Zenon DEF QuoteMark
      <4>2. None \in AllTags /\ 0 \in Int
        BY TagsApart DEF Tags
      <4>3. NotFound.tag = None /\ NotFound.value = 0
        BY DEF NotFound, Failed
      <4>. QED  BY <4>1, <4>2, <4>3, Zenon DEF Sound
    <3>. QED  BY <3>1, <3>2, <3>3, <3>4, <3>5, <3>6, Zenon DEF LiteralOrIdentifier
  <2>. QED  BY <2>4, <2>5, <2>6, <2>7, Zenon
<1>. QED  BY <1>1, <1>2, <1>3, Zenon

\* A token of the iterator.
IterTokens == [tag : AllTags, value : Int, from : Nat, len : Nat]

\* What the callback is told.
Reports(src) ==
  {<<t.error, t.at>> : t \in {TokenAt(src, i, tag) : i \in 1 .. Len(src), tag \in AllTags}}

\* The iterator is within the source, and knows the tokens' tags and what was reported.
TokensInv ==
  /\ source \in Seq(Atoms) /\ seen \in Seq(IterTokens)
  /\ tokens = [index |-> tokens.index, previous |-> tokens.previous, current |-> tokens.current,
               errors |-> tokens.errors]
  /\ tokens.index \in 0 .. Len(source) /\ tokens.current \in IterTokens
  /\ tokens.errors \in Seq(Reports(source))
  /\ TokensCoverSource

\* The iterator begins at the source's begin.
LEMMA TokensInvInit == TokensInit(Seq(Atoms)) => TokensInv
<1>. SUFFICES ASSUME TokensInit(Seq(Atoms))
              PROVE  TokensInv
  OBVIOUS
<1>1. source \in Seq(Atoms) /\ tokens = TokenIterInit /\ seen = << >>
  BY DEF TokensInit
<1>2. Len(source) \in Nat
  BY <1>1
<1>3. NoToken \in IterTokens /\ NoToken.tag = None
  BY TagsApart DEF NoToken, IterTokens, Tags
<1>4. tokens.index = 0 /\ tokens.current = NoToken /\ tokens.previous = NoToken /\ tokens.errors = << >>
  BY <1>1 DEF TokenIterInit
<1>5. seen \in Seq(IterTokens) /\ Len(seen) = 0 /\ DOMAIN seen = {} /\ << >> \in Seq(Reports(source))
  BY <1>1
<1>6. TokensCoverSource
  BY <1>1, <1>4, <1>5, Zenon DEF TokensCoverSource, EndOf
<1>7. tokens = [index |-> tokens.index, previous |-> tokens.previous, current |-> tokens.current,
                errors |-> tokens.errors]
  BY <1>1, <1>4 DEF TokenIterInit
<1>. QED  BY <1>1, <1>2, <1>3, <1>4, <1>5, <1>6, <1>7 DEF TokensInv

\* The first place that is no space.
LEMMA TokensStart ==
  ASSUME source \in Seq(Atoms), NEW i \in 1 .. Len(source) + 1
  PROVE  LET start == TokenStart(source, i)
             rest == {k \in i .. Len(source) : ~IsSpace(source[k])}
         IN  \/ start = 0 /\ rest = {}
             \/ /\ start \in i .. Len(source) /\ ~IsSpace(source[start]) /\ start = Min(rest)
                /\ \A k \in i .. start - 1 : IsSpace(source[k])
<1> DEFINE start == TokenStart(source, i)
           rest == {k \in i .. Len(source) : ~IsSpace(source[k])}
<1>1. Len(source) \in Nat /\ i \in Nat
  OBVIOUS
<1>2. CASE rest = {}
  BY <1>2, Zenon DEF TokenStart
<1>3. CASE rest # {}
  <2>1. start = Min(rest)
    BY <1>3, Zenon DEF TokenStart
  <2>2. rest \in SUBSET Nat
    BY <1>1
  <2>3. start \in rest /\ \A k \in rest : start <= k
    <3> HIDE DEF rest, start
    <3>. QED  BY <1>3, <2>1, <2>2, LeastOf
  <2>4. start \in i .. Len(source) /\ ~IsSpace(source[start])
    BY <2>3
  <2>5. \A k \in i .. start - 1 : IsSpace(source[k])
    <3> HIDE DEF start
    <3>1. \A k \in i .. start - 1 : k \in i .. Len(source) /\ ~(start <= k)
      BY <1>1, <2>4
    <3>. QED  BY <2>3, <3>1
  <2>. QED  BY <2>1, <2>4, <2>5
<1>. QED  BY <1>2, <1>3

\* No token is read: the source is at its end, or something is wrong with what comes next.
LEMMA NoTokenRead ==
  ASSUME TokensInv, ReadToken,
         LET start == TokenStart(source, tokens.index + 1)
         IN  (IF tokens.index >= Len(source) \/ start = 0 THEN NotFound
              ELSE TokenAt(source, start, tokens.current.tag)).tag = None
  PROVE  TokensInv'
<1> DEFINE start == TokenStart(source, tokens.index + 1)
           next == IF tokens.index >= Len(source) \/ start = 0 THEN NotFound
                   ELSE TokenAt(source, start, tokens.current.tag)
           rest == {k \in tokens.index + 1 .. Len(source) : ~IsSpace(source[k])}
           errors == IF next.error = "none" THEN tokens.errors
                     ELSE Append(tokens.errors, <<next.error, next.at>>)
<1>1. /\ source \in Seq(Atoms) /\ seen \in Seq(IterTokens) /\ TokensCoverSource
      /\ tokens.index \in 0 .. Len(source) /\ tokens.current \in IterTokens
      /\ tokens.errors \in Seq(Reports(source))
  BY DEF TokensInv
<1>2. next.tag = None
  OBVIOUS
<1>3. tokens' = [index |-> tokens.index, previous |-> tokens.current, current |-> NoToken,
                 errors |-> errors]
  <2>1. tokens' = [tokens EXCEPT !.previous = tokens.current, !.current = NoToken, !.errors = errors]
    BY <1>2, Zenon DEF ReadToken, TokenIterNext
  <2> HIDE DEF errors
  <2>. QED  BY <2>1 DEF TokensInv
<1>4. source' = source /\ NoToken.tag = None /\ NoToken \in IterTokens
  BY TagsApart DEF ReadToken, NoToken, IterTokens, Tags
<1> HIDE DEF next
<1>5. /\ tokens'.index = tokens.index /\ tokens'.current = NoToken /\ tokens'.errors = errors
      /\ tokens' = [index |-> tokens'.index, previous |-> tokens'.previous,
                    current |-> tokens'.current, errors |-> tokens'.errors]
  <2> HIDE DEF errors
  <2>. QED  BY <1>3
<1>6. seen' = seen
  BY <1>4, <1>5 DEF ReadToken
<1>7. tokens.index + 1 \in 1 .. Len(source) + 1 /\ Len(source) \in Nat /\ tokens.index \in Nat
  BY <1>1
<1>8. \/ start = 0 /\ rest = {}
      \/ start \in 1 .. Len(source) /\ ~IsSpace(source[start]) /\ start = Min(rest)
  <2>1. \/ start = 0 /\ rest = {}
        \/ start \in tokens.index + 1 .. Len(source) /\ ~IsSpace(source[start]) /\ start = Min(rest)
    BY <1>1, <1>7, TokensStart, Zenon
  <2> HIDE DEF start, rest
  <2>. QED  BY <1>7, <2>1
<1>9. errors \in Seq(Reports(source)) /\ (next.error # "none" => errors # << >>)
  <2>1. CASE next.error = "none"
    BY <1>1, <2>1
  <2>2. CASE next.error # "none"
    <3>1. next = TokenAt(source, start, tokens.current.tag) /\ start \in 1 .. Len(source)
      <4>1. NotFound.error = "none"
        BY DEF NotFound, Failed
      <4>. QED  BY <1>8, <2>2, <4>1, Zenon DEF next
    <3>2. tokens.current.tag \in AllTags
      BY <1>1 DEF IterTokens
    <3>3. <<next.error, next.at>> \in Reports(source)
      <4>1. next \in {TokenAt(source, i, tag) : i \in 1 .. Len(source), tag \in AllTags}
        BY <3>1, <3>2
      <4>. QED  BY <4>1 DEF Reports
    <3>4. errors = Append(tokens.errors, <<next.error, next.at>>)
      BY <2>2
    <3> DEFINE report == <<next.error, next.at>>
    <3> HIDE DEF errors, report
    <3>5. errors = Append(tokens.errors, report) /\ report \in Reports(source)
      BY <3>3, <3>4 DEF report
    <3>6. errors \in Seq(Reports(source)) /\ Len(errors) = Len(tokens.errors) + 1
      BY <1>1, <3>5, AppendProperties
    <3>7. errors # << >>
      BY <1>1, <3>6
    <3>. QED  BY <3>6, <3>7
  <2>. QED  BY <2>1, <2>2
<1> HIDE DEF errors
<1>10. \/ rest = {} \/ errors # << >> \/ source[Min(rest)] \in {"\\", "@"}
  <2>1. CASE tokens.index >= Len(source) \/ start = 0
    <3>1. tokens.index >= Len(source) => rest = {}
      <4>1. tokens.index >= Len(source) => tokens.index + 1 .. Len(source) = {}
        BY <1>7
      <4>. QED  BY <4>1, Zenon
    <3>2. start = 0 => rest = {}
      <4>1. 0 \notin 1 .. Len(source)
        OBVIOUS
      <4>. QED  BY <1>8, <4>1, Zenon
    <3>. QED  BY <2>1, <3>1, <3>2, Zenon
  <2>2. CASE ~(tokens.index >= Len(source) \/ start = 0)
    <3>1. next = TokenAt(source, start, tokens.current.tag) /\ start = Min(rest)
          /\ start \in 1 .. Len(source) /\ ~IsSpace(source[start])
      BY <1>8, <2>2, Zenon DEF next
    <3>2. Sound(start, next)
      BY <1>1, <3>1, TokensSound, Zenon
    <3>3. next.error # "none" \/ source[start] \in {"\\", "@"}
      BY <1>2, <3>2, Zenon DEF Sound
    <3>. QED  BY <1>9, <3>1, <3>3, Zenon
  <2>. QED  BY <2>1, <2>2, Zenon
<1>11. TokensCoverSource'
  <2>1. \A i \in DOMAIN seen' :
          /\ GoodToken(source', seen'[i])
          /\ \A k \in EndOf(seen', i - 1) + 1 .. seen'[i].from - 1 : IsSpace(source'[k])
    BY <1>1, <1>4, <1>6, Zenon DEF TokensCoverSource
  <2>2. tokens'.index = EndOf(seen', Len(seen'))
    BY <1>1, <1>5, <1>6, Zenon DEF TokensCoverSource
  <2>3. {k \in tokens'.index + 1 .. Len(source') : ~IsSpace(source'[k])} = rest
    BY <1>4, <1>5, Zenon
  <2> HIDE DEF rest
  <2>4. \/ {k \in tokens'.index + 1 .. Len(source') : ~IsSpace(source'[k])} = {}
        \/ tokens'.errors # << >>
        \/ source'[Min({k \in tokens'.index + 1 .. Len(source') : ~IsSpace(source'[k])})] \in {"\\", "@"}
    BY <1>4, <1>5, <1>10, <2>3, Zenon
  <2>. QED  BY <2>1, <2>2, <2>4, Zenon DEF TokensCoverSource
<1>12. (tokens'.index \in 0 .. Len(source')) /\ source' \in Seq(Atoms) /\ seen' \in Seq(IterTokens)
  BY <1>1, <1>4, <1>5, <1>6, Zenon
<1>13. tokens'.errors \in Seq(Reports(source')) /\ tokens'.current \in IterTokens
  BY <1>4, <1>5, <1>9, Zenon
<1>. QED  BY <1>5, <1>11, <1>12, <1>13, Zenon DEF TokensInv

\* A token is read: it begins behind those before it, after nothing but spaces.
LEMMA OneTokenRead ==
  ASSUME TokensInv, ReadToken,
         LET start == TokenStart(source, tokens.index + 1)
         IN  (IF tokens.index >= Len(source) \/ start = 0 THEN NotFound
              ELSE TokenAt(source, start, tokens.current.tag)).tag # None
  PROVE  TokensInv'
<1> DEFINE start == TokenStart(source, tokens.index + 1)
           next == IF tokens.index >= Len(source) \/ start = 0 THEN NotFound
                   ELSE TokenAt(source, start, tokens.current.tag)
           token == [tag |-> next.tag, value |-> next.value, from |-> start, len |-> next.len]
           index == start + next.len - 1
<1>1. /\ source \in Seq(Atoms) /\ seen \in Seq(IterTokens) /\ TokensCoverSource
      /\ tokens.index \in 0 .. Len(source) /\ tokens.errors \in Seq(Reports(source))
  BY DEF TokensInv
<1>2. next.tag # None
  OBVIOUS
<1>3. tokens' = [index |-> index, previous |-> tokens.current, current |-> token,
                 errors |-> tokens.errors]
  <2>1. tokens' = [tokens EXCEPT !.previous = tokens.current, !.current = token, !.index = index]
    BY <1>2, Zenon DEF ReadToken, TokenIterNext
  <2> HIDE DEF token, index
  <2>. QED  BY <2>1 DEF TokensInv
<1>4. source' = source
  BY DEF ReadToken
<1> HIDE DEF token, index
<1>5. /\ tokens'.index = index /\ tokens'.current = token /\ tokens'.errors = tokens.errors
      /\ tokens' = [index |-> tokens'.index, previous |-> tokens'.previous,
                    current |-> tokens'.current, errors |-> tokens'.errors]
  BY <1>3
<1>6. tokens.index + 1 \in 1 .. Len(source) + 1 /\ Len(source) \in Nat /\ tokens.index \in Nat
  BY <1>1
<1>7. next = TokenAt(source, start, tokens.current.tag) /\ start # 0
  <2>1. NotFound.tag = None
    BY DEF NotFound, Failed
  <2>. QED  BY <1>2, <2>1, Zenon
<1>8. /\ start \in tokens.index + 1 .. Len(source) /\ ~IsSpace(source[start])
      /\ \A k \in tokens.index + 1 .. start - 1 : IsSpace(source[k])
  BY <1>1, <1>6, <1>7, TokensStart, Zenon
<1> HIDE DEF next, start
<1>9. start \in 1 .. Len(source) /\ start \in Nat
  BY <1>6, <1>8
<1>10. Sound(start, next)
  BY <1>1, <1>7, <1>8, <1>9, TokensSound, Zenon
<1>11. /\ next.tag \in AllTags /\ next.value \in Int /\ next.len \in 1 .. Len(source) - start + 1
       /\ GoodToken(source, token)
  BY <1>2, <1>10, Zenon DEF Sound, token
<1>12. token \in IterTokens /\ token.tag = next.tag /\ token.from = start /\ token.len = next.len
  <2>1. next.len \in Nat
    BY <1>6, <1>9, <1>11
  <2>. QED  BY <1>9, <1>11, <2>1 DEF token, IterTokens
<1>13. index \in 0 .. Len(source)
  BY <1>6, <1>9, <1>11 DEF index
<1>14. seen' = Append(seen, token)
  BY <1>2, <1>5, <1>12, Zenon DEF ReadToken
<1>15. /\ seen' \in Seq(IterTokens) /\ Len(seen') = Len(seen) + 1 /\ Len(seen) \in Nat
       /\ seen'[Len(seen) + 1] = token /\ \A i \in 1 .. Len(seen) : seen'[i] = seen[i]
       /\ DOMAIN seen' = 1 .. Len(seen) + 1 /\ DOMAIN seen = 1 .. Len(seen)
  BY <1>1, <1>12, <1>14
<1>16. \A i \in 0 .. Len(seen) : EndOf(seen', i) = EndOf(seen, i)
  <2>1. \A i \in 0 .. Len(seen) : i # 0 => i \in 1 .. Len(seen)
    BY <1>15
  <2>. QED  BY <1>15, <2>1, Zenon DEF EndOf
<1>17. tokens.index = EndOf(seen, Len(seen))
  BY <1>1, Zenon DEF TokensCoverSource
<1>18. ASSUME NEW i \in DOMAIN seen'
       PROVE  /\ GoodToken(source, seen'[i])
              /\ \A k \in EndOf(seen', i - 1) + 1 .. seen'[i].from - 1 : IsSpace(source[k])
  <2>1. CASE i \in 1 .. Len(seen)
    <3>1. i - 1 \in 0 .. Len(seen)
      BY <1>15, <2>1
    <3>2. /\ GoodToken(source, seen[i])
          /\ \A k \in EndOf(seen, i - 1) + 1 .. seen[i].from - 1 : IsSpace(source[k])
      BY <1>1, <1>15, <2>1, Zenon DEF TokensCoverSource
    <3>. QED  BY <1>15, <1>16, <2>1, <3>1, <3>2, Zenon
  <2>2. CASE i = Len(seen) + 1
    <3>1. i - 1 = Len(seen) /\ Len(seen) \in 0 .. Len(seen)
      BY <1>15, <2>2
    <3>2. seen'[i] = token /\ EndOf(seen', i - 1) = tokens.index
      BY <1>15, <1>16, <1>17, <2>2, <3>1, Zenon
    <3>. QED  BY <1>8, <1>11, <1>12, <3>2, Zenon
  <2>. QED  BY <1>15, <2>1, <2>2
<1>19. tokens'.index = EndOf(seen', Len(seen'))
  <2>1. Len(seen') # 0
    BY <1>15
  <2>2. EndOf(seen', Len(seen')) = start + next.len - 1
    BY <1>12, <1>15, <2>1, Zenon DEF EndOf
  <2>. QED  BY <1>5, <2>2, Zenon DEF index
<1>20. tokens'.current.tag # None
  BY <1>2, <1>5, <1>12, Zenon
<1>21. TokensCoverSource'
  BY <1>4, <1>18, <1>19, <1>20, Zenon DEF TokensCoverSource
<1>22. tokens'.index \in 0 .. Len(source') /\ tokens'.current \in IterTokens
       /\ tokens'.errors \in Seq(Reports(source')) /\ source' \in Seq(Atoms)
  BY <1>1, <1>4, <1>5, <1>12, <1>13, Zenon
<1>. QED  BY <1>5, <1>15, <1>21, <1>22, Zenon DEF TokensInv

\* Nothing changes.
LEMMA TokensInvStutters ==
  ASSUME TokensInv, UNCHANGED tokenVars
  PROVE  TokensInv'
BY Zenon DEF TokensInv, tokenVars, TokensCoverSource

\* Every source of any length is covered by the tokens that are read of it.
THEOREM SourcesAreCovered == TokensSpec => []TokensCoverSource
<1>1. TokensInit(Seq(Atoms)) => TokensInv
  BY TokensInvInit
<1>2. TokensInv /\ [ReadToken]_tokenVars => TokensInv'
  BY NoTokenRead, OneTokenRead, TokensInvStutters, Zenon
<1>3. TokensInv => TokensCoverSource
  BY DEF TokensInv
<1>. QED  BY <1>1, <1>2, <1>3, PTL DEF TokensSpec
=============================================================================
