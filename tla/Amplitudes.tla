----------------------------- MODULE Amplitudes -----------------------------
(***************************************************************************)
(* Exact arithmetic for the numbers the simulators compute.  The code works*)
(* with f64 pairs (num_complex::Complex64); at the angles that are         *)
(* multiples of pi/4 every amplitude, probability and Pauli coefficient    *)
(* lies in the ring Z[w], w = exp(i pi/4), divided by a power of sqrt(2).  *)
(* [k |-> k, c |-> <<a, b, c, d>>] stands for                              *)
(*     (a + b w + c w^2 + d w^3) / sqrt(2)^k                               *)
(* and is kept in lowest terms, so that equality of the records is equality*)
(* of the numbers.  Rounding is what this abstraction leaves out.          *)
(***************************************************************************)
EXTENDS Integers, Sequences, FiniteSets, Folds

Nought == <<0, 0, 0, 0>>

\* c * sqrt(2), with sqrt(2) = w - w^3.
TimesRoot2(c) == <<c[2] - c[4], c[1] + c[3], c[2] + c[4], c[3] - c[1]>>

\* Lowest terms: divide by sqrt(2) as long as the coefficients allow it.
Reducible(x) == x.k > 0 /\ (x.c[1] - x.c[3]) % 2 = 0 /\ (x.c[2] - x.c[4]) % 2 = 0

Lowest(k, c) ==
    LET Divided[j \in 0..k] ==
            IF j = 0 THEN [k |-> k, c |-> c]
            ELSE LET x == Divided[j - 1]
                     r == TimesRoot2(x.c)
                 IN  IF ~Reducible(x) THEN x
                     ELSE [k |-> x.k - 1,
                           c |-> <<r[1] \div 2, r[2] \div 2, r[3] \div 2, r[4] \div 2>>]
    IN  IF c = Nought THEN [k |-> 0, c |-> c] ELSE Divided[k]

Int2Amp(n) == [k |-> 0, c |-> <<n, 0, 0, 0>>]
Zero == Int2Amp(0)
One  == Int2Amp(1)
ISqrt2 == [k |-> 1, c |-> <<1, 0, 0, 0>>]

\* exp(i m pi/4), for any integer m.
Ei(m) ==
    LET At(j) == IF m % 8 = j THEN 1 ELSE IF m % 8 = j + 4 THEN -1 ELSE 0
    IN  [k |-> 0, c |-> <<At(0), At(1), At(2), At(3)>>]
ImUnit == Ei(2)

\* n / 2^j
Dyadic(n, j) == Lowest(2 * j, <<n, 0, 0, 0>>)

\* Sum, opposite, conjugate and product of polynomials, with w^4 = -1.
QAdd(c, d) == <<c[1] + d[1], c[2] + d[2], c[3] + d[3], c[4] + d[4]>>
QNeg(c) == <<-c[1], -c[2], -c[3], -c[4]>>
QConj(c) == <<c[1], -c[4], -c[3], -c[2]>>
QMul(p, q) ==
    <<p[1]*q[1] - p[2]*q[4] - p[3]*q[3] - p[4]*q[2],
      p[1]*q[2] + p[2]*q[1] - p[3]*q[4] - p[4]*q[3],
      p[1]*q[3] + p[2]*q[2] + p[3]*q[1] - p[4]*q[4],
      p[1]*q[4] + p[2]*q[3] + p[3]*q[2] + p[4]*q[1]>>

Neg(x) == [k |-> x.k, c |-> QNeg(x.c)]
Conj(x) == [k |-> x.k, c |-> QConj(x.c)]

\* c * sqrt(2)^n.
Raise(c, n) ==
    LET C[j \in 0..n] == IF j = 0 THEN c ELSE TimesRoot2(C[j - 1])
    IN  C[n]

\* The coefficients of x over sqrt(2)^k, k >= x.k.
Over(x, k) == Raise(x.c, k - x.k)

\* The sum over a common power of sqrt(2).
SumAt(x, y, k) == Lowest(k, QAdd(Over(x, k), Over(y, k)))

Plus(x, y) ==
    IF x = Zero THEN y
    ELSE IF y = Zero THEN x
    ELSE SumAt(x, y, IF x.k > y.k THEN x.k ELSE y.k)

Minus(x, y) == Plus(x, Neg(y))

Times(x, y) ==
    IF x = One THEN y
    ELSE IF y = One THEN x
    ELSE Lowest(x.k + y.k, QMul(x.c, y.c))

Scale(x, n) == Times(x, Int2Amp(n))

\* cos and sin of m pi/4.
Cos(m) == Times(Plus(Ei(m), Ei(-m)), Dyadic(1, 1))
Sin(m) == Times(Minus(Ei(m), Ei(-m)), Times(Ei(-2), Dyadic(1, 1)))

\* |x|^2, a real number.
Norm2(x) == Times(x, Conj(x))

IsReal(x) == Conj(x) = x

\* A real number is (a + b sqrt(2)) / sqrt(2)^k: its sign, exactly.
NonNegative(x) ==
    LET a == x.c[1]
        b == x.c[2]
    IN  IF a >= 0 /\ b >= 0 THEN TRUE
        ELSE IF a <= 0 /\ b <= 0 THEN a = 0 /\ b = 0
        ELSE IF a > 0 THEN a * a >= 2 * b * b
        ELSE 2 * b * b >= a * a

AtMost(x, y) == NonNegative(Minus(y, x))

\* |x| of a number that is real or i times a real number.
Modulus(x) ==
    LET r == IF IsReal(x) THEN x ELSE Times(x, ImUnit)
    IN  IF NonNegative(r) THEN r ELSE Neg(r)

\* The sum of f over the finite set S.
SumOver(f(_), S) ==
    MapThenFoldSet(Plus, Zero, f, LAMBDA s : CHOOSE x \in s : TRUE, S)
=============================================================================
