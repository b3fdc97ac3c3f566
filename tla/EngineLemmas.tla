---------------------------- MODULE EngineLemmas ----------------------------
(***************************************************************************)
(* What the proofs about the engines share: least elements, recursion and  *)
(* folds; the ring of amplitudes; gates as matrices over pairs of basis    *)
(* states; the parity of finite sets; sums over basis states, by induction *)
(* over the subsets of a finite set, double ones included; the norm of a   *)
(* vector, which the gates keep; the purity of a wire, by the equality     *)
(* case of Cauchy and Schwarz; and the weights of the basis states, as the *)
(* inverse transform of the means of the products of Z.                    *)
(***************************************************************************)
EXTENDS StateVector, TLAPS, FiniteSetTheorems, WellFoundedInduction

-----------------------------------------------------------------------------
(* Natural numbers.                                                        *)

LEMMA LeastElement ==
  ASSUME NEW S \in SUBSET Nat, S # {}
  PROVE  \E m \in S : \A n \in S : m <= n
<1>1. PICK m \in S : \A n \in S : ~(<<n, m>> \in OpToRel(<, Nat))
  BY NatLessThanWellFounded, WFMin
<1>2. \A n \in S : ~(n < m)
  BY <1>1 DEF OpToRel
<1>3. QED
  BY <1>2

\* Induction up to n, for a set: a set that has 0, and the successor of every
\* element below n, has every number up to n.
LEMMA UpToInduction ==
  ASSUME NEW n \in Nat, NEW P, 0 \in P, \A m \in 1..n : m - 1 \in P => m \in P
  PROVE  \A m \in 0..n : m \in P
<1> DEFINE Out == (0..n) \ P
<1>1. SUFFICES ASSUME Out # {} PROVE FALSE
  OBVIOUS
<1>2. PICK m \in Out : \A k \in Out : m <= k
  <2>1. Out \in SUBSET Nat
    OBVIOUS
  <2> HIDE DEF Out
  <2>2. QED
    BY <1>1, <2>1, LeastElement
<1>3. m \in 1..n /\ m - 1 \in 0..n /\ m - 1 \notin Out
  BY <1>2
<1>4. QED
  BY <1>2, <1>3

\* What one step of a recursion on 1..n makes of a value in V.
Stepper(step, n, V) == step \in [(1..n) \X V -> V]

\* f is the function that the recursion defines.
Solves(f, n, V, base, step) ==
    /\ f \in [0..n -> V] /\ f[0] = base
    /\ \A m \in 1..n : f[m - 1] \in V /\ f[m] = step[<<m, f[m - 1]>>]

\* A recursion whose steps stay in V has a solution, in V throughout.
LEMMA Recursion ==
  ASSUME NEW n \in Nat, NEW V, NEW base, base \in V, NEW step, Stepper(step, n, V)
  PROVE  \E f : Solves(f, n, V, base, step)
<1> DEFINE P == {k \in 0..n : \E f : Solves(f, k, V, base, step)}
<1>1. 0 \in P
  <2>1. Solves([m \in 0..0 |-> base], 0, V, base, step)
    BY DEF Solves
  <2>2. QED
    BY <2>1
<1>2. ASSUME NEW m \in 1..n, m - 1 \in P
      PROVE  m \in P
  <2>1. PICK f : Solves(f, m - 1, V, base, step)
    BY <1>2
  <2> DEFINE g == [j \in 0..m |-> IF j = m THEN step[<<m, f[m - 1]>>] ELSE f[j]]
  <2>2. f[m - 1] \in V
    BY <2>1 DEF Solves
  <2>3. step[<<m, f[m - 1]>>] \in V
    BY <2>2 DEF Stepper
  <2>4. g \in [0..m -> V] /\ g[0] = base
    BY <2>1, <2>3 DEF Solves
  <2>5. ASSUME NEW j \in 1..m PROVE g[j - 1] \in V /\ g[j] = step[<<j, g[j - 1]>>]
    <3>1. j - 1 \in 0..m /\ j - 1 # m /\ g[j - 1] = f[j - 1]
      OBVIOUS
    <3>2. CASE j = m
      BY <2>2, <3>1, <3>2
    <3>3. CASE j # m
      <4>1. j \in 1..(m - 1)
        BY <3>3
      <4>2. QED
        BY <2>1, <3>1, <3>3, <4>1 DEF Solves
    <3>4. QED
      BY <3>2, <3>3
  <2>6. Solves(g, m, V, base, step)
    BY <2>4, <2>5 DEF Solves
  <2>7. QED
    BY <2>6
<1>3. n \in P
  <2> HIDE DEF P
  <2>1. QED
    BY <1>1, <1>2, UpToInduction
<1>4. QED
  BY <1>3

LEMMA RecursionFunction ==
  ASSUME NEW n \in Nat, NEW V, NEW base, base \in V, NEW step, Stepper(step, n, V)
  PROVE  \E f : /\ f \in [0..n -> V]
                /\ f = [k \in 0..n |-> IF k = 0 THEN base ELSE step[<<k, f[k - 1]>>]]
<1>1. PICK f : Solves(f, n, V, base, step)
  BY Recursion
<1>2. f \in [0..n -> V] /\ f[0] = base /\ \A m \in 1..n : f[m] = step[<<m, f[m - 1]>>]
  BY <1>1 DEF Solves
<1>3. \A k \in 0..n : f[k] = IF k = 0 THEN base ELSE step[<<k, f[k - 1]>>]
  BY <1>2
<1>4. f = [k \in 0..n |-> IF k = 0 THEN base ELSE step[<<k, f[k - 1]>>]]
  BY <1>2, <1>3
<1>5. QED
  BY <1>2, <1>4

LEMMA StaysIn ==
  ASSUME NEW n \in Nat, NEW V, NEW g, g[0] \in V,
         \A k \in 1..n : g[k - 1] \in V => g[k] \in V
  PROVE  g[n] \in V
<1> DEFINE P == {m \in 0..n : g[m] \in V}
<1>1. 0 \in P /\ \A m \in 1..n : m - 1 \in P => m \in P
  OBVIOUS
<1> HIDE DEF P
<1>2. n \in P
  BY <1>1, UpToInduction
<1>3. QED
  BY <1>2 DEF P

-----------------------------------------------------------------------------
(* The ring of amplitudes: the laws of arithmetic hold as equations, since *)
(* a number has one normal form.                                           *)

Quads == Int \X Int \X Int \X Int

\* The numbers in lowest terms.
Amps == {x \in [k : Nat, c : Quads] : ~Reducible(x)}

\* z is the number with the coefficients c over sqrt(2)^K, in lowest terms.
Is(z, K, c) == z \in Amps /\ z.k <= K /\ Over(z, K) = c

LEMMA QuadParts ==
  ASSUME NEW c \in Quads
  PROVE  c = <<c[1], c[2], c[3], c[4]>> /\ c[1] \in Int /\ c[2] \in Int /\ c[3] \in Int /\ c[4] \in Int
BY DEF Quads

LEMMA QuadMake ==
  ASSUME NEW a \in Int, NEW b \in Int, NEW c \in Int, NEW d \in Int
  PROVE  <<a, b, c, d>> \in Quads
BY DEF Quads

LEMMA QuadType ==
  ASSUME NEW c \in Quads, NEW d \in Quads
  PROVE  /\ QAdd(c, d) \in Quads /\ QNeg(c) \in Quads /\ QConj(c) \in Quads
         /\ QMul(c, d) \in Quads /\ TimesRoot2(c) \in Quads
<1> USE QuadParts
<1>1. QAdd(c, d) \in Quads
  BY QuadMake DEF QAdd
<1>2. QNeg(c) \in Quads
  BY QuadMake DEF QNeg
<1>3. QConj(c) \in Quads
  BY QuadMake DEF QConj
<1>4. QMul(c, d) \in Quads
  <2>1. \A x, y \in Int : x*y \in Int /\ x + y \in Int /\ x - y \in Int
    OBVIOUS
  <2>2. /\ c[1] \in Int /\ c[2] \in Int /\ c[3] \in Int /\ c[4] \in Int
        /\ d[1] \in Int /\ d[2] \in Int /\ d[3] \in Int /\ d[4] \in Int
    OBVIOUS
  <2>3. \A n \in 1..4 : QMul(c, d)[n] \in Int
    BY <2>1, <2>2 DEF QMul
  <2>4. QMul(c, d) = <<QMul(c, d)[1], QMul(c, d)[2], QMul(c, d)[3], QMul(c, d)[4]>>
    BY DEF QMul
  <2>5. QED
    BY <2>3, <2>4, QuadMake
<1>5. TimesRoot2(c) \in Quads
  BY QuadMake DEF TimesRoot2
<1>6. QED
  BY <1>1, <1>2, <1>3, <1>4, <1>5

\* sqrt(2) is a number of the ring: multiplication by it passes through.
LEMMA RootThrough ==
  ASSUME NEW c \in Quads, NEW d \in Quads
  PROVE  /\ TimesRoot2(QAdd(c, d)) = QAdd(TimesRoot2(c), TimesRoot2(d))
         /\ TimesRoot2(QMul(c, d)) = QMul(TimesRoot2(c), d)
         /\ TimesRoot2(QNeg(c)) = QNeg(TimesRoot2(c))
         /\ TimesRoot2(QConj(c)) = QConj(TimesRoot2(c))
         /\ TimesRoot2(TimesRoot2(c)) = QAdd(c, c)
         /\ TimesRoot2(Nought) = Nought
<1> USE QuadParts
<1>1. TimesRoot2(QAdd(c, d)) = QAdd(TimesRoot2(c), TimesRoot2(d))
  BY DEF TimesRoot2, QAdd
<1>2. TimesRoot2(QMul(c, d)) = QMul(TimesRoot2(c), d)
  BY DEF TimesRoot2, QMul
<1>3. TimesRoot2(QNeg(c)) = QNeg(TimesRoot2(c))
  BY DEF TimesRoot2, QNeg
<1>4. TimesRoot2(QConj(c)) = QConj(TimesRoot2(c))
  BY DEF TimesRoot2, QConj
<1>5. TimesRoot2(TimesRoot2(c)) = QAdd(c, c)
  BY DEF TimesRoot2, QAdd
<1>6. TimesRoot2(Nought) = Nought
  BY DEF TimesRoot2, Nought
<1>7. QED
  BY <1>1, <1>2, <1>3, <1>4, <1>5, <1>6

LEMMA RootInjective ==
  ASSUME NEW c \in Quads, NEW d \in Quads, TimesRoot2(c) = TimesRoot2(d)
  PROVE  c = d
<1>1. QAdd(c, c) = QAdd(d, d)
  BY RootThrough
<1>2. QAdd(c, c)[1] = QAdd(d, d)[1] /\ QAdd(c, c)[2] = QAdd(d, d)[2]
      /\ QAdd(c, c)[3] = QAdd(d, d)[3] /\ QAdd(c, c)[4] = QAdd(d, d)[4]
  BY <1>1
<1>3. /\ c[1] + c[1] = d[1] + d[1] /\ c[2] + c[2] = d[2] + d[2]
       /\ c[3] + c[3] = d[3] + d[3] /\ c[4] + c[4] = d[4] + d[4]
  BY <1>2 DEF QAdd
<1>4. \A x, y \in Int : x + x = y + y => x = y
  OBVIOUS
<1>5. /\ c[1] \in Int /\ c[2] \in Int /\ c[3] \in Int /\ c[4] \in Int /\ c = <<c[1], c[2], c[3], c[4]>>
      /\ d[1] \in Int /\ d[2] \in Int /\ d[3] \in Int /\ d[4] \in Int /\ d = <<d[1], d[2], d[3], d[4]>>
  BY QuadParts
<1>6. c[1] = d[1] /\ c[2] = d[2] /\ c[3] = d[3] /\ c[4] = d[4]
  BY <1>3, <1>4, <1>5
<1>7. QED
  BY <1>5, <1>6

LEMMA QuadLaws ==
  ASSUME NEW c \in Quads, NEW d \in Quads, NEW e \in Quads
  PROVE  /\ QAdd(c, d) = QAdd(d, c) /\ QAdd(QAdd(c, d), e) = QAdd(c, QAdd(d, e))
         /\ QMul(c, d) = QMul(d, c) /\ QMul(QMul(c, d), e) = QMul(c, QMul(d, e))
         /\ QMul(c, QAdd(d, e)) = QAdd(QMul(c, d), QMul(c, e))
         /\ QAdd(c, Nought) = c /\ QAdd(Nought, c) = c
         /\ QMul(<<1, 0, 0, 0>>, c) = c /\ QMul(Nought, c) = Nought
         /\ QAdd(c, QNeg(c)) = Nought /\ QMul(QNeg(c), d) = QNeg(QMul(c, d))
         /\ QNeg(QAdd(c, d)) = QAdd(QNeg(c), QNeg(d)) /\ QNeg(QNeg(c)) = c
         /\ QConj(QAdd(c, d)) = QAdd(QConj(c), QConj(d))
         /\ QConj(QMul(c, d)) = QMul(QConj(c), QConj(d))
<1> DEFINE c1 == c[1] c2 == c[2] c3 == c[3] c4 == c[4]
           d1 == d[1] d2 == d[2] d3 == d[3] d4 == d[4]
           e1 == e[1] e2 == e[2] e3 == e[3] e4 == e[4]
<1>1. /\ c = <<c1, c2, c3, c4>> /\ d = <<d1, d2, d3, d4>> /\ e = <<e1, e2, e3, e4>>
      /\ c1 \in Int /\ c2 \in Int /\ c3 \in Int /\ c4 \in Int
      /\ d1 \in Int /\ d2 \in Int /\ d3 \in Int /\ d4 \in Int
      /\ e1 \in Int /\ e2 \in Int /\ e3 \in Int /\ e4 \in Int
  BY QuadParts
<1> HIDE DEF c1, c2, c3, c4, d1, d2, d3, d4, e1, e2, e3, e4
<1>2. QAdd(c, d) = QAdd(d, c) /\ QAdd(QAdd(c, d), e) = QAdd(c, QAdd(d, e))
  BY <1>1 DEF QAdd
<1>3. QMul(c, d) = QMul(d, c)
  BY <1>1 DEF QMul
<1>4. QMul(QMul(c, d), e) = QMul(c, QMul(d, e))
  BY <1>1 DEF QMul
<1>5. QMul(c, QAdd(d, e)) = QAdd(QMul(c, d), QMul(c, e))
  BY <1>1 DEF QMul, QAdd
<1>6. QAdd(c, Nought) = c /\ QAdd(Nought, c) = c /\ QAdd(c, QNeg(c)) = Nought
  BY <1>1 DEF QAdd, QNeg, Nought
<1>7. QMul(<<1, 0, 0, 0>>, c) = c /\ QMul(Nought, c) = Nought
  BY <1>1 DEF QMul, Nought
<1>8. QMul(QNeg(c), d) = QNeg(QMul(c, d)) /\ QNeg(QNeg(c)) = c
  BY <1>1 DEF QMul, QNeg
<1>9. QNeg(QAdd(c, d)) = QAdd(QNeg(c), QNeg(d))
  BY <1>1 DEF QAdd, QNeg
<1>10. QConj(QAdd(c, d)) = QAdd(QConj(c), QConj(d))
  BY <1>1 DEF QAdd, QConj
<1>11. QConj(QMul(c, d)) = QMul(QConj(c), QConj(d))
  BY <1>1 DEF QMul, QConj
<1>12. QED
  BY <1>2, <1>3, <1>4, <1>5, <1>6, <1>7, <1>8, <1>9, <1>10, <1>11

\* c * sqrt(2)^n, step by step.
LEMMA RaiseSteps ==
  ASSUME NEW c \in Quads
  PROVE  /\ Raise(c, 0) = c
         /\ \A n \in Nat : Raise(c, n) \in Quads /\ Raise(c, n + 1) = TimesRoot2(Raise(c, n))
<1>1. ASSUME NEW n \in Nat
      PROVE  \E f : /\ f \in [0..n -> Quads]
                    /\ f = [j \in 0..n |-> IF j = 0 THEN c ELSE TimesRoot2(f[j - 1])]
  <2> DEFINE step == [p \in (1..n) \X Quads |-> TimesRoot2(p[2])]
  <2>1. Stepper(step, n, Quads)
    BY QuadType DEF Stepper
  <2>2. \A m \in 1..n, d \in Quads : step[<<m, d>>] = TimesRoot2(d)
    OBVIOUS
  <2> HIDE DEF step
  <2>3. PICK f : Solves(f, n, Quads, c, step)
    BY <2>1, Recursion
  <2>4. f \in [0..n -> Quads] /\ f[0] = c /\ \A m \in 1..n : f[m] = TimesRoot2(f[m - 1])
    BY <2>2, <2>3 DEF Solves
  <2>5. \A j \in 0..n : f[j] = IF j = 0 THEN c ELSE TimesRoot2(f[j - 1])
    BY <2>4
  <2>6. f = [j \in 0..n |-> IF j = 0 THEN c ELSE TimesRoot2(f[j - 1])]
    BY <2>4, <2>5
  <2>7. QED
    BY <2>4, <2>6
<1>2. ASSUME NEW n \in Nat
      PROVE  \E f : /\ f \in [0..n -> Quads] /\ Raise(c, n) = f[n] /\ f[0] = c
                    /\ \A j \in 1..n : f[j] = TimesRoot2(f[j - 1])
  <2> DEFINE C[j \in 0..n] == IF j = 0 THEN c ELSE TimesRoot2(C[j - 1])
  <2>1. Raise(c, n) = C[n]
    BY DEF Raise
  <2>2. C = [j \in 0..n |-> IF j = 0 THEN c ELSE TimesRoot2(C[j - 1])]
    BY <1>1
  <2> HIDE DEF C
  <2>3. C[0] = c /\ \A j \in 1..n : C[j] = TimesRoot2(C[j - 1])
    BY <2>2
  <2>4. \A k \in 0..n : C[k] \in Quads
    <3> DEFINE P == {k \in 0..n : C[k] \in Quads}
    <3>1. 0 \in P
      BY <2>3
    <3>2. \A m \in 1..n : m - 1 \in P => m \in P
      BY <2>3, QuadType
    <3> HIDE DEF P
    <3>3. \A m \in 0..n : m \in P
      BY <3>1, <3>2, UpToInduction
    <3>4. QED
      BY <3>3 DEF P
  <2>5. C \in [0..n -> Quads]
    BY <2>2, <2>4
  <2>6. QED
    BY <2>1, <2>3, <2>5
<1>3. Raise(c, 0) = c
  BY <1>2
<1>4. ASSUME NEW n \in Nat
      PROVE  Raise(c, n) \in Quads /\ Raise(c, n + 1) = TimesRoot2(Raise(c, n))
  <2>1. PICK f : /\ f \in [0..n -> Quads] /\ Raise(c, n) = f[n] /\ f[0] = c
                 /\ \A j \in 1..n : f[j] = TimesRoot2(f[j - 1])
    BY <1>2
  <2>2. PICK g : /\ g \in [0..(n + 1) -> Quads] /\ Raise(c, n + 1) = g[n + 1] /\ g[0] = c
                 /\ \A j \in 1..(n + 1) : g[j] = TimesRoot2(g[j - 1])
    <3>1. n + 1 \in Nat
      OBVIOUS
    <3>2. QED
      BY <1>2, <3>1
  <2> DEFINE P == {j \in 0..n : f[j] = g[j]}
  <2>3. 0 \in P
    BY <2>1, <2>2
  <2>4. \A m \in 1..n : m - 1 \in P => m \in P
    BY <2>1, <2>2
  <2>5. n \in P
    <3> HIDE DEF P
    <3>1. QED
      BY <2>3, <2>4, UpToInduction
  <2>6. g[n + 1] = TimesRoot2(g[n])
    BY <2>2
  <2>7. QED
    BY <2>1, <2>2, <2>5, <2>6
<1>5. QED
  BY <1>3, <1>4

\* Induction on a natural number, for a set.
LEMMA NatSet ==
  ASSUME NEW P, 0 \in P, \A n \in Nat : n \in P => n + 1 \in P
  PROVE  \A n \in Nat : n \in P
<1> TAKE n \in Nat
<1>1. \A m \in 1..n : m - 1 \in P => m \in P
  OBVIOUS
<1>2. QED
  BY <1>1, UpToInduction

LEMMA RaiseThrough ==
  ASSUME NEW c \in Quads, NEW d \in Quads, NEW n \in Nat
  PROVE  /\ Raise(QAdd(c, d), n) = QAdd(Raise(c, n), Raise(d, n))
         /\ Raise(QMul(c, d), n) = QMul(Raise(c, n), d)
         /\ Raise(QNeg(c), n) = QNeg(Raise(c, n))
         /\ Raise(QConj(c), n) = QConj(Raise(c, n))
         /\ Raise(TimesRoot2(c), n) = Raise(c, n + 1)
         /\ Raise(Nought, n) = Nought
         /\ Raise(c, n) = Raise(d, n) => c = d
<1> DEFINE Holds(k) == /\ Raise(QAdd(c, d), k) = QAdd(Raise(c, k), Raise(d, k))
                       /\ Raise(QMul(c, d), k) = QMul(Raise(c, k), d)
                       /\ Raise(QNeg(c), k) = QNeg(Raise(c, k))
                       /\ Raise(QConj(c), k) = QConj(Raise(c, k))
                       /\ Raise(TimesRoot2(c), k) = Raise(c, k + 1)
                       /\ Raise(Nought, k) = Nought
                       /\ Raise(c, k) = Raise(d, k) => c = d
           P == {k \in Nat : Holds(k)}
<1>1. /\ Nought \in Quads /\ QAdd(c, d) \in Quads /\ QMul(c, d) \in Quads
      /\ QNeg(c) \in Quads /\ QConj(c) \in Quads /\ TimesRoot2(c) \in Quads
  BY QuadType, QuadMake DEF Nought
<1>2. Holds(0)
  BY <1>1, RaiseSteps
<1>3. ASSUME NEW k \in Nat, Holds(k)
      PROVE  Holds(k + 1)
  <2>1. Raise(c, k) \in Quads /\ Raise(d, k) \in Quads /\ k + 1 \in Nat
    BY RaiseSteps
  <2>2. /\ Raise(c, k + 1) = TimesRoot2(Raise(c, k)) /\ Raise(d, k + 1) = TimesRoot2(Raise(d, k))
        /\ Raise(c, (k + 1) + 1) = TimesRoot2(Raise(c, k + 1))
    BY <2>1, RaiseSteps
  <2>3. Raise(QAdd(c, d), k + 1) = QAdd(Raise(c, k + 1), Raise(d, k + 1))
    BY <1>1, <1>3, <2>1, <2>2, RaiseSteps, RootThrough
  <2>4. Raise(QMul(c, d), k + 1) = QMul(Raise(c, k + 1), d)
    BY <1>1, <1>3, <2>1, <2>2, RaiseSteps, RootThrough
  <2>5. Raise(QNeg(c), k + 1) = QNeg(Raise(c, k + 1)) /\ Raise(QConj(c), k + 1) = QConj(Raise(c, k + 1))
    BY <1>1, <1>3, <2>1, <2>2, RaiseSteps, RootThrough
  <2>6. Raise(TimesRoot2(c), k + 1) = Raise(c, (k + 1) + 1) /\ Raise(Nought, k + 1) = Nought
    BY <1>1, <1>3, <2>1, <2>2, RaiseSteps, RootThrough
  <2>7. Raise(c, k + 1) = Raise(d, k + 1) => c = d
    BY <1>3, <2>1, <2>2, RootInjective
  <2>8. QED
    BY <2>3, <2>4, <2>5, <2>6, <2>7
<1> HIDE DEF Holds
<1>4. \A k \in Nat : k \in P
  <2>1. 0 \in P /\ \A k \in Nat : k \in P => k + 1 \in P
    BY <1>2, <1>3
  <2> HIDE DEF P
  <2>2. QED
    BY <2>1, NatSet
<1>5. QED
  BY <1>4 DEF Holds

LEMMA RaiseMore ==
  ASSUME NEW c \in Quads, NEW m \in Nat, NEW n \in Nat
  PROVE  Raise(Raise(c, m), n) = Raise(c, m + n)
<1> DEFINE P == {k \in Nat : Raise(Raise(c, m), k) = Raise(c, m + k)}
<1>1. Raise(c, m) \in Quads
  BY RaiseSteps
<1>2. 0 \in P
  BY <1>1, RaiseSteps
<1>3. ASSUME NEW k \in Nat, k \in P
      PROVE  k + 1 \in P
  <2>1. m + k \in Nat /\ m + (k + 1) = (m + k) + 1
    OBVIOUS
  <2>2. Raise(c, (m + k) + 1) = TimesRoot2(Raise(c, m + k))
    BY <2>1, RaiseSteps
  <2>3. Raise(Raise(c, m), k + 1) = TimesRoot2(Raise(Raise(c, m), k))
    BY <1>1, RaiseSteps
  <2>4. QED
    BY <1>3, <2>1, <2>2, <2>3
<1> HIDE DEF P
<1>4. n \in P
  BY <1>2, <1>3, NatSet
<1>5. QED
  BY <1>4 DEF P

\* Two numbers in lowest terms with the same coefficients over some power are
\* the same number: what was raised at the end can be divided again.
LEMMA IsUnique ==
  ASSUME NEW x, NEW y, NEW K \in Nat, NEW c, Is(x, K, c), Is(y, K, c)
  PROVE  x = y
<1>1. SUFFICES ASSUME NEW u, NEW v, Is(u, K, c), Is(v, K, c), u.k <= v.k
               PROVE  u = v
  <2>1. x.k \in Nat /\ y.k \in Nat
    BY DEF Is, Amps
  <2>2. x.k <= y.k \/ y.k <= x.k
    BY <2>1
  <2>3. QED
    BY <1>1, <2>2
<1>2. /\ u.k \in Nat /\ v.k \in Nat /\ u.k <= K /\ v.k <= K /\ u.c \in Quads /\ v.c \in Quads
      /\ Raise(u.c, K - u.k) = Raise(v.c, K - v.k)
      /\ ~Reducible(v) /\ u = [k |-> u.k, c |-> u.c] /\ v = [k |-> v.k, c |-> v.c]
  BY <1>1 DEF Is, Amps, Over
<1> DEFINE m == v.k - u.k
           n == K - v.k
           w == v.c
<1>3. m \in Nat /\ n \in Nat /\ m + n = K - u.k /\ w \in Quads
  BY <1>1, <1>2
<1>4. Raise(u.c, m) = w
  <2>1. Raise(u.c, m) \in Quads
    BY <1>2, <1>3, RaiseSteps
  <2>2. Raise(Raise(u.c, m), n) = Raise(w, n)
    BY <1>2, <1>3, RaiseMore
  <2>3. QED
    BY <1>3, <2>1, <2>2, RaiseThrough
<1>5. m = 0
  <2>1. SUFFICES ASSUME m # 0 PROVE FALSE
    OBVIOUS
  <2>2. m - 1 \in Nat /\ (m - 1) + 1 = m
    BY <1>3, <2>1
  <2> DEFINE d == Raise(u.c, m - 1)
  <2>3. d \in Quads
    BY <1>2, <2>2, RaiseSteps
  <2>4. w = TimesRoot2(d)
    BY <1>2, <1>4, <2>2, RaiseSteps
  <2> HIDE DEF d
  <2>5. d[1] \in Int /\ d[2] \in Int /\ d[3] \in Int /\ d[4] \in Int
    BY <2>3, QuadParts
  <2>6. w[1] - w[3] = -2 * d[4] /\ w[2] - w[4] = 2 * d[1]
    BY <2>4, <2>5 DEF TimesRoot2
  <2>7. (w[1] - w[3]) % 2 = 0 /\ (w[2] - w[4]) % 2 = 0
    BY <2>5, <2>6
  <2>8. v.k > 0
    BY <1>2, <1>3, <2>1
  <2>9. QED
    BY <1>2, <2>7, <2>8 DEF Reducible
<1>6. u.k = v.k
  BY <1>2, <1>5
<1>7. u.c = v.c
  <2>1. Raise(u.c, 0) = u.c
    BY <1>2, RaiseSteps
  <2>2. QED
    BY <1>4, <1>5, <2>1
<1>8. QED
  BY <1>2, <1>6, <1>7

\* One division by sqrt(2).
LEMMA HalvesBack ==
  ASSUME NEW c \in Quads, (c[1] - c[3]) % 2 = 0, (c[2] - c[4]) % 2 = 0,
         NEW r, r = TimesRoot2(c)
  PROVE  /\ <<r[1] \div 2, r[2] \div 2, r[3] \div 2, r[4] \div 2>> \in Quads
         /\ TimesRoot2(<<r[1] \div 2, r[2] \div 2, r[3] \div 2, r[4] \div 2>>) = c
<1> DEFINE c1 == c[1] c2 == c[2] c3 == c[3] c4 == c[4]
<1>1. /\ c = <<c1, c2, c3, c4>>
      /\ c1 \in Int /\ c2 \in Int /\ c3 \in Int /\ c4 \in Int
      /\ (c1 - c3) % 2 = 0 /\ (c2 - c4) % 2 = 0
  BY QuadParts
<1> HIDE DEF c1, c2, c3, c4
<1>2. PICK m \in Int, n \in Int : c1 - c3 = 2 * m /\ c2 - c4 = 2 * n
  <2>1. \A x \in Int : x % 2 = 0 => x \div 2 \in Int /\ x = 2 * (x \div 2)
    OBVIOUS
  <2>2. c1 - c3 \in Int /\ c2 - c4 \in Int
    BY <1>1
  <2>3. QED
    BY <1>1, <2>1, <2>2
<1>3. c1 = c3 + 2 * m /\ c2 = c4 + 2 * n
  BY <1>1, <1>2
<1>4. r = <<2 * n, 2 * (c3 + m), 2 * (c4 + n), -2 * m>>
  BY <1>1, <1>3 DEF TimesRoot2
<1>5. r[1] \div 2 = n /\ r[2] \div 2 = c3 + m /\ r[3] \div 2 = c4 + n /\ r[4] \div 2 = -m
  BY <1>1, <1>4
<1>6. <<n, c3 + m, c4 + n, -m>> \in Quads
  BY <1>1, QuadMake
<1>7. TimesRoot2(<<n, c3 + m, c4 + n, -m>>) = <<c1, c2, c3, c4>>
  BY <1>1, <1>3 DEF TimesRoot2
<1>8. QED
  BY <1>1, <1>5, <1>6, <1>7

\* Lowest terms are lowest, and the same number.
LEMMA LowestIs ==
  ASSUME NEW k \in Nat, NEW c \in Quads
  PROVE  Is(Lowest(k, c), k, c)
<1> DEFINE V == [k : Nat, c : Quads]
           start == [k |-> k, c |-> c]
           Body(x) == LET r == TimesRoot2(x.c)
                      IN  IF ~Reducible(x) THEN x
                          ELSE [k |-> x.k - 1,
                                c |-> <<r[1] \div 2, r[2] \div 2, r[3] \div 2, r[4] \div 2>>]
           Good(x, j) == /\ x \in V /\ x.k <= k /\ Over(x, k) = c
                         /\ Reducible(x) => x.k = k - j
           D[j \in 0..k] == IF j = 0 THEN start ELSE Body(D[j - 1])
<1>1. Lowest(k, c) = IF c = Nought THEN [k |-> 0, c |-> c] ELSE D[k]
  BY DEF Lowest
<1>2. ASSUME NEW x \in V
      PROVE  /\ Body(x) \in V
             /\ Reducible(x) => Body(x).k = x.k - 1 /\ TimesRoot2(Body(x).c) = x.c
             /\ ~Reducible(x) => Body(x) = x
  <2>1. CASE ~Reducible(x)
    BY <2>1
  <2>2. CASE Reducible(x)
    <3> DEFINE r == TimesRoot2(x.c)
               h == <<r[1] \div 2, r[2] \div 2, r[3] \div 2, r[4] \div 2>>
    <3>1. h \in Quads /\ TimesRoot2(h) = x.c
      BY <2>2, HalvesBack DEF Reducible
    <3>2. x.k - 1 \in Nat
      BY <2>2 DEF Reducible
    <3>3. Body(x) = [k |-> x.k - 1, c |-> h]
      BY <2>2
    <3> HIDE DEF h, Body
    <3>4. QED
      BY <2>2, <3>1, <3>2, <3>3
  <2>3. QED
    BY <2>1, <2>2
<1>3. start \in V /\ Good(start, 0)
  BY RaiseSteps DEF Over
<1>4. ASSUME NEW x, NEW j \in 1..k, Good(x, j - 1)
      PROVE  Good(Body(x), j)
  <2>1. CASE ~Reducible(x)
    BY <1>2, <1>4, <2>1
  <2>2. CASE Reducible(x)
    <3> DEFINE y == Body(x)
    <3>1. y \in V /\ y.k = x.k - 1 /\ TimesRoot2(y.c) = x.c
      BY <1>2, <1>4, <2>2
    <3> HIDE DEF y, Body
    <3>2. x.k \in Nat /\ y.k \in Nat /\ x.k = k - (j - 1) /\ x.k <= k
      BY <1>4, <2>2, <3>1
    <3>3. k - x.k \in Nat /\ k - y.k = (k - x.k) + 1
      BY <3>1, <3>2
    <3>4. Raise(y.c, (k - x.k) + 1) = Raise(x.c, k - x.k)
      BY <3>1, <3>3, RaiseThrough
    <3>5. Over(y, k) = c
      BY <1>4, <3>3, <3>4 DEF Over
    <3>6. QED
      BY <3>1, <3>2, <3>5 DEF y
  <2>3. QED
    BY <2>1, <2>2
<1>5. D = [j \in 0..k |-> IF j = 0 THEN start ELSE Body(D[j - 1])]
  <2> DEFINE step == [p \in (1..k) \X V |-> Body(p[2])]
  <2> HIDE DEF Body, V, start
  <2>1. Stepper(step, k, V)
    BY <1>2 DEF Stepper
  <2>2. \A m \in 1..k, x \in V : step[<<m, x>>] = Body(x)
    OBVIOUS
  <2> HIDE DEF step
  <2>3. PICK f : Solves(f, k, V, start, step)
    BY <1>3, <2>1, Recursion
  <2>4. f \in [0..k -> V] /\ f[0] = start /\ \A m \in 1..k : f[m] = Body(f[m - 1])
    BY <2>2, <2>3 DEF Solves
  <2>5. \A j \in 0..k : f[j] = IF j = 0 THEN start ELSE Body(f[j - 1])
    BY <2>4
  <2>6. f = [j \in 0..k |-> IF j = 0 THEN start ELSE Body(f[j - 1])]
    BY <2>4, <2>5
  <2>7. QED
    BY <2>6
<1> HIDE DEF D
<1>6. D[0] = start /\ \A j \in 1..k : D[j] = Body(D[j - 1])
  <2> HIDE DEF Body, start
  <2>1. QED
    BY <1>5
<1>7. Good(D[k], k)
  <2> DEFINE P == {j \in 0..k : Good(D[j], j)}
  <2> HIDE DEF Good, Body
  <2>1. 0 \in P
    BY <1>3, <1>6
  <2>2. \A m \in 1..k : m - 1 \in P => m \in P
    BY <1>4, <1>6
  <2> HIDE DEF P
  <2>3. k \in P
    BY <2>1, <2>2, UpToInduction
  <2>4. QED
    BY <2>3 DEF P
<1>8. Is(D[k], k, c)
  <2>1. ~Reducible(D[k])
    BY <1>7 DEF Reducible
  <2>2. QED
    BY <1>7, <2>1 DEF Is, Amps
<1>9. c = Nought => Is([k |-> 0, c |-> c], k, c)
  <2>1. ~Reducible([k |-> 0, c |-> c])
    BY DEF Reducible
  <2>2. c = Nought => Raise(c, k) = c
    BY RaiseThrough
  <2>3. QED
    BY <2>1, <2>2 DEF Is, Amps, Over
<1>10. QED
  BY <1>1, <1>8, <1>9

LEMMA IsSelf ==
  ASSUME NEW x \in Amps
  PROVE  x.k \in Nat /\ x.c \in Quads /\ Is(x, x.k, x.c)
<1>1. x.k \in Nat /\ x.c \in Quads /\ x.k - x.k = 0
  BY DEF Amps
<1>2. QED
  BY <1>1, RaiseSteps DEF Is, Over

\* Over a higher power.
LEMMA IsMore ==
  ASSUME NEW x, NEW K \in Nat, NEW c, Is(x, K, c), NEW n \in Nat
  PROVE  c \in Quads /\ Is(x, K + n, Raise(c, n))
<1>1. x.k \in Nat /\ x.c \in Quads /\ x.k <= K /\ c = Raise(x.c, K - x.k) /\ x \in Amps
  BY DEF Is, Amps, Over
<1>2. K - x.k \in Nat /\ (K + n) - x.k = (K - x.k) + n /\ x.k <= K + n
  BY <1>1
<1>3. Raise(c, n) = Raise(x.c, (K + n) - x.k)
  BY <1>1, <1>2, RaiseMore
<1>4. QED
  BY <1>1, <1>2, <1>3, RaiseSteps DEF Is, Over

LEMMA IsType ==
  ASSUME NEW x, NEW K \in Nat, NEW c, Is(x, K, c)
  PROVE  /\ x \in Amps /\ x.k \in Nat /\ x.c \in Quads /\ x.k <= K
         /\ c \in Quads /\ c = Raise(x.c, K - x.k) /\ K - x.k \in Nat
<1>1. x \in Amps /\ x.k <= K /\ c = Raise(x.c, K - x.k)
  BY DEF Is, Over
<1>2. x.k \in Nat /\ x.c \in Quads
  BY <1>1, IsSelf
<1>3. K - x.k \in Nat
  BY <1>1, <1>2
<1>4. QED
  BY <1>1, <1>2, <1>3, RaiseSteps

LEMMA IsAt ==
  ASSUME NEW x \in Amps, NEW K \in Nat, x.k <= K
  PROVE  Is(x, K, Over(x, K)) /\ Over(x, K) \in Quads
<1>1. Is(x, K, Over(x, K))
  BY DEF Is
<1>2. QED
  BY <1>1, IsMore

\* What the operations compute, in coefficients.
LEMMA PlusIs ==
  ASSUME NEW x, NEW y, NEW K \in Nat, NEW c, NEW d, Is(x, K, c), Is(y, K, d)
  PROVE  Is(Plus(x, y), K, QAdd(c, d))
<1>1. /\ x \in Amps /\ y \in Amps /\ x.k <= K /\ y.k <= K
      /\ x.k \in Nat /\ y.k \in Nat /\ c \in Quads /\ d \in Quads
  BY IsType
<1>2. ASSUME NEW e, Is(Zero, K, e)
      PROVE  e = Nought
  <2>1. Nought \in Quads /\ Zero.k = 0 /\ Zero.c = Nought
    BY QuadMake DEF Zero, Int2Amp, Nought
  <2>2. e = Raise(Nought, K)
    BY <1>2, <2>1 DEF Is, Over
  <2>3. QED
    BY <2>1, <2>2, RaiseThrough
<1>3. CASE x = Zero
  <2>1. QAdd(c, d) = d
    BY <1>1, <1>2, <1>3, QuadLaws
  <2>2. QED
    BY <1>3, <2>1 DEF Plus
<1>4. CASE x # Zero /\ y = Zero
  <2>1. QAdd(c, d) = c
    BY <1>1, <1>2, <1>4, QuadLaws
  <2>2. QED
    BY <1>4, <2>1 DEF Plus
<1>5. CASE x # Zero /\ y # Zero
  <2> DEFINE k == IF x.k > y.k THEN x.k ELSE y.k
             p == Over(x, k)
             q == Over(y, k)
  <2>1. k \in Nat /\ x.k <= k /\ y.k <= k /\ k <= K
    BY <1>1
  <2>2. Plus(x, y) = Lowest(k, QAdd(p, q))
    BY <1>5 DEF Plus, SumAt
  <2> HIDE DEF k
  <2>3. Is(x, k, p) /\ Is(y, k, q) /\ p \in Quads /\ q \in Quads
    BY <1>1, <2>1, IsAt
  <2> DEFINE n == K - k
  <2>4. n \in Nat /\ k + n = K
    BY <2>1
  <2>5. c = Raise(p, n) /\ d = Raise(q, n)
    <3>1. Is(x, K, Raise(p, n)) /\ Is(y, K, Raise(q, n))
      BY <2>1, <2>3, <2>4, IsMore
    <3>2. QED
      BY <3>1 DEF Is
  <2>6. Is(Plus(x, y), k, QAdd(p, q))
    BY <2>1, <2>2, <2>3, LowestIs, QuadType
  <2>7. Is(Plus(x, y), K, Raise(QAdd(p, q), n))
    BY <2>1, <2>4, <2>6, IsMore
  <2> HIDE DEF p, q, n
  <2>8. QED
    BY <2>3, <2>4, <2>5, <2>7, RaiseThrough
<1>6. QED
  BY <1>3, <1>4, <1>5

LEMMA OneIs ==
  /\ One \in Amps /\ Zero \in Amps
  /\ \A K \in Nat : Is(Zero, K, Nought)
  /\ Is(One, 0, <<1, 0, 0, 0>>)
<1>1. <<1, 0, 0, 0>> \in Quads /\ Nought \in Quads
  BY QuadMake DEF Nought
<1>2. One = [k |-> 0, c |-> <<1, 0, 0, 0>>] /\ Zero = [k |-> 0, c |-> Nought]
  BY DEF One, Zero, Int2Amp, Nought
<1>3. One \in Amps /\ Zero \in Amps
  BY <1>1, <1>2 DEF Amps, Reducible
<1>4. Is(Zero, 0, Nought) /\ Is(One, 0, <<1, 0, 0, 0>>)
  BY <1>1, <1>2, <1>3, RaiseSteps DEF Is, Over
<1>5. ASSUME NEW K \in Nat PROVE Is(Zero, K, Nought)
  <2>1. Is(Zero, 0 + K, Raise(Nought, K))
    BY <1>4, IsMore
  <2>2. 0 + K = K /\ Raise(Nought, K) = Nought
    BY <1>1, RaiseThrough
  <2>3. QED
    BY <2>1, <2>2
<1>6. QED
  BY <1>3, <1>4, <1>5

LEMMA TimesIs ==
  ASSUME NEW x, NEW y, NEW K \in Nat, NEW L \in Nat, NEW c, NEW d, Is(x, K, c), Is(y, L, d)
  PROVE  Is(Times(x, y), K + L, QMul(c, d))
<1>1. /\ x \in Amps /\ y \in Amps /\ x.k <= K /\ y.k <= L
      /\ x.k \in Nat /\ y.k \in Nat /\ x.c \in Quads /\ y.c \in Quads /\ c \in Quads /\ d \in Quads
  BY IsType
<1>2. ASSUME NEW z, NEW M \in Nat, NEW n \in Nat, NEW e, NEW o, Is(One, M, o), Is(z, n, e)
      PROVE  Is(z, M + n, QMul(o, e)) /\ QMul(o, e) = QMul(e, o)
  <2>1. o = Raise(<<1, 0, 0, 0>>, M)
    BY <1>2 DEF One, Int2Amp, Is, Over
  <2>2. <<1, 0, 0, 0>> \in Quads /\ e \in Quads /\ o \in Quads
    <3>1. e \in Quads
      BY <1>2, IsType
    <3>2. o \in Quads
      BY <1>2, IsType
    <3>3. QED
      BY <3>1, <3>2, QuadMake
  <2>3. QMul(o, e) = Raise(QMul(<<1, 0, 0, 0>>, e), M)
    BY <2>1, <2>2, RaiseThrough
  <2>4. QMul(o, e) = Raise(e, M)
    BY <2>2, <2>3, QuadLaws
  <2>5. Is(z, M + n, Raise(e, M))
    <3>1. Is(z, n + M, Raise(e, M))
      BY <1>2, IsMore
    <3>2. n + M = M + n
      OBVIOUS
    <3>3. QED
      BY <3>1, <3>2
  <2>6. QED
    BY <2>2, <2>4, <2>5, QuadLaws
<1>3. CASE x = One
  <2>1. Times(x, y) = y
    BY <1>3 DEF Times
  <2>2. QED
    BY <1>2, <1>3, <2>1
<1>4. CASE x # One /\ y = One
  <2>1. Times(x, y) = x
    BY <1>4 DEF Times
  <2>2. K + L = L + K
    OBVIOUS
  <2>3. QED
    BY <1>2, <1>4, <2>1, <2>2
<1>5. CASE x # One /\ y # One
  <2> DEFINE p == x.c
             q == y.c
             m == K - x.k
             n == L - y.k
  <2>1. Times(x, y) = Lowest(x.k + y.k, QMul(p, q))
    BY <1>5 DEF Times
  <2>2. m \in Nat /\ n \in Nat /\ x.k + y.k \in Nat /\ (x.k + y.k) + (m + n) = K + L /\ m + n \in Nat
    BY <1>1
  <2>3. p \in Quads /\ q \in Quads /\ c = Raise(p, m) /\ d = Raise(q, n)
    BY <1>1 DEF Is, Over
  <2> HIDE DEF p, q, m, n
  <2>4. Is(Times(x, y), x.k + y.k, QMul(p, q)) /\ QMul(p, q) \in Quads
    BY <2>1, <2>2, <2>3, LowestIs, QuadType
  <2>5. Is(Times(x, y), K + L, Raise(QMul(p, q), m + n))
    BY <2>2, <2>4, IsMore
  <2>6. Raise(QMul(p, q), m + n) = QMul(c, d)
    <3>1. Raise(QMul(p, q), m) = QMul(c, q)
      BY <2>2, <2>3, RaiseThrough
    <3>2. QMul(c, q) = QMul(q, c) /\ QMul(c, d) = QMul(d, c)
      BY <1>1, <2>3, QuadLaws
    <3>3. Raise(QMul(q, c), n) = QMul(d, c)
      BY <1>1, <2>2, <2>3, RaiseThrough
    <3>4. Raise(Raise(QMul(p, q), m), n) = Raise(QMul(p, q), m + n)
      BY <2>2, <2>4, RaiseMore
    <3>5. QED
      BY <3>1, <3>2, <3>3, <3>4
  <2>7. QED
    BY <2>5, <2>6
<1>6. QED
  BY <1>3, <1>4, <1>5

LEMMA NegIs ==
  ASSUME NEW x, NEW K \in Nat, NEW c, Is(x, K, c)
  PROVE  Is(Neg(x), K, QNeg(c)) /\ Is(Conj(x), K, QConj(c))
<1>1. /\ x \in Amps /\ x.k <= K /\ x.k \in Nat /\ x.c \in Quads /\ ~Reducible(x)
      /\ c = Raise(x.c, K - x.k) /\ K - x.k \in Nat
  BY IsType DEF Amps
<1>2. Neg(x) = [k |-> x.k, c |-> QNeg(x.c)] /\ Conj(x) = [k |-> x.k, c |-> QConj(x.c)]
  BY DEF Neg, Conj, QNeg, QConj
<1> DEFINE p == x.c
<1>3. /\ p[1] \in Int /\ p[2] \in Int /\ p[3] \in Int /\ p[4] \in Int
      /\ QNeg(p) \in Quads /\ QConj(p) \in Quads
  BY <1>1, QuadParts, QuadType
<1> HIDE DEF p
<1>4. \A a, b \in Int : ((-a) - (-b)) % 2 = 0 => (a - b) % 2 = 0
  OBVIOUS
<1>5. \A a, b \in Int : (a - (-b)) % 2 = 0 => (a - b) % 2 = 0
  OBVIOUS
<1>6. \A a, b \in Int : ((-a) - (-b)) % 2 = 0 => (b - a) % 2 = 0
  OBVIOUS
<1>7. ~Reducible(Neg(x))
  <2>1. Reducible(Neg(x)) => Reducible(x)
    BY <1>2, <1>3, <1>4 DEF Reducible, QNeg, p
  <2>2. QED
    BY <1>1, <2>1
<1>8. ~Reducible(Conj(x))
  <2>1. \A a, b \in Int : ((-b) - (-a)) % 2 = 0 => (a - b) % 2 = 0
    OBVIOUS
  <2>2. Reducible(Conj(x)) => Reducible(x)
    BY <1>2, <1>3, <1>5, <2>1 DEF Reducible, QConj, p
  <2>3. QED
    BY <1>1, <2>2
<1>9. Neg(x) \in Amps /\ Conj(x) \in Amps
  BY <1>1, <1>2, <1>3, <1>7, <1>8 DEF Amps, p
<1>10. Over(Neg(x), K) = QNeg(c) /\ Over(Conj(x), K) = QConj(c)
  BY <1>1, <1>2, RaiseThrough DEF Over
<1>11. QED
  BY <1>1, <1>2, <1>9, <1>10 DEF Is

-----------------------------------------------------------------------------
(* The laws.                                                               *)

\* Numbers have coefficients over a common power.
LEMMA Common ==
  ASSUME NEW x \in Amps, NEW y \in Amps, NEW z \in Amps
  PROVE  \E K \in Nat : \E c, d, e \in Quads : Is(x, K, c) /\ Is(y, K, d) /\ Is(z, K, e)
<1> DEFINE K == x.k + (y.k + z.k)
<1>1. K \in Nat /\ x.k <= K /\ y.k <= K /\ z.k <= K
  BY IsSelf
<1> HIDE DEF K
<1>2. QED
  BY <1>1, IsAt

LEMMA RingTypes ==
  ASSUME NEW x \in Amps, NEW y \in Amps
  PROVE  /\ Plus(x, y) \in Amps /\ Times(x, y) \in Amps /\ Neg(x) \in Amps /\ Conj(x) \in Amps
         /\ Minus(x, y) \in Amps
<1>1. PICK K \in Nat, c \in Quads, d \in Quads : Is(x, K, c) /\ Is(y, K, d)
  BY Common
<1>2. Plus(x, y) \in Amps /\ Times(x, y) \in Amps
  BY <1>1, PlusIs, TimesIs DEF Is
<1>3. Neg(x) \in Amps /\ Conj(x) \in Amps /\ Is(Neg(y), K, QNeg(d))
  BY <1>1, NegIs DEF Is
<1>4. Minus(x, y) \in Amps
  BY <1>1, <1>3, PlusIs DEF Minus, Is
<1>5. QED
  BY <1>2, <1>3, <1>4

LEMMA PlusLaws ==
  ASSUME NEW x \in Amps, NEW y \in Amps, NEW z \in Amps
  PROVE  /\ Plus(x, y) = Plus(y, x)
         /\ Plus(Plus(x, y), z) = Plus(x, Plus(y, z))
         /\ Plus(x, Zero) = x /\ Plus(Zero, x) = x
         /\ Plus(x, Neg(x)) = Zero
         /\ Neg(Plus(x, y)) = Plus(Neg(x), Neg(y)) /\ Neg(Neg(x)) = x
<1>1. PICK K \in Nat, c \in Quads, d \in Quads, e \in Quads : Is(x, K, c) /\ Is(y, K, d) /\ Is(z, K, e)
  BY Common
<1>2. /\ Is(Plus(x, y), K, QAdd(c, d)) /\ Is(Plus(y, x), K, QAdd(d, c)) /\ Is(Plus(y, z), K, QAdd(d, e))
      /\ Is(Neg(x), K, QNeg(c)) /\ Is(Neg(y), K, QNeg(d))
  BY <1>1, PlusIs, NegIs
<1>3. Plus(x, y) = Plus(y, x)
  BY <1>1, <1>2, QuadLaws, IsUnique
<1>4. Plus(Plus(x, y), z) = Plus(x, Plus(y, z))
  <2>1. Is(Plus(Plus(x, y), z), K, QAdd(QAdd(c, d), e)) /\ Is(Plus(x, Plus(y, z)), K, QAdd(c, QAdd(d, e)))
    BY <1>1, <1>2, PlusIs
  <2>2. QAdd(QAdd(c, d), e) = QAdd(c, QAdd(d, e))
    BY QuadLaws
  <2>3. QED
    BY <2>1, <2>2, IsUnique
<1>5. Plus(Zero, x) = x
  BY DEF Plus
<1>6. Plus(x, Zero) = x
  BY DEF Plus
<1>7. Plus(x, Neg(x)) = Zero
  <2>1. Is(Plus(x, Neg(x)), K, QAdd(c, QNeg(c))) /\ Is(Zero, K, Nought)
    BY <1>1, <1>2, PlusIs, OneIs
  <2>2. QED
    BY <2>1, QuadLaws, IsUnique
<1>8. Neg(Plus(x, y)) = Plus(Neg(x), Neg(y))
  <2>1. Is(Neg(Plus(x, y)), K, QNeg(QAdd(c, d))) /\ Is(Plus(Neg(x), Neg(y)), K, QAdd(QNeg(c), QNeg(d)))
    BY <1>2, PlusIs, NegIs
  <2>2. QED
    BY <2>1, QuadLaws, IsUnique
<1>9. Neg(Neg(x)) = x
  <2>1. Is(Neg(Neg(x)), K, QNeg(QNeg(c)))
    BY <1>2, NegIs
  <2>2. QED
    BY <1>1, <2>1, QuadLaws, IsUnique
<1>10. QED
  BY <1>3, <1>4, <1>5, <1>6, <1>7, <1>8, <1>9

LEMMA TimesLaws ==
  ASSUME NEW x \in Amps, NEW y \in Amps, NEW z \in Amps
  PROVE  /\ Times(x, y) = Times(y, x)
         /\ Times(Times(x, y), z) = Times(x, Times(y, z))
         /\ Times(x, Plus(y, z)) = Plus(Times(x, y), Times(x, z))
         /\ Times(x, One) = x /\ Times(One, x) = x
         /\ Times(x, Zero) = Zero /\ Times(Zero, x) = Zero
         /\ Times(Neg(x), y) = Neg(Times(x, y)) /\ Times(x, Neg(y)) = Neg(Times(x, y))
<1>1. PICK K \in Nat, c \in Quads, d \in Quads, e \in Quads : Is(x, K, c) /\ Is(y, K, d) /\ Is(z, K, e)
  BY Common
<1> DEFINE L == K + K
           M == L + K
<1>2. L \in Nat /\ M \in Nat /\ K + L = M
  OBVIOUS
<1>3. /\ Is(Times(x, y), L, QMul(c, d)) /\ Is(Times(y, x), L, QMul(d, c))
      /\ Is(Times(y, z), L, QMul(d, e)) /\ Is(Times(x, z), L, QMul(c, e))
      /\ QMul(c, d) \in Quads /\ QMul(d, e) \in Quads
  BY <1>1, TimesIs, QuadType
<1>4. /\ Is(Times(Times(x, y), z), M, QMul(QMul(c, d), e))
      /\ Is(Times(x, Times(y, z)), K + L, QMul(c, QMul(d, e)))
  BY <1>1, <1>2, <1>3, TimesIs
<1> HIDE DEF L, M
<1>5. Times(x, y) = Times(y, x)
  BY <1>2, <1>3, QuadLaws, IsUnique
<1>6. Times(Times(x, y), z) = Times(x, Times(y, z))
  BY <1>2, <1>4, QuadLaws, IsUnique
<1>7. Times(x, Plus(y, z)) = Plus(Times(x, y), Times(x, z))
  <2>1. Is(Plus(y, z), K, QAdd(d, e)) /\ QAdd(d, e) \in Quads
    BY <1>1, PlusIs, QuadType
  <2>2. Is(Times(x, Plus(y, z)), L, QMul(c, QAdd(d, e)))
    BY <1>1, <2>1, TimesIs DEF L
  <2>3. Is(Plus(Times(x, y), Times(x, z)), L, QAdd(QMul(c, d), QMul(c, e)))
    BY <1>2, <1>3, PlusIs
  <2>4. QED
    BY <1>2, <2>2, <2>3, QuadLaws, IsUnique
<1>8. Times(One, x) = x
  BY DEF Times
<1>9. Times(x, One) = x
  BY DEF Times
<1>10. Times(Zero, x) = Zero /\ Times(x, Zero) = Zero
  <2>1. Is(Zero, K, Nought) /\ Is(Zero, L, Nought) /\ Nought \in Quads
    BY <1>2, OneIs, IsType
  <2>2. Is(Times(Zero, x), L, QMul(Nought, c)) /\ Is(Times(x, Zero), L, QMul(c, Nought))
    BY <1>1, <2>1, TimesIs DEF L
  <2>3. QMul(Nought, c) = Nought /\ QMul(c, Nought) = Nought
    BY <2>1, QuadLaws
  <2>4. QED
    BY <1>2, <2>1, <2>2, <2>3, IsUnique
<1>11. Times(Neg(x), y) = Neg(Times(x, y)) /\ Times(x, Neg(y)) = Neg(Times(x, y))
  <2>1. Is(Neg(x), K, QNeg(c)) /\ Is(Neg(y), K, QNeg(d)) /\ QNeg(d) \in Quads /\ QNeg(c) \in Quads
    BY <1>1, NegIs, QuadType
  <2>2. /\ Is(Times(Neg(x), y), L, QMul(QNeg(c), d)) /\ Is(Times(x, Neg(y)), L, QMul(c, QNeg(d)))
    BY <1>1, <2>1, TimesIs DEF L
  <2>3. Is(Neg(Times(x, y)), L, QNeg(QMul(c, d)))
    BY <1>2, <1>3, NegIs
  <2>4. QMul(QNeg(c), d) = QNeg(QMul(c, d))
    BY QuadLaws
  <2>5. QMul(c, QNeg(d)) = QNeg(QMul(c, d))
    <3>1. QMul(c, QNeg(d)) = QMul(QNeg(d), c) /\ QMul(QNeg(d), c) = QNeg(QMul(d, c)) /\ QMul(d, c) = QMul(c, d)
      BY <2>1, QuadLaws
    <3>2. QED
      BY <3>1
  <2>6. QED
    BY <1>2, <2>2, <2>3, <2>4, <2>5, IsUnique
<1>12. QED
  BY <1>5, <1>6, <1>7, <1>8, <1>9, <1>10, <1>11

\* Conjugation is compatible with the operations.
LEMMA ConjLaws ==
  ASSUME NEW x \in Amps, NEW y \in Amps
  PROVE  /\ Conj(Plus(x, y)) = Plus(Conj(x), Conj(y))
         /\ Conj(Times(x, y)) = Times(Conj(x), Conj(y))
         /\ Conj(Neg(x)) = Neg(Conj(x))
<1>1. PICK K \in Nat, c \in Quads, d \in Quads : Is(x, K, c) /\ Is(y, K, d)
  BY Common
<1>2. Is(Conj(x), K, QConj(c)) /\ Is(Conj(y), K, QConj(d)) /\ Is(Neg(x), K, QNeg(c))
  BY <1>1, NegIs
<1>3. Conj(Plus(x, y)) = Plus(Conj(x), Conj(y))
  <2>1. /\ Is(Conj(Plus(x, y)), K, QConj(QAdd(c, d)))
        /\ Is(Plus(Conj(x), Conj(y)), K, QAdd(QConj(c), QConj(d)))
    BY <1>1, <1>2, PlusIs, NegIs
  <2>2. QED
    BY <2>1, QuadLaws, IsUnique
<1>4. Conj(Times(x, y)) = Times(Conj(x), Conj(y))
  <2>1. K + K \in Nat
    OBVIOUS
  <2>2. /\ Is(Conj(Times(x, y)), K + K, QConj(QMul(c, d)))
        /\ Is(Times(Conj(x), Conj(y)), K + K, QMul(QConj(c), QConj(d)))
    BY <1>1, <1>2, <2>1, TimesIs, NegIs
  <2>3. QED
    BY <2>1, <2>2, QuadLaws, IsUnique
<1>5. Conj(Neg(x)) = Neg(Conj(x))
  <2>1. Is(Conj(Neg(x)), K, QConj(QNeg(c))) /\ Is(Neg(Conj(x)), K, QNeg(QConj(c)))
    BY <1>2, NegIs
  <2>2. QConj(QNeg(c)) = QNeg(QConj(c))
    BY QuadParts DEF QConj, QNeg
  <2>3. QED
    BY <2>1, <2>2, IsUnique
<1>6. QED
  BY <1>3, <1>4, <1>5

\* The exact arithmetic that stands for the complex numbers of the code is a
\* commutative ring with conjugation, whose equality is equality of records: two
\* circuits compute the same amplitudes exactly when the model says so, for
\* coefficients and powers of any size.
THEOREM AmplitudesAreARing ==
  ASSUME NEW x \in Amps, NEW y \in Amps, NEW z \in Amps
  PROVE  /\ Plus(x, y) \in Amps /\ Times(x, y) \in Amps /\ Neg(x) \in Amps /\ Conj(x) \in Amps
         /\ Plus(x, y) = Plus(y, x) /\ Plus(Plus(x, y), z) = Plus(x, Plus(y, z))
         /\ Plus(x, Zero) = x /\ Plus(x, Neg(x)) = Zero
         /\ Times(x, y) = Times(y, x) /\ Times(Times(x, y), z) = Times(x, Times(y, z))
         /\ Times(x, One) = x /\ Times(x, Plus(y, z)) = Plus(Times(x, y), Times(x, z))
         /\ Conj(Plus(x, y)) = Plus(Conj(x), Conj(y)) /\ Conj(Times(x, y)) = Times(Conj(x), Conj(y))
BY RingTypes, PlusLaws, TimesLaws, ConjLaws

-----------------------------------------------------------------------------
(* Gates as pairings of basis states.                                      *)

Vectors == [Basis -> Amps]
IsMatrix(m) == m[1] \in Amps /\ m[2] \in Amps /\ m[3] \in Amps /\ m[4] \in Amps

MatTimes(m, n) ==
    <<Plus(Times(m[1], n[1]), Times(m[2], n[3])), Plus(Times(m[1], n[2]), Times(m[2], n[4])),
      Plus(Times(m[3], n[1]), Times(m[4], n[3])), Plus(Times(m[3], n[2]), Times(m[4], n[4]))>>
Unit == <<One, Zero, Zero, One>>
XMat == <<Zero, One, One, Zero>>

LEMMA Regroup ==
  ASSUME NEW a \in Amps, NEW b \in Amps, NEW c \in Amps, NEW d \in Amps
  PROVE  Plus(Plus(a, b), Plus(c, d)) = Plus(Plus(a, c), Plus(b, d))
<1>1. Plus(Plus(a, b), Plus(c, d)) = Plus(a, Plus(b, Plus(c, d)))
  BY PlusLaws, RingTypes
<1>2. Plus(b, Plus(c, d)) = Plus(Plus(b, c), d) /\ Plus(b, c) = Plus(c, b)
  BY PlusLaws
<1>3. Plus(Plus(c, b), d) = Plus(c, Plus(b, d))
  BY PlusLaws
<1>4. Plus(a, Plus(c, Plus(b, d))) = Plus(Plus(a, c), Plus(b, d))
  BY PlusLaws, RingTypes
<1>5. QED
  BY <1>1, <1>2, <1>3, <1>4

LEMMA Past ==
  ASSUME NEW a \in Amps, NEW x \in Amps, NEW y \in Amps
  PROVE  Times(a, Times(x, y)) = Times(x, Times(a, y)) /\ Times(a, Times(x, y)) = Times(Times(a, x), y)
<1>1. Times(a, x) = Times(x, a) /\ Times(Times(x, a), y) = Times(x, Times(a, y))
      /\ Times(Times(a, x), y) = Times(a, Times(x, y))
  BY TimesLaws
<1>2. QED
  BY <1>1

LEMMA Through ==
  ASSUME NEW a \in Amps, NEW c \in Amps, NEW d \in Amps, NEW u \in Amps, NEW v \in Amps
  PROVE  /\ Times(a, Plus(Times(c, u), Times(d, v))) = Plus(Times(Times(a, c), u), Times(Times(a, d), v))
         /\ Times(a, Plus(Times(c, u), Times(d, v))) = Plus(Times(c, Times(a, u)), Times(d, Times(a, v)))
<1>0. Times(c, u) \in Amps /\ Times(d, v) \in Amps
  BY RingTypes
<1>1. Times(a, Plus(Times(c, u), Times(d, v))) = Plus(Times(a, Times(c, u)), Times(a, Times(d, v)))
  BY <1>0, TimesLaws
<1>2. \A x, y \in Amps : Times(a, Times(x, y)) = Times(Times(a, x), y) /\ Times(a, Times(x, y)) = Times(x, Times(a, y))
  BY Past
<1>3. QED
  BY <1>1, <1>2

LEMMA Gather ==
  ASSUME NEW a \in Amps, NEW b \in Amps, NEW u \in Amps
  PROVE  Plus(Times(a, u), Times(b, u)) = Times(Plus(a, b), u)
<1>1. Times(a, u) = Times(u, a) /\ Times(b, u) = Times(u, b)
  BY TimesLaws
<1>2. Times(u, Plus(a, b)) = Plus(Times(u, a), Times(u, b)) /\ Plus(a, b) \in Amps
  BY TimesLaws, RingTypes
<1>3. Times(u, Plus(a, b)) = Times(Plus(a, b), u)
  BY <1>2, TimesLaws
<1>4. QED
  BY <1>1, <1>2, <1>3

\* A row times a matrix.
LEMMA Combine ==
  ASSUME NEW a \in Amps, NEW b \in Amps, NEW n, IsMatrix(n), NEW u \in Amps, NEW v \in Amps
  PROVE  Plus(Times(a, Plus(Times(n[1], u), Times(n[2], v))), Times(b, Plus(Times(n[3], u), Times(n[4], v))))
           = Plus(Times(Plus(Times(a, n[1]), Times(b, n[3])), u), Times(Plus(Times(a, n[2]), Times(b, n[4])), v))
<1> DEFINE n1 == n[1] n2 == n[2] n3 == n[3] n4 == n[4]
           A == Times(a, n1) B == Times(a, n2) C == Times(b, n3) D == Times(b, n4)
<1>1. n1 \in Amps /\ n2 \in Amps /\ n3 \in Amps /\ n4 \in Amps
  BY DEF IsMatrix
<1> HIDE DEF n1, n2, n3, n4
<1>2. A \in Amps /\ B \in Amps /\ C \in Amps /\ D \in Amps
  BY <1>1, RingTypes
<1>3. Times(a, Plus(Times(n1, u), Times(n2, v))) = Plus(Times(A, u), Times(B, v))
  BY <1>1, Through
<1>4. Times(b, Plus(Times(n3, u), Times(n4, v))) = Plus(Times(C, u), Times(D, v))
  BY <1>1, Through
<1> HIDE DEF A, B, C, D
<1>5. Times(A, u) \in Amps /\ Times(B, v) \in Amps /\ Times(C, u) \in Amps /\ Times(D, v) \in Amps
  BY <1>2, RingTypes
<1>6. Plus(Plus(Times(A, u), Times(B, v)), Plus(Times(C, u), Times(D, v)))
        = Plus(Plus(Times(A, u), Times(C, u)), Plus(Times(B, v), Times(D, v)))
  BY <1>5, Regroup
<1>7. Plus(Times(A, u), Times(C, u)) = Times(Plus(A, C), u) /\ Plus(Times(B, v), Times(D, v)) = Times(Plus(B, D), v)
  BY <1>2, Gather
<1>8. QED
  BY <1>3, <1>4, <1>6, <1>7 DEF A, B, C, D, n1, n2, n3, n4

\* Two sums in one order and the other.
LEMMA Exchange ==
  ASSUME NEW f \in Amps \X Amps, NEW g \in Amps \X Amps, NEW p \in Amps \X Amps, NEW q \in Amps \X Amps
  PROVE  Plus(Times(g[1], Plus(Times(f[1], p[1]), Times(f[2], p[2]))),
              Times(g[2], Plus(Times(f[1], q[1]), Times(f[2], q[2]))))
           = Plus(Times(f[1], Plus(Times(g[1], p[1]), Times(g[2], q[1]))),
                  Times(f[2], Plus(Times(g[1], p[2]), Times(g[2], q[2]))))
<1> DEFINE a == g[1] b == g[2] x == f[1] y == f[2] r == p[1] s == p[2] u == q[1] w == q[2]
<1>0. /\ a \in Amps /\ b \in Amps /\ x \in Amps /\ y \in Amps
      /\ r \in Amps /\ s \in Amps /\ u \in Amps /\ w \in Amps
  OBVIOUS
<1> HIDE DEF a, b, x, y, r, s, u, w
<1> DEFINE R == Times(x, Times(a, r))
           S == Times(y, Times(a, s))
           U == Times(x, Times(b, u))
           W == Times(y, Times(b, w))
<1>1. Times(a, Plus(Times(x, r), Times(y, s))) = Plus(R, S) /\ Times(b, Plus(Times(x, u), Times(y, w))) = Plus(U, W)
  <2>1. Times(x, r) \in Amps /\ Times(y, s) \in Amps /\ Times(x, u) \in Amps /\ Times(y, w) \in Amps
    BY <1>0, RingTypes
  <2>2. /\ Times(a, Times(x, r)) = R /\ Times(a, Times(y, s)) = S
        /\ Times(b, Times(x, u)) = U /\ Times(b, Times(y, w)) = W
    BY <1>0, Past
  <2>3. /\ Times(a, Plus(Times(x, r), Times(y, s))) = Plus(Times(a, Times(x, r)), Times(a, Times(y, s)))
        /\ Times(b, Plus(Times(x, u), Times(y, w))) = Plus(Times(b, Times(x, u)), Times(b, Times(y, w)))
    BY <1>0, <2>1, TimesLaws
  <2>4. QED
    BY <2>2, <2>3
<1>2. /\ Times(a, r) \in Amps /\ Times(a, s) \in Amps /\ Times(b, u) \in Amps /\ Times(b, w) \in Amps
  BY <1>0, RingTypes
<1>3. R \in Amps /\ S \in Amps /\ U \in Amps /\ W \in Amps
  BY <1>0, <1>2, RingTypes
<1>4. /\ Times(x, Plus(Times(a, r), Times(b, u))) = Plus(R, U)
      /\ Times(y, Plus(Times(a, s), Times(b, w))) = Plus(S, W)
  BY <1>0, <1>2, TimesLaws
<1> HIDE DEF R, S, U, W
<1>5. Plus(Times(a, Plus(Times(x, r), Times(y, s))), Times(b, Plus(Times(x, u), Times(y, w))))
        = Plus(Times(x, Plus(Times(a, r), Times(b, u))), Times(y, Plus(Times(a, s), Times(b, w))))
  BY <1>1, <1>3, <1>4, Regroup
<1>6. QED
  BY <1>5 DEF a, b, x, y, r, s, u, w

-----------------------------------------------------------------------------
(* Kernels: a pairing of basis states, with a role for each, and a matrix.  *)

Roles == {"none", "low", "high"}

KernelAt(v, r, o, m, b) ==
    IF r = "low" THEN Plus(Times(m[1], v[b]), Times(m[2], v[o]))
    ELSE IF r = "high" THEN Plus(Times(m[3], v[o]), Times(m[4], v[b]))
    ELSE v[b]

Kernel(v, role, other, m) == [b \in Basis |-> KernelAt(v, role[b], other[b], m, b)]

Pairing(role, other) ==
    /\ role \in [Basis -> Roles] /\ other \in [Basis -> Basis]
    /\ \A b \in Basis : other[other[b]] = b
    /\ \A b \in Basis : /\ role[b] = "low" => role[other[b]] = "high"
                        /\ role[b] = "high" => role[other[b]] = "low"

LEMMA KernelType ==
  ASSUME NEW v \in Vectors, NEW role, NEW other, Pairing(role, other), NEW m, IsMatrix(m)
  PROVE  /\ Kernel(v, role, other, m) \in Vectors
         /\ \A b \in Basis : v[b] \in Amps /\ other[b] \in Basis /\ v[other[b]] \in Amps
<1>1. \A b \in Basis : v[b] \in Amps /\ other[b] \in Basis /\ v[other[b]] \in Amps
  BY DEF Vectors, Pairing
<1>2. ASSUME NEW b \in Basis PROVE Kernel(v, role, other, m)[b] \in Amps
  <2>1. role[b] \in Roles
    BY DEF Pairing
  <2>2. \A a, c \in Amps : Plus(a, c) \in Amps /\ Times(a, c) \in Amps
    BY RingTypes
  <2>3. QED
    BY <1>1, <2>1, <2>2 DEF Kernel, KernelAt, Roles, IsMatrix
<1>3. Kernel(v, role, other, m) = [b \in Basis |-> Kernel(v, role, other, m)[b]]
  BY DEF Kernel
<1> DEFINE k == Kernel(v, role, other, m)
<1>4. k \in Vectors
  <2> HIDE DEF k
  <2>1. QED
    BY <1>2, <1>3 DEF k, Vectors
<1>5. QED
  BY <1>1, <1>4

LEMMA KernelTwice ==
  ASSUME NEW v \in Vectors, NEW role, NEW other, Pairing(role, other),
         NEW m, IsMatrix(m), NEW n, IsMatrix(n)
  PROVE  Kernel(Kernel(v, role, other, n), role, other, m) = Kernel(v, role, other, MatTimes(m, n))
<1> DEFINE u == Kernel(v, role, other, n)
           mn == MatTimes(m, n)
<1>1. ASSUME NEW b \in Basis
      PROVE  Kernel(u, role, other, m)[b] = Kernel(v, role, other, mn)[b]
  <2> DEFINE o == other[b]
  <2>1. o \in Basis /\ other[o] = b /\ v[b] \in Amps /\ v[o] \in Amps /\ role[b] \in Roles
    BY KernelType DEF Pairing
  <2>2. CASE role[b] = "none"
    BY <2>2 DEF Kernel, KernelAt
  <2>3. CASE role[b] = "low"
    <3>1. role[o] = "high"
      BY <2>3 DEF Pairing
    <3>2. u[b] = Plus(Times(n[1], v[b]), Times(n[2], v[o])) /\ u[o] = Plus(Times(n[3], v[b]), Times(n[4], v[o]))
      BY <2>1, <2>3, <3>1 DEF Kernel, KernelAt
    <3>3. Kernel(u, role, other, m)[b] = Plus(Times(m[1], u[b]), Times(m[2], u[o]))
      BY <2>3 DEF Kernel, KernelAt
    <3>4. Kernel(v, role, other, mn)[b] = Plus(Times(mn[1], v[b]), Times(mn[2], v[o]))
      BY <2>3 DEF Kernel, KernelAt
    <3> HIDE DEF u, o
    <3>5. m[1] \in Amps /\ m[2] \in Amps
      BY DEF IsMatrix
    <3>6. QED
      BY <2>1, <3>2, <3>3, <3>4, <3>5, Combine DEF MatTimes
  <2>4. CASE role[b] = "high"
    <3>1. role[o] = "low"
      BY <2>4 DEF Pairing
    <3>2. u[o] = Plus(Times(n[1], v[o]), Times(n[2], v[b])) /\ u[b] = Plus(Times(n[3], v[o]), Times(n[4], v[b]))
      BY <2>1, <2>4, <3>1 DEF Kernel, KernelAt
    <3>3. Kernel(u, role, other, m)[b] = Plus(Times(m[3], u[o]), Times(m[4], u[b]))
      BY <2>4 DEF Kernel, KernelAt
    <3>4. Kernel(v, role, other, mn)[b] = Plus(Times(mn[3], v[o]), Times(mn[4], v[b]))
      BY <2>4 DEF Kernel, KernelAt
    <3> HIDE DEF u, o
    <3>5. m[3] \in Amps /\ m[4] \in Amps
      BY DEF IsMatrix
    <3>6. QED
      BY <2>1, <3>2, <3>3, <3>4, <3>5, Combine DEF MatTimes
  <2>5. QED
    BY <2>1, <2>2, <2>3, <2>4 DEF Roles
<1>2. /\ Kernel(u, role, other, m) = [b \in Basis |-> Kernel(u, role, other, m)[b]]
      /\ Kernel(v, role, other, mn) = [b \in Basis |-> Kernel(v, role, other, mn)[b]]
  BY DEF Kernel
<1>3. QED
  BY <1>1, <1>2

LEMMA KernelUnit ==
  ASSUME NEW v \in Vectors, NEW role, NEW other, Pairing(role, other)
  PROVE  Kernel(v, role, other, Unit) = v
<1>1. ASSUME NEW b \in Basis PROVE Kernel(v, role, other, Unit)[b] = v[b]
  <2>1. v[b] \in Amps /\ v[other[b]] \in Amps /\ role[b] \in Roles
    BY DEF Vectors, Pairing
  <2>2. \A x, y \in Amps : Plus(Times(One, x), Times(Zero, y)) = x /\ Plus(Times(Zero, y), Times(One, x)) = x
    BY TimesLaws, PlusLaws
  <2>3. QED
    BY <2>1, <2>2 DEF Kernel, KernelAt, Roles, Unit
<1>2. Kernel(v, role, other, Unit) = [b \in Basis |-> Kernel(v, role, other, Unit)[b]]
  BY DEF Kernel
<1>3. QED
  BY <1>1, <1>2 DEF Vectors

-----------------------------------------------------------------------------
(* Kernels that may change places.                                         *)

Unrelated(role1, other1, role2, other2) ==
    \A b \in Basis : /\ role1[other2[b]] = role1[b] /\ role2[other1[b]] = role2[b]
                     /\ other1[other2[b]] = other2[other1[b]]

IsDiagonal(m) == m[2] = Zero /\ m[3] = Zero

Weight(r, m) == IF r = "low" THEN m[1] ELSE IF r = "high" THEN m[4] ELSE One

\* A kernel as a sum of two weighted entries.
Here(r, m) == Weight(r, m)
There(r, m) == IF r = "low" THEN m[2] ELSE IF r = "high" THEN m[3] ELSE Zero

LEMMA AsSum ==
  ASSUME NEW v \in Vectors, NEW role, NEW other, Pairing(role, other), NEW m, IsMatrix(m),
         NEW b \in Basis
  PROVE  /\ Here(role[b], m) \in Amps /\ There(role[b], m) \in Amps
         /\ Kernel(v, role, other, m)[b]
              = Plus(Times(Here(role[b], m), v[b]), Times(There(role[b], m), v[other[b]]))
<1>1. v[b] \in Amps /\ v[other[b]] \in Amps /\ role[b] \in Roles
  BY KernelType DEF Pairing
<1>2. One \in Amps /\ Zero \in Amps
  BY OneIs
<1>3. Here(role[b], m) \in Amps /\ There(role[b], m) \in Amps
  BY <1>2 DEF Here, There, Weight, IsMatrix
<1>4. Kernel(v, role, other, m)[b] = KernelAt(v, role[b], other[b], m, b)
  BY DEF Kernel
<1>5. CASE role[b] = "low"
  BY <1>3, <1>4, <1>5 DEF KernelAt, Here, There, Weight
<1>6. CASE role[b] = "high"
  <2>1. Times(m[3], v[other[b]]) \in Amps /\ Times(m[4], v[b]) \in Amps
    BY <1>1, RingTypes DEF IsMatrix
  <2>2. Plus(Times(m[3], v[other[b]]), Times(m[4], v[b])) = Plus(Times(m[4], v[b]), Times(m[3], v[other[b]]))
    BY <2>1, PlusLaws
  <2>3. QED
    BY <1>3, <1>4, <1>6, <2>2 DEF KernelAt, Here, There, Weight
<1>7. CASE role[b] = "none"
  <2>1. Times(One, v[b]) = v[b] /\ Times(Zero, v[other[b]]) = Zero
    BY <1>1, TimesLaws
  <2>2. Plus(v[b], Zero) = v[b]
    BY <1>1, PlusLaws
  <2>3. QED
    BY <1>3, <1>4, <1>7, <2>1, <2>2 DEF KernelAt, Here, There, Weight
<1>8. QED
  BY <1>1, <1>5, <1>6, <1>7 DEF Roles

LEMMA SameEverywhere ==
  ASSUME NEW v, NEW role1, NEW other1, NEW m, NEW w, NEW role2, NEW other2, NEW n,
         \A b \in Basis : Kernel(v, role1, other1, m)[b] = Kernel(w, role2, other2, n)[b]
  PROVE  Kernel(v, role1, other1, m) = Kernel(w, role2, other2, n)
<1>1. /\ Kernel(v, role1, other1, m) = [b \in Basis |-> Kernel(v, role1, other1, m)[b]]
      /\ Kernel(w, role2, other2, n) = [b \in Basis |-> Kernel(w, role2, other2, n)[b]]
  BY DEF Kernel
<1>2. QED
  BY <1>1

LEMMA ApartCommute ==
  ASSUME NEW v \in Vectors, NEW role1, NEW other1, Pairing(role1, other1), NEW m, IsMatrix(m),
         NEW role2, NEW other2, Pairing(role2, other2), NEW n, IsMatrix(n),
         Unrelated(role1, other1, role2, other2)
  PROVE  Kernel(Kernel(v, role1, other1, m), role2, other2, n)
           = Kernel(Kernel(v, role2, other2, n), role1, other1, m)
<1> DEFINE u == Kernel(v, role1, other1, m)
           w == Kernel(v, role2, other2, n)
<1>1. u \in Vectors /\ w \in Vectors
  BY KernelType
<1>2. ASSUME NEW b \in Basis
      PROVE  Kernel(u, role2, other2, n)[b] = Kernel(w, role1, other1, m)[b]
  <2> DEFINE o1 == other1[b]
             o2 == other2[b]
             oo == other1[other2[b]]
             a == Here(role1[b], m)
             c == There(role1[b], m)
             x == Here(role2[b], n)
             y == There(role2[b], n)
  <2>1. o1 \in Basis /\ o2 \in Basis /\ oo \in Basis
    BY DEF Pairing
  <2>2. v[b] \in Amps /\ v[o1] \in Amps /\ v[o2] \in Amps /\ v[oo] \in Amps
    BY <2>1 DEF Vectors
  <2>3. a \in Amps /\ c \in Amps /\ x \in Amps /\ y \in Amps
    BY AsSum
  <2>4. u[b] = Plus(Times(a, v[b]), Times(c, v[o1])) /\ w[b] = Plus(Times(x, v[b]), Times(y, v[o2]))
    BY AsSum
  <2>5. u[o2] = Plus(Times(a, v[o2]), Times(c, v[oo]))
    BY <2>1, AsSum DEF Unrelated
  <2>6. w[o1] = Plus(Times(x, v[o1]), Times(y, v[oo]))
    BY <2>1, AsSum DEF Unrelated
  <2>7. Kernel(u, role2, other2, n)[b] = Plus(Times(x, u[b]), Times(y, u[o2]))
    BY <1>1, AsSum
  <2>8. Kernel(w, role1, other1, m)[b] = Plus(Times(a, w[b]), Times(c, w[o1]))
    BY <1>1, AsSum
  <2> HIDE DEF u, w, o1, o2, oo, a, c, x, y
  <2>9. Plus(Times(x, Plus(Times(a, v[b]), Times(c, v[o1]))), Times(y, Plus(Times(a, v[o2]), Times(c, v[oo]))))
          = Plus(Times(a, Plus(Times(x, v[b]), Times(y, v[o2]))), Times(c, Plus(Times(x, v[o1]), Times(y, v[oo]))))
    <3>1. <<x, y>> \in Amps \X Amps /\ <<a, c>> \in Amps \X Amps
      BY <2>3
    <3>2. <<v[b], v[o2]>> \in Amps \X Amps /\ <<v[o1], v[oo]>> \in Amps \X Amps
      BY <2>2
    <3> DEFINE f == <<x, y>> g == <<a, c>> p == <<v[b], v[o2]>> q == <<v[o1], v[oo]>>
    <3> HIDE DEF f, g, p, q
    <3>3. Plus(Times(g[1], Plus(Times(f[1], p[1]), Times(f[2], p[2]))),
               Times(g[2], Plus(Times(f[1], q[1]), Times(f[2], q[2]))))
            = Plus(Times(f[1], Plus(Times(g[1], p[1]), Times(g[2], q[1]))),
                   Times(f[2], Plus(Times(g[1], p[2]), Times(g[2], q[2]))))
      BY <3>1, <3>2, Exchange DEF f, g, p, q
    <3>4. /\ f[1] = x /\ f[2] = y /\ g[1] = a /\ g[2] = c
          /\ p[1] = v[b] /\ p[2] = v[o2] /\ q[1] = v[o1] /\ q[2] = v[oo]
      BY DEF f, g, p, q
    <3>5. QED
      BY <3>3, <3>4
  <2>10. QED
    BY <2>4, <2>5, <2>6, <2>7, <2>8, <2>9
<1> HIDE DEF u, w
<1>3. Kernel(u, role2, other2, n) = Kernel(w, role1, other1, m)
  BY <1>2, SameEverywhere
<1>4. QED
  BY <1>3 DEF u, w

LEMMA DiagonalAt ==
  ASSUME NEW v \in Vectors, NEW role, NEW other, Pairing(role, other), NEW m, IsMatrix(m),
         IsDiagonal(m), NEW b \in Basis
  PROVE  /\ Weight(role[b], m) \in Amps
         /\ Kernel(v, role, other, m)[b] = Times(Weight(role[b], m), v[b])
<1>1. v[b] \in Amps /\ v[other[b]] \in Amps
  BY KernelType
<1>2. There(role[b], m) = Zero /\ Here(role[b], m) = Weight(role[b], m)
  BY DEF There, Here, IsDiagonal
<1>3. Weight(role[b], m) \in Amps
  BY <1>2, AsSum
<1>4. Times(Zero, v[other[b]]) = Zero
  BY <1>1, TimesLaws
<1>5. Times(Weight(role[b], m), v[b]) \in Amps
  BY <1>1, <1>3, RingTypes
<1>6. Plus(Times(Weight(role[b], m), v[b]), Zero) = Times(Weight(role[b], m), v[b])
  BY <1>5, PlusLaws
<1>7. QED
  BY <1>2, <1>3, <1>4, <1>6, AsSum

\* Two diagonal matrices.
LEMMA DiagonalsCommute ==
  ASSUME NEW v \in Vectors, NEW role1, NEW other1, Pairing(role1, other1), NEW m, IsMatrix(m), IsDiagonal(m),
         NEW role2, NEW other2, Pairing(role2, other2), NEW n, IsMatrix(n), IsDiagonal(n)
  PROVE  Kernel(Kernel(v, role1, other1, m), role2, other2, n)
           = Kernel(Kernel(v, role2, other2, n), role1, other1, m)
<1> DEFINE u == Kernel(v, role1, other1, m)
           w == Kernel(v, role2, other2, n)
<1>1. u \in Vectors /\ w \in Vectors
  BY KernelType
<1>2. ASSUME NEW b \in Basis
      PROVE  Kernel(u, role2, other2, n)[b] = Kernel(w, role1, other1, m)[b]
  <2> DEFINE a == Weight(role1[b], m)
             x == Weight(role2[b], n)
  <2>1. a \in Amps /\ x \in Amps /\ v[b] \in Amps
    BY DiagonalAt DEF Vectors
  <2>2. u[b] = Times(a, v[b]) /\ w[b] = Times(x, v[b])
    BY DiagonalAt
  <2>3. Kernel(u, role2, other2, n)[b] = Times(x, u[b]) /\ Kernel(w, role1, other1, m)[b] = Times(a, w[b])
    BY <1>1, DiagonalAt
  <2> HIDE DEF u, w, a, x
  <2>4. Times(x, Times(a, v[b])) = Times(Times(x, a), v[b]) /\ Times(a, Times(x, v[b])) = Times(Times(a, x), v[b])
        /\ Times(x, a) = Times(a, x)
    BY <2>1, TimesLaws
  <2>5. QED
    BY <2>2, <2>3, <2>4
<1> HIDE DEF u, w
<1>3. Kernel(u, role2, other2, n) = Kernel(w, role1, other1, m)
  BY <1>2, SameEverywhere
<1>4. QED
  BY <1>3 DEF u, w

\* A diagonal matrix whose weights the other kernel cannot tell apart.
LEMMA DiagonalCommutes ==
  ASSUME NEW v \in Vectors, NEW role1, NEW other1, Pairing(role1, other1), NEW m, IsMatrix(m), IsDiagonal(m),
         NEW role2, NEW other2, Pairing(role2, other2), NEW n, IsMatrix(n),
         \A b \in Basis : role1[other2[b]] = role1[b]
  PROVE  Kernel(Kernel(v, role1, other1, m), role2, other2, n)
           = Kernel(Kernel(v, role2, other2, n), role1, other1, m)
<1> DEFINE u == Kernel(v, role1, other1, m)
           w == Kernel(v, role2, other2, n)
<1>1. u \in Vectors /\ w \in Vectors
  BY KernelType
<1>2. ASSUME NEW b \in Basis
      PROVE  Kernel(u, role2, other2, n)[b] = Kernel(w, role1, other1, m)[b]
  <2> DEFINE a == Weight(role1[b], m)
             o == other2[b]
             x == Here(role2[b], n)
             y == There(role2[b], n)
  <2>1. o \in Basis /\ a \in Amps /\ x \in Amps /\ y \in Amps
    BY DiagonalAt, AsSum DEF Pairing
  <2>2. v[b] \in Amps /\ v[o] \in Amps
    BY <2>1 DEF Vectors
  <2>3. u[b] = Times(a, v[b])
    BY DiagonalAt
  <2>4. u[o] = Times(a, v[o])
    BY <2>1, DiagonalAt
  <2>5. w[b] = Plus(Times(x, v[b]), Times(y, v[o]))
    BY AsSum
  <2>6. Kernel(u, role2, other2, n)[b] = Plus(Times(x, u[b]), Times(y, u[o]))
    BY <1>1, AsSum
  <2>7. Kernel(w, role1, other1, m)[b] = Times(a, w[b])
    BY <1>1, DiagonalAt
  <2> HIDE DEF u, w, a, o, x, y
  <2>8. Times(a, Plus(Times(x, v[b]), Times(y, v[o]))) = Plus(Times(x, Times(a, v[b])), Times(y, Times(a, v[o])))
    BY <2>1, <2>2, Through
  <2>9. QED
    BY <2>3, <2>4, <2>5, <2>6, <2>7, <2>8
<1> HIDE DEF u, w
<1>3. Kernel(u, role2, other2, n) = Kernel(w, role1, other1, m)
  BY <1>2, SameEverywhere
<1>4. QED
  BY <1>3 DEF u, w

\* Two exchanges of the same pairs.
LEMMA ExchangeAt ==
  ASSUME NEW v \in Vectors, NEW role, NEW other, Pairing(role, other), NEW b \in Basis
  PROVE  Kernel(v, role, other, XMat)[b] = v[IF role[b] = "none" THEN b ELSE other[b]]
<1>1. v[b] \in Amps /\ v[other[b]] \in Amps /\ role[b] \in Roles
  BY DEF Pairing, Vectors
<1>2. \A x, y \in Amps : Plus(Times(Zero, x), Times(One, y)) = y /\ Plus(Times(One, y), Times(Zero, x)) = y
  BY TimesLaws, PlusLaws
<1>3. QED
  BY <1>1, <1>2 DEF Kernel, KernelAt, XMat, Roles

LEMMA XIsMatrix == IsMatrix(XMat) /\ IsMatrix(Unit)
BY OneIs DEF IsMatrix, XMat, Unit

LEMMA ExchangesCommute ==
  ASSUME NEW v \in Vectors, NEW role1, NEW role2, NEW other, Pairing(role1, other), Pairing(role2, other)
  PROVE  Kernel(Kernel(v, role1, other, XMat), role2, other, XMat)
           = Kernel(Kernel(v, role2, other, XMat), role1, other, XMat)
<1> DEFINE u == Kernel(v, role1, other, XMat)
           w == Kernel(v, role2, other, XMat)
           Goes(role, b) == IF role[b] = "none" THEN b ELSE other[b]
<1>1. u \in Vectors /\ w \in Vectors
  BY KernelType, XIsMatrix
<1>2. ASSUME NEW b \in Basis
      PROVE  Kernel(u, role2, other, XMat)[b] = Kernel(w, role1, other, XMat)[b]
  <2>1. \A x \in Basis : u[x] = v[Goes(role1, x)] /\ w[x] = v[Goes(role2, x)]
    BY ExchangeAt
  <2>2. Kernel(u, role2, other, XMat)[b] = u[Goes(role2, b)] /\ Kernel(w, role1, other, XMat)[b] = w[Goes(role1, b)]
    BY <1>1, ExchangeAt
  <2>3. \A x \in Basis : /\ other[x] \in Basis /\ other[other[x]] = x
                         /\ role1[x] \in Roles /\ role2[x] \in Roles
                         /\ role1[other[x]] = "none" <=> role1[x] = "none"
                         /\ role2[other[x]] = "none" <=> role2[x] = "none"
    <3>1. \A x \in Basis : other[x] \in Basis /\ other[other[x]] = x /\ role1[x] \in Roles /\ role2[x] \in Roles
      BY DEF Pairing
    <3>2. \A x \in Basis : /\ role1[x] = "none" \/ role1[x] = "low" \/ role1[x] = "high"
                           /\ role2[x] = "none" \/ role2[x] = "low" \/ role2[x] = "high"
      BY <3>1 DEF Roles
    <3>3. \A x \in Basis : /\ role1[x] # "none" => role1[other[x]] # "none"
                           /\ role2[x] # "none" => role2[other[x]] # "none"
      BY <3>2 DEF Pairing
    <3>4. QED
      BY <3>1, <3>3
  <2>4. Goes(role1, b) \in Basis /\ Goes(role2, b) \in Basis
    BY <2>3
  <2>5. Goes(role1, Goes(role2, b)) = Goes(role2, Goes(role1, b))
    BY <2>3
  <2> HIDE DEF u, w, Goes
  <2>6. QED
    BY <2>1, <2>2, <2>4, <2>5
<1> HIDE DEF u, w
<1>3. Kernel(u, role2, other, XMat) = Kernel(w, role1, other, XMat)
  BY <1>2, SameEverywhere
<1>4. QED
  BY <1>3 DEF u, w

-----------------------------------------------------------------------------
(* Angles.                                                                 *)

Eq(m) == Ei(m).c
Turn(c) == <<-c[4], c[1], c[2], c[3]>>

LEMMA EiType ==
  ASSUME NEW m \in Int
  PROVE  /\ Eq(m) \in Quads /\ Ei(m) \in Amps /\ Is(Ei(m), 0, Eq(m))
<1>1. Ei(m).k = 0 /\ Eq(m) \in Quads /\ Ei(m) \in [k : Nat, c : Quads]
  BY QuadMake DEF Ei, Eq
<1>2. Ei(m) \in Amps
  BY <1>1 DEF Amps, Reducible
<1>3. QED
  BY <1>1, <1>2, IsSelf DEF Eq

LEMMA EiStep ==
  ASSUME NEW m \in Int
  PROVE  Eq(m + 1) = Turn(Eq(m)) /\ QConj(Eq(m)) = Eq(-m)
<1>1. m % 8 \in 0..7
  OBVIOUS
<1>2. (m + 1) % 8 = IF m % 8 = 7 THEN 0 ELSE (m % 8) + 1
  OBVIOUS
<1>3. (-m) % 8 = IF m % 8 = 0 THEN 0 ELSE 8 - (m % 8)
  OBVIOUS
<1> DEFINE r == m % 8
<1>4. CASE r = 0 BY <1>2, <1>3, <1>4 DEF Eq, Ei, Turn, QConj
<1>5. CASE r = 1 BY <1>2, <1>3, <1>5 DEF Eq, Ei, Turn, QConj
<1>6. CASE r = 2 BY <1>2, <1>3, <1>6 DEF Eq, Ei, Turn, QConj
<1>7. CASE r = 3 BY <1>2, <1>3, <1>7 DEF Eq, Ei, Turn, QConj
<1>8. CASE r = 4 BY <1>2, <1>3, <1>8 DEF Eq, Ei, Turn, QConj
<1>9. CASE r = 5 BY <1>2, <1>3, <1>9 DEF Eq, Ei, Turn, QConj
<1>10. CASE r = 6 BY <1>2, <1>3, <1>10 DEF Eq, Ei, Turn, QConj
<1>11. CASE r = 7 BY <1>2, <1>3, <1>11 DEF Eq, Ei, Turn, QConj
<1>12. QED
  BY <1>1, <1>4, <1>5, <1>6, <1>7, <1>8, <1>9, <1>10, <1>11

LEMMA TurnThrough ==
  ASSUME NEW c \in Quads, NEW d \in Quads
  PROVE  Turn(QMul(c, d)) = QMul(c, Turn(d))
<1> DEFINE c1 == c[1] c2 == c[2] c3 == c[3] c4 == c[4] d1 == d[1] d2 == d[2] d3 == d[3] d4 == d[4]
<1>1. /\ c1 \in Int /\ c2 \in Int /\ c3 \in Int /\ c4 \in Int
      /\ d1 \in Int /\ d2 \in Int /\ d3 \in Int /\ d4 \in Int
  BY QuadParts
<1>2. Turn(QMul(c, d)) =
        <<-(c1*d4 + c2*d3 + c3*d2 + c4*d1), c1*d1 - c2*d4 - c3*d3 - c4*d2,
          c1*d2 + c2*d1 - c3*d4 - c4*d3, c1*d3 + c2*d2 + c3*d1 - c4*d4>>
  BY DEF Turn, QMul
<1>3. QMul(c, Turn(d)) =
        <<c1*(-d4) - c2*d3 - c3*d2 - c4*d1, c1*d1 + c2*(-d4) - c3*d3 - c4*d2,
          c1*d2 + c2*d1 + c3*(-d4) - c4*d3, c1*d3 + c2*d2 + c3*d1 + c4*(-d4)>>
  BY DEF Turn, QMul
<1> HIDE DEF c1, c2, c3, c4, d1, d2, d3, d4
<1>4. QED
  BY <1>1, <1>2, <1>3

LEMMA EqPeriod ==
  ASSUME NEW m \in Int
  PROVE  m % 8 \in Nat /\ \A n \in Int : Eq(n + m) = Eq(n + (m % 8))
<1>1. ASSUME NEW n \in Int PROVE (n + m) % 8 = (n + (m % 8)) % 8
  OBVIOUS
<1>2. QED
  BY <1>1 DEF Eq, Ei

LEMMA EqZero == Eq(0) = <<1, 0, 0, 0>> /\ Eq(-2) = <<0, 0, -1, 0>>
<1>1. 0 % 8 = 0 /\ 2 % 8 = 2
  OBVIOUS
<1>2. Eq(0) = <<1, 0, 0, 0>> /\ Eq(2) = <<0, 0, 1, 0>>
  BY <1>1 DEF Eq, Ei
<1>3. Eq(-2) = <<0, 0, -1, 0>>
  BY <1>2, EiStep DEF QConj
<1>4. QED
  BY <1>2, <1>3

LEMMA EiTimes ==
  ASSUME NEW m \in Int, NEW n \in Int
  PROVE  /\ Eq(m + n) = QMul(Eq(m), Eq(n))
         /\ Times(Ei(m), Ei(n)) = Ei(m + n)
<1> DEFINE P == {k \in Nat : Eq(m + k) = QMul(Eq(m), Eq(k))}
<1>1. 0 \in P
  <2>1. QMul(Eq(m), <<1, 0, 0, 0>>) = QMul(<<1, 0, 0, 0>>, Eq(m)) /\ QMul(<<1, 0, 0, 0>>, Eq(m)) = Eq(m)
    BY EiType, QuadLaws, QuadMake
  <2>2. QED
    BY <2>1, EqZero
<1>2. ASSUME NEW k \in Nat, k \in P PROVE k + 1 \in P
  <2>1. Eq(m + (k + 1)) = Turn(Eq(m + k))
    <3>1. m + (k + 1) = (m + k) + 1 /\ m + k \in Int
      OBVIOUS
    <3>2. QED
      BY <3>1, EiStep
  <2>2. Eq(k + 1) = Turn(Eq(k))
    BY EiStep
  <2>3. Turn(QMul(Eq(m), Eq(k))) = QMul(Eq(m), Turn(Eq(k)))
    BY EiType, TurnThrough
  <2>4. QED
    BY <1>2, <2>1, <2>2, <2>3
<1> HIDE DEF P
<1>3. \A k \in Nat : k \in P
  BY <1>1, <1>2, NatSet
<1>4. Eq(m + n) = QMul(Eq(m), Eq(n))
  <2>1. n % 8 \in P
    BY <1>3, EqPeriod
  <2>2. Eq(m + n) = Eq(m + (n % 8)) /\ Eq(0 + n) = Eq(0 + (n % 8))
    BY EqPeriod
  <2>3. 0 + n = n /\ 0 + (n % 8) = n % 8
    OBVIOUS
  <2>4. Eq(m + (n % 8)) = QMul(Eq(m), Eq(n % 8))
    BY <2>1 DEF P
  <2>5. QED
    BY <2>2, <2>3, <2>4
<1>5. m + n \in Int /\ 0 + 0 = 0
  OBVIOUS
<1>6. Is(Times(Ei(m), Ei(n)), 0, QMul(Eq(m), Eq(n)))
  BY EiType, TimesIs, <1>5
<1>7. Is(Ei(m + n), 0, Eq(m + n))
  BY EiType, <1>5
<1>8. QED
  BY <1>4, <1>6, <1>7, IsUnique

CosQ(c) == <<c[1] + c[1], c[2] - c[4], 0, c[4] - c[2]>>
SinQ(c) == <<c[3] + c[3], c[2] + c[4], 0, -(c[2] + c[4])>>

LEMMA HalfIs == Is(Dyadic(1, 1), 2, <<1, 0, 0, 0>>)
BY LowestIs, QuadMake DEF Dyadic

LEMMA CosIs ==
  ASSUME NEW m \in Int
  PROVE  /\ Cos(m) \in Amps /\ Sin(m) \in Amps
         /\ Is(Cos(m), 2, CosQ(Eq(m))) /\ Is(Sin(m), 2, SinQ(Eq(m)))
<1> DEFINE c == Eq(m)
           d == Eq(-m)
           h == Dyadic(1, 1)
           u == <<1, 0, 0, 0>>
<1>1. c \in Quads /\ d \in Quads /\ d = QConj(c) /\ u \in Quads /\ -m \in Int
  <2>1. -m \in Int /\ u \in Quads
    BY QuadMake
  <2>2. QED
    BY <2>1, EiType, EiStep
<1>2. Is(Ei(m), 0, c) /\ Is(Ei(-m), 0, d) /\ Is(h, 2, u)
  BY <1>1, EiType, HalfIs
<1>3. Is(Neg(Ei(-m)), 0, QNeg(d))
  BY <1>2, NegIs
<1>4. Is(Plus(Ei(m), Ei(-m)), 0, QAdd(c, d)) /\ Is(Minus(Ei(m), Ei(-m)), 0, QAdd(c, QNeg(d)))
  BY <1>2, <1>3, PlusIs DEF Minus
<1>5. Is(Times(Ei(-2), h), 0 + 2, QMul(Eq(-2), u))
  BY <1>2, EiType, TimesIs
<1>6. Is(Cos(m), 0 + 2, QMul(QAdd(c, d), u))
  BY <1>2, <1>4, TimesIs DEF Cos
<1>7. Is(Sin(m), 0 + (0 + 2), QMul(QAdd(c, QNeg(d)), QMul(Eq(-2), u)))
  BY <1>4, <1>5, TimesIs DEF Sin
<1> DEFINE c1 == c[1] c2 == c[2] c3 == c[3] c4 == c[4]
<1>8. /\ QAdd(c, d) = <<c1 + c1, c2 - c4, c3 - c3, c4 - c2>>
      /\ QAdd(c, QNeg(d)) = <<c1 - c1, c2 + c4, c3 + c3, c4 + c2>>
  <2>1. c1 \in Int /\ c2 \in Int /\ c3 \in Int /\ c4 \in Int
    BY <1>1, QuadParts
  <2>2. d = <<c1, -c4, -c3, -c2>>
    BY <1>1 DEF QConj
  <2> HIDE DEF c, d
  <2>3. QED
    BY <2>1, <2>2 DEF QAdd, QNeg
<1>9. c1 \in Int /\ c2 \in Int /\ c3 \in Int /\ c4 \in Int
  BY <1>1, QuadParts
<1>10. QMul(QAdd(c, d), u) = CosQ(c)
  <2> HIDE DEF c, d, c1, c2, c3, c4
  <2>1. QMul(<<c1 + c1, c2 - c4, c3 - c3, c4 - c2>>, <<1, 0, 0, 0>>) = <<c1 + c1, c2 - c4, 0, c4 - c2>>
    BY <1>9 DEF QMul
  <2>2. QED
    BY <1>8, <2>1 DEF CosQ, c1, c2, c3, c4
<1>11. QMul(QAdd(c, QNeg(d)), QMul(Eq(-2), u)) = SinQ(c)
  <2>1. QMul(Eq(-2), u) = <<0, 0, -1, 0>>
    BY EqZero DEF QMul
  <2> HIDE DEF c, d, c1, c2, c3, c4
  <2>2. QMul(<<c1 - c1, c2 + c4, c3 + c3, c4 + c2>>, <<0, 0, -1, 0>>) = <<c3 + c3, c2 + c4, 0, -(c2 + c4)>>
    BY <1>9 DEF QMul
  <2>3. QED
    BY <1>8, <2>1, <2>2 DEF SinQ, c1, c2, c3, c4
<1>12. 0 + 2 = 2 /\ 0 + (0 + 2) = 2
  OBVIOUS
<1>13. QED
  BY <1>6, <1>7, <1>10, <1>11, <1>12 DEF Is

LEMMA Doubled ==
  ASSUME NEW x, NEW c, Is(x, 2, c)
  PROVE  Is(x, 4, QAdd(c, c))
<1>1. c \in Quads /\ Is(x, 2 + 2, Raise(c, 2))
  BY IsMore
<1>2. Raise(c, 1) = TimesRoot2(c) /\ Raise(c, 2) = TimesRoot2(Raise(c, 1))
  <2>1. Raise(c, 0) = c /\ Raise(c, 0 + 1) = TimesRoot2(Raise(c, 0)) /\ Raise(c, 1 + 1) = TimesRoot2(Raise(c, 1))
    BY <1>1, RaiseSteps
  <2>2. QED
    BY <2>1
<1>3. Raise(c, 2) = QAdd(c, c)
  BY <1>1, <1>2, RootThrough
<1>4. QED
  BY <1>1, <1>3

LEMMA Addition ==
  ASSUME NEW m \in Int, NEW n \in Int
  PROVE  /\ Plus(Times(Cos(m), Cos(n)), Neg(Times(Sin(m), Sin(n)))) = Cos(m + n)
         /\ Plus(Times(Sin(m), Cos(n)), Times(Cos(m), Sin(n))) = Sin(m + n)
<1> DEFINE p == Eq(m)
           q == Eq(n)
           cp == CosQ(p)
           cq == CosQ(q)
           sp == SinQ(p)
           sq == SinQ(q)
           pq == QMul(p, q)
<1>1. p \in Quads /\ q \in Quads /\ Eq(m + n) = pq /\ m + n \in Int
  BY EiType, EiTimes
<1>2. Is(Cos(m), 2, cp) /\ Is(Sin(m), 2, sp) /\ Is(Cos(n), 2, cq) /\ Is(Sin(n), 2, sq)
  BY CosIs
<1>3. Is(Cos(m + n), 2, CosQ(pq)) /\ Is(Sin(m + n), 2, SinQ(pq))
  BY <1>1, CosIs
<1>4. Is(Cos(m + n), 4, QAdd(CosQ(pq), CosQ(pq))) /\ Is(Sin(m + n), 4, QAdd(SinQ(pq), SinQ(pq)))
  BY <1>3, Doubled
<1>5. /\ Is(Times(Cos(m), Cos(n)), 4, QMul(cp, cq)) /\ Is(Times(Sin(m), Sin(n)), 4, QMul(sp, sq))
      /\ Is(Times(Sin(m), Cos(n)), 4, QMul(sp, cq)) /\ Is(Times(Cos(m), Sin(n)), 4, QMul(cp, sq))
  <2>1. 2 + 2 = 4 /\ 2 \in Nat
    OBVIOUS
  <2> HIDE DEF cp, cq, sp, sq
  <2>2. QED
    BY <1>2, <2>1, TimesIs
<1>6. Is(Neg(Times(Sin(m), Sin(n))), 4, QNeg(QMul(sp, sq)))
  BY <1>5, NegIs
<1>7. /\ Is(Plus(Times(Cos(m), Cos(n)), Neg(Times(Sin(m), Sin(n)))), 4, QAdd(QMul(cp, cq), QNeg(QMul(sp, sq))))
      /\ Is(Plus(Times(Sin(m), Cos(n)), Times(Cos(m), Sin(n))), 4, QAdd(QMul(sp, cq), QMul(cp, sq)))
  BY <1>5, <1>6, PlusIs
<1>8. /\ QAdd(QMul(cp, cq), QNeg(QMul(sp, sq))) = QAdd(CosQ(pq), CosQ(pq))
      /\ QAdd(QMul(sp, cq), QMul(cp, sq)) = QAdd(SinQ(pq), SinQ(pq))
  <2> DEFINE a == p[1] b == p[2] c == p[3] d == p[4] e == q[1] f == q[2] g == q[3] h == q[4]
             r1 == a*e - b*h - c*g - d*f
             r2 == a*f + b*e - c*h - d*g
             r3 == a*g + b*f + c*e - d*h
             r4 == a*h + b*g + c*f + d*e
  <2>1. /\ a \in Int /\ b \in Int /\ c \in Int /\ d \in Int
        /\ e \in Int /\ f \in Int /\ g \in Int /\ h \in Int
    BY <1>1, QuadParts
  <2>2. cp = <<a + a, b - d, 0, d - b>> /\ sp = <<c + c, b + d, 0, -(b + d)>>
    BY DEF CosQ, SinQ
  <2>3. cq = <<e + e, f - h, 0, h - f>> /\ sq = <<g + g, f + h, 0, -(f + h)>>
    BY DEF CosQ, SinQ
  <2>4. pq = <<r1, r2, r3, r4>>
    BY DEF QMul
  <2> HIDE DEF p, q, cp, cq, sp, sq, a, b, c, d, e, f, g, h, pq
  <2>5. r1 \in Int /\ r2 \in Int /\ r3 \in Int /\ r4 \in Int
    BY <2>1
  <2>6. QAdd(CosQ(pq), CosQ(pq)) = <<(r1 + r1) + (r1 + r1), (r2 - r4) + (r2 - r4), 0, (r4 - r2) + (r4 - r2)>>
    <3> HIDE DEF r1, r2, r3, r4
    <3>1. QED
      BY <2>4, <2>5 DEF CosQ, QAdd
  <2>7. QAdd(SinQ(pq), SinQ(pq)) = <<(r3 + r3) + (r3 + r3), (r2 + r4) + (r2 + r4), 0, (-(r2 + r4)) + (-(r2 + r4))>>
    <3> HIDE DEF r1, r2, r3, r4
    <3>1. QED
      BY <2>4, <2>5 DEF SinQ, QAdd
  <2>8. QAdd(QMul(cp, cq), QNeg(QMul(sp, sq)))
          = <<(r1 + r1) + (r1 + r1), (r2 - r4) + (r2 - r4), 0, (r4 - r2) + (r4 - r2)>>
    <3>1. QMul(cp, cq) = <<(a + a)*(e + e) - (b - d)*(h - f) - (d - b)*(f - h),
                           (a + a)*(f - h) + (b - d)*(e + e),
                           (b - d)*(f - h) - (d - b)*(h - f),
                           (a + a)*(h - f) + (d - b)*(e + e)>>
      BY <2>1, <2>2, <2>3 DEF QMul
    <3>2. QMul(sp, sq) = <<(c + c)*(g + g) + (b + d)*(f + h) + (b + d)*(f + h),
                           (c + c)*(f + h) + (b + d)*(g + g),
                           (b + d)*(f + h) - (b + d)*(f + h),
                           -((c + c)*(f + h)) - (b + d)*(g + g)>>
      BY <2>1, <2>2, <2>3 DEF QMul
    <3>3. QED
      BY <2>1, <3>1, <3>2 DEF QAdd, QNeg
  <2>9. QAdd(QMul(sp, cq), QMul(cp, sq))
          = <<(r3 + r3) + (r3 + r3), (r2 + r4) + (r2 + r4), 0, (-(r2 + r4)) + (-(r2 + r4))>>
    <3>1. QMul(sp, cq) = <<(c + c)*(e + e) - (b + d)*(h - f) + (b + d)*(f - h),
                           (c + c)*(f - h) + (b + d)*(e + e),
                           (b + d)*(f - h) + (b + d)*(h - f),
                           (c + c)*(h - f) - (b + d)*(e + e)>>
      BY <2>1, <2>2, <2>3 DEF QMul
    <3>2. QMul(cp, sq) = <<(a + a)*(g + g) + (b - d)*(f + h) - (d - b)*(f + h),
                           (a + a)*(f + h) + (b - d)*(g + g),
                           (b - d)*(f + h) + (d - b)*(f + h),
                           -((a + a)*(f + h)) + (d - b)*(g + g)>>
      BY <2>1, <2>2, <2>3 DEF QMul
    <3>3. QED
      BY <2>1, <3>1, <3>2 DEF QAdd
  <2>10. QED
    BY <2>6, <2>7, <2>8, <2>9
<1>9. QED
  BY <1>4, <1>7, <1>8, IsUnique

LEMMA ZeroAngle == Cos(0) = One /\ Sin(0) = Zero /\ Ei(0) = One
<1>1. Is(Cos(0), 2, <<2, 0, 0, 0>>) /\ Is(Sin(0), 2, Nought)
  BY CosIs, EqZero DEF CosQ, SinQ, Nought
<1>2. Is(Zero, 2, Nought)
  BY OneIs
<1>3. Is(One, 2, <<2, 0, 0, 0>>)
  <2>1. <<1, 0, 0, 0>> \in Quads
    BY QuadMake
  <2>2. Is(One, 0 + 2, Raise(<<1, 0, 0, 0>>, 2))
    BY OneIs, IsMore
  <2>3. Raise(<<1, 0, 0, 0>>, 0) = <<1, 0, 0, 0>>
        /\ Raise(<<1, 0, 0, 0>>, 0 + 1) = TimesRoot2(Raise(<<1, 0, 0, 0>>, 0))
        /\ Raise(<<1, 0, 0, 0>>, 1 + 1) = TimesRoot2(Raise(<<1, 0, 0, 0>>, 1))
    BY <2>1, RaiseSteps
  <2>4. Raise(<<1, 0, 0, 0>>, 2) = <<2, 0, 0, 0>>
    BY <2>3 DEF TimesRoot2
  <2>5. QED
    BY <2>2, <2>4
<1>4. Ei(0) = One
  BY DEF Ei, One, Int2Amp
<1>5. QED
  BY <1>1, <1>2, <1>3, <1>4, IsUnique

-----------------------------------------------------------------------------
(* The matrices of the gates.                                              *)

\* A gate of one or two wires, with a half angle where the matrix has one.
Plain(g) ==
    /\ {"op", "qs", "th"} \subseteq DOMAIN g
    /\ g.op \in OneQubit \cup Controlled \cup {"Swap", "Rbs", "Id", "Barrier", "Measure"}
    /\ g.qs \in Seq(Qubits)
    /\ g.op \in OneQubit => Len(g.qs) = 1
    /\ g.op \in Controlled \cup {"Swap", "Rbs"} => Len(g.qs) = 2 /\ g.qs[1] # g.qs[2]
    /\ g.th \in [1..Angles(g.op) -> Int]
    /\ g.op \in {"Rx", "Ry", "Rz"} => g.th[1] % 2 = 0

GateMatrix(g) ==
    IF g.op \in OneQubit THEN Matrix(g)
    ELSE IF g.op \in Controlled THEN Block(g)
    ELSE IF g.op = "Rbs" THEN RbsBlock(g.th[1])
    ELSE XMat

LEMMA Constants ==
  /\ One \in Amps /\ Zero \in Amps /\ ISqrt2 \in Amps /\ ImUnit \in Amps
  /\ \A m \in Int : Ei(m) \in Amps /\ Cos(m) \in Amps /\ Sin(m) \in Amps
  /\ \A x, y \in Amps : Plus(x, y) \in Amps /\ Times(x, y) \in Amps /\ Neg(x) \in Amps
<1>1. ISqrt2 \in Amps
  <2>1. ISqrt2 \in [k : Nat, c : Quads] /\ ISqrt2.c[1] = 1 /\ ISqrt2.c[3] = 0
    BY QuadMake DEF ISqrt2
  <2>2. (1 - 0) % 2 # 0
    OBVIOUS
  <2>3. QED
    BY <2>1, <2>2 DEF Amps, Reducible
<1>2. ImUnit \in Amps /\ One \in Amps /\ Zero \in Amps
  BY OneIs, EiType DEF ImUnit
<1>3. \A m \in Int : Ei(m) \in Amps
  BY EiType
<1>4. \A m \in Int : Cos(m) \in Amps /\ Sin(m) \in Amps
  BY CosIs
<1>5. \A x, y \in Amps : Plus(x, y) \in Amps /\ Times(x, y) \in Amps /\ Neg(x) \in Amps
  BY RingTypes
<1>6. QED
  BY <1>1, <1>2, <1>3, <1>4, <1>5

LEMMA U3Type ==
  ASSUME NEW x \in Int, NEW y \in Int, NEW z \in Int
  PROVE  IsMatrix(U3Matrix(x, y, z))
<1>1. x \div 2 \in Int /\ y + z \in Int
  OBVIOUS
<1> DEFINE ct == Cos(x \div 2)
           st == Sin(x \div 2)
<1>2. ct \in Amps /\ st \in Amps /\ Ei(y) \in Amps /\ Ei(z) \in Amps /\ Ei(y + z) \in Amps
  BY <1>1, Constants
<1>3. U3Matrix(x, y, z) = <<ct, Neg(Times(Ei(z), st)), Times(Ei(y), st), Times(Ei(y + z), ct)>>
  BY DEF U3Matrix
<1> HIDE DEF ct, st
<1>4. Neg(Times(Ei(z), st)) \in Amps /\ Times(Ei(y), st) \in Amps /\ Times(Ei(y + z), ct) \in Amps
  BY <1>2, Constants
<1>5. QED
  BY <1>2, <1>3, <1>4 DEF IsMatrix

LEMMA RotationTypes ==
  ASSUME NEW x \in Int
  PROVE  /\ IsMatrix(RzMatrix(x)) /\ IsMatrix(RbsBlock(x)) /\ IsDiagonal(RzMatrix(x))
         /\ x \div 2 \in Int
         /\ Neg(Sin(x)) \in Amps /\ Neg(Times(ImUnit, Sin(x))) \in Amps
<1>1. x \div 2 \in Int /\ -(x \div 2) \in Int
  OBVIOUS
<1>2. /\ Cos(x) \in Amps /\ Sin(x) \in Amps /\ Ei(x \div 2) \in Amps /\ Ei(-(x \div 2)) \in Amps
      /\ Zero \in Amps /\ ImUnit \in Amps
  BY <1>1, Constants
<1>3. Neg(Sin(x)) \in Amps /\ Neg(Times(ImUnit, Sin(x))) \in Amps
  BY <1>2, Constants
<1>4. QED
  BY <1>1, <1>2, <1>3 DEF IsMatrix, RzMatrix, RbsBlock, IsDiagonal

LEMMA MatrixType ==
  ASSUME NEW g, Plain(g)
  PROVE  IsMatrix(GateMatrix(g))
<1>1. /\ One \in Amps /\ Zero \in Amps /\ ISqrt2 \in Amps /\ ImUnit \in Amps
      /\ Neg(One) \in Amps /\ Neg(ISqrt2) \in Amps /\ Neg(ImUnit) \in Amps
  BY Constants
<1>2. /\ Ei(1) \in Amps /\ Ei(-1) \in Amps
  BY Constants
<1>3. Angles(g.op) \in Nat /\ g.th \in [1..Angles(g.op) -> Int]
  BY DEF Plain, Angles
<1>4. CASE g.op \in {"H", "X", "Y", "Z", "S", "Sdg", "T", "Tdg"}
  BY <1>1, <1>2, <1>4 DEF GateMatrix, Matrix, IsMatrix, OneQubit
<1>5. CASE g.op \in {"Sx", "Sxdg"}
  <2>1. \A s \in {-1, 1} : IsMatrix(SxMatrix(s))
    <3>1. Ei(-(-1)) \in Amps
      BY Constants
    <3>2. Times(ISqrt2, Ei(1)) \in Amps /\ Times(ISqrt2, Ei(-1)) \in Amps /\ Times(ISqrt2, Ei(-(-1))) \in Amps
      BY <1>1, <1>2, <3>1, Constants
    <3>3. QED
      BY <3>2 DEF SxMatrix, IsMatrix
  <2>2. GateMatrix(g) = SxMatrix(1) \/ GateMatrix(g) = SxMatrix(-1)
    BY <1>5 DEF GateMatrix, Matrix, OneQubit
  <2>3. QED
    BY <2>1, <2>2
<1>6. CASE g.op \in {"Rx", "Ry", "Rz", "U1", "CRz", "Rbs"}
  <2> DEFINE x == g.th[1]
             h == x \div 2
  <2>1. x \in Int
    BY <1>3, <1>6 DEF Angles
  <2>2. h \in Int
    BY <2>1
  <2>3. /\ Cos(h) \in Amps /\ Sin(h) \in Amps /\ Neg(Sin(h)) \in Amps /\ Neg(Times(ImUnit, Sin(h))) \in Amps
        /\ Ei(x) \in Amps /\ IsMatrix(RzMatrix(x)) /\ IsMatrix(RbsBlock(x))
    BY <2>1, <2>2, RotationTypes, Constants
  <2>4. CASE g.op = "Rx"
    <3>1. GateMatrix(g) = <<Cos(h), Neg(Times(ImUnit, Sin(h))), Neg(Times(ImUnit, Sin(h))), Cos(h)>>
      BY <2>4 DEF GateMatrix, Matrix, OneQubit
    <3>2. QED
      BY <2>3, <3>1 DEF IsMatrix
  <2>5. CASE g.op = "Ry"
    <3>1. GateMatrix(g) = <<Cos(h), Neg(Sin(h)), Sin(h), Cos(h)>>
      BY <2>5 DEF GateMatrix, Matrix, OneQubit
    <3>2. QED
      BY <2>3, <3>1 DEF IsMatrix
  <2>6. CASE g.op \in {"Rz", "CRz"}
    <3>1. GateMatrix(g) = RzMatrix(x)
      BY <2>6 DEF GateMatrix, Matrix, Block, OneQubit, Controlled
    <3>2. QED
      BY <2>3, <3>1
  <2>7. CASE g.op = "U1"
    <3>1. GateMatrix(g) = <<One, Zero, Zero, Ei(x)>>
      BY <2>7 DEF GateMatrix, Matrix, OneQubit
    <3>2. QED
      BY <1>1, <2>3, <3>1 DEF IsMatrix
  <2>8. CASE g.op = "Rbs"
    <3>1. GateMatrix(g) = RbsBlock(x)
      BY <2>8 DEF GateMatrix, OneQubit, Controlled
    <3>2. QED
      BY <2>3, <3>1
  <2>9. QED
    BY <1>6, <2>4, <2>5, <2>6, <2>7, <2>8
<1>7. CASE g.op = "U2"
  <2>1. g.th[1] \in Int /\ g.th[2] \in Int
    BY <1>3, <1>7 DEF Angles
  <2>2. GateMatrix(g) = U3Matrix(2, g.th[1], g.th[2])
    BY <1>7 DEF GateMatrix, Matrix, OneQubit
  <2>3. QED
    BY <2>1, <2>2, U3Type
<1>8. CASE g.op \in {"U3", "CU3"}
  <2>1. g.th[1] \in Int /\ g.th[2] \in Int /\ g.th[3] \in Int
    BY <1>3, <1>8 DEF Angles
  <2>2. GateMatrix(g) = U3Matrix(g.th[1], g.th[2], g.th[3])
    BY <1>8 DEF GateMatrix, Matrix, Block, OneQubit, Controlled
  <2>3. QED
    BY <2>1, <2>2, U3Type
<1>9. CASE g.op \in {"CX", "CY", "CZ"}
  BY <1>1, <1>9 DEF GateMatrix, Block, IsMatrix, OneQubit, Controlled
<1>10. CASE g.op \in {"Swap", "Id", "Barrier", "Measure"}
  BY <1>10, XIsMatrix DEF GateMatrix, OneQubit, Controlled
<1>11. QED
  BY <1>4, <1>5, <1>6, <1>7, <1>8, <1>9, <1>10 DEF Plain, OneQubit, Controlled

-----------------------------------------------------------------------------
(* Products of matrices.                                                   *)

LEMMA DiagonalProduct ==
  ASSUME NEW m, IsMatrix(m), IsDiagonal(m), NEW n, IsMatrix(n), IsDiagonal(n)
  PROVE  MatTimes(m, n) = <<Times(m[1], n[1]), Zero, Zero, Times(m[4], n[4])>>
<1> DEFINE a == m[1] b == m[4] c == n[1] d == n[4]
<1>1. a \in Amps /\ b \in Amps /\ c \in Amps /\ d \in Amps
  BY DEF IsMatrix
<1>2. Times(a, c) \in Amps /\ Times(b, d) \in Amps /\ Zero \in Amps
  BY <1>1, Constants
<1>3. /\ Times(Zero, Zero) = Zero /\ Times(a, Zero) = Zero /\ Times(b, Zero) = Zero
      /\ Times(Zero, c) = Zero /\ Times(Zero, d) = Zero
  BY <1>1, <1>2, TimesLaws
<1>4. /\ Plus(Zero, Zero) = Zero
      /\ Plus(Times(a, c), Zero) = Times(a, c) /\ Plus(Zero, Times(b, d)) = Times(b, d)
  BY <1>2, PlusLaws
<1>5. m[2] = Zero /\ m[3] = Zero /\ n[2] = Zero /\ n[3] = Zero
  BY DEF IsDiagonal
<1>6. QED
  BY <1>3, <1>4, <1>5 DEF MatTimes

LEMMA Signs ==
  ASSUME NEW x \in Amps, NEW y \in Amps
  PROVE  /\ Times(Neg(x), Neg(y)) = Times(x, y)
         /\ Times(Neg(x), y) = Neg(Times(x, y)) /\ Times(x, Neg(y)) = Neg(Times(x, y))
         /\ Times(Neg(Times(ImUnit, x)), Neg(Times(ImUnit, y))) = Neg(Times(x, y))
         /\ Times(ImUnit, ImUnit) = Neg(One)
<1>1. ASSUME NEW p \in Amps, NEW q \in Amps
      PROVE  /\ Times(Neg(p), Neg(q)) = Times(p, q)
             /\ Times(Neg(p), q) = Neg(Times(p, q)) /\ Times(p, Neg(q)) = Neg(Times(p, q))
  <2>1. Neg(q) \in Amps /\ Times(p, q) \in Amps
    BY RingTypes
  <2>2. Times(Neg(p), Neg(q)) = Neg(Times(p, Neg(q)))
    BY <2>1, TimesLaws
  <2>3. Times(p, Neg(q)) = Neg(Times(p, q)) /\ Times(Neg(p), q) = Neg(Times(p, q))
    BY TimesLaws
  <2>4. Neg(Neg(Times(p, q))) = Times(p, q)
    BY <2>1, PlusLaws
  <2>5. QED
    BY <2>2, <2>3, <2>4
<1>2. Times(ImUnit, ImUnit) = Neg(One)
  <2>1. Times(ImUnit, ImUnit) = Ei(4)
    <3>1. 2 + 2 = 4
      OBVIOUS
    <3>2. QED
      BY <3>1, EiTimes DEF ImUnit
  <2>2. 4 % 8 = 4
    OBVIOUS
  <2>3. Ei(4) = [k |-> 0, c |-> <<-1, 0, 0, 0>>]
    BY <2>2 DEF Ei
  <2>4. Neg(One) = [k |-> 0, c |-> <<-1, 0, 0, 0>>]
    BY DEF Neg, QNeg, One, Int2Amp
  <2>5. QED
    BY <2>1, <2>3, <2>4
<1>3. Times(Neg(Times(ImUnit, x)), Neg(Times(ImUnit, y))) = Neg(Times(x, y))
  <2>1. ImUnit \in Amps /\ One \in Amps
    BY Constants
  <2>2. Times(ImUnit, x) \in Amps /\ Times(ImUnit, y) \in Amps /\ Times(x, y) \in Amps
    BY <2>1, RingTypes
  <2>3. Times(Neg(Times(ImUnit, x)), Neg(Times(ImUnit, y))) = Times(Times(ImUnit, x), Times(ImUnit, y))
    BY <2>2, <1>1
  <2>4. Times(Times(ImUnit, x), Times(ImUnit, y)) = Times(ImUnit, Times(Times(ImUnit, x), y))
    BY <2>1, <2>2, Past
  <2>5. Times(Times(ImUnit, x), y) = Times(ImUnit, Times(x, y))
    BY <2>1, Past
  <2>6. Times(ImUnit, Times(ImUnit, Times(x, y))) = Times(Times(ImUnit, ImUnit), Times(x, y))
    BY <2>1, <2>2, Past
  <2>7. Times(Neg(One), Times(x, y)) = Neg(Times(One, Times(x, y))) /\ Times(One, Times(x, y)) = Times(x, y)
    BY <2>1, <2>2, TimesLaws
  <2>8. QED
    BY <1>2, <2>3, <2>4, <2>5, <2>6, <2>7
<1>4. QED
  BY <1>1, <1>2, <1>3

\* The pairs that the optimizer cancels are inverse.
LEMMA Inverses ==
  ASSUME NEW g, g.op \in {"H", "X", "Y", "Z", "CX", "CZ", "Swap"}
  PROVE  MatTimes(GateMatrix(g), GateMatrix(g)) = Unit
<1>1. One \in Amps /\ Zero \in Amps /\ ISqrt2 \in Amps /\ ImUnit \in Amps
  BY Constants
<1>2. /\ Times(Zero, Zero) = Zero /\ Times(Zero, One) = Zero /\ Times(One, Zero) = Zero /\ Times(One, One) = One
      /\ Plus(Zero, Zero) = Zero /\ Plus(Zero, One) = One /\ Plus(One, Zero) = One
  BY <1>1, TimesLaws, PlusLaws
<1>3. CASE g.op \in {"X", "CX", "Swap"}
  <2>1. GateMatrix(g) = <<Zero, One, One, Zero>>
    BY <1>3 DEF GateMatrix, Matrix, Block, OneQubit, Controlled, XMat
  <2>2. QED
    BY <1>2, <2>1 DEF MatTimes, Unit
<1>4. CASE g.op \in {"Z", "CZ"}
  <2>1. GateMatrix(g) = <<One, Zero, Zero, Neg(One)>>
    BY <1>4 DEF GateMatrix, Matrix, Block, OneQubit, Controlled
  <2>2. Times(Neg(One), Neg(One)) = One /\ Neg(One) \in Amps
    BY <1>1, <1>2, Signs, Constants
  <2>3. Times(Zero, Neg(One)) = Zero /\ Times(Neg(One), Zero) = Zero
    BY <1>1, <2>2, TimesLaws
  <2>4. QED
    BY <1>2, <2>1, <2>2, <2>3 DEF MatTimes, Unit
<1>5. CASE g.op = "Y"
  <2>1. GateMatrix(g) = <<Zero, Neg(ImUnit), ImUnit, Zero>>
    BY <1>5 DEF GateMatrix, Matrix, OneQubit
  <2>2. Neg(ImUnit) \in Amps
    BY <1>1, Constants
  <2>3. /\ Times(Neg(ImUnit), ImUnit) = Neg(Times(ImUnit, ImUnit)) /\ Times(ImUnit, Neg(ImUnit)) = Neg(Times(ImUnit, ImUnit))
        /\ Times(ImUnit, ImUnit) = Neg(One) /\ Neg(Neg(One)) = One
    BY <1>1, Signs, PlusLaws
  <2>4. /\ Times(Zero, ImUnit) = Zero /\ Times(ImUnit, Zero) = Zero
        /\ Times(Zero, Neg(ImUnit)) = Zero /\ Times(Neg(ImUnit), Zero) = Zero
    BY <1>1, <2>2, TimesLaws
  <2>5. QED
    BY <1>2, <2>1, <2>3, <2>4 DEF MatTimes, Unit
<1>6. CASE g.op = "H"
  <2> DEFINE r == ISqrt2
  <2>1. GateMatrix(g) = <<r, r, r, Neg(r)>>
    BY <1>6 DEF GateMatrix, Matrix, OneQubit
  <2>2. Plus(Times(r, r), Times(r, r)) = One
    <3>1. r.k = 1 /\ r.c = <<1, 0, 0, 0>> /\ <<1, 0, 0, 0>> \in Quads
      BY QuadMake DEF ISqrt2
    <3>2. Is(r, 1, <<1, 0, 0, 0>>)
      BY <1>1, <3>1, IsSelf
    <3>3. Is(Times(r, r), 1 + 1, QMul(<<1, 0, 0, 0>>, <<1, 0, 0, 0>>))
      BY <3>2, TimesIs
    <3>4. QMul(<<1, 0, 0, 0>>, <<1, 0, 0, 0>>) = <<1, 0, 0, 0>>
      BY <3>1, QuadLaws
    <3>5. Is(Plus(Times(r, r), Times(r, r)), 2, QAdd(<<1, 0, 0, 0>>, <<1, 0, 0, 0>>))
      BY <3>3, <3>4, PlusIs
    <3>6. QAdd(<<1, 0, 0, 0>>, <<1, 0, 0, 0>>) = <<2, 0, 0, 0>>
      BY DEF QAdd
    <3>7. Is(One, 2, <<2, 0, 0, 0>>)
      BY ZeroAngle, CosIs, EqZero DEF CosQ
    <3>8. QED
      BY <3>5, <3>6, <3>7, IsUnique
  <2>3. Times(r, r) \in Amps /\ Neg(r) \in Amps /\ r \in Amps
    BY <1>1, Constants
  <2>4. /\ Times(r, Neg(r)) = Neg(Times(r, r)) /\ Times(Neg(r), r) = Neg(Times(r, r))
        /\ Times(Neg(r), Neg(r)) = Times(r, r)
    BY <2>3, Signs
  <2>5. Plus(Times(r, r), Neg(Times(r, r))) = Zero
    BY <2>3, PlusLaws
  <2> HIDE DEF r
  <2>6. QED
    BY <2>1, <2>2, <2>4, <2>5 DEF MatTimes, Unit
<1>7. QED
  BY <1>3, <1>4, <1>5, <1>6

-----------------------------------------------------------------------------
(* The gates as kernels.                                                   *)

Side(inside) == IF inside THEN "high" ELSE "low"

Role(g) ==
    [b \in Basis |->
        IF g.op \in OneQubit THEN Side(g.qs[1] \in b)
        ELSE IF g.op \in Controlled THEN (IF g.qs[1] \in b THEN Side(g.qs[2] \in b) ELSE "none")
        ELSE IF g.op \in {"Swap", "Rbs"}
             THEN (IF (g.qs[1] \in b) = (g.qs[2] \in b) THEN "none" ELSE Side(g.qs[1] \in b))
        ELSE "none"]

Partner(g) ==
    [b \in Basis |->
        IF g.op \in OneQubit THEN Flip(b, g.qs[1])
        ELSE IF g.op \in Controlled THEN Flip(b, g.qs[2])
        ELSE IF g.op \in {"Swap", "Rbs"} THEN Swapped(b, g.qs[1], g.qs[2])
        ELSE b]

LEMMA FlipLaws ==
  ASSUME NEW q \in Qubits, NEW b \in Basis
  PROVE  /\ Flip(b, q) \in Basis /\ Flip(Flip(b, q), q) = b
         /\ q \in Flip(b, q) <=> q \notin b
         /\ \A p : p # q => (p \in Flip(b, q) <=> p \in b)
         /\ q \in b => Flip(b, q) = b \ {q}
         /\ q \notin b => Flip(b, q) = b \cup {q}
BY DEF Flip, SymDiff, Basis

LEMMA SwapLaws ==
  ASSUME NEW p \in Qubits, NEW q \in Qubits, p # q, NEW b \in Basis
  PROVE  /\ Swapped(b, p, q) \in Basis /\ Swapped(Swapped(b, p, q), p, q) = b
         /\ p \in Swapped(b, p, q) <=> q \in b
         /\ q \in Swapped(b, p, q) <=> p \in b
         /\ \A r : r # p /\ r # q => (r \in Swapped(b, p, q) <=> r \in b)
         /\ (p \in b) = (q \in b) => Swapped(b, p, q) = b
BY DEF Swapped, SymDiff, Basis

LEMMA Wires ==
  ASSUME NEW g, Plain(g)
  PROVE  /\ g.op \in OneQubit => g.qs[1] \in Qubits
         /\ g.op \in Controlled \cup {"Swap", "Rbs"} => /\ g.qs[1] \in Qubits /\ g.qs[2] \in Qubits
                                                       /\ g.qs[1] # g.qs[2]
BY DEF Plain

LEMMA GatePairing ==
  ASSUME NEW g, Plain(g)
  PROVE  Pairing(Role(g), Partner(g))
<1>1. Role(g) \in [Basis -> Roles]
  BY DEF Role, Roles, Side
<1> DEFINE p == g.qs[1]
           q == g.qs[2]
<1>2. ASSUME NEW b \in Basis
      PROVE  /\ Partner(g)[b] \in Basis /\ Partner(g)[Partner(g)[b]] = b
             /\ Role(g)[b] = "low" => Role(g)[Partner(g)[b]] = "high"
             /\ Role(g)[b] = "high" => Role(g)[Partner(g)[b]] = "low"
  <2>1. CASE g.op \in OneQubit
    <3>1. \A c \in Basis : Role(g)[c] = Side(p \in c) /\ Partner(g)[c] = Flip(c, p)
      BY <2>1 DEF Role, Partner
    <3>2. p \in Qubits
      BY <2>1, Wires
    <3> HIDE DEF p
    <3>3. QED
      BY <3>1, <3>2, FlipLaws DEF Side
  <2>2. CASE g.op \in Controlled
    <3>1. \A c \in Basis : Role(g)[c] = (IF p \in c THEN Side(q \in c) ELSE "none") /\ Partner(g)[c] = Flip(c, q)
      BY <2>2 DEF Role, Partner, OneQubit, Controlled
    <3>2. p \in Qubits /\ q \in Qubits /\ p # q
      BY <2>2, Wires
    <3> HIDE DEF p, q
    <3>3. QED
      BY <3>1, <3>2, FlipLaws DEF Side
  <2>3. CASE g.op \in {"Swap", "Rbs"}
    <3>1. \A c \in Basis : /\ Role(g)[c] = (IF (p \in c) = (q \in c) THEN "none" ELSE Side(p \in c))
                           /\ Partner(g)[c] = Swapped(c, p, q)
      BY <2>3 DEF Role, Partner, OneQubit, Controlled
    <3>2. p \in Qubits /\ q \in Qubits /\ p # q
      BY <2>3, Wires
    <3> HIDE DEF p, q
    <3>3. QED
      BY <3>1, <3>2, SwapLaws DEF Side
  <2>4. CASE g.op \notin OneQubit \cup Controlled \cup {"Swap", "Rbs"}
    BY <2>4 DEF Role, Partner
  <2>5. QED
    BY <2>1, <2>2, <2>3, <2>4
<1>3. Partner(g) \in [Basis -> Basis]
  <2>1. Partner(g) = [b \in Basis |-> Partner(g)[b]]
    BY DEF Partner
  <2>2. QED
    BY <1>2, <2>1
<1>4. QED
  BY <1>1, <1>2, <1>3 DEF Pairing

LEMMA GateKernel ==
  ASSUME NEW g, Plain(g), NEW v \in Vectors
  PROVE  ApplyGate(v, g) = Kernel(v, Role(g), Partner(g), GateMatrix(g))
<1> DEFINE p == g.qs[1]
           q == g.qs[2]
           k == Kernel(v, Role(g), Partner(g), GateMatrix(g))
<1>1. k = [b \in Basis |-> KernelAt(v, Role(g)[b], Partner(g)[b], GateMatrix(g), b)]
  BY DEF Kernel
<1>2. CASE g.op \in OneQubit
  <2> DEFINE m == Matrix(g)
  <2>1. ApplyGate(v, g) = Apply1(v, p, m) /\ GateMatrix(g) = m
    BY <1>2 DEF ApplyGate, GateMatrix, OneQubit, Controlled
  <2>2. p \in Qubits
    BY <1>2, Wires
  <2>3. \A b \in Basis : Role(g)[b] = Side(p \in b) /\ Partner(g)[b] = Flip(b, p)
    BY <1>2 DEF Role, Partner
  <2> HIDE DEF p, m
  <2>4. ASSUME NEW b \in Basis
        PROVE  KernelAt(v, Role(g)[b], Partner(g)[b], m, b)
                 = IF p \in b THEN Plus(Times(m[3], v[b \ {p}]), Times(m[4], v[b]))
                   ELSE Plus(Times(m[1], v[b]), Times(m[2], v[b \cup {p}]))
    BY <2>2, <2>3, FlipLaws DEF KernelAt, Side
  <2>5. QED
    BY <1>1, <2>1, <2>4 DEF Apply1
<1>3. CASE g.op \in Controlled
  <2> DEFINE m == Block(g)
  <2>1. ApplyGate(v, g) = ApplyControlled(v, p, q, m) /\ GateMatrix(g) = m
    BY <1>3 DEF ApplyGate, GateMatrix, OneQubit, Controlled
  <2>2. q \in Qubits
    BY <1>3, Wires
  <2>3. \A b \in Basis : Role(g)[b] = (IF p \in b THEN Side(q \in b) ELSE "none") /\ Partner(g)[b] = Flip(b, q)
    BY <1>3 DEF Role, Partner, OneQubit, Controlled
  <2> HIDE DEF p, q, m
  <2>4. ASSUME NEW b \in Basis
        PROVE  KernelAt(v, Role(g)[b], Partner(g)[b], m, b)
                 = IF p \notin b THEN v[b]
                   ELSE IF q \in b THEN Plus(Times(m[3], v[b \ {q}]), Times(m[4], v[b]))
                   ELSE Plus(Times(m[1], v[b]), Times(m[2], v[b \cup {q}]))
    BY <2>2, <2>3, FlipLaws DEF KernelAt, Side
  <2>5. QED
    BY <1>1, <2>1, <2>4 DEF ApplyControlled
<1>4. CASE g.op = "Rbs"
  <2> DEFINE m == RbsBlock(g.th[1])
  <2>1. ApplyGate(v, g) = ApplyMiddle(v, p, q, m) /\ GateMatrix(g) = m
    BY <1>4 DEF ApplyGate, GateMatrix, OneQubit, Controlled
  <2>2. \A b \in Basis : /\ Role(g)[b] = (IF (p \in b) = (q \in b) THEN "none" ELSE Side(p \in b))
                         /\ Partner(g)[b] = Swapped(b, p, q)
    BY <1>4 DEF Role, Partner, OneQubit, Controlled
  <2> HIDE DEF p, q, m
  <2>3. ASSUME NEW b \in Basis
        PROVE  KernelAt(v, Role(g)[b], Partner(g)[b], m, b)
                 = IF (p \in b) = (q \in b) THEN v[b]
                   ELSE IF p \in b THEN Plus(Times(m[3], v[Swapped(b, p, q)]), Times(m[4], v[b]))
                   ELSE Plus(Times(m[1], v[b]), Times(m[2], v[Swapped(b, p, q)]))
    BY <2>2 DEF KernelAt, Side
  <2>4. QED
    BY <1>1, <2>1, <2>3 DEF ApplyMiddle
<1>5. CASE g.op = "Swap"
  <2>1. ApplyGate(v, g) = [b \in Basis |-> v[Swapped(b, p, q)]] /\ GateMatrix(g) = XMat
    BY <1>5 DEF ApplyGate, GateMatrix, OneQubit, Controlled
  <2>2. \A b \in Basis : /\ Role(g)[b] = (IF (p \in b) = (q \in b) THEN "none" ELSE Side(p \in b))
                         /\ Partner(g)[b] = Swapped(b, p, q)
    BY <1>5 DEF Role, Partner, OneQubit, Controlled
  <2>3. p \in Qubits /\ q \in Qubits /\ p # q
    BY <1>5, Wires
  <2> HIDE DEF p, q, k
  <2>4. ASSUME NEW b \in Basis PROVE k[b] = v[Swapped(b, p, q)]
    <3>1. k[b] = v[IF Role(g)[b] = "none" THEN b ELSE Partner(g)[b]]
      BY <2>1, GatePairing, ExchangeAt DEF k
    <3>2. QED
      BY <2>2, <2>3, <3>1, SwapLaws DEF Side
  <2>5. k = [b \in Basis |-> k[b]]
    BY <1>1
  <2>6. QED
    BY <2>1, <2>4, <2>5 DEF k
<1>6. CASE g.op \in {"Id", "Barrier", "Measure"}
  <2>1. ApplyGate(v, g) = v
    BY <1>6 DEF ApplyGate, OneQubit, Controlled
  <2>2. \A b \in Basis : Role(g)[b] = "none"
    BY <1>6 DEF Role, OneQubit, Controlled
  <2>3. \A b \in Basis : KernelAt(v, Role(g)[b], Partner(g)[b], GateMatrix(g), b) = v[b]
    BY <2>2 DEF KernelAt
  <2>4. QED
    BY <1>1, <2>1, <2>3 DEF Vectors
<1>7. QED
  BY <1>2, <1>3, <1>4, <1>5, <1>6 DEF Plain

LEMMA GateType ==
  ASSUME NEW g, Plain(g), NEW v \in Vectors
  PROVE  ApplyGate(v, g) \in Vectors
BY GateKernel, GatePairing, MatrixType, KernelType

LEMMA FlipsCommute ==
  ASSUME NEW b \in Basis, NEW p \in Qubits, NEW q \in Qubits, NEW t \in Qubits, q # p, q # t, p # t
  PROVE  /\ Flip(Flip(b, q), t) = Flip(Flip(b, t), q)
         /\ Flip(Swapped(b, p, t), q) = Swapped(Flip(b, q), p, t)
BY DEF Flip, Swapped, SymDiff, Basis

-----------------------------------------------------------------------------
(* Folds.                                                                  *)

\* What one step of a fold over S makes of a value in V; which element of a
\* set goes last.
Folder(step, ch, S, V) ==
    /\ step \in [S \X V -> V]
    /\ \A s \in SUBSET S : s # {} => ch[s] \in s

\* f is the function that the fold defines.
FoldsTo(f, base, step, ch, S) ==
    f = [s \in SUBSET S |-> IF s = {} THEN base ELSE step[<<ch[s], f[s \ {ch[s]}]>>]]

\* A fold whose steps stay in V has a value, in V throughout.
LEMMA FoldExists ==
  ASSUME NEW S, IsFiniteSet(S), NEW V, NEW base, base \in V, NEW step, NEW ch, Folder(step, ch, S, V)
  PROVE  \E f : f \in [SUBSET S -> V] /\ FoldsTo(f, base, step, ch, S)
<1> DEFINE L == Cardinality(S)
           Small(m) == {s \in SUBSET S : Cardinality(s) <= m}
           Right(f, s) == f[s] = IF s = {} THEN base ELSE step[<<ch[s], f[s \ {ch[s]}]>>]
           P == {m \in 0..L : \E f : f \in [Small(m) -> V] /\ \A s \in Small(m) : Right(f, s)}
<1>1. L \in Nat /\ \A s \in SUBSET S : IsFiniteSet(s) /\ Cardinality(s) \in Nat /\ Cardinality(s) <= L
  BY FS_CardinalityType, FS_Subset
<1>2. \A s \in SUBSET S : s # {} => /\ ch[s] \in s /\ ch[s] \in S
                                    /\ Cardinality(s) >= 1
                                    /\ s \ {ch[s]} \in SUBSET S
                                    /\ Cardinality(s \ {ch[s]}) = Cardinality(s) - 1
  <2> TAKE s \in SUBSET S
  <2> HAVE s # {}
  <2>1. ch[s] \in s
    BY DEF Folder
  <2>2. Cardinality(s \ {ch[s]}) = Cardinality(s) - 1 /\ IsFiniteSet(s \ {ch[s]})
    BY <1>1, <2>1, FS_RemoveElement
  <2>3. Cardinality(s \ {ch[s]}) \in Nat
    BY <2>2, FS_CardinalityType
  <2>4. QED
    BY <1>1, <2>1, <2>2, <2>3
<1>3. 0 \in P
  <2>1. Small(0) = {{}}
    <3>1. ASSUME NEW s \in SUBSET S, Cardinality(s) <= 0 PROVE s = {}
      <4>1. IsFiniteSet(s) /\ Cardinality(s) = 0
        BY <1>1, <3>1
      <4>2. QED
        BY <4>1, FS_EmptySet
    <3>2. {} \in SUBSET S /\ Cardinality({}) = 0
      BY FS_EmptySet
    <3>3. QED
      BY <3>1, <3>2
  <2> DEFINE f == [s \in Small(0) |-> base]
  <2>2. f \in [Small(0) -> V] /\ \A s \in Small(0) : Right(f, s)
    BY <2>1
  <2> HIDE DEF f, Small, Right
  <2>3. QED
    BY <1>1, <2>2
<1>4. ASSUME NEW m \in 1..L, m - 1 \in P
      PROVE  m \in P
  <2>1. PICK f : f \in [Small(m - 1) -> V] /\ \A s \in Small(m - 1) : Right(f, s)
    BY <1>4
  <2> DEFINE T == Small(m)
             R == Small(m - 1)
             g == [s \in T |-> IF s = {} THEN base ELSE step[<<ch[s], f[s \ {ch[s]}]>>]]
  <2>2. \A s \in T : s # {} => s \ {ch[s]} \in R /\ ch[s] \in S
    BY <1>1, <1>2
  <2>3. R \subseteq T
    BY <1>1
  <2>4. \A s \in R : g[s] = f[s]
    BY <2>1, <2>3
  <2>5. \A s \in T : s # {} => f[s \ {ch[s]}] \in V
    BY <2>1, <2>2
  <2>6. \A s \in T : s # {} => step[<<ch[s], f[s \ {ch[s]}]>>] \in V
    BY <2>2, <2>5 DEF Folder
  <2>7. g \in [T -> V]
    BY <2>6
  <2>8. \A s \in T : Right(g, s)
    <3> TAKE s \in T
    <3>1. s # {} => g[s \ {ch[s]}] = f[s \ {ch[s]}]
      BY <2>2, <2>4
    <3>2. g[s] = IF s = {} THEN base ELSE step[<<ch[s], f[s \ {ch[s]}]>>]
      OBVIOUS
    <3> HIDE DEF g
    <3>3. QED
      BY <3>1, <3>2
  <2> HIDE DEF g, Right, Small
  <2>9. QED
    BY <2>7, <2>8
<1>5. L \in P
  <2>1. \A m \in 0..L : m \in P
    <3> HIDE DEF P, L
    <3>1. QED
      BY <1>1, <1>3, <1>4, UpToInduction
  <2>2. L \in 0..L
    BY <1>1
  <2> HIDE DEF P, L
  <2>3. QED
    BY <2>1, <2>2
<1>6. PICK f : f \in [Small(L) -> V] /\ \A s \in Small(L) : Right(f, s)
  BY <1>5
<1>7. Small(L) = SUBSET S
  BY <1>1
<1> HIDE DEF Small, L
<1>8. FoldsTo(f, base, step, ch, S)
  BY <1>6, <1>7 DEF FoldsTo
<1>9. QED
  BY <1>6, <1>7, <1>8

\* What holds of the empty set, and of a set when it holds without one of its
\* elements, holds of every finite set.
LEMMA FoldStays ==
  ASSUME NEW S, IsFiniteSet(S), NEW V, NEW f, f[{}] \in V,
         \A s \in SUBSET S : s # {} => \E x \in s : f[s \ {x}] \in V => f[s] \in V
  PROVE  f[S] \in V
<1> DEFINE L == Cardinality(S)
           P == {m \in 0..L : \A s \in SUBSET S : Cardinality(s) <= m => f[s] \in V}
<1>1. L \in Nat /\ \A s \in SUBSET S : IsFiniteSet(s) /\ Cardinality(s) \in Nat /\ Cardinality(s) <= L
  BY FS_CardinalityType, FS_Subset
<1>2. ASSUME NEW s \in SUBSET S, NEW x \in s
      PROVE  /\ Cardinality(s) >= 1 /\ s \ {x} \in SUBSET S
             /\ Cardinality(s \ {x}) = Cardinality(s) - 1
  <2>1. IsFiniteSet(s) /\ Cardinality(s) \in Nat
    BY <1>1
  <2>2. Cardinality(s \ {x}) = Cardinality(s) - 1 /\ IsFiniteSet(s \ {x})
    BY <2>1, FS_RemoveElement
  <2>3. Cardinality(s \ {x}) \in Nat
    BY <2>2, FS_CardinalityType
  <2>4. QED
    BY <2>1, <2>2, <2>3
<1>3. 0 \in P
  <2>1. \A s \in SUBSET S : Cardinality(s) <= 0 => s = {}
    <3> TAKE s \in SUBSET S
    <3> HAVE Cardinality(s) <= 0
    <3>1. IsFiniteSet(s) /\ Cardinality(s) = 0
      BY <1>1
    <3>2. QED
      BY <3>1, FS_EmptySet
  <2>2. \A s \in SUBSET S : Cardinality(s) <= 0 => f[s] \in V
    BY <2>1
  <2>3. 0 \in 0..L
    BY <1>1
  <2>4. QED
    BY <2>2, <2>3
<1>4. ASSUME NEW m \in 1..L, m - 1 \in P
      PROVE  m \in P
  <2>1. ASSUME NEW s \in SUBSET S, Cardinality(s) <= m PROVE f[s] \in V
    <3>1. CASE s = {}
      BY <3>1
    <3>2. CASE s # {}
      <4>1. PICK x \in s : f[s \ {x}] \in V => f[s] \in V
        BY <3>2
      <4>2. s \ {x} \in SUBSET S /\ Cardinality(s \ {x}) <= m - 1
        BY <1>1, <1>2, <2>1
      <4>3. QED
        BY <1>4, <4>1, <4>2
    <3>3. QED
      BY <3>1, <3>2
  <2>2. QED
    BY <2>1
<1>5. \A m \in 0..L : m \in P
  <2> HIDE DEF P, L
  <2>1. QED
    BY <1>1, <1>3, <1>4, UpToInduction
<1>6. L \in 0..L
  BY <1>1
<1>7. QED
  BY <1>5, <1>6

-----------------------------------------------------------------------------
(* Parities.                                                               *)

\* The parity of a symmetric difference is the sum of the parities.
LEMMA OddSymDiff ==
  ASSUME NEW A, NEW B, IsFiniteSet(A), IsFiniteSet(B)
  PROVE  Odd(SymDiff(A, B)) <=> ~(Odd(A) <=> Odd(B))
<1> DEFINE a == Cardinality(A)
           b == Cardinality(B)
           c == Cardinality(A \cap B)
<1>1. a \in Nat /\ b \in Nat /\ c \in Nat /\ IsFiniteSet(A \cap B)
  BY FS_CardinalityType, FS_Intersection
<1>2. IsFiniteSet(A \ B) /\ Cardinality(A \ B) = a - c
  BY FS_Difference
<1>3. IsFiniteSet(B \ A) /\ Cardinality(B \ A) = b - c
  <2>1. Cardinality(B \ A) = b - Cardinality(B \cap A)
    BY FS_Difference
  <2>2. B \cap A = A \cap B
    OBVIOUS
  <2>3. QED
    BY <2>1, <2>2, FS_Difference
<1>4. Cardinality((A \ B) \cup (B \ A)) = (a - c) + (b - c) - Cardinality((A \ B) \cap (B \ A))
  BY <1>2, <1>3, FS_Union
<1>5. (A \ B) \cap (B \ A) = {}
  OBVIOUS
<1>6. Cardinality((A \ B) \cup (B \ A)) = a + b - 2 * c
  <2>1. Cardinality((A \ B) \cap (B \ A)) = 0
    BY <1>5, FS_EmptySet
  <2> HIDE DEF a, b, c
  <2>2. QED
    BY <1>1, <1>4, <2>1
<1> HIDE DEF a, b, c
<1>7. (a + b - 2 * c) % 2 = 1 <=> ~(a % 2 = 1 <=> b % 2 = 1)
  BY <1>1
<1>8. QED
  BY <1>6, <1>7 DEF Odd, SymDiff, a, b

LEMMA OddEmpty == ~Odd({})
  BY FS_EmptySet DEF Odd

\* Two different elements are an even number.
LEMMA OddPair ==
  ASSUME NEW q, NEW t, q # t
  PROVE  ~Odd({q, t})
<1>1. /\ IsFiniteSet({q}) /\ Cardinality({q}) = 1
      /\ IsFiniteSet({t}) /\ Cardinality({t}) = 1
  BY FS_Singleton
<1>2. {q, t} = SymDiff({q}, {t})
  BY DEF SymDiff
<1>3. Odd({q}) /\ Odd({t})
  BY <1>1 DEF Odd
<1>4. Odd(SymDiff({q}, {t})) <=> ~(Odd({q}) <=> Odd({t}))
  BY <1>1, OddSymDiff
<1>5. QED
  BY <1>2, <1>3, <1>4

LEMMA OddOne ==
  ASSUME NEW q
  PROVE  Odd({q})
  BY FS_Singleton DEF Odd

LEMMA BasisFinite ==
  ASSUME NEW b \in Basis
  PROVE  IsFiniteSet(b)
<1>1. IsFiniteSet(Qubits)
  BY WidthAssumption, FS_Interval DEF Qubits
<1>2. QED
  BY <1>1, FS_Subset DEF Basis

-----------------------------------------------------------------------------
(* Sums.                                                                   *)

\* Induction over the subsets of a finite set, for a set of subsets.
LEMMA SubsetInduction ==
  ASSUME NEW S, IsFiniteSet(S), NEW P, {} \in P,
         \A T \in SUBSET S : T # {} => \E x \in T : T \ {x} \in P => T \in P
  PROVE  \A T \in SUBSET S : T \in P
<1> TAKE T \in SUBSET S
<1> DEFINE f == [s \in SUBSET S |-> IF s \in P THEN 1 ELSE 0]
           V == {1}
<1>1. f[{}] \in V
  OBVIOUS
<1>2. \A s \in SUBSET T : s # {} => \E x \in s : f[s \ {x}] \in V => f[s] \in V
  <2> TAKE s \in SUBSET T
  <2> HAVE s # {}
  <2>1. PICK x \in s : s \ {x} \in P => s \in P
    OBVIOUS
  <2>2. s \ {x} \in SUBSET S /\ s \in SUBSET S
    OBVIOUS
  <2>3. f[s \ {x}] \in V => f[s] \in V
    BY <2>1, <2>2
  <2>4. QED
    BY <2>3
<1>3. IsFiniteSet(T)
  BY FS_Subset
<1> HIDE DEF f, V
<1>4. f[T] \in V
  BY <1>1, <1>2, <1>3, FoldStays
<1>5. QED
  BY <1>4 DEF f, V

\* Which element of a set a fold takes last.
Picked(T) == CHOOSE x \in T : TRUE

\* f[T] is the sum of F over T, for every part T of S.
SumsTo(f, F, S) ==
    /\ f \in [SUBSET S -> Amps] /\ f[{}] = Zero
    /\ \A T \in SUBSET S : T # {} => f[T] = Plus(F[Picked(T)], f[T \ {Picked(T)}])

Sum(F, S) == (CHOOSE f : SumsTo(f, F, S))[S]

LEMMA SumExists ==
  ASSUME NEW S, IsFiniteSet(S), NEW F, \A x \in S : F[x] \in Amps
  PROVE  \E f : SumsTo(f, F, S)
<1> DEFINE ch == [T \in SUBSET S |-> Picked(T)]
           step == [p \in S \X Amps |-> Plus(F[p[1]], p[2])]
<1>1. Zero \in Amps
  BY Constants
<1>2. step \in [S \X Amps -> Amps]
  BY RingTypes
<1>3. \A T \in SUBSET S : T # {} => Picked(T) \in T /\ ch[T] = Picked(T)
  BY DEF Picked
<1>4. \A a \in S, b \in Amps : step[<<a, b>>] = Plus(F[a], b)
  OBVIOUS
<1> HIDE DEF ch, step
<1>5. Folder(step, ch, S, Amps)
  BY <1>2, <1>3 DEF Folder
<1>6. PICK f : f \in [SUBSET S -> Amps] /\ FoldsTo(f, Zero, step, ch, S)
  BY <1>1, <1>5, FoldExists
<1>7. \A T \in SUBSET S : f[T] = IF T = {} THEN Zero ELSE step[<<ch[T], f[T \ {ch[T]}]>>]
  <2>1. f = [s \in SUBSET S |-> IF s = {} THEN Zero ELSE step[<<ch[s], f[s \ {ch[s]}]>>]]
    BY <1>6 DEF FoldsTo
  <2>2. QED
    BY <2>1
<1>8. ASSUME NEW T \in SUBSET S, T # {} PROVE f[T] = Plus(F[Picked(T)], f[T \ {Picked(T)}])
  <2>1. Picked(T) \in S /\ f[T \ {Picked(T)}] \in Amps
    BY <1>3, <1>6, <1>8
  <2>2. QED
    BY <1>3, <1>4, <1>7, <1>8, <2>1
<1>9. SumsTo(f, F, S)
  BY <1>6, <1>7, <1>8 DEF SumsTo
<1>10. QED
  BY <1>9

\* The sum is determined.
LEMMA SumsUnique ==
  ASSUME NEW S, IsFiniteSet(S), NEW F, NEW f, NEW g, SumsTo(f, F, S), SumsTo(g, F, S)
  PROVE  f = g
<1> DEFINE P == {T \in SUBSET S : f[T] = g[T]}
<1>1. {} \in P
  BY DEF SumsTo
<1>2. ASSUME NEW T \in SUBSET S, T # {} PROVE \E x \in T : T \ {x} \in P => T \in P
  <2>1. Picked(T) \in T
    BY <1>2 DEF Picked
  <2>2. f[T] = Plus(F[Picked(T)], f[T \ {Picked(T)}]) /\ g[T] = Plus(F[Picked(T)], g[T \ {Picked(T)}])
    BY <1>2 DEF SumsTo
  <2>3. T \ {Picked(T)} \in P => T \in P
    BY <2>2
  <2>4. QED
    BY <2>1, <2>3
<1> HIDE DEF P
<1>3. \A T \in SUBSET S : T \in P
  BY <1>1, <1>2, SubsetInduction
<1>4. QED
  BY <1>3 DEF P, SumsTo

\* A solution over S is one over a part of S, for terms that are the same there.
LEMMA SumsWithin ==
  ASSUME NEW S, NEW T \in SUBSET S, NEW F, NEW G, \A x \in T : F[x] = G[x], NEW f, SumsTo(f, F, S)
  PROVE  SumsTo([U \in SUBSET T |-> f[U]], G, T)
<1>1. ASSUME NEW U \in SUBSET T, U # {}
      PROVE  /\ F[Picked(U)] = G[Picked(U)] /\ U \ {Picked(U)} \in SUBSET T
             /\ f[U] = Plus(F[Picked(U)], f[U \ {Picked(U)}])
  <2>1. Picked(U) \in U
    BY <1>1 DEF Picked
  <2>2. QED
    BY <1>1, <2>1 DEF SumsTo
<1>2. QED
  BY <1>1 DEF SumsTo

\* Any function that solves the recursion gives the sum.
LEMMA SumIs ==
  ASSUME NEW S, IsFiniteSet(S), NEW F, NEW G, \A x \in S : G[x] \in Amps /\ F[x] = G[x],
         NEW f, SumsTo(f, F, S)
  PROVE  \A T \in SUBSET S : f[T] = Sum(G, T)
<1> TAKE T \in SUBSET S
<1>1. IsFiniteSet(T) /\ \A x \in T : G[x] \in Amps
  BY FS_Subset
<1> DEFINE h == CHOOSE h : SumsTo(h, G, T)
           k == [U \in SUBSET T |-> f[U]]
<1>2. SumsTo(h, G, T)
  BY <1>1, SumExists
<1>3. SumsTo(k, G, T)
  BY SumsWithin
<1>4. k[T] = f[T]
  OBVIOUS
<1>5. Sum(G, T) = h[T]
  BY DEF Sum
<1> HIDE DEF h, k
<1>6. h = k
  BY <1>1, <1>2, <1>3, SumsUnique
<1>7. QED
  BY <1>4, <1>5, <1>6

\* The empty sum, and one term taken out.
LEMMA SumFacts ==
  ASSUME NEW S, IsFiniteSet(S), NEW F, \A x \in S : F[x] \in Amps
  PROVE  /\ \A T \in SUBSET S : Sum(F, T) \in Amps
         /\ Sum(F, {}) = Zero
         /\ \A T \in SUBSET S : T # {} =>
              Picked(T) \in T /\ Sum(F, T) = Plus(F[Picked(T)], Sum(F, T \ {Picked(T)}))
<1>1. PICK f : SumsTo(f, F, S)
  BY SumExists
<1>2. \A T \in SUBSET S : f[T] = Sum(F, T)
  BY <1>1, SumIs
<1>3. \A T \in SUBSET S : T # {} => Picked(T) \in T /\ T \ {Picked(T)} \in SUBSET S
  BY DEF Picked
<1>4. QED
  BY <1>1, <1>2, <1>3 DEF SumsTo

\* Any term may be taken out: the order does not matter.
LEMMA SumTake ==
  ASSUME NEW S, IsFiniteSet(S), NEW F, \A x \in S : F[x] \in Amps
  PROVE  \A T \in SUBSET S : \A x \in T : Sum(F, T) = Plus(F[x], Sum(F, T \ {x}))
<1> DEFINE L == Cardinality(S)
           Good(T) == \A x \in T : Sum(F, T) = Plus(F[x], Sum(F, T \ {x}))
           P == {m \in 0..L : \A T \in SUBSET S : Cardinality(T) <= m => Good(T)}
<1>1. L \in Nat /\ \A T \in SUBSET S : IsFiniteSet(T) /\ Cardinality(T) \in Nat /\ Cardinality(T) <= L
  BY FS_CardinalityType, FS_Subset
<1>2. ASSUME NEW T \in SUBSET S, NEW x \in T
      PROVE  T \ {x} \in SUBSET S /\ Cardinality(T \ {x}) = Cardinality(T) - 1
  <2>1. IsFiniteSet(T)
    BY <1>1
  <2>2. QED
    BY <2>1, FS_RemoveElement
<1>3. 0 \in P
  <2>1. ASSUME NEW T \in SUBSET S, Cardinality(T) <= 0 PROVE T = {}
    <3>1. IsFiniteSet(T) /\ Cardinality(T) = 0
      BY <1>1, <2>1
    <3>2. QED
      BY <3>1, FS_EmptySet
  <2>2. \A T \in SUBSET S : Cardinality(T) <= 0 => Good(T)
    BY <2>1
  <2>3. 0 \in 0..L
    BY <1>1
  <2> HIDE DEF Good
  <2>4. QED
    BY <2>2, <2>3
<1>4. ASSUME NEW m \in 1..L, m - 1 \in P
      PROVE  m \in P
  <2>1. ASSUME NEW T \in SUBSET S, Cardinality(T) <= m, NEW x \in T
        PROVE  Sum(F, T) = Plus(F[x], Sum(F, T \ {x}))
    <3> DEFINE y == Picked(T)
               R == T \ {y}
    <3>1. y \in T /\ Sum(F, T) = Plus(F[y], Sum(F, R))
      BY SumFacts
    <3> HIDE DEF y
    <3>2. CASE x = y
      BY <3>1, <3>2
    <3>3. CASE x # y
      <4> DEFINE Q == R \ {x}
                 O == T \ {x}
      <4>1. x \in R /\ R \in SUBSET S /\ Q \in SUBSET S /\ O \in SUBSET S /\ O \ {y} = Q /\ y \in O
        BY <3>1, <3>3
      <4>2. Cardinality(R) <= m - 1 /\ Cardinality(O) <= m - 1
        BY <1>1, <1>2, <2>1, <3>1
      <4>3. Good(R) /\ Good(O)
        <5> HIDE DEF Good, R, O
        <5>1. QED
          BY <1>4, <4>1, <4>2
      <4>4. Sum(F, R) = Plus(F[x], Sum(F, Q))
        BY <4>1, <4>3
      <4>5. Sum(F, O) = Plus(F[y], Sum(F, O \ {y}))
        BY <4>1, <4>3
      <4>6. F[x] \in Amps /\ F[y] \in Amps /\ Sum(F, Q) \in Amps
        BY <3>1, <4>1, SumFacts
      <4> HIDE DEF Q, O, R
      <4>7. Plus(F[y], Plus(F[x], Sum(F, Q))) = Plus(F[x], Plus(F[y], Sum(F, Q)))
        BY <4>6, PlusLaws
      <4>8. QED
        BY <3>1, <4>1, <4>4, <4>5, <4>7 DEF O
    <3>4. QED
      BY <3>2, <3>3
  <2>2. QED
    BY <2>1
<1>5. \A m \in 0..L : m \in P
  <2> HIDE DEF P, L
  <2>1. QED
    BY <1>1, <1>3, <1>4, UpToInduction
<1>6. L \in 0..L
  BY <1>1
<1>7. QED
  BY <1>1, <1>5, <1>6

\* What the other lemmas are proved from.
LEMMA SumLaws ==
  ASSUME NEW S, IsFiniteSet(S), NEW F \in [S -> Amps]
  PROVE  /\ \A T \in SUBSET S : Sum(F, T) \in Amps
         /\ Sum(F, {}) = Zero
         /\ \A T \in SUBSET S : \A x \in T :
              /\ T \ {x} \in SUBSET S /\ Sum(F, T \ {x}) \in Amps /\ F[x] \in Amps
              /\ Sum(F, T) = Plus(F[x], Sum(F, T \ {x}))
<1>1. \A x \in S : F[x] \in Amps
  OBVIOUS
<1>2. \A T \in SUBSET S : \A x \in T : T \ {x} \in SUBSET S
  OBVIOUS
<1>3. QED
  BY <1>1, <1>2, SumFacts, SumTake

\* Terms that are the same have the same sum.
LEMMA SumSame ==
  ASSUME NEW S, IsFiniteSet(S), NEW F, NEW G, \A x \in S : G[x] \in Amps /\ F[x] = G[x]
  PROVE  Sum(F, S) = Sum(G, S)
<1>1. \A x \in S : F[x] \in Amps /\ F[x] = F[x]
  OBVIOUS
<1>2. PICK f : SumsTo(f, F, S)
  BY <1>1, SumExists
<1>3. f[S] = Sum(F, S) /\ f[S] = Sum(G, S)
  BY <1>1, <1>2, SumIs
<1>4. QED
  BY <1>3

\* Sum of a sum, of a multiple and of zeros.
LEMMA SumPlus ==
  ASSUME NEW S, IsFiniteSet(S), NEW F \in [S -> Amps], NEW G \in [S -> Amps]
  PROVE  Sum([x \in S |-> Plus(F[x], G[x])], S) = Plus(Sum(F, S), Sum(G, S))
<1> DEFINE H == [x \in S |-> Plus(F[x], G[x])]
           P == {T \in SUBSET S : Sum(H, T) = Plus(Sum(F, T), Sum(G, T))}
<1>1. H \in [S -> Amps]
  BY RingTypes
<1>2. {} \in P
  <2>1. Plus(Zero, Zero) = Zero
    BY Constants, PlusLaws
  <2> HIDE DEF H
  <2>2. QED
    BY <1>1, <2>1, SumLaws
<1>3. ASSUME NEW T \in SUBSET S, T # {} PROVE \E x \in T : T \ {x} \in P => T \in P
  <2>1. PICK x \in T : TRUE
    BY <1>3
  <2> DEFINE R == T \ {x}
  <2>2. R \in SUBSET S /\ Sum(F, T) = Plus(F[x], Sum(F, R)) /\ Sum(G, T) = Plus(G[x], Sum(G, R))
        /\ F[x] \in Amps /\ G[x] \in Amps /\ Sum(F, R) \in Amps /\ Sum(G, R) \in Amps
    BY SumLaws
  <2>3. Sum(H, T) = Plus(Plus(F[x], G[x]), Sum(H, R))
    <3>1. H[x] = Plus(F[x], G[x])
      OBVIOUS
    <3> HIDE DEF H
    <3>2. QED
      BY <1>1, <3>1, SumLaws
  <2>4. Plus(Plus(F[x], G[x]), Plus(Sum(F, R), Sum(G, R)))
          = Plus(Plus(F[x], Sum(F, R)), Plus(G[x], Sum(G, R)))
    BY <2>2, Regroup
  <2> HIDE DEF H
  <2>5. QED
    BY <2>2, <2>3, <2>4
<1> HIDE DEF P
<1>4. \A T \in SUBSET S : T \in P
  BY <1>2, <1>3, SubsetInduction
<1>5. QED
  BY <1>4 DEF P

LEMMA SumTimes ==
  ASSUME NEW S, IsFiniteSet(S), NEW F \in [S -> Amps], NEW a \in Amps
  PROVE  Sum([x \in S |-> Times(a, F[x])], S) = Times(a, Sum(F, S))
<1> DEFINE H == [x \in S |-> Times(a, F[x])]
           P == {T \in SUBSET S : Sum(H, T) = Times(a, Sum(F, T))}
<1>1. H \in [S -> Amps]
  BY RingTypes
<1>2. {} \in P
  <2>1. Times(a, Zero) = Zero
    BY Constants, TimesLaws
  <2> HIDE DEF H
  <2>2. QED
    BY <1>1, <2>1, SumLaws
<1>3. ASSUME NEW T \in SUBSET S, T # {} PROVE \E x \in T : T \ {x} \in P => T \in P
  <2>1. PICK x \in T : TRUE
    BY <1>3
  <2> DEFINE R == T \ {x}
  <2>2. R \in SUBSET S /\ Sum(F, T) = Plus(F[x], Sum(F, R)) /\ F[x] \in Amps /\ Sum(F, R) \in Amps
    BY SumLaws
  <2>3. Sum(H, T) = Plus(Times(a, F[x]), Sum(H, R))
    <3>1. H[x] = Times(a, F[x])
      OBVIOUS
    <3> HIDE DEF H
    <3>2. QED
      BY <1>1, <3>1, SumLaws
  <2>4. Times(a, Plus(F[x], Sum(F, R))) = Plus(Times(a, F[x]), Times(a, Sum(F, R)))
    BY <2>2, TimesLaws
  <2> HIDE DEF H
  <2>5. QED
    BY <2>2, <2>3, <2>4
<1> HIDE DEF P
<1>4. \A T \in SUBSET S : T \in P
  BY <1>2, <1>3, SubsetInduction
<1>5. QED
  BY <1>4 DEF P

LEMMA SumConj ==
  ASSUME NEW S, IsFiniteSet(S), NEW F \in [S -> Amps]
  PROVE  Sum([x \in S |-> Conj(F[x])], S) = Conj(Sum(F, S))
<1> DEFINE H == [x \in S |-> Conj(F[x])]
           P == {T \in SUBSET S : Sum(H, T) = Conj(Sum(F, T))}
<1>1. H \in [S -> Amps]
  BY RingTypes
<1>2. {} \in P
  <2>1. Conj(Zero) = Zero
    BY DEF Conj, Zero, Int2Amp, QConj
  <2> HIDE DEF H
  <2>2. QED
    BY <1>1, <2>1, SumLaws
<1>3. ASSUME NEW T \in SUBSET S, T # {} PROVE \E x \in T : T \ {x} \in P => T \in P
  <2>1. PICK x \in T : TRUE
    BY <1>3
  <2> DEFINE R == T \ {x}
  <2>2. R \in SUBSET S /\ Sum(F, T) = Plus(F[x], Sum(F, R)) /\ F[x] \in Amps /\ Sum(F, R) \in Amps
    BY SumLaws
  <2>3. Sum(H, T) = Plus(Conj(F[x]), Sum(H, R))
    <3>1. H[x] = Conj(F[x])
      OBVIOUS
    <3> HIDE DEF H
    <3>2. QED
      BY <1>1, <3>1, SumLaws
  <2>4. Conj(Plus(F[x], Sum(F, R))) = Plus(Conj(F[x]), Conj(Sum(F, R)))
    BY <2>2, ConjLaws
  <2> HIDE DEF H
  <2>5. QED
    BY <2>2, <2>3, <2>4
<1> HIDE DEF P
<1>4. \A T \in SUBSET S : T \in P
  BY <1>2, <1>3, SubsetInduction
<1>5. QED
  BY <1>4 DEF P

LEMMA SumOfZeros ==
  ASSUME NEW S, IsFiniteSet(S), NEW F, \A x \in S : F[x] = Zero
  PROVE  Sum(F, S) = Zero
<1> DEFINE G == [x \in S |-> Zero]
           P == {T \in SUBSET S : Sum(G, T) = Zero}
<1>1. G \in [S -> Amps]
  BY Constants
<1>2. {} \in P
  BY <1>1, SumLaws
<1>3. ASSUME NEW T \in SUBSET S, T # {} PROVE \E x \in T : T \ {x} \in P => T \in P
  <2>1. PICK x \in T : TRUE
    BY <1>3
  <2>2. G[x] = Zero
    OBVIOUS
  <2> HIDE DEF G
  <2>3. Sum(G, T) = Plus(Zero, Sum(G, T \ {x})) /\ Sum(G, T \ {x}) \in Amps
    BY <1>1, <2>2, SumLaws
  <2>4. QED
    BY <2>3, PlusLaws, Constants
<1> HIDE DEF P
<1>4. \A T \in SUBSET S : T \in P
  BY <1>2, <1>3, SubsetInduction
<1>5. Sum(G, S) = Zero
  BY <1>4 DEF P
<1>6. Sum(F, S) = Sum(G, S)
  <2>1. \A x \in S : G[x] \in Amps /\ F[x] = G[x]
    BY Constants
  <2> HIDE DEF G
  <2>2. QED
    BY <2>1, SumSame
<1>7. QED
  BY <1>5, <1>6

\* Terms that all but one are zero.
LEMMA SumSingle ==
  ASSUME NEW S, IsFiniteSet(S), NEW F \in [S -> Amps], NEW x \in S, \A y \in S : y # x => F[y] = Zero
  PROVE  Sum(F, S) = F[x]
<1>1. Sum(F, S) = Plus(F[x], Sum(F, S \ {x})) /\ F[x] \in Amps
  BY SumLaws
<1>2. Sum(F, S \ {x}) = Zero
  BY SumOfZeros, FS_Subset
<1>3. QED
  BY <1>1, <1>2, PlusLaws

\* The sum over two parts.
LEMMA SumUnion ==
  ASSUME NEW S, IsFiniteSet(S), NEW F \in [S -> Amps], NEW A \in SUBSET S
  PROVE  Sum(F, S) = Plus(Sum(F, A), Sum(F, S \ A))
<1> DEFINE B == S \ A
           P == {T \in SUBSET A : Sum(F, T \cup B) = Plus(Sum(F, T), Sum(F, B))}
<1>1. {} \in P
  <2>1. {} \cup B = B /\ B \in SUBSET S
    OBVIOUS
  <2>2. Plus(Zero, Sum(F, B)) = Sum(F, B)
    BY <2>1, SumLaws, PlusLaws
  <2>3. QED
    BY <2>1, <2>2, SumLaws
<1>2. ASSUME NEW T \in SUBSET A, T # {} PROVE \E x \in T : T \ {x} \in P => T \in P
  <2>1. PICK x \in T : TRUE
    BY <1>2
  <2> DEFINE R == T \ {x}
             U == R \cup B
  <2>2. x \in T \cup B /\ T \cup B \in SUBSET S /\ (T \cup B) \ {x} = U /\ T \in SUBSET S /\ R \in SUBSET S
        /\ B \in SUBSET S /\ R \in SUBSET A
    OBVIOUS
  <2> HIDE DEF B, R, U
  <2>3. Sum(F, T \cup B) = Plus(F[x], Sum(F, U)) /\ F[x] \in Amps
    BY <2>2, SumLaws
  <2>4. Sum(F, T) = Plus(F[x], Sum(F, R)) /\ Sum(F, R) \in Amps /\ Sum(F, B) \in Amps
    BY <2>2, SumLaws DEF R
  <2>5. Plus(F[x], Plus(Sum(F, R), Sum(F, B))) = Plus(Plus(F[x], Sum(F, R)), Sum(F, B))
    BY <2>3, <2>4, PlusLaws
  <2>6. R \in P => Sum(F, U) = Plus(Sum(F, R), Sum(F, B))
    BY DEF U
  <2>7. QED
    BY <2>2, <2>3, <2>4, <2>5, <2>6 DEF R
<1>3. IsFiniteSet(A)
  BY FS_Subset
<1> HIDE DEF P
<1>4. \A T \in SUBSET A : T \in P
  BY <1>1, <1>2, <1>3, SubsetInduction
<1>5. A \cup B = S
  OBVIOUS
<1>6. QED
  BY <1>4, <1>5 DEF P

ImageOf(move, T) == {move[x] : x \in T}
OneToOne(move, S, U) == move \in [S -> U] /\ \A x, y \in S : move[x] = move[y] => x = y

\* The terms in another order.
LEMMA SumMove ==
  ASSUME NEW S, IsFiniteSet(S), NEW U, IsFiniteSet(U), NEW F \in [U -> Amps], NEW move, OneToOne(move, S, U)
  PROVE  Sum([x \in S |-> F[move[x]]], S) = Sum(F, ImageOf(move, S))
<1> DEFINE H == [x \in S |-> F[move[x]]]
           P == {T \in SUBSET S : Sum(H, T) = Sum(F, ImageOf(move, T))}
<1>1. H \in [S -> Amps]
  BY DEF OneToOne
<1>2. {} \in P
  <2>1. ImageOf(move, {}) = {}
    BY DEF ImageOf
  <2> HIDE DEF H
  <2>2. QED
    BY <1>1, <2>1, SumLaws
<1>3. ASSUME NEW T \in SUBSET S, T # {} PROVE \E x \in T : T \ {x} \in P => T \in P
  <2>1. PICK x \in T : TRUE
    BY <1>3
  <2> DEFINE R == T \ {x}
             V == ImageOf(move, T)
  <2>2. V \in SUBSET U /\ move[x] \in V /\ V \ {move[x]} = ImageOf(move, R)
    BY DEF ImageOf, OneToOne
  <2>3. Sum(F, V) = Plus(F[move[x]], Sum(F, V \ {move[x]}))
    <3> HIDE DEF V
    <3>1. QED
      BY <2>2, SumLaws
  <2>4. Sum(H, T) = Plus(F[move[x]], Sum(H, R))
    <3>1. H[x] = F[move[x]]
      OBVIOUS
    <3> HIDE DEF H
    <3>2. QED
      BY <1>1, <3>1, SumLaws
  <2> HIDE DEF H
  <2>5. QED
    BY <2>2, <2>3, <2>4
<1> HIDE DEF P
<1>4. \A T \in SUBSET S : T \in P
  BY <1>2, <1>3, SubsetInduction
<1>5. QED
  BY <1>4 DEF P

-----------------------------------------------------------------------------
(* A sum of squares is zero only if every square is: their rational parts, *)
(* over an even power of sqrt(2), are positive.                            *)

Positive(y) == \E K \in Nat : \E c \in Quads : Is(y, K + K, c) /\ c[1] > 0

LEMMA RaiseEven ==
  ASSUME NEW c \in Quads, c[1] > 0
  PROVE  \A n \in Nat : Raise(c, n + n) \in Quads /\ Raise(c, n + n)[1] > 0
<1> DEFINE P == {n \in Nat : Raise(c, n + n)[1] > 0}
<1>1. 0 \in P
  BY RaiseSteps
<1>2. ASSUME NEW n \in Nat, n \in P PROVE n + 1 \in P
  <2> DEFINE r == Raise(c, n + n)
             k == n + n
  <2>1. k \in Nat /\ k + 1 \in Nat /\ r \in Quads
    BY RaiseSteps
  <2>2. Raise(c, k + 1) = TimesRoot2(r) /\ Raise(c, (k + 1) + 1) = TimesRoot2(Raise(c, k + 1))
    <3> HIDE DEF k
    <3>1. QED
      BY <2>1, RaiseSteps DEF k
  <2>3. (n + 1) + (n + 1) = (k + 1) + 1
    OBVIOUS
  <2>4. Raise(c, (n + 1) + (n + 1)) = QAdd(r, r)
    BY <2>1, <2>2, <2>3, RootThrough
  <2>5. r[1] \in Int /\ r[1] > 0
    BY <1>2, <2>1, QuadParts
  <2> HIDE DEF r
  <2>6. QAdd(r, r)[1] > 0
    BY <2>5 DEF QAdd
  <2>7. QED
    BY <2>4, <2>6
<1> HIDE DEF P
<1>3. \A n \in Nat : n \in P
  BY <1>1, <1>2, NatSet
<1>4. \A n \in Nat : n + n \in Nat
  OBVIOUS
<1>5. QED
  BY <1>3, <1>4, RaiseSteps DEF P

LEMMA PositivePlus ==
  ASSUME NEW x, Positive(x), NEW y, Positive(y)
  PROVE  Positive(Plus(x, y))
<1>1. PICK K \in Nat, c \in Quads : Is(x, K + K, c) /\ c[1] > 0
  BY DEF Positive
<1>2. PICK L \in Nat, d \in Quads : Is(y, L + L, d) /\ d[1] > 0
  BY DEF Positive
<1> DEFINE M == K + L
           e == Raise(c, L + L)
           f == Raise(d, K + K)
<1>3. M \in Nat /\ (K + K) + (L + L) = M + M /\ (L + L) + (K + K) = M + M /\ K + K \in Nat /\ L + L \in Nat
      /\ M + M \in Nat
  OBVIOUS
<1>4. e \in Quads /\ e[1] > 0 /\ f \in Quads /\ f[1] > 0
  BY <1>1, <1>2, RaiseEven
<1>5. Is(x, M + M, e)
  <2>1. Is(x, (K + K) + (L + L), e)
    BY <1>1, <1>3, IsMore
  <2>2. QED
    BY <1>3, <2>1
<1>6. Is(y, M + M, f)
  <2>1. Is(y, (L + L) + (K + K), f)
    BY <1>2, <1>3, IsMore
  <2>2. QED
    BY <1>3, <2>1
<1> HIDE DEF e, f, M
<1>7. Is(Plus(x, y), M + M, QAdd(e, f))
  BY <1>3, <1>5, <1>6, PlusIs
<1>8. QAdd(e, f) \in Quads /\ QAdd(e, f)[1] > 0
  <2>1. e[1] \in Int /\ f[1] \in Int
    BY <1>4, QuadParts
  <2>2. QAdd(e, f)[1] = e[1] + f[1]
    BY DEF QAdd
  <2>3. QAdd(e, f) \in Quads
    BY <1>4, QuadType
  <2>4. QED
    BY <1>4, <2>1, <2>2, <2>3
<1>9. QED
  BY <1>3, <1>7, <1>8 DEF Positive

LEMMA PositiveNotZero ==
  ASSUME NEW x, Positive(x)
  PROVE  x # Zero
<1>1. PICK K \in Nat, c \in Quads : Is(x, K + K, c) /\ c[1] > 0
  BY DEF Positive
<1>2. SUFFICES ASSUME x = Zero PROVE FALSE
  OBVIOUS
<1>3. K + K \in Nat
  OBVIOUS
<1>4. c = Nought
  BY <1>1, <1>2, <1>3, OneIs DEF Is
<1>5. QED
  BY <1>1, <1>4 DEF Nought

\* |x|^2, as a real number, and zero only at zero.
LEMMA NormLaws ==
  ASSUME NEW x \in Amps
  PROVE  /\ Norm2(x) \in Amps /\ Conj(Norm2(x)) = Norm2(x)
         /\ x = Zero => Norm2(x) = Zero
         /\ x # Zero => Positive(Norm2(x))
<1> DEFINE c == x.c
           k == x.k
<1>1. k \in Nat /\ c \in Quads /\ Is(x, k, c)
  BY IsSelf
<1>2. Conj(x) \in Amps /\ Conj(Conj(x)) = x
  <2>1. Conj(x) \in Amps
    BY RingTypes
  <2>2. QConj(QConj(c)) = c
    BY <1>1, QuadParts, QuadMake DEF QConj
  <2>3. x = [k |-> k, c |-> c]
    BY DEF Amps
  <2> HIDE DEF c, k
  <2>4. QED
    BY <2>1, <2>2, <2>3 DEF Conj
<1>3. Norm2(x) \in Amps /\ Conj(Norm2(x)) = Norm2(x)
  <2>1. Conj(Times(x, Conj(x))) = Times(Conj(x), x) /\ Times(Conj(x), x) = Times(x, Conj(x))
    BY <1>2, ConjLaws, TimesLaws
  <2>2. QED
    BY <1>2, <2>1, RingTypes DEF Norm2
<1>4. Is(Norm2(x), k + k, QMul(c, QConj(c)))
  <2> HIDE DEF c, k
  <2>1. Is(Conj(x), k, QConj(c))
    BY <1>1, NegIs
  <2>2. QED
    BY <1>1, <2>1, TimesIs DEF Norm2
<1> DEFINE c1 == c[1] c2 == c[2] c3 == c[3] c4 == c[4]
<1>5. c1 \in Int /\ c2 \in Int /\ c3 \in Int /\ c4 \in Int /\ c = <<c1, c2, c3, c4>>
  BY <1>1, QuadParts
<1>6. QMul(c, QConj(c)) \in Quads
  BY <1>1, QuadType
<1>7. QMul(c, QConj(c))[1] = c1 * c1 + c2 * c2 + c3 * c3 + c4 * c4
  <2>1. QMul(c, QConj(c))[1] = c1 * c1 - c2 * (-c2) - c3 * (-c3) - c4 * (-c4)
    BY DEF QMul, QConj
  <2> HIDE DEF c1, c2, c3, c4
  <2>2. c2 * (-c2) = -(c2 * c2) /\ c3 * (-c3) = -(c3 * c3) /\ c4 * (-c4) = -(c4 * c4)
    BY <1>5
  <2>3. c1 * c1 \in Int /\ c2 * c2 \in Int /\ c3 * c3 \in Int /\ c4 * c4 \in Int
    BY <1>5
  <2> DEFINE s1 == c1 * c1 s2 == c2 * c2 s3 == c3 * c3 s4 == c4 * c4
  <2> HIDE DEF s1, s2, s3, s4
  <2>4. s1 - (-s2) - (-s3) - (-s4) = s1 + s2 + s3 + s4
    BY <2>3 DEF s1, s2, s3, s4
  <2>5. QED
    BY <2>1, <2>2, <2>4 DEF s1, s2, s3, s4
<1>8. x # Zero => c # Nought
  <2>1. ASSUME c = Nought PROVE x = Zero
    <3>1. c1 = 0 /\ c2 = 0 /\ c3 = 0 /\ c4 = 0
      BY <2>1 DEF Nought
    <3>2. ~(k > 0)
      <4>1. ~(x.k > 0 /\ (x.c[1] - x.c[3]) % 2 = 0 /\ (x.c[2] - x.c[4]) % 2 = 0)
        BY DEF Amps, Reducible
      <4>2. QED
        BY <3>1, <4>1
    <3>3. k = 0
      BY <1>1, <3>2
    <3>4. x = [k |-> x.k, c |-> x.c]
      BY DEF Amps
    <3>5. QED
      BY <2>1, <3>3, <3>4 DEF Zero, Int2Amp, Nought
  <2>2. QED
    BY <2>1
<1>9. c # Nought => c1 * c1 + c2 * c2 + c3 * c3 + c4 * c4 > 0
  <2>1. c # Nought => c1 # 0 \/ c2 # 0 \/ c3 # 0 \/ c4 # 0
    BY <1>5 DEF Nought
  <2> HIDE DEF c1, c2, c3, c4, c
  <2>2. \A n \in Int : n * n \in Int /\ n * n >= 0 /\ (n # 0 => n * n > 0)
    OBVIOUS
  <2> DEFINE s1 == c1 * c1 s2 == c2 * c2 s3 == c3 * c3 s4 == c4 * c4
  <2>3. /\ s1 \in Int /\ s1 >= 0 /\ (c1 # 0 => s1 > 0)
        /\ s2 \in Int /\ s2 >= 0 /\ (c2 # 0 => s2 > 0)
        /\ s3 \in Int /\ s3 >= 0 /\ (c3 # 0 => s3 > 0)
        /\ s4 \in Int /\ s4 >= 0 /\ (c4 # 0 => s4 > 0)
    BY <1>5, <2>2
  <2> HIDE DEF s1, s2, s3, s4
  <2>4. c # Nought => s1 + s2 + s3 + s4 > 0
    BY <2>1, <2>3
  <2>5. QED
    BY <2>4 DEF s1, s2, s3, s4
<1>10. x # Zero => Positive(Norm2(x))
  <2> HIDE DEF c, k, c1, c2, c3, c4
  <2>1. QED
    BY <1>1, <1>4, <1>6, <1>7, <1>8, <1>9 DEF Positive
<1>11. x = Zero => Norm2(x) = Zero
  BY Constants, RingTypes, TimesLaws DEF Norm2
<1>12. QED
  BY <1>3, <1>10, <1>11

\* A sum of squares that is zero has no term but zero.
LEMMA SquaresVanish ==
  ASSUME NEW S, IsFiniteSet(S), NEW F \in [S -> Amps], \A x \in S : F[x] = Zero \/ Positive(F[x]),
         Sum(F, S) = Zero
  PROVE  \A x \in S : F[x] = Zero
<1> DEFINE Gone(T) == Sum(F, T) = Zero /\ \A x \in T : F[x] = Zero
           P == {T \in SUBSET S : Gone(T) \/ Positive(Sum(F, T))}
<1>1. {} \in P
  BY SumLaws
<1>2. ASSUME NEW T \in SUBSET S, T # {} PROVE \E x \in T : T \ {x} \in P => T \in P
  <2>1. PICK x \in T : TRUE
    BY <1>2
  <2> DEFINE R == T \ {x}
  <2>2. Sum(F, T) = Plus(F[x], Sum(F, R)) /\ F[x] \in Amps /\ Sum(F, R) \in Amps
    BY SumLaws
  <2>3. R \in P => Gone(R) \/ Positive(Sum(F, R))
    OBVIOUS
  <2>4. Plus(F[x], Zero) = F[x] /\ Plus(Zero, Sum(F, R)) = Sum(F, R) /\ Plus(Zero, Zero) = Zero
    BY <2>2, PlusLaws, Constants
  <2>5. CASE F[x] = Zero
    BY <2>2, <2>3, <2>4, <2>5
  <2>6. CASE Positive(F[x])
    <3>1. Gone(R) => Positive(Sum(F, T))
      BY <2>2, <2>4, <2>6
    <3>2. Positive(Sum(F, R)) => Positive(Sum(F, T))
      BY <2>2, <2>6, PositivePlus
    <3> HIDE DEF Gone
    <3>3. QED
      BY <2>3, <3>1, <3>2
  <2>7. QED
    BY <2>5, <2>6
<1> HIDE DEF P
<1>3. \A T \in SUBSET S : T \in P
  BY <1>1, <1>2, SubsetInduction
<1>4. Gone(S) \/ Positive(Sum(F, S))
  BY <1>3 DEF P
<1>5. QED
  BY <1>4, PositiveNotZero

-----------------------------------------------------------------------------
(* Unitary matrices, and kernels that keep the norm of a vector.           *)

Unitary(m) ==
    /\ IsMatrix(m)
    /\ Plus(Norm2(m[1]), Norm2(m[3])) = One /\ Plus(Norm2(m[2]), Norm2(m[4])) = One
    /\ Plus(Times(Conj(m[1]), m[2]), Times(Conj(m[3]), m[4])) = Zero

LEMMA ConjTwice ==
  ASSUME NEW x \in Amps
  PROVE  Conj(x) \in Amps /\ Conj(Conj(x)) = x
<1>1. x.c \in Quads /\ x = [k |-> x.k, c |-> x.c]
  BY DEF Amps
<1>2. QConj(QConj(x.c)) = x.c
  BY <1>1, QuadParts, QuadMake DEF QConj
<1>3. QED
  BY <1>1, <1>2, RingTypes DEF Conj

\* |x y|^2 and |x + y|^2.
LEMMA NormTimes ==
  ASSUME NEW x \in Amps, NEW y \in Amps
  PROVE  Norm2(Times(x, y)) = Times(Norm2(x), Norm2(y))
<1> DEFINE cx == Conj(x) cy == Conj(y)
<1>1. cx \in Amps /\ cy \in Amps /\ Conj(Times(x, y)) = Times(cx, cy)
  BY RingTypes, ConjLaws
<1> HIDE DEF cx, cy
<1>2. Times(x, y) \in Amps /\ Times(cx, cy) \in Amps /\ Times(x, cx) \in Amps /\ Times(y, cy) \in Amps
      /\ Times(y, Times(cx, cy)) \in Amps
  BY <1>1, RingTypes
<1>3. Times(Times(x, y), Times(cx, cy)) = Times(x, Times(y, Times(cx, cy)))
  BY <1>1, <1>2, TimesLaws
<1>4. Times(y, Times(cx, cy)) = Times(cx, Times(y, cy))
  BY <1>1, Past
<1>5. Times(x, Times(cx, Times(y, cy))) = Times(Times(x, cx), Times(y, cy))
  BY <1>1, <1>2, TimesLaws
<1>6. QED
  BY <1>1, <1>3, <1>4, <1>5 DEF Norm2, cx, cy

LEMMA NormPlus ==
  ASSUME NEW x \in Amps, NEW y \in Amps
  PROVE  /\ Times(Conj(x), y) \in Amps /\ Conj(Times(Conj(x), y)) = Times(Conj(y), x)
         /\ Norm2(Plus(x, y)) = Plus(Plus(Norm2(x), Norm2(y)), Plus(Times(Conj(x), y), Times(Conj(y), x)))
<1> DEFINE cx == Conj(x) cy == Conj(y)
<1>1. cx \in Amps /\ cy \in Amps /\ Conj(Plus(x, y)) = Plus(cx, cy) /\ Conj(cx) = x
  BY RingTypes, ConjLaws, ConjTwice
<1>2. Conj(Times(cx, y)) = Times(cy, x)
  BY <1>1, ConjLaws, TimesLaws
<1> HIDE DEF cx, cy
<1>3. Plus(x, y) \in Amps /\ Times(x, cx) \in Amps /\ Times(x, cy) \in Amps /\ Times(y, cx) \in Amps
      /\ Times(y, cy) \in Amps /\ Times(cx, y) \in Amps /\ Times(cy, x) \in Amps
  BY <1>1, RingTypes
<1>4. Times(Plus(x, y), Plus(cx, cy)) = Plus(Times(Plus(x, y), cx), Times(Plus(x, y), cy))
  BY <1>1, <1>3, TimesLaws
<1>5. /\ Times(Plus(x, y), cx) = Plus(Times(x, cx), Times(y, cx))
      /\ Times(Plus(x, y), cy) = Plus(Times(x, cy), Times(y, cy))
  BY <1>1, Gather
<1>6. Plus(Times(x, cy), Times(y, cy)) = Plus(Times(y, cy), Times(x, cy))
  BY <1>3, PlusLaws
<1>7. Plus(Plus(Times(x, cx), Times(y, cx)), Plus(Times(y, cy), Times(x, cy)))
        = Plus(Plus(Times(x, cx), Times(y, cy)), Plus(Times(y, cx), Times(x, cy)))
  BY <1>3, Regroup
<1>8. Times(y, cx) = Times(cx, y) /\ Times(x, cy) = Times(cy, x)
  BY <1>1, TimesLaws
<1>9. QED
  BY <1>1, <1>2, <1>3, <1>4, <1>5, <1>6, <1>7, <1>8 DEF Norm2, cx, cy

\* The two amplitudes of a pair.
LEMMA UnitaryPair ==
  ASSUME NEW m, Unitary(m), NEW a \in Amps, NEW b \in Amps
  PROVE  Plus(Norm2(Plus(Times(m[1], a), Times(m[2], b))), Norm2(Plus(Times(m[3], a), Times(m[4], b))))
           = Plus(Norm2(a), Norm2(b))
<1> DEFINE x1 == Times(m[1], a) y1 == Times(m[2], b)
           x2 == Times(m[3], a) y2 == Times(m[4], b)
           c1 == Times(Conj(x1), y1) d1 == Times(Conj(y1), x1)
           c2 == Times(Conj(x2), y2) d2 == Times(Conj(y2), x2)
           na == Norm2(a) nb == Norm2(b)
           n1 == Norm2(x1) n2 == Norm2(x2) l1 == Norm2(y1) l2 == Norm2(y2)
<1>1. m[1] \in Amps /\ m[2] \in Amps /\ m[3] \in Amps /\ m[4] \in Amps
  BY DEF Unitary, IsMatrix
<1>2. x1 \in Amps /\ y1 \in Amps /\ x2 \in Amps /\ y2 \in Amps
  BY <1>1, RingTypes
<1>3. /\ n1 = Times(Norm2(m[1]), na) /\ l1 = Times(Norm2(m[2]), nb)
      /\ n2 = Times(Norm2(m[3]), na) /\ l2 = Times(Norm2(m[4]), nb)
  BY <1>1, NormTimes
<1>4. /\ Norm2(m[1]) \in Amps /\ Norm2(m[2]) \in Amps /\ Norm2(m[3]) \in Amps /\ Norm2(m[4]) \in Amps
      /\ na \in Amps /\ nb \in Amps
  BY <1>1, NormLaws
<1>5. Plus(n1, n2) = na
  <2>1. Plus(n1, n2) = Times(Plus(Norm2(m[1]), Norm2(m[3])), na)
    BY <1>3, <1>4, Gather
  <2>2. Times(One, na) = na
    BY <1>4, TimesLaws
  <2>3. QED
    BY <2>1, <2>2 DEF Unitary
<1>6. Plus(l1, l2) = nb
  <2>1. Plus(l1, l2) = Times(Plus(Norm2(m[2]), Norm2(m[4])), nb)
    BY <1>3, <1>4, Gather
  <2>2. Times(One, nb) = nb
    BY <1>4, TimesLaws
  <2>3. QED
    BY <2>1, <2>2 DEF Unitary
<1>7. Plus(c1, c2) = Zero /\ c1 \in Amps /\ c2 \in Amps
  <2> DEFINE w == Times(Conj(a), b)
             p1 == Conj(m[1]) p3 == Conj(m[3])
  <2>1. p1 \in Amps /\ p3 \in Amps /\ Conj(a) \in Amps /\ w \in Amps
    BY <1>1, RingTypes
  <2>2. Conj(x1) = Times(p1, Conj(a)) /\ Conj(x2) = Times(p3, Conj(a))
    BY <1>1, ConjLaws
  <2>3. ASSUME NEW p \in Amps, NEW u \in Amps
        PROVE  Times(Times(p, Conj(a)), Times(u, b)) = Times(Times(p, u), w)
    <3> DEFINE e == Conj(a)
    <3>1. e \in Amps
      BY <2>1
    <3> HIDE DEF e
    <3>2. Times(u, b) \in Amps /\ Times(e, b) \in Amps
      BY <3>1, RingTypes
    <3>3. Times(Times(p, e), Times(u, b)) = Times(p, Times(e, Times(u, b)))
      BY <3>1, <3>2, TimesLaws
    <3>4. Times(e, Times(u, b)) = Times(u, Times(e, b))
      BY <3>1, Past
    <3>5. Times(p, Times(u, Times(e, b))) = Times(Times(p, u), Times(e, b))
      BY <3>2, TimesLaws
    <3>6. QED
      BY <3>3, <3>4, <3>5 DEF e
  <2>4. c1 = Times(Times(p1, m[2]), w) /\ c2 = Times(Times(p3, m[4]), w)
    BY <1>1, <2>1, <2>2, <2>3
  <2>5. Times(p1, m[2]) \in Amps /\ Times(p3, m[4]) \in Amps
    BY <1>1, <2>1, RingTypes
  <2>6. Plus(Times(Times(p1, m[2]), w), Times(Times(p3, m[4]), w))
          = Times(Plus(Times(p1, m[2]), Times(p3, m[4])), w)
    BY <2>1, <2>5, Gather
  <2>7. Times(Zero, w) = Zero
    BY <2>1, TimesLaws
  <2>8. Plus(Times(p1, m[2]), Times(p3, m[4])) = Zero
    BY DEF Unitary
  <2>9. c1 \in Amps /\ c2 \in Amps
    BY <2>1, <2>4, <2>5, RingTypes
  <2>10. QED
    BY <2>4, <2>6, <2>7, <2>8, <2>9
<1>8. Plus(d1, d2) = Zero /\ d1 \in Amps /\ d2 \in Amps
  <2>1. d1 = Conj(c1) /\ d2 = Conj(c2)
    BY <1>2, NormPlus
  <2>2. Conj(Zero) = Zero
    BY DEF Conj, Zero, Int2Amp, QConj
  <2>3. Plus(Conj(c1), Conj(c2)) = Conj(Plus(c1, c2)) /\ Conj(c1) \in Amps /\ Conj(c2) \in Amps
    BY <1>7, ConjLaws, RingTypes
  <2> HIDE DEF c1, c2, d1, d2
  <2>4. QED
    BY <1>7, <2>1, <2>2, <2>3
<1>9. Norm2(Plus(x1, y1)) = Plus(Plus(n1, l1), Plus(c1, d1))
      /\ Norm2(Plus(x2, y2)) = Plus(Plus(n2, l2), Plus(c2, d2))
  BY <1>2, NormPlus
<1>10. n1 \in Amps /\ n2 \in Amps /\ l1 \in Amps /\ l2 \in Amps
  BY <1>2, NormLaws
<1> HIDE DEF c1, c2, d1, d2, n1, n2, l1, l2, na, nb
<1>11. Plus(n1, l1) \in Amps /\ Plus(n2, l2) \in Amps /\ Plus(c1, d1) \in Amps /\ Plus(c2, d2) \in Amps
  BY <1>7, <1>8, <1>10, RingTypes
<1>12. Plus(Plus(Plus(n1, l1), Plus(c1, d1)), Plus(Plus(n2, l2), Plus(c2, d2)))
         = Plus(Plus(Plus(n1, l1), Plus(n2, l2)), Plus(Plus(c1, d1), Plus(c2, d2)))
  BY <1>11, Regroup
<1>13. Plus(Plus(n1, l1), Plus(n2, l2)) = Plus(na, nb)
  BY <1>5, <1>6, <1>10, Regroup
<1>14. Plus(Plus(c1, d1), Plus(c2, d2)) = Zero
  <2>1. Plus(Plus(c1, d1), Plus(c2, d2)) = Plus(Plus(c1, c2), Plus(d1, d2))
    BY <1>7, <1>8, Regroup
  <2>2. Plus(Zero, Zero) = Zero
    BY Constants, PlusLaws
  <2>3. QED
    BY <1>7, <1>8, <2>1, <2>2
<1>15. Plus(Plus(na, nb), Zero) = Plus(na, nb)
  <2>1. Plus(na, nb) \in Amps
    BY <1>4, RingTypes
  <2>2. QED
    BY <2>1, PlusLaws
<1>16. QED
  BY <1>9, <1>12, <1>13, <1>14, <1>15 DEF na, nb

\* Twice a number determines it.
LEMMA HalfOf ==
  ASSUME NEW x \in Amps, NEW y \in Amps, Plus(x, x) = Plus(y, y)
  PROVE  x = y
<1> DEFINE h == Dyadic(1, 1)
<1>1. h \in Amps
  BY HalfIs DEF Is
<1>2. Plus(h, h) = One
  <2>1. Is(Plus(h, h), 2, QAdd(<<1, 0, 0, 0>>, <<1, 0, 0, 0>>))
    BY HalfIs, PlusIs
  <2>2. QAdd(<<1, 0, 0, 0>>, <<1, 0, 0, 0>>) = <<2, 0, 0, 0>>
    BY DEF QAdd
  <2>3. Is(One, 2, <<2, 0, 0, 0>>)
    <3>1. <<1, 0, 0, 0>> \in Quads
      BY QuadMake
    <3>2. Is(One, 0 + 2, Raise(<<1, 0, 0, 0>>, 2))
      BY OneIs, IsMore
    <3>3. Raise(<<1, 0, 0, 0>>, 0 + 1) = TimesRoot2(<<1, 0, 0, 0>>)
          /\ Raise(<<1, 0, 0, 0>>, 1 + 1) = TimesRoot2(Raise(<<1, 0, 0, 0>>, 1))
      BY <3>1, RaiseSteps
    <3>4. TimesRoot2(TimesRoot2(<<1, 0, 0, 0>>)) = <<2, 0, 0, 0>>
      BY <2>2, <3>1, RootThrough
    <3>5. 0 + 1 = 1 /\ 1 + 1 = 2 /\ 0 + 2 = 2
      OBVIOUS
    <3>6. QED
      BY <3>2, <3>3, <3>4, <3>5
  <2>4. QED
    BY <2>1, <2>2, <2>3, IsUnique
<1> HIDE DEF h
<1>3. \A z \in Amps : Times(h, Plus(z, z)) = z
  <2> TAKE z \in Amps
  <2>1. Times(h, Plus(z, z)) = Plus(Times(h, z), Times(h, z))
    BY <1>1, TimesLaws
  <2>2. Plus(Times(h, z), Times(h, z)) = Times(Plus(h, h), z)
    BY <1>1, Gather
  <2>3. QED
    BY <1>2, <2>1, <2>2, TimesLaws
<1>4. QED
  BY <1>3

Squares(v) == [b \in Basis |-> Norm2(v[b])]
Norm(v) == Sum(Squares(v), Basis)

LEMMA FiniteBasis == IsFiniteSet(Basis)
<1>1. IsFiniteSet(Qubits)
  BY WidthAssumption, FS_Interval DEF Qubits
<1>2. QED
  BY <1>1, FS_SUBSET DEF Basis

LEMMA SquaresType ==
  ASSUME NEW v \in Vectors
  PROVE  Squares(v) \in [Basis -> Amps]
<1>1. \A b \in Basis : v[b] \in Amps
  BY DEF Vectors
<1>2. QED
  BY <1>1, NormLaws DEF Squares

\* Two families of numbers that agree on every pair have the same sum.
LEMMA PairedSums ==
  ASSUME NEW F \in [Basis -> Amps], NEW G \in [Basis -> Amps], NEW other \in [Basis -> Basis],
         \A b \in Basis : other[other[b]] = b /\ Plus(F[b], F[other[b]]) = Plus(G[b], G[other[b]])
  PROVE  Sum(F, Basis) = Sum(G, Basis)
<1>1. OneToOne(other, Basis, Basis) /\ ImageOf(other, Basis) = Basis
  <2>1. \A x, y \in Basis : other[x] = other[y] => x = y
    <3> TAKE x, y \in Basis
    <3> HAVE other[x] = other[y]
    <3>1. other[other[x]] = x /\ other[other[y]] = y
      OBVIOUS
    <3>2. QED
      BY <3>1
  <2>2. \A x \in Basis : other[x] \in Basis /\ other[other[x]] = x
    OBVIOUS
  <2>3. QED
    BY <2>1, <2>2 DEF OneToOne, ImageOf
<1>2. ASSUME NEW H \in [Basis -> Amps]
      PROVE  Sum([b \in Basis |-> Plus(H[b], H[other[b]])], Basis) = Plus(Sum(H, Basis), Sum(H, Basis))
             /\ Sum(H, Basis) \in Amps
  <2> DEFINE K == [b \in Basis |-> H[other[b]]]
  <2>1. K \in [Basis -> Amps]
    OBVIOUS
  <2>2. Sum(K, Basis) = Sum(H, Basis)
    BY <1>1, FiniteBasis, SumMove
  <2>3. \A b \in Basis : K[b] = H[other[b]]
    OBVIOUS
  <2> HIDE DEF K
  <2>4. Sum([b \in Basis |-> Plus(H[b], K[b])], Basis) = Plus(Sum(H, Basis), Sum(K, Basis))
    BY <2>1, FiniteBasis, SumPlus
  <2>5. [b \in Basis |-> Plus(H[b], K[b])] = [b \in Basis |-> Plus(H[b], H[other[b]])]
    BY <2>3
  <2>6. Sum(H, Basis) \in Amps
    BY FiniteBasis, SumLaws
  <2>7. QED
    BY <2>2, <2>4, <2>5, <2>6
<1>3. [b \in Basis |-> Plus(F[b], F[other[b]])] = [b \in Basis |-> Plus(G[b], G[other[b]])]
  OBVIOUS
<1>4. Plus(Sum(F, Basis), Sum(F, Basis)) = Plus(Sum(G, Basis), Sum(G, Basis))
  BY <1>2, <1>3
<1>5. QED
  BY <1>2, <1>4, HalfOf

LEMMA KernelNorm ==
  ASSUME NEW v \in Vectors, NEW role, NEW other, Pairing(role, other), NEW m, Unitary(m)
  PROVE  Kernel(v, role, other, m) \in Vectors /\ Norm(Kernel(v, role, other, m)) = Norm(v)
<1> DEFINE w == Kernel(v, role, other, m)
<1>1. w \in Vectors /\ \A b \in Basis : v[b] \in Amps /\ other[b] \in Basis /\ v[other[b]] \in Amps
  BY KernelType DEF Unitary
<1>2. \A b \in Basis : w[b] = KernelAt(v, role[b], other[b], m, b)
  BY DEF Kernel
<1> HIDE DEF w
<1>3. Squares(v) \in [Basis -> Amps] /\ Squares(w) \in [Basis -> Amps]
  BY <1>1, SquaresType
<1>4. ASSUME NEW b \in Basis
      PROVE  /\ other[other[b]] = b
             /\ Plus(Norm2(w[b]), Norm2(w[other[b]])) = Plus(Norm2(v[b]), Norm2(v[other[b]]))
  <2> DEFINE o == other[b]
  <2>1. o \in Basis /\ other[o] = b /\ role[b] \in Roles /\ role[o] \in Roles
        /\ (role[b] = "low" => role[o] = "high") /\ (role[b] = "high" => role[o] = "low")
        /\ (role[o] = "low" => role[b] = "high") /\ (role[o] = "high" => role[b] = "low")
    BY <1>1 DEF Pairing
  <2>2. w[b] = KernelAt(v, role[b], o, m, b) /\ w[o] = KernelAt(v, role[o], b, m, o)
    BY <1>2, <2>1
  <2>3. v[b] \in Amps /\ v[o] \in Amps
    BY <1>1
  <2>4. Plus(Norm2(v[o]), Norm2(v[b])) = Plus(Norm2(v[b]), Norm2(v[o]))
        /\ Plus(Norm2(w[o]), Norm2(w[b])) = Plus(Norm2(w[b]), Norm2(w[o]))
    <3>1. Norm2(v[o]) \in Amps /\ Norm2(v[b]) \in Amps
      BY <2>3, NormLaws
    <3>2. w[o] \in Amps /\ w[b] \in Amps
      BY <1>1, <2>1 DEF Vectors
    <3>3. Norm2(w[o]) \in Amps /\ Norm2(w[b]) \in Amps
      BY <3>2, NormLaws
    <3>4. QED
      BY <3>1, <3>3, PlusLaws
  <2> HIDE DEF o
  <2>5. CASE role[b] = "none"
    <3>1. role[o] = "none"
      BY <2>1, <2>5 DEF Roles
    <3>2. w[b] = v[b] /\ w[o] = v[o]
      BY <2>2, <2>5, <3>1 DEF KernelAt
    <3>3. QED
      BY <2>1, <3>2 DEF o
  <2>6. CASE role[b] = "low"
    <3>1. w[b] = Plus(Times(m[1], v[b]), Times(m[2], v[o])) /\ w[o] = Plus(Times(m[3], v[b]), Times(m[4], v[o]))
      BY <2>1, <2>2, <2>6 DEF KernelAt
    <3>2. QED
      BY <2>1, <2>3, <3>1, UnitaryPair DEF o
  <2>7. CASE role[b] = "high"
    <3>1. w[o] = Plus(Times(m[1], v[o]), Times(m[2], v[b])) /\ w[b] = Plus(Times(m[3], v[o]), Times(m[4], v[b]))
      BY <2>1, <2>2, <2>7 DEF KernelAt
    <3>2. Plus(Norm2(w[o]), Norm2(w[b])) = Plus(Norm2(v[o]), Norm2(v[b]))
      BY <2>3, <3>1, UnitaryPair
    <3>3. QED
      BY <2>1, <2>4, <3>2 DEF o
  <2>8. QED
    BY <2>1, <2>5, <2>6, <2>7 DEF Roles
<1>5. other \in [Basis -> Basis]
  BY DEF Pairing
<1>6. \A b \in Basis : /\ other[other[b]] = b
                       /\ Plus(Squares(w)[b], Squares(w)[other[b]]) = Plus(Squares(v)[b], Squares(v)[other[b]])
  BY <1>1, <1>4 DEF Squares
<1>7. Sum(Squares(w), Basis) = Sum(Squares(v), Basis)
  BY <1>3, <1>5, <1>6, PairedSums
<1>8. QED
  BY <1>1, <1>7 DEF Norm, w

-----------------------------------------------------------------------------
(* The matrices of the gates are unitary.                                  *)

LEMMA UnitNorms ==
  /\ \A m \in Int : Norm2(Ei(m)) = One /\ Conj(Ei(m)) = Ei(-m)
  /\ Norm2(Zero) = Zero /\ Norm2(One) = One /\ Norm2(ImUnit) = One
  /\ Plus(Norm2(ISqrt2), Norm2(ISqrt2)) = One
  /\ Conj(Zero) = Zero /\ Conj(One) = One /\ Conj(ISqrt2) = ISqrt2 /\ Conj(ImUnit) = Neg(ImUnit)
  /\ \A x \in Amps : Norm2(Neg(x)) = Norm2(x)
<1>1. ASSUME NEW m \in Int PROVE Norm2(Ei(m)) = One /\ Conj(Ei(m)) = Ei(-m)
  <2>1. Conj(Ei(m)) = Ei(-m)
    <3>1. Ei(m) = [k |-> 0, c |-> Eq(m)] /\ -m \in Int /\ Ei(-m) = [k |-> 0, c |-> Eq(-m)]
      BY DEF Ei, Eq
    <3>2. QED
      BY <3>1, EiStep DEF Conj
  <2>2. Times(Ei(m), Ei(-m)) = Ei(m + (-m)) /\ m + (-m) = 0
    BY EiTimes
  <2>3. QED
    BY <2>1, <2>2, ZeroAngle DEF Norm2
<1>2. Norm2(Zero) = Zero
  BY Constants, NormLaws
<1>3. Conj(Zero) = Zero /\ Conj(One) = One /\ Conj(ISqrt2) = ISqrt2
  BY DEF Conj, Zero, One, ISqrt2, Int2Amp, QConj
<1>4. Norm2(One) = One
  BY <1>3, Constants, TimesLaws DEF Norm2
<1>5. Norm2(ImUnit) = One
  BY <1>1 DEF ImUnit
<1>6. Conj(ImUnit) = Neg(ImUnit)
  BY DEF Conj, Neg, ImUnit, Ei, QConj, QNeg
<1>7. Plus(Norm2(ISqrt2), Norm2(ISqrt2)) = One
  <2>1. GateMatrix([op |-> "H"]) = <<ISqrt2, ISqrt2, ISqrt2, Neg(ISqrt2)>>
    BY DEF GateMatrix, Matrix, OneQubit
  <2>2. MatTimes(GateMatrix([op |-> "H"]), GateMatrix([op |-> "H"])) = Unit
    BY Inverses
  <2>3. Plus(Times(ISqrt2, ISqrt2), Times(ISqrt2, ISqrt2)) = One
    BY <2>1, <2>2 DEF MatTimes, Unit
  <2>4. QED
    BY <1>3, <2>3 DEF Norm2
<1>8. ASSUME NEW x \in Amps PROVE Norm2(Neg(x)) = Norm2(x)
  <2>1. Conj(Neg(x)) = Neg(Conj(x)) /\ Conj(x) \in Amps
    BY ConjLaws, RingTypes
  <2>2. QED
    BY <2>1, Signs DEF Norm2
<1>9. QED
  BY <1>1, <1>2, <1>3, <1>4, <1>5, <1>6, <1>7, <1>8

\* cos^2 + sin^2 = 1, and both are real.
LEMMA CosSin ==
  ASSUME NEW m \in Int
  PROVE  /\ Cos(m) \in Amps /\ Sin(m) \in Amps /\ Conj(Cos(m)) = Cos(m) /\ Conj(Sin(m)) = Sin(m)
         /\ Plus(Norm2(Cos(m)), Norm2(Sin(m))) = One
<1> DEFINE C == Cos(m) S == Sin(m)
           c == Eq(m)
<1>1. Is(C, 2, CosQ(c)) /\ Is(S, 2, SinQ(c)) /\ C \in Amps /\ S \in Amps /\ c \in Quads
  BY CosIs, EiType
<1>2. Conj(C) = C /\ Conj(S) = S
  <2>1. Is(Conj(C), 2, QConj(CosQ(c))) /\ Is(Conj(S), 2, QConj(SinQ(c)))
    BY <1>1, NegIs
  <2> DEFINE c1 == c[1] c2 == c[2] c3 == c[3] c4 == c[4]
  <2>2. c1 \in Int /\ c2 \in Int /\ c3 \in Int /\ c4 \in Int
    BY <1>1, QuadParts
  <2> DEFINE z == CosQ(c)[3] y == SinQ(c)[3]
  <2>3. /\ QConj(CosQ(c)) = <<c1 + c1, -(c4 - c2), -z, -(c2 - c4)>> /\ CosQ(c) = <<c1 + c1, c2 - c4, z, c4 - c2>>
        /\ QConj(SinQ(c)) = <<c3 + c3, -(-(c2 + c4)), -y, -(c2 + c4)>>
        /\ SinQ(c) = <<c3 + c3, c2 + c4, y, -(c2 + c4)>>
    BY DEF QConj, CosQ, SinQ
  <2>4. z = 0 /\ y = 0
    BY DEF CosQ, SinQ
  <2>6. z \in Int /\ y \in Int /\ z + z = 0 /\ y + y = 0
    BY <2>4
  <2> HIDE DEF c1, c2, c3, c4, c, z, y
  <2>7. -z = z /\ -y = y /\ -(c4 - c2) = c2 - c4 /\ -(c2 - c4) = c4 - c2 /\ -(-(c2 + c4)) = c2 + c4
    BY <2>2, <2>6
  <2>8. QConj(CosQ(c)) = CosQ(c) /\ QConj(SinQ(c)) = SinQ(c)
    BY <2>3, <2>7
  <2>5. QED
    BY <1>1, <2>1, <2>8, IsUnique
<1>3. Cos(-m) = C /\ Sin(-m) = Neg(S)
  <2>1. -m \in Int /\ -(-m) = m
    OBVIOUS
  <2>2. Ei(m) \in Amps /\ Ei(-m) \in Amps
    BY <2>1, EiType
  <2>3. Cos(-m) = C
    BY <2>1, <2>2, PlusLaws DEF Cos
  <2>4. Minus(Ei(-m), Ei(m)) = Neg(Minus(Ei(m), Ei(-m)))
    <3>1. Neg(Ei(m)) \in Amps /\ Neg(Ei(-m)) \in Amps /\ Neg(Neg(Ei(-m))) = Ei(-m)
      BY <2>2, RingTypes, PlusLaws
    <3>2. Neg(Plus(Ei(m), Neg(Ei(-m)))) = Plus(Neg(Ei(m)), Neg(Neg(Ei(-m))))
      BY <2>2, <3>1, PlusLaws
    <3>3. Plus(Ei(-m), Neg(Ei(m))) = Plus(Neg(Ei(m)), Ei(-m))
      BY <2>2, <3>1, PlusLaws
    <3>4. QED
      BY <3>1, <3>2, <3>3 DEF Minus
  <2>5. Times(Ei(-2), Dyadic(1, 1)) \in Amps /\ Minus(Ei(m), Ei(-m)) \in Amps
    <3>1. Ei(-2) \in Amps /\ Dyadic(1, 1) \in Amps
      BY EiType, HalfIs DEF Is
    <3>2. QED
      BY <2>2, <3>1, RingTypes
  <2>6. Sin(-m) = Neg(S)
    BY <2>1, <2>4, <2>5, TimesLaws DEF Sin
  <2>7. QED
    BY <2>3, <2>6
<1> HIDE DEF C, S
<1>4. Plus(Times(Cos(m), Cos(-m)), Neg(Times(Sin(m), Sin(-m)))) = Cos(m + (-m))
  <2>1. -m \in Int
    OBVIOUS
  <2>2. QED
    BY <2>1, Addition
<1>5. Neg(Times(S, Neg(S))) = Times(S, S)
  <2>1. Times(S, S) \in Amps /\ Times(S, Neg(S)) = Neg(Times(S, S))
    BY <1>1, RingTypes, TimesLaws
  <2>2. QED
    BY <2>1, PlusLaws
<1>6. m + (-m) = 0
  OBVIOUS
<1>7. Plus(Times(C, C), Times(S, S)) = One
  BY <1>3, <1>4, <1>5, <1>6, ZeroAngle DEF C, S
<1>8. QED
  BY <1>1, <1>2, <1>7 DEF Norm2, C, S

LEMMA UnitaryDiagonal ==
  ASSUME NEW a \in Amps, NEW d \in Amps, Norm2(a) = One, Norm2(d) = One
  PROVE  Unitary(<<a, Zero, Zero, d>>) /\ Unitary(<<Zero, a, d, Zero>>)
<1>1. Plus(One, Zero) = One /\ Plus(Zero, One) = One /\ Plus(Zero, Zero) = Zero
  BY Constants, PlusLaws
<1>2. Conj(a) \in Amps /\ Conj(d) \in Amps
  BY RingTypes
<1>3. Times(Conj(a), Zero) = Zero /\ Times(Zero, d) = Zero /\ Times(Zero, a) = Zero /\ Times(Conj(d), Zero) = Zero
  BY <1>2, Constants, TimesLaws
<1>4. QED
  BY <1>1, <1>3, UnitNorms, Constants DEF Unitary, IsMatrix

\* A rotation, with phases.
LEMMA UnitaryTurn ==
  ASSUME NEW C \in Amps, NEW S \in Amps, Conj(C) = C, Conj(S) = S, Plus(Norm2(C), Norm2(S)) = One,
         NEW x \in Int, NEW y \in Int
  PROVE  Unitary(<<C, Neg(Times(Ei(y), S)), Times(Ei(x), S), Times(Ei(x + y), C)>>)
<1> DEFINE e == Ei(x) l == Ei(y) p == Ei(x + y) f == Ei(-x)
<1>1. x + y \in Int /\ -x \in Int /\ (-x) + (x + y) = y
  OBVIOUS
<1>2. e \in Amps /\ l \in Amps /\ p \in Amps /\ f \in Amps /\ Conj(e) = f /\ Times(f, p) = l
  BY <1>1, EiType, EiTimes, UnitNorms
<1>3. Norm2(e) = One /\ Norm2(l) = One /\ Norm2(p) = One
  BY <1>1, UnitNorms
<1> HIDE DEF e, l, p, f
<1>4. Times(l, S) \in Amps /\ Times(e, S) \in Amps /\ Times(p, C) \in Amps /\ Neg(Times(l, S)) \in Amps
  BY <1>2, RingTypes
<1>5. Norm2(C) \in Amps /\ Norm2(S) \in Amps
  BY NormLaws
<1>6. Norm2(Times(e, S)) = Norm2(S) /\ Norm2(Neg(Times(l, S))) = Norm2(S) /\ Norm2(Times(p, C)) = Norm2(C)
  <2>1. Norm2(Times(e, S)) = Times(One, Norm2(S)) /\ Norm2(Times(l, S)) = Times(One, Norm2(S))
        /\ Norm2(Times(p, C)) = Times(One, Norm2(C))
    BY <1>2, <1>3, NormTimes
  <2>2. Norm2(Neg(Times(l, S))) = Norm2(Times(l, S))
    BY <1>4, UnitNorms
  <2>3. QED
    BY <1>5, <2>1, <2>2, TimesLaws
<1>7. Plus(Norm2(S), Norm2(C)) = One
  BY <1>5, PlusLaws
<1>8. Times(Conj(C), Neg(Times(l, S))) = Neg(Times(l, Times(S, C)))
  <2>1. Times(C, Neg(Times(l, S))) = Neg(Times(C, Times(l, S)))
    BY <1>4, TimesLaws
  <2>2. Times(C, Times(l, S)) = Times(l, Times(C, S)) /\ Times(C, S) = Times(S, C)
    BY <1>2, Past, TimesLaws
  <2>3. QED
    BY <2>1, <2>2
<1>9. Times(Conj(Times(e, S)), Times(p, C)) = Times(l, Times(S, C))
  <2>1. Conj(Times(e, S)) = Times(f, S)
    BY <1>2, ConjLaws
  <2>2. Times(S, C) \in Amps /\ Times(f, S) \in Amps /\ Times(S, Times(p, C)) \in Amps
    BY <1>2, <1>4, RingTypes
  <2>3. Times(Times(f, S), Times(p, C)) = Times(f, Times(S, Times(p, C)))
    BY <1>2, <1>4, TimesLaws
  <2>4. Times(S, Times(p, C)) = Times(p, Times(S, C))
    BY <1>2, Past
  <2>5. Times(f, Times(p, Times(S, C))) = Times(Times(f, p), Times(S, C))
    BY <1>2, <2>2, TimesLaws
  <2>6. QED
    BY <1>2, <2>1, <2>3, <2>4, <2>5
<1>10. Plus(Neg(Times(l, Times(S, C))), Times(l, Times(S, C))) = Zero
  <2> DEFINE w == Times(l, Times(S, C))
  <2>1. w \in Amps
    BY <1>2, RingTypes
  <2> HIDE DEF w
  <2>2. Neg(w) \in Amps /\ Plus(w, Neg(w)) = Zero /\ Plus(Neg(w), w) = Plus(w, Neg(w))
    BY <2>1, RingTypes, PlusLaws
  <2>3. QED
    BY <2>2 DEF w
<1>11. QED
  BY <1>4, <1>6, <1>7, <1>8, <1>9, <1>10 DEF Unitary, IsMatrix, e, l, p

LEMMA UnitaryRotations ==
  ASSUME NEW t \in Int
  PROVE  /\ Unitary(RbsBlock(t)) /\ Unitary(RzMatrix(t))
         /\ LET s == Neg(Times(ImUnit, Sin(t))) IN Unitary(<<Cos(t), s, s, Cos(t)>>)
         /\ \A x, y \in Int : Unitary(U3Matrix(t, x, y))
<1>1. t \div 2 \in Int /\ -(t \div 2) \in Int
  OBVIOUS
<1>2. ASSUME NEW u \in Int, NEW x \in Int, NEW y \in Int
      PROVE  Unitary(<<Cos(u), Neg(Times(Ei(y), Sin(u))), Times(Ei(x), Sin(u)), Times(Ei(x + y), Cos(u))>>)
  BY CosSin, UnitaryTurn
<1>3. \A x, y \in Int : Unitary(U3Matrix(t, x, y))
  BY <1>1, <1>2 DEF U3Matrix
<1>4. Unitary(RzMatrix(t))
  BY <1>1, UnitNorms, EiType, UnitaryDiagonal DEF RzMatrix
<1>5. Unitary(RbsBlock(t))
  <2>1. Unitary(<<Cos(t), Neg(Times(Ei(0), Sin(t))), Times(Ei(0), Sin(t)), Times(Ei(0 + 0), Cos(t))>>)
    BY <1>2
  <2>2. Ei(0) = One /\ Ei(0 + 0) = One
    BY ZeroAngle
  <2>3. Times(One, Sin(t)) = Sin(t) /\ Times(One, Cos(t)) = Cos(t)
    BY Constants, TimesLaws
  <2>4. QED
    BY <2>1, <2>2, <2>3 DEF RbsBlock
<1>6. LET s == Neg(Times(ImUnit, Sin(t))) IN Unitary(<<Cos(t), s, s, Cos(t)>>)
  <2>1. Unitary(<<Cos(t), Neg(Times(Ei(2), Sin(t))), Times(Ei(-2), Sin(t)), Times(Ei((-2) + 2), Cos(t))>>)
    BY <1>2
  <2>2. Ei((-2) + 2) = One
    BY ZeroAngle
  <2>3. Ei(-2) = Neg(ImUnit)
    BY UnitNorms DEF ImUnit
  <2>4. Times(Neg(ImUnit), Sin(t)) = Neg(Times(ImUnit, Sin(t))) /\ Times(One, Cos(t)) = Cos(t)
    BY Constants, TimesLaws
  <2>5. QED
    BY <2>1, <2>2, <2>3, <2>4 DEF ImUnit
<1>7. QED
  BY <1>3, <1>4, <1>5, <1>6

LEMMA UnitarySx ==
  Unitary(SxMatrix(1)) /\ Unitary(SxMatrix(-1))
<1>1. ASSUME NEW s \in Int, NEW t \in Int, s + t = 0, Ei(s + s) = Neg(Ei(t + t)) PROVE Unitary(SxMatrix(s))
  <2>1. -s = t /\ -t = s
    BY <1>1
  <2> DEFINE I == ISqrt2 e == Ei(s) f == Ei(t) a == Times(I, e) b == Times(I, f)
             n == Norm2(I)
  <2>2. I \in Amps /\ e \in Amps /\ f \in Amps /\ a \in Amps /\ b \in Amps /\ n \in Amps
    BY <2>1, Constants, RingTypes, NormLaws
  <2>3. Conj(e) = f /\ Conj(f) = e /\ Conj(I) = I /\ Norm2(e) = One /\ Norm2(f) = One /\ Plus(n, n) = One
    BY <2>1, UnitNorms
  <2>4. Norm2(a) = n /\ Norm2(b) = n
    BY <2>2, <2>3, NormTimes, TimesLaws
  <2>5. Conj(a) = Times(I, f) /\ Conj(b) = Times(I, e)
    BY <2>2, <2>3, ConjLaws
  <2>6. Times(f, f) = Ei(t + t) /\ Times(e, e) = Ei(s + s)
    BY <2>1, EiTimes
  <2>7. ASSUME NEW z \in Amps PROVE Times(Times(I, z), Times(I, z)) = Times(Times(I, I), Times(z, z))
    <3>1. Times(I, z) \in Amps /\ Times(I, I) \in Amps /\ Times(z, z) \in Amps
      BY <2>2, RingTypes
    <3>2. Times(Times(I, z), Times(I, z)) = Times(I, Times(z, Times(I, z)))
      BY <2>2, <3>1, TimesLaws
    <3>3. Times(z, Times(I, z)) = Times(I, Times(z, z))
      BY <2>2, Past
    <3>4. Times(I, Times(I, Times(z, z))) = Times(Times(I, I), Times(z, z))
      BY <2>2, <3>1, TimesLaws
    <3>5. QED
      BY <3>2, <3>3, <3>4
  <2> DEFINE w == Times(Times(I, I), Ei(t + t))
  <2>8. Times(Conj(a), b) = w
    BY <2>2, <2>5, <2>6, <2>7
  <2>9. Times(Conj(b), a) = Neg(w) /\ w \in Amps
    <3>1. Times(Conj(b), a) = Times(Times(I, I), Neg(Ei(t + t)))
      BY <1>1, <2>2, <2>5, <2>6, <2>7
    <3>2. t + t \in Int
      BY <2>1
    <3>3. Ei(t + t) \in Amps /\ Times(I, I) \in Amps
      BY <3>2, EiType, <2>2, RingTypes
    <3>4. QED
      BY <3>1, <3>3, TimesLaws, RingTypes
  <2>10. Plus(w, Neg(w)) = Zero
    BY <2>9, PlusLaws
  <2> HIDE DEF w, a, b, I, e, f, n
  <2>11. SxMatrix(s) = <<a, b, b, a>>
    BY <2>1 DEF SxMatrix, a, b, I, e, f
  <2>12. Unitary(<<a, b, b, a>>)
    BY <2>2, <2>3, <2>4, <2>8, <2>9, <2>10 DEF Unitary, IsMatrix
  <2>13. QED
    BY <2>11, <2>12
<1>2. Ei(2) = Neg(Ei(-2)) /\ Ei(-2) = Neg(Ei(2))
  <2>1. Ei(-2) = Neg(Ei(2))
    BY UnitNorms DEF ImUnit
  <2>2. Neg(Neg(Ei(2))) = Ei(2)
    BY EiType, PlusLaws
  <2>3. QED
    BY <2>1, <2>2
<1>3. 1 + 1 = 2 /\ (-1) + (-1) = -2 /\ 1 + (-1) = 0 /\ (-1) + 1 = 0 /\ -1 \in Int
  OBVIOUS
<1>4. Unitary(SxMatrix(1))
  <2>1. Ei(1 + 1) = Neg(Ei((-1) + (-1)))
    BY <1>2, <1>3
  <2>2. QED
    BY <1>1, <1>3, <2>1
<1>5. Unitary(SxMatrix(-1))
  <2>1. Ei((-1) + (-1)) = Neg(Ei(1 + 1))
    BY <1>2, <1>3
  <2>2. QED
    BY <1>1, <1>3, <2>1
<1>6. QED
  BY <1>4, <1>5

LEMMA UnitaryGates ==
  ASSUME NEW g, Plain(g)
  PROVE  Unitary(GateMatrix(g))
<1> DEFINE op == g.op
<1>1. op \in OneQubit => GateMatrix(g) = Matrix(g)
  BY DEF GateMatrix
<1>2. op \in Controlled => GateMatrix(g) = Block(g)
  BY DEF GateMatrix, OneQubit, Controlled
<1>3. /\ op \in {"Rx", "Ry", "Rz", "U1", "CRz", "Rbs"} => g.th[1] \in Int
      /\ op = "U2" => g.th[1] \in Int /\ g.th[2] \in Int
      /\ op \in {"U3", "CU3"} => g.th[1] \in Int /\ g.th[2] \in Int /\ g.th[3] \in Int
  BY DEF Plain, Angles
<1>4. Unitary(XMat)
  BY Constants, UnitNorms, UnitaryDiagonal DEF XMat
<1>5. op \notin OneQubit \cup Controlled \cup {"Rbs"} => GateMatrix(g) = XMat
  BY DEF GateMatrix
<1>6. op = "Rbs" => Unitary(GateMatrix(g))
  BY <1>3, UnitaryRotations DEF GateMatrix, OneQubit, Controlled
<1>7. Neg(One) \in Amps /\ Norm2(Neg(One)) = One /\ Neg(ImUnit) \in Amps /\ Norm2(Neg(ImUnit)) = One
  BY Constants, UnitNorms, RingTypes
<1>8. /\ Unitary(<<Zero, One, One, Zero>>) /\ Unitary(<<Zero, Neg(ImUnit), ImUnit, Zero>>)
      /\ Unitary(<<One, Zero, Zero, Neg(One)>>) /\ Unitary(<<One, Zero, Zero, ImUnit>>)
      /\ Unitary(<<One, Zero, Zero, Neg(ImUnit)>>)
      /\ \A m \in Int : Unitary(<<One, Zero, Zero, Ei(m)>>)
  BY <1>7, Constants, UnitNorms, UnitaryDiagonal
<1>9. op \in Controlled => Unitary(Block(g))
  <2>1. CASE op = "CX" BY <1>8, <2>1 DEF Block
  <2>2. CASE op = "CY" BY <1>8, <2>2 DEF Block
  <2>3. CASE op = "CZ" BY <1>8, <2>3 DEF Block
  <2>4. CASE op = "CRz" BY <1>3, <2>4, UnitaryRotations DEF Block
  <2>5. CASE op = "CU3" BY <1>3, <2>5, UnitaryRotations DEF Block
  <2>6. QED
    BY <2>1, <2>2, <2>3, <2>4, <2>5 DEF Controlled
<1>10. Unitary(<<ISqrt2, ISqrt2, ISqrt2, Neg(ISqrt2)>>)
  <2> DEFINE I == ISqrt2 n == Norm2(I)
  <2>1. I \in Amps /\ Neg(I) \in Amps /\ Times(I, I) \in Amps
    BY Constants, RingTypes
  <2>2. Plus(n, n) = One /\ Norm2(Neg(I)) = n /\ Conj(I) = I
    BY <2>1, UnitNorms
  <2>3. Times(I, Neg(I)) = Neg(Times(I, I)) /\ Plus(Times(I, I), Neg(Times(I, I))) = Zero
    BY <2>1, TimesLaws, PlusLaws
  <2> HIDE DEF I, n
  <2>4. Unitary(<<I, I, I, Neg(I)>>)
    BY <2>1, <2>2, <2>3 DEF Unitary, IsMatrix, n
  <2>5. QED
    BY <2>4 DEF I
<1>11. op \in OneQubit => Unitary(Matrix(g))
  <2>1. CASE op = "H" BY <1>10, <2>1 DEF Matrix
  <2>2. CASE op = "X" BY <1>8, <2>2 DEF Matrix
  <2>3. CASE op = "Y" BY <1>8, <2>3 DEF Matrix
  <2>4. CASE op = "Z" BY <1>8, <2>4 DEF Matrix
  <2>5. CASE op = "S" BY <1>8, <2>5 DEF Matrix
  <2>6. CASE op = "Sdg" BY <1>8, <2>6 DEF Matrix
  <2>7. CASE op = "Sx" BY UnitarySx, <2>7 DEF Matrix
  <2>8. CASE op = "Sxdg" BY UnitarySx, <2>8 DEF Matrix
  <2>9. CASE op = "T" BY <1>8, <2>9 DEF Matrix
  <2>10. CASE op = "Tdg" BY <1>8, <2>10 DEF Matrix
  <2>11. CASE op = "Rx"
    <3>1. g.th[1] \div 2 \in Int
      BY <1>3, <2>11
    <3>2. QED
      BY <2>11, <3>1, UnitaryRotations DEF Matrix
  <2>12. CASE op = "Ry"
    <3>1. g.th[1] \div 2 \in Int
      BY <1>3, <2>12
    <3>2. QED
      BY <2>12, <3>1, UnitaryRotations DEF Matrix, RbsBlock
  <2>13. CASE op = "Rz" BY <1>3, <2>13, UnitaryRotations DEF Matrix
  <2>14. CASE op = "U1" BY <1>3, <1>8, <2>14 DEF Matrix
  <2>15. CASE op = "U2"
    <3>1. Unitary(U3Matrix(2, g.th[1], g.th[2]))
      <4>1. \A t \in Int : \A x, y \in Int : Unitary(U3Matrix(t, x, y))
        BY UnitaryRotations
      <4>2. QED
        BY <1>3, <2>15, <4>1
    <3>2. QED
      BY <2>15, <3>1 DEF Matrix
  <2>16. CASE op = "U3" BY <1>3, <2>16, UnitaryRotations DEF Matrix
  <2>17. QED
    BY <2>1, <2>2, <2>3, <2>4, <2>5, <2>6, <2>7, <2>8, <2>9, <2>10, <2>11, <2>12, <2>13, <2>14,
       <2>15, <2>16 DEF OneQubit
<1>12. QED
  BY <1>1, <1>2, <1>4, <1>5, <1>6, <1>9, <1>11

-----------------------------------------------------------------------------
(* The sums of the model.                                                  *)

\* The recursion of a fold that adds has a solution, and it is the sum.
Adds(f, F, S) ==
    f = [t \in SUBSET S |->
           IF t = {} THEN Zero ELSE Plus(F[CHOOSE x \in t : TRUE], f[t \ {CHOOSE x \in t : TRUE}])]

LEMMA SumSolves ==
  ASSUME NEW S, IsFiniteSet(S), NEW F, \A x \in S : F[x] \in Amps
  PROVE  \E f : Adds(f, F, S)
<1>1. PICK f : SumsTo(f, F, S)
  BY SumExists
<1>2. f = [t \in SUBSET S |->
             IF t = {} THEN Zero ELSE Plus(F[CHOOSE x \in t : TRUE], f[t \ {CHOOSE x \in t : TRUE}])]
  BY <1>1 DEF SumsTo, Picked
<1>3. QED
  BY <1>2 DEF Adds

LEMMA SolvedSum ==
  ASSUME NEW S, IsFiniteSet(S), NEW F, \A x \in S : F[x] \in Amps, NEW f, Adds(f, F, S)
  PROVE  f[S] = Sum(F, S)
<1>1. f[{}] = Zero /\ \A t \in SUBSET S : t # {} => f[t] = Plus(F[Picked(t)], f[t \ {Picked(t)}])
  BY DEF Picked, Adds
<1> DEFINE P == {t \in SUBSET S : f[t] \in Amps}
<1>2. {} \in P
  BY <1>1, Constants
<1>3. \A t \in SUBSET S : t # {} => \E x \in t : t \ {x} \in P => t \in P
  <2> TAKE t \in SUBSET S
  <2> HAVE t # {}
  <2>1. Picked(t) \in t
    BY DEF Picked
  <2>2. t \ {Picked(t)} \in P => t \in P
    <3>1. F[Picked(t)] \in Amps
      BY <2>1
    <3>2. QED
      BY <1>1, <3>1, RingTypes
  <2>3. QED
    BY <2>1, <2>2
<1> HIDE DEF P
<1>4. \A t \in SUBSET S : t \in P
  BY <1>2, <1>3, SubsetInduction
<1>5. f \in [SUBSET S -> Amps]
  BY <1>4 DEF P, Adds
<1>6. SumsTo(f, F, S)
  BY <1>1, <1>5 DEF SumsTo
<1>7. QED
  BY <1>6, SumIs

\* The basis states that agree with an outcome.
HalfOn(q, o) == {b \in Basis : (q \in b) = (o = 1)}

LEMMA HalfFinite ==
  ASSUME NEW q, NEW o
  PROVE  HalfOn(q, o) \in SUBSET Basis /\ IsFiniteSet(HalfOn(q, o))
<1>1. HalfOn(q, o) \in SUBSET Basis
  BY DEF HalfOn
<1>2. QED
  BY <1>1, FiniteBasis, FS_Subset

LEMMA ProbIs ==
  ASSUME NEW v \in Vectors, NEW q, NEW o
  PROVE  ProbOf(v, q, o) = Sum(Squares(v), HalfOn(q, o))
<1> DEFINE S == HalfOn(q, o) F == Squares(v)
           iter[t \in SUBSET S] ==
             IF t = {} THEN Zero
             ELSE Plus(Norm2(v[CHOOSE x \in t : TRUE]), iter[t \ {CHOOSE x \in t : TRUE}])
<1>1. ProbOf(v, q, o) = iter[S]
  BY DEF ProbOf, SumOver, MapThenFoldSet, Prob, HalfOn
<1>2. \A x \in S : F[x] \in Amps /\ F[x] = Norm2(v[x])
  BY SquaresType, HalfFinite DEF Squares
<1>3. \A t \in SUBSET S : t # {} => F[CHOOSE x \in t : TRUE] = Norm2(v[CHOOSE x \in t : TRUE])
  BY <1>2
<1>4. IsFiniteSet(S)
  BY HalfFinite
<1> HIDE DEF F
<1>5. \E f : f = [t \in SUBSET S |->
                    IF t = {} THEN Zero
                    ELSE Plus(Norm2(v[CHOOSE x \in t : TRUE]), f[t \ {CHOOSE x \in t : TRUE}])]
  <2> HIDE DEF S, iter
  <2>1. PICK f : Adds(f, F, S)
    BY <1>2, <1>4, SumSolves
  <2>2. f = [t \in SUBSET S |->
                    IF t = {} THEN Zero ELSE Plus(Norm2(v[CHOOSE x \in t : TRUE]), f[t \ {CHOOSE x \in t : TRUE}])]
    BY <1>3, <2>1 DEF Adds
  <2>3. QED
    BY <2>2
<1>6. iter = [t \in SUBSET S |->
                IF t = {} THEN Zero
                ELSE Plus(Norm2(v[CHOOSE x \in t : TRUE]), iter[t \ {CHOOSE x \in t : TRUE}])]
  BY <1>5
<1> HIDE DEF iter, S
<1>7. Adds(iter, F, S)
  BY <1>3, <1>6 DEF Adds
<1>8. iter[S] = Sum(F, S)
  BY <1>2, <1>4, <1>7, SolvedSum
<1>9. QED
  BY <1>1, <1>8 DEF F, S

\* The two outcomes share the norm.
LEMMA ProbHalves ==
  ASSUME NEW v \in Vectors, NEW q
  PROVE  /\ ProbOf(v, q, 0) \in Amps /\ ProbOf(v, q, 1) \in Amps
         /\ Norm(v) = Plus(ProbOf(v, q, 0), ProbOf(v, q, 1))
<1>1. HalfOn(q, 1) = Basis \ HalfOn(q, 0)
  BY DEF HalfOn
<1>2. \A o : HalfOn(q, o) \in SUBSET Basis
  BY HalfFinite
<1>3. Sum(Squares(v), Basis) = Plus(Sum(Squares(v), HalfOn(q, 0)), Sum(Squares(v), HalfOn(q, 1)))
  BY <1>1, <1>2, FiniteBasis, SquaresType, SumUnion
<1>4. Sum(Squares(v), HalfOn(q, 0)) \in Amps /\ Sum(Squares(v), HalfOn(q, 1)) \in Amps
  BY <1>2, FiniteBasis, SquaresType, SumLaws
<1>5. QED
  BY <1>3, <1>4, ProbIs DEF Norm

\* A permutation of the basis that is its own inverse keeps the norm.
LEMMA MoveNorm ==
  ASSUME NEW v \in Vectors, NEW move \in [Basis -> Basis], \A b \in Basis : move[move[b]] = b
  PROVE  LET w == [b \in Basis |-> v[move[b]]] IN w \in Vectors /\ Norm(w) = Norm(v)
<1> DEFINE w == [b \in Basis |-> v[move[b]]] F == Squares(w) G == Squares(v)
<1>1. w \in Vectors
  BY DEF Vectors
<1>2. F \in [Basis -> Amps] /\ G \in [Basis -> Amps]
  BY <1>1, SquaresType
<1>3. \A b \in Basis : F[b] = G[move[b]]
  BY DEF Squares
<1> HIDE DEF F, G, w
<1>4. \A b \in Basis : Plus(F[b], F[move[b]]) = Plus(G[b], G[move[b]])
  <2> TAKE b \in Basis
  <2>1. F[b] = G[move[b]] /\ F[move[b]] = G[b] /\ G[b] \in Amps /\ G[move[b]] \in Amps
    BY <1>2, <1>3
  <2>2. QED
    BY <2>1, PlusLaws
<1>5. Sum(F, Basis) = Sum(G, Basis)
  BY <1>2, <1>4, PairedSums
<1>6. QED
  BY <1>1, <1>5 DEF Norm, F, G, w

\* The two gates of three wires.
Triple(g) ==
    /\ g.op \in {"CCX", "CSwap"}
    /\ g.qs[1] \in Qubits /\ g.qs[2] \in Qubits /\ g.qs[3] \in Qubits
    /\ g.qs[1] # g.qs[3] /\ g.qs[2] # g.qs[3] /\ g.qs[1] # g.qs[2]

\* Every gate of the dense engine keeps the norm of the vector.
LEMMA GateNorm ==
  ASSUME NEW g, Plain(g) \/ Triple(g), NEW v \in Vectors
  PROVE  ApplyGate(v, g) \in Vectors /\ Norm(ApplyGate(v, g)) = Norm(v)
<1>1. CASE Plain(g)
  BY <1>1, GateKernel, GatePairing, UnitaryGates, KernelNorm
<1>2. CASE Triple(g) /\ g.op = "CCX"
  <2> DEFINE move == [b \in Basis |-> IF {g.qs[1], g.qs[2]} \subseteq b THEN Flip(b, g.qs[3]) ELSE b]
  <2>1. move \in [Basis -> Basis]
    BY <1>2, FlipLaws DEF Triple
  <2>2. ASSUME NEW b \in Basis PROVE move[move[b]] = b
    <3>1. CASE {g.qs[1], g.qs[2]} \subseteq b
      <4>1. Flip(b, g.qs[3]) \in Basis /\ Flip(Flip(b, g.qs[3]), g.qs[3]) = b
            /\ {g.qs[1], g.qs[2]} \subseteq Flip(b, g.qs[3])
        BY <1>2, <3>1, FlipLaws DEF Triple
      <4>2. QED
        BY <3>1, <4>1
    <3>2. CASE ~({g.qs[1], g.qs[2]} \subseteq b)
      BY <3>2
    <3>3. QED
      BY <3>1, <3>2
  <2>3. ApplyGate(v, g) = [b \in Basis |-> v[move[b]]]
    BY <1>2 DEF ApplyGate, OneQubit, Controlled
  <2> HIDE DEF move
  <2>4. QED
    BY <2>1, <2>2, <2>3, MoveNorm
<1>3. CASE Triple(g) /\ g.op = "CSwap"
  <2> DEFINE move == [b \in Basis |-> IF g.qs[1] \in b THEN Swapped(b, g.qs[2], g.qs[3]) ELSE b]
  <2>1. move \in [Basis -> Basis]
    BY <1>3, SwapLaws DEF Triple
  <2>2. ASSUME NEW b \in Basis PROVE move[move[b]] = b
    <3>1. CASE g.qs[1] \in b
      <4>1. Swapped(b, g.qs[2], g.qs[3]) \in Basis /\ Swapped(Swapped(b, g.qs[2], g.qs[3]), g.qs[2], g.qs[3]) = b
            /\ g.qs[1] \in Swapped(b, g.qs[2], g.qs[3])
        <5>1. g.qs[1] \in Qubits /\ g.qs[2] \in Qubits /\ g.qs[3] \in Qubits /\ g.qs[2] # g.qs[3]
              /\ g.qs[1] # g.qs[2] /\ g.qs[1] # g.qs[3]
          BY <1>3 DEF Triple
        <5>2. \A p, q, r \in Qubits : p # q /\ r # p /\ r # q =>
                /\ Swapped(b, p, q) \in Basis /\ Swapped(Swapped(b, p, q), p, q) = b
                /\ r \in Swapped(b, p, q) <=> r \in b
          BY SwapLaws
        <5> HIDE DEF move
        <5>3. QED
          BY <3>1, <5>1, <5>2
      <4>2. QED
        BY <3>1, <4>1
    <3>2. CASE g.qs[1] \notin b
      BY <3>2
    <3>3. QED
      BY <3>1, <3>2
  <2>3. ApplyGate(v, g) = [b \in Basis |-> v[move[b]]]
    BY <1>3 DEF ApplyGate, OneQubit, Controlled
  <2> HIDE DEF move
  <2>4. QED
    BY <2>1, <2>2, <2>3, MoveNorm
<1>4. QED
  BY <1>1, <1>2, <1>3 DEF Triple

LEMMA ZeroStateNorm == ZeroState \in Vectors /\ Norm(ZeroState) = One
<1>1. ZeroState \in Vectors
  BY Constants DEF ZeroState, Vectors
<1>2. {} \in Basis
  BY DEF Basis
<1>3. \A b \in Basis : Squares(ZeroState)[b] = IF b = {} THEN One ELSE Zero
  BY UnitNorms DEF Squares, ZeroState
<1>4. Sum(Squares(ZeroState), Basis) = Squares(ZeroState)[{}]
  BY <1>1, <1>2, <1>3, FiniteBasis, SquaresType, SumSingle
<1>5. QED
  BY <1>1, <1>2, <1>3, <1>4 DEF Norm

-----------------------------------------------------------------------------
(* Double sums, and sums of signs.                                         *)

\* One line of a table, summed; one column of it.
LineSums(F, S, T) == [x \in S |-> Sum(F[x], T)]
Column1(F, S, y) == [x \in S |-> F[x][y]]
ColumnSums(F, S, T, U) == [y \in T |-> Sum(Column1(F, S, y), U)]

\* The order of two sums does not matter.
LEMMA SumSwap ==
  ASSUME NEW S, IsFiniteSet(S), NEW T, IsFiniteSet(T), NEW F \in [S -> [T -> Amps]]
  PROVE  /\ LineSums(F, S, T) \in [S -> Amps] /\ ColumnSums(F, S, T, S) \in [T -> Amps]
         /\ Sum(LineSums(F, S, T), S) = Sum(ColumnSums(F, S, T, S), T)
<1> DEFINE L == LineSums(F, S, T)
           P == {U \in SUBSET S : Sum(L, U) = Sum(ColumnSums(F, S, T, U), T)}
<1>1. \A x \in S : F[x] \in [T -> Amps] /\ Sum(F[x], T) \in Amps
  <2>1. T \in SUBSET T
    OBVIOUS
  <2>2. QED
    BY <2>1, SumLaws
<1>2. L \in [S -> Amps] /\ \A x \in S : L[x] = Sum(F[x], T)
  BY <1>1 DEF LineSums
<1>3. \A y \in T : Column1(F, S, y) \in [S -> Amps] /\ \A x \in S : Column1(F, S, y)[x] = F[x][y]
  BY DEF Column1
<1>4. \A U \in SUBSET S : ColumnSums(F, S, T, U) \in [T -> Amps]
                          /\ \A y \in T : ColumnSums(F, S, T, U)[y] = Sum(Column1(F, S, y), U)
  <2> TAKE U \in SUBSET S
  <2>1. \A y \in T : Sum(Column1(F, S, y), U) \in Amps
    BY <1>3, SumLaws
  <2>2. QED
    BY <2>1 DEF ColumnSums
<1> HIDE DEF L
<1>5. {} \in P
  <2>1. Sum(L, {}) = Zero
    BY <1>2, SumLaws
  <2>2. \A y \in T : ColumnSums(F, S, T, {})[y] = Zero
    BY <1>3, <1>4, SumLaws
  <2>3. Sum(ColumnSums(F, S, T, {}), T) = Zero
    BY <2>2, SumOfZeros
  <2>4. QED
    BY <2>1, <2>3
<1>6. ASSUME NEW U \in SUBSET S, U # {} PROVE \E x \in U : U \ {x} \in P => U \in P
  <2>1. PICK x \in U : TRUE
    BY <1>6
  <2> DEFINE R == U \ {x}
             A == ColumnSums(F, S, T, R)
             G == F[x]
  <2>2. R \in SUBSET S /\ x \in S
    OBVIOUS
  <2>3. Sum(L, U) = Plus(Sum(G, T), Sum(L, R))
    BY <1>2, <2>2, SumLaws
  <2>4. A \in [T -> Amps] /\ G \in [T -> Amps]
    BY <1>1, <1>4, <2>2
  <2>5. \A y \in T : ColumnSums(F, S, T, U)[y] = Plus(G[y], A[y])
    <3> TAKE y \in T
    <3> DEFINE K == Column1(F, S, y)
    <3>1. K \in [S -> Amps] /\ K[x] = G[y]
      BY <1>3, <2>2
    <3>2. ColumnSums(F, S, T, U)[y] = Sum(K, U) /\ A[y] = Sum(K, R)
      BY <1>4, <2>2
    <3> HIDE DEF K, A, G, R
    <3>3. Sum(K, U) = Plus(K[x], Sum(K, U \ {x}))
      BY <3>1, SumLaws
    <3>4. QED
      BY <3>1, <3>2, <3>3 DEF R
  <2>6. \A y \in T : ColumnSums(F, S, T, U)[y] \in Amps
    BY <1>4
  <2> HIDE DEF A, G
  <2>7. \A y \in T : [t \in T |-> Plus(G[t], A[t])][y] \in Amps
                     /\ ColumnSums(F, S, T, U)[y] = [t \in T |-> Plus(G[t], A[t])][y]
    BY <2>5, <2>6
  <2> DEFINE H == [t \in T |-> Plus(G[t], A[t])]
  <2>8. Sum(ColumnSums(F, S, T, U), T) = Sum(H, T)
    <3>1. \A y \in T : H[y] \in Amps /\ ColumnSums(F, S, T, U)[y] = H[y]
      BY <2>7
    <3> HIDE DEF H
    <3>2. QED
      BY <3>1, SumSame
  <2>9. Sum(H, T) = Plus(Sum(G, T), Sum(A, T))
    BY <2>4, SumPlus
  <2>10. R \in P => U \in P
    BY <2>3, <2>8, <2>9 DEF A
  <2>11. QED
    BY <2>10
<1> HIDE DEF P
<1>7. \A U \in SUBSET S : U \in P
  BY <1>5, <1>6, SubsetInduction
<1>8. S \in P
  BY <1>7
<1>9. QED
  BY <1>2, <1>4, <1>8 DEF P, L

\* Whole numbers.
LEMMA WholeIs ==
  ASSUME NEW n \in Int
  PROVE  Is(Int2Amp(n), 0, <<n, 0, 0, 0>>) /\ Int2Amp(n) \in Amps /\ <<n, 0, 0, 0>> \in Quads
<1>1. <<n, 0, 0, 0>> \in Quads
  BY QuadMake
<1> DEFINE x == Int2Amp(n)
<1>2. x.k = 0 /\ x.c = <<n, 0, 0, 0>> /\ x = [k |-> 0, c |-> <<n, 0, 0, 0>>]
  BY DEF Int2Amp
<1>3. x \in Amps
  BY <1>1, <1>2 DEF Amps, Reducible
<1> HIDE DEF x
<1>4. x.k - x.k = 0
  BY <1>2
<1>5. Is(x, 0, <<n, 0, 0, 0>>)
  BY <1>2, <1>3, IsSelf
<1>6. QED
  BY <1>1, <1>3, <1>5 DEF x

LEMMA WholePlus ==
  ASSUME NEW m \in Int, NEW n \in Int
  PROVE  Plus(Int2Amp(m), Int2Amp(n)) = Int2Amp(m + n) /\ Neg(Int2Amp(n)) = Int2Amp(-n)
<1>1. /\ Is(Int2Amp(m), 0, <<m, 0, 0, 0>>) /\ Is(Int2Amp(n), 0, <<n, 0, 0, 0>>)
      /\ Is(Int2Amp(m + n), 0, <<m + n, 0, 0, 0>>) /\ Is(Int2Amp(-n), 0, <<-n, 0, 0, 0>>)
  BY WholeIs
<1>2. Is(Plus(Int2Amp(m), Int2Amp(n)), 0, QAdd(<<m, 0, 0, 0>>, <<n, 0, 0, 0>>))
  BY <1>1, PlusIs
<1>3. QAdd(<<m, 0, 0, 0>>, <<n, 0, 0, 0>>) = <<m + n, 0, 0, 0>>
  BY DEF QAdd
<1>4. Is(Neg(Int2Amp(n)), 0, QNeg(<<n, 0, 0, 0>>))
  BY <1>1, NegIs
<1>5. QNeg(<<n, 0, 0, 0>>) = <<-n, 0, 0, 0>>
  <2> DEFINE c == <<n, 0, 0, 0>>
  <2>1. \A i \in Int : i + (-i) = 0
    OBVIOUS
  <2>2. c[1] = n /\ c[2] = 0 /\ c[3] = 0 /\ c[4] = 0
    OBVIOUS
  <2> HIDE DEF c
  <2>3. -c[2] = 0 /\ -c[3] = 0 /\ -c[4] = 0
    <3>1. \A i \in Int : i + (-i) = 0 /\ -i \in Int
      BY <2>1
    <3>2. \A i, j \in Int : i = 0 /\ i + j = 0 => j = 0
      OBVIOUS
    <3>3. \A i \in Int : i = 0 => -i = 0
      BY <3>1, <3>2, Zenon
    <3>4. 0 \in Int
      OBVIOUS
    <3>5. QED
      BY <2>2, <3>3, <3>4, Zenon
  <2>4. QNeg(c) = <<-n, 0, 0, 0>>
    BY <2>2, <2>3 DEF QNeg
  <2>5. QED
    BY <2>4 DEF c
<1>6. QED
  BY <1>1, <1>2, <1>3, <1>4, <1>5, IsUnique

\* Signs over S, negative on M.
SignsOn(S, M) == [x \in S |-> IF x \in M THEN Neg(One) ELSE One]

LEMMA SumOfSigns ==
  ASSUME NEW S, IsFiniteSet(S), NEW M \in SUBSET S
  PROVE  Sum(SignsOn(S, M), S) = Int2Amp(Cardinality(S) - 2 * Cardinality(M))
<1> DEFINE F == SignsOn(S, M)
           Count(U) == Cardinality(U) - 2 * Cardinality(U \cap M)
           P == {U \in SUBSET S : Sum(F, U) = Int2Amp(Count(U))}
<1>1. One = Int2Amp(1) /\ Neg(One) = Int2Amp(-1) /\ One \in Amps /\ Neg(One) \in Amps
  <2>1. 1 \in Int /\ -1 \in Int /\ \A i \in Int : i = 1 => -i = -1
    OBVIOUS
  <2>2. One = Int2Amp(1)
    BY DEF One
  <2>3. \A i \in Int : Neg(Int2Amp(i)) = Int2Amp(-i) /\ Int2Amp(i) \in Amps
    BY WholePlus, WholeIs
  <2>4. \A i \in Int : i = 1 => Neg(Int2Amp(i)) = Int2Amp(-1)
    BY <2>1, <2>3
  <2>5. QED
    BY <2>1, <2>2, <2>3, <2>4
<1>2. F \in [S -> Amps] /\ \A x \in S : F[x] = Int2Amp(IF x \in M THEN -1 ELSE 1)
  BY <1>1 DEF SignsOn
<1> HIDE DEF F
<1>3. {} \in P
  <2>1. {} \cap M = {} /\ Cardinality({}) = 0
    BY FS_EmptySet
  <2>2. Count({}) = 0
    BY <2>1
  <2>3. Sum(F, {}) = Zero /\ Zero = Int2Amp(0)
    BY <1>2, SumLaws DEF Zero
  <2>4. QED
    BY <2>2, <2>3
<1>4. ASSUME NEW U \in SUBSET S, U # {} PROVE \E x \in U : U \ {x} \in P => U \in P
  <2>1. PICK x \in U : TRUE
    BY <1>4
  <2> DEFINE R == U \ {x}
             d == IF x \in M THEN -1 ELSE 1
  <2>2. R \in SUBSET S /\ x \in S
    OBVIOUS
  <2>3. Sum(F, U) = Plus(Int2Amp(d), Sum(F, R))
    BY <1>2, <2>2, SumLaws
  <2>4. IsFiniteSet(U) /\ IsFiniteSet(R) /\ IsFiniteSet(U \cap M) /\ IsFiniteSet(R \cap M)
    BY <2>2, FS_Subset
  <2>5. Cardinality(U) \in Nat /\ Cardinality(R) \in Nat /\ Cardinality(U) = Cardinality(R) + 1
    BY <2>4, FS_CardinalityType, FS_RemoveElement
  <2>6. Cardinality(U \cap M) \in Nat /\ Cardinality(R \cap M) \in Nat
        /\ Cardinality(U \cap M) = Cardinality(R \cap M) + (IF x \in M THEN 1 ELSE 0)
    <3>1. Cardinality(U \cap M) \in Nat /\ Cardinality(R \cap M) \in Nat
      BY <2>4, FS_CardinalityType
    <3>2. CASE x \in M
      <4>1. x \in U \cap M /\ R \cap M = (U \cap M) \ {x}
        BY <3>2
      <4>2. Cardinality((U \cap M) \ {x}) = Cardinality(U \cap M) - 1
        BY <2>4, <4>1, FS_RemoveElement
      <4>3. QED
        BY <3>1, <3>2, <4>1, <4>2
    <3>3. CASE x \notin M
      <4>1. R \cap M = U \cap M
        BY <3>3
      <4>2. QED
        BY <3>1, <3>3, <4>1
    <3>4. QED
      BY <3>2, <3>3
  <2>7. Count(U) = d + Count(R) /\ Count(R) \in Int /\ d \in Int
    BY <2>5, <2>6
  <2> HIDE DEF d, Count
  <2>8. Plus(Int2Amp(d), Int2Amp(Count(R))) = Int2Amp(Count(U))
    BY <2>7, WholePlus
  <2>9. R \in P => U \in P
    BY <2>3, <2>8
  <2>10. QED
    BY <2>9
<1> HIDE DEF P
<1>5. \A U \in SUBSET S : U \in P
  BY <1>3, <1>4, SubsetInduction
<1>6. S \in P /\ S \cap M = M
  BY <1>5
<1>7. QED
  BY <1>6 DEF P, F

-----------------------------------------------------------------------------
(* Fractions.                                                              *)

LEMMA DyadicIs ==
  ASSUME NEW j \in Nat, NEW n \in Int
  PROVE  Is(Dyadic(n, j), 2 * j, <<n, 0, 0, 0>>)
<1>1. 2 * j \in Nat /\ <<n, 0, 0, 0>> \in Quads
  BY QuadMake
<1>2. QED
  BY <1>1, LowestIs DEF Dyadic

LEMMA DyadicTimes ==
  ASSUME NEW j \in Nat, NEW n \in Int
  PROVE  Times(Dyadic(1, j), Int2Amp(n)) = Dyadic(n, j) /\ Dyadic(n, j) \in Amps
<1> DEFINE o == 1
<1>1. o \in Int /\ 2 * j \in Nat /\ 2 * j + 0 = 2 * j /\ 0 \in Nat
  OBVIOUS
<1>2. QMul(<<o, 0, 0, 0>>, <<n, 0, 0, 0>>) = <<n, 0, 0, 0>>
  BY DEF QMul
<1> HIDE DEF o
<1>3. Is(Dyadic(o, j), 2 * j, <<o, 0, 0, 0>>) /\ Is(Dyadic(n, j), 2 * j, <<n, 0, 0, 0>>)
  BY <1>1, DyadicIs
<1>4. Is(Int2Amp(n), 0, <<n, 0, 0, 0>>)
  BY WholeIs
<1>5. Is(Times(Dyadic(o, j), Int2Amp(n)), 2 * j + 0, QMul(<<o, 0, 0, 0>>, <<n, 0, 0, 0>>))
  BY <1>1, <1>3, <1>4, TimesIs
<1>6. Times(Dyadic(o, j), Int2Amp(n)) = Dyadic(n, j)
  BY <1>1, <1>2, <1>3, <1>5, IsUnique
<1>7. Dyadic(n, j) \in Amps
  BY <1>3 DEF Is
<1>8. QED
  BY <1>6, <1>7 DEF o

LEMMA DyadicHalf ==
  ASSUME NEW j \in Nat
  PROVE  Dyadic(2, j + 1) = Dyadic(1, j) /\ Dyadic(1, 0) = One
<1> DEFINE o == 1
           t == 2
           c == <<o, 0, 0, 0>>
           d == <<t, 0, 0, 0>>
<1>1. o \in Int /\ t \in Int /\ j + 1 \in Nat /\ 2 * (j + 1) = 2 * j + 2 /\ 2 * j \in Nat /\ 2 \in Nat /\ 2 * 0 = 0
  OBVIOUS
<1>2. c \in Quads /\ Is(One, 0, c)
  BY QuadMake, OneIs
<1>3. Raise(c, 2) = d
  <2>1. Raise(c, 0) = c /\ Raise(c, 0 + 1) = TimesRoot2(Raise(c, 0)) /\ Raise(c, 1 + 1) = TimesRoot2(Raise(c, 1))
    BY <1>2, RaiseSteps
  <2>2. 0 + 1 = 1 /\ 1 + 1 = 2
    OBVIOUS
  <2>3. Raise(c, 2) = TimesRoot2(TimesRoot2(c))
    BY <2>1, <2>2
  <2>4. TimesRoot2(TimesRoot2(c)) = d
    BY DEF TimesRoot2
  <2>5. QED
    BY <2>3, <2>4
<1> HIDE DEF o, t
<1>4. Is(Dyadic(t, j + 1), 2 * (j + 1), d) /\ Is(Dyadic(o, j), 2 * j, c) /\ Is(Dyadic(o, 0), 2 * 0, c)
  BY <1>1, DyadicIs
<1> HIDE DEF c, d
<1>5. Is(Dyadic(o, j), 2 * j + 2, Raise(c, 2))
  BY <1>1, <1>4, IsMore
<1>6. Dyadic(t, j + 1) = Dyadic(o, j)
  BY <1>1, <1>3, <1>4, <1>5, IsUnique
<1>7. Dyadic(o, 0) = One
  BY <1>1, <1>2, <1>4, IsUnique
<1>8. QED
  BY <1>6, <1>7 DEF o, t

-----------------------------------------------------------------------------
(* The unit i.                                                             *)

\* i times x, and the products of a matrix with the Paulis.
Im(x) == Times(ImUnit, x)

LEMMA ImLaws ==
  ASSUME NEW x \in Amps
  PROVE  /\ Im(x) \in Amps /\ Neg(x) \in Amps /\ Times(Neg(ImUnit), x) = Neg(Im(x)) /\ Times(x, ImUnit) = Im(x)
         /\ Times(x, Neg(ImUnit)) = Neg(Im(x)) /\ Im(Neg(x)) = Neg(Im(x)) /\ Im(Im(x)) = Neg(x)
         /\ Neg(Neg(x)) = x /\ Times(Neg(One), x) = Neg(x) /\ Times(x, Neg(One)) = Neg(x)
         /\ Times(One, x) = x /\ Times(x, One) = x /\ Times(Zero, x) = Zero /\ Times(x, Zero) = Zero
         /\ Plus(x, Zero) = x /\ Plus(Zero, x) = x
<1> DEFINE i == ImUnit
<1>1. i \in Amps /\ One \in Amps /\ Zero \in Amps /\ Neg(i) \in Amps /\ Neg(One) \in Amps /\ Neg(x) \in Amps
      /\ Times(i, i) = Neg(One) /\ Times(i, x) \in Amps
  BY Constants, RingTypes, Signs
<1> HIDE DEF i
<1>2. /\ Times(One, x) = x /\ Times(x, One) = x /\ Times(Zero, x) = Zero /\ Times(x, Zero) = Zero
      /\ Plus(x, Zero) = x /\ Plus(Zero, x) = x /\ Neg(Neg(x)) = x
  BY PlusLaws, TimesLaws
<1>3. Times(Neg(One), x) = Neg(x) /\ Times(x, Neg(One)) = Neg(x)
  BY <1>1, <1>2, TimesLaws
<1>4. /\ Times(Neg(i), x) = Neg(Times(i, x)) /\ Times(x, i) = Times(i, x) /\ Times(i, Neg(x)) = Neg(Times(i, x))
  BY <1>1, TimesLaws
<1>5. Times(x, Neg(i)) = Neg(Times(i, x))
  BY <1>1, <1>4, TimesLaws
<1>6. Times(i, Times(i, x)) = Neg(x)
  BY <1>1, <1>3, TimesLaws
<1>7. QED
  BY <1>1, <1>2, <1>3, <1>4, <1>5, <1>6 DEF Im, i

\* The constants of the matrices.
LEMMA ImConstants ==
  /\ One \in Amps /\ Zero \in Amps /\ ISqrt2 \in Amps /\ ImUnit \in Amps
  /\ Neg(One) \in Amps /\ Neg(ImUnit) \in Amps /\ Neg(ISqrt2) \in Amps
  /\ Im(One) = ImUnit /\ Im(ImUnit) = Neg(One) /\ Im(Zero) = Zero /\ Neg(Zero) = Zero
<1>1. /\ One \in Amps /\ Zero \in Amps /\ ISqrt2 \in Amps /\ ImUnit \in Amps
      /\ Neg(One) \in Amps /\ Neg(ImUnit) \in Amps /\ Neg(ISqrt2) \in Amps
  BY Constants, RingTypes
<1>2. Neg(Zero) = Zero
  BY DEF Neg, Zero, Int2Amp, QNeg
<1>3. Im(One) = ImUnit /\ Im(Zero) = Zero /\ Im(ImUnit) = Neg(One)
  BY <1>1, TimesLaws, Signs DEF Im
<1>4. QED
  BY <1>1, <1>2, <1>3

-----------------------------------------------------------------------------
(* When a sum of products reaches its bound.                               *)

\* The terms of two sums, with their factors.
Blend(S, F, G, k, l) == [x \in S |-> Plus(Times(k, F[x]), Times(l, G[x]))]

Mixes(S, F, G, k, l) ==
    /\ Blend(S, F, G, k, l) \in [S -> Amps]
    /\ Sum(Blend(S, F, G, k, l), S) = Plus(Times(k, Sum(F, S)), Times(l, Sum(G, S)))

LEMMA SumTwo ==
  ASSUME NEW S, IsFiniteSet(S), NEW F \in [S -> Amps], NEW G \in [S -> Amps]
  PROVE  \A k, l \in Amps : Mixes(S, F, G, k, l)
<1> TAKE k, l \in Amps
<1> DEFINE kF == [x \in S |-> Times(k, F[x])] lG == [x \in S |-> Times(l, G[x])]
<1>1. kF \in [S -> Amps] /\ lG \in [S -> Amps]
  BY RingTypes
<1>2. Sum(kF, S) = Times(k, Sum(F, S)) /\ Sum(lG, S) = Times(l, Sum(G, S))
  BY SumTimes
<1>3. [x \in S |-> Plus(Times(k, F[x]), Times(l, G[x]))] = [x \in S |-> Plus(kF[x], lG[x])]
  OBVIOUS
<1> HIDE DEF kF, lG
<1>4. Sum([x \in S |-> Plus(kF[x], lG[x])], S) = Plus(Sum(kF, S), Sum(lG, S))
  BY <1>1, SumPlus
<1>5. \A x \in S : Plus(kF[x], lG[x]) \in Amps
  BY <1>1, RingTypes
<1>6. QED
  BY <1>2, <1>3, <1>4, <1>5 DEF Blend, Mixes

LEMMA SumMinus ==
  ASSUME NEW S, IsFiniteSet(S), NEW F \in [S -> Amps], NEW G \in [S -> Amps]
  PROVE  /\ [x \in S |-> Plus(F[x], Neg(G[x]))] \in [S -> Amps]
         /\ Sum([x \in S |-> Plus(F[x], Neg(G[x]))], S) = Plus(Sum(F, S), Neg(Sum(G, S)))
<1> DEFINE n == Neg(One)
<1>1. One \in Amps /\ n \in Amps
  BY ImConstants
<1>2. \A x \in S : Times(One, F[x]) = F[x] /\ Times(n, G[x]) = Neg(G[x])
  BY ImLaws
<1>3. [x \in S |-> Plus(Times(One, F[x]), Times(n, G[x]))] = [x \in S |-> Plus(F[x], Neg(G[x]))]
  BY <1>2
<1>4. Sum(F, S) \in Amps /\ Sum(G, S) \in Amps
  <2>1. S \in SUBSET S
    OBVIOUS
  <2>2. QED
    BY <2>1, SumLaws
<1>5. Times(One, Sum(F, S)) = Sum(F, S) /\ Times(n, Sum(G, S)) = Neg(Sum(G, S))
  BY <1>4, ImLaws
<1> HIDE DEF n
<1>6. \A k, l \in Amps : Mixes(S, F, G, k, l)
  BY SumTwo
<1>7. /\ [x \in S |-> Plus(Times(One, F[x]), Times(n, G[x]))] \in [S -> Amps]
      /\ Sum([x \in S |-> Plus(Times(One, F[x]), Times(n, G[x]))], S)
              = Plus(Times(One, Sum(F, S)), Times(n, Sum(G, S)))
  BY <1>1, <1>6 DEF Blend, Mixes
<1>8. QED
  BY <1>3, <1>5, <1>7

\* A sum of terms that are zero or positive is zero or positive.
LEMMA SumPositive ==
  ASSUME NEW S, IsFiniteSet(S), NEW F \in [S -> Amps], \A x \in S : F[x] = Zero \/ Positive(F[x])
  PROVE  Sum(F, S) = Zero \/ Positive(Sum(F, S))
<1> DEFINE Good(y) == y = Zero \/ Positive(y)
           P == {T \in SUBSET S : Good(Sum(F, T))}
<1>1. {} \in P
  BY SumLaws
<1>2. ASSUME NEW T \in SUBSET S, T # {} PROVE \E x \in T : T \ {x} \in P => T \in P
  <2>1. PICK x \in T : TRUE
    BY <1>2
  <2> DEFINE y == Sum(F, T \ {x})
  <2>2. Sum(F, T) = Plus(F[x], y) /\ F[x] \in Amps /\ y \in Amps
    BY SumLaws
  <2>3. T \ {x} \in P => Good(y)
    OBVIOUS
  <2>4. Plus(F[x], Zero) = F[x] /\ Plus(Zero, y) = y
    BY <2>2, ImLaws
  <2>5. F[x] = Zero \/ Positive(F[x])
    OBVIOUS
  <2> HIDE DEF y
  <2>6. Good(y) => Good(Sum(F, T))
    BY <2>2, <2>4, <2>5, PositivePlus
  <2>7. QED
    BY <2>3, <2>6
<1> HIDE DEF P
<1>3. \A T \in SUBSET S : T \in P
  BY <1>1, <1>2, SubsetInduction
<1>4. QED
  BY <1>3 DEF P

\* |a d - c b|^2.
LEMMA CrossNorm ==
  ASSUME NEW a \in Amps, NEW b \in Amps, NEW c \in Amps, NEW d \in Amps
  PROVE  Norm2(Plus(Times(a, d), Neg(Times(c, b))))
           = Plus(Plus(Times(Norm2(a), Norm2(d)), Times(Norm2(b), Norm2(c))),
                  Neg(Plus(Times(Times(Conj(a), b), Times(Conj(d), c)), Times(Times(Conj(b), a), Times(Conj(c), d)))))
<1> DEFINE x == Times(a, d) y == Times(c, b)
<1>1. x \in Amps /\ y \in Amps /\ Neg(y) \in Amps /\ Conj(a) \in Amps /\ Conj(b) \in Amps /\ Conj(c) \in Amps /\ Conj(d) \in Amps
  BY RingTypes
<1>2. Norm2(x) = Times(Norm2(a), Norm2(d)) /\ Norm2(y) = Times(Norm2(b), Norm2(c))
  <2>1. Norm2(x) = Times(Norm2(a), Norm2(d)) /\ Norm2(y) = Times(Norm2(c), Norm2(b))
    BY NormTimes
  <2>2. Norm2(b) \in Amps /\ Norm2(c) \in Amps
    BY NormLaws
  <2>3. QED
    BY <2>1, <2>2, TimesLaws
<1>3. Conj(x) = Times(Conj(a), Conj(d)) /\ Conj(y) = Times(Conj(c), Conj(b))
  BY ConjLaws
<1>4. Times(Conj(x), y) = Times(Times(Conj(a), b), Times(Conj(d), c))
  <2>1. \A p, q, r, s \in Amps : Times(Times(p, q), Times(r, s)) = Times(Times(p, s), Times(q, r))
    <3> TAKE p, q, r, s \in Amps
    <3>1. Times(q, Times(r, s)) = Times(s, Times(q, r)) /\ Times(r, s) \in Amps /\ Times(q, r) \in Amps
      <4>1. Times(r, s) = Times(s, r) /\ Times(r, s) \in Amps /\ Times(q, r) \in Amps
        BY TimesLaws, RingTypes
      <4>2. Times(q, Times(s, r)) = Times(s, Times(q, r))
        BY Past
      <4>3. QED
        BY <4>1, <4>2
    <3>2. Times(Times(p, q), Times(r, s)) = Times(p, Times(q, Times(r, s)))
      BY <3>1, TimesLaws
    <3>3. Times(Times(p, s), Times(q, r)) = Times(p, Times(s, Times(q, r)))
      BY <3>1, TimesLaws
    <3>4. QED
      BY <3>1, <3>2, <3>3
  <2>2. Times(Times(Conj(a), Conj(d)), Times(c, b)) = Times(Times(Conj(a), b), Times(Conj(d), c))
    BY <1>1, <2>1
  <2>3. QED
    BY <1>3, <2>2
<1>5. Times(Conj(y), x) = Times(Times(Conj(b), a), Times(Conj(c), d))
  <2>1. Times(Conj(x), y) \in Amps /\ Conj(Times(Conj(x), y)) = Times(Conj(y), x)
    BY <1>1, NormPlus
  <2>2. Times(Conj(a), b) \in Amps /\ Times(Conj(d), c) \in Amps
        /\ Conj(Times(Conj(a), b)) = Times(Conj(b), a) /\ Conj(Times(Conj(d), c)) = Times(Conj(c), d)
    BY NormPlus
  <2>3. Conj(Times(Times(Conj(a), b), Times(Conj(d), c))) = Times(Times(Conj(b), a), Times(Conj(c), d))
    BY <2>2, ConjLaws
  <2>4. QED
    BY <1>4, <2>1, <2>3
<1> HIDE DEF x, y
<1>6. Norm2(Plus(x, Neg(y))) = Plus(Plus(Norm2(x), Norm2(y)), Neg(Plus(Times(Conj(x), y), Times(Conj(y), x))))
  <2>1. Norm2(Plus(x, Neg(y))) = Plus(Plus(Norm2(x), Norm2(Neg(y))), Plus(Times(Conj(x), Neg(y)), Times(Conj(Neg(y)), x)))
    BY <1>1, NormPlus
  <2>2. Norm2(Neg(y)) = Norm2(y)
    BY <1>1, UnitNorms
  <2>3. Conj(x) \in Amps /\ Conj(y) \in Amps /\ Conj(Neg(y)) = Neg(Conj(y))
    BY <1>1, RingTypes, ConjLaws
  <2>4. Times(Conj(x), Neg(y)) = Neg(Times(Conj(x), y)) /\ Times(Neg(Conj(y)), x) = Neg(Times(Conj(y), x))
    BY <1>1, <2>3, TimesLaws
  <2>5. Times(Conj(x), y) \in Amps /\ Times(Conj(y), x) \in Amps
    BY <1>1, <2>3, RingTypes
  <2>6. Neg(Plus(Times(Conj(x), y), Times(Conj(y), x))) = Plus(Neg(Times(Conj(x), y)), Neg(Times(Conj(y), x)))
    BY <2>5, PlusLaws
  <2>7. QED
    BY <2>1, <2>2, <2>3, <2>4, <2>6
<1>7. QED
  BY <1>2, <1>4, <1>5, <1>6 DEF x, y

\* Where a sum of products reaches the bound of Cauchy and Schwarz, the two
\* families of factors are parallel.
LEMMA BoundReached ==
  ASSUME NEW S, IsFiniteSet(S), NEW A \in [S -> Amps], NEW D \in [S -> Amps],
         Times(Sum([x \in S |-> Norm2(A[x])], S), Sum([x \in S |-> Norm2(D[x])], S))
           = Norm2(Sum([x \in S |-> Times(Conj(A[x]), D[x])], S))
  PROVE  \A x, y \in S : Times(A[x], D[y]) = Times(A[y], D[x])
<1> DEFINE NA == [x \in S |-> Norm2(A[x])]
           ND == [x \in S |-> Norm2(D[x])]
           C  == [x \in S |-> Times(Conj(A[x]), D[x])]
           E  == [x \in S |-> Times(Conj(D[x]), A[x])]
           T(x, y) == Plus(Times(A[x], D[y]), Neg(Times(A[y], D[x])))
           sA == Sum(NA, S)
           sD == Sum(ND, S)
           sC == Sum(C, S)
           sE == Sum(E, S)
<1>1. NA \in [S -> Amps] /\ ND \in [S -> Amps] /\ C \in [S -> Amps] /\ E \in [S -> Amps]
  BY NormLaws, NormPlus
<1>2. \A x, y \in S : /\ T(x, y) \in Amps /\ Norm2(T(x, y)) \in Amps
                      /\ Norm2(T(x, y)) = Plus(Plus(Times(NA[x], ND[y]), Times(ND[x], NA[y])),
                                               Neg(Plus(Times(C[x], E[y]), Times(E[x], C[y]))))
                      /\ Norm2(T(x, y)) = Zero \/ Positive(Norm2(T(x, y)))
  <2> TAKE x, y \in S
  <2>1. A[x] \in Amps /\ A[y] \in Amps /\ D[x] \in Amps /\ D[y] \in Amps
    OBVIOUS
  <2>2. T(x, y) \in Amps
    BY <2>1, RingTypes
  <2>3. Norm2(T(x, y)) \in Amps /\ (Norm2(T(x, y)) = Zero \/ Positive(Norm2(T(x, y))))
    <3> HIDE DEF T
    <3>1. QED
      BY <2>2, NormLaws
  <2>4. Norm2(T(x, y)) = Plus(Plus(Times(NA[x], ND[y]), Times(ND[x], NA[y])),
                                               Neg(Plus(Times(C[x], E[y]), Times(E[x], C[y]))))
    BY <2>1, CrossNorm
  <2>5. QED
    BY <2>2, <2>3, <2>4
<1>3. \A x, y \in S : T(x, y) = Plus(Times(A[x], D[y]), Neg(Times(A[y], D[x])))
  OBVIOUS
<1>4. sA \in Amps /\ sD \in Amps /\ sC \in Amps /\ sE \in Amps
  <2>1. S \in SUBSET S
    OBVIOUS
  <2> HIDE DEF NA, ND, C, E
  <2>2. QED
    BY <1>1, <2>1, SumLaws
<1>5. sE = Conj(sC)
  <2>1. E = [x \in S |-> Conj(C[x])]
    BY NormPlus
  <2> HIDE DEF C, E
  <2>2. QED
    BY <1>1, <2>1, SumConj
<1>6. Times(sA, sD) = Times(sC, sE)
  BY <1>5 DEF Norm2
<1> HIDE DEF T, NA, ND, C, E
<1> DEFINE Line(x) == [y \in S |-> Norm2(T(x, y))]
<1>7. \A x \in S : /\ Line(x) \in [S -> Amps]
                   /\ Sum(Line(x), S) = Plus(Plus(Times(NA[x], sD), Times(ND[x], sA)), Neg(Plus(Times(C[x], sE), Times(E[x], sC))))
  <2> TAKE x \in S
  <2>1. NA[x] \in Amps /\ ND[x] \in Amps /\ C[x] \in Amps /\ E[x] \in Amps
    BY <1>1
  <2> DEFINE F == [y \in S |-> Plus(Times(NA[x], ND[y]), Times(ND[x], NA[y]))]
             G == [y \in S |-> Plus(Times(C[x], E[y]), Times(E[x], C[y]))]
  <2>2. F \in [S -> Amps] /\ Sum(F, S) = Plus(Times(NA[x], sD), Times(ND[x], sA))
    <3>1. \A k, l \in Amps : Mixes(S, ND, NA, k, l)
      BY <1>1, SumTwo
    <3>2. QED
      BY <2>1, <3>1 DEF Blend, Mixes
  <2>3. G \in [S -> Amps] /\ Sum(G, S) = Plus(Times(C[x], sE), Times(E[x], sC))
    <3>1. \A k, l \in Amps : Mixes(S, E, C, k, l)
      BY <1>1, SumTwo
    <3>2. QED
      BY <2>1, <3>1 DEF Blend, Mixes
  <2>4. \A y \in S : Norm2(T(x, y)) = Plus(F[y], Neg(G[y]))
    BY <1>2
  <2> HIDE DEF F, G
  <2>5. Line(x) = [y \in S |-> Plus(F[y], Neg(G[y]))]
    BY <2>4
  <2>6. QED
    BY <2>2, <2>3, <2>5, SumMinus
<1>8. \A x \in S : Sum(Line(x), S) \in Amps /\ (Sum(Line(x), S) = Zero \/ Positive(Sum(Line(x), S)))
  <2> TAKE x \in S
  <2>1. S \in SUBSET S /\ Line(x) \in [S -> Amps]
    BY <1>7
  <2>2. \A y \in S : Line(x)[y] = Zero \/ Positive(Line(x)[y])
    BY <1>2
  <2> HIDE DEF Line
  <2>3. QED
    BY <2>1, <2>2, SumLaws, SumPositive
<1> HIDE DEF Line
<1> DEFINE H == [x \in S |-> Sum(Line(x), S)]
<1>9. H \in [S -> Amps] /\ \A x \in S : H[x] = Zero \/ Positive(H[x])
  BY <1>8
<1>10. Sum(H, S) = Zero
  <2> DEFINE F == [x \in S |-> Plus(Times(sD, NA[x]), Times(sA, ND[x]))]
             G == [x \in S |-> Plus(Times(sE, C[x]), Times(sC, E[x]))]
  <2> HIDE DEF sA, sD, sC, sE
  <2>1. F \in [S -> Amps] /\ Sum(F, S) = Plus(Times(sD, sA), Times(sA, sD))
    <3>1. \A k, l \in Amps : Mixes(S, NA, ND, k, l)
      BY <1>1, SumTwo
    <3>2. Mixes(S, NA, ND, sD, sA)
      BY <1>4, <3>1
    <3>3. QED
      BY <3>2 DEF Blend, Mixes, sA, sD
  <2>2. G \in [S -> Amps] /\ Sum(G, S) = Plus(Times(sE, sC), Times(sC, sE))
    <3>1. \A k, l \in Amps : Mixes(S, C, E, k, l)
      BY <1>1, SumTwo
    <3>2. Mixes(S, C, E, sE, sC)
      BY <1>4, <3>1
    <3>3. QED
      BY <3>2 DEF Blend, Mixes, sC, sE
  <2>3. \A x \in S : H[x] = Plus(F[x], Neg(G[x]))
    <3> TAKE x \in S
    <3>1. NA[x] \in Amps /\ ND[x] \in Amps /\ C[x] \in Amps /\ E[x] \in Amps
      BY <1>1
    <3>2. Times(NA[x], sD) = Times(sD, NA[x]) /\ Times(ND[x], sA) = Times(sA, ND[x])
          /\ Times(C[x], sE) = Times(sE, C[x]) /\ Times(E[x], sC) = Times(sC, E[x])
      BY <1>4, <3>1, TimesLaws
    <3>3. QED
      BY <1>7, <3>2
  <2>4. Times(sD, sA) = Times(sE, sC)
    BY <1>4, <1>6, TimesLaws
  <2> HIDE DEF F, G
  <2>5. H = [x \in S |-> Plus(F[x], Neg(G[x]))]
    BY <2>3
  <2> HIDE DEF H
  <2>6. Sum(H, S) = Plus(Sum(F, S), Neg(Sum(G, S)))
    BY <2>1, <2>2, <2>5, SumMinus
  <2>7. Sum(F, S) = Sum(G, S) /\ Sum(F, S) \in Amps
    <3>1. S \in SUBSET S
      OBVIOUS
    <3>2. QED
      BY <1>6, <2>1, <2>2, <2>4, <3>1, SumLaws
  <2>8. QED
    BY <2>6, <2>7, PlusLaws
<1>11. \A x \in S : H[x] = Zero
  <2> HIDE DEF H
  <2>1. QED
    BY <1>9, <1>10, SquaresVanish
<1>12. ASSUME NEW x \in S, NEW y \in S PROVE Times(A[x], D[y]) = Times(A[y], D[x])
  <2>1. Line(x) \in [S -> Amps] /\ Sum(Line(x), S) = Zero
    BY <1>7, <1>11
  <2>2. \A z \in S : Line(x)[z] = Zero \/ Positive(Line(x)[z])
    BY <1>2 DEF Line
  <2>3. Line(x)[y] = Zero
    BY <2>1, <2>2, SquaresVanish
  <2>4. T(x, y) \in Amps /\ Norm2(T(x, y)) = Zero
    BY <1>2, <2>3 DEF Line
  <2>5. T(x, y) = Zero
    BY <2>4, NormLaws, PositiveNotZero
  <2> DEFINE p == Times(A[x], D[y]) r == Times(A[y], D[x])
  <2>6. p \in Amps /\ r \in Amps /\ Plus(p, Neg(r)) = Zero
    BY <1>3, <2>5, RingTypes
  <2> HIDE DEF p, r
  <2>7. p = r
    <3>1. Neg(r) \in Amps /\ Plus(Neg(r), r) = Zero
      BY <2>6, ImLaws, PlusLaws
    <3>2. Plus(Plus(p, Neg(r)), r) = Plus(p, Plus(Neg(r), r))
      BY <2>6, <3>1, PlusLaws
    <3>3. Plus(Zero, r) = r /\ Plus(p, Zero) = p
      BY <2>6, ImLaws
    <3>4. QED
      BY <2>6, <3>1, <3>2, <3>3
  <2>8. QED
    BY <2>7 DEF p, r
<1>13. QED
  BY <1>12

-----------------------------------------------------------------------------
(* The purity of a wire.                                                   *)

Off(q) == {b \in Basis : q \notin b}
Coherence(v, q) ==
    LET R01(b) == Times(v[b], Conj(v[b \cup {q}]))
    IN  SumOver(R01, Off(q))

\* The amplitudes where the wire is off, and those where it is on.
Below0(v, q) == [b \in Off(q) |-> v[b]]
Above1(v, q) == [b \in Off(q) |-> v[b \cup {q}]]

LEMMA OffLaws ==
  ASSUME NEW v \in Vectors, NEW q \in Qubits
  PROVE  /\ Off(q) \in SUBSET Basis /\ IsFiniteSet(Off(q)) /\ \A b \in Off(q) : b \cup {q} \in Basis
         /\ Below0(v, q) \in [Off(q) -> Amps] /\ Above1(v, q) \in [Off(q) -> Amps]
<1>1. Off(q) \in SUBSET Basis /\ \A b \in Off(q) : b \cup {q} \in Basis
  BY DEF Off, Basis
<1>2. IsFiniteSet(Off(q))
  BY <1>1, FiniteBasis, FS_Subset
<1>3. QED
  BY <1>1, <1>2 DEF Below0, Above1, Vectors

\* The outcomes and the coherence as sums over the same basis states.
LEMMA PopulationsAre ==
  ASSUME NEW v \in Vectors, NEW q \in Qubits
  PROVE  /\ ProbOf(v, q, 0) = Sum([b \in Off(q) |-> Norm2(Below0(v, q)[b])], Off(q))
         /\ ProbOf(v, q, 1) = Sum([b \in Off(q) |-> Norm2(Above1(v, q)[b])], Off(q))
<1> DEFINE S == Off(q)
           move == [b \in S |-> b \cup {q}]
           F == Squares(v)
<1>1. S \in SUBSET Basis /\ IsFiniteSet(S) /\ \A b \in S : b \cup {q} \in Basis
  BY OffLaws
<1>2. F \in [Basis -> Amps]
  BY SquaresType
<1>3. HalfOn(q, 0) = S /\ HalfOn(q, 1) = ImageOf(move, S)
  <2>1. HalfOn(q, 0) = S
    BY DEF HalfOn, Off
  <2>2. \A b \in HalfOn(q, 1) : b \in ImageOf(move, S)
    <3> TAKE b \in HalfOn(q, 1)
    <3>1. b \in Basis /\ q \in b
      BY DEF HalfOn
    <3>2. b \ {q} \in S /\ b = (b \ {q}) \cup {q}
      BY <3>1 DEF Off, Basis
    <3>3. move[b \ {q}] = b
      BY <3>2
    <3> HIDE DEF S, move
    <3>4. QED
      BY <3>2, <3>3 DEF ImageOf
  <2>3. \A b \in ImageOf(move, S) : b \in HalfOn(q, 1)
    BY <1>1 DEF ImageOf, HalfOn
  <2>4. QED
    BY <2>1, <2>2, <2>3
<1>4. OneToOne(move, S, Basis)
  <2>1. \A x, y \in S : x \cup {q} = y \cup {q} => x = y
    <3> TAKE x, y \in S
    <3> HAVE x \cup {q} = y \cup {q}
    <3>1. q \notin x /\ q \notin y
      BY DEF Off
    <3>2. \A i : i \in x <=> i \in y
      BY <3>1
    <3>3. QED
      BY <3>2
  <2>2. QED
    BY <1>1, <2>1 DEF OneToOne
<1>5. ProbOf(v, q, 0) = Sum(F, S) /\ ProbOf(v, q, 1) = Sum(F, ImageOf(move, S))
  BY <1>3, ProbIs
<1>6. \A b \in S : F[b] = Norm2(Below0(v, q)[b]) /\ F[move[b]] = Norm2(Above1(v, q)[b]) /\ F[b] \in Amps
  BY <1>1, <1>2 DEF Squares, Below0, Above1
<1> HIDE DEF S, move, F
<1>7. Sum([b \in S |-> F[move[b]]], S) = Sum(F, ImageOf(move, S))
  BY <1>1, <1>2, <1>4, FiniteBasis, SumMove
<1>8. [b \in S |-> F[move[b]]] = [b \in S |-> Norm2(Above1(v, q)[b])]
  BY <1>6
<1>9. Sum(F, S) = Sum([b \in S |-> Norm2(Below0(v, q)[b])], S)
  <2> DEFINE G == [b \in S |-> Norm2(Below0(v, q)[b])]
  <2>1. \A b \in S : G[b] \in Amps /\ F[b] = G[b]
    BY <1>6
  <2> HIDE DEF G
  <2>2. Sum(F, S) = Sum(G, S)
    BY <1>1, <2>1, SumSame
  <2>3. QED
    BY <2>2 DEF G
<1>10. QED
  BY <1>5, <1>7, <1>8, <1>9 DEF S

LEMMA CoherenceIs ==
  ASSUME NEW v \in Vectors, NEW q \in Qubits
  PROVE  Coherence(v, q) = Sum([b \in Off(q) |-> Times(Conj(Above1(v, q)[b]), Below0(v, q)[b])], Off(q))
<1> DEFINE S == Off(q)
           F == [b \in S |-> Times(Conj(Above1(v, q)[b]), Below0(v, q)[b])]
           R01(b) == Times(v[b], Conj(v[b \cup {q}]))
           iter[t \in SUBSET S] ==
             IF t = {} THEN Zero
             ELSE Plus(R01(CHOOSE x \in t : TRUE), iter[t \ {CHOOSE x \in t : TRUE}])
<1>1. Coherence(v, q) = iter[S]
  BY DEF Coherence, SumOver, MapThenFoldSet
<1>2. \A x \in S : F[x] \in Amps /\ F[x] = R01(x)
  <2> TAKE x \in S
  <2>1. v[x] \in Amps /\ v[x \cup {q}] \in Amps /\ Conj(v[x \cup {q}]) \in Amps
    BY OffLaws, RingTypes DEF Vectors
  <2> DEFINE a == Conj(v[x \cup {q}]) b == v[x]
  <2>2. F[x] = Times(a, b) /\ R01(x) = Times(b, a)
    BY DEF Above1, Below0
  <2>3. a \in Amps /\ b \in Amps
    BY <2>1
  <2> HIDE DEF a, b, F, R01
  <2>4. Times(a, b) = Times(b, a) /\ Times(a, b) \in Amps
    BY <2>3, RingTypes, TimesLaws
  <2>5. QED
    BY <2>2, <2>4
<1>3. \A t \in SUBSET S : t # {} => F[CHOOSE x \in t : TRUE] = R01(CHOOSE x \in t : TRUE)
  BY <1>2
<1>4. IsFiniteSet(S)
  BY OffLaws
<1> HIDE DEF F, R01
<1>5. \E f : f = [t \in SUBSET S |->
                    IF t = {} THEN Zero
                    ELSE Plus(R01(CHOOSE x \in t : TRUE), f[t \ {CHOOSE x \in t : TRUE}])]
  <2> HIDE DEF S, iter
  <2>1. PICK f : Adds(f, F, S)
    BY <1>2, <1>4, SumSolves
  <2>2. f = [t \in SUBSET S |->
                    IF t = {} THEN Zero ELSE Plus(R01(CHOOSE x \in t : TRUE), f[t \ {CHOOSE x \in t : TRUE}])]
    BY <1>3, <2>1 DEF Adds
  <2>3. QED
    BY <2>2
<1>6. iter = [t \in SUBSET S |->
                IF t = {} THEN Zero
                ELSE Plus(R01(CHOOSE x \in t : TRUE), iter[t \ {CHOOSE x \in t : TRUE}])]
  BY <1>5
<1> HIDE DEF iter, S
<1>7. Adds(iter, F, S)
  BY <1>3, <1>6 DEF Adds
<1>8. iter[S] = Sum(F, S)
  BY <1>2, <1>4, <1>7, SolvedSum
<1>9. QED
  BY <1>1, <1>8 DEF F, S

LEMMA ScaleTwo ==
  ASSUME NEW n \in Amps
  PROVE  Scale(n, 2) = Plus(n, n)
<1>1. Is(Plus(One, One), 0, <<2, 0, 0, 0>>)
  <2>1. Is(Plus(One, One), 0, QAdd(<<1, 0, 0, 0>>, <<1, 0, 0, 0>>))
    BY OneIs, PlusIs
  <2>2. QAdd(<<1, 0, 0, 0>>, <<1, 0, 0, 0>>) = <<2, 0, 0, 0>>
    BY DEF QAdd
  <2>3. QED
    BY <2>1, <2>2
<1>2. Int2Amp(2) \in Amps
  <2>1. <<2, 0, 0, 0>> \in Quads
    BY DEF Quads
  <2>2. QED
    BY <2>1 DEF Amps, Int2Amp, Reducible
<1>3. Is(Int2Amp(2), 0, <<2, 0, 0, 0>>)
  BY <1>2, IsSelf DEF Int2Amp
<1>4. Int2Amp(2) = Plus(One, One)
  BY <1>1, <1>3, IsUnique
<1>5. Times(n, Plus(One, One)) = Plus(Times(n, One), Times(n, One)) /\ Times(n, One) = n
  BY ImConstants, TimesLaws
<1>6. QED
  BY <1>4, <1>5 DEF Scale

LEMMA CancelFactor ==
  ASSUME NEW a \in Amps, NEW b \in Amps, NEW c \in Amps, Plus(a, b) = Plus(a, c)
  PROVE  b = c
<1> DEFINE n == Neg(a)
<1>1. n \in Amps /\ Plus(n, a) = Zero
  BY RingTypes, PlusLaws
<1> HIDE DEF n
<1>2. Plus(Plus(n, a), b) = Plus(n, Plus(a, b)) /\ Plus(Plus(n, a), c) = Plus(n, Plus(a, c))
  BY <1>1, PlusLaws
<1>3. Plus(Zero, b) = b /\ Plus(Zero, c) = c
  BY ImLaws
<1>4. QED
  BY <1>1, <1>2, <1>3

\* The purity is 1 exactly where the coherence is as large as it can be.
LEMMA PurityLaw ==
  ASSUME NEW p \in Amps, NEW r \in Amps, NEW n \in Amps, Plus(p, r) = One
  PROVE  Plus(Plus(Times(p, p), Times(r, r)), Scale(n, 2)) = One <=> n = Times(p, r)
<1> DEFINE s == Plus(Times(p, p), Times(r, r)) m == Times(p, r)
<1>1. Times(p, p) \in Amps /\ Times(r, r) \in Amps /\ m \in Amps /\ Times(r, p) = m /\ s \in Amps
  BY RingTypes, TimesLaws
<1>2. Plus(s, Plus(m, m)) = One
  <2>1. Times(Plus(p, r), Plus(p, r)) = Plus(Times(Plus(p, r), p), Times(Plus(p, r), r))
    BY RingTypes, TimesLaws
  <2>2. Times(Plus(p, r), p) = Plus(Times(p, p), Times(r, p)) /\ Times(Plus(p, r), r) = Plus(Times(p, r), Times(r, r))
    BY Gather
  <2>3. Times(One, One) = One
    BY ImConstants, ImLaws
  <2>4. Plus(Plus(Times(p, p), m), Plus(m, Times(r, r))) = One
    BY <1>1, <2>1, <2>2, <2>3
  <2> HIDE DEF m
  <2>5. Plus(m, Times(r, r)) = Plus(Times(r, r), m)
    BY <1>1, PlusLaws
  <2>6. Plus(Plus(Times(p, p), m), Plus(Times(r, r), m)) = Plus(Plus(Times(p, p), Times(r, r)), Plus(m, m))
    BY <1>1, Regroup
  <2>7. QED
    BY <2>4, <2>5, <2>6
<1>3. Scale(n, 2) = Plus(n, n)
  BY ScaleTwo
<1> HIDE DEF s, m
<1>4. Plus(n, n) \in Amps /\ Plus(m, m) \in Amps
  BY <1>1, RingTypes
<1>5. Plus(s, Plus(n, n)) = One => n = m
  BY <1>1, <1>2, <1>4, CancelFactor, HalfOf
<1>6. QED
  BY <1>2, <1>3, <1>5 DEF s, m

LEMMA PurityIs ==
  ASSUME NEW v \in Vectors, Norm(v) = One, NEW q \in Qubits
  PROVE  ResetIsDeterministic(v, q) <=> Norm2(Coherence(v, q)) = Times(ProbOf(v, q, 0), ProbOf(v, q, 1))
<1> DEFINE p == ProbOf(v, q, 0) r == ProbOf(v, q, 1) n == Norm2(Coherence(v, q))
<1>1. ReducedPurity(v, q) = Plus(Plus(Times(p, p), Times(r, r)), Scale(n, 2))
  BY DEF ReducedPurity, Coherence, Off
<1>2. p \in Amps /\ r \in Amps /\ Plus(p, r) = One
  BY ProbHalves
<1>3. n \in Amps
  <2> DEFINE S == Off(q) F == [b \in S |-> Times(Conj(Above1(v, q)[b]), Below0(v, q)[b])]
  <2>1. IsFiniteSet(S) /\ S \in SUBSET S
    BY OffLaws
  <2>2. F \in [S -> Amps]
    BY OffLaws, NormPlus
  <2>3. Coherence(v, q) = Sum(F, S)
    BY CoherenceIs
  <2> HIDE DEF F, S
  <2>4. Coherence(v, q) \in Amps
    BY <2>1, <2>2, <2>3, SumLaws
  <2>5. QED
    BY <2>4, NormLaws
<1> HIDE DEF p, r, n
<1>4. QED
  BY <1>1, <1>2, <1>3, PurityLaw DEF ResetIsDeterministic, p, r, n

-----------------------------------------------------------------------------
(* Characters: the signs (-1)^|z /\ b|.                                    *)

\* A number that is its own negative.
LEMMA SelfNegative ==
  ASSUME NEW x \in Amps, x = Neg(x)
  PROVE  x = Zero
<1>1. Plus(x, x) = Zero /\ Plus(Zero, Zero) = Zero /\ Zero \in Amps
  BY PlusLaws, ImConstants, ImLaws
<1>2. QED
  BY <1>1, HalfOf

Chi(z, b) == IF Odd(z \cap b) THEN Neg(One) ELSE One

LEMMA SignLaws ==
  ASSUME NEW z \in Basis, NEW b \in Basis, NEW c \in Basis
  PROVE  /\ SymDiff(b, c) \in Basis
         /\ Chi(z, b) \in Amps /\ Chi(z, c) \in Amps /\ Chi(z, SymDiff(b, c)) \in Amps
         /\ Chi(z, b) = Chi(b, z)
         /\ Chi(z, SymDiff(b, c)) = Times(Chi(z, b), Chi(z, c))
<1>1. SymDiff(b, c) \in Basis
  BY DEF SymDiff, Basis
<1>2. One \in Amps /\ Neg(One) \in Amps
  BY ImConstants
<1>3. IsFiniteSet(z \cap b) /\ IsFiniteSet(z \cap c)
  BY BasisFinite, FS_Subset
<1>4. z \cap SymDiff(b, c) = SymDiff(z \cap b, z \cap c)
  BY DEF SymDiff
<1>5. Odd(z \cap SymDiff(b, c)) <=> ~(Odd(z \cap b) <=> Odd(z \cap c))
  BY <1>3, <1>4, OddSymDiff
<1>6. /\ Times(One, One) = One /\ Times(One, Neg(One)) = Neg(One)
      /\ Times(Neg(One), One) = Neg(One) /\ Times(Neg(One), Neg(One)) = One
  BY <1>2, ImLaws
<1>7. z \cap b = b \cap z
  OBVIOUS
<1>8. QED
  BY <1>1, <1>2, <1>5, <1>6, <1>7 DEF Chi

\* All the signs of one string.
Signs1(d) == [z \in Basis |-> Chi(z, d)]

LEMMA CharacterSum ==
  ASSUME NEW d \in Basis, d # {}
  PROVE  Signs1(d) \in [Basis -> Amps] /\ Sum(Signs1(d), Basis) = Zero
<1> DEFINE F == Signs1(d)
<1>1. PICK q \in d : TRUE
  OBVIOUS
<1>2. q \in Qubits /\ {q} \in Basis
  BY <1>1 DEF Basis
<1>3. F \in [Basis -> Amps] /\ \A z \in Basis : F[z] = Chi(z, d)
  BY SignLaws DEF Signs1
<1> DEFINE move == [z \in Basis |-> Flip(z, q)]
           G == [z \in Basis |-> F[move[z]]]
<1>4. OneToOne(move, Basis, Basis) /\ ImageOf(move, Basis) = Basis
  <2>1. \A z \in Basis : Flip(z, q) \in Basis /\ Flip(Flip(z, q), q) = z
    BY <1>2, FlipLaws
  <2>2. move \in [Basis -> Basis] /\ \A z \in Basis : move[z] = Flip(z, q) /\ move[move[z]] = z
    BY <2>1
  <2> HIDE DEF move
  <2>3. QED
    BY <2>2 DEF OneToOne, ImageOf
<1>5. \A z \in Basis : move[z] \in Basis /\ F[move[z]] = Times(Neg(One), F[z])
  <2> TAKE z \in Basis
  <2>1. move[z] = SymDiff(z, {q}) /\ SymDiff(z, {q}) \in Basis
    BY <1>2, SignLaws DEF Flip
  <2>2. Chi(d, SymDiff(z, {q})) = Times(Chi(d, z), Chi(d, {q})) /\ Chi(d, z) \in Amps
    BY <1>2, SignLaws
  <2>3. Chi(d, {q}) = Neg(One)
    <3>1. d \cap {q} = {q}
      BY <1>1
    <3>2. QED
      BY <3>1, OddOne DEF Chi
  <2>4. Times(Chi(d, z), Neg(One)) = Times(Neg(One), Chi(d, z))
    BY <2>2, ImLaws
  <2>5. Chi(d, SymDiff(z, {q})) = Chi(SymDiff(z, {q}), d) /\ Chi(d, z) = Chi(z, d)
    BY <2>1, SignLaws
  <2>6. QED
    BY <1>3, <2>1, <2>2, <2>3, <2>4, <2>5
<1> HIDE DEF F
<1>6. Sum(G, Basis) = Sum(F, Basis)
  <2> HIDE DEF move
  <2>1. QED
    BY <1>3, <1>4, FiniteBasis, SumMove
<1>7. Sum(G, Basis) = Times(Neg(One), Sum(F, Basis))
  <2>1. G = [z \in Basis |-> Times(Neg(One), F[z])]
    BY <1>5
  <2>2. Neg(One) \in Amps
    BY ImConstants
  <2> HIDE DEF G
  <2>3. QED
    BY <1>3, <2>1, <2>2, FiniteBasis, SumTimes
<1>8. Sum(F, Basis) \in Amps
  <2>1. Basis \in SUBSET Basis
    OBVIOUS
  <2>2. QED
    BY <1>3, <2>1, FiniteBasis, SumLaws
<1>9. Sum(F, Basis) = Zero
  <2> DEFINE s == Sum(F, Basis)
  <2>1. s \in Amps /\ s = Neg(s)
    BY <1>6, <1>7, <1>8, ImLaws
  <2> HIDE DEF s
  <2>2. s = Zero
    BY <2>1, SelfNegative
  <2>3. QED
    BY <2>2 DEF s
<1>10. QED
  BY <1>3, <1>9 DEF F

\* As many ones as there are strings on m wires.
Narrow(m) == SUBSET (0..(m - 1))
Ones(S) == [z \in S |-> One]

LEMMA WiresGrow ==
  ASSUME NEW m \in Nat
  PROVE  /\ IsFiniteSet(Narrow(m)) /\ Ones(Narrow(m)) \in [Narrow(m) -> Amps]
         /\ Sum(Ones(Narrow(m + 1)), Narrow(m + 1))
              = Plus(Sum(Ones(Narrow(m)), Narrow(m)), Sum(Ones(Narrow(m)), Narrow(m)))
<1> DEFINE A == Narrow(m + 1)
           B == Narrow(m)
           F == Ones(A)
           G == Ones(B)
           move == [z \in B |-> z \cup {m}]
<1>1. IsFiniteSet(A) /\ IsFiniteSet(B)
  <2>1. IsFiniteSet(0..((m + 1) - 1)) /\ IsFiniteSet(0..(m - 1))
    BY FS_Interval
  <2>2. QED
    BY <2>1, FS_SUBSET DEF Narrow
<1>2. One \in Amps
  BY ImConstants
<1>3. F \in [A -> Amps] /\ G \in [B -> Amps] /\ (\A z \in A : F[z] = One) /\ (\A z \in B : G[z] = One)
  BY <1>2 DEF Ones
<1>4. B \in SUBSET A /\ (\A z \in A : z \in B <=> m \notin z) /\ (\A z \in B : z \cup {m} \in A /\ m \notin z)
      /\ (\A z \in A : z \ {m} \in B)
  <2>1. \A k : k \in 0..((m + 1) - 1) <=> k \in 0..(m - 1) \/ k = m
    OBVIOUS
  <2>2. m \notin 0..(m - 1)
    OBVIOUS
  <2> DEFINE C == 0..((m + 1) - 1) D == 0..(m - 1)
  <2>3. C = D \cup {m} /\ m \notin D
    BY <2>1, <2>2
  <2>4. A = SUBSET C /\ B = SUBSET D
    BY DEF Narrow
  <2> HIDE DEF C, D, A, B
  <2>5. QED
    BY <2>3, <2>4
<1> HIDE DEF F, G, A, B
<1>5. OneToOne(move, B, A) /\ ImageOf(move, B) = A \ B
  <2>1. move \in [B -> A] /\ \A z \in B : move[z] = z \cup {m}
    BY <1>4
  <2> HIDE DEF move
  <2>2. ASSUME NEW x \in B, NEW y \in B, move[x] = move[y] PROVE x = y
    <3>1. x \cup {m} = y \cup {m} /\ m \notin x /\ m \notin y
      BY <1>4, <2>1, <2>2
    <3>2. (x \cup {m}) \ {m} = x /\ (y \cup {m}) \ {m} = y
      BY <3>1
    <3>3. QED
      BY <3>1, <3>2
  <2>3. \A z \in B : move[z] \in A /\ move[z] \notin B
    BY <1>4, <2>1
  <2>4. ASSUME NEW z \in A \ B PROVE \E x \in B : z = move[x]
    <3>1. z \ {m} \in B /\ m \in z
      BY <1>4, <2>4
    <3>2. move[z \ {m}] = z
      BY <2>1, <3>1
    <3>3. QED
      BY <3>1, <3>2
  <2>5. QED
    BY <2>1, <2>2, <2>3, <2>4 DEF OneToOne, ImageOf
<1>6. Sum([z \in B |-> F[move[z]]], B) = Sum(F, A \ B)
  <2> HIDE DEF move
  <2>1. QED
    BY <1>1, <1>3, <1>5, SumMove
<1>7. [z \in B |-> F[move[z]]] = G
  <2>1. \A z \in B : F[move[z]] = One
    BY <1>3, <1>4
  <2> HIDE DEF move
  <2>2. QED
    BY <1>3, <2>1
<1>8. Sum(F, B) = Sum(G, B)
  <2>1. \A z \in B : G[z] \in Amps /\ F[z] = G[z]
    BY <1>2, <1>3, <1>4
  <2>2. QED
    BY <1>1, <2>1, SumSame
<1>9. Sum(F, A) = Plus(Sum(F, B), Sum(F, A \ B))
  BY <1>1, <1>3, <1>4, SumUnion
<1>10. Sum(F, A) = Plus(Sum(G, B), Sum(G, B))
  BY <1>6, <1>7, <1>8, <1>9
<1>11. QED
  BY <1>1, <1>3, <1>10 DEF A, B, F, G

LEMMA AllOnes == Times(Dyadic(1, N), Sum(Ones(Basis), Basis)) = One
<1> DEFINE T(m) == Sum(Ones(Narrow(m)), Narrow(m))
           P == {m \in 0..N : T(m) \in Amps /\ Times(Dyadic(1, m), T(m)) = One}
<1>1. N \in Nat
  BY WidthAssumption
<1>2. 0 \in P
  <2>1. Narrow(0) = {{}}
    <3>1. 0..(0 - 1) = {}
      OBVIOUS
    <3>2. QED
      BY <3>1 DEF Narrow
  <2> DEFINE S == {{}}
  <2>2. IsFiniteSet(S) /\ {} \in S /\ \A y \in S : y = {}
    BY FS_Singleton
  <2>3. Ones(S) \in [S -> Amps] /\ Ones(S)[{}] = One
    BY ImConstants DEF Ones
  <2> HIDE DEF S
  <2>4. Sum(Ones(S), S) = One
    <3> DEFINE e == {}
    <3>1. e \in S /\ (\A y \in S : y # e => Ones(S)[y] = Zero) /\ Ones(S)[e] = One
      BY <2>2, <2>3
    <3> HIDE DEF e
    <3>2. QED
      BY <2>2, <2>3, <3>1, SumSingle
  <2>5. T(0) = One
    BY <2>1, <2>4 DEF S
  <2>6. Times(One, One) = One /\ One \in Amps /\ Dyadic(1, 0) = One
    BY ImConstants, ImLaws, DyadicHalf
  <2> HIDE DEF T
  <2>7. QED
    BY <1>1, <2>5, <2>6
<1>3. \A m \in 1..N : m - 1 \in P => m \in P
  <2> TAKE m \in 1..N
  <2> HAVE m - 1 \in P
  <2> DEFINE j == m - 1
             t == T(j)
  <2>1. j \in Nat /\ m = j + 1 /\ m \in 0..N /\ 2 \in Int
    BY <1>1
  <2>2. t \in Amps /\ Times(Dyadic(1, j), t) = One
    OBVIOUS
  <2> HIDE DEF j
  <2>3. T(j + 1) = Plus(t, t)
    BY <2>1, WiresGrow
  <2> HIDE DEF T, t
  <2> DEFINE d == Dyadic(1, j + 1)
  <2>4. Dyadic(2, j + 1) = Dyadic(1, j) /\ j + 1 \in Nat
    BY <2>1, DyadicHalf
  <2> DEFINE two == 2
             one == 1
  <2>5. Times(Dyadic(one, j + 1), Int2Amp(two)) = Dyadic(two, j + 1) /\ Dyadic(one, j + 1) \in Amps /\ Int2Amp(two) \in Amps
    <3>1. one \in Int /\ two \in Int
      OBVIOUS
    <3> HIDE DEF one, two
    <3>2. Dyadic(one, j + 1) \in Amps /\ Int2Amp(two) \in Amps
      BY <2>4, <3>1, DyadicTimes, WholeIs
    <3>3. Times(Dyadic(1, j + 1), Int2Amp(two)) = Dyadic(two, j + 1)
      BY <2>4, <3>1, DyadicTimes
    <3>4. QED
      BY <3>2, <3>3 DEF one
  <2>6. Plus(t, t) = Times(Int2Amp(2), t) /\ Plus(t, t) \in Amps
    <3>1. Scale(t, 2) = Plus(t, t)
      BY <2>2, ScaleTwo
    <3>2. Int2Amp(two) \in Amps
      BY <2>5
    <3>3. Times(t, Int2Amp(two)) = Times(Int2Amp(two), t)
      <4> HIDE DEF two
      <4>1. QED
        BY <2>2, <3>2, TimesLaws
    <3>4. Plus(t, t) \in Amps
      BY <2>2, RingTypes
    <3>5. QED
      BY <3>1, <3>3, <3>4 DEF Scale
  <2>7. Times(d, Times(Int2Amp(2), t)) = Times(Times(d, Int2Amp(2)), t)
    <3>1. d \in Amps /\ Int2Amp(two) \in Amps
      BY <2>5
    <3> HIDE DEF d, two
    <3>2. Times(d, Times(Int2Amp(two), t)) = Times(Times(d, Int2Amp(two)), t)
      BY <2>2, <3>1, TimesLaws
    <3>3. QED
      BY <3>2 DEF two
  <2>8. Times(d, T(j + 1)) = One
    BY <2>2, <2>3, <2>4, <2>5, <2>6, <2>7
  <2>9. T(m) \in Amps /\ Times(Dyadic(1, m), T(m)) = One
    BY <2>1, <2>3, <2>6, <2>8
  <2>10. QED
    BY <2>1, <2>9
<1> HIDE DEF P
<1>4. \A m \in 0..N : m \in P
  BY <1>1, <1>2, <1>3, UpToInduction
<1>5. N \in P
  BY <1>1, <1>4
<1>6. Narrow(N) = Basis
  BY DEF Narrow, Basis, Qubits
<1>7. QED
  BY <1>5, <1>6 DEF P

-----------------------------------------------------------------------------
(* The weights of the basis states from the means of products of Z.        *)

\* The terms of the mean of Z on the wires of z, and the mean.
Weighed(v, z) == [c \in Basis |-> Times(Chi(z, c), Squares(v)[c])]
MeanZ(v, z) == Sum(Weighed(v, z), Basis)
\* The terms of the inverse transform.
Inverted(v, b) == [z \in Basis |-> Times(Chi(z, b), MeanZ(v, z))]

LEMMA MeanZType ==
  ASSUME NEW v \in Vectors, NEW z \in Basis
  PROVE  Weighed(v, z) \in [Basis -> Amps] /\ MeanZ(v, z) \in Amps
<1>1. Squares(v) \in [Basis -> Amps]
  BY SquaresType
<1>2. \A c \in Basis : Chi(z, c) \in Amps
  BY SignLaws
<1>3. Weighed(v, z) \in [Basis -> Amps]
  BY <1>1, <1>2, RingTypes DEF Weighed
<1>4. Basis \in SUBSET Basis
  OBVIOUS
<1>5. QED
  BY <1>3, <1>4, FiniteBasis, SumLaws DEF MeanZ

LEMMA Inversion ==
  ASSUME NEW v \in Vectors, NEW b \in Basis
  PROVE  /\ Inverted(v, b) \in [Basis -> Amps]
         /\ Times(Dyadic(1, N), Sum(Inverted(v, b), Basis)) = Squares(v)[b]
<1> DEFINE p == Squares(v)
           F == [z \in Basis |-> [c \in Basis |-> Times(Chi(z, b), Times(Chi(z, c), p[c]))]]
           D == Dyadic(1, N)
           T == Sum(Ones(Basis), Basis)
<1>1. p \in [Basis -> Amps]
  BY SquaresType
<1>2. \A z, c \in Basis : Chi(z, b) \in Amps /\ Chi(z, c) \in Amps
  BY SignLaws
<1>3. F \in [Basis -> [Basis -> Amps]]
  BY <1>1, <1>2, RingTypes
<1>4. \A z \in Basis : Inverted(v, b)[z] \in Amps /\ Sum(F[z], Basis) = Inverted(v, b)[z]
  <2> TAKE z \in Basis
  <2> DEFINE G == Weighed(v, z)
             k == Chi(z, b)
  <2>1. G \in [Basis -> Amps] /\ k \in Amps /\ Sum(G, Basis) = MeanZ(v, z) /\ MeanZ(v, z) \in Amps
    BY <1>2, MeanZType DEF MeanZ
  <2>2. F[z] = [c \in Basis |-> Times(k, G[c])]
    BY DEF Weighed
  <2>3. Inverted(v, b)[z] = Times(k, MeanZ(v, z))
    BY DEF Inverted
  <2> HIDE DEF F, G, k
  <2>4. Sum([c \in Basis |-> Times(k, G[c])], Basis) = Times(k, Sum(G, Basis))
    BY <2>1, FiniteBasis, SumTimes
  <2>5. QED
    BY <2>1, <2>2, <2>3, <2>4, RingTypes
<1>5. Inverted(v, b) \in [Basis -> Amps]
  BY <1>4 DEF Inverted
<1>6. LineSums(F, Basis, Basis) = Inverted(v, b)
  BY <1>4, <1>5 DEF LineSums, Inverted
<1>7. \A c \in Basis : Column1(F, Basis, c) \in [Basis -> Amps]
                       /\ Sum(Column1(F, Basis, c), Basis) = IF c = b THEN Times(p[b], T) ELSE Zero
  <2> TAKE c \in Basis
  <2> DEFINE d == SymDiff(b, c)
             G == Signs1(d)
             k == p[c]
  <2>1. k \in Amps /\ d \in Basis
    BY <1>1, SignLaws
  <2>2. \A z \in Basis : G[z] = Chi(z, d) /\ G[z] \in Amps /\ Times(Chi(z, b), Times(Chi(z, c), k)) = Times(k, G[z])
    <3> TAKE z \in Basis
    <3>1. Chi(z, d) = Times(Chi(z, b), Chi(z, c)) /\ Chi(z, d) \in Amps /\ Chi(z, b) \in Amps /\ Chi(z, c) \in Amps
      BY SignLaws
    <3>2. G[z] = Chi(z, d)
      BY DEF Signs1
    <3> HIDE DEF d, G, k
    <3>3. Times(Chi(z, b), Times(Chi(z, c), k)) = Times(Chi(z, d), k)
      BY <2>1, <3>1, TimesLaws
    <3>4. Times(Chi(z, d), k) = Times(k, Chi(z, d))
      BY <2>1, <3>1, TimesLaws
    <3>5. QED
      BY <3>1, <3>2, <3>3, <3>4
  <2>3. Column1(F, Basis, c) = [z \in Basis |-> Times(k, G[z])]
    <3>1. \A z \in Basis : F[z][c] = Times(Chi(z, b), Times(Chi(z, c), k))
      OBVIOUS
    <3> HIDE DEF F, G, k
    <3>2. QED
      BY <2>2, <3>1 DEF Column1
  <2>4. G \in [Basis -> Amps]
    BY <2>2 DEF Signs1
  <2> HIDE DEF G
  <2>5. Sum(Column1(F, Basis, c), Basis) = Times(k, Sum(G, Basis))
    <3> HIDE DEF F, k
    <3>1. QED
      BY <2>1, <2>3, <2>4, FiniteBasis, SumTimes
  <2>6. Column1(F, Basis, c) \in [Basis -> Amps]
    <3> HIDE DEF F, k
    <3>1. \A z \in Basis : Times(k, G[z]) \in Amps
      BY <2>1, <2>4, RingTypes
    <3>2. QED
      BY <2>3, <3>1
  <2>7. CASE c = b
    <3>1. d = {}
      BY <2>7 DEF SymDiff
    <3>2. \A z \in Basis : G[z] = One
      <4>1. \A z \in Basis : z \cap {} = {}
        OBVIOUS
      <4>2. \A z \in Basis : Chi(z, {}) = One
        BY <4>1, OddEmpty DEF Chi
      <4>3. QED
        BY <2>2, <3>1, <4>2
    <3>3. G = Ones(Basis)
      BY <2>4, <3>2 DEF Ones
    <3>4. QED
      BY <2>5, <2>6, <2>7, <3>3
  <2>8. CASE c # b
    <3>1. d # {}
      BY <2>8 DEF SymDiff
    <3>2. Sum(G, Basis) = Zero
      <4> HIDE DEF d
      <4>1. QED
        BY <2>1, <3>1, CharacterSum DEF G
    <3>3. Times(k, Zero) = Zero
      <4> HIDE DEF k
      <4>1. QED
        BY <2>1, ImLaws
    <3>4. QED
      BY <2>5, <2>6, <2>8, <3>2, <3>3
  <2>9. QED
    BY <2>7, <2>8
<1> HIDE DEF F
<1> DEFINE C == ColumnSums(F, Basis, Basis, Basis)
<1>8. C \in [Basis -> Amps] /\ Sum(LineSums(F, Basis, Basis), Basis) = Sum(C, Basis)
  BY <1>3, FiniteBasis, SumSwap
<1>9. \A c \in Basis : C[c] = IF c = b THEN Times(p[b], T) ELSE Zero
  BY <1>7 DEF ColumnSums
<1> HIDE DEF C
<1>10. Sum(C, Basis) = Times(p[b], T)
  <2>1. b \in Basis /\ (\A y \in Basis : y # b => C[y] = Zero) /\ C[b] = Times(p[b], T)
    BY <1>9
  <2>2. QED
    BY <1>8, <2>1, FiniteBasis, SumSingle
<1>11. Times(D, T) = One /\ D \in Amps /\ T \in Amps
  <2>1. Times(D, T) = One
    BY AllOnes
  <2>2. Ones(Basis) \in [Basis -> Amps] /\ Basis \in SUBSET Basis
    BY ImConstants DEF Ones
  <2>3. T \in Amps
    BY <2>2, FiniteBasis, SumLaws
  <2> DEFINE o == 1
  <2>4. o \in Int
    OBVIOUS
  <2> HIDE DEF o
  <2>5. Dyadic(o, N) \in Amps
    BY <2>4, WidthAssumption, DyadicTimes
  <2>6. QED
    BY <2>1, <2>3, <2>5 DEF o
<1> DEFINE x == p[b]
<1>12. x \in Amps
  BY <1>1
<1> HIDE DEF D, T, p, x
<1>13. Times(D, Times(x, T)) = x
  <2>1. Times(D, Times(x, T)) = Times(x, Times(D, T))
    BY <1>11, <1>12, Past
  <2>2. Times(x, One) = x
    BY <1>12, ImLaws
  <2>3. QED
    BY <1>11, <2>1, <2>2
<1>14. QED
  BY <1>5, <1>6, <1>8, <1>10, <1>13 DEF D, T, p, x
=============================================================================
