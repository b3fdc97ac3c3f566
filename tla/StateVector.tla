----------------------------- MODULE StateVector -----------------------------
(***************************************************************************)
(* The dense simulator: the gate matrices (gates.rs) and the kernels that  *)
(* apply them, the projective measurement, the purity test in front of an  *)
(* analytic reset and the Pauli expectation (sim.rs).  A state vector maps *)
(* every basis state to its amplitude.                                     *)
(* The kernels for diagonal, permuting and middle-block matrices compute   *)
(* what the dense loops compute, so one definition per shape stands for the*)
(* dispatch; the thread pool splits disjoint index ranges and is left out. *)
(***************************************************************************)
EXTENDS Amplitudes, Register

-----------------------------------------------------------------------------
(* Matrices <<m00, m01, m10, m11>>.  Half angles: Rx, Ry, Rz, U3, U2 and   *)
(* CRz take even multiples of pi/4, so that every entry is exact.          *)

U3Matrix(theta, phi, lam) ==
    LET ct == Cos(theta \div 2)
        st == Sin(theta \div 2)
    IN  <<ct, Neg(Times(Ei(lam), st)), Times(Ei(phi), st), Times(Ei(phi + lam), ct)>>

RzMatrix(theta) == <<Ei(-(theta \div 2)), Zero, Zero, Ei(theta \div 2)>>

SxMatrix(sign) ==     \* 1/2 [[1 + i, 1 - i], [1 - i, 1 + i]] and its adjoint
    LET a == Times(ISqrt2, Ei(sign))
        b == Times(ISqrt2, Ei(-sign))
    IN  <<a, b, b, a>>

Matrix(g) ==
    CASE g.op = "H"    -> <<ISqrt2, ISqrt2, ISqrt2, Neg(ISqrt2)>>
      [] g.op = "X"    -> <<Zero, One, One, Zero>>
      [] g.op = "Y"    -> <<Zero, Neg(ImUnit), ImUnit, Zero>>
      [] g.op = "Z"    -> <<One, Zero, Zero, Neg(One)>>
      [] g.op = "S"    -> <<One, Zero, Zero, ImUnit>>
      [] g.op = "Sdg"  -> <<One, Zero, Zero, Neg(ImUnit)>>
      [] g.op = "Sx"   -> SxMatrix(1)
      [] g.op = "Sxdg" -> SxMatrix(-1)
      [] g.op = "T"    -> <<One, Zero, Zero, Ei(1)>>
      [] g.op = "Tdg"  -> <<One, Zero, Zero, Ei(-1)>>
      [] g.op = "Rx"   -> LET cv == Cos(g.th[1] \div 2)
                              sv == Neg(Times(ImUnit, Sin(g.th[1] \div 2)))
                          IN  <<cv, sv, sv, cv>>
      [] g.op = "Ry"   -> LET cv == Cos(g.th[1] \div 2)
                              sv == Sin(g.th[1] \div 2)
                          IN  <<cv, Neg(sv), sv, cv>>
      [] g.op = "Rz"   -> RzMatrix(g.th[1])
      [] g.op = "U1"   -> <<One, Zero, Zero, Ei(g.th[1])>>
      [] g.op = "U2"   -> U3Matrix(2, g.th[1], g.th[2])
      [] g.op = "U3"   -> U3Matrix(g.th[1], g.th[2], g.th[3])

\* The 2x2 block a controlled gate applies where its control is 1.
Block(g) ==
    CASE g.op = "CX"  -> <<Zero, One, One, Zero>>
      [] g.op = "CY"  -> <<Zero, Neg(ImUnit), ImUnit, Zero>>
      [] g.op = "CZ"  -> <<One, Zero, Zero, Neg(One)>>
      [] g.op = "CRz" -> RzMatrix(g.th[1])
      [] g.op = "CU3" -> U3Matrix(g.th[1], g.th[2], g.th[3])

-----------------------------------------------------------------------------
(* The kernels, on a function from basis states to amplitudes.             *)

Apply1(v, q, m) ==
    [b \in Basis |->
        IF q \in b THEN Plus(Times(m[3], v[b \ {q}]), Times(m[4], v[b]))
                   ELSE Plus(Times(m[1], v[b]), Times(m[2], v[b \cup {q}]))]

ApplyControlled(v, c, t, m) ==
    [b \in Basis |->
        IF c \notin b THEN v[b]
        ELSE IF t \in b THEN Plus(Times(m[3], v[b \ {t}]), Times(m[4], v[b]))
                        ELSE Plus(Times(m[1], v[b]), Times(m[2], v[b \cup {t}]))]

Swapped(b, p, q) == IF (p \in b) # (q \in b) THEN SymDiff(b, {p, q}) ELSE b

\* The block on |01>, |10>, the first qubit being the more significant.
ApplyMiddle(v, p, q, m) ==
    [b \in Basis |->
        IF (p \in b) = (q \in b) THEN v[b]
        ELSE IF p \in b THEN Plus(Times(m[3], v[Swapped(b, p, q)]), Times(m[4], v[b]))
                        ELSE Plus(Times(m[1], v[b]), Times(m[2], v[Swapped(b, p, q)]))]

RbsBlock(theta) == <<Cos(theta), Neg(Sin(theta)), Sin(theta), Cos(theta)>>

OneQubit == {"H", "X", "Y", "Z", "S", "Sdg", "Sx", "Sxdg", "T", "Tdg",
             "Rx", "Ry", "Rz", "U1", "U2", "U3"}
Controlled == {"CX", "CY", "CZ", "CRz", "CU3"}

\* How many angles a gate takes.
Angles(op) ==
    IF op \in {"Rx", "Ry", "Rz", "U1", "CRz", "Rbs"} THEN 1
    ELSE IF op = "U2" THEN 2
    ELSE IF op \in {"U3", "CU3"} THEN 3
    ELSE 0

ApplyGate(v, g) ==
    CASE g.op \in OneQubit   -> Apply1(v, g.qs[1], Matrix(g))
      [] g.op \in Controlled -> ApplyControlled(v, g.qs[1], g.qs[2], Block(g))
      [] g.op = "Swap"  -> [b \in Basis |-> v[Swapped(b, g.qs[1], g.qs[2])]]
      [] g.op = "Rbs"   -> ApplyMiddle(v, g.qs[1], g.qs[2], RbsBlock(g.th[1]))
      [] g.op = "CCX"   -> [b \in Basis |->
                              IF {g.qs[1], g.qs[2]} \subseteq b
                              THEN v[Flip(b, g.qs[3])] ELSE v[b]]
      [] g.op = "CSwap" -> [b \in Basis |->
                              IF g.qs[1] \in b
                              THEN v[Swapped(b, g.qs[2], g.qs[3])] ELSE v[b]]
      [] g.op \in {"Id", "Barrier", "Measure"} -> v

ZeroState == [b \in Basis |-> IF b = {} THEN One ELSE Zero]

-----------------------------------------------------------------------------
(* Measurement, the purity of one qubit and Pauli expectations.            *)

Prob(v, b) == Norm2(v[b])

ProbOf(v, q, o) ==
    LET P(b) == Prob(v, b)
    IN  SumOver(P, {b \in Basis : (q \in b) = (o = 1)})

\* The amplitudes that survive outcome o, before the division by the norm.
Project(v, q, o) == [b \in Basis |-> IF (q \in b) = (o = 1) THEN v[b] ELSE Zero]

\* Exact where the outcome has probability 1 or 1/2, the only ones a
\* stabilizer state has.
Collapse(v, q, o) ==
    LET inv == IF ProbOf(v, q, o) = One THEN One ELSE [k |-> 0, c |-> <<0, 1, 0, -1>>]
    IN  [b \in Basis |-> Times(inv, Project(v, q, o)[b])]

\* A mistake: the populations are not squared.
SlipPurity(v, q) ==
    LET R01(b) == Times(v[b], Conj(v[b \cup {q}]))
    IN  Plus(Plus(ProbOf(v, q, 0), ProbOf(v, q, 1)),
             Scale(Norm2(SumOver(R01, {b \in Basis : q \notin b})), 2))

ReducedPurity(v, q) ==
    LET R01(b) == Times(v[b], Conj(v[b \cup {q}]))
        r0 == ProbOf(v, q, 0)
        r1 == ProbOf(v, q, 1)
        r  == SumOver(R01, {b \in Basis : q \notin b})
    IN  Plus(Plus(Times(r0, r0), Times(r1, r1)), Scale(Norm2(r), 2))

ResetIsDeterministic(v, q) == ReducedPurity(v, q) = One

\* The phase of P|b> for the Pauli with X on x, Z on z and Y on both.
PauliPhase(x, z, b) ==
    Ei(4 * Cardinality((z \ x) \cap b) + 2 * Cardinality((x \cap z) \ b)
       + 6 * Cardinality(x \cap z \cap b))

ExpectationPauli(v, x, z) ==
    LET Term(b) == Times(Times(Conj(v[SymDiff(b, x)]), PauliPhase(x, z, b)), v[b])
    IN  SumOver(Term, Basis)
=============================================================================
