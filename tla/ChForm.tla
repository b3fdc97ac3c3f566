------------------------------- MODULE ChForm -------------------------------
(***************************************************************************)
(* The CH form of a stabilizer state (omega-backend-stabrank/src/chform.rs)*)
(*     |phi> = w . U_C . U_H . |s>                                         *)
(* as a record: F, G, M are the relations of the conjugation tableau of U_C*)
(* (<<p, q>> \in F iff F[p][q]), gamma the powers of i of its X rows, v the*)
(* wires under a Hadamard, s the basis string, om the scalar w.  The gate  *)
(* methods change the record in place; here each returns the new record.   *)
(***************************************************************************)
EXTENDS Amplitudes, PauliPhase

Row(R, p) == {q \in Qubits : <<p, q>> \in R}
AddRow(R, p, S) == SymDiff(R, {p} \X S)
Diagonal == {<<q, q>> : q \in Qubits}

Bit(b) == IF b THEN 1 ELSE 0
PowI(k) == Ei(2 * k)
Sign(b) == IF b THEN Neg(One) ELSE One

\* X^a Z^b X^f Z^m = i^c X^(a+f) Z^(b+m) without the i^{xz} of the table.
plain_mult_phase(a, b, f, m) ==
    (pauli_mult_phase(a, b, f, m)
       + Bit(a # f) * Bit(b # m) - Bit(a) * Bit(b) - Bit(f) * Bit(m)) % 4

\* A loop over the wires of S, in increasing order.
ApplyEach(Op(_, _), st, S) ==
    LET After[k \in 0..N] ==
            IF k = 0 THEN st
            ELSE IF k - 1 \in S THEN Op(After[k - 1], k - 1) ELSE After[k - 1]
    IN  After[N]

PlainPhase(a, b, f, m) ==
    LET Add(e, q) == e + plain_mult_phase(q \in a, q \in b, q \in f, q \in m)
    IN  ApplyEach(Add, 0, Qubits)

ChZero == [F |-> Diagonal, G |-> Diagonal, M |-> {},
           gamma |-> [q \in Qubits |-> 0], v |-> {}, s |-> {}, om |-> One]

scale_phase(st, z) == [st EXCEPT !.om = Times(@, z)]

-----------------------------------------------------------------------------
(* <x|phi>, global phase included.                                         *)

\* The Pauli product of the X rows of the wires ps, in increasing order.
Accumulate(st, ps) ==
    LET Row1(acc, p) ==
            LET f == Row(st.F, p)
                m == Row(st.M, p)
            IN  [e |-> (acc.e + st.gamma[p] + PlainPhase(acc.x, acc.z, f, m)) % 4,
                 x |-> SymDiff(acc.x, f), z |-> SymDiff(acc.z, m)]
    IN  ApplyEach(Row1, [e |-> 0, x |-> {}, z |-> {}], ps)

\* 1 / sqrt(2)^n
Root2Power(n) == [ISqrt2 EXCEPT !.k = n]

amplitude(st, x) ==
    LET acc == Accumulate(st, x)
    IN  IF acc.x \ st.v # st.s \ st.v THEN Zero
        ELSE Times(Times(st.om, PowI(4 - acc.e)),
                   Times(Root2Power(Cardinality(st.v)),
                         Sign(Odd(acc.x \cap st.s \cap st.v))))

-----------------------------------------------------------------------------
(* Gates of <CX, CZ, S> multiply U_C on the left: row operations.          *)

\* A mistake: the powers of i change and the Z parts do not.
SlipPhaseShift(st, q, k) == [st EXCEPT !.gamma[q] = (@ + k) % 4]
PhaseShift(st, q, k) ==
    [st EXCEPT !.gamma[q] = (@ + k) % 4, !.M = AddRow(@, q, Row(st.G, q))]
s_gate(st, q)   == PhaseShift(st, q, 3)
sdg_gate(st, q) == PhaseShift(st, q, 1)
z_gate(st, q)   == [st EXCEPT !.gamma[q] = (@ + 2) % 4]

cz_gate(st, a, b) ==
    [st EXCEPT !.M = AddRow(AddRow(@, a, Row(st.G, b)), b, Row(st.G, a))]

cx_gate(st, c, t) ==
    LET fc == Row(st.F, c)
        mc == Row(st.M, c)
        ft == Row(st.F, t)
        mt == Row(st.M, t)
    IN  [st EXCEPT !.gamma[c] = (@ + st.gamma[t] + PlainPhase(fc, mc, ft, mt)) % 4,
                   !.F = AddRow(@, c, ft),
                   !.M = AddRow(@, c, mt),
                   !.G = AddRow(@, t, Row(st.G, c))]

\* Right multiplication of U_C: column operations.
right_s(st, q) ==
    LET hit == {p \in Qubits : <<p, q>> \in st.F}
    IN  [st EXCEPT !.M = SymDiff(@, hit \X {q}),
                   !.gamma = [p \in Qubits |-> IF p \in hit THEN (@[p] + 3) % 4 ELSE @[p]]]

Column(R, q) == {p \in Qubits : <<p, q>> \in R}

right_cz(st, q, r) ==
    LET fq == Column(st.F, q)
        fr == Column(st.F, r)
    IN  [st EXCEPT !.M = SymDiff(SymDiff(@, fq \X {r}), fr \X {q}),
                   !.gamma = [p \in Qubits |-> IF p \in fq \cap fr
                                               THEN (@[p] + 2) % 4 ELSE @[p]]]

right_cx(st, c, t) ==
    [st EXCEPT !.F = SymDiff(@, Column(st.F, c) \X {t}),
               !.M = SymDiff(@, Column(st.M, t) \X {c}),
               !.G = SymDiff(@, Column(st.G, t) \X {c})]

-----------------------------------------------------------------------------
(* X and H push a Pauli through U_C onto the product state U_H|s>, where a *)
(* Hadamard wire exchanges its X and Z parts.                              *)

\* i^gamma X^F Z^M of wire q on U_H|s>: the new string and its sign.
Pushed(st, q) ==
    LET f == Row(st.F, q)
        m == Row(st.M, q)
    IN  [s |-> SymDiff(st.s, (m \cap st.v) \cup (f \ st.v)),
         beta |-> (Cardinality(f \cap st.s \cap st.v) + Cardinality(f \cap m \cap st.v)
                   + Cardinality((m \cap st.s) \ st.v)) % 2 = 1]

x_gate(st, q) ==
    LET p == Pushed(st, q)
    IN  [st EXCEPT !.s = p.s,
                   !.om = Times(@, Times(PowI(st.gamma[q]), Sign(p.beta)))]

\* A mistake: Y as Z then X, without the i.
SlipY(st, q) == x_gate(z_gate(st, q), q)
y_gate(st, q) == scale_phase(x_gate(z_gate(st, q), q), ImUnit)

RightSPower(st, q, k) ==
    LET f[i \in 0..k] == IF i = 0 THEN st ELSE right_s(f[i - 1], q)
    IN  f[k]

\* (|t> + i^delta |u>)/sqrt(2) under U_H, t # u, back to one string.
desuperpose(st, t0, u0, delta0) ==
    LET d  == SymDiff(t0, u0)
        ds == IF d \ st.v # {} THEN d \ st.v ELSE d
        q  == CHOOSE j \in ds : \A r \in ds : j <= r
        legsSwapped == q \in t0
        t     == IF legsSwapped THEN u0 ELSE t0
        delta == IF legsSwapped THEN (4 - delta0) % 4 ELSE delta0
        w  == IF legsSwapped THEN scale_phase(st, PowI(delta0)) ELSE st
        FromPivot(x, j) == IF j \in st.v THEN right_cz(x, q, j) ELSE right_cx(x, q, j)
        ToPivot(x, j)   == right_cx(x, j, q)
    IN  IF q \notin st.v
        THEN [RightSPower(ApplyEach(FromPivot, w, d \ {q}), q, delta)
                 EXCEPT !.v = @ \cup {q}, !.s = t]
        ELSE LET y == ApplyEach(ToPivot, w, d \ {q})
             IN  CASE delta = 0 -> [y EXCEPT !.v = @ \ {q}, !.s = t]
                   [] delta = 2 -> [y EXCEPT !.v = @ \ {q}, !.s = t \cup {q}]
                   [] delta = 1 -> [scale_phase(RightSPower(y, q, 3), Ei(1)) EXCEPT !.s = t]
                   [] delta = 3 -> [scale_phase(right_s(y, q), Ei(-1)) EXCEPT !.s = t]

h_gate(st, q) ==
    LET g == Row(st.G, q)
        t == SymDiff(st.s, g \cap st.v)
        alpha == Odd((g \ st.v) \cap st.s)
        p == Pushed(st, q)
        delta == (st.gamma[q] + 2 * Bit(alpha) + 2 * Bit(p.beta)) % 4
    IN  IF t = p.s
        THEN [st EXCEPT !.s = t,
                !.om = Times(@, Times(ISqrt2,
                          Plus(Sign(alpha), Times(PowI(st.gamma[q]), Sign(p.beta)))))]
        ELSE desuperpose(scale_phase(st, Sign(alpha)), t, p.s, delta)

sx_gate(st, q)   == h_gate(s_gate(h_gate(st, q), q), q)
sxdg_gate(st, q) == h_gate(sdg_gate(h_gate(st, q), q), q)
swap_gate(st, a, b) == cx_gate(cx_gate(cx_gate(st, a, b), b, a), a, b)
cy_gate(st, c, t) == s_gate(cx_gate(sdg_gate(st, t), c, t), t)

-----------------------------------------------------------------------------
(* <phi|phi'>: the bra's Clifford, factorised, is applied to the ket.      *)

\* The row additions <<to, from>> that reduce f to the identity.
EliminateColumn(net, col) ==
    LET below == {r \in (col + 1)..(N - 1) : <<r, col>> \in net.a}
        Added(x, to, from) == [a |-> AddRow(x.a, to, Row(x.a, from)), ops |-> Append(x.ops, <<to, from>>)]
        pivoted == IF <<col, col>> \in net.a THEN net
                   ELSE Added(net, col, CHOOSE r \in below : \A x \in below : r <= x)
        Clear(x, r) == IF r # col /\ <<r, col>> \in x.a THEN Added(x, r, col) ELSE x
    IN  ApplyEach(Clear, pivoted, Qubits)

cx_network(f) == ApplyEach(EliminateColumn, [a |-> f, ops |-> <<>>], Qubits).ops

\* The ket after the gates of the bra program: S^gamma, CZ, CX, H.
AfterBra(bra, ket) ==
    LET SPower(st, p) == LET f[i \in 0..3] == IF i = 0 THEN st ELSE s_gate(f[i - 1], p)
                         IN  f[bra.gamma[p]]
        Couplings(st, p) ==
            LET Cz(x, pp) == cz_gate(x, pp, p)
            IN  ApplyEach(Cz, st, {pp \in 0..(p - 1) : Odd(Row(bra.M, pp) \cap Row(bra.F, p))})
        net == cx_network(bra.F)
        diagonal == ApplyEach(Couplings, ApplyEach(SPower, ket, Qubits), Qubits)
        linear[i \in 0..Len(net)] ==
            IF i = 0 THEN diagonal ELSE cx_gate(linear[i - 1], net[i][1], net[i][2])
    IN  ApplyEach(h_gate, linear[Len(net)], bra.v)

\* A mistake: the scalar of the bra is not conjugated.
SlipOverlap(bra, ket) == Times(bra.om, amplitude(AfterBra(bra, ket), bra.s))
overlap(bra, ket) == Times(Conj(bra.om), amplitude(AfterBra(bra, ket), bra.s))

\* A Pauli string on a branch: Y carries its own i.
apply_pauli(st, x, z) ==
    ApplyEach(x_gate, ApplyEach(y_gate, ApplyEach(z_gate, st, z \ x), x \cap z), x \ z)

pauli_expectation(st, x, z) == overlap(st, apply_pauli(st, x, z))

check_invariants(st) ==
    /\ \A p, r \in Qubits : Odd(Row(st.F, p) \cap Row(st.G, r)) <=> p = r
    /\ \A p \in Qubits : Odd(Row(st.F, p) \cap Row(st.M, p)) <=> st.gamma[p] % 2 = 1
=============================================================================
