------------------------------- MODULE Tableau -------------------------------
(***************************************************************************)
(* The stabilizer tableau of the Pauli backend (omega-backend-pauli): N    *)
(* destabilizers and N stabilizers, each a signed Pauli string             *)
(* [x, z, neg].  Gates act row by row; measurement multiplies rows.        *)
(***************************************************************************)
EXTENDS PauliPhase

Identity == [x |-> {}, z |-> {}, neg |-> FALSE]
ZOn(q)   == [Identity EXCEPT !.z = {q}]

anticommutes(a, b) == Odd(SymDiff(a.x \cap b.z, a.z \cap b.x))

\* destab and stab are the two halves of rows: 0..n and n..2n.
zero_state == [destab |-> [q \in Qubits |-> [Identity EXCEPT !.x = {q}]],
               stab   |-> [q \in Qubits |-> ZOn(q)]]

EveryRow(tab, Op(_)) ==
    [destab |-> [q \in Qubits |-> Op(tab.destab[q])],
     stab   |-> [q \in Qubits |-> Op(tab.stab[q])]]

\* Add the set S when c holds.
Xor(T, c, S) == IF c THEN SymDiff(T, S) ELSE T

\* The image of a row under the native gates of the tableau.
OnRow(op, q, t, r) ==
    LET xq == q \in r.x
        zq == q \in r.z
        Q  == {q}
    IN  CASE op = "h"    -> [x |-> Xor(r.x, xq # zq, Q), z |-> Xor(r.z, xq # zq, Q),
                             neg |-> r.neg # (xq /\ zq)]
          [] op = "s"    -> [r EXCEPT !.z = Xor(@, xq, Q), !.neg = @ # (xq /\ zq)]
          [] op = "sdg"  -> [r EXCEPT !.z = Xor(@, xq, Q), !.neg = @ # (xq /\ ~zq)]
          [] op = "sx"   -> [r EXCEPT !.x = Xor(@, zq, Q), !.neg = @ # (zq /\ ~xq)]
          [] op = "sxdg" -> [r EXCEPT !.x = Xor(@, zq, Q), !.neg = @ # (zq /\ xq)]
          [] op = "x"    -> [r EXCEPT !.neg = @ # zq]
          [] op = "y"    -> [r EXCEPT !.neg = @ # (xq # zq)]
          [] op = "z"    -> [r EXCEPT !.neg = @ # xq]
          [] op = "cx"   -> [x |-> Xor(r.x, xq, {t}), z |-> Xor(r.z, t \in r.z, Q),
                             neg |-> r.neg # (xq /\ t \in r.z /\ ((t \in r.x) = zq))]

\* The native gates each IR gate is made of.
Native(g) ==
    LET q == g.qs[1]
        t == g.qs[Len(g.qs)]
        One1(op) == <<<<op, q, q>>>>
    IN  CASE g.op = "H" -> One1("h")     [] g.op = "X" -> One1("x")
          [] g.op = "Y" -> One1("y")     [] g.op = "Z" -> One1("z")
          [] g.op = "S" -> One1("s")     [] g.op = "Sdg" -> One1("sdg")
          [] g.op = "Sx" -> One1("sx")   [] g.op = "Sxdg" -> One1("sxdg")
          [] g.op \in {"Id", "Barrier", "Measure"} -> <<>>
          [] g.op = "CX" -> <<<<"cx", q, t>>>>
          [] g.op = "CZ" -> <<<<"h", t, t>>, <<"cx", q, t>>, <<"h", t, t>>>>
          [] g.op = "CY" -> <<<<"sdg", t, t>>, <<"cx", q, t>>, <<"s", t, t>>>>
          [] g.op = "Swap" -> <<<<"cx", q, t>>, <<"cx", t, q>>, <<"cx", q, t>>>>

Clifford == {"H", "X", "Y", "Z", "S", "Sdg", "Sx", "Sxdg", "Id", "Barrier", "Measure",
             "CX", "CZ", "CY", "Swap"}

Step(tab, n) == LET Image(r) == OnRow(n[1], n[2], n[3], r) IN EveryRow(tab, Image)

\* No gate is made of more than three native ones.
TabGate(tab, g) ==
    LET native == Native(g)
        Then(u, n) == IF n \in DOMAIN native THEN Step(u, native[n]) ELSE u
    IN  Then(Then(Then(tab, 1), 2), 3)

-----------------------------------------------------------------------------
\* a times b: rowmult and row_product.
row_product(a, b) ==
    [x |-> SymDiff(a.x, b.x), z |-> SymDiff(a.z, b.z),
     neg |-> (a.neg # b.neg) # (StringPhase(a.x, a.z, b.x, b.z) % 4 = 2)]

\* The product of the stabilizers of S, in increasing order.
Product(tab, S) ==
    LET Upto[k \in 0..N] ==
            IF k = 0 THEN Identity
            ELSE IF k - 1 \in S THEN row_product(Upto[k - 1], tab.stab[k - 1])
            ELSE Upto[k - 1]
    IN  Upto[N]

Anticommuting(tab, q) == {k \in Qubits : anticommutes(tab.stab[k], ZOn(q))}
reset_outcome_is_determined(tab, q) == Anticommuting(tab, q) = {}

DeterminedOutcome(tab, q) ==
    Product(tab, {k \in Qubits : anticommutes(tab.destab[k], ZOn(q))}).neg

\* A mistake: the measured stabilizer is not kept as the destabilizer.
SlipCollapsed(tab, q, outcome) ==
    LET p == CHOOSE k \in Anticommuting(tab, q) : \A j \in Anticommuting(tab, q) : k <= j
        Mult(r) == IF anticommutes(r, ZOn(q)) THEN row_product(r, tab.stab[p]) ELSE r
    IN  [EveryRow(tab, Mult) EXCEPT !.stab[p] = [ZOn(q) EXCEPT !.neg = outcome]]

\* The tableau after a measurement of q that gave outcome.
Collapsed(tab, q, outcome) ==
    LET p == CHOOSE k \in Anticommuting(tab, q) : \A j \in Anticommuting(tab, q) : k <= j
        Mult(r) == IF anticommutes(r, ZOn(q)) THEN row_product(r, tab.stab[p]) ELSE r
        rows == EveryRow(tab, Mult)
    IN  [destab |-> [rows.destab EXCEPT ![p] = tab.stab[p]],
         stab   |-> [rows.stab EXCEPT ![p] = [ZOn(q) EXCEPT !.neg = outcome]]]

\* What measure(q) may return, with the tableau it leaves.
MeasureResults(tab, q) ==
    IF reset_outcome_is_determined(tab, q)
    THEN {<<DeterminedOutcome(tab, q), tab>>}
    ELSE {<<outcome, Collapsed(tab, q, outcome)>> : outcome \in BOOLEAN}

-----------------------------------------------------------------------------
\* A mistake the code once had: a generator with an X part rejects too.
SlipProbability(tab, b) ==
    LET Negative(r) == r.neg # Odd(r.z \cap b)
        masks == {S \in SUBSET Qubits : Product(tab, S).x = {}}
        minus == {S \in masks : Negative(Product(tab, S))}
    IN  IF \E k \in Qubits : Negative(tab.stab[k]) THEN 0
        ELSE Cardinality(masks) - 2 * Cardinality(minus)

\* P(b), times 2^N: the sum of <b|g|b> over the 2^N products of generators,
\* after a quick rejection by the generators that have no X part.
stabilizer_probability(tab, b) ==
    LET Negative(r) == r.neg # Odd(r.z \cap b)
        masks == {S \in SUBSET Qubits : Product(tab, S).x = {}}
        minus == {S \in masks : Negative(Product(tab, S))}
    IN  IF \E k \in Qubits : tab.stab[k].x = {} /\ Negative(tab.stab[k]) THEN 0
        ELSE Cardinality(masks) - 2 * Cardinality(minus)

\* Column c < N is the X bit of wire c, column N + c its Z bit.
ColumnBit(r, c) == IF c < N THEN c \in r.x ELSE c - N \in r.z

\* A row reduced by the pivots, column by column, up to the first column of
\* its own that has none (2 N: every column had).
Reduced(pivots, r) ==
    LET Upto[c \in 0..(2 * N)] ==
            IF c = 0 THEN [row |-> r, free |-> 2 * N]
            ELSE LET w == Upto[c - 1] IN
                 IF w.free < 2 * N \/ ~ColumnBit(w.row, c - 1) THEN w
                 ELSE IF pivots[c - 1] = Identity THEN [w EXCEPT !.free = c - 1]
                 ELSE [w EXCEPT !.row = row_product(@, pivots[c - 1])]
    IN  Upto[2 * N]

\* The reduced row becomes the pivot of its free column.
Insert(pivots, r) ==
    LET w == Reduced(pivots, r)
    IN  IF w.free = 2 * N THEN pivots ELSE [pivots EXCEPT ![w.free] = w.row]

\* The sign with which the pivots make r, 0 where they do not.
Express(pivots, r) ==
    LET w == Reduced(pivots, r)
    IN  IF w.free < 2 * N THEN 0 ELSE IF w.row.neg THEN -1 ELSE 1

\* The pivots, once every stabilizer is in.
Pivots(tab) ==
    LET Upto[k \in 0..N] ==
            IF k = 0 THEN [c \in 0..(2 * N - 1) |-> Identity] ELSE Insert(Upto[k - 1], tab.stab[k - 1])
    IN  Upto[N]

stabilizer_expectation(tab, x, z) ==
    LET P == [x |-> x, z |-> z, neg |-> FALSE]
    IN  IF \E k \in Qubits : anticommutes(tab.stab[k], P) THEN 0
        ELSE Express(Pivots(tab), P)
=============================================================================
