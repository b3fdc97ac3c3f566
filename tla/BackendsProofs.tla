--------------------------- MODULE BackendsProofs ---------------------------
(***************************************************************************)
(* Proofs about the three engines, for any width of the register, any      *)
(* circuits and any gates.                                                 *)
(*                                                                         *)
(* The tableau: its rows keep the commutation relations of X_q and Z_q     *)
(* through gates, measurements and resets.  Whether two rows commute is a  *)
(* parity, that of the wires where one has X and the other Z.  Parity is   *)
(* additive (OddSymDiff), so commutation is bilinear (AntiProduct); a gate *)
(* moves no row against another (GateKeeps); and a measurement multiplies  *)
(* by one stabilizer, which the relations among the rows before it account *)
(* for (CollapseKeeps).                                                    *)
(*                                                                         *)
(* The sum of CH forms: every branch stays a state.  The laws that the     *)
(* code states, F and G dual and gamma of the parity of F.M, are not       *)
(* inductive: CX needs that the X rows commute (Symmetric) and that the    *)
(* sign of a product is no i (PlainPhaseEven), and H on a wire whose legs  *)
(* fall together needs the laws themselves to know that the scalar it      *)
(* takes in is a phase again (SameLegs, LegsPhase).                        *)
(*                                                                         *)
(* The dense vector: it keeps its norm, since every gate is a pairing of   *)
(* basis states with a unitary matrix, and a measurement divides by the    *)
(* root of the weight of the half it keeps.                                *)
(*                                                                         *)
(* The tableau against the vector: every stabilizer, sign included, fixes  *)
(* it (Describes), through gates, measurements and resets.  An outcome is  *)
(* free in one engine when it is in the other, and fixed to the same bit   *)
(* otherwise; and a reset that the dense engine accepts in an analytic run *)
(* finds its wire in a pure state (BoundReached, of EngineLemmas).  A      *)
(* string that anticommutes with a stabilizer has mean 0 (OpposedMean),    *)
(* one that commutes with all is a product of stabilizers up to its sign   *)
(* (CommutesIsProduct) and has that sign as its mean (SignedMean): the     *)
(* strings of Z give the distribution (Inversion, of EngineLemmas), and    *)
(* the elimination finds the sign of any string, since every stabilizer,   *)
(* and so every product, is made by the pivots (MakesProduct).             *)
(***************************************************************************)
EXTENDS Backends, EngineLemmas

Rows == [x : SUBSET Qubits, z : SUBSET Qubits, neg : BOOLEAN]
Tableaux == [destab : [Qubits -> Rows], stab : [Qubits -> Rows]]

\* The relations that RowsIndependent states of tab, of any tableau.
Independent(u) ==
    \A j, k \in Qubits :
        /\ ~anticommutes(u.stab[j], u.stab[k])
        /\ ~anticommutes(u.destab[j], u.destab[k])
        /\ anticommutes(u.destab[j], u.stab[k]) <=> j = k

TableauInv ==
    /\ todo \in Seq(ScriptGates)
    /\ tab # NoTableau => tab \in Tableaux /\ Independent(tab)

-----------------------------------------------------------------------------
(* Parity and commutation.                                                 *)

\* The register is finite.
LEMMA FiniteQubits ==
  /\ IsFiniteSet(Qubits) /\ Qubits \subseteq Nat
  /\ \A S \in SUBSET Qubits : IsFiniteSet(S)
<1>1. IsFiniteSet(Qubits)
  BY WidthAssumption, FS_Interval DEF Qubits
<1>2. Qubits \subseteq Nat
  BY WidthAssumption DEF Qubits
<1>3. QED
  BY <1>1, <1>2, FS_Subset

\* The wires on which two rows differ in kind: anticommutes is their parity.
Crossings(a, b) == SymDiff(a.x \cap b.z, a.z \cap b.x)

LEMMA CrossingsType ==
  ASSUME NEW a \in Rows, NEW b \in Rows
  PROVE  /\ Crossings(a, b) \in SUBSET Qubits /\ IsFiniteSet(Crossings(a, b))
         /\ anticommutes(a, b) <=> Odd(Crossings(a, b))
<1>1. Crossings(a, b) \in SUBSET Qubits
  BY DEF Rows, Crossings, SymDiff
<1>2. QED
  BY <1>1, FiniteQubits DEF anticommutes, Crossings

LEMMA AntiSymmetric ==
  ASSUME NEW a \in Rows, NEW b \in Rows
  PROVE  anticommutes(a, b) <=> anticommutes(b, a)
<1>1. Crossings(a, b) = Crossings(b, a)
  BY DEF Crossings, SymDiff
<1>2. QED
  BY <1>1, CrossingsType

LEMMA AntiSelf ==
  ASSUME NEW a \in Rows
  PROVE  ~anticommutes(a, a)
<1>1. Crossings(a, a) = {}
  BY DEF Crossings, SymDiff
<1>2. QED
  BY <1>1, CrossingsType, OddEmpty

\* The product of two rows anticommutes with what exactly one of them does.
LEMMA AntiProduct ==
  ASSUME NEW a \in Rows, NEW b \in Rows, NEW c \in Rows
  PROVE  /\ row_product(a, b) \in Rows
         /\ anticommutes(row_product(a, b), c)
              <=> ~(anticommutes(a, c) <=> anticommutes(b, c))
         /\ anticommutes(c, row_product(a, b))
              <=> ~(anticommutes(c, a) <=> anticommutes(c, b))
<1> DEFINE ab == row_product(a, b)
<1>1. ab.x = SymDiff(a.x, b.x) /\ ab.z = SymDiff(a.z, b.z)
  BY DEF row_product
<1>2. ab \in Rows
  <2>1. /\ SymDiff(a.x, b.x) \in SUBSET Qubits /\ SymDiff(a.z, b.z) \in SUBSET Qubits
        /\ a.neg \in BOOLEAN /\ b.neg \in BOOLEAN
    BY DEF Rows, SymDiff
  <2>2. QED
    BY <2>1 DEF row_product, Rows
<1> HIDE DEF ab
<1>3. Crossings(ab, c) = SymDiff(Crossings(a, c), Crossings(b, c))
  BY <1>1 DEF Crossings, SymDiff
<1>4. anticommutes(ab, c) <=> ~(anticommutes(a, c) <=> anticommutes(b, c))
  BY <1>2, <1>3, CrossingsType, OddSymDiff
<1>5. /\ anticommutes(c, ab) <=> anticommutes(ab, c)
      /\ anticommutes(c, a) <=> anticommutes(a, c)
      /\ anticommutes(c, b) <=> anticommutes(b, c)
  BY <1>2, AntiSymmetric
<1>6. QED
  BY <1>2, <1>4, <1>5 DEF ab

-----------------------------------------------------------------------------
(* Gates.                                                                  *)

Natives1 == {"h", "s", "sdg", "sx", "sxdg", "x", "y", "z"}

\* A native gate on wires of the register: <<name, q, t>>.
IsNative(n) ==
    /\ n[1] \in Natives1 \cup {"cx"} /\ n[2] \in Qubits /\ n[3] \in Qubits
    /\ n[1] = "cx" => n[2] # n[3]

\* The image of a row is a row; its X and Z parts, gate by gate.
LEMMA OnRowType ==
  ASSUME NEW op \in Natives1 \cup {"cx"}, NEW q \in Qubits, NEW t \in Qubits, NEW r \in Rows,
         NEW u, u = OnRow(op, q, t, r)
  PROVE  /\ u \in Rows
         /\ op = "h" => /\ \A i : i \in u.x <=> IF i = q THEN q \in r.z ELSE i \in r.x
                        /\ \A i : i \in u.z <=> IF i = q THEN q \in r.x ELSE i \in r.z
         /\ op \in {"s", "sdg"} =>
               /\ u.x = r.x
               /\ \A i : i \in u.z <=> IF i = q THEN ~(q \in r.x <=> q \in r.z) ELSE i \in r.z
         /\ op \in {"sx", "sxdg"} =>
               /\ \A i : i \in u.x <=> IF i = q THEN ~(q \in r.x <=> q \in r.z) ELSE i \in r.x
               /\ u.z = r.z
         /\ op \in {"x", "y", "z"} => u.x = r.x /\ u.z = r.z
         /\ op = "cx" =>
               /\ \A i : i \in u.x <=> IF i = t THEN ~(q \in r.x <=> t \in r.x) ELSE i \in r.x
               /\ \A i : i \in u.z <=> IF i = q THEN ~(t \in r.z <=> q \in r.z) ELSE i \in r.z
<1>1. CASE op = "h"
  <2>1. u = [x |-> Xor(r.x, (q \in r.x) # (q \in r.z), {q}), z |-> Xor(r.z, (q \in r.x) # (q \in r.z), {q}),
               neg |-> r.neg # (q \in r.x /\ q \in r.z)]
    BY <1>1 DEF OnRow
  <2>2. Xor(r.x, (q \in r.x) # (q \in r.z), {q}) \in SUBSET Qubits /\ Xor(r.z, (q \in r.x) # (q \in r.z), {q}) \in SUBSET Qubits
    BY DEF Xor, SymDiff, Rows
  <2>3. u \in Rows /\ u.x = Xor(r.x, (q \in r.x) # (q \in r.z), {q}) /\ u.z = Xor(r.z, (q \in r.x) # (q \in r.z), {q})
    BY <2>1, <2>2 DEF Rows
  <2>4. QED
    BY <1>1, <2>3 DEF Xor, SymDiff
<1>2. CASE op = "s"
  <2>1. u = [r EXCEPT !.z = Xor(@, q \in r.x, {q}), !.neg = @ # (q \in r.x /\ q \in r.z)]
    BY <1>2 DEF OnRow
  <2>2. r.x \in SUBSET Qubits /\ Xor(r.z, q \in r.x, {q}) \in SUBSET Qubits
    BY DEF Xor, SymDiff, Rows
  <2>3. u \in Rows /\ u.x = r.x /\ u.z = Xor(r.z, q \in r.x, {q})
    BY <2>1, <2>2 DEF Rows
  <2>4. QED
    BY <1>2, <2>3 DEF Xor, SymDiff
<1>3. CASE op = "sdg"
  <2>1. u = [r EXCEPT !.z = Xor(@, q \in r.x, {q}), !.neg = @ # (q \in r.x /\ ~(q \in r.z))]
    BY <1>3 DEF OnRow
  <2>2. r.x \in SUBSET Qubits /\ Xor(r.z, q \in r.x, {q}) \in SUBSET Qubits
    BY DEF Xor, SymDiff, Rows
  <2>3. u \in Rows /\ u.x = r.x /\ u.z = Xor(r.z, q \in r.x, {q})
    BY <2>1, <2>2 DEF Rows
  <2>4. QED
    BY <1>3, <2>3 DEF Xor, SymDiff
<1>4. CASE op = "sx"
  <2>1. u = [r EXCEPT !.x = Xor(@, q \in r.z, {q}), !.neg = @ # (q \in r.z /\ ~(q \in r.x))]
    BY <1>4 DEF OnRow
  <2>2. Xor(r.x, q \in r.z, {q}) \in SUBSET Qubits /\ r.z \in SUBSET Qubits
    BY DEF Xor, SymDiff, Rows
  <2>3. u \in Rows /\ u.x = Xor(r.x, q \in r.z, {q}) /\ u.z = r.z
    BY <2>1, <2>2 DEF Rows
  <2>4. QED
    BY <1>4, <2>3 DEF Xor, SymDiff
<1>5. CASE op = "sxdg"
  <2>1. u = [r EXCEPT !.x = Xor(@, q \in r.z, {q}), !.neg = @ # (q \in r.z /\ q \in r.x)]
    BY <1>5 DEF OnRow
  <2>2. Xor(r.x, q \in r.z, {q}) \in SUBSET Qubits /\ r.z \in SUBSET Qubits
    BY DEF Xor, SymDiff, Rows
  <2>3. u \in Rows /\ u.x = Xor(r.x, q \in r.z, {q}) /\ u.z = r.z
    BY <2>1, <2>2 DEF Rows
  <2>4. QED
    BY <1>5, <2>3 DEF Xor, SymDiff
<1>6. CASE op = "x"
  <2>1. u = [r EXCEPT !.neg = @ # (q \in r.z)]
    BY <1>6 DEF OnRow
  <2>2. r.x \in SUBSET Qubits /\ r.z \in SUBSET Qubits
    BY DEF Xor, SymDiff, Rows
  <2>3. u \in Rows /\ u.x = r.x /\ u.z = r.z
    BY <2>1, <2>2 DEF Rows
  <2>4. QED
    BY <1>6, <2>3 DEF Xor, SymDiff
<1>7. CASE op = "y"
  <2>1. u = [r EXCEPT !.neg = @ # ((q \in r.x) # (q \in r.z))]
    BY <1>7 DEF OnRow
  <2>2. r.x \in SUBSET Qubits /\ r.z \in SUBSET Qubits
    BY DEF Xor, SymDiff, Rows
  <2>3. u \in Rows /\ u.x = r.x /\ u.z = r.z
    BY <2>1, <2>2 DEF Rows
  <2>4. QED
    BY <1>7, <2>3 DEF Xor, SymDiff
<1>8. CASE op = "z"
  <2>1. u = [r EXCEPT !.neg = @ # (q \in r.x)]
    BY <1>8 DEF OnRow
  <2>2. r.x \in SUBSET Qubits /\ r.z \in SUBSET Qubits
    BY DEF Xor, SymDiff, Rows
  <2>3. u \in Rows /\ u.x = r.x /\ u.z = r.z
    BY <2>1, <2>2 DEF Rows
  <2>4. QED
    BY <1>8, <2>3 DEF Xor, SymDiff
<1>9. CASE op = "cx"
  <2> DEFINE X == Xor(r.x, q \in r.x, {t})
             Z == Xor(r.z, t \in r.z, {q})
             c == r.neg # (q \in r.x /\ t \in r.z /\ ((t \in r.x) = (q \in r.z)))
  <2>1. u = [x |-> X, z |-> Z, neg |-> c]
    BY <1>9 DEF OnRow
  <2>2. X \in SUBSET Qubits /\ Z \in SUBSET Qubits
    BY DEF Xor, SymDiff, Rows
  <2>3. c \in BOOLEAN
    OBVIOUS
  <2> HIDE DEF X, Z, c
  <2>4. u \in Rows /\ u.x = X /\ u.z = Z
    BY <2>1, <2>2, <2>3 DEF Rows
  <2>5. QED
    BY <1>9, <2>4 DEF X, Z, Xor, SymDiff
<1>10. QED
  BY <1>1, <1>2, <1>3, <1>4, <1>5, <1>6, <1>7, <1>8, <1>9 DEF Natives1

LEMMA OnRowIn ==
  ASSUME NEW op \in Natives1 \cup {"cx"}, NEW q \in Qubits, NEW t \in Qubits, NEW r \in Rows
  PROVE  OnRow(op, q, t, r) \in Rows
  BY OnRowType

\* A gate on one wire leaves the crossings of two rows as they are.
LEMMA OneWireKeeps ==
  ASSUME NEW op \in Natives1, NEW q \in Qubits, NEW t \in Qubits,
         NEW a \in Rows, NEW b \in Rows
  PROVE  Crossings(OnRow(op, q, t, a), OnRow(op, q, t, b)) = Crossings(a, b)
<1> DEFINE u == OnRow(op, q, t, a)
           w == OnRow(op, q, t, b)
<1>2. \A c, d, i : i \in Crossings(c, d) <=> ~((i \in c.x /\ i \in d.z) <=> (i \in c.z /\ i \in d.x))
  BY DEF Crossings, SymDiff
<1>3. CASE op \in {"x", "y", "z"}
  <2>1. u.x = a.x /\ u.z = a.z /\ w.x = b.x /\ w.z = b.z
    BY <1>3, OnRowType
  <2>2. QED
    BY <2>1 DEF Crossings
<1>4. CASE op = "h"
  <2>1. \A i : i \in u.x <=> IF i = q THEN q \in a.z ELSE i \in a.x
    BY <1>4, OnRowType
  <2>2. \A i : i \in u.z <=> IF i = q THEN q \in a.x ELSE i \in a.z
    BY <1>4, OnRowType
  <2>3. \A i : i \in w.x <=> IF i = q THEN q \in b.z ELSE i \in b.x
    BY <1>4, OnRowType
  <2>4. \A i : i \in w.z <=> IF i = q THEN q \in b.x ELSE i \in b.z
    BY <1>4, OnRowType
  <2> HIDE DEF u, w
  <2>5. \A i : i \in Crossings(u, w) <=> i \in Crossings(a, b)
    BY <1>2, <2>1, <2>2, <2>3, <2>4
  <2>6. QED
    BY <2>5 DEF u, w
<1>5. CASE op \in {"s", "sdg"}
  <2>1. u.x = a.x /\ w.x = b.x
    BY <1>5, OnRowType
  <2>2. \A i : i \in u.z <=> IF i = q THEN ~(q \in a.x <=> q \in a.z) ELSE i \in a.z
    BY <1>5, OnRowType
  <2>3. \A i : i \in w.z <=> IF i = q THEN ~(q \in b.x <=> q \in b.z) ELSE i \in b.z
    BY <1>5, OnRowType
  <2> HIDE DEF u, w
  <2>4. \A i : i \in Crossings(u, w) <=> i \in Crossings(a, b)
    BY <1>2, <2>1, <2>2, <2>3
  <2>5. QED
    BY <2>4 DEF u, w
<1>6. CASE op \in {"sx", "sxdg"}
  <2>1. u.z = a.z /\ w.z = b.z
    BY <1>6, OnRowType
  <2>2. \A i : i \in u.x <=> IF i = q THEN ~(q \in a.x <=> q \in a.z) ELSE i \in a.x
    BY <1>6, OnRowType
  <2>3. \A i : i \in w.x <=> IF i = q THEN ~(q \in b.x <=> q \in b.z) ELSE i \in b.x
    BY <1>6, OnRowType
  <2> HIDE DEF u, w
  <2>4. \A i : i \in Crossings(u, w) <=> i \in Crossings(a, b)
    BY <1>2, <2>1, <2>2, <2>3
  <2>5. QED
    BY <2>4 DEF u, w
<1>7. QED
  BY <1>3, <1>4, <1>5, <1>6 DEF Natives1

\* A CX adds or removes a crossing on both of its wires, or on neither.
LEMMA CxKeeps ==
  ASSUME NEW q \in Qubits, NEW t \in Qubits, q # t, NEW a \in Rows, NEW b \in Rows
  PROVE  Crossings(OnRow("cx", q, t, a), OnRow("cx", q, t, b))
           \in {Crossings(a, b), SymDiff(Crossings(a, b), {q, t})}
<1> DEFINE u == OnRow("cx", q, t, a)
           w == OnRow("cx", q, t, b)
           both == ~((q \in a.x /\ t \in b.z) <=> (t \in a.z /\ q \in b.x))
<1>2. \A i : (i \in u.x) <=> IF i = t THEN ~(q \in a.x <=> t \in a.x) ELSE i \in a.x
  BY OnRowType
<1>3. \A i : (i \in u.z) <=> IF i = q THEN ~(t \in a.z <=> q \in a.z) ELSE i \in a.z
  BY OnRowType
<1>4. \A i : (i \in w.x) <=> IF i = t THEN ~(q \in b.x <=> t \in b.x) ELSE i \in b.x
  BY OnRowType
<1>5. \A i : (i \in w.z) <=> IF i = q THEN ~(t \in b.z <=> q \in b.z) ELSE i \in b.z
  BY OnRowType
<1> HIDE DEF u, w
<1>6. \A c, d, i : i \in Crossings(c, d) <=> ~((i \in c.x /\ i \in d.z) <=> (i \in c.z /\ i \in d.x))
  BY DEF Crossings, SymDiff
<1>7. \A i : i \notin {q, t} => (i \in Crossings(u, w) <=> i \in Crossings(a, b))
  BY <1>2, <1>3, <1>4, <1>5, <1>6
<1>8. /\ q \in Crossings(u, w) <=> ~(q \in Crossings(a, b) <=> both)
      /\ t \in Crossings(u, w) <=> ~(t \in Crossings(a, b) <=> both)
  BY <1>2, <1>3, <1>4, <1>5, <1>6
<1>9. CASE both
  <2>1. Crossings(u, w) = SymDiff(Crossings(a, b), {q, t})
    BY <1>7, <1>8, <1>9 DEF SymDiff
  <2>2. QED
    BY <2>1 DEF u, w
<1>10. CASE ~both
  <2>1. Crossings(u, w) = Crossings(a, b)
    BY <1>7, <1>8, <1>10
  <2>2. QED
    BY <2>1 DEF u, w
<1>11. QED
  BY <1>9, <1>10

LEMMA GateKeeps ==
  ASSUME NEW n, IsNative(n), NEW a \in Rows, NEW b \in Rows
  PROVE  anticommutes(OnRow(n[1], n[2], n[3], a), OnRow(n[1], n[2], n[3], b)) <=> anticommutes(a, b)
<1> DEFINE q == n[2]
           t == n[3]
           u == OnRow(n[1], q, t, a)
           w == OnRow(n[1], q, t, b)
<1>1. /\ q \in Qubits /\ t \in Qubits /\ n[1] \in Natives1 \cup {"cx"}
      /\ n[1] = "cx" => q # t
  BY DEF IsNative
<1>2. u \in Rows /\ w \in Rows
  BY <1>1, OnRowIn
<1>3. Crossings(u, w) \in {Crossings(a, b), SymDiff(Crossings(a, b), {q, t})}
  BY <1>1, OneWireKeeps, CxKeeps
<1>4. CASE n[1] = "cx"
  <2>1. Odd(SymDiff(Crossings(a, b), {q, t})) <=> Odd(Crossings(a, b))
    <3>1. IsFiniteSet({q, t}) /\ ~Odd({q, t})
      BY <1>1, <1>4, OddPair, FiniteQubits
    <3>2. QED
      BY <3>1, CrossingsType, OddSymDiff
  <2>2. QED
    BY <1>2, <1>3, <2>1, CrossingsType
<1>5. CASE n[1] # "cx"
  <2>1. Crossings(u, w) = Crossings(a, b)
    BY <1>1, <1>5, OneWireKeeps
  <2>2. QED
    BY <1>2, <2>1, CrossingsType
<1>6. QED
  BY <1>4, <1>5

LEMMA StepKeeps ==
  ASSUME NEW u \in Tableaux, Independent(u), NEW n, IsNative(n)
  PROVE  Step(u, n) \in Tableaux /\ Independent(Step(u, n))
<1> DEFINE Image(r) == OnRow(n[1], n[2], n[3], r)
<1>1. /\ u.destab \in [Qubits -> Rows] /\ u.stab \in [Qubits -> Rows]
  BY DEF Tableaux
<1>2. Step(u, n) = [destab |-> [q \in Qubits |-> Image(u.destab[q])],
                    stab   |-> [q \in Qubits |-> Image(u.stab[q])]]
  BY DEF Step, EveryRow
<1>3. \A r \in Rows : Image(r) \in Rows
  BY OnRowIn DEF IsNative
<1>4. \A a, b \in Rows : anticommutes(Image(a), Image(b)) <=> anticommutes(a, b)
  BY GateKeeps
<1> HIDE DEF Image
<1>5. Step(u, n) \in Tableaux
  BY <1>1, <1>2, <1>3 DEF Tableaux
<1>6. Independent(Step(u, n))
  <2> SUFFICES ASSUME NEW j \in Qubits, NEW k \in Qubits
               PROVE  /\ ~anticommutes(Image(u.stab[j]), Image(u.stab[k]))
                      /\ ~anticommutes(Image(u.destab[j]), Image(u.destab[k]))
                      /\ anticommutes(Image(u.destab[j]), Image(u.stab[k])) <=> j = k
    BY <1>2 DEF Independent
  <2>1. /\ u.stab[j] \in Rows /\ u.stab[k] \in Rows
        /\ u.destab[j] \in Rows /\ u.destab[k] \in Rows
    BY <1>1
  <2>2. QED
    BY <1>4, <2>1 DEF Independent
<1>7. QED
  BY <1>5, <1>6

Then(u, native, n) == IF n \in DOMAIN native THEN Step(u, native[n]) ELSE u

\* A gate of the tableau, of up to three native ones.
LEMMA TabGateKeeps ==
  ASSUME NEW u \in Tableaux, Independent(u), NEW g, Wired(g), g.op \in Clifford
  PROVE  TabGate(u, g) \in Tableaux /\ Independent(TabGate(u, g))
<1> DEFINE native == Native(g)
           q == g.qs[1]
           t == g.qs[Len(g.qs)]
<1>1. \A i \in DOMAIN native : IsNative(native[i])
  <2>1. CASE g.op \in {"Id", "Barrier", "Measure"}
    <3>1. native = <<>>
      BY <2>1 DEF Native
    <3>2. QED
      BY <3>1
  <2>2. CASE g.op \in {"H", "X", "Y", "Z", "S", "Sdg", "Sx", "Sxdg"}
    <3>1. q \in Qubits
      BY <2>2 DEF Wired, OnOne, OneQubit
    <3>2. PICK op \in Natives1 : native = <<<<op, q, q>>>>
      BY <2>2 DEF Native, Natives1
    <3>3. QED
      BY <3>1, <3>2 DEF IsNative, Natives1
  <2>3. CASE g.op \in {"CX", "CY", "CZ", "Swap"}
    <3>1. q \in Qubits /\ t \in Qubits /\ q # t
      BY <2>3 DEF Wired, OnTwo, Controlled
    <3> HIDE DEF q, t
    <3>2. CASE g.op = "CX"
      <4>1. native = <<<<"cx", q, t>>>>
        BY <3>2 DEF Native, q, t
      <4>2. QED
        BY <3>1, <4>1 DEF IsNative
    <3>3. CASE g.op = "CZ"
      <4>1. native = <<<<"h", t, t>>, <<"cx", q, t>>, <<"h", t, t>>>>
        BY <3>3 DEF Native, q, t
      <4>2. QED
        BY <3>1, <4>1 DEF IsNative, Natives1
    <3>4. CASE g.op = "CY"
      <4>1. native = <<<<"sdg", t, t>>, <<"cx", q, t>>, <<"s", t, t>>>>
        BY <3>4 DEF Native, q, t
      <4>2. QED
        BY <3>1, <4>1 DEF IsNative, Natives1
    <3>5. CASE g.op = "Swap"
      <4>1. native = <<<<"cx", q, t>>, <<"cx", t, q>>, <<"cx", q, t>>>>
        BY <3>5 DEF Native, q, t
      <4>2. QED
        BY <3>1, <4>1 DEF IsNative
    <3>6. QED
      BY <2>3, <3>2, <3>3, <3>4, <3>5
  <2>4. QED
    BY <2>1, <2>2, <2>3 DEF Clifford
<1> HIDE DEF native
<1>2. ASSUME NEW w \in Tableaux, Independent(w), NEW n
      PROVE  Then(w, native, n) \in Tableaux /\ Independent(Then(w, native, n))
  BY <1>1, <1>2, StepKeeps DEF Then
<1>3. TabGate(u, g) = Then(Then(Then(u, native, 1), native, 2), native, 3)
  BY DEF TabGate, Then, native
<1>4. QED
  BY <1>2, <1>3

-----------------------------------------------------------------------------
(* Measurement.                                                            *)

LEMMA ZOnRow ==
  ASSUME NEW q \in Qubits, NEW outcome \in BOOLEAN
  PROVE  /\ ZOn(q) \in Rows
         /\ [ZOn(q) EXCEPT !.neg = outcome] \in Rows
         /\ \A r : anticommutes(r, [ZOn(q) EXCEPT !.neg = outcome]) <=> anticommutes(r, ZOn(q))
<1>1. Identity \in Rows /\ Identity.x = {} /\ Identity.z = {}
  BY DEF Rows, Identity
<1>2. ZOn(q) \in Rows /\ ZOn(q).x = {} /\ ZOn(q).z = {q}
  BY <1>1 DEF Rows, ZOn
<1>3. /\ [ZOn(q) EXCEPT !.neg = outcome] \in Rows
      /\ [ZOn(q) EXCEPT !.neg = outcome].x = {} /\ [ZOn(q) EXCEPT !.neg = outcome].z = {q}
  BY <1>2 DEF Rows
<1>4. QED
  BY <1>2, <1>3 DEF anticommutes

\* The gate that a reset ends with.
LEMMA WiredX ==
  ASSUME NEW q \in Qubits
  PROVE  Wired(Gate("X", <<q>>))
<1> DEFINE g == Gate("X", <<q>>)
<1>1. g.op = "X" /\ g.qs = <<q>> /\ g.th = <<>> /\ DOMAIN g = {"op", "qs", "th"}
  BY DEF Gate
<1> HIDE DEF g
<1>2. g.th \in [1..Angles(g.op) -> Int]
  <2>1. Angles("X") = 0
    BY DEF Angles
  <2>2. <<>> \in [1..0 -> Int]
    OBVIOUS
  <2>3. QED
    BY <1>1, <2>1, <2>2
<1>3. g.op \in OnOne /\ g.op \notin OnTwo /\ g.op \notin OnThree /\ g.op \notin {"Rx", "Ry", "Rz"}
  BY <1>1 DEF OnOne, OnTwo, OnThree, OneQubit, Controlled
<1>4. g.qs \in Seq(Qubits) /\ Len(g.qs) = 1
  BY <1>1
<1>5. {"op", "qs", "th"} \subseteq DOMAIN g
  BY <1>1
<1>6. Wired(g)
  BY <1>2, <1>3, <1>4, <1>5 DEF Wired
<1>7. QED
  BY <1>6 DEF g

\* The stabilizer that a measurement of q replaces, when the outcome is free.
LEMMA PivotExists ==
  ASSUME NEW u, NEW q, ~reset_outcome_is_determined(u, q)
  PROVE  LET p == CHOOSE k \in Anticommuting(u, q) : \A j \in Anticommuting(u, q) : k <= j
         IN  p \in Qubits /\ anticommutes(u.stab[p], ZOn(q))
<1>1. Anticommuting(u, q) \in SUBSET Nat /\ Anticommuting(u, q) # {}
  BY FiniteQubits DEF Anticommuting, reset_outcome_is_determined
<1>2. \E k \in Anticommuting(u, q) : \A j \in Anticommuting(u, q) : k <= j
  BY <1>1, LeastElement
<1>3. QED
  BY <1>2 DEF Anticommuting

\* The collapse: every row that anticommutes with Z_q is multiplied by the
\* pivot, the pivot becomes its own destabilizer and Z_q takes its place.
LEMMA CollapseKeeps ==
  ASSUME NEW u \in Tableaux, Independent(u), NEW q \in Qubits, NEW outcome \in BOOLEAN,
         ~reset_outcome_is_determined(u, q)
  PROVE  Collapsed(u, q, outcome) \in Tableaux /\ Independent(Collapsed(u, q, outcome))
<1> DEFINE p == CHOOSE k \in Anticommuting(u, q) : \A j \in Anticommuting(u, q) : k <= j
           S == u.stab
           D == u.destab
           Z == ZOn(q)
           Zo == [ZOn(q) EXCEPT !.neg = outcome]
           Mult(r) == IF anticommutes(r, Z) THEN row_product(r, S[p]) ELSE r
           S1 == [k \in Qubits |-> IF k = p THEN Zo ELSE Mult(S[k])]
           D1 == [k \in Qubits |-> IF k = p THEN S[p] ELSE Mult(D[k])]
           c == Collapsed(u, q, outcome)
<1>1. p \in Qubits /\ anticommutes(S[p], Z)
  BY PivotExists
<1>2. c = [destab |-> D1, stab |-> S1]
  <2> DEFINE rows == [destab |-> [k \in Qubits |-> Mult(D[k])], stab |-> [k \in Qubits |-> Mult(S[k])]]
  <2>1. c = [destab |-> [rows.destab EXCEPT ![p] = S[p]], stab |-> [rows.stab EXCEPT ![p] = Zo]]
    BY DEF Collapsed, EveryRow
  <2> HIDE DEF S, D, Zo, Mult, p, c
  <2>2. [rows.destab EXCEPT ![p] = S[p]] = D1
    OBVIOUS
  <2>3. [rows.stab EXCEPT ![p] = Zo] = S1
    OBVIOUS
  <2>4. QED
    BY <2>1, <2>2, <2>3
<1> HIDE DEF p, c
<1>3. /\ S \in [Qubits -> Rows] /\ D \in [Qubits -> Rows]
      /\ \A k \in Qubits : S[k] \in Rows /\ D[k] \in Rows
  BY DEF Tableaux
<1>4. /\ \A j, k \in Qubits : ~anticommutes(S[j], S[k]) /\ ~anticommutes(D[j], D[k])
      /\ \A j, k \in Qubits : anticommutes(D[j], S[k]) <=> j = k
      /\ \A j, k \in Qubits : anticommutes(S[k], D[j]) <=> j = k
  <2>1. \A j, k \in Qubits : anticommutes(S[k], D[j]) <=> anticommutes(D[j], S[k])
    BY <1>3, AntiSymmetric
  <2>2. QED
    BY <2>1 DEF Independent
<1>5. Z \in Rows /\ Zo \in Rows /\ \A r : anticommutes(r, Zo) <=> anticommutes(r, Z)
  BY ZOnRow
<1> HIDE DEF S, D, Z, Zo
<1>6. \A r \in Rows : /\ Mult(r) \in Rows
                      /\ ~anticommutes(Mult(r), Z)
  BY <1>1, <1>3, <1>5, AntiProduct
<1>7. \A r, s \in Rows : ~anticommutes(S[p], s) =>
                          (anticommutes(Mult(r), s) <=> anticommutes(r, s))
  BY <1>1, <1>3, AntiProduct
<1>8. \A r, s \in Rows : ~anticommutes(r, S[p]) =>
                          (anticommutes(r, Mult(s)) <=> anticommutes(r, s))
  BY <1>1, <1>3, AntiProduct
<1>9. ~anticommutes(S[p], S[p]) /\ S[p] \in Rows
  BY <1>1, <1>3, AntiSelf
<1>10. \A r, s \in Rows : ~anticommutes(r, S[p]) /\ ~anticommutes(S[p], s) =>
                          (anticommutes(Mult(r), Mult(s)) <=> anticommutes(r, s))
  <2> SUFFICES ASSUME NEW r \in Rows, NEW s \in Rows,
                      ~anticommutes(r, S[p]), ~anticommutes(S[p], s)
               PROVE  anticommutes(Mult(r), Mult(s)) <=> anticommutes(r, s)
    OBVIOUS
  <2>1. ~anticommutes(S[p], Mult(s)) /\ Mult(s) \in Rows
    BY <1>6, <1>8, <1>9
  <2>2. anticommutes(Mult(r), Mult(s)) <=> anticommutes(r, Mult(s))
    BY <1>7, <2>1
  <2>3. QED
    BY <1>8, <2>2
<1> HIDE DEF Mult
<1>11. /\ S1 \in [Qubits -> Rows] /\ D1 \in [Qubits -> Rows]
       /\ S1[p] = Zo /\ D1[p] = S[p]
       /\ \A k \in Qubits \ {p} : S1[k] = Mult(S[k]) /\ D1[k] = Mult(D[k])
  BY <1>1, <1>3, <1>5, <1>6
<1> HIDE DEF S1, D1
<1>12. \A k \in Qubits \ {p} : /\ ~anticommutes(S1[k], S1[p]) /\ ~anticommutes(S1[p], S1[k])
                               /\ ~anticommutes(D1[k], S1[p])
                               /\ ~anticommutes(D1[p], S1[k])
                               /\ ~anticommutes(D1[k], D1[p]) /\ ~anticommutes(D1[p], D1[k])
  <2> SUFFICES ASSUME NEW k \in Qubits \ {p}
               PROVE  /\ ~anticommutes(S1[k], S1[p]) /\ ~anticommutes(S1[p], S1[k])
                      /\ ~anticommutes(D1[k], S1[p])
                      /\ ~anticommutes(D1[p], S1[k])
                      /\ ~anticommutes(D1[k], D1[p]) /\ ~anticommutes(D1[p], D1[k])
    OBVIOUS
  <2>1. ~anticommutes(S1[k], S1[p]) /\ ~anticommutes(D1[k], S1[p])
    BY <1>3, <1>5, <1>6, <1>11
  <2>2. ~anticommutes(S1[p], S1[k])
    BY <1>1, <1>11, <2>1, AntiSymmetric
  <2>3. ~anticommutes(D1[p], S1[k])
    BY <1>1, <1>3, <1>4, <1>8, <1>9, <1>11
  <2>4. ~anticommutes(D1[p], D1[k])
    BY <1>1, <1>3, <1>4, <1>8, <1>9, <1>11
  <2>5. ~anticommutes(D1[k], D1[p])
    BY <1>1, <1>11, <2>4, AntiSymmetric
  <2>6. QED
    BY <2>1, <2>2, <2>3, <2>4, <2>5
<1>13. \A k \in Qubits : ~anticommutes(S1[k], S1[k]) /\ ~anticommutes(D1[k], D1[k])
  BY <1>11, AntiSelf
<1>14. anticommutes(D1[p], S1[p])
  BY <1>1, <1>5, <1>11
<1>15. \A j, k \in Qubits \ {p} : /\ ~anticommutes(S1[j], S1[k])
                                  /\ ~anticommutes(D1[j], D1[k])
                                  /\ anticommutes(D1[j], S1[k]) <=> j = k
  <2> SUFFICES ASSUME NEW j \in Qubits \ {p}, NEW k \in Qubits \ {p}
               PROVE  /\ ~anticommutes(S1[j], S1[k])
                      /\ ~anticommutes(D1[j], D1[k])
                      /\ anticommutes(D1[j], S1[k]) <=> j = k
    OBVIOUS
  <2>1. /\ ~anticommutes(S[j], S[p]) /\ ~anticommutes(S[p], S[k])
        /\ ~anticommutes(D[j], S[p]) /\ ~anticommutes(S[p], D[k])
    BY <1>1, <1>4
  <2>2. /\ anticommutes(S1[j], S1[k]) <=> anticommutes(S[j], S[k])
        /\ anticommutes(D1[j], D1[k]) <=> anticommutes(D[j], D[k])
        /\ anticommutes(D1[j], S1[k]) <=> anticommutes(D[j], S[k])
    BY <1>3, <1>10, <1>11, <2>1
  <2>3. QED
    BY <1>4, <2>2
<1>16. c \in Tableaux
  BY <1>2, <1>11 DEF Tableaux
<1>17. Independent(c)
  <2>1. c.stab = S1 /\ c.destab = D1
    BY <1>2
  <2>2. QED
    BY <1>1, <1>12, <1>13, <1>14, <1>15, <2>1 DEF Independent
<1>18. QED
  BY <1>16, <1>17 DEF c

\* What measure leaves.
LEMMA ResultKeeps ==
  ASSUME NEW u \in Tableaux, Independent(u), NEW q \in Qubits, NEW r \in MeasureResults(u, q)
  PROVE  r[2] \in Tableaux /\ Independent(r[2])
<1>1. CASE reset_outcome_is_determined(u, q)
  BY <1>1 DEF MeasureResults
<1>2. CASE ~reset_outcome_is_determined(u, q)
  <2>1. PICK outcome \in BOOLEAN : r = <<outcome, Collapsed(u, q, outcome)>>
    BY <1>2 DEF MeasureResults
  <2>2. QED
    BY <1>2, <2>1, CollapseKeeps
<1>3. QED
  BY <1>1, <1>2

\* The rows X_q and Z_q that a run starts with.
LEMMA ZeroStateOK == zero_state \in Tableaux /\ Independent(zero_state)
<1> DEFINE X(q) == [Identity EXCEPT !.x = {q}]
<1>1. /\ zero_state.destab = [q \in Qubits |-> X(q)] /\ zero_state.stab = [q \in Qubits |-> ZOn(q)]
      /\ zero_state = [destab |-> zero_state.destab, stab |-> zero_state.stab]
  BY DEF zero_state
<1>2. Identity \in Rows /\ Identity.x = {} /\ Identity.z = {}
  BY DEF Rows, Identity
<1>3. \A q \in Qubits : X(q) \in Rows /\ X(q).x = {q} /\ X(q).z = {}
  BY <1>2 DEF Rows
<1>4. \A q \in Qubits : ZOn(q) \in Rows /\ ZOn(q).x = {} /\ ZOn(q).z = {q}
  BY <1>2 DEF Rows, ZOn
<1> HIDE DEF X
<1>5. zero_state \in Tableaux
  BY <1>1, <1>3, <1>4 DEF Tableaux
<1>6. ASSUME NEW j \in Qubits, NEW k \in Qubits
      PROVE  /\ ~anticommutes(ZOn(j), ZOn(k))
             /\ ~anticommutes(X(j), X(k))
             /\ anticommutes(X(j), ZOn(k)) <=> j = k
  <2>1. Crossings(ZOn(j), ZOn(k)) = {} /\ Crossings(X(j), X(k)) = {}
    BY <1>3, <1>4 DEF Crossings, SymDiff
  <2>2. Crossings(X(j), ZOn(k)) = IF j = k THEN {j} ELSE {}
    BY <1>3, <1>4 DEF Crossings, SymDiff
  <2>3. X(j) \in Rows /\ X(k) \in Rows /\ ZOn(j) \in Rows /\ ZOn(k) \in Rows
    BY <1>3, <1>4
  <2>4. Odd(Crossings(X(j), ZOn(k))) <=> j = k
    BY <2>2, OddEmpty, OddOne
  <2>5. QED
    BY <2>1, <2>3, <2>4, CrossingsType, OddEmpty
<1>7. Independent(zero_state)
  BY <1>1, <1>6 DEF Independent
<1>8. QED
  BY <1>5, <1>7

-----------------------------------------------------------------------------
(* The invariant.                                                          *)

LEMMA TableauInit == Init => TableauInv
<1> SUFFICES ASSUME Init PROVE TableauInv
  OBVIOUS
<1>1. todo \in Seq(ScriptGates)
  BY GatesAssumption DEF Init
<1>2. tab = zero_state
  BY DEF Init
<1>3. QED
  BY <1>1, <1>2, ZeroStateOK DEF TableauInv

\* Any engine's gate, seen from the tableau.
LEMMA TableauApply ==
  ASSUME TableauInv, NEW g, Wired(g), Apply(g)
  PROVE  tab' # NoTableau => tab' \in Tableaux /\ Independent(tab')
<1> SUFFICES ASSUME tab' # NoTableau PROVE tab' \in Tableaux /\ Independent(tab')
  OBVIOUS
<1>1. tab # NoTableau /\ g.op \in Clifford /\ tab' = TabGate(tab, g)
  BY DEF Apply
<1>2. tab \in Tableaux /\ Independent(tab)
  BY <1>1 DEF TableauInv
<1>3. QED
  BY <1>1, <1>2, TabGateKeeps

LEMMA TableauNext == TableauInv /\ [Next]_vars => TableauInv'
<1> SUFFICES ASSUME TableauInv, [Next]_vars PROVE TableauInv'
  OBVIOUS
<1>1. todo \in Seq(ScriptGates) /\ (tab # NoTableau => tab \in Tableaux /\ Independent(tab))
  BY DEF TableauInv
<1>2. CASE Scripted
  <2>1. Head(todo) \in ScriptGates /\ Tail(todo) \in Seq(ScriptGates)
    BY <1>1, <1>2 DEF Scripted
  <2>2. Wired(Head(todo))
    BY <2>1, GatesAssumption
  <2>3. Apply(Head(todo)) /\ todo' = Tail(todo)
    BY <1>2 DEF Scripted
  <2>4. tab' # NoTableau => tab' \in Tableaux /\ Independent(tab')
    BY <2>2, <2>3, TableauApply
  <2>5. QED
    BY <2>1, <2>3, <2>4 DEF TableauInv
<1>3. CASE FreeGate
  <2>1. PICK g \in Gates : Apply(g)
    BY <1>3 DEF FreeGate
  <2>2. Wired(g)
    BY GatesAssumption
  <2>3. tab' # NoTableau => tab' \in Tableaux /\ Independent(tab')
    BY <2>1, <2>2, TableauApply
  <2>4. todo' = todo
    BY <1>3 DEF FreeGate
  <2>5. QED
    BY <1>1, <2>3, <2>4 DEF TableauInv
<1>4. ASSUME NEW q \in Qubits, Measure(q)
      PROVE  TableauInv'
  <2>1. PICK r \in MeasureResults(tab, q) : tab' = r[2]
    BY <1>4 DEF Measure
  <2>2. tab # NoTableau /\ todo' = todo
    BY <1>4 DEF Measure
  <2>3. tab' \in Tableaux /\ Independent(tab')
    BY <1>1, <2>1, <2>2, ResultKeeps
  <2>4. QED
    BY <1>1, <2>2, <2>3 DEF TableauInv
<1>5. ASSUME NEW q \in Qubits, ResetShot(q)
      PROVE  TableauInv'
  <2>1. PICK r \in MeasureResults(tab, q) : tab' \in {r[2], TabGate(r[2], Gate("X", <<q>>))}
    BY <1>5 DEF ResetShot
  <2>2. tab # NoTableau /\ todo' = todo
    BY <1>5 DEF ResetShot
  <2>3. r[2] \in Tableaux /\ Independent(r[2])
    BY <1>1, <2>2, ResultKeeps
  <2>4. Wired(Gate("X", <<q>>)) /\ Gate("X", <<q>>).op \in Clifford
    BY WiredX DEF Gate, Clifford
  <2>5. tab' \in Tableaux /\ Independent(tab')
    BY <2>1, <2>3, <2>4, TabGateKeeps
  <2>6. QED
    BY <1>1, <2>2, <2>5 DEF TableauInv
<1>6. CASE UNCHANGED vars
  BY <1>1, <1>6 DEF TableauInv, vars
<1>7. QED
  BY <1>2, <1>3, <1>4, <1>5, <1>6 DEF Next

\* Whatever circuit runs and whatever is measured or reset on the way, the
\* stabilizers and destabilizers of the tableau keep the commutation relations
\* of Z_q and X_q (stabilizer.rs rows; measure, rowmult).
THEOREM TableauStaysIndependent == Spec => []RowsIndependent
<1>1. Init => TableauInv
  BY TableauInit
<1>2. TableauInv /\ [Next]_vars => TableauInv'
  BY TableauNext
<1>3. TableauInv => RowsIndependent
  BY DEF TableauInv, Independent, RowsIndependent
<1>4. QED
  BY <1>1, <1>2, <1>3, PTL DEF Spec

-----------------------------------------------------------------------------
(* The CH form.                                                            *)

Relations == SUBSET (Qubits \X Qubits)

\* The powers of exp(i pi/4): every scalar of a branch is one.
Corners == {<<1, 0, 0, 0>>, <<0, 1, 0, 0>>, <<0, 0, 1, 0>>, <<0, 0, 0, 1>>,
            <<-1, 0, 0, 0>>, <<0, -1, 0, 0>>, <<0, 0, -1, 0>>, <<0, 0, 0, -1>>}
Phases == {[k |-> 0, c |-> c] : c \in Corners}

Forms == [F : Relations, G : Relations, M : Relations, gamma : [Qubits -> 0..3],
          v : SUBSET Qubits, s : SUBSET Qubits, om : Phases]

\* check_invariants says that F and G are dual and that gamma has the parity of
\* F.M.  CX keeps the second law only because F.M is symmetric, which the code
\* does not check: the X rows commute.
Dot(S, T) == Odd(S \cap T)
Dual(F, G) == \A p, r \in Qubits : Dot(Row(F, p), Row(G, r)) <=> p = r
Even(F, M, gamma) == \A p \in Qubits : Dot(Row(F, p), Row(M, p)) <=> gamma[p] % 2 = 1
Symmetric(F, M) ==
    \A p, r \in Qubits : Dot(Row(F, p), Row(M, r)) <=> Dot(Row(F, r), Row(M, p))

Laws(F, G, M, gamma) == Dual(F, G) /\ Even(F, M, gamma) /\ Symmetric(F, M)

Lawful == {st \in Forms : Laws(st.F, st.G, st.M, st.gamma)}

-----------------------------------------------------------------------------
(* Scalars.                                                                *)

LEMMA EiPhase ==
  ASSUME NEW m \in Int
  PROVE  Ei(m) \in Phases
<1>1. m % 8 \in 0..7
  OBVIOUS
<1> DEFINE r == m % 8
           At(j) == IF r = j THEN 1 ELSE IF r = j + 4 THEN -1 ELSE 0
<1>2. Ei(m) = [k |-> 0, c |-> <<At(0), At(1), At(2), At(3)>>]
  BY DEF Ei
<1> HIDE DEF r
<1>3. <<At(0), At(1), At(2), At(3)>> \in Corners
  <2>1. r \in 0..7
    BY <1>1 DEF r
  <2>2. QED
    BY <2>1 DEF Corners
<1>4. QED
  BY <1>2, <1>3 DEF Phases

LEMMA PhaseForm ==
  ASSUME NEW x
  PROVE  x \in Phases <=> \E c \in Corners : x = [k |-> 0, c |-> c]
BY DEF Phases

LEMMA SmallPhases ==
  One \in Phases /\ Neg(One) \in Phases /\ ImUnit \in Phases
<1>1. One \in Phases
  BY DEF One, Int2Amp, Phases, Corners
<1>2. Neg(One) = [k |-> 0, c |-> <<-1, 0, 0, 0>>]
  BY DEF Neg, QNeg, One, Int2Amp
<1>3. Neg(One) \in Phases
  BY <1>2 DEF Phases, Corners
<1>4. ImUnit \in Phases
  BY EiPhase DEF ImUnit
<1>5. QED
  BY <1>1, <1>3, <1>4

LEMMA LowestAtZero ==
  ASSUME NEW c
  PROVE  Lowest(0, c) = [k |-> 0, c |-> c]
<1> DEFINE Divided[j \in 0..0] ==
            IF j = 0 THEN [k |-> 0, c |-> c]
            ELSE LET x == Divided[j - 1]
                     r == TimesRoot2(x.c)
                 IN  IF ~Reducible(x) THEN x
                     ELSE [k |-> x.k - 1,
                           c |-> <<r[1] \div 2, r[2] \div 2, r[3] \div 2, r[4] \div 2>>]
<1>1. Lowest(0, c) = IF c = Nought THEN [k |-> 0, c |-> c] ELSE Divided[0]
  BY DEF Lowest
<1>2. \E f : f = [j \in 0..0 |->
            IF j = 0 THEN [k |-> 0, c |-> c]
            ELSE LET x == f[j - 1]
                     r == TimesRoot2(x.c)
                 IN  IF ~Reducible(x) THEN x
                     ELSE [k |-> x.k - 1,
                           c |-> <<r[1] \div 2, r[2] \div 2, r[3] \div 2, r[4] \div 2>>]]
  <2> DEFINE f == [j \in 0..0 |-> [k |-> 0, c |-> c]]
  <2>1. f = [j \in 0..0 |->
            IF j = 0 THEN [k |-> 0, c |-> c]
            ELSE LET x == f[j - 1]
                     r == TimesRoot2(x.c)
                 IN  IF ~Reducible(x) THEN x
                     ELSE [k |-> x.k - 1,
                           c |-> <<r[1] \div 2, r[2] \div 2, r[3] \div 2, r[4] \div 2>>]]
    OBVIOUS
  <2>2. QED
    BY <2>1
<1>3. Divided = [j \in 0..0 |->
            IF j = 0 THEN [k |-> 0, c |-> c]
            ELSE LET x == Divided[j - 1]
                     r == TimesRoot2(x.c)
                 IN  IF ~Reducible(x) THEN x
                     ELSE [k |-> x.k - 1,
                           c |-> <<r[1] \div 2, r[2] \div 2, r[3] \div 2, r[4] \div 2>>]]
  BY <1>2
<1> HIDE DEF Divided
<1>4. Divided[0] = [k |-> 0, c |-> c]
  BY <1>3
<1>5. QED
  BY <1>1, <1>4

LEMMA CornersClosed ==
  ASSUME NEW p \in Corners, NEW q \in Corners
  PROVE  QMul(p, q) \in Corners
<1>1. q[1] \in Int /\ q[2] \in Int /\ q[3] \in Int /\ q[4] \in Int
  BY DEF Corners
<1>2. CASE p = <<1, 0, 0, 0>>
  <2>1. QMul(p, q) = <<q[1], q[2], q[3], q[4]>>
    BY <1>1, <1>2 DEF QMul
  <2>2. QED
    BY <2>1 DEF Corners
<1>3. CASE p = <<0, 1, 0, 0>>
  <2>1. QMul(p, q) = <<-q[4], q[1], q[2], q[3]>>
    BY <1>1, <1>3 DEF QMul
  <2>2. QED
    BY <2>1 DEF Corners
<1>4. CASE p = <<0, 0, 1, 0>>
  <2>1. QMul(p, q) = <<-q[3], -q[4], q[1], q[2]>>
    BY <1>1, <1>4 DEF QMul
  <2>2. QED
    BY <2>1 DEF Corners
<1>5. CASE p = <<0, 0, 0, 1>>
  <2>1. QMul(p, q) = <<-q[2], -q[3], -q[4], q[1]>>
    BY <1>1, <1>5 DEF QMul
  <2>2. QED
    BY <2>1 DEF Corners
<1>6. CASE p = <<-1, 0, 0, 0>>
  <2>1. QMul(p, q) = <<-q[1], -q[2], -q[3], -q[4]>>
    BY <1>1, <1>6 DEF QMul
  <2>2. QED
    BY <2>1 DEF Corners
<1>7. CASE p = <<0, -1, 0, 0>>
  <2>1. QMul(p, q) = <<q[4], -q[1], -q[2], -q[3]>>
    BY <1>1, <1>7 DEF QMul
  <2>2. QED
    BY <2>1 DEF Corners
<1>8. CASE p = <<0, 0, -1, 0>>
  <2>1. QMul(p, q) = <<q[3], q[4], -q[1], -q[2]>>
    BY <1>1, <1>8 DEF QMul
  <2>2. QED
    BY <2>1 DEF Corners
<1>9. CASE p = <<0, 0, 0, -1>>
  <2>1. QMul(p, q) = <<q[2], q[3], q[4], -q[1]>>
    BY <1>1, <1>9 DEF QMul
  <2>2. QED
    BY <2>1 DEF Corners
<1>10. QED
  BY <1>2, <1>3, <1>4, <1>5, <1>6, <1>7, <1>8, <1>9 DEF Corners

LEMMA TimesPhases ==
  ASSUME NEW x \in Phases, NEW y \in Phases
  PROVE  Times(x, y) \in Phases
<1>1. PICK p \in Corners : x = [k |-> 0, c |-> p]
  BY PhaseForm
<1>2. PICK q \in Corners : y = [k |-> 0, c |-> q]
  BY PhaseForm
<1>3. Times(x, y) = IF x = One THEN y ELSE IF y = One THEN x
                    ELSE Lowest(0 + 0, QMul(p, q))
  BY <1>1, <1>2 DEF Times
<1>4. 0 + 0 = 0
  OBVIOUS
<1>5. Lowest(0, QMul(p, q)) \in Phases
  BY CornersClosed, LowestAtZero DEF Phases
<1>6. QED
  BY <1>3, <1>4, <1>5

\* A power of exp(i pi/4) has modulus 1.
LEMMA PhaseNorm ==
  ASSUME NEW x \in Phases
  PROVE  Norm2(x) = One
<1>1. PICK p \in Corners : x = [k |-> 0, c |-> p]
  BY PhaseForm
<1> DEFINE q == <<p[1], -p[4], -p[3], -p[2]>>
<1>2. Conj(x) = [k |-> 0, c |-> q]
  BY <1>1 DEF Conj, QConj
<1>3. p \in Corners /\ q \in Corners
  BY DEF Corners
<1>4. QMul(p, q) = <<1, 0, 0, 0>>
  BY DEF Corners, QMul
<1> HIDE DEF q
<1>5. Times(x, Conj(x)) = IF x = One THEN Conj(x) ELSE IF Conj(x) = One THEN x
                          ELSE Lowest(0 + 0, QMul(p, q))
  BY <1>1, <1>2 DEF Times
<1>6. Lowest(0 + 0, QMul(p, q)) = One
  BY <1>4, LowestAtZero DEF One, Int2Amp
<1>7. x = One => Conj(x) = One
  BY DEF One, Int2Amp, Conj, QConj
<1>8. Conj(x) = One => x = One
  <2>1. q = <<1, 0, 0, 0>> => p = <<1, 0, 0, 0>>
    BY <1>3 DEF q, Corners
  <2>2. QED
    BY <1>1, <1>2, <2>1 DEF One, Int2Amp
<1>9. QED
  BY <1>5, <1>6, <1>7, <1>8 DEF Norm2

LEMMA SignPhase ==
  ASSUME NEW b
  PROVE  Sign(b) \in Phases
BY SmallPhases DEF Sign

LEMMA PowIPhase ==
  ASSUME NEW k \in Int
  PROVE  PowI(k) \in Phases
BY EiPhase DEF PowI

\* The scalar of H on a wire where both legs are the same string.
LEMMA LowestAtOne ==
  ASSUME NEW c \in {<<1, 0, 1, 0>>, <<1, 0, -1, 0>>, <<-1, 0, 1, 0>>, <<-1, 0, -1, 0>>}
  PROVE  Lowest(1, c) \in Phases
<1> DEFINE Body(x) ==
            LET r == TimesRoot2(x.c)
            IN  IF ~Reducible(x) THEN x
                ELSE [k |-> x.k - 1,
                      c |-> <<r[1] \div 2, r[2] \div 2, r[3] \div 2, r[4] \div 2>>]
           start == [k |-> 1, c |-> c]
           Divided[j \in 0..1] ==
            IF j = 0 THEN [k |-> 1, c |-> c]
            ELSE LET x == Divided[j - 1]
                     r == TimesRoot2(x.c)
                 IN  IF ~Reducible(x) THEN x
                     ELSE [k |-> x.k - 1,
                           c |-> <<r[1] \div 2, r[2] \div 2, r[3] \div 2, r[4] \div 2>>]
<1>1. Lowest(1, c) = IF c = Nought THEN [k |-> 0, c |-> c] ELSE Divided[1]
  BY DEF Lowest
<1>2. \E f : f = [j \in 0..1 |-> IF j = 0 THEN start ELSE Body(f[j - 1])]
  <2> HIDE DEF Body, start
  <2> DEFINE f == [j \in 0..1 |-> IF j = 0 THEN start ELSE Body(start)]
  <2>1. \A j \in 0..1 : f[j] = IF j = 0 THEN start ELSE Body(f[j - 1])
    <3>1. f[0] = start /\ f[1] = Body(start)
      OBVIOUS
    <3>2. \A j \in 0..1 : j = 0 \/ (j = 1 /\ j - 1 = 0)
      OBVIOUS
    <3> HIDE DEF f
    <3>3. QED
      BY <3>1, <3>2
  <2>2. f = [j \in 0..1 |-> IF j = 0 THEN start ELSE Body(f[j - 1])]
    BY <2>1
  <2>3. QED
    BY <2>2
<1>3. Divided = [j \in 0..1 |-> IF j = 0 THEN start ELSE Body(Divided[j - 1])]
  BY <1>2
<1> HIDE DEF Divided
<1>4. Divided[1] = Body(start)
  <2> HIDE DEF Body, start
  <2>1. Divided[0] = start /\ Divided[1] = Body(Divided[1 - 1]) /\ 1 - 1 = 0
    BY <1>3
  <2>2. QED
    BY <2>1
<1>5. Reducible(start)
  BY DEF Reducible
<1>6. TimesRoot2(c) = <<0, c[1] + c[3], 0, c[3] - c[1]>>
  BY DEF TimesRoot2
<1>7. Body(start) = [k |-> 0, c |-> <<0, (c[1] + c[3]) \div 2, 0, (c[3] - c[1]) \div 2>>]
  BY <1>5, <1>6
<1> HIDE DEF Body, start
<1>8. <<0, (c[1] + c[3]) \div 2, 0, (c[3] - c[1]) \div 2>> \in Corners
  BY DEF Corners
<1>9. c # Nought
  BY DEF Nought
<1>10. QED
  BY <1>1, <1>4, <1>7, <1>8, <1>9 DEF Phases

LEMMA OverSelf ==
  ASSUME NEW c
  PROVE  Over([k |-> 0, c |-> c], 0) = c
<1> DEFINE C[j \in 0..0] == IF j = 0 THEN c ELSE TimesRoot2(C[j - 1])
<1>1. Raise(c, 0) = C[0]
  BY DEF Raise
<1>2. \E f : f = [j \in 0..0 |-> IF j = 0 THEN c ELSE TimesRoot2(f[j - 1])]
  <2> DEFINE f == [j \in 0..0 |-> c]
  <2>1. f = [j \in 0..0 |-> IF j = 0 THEN c ELSE TimesRoot2(f[j - 1])]
    OBVIOUS
  <2>2. QED
    BY <2>1
<1>3. C = [j \in 0..0 |-> IF j = 0 THEN c ELSE TimesRoot2(C[j - 1])]
  BY <1>2
<1> HIDE DEF C
<1>4. C[0] = c
  BY <1>3
<1>5. 0 - 0 = 0
  OBVIOUS
<1>6. QED
  BY <1>1, <1>4, <1>5 DEF Over

RealUnits == {[k |-> 0, c |-> c] : c \in {<<1, 0, 0, 0>>, <<-1, 0, 0, 0>>}}
ImUnits == {[k |-> 0, c |-> c] : c \in {<<0, 0, 1, 0>>, <<0, 0, -1, 0>>}}

LEMMA SignReal ==
  ASSUME NEW b
  PROVE  Sign(b) \in RealUnits
<1>1. One = [k |-> 0, c |-> <<1, 0, 0, 0>>] /\ Neg(One) = [k |-> 0, c |-> <<-1, 0, 0, 0>>]
  BY DEF One, Int2Amp, Neg, QNeg
<1>2. QED
  BY <1>1 DEF Sign, RealUnits

LEMMA OddPowI ==
  ASSUME NEW k \in {1, 3}, NEW b
  PROVE  Times(PowI(k), Sign(b)) \in ImUnits
<1>1. PowI(k) \in ImUnits
  <2>1. k = 1 => Ei(2 * k) = [k |-> 0, c |-> <<0, 0, 1, 0>>]
    BY DEF Ei
  <2>2. k = 3 => Ei(2 * k) = [k |-> 0, c |-> <<0, 0, -1, 0>>]
    BY DEF Ei
  <2>3. QED
    BY <2>1, <2>2 DEF PowI, ImUnits
<1>2. PICK p \in {<<0, 0, 1, 0>>, <<0, 0, -1, 0>>} : PowI(k) = [k |-> 0, c |-> p]
  BY <1>1 DEF ImUnits
<1>3. PICK q \in {<<1, 0, 0, 0>>, <<-1, 0, 0, 0>>} : Sign(b) = [k |-> 0, c |-> q]
  BY SignReal DEF RealUnits
<1>4. PowI(k) # One
  BY <1>2 DEF One, Int2Amp
<1>5. Times(PowI(k), Sign(b)) = IF Sign(b) = One THEN PowI(k)
                                ELSE Lowest(0 + 0, QMul(p, q))
  BY <1>2, <1>3, <1>4 DEF Times
<1>6. QMul(p, q) \in {<<0, 0, 1, 0>>, <<0, 0, -1, 0>>}
  BY DEF QMul
<1>7. Lowest(0 + 0, QMul(p, q)) \in ImUnits
  BY <1>6, LowestAtZero DEF ImUnits
<1>8. QED
  BY <1>1, <1>5, <1>7

LEMMA LegsPhase ==
  ASSUME NEW x \in RealUnits, NEW y \in ImUnits
  PROVE  Times(ISqrt2, Plus(x, y)) \in Phases
<1>1. PICK p \in {<<1, 0, 0, 0>>, <<-1, 0, 0, 0>>} : x = [k |-> 0, c |-> p]
  BY DEF RealUnits
<1>2. PICK q \in {<<0, 0, 1, 0>>, <<0, 0, -1, 0>>} : y = [k |-> 0, c |-> q]
  BY DEF ImUnits
<1> DEFINE c == <<p[1] + q[1], p[2] + q[2], p[3] + q[3], p[4] + q[4]>>
<1>3. c \in {<<1, 0, 1, 0>>, <<1, 0, -1, 0>>, <<-1, 0, 1, 0>>, <<-1, 0, -1, 0>>}
  OBVIOUS
<1>4. x # Zero /\ y # Zero
  BY <1>1, <1>2 DEF Zero, Int2Amp
<1>5. x.k = 0 /\ y.k = 0 /\ Over(x, 0) = p /\ Over(y, 0) = q
  BY <1>1, <1>2, OverSelf
<1>6. Plus(x, y) = Lowest(0, c)
  BY <1>4, <1>5 DEF Plus, SumAt, QAdd
<1> HIDE DEF c
<1>7. Plus(x, y) = [k |-> 0, c |-> c]
  BY <1>6, LowestAtZero
<1>8. ISqrt2 # One /\ Plus(x, y) # One
  BY <1>3, <1>7 DEF ISqrt2, One, Int2Amp
<1>9. Times(ISqrt2, Plus(x, y)) = Lowest(1 + 0, QMul(<<1, 0, 0, 0>>, c))
  BY <1>7, <1>8 DEF Times, ISqrt2
<1>10. QMul(<<1, 0, 0, 0>>, c) = c
  BY <1>3 DEF QMul
<1>11. QED
  BY <1>3, <1>9, <1>10, LowestAtOne

-----------------------------------------------------------------------------
(* Rows and parities.                                                      *)

LEMMA DotAdd ==
  ASSUME NEW S \in SUBSET Qubits, NEW T \in SUBSET Qubits, NEW U \in SUBSET Qubits
  PROVE  /\ Dot(SymDiff(S, T), U) <=> ~(Dot(S, U) <=> Dot(T, U))
         /\ Dot(U, SymDiff(S, T)) <=> ~(Dot(U, S) <=> Dot(U, T))
         /\ SymDiff(S, T) \in SUBSET Qubits
<1>1. SymDiff(S, T) \cap U = SymDiff(S \cap U, T \cap U)
  BY DEF SymDiff
<1>2. U \cap SymDiff(S, T) = SymDiff(U \cap S, U \cap T)
  BY DEF SymDiff
<1>3. /\ IsFiniteSet(S \cap U) /\ IsFiniteSet(T \cap U)
      /\ IsFiniteSet(U \cap S) /\ IsFiniteSet(U \cap T)
  BY FiniteQubits
<1>4. Odd(SymDiff(S \cap U, T \cap U)) <=> ~(Odd(S \cap U) <=> Odd(T \cap U))
  BY <1>3, OddSymDiff
<1>5. Odd(SymDiff(U \cap S, U \cap T)) <=> ~(Odd(U \cap S) <=> Odd(U \cap T))
  BY <1>3, OddSymDiff
<1>6. SymDiff(S, T) \in SUBSET Qubits
  BY DEF SymDiff
<1>7. QED
  BY <1>1, <1>2, <1>4, <1>5, <1>6 DEF Dot

LEMMA DotOne ==
  ASSUME NEW S, NEW q
  PROVE  /\ Dot({q}, S) <=> q \in S
         /\ Dot(S, {q}) <=> q \in S
<1>1. CASE q \in S
  <2>1. {q} \cap S = {q} /\ S \cap {q} = {q}
    BY <1>1
  <2>2. QED
    BY <1>1, <2>1, OddOne DEF Dot
<1>2. CASE q \notin S
  <2>1. {q} \cap S = {} /\ S \cap {q} = {}
    BY <1>2
  <2>2. QED
    BY <1>2, <2>1, OddEmpty DEF Dot
<1>3. QED
  BY <1>1, <1>2

LEMMA DotSwap ==
  ASSUME NEW S, NEW T
  PROVE  Dot(S, T) <=> Dot(T, S)
<1>1. S \cap T = T \cap S
  OBVIOUS
<1>2. QED
  BY <1>1 DEF Dot

LEMMA RowType ==
  ASSUME NEW R, NEW p
  PROVE  Row(R, p) \in SUBSET Qubits
BY DEF Row

LEMMA RowAdd ==
  ASSUME NEW R \in Relations, NEW p \in Qubits, NEW S \in SUBSET Qubits
  PROVE  /\ AddRow(R, p, S) \in Relations
         /\ \A r \in Qubits : Row(AddRow(R, p, S), r) =
              IF r = p THEN SymDiff(Row(R, p), S) ELSE Row(R, r)
<1>1. AddRow(R, p, S) \in Relations
  BY DEF AddRow, Relations, SymDiff
<1>2. ASSUME NEW r \in Qubits
      PROVE  Row(AddRow(R, p, S), r) = IF r = p THEN SymDiff(Row(R, p), S) ELSE Row(R, r)
  <2>1. \A q \in Qubits : <<r, q>> \in {p} \X S <=> r = p /\ q \in S
    OBVIOUS
  <2>2. \A q \in Qubits : <<r, q>> \in AddRow(R, p, S) <=>
                            ~(<<r, q>> \in R <=> (r = p /\ q \in S))
    BY <2>1 DEF AddRow, SymDiff
  <2>3. QED
    BY <2>2 DEF Row, SymDiff
<1>3. QED
  BY <1>1, <1>2

LEMMA ColumnAdd ==
  ASSUME NEW R \in Relations, NEW A \in SUBSET Qubits, NEW q \in Qubits
  PROVE  /\ SymDiff(R, A \X {q}) \in Relations
         /\ \A p \in Qubits : Row(SymDiff(R, A \X {q}), p) =
              IF p \in A THEN SymDiff(Row(R, p), {q}) ELSE Row(R, p)
<1>1. SymDiff(R, A \X {q}) \in Relations
  BY DEF Relations, SymDiff
<1>2. ASSUME NEW p \in Qubits
      PROVE  Row(SymDiff(R, A \X {q}), p) = IF p \in A THEN SymDiff(Row(R, p), {q}) ELSE Row(R, p)
  <2>1. \A r \in Qubits : <<p, r>> \in A \X {q} <=> p \in A /\ r = q
    OBVIOUS
  <2>2. \A r \in Qubits : <<p, r>> \in SymDiff(R, A \X {q}) <=>
                            ~(<<p, r>> \in R <=> (p \in A /\ r = q))
    BY <2>1 DEF SymDiff
  <2>3. QED
    BY <2>2 DEF Row, SymDiff
<1>3. QED
  BY <1>1, <1>2

-----------------------------------------------------------------------------
(* Gates on the left: rows.                                                *)

LEMMA PhaseShiftLaws ==
  ASSUME NEW F \in Relations, NEW G \in Relations, NEW M \in Relations,
         NEW gamma \in [Qubits -> 0..3], Laws(F, G, M, gamma),
         NEW q \in Qubits, NEW k \in {1, 3}
  PROVE  Laws(F, G, AddRow(M, q, Row(G, q)), [gamma EXCEPT ![q] = (@ + k) % 4])
<1> DEFINE M2 == AddRow(M, q, Row(G, q))
           g2 == [gamma EXCEPT ![q] = (@ + k) % 4]
<1>1. \A r \in Qubits : Row(M2, r) = IF r = q THEN SymDiff(Row(M, q), Row(G, q)) ELSE Row(M, r)
  BY RowAdd, RowType
<1>2. /\ \A r \in Qubits : r # q => g2[r] = gamma[r]
      /\ g2[q] = (gamma[q] + k) % 4 /\ gamma[q] \in 0..3
  OBVIOUS
<1> HIDE DEF M2, g2
<1>3. \A p \in Qubits : Dot(Row(F, p), Row(M2, q)) <=>
                          ~(Dot(Row(F, p), Row(M, q)) <=> p = q)
  <2> TAKE p \in Qubits
  <2>1. Dot(Row(F, p), SymDiff(Row(M, q), Row(G, q))) <=>
          ~(Dot(Row(F, p), Row(M, q)) <=> Dot(Row(F, p), Row(G, q)))
    BY RowType, DotAdd
  <2>2. QED
    BY <1>1, <2>1 DEF Laws, Dual
<1>4. Even(F, M2, g2)
  <2> SUFFICES ASSUME NEW p \in Qubits
               PROVE  Dot(Row(F, p), Row(M2, p)) <=> g2[p] % 2 = 1
    BY DEF Even
  <2>1. CASE p = q
    <3>1. g2[q] % 2 = 1 <=> ~(gamma[q] % 2 = 1)
      BY <1>2
    <3>2. QED
      BY <1>3, <2>1, <3>1 DEF Laws, Even
  <2>2. CASE p # q
    BY <1>1, <1>2, <2>2 DEF Laws, Even
  <2>3. QED
    BY <2>1, <2>2
<1>5. Symmetric(F, M2)
  BY <1>1, <1>3 DEF Laws, Symmetric
<1>6. QED
  BY <1>4, <1>5 DEF Laws, M2, g2

LEMMA CzLaws ==
  ASSUME NEW F \in Relations, NEW G \in Relations, NEW M \in Relations,
         NEW gamma \in [Qubits -> 0..3], Laws(F, G, M, gamma),
         NEW a \in Qubits, NEW b \in Qubits, a # b
  PROVE  Laws(F, G, AddRow(AddRow(M, a, Row(G, b)), b, Row(G, a)), gamma)
<1> DEFINE M1 == AddRow(M, a, Row(G, b))
           M2 == AddRow(M1, b, Row(G, a))
<1>1. /\ M1 \in Relations
      /\ \A r \in Qubits : Row(M1, r) = IF r = a THEN SymDiff(Row(M, a), Row(G, b)) ELSE Row(M, r)
  BY RowAdd, RowType
<1> HIDE DEF M1
<1>2. \A r \in Qubits : Row(M2, r) = IF r = b THEN SymDiff(Row(M1, b), Row(G, a)) ELSE Row(M1, r)
  BY <1>1, RowAdd, RowType
<1> HIDE DEF M2
<1>3. \A p \in Qubits : Dot(Row(F, p), Row(M2, a)) <=>
                          ~(Dot(Row(F, p), Row(M, a)) <=> p = b)
  <2> TAKE p \in Qubits
  <2>1. Dot(Row(F, p), SymDiff(Row(M, a), Row(G, b))) <=>
          ~(Dot(Row(F, p), Row(M, a)) <=> Dot(Row(F, p), Row(G, b)))
    BY RowType, DotAdd
  <2>2. QED
    BY <1>1, <1>2, <2>1 DEF Laws, Dual
<1>4. \A p \in Qubits : Dot(Row(F, p), Row(M2, b)) <=>
                          ~(Dot(Row(F, p), Row(M, b)) <=> p = a)
  <2> TAKE p \in Qubits
  <2>1. Dot(Row(F, p), SymDiff(Row(M, b), Row(G, a))) <=>
          ~(Dot(Row(F, p), Row(M, b)) <=> Dot(Row(F, p), Row(G, a)))
    BY RowType, DotAdd
  <2>2. QED
    BY <1>1, <1>2, <2>1 DEF Laws, Dual
<1>5. \A r \in Qubits : r # a /\ r # b => Row(M2, r) = Row(M, r)
  BY <1>1, <1>2
<1>6. Even(F, M2, gamma)
  BY <1>3, <1>4, <1>5 DEF Laws, Even
<1>7. Symmetric(F, M2)
  <2> SUFFICES ASSUME NEW p \in Qubits, NEW r \in Qubits
               PROVE  Dot(Row(F, p), Row(M2, r)) <=> Dot(Row(F, r), Row(M2, p))
    BY DEF Symmetric
  <2>1. Dot(Row(F, p), Row(M2, r)) <=>
          ~(Dot(Row(F, p), Row(M, r)) <=> ((p = b /\ r = a) \/ (p = a /\ r = b)))
    BY <1>3, <1>4, <1>5
  <2>2. Dot(Row(F, r), Row(M2, p)) <=>
          ~(Dot(Row(F, r), Row(M, p)) <=> ((r = b /\ p = a) \/ (r = a /\ p = b)))
    BY <1>3, <1>4, <1>5
  <2>3. QED
    BY <2>1, <2>2 DEF Laws, Symmetric
<1>8. QED
  BY <1>6, <1>7 DEF Laws, M1, M2

\* e: what CX adds to the power of i, even.
LEMMA CxLaws ==
  ASSUME NEW F \in Relations, NEW G \in Relations, NEW M \in Relations,
         NEW gamma \in [Qubits -> 0..3], Laws(F, G, M, gamma),
         NEW c \in Qubits, NEW t \in Qubits, c # t,
         NEW e \in Int, e % 2 = 0
  PROVE  Laws(AddRow(F, c, Row(F, t)), AddRow(G, t, Row(G, c)), AddRow(M, c, Row(M, t)),
              [gamma EXCEPT ![c] = (@ + gamma[t] + e) % 4])
<1> DEFINE F2 == AddRow(F, c, Row(F, t))
           G2 == AddRow(G, t, Row(G, c))
           M2 == AddRow(M, c, Row(M, t))
           g2 == [gamma EXCEPT ![c] = (@ + gamma[t] + e) % 4]
<1>1. \A r \in Qubits : Row(F2, r) = IF r = c THEN SymDiff(Row(F, c), Row(F, t)) ELSE Row(F, r)
  BY RowAdd, RowType
<1>2. \A r \in Qubits : Row(G2, r) = IF r = t THEN SymDiff(Row(G, t), Row(G, c)) ELSE Row(G, r)
  BY RowAdd, RowType
<1>3. \A r \in Qubits : Row(M2, r) = IF r = c THEN SymDiff(Row(M, c), Row(M, t)) ELSE Row(M, r)
  BY RowAdd, RowType
<1>4. /\ \A r \in Qubits : r # c => g2[r] = gamma[r]
      /\ g2[c] = (gamma[c] + gamma[t] + e) % 4 /\ gamma[c] \in 0..3 /\ gamma[t] \in 0..3
  OBVIOUS
<1> HIDE DEF F2, G2, M2, g2
<1>5. \A S \in SUBSET Qubits : Dot(Row(F2, c), S) <=>
                                 ~(Dot(Row(F, c), S) <=> Dot(Row(F, t), S))
  BY <1>1, RowType, DotAdd
<1>6. \A S \in SUBSET Qubits : Dot(S, Row(G2, t)) <=>
                                 ~(Dot(S, Row(G, t)) <=> Dot(S, Row(G, c)))
  BY <1>2, RowType, DotAdd
<1>7. \A S \in SUBSET Qubits : Dot(S, Row(M2, c)) <=>
                                 ~(Dot(S, Row(M, c)) <=> Dot(S, Row(M, t)))
  BY <1>3, RowType, DotAdd
<1>8. Dual(F2, G2)
  <2> SUFFICES ASSUME NEW p \in Qubits, NEW r \in Qubits
               PROVE  Dot(Row(F2, p), Row(G2, r)) <=> p = r
    BY DEF Dual
  <2>1. \A x \in Qubits, y \in Qubits : Dot(Row(F, x), Row(G, y)) <=> x = y
    BY DEF Laws, Dual
  <2>2. \A x \in Qubits : Dot(Row(F, x), Row(G2, r)) <=> (x = r \/ (r = t /\ x = c))
    <3>1. \A x \in Qubits : Dot(Row(F, x), Row(G2, t)) <=> ~(x = t <=> x = c)
      BY <1>6, <2>1, RowType
    <3>2. CASE r = t
      BY <3>1, <3>2
    <3>3. CASE r # t
      BY <1>2, <2>1, <3>3
    <3>4. QED
      BY <3>2, <3>3
  <2>3. Dot(Row(F2, c), Row(G2, r)) <=> ~(Dot(Row(F, c), Row(G2, r)) <=> Dot(Row(F, t), Row(G2, r)))
    BY <1>5, RowType
  <2>4. Dot(Row(F2, c), Row(G2, r)) <=> c = r
    BY <2>2, <2>3
  <2>5. p # c => (Dot(Row(F2, p), Row(G2, r)) <=> p = r)
    BY <1>1, <2>2
  <2>6. QED
    BY <2>4, <2>5
<1>9. Dot(Row(F2, c), Row(M2, c)) <=> g2[c] % 2 = 1
  <2>1. Dot(Row(F2, c), Row(M2, c)) <=> ~(Dot(Row(F, c), Row(M2, c)) <=> Dot(Row(F, t), Row(M2, c)))
    BY <1>5, RowType
  <2>2. Dot(Row(F, c), Row(M2, c)) <=> ~(Dot(Row(F, c), Row(M, c)) <=> Dot(Row(F, c), Row(M, t)))
    BY <1>7, RowType
  <2>3. Dot(Row(F, t), Row(M2, c)) <=> ~(Dot(Row(F, t), Row(M, c)) <=> Dot(Row(F, t), Row(M, t)))
    BY <1>7, RowType
  <2>4. Dot(Row(F, c), Row(M, t)) <=> Dot(Row(F, t), Row(M, c))
    BY DEF Laws, Symmetric
  <2>5. /\ Dot(Row(F, c), Row(M, c)) <=> gamma[c] % 2 = 1
        /\ Dot(Row(F, t), Row(M, t)) <=> gamma[t] % 2 = 1
    BY DEF Laws, Even
  <2>6. g2[c] % 2 = 1 <=> ~(gamma[c] % 2 = 1 <=> gamma[t] % 2 = 1)
    BY <1>4
  <2>7. QED
    BY <2>1, <2>2, <2>3, <2>4, <2>5, <2>6
<1>10. Even(F2, M2, g2)
  <2> SUFFICES ASSUME NEW p \in Qubits
               PROVE  Dot(Row(F2, p), Row(M2, p)) <=> g2[p] % 2 = 1
    BY DEF Even
  <2>1. p # c => (Dot(Row(F2, p), Row(M2, p)) <=> g2[p] % 2 = 1)
    BY <1>1, <1>3, <1>4 DEF Laws, Even
  <2>2. QED
    BY <1>9, <2>1
<1>11. \A p \in Qubits : p # c => (Dot(Row(F2, c), Row(M2, p)) <=> Dot(Row(F2, p), Row(M2, c)))
  <2> SUFFICES ASSUME NEW p \in Qubits, p # c
               PROVE  Dot(Row(F2, c), Row(M2, p)) <=> Dot(Row(F2, p), Row(M2, c))
    OBVIOUS
  <2>1. Row(M2, p) = Row(M, p) /\ Row(F2, p) = Row(F, p)
    BY <1>1, <1>3
  <2>2. Dot(Row(F2, c), Row(M, p)) <=> ~(Dot(Row(F, c), Row(M, p)) <=> Dot(Row(F, t), Row(M, p)))
    BY <1>5, RowType
  <2>3. Dot(Row(F, p), Row(M2, c)) <=> ~(Dot(Row(F, p), Row(M, c)) <=> Dot(Row(F, p), Row(M, t)))
    BY <1>7, RowType
  <2>4. /\ Dot(Row(F, c), Row(M, p)) <=> Dot(Row(F, p), Row(M, c))
        /\ Dot(Row(F, t), Row(M, p)) <=> Dot(Row(F, p), Row(M, t))
    BY DEF Laws, Symmetric
  <2>5. QED
    BY <2>1, <2>2, <2>3, <2>4
<1>12. Symmetric(F2, M2)
  <2> SUFFICES ASSUME NEW p \in Qubits, NEW r \in Qubits
               PROVE  Dot(Row(F2, p), Row(M2, r)) <=> Dot(Row(F2, r), Row(M2, p))
    BY DEF Symmetric
  <2>1. CASE p = c \/ r = c
    BY <1>11, <2>1
  <2>2. CASE p # c /\ r # c
    BY <1>1, <1>3, <2>2 DEF Laws, Symmetric
  <2>3. QED
    BY <2>1, <2>2
<1>13. QED
  BY <1>8, <1>10, <1>12 DEF Laws, F2, G2, M2, g2

-----------------------------------------------------------------------------
(* Gates on the right: columns.                                            *)

LEMMA ColumnOf ==
  ASSUME NEW R, NEW q
  PROVE  Column(R, q) \in SUBSET Qubits /\ \A p \in Qubits : p \in Column(R, q) <=> <<p, q>> \in R
BY DEF Column

\* One wire more in a row.
LEMMA DotToggle ==
  ASSUME NEW S \in SUBSET Qubits, NEW T \in SUBSET Qubits, NEW q \in Qubits
  PROVE  /\ SymDiff(S, {q}) \in SUBSET Qubits
         /\ Dot(SymDiff(S, {q}), T) <=> ~(Dot(S, T) <=> q \in T)
         /\ Dot(T, SymDiff(S, {q})) <=> ~(Dot(T, S) <=> q \in T)
<1>1. {q} \in SUBSET Qubits
  OBVIOUS
<1>2. /\ Dot(SymDiff(S, {q}), T) <=> ~(Dot(S, T) <=> Dot({q}, T))
      /\ Dot(T, SymDiff(S, {q})) <=> ~(Dot(T, S) <=> Dot(T, {q}))
      /\ SymDiff(S, {q}) \in SUBSET Qubits
  BY <1>1, DotAdd
<1>3. QED
  BY <1>2, DotOne

LEMMA RowMember ==
  ASSUME NEW R, NEW p, NEW q \in Qubits
  PROVE  q \in Row(R, p) <=> <<p, q>> \in R
BY DEF Row

\* A column more or less in M.
LEMMA DotColumn ==
  ASSUME NEW M \in Relations, NEW A \in SUBSET Qubits, NEW q \in Qubits, NEW r \in Qubits
  PROVE  \A S \in SUBSET Qubits :
           Dot(S, Row(SymDiff(M, A \X {q}), r)) <=> ~(Dot(S, Row(M, r)) <=> (r \in A /\ q \in S))
<1> TAKE S \in SUBSET Qubits
<1>1. Row(SymDiff(M, A \X {q}), r) = IF r \in A THEN SymDiff(Row(M, r), {q}) ELSE Row(M, r)
  BY ColumnAdd
<1>2. Dot(S, SymDiff(Row(M, r), {q})) <=> ~(Dot(S, Row(M, r)) <=> q \in S)
  BY RowType, DotToggle
<1>3. QED
  BY <1>1, <1>2

LEMMA RightSLaws ==
  ASSUME NEW F \in Relations, NEW G \in Relations, NEW M \in Relations,
         NEW gamma \in [Qubits -> 0..3], Laws(F, G, M, gamma),
         NEW q \in Qubits
  PROVE  Laws(F, G, SymDiff(M, Column(F, q) \X {q}),
              [p \in Qubits |-> IF p \in Column(F, q) THEN (gamma[p] + 3) % 4 ELSE gamma[p]])
<1> DEFINE hit == Column(F, q)
           M2 == SymDiff(M, hit \X {q})
           g2 == [p \in Qubits |-> IF p \in hit THEN (gamma[p] + 3) % 4 ELSE gamma[p]]
<1>1. hit \in SUBSET Qubits /\ \A p \in Qubits : p \in hit <=> q \in Row(F, p)
  BY ColumnOf, RowMember
<1> HIDE DEF hit
<1>2. \A p, r \in Qubits : Dot(Row(F, p), Row(M2, r)) <=>
                             ~(Dot(Row(F, p), Row(M, r)) <=> (r \in hit /\ p \in hit))
  BY <1>1, RowType, DotColumn
<1>3. \A p \in Qubits : g2[p] % 2 = 1 <=> ~(gamma[p] % 2 = 1 <=> p \in hit)
  <2> TAKE p \in Qubits
  <2>1. gamma[p] \in 0..3 /\ g2[p] = IF p \in hit THEN (gamma[p] + 3) % 4 ELSE gamma[p]
    OBVIOUS
  <2>2. QED
    BY <2>1
<1> HIDE DEF M2, g2
<1>4. Even(F, M2, g2)
  BY <1>2, <1>3 DEF Laws, Even
<1>5. Symmetric(F, M2)
  BY <1>2 DEF Laws, Symmetric
<1>6. QED
  BY <1>4, <1>5 DEF Laws, M2, g2, hit

LEMMA RightCzLaws ==
  ASSUME NEW F \in Relations, NEW G \in Relations, NEW M \in Relations,
         NEW gamma \in [Qubits -> 0..3], Laws(F, G, M, gamma),
         NEW q \in Qubits, NEW r \in Qubits
  PROVE  Laws(F, G, SymDiff(SymDiff(M, Column(F, q) \X {r}), Column(F, r) \X {q}),
              [p \in Qubits |-> IF p \in Column(F, q) \cap Column(F, r)
                                THEN (gamma[p] + 2) % 4 ELSE gamma[p]])
<1> DEFINE fq == Column(F, q)
           fr == Column(F, r)
           M1 == SymDiff(M, fq \X {r})
           M2 == SymDiff(M1, fr \X {q})
           g2 == [p \in Qubits |-> IF p \in fq \cap fr THEN (gamma[p] + 2) % 4 ELSE gamma[p]]
<1>1. /\ fq \in SUBSET Qubits /\ \A p \in Qubits : p \in fq <=> q \in Row(F, p)
      /\ fr \in SUBSET Qubits /\ \A p \in Qubits : p \in fr <=> r \in Row(F, p)
  BY ColumnOf, RowMember
<1> HIDE DEF fq, fr
<1>2. M1 \in Relations
  BY <1>1, ColumnAdd
<1>3. \A p, x \in Qubits : Dot(Row(F, p), Row(M1, x)) <=>
                             ~(Dot(Row(F, p), Row(M, x)) <=> (x \in fq /\ p \in fr))
  BY <1>1, RowType, DotColumn
<1> HIDE DEF M1
<1>4. \A p, x \in Qubits : Dot(Row(F, p), Row(M2, x)) <=>
                             ~(Dot(Row(F, p), Row(M1, x)) <=> (x \in fr /\ p \in fq))
  BY <1>1, <1>2, RowType, DotColumn
<1>5. \A p \in Qubits : g2[p] % 2 = 1 <=> gamma[p] % 2 = 1
  <2> TAKE p \in Qubits
  <2>1. gamma[p] \in 0..3 /\ g2[p] = IF p \in fq \cap fr THEN (gamma[p] + 2) % 4 ELSE gamma[p]
    OBVIOUS
  <2>2. QED
    BY <2>1
<1> HIDE DEF M2, g2
<1>6. Even(F, M2, g2)
  BY <1>3, <1>4, <1>5 DEF Laws, Even
<1>7. Symmetric(F, M2)
  BY <1>3, <1>4 DEF Laws, Symmetric
<1>8. QED
  BY <1>6, <1>7 DEF Laws, M1, M2, g2, fq, fr

\* Against a G or M that loses wire c where it has wire t, an F that gains wire
\* t where it has wire c keeps its parity.
LEMMA DotSlide ==
  ASSUME NEW F \in Relations, NEW R \in Relations, NEW c \in Qubits, NEW t \in Qubits, c # t,
         NEW p \in Qubits, NEW r \in Qubits
  PROVE  Dot(Row(SymDiff(F, Column(F, c) \X {t}), p), Row(SymDiff(R, Column(R, t) \X {c}), r))
           <=> Dot(Row(F, p), Row(R, r))
<1> DEFINE A == Column(F, c)
           B == Column(R, t)
           f == Row(F, p)
           g == Row(R, r)
           f2 == Row(SymDiff(F, A \X {t}), p)
           g2 == Row(SymDiff(R, B \X {c}), r)
<1>1. /\ A \in SUBSET Qubits /\ (p \in A <=> c \in f)
      /\ B \in SUBSET Qubits /\ (r \in B <=> t \in g)
  BY ColumnOf, RowMember
<1> HIDE DEF A, B
<1>2. f2 = IF p \in A THEN SymDiff(f, {t}) ELSE f
  BY <1>1, ColumnAdd
<1>3. g2 = IF r \in B THEN SymDiff(g, {c}) ELSE g
  BY <1>1, ColumnAdd
<1>4. f \in SUBSET Qubits /\ g \in SUBSET Qubits /\ g2 \in SUBSET Qubits
  BY RowType
<1> HIDE DEF f, g, f2, g2
<1>5. Dot(f2, g2) <=> ~(Dot(f, g2) <=> (p \in A /\ t \in g2))
  <2>1. Dot(SymDiff(f, {t}), g2) <=> ~(Dot(f, g2) <=> t \in g2)
    BY <1>4, DotToggle
  <2>2. QED
    BY <1>2, <2>1
<1>6. Dot(f, g2) <=> ~(Dot(f, g) <=> (r \in B /\ c \in f))
  <2>1. Dot(f, SymDiff(g, {c})) <=> ~(Dot(f, g) <=> c \in f)
    BY <1>4, DotToggle
  <2>2. QED
    BY <1>3, <2>1
<1>7. t \in g2 <=> t \in g
  BY <1>3 DEF SymDiff
<1>8. Dot(f2, g2) <=> Dot(f, g)
  BY <1>1, <1>5, <1>6, <1>7
<1>9. QED
  BY <1>8 DEF A, B, f, g, f2, g2

LEMMA RightCxLaws ==
  ASSUME NEW F \in Relations, NEW G \in Relations, NEW M \in Relations,
         NEW gamma \in [Qubits -> 0..3], Laws(F, G, M, gamma),
         NEW c \in Qubits, NEW t \in Qubits, c # t
  PROVE  Laws(SymDiff(F, Column(F, c) \X {t}), SymDiff(G, Column(G, t) \X {c}),
              SymDiff(M, Column(M, t) \X {c}), gamma)
<1> DEFINE F2 == SymDiff(F, Column(F, c) \X {t})
           G2 == SymDiff(G, Column(G, t) \X {c})
           M2 == SymDiff(M, Column(M, t) \X {c})
<1>1. \A p, r \in Qubits : Dot(Row(F2, p), Row(G2, r)) <=> Dot(Row(F, p), Row(G, r))
  BY DotSlide
<1>2. \A p, r \in Qubits : Dot(Row(F2, p), Row(M2, r)) <=> Dot(Row(F, p), Row(M, r))
  BY DotSlide
<1> HIDE DEF F2, G2, M2
<1>3. Dual(F2, G2)
  BY <1>1 DEF Laws, Dual
<1>4. Even(F2, M2, gamma)
  BY <1>2 DEF Laws, Even
<1>5. Symmetric(F2, M2)
  BY <1>2 DEF Laws, Symmetric
<1>6. QED
  BY <1>3, <1>4, <1>5 DEF Laws, F2, G2, M2

-----------------------------------------------------------------------------
(* The gates keep a branch lawful.                                         *)

LEMMA LawfulParts ==
  ASSUME NEW st \in Lawful
  PROVE  /\ st \in Forms
         /\ st.F \in Relations /\ st.G \in Relations /\ st.M \in Relations
         /\ st.gamma \in [Qubits -> 0..3] /\ st.v \in SUBSET Qubits /\ st.s \in SUBSET Qubits
         /\ st.om \in Phases /\ Laws(st.F, st.G, st.M, st.gamma)
BY DEF Lawful, Forms

LEMMA PhaseShiftLawful ==
  ASSUME NEW st \in Lawful, NEW q \in Qubits, NEW k \in {1, 3}
  PROVE  PhaseShift(st, q, k) \in Lawful
<1> DEFINE y == PhaseShift(st, q, k)
           g2 == [st.gamma EXCEPT ![q] = (@ + k) % 4]
           M2 == AddRow(st.M, q, Row(st.G, q))
<1>1. st \in Forms /\ Laws(st.F, st.G, M2, g2)
  BY LawfulParts, PhaseShiftLaws
<1>2. M2 \in Relations
  BY LawfulParts, RowType, RowAdd
<1>3. g2 \in [Qubits -> 0..3]
  BY LawfulParts
<1> HIDE DEF M2, g2
<1>4. y = [st EXCEPT !.gamma = g2, !.M = M2]
  BY <1>1 DEF PhaseShift, g2, M2, Forms
<1> HIDE DEF y
<1>5. y \in Forms /\ y.F = st.F /\ y.G = st.G /\ y.M = M2 /\ y.gamma = g2
  BY <1>1, <1>2, <1>3, <1>4 DEF Forms
<1>6. y \in Lawful
  BY <1>1, <1>5 DEF Lawful
<1>7. QED
  BY <1>6 DEF y

-----------------------------------------------------------------------------
(* The phase of a product, without the i of each Y, is a sign.             *)

LEMMA PairOfTests ==
  ASSUME NEW q, NEW a, NEW b, NEW c \in BOOLEAN, NEW d \in BOOLEAN
  PROVE  <<q \in a, q \in b>> = <<c, d>> <=> ((q \in a <=> c) /\ (q \in b <=> d))
OBVIOUS

LEMMA PhaseTable ==
  ASSUME NEW q, NEW a, NEW b, NEW f, NEW m
  PROVE  /\ pauli_mult_phase(q \in a, q \in b, q \in f, q \in m) =
             IF \/ q \in a /\ q \notin b /\ q \notin f /\ q \in m
                \/ q \in a /\ q \in b /\ q \in f /\ q \notin m
                \/ q \notin a /\ q \in b /\ q \in f /\ q \in m
             THEN 3
             ELSE IF \/ q \notin a /\ q \in b /\ q \in f /\ q \notin m
                     \/ q \in a /\ q \notin b /\ q \in f /\ q \in m
                     \/ q \in a /\ q \in b /\ q \notin f /\ q \in m
             THEN 1 ELSE 0
<1> DEFINE u == <<q \in a, q \in b>>
           w == <<q \in f, q \in m>>
           X == <<TRUE, FALSE>>
           Y == <<TRUE, TRUE>>
           Z == <<FALSE, TRUE>>
<1>1. pauli_mult_phase(q \in a, q \in b, q \in f, q \in m) =
        IF <<u, w>> \in {<<X, Z>>, <<Y, X>>, <<Z, Y>>} THEN 3
        ELSE IF <<u, w>> \in {<<Z, X>>, <<X, Y>>, <<Y, Z>>} THEN 1
        ELSE 0
  BY DEF pauli_mult_phase
<1>2. /\ u = X <=> (q \in a /\ q \notin b)
      /\ u = Y <=> (q \in a /\ q \in b)
      /\ u = Z <=> (q \notin a /\ q \in b)
  BY PairOfTests
<1>3. /\ w = X <=> (q \in f /\ q \notin m)
      /\ w = Y <=> (q \in f /\ q \in m)
      /\ w = Z <=> (q \notin f /\ q \in m)
  BY PairOfTests
<1> HIDE DEF u, w, X, Y, Z
<1>4. /\ <<u, w>> \in {<<X, Z>>, <<Y, X>>, <<Z, Y>>} <=>
           ((u = X /\ w = Z) \/ (u = Y /\ w = X) \/ (u = Z /\ w = Y))
      /\ <<u, w>> \in {<<Z, X>>, <<X, Y>>, <<Y, Z>>} <=>
           ((u = Z /\ w = X) \/ (u = X /\ w = Y) \/ (u = Y /\ w = Z))
  OBVIOUS
<1>5. QED
  BY <1>1, <1>2, <1>3, <1>4

LEMMA BitDiffer ==
  ASSUME NEW q, NEW a, NEW f
  PROVE  Bit((q \in a) # (q \in f)) = IF (q \in a <=> q \in f) THEN 0 ELSE 1
BY DEF Bit

LEMMA BitIn ==
  ASSUME NEW q, NEW a
  PROVE  Bit(q \in a) = IF q \in a THEN 1 ELSE 0
BY DEF Bit

LEMMA PlainMultEven ==
  ASSUME NEW q, NEW a, NEW b, NEW f, NEW m
  PROVE  plain_mult_phase(q \in a, q \in b, q \in f, q \in m) \in {0, 2}
<1> DEFINE x == Bit(q \in a)
           y == Bit(q \in b)
           u == Bit(q \in f)
           w == Bit(q \in m)
           pm == pauli_mult_phase(q \in a, q \in b, q \in f, q \in m)
           xu == Bit((q \in a) # (q \in f))
           yw == Bit((q \in b) # (q \in m))
<1>1. plain_mult_phase(q \in a, q \in b, q \in f, q \in m) = (pm + xu * yw - x * y - u * w) % 4
  BY DEF plain_mult_phase
<1>2. /\ x = (IF q \in a THEN 1 ELSE 0) /\ y = (IF q \in b THEN 1 ELSE 0)
      /\ u = (IF q \in f THEN 1 ELSE 0) /\ w = (IF q \in m THEN 1 ELSE 0)
  BY BitIn
<1>3. /\ xu = (IF (q \in a <=> q \in f) THEN 0 ELSE 1)
      /\ yw = (IF (q \in b <=> q \in m) THEN 0 ELSE 1)
  BY BitDiffer
<1>4. pm = IF \/ q \in a /\ q \notin b /\ q \notin f /\ q \in m
              \/ q \in a /\ q \in b /\ q \in f /\ q \notin m
              \/ q \notin a /\ q \in b /\ q \in f /\ q \in m
           THEN 3
           ELSE IF \/ q \notin a /\ q \in b /\ q \in f /\ q \notin m
                   \/ q \in a /\ q \notin b /\ q \in f /\ q \in m
                   \/ q \in a /\ q \in b /\ q \notin f /\ q \in m
           THEN 1 ELSE 0
  BY PhaseTable
<1> HIDE DEF x, y, u, w, xu, yw, pm
<1>5. /\ xu * yw = (IF xu = 1 /\ yw = 1 THEN 1 ELSE 0)
      /\ x * y = (IF x = 1 /\ y = 1 THEN 1 ELSE 0)
      /\ u * w = (IF u = 1 /\ w = 1 THEN 1 ELSE 0)
  BY <1>2, <1>3
<1>6. (pm + xu * yw - x * y - u * w) % 4 \in {0, 2}
  BY <1>2, <1>3, <1>4, <1>5
<1>7. QED
  BY <1>1, <1>6

Evens == {e \in Int : e % 2 = 0}

LEMMA PlainPhaseEven ==
  ASSUME NEW a, NEW b, NEW f0, NEW m
  PROVE  PlainPhase(a, b, f0, m) \in Evens
<1> DEFINE Add(e, q) == e + plain_mult_phase(q \in a, q \in b, q \in f0, q \in m)
<1> DEFINE Next1(k, x) == IF k - 1 \in Qubits THEN Add(x, k - 1) ELSE x
           step == [p \in (1..N) \X Evens |-> Next1(p[1], p[2])]
<1>1. \A k \in 1..N, x \in Evens : Next1(k, x) \in Evens
  <2> TAKE k \in 1..N, x \in Evens
  <2> DEFINE d == plain_mult_phase(k - 1 \in a, k - 1 \in b, k - 1 \in f0, k - 1 \in m)
  <2>1. d \in {0, 2}
    BY PlainMultEven
  <2> HIDE DEF d
  <2>2. x + d \in Evens
    BY <2>1 DEF Evens
  <2>3. QED
    BY <2>2 DEF d
<1>2. 0 \in Evens /\ N \in Nat
  BY WidthAssumption DEF Evens
<1> HIDE DEF Next1
<1>3. Stepper(step, N, Evens) /\ \A k \in 1..N, x \in Evens : step[<<k, x>>] = Next1(k, x)
  BY <1>1 DEF Stepper
<1> HIDE DEF step
<1>4. PICK f : f \in [0..N -> Evens]
                /\ f = [k \in 0..N |-> IF k = 0 THEN 0 ELSE step[<<k, f[k - 1]>>]]
  BY <1>2, <1>3, RecursionFunction
<1>5. f = [k \in 0..N |-> IF k = 0 THEN 0 ELSE Next1(k, f[k - 1])]
  <2>1. \A k \in 0..N : k # 0 => step[<<k, f[k - 1]>>] = Next1(k, f[k - 1])
    BY <1>2, <1>3, <1>4
  <2>2. QED
    BY <1>4, <2>1
<1> DEFINE After[k \in 0..N] ==
             IF k = 0 THEN 0 ELSE
             IF k - 1 \in Qubits THEN Add(After[k - 1], k - 1) ELSE After[k - 1]
<1>6. After = [k \in 0..N |-> IF k = 0 THEN 0 ELSE Next1(k, After[k - 1])]
  BY <1>5 DEF Next1
<1>7. PlainPhase(a, b, f0, m) = After[N]
  BY DEF PlainPhase, ApplyEach
<1> HIDE DEF After
<1>8. After[0] \in Evens /\ \A k \in 1..N : After[k - 1] \in Evens => After[k] \in Evens
  BY <1>1, <1>2, <1>6
<1>9. After[N] \in Evens
  BY <1>2, <1>8, StaysIn
<1>10. QED
  BY <1>7, <1>9

-----------------------------------------------------------------------------
(* The gates without a Hadamard.                                           *)

\* What a branch must be to stay lawful: fields of the right kind, and laws.
LEMMA LawfulAgain ==
  ASSUME NEW st \in Lawful, NEW F \in Relations, NEW G \in Relations, NEW M \in Relations,
         NEW gamma \in [Qubits -> 0..3], Laws(F, G, M, gamma)
  PROVE  [st EXCEPT !.F = F, !.G = G, !.M = M, !.gamma = gamma] \in Lawful
<1> DEFINE y == [st EXCEPT !.F = F, !.G = G, !.M = M, !.gamma = gamma]
<1>1. st \in Forms
  BY LawfulParts
<1>2. y \in Forms /\ y.F = F /\ y.G = G /\ y.M = M /\ y.gamma = gamma
  BY <1>1 DEF Forms
<1> HIDE DEF y
<1>3. y \in Lawful
  BY <1>2 DEF Lawful
<1>4. QED
  BY <1>3 DEF y

\* A scalar, a string or a set of Hadamard wires is no part of the laws.
LEMMA OuterLawful ==
  ASSUME NEW st \in Lawful, NEW v \in SUBSET Qubits, NEW s \in SUBSET Qubits, NEW om \in Phases
  PROVE  /\ [st EXCEPT !.v = v, !.s = s] \in Lawful
         /\ [st EXCEPT !.s = s] \in Lawful
         /\ [st EXCEPT !.s = s, !.om = om] \in Lawful
         /\ [st EXCEPT !.om = om] \in Lawful
<1> DEFINE y1 == [st EXCEPT !.v = v, !.s = s]
           y2 == [st EXCEPT !.s = s]
           y3 == [st EXCEPT !.s = s, !.om = om]
           y4 == [st EXCEPT !.om = om]
<1>1. st \in Forms /\ Laws(st.F, st.G, st.M, st.gamma)
  BY LawfulParts
<1>2. y1 \in Forms /\ y1.F = st.F /\ y1.G = st.G /\ y1.M = st.M /\ y1.gamma = st.gamma
  BY <1>1 DEF Forms
<1>3. y2 \in Forms /\ y2.F = st.F /\ y2.G = st.G /\ y2.M = st.M /\ y2.gamma = st.gamma
  BY <1>1 DEF Forms
<1>4. y3 \in Forms /\ y3.F = st.F /\ y3.G = st.G /\ y3.M = st.M /\ y3.gamma = st.gamma
  BY <1>1 DEF Forms
<1>5. y4 \in Forms /\ y4.F = st.F /\ y4.G = st.G /\ y4.M = st.M /\ y4.gamma = st.gamma
  BY <1>1 DEF Forms
<1> HIDE DEF y1, y2, y3, y4
<1>6. y1 \in Lawful /\ y2 \in Lawful /\ y3 \in Lawful /\ y4 \in Lawful
  BY <1>1, <1>2, <1>3, <1>4, <1>5 DEF Lawful
<1>7. QED
  BY <1>6 DEF y1, y2, y3, y4

LEMMA ScaleLawful ==
  ASSUME NEW st \in Lawful, NEW z \in Phases
  PROVE  scale_phase(st, z) \in Lawful
<1>1. Times(st.om, z) \in Phases
  BY LawfulParts, TimesPhases
<1>2. [st EXCEPT !.om = Times(st.om, z)] \in Lawful
  BY <1>1, LawfulParts, OuterLawful
<1>3. scale_phase(st, z) = [st EXCEPT !.om = Times(st.om, z)]
  BY LawfulParts DEF scale_phase, Forms
<1>4. QED
  BY <1>2, <1>3

LEMMA SGatesLawful ==
  ASSUME NEW st \in Lawful, NEW q \in Qubits
  PROVE  s_gate(st, q) \in Lawful /\ sdg_gate(st, q) \in Lawful
BY PhaseShiftLawful DEF s_gate, sdg_gate

LEMMA ZLawful ==
  ASSUME NEW st \in Lawful, NEW q \in Qubits
  PROVE  z_gate(st, q) \in Lawful
<1> DEFINE g2 == [st.gamma EXCEPT ![q] = (@ + 2) % 4]
           y == z_gate(st, q)
<1>1. /\ st \in Forms /\ g2 \in [Qubits -> 0..3] /\ Laws(st.F, st.G, st.M, st.gamma)
      /\ st.gamma \in [Qubits -> 0..3]
  BY LawfulParts
<1>2. \A p \in Qubits : g2[p] % 2 = 1 <=> st.gamma[p] % 2 = 1
  <2> TAKE p \in Qubits
  <2>1. st.gamma[p] \in 0..3 /\ g2[p] = IF p = q THEN (st.gamma[p] + 2) % 4 ELSE st.gamma[p]
    BY <1>1
  <2>2. QED
    BY <2>1
<1> HIDE DEF g2
<1>3. Laws(st.F, st.G, st.M, g2)
  BY <1>1, <1>2 DEF Laws, Even
<1>4. y = [st EXCEPT !.gamma = g2]
  BY <1>1 DEF z_gate, g2, Forms
<1> HIDE DEF y
<1>5. y \in Forms /\ y.F = st.F /\ y.G = st.G /\ y.M = st.M /\ y.gamma = g2
  BY <1>1, <1>4 DEF Forms
<1>6. y \in Lawful
  BY <1>3, <1>5 DEF Lawful
<1>7. QED
  BY <1>6 DEF y

LEMMA CzLawful ==
  ASSUME NEW st \in Lawful, NEW a \in Qubits, NEW b \in Qubits, a # b
  PROVE  cz_gate(st, a, b) \in Lawful
<1> DEFINE M1 == AddRow(st.M, a, Row(st.G, b))
           M2 == AddRow(M1, b, Row(st.G, a))
           y == cz_gate(st, a, b)
<1>1. st \in Forms /\ Laws(st.F, st.G, M2, st.gamma)
  BY LawfulParts, CzLaws
<1>2. M1 \in Relations
  BY LawfulParts, RowType, RowAdd
<1> HIDE DEF M1
<1>3. M2 \in Relations
  BY <1>2, RowType, RowAdd
<1>4. y = [st EXCEPT !.M = M2]
  BY <1>1 DEF cz_gate, M1, Forms
<1> HIDE DEF y, M2
<1>5. y \in Forms /\ y.F = st.F /\ y.G = st.G /\ y.M = M2 /\ y.gamma = st.gamma
  BY <1>1, <1>3, <1>4 DEF Forms
<1>6. y \in Lawful
  BY <1>1, <1>5 DEF Lawful
<1>7. QED
  BY <1>6 DEF y

LEMMA CxLawful ==
  ASSUME NEW st \in Lawful, NEW c \in Qubits, NEW t \in Qubits, c # t
  PROVE  cx_gate(st, c, t) \in Lawful
<1> DEFINE e == PlainPhase(Row(st.F, c), Row(st.M, c), Row(st.F, t), Row(st.M, t))
           F2 == AddRow(st.F, c, Row(st.F, t))
           G2 == AddRow(st.G, t, Row(st.G, c))
           M2 == AddRow(st.M, c, Row(st.M, t))
           g2 == [st.gamma EXCEPT ![c] = (@ + st.gamma[t] + e) % 4]
           y == cx_gate(st, c, t)
<1>1. e \in Int /\ e % 2 = 0
  BY PlainPhaseEven DEF Evens
<1>2. y = [st EXCEPT !.gamma[c] = (@ + st.gamma[t] + e) % 4, !.F = F2, !.M = M2, !.G = G2]
  <2>1. st \in Forms
    BY LawfulParts
  <2> HIDE DEF e, F2, G2, M2, g2
  <2>2. QED
    BY <2>1 DEF cx_gate, e, F2, G2, M2, Forms
<1> HIDE DEF e
<1>3. st \in Forms /\ Laws(F2, G2, M2, g2)
  BY <1>1, LawfulParts, CxLaws
<1>4. F2 \in Relations /\ G2 \in Relations /\ M2 \in Relations
  BY LawfulParts, RowType, RowAdd
<1>5. g2 \in [Qubits -> 0..3]
  <2>1. st.gamma \in [Qubits -> 0..3]
    BY LawfulParts
  <2>2. (st.gamma[c] + st.gamma[t] + e) % 4 \in 0..3
    <3> HIDE DEF y, F2, G2, M2
    <3>1. st.gamma[c] \in 0..3 /\ st.gamma[t] \in 0..3
      BY <2>1
    <3>2. \A a, b \in 0..3 : (a + b + e) % 4 \in 0..3
      BY <1>1
    <3>3. QED
      BY <3>1, <3>2
  <2>3. QED
    BY <2>1, <2>2
<1> HIDE DEF y, F2, G2, M2
<1>6. y = [st EXCEPT !.gamma = g2, !.F = F2, !.M = M2, !.G = G2]
  BY <1>2, <1>3 DEF Forms
<1> HIDE DEF g2
<1>7. y \in Forms /\ y.F = F2 /\ y.G = G2 /\ y.M = M2 /\ y.gamma = g2
  BY <1>3, <1>4, <1>5, <1>6 DEF Forms
<1>8. y \in Lawful
  BY <1>3, <1>7 DEF Lawful
<1>9. QED
  BY <1>8 DEF y

LEMMA RightSLawful ==
  ASSUME NEW st \in Lawful, NEW q \in Qubits
  PROVE  right_s(st, q) \in Lawful
<1> DEFINE hit == Column(st.F, q)
           M2 == SymDiff(st.M, hit \X {q})
           g2 == [p \in Qubits |-> IF p \in hit THEN (st.gamma[p] + 3) % 4 ELSE st.gamma[p]]
           y == right_s(st, q)
<1>1. st \in Forms /\ Laws(st.F, st.G, M2, g2) /\ st.gamma \in [Qubits -> 0..3]
  BY LawfulParts, RightSLaws
<1>2. hit \in SUBSET Qubits
  BY ColumnOf
<1>3. y = [st EXCEPT !.M = M2, !.gamma = g2]
  BY <1>1 DEF right_s, Column, Forms
<1> HIDE DEF y, hit
<1>4. M2 \in Relations
  BY <1>2, LawfulParts, ColumnAdd
<1>5. g2 \in [Qubits -> 0..3]
  BY <1>1
<1> HIDE DEF M2, g2
<1>6. y \in Forms /\ y.F = st.F /\ y.G = st.G /\ y.M = M2 /\ y.gamma = g2
  BY <1>1, <1>3, <1>4, <1>5 DEF Forms
<1>7. y \in Lawful
  BY <1>1, <1>6 DEF Lawful
<1>8. QED
  BY <1>7 DEF y

LEMMA RightCzLawful ==
  ASSUME NEW st \in Lawful, NEW q \in Qubits, NEW r \in Qubits
  PROVE  right_cz(st, q, r) \in Lawful
<1> DEFINE fq == Column(st.F, q)
           fr == Column(st.F, r)
           M1 == SymDiff(st.M, fq \X {r})
           M2 == SymDiff(M1, fr \X {q})
           g2 == [p \in Qubits |-> IF p \in fq \cap fr THEN (st.gamma[p] + 2) % 4 ELSE st.gamma[p]]
           y == right_cz(st, q, r)
<1>1. st \in Forms /\ Laws(st.F, st.G, M2, g2) /\ st.gamma \in [Qubits -> 0..3]
  BY LawfulParts, RightCzLaws
<1>2. fq \in SUBSET Qubits /\ fr \in SUBSET Qubits
  BY ColumnOf
<1>3. y = [st EXCEPT !.M = M2, !.gamma = g2]
  <2> HIDE DEF fq, fr
  <2>1. QED
    BY <1>1 DEF right_cz, Forms, fq, fr
<1> HIDE DEF y, fq, fr
<1>4. M1 \in Relations
  BY <1>2, LawfulParts, ColumnAdd
<1> HIDE DEF M1
<1>5. M2 \in Relations
  BY <1>2, <1>4, ColumnAdd
<1>6. g2 \in [Qubits -> 0..3]
  BY <1>1
<1> HIDE DEF M2, g2
<1>7. y \in Forms /\ y.F = st.F /\ y.G = st.G /\ y.M = M2 /\ y.gamma = g2
  BY <1>1, <1>3, <1>5, <1>6 DEF Forms
<1>8. y \in Lawful
  BY <1>1, <1>7 DEF Lawful
<1>9. QED
  BY <1>8 DEF y

LEMMA RightCxLawful ==
  ASSUME NEW st \in Lawful, NEW c \in Qubits, NEW t \in Qubits, c # t
  PROVE  right_cx(st, c, t) \in Lawful
<1> DEFINE F2 == SymDiff(st.F, Column(st.F, c) \X {t})
           G2 == SymDiff(st.G, Column(st.G, t) \X {c})
           M2 == SymDiff(st.M, Column(st.M, t) \X {c})
           y == right_cx(st, c, t)
<1>1. st \in Forms /\ Laws(F2, G2, M2, st.gamma)
  BY LawfulParts, RightCxLaws
<1>2. F2 \in Relations /\ G2 \in Relations /\ M2 \in Relations
  <2> DEFINE A == Column(st.F, c)
             B == Column(st.G, t)
             D == Column(st.M, t)
  <2>1. A \in SUBSET Qubits /\ B \in SUBSET Qubits /\ D \in SUBSET Qubits
    BY ColumnOf
  <2>2. st.F \in Relations /\ st.G \in Relations /\ st.M \in Relations
    BY LawfulParts
  <2> HIDE DEF A, B, D
  <2>3. SymDiff(st.F, A \X {t}) \in Relations
    BY <2>1, <2>2, ColumnAdd
  <2>4. SymDiff(st.G, B \X {c}) \in Relations
    BY <2>1, <2>2, ColumnAdd
  <2>5. SymDiff(st.M, D \X {c}) \in Relations
    BY <2>1, <2>2, ColumnAdd
  <2>6. QED
    BY <2>3, <2>4, <2>5 DEF A, B, D
<1>3. y = [st EXCEPT !.F = F2, !.M = M2, !.G = G2]
  BY <1>1 DEF right_cx, Forms
<1> HIDE DEF y, F2, G2, M2
<1>4. y \in Forms /\ y.F = F2 /\ y.G = G2 /\ y.M = M2 /\ y.gamma = st.gamma
  BY <1>1, <1>2, <1>3 DEF Forms
<1>5. y \in Lawful
  BY <1>1, <1>4 DEF Lawful
<1>6. QED
  BY <1>5 DEF y

-----------------------------------------------------------------------------
(* X, Y and H.                                                             *)

LEMMA PushedType ==
  ASSUME NEW st \in Lawful, NEW q \in Qubits
  PROVE  Pushed(st, q).s \in SUBSET Qubits
<1>1. st.s \in SUBSET Qubits /\ st.v \in SUBSET Qubits
  BY LawfulParts
<1>2. Pushed(st, q).s = SymDiff(st.s, (Row(st.M, q) \cap st.v) \cup (Row(st.F, q) \ st.v))
  BY DEF Pushed
<1>3. QED
  BY <1>1, <1>2, RowType DEF SymDiff

LEMMA XLawful ==
  ASSUME NEW st \in Lawful, NEW q \in Qubits
  PROVE  x_gate(st, q) \in Lawful
<1> DEFINE p == Pushed(st, q)
           z == Times(PowI(st.gamma[q]), Sign(p.beta))
<1>1. st \in Forms /\ st.gamma[q] \in Int /\ st.om \in Phases
  BY LawfulParts
<1>2. z \in Phases
  BY <1>1, PowIPhase, SignPhase, TimesPhases
<1>3. x_gate(st, q) = [st EXCEPT !.s = p.s, !.om = Times(@, z)]
  BY DEF x_gate
<1>4. p.s \in SUBSET Qubits
  BY PushedType
<1> HIDE DEF p, z
<1>5. Times(st.om, z) \in Phases
  BY <1>1, <1>2, TimesPhases
<1>6. x_gate(st, q) = [st EXCEPT !.s = p.s, !.om = Times(st.om, z)]
  BY <1>1, <1>3 DEF Forms
<1> DEFINE om == Times(st.om, z)
<1> HIDE DEF om
<1>7. [st EXCEPT !.s = p.s, !.om = om] \in Lawful
  BY <1>4, <1>5, LawfulParts, OuterLawful DEF om
<1>8. QED
  BY <1>6, <1>7 DEF om

LEMMA YLawful ==
  ASSUME NEW st \in Lawful, NEW q \in Qubits
  PROVE  y_gate(st, q) \in Lawful
BY ZLawful, XLawful, ScaleLawful, SmallPhases DEF y_gate

\* Where both legs of H on wire q are the same string, the X row of the wire is
\* odd: its power of i is i or -i, and the sum of the legs is a corner again.
LEMMA SameLegs ==
  ASSUME NEW st \in Lawful, NEW q \in Qubits,
         SymDiff(st.s, Row(st.G, q) \cap st.v) = Pushed(st, q).s
  PROVE  st.gamma[q] \in {1, 3}
<1> DEFINE g == Row(st.G, q)
           f == Row(st.F, q)
           m == Row(st.M, q)
<1>1. SymDiff(st.s, g \cap st.v) = SymDiff(st.s, (m \cap st.v) \cup (f \ st.v))
  BY DEF Pushed
<1>2. f \in SUBSET Qubits /\ g \in SUBSET Qubits /\ m \in SUBSET Qubits
  BY RowType
<1>3. Dot(f, g)
  BY LawfulParts DEF Laws, Dual
<1>4. Dot(f, m) <=> st.gamma[q] % 2 = 1
  BY LawfulParts DEF Laws, Even
<1> HIDE DEF f, g, m
<1>5. g \cap st.v = (m \cap st.v) \cup (f \ st.v)
  BY <1>1 DEF SymDiff
<1>6. f \cap g = f \cap m
  BY <1>5
<1>7. st.gamma[q] % 2 = 1
  BY <1>3, <1>4, <1>6 DEF Dot
<1>8. st.gamma[q] \in 0..3
  BY LawfulParts
<1>9. QED
  BY <1>7, <1>8

LEMMA RightSPowerLawful ==
  ASSUME NEW st \in Lawful, NEW q \in Qubits, NEW k \in Nat
  PROVE  RightSPower(st, q, k) \in Lawful
<1> DEFINE Next1(j, x) == right_s(x, q)
           step == [p \in (1..k) \X Lawful |-> Next1(p[1], p[2])]
<1>1. \A j \in 1..k, x \in Lawful : Next1(j, x) \in Lawful
  BY RightSLawful
<1>2. st \in Lawful /\ k \in Nat
  OBVIOUS
<1> HIDE DEF Next1
<1>3. Stepper(step, k, Lawful) /\ \A j \in 1..k, x \in Lawful : step[<<j, x>>] = Next1(j, x)
  BY <1>1 DEF Stepper
<1> HIDE DEF step
<1>4. PICK f : f \in [0..k -> Lawful]
                /\ f = [j \in 0..k |-> IF j = 0 THEN st ELSE step[<<j, f[j - 1]>>]]
  BY <1>2, <1>3, RecursionFunction
<1>5. f = [j \in 0..k |-> IF j = 0 THEN st ELSE Next1(j, f[j - 1])]
  <2>1. \A j \in 0..k : j # 0 => step[<<j, f[j - 1]>>] = Next1(j, f[j - 1])
    BY <1>2, <1>3, <1>4
  <2>2. QED
    BY <1>4, <2>1
<1> DEFINE After[i \in 0..k] == IF i = 0 THEN st ELSE right_s(After[i - 1], q)
<1>6. After = [j \in 0..k |-> IF j = 0 THEN st ELSE Next1(j, After[j - 1])]
  BY <1>5 DEF Next1
<1>7. RightSPower(st, q, k) = After[k]
  BY DEF RightSPower
<1> HIDE DEF After
<1>8. After[0] \in Lawful /\ \A j \in 1..k : After[j - 1] \in Lawful => After[j] \in Lawful
  BY <1>1, <1>2, <1>6
<1>9. After[k] \in Lawful
  BY <1>2, <1>8, StaysIn
<1>10. QED
  BY <1>7, <1>9

\* The loops of desuperpose over the other wires.
Spread(st, q, v, d) ==
    LET FromPivot(x, j) == IF j \in v THEN right_cz(x, q, j) ELSE right_cx(x, q, j)
    IN  ApplyEach(FromPivot, st, d)
Gathered(st, q, d) ==
    LET ToPivot(x, j) == right_cx(x, j, q)
    IN  ApplyEach(ToPivot, st, d)

LEMMA FromPivotLawful ==
  ASSUME NEW st \in Lawful, NEW q \in Qubits, NEW v, NEW d \in SUBSET Qubits, q \notin d
  PROVE  Spread(st, q, v, d) \in Lawful
<1> DEFINE FromPivot(x, j) == IF j \in v THEN right_cz(x, q, j) ELSE right_cx(x, q, j)
<1> DEFINE Next1(k, x) == IF k - 1 \in d THEN FromPivot(x, k - 1) ELSE x
    step == [p \in (1..N) \X Lawful |-> Next1(p[1], p[2])]
<1>1. \A k \in 1..N, x \in Lawful : Next1(k, x) \in Lawful
  BY RightCzLawful, RightCxLawful
<1>2. st \in Lawful /\ N \in Nat
  BY WidthAssumption
<1> HIDE DEF Next1
<1>3. Stepper(step, N, Lawful) /\ \A k \in 1..N, x \in Lawful : step[<<k, x>>] = Next1(k, x)
  BY <1>1 DEF Stepper
<1> HIDE DEF step
<1>4. PICK f : f \in [0..N -> Lawful]
                /\ f = [k \in 0..N |-> IF k = 0 THEN st ELSE step[<<k, f[k - 1]>>]]
  BY <1>2, <1>3, RecursionFunction
<1>5. f = [k \in 0..N |-> IF k = 0 THEN st ELSE Next1(k, f[k - 1])]
  <2>1. \A k \in 0..N : k # 0 => step[<<k, f[k - 1]>>] = Next1(k, f[k - 1])
    BY <1>2, <1>3, <1>4
  <2>2. QED
    BY <1>4, <2>1
<1> DEFINE After[k \in 0..N] ==
             IF k = 0 THEN st ELSE
             IF k - 1 \in d THEN FromPivot(After[k - 1], k - 1) ELSE After[k - 1]
<1>6. After = [k \in 0..N |-> IF k = 0 THEN st ELSE Next1(k, After[k - 1])]
  BY <1>5 DEF Next1
<1>7. Spread(st, q, v, d) = After[N]
  BY DEF Spread, ApplyEach
<1> HIDE DEF After
<1>8. After[0] \in Lawful /\ \A k \in 1..N : After[k - 1] \in Lawful => After[k] \in Lawful
  BY <1>1, <1>2, <1>6
<1>9. After[N] \in Lawful
  BY <1>2, <1>8, StaysIn
<1>10. QED
  BY <1>7, <1>9

LEMMA ToPivotLawful ==
  ASSUME NEW st \in Lawful, NEW q \in Qubits, NEW d \in SUBSET Qubits, q \notin d
  PROVE  Gathered(st, q, d) \in Lawful
<1> DEFINE ToPivot(x, j) == right_cx(x, j, q)
<1> DEFINE Next1(k, x) == IF k - 1 \in d THEN ToPivot(x, k - 1) ELSE x
    step == [p \in (1..N) \X Lawful |-> Next1(p[1], p[2])]
<1>1. \A k \in 1..N, x \in Lawful : Next1(k, x) \in Lawful
  BY RightCxLawful
<1>2. st \in Lawful /\ N \in Nat
  BY WidthAssumption
<1> HIDE DEF Next1
<1>3. Stepper(step, N, Lawful) /\ \A k \in 1..N, x \in Lawful : step[<<k, x>>] = Next1(k, x)
  BY <1>1 DEF Stepper
<1> HIDE DEF step
<1>4. PICK f : f \in [0..N -> Lawful]
                /\ f = [k \in 0..N |-> IF k = 0 THEN st ELSE step[<<k, f[k - 1]>>]]
  BY <1>2, <1>3, RecursionFunction
<1>5. f = [k \in 0..N |-> IF k = 0 THEN st ELSE Next1(k, f[k - 1])]
  <2>1. \A k \in 0..N : k # 0 => step[<<k, f[k - 1]>>] = Next1(k, f[k - 1])
    BY <1>2, <1>3, <1>4
  <2>2. QED
    BY <1>4, <2>1
<1> DEFINE After[k \in 0..N] ==
             IF k = 0 THEN st ELSE
             IF k - 1 \in d THEN ToPivot(After[k - 1], k - 1) ELSE After[k - 1]
<1>6. After = [k \in 0..N |-> IF k = 0 THEN st ELSE Next1(k, After[k - 1])]
  BY <1>5 DEF Next1
<1>7. Gathered(st, q, d) = After[N]
  BY DEF Gathered, ApplyEach
<1> HIDE DEF After
<1>8. After[0] \in Lawful /\ \A k \in 1..N : After[k - 1] \in Lawful => After[k] \in Lawful
  BY <1>1, <1>2, <1>6
<1>9. After[N] \in Lawful
  BY <1>2, <1>8, StaysIn
<1>10. QED
  BY <1>7, <1>9

\* One string in the place of two.
Merged(y, q, t, delta) ==
    CASE delta = 0 -> [y EXCEPT !.v = @ \ {q}, !.s = t]
      [] delta = 2 -> [y EXCEPT !.v = @ \ {q}, !.s = t \cup {q}]
      [] delta = 1 -> [scale_phase(RightSPower(y, q, 3), Ei(1)) EXCEPT !.s = t]
      [] delta = 3 -> [scale_phase(right_s(y, q), Ei(-1)) EXCEPT !.s = t]

LEMMA RegroupLawful ==
  ASSUME NEW y \in Lawful, NEW q \in Qubits, NEW t \in SUBSET Qubits
  PROVE  /\ [y EXCEPT !.v = @ \cup {q}, !.s = t] \in Lawful
         /\ [y EXCEPT !.v = @ \ {q}, !.s = t] \in Lawful
         /\ [y EXCEPT !.v = @ \ {q}, !.s = t \cup {q}] \in Lawful
<1> DEFINE more == y.v \cup {q}
           less == y.v \ {q}
           u == t \cup {q}
<1>1. y \in Forms /\ y.v \in SUBSET Qubits /\ y.om \in Phases
  BY LawfulParts
<1>2. more \in SUBSET Qubits /\ less \in SUBSET Qubits /\ u \in SUBSET Qubits
  BY <1>1
<1>3. /\ [y EXCEPT !.v = @ \cup {q}, !.s = t] = [y EXCEPT !.v = more, !.s = t]
      /\ [y EXCEPT !.v = @ \ {q}, !.s = t] = [y EXCEPT !.v = less, !.s = t]
      /\ [y EXCEPT !.v = @ \ {q}, !.s = t \cup {q}] = [y EXCEPT !.v = less, !.s = u]
  BY <1>1 DEF Forms
<1> HIDE DEF more, less, u
<1>4. [y EXCEPT !.v = more, !.s = t] \in Lawful
  BY <1>1, <1>2, OuterLawful
<1>5. [y EXCEPT !.v = less, !.s = t] \in Lawful
  BY <1>1, <1>2, OuterLawful
<1>6. [y EXCEPT !.v = less, !.s = u] \in Lawful
  BY <1>1, <1>2, OuterLawful
<1>7. QED
  BY <1>3, <1>4, <1>5, <1>6

LEMMA MergedLawful ==
  ASSUME NEW y \in Lawful, NEW q \in Qubits, NEW t \in SUBSET Qubits, NEW delta \in 0..3
  PROVE  Merged(y, q, t, delta) \in Lawful
<1> DEFINE up == scale_phase(RightSPower(y, q, 3), Ei(1))
           down == scale_phase(right_s(y, q), Ei(-1))
           off == [y EXCEPT !.v = @ \ {q}, !.s = t]
           on == [y EXCEPT !.v = @ \ {q}, !.s = t \cup {q}]
<1>1. off \in Lawful /\ on \in Lawful
  BY RegroupLawful
<1>2. up \in Lawful
  <2>1. RightSPower(y, q, 3) \in Lawful
    BY RightSPowerLawful
  <2>2. Ei(1) \in Phases
    BY EiPhase
  <2>3. QED
    BY <2>1, <2>2, ScaleLawful
<1>3. down \in Lawful
  <2>1. right_s(y, q) \in Lawful
    BY RightSLawful
  <2>2. -1 \in Int
    OBVIOUS
  <2>3. Ei(-1) \in Phases
    BY <2>2, EiPhase
  <2>4. QED
    BY <2>1, <2>3, ScaleLawful
<1>4. CASE delta = 0
  <2>1. Merged(y, q, t, delta) = off
    BY <1>4 DEF Merged
  <2> HIDE DEF off
  <2>2. QED
    BY <1>1, <2>1
<1>5. CASE delta = 2
  <2>1. Merged(y, q, t, delta) = on
    BY <1>5 DEF Merged
  <2> HIDE DEF on
  <2>2. QED
    BY <1>1, <2>1
<1>6. CASE delta = 1
  <2>1. Merged(y, q, t, delta) = [up EXCEPT !.s = t]
    BY <1>6 DEF Merged
  <2> HIDE DEF up
  <2>2. up.v \in SUBSET Qubits /\ up.om \in Phases
    BY <1>2, LawfulParts
  <2>3. QED
    BY <1>2, <2>1, <2>2, OuterLawful
<1>7. CASE delta = 3
  <2>1. Merged(y, q, t, delta) = [down EXCEPT !.s = t]
    BY <1>7 DEF Merged
  <2> HIDE DEF down
  <2>2. down.v \in SUBSET Qubits /\ down.om \in Phases
    BY <1>3, LawfulParts
  <2>3. QED
    BY <1>3, <2>1, <2>2, OuterLawful
<1>8. QED
  BY <1>4, <1>5, <1>6, <1>7

LEMMA DesuperposeLawful ==
  ASSUME NEW st \in Lawful, NEW t0 \in SUBSET Qubits, NEW u0 \in SUBSET Qubits, t0 # u0,
         NEW delta0 \in 0..3
  PROVE  desuperpose(st, t0, u0, delta0) \in Lawful
<1> DEFINE d  == SymDiff(t0, u0)
           ds == IF d \ st.v # {} THEN d \ st.v ELSE d
           q  == CHOOSE j \in ds : \A r \in ds : j <= r
           t     == IF q \in t0 THEN u0 ELSE t0
           delta == IF q \in t0 THEN (4 - delta0) % 4 ELSE delta0
           w  == IF q \in t0 THEN scale_phase(st, PowI(delta0)) ELSE st
<1>1. desuperpose(st, t0, u0, delta0) =
        IF q \notin st.v
        THEN [RightSPower(Spread(w, q, st.v, d \ {q}), q, delta) EXCEPT !.v = @ \cup {q}, !.s = t]
        ELSE Merged(Gathered(w, q, d \ {q}), q, t, delta)
  BY DEF desuperpose, Spread, Gathered, Merged, ApplyEach
<1>2. d \in SUBSET Qubits /\ d # {}
  BY DEF SymDiff
<1> HIDE DEF d
<1>3. ds \in SUBSET Qubits /\ ds \in SUBSET Nat /\ ds # {}
  <2> HIDE DEF q, t, delta, w
  <2>1. ds \in SUBSET Qubits /\ ds # {}
    BY <1>2
  <2>2. Qubits \in SUBSET Nat
    BY WidthAssumption DEF Qubits
  <2>3. QED
    BY <2>1, <2>2
<1> HIDE DEF ds
<1>4. \E j \in ds : \A r \in ds : j <= r
  BY <1>3, LeastElement
<1>5. q \in ds
  BY <1>4
<1> HIDE DEF q
<1>6. q \in Qubits
  BY <1>3, <1>5
<1>7. t \in SUBSET Qubits /\ delta \in 0..3
  OBVIOUS
<1>8. w \in Lawful
  <2>1. PowI(delta0) \in Phases
    BY PowIPhase
  <2>2. QED
    BY <2>1, ScaleLawful
<1> DEFINE rest == d \ {q}
<1>9. rest \in SUBSET Qubits /\ q \notin rest
  BY <1>2
<1> HIDE DEF t, delta, w, rest
<1>10. Merged(Gathered(w, q, rest), q, t, delta) \in Lawful
  BY <1>6, <1>7, <1>8, <1>9, ToPivotLawful, MergedLawful
<1> DEFINE turned == RightSPower(Spread(w, q, st.v, rest), q, delta)
<1>11. turned \in Lawful
  <2>1. Spread(w, q, st.v, rest) \in Lawful
    BY <1>6, <1>8, <1>9, FromPivotLawful
  <2>2. delta \in Nat
    BY <1>7
  <2>3. QED
    BY <1>6, <2>1, <2>2, RightSPowerLawful
<1>12. desuperpose(st, t0, u0, delta0) =
        IF q \notin st.v THEN [turned EXCEPT !.v = @ \cup {q}, !.s = t]
        ELSE Merged(Gathered(w, q, rest), q, t, delta)
  BY <1>1 DEF rest
<1> HIDE DEF turned
<1>13. [turned EXCEPT !.v = @ \cup {q}, !.s = t] \in Lawful
  BY <1>6, <1>7, <1>11, RegroupLawful
<1>14. QED
  BY <1>10, <1>12, <1>13

LEMMA HLawful ==
  ASSUME NEW st \in Lawful, NEW q \in Qubits
  PROVE  h_gate(st, q) \in Lawful
<1> DEFINE g == Row(st.G, q)
           t == SymDiff(st.s, g \cap st.v)
           alpha == Odd((g \ st.v) \cap st.s)
           p == Pushed(st, q)
           delta == (st.gamma[q] + 2 * Bit(alpha) + 2 * Bit(p.beta)) % 4
           z == Times(ISqrt2, Plus(Sign(alpha), Times(PowI(st.gamma[q]), Sign(p.beta))))
           w == scale_phase(st, Sign(alpha))
<1>1. h_gate(st, q) = IF t = p.s THEN [st EXCEPT !.s = t, !.om = Times(@, z)]
                      ELSE desuperpose(w, t, p.s, delta)
  BY DEF h_gate
<1>2. t \in SUBSET Qubits /\ p.s \in SUBSET Qubits
  <2>1. st.s \in SUBSET Qubits
    BY LawfulParts
  <2>2. t \in SUBSET Qubits
    BY <2>1, RowType DEF SymDiff
  <2>3. QED
    BY <2>2, PushedType
<1>3. t = p.s => z \in Phases
  <2> SUFFICES ASSUME t = p.s PROVE z \in Phases
    OBVIOUS
  <2>1. st.gamma[q] \in {1, 3}
    BY SameLegs
  <2>2. Times(PowI(st.gamma[q]), Sign(p.beta)) \in ImUnits
    BY <2>1, OddPowI
  <2>3. QED
    BY <2>2, SignReal, LegsPhase
<1>4. delta \in 0..3
  <2>1. st.gamma[q] \in 0..3
    BY LawfulParts
  <2>2. Bit(alpha) \in 0..1 /\ Bit(p.beta) \in 0..1
    BY DEF Bit
  <2> DEFINE x == Bit(alpha)
             y == Bit(p.beta)
  <2> HIDE DEF x, y
  <2>3. (st.gamma[q] + 2 * x + 2 * y) % 4 \in 0..3
    BY <2>1, <2>2 DEF x, y
  <2>4. QED
    BY <2>3 DEF x, y
<1>5. w \in Lawful
  BY SignPhase, ScaleLawful
<1> HIDE DEF t, p, delta, z, w
<1>6. t # p.s => desuperpose(w, t, p.s, delta) \in Lawful
  BY <1>2, <1>4, <1>5, DesuperposeLawful
<1>7. t = p.s => [st EXCEPT !.s = t, !.om = Times(@, z)] \in Lawful
  <2> DEFINE om == Times(st.om, z)
  <2>1. st \in Forms /\ st.om \in Phases /\ st.v \in SUBSET Qubits
    BY LawfulParts
  <2>2. [st EXCEPT !.s = t, !.om = Times(@, z)] = [st EXCEPT !.s = t, !.om = om]
    BY <2>1 DEF Forms
  <2>3. t = p.s => om \in Phases
    BY <1>3, <2>1, TimesPhases
  <2> HIDE DEF om
  <2>4. t = p.s => [st EXCEPT !.s = t, !.om = om] \in Lawful
    BY <1>2, <2>1, <2>3, OuterLawful
  <2>5. QED
    BY <2>2, <2>4
<1>8. QED
  BY <1>1, <1>6, <1>7

LEMMA CompositesLawful ==
  ASSUME NEW st \in Lawful, NEW a \in Qubits, NEW b \in Qubits, a # b
  PROVE  swap_gate(st, a, b) \in Lawful /\ cy_gate(st, a, b) \in Lawful
<1>1. swap_gate(st, a, b) \in Lawful
  BY CxLawful DEF swap_gate
<1>2. cy_gate(st, a, b) \in Lawful
  BY CxLawful, SGatesLawful DEF cy_gate
<1>3. QED
  BY <1>1, <1>2

LEMMA SxLawful ==
  ASSUME NEW st \in Lawful, NEW q \in Qubits
  PROVE  sx_gate(st, q) \in Lawful /\ sxdg_gate(st, q) \in Lawful
BY HLawful, SGatesLawful DEF sx_gate, sxdg_gate

-----------------------------------------------------------------------------
(* Pauli strings and their square roots.                                   *)

EachZ(st, S) == ApplyEach(z_gate, st, S)
EachY(st, S) == ApplyEach(y_gate, st, S)
EachX(st, S) == ApplyEach(x_gate, st, S)

LEMMA EachZLawful ==
  ASSUME NEW st \in Lawful, NEW S \in SUBSET Qubits
  PROVE  EachZ(st, S) \in Lawful
<1> DEFINE Next1(k, x) == IF k - 1 \in S THEN z_gate(x, k - 1) ELSE x
    step == [p \in (1..N) \X Lawful |-> Next1(p[1], p[2])]
<1>1. \A k \in 1..N, x \in Lawful : Next1(k, x) \in Lawful
  BY ZLawful
<1>2. st \in Lawful /\ N \in Nat
  BY WidthAssumption
<1> HIDE DEF Next1
<1>3. Stepper(step, N, Lawful) /\ \A k \in 1..N, x \in Lawful : step[<<k, x>>] = Next1(k, x)
  BY <1>1 DEF Stepper
<1> HIDE DEF step
<1>4. PICK f : f \in [0..N -> Lawful]
                /\ f = [k \in 0..N |-> IF k = 0 THEN st ELSE step[<<k, f[k - 1]>>]]
  BY <1>2, <1>3, RecursionFunction
<1>5. f = [k \in 0..N |-> IF k = 0 THEN st ELSE Next1(k, f[k - 1])]
  <2>1. \A k \in 0..N : k # 0 => step[<<k, f[k - 1]>>] = Next1(k, f[k - 1])
    BY <1>2, <1>3, <1>4
  <2>2. QED
    BY <1>4, <2>1
<1> DEFINE After[k \in 0..N] ==
             IF k = 0 THEN st ELSE
             IF k - 1 \in S THEN z_gate(After[k - 1], k - 1) ELSE After[k - 1]
<1>6. After = [k \in 0..N |-> IF k = 0 THEN st ELSE Next1(k, After[k - 1])]
  BY <1>5 DEF Next1
<1>7. EachZ(st, S) = After[N]
  BY DEF EachZ, ApplyEach
<1> HIDE DEF After
<1>8. After[0] \in Lawful /\ \A k \in 1..N : After[k - 1] \in Lawful => After[k] \in Lawful
  BY <1>1, <1>2, <1>6
<1>9. After[N] \in Lawful
  BY <1>2, <1>8, StaysIn
<1>10. QED
  BY <1>7, <1>9

LEMMA EachYLawful ==
  ASSUME NEW st \in Lawful, NEW S \in SUBSET Qubits
  PROVE  EachY(st, S) \in Lawful
<1> DEFINE Next1(k, x) == IF k - 1 \in S THEN y_gate(x, k - 1) ELSE x
    step == [p \in (1..N) \X Lawful |-> Next1(p[1], p[2])]
<1>1. \A k \in 1..N, x \in Lawful : Next1(k, x) \in Lawful
  BY YLawful
<1>2. st \in Lawful /\ N \in Nat
  BY WidthAssumption
<1> HIDE DEF Next1
<1>3. Stepper(step, N, Lawful) /\ \A k \in 1..N, x \in Lawful : step[<<k, x>>] = Next1(k, x)
  BY <1>1 DEF Stepper
<1> HIDE DEF step
<1>4. PICK f : f \in [0..N -> Lawful]
                /\ f = [k \in 0..N |-> IF k = 0 THEN st ELSE step[<<k, f[k - 1]>>]]
  BY <1>2, <1>3, RecursionFunction
<1>5. f = [k \in 0..N |-> IF k = 0 THEN st ELSE Next1(k, f[k - 1])]
  <2>1. \A k \in 0..N : k # 0 => step[<<k, f[k - 1]>>] = Next1(k, f[k - 1])
    BY <1>2, <1>3, <1>4
  <2>2. QED
    BY <1>4, <2>1
<1> DEFINE After[k \in 0..N] ==
             IF k = 0 THEN st ELSE
             IF k - 1 \in S THEN y_gate(After[k - 1], k - 1) ELSE After[k - 1]
<1>6. After = [k \in 0..N |-> IF k = 0 THEN st ELSE Next1(k, After[k - 1])]
  BY <1>5 DEF Next1
<1>7. EachY(st, S) = After[N]
  BY DEF EachY, ApplyEach
<1> HIDE DEF After
<1>8. After[0] \in Lawful /\ \A k \in 1..N : After[k - 1] \in Lawful => After[k] \in Lawful
  BY <1>1, <1>2, <1>6
<1>9. After[N] \in Lawful
  BY <1>2, <1>8, StaysIn
<1>10. QED
  BY <1>7, <1>9

LEMMA EachXLawful ==
  ASSUME NEW st \in Lawful, NEW S \in SUBSET Qubits
  PROVE  EachX(st, S) \in Lawful
<1> DEFINE Next1(k, x) == IF k - 1 \in S THEN x_gate(x, k - 1) ELSE x
    step == [p \in (1..N) \X Lawful |-> Next1(p[1], p[2])]
<1>1. \A k \in 1..N, x \in Lawful : Next1(k, x) \in Lawful
  BY XLawful
<1>2. st \in Lawful /\ N \in Nat
  BY WidthAssumption
<1> HIDE DEF Next1
<1>3. Stepper(step, N, Lawful) /\ \A k \in 1..N, x \in Lawful : step[<<k, x>>] = Next1(k, x)
  BY <1>1 DEF Stepper
<1> HIDE DEF step
<1>4. PICK f : f \in [0..N -> Lawful]
                /\ f = [k \in 0..N |-> IF k = 0 THEN st ELSE step[<<k, f[k - 1]>>]]
  BY <1>2, <1>3, RecursionFunction
<1>5. f = [k \in 0..N |-> IF k = 0 THEN st ELSE Next1(k, f[k - 1])]
  <2>1. \A k \in 0..N : k # 0 => step[<<k, f[k - 1]>>] = Next1(k, f[k - 1])
    BY <1>2, <1>3, <1>4
  <2>2. QED
    BY <1>4, <2>1
<1> DEFINE After[k \in 0..N] ==
             IF k = 0 THEN st ELSE
             IF k - 1 \in S THEN x_gate(After[k - 1], k - 1) ELSE After[k - 1]
<1>6. After = [k \in 0..N |-> IF k = 0 THEN st ELSE Next1(k, After[k - 1])]
  BY <1>5 DEF Next1
<1>7. EachX(st, S) = After[N]
  BY DEF EachX, ApplyEach
<1> HIDE DEF After
<1>8. After[0] \in Lawful /\ \A k \in 1..N : After[k - 1] \in Lawful => After[k] \in Lawful
  BY <1>1, <1>2, <1>6
<1>9. After[N] \in Lawful
  BY <1>2, <1>8, StaysIn
<1>10. QED
  BY <1>7, <1>9

LEMMA PauliLawful ==
  ASSUME NEW st \in Lawful, NEW x \in SUBSET Qubits, NEW z \in SUBSET Qubits
  PROVE  apply_pauli(st, x, z) \in Lawful
<1>1. apply_pauli(st, x, z) = EachX(EachY(EachZ(st, z \ x), x \cap z), x \ z)
  BY DEF apply_pauli, EachX, EachY, EachZ, ApplyEach
<1>2. z \ x \in SUBSET Qubits /\ x \cap z \in SUBSET Qubits /\ x \ z \in SUBSET Qubits
  OBVIOUS
<1>3. EachZ(st, z \ x) \in Lawful
  BY <1>2, EachZLawful
<1>4. EachY(EachZ(st, z \ x), x \cap z) \in Lawful
  BY <1>2, <1>3, EachYLawful
<1>5. QED
  BY <1>1, <1>2, <1>4, EachXLawful

Sites == Seq(Qubits \X {"X", "Y", "Z"}) \ {<<>>}

LEMMA SiteParts ==
  ASSUME NEW sites \in Sites
  PROVE  /\ Len(sites) \in Nat /\ sites[1][1] \in Qubits
         /\ \A k \in 1..Len(sites) : sites[k][1] \in Qubits /\ sites[k][2] \in {"X", "Y", "Z"}
<1>1. sites \in Seq(Qubits \X {"X", "Y", "Z"}) /\ sites # <<>>
  BY DEF Sites
<1>2. Len(sites) \in Nat /\ 1 \in 1..Len(sites)
  BY <1>1
<1>3. \A k \in 1..Len(sites) : sites[k] \in Qubits \X {"X", "Y", "Z"}
  BY <1>1
<1>4. QED
  BY <1>2, <1>3

LEMMA ApplySitesLawful ==
  ASSUME NEW st \in Lawful, NEW sites
  PROVE  ApplySites(st, sites) \in Lawful
<1> DEFINE x == OnSites(sites, {"X", "Y"})
           z == OnSites(sites, {"Y", "Z"})
<1>1. x \in SUBSET Qubits /\ z \in SUBSET Qubits
  BY DEF OnSites
<1>2. ApplySites(st, sites) = apply_pauli(st, x, z)
  BY DEF ApplySites
<1> HIDE DEF x, z
<1>3. QED
  BY <1>1, <1>2, PauliLawful

\* The loops of sqrt_pauli.
ToZ(x, i) == IF i[2] = "Z" THEN x ELSE h_gate(IF i[2] = "Y" THEN sdg_gate(x, i[1]) ELSE x, i[1])
FromZ(x, i) ==
    CASE i[2] = "X" -> h_gate(x, i[1])
      [] i[2] = "Y" -> s_gate(h_gate(x, i[1]), i[1])
      [] i[2] = "Z" -> x
AllToZ(st, sites) == ForEach(ToZ, st, sites)
AllFromZ(st, sites) == ForEach(FromZ, st, sites)
Collected(st, sites, pivot) ==
    LET Collect(x, i) == IF i[1] = pivot THEN x ELSE cx_gate(x, i[1], pivot)
    IN  ForEach(Collect, st, sites)

LEMMA ToZLawful ==
  ASSUME NEW x \in Lawful, NEW i, i[1] \in Qubits
  PROVE  ToZ(x, i) \in Lawful
<1> DEFINE q == i[1]
<1> HIDE DEF q
<1>1. q \in Qubits
  BY DEF q
<1>2. h_gate(x, q) \in Lawful
  BY <1>1, HLawful
<1>3. h_gate(sdg_gate(x, q), q) \in Lawful
  BY <1>1, HLawful, SGatesLawful
<1>4. QED
  BY <1>2, <1>3 DEF ToZ, q

LEMMA FromZLawful ==
  ASSUME NEW x \in Lawful, NEW i, i[1] \in Qubits, i[2] \in {"X", "Y", "Z"}
  PROVE  FromZ(x, i) \in Lawful
<1> DEFINE q == i[1]
<1> HIDE DEF q
<1>1. q \in Qubits
  BY DEF q
<1>2. h_gate(x, q) \in Lawful
  BY <1>1, HLawful
<1>3. s_gate(h_gate(x, q), q) \in Lawful
  BY <1>1, <1>2, SGatesLawful
<1>4. QED
  BY <1>2, <1>3 DEF FromZ, q

LEMMA AllToZLawful ==
  ASSUME NEW st \in Lawful, NEW sites \in Sites
  PROVE  AllToZ(st, sites) \in Lawful
<1> DEFINE Next1(k, x) == ToZ(x, sites[k])
    step == [p \in (1..Len(sites)) \X Lawful |-> Next1(p[1], p[2])]
<1>1. \A k \in 1..Len(sites), x \in Lawful : Next1(k, x) \in Lawful
  BY ToZLawful, SiteParts
<1>2. st \in Lawful /\ Len(sites) \in Nat
  BY SiteParts
<1> HIDE DEF Next1
<1>3. Stepper(step, Len(sites), Lawful) /\ \A k \in 1..Len(sites), x \in Lawful : step[<<k, x>>] = Next1(k, x)
  BY <1>1 DEF Stepper
<1> HIDE DEF step
<1>4. PICK f : f \in [0..Len(sites) -> Lawful]
                /\ f = [k \in 0..Len(sites) |-> IF k = 0 THEN st ELSE step[<<k, f[k - 1]>>]]
  BY <1>2, <1>3, RecursionFunction
<1>5. f = [k \in 0..Len(sites) |-> IF k = 0 THEN st ELSE Next1(k, f[k - 1])]
  <2>1. \A k \in 0..Len(sites) : k # 0 => step[<<k, f[k - 1]>>] = Next1(k, f[k - 1])
    BY <1>2, <1>3, <1>4
  <2>2. QED
    BY <1>4, <2>1
<1> DEFINE After[k \in 0..Len(sites)] == IF k = 0 THEN st ELSE ToZ(After[k - 1], sites[k])
<1>6. After = [k \in 0..Len(sites) |-> IF k = 0 THEN st ELSE Next1(k, After[k - 1])]
  BY <1>5 DEF Next1
<1>7. AllToZ(st, sites) = After[Len(sites)]
  BY DEF AllToZ, ForEach
<1> HIDE DEF After
<1>8. After[0] \in Lawful /\ \A k \in 1..Len(sites) : After[k - 1] \in Lawful => After[k] \in Lawful
  BY <1>1, <1>2, <1>6
<1>9. After[Len(sites)] \in Lawful
  BY <1>2, <1>8, StaysIn
<1>10. QED
  BY <1>7, <1>9

LEMMA AllFromZLawful ==
  ASSUME NEW st \in Lawful, NEW sites \in Sites
  PROVE  AllFromZ(st, sites) \in Lawful
<1> DEFINE Next1(k, x) == FromZ(x, sites[k])
    step == [p \in (1..Len(sites)) \X Lawful |-> Next1(p[1], p[2])]
<1>1. \A k \in 1..Len(sites), x \in Lawful : Next1(k, x) \in Lawful
  BY FromZLawful, SiteParts
<1>2. st \in Lawful /\ Len(sites) \in Nat
  BY SiteParts
<1> HIDE DEF Next1
<1>3. Stepper(step, Len(sites), Lawful) /\ \A k \in 1..Len(sites), x \in Lawful : step[<<k, x>>] = Next1(k, x)
  BY <1>1 DEF Stepper
<1> HIDE DEF step
<1>4. PICK f : f \in [0..Len(sites) -> Lawful]
                /\ f = [k \in 0..Len(sites) |-> IF k = 0 THEN st ELSE step[<<k, f[k - 1]>>]]
  BY <1>2, <1>3, RecursionFunction
<1>5. f = [k \in 0..Len(sites) |-> IF k = 0 THEN st ELSE Next1(k, f[k - 1])]
  <2>1. \A k \in 0..Len(sites) : k # 0 => step[<<k, f[k - 1]>>] = Next1(k, f[k - 1])
    BY <1>2, <1>3, <1>4
  <2>2. QED
    BY <1>4, <2>1
<1> DEFINE After[k \in 0..Len(sites)] == IF k = 0 THEN st ELSE FromZ(After[k - 1], sites[k])
<1>6. After = [k \in 0..Len(sites) |-> IF k = 0 THEN st ELSE Next1(k, After[k - 1])]
  BY <1>5 DEF Next1
<1>7. AllFromZ(st, sites) = After[Len(sites)]
  BY DEF AllFromZ, ForEach
<1> HIDE DEF After
<1>8. After[0] \in Lawful /\ \A k \in 1..Len(sites) : After[k - 1] \in Lawful => After[k] \in Lawful
  BY <1>1, <1>2, <1>6
<1>9. After[Len(sites)] \in Lawful
  BY <1>2, <1>8, StaysIn
<1>10. QED
  BY <1>7, <1>9

LEMMA CollectedLawful ==
  ASSUME NEW st \in Lawful, NEW sites \in Sites, NEW pivot \in Qubits
  PROVE  Collected(st, sites, pivot) \in Lawful
<1> DEFINE Next1(k, x) == (IF sites[k][1] = pivot THEN x ELSE cx_gate(x, sites[k][1], pivot))
    step == [p \in (1..Len(sites)) \X Lawful |-> Next1(p[1], p[2])]
<1>1. \A k \in 1..Len(sites), x \in Lawful : Next1(k, x) \in Lawful
  BY CxLawful, SiteParts
<1>2. st \in Lawful /\ Len(sites) \in Nat
  BY SiteParts
<1> HIDE DEF Next1
<1>3. Stepper(step, Len(sites), Lawful) /\ \A k \in 1..Len(sites), x \in Lawful : step[<<k, x>>] = Next1(k, x)
  BY <1>1 DEF Stepper
<1> HIDE DEF step
<1>4. PICK f : f \in [0..Len(sites) -> Lawful]
                /\ f = [k \in 0..Len(sites) |-> IF k = 0 THEN st ELSE step[<<k, f[k - 1]>>]]
  BY <1>2, <1>3, RecursionFunction
<1>5. f = [k \in 0..Len(sites) |-> IF k = 0 THEN st ELSE Next1(k, f[k - 1])]
  <2>1. \A k \in 0..Len(sites) : k # 0 => step[<<k, f[k - 1]>>] = Next1(k, f[k - 1])
    <3>1. \A k \in 1..Len(sites) : k - 1 \in 0..Len(sites)
      BY <1>2
    <3>2. \A k \in 1..Len(sites) : f[k - 1] \in Lawful
      BY <1>4, <3>1
    <3>3. QED
      BY <1>2, <1>3, <3>2
  <2>2. QED
    BY <1>4, <2>1
<1> DEFINE After[k \in 0..Len(sites)] == IF k = 0 THEN st ELSE (IF sites[k][1] = pivot THEN After[k - 1] ELSE cx_gate(After[k - 1], sites[k][1], pivot))
<1>6. After = [k \in 0..Len(sites) |-> IF k = 0 THEN st ELSE Next1(k, After[k - 1])]
  BY <1>5 DEF Next1
<1>7. Collected(st, sites, pivot) = After[Len(sites)]
  BY DEF Collected, ForEach
<1> HIDE DEF After
<1>8. After[0] \in Lawful /\ \A k \in 1..Len(sites) : After[k - 1] \in Lawful => After[k] \in Lawful
  BY <1>1, <1>2, <1>6
<1>9. After[Len(sites)] \in Lawful
  BY <1>2, <1>8, StaysIn
<1>10. QED
  BY <1>7, <1>9

LEMMA RootLawful ==
  ASSUME NEW st \in Lawful, NEW sites \in Sites, NEW dagger
  PROVE  sqrt_pauli(st, sites, dagger) \in Lawful
<1> DEFINE pivot == sites[1][1]
           onPivot == Collected(AllToZ(st, sites), sites, pivot)
           k == IF dagger THEN 1 ELSE 3
           z == Ei(IF dagger THEN 1 ELSE -1)
           turned == PhaseShift(onPivot, pivot, k)
<1>1. sqrt_pauli(st, sites, dagger)
        = scale_phase(AllFromZ(Collected(turned, sites, pivot), sites), z)
  BY DEF sqrt_pauli, AllFromZ, AllToZ, Collected, FromZ, ToZ, ForEach
<1>2. pivot \in Qubits
  BY SiteParts
<1>3. k \in {1, 3}
  OBVIOUS
<1>4. z \in Phases
  <2> DEFINE m == IF dagger THEN 1 ELSE -1
  <2>1. m \in Int
    OBVIOUS
  <2> HIDE DEF m
  <2>2. Ei(m) \in Phases
    BY <2>1, EiPhase
  <2>3. QED
    BY <2>2 DEF m
<1> HIDE DEF pivot, k, z
<1>5. onPivot \in Lawful
  BY <1>2, AllToZLawful, CollectedLawful
<1> HIDE DEF onPivot
<1>6. turned \in Lawful
  BY <1>2, <1>3, <1>5, PhaseShiftLawful
<1> HIDE DEF turned
<1>7. AllFromZ(Collected(turned, sites, pivot), sites) \in Lawful
  BY <1>2, <1>6, CollectedLawful, AllFromZLawful
<1>8. QED
  BY <1>1, <1>4, <1>7, ScaleLawful

-----------------------------------------------------------------------------
(* Sums of branches.  The coefficients may be anything: no law speaks of   *)
(* them.                                                                   *)

Branches(C) == [c : C, st : Lawful]
LawfulSum(sum0) == \E C : sum0 \in Seq(Branches(C))

LEMMA SumParts ==
  ASSUME NEW C, NEW x \in Seq(Branches(C))
  PROVE  /\ Len(x) \in Nat /\ DOMAIN x = 1..Len(x)
         /\ \A i \in DOMAIN x : x[i] \in Branches(C) /\ x[i].c \in C /\ x[i].st \in Lawful
<1>1. Len(x) \in Nat /\ DOMAIN x = 1..Len(x) /\ \A i \in DOMAIN x : x[i] \in Branches(C)
  OBVIOUS
<1>2. \A b \in Branches(C) : b.c \in C /\ b.st \in Lawful
  BY DEF Branches
<1>3. QED
  BY <1>1, <1>2

LEMMA FunctionIsSequence ==
  ASSUME NEW n \in Nat, NEW S, NEW f \in [1..n -> S]
  PROVE  f \in Seq(S)
OBVIOUS

LEMMA ScaleSum ==
  ASSUME NEW x, LawfulSum(x), NEW z
  PROVE  LawfulSum(scale(x, z))
<1>1. PICK C : x \in Seq(Branches(C))
  BY DEF LawfulSum
<1> DEFINE D == {Times(c, z) : c \in C}
           y == scale(x, z)
<1>2. y = [i \in DOMAIN x |-> [x[i] EXCEPT !.c = Times(@, z)]]
  BY DEF scale
<1>3. ASSUME NEW i \in DOMAIN x
      PROVE  [x[i] EXCEPT !.c = Times(@, z)] \in Branches(D)
  <2> DEFINE b == x[i]
             c2 == Times(b.c, z)
  <2>1. b \in Branches(C) /\ c2 \in D
    BY <1>1, SumParts
  <2> HIDE DEF b, D
  <2>2. [b EXCEPT !.c = Times(@, z)] = [c |-> c2, st |-> b.st] /\ b.st \in Lawful
    BY <2>1 DEF Branches
  <2> HIDE DEF c2
  <2>3. [c |-> c2, st |-> b.st] \in Branches(D)
    BY <2>1, <2>2 DEF Branches
  <2>4. QED
    BY <2>2, <2>3 DEF b, c2
<1> HIDE DEF D, y
<1>4. y \in [1..Len(x) -> Branches(D)] /\ Len(x) \in Nat
  BY <1>1, <1>2, <1>3, SumParts
<1>5. y \in Seq(Branches(D))
  BY <1>4, FunctionIsSequence
<1>6. QED
  BY <1>5 DEF LawfulSum, y

\* A gate on every branch.
LEMMA EachBranch ==
  ASSUME NEW x, LawfulSum(x), NEW f, \A i \in DOMAIN x : f[i] \in Lawful
  PROVE  LawfulSum([i \in DOMAIN x |-> [x[i] EXCEPT !.st = f[i]]])
<1>1. PICK C : x \in Seq(Branches(C))
  BY DEF LawfulSum
<1> DEFINE y == [i \in DOMAIN x |-> [x[i] EXCEPT !.st = f[i]]]
<1>2. ASSUME NEW i \in DOMAIN x
      PROVE  [x[i] EXCEPT !.st = f[i]] \in Branches(C)
  <2> DEFINE b == x[i]
  <2>1. b \in Branches(C) /\ f[i] \in Lawful
    BY <1>1, SumParts
  <2> HIDE DEF b
  <2>2. [b EXCEPT !.st = f[i]] \in Branches(C)
    BY <2>1 DEF Branches
  <2>3. QED
    BY <2>2 DEF b
<1>3. y \in [1..Len(x) -> Branches(C)] /\ Len(x) \in Nat
  BY <1>1, <1>2, SumParts
<1> HIDE DEF y
<1>4. y \in Seq(Branches(C))
  BY <1>3, FunctionIsSequence
<1>5. QED
  BY <1>4 DEF LawfulSum, y

LEMMA StatesLawful ==
  ASSUME NEW x, LawfulSum(x)
  PROVE  \A i \in DOMAIN x : x[i].st \in Lawful
<1>1. PICK C : x \in Seq(Branches(C))
  BY DEF LawfulSum
<1>2. QED
  BY <1>1, SumParts

LEMMA QuarterTurnSum ==
  ASSUME NEW x, LawfulSum(x), NEW sites \in Sites, NEW k
  PROVE  LawfulSum(QuarterTurn(x, sites, k))
<1> DEFINE odd == k % 2 = 1
           dagger == k % 4 = 3
           f == [i \in DOMAIN x |-> IF odd THEN sqrt_pauli(x[i].st, sites, dagger)
                                    ELSE ApplySites(x[i].st, sites)]
           turned == [i \in DOMAIN x |-> [x[i] EXCEPT !.st = f[i]]]
           y == IF k % 4 = 0 THEN x ELSE turned
           z == CASE k \in {0, 1, 7} -> One
                  [] k \in {3, 4, 5} -> Neg(One)
                  [] k = 2 -> Neg(ImUnit)
                  [] k = 6 -> ImUnit
<1>1. \A i \in DOMAIN x : f[i] \in Lawful
  BY StatesLawful, RootLawful, ApplySitesLawful
<1>2. QuarterTurn(x, sites, k) = scale(y, z)
  <2> HIDE DEF z
  <2>1. turned = [i \in DOMAIN x |->
                    [x[i] EXCEPT !.st = IF odd THEN sqrt_pauli(x[i].st, sites, dagger)
                                        ELSE ApplySites(x[i].st, sites)]]
    OBVIOUS
  <2> HIDE DEF turned
  <2>2. QED
    BY <2>1 DEF QuarterTurn, clifford, z
<1> HIDE DEF f, z
<1>3. LawfulSum(turned)
  BY <1>1, EachBranch
<1> HIDE DEF turned
<1>4. LawfulSum(y)
  BY <1>3
<1> HIDE DEF y
<1>5. QED
  BY <1>2, <1>4, ScaleSum

LEMMA RefusedSum == LawfulSum(Refused)
<1>1. Refused \in Seq(Branches({}))
  BY DEF Refused
<1>2. QED
  BY <1>1 DEF LawfulSum

LEMMA PhasedSplitSum ==
  ASSUME NEW x, LawfulSum(x), NEW sites, NEW m
  PROVE  LawfulSum(PhasedSplit(x, sites, m))
<1>1. PICK C : x \in Seq(Branches(C))
  BY DEF LawfulSum
<1> DEFINE half == Dyadic(1, 1)
           keep == Times(half, Plus(One, Ei(m)))
           flip == Times(half, Minus(One, Ei(m)))
           D == {Times(c, keep) : c \in C} \cup {Times(c, flip) : c \in C}
           Legs(br) == <<[c |-> Times(br.c, flip), st |-> ApplySites(br.st, sites)],
                         [c |-> Times(br.c, keep), st |-> br.st]>>
           y == [i \in 1..(2 * Len(x)) |-> Legs(x[(i + 1) \div 2])[2 - (i % 2)]]
<1>2. PhasedSplit(x, sites, m) = IF 2 * Len(x) > max_branches THEN Refused ELSE y
  BY DEF PhasedSplit
<1>3. ASSUME NEW b \in Branches(C), NEW j \in 1..2
      PROVE  Legs(b)[j] \in Branches(D)
  <2>1. b.c \in C /\ b.st \in Lawful
    BY DEF Branches
  <2>2. Times(b.c, flip) \in D /\ Times(b.c, keep) \in D
    BY <2>1
  <2>3. ApplySites(b.st, sites) \in Lawful
    BY <2>1, ApplySitesLawful
  <2> HIDE DEF D, keep, flip
  <2>4. /\ [c |-> Times(b.c, flip), st |-> ApplySites(b.st, sites)] \in Branches(D)
        /\ [c |-> Times(b.c, keep), st |-> b.st] \in Branches(D)
    BY <2>1, <2>2, <2>3 DEF Branches
  <2>5. QED
    BY <2>4
<1> HIDE DEF D, Legs
<1>4. Len(x) \in Nat /\ DOMAIN x = 1..Len(x) /\ \A i \in DOMAIN x : x[i] \in Branches(C)
  BY <1>1, SumParts
<1>5. \A i \in 1..(2 * Len(x)) : (i + 1) \div 2 \in 1..Len(x) /\ 2 - (i % 2) \in 1..2
  BY <1>4
<1>6. \A i \in 1..(2 * Len(x)) : Legs(x[(i + 1) \div 2])[2 - (i % 2)] \in Branches(D)
  BY <1>3, <1>4, <1>5
<1>7. y \in [1..(2 * Len(x)) -> Branches(D)] /\ 2 * Len(x) \in Nat
  BY <1>4, <1>6
<1> HIDE DEF y
<1>8. y \in Seq(Branches(D))
  BY <1>7, FunctionIsSequence
<1>9. LawfulSum(y)
  BY <1>8 DEF LawfulSum
<1>10. QED
  BY <1>2, <1>9, RefusedSum

LEMMA PhasedRotationSum ==
  ASSUME NEW x, LawfulSum(x), NEW sites \in Sites, NEW th
  PROVE  LawfulSum(PhasedRotation(x, sites, th))
BY QuarterTurnSum, PhasedSplitSum, ScaleSum DEF PhasedRotation

-----------------------------------------------------------------------------
(* The gate table of the engine.                                           *)

TurnsDone(x, turns) ==
    LET Turned(s, turn) == QuarterTurn(s, turn[1], (turn[2] \div 2) % 8)
    IN  ForEach(Turned, x, turns)

LEMMA TurnsDoneSum ==
  ASSUME NEW x, LawfulSum(x), NEW turns, NEW n \in {1, 2}, Len(turns) = n,
         \A k \in 1..n : turns[k][1] \in Sites
  PROVE  LawfulSum(TurnsDone(x, turns))
<1> DEFINE Next1(k, s) == QuarterTurn(s, turns[k][1], (turns[k][2] \div 2) % 8)
<1>1. \A k \in 1..n : \A s : LawfulSum(s) => LawfulSum(Next1(k, s))
  BY QuarterTurnSum
<1> HIDE DEF Next1
<1>2. \E f : f = [k \in 0..n |-> IF k = 0 THEN x ELSE Next1(k, f[k - 1])]
  <2> DEFINE one == Next1(1, x)
             two == Next1(2, one)
             f == [k \in 0..n |-> IF k = 0 THEN x ELSE IF k = 1 THEN one ELSE two]
  <2>1. \A k \in 0..n : f[k] = IF k = 0 THEN x ELSE Next1(k, f[k - 1])
    <3>1. f[0] = x /\ f[1] = one /\ (n = 2 => f[2] = two)
      OBVIOUS
    <3>2. \A k \in 0..n : k = 0 \/ (k = 1 /\ k - 1 = 0) \/ (n = 2 /\ k = 2 /\ k - 1 = 1)
      OBVIOUS
    <3> HIDE DEF f
    <3>3. QED
      BY <3>1, <3>2
  <2>2. f = [k \in 0..n |-> IF k = 0 THEN x ELSE Next1(k, f[k - 1])]
    BY <2>1
  <2>3. QED
    BY <2>2
<1> DEFINE After[k \in 0..n] ==
             IF k = 0 THEN x
             ELSE QuarterTurn(After[k - 1], turns[k][1], (turns[k][2] \div 2) % 8)
<1>3. After = [k \in 0..n |-> IF k = 0 THEN x ELSE Next1(k, After[k - 1])]
  BY <1>2 DEF Next1
<1>4. TurnsDone(x, turns) = After[n]
  BY DEF TurnsDone, ForEach
<1> HIDE DEF After
<1>5. After[0] = x /\ After[1] = Next1(1, After[0])
  <2>1. 0 \in 0..n /\ 1 \in 0..n /\ 1 - 1 = 0
    OBVIOUS
  <2>2. QED
    BY <1>3, <2>1
<1>6. n = 2 => After[2] = Next1(2, After[1])
  <2>1. n = 2 => 2 \in 0..n /\ 2 - 1 = 1
    OBVIOUS
  <2>2. QED
    BY <1>3, <2>1
<1>7. LawfulSum(After[1])
  BY <1>1, <1>5
<1>8. n = 2 => LawfulSum(After[2])
  BY <1>1, <1>6, <1>7
<1>9. QED
  BY <1>4, <1>7, <1>8

LEMMA OneSite ==
  ASSUME NEW q \in Qubits, NEW a \in {"X", "Y", "Z"}
  PROVE  <<<<q, a>>>> \in Sites
BY DEF Sites

LEMMA TwoSites ==
  ASSUME NEW q \in Qubits, NEW a \in {"X", "Y", "Z"}, NEW r \in Qubits, NEW b \in {"X", "Y", "Z"}
  PROVE  <<<<q, a>>, <<r, b>>>> \in Sites
BY DEF Sites

LEMMA TurnsSites ==
  ASSUME NEW g, g.op \in {"Rx", "Ry", "Rz", "Rbs"},
         g.qs[1] \in Qubits, g.qs[Len(g.qs)] \in Qubits
  PROVE  /\ Len(Turns(g)) \in {1, 2}
         /\ \A k \in 1..Len(Turns(g)) : Turns(g)[k][1] \in Sites
<1> DEFINE q == g.qs[1]
           r == g.qs[Len(g.qs)]
           x == <<<<q, "X">>>>
           y == <<<<q, "Y">>>>
           z == <<<<q, "Z">>>>
           yx == <<<<q, "Y">>, <<r, "X">>>>
           xy == <<<<q, "X">>, <<r, "Y">>>>
           th == g.th[1]
           back == -th
<1>1. /\ x \in Sites /\ y \in Sites /\ z \in Sites
      /\ yx \in Sites /\ xy \in Sites
  BY OneSite, TwoSites
<1>2. /\ g.op = "Rx" => Turns(g) = <<<<x, th>>>>
      /\ g.op = "Ry" => Turns(g) = <<<<y, th>>>>
      /\ g.op = "Rz" => Turns(g) = <<<<z, th>>>>
      /\ g.op = "Rbs" => Turns(g) = <<<<yx, th>>, <<xy, back>>>>
  BY DEF Turns
<1> HIDE DEF x, y, z, yx, xy, th, back
<1>3. \A s \in Sites : \A e : /\ Len(<<<<s, e>>>>) = 1
                              /\ \A k \in 1..1 : <<<<s, e>>>>[k][1] \in Sites
  OBVIOUS
<1>4. \A s, t \in Sites : \A e, f : /\ Len(<<<<s, e>>, <<t, f>>>>) = 2
                                    /\ \A k \in 1..2 : <<<<s, e>>, <<t, f>>>>[k][1] \in Sites
  OBVIOUS
<1>5. CASE g.op = "Rbs"
  <2> DEFINE both == <<<<yx, th>>, <<xy, back>>>>
  <2>1. Turns(g) = both
    BY <1>2, <1>5
  <2>2. Len(both) = 2 /\ \A k \in 1..2 : both[k][1] \in Sites
    BY <1>1, <1>4
  <2> HIDE DEF both
  <2>3. QED
    BY <2>1, <2>2
<1>6. CASE g.op # "Rbs"
  BY <1>1, <1>2, <1>3, <1>6
<1>7. QED
  BY <1>5, <1>6

\* The Clifford gates on one branch.
Table(st, g) ==
    LET q == g.qs[1]
        r == g.qs[Len(g.qs)]
    IN  CASE g.op = "X"    -> x_gate(st, q)
          [] g.op = "Y"    -> y_gate(st, q)
          [] g.op = "Z"    -> z_gate(st, q)
          [] g.op = "H"    -> h_gate(st, q)
          [] g.op = "S"    -> s_gate(st, q)
          [] g.op = "Sdg"  -> sdg_gate(st, q)
          [] g.op = "Sx"   -> sx_gate(st, q)
          [] g.op = "Sxdg" -> sxdg_gate(st, q)
          [] g.op = "CX"   -> cx_gate(st, q, r)
          [] g.op = "CY"   -> cy_gate(st, q, r)
          [] g.op = "CZ"   -> cz_gate(st, q, r)
          [] g.op = "Swap" -> swap_gate(st, q, r)

OneWireTable == {"X", "Y", "Z", "H", "S", "Sdg", "Sx", "Sxdg"}
TwoWireTable == {"CX", "CY", "CZ", "Swap"}

LEMMA TableLawful ==
  ASSUME NEW st \in Lawful, NEW g, g.op \in OneWireTable \cup TwoWireTable,
         g.qs[1] \in Qubits, g.qs[Len(g.qs)] \in Qubits,
         g.op \in TwoWireTable => g.qs[1] # g.qs[Len(g.qs)]
  PROVE  Table(st, g) \in Lawful
<1> DEFINE q == g.qs[1]
           r == g.qs[Len(g.qs)]
<1> HIDE DEF q, r
<1>1. q \in Qubits /\ r \in Qubits /\ (g.op \in TwoWireTable => q # r)
  BY DEF q, r
<1>2. /\ x_gate(st, q) \in Lawful /\ y_gate(st, q) \in Lawful /\ z_gate(st, q) \in Lawful
      /\ h_gate(st, q) \in Lawful /\ s_gate(st, q) \in Lawful /\ sdg_gate(st, q) \in Lawful
      /\ sx_gate(st, q) \in Lawful /\ sxdg_gate(st, q) \in Lawful
  BY <1>1, XLawful, YLawful, ZLawful, HLawful, SGatesLawful, SxLawful
<1>3. q # r => /\ cx_gate(st, q, r) \in Lawful /\ cy_gate(st, q, r) \in Lawful
               /\ cz_gate(st, q, r) \in Lawful /\ swap_gate(st, q, r) \in Lawful
  BY <1>1, CxLawful, CzLawful, CompositesLawful
<1>4. CASE g.op \in OneWireTable
  BY <1>2, <1>4 DEF Table, OneWireTable, q, r
<1>5. CASE g.op \in TwoWireTable
  BY <1>1, <1>3, <1>5 DEF Table, TwoWireTable, q, r
<1>6. QED
  BY <1>4, <1>5

LEMMA WiresOf ==
  ASSUME NEW g, Wired(g), g.op \in OnOne \cup OnTwo
  PROVE  /\ g.qs[1] \in Qubits /\ g.qs[Len(g.qs)] \in Qubits
         /\ g.op \in TwoWireTable => g.qs[1] # g.qs[Len(g.qs)]
<1>1. g.qs \in Seq(Qubits) /\ Len(g.qs) \in {1, 2} /\ (g.op \in OnTwo => Len(g.qs) = 2 /\ g.qs[1] # g.qs[2])
  BY DEF Wired
<1>2. 1 \in 1..Len(g.qs) /\ Len(g.qs) \in 1..Len(g.qs)
  <2> DEFINE n == Len(g.qs)
  <2> HIDE DEF n
  <2>1. n \in {1, 2}
    BY <1>1 DEF n
  <2>2. 1 \in 1..n /\ n \in 1..n
    BY <2>1
  <2>3. QED
    BY <2>2 DEF n
<1>3. g.op \in TwoWireTable => g.op \in OnTwo
  BY DEF TwoWireTable, OnTwo, Controlled
<1>4. QED
  BY <1>1, <1>2, <1>3

LEMMA SumGateLawful ==
  ASSUME NEW x, LawfulSum(x), NEW g, Wired(g)
  PROVE  LawfulSum(SumGate(x, g))
<1> DEFINE q == g.qs[1]
           Eighths == CASE g.op = "T" -> 1 [] g.op = "Tdg" -> -1 [] g.op = "U1" -> g.th[1]
           every == [i \in DOMAIN x |-> [x[i] EXCEPT !.st = Table(x[i].st, g)]]
<1>1. SumGate(x, g) =
        CASE g.op \in {"Id", "Barrier"} -> x
          [] g.op \in {"T", "Tdg", "U1"} -> PhasedRotation(x, <<<<q, "Z">>>>, Eighths)
          [] g.op \in {"Rx", "Ry", "Rz", "Rbs"} -> TurnsDone(x, Turns(g))
          [] g.op \in {"U2", "U3", "CRz", "CU3", "CCX", "CSwap", "Measure", "Reset"} -> Refused
          [] OTHER -> every
  BY DEF SumGate, TurnsDone, ForEach, clifford, Table
<1> HIDE DEF Eighths, every
<1>2. g.op \in OnOne \cup OnTwo \cup OnThree \cup OnAny
  BY DEF Wired
<1>3. CASE g.op \in {"T", "Tdg", "U1"}
  <2>1. q \in Qubits
    BY <1>3, WiresOf DEF OnOne, OneQubit
  <2> HIDE DEF q
  <2>2. <<<<q, "Z">>>> \in Sites
    BY <2>1, OneSite
  <2>3. LawfulSum(PhasedRotation(x, <<<<q, "Z">>>>, Eighths))
    BY <2>2, PhasedRotationSum
  <2>4. QED
    BY <1>1, <1>3, <2>3
<1>4. CASE g.op \in {"Rx", "Ry", "Rz", "Rbs"}
  <2>1. g.qs[1] \in Qubits /\ g.qs[Len(g.qs)] \in Qubits
    BY <1>4, WiresOf DEF OnOne, OnTwo, OneQubit
  <2>2. LawfulSum(TurnsDone(x, Turns(g)))
    BY <1>4, <2>1, TurnsSites, TurnsDoneSum
  <2>3. QED
    BY <1>1, <1>4, <2>2
<1>5. CASE g.op \in OneWireTable \cup TwoWireTable
  <2>1. /\ g.qs[1] \in Qubits /\ g.qs[Len(g.qs)] \in Qubits
        /\ g.op \in TwoWireTable => g.qs[1] # g.qs[Len(g.qs)]
    BY <1>5, WiresOf DEF OnOne, OnTwo, OneQubit, Controlled, OneWireTable, TwoWireTable
  <2> DEFINE f == [i \in DOMAIN x |-> Table(x[i].st, g)]
  <2>2. \A i \in DOMAIN x : f[i] \in Lawful
    BY <1>5, <2>1, StatesLawful, TableLawful
  <2>3. every = [i \in DOMAIN x |-> [x[i] EXCEPT !.st = f[i]]]
    BY DEF every
  <2> HIDE DEF f
  <2>4. LawfulSum(every)
    BY <2>2, <2>3, EachBranch
  <2>5. SumGate(x, g) = every
    BY <1>1, <1>5 DEF OneWireTable, TwoWireTable
  <2>6. QED
    BY <2>4, <2>5
<1>6. CASE g.op \in {"Id", "Barrier"}
  BY <1>1, <1>6
<1>7. CASE g.op \in {"U2", "U3", "CRz", "CU3", "CCX", "CSwap", "Measure", "Reset"}
  BY <1>1, <1>7, RefusedSum
<1>8. QED
  BY <1>2, <1>3, <1>4, <1>5, <1>6, <1>7
     DEF OnOne, OnTwo, OnThree, OnAny, OneQubit, Controlled, OneWireTable, TwoWireTable

LEMMA ZeroLawful == ChZero \in Lawful
<1> DEFINE zeros == [q \in Qubits |-> 0]
<1>1. Diagonal \in Relations /\ {} \in Relations
  BY DEF Diagonal, Relations
<1>2. One \in Phases
  BY SmallPhases
<1>3. zeros \in [Qubits -> 0..3] /\ \A q \in Qubits : zeros[q] % 2 = 0
  OBVIOUS
<1>4. \A p \in Qubits : Row(Diagonal, p) = {p} /\ Row({}, p) = {}
  BY DEF Row, Diagonal
<1> HIDE DEF zeros
<1>5. Dual(Diagonal, Diagonal)
  BY <1>4, DotOne DEF Dual
<1>6. \A p, r \in Qubits : ~Dot(Row(Diagonal, p), Row({}, r))
  BY <1>4, DotOne
<1>7. Laws(Diagonal, Diagonal, {}, zeros)
  BY <1>3, <1>5, <1>6 DEF Laws, Even, Symmetric
<1>8. ChZero = [F |-> Diagonal, G |-> Diagonal, M |-> {}, gamma |-> zeros,
                v |-> {}, s |-> {}, om |-> One]
  BY DEF ChZero, zeros
<1> DEFINE y == ChZero
<1> HIDE DEF y
<1>9. y \in Forms /\ y.F = Diagonal /\ y.G = Diagonal /\ y.M = {} /\ y.gamma = zeros
  BY <1>1, <1>2, <1>3, <1>8 DEF Forms, y
<1>10. y \in Lawful
  BY <1>7, <1>9 DEF Lawful
<1>11. QED
  BY <1>10 DEF y

-----------------------------------------------------------------------------
(* The invariant.                                                          *)

\* Every branch is lawful, and what is left to run is wired.
BranchInv == todo \in Seq(ScriptGates) /\ LawfulSum(sum)

LEMMA BranchInit == Init => BranchInv
<1> SUFFICES ASSUME Init PROVE BranchInv
  OBVIOUS
<1>1. todo \in Seq(ScriptGates)
  BY GatesAssumption DEF Init
<1>2. sum = <<[c |-> One, st |-> ChZero]>>
  BY DEF Init, SumZero
<1>3. [c |-> One, st |-> ChZero] \in Branches({One})
  BY ZeroLawful DEF Branches
<1>4. sum \in Seq(Branches({One}))
  BY <1>2, <1>3
<1>5. QED
  BY <1>1, <1>4 DEF BranchInv, LawfulSum

LEMMA BranchApply ==
  ASSUME LawfulSum(sum), NEW g, Wired(g), Apply(g)
  PROVE  LawfulSum(sum')
<1>1. sum' = IF sum = Refused THEN Refused ELSE SumGate(sum, g)
  BY DEF Apply
<1>2. QED
  BY <1>1, RefusedSum, SumGateLawful

LEMMA BranchNext == BranchInv /\ [Next]_vars => BranchInv'
<1> SUFFICES ASSUME BranchInv, [Next]_vars PROVE BranchInv'
  OBVIOUS
<1>1. todo \in Seq(ScriptGates) /\ LawfulSum(sum)
  BY DEF BranchInv
<1>2. CASE Scripted
  <2>1. Head(todo) \in ScriptGates /\ Tail(todo) \in Seq(ScriptGates)
    BY <1>1, <1>2 DEF Scripted
  <2>2. Wired(Head(todo))
    BY <2>1, GatesAssumption
  <2>3. Apply(Head(todo)) /\ todo' = Tail(todo)
    BY <1>2 DEF Scripted
  <2>4. LawfulSum(sum')
    BY <1>1, <2>2, <2>3, BranchApply
  <2>5. QED
    BY <2>1, <2>3, <2>4 DEF BranchInv, LawfulSum
<1>3. CASE FreeGate
  <2>1. PICK g \in Gates : Apply(g)
    BY <1>3 DEF FreeGate
  <2>2. Wired(g)
    BY GatesAssumption
  <2>3. LawfulSum(sum')
    BY <1>1, <2>1, <2>2, BranchApply
  <2>4. todo' = todo
    BY <1>3 DEF FreeGate
  <2>5. QED
    BY <1>1, <2>3, <2>4 DEF BranchInv, LawfulSum
<1>4. ASSUME NEW q \in Qubits, Measure(q) \/ ResetShot(q)
      PROVE  BranchInv'
  <2>1. sum' = Refused /\ todo' = todo
    BY <1>4 DEF Measure, ResetShot
  <2>2. LawfulSum(sum')
    BY <2>1, RefusedSum
  <2>3. QED
    BY <1>1, <2>1, <2>2 DEF BranchInv, LawfulSum
<1>5. CASE UNCHANGED vars
  BY <1>1, <1>5 DEF BranchInv, LawfulSum, vars
<1>6. QED
  BY <1>2, <1>3, <1>4, <1>5 DEF Next

LEMMA LawfulIsAState ==
  ASSUME NEW st \in Lawful
  PROVE  check_invariants(st) /\ Norm2(st.om) = One
<1>1. st.om \in Phases /\ Dual(st.F, st.G) /\ Even(st.F, st.M, st.gamma)
  BY LawfulParts DEF Laws
<1>2. Norm2(st.om) = One
  BY <1>1, PhaseNorm
<1>3. check_invariants(st)
  BY <1>1 DEF check_invariants, Dual, Even, Dot
<1>4. QED
  BY <1>2, <1>3

\* Whatever circuit runs, on every branch of the sum the rows of F and G stay
\* dual, the powers of i have the parity of F.M, and the scalar has modulus 1:
\* the laws that the updates of the kernel rely on and check only in tests
\* (chform.rs check_invariants; cx, h, desuperpose; sum.rs apply_gate).
THEOREM BranchesStayStates == Spec => []BranchesAreStates
<1>1. Init => BranchInv
  BY BranchInit
<1>2. BranchInv /\ [Next]_vars => BranchInv'
  BY BranchNext
<1>3. BranchInv => BranchesAreStates
  BY StatesLawful, LawfulIsAState DEF BranchInv, BranchesAreStates
<1>4. QED
  BY <1>1, <1>2, <1>3, PTL DEF Spec

-----------------------------------------------------------------------------
(* The rows of the tableau as operators that fix the dense vector.         *)

HalfTurn(neg) == IF neg THEN 4 ELSE 0

\* The power of exp(i pi/4) that the row r puts on the basis state b.
Exponent(r, b) == 2 * Cardinality(r.x \cap r.z) + 4 * Cardinality(r.z \cap b) + HalfTurn(r.neg)

Fixes(r, v) == \A b \in Basis : v[SymDiff(b, r.x)] = Times(Ei(Exponent(r, b)), v[b])

\* The same outside some wires, and on one wire.
Rest(r, b, W) == 2 * Cardinality((r.x \cap r.z) \ W) + 4 * Cardinality((r.z \cap b) \ W)
Wire(x, z, c) == (IF x /\ z THEN 2 ELSE 0) + (IF z /\ c THEN 4 ELSE 0)

\* A finite set with and without one element.
LEMMA CardSplit ==
  ASSUME NEW S, IsFiniteSet(S), NEW q
  PROVE  /\ Cardinality(S) \in Nat /\ IsFiniteSet(S \ {q}) /\ Cardinality(S \ {q}) \in Nat
         /\ Cardinality(S) = Cardinality(S \ {q}) + (IF q \in S THEN 1 ELSE 0)
<1>1. IsFiniteSet(S \ {q}) /\ Cardinality(S) \in Nat /\ Cardinality(S \ {q}) \in Nat
  BY FS_Subset, FS_CardinalityType
<1>2. CASE q \in S
  BY <1>1, <1>2, FS_RemoveElement
<1>3. CASE q \notin S
  <2>1. S \ {q} = S
    BY <1>3
  <2>2. Cardinality(S \ {q}) = Cardinality(S)
    BY <2>1
  <2> DEFINE m == Cardinality(S) n == Cardinality(S \ {q})
  <2>3. m \in Nat /\ n \in Nat /\ n = m
    BY <1>1, <2>2
  <2> HIDE DEF m, n
  <2>4. m = n + (IF q \in S THEN 1 ELSE 0)
    BY <1>3, <2>3
  <2>5. QED
    BY <1>1, <2>4 DEF m, n
<1>4. QED
  BY <1>2, <1>3

LEMMA RowParts ==
  ASSUME NEW r \in Rows, NEW b \in Basis
  PROVE  /\ r.x \in Basis /\ r.z \in Basis /\ r.neg \in BOOLEAN /\ SymDiff(b, r.x) \in Basis
         /\ IsFiniteSet(r.x \cap r.z) /\ IsFiniteSet(r.z \cap b)
<1>1. r.x \in Basis /\ r.z \in Basis /\ r.neg \in BOOLEAN
  BY DEF Rows, Basis
<1>2. SymDiff(b, r.x) \in Basis
  BY <1>1 DEF SymDiff, Basis
<1>3. IsFiniteSet(r.x) /\ IsFiniteSet(r.z)
  BY <1>1, BasisFinite
<1>4. IsFiniteSet(r.x \cap r.z) /\ IsFiniteSet(r.z \cap b)
  BY <1>3, FS_Subset
<1>5. QED
  BY <1>1, <1>2, <1>4

LEMMA SplitOne ==
  ASSUME NEW r \in Rows, NEW b \in Basis, NEW q
  PROVE  /\ Rest(r, b, {q}) \in Nat
         /\ Exponent(r, b) = Rest(r, b, {q}) + Wire(q \in r.x, q \in r.z, q \in b) + HalfTurn(r.neg)
<1> DEFINE A == r.x \cap r.z B == r.z \cap b
<1>1. IsFiniteSet(A) /\ IsFiniteSet(B)
  BY RowParts
<1>2. (q \in A <=> q \in r.x /\ q \in r.z) /\ (q \in B <=> q \in r.z /\ q \in b)
  OBVIOUS
<1> HIDE DEF A, B
<1>3. /\ Cardinality(A \ {q}) \in Nat /\ Cardinality(B \ {q}) \in Nat
      /\ Cardinality(A) = Cardinality(A \ {q}) + (IF q \in A THEN 1 ELSE 0)
      /\ Cardinality(B) = Cardinality(B \ {q}) + (IF q \in B THEN 1 ELSE 0)
  BY <1>1, CardSplit
<1>4. Rest(r, b, {q}) = 2 * Cardinality(A \ {q}) + 4 * Cardinality(B \ {q})
  BY DEF Rest, A, B
<1>5. Exponent(r, b) = 2 * Cardinality(A) + 4 * Cardinality(B) + HalfTurn(r.neg)
  BY DEF Exponent, A, B
<1>6. QED
  BY <1>2, <1>3, <1>4, <1>5 DEF Wire, HalfTurn

LEMMA SplitTwo ==
  ASSUME NEW r \in Rows, NEW b \in Basis, NEW c, NEW t, c # t
  PROVE  /\ Rest(r, b, {c, t}) \in Nat
         /\ Exponent(r, b) = Rest(r, b, {c, t}) + Wire(c \in r.x, c \in r.z, c \in b)
                               + Wire(t \in r.x, t \in r.z, t \in b) + HalfTurn(r.neg)
<1> DEFINE A == r.x \cap r.z B == r.z \cap b
<1>1. IsFiniteSet(A) /\ IsFiniteSet(B)
  BY RowParts
<1>2. /\ \A q : (q \in A <=> q \in r.x /\ q \in r.z) /\ (q \in B <=> q \in r.z /\ q \in b)
      /\ (A \ {c}) \ {t} = A \ {c, t} /\ (B \ {c}) \ {t} = B \ {c, t}
  OBVIOUS
<1>3. Rest(r, b, {c, t}) = 2 * Cardinality(A \ {c, t}) + 4 * Cardinality(B \ {c, t})
  BY DEF Rest
<1>4. Exponent(r, b) = 2 * Cardinality(A) + 4 * Cardinality(B) + HalfTurn(r.neg)
  BY DEF Exponent
<1> HIDE DEF A, B
<1>5. ASSUME NEW S, IsFiniteSet(S), (S \ {c}) \ {t} = S \ {c, t}
      PROVE  /\ Cardinality(S \ {c, t}) \in Nat
             /\ Cardinality(S) = Cardinality(S \ {c, t}) + (IF c \in S THEN 1 ELSE 0) + (IF t \in S THEN 1 ELSE 0)
  <2>1. /\ IsFiniteSet(S \ {c}) /\ Cardinality(S \ {c}) \in Nat
        /\ Cardinality(S) = Cardinality(S \ {c}) + (IF c \in S THEN 1 ELSE 0)
    BY <1>5, CardSplit
  <2>2. /\ Cardinality((S \ {c}) \ {t}) \in Nat
        /\ Cardinality(S \ {c}) = Cardinality((S \ {c}) \ {t}) + (IF t \in S \ {c} THEN 1 ELSE 0)
    BY <2>1, CardSplit
  <2>3. t \in S \ {c} <=> t \in S
    OBVIOUS
  <2>4. QED
    BY <1>5, <2>1, <2>2, <2>3
<1>6. /\ Cardinality(A \ {c, t}) \in Nat /\ Cardinality(B \ {c, t}) \in Nat
      /\ Cardinality(A) = Cardinality(A \ {c, t}) + (IF c \in A THEN 1 ELSE 0) + (IF t \in A THEN 1 ELSE 0)
      /\ Cardinality(B) = Cardinality(B \ {c, t}) + (IF c \in B THEN 1 ELSE 0) + (IF t \in B THEN 1 ELSE 0)
  BY <1>1, <1>2, <1>5
<1>7. QED
  BY <1>2, <1>3, <1>4, <1>6 DEF Wire, HalfTurn

-----------------------------------------------------------------------------
(* Gates of one wire: a matrix takes one Pauli into another.               *)

MatVec(m, u) == <<Plus(Times(m[1], u[1]), Times(m[2], u[2])), Plus(Times(m[3], u[1]), Times(m[4], u[2]))>>
ScaleVec(e, u) == <<Times(e, u[1]), Times(e, u[2])>>
ScaleMat(e, m) == <<Times(e, m[1]), Times(e, m[2]), Times(e, m[3]), Times(e, m[4])>>

Pairs2 == Amps \X Amps

LEMMA MatVecType ==
  ASSUME NEW m, IsMatrix(m), NEW u \in Pairs2
  PROVE  MatVec(m, u) \in Pairs2
<1>1. u[1] \in Amps /\ u[2] \in Amps
  BY DEF Pairs2
<1>2. QED
  BY <1>1, RingTypes DEF MatVec, IsMatrix, Pairs2

LEMMA MatVecScale ==
  ASSUME NEW m, IsMatrix(m), NEW u \in Pairs2, NEW e \in Amps
  PROVE  /\ MatVec(m, ScaleVec(e, u)) = ScaleVec(e, MatVec(m, u))
         /\ MatVec(ScaleMat(e, m), u) = ScaleVec(e, MatVec(m, u))
<1>1. u[1] \in Amps /\ u[2] \in Amps /\ m[1] \in Amps /\ m[2] \in Amps /\ m[3] \in Amps /\ m[4] \in Amps
  BY DEF Pairs2, IsMatrix
<1> DEFINE x == u[1] y == u[2]
<1>0. x \in Amps /\ y \in Amps
  BY <1>1
<1> HIDE DEF x, y
<1>2. ASSUME NEW c \in Amps, NEW d \in Amps
      PROVE  /\ Times(e, Plus(Times(c, x), Times(d, y))) = Plus(Times(c, Times(e, x)), Times(d, Times(e, y)))
             /\ Times(e, Plus(Times(c, x), Times(d, y))) = Plus(Times(Times(e, c), x), Times(Times(e, d), y))
  BY <1>0, Through
<1>3. ScaleVec(e, MatVec(m, u)) = <<Times(e, Plus(Times(m[1], u[1]), Times(m[2], u[2]))),
                                    Times(e, Plus(Times(m[3], u[1]), Times(m[4], u[2])))>>
  BY DEF MatVec, ScaleVec
<1>4. MatVec(m, ScaleVec(e, u)) = <<Plus(Times(m[1], Times(e, u[1])), Times(m[2], Times(e, u[2]))),
                                    Plus(Times(m[3], Times(e, u[1])), Times(m[4], Times(e, u[2])))>>
  BY DEF MatVec, ScaleVec
<1>5. MatVec(ScaleMat(e, m), u) = <<Plus(Times(Times(e, m[1]), u[1]), Times(Times(e, m[2]), u[2])),
                                    Plus(Times(Times(e, m[3]), u[1]), Times(Times(e, m[4]), u[2]))>>
  BY DEF MatVec, ScaleMat
<1>6. QED
  BY <1>1, <1>2, <1>3, <1>4, <1>5 DEF x, y

LEMMA MatVecTwice ==
  ASSUME NEW m, IsMatrix(m), NEW n, IsMatrix(n), NEW u \in Pairs2
  PROVE  MatVec(m, MatVec(n, u)) = MatVec(MatTimes(m, n), u) /\ IsMatrix(MatTimes(m, n))
<1>1. u[1] \in Amps /\ u[2] \in Amps /\ m[1] \in Amps /\ m[2] \in Amps /\ m[3] \in Amps /\ m[4] \in Amps
  BY DEF Pairs2, IsMatrix
<1>2. \A a, b \in Amps :
        Plus(Times(a, Plus(Times(n[1], u[1]), Times(n[2], u[2]))), Times(b, Plus(Times(n[3], u[1]), Times(n[4], u[2]))))
           = Plus(Times(Plus(Times(a, n[1]), Times(b, n[3])), u[1]), Times(Plus(Times(a, n[2]), Times(b, n[4])), u[2]))
  BY <1>1, Combine
<1>3. MatVec(m, MatVec(n, u)) = MatVec(MatTimes(m, n), u)
  BY <1>1, <1>2 DEF MatVec, MatTimes
<1>4. IsMatrix(MatTimes(m, n))
  BY <1>1, RingTypes DEF IsMatrix, MatTimes
<1>5. QED
  BY <1>3, <1>4

\* The matrix of a Pauli.
PauliMat(x, z) ==
    IF x THEN (IF z THEN <<Zero, Neg(ImUnit), ImUnit, Zero>> ELSE <<Zero, One, One, Zero>>)
         ELSE (IF z THEN <<One, Zero, Zero, Neg(One)>> ELSE <<One, Zero, Zero, One>>)

\* The amplitudes of a basis state without the wire q and with it.
Both(v, q, b) == <<v[b \ {q}], v[b \cup {q}]>>

LEMMA BothType ==
  ASSUME NEW v \in Vectors, NEW q \in Qubits, NEW b \in Basis
  PROVE  /\ b \ {q} \in Basis /\ b \cup {q} \in Basis /\ Both(v, q, b) \in Pairs2
         /\ Both(v, q, b)[1] = v[b \ {q}] /\ Both(v, q, b)[2] = v[b \cup {q}]
<1>1. b \ {q} \in Basis /\ b \cup {q} \in Basis
  BY DEF Basis
<1>2. QED
  BY <1>1 DEF Both, Pairs2, Vectors

LEMMA BothApply ==
  ASSUME NEW v \in Vectors, NEW q \in Qubits, NEW m, IsMatrix(m), NEW b \in Basis
  PROVE  Both(Apply1(v, q, m), q, b) = MatVec(m, Both(v, q, b))
<1> DEFINE w == Apply1(v, q, m) lo == b \ {q} hi == b \cup {q}
<1>1. lo \in Basis /\ hi \in Basis /\ q \notin lo /\ q \in hi /\ lo \cup {q} = hi /\ hi \ {q} = lo
  BY BothType
<1> HIDE DEF lo, hi
<1>2. /\ w[lo] = Plus(Times(m[1], v[lo]), Times(m[2], v[hi]))
      /\ w[hi] = Plus(Times(m[3], v[lo]), Times(m[4], v[hi]))
  BY <1>1 DEF Apply1
<1>3. QED
  BY <1>2 DEF Both, MatVec, lo, hi

\* What a row does to the two amplitudes of a wire.
Local(r, v, q, b) ==
    Both(v, q, SymDiff(b, r.x))
      = ScaleVec(Ei(Rest(r, b, {q}) + HalfTurn(r.neg)), MatVec(PauliMat(q \in r.x, q \in r.z), Both(v, q, b)))

\* The entries of a Pauli times a phase.
LEMMA PhaseSteps ==
  ASSUME NEW m \in Int
  PROVE  /\ Ei(m) \in Amps /\ Ei(m + 4) = Neg(Ei(m)) /\ Ei(m + 2) = Times(Ei(m), ImUnit)
         /\ Ei(m + 6) = Times(Ei(m), Neg(ImUnit))
<1>1. Ei(m) \in Amps /\ Ei(4) \in Amps /\ Ei(2) \in Amps
  BY EiType
<1>2. Ei(m + 2) = Times(Ei(m), ImUnit)
  BY EiTimes DEF ImUnit
<1>3. Ei(4) = Neg(One)
  BY DEF Ei, Neg, One, Int2Amp, QNeg
<1>4. Ei(m + 4) = Times(Ei(m), Neg(One))
  BY <1>3, EiTimes
<1>5. Times(Ei(m), Neg(One)) = Neg(Ei(m))
  BY <1>1, Constants, TimesLaws
<1>6. Ei(6) = Neg(ImUnit)
  BY DEF Ei, Neg, ImUnit, QNeg
<1>7. Ei(m + 6) = Times(Ei(m), Neg(ImUnit))
  BY <1>6, EiTimes
<1>8. QED
  BY <1>1, <1>2, <1>4, <1>5, <1>7

\* The four Paulis on a pair, with a phase in front.
LEMMA PauliOnPair ==
  ASSUME NEW u \in Pairs2, NEW m \in Int
  PROVE  /\ ScaleVec(Ei(m), MatVec(PauliMat(FALSE, FALSE), u)) = <<Times(Ei(m), u[1]), Times(Ei(m), u[2])>>
         /\ ScaleVec(Ei(m), MatVec(PauliMat(FALSE, TRUE), u)) = <<Times(Ei(m), u[1]), Times(Ei(m + 4), u[2])>>
         /\ ScaleVec(Ei(m), MatVec(PauliMat(TRUE, FALSE), u)) = <<Times(Ei(m), u[2]), Times(Ei(m), u[1])>>
         /\ ScaleVec(Ei(m), MatVec(PauliMat(TRUE, TRUE), u)) = <<Times(Ei(m + 6), u[2]), Times(Ei(m + 2), u[1])>>
<1> DEFINE x == u[1] y == u[2] e == Ei(m) i == ImUnit
<1>1. x \in Amps /\ y \in Amps
  BY DEF Pairs2
<1>2. e \in Amps /\ i \in Amps /\ Ei(m + 4) = Neg(e) /\ Ei(m + 2) = Times(e, i) /\ Ei(m + 6) = Times(e, Neg(i))
  BY PhaseSteps, Constants
<1>3. /\ MatVec(PauliMat(FALSE, FALSE), u) = <<Plus(Times(One, x), Times(Zero, y)), Plus(Times(Zero, x), Times(One, y))>>
      /\ MatVec(PauliMat(FALSE, TRUE), u) = <<Plus(Times(One, x), Times(Zero, y)), Plus(Times(Zero, x), Times(Neg(One), y))>>
      /\ MatVec(PauliMat(TRUE, FALSE), u) = <<Plus(Times(Zero, x), Times(One, y)), Plus(Times(One, x), Times(Zero, y))>>
      /\ MatVec(PauliMat(TRUE, TRUE), u) = <<Plus(Times(Zero, x), Times(Neg(i), y)), Plus(Times(i, x), Times(Zero, y))>>
  BY DEF MatVec, PauliMat
<1> HIDE DEF x, y, e, i
<1>4. /\ Times(One, x) = x /\ Times(One, y) = y /\ Times(Zero, x) = Zero /\ Times(Zero, y) = Zero
      /\ Times(Neg(One), y) = Neg(y) /\ Times(i, x) \in Amps /\ Times(Neg(i), y) \in Amps /\ Neg(y) \in Amps
      /\ Neg(i) \in Amps
  <2>1. One \in Amps /\ Zero \in Amps /\ Neg(i) \in Amps /\ Neg(y) \in Amps
    BY <1>1, <1>2, Constants, RingTypes
  <2>2. Times(One, x) = x /\ Times(One, y) = y /\ Times(Zero, x) = Zero /\ Times(Zero, y) = Zero
    BY <1>1, TimesLaws
  <2>3. Times(Neg(One), y) = Neg(Times(One, y))
    BY <1>1, <2>1, TimesLaws
  <2>4. Times(i, x) \in Amps /\ Times(Neg(i), y) \in Amps
    BY <1>1, <1>2, <2>1, RingTypes
  <2>5. QED
    BY <2>1, <2>2, <2>3, <2>4
<1>5. \A a \in Amps : Plus(a, Zero) = a /\ Plus(Zero, a) = a
  BY PlusLaws
<1>6. /\ Times(e, Neg(y)) = Times(Neg(e), y)
      /\ Times(e, Times(Neg(i), y)) = Times(Times(e, Neg(i)), y)
      /\ Times(e, Times(i, x)) = Times(Times(e, i), x)
  BY <1>1, <1>2, <1>4, TimesLaws
<1>7. /\ MatVec(PauliMat(FALSE, FALSE), u) = <<x, y>> /\ MatVec(PauliMat(FALSE, TRUE), u) = <<x, Neg(y)>>
      /\ MatVec(PauliMat(TRUE, FALSE), u) = <<y, x>> /\ MatVec(PauliMat(TRUE, TRUE), u) = <<Times(Neg(i), y), Times(i, x)>>
  BY <1>1, <1>3, <1>4, <1>5
<1>8. /\ ScaleVec(e, <<x, y>>) = <<Times(e, x), Times(e, y)>>
      /\ ScaleVec(e, <<x, Neg(y)>>) = <<Times(e, x), Times(e, Neg(y))>>
      /\ ScaleVec(e, <<y, x>>) = <<Times(e, y), Times(e, x)>>
      /\ ScaleVec(e, <<Times(Neg(i), y), Times(i, x)>>) = <<Times(e, Times(Neg(i), y)), Times(e, Times(i, x))>>
  BY DEF ScaleVec
<1>9. QED
  BY <1>2, <1>6, <1>7, <1>8 DEF x, y, e, i

LEMMA LocalIs ==
  ASSUME NEW r \in Rows, NEW v \in Vectors, NEW q \in Qubits, NEW b \in Basis
  PROVE  Local(r, v, q, b) <=>
           LET lo == b \ {q} hi == b \cup {q}
           IN  /\ v[SymDiff(lo, r.x)] = Times(Ei(Exponent(r, lo)), v[lo])
               /\ v[SymDiff(hi, r.x)] = Times(Ei(Exponent(r, hi)), v[hi])
<1> DEFINE lo == b \ {q} hi == b \cup {q} d == SymDiff(b, r.x) m == Rest(r, b, {q}) + HalfTurn(r.neg)
           u == Both(v, q, b) X == q \in r.x Z == q \in r.z
<1>1. lo \in Basis /\ hi \in Basis /\ u \in Pairs2 /\ u[1] = v[lo] /\ u[2] = v[hi]
  BY BothType
<1>2. q \notin lo /\ q \in hi /\ X \in BOOLEAN /\ Z \in BOOLEAN
  OBVIOUS
<1>3. Rest(r, lo, {q}) = Rest(r, b, {q}) /\ Rest(r, hi, {q}) = Rest(r, b, {q}) /\ Rest(r, b, {q}) \in Nat
  <2>1. (r.z \cap lo) \ {q} = (r.z \cap b) \ {q} /\ (r.z \cap hi) \ {q} = (r.z \cap b) \ {q}
    OBVIOUS
  <2>2. QED
    BY <2>1, SplitOne DEF Rest
<1>4. m \in Int
  BY <1>3 DEF HalfTurn
<1> DEFINE k == Rest(r, b, {q}) sg == HalfTurn(r.neg) wl == Wire(q \in r.x, q \in r.z, q \in lo)
           wh == Wire(q \in r.x, q \in r.z, q \in hi) e0 == Exponent(r, lo) e1 == Exponent(r, hi)
<1>5. e0 = k + wl + sg /\ e1 = k + wh + sg
  BY <1>1, <1>3, SplitOne
<1>51. k \in Int /\ sg \in Int /\ m = k + sg
  BY <1>3 DEF HalfTurn
<1>6. /\ X => SymDiff(lo, r.x) = d \cup {q} /\ SymDiff(hi, r.x) = d \ {q}
      /\ ~X => SymDiff(lo, r.x) = d \ {q} /\ SymDiff(hi, r.x) = d \cup {q}
  BY DEF SymDiff
<1>7. Local(r, v, q, b) <=> <<v[d \ {q}], v[d \cup {q}]>> = ScaleVec(Ei(m), MatVec(PauliMat(X, Z), u))
  BY DEF Local, Both
<1> DEFINE vx == v[lo] vy == v[hi]
           Goal == /\ v[SymDiff(lo, r.x)] = Times(Ei(e0), vx)
                   /\ v[SymDiff(hi, r.x)] = Times(Ei(e1), vy)
<1>71. \A j1, j2, j3, j4 : <<j1, j2>> = <<j3, j4>> <=> j1 = j3 /\ j2 = j4
  OBVIOUS
<1> HIDE DEF lo, hi, d, m, u, X, Z, k, sg, wl, wh, e0, e1, vx, vy
<1>8. CASE ~X /\ ~Z
  <2>1. wl = 0 /\ wh = 0
    BY <1>2, <1>8 DEF Wire, wl, wh, X, Z
  <2>2. e0 = m /\ e1 = m
    BY <1>5, <1>51, <2>1
  <2>3. PauliMat(X, Z) = PauliMat(FALSE, FALSE)
    BY <1>8 DEF PauliMat
  <2>4. ScaleVec(Ei(m), MatVec(PauliMat(X, Z), u)) = <<Times(Ei(m), vx), Times(Ei(m), vy)>>
    BY <1>1, <1>4, <2>3, PauliOnPair DEF vx, vy
  <2>5. Local(r, v, q, b) <=> v[d \ {q}] = Times(Ei(m), vx) /\ v[d \cup {q}] = Times(Ei(m), vy)
    BY <1>7, <1>71, <2>4
  <2>6. Local(r, v, q, b) <=> Goal
    BY <1>6, <1>8, <2>2, <2>5
  <2>7. QED
    BY <2>6 DEF lo, hi, e0, e1, vx, vy
<1>9. CASE ~X /\ Z
  <2>1. wl = 0 /\ wh = 4
    BY <1>2, <1>9 DEF Wire, wl, wh, X, Z
  <2>2. e0 = m /\ e1 = m + 4
    BY <1>5, <1>51, <2>1
  <2>3. PauliMat(X, Z) = PauliMat(FALSE, TRUE)
    BY <1>9 DEF PauliMat
  <2>4. ScaleVec(Ei(m), MatVec(PauliMat(X, Z), u)) = <<Times(Ei(m), vx), Times(Ei(m + 4), vy)>>
    BY <1>1, <1>4, <2>3, PauliOnPair DEF vx, vy
  <2>5. Local(r, v, q, b) <=> v[d \ {q}] = Times(Ei(m), vx) /\ v[d \cup {q}] = Times(Ei(m + 4), vy)
    BY <1>7, <1>71, <2>4
  <2>6. Local(r, v, q, b) <=> Goal
    BY <1>6, <1>9, <2>2, <2>5
  <2>7. QED
    BY <2>6 DEF lo, hi, e0, e1, vx, vy
<1>10. CASE X /\ ~Z
  <2>1. wl = 0 /\ wh = 0
    BY <1>2, <1>10 DEF Wire, wl, wh, X, Z
  <2>2. e0 = m /\ e1 = m
    BY <1>5, <1>51, <2>1
  <2>3. PauliMat(X, Z) = PauliMat(TRUE, FALSE)
    BY <1>10 DEF PauliMat
  <2>4. ScaleVec(Ei(m), MatVec(PauliMat(X, Z), u)) = <<Times(Ei(m), vy), Times(Ei(m), vx)>>
    BY <1>1, <1>4, <2>3, PauliOnPair DEF vx, vy
  <2>5. Local(r, v, q, b) <=> v[d \ {q}] = Times(Ei(m), vy) /\ v[d \cup {q}] = Times(Ei(m), vx)
    BY <1>7, <1>71, <2>4
  <2>6. Local(r, v, q, b) <=> Goal
    BY <1>6, <1>10, <2>2, <2>5
  <2>7. QED
    BY <2>6 DEF lo, hi, e0, e1, vx, vy
<1>11. CASE X /\ Z
  <2>1. wl = 2 /\ wh = 6
    BY <1>2, <1>11 DEF Wire, wl, wh, X, Z
  <2>2. e0 = m + 2 /\ e1 = m + 6
    BY <1>5, <1>51, <2>1
  <2>3. PauliMat(X, Z) = PauliMat(TRUE, TRUE)
    BY <1>11 DEF PauliMat
  <2>4. ScaleVec(Ei(m), MatVec(PauliMat(X, Z), u)) = <<Times(Ei(m + 6), vy), Times(Ei(m + 2), vx)>>
    BY <1>1, <1>4, <2>3, PauliOnPair DEF vx, vy
  <2>5. Local(r, v, q, b) <=> v[d \ {q}] = Times(Ei(m + 6), vy) /\ v[d \cup {q}] = Times(Ei(m + 2), vx)
    BY <1>7, <1>71, <2>4
  <2>6. Local(r, v, q, b) <=> Goal
    BY <1>6, <1>11, <2>2, <2>5
  <2>7. QED
    BY <2>6 DEF lo, hi, e0, e1, vx, vy
<1>12. QED
  BY <1>2, <1>8, <1>9, <1>10, <1>11

LEMMA FixesLocally ==
  ASSUME NEW r \in Rows, NEW v \in Vectors, NEW q \in Qubits
  PROVE  Fixes(r, v) <=> \A b \in Basis : Local(r, v, q, b)
<1>1. ASSUME Fixes(r, v), NEW b \in Basis PROVE Local(r, v, q, b)
  <2>1. b \ {q} \in Basis /\ b \cup {q} \in Basis
    BY BothType
  <2>2. QED
    BY <1>1, <2>1, LocalIs DEF Fixes
<1>2. ASSUME \A b \in Basis : Local(r, v, q, b), NEW b \in Basis
      PROVE  v[SymDiff(b, r.x)] = Times(Ei(Exponent(r, b)), v[b])
  <2> DEFINE lo == b \ {q} hi == b \cup {q}
  <2>1. b = lo \/ b = hi
    OBVIOUS
  <2>2. /\ v[SymDiff(lo, r.x)] = Times(Ei(Exponent(r, lo)), v[lo])
        /\ v[SymDiff(hi, r.x)] = Times(Ei(Exponent(r, hi)), v[hi])
    BY <1>2, LocalIs
  <2> HIDE DEF lo, hi
  <2>3. QED
    BY <2>1, <2>2
<1>3. QED
  BY <1>1, <1>2 DEF Fixes

\* A matrix that takes the Pauli of one row into that of another, up to a
\* sign, takes what the one fixes into what the other fixes.
LEMMA WireFixes ==
  ASSUME NEW r \in Rows, NEW s \in Rows, NEW v \in Vectors, NEW q \in Qubits, NEW m, IsMatrix(m),
         s.x \ {q} = r.x \ {q}, s.z \ {q} = r.z \ {q}, Fixes(r, v),
         LET P == PauliMat(q \in r.x, q \in r.z)
             Q == PauliMat(q \in s.x, q \in s.z)
         IN  IF r.neg = s.neg THEN MatTimes(m, P) = MatTimes(Q, m)
                              ELSE MatTimes(m, P) = ScaleMat(Neg(One), MatTimes(Q, m))
  PROVE  Fixes(s, Apply1(v, q, m))
<1> DEFINE P == PauliMat(q \in r.x, q \in r.z) Q == PauliMat(q \in s.x, q \in s.z) w == Apply1(v, q, m)
<1>1. IsMatrix(P) /\ IsMatrix(Q)
  BY Constants DEF PauliMat, IsMatrix
<1>2. w \in Vectors
  <2>1. \A b \in Basis : b \ {q} \in Basis /\ b \cup {q} \in Basis
    BY BothType
  <2>2. m[1] \in Amps /\ m[2] \in Amps /\ m[3] \in Amps /\ m[4] \in Amps
    BY DEF IsMatrix
  <2>3. \A b \in Basis : v[b] \in Amps
    BY DEF Vectors
  <2>4. ASSUME NEW b \in Basis PROVE w[b] \in Amps
    <3>1. v[b] \in Amps /\ v[b \ {q}] \in Amps /\ v[b \cup {q}] \in Amps
      BY <2>1, <2>3
    <3>2. QED
      BY <2>2, <3>1, RingTypes DEF Apply1
  <2>5. QED
    BY <2>4 DEF Apply1, Vectors
<1>3. ASSUME NEW b \in Basis PROVE Local(s, w, q, b)
  <2> DEFINE u == Both(v, q, b) k == Rest(r, b, {q}) + HalfTurn(r.neg) l == Rest(s, b, {q}) + HalfTurn(s.neg)
             e == Ei(k) f == Ei(l) d == SymDiff(b, r.x)
  <2>1. u \in Pairs2 /\ d \in Basis
    BY BothType, RowParts
  <2>2. Both(v, q, d) = ScaleVec(e, MatVec(P, u))
    BY FixesLocally DEF Local
  <2>3. Rest(s, b, {q}) = Rest(r, b, {q}) /\ Rest(r, b, {q}) \in Nat
    <3>1. (s.x \cap s.z) \ {q} = (r.x \cap r.z) \ {q} /\ (s.z \cap b) \ {q} = (r.z \cap b) \ {q}
      OBVIOUS
    <3>2. QED
      BY <3>1, SplitOne DEF Rest
  <2>4. Both(w, q, SymDiff(b, s.x)) = Both(w, q, d)
    <3>1. SymDiff(b, s.x) \ {q} = d \ {q} /\ SymDiff(b, s.x) \cup {q} = d \cup {q}
      BY DEF SymDiff
    <3>2. QED
      BY <3>1 DEF Both
  <2>5. k \in Int /\ l \in Int /\ e \in Amps /\ f \in Amps
    BY <2>3, EiType DEF HalfTurn
  <2>6. Both(w, q, d) = MatVec(m, Both(v, q, d)) /\ Both(w, q, b) = MatVec(m, u)
    BY <2>1, BothApply
  <2> HIDE DEF P, Q, u, d, w
  <2>7. MatVec(m, ScaleVec(e, MatVec(P, u))) = ScaleVec(e, MatVec(MatTimes(m, P), u))
    <3>1. MatVec(P, u) \in Pairs2
      BY <1>1, <2>1, MatVecType
    <3>2. MatVec(m, ScaleVec(e, MatVec(P, u))) = ScaleVec(e, MatVec(m, MatVec(P, u)))
      BY <2>5, <3>1, MatVecScale
    <3>3. QED
      BY <1>1, <2>1, <3>2, MatVecTwice
  <2>8. MatVec(Q, MatVec(m, u)) = MatVec(MatTimes(Q, m), u) /\ IsMatrix(MatTimes(Q, m))
    BY <1>1, <2>1, MatVecTwice
  <2>9. ScaleVec(e, MatVec(MatTimes(m, P), u)) = ScaleVec(f, MatVec(MatTimes(Q, m), u))
    <3>1. CASE r.neg = s.neg
      <4>1. k = l /\ MatTimes(m, P) = MatTimes(Q, m)
        BY <2>3, <3>1 DEF P, Q
      <4>2. QED
        BY <4>1
    <3>2. CASE r.neg # s.neg
      <4>1. MatTimes(m, P) = ScaleMat(Neg(One), MatTimes(Q, m))
        BY <3>2 DEF P, Q
      <4> DEFINE n == MatTimes(Q, m) y == MatVec(n, u)
      <4>2. y \in Pairs2
        BY <2>1, <2>8, MatVecType
      <4>3. Neg(One) \in Amps
        BY Constants
      <4>4. MatVec(ScaleMat(Neg(One), n), u) = ScaleVec(Neg(One), y)
        BY <2>1, <2>8, <4>3, MatVecScale
      <4>5. f = Neg(e)
        <5>1. l = k + 4 \/ k = l + 4
          BY <2>3, <3>2 DEF HalfTurn, Rows
        <5>2. CASE l = k + 4
          BY <2>5, <5>2, PhaseSteps
        <5>3. CASE k = l + 4
          <6>1. e = Neg(f)
            BY <2>5, <5>3, PhaseSteps
          <6>2. QED
            BY <2>5, <6>1, PlusLaws
        <5>4. QED
          BY <5>1, <5>2, <5>3
      <4>6. ScaleVec(e, ScaleVec(Neg(One), y)) = ScaleVec(Neg(e), y)
        <5>1. y[1] \in Amps /\ y[2] \in Amps
          BY <4>2 DEF Pairs2
        <5>2. \A a \in Amps : Times(e, Times(Neg(One), a)) = Times(Neg(e), a)
          <6>1. TAKE a \in Amps
          <6>2. Times(Neg(One), a) = Neg(Times(One, a)) /\ Times(One, a) = a
            BY Constants, TimesLaws
          <6>3. QED
            BY <2>5, <6>2, TimesLaws
        <5> HIDE DEF y, e
        <5>3. QED
          BY <5>1, <5>2 DEF ScaleVec
      <4>7. QED
        BY <4>1, <4>4, <4>5, <4>6
    <3>3. QED
      BY <3>1, <3>2
  <2>10. Both(w, q, SymDiff(b, s.x)) = ScaleVec(f, MatVec(Q, Both(w, q, b)))
    BY <2>2, <2>4, <2>6, <2>7, <2>8, <2>9
  <2>11. QED
    BY <2>10 DEF Local, Q
<1>4. QED
  BY <1>2, <1>3, FixesLocally

\* What a native gate makes of the X part and the Z part of a row on its wire,
\* and whether it turns the sign.
Turned(op, x, z) ==
    CASE op = "h"    -> <<z, x, x /\ z>>
      [] op = "s"    -> <<x, ~(x <=> z), x /\ z>>
      [] op = "sdg"  -> <<x, ~(x <=> z), x /\ ~z>>
      [] op = "sx"   -> <<~(x <=> z), z, z /\ ~x>>
      [] op = "sxdg" -> <<~(x <=> z), z, z /\ x>>
      [] op = "x"    -> <<x, z, z>>
      [] op = "y"    -> <<x, z, ~(x <=> z)>>
      [] op = "z"    -> <<x, z, x>>

LEMMA TurnedRow ==
  ASSUME NEW r \in Rows, NEW op \in Natives1, NEW q \in Qubits
  PROVE  LET s == OnRow(op, q, q, r)
             c == Turned(op, q \in r.x, q \in r.z)
         IN  /\ s \in Rows /\ s.x \ {q} = r.x \ {q} /\ s.z \ {q} = r.z \ {q}
             /\ (q \in s.x <=> c[1]) /\ (q \in s.z <=> c[2]) /\ (r.neg = s.neg <=> ~c[3])
<1> DEFINE s == OnRow(op, q, q, r) X == q \in r.x Z == q \in r.z c == Turned(op, X, Z)
<1>1. r.x \in SUBSET Qubits /\ r.z \in SUBSET Qubits /\ r.neg \in BOOLEAN
      /\ r = [x |-> r.x, z |-> r.z, neg |-> r.neg]
  BY DEF Rows
<1>2. /\ s \in Rows
      /\ op = "h" => /\ \A i : i \in s.x <=> IF i = q THEN q \in r.z ELSE i \in r.x
                     /\ \A i : i \in s.z <=> IF i = q THEN q \in r.x ELSE i \in r.z
      /\ op \in {"s", "sdg"} =>
            /\ s.x = r.x
            /\ \A i : i \in s.z <=> IF i = q THEN ~(q \in r.x <=> q \in r.z) ELSE i \in r.z
      /\ op \in {"sx", "sxdg"} =>
            /\ \A i : i \in s.x <=> IF i = q THEN ~(q \in r.x <=> q \in r.z) ELSE i \in r.x
            /\ s.z = r.z
      /\ op \in {"x", "y", "z"} => s.x = r.x /\ s.z = r.z
  BY OnRowType
<1>3. (s.neg <=> ~(r.neg <=> c[3])) /\ s.neg \in BOOLEAN
  <2>1. CASE op = "h"
    <3>1. c[3] <=> (X /\ Z)
      BY <2>1 DEF Turned
    <3>2. s.neg <=> ~(r.neg <=> (X /\ Z))
      BY <1>1, <2>1 DEF OnRow
    <3>3. s.neg \in BOOLEAN
      BY <1>2 DEF Rows
    <3>4. QED
      BY <3>1, <3>2, <3>3
  <2>2. CASE op = "s"
    <3>1. c[3] <=> (X /\ Z)
      BY <2>2 DEF Turned
    <3>2. s.neg <=> ~(r.neg <=> (X /\ Z))
      BY <1>1, <2>2 DEF OnRow
    <3>3. s.neg \in BOOLEAN
      BY <1>2 DEF Rows
    <3>4. QED
      BY <3>1, <3>2, <3>3
  <2>3. CASE op = "sdg"
    <3>1. c[3] <=> (X /\ ~Z)
      BY <2>3 DEF Turned
    <3>2. s.neg <=> ~(r.neg <=> (X /\ ~Z))
      BY <1>1, <2>3 DEF OnRow
    <3>3. s.neg \in BOOLEAN
      BY <1>2 DEF Rows
    <3>4. QED
      BY <3>1, <3>2, <3>3
  <2>4. CASE op = "sx"
    <3>1. c[3] <=> (Z /\ ~X)
      BY <2>4 DEF Turned
    <3>2. s.neg <=> ~(r.neg <=> (Z /\ ~X))
      BY <1>1, <2>4 DEF OnRow
    <3>3. s.neg \in BOOLEAN
      BY <1>2 DEF Rows
    <3>4. QED
      BY <3>1, <3>2, <3>3
  <2>5. CASE op = "sxdg"
    <3>1. c[3] <=> (Z /\ X)
      BY <2>5 DEF Turned
    <3>2. s.neg <=> ~(r.neg <=> (Z /\ X))
      BY <1>1, <2>5 DEF OnRow
    <3>3. s.neg \in BOOLEAN
      BY <1>2 DEF Rows
    <3>4. QED
      BY <3>1, <3>2, <3>3
  <2>6. CASE op = "x"
    <3>1. c[3] <=> (Z)
      BY <2>6 DEF Turned
    <3>2. s.neg <=> ~(r.neg <=> (Z))
      <4>1. s = [r EXCEPT !.neg = (r.neg # (Z))]
        BY <2>6 DEF OnRow
      <4> DEFINE e == (r.neg # (Z))
      <4>2. e \in BOOLEAN /\ (e <=> ~(r.neg <=> (Z)))
        BY <1>1
      <4>3. s.neg = e
        BY <1>1, <4>1
      <4> HIDE DEF s, e, X, Z
      <4>4. QED
        BY <4>2, <4>3
    <3>3. s.neg \in BOOLEAN
      BY <1>2 DEF Rows
    <3>4. QED
      BY <3>1, <3>2, <3>3
  <2>7. CASE op = "y"
    <3>1. c[3] <=> (~(X <=> Z))
      BY <2>7 DEF Turned
    <3>2. s.neg <=> ~(r.neg <=> (~(X <=> Z)))
      <4>1. s = [r EXCEPT !.neg = (r.neg # (X # Z))]
        BY <2>7 DEF OnRow
      <4> DEFINE e == (r.neg # (X # Z))
      <4>2. e \in BOOLEAN /\ (e <=> ~(r.neg <=> (~(X <=> Z))))
        BY <1>1
      <4>3. s.neg = e
        BY <1>1, <4>1
      <4> HIDE DEF s, e, X, Z
      <4>4. QED
        BY <4>2, <4>3
    <3>3. s.neg \in BOOLEAN
      BY <1>2 DEF Rows
    <3>4. QED
      BY <3>1, <3>2, <3>3
  <2>8. CASE op = "z"
    <3>1. c[3] <=> (X)
      BY <2>8 DEF Turned
    <3>2. s.neg <=> ~(r.neg <=> (X))
      <4>1. s = [r EXCEPT !.neg = (r.neg # (X))]
        BY <2>8 DEF OnRow
      <4> DEFINE e == (r.neg # (X))
      <4>2. e \in BOOLEAN /\ (e <=> ~(r.neg <=> (X)))
        BY <1>1
      <4>3. s.neg = e
        BY <1>1, <4>1
      <4> HIDE DEF s, e, X, Z
      <4>4. QED
        BY <4>2, <4>3
    <3>3. s.neg \in BOOLEAN
      BY <1>2 DEF Rows
    <3>4. QED
      BY <3>1, <3>2, <3>3
  <2>9. QED
    BY <2>1, <2>2, <2>3, <2>4, <2>5, <2>6, <2>7, <2>8 DEF Natives1
<1>5. c[1] = (IF op = "h" THEN Z ELSE IF op \in {"sx", "sxdg"} THEN ~(X <=> Z) ELSE X)
      /\ c[2] = (IF op = "h" THEN X ELSE IF op \in {"s", "sdg"} THEN ~(X <=> Z) ELSE Z)
  BY DEF Turned, Natives1
<1> HIDE DEF s, c
<1>6. r.neg = s.neg <=> ~c[3]
  BY <1>1, <1>3
<1>7. s.x \ {q} = r.x \ {q} /\ s.z \ {q} = r.z \ {q}
  BY <1>2 DEF Natives1
<1>8. (q \in s.x <=> c[1]) /\ (q \in s.z <=> c[2])
  <2>1. CASE op = "h"
    <3>1. (c[1] <=> q \in r.z) /\ (c[2] <=> q \in r.x)
      BY <1>5, <2>1
    <3>2. QED
      BY <1>2, <2>1, <3>1
  <2>2. CASE op \in {"s", "sdg"}
    <3>1. (c[1] <=> q \in r.x) /\ (c[2] <=> ~(q \in r.x <=> q \in r.z))
      BY <1>5, <2>2
    <3>2. QED
      BY <1>2, <2>2, <3>1
  <2>3. CASE op \in {"sx", "sxdg"}
    <3>1. (c[1] <=> ~(q \in r.x <=> q \in r.z)) /\ (c[2] <=> q \in r.z)
      BY <1>5, <2>3
    <3>2. QED
      BY <1>2, <2>3, <3>1
  <2>4. CASE op \in {"x", "y", "z"}
    <3>1. (c[1] <=> q \in r.x) /\ (c[2] <=> q \in r.z)
      BY <1>5, <2>4
    <3>2. QED
      BY <1>2, <2>4, <3>1
  <2>5. QED
    BY <2>1, <2>2, <2>3, <2>4 DEF Natives1
<1>9. QED
  BY <1>2, <1>6, <1>7, <1>8 DEF s, c

\* The matrix of a native gate.
NativeMat(op) ==
    CASE op = "h"    -> <<ISqrt2, ISqrt2, ISqrt2, Neg(ISqrt2)>>
      [] op = "s"    -> <<One, Zero, Zero, ImUnit>>
      [] op = "sdg"  -> <<One, Zero, Zero, Neg(ImUnit)>>
      [] op = "sx"   -> SxMatrix(1)
      [] op = "sxdg" -> SxMatrix(-1)
      [] op = "x"    -> <<Zero, One, One, Zero>>
      [] op = "y"    -> <<Zero, Neg(ImUnit), ImUnit, Zero>>
      [] op = "z"    -> <<One, Zero, Zero, Neg(One)>>

\* A matrix times a Pauli, a Pauli times a matrix, and minus a matrix.
Right(x, z, m) ==
    IF x THEN IF z THEN <<Im(m[2]), Neg(Im(m[1])), Im(m[4]), Neg(Im(m[3]))>> ELSE <<m[2], m[1], m[4], m[3]>>
    ELSE IF z THEN <<m[1], Neg(m[2]), m[3], Neg(m[4])>> ELSE <<m[1], m[2], m[3], m[4]>>
Left(x, z, m) ==
    IF x THEN IF z THEN <<Neg(Im(m[3])), Neg(Im(m[4])), Im(m[1]), Im(m[2])>> ELSE <<m[3], m[4], m[1], m[2]>>
    ELSE IF z THEN <<m[1], m[2], Neg(m[3]), Neg(m[4])>> ELSE <<m[1], m[2], m[3], m[4]>>
Opposite(m) == <<Neg(m[1]), Neg(m[2]), Neg(m[3]), Neg(m[4])>>

LEMMA PauliSides ==
  ASSUME NEW m, IsMatrix(m), NEW x \in BOOLEAN, NEW z \in BOOLEAN
  PROVE  /\ MatTimes(m, PauliMat(x, z)) = Right(x, z, m)
         /\ MatTimes(PauliMat(x, z), m) = Left(x, z, m)
         /\ IsMatrix(Left(x, z, m)) /\ ScaleMat(Neg(One), m) = Opposite(m)
<1> DEFINE a == m[1] b == m[2] c == m[3] d == m[4] w == <<a, b, c, d>>
<1>1. a \in Amps /\ b \in Amps /\ c \in Amps /\ d \in Amps
  BY DEF IsMatrix
<1>2. /\ MatTimes(m, PauliMat(x, z)) = MatTimes(w, PauliMat(x, z))
      /\ MatTimes(PauliMat(x, z), m) = MatTimes(PauliMat(x, z), w)
      /\ ScaleMat(Neg(One), m) = ScaleMat(Neg(One), w)
  BY DEF MatTimes, ScaleMat
<1>3. /\ Right(x, z, m) = IF x THEN IF z THEN <<Im(b), Neg(Im(a)), Im(d), Neg(Im(c))>> ELSE <<b, a, d, c>>
                          ELSE IF z THEN <<a, Neg(b), c, Neg(d)>> ELSE w
      /\ Left(x, z, m) = IF x THEN IF z THEN <<Neg(Im(c)), Neg(Im(d)), Im(a), Im(b)>> ELSE <<c, d, a, b>>
                         ELSE IF z THEN <<a, b, Neg(c), Neg(d)>> ELSE w
      /\ Opposite(m) = <<Neg(a), Neg(b), Neg(c), Neg(d)>>
  BY DEF Right, Left, Opposite
<1>4. IsMatrix(Left(x, z, m))
  <2>1. \A y \in Amps : Im(y) \in Amps /\ Neg(y) \in Amps
    BY ImLaws
  <2>2. QED
    BY <1>1, <2>1 DEF Left, IsMatrix
<1> HIDE DEF a, b, c, d
<1>5. \A y \in Amps :
        /\ Im(y) \in Amps /\ Neg(y) \in Amps /\ Times(Neg(ImUnit), y) = Neg(Im(y)) /\ Times(y, ImUnit) = Im(y)
        /\ Times(y, Neg(ImUnit)) = Neg(Im(y)) /\ Times(Neg(One), y) = Neg(y) /\ Times(y, Neg(One)) = Neg(y)
        /\ Times(One, y) = y /\ Times(y, One) = y /\ Times(Zero, y) = Zero /\ Times(y, Zero) = Zero
        /\ Plus(y, Zero) = y /\ Plus(Zero, y) = y /\ Times(ImUnit, y) = Im(y)
  BY ImLaws DEF Im
<1>6. /\ Neg(a) \in Amps /\ Neg(b) \in Amps /\ Neg(c) \in Amps /\ Neg(d) \in Amps
      /\ Im(a) \in Amps /\ Im(b) \in Amps /\ Im(c) \in Amps /\ Im(d) \in Amps
      /\ Neg(Im(a)) \in Amps /\ Neg(Im(b)) \in Amps /\ Neg(Im(c)) \in Amps /\ Neg(Im(d)) \in Amps
  BY <1>1, <1>5
<1>7. ScaleMat(Neg(One), w) = <<Neg(a), Neg(b), Neg(c), Neg(d)>>
  BY <1>1, <1>5 DEF ScaleMat
<1>8. CASE ~x /\ ~z
  <2>1. MatTimes(w, PauliMat(x, z)) = w /\ MatTimes(PauliMat(x, z), w) = w
    BY <1>1, <1>5, <1>8 DEF MatTimes, PauliMat
  <2>2. QED
    BY <1>2, <1>3, <1>4, <1>7, <1>8, <2>1
<1>9. CASE ~x /\ z
  <2>1. MatTimes(w, PauliMat(x, z)) = <<a, Neg(b), c, Neg(d)>>
    BY <1>1, <1>5, <1>6, <1>9 DEF MatTimes, PauliMat
  <2>2. MatTimes(PauliMat(x, z), w) = <<a, b, Neg(c), Neg(d)>>
    BY <1>1, <1>5, <1>6, <1>9 DEF MatTimes, PauliMat
  <2>3. QED
    BY <1>2, <1>3, <1>4, <1>7, <1>9, <2>1, <2>2
<1>10. CASE x /\ ~z
  <2>1. MatTimes(w, PauliMat(x, z)) = <<b, a, d, c>> /\ MatTimes(PauliMat(x, z), w) = <<c, d, a, b>>
    BY <1>1, <1>5, <1>10 DEF MatTimes, PauliMat
  <2>2. QED
    BY <1>2, <1>3, <1>4, <1>7, <1>10, <2>1
<1>11. CASE x /\ z
  <2>1. MatTimes(w, PauliMat(x, z)) = <<Im(b), Neg(Im(a)), Im(d), Neg(Im(c))>>
    BY <1>1, <1>5, <1>6, <1>11 DEF MatTimes, PauliMat
  <2>2. MatTimes(PauliMat(x, z), w) = <<Neg(Im(c)), Neg(Im(d)), Im(a), Im(b)>>
    BY <1>1, <1>5, <1>6, <1>11 DEF MatTimes, PauliMat
  <2>3. QED
    BY <1>2, <1>3, <1>4, <1>7, <1>11, <2>1, <2>2
<1>12. QED
  BY <1>8, <1>9, <1>10, <1>11

\* The two entries of a square root of X.
LEMMA SxEntries ==
  LET a == Times(ISqrt2, Ei(1))
      b == Times(ISqrt2, Ei(-1))
  IN  /\ a \in Amps /\ b \in Amps /\ Im(a) = Neg(b) /\ Im(b) = a
      /\ SxMatrix(1) = <<a, b, b, a>> /\ SxMatrix(-1) = <<b, a, a, b>>
<1> DEFINE r == ISqrt2 a == Times(r, Ei(1)) b == Times(r, Ei(-1)) i == ImUnit
<1>1. r \in Amps /\ i \in Amps /\ Ei(1) \in Amps /\ Ei(-1) \in Amps /\ Ei(3) \in Amps
  BY ImConstants, EiType
<1>2. a \in Amps /\ b \in Amps
  BY <1>1, RingTypes
<1>3. Times(i, Ei(1)) = Ei(3) /\ Times(i, Ei(-1)) = Ei(1) /\ Ei(3) = Neg(Ei(-1))
  <2>1. Times(Ei(2), Ei(1)) = Ei(3) /\ Times(Ei(2), Ei(-1)) = Ei(1)
    <3>1. 2 + 1 = 3 /\ 2 + (-1) = 1 /\ 2 \in Int /\ 1 \in Int /\ -1 \in Int
      OBVIOUS
    <3>2. Ei(2 + 1) = Times(Ei(2), Ei(1)) /\ Ei(2 + (-1)) = Times(Ei(2), Ei(-1))
      BY <3>1, EiTimes
    <3>3. QED
      BY <3>1, <3>2
  <2>2. Ei(3) = Neg(Ei(-1))
    <3>1. -1 \in Int /\ -1 + 4 = 3
      OBVIOUS
    <3>2. QED
      BY <3>1, PhaseSteps
  <2>3. QED
    BY <2>1, <2>2 DEF ImUnit
<1>4. Times(i, Times(r, Ei(1))) = Times(r, Times(i, Ei(1))) /\ Times(i, Times(r, Ei(-1))) = Times(r, Times(i, Ei(-1)))
  BY <1>1, Past
<1>5. Times(r, Neg(Ei(-1))) = Neg(Times(r, Ei(-1)))
  BY <1>1, TimesLaws
<1>6. SxMatrix(1) = <<a, b, b, a>> /\ SxMatrix(-1) = <<b, a, a, b>>
  <2>1. ASSUME NEW s \in Int, NEW t \in Int, s + t = 0
        PROVE  SxMatrix(s) = <<Times(r, Ei(s)), Times(r, Ei(t)), Times(r, Ei(t)), Times(r, Ei(s))>>
    <3>1. -s = t
      BY <2>1
    <3>2. QED
      BY <3>1 DEF SxMatrix
  <2>2. 1 \in Int /\ -1 \in Int /\ 1 + (-1) = 0 /\ (-1) + 1 = 0
    OBVIOUS
  <2>3. QED
    BY <2>1, <2>2
<1>7. QED
  BY <1>2, <1>3, <1>4, <1>5, <1>6 DEF Im

\* What the matrix of a native gate does to the four Paulis.
LEMMA MatrixTurns ==
  ASSUME NEW op \in Natives1, NEW x \in BOOLEAN, NEW z \in BOOLEAN
  PROVE  LET m == NativeMat(op)
             c == Turned(op, x, z)
             n == Left(c[1], c[2], m)
         IN  IsMatrix(m) /\ Right(x, z, m) = IF c[3] THEN Opposite(n) ELSE n
<1> DEFINE m == NativeMat(op) c == Turned(op, x, z) n == Left(c[1], c[2], m)
           Goal == IsMatrix(m) /\ Right(x, z, m) = IF c[3] THEN Opposite(n) ELSE n
<1>1. /\ One \in Amps /\ Zero \in Amps /\ ISqrt2 \in Amps /\ ImUnit \in Amps
      /\ Neg(One) \in Amps /\ Neg(ImUnit) \in Amps /\ Neg(ISqrt2) \in Amps
      /\ Im(One) = ImUnit /\ Im(ImUnit) = Neg(One) /\ Im(Zero) = Zero /\ Neg(Zero) = Zero
  BY ImConstants
<1> DEFINE sa == Times(ISqrt2, Ei(1)) sb == Times(ISqrt2, Ei(-1))
<1>2. sa \in Amps /\ sb \in Amps /\ Im(sa) = Neg(sb) /\ Im(sb) = sa
      /\ SxMatrix(1) = <<sa, sb, sb, sa>> /\ SxMatrix(-1) = <<sb, sa, sa, sb>>
  BY SxEntries
<1> HIDE DEF sa, sb
<1>3. \A y \in Amps : Im(y) \in Amps /\ Neg(y) \in Amps /\ Im(Neg(y)) = Neg(Im(y)) /\ Neg(Neg(y)) = y
  BY ImLaws
<1>4. CASE op = "h"
  <2>1. m = <<ISqrt2, ISqrt2, ISqrt2, Neg(ISqrt2)>>
    BY <1>4, <1>2 DEF NativeMat
  <2>2. IsMatrix(m)
    BY <1>1, <1>2, <2>1 DEF IsMatrix
  <2>3. CASE x = FALSE /\ z = FALSE
    <3>1. c = <<FALSE, FALSE, FALSE>>
      BY <1>4, <2>3 DEF Turned
    <3> HIDE DEF c, m
    <3>2. n = Left(FALSE, FALSE, m)
      BY <3>1
    <3>3. Right(FALSE, FALSE, m) = n
      BY <1>1, <1>2, <1>3, <2>1, <3>2 DEF Right, Left, Opposite
    <3>4. Goal
      BY <2>3, <2>2, <3>1, <3>3
    <3>5. QED
      BY <3>4 DEF c, m
  <2>4. CASE x = FALSE /\ z = TRUE
    <3>1. c = <<TRUE, FALSE, FALSE>>
      BY <1>4, <2>4 DEF Turned
    <3> HIDE DEF c, m
    <3>2. n = Left(TRUE, FALSE, m)
      BY <3>1
    <3>3. Right(FALSE, TRUE, m) = n
      BY <1>1, <1>2, <1>3, <2>1, <3>2 DEF Right, Left, Opposite
    <3>4. Goal
      BY <2>4, <2>2, <3>1, <3>3
    <3>5. QED
      BY <3>4 DEF c, m
  <2>5. CASE x = TRUE /\ z = FALSE
    <3>1. c = <<FALSE, TRUE, FALSE>>
      BY <1>4, <2>5 DEF Turned
    <3> HIDE DEF c, m
    <3>2. n = Left(FALSE, TRUE, m)
      BY <3>1
    <3>3. Right(TRUE, FALSE, m) = n
      BY <1>1, <1>2, <1>3, <2>1, <3>2 DEF Right, Left, Opposite
    <3>4. Goal
      BY <2>5, <2>2, <3>1, <3>3
    <3>5. QED
      BY <3>4 DEF c, m
  <2>6. CASE x = TRUE /\ z = TRUE
    <3>1. c = <<TRUE, TRUE, TRUE>>
      BY <1>4, <2>6 DEF Turned
    <3> HIDE DEF c, m
    <3>2. n = Left(TRUE, TRUE, m)
      BY <3>1
    <3>3. Right(TRUE, TRUE, m) = Opposite(n)
      BY <1>1, <1>2, <1>3, <2>1, <3>2 DEF Right, Left, Opposite
    <3>4. Goal
      BY <2>6, <2>2, <3>1, <3>3
    <3>5. QED
      BY <3>4 DEF c, m
  <2>7. QED
    BY <2>3, <2>4, <2>5, <2>6
<1>5. CASE op = "s"
  <2>1. m = <<One, Zero, Zero, ImUnit>>
    BY <1>5, <1>2 DEF NativeMat
  <2>2. IsMatrix(m)
    BY <1>1, <1>2, <2>1 DEF IsMatrix
  <2>3. CASE x = FALSE /\ z = FALSE
    <3>1. c = <<FALSE, FALSE, FALSE>>
      BY <1>5, <2>3 DEF Turned
    <3> HIDE DEF c, m
    <3>2. n = Left(FALSE, FALSE, m)
      BY <3>1
    <3>3. Right(FALSE, FALSE, m) = n
      BY <1>1, <1>2, <1>3, <2>1, <3>2 DEF Right, Left, Opposite
    <3>4. Goal
      BY <2>3, <2>2, <3>1, <3>3
    <3>5. QED
      BY <3>4 DEF c, m
  <2>4. CASE x = FALSE /\ z = TRUE
    <3>1. c = <<FALSE, TRUE, FALSE>>
      BY <1>5, <2>4 DEF Turned
    <3> HIDE DEF c, m
    <3>2. n = Left(FALSE, TRUE, m)
      BY <3>1
    <3>3. Right(FALSE, TRUE, m) = n
      BY <1>1, <1>2, <1>3, <2>1, <3>2 DEF Right, Left, Opposite
    <3>4. Goal
      BY <2>4, <2>2, <3>1, <3>3
    <3>5. QED
      BY <3>4 DEF c, m
  <2>5. CASE x = TRUE /\ z = FALSE
    <3>1. c = <<TRUE, TRUE, FALSE>>
      BY <1>5, <2>5 DEF Turned
    <3> HIDE DEF c, m
    <3>2. n = Left(TRUE, TRUE, m)
      BY <3>1
    <3>3. Right(TRUE, FALSE, m) = n
      BY <1>1, <1>2, <1>3, <2>1, <3>2 DEF Right, Left, Opposite
    <3>4. Goal
      BY <2>5, <2>2, <3>1, <3>3
    <3>5. QED
      BY <3>4 DEF c, m
  <2>6. CASE x = TRUE /\ z = TRUE
    <3>1. c = <<TRUE, FALSE, TRUE>>
      BY <1>5, <2>6 DEF Turned
    <3> HIDE DEF c, m
    <3>2. n = Left(TRUE, FALSE, m)
      BY <3>1
    <3>3. Right(TRUE, TRUE, m) = Opposite(n)
      BY <1>1, <1>2, <1>3, <2>1, <3>2 DEF Right, Left, Opposite
    <3>4. Goal
      BY <2>6, <2>2, <3>1, <3>3
    <3>5. QED
      BY <3>4 DEF c, m
  <2>7. QED
    BY <2>3, <2>4, <2>5, <2>6
<1>6. CASE op = "sdg"
  <2>1. m = <<One, Zero, Zero, Neg(ImUnit)>>
    BY <1>6, <1>2 DEF NativeMat
  <2>2. IsMatrix(m)
    BY <1>1, <1>2, <2>1 DEF IsMatrix
  <2>3. CASE x = FALSE /\ z = FALSE
    <3>1. c = <<FALSE, FALSE, FALSE>>
      BY <1>6, <2>3 DEF Turned
    <3> HIDE DEF c, m
    <3>2. n = Left(FALSE, FALSE, m)
      BY <3>1
    <3>3. Right(FALSE, FALSE, m) = n
      BY <1>1, <1>2, <1>3, <2>1, <3>2 DEF Right, Left, Opposite
    <3>4. Goal
      BY <2>3, <2>2, <3>1, <3>3
    <3>5. QED
      BY <3>4 DEF c, m
  <2>4. CASE x = FALSE /\ z = TRUE
    <3>1. c = <<FALSE, TRUE, FALSE>>
      BY <1>6, <2>4 DEF Turned
    <3> HIDE DEF c, m
    <3>2. n = Left(FALSE, TRUE, m)
      BY <3>1
    <3>3. Right(FALSE, TRUE, m) = n
      BY <1>1, <1>2, <1>3, <2>1, <3>2 DEF Right, Left, Opposite
    <3>4. Goal
      BY <2>4, <2>2, <3>1, <3>3
    <3>5. QED
      BY <3>4 DEF c, m
  <2>5. CASE x = TRUE /\ z = FALSE
    <3>1. c = <<TRUE, TRUE, TRUE>>
      BY <1>6, <2>5 DEF Turned
    <3> HIDE DEF c, m
    <3>2. n = Left(TRUE, TRUE, m)
      BY <3>1
    <3>3. Right(TRUE, FALSE, m) = Opposite(n)
      BY <1>1, <1>2, <1>3, <2>1, <3>2 DEF Right, Left, Opposite
    <3>4. Goal
      BY <2>5, <2>2, <3>1, <3>3
    <3>5. QED
      BY <3>4 DEF c, m
  <2>6. CASE x = TRUE /\ z = TRUE
    <3>1. c = <<TRUE, FALSE, FALSE>>
      BY <1>6, <2>6 DEF Turned
    <3> HIDE DEF c, m
    <3>2. n = Left(TRUE, FALSE, m)
      BY <3>1
    <3>3. Right(TRUE, TRUE, m) = n
      BY <1>1, <1>2, <1>3, <2>1, <3>2 DEF Right, Left, Opposite
    <3>4. Goal
      BY <2>6, <2>2, <3>1, <3>3
    <3>5. QED
      BY <3>4 DEF c, m
  <2>7. QED
    BY <2>3, <2>4, <2>5, <2>6
<1>7. CASE op = "sx"
  <2>1. m = <<sa, sb, sb, sa>>
    BY <1>7, <1>2 DEF NativeMat
  <2>2. IsMatrix(m)
    BY <1>1, <1>2, <2>1 DEF IsMatrix
  <2>3. CASE x = FALSE /\ z = FALSE
    <3>1. c = <<FALSE, FALSE, FALSE>>
      BY <1>7, <2>3 DEF Turned
    <3> HIDE DEF c, m
    <3>2. n = Left(FALSE, FALSE, m)
      BY <3>1
    <3>3. Right(FALSE, FALSE, m) = n
      BY <1>1, <1>2, <1>3, <2>1, <3>2 DEF Right, Left, Opposite
    <3>4. Goal
      BY <2>3, <2>2, <3>1, <3>3
    <3>5. QED
      BY <3>4 DEF c, m
  <2>4. CASE x = FALSE /\ z = TRUE
    <3>1. c = <<TRUE, TRUE, TRUE>>
      BY <1>7, <2>4 DEF Turned
    <3> HIDE DEF c, m
    <3>2. n = Left(TRUE, TRUE, m)
      BY <3>1
    <3>3. Right(FALSE, TRUE, m) = Opposite(n)
      BY <1>1, <1>2, <1>3, <2>1, <3>2 DEF Right, Left, Opposite
    <3>4. Goal
      BY <2>4, <2>2, <3>1, <3>3
    <3>5. QED
      BY <3>4 DEF c, m
  <2>5. CASE x = TRUE /\ z = FALSE
    <3>1. c = <<TRUE, FALSE, FALSE>>
      BY <1>7, <2>5 DEF Turned
    <3> HIDE DEF c, m
    <3>2. n = Left(TRUE, FALSE, m)
      BY <3>1
    <3>3. Right(TRUE, FALSE, m) = n
      BY <1>1, <1>2, <1>3, <2>1, <3>2 DEF Right, Left, Opposite
    <3>4. Goal
      BY <2>5, <2>2, <3>1, <3>3
    <3>5. QED
      BY <3>4 DEF c, m
  <2>6. CASE x = TRUE /\ z = TRUE
    <3>1. c = <<FALSE, TRUE, FALSE>>
      BY <1>7, <2>6 DEF Turned
    <3> HIDE DEF c, m
    <3>2. n = Left(FALSE, TRUE, m)
      BY <3>1
    <3>3. Right(TRUE, TRUE, m) = n
      BY <1>1, <1>2, <1>3, <2>1, <3>2 DEF Right, Left, Opposite
    <3>4. Goal
      BY <2>6, <2>2, <3>1, <3>3
    <3>5. QED
      BY <3>4 DEF c, m
  <2>7. QED
    BY <2>3, <2>4, <2>5, <2>6
<1>8. CASE op = "sxdg"
  <2>1. m = <<sb, sa, sa, sb>>
    BY <1>8, <1>2 DEF NativeMat
  <2>2. IsMatrix(m)
    BY <1>1, <1>2, <2>1 DEF IsMatrix
  <2>3. CASE x = FALSE /\ z = FALSE
    <3>1. c = <<FALSE, FALSE, FALSE>>
      BY <1>8, <2>3 DEF Turned
    <3> HIDE DEF c, m
    <3>2. n = Left(FALSE, FALSE, m)
      BY <3>1
    <3>3. Right(FALSE, FALSE, m) = n
      BY <1>1, <1>2, <1>3, <2>1, <3>2 DEF Right, Left, Opposite
    <3>4. Goal
      BY <2>3, <2>2, <3>1, <3>3
    <3>5. QED
      BY <3>4 DEF c, m
  <2>4. CASE x = FALSE /\ z = TRUE
    <3>1. c = <<TRUE, TRUE, FALSE>>
      BY <1>8, <2>4 DEF Turned
    <3> HIDE DEF c, m
    <3>2. n = Left(TRUE, TRUE, m)
      BY <3>1
    <3>3. Right(FALSE, TRUE, m) = n
      BY <1>1, <1>2, <1>3, <2>1, <3>2 DEF Right, Left, Opposite
    <3>4. Goal
      BY <2>4, <2>2, <3>1, <3>3
    <3>5. QED
      BY <3>4 DEF c, m
  <2>5. CASE x = TRUE /\ z = FALSE
    <3>1. c = <<TRUE, FALSE, FALSE>>
      BY <1>8, <2>5 DEF Turned
    <3> HIDE DEF c, m
    <3>2. n = Left(TRUE, FALSE, m)
      BY <3>1
    <3>3. Right(TRUE, FALSE, m) = n
      BY <1>1, <1>2, <1>3, <2>1, <3>2 DEF Right, Left, Opposite
    <3>4. Goal
      BY <2>5, <2>2, <3>1, <3>3
    <3>5. QED
      BY <3>4 DEF c, m
  <2>6. CASE x = TRUE /\ z = TRUE
    <3>1. c = <<FALSE, TRUE, TRUE>>
      BY <1>8, <2>6 DEF Turned
    <3> HIDE DEF c, m
    <3>2. n = Left(FALSE, TRUE, m)
      BY <3>1
    <3>3. Right(TRUE, TRUE, m) = Opposite(n)
      BY <1>1, <1>2, <1>3, <2>1, <3>2 DEF Right, Left, Opposite
    <3>4. Goal
      BY <2>6, <2>2, <3>1, <3>3
    <3>5. QED
      BY <3>4 DEF c, m
  <2>7. QED
    BY <2>3, <2>4, <2>5, <2>6
<1>9. CASE op = "x"
  <2>1. m = <<Zero, One, One, Zero>>
    BY <1>9, <1>2 DEF NativeMat
  <2>2. IsMatrix(m)
    BY <1>1, <1>2, <2>1 DEF IsMatrix
  <2>3. CASE x = FALSE /\ z = FALSE
    <3>1. c = <<FALSE, FALSE, FALSE>>
      BY <1>9, <2>3 DEF Turned
    <3> HIDE DEF c, m
    <3>2. n = Left(FALSE, FALSE, m)
      BY <3>1
    <3>3. Right(FALSE, FALSE, m) = n
      BY <1>1, <1>2, <1>3, <2>1, <3>2 DEF Right, Left, Opposite
    <3>4. Goal
      BY <2>3, <2>2, <3>1, <3>3
    <3>5. QED
      BY <3>4 DEF c, m
  <2>4. CASE x = FALSE /\ z = TRUE
    <3>1. c = <<FALSE, TRUE, TRUE>>
      BY <1>9, <2>4 DEF Turned
    <3> HIDE DEF c, m
    <3>2. n = Left(FALSE, TRUE, m)
      BY <3>1
    <3>3. Right(FALSE, TRUE, m) = Opposite(n)
      BY <1>1, <1>2, <1>3, <2>1, <3>2 DEF Right, Left, Opposite
    <3>4. Goal
      BY <2>4, <2>2, <3>1, <3>3
    <3>5. QED
      BY <3>4 DEF c, m
  <2>5. CASE x = TRUE /\ z = FALSE
    <3>1. c = <<TRUE, FALSE, FALSE>>
      BY <1>9, <2>5 DEF Turned
    <3> HIDE DEF c, m
    <3>2. n = Left(TRUE, FALSE, m)
      BY <3>1
    <3>3. Right(TRUE, FALSE, m) = n
      BY <1>1, <1>2, <1>3, <2>1, <3>2 DEF Right, Left, Opposite
    <3>4. Goal
      BY <2>5, <2>2, <3>1, <3>3
    <3>5. QED
      BY <3>4 DEF c, m
  <2>6. CASE x = TRUE /\ z = TRUE
    <3>1. c = <<TRUE, TRUE, TRUE>>
      BY <1>9, <2>6 DEF Turned
    <3> HIDE DEF c, m
    <3>2. n = Left(TRUE, TRUE, m)
      BY <3>1
    <3>3. Right(TRUE, TRUE, m) = Opposite(n)
      BY <1>1, <1>2, <1>3, <2>1, <3>2 DEF Right, Left, Opposite
    <3>4. Goal
      BY <2>6, <2>2, <3>1, <3>3
    <3>5. QED
      BY <3>4 DEF c, m
  <2>7. QED
    BY <2>3, <2>4, <2>5, <2>6
<1>10. CASE op = "y"
  <2>1. m = <<Zero, Neg(ImUnit), ImUnit, Zero>>
    BY <1>10, <1>2 DEF NativeMat
  <2>2. IsMatrix(m)
    BY <1>1, <1>2, <2>1 DEF IsMatrix
  <2>3. CASE x = FALSE /\ z = FALSE
    <3>1. c = <<FALSE, FALSE, FALSE>>
      BY <1>10, <2>3 DEF Turned
    <3> HIDE DEF c, m
    <3>2. n = Left(FALSE, FALSE, m)
      BY <3>1
    <3>3. Right(FALSE, FALSE, m) = n
      BY <1>1, <1>2, <1>3, <2>1, <3>2 DEF Right, Left, Opposite
    <3>4. Goal
      BY <2>3, <2>2, <3>1, <3>3
    <3>5. QED
      BY <3>4 DEF c, m
  <2>4. CASE x = FALSE /\ z = TRUE
    <3>1. c = <<FALSE, TRUE, TRUE>>
      BY <1>10, <2>4 DEF Turned
    <3> HIDE DEF c, m
    <3>2. n = Left(FALSE, TRUE, m)
      BY <3>1
    <3>3. Right(FALSE, TRUE, m) = Opposite(n)
      BY <1>1, <1>2, <1>3, <2>1, <3>2 DEF Right, Left, Opposite
    <3>4. Goal
      BY <2>4, <2>2, <3>1, <3>3
    <3>5. QED
      BY <3>4 DEF c, m
  <2>5. CASE x = TRUE /\ z = FALSE
    <3>1. c = <<TRUE, FALSE, TRUE>>
      BY <1>10, <2>5 DEF Turned
    <3> HIDE DEF c, m
    <3>2. n = Left(TRUE, FALSE, m)
      BY <3>1
    <3>3. Right(TRUE, FALSE, m) = Opposite(n)
      BY <1>1, <1>2, <1>3, <2>1, <3>2 DEF Right, Left, Opposite
    <3>4. Goal
      BY <2>5, <2>2, <3>1, <3>3
    <3>5. QED
      BY <3>4 DEF c, m
  <2>6. CASE x = TRUE /\ z = TRUE
    <3>1. c = <<TRUE, TRUE, FALSE>>
      BY <1>10, <2>6 DEF Turned
    <3> HIDE DEF c, m
    <3>2. n = Left(TRUE, TRUE, m)
      BY <3>1
    <3>3. Right(TRUE, TRUE, m) = n
      BY <1>1, <1>2, <1>3, <2>1, <3>2 DEF Right, Left, Opposite
    <3>4. Goal
      BY <2>6, <2>2, <3>1, <3>3
    <3>5. QED
      BY <3>4 DEF c, m
  <2>7. QED
    BY <2>3, <2>4, <2>5, <2>6
<1>11. CASE op = "z"
  <2>1. m = <<One, Zero, Zero, Neg(One)>>
    BY <1>11, <1>2 DEF NativeMat
  <2>2. IsMatrix(m)
    BY <1>1, <1>2, <2>1 DEF IsMatrix
  <2>3. CASE x = FALSE /\ z = FALSE
    <3>1. c = <<FALSE, FALSE, FALSE>>
      BY <1>11, <2>3 DEF Turned
    <3> HIDE DEF c, m
    <3>2. n = Left(FALSE, FALSE, m)
      BY <3>1
    <3>3. Right(FALSE, FALSE, m) = n
      BY <1>1, <1>2, <1>3, <2>1, <3>2 DEF Right, Left, Opposite
    <3>4. Goal
      BY <2>3, <2>2, <3>1, <3>3
    <3>5. QED
      BY <3>4 DEF c, m
  <2>4. CASE x = FALSE /\ z = TRUE
    <3>1. c = <<FALSE, TRUE, FALSE>>
      BY <1>11, <2>4 DEF Turned
    <3> HIDE DEF c, m
    <3>2. n = Left(FALSE, TRUE, m)
      BY <3>1
    <3>3. Right(FALSE, TRUE, m) = n
      BY <1>1, <1>2, <1>3, <2>1, <3>2 DEF Right, Left, Opposite
    <3>4. Goal
      BY <2>4, <2>2, <3>1, <3>3
    <3>5. QED
      BY <3>4 DEF c, m
  <2>5. CASE x = TRUE /\ z = FALSE
    <3>1. c = <<TRUE, FALSE, TRUE>>
      BY <1>11, <2>5 DEF Turned
    <3> HIDE DEF c, m
    <3>2. n = Left(TRUE, FALSE, m)
      BY <3>1
    <3>3. Right(TRUE, FALSE, m) = Opposite(n)
      BY <1>1, <1>2, <1>3, <2>1, <3>2 DEF Right, Left, Opposite
    <3>4. Goal
      BY <2>5, <2>2, <3>1, <3>3
    <3>5. QED
      BY <3>4 DEF c, m
  <2>6. CASE x = TRUE /\ z = TRUE
    <3>1. c = <<TRUE, TRUE, TRUE>>
      BY <1>11, <2>6 DEF Turned
    <3> HIDE DEF c, m
    <3>2. n = Left(TRUE, TRUE, m)
      BY <3>1
    <3>3. Right(TRUE, TRUE, m) = Opposite(n)
      BY <1>1, <1>2, <1>3, <2>1, <3>2 DEF Right, Left, Opposite
    <3>4. Goal
      BY <2>6, <2>2, <3>1, <3>3
    <3>5. QED
      BY <3>4 DEF c, m
  <2>7. QED
    BY <2>3, <2>4, <2>5, <2>6
<1>12. QED
  BY <1>4, <1>5, <1>6, <1>7, <1>8, <1>9, <1>10, <1>11 DEF Natives1

\* A native gate on one wire takes what a row fixes into what its image fixes.
LEMMA OneWireFixes ==
  ASSUME NEW r \in Rows, NEW v \in Vectors, NEW op \in Natives1, NEW q \in Qubits, Fixes(r, v)
  PROVE  Fixes(OnRow(op, q, q, r), Apply1(v, q, NativeMat(op)))
<1> DEFINE s == OnRow(op, q, q, r) m == NativeMat(op) X == q \in r.x Z == q \in r.z c == Turned(op, X, Z)
           U == q \in s.x V == q \in s.z
<1>1. /\ s \in Rows /\ s.x \ {q} = r.x \ {q} /\ s.z \ {q} = r.z \ {q}
      /\ (U <=> c[1]) /\ (V <=> c[2]) /\ (r.neg = s.neg <=> ~c[3])
  BY TurnedRow
<1>2. X \in BOOLEAN /\ Z \in BOOLEAN /\ U \in BOOLEAN /\ V \in BOOLEAN
  OBVIOUS
<1>3. IsMatrix(m) /\ Right(X, Z, m) = IF c[3] THEN Opposite(Left(c[1], c[2], m)) ELSE Left(c[1], c[2], m)
  <2> HIDE DEF X, Z
  <2>1. QED
    BY <1>2, MatrixTurns
<1>4. /\ MatTimes(m, PauliMat(X, Z)) = Right(X, Z, m)
      /\ MatTimes(PauliMat(U, V), m) = Left(U, V, m)
      /\ IsMatrix(Left(U, V, m))
  <2> HIDE DEF X, Z, U, V, m
  <2>1. QED
    BY <1>2, <1>3, PauliSides
<1>5. ScaleMat(Neg(One), Left(U, V, m)) = Opposite(Left(U, V, m))
  <2> HIDE DEF U, V, m
  <2>1. QED
    BY <1>2, <1>4, PauliSides
<1>6. Left(U, V, m) = Left(c[1], c[2], m)
  <2> HIDE DEF U, V, m, c
  <2>1. QED
    BY <1>1 DEF Left
<1>7. IF r.neg = s.neg THEN MatTimes(m, PauliMat(X, Z)) = MatTimes(PauliMat(U, V), m)
      ELSE MatTimes(m, PauliMat(X, Z)) = ScaleMat(Neg(One), MatTimes(PauliMat(U, V), m))
  <2> HIDE DEF U, V, m, c, X, Z, s
  <2>1. QED
    BY <1>1, <1>3, <1>4, <1>5, <1>6
<1> HIDE DEF s, m
<1>8. QED
  BY <1>1, <1>3, <1>7, WireFixes DEF s, m

LEMMA EiEight ==
  ASSUME NEW m \in Int, NEW n \in Int, m % 8 = n % 8
  PROVE  Ei(m) = Ei(n)
BY DEF Ei

-----------------------------------------------------------------------------
(* CX.                                                                     *)

\* The basis state that a CX moves to b.
Moved(b, c, t) == IF c \in b THEN Flip(b, t) ELSE b

LEMMA MovedLaws ==
  ASSUME NEW c \in Qubits, NEW t \in Qubits, c # t, NEW b \in Basis
  PROVE  /\ Moved(b, c, t) \in Basis /\ Moved(Moved(b, c, t), c, t) = b
         /\ \A i : i # t => (i \in Moved(b, c, t) <=> i \in b)
         /\ t \in Moved(b, c, t) <=> ~(t \in b <=> c \in b)
<1>1. /\ Flip(b, t) \in Basis /\ Flip(Flip(b, t), t) = b
      /\ t \in Flip(b, t) <=> t \notin b
      /\ \A p : p # t => (p \in Flip(b, t) <=> p \in b)
  BY FlipLaws
<1>2. QED
  BY <1>1 DEF Moved

\* The phase of a row and of its image, on the two wires.
LEMMA CxPhase ==
  ASSUME NEW xc \in BOOLEAN, NEW zc \in BOOLEAN, NEW bc \in BOOLEAN,
         NEW xt \in BOOLEAN, NEW zt \in BOOLEAN, NEW bt \in BOOLEAN, NEW neg \in BOOLEAN
  PROVE  (Wire(xc, zc, bc) + Wire(xt, zt, ~(bt <=> bc)) + HalfTurn(neg)) % 8
           = (Wire(xc, ~(zt <=> zc), bc) + Wire(~(xc <=> xt), zt, bt)
                + HalfTurn(~(neg <=> (xc /\ zt /\ (xt <=> zc))))) % 8
BY DEF Wire, HalfTurn

LEMMA CxRow ==
  ASSUME NEW r \in Rows, NEW c \in Qubits, NEW t \in Qubits, c # t
  PROVE  LET s == OnRow("cx", c, t, r)
         IN  /\ s \in Rows
             /\ \A i : i \in s.x <=> IF i = t THEN ~(c \in r.x <=> t \in r.x) ELSE i \in r.x
             /\ \A i : i \in s.z <=> IF i = c THEN ~(t \in r.z <=> c \in r.z) ELSE i \in r.z
             /\ s.neg <=> ~(r.neg <=> (c \in r.x /\ t \in r.z /\ (t \in r.x <=> c \in r.z)))
<1> DEFINE s == OnRow("cx", c, t, r)
<1>1. /\ s \in Rows
      /\ \A i : i \in s.x <=> IF i = t THEN ~(c \in r.x <=> t \in r.x) ELSE i \in r.x
      /\ \A i : i \in s.z <=> IF i = c THEN ~(t \in r.z <=> c \in r.z) ELSE i \in r.z
  <2>1. s.x = Xor(r.x, c \in r.x, {t}) /\ s.z = Xor(r.z, t \in r.z, {c}) /\ s.neg = (r.neg # (c \in r.x /\ t \in r.z /\ ((t \in r.x) = (c \in r.z))))
        /\ s = [x |-> s.x, z |-> s.z, neg |-> s.neg]
    BY DEF OnRow
  <2>2. r.x \in SUBSET Qubits /\ r.z \in SUBSET Qubits /\ r.neg \in BOOLEAN
    BY DEF Rows
  <2>3. s.neg \in BOOLEAN
    BY <2>1, <2>2
  <2> HIDE DEF s
  <2>4. \A i : i \in s.x <=> IF i = t THEN ~(c \in r.x <=> t \in r.x) ELSE i \in r.x
    BY <2>1 DEF Xor, SymDiff
  <2>5. \A i : i \in s.z <=> IF i = c THEN ~(t \in r.z <=> c \in r.z) ELSE i \in r.z
    BY <2>1 DEF Xor, SymDiff
  <2>6. s.x \in SUBSET Qubits /\ s.z \in SUBSET Qubits
    BY <2>2, <2>4, <2>5
  <2>7. s \in Rows
    BY <2>1, <2>3, <2>6 DEF Rows
  <2>8. QED
    BY <2>4, <2>5, <2>7
<1>2. s.neg <=> ~(r.neg <=> (c \in r.x /\ t \in r.z /\ (t \in r.x <=> c \in r.z)))
  <2>1. s.neg = (r.neg # (c \in r.x /\ t \in r.z /\ ((t \in r.x) = (c \in r.z))))
    BY DEF OnRow
  <2> DEFINE e == (r.neg # (c \in r.x /\ t \in r.z /\ ((t \in r.x) = (c \in r.z))))
  <2>2. r.neg \in BOOLEAN
    BY DEF Rows
  <2>3. e \in BOOLEAN /\ (e <=> ~(r.neg <=> (c \in r.x /\ t \in r.z /\ (t \in r.x <=> c \in r.z))))
    BY <2>2
  <2> HIDE DEF s, e
  <2>4. s.neg = e
    BY <2>1 DEF e
  <2>5. QED
    BY <2>3, <2>4
<1>3. QED
  BY <1>1, <1>2

LEMMA CxFixes ==
  ASSUME NEW r \in Rows, NEW v \in Vectors, NEW c \in Qubits, NEW t \in Qubits, c # t, Fixes(r, v)
  PROVE  LET w == [b \in Basis |-> v[Moved(b, c, t)]]
         IN  w \in Vectors /\ Fixes(OnRow("cx", c, t, r), w)
<1> DEFINE w == [b \in Basis |-> v[Moved(b, c, t)]] s == OnRow("cx", c, t, r)
<1>1. w \in Vectors
  BY MovedLaws DEF Vectors
<1>2. /\ s \in Rows
      /\ \A i : i \in s.x <=> IF i = t THEN ~(c \in r.x <=> t \in r.x) ELSE i \in r.x
      /\ \A i : i \in s.z <=> IF i = c THEN ~(t \in r.z <=> c \in r.z) ELSE i \in r.z
      /\ s.neg <=> ~(r.neg <=> (c \in r.x /\ t \in r.z /\ (t \in r.x <=> c \in r.z)))
  BY CxRow
<1> HIDE DEF s
<1>3. ASSUME NEW b \in Basis PROVE w[SymDiff(b, s.x)] = Times(Ei(Exponent(s, b)), w[b])
  <2> DEFINE m == Moved(b, c, t) d == SymDiff(b, s.x)
  <2>1. m \in Basis /\ d \in Basis /\ r.x \in Basis /\ r.z \in Basis /\ r.neg \in BOOLEAN /\ s.neg \in BOOLEAN
    <3>1. r.x \in Basis /\ r.z \in Basis /\ r.neg \in BOOLEAN /\ s.neg \in BOOLEAN
      BY <1>2 DEF Rows, Basis
    <3>2. m \in Basis
      BY MovedLaws
    <3>3. d \in Basis
      BY <1>2, RowParts
    <3>4. QED
      BY <3>1, <3>2, <3>3
  <2>2. /\ \A i : i # t => (i \in m <=> i \in b)
        /\ t \in m <=> ~(t \in b <=> c \in b)
    BY MovedLaws
  <2>3. Moved(d, c, t) = SymDiff(m, r.x)
    <3>1. \A i : i \in d <=> ~(i \in b <=> i \in s.x)
      BY DEF SymDiff
    <3>2. \A i : i \in SymDiff(m, r.x) <=> ~(i \in m <=> i \in r.x)
      BY DEF SymDiff
    <3>3. /\ \A i : i # t => (i \in Moved(d, c, t) <=> i \in d)
          /\ t \in Moved(d, c, t) <=> ~(t \in d <=> c \in d)
      BY <2>1, MovedLaws
    <3> HIDE DEF m, d
    <3>4. ASSUME NEW i PROVE i \in Moved(d, c, t) <=> i \in SymDiff(m, r.x)
      <4>1. CASE i = t
        BY <1>2, <2>2, <3>1, <3>2, <3>3, <4>1
      <4>2. CASE i # t
        BY <1>2, <2>2, <3>1, <3>2, <3>3, <4>2
      <4>3. QED
        BY <4>1, <4>2
    <3>5. QED
      BY <3>4
  <2>4. v[SymDiff(m, r.x)] = Times(Ei(Exponent(r, m)), v[m])
    BY <2>1 DEF Fixes
  <2> DEFINE k == Rest(r, m, {c, t}) l == Rest(s, b, {c, t})
             wc == Wire(c \in r.x, c \in r.z, c \in m) wt == Wire(t \in r.x, t \in r.z, t \in m)
             uc == Wire(c \in s.x, c \in s.z, c \in b) ut == Wire(t \in s.x, t \in s.z, t \in b)
             e == Exponent(r, m) f == Exponent(s, b) g == HalfTurn(r.neg) h == HalfTurn(s.neg)
  <2>5. k \in Nat /\ e = k + wc + wt + g
    BY <2>1, SplitTwo
  <2>6. l \in Nat /\ f = l + uc + ut + h
    BY <1>2, SplitTwo
  <2>7. k = l
    <3>1. (r.x \cap r.z) \ {c, t} = (s.x \cap s.z) \ {c, t}
      BY <1>2
    <3>2. (r.z \cap m) \ {c, t} = (s.z \cap b) \ {c, t}
      <4> HIDE DEF m
      <4>1. QED
        BY <1>2, <2>2
    <3>3. QED
      BY <3>1, <3>2 DEF Rest
  <2>8. (wc + wt + g) % 8 = (uc + ut + h) % 8
    <3> DEFINE xc == c \in r.x zc == c \in r.z bc == c \in b xt == t \in r.x zt == t \in r.z bt == t \in b
    <3>1. xc \in BOOLEAN /\ zc \in BOOLEAN /\ bc \in BOOLEAN /\ xt \in BOOLEAN /\ zt \in BOOLEAN /\ bt \in BOOLEAN
      OBVIOUS
    <3>2. /\ wc = Wire(xc, zc, bc) /\ wt = Wire(xt, zt, ~(bt <=> bc))
      BY <2>2 DEF Wire
    <3>3. uc = Wire(xc, ~(zt <=> zc), bc) /\ ut = Wire(~(xc <=> xt), zt, bt)
      BY <1>2 DEF Wire
    <3>4. h = HalfTurn(~(r.neg <=> (xc /\ zt /\ (xt <=> zc))))
      BY <1>2 DEF HalfTurn
    <3> HIDE DEF xc, zc, bc, xt, zt, bt, wc, wt, uc, ut, h
    <3>5. (Wire(xc, zc, bc) + Wire(xt, zt, ~(bt <=> bc)) + g) % 8
           = (Wire(xc, ~(zt <=> zc), bc) + Wire(~(xc <=> xt), zt, bt)
                + HalfTurn(~(r.neg <=> (xc /\ zt /\ (xt <=> zc))))) % 8
      BY <2>1, <3>1 DEF Wire, HalfTurn
    <3>6. QED
      BY <3>2, <3>3, <3>4, <3>5
  <2>9. wc \in Nat /\ wt \in Nat /\ uc \in Nat /\ ut \in Nat /\ g \in Nat /\ h \in Nat
    BY DEF Wire, HalfTurn
  <2>10. w[d] = v[Moved(d, c, t)] /\ w[b] = v[m]
    BY <2>1
  <2> HIDE DEF k, l, wc, wt, uc, ut, e, f, g, h, w, m, d
  <2>11. e \in Int /\ f \in Int /\ e % 8 = f % 8
    BY <2>5, <2>6, <2>7, <2>8, <2>9
  <2>12. Ei(e) = Ei(f)
    BY <2>11, EiEight
  <2>13. w[d] = Times(Ei(f), w[b])
    BY <2>3, <2>4, <2>10, <2>12 DEF e
  <2>14. QED
    BY <2>13 DEF f, d
<1>4. QED
  BY <1>1, <1>3 DEF Fixes, s

-----------------------------------------------------------------------------
(* Native gates on the dense vector, and the gates made of them.           *)

CxVec(v, c, t) == [b \in Basis |-> v[Moved(b, c, t)]]
NativeVec(n, v) == IF n[1] = "cx" THEN CxVec(v, n[2], n[3]) ELSE Apply1(v, n[2], NativeMat(n[1]))

LEMMA ApplyType ==
  ASSUME NEW v \in Vectors, NEW q \in Qubits, NEW m, IsMatrix(m)
  PROVE  Apply1(v, q, m) \in Vectors
<1>1. m[1] \in Amps /\ m[2] \in Amps /\ m[3] \in Amps /\ m[4] \in Amps
  BY DEF IsMatrix
<1>2. ASSUME NEW b \in Basis PROVE Apply1(v, q, m)[b] \in Amps
  <2>1. b \ {q} \in Basis /\ b \cup {q} \in Basis
    BY BothType
  <2>2. v[b] \in Amps /\ v[b \ {q}] \in Amps /\ v[b \cup {q}] \in Amps
    BY <2>1 DEF Vectors
  <2>3. QED
    BY <1>1, <2>2, RingTypes DEF Apply1
<1>3. QED
  BY <1>2 DEF Apply1, Vectors

\* Two vectors are the same if they are so on every pair of a wire.
LEMMA SamePairs ==
  ASSUME NEW v \in Vectors, NEW w \in Vectors, NEW q \in Qubits,
         \A b \in Basis : Both(v, q, b) = Both(w, q, b)
  PROVE  v = w
<1>1. ASSUME NEW b \in Basis PROVE v[b] = w[b]
  <2>1. Both(v, q, b) = Both(w, q, b)
    OBVIOUS
  <2>2. v[b \ {q}] = w[b \ {q}] /\ v[b \cup {q}] = w[b \cup {q}]
    BY <2>1 DEF Both
  <2>3. b = b \ {q} \/ b = b \cup {q}
    OBVIOUS
  <2>4. QED
    BY <2>2, <2>3
<1>2. QED
  BY <1>1 DEF Vectors

\* A controlled gate on the pairs of its target.
OnPairs(w, v, c, t, m) ==
    \A b \in Basis : Both(w, t, b) = IF c \in b THEN MatVec(m, Both(v, t, b)) ELSE Both(v, t, b)

LEMMA BothControlled ==
  ASSUME NEW v \in Vectors, NEW c \in Qubits, NEW t \in Qubits, c # t, NEW m, IsMatrix(m)
  PROVE  /\ ApplyControlled(v, c, t, m) \in Vectors
         /\ OnPairs(ApplyControlled(v, c, t, m), v, c, t, m)
<1> DEFINE w == ApplyControlled(v, c, t, m)
<1>1. m[1] \in Amps /\ m[2] \in Amps /\ m[3] \in Amps /\ m[4] \in Amps
  BY DEF IsMatrix
<1>2. ASSUME NEW b \in Basis PROVE w[b] \in Amps
  <2>1. b \ {t} \in Basis /\ b \cup {t} \in Basis
    BY BothType
  <2>2. v[b] \in Amps /\ v[b \ {t}] \in Amps /\ v[b \cup {t}] \in Amps
    BY <2>1 DEF Vectors
  <2>3. QED
    BY <1>1, <2>2, RingTypes DEF ApplyControlled
<1>3. ASSUME NEW b \in Basis PROVE Both(w, t, b) = IF c \in b THEN MatVec(m, Both(v, t, b)) ELSE Both(v, t, b)
  <2> DEFINE lo == b \ {t} hi == b \cup {t}
  <2>1. lo \in Basis /\ hi \in Basis /\ t \notin lo /\ t \in hi /\ lo \cup {t} = hi /\ hi \ {t} = lo
        /\ (c \in lo <=> c \in b) /\ (c \in hi <=> c \in b)
    BY BothType
  <2> HIDE DEF lo, hi
  <2>2. CASE c \in b
    <3>1. /\ w[lo] = Plus(Times(m[1], v[lo]), Times(m[2], v[hi]))
          /\ w[hi] = Plus(Times(m[3], v[lo]), Times(m[4], v[hi]))
      BY <2>1, <2>2 DEF ApplyControlled
    <3>2. QED
      BY <2>2, <3>1 DEF Both, MatVec, lo, hi
  <2>3. CASE c \notin b
    <3>1. w[lo] = v[lo] /\ w[hi] = v[hi]
      BY <2>1, <2>3 DEF ApplyControlled
    <3>2. QED
      BY <2>3, <3>1 DEF Both, lo, hi
  <2>4. QED
    BY <2>2, <2>3
<1>4. QED
  BY <1>2, <1>3 DEF ApplyControlled, Vectors, OnPairs

\* CX as a permutation of the basis.
LEMMA CxIs ==
  ASSUME NEW v \in Vectors, NEW c \in Qubits, NEW t \in Qubits, c # t
  PROVE  /\ CxVec(v, c, t) \in Vectors
         /\ OnPairs(CxVec(v, c, t), v, c, t, PauliMat(TRUE, FALSE))
         /\ CxVec(v, c, t) = ApplyControlled(v, c, t, <<Zero, One, One, Zero>>)
<1> DEFINE m == <<Zero, One, One, Zero>> w == ApplyControlled(v, c, t, m)
<1>1. IsMatrix(m) /\ m = PauliMat(TRUE, FALSE)
  BY Constants DEF IsMatrix, PauliMat
<1>2. w \in Vectors /\ OnPairs(w, v, c, t, m)
  <2> HIDE DEF m
  <2>1. QED
    BY <1>1, BothControlled
<1>3. ASSUME NEW b \in Basis PROVE v[Moved(b, c, t)] = w[b]
  <2>1. b \ {t} \in Basis /\ b \cup {t} \in Basis /\ v[b] \in Amps
    BY BothType DEF Vectors
  <2>2. v[b \ {t}] \in Amps /\ v[b \cup {t}] \in Amps
    BY <2>1 DEF Vectors
  <2>3. t \in b => Flip(b, t) = b \ {t}
    BY FlipLaws
  <2>4. t \notin b => Flip(b, t) = b \cup {t}
    BY FlipLaws
  <2>5. w[b] = IF c \notin b THEN v[b]
               ELSE IF t \in b THEN Plus(Times(One, v[b \ {t}]), Times(Zero, v[b]))
                               ELSE Plus(Times(Zero, v[b]), Times(One, v[b \cup {t}]))
    BY DEF ApplyControlled
  <2>6. \A x, y \in Amps : Plus(Times(One, x), Times(Zero, y)) = x /\ Plus(Times(Zero, y), Times(One, x)) = x
    BY ImLaws
  <2> HIDE DEF w
  <2>7. QED
    BY <2>1, <2>2, <2>3, <2>4, <2>5, <2>6 DEF Moved
<1>4. CxVec(v, c, t) = w
  BY <1>3 DEF CxVec, ApplyControlled
<1>5. QED
  BY <1>1, <1>2, <1>4

LEMMA NativeType ==
  ASSUME NEW n, IsNative(n), NEW v \in Vectors
  PROVE  NativeVec(n, v) \in Vectors
<1>1. CASE n[1] = "cx"
  BY <1>1, CxIs DEF IsNative, NativeVec
<1>2. CASE n[1] # "cx"
  <2> DEFINE op == n[1] q == n[2] m == NativeMat(op)
  <2>1. op \in Natives1 /\ q \in Qubits
    BY <1>2 DEF IsNative
  <2> HIDE DEF op, q
  <2>2. IsMatrix(m)
    <3>1. TRUE \in BOOLEAN
      OBVIOUS
    <3>2. QED
      BY <2>1, <3>1, MatrixTurns
  <2> HIDE DEF m
  <2>3. Apply1(v, q, m) \in Vectors
    BY <2>1, <2>2, ApplyType
  <2>4. QED
    BY <1>2, <2>3 DEF NativeVec, op, q, m
<1>3. QED
  BY <1>1, <1>2

\* A CX between two gates on its target.
LEMMA Between ==
  ASSUME NEW m, IsMatrix(m), NEW n, IsMatrix(n), NEW p, IsMatrix(p), MatTimes(m, n) = Unit,
         MatTimes(m, XMat) = MatTimes(p, m)
  PROVE  \A v \in Vectors : \A c, t \in Qubits :
           c # t => Apply1(CxVec(Apply1(v, t, n), c, t), t, m) = ApplyControlled(v, c, t, p)
<1> SUFFICES ASSUME NEW v \in Vectors, NEW c \in Qubits, NEW t \in Qubits, c # t
             PROVE  Apply1(CxVec(Apply1(v, t, n), c, t), t, m) = ApplyControlled(v, c, t, p)
  OBVIOUS
<1> DEFINE X == PauliMat(TRUE, FALSE) v1 == Apply1(v, t, n) v2 == CxVec(v1, c, t) v3 == Apply1(v2, t, m)
           w == ApplyControlled(v, c, t, p)
<1>1. v1 \in Vectors
  BY ApplyType
<1>2. v2 \in Vectors /\ OnPairs(v2, v1, c, t, X)
  <2> HIDE DEF v1
  <2>1. QED
    BY <1>1, CxIs
<1>3. v3 \in Vectors
  <2> HIDE DEF v2
  <2>1. QED
    BY <1>2, ApplyType
<1>4. IsMatrix(X)
  BY Constants DEF IsMatrix, PauliMat
<1>5. w \in Vectors /\ OnPairs(w, v, c, t, p)
  BY BothControlled
<1>6. ASSUME NEW u \in Pairs2 PROVE MatVec(m, MatVec(n, u)) = u
  <2>1. MatVec(m, MatVec(n, u)) = MatVec(Unit, u)
    BY MatVecTwice
  <2> DEFINE x == u[1] y == u[2]
  <2>2. x \in Amps /\ y \in Amps /\ u = <<x, y>>
    BY DEF Pairs2
  <2>3. MatVec(Unit, u) = <<Plus(Times(One, x), Times(Zero, y)), Plus(Times(Zero, x), Times(One, y))>>
    BY DEF MatVec, Unit
  <2> HIDE DEF x, y
  <2>4. \A a, d \in Amps : Plus(Times(One, a), Times(Zero, d)) = a /\ Plus(Times(Zero, d), Times(One, a)) = a
    BY ImLaws
  <2>5. QED
    BY <2>1, <2>2, <2>3, <2>4
<1>7. X = XMat
  BY DEF PauliMat, XMat
<1> HIDE DEF X
<1>8. ASSUME NEW u \in Pairs2 PROVE MatVec(m, MatVec(X, u)) = MatVec(p, MatVec(m, u))
  <2>1. MatVec(m, MatVec(X, u)) = MatVec(MatTimes(m, X), u)
    BY <1>4, <1>8, MatVecTwice
  <2>2. MatVec(p, MatVec(m, u)) = MatVec(MatTimes(p, m), u)
    BY <1>8, MatVecTwice
  <2>3. QED
    BY <1>7, <2>1, <2>2
<1>9. ASSUME NEW b \in Basis PROVE Both(v3, t, b) = Both(w, t, b)
  <2> DEFINE u == Both(v, t, b)
  <2>1. u \in Pairs2
    BY BothType
  <2>2. Both(v1, t, b) = MatVec(n, u)
    BY BothApply
  <2>3. MatVec(n, u) \in Pairs2
    <3> HIDE DEF u
    <3>1. QED
      BY <2>1, MatVecType
  <2>4. Both(v3, t, b) = MatVec(m, Both(v2, t, b))
    <3> HIDE DEF v2
    <3>1. QED
      BY <1>2, BothApply
  <2> HIDE DEF u, v1, v2, v3, w
  <2>5. MatVec(m, MatVec(n, u)) = u
    BY <1>6, <2>1
  <2>6. MatVec(m, MatVec(X, MatVec(n, u))) = MatVec(p, MatVec(m, MatVec(n, u)))
    BY <1>8, <2>3
  <2>7. QED
    BY <1>2, <1>5, <2>2, <2>4, <2>5, <2>6 DEF u, OnPairs
<1> HIDE DEF v1, v2, v3, w
<1>10. v3 = w
  BY <1>3, <1>5, <1>9, SamePairs
<1>11. QED
  BY <1>10 DEF v1, v2, v3, w

-----------------------------------------------------------------------------
(* What holds of the tableau and the dense vector together.                *)

Str(x, z) == [x |-> x, z |-> z, neg |-> FALSE]

\* No string but the identity commutes with every row.
Faithful(u) ==
    \A x, z \in SUBSET Qubits :
        (\A k \in Qubits : ~anticommutes(u.stab[k], Str(x, z)) /\ ~anticommutes(u.destab[k], Str(x, z)))
            => x = {} /\ z = {}

Stabilizes(u, v) == \A k \in Qubits : Fixes(u.stab[k], v)

Sound(u, v) == u \in Tableaux /\ Independent(u) /\ Faithful(u) /\ v \in Vectors /\ Stabilizes(u, v)

LEMMA StrRow ==
  ASSUME NEW x \in SUBSET Qubits, NEW z \in SUBSET Qubits
  PROVE  Str(x, z) \in Rows /\ Str(x, z).x = x /\ Str(x, z).z = z /\ Str(x, z).neg = FALSE
BY DEF Str, Rows

\* Commutation does not see the sign.
LEMMA AntiParts ==
  ASSUME NEW r, NEW a, NEW b, a.x = b.x, a.z = b.z
  PROVE  anticommutes(r, a) <=> anticommutes(r, b)
BY DEF anticommutes

\* The X bit and the Z bit of an image.
XBit(op, q, t, r, i) ==
    IF op = "h" /\ i = q THEN q \in r.z
    ELSE IF op \in {"sx", "sxdg"} /\ i = q THEN ~(q \in r.x <=> q \in r.z)
    ELSE IF op = "cx" /\ i = t THEN ~(q \in r.x <=> t \in r.x)
    ELSE i \in r.x
ZBit(op, q, t, r, i) ==
    IF op = "h" /\ i = q THEN q \in r.x
    ELSE IF op \in {"s", "sdg"} /\ i = q THEN ~(q \in r.x <=> q \in r.z)
    ELSE IF op = "cx" /\ i = q THEN ~(t \in r.z <=> q \in r.z)
    ELSE i \in r.z

LEMMA OnRowBits ==
  ASSUME NEW op \in Natives1 \cup {"cx"}, NEW q \in Qubits, NEW t \in Qubits, NEW r \in Rows
  PROVE  LET u == OnRow(op, q, t, r)
         IN  u \in Rows /\ \A i : (i \in u.x <=> XBit(op, q, t, r, i)) /\ (i \in u.z <=> ZBit(op, q, t, r, i))
<1> DEFINE u == OnRow(op, q, t, r)
<1>1. u \in Rows
  BY OnRowIn
<1>2. CASE op = "h"
  <2>1. \A i : i \in u.x <=> IF i = q THEN q \in r.z ELSE i \in r.x
    BY <1>2, OnRowType
  <2>2. \A i : i \in u.z <=> IF i = q THEN q \in r.x ELSE i \in r.z
    BY <1>2, OnRowType
  <2> HIDE DEF u
  <2>3. \A i : (XBit(op, q, t, r, i) <=> IF i = q THEN q \in r.z ELSE i \in r.x)
              /\ (ZBit(op, q, t, r, i) <=> IF i = q THEN q \in r.x ELSE i \in r.z)
    BY <1>2 DEF XBit, ZBit
  <2>4. QED
    BY <1>1, <2>1, <2>2, <2>3 DEF u
<1>3. CASE op \in {"s", "sdg"}
  <2>1. u.x = r.x
    BY <1>3, OnRowType
  <2>2. \A i : i \in u.z <=> IF i = q THEN ~(q \in r.x <=> q \in r.z) ELSE i \in r.z
    BY <1>3, OnRowType
  <2> HIDE DEF u
  <2>3. \A i : (XBit(op, q, t, r, i) <=> i \in r.x)
              /\ (ZBit(op, q, t, r, i) <=> IF i = q THEN ~(q \in r.x <=> q \in r.z) ELSE i \in r.z)
    BY <1>3 DEF XBit, ZBit
  <2>4. QED
    BY <1>1, <2>1, <2>2, <2>3 DEF u
<1>4. CASE op \in {"sx", "sxdg"}
  <2>1. u.z = r.z
    BY <1>4, OnRowType
  <2>2. \A i : i \in u.x <=> IF i = q THEN ~(q \in r.x <=> q \in r.z) ELSE i \in r.x
    BY <1>4, OnRowType
  <2> HIDE DEF u
  <2>3. \A i : (ZBit(op, q, t, r, i) <=> i \in r.z)
              /\ (XBit(op, q, t, r, i) <=> IF i = q THEN ~(q \in r.x <=> q \in r.z) ELSE i \in r.x)
    BY <1>4 DEF XBit, ZBit
  <2>4. QED
    BY <1>1, <2>1, <2>2, <2>3 DEF u
<1>5. CASE op \in {"x", "y", "z"}
  <2>1. u.x = r.x /\ u.z = r.z
    BY <1>5, OnRowType
  <2> HIDE DEF u
  <2>2. \A i : (XBit(op, q, t, r, i) <=> i \in r.x) /\ (ZBit(op, q, t, r, i) <=> i \in r.z)
    BY <1>5 DEF XBit, ZBit
  <2>3. QED
    BY <1>1, <2>1, <2>2 DEF u
<1>6. CASE op = "cx"
  <2>1. \A i : i \in u.x <=> IF i = t THEN ~(q \in r.x <=> t \in r.x) ELSE i \in r.x
    BY <1>6, OnRowType
  <2>2. \A i : i \in u.z <=> IF i = q THEN ~(t \in r.z <=> q \in r.z) ELSE i \in r.z
    BY <1>6, OnRowType
  <2> HIDE DEF u
  <2>3. \A i : (XBit(op, q, t, r, i) <=> IF i = t THEN ~(q \in r.x <=> t \in r.x) ELSE i \in r.x)
              /\ (ZBit(op, q, t, r, i) <=> IF i = q THEN ~(t \in r.z <=> q \in r.z) ELSE i \in r.z)
    BY <1>6 DEF XBit, ZBit
  <2>4. QED
    BY <1>1, <2>1, <2>2, <2>3 DEF u
<1>7. QED
  BY <1>2, <1>3, <1>4, <1>5, <1>6 DEF Natives1

\* A native gate twice is the identity on the X part and the Z part.
LEMMA NativeTwice ==
  ASSUME NEW n, IsNative(n), NEW r \in Rows
  PROVE  LET a == OnRow(n[1], n[2], n[3], r)
             b == OnRow(n[1], n[2], n[3], a)
         IN  /\ a \in Rows /\ b \in Rows /\ b.x = r.x /\ b.z = r.z
             /\ a.x = {} /\ a.z = {} => b.x = {} /\ b.z = {}
<1> DEFINE op == n[1] q == n[2] t == n[3] a == OnRow(op, q, t, r) b == OnRow(op, q, t, a)
<1>1. op \in Natives1 \cup {"cx"} /\ q \in Qubits /\ t \in Qubits /\ (op = "cx" => q # t)
  BY DEF IsNative
<1> HIDE DEF op, q, t
<1>2. a \in Rows /\ \A i : (i \in a.x <=> XBit(op, q, t, r, i)) /\ (i \in a.z <=> ZBit(op, q, t, r, i))
  BY <1>1, OnRowBits
<1> HIDE DEF a
<1>3. b \in Rows /\ \A i : (i \in b.x <=> XBit(op, q, t, a, i)) /\ (i \in b.z <=> ZBit(op, q, t, a, i))
  BY <1>1, <1>2, OnRowBits
<1> HIDE DEF b
<1>4. \A i : (i \in b.x <=> i \in r.x) /\ (i \in b.z <=> i \in r.z)
  <2> TAKE i
  <2>1. CASE op = "h"
    BY <1>2, <1>3, <2>1 DEF XBit, ZBit
  <2>2. CASE op \in {"s", "sdg"}
    BY <1>2, <1>3, <2>2 DEF XBit, ZBit
  <2>3. CASE op \in {"sx", "sxdg"}
    BY <1>2, <1>3, <2>3 DEF XBit, ZBit
  <2>4. CASE op \in {"x", "y", "z"}
    BY <1>2, <1>3, <2>4 DEF XBit, ZBit
  <2>5. CASE op = "cx"
    BY <1>1, <1>2, <1>3, <2>5 DEF XBit, ZBit
  <2>6. QED
    BY <1>1, <2>1, <2>2, <2>3, <2>4, <2>5 DEF Natives1
<1>5. a.x = {} /\ a.z = {} => \A i : i \notin b.x /\ i \notin b.z
  <2> SUFFICES ASSUME a.x = {}, a.z = {}, NEW i PROVE i \notin b.x /\ i \notin b.z
    OBVIOUS
  <2>1. ~XBit(op, q, t, a, i) /\ ~ZBit(op, q, t, a, i)
    BY DEF XBit, ZBit
  <2>2. QED
    BY <1>3, <2>1
<1>6. r.x \in SUBSET Qubits /\ r.z \in SUBSET Qubits /\ b.x \in SUBSET Qubits /\ b.z \in SUBSET Qubits
  BY <1>3 DEF Rows
<1>7. b.x = r.x /\ b.z = r.z
  BY <1>4, <1>6
<1>8. a.x = {} /\ a.z = {} => b.x = {} /\ b.z = {}
  BY <1>5, <1>6
<1>9. QED
  BY <1>2, <1>3, <1>7, <1>8 DEF a, b, op, q, t

LEMMA StepFaithful ==
  ASSUME NEW u \in Tableaux, Faithful(u), NEW n, IsNative(n)
  PROVE  Faithful(Step(u, n))
<1> DEFINE Image(r) == OnRow(n[1], n[2], n[3], r) w == Step(u, n)
<1>1. /\ \A k \in Qubits : u.destab[k] \in Rows /\ u.stab[k] \in Rows
      /\ \A k \in Qubits : w.destab[k] = Image(u.destab[k]) /\ w.stab[k] = Image(u.stab[k])
  BY DEF Tableaux, Step, EveryRow
<1>2. ASSUME NEW x \in SUBSET Qubits, NEW z \in SUBSET Qubits,
             \A k \in Qubits : ~anticommutes(w.stab[k], Str(x, z)) /\ ~anticommutes(w.destab[k], Str(x, z))
      PROVE  x = {} /\ z = {}
  <2> DEFINE P == Str(x, z) Q == Image(P) R == Image(Q) S == Str(Q.x, Q.z)
  <2>1. P \in Rows /\ P.x = x /\ P.z = z
    BY StrRow
  <2>2. Q \in Rows /\ R \in Rows /\ R.x = P.x /\ R.z = P.z /\ (Q.x = {} /\ Q.z = {} => R.x = {} /\ R.z = {})
    <3> HIDE DEF P
    <3>1. QED
      BY <2>1, NativeTwice
  <2>3. Q.x \in SUBSET Qubits /\ Q.z \in SUBSET Qubits
    BY <2>2 DEF Rows
  <2>4. S \in Rows /\ S.x = Q.x /\ S.z = Q.z
    <3> HIDE DEF Q
    <3>1. QED
      BY <2>3, StrRow
  <2>5. ASSUME NEW r \in Rows PROVE anticommutes(Image(r), P) <=> anticommutes(r, S)
    <3>1. anticommutes(Image(r), P) <=> anticommutes(Image(r), R)
      <4> HIDE DEF Image, P, Q, R
      <4>1. QED
        BY <2>2, AntiParts
    <3>2. anticommutes(Image(r), R) <=> anticommutes(r, Q)
      <4> HIDE DEF Q
      <4>1. QED
        BY <2>2, GateKeeps
    <3>3. anticommutes(r, Q) <=> anticommutes(r, S)
      <4> HIDE DEF Image, Q, S
      <4>1. QED
        BY <2>4, AntiParts
    <3>4. QED
      BY <3>1, <3>2, <3>3
  <2> HIDE DEF Image, P, Q, R, S, w
  <2>6. \A k \in Qubits : ~anticommutes(u.stab[k], S) /\ ~anticommutes(u.destab[k], S)
    BY <1>1, <1>2, <2>5 DEF P
  <2>7. Q.x = {} /\ Q.z = {}
    BY <2>3, <2>6 DEF Faithful, S
  <2>8. R.x = {} /\ R.z = {}
    BY <2>2, <2>7
  <2>9. QED
    BY <2>1, <2>2, <2>8
<1>3. QED
  BY <1>2 DEF Faithful

\* A native gate as the tableau takes it: both wires of a gate of one wire are
\* the same.
IsProper(n) == IsNative(n) /\ (n[1] # "cx" => n[2] = n[3])

LEMMA NativeFixes ==
  ASSUME NEW n, IsProper(n), NEW v \in Vectors, NEW r \in Rows, Fixes(r, v)
  PROVE  Fixes(OnRow(n[1], n[2], n[3], r), NativeVec(n, v))
<1> DEFINE op == n[1] q == n[2] t == n[3]
<1>1. op \in Natives1 \cup {"cx"} /\ q \in Qubits /\ t \in Qubits
      /\ (op = "cx" => q # t) /\ (op # "cx" => q = t)
  BY DEF IsNative, IsProper
<1>2. NativeVec(n, v) = IF op = "cx" THEN CxVec(v, q, t) ELSE Apply1(v, q, NativeMat(op))
  BY DEF NativeVec
<1> HIDE DEF op, q, t
<1>3. CASE op = "cx"
  <2>1. Fixes(OnRow("cx", q, t, r), CxVec(v, q, t))
    BY <1>1, <1>3, CxFixes DEF CxVec
  <2>2. QED
    BY <1>2, <1>3, <2>1 DEF op, q, t
<1>4. CASE op # "cx"
  <2>1. op \in Natives1 /\ t = q
    BY <1>1, <1>4
  <2>2. Fixes(OnRow(op, q, q, r), Apply1(v, q, NativeMat(op)))
    BY <1>1, <2>1, OneWireFixes
  <2>3. QED
    BY <1>2, <1>4, <2>1, <2>2 DEF op, q, t
<1>5. QED
  BY <1>3, <1>4

LEMMA NativeSound ==
  ASSUME NEW u, NEW v, Sound(u, v), NEW n, IsProper(n)
  PROVE  Sound(Step(u, n), NativeVec(n, v))
<1>1. u \in Tableaux /\ Independent(u) /\ Faithful(u) /\ v \in Vectors /\ Stabilizes(u, v) /\ IsNative(n)
  BY DEF Sound, IsProper
<1>2. Step(u, n) \in Tableaux /\ Independent(Step(u, n))
  BY <1>1, StepKeeps
<1>3. Faithful(Step(u, n))
  BY <1>1, StepFaithful
<1>4. NativeVec(n, v) \in Vectors
  BY <1>1, NativeType
<1>5. Stabilizes(Step(u, n), NativeVec(n, v))
  <2>1. \A k \in Qubits : u.stab[k] \in Rows /\ Step(u, n).stab[k] = OnRow(n[1], n[2], n[3], u.stab[k])
    BY <1>1 DEF Tableaux, Step, EveryRow
  <2>2. ASSUME NEW k \in Qubits PROVE Fixes(OnRow(n[1], n[2], n[3], u.stab[k]), NativeVec(n, v))
    <3>1. u.stab[k] \in Rows /\ Fixes(u.stab[k], v)
      BY <1>1, <2>1 DEF Stabilizes
    <3>2. QED
      BY <1>1, <3>1, NativeFixes
  <2>3. QED
    BY <2>1, <2>2 DEF Stabilizes
<1>6. QED
  BY <1>2, <1>3, <1>4, <1>5 DEF Sound

VecThen(v, native, n) == IF n \in DOMAIN native THEN NativeVec(native[n], v) ELSE v
VecGate(v, g) == VecThen(VecThen(VecThen(v, Native(g), 1), Native(g), 2), Native(g), 3)

-----------------------------------------------------------------------------
(* The dense gate is made of the same native ones.                         *)

LEMMA HandS ==
  /\ MatTimes(NativeMat("h"), NativeMat("h")) = Unit
  /\ MatTimes(NativeMat("s"), NativeMat("sdg")) = Unit
  /\ IsMatrix(NativeMat("h")) /\ IsMatrix(NativeMat("s")) /\ IsMatrix(NativeMat("sdg"))
  /\ IsMatrix(PauliMat(FALSE, TRUE)) /\ IsMatrix(PauliMat(TRUE, TRUE))
  /\ MatTimes(NativeMat("h"), PauliMat(TRUE, FALSE)) = MatTimes(PauliMat(FALSE, TRUE), NativeMat("h"))
  /\ MatTimes(NativeMat("s"), PauliMat(TRUE, FALSE)) = MatTimes(PauliMat(TRUE, TRUE), NativeMat("s"))
<1> DEFINE g == Gate("H", <<0>>)
<1>1. g.op = "H" /\ g.op \in OneQubit
  BY DEF Gate, OneQubit
<1>2. GateMatrix(g) = <<ISqrt2, ISqrt2, ISqrt2, Neg(ISqrt2)>>
  <2> HIDE DEF g
  <2>1. QED
    BY <1>1 DEF GateMatrix, Matrix
<1>3. NativeMat("h") = <<ISqrt2, ISqrt2, ISqrt2, Neg(ISqrt2)>> /\ NativeMat("s") = <<One, Zero, Zero, ImUnit>>
      /\ NativeMat("sdg") = <<One, Zero, Zero, Neg(ImUnit)>>
  BY DEF NativeMat
<1>4. MatTimes(NativeMat("h"), NativeMat("h")) = Unit
  <2> HIDE DEF g
  <2>1. MatTimes(GateMatrix(g), GateMatrix(g)) = Unit
    BY <1>1, Inverses
  <2>2. QED
    BY <1>2, <1>3, <2>1
<1>5. MatTimes(NativeMat("s"), NativeMat("sdg")) = Unit
  <2> DEFINE i == ImUnit
  <2>0. i = ImUnit
    OBVIOUS
  <2>1. One \in Amps /\ Zero \in Amps /\ i \in Amps /\ Neg(i) \in Amps /\ Neg(One) \in Amps
    BY Constants
  <2>2. Times(i, Neg(i)) = One
    <3>1. Times(i, Neg(i)) = Neg(Im(i)) /\ Im(i) = Neg(One) /\ Neg(Neg(One)) = One
      BY <2>1, ImLaws, ImConstants
    <3>2. QED
      BY <3>1
  <2>3. \A y \in Amps : Times(One, y) = y /\ Times(y, One) = y /\ Times(Zero, y) = Zero /\ Times(y, Zero) = Zero
                        /\ Plus(y, Zero) = y /\ Plus(Zero, y) = y
    BY ImLaws
  <2> HIDE DEF i
  <2>4. MatTimes(<<One, Zero, Zero, i>>, <<One, Zero, Zero, Neg(i)>>) = <<One, Zero, Zero, One>>
    BY <2>1, <2>2, <2>3 DEF MatTimes
  <2>5. QED
    BY <1>3, <2>0, <2>4 DEF Unit
<1>6. IsMatrix(PauliMat(FALSE, TRUE)) /\ IsMatrix(PauliMat(TRUE, TRUE))
  BY Constants DEF IsMatrix, PauliMat
<1>7. ASSUME NEW op \in Natives1, op \in {"h", "s", "sdg"}
      PROVE  /\ IsMatrix(NativeMat(op))
             /\ op = "h" => MatTimes(NativeMat(op), PauliMat(TRUE, FALSE)) = MatTimes(PauliMat(FALSE, TRUE), NativeMat(op))
             /\ op = "s" => MatTimes(NativeMat(op), PauliMat(TRUE, FALSE)) = MatTimes(PauliMat(TRUE, TRUE), NativeMat(op))
  <2> DEFINE m == NativeMat(op) c == Turned(op, TRUE, FALSE)
  <2>1. IsMatrix(m) /\ Right(TRUE, FALSE, m) = IF c[3] THEN Opposite(Left(c[1], c[2], m)) ELSE Left(c[1], c[2], m)
    <3>1. TRUE \in BOOLEAN /\ FALSE \in BOOLEAN
      OBVIOUS
    <3>2. QED
      BY <3>1, MatrixTurns
  <2>2. op = "h" => c = <<FALSE, TRUE, FALSE>>
    BY DEF Turned
  <2>3. op = "s" => c = <<TRUE, TRUE, FALSE>>
    BY DEF Turned
  <2> HIDE DEF m, c
  <2>4. /\ MatTimes(m, PauliMat(TRUE, FALSE)) = Right(TRUE, FALSE, m)
        /\ MatTimes(PauliMat(FALSE, TRUE), m) = Left(FALSE, TRUE, m)
        /\ MatTimes(PauliMat(TRUE, TRUE), m) = Left(TRUE, TRUE, m)
    <3>1. \A x, z \in BOOLEAN : MatTimes(m, PauliMat(x, z)) = Right(x, z, m) /\ MatTimes(PauliMat(x, z), m) = Left(x, z, m)
      BY <2>1, PauliSides
    <3>2. QED
      BY <3>1
  <2>5. CASE op = "h"
    <3>1. Right(TRUE, FALSE, m) = Left(FALSE, TRUE, m)
      <4>1. c = <<FALSE, TRUE, FALSE>>
        BY <2>2, <2>5
      <4>2. Left(c[1], c[2], m) = Left(FALSE, TRUE, m)
        BY <4>1
      <4>3. ~c[3]
        BY <4>1
      <4>4. QED
        BY <2>1, <4>2, <4>3
    <3>2. QED
      BY <2>1, <2>4, <2>5, <3>1 DEF m
  <2>6. CASE op = "s"
    <3>1. Right(TRUE, FALSE, m) = Left(TRUE, TRUE, m)
      <4>1. c = <<TRUE, TRUE, FALSE>>
        BY <2>3, <2>6
      <4>2. Left(c[1], c[2], m) = Left(TRUE, TRUE, m)
        BY <4>1
      <4>3. ~c[3]
        BY <4>1
      <4>4. QED
        BY <2>1, <4>2, <4>3
    <3>2. QED
      BY <2>1, <2>4, <2>6, <3>1 DEF m
  <2>7. CASE op = "sdg"
    BY <2>1, <2>7 DEF m
  <2>8. QED
    BY <1>7, <2>5, <2>6, <2>7
<1>8. "h" \in Natives1 /\ "s" \in Natives1 /\ "sdg" \in Natives1
  BY DEF Natives1
<1>9. QED
  BY <1>4, <1>5, <1>6, <1>7, <1>8

\* The native gates of a gate of the circuit are proper.
LEMMA NativesProper ==
  ASSUME NEW g, Wired(g), g.op \in Clifford
  PROVE  \A i \in DOMAIN Native(g) : IsProper(Native(g)[i])
<1> DEFINE native == Native(g)
           q == g.qs[1]
           t == g.qs[Len(g.qs)]
<1>1. CASE g.op \in {"Id", "Barrier", "Measure"}
  <2>1. native = <<>>
    BY <1>1 DEF Native
  <2>2. QED
    BY <2>1
<1>2. CASE g.op \in {"H", "X", "Y", "Z", "S", "Sdg", "Sx", "Sxdg"}
  <2>1. q \in Qubits
    BY <1>2 DEF Wired, OnOne, OneQubit
  <2>2. PICK op \in Natives1 : native = <<<<op, q, q>>>>
    BY <1>2 DEF Native, Natives1
  <2>3. QED
    BY <2>1, <2>2 DEF IsNative, IsProper, Natives1
<1>3. CASE g.op \in {"CX", "CY", "CZ", "Swap"}
  <2>1. q \in Qubits /\ t \in Qubits /\ q # t
    BY <1>3 DEF Wired, OnTwo, Controlled
  <2> HIDE DEF q, t
  <2>2. CASE g.op = "CX"
    <3>1. native = <<<<"cx", q, t>>>>
      BY <2>2 DEF Native, q, t
    <3>2. QED
      BY <2>1, <3>1 DEF IsNative, IsProper
  <2>3. CASE g.op = "CZ"
    <3>1. native = <<<<"h", t, t>>, <<"cx", q, t>>, <<"h", t, t>>>>
      BY <2>3 DEF Native, q, t
    <3>2. QED
      BY <2>1, <3>1 DEF IsNative, IsProper, Natives1
  <2>4. CASE g.op = "CY"
    <3>1. native = <<<<"sdg", t, t>>, <<"cx", q, t>>, <<"s", t, t>>>>
      BY <2>4 DEF Native, q, t
    <3>2. QED
      BY <2>1, <3>1 DEF IsNative, IsProper, Natives1
  <2>5. CASE g.op = "Swap"
    <3>1. native = <<<<"cx", q, t>>, <<"cx", t, q>>, <<"cx", q, t>>>>
      BY <2>5 DEF Native, q, t
    <3>2. QED
      BY <2>1, <3>1 DEF IsNative, IsProper
  <2>6. QED
    BY <1>3, <2>2, <2>3, <2>4, <2>5
<1>4. QED
  BY <1>1, <1>2, <1>3 DEF Clifford

\* Three CX gates exchange two wires.
LEMMA ThreeCx ==
  ASSUME NEW v \in Vectors, NEW c \in Qubits, NEW t \in Qubits, c # t
  PROVE  CxVec(CxVec(CxVec(v, c, t), t, c), c, t) = [b \in Basis |-> v[Swapped(b, c, t)]]
<1>1. ASSUME NEW b \in Basis
      PROVE  CxVec(CxVec(CxVec(v, c, t), t, c), c, t)[b] = v[Swapped(b, c, t)]
  <2> DEFINE b1 == Moved(b, c, t) b2 == Moved(b1, t, c) b3 == Moved(b2, c, t) s == Swapped(b, c, t)
  <2>1. /\ b1 \in Basis /\ \A i : i # t => (i \in b1 <=> i \in b)
        /\ t \in b1 <=> ~(t \in b <=> c \in b)
    BY <1>1, MovedLaws
  <2>2. /\ b2 \in Basis /\ \A i : i # c => (i \in b2 <=> i \in b1)
        /\ c \in b2 <=> ~(c \in b1 <=> t \in b1)
    <3> HIDE DEF b1
    <3>1. QED
      BY <2>1, MovedLaws
  <2>3. /\ b3 \in Basis /\ \A i : i # t => (i \in b3 <=> i \in b2)
        /\ t \in b3 <=> ~(t \in b2 <=> c \in b2)
    <3> HIDE DEF b2
    <3>1. QED
      BY <2>2, MovedLaws
  <2>4. /\ s \in Basis /\ (c \in s <=> t \in b) /\ (t \in s <=> c \in b)
        /\ \A i : i # c /\ i # t => (i \in s <=> i \in b)
    BY <1>1, SwapLaws
  <2>5. CxVec(CxVec(CxVec(v, c, t), t, c), c, t)[b] = v[b3]
    BY <1>1, <2>1, <2>2, <2>3 DEF CxVec
  <2> HIDE DEF b1, b2, b3, s
  <2>6. \A i : i \in b3 <=> i \in s
    <3> TAKE i
    <3>1. CASE i = c
      BY <2>1, <2>2, <2>3, <2>4, <3>1
    <3>2. CASE i = t
      BY <2>1, <2>2, <2>3, <2>4, <3>2
    <3>3. CASE i # c /\ i # t
      BY <2>1, <2>2, <2>3, <2>4, <3>3
    <3>4. QED
      BY <3>1, <3>2, <3>3
  <2>7. b3 = s
    BY <2>6
  <2>8. QED
    BY <2>5, <2>7 DEF s
<1>2. QED
  BY <1>1 DEF CxVec

\* The native gates make the gate of the dense engine.
LEMMA NativesMake ==
  ASSUME NEW g, Wired(g), g.op \in Clifford, NEW v \in Vectors
  PROVE  VecGate(v, g) = ApplyGate(v, g)
<1> DEFINE native == Native(g)
           q == g.qs[1]
           t == g.qs[Len(g.qs)]
<1>1. CASE g.op \in {"Id", "Barrier", "Measure"}
  <2>1. native = <<>>
    BY <1>1 DEF Native
  <2>2. VecGate(v, g) = v
    BY <2>1 DEF VecGate, VecThen
  <2>3. ApplyGate(v, g) = v
    BY <1>1 DEF ApplyGate, OneQubit, Controlled
  <2>4. QED
    BY <2>2, <2>3
<1>2. CASE g.op \in {"H", "X", "Y", "Z", "S", "Sdg", "Sx", "Sxdg"}
  <2>1. q \in Qubits
    BY <1>2 DEF Wired, OnOne, OneQubit
  <2>2. PICK op \in Natives1 : native = <<<<op, q, q>>>> /\ NativeMat(op) = Matrix(g) /\ op # "cx"
    <3>1. CASE g.op = "H"
      <4>1. native = <<<<"h", q, q>>>>
        BY <3>1 DEF Native
      <4>2. NativeMat("h") = Matrix(g)
        BY <3>1 DEF NativeMat, Matrix
      <4>3. "h" \in Natives1 /\ "h" # "cx"
        BY DEF Natives1
      <4>4. QED
        BY <4>1, <4>2, <4>3
    <3>2. CASE g.op = "X"
      <4>1. native = <<<<"x", q, q>>>>
        BY <3>2 DEF Native
      <4>2. NativeMat("x") = Matrix(g)
        BY <3>2 DEF NativeMat, Matrix
      <4>3. "x" \in Natives1 /\ "x" # "cx"
        BY DEF Natives1
      <4>4. QED
        BY <4>1, <4>2, <4>3
    <3>3. CASE g.op = "Y"
      <4>1. native = <<<<"y", q, q>>>>
        BY <3>3 DEF Native
      <4>2. NativeMat("y") = Matrix(g)
        BY <3>3 DEF NativeMat, Matrix
      <4>3. "y" \in Natives1 /\ "y" # "cx"
        BY DEF Natives1
      <4>4. QED
        BY <4>1, <4>2, <4>3
    <3>4. CASE g.op = "Z"
      <4>1. native = <<<<"z", q, q>>>>
        BY <3>4 DEF Native
      <4>2. NativeMat("z") = Matrix(g)
        BY <3>4 DEF NativeMat, Matrix
      <4>3. "z" \in Natives1 /\ "z" # "cx"
        BY DEF Natives1
      <4>4. QED
        BY <4>1, <4>2, <4>3
    <3>5. CASE g.op = "S"
      <4>1. native = <<<<"s", q, q>>>>
        BY <3>5 DEF Native
      <4>2. NativeMat("s") = Matrix(g)
        BY <3>5 DEF NativeMat, Matrix
      <4>3. "s" \in Natives1 /\ "s" # "cx"
        BY DEF Natives1
      <4>4. QED
        BY <4>1, <4>2, <4>3
    <3>6. CASE g.op = "Sdg"
      <4>1. native = <<<<"sdg", q, q>>>>
        BY <3>6 DEF Native
      <4>2. NativeMat("sdg") = Matrix(g)
        BY <3>6 DEF NativeMat, Matrix
      <4>3. "sdg" \in Natives1 /\ "sdg" # "cx"
        BY DEF Natives1
      <4>4. QED
        BY <4>1, <4>2, <4>3
    <3>7. CASE g.op = "Sx"
      <4>1. native = <<<<"sx", q, q>>>>
        BY <3>7 DEF Native
      <4>2. NativeMat("sx") = Matrix(g)
        BY <3>7 DEF NativeMat, Matrix
      <4>3. "sx" \in Natives1 /\ "sx" # "cx"
        BY DEF Natives1
      <4>4. QED
        BY <4>1, <4>2, <4>3
    <3>8. CASE g.op = "Sxdg"
      <4>1. native = <<<<"sxdg", q, q>>>>
        BY <3>8 DEF Native
      <4>2. NativeMat("sxdg") = Matrix(g)
        BY <3>8 DEF NativeMat, Matrix
      <4>3. "sxdg" \in Natives1 /\ "sxdg" # "cx"
        BY DEF Natives1
      <4>4. QED
        BY <4>1, <4>2, <4>3
    <3>9. QED
      BY <1>2, <3>1, <3>2, <3>3, <3>4, <3>5, <3>6, <3>7, <3>8
  <2>3. VecGate(v, g) = NativeVec(<<op, q, q>>, v)
    <3>1. 1 \in DOMAIN native /\ 2 \notin DOMAIN native /\ 3 \notin DOMAIN native /\ native[1] = <<op, q, q>>
      BY <2>2
    <3> HIDE DEF q, t
    <3>2. QED
      BY <3>1 DEF VecGate, VecThen, native
  <2>4. ApplyGate(v, g) = Apply1(v, q, Matrix(g))
    BY <1>2 DEF ApplyGate, OneQubit, Controlled
  <2>5. NativeVec(<<op, q, q>>, v) = Apply1(v, q, NativeMat(op))
    BY <2>2 DEF NativeVec
  <2>6. QED
    BY <2>2, <2>3, <2>4, <2>5
<1>3. CASE g.op \in {"CX", "CY", "CZ", "Swap"}
  <2>1. q \in Qubits /\ t \in Qubits /\ q # t /\ t = g.qs[2]
    BY <1>3 DEF Wired, OnTwo, Controlled
  <2>9. g.op \in {"CX", "CY", "CZ"} => ApplyGate(v, g) = ApplyControlled(v, q, t, Block(g))
    BY <2>1 DEF ApplyGate, OneQubit, Controlled
  <2> HIDE DEF q, t
  <2>8. \A a, b : NativeVec(<<"cx", a, b>>, v) = CxVec(v, a, b)
    BY DEF NativeVec
  <2>2. CASE g.op = "CX"
    <3>1. native = <<<<"cx", q, t>>>>
      BY <2>2 DEF Native, q, t
    <3>2. VecGate(v, g) = CxVec(v, q, t)
      BY <3>1, <2>8 DEF VecGate, VecThen
    <3>3. Block(g) = <<Zero, One, One, Zero>>
      BY <2>2 DEF Block
    <3>4. CxVec(v, q, t) = ApplyControlled(v, q, t, <<Zero, One, One, Zero>>)
      BY <2>1, CxIs
    <3>5. QED
      BY <2>2, <2>9, <3>2, <3>3, <3>4
  <2>3. CASE g.op = "CZ"
    <3>1. native = <<<<"h", t, t>>, <<"cx", q, t>>, <<"h", t, t>>>>
      BY <2>3 DEF Native, q, t
    <3>2. VecGate(v, g) = Apply1(CxVec(Apply1(v, t, NativeMat("h")), q, t), t, NativeMat("h"))
      BY <3>1 DEF VecGate, VecThen, NativeVec
    <3>3. Block(g) = PauliMat(FALSE, TRUE)
      BY <2>3 DEF Block, PauliMat
    <3>4. Apply1(CxVec(Apply1(v, t, NativeMat("h")), q, t), t, NativeMat("h")) = ApplyControlled(v, q, t, PauliMat(FALSE, TRUE))
      <4> DEFINE m == NativeMat("h") n == NativeMat("h") p == PauliMat(FALSE, TRUE)
      <4>1. IsMatrix(m) /\ IsMatrix(n) /\ IsMatrix(p) /\ MatTimes(m, n) = Unit
            /\ MatTimes(m, XMat) = MatTimes(p, m)
        BY HandS DEF PauliMat, XMat
      <4> HIDE DEF m, n, p
      <4>2. Apply1(CxVec(Apply1(v, t, n), q, t), t, m) = ApplyControlled(v, q, t, p)
        <5>1. \A w \in Vectors : \A c, d \in Qubits :
                c # d => Apply1(CxVec(Apply1(w, d, n), c, d), d, m) = ApplyControlled(w, c, d, p)
          BY <4>1, Between
        <5>2. QED
          BY <2>1, <5>1
      <4>3. QED
        BY <4>2 DEF m, n, p
    <3>5. QED
      BY <2>3, <2>9, <3>2, <3>3, <3>4
  <2>4. CASE g.op = "CY"
    <3>1. native = <<<<"sdg", t, t>>, <<"cx", q, t>>, <<"s", t, t>>>>
      BY <2>4 DEF Native, q, t
    <3>2. VecGate(v, g) = Apply1(CxVec(Apply1(v, t, NativeMat("sdg")), q, t), t, NativeMat("s"))
      BY <3>1 DEF VecGate, VecThen, NativeVec
    <3>3. Block(g) = PauliMat(TRUE, TRUE)
      BY <2>4 DEF Block, PauliMat
    <3>4. Apply1(CxVec(Apply1(v, t, NativeMat("sdg")), q, t), t, NativeMat("s")) = ApplyControlled(v, q, t, PauliMat(TRUE, TRUE))
      <4> DEFINE m == NativeMat("s") n == NativeMat("sdg") p == PauliMat(TRUE, TRUE)
      <4>1. IsMatrix(m) /\ IsMatrix(n) /\ IsMatrix(p) /\ MatTimes(m, n) = Unit
            /\ MatTimes(m, XMat) = MatTimes(p, m)
        BY HandS DEF PauliMat, XMat
      <4> HIDE DEF m, n, p
      <4>2. Apply1(CxVec(Apply1(v, t, n), q, t), t, m) = ApplyControlled(v, q, t, p)
        <5>1. \A w \in Vectors : \A c, d \in Qubits :
                c # d => Apply1(CxVec(Apply1(w, d, n), c, d), d, m) = ApplyControlled(w, c, d, p)
          BY <4>1, Between
        <5>2. QED
          BY <2>1, <5>1
      <4>3. QED
        BY <4>2 DEF m, n, p
    <3>5. QED
      BY <2>4, <2>9, <3>2, <3>3, <3>4
  <2>5. CASE g.op = "Swap"
    <3>1. native = <<<<"cx", q, t>>, <<"cx", t, q>>, <<"cx", q, t>>>>
      BY <2>5 DEF Native, q, t
    <3>2. VecGate(v, g) = CxVec(CxVec(CxVec(v, q, t), t, q), q, t)
      BY <3>1 DEF VecGate, VecThen, NativeVec
    <3>3. ApplyGate(v, g) = [b \in Basis |-> v[Swapped(b, q, t)]]
      BY <2>5, <2>1 DEF ApplyGate, OneQubit, Controlled, q
    <3>4. QED
      BY <2>1, <3>2, <3>3, ThreeCx
  <2>6. QED
    BY <1>3, <2>2, <2>3, <2>4, <2>5
<1>4. QED
  BY <1>1, <1>2, <1>3 DEF Clifford

\* A gate keeps the tableau a description of the dense vector.
LEMMA GateSound ==
  ASSUME NEW u, NEW v, Sound(u, v), NEW g, Wired(g), g.op \in Clifford
  PROVE  Sound(TabGate(u, g), ApplyGate(v, g))
<1> DEFINE native == Native(g)
<1>1. \A i \in DOMAIN native : IsProper(native[i])
  BY NativesProper
<1> HIDE DEF native
<1>2. ASSUME NEW w, NEW x, Sound(w, x), NEW n
      PROVE  Sound(Then(w, native, n), VecThen(x, native, n))
  <2>1. CASE n \in DOMAIN native
    <3>1. IsProper(native[n])
      BY <1>1, <2>1
    <3>2. Sound(Step(w, native[n]), NativeVec(native[n], x))
      BY <1>2, <3>1, NativeSound
    <3>3. QED
      BY <2>1, <3>2 DEF Then, VecThen
  <2>2. CASE n \notin DOMAIN native
    BY <1>2, <2>2 DEF Then, VecThen
  <2>3. QED
    BY <2>1, <2>2
<1>3. TabGate(u, g) = Then(Then(Then(u, native, 1), native, 2), native, 3)
  BY DEF TabGate, Then, native
<1>4. VecGate(v, g) = VecThen(VecThen(VecThen(v, native, 1), native, 2), native, 3)
  BY DEF VecGate, native
<1>5. Sound(TabGate(u, g), VecGate(v, g))
  BY <1>2, <1>3, <1>4
<1>6. VecGate(v, g) = ApplyGate(v, g)
  BY NativesMake DEF Sound
<1>7. QED
  BY <1>5, <1>6

-----------------------------------------------------------------------------
(* The state that a run starts with.                                       *)

LEMMA ZeroSound == Sound(zero_state, ZeroState)
<1> DEFINE X(q) == [Identity EXCEPT !.x = {q}]
<1>1. /\ zero_state.destab = [q \in Qubits |-> X(q)] /\ zero_state.stab = [q \in Qubits |-> ZOn(q)]
  BY DEF zero_state
<1>2. Identity \in Rows /\ Identity.x = {} /\ Identity.z = {} /\ Identity.neg = FALSE
  BY DEF Rows, Identity
<1>3. \A q \in Qubits : X(q) \in Rows /\ X(q).x = {q} /\ X(q).z = {}
  BY <1>2 DEF Rows
<1>4. \A q \in Qubits : ZOn(q) \in Rows /\ ZOn(q).x = {} /\ ZOn(q).z = {q} /\ ZOn(q).neg = FALSE
  BY <1>2 DEF Rows, ZOn
<1> HIDE DEF X
<1>5. zero_state \in Tableaux /\ Independent(zero_state) /\ ZeroState \in Vectors
  BY ZeroStateOK, ZeroStateNorm
<1>6. ASSUME NEW q \in Qubits PROVE Fixes(ZOn(q), ZeroState)
  <2>1. ASSUME NEW b \in Basis
        PROVE  ZeroState[SymDiff(b, ZOn(q).x)] = Times(Ei(Exponent(ZOn(q), b)), ZeroState[b])
    <3>1. SymDiff(b, ZOn(q).x) = b
      BY <1>4, <1>6 DEF SymDiff
    <3>2. CASE b = {}
      <4>1. ZOn(q).x \cap ZOn(q).z = {} /\ ZOn(q).z \cap b = {}
        BY <1>4, <1>6, <3>2
      <4>0. ZOn(q).neg = FALSE
        BY <1>4, <1>6
      <4>2. Exponent(ZOn(q), b) = 0
        BY <4>0, <4>1, FS_EmptySet DEF Exponent, HalfTurn
      <4>3. Times(One, One) = One
        BY ImConstants, ImLaws
      <4>4. QED
        BY <3>1, <3>2, <4>2, <4>3, ZeroAngle DEF ZeroState
    <3>3. CASE b # {}
      <4>1. ZeroState[b] = Zero
        BY <3>3 DEF ZeroState
      <4>2. Exponent(ZOn(q), b) \in Int
        <5>1. /\ IsFiniteSet(ZOn(q).x \cap ZOn(q).z) /\ IsFiniteSet(ZOn(q).z \cap b)
          BY <1>4, <1>6, RowParts
        <5>2. QED
          BY <5>1, FS_CardinalityType DEF Exponent, HalfTurn
      <4>3. Ei(Exponent(ZOn(q), b)) \in Amps
        BY <4>2, EiType
      <4>4. Times(Ei(Exponent(ZOn(q), b)), Zero) = Zero
        BY <4>3, ImLaws
      <4>5. QED
        BY <3>1, <4>1, <4>4
    <3>4. QED
      BY <3>2, <3>3
  <2>2. QED
    BY <2>1 DEF Fixes
<1>7. Stabilizes(zero_state, ZeroState)
  BY <1>1, <1>6 DEF Stabilizes
<1>8. Faithful(zero_state)
  <2> SUFFICES ASSUME NEW x \in SUBSET Qubits, NEW z \in SUBSET Qubits,
                      \A k \in Qubits : ~anticommutes(ZOn(k), Str(x, z)) /\ ~anticommutes(X(k), Str(x, z))
               PROVE  x = {} /\ z = {}
    BY <1>1 DEF Faithful
  <2>1. ASSUME NEW k \in Qubits PROVE k \notin x /\ k \notin z
    <3>1. Crossings(ZOn(k), Str(x, z)) = {k} \cap x /\ Crossings(X(k), Str(x, z)) = {k} \cap z
      BY <1>3, <1>4, <2>1, StrRow DEF Crossings, SymDiff
    <3>2. ~Odd({k} \cap x) /\ ~Odd({k} \cap z)
      BY <1>3, <1>4, <2>1, <3>1, StrRow, CrossingsType
    <3>3. Odd({k})
      BY OddOne
    <3>4. k \in x => {k} \cap x = {k}
      OBVIOUS
    <3>5. k \in z => {k} \cap z = {k}
      OBVIOUS
    <3>6. QED
      BY <3>2, <3>3, <3>4, <3>5
  <2>2. QED
    BY <2>1
<1>9. QED
  BY <1>5, <1>7, <1>8 DEF Sound

-----------------------------------------------------------------------------
(* The product of two rows.                                                *)

OnWire(a, b, q) == pauli_mult_phase(q \in a.x, q \in a.z, q \in b.x, q \in b.z)

\* f is the phase of the product, wire by wire.
Phases4(f, a, b) ==
    /\ f[{}] = 0
    /\ \A T \in SUBSET Qubits : T # {} => f[T] = OnWire(a, b, Picked(T)) + f[T \ {Picked(T)}]

LEMMA OnWireType ==
  ASSUME NEW a, NEW b, NEW q
  PROVE  OnWire(a, b, q) \in {0, 1, 3}
  BY PhaseTable DEF OnWire

LEMMA StringSteps ==
  ASSUME NEW a, NEW b
  PROVE  \E f : Phases4(f, a, b) /\ f[Qubits] = StringPhase(a.x, a.z, b.x, b.z)
<1> DEFINE iter[s \in SUBSET Qubits] ==
             IF s = {} THEN 0
             ELSE OnWire(a, b, CHOOSE x \in s : TRUE) + iter[s \ {CHOOSE x \in s : TRUE}]
<1>1. StringPhase(a.x, a.z, b.x, b.z) = iter[Qubits]
  BY DEF StringPhase, MapThenSumSet, MapThenFoldSet, OnWire
<1> DEFINE step == [p \in Qubits \X Nat |-> OnWire(a, b, p[1]) + p[2]]
           ch == [s \in SUBSET Qubits |-> CHOOSE x \in s : TRUE]
<1>2. step \in [Qubits \X Nat -> Nat] /\ \A q \in Qubits, e \in Nat : step[<<q, e>>] = OnWire(a, b, q) + e
  <2>1. \A p \in Qubits \X Nat : OnWire(a, b, p[1]) + p[2] \in Nat
    <3> TAKE p \in Qubits \X Nat
    <3> DEFINE d == OnWire(a, b, p[1]) e == p[2]
    <3>1. d \in {0, 1, 3} /\ e \in Nat
      BY OnWireType
    <3> HIDE DEF d, e
    <3>2. d + e \in Nat
      BY <3>1
    <3>3. QED
      BY <3>2 DEF d, e
  <2>2. QED
    BY <2>1
<1>3. \A s \in SUBSET Qubits : ch[s] = CHOOSE x \in s : TRUE
  OBVIOUS
<1>4. \A s \in SUBSET Qubits : s # {} => ch[s] \in s
  BY <1>3
<1> HIDE DEF step, ch
<1>5. PICK f : f \in [SUBSET Qubits -> Nat] /\ FoldsTo(f, 0, step, ch, Qubits)
  <2>1. Folder(step, ch, Qubits, Nat)
    BY <1>2, <1>4 DEF Folder
  <2>2. 0 \in Nat
    OBVIOUS
  <2>3. QED
    BY <2>1, <2>2, FiniteQubits, FoldExists
<1>6. f = [s \in SUBSET Qubits |->
             IF s = {} THEN 0
             ELSE OnWire(a, b, CHOOSE x \in s : TRUE) + f[s \ {CHOOSE x \in s : TRUE}]]
  <2>1. f = [s \in SUBSET Qubits |-> IF s = {} THEN 0 ELSE step[<<ch[s], f[s \ {ch[s]}]>>]]
    BY <1>5 DEF FoldsTo
  <2>2. \A s \in SUBSET Qubits : s # {} =>
          step[<<ch[s], f[s \ {ch[s]}]>>] = OnWire(a, b, CHOOSE x \in s : TRUE) + f[s \ {CHOOSE x \in s : TRUE}]
    <3> TAKE s \in SUBSET Qubits
    <3> HAVE s # {}
    <3>1. ch[s] \in Qubits /\ f[s \ {ch[s]}] \in Nat
      BY <1>4, <1>5
    <3>2. QED
      BY <1>2, <1>3, <3>1
  <2>3. QED
    BY <2>1, <2>2
<1>7. iter = [s \in SUBSET Qubits |->
                IF s = {} THEN 0
                ELSE OnWire(a, b, CHOOSE x \in s : TRUE) + iter[s \ {CHOOSE x \in s : TRUE}]]
  BY <1>6
<1> HIDE DEF iter
<1>8. Phases4(iter, a, b)
  BY <1>7 DEF Phases4, Picked
<1>9. QED
  BY <1>1, <1>8

Part(S, T) == Cardinality(S \cap T)
One1(q, S) == IF q \in S THEN 1 ELSE 0

\* The size of a part, with and without one element.
LEMMA PartStep ==
  ASSUME NEW S \in SUBSET Qubits, NEW T \in SUBSET Qubits, NEW q \in T
  PROVE  /\ Part(S, T) \in Nat /\ Part(S, T \ {q}) \in Nat /\ One1(q, S) \in Nat
         /\ Part(S, T) = Part(S, T \ {q}) + One1(q, S)
<1>1. IsFiniteSet(S \cap T)
  BY FiniteQubits
<1>2. (S \cap T) \ {q} = S \cap (T \ {q}) /\ (q \in S \cap T <=> q \in S)
  OBVIOUS
<1> DEFINE I == S \cap T
<1>3. /\ Cardinality(I) \in Nat /\ Cardinality(I \ {q}) \in Nat
      /\ Cardinality(I) = Cardinality(I \ {q}) + (IF q \in I THEN 1 ELSE 0)
  <2> HIDE DEF I
  <2>1. IsFiniteSet(I)
    BY <1>1 DEF I
  <2>2. QED
    BY <2>1, CardSplit
<1>4. QED
  BY <1>2, <1>3 DEF Part, One1

\* The number that one wire adds to the phase.
Adds4(a, b, q) ==
    (IF q \in a.x /\ q \in a.z THEN 1 ELSE 0) + (IF q \in b.x /\ q \in b.z THEN 1 ELSE 0)
      + 2 * (IF q \in b.z /\ q \in a.x THEN 1 ELSE 0) + OnWire(a, b, q)

LEMMA WireAdds ==
  ASSUME NEW a, NEW b, NEW q
  PROVE  /\ Adds4(a, b, q) - (IF ~(q \in a.x <=> q \in b.x) /\ ~(q \in a.z <=> q \in b.z) THEN 1 ELSE 0) \in {0, 4}
         /\ OnWire(a, b, q) - (IF ~((q \in a.x /\ q \in b.z) <=> (q \in a.z /\ q \in b.x)) THEN 1 ELSE 0) \in {0, 2}
<1>1. OnWire(a, b, q) =
             IF \/ q \in a.x /\ q \notin a.z /\ q \notin b.x /\ q \in b.z
                \/ q \in a.x /\ q \in a.z /\ q \in b.x /\ q \notin b.z
                \/ q \notin a.x /\ q \in a.z /\ q \in b.x /\ q \in b.z
             THEN 3
             ELSE IF \/ q \notin a.x /\ q \in a.z /\ q \in b.x /\ q \notin b.z
                     \/ q \in a.x /\ q \notin a.z /\ q \in b.x /\ q \in b.z
                     \/ q \in a.x /\ q \in a.z /\ q \notin b.x /\ q \in b.z
             THEN 1 ELSE 0
  BY PhaseTable DEF OnWire
<1> QED
  BY <1>1 DEF Adds4

LEMMA FoursAndTwos ==
  ASSUME NEW m \in Int, NEW d \in Int, m % 4 = 0, d \in {0, 4}
  PROVE  (m + d) % 4 = 0
OBVIOUS

LEMMA Twos ==
  ASSUME NEW m \in Int, NEW d \in Int, m % 2 = 0, d \in {0, 2}
  PROVE  (m + d) % 2 = 0
OBVIOUS

\* The phase of the product against the factors of i of the rows, modulo 4,
\* and against the crossings, modulo 2.
LEMMA PhaseSum ==
  ASSUME NEW a \in Rows, NEW b \in Rows, NEW f, Phases4(f, a, b)
  PROVE  /\ f[Qubits] \in Nat
         /\ (Cardinality(a.x \cap a.z) + Cardinality(b.x \cap b.z) + 2 * Cardinality(b.z \cap a.x) + f[Qubits]
               - Cardinality(row_product(a, b).x \cap row_product(a, b).z)) % 4 = 0
         /\ (f[Qubits] - Cardinality(Crossings(a, b))) % 2 = 0
<1> DEFINE r == row_product(a, b)
           A == a.x \cap a.z B == b.x \cap b.z C == b.z \cap a.x D == r.x \cap r.z K == Crossings(a, b)
           total(T) == Part(A, T) + Part(B, T) + 2 * Part(C, T) + f[T] - Part(D, T)
           cross(T) == f[T] - Part(K, T)
           P == {T \in SUBSET Qubits : f[T] \in Nat /\ total(T) % 4 = 0 /\ cross(T) % 2 = 0}
<1>1. /\ A \in SUBSET Qubits /\ B \in SUBSET Qubits /\ C \in SUBSET Qubits /\ D \in SUBSET Qubits
      /\ K \in SUBSET Qubits
  BY AntiProduct, CrossingsType DEF Rows
<1>2. \A q : /\ q \in A <=> q \in a.x /\ q \in a.z
             /\ q \in B <=> q \in b.x /\ q \in b.z
             /\ q \in C <=> q \in b.z /\ q \in a.x
             /\ q \in D <=> ~(q \in a.x <=> q \in b.x) /\ ~(q \in a.z <=> q \in b.z)
             /\ q \in K <=> ~((q \in a.x /\ q \in b.z) <=> (q \in a.z /\ q \in b.x))
  BY DEF row_product, SymDiff, Crossings
<1>3. f[{}] = 0 /\ \A T \in SUBSET Qubits : T # {} => f[T] = OnWire(a, b, Picked(T)) + f[T \ {Picked(T)}]
  BY DEF Phases4
<1> HIDE DEF A, B, C, D, K
<1>4. {} \in P
  <2>1. \A S : S \cap {} = {}
    OBVIOUS
  <2>2. \A S : Part(S, {}) = 0
    BY <2>1, FS_EmptySet DEF Part
  <2>3. QED
    BY <1>3, <2>2
<1>5. \A T \in SUBSET Qubits : T # {} => \E q \in T : T \ {q} \in P => T \in P
  <2> TAKE T \in SUBSET Qubits
  <2> HAVE T # {}
  <2> DEFINE q == Picked(T) U == T \ {q}
  <2>1. q \in T /\ U \in SUBSET Qubits
    BY DEF Picked
  <2>2. ASSUME U \in P PROVE T \in P
    <3>1. f[U] \in Nat /\ total(U) % 4 = 0 /\ cross(U) % 2 = 0
      BY <2>2
    <3>2. f[T] = OnWire(a, b, q) + f[U]
      BY <1>3
    <3> HIDE DEF q
    <3>3. ASSUME NEW S \in SUBSET Qubits
          PROVE  Part(S, T) \in Nat /\ Part(S, U) \in Nat /\ Part(S, T) = Part(S, U) + One1(q, S)
      BY <2>1, <3>3, PartStep
    <3> DEFINE w == OnWire(a, b, q)
               ka == One1(q, A) kb == One1(q, B) kc == One1(q, C)
               kd == One1(q, D) kk == One1(q, K)
    <3>4. w \in {0, 1, 3}
      BY OnWireType
    <3>5. ka + kb + 2 * kc + w - kd \in {0, 4} /\ w - kk \in {0, 2}
      <4>1. /\ Adds4(a, b, q) - (IF ~(q \in a.x <=> q \in b.x) /\ ~(q \in a.z <=> q \in b.z) THEN 1 ELSE 0) \in {0, 4}
            /\ OnWire(a, b, q) - (IF ~((q \in a.x /\ q \in b.z) <=> (q \in a.z /\ q \in b.x)) THEN 1 ELSE 0) \in {0, 2}
        BY WireAdds
      <4>2. QED
        BY <1>2, <4>1 DEF Adds4, One1
    <3>6. ka \in Int /\ kb \in Int /\ kc \in Int /\ kd \in Int /\ kk \in Int
      BY DEF One1
    <3>7. /\ Part(A, T) = Part(A, U) + ka /\ Part(B, T) = Part(B, U) + kb /\ Part(C, T) = Part(C, U) + kc
          /\ Part(D, T) = Part(D, U) + kd /\ Part(K, T) = Part(K, U) + kk
          /\ Part(A, U) \in Nat /\ Part(B, U) \in Nat /\ Part(C, U) \in Nat /\ Part(D, U) \in Nat /\ Part(K, U) \in Nat
      BY <1>1, <3>3
    <3> HIDE DEF w, ka, kb, kc, kd, kk, U
    <3>8. /\ total(T) = total(U) + (ka + kb + 2 * kc + w - kd) /\ cross(T) = cross(U) + (w - kk)
          /\ total(U) \in Int /\ cross(U) \in Int
      <4> DEFINE at == f[T] au == f[U] pa == Part(A, U) pb == Part(B, U) pc == Part(C, U) pd == Part(D, U) pk == Part(K, U)
      <4>1. at = w + au /\ au \in Nat /\ w \in Nat
        BY <3>1, <3>2, <3>4 DEF w
      <4>2. /\ total(T) = (pa + ka) + (pb + kb) + 2 * (pc + kc) + at - (pd + kd)
            /\ total(U) = pa + pb + 2 * pc + au - pd /\ cross(T) = at - (pk + kk) /\ cross(U) = au - pk
        BY <3>7
      <4>3. pa \in Nat /\ pb \in Nat /\ pc \in Nat /\ pd \in Nat /\ pk \in Nat
        BY <3>7
      <4> HIDE DEF at, au, pa, pb, pc, pd, pk, total, cross
      <4>4. QED
        BY <3>6, <4>1, <4>2, <4>3
    <3>9. total(T) % 4 = 0 /\ cross(T) % 2 = 0
      <4> HIDE DEF total, cross
      <4>1. QED
        BY <3>1, <3>5, <3>8, FoursAndTwos, Twos
    <3>10. f[T] \in Nat
      BY <3>1, <3>2, <3>4 DEF w
    <3>11. QED
      BY <3>9, <3>10
  <2>3. QED
    BY <2>1, <2>2
<1> HIDE DEF P
<1>6. \A T \in SUBSET Qubits : T \in P
  BY <1>4, <1>5, FiniteQubits, SubsetInduction
<1>7. Qubits \in P
  BY <1>6
<1>8. f[Qubits] \in Nat /\ total(Qubits) % 4 = 0 /\ cross(Qubits) % 2 = 0
  BY <1>7 DEF P
<1>9. \A S \in SUBSET Qubits : S \cap Qubits = S
  OBVIOUS
<1>10. /\ Part(A, Qubits) = Cardinality(A) /\ Part(B, Qubits) = Cardinality(B) /\ Part(C, Qubits) = Cardinality(C)
       /\ Part(D, Qubits) = Cardinality(D) /\ Part(K, Qubits) = Cardinality(K)
  BY <1>1, <1>9 DEF Part
<1>11. QED
  BY <1>8, <1>10 DEF A, B, C, D, K

-----------------------------------------------------------------------------
(* The product fixes what its factors fix.                                 *)

\* Four times the size of a symmetric difference.
LEMMA FourTimes ==
  ASSUME NEW A, NEW B, IsFiniteSet(A), IsFiniteSet(B)
  PROVE  /\ Cardinality(A) \in Nat /\ Cardinality(B) \in Nat /\ Cardinality(SymDiff(A, B)) \in Nat
         /\ (4 * Cardinality(SymDiff(A, B))) % 8 = (4 * Cardinality(A) + 4 * Cardinality(B)) % 8
<1>1. IsFiniteSet(SymDiff(A, B))
  <2>1. SymDiff(A, B) \subseteq A \cup B
    BY DEF SymDiff
  <2>2. QED
    BY <2>1, FS_Union, FS_Subset
<1> DEFINE x == Cardinality(A) y == Cardinality(B) z == Cardinality(SymDiff(A, B))
<1>2. x \in Nat /\ y \in Nat /\ z \in Nat
  BY <1>1, FS_CardinalityType
<1>3. z % 2 = 1 <=> ~(x % 2 = 1 <=> y % 2 = 1)
  BY OddSymDiff DEF Odd
<1> HIDE DEF x, y, z
<1>4. (4 * z) % 8 = (4 * x + 4 * y) % 8
  BY <1>2, <1>3
<1>5. QED
  BY <1>2, <1>4 DEF x, y, z

LEMMA ProductExponent ==
  ASSUME NEW a \in Rows, NEW b \in Rows, ~anticommutes(a, b), NEW c \in Basis
  PROVE  /\ row_product(a, b) \in Rows /\ SymDiff(c, a.x) \in Basis
         /\ SymDiff(c, row_product(a, b).x) = SymDiff(SymDiff(c, a.x), b.x)
         /\ Exponent(a, c) \in Nat /\ Exponent(b, SymDiff(c, a.x)) \in Nat /\ Exponent(row_product(a, b), c) \in Nat
         /\ (Exponent(b, SymDiff(c, a.x)) + Exponent(a, c)) % 8 = Exponent(row_product(a, b), c) % 8
<1> DEFINE r == row_product(a, b) d == SymDiff(c, a.x)
<1>1. r \in Rows /\ d \in Basis /\ r.neg \in BOOLEAN /\ a.neg \in BOOLEAN /\ b.neg \in BOOLEAN
  BY AntiProduct, RowParts DEF Rows
<1>2. SymDiff(c, r.x) = SymDiff(d, b.x)
  BY DEF row_product, SymDiff
<1>3. PICK f : Phases4(f, a, b) /\ f[Qubits] = StringPhase(a.x, a.z, b.x, b.z)
  BY StringSteps
<1> DEFINE s == StringPhase(a.x, a.z, b.x, b.z)
           ya == Cardinality(a.x \cap a.z) yb == Cardinality(b.x \cap b.z) yd == Cardinality(r.x \cap r.z)
           k == Cardinality(b.z \cap a.x)
           za == a.z \cap c zb == b.z \cap c zx == b.z \cap a.x
<1>4. s \in Nat /\ (ya + yb + 2 * k + s - yd) % 4 = 0 /\ s % 2 = 0
  <2>1. s \in Nat /\ (ya + yb + 2 * k + s - yd) % 4 = 0 /\ (s - Cardinality(Crossings(a, b))) % 2 = 0
    BY <1>3, PhaseSum
  <2> DEFINE x == Cardinality(Crossings(a, b))
  <2>2. x \in Nat /\ x % 2 # 1
    <3>1. IsFiniteSet(Crossings(a, b)) /\ ~Odd(Crossings(a, b))
      BY CrossingsType
    <3>2. QED
      BY <3>1, FS_CardinalityType DEF Odd
  <2> HIDE DEF s, x
  <2>3. s % 2 = 0
    <3>1. (s - x) % 2 = 0
      BY <2>1 DEF x
    <3>2. QED
      BY <2>1, <2>2, <3>1
  <2>4. QED
    BY <2>1, <2>3
<1>5. /\ IsFiniteSet(za) /\ IsFiniteSet(zb) /\ IsFiniteSet(zx)
      /\ IsFiniteSet(a.x \cap a.z) /\ IsFiniteSet(b.x \cap b.z) /\ IsFiniteSet(r.x \cap r.z)
  <2>1. a.x \in SUBSET Qubits /\ a.z \in SUBSET Qubits /\ b.x \in SUBSET Qubits /\ b.z \in SUBSET Qubits
        /\ r.x \in SUBSET Qubits
    BY <1>1 DEF Rows
  <2>2. QED
    BY <2>1, FiniteQubits
<1>6. b.z \cap d = SymDiff(zb, zx) /\ r.z \cap c = SymDiff(za, zb)
  BY DEF row_product, SymDiff
<1>7. r.neg <=> ~(~(a.neg <=> b.neg) <=> (s % 4 = 2))
  <2>1. r.neg = ((a.neg # b.neg) # (s % 4 = 2))
    BY DEF row_product
  <2>2. QED
    BY <1>1, <2>1
<1> DEFINE ca == Cardinality(za) cb == Cardinality(zb) cx == Cardinality(zx)
           ab == Cardinality(SymDiff(za, zb)) bx == Cardinality(SymDiff(zb, zx))
           na == HalfTurn(a.neg) nb == HalfTurn(b.neg) nr == HalfTurn(r.neg)
<1>8. /\ Exponent(a, c) = 2 * ya + 4 * ca + na
      /\ Exponent(b, d) = 2 * yb + 4 * bx + nb
      /\ Exponent(r, c) = 2 * yd + 4 * ab + nr
  BY <1>6 DEF Exponent
<1>9. /\ ca \in Nat /\ cb \in Nat /\ cx \in Nat /\ ab \in Nat /\ bx \in Nat
      /\ (4 * ab) % 8 = (4 * ca + 4 * cb) % 8 /\ (4 * bx) % 8 = (4 * cb + 4 * cx) % 8
  BY <1>5, FourTimes
<1>10. ya \in Nat /\ yb \in Nat /\ yd \in Nat /\ k = cx
  BY <1>5, FS_CardinalityType
<1>11. na \in {0, 4} /\ nb \in {0, 4} /\ nr \in {0, 4}
       /\ (na + nb + (IF s % 4 = 2 THEN 4 ELSE 0)) % 8 = nr % 8
  BY <1>7 DEF HalfTurn
<1> DEFINE n == IF s % 4 = 2 THEN 4 ELSE 0
<1>12. n \in {0, 4} /\ (na + nb + n) % 8 = nr % 8
  BY <1>11
<1>13. (2 * ya + 2 * yb + 4 * k) % 8 = (2 * yd + n) % 8
  <2> HIDE DEF s, ya, yb, k, yd
  <2>1. k \in Nat
    BY <1>9, <1>10
  <2>2. QED
    <3>1. ya \in Nat /\ yb \in Nat /\ yd \in Nat
      BY <1>10
    <3> DEFINE w == ya + yb + 2 * k - yd
    <3>2. w \in Int /\ (w + s) % 4 = 0 /\ s \in Nat /\ s % 2 = 0
      BY <1>4, <2>1, <3>1
    <3>3. 2 * ya + 2 * yb + 4 * k = 2 * w + 2 * yd
      BY <2>1, <3>1
    <3> HIDE DEF w
    <3>4. (2 * w) % 8 = n % 8
      BY <3>2
    <3>5. n \in Nat
      OBVIOUS
    <3> HIDE DEF n
    <3>6. (2 * w + 2 * yd) % 8 = (2 * yd + n) % 8
      BY <3>1, <3>2, <3>4, <3>5
    <3>7. QED
      BY <3>3, <3>6
<1> HIDE DEF s, ya, yb, yd, k, ca, cb, cx, ab, bx, na, nb, nr, n
<1>14. (2 * yb + 4 * bx + nb + (2 * ya + 4 * ca + na)) % 8 = (2 * yd + 4 * ab + nr) % 8
  <2>1. (4 * bx + (2 * yb + nb + 2 * ya + 4 * ca + na)) % 8 = (4 * cb + 4 * cx + (2 * yb + nb + 2 * ya + 4 * ca + na)) % 8
    BY <1>9, <1>10, <1>11
  <2>2. (4 * ab + (2 * yd + nr)) % 8 = (4 * ca + 4 * cb + (2 * yd + nr)) % 8
    BY <1>9, <1>10, <1>11
  <2>3. (2 * ya + 2 * yb + 4 * k + (na + nb + 4 * ca + 4 * cb)) % 8 = (2 * yd + n + (na + nb + 4 * ca + 4 * cb)) % 8
    BY <1>9, <1>10, <1>11, <1>12, <1>13
  <2>4. (na + nb + n + (2 * yd + 4 * ca + 4 * cb)) % 8 = (nr + (2 * yd + 4 * ca + 4 * cb)) % 8
    BY <1>9, <1>10, <1>11, <1>12
  <2>5. QED
    BY <1>9, <1>10, <1>11, <1>12, <2>1, <2>2, <2>3, <2>4
<1>15. /\ 2 * ya + 4 * ca + na \in Nat /\ 2 * yb + 4 * bx + nb \in Nat /\ 2 * yd + 4 * ab + nr \in Nat
  BY <1>9, <1>10, <1>11
<1> HIDE DEF r, d
<1>16. Exponent(a, c) \in Nat /\ Exponent(b, d) \in Nat /\ Exponent(r, c) \in Nat
       /\ (Exponent(b, d) + Exponent(a, c)) % 8 = Exponent(r, c) % 8
  BY <1>8, <1>14, <1>15
<1>17. QED
  BY <1>1, <1>2, <1>16 DEF r, d

LEMMA ProductFixes ==
  ASSUME NEW a \in Rows, NEW b \in Rows, ~anticommutes(a, b), NEW v \in Vectors, Fixes(a, v), Fixes(b, v)
  PROVE  row_product(a, b) \in Rows /\ Fixes(row_product(a, b), v)
<1> DEFINE r == row_product(a, b)
<1>1. r \in Rows
  BY AntiProduct
<1>2. ASSUME NEW c \in Basis PROVE v[SymDiff(c, r.x)] = Times(Ei(Exponent(r, c)), v[c])
  <2> DEFINE d == SymDiff(c, a.x) ea == Exponent(a, c) eb == Exponent(b, d) er == Exponent(r, c)
  <2>1. d \in Basis /\ SymDiff(c, r.x) = SymDiff(d, b.x) /\ ea \in Nat /\ eb \in Nat /\ er \in Nat
        /\ (eb + ea) % 8 = er % 8
    BY <1>2, ProductExponent
  <2>2. v[d] = Times(Ei(ea), v[c])
    BY <1>2 DEF Fixes
  <2>3. v[SymDiff(d, b.x)] = Times(Ei(eb), v[d])
    BY <2>1 DEF Fixes
  <2>4. v[c] \in Amps
    BY <1>2 DEF Vectors
  <2> HIDE DEF d, ea, eb, er, r
  <2>5. Ei(ea) \in Amps /\ Ei(eb) \in Amps /\ Times(Ei(eb), Ei(ea)) = Ei(eb + ea)
    BY <2>1, EiType, EiTimes
  <2>6. Times(Ei(eb), Times(Ei(ea), v[c])) = Times(Ei(eb + ea), v[c])
    BY <2>4, <2>5, TimesLaws
  <2>7. Ei(eb + ea) = Ei(er)
    BY <2>1, EiEight
  <2>8. QED
    BY <2>1, <2>2, <2>3, <2>6, <2>7 DEF er
<1>3. QED
  BY <1>1, <1>2 DEF Fixes

-----------------------------------------------------------------------------
(* The halves of a wire.                                                   *)

\* A row that flips the wire makes both outcomes as likely.
LEMMA HalvesEqual ==
  ASSUME NEW r \in Rows, NEW v \in Vectors, Fixes(r, v), NEW q \in Qubits, q \in r.x
  PROVE  ProbOf(v, q, 0) = ProbOf(v, q, 1)
<1> DEFINE S == HalfOn(q, 0) T == HalfOn(q, 1) F == Squares(v) move == [b \in S |-> SymDiff(b, r.x)]
<1>1. S \in SUBSET Basis /\ T \in SUBSET Basis /\ IsFiniteSet(S) /\ IsFiniteSet(T) /\ IsFiniteSet(Basis)
  BY HalfFinite, FiniteBasis
<1>2. F \in [Basis -> Amps]
  BY SquaresType
<1>3. \A b \in Basis : SymDiff(b, r.x) \in Basis /\ SymDiff(SymDiff(b, r.x), r.x) = b
                       /\ (q \in SymDiff(b, r.x) <=> q \notin b)
  <2> TAKE b \in Basis
  <2>1. SymDiff(b, r.x) \in Basis
    BY RowParts
  <2>2. QED
    BY <2>1 DEF SymDiff
<1>4. OneToOne(move, S, Basis)
  <2>1. move \in [S -> Basis]
    BY <1>1, <1>3
  <2>2. ASSUME NEW x \in S, NEW y \in S, move[x] = move[y] PROVE x = y
    <3>1. x \in Basis /\ y \in Basis /\ SymDiff(x, r.x) = SymDiff(y, r.x)
      BY <1>1, <2>2
    <3>2. QED
      BY <1>3, <3>1
  <2>3. QED
    BY <2>1, <2>2 DEF OneToOne
<1>5. ImageOf(move, S) = T
  <2>1. \A x \in S : move[x] \in T
    BY <1>1, <1>3 DEF HalfOn
  <2>2. ASSUME NEW y \in T PROVE \E x \in S : move[x] = y
    <3>1. y \in Basis /\ q \in y
      BY <2>2 DEF HalfOn
    <3>2. SymDiff(y, r.x) \in S /\ SymDiff(SymDiff(y, r.x), r.x) = y
      BY <1>3, <3>1 DEF HalfOn
    <3>3. QED
      BY <3>2
  <2> HIDE DEF move, S, T
  <2>3. QED
    BY <2>1, <2>2 DEF ImageOf
<1>6. \A b \in S : F[move[b]] = F[b] /\ F[b] \in Amps
  <2> TAKE b \in S
  <2>1. b \in Basis /\ move[b] = SymDiff(b, r.x) /\ SymDiff(b, r.x) \in Basis
    BY <1>1, <1>3
  <2>2. v[SymDiff(b, r.x)] = Times(Ei(Exponent(r, b)), v[b])
    BY <2>1 DEF Fixes
  <2>3. Exponent(r, b) \in Int
    <3>1. IsFiniteSet(r.x \cap r.z) /\ IsFiniteSet(r.z \cap b)
      BY <2>1, RowParts
    <3>2. QED
      BY <3>1, FS_CardinalityType DEF Exponent, HalfTurn
  <2> DEFINE e == Exponent(r, b) x == v[b]
  <2>4. x \in Amps
    BY <2>1 DEF Vectors
  <2> HIDE DEF e, x
  <2>5. Norm2(Ei(e)) = One /\ Ei(e) \in Amps
    BY <2>3, UnitNorms, EiType DEF e
  <2>6. Norm2(Times(Ei(e), x)) = Times(Norm2(Ei(e)), Norm2(x)) /\ Norm2(x) \in Amps
    BY <2>4, <2>5, NormTimes, NormLaws
  <2>7. Times(One, Norm2(x)) = Norm2(x)
    BY <2>6, ImLaws
  <2>8. QED
    BY <2>1, <2>2, <2>5, <2>6, <2>7 DEF Squares, e, x
<1> HIDE DEF F, move, S, T
<1>7. Sum([x \in S |-> F[move[x]]], S) = Sum(F, T)
  BY <1>1, <1>2, <1>4, <1>5, SumMove
<1>8. Sum([x \in S |-> F[move[x]]], S) = Sum(F, S)
  <2>1. \A x \in S : F[x] \in Amps /\ [y \in S |-> F[move[y]]][x] = F[x]
    BY <1>6
  <2>2. QED
    BY <1>1, <2>1, SumSame
<1>9. QED
  BY <1>7, <1>8, ProbIs DEF F, S, T

LEMMA ProjectLaws ==
  ASSUME NEW v \in Vectors, NEW q, NEW o
  PROVE  /\ Project(v, q, o) \in Vectors
         /\ Norm(Project(v, q, o)) = ProbOf(v, q, o)
<1> DEFINE w == Project(v, q, o) S == HalfOn(q, o) F == Squares(w) G == Squares(v)
<1>1. w \in Vectors
  BY ImConstants DEF Project, Vectors
<1>2. F \in [Basis -> Amps] /\ G \in [Basis -> Amps]
  BY <1>1, SquaresType
<1>3. S \in SUBSET Basis /\ IsFiniteSet(S) /\ IsFiniteSet(Basis) /\ IsFiniteSet(Basis \ S)
  BY HalfFinite, FiniteBasis, FS_Subset
<1>4. Sum(F, Basis) = Plus(Sum(F, S), Sum(F, Basis \ S))
  BY <1>2, <1>3, SumUnion
<1>5. Sum(F, Basis \ S) = Zero
  <2>1. \A x \in Basis \ S : F[x] = Zero
    BY UnitNorms DEF Squares, Project, HalfOn
  <2>2. QED
    BY <1>3, <2>1, SumOfZeros
<1>6. Sum(F, S) = Sum(G, S)
  <2>1. \A x \in S : G[x] \in Amps /\ F[x] = G[x]
    BY <1>2, <1>3 DEF Squares, Project, HalfOn
  <2>2. QED
    BY <1>3, <2>1, SumSame
<1>7. Sum(G, S) \in Amps
  BY <1>2, <1>3, SumLaws
<1>8. Plus(Sum(G, S), Zero) = Sum(G, S)
  BY <1>7, ImLaws
<1>9. QED
  BY <1>1, <1>4, <1>5, <1>6, <1>8, ProbIs DEF Norm

\* A vector times a number.
ScaledBy(a, v) == [b \in Basis |-> Times(a, v[b])]

LEMMA ScaleNorm ==
  ASSUME NEW v \in Vectors, NEW a \in Amps
  PROVE  ScaledBy(a, v) \in Vectors /\ Norm(ScaledBy(a, v)) = Times(Norm2(a), Norm(v))
<1> DEFINE w == ScaledBy(a, v) G == Squares(v) n == Norm2(a)
<1>1. w \in Vectors
  BY RingTypes DEF ScaledBy, Vectors
<1>2. G \in [Basis -> Amps] /\ n \in Amps
  BY SquaresType, NormLaws
<1>3. Squares(w) = [b \in Basis |-> Times(n, G[b])]
  <2>1. \A b \in Basis : Norm2(Times(a, v[b])) = Times(n, Norm2(v[b]))
    BY NormTimes DEF Vectors
  <2>2. QED
    BY <2>1 DEF Squares, ScaledBy
<1> HIDE DEF G, n, w
<1>4. Sum([b \in Basis |-> Times(n, G[b])], Basis) = Times(n, Sum(G, Basis))
  BY <1>2, FiniteBasis, SumTimes
<1>5. QED
  BY <1>1, <1>3, <1>4 DEF Norm, G, n, w

\* sqrt(2), by which a collapse of probability 1/2 multiplies.
Root2 == [k |-> 0, c |-> <<0, 1, 0, -1>>]

LEMMA Root2Laws ==
  /\ Root2 \in Amps /\ Norm2(Root2) = Plus(One, One) /\ One # Zero /\ Plus(One, One) # One
<1>1. Root2 \in Amps
  <2>1. <<0, 1, 0, -1>> \in Quads
    BY DEF Quads
  <2>2. QED
    BY <2>1 DEF Amps, Root2, Reducible
<1>2. Is(Root2, 0, <<0, 1, 0, -1>>)
  BY <1>1, IsSelf DEF Root2
<1>3. Is(Conj(Root2), 0, <<0, 1, 0, -1>>)
  <2>1. Is(Conj(Root2), 0, QConj(<<0, 1, 0, -1>>))
    BY <1>2, NegIs
  <2>2. QConj(<<0, 1, 0, -1>>) = <<0, 1, 0, -1>>
    <3>1. ASSUME NEW s \in Int, NEW t \in Int, NEW z \in Int, s + t = 0, z + z = 0
          PROVE  QConj(<<z, s, z, t>>) = <<z, s, z, t>>
      <4>1. -t = s /\ -s = t /\ -z = z
        <5>1. -t = s
          BY <3>1
        <5>2. -s = t
          BY <3>1
        <5>3. -z = z
          BY <3>1
        <5>4. QED
          BY <5>1, <5>2, <5>3
      <4>2. QED
        BY <4>1 DEF QConj
    <3> DEFINE z == 0 s == 1 t == -1
    <3>2. s \in Int /\ t \in Int /\ z \in Int /\ s + t = 0 /\ z + z = 0
      OBVIOUS
    <3>3. QConj(<<z, s, z, t>>) = <<z, s, z, t>>
      <4> HIDE DEF z, s, t
      <4>1. QED
        BY <3>1, <3>2
    <3>4. QED
      BY <3>3
  <2>3. QED
    BY <2>1, <2>2
<1>4. Is(Norm2(Root2), 0, <<2, 0, 0, 0>>)
  <2> DEFINE c == <<0, 1, 0, -1>>
  <2>1. Is(Times(Root2, Conj(Root2)), 0 + 0, QMul(c, c))
    <3> HIDE DEF c
    <3>1. QED
      BY <1>2, <1>3, TimesIs DEF c
  <2>2. QMul(c, c) = <<2, 0, 0, 0>>
    BY DEF QMul
  <2>3. QED
    BY <2>1, <2>2 DEF Norm2
<1>5. Is(Plus(One, One), 0, <<2, 0, 0, 0>>)
  <2>1. Is(Plus(One, One), 0, QAdd(<<1, 0, 0, 0>>, <<1, 0, 0, 0>>))
    BY OneIs, PlusIs
  <2>2. QAdd(<<1, 0, 0, 0>>, <<1, 0, 0, 0>>) = <<2, 0, 0, 0>>
    BY DEF QAdd
  <2>3. QED
    BY <2>1, <2>2
<1>6. Norm2(Root2) = Plus(One, One)
  BY <1>4, <1>5, IsUnique
<1>7. One # Zero
  BY DEF One, Zero, Int2Amp
<1>8. Plus(One, One) # One
  <2> SUFFICES ASSUME Plus(One, One) = One PROVE FALSE
    OBVIOUS
  <2>1. Is(One, 0, <<2, 0, 0, 0>>) /\ Is(One, 0, <<1, 0, 0, 0>>)
    BY <1>5, OneIs
  <2>2. <<2, 0, 0, 0>> = <<1, 0, 0, 0>>
    BY <2>1 DEF Is
  <2>3. QED
    BY <2>2
<1>9. QED
  BY <1>1, <1>6, <1>7, <1>8

-----------------------------------------------------------------------------
(* Projections.                                                            *)

Drawn(o) == IF o THEN 1 ELSE 0
SignedZ(q, neg) == [ZOn(q) EXCEPT !.neg = neg]

LEMMA SignedZRow ==
  ASSUME NEW q \in Qubits, NEW neg \in BOOLEAN
  PROVE  /\ SignedZ(q, neg) \in Rows /\ SignedZ(q, neg).x = {} /\ SignedZ(q, neg).z = {q}
         /\ SignedZ(q, neg).neg = neg /\ ZOn(q) \in Rows /\ ZOn(q).x = {} /\ ZOn(q).z = {q}
         /\ \A r \in Rows : /\ anticommutes(r, ZOn(q)) <=> q \in r.x
                            /\ anticommutes(r, SignedZ(q, neg)) <=> q \in r.x
<1>1. Identity \in Rows /\ Identity.x = {} /\ Identity.z = {}
  BY DEF Rows, Identity
<1>2. ZOn(q) \in Rows /\ ZOn(q).x = {} /\ ZOn(q).z = {q}
  BY <1>1 DEF Rows, ZOn
<1>3. /\ SignedZ(q, neg) \in Rows /\ SignedZ(q, neg).x = {} /\ SignedZ(q, neg).z = {q} /\ SignedZ(q, neg).neg = neg
  BY <1>2 DEF Rows, SignedZ
<1>4. ASSUME NEW r \in Rows PROVE anticommutes(r, ZOn(q)) <=> q \in r.x
  <2>1. Crossings(r, ZOn(q)) = IF q \in r.x THEN {q} ELSE {}
    BY <1>2 DEF Crossings, SymDiff
  <2>2. QED
    BY <1>2, <1>4, <2>1, CrossingsType, OddOne, OddEmpty
<1>5. ASSUME NEW r \in Rows PROVE anticommutes(r, SignedZ(q, neg)) <=> q \in r.x
  <2>1. anticommutes(r, SignedZ(q, neg)) <=> anticommutes(r, ZOn(q))
    BY <1>2, <1>3, AntiParts
  <2>2. QED
    BY <1>4, <1>5, <2>1
<1>6. QED
  BY <1>2, <1>3, <1>4, <1>5

LEMMA ExponentType ==
  ASSUME NEW r \in Rows, NEW b \in Basis
  PROVE  Exponent(r, b) \in Nat /\ Ei(Exponent(r, b)) \in Amps
<1>1. Exponent(r, b) \in Nat
  <2>1. IsFiniteSet(r.x \cap r.z) /\ IsFiniteSet(r.z \cap b)
    BY RowParts
  <2>2. QED
    BY <2>1, FS_CardinalityType DEF Exponent, HalfTurn
<1>2. QED
  BY <1>1, EiType

LEMMA ProjectFixes ==
  ASSUME NEW r \in Rows, NEW v \in Vectors, Fixes(r, v), NEW q, q \notin r.x, NEW o
  PROVE  Fixes(r, Project(v, q, o))
<1> DEFINE w == Project(v, q, o)
<1>1. ASSUME NEW b \in Basis PROVE w[SymDiff(b, r.x)] = Times(Ei(Exponent(r, b)), w[b])
  <2> DEFINE d == SymDiff(b, r.x)
  <2>1. d \in Basis /\ (q \in d <=> q \in b)
    <3>1. d \in Basis
      BY <1>1, RowParts
    <3>2. QED
      BY <3>1 DEF SymDiff
  <2>2. v[d] = Times(Ei(Exponent(r, b)), v[b])
    BY <1>1 DEF Fixes
  <2>3. Times(Ei(Exponent(r, b)), Zero) = Zero
    BY <1>1, ExponentType, ImLaws
  <2> HIDE DEF d
  <2>4. w[d] = (IF (q \in b) = (o = 1) THEN v[d] ELSE Zero) /\ w[b] = (IF (q \in b) = (o = 1) THEN v[b] ELSE Zero)
    BY <1>1, <2>1 DEF Project
  <2>5. w[d] = Times(Ei(Exponent(r, b)), w[b])
    BY <2>2, <2>3, <2>4
  <2>6. QED
    BY <2>5 DEF d
<1>2. QED
  BY <1>1 DEF Fixes

LEMMA ScaleFixes ==
  ASSUME NEW r \in Rows, NEW v \in Vectors, Fixes(r, v), NEW a \in Amps
  PROVE  Fixes(r, ScaledBy(a, v))
<1>1. ASSUME NEW b \in Basis
      PROVE  ScaledBy(a, v)[SymDiff(b, r.x)] = Times(Ei(Exponent(r, b)), ScaledBy(a, v)[b])
  <2> DEFINE e == Ei(Exponent(r, b)) x == v[b]
  <2>1. SymDiff(b, r.x) \in Basis /\ v[SymDiff(b, r.x)] = Times(e, x) /\ e \in Amps /\ x \in Amps
    BY <1>1, RowParts, ExponentType DEF Fixes, Vectors
  <2>2. ScaledBy(a, v)[SymDiff(b, r.x)] = Times(a, v[SymDiff(b, r.x)]) /\ ScaledBy(a, v)[b] = Times(a, x)
    BY <1>1, <2>1 DEF ScaledBy
  <2> HIDE DEF e, x
  <2>3. Times(a, Times(e, x)) = Times(e, Times(a, x))
    BY <2>1, Past
  <2>4. QED
    BY <2>1, <2>2, <2>3 DEF e
<1>2. QED
  BY <1>1 DEF Fixes

\* The measured wire is fixed with the sign of the outcome, whatever it was.
LEMMA ZFixes ==
  ASSUME NEW v \in Vectors, NEW q \in Qubits, NEW neg \in BOOLEAN
  PROVE  Fixes(SignedZ(q, neg), Project(v, q, Drawn(neg)))
<1> DEFINE w == Project(v, q, Drawn(neg)) r == SignedZ(q, neg)
<1>1. r \in Rows /\ r.x = {} /\ r.z = {q} /\ r.neg = neg
  BY SignedZRow
<1>2. ASSUME NEW b \in Basis PROVE w[SymDiff(b, r.x)] = Times(Ei(Exponent(r, b)), w[b])
  <2>1. SymDiff(b, r.x) = b
    BY <1>1 DEF SymDiff
  <2>2. w[b] = IF (q \in b <=> neg) THEN v[b] ELSE Zero
    BY <1>2 DEF Project, Drawn
  <2>3. v[b] \in Amps /\ Ei(Exponent(r, b)) \in Amps
    BY <1>1, <1>2, ExponentType DEF Vectors
  <2>4. CASE q \in b <=> neg
    <3>1. Exponent(r, b) = IF neg THEN 8 ELSE 0
      <4>1. r.x \cap r.z = {} /\ r.z \cap b = IF neg THEN {q} ELSE {}
        BY <1>1, <2>4
      <4>2. QED
        <5> DEFINE A == r.x \cap r.z B == r.z \cap b
        <5>1. Exponent(r, b) = 2 * Cardinality(A) + 4 * Cardinality(B) + (IF neg THEN 4 ELSE 0)
          BY <1>1 DEF Exponent, HalfTurn
        <5>2. A = {} /\ B = IF neg THEN {q} ELSE {}
          BY <4>1
        <5> HIDE DEF A, B, r
        <5>3. Cardinality(A) = 0
          BY <5>2, FS_EmptySet
        <5>4. Cardinality(B) = IF neg THEN 1 ELSE 0
          BY <5>2, FS_EmptySet, FS_Singleton
        <5>5. QED
          BY <5>1, <5>3, <5>4
    <3>2. Ei(Exponent(r, b)) = One
      <4> DEFINE e == Exponent(r, b) n == 0
      <4>1. e \in Int /\ n \in Int /\ e % 8 = n % 8
        BY <3>1
      <4>2. Ei(n) = One
        BY ZeroAngle
      <4> HIDE DEF e, n
      <4>3. Ei(e) = Ei(n)
        BY <4>1, EiEight
      <4>4. QED
        BY <4>2, <4>3 DEF e
    <3>3. Times(One, v[b]) = v[b]
      BY <2>3, ImLaws
    <3>4. QED
      BY <2>1, <2>2, <2>4, <3>2, <3>3
  <2>5. CASE ~(q \in b <=> neg)
    <3>1. Times(Ei(Exponent(r, b)), Zero) = Zero
      BY <2>3, ImLaws
    <3>2. QED
      BY <2>1, <2>2, <2>5, <3>1
  <2>6. QED
    BY <2>4, <2>5
<1>3. QED
  BY <1>2 DEF Fixes

-----------------------------------------------------------------------------
(* The collapse of the tableau.                                            *)

Pivot(u, q) == CHOOSE k \in Anticommuting(u, q) : \A j \in Anticommuting(u, q) : k <= j
Multiplied(u, q, r) == IF anticommutes(r, ZOn(q)) THEN row_product(r, u.stab[Pivot(u, q)]) ELSE r

LEMMA CollapsedRows ==
  ASSUME NEW u \in Tableaux, NEW q \in Qubits, NEW outcome \in BOOLEAN, ~reset_outcome_is_determined(u, q)
  PROVE  /\ Pivot(u, q) \in Qubits /\ anticommutes(u.stab[Pivot(u, q)], ZOn(q))
         /\ LET c == Collapsed(u, q, outcome)
            IN  /\ c.stab[Pivot(u, q)] = SignedZ(q, outcome)
                /\ c.destab[Pivot(u, q)] = u.stab[Pivot(u, q)]
                /\ \A k \in Qubits : k # Pivot(u, q) => /\ c.stab[k] = Multiplied(u, q, u.stab[k])
                                                       /\ c.destab[k] = Multiplied(u, q, u.destab[k])
<1> DEFINE p == Pivot(u, q)
           S == u.stab
           D == u.destab
           Zo == [ZOn(q) EXCEPT !.neg = outcome]
           Mult(r) == IF anticommutes(r, ZOn(q)) THEN row_product(r, S[p]) ELSE r
           c == Collapsed(u, q, outcome)
           rows == [destab |-> [k \in Qubits |-> Mult(D[k])], stab |-> [k \in Qubits |-> Mult(S[k])]]
<1>1. p \in Qubits /\ anticommutes(S[p], ZOn(q))
  BY PivotExists DEF Pivot
<1>2. c = [destab |-> [rows.destab EXCEPT ![p] = S[p]], stab |-> [rows.stab EXCEPT ![p] = Zo]]
  BY DEF Collapsed, EveryRow, Pivot
<1>3. \A r : Mult(r) = Multiplied(u, q, r)
  BY DEF Multiplied
<1> HIDE DEF S, D, Zo, Mult, p, c
<1>4. /\ c.stab[p] = Zo /\ c.destab[p] = S[p]
      /\ \A k \in Qubits : k # p => c.stab[k] = Mult(S[k]) /\ c.destab[k] = Mult(D[k])
  BY <1>1, <1>2
<1>5. QED
  BY <1>1, <1>3, <1>4 DEF p, S, D, Zo, c, SignedZ

\* Nothing but the identity commutes with every row of the collapse either: it
\* would commute with every row of the old tableau but the destabilizer of the
\* pivot, and so be the identity or the pivot, which does not commute with Z.
LEMMA CollapseFaithful ==
  ASSUME NEW u \in Tableaux, Independent(u), Faithful(u), NEW q \in Qubits, NEW outcome \in BOOLEAN,
         ~reset_outcome_is_determined(u, q)
  PROVE  Faithful(Collapsed(u, q, outcome))
<1> DEFINE p == Pivot(u, q) s == u.stab[p] c == Collapsed(u, q, outcome)
<1>1. /\ p \in Qubits /\ anticommutes(s, ZOn(q))
      /\ c.stab[p] = SignedZ(q, outcome) /\ c.destab[p] = s
      /\ \A k \in Qubits : k # p => c.stab[k] = Multiplied(u, q, u.stab[k]) /\ c.destab[k] = Multiplied(u, q, u.destab[k])
  BY CollapsedRows
<1>2. \A k \in Qubits : u.stab[k] \in Rows /\ u.destab[k] \in Rows
  BY DEF Tableaux
<1>3. s \in Rows /\ ~anticommutes(s, s) /\ q \in s.x
  BY <1>1, <1>2, AntiSelf, SignedZRow
<1> HIDE DEF c
<1> SUFFICES ASSUME NEW x \in SUBSET Qubits, NEW z \in SUBSET Qubits,
                    \A k \in Qubits : ~anticommutes(c.stab[k], Str(x, z)) /\ ~anticommutes(c.destab[k], Str(x, z))
             PROVE  x = {} /\ z = {}
  BY DEF Faithful, c
<1> DEFINE P == Str(x, z)
<1>4. P \in Rows /\ P.x = x /\ P.z = z
  BY StrRow
<1> HIDE DEF P
<1>5. \A k \in Qubits : ~anticommutes(c.stab[k], P) /\ ~anticommutes(c.destab[k], P)
  BY DEF P
<1>6. ~anticommutes(s, P) /\ ~anticommutes(SignedZ(q, outcome), P)
  BY <1>1, <1>5
<1>7. q \notin x
  <2>1. SignedZ(q, outcome) \in Rows
    BY SignedZRow
  <2>2. ~anticommutes(P, SignedZ(q, outcome))
    BY <1>4, <1>6, <2>1, AntiSymmetric
  <2>3. QED
    BY <1>4, <2>2, SignedZRow
<1>8. ASSUME NEW r \in Rows, ~anticommutes(Multiplied(u, q, r), P)
      PROVE  ~anticommutes(r, P)
  <2>1. anticommutes(row_product(r, s), P) <=> ~(anticommutes(r, P) <=> anticommutes(s, P))
    BY <1>3, <1>4, <1>8, AntiProduct
  <2>2. QED
    BY <1>6, <1>8, <2>1 DEF Multiplied
<1>9. \A k \in Qubits : /\ ~anticommutes(u.stab[k], P)
                        /\ k # p => ~anticommutes(u.destab[k], P)
  <2> TAKE k \in Qubits
  <2>1. CASE k = p
    BY <1>6, <2>1
  <2>2. CASE k # p
    BY <1>1, <1>2, <1>5, <1>8, <2>2
  <2>3. QED
    BY <2>1, <2>2
<1>10. ~anticommutes(u.destab[p], P)
  <2> SUFFICES ASSUME anticommutes(u.destab[p], P) PROVE FALSE
    OBVIOUS
  <2> DEFINE R == row_product(P, s) T == Str(R.x, R.z)
  <2>1. R \in Rows /\ \A r \in Rows : anticommutes(r, R) <=> ~(anticommutes(r, P) <=> anticommutes(r, s))
    BY <1>3, <1>4, AntiProduct
  <2>2. T \in Rows /\ \A r \in Rows : anticommutes(r, T) <=> anticommutes(r, R)
    <3>1. R.x \in SUBSET Qubits /\ R.z \in SUBSET Qubits
      BY <2>1 DEF Rows
    <3>2. T \in Rows /\ T.x = R.x /\ T.z = R.z
      BY <3>1, StrRow
    <3>3. \A r \in Rows : anticommutes(r, T) <=> anticommutes(r, R)
      BY <3>2, AntiParts
    <3>4. QED
      BY <3>2, <3>3
  <2> HIDE DEF T
  <2>3. \A k \in Qubits : ~anticommutes(u.stab[k], T) /\ ~anticommutes(u.destab[k], T)
    <3> TAKE k \in Qubits
    <3>1. ~anticommutes(u.stab[k], s) /\ (anticommutes(u.destab[k], s) <=> k = p)
      BY <1>1 DEF Independent
    <3> HIDE DEF s, R
    <3>2. QED
      BY <1>2, <1>9, <2>1, <2>2, <3>1
  <2>4. R.x = {} /\ R.z = {}
    <3>1. R.x \in SUBSET Qubits /\ R.z \in SUBSET Qubits
      BY <2>1 DEF Rows
    <3> HIDE DEF R
    <3>2. QED
      BY <2>3, <3>1 DEF Faithful, T
  <2>5. q \in R.x
    <3>1. R.x = SymDiff(P.x, s.x)
      BY DEF row_product
    <3>2. QED
      BY <1>3, <1>4, <1>7, <3>1 DEF SymDiff
  <2>6. QED
    BY <2>4, <2>5
<1>11. \A k \in Qubits : ~anticommutes(u.stab[k], P) /\ ~anticommutes(u.destab[k], P)
  <2> TAKE k \in Qubits
  <2>1. CASE k = p
    BY <1>9, <1>10, <2>1
  <2>2. CASE k # p
    BY <1>9, <2>2
  <2>3. QED
    BY <2>1, <2>2
<1>12. QED
  BY <1>11 DEF Faithful, P

\* The rows of the collapse fix the projected vector.
LEMMA CollapseFixes ==
  ASSUME NEW u, NEW v, Sound(u, v), NEW q \in Qubits, NEW outcome \in BOOLEAN, ~reset_outcome_is_determined(u, q)
  PROVE  Stabilizes(Collapsed(u, q, outcome), Project(v, q, Drawn(outcome)))
<1> DEFINE p == Pivot(u, q) s == u.stab[p] c == Collapsed(u, q, outcome) w == Project(v, q, Drawn(outcome))
<1>1. u \in Tableaux /\ Independent(u) /\ v \in Vectors /\ Stabilizes(u, v)
  BY DEF Sound
<1>2. /\ p \in Qubits /\ anticommutes(s, ZOn(q)) /\ c.stab[p] = SignedZ(q, outcome)
      /\ \A k \in Qubits : k # p => c.stab[k] = Multiplied(u, q, u.stab[k])
  BY <1>1, CollapsedRows
<1>3. \A k \in Qubits : u.stab[k] \in Rows /\ Fixes(u.stab[k], v) /\ ~anticommutes(u.stab[k], s)
  BY <1>1, <1>2 DEF Tableaux, Stabilizes, Independent
<1>4. s \in Rows /\ Fixes(s, v)
  BY <1>2, <1>3
<1> HIDE DEF c, s, w
<1>5. ASSUME NEW k \in Qubits PROVE Fixes(c.stab[k], w)
  <2>1. CASE k = p
    <3>1. Fixes(SignedZ(q, outcome), w)
      BY <1>1, ZFixes DEF w
    <3>2. QED
      BY <1>2, <2>1, <3>1
  <2>2. CASE k # p
    <3> DEFINE a == u.stab[k] r == Multiplied(u, q, a)
    <3>1. a \in Rows /\ Fixes(a, v) /\ ~anticommutes(a, s) /\ c.stab[k] = r
      BY <1>2, <1>3, <2>2
    <3>2. r = IF anticommutes(a, ZOn(q)) THEN row_product(a, s) ELSE a
      BY DEF Multiplied, s
    <3> HIDE DEF a, r
    <3>3. r \in Rows /\ Fixes(r, v) /\ ~anticommutes(r, ZOn(q))
      <4>1. CASE anticommutes(a, ZOn(q))
        <5>1. r = row_product(a, s) /\ ZOn(q) \in Rows
          BY <3>2, <4>1, SignedZRow
        <5>2. row_product(a, s) \in Rows /\ Fixes(row_product(a, s), v)
          BY <1>1, <1>4, <3>1, ProductFixes
        <5>3. ~anticommutes(row_product(a, s), ZOn(q))
          BY <1>2, <1>4, <3>1, <4>1, <5>1, AntiProduct
        <5>4. QED
          BY <5>1, <5>2, <5>3
      <4>2. CASE ~anticommutes(a, ZOn(q))
        BY <3>1, <3>2, <4>2
      <4>3. QED
        BY <4>1, <4>2
    <3>4. q \notin r.x
      BY <3>3, SignedZRow
    <3>5. Fixes(r, w)
      BY <1>1, <3>3, <3>4, ProjectFixes DEF w
    <3>6. QED
      BY <3>1, <3>5
  <2>3. QED
    BY <2>1, <2>2
<1>6. QED
  BY <1>5 DEF Stabilizes, c, w

\* A measurement whose outcome is free: both outcomes are as likely.
LEMMA FreeHalves ==
  ASSUME NEW u, NEW v, Sound(u, v), Norm(v) = One, NEW q \in Qubits, ~reset_outcome_is_determined(u, q), NEW o \in {0, 1}
  PROVE  /\ ProbOf(v, q, o) \in Amps /\ Plus(ProbOf(v, q, o), ProbOf(v, q, o)) = One
         /\ ProbOf(v, q, o) # Zero /\ ProbOf(v, q, o) # One
<1> DEFINE r == u.stab[Pivot(u, q)]
<1>1. u \in Tableaux /\ v \in Vectors /\ Stabilizes(u, v)
  BY DEF Sound
<1>2. Pivot(u, q) \in Qubits /\ anticommutes(r, ZOn(q))
  <2>1. TRUE \in BOOLEAN
    OBVIOUS
  <2>2. QED
    BY <1>1, <2>1, CollapsedRows
<1>3. r \in Rows /\ Fixes(r, v)
  BY <1>1, <1>2 DEF Tableaux, Stabilizes
<1>4. q \in r.x
  BY <1>2, <1>3, SignedZRow
<1> HIDE DEF r
<1>5. ProbOf(v, q, 0) = ProbOf(v, q, 1)
  BY <1>1, <1>3, <1>4, HalvesEqual
<1>6. ProbOf(v, q, 0) \in Amps /\ Plus(ProbOf(v, q, 0), ProbOf(v, q, 1)) = One
  BY <1>1, ProbHalves
<1> DEFINE x == ProbOf(v, q, o)
<1>7. x = ProbOf(v, q, 0)
  BY <1>5
<1>8. x \in Amps /\ Plus(x, x) = One
  BY <1>5, <1>6, <1>7
<1> HIDE DEF x
<1>9. x # Zero
  <2>1. Plus(Zero, Zero) = Zero
    BY ImConstants, ImLaws
  <2>2. QED
    BY <1>8, <2>1, Root2Laws
<1>10. x # One
  BY <1>8, Root2Laws
<1>11. QED
  BY <1>8, <1>9, <1>10 DEF x

LEMMA FreeMeasure ==
  ASSUME NEW u, NEW v, Sound(u, v), Norm(v) = One, NEW q \in Qubits, NEW outcome \in BOOLEAN,
         ~reset_outcome_is_determined(u, q)
  PROVE  /\ Sound(Collapsed(u, q, outcome), Collapse(v, q, Drawn(outcome)))
         /\ Norm(Collapse(v, q, Drawn(outcome))) = One
<1> DEFINE c == Collapsed(u, q, outcome) o == Drawn(outcome) w == Project(v, q, o) y == Collapse(v, q, o)
<1>1. u \in Tableaux /\ Independent(u) /\ Faithful(u) /\ v \in Vectors
  BY DEF Sound
<1>2. c \in Tableaux /\ Independent(c) /\ Faithful(c)
  BY <1>1, CollapseKeeps, CollapseFaithful
<1>3. Stabilizes(c, w)
  BY CollapseFixes
<1>4. w \in Vectors /\ Norm(w) = ProbOf(v, q, o)
  BY <1>1, ProjectLaws
<1>5. o \in {0, 1}
  BY DEF Drawn
<1>6. ProbOf(v, q, o) \in Amps /\ Plus(ProbOf(v, q, o), ProbOf(v, q, o)) = One /\ ProbOf(v, q, o) # One
  <2> HIDE DEF o
  <2>1. QED
    BY <1>5, FreeHalves
<1>7. y = ScaledBy(Root2, w)
  BY <1>6 DEF Collapse, ScaledBy, Root2
<1> HIDE DEF c, o, w, y
<1>8. y \in Vectors /\ Norm(y) = Times(Plus(One, One), Norm(w))
  BY <1>4, <1>7, Root2Laws, ScaleNorm
<1>9. Norm(y) = One
  <2> DEFINE x == Norm(w)
  <2>1. x \in Amps /\ Plus(x, x) = One
    BY <1>4, <1>6
  <2> HIDE DEF x
  <2>2. Times(Plus(One, One), x) = Plus(Times(One, x), Times(One, x)) /\ Times(One, x) = x
    BY <2>1, Gather, ImConstants, ImLaws
  <2>3. QED
    BY <1>8, <2>1, <2>2 DEF x
<1>10. Stabilizes(c, y)
  <2>1. \A k \in Qubits : c.stab[k] \in Rows /\ Fixes(c.stab[k], w)
    BY <1>2, <1>3 DEF Tableaux, Stabilizes
  <2>2. \A k \in Qubits : Fixes(c.stab[k], y)
    BY <1>4, <1>7, <2>1, Root2Laws, ScaleFixes
  <2>3. QED
    BY <2>2 DEF Stabilizes
<1>11. Sound(c, y)
  BY <1>2, <1>8, <1>10 DEF Sound
<1>12. QED
  BY <1>9, <1>11 DEF c, y, o

-----------------------------------------------------------------------------
(* The product of some stabilizers.                                        *)

\* The product of the stabilizers of S below k, for every k.
ProductUpTo(f, u, S) ==
    f = [k \in 0..N |->
           IF k = 0 THEN Identity
           ELSE IF k - 1 \in S THEN row_product(f[k - 1], u.stab[k - 1]) ELSE f[k - 1]]

LEMMA IdentityRow ==
  /\ Identity \in Rows /\ Identity.x = {} /\ Identity.z = {} /\ Identity.neg = FALSE
  /\ \A r \in Rows : ~anticommutes(Identity, r) /\ ~anticommutes(r, Identity)
  /\ \A v \in Vectors : Fixes(Identity, v)
<1>1. Identity \in Rows /\ Identity.x = {} /\ Identity.z = {} /\ Identity.neg = FALSE
  BY DEF Rows, Identity
<1>2. ASSUME NEW r \in Rows PROVE ~anticommutes(Identity, r) /\ ~anticommutes(r, Identity)
  <2>1. Crossings(Identity, r) = {} /\ Crossings(r, Identity) = {}
    BY <1>1 DEF Crossings, SymDiff
  <2>2. QED
    BY <1>1, <1>2, <2>1, CrossingsType, OddEmpty
<1>3. ASSUME NEW v \in Vectors, NEW b \in Basis
      PROVE  v[SymDiff(b, Identity.x)] = Times(Ei(Exponent(Identity, b)), v[b])
  <2>1. SymDiff(b, Identity.x) = b
    BY <1>1 DEF SymDiff
  <2>2. Exponent(Identity, b) = 0
    <3>1. Identity.x \cap Identity.z = {} /\ Identity.z \cap b = {}
      BY <1>1
    <3>2. QED
      BY <1>1, <3>1, FS_EmptySet DEF Exponent, HalfTurn
  <2>3. v[b] \in Amps
    BY <1>3 DEF Vectors
  <2>4. Times(One, v[b]) = v[b]
    BY <2>3, ImLaws
  <2>5. QED
    BY <2>1, <2>2, <2>4, ZeroAngle
<1>4. QED
  BY <1>1, <1>2, <1>3 DEF Fixes

LEMMA ProductSteps ==
  ASSUME NEW u \in Tableaux, NEW S
  PROVE  \E f : f \in [0..N -> Rows] /\ ProductUpTo(f, u, S) /\ Product(u, S) = f[N]
<1> DEFINE Next1(k, x) == IF k - 1 \in S THEN row_product(x, u.stab[k - 1]) ELSE x
           step == [p \in (1..N) \X Rows |-> Next1(p[1], p[2])]
<1>1. \A k \in 1..N, x \in Rows : Next1(k, x) \in Rows
  <2> TAKE k \in 1..N, x \in Rows
  <2>1. k - 1 \in Qubits
    BY WidthAssumption DEF Qubits
  <2>2. u.stab[k - 1] \in Rows
    BY <2>1 DEF Tableaux
  <2>3. QED
    BY <2>2, AntiProduct
<1>2. N \in Nat /\ Identity \in Rows
  BY WidthAssumption, IdentityRow
<1> HIDE DEF Next1
<1>3. Stepper(step, N, Rows) /\ \A k \in 1..N, x \in Rows : step[<<k, x>>] = Next1(k, x)
  BY <1>1 DEF Stepper
<1> HIDE DEF step
<1>4. PICK f : f \in [0..N -> Rows]
                /\ f = [k \in 0..N |-> IF k = 0 THEN Identity ELSE step[<<k, f[k - 1]>>]]
  BY <1>2, <1>3, RecursionFunction
<1>5. f = [k \in 0..N |-> IF k = 0 THEN Identity ELSE Next1(k, f[k - 1])]
  <2>1. \A k \in 0..N : k # 0 => step[<<k, f[k - 1]>>] = Next1(k, f[k - 1])
    BY <1>2, <1>3, <1>4
  <2>2. QED
    BY <1>4, <2>1
<1>6. ProductUpTo(f, u, S)
  BY <1>5 DEF ProductUpTo, Next1
<1> DEFINE After[k \in 0..N] ==
             IF k = 0 THEN Identity
             ELSE IF k - 1 \in S THEN row_product(After[k - 1], u.stab[k - 1]) ELSE After[k - 1]
<1>7. After = [k \in 0..N |->
                 IF k = 0 THEN Identity
                 ELSE IF k - 1 \in S THEN row_product(After[k - 1], u.stab[k - 1]) ELSE After[k - 1]]
  BY <1>6 DEF ProductUpTo
<1>8. Product(u, S) = After[N]
  BY DEF Product
<1> HIDE DEF After
<1>9. After \in [0..N -> Rows]
  <2> DEFINE P == {k \in 0..N : After[k] \in Rows}
  <2>1. 0 \in P
    BY <1>2, <1>7
  <2>2. \A m \in 1..N : m - 1 \in P => m \in P
    <3> TAKE m \in 1..N
    <3> HAVE m - 1 \in P
    <3>1. m \in 0..N /\ m # 0 /\ After[m - 1] \in Rows
      BY <1>2
    <3>2. After[m] = Next1(m, After[m - 1])
      BY <1>7, <3>1 DEF Next1
    <3>3. QED
      BY <1>1, <3>1, <3>2
  <2> HIDE DEF P
  <2>3. \A m \in 0..N : m \in P
    BY <1>2, <2>1, <2>2, UpToInduction
  <2>4. QED
    BY <1>7, <2>3 DEF P
<1>10. QED
  BY <1>7, <1>8, <1>9 DEF ProductUpTo

\* A product of stabilizers commutes with the stabilizers, anticommutes with
\* the destabilizers of its factors only, and fixes what they fix.
ProductOf(u, S, v, r) ==
    /\ r \in Rows
    /\ \A k \in Qubits : ~anticommutes(u.stab[k], r)
    /\ \A k \in Qubits : anticommutes(u.destab[k], r) <=> k \in S
    /\ Fixes(r, v)

LEMMA ProductLaws ==
  ASSUME NEW u \in Tableaux, Independent(u), NEW v \in Vectors, Stabilizes(u, v), NEW S \in SUBSET Qubits
  PROVE  ProductOf(u, S, v, Product(u, S))
<1> DEFINE Below(k) == {j \in S : j < k}
<1>1. PICK f : f \in [0..N -> Rows] /\ ProductUpTo(f, u, S) /\ Product(u, S) = f[N]
  BY ProductSteps
<1> DEFINE Q == {k \in 0..N : ProductOf(u, Below(k), v, f[k])}
<1>2. N \in Nat /\ \A k \in Qubits : k \in 0..(N - 1)
  BY WidthAssumption DEF Qubits
<1>3. 0 \in Q
  <2>1. f[0] = Identity /\ 0 \in 0..N
    BY <1>1, <1>2 DEF ProductUpTo
  <2>2. Below(0) = {}
    <3>1. \A j \in S : j \in Nat
      BY <1>2
    <3>2. \A j \in S : ~(j < 0)
      BY <3>1
    <3>3. QED
      BY <3>2
  <2>3. \A k \in Qubits : u.stab[k] \in Rows /\ u.destab[k] \in Rows
    BY DEF Tableaux
  <2> HIDE DEF Below
  <2>4. ProductOf(u, {}, v, Identity)
    BY <2>3, IdentityRow DEF ProductOf
  <2>5. QED
    BY <2>1, <2>2, <2>4
<1>4. \A m \in 1..N : m - 1 \in Q => m \in Q
  <2> TAKE m \in 1..N
  <2> HAVE m - 1 \in Q
  <2>1. m \in 0..N /\ m # 0 /\ m - 1 \in Qubits /\ m - 1 \in 0..N /\ ProductOf(u, Below(m - 1), v, f[m - 1])
    BY <1>2 DEF Qubits
  <2>2. f[m] = IF m - 1 \in S THEN row_product(f[m - 1], u.stab[m - 1]) ELSE f[m - 1]
    BY <1>1, <2>1 DEF ProductUpTo
  <2>3. \A j \in Qubits : j \in Below(m) <=> j \in Below(m - 1) \/ (j = m - 1 /\ m - 1 \in S)
    BY <1>2
  <2>4. m - 1 \notin Below(m - 1)
    BY <1>2
  <2> HIDE DEF Below
  <2>5. CASE m - 1 \notin S
    <3>1. f[m] = f[m - 1] /\ \A j \in Qubits : j \in Below(m) <=> j \in Below(m - 1)
      BY <2>2, <2>3, <2>5
    <3>2. QED
      BY <2>1, <3>1 DEF ProductOf
  <2>6. CASE m - 1 \in S
    <3> DEFINE a == f[m - 1]
               b == u.stab[m - 1]
               r == row_product(a, b)
    <3>1. f[m] = r
      BY <2>2, <2>6
    <3>2. a \in Rows /\ b \in Rows /\ \A k \in Qubits : u.stab[k] \in Rows /\ u.destab[k] \in Rows
      BY <2>1 DEF Tableaux, ProductOf
    <3>3. \A k \in Qubits : ~anticommutes(u.stab[k], a) /\ ~anticommutes(u.stab[k], b)
      BY <2>1 DEF ProductOf, Independent
    <3>4. \A k \in Qubits : (anticommutes(u.destab[k], a) <=> k \in Below(m - 1))
                            /\ (anticommutes(u.destab[k], b) <=> k = m - 1)
      BY <2>1 DEF ProductOf, Independent
    <3>5. Fixes(a, v) /\ Fixes(b, v) /\ ~anticommutes(b, a)
      BY <2>1, <3>3 DEF ProductOf, Stabilizes
    <3> HIDE DEF a, b
    <3>6. r \in Rows /\ Fixes(r, v)
      BY <3>2, <3>5, AntiSymmetric, ProductFixes
    <3>7. \A k \in Qubits : ~anticommutes(u.stab[k], r)
      BY <3>2, <3>3, AntiProduct
    <3>8. \A k \in Qubits : anticommutes(u.destab[k], r) <=> k \in Below(m)
      BY <2>3, <2>4, <2>6, <3>2, <3>4, AntiProduct
    <3>9. QED
      BY <2>1, <3>1, <3>6, <3>7, <3>8 DEF ProductOf
  <2>7. QED
    BY <2>5, <2>6
<1>5. Below(N) = S
  BY <1>2
<1> HIDE DEF Below
<1> HIDE DEF Q
<1>6. \A m \in 0..N : m \in Q
  BY <1>2, <1>3, <1>4, UpToInduction
<1>7. QED
  BY <1>1, <1>2, <1>5, <1>6 DEF Q

-----------------------------------------------------------------------------
(* A measurement whose outcome is determined.                              *)

\* The stabilizer that the destabilizers which do not commute with Z make.
ZProduct(u, q) == Product(u, {k \in Qubits : anticommutes(u.destab[k], ZOn(q))})

\* It is Z of the measured wire, with the sign of the outcome.
LEMMA DeterminedIsZ ==
  ASSUME NEW u, NEW v, Sound(u, v), NEW q \in Qubits, reset_outcome_is_determined(u, q)
  PROVE  /\ ZProduct(u, q) = SignedZ(q, DeterminedOutcome(u, q))
         /\ DeterminedOutcome(u, q) \in BOOLEAN
         /\ Fixes(SignedZ(q, DeterminedOutcome(u, q)), v)
<1> DEFINE S == {k \in Qubits : anticommutes(u.destab[k], ZOn(q))}
           r == ZProduct(u, q)
           p == row_product(r, ZOn(q))
<1>1. u \in Tableaux /\ Independent(u) /\ Faithful(u) /\ v \in Vectors /\ Stabilizes(u, v)
  BY DEF Sound
<1>2. ProductOf(u, S, v, r)
  <2>1. S \in SUBSET Qubits
    OBVIOUS
  <2>2. QED
    BY <1>1, <2>1, ProductLaws DEF ZProduct
<1>3. \A k \in Qubits : /\ u.stab[k] \in Rows /\ u.destab[k] \in Rows
                        /\ ~anticommutes(u.stab[k], ZOn(q))
                        /\ anticommutes(u.destab[k], ZOn(q)) <=> k \in S
  BY <1>1 DEF Tableaux, reset_outcome_is_determined, Anticommuting
<1>4. ZOn(q) \in Rows /\ ZOn(q).x = {} /\ ZOn(q).z = {q}
  BY SignedZRow
<1> HIDE DEF S, r
<1>5. r \in Rows
  BY <1>2 DEF ProductOf
<1>6. p \in Rows /\ \A k \in Qubits : ~anticommutes(u.stab[k], p) /\ ~anticommutes(u.destab[k], p)
  BY <1>2, <1>3, <1>4, AntiProduct DEF ProductOf
<1>7. p.x = SymDiff(r.x, {}) /\ p.z = SymDiff(r.z, {q})
  BY <1>4 DEF row_product
<1> HIDE DEF p
<1>8. p.x = {} /\ p.z = {}
  <2>1. p.x \in SUBSET Qubits /\ p.z \in SUBSET Qubits
    BY <1>6 DEF Rows
  <2>2. Str(p.x, p.z).x = p.x /\ Str(p.x, p.z).z = p.z
    BY <2>1, StrRow
  <2>3. \A k \in Qubits : ~anticommutes(u.stab[k], Str(p.x, p.z)) /\ ~anticommutes(u.destab[k], Str(p.x, p.z))
    BY <1>6, <2>2, AntiParts
  <2>4. QED
    BY <1>1, <2>1, <2>3 DEF Faithful
<1>9. r.x = {} /\ r.z = {q}
  BY <1>7, <1>8 DEF SymDiff
<1>10. DeterminedOutcome(u, q) = r.neg /\ r.neg \in BOOLEAN
  BY <1>5 DEF DeterminedOutcome, ZProduct, r, Rows
<1>11. r = SignedZ(q, r.neg)
  <2> DEFINE w == SignedZ(q, r.neg)
  <2>1. w \in Rows /\ w.x = {} /\ w.z = {q} /\ w.neg = r.neg
    BY <1>10, SignedZRow
  <2> HIDE DEF w
  <2>2. r = w
    BY <1>5, <1>9, <2>1 DEF Rows
  <2>3. QED
    BY <2>2 DEF w
<1>12. Fixes(r, v)
  BY <1>2 DEF ProductOf
<1>13. r = ZProduct(u, q)
  BY DEF r
<1>14. QED
  BY <1>10, <1>11, <1>12, <1>13

\* A vector that Z of a wire fixes, up to a sign, is zero where the wire says
\* otherwise.
LEMMA HalfEmpty ==
  ASSUME NEW v \in Vectors, NEW q \in Qubits, NEW neg \in BOOLEAN, Fixes(SignedZ(q, neg), v)
  PROVE  \A b \in Basis : ~(q \in b <=> neg) => v[b] = Zero
<1> DEFINE r == SignedZ(q, neg)
<1>1. r \in Rows /\ r.x = {} /\ r.z = {q} /\ r.neg = neg
  BY SignedZRow
<1>2. ASSUME NEW b \in Basis, ~(q \in b <=> neg) PROVE v[b] = Zero
  <2>1. SymDiff(b, r.x) = b
    BY <1>1 DEF SymDiff
  <2>2. v[b] = Times(Ei(Exponent(r, b)), v[b])
    BY <2>1 DEF Fixes
  <2>3. v[b] \in Amps /\ Ei(Exponent(r, b)) \in Amps
    BY <1>1, <1>2, ExponentType DEF Vectors
  <2>4. Exponent(r, b) = 4
    <3> DEFINE A == r.x \cap r.z B == r.z \cap b
    <3>1. Exponent(r, b) = 2 * Cardinality(A) + 4 * Cardinality(B) + (IF neg THEN 4 ELSE 0)
      BY <1>1 DEF Exponent, HalfTurn
    <3>2. A = {} /\ B = IF neg THEN {} ELSE {q}
      BY <1>1, <1>2
    <3> HIDE DEF A, B, r
    <3>3. Cardinality(A) = 0
      BY <3>2, FS_EmptySet
    <3>4. Cardinality(B) = IF neg THEN 0 ELSE 1
      BY <3>2, FS_EmptySet, FS_Singleton
    <3>5. QED
      BY <3>1, <3>3, <3>4
  <2>5. Ei(4) = Neg(One)
    BY ImConstants DEF Ei, Neg, One, Int2Amp, QNeg
  <2>6. Times(Neg(One), v[b]) = Neg(v[b])
    BY <2>3, ImLaws
  <2> DEFINE x == v[b]
  <2>7. x \in Amps /\ x = Neg(x)
    BY <2>2, <2>3, <2>4, <2>5, <2>6
  <2> HIDE DEF x
  <2>8. Plus(x, x) = Zero /\ Plus(Zero, Zero) = Zero /\ Zero \in Amps
    BY <2>7, PlusLaws, ImConstants, ImLaws
  <2>9. x = Zero
    BY <2>7, <2>8, HalfOf
  <2>10. QED
    BY <2>9 DEF x
<1>3. QED
  BY <1>2

\* What a measurement leaves when its outcome is determined.
LEMMA DeterminedMeasure ==
  ASSUME NEW u, NEW v, Sound(u, v), Norm(v) = One, NEW q \in Qubits, reset_outcome_is_determined(u, q)
  PROVE  LET neg == DeterminedOutcome(u, q)
         IN  /\ neg \in BOOLEAN /\ Collapse(v, q, Drawn(neg)) = v
             /\ \A o \in BOOLEAN : ProbOf(v, q, Drawn(o)) = IF (o <=> neg) THEN One ELSE Zero
<1> DEFINE neg == DeterminedOutcome(u, q)
           o == Drawn(neg)
<1>1. v \in Vectors
  BY DEF Sound
<1>2. neg \in BOOLEAN /\ Fixes(SignedZ(q, neg), v)
  BY DeterminedIsZ
<1> HIDE DEF neg
<1>3. \A b \in Basis : ~(q \in b <=> neg) => v[b] = Zero
  BY <1>1, <1>2, HalfEmpty
<1>4. \A b \in Basis : (q \in b) = (o = 1) <=> (q \in b <=> neg)
  BY <1>2 DEF Drawn
<1>5. Project(v, q, o) = v
  <2>1. v = [b \in Basis |-> v[b]]
    BY <1>1 DEF Vectors
  <2>2. \A b \in Basis : (IF (q \in b) = (o = 1) THEN v[b] ELSE Zero) = v[b]
    BY <1>3, <1>4
  <2> HIDE DEF o
  <2>3. Project(v, q, o) = [b \in Basis |-> v[b]]
    BY <2>2 DEF Project
  <2>4. QED
    BY <2>1, <2>3
<1>6. ProbOf(v, q, o) = One
  BY <1>1, <1>5, ProjectLaws
<1>7. Collapse(v, q, o) = v
  <2> HIDE DEF o
  <2>1. Collapse(v, q, o) = [b \in Basis |-> Times(One, v[b])]
    BY <1>5, <1>6 DEF Collapse
  <2>2. \A b \in Basis : Times(One, v[b]) = v[b]
    BY <1>1, ImLaws DEF Vectors
  <2>3. v = [b \in Basis |-> v[b]]
    BY <1>1 DEF Vectors
  <2>4. QED
    BY <2>1, <2>2, <2>3
<1>8. ASSUME NEW p \in BOOLEAN PROVE ProbOf(v, q, Drawn(p)) = IF (p <=> neg) THEN One ELSE Zero
  <2>1. CASE p <=> neg
    BY <1>2, <1>6, <1>8, <2>1 DEF Drawn
  <2>2. CASE ~(p <=> neg)
    <3> DEFINE x == ProbOf(v, q, Drawn(p))
    <3>1. ProbOf(v, q, 0) \in Amps /\ ProbOf(v, q, 1) \in Amps
          /\ Plus(ProbOf(v, q, 0), ProbOf(v, q, 1)) = One
      BY <1>1, ProbHalves
    <3>2. x \in Amps /\ Plus(One, x) = One
      <4>1. Plus(ProbOf(v, q, 0), ProbOf(v, q, 1)) = Plus(ProbOf(v, q, 1), ProbOf(v, q, 0))
        BY <3>1, PlusLaws
      <4>2. (Drawn(p) = 1 /\ o = 0) \/ (Drawn(p) = 0 /\ o = 1)
        BY <1>2, <1>8, <2>2 DEF Drawn
      <4>3. QED
        BY <1>6, <3>1, <4>1, <4>2
    <3> HIDE DEF x
    <3>3. x = Zero
      <4> DEFINE n == Neg(One)
      <4>1. n \in Amps /\ One \in Amps
        BY ImConstants, ImLaws
      <4>2. Plus(One, n) = Zero /\ Plus(n, One) = Zero
        BY <4>1, PlusLaws
      <4> HIDE DEF n
      <4>3. Plus(Plus(n, One), x) = Plus(n, Plus(One, x))
        BY <3>2, <4>1, PlusLaws
      <4>4. Plus(Zero, x) = x
        BY <3>2, ImLaws
      <4>5. QED
        BY <3>2, <4>2, <4>3, <4>4
    <3>4. QED
      BY <2>2, <3>3 DEF x
  <2>3. QED
    BY <2>1, <2>2
<1>9. QED
  BY <1>2, <1>7, <1>8 DEF neg, o

-----------------------------------------------------------------------------
(* A measurement, and a gate, of both engines.                             *)

\* The tableau describes the dense vector, which has norm 1.
Describes(u, v) == Sound(u, v) /\ Norm(v) = One

LEMMA MeasureSound ==
  ASSUME NEW u, NEW v, Describes(u, v), NEW q \in Qubits, NEW r \in MeasureResults(u, q)
  PROVE  r[1] \in BOOLEAN /\ Describes(r[2], Collapse(v, q, Drawn(r[1])))
<1>1. Sound(u, v) /\ Norm(v) = One
  BY DEF Describes
<1>2. CASE reset_outcome_is_determined(u, q)
  <2>1. r[1] = DeterminedOutcome(u, q) /\ r[2] = u
    BY <1>2 DEF MeasureResults
  <2>2. DeterminedOutcome(u, q) \in BOOLEAN /\ Collapse(v, q, Drawn(DeterminedOutcome(u, q))) = v
    BY <1>1, <1>2, DeterminedMeasure
  <2>3. QED
    BY <2>1, <2>2
<1>3. CASE ~reset_outcome_is_determined(u, q)
  <2>1. PICK o \in BOOLEAN : r = <<o, Collapsed(u, q, o)>>
    BY <1>3 DEF MeasureResults
  <2>2. Sound(Collapsed(u, q, o), Collapse(v, q, Drawn(o))) /\ Norm(Collapse(v, q, Drawn(o))) = One
    BY <1>1, <1>3, FreeMeasure
  <2>3. r[1] = o /\ r[2] = Collapsed(u, q, o)
    BY <2>1
  <2>4. QED
    BY <2>2, <2>3 DEF Describes
<1>4. QED
  BY <1>2, <1>3

\* The tableau may draw the outcomes of positive probability.
LEMMA OutcomesAgree ==
  ASSUME NEW u, NEW v, Describes(u, v), NEW q \in Qubits
  PROVE  {r[1] : r \in MeasureResults(u, q)} = {o \in BOOLEAN : ProbOf(v, q, IF o THEN 1 ELSE 0) # Zero}
<1>1. Sound(u, v) /\ Norm(v) = One /\ One # Zero
  BY Root2Laws DEF Describes
<1>2. \A o : Drawn(o) = IF o THEN 1 ELSE 0
  BY DEF Drawn
<1>3. CASE reset_outcome_is_determined(u, q)
  <2> DEFINE neg == DeterminedOutcome(u, q)
  <2>1. {r[1] : r \in MeasureResults(u, q)} = {neg}
    BY <1>3 DEF MeasureResults
  <2>2. neg \in BOOLEAN /\ \A o \in BOOLEAN : ProbOf(v, q, Drawn(o)) = IF (o <=> neg) THEN One ELSE Zero
    BY <1>1, <1>3, DeterminedMeasure
  <2> HIDE DEF neg
  <2>3. \A o \in BOOLEAN : ProbOf(v, q, IF o THEN 1 ELSE 0) # Zero <=> (o <=> neg)
    BY <1>1, <1>2, <2>2
  <2>4. QED
    BY <2>1, <2>2, <2>3
<1>4. CASE ~reset_outcome_is_determined(u, q)
  <2>1. {r[1] : r \in MeasureResults(u, q)} = BOOLEAN
    <3>1. MeasureResults(u, q) = {<<o, Collapsed(u, q, o)>> : o \in BOOLEAN}
      BY <1>4 DEF MeasureResults
    <3>2. \A o : <<o, Collapsed(u, q, o)>>[1] = o
      OBVIOUS
    <3>3. \A r \in MeasureResults(u, q) : r[1] \in BOOLEAN
      BY <3>1, <3>2
    <3>4. \A o \in BOOLEAN : \E r \in MeasureResults(u, q) : r[1] = o
      BY <3>1, <3>2
    <3>5. QED
      BY <3>3, <3>4
  <2>2. \A o \in BOOLEAN : ProbOf(v, q, IF o THEN 1 ELSE 0) # Zero
    <3> TAKE o \in BOOLEAN
    <3> DEFINE d == IF o THEN 1 ELSE 0
    <3>1. d \in {0, 1}
      OBVIOUS
    <3> HIDE DEF d
    <3>2. ProbOf(v, q, d) # Zero
      BY <1>1, <1>4, <3>1, FreeHalves
    <3>3. QED
      BY <3>2 DEF d
  <2>3. QED
    BY <2>1, <2>2
<1>5. QED
  BY <1>3, <1>4

\* The kinds of gate that the kernels have a lemma for.
LEMMA WiredKinds ==
  ASSUME NEW g, Wired(g)
  PROVE  Plain(g) \/ Triple(g)
<1>1. CASE g.op \in OnThree
  <2>1. g.qs \in Seq(Qubits) /\ Len(g.qs) = 3 /\ IsInjective(g.qs)
    BY <1>1 DEF Wired
  <2>2. DOMAIN g.qs = 1..3 /\ 1 \in 1..3 /\ 2 \in 1..3 /\ 3 \in 1..3
    BY <2>1
  <2>3. g.qs[1] \in Qubits /\ g.qs[2] \in Qubits /\ g.qs[3] \in Qubits
    BY <2>1
  <2>4. g.qs[1] # g.qs[2] /\ g.qs[1] # g.qs[3] /\ g.qs[2] # g.qs[3]
    BY <2>1, <2>2 DEF IsInjective
  <2>5. QED
    BY <1>1, <2>3, <2>4 DEF Triple, OnThree
<1>2. CASE g.op \notin OnThree
  <2>1. g.op \in OneQubit \cup Controlled \cup {"Swap", "Rbs", "Id", "Barrier", "Measure"}
    BY <1>2 DEF Wired, OnOne, OnTwo, OnAny
  <2>2. QED
    BY <2>1 DEF Wired, Plain, OnOne, OnTwo
<1>3. QED
  BY <1>1, <1>2

LEMMA GateDescribes ==
  ASSUME NEW u, NEW v, Describes(u, v), NEW g, Wired(g), g.op \in Clifford
  PROVE  Describes(TabGate(u, g), ApplyGate(v, g))
<1>1. Sound(u, v) /\ Norm(v) = One /\ v \in Vectors
  BY DEF Describes, Sound
<1>2. Sound(TabGate(u, g), ApplyGate(v, g))
  BY <1>1, GateSound
<1>3. Norm(ApplyGate(v, g)) = One
  BY <1>1, WiredKinds, GateNorm
<1>4. QED
  BY <1>2, <1>3 DEF Describes

\* X on a wire after the projection on 1.
LEMMA FlippedIs ==
  ASSUME NEW v \in Vectors, NEW q \in Qubits
  PROVE  ApplyGate(Project(v, q, 1), Gate("X", <<q>>))
           = [b \in Basis |-> IF q \in b THEN Zero ELSE v[b \cup {q}]]
<1> DEFINE w == Project(v, q, 1)
           g == Gate("X", <<q>>)
<1>1. w \in Vectors
  BY ProjectLaws
<1>2. ApplyGate(w, g) = Apply1(w, q, <<Zero, One, One, Zero>>)
  BY DEF ApplyGate, Gate, OneQubit, Controlled, Matrix
<1>3. \A b \in Basis : w[b] = IF q \in b THEN v[b] ELSE Zero
  BY DEF Project
<1>4. \A b \in Basis : b \ {q} \in Basis /\ b \cup {q} \in Basis
  BY DEF Basis
<1> HIDE DEF w, g
<1>5. \A b \in Basis : w[b] \in Amps
  BY <1>1 DEF Vectors
<1>6. \A b \in Basis : Plus(Times(One, w[b \ {q}]), Times(Zero, w[b])) = w[b \ {q}]
                       /\ Plus(Times(Zero, w[b]), Times(One, w[b \cup {q}])) = w[b \cup {q}]
  <2> TAKE b \in Basis
  <2>1. w[b] \in Amps /\ w[b \ {q}] \in Amps /\ w[b \cup {q}] \in Amps
    BY <1>4, <1>5
  <2>2. Times(Zero, w[b]) = Zero /\ Times(One, w[b \ {q}]) = w[b \ {q}] /\ Times(One, w[b \cup {q}]) = w[b \cup {q}]
    BY <2>1, ImLaws
  <2>3. Plus(w[b \ {q}], Zero) = w[b \ {q}] /\ Plus(Zero, w[b \cup {q}]) = w[b \cup {q}]
    BY <2>1, ImLaws
  <2>4. QED
    BY <2>2, <2>3
<1>7. Apply1(w, q, <<Zero, One, One, Zero>>) = [b \in Basis |-> IF q \in b THEN w[b \ {q}] ELSE w[b \cup {q}]]
  BY <1>6 DEF Apply1
<1>8. \A b \in Basis : (IF q \in b THEN w[b \ {q}] ELSE w[b \cup {q}]) = (IF q \in b THEN Zero ELSE v[b \cup {q}])
  BY <1>3, <1>4
<1>9. QED
  BY <1>2, <1>7, <1>8 DEF w, g

\* A reset that the purity test lets through leads to one ray.
LEMMA PureReset ==
  ASSUME NEW v \in Vectors, Norm(v) = One, NEW q \in Qubits, ResetIsDeterministic(v, q)
  PROVE  Parallel(Project(v, q, 0), ApplyGate(Project(v, q, 1), Gate("X", <<q>>)))
<1> DEFINE S == Off(q) A == Above1(v, q) D == Below0(v, q)
           kept == Project(v, q, 0)
           flipped == ApplyGate(Project(v, q, 1), Gate("X", <<q>>))
<1>1. IsFiniteSet(S) /\ A \in [S -> Amps] /\ D \in [S -> Amps] /\ S \in SUBSET Basis /\ \A b \in S : b \cup {q} \in Basis
  BY OffLaws
<1>2. Times(Sum([x \in S |-> Norm2(A[x])], S), Sum([x \in S |-> Norm2(D[x])], S))
        = Norm2(Sum([x \in S |-> Times(Conj(A[x]), D[x])], S))
  <2>1. Norm2(Coherence(v, q)) = Times(ProbOf(v, q, 0), ProbOf(v, q, 1))
    BY PurityIs
  <2>2. ProbOf(v, q, 0) \in Amps /\ ProbOf(v, q, 1) \in Amps
    BY ProbHalves
  <2>3. Times(ProbOf(v, q, 0), ProbOf(v, q, 1)) = Times(ProbOf(v, q, 1), ProbOf(v, q, 0))
    BY <2>2, TimesLaws
  <2>4. QED
    BY <2>1, <2>3, PopulationsAre, CoherenceIs
<1> HIDE DEF S, A, D
<1>3. \A x, y \in S : Times(A[x], D[y]) = Times(A[y], D[x])
  BY <1>1, <1>2, BoundReached
<1>4. /\ \A b \in Basis : b \in S <=> q \notin b
      /\ \A b \in S : kept[b] = D[b] /\ flipped[b] = A[b]
      /\ \A b \in Basis : q \in b => kept[b] = Zero /\ flipped[b] = Zero
      /\ \A b \in Basis : kept[b] \in Amps /\ flipped[b] \in Amps
  <2>1. \A b \in Basis : b \in S <=> q \notin b
    BY DEF S, Off
  <2>2. \A b \in Basis : kept[b] = IF q \in b THEN Zero ELSE v[b]
    BY DEF Project
  <2>3. \A b \in Basis : flipped[b] = IF q \in b THEN Zero ELSE v[b \cup {q}]
    <3>1. flipped = [b \in Basis |-> IF q \in b THEN Zero ELSE v[b \cup {q}]]
      BY FlippedIs
    <3> HIDE DEF flipped
    <3>2. QED
      BY <3>1
  <2> HIDE DEF kept, flipped
  <2>4. \A b \in S : kept[b] = D[b] /\ flipped[b] = A[b]
    BY <1>1, <2>1, <2>2, <2>3 DEF S, A, D, Above1, Below0
  <2>5. \A b \in Basis : kept[b] \in Amps /\ flipped[b] \in Amps
    BY <1>1, <2>1, <2>2, <2>3, ImConstants DEF Vectors
  <2>6. QED
    BY <2>1, <2>2, <2>3, <2>4, <2>5
<1> HIDE DEF kept, flipped
<1>5. ASSUME NEW a \in Basis, NEW b \in Basis PROVE Times(kept[a], flipped[b]) = Times(kept[b], flipped[a])
  <2>1. \A x \in Amps : Times(Zero, x) = Zero /\ Times(x, Zero) = Zero
    BY ImLaws
  <2>2. CASE q \in a \/ q \in b
    BY <1>4, <2>1, <2>2
  <2>3. CASE a \in S /\ b \in S
    <3>1. kept[a] = D[a] /\ kept[b] = D[b] /\ flipped[a] = A[a] /\ flipped[b] = A[b]
      BY <1>4, <2>3
    <3>2. A[a] \in Amps /\ A[b] \in Amps /\ D[a] \in Amps /\ D[b] \in Amps
      BY <1>1, <2>3
    <3>3. Times(D[a], A[b]) = Times(A[b], D[a]) /\ Times(D[b], A[a]) = Times(A[a], D[b])
      BY <3>2, TimesLaws
    <3>4. Times(A[b], D[a]) = Times(A[a], D[b])
      BY <1>3, <2>3
    <3>5. QED
      BY <3>1, <3>3, <3>4
  <2>4. QED
    BY <1>4, <2>2, <2>3
<1>6. QED
  BY <1>5 DEF Parallel, kept, flipped

\* Where the tableau says that the outcome is determined, the purity is 1.
LEMMA DeterminedPure ==
  ASSUME NEW u, NEW v, Describes(u, v), NEW q \in Qubits, reset_outcome_is_determined(u, q)
  PROVE  ResetIsDeterministic(v, q)
<1> DEFINE neg == DeterminedOutcome(u, q) A == Above1(v, q) D == Below0(v, q) S == Off(q)
<1>1. Sound(u, v) /\ v \in Vectors /\ Norm(v) = One
  BY DEF Describes, Sound
<1>2. neg \in BOOLEAN /\ Fixes(SignedZ(q, neg), v)
  BY <1>1, DeterminedIsZ
<1>3. \A o \in BOOLEAN : ProbOf(v, q, Drawn(o)) = IF (o <=> neg) THEN One ELSE Zero
  BY <1>1, DeterminedMeasure
<1> HIDE DEF neg
<1>4. \A b \in Basis : ~(q \in b <=> neg) => v[b] = Zero
  BY <1>1, <1>2, HalfEmpty
<1>5. Times(ProbOf(v, q, 0), ProbOf(v, q, 1)) = Zero
  <2>1. ProbOf(v, q, 0) = (IF neg THEN Zero ELSE One) /\ ProbOf(v, q, 1) = IF neg THEN One ELSE Zero
    BY <1>2, <1>3 DEF Drawn
  <2>2. Times(Zero, One) = Zero /\ Times(One, Zero) = Zero
    BY ImConstants, ImLaws
  <2>3. QED
    BY <2>1, <2>2
<1>6. Coherence(v, q) = Zero
  <2> DEFINE F == [b \in S |-> Times(Conj(A[b]), D[b])]
  <2>1. IsFiniteSet(S) /\ A \in [S -> Amps] /\ D \in [S -> Amps] /\ S \in SUBSET Basis /\ \A b \in S : b \cup {q} \in Basis
    BY <1>1, OffLaws
  <2>2. \A b \in S : A[b] = Zero \/ D[b] = Zero
    <3> TAKE b \in S
    <3>1. b \in Basis /\ b \cup {q} \in Basis /\ q \notin b /\ q \in b \cup {q}
      BY <2>1 DEF Off
    <3>2. A[b] = v[b \cup {q}] /\ D[b] = v[b]
      BY DEF Above1, Below0
    <3>3. QED
      BY <1>2, <1>4, <3>1, <3>2
  <2>3. Coherence(v, q) = Sum(F, S)
    BY <1>1, CoherenceIs
  <2> HIDE DEF A, D, S
  <2>4. \A b \in S : F[b] = Zero
    <3> TAKE b \in S
    <3>1. A[b] \in Amps /\ D[b] \in Amps /\ Conj(A[b]) \in Amps /\ Conj(Zero) = Zero
      BY <2>1, RingTypes, UnitNorms
    <3>2. Times(Zero, D[b]) = Zero /\ Times(Conj(A[b]), Zero) = Zero
      BY <3>1, ImLaws
    <3>3. QED
      BY <2>2, <3>1, <3>2
  <2> HIDE DEF F
  <2>5. QED
    BY <2>1, <2>3, <2>4, SumOfZeros
<1>7. Norm2(Coherence(v, q)) = Zero
  BY <1>6, UnitNorms
<1>8. QED
  BY <1>1, <1>5, <1>7, PurityIs

-----------------------------------------------------------------------------
(* The dense vector and the tableau along a run.                           *)

DescribedInv ==
    /\ todo \in Seq(ScriptGates)
    /\ psi \in Vectors /\ Norm(psi) = One
    /\ tab # NoTableau => Describes(tab, psi)

LEMMA DescribedInit == Init => DescribedInv
<1> SUFFICES ASSUME Init PROVE DescribedInv
  OBVIOUS
<1>1. todo \in Seq(ScriptGates) /\ tab = zero_state /\ psi = ZeroState
  BY GatesAssumption DEF Init
<1>2. QED
  BY <1>1, ZeroSound, ZeroStateNorm DEF DescribedInv, Describes

LEMMA DescribedApply ==
  ASSUME DescribedInv, NEW g, Wired(g), Apply(g)
  PROVE  psi' \in Vectors /\ Norm(psi') = One /\ (tab' # NoTableau => Describes(tab', psi'))
<1>1. psi \in Vectors /\ Norm(psi) = One
  BY DEF DescribedInv
<1>2. psi' = ApplyGate(psi, g)
  BY DEF Apply
<1>3. psi' \in Vectors /\ Norm(psi') = One
  <2>1. Plain(g) \/ Triple(g)
    BY WiredKinds
  <2>2. ApplyGate(psi, g) \in Vectors /\ Norm(ApplyGate(psi, g)) = Norm(psi)
    BY <1>1, <2>1, GateNorm
  <2>3. QED
    BY <1>1, <1>2, <2>2
<1>4. ASSUME tab' # NoTableau PROVE Describes(tab', psi')
  <2>1. tab # NoTableau /\ g.op \in Clifford /\ tab' = TabGate(tab, g)
    BY <1>4 DEF Apply
  <2>2. Describes(tab, psi)
    BY <2>1 DEF DescribedInv
  <2>3. Describes(TabGate(tab, g), ApplyGate(psi, g))
    BY <2>1, <2>2, GateDescribes
  <2>4. QED
    BY <1>2, <2>1, <2>3
<1>5. QED
  BY <1>3, <1>4

LEMMA DescribedIn == ASSUME NEW u, NEW v, Describes(u, v) PROVE v \in Vectors /\ Norm(v) = One
BY DEF Describes, Sound

LEMMA DescribedNext == DescribedInv /\ [Next]_vars => DescribedInv'
<1> SUFFICES ASSUME DescribedInv, [Next]_vars PROVE DescribedInv'
  OBVIOUS
<1>1. todo \in Seq(ScriptGates) /\ (tab # NoTableau => Describes(tab, psi))
  BY DEF DescribedInv
<1>2. CASE Scripted
  <2>1. Head(todo) \in ScriptGates /\ Tail(todo) \in Seq(ScriptGates)
    BY <1>1, <1>2 DEF Scripted
  <2>2. Wired(Head(todo))
    BY <2>1, GatesAssumption
  <2>3. Apply(Head(todo)) /\ todo' = Tail(todo)
    BY <1>2 DEF Scripted
  <2>4. psi' \in Vectors /\ Norm(psi') = One /\ (tab' # NoTableau => Describes(tab', psi'))
    BY <2>2, <2>3, DescribedApply
  <2>5. QED
    BY <2>1, <2>3, <2>4 DEF DescribedInv
<1>3. CASE FreeGate
  <2>1. PICK g \in Gates : Apply(g)
    BY <1>3 DEF FreeGate
  <2>2. Wired(g)
    BY GatesAssumption
  <2>3. psi' \in Vectors /\ Norm(psi') = One /\ (tab' # NoTableau => Describes(tab', psi'))
    BY <2>1, <2>2, DescribedApply
  <2>4. todo' = todo
    BY <1>3 DEF FreeGate
  <2>5. QED
    BY <1>1, <2>3, <2>4 DEF DescribedInv
<1>4. ASSUME NEW q \in Qubits, Measure(q)
      PROVE  DescribedInv'
  <2>1. tab # NoTableau /\ todo' = todo
    BY <1>4 DEF Measure
  <2>2. PICK r \in MeasureResults(tab, q) : tab' = r[2] /\ psi' = Collapse(psi, q, Drawn(r[1]))
    BY <1>4 DEF Measure, Drawn
  <2>3. Describes(tab', psi')
    BY <1>1, <2>1, <2>2, MeasureSound
  <2>4. QED
    BY <1>1, <2>1, <2>3, DescribedIn DEF DescribedInv
<1>5. ASSUME NEW q \in Qubits, ResetShot(q)
      PROVE  DescribedInv'
  <2>1. tab # NoTableau /\ todo' = todo
    BY <1>5 DEF ResetShot
  <2> DEFINE g == Gate("X", <<q>>)
  <2>2. PICK r \in MeasureResults(tab, q) :
          IF r[1] THEN tab' = TabGate(r[2], g) /\ psi' = ApplyGate(Collapse(psi, q, Drawn(r[1])), g)
          ELSE tab' = r[2] /\ psi' = Collapse(psi, q, Drawn(r[1]))
    BY <1>5 DEF ResetShot, Drawn
  <2>3. Describes(r[2], Collapse(psi, q, Drawn(r[1])))
    BY <1>1, <2>1, MeasureSound
  <2>4. Wired(g) /\ g.op \in Clifford
    BY WiredX DEF Gate, Clifford
  <2> HIDE DEF g
  <2>5. Describes(TabGate(r[2], g), ApplyGate(Collapse(psi, q, Drawn(r[1])), g))
    BY <2>3, <2>4, GateDescribes
  <2>6. Describes(tab', psi')
    BY <2>2, <2>3, <2>5
  <2>7. QED
    BY <1>1, <2>1, <2>6, DescribedIn DEF DescribedInv
<1>6. CASE UNCHANGED vars
  BY <1>6 DEF DescribedInv, vars
<1>7. QED
  BY <1>2, <1>3, <1>4, <1>5, <1>6 DEF Next

LEMMA DescribedHolds == Spec => []DescribedInv
<1>1. Init => DescribedInv
  BY DescribedInit
<1>2. DescribedInv /\ [Next]_vars => DescribedInv'
  BY DescribedNext
<1>3. QED
  BY <1>1, <1>2, PTL DEF Spec

\* Every gate, measurement and reset leaves the dense vector with norm 1, in
\* exact arithmetic: the kernels are unitary and a collapse divides by the root
\* of the probability it drew (sim.rs apply_gate, projective_measure).
THEOREM VectorStaysNormalized == Spec => [](psi \in Vectors /\ Norm(psi) = One)
<1>1. DescribedInv => psi \in Vectors /\ Norm(psi) = One
  BY DEF DescribedInv
<1>2. QED
  BY <1>1, DescribedHolds, PTL

\* While the tableau takes part, the dense vector is the state that it
\* describes: every stabilizer, with its sign, leaves the vector as it is, after
\* gates, measurements and resets (stabilizer.rs gates, measure).
THEOREM TableauDescribesVector == Spec => [](tab # NoTableau => Stabilizes(tab, psi))
<1>1. DescribedInv => (tab # NoTableau => Stabilizes(tab, psi))
  BY DEF DescribedInv, Describes, Sound
<1>2. QED
  BY <1>1, DescribedHolds, PTL

\* A measurement on the tableau may draw exactly the outcomes to which the
\* dense vector gives a positive probability (stabilizer.rs measure, sim.rs
\* projective_measure).
THEOREM OutcomesStaySame == Spec => []SameOutcomes
<1>1. DescribedInv => SameOutcomes
  BY OutcomesAgree DEF DescribedInv, SameOutcomes
<1>2. QED
  BY <1>1, DescribedHolds, PTL

\* An analytic reset is accepted only where both outcomes lead to the same
\* state, and the tableau accepts none that the dense engine refuses (sim.rs
\* reset_is_deterministic, stabilizer.rs reset_outcome_is_determined).
THEOREM AnalyticResetStaysSound == Spec => []AnalyticResetSound
<1>1. DescribedInv => AnalyticResetSound
  <2> SUFFICES ASSUME DescribedInv, NEW q \in Qubits
               PROVE  /\ ResetIsDeterministic(psi, q)
                           => Parallel(Project(psi, q, 0), ApplyGate(Project(psi, q, 1), Gate("X", <<q>>)))
                      /\ (tab # NoTableau /\ reset_outcome_is_determined(tab, q)) => ResetIsDeterministic(psi, q)
    BY DEF AnalyticResetSound
  <2>1. psi \in Vectors /\ Norm(psi) = One /\ (tab # NoTableau => Describes(tab, psi))
    BY DEF DescribedInv
  <2>2. QED
    BY <2>1, PureReset, DeterminedPure
<1>2. QED
  BY <1>1, DescribedHolds, PTL

-----------------------------------------------------------------------------
(* The distribution that is read from the tableau.                         *)

\* A row without X part fixes nothing of the other sign.
LEMMA DiagonalVanish ==
  ASSUME NEW r \in Rows, NEW v \in Vectors, Fixes(r, v), r.x = {},
         NEW b \in Basis, ~(r.neg <=> Odd(r.z \cap b))
  PROVE  v[b] = Zero
<1>1. SymDiff(b, r.x) = b
  BY DEF SymDiff
<1>2. v[b] = Times(Ei(Exponent(r, b)), v[b])
  BY <1>1 DEF Fixes
<1>3. v[b] \in Amps /\ IsFiniteSet(r.z \cap b) /\ r.neg \in BOOLEAN
  BY RowParts DEF Vectors
<1> DEFINE k == Cardinality(r.z \cap b)
<1>4. k \in Nat /\ (Odd(r.z \cap b) <=> k % 2 = 1)
  BY <1>3, FS_CardinalityType DEF Odd
<1>5. Exponent(r, b) = 4 * k + (IF r.neg THEN 4 ELSE 0)
  <2>1. r.x \cap r.z = {}
    OBVIOUS
  <2>2. Cardinality(r.x \cap r.z) = 0
    BY <2>1, FS_EmptySet
  <2> HIDE DEF k
  <2>3. Exponent(r, b) = 2 * 0 + 4 * k + HalfTurn(r.neg)
    BY <2>2 DEF Exponent, k
  <2>4. QED
    BY <1>4, <2>3 DEF HalfTurn
<1> HIDE DEF k
<1>6. (4 * k + (IF r.neg THEN 4 ELSE 0)) % 8 = 4 % 8 /\ 4 * k + (IF r.neg THEN 4 ELSE 0) \in Int
  <2>1. CASE r.neg
    <3>1. k % 2 = 0
      BY <1>4, <2>1
    <3>2. QED
      BY <1>4, <2>1, <3>1
  <2>2. CASE ~r.neg
    <3>1. k % 2 = 1
      BY <1>3, <1>4, <2>2
    <3>2. QED
      BY <1>4, <2>2, <3>1
  <2>3. QED
    BY <2>1, <2>2
<1>7. Ei(Exponent(r, b)) = Ei(4)
  <2> DEFINE e == Exponent(r, b)
             f == 4
  <2>1. e \in Int /\ f \in Int /\ e % 8 = f % 8
    BY <1>5, <1>6
  <2> HIDE DEF e, f
  <2>2. Ei(e) = Ei(f)
    BY <2>1, EiEight
  <2>3. QED
    BY <2>2 DEF e, f
<1>8. Ei(4) = Neg(One)
  BY ImConstants DEF Ei, Neg, One, Int2Amp, QNeg
<1> DEFINE x == v[b]
<1>9. x \in Amps /\ x = Neg(x)
  BY <1>2, <1>3, <1>7, <1>8, ImLaws
<1> HIDE DEF x
<1>10. x = Zero
  BY <1>9, SelfNegative
<1>11. QED
  BY <1>10 DEF x

SignOf(neg) == IF neg THEN Neg(One) ELSE One

\* The mean of a string of Z that fixes the vector, up to a sign.
LEMMA MeanFixed ==
  ASSUME NEW r \in Rows, NEW v \in Vectors, Fixes(r, v), r.x = {}, Norm(v) = One
  PROVE  MeanZ(v, r.z) = SignOf(r.neg)
<1> DEFINE p == Squares(v)
           s == SignOf(r.neg)
<1>1. p \in [Basis -> Amps] /\ s \in Amps /\ r.neg \in BOOLEAN /\ r.z \in Basis
  BY SquaresType, ImConstants DEF SignOf, Rows, Basis
<1>2. \A c \in Basis : Times(Chi(r.z, c), p[c]) = Times(s, p[c])
  <2> TAKE c \in Basis
  <2>1. CASE r.neg <=> Odd(r.z \cap c)
    <3>1. Chi(r.z, c) = s
      BY <2>1 DEF Chi, SignOf
    <3>2. QED
      BY <3>1
  <2>2. CASE ~(r.neg <=> Odd(r.z \cap c))
    <3>1. v[c] = Zero
      BY <2>2, DiagonalVanish
    <3>2. p[c] = Zero
      BY <3>1, UnitNorms DEF Squares
    <3>3. Chi(r.z, c) \in Amps
      BY <1>1, SignLaws
    <3> HIDE DEF p, s
    <3>4. Times(Chi(r.z, c), Zero) = Zero /\ Times(s, Zero) = Zero
      BY <1>1, <3>3, ImLaws
    <3>5. QED
      BY <3>2, <3>4
  <2>3. QED
    BY <2>1, <2>2
<1>3. Weighed(v, r.z) = [c \in Basis |-> Times(s, p[c])]
  BY <1>2 DEF Weighed
<1> HIDE DEF p, s
<1>4. MeanZ(v, r.z) = Times(s, Sum(p, Basis))
  BY <1>1, <1>3, FiniteBasis, SumTimes DEF MeanZ
<1>5. Sum(p, Basis) = One
  BY DEF Norm, p
<1>6. Times(s, One) = s
  BY <1>1, ImLaws
<1>7. QED
  BY <1>4, <1>5, <1>6 DEF s

\* A string of Z that does not commute with a row that fixes the vector has
\* mean 0.
LEMMA MeanFree ==
  ASSUME NEW r \in Rows, NEW v \in Vectors, Fixes(r, v), NEW z \in Basis, Odd(z \cap r.x)
  PROVE  MeanZ(v, z) = Zero
<1> DEFINE G == Weighed(v, z)
           move == [c \in Basis |-> SymDiff(c, r.x)]
<1>1. G \in [Basis -> Amps] /\ r.x \in Basis /\ Sum(G, Basis) = MeanZ(v, z) /\ MeanZ(v, z) \in Amps
  BY MeanZType DEF Rows, Basis, MeanZ
<1>2. \A c \in Basis : SymDiff(c, r.x) \in Basis /\ SymDiff(SymDiff(c, r.x), r.x) = c
  <2> TAKE c \in Basis
  <2>1. SymDiff(c, r.x) \in Basis
    BY RowParts
  <2>2. QED
    BY <2>1 DEF SymDiff
<1>3. OneToOne(move, Basis, Basis) /\ ImageOf(move, Basis) = Basis
  <2>1. move \in [Basis -> Basis] /\ \A c \in Basis : move[c] = SymDiff(c, r.x) /\ move[move[c]] = c
    BY <1>2
  <2> HIDE DEF move
  <2>2. QED
    BY <2>1 DEF OneToOne, ImageOf
<1>4. \A c \in Basis : move[c] \in Basis /\ G[move[c]] = Times(Neg(One), G[c])
  <2> TAKE c \in Basis
  <2> DEFINE d == SymDiff(c, r.x)
             e == Exponent(r, c)
             x == v[c]
             k == Chi(z, c)
             n == Norm2(x)
  <2>1. d \in Basis /\ move[c] = d
    BY <1>2
  <2>2. v[d] = Times(Ei(e), x) /\ e \in Int /\ x \in Amps
    <3>1. e \in Nat
      BY ExponentType
    <3> HIDE DEF e
    <3>2. QED
      BY <3>1 DEF Fixes, Vectors, e
  <2>3. Chi(z, d) = Times(k, Chi(z, r.x)) /\ k \in Amps /\ Chi(z, r.x) = Neg(One)
    <3>1. Chi(z, d) = Times(k, Chi(z, r.x)) /\ k \in Amps
      BY <1>1, SignLaws
    <3>2. QED
      BY <3>1 DEF Chi
  <2> HIDE DEF e, x, k
  <2>4. Norm2(v[d]) = n /\ n \in Amps
    <3>1. Norm2(Ei(e)) = One /\ Ei(e) \in Amps
      BY <2>2, UnitNorms, EiType
    <3>2. Norm2(Times(Ei(e), x)) = Times(Norm2(Ei(e)), Norm2(x)) /\ Norm2(x) \in Amps
      BY <2>2, <3>1, NormTimes, NormLaws
    <3>3. Times(One, n) = n
      BY <3>2, ImLaws
    <3>4. QED
      BY <2>2, <3>1, <3>2, <3>3
  <2>5. G[d] = Times(Chi(z, d), Norm2(v[d])) /\ G[c] = Times(k, n)
    BY <2>1 DEF Weighed, Squares, k, x
  <2> HIDE DEF n, d
  <2>6. Times(k, Neg(One)) = Neg(k) /\ Times(Neg(k), n) = Neg(Times(k, n)) /\ Times(k, n) \in Amps
    BY <2>3, <2>4, ImLaws, TimesLaws, RingTypes
  <2>7. Times(Neg(One), Times(k, n)) = Neg(Times(k, n))
    BY <2>6, ImLaws
  <2>8. QED
    BY <2>1, <2>3, <2>4, <2>5, <2>6, <2>7
<1> HIDE DEF G, move
<1>5. Sum([c \in Basis |-> G[move[c]]], Basis) = Sum(G, Basis)
  BY <1>1, <1>3, FiniteBasis, SumMove
<1>6. Sum([c \in Basis |-> G[move[c]]], Basis) = Times(Neg(One), Sum(G, Basis))
  <2>1. [c \in Basis |-> G[move[c]]] = [c \in Basis |-> Times(Neg(One), G[c])]
    BY <1>4
  <2>2. Neg(One) \in Amps
    BY ImConstants
  <2>3. QED
    BY <1>1, <2>1, <2>2, FiniteBasis, SumTimes
<1> DEFINE s == Sum(G, Basis)
<1>7. s \in Amps /\ s = Neg(s)
  BY <1>1, <1>5, <1>6, ImLaws
<1>8. s = MeanZ(v, z)
  BY <1>1
<1> HIDE DEF s
<1>9. QED
  BY <1>7, <1>8, SelfNegative

\* The destabilizers that do not commute with a string.
Selected(u, x, z) == {k \in Qubits : anticommutes(u.destab[k], Str(x, z))}

\* A string that commutes with the stabilizers is a product of stabilizers,
\* up to a sign.
LEMMA CommutesIsProduct ==
  ASSUME NEW u, NEW v, Sound(u, v), NEW x \in SUBSET Qubits, NEW z \in SUBSET Qubits,
         \A k \in Qubits : ~anticommutes(u.stab[k], Str(x, z))
  PROVE  LET r == Product(u, Selected(u, x, z))
         IN  ProductOf(u, Selected(u, x, z), v, r) /\ r.x = x /\ r.z = z
<1> DEFINE S == Selected(u, x, z)
           r == Product(u, S)
           t == Str(x, z)
           p == row_product(r, t)
<1>1. u \in Tableaux /\ Independent(u) /\ Faithful(u) /\ v \in Vectors /\ Stabilizes(u, v)
  BY DEF Sound
<1>2. ProductOf(u, S, v, r)
  <2>1. S \in SUBSET Qubits
    BY DEF Selected
  <2>2. QED
    BY <1>1, <2>1, ProductLaws
<1>3. \A k \in Qubits : /\ u.stab[k] \in Rows /\ u.destab[k] \in Rows
                        /\ ~anticommutes(u.stab[k], t)
                        /\ anticommutes(u.destab[k], t) <=> k \in S
  BY <1>1 DEF Tableaux, Selected
<1>4. t \in Rows /\ t.x = x /\ t.z = z
  BY StrRow
<1> HIDE DEF S, r, t
<1>5. r \in Rows
  BY <1>2 DEF ProductOf
<1>6. p \in Rows /\ \A k \in Qubits : ~anticommutes(u.stab[k], p) /\ ~anticommutes(u.destab[k], p)
  BY <1>2, <1>3, <1>4, <1>5, AntiProduct DEF ProductOf
<1>7. p.x = SymDiff(r.x, x) /\ p.z = SymDiff(r.z, z)
  BY <1>4 DEF row_product
<1> HIDE DEF p
<1>8. p.x = {} /\ p.z = {}
  <2>1. p.x \in SUBSET Qubits /\ p.z \in SUBSET Qubits
    BY <1>6 DEF Rows
  <2>2. Str(p.x, p.z).x = p.x /\ Str(p.x, p.z).z = p.z
    BY <2>1, StrRow
  <2>3. \A k \in Qubits : ~anticommutes(u.stab[k], Str(p.x, p.z)) /\ ~anticommutes(u.destab[k], Str(p.x, p.z))
    BY <1>6, <2>2, AntiParts
  <2>4. QED
    BY <1>1, <2>1, <2>3 DEF Faithful
<1>9. r.x = x /\ r.z = z
  BY <1>7, <1>8 DEF SymDiff
<1>10. QED
  BY <1>2, <1>9 DEF S, r

\* The strings of Z that commute with the stabilizers, and the masks and the
\* negative masks of stabilizer_probability.
ZSet(u) == {z \in Basis : \A k \in Qubits : ~anticommutes(u.stab[k], Str({}, z))}
Masks(u) == {S \in SUBSET Qubits : Product(u, S).x = {}}
Opposes(r, b) == r.neg # Odd(r.z \cap b)
MinusMasks(u, b) == {S \in Masks(u) : Opposes(Product(u, S), b)}

LEMMA ProbabilityIs ==
  ASSUME NEW u, NEW b
  PROVE  stabilizer_probability(u, b)
           = IF \E k \in Qubits : u.stab[k].x = {} /\ Opposes(u.stab[k], b) THEN 0
             ELSE Cardinality(Masks(u)) - 2 * Cardinality(MinusMasks(u, b))
BY DEF stabilizer_probability, Masks, MinusMasks, Opposes

\* Which masks there are.
LEMMA MasksAre ==
  ASSUME NEW u, NEW v, Sound(u, v)
  PROVE  /\ IsFiniteSet(Masks(u)) /\ \A S \in Masks(u) : /\ S \in SUBSET Qubits /\ ProductOf(u, S, v, Product(u, S))
                                                         /\ Product(u, S).x = {} /\ Product(u, S).z \in ZSet(u)
                                                         /\ Selected(u, {}, Product(u, S).z) = S
         /\ \A z \in ZSet(u) : Selected(u, {}, z) \in Masks(u) /\ Product(u, Selected(u, {}, z)).z = z
<1>1. u \in Tableaux /\ Independent(u) /\ v \in Vectors /\ Stabilizes(u, v)
  BY DEF Sound
<1>2. IsFiniteSet(Masks(u))
  <2>1. IsFiniteSet(SUBSET Qubits)
    BY FiniteBasis DEF Basis
  <2>2. Masks(u) \in SUBSET (SUBSET Qubits)
    BY DEF Masks
  <2>3. QED
    BY <2>1, <2>2, FS_Subset
<1>3. ASSUME NEW S \in Masks(u)
      PROVE  /\ S \in SUBSET Qubits /\ ProductOf(u, S, v, Product(u, S))
             /\ Product(u, S).x = {} /\ Product(u, S).z \in ZSet(u)
             /\ Selected(u, {}, Product(u, S).z) = S
  <2> DEFINE r == Product(u, S)
  <2>1. S \in SUBSET Qubits /\ r.x = {}
    BY <1>3 DEF Masks
  <2>2. ProductOf(u, S, v, r)
    BY <1>1, <2>1, ProductLaws
  <2> HIDE DEF r
  <2>3. r.z \in SUBSET Qubits /\ r \in Rows
    BY <2>2 DEF ProductOf, Rows
  <2>4. Str({}, r.z).x = r.x /\ Str({}, r.z).z = r.z
    BY <2>1, <2>3, StrRow
  <2>5. \A k \in Qubits : ~anticommutes(u.stab[k], Str({}, r.z)) /\ (anticommutes(u.destab[k], Str({}, r.z)) <=> k \in S)
    BY <2>2, <2>4, AntiParts DEF ProductOf
  <2>6. r.z \in ZSet(u)
    BY <2>3, <2>5 DEF ZSet, Basis
  <2>7. Selected(u, {}, r.z) = S
    BY <2>1, <2>5 DEF Selected
  <2>8. QED
    BY <2>1, <2>2, <2>6, <2>7 DEF r
<1>4. ASSUME NEW z \in ZSet(u)
      PROVE  Selected(u, {}, z) \in Masks(u) /\ Product(u, Selected(u, {}, z)).z = z
  <2> DEFINE e == {}
  <2>1. e \in SUBSET Qubits /\ z \in SUBSET Qubits /\ \A k \in Qubits : ~anticommutes(u.stab[k], Str(e, z))
    BY <1>4 DEF ZSet, Basis
  <2> HIDE DEF e
  <2>2. Product(u, Selected(u, e, z)).x = e /\ Product(u, Selected(u, e, z)).z = z
    BY <2>1, CommutesIsProduct
  <2>3. Selected(u, e, z) \in SUBSET Qubits
    BY DEF Selected
  <2>4. QED
    BY <2>2, <2>3 DEF Masks, e
<1>5. QED
  BY <1>2, <1>3, <1>4

\* The terms of the inverse transform of the means.
LEMMA TermsAre ==
  ASSUME NEW u, NEW v, Describes(u, v), NEW b \in Basis
  PROVE  /\ \A z \in Basis : z \notin ZSet(u) => Inverted(v, b)[z] = Zero
         /\ \A S \in Masks(u) : /\ Product(u, S).z \in Basis
                                /\ Inverted(v, b)[Product(u, S).z] = IF S \in MinusMasks(u, b) THEN Neg(One) ELSE One
<1>1. Sound(u, v) /\ Norm(v) = One /\ u \in Tableaux /\ v \in Vectors /\ Stabilizes(u, v)
  BY DEF Describes, Sound
<1>2. \A z \in Basis : Inverted(v, b)[z] = Times(Chi(z, b), MeanZ(v, z)) /\ Chi(z, b) \in Amps
  BY SignLaws DEF Inverted
<1>3. ASSUME NEW z \in Basis, z \notin ZSet(u) PROVE Inverted(v, b)[z] = Zero
  <2>1. PICK k \in Qubits : anticommutes(u.stab[k], Str({}, z))
    BY <1>3 DEF ZSet
  <2> DEFINE r == u.stab[k]
  <2>2. r \in Rows /\ Fixes(r, v)
    BY <1>1 DEF Tableaux, Stabilizes
  <2>3. Odd(z \cap r.x)
    <3>1. {} \in SUBSET Qubits /\ z \in SUBSET Qubits
      BY DEF Basis
    <3>2. Str({}, z).x = {} /\ Str({}, z).z = z
      BY <3>1, StrRow
    <3>3. SymDiff(r.x \cap z, r.z \cap {}) = z \cap r.x
      BY DEF SymDiff
    <3> HIDE DEF r
    <3>4. QED
      BY <2>1, <3>2, <3>3 DEF anticommutes, r
  <2> HIDE DEF r
  <2>4. MeanZ(v, z) = Zero
    BY <1>1, <2>2, <2>3, MeanFree
  <2>5. QED
    BY <1>2, <2>4, ImLaws
<1>4. ASSUME NEW S \in Masks(u)
      PROVE  /\ Product(u, S).z \in Basis
             /\ Inverted(v, b)[Product(u, S).z] = IF S \in MinusMasks(u, b) THEN Neg(One) ELSE One
  <2> DEFINE r == Product(u, S)
  <2>1. ProductOf(u, S, v, r) /\ r.x = {}
    BY <1>1, <1>4, MasksAre
  <2>2. S \in MinusMasks(u, b) <=> Opposes(r, b)
    BY <1>4 DEF MinusMasks
  <2> HIDE DEF r
  <2>3. r \in Rows /\ Fixes(r, v) /\ r.z \in Basis /\ r.neg \in BOOLEAN
    BY <2>1 DEF ProductOf, Rows, Basis
  <2>4. MeanZ(v, r.z) = SignOf(r.neg)
    BY <1>1, <2>1, <2>3, MeanFixed
  <2>5. Inverted(v, b)[r.z] = Times(Chi(r.z, b), SignOf(r.neg))
    BY <1>2, <2>3, <2>4
  <2>6. /\ Times(One, One) = One /\ Times(One, Neg(One)) = Neg(One)
        /\ Times(Neg(One), One) = Neg(One) /\ Times(Neg(One), Neg(One)) = One
    BY ImConstants, ImLaws
  <2>7. Odd(r.z \cap b) \in BOOLEAN
    BY DEF Odd
  <2>8. Opposes(r, b) <=> ~(r.neg <=> Odd(r.z \cap b))
    BY <2>3, <2>7 DEF Opposes
  <2>9. Inverted(v, b)[r.z] = IF S \in MinusMasks(u, b) THEN Neg(One) ELSE One
    BY <2>2, <2>3, <2>5, <2>6, <2>8 DEF Chi, SignOf
  <2>10. QED
    BY <2>3, <2>9 DEF r
<1>5. QED
  BY <1>3, <1>4

\* The sum over the masks.
LEMMA MaskSum ==
  ASSUME NEW u, NEW v, Describes(u, v), NEW b \in Basis
  PROVE  Sum(Inverted(v, b), Basis) = Int2Amp(Cardinality(Masks(u)) - 2 * Cardinality(MinusMasks(u, b)))
<1> DEFINE F == Inverted(v, b)
           A == Masks(u)
           M == MinusMasks(u, b)
           Z == ZSet(u)
           move == [S \in A |-> Product(u, S).z]
           R == Basis \ Z
<1>1. Sound(u, v) /\ v \in Vectors
  BY DEF Describes, Sound
<1>2. F \in [Basis -> Amps]
  BY <1>1, Inversion
<1>3. /\ IsFiniteSet(A) /\ \A S \in A : Product(u, S).z \in Z /\ Selected(u, {}, Product(u, S).z) = S
      /\ \A z \in Z : Selected(u, {}, z) \in A /\ Product(u, Selected(u, {}, z)).z = z
  BY <1>1, MasksAre
<1>4. Z \in SUBSET Basis /\ M \in SUBSET A
  BY DEF ZSet, MinusMasks
<1>5. /\ \A z \in R : F[z] = Zero
      /\ \A S \in A : F[Product(u, S).z] = IF S \in M THEN Neg(One) ELSE One
  BY TermsAre
<1> HIDE DEF F, A, M, Z
<1>6. OneToOne(move, A, Basis) /\ ImageOf(move, A) = Z
  <2>1. move \in [A -> Basis] /\ \A S \in A : move[S] = Product(u, S).z
    BY <1>3, <1>4
  <2> HIDE DEF move
  <2>2. ASSUME NEW S \in A, NEW T \in A, move[S] = move[T] PROVE S = T
    BY <1>3, <2>1, <2>2
  <2>3. \A S \in A : move[S] \in Z
    BY <1>3, <2>1
  <2>4. \A z \in Z : \E S \in A : z = move[S]
    BY <1>3, <2>1
  <2>5. QED
    BY <2>1, <2>2, <2>3, <2>4 DEF OneToOne, ImageOf
<1>7. [S \in A |-> F[move[S]]] = SignsOn(A, M)
  <2>1. \A S \in A : F[move[S]] = IF S \in M THEN Neg(One) ELSE One
    BY <1>5
  <2> HIDE DEF move
  <2>2. QED
    BY <2>1 DEF SignsOn
<1>8. Sum([S \in A |-> F[move[S]]], A) = Sum(F, Z)
  <2> HIDE DEF move
  <2>1. QED
    BY <1>2, <1>3, <1>6, FiniteBasis, SumMove
<1>9. Sum(F, R) = Zero
  <2>1. IsFiniteSet(R)
    BY FiniteBasis, FS_Subset
  <2> HIDE DEF R
  <2>2. QED
    BY <1>5, <2>1, SumOfZeros
<1>10. Sum(F, Basis) = Plus(Sum(F, Z), Sum(F, R)) /\ Sum(F, Z) \in Amps
  BY <1>2, <1>4, FiniteBasis, SumUnion, SumLaws
<1>11. Plus(Sum(F, Z), Zero) = Sum(F, Z)
  BY <1>10, ImLaws
<1>12. Sum(SignsOn(A, M), A) = Int2Amp(Cardinality(A) - 2 * Cardinality(M))
  BY <1>3, <1>4, SumOfSigns
<1>13. QED
  BY <1>7, <1>8, <1>9, <1>10, <1>11, <1>12 DEF F, A, M

\* The exact distribution of the tableau is that of the vector.
LEMMA ProbabilitiesAgree ==
  ASSUME NEW u, NEW v, Describes(u, v), NEW b \in Basis
  PROVE  Dyadic(stabilizer_probability(u, b), N) = Prob(v, b)
<1>1. Sound(u, v) /\ u \in Tableaux /\ v \in Vectors /\ Stabilizes(u, v) /\ N \in Nat
  BY WidthAssumption DEF Describes, Sound
<1> DEFINE n == stabilizer_probability(u, b)
           m == Cardinality(Masks(u)) - 2 * Cardinality(MinusMasks(u, b))
<1>2. m \in Int
  <2>1. IsFiniteSet(Masks(u)) /\ MinusMasks(u, b) \in SUBSET Masks(u)
    BY <1>1, MasksAre DEF MinusMasks
  <2>2. IsFiniteSet(MinusMasks(u, b))
    BY <2>1, FS_Subset
  <2>3. Cardinality(Masks(u)) \in Nat /\ Cardinality(MinusMasks(u, b)) \in Nat
    BY <2>1, <2>2, FS_CardinalityType
  <2>4. QED
    BY <2>3
<1>3. Times(Dyadic(1, N), Int2Amp(m)) = Prob(v, b)
  <2>1. Sum(Inverted(v, b), Basis) = Int2Amp(m)
    BY MaskSum
  <2>2. Squares(v)[b] = Prob(v, b)
    BY DEF Squares, Prob
  <2> HIDE DEF m
  <2>3. QED
    BY <1>1, <2>1, <2>2, Inversion
<1>4. \A k \in Int : Times(Dyadic(1, N), Int2Amp(k)) = Dyadic(k, N)
  BY <1>1, DyadicTimes
<1>5. CASE \E k \in Qubits : u.stab[k].x = {} /\ Opposes(u.stab[k], b)
  <2>1. PICK k \in Qubits : u.stab[k].x = {} /\ Opposes(u.stab[k], b)
    BY <1>5
  <2> DEFINE r == u.stab[k]
  <2>2. r \in Rows /\ Fixes(r, v) /\ r.x = {} /\ Opposes(r, b)
    BY <1>1, <2>1 DEF Tableaux, Stabilizes
  <2> HIDE DEF r
  <2>3. ~(r.neg <=> Odd(r.z \cap b))
    BY <2>2 DEF Opposes, Rows, Odd
  <2>4. v[b] = Zero
    BY <1>1, <2>2, <2>3, DiagonalVanish
  <2>5. Prob(v, b) = Zero
    BY <2>4, UnitNorms DEF Prob
  <2>6. n = 0
    BY <1>5, ProbabilityIs
  <2>7. Dyadic(0, N) = Zero
    <3> DEFINE o == 0
               one == 1
    <3>1. Times(Dyadic(1, N), Int2Amp(o)) = Dyadic(o, N)
      BY <1>4
    <3>2. Int2Amp(o) = Zero
      BY DEF Zero
    <3>3. Dyadic(one, N) \in Amps
      <4>1. one \in Int
        OBVIOUS
      <4> HIDE DEF one
      <4>2. QED
        BY <1>1, <4>1, DyadicTimes
    <3>4. Times(Dyadic(one, N), Zero) = Zero
      <4> HIDE DEF one
      <4>1. QED
        BY <3>3, ImLaws
    <3>5. QED
      BY <3>1, <3>2, <3>4
  <2>8. QED
    BY <2>5, <2>6, <2>7
<1>6. CASE ~\E k \in Qubits : u.stab[k].x = {} /\ Opposes(u.stab[k], b)
  <2>1. n = m
    BY <1>6, ProbabilityIs
  <2> HIDE DEF n, m
  <2>2. Dyadic(m, N) = Prob(v, b)
    BY <1>2, <1>3, <1>4
  <2>3. QED
    BY <2>1, <2>2 DEF n
<1>7. QED
  BY <1>5, <1>6

\* The exact distribution that the tableau answers with is that of the dense
\* vector, mid-circuit measurements and resets included (sim.rs
\* stabilizer_probability).
THEOREM ProbabilitiesStaySame == Spec => []SameProbabilities
<1>1. DescribedInv => SameProbabilities
  BY ProbabilitiesAgree DEF DescribedInv, SameProbabilities
<1>2. QED
  BY <1>1, DescribedHolds, PTL

-----------------------------------------------------------------------------
(* The mean of any string.                                                 *)

MeanTerms(v, r) == [b \in Basis |-> Times(Times(Conj(v[SymDiff(b, r.x)]), Ei(Exponent(r, b))), v[b])]
MeanOf(v, r) == Sum(MeanTerms(v, r), Basis)

\* The phase of the dense engine and that of a row are the same.
LEMMA PhasesAgree ==
  ASSUME NEW x \in SUBSET Qubits, NEW z \in SUBSET Qubits, NEW b \in Basis
  PROVE  PauliPhase(x, z, b) = Ei(Exponent(Str(x, z), b))
<1> DEFINE k1 == Cardinality((z \ x) \cap b)
           k2 == Cardinality((x \cap z) \ b)
           k3 == Cardinality(x \cap z \cap b)
<1>1. IsFiniteSet((z \ x) \cap b) /\ IsFiniteSet((x \cap z) \ b) /\ IsFiniteSet(x \cap z \cap b)
  <2>1. IsFiniteSet(x) /\ IsFiniteSet(z)
    BY StrRow, RowParts, BasisFinite DEF Basis
  <2>2. (z \ x) \cap b \in SUBSET z /\ (x \cap z) \ b \in SUBSET z /\ x \cap z \cap b \in SUBSET z
    OBVIOUS
  <2>3. QED
    BY <2>1, <2>2, FS_Subset
<1>2. k1 \in Nat /\ k2 \in Nat /\ k3 \in Nat
  BY <1>1, FS_CardinalityType
<1>3. Cardinality(x \cap z) = k2 + k3
  <2>1. x \cap z = ((x \cap z) \ b) \cup (x \cap z \cap b)
    OBVIOUS
  <2>2. ((x \cap z) \ b) \cap (x \cap z \cap b) = {}
    OBVIOUS
  <2>3. QED
    BY <1>1, <2>1, <2>2, FS_Union, FS_EmptySet, <1>2
<1>4. Cardinality(z \cap b) = k1 + k3
  <2>1. z \cap b = ((z \ x) \cap b) \cup (x \cap z \cap b)
    OBVIOUS
  <2>2. ((z \ x) \cap b) \cap (x \cap z \cap b) = {}
    OBVIOUS
  <2>3. QED
    BY <1>1, <2>1, <2>2, FS_Union, FS_EmptySet, <1>2
<1>5. Exponent(Str(x, z), b) = 2 * (k2 + k3) + 4 * (k1 + k3) + 0
  <2>1. HalfTurn(FALSE) = 0
    BY DEF HalfTurn
  <2>2. QED
    BY <1>3, <1>4, <2>1, StrRow DEF Exponent
<1>6. PauliPhase(x, z, b) = Ei(4 * k1 + 2 * k2 + 6 * k3)
  BY DEF PauliPhase
<1> HIDE DEF k1, k2, k3
<1>7. 2 * (k2 + k3) + 4 * (k1 + k3) + 0 = 4 * k1 + 2 * k2 + 6 * k3
  BY <1>2
<1>8. QED
  BY <1>5, <1>6, <1>7

LEMMA MeanType ==
  ASSUME NEW v \in Vectors, NEW r \in Rows
  PROVE  MeanTerms(v, r) \in [Basis -> Amps] /\ MeanOf(v, r) \in Amps
<1>1. \A b \in Basis : Times(Times(Conj(v[SymDiff(b, r.x)]), Ei(Exponent(r, b))), v[b]) \in Amps
  <2> TAKE b \in Basis
  <2>1. v[SymDiff(b, r.x)] \in Amps /\ v[b] \in Amps /\ Ei(Exponent(r, b)) \in Amps
    BY RowParts, ExponentType DEF Vectors
  <2>2. QED
    BY <2>1, RingTypes
<1>2. MeanTerms(v, r) \in [Basis -> Amps]
  BY <1>1 DEF MeanTerms
<1>3. QED
  BY <1>2, FiniteBasis, SumLaws DEF MeanOf

LEMMA MeanIs ==
  ASSUME NEW v \in Vectors, NEW x \in SUBSET Qubits, NEW z \in SUBSET Qubits
  PROVE  ExpectationPauli(v, x, z) = MeanOf(v, Str(x, z))
<1> DEFINE F == MeanTerms(v, Str(x, z))
           Term(b) == Times(Times(Conj(v[SymDiff(b, x)]), PauliPhase(x, z, b)), v[b])
           iter[t \in SUBSET Basis] ==
             IF t = {} THEN Zero
             ELSE Plus(Term(CHOOSE b \in t : TRUE), iter[t \ {CHOOSE b \in t : TRUE}])
<1>1. ExpectationPauli(v, x, z) = iter[Basis]
  BY DEF ExpectationPauli, SumOver, MapThenFoldSet
<1>2. \A b \in Basis : F[b] \in Amps /\ F[b] = Term(b)
  <2>1. Str(x, z) \in Rows /\ Str(x, z).x = x
    BY StrRow
  <2>2. F \in [Basis -> Amps]
    BY <2>1, MeanType
  <2>3. \A b \in Basis : F[b] = Term(b)
    BY <2>1, PhasesAgree DEF MeanTerms
  <2>4. QED
    BY <2>2, <2>3
<1>3. \A t \in SUBSET Basis : t # {} => F[CHOOSE b \in t : TRUE] = Term(CHOOSE b \in t : TRUE)
  BY <1>2
<1>4. IsFiniteSet(Basis)
  BY FiniteBasis
<1> HIDE DEF F, Term
<1>5. \E f : f = [t \in SUBSET Basis |->
                    IF t = {} THEN Zero
                    ELSE Plus(Term(CHOOSE b \in t : TRUE), f[t \ {CHOOSE b \in t : TRUE}])]
  <2> HIDE DEF iter
  <2>1. PICK f : Adds(f, F, Basis)
    BY <1>2, <1>4, SumSolves
  <2>2. f = [t \in SUBSET Basis |->
                    IF t = {} THEN Zero ELSE Plus(Term(CHOOSE b \in t : TRUE), f[t \ {CHOOSE b \in t : TRUE}])]
    BY <1>3, <2>1 DEF Adds
  <2>3. QED
    BY <2>2
<1>6. iter = [t \in SUBSET Basis |->
                IF t = {} THEN Zero
                ELSE Plus(Term(CHOOSE b \in t : TRUE), iter[t \ {CHOOSE b \in t : TRUE}])]
  BY <1>5
<1> HIDE DEF iter
<1>7. Adds(iter, F, Basis)
  BY <1>3, <1>6 DEF Adds
<1>8. iter[Basis] = Sum(F, Basis)
  BY <1>2, <1>4, <1>7, SolvedSum
<1>9. QED
  BY <1>1, <1>8 DEF F, MeanOf

\* The phase of a row, with the sign taken out.
LEMMA SignedPhase ==
  ASSUME NEW r \in Rows, NEW b \in Basis
  PROVE  Ei(Exponent(r, b)) = Times(SignOf(r.neg), Ei(Exponent(Str(r.x, r.z), b)))
<1> DEFINE s == Str(r.x, r.z)
           e == Exponent(s, b)
           h == 4
<1>1. s \in Rows /\ s.x = r.x /\ s.z = r.z /\ s.neg = FALSE
  BY StrRow DEF Rows
<1>2. e \in Nat /\ Ei(e) \in Amps
  BY <1>1, ExponentType
<1>3. CASE r.neg
  <2>1. Exponent(r, b) = e + 4
    <3>1. Exponent(r, b) = 2 * Cardinality(r.x \cap r.z) + 4 * Cardinality(r.z \cap b) + 4
      BY <1>3 DEF Exponent, HalfTurn
    <3>2. e = 2 * Cardinality(r.x \cap r.z) + 4 * Cardinality(r.z \cap b) + 0
      BY <1>1 DEF Exponent, HalfTurn
    <3>3. Cardinality(r.x \cap r.z) \in Nat /\ Cardinality(r.z \cap b) \in Nat
      BY RowParts, FS_CardinalityType
    <3> HIDE DEF e
    <3>4. QED
      BY <3>1, <3>2, <3>3
  <2>2. Ei(4) = Neg(One)
    BY ImConstants DEF Ei, Neg, One, Int2Amp, QNeg
  <2> HIDE DEF e
  <2>3. Times(Ei(h), Ei(e)) = Ei(h + e)
    <3>1. h \in Int /\ e \in Int
      BY <1>2
    <3> HIDE DEF h
    <3>2. QED
      BY <3>1, EiTimes
  <2>4. h + e = e + 4
    BY <1>2
  <2>5. QED
    BY <1>3, <2>1, <2>2, <2>3, <2>4 DEF SignOf, e
<1>4. CASE ~r.neg
  <2>1. s = r
    BY <1>1, <1>4 DEF Rows, Str
  <2>2. Times(One, Ei(e)) = Ei(e)
    BY <1>2, ImLaws
  <2>3. QED
    BY <1>4, <2>1, <2>2 DEF SignOf
<1>5. QED
  BY <1>3, <1>4

\* The mean of a string that fixes the vector, up to a sign.
LEMMA SignedMean ==
  ASSUME NEW r \in Rows, NEW v \in Vectors, Fixes(r, v), Norm(v) = One
  PROVE  MeanOf(v, Str(r.x, r.z)) = SignOf(r.neg)
<1> DEFINE t == Str(r.x, r.z)
           s == SignOf(r.neg)
           p == Squares(v)
           move == [b \in Basis |-> SymDiff(b, r.x)]
           M == [b \in Basis |-> p[move[b]]]
<1>1. t \in Rows /\ t.x = r.x /\ s \in Amps /\ Times(s, s) = One /\ p \in [Basis -> Amps] /\ r.x \in Basis
  <2>1. Times(One, One) = One /\ Times(Neg(One), Neg(One)) = Neg(Neg(One)) /\ Neg(Neg(One)) = One
    BY ImLaws, ImConstants
  <2>2. QED
    BY <2>1, StrRow, SquaresType, ImConstants DEF SignOf, Rows, Basis
<1>2. \A b \in Basis : SymDiff(b, r.x) \in Basis /\ SymDiff(SymDiff(b, r.x), r.x) = b
  <2> TAKE b \in Basis
  <2>1. SymDiff(b, r.x) \in Basis
    BY RowParts
  <2>2. QED
    BY <2>1 DEF SymDiff
<1>3. OneToOne(move, Basis, Basis) /\ ImageOf(move, Basis) = Basis
  <2>1. move \in [Basis -> Basis] /\ \A c \in Basis : move[c] = SymDiff(c, r.x) /\ move[move[c]] = c
    BY <1>2
  <2> HIDE DEF move
  <2>2. QED
    BY <2>1 DEF OneToOne, ImageOf
<1>4. \A b \in Basis : MeanTerms(v, t)[b] = Times(s, M[b])
  <2> TAKE b \in Basis
  <2> DEFINE d == SymDiff(b, r.x)
             a == Ei(Exponent(t, b))
             w == v[d]
             x == v[b]
  <2>1. d \in Basis /\ w \in Amps /\ x \in Amps /\ a \in Amps /\ Conj(w) \in Amps
    BY <1>1, <1>2, ExponentType, RingTypes DEF Vectors
  <2>2. w = Times(Times(s, a), x)
    BY SignedPhase DEF Fixes
  <2>3. MeanTerms(v, t)[b] = Times(Times(Conj(w), a), x)
    BY <1>1 DEF MeanTerms
  <2>4. M[b] = Times(w, Conj(w))
    BY <2>1 DEF Squares, Norm2
  <2> HIDE DEF d, a, w, x, s, M
  <2>5. Times(a, x) = Times(s, w)
    <3>1. w = Times(s, Times(a, x)) /\ Times(a, x) \in Amps
      BY <1>1, <2>1, <2>2, TimesLaws, RingTypes
    <3> DEFINE y == Times(a, x)
    <3>2. y \in Amps /\ w = Times(s, y)
      BY <3>1
    <3> HIDE DEF y
    <3>3. Times(s, Times(s, y)) = Times(Times(s, s), y)
      BY <1>1, <3>2, TimesLaws
    <3>4. Times(s, w) = y
      BY <1>1, <3>2, <3>3, ImLaws
    <3>5. QED
      BY <3>4 DEF y
  <2>6. Times(Times(Conj(w), a), x) = Times(Conj(w), Times(s, w))
    BY <2>1, <2>5, TimesLaws
  <2>7. Times(Conj(w), Times(s, w)) = Times(s, Times(Conj(w), w)) /\ Times(Conj(w), w) = Times(w, Conj(w))
    BY <1>1, <2>1, Past, TimesLaws
  <2>8. QED
    BY <2>3, <2>4, <2>6, <2>7
<1>5. M \in [Basis -> Amps] /\ Sum(M, Basis) = Sum(p, Basis)
  <2>1. M \in [Basis -> Amps]
    BY <1>1, <1>2
  <2> HIDE DEF move, p
  <2>2. Sum(M, Basis) = Sum(p, ImageOf(move, Basis))
    BY <1>1, <1>3, FiniteBasis, SumMove
  <2>3. QED
    BY <1>3, <2>1, <2>2
<1> HIDE DEF M, move
<1>6. MeanTerms(v, t) = [b \in Basis |-> Times(s, M[b])]
  <2>1. MeanTerms(v, t) = [b \in Basis |-> MeanTerms(v, t)[b]]
    BY DEF MeanTerms
  <2>2. QED
    BY <1>4, <2>1
<1> HIDE DEF t, s
<1>7. MeanOf(v, t) = Times(s, Sum(M, Basis))
  BY <1>1, <1>5, <1>6, FiniteBasis, SumTimes DEF MeanOf
<1>8. Sum(p, Basis) = One
  BY DEF Norm, p
<1>9. Times(s, One) = s
  BY <1>1, ImLaws
<1>10. QED
  BY <1>5, <1>7, <1>8, <1>9 DEF s, t

\* The phase of a row elsewhere.
LEMMA PhaseMoved ==
  ASSUME NEW r \in Rows, NEW b \in Basis, NEW c \in Basis
  PROVE  /\ Chi(r.z, c) \in Amps /\ SymDiff(b, c) \in Basis
         /\ Ei(Exponent(r, SymDiff(b, c))) = Times(Chi(r.z, c), Ei(Exponent(r, b)))
<1> DEFINE d == SymDiff(b, c)
           kb == Cardinality(r.z \cap b)
           kc == Cardinality(r.z \cap c)
           kd == Cardinality(r.z \cap d)
           m == 2 * Cardinality(r.x \cap r.z) + HalfTurn(r.neg)
           eb == Exponent(r, b)
           ed == Exponent(r, d)
           h == 4
<1>1. Chi(r.z, c) \in Amps /\ d \in Basis /\ r.z \in Basis
  BY RowParts, SignLaws
<1>2. IsFiniteSet(r.z \cap b) /\ IsFiniteSet(r.z \cap c) /\ IsFiniteSet(r.z \cap d) /\ IsFiniteSet(r.x \cap r.z) /\ r.neg \in BOOLEAN
  BY <1>1, RowParts
<1>3. kb \in Nat /\ kc \in Nat /\ kd \in Nat /\ m \in Nat
  BY <1>2, FS_CardinalityType DEF HalfTurn
<1>4. eb = m + 4 * kb /\ ed = m + 4 * kd
  <2>1. Cardinality(r.x \cap r.z) \in Nat /\ HalfTurn(r.neg) \in Nat
    BY <1>2, FS_CardinalityType DEF HalfTurn
  <2>2. QED
    BY <1>3, <2>1 DEF Exponent
<1>5. kd % 2 = (kb + kc) % 2
  <2>1. r.z \cap d = SymDiff(r.z \cap b, r.z \cap c)
    BY DEF SymDiff
  <2>2. Odd(r.z \cap d) <=> ~(Odd(r.z \cap b) <=> Odd(r.z \cap c))
    BY <1>2, <2>1, OddSymDiff
  <2>3. (kd % 2 = 1) <=> ~((kb % 2 = 1) <=> (kc % 2 = 1))
    BY <2>2 DEF Odd
  <2> HIDE DEF kb, kc, kd
  <2>4. QED
    BY <1>3, <2>3
<1> HIDE DEF kb, kd, m, eb, ed
<1>6. CASE Odd(r.z \cap c)
  <2>1. kc % 2 = 1
    BY <1>6 DEF Odd
  <2> HIDE DEF kc
  <2>2. ed \in Int /\ eb \in Int /\ h + eb \in Int /\ ed % 8 = (h + eb) % 8
    BY <1>3, <1>4, <1>5, <2>1
  <2>3. Ei(4) = Neg(One)
    BY ImConstants DEF Ei, Neg, One, Int2Amp, QNeg
  <2>4. Times(Ei(h), Ei(eb)) = Ei(h + eb)
    <3>1. h \in Int /\ eb \in Int
      BY <2>2
    <3> HIDE DEF h
    <3>2. QED
      BY <3>1, EiTimes
  <2>5. Ei(ed) = Ei(h + eb)
    <3> DEFINE hb == h + eb
    <3>1. hb \in Int /\ ed \in Int /\ ed % 8 = hb % 8
      BY <2>2
    <3> HIDE DEF hb
    <3>2. Ei(ed) = Ei(hb)
      BY <3>1, EiEight
    <3>3. QED
      BY <3>2 DEF hb
  <2>6. Chi(r.z, c) = Neg(One)
    BY <1>6 DEF Chi
  <2>7. QED
    BY <1>1, <2>3, <2>4, <2>5, <2>6 DEF eb, ed
<1>7. CASE ~Odd(r.z \cap c)
  <2>1. kc % 2 = 0
    <3>1. ~(kc % 2 = 1)
      BY <1>7 DEF Odd
    <3> HIDE DEF kc
    <3>2. QED
      BY <1>3, <3>1
  <2> HIDE DEF kc
  <2>2. ed \in Int /\ eb \in Int /\ ed % 8 = eb % 8
    BY <1>3, <1>4, <1>5, <2>1
  <2>3. Ei(ed) = Ei(eb)
    BY <2>2, EiEight
  <2>4. Chi(r.z, c) = One /\ Times(One, Ei(eb)) = Ei(eb)
    <3>1. Ei(eb) \in Amps
      BY ExponentType DEF eb
    <3>2. QED
      BY <1>7, <3>1, ImLaws DEF Chi
  <2>5. QED
    BY <1>1, <2>3, <2>4 DEF eb, ed
<1>8. QED
  BY <1>6, <1>7

\* A string that anticommutes with one that fixes the vector has mean 0.
LEMMA OpposedMean ==
  ASSUME NEW g \in Rows, NEW v \in Vectors, Fixes(g, v), NEW t \in Rows, anticommutes(g, t)
  PROVE  MeanOf(v, t) = Zero
<1> DEFINE F == MeanTerms(v, t)
           move == [b \in Basis |-> SymDiff(b, g.x)]
           c1 == Chi(g.z, t.x)
           c2 == Chi(t.z, g.x)
<1>1. F \in [Basis -> Amps] /\ g.x \in Basis /\ t.x \in Basis
  BY MeanType, RowParts DEF Rows, Basis
<1>2. \A b \in Basis : SymDiff(b, g.x) \in Basis /\ SymDiff(SymDiff(b, g.x), g.x) = b
  <2> TAKE b \in Basis
  <2>1. SymDiff(b, g.x) \in Basis
    BY RowParts
  <2>2. QED
    BY <2>1 DEF SymDiff
<1>3. OneToOne(move, Basis, Basis) /\ ImageOf(move, Basis) = Basis
  <2>1. move \in [Basis -> Basis] /\ \A c \in Basis : move[c] = SymDiff(c, g.x) /\ move[move[c]] = c
    BY <1>2
  <2> HIDE DEF move
  <2>2. QED
    BY <2>1 DEF OneToOne, ImageOf
<1>4. c1 \in Amps /\ c2 \in Amps /\ Conj(c1) = c1 /\ Times(c1, c2) = Neg(One)
  <2>1. ~(Odd(g.z \cap t.x) <=> Odd(t.z \cap g.x))
    <3>1. IsFiniteSet(g.x \cap t.z) /\ IsFiniteSet(g.z \cap t.x) /\ t.z \cap g.x = g.x \cap t.z
      BY <1>1, RowParts
    <3>2. Odd(SymDiff(g.x \cap t.z, g.z \cap t.x))
      BY DEF anticommutes
    <3>3. QED
      BY <3>1, <3>2, OddSymDiff
  <2>2. Conj(One) = One /\ Conj(Neg(One)) = Neg(Conj(One))
    BY UnitNorms, ConjLaws, ImConstants
  <2>3. Times(One, Neg(One)) = Neg(One) /\ Times(Neg(One), One) = Neg(One)
    BY ImLaws, ImConstants
  <2>4. QED
    BY <2>1, <2>2, <2>3, ImConstants DEF Chi
<1>5. \A b \in Basis : move[b] \in Basis /\ F[move[b]] = Times(Neg(One), F[b])
  <2> TAKE b \in Basis
  <2> DEFINE d == SymDiff(b, g.x)
             bt == SymDiff(b, t.x)
             dt == SymDiff(d, t.x)
             eb == Ei(Exponent(g, b))
             et == Ei(Exponent(t, b))
             x == v[b]
             y == v[bt]
  <2>1. d \in Basis /\ bt \in Basis /\ dt \in Basis /\ move[b] = d /\ dt = SymDiff(bt, g.x)
    <3>1. d \in Basis /\ bt \in Basis /\ move[b] = d
      BY <1>2, RowParts
    <3>2. dt = SymDiff(bt, g.x)
      BY DEF SymDiff
    <3> HIDE DEF d, bt
    <3>3. dt \in Basis
      BY <3>1, RowParts
    <3>4. QED
      BY <3>1, <3>2, <3>3
  <2>2. v[d] = Times(eb, x) /\ eb \in Amps /\ et \in Amps /\ x \in Amps /\ y \in Amps /\ Times(eb, Conj(eb)) = One
    <3>1. v[d] = Times(eb, x)
      BY DEF Fixes
    <3>2. Exponent(g, b) \in Int /\ eb \in Amps /\ et \in Amps
      BY ExponentType
    <3>3. Norm2(eb) = One
      BY <3>2, UnitNorms
    <3> HIDE DEF eb, et
    <3>4. QED
      BY <2>1, <3>1, <3>2, <3>3 DEF Vectors, Norm2
  <2>3. v[dt] = Times(Times(c1, eb), y)
    <3>1. Ei(Exponent(g, SymDiff(b, t.x))) = Times(c1, eb)
      BY <1>1, PhaseMoved
    <3>2. v[SymDiff(bt, g.x)] = Times(Ei(Exponent(g, bt)), y)
      BY <2>1 DEF Fixes
    <3>3. QED
      BY <2>1, <3>1, <3>2
  <2>4. Ei(Exponent(t, d)) = Times(c2, et)
    BY <1>1, PhaseMoved
  <2>5. F[d] = Times(Times(Conj(v[dt]), Ei(Exponent(t, d))), v[d])
    BY <2>1 DEF MeanTerms
  <2>6. F[b] = Times(Times(Conj(y), et), x)
    BY DEF MeanTerms
  <2> HIDE DEF d, bt, dt, eb, et, x, y, c1, c2, F, move
  <2>7. Conj(v[dt]) = Times(Times(c1, Conj(eb)), Conj(y))
    <3>1. Times(c1, eb) \in Amps
      BY <1>4, <2>2, RingTypes
    <3>2. Conj(v[dt]) = Times(Conj(Times(c1, eb)), Conj(y))
      BY <2>2, <2>3, <3>1, ConjLaws
    <3>3. Conj(Times(c1, eb)) = Times(Conj(c1), Conj(eb))
      BY <1>4, <2>2, ConjLaws
    <3>4. QED
      BY <1>4, <3>2, <3>3
  <2> DEFINE p == Conj(eb)
             n == Conj(y)
             Lhs == Times(Times(Times(Times(c1, p), n), Times(c2, et)), Times(eb, x))
  <2>8. p \in Amps /\ n \in Amps /\ F[d] = Lhs
    BY <2>2, <2>4, <2>5, <2>7, RingTypes
  <2>9. Times(eb, p) = One
    BY <2>2
  <2>10. F[b] = Times(Times(n, et), x)
    BY <2>6
  <2> HIDE DEF p, n
  <2>11. Lhs = Times(Times(Times(c1, c2), Times(eb, p)), Times(Times(n, et), x))
    <3> DEFINE q == Times(n, et)
    <3>1. q \in Amps /\ Times(c1, p) \in Amps /\ Times(c2, et) \in Amps /\ Times(Times(c1, p), c2) \in Amps
          /\ Times(Times(c1, p), n) \in Amps
      BY <1>4, <2>2, <2>8, RingTypes
    <3>2. Times(Times(Times(c1, p), n), Times(c2, et)) = Times(Times(Times(c1, p), c2), q)
      <4>1. Times(Times(Times(c1, p), n), Times(c2, et)) = Times(Times(c1, p), Times(n, Times(c2, et)))
        BY <2>8, <3>1, TimesLaws
      <4>2. Times(n, Times(c2, et)) = Times(c2, q)
        BY <1>4, <2>2, <2>8, Past
      <4> HIDE DEF q
      <4>3. Times(Times(c1, p), Times(c2, q)) = Times(Times(Times(c1, p), c2), q)
        BY <1>4, <3>1, TimesLaws
      <4>4. QED
        BY <4>1, <4>2, <4>3
    <3>3. Times(Times(c1, p), c2) = Times(Times(c1, c2), p)
      BY <1>4, <2>8, TimesLaws, Past
    <3> HIDE DEF q
    <3> DEFINE k == Times(c1, c2)
    <3>4. k \in Amps /\ Times(k, p) \in Amps /\ Times(eb, x) \in Amps /\ Times(q, x) \in Amps /\ Times(p, eb) = Times(eb, p)
      BY <1>4, <2>2, <2>8, <3>1, RingTypes, TimesLaws
    <3>5. Lhs = Times(Times(Times(k, p), q), Times(eb, x))
      BY <3>2, <3>3
    <3> HIDE DEF k
    <3>6. Times(Times(Times(k, p), q), Times(eb, x)) = Times(Times(k, p), Times(q, Times(eb, x)))
      BY <3>1, <3>4, TimesLaws
    <3>7. Times(q, Times(eb, x)) = Times(eb, Times(q, x))
      BY <2>2, <3>1, Past
    <3>8. Times(Times(k, p), Times(eb, Times(q, x))) = Times(Times(Times(k, p), eb), Times(q, x))
      BY <2>2, <3>4, TimesLaws
    <3>9. Times(Times(k, p), eb) = Times(k, Times(eb, p))
      BY <2>2, <2>8, <3>4, TimesLaws
    <3>10. QED
      BY <3>5, <3>6, <3>7, <3>8, <3>9 DEF k, q
  <2>12. Times(Neg(One), One) = Neg(One)
    BY ImLaws, ImConstants
  <2>13. F[d] = Times(Neg(One), F[b])
    BY <1>4, <2>8, <2>9, <2>10, <2>11, <2>12
  <2>14. QED
    BY <2>1, <2>13
<1> HIDE DEF F, move
<1>6. Sum([b \in Basis |-> F[move[b]]], Basis) = Sum(F, Basis)
  BY <1>1, <1>3, FiniteBasis, SumMove
<1>7. Sum([b \in Basis |-> F[move[b]]], Basis) = Times(Neg(One), Sum(F, Basis))
  <2>1. [b \in Basis |-> F[move[b]]] = [b \in Basis |-> Times(Neg(One), F[b])]
    BY <1>5
  <2>2. Neg(One) \in Amps
    BY ImConstants
  <2>3. QED
    BY <1>1, <2>1, <2>2, FiniteBasis, SumTimes
<1> DEFINE s == Sum(F, Basis)
<1>8. s \in Amps
  <2>1. MeanOf(v, t) \in Amps
    BY MeanType
  <2>2. QED
    BY <2>1 DEF MeanOf, F
<1>9. s = Neg(s)
  BY <1>6, <1>7, <1>8, ImLaws
<1>10. s = MeanOf(v, t)
  BY DEF MeanOf, F
<1> HIDE DEF s
<1>11. QED
  BY <1>8, <1>9, <1>10, SelfNegative

\* What fixes a state of norm 1 commutes, and the identity fixes it with the
\* plus sign only.
LEMMA FixersCommute ==
  ASSUME NEW v \in Vectors, Norm(v) = One
  PROVE  /\ \A a, b \in Rows : Fixes(a, v) /\ Fixes(b, v) => ~anticommutes(a, b)
         /\ \A a \in Rows : Fixes(a, v) /\ a.x = {} /\ a.z = {} => a.neg = FALSE
<1>1. One # Zero /\ Neg(One) # Zero
  BY DEF One, Zero, Neg, Int2Amp, QNeg
<1>2. \A a, b \in Rows : Fixes(a, v) /\ Fixes(b, v) => ~anticommutes(a, b)
  <2> SUFFICES ASSUME NEW a \in Rows, NEW b \in Rows, Fixes(a, v), Fixes(b, v), anticommutes(a, b) PROVE FALSE
    OBVIOUS
  <2> DEFINE t == Str(b.x, b.z)
  <2>1. t \in Rows /\ t.x = b.x /\ t.z = b.z
    <3>1. b.x \in SUBSET Qubits /\ b.z \in SUBSET Qubits
      BY DEF Rows
    <3>2. QED
      BY <3>1, StrRow
  <2> HIDE DEF t
  <2>2. anticommutes(a, t)
    BY <2>1, AntiParts
  <2>3. MeanOf(v, t) = Zero
    BY <2>1, <2>2, OpposedMean
  <2>4. MeanOf(v, t) = SignOf(b.neg)
    BY SignedMean DEF t
  <2>5. QED
    BY <1>1, <2>3, <2>4 DEF SignOf
<1>3. \A a \in Rows : Fixes(a, v) /\ a.x = {} /\ a.z = {} => a.neg = FALSE
  <2> SUFFICES ASSUME NEW a \in Rows, Fixes(a, v), a.x = {}, a.z = {} PROVE a.neg = FALSE
    OBVIOUS
  <2> DEFINE i == Identity
  <2>1. i \in Rows /\ i.x = {} /\ i.z = {} /\ i.neg = FALSE /\ Fixes(i, v)
    BY IdentityRow
  <2>2. MeanOf(v, Str({}, {})) = SignOf(FALSE) /\ MeanOf(v, Str({}, {})) = SignOf(a.neg)
    <3> HIDE DEF i
    <3>1. MeanOf(v, Str(i.x, i.z)) = SignOf(i.neg)
      BY <2>1, SignedMean
    <3>2. MeanOf(v, Str(a.x, a.z)) = SignOf(a.neg)
      BY SignedMean
    <3>3. QED
      BY <2>1, <3>1, <3>2
  <2>3. a.neg \in BOOLEAN
    BY DEF Rows
  <2>4. One # Neg(One)
    BY DEF One, Neg, Int2Amp, QNeg
  <2>5. QED
    BY <2>2, <2>3, <2>4 DEF SignOf
<1>4. QED
  BY <1>2, <1>3

-----------------------------------------------------------------------------
(* Elimination: the walk of a row past the pivots, column by column.       *)

Spots == 0..(2 * N - 1)
Walks == [row : Rows, free : 0..(2 * N)]

Walked(p, w, c) ==
    IF w.free < 2 * N \/ ~ColumnBit(w.row, c - 1) THEN w
    ELSE IF p[c - 1] = Identity THEN [w EXCEPT !.free = c - 1]
    ELSE [w EXCEPT !.row = row_product(@, p[c - 1])]

Start(r) == [row |-> r, free |-> 2 * N]

\* f is the walk of r past the pivots p.
WalkOf(f, p, r) ==
    /\ f \in [0..(2 * N) -> Walks]
    /\ f[0] = Start(r)
    /\ \A c \in 1..(2 * N) : f[c - 1] \in Walks /\ f[c] = Walked(p, f[c - 1], c)
    /\ Reduced(p, r) = f[2 * N]

LEMMA WidthTwice == N \in Nat /\ 2 * N \in Nat /\ \A c \in 1..(2 * N) : c - 1 \in Spots /\ c - 1 \in 0..(2 * N)
BY WidthAssumption DEF Spots

LEMMA WalkedType ==
  ASSUME NEW p \in [Spots -> Rows], NEW c \in 1..(2 * N), NEW w \in Walks
  PROVE  Walked(p, w, c) \in Walks
<1>1. c - 1 \in Spots /\ c - 1 \in 0..(2 * N) /\ w.row \in Rows /\ p[c - 1] \in Rows
  BY WidthTwice DEF Walks
<1>2. row_product(w.row, p[c - 1]) \in Rows
  BY <1>1, AntiProduct
<1>3. [w EXCEPT !.free = c - 1] \in Walks /\ [w EXCEPT !.row = row_product(@, p[c - 1])] \in Walks
  BY <1>1, <1>2 DEF Walks
<1>4. QED
  BY <1>3 DEF Walked

LEMMA WalkExists ==
  ASSUME NEW p \in [Spots -> Rows], NEW r \in Rows
  PROVE  \E f : WalkOf(f, p, r)
<1> DEFINE step == [y \in (1..(2 * N)) \X Walks |-> Walked(p, y[2], y[1])]
           n == 2 * N
<1>1. n \in Nat /\ Start(r) \in Walks
  BY WidthTwice DEF Start, Walks
<1>2. \A c \in 1..n, w \in Walks : step[<<c, w>>] = Walked(p, w, c) /\ Walked(p, w, c) \in Walks
  BY WalkedType
<1>0. Stepper(step, n, Walks)
  BY <1>2 DEF Stepper
<1> HIDE DEF step, n
<1>4. PICK f : f \in [0..n -> Walks] /\ f = [c \in 0..n |-> IF c = 0 THEN Start(r) ELSE step[<<c, f[c - 1]>>]]
  BY <1>1, <1>0, RecursionFunction
<1>5. \A c \in 0..n : c # 0 => step[<<c, f[c - 1]>>] = Walked(p, f[c - 1], c)
  BY <1>1, <1>2, <1>4
<1>6. f = [c \in 0..n |-> IF c = 0 THEN Start(r) ELSE Walked(p, f[c - 1], c)]
  BY <1>4, <1>5
<1> DEFINE After[c \in 0..n] ==
             IF c = 0 THEN [row |-> r, free |-> 2 * N]
             ELSE LET w == After[c - 1] IN
                  IF w.free < 2 * N \/ ~ColumnBit(w.row, c - 1) THEN w
                  ELSE IF p[c - 1] = Identity THEN [w EXCEPT !.free = c - 1]
                  ELSE [w EXCEPT !.row = row_product(@, p[c - 1])]
<1>3. Reduced(p, r) = After[2 * N]
  BY DEF Reduced, n
<1>7. After = [c \in 0..n |-> IF c = 0 THEN Start(r) ELSE Walked(p, After[c - 1], c)]
  BY <1>6 DEF Walked, Start
<1> HIDE DEF After
<1>8. After[0] = Start(r) /\ \A c \in 1..n : After[c] = Walked(p, After[c - 1], c)
  <2>1. 0 \in 0..n /\ \A c \in 1..n : c \in 0..n /\ c # 0
    BY <1>1
  <2>2. QED
    BY <1>7, <2>1
<1>9. \A c \in 0..n : After[c] \in Walks
  <2> DEFINE P == {c \in 0..n : After[c] \in Walks}
  <2>1. 0 \in P
    BY <1>1, <1>8
  <2>2. \A m \in 1..n : m - 1 \in P => m \in P
    BY <1>1, <1>8, WalkedType DEF n
  <2> HIDE DEF P
  <2>3. \A m \in 0..n : m \in P
    BY <1>1, <2>1, <2>2, UpToInduction
  <2>4. QED
    BY <2>3 DEF P
<1>10. After \in [0..n -> Walks] /\ \A c \in 1..n : After[c - 1] \in Walks
  <2>1. \A c \in 1..n : c - 1 \in 0..n
    BY <1>1
  <2>2. QED
    BY <1>7, <1>9, <2>1
<1>11. WalkOf(After, p, r)
  BY <1>3, <1>8, <1>10 DEF WalkOf, n
<1>12. QED
  BY <1>11

\* The rows of two strings and of their product, signs apart.
Joined(c, a, b) == c.x = SymDiff(a.x, b.x) /\ c.z = SymDiff(a.z, b.z)

LEMMA JoinedBits ==
  ASSUME NEW a \in Rows, NEW b \in Rows, NEW c \in Rows, Joined(c, a, b), NEW i \in Spots
  PROVE  ColumnBit(c, i) <=> ~(ColumnBit(a, i) <=> ColumnBit(b, i))
BY DEF Joined, ColumnBit, SymDiff

LEMMA JoinedProduct ==
  ASSUME NEW a \in Rows, NEW b \in Rows
  PROVE  row_product(a, b) \in Rows /\ Joined(row_product(a, b), a, b)
BY AntiProduct DEF row_product, Joined

\* No X and no Z before column c.
Cleared(r, c) == \A d \in Spots : d < c => ~ColumnBit(r, d)

LEMMA ClearedString ==
  ASSUME NEW r \in Rows, Cleared(r, 2 * N)
  PROVE  r.x = {} /\ r.z = {}
<1>1. r.x \in SUBSET Qubits /\ r.z \in SUBSET Qubits
  BY DEF Rows
<1>2. \A q \in Qubits : q \in Spots /\ q + N \in Spots /\ q < N /\ q < 2 * N /\ q + N < 2 * N /\ ~(q + N < N) /\ (q + N) - N = q
  BY WidthTwice DEF Qubits, Spots
<1>3. \A q \in Qubits : q \notin r.x
  BY <1>2 DEF Cleared, ColumnBit
<1>4. \A q \in Qubits : q \notin r.z
  <2> TAKE q \in Qubits
  <2>1. ~ColumnBit(r, q + N)
    BY <1>2 DEF Cleared
  <2>2. QED
    BY <1>2, <2>1 DEF ColumnBit
<1>5. QED
  BY <1>1, <1>3, <1>4

\* The three things a walk can do at a column.
Passes(p, w, c, y) == (w.free < 2 * N \/ ~ColumnBit(w.row, c - 1)) /\ y = w
Stops(p, w, c, y) ==
    /\ w.free = 2 * N /\ ColumnBit(w.row, c - 1) /\ p[c - 1] = Identity
    /\ y.row = w.row /\ y.free = c - 1 /\ y.free < 2 * N
Clears1(p, w, c, y) ==
    /\ w.free = 2 * N /\ ColumnBit(w.row, c - 1) /\ p[c - 1] # Identity
    /\ y.row = row_product(w.row, p[c - 1]) /\ y.free = 2 * N

LEMMA WalkedCases ==
  ASSUME NEW p, NEW c \in 1..(2 * N), NEW w \in Walks
  PROVE  Passes(p, w, c, Walked(p, w, c)) \/ Stops(p, w, c, Walked(p, w, c)) \/ Clears1(p, w, c, Walked(p, w, c))
<1>1. w.free \in 0..(2 * N) /\ w.row \in Rows /\ DOMAIN w = {"row", "free"}
  BY DEF Walks
<1>2. CASE w.free < 2 * N \/ ~ColumnBit(w.row, c - 1)
  BY <1>2 DEF Walked, Passes
<1>3. CASE ~(w.free < 2 * N \/ ~ColumnBit(w.row, c - 1))
  <2>1. w.free = 2 * N /\ ColumnBit(w.row, c - 1) /\ c - 1 < 2 * N
    BY <1>1, <1>3, WidthTwice
  <2>2. CASE p[c - 1] = Identity
    <3>1. Walked(p, w, c) = [w EXCEPT !.free = c - 1]
      BY <1>3, <2>2 DEF Walked
    <3>2. QED
      BY <1>1, <2>1, <2>2, <3>1 DEF Stops
  <2>3. CASE p[c - 1] # Identity
    <3>1. Walked(p, w, c) = [w EXCEPT !.row = row_product(@, p[c - 1])]
      BY <1>3, <2>3 DEF Walked
    <3>2. QED
      BY <1>1, <2>1, <2>3, <3>1 DEF Clears1
  <2>4. QED
    BY <2>2, <2>3
<1>4. QED
  BY <1>2, <1>3

\* A pivot has its first X or Z at its own column.
Shaped(p) ==
    /\ p \in [Spots -> Rows]
    /\ \A c \in Spots : p[c] = Identity \/ (ColumnBit(p[c], c) /\ Cleared(p[c], c))
AllFix(p, v) == \A c \in Spots : Fixes(p[c], v)

\* What a walk knows at column c: the row fixes the vector, and it has no X and
\* no Z before c, or before the column where it stopped.
WalkInv(p, v, w, c) ==
    /\ w \in Walks
    /\ Fixes(w.row, v)
    /\ w.free = 2 * N => Cleared(w.row, c)
    /\ w.free < 2 * N => /\ w.free \in Spots /\ p[w.free] = Identity
                         /\ ColumnBit(w.row, w.free) /\ Cleared(w.row, w.free)

LEMMA ClearedNext ==
  ASSUME NEW a \in Rows, NEW b \in Rows, NEW c \in 1..(2 * N)
  PROVE  /\ Cleared(a, c - 1) /\ ~ColumnBit(a, c - 1) => Cleared(a, c)
         /\ (Cleared(a, c - 1) /\ ColumnBit(a, c - 1) /\ Cleared(b, c - 1) /\ ColumnBit(b, c - 1))
               => Cleared(row_product(a, b), c)
<1>1. \A d \in Spots : d < c => d < c - 1 \/ d = c - 1
  BY DEF Spots
<1>2. Cleared(a, c - 1) /\ ~ColumnBit(a, c - 1) => Cleared(a, c)
  BY <1>1 DEF Cleared
<1>3. ASSUME Cleared(a, c - 1), ColumnBit(a, c - 1), Cleared(b, c - 1), ColumnBit(b, c - 1)
      PROVE  Cleared(row_product(a, b), c)
  <2> DEFINE m == row_product(a, b)
  <2>1. m \in Rows /\ Joined(m, a, b)
    BY JoinedProduct
  <2> HIDE DEF m
  <2>2. \A d \in Spots : ColumnBit(m, d) <=> ~(ColumnBit(a, d) <=> ColumnBit(b, d))
    BY <2>1, JoinedBits
  <2>3. \A d \in Spots : d < c => ~ColumnBit(m, d)
    <3> TAKE d \in Spots
    <3> HAVE d < c
    <3>1. CASE d < c - 1
      BY <1>3, <2>2, <3>1 DEF Cleared
    <3>2. CASE d = c - 1
      BY <1>3, <2>2, <3>2
    <3>3. QED
      BY <1>1, <3>1, <3>2
  <2>4. QED
    BY <2>3 DEF Cleared, m
<1>4. QED
  BY <1>2, <1>3

LEMMA WalkSound ==
  ASSUME NEW v \in Vectors, Norm(v) = One, NEW p, Shaped(p), AllFix(p, v),
         NEW r \in Rows, Fixes(r, v), NEW f, WalkOf(f, p, r)
  PROVE  \A c \in 0..(2 * N) : WalkInv(p, v, f[c], c)
<1> DEFINE n == 2 * N
           P == {c \in 0..n : WalkInv(p, v, f[c], c)}
<1>1. n \in Nat /\ p \in [Spots -> Rows]
  BY WidthTwice DEF Shaped
<1>2. 0 \in P
  <2>1. f[0] = Start(r) /\ Start(r) \in Walks /\ Start(r).row = r /\ Start(r).free = 2 * N
    BY WidthTwice DEF WalkOf, Start, Walks
  <2>2. Cleared(r, 0)
    BY DEF Cleared, Spots
  <2>3. WalkInv(p, v, f[0], 0)
    BY <2>1, <2>2, <1>1 DEF WalkInv
  <2>4. QED
    BY <1>1, <2>3
<1>3. \A c \in 1..n : c - 1 \in P => c \in P
  <2> SUFFICES ASSUME NEW c \in 1..n, c - 1 \in P PROVE c \in P
    OBVIOUS
  <2> DEFINE w == f[c - 1]
             y == f[c]
  <2>1. WalkInv(p, v, w, c - 1) /\ w \in Walks /\ y = Walked(p, w, c) /\ c - 1 \in Spots /\ c \in 0..n
    BY WidthTwice DEF WalkOf
  <2>2. y \in Walks /\ w.row \in Rows /\ p[c - 1] \in Rows
    BY <1>1, <2>1, WalkedType DEF Walks
  <2> HIDE DEF w, y
  <2>3. CASE Passes(p, w, c, y)
    <3>1. y = w /\ (w.free = 2 * N => ~ColumnBit(w.row, c - 1))
      BY <1>1, <2>3 DEF Passes
    <3>2. w.free = 2 * N => Cleared(w.row, c)
      BY <2>1, <2>2, <3>1, ClearedNext DEF WalkInv
    <3>3. QED
      BY <2>1, <3>1, <3>2 DEF WalkInv, y
  <2>4. CASE Stops(p, w, c, y)
    <3>1. Cleared(w.row, c - 1) /\ Fixes(w.row, v)
      BY <2>1, <2>4 DEF Stops, WalkInv
    <3>2. WalkInv(p, v, y, c)
      BY <1>1, <2>1, <2>2, <2>4, <3>1 DEF Stops, WalkInv
    <3>3. QED
      BY <2>1, <3>2 DEF y
  <2>5. CASE Clears1(p, w, c, y)
    <3>1. Cleared(w.row, c - 1) /\ Fixes(w.row, v) /\ ColumnBit(w.row, c - 1)
      BY <2>1, <2>5 DEF Clears1, WalkInv
    <3>2. ColumnBit(p[c - 1], c - 1) /\ Cleared(p[c - 1], c - 1) /\ Fixes(p[c - 1], v)
      BY <2>1, <2>5 DEF Clears1, Shaped, AllFix
    <3>3. ~anticommutes(w.row, p[c - 1])
      BY <2>2, <3>1, <3>2, FixersCommute
    <3>4. Fixes(row_product(w.row, p[c - 1]), v)
      BY <2>2, <3>1, <3>2, <3>3, ProductFixes
    <3>5. Cleared(row_product(w.row, p[c - 1]), c)
      BY <2>2, <3>1, <3>2, ClearedNext
    <3>6. WalkInv(p, v, y, c)
      BY <1>1, <2>2, <2>5, <3>4, <3>5 DEF Clears1, WalkInv
    <3>7. QED
      BY <2>1, <3>6 DEF y
  <2>6. QED
    BY <2>1, <2>3, <2>4, <2>5, WalkedCases
<1> HIDE DEF P
<1>4. \A c \in 0..n : c \in P
  BY <1>1, <1>2, <1>3, UpToInduction
<1>5. QED
  BY <1>4 DEF P

\* The pivots make the row: no column stops its walk.
Makes(p, r) == Reduced(p, r).free = 2 * N

\* The pivots of p are pivots of q.
Extends(p, q) == q \in [Spots -> Rows] /\ \A c \in Spots : p[c] # Identity => q[c] = p[c]

\* What is made stays made when pivots are added.
LEMMA MakesMore ==
  ASSUME NEW p \in [Spots -> Rows], NEW q, Extends(p, q), NEW r \in Rows, Makes(p, r)
  PROVE  Makes(q, r)
<1> DEFINE n == 2 * N
<1>1. PICK f : WalkOf(f, p, r)
  BY WalkExists
<1>2. PICK g : WalkOf(g, q, r)
  BY WalkExists DEF Extends
<1> DEFINE P == {c \in 0..n : f[c].free = n => g[c] = f[c]}
<1>3. n \in Nat
  BY WidthTwice
<1>4. 0 \in P
  BY <1>1, <1>2, <1>3 DEF WalkOf
<1>5. \A c \in 1..n : c - 1 \in P => c \in P
  <2> SUFFICES ASSUME NEW c \in 1..n, c - 1 \in P, f[c].free = n PROVE g[c] = f[c]
    BY <1>3
  <2> DEFINE w == f[c - 1]
             y == f[c]
             x == g[c - 1]
  <2>1. w \in Walks /\ x \in Walks /\ y = Walked(p, w, c) /\ g[c] = Walked(q, x, c) /\ c - 1 \in Spots
    BY <1>1, <1>2, WidthTwice DEF WalkOf
  <2>2. w.free = n => x = w
    OBVIOUS
  <2>3. y.free = n
    OBVIOUS
  <2> HIDE DEF w, y, x
  <2>4. CASE Passes(p, w, c, y)
    <3>1. y = w /\ w.free = n /\ x = w
      BY <2>2, <2>3, <2>4 DEF Passes
    <3>2. Walked(q, x, c) = x
      BY <2>4, <3>1 DEF Passes, Walked
    <3>3. QED
      BY <2>1, <3>1, <3>2 DEF y
  <2>5. CASE Stops(p, w, c, y)
    BY <2>3, <2>5, <1>3 DEF Stops
  <2>6. CASE Clears1(p, w, c, y)
    <3>1. x = w /\ q[c - 1] = p[c - 1]
      BY <2>1, <2>2, <2>6 DEF Clears1, Extends
    <3>2. Walked(q, x, c) = Walked(p, w, c)
      BY <3>1 DEF Walked
    <3>3. QED
      BY <2>1, <3>2 DEF y
  <2>7. QED
    BY <2>1, <2>4, <2>5, <2>6, WalkedCases
<1> HIDE DEF P
<1>6. \A c \in 0..n : c \in P
  BY <1>3, <1>4, <1>5, UpToInduction
<1>7. n \in P
  BY <1>3, <1>6
<1>8. Reduced(p, r) = f[n] /\ Reduced(q, r) = g[n]
  BY <1>1, <1>2 DEF WalkOf
<1>9. QED
  BY <1>7, <1>8 DEF P, Makes

\* An inserted row becomes a pivot of its kind, and is made from then on.
Inserted(p, v, r, q) == Shaped(q) /\ AllFix(q, v) /\ Extends(p, q) /\ Makes(q, r)

LEMMA InsertLaws ==
  ASSUME NEW v \in Vectors, Norm(v) = One, NEW p, Shaped(p), AllFix(p, v), NEW r \in Rows, Fixes(r, v)
  PROVE  Inserted(p, v, r, Insert(p, r))
<1> DEFINE n == 2 * N
           w == Reduced(p, r)
           q == Insert(p, r)
<1>1. n \in Nat /\ p \in [Spots -> Rows]
  BY WidthTwice DEF Shaped
<1>2. PICK f : WalkOf(f, p, r)
  BY <1>1, WalkExists
<1>3. f[n] = w /\ WalkInv(p, v, w, n)
  <2>1. n \in 0..n
    BY <1>1
  <2>2. WalkInv(p, v, f[n], n)
    BY <1>2, <2>1, WalkSound
  <2>3. QED
    BY <1>2, <2>2 DEF WalkOf
<1>4. q = IF w.free = n THEN p ELSE [p EXCEPT ![w.free] = w.row]
  BY DEF Insert
<1> HIDE DEF w, q
<1>5. CASE w.free = n
  <2>1. q = p
    BY <1>4, <1>5
  <2>2. Extends(p, p)
    BY <1>1 DEF Extends
  <2>3. Makes(p, r)
    BY <1>5 DEF Makes, w
  <2>4. QED
    BY <2>1, <2>2, <2>3 DEF Inserted, q
<1>6. CASE w.free # n
  <2> DEFINE e == w.free
  <2>1. /\ w.row \in Rows /\ Fixes(w.row, v) /\ e < n
        /\ e \in Spots /\ p[e] = Identity /\ ColumnBit(w.row, e) /\ Cleared(w.row, e)
    <3>1. w \in Walks /\ w.free \in 0..n /\ w.row \in Rows
      BY <1>3 DEF WalkInv, Walks
    <3>2. w.free < n
      BY <1>1, <1>6, <3>1
    <3>3. QED
      BY <1>3, <3>1, <3>2 DEF WalkInv
  <2>2. q = [p EXCEPT ![e] = w.row]
    BY <1>4, <1>6
  <2>3. q[e] = w.row /\ q \in [Spots -> Rows] /\ \A c \in Spots : c # e => q[c] = p[c]
    BY <1>1, <2>1, <2>2
  <2>4. Shaped(q) /\ AllFix(q, v) /\ Extends(p, q)
    <3>1. \A c \in Spots : q[c] = Identity \/ (ColumnBit(q[c], c) /\ Cleared(q[c], c))
      BY <2>1, <2>3 DEF Shaped
    <3>2. \A c \in Spots : Fixes(q[c], v)
      BY <2>1, <2>3 DEF AllFix
    <3>3. \A c \in Spots : p[c] # Identity => q[c] = p[c]
      BY <2>1, <2>3
    <3>4. QED
      BY <2>3, <3>1, <3>2, <3>3 DEF Shaped, AllFix, Extends
  <2>5. w.row # Identity
    <3>1. ~ColumnBit(Identity, e)
      BY IdentityRow DEF ColumnBit
    <3>2. QED
      BY <2>1, <3>1
  <2>6. PICK g : WalkOf(g, q, r)
    BY <2>3, WalkExists
  <2> DEFINE Blank(y) == y.free = n /\ y.row.x = {} /\ y.row.z = {}
             P == {c \in 0..n : /\ f[c].free = n => g[c] = f[c]
                                /\ f[c].free < n => (f[c] = w => Blank(g[c]))}
  <2>7. 0 \in P
    <3>1. f[0] = g[0] /\ f[0].free = n
      BY <1>2, <2>6 DEF WalkOf, Start
    <3>2. QED
      BY <1>1, <3>1
  <2>8. \A c \in 1..n : c - 1 \in P => c \in P
    <3> SUFFICES ASSUME NEW c \in 1..n, c - 1 \in P PROVE c \in P
      OBVIOUS
    <3> DEFINE a == f[c - 1]
               b == f[c]
               x == g[c - 1]
               y == g[c]
    <3>1. /\ a \in Walks /\ x \in Walks /\ b = Walked(p, a, c) /\ y = Walked(q, x, c) /\ c - 1 \in Spots
          /\ c \in 0..n
      BY <1>1, <1>2, <2>6, WidthTwice DEF WalkOf
    <3>2. (a.free = n => x = a) /\ (a.free < n => (a = w => Blank(x)))
      OBVIOUS
    <3> HIDE DEF a, b, x, y, Blank, e
    <3>3. SUFFICES (b.free = n => y = b) /\ (b.free < n => (b = w => Blank(y)))
      BY <3>1 DEF P, b, y
    <3>4. CASE Passes(p, a, c, b)
      <4>1. b = a
        BY <3>4 DEF Passes
      <4>2. CASE a.free = n
        <5>1. x = a /\ ~ColumnBit(x.row, c - 1)
          BY <1>1, <3>2, <3>4, <4>2 DEF Passes
        <5>2. y = x
          BY <3>1, <5>1 DEF Walked
        <5>3. QED
          BY <1>1, <4>1, <4>2, <5>1, <5>2
      <4>3. CASE a.free # n
        <5>1. SUFFICES ASSUME b = w, b.free < n PROVE Blank(y)
          BY <4>1, <4>3
        <5>2. Blank(x)
          BY <3>2, <4>1, <5>1
        <5>3. ~ColumnBit(x.row, c - 1)
          BY <5>2 DEF Blank, ColumnBit
        <5>4. y = x
          BY <3>1, <5>3 DEF Walked
        <5>5. QED
          BY <5>2, <5>4
      <4>4. QED
        BY <4>2, <4>3
    <3>5. CASE Stops(p, a, c, b)
      <4>1. a.free = n /\ x = a /\ ColumnBit(a.row, c - 1) /\ b.row = a.row /\ b.free = c - 1 /\ b.free < n
        BY <3>2, <3>5 DEF Stops
      <4>2. SUFFICES ASSUME b = w PROVE Blank(y)
        BY <1>1, <4>1
      <4>3. c - 1 = e /\ q[c - 1] = x.row /\ x.row \in Rows
        BY <2>1, <2>3, <3>1, <4>1, <4>2 DEF e, Walks
      <4>4. ~(x.free < n) /\ q[c - 1] # Identity
        BY <1>1, <2>3, <2>5, <4>1, <4>3
      <4>5. y = [x EXCEPT !.row = row_product(@, q[c - 1])]
        BY <3>1, <4>1, <4>4 DEF Walked
      <4>6. y.row = row_product(x.row, x.row) /\ y.free = n
        BY <3>1, <4>1, <4>3, <4>5 DEF Walks
      <4>7. Joined(y.row, x.row, x.row)
        BY <4>3, <4>6, JoinedProduct
      <4>8. y.row.x = {} /\ y.row.z = {}
        BY <4>7 DEF Joined, SymDiff
      <4>9. QED
        BY <4>6, <4>8 DEF Blank
    <3>6. CASE Clears1(p, a, c, b)
      <4>1. x = a /\ p[c - 1] # Identity /\ b.free = n
        BY <3>2, <3>6 DEF Clears1
      <4>2. q[c - 1] = p[c - 1]
        BY <2>1, <2>3, <3>1, <4>1 DEF e
      <4>3. y = b
        BY <3>1, <4>1, <4>2 DEF Walked
      <4>4. QED
        BY <1>1, <4>1, <4>3
    <3>7. QED
      BY <3>1, <3>4, <3>5, <3>6, WalkedCases
  <2> HIDE DEF P, Blank, e
  <2>9. \A c \in 0..n : c \in P
    BY <1>1, <2>7, <2>8, UpToInduction
  <2>10. n \in P
    BY <1>1, <2>9
  <2>11. g[n].free = n
    BY <1>1, <1>3, <2>1, <2>10 DEF P, Blank, e
  <2>12. Makes(q, r)
    BY <2>6, <2>11 DEF WalkOf, Makes
  <2>13. QED
    BY <2>4, <2>12 DEF Inserted, q
<1>7. QED
  BY <1>5, <1>6

\* The product of two rows that the pivots make is made.
LEMMA MakesProduct ==
  ASSUME NEW p \in [Spots -> Rows], NEW a \in Rows, NEW b \in Rows, NEW r \in Rows,
         Joined(r, a, b), Makes(p, a), Makes(p, b)
  PROVE  Makes(p, r)
<1> DEFINE n == 2 * N
<1>1. PICK f : WalkOf(f, p, a)
  BY WalkExists
<1>2. PICK g : WalkOf(g, p, b)
  BY WalkExists
<1>3. PICK h : WalkOf(h, p, r)
  BY WalkExists
<1> DEFINE Unstopped(c) == f[c].free = n /\ g[c].free = n
           P == {c \in 0..n : Unstopped(c) => h[c].free = n /\ Joined(h[c].row, f[c].row, g[c].row)}
<1>4. n \in Nat
  BY WidthTwice
<1>5. 0 \in P
  <2>1. f[0] = Start(a) /\ g[0] = Start(b) /\ h[0] = Start(r)
    BY <1>1, <1>2, <1>3 DEF WalkOf
  <2>2. h[0].free = n /\ Joined(h[0].row, f[0].row, g[0].row)
    BY <2>1 DEF Start
  <2>3. QED
    BY <1>4, <2>2
<1>6. \A c \in 1..n : c - 1 \in P => c \in P
  <2> SUFFICES ASSUME NEW c \in 1..n, c - 1 \in P, Unstopped(c)
               PROVE  h[c].free = n /\ Joined(h[c].row, f[c].row, g[c].row)
    BY <1>4
  <2> DEFINE w == f[c - 1] x == g[c - 1] y == h[c - 1]
             k == p[c - 1]
             w1 == f[c] x1 == g[c] y1 == h[c]
  <2>1. /\ w \in Walks /\ x \in Walks /\ y \in Walks /\ c - 1 \in Spots
        /\ w1 = Walked(p, w, c) /\ x1 = Walked(p, x, c) /\ y1 = Walked(p, y, c)
    BY <1>1, <1>2, <1>3, WidthTwice DEF WalkOf
  <2>2. w.row \in Rows /\ x.row \in Rows /\ y.row \in Rows /\ k \in Rows
    BY <2>1 DEF Walks
  <2>3. (w.free = n /\ x.free = n) => y.free = n /\ Joined(y.row, w.row, x.row)
    OBVIOUS
  <2>4. w1.free = n /\ x1.free = n
    OBVIOUS
  <2>5. SUFFICES y1.free = n /\ Joined(y1.row, w1.row, x1.row)
    OBVIOUS
  <2> HIDE DEF w, x, y, w1, x1, y1, Unstopped, P
  <2>6. Passes(p, w, c, w1) \/ Clears1(p, w, c, w1)
    BY <1>4, <2>1, <2>4, WalkedCases DEF Stops
  <2>7. Passes(p, x, c, x1) \/ Clears1(p, x, c, x1)
    BY <1>4, <2>1, <2>4, WalkedCases DEF Stops
  <2>8. w.free = n /\ x.free = n /\ y.free = n /\ Joined(y.row, w.row, x.row)
    BY <2>3, <2>4, <2>6, <2>7 DEF Passes, Clears1
  <2>9. ColumnBit(y.row, c - 1) <=> ~(ColumnBit(w.row, c - 1) <=> ColumnBit(x.row, c - 1))
    BY <2>1, <2>2, <2>8, JoinedBits
  <2>10. /\ Joined(row_product(w.row, k), w.row, k) /\ Joined(row_product(x.row, k), x.row, k)
         /\ Joined(row_product(y.row, k), y.row, k)
    BY <2>2, JoinedProduct
  <2>11. Passes(p, y, c, y1) \/ Stops(p, y, c, y1) \/ Clears1(p, y, c, y1)
    BY <2>1, WalkedCases
  <2>12. CASE ~ColumnBit(w.row, c - 1) /\ ~ColumnBit(x.row, c - 1)
    <3>1. w1 = w /\ x1 = x
      BY <2>6, <2>7, <2>12 DEF Passes, Clears1
    <3>2. y1 = y
      BY <2>9, <2>11, <2>12 DEF Passes, Stops, Clears1
    <3>3. QED
      BY <2>8, <3>1, <3>2
  <2>13. CASE ColumnBit(w.row, c - 1) /\ ColumnBit(x.row, c - 1)
    <3>1. w1.row = row_product(w.row, k) /\ x1.row = row_product(x.row, k)
      BY <1>4, <2>6, <2>7, <2>8, <2>13 DEF Passes, Clears1
    <3>2. y1 = y
      BY <2>9, <2>11, <2>13 DEF Passes, Stops, Clears1
    <3>3. Joined(y.row, w1.row, x1.row)
      BY <2>8, <2>10, <3>1 DEF Joined, SymDiff
    <3>4. QED
      BY <2>8, <3>2, <3>3
  <2>14. CASE ColumnBit(w.row, c - 1) /\ ~ColumnBit(x.row, c - 1)
    <3>1. w1.row = row_product(w.row, k) /\ x1 = x /\ k # Identity
      BY <1>4, <2>6, <2>7, <2>8, <2>14 DEF Passes, Clears1
    <3>2. y1.row = row_product(y.row, k) /\ y1.free = n
      BY <1>4, <2>8, <2>9, <2>11, <2>14, <3>1 DEF Passes, Stops, Clears1
    <3>3. Joined(y1.row, w1.row, x1.row)
      BY <2>8, <2>10, <3>1, <3>2 DEF Joined, SymDiff
    <3>4. QED
      BY <3>2, <3>3
  <2>15. CASE ~ColumnBit(w.row, c - 1) /\ ColumnBit(x.row, c - 1)
    <3>1. x1.row = row_product(x.row, k) /\ w1 = w /\ k # Identity
      BY <1>4, <2>6, <2>7, <2>8, <2>15 DEF Passes, Clears1
    <3>2. y1.row = row_product(y.row, k) /\ y1.free = n
      BY <1>4, <2>8, <2>9, <2>11, <2>15, <3>1 DEF Passes, Stops, Clears1
    <3>3. Joined(y1.row, w1.row, x1.row)
      BY <2>8, <2>10, <3>1, <3>2 DEF Joined, SymDiff
    <3>4. QED
      BY <3>2, <3>3
  <2>16. QED
    BY <2>12, <2>13, <2>14, <2>15
<1> HIDE DEF P, Unstopped
<1>7. \A c \in 0..n : c \in P
  BY <1>4, <1>5, <1>6, UpToInduction
<1>8. n \in P
  BY <1>4, <1>7
<1>9. QED
  BY <1>1, <1>2, <1>3, <1>8 DEF P, Unstopped, Makes, WalkOf

\* Two rows of one string walk together, and keep the sign between them.
SameWalk(w, x, s) ==
    w.free = x.free /\ w.row.x = x.row.x /\ w.row.z = x.row.z /\ ((w.row.neg <=> x.row.neg) <=> s)

LEMMA SignRides ==
  ASSUME NEW p \in [Spots -> Rows], NEW a \in Rows, NEW b \in Rows, a.x = b.x, a.z = b.z
  PROVE  SameWalk(Reduced(p, a), Reduced(p, b), a.neg <=> b.neg)
<1> DEFINE n == 2 * N
           s == a.neg <=> b.neg
<1>1. PICK f : WalkOf(f, p, a)
  BY WalkExists
<1>2. PICK g : WalkOf(g, p, b)
  BY WalkExists
<1>3. n \in Nat
  BY WidthTwice
<1> DEFINE P == {c \in 0..n : SameWalk(f[c], g[c], s)}
<1>4. 0 \in P
  <2>1. f[0] = Start(a) /\ g[0] = Start(b)
    BY <1>1, <1>2 DEF WalkOf
  <2>2. SameWalk(f[0], g[0], s)
    BY <2>1 DEF Start, SameWalk
  <2>3. QED
    BY <1>3, <2>2
<1>5. \A c \in 1..n : c - 1 \in P => c \in P
  <2> SUFFICES ASSUME NEW c \in 1..n, c - 1 \in P PROVE SameWalk(f[c], g[c], s)
    BY <1>3
  <2> DEFINE w == f[c - 1] x == g[c - 1] w1 == f[c] x1 == g[c] k == p[c - 1]
  <2>1. w \in Walks /\ x \in Walks /\ c - 1 \in Spots /\ w1 = Walked(p, w, c) /\ x1 = Walked(p, x, c)
    BY <1>1, <1>2, WidthTwice DEF WalkOf
  <2>2. SameWalk(w, x, s)
    OBVIOUS
  <2>3. SUFFICES SameWalk(w1, x1, s)
    OBVIOUS
  <2>4. w.row \in Rows /\ x.row \in Rows /\ k \in Rows
    BY <2>1 DEF Walks
  <2> HIDE DEF w, x, w1, x1, s, P
  <2>5. w.free = x.free /\ w.row.x = x.row.x /\ w.row.z = x.row.z
    BY <2>2 DEF SameWalk
  <2>6. ColumnBit(w.row, c - 1) <=> ColumnBit(x.row, c - 1)
    BY <2>5 DEF ColumnBit
  <2>7. Passes(p, w, c, w1) \/ Stops(p, w, c, w1) \/ Clears1(p, w, c, w1)
    BY <2>1, WalkedCases
  <2>8. Passes(p, x, c, x1) \/ Stops(p, x, c, x1) \/ Clears1(p, x, c, x1)
    BY <2>1, WalkedCases
  <2>9. CASE Passes(p, w, c, w1)
    <3>1. x1 = x
      BY <1>3, <2>5, <2>6, <2>8, <2>9 DEF Passes, Stops, Clears1
    <3>2. w1 = w
      BY <2>9 DEF Passes
    <3>3. QED
      BY <2>2, <3>1, <3>2
  <2>10. CASE Stops(p, w, c, w1)
    <3>1. x1.row = x.row /\ x1.free = c - 1
      BY <1>3, <2>5, <2>6, <2>8, <2>10 DEF Passes, Stops, Clears1
    <3>2. w1.row = w.row /\ w1.free = c - 1
      BY <2>10 DEF Stops
    <3>3. QED
      BY <2>2, <3>1, <3>2 DEF SameWalk
  <2>11. CASE Clears1(p, w, c, w1)
    <3>1. x1.row = row_product(x.row, k) /\ x1.free = n
      BY <1>3, <2>5, <2>6, <2>8, <2>11 DEF Passes, Stops, Clears1
    <3>2. w1.row = row_product(w.row, k) /\ w1.free = n
      BY <2>11 DEF Clears1
    <3> DEFINE m == row_product(w.row, k) o == row_product(x.row, k)
               e == StringPhase(w.row.x, w.row.z, k.x, k.z) % 4 = 2
    <3>3. m.x = o.x /\ m.z = o.z
      BY <2>5 DEF row_product
    <3>4. m.neg = ((w.row.neg # k.neg) # e) /\ o.neg = ((x.row.neg # k.neg) # e)
      BY <2>5 DEF row_product
    <3>5. w.row.neg \in BOOLEAN /\ x.row.neg \in BOOLEAN /\ k.neg \in BOOLEAN /\ e \in BOOLEAN
      BY <2>4 DEF Rows
    <3> HIDE DEF m, o, e
    <3>6. (m.neg <=> o.neg) <=> (w.row.neg <=> x.row.neg)
      BY <3>4, <3>5
    <3>7. SameWalk(w1, x1, s)
      BY <2>2, <3>1, <3>2, <3>3, <3>6 DEF SameWalk, m, o
    <3>8. QED
      BY <3>7
  <2>12. QED
    BY <2>7, <2>9, <2>10, <2>11
<1> HIDE DEF P, s
<1>6. \A c \in 0..n : c \in P
  BY <1>3, <1>4, <1>5, UpToInduction
<1>7. n \in P
  BY <1>3, <1>6
<1>8. Reduced(p, a) = f[n] /\ Reduced(p, b) = g[n]
  BY <1>1, <1>2 DEF WalkOf
<1>9. QED
  BY <1>7, <1>8 DEF P, s

\* The pivots of a tableau: each fixes the vector, and each stabilizer is made.
PivotsFor(p, u, v) ==
    Shaped(p) /\ AllFix(p, v) /\ \A k \in Qubits : Makes(p, u.stab[k])

LEMMA PivotsLaws ==
  ASSUME NEW u \in Tableaux, NEW v \in Vectors, Stabilizes(u, v), Norm(v) = One
  PROVE  PivotsFor(Pivots(u), u, v)
<1> DEFINE V == {p \in [Spots -> Rows] : Shaped(p) /\ AllFix(p, v)}
           None == [c \in Spots |-> Identity]
           Next1(k, p) == Insert(p, u.stab[k - 1])
           step == [y \in (1..N) \X V |-> Next1(y[1], y[2])]
<1>1. N \in Nat /\ \A k \in 1..N : k - 1 \in Qubits /\ u.stab[k - 1] \in Rows /\ Fixes(u.stab[k - 1], v)
  <2>1. \A k \in 1..N : k - 1 \in Qubits
    BY WidthAssumption DEF Qubits
  <2>2. QED
    BY <2>1, WidthAssumption DEF Tableaux, Stabilizes
<1>2. None \in V
  BY IdentityRow DEF Shaped, AllFix
<1>3. \A k \in 1..N, p \in V : Next1(k, p) \in V /\ Inserted(p, v, u.stab[k - 1], Next1(k, p))
  <2> TAKE k \in 1..N, p \in V
  <2>1. Inserted(p, v, u.stab[k - 1], Next1(k, p))
    BY <1>1, InsertLaws
  <2>2. QED
    BY <2>1 DEF Inserted, Shaped
<1> DEFINE After[k \in 0..N] ==
             IF k = 0 THEN [c \in 0..(2 * N - 1) |-> Identity] ELSE Insert(After[k - 1], u.stab[k - 1])
<1>4. Pivots(u) = After[N]
  BY DEF Pivots
<1> HIDE DEF Next1, V
<1>5. Stepper(step, N, V) /\ \A k \in 1..N, p \in V : step[<<k, p>>] = Next1(k, p)
  BY <1>3 DEF Stepper
<1> HIDE DEF step, None
<1>6. PICK f : f \in [0..N -> V] /\ f = [k \in 0..N |-> IF k = 0 THEN None ELSE step[<<k, f[k - 1]>>]]
  BY <1>1, <1>2, <1>5, RecursionFunction
<1>7. \A k \in 0..N : k # 0 => step[<<k, f[k - 1]>>] = Next1(k, f[k - 1])
  BY <1>1, <1>5, <1>6
<1>8. f = [k \in 0..N |-> IF k = 0 THEN None ELSE Next1(k, f[k - 1])]
  BY <1>6, <1>7
<1>9. After = [k \in 0..N |-> IF k = 0 THEN None ELSE Next1(k, After[k - 1])]
  BY <1>8 DEF None, Next1, Spots
<1> HIDE DEF After
<1>10. After[0] = None /\ \A k \in 1..N : After[k] = Next1(k, After[k - 1])
  <2>1. 0 \in 0..N /\ \A k \in 1..N : k \in 0..N /\ k # 0
    BY <1>1
  <2>2. QED
    BY <1>9, <2>1
<1> DEFINE P == {k \in 0..N : After[k] \in V /\ \A j \in Qubits : j < k => Makes(After[k], u.stab[j])}
<1>11. 0 \in P
  <2>1. \A j \in Qubits : ~(j < 0)
    BY DEF Qubits
  <2>2. QED
    BY <1>1, <1>2, <1>10, <2>1
<1>12. \A k \in 1..N : k - 1 \in P => k \in P
  <2> SUFFICES ASSUME NEW k \in 1..N, k - 1 \in P PROVE k \in P
    OBVIOUS
  <2> DEFINE p == After[k - 1] q == After[k]
  <2>1. p \in V /\ k \in 0..N /\ \A j \in Qubits : j < k - 1 => Makes(p, u.stab[j])
    BY <1>1
  <2>2. q \in V /\ Inserted(p, v, u.stab[k - 1], q)
    BY <1>3, <1>10, <2>1
  <2>3. \A j \in Qubits : u.stab[j] \in Rows /\ (j < k => j < k - 1 \/ j = k - 1)
    <3>1. \A j \in Qubits : j < k => j < k - 1 \/ j = k - 1
      BY <1>1 DEF Qubits
    <3>2. QED
      BY <3>1 DEF Tableaux
  <2>4. p \in [Spots -> Rows] /\ Extends(p, q) /\ Makes(q, u.stab[k - 1])
    BY <2>1, <2>2 DEF V, Inserted
  <2> HIDE DEF p, q
  <2>5. \A j \in Qubits : j < k => Makes(q, u.stab[j])
    BY <2>1, <2>3, <2>4, MakesMore
  <2>6. QED
    BY <2>1, <2>2, <2>5 DEF q
<1> HIDE DEF P
<1>13. \A k \in 0..N : k \in P
  BY <1>1, <1>11, <1>12, UpToInduction
<1>14. N \in P
  BY <1>1, <1>13
<1>15. \A j \in Qubits : j < N
  BY WidthAssumption DEF Qubits
<1>16. QED
  BY <1>4, <1>14, <1>15 DEF P, V, PivotsFor

\* The pivots make every product of stabilizers.
LEMMA MakesProducts ==
  ASSUME NEW u \in Tableaux, NEW v \in Vectors, NEW p, PivotsFor(p, u, v), NEW S
  PROVE  Product(u, S) \in Rows /\ Makes(p, Product(u, S))
<1>1. p \in [Spots -> Rows] /\ N \in Nat /\ \A k \in 1..N : k - 1 \in Qubits /\ u.stab[k - 1] \in Rows /\ Makes(p, u.stab[k - 1])
  <2>1. \A k \in 1..N : k - 1 \in Qubits
    BY WidthAssumption DEF Qubits
  <2>2. QED
    BY <2>1, WidthAssumption DEF Tableaux, PivotsFor, Shaped
<1>2. PICK f : f \in [0..N -> Rows] /\ ProductUpTo(f, u, S) /\ Product(u, S) = f[N]
  BY ProductSteps
<1>3. f[0] = Identity /\ \A k \in 1..N : f[k] = IF k - 1 \in S THEN row_product(f[k - 1], u.stab[k - 1]) ELSE f[k - 1]
  <2>1. 0 \in 0..N /\ \A k \in 1..N : k \in 0..N /\ k # 0
    BY <1>1
  <2>2. QED
    BY <1>2, <2>1 DEF ProductUpTo
<1> DEFINE P == {k \in 0..N : Makes(p, f[k])}
<1>4. Makes(p, Identity)
  <2>1. Identity \in Rows /\ \A c \in Spots : ~ColumnBit(Identity, c)
    BY IdentityRow DEF ColumnBit
  <2>2. PICK g : WalkOf(g, p, Identity)
    BY <1>1, <2>1, WalkExists
  <2> DEFINE n == 2 * N
             Q == {c \in 0..n : g[c] = Start(Identity)}
  <2>3. n \in Nat
    BY WidthTwice
  <2>4. 0 \in Q
    BY <2>2, <2>3 DEF WalkOf
  <2>5. \A c \in 1..n : c - 1 \in Q => c \in Q
    <3> SUFFICES ASSUME NEW c \in 1..n, c - 1 \in Q PROVE g[c] = Start(Identity)
      BY <2>3
    <3>1. g[c - 1] = Start(Identity) /\ g[c] = Walked(p, g[c - 1], c) /\ c - 1 \in Spots
      BY <2>2, WidthTwice DEF WalkOf
    <3>2. ~ColumnBit(g[c - 1].row, c - 1)
      BY <2>1, <3>1 DEF Start
    <3>3. QED
      BY <3>1, <3>2 DEF Walked
  <2> HIDE DEF Q
  <2>6. \A c \in 0..n : c \in Q
    BY <2>3, <2>4, <2>5, UpToInduction
  <2>7. n \in Q
    BY <2>3, <2>6
  <2>8. g[n].free = n
    BY <2>7 DEF Q, Start
  <2>9. QED
    BY <2>2, <2>8 DEF WalkOf, Makes
<1>5. 0 \in P
  BY <1>1, <1>3, <1>4
<1>6. \A k \in 1..N : k - 1 \in P => k \in P
  <2> SUFFICES ASSUME NEW k \in 1..N, k - 1 \in P PROVE Makes(p, f[k])
    BY <1>1
  <2> DEFINE a == f[k - 1] b == u.stab[k - 1]
  <2>1. a \in Rows /\ b \in Rows /\ Makes(p, a) /\ Makes(p, b)
    BY <1>1, <1>2
  <2>2. f[k] = IF k - 1 \in S THEN row_product(a, b) ELSE a
    BY <1>3
  <2> HIDE DEF a, b
  <2>3. row_product(a, b) \in Rows /\ Joined(row_product(a, b), a, b)
    BY <2>1, JoinedProduct
  <2>4. Makes(p, row_product(a, b))
    BY <1>1, <2>1, <2>3, MakesProduct
  <2>5. QED
    BY <2>1, <2>2, <2>4
<1> HIDE DEF P
<1>7. \A k \in 0..N : k \in P
  BY <1>1, <1>5, <1>6, UpToInduction
<1>8. N \in 0..N
  BY <1>1
<1>9. QED
  BY <1>2, <1>7, <1>8 DEF P

\* The elimination finds the mean of every string.
LEMMA ExpectationsAgree ==
  ASSUME NEW u, NEW v, Describes(u, v), NEW x \in SUBSET Qubits, NEW z \in SUBSET Qubits
  PROVE  Int2Amp(stabilizer_expectation(u, x, z)) = ExpectationPauli(v, x, z)
<1> DEFINE t == Str(x, z)
           p == Pivots(u)
           e == stabilizer_expectation(u, x, z)
<1>1. u \in Tableaux /\ v \in Vectors /\ Stabilizes(u, v) /\ Sound(u, v) /\ Norm(v) = One
  BY DEF Describes, Sound
<1>2. t \in Rows /\ t.x = x /\ t.z = z /\ t.neg = FALSE
  BY StrRow
<1>3. ExpectationPauli(v, x, z) = MeanOf(v, t)
  BY <1>1, MeanIs
<1>4. e = IF \E k \in Qubits : anticommutes(u.stab[k], t) THEN 0 ELSE Express(p, t)
  BY DEF stabilizer_expectation, Str
<1> HIDE DEF e, p
<1>5. CASE \E k \in Qubits : anticommutes(u.stab[k], t)
  <2>1. PICK k \in Qubits : anticommutes(u.stab[k], t)
    BY <1>5
  <2> DEFINE g == u.stab[k]
  <2>2. g \in Rows /\ Fixes(g, v) /\ anticommutes(g, t)
    BY <1>1, <2>1 DEF Tableaux, Stabilizes
  <2> HIDE DEF g, t
  <2>3. MeanOf(v, t) = Zero
    BY <1>1, <1>2, <2>2, OpposedMean
  <2>4. e = 0
    BY <1>4, <1>5
  <2>5. QED
    BY <1>3, <2>3, <2>4 DEF Zero, e
<1>6. CASE ~\E k \in Qubits : anticommutes(u.stab[k], t)
  <2> DEFINE S == Selected(u, x, z)
             r == Product(u, S)
             w == Reduced(p, t)
             y == Reduced(p, r)
  <2>1. ProductOf(u, S, v, r) /\ r.x = x /\ r.z = z
    BY <1>1, <1>6, CommutesIsProduct
  <2>2. r \in Rows /\ Fixes(r, v)
    BY <2>1 DEF ProductOf
  <2>3. MeanOf(v, t) = SignOf(r.neg)
    <3> HIDE DEF r
    <3>1. MeanOf(v, Str(r.x, r.z)) = SignOf(r.neg)
      BY <1>1, <2>2, SignedMean
    <3>2. QED
      BY <2>1, <3>1
  <2>4. PivotsFor(p, u, v)
    BY <1>1, PivotsLaws DEF p
  <2>5. Makes(p, r)
    BY <1>1, <2>4, MakesProducts
  <2> HIDE DEF S, r, t
  <2>6. Shaped(p) /\ AllFix(p, v) /\ p \in [Spots -> Rows]
    BY <2>4 DEF PivotsFor, Shaped
  <2>7. SameWalk(w, y, t.neg <=> r.neg)
    BY <1>2, <2>1, <2>2, <2>6, SignRides
  <2>8. y.free = 2 * N
    BY <2>5 DEF Makes
  <2>9. WalkInv(p, v, y, 2 * N)
    <3>1. PICK f : WalkOf(f, p, r)
      BY <2>2, <2>6, WalkExists
    <3>2. 2 * N \in 0..(2 * N)
      BY WidthTwice
    <3>3. WalkInv(p, v, f[2 * N], 2 * N)
      BY <1>1, <2>2, <2>6, <3>1, <3>2, WalkSound
    <3>4. QED
      BY <3>1, <3>3 DEF WalkOf
  <2> HIDE DEF w, y
  <2>10. y.row \in Rows /\ Fixes(y.row, v) /\ Cleared(y.row, 2 * N)
    BY <2>8, <2>9 DEF WalkInv, Walks
  <2>11. y.row.neg = FALSE
    BY <1>1, <2>10, ClearedString, FixersCommute
  <2>12. w.free = 2 * N /\ ~(w.free < 2 * N) /\ ((w.row.neg <=> y.row.neg) <=> (t.neg <=> r.neg))
    BY <2>7, <2>8, WidthTwice DEF SameWalk
  <2>13. r.neg \in BOOLEAN
    BY <2>2 DEF Rows
  <2>14. w.row.neg <=> r.neg
    BY <1>2, <2>11, <2>12, <2>13
  <2>15. e = IF w.row.neg THEN -1 ELSE 1
    BY <1>4, <1>6, <2>12 DEF Express, w
  <2>16. Int2Amp(1) = One /\ Int2Amp(-1) = Neg(One)
    BY DEF One, Neg, Int2Amp, QNeg
  <2>17. Int2Amp(e) = SignOf(r.neg)
    BY <2>14, <2>15, <2>16 DEF SignOf
  <2>18. QED
    BY <1>3, <2>3, <2>17 DEF e, t
<1>7. QED
  BY <1>5, <1>6

\* Whatever Pauli string is observed, the elimination on the tableau answers
\* with its mean in the dense vector, sign included (stabilizer.rs
\* stabilizer_expectation).
THEOREM TableauExpectations ==
  Spec => [](tab # NoTableau =>
               \A x, z \in SUBSET Qubits :
                   Int2Amp(stabilizer_expectation(tab, x, z)) = ExpectationPauli(psi, x, z))
<1>1. DescribedInv => (tab # NoTableau =>
               \A x, z \in SUBSET Qubits :
                   Int2Amp(stabilizer_expectation(tab, x, z)) = ExpectationPauli(psi, x, z))
  BY ExpectationsAgree DEF DescribedInv
<1>2. QED
  BY <1>1, DescribedHolds, PTL
=============================================================================
