------------------------------ MODULE StabRank ------------------------------
(***************************************************************************)
(* The stabilizer-rank engine (omega-backend-stabrank): a state is a sum   *)
(* c_1|phi_1> + ... + c_chi|phi_chi> of CH forms, here a sequence of       *)
(* records [c, st].  Clifford gates change every branch; a Pauli rotation  *)
(* by anything but a quarter turn doubles the branches.  This is the exact *)
(* engine, StabRankBackend::new: neither coefficient floor nor chi cut.    *)
(* A run past the branch ceiling or off the gate table is refused.         *)
(***************************************************************************)
EXTENDS ChForm

CONSTANT max_branches
ASSUME BranchesAssumption == max_branches \in Nat \ {0}

Refused == <<>>

\* A loop over a list.
ForEach(Op(_, _), x, list) ==
    LET After[k \in 0..Len(list)] == IF k = 0 THEN x ELSE Op(After[k - 1], list[k])
    IN  After[Len(list)]

SumZero == <<[c |-> One, st |-> ChZero]>>

clifford(sum, Op(_)) == [i \in DOMAIN sum |-> [sum[i] EXCEPT !.st = Op(@)]]
scale(sum, z) == [i \in DOMAIN sum |-> [sum[i] EXCEPT !.c = Times(@, z)]]

\* A Pauli string is a sequence of sites <<wire, letter>>.
OnSites(sites, L) == {q \in Qubits : \E i \in DOMAIN sites : sites[i][1] = q /\ sites[i][2] \in L}
ApplySites(st, sites) == apply_pauli(st, OnSites(sites, {"X", "Y"}), OnSites(sites, {"Y", "Z"}))

\* exp(-+ i pi/4 P): P is turned into Z on the pivot, S^(+-1) is applied
\* there, and the scalar the square root owes is kept.
sqrt_pauli(st, sites, dagger) ==
    LET pivot == sites[1][1]
        ToZ(x, i) ==
            IF i[2] = "Z" THEN x ELSE h_gate(IF i[2] = "Y" THEN sdg_gate(x, i[1]) ELSE x, i[1])
        FromZ(x, i) ==
            CASE i[2] = "X" -> h_gate(x, i[1])
              [] i[2] = "Y" -> s_gate(h_gate(x, i[1]), i[1])
              [] i[2] = "Z" -> x
        Collect(x, i) == IF i[1] = pivot THEN x ELSE cx_gate(x, i[1], pivot)
        onPivot == ForEach(Collect, ForEach(ToZ, st, sites), sites)
        turned  == PhaseShift(onPivot, pivot, IF dagger THEN 1 ELSE 3)
    IN  scale_phase(ForEach(FromZ, ForEach(Collect, turned, sites), sites),
                    Ei(IF dagger THEN 1 ELSE -1))

\* exp(-i phi/2 P) where phi is a quarter turn, phi = k pi/2: no branching.
\* The turns are counted modulo 8, since a full turn is a factor -1.
QuarterTurn(sum, sites, k) ==
    LET Turned(st) == IF k % 2 = 1 THEN sqrt_pauli(st, sites, k % 4 = 3) ELSE ApplySites(st, sites)
        factor == CASE k \in {0, 1, 7} -> One
                    [] k \in {3, 4, 5} -> Neg(One)
                    [] k = 2 -> Neg(ImUnit)
                    [] k = 6 -> ImUnit
    IN  scale(IF k % 4 = 0 THEN sum ELSE clifford(sum, Turned), factor)

\* exp(-i phi/2 P) for phi = m pi/4, m odd, together with the scalar
\* exp(i phi/2) that T, Tdg and U1 put in front: the factors of I and P are
\* (1 + exp(i phi))/2 and (1 - exp(i phi))/2.
PhasedSplit(sum, sites, m) ==
    LET half == Dyadic(1, 1)
        keep == Times(half, Plus(One, Ei(m)))
        flip == Times(half, Minus(One, Ei(m)))
        Legs(br) == <<[c |-> Times(br.c, flip), st |-> ApplySites(br.st, sites)],
                      [c |-> Times(br.c, keep), st |-> br.st]>>
    IN  IF 2 * Len(sum) > max_branches THEN Refused
        ELSE [i \in 1..(2 * Len(sum)) |-> Legs(sum[(i + 1) \div 2])[2 - (i % 2)]]

\* exp(i phi/2) exp(-i phi/2 P), phi = th pi/4.
PhasedRotation(sum, sites, th) ==
    IF th % 2 = 0
    THEN scale(QuarterTurn(sum, sites, (th \div 2) % 8), Ei(th \div 2))
    ELSE PhasedSplit(sum, sites, th)

\* The rotations a gate is made of: sites and angle.  Rx, Ry, Rz and Rbs are
\* modelled at quarter turns, where the dense reference is exact.
Turns(g) ==
    LET q == g.qs[1]
        r == g.qs[Len(g.qs)]
    IN  CASE g.op = "Rx"  -> << <<<<<<q, "X">>>>, g.th[1]>> >>
          [] g.op = "Ry"  -> << <<<<<<q, "Y">>>>, g.th[1]>> >>
          [] g.op = "Rz"  -> << <<<<<<q, "Z">>>>, g.th[1]>> >>
          [] g.op = "Rbs" -> << <<<<<<q, "Y">>, <<r, "X">>>>, g.th[1]>>,
                                <<<<<<q, "X">>, <<r, "Y">>>>, -g.th[1]>> >>

\* The gate table.
SumGate(sum, g) ==
    LET q == g.qs[1]
        r == g.qs[Len(g.qs)]
        Table(st) ==
            CASE g.op = "X"    -> x_gate(st, q)
              [] g.op = "Y"    -> y_gate(st, q)
              [] g.op = "Z"    -> z_gate(st, q)
              [] g.op = "H"    -> h_gate(st, q)
              [] g.op = "S"    -> s_gate(st, q)
              [] g.op = "Sdg"  -> sdg_gate(st, q)
              [] g.op = "Sx"   -> sx_gate(st, q)
              [] g.op = "Sxdg" -> sxdg_gate(st, q)
              [] g.op = "CX"   -> cx_gate(st, q, r)
              [] g.op = "CY"   -> cy_gate(st, q, r)
              [] g.op = "CZ"   -> cz_gate(st, q, r)
              [] g.op = "Swap" -> swap_gate(st, q, r)
        Turned(s, turn) == QuarterTurn(s, turn[1], (turn[2] \div 2) % 8)
        Eighths == CASE g.op = "T" -> 1 [] g.op = "Tdg" -> -1 [] g.op = "U1" -> g.th[1]
    IN  CASE g.op \in {"Id", "Barrier"} -> sum
          [] g.op \in {"T", "Tdg", "U1"} -> PhasedRotation(sum, <<<<q, "Z">>>>, Eighths)
          [] g.op \in {"Rx", "Ry", "Rz", "Rbs"} -> ForEach(Turned, sum, Turns(g))
          [] g.op \in {"U2", "U3", "CRz", "CU3", "CCX", "CSwap", "Measure", "Reset"} -> Refused
          [] OTHER -> clifford(sum, Table)

\* <x|psi> and the pairwise sum over all branches, with no symmetry assumed.
SumAmplitude(sum, x) ==
    LET Term(i) == Times(sum[i].c, amplitude(sum[i].st, x))
    IN  SumOver(Term, DOMAIN sum)

SumExpectation(sum, x, z) ==
    LET Term(ij) == Times(Times(Conj(sum[ij[1]].c), sum[ij[2]].c),
                          overlap(sum[ij[1]].st, apply_pauli(sum[ij[2]].st, x, z)))
    IN  SumOver(Term, (DOMAIN sum) \X (DOMAIN sum))
=============================================================================
