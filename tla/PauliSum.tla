------------------------------ MODULE PauliSum ------------------------------
(***************************************************************************)
(* The data of the Pauli-propagation engine (omega-backend-pauliprop): an  *)
(* observable as a weighted sum of raw Pauli strings X^x Z^z, keyed by     *)
(* <<x, z>>, each with a coefficient and a split frequency; how a Clifford *)
(* gate maps a string, what a gate is compiled to, the adjoint of the noise*)
(* channels, the truncation and the price of a run.                        *)
(***************************************************************************)
EXTENDS StateVector

\* A loop over a hash map, in an order that is not known, and along a list.
OverSet(op(_, _), base, S) ==
    MapThenFoldSet(op, base, LAMBDA x : x, LAMBDA s : CHOOSE x \in s : TRUE, S)

Along(op(_, _), base, seq) ==
    LET After[n \in 0..Len(seq)] ==
            IF n = 0 THEN base ELSE op(After[n - 1], seq[n])
    IN  After[Len(seq)]

EmptySum == <<>>

\* Merge: coefficients add, the frequency is the smaller one.  A coefficient
\* that cancels to zero keeps its entry.
add_weighted(sum, key, c, freq) ==
    IF key \in DOMAIN sum
    THEN [sum EXCEPT ![key] = [c |-> Plus(@.c, c), freq |-> IF freq < @.freq THEN freq ELSE @.freq]]
    ELSE [k \in DOMAIN sum \cup {key} |-> IF k = key THEN [c |-> c, freq |-> freq] ELSE sum[k]]

\* (Z to the left) past (X to the right): the sign of a raw product.
RawSign(z, x) == IF Odd(z \cap x) THEN Neg(One) ELSE One

anticommutes_with(key, gx, gz) == Odd(key[1] \cap gz) # Odd(key[2] \cap gx)

Support(sum) == UNION {key[1] \cup key[2] : key \in DOMAIN sum}

-----------------------------------------------------------------------------
(* Clifford images: G^dagger P G for P = X, Z of each wire of the gate, as *)
(* raw strings [x, z, f].                                                  *)

Raw(x, z, f) == [x |-> x, z |-> z, f |-> f]
RawMul(a, b) == Raw(SymDiff(a.x, b.x), SymDiff(a.z, b.z), Times(Times(a.f, b.f), RawSign(a.z, b.x)))

\* <<image of X, image of Z>> for each wire in turn.
Images(g) ==
    LET q == g.qs[1]
        t == g.qs[Len(g.qs)]
        P(x, z) == Raw(x, z, One)
        M(x, z) == Raw(x, z, Neg(One))
        pX == P({q}, {})
        pZ == P({}, {q})
    IN  CASE g.op = "H"    -> <<pZ, pX>>
          [] g.op = "X"    -> <<pX, M({}, {q})>>
          [] g.op = "Y"    -> <<M({q}, {}), M({}, {q})>>
          [] g.op = "Z"    -> <<M({q}, {}), pZ>>
          [] g.op = "S"    -> <<Raw({q}, {q}, Neg(ImUnit)), pZ>>
          [] g.op = "Sdg"  -> <<Raw({q}, {q}, ImUnit), pZ>>
          [] g.op = "Sx"   -> <<pX, Raw({q}, {q}, ImUnit)>>
          [] g.op = "Sxdg" -> <<pX, Raw({q}, {q}, Neg(ImUnit))>>
          [] g.op = "CX"   -> <<P({q, t}, {}), pZ, P({t}, {}), P({}, {q, t})>>
          [] g.op = "CZ"   -> <<P({q}, {t}), pZ, P({t}, {q}), P({}, {t})>>
          [] g.op = "CY"   -> <<Raw({q, t}, {t}, ImUnit), pZ, P({t}, {q}), P({}, {q, t})>>
          [] g.op = "Swap" -> <<P({t}, {}), P({}, {t}), pX, pZ>>

\* The images of the letters present in key on the wires of the gate,
\* multiplied in the order x, z wire by wire; other wires are unchanged.
ConjugateKey(g, key) ==
    LET im == Images(g)
        W  == Range(g.qs)
        Letter(i) == IF i % 2 = 1 THEN g.qs[(i + 1) \div 2] \in key[1]
                                  ELSE g.qs[i \div 2] \in key[2]
        Into(acc, i) == IF Letter(i) THEN RawMul(acc, im[i]) ELSE acc
        local == Along(Into, Raw({}, {}, One), [i \in 1..Len(im) |-> i])
    IN  Raw(local.x \cup (key[1] \ W), local.z \cup (key[2] \ W), local.f)

\* map_single, map_two: one string to one string.
MapSum(sum, g) ==
    LET Into(key, acc) ==
            LET im == ConjugateKey(g, key)
            IN  add_weighted(acc, <<im.x, im.z>>, Times(sum[key].c, im.f), sum[key].freq)
    IN  OverSet(Into, EmptySum, DOMAIN sum)

-----------------------------------------------------------------------------
(* What a gate is compiled to: Clifford maps and branchings by the rotation*)
(* exp(-i th/2 R), R Hermitian = factor . X^gx Z^gz, in the order in which *)
(* the engine applies them.                                                *)

Map(name, wires) == <<[do |-> "map", g |-> Gate(name, wires)]>>
Branch(gx, gz, th) == <<[do |-> "branch", gx |-> gx, gz |-> gz, th |-> th]>>

\* Every Y of the generator owes a factor i.
Factor(gx, gz) == Ei(2 * Cardinality(gx \cap gz))

\* CCZ on wires a, b, t, as the seven products of Z.
Seven(a, b, t) ==
    Branch({}, {a}, -1) \o Branch({}, {b}, -1) \o Branch({}, {t}, -1)
      \o Branch({}, {a, b}, 1) \o Branch({}, {a, t}, 1) \o Branch({}, {b, t}, 1)
      \o Branch({}, {a, b, t}, -1)

Euler(q, theta, phi, lam) ==
    Branch({}, {q}, phi) \o Branch({q}, {q}, theta) \o Branch({}, {q}, lam)

\* The match of conjugate.  CU3 only in the form CU3(0, 0, lambda).
Program(g) ==
    LET q == g.qs[1]
        r == g.qs[Len(g.qs)]
    IN  CASE g.op \in {"H", "X", "Y", "Z", "S", "Sdg", "Sx", "Sxdg", "CX", "CZ", "CY", "Swap"}
                  -> Map(g.op, g.qs)
          [] g.op \in {"Rz", "U1"} -> Branch({}, {q}, g.th[1])
          [] g.op = "Rx"  -> Branch({q}, {}, g.th[1])
          [] g.op = "Ry"  -> Branch({q}, {q}, g.th[1])
          [] g.op = "T"   -> Branch({}, {q}, 1)
          [] g.op = "Tdg" -> Branch({}, {q}, -1)
          [] g.op = "CRz" -> Branch({}, {r}, g.th[1] \div 2) \o Branch({}, {q, r}, -(g.th[1] \div 2))
          [] g.op = "CU3" -> Branch({}, {q}, g.th[3] \div 2) \o Branch({}, {r}, g.th[3] \div 2)
                               \o Branch({}, {q, r}, -(g.th[3] \div 2))
          [] g.op = "U3"  -> Euler(q, g.th[1], g.th[2], g.th[3])
          [] g.op = "U2"  -> Euler(q, 2, g.th[1], g.th[2])
          [] g.op = "Rbs" -> Branch({q, r}, {q}, g.th[1]) \o Branch({q, r}, {r}, -g.th[1])
          [] g.op = "CCX" -> Map("H", <<r>>) \o Seven(q, g.qs[2], r) \o Map("H", <<r>>)
          [] g.op = "CSwap" -> LET a == g.qs[2] IN
                Map("CX", <<r, a>>) \o Map("H", <<r>>) \o Seven(q, a, r)
                  \o Map("H", <<r>>) \o Map("CX", <<r, a>>)
          [] g.op \in {"Id", "Barrier", "Measure"} -> <<>>

Dispatched(g) ==
    /\ g.op \notin {"Reset"}
    /\ g.op = "CU3" => g.th[1] = 0 /\ g.th[2] = 0
    /\ Cardinality(Range(g.qs)) = Len(g.qs)

\* CX(a, b); Rz(th) b; CX(a, b), adjacent, is one rotation by Z_a Z_b.
ZzTriple(ops, end) ==
    /\ end >= 3
    /\ LET f == ops[end - 2]
           m == ops[end - 1]
           l == ops[end]
       IN  /\ \A g \in {f, m, l} : ~Conditioned(g)
           /\ f.op = "CX" /\ m.op = "Rz" /\ l.op = "CX"
           /\ f.qs = l.qs /\ m.qs = <<f.qs[2]>>
           /\ f.qs[1] # f.qs[2]

-----------------------------------------------------------------------------
(* Noise.  A model gives rates as exact numbers:                           *)
(*   third   a third of the depolarizing rate, by arity, with a table for  *)
(*           pairs of wires;                                               *)
(*   px, py, pz   the Pauli channel;                                       *)
(*   gamma, root  amplitude damping and sqrt(1 - gamma);                   *)
(*   lambda       phase damping;   p10, p01   the readout error.           *)

DepolarizingThird(model, g) ==
    IF Len(g.qs) = 1 THEN model.third[1]
    ELSE IF Len(g.qs) = 2 /\ Range(g.qs) \in DOMAIN model.pairs THEN model.pairs[Range(g.qs)]
    ELSE model.third[2]

Suffers(g) == g.op \notin {"Measure", "Barrier"}

\* Multiply every coefficient by the factor of its letter on wire q.
ScaleBy(sum, q, F(_, _)) ==
    [key \in DOMAIN sum |-> [sum[key] EXCEPT !.c = Times(@, F(q \in key[1], q \in key[2]))]]

AmplitudeDampingAdjoint(sum, q, gamma, root) ==
    LET Into(key, acc) ==
            LET w == sum[key] IN
            IF q \in key[1] THEN add_weighted(acc, key, Times(w.c, root), w.freq)
            ELSE IF q \notin key[2] THEN add_weighted(acc, key, w.c, w.freq)
            ELSE add_weighted(add_weighted(acc, key, Times(w.c, Minus(One, gamma)), w.freq),
                              <<key[1], key[2] \ {q}>>, Times(w.c, gamma), w.freq)
    IN  IF gamma = Zero THEN sum ELSE OverSet(Into, EmptySum, DOMAIN sum)

DepolarizingAdjoint(sum, q, third) ==
    LET F(x, z) == IF x \/ z THEN Minus(One, Scale(third, 4)) ELSE One
    IN  ScaleBy(sum, q, F)

PhaseDampingAdjoint(sum, q, lambda) ==
    LET F(x, z) == IF x THEN Minus(One, lambda) ELSE One
    IN  ScaleBy(sum, q, F)

PauliChannelAdjoint(sum, q, m) ==
    LET pi == Minus(One, Plus(Plus(m.px, m.py), m.pz))
        F(x, z) == IF x /\ z THEN Plus(Minus(pi, m.px), Minus(m.py, m.pz))
                   ELSE IF x THEN Plus(Plus(pi, m.px), Neg(Plus(m.py, m.pz)))
                   ELSE IF z THEN Plus(Minus(pi, m.px), Minus(m.pz, m.py))
                   ELSE One
    IN  ScaleBy(sum, q, F)

\* A mistake: amplitude damping last.
SlipOrder(model, g, sum, q) ==
    AmplitudeDampingAdjoint(
      PauliChannelAdjoint(
        PhaseDampingAdjoint(
          DepolarizingAdjoint(sum, q, DepolarizingThird(model, g)),
          q, model.lambda),
        q, model),
      q, model.gamma, model.root)

\* The channels of one wire after gate g, backwards: amplitude damping first,
\* since it is not unital.
WireNoiseAdjoint(model, g, sum, q) ==
    PauliChannelAdjoint(
      PhaseDampingAdjoint(
        DepolarizingAdjoint(
          AmplitudeDampingAdjoint(sum, q, model.gamma, model.root),
          q, DepolarizingThird(model, g)),
        q, model.lambda),
      q, model)

GateNoiseAdjoint(model, g, sum) ==
    LET Wire(acc, q) == WireNoiseAdjoint(model, g, acc, q)
    IN  IF Suffers(g) THEN Along(Wire, sum, g.qs) ELSE sum

\* A symmetric readout error flips each measured bit: Z and Y lose 2 p, X
\* keeps.  An asymmetric one is refused.
ReadoutRefused(model) == model.p10 # model.p01

ReadoutAdjoint(model, sum) ==
    LET F(x, z) == IF z THEN Minus(One, Scale(model.p10, 2)) ELSE One
        Wire(q, acc) == ScaleBy(acc, q, F)
    IN  OverSet(Wire, sum, Qubits)

-----------------------------------------------------------------------------
(* Truncation and the value.                                               *)

None == -1      \* a knob that is not set

Mass(sum, keys) == LET M(k) == Modulus(sum[k].c) IN SumOver(M, keys)

TooSmall(sum, key, floor) == ~AtMost(floor, Modulus(sum[key].c))

\* The keys that truncate drops.
Cut(sum, knobs) ==
    {key \in DOMAIN sum :
        \/ TooSmall(sum, key, knobs.coeff_min)
        \/ knobs.max_weight # None /\ Cardinality(key[1] \cup key[2]) > knobs.max_weight
        \/ knobs.max_freq # None /\ sum[key].freq > knobs.max_freq}

\* <0|O|0>: the strings without an X part.
ValueAtZero(sum) ==
    LET C(key) == sum[key].c
    IN  SumOver(C, {key \in DOMAIN sum : key[1] = {}})

-----------------------------------------------------------------------------
(* The price of a run before it starts (bound.rs).                         *)

\* A mistake: one branching for a gate that has two generators.
SlipCalls(g) ==
    CASE g.op \in {"Rz", "Rx", "Ry", "U1", "T", "Tdg", "CRz", "Rbs"} -> 1
      [] g.op \in {"U3", "U2", "CU3"} -> 3
      [] g.op \in {"CCX", "CSwap"} -> 7
      [] OTHER -> 0

branch_calls(g) ==
    CASE g.op \in {"H", "X", "Y", "Z", "S", "Sdg", "Sx", "Sxdg", "CX", "CZ", "CY", "Swap",
                   "Id", "Barrier", "Measure"} -> 0
      [] g.op \in {"Rz", "Rx", "Ry", "U1", "T", "Tdg"} -> 1
      [] g.op \in {"CRz", "Rbs"} -> 2
      [] g.op \in {"U3", "U2", "CU3"} -> 3
      [] g.op \in {"CCX", "CSwap"} -> 7
      [] OTHER -> None      \* refused by the engine, priced at the cap

SmallestOf(S) == CHOOSE x \in S : \A y \in S : x <= y

\* The light cone, grown backwards from the strings of the observable; the
\* branchings of the gates it meets; the three ceilings.
term_upper_bound(ops, obs, cap) ==
    LET Back(acc, g) ==
            IF Range(g.qs) \cap acc.cone = {} THEN acc
            ELSE [cone |-> acc.cone \cup Range(g.qs),
                  n |-> IF None \in {acc.n, branch_calls(g)} THEN None ELSE acc.n + branch_calls(g)]
        start == [cone |-> UNION {t[1] \cup t[2] : t \in obs}, n |-> 0]
        end == Along(Back, start, Reverse(ops))
        seed == IF obs = {} THEN 1 ELSE Cardinality(obs)
    IN  IF end.n = None THEN cap + 2
        ELSE SmallestOf({seed * 2 ^ end.n, 2 ^ (2 * Cardinality(end.cone)), cap + 2})
=============================================================================
