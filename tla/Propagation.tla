----------------------------- MODULE Propagation -----------------------------
(***************************************************************************)
(* Two engines on one noisy circuit.  The dense trajectory engine pushes   *)
(* the state forward, each gate followed by its channels; averaged over the*)
(* trajectories that is a density matrix.  The Pauli-propagation engine    *)
(* pulls the observable backward through the adjoints, keeps it within its *)
(* cutoffs and adds what it discards to dropped_mass.                      *)
(*                                                                         *)
(* First the forward run: states[i + 1] is the state after i gates.  Then  *)
(* propagate, gate by gate from the last; the branching on a rotation goes *)
(* term by term, in the order of a hash map.  The circuit has been         *)
(* prepared: what is left of its measurements and conditions is inert or   *)
(* refused.                                                                *)
(***************************************************************************)
EXTENDS PauliSum

CONSTANT Jobs   \* records [ops, obs, optimize, noise, fold_zz, coeff_min, max_weight,
                \* max_freq, max_terms]
ASSUME JobsAssumption ==
    \A j \in Jobs :
        /\ DOMAIN j = {"ops", "obs", "optimize", "noise", "fold_zz", "coeff_min", "max_weight",
                       "max_freq", "max_terms"}
        /\ j.ops \in Seq(Range(j.ops))
        /\ j.max_terms \in Nat \cup {None}

NoNoise == [off |-> TRUE]       \* no noise model

VARIABLES
    job,            \* what is run
    states,         \* the density matrices between the gates, the last one first to go
    channels,       \* forward: channels of the current gate still to apply
    at,             \* gates applied forward, gates still to undo backward
    phase,          \* "forward", "seed", "back", "done" or "refused"
    program,        \* backward: maps and branchings left of the current gate
    sum,            \* the Pauli sum
    support,        \* wires that may carry a letter: a superset, refreshed by a rebuild
    undrained,      \* terms of sum that the running branching has not read
    out,            \* the sum it builds
    dropped_mass,
    value,          \* the answer, once done
    ideal           \* what it should be: the mean in the last state

vars == <<job, states, channels, at, phase, program, sum, support, undrained, out, dropped_mass, value, ideal>>

Noisy == job.noise # NoNoise
Truncating == job.coeff_min # Zero \/ job.max_weight # None \/ job.max_freq # None
Capped == job.max_terms # None
OverCap(O) == Capped /\ Cardinality(DOMAIN O) > job.max_terms

ZeroDensity == [b \in Basis |-> [c \in Basis |-> IF b = {} /\ c = {} THEN One ELSE Zero]]

Init ==
    /\ job \in Jobs
    /\ states = <<ZeroDensity>>
    /\ channels = <<>> /\ at = 0 /\ phase = "forward" /\ program = <<>>
    /\ sum = EmptySum /\ support = {} /\ undrained = {} /\ out = EmptySum
    /\ dropped_mass = Zero /\ value = Zero /\ ideal = Zero

-----------------------------------------------------------------------------
(* Forward: evolve, averaged over the random draws.                        *)

\* U rho, transposed and conjugated; twice, it is U rho U^dagger.
Half(rho, g) ==
    LET column == [c \in Basis |-> ApplyGate([b \in Basis |-> rho[b][c]], g)]
    IN  [c \in Basis |-> [b \in Basis |-> Conj(column[c][b])]]

\* X, Y, Z drawn with probabilities px, py, pz.
Mixed(rho, q, px, py, pz) ==
    LET rest == Minus(One, Plus(Plus(px, py), pz)) IN
    [b \in Basis |-> [c \in Basis |->
        LET same == (q \in b) = (q \in c)
            s(p) == IF same THEN p ELSE Neg(p)
        IN  Plus(Times(Plus(rest, s(pz)), rho[b][c]),
                 Times(Plus(px, s(py)), rho[Flip(b, q)][Flip(c, q)]))]]

\* The jump moves |1> to |0> with weight gamma, no jump damps the rest.
Damped(rho, q, gamma, root) ==
    [b \in Basis |-> [c \in Basis |->
        IF q \in b /\ q \in c THEN Times(Minus(One, gamma), rho[b][c])
        ELSE IF q \in b \/ q \in c THEN Times(root, rho[b][c])
        ELSE Plus(rho[b][c], Times(gamma, rho[b \cup {q}][c \cup {q}]))]]

\* apply_channel, for each wire in turn.
ChannelsOf(g) ==
    LET Wire(acc, q) == acc \o <<<<"depolarizing", q>>, <<"pauli", q>>, <<"damping", q>>, <<"phase", q>>>>
    IN  IF Noisy /\ Suffers(g) THEN FoldLeft(Wire, <<>>, g.qs) ELSE <<>>

\* A readout error is a bit flip on every wire before it is measured.
ReadOut(rho, m) ==
    LET Wire(q, acc) == Mixed(acc, q, m.p10, Zero, Zero)
    IN  FoldSet(Wire, rho, Qubits)

\* tr(rho O) of the Hermitian observable of the job.
Mean(rho) ==
    LET OfKey(key) ==
            LET OfRow(b) == Times(PauliPhase(key[1], key[2], b), rho[b][SymDiff(b, key[1])])
            IN  Times(job.obs[key], SumOver(OfRow, Basis))
    IN  SumOver(OfKey, DOMAIN job.obs)

Current == states[at + 1]

EvolveGate ==
    /\ phase = "forward" /\ channels = <<>> /\ at < Len(job.ops)
    /\ LET g == job.ops[at + 1] IN
         IF condition_satisfied(g, {})     \* nothing has written a bit
         THEN /\ states' = Append(states, Half(Half(Current, g), g))
              /\ channels' = ChannelsOf(g)
         ELSE states' = Append(states, Current) /\ UNCHANGED channels
    /\ at' = at + 1
    /\ UNCHANGED <<job, phase, program, sum, support, undrained, out, dropped_mass, value, ideal>>

EvolveChannel ==
    /\ phase = "forward" /\ channels # <<>>
    /\ LET q == Head(channels)[2]
           m == job.noise
           third == DepolarizingThird(m, job.ops[at])
           half == Times(m.lambda, Dyadic(1, 1))
           next == CASE Head(channels)[1] = "depolarizing" -> Mixed(Current, q, third, third, third)
                     [] Head(channels)[1] = "pauli"   -> Mixed(Current, q, m.px, m.py, m.pz)
                     [] Head(channels)[1] = "damping" -> Damped(Current, q, m.gamma, m.root)
                     [] Head(channels)[1] = "phase"   -> Mixed(Current, q, Zero, Zero, half)
       IN  states' = [states EXCEPT ![at + 1] = next]
    /\ channels' = Tail(channels)
    /\ UNCHANGED <<job, at, phase, program, sum, support, undrained, out, dropped_mass, value, ideal>>

-----------------------------------------------------------------------------
(* Backward: propagate.                                                    *)

Refuse ==
    /\ phase' = "refused"
    /\ UNCHANGED <<job, states, channels, at, program, sum, support, undrained, out, dropped_mass, value, ideal>>

\* The observable in raw strings, Y = i XZ, then the readout error.
Seed ==
    /\ phase = "forward" /\ channels = <<>> /\ at = Len(job.ops)
    /\ IF Noisy /\ ReadoutRefused(job.noise) THEN Refuse
       ELSE LET raw == [k \in DOMAIN job.obs |->
                           [c |-> Times(job.obs[k], Factor(k[1], k[2])), freq |-> 0]]
            IN  /\ sum' = IF Noisy THEN ReadoutAdjoint(job.noise, raw) ELSE raw
                /\ support' = Support(raw)
                /\ phase' = "back"
                /\ ideal' = Mean(IF Noisy THEN ReadOut(Current, job.noise) ELSE Current)
                /\ UNCHANGED <<job, states, channels, at, program, undrained, out, dropped_mass, value>>

Idle == phase = "back" /\ program = <<>>

\* The end of a gate: what is over the cutoffs is dropped and paid for.
GateEnd(result, dropped) ==
    LET cut == IF Truncating THEN Cut(result, job) ELSE {}
    IN  /\ sum' = [k \in DOMAIN result \ cut |-> result[k]]
        /\ dropped_mass' = Plus(dropped, Mass(result, cut))

\* The three ops up to end are taken as one rotation by ZZ.
Folds(end) == job.fold_zz /\ ~Noisy /\ end <= Len(job.ops) /\ ZzTriple(job.ops, end)

\* One map or branching less; after the last one the gate ends.  The cap is
\* compared at the end of conjugate, which a folded rotation does not enter.
Advance(result, dropped) ==
    /\ program' = Tail(program)
    /\ IF program' = <<>> /\ OverCap(result) /\ ~Folds(at + 3)
       THEN phase' = "refused" /\ sum' = result /\ dropped_mass' = dropped
       ELSE /\ phase' = phase
            /\ IF program' = <<>> THEN GateEnd(result, dropped)
               ELSE sum' = result /\ dropped_mass' = dropped
    /\ states' = IF program' = <<>> THEN SubSeq(states, 1, at + 1) ELSE states
    /\ UNCHANGED <<job, channels, at, value, ideal>>

\* Take the next op, the last that is not undone yet, or three of them where
\* they fold into one rotation by ZZ.  Its noise comes first.
Start ==
    /\ Idle /\ at > 0
    /\ LET g == job.ops[at]
           noised == IF Noisy THEN GateNoiseAdjoint(job.noise, g, sum) ELSE sum
       IN  IF Folds(at)
           THEN /\ program' = Branch({}, Range(g.qs), job.ops[at - 1].th[1])
                /\ at' = at - 3
                /\ UNCHANGED <<job, states, channels, phase, sum, support, undrained, out, dropped_mass, value, ideal>>
           ELSE IF Conditioned(g) \/ ~Dispatched(g) THEN Refuse
           ELSE /\ program' = IF Program(g) = <<>> THEN <<[do |-> "nothing"]>> ELSE Program(g)
                /\ at' = at - 1
                /\ sum' = noised
                /\ UNCHANGED <<job, states, channels, phase, support, undrained, out, dropped_mass, value, ideal>>

Step(do) == phase = "back" /\ program # <<>> /\ Head(program).do = do

MapStep ==
    /\ Step("map")
    /\ LET g == Head(program).g
           mapped == MapSum(sum, g)
       IN  /\ Advance(mapped, dropped_mass)
           /\ support' = IF Range(g.qs) \cap support = {} THEN support ELSE Support(mapped)
    /\ UNCHANGED <<undrained, out>>

NothingStep ==
    /\ Step("nothing")
    /\ Advance(sum, dropped_mass)
    /\ UNCHANGED <<support, undrained, out>>

Overlaps(r) == support \cap (r.gx \cup r.gz) # {}

\* The generator touches no term: nothing to do.
BranchSkip ==
    /\ Step("branch") /\ ~Overlaps(Head(program)) /\ undrained = {}
    /\ Advance(sum, dropped_mass)
    /\ UNCHANGED <<support, undrained, out>>

\* Two mistakes: a commuting term slips past the test of the cap; a Y of the
\* generator does not pay its factor i.
SlipUntested(acc, key, r) ==
    LET w == sum[key]
        cosine == add_weighted(acc.out, key, Times(w.c, Cos(r.th)), w.freq)
        child == Times(Times(Times(w.c, ImUnit), Sin(r.th)), Times(Factor(r.gx, r.gz), RawSign(r.gz, key[1])))
        rk == <<SymDiff(key[1], r.gx), SymDiff(key[2], r.gz)>>
    IN  IF ~anticommutes_with(key, r.gx, r.gz)
        THEN [out |-> add_weighted(acc.out, key, w.c, w.freq), dropped |-> acc.dropped, tested |-> FALSE]
        ELSE [out |-> add_weighted(cosine, rk, child, w.freq + 1), dropped |-> acc.dropped, tested |-> TRUE]

SlipFactor(acc, key, r) ==
    LET w == sum[key]
        cosine == add_weighted(acc.out, key, Times(w.c, Cos(r.th)), w.freq)
        child == Times(Times(Times(w.c, ImUnit), Sin(r.th)), RawSign(r.gz, key[1]))
        rk == <<SymDiff(key[1], r.gx), SymDiff(key[2], r.gz)>>
    IN  IF ~anticommutes_with(key, r.gx, r.gz)
        THEN [out |-> add_weighted(acc.out, key, w.c, w.freq), dropped |-> acc.dropped, tested |-> TRUE]
        ELSE [out |-> add_weighted(cosine, rk, child, w.freq + 1), dropped |-> acc.dropped, tested |-> TRUE]

\* What one term gives: [out, dropped, tested], tested when the cap is
\* compared after it.
Expanded(acc, key, r) ==
    LET w == sum[key]
        cosine == add_weighted(acc.out, key, Times(w.c, Cos(r.th)), w.freq)
        child == Times(Times(Times(w.c, ImUnit), Sin(r.th)), Factor(r.gx, r.gz))
        signed == Times(child, RawSign(r.gz, key[1]))
        rk == <<SymDiff(key[1], r.gx), SymDiff(key[2], r.gz)>>
    IN  IF ~anticommutes_with(key, r.gx, r.gz)
        THEN [out |-> add_weighted(acc.out, key, w.c, w.freq), dropped |-> acc.dropped, tested |-> TRUE]
        ELSE IF job.max_freq # None /\ w.freq + 1 > job.max_freq
        THEN [out |-> cosine, dropped |-> Plus(acc.dropped, Modulus(child)), tested |-> FALSE]
        ELSE [out |-> add_weighted(cosine, rk, signed, w.freq + 1), dropped |-> acc.dropped, tested |-> TRUE]

BranchStart ==
    /\ Step("branch") /\ Overlaps(Head(program)) /\ undrained = {} /\ out = EmptySum
    /\ sum # EmptySum
    /\ undrained' = DOMAIN sum
    /\ UNCHANGED <<job, states, channels, at, phase, program, sum, support, out, dropped_mass, value, ideal>>

\* The order of the hash map.  Without a cap no order leaves a trace, and one
\* stands for all.
Readable ==
    IF Capped \/ undrained = {} THEN undrained ELSE {CHOOSE key \in undrained : TRUE}

BranchTerm(key) ==
    /\ Step("branch")
    /\ LET e == Expanded([out |-> out, dropped |-> dropped_mass], key, Head(program))
       IN  /\ out' = e.out
           /\ dropped_mass' = e.dropped
           /\ phase' = IF e.tested /\ OverCap(e.out) THEN "refused" ELSE phase
    /\ undrained' = undrained \ {key}
    /\ UNCHANGED <<job, states, channels, at, program, sum, support, value, ideal>>

\* The last term is read: check_cap, then the next piece of the gate.
BranchEnd ==
    /\ Step("branch") /\ Overlaps(Head(program)) /\ undrained = {}
    /\ out # EmptySum \/ sum = EmptySum
    /\ IF OverCap(out) THEN Refuse
       ELSE /\ Advance(out, dropped_mass)
            /\ out' = EmptySum
            /\ support' = Support(out)
            /\ UNCHANGED undrained

\* expectation_with_certificate: the strings of I and Z give the value; a run
\* whose dropped mass says nothing about it is refused.
Finish ==
    /\ Idle /\ at = 0
    /\ value' = ValueAtZero(sum)
    /\ LET ceiling == Plus(Mass([k \in DOMAIN job.obs |-> [c |-> job.obs[k]]], DOMAIN job.obs),
                           Modulus(value'))
       IN  phase' = IF AtMost(ceiling, dropped_mass) THEN "refused" ELSE "done"
    /\ UNCHANGED <<job, states, channels, at, program, sum, support, undrained, out, dropped_mass, ideal>>

Next ==
    \/ EvolveGate \/ EvolveChannel
    \/ Seed \/ Start \/ MapStep \/ NothingStep
    \/ BranchSkip \/ BranchStart \/ BranchEnd
    \/ \E key \in Readable : BranchTerm(key)
    \/ Finish

-----------------------------------------------------------------------------
\* tr(rho O) for the sum of raw strings O.
Trace(rho, O) ==
    LET OfKey(key) ==
            LET OfRow(b) == Times(rho[b][SymDiff(b, key[1])], RawSign(key[2], b))
            IN  Times(O[key].c, SumOver(OfRow, Basis))
    IN  SumOver(OfKey, DOMAIN O)

\* Between two gates the Pauli sum, read in the state before the gates still to
\* undo, is the exact mean up to dropped_mass, and so is the answer.  With no
\* cutoff the difference is zero: the adjoint of every gate and of every
\* channel, in the order of the channels of the dense engine (sim.rs
\* apply_gate_noise_adjoint "Order matters", expectation_with_certificate).
ValueKept ==
    /\ Idle => LET t == Trace(Current, sum) IN
                  IsReal(t) /\ AtMost(Modulus(Minus(t, ideal)), dropped_mass)
    /\ phase = "done" => AtMost(Modulus(Minus(value, ideal)), dropped_mass)

\* The sum stays Hermitian, every Y paid with a factor i: the code returns the
\* real part of the value and would drop the rest unseen.
StaysHermitian ==
    Idle => \A key \in DOMAIN sum : IsReal(Times(sum[key].c, Conj(Factor(key[1], key[2]))))

\* The cap is tested after every term, so the sum under construction is never
\* more than two terms over it (bound.rs term_ceiling).  With a frequency
\* cutoff it can be: a term whose child is over the cutoff is not followed by
\* the test.
InFlightCeiling ==
    Capped /\ job.max_freq = None => Cardinality(DOMAIN out) <= job.max_terms + 2
=============================================================================
