----------------------------- MODULE Expectation -----------------------------
(***************************************************************************)
(* One request for an expectation value, from the circuit as it is given to*)
(* the answer: the optimizer where the caller asks for it, the preparation *)
(* every engine starts with, and then the Pauli-propagation engine beside  *)
(* the dense one.                                                          *)
(***************************************************************************)
EXTENDS CircuitPasses, Propagation

VARIABLE price      \* the terms that the server reserves memory for

allVars == <<passVars, vars, price>>

DefaultTerms == 1000    \* DEFAULT_MAX_TERMS, out of reach of three wires

\* The server prices the circuit and the observable as submitted.
ExpectationInit ==
    /\ Init
    /\ PassInit(job.ops, job.optimize)
    /\ price = term_upper_bound(job.ops, DOMAIN job.obs, IF Capped THEN job.max_terms ELSE DefaultTerms)

\* The engines get the prepared circuit and the dephased observable.
Handover ==
    /\ pass = "ready"
    /\ pass' = "handed"
    /\ job' = [job EXCEPT !.ops = circuit, !.obs = dephase(@, measured)]
    /\ UNCHANGED <<submitted, circuit, stage, i, before, after_merge, changed,
                   deferred, written_by, measured>>
    /\ UNCHANGED <<states, channels, at, phase, program, sum, support, undrained, out, dropped_mass, value, ideal, price>>

Pass == (Optimizing \/ Preparing) /\ UNCHANGED <<vars, price>>

ExpectationNext ==
    \/ Pass
    \/ Handover
    \/ pass = "handed" /\ Next /\ UNCHANGED <<passVars, price>>

\* The passes run on the thread of the request, with nothing to wait for.
ExpectationSpec == ExpectationInit /\ [][ExpectationNext]_allVars /\ WF_allVars(Pass)

-----------------------------------------------------------------------------
\* A vector without structure, on which two different circuits differ.
Generic ==
    [b \in Basis |-> Plus(Int2Amp(1 + Cardinality(b) * Cardinality(b \cup {0})),
                          Times(Ei(Cardinality(b)), Int2Amp(IF b = {} THEN 0 ELSE 5 + 2 * SmallestOf(b))))]

\* The same function, as a table: without it TLC computes an entry of one
\* vector anew for every entry of the next.
Table(v) == v @@ <<>>

Run(ops, v) ==
    LET After[n \in 0..Len(ops)] ==
            IF n = 0 THEN v ELSE ApplyGate(After[n - 1], ops[n])
    IN  After[Len(ops)]

\* Every single step of the optimizer keeps the operator of the circuit,
\* global phase included: the pairs it cancels are inverse, what it merges has
\* one axis, and a gate only moves past what it commutes with (optimize.rs;
\* qml.rs "Correctness-preserving").
KeepsMeaning ==
    pass = "optimize" => Run(circuit, Generic) = Run(submitted, Generic)

\* When the loop ends none of its rules applies any more: one cancellation can
\* make room for another that only a later round sees.
NothingLeft ==
    (pass = "prepare" /\ job.optimize) =>
        /\ \A n \in 1..Len(circuit) : Kept(circuit[n])
        /\ \A n \in 1..(Len(circuit) - 1) :
             /\ ~is_self_inverse_pair(circuit[n], circuit[n + 1])
             /\ ~Mergeable(circuit[n], circuit[n + 1])

\* A measurement counts when a later gate reads the bit before it is written
\* again.
Consequential(ops, m) ==
    \E n \in m + 1..Len(ops) :
        /\ Conditioned(ops[n])
        /\ ops[m].cbit \in ops[n].cond[1]..(ops[n].cond[1] + ops[n].cond[2] - 1)
        /\ \A l \in m + 1..n - 1 : IsMeasure(ops[l]) => ops[l].cbit # ops[m].cbit

\* The runs of a circuit with classical control, one per record of outcomes,
\* each with its classical bits and its vector, not normalised.
Ensemble(ops) ==
    LET After(r, m) ==
            LET g == ops[m] IN
            IF IsMeasure(g) /\ Consequential(ops, m)
            THEN {[bits |-> r.bits \ {g.cbit},    v |-> Project(r.v, g.qs[1], 0)],
                  [bits |-> r.bits \cup {g.cbit}, v |-> Project(r.v, g.qs[1], 1)]}
            ELSE {[r EXCEPT !.v = IF condition_satisfied(g, r.bits) THEN Table(ApplyGate(@, g)) ELSE @]}
        Runs[m \in 0..Len(ops)] ==
            IF m = 0 THEN {[bits |-> {}, v |-> ZeroState]}
            ELSE UNION {After(r, m) : r \in Runs[m - 1]}
    IN  Runs[Len(ops)]

MeanIn(v, obs) ==
    LET OfKey(k) == Times(obs[k], ExpectationPauli(v, k[1], k[2]))
    IN  SumOver(OfKey, DOMAIN obs)

MeanOfRuns(ops, obs) ==
    LET OfRun(r) == MeanIn(r.v, obs) IN SumOver(OfRun, Ensemble(ops))

\* The deferred circuit with the dephased observable has the mean of the runs
\* with collapse and classical control (defer_measure.rs, "they agree on the
\* diagonal observable and disagree off-diagonal"; an inert measurement is
\* elided).
DeferralKeepsMean ==
    pass = "ready" =>
        MeanOfRuns(submitted, job.obs) = MeanIn(Run(circuit, ZeroState), dephase(job.obs, measured))

\* Every term that is live while the engine works fits the price.
PriceCovers ==
    Cardinality(DOMAIN sum) <= price /\ Cardinality(DOMAIN out) <= price

\* It does where no measurement was deferred, so that the engine runs the
\* circuit that was priced, and no damping adds terms outside branch
\* (bound.rs term_upper_bound).
PriceIsABound == (measured = {} /\ (~Noisy \/ job.noise.gamma = Zero)) => PriceCovers

\* The loop of the optimizer and the sweeps of its commutations come to an end
\* on every circuit.
PassesEnd == <>(pass \in {"ready", "handed", "refused"})
=============================================================================
