------------------------------ MODULE Backends ------------------------------
(***************************************************************************)
(* One circuit on three engines: the dense statevector (psi), the sum of   *)
(* CH forms of the stabilizer-rank engine (sum) and the stabilizer tableau *)
(* (tab).  Each keeps the state in a form of its own; what they answer must*)
(* agree after every step of every circuit.  An engine that refuses a step *)
(* takes no further part.  A measurement or reset is a step of a run with  *)
(* shots: the engines that take part are given the same outcome, one that  *)
(* the tableau can draw.                                                   *)
(***************************************************************************)
EXTENDS StateVector, StabRank, Tableau

CONSTANTS
    Scripts,        \* circuits, as sequences of gates, that a run starts with
    Gates,          \* gates that may follow
    FreeSteps,      \* bound: how many steps may follow the script
    Observables     \* Pauli strings <<X wires, Z wires>> that are compared

OnOne == OneQubit
OnTwo == Controlled \cup {"Swap", "Rbs"}
OnThree == {"CCX", "CSwap"}
OnAny == {"Id", "Barrier", "Measure"}

\* The wires of a gate are wires of the register, as many as the gate takes,
\* and no wire twice: the kernels stop the process otherwise (sim.rs apply_cx,
\* chform.rs cx and cz).  It has the angles that its matrix takes, even ones
\* where the matrix takes halves.  A reset is a step of its own.
Wired(g) ==
    /\ {"op", "qs", "th"} \subseteq DOMAIN g
    /\ g.qs \in Seq(Qubits)
    /\ g.op \in OnOne \cup OnTwo \cup OnThree \cup OnAny
    /\ g.op \in OnOne => Len(g.qs) = 1
    /\ g.op \in OnTwo => Len(g.qs) = 2 /\ g.qs[1] # g.qs[2]
    /\ g.op \in OnThree => Len(g.qs) = 3 /\ IsInjective(g.qs)
    /\ g.th \in [1..Angles(g.op) -> Int]
    /\ g.op \in {"Rx", "Ry", "Rz"} => g.th[1] % 2 = 0

ScriptGates == UNION {Range(s) : s \in Scripts}

ASSUME GatesAssumption ==
    /\ Scripts \subseteq Seq(ScriptGates)
    /\ \A g \in ScriptGates \cup Gates : Wired(g)

VARIABLES
    psi,            \* statevector: basis state -> amplitude
    sum,            \* stabrank: the branches, Refused when out of the run
    tab,            \* pauli: the tableau, NoTableau when out of the run
    todo,           \* the rest of the script
    free            \* steps taken after the script

vars == <<psi, sum, tab, todo, free>>

NoTableau == [destab |-> <<>>, stab |-> <<>>]

Init ==
    /\ psi = ZeroState
    /\ sum = SumZero
    /\ tab = zero_state
    /\ todo \in Scripts
    /\ free = 0

\* The gate tables of the three engines, apply_gate and apply.
Apply(g) ==
    /\ psi' = ApplyGate(psi, g)
    /\ sum' = IF sum = Refused THEN Refused ELSE SumGate(sum, g)
    /\ tab' = IF tab # NoTableau /\ g.op \in Clifford THEN TabGate(tab, g) ELSE NoTableau

Scripted ==
    /\ todo # <<>>
    /\ Apply(Head(todo))
    /\ todo' = Tail(todo)
    /\ UNCHANGED free

FreeGate ==
    /\ todo = <<>> /\ free < FreeSteps
    /\ \E g \in Gates : Apply(g)
    /\ free' = free + 1
    /\ UNCHANGED todo

\* projective_measure and measure.  While the tableau takes part the outcomes
\* have probability 1 or 1/2, so that the renormalisation is exact.
Measure(q) ==
    /\ todo = <<>> /\ free < FreeSteps /\ tab # NoTableau
    /\ \E r \in MeasureResults(tab, q) :
         /\ tab' = r[2]
         /\ psi' = Collapse(psi, q, IF r[1] THEN 1 ELSE 0)
    /\ sum' = Refused
    /\ free' = free + 1
    /\ UNCHANGED todo

\* apply_reset and apply_reset_stabilizer of a run with shots: measure, then
\* X where the outcome was 1.
ResetShot(q) ==
    /\ todo = <<>> /\ free < FreeSteps /\ tab # NoTableau
    /\ \E r \in MeasureResults(tab, q) :
         LET cleared == Collapse(psi, q, IF r[1] THEN 1 ELSE 0)
         IN  IF r[1]
             THEN tab' = TabGate(r[2], Gate("X", <<q>>)) /\ psi' = ApplyGate(cleared, Gate("X", <<q>>))
             ELSE tab' = r[2] /\ psi' = cleared
    /\ sum' = Refused
    /\ free' = free + 1
    /\ UNCHANGED todo

Next == Scripted \/ FreeGate \/ \E q \in Qubits : Measure(q) \/ ResetShot(q)

Spec == Init /\ [][Next]_vars

-----------------------------------------------------------------------------
\* The branch sum and the dense vector are the same vector, global phase
\* included: a per-branch phase error does not show in any single branch
\* (sum.rs, chform.rs amplitude).
SameAmplitudes ==
    sum # Refused => \A b \in Basis : SumAmplitude(sum, b) = psi[b]

\* The CH-form laws the kernel's updates rely on, branch by branch: the rows
\* of F and G stay dual, the parity of gamma is that of F.M, and the scalar
\* of a branch has modulus 1, since the weights live in the coefficients
\* (chform.rs check_invariants).
BranchesAreStates ==
    \A i \in DOMAIN sum : check_invariants(sum[i].st) /\ Norm2(sum[i].st.om) = One

\* The rows of the tableau keep the commutation relations of X_q and Z_q:
\* stabilizer k anticommutes with destabilizer k and with nothing else.  That
\* is what makes the N stabilizers independent, as the elimination of
\* stabilizer_expectation needs (stabilizer.rs, the comment on rows).
RowsIndependent ==
    tab # NoTableau =>
        \A j, k \in Qubits :
            /\ ~anticommutes(tab.stab[j], tab.stab[k])
            /\ ~anticommutes(tab.destab[j], tab.destab[k])
            /\ anticommutes(tab.destab[j], tab.stab[k]) <=> j = k

\* The exact distribution read from the tableau is that of the dense vector,
\* after mid-circuit measurements and resets too.
SameProbabilities ==
    tab # NoTableau =>
        \A b \in Basis : Dyadic(stabilizer_probability(tab, b), N) = Prob(psi, b)

\* The three expectation paths agree on every observable: the dense sum, the
\* pairwise sum over branches and the elimination on the tableau.
SameExpectations ==
    \A P \in Observables :
        LET value == ExpectationPauli(psi, P[1], P[2])
        IN  /\ sum # Refused => SumExpectation(sum, P[1], P[2]) = value
            /\ tab # NoTableau => Int2Amp(stabilizer_expectation(tab, P[1], P[2])) = value

\* A measurement on the tableau may draw exactly the outcomes to which the
\* dense vector gives a positive probability.
SameOutcomes ==
    tab # NoTableau =>
        \A q \in Qubits :
            {r[1] : r \in MeasureResults(tab, q)}
                = {o \in BOOLEAN : ProbOf(psi, q, IF o THEN 1 ELSE 0) # Zero}

\* Two vectors on the same ray.
Parallel(u, v) == \A a, b \in Basis : Times(u[a], v[b]) = Times(u[b], v[a])

\* A reset in an analytic run keeps one trajectory.  It is accepted only where
\* both outcomes lead to the same state, and the tableau, whose test is the
\* coarser, accepts no reset that the dense engine refuses (sim.rs
\* reset_is_deterministic, reset_outcome_is_determined).
AnalyticResetSound ==
    \A q \in Qubits :
        LET kept    == Project(psi, q, 0)
            flipped == ApplyGate(Project(psi, q, 1), Gate("X", <<q>>))
        IN  /\ ResetIsDeterministic(psi, q) => Parallel(kept, flipped)
            /\ (tab # NoTableau /\ reset_outcome_is_determined(tab, q))
                   => ResetIsDeterministic(psi, q)
=============================================================================
