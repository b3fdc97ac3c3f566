---------------------------- MODULE CircuitPasses ----------------------------
(***************************************************************************)
(* What happens to a circuit before an engine computes an expectation: the *)
(* optimizer (omega-core optimize.rs), three passes in a loop, when asked  *)
(* for; then the deferral of its measurements (defer_measure.rs), which    *)
(* turns a classical control into a quantum one and names the qubits on    *)
(* which the observable must be dephased.  Angles are concrete.            *)
(***************************************************************************)
EXTENDS Register

VARIABLES
    submitted,      \* the circuit as it came
    circuit,        \* the circuit as it is
    pass,           \* "optimize", "prepare", "walk", "ready", "handed" or "refused"
    stage,          \* which of the passes of a round
    i,              \* the op that a scan has reached
    before,         \* length at the start of the round
    after_merge,    \* length before the commutations
    changed,        \* this sweep of commutations has moved a gate
    deferred,       \* walk: the ops written so far
    written_by,     \* walk: classical bit -> the qubit measured into it last
    measured        \* walk: qubits whose measurement controls a gate

passVars == <<submitted, circuit, pass, stage, i, before, after_merge, changed,
              deferred, written_by, measured>>

PassInit(ops, optimized) ==
    /\ submitted = ops /\ circuit = ops
    /\ pass = IF optimized THEN "optimize" ELSE "prepare"
    /\ stage = 1 /\ i = 1 /\ before = Len(ops) /\ after_merge = 0 /\ changed = FALSE
    /\ deferred = <<>> /\ written_by = <<>> /\ measured = {}

-----------------------------------------------------------------------------
(* The optimizer.                                                          *)

Round == <<"retain", "cancel", "merge", "commute", "retain", "cancel", "merge", "test">>

Rotations1 == {"Rx", "Ry", "Rz", "U1"}
ZBasis == {"Rz", "Z", "S", "Sdg", "T", "Tdg", "U1"}
OneWire == {"H", "X", "Y", "Z", "S", "Sdg", "T", "Tdg", "Sx", "Sxdg", "Id",
            "Rx", "Ry", "Rz", "U1", "U2", "U3", "Reset"}
ManyWires == {"CX", "CY", "CZ", "Swap", "CRz", "CU3", "Rbs", "CCX", "CSwap"}

\* What retain keeps: no identity, no rotation by zero.
Kept(g) == g.op # "Id" /\ (g.op \in Rotations1 => g.th[1] # 0)

Retained(ops) ==
    LET Upto[n \in 0..Len(ops)] ==
            IF n = 0 THEN <<>>
            ELSE IF Kept(ops[n]) THEN Append(Upto[n - 1], ops[n]) ELSE Upto[n - 1]
    IN  Upto[Len(ops)]

is_self_inverse_pair(a, b) ==
    /\ a.op = b.op /\ a.qs = b.qs
    /\ a.op \in {"H", "X", "Y", "Z", "CX", "CZ", "Swap"}

Mergeable(a, b) == a.op = b.op /\ a.qs = b.qs /\ a.op \in Rotations1

\* Two mistakes: a Z-basis gate commutes with the target of a CX; a gate may
\* be moved past any gate on other wires, however many those have.
SlipTarget(a, b) ==
    /\ b.op \in OneWire /\ a.op \in ManyWires
    /\ CASE a.op \in {"CX", "CZ"} -> b.qs[1] \in Range(a.qs) => b.op \in ZBasis
         [] OTHER -> b.qs[1] \notin {a.qs[1], a.qs[2]}

SlipEither(a, b) == b.op \in OneWire /\ a.op \notin {"Measure", "Barrier"} /\ b.qs[1] \notin Range(a.qs)

\* May b, which follows a, go before it?
try_commute(a, b) ==
    /\ b.op \in OneWire /\ a.op \in ManyWires
    /\ LET q == b.qs[1] IN
       CASE a.op = "CX" -> /\ q = a.qs[1] => b.op \in ZBasis
                           /\ q = a.qs[2] => b.op = "X"
         [] a.op = "CZ" -> q \in Range(a.qs) => b.op \in ZBasis
         [] OTHER       -> q # a.qs[1] /\ q # a.qs[2]

Without(s, n) == SubSeq(s, 1, n - 1) \o SubSeq(s, n + 2, Len(s))
StepBack(n) == IF n = 1 THEN 1 ELSE n - 1

At(name) == pass = "optimize" /\ Round[stage] = name
Pair == i < Len(circuit)
Walking == UNCHANGED <<deferred, written_by, measured>>

NextStage ==
    /\ stage' = stage + 1 /\ i' = 1 /\ changed' = FALSE
    /\ after_merge' = IF stage = 3 THEN Len(circuit) ELSE after_merge
    /\ UNCHANGED <<submitted, pass, before>> /\ Walking

Scan(next) ==
    /\ i' = next
    /\ UNCHANGED <<submitted, pass, stage, before, after_merge>> /\ Walking

\* remove_redundancies, first half.
Retain ==
    /\ At("retain")
    /\ circuit' = Retained(circuit)
    /\ NextStage

\* remove_redundancies, second half: after a pair is gone, look at the one
\* that has just become adjacent.
Cancel ==
    /\ At("cancel") /\ Pair
    /\ IF is_self_inverse_pair(circuit[i], circuit[i + 1])
       THEN circuit' = Without(circuit, i) /\ Scan(StepBack(i))
       ELSE UNCHANGED circuit /\ Scan(i + 1)
    /\ UNCHANGED changed

\* merge_rotations.
Merge ==
    /\ At("merge") /\ Pair
    /\ LET a == circuit[i]
           b == circuit[i + 1]
       IN  IF ~Mergeable(a, b) THEN UNCHANGED circuit /\ Scan(i + 1)
           ELSE IF a.th[1] + b.th[1] = 0
           THEN circuit' = Without(circuit, i) /\ Scan(StepBack(i))
           ELSE /\ circuit' = SubSeq(circuit, 1, i - 1) \o <<[a EXCEPT !.th[1] = @ + b.th[1]]>>
                                \o SubSeq(circuit, i + 2, Len(circuit))
                /\ Scan(i)
    /\ UNCHANGED changed

\* commute_through_multis: sweeps until one of them moves nothing.
Commute ==
    /\ At("commute") /\ Pair
    /\ IF try_commute(circuit[i], circuit[i + 1])
       THEN circuit' = [circuit EXCEPT ![i] = circuit[i + 1], ![i + 1] = circuit[i]] /\ changed' = TRUE
       ELSE UNCHANGED <<circuit, changed>>
    /\ Scan(i + 1)

NextSweep ==
    /\ At("commute") /\ ~Pair /\ changed
    /\ changed' = FALSE
    /\ UNCHANGED circuit
    /\ Scan(1)

ScanEnd ==
    /\ At("cancel") \/ At("merge") \/ (At("commute") /\ ~changed)
    /\ ~Pair
    /\ UNCHANGED circuit
    /\ NextStage

\* A mistake: one round and no more.
SlipLoop(len) == TRUE

\* Nothing was removed in this round, before the commutations or after them.
RoundWasIdle(len) == len = before /\ len = after_merge

Test ==
    /\ At("test")
    /\ IF RoundWasIdle(Len(circuit))
       THEN pass' = "prepare" /\ UNCHANGED <<stage, before>>
       ELSE stage' = 1 /\ before' = Len(circuit) /\ UNCHANGED pass
    /\ UNCHANGED <<submitted, circuit, i, after_merge, changed>> /\ Walking

Optimizing == Retain \/ Cancel \/ Merge \/ Commute \/ NextSweep \/ ScanEnd \/ Test

-----------------------------------------------------------------------------
(* prepare_for_expectation and defer_measurements.                         *)

IsMeasure(g) == g.op = "Measure"

\* Measured, and used again by anything but another measurement.
ReusedAfter(ops, m) ==
    \E n \in m + 1..Len(ops) :
        /\ ops[n].op \notin {"Id", "Barrier", "Measure"}
        /\ ops[m].qs[1] \in Range(ops[n].qs)

NotDeferrable(ops) ==
    \E m \in 1..Len(ops) : IsMeasure(ops[m]) /\ (Conditioned(ops[m]) \/ ReusedAfter(ops, m))

Prepare ==
    /\ pass = "prepare"
    /\ pass' = IF \A n \in 1..Len(circuit) : ~IsMeasure(circuit[n]) THEN "ready"
               ELSE IF NotDeferrable(circuit) THEN "refused"
               ELSE "walk"
    /\ i' = 1
    /\ UNCHANGED <<submitted, circuit, stage, before, after_merge, changed>> /\ Walking

Controlled1 == [X |-> "CX", Y |-> "CY", Z |-> "CZ"]

Refusal ==
    /\ pass' = "refused"
    /\ UNCHANGED <<i, deferred, written_by, measured>>

WalkOp ==
    /\ pass = "walk" /\ i <= Len(circuit)
    /\ LET g == circuit[i] IN
       CASE IsMeasure(g) ->
              /\ written_by' = [c \in DOMAIN written_by \cup {g.cbit} |->
                                   IF c = g.cbit THEN g.qs[1] ELSE written_by[c]]
              /\ i' = i + 1
              /\ UNCHANGED <<pass, deferred, measured>>
         [] ~IsMeasure(g) /\ ~Conditioned(g) ->
              /\ deferred' = Append(deferred, g)
              /\ i' = i + 1
              /\ UNCHANGED <<pass, written_by, measured>>
         [] ~IsMeasure(g) /\ Conditioned(g) ->
              IF \/ g.cond[2] # 1 \/ g.cond[3] # 1
                 \/ g.cond[1] \notin DOMAIN written_by
                 \/ g.op \notin DOMAIN Controlled1
                 \/ written_by[g.cond[1]] \in Range(g.qs)
              THEN Refusal
              ELSE LET control == written_by[g.cond[1]] IN
                   /\ deferred' = Append(deferred, Gate(Controlled1[g.op], <<control>> \o g.qs))
                   /\ measured' = measured \cup {control}
                   /\ i' = i + 1
                   /\ UNCHANGED <<pass, written_by>>
    /\ UNCHANGED <<submitted, circuit, stage, before, after_merge, changed>>

WalkEnd ==
    /\ pass = "walk" /\ i > Len(circuit)
    /\ circuit' = deferred
    /\ pass' = "ready"
    /\ UNCHANGED <<submitted, stage, i, before, after_merge, changed>> /\ Walking

\* A mistake: the deferred circuit with the observable as it was.
SlipDephase(obs, qubits) == obs

\* Observable::dephase: a measured qubit has no X or Y left.
dephase(obs, qubits) == [k \in {t \in DOMAIN obs : t[1] \cap qubits = {}} |-> obs[k]]

Preparing == Prepare \/ WalkOp \/ WalkEnd

=============================================================================
