------------------------------ MODULE Register ------------------------------
(***************************************************************************)
(* A register of N qubits as every engine of the workspace sees it: a bit  *)
(* string is the set of the wires that are 1 (wire q is bit q of an index),*)
(* a gate is a record [op |-> name, qs |-> wires, th |-> angles], angles   *)
(* in multiples of pi/4, and a Pauli string is given by the wires that     *)
(* carry an X part and those that carry a Z part (Y carries both).         *)
(***************************************************************************)
EXTENDS Integers, FiniteSets, Sequences, SequencesExt, FiniteSetsExt

CONSTANT N          \* width of the register
ASSUME WidthAssumption == N \in Nat

Qubits == 0..(N - 1)
Basis  == SUBSET Qubits

Flip(b, q) == SymDiff(b, {q})
Odd(S) == Cardinality(S) % 2 = 1

Gate(name, wires) == [op |-> name, qs |-> wires, th |-> <<>>]
Rotation(name, wires, angles) == [op |-> name, qs |-> wires, th |-> angles]

\* A measurement names the classical bit it writes.  A gate may carry a
\* condition <<start_bit, num_bits, expected>>; without the field it has none.
MeasureInto(q, c) == [op |-> "Measure", qs |-> <<q>>, th |-> <<>>, cbit |-> c]
If(c, g) == [op |-> g.op, qs |-> g.qs, th |-> g.th, cond |-> c]
Conditioned(g) == "cond" \in DOMAIN g

\* bits: the classical bits that are 1; the register is read low bit first.
condition_satisfied(g, bits) ==
    Conditioned(g) =>
        LET Weight(k) == IF g.cond[1] + k \in bits THEN 2 ^ k ELSE 0
        IN  MapThenSumSet(Weight, 0..(g.cond[2] - 1)) = g.cond[3]
=============================================================================
