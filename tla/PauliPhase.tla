----------------------------- MODULE PauliPhase -----------------------------
(***************************************************************************)
(* The Aaronson-Gottesman phase table shared by the stabilizer tableau and *)
(* the CH form (omega-backend-pauli/src/stabilizer.rs): the power of i that*)
(* appears when the one-qubit Paulis P(x,z) = i^{xz} X^x Z^z are           *)
(* multiplied.                                                             *)
(***************************************************************************)
EXTENDS Register

\* A mistake the code once had: the rows X.Z and Z.X inverted.
SlipPhase(x1, z1, x2, z2) ==
    LET a == <<x1, z1>>
        b == <<x2, z2>>
        X == <<TRUE, FALSE>>
        Y == <<TRUE, TRUE>>
        Z == <<FALSE, TRUE>>
    IN  IF <<a, b>> \in {<<Z, X>>, <<Y, X>>, <<Z, Y>>} THEN 3
        ELSE IF <<a, b>> \in {<<X, Z>>, <<X, Y>>, <<Y, Z>>} THEN 1
        ELSE 0

pauli_mult_phase(x1, z1, x2, z2) ==
    LET a == <<x1, z1>>
        b == <<x2, z2>>
        X == <<TRUE, FALSE>>
        Y == <<TRUE, TRUE>>
        Z == <<FALSE, TRUE>>
    IN  IF <<a, b>> \in {<<X, Z>>, <<Y, X>>, <<Z, Y>>} THEN 3
        ELSE IF <<a, b>> \in {<<Z, X>>, <<X, Y>>, <<Y, Z>>} THEN 1
        ELSE 0

\* The phase of the product of two Pauli strings, wire by wire.
StringPhase(x1, z1, x2, z2) ==
    LET On(q) == pauli_mult_phase(q \in x1, q \in z1, q \in x2, q \in z2)
    IN  MapThenSumSet(On, Qubits)
=============================================================================
