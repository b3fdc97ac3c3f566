---- MODULE MCBackends ----
EXTENDS Backends

Pairs == {p \in Qubits \X Qubits : p[1] # p[2]}

\* Every gate of the tables; the wires differ from gate to gate.
MCGates ==
    {Gate(o, <<q>>) : o \in {"H", "S"}, q \in Qubits}
    \cup {Gate("Sdg", <<0>>), Gate("Y", <<0>>), Gate("Id", <<0>>), Gate("Sx", <<0>>), Gate("X", <<1>>),
          Gate("Sxdg", <<1>>), Gate("T", <<1>>), Gate("Z", <<2>>), Gate("Tdg", <<2>>)}
    \cup {Gate("CX", <<0, 2>>), Gate("CX", <<2, 1>>), Gate("CX", <<1, 0>>),
          Gate("CY", <<0, 2>>), Gate("CZ", <<2, 1>>), Gate("Swap", <<1, 2>>)}
    \cup {Rotation("Rx", <<0>>, <<t>>) : t \in {-2, 4, 10}}
    \cup {Rotation("Ry", <<1>>, <<t>>) : t \in {2, 8, 12}}
    \cup {Rotation("Rz", <<2>>, <<6>>), Rotation("U1", <<2>>, <<-2>>), Rotation("U1", <<0>>, <<3>>),
          Rotation("Rbs", <<0, 2>>, <<2>>)}
    \cup {Gate("CCX", <<0, 1, 2>>), Rotation("U2", <<1>>, <<1, 2>>)}

Chain == <<Gate("CX", <<2, 1>>), Gate("H", <<2>>), Gate("H", <<0>>), Gate("CX", <<2, 1>>), Gate("CX", <<0, 2>>)>>
Mesh == <<Gate("H", <<0>>), Gate("H", <<1>>), Gate("Sx", <<2>>), Gate("CZ", <<0, 1>>),
          Gate("CY", <<1, 2>>), Gate("S", <<0>>)>>
Magic == <<Gate("H", <<1>>), Gate("T", <<1>>), Gate("CX", <<1, 0>>), Gate("H", <<0>>)>>
Turned == <<Rotation("Ry", <<0>>, <<2>>), Rotation("Rx", <<1>>, <<-2>>), Rotation("Rbs", <<0, 1>>, <<2>>)>>
MCScripts == {Chain, Mesh, Magic, Turned}
MCObservables == {<<{0, 1}, {1, 2}>>, <<{}, {0, 2}>>, <<{1, 2}, {1}>>}
====
