---- MODULE MCExpectation ----
EXTENDS Expectation

Job(ops, obs) ==
    [ops |-> ops, obs |-> obs, optimize |-> FALSE, noise |-> NoNoise, fold_zz |-> TRUE,
     coeff_min |-> Zero, max_weight |-> None, max_freq |-> None, max_terms |-> None]

Rx(q, t) == Rotation("Rx", <<q>>, <<t>>)
Ry(q, t) == Rotation("Ry", <<q>>, <<t>>)
Rz(q, t) == Rotation("Rz", <<q>>, <<t>>)

ZZ == [k \in {<<{}, {0, 1}>>} |-> One]
Mixture == [k \in {<<{}, {2}>>, <<{0}, {0, 1}>>} |-> IF k[1] = {} THEN One ELSE Dyadic(-1, 1)]
ThreeTerms == [k \in {<<{}, {0, 1}>>, <<{2}, {0, 1}>>, <<{}, {0, 1, 2}>>} |-> One]
FiveTerms == [k \in {<<{}, {0}>>, <<{}, {0, 1}>>, <<{1}, {0}>>, <<{}, {1}>>, <<{}, {2}>>} |-> One]
Alone == [k \in {<<{}, {0}>>} |-> One]
YYX == [k \in {<<{0, 1, 2}, {0, 1}>>} |-> One]

\* The whole gate table, in circuits short enough to be exact.
Cliffords == <<Gate("H", <<0>>), Gate("CX", <<0, 1>>), Gate("S", <<1>>), Gate("Sx", <<2>>),
               Gate("CZ", <<1, 2>>), Gate("CY", <<2, 0>>), Gate("Sdg", <<0>>), Gate("Sxdg", <<1>>),
               Gate("Swap", <<0, 2>>), Gate("Y", <<1>>), Gate("H", <<1>>)>>
Rotations == <<Ry(0, 2), Rx(1, -2), Gate("T", <<0>>), Rz(1, 6), Rotation("U2", <<2>>, <<1, 2>>),
               Rotation("U3", <<0>>, <<2, 3, -1>>), Rotation("U1", <<1>>, <<3>>), Gate("X", <<2>>)>>
Pairs == <<Ry(0, 2), Gate("H", <<1>>), Rotation("Rbs", <<0, 1>>, <<1>>), Rotation("CRz", <<1, 2>>, <<2>>),
           Gate("H", <<2>>), Rotation("CU3", <<0, 2>>, <<0, 0, 2>>), Rotation("Rbs", <<2, 0>>, <<3>>),
           Gate("Tdg", <<2>>), Gate("Z", <<0>>), Gate("Id", <<1>>)>>
Toffoli == <<Gate("H", <<0>>), Ry(1, 2), Gate("CCX", <<0, 1, 2>>), Gate("H", <<1>>),
             Gate("CSwap", <<1, 0, 2>>), Rx(0, 2)>>
Folded == <<Gate("H", <<0>>), Gate("H", <<1>>), Gate("CX", <<0, 1>>), Rz(1, 2), Gate("CX", <<0, 1>>),
            Gate("Barrier", <<0, 1>>), Rx(1, 2)>>

Channels ==
    [third |-> <<Dyadic(1, 3), Dyadic(1, 4)>>, pairs |-> [p \in {{0, 1}} |-> Dyadic(1, 3)],
     px |-> Zero, py |-> Dyadic(1, 2), pz |-> Zero, gamma |-> Dyadic(1, 1), root |-> ISqrt2,
     lambda |-> Dyadic(1, 1), p10 |-> Zero, p01 |-> Zero]
Damping == [Channels EXCEPT !.py = Zero, !.lambda = Zero, !.gamma = Dyadic(3, 2), !.root = Dyadic(1, 1),
                            !.p10 = Dyadic(1, 2), !.p01 = Dyadic(1, 2)]
Skewed == [Damping EXCEPT !.p01 = Zero]
Dephasing == [Channels EXCEPT !.gamma = Zero, !.root = One, !.px = Dyadic(1, 2), !.py = Zero, !.pz = Dyadic(1, 2)]
Short == <<Ry(0, 2), Gate("CX", <<0, 1>>), Rx(1, 2), Gate("CX", <<2, 1>>)>>
Heated == <<Gate("X", <<0>>), Ry(1, 2), Gate("CX", <<0, 1>>), Gate("Barrier", <<0, 1>>), Rz(1, 2)>>
Wide == <<Gate("H", <<2>>), Gate("CCX", <<0, 1, 2>>)>>

With(j, m) == [j EXCEPT !.noise = m]
Knobs(j, c, w, f, t) == [j EXCEPT !.coeff_min = c, !.max_weight = w, !.max_freq = f, !.max_terms = t]

Crossed == <<Rx(0, 2), Rx(1, 2)>>

\* Every gate of the table before and after every other, on a state that is
\* stabilized by no observable of the list.
Alphabet ==
    {Gate("H", <<0>>), Gate("S", <<1>>), Gate("Sdg", <<2>>), Gate("Sx", <<1>>), Gate("Sxdg", <<0>>),
     Gate("X", <<1>>), Gate("Y", <<0>>), Gate("Z", <<2>>), Gate("T", <<0>>), Gate("Tdg", <<1>>),
     Gate("CX", <<1, 0>>), Gate("CZ", <<0, 2>>), Gate("CY", <<2, 1>>), Gate("Swap", <<1, 2>>),
     Rx(2, 2), Ry(1, -2), Rz(0, 6), Rotation("U1", <<1>>, <<3>>), Rotation("U2", <<0>>, <<1, -3>>),
     Rotation("U3", <<2>>, <<2, 1, 5>>), Rotation("CRz", <<2, 0>>, <<2>>), Rotation("Rbs", <<1, 2>>, <<3>>),
     Rotation("CU3", <<0, 1>>, <<0, 0, -2>>), Gate("CCX", <<2, 0, 1>>), Gate("CSwap", <<0, 2, 1>>)}
Uneven == <<Ry(0, 2), Rx(1, 2), Gate("H", <<2>>)>>
Spread == [k \in {<<{}, {0}>>, <<{1}, {1, 2}>>, <<{0, 1, 2}, {}>>} |-> IF k[1] = {} THEN Int2Amp(2) ELSE One]

\* For the optimizer: every circuit of three gates, and longer ones in which
\* one rule makes room for another.
Simplifiable ==
    {Gate("H", <<0>>), Gate("X", <<1>>), Gate("T", <<0>>), Gate("Id", <<1>>), Gate("CX", <<0, 1>>),
     Gate("CZ", <<1, 2>>), Gate("Swap", <<0, 2>>), Rz(0, 2), Rz(0, -2), Rotation("U1", <<1>>, <<-3>>), Rx(1, 2)}
Nested == {
    <<Gate("X", <<1>>), Rz(0, 2), Gate("H", <<2>>), Rx(1, 2), Rx(1, -2), Gate("H", <<2>>), Rz(0, -2), Gate("X", <<1>>)>>,
    <<Gate("X", <<1>>), Rz(0, 2), Rz(0, -2), Gate("X", <<1>>)>>,
    <<Gate("H", <<0>>), Gate("CX", <<1, 2>>), Gate("H", <<0>>), Gate("CX", <<1, 2>>)>>,
    <<Gate("CX", <<0, 1>>), Rz(0, 2), Gate("X", <<1>>), Gate("CX", <<0, 1>>), Rz(0, -2), Gate("X", <<1>>)>>,
    <<Rx(2, 2), Gate("CZ", <<1, 0>>), Rx(2, -4), Gate("S", <<1>>), Gate("CZ", <<1, 0>>), Rx(2, 2)>>,
    <<Gate("H", <<1>>), Gate("Swap", <<0, 1>>), Gate("H", <<2>>), Gate("Swap", <<0, 1>>), Gate("Barrier", <<1>>), Gate("H", <<1>>)>>,
    <<Gate("H", <<0>>), Gate("CX", <<0, 1>>), Gate("T", <<0>>), MeasureInto(2, 0), Gate("Z", <<0>>), Gate("Z", <<0>>)>>}

\* For the deferral: measured, conditioned, measured again into the same bit,
\* reused, conditioned on what nobody wrote.
One1(q, g) == If(<<q, 1, 1>>, g)
Measured == {
    <<Gate("H", <<0>>), MeasureInto(0, 0), One1(0, Gate("X", <<1>>))>>,
    <<Gate("H", <<0>>), MeasureInto(0, 0), One1(0, Gate("X", <<1>>)), MeasureInto(1, 0)>>,
    <<Ry(0, 2), Gate("CX", <<0, 2>>), MeasureInto(0, 0), One1(0, Gate("Y", <<1>>)), MeasureInto(2, 1), MeasureInto(0, 1)>>,
    <<Ry(0, 2), Gate("H", <<1>>), MeasureInto(0, 0), MeasureInto(1, 0), One1(0, Gate("Z", <<2>>))>>,
    <<Gate("H", <<2>>), Ry(0, 2), MeasureInto(0, 0), One1(0, Gate("X", <<2>>)), One1(0, Gate("Z", <<2>>)),
      MeasureInto(1, 0), One1(0, Gate("X", <<2>>))>>,
    <<Gate("H", <<0>>), MeasureInto(0, 0), One1(0, Gate("X", <<0>>))>>,
    <<Gate("H", <<0>>), MeasureInto(0, 0), Gate("H", <<0>>)>>,
    <<Gate("H", <<0>>), MeasureInto(0, 0), One1(1, Gate("X", <<1>>))>>,
    <<Gate("H", <<0>>), MeasureInto(0, 0), One1(0, Gate("H", <<1>>))>>,
    <<Gate("H", <<0>>), MeasureInto(0, 0), If(<<0, 1, 0>>, Gate("X", <<1>>))>>,
    <<Gate("H", <<0>>), MeasureInto(0, 0), MeasureInto(1, 1), If(<<0, 2, 1>>, Gate("X", <<2>>))>>,
    <<Gate("H", <<0>>), MeasureInto(0, 0), If(<<0, 1, 1>>, MeasureInto(1, 1))>>,
    <<Gate("H", <<0>>), If(<<0, 1, 1>>, Gate("X", <<1>>)), If(<<0, 1, 0>>, Gate("X", <<2>>))>>}
Anywhere == [k \in {<<{0, 1}, {}>>, <<{}, {0, 1}>>, <<{2}, {0}>>, <<{1}, {1}>>, <<{}, {2}>>} |-> One]

MCJobs ==
    {[Job(<<a, b, c>>, Alone) EXCEPT !.optimize = TRUE] : a, b, c \in Simplifiable} \cup
    {[Job(c, Mixture) EXCEPT !.optimize = TRUE] : c \in Nested} \cup
    {Job(c, Anywhere) : c \in Measured} \cup
    {Job(Uneven \o <<a, b>>, Spread) : a, b \in Alphabet} \cup
    {With(Job(<<Ry(0, 2), g>>, Spread), m) : g \in Alphabet, m \in {Channels, Dephasing}} \cup
    {Job(c, o) : c \in {Cliffords, Rotations, Pairs, Toffoli, Folded}, o \in {ZZ, Mixture, YYX}}
    \cup {[Job(Folded, Mixture) EXCEPT !.fold_zz = FALSE]}
    \cup {Job(<<Rotation("Rbs", <<0, 1>>, <<1>>)>>, ZZ), Job(<<Rotation("Rbs", <<0, 1>>, <<1>>)>>, Mixture)}
    \cup {With(Job(c, o), m) : c \in {Short, Heated}, o \in {ZZ, Mixture}, m \in {Channels, Dephasing}}
    \cup {With(Job(Heated, ZZ), Damping), With(Job(Heated, ZZ), Skewed), With(Job(Wide, Mixture), Dephasing)}
    \cup {Knobs(Job(c, o), k[1], k[2], k[3], None) :
            c \in {Rotations, Pairs}, o \in {Mixture, YYX},
            k \in {<<Dyadic(1, 2), None, None>>, <<Zero, 2, None>>, <<Zero, None, 1>>, <<Dyadic(3, 1), None, None>>}}
    \cup {Knobs(Job(c, Mixture), Zero, w, None, t) : c \in {Rotations, Pairs}, w \in {None, 2}, t \in {3, 4, 8}}
    \cup {Knobs(Job(Crossed, ThreeTerms), Zero, None, None, t) : t \in 5..8}
    \cup {Knobs(Job(<<Rx(0, 2)>>, FiveTerms), Zero, None, None, t) : t \in 4..6}
    \cup {Knobs(Job(<<Gate("CX", <<0, 1>>), Rz(1, 2), Gate("CX", <<0, 1>>)>>, o), Zero, None, None, t) :
            o \in {Spread, ThreeTerms, [k \in {<<{}, {2}>>, <<{2}, {}>>} |-> One]}, t \in {1, 3, 4}}
    \cup {Job(<<Ry(1, 2), Rotation("Rbs", <<0, 1>>, <<1>>)>>, Alone)}
    \cup {Job(<<Rotation("CU3", <<0, 1>>, <<1, 0, 2>>)>>, ZZ)}

\* A gate of three wires, followed by a gate on the last.
WideJobs ==
    {[Job(<<Gate("H", <<0>>), Gate("X", <<1>>), w, g>>, Alone) EXCEPT !.optimize = TRUE] :
        w \in {Gate("CCX", <<0, 1, 2>>), Gate("CSwap", <<1, 0, 2>>)},
        g \in {Gate("H", <<2>>), Gate("T", <<2>>), Gate("H", <<1>>), Ry(2, 2)}}

\* A gate that turns the measured wire of a deferred control.
MeasuredJobs ==
    {Job(<<Ry(0, 2), g, MeasureInto(0, 0), One1(0, h)>>, [k \in {<<{}, {1}>>} |-> One]) :
        g \in {Rx(0, 2), Rz(0, 2), Gate("T", <<0>>), Rotation("Rbs", <<0, 2>>, <<1>>)},
        h \in {Gate("X", <<1>>), Gate("Y", <<1>>)}}
====
