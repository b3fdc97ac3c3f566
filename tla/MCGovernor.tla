---------------------------- MODULE MCGovernor ----------------------------
(***************************************************************************)
(* A machine of ten bytes with one device, its memory shared or its own.   *)
(***************************************************************************)
EXTENDS Governor, TLC

CONSTANT device

Ask(door, rows) == [door |-> door, rows |-> rows]
Circuit(qubits, target, peak) ==
  [qubits |-> qubits, dense |-> TRUE, opaque |-> FALSE, target |-> target, peak |-> peak]

Small == Circuit(1, "cpu", 2)
Large == Circuit(2, "cpu", 5)
Huge == Circuit(3, "cpu", 8)
Wide == Circuit(9, "cpu", 4)
OnDevice == Circuit(2, device, 3)
Plugin == [Small EXCEPT !.opaque = TRUE, !.peak = -1]
Tensors == [Small EXCEPT !.dense = FALSE, !.peak = -1]

MCRequest ==
  {Ask("run", <<Large>>), Ask("run", <<OnDevice>>),
   Ask("run", <<Plugin, Large>>), Ask("run", <<Plugin, Wide>>),
   Ask("run", <<Huge>>), Ask("local", <<Small>>), Ask("local", <<Tensors>>),
   Ask("ask", <<Small>>), Ask("register", <<Small>>)}

\* A budget that is not a whole number of MiB.
MCTopology == {"unified" :> 7, ("host" :> 7) @@ (device :> 4), "host" :> 7}

MCSymmetry == Permutations(Job)
===========================================================================
