---------------------------- MODULE MCHostGate ----------------------------
(***************************************************************************)
(* Small machines for the host gate: two axes, a budget that two requests  *)
(* fill, and an operator who halves it.                                    *)
(***************************************************************************)
EXTENDS HostGate, TLC

CONSTANTS bytes, slots

Amount(b, s) == [a \in {bytes, slots} |-> IF a = bytes THEN b ELSE s]

\* One request takes half of the bytes, one takes both slots.
MCRequest == {Amount(1, 1), Amount(1, 2)}
MCRequestOne == {Amount(1, 1)}

\* The second budget is too small for one of the requests.
MCCap == {Amount(2, 2), Amount(1, 1)}
MCCapOne == {Amount(2, 2)}

MCSymmetry == Permutations(Pid \ Unreadable) \cup Permutations(GrantId)
===========================================================================
