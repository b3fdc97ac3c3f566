--------------------------- MODULE MCLedgerStore ---------------------------
(***************************************************************************)
(* Two processes on one ledger, the first with two threads.                *)
(***************************************************************************)
EXTENDS LedgerStore, TLC

CONSTANTS p1, p2, t1, t2, t3

MCHome == (t1 :> p1) @@ (t2 :> p1) @@ (t3 :> p2)
===========================================================================
