------------------------------ MODULE MCWatch ------------------------------
(***************************************************************************)
(* A child that may have two descendants, in each other's tree or side by  *)
(* side.                                                                   *)
(***************************************************************************)
EXTENDS Watch
===========================================================================
