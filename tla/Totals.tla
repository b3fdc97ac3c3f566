------------------------------ MODULE Totals ------------------------------
(***************************************************************************)
(* The total of a family of natural numbers over a finite set of owners:   *)
(* the ledger of the host gate sums its holders' amounts on every axis,    *)
(* and the server's governor sums the reservations of a memory pool.       *)
(*                                                                         *)
(* A total is a count of UNITS: an owner h with amount n owns the units    *)
(* <<h, 1>>, ..., <<h, n>>, and units of different owners are different.   *)
(* Counting them gives the same number as folding + over the owners, and   *)
(* it needs no recursion, so facts about totals follow from facts about    *)
(* the cardinality of finite sets.                                         *)
(***************************************************************************)
EXTENDS Integers, FiniteSets

\* The units that the owners in S hold, where amount[h] is what h holds.
Units(amount, S) == UNION {{h} \X (1 .. amount[h]) : h \in S}

\* \sum_{h \in S} amount[h]
Total(amount, S) == Cardinality(Units(amount, S))
===========================================================================
