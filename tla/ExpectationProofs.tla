------------------------- MODULE ExpectationProofs -------------------------
(***************************************************************************)
(* Proofs about one request for an expectation value, for any circuit,     *)
(* observable and cutoffs: that the loop of the optimizer leaves nothing   *)
(* undone, that the sum in flight respects its cap, that every step of the *)
(* optimizer keeps the operator of the circuit, that the Pauli sum stays   *)
(* Hermitian, and that the price bounds its terms.  The third and the      *)
(* fourth rest on the ring of amplitudes; the third on gates as matrices   *)
(* over pairs of basis states, the fourth on the parity of Y in a string   *)
(* and in the product of two; the fifth on accounts of what a sum can hold,*)
(* carried from the engine back to the circuit that was priced.            *)
(***************************************************************************)
EXTENDS Expectation, EngineLemmas

IsCircuit(ops) == ops \in Seq(Range(ops))

AllKept(c) == \A n \in 1..Len(c) : Kept(c[n])
UnpairedTo(c, k) == \A n \in 1..(Len(c) - 1) : n < k => ~is_self_inverse_pair(c[n], c[n + 1])
UnmergedTo(c, k) == \A n \in 1..(Len(c) - 1) : n < k => ~Mergeable(c[n], c[n + 1])
Finished(c) == AllKept(c) /\ UnpairedTo(c, Len(c)) /\ UnmergedTo(c, Len(c))

\* What the second retain, cancel and merge of a round have gone through.
Scanned(c, s, k) ==
    /\ AllKept(c)
    /\ UnpairedTo(c, IF s = 6 THEN k ELSE Len(c))
    /\ s = 7 => UnmergedTo(c, k)
    /\ s = 8 => UnmergedTo(c, Len(c))

\* They count as long as nothing was removed since the commutations.
RoundOK(c, s, k, kept) ==
    /\ IsCircuit(c) /\ s \in 1..8 /\ k \in Nat \ {0} /\ kept \in Nat
    /\ s >= 4 => Len(c) <= kept
    /\ s >= 6 /\ Len(c) = kept => Scanned(c, s, k)

RoundInv == pass = "optimize" => RoundOK(circuit, stage, i, after_merge)
FinishedInv == pass = "prepare" /\ job.optimize => Finished(circuit)

-----------------------------------------------------------------------------
(* Retain.                                                                 *)

LEMMA RetainedKeeps ==
  ASSUME NEW U, NEW ops \in Seq(U)
  PROVE  /\ Retained(ops) \in Seq(U)
         /\ Len(Retained(ops)) <= Len(ops)
         /\ Len(Retained(ops)) = Len(ops) =>
              /\ Retained(ops) = ops
              /\ \A n \in 1..Len(ops) : Kept(ops[n])
<1> DEFINE L == Len(ops)
           V == Seq(U)
           Next1(n, t) == IF Kept(ops[n]) THEN Append(t, ops[n]) ELSE t
           step == [p \in (1..L) \X V |-> Next1(p[1], p[2])]
<1>1. L \in Nat /\ <<>> \in V
  OBVIOUS
<1>2. \A n \in 1..L, t \in V : Next1(n, t) \in V
  OBVIOUS
<1> HIDE DEF L, V, Next1
<1>3. Stepper(step, L, V)
  BY <1>2 DEF Stepper
<1>4. \A n \in 1..L, t \in V : step[<<n, t>>] = Next1(n, t)
  OBVIOUS
<1> HIDE DEF step
<1>5. PICK f : Solves(f, L, V, <<>>, step)
  BY <1>1, <1>3, Recursion
<1>6. /\ f \in [0..L -> V] /\ f[0] = <<>>
      /\ \A m \in 1..L : f[m] = Next1(m, f[m - 1])
  BY <1>4, <1>5 DEF Solves
<1>7. f = [n \in 0..L |-> IF n = 0 THEN <<>> ELSE Next1(n, f[n - 1])]
  <2>1. \A n \in 0..L : f[n] = IF n = 0 THEN <<>> ELSE Next1(n, f[n - 1])
    BY <1>1, <1>6
  <2>2. QED
    BY <1>6, <2>1
<1> DEFINE Upto[n \in 0..Len(ops)] ==
            IF n = 0 THEN <<>>
            ELSE IF Kept(ops[n]) THEN Append(Upto[n - 1], ops[n]) ELSE Upto[n - 1]
<1>8. Upto = [n \in 0..Len(ops) |-> IF n = 0 THEN <<>>
            ELSE IF Kept(ops[n]) THEN Append(Upto[n - 1], ops[n]) ELSE Upto[n - 1]]
  BY <1>7 DEF L, Next1
<1>9. Retained(ops) = Upto[L]
  BY DEF Retained, L
<1> HIDE DEF Upto
<1> DEFINE P == {m \in 0..L : /\ Upto[m] \in V /\ Len(Upto[m]) <= m
                              /\ Len(Upto[m]) = m =>
                                   \A n \in 1..m : Upto[m][n] = ops[n] /\ Kept(ops[n])}
<1>10. 0 \in P
  BY <1>1, <1>8 DEF L, V
<1>11. ASSUME NEW m \in 1..L, m - 1 \in P
       PROVE  m \in P
  <2> DEFINE t == Upto[m - 1]
  <2>1. Upto[m] = Next1(m, t)
    <3>1. m \in 0..Len(ops) /\ m # 0
      BY <1>1 DEF L
    <3>2. QED
      BY <1>8, <3>1 DEF Next1
  <2>2. /\ t \in Seq(U) /\ Len(t) <= m - 1
        /\ Len(t) = m - 1 => \A n \in 1..(m - 1) : t[n] = ops[n] /\ Kept(ops[n])
    BY <1>11 DEF V
  <2> HIDE DEF t
  <2>3. CASE Kept(ops[m])
    <3>1. Upto[m] = Append(t, ops[m]) /\ ops[m] \in U
      BY <2>1, <2>3 DEF Next1, L
    <3>2. /\ Upto[m] \in Seq(U) /\ Len(Upto[m]) = Len(t) + 1
          /\ Upto[m][Len(t) + 1] = ops[m]
          /\ \A n \in 1..Len(t) : Upto[m][n] = t[n]
      BY <2>2, <3>1
    <3>3. Len(t) \in Nat /\ m \in Nat
      BY <1>1, <2>2
    <3>4. Len(Upto[m]) <= m
      BY <2>2, <3>2, <3>3
    <3>5. Len(Upto[m]) = m => \A n \in 1..m : Upto[m][n] = ops[n] /\ Kept(ops[n])
      BY <2>2, <2>3, <3>2, <3>3
    <3>6. QED
      BY <1>1, <3>2, <3>4, <3>5 DEF V
  <2>4. CASE ~Kept(ops[m])
    <3>1. Upto[m] = t
      BY <2>1, <2>4 DEF Next1
    <3>2. Len(Upto[m]) < m
      BY <1>1, <2>2, <3>1
    <3>3. QED
      BY <1>1, <2>2, <3>1, <3>2 DEF V
  <2>5. QED
    BY <2>3, <2>4
<1> HIDE DEF P
<1>12. L \in P
  <2>1. \A m \in 0..L : m \in P
    BY <1>1, <1>10, <1>11, UpToInduction
  <2>2. QED
    BY <1>1, <2>1
<1>13. QED
  BY <1>9, <1>12 DEF P, L, V

-----------------------------------------------------------------------------
(* The circuit under the passes.                                           *)

LEMMA OwnRange ==
  ASSUME NEW U, NEW s \in Seq(U)
  PROVE  IsCircuit(s)
<1>1. \A n \in 1..Len(s) : s[n] \in Range(s)
  BY DEF Range
<1>2. s = [n \in 1..Len(s) |-> s[n]]
  OBVIOUS
<1>3. QED
  BY <1>1, <1>2 DEF IsCircuit

LEMMA CutOut ==
  ASSUME NEW c, IsCircuit(c), NEW n \in 1..(Len(c) - 1), NEW x
  PROVE  /\ IsCircuit(Without(c, n)) /\ Len(Without(c, n)) = Len(c) - 2
         /\ LET m == SubSeq(c, 1, n - 1) \o <<x>> \o SubSeq(c, n + 2, Len(c))
            IN  IsCircuit(m) /\ Len(m) = Len(c) - 1
<1> DEFINE U == Range(c) \cup {x}
           front == SubSeq(c, 1, n - 1)
           back == SubSeq(c, n + 2, Len(c))
<1>1. c \in Seq(U) /\ Len(c) \in Nat /\ n \in Nat /\ x \in U
  BY DEF IsCircuit
<1> HIDE DEF U
<1>2. front \in Seq(U) /\ Len(front) = n - 1
  BY <1>1
<1>3. back \in Seq(U) /\ Len(back) = Len(c) - (n + 1)
  BY <1>1
<1> HIDE DEF front, back
<1>4. front \o back \in Seq(U) /\ Len(front \o back) = Len(c) - 2
  BY <1>1, <1>2, <1>3
<1>5. front \o <<x>> \in Seq(U) /\ Len(front \o <<x>>) = n
  BY <1>1, <1>2
<1>6. front \o <<x>> \o back \in Seq(U) /\ Len(front \o <<x>> \o back) = Len(c) - 1
  BY <1>1, <1>3, <1>5
<1>7. IsCircuit(front \o back) /\ IsCircuit(front \o <<x>> \o back)
  BY <1>4, <1>6, OwnRange
<1>8. QED
  BY <1>4, <1>6, <1>7 DEF front, back, Without

LEMMA Exchanged ==
  ASSUME NEW c, IsCircuit(c), NEW n \in 1..(Len(c) - 1)
  PROVE  LET e == [c EXCEPT ![n] = c[n + 1], ![n + 1] = c[n]]
         IN  IsCircuit(e) /\ Len(e) = Len(c)
<1> DEFINE e == [c EXCEPT ![n] = c[n + 1], ![n + 1] = c[n]]
<1>1. c \in Seq(Range(c)) /\ n \in DOMAIN c /\ n + 1 \in DOMAIN c
  BY DEF IsCircuit
<1>2. c[n] \in Range(c) /\ c[n + 1] \in Range(c)
  BY <1>1 DEF Range
<1>3. e \in Seq(Range(c)) /\ Len(e) = Len(c)
  BY <1>1, <1>2
<1>4. QED
  BY <1>3, OwnRange

\* The number of a pass in a round.
LEMMA StageOf ==
  ASSUME NEW s \in 1..8
  PROVE  /\ Round[s] = "retain" <=> s \in {1, 5}
         /\ Round[s] = "cancel" <=> s \in {2, 6}
         /\ Round[s] = "merge" <=> s \in {3, 7}
         /\ Round[s] = "commute" <=> s = 4
         /\ Round[s] = "test" <=> s = 8
BY DEF Round

LEMMA RetainRound ==
  ASSUME RoundInv, Retain
  PROVE  RoundInv'
<1>1. RoundOK(circuit, stage, i, after_merge) /\ stage \in {1, 5}
  BY StageOf DEF RoundInv, Retain, At, RoundOK
<1>2. /\ circuit' = Retained(circuit) /\ stage' = stage + 1 /\ i' = 1
      /\ after_merge' = after_merge
  BY <1>1 DEF Retain, NextStage
<1>3. circuit \in Seq(Range(circuit))
  BY <1>1 DEF RoundOK, IsCircuit
<1>4. /\ IsCircuit(circuit') /\ Len(circuit') <= Len(circuit)
      /\ Len(circuit') = Len(circuit) => circuit' = circuit /\ AllKept(circuit)
  BY <1>2, <1>3, RetainedKeeps, OwnRange DEF AllKept
<1>5. Len(circuit) \in Nat /\ Len(circuit') \in Nat
  BY <1>3, <1>4 DEF IsCircuit
<1>6. stage = 5 => Len(circuit) <= after_merge
  BY <1>1 DEF RoundOK
<1>7. stage' \in {2, 6} /\ (stage' = 6 => stage = 5)
  BY <1>1, <1>2
<1>8. stage' = 6 => Len(circuit') <= after_merge'
  BY <1>1, <1>2, <1>4, <1>5, <1>6, <1>7 DEF RoundOK
<1>9. ASSUME stage' = 6, Len(circuit') = after_merge'
      PROVE  Scanned(circuit', stage', i')
  <2>1. circuit' = circuit /\ AllKept(circuit')
    BY <1>1, <1>2, <1>4, <1>5, <1>6, <1>7, <1>9 DEF RoundOK
  <2>2. UnpairedTo(circuit', 1)
    BY <1>5 DEF UnpairedTo
  <2>3. QED
    BY <1>2, <1>9, <2>1, <2>2 DEF Scanned
<1>10. after_merge \in Nat
  BY <1>1 DEF RoundOK
<1>11. QED
  BY <1>2, <1>4, <1>7, <1>8, <1>9, <1>10 DEF RoundInv, RoundOK

LEMMA CancelRound ==
  ASSUME RoundInv, Cancel
  PROVE  RoundInv'
<1>1. RoundOK(circuit, stage, i, after_merge) /\ stage \in {2, 6}
  BY StageOf DEF RoundInv, Cancel, At, RoundOK
<1>2. /\ IsCircuit(circuit) /\ i \in Nat \ {0} /\ after_merge \in Nat
      /\ Len(circuit) \in Nat /\ i < Len(circuit) /\ i \in 1..(Len(circuit) - 1)
  <2>1. i < Len(circuit)
    BY DEF Cancel, Pair
  <2>2. QED
    BY <1>1, <2>1 DEF RoundOK, IsCircuit
<1>3. stage' = stage /\ after_merge' = after_merge
  BY DEF Cancel, Scan
<1>4. CASE is_self_inverse_pair(circuit[i], circuit[i + 1])
  <2>1. circuit' = Without(circuit, i) /\ i' = StepBack(i)
    BY <1>4 DEF Cancel, Scan
  <2>2. IsCircuit(circuit') /\ Len(circuit') = Len(circuit) - 2
    BY <1>2, <2>1, CutOut
  <2>3. i' \in Nat \ {0}
    BY <1>2, <2>1 DEF StepBack
  <2>4. stage = 6 => Len(circuit') < after_merge
    BY <1>1, <1>2, <2>2 DEF RoundOK
  <2>5. QED
    BY <1>1, <1>2, <1>3, <2>2, <2>3, <2>4 DEF RoundInv, RoundOK
<1>5. CASE ~is_self_inverse_pair(circuit[i], circuit[i + 1])
  <2>1. circuit' = circuit /\ i' = i + 1
    BY <1>5 DEF Cancel, Scan
  <2>2. UnpairedTo(circuit, i) => UnpairedTo(circuit, i + 1)
    BY <1>2, <1>5 DEF UnpairedTo
  <2>3. stage = 6 /\ Len(circuit) = after_merge => Scanned(circuit, 6, i + 1)
    BY <1>1, <2>2 DEF RoundOK, Scanned
  <2>4. QED
    BY <1>1, <1>2, <1>3, <2>1, <2>3 DEF RoundInv, RoundOK
<1>6. QED
  BY <1>4, <1>5

LEMMA MergeRound ==
  ASSUME RoundInv, Merge
  PROVE  RoundInv'
<1>1. RoundOK(circuit, stage, i, after_merge) /\ stage \in {3, 7}
  BY StageOf DEF RoundInv, Merge, At, RoundOK
<1>2. /\ IsCircuit(circuit) /\ i \in Nat \ {0} /\ after_merge \in Nat
      /\ Len(circuit) \in Nat /\ i < Len(circuit) /\ i \in 1..(Len(circuit) - 1)
  <2>1. i < Len(circuit)
    BY DEF Merge, Pair
  <2>2. QED
    BY <1>1, <2>1 DEF RoundOK, IsCircuit
<1>3. stage' = stage /\ after_merge' = after_merge
  BY DEF Merge, Scan
<1>4. ASSUME IsCircuit(circuit'), Len(circuit') < Len(circuit), i' \in Nat \ {0}
      PROVE  RoundInv'
  <2>1. Len(circuit') \in Nat
    BY <1>4 DEF IsCircuit
  <2>2. stage = 7 => Len(circuit') < after_merge
    BY <1>1, <1>2, <1>4, <2>1 DEF RoundOK
  <2>3. QED
    BY <1>1, <1>2, <1>3, <1>4, <2>1, <2>2 DEF RoundInv, RoundOK
<1> DEFINE a == circuit[i]
           b == circuit[i + 1]
<1>5. CASE ~Mergeable(a, b)
  <2>1. circuit' = circuit /\ i' = i + 1
    BY <1>5 DEF Merge, Scan
  <2>2. UnmergedTo(circuit, i) => UnmergedTo(circuit, i + 1)
    BY <1>2, <1>5 DEF UnmergedTo
  <2>3. stage = 7 /\ Len(circuit) = after_merge => Scanned(circuit, 7, i + 1)
    BY <1>1, <2>2 DEF RoundOK, Scanned
  <2>4. QED
    BY <1>1, <1>2, <1>3, <2>1, <2>3 DEF RoundInv, RoundOK
<1>6. CASE Mergeable(a, b) /\ a.th[1] + b.th[1] = 0
  <2>1. circuit' = Without(circuit, i) /\ i' = StepBack(i)
    BY <1>6 DEF Merge, Scan
  <2>2. IsCircuit(circuit') /\ Len(circuit') = Len(circuit) - 2
    BY <1>2, <2>1, CutOut
  <2>3. i' \in Nat \ {0}
    BY <1>2, <2>1 DEF StepBack
  <2>4. QED
    BY <1>2, <1>4, <2>2, <2>3
<1>7. CASE Mergeable(a, b) /\ a.th[1] + b.th[1] # 0
  <2> DEFINE x == [a EXCEPT !.th[1] = @ + b.th[1]]
             one == SubSeq(circuit, 1, i - 1) \o <<x>> \o SubSeq(circuit, i + 2, Len(circuit))
  <2>1. circuit' = one
    BY <1>7 DEF Merge
  <2>2. i' = i
    BY <1>7 DEF Merge, Scan
  <2> HIDE DEF x
  <2>3. IsCircuit(one) /\ Len(one) = Len(circuit) - 1
    BY <1>2, CutOut
  <2> HIDE DEF one
  <2>4. Len(circuit') < Len(circuit)
    BY <1>2, <2>1, <2>3
  <2>5. QED
    BY <1>2, <1>4, <2>1, <2>2, <2>3, <2>4
<1>8. QED
  BY <1>5, <1>6, <1>7

LEMMA CommuteRound ==
  ASSUME RoundInv, Commute \/ NextSweep
  PROVE  RoundInv'
<1>1. RoundOK(circuit, stage, i, after_merge) /\ stage = 4
  BY StageOf DEF RoundInv, Commute, NextSweep, At, RoundOK
<1>2. /\ IsCircuit(circuit) /\ i \in Nat \ {0} /\ after_merge \in Nat
      /\ Len(circuit) \in Nat /\ Len(circuit) <= after_merge
  BY <1>1 DEF RoundOK, IsCircuit
<1>3. stage' = 4 /\ after_merge' = after_merge /\ i' \in {i + 1, 1}
  BY <1>1 DEF Commute, NextSweep, Scan
<1>4. IsCircuit(circuit') /\ Len(circuit') = Len(circuit)
  <2>1. CASE Commute /\ try_commute(circuit[i], circuit[i + 1])
    <3>1. i \in 1..(Len(circuit) - 1)
      BY <1>2, <2>1 DEF Commute, Pair
    <3>2. circuit' = [circuit EXCEPT ![i] = circuit[i + 1], ![i + 1] = circuit[i]]
      BY <2>1 DEF Commute
    <3>3. QED
      BY <1>2, <3>1, <3>2, Exchanged
  <2>2. CASE ~(Commute /\ try_commute(circuit[i], circuit[i + 1]))
    BY <1>2, <2>2 DEF Commute, NextSweep
  <2>3. QED
    BY <2>1, <2>2
<1>5. QED
  BY <1>2, <1>3, <1>4 DEF RoundInv, RoundOK

LEMMA ScanEndRound ==
  ASSUME RoundInv, ScanEnd
  PROVE  RoundInv'
<1>1. RoundOK(circuit, stage, i, after_merge) /\ stage \in {2, 3, 4, 6, 7}
  BY StageOf DEF RoundInv, ScanEnd, At, RoundOK
<1>2. /\ IsCircuit(circuit) /\ i \in Nat \ {0} /\ after_merge \in Nat
      /\ Len(circuit) \in Nat /\ Len(circuit) <= i
  BY <1>1 DEF RoundOK, IsCircuit, ScanEnd, Pair
<1>3. /\ circuit' = circuit /\ stage' = stage + 1 /\ i' = 1
      /\ after_merge' = IF stage = 3 THEN Len(circuit) ELSE after_merge
  BY DEF ScanEnd, NextStage
<1>4. stage' >= 4 => Len(circuit') <= after_merge'
  BY <1>1, <1>2, <1>3 DEF RoundOK
<1>5. ASSUME stage' >= 6, Len(circuit') = after_merge'
      PROVE  Scanned(circuit', stage', i')
  <2>1. stage \in {6, 7} /\ stage' = stage + 1 /\ after_merge' = after_merge
    BY <1>1, <1>3, <1>5
  <2>2. Scanned(circuit, stage, i)
    BY <1>3, <1>5, <2>1, <1>1 DEF RoundOK
  <2>3. CASE stage = 6
    <3>1. AllKept(circuit) /\ UnpairedTo(circuit, i)
      BY <2>2, <2>3 DEF Scanned
    <3>2. UnpairedTo(circuit, Len(circuit))
      BY <1>2, <3>1 DEF UnpairedTo
    <3>3. UnmergedTo(circuit, 1)
      BY <1>2 DEF UnmergedTo
    <3>4. QED
      BY <1>3, <2>1, <2>3, <3>1, <3>2, <3>3 DEF Scanned
  <2>4. CASE stage = 7
    <3>1. /\ AllKept(circuit) /\ UnpairedTo(circuit, Len(circuit))
          /\ UnmergedTo(circuit, i)
      BY <2>2, <2>4 DEF Scanned
    <3>2. UnmergedTo(circuit, Len(circuit))
      BY <1>2, <3>1 DEF UnmergedTo
    <3>3. QED
      BY <1>3, <2>1, <2>4, <3>1, <3>2 DEF Scanned
  <2>5. QED
    BY <2>1, <2>3, <2>4
<1>6. stage' \in 1..8 /\ i' \in Nat \ {0} /\ after_merge' \in Nat
  BY <1>1, <1>2, <1>3
<1>7. QED
  BY <1>2, <1>3, <1>4, <1>5, <1>6 DEF RoundInv, RoundOK

LEMMA TestRound ==
  ASSUME RoundInv, Test
  PROVE  RoundInv' /\ (pass' = "prepare" => Finished(circuit'))
<1>1. RoundOK(circuit, stage, i, after_merge) /\ stage = 8
  BY StageOf DEF RoundInv, Test, At, RoundOK
<1>2. circuit' = circuit /\ i' = i /\ after_merge' = after_merge /\ pass = "optimize"
  BY DEF Test, At
<1>3. CASE RoundWasIdle(Len(circuit))
  <2>1. pass' = "prepare" /\ Len(circuit) = after_merge
    BY <1>3 DEF Test, RoundWasIdle
  <2>2. Scanned(circuit, 8, i)
    BY <1>1, <2>1 DEF RoundOK
  <2>3. QED
    BY <1>2, <2>1, <2>2 DEF Scanned, Finished, RoundInv
<1>4. CASE ~RoundWasIdle(Len(circuit))
  <2>1. pass' = "optimize" /\ stage' = 1
    BY <1>2, <1>4 DEF Test
  <2>2. QED
    BY <1>1, <1>2, <2>1 DEF RoundInv, RoundOK
<1>5. QED
  BY <1>3, <1>4

-----------------------------------------------------------------------------

LEMMA OptimizerInit ==
  ASSUME ExpectationInit
  PROVE  RoundInv /\ FinishedInv
<1>1. /\ job \in Jobs /\ circuit = job.ops /\ stage = 1 /\ i = 1 /\ after_merge = 0
      /\ pass = IF job.optimize THEN "optimize" ELSE "prepare"
  BY DEF ExpectationInit, Init, PassInit
<1>2. IsCircuit(job.ops)
  BY <1>1, JobsAssumption DEF IsCircuit
<1>3. QED
  BY <1>1, <1>2 DEF RoundInv, RoundOK, FinishedInv

LEMMA OptimizerStep ==
  ASSUME RoundInv, FinishedInv, [ExpectationNext]_allVars
  PROVE  RoundInv' /\ FinishedInv'
<1>1. CASE Pass
  <2>1. CASE Optimizing
    <3>1. pass = "optimize"
      BY <2>1 DEF Optimizing, Retain, Cancel, Merge, Commute, NextSweep, ScanEnd, Test, At
    <3>2. CASE Test
      BY <3>2, TestRound DEF FinishedInv
    <3>3. CASE Retain \/ Cancel \/ Merge \/ Commute \/ NextSweep \/ ScanEnd
      <4>1. pass' = pass
        BY <3>3 DEF Retain, Cancel, Merge, Commute, NextSweep, ScanEnd, NextStage, Scan
      <4>2. RoundInv'
        BY <3>3, RetainRound, CancelRound, MergeRound, CommuteRound, ScanEndRound
      <4>3. QED
        BY <3>1, <4>1, <4>2 DEF FinishedInv
    <3>4. QED
      BY <2>1, <3>2, <3>3 DEF Optimizing
  <2>2. CASE Preparing
    <3>1. pass' \notin {"optimize", "prepare"}
      <4>1. CASE Prepare
        BY <4>1 DEF Prepare
      <4>2. CASE WalkOp
        BY <4>2 DEF WalkOp, Refusal
      <4>3. CASE WalkEnd
        BY <4>3 DEF WalkEnd
      <4>4. QED
        BY <2>2, <4>1, <4>2, <4>3 DEF Preparing
    <3>2. QED
      BY <3>1 DEF RoundInv, FinishedInv
  <2>3. QED
    BY <1>1, <2>1, <2>2 DEF Pass
<1>2. CASE Handover
  BY <1>2 DEF Handover, RoundInv, FinishedInv
<1>3. CASE pass = "handed" /\ UNCHANGED passVars
  BY <1>3 DEF passVars, RoundInv, FinishedInv
<1>4. CASE UNCHANGED allVars
  BY <1>4 DEF allVars, passVars, vars, RoundInv, FinishedInv
<1>5. QED
  BY <1>1, <1>2, <1>3, <1>4 DEF ExpectationNext

\* The loop of the optimizer ends only on a circuit to which none of its rules
\* applies, for circuits of any length on any number of wires: the round in
\* which nothing was removed has gone through all of it after the commutations
\* (optimize.rs, optimize and its three passes).
THEOREM NothingLeftBehind == ExpectationSpec => []NothingLeft
<1>1. ExpectationInit => RoundInv /\ FinishedInv
  BY OptimizerInit
<1>2. RoundInv /\ FinishedInv /\ [ExpectationNext]_allVars => (RoundInv /\ FinishedInv)'
  BY OptimizerStep
<1>3. FinishedInv => NothingLeft
  BY DEF FinishedInv, Finished, NothingLeft, AllKept, UnpairedTo, UnmergedTo
<1>4. QED
  BY <1>1, <1>2, <1>3, PTL DEF ExpectationSpec

-----------------------------------------------------------------------------
(* The cap on the terms in flight.                                         *)

\* A cap with no frequency cutoff, so that every term is followed by its test.
Strict == Capped /\ job.max_freq = None

\* The cap is a number, the sum under construction is empty until the backward
\* run and within the cap as long as the run goes on.
FlightInv ==
    /\ {"max_terms", "max_freq"} \subseteq DOMAIN job /\ job.max_terms \in Nat \cup {None}
    /\ IsFiniteSet(DOMAIN out)
    /\ phase = "forward" => out = EmptySum
    /\ Strict /\ phase = "back" => Cardinality(DOMAIN out) <= job.max_terms
    /\ Strict => Cardinality(DOMAIN out) <= job.max_terms + 2

LEMMA AddWeightedDomain ==
  ASSUME NEW s, NEW key, NEW c, NEW freq
  PROVE  DOMAIN add_weighted(s, key, c, freq) = DOMAIN s \cup {key}
<1>1. CASE key \in DOMAIN s
  BY <1>1 DEF add_weighted
<1>2. CASE key \notin DOMAIN s
  BY <1>2 DEF add_weighted
<1>3. QED
  BY <1>1, <1>2

LEMMA OneMore ==
  ASSUME NEW S, IsFiniteSet(S), NEW a
  PROVE  /\ IsFiniteSet(S \cup {a}) /\ Cardinality(S \cup {a}) \in Nat
         /\ Cardinality(S \cup {a}) <= Cardinality(S) + 1
<1>1. /\ IsFiniteSet(S \cup {a})
      /\ Cardinality(S \cup {a}) = IF a \in S THEN Cardinality(S) ELSE Cardinality(S) + 1
  BY FS_AddElement
<1>2. Cardinality(S) \in Nat
  BY FS_CardinalityType
<1>3. QED
  BY <1>1, <1>2

LEMMA TwoMore ==
  ASSUME NEW S, IsFiniteSet(S), NEW a, NEW b, NEW T, T \subseteq S \cup {a} \cup {b}
  PROVE  IsFiniteSet(T) /\ Cardinality(T) \in Nat /\ Cardinality(T) <= Cardinality(S) + 2
<1> DEFINE A == S \cup {a}
           B == A \cup {b}
<1>1. IsFiniteSet(A) /\ Cardinality(A) \in Nat /\ Cardinality(A) <= Cardinality(S) + 1
  BY OneMore
<1> HIDE DEF A
<1>2. IsFiniteSet(B) /\ Cardinality(B) \in Nat /\ Cardinality(B) <= Cardinality(A) + 1
  BY <1>1, OneMore
<1>3. T \subseteq B
  BY DEF A
<1> HIDE DEF B
<1>4. IsFiniteSet(T) /\ Cardinality(T) <= Cardinality(B)
  BY <1>2, <1>3, FS_Subset
<1>5. Cardinality(T) \in Nat /\ Cardinality(S) \in Nat
  BY <1>4, FS_CardinalityType
<1>6. QED
  BY <1>1, <1>2, <1>4, <1>5

\* One term gives its own string and at most one more.
LEMMA ExpandedDomain ==
  ASSUME NEW acc, NEW key, NEW r
  PROVE  /\ \E rk : DOMAIN Expanded(acc, key, r).out \subseteq DOMAIN acc.out \cup {key} \cup {rk}
         /\ job.max_freq = None => Expanded(acc, key, r).tested
<1> DEFINE w == sum[key]
           cosine == add_weighted(acc.out, key, Times(w.c, Cos(r.th)), w.freq)
           child == Times(Times(Times(w.c, ImUnit), Sin(r.th)), Factor(r.gx, r.gz))
           signed == Times(child, RawSign(r.gz, key[1]))
           rk == <<SymDiff(key[1], r.gx), SymDiff(key[2], r.gz)>>
           plain == add_weighted(acc.out, key, w.c, w.freq)
           both == add_weighted(cosine, rk, signed, w.freq + 1)
           lost == Plus(acc.dropped, Modulus(child))
<1>1. Expanded(acc, key, r) =
        IF ~anticommutes_with(key, r.gx, r.gz)
        THEN [out |-> plain, dropped |-> acc.dropped, tested |-> TRUE]
        ELSE IF job.max_freq # None /\ w.freq + 1 > job.max_freq
        THEN [out |-> cosine, dropped |-> lost, tested |-> FALSE]
        ELSE [out |-> both, dropped |-> acc.dropped, tested |-> TRUE]
  BY DEF Expanded
<1>2. DOMAIN plain = DOMAIN acc.out \cup {key} /\ DOMAIN cosine = DOMAIN acc.out \cup {key}
  BY AddWeightedDomain
<1> HIDE DEF cosine, rk, signed, w
<1>3. DOMAIN both = DOMAIN cosine \cup {rk}
  BY AddWeightedDomain
<1> HIDE DEF plain, cosine, both, lost, rk, w
<1>4. Expanded(acc, key, r).out \in {plain, cosine, both}
  BY <1>1
<1>5. DOMAIN Expanded(acc, key, r).out \subseteq DOMAIN acc.out \cup {key} \cup {rk}
  BY <1>2, <1>3, <1>4
<1>6. job.max_freq = None => Expanded(acc, key, r).tested
  BY <1>1
<1>7. QED
  BY <1>5, <1>6

LEMMA FlightInit ==
  ASSUME ExpectationInit
  PROVE  FlightInv
<1>1. job \in Jobs /\ phase = "forward" /\ out = EmptySum
  BY DEF ExpectationInit, Init
<1>2. {"max_terms", "max_freq"} \subseteq DOMAIN job /\ job.max_terms \in Nat \cup {None}
  BY <1>1, JobsAssumption
<1>3. DOMAIN out = {}
  BY <1>1 DEF EmptySum
<1>4. IsFiniteSet(DOMAIN out) /\ Cardinality(DOMAIN out) = 0
  BY <1>3, FS_EmptySet
<1>5. Strict => job.max_terms \in Nat
  BY <1>2 DEF Strict, Capped
<1>6. QED
  BY <1>1, <1>2, <1>4, <1>5 DEF FlightInv

\* Every step but those of a branching leaves the sum under construction alone.
LEMMA FlightAlone ==
  ASSUME FlightInv, UNCHANGED <<job, out>>, phase' = "forward" => phase = "forward",
         phase' = "back" => phase \in {"forward", "back"}
  PROVE  FlightInv'
<1>1. Strict' = Strict
  BY DEF Strict, Capped
<1>2. Strict => job.max_terms \in Nat
  BY DEF Strict, Capped, FlightInv
<1>3. phase = "forward" => IsFiniteSet(DOMAIN out) /\ Cardinality(DOMAIN out) = 0
  <2>1. phase = "forward" => DOMAIN out = {}
    BY DEF FlightInv, EmptySum
  <2>2. QED
    BY <2>1, FS_EmptySet
<1>4. QED
  BY <1>1, <1>2, <1>3 DEF FlightInv

LEMMA FlightTerm ==
  ASSUME FlightInv, NEW key, BranchTerm(key)
  PROVE  FlightInv'
<1> DEFINE e == Expanded([out |-> out, dropped |-> dropped_mass], key, Head(program))
<1>1. /\ phase = "back" /\ out' = e.out /\ job' = job
      /\ phase' = IF e.tested /\ OverCap(e.out) THEN "refused" ELSE phase
  BY DEF BranchTerm, Step
<1>2. Strict' = Strict /\ (Strict => job.max_terms \in Nat)
  BY <1>1 DEF Strict, Capped, FlightInv
<1>3. PICK rk : DOMAIN e.out \subseteq DOMAIN out \cup {key} \cup {rk}
  BY ExpandedDomain
<1>4. job.max_freq = None => e.tested
  BY ExpandedDomain
<1> HIDE DEF e
<1>5. /\ IsFiniteSet(DOMAIN out') /\ Cardinality(DOMAIN out') \in Nat
      /\ Cardinality(DOMAIN out') <= Cardinality(DOMAIN out) + 2
  BY <1>1, <1>3, TwoMore DEF FlightInv
<1>6. Cardinality(DOMAIN out) \in Nat
  BY FS_CardinalityType DEF FlightInv
<1>7. Strict => Cardinality(DOMAIN out') <= job.max_terms + 2
  BY <1>1, <1>2, <1>5, <1>6 DEF FlightInv
<1>8. Strict /\ phase' = "back" => Cardinality(DOMAIN out') <= job.max_terms
  BY <1>1, <1>2, <1>4, <1>5 DEF Strict, OverCap
<1>9. phase' # "forward"
  BY <1>1
<1>10. QED
  BY <1>1, <1>2, <1>5, <1>7, <1>8, <1>9 DEF FlightInv

LEMMA FlightEnd ==
  ASSUME FlightInv, BranchEnd
  PROVE  FlightInv'
<1>1. phase = "back"
  BY DEF BranchEnd, Step
<1>2. CASE OverCap(out)
  <2>1. phase' = "refused" /\ UNCHANGED <<job, out>>
    BY <1>2 DEF BranchEnd, Refuse
  <2>2. QED
    BY <2>1, FlightAlone
<1>3. CASE ~OverCap(out)
  <2>1. job' = job /\ out' = EmptySum /\ phase' # "forward"
    BY <1>1, <1>3 DEF BranchEnd, Advance
  <2>2. Strict' = Strict /\ (Strict => job.max_terms \in Nat)
    BY <2>1 DEF Strict, Capped, FlightInv
  <2>3. DOMAIN out' = {}
    BY <2>1 DEF EmptySum
  <2>4. IsFiniteSet(DOMAIN out') /\ Cardinality(DOMAIN out') = 0
    BY <2>3, FS_EmptySet
  <2>5. QED
    BY <2>1, <2>2, <2>4 DEF FlightInv
<1>4. QED
  BY <1>2, <1>3

LEMMA FlightStep ==
  ASSUME FlightInv, [ExpectationNext]_allVars
  PROVE  FlightInv'
<1>1. CASE Next
  <2>1. CASE EvolveGate \/ EvolveChannel
    BY <2>1, FlightAlone DEF EvolveGate, EvolveChannel
  <2>2. CASE Seed
    <3>1. phase = "forward" /\ phase' \in {"refused", "back"} /\ UNCHANGED <<job, out>>
      BY <2>2 DEF Seed, Refuse
    <3>2. QED
      BY <3>1, FlightAlone
  <2>3. CASE Start
    <3>1. phase = "back" /\ phase' \in {"refused", "back"} /\ UNCHANGED <<job, out>>
      BY <2>3 DEF Start, Idle, Refuse
    <3>2. QED
      BY <3>1, FlightAlone
  <2>4. CASE MapStep \/ NothingStep \/ BranchSkip
    <3>1. phase = "back" /\ phase' \in {"refused", "back"} /\ UNCHANGED <<job, out>>
      BY <2>4 DEF MapStep, NothingStep, BranchSkip, Step, Advance
    <3>2. QED
      BY <3>1, FlightAlone
  <2>5. CASE BranchStart
    BY <2>5, FlightAlone DEF BranchStart, Step
  <2>6. CASE BranchEnd
    BY <2>6, FlightEnd
  <2>7. CASE \E key \in Readable : BranchTerm(key)
    BY <2>7, FlightTerm
  <2>8. CASE Finish
    <3>1. phase = "back" /\ phase' \in {"refused", "done"} /\ UNCHANGED <<job, out>>
      BY <2>8 DEF Finish, Idle
    <3>2. QED
      BY <3>1, FlightAlone
  <2>9. QED
    BY <1>1, <2>1, <2>2, <2>3, <2>4, <2>5, <2>6, <2>7, <2>8 DEF Next
<1>2. CASE Handover
  <2>1. job' = [job EXCEPT !.ops = circuit, !.obs = dephase(@, measured)]
    BY <1>2 DEF Handover
  <2>2. /\ DOMAIN job' = DOMAIN job
        /\ "max_terms" \in DOMAIN job => job'.max_terms = job.max_terms
        /\ "max_freq" \in DOMAIN job => job'.max_freq = job.max_freq
    BY <2>1
  <2>3. out' = out /\ phase' = phase
    BY <1>2 DEF Handover
  <2>4. QED
    BY <2>2, <2>3 DEF FlightInv, Strict, Capped
<1>3. CASE UNCHANGED vars
  BY <1>3, FlightAlone DEF vars
<1>4. QED
  BY <1>1, <1>2, <1>3 DEF ExpectationNext, Pass, allVars

\* With a cap and no frequency cutoff the sum under construction is never more
\* than two terms over the cap, for circuits and observables of any size: a
\* term adds two strings at most and is followed by the test (bound.rs
\* term_ceiling; propagate.rs branch).
THEOREM FlightIsBounded == ExpectationSpec => []InFlightCeiling
<1>1. ExpectationInit => FlightInv
  BY FlightInit
<1>2. FlightInv /\ [ExpectationNext]_allVars => FlightInv'
  BY FlightStep
<1>3. FlightInv => InFlightCeiling
  BY DEF FlightInv, Strict, InFlightCeiling
<1>4. QED
  BY <1>1, <1>2, <1>3, PTL DEF ExpectationSpec

-----------------------------------------------------------------------------
(* The passes' choices, as laws of the gates.                              *)

LEMMA ZBasisDiagonal ==
  ASSUME NEW g, g.op \in ZBasis
  PROVE  IsDiagonal(GateMatrix(g))
<1>1. \A x, y : IsDiagonal(<<x, Zero, Zero, y>>)
  BY DEF IsDiagonal
<1>2. QED
  BY <1>1 DEF ZBasis, GateMatrix, Matrix, OneQubit, RzMatrix

\* Two rotations about one axis, the second after the first.
LEMMA MergedMatrix ==
  ASSUME NEW a, Plain(a), NEW b, Plain(b), Mergeable(a, b),
         NEW c, c.op = a.op, c.th[1] = a.th[1] + b.th[1]
  PROVE  MatTimes(GateMatrix(b), GateMatrix(a)) = GateMatrix(c)
<1> DEFINE s == a.th[1]
           t == b.th[1]
           x == s \div 2
           y == t \div 2
<1>1. b.op = a.op /\ a.op \in Rotations1 /\ c.op \in Rotations1
  BY DEF Mergeable
<1>2. s \in Int /\ t \in Int
  <2>1. 1 \in 1..Angles(a.op) /\ 1 \in 1..Angles(b.op)
    BY <1>1 DEF Angles, Rotations1
  <2>2. QED
    BY <2>1 DEF Plain
<1>3. x \in Int /\ y \in Int /\ s + t \in Int /\ t + s = s + t /\ y + x = x + y /\ -x \in Int /\ -y \in Int
      /\ (-y) + (-x) = -(x + y)
  BY <1>2
<1>4. a.op # "U1" => (s + t) \div 2 = x + y
  <2>1. a.op # "U1" => s % 2 = 0 /\ t % 2 = 0
    BY <1>1 DEF Plain, Rotations1
  <2>2. QED
    BY <1>2, <2>1
<1> DEFINE C1 == Cos(x) S1 == Sin(x) C2 == Cos(y) S2 == Sin(y) i1 == ImUnit
<1>5. C1 \in Amps /\ S1 \in Amps /\ C2 \in Amps /\ S2 \in Amps /\ i1 \in Amps /\ Zero \in Amps /\ One \in Amps
  BY <1>3, Constants
<1>6. /\ Plus(Times(C2, C1), Neg(Times(S2, S1))) = Cos(x + y)
      /\ Plus(Times(S2, C1), Times(C2, S1)) = Sin(x + y)
  BY <1>3, Addition
<1>7. /\ Times(C2, C1) \in Amps /\ Times(S2, S1) \in Amps /\ Times(S2, C1) \in Amps /\ Times(C2, S1) \in Amps
      /\ Neg(Times(S2, S1)) \in Amps
  BY <1>5, Constants
<1>8. Plus(Neg(Times(S2, S1)), Times(C2, C1)) = Plus(Times(C2, C1), Neg(Times(S2, S1)))
      /\ Plus(Times(C2, S1), Times(S2, C1)) = Plus(Times(S2, C1), Times(C2, S1))
  BY <1>7, PlusLaws
<1> HIDE DEF s, t, x, y
<1>9. CASE a.op = "Rx"
  <2> DEFINE p == Neg(Times(i1, S1))
             q == Neg(Times(i1, S2))
  <2>1. GateMatrix(a) = <<C1, p, p, C1>> /\ GateMatrix(b) = <<C2, q, q, C2>>
    BY <1>1, <1>9 DEF GateMatrix, Matrix, OneQubit, s, t, x, y
  <2>2. GateMatrix(c) = <<Cos(x + y), Neg(Times(i1, Sin(x + y))), Neg(Times(i1, Sin(x + y))), Cos(x + y)>>
    <3>1. c.th[1] \div 2 = x + y
      BY <1>4, <1>9 DEF s, t
    <3>2. QED
      BY <1>9, <3>1 DEF GateMatrix, Matrix, OneQubit
  <2>3. Times(q, p) = Neg(Times(S2, S1))
    BY <1>5, Signs
  <2>4. /\ Times(C2, p) = Neg(Times(i1, Times(C2, S1))) /\ Times(q, C1) = Neg(Times(i1, Times(S2, C1)))
    <3>1. Times(i1, S1) \in Amps /\ Times(i1, S2) \in Amps
      BY <1>5, Constants
    <3>2. Times(C2, p) = Neg(Times(C2, Times(i1, S1))) /\ Times(q, C1) = Neg(Times(Times(i1, S2), C1))
      BY <1>5, <3>1, TimesLaws
    <3>3. Times(C2, Times(i1, S1)) = Times(i1, Times(C2, S1)) /\ Times(i1, Times(S2, C1)) = Times(Times(i1, S2), C1)
      BY <1>5, Past
    <3>4. QED
      BY <3>2, <3>3
  <2>5. /\ Plus(Neg(Times(i1, Times(C2, S1))), Neg(Times(i1, Times(S2, C1)))) = Neg(Times(i1, Sin(x + y)))
        /\ Plus(Neg(Times(i1, Times(S2, C1))), Neg(Times(i1, Times(C2, S1)))) = Neg(Times(i1, Sin(x + y)))
    <3> DEFINE u == Times(C2, S1)
               v == Times(S2, C1)
    <3>1. u \in Amps /\ v \in Amps /\ Times(i1, u) \in Amps /\ Times(i1, v) \in Amps
      BY <1>5, <1>7, Constants
    <3>2. Times(i1, Plus(u, v)) = Plus(Times(i1, u), Times(i1, v)) /\ Times(i1, Plus(v, u)) = Plus(Times(i1, v), Times(i1, u))
      BY <1>5, <3>1, TimesLaws
    <3>3. /\ Neg(Plus(Times(i1, u), Times(i1, v))) = Plus(Neg(Times(i1, u)), Neg(Times(i1, v)))
          /\ Neg(Plus(Times(i1, v), Times(i1, u))) = Plus(Neg(Times(i1, v)), Neg(Times(i1, u)))
      BY <3>1, PlusLaws
    <3>4. QED
      BY <1>6, <1>8, <3>2, <3>3
  <2> HIDE DEF p, q, C1, C2, S1, S2, i1
  <2>6. MatTimes(GateMatrix(b), GateMatrix(a))
          = <<Plus(Times(C2, C1), Times(q, p)), Plus(Times(C2, p), Times(q, C1)),
              Plus(Times(q, C1), Times(C2, p)), Plus(Times(q, p), Times(C2, C1))>>
    BY <2>1 DEF MatTimes
  <2>7. QED
    BY <1>6, <1>8, <2>2, <2>3, <2>4, <2>5, <2>6
<1>10. CASE a.op = "Ry"
  <2>1. GateMatrix(a) = <<C1, Neg(S1), S1, C1>> /\ GateMatrix(b) = <<C2, Neg(S2), S2, C2>>
    BY <1>1, <1>10 DEF GateMatrix, Matrix, OneQubit, s, t, x, y
  <2>2. GateMatrix(c) = <<Cos(x + y), Neg(Sin(x + y)), Sin(x + y), Cos(x + y)>>
    <3>1. c.th[1] \div 2 = x + y
      BY <1>4, <1>10 DEF s, t
    <3>2. QED
      BY <1>10, <3>1 DEF GateMatrix, Matrix, OneQubit
  <2>3. /\ Times(Neg(S2), S1) = Neg(Times(S2, S1)) /\ Times(S2, Neg(S1)) = Neg(Times(S2, S1))
        /\ Times(C2, Neg(S1)) = Neg(Times(C2, S1)) /\ Times(Neg(S2), C1) = Neg(Times(S2, C1))
    BY <1>5, Signs
  <2>4. Plus(Neg(Times(C2, S1)), Neg(Times(S2, C1))) = Neg(Sin(x + y))
    <3>1. Neg(Plus(Times(C2, S1), Times(S2, C1))) = Plus(Neg(Times(C2, S1)), Neg(Times(S2, C1)))
      BY <1>7, PlusLaws
    <3>2. QED
      BY <1>6, <1>8, <3>1
  <2> HIDE DEF C1, C2, S1, S2, i1
  <2>5. MatTimes(GateMatrix(b), GateMatrix(a))
          = <<Plus(Times(C2, C1), Times(Neg(S2), S1)), Plus(Times(C2, Neg(S1)), Times(Neg(S2), C1)),
              Plus(Times(S2, C1), Times(C2, S1)), Plus(Times(S2, Neg(S1)), Times(C2, C1))>>
    BY <2>1 DEF MatTimes
  <2>6. QED
    BY <1>6, <1>8, <2>2, <2>3, <2>4, <2>5
<1>11. CASE a.op = "Rz"
  <2>1. GateMatrix(a) = <<Ei(-x), Zero, Zero, Ei(x)>> /\ GateMatrix(b) = <<Ei(-y), Zero, Zero, Ei(y)>>
    BY <1>1, <1>11 DEF GateMatrix, Matrix, OneQubit, RzMatrix, s, t, x, y
  <2>2. GateMatrix(c) = <<Ei(-(x + y)), Zero, Zero, Ei(x + y)>>
    <3>1. c.th[1] \div 2 = x + y
      BY <1>4, <1>11 DEF s, t
    <3>2. QED
      BY <1>11, <3>1 DEF GateMatrix, Matrix, OneQubit, RzMatrix
  <2>3. Times(Ei(-y), Ei(-x)) = Ei(-(x + y)) /\ Times(Ei(y), Ei(x)) = Ei(x + y)
    BY <1>3, EiTimes
  <2>4. /\ IsDiagonal(GateMatrix(a)) /\ IsMatrix(GateMatrix(a)) /\ IsDiagonal(GateMatrix(b)) /\ IsMatrix(GateMatrix(b))
    BY <2>1, MatrixType DEF IsDiagonal
  <2>5. MatTimes(GateMatrix(b), GateMatrix(a)) = <<Times(Ei(-y), Ei(-x)), Zero, Zero, Times(Ei(y), Ei(x))>>
    BY <2>1, <2>4, DiagonalProduct
  <2>6. QED
    BY <2>2, <2>3, <2>5
<1>12. CASE a.op = "U1"
  <2>1. GateMatrix(a) = <<One, Zero, Zero, Ei(s)>> /\ GateMatrix(b) = <<One, Zero, Zero, Ei(t)>>
    BY <1>1, <1>12 DEF GateMatrix, Matrix, OneQubit, s, t
  <2>2. GateMatrix(c) = <<One, Zero, Zero, Ei(s + t)>>
    BY <1>12 DEF GateMatrix, Matrix, OneQubit, s, t
  <2>3. Times(Ei(t), Ei(s)) = Ei(s + t)
    BY <1>2, <1>3, EiTimes
  <2>4. Times(One, One) = One
    BY <1>5, TimesLaws
  <2>5. /\ IsDiagonal(GateMatrix(a)) /\ IsMatrix(GateMatrix(a)) /\ IsDiagonal(GateMatrix(b)) /\ IsMatrix(GateMatrix(b))
    BY <2>1, MatrixType DEF IsDiagonal
  <2>6. MatTimes(GateMatrix(b), GateMatrix(a)) = <<Times(One, One), Zero, Zero, Times(Ei(t), Ei(s))>>
    BY <2>1, <2>5, DiagonalProduct
  <2>7. QED
    BY <2>2, <2>3, <2>4, <2>6
<1>13. QED
  BY <1>1, <1>9, <1>10, <1>11, <1>12 DEF Rotations1

LEMMA NoRotation ==
  ASSUME NEW g, g.op \in Rotations1, g.th[1] = 0
  PROVE  GateMatrix(g) = Unit
<1> DEFINE h == g.th[1] \div 2
<1>1. h = 0 /\ -h = h
  <2>1. h = 0
    OBVIOUS
  <2>2. \A n \in Int : n <= 0 /\ n >= 0 => -n = n
    OBVIOUS
  <2> HIDE DEF h
  <2>3. h \in Int /\ h <= 0 /\ h >= 0
    BY <2>1
  <2>4. QED
    BY <2>1, <2>2, <2>3
<1>2. Neg(Zero) = Zero /\ Times(ImUnit, Zero) = Zero
  <2>1. Neg(Zero) = Zero
    BY DEF Neg, QNeg, Zero, Int2Amp
  <2>2. QED
    BY <2>1, Constants, TimesLaws
<1>3. CASE g.op = "Rz"
  <2>1. GateMatrix(g) = <<Ei(-h), Zero, Zero, Ei(h)>>
    BY <1>3 DEF GateMatrix, Matrix, OneQubit, RzMatrix
  <2> HIDE DEF h
  <2>2. QED
    BY <1>1, <2>1, ZeroAngle DEF Unit
<1>4. CASE g.op \in {"Rx", "Ry"}
  <2>1. \/ GateMatrix(g) = <<Cos(h), Neg(Times(ImUnit, Sin(h))), Neg(Times(ImUnit, Sin(h))), Cos(h)>>
        \/ GateMatrix(g) = <<Cos(h), Neg(Sin(h)), Sin(h), Cos(h)>>
    BY <1>4 DEF GateMatrix, Matrix, OneQubit
  <2> HIDE DEF h
  <2>2. QED
    BY <1>1, <1>2, <2>1, ZeroAngle DEF Unit
<1>5. CASE g.op = "U1"
  BY <1>5, ZeroAngle DEF GateMatrix, Matrix, OneQubit, Unit
<1>6. QED
  BY <1>3, <1>4, <1>5 DEF Rotations1

\* Whatever the optimizer moves a gate past commutes with it.
LEMMA MovesCommute ==
  ASSUME NEW a, Plain(a), NEW b, Plain(b), try_commute(a, b), NEW v \in Vectors
  PROVE  ApplyGate(ApplyGate(v, a), b) = ApplyGate(ApplyGate(v, b), a)
<1> DEFINE p == a.qs[1]
           t == a.qs[2]
           q == b.qs[1]
           ra == Role(a)
           pa == Partner(a)
           rb == Role(b)
           pb == Partner(b)
           ma == GateMatrix(a)
           mb == GateMatrix(b)
<1>1. ApplyGate(v, a) \in Vectors /\ ApplyGate(v, b) \in Vectors
  BY GateType
<1>2. a.op \in Controlled \cup {"Swap", "Rbs"} /\ a.op \notin OneQubit
  BY DEF try_commute, ManyWires, Plain, OneQubit, Controlled
<1>3. CASE b.op = "Id"
  BY <1>3 DEF ApplyGate, OneQubit, Controlled
<1>4. CASE b.op \in OneQubit
  <2>1. p \in Qubits /\ t \in Qubits /\ p # t /\ q \in Qubits
    BY <1>2, <1>4, Wires
  <2>2. /\ ApplyGate(v, a) = Kernel(v, ra, pa, ma) /\ ApplyGate(v, b) = Kernel(v, rb, pb, mb)
        /\ ApplyGate(ApplyGate(v, a), b) = Kernel(Kernel(v, ra, pa, ma), rb, pb, mb)
        /\ ApplyGate(ApplyGate(v, b), a) = Kernel(Kernel(v, rb, pb, mb), ra, pa, ma)
    BY <1>1, GateKernel
  <2>3. Pairing(ra, pa) /\ Pairing(rb, pb) /\ IsMatrix(ma) /\ IsMatrix(mb)
    BY GatePairing, MatrixType
  <2>4. \A x \in Basis : rb[x] = Side(q \in x) /\ pb[x] = Flip(x, q)
    BY <1>4 DEF Role, Partner
  <2>5. a.op \in Controlled =>
          \A x \in Basis : ra[x] = (IF p \in x THEN Side(t \in x) ELSE "none") /\ pa[x] = Flip(x, t)
    BY DEF Role, Partner, OneQubit, Controlled
  <2>6. a.op \in {"Swap", "Rbs"} =>
          \A x \in Basis : /\ ra[x] = (IF (p \in x) = (t \in x) THEN "none" ELSE Side(p \in x))
                           /\ pa[x] = Swapped(x, p, t)
    BY DEF Role, Partner, OneQubit, Controlled
  <2>7. CASE q # p /\ q # t
    <3>1. ASSUME NEW x \in Basis
          PROVE  ra[pb[x]] = ra[x] /\ rb[pa[x]] = rb[x] /\ pa[pb[x]] = pb[pa[x]]
      <4>1. Flip(x, q) \in Basis /\ (p \in Flip(x, q) <=> p \in x) /\ (t \in Flip(x, q) <=> t \in x)
        BY <2>1, <2>7, FlipLaws
      <4>2. CASE a.op \in Controlled
        <5>1. Flip(x, t) \in Basis /\ (q \in Flip(x, t) <=> q \in x)
          BY <2>1, <2>7, FlipLaws
        <5>2. Flip(Flip(x, q), t) = Flip(Flip(x, t), q)
          BY <2>1, <2>7, FlipsCommute
        <5> HIDE DEF p, t, q, ra, pa, rb, pb
        <5>3. QED
          BY <2>4, <2>5, <4>1, <4>2, <5>1, <5>2 DEF Side
      <4>3. CASE a.op \in {"Swap", "Rbs"}
        <5>1. Swapped(x, p, t) \in Basis /\ (q \in Swapped(x, p, t) <=> q \in x)
          <6> HIDE DEF p, t, q
          <6>1. Swapped(x, p, t) \in Basis /\ \A r : r # p /\ r # t => (r \in Swapped(x, p, t) <=> r \in x)
            BY <2>1, SwapLaws
          <6>2. QED
            BY <2>7, <6>1
        <5>2. Flip(Swapped(x, p, t), q) = Swapped(Flip(x, q), p, t)
          BY <2>1, <2>7, FlipsCommute
        <5> HIDE DEF p, t, q, ra, pa, rb, pb
        <5>3. QED
          BY <2>4, <2>6, <4>1, <4>3, <5>1, <5>2 DEF Side
      <4>4. QED
        BY <1>2, <4>2, <4>3
    <3>2. Unrelated(ra, pa, rb, pb)
      <4> HIDE DEF ra, pa, rb, pb
      <4>1. QED
        BY <3>1 DEF Unrelated
    <3> HIDE DEF ra, pa, rb, pb, ma, mb
    <3>3. QED
      BY <2>2, <2>3, <3>2, ApartCommute
  <2>8. CASE a.op = "CX" /\ q = p
    <3>1. b.op \in ZBasis
      BY <2>8 DEF try_commute
    <3>2. IsDiagonal(mb)
      BY <3>1, ZBasisDiagonal
    <3>3. \A x \in Basis : rb[pa[x]] = rb[x]
      <4>1. \A x \in Basis : pa[x] = Flip(x, t)
        BY <2>5, <2>8 DEF Controlled
      <4> HIDE DEF p, t, q, ra, pa, rb, pb
      <4>2. QED
        BY <2>1, <2>4, <2>8, <4>1, FlipLaws
    <3> HIDE DEF ra, pa, rb, pb, ma, mb
    <3>4. QED
      BY <2>2, <2>3, <3>2, <3>3, DiagonalCommutes
  <2>9. CASE a.op = "CX" /\ q = t
    <3>1. b.op = "X"
      BY <2>9 DEF try_commute
    <3>2. ma = XMat /\ mb = XMat
      BY <2>9, <3>1 DEF GateMatrix, Block, Matrix, OneQubit, Controlled, XMat
    <3>3. pa = pb
      <4>1. pa = [x \in Basis |-> Flip(x, t)] /\ pb = [x \in Basis |-> Flip(x, q)]
        BY <2>9, <3>1 DEF Partner, OneQubit, Controlled
      <4>2. QED
        BY <2>9, <4>1
    <3> HIDE DEF ra, pa, rb, pb, ma, mb
    <3>4. QED
      BY <2>2, <2>3, <3>2, <3>3, ExchangesCommute
  <2>10. CASE a.op = "CZ" /\ (q = p \/ q = t)
    <3>1. q \in Range(a.qs)
      <4>1. Len(a.qs) = 2 /\ a.qs \in Seq(Qubits)
        BY <1>2 DEF Plain
      <4>2. DOMAIN a.qs = 1..2
        BY <4>1
      <4>3. QED
        BY <2>10, <4>2 DEF Range
    <3>2. b.op \in ZBasis
      BY <2>10, <3>1 DEF try_commute
    <3>3. IsDiagonal(mb)
      BY <3>2, ZBasisDiagonal
    <3>4. IsDiagonal(ma)
      BY <2>10 DEF IsDiagonal, GateMatrix, Block, OneQubit, Controlled
    <3> HIDE DEF ra, pa, rb, pb, ma, mb
    <3>5. QED
      BY <2>2, <2>3, <3>3, <3>4, DiagonalsCommute
  <2>11. (q # p /\ q # t) \/ a.op \in {"CX", "CZ"}
    BY DEF try_commute, ManyWires
  <2>12. QED
    BY <2>7, <2>8, <2>9, <2>10, <2>11
<1>5. QED
  BY <1>3, <1>4 DEF try_commute, OneWire, Plain, OneQubit, Controlled

LEMMA PairsCancel ==
  ASSUME NEW a, Plain(a), NEW b, Plain(b), is_self_inverse_pair(a, b), NEW v \in Vectors
  PROVE  ApplyGate(ApplyGate(v, a), b) = v
<1> DEFINE r == Role(a)
           o == Partner(a)
           m == GateMatrix(a)
<1>1. a.op \in {"H", "X", "Y", "Z", "CX", "CZ", "Swap"} /\ b.op = a.op /\ b.qs = a.qs
  BY DEF is_self_inverse_pair
<1>2. Role(b) = r /\ Partner(b) = o
  BY <1>1 DEF Role, Partner
<1>3. GateMatrix(b) = m
  BY <1>1 DEF GateMatrix, Matrix, Block, OneQubit, Controlled
<1>4. ApplyGate(v, a) \in Vectors
  BY GateType
<1>5. ApplyGate(v, a) = Kernel(v, r, o, m) /\ ApplyGate(ApplyGate(v, a), b) = Kernel(ApplyGate(v, a), Role(b), Partner(b), GateMatrix(b))
  BY <1>4, GateKernel
<1>6. Pairing(r, o) /\ IsMatrix(m) /\ MatTimes(m, m) = Unit
  BY <1>1, GatePairing, MatrixType, Inverses
<1> HIDE DEF r, o, m
<1>7. QED
  BY <1>2, <1>3, <1>5, <1>6, KernelTwice, KernelUnit

LEMMA PairsMerge ==
  ASSUME NEW a, Plain(a), NEW b, Plain(b), Mergeable(a, b), NEW v \in Vectors
  PROVE  LET c == [a EXCEPT !.th[1] = @ + b.th[1]]
         IN  /\ Plain(c)
             /\ ApplyGate(v, c) = ApplyGate(ApplyGate(v, a), b)
             /\ a.th[1] + b.th[1] = 0 => ApplyGate(ApplyGate(v, a), b) = v
<1> DEFINE s == [a.th EXCEPT ![1] = a.th[1] + b.th[1]]
           c == [a EXCEPT !.th[1] = @ + b.th[1]]
           r == Role(a)
           o == Partner(a)
           m == GateMatrix(a)
           n == GateMatrix(b)
<1>1. b.op = a.op /\ b.qs = a.qs /\ a.op \in Rotations1 /\ a.op \in OneQubit
  BY DEF Mergeable, Rotations1, OneQubit
<1>2. Angles(a.op) = 1
  BY <1>1 DEF Angles, Rotations1
<1>3. a.th \in [1..1 -> Int] /\ b.th \in [1..1 -> Int] /\ 1 \in 1..1
  BY <1>1, <1>2 DEF Plain
<1>4. s \in [1..1 -> Int] /\ s[1] = a.th[1] + b.th[1]
  BY <1>3
<1>5. "th" \in DOMAIN a /\ "op" \in DOMAIN a /\ "qs" \in DOMAIN a
  BY DEF Plain
<1>6. c.op = a.op /\ c.qs = a.qs /\ c.th = s /\ DOMAIN c = DOMAIN a
  <2> HIDE DEF s
  <2>1. c = [a EXCEPT !.th = s]
    BY DEF s
  <2>2. QED
    BY <1>5, <2>1
<1> HIDE DEF c, s
<1>7. Plain(c)
  <2>1. c.op \in {"Rx", "Ry", "Rz"} => c.th[1] % 2 = 0
    <3>1. ASSUME c.op \in {"Rx", "Ry", "Rz"} PROVE c.th[1] % 2 = 0
      <4>1. a.th[1] % 2 = 0 /\ b.th[1] % 2 = 0 /\ a.th[1] \in Int /\ b.th[1] \in Int
        BY <1>1, <1>3, <1>6, <3>1 DEF Plain
      <4>2. (a.th[1] + b.th[1]) % 2 = 0
        BY <4>1
      <4>3. QED
        BY <1>4, <1>6, <4>2
    <3>2. QED
      BY <3>1
  <2>2. c.th \in [1..Angles(c.op) -> Int]
    BY <1>2, <1>4, <1>6
  <2>3. QED
    BY <1>5, <1>6, <2>1, <2>2 DEF Plain
<1>8. Role(b) = r /\ Partner(b) = o /\ Role(c) = r /\ Partner(c) = o
  BY <1>1, <1>6 DEF Role, Partner
<1>9. MatTimes(n, m) = GateMatrix(c)
  BY <1>4, <1>6, MergedMatrix
<1>10. ApplyGate(v, a) \in Vectors
  BY GateType
<1>11. /\ ApplyGate(v, a) = Kernel(v, r, o, m) /\ ApplyGate(v, c) = Kernel(v, Role(c), Partner(c), GateMatrix(c))
       /\ ApplyGate(ApplyGate(v, a), b) = Kernel(ApplyGate(v, a), Role(b), Partner(b), n)
  BY <1>7, <1>10, GateKernel
<1>12. Pairing(r, o) /\ IsMatrix(m) /\ IsMatrix(n)
  BY GatePairing, MatrixType
<1> HIDE DEF r, o, m, n
<1>13. ApplyGate(v, c) = ApplyGate(ApplyGate(v, a), b)
  BY <1>8, <1>9, <1>11, <1>12, KernelTwice
<1>14. ASSUME a.th[1] + b.th[1] = 0 PROVE ApplyGate(v, c) = v
  <2>1. c.op \in Rotations1 /\ c.th[1] = 0
    BY <1>1, <1>4, <1>6, <1>14
  <2>2. GateMatrix(c) = Unit
    BY <2>1, NoRotation
  <2>3. QED
    BY <1>8, <1>11, <1>12, <2>2, KernelUnit
<1>15. QED
  BY <1>7, <1>13, <1>14 DEF c

LEMMA DroppedIsNothing ==
  ASSUME NEW g, Plain(g), ~Kept(g), NEW v \in Vectors
  PROVE  ApplyGate(v, g) = v
<1>1. CASE g.op = "Id"
  BY <1>1 DEF ApplyGate, OneQubit, Controlled
<1>2. CASE g.op \in Rotations1 /\ g.th[1] = 0
  <2>1. GateMatrix(g) = Unit
    BY <1>2, NoRotation
  <2>2. QED
    BY <2>1, GateKernel, GatePairing, KernelUnit
<1>3. QED
  BY <1>1, <1>2 DEF Kept

LEMMA Joint ==
  ASSUME NEW U, NEW s \in Seq(U), NEW t \in Seq(U)
  PROVE  /\ s \o t \in Seq(U) /\ Len(s \o t) = Len(s) + Len(t)
         /\ \A k \in 1..(Len(s) + Len(t)) : (s \o t)[k] = IF k <= Len(s) THEN s[k] ELSE t[k - Len(s)]
OBVIOUS

-----------------------------------------------------------------------------
(* What a circuit computes.                                                *)

AllPlain(c) == IsCircuit(c) /\ \A n \in 1..Len(c) : Plain(c[n])

\* f[n] is the vector after n gates.
Course(ops, v, f) ==
    /\ f \in [0..Len(ops) -> Vectors] /\ f[0] = v
    /\ \A n \in 1..Len(ops) : f[n] = ApplyGate(f[n - 1], ops[n])

LEMMA TraceOf ==
  ASSUME NEW ops, AllPlain(ops), NEW v \in Vectors
  PROVE  \E f : Course(ops, v, f) /\ Run(ops, v) = f[Len(ops)]
<1> DEFINE L == Len(ops)
           step == [p \in (1..L) \X Vectors |-> ApplyGate(p[2], ops[p[1]])]
<1>1. L \in Nat
  BY DEF AllPlain, IsCircuit
<1>2. \A n \in 1..L, u \in Vectors : ApplyGate(u, ops[n]) \in Vectors
  BY GateType DEF AllPlain
<1>3. \A n \in 1..L, u \in Vectors : step[<<n, u>>] = ApplyGate(u, ops[n])
  OBVIOUS
<1>4. Stepper(step, L, Vectors)
  BY <1>2 DEF Stepper
<1> HIDE DEF step
<1>5. PICK f : Solves(f, L, Vectors, v, step)
  BY <1>1, <1>4, Recursion
<1>6. f \in [0..L -> Vectors] /\ f[0] = v /\ \A m \in 1..L : f[m] = ApplyGate(f[m - 1], ops[m])
  BY <1>3, <1>5 DEF Solves
<1>7. f = [n \in 0..L |-> IF n = 0 THEN v ELSE ApplyGate(f[n - 1], ops[n])]
  <2>1. \A n \in 0..L : f[n] = IF n = 0 THEN v ELSE ApplyGate(f[n - 1], ops[n])
    BY <1>1, <1>6
  <2>2. QED
    BY <1>6, <2>1
<1> DEFINE After[n \in 0..Len(ops)] == IF n = 0 THEN v ELSE ApplyGate(After[n - 1], ops[n])
<1>8. After = [n \in 0..Len(ops) |-> IF n = 0 THEN v ELSE ApplyGate(After[n - 1], ops[n])]
  BY <1>7
<1>9. Run(ops, v) = After[L]
  BY DEF Run
<1> HIDE DEF After
<1>10. After[0] = v /\ \A n \in 1..L : After[n] = ApplyGate(After[n - 1], ops[n])
  BY <1>1, <1>8
<1>11. \A n \in 0..L : After[n] \in Vectors
  <2> DEFINE P == {n \in 0..L : After[n] \in Vectors}
  <2>1. 0 \in P
    BY <1>1, <1>10
  <2>2. \A m \in 1..L : m - 1 \in P => m \in P
    BY <1>1, <1>2, <1>10
  <2> HIDE DEF P, L
  <2>3. \A m \in 0..L : m \in P
    BY <1>1, <2>1, <2>2, UpToInduction
  <2>4. QED
    BY <2>3 DEF P
<1>12. After \in [0..L -> Vectors]
  BY <1>8, <1>11
<1>13. QED
  BY <1>9, <1>10, <1>12 DEF Course

LEMMA RunIs ==
  ASSUME NEW ops, AllPlain(ops), NEW v \in Vectors, NEW f, Course(ops, v, f)
  PROVE  Run(ops, v) = f[Len(ops)]
<1> DEFINE L == Len(ops)
<1>1. L \in Nat
  BY DEF AllPlain, IsCircuit
<1>2. PICK g : Course(ops, v, g) /\ Run(ops, v) = g[L]
  BY TraceOf
<1> DEFINE P == {n \in 0..L : f[n] = g[n]}
<1>3. 0 \in P
  BY <1>1, <1>2 DEF Course
<1>4. \A m \in 1..L : m - 1 \in P => m \in P
  BY <1>1, <1>2 DEF Course
<1>5. L \in P
  <2> HIDE DEF P, L
  <2>1. QED
    BY <1>1, <1>3, <1>4, UpToInduction
<1>6. QED
  BY <1>2, <1>5

LEMMA RunEmpty ==
  ASSUME NEW v \in Vectors
  PROVE  Run(<<>>, v) = v /\ AllPlain(<<>>)
<1>1. AllPlain(<<>>)
  <2>1. <<>> \in Seq({}) /\ Len(<<>>) = 0
    OBVIOUS
  <2>2. IsCircuit(<<>>)
    BY <2>1, OwnRange
  <2>3. QED
    BY <2>1, <2>2 DEF AllPlain
<1>2. PICK f : Course(<<>>, v, f) /\ Run(<<>>, v) = f[0]
  BY <1>1, TraceOf
<1>3. QED
  BY <1>1, <1>2 DEF Course

LEMMA RunAppend ==
  ASSUME NEW s, AllPlain(s), NEW g, Plain(g), NEW v \in Vectors
  PROVE  AllPlain(Append(s, g)) /\ Run(Append(s, g), v) = ApplyGate(Run(s, v), g)
<1> DEFINE L == Len(s)
           t == Append(s, g)
<1>1. s \in Seq(Range(s) \cup {g}) /\ L \in Nat
  BY DEF AllPlain, IsCircuit
<1>2. /\ t \in Seq(Range(s) \cup {g}) /\ Len(t) = L + 1 /\ t[L + 1] = g
      /\ \A n \in 1..L : t[n] = s[n]
  BY <1>1
<1> HIDE DEF t, L
<1>3. AllPlain(t)
  <2>1. \A n \in 1..(L + 1) : n = L + 1 \/ n \in 1..L
    BY <1>1
  <2>2. \A n \in 1..(L + 1) : Plain(t[n])
    BY <1>2, <2>1 DEF AllPlain, L
  <2>3. QED
    BY <1>2, <2>2, OwnRange DEF AllPlain
<1>4. PICK f : Course(t, v, f) /\ Run(t, v) = f[L + 1]
  BY <1>2, <1>3, TraceOf
<1> DEFINE h == [n \in 0..L |-> f[n]]
<1>5. Course(s, v, h)
  <2>1. h \in [0..L -> Vectors] /\ h[0] = v
    BY <1>1, <1>2, <1>4 DEF Course
  <2>2. \A n \in 1..L : h[n] = ApplyGate(h[n - 1], s[n])
    BY <1>1, <1>2, <1>4 DEF Course
  <2>3. QED
    BY <2>1, <2>2 DEF Course, L
<1>6. Run(s, v) = f[L]
  <2>1. Run(s, v) = h[L]
    BY <1>5, RunIs DEF L
  <2>2. QED
    BY <1>1, <2>1
<1>7. f[L + 1] = ApplyGate(f[L], t[L + 1])
  <2>1. L + 1 \in 1..Len(t) /\ (L + 1) - 1 = L
    BY <1>1, <1>2
  <2>2. QED
    BY <1>4, <2>1 DEF Course
<1>8. QED
  BY <1>2, <1>3, <1>4, <1>6, <1>7 DEF t

-----------------------------------------------------------------------------
(* One step of the optimizer on a circuit.                                 *)

SameRun(c, d) == AllPlain(d) /\ \A v \in Vectors : Run(d, v) = Run(c, v)

LEMMA WithoutIs ==
  ASSUME NEW c, IsCircuit(c), NEW n \in 1..(Len(c) - 1)
  PROVE  /\ Without(c, n) \in Seq(Range(c)) /\ Len(Without(c, n)) = Len(c) - 2
         /\ \A k \in 1..(Len(c) - 2) : Without(c, n)[k] = IF k < n THEN c[k] ELSE c[k + 2]
<1> DEFINE L == Len(c)
           U == Range(c)
           d == Without(c, n)
           front == SubSeq(c, 1, n - 1)
           back == SubSeq(c, n + 2, Len(c))
<1>1. c \in Seq(U) /\ L \in Nat /\ n \in Nat /\ n + 1 <= L /\ n >= 1
  BY DEF IsCircuit
<1> HIDE DEF U
<1>2. /\ front \in Seq(U) /\ Len(front) = n - 1
      /\ \A k \in 1..(n - 1) : front[k] = c[k]
  BY <1>1
<1>3. /\ back \in Seq(U) /\ Len(back) = L - (n + 1)
      /\ \A k \in 1..(L - (n + 1)) : back[k] = c[k + n + 1]
  BY <1>1
<1>4. d = front \o back
  BY DEF Without
<1> HIDE DEF front, back, L, d
<1>5. /\ d \in Seq(U) /\ Len(d) = L - 2
      /\ \A k \in 1..(L - 2) : d[k] = IF k < n THEN c[k] ELSE c[k + 2]
  <2>1. /\ d \in Seq(U) /\ Len(d) = L - 2
        /\ \A k \in 1..(L - 2) : d[k] = IF k <= n - 1 THEN front[k] ELSE back[k - (n - 1)]
    <3>1. Len(front) + Len(back) = L - 2
      BY <1>1, <1>2, <1>3
    <3>2. front \in Seq(U) /\ back \in Seq(U) /\ Len(front) = n - 1
      BY <1>2, <1>3, <1>4
    <3>3. /\ front \o back \in Seq(U) /\ Len(front \o back) = Len(front) + Len(back)
          /\ \A k \in 1..(Len(front) + Len(back)) :
               (front \o back)[k] = IF k <= Len(front) THEN front[k] ELSE back[k - Len(front)]
      BY <3>2, Joint
    <3>4. QED
      BY <1>4, <3>1, <3>2, <3>3
  <2>2. ASSUME NEW k \in 1..(L - 2) PROVE d[k] = IF k < n THEN c[k] ELSE c[k + 2]
    <3>1. CASE k < n
      BY <1>1, <1>2, <2>1, <3>1
    <3>2. CASE k >= n
      <4>1. k - (n - 1) \in 1..(L - (n + 1)) /\ (k - (n - 1)) + n + 1 = k + 2
        BY <1>1, <3>2
      <4>2. QED
        BY <1>1, <1>3, <2>1, <3>2, <4>1
    <3>3. QED
      BY <1>1, <3>1, <3>2
  <2>3. QED
    BY <2>1, <2>2
<1>6. QED
  BY <1>5 DEF d, L, U

\* Two gates that undo each other are taken out.
LEMMA RunWithout ==
  ASSUME NEW c, AllPlain(c), NEW n \in 1..(Len(c) - 1),
         \A u \in Vectors : ApplyGate(ApplyGate(u, c[n]), c[n + 1]) = u
  PROVE  SameRun(c, Without(c, n))
<1> DEFINE L == Len(c)
           U == Range(c)
           d == Without(c, n)
<1>1. c \in Seq(U) /\ L \in Nat /\ n \in Nat /\ n + 1 <= L /\ n >= 1
  BY DEF AllPlain, IsCircuit
<1>2. /\ d \in Seq(U) /\ Len(d) = L - 2
      /\ \A k \in 1..(L - 2) : d[k] = IF k < n THEN c[k] ELSE c[k + 2]
  BY WithoutIs DEF AllPlain
<1> HIDE DEF U, L, d
<1>3. AllPlain(d)
  <2>1. \A k \in 1..(L - 2) : Plain(d[k])
    <3>1. \A k \in 1..(L - 2) : k \in 1..L /\ k + 2 \in 1..L
      BY <1>1
    <3>2. QED
      BY <1>2, <3>1 DEF AllPlain, L
  <2>2. QED
    BY <1>2, <2>1, OwnRange DEF AllPlain
<1>4. ASSUME NEW v \in Vectors PROVE Run(d, v) = Run(c, v)
  <2>1. PICK f : Course(c, v, f) /\ Run(c, v) = f[L]
    BY TraceOf DEF L
  <2>2. /\ f \in [0..L -> Vectors] /\ f[0] = v
        /\ \A k \in 1..L : f[k] = ApplyGate(f[k - 1], c[k])
    BY <2>1 DEF Course, L
  <2>3. f[n + 1] = f[n - 1]
    <3>1. n \in 1..L /\ n + 1 \in 1..L /\ (n + 1) - 1 = n /\ n - 1 \in 0..L
      BY <1>1
    <3>2. f[n] = ApplyGate(f[n - 1], c[n]) /\ f[n + 1] = ApplyGate(f[n], c[n + 1]) /\ f[n - 1] \in Vectors
      BY <2>2, <3>1
    <3>3. QED
      BY <3>2
  <2> DEFINE h == [k \in 0..(L - 2) |-> IF k < n THEN f[k] ELSE f[k + 2]]
  <2>4. h \in [0..(L - 2) -> Vectors] /\ h[0] = v
    BY <1>1, <2>2
  <2>5. ASSUME NEW k \in 1..(L - 2) PROVE h[k] = ApplyGate(h[k - 1], d[k])
    <3>1. CASE k < n
      <4>1. h[k] = f[k] /\ h[k - 1] = f[k - 1] /\ d[k] = c[k] /\ k \in 1..L
        BY <1>1, <1>2, <3>1
      <4>2. QED
        BY <2>2, <4>1
    <3>2. CASE k = n
      <4>1. h[k] = f[n + 2] /\ h[k - 1] = f[n - 1] /\ d[k] = c[n + 2]
        BY <1>1, <1>2, <3>2
      <4>2. n + 2 \in 1..L /\ (n + 2) - 1 = n + 1
        BY <1>1, <3>2
      <4>3. f[n + 2] = ApplyGate(f[n + 1], c[n + 2])
        BY <2>2, <4>2
      <4>4. QED
        BY <2>3, <4>1, <4>3
    <3>3. CASE k > n
      <4>1. h[k] = f[k + 2] /\ h[k - 1] = f[k + 1] /\ d[k] = c[k + 2]
        <5>1. k \in 0..(L - 2) /\ k - 1 \in 0..(L - 2) /\ ~(k < n) /\ ~(k - 1 < n) /\ k - 1 + 2 = k + 1
          BY <1>1, <3>3
        <5>2. h[k] = f[k + 2] /\ h[k - 1] = f[k - 1 + 2]
          BY <5>1
        <5> HIDE DEF h
        <5>3. d[k] = c[k + 2]
          BY <1>2, <5>1
        <5>4. QED
          BY <5>1, <5>2, <5>3
      <4>2. k + 2 \in 1..L /\ (k + 2) - 1 = k + 1
        BY <1>1
      <4>3. f[k + 2] = ApplyGate(f[k + 1], c[k + 2])
        BY <2>2, <4>2
      <4>4. QED
        BY <4>1, <4>3
    <3>4. QED
      BY <1>1, <3>1, <3>2, <3>3
  <2>6. h[L - 2] = f[L]
    <3>1. CASE L - 2 < n
      <4>1. L - 2 = n - 1 /\ L = n + 1 /\ L - 2 \in 0..(L - 2)
        BY <1>1, <3>1
      <4>2. h[L - 2] = f[n - 1]
        BY <3>1, <4>1
      <4>3. QED
        BY <2>3, <4>1, <4>2
    <3>2. CASE L - 2 >= n
      BY <1>1, <3>2
    <3>3. QED
      BY <1>1, <3>1, <3>2
  <2> HIDE DEF h
  <2>7. Course(d, v, h)
    BY <1>2, <2>4, <2>5 DEF Course
  <2>8. QED
    BY <1>2, <1>3, <2>1, <2>6, <2>7, RunIs
<1>5. QED
  BY <1>3, <1>4 DEF SameRun, d

\* d is c with x in the place of the gates n and n + 1.
IsJoined(d, c, n, x) ==
    /\ Len(d) = Len(c) - 1
    /\ \A k \in 1..(Len(c) - 1) : d[k] = IF k < n THEN c[k] ELSE IF k = n THEN x ELSE c[k + 1]

LEMMA JoinedIs ==
  ASSUME NEW c, IsCircuit(c), NEW n \in 1..(Len(c) - 1), NEW x
  PROVE  LET joined == SubSeq(c, 1, n - 1) \o <<x>> \o SubSeq(c, n + 2, Len(c))
         IN  joined \in Seq(Range(c) \cup {x}) /\ IsJoined(joined, c, n, x)
<1> DEFINE L == Len(c)
           U == Range(c) \cup {x}
           front == SubSeq(c, 1, n - 1)
           back == SubSeq(c, n + 2, Len(c))
           e == front \o <<x>>
           d == e \o back
<1>1. c \in Seq(U) /\ L \in Nat /\ n \in Nat /\ n + 1 <= L /\ n >= 1 /\ x \in U
  BY DEF IsCircuit
<1> HIDE DEF U
<1>2. /\ front \in Seq(U) /\ Len(front) = n - 1
      /\ \A k \in 1..(n - 1) : front[k] = c[k]
  BY <1>1
<1>3. /\ back \in Seq(U) /\ Len(back) = L - (n + 1)
      /\ \A k \in 1..(L - (n + 1)) : back[k] = c[k + n + 1]
  BY <1>1
<1> HIDE DEF front, back
<1>4. /\ e \in Seq(U) /\ Len(e) = n /\ e[n] = x
      /\ \A k \in 1..(n - 1) : e[k] = c[k]
  BY <1>1, <1>2
<1> HIDE DEF e, L
<1>5. /\ d \in Seq(U) /\ Len(d) = L - 1
      /\ \A k \in 1..(L - 1) : d[k] = IF k < n THEN c[k] ELSE IF k = n THEN x ELSE c[k + 1]
  <2>1. /\ d \in Seq(U) /\ Len(d) = L - 1
        /\ \A k \in 1..(L - 1) : d[k] = IF k <= n THEN e[k] ELSE back[k - n]
    <3>1. Len(e) + Len(back) = L - 1
      BY <1>1, <1>3, <1>4
    <3>2. e \in Seq(U) /\ back \in Seq(U) /\ Len(e) = n
      BY <1>3, <1>4
    <3>3. /\ e \o back \in Seq(U) /\ Len(e \o back) = Len(e) + Len(back)
          /\ \A k \in 1..(Len(e) + Len(back)) :
               (e \o back)[k] = IF k <= Len(e) THEN e[k] ELSE back[k - Len(e)]
      BY <3>2, Joint
    <3>4. QED
      BY <3>1, <3>2, <3>3
  <2> HIDE DEF d
  <2>2. ASSUME NEW k \in 1..(L - 1) PROVE d[k] = IF k < n THEN c[k] ELSE IF k = n THEN x ELSE c[k + 1]
    <3>1. CASE k < n
      <4>1. k \in 1..(n - 1) /\ k <= n
        BY <1>1, <3>1
      <4>2. d[k] = e[k] /\ e[k] = c[k]
        BY <1>4, <2>1, <4>1
      <4>3. QED
        BY <3>1, <4>2
    <3>2. CASE k = n
      <4>1. d[k] = e[k]
        BY <1>1, <2>1, <3>2
      <4>2. ~(k < n)
        BY <1>1, <3>2
      <4>3. QED
        BY <1>4, <3>2, <4>1, <4>2
    <3>3. CASE k > n
      <4>1. k - n \in 1..(L - (n + 1)) /\ (k - n) + n + 1 = k + 1
        BY <1>1, <3>3
      <4>2. QED
        BY <1>1, <1>3, <2>1, <3>3, <4>1
    <3>4. QED
      BY <1>1, <3>1, <3>2, <3>3
  <2>3. QED
    BY <2>1, <2>2
<1>6. QED
  BY <1>5 DEF IsJoined, d, e, front, back, L, U

\* Two gates become one.
LEMMA RunJoined ==
  ASSUME NEW c, AllPlain(c), NEW n \in 1..(Len(c) - 1), NEW x, Plain(x),
         \A u \in Vectors : ApplyGate(u, x) = ApplyGate(ApplyGate(u, c[n]), c[n + 1])
  PROVE  SameRun(c, SubSeq(c, 1, n - 1) \o <<x>> \o SubSeq(c, n + 2, Len(c)))
<1> DEFINE L == Len(c)
           U == Range(c) \cup {x}
           d == SubSeq(c, 1, n - 1) \o <<x>> \o SubSeq(c, n + 2, Len(c))
<1>1. c \in Seq(U) /\ L \in Nat /\ n \in Nat /\ n + 1 <= L /\ n >= 1
  BY DEF AllPlain, IsCircuit
<1> HIDE DEF U
<1>2. /\ d \in Seq(U) /\ Len(d) = L - 1
      /\ \A k \in 1..(L - 1) : d[k] = IF k < n THEN c[k] ELSE IF k = n THEN x ELSE c[k + 1]
  <2>1. IsCircuit(c)
    BY DEF AllPlain
  <2>2. d \in Seq(U) /\ IsJoined(d, c, n, x)
    BY <2>1, JoinedIs DEF U
  <2> HIDE DEF d
  <2>3. QED
    BY <2>2 DEF IsJoined
<1> HIDE DEF d, L
<1>3. AllPlain(d)
  <2>1. \A k \in 1..(L - 1) : Plain(d[k])
    <3>1. \A k \in 1..(L - 1) : k \in 1..L /\ k + 1 \in 1..L
      BY <1>1
    <3>2. QED
      BY <1>2, <3>1 DEF AllPlain, L
  <2>2. QED
    BY <1>2, <2>1, OwnRange DEF AllPlain
<1>4. ASSUME NEW v \in Vectors PROVE Run(d, v) = Run(c, v)
  <2>1. PICK f : Course(c, v, f) /\ Run(c, v) = f[L]
    BY TraceOf DEF L
  <2>2. /\ f \in [0..L -> Vectors] /\ f[0] = v
        /\ \A k \in 1..L : f[k] = ApplyGate(f[k - 1], c[k])
    BY <2>1 DEF Course, L
  <2>3. f[n + 1] = ApplyGate(f[n - 1], x)
    <3>1. n \in 1..L /\ n + 1 \in 1..L /\ (n + 1) - 1 = n /\ n - 1 \in 0..L
      BY <1>1
    <3>2. f[n] = ApplyGate(f[n - 1], c[n]) /\ f[n + 1] = ApplyGate(f[n], c[n + 1]) /\ f[n - 1] \in Vectors
      BY <2>2, <3>1
    <3>3. QED
      BY <3>2
  <2> DEFINE h == [k \in 0..(L - 1) |-> IF k < n THEN f[k] ELSE f[k + 1]]
  <2>4. h \in [0..(L - 1) -> Vectors] /\ h[0] = v
    BY <1>1, <2>2
  <2>5. ASSUME NEW k \in 1..(L - 1) PROVE h[k] = ApplyGate(h[k - 1], d[k])
    <3>1. CASE k < n
      <4>1. h[k] = f[k] /\ h[k - 1] = f[k - 1] /\ d[k] = c[k] /\ k \in 1..L
        BY <1>1, <1>2, <3>1
      <4>2. QED
        BY <2>2, <4>1
    <3>2. CASE k = n
      <4>1. h[k] = f[n + 1] /\ h[k - 1] = f[n - 1] /\ d[k] = x
        BY <1>1, <1>2, <3>2
      <4>2. QED
        BY <2>3, <4>1
    <3>3. CASE k > n
      <4>1. h[k] = f[k + 1] /\ h[k - 1] = f[k] /\ d[k] = c[k + 1]
        BY <1>1, <1>2, <3>3
      <4>2. k + 1 \in 1..L /\ (k + 1) - 1 = k
        BY <1>1
      <4>3. f[k + 1] = ApplyGate(f[k], c[k + 1])
        BY <2>2, <4>2
      <4>4. QED
        BY <4>1, <4>3
    <3>4. QED
      BY <1>1, <3>1, <3>2, <3>3
  <2>6. h[L - 1] = f[L]
    BY <1>1
  <2> HIDE DEF h
  <2>7. Course(d, v, h)
    BY <1>2, <2>4, <2>5 DEF Course
  <2>8. QED
    BY <1>2, <1>3, <2>1, <2>6, <2>7, RunIs
<1>5. QED
  BY <1>3, <1>4 DEF SameRun, d

\* Two gates change places.
LEMMA RunSwapped ==
  ASSUME NEW c, AllPlain(c), NEW n \in 1..(Len(c) - 1),
         \A u \in Vectors : ApplyGate(ApplyGate(u, c[n]), c[n + 1]) = ApplyGate(ApplyGate(u, c[n + 1]), c[n])
  PROVE  SameRun(c, [c EXCEPT ![n] = c[n + 1], ![n + 1] = c[n]])
<1> DEFINE L == Len(c)
           U == Range(c)
           d == [c EXCEPT ![n] = c[n + 1], ![n + 1] = c[n]]
<1>1. c \in Seq(U) /\ L \in Nat /\ n \in Nat /\ n + 1 <= L /\ n >= 1
  BY DEF AllPlain, IsCircuit
<1>2. c[n] \in U /\ c[n + 1] \in U
  BY <1>1
<1> HIDE DEF U
<1>3. /\ d \in Seq(U) /\ Len(d) = L
      /\ \A k \in 1..L : d[k] = IF k = n THEN c[n + 1] ELSE IF k = n + 1 THEN c[n] ELSE c[k]
  BY <1>1, <1>2
<1> HIDE DEF d, L
<1>4. AllPlain(d)
  <2>1. n \in 1..L /\ n + 1 \in 1..L
    BY <1>1
  <2>2. \A k \in 1..L : Plain(d[k])
    BY <1>3, <2>1 DEF AllPlain, L
  <2>3. QED
    BY <1>3, <2>2, OwnRange DEF AllPlain
<1>5. ASSUME NEW v \in Vectors PROVE Run(d, v) = Run(c, v)
  <2>1. PICK f : Course(c, v, f) /\ Run(c, v) = f[L]
    BY TraceOf DEF L
  <2>2. /\ f \in [0..L -> Vectors] /\ f[0] = v
        /\ \A k \in 1..L : f[k] = ApplyGate(f[k - 1], c[k])
    BY <2>1 DEF Course, L
  <2> DEFINE w == ApplyGate(f[n - 1], c[n + 1])
             h == [k \in 0..L |-> IF k = n THEN w ELSE f[k]]
  <2>3. n \in 1..L /\ n + 1 \in 1..L /\ (n + 1) - 1 = n /\ n - 1 \in 0..L /\ n # 0 /\ n + 1 # n /\ n - 1 # n
    BY <1>1
  <2>4. f[n + 1] = ApplyGate(w, c[n]) /\ w \in Vectors
    <3>1. f[n] = ApplyGate(f[n - 1], c[n]) /\ f[n + 1] = ApplyGate(f[n], c[n + 1]) /\ f[n - 1] \in Vectors
      BY <2>2, <2>3
    <3>2. Plain(c[n + 1])
      BY <2>3 DEF AllPlain, L
    <3>3. QED
      BY <3>1, <3>2, GateType
  <2> HIDE DEF w
  <2>5. h \in [0..L -> Vectors] /\ h[0] = v
    BY <1>1, <2>2, <2>3, <2>4
  <2>6. ASSUME NEW k \in 1..L PROVE h[k] = ApplyGate(h[k - 1], d[k])
    <3>1. CASE k = n
      <4>1. h[k] = w /\ h[k - 1] = f[n - 1] /\ d[k] = c[n + 1]
        BY <1>3, <2>3, <3>1
      <4>2. QED
        BY <4>1 DEF w
    <3>2. CASE k = n + 1
      <4>1. h[k] = f[n + 1] /\ h[k - 1] = w /\ d[k] = c[n]
        BY <1>1, <1>3, <2>3, <3>2
      <4>2. QED
        BY <2>4, <4>1
    <3>3. CASE k # n /\ k # n + 1
      <4>1. h[k] = f[k] /\ h[k - 1] = f[k - 1] /\ d[k] = c[k]
        BY <1>1, <1>3, <3>3
      <4>2. QED
        BY <2>2, <4>1
    <3>4. QED
      BY <3>1, <3>2, <3>3
  <2>7. h[L] = f[L]
    BY <1>1
  <2> HIDE DEF h
  <2>8. Course(d, v, h)
    BY <1>3, <2>5, <2>6 DEF Course
  <2>9. QED
    BY <1>3, <1>4, <2>1, <2>7, <2>8, RunIs
<1>6. QED
  BY <1>4, <1>5 DEF SameRun, d

\* What retain builds, op by op.
LEMMA RetainedUpto ==
  ASSUME NEW U, NEW c \in Seq(U)
  PROVE  \E f : /\ f \in [0..Len(c) -> Seq(U)] /\ f[0] = <<>> /\ Retained(c) = f[Len(c)]
                /\ \A m \in 1..Len(c) : f[m] = IF Kept(c[m]) THEN Append(f[m - 1], c[m]) ELSE f[m - 1]
<1> DEFINE L == Len(c)
           V == Seq(U)
           Next1(n, t) == IF Kept(c[n]) THEN Append(t, c[n]) ELSE t
           step == [p \in (1..L) \X V |-> Next1(p[1], p[2])]
<1>1. L \in Nat /\ <<>> \in V /\ \A n \in 1..L : c[n] \in U
  OBVIOUS
<1>2. \A n \in 1..L, t \in V : Next1(n, t) \in V
  BY <1>1
<1> HIDE DEF L, V, Next1
<1>3. Stepper(step, L, V)
  BY <1>2 DEF Stepper
<1>4. \A n \in 1..L, t \in V : step[<<n, t>>] = Next1(n, t)
  OBVIOUS
<1> HIDE DEF step
<1>5. PICK f : Solves(f, L, V, <<>>, step)
  BY <1>1, <1>3, Recursion
<1>6. /\ f \in [0..L -> V] /\ f[0] = <<>>
      /\ \A m \in 1..L : f[m] = Next1(m, f[m - 1])
  BY <1>4, <1>5 DEF Solves
<1>7. f = [n \in 0..L |-> IF n = 0 THEN <<>> ELSE Next1(n, f[n - 1])]
  <2>1. \A n \in 0..L : f[n] = IF n = 0 THEN <<>> ELSE Next1(n, f[n - 1])
    BY <1>1, <1>6
  <2>2. QED
    BY <1>6, <2>1
<1> DEFINE Upto[n \in 0..Len(c)] ==
            IF n = 0 THEN <<>>
            ELSE IF Kept(c[n]) THEN Append(Upto[n - 1], c[n]) ELSE Upto[n - 1]
<1>8. Upto = [n \in 0..Len(c) |-> IF n = 0 THEN <<>>
            ELSE IF Kept(c[n]) THEN Append(Upto[n - 1], c[n]) ELSE Upto[n - 1]]
  BY <1>7 DEF L, Next1
<1>9. Retained(c) = Upto[L]
  BY DEF Retained, L
<1> HIDE DEF Upto
<1>10. Upto[0] = <<>> /\ \A m \in 1..L : Upto[m] = Next1(m, Upto[m - 1])
  <2>1. Upto[0] = <<>>
    BY <1>1, <1>8 DEF L
  <2>2. ASSUME NEW m \in 1..L PROVE Upto[m] = Next1(m, Upto[m - 1])
    <3>1. m \in 0..Len(c) /\ m # 0
      BY <1>1 DEF L
    <3>2. QED
      BY <1>8, <3>1 DEF Next1
  <2>3. QED
    BY <2>1, <2>2
<1> DEFINE P == {m \in 0..L : Upto[m] \in V}
<1>11. 0 \in P /\ \A m \in 1..L : m - 1 \in P => m \in P
  BY <1>1, <1>2, <1>10
<1> HIDE DEF P
<1>12. \A m \in 0..L : m \in P
  BY <1>1, <1>11, UpToInduction
<1>13. Upto \in [0..L -> V]
  <2>1. \A m \in 0..L : Upto[m] \in V
    BY <1>12 DEF P
  <2>2. \E F : Upto = [n \in 0..L |-> F[n]]
    <3>1. Upto = [n \in 0..L |-> Upto[n]]
      BY <1>8 DEF L
    <3>2. QED
      BY <3>1
  <2>3. QED
    BY <2>1, <2>2
<1>14. QED
  BY <1>9, <1>10, <1>13 DEF L, V, Next1

\* What retain drops does nothing.
LEMMA RunRetained ==
  ASSUME NEW c, AllPlain(c)
  PROVE  SameRun(c, Retained(c))
<1> DEFINE L == Len(c)
           U == Range(c)
<1>1. L \in Nat /\ c \in Seq(U) /\ \A n \in 1..L : Plain(c[n])
  BY DEF AllPlain, IsCircuit
<1> HIDE DEF U
<1>2. PICK Upto : /\ Upto[0] = <<>> /\ Retained(c) = Upto[L]
                  /\ \A m \in 1..L : Upto[m] = IF Kept(c[m]) THEN Append(Upto[m - 1], c[m]) ELSE Upto[m - 1]
  BY <1>1, RetainedUpto
<1> HIDE DEF L
<1>3. ASSUME NEW v \in Vectors
       PROVE  AllPlain(Upto[L]) /\ Run(Upto[L], v) = Run(c, v)
  <2>1. PICK h : Course(c, v, h) /\ Run(c, v) = h[L]
    BY TraceOf DEF L
  <2>2. h \in [0..L -> Vectors] /\ h[0] = v /\ \A m \in 1..L : h[m] = ApplyGate(h[m - 1], c[m])
    BY <2>1 DEF Course, L
  <2> DEFINE P == {m \in 0..L : AllPlain(Upto[m]) /\ Run(Upto[m], v) = h[m]}
  <2>3. 0 \in P
    BY <1>1, <1>2, <2>2, RunEmpty
  <2>4. ASSUME NEW m \in 1..L, m - 1 \in P PROVE m \in P
    <3> DEFINE t == Upto[m - 1]
    <3>1. AllPlain(t) /\ Run(t, v) = h[m - 1] /\ Plain(c[m])
      BY <1>1, <2>4
    <3>2. Upto[m] = IF Kept(c[m]) THEN Append(t, c[m]) ELSE t
      BY <1>2
    <3>3. h[m] = ApplyGate(h[m - 1], c[m]) /\ h[m - 1] \in Vectors
      BY <1>1, <2>2
    <3> HIDE DEF t
    <3>4. AllPlain(Upto[m]) /\ Run(Upto[m], v) = h[m]
      <4>1. CASE Kept(c[m])
        BY <3>1, <3>2, <3>3, <4>1, RunAppend
      <4>2. CASE ~Kept(c[m])
        BY <3>1, <3>2, <3>3, <4>2, DroppedIsNothing
      <4>3. QED
        BY <4>1, <4>2
    <3>5. QED
      BY <1>1, <3>4
  <2>5. L \in P
    <3> HIDE DEF P
    <3>1. L \in Nat /\ L \in 0..L
      BY <1>1
    <3>2. \A m \in 0..L : m \in P
      BY <3>1, <2>3, <2>4, UpToInduction
    <3>3. QED
      BY <3>1, <3>2
  <2>6. QED
    BY <2>1, <2>5
<1>4. \E v : v \in Vectors
  <2>1. [b \in Basis |-> Zero] \in Vectors
    BY OneIs DEF Vectors
  <2>2. QED
    BY <2>1
<1>5. QED
  BY <1>2, <1>3, <1>4 DEF SameRun

-----------------------------------------------------------------------------
(* The optimizer keeps the operator.                                       *)

\* The circuit is what was submitted, as an operator on every vector.
MeaningInv ==
    pass = "optimize" => i \in Nat \ {0} /\ SameRun(submitted, circuit)

\* What the submitted circuits of the optimizer are made of.
PlainJobs == \A j \in Jobs : j.optimize => \A n \in 1..Len(j.ops) : Plain(j.ops[n])

LEMMA RunChain ==
  ASSUME NEW a, NEW c, NEW d, SameRun(a, c), SameRun(c, d)
  PROVE  SameRun(a, d)
BY DEF SameRun

LEMMA MeaningInit ==
  ASSUME PlainJobs, ExpectationInit
  PROVE  MeaningInv
<1>1. /\ job \in Jobs /\ circuit = job.ops /\ submitted = job.ops /\ i = 1
      /\ pass = IF job.optimize THEN "optimize" ELSE "prepare"
  BY DEF ExpectationInit, Init, PassInit
<1>2. IsCircuit(job.ops)
  BY <1>1, JobsAssumption DEF IsCircuit
<1>3. job.optimize => AllPlain(job.ops)
  BY <1>1, <1>2 DEF AllPlain, PlainJobs
<1>4. QED
  BY <1>1, <1>3 DEF MeaningInv, SameRun

LEMMA MeaningPair ==
  ASSUME MeaningInv, pass = "optimize", Pair
  PROVE  /\ AllPlain(circuit) /\ i \in 1..(Len(circuit) - 1)
         /\ Plain(circuit[i]) /\ Plain(circuit[i + 1])
<1>1. AllPlain(circuit) /\ i \in Nat \ {0} /\ i < Len(circuit)
  BY DEF MeaningInv, SameRun, Pair
<1>2. Len(circuit) \in Nat
  BY <1>1 DEF AllPlain, IsCircuit
<1>3. i \in 1..(Len(circuit) - 1) /\ i \in 1..Len(circuit) /\ i + 1 \in 1..Len(circuit)
  BY <1>1, <1>2
<1>4. QED
  BY <1>1, <1>3 DEF AllPlain

LEMMA MeaningCancel ==
  ASSUME MeaningInv, Cancel
  PROVE  i' \in Nat \ {0} /\ SameRun(circuit, circuit')
<1>1. /\ AllPlain(circuit) /\ i \in 1..(Len(circuit) - 1)
      /\ Plain(circuit[i]) /\ Plain(circuit[i + 1])
  BY MeaningPair DEF Cancel, At
<1>2. CASE is_self_inverse_pair(circuit[i], circuit[i + 1])
  <2>1. circuit' = Without(circuit, i) /\ i' = StepBack(i)
    BY <1>2 DEF Cancel, Scan
  <2>2. \A u \in Vectors : ApplyGate(ApplyGate(u, circuit[i]), circuit[i + 1]) = u
    BY <1>1, <1>2, PairsCancel
  <2>3. SameRun(circuit, Without(circuit, i))
    BY <1>1, <2>2, RunWithout
  <2>4. StepBack(i) \in Nat \ {0}
    BY <1>1 DEF StepBack
  <2>5. QED
    BY <2>1, <2>3, <2>4
<1>3. CASE ~is_self_inverse_pair(circuit[i], circuit[i + 1])
  BY <1>1, <1>3 DEF Cancel, Scan, SameRun
<1>4. QED
  BY <1>2, <1>3

LEMMA MeaningMerge ==
  ASSUME MeaningInv, Merge
  PROVE  i' \in Nat \ {0} /\ SameRun(circuit, circuit')
<1> DEFINE a == circuit[i]
           b == circuit[i + 1]
           x == [a EXCEPT !.th[1] = @ + b.th[1]]
<1>1. /\ AllPlain(circuit) /\ i \in 1..(Len(circuit) - 1) /\ Plain(a) /\ Plain(b)
  BY MeaningPair DEF Merge, At
<1>2. CASE ~Mergeable(a, b)
  BY <1>1, <1>2 DEF Merge, Scan, SameRun
<1>3. ASSUME Mergeable(a, b)
      PROVE  /\ Plain(x)
             /\ \A u \in Vectors : ApplyGate(u, x) = ApplyGate(ApplyGate(u, a), b)
             /\ a.th[1] + b.th[1] = 0 => \A u \in Vectors : ApplyGate(ApplyGate(u, a), b) = u
  <2> HIDE DEF a, b
  <2>1. \E u : u \in Vectors
    <3>1. [q \in Basis |-> Zero] \in Vectors
      BY OneIs DEF Vectors
    <3>2. QED
      BY <3>1
  <2>2. \A u \in Vectors : /\ Plain(x) /\ ApplyGate(u, x) = ApplyGate(ApplyGate(u, a), b)
                           /\ a.th[1] + b.th[1] = 0 => ApplyGate(ApplyGate(u, a), b) = u
    BY <1>1, <1>3, PairsMerge
  <2> HIDE DEF x
  <2>3. QED
    BY <2>1, <2>2
<1>4. CASE Mergeable(a, b) /\ a.th[1] + b.th[1] = 0
  <2>1. circuit' = Without(circuit, i) /\ i' = StepBack(i)
    BY <1>4 DEF Merge, Scan
  <2>2. SameRun(circuit, Without(circuit, i))
    BY <1>1, <1>3, <1>4, RunWithout
  <2>3. StepBack(i) \in Nat \ {0}
    BY <1>1 DEF StepBack
  <2>4. QED
    BY <2>1, <2>2, <2>3
<1>5. CASE Mergeable(a, b) /\ a.th[1] + b.th[1] # 0
  <2>1. circuit' = SubSeq(circuit, 1, i - 1) \o <<x>> \o SubSeq(circuit, i + 2, Len(circuit)) /\ i' = i
    BY <1>5 DEF Merge, Scan
  <2> HIDE DEF x
  <2>2. SameRun(circuit, SubSeq(circuit, 1, i - 1) \o <<x>> \o SubSeq(circuit, i + 2, Len(circuit)))
    BY <1>1, <1>3, <1>5, RunJoined
  <2>3. QED
    BY <1>1, <2>1, <2>2
<1>6. QED
  BY <1>2, <1>4, <1>5

LEMMA MeaningCommute ==
  ASSUME MeaningInv, Commute
  PROVE  i' \in Nat \ {0} /\ SameRun(circuit, circuit')
<1>1. /\ AllPlain(circuit) /\ i \in 1..(Len(circuit) - 1)
      /\ Plain(circuit[i]) /\ Plain(circuit[i + 1])
  BY MeaningPair DEF Commute, At
<1>2. i' = i + 1 /\ i + 1 \in Nat \ {0}
  BY <1>1 DEF Commute, Scan
<1>3. CASE try_commute(circuit[i], circuit[i + 1])
  <2>1. circuit' = [circuit EXCEPT ![i] = circuit[i + 1], ![i + 1] = circuit[i]]
    BY <1>3 DEF Commute
  <2>2. \A u \in Vectors : ApplyGate(ApplyGate(u, circuit[i]), circuit[i + 1])
                             = ApplyGate(ApplyGate(u, circuit[i + 1]), circuit[i])
    BY <1>1, <1>3, MovesCommute
  <2>3. SameRun(circuit, [circuit EXCEPT ![i] = circuit[i + 1], ![i + 1] = circuit[i]])
    BY <1>1, <2>2, RunSwapped
  <2>4. QED
    BY <1>2, <2>1, <2>3
<1>4. CASE ~try_commute(circuit[i], circuit[i + 1])
  BY <1>1, <1>2, <1>4 DEF Commute, SameRun
<1>5. QED
  BY <1>3, <1>4

LEMMA MeaningStep ==
  ASSUME MeaningInv, [ExpectationNext]_allVars
  PROVE  MeaningInv'
<1>1. CASE Pass
  <2>1. CASE Optimizing
    <3>1. pass = "optimize" /\ submitted' = submitted
      BY <2>1 DEF Optimizing, Retain, Cancel, Merge, Commute, NextSweep, ScanEnd, Test, At, Scan, NextStage
    <3>2. AllPlain(circuit) /\ i \in Nat \ {0} /\ SameRun(submitted, circuit)
      BY <3>1 DEF MeaningInv, SameRun
    <3>3. SameRun(circuit, circuit)
      BY <3>2 DEF SameRun
    <3>4. i' \in Nat \ {0} /\ SameRun(circuit, circuit')
      <4>1. CASE Retain
        BY <3>2, <4>1, RunRetained DEF Retain, NextStage
      <4>2. CASE Cancel
        BY <4>2, MeaningCancel
      <4>3. CASE Merge
        BY <4>3, MeaningMerge
      <4>4. CASE Commute
        BY <4>4, MeaningCommute
      <4>5. CASE NextSweep
        BY <3>3, <4>5 DEF NextSweep, Scan
      <4>6. CASE ScanEnd
        BY <3>3, <4>6 DEF ScanEnd, NextStage
      <4>7. CASE Test
        BY <3>2, <3>3, <4>7 DEF Test
      <4>8. QED
        BY <2>1, <4>1, <4>2, <4>3, <4>4, <4>5, <4>6, <4>7 DEF Optimizing
    <3>5. SameRun(submitted, circuit')
      BY <3>2, <3>4, RunChain
    <3>6. QED
      BY <3>1, <3>4, <3>5 DEF MeaningInv
  <2>2. CASE Preparing
    <3>1. pass' # "optimize"
      <4>1. CASE Prepare
        BY <4>1 DEF Prepare
      <4>2. CASE WalkOp
        BY <4>2 DEF WalkOp, Refusal
      <4>3. CASE WalkEnd
        BY <4>3 DEF WalkEnd
      <4>4. QED
        BY <2>2, <4>1, <4>2, <4>3 DEF Preparing
    <3>2. QED
      BY <3>1 DEF MeaningInv
  <2>3. QED
    BY <1>1, <2>1, <2>2 DEF Pass
<1>2. CASE Handover
  BY <1>2 DEF Handover, MeaningInv
<1>3. CASE pass = "handed" /\ UNCHANGED passVars
  BY <1>3 DEF passVars, MeaningInv
<1>4. CASE UNCHANGED allVars
  BY <1>4 DEF allVars, passVars, MeaningInv
<1>5. QED
  BY <1>1, <1>2, <1>3, <1>4 DEF ExpectationNext

LEMMA GenericIsAVector == Generic \in Vectors
<1>1. \A n \in Int : Int2Amp(n) \in Amps
  <2> TAKE n \in Int
  <2>1. Int2Amp(n) \in [k : Nat, c : Quads] /\ Int2Amp(n).k = 0
    BY QuadMake DEF Int2Amp
  <2>2. QED
    BY <2>1 DEF Amps, Reducible
<1>2. ASSUME NEW b \in Basis
      PROVE  Generic[b] \in Amps
  <2> DEFINE m == Cardinality(b)
             n == Cardinality(b \cup {0})
             s == IF b = {} THEN 0 ELSE 5 + 2 * SmallestOf(b)
  <2>1. IsFiniteSet(b) /\ b \in SUBSET Nat
    <3>1. IsFiniteSet(Qubits) /\ Qubits \in SUBSET Nat
      BY WidthAssumption, FS_Interval DEF Qubits
    <3>2. QED
      BY <3>1, FS_Subset DEF Basis
  <2>2. m \in Nat /\ n \in Nat
    BY <2>1, FS_CardinalityType, FS_AddElement
  <2>3. s \in Int
    <3>1. CASE b = {}
      BY <3>1
    <3>2. CASE b # {}
      <4>1. SmallestOf(b) \in Nat
        BY <2>1, <3>2, LeastElement DEF SmallestOf
      <4>2. QED
        BY <3>2, <4>1
    <3>3. QED
      BY <3>1, <3>2
  <2>4. Generic[b] = Plus(Int2Amp(1 + m * n), Times(Ei(m), Int2Amp(s)))
    BY DEF Generic
  <2> HIDE DEF m, n, s
  <2>5. 1 + m * n \in Int
    BY <2>2
  <2>6. Int2Amp(1 + m * n) \in Amps /\ Int2Amp(s) \in Amps /\ Ei(m) \in Amps
    BY <1>1, <2>2, <2>3, <2>5, EiType
  <2>7. Times(Ei(m), Int2Amp(s)) \in Amps
    BY <2>6, RingTypes
  <2>8. QED
    BY <2>4, <2>6, <2>7, RingTypes
<1>3. Generic = [b \in Basis |-> Generic[b]]
  BY DEF Generic
<1>4. QED
  BY <1>2, <1>3 DEF Vectors

\* Every step of the optimizer keeps the operator of the circuit, for circuits
\* of any length on any number of wires, at every angle the exact arithmetic
\* has: on every vector the circuit does what the submitted one does, global
\* phase included (optimize.rs, qml.rs "Correctness-preserving").  The gates
\* have one or two wires: past a gate of three wires the optimizer moves what
\* does not commute with it.
THEOREM OptimizerKeepsOperator ==
  ASSUME PlainJobs
  PROVE  ExpectationSpec =>
           [](pass = "optimize" => \A v \in Vectors : Run(circuit, v) = Run(submitted, v))
<1>1. ExpectationInit => MeaningInv
  BY MeaningInit
<1>2. MeaningInv /\ [ExpectationNext]_allVars => MeaningInv'
  BY MeaningStep
<1>3. MeaningInv => (pass = "optimize" => \A v \in Vectors : Run(circuit, v) = Run(submitted, v))
  BY DEF MeaningInv, SameRun
<1>4. QED
  BY <1>1, <1>2, <1>3, PTL DEF ExpectationSpec

\* In particular on the vector that the run compares them on.
THEOREM OptimizerKeepsMeaning ==
  ASSUME PlainJobs
  PROVE  ExpectationSpec => []KeepsMeaning
<1>1. (pass = "optimize" => \A v \in Vectors : Run(circuit, v) = Run(submitted, v)) => KeepsMeaning
  BY GenericIsAVector DEF KeepsMeaning
<1>2. QED
  BY <1>1, OptimizerKeepsOperator, PTL

-----------------------------------------------------------------------------
(* Numbers that are real or imaginary.                                     *)

\* c is real, or, if b, imaginary.
Kind(b, c) == c \in Amps /\ Conj(c) = IF b THEN Neg(c) ELSE c

LEMMA KindPlus ==
  ASSUME NEW b \in BOOLEAN, NEW c, NEW d, Kind(b, c), Kind(b, d)
  PROVE  Kind(b, Plus(c, d)) /\ Kind(b, Neg(c)) /\ Kind(b, Minus(c, d)) /\ Kind(b, Conj(c))
<1>1. c \in Amps /\ d \in Amps /\ Neg(c) \in Amps /\ Neg(d) \in Amps /\ Conj(c) \in Amps
  BY RingTypes DEF Kind
<1>2. /\ Conj(Neg(c)) = Neg(Conj(c)) /\ Conj(Neg(d)) = Neg(Conj(d))
      /\ Neg(Neg(c)) = c /\ Neg(Neg(d)) = d
  BY <1>1, ConjLaws, PlusLaws
<1>3. Kind(b, Neg(c)) /\ Kind(b, Neg(d))
  BY <1>1, <1>2 DEF Kind
<1>4. Kind(b, Conj(c))
  BY <1>1, <1>3 DEF Kind
<1>5. ASSUME NEW e, Kind(b, e)
      PROVE  Kind(b, Plus(c, e))
  <2>1. e \in Amps
    BY <1>5 DEF Kind
  <2>2. Plus(c, e) \in Amps
    BY <1>1, <2>1, RingTypes
  <2>3. /\ Conj(Plus(c, e)) = Plus(Conj(c), Conj(e))
        /\ Neg(Plus(c, e)) = Plus(Neg(c), Neg(e))
    BY <1>1, <2>1, ConjLaws, PlusLaws
  <2>4. QED
    BY <1>5, <2>2, <2>3 DEF Kind
<1>6. QED
  BY <1>3, <1>4, <1>5 DEF Minus

LEMMA KindTimes ==
  ASSUME NEW a \in BOOLEAN, NEW b \in BOOLEAN, NEW c, NEW d, Kind(a, c), Kind(b, d)
  PROVE  Kind(~(a <=> b), Times(c, d))
<1>1. c \in Amps /\ d \in Amps /\ Neg(c) \in Amps /\ Neg(d) \in Amps
  BY RingTypes DEF Kind
<1>2. Times(c, d) \in Amps
  BY <1>1, RingTypes
<1>3. Conj(Times(c, d)) = Times(Conj(c), Conj(d))
  BY <1>1, ConjLaws
<1>4. Times(Neg(c), d) = Neg(Times(c, d)) /\ Times(c, Neg(d)) = Neg(Times(c, d))
  BY <1>1, TimesLaws
<1>5. Times(Neg(c), Neg(d)) = Times(c, d)
  <2>1. Times(Neg(c), Neg(d)) = Neg(Times(c, Neg(d)))
    BY <1>1, TimesLaws
  <2>2. Neg(Neg(Times(c, d))) = Times(c, d)
    BY <1>2, PlusLaws
  <2>3. QED
    BY <1>4, <2>1, <2>2
<1>6. CASE a
  BY <1>2, <1>3, <1>4, <1>5, <1>6 DEF Kind
<1>7. CASE ~a
  BY <1>2, <1>3, <1>4, <1>5, <1>7 DEF Kind
<1>8. QED
  BY <1>6, <1>7

\* i^n is real for even n, and imaginary for odd n.
LEMMA KindPowers ==
  ASSUME NEW n \in Nat
  PROVE  Kind(n % 2 = 1, Ei(2 * n))
<1> DEFINE m == 2 * n
           c == Eq(m)
<1>1. m \in Int
  OBVIOUS
<1>2. Ei(m) \in Amps /\ c \in Quads /\ Ei(m) = [k |-> 0, c |-> c]
  BY <1>1, EiType DEF Eq, Ei
<1>3. /\ m % 8 \in {0, 2, 4, 6}
      /\ n % 2 = 1 => m % 8 \in {2, 6}
      /\ n % 2 # 1 => m % 8 \in {0, 4}
  OBVIOUS
<1>4. c[2] = 0 /\ c[4] = 0 /\ (n % 2 = 1 => c[1] = 0) /\ (n % 2 # 1 => c[3] = 0)
  BY <1>3 DEF Eq, Ei
<1> HIDE DEF c, m
<1>5. /\ c = <<c[1], c[2], c[3], c[4]>>
      /\ c[1] \in Int /\ c[2] \in Int /\ c[3] \in Int /\ c[4] \in Int
  BY <1>2, QuadParts
<1>6. QConj(c) = IF n % 2 = 1 THEN QNeg(c) ELSE c
  BY <1>4, <1>5 DEF QConj, QNeg
<1>7. Conj(Ei(m)) = [k |-> 0, c |-> QConj(c)] /\ Neg(Ei(m)) = [k |-> 0, c |-> QNeg(c)]
  BY <1>2 DEF Conj, Neg
<1>8. QED
  BY <1>2, <1>6, <1>7 DEF Kind, m

LEMMA KindUnits ==
  /\ Kind(FALSE, One) /\ Kind(FALSE, Zero) /\ Kind(FALSE, Neg(One))
  /\ Kind(TRUE, ImUnit) /\ Kind(TRUE, Neg(ImUnit))
<1>1. Kind(FALSE, One)
  <2>1. 2 * 0 = 0 /\ ~(0 % 2 = 1)
    OBVIOUS
  <2>2. QED
    BY <2>1, KindPowers, ZeroAngle
<1>2. Kind(TRUE, ImUnit)
  <2>1. 2 * 1 = 2 /\ 1 % 2 = 1
    OBVIOUS
  <2>2. QED
    BY <2>1, KindPowers DEF ImUnit
<1>3. Kind(FALSE, Neg(One)) /\ Kind(TRUE, Neg(ImUnit))
  BY <1>1, <1>2, KindPlus
<1>4. Kind(FALSE, Plus(One, Neg(One)))
  BY <1>1, <1>3, KindPlus
<1>5. Plus(One, Neg(One)) = Zero
  <2>1. One \in Amps
    BY <1>1 DEF Kind
  <2>2. QED
    BY <2>1, PlusLaws
<1>6. QED
  BY <1>1, <1>2, <1>3, <1>4, <1>5

LEMMA KindSign ==
  ASSUME NEW z, NEW x
  PROVE  Kind(FALSE, RawSign(z, x))
BY KindUnits DEF RawSign

LEMMA KindFactor ==
  ASSUME NEW x \in Basis, NEW z \in Basis
  PROVE  Kind(Odd(x \cap z), Factor(x, z))
<1>1. IsFiniteSet(x \cap z)
  BY BasisFinite, FS_Intersection
<1>2. Cardinality(x \cap z) \in Nat
  BY <1>1, FS_CardinalityType
<1>3. QED
  BY <1>2, KindPowers DEF Odd, Factor

LEMMA KindAngle ==
  ASSUME NEW m \in Int
  PROVE  Kind(FALSE, Cos(m)) /\ Kind(FALSE, Sin(m))
<1> DEFINE e == Ei(m)
           f == Ei(-m)
           h == Dyadic(1, 1)
<1>1. e \in Amps /\ f \in Amps
  BY EiType
<1>2. Conj(e) = f /\ Conj(f) = e
  <2>1. ASSUME NEW n \in Int PROVE Conj(Ei(n)) = Ei(-n)
    <3>1. Ei(n) = [k |-> 0, c |-> Eq(n)] /\ Ei(-n) = [k |-> 0, c |-> Eq(-n)]
      BY DEF Eq, Ei
    <3>2. QConj(Eq(n)) = Eq(-n)
      BY EiStep
    <3>3. QED
      BY <3>1, <3>2 DEF Conj
  <2>2. -(-m) = m
    OBVIOUS
  <2>3. QED
    BY <2>1, <2>2
<1>3. Kind(FALSE, h)
  <2>1. Is(h, 2, <<1, 0, 0, 0>>)
    BY HalfIs
  <2>2. Is(Conj(h), 2, QConj(<<1, 0, 0, 0>>))
    BY <2>1, NegIs
  <2>3. QConj(<<1, 0, 0, 0>>) = <<1, 0, 0, 0>>
    BY EqZero, EiStep
  <2>4. h \in Amps
    BY <2>1 DEF Is
  <2>5. QED
    BY <2>1, <2>2, <2>3, <2>4, IsUnique DEF Kind
<1> HIDE DEF e, f, h
<1>4. Kind(FALSE, Plus(e, f))
  <2>1. Conj(Plus(e, f)) = Plus(f, e) /\ Plus(f, e) = Plus(e, f) /\ Plus(e, f) \in Amps
    BY <1>1, <1>2, ConjLaws, PlusLaws, RingTypes
  <2>2. QED
    BY <2>1 DEF Kind
<1>5. Kind(TRUE, Minus(e, f))
  <2>1. Neg(e) \in Amps /\ Neg(f) \in Amps
    BY <1>1, RingTypes
  <2>2. Minus(e, f) \in Amps /\ Conj(Minus(e, f)) = Plus(Conj(e), Conj(Neg(f))) /\ Conj(Neg(f)) = Neg(Conj(f))
    BY <1>1, <2>1, ConjLaws, RingTypes DEF Minus
  <2>3. Neg(Minus(e, f)) = Plus(Neg(e), Neg(Neg(f))) /\ Neg(Neg(f)) = f
    BY <1>1, <2>1, PlusLaws DEF Minus
  <2>4. Plus(f, Neg(e)) = Plus(Neg(e), f)
    BY <1>1, <2>1, PlusLaws
  <2>5. QED
    BY <1>2, <2>2, <2>3, <2>4 DEF Kind
<1>6. Kind(TRUE, Ei(-2))
  <2>1. Ei(-2) \in Amps /\ Ei(2) \in Amps
    BY EiType
  <2>2. Conj(Ei(2)) = Neg(Ei(2)) /\ Conj(Ei(2)) = Ei(-2)
    <3>1. QConj(Eq(2)) = Eq(-2)
      BY EiStep
    <3>2. Ei(2) = [k |-> 0, c |-> Eq(2)] /\ Ei(-2) = [k |-> 0, c |-> Eq(-2)]
      BY DEF Eq, Ei
    <3>3. QED
      BY <3>1, <3>2, KindUnits DEF Kind, Conj, ImUnit
  <2>3. QED
    BY <2>2, KindUnits DEF ImUnit
<1>7. Kind(FALSE, Cos(m))
  <2>1. Kind(~(FALSE <=> FALSE), Times(Plus(e, f), h))
    BY <1>3, <1>4, KindTimes
  <2>2. QED
    BY <2>1 DEF Cos, e, f, h
<1>8. Kind(FALSE, Sin(m))
  <2>1. Kind(~(TRUE <=> FALSE), Times(Ei(-2), h))
    BY <1>3, <1>6, KindTimes
  <2>2. Kind(TRUE, Times(Ei(-2), h))
    BY <2>1
  <2>3. Kind(~(TRUE <=> TRUE), Times(Minus(e, f), Times(Ei(-2), h)))
    BY <1>5, <2>2, KindTimes
  <2>4. QED
    BY <2>3 DEF Sin, e, f, h
<1>9. QED
  BY <1>7, <1>8

\* What the invariant of the run says of one term.
LEMMA KindReal ==
  ASSUME NEW x \in Basis, NEW z \in Basis, NEW c, Kind(Odd(x \cap z), c)
  PROVE  IsReal(Times(c, Conj(Factor(x, z))))
<1> DEFINE b == Odd(x \cap z)
<1>1. b \in BOOLEAN
  BY DEF Odd
<1>2. Kind(b, Conj(Factor(x, z)))
  BY <1>1, KindFactor, KindPlus
<1> HIDE DEF b
<1>3. Kind(~(b <=> b), Times(c, Conj(Factor(x, z))))
  BY <1>1, <1>2, KindTimes DEF b
<1>4. QED
  BY <1>3 DEF Kind, IsReal

-----------------------------------------------------------------------------
(* Hermitian sums.                                                         *)

Keys == Basis \X Basis
Weights == [c : Amps, freq : Int]

\* The coefficient of a string with an odd number of Y is imaginary, the others
\* are real.
RightKind(key, c) == Kind(Odd(key[1] \cap key[2]), c)

Hermitian ==
    {s \in UNION {[D -> Weights] : D \in SUBSET Keys} :
        \A key \in DOMAIN s : RightKind(key, s[key].c)}

LEMMA HermitianParts ==
  ASSUME NEW s \in Hermitian
  PROVE  /\ DOMAIN s \subseteq Keys /\ IsFiniteSet(DOMAIN s)
         /\ \A key \in DOMAIN s : s[key] \in Weights /\ RightKind(key, s[key].c)
<1>1. PICK D \in SUBSET Keys : s \in [D -> Weights]
  BY DEF Hermitian
<1>2. IsFiniteSet(Keys)
  <2>1. IsFiniteSet(Basis)
    <3>1. IsFiniteSet(Qubits)
      BY WidthAssumption, FS_Interval DEF Qubits
    <3>2. QED
      BY <3>1, FS_SUBSET, Zenon DEF Basis
  <2>2. QED
    BY <2>1, FS_Product DEF Keys
<1>3. IsFiniteSet(DOMAIN s)
  BY <1>1, <1>2, FS_Subset
<1>4. QED
  BY <1>1, <1>3 DEF Hermitian

LEMMA HermitianMake ==
  ASSUME NEW D \in SUBSET Keys, NEW s \in [D -> Weights],
         \A key \in D : RightKind(key, s[key].c)
  PROVE  s \in Hermitian
BY DEF Hermitian

LEMMA HermitianEmpty == EmptySum \in Hermitian
<1>1. EmptySum \in [{} -> Weights]
  BY DEF EmptySum
<1>2. QED
  BY <1>1, HermitianMake

LEMMA HermitianAdd ==
  ASSUME NEW s \in Hermitian, NEW key \in Keys, NEW c, RightKind(key, c), NEW freq \in Int
  PROVE  add_weighted(s, key, c, freq) \in Hermitian
<1> DEFINE D == DOMAIN s
           w == [c |-> Plus(s[key].c, c), freq |-> IF freq < s[key].freq THEN freq ELSE s[key].freq]
<1>1. /\ D \subseteq Keys /\ s \in [D -> Weights]
      /\ \A k \in D : s[k] \in Weights /\ RightKind(k, s[k].c)
  BY HermitianParts DEF Hermitian
<1>2. c \in Amps
  BY DEF RightKind, Kind
<1> HIDE DEF D
<1>3. CASE key \in D
  <2>1. add_weighted(s, key, c, freq) = [s EXCEPT ![key] = w]
    BY <1>3 DEF add_weighted, D
  <2>2. s[key] \in Weights /\ RightKind(key, s[key].c)
    BY <1>1, <1>3
  <2>3. Odd(key[1] \cap key[2]) \in BOOLEAN
    BY DEF Odd
  <2>4. RightKind(key, Plus(s[key].c, c))
    BY <2>2, <2>3, KindPlus DEF RightKind
  <2>5. w \in Weights /\ RightKind(key, w.c)
    <3>1. Plus(s[key].c, c) \in Amps
      BY <2>4 DEF RightKind, Kind
    <3>2. QED
      BY <2>2, <2>4, <3>1 DEF Weights
  <2> HIDE DEF w
  <2>6. [s EXCEPT ![key] = w] \in [D -> Weights]
    BY <1>1, <2>5
  <2>7. \A k \in D : RightKind(k, [s EXCEPT ![key] = w][k].c)
    <3> TAKE k \in D
    <3>1. [s EXCEPT ![key] = w][k] = IF k = key THEN w ELSE s[k]
      BY <1>1
    <3>2. QED
      BY <1>1, <2>5, <3>1
  <2>8. QED
    BY <1>1, <2>1, <2>6, <2>7, HermitianMake
<1>4. CASE key \notin D
  <2> DEFINE v == [c |-> c, freq |-> freq]
             t == [k \in D \cup {key} |-> IF k = key THEN v ELSE s[k]]
  <2>1. add_weighted(s, key, c, freq) = t
    BY <1>4 DEF add_weighted, D
  <2>2. v \in Weights /\ v.c = c
    BY <1>2 DEF Weights
  <2> HIDE DEF v
  <2>3. t \in [D \cup {key} -> Weights]
    BY <1>1, <2>2
  <2>4. \A k \in D \cup {key} : RightKind(k, t[k].c)
    BY <1>1, <2>2
  <2>5. D \cup {key} \in SUBSET Keys
    BY <1>1
  <2> HIDE DEF t
  <2>6. QED
    BY <2>1, <2>3, <2>4, <2>5, HermitianMake
<1>5. QED
  BY <1>3, <1>4

\* Keeping a part of the terms.
LEMMA HermitianPart ==
  ASSUME NEW s \in Hermitian, NEW D \in SUBSET DOMAIN s
  PROVE  [k \in D |-> s[k]] \in Hermitian
<1> DEFINE t == [k \in D |-> s[k]]
<1>1. D \in SUBSET Keys /\ t \in [D -> Weights] /\ \A k \in D : RightKind(k, t[k].c)
  BY HermitianParts
<1> HIDE DEF t
<1>2. t \in Hermitian
  BY <1>1, HermitianMake
<1>3. QED
  BY <1>2 DEF t

\* A real factor for each term.
LEMMA HermitianScaled ==
  ASSUME NEW s \in Hermitian, NEW g, \A k \in DOMAIN s : Kind(FALSE, g[k])
  PROVE  [k \in DOMAIN s |-> [s[k] EXCEPT !.c = Times(@, g[k])]] \in Hermitian
<1> DEFINE D == DOMAIN s
           t == [k \in D |-> [s[k] EXCEPT !.c = Times(@, g[k])]]
<1>1. D \in SUBSET Keys /\ \A k \in D : s[k] \in Weights /\ RightKind(k, s[k].c)
  BY HermitianParts
<1>2. ASSUME NEW k \in D
      PROVE  t[k] \in Weights /\ RightKind(k, t[k].c)
  <2>1. s[k] \in Weights /\ RightKind(k, s[k].c)
    BY <1>1
  <2>2. Odd(k[1] \cap k[2]) \in BOOLEAN
    BY DEF Odd
  <2>3. Kind(~(Odd(k[1] \cap k[2]) <=> FALSE), Times(s[k].c, g[k]))
    BY <2>1, <2>2, KindTimes DEF RightKind
  <2>4. RightKind(k, Times(s[k].c, g[k]))
    BY <2>2, <2>3 DEF RightKind
  <2>5. Times(s[k].c, g[k]) \in Amps
    BY <2>4 DEF RightKind, Kind
  <2>6. t[k] = [c |-> Times(s[k].c, g[k]), freq |-> s[k].freq]
    BY <2>1 DEF Weights
  <2>7. s[k].freq \in Int
    BY <2>1 DEF Weights
  <2> HIDE DEF t
  <2>8. QED
    BY <2>4, <2>5, <2>6, <2>7 DEF Weights
<1>3. t \in [D -> Weights] /\ \A k \in D : RightKind(k, t[k].c)
  BY <1>2
<1> HIDE DEF t, D
<1>4. t \in Hermitian
  BY <1>1, <1>3, HermitianMake
<1>5. QED
  BY <1>4 DEF t, D

\* A fold over the terms that keeps the kind.
LEMMA HermitianFold ==
  ASSUME NEW D, IsFiniteSet(D), NEW step \in [D \X Hermitian -> Hermitian], NEW ch,
         \A t \in SUBSET D : t # {} => ch[t] \in t,
         NEW base \in Hermitian
  PROVE  \E f : f \in [SUBSET D -> Hermitian] /\ FoldsTo(f, base, step, ch, D)
BY FoldExists DEF Folder

-----------------------------------------------------------------------------
(* The noise, backwards.                                                   *)

\* The rates of a noise model are real numbers.
RealNoise(m) ==
    /\ Kind(FALSE, m.third[1]) /\ Kind(FALSE, m.third[2])
    /\ \A p \in DOMAIN m.pairs : Kind(FALSE, m.pairs[p])
    /\ Kind(FALSE, m.px) /\ Kind(FALSE, m.py) /\ Kind(FALSE, m.pz)
    /\ Kind(FALSE, m.gamma) /\ Kind(FALSE, m.root) /\ Kind(FALSE, m.lambda)
    /\ Kind(FALSE, m.p10)

LEMMA RealOps ==
  ASSUME NEW x, NEW y, Kind(FALSE, x), Kind(FALSE, y)
  PROVE  /\ Kind(FALSE, Plus(x, y)) /\ Kind(FALSE, Minus(x, y)) /\ Kind(FALSE, Neg(x))
         /\ Kind(FALSE, Times(x, y))
<1>1. Kind(~(FALSE <=> FALSE), Times(x, y))
  BY KindTimes
<1>2. QED
  BY <1>1, KindPlus

LEMMA RealScale ==
  ASSUME NEW x, Kind(FALSE, x), NEW n \in Nat
  PROVE  Kind(FALSE, Scale(x, n))
<1>1. Conj(Int2Amp(n)) = Int2Amp(n) /\ Int2Amp(n) \in Amps
  <2> DEFINE z == 0
  <2>5. Int2Amp(n) = [k |-> 0, c |-> <<n, z, z, z>>] /\ z \in Int /\ z + z = z
    BY DEF Int2Amp
  <2> HIDE DEF z
  <2>1. /\ Int2Amp(n) = [k |-> 0, c |-> <<n, z, z, z>>] /\ -z = z
        /\ <<n, z, z, z>> \in Quads
    BY <2>5, QuadMake
  <2>2. QConj(<<n, z, z, z>>) = <<n, z, z, z>>
    BY <2>1 DEF QConj
  <2>3. Int2Amp(n) \in [k : Nat, c : Quads] /\ ~Reducible(Int2Amp(n))
    BY <2>1 DEF Reducible
  <2>4. QED
    BY <2>1, <2>2, <2>3 DEF Amps, Conj
<1>2. QED
  BY <1>1, RealOps DEF Scale, Kind

LEMMA OneReal == Kind(FALSE, One)
BY KindUnits

LEMMA DepolarizingHermitian ==
  ASSUME NEW s \in Hermitian, NEW q, NEW third, Kind(FALSE, third)
  PROVE  DepolarizingAdjoint(s, q, third) \in Hermitian
<1> DEFINE u == Minus(One, Scale(third, 4))
           g == [k \in DOMAIN s |-> IF q \in k[1] \/ q \in k[2] THEN u ELSE One]
<1>1. Kind(FALSE, u)
  BY OneReal, RealOps, RealScale
<1>2. DepolarizingAdjoint(s, q, third) = [k \in DOMAIN s |-> [s[k] EXCEPT !.c = Times(@, g[k])]]
  BY DEF DepolarizingAdjoint, ScaleBy
<1> HIDE DEF u
<1>3. \A k \in DOMAIN s : Kind(FALSE, g[k])
  BY <1>1, OneReal
<1> HIDE DEF g
<1>4. [k \in DOMAIN s |-> [s[k] EXCEPT !.c = Times(@, g[k])]] \in Hermitian
  BY <1>3, HermitianScaled
<1>5. QED
  BY <1>2, <1>4

LEMMA PhaseDampingHermitian ==
  ASSUME NEW s \in Hermitian, NEW q, NEW lambda, Kind(FALSE, lambda)
  PROVE  PhaseDampingAdjoint(s, q, lambda) \in Hermitian
<1> DEFINE u == Minus(One, lambda)
           g == [k \in DOMAIN s |-> IF q \in k[1] THEN u ELSE One]
<1>1. Kind(FALSE, u)
  BY OneReal, RealOps
<1>2. PhaseDampingAdjoint(s, q, lambda) = [k \in DOMAIN s |-> [s[k] EXCEPT !.c = Times(@, g[k])]]
  BY DEF PhaseDampingAdjoint, ScaleBy
<1> HIDE DEF u
<1>3. \A k \in DOMAIN s : Kind(FALSE, g[k])
  BY <1>1, OneReal
<1> HIDE DEF g
<1>4. [k \in DOMAIN s |-> [s[k] EXCEPT !.c = Times(@, g[k])]] \in Hermitian
  BY <1>3, HermitianScaled
<1>5. QED
  BY <1>2, <1>4

LEMMA PauliChannelHermitian ==
  ASSUME NEW s \in Hermitian, NEW q, NEW m, RealNoise(m)
  PROVE  PauliChannelAdjoint(s, q, m) \in Hermitian
<1> DEFINE pi == Minus(One, Plus(Plus(m.px, m.py), m.pz))
           y == Plus(Minus(pi, m.px), Minus(m.py, m.pz))
           x == Plus(Plus(pi, m.px), Neg(Plus(m.py, m.pz)))
           z == Plus(Minus(pi, m.px), Minus(m.pz, m.py))
           g == [k \in DOMAIN s |-> IF q \in k[1] /\ q \in k[2] THEN y
                                    ELSE IF q \in k[1] THEN x
                                    ELSE IF q \in k[2] THEN z
                                    ELSE One]
<1>1. PauliChannelAdjoint(s, q, m) = [k \in DOMAIN s |-> [s[k] EXCEPT !.c = Times(@, g[k])]]
  BY DEF PauliChannelAdjoint, ScaleBy
<1>2. Kind(FALSE, m.px) /\ Kind(FALSE, m.py) /\ Kind(FALSE, m.pz)
  BY DEF RealNoise
<1>3. Kind(FALSE, pi)
  <2>1. Kind(FALSE, Plus(m.px, m.py))
    BY <1>2, RealOps
  <2>2. Kind(FALSE, Plus(Plus(m.px, m.py), m.pz))
    BY <1>2, <2>1, RealOps
  <2>3. QED
    BY <2>2, OneReal, RealOps
<1> HIDE DEF pi
<1>4. /\ Kind(FALSE, Minus(pi, m.px)) /\ Kind(FALSE, Plus(pi, m.px)) /\ Kind(FALSE, Minus(m.py, m.pz))
      /\ Kind(FALSE, Minus(m.pz, m.py)) /\ Kind(FALSE, Plus(m.py, m.pz))
  BY <1>2, <1>3, RealOps
<1>5. Kind(FALSE, Neg(Plus(m.py, m.pz)))
  BY <1>4, RealOps
<1>6. Kind(FALSE, y) /\ Kind(FALSE, x) /\ Kind(FALSE, z)
  BY <1>4, <1>5, RealOps
<1> HIDE DEF x, y, z
<1>7. \A k \in DOMAIN s : Kind(FALSE, g[k])
  BY <1>6, OneReal
<1> HIDE DEF g
<1>8. [k \in DOMAIN s |-> [s[k] EXCEPT !.c = Times(@, g[k])]] \in Hermitian
  BY <1>7, HermitianScaled
<1>9. QED
  BY <1>1, <1>8

\* The Z of a string may become an I: neither has anything to do with Y.
LEMMA DampingHermitian ==
  ASSUME NEW s \in Hermitian, NEW q, NEW gamma, NEW root, Kind(FALSE, gamma), Kind(FALSE, root)
  PROVE  AmplitudeDampingAdjoint(s, q, gamma, root) \in Hermitian
<1> DEFINE D == DOMAIN s
           u == Minus(One, gamma)
           Into(key, acc) ==
             LET w == s[key] IN
             IF q \in key[1] THEN add_weighted(acc, key, Times(w.c, root), w.freq)
             ELSE IF q \notin key[2] THEN add_weighted(acc, key, w.c, w.freq)
             ELSE add_weighted(add_weighted(acc, key, Times(w.c, u), w.freq),
                               <<key[1], key[2] \ {q}>>, Times(w.c, gamma), w.freq)
           iter[t \in SUBSET D] ==
             IF t = {} THEN EmptySum
             ELSE Into(CHOOSE x \in t : TRUE, iter[t \ {CHOOSE x \in t : TRUE}])
<1>1. AmplitudeDampingAdjoint(s, q, gamma, root) = IF gamma = Zero THEN s ELSE iter[D]
  BY DEF AmplitudeDampingAdjoint, OverSet, MapThenFoldSet
<1>2. ASSUME NEW key \in D, NEW acc \in Hermitian
      PROVE  Into(key, acc) \in Hermitian
  <2> DEFINE w == s[key]
  <2>1. key \in Keys /\ w \in Weights /\ RightKind(key, w.c)
    BY HermitianParts
  <2>2. key[1] \in Basis /\ key[2] \in Basis /\ w.freq \in Int
    BY <2>1 DEF Keys, Weights
  <2>3. ASSUME NEW r, Kind(FALSE, r) PROVE RightKind(key, Times(w.c, r))
    <3>1. Odd(key[1] \cap key[2]) \in BOOLEAN
      BY DEF Odd
    <3>2. Kind(~(Odd(key[1] \cap key[2]) <=> FALSE), Times(w.c, r))
      BY <2>1, <2>3, <3>1, KindTimes DEF RightKind
    <3>3. QED
      BY <3>1, <3>2 DEF RightKind
  <2>4. Kind(FALSE, u)
    BY OneReal, RealOps
  <2>5. Into(key, acc) =
          IF q \in key[1] THEN add_weighted(acc, key, Times(w.c, root), w.freq)
          ELSE IF q \notin key[2] THEN add_weighted(acc, key, w.c, w.freq)
          ELSE add_weighted(add_weighted(acc, key, Times(w.c, u), w.freq),
                            <<key[1], key[2] \ {q}>>, Times(w.c, gamma), w.freq)
    OBVIOUS
  <2> HIDE DEF Into, w, u
  <2>6. CASE q \in key[1]
    BY <2>1, <2>2, <2>3, <2>5, <2>6, HermitianAdd
  <2>7. CASE q \notin key[1] /\ q \notin key[2]
    BY <2>1, <2>2, <2>5, <2>7, HermitianAdd
  <2>8. CASE q \notin key[1] /\ q \in key[2]
    <3> DEFINE less == <<key[1], key[2] \ {q}>>
               part == add_weighted(acc, key, Times(w.c, u), w.freq)
    <3>1. part \in Hermitian
      BY <2>1, <2>2, <2>3, <2>4, HermitianAdd
    <3>2. less \in Keys
      BY <2>2 DEF Keys, Basis
    <3>3. less[1] \cap less[2] = key[1] \cap key[2]
      BY <2>8
    <3>4. RightKind(less, Times(w.c, gamma))
      BY <2>3, <3>3 DEF RightKind
    <3>5. Into(key, acc) = add_weighted(part, less, Times(w.c, gamma), w.freq)
      BY <2>5, <2>8
    <3> HIDE DEF less, part
    <3>6. QED
      BY <2>2, <3>1, <3>2, <3>4, <3>5, HermitianAdd
  <2>9. QED
    BY <2>6, <2>7, <2>8
<1> HIDE DEF Into, u
<1>3. iter[D] \in Hermitian
  <2> DEFINE ch == [t \in SUBSET D |-> CHOOSE x \in t : TRUE]
             step == [p \in D \X Hermitian |-> Into(p[1], p[2])]
  <2>1. IsFiniteSet(D) /\ EmptySum \in Hermitian
    BY HermitianParts, HermitianEmpty
  <2>2. step \in [D \X Hermitian -> Hermitian]
    BY <1>2
  <2>3. \A t \in SUBSET D : t # {} => ch[t] \in t
    OBVIOUS
  <2>4. PICK f : f \in [SUBSET D -> Hermitian] /\ FoldsTo(f, EmptySum, step, ch, D)
    <3> HIDE DEF D, step, ch
    <3>1. QED
      BY <2>1, <2>2, <2>3, HermitianFold
  <2>5. f = [t \in SUBSET D |-> IF t = {} THEN EmptySum
                                ELSE Into(CHOOSE x \in t : TRUE, f[t \ {CHOOSE x \in t : TRUE}])]
    <3>1. \A t \in SUBSET D : t # {} => /\ ch[t] = (CHOOSE x \in t : TRUE) /\ ch[t] \in D
                                        /\ f[t \ {ch[t]}] \in Hermitian
      BY <2>3, <2>4
    <3>6. \A a \in D, b \in Hermitian : step[<<a, b>>] = Into(a, b)
      OBVIOUS
    <3>2. \A t \in SUBSET D : t # {} => step[<<ch[t], f[t \ {ch[t]}]>>] = Into(ch[t], f[t \ {ch[t]}])
      <4> HIDE DEF step, ch, D
      <4>1. QED
        BY <3>1, <3>6
    <3>3. f = [t \in SUBSET D |-> IF t = {} THEN EmptySum ELSE step[<<ch[t], f[t \ {ch[t]}]>>]]
      BY <2>4 DEF FoldsTo
    <3> HIDE DEF ch, step, D
    <3>4. \A t \in SUBSET D : f[t] = IF t = {} THEN EmptySum
                                     ELSE Into(CHOOSE x \in t : TRUE, f[t \ {CHOOSE x \in t : TRUE}])
      BY <3>1, <3>2, <3>3
    <3>5. QED
      BY <3>3, <3>4
  <2>6. iter = [t \in SUBSET D |-> IF t = {} THEN EmptySum
                                   ELSE Into(CHOOSE x \in t : TRUE, iter[t \ {CHOOSE x \in t : TRUE}])]
    BY <2>5
  <2> HIDE DEF iter, D, ch, step
  <2>7. iter[{}] \in Hermitian
    BY <2>1, <2>6
  <2>8. ASSUME NEW t \in SUBSET D, t # {}
        PROVE  \E x \in t : iter[t \ {x}] \in Hermitian => iter[t] \in Hermitian
    <3> DEFINE x == CHOOSE y \in t : TRUE
    <3>1. x \in t /\ x \in D
      BY <2>8
    <3>2. iter[t] = Into(x, iter[t \ {x}])
      BY <2>6, <2>8
    <3> HIDE DEF x
    <3>3. iter[t \ {x}] \in Hermitian => iter[t] \in Hermitian
      BY <1>2, <3>1, <3>2 DEF D
    <3>4. QED
      BY <3>1, <3>3
  <2>9. QED
    BY <2>1, <2>7, <2>8, FoldStays
<1>4. QED
  BY <1>1, <1>3

-----------------------------------------------------------------------------
(* Products of raw strings.                                                *)

Xor(a, b) == ~(a <=> b)

\* The raw string r on wires of W is its own adjoint, or, if h, minus that.
Proper(r, h, W) ==
    /\ r.x \in SUBSET W /\ r.z \in SUBSET W
    /\ Kind(Xor(h, Odd(r.x \cap r.z)), r.f)

Anti(a, b) == Xor(Odd(a.x \cap b.z), Odd(a.z \cap b.x))

LEMMA OddMeets ==
  ASSUME NEW A, NEW B, NEW C, IsFiniteSet(A), IsFiniteSet(B), IsFiniteSet(C)
  PROVE  Odd(SymDiff(A, B) \cap C) = Xor(Odd(A \cap C), Odd(B \cap C))
<1>1. IsFiniteSet(A \cap C) /\ IsFiniteSet(B \cap C)
  BY FS_Intersection
<1>2. SymDiff(A, B) \cap C = SymDiff(A \cap C, B \cap C)
  BY DEF SymDiff
<1>3. Odd(SymDiff(A \cap C, B \cap C)) <=> ~(Odd(A \cap C) <=> Odd(B \cap C))
  BY <1>1, OddSymDiff
<1>4. QED
  BY <1>2, <1>3 DEF Xor, Odd

Finite(r) == IsFiniteSet(r.x) /\ IsFiniteSet(r.z)

LEMMA ProperFinite ==
  ASSUME NEW W \in Basis, NEW r, NEW h, Proper(r, h, W)
  PROVE  Finite(r)
<1>1. IsFiniteSet(W)
  BY BasisFinite
<1>2. QED
  BY <1>1, FS_Subset DEF Proper, Finite

LEMMA ProperProduct ==
  ASSUME NEW W \in Basis, NEW a, NEW b, NEW h \in BOOLEAN, NEW k \in BOOLEAN,
         Proper(a, h, W), Proper(b, k, W)
  PROVE  Proper(RawMul(a, b), Xor(Xor(h, k), Anti(a, b)), W)
<1> DEFINE x == SymDiff(a.x, b.x)
           z == SymDiff(a.z, b.z)
           f == Times(Times(a.f, b.f), RawSign(a.z, b.x))
           pa == Odd(a.x \cap a.z)
           pb == Odd(b.x \cap b.z)
           ab == Odd(a.x \cap b.z)
           ba == Odd(a.z \cap b.x)
<1>1. IsFiniteSet(a.x) /\ IsFiniteSet(a.z) /\ IsFiniteSet(b.x) /\ IsFiniteSet(b.z)
  BY ProperFinite DEF Finite
<1>2. IsFiniteSet(z)
  <2>1. z \in SUBSET W
    BY DEF Proper, SymDiff
  <2>2. QED
    BY <2>1, BasisFinite, FS_Subset
<1>3. Odd(x \cap z) = Xor(Odd(a.x \cap z), Odd(b.x \cap z))
  BY <1>1, <1>2, OddMeets
<1>4. Odd(a.x \cap z) = Xor(pa, ab)
  <2>1. Odd(z \cap a.x) = Xor(Odd(a.z \cap a.x), Odd(b.z \cap a.x))
    BY <1>1, OddMeets
  <2>2. z \cap a.x = a.x \cap z /\ a.z \cap a.x = a.x \cap a.z /\ b.z \cap a.x = a.x \cap b.z
    OBVIOUS
  <2>3. QED
    BY <2>1, <2>2
<1>5. Odd(b.x \cap z) = Xor(ba, pb)
  <2>1. Odd(z \cap b.x) = Xor(Odd(a.z \cap b.x), Odd(b.z \cap b.x))
    BY <1>1, OddMeets
  <2>2. z \cap b.x = b.x \cap z /\ b.z \cap b.x = b.x \cap b.z
    OBVIOUS
  <2>3. QED
    BY <2>1, <2>2
<1>6. pa \in BOOLEAN /\ pb \in BOOLEAN /\ ab \in BOOLEAN /\ ba \in BOOLEAN
  BY DEF Odd
<1>7. Kind(Xor(h, pa), a.f) /\ Kind(Xor(k, pb), b.f)
  BY DEF Proper
<1>8. RawMul(a, b) = [x |-> x, z |-> z, f |-> f]
  BY DEF RawMul, Raw
<1>9. x \in SUBSET W /\ z \in SUBSET W
  BY DEF Proper, SymDiff
<1>10. Anti(a, b) = Xor(ab, ba)
  BY DEF Anti
<1> HIDE DEF pa, pb, ab, ba
<1>11. Kind(Xor(Xor(h, pa), Xor(k, pb)), Times(a.f, b.f))
  <2>1. Xor(h, pa) \in BOOLEAN /\ Xor(k, pb) \in BOOLEAN
    BY DEF Xor
  <2>2. Kind(~(Xor(h, pa) <=> Xor(k, pb)), Times(a.f, b.f))
    BY <1>7, <2>1, KindTimes
  <2>3. QED
    BY <2>2 DEF Xor
<1>12. Kind(Xor(Xor(h, pa), Xor(k, pb)), f)
  <2> DEFINE y == Xor(Xor(h, pa), Xor(k, pb))
  <2>1. y \in BOOLEAN /\ FALSE \in BOOLEAN
    BY DEF Xor
  <2>2. Kind(y, Times(a.f, b.f)) /\ Kind(FALSE, RawSign(a.z, b.x))
    BY <1>11, KindSign
  <2> HIDE DEF y
  <2>3. Kind(~(y <=> FALSE), f)
    BY <2>1, <2>2, KindTimes
  <2>4. Kind(y, f)
    BY <2>1, <2>3
  <2>5. QED
    BY <2>4 DEF y
<1> DEFINE p == Odd(x \cap z)
<1>13. p = Xor(Xor(pa, ab), Xor(ba, pb))
  BY <1>3, <1>4, <1>5
<1> HIDE DEF p, x, z, f
<1>14. Xor(Xor(Xor(h, k), Xor(ab, ba)), p) = Xor(Xor(h, pa), Xor(k, pb))
  BY <1>6, <1>13 DEF Xor
<1>15. QED
  <2>1. Kind(Xor(Xor(Xor(h, k), Xor(ab, ba)), p), f)
    BY <1>12, <1>14
  <2>2. Kind(Xor(Xor(Xor(h, k), Anti(a, b)), Odd(x \cap z)), f)
    BY <1>10, <2>1 DEF p
  <2> HIDE DEF Xor
  <2>3. QED
    BY <1>8, <1>9, <2>2 DEF Proper

LEMMA AntiProduct ==
  ASSUME NEW a, NEW b, NEW c, Finite(a), Finite(b), Finite(c)
  PROVE  Anti(RawMul(a, b), c) = Xor(Anti(a, c), Anti(b, c))
<1> DEFINE p == Odd(a.x \cap c.z)
           q == Odd(a.z \cap c.x)
           r == Odd(b.x \cap c.z)
           s == Odd(b.z \cap c.x)
<1>1. /\ IsFiniteSet(a.x) /\ IsFiniteSet(a.z) /\ IsFiniteSet(b.x) /\ IsFiniteSet(b.z)
      /\ IsFiniteSet(c.x) /\ IsFiniteSet(c.z)
  BY DEF Finite
<1>2. RawMul(a, b).x = SymDiff(a.x, b.x) /\ RawMul(a, b).z = SymDiff(a.z, b.z)
  BY DEF RawMul, Raw
<1>3. Odd(SymDiff(a.x, b.x) \cap c.z) = Xor(p, r) /\ Odd(SymDiff(a.z, b.z) \cap c.x) = Xor(q, s)
  <2>1. Odd(SymDiff(a.x, b.x) \cap c.z) = Xor(p, r)
    BY <1>1, OddMeets
  <2>2. Odd(SymDiff(a.z, b.z) \cap c.x) = Xor(q, s)
    BY <1>1, OddMeets
  <2>3. QED
    BY <2>1, <2>2
<1>4. p \in BOOLEAN /\ q \in BOOLEAN /\ r \in BOOLEAN /\ s \in BOOLEAN
  BY DEF Odd
<1>5. Anti(RawMul(a, b), c) = Xor(Xor(p, r), Xor(q, s)) /\ Anti(a, c) = Xor(p, q) /\ Anti(b, c) = Xor(r, s)
  BY <1>2, <1>3 DEF Anti
<1> HIDE DEF p, q, r, s
<1>6. QED
  BY <1>4, <1>5 DEF Xor

\* The string without letters.
LEMMA ProperUnit ==
  ASSUME NEW W \in Basis, NEW c
  PROVE  Proper(Raw({}, {}, One), FALSE, W) /\ Anti(Raw({}, {}, One), c) = FALSE
<1> DEFINE e == Raw({}, {}, One)
<1>1. e.x = {} /\ e.z = {} /\ e.f = One
  BY DEF Raw
<1>2. e.x \cap e.z = {} /\ e.x \cap c.z = {} /\ e.z \cap c.x = {}
  BY <1>1
<1> HIDE DEF e
<1>3. Odd(e.x \cap e.z) = FALSE /\ Odd(e.x \cap c.z) = FALSE /\ Odd(e.z \cap c.x) = FALSE
  BY <1>2, OddEmpty DEF Odd
<1>4. Xor(FALSE, FALSE) = FALSE
  BY DEF Xor
<1>5. QED
  BY <1>1, <1>3, <1>4, KindUnits DEF Proper, Anti, e

\* A letter that may be present.
Pick(l, a, b) == IF l THEN RawMul(a, b) ELSE a

LEMMA PickProper ==
  ASSUME NEW W \in Basis, NEW a, NEW b, NEW h \in BOOLEAN, NEW l \in BOOLEAN,
         Proper(a, h, W), Proper(b, FALSE, W)
  PROVE  Proper(Pick(l, a, b), Xor(h, l /\ Anti(a, b)), W)
<1>1. Anti(a, b) \in BOOLEAN
  BY DEF Anti, Xor
<1>2. CASE l
  <2>1. Pick(l, a, b) = RawMul(a, b)
    BY <1>2 DEF Pick
  <2>2. Proper(RawMul(a, b), Xor(Xor(h, FALSE), Anti(a, b)), W)
    BY ProperProduct
  <2>3. Xor(Xor(h, FALSE), Anti(a, b)) = Xor(h, l /\ Anti(a, b))
    BY <1>1, <1>2 DEF Xor
  <2>4. QED
    BY <2>1, <2>2, <2>3
<1>3. CASE ~l
  <2>1. Pick(l, a, b) = a /\ Xor(h, l /\ Anti(a, b)) = h
    BY <1>3 DEF Pick, Xor
  <2>2. QED
    BY <2>1
<1>4. QED
  BY <1>2, <1>3

LEMMA PickAnti ==
  ASSUME NEW a, NEW b, NEW c, Finite(a), Finite(b), Finite(c), NEW l \in BOOLEAN
  PROVE  Anti(Pick(l, a, b), c) = Xor(Anti(a, c), l /\ Anti(b, c))
<1>1. Anti(a, c) \in BOOLEAN /\ Anti(b, c) \in BOOLEAN
  BY DEF Anti, Xor
<1>2. CASE l
  <2>1. Pick(l, a, b) = RawMul(a, b) /\ (l /\ Anti(b, c)) = Anti(b, c)
    BY <1>1, <1>2 DEF Pick
  <2>2. QED
    BY <2>1, AntiProduct
<1>3. CASE ~l
  <2>1. Pick(l, a, b) = a /\ Xor(Anti(a, c), l /\ Anti(b, c)) = Anti(a, c)
    BY <1>1, <1>3 DEF Pick, Xor
  <2>2. QED
    BY <2>1
<1>4. QED
  BY <1>2, <1>3

-----------------------------------------------------------------------------
(* The images of the letters of a gate.                                    *)

\* The images of X and Z on one wire: Hermitian, and they anticommute.
Frame(im, W) == Proper(im[1], FALSE, W) /\ Proper(im[2], FALSE, W) /\ Anti(im[1], im[2]) = TRUE

\* Two wires: the images for one commute with those for the other.
Frames(im, W) ==
    /\ Proper(im[1], FALSE, W) /\ Proper(im[2], FALSE, W)
    /\ Proper(im[3], FALSE, W) /\ Proper(im[4], FALSE, W)
    /\ Anti(im[1], im[2]) = TRUE /\ Anti(im[3], im[4]) = TRUE
    /\ Anti(im[1], im[3]) = FALSE /\ Anti(im[1], im[4]) = FALSE
    /\ Anti(im[2], im[3]) = FALSE /\ Anti(im[2], im[4]) = FALSE

Two(l, im) == Pick(l[2], Pick(l[1], Raw({}, {}, One), im[1]), im[2])
Four(l, im) == Pick(l[4], Pick(l[3], Two(l, im), im[3]), im[4])

LEMMA FramePicks ==
  ASSUME NEW W \in Basis, NEW im, Frame(im, W), NEW l \in [1..4 -> BOOLEAN]
  PROVE  Proper(Two(l, im), l[1] /\ l[2], W)
<1> DEFINE e == Raw({}, {}, One)
           a == im[1]
           b == im[2]
           s == Pick(l[1], e, a)
<1>1. Proper(e, FALSE, W) /\ Anti(e, a) = FALSE /\ Anti(e, b) = FALSE
  BY ProperUnit
<1>2. Proper(a, FALSE, W) /\ Proper(b, FALSE, W) /\ Anti(a, b) = TRUE
  BY DEF Frame
<1>3. l[1] \in BOOLEAN /\ l[2] \in BOOLEAN
  OBVIOUS
<1>4. Two(l, im) = Pick(l[2], s, b)
  BY DEF Two
<1> HIDE DEF e, a, b
<1>5. Finite(e) /\ Finite(a) /\ Finite(b)
  BY <1>1, <1>2, ProperFinite
<1>6. Proper(s, FALSE, W)
  <2>1. Proper(s, Xor(FALSE, l[1] /\ Anti(e, a)), W)
    BY <1>1, <1>2, <1>3, PickProper
  <2>2. Xor(FALSE, l[1] /\ FALSE) = FALSE
    BY DEF Xor
  <2>3. QED
    BY <1>1, <2>1, <2>2
<1>7. Anti(s, b) = l[1]
  <2>1. Anti(s, b) = Xor(Anti(e, b), l[1] /\ Anti(a, b))
    BY <1>3, <1>5, PickAnti
  <2>2. Xor(FALSE, l[1] /\ TRUE) = l[1]
    BY <1>3 DEF Xor
  <2>3. QED
    BY <1>1, <1>2, <2>1, <2>2
<1> HIDE DEF s
<1>8. Proper(Pick(l[2], s, b), Xor(FALSE, l[2] /\ Anti(s, b)), W)
  BY <1>2, <1>3, <1>6, PickProper
<1>9. Xor(FALSE, l[2] /\ l[1]) = (l[1] /\ l[2])
  BY <1>3 DEF Xor
<1>10. QED
  BY <1>4, <1>7, <1>8, <1>9

LEMMA FramesPicks ==
  ASSUME NEW W \in Basis, NEW im, Frames(im, W), NEW l \in [1..4 -> BOOLEAN]
  PROVE  Proper(Four(l, im), Xor(l[1] /\ l[2], l[3] /\ l[4]), W)
<1> DEFINE e == Raw({}, {}, One)
           s == Pick(l[1], e, im[1])
           t == Two(l, im)
           u == Pick(l[3], t, im[3])
           c == im[3]
           d == im[4]
<1>14. l[1] \in BOOLEAN /\ l[2] \in BOOLEAN /\ l[3] \in BOOLEAN /\ l[4] \in BOOLEAN
  OBVIOUS
<1>15. /\ Proper(im[1], FALSE, W) /\ Proper(im[2], FALSE, W)
       /\ Proper(im[3], FALSE, W) /\ Proper(im[4], FALSE, W)
  BY DEF Frames
<1>16. Finite(im[1]) /\ Finite(im[2]) /\ Finite(im[3]) /\ Finite(im[4])
  BY <1>15, ProperFinite
<1>2. Frame(im, W)
  BY DEF Frames, Frame
<1>3. Proper(t, l[1] /\ l[2], W) /\ Finite(t)
  <2>1. Proper(t, l[1] /\ l[2], W)
    BY <1>2, FramePicks
  <2> HIDE DEF t
  <2>2. QED
    BY <2>1, ProperFinite
<1>4. Anti(t, c) = FALSE /\ Anti(t, d) = FALSE
  <2>1. ASSUME NEW w, Finite(w), Anti(im[1], w) = FALSE, Anti(im[2], w) = FALSE
        PROVE  Anti(t, w) = FALSE
    <3>1. Proper(e, FALSE, W) /\ Finite(e) /\ Anti(e, w) = FALSE
      BY ProperUnit, ProperFinite
    <3>2. Xor(FALSE, l[1] /\ FALSE) = FALSE /\ Xor(FALSE, l[2] /\ FALSE) = FALSE
      BY DEF Xor
    <3> HIDE DEF e
    <3>3. Anti(s, w) = Xor(Anti(e, w), l[1] /\ Anti(im[1], w))
      BY <1>14, <1>16, <2>1, <3>1, PickAnti
    <3>4. Finite(s)
      <4>1. Proper(e, FALSE, W) /\ Proper(im[1], FALSE, W) /\ l[1] \in BOOLEAN
        BY <1>14, <1>15, <3>1
      <4>2. Proper(s, Xor(FALSE, l[1] /\ Anti(e, im[1])), W)
        BY <4>1, PickProper
      <4> HIDE DEF s
      <4>3. QED
        BY <4>2, ProperFinite
    <3>5. t = Pick(l[2], s, im[2])
      BY DEF Two, e
    <3> HIDE DEF s, t
    <3>6. Anti(Pick(l[2], s, im[2]), w) = Xor(Anti(s, w), l[2] /\ Anti(im[2], w))
      BY <1>14, <1>16, <2>1, <3>4, PickAnti
    <3>7. QED
      BY <2>1, <3>1, <3>2, <3>3, <3>5, <3>6
  <2> HIDE DEF t
  <2>2. QED
    BY <1>16, <2>1 DEF Frames
<1>5. Four(l, im) = Pick(l[4], u, d)
  BY DEF Four
<1>6. Proper(c, FALSE, W) /\ Proper(d, FALSE, W) /\ Finite(c) /\ Finite(d) /\ Anti(c, d) = TRUE
  BY <1>15, <1>16 DEF Frames
<1> DEFINE h == l[1] /\ l[2]
<1>7. h \in BOOLEAN /\ l[3] \in BOOLEAN /\ l[4] \in BOOLEAN
  BY <1>14
<1> HIDE DEF t, h, c, d
<1>8. u = Pick(l[3], t, c)
  BY DEF c
<1> HIDE DEF u
<1>9. Proper(u, h, W)
  <2>1. Proper(Pick(l[3], t, c), Xor(h, l[3] /\ Anti(t, c)), W)
    BY <1>3, <1>6, <1>7, PickProper DEF h
  <2>2. Xor(h, l[3] /\ FALSE) = h
    BY <1>7 DEF Xor
  <2>3. QED
    BY <1>4, <1>8, <2>1, <2>2
<1>10. Anti(u, d) = l[3]
  <2>1. Anti(Pick(l[3], t, c), d) = Xor(Anti(t, d), l[3] /\ Anti(c, d))
    BY <1>3, <1>6, <1>7, PickAnti
  <2>2. Xor(FALSE, l[3] /\ TRUE) = l[3]
    BY <1>7 DEF Xor
  <2>3. QED
    BY <1>4, <1>6, <1>8, <2>1, <2>2
<1>11. Proper(Pick(l[4], u, d), Xor(h, l[4] /\ Anti(u, d)), W)
  BY <1>6, <1>7, <1>9, PickProper
<1>12. (l[4] /\ l[3]) = (l[3] /\ l[4])
  BY <1>7
<1>13. QED
  BY <1>5, <1>10, <1>11, <1>12 DEF h

OneMaps == {"H", "X", "Y", "Z", "S", "Sdg", "Sx", "Sxdg"}
TwoMaps == {"CX", "CZ", "CY", "Swap"}

LEMMA ProperLetter ==
  ASSUME NEW W, NEW x \in SUBSET W, NEW z \in SUBSET W, NEW f, Kind(Odd(x \cap z), f)
  PROVE  Proper(Raw(x, z, f), FALSE, W)
<1>1. Xor(FALSE, Odd(x \cap z)) = Odd(x \cap z)
  BY DEF Xor, Odd
<1>2. QED
  BY <1>1 DEF Proper, Raw

LEMMA FrameOf ==
  ASSUME NEW W, NEW a, NEW b, Proper(a, FALSE, W), Proper(b, FALSE, W), Anti(a, b) = TRUE
  PROVE  Len(<<a, b>>) = 2 /\ Frame(<<a, b>>, W)
BY DEF Frame

LEMMA OneWireFrame ==
  ASSUME NEW q \in Qubits, NEW g, g.qs = <<q>>, g.op \in OneMaps
  PROVE  Len(Images(g)) = 2 /\ Frame(Images(g), {q})
<1> DEFINE W == {q}
           im == Images(g)
           j == ImUnit
           nj == Neg(ImUnit)
           one == One
           no == Neg(One)
<1>1. g.qs[1] = q /\ Len(g.qs) = 1 /\ g.qs[Len(g.qs)] = q
  OBVIOUS
<1>2. /\ Odd({} \cap {q}) = FALSE /\ Odd({q} \cap {}) = FALSE
      /\ Odd({q} \cap {q}) = TRUE /\ Odd({} \cap {}) = FALSE
  <2>1. {} \cap {q} = {} /\ {q} \cap {} = {} /\ {} \cap {} = {} /\ {q} \cap {q} = {q}
    OBVIOUS
  <2>2. QED
    BY <2>1, OddEmpty, OddOne DEF Odd
<1>3. Xor(TRUE, FALSE) = TRUE /\ Xor(FALSE, TRUE) = TRUE
  BY DEF Xor
<1>4. /\ Kind(FALSE, one) /\ Kind(FALSE, no) /\ Kind(TRUE, j) /\ Kind(TRUE, nj)
      /\ {} \in SUBSET W /\ {q} \in SUBSET W
  BY KindUnits
<1> DEFINE x == Raw({q}, {}, one)
           nx == Raw({q}, {}, no)
           z == Raw({}, {q}, one)
           nz == Raw({}, {q}, no)
           y == Raw({q}, {q}, j)
           ny == Raw({q}, {q}, nj)
<1>5. im \in {<<z, x>>, <<x, nz>>, <<nx, nz>>, <<nx, z>>, <<ny, z>>, <<y, z>>, <<x, y>>, <<x, ny>>}
  BY <1>1 DEF Images, OneMaps
<1>6. /\ Proper(x, FALSE, W) /\ Proper(nx, FALSE, W) /\ Proper(z, FALSE, W) /\ Proper(nz, FALSE, W)
      /\ Proper(y, FALSE, W) /\ Proper(ny, FALSE, W)
  <2> HIDE DEF one, no, j, nj, W
  <2>1. Proper(x, FALSE, W) /\ Proper(nx, FALSE, W)
    BY <1>2, <1>4, ProperLetter
  <2>2. Proper(z, FALSE, W) /\ Proper(nz, FALSE, W)
    BY <1>2, <1>4, ProperLetter
  <2>3. Proper(y, FALSE, W) /\ Proper(ny, FALSE, W)
    BY <1>2, <1>4, ProperLetter
  <2>4. QED
    BY <2>1, <2>2, <2>3
<1>7. /\ Anti(z, x) = TRUE /\ Anti(x, nz) = TRUE /\ Anti(nx, nz) = TRUE /\ Anti(nx, z) = TRUE
      /\ Anti(ny, z) = TRUE /\ Anti(y, z) = TRUE /\ Anti(x, y) = TRUE /\ Anti(x, ny) = TRUE
  <2> HIDE DEF one, no, j, nj
  <2>1. Anti(z, x) = TRUE /\ Anti(x, nz) = TRUE /\ Anti(nx, nz) = TRUE /\ Anti(nx, z) = TRUE
    BY <1>2, <1>3 DEF Anti, Raw
  <2>2. Anti(ny, z) = TRUE /\ Anti(y, z) = TRUE /\ Anti(x, y) = TRUE /\ Anti(x, ny) = TRUE
    BY <1>2, <1>3 DEF Anti, Raw
  <2>3. QED
    BY <2>1, <2>2
<1> HIDE DEF im, x, nx, z, nz, y, ny, W
<1>8. Len(im) = 2 /\ Frame(im, W)
  BY <1>5, <1>6, <1>7, FrameOf
<1>9. QED
  BY <1>8 DEF im, W

LEMMA Meets ==
  ASSUME NEW q, NEW t, q # t
  PROVE  /\ Odd({q} \cap {q}) = TRUE /\ Odd({t} \cap {t}) = TRUE
         /\ Odd({q} \cap {t}) = FALSE /\ Odd({t} \cap {q}) = FALSE
         /\ Odd({q, t} \cap {q}) = TRUE /\ Odd({q, t} \cap {t}) = TRUE
         /\ Odd({q} \cap {q, t}) = TRUE /\ Odd({t} \cap {q, t}) = TRUE
         /\ Odd({q, t} \cap {q, t}) = FALSE
         /\ \A S : Odd({} \cap S) = FALSE /\ Odd(S \cap {}) = FALSE
<1>1. Odd({}) = FALSE /\ Odd({q}) = TRUE /\ Odd({t}) = TRUE /\ Odd({q, t}) = FALSE
  BY OddEmpty, OddOne, OddPair DEF Odd
<1>2. /\ {q} \cap {q} = {q} /\ {t} \cap {t} = {t} /\ {q} \cap {t} = {} /\ {t} \cap {q} = {}
      /\ {q, t} \cap {q} = {q} /\ {q, t} \cap {t} = {t}
      /\ {q} \cap {q, t} = {q} /\ {t} \cap {q, t} = {t} /\ {q, t} \cap {q, t} = {q, t}
  OBVIOUS
<1>3. \A S : {} \cap S = {} /\ S \cap {} = {}
  OBVIOUS
<1> HIDE DEF Odd
<1>4. QED
  BY <1>1, <1>2, <1>3

LEMMA TwoWireFrames ==
  ASSUME NEW q \in Qubits, NEW t \in Qubits, q # t, NEW g, g.qs = <<q, t>>, g.op \in TwoMaps
  PROVE  Len(Images(g)) = 4 /\ Frames(Images(g), {q, t})
<1> DEFINE W == {q, t}
           im == Images(g)
           j == ImUnit
           one == One
<1>1. g.qs[1] = q /\ Len(g.qs) = 2 /\ g.qs[Len(g.qs)] = t
  OBVIOUS
<1>2. /\ Odd({q} \cap {q}) = TRUE /\ Odd({t} \cap {t}) = TRUE
      /\ Odd({q} \cap {t}) = FALSE /\ Odd({t} \cap {q}) = FALSE
      /\ Odd({q, t} \cap {q}) = TRUE /\ Odd({q, t} \cap {t}) = TRUE
      /\ Odd({q} \cap {q, t}) = TRUE /\ Odd({t} \cap {q, t}) = TRUE
      /\ Odd({q, t} \cap {q, t}) = FALSE
      /\ \A S : Odd({} \cap S) = FALSE /\ Odd(S \cap {}) = FALSE
  BY Meets
<1>3. Xor(TRUE, FALSE) = TRUE /\ Xor(FALSE, TRUE) = TRUE /\ Xor(TRUE, TRUE) = FALSE /\ Xor(FALSE, FALSE) = FALSE
  BY DEF Xor
<1>4. /\ Kind(FALSE, one) /\ Kind(TRUE, j)
      /\ {} \in SUBSET W /\ {q} \in SUBSET W /\ {t} \in SUBSET W /\ {q, t} \in SUBSET W
  BY KindUnits
<1> DEFINE zq == Raw({}, {q}, one)
           zt == Raw({}, {t}, one)
           xq == Raw({q}, {}, one)
           xt == Raw({t}, {}, one)
           zz == Raw({}, {q, t}, one)
           xx == Raw({q, t}, {}, one)
           xz == Raw({q}, {t}, one)
           zx == Raw({t}, {q}, one)
           xy == Raw({q, t}, {t}, j)
<1>6. /\ Proper(zq, FALSE, W) /\ Proper(zt, FALSE, W) /\ Proper(xq, FALSE, W) /\ Proper(xt, FALSE, W)
      /\ Proper(zz, FALSE, W) /\ Proper(xx, FALSE, W) /\ Proper(xz, FALSE, W) /\ Proper(zx, FALSE, W)
      /\ Proper(xy, FALSE, W)
  <2> HIDE DEF one, j, W
  <2>1. Proper(zq, FALSE, W) /\ Proper(zt, FALSE, W) /\ Proper(zz, FALSE, W)
    BY <1>2, <1>4, ProperLetter
  <2>2. Proper(xq, FALSE, W) /\ Proper(xt, FALSE, W) /\ Proper(xx, FALSE, W)
    BY <1>2, <1>4, ProperLetter
  <2>3. Proper(xz, FALSE, W) /\ Proper(zx, FALSE, W) /\ Proper(xy, FALSE, W)
    BY <1>2, <1>4, ProperLetter
  <2>4. QED
    BY <2>1, <2>2, <2>3
<1>7. /\ g.op = "CX" => im = <<xx, zq, xt, zz>>
      /\ g.op = "CZ" => im = <<xz, zq, zx, zt>>
      /\ g.op = "CY" => im = <<xy, zq, zx, zz>>
      /\ g.op = "Swap" => im = <<xt, zt, xq, zq>>
  BY <1>1 DEF Images
<1>8. CASE g.op = "CX"
  <2>1. Anti(xx, zq) = TRUE /\ Anti(xt, zz) = TRUE
    <3> HIDE DEF one, j
    <3>1. QED
      BY <1>2, <1>3 DEF Anti, Raw
  <2>2. Anti(xx, xt) = FALSE /\ Anti(xx, zz) = FALSE /\ Anti(zq, xt) = FALSE /\ Anti(zq, zz) = FALSE
    <3> HIDE DEF one, j
    <3>1. QED
      BY <1>2, <1>3 DEF Anti, Raw
  <2> HIDE DEF im, zq, zt, xq, xt, zz, xx, xz, zx, xy, W
  <2>5. im = <<xx, zq, xt, zz>>
    BY <1>7, <1>8
  <2>6. Len(im) = 4 /\ im[1] = xx /\ im[2] = zq /\ im[3] = xt /\ im[4] = zz
    BY <2>5
  <2>3. Len(im) = 4 /\ Frames(im, W)
    BY <1>6, <2>1, <2>2, <2>6 DEF Frames
  <2>4. QED
    BY <2>3 DEF im, W
<1>9. CASE g.op = "CZ"
  <2>1. Anti(xz, zq) = TRUE /\ Anti(zx, zt) = TRUE
    <3> HIDE DEF one, j
    <3>1. QED
      BY <1>2, <1>3 DEF Anti, Raw
  <2>2. Anti(xz, zx) = FALSE /\ Anti(xz, zt) = FALSE /\ Anti(zq, zx) = FALSE /\ Anti(zq, zt) = FALSE
    <3> HIDE DEF one, j
    <3>1. QED
      BY <1>2, <1>3 DEF Anti, Raw
  <2> HIDE DEF im, zq, zt, xq, xt, zz, xx, xz, zx, xy, W
  <2>5. im = <<xz, zq, zx, zt>>
    BY <1>7, <1>9
  <2>6. Len(im) = 4 /\ im[1] = xz /\ im[2] = zq /\ im[3] = zx /\ im[4] = zt
    BY <2>5
  <2>3. Len(im) = 4 /\ Frames(im, W)
    BY <1>6, <2>1, <2>2, <2>6 DEF Frames
  <2>4. QED
    BY <2>3 DEF im, W
<1>10. CASE g.op = "CY"
  <2>1. Anti(xy, zq) = TRUE /\ Anti(zx, zz) = TRUE
    <3> HIDE DEF one, j
    <3>1. QED
      BY <1>2, <1>3 DEF Anti, Raw
  <2>2. Anti(xy, zx) = FALSE /\ Anti(xy, zz) = FALSE /\ Anti(zq, zx) = FALSE /\ Anti(zq, zz) = FALSE
    <3> HIDE DEF one, j
    <3>1. QED
      BY <1>2, <1>3 DEF Anti, Raw
  <2> HIDE DEF im, zq, zt, xq, xt, zz, xx, xz, zx, xy, W
  <2>5. im = <<xy, zq, zx, zz>>
    BY <1>7, <1>10
  <2>6. Len(im) = 4 /\ im[1] = xy /\ im[2] = zq /\ im[3] = zx /\ im[4] = zz
    BY <2>5
  <2>3. Len(im) = 4 /\ Frames(im, W)
    BY <1>6, <2>1, <2>2, <2>6 DEF Frames
  <2>4. QED
    BY <2>3 DEF im, W
<1>11. CASE g.op = "Swap"
  <2>1. Anti(xt, zt) = TRUE /\ Anti(xq, zq) = TRUE
    <3> HIDE DEF one, j
    <3>1. QED
      BY <1>2, <1>3 DEF Anti, Raw
  <2>2. Anti(xt, xq) = FALSE /\ Anti(xt, zq) = FALSE /\ Anti(zt, xq) = FALSE /\ Anti(zt, zq) = FALSE
    <3> HIDE DEF one, j
    <3>1. QED
      BY <1>2, <1>3 DEF Anti, Raw
  <2> HIDE DEF im, zq, zt, xq, xt, zz, xx, xz, zx, xy, W
  <2>5. im = <<xt, zt, xq, zq>>
    BY <1>7, <1>11
  <2>6. Len(im) = 4 /\ im[1] = xt /\ im[2] = zt /\ im[3] = xq /\ im[4] = zq
    BY <2>5
  <2>3. Len(im) = 4 /\ Frames(im, W)
    BY <1>6, <2>1, <2>2, <2>6 DEF Frames
  <2>4. QED
    BY <2>3 DEF im, W
<1>12. QED
  BY <1>8, <1>9, <1>10, <1>11 DEF TwoMaps

\* A Clifford map of the program of a gate.
Clifford(g) ==
    /\ \/ g.op \in OneMaps /\ Len(g.qs) = 1
       \/ g.op \in TwoMaps /\ Len(g.qs) = 2 /\ g.qs[1] # g.qs[2]
    /\ g.qs \in Seq(Qubits)

\* The letters of key on the wires of g, x and z wire by wire.
Letters(g, key) ==
    [n \in 1..4 |-> IF n = 1 THEN g.qs[1] \in key[1]
                    ELSE IF n = 2 THEN g.qs[1] \in key[2]
                    ELSE IF n = 3 THEN g.qs[2] \in key[1]
                    ELSE g.qs[2] \in key[2]]

Local(g, key) ==
    IF Len(Images(g)) = 2 THEN Two(Letters(g, key), Images(g)) ELSE Four(Letters(g, key), Images(g))

LEMMA ConjugateKeyIs ==
  ASSUME NEW g, NEW key, Len(Images(g)) = 2 \/ Len(Images(g)) = 4
  PROVE  ConjugateKey(g, key) = Raw(Local(g, key).x \cup (key[1] \ Range(g.qs)),
                                    Local(g, key).z \cup (key[2] \ Range(g.qs)), Local(g, key).f)
<1> DEFINE L == Len(Images(g))
           im == Images(g)
           W == Range(g.qs)
           l == Letters(g, key)
           unit == Raw({}, {}, One)
           Letter(n) == IF n % 2 = 1 THEN g.qs[(n + 1) \div 2] \in key[1] ELSE g.qs[n \div 2] \in key[2]
           Into(acc, n) == IF Letter(n) THEN RawMul(acc, im[n]) ELSE acc
           seq == [n \in 1..Len(im) |-> n]
           After[n \in 0..Len(seq)] == IF n = 0 THEN unit ELSE Into(After[n - 1], seq[n])
           local == After[Len(seq)]
<1>1. ConjugateKey(g, key) = Raw(local.x \cup (key[1] \ W), local.z \cup (key[2] \ W), local.f)
  BY DEF ConjugateKey, Along
<1>2. /\ Letter(1) = l[1] /\ Letter(2) = l[2] /\ Letter(3) = l[3] /\ Letter(4) = l[4]
  BY DEF Letters
<1>3. L \in {2, 4} /\ Len(im) = L /\ Len(seq) = L /\ \A n \in 1..L : seq[n] = n
  OBVIOUS
<1> DEFINE a == Into(unit, 1)
           b == Into(a, 2)
           c == Into(b, 3)
           d == Into(c, 4)
           f == [n \in 0..L |-> IF n = 0 THEN unit ELSE IF n = 1 THEN a ELSE IF n = 2 THEN b
                                ELSE IF n = 3 THEN c ELSE d]
<1>4. /\ Two(l, im) = b /\ Four(l, im) = d
  BY <1>2 DEF Two, Four, Pick
<1> HIDE DEF Into, im, l, W, unit, Letter, L
<1>5. f = [n \in 0..Len(seq) |-> IF n = 0 THEN unit ELSE Into(f[n - 1], seq[n])]
  <2>1. \A n \in 0..L : f[n] = IF n = 0 THEN unit ELSE Into(f[n - 1], seq[n])
    <3> TAKE n \in 0..L
    <3>1. n \in {0, 1, 2, 3, 4}
      BY <1>3
    <3>2. n # 0 => seq[n] = n /\ n - 1 \in 0..L
      BY <1>3
    <3> HIDE DEF seq
    <3>3. QED
      BY <3>1, <3>2
  <2> HIDE DEF seq
  <2>2. QED
    BY <1>3, <2>1
<1>6. After = [n \in 0..Len(seq) |-> IF n = 0 THEN unit ELSE Into(After[n - 1], seq[n])]
  BY <1>5
<1> HIDE DEF After, f, seq
<1>7. \A n \in 0..L : After[n] = IF n = 0 THEN unit ELSE Into(After[n - 1], n)
  BY <1>3, <1>6
<1>8. After[0] = unit /\ After[1] = a /\ After[2] = b /\ (L = 4 => After[3] = c /\ After[4] = d)
  <2>1. After[0] = unit /\ After[1] = Into(After[0], 1) /\ After[2] = Into(After[1], 2)
    BY <1>3, <1>7
  <2>2. L = 4 => After[3] = Into(After[2], 3) /\ After[4] = Into(After[3], 4)
    BY <1>3, <1>7
  <2>3. QED
    BY <2>1, <2>2
<1> HIDE DEF a, b, c, d
<1>9. local = IF L = 2 THEN Two(l, im) ELSE Four(l, im)
  BY <1>3, <1>4, <1>8
<1>10. QED
  BY <1>1, <1>9 DEF l, im, W, L, Local

\* Parity of what a string has on one wire, and on two.
LEMMA OddOn ==
  ASSUME NEW S, NEW q, NEW t, q # t
  PROVE  /\ Odd(S \cap {q}) <=> q \in S
         /\ Odd(S \cap {q, t}) = Xor(q \in S, t \in S)
<1>1. Odd({}) = FALSE /\ Odd({q}) = TRUE /\ Odd({t}) = TRUE /\ Odd({q, t}) = FALSE
  BY OddEmpty, OddOne, OddPair DEF Odd
<1>2. S \cap {q} = IF q \in S THEN {q} ELSE {}
  OBVIOUS
<1>3. S \cap {q, t} = IF q \in S THEN (IF t \in S THEN {q, t} ELSE {q}) ELSE (IF t \in S THEN {t} ELSE {})
  OBVIOUS
<1> HIDE DEF Odd
<1>4. Odd(S \cap {q}) <=> q \in S
  BY <1>1, <1>2
<1>5. Odd(S \cap {q, t}) <=> ~(q \in S <=> t \in S)
  BY <1>1, <1>3
<1>6. QED
  BY <1>4, <1>5 DEF Xor, Odd

\* The letters of a key on the wires of a map, multiplied.
LEMMA LocalProper ==
  ASSUME NEW g, Clifford(g), NEW key \in Keys
  PROVE  /\ Range(g.qs) \in Basis /\ Len(Images(g)) \in {2, 4}
         /\ Proper(Local(g, key), Odd(key[1] \cap key[2] \cap Range(g.qs)), Range(g.qs))
<1> DEFINE W == Range(g.qs)
           l == Letters(g, key)
           im == Images(g)
           S == key[1] \cap key[2]
<1>1. l \in [1..4 -> BOOLEAN]
  BY DEF Letters
<1>2. /\ l[1] <=> g.qs[1] \in key[1]
      /\ l[2] <=> g.qs[1] \in key[2]
      /\ l[3] <=> g.qs[2] \in key[1]
      /\ l[4] <=> g.qs[2] \in key[2]
  <2>1. /\ l[1] = (g.qs[1] \in key[1]) /\ l[2] = (g.qs[1] \in key[2])
        /\ l[3] = (g.qs[2] \in key[1]) /\ l[4] = (g.qs[2] \in key[2])
    BY DEF Letters
  <2> HIDE DEF l
  <2>2. QED
    BY <2>1
<1>6. l[1] \in BOOLEAN /\ l[2] \in BOOLEAN /\ l[3] \in BOOLEAN /\ l[4] \in BOOLEAN
  BY <1>1
<1> HIDE DEF l
<1>3. CASE g.op \in OneMaps /\ Len(g.qs) = 1
  <2> DEFINE q == g.qs[1]
             no == N
  <2>1. q \in Qubits /\ g.qs = <<q>> /\ W = {q} /\ q # no
    <3>1. q \in Qubits /\ g.qs = <<q>>
      BY <1>3 DEF Clifford
    <3>2. W = {q}
      BY <1>3, <3>1 DEF Range
    <3>3. QED
      BY <3>1, <3>2, WidthAssumption DEF Qubits
  <2>2. Len(im) = 2 /\ Frame(im, {q})
    BY <1>3, <2>1, OneWireFrame
  <2>3. W \in Basis
    BY <2>1 DEF Basis
  <2> HIDE DEF W, q, im, no
  <2>4. Proper(Two(l, im), l[1] /\ l[2], W)
    BY <1>1, <2>1, <2>2, <2>3, FramePicks
  <2>5. Odd(S \cap {q}) <=> q \in S
    <3> HIDE DEF S
    <3>1. QED
      BY <2>1, OddOn
  <2>6. l[1] /\ l[2] <=> q \in S
    BY <1>2, <1>6 DEF q
  <2>8. (l[1] /\ l[2]) = Odd(S \cap {q})
    <3> HIDE DEF S
    <3>1. QED
      BY <1>6, <2>5, <2>6 DEF Odd
  <2>7. QED
    BY <2>1, <2>2, <2>3, <2>4, <2>8 DEF W, im, l, Local
<1>4. CASE g.op \in TwoMaps /\ Len(g.qs) = 2 /\ g.qs[1] # g.qs[2]
  <2> DEFINE q == g.qs[1]
             t == g.qs[2]
  <2>1. q \in Qubits /\ t \in Qubits /\ q # t /\ g.qs = <<q, t>> /\ W = {q, t}
    <3>1. q \in Qubits /\ t \in Qubits /\ q # t /\ g.qs = <<q, t>>
      BY <1>4 DEF Clifford
    <3>2. W = {q, t}
      BY <1>4, <3>1 DEF Range
    <3>3. QED
      BY <3>1, <3>2
  <2>2. Len(im) = 4 /\ Frames(im, {q, t})
    BY <1>4, <2>1, TwoWireFrames
  <2>3. W \in Basis
    BY <2>1 DEF Basis
  <2> HIDE DEF W, q, t, im
  <2>4. Proper(Four(l, im), Xor(l[1] /\ l[2], l[3] /\ l[4]), W)
    BY <1>1, <2>1, <2>2, <2>3, FramesPicks
  <2>5. Odd(S \cap {q, t}) = Xor(q \in S, t \in S)
    <3> HIDE DEF S
    <3>1. QED
      BY <2>1, OddOn
  <2>6. (l[1] /\ l[2] <=> q \in S) /\ (l[3] /\ l[4] <=> t \in S)
    BY <1>2, <1>6 DEF q, t
  <2>8. Xor(l[1] /\ l[2], l[3] /\ l[4]) = Odd(S \cap {q, t})
    <3> HIDE DEF S
    <3>1. QED
      BY <1>6, <2>5, <2>6 DEF Xor
  <2>7. QED
    BY <2>1, <2>2, <2>3, <2>4, <2>8 DEF W, im, l, Local
<1>5. QED
  BY <1>3, <1>4 DEF Clifford

\* A Clifford map takes a term of the right kind to a term of the right kind.
LEMMA ConjugatedKind ==
  ASSUME NEW g, Clifford(g), NEW key \in Keys, NEW c, RightKind(key, c)
  PROVE  LET r == ConjugateKey(g, key)
         IN  <<r.x, r.z>> \in Keys /\ RightKind(<<r.x, r.z>>, Times(c, r.f))
<1> DEFINE W == Range(g.qs)
           t == Local(g, key)
           r == ConjugateKey(g, key)
           S == key[1] \cap key[2]
           x == t.x \cup (key[1] \ W)
           z == t.z \cup (key[2] \ W)
<1>1. W \in Basis /\ Len(Images(g)) \in {2, 4} /\ Proper(t, Odd(S \cap W), W)
  BY LocalProper
<1>2. r = Raw(x, z, t.f)
  <2>1. Len(Images(g)) = 2 \/ Len(Images(g)) = 4
    BY <1>1
  <2>2. ConjugateKey(g, key) = Raw(Local(g, key).x \cup (key[1] \ Range(g.qs)),
                                   Local(g, key).z \cup (key[2] \ Range(g.qs)), Local(g, key).f)
    BY <2>1, ConjugateKeyIs
  <2>3. QED
    BY <2>2
<1>3. key[1] \in Basis /\ key[2] \in Basis
  BY DEF Keys
<1> HIDE DEF t, W
<1>4. t.x \in SUBSET W /\ t.z \in SUBSET W /\ Kind(Xor(Odd(S \cap W), Odd(t.x \cap t.z)), t.f)
  BY <1>1 DEF Proper
<1>5. x \in Basis /\ z \in Basis
  BY <1>1, <1>3, <1>4 DEF Basis
<1>6. /\ IsFiniteSet(S) /\ IsFiniteSet(S \cap W) /\ IsFiniteSet(S \ W) /\ IsFiniteSet(t.x \cap t.z)
  <2>1. S \in Basis /\ S \cap W \in Basis /\ S \ W \in Basis /\ t.x \cap t.z \in Basis
    BY <1>1, <1>3, <1>4 DEF Basis
  <2>2. QED
    BY <2>1, BasisFinite
<1>7. Odd(S) <=> ~(Odd(S \cap W) <=> Odd(S \ W))
  <2>1. S = SymDiff(S \cap W, S \ W)
    BY DEF SymDiff
  <2>2. QED
    BY <1>6, <2>1, OddSymDiff
<1>8. Odd(x \cap z) <=> ~(Odd(t.x \cap t.z) <=> Odd(S \ W))
  <2>1. x \cap z = SymDiff(t.x \cap t.z, S \ W)
    BY <1>4 DEF SymDiff
  <2>2. QED
    BY <1>6, <2>1, OddSymDiff
<1> DEFINE a == Odd(S)
           b == Xor(Odd(S \cap W), Odd(t.x \cap t.z))
<1>9. a \in BOOLEAN /\ b \in BOOLEAN /\ Odd(x \cap z) \in BOOLEAN
  BY DEF Xor, Odd
<1>10. Kind(a, c) /\ Kind(b, t.f)
  BY <1>4 DEF RightKind
<1>11. (~(a <=> b)) = Odd(x \cap z)
  BY <1>7, <1>8, <1>9 DEF Xor
<1> HIDE DEF a, b
<1>12. Kind(~(a <=> b), Times(c, t.f))
  BY <1>9, <1>10, KindTimes
<1>13. Kind(Odd(x \cap z), Times(c, t.f))
  BY <1>11, <1>12
<1>14. r.x = x /\ r.z = z /\ r.f = t.f
  BY <1>2 DEF Raw
<1> HIDE DEF r, x, z
<1>15. <<r.x, r.z>> \in Keys /\ RightKind(<<r.x, r.z>>, Times(c, r.f))
  BY <1>5, <1>13, <1>14 DEF Keys, RightKind
<1>16. QED
  BY <1>15 DEF r

LEMMA MapTerm ==
  ASSUME NEW s \in Hermitian, NEW g, Clifford(g), NEW key \in DOMAIN s, NEW acc \in Hermitian
  PROVE  add_weighted(acc, <<ConjugateKey(g, key).x, ConjugateKey(g, key).z>>,
                      Times(s[key].c, ConjugateKey(g, key).f), s[key].freq) \in Hermitian
<1> DEFINE im == ConjugateKey(g, key)
           to == <<im.x, im.z>>
           c == Times(s[key].c, im.f)
           freq == s[key].freq
<1>1. key \in Keys /\ s[key] \in Weights /\ RightKind(key, s[key].c)
  BY HermitianParts
<1>2. to \in Keys /\ RightKind(to, c)
  BY <1>1, ConjugatedKind
<1>3. freq \in Int
  BY <1>1 DEF Weights
<1>4. add_weighted(acc, to, c, freq) \in Hermitian
  <2> HIDE DEF to, c, freq
  <2>1. QED
    BY <1>2, <1>3, HermitianAdd
<1>5. QED
  BY <1>4

LEMMA MapStays ==
  ASSUME NEW s, IsFiniteSet(DOMAIN s), NEW g, NEW V, EmptySum \in V,
         \A key \in DOMAIN s, acc \in V :
            add_weighted(acc, <<ConjugateKey(g, key).x, ConjugateKey(g, key).z>>,
                         Times(s[key].c, ConjugateKey(g, key).f), s[key].freq) \in V
  PROVE  MapSum(s, g) \in V
<1> DEFINE D == DOMAIN s
           Into(key, acc) ==
             LET im == ConjugateKey(g, key)
             IN  add_weighted(acc, <<im.x, im.z>>, Times(s[key].c, im.f), s[key].freq)
           iter[t \in SUBSET D] ==
             IF t = {} THEN EmptySum
             ELSE Into(CHOOSE x \in t : TRUE, iter[t \ {CHOOSE x \in t : TRUE}])
<1>1. MapSum(s, g) = iter[D]
  BY DEF MapSum, OverSet, MapThenFoldSet
<1>2. ASSUME NEW key \in D, NEW acc \in V
      PROVE  Into(key, acc) \in V
  OBVIOUS
<1> HIDE DEF Into
<1>3. iter[D] \in V
  <2> DEFINE ch == [t \in SUBSET D |-> CHOOSE x \in t : TRUE]
             step == [p \in D \X V |-> Into(p[1], p[2])]
  <2>1. IsFiniteSet(D) /\ EmptySum \in V
    OBVIOUS
  <2>2. step \in [D \X V -> V]
    BY <1>2
  <2>3. \A t \in SUBSET D : t # {} => ch[t] \in t
    OBVIOUS
  <2>4. PICK f : f \in [SUBSET D -> V] /\ FoldsTo(f, EmptySum, step, ch, D)
    <3> HIDE DEF D, step, ch
    <3>1. QED
      BY <2>1, <2>2, <2>3, FoldExists DEF Folder
  <2>5. f = [t \in SUBSET D |-> IF t = {} THEN EmptySum
                                ELSE Into(CHOOSE x \in t : TRUE, f[t \ {CHOOSE x \in t : TRUE}])]
    <3>1. \A t \in SUBSET D : t # {} => /\ ch[t] = (CHOOSE x \in t : TRUE) /\ ch[t] \in D
                                        /\ f[t \ {ch[t]}] \in V
      BY <2>3, <2>4
    <3>2. \A a \in D, b \in V : step[<<a, b>>] = Into(a, b)
      OBVIOUS
    <3>3. f = [t \in SUBSET D |-> IF t = {} THEN EmptySum ELSE step[<<ch[t], f[t \ {ch[t]}]>>]]
      BY <2>4 DEF FoldsTo
    <3> HIDE DEF ch, step, D
    <3>4. \A t \in SUBSET D : t # {} => step[<<ch[t], f[t \ {ch[t]}]>>] = Into(ch[t], f[t \ {ch[t]}])
      BY <3>1, <3>2
    <3>5. \A t \in SUBSET D : f[t] = IF t = {} THEN EmptySum
                                     ELSE Into(CHOOSE x \in t : TRUE, f[t \ {CHOOSE x \in t : TRUE}])
      BY <3>1, <3>3, <3>4
    <3>6. QED
      BY <3>3, <3>5
  <2>6. iter = [t \in SUBSET D |-> IF t = {} THEN EmptySum
                                   ELSE Into(CHOOSE x \in t : TRUE, iter[t \ {CHOOSE x \in t : TRUE}])]
    BY <2>5
  <2> HIDE DEF iter, D, ch, step
  <2>7. iter[{}] \in V
    BY <2>1, <2>6
  <2>8. ASSUME NEW t \in SUBSET D, t # {}
        PROVE  \E x \in t : iter[t \ {x}] \in V => iter[t] \in V
    <3> DEFINE x == CHOOSE y \in t : TRUE
    <3>1. x \in t /\ x \in D
      BY <2>8
    <3>2. iter[t] = Into(x, iter[t \ {x}])
      BY <2>6, <2>8
    <3> HIDE DEF x
    <3>3. iter[t \ {x}] \in V => iter[t] \in V
      BY <1>2, <3>1, <3>2 DEF D
    <3>4. QED
      BY <3>1, <3>3
  <2>9. QED
    BY <2>1, <2>7, <2>8, FoldStays
<1>4. QED
  BY <1>1, <1>3

\* A Clifford map of the whole sum.
LEMMA MapHermitian ==
  ASSUME NEW s \in Hermitian, NEW g, Clifford(g)
  PROVE  MapSum(s, g) \in Hermitian
<1>1. IsFiniteSet(DOMAIN s) /\ EmptySum \in Hermitian
  BY HermitianParts, HermitianEmpty
<1>2. QED
  BY <1>1, MapTerm, MapStays

LEMMA ReadoutStays ==
  ASSUME NEW m, NEW V, NEW s \in V,
         \A q \in Qubits, acc \in V :
            [k \in DOMAIN acc |-> [acc[k] EXCEPT !.c = Times(@, IF q \in k[2] THEN Minus(One, Scale(m.p10, 2)) ELSE One)]] \in V
  PROVE  ReadoutAdjoint(m, s) \in V
<1> DEFINE D == Qubits
           u == Minus(One, Scale(m.p10, 2))
           Into(q, acc) ==
             [k \in DOMAIN acc |-> [acc[k] EXCEPT !.c = Times(@, IF q \in k[2] THEN u ELSE One)]]
           iter[t \in SUBSET D] ==
             IF t = {} THEN s
             ELSE Into(CHOOSE x \in t : TRUE, iter[t \ {CHOOSE x \in t : TRUE}])
<1>1. ReadoutAdjoint(m, s) = iter[D]
  BY DEF ReadoutAdjoint, OverSet, MapThenFoldSet, ScaleBy
<1>2. ASSUME NEW q \in D, NEW acc \in V
      PROVE  Into(q, acc) \in V
  OBVIOUS
<1> HIDE DEF Into, u
<1>5. IsFiniteSet(D)
  BY WidthAssumption, FS_Interval DEF Qubits
<1>3. iter[D] \in V
  <2> DEFINE ch == [t \in SUBSET D |-> CHOOSE x \in t : TRUE]
             step == [p \in D \X V |-> Into(p[1], p[2])]
  <2>1. IsFiniteSet(D) /\ s \in V
    BY <1>5
  <2>2. step \in [D \X V -> V]
    BY <1>2
  <2>3. \A t \in SUBSET D : t # {} => ch[t] \in t
    OBVIOUS
  <2>4. PICK f : f \in [SUBSET D -> V] /\ FoldsTo(f, s, step, ch, D)
    <3> HIDE DEF D, step, ch
    <3>1. QED
      BY <2>1, <2>2, <2>3, FoldExists DEF Folder
  <2>5. f = [t \in SUBSET D |-> IF t = {} THEN s
                                ELSE Into(CHOOSE x \in t : TRUE, f[t \ {CHOOSE x \in t : TRUE}])]
    <3>1. \A t \in SUBSET D : t # {} => /\ ch[t] = (CHOOSE x \in t : TRUE) /\ ch[t] \in D
                                        /\ f[t \ {ch[t]}] \in V
      BY <2>3, <2>4
    <3>2. \A a \in D, b \in V : step[<<a, b>>] = Into(a, b)
      OBVIOUS
    <3>3. f = [t \in SUBSET D |-> IF t = {} THEN s ELSE step[<<ch[t], f[t \ {ch[t]}]>>]]
      BY <2>4 DEF FoldsTo
    <3> HIDE DEF ch, step, D
    <3>4. \A t \in SUBSET D : t # {} => step[<<ch[t], f[t \ {ch[t]}]>>] = Into(ch[t], f[t \ {ch[t]}])
      BY <3>1, <3>2
    <3>5. \A t \in SUBSET D : f[t] = IF t = {} THEN s
                                     ELSE Into(CHOOSE x \in t : TRUE, f[t \ {CHOOSE x \in t : TRUE}])
      BY <3>1, <3>3, <3>4
    <3>6. QED
      BY <3>3, <3>5
  <2>6. iter = [t \in SUBSET D |-> IF t = {} THEN s
                                   ELSE Into(CHOOSE x \in t : TRUE, iter[t \ {CHOOSE x \in t : TRUE}])]
    BY <2>5
  <2> HIDE DEF iter, D, ch, step
  <2>7. iter[{}] \in V
    BY <2>1, <2>6
  <2>8. ASSUME NEW t \in SUBSET D, t # {}
        PROVE  \E x \in t : iter[t \ {x}] \in V => iter[t] \in V
    <3> DEFINE x == CHOOSE y \in t : TRUE
    <3>1. x \in t /\ x \in D
      BY <2>8
    <3>2. iter[t] = Into(x, iter[t \ {x}])
      BY <2>6, <2>8
    <3> HIDE DEF x
    <3>3. iter[t \ {x}] \in V => iter[t] \in V
      BY <1>2, <3>1, <3>2 DEF D
    <3>4. QED
      BY <3>1, <3>3
  <2>9. QED
    BY <2>1, <2>7, <2>8, FoldStays
<1>4. QED
  BY <1>1, <1>3

\* The readout error, on every wire.
LEMMA ReadoutHermitian ==
  ASSUME NEW s \in Hermitian, NEW m, RealNoise(m)
  PROVE  ReadoutAdjoint(m, s) \in Hermitian
<1> DEFINE u == Minus(One, Scale(m.p10, 2))
<1>1. Kind(FALSE, u)
  BY OneReal, RealOps, RealScale DEF RealNoise
<1>2. ASSUME NEW q \in Qubits, NEW acc \in Hermitian
      PROVE  [k \in DOMAIN acc |-> [acc[k] EXCEPT !.c = Times(@, IF q \in k[2] THEN u ELSE One)]] \in Hermitian
  <2> DEFINE g == [k \in DOMAIN acc |-> IF q \in k[2] THEN u ELSE One]
  <2> HIDE DEF u
  <2>1. \A k \in DOMAIN acc : Kind(FALSE, g[k]) /\ g[k] = IF q \in k[2] THEN u ELSE One
    BY <1>1, OneReal
  <2> HIDE DEF g
  <2>2. [k \in DOMAIN acc |-> [acc[k] EXCEPT !.c = Times(@, g[k])]] \in Hermitian
    BY <2>1, HermitianScaled
  <2>3. QED
    BY <2>1, <2>2
<1>3. QED
  BY <1>2, ReadoutStays

LEMMA WireHermitian ==
  ASSUME NEW s \in Hermitian, NEW m, RealNoise(m), NEW g, NEW q
  PROVE  WireNoiseAdjoint(m, g, s, q) \in Hermitian
<1>1. AmplitudeDampingAdjoint(s, q, m.gamma, m.root) \in Hermitian
  BY DampingHermitian DEF RealNoise
<1>2. Kind(FALSE, DepolarizingThird(m, g))
  BY DEF RealNoise, DepolarizingThird
<1>3. DepolarizingAdjoint(AmplitudeDampingAdjoint(s, q, m.gamma, m.root), q, DepolarizingThird(m, g)) \in Hermitian
  BY <1>1, <1>2, DepolarizingHermitian
<1>4. Kind(FALSE, m.lambda)
  BY DEF RealNoise
<1>5. PhaseDampingAdjoint(
        DepolarizingAdjoint(AmplitudeDampingAdjoint(s, q, m.gamma, m.root), q, DepolarizingThird(m, g)),
        q, m.lambda) \in Hermitian
  BY <1>3, <1>4, PhaseDampingHermitian
<1>6. QED
  BY <1>5, PauliChannelHermitian DEF WireNoiseAdjoint

LEMMA NoiseStays ==
  ASSUME NEW m, NEW V, NEW s \in V, NEW g, g.qs \in Seq(Qubits),
         \A t \in V, q \in Qubits : WireNoiseAdjoint(m, g, t, q) \in V
  PROVE  GateNoiseAdjoint(m, g, s) \in V
<1> DEFINE L == Len(g.qs)
           step == [p \in (1..L) \X V |-> WireNoiseAdjoint(m, g, p[2], g.qs[p[1]])]
           After[n \in 0..Len(g.qs)] ==
             IF n = 0 THEN s ELSE WireNoiseAdjoint(m, g, After[n - 1], g.qs[n])
<1>1. GateNoiseAdjoint(m, g, s) = IF Suffers(g) THEN After[L] ELSE s
  BY DEF GateNoiseAdjoint, Along
<1>2. L \in Nat
  OBVIOUS
<1>3. \A n \in 1..L, t \in V : WireNoiseAdjoint(m, g, t, g.qs[n]) \in V
  OBVIOUS
<1>4. \A n \in 1..L, t \in V : step[<<n, t>>] = WireNoiseAdjoint(m, g, t, g.qs[n])
  OBVIOUS
<1>5. Stepper(step, L, V)
  BY <1>3 DEF Stepper
<1> HIDE DEF step
<1>6. PICK f : Solves(f, L, V, s, step)
  BY <1>2, <1>5, Recursion
<1>7. /\ f \in [0..L -> V] /\ f[0] = s
      /\ \A n \in 1..L : f[n] = WireNoiseAdjoint(m, g, f[n - 1], g.qs[n])
  BY <1>4, <1>6 DEF Solves
<1>8. f = [n \in 0..L |-> IF n = 0 THEN s ELSE WireNoiseAdjoint(m, g, f[n - 1], g.qs[n])]
  <2>1. \A n \in 0..L : f[n] = IF n = 0 THEN s ELSE WireNoiseAdjoint(m, g, f[n - 1], g.qs[n])
    BY <1>2, <1>7
  <2>2. QED
    BY <1>7, <2>1
<1>9. After = [n \in 0..Len(g.qs) |-> IF n = 0 THEN s ELSE WireNoiseAdjoint(m, g, After[n - 1], g.qs[n])]
  BY <1>8
<1> HIDE DEF After
<1>10. After[0] = s /\ \A n \in 1..L : After[n] = WireNoiseAdjoint(m, g, After[n - 1], g.qs[n])
  <2>1. 0 \in 0..L /\ (\A n \in 1..L : n \in 0..L /\ n # 0) /\ L = Len(g.qs)
    BY <1>2
  <2> HIDE DEF L
  <2>2. \A n \in 0..L : After[n] = IF n = 0 THEN s ELSE WireNoiseAdjoint(m, g, After[n - 1], g.qs[n])
    BY <1>9, <2>1
  <2>3. After[0] = s
    BY <2>1, <2>2
  <2>4. ASSUME NEW n \in 1..L PROVE After[n] = WireNoiseAdjoint(m, g, After[n - 1], g.qs[n])
    BY <2>1, <2>2
  <2>5. QED
    BY <2>3, <2>4
<1>11. After[L] \in V
  <2>1. After[0] \in V /\ \A n \in 1..L : After[n - 1] \in V => After[n] \in V
    BY <1>3, <1>10
  <2> HIDE DEF L
  <2>2. QED
    BY <1>2, <2>1, StaysIn
<1>12. QED
  BY <1>1, <1>11

\* The channels of a gate, wire by wire.
LEMMA NoiseHermitian ==
  ASSUME NEW s \in Hermitian, NEW m, RealNoise(m), NEW g, g.qs \in Seq(Qubits)
  PROVE  GateNoiseAdjoint(m, g, s) \in Hermitian
<1>1. \A t \in Hermitian, q \in Qubits : WireNoiseAdjoint(m, g, t, q) \in Hermitian
  BY WireHermitian
<1>2. QED
  BY <1>1, NoiseStays

-----------------------------------------------------------------------------
(* The branching.                                                          *)

\* The generator of a branching.
Generator(r) == r.gx \in Basis /\ r.gz \in Basis /\ r.th \in Int

LEMMA ChildKind ==
  ASSUME NEW key \in Keys, NEW c, RightKind(key, c), NEW r, Generator(r), anticommutes_with(key, r.gx, r.gz)
  PROVE  LET rk == <<SymDiff(key[1], r.gx), SymDiff(key[2], r.gz)>>
             child == Times(Times(Times(c, ImUnit), Sin(r.th)), Factor(r.gx, r.gz))
         IN  rk \in Keys /\ RightKind(rk, Times(child, RawSign(r.gz, key[1])))
<1> DEFINE x == key[1]
           z == key[2]
           gx == r.gx
           gz == r.gz
           a == Odd(x \cap z)
           b == Odd(gx \cap gz)
           u == Odd(x \cap gz)
           v == Odd(gx \cap z)
           rk == <<SymDiff(x, gx), SymDiff(z, gz)>>
           child == Times(Times(Times(c, ImUnit), Sin(r.th)), Factor(gx, gz))
<1>1. x \in Basis /\ z \in Basis /\ gx \in Basis /\ gz \in Basis /\ r.th \in Int
  BY DEF Keys, Generator
<1>2. IsFiniteSet(x) /\ IsFiniteSet(z) /\ IsFiniteSet(gx) /\ IsFiniteSet(gz)
  BY <1>1, BasisFinite
<1>3. SymDiff(x, gx) \in Basis /\ SymDiff(z, gz) \in Basis
  BY <1>1 DEF Basis, SymDiff
<1>4. a \in BOOLEAN /\ b \in BOOLEAN /\ u \in BOOLEAN /\ v \in BOOLEAN
  BY DEF Odd
<1>5. ~(u <=> v)
  <2>1. key[2] \cap r.gx = r.gx \cap key[2]
    OBVIOUS
  <2>2. QED
    BY <1>4, <2>1 DEF anticommutes_with
<1>6. Odd(SymDiff(x, gx) \cap SymDiff(z, gz)) = Xor(Xor(a, u), Xor(v, b))
  <2> DEFINE y == SymDiff(z, gz)
  <2>1. IsFiniteSet(y)
    BY <1>3, BasisFinite
  <2>2. Odd(SymDiff(x, gx) \cap y) = Xor(Odd(x \cap y), Odd(gx \cap y))
    BY <1>2, <2>1, OddMeets
  <2>3. Odd(x \cap y) = Xor(a, u)
    <3>1. Odd(y \cap x) = Xor(Odd(z \cap x), Odd(gz \cap x))
      BY <1>2, OddMeets
    <3>2. y \cap x = x \cap y /\ z \cap x = x \cap z /\ gz \cap x = x \cap gz
      OBVIOUS
    <3>3. QED
      BY <3>1, <3>2
  <2>4. Odd(gx \cap y) = Xor(v, b)
    <3>1. Odd(y \cap gx) = Xor(Odd(z \cap gx), Odd(gz \cap gx))
      BY <1>2, OddMeets
    <3>2. y \cap gx = gx \cap y /\ z \cap gx = gx \cap z /\ gz \cap gx = gx \cap gz
      OBVIOUS
    <3>3. QED
      BY <3>1, <3>2
  <2>5. QED
    BY <2>2, <2>3, <2>4
<1>7. Kind(a, c) /\ Kind(TRUE, ImUnit) /\ Kind(FALSE, Sin(r.th)) /\ Kind(b, Factor(gx, gz))
      /\ Kind(FALSE, RawSign(gz, x))
  BY <1>1, KindUnits, KindAngle, KindFactor, KindSign DEF RightKind
<1> HIDE DEF a, b, u, v
<1>8. Kind(~(a <=> TRUE), Times(c, ImUnit))
  BY <1>4, <1>7, KindTimes
<1>9. Kind(~a, Times(Times(c, ImUnit), Sin(r.th)))
  <2>1. Kind(~a, Times(c, ImUnit)) /\ (~a) \in BOOLEAN
    BY <1>4, <1>8
  <2>2. Kind(~((~a) <=> FALSE), Times(Times(c, ImUnit), Sin(r.th)))
    BY <1>7, <2>1, KindTimes
  <2>3. QED
    BY <1>4, <2>2
<1>10. Kind(~((~a) <=> b), child)
  <2>1. (~a) \in BOOLEAN
    BY <1>4
  <2>2. QED
    BY <1>4, <1>7, <1>9, <2>1, KindTimes
<1> DEFINE d == ~((~a) <=> b)
<1>11. d \in BOOLEAN /\ Kind(d, child)
  BY <1>4, <1>10
<1> HIDE DEF child
<1>12. Odd(SymDiff(x, gx) \cap SymDiff(z, gz)) = d
  BY <1>4, <1>5, <1>6 DEF Xor
<1> HIDE DEF d
<1>13. Kind(~(d <=> FALSE), Times(child, RawSign(gz, x)))
  BY <1>7, <1>11, KindTimes
<1>14. Kind(Odd(SymDiff(x, gx) \cap SymDiff(z, gz)), Times(child, RawSign(gz, x)))
  BY <1>11, <1>12, <1>13
<1>15. rk \in Keys /\ RightKind(rk, Times(child, RawSign(gz, x)))
  BY <1>3, <1>14 DEF Keys, RightKind
<1>16. QED
  BY <1>15 DEF child

\* What one term adds to the sum under construction.
LEMMA ExpandedHermitian ==
  ASSUME sum \in Hermitian, NEW o \in Hermitian, NEW d, NEW key \in DOMAIN sum, NEW r, Generator(r)
  PROVE  Expanded([out |-> o, dropped |-> d], key, r).out \in Hermitian
<1> DEFINE w == sum[key]
           cosine == add_weighted(o, key, Times(w.c, Cos(r.th)), w.freq)
           child == Times(Times(Times(w.c, ImUnit), Sin(r.th)), Factor(r.gx, r.gz))
           signed == Times(child, RawSign(r.gz, key[1]))
           rk == <<SymDiff(key[1], r.gx), SymDiff(key[2], r.gz)>>
           e == Expanded([out |-> o, dropped |-> d], key, r)
<1>1. key \in Keys /\ w \in Weights /\ RightKind(key, w.c)
  BY HermitianParts
<1>2. w.freq \in Int /\ w.freq + 1 \in Int
  BY <1>1 DEF Weights
<1>3. RightKind(key, Times(w.c, Cos(r.th)))
  <2>1. Odd(key[1] \cap key[2]) \in BOOLEAN /\ Kind(FALSE, Cos(r.th))
    BY KindAngle DEF Odd, Generator
  <2>2. Kind(~(Odd(key[1] \cap key[2]) <=> FALSE), Times(w.c, Cos(r.th)))
    BY <1>1, <2>1, KindTimes DEF RightKind
  <2>3. QED
    BY <2>1, <2>2 DEF RightKind
<1>4. anticommutes_with(key, r.gx, r.gz) => rk \in Keys /\ RightKind(rk, signed)
  BY <1>1, ChildKind
<1>5. e.out = IF ~anticommutes_with(key, r.gx, r.gz) THEN add_weighted(o, key, w.c, w.freq)
              ELSE IF job.max_freq # None /\ w.freq + 1 > job.max_freq THEN cosine
              ELSE add_weighted(cosine, rk, signed, w.freq + 1)
  BY DEF Expanded
<1>6. add_weighted(o, key, w.c, w.freq) \in Hermitian /\ cosine \in Hermitian
  <2> HIDE DEF w
  <2>1. QED
    BY <1>1, <1>2, <1>3, HermitianAdd
<1> HIDE DEF w, cosine, rk, signed, child, e
<1>7. anticommutes_with(key, r.gx, r.gz) => add_weighted(cosine, rk, signed, w.freq + 1) \in Hermitian
  BY <1>2, <1>4, <1>6, HermitianAdd
<1>8. e.out \in Hermitian
  BY <1>5, <1>6, <1>7
<1>9. QED
  BY <1>8 DEF e

-----------------------------------------------------------------------------
(* What a gate is compiled to.                                             *)

CliffordGates == {g \in [op : OneMaps \cup TwoMaps, qs : Seq(Qubits), th : {<<>>}] : Clifford(g)}

Pieces ==
    [do : {"map"}, g : CliffordGates] \cup [do : {"nothing"}]
      \cup [do : {"branch"}, gx : Basis, gz : Basis, th : Int]

\* A gate on wires of the register, with the angles that it needs.
Placed(g) ==
    /\ {"op", "qs", "th"} \subseteq DOMAIN g
    /\ g.op \in OneQubit \cup Controlled \cup {"Swap", "Rbs", "CCX", "CSwap", "Id", "Barrier", "Measure", "Reset"}
    /\ g.qs \in Seq(Qubits)
    /\ g.op \in OneQubit \cup {"Measure"} => Len(g.qs) = 1
    /\ g.op \in Controlled \cup {"Swap", "Rbs"} => Len(g.qs) = 2
    /\ g.op \in {"CCX", "CSwap"} => Len(g.qs) = 3
    /\ g.th \in [1..Angles(g.op) -> Int]

LEMMA Joined ==
  ASSUME NEW s \in Seq(Pieces), NEW t \in Seq(Pieces)
  PROVE  s \o t \in Seq(Pieces)
OBVIOUS

LEMMA BranchPiece ==
  ASSUME NEW x \in Basis, NEW z \in Basis, NEW th \in Int
  PROVE  Branch(x, z, th) \in Seq(Pieces)
<1>1. [do |-> "branch", gx |-> x, gz |-> z, th |-> th] \in Pieces
  BY DEF Pieces
<1>2. QED
  BY <1>1 DEF Branch

LEMMA MapPiece ==
  ASSUME NEW op, NEW qs \in Seq(Qubits),
         \/ op \in OneMaps /\ Len(qs) = 1
         \/ op \in TwoMaps /\ Len(qs) = 2 /\ qs[1] # qs[2]
  PROVE  Map(op, qs) \in Seq(Pieces)
<1>1. Gate(op, qs) \in CliffordGates
  BY DEF Gate, CliffordGates, Clifford
<1>2. [do |-> "map", g |-> Gate(op, qs)] \in Pieces
  BY <1>1 DEF Pieces
<1>3. QED
  BY <1>2 DEF Map

LEMMA SevenPieces ==
  ASSUME NEW a \in Qubits, NEW b \in Qubits, NEW t \in Qubits
  PROVE  Seven(a, b, t) \in Seq(Pieces)
<1>1. /\ {} \in Basis /\ {a} \in Basis /\ {b} \in Basis /\ {t} \in Basis
      /\ {a, b} \in Basis /\ {a, t} \in Basis /\ {b, t} \in Basis /\ {a, b, t} \in Basis
  BY DEF Basis
<1>2. 1 \in Int /\ -1 \in Int
  OBVIOUS
<1> DEFINE p1 == Branch({}, {a}, -1)
           p2 == Branch({}, {b}, -1)
           p3 == Branch({}, {t}, -1)
           p4 == Branch({}, {a, b}, 1)
           p5 == Branch({}, {a, t}, 1)
           p6 == Branch({}, {b, t}, 1)
           p7 == Branch({}, {a, b, t}, -1)
<1>3. /\ p1 \in Seq(Pieces) /\ p2 \in Seq(Pieces) /\ p3 \in Seq(Pieces) /\ p4 \in Seq(Pieces)
      /\ p5 \in Seq(Pieces) /\ p6 \in Seq(Pieces) /\ p7 \in Seq(Pieces)
  BY <1>1, <1>2, BranchPiece
<1>4. Seven(a, b, t) = p1 \o p2 \o p3 \o p4 \o p5 \o p6 \o p7
  BY DEF Seven
<1> HIDE DEF p1, p2, p3, p4, p5, p6, p7
<1>5. QED
  BY <1>3, <1>4, Joined

LEMMA TwoElements ==
  ASSUME NEW a, NEW b
  PROVE  Cardinality({a, b}) \in {1, 2}
<1>1. IsFiniteSet({a}) /\ Cardinality({a}) = 1
  BY FS_Singleton
<1>2. CASE a = b
  <2>1. {a, b} = {a}
    BY <1>2
  <2>2. QED
    BY <1>1, <2>1
<1>3. CASE a # b
  <2> DEFINE S == {a}
  <2>1. {a, b} = S \cup {b} /\ b \notin S
    BY <1>3
  <2> HIDE DEF S
  <2>2. Cardinality(S \cup {b}) = Cardinality(S) + 1 /\ Cardinality(S) = 1
    BY <1>1, <2>1, FS_AddElement DEF S
  <2>3. QED
    BY <2>1, <2>2
<1>4. QED
  BY <1>2, <1>3

\* Wires named twice are not dispatched.
LEMMA DifferentWires ==
  ASSUME NEW g, Placed(g), Dispatched(g)
  PROVE  /\ Len(g.qs) = 2 => g.qs[1] # g.qs[2]
         /\ Len(g.qs) = 3 => g.qs[1] # g.qs[2] /\ g.qs[1] # g.qs[3] /\ g.qs[2] # g.qs[3]
<1>1. g.qs \in Seq(Qubits) /\ Cardinality(Range(g.qs)) = Len(g.qs)
  BY DEF Placed, Dispatched
<1>4. ASSUME Len(g.qs) = 2, g.qs[1] = g.qs[2] PROVE FALSE
  <2>1. Range(g.qs) = {g.qs[1]}
    BY <1>1, <1>4 DEF Range
  <2>2. Cardinality({g.qs[1]}) = 1
    BY FS_Singleton
  <2>3. Cardinality(Range(g.qs)) = 1
    BY <2>1, <2>2
  <2>4. QED
    BY <1>1, <1>4, <2>3
<1>5. ASSUME Len(g.qs) = 3, NEW a, NEW b, Range(g.qs) = {a, b} PROVE FALSE
  <2>1. Cardinality({a, b}) \in {1, 2}
    BY TwoElements
  <2>2. QED
    BY <1>1, <1>5, <2>1
<1>6. ASSUME Len(g.qs) = 3
      PROVE  g.qs[1] # g.qs[2] /\ g.qs[1] # g.qs[3] /\ g.qs[2] # g.qs[3]
  <2>1. Range(g.qs) = {g.qs[1], g.qs[2], g.qs[3]}
    BY <1>1, <1>6 DEF Range
  <2>2. g.qs[1] = g.qs[2] \/ g.qs[1] = g.qs[3] => Range(g.qs) = {g.qs[2], g.qs[3]}
    BY <2>1
  <2>3. g.qs[2] = g.qs[3] => Range(g.qs) = {g.qs[1], g.qs[2]}
    BY <2>1
  <2>4. QED
    BY <1>5, <1>6, <2>2, <2>3
<1>7. QED
  BY <1>4, <1>6

LEMMA ProgramPieces ==
  ASSUME NEW g, Placed(g), Dispatched(g)
  PROVE  Program(g) \in Seq(Pieces)
<1> DEFINE q == g.qs[1]
           r == g.qs[Len(g.qs)]
           op == g.op
<1>1. /\ g.qs \in Seq(Qubits)
      /\ op \in OneQubit \cup Controlled \cup {"Swap", "Rbs", "CCX", "CSwap", "Id", "Barrier", "Measure"}
      /\ op \in OneQubit => Len(g.qs) = 1
      /\ op \in Controlled \cup {"Swap", "Rbs"} => Len(g.qs) = 2
      /\ op \in {"CCX", "CSwap"} => Len(g.qs) = 3
      /\ g.th \in [1..Angles(op) -> Int]
  BY DEF Placed, Dispatched
<1>2. /\ Len(g.qs) = 2 => g.qs[1] # g.qs[2]
      /\ Len(g.qs) = 3 => g.qs[1] # g.qs[2] /\ g.qs[1] # g.qs[3] /\ g.qs[2] # g.qs[3]
  BY DifferentWires
<1>3. {} \in Basis /\ \A a, b \in Qubits : {a} \in Basis /\ {a, b} \in Basis
  BY DEF Basis
<1>4. \A x, z \in Basis, th \in Int : Branch(x, z, th) \in Seq(Pieces)
  BY BranchPiece
<1>5. \A m \in Int : m \div 2 \in Int /\ -m \in Int /\ -(m \div 2) \in Int
  OBVIOUS
<1>6. CASE op \in OneMaps \cup TwoMaps
  <2>1. Program(g) = Map(op, g.qs)
    BY <1>6 DEF Program, OneMaps, TwoMaps
  <2>2. \/ op \in OneMaps /\ Len(g.qs) = 1
        \/ op \in TwoMaps /\ Len(g.qs) = 2 /\ g.qs[1] # g.qs[2]
    BY <1>1, <1>2, <1>6 DEF OneMaps, TwoMaps, OneQubit, Controlled
  <2>3. QED
    BY <1>1, <2>1, <2>2, MapPiece
<1>7. CASE op \in {"Rz", "U1", "Rx", "Ry", "T", "Tdg"}
  <2>1. q \in Qubits
    BY <1>1, <1>7 DEF OneQubit
  <2>2. op \in {"Rz", "U1", "Rx", "Ry"} => g.th[1] \in Int
    BY <1>1 DEF Angles
  <2>3. /\ op \in {"Rz", "U1"} => Program(g) = Branch({}, {q}, g.th[1])
        /\ op = "Rx" => Program(g) = Branch({q}, {}, g.th[1])
        /\ op = "Ry" => Program(g) = Branch({q}, {q}, g.th[1])
        /\ op = "T" => Program(g) = Branch({}, {q}, 1)
        /\ op = "Tdg" => Program(g) = Branch({}, {q}, -1)
    BY DEF Program
  <2>4. {q} \in Basis /\ 1 \in Int /\ -1 \in Int
    BY <1>3, <2>1
  <2> HIDE DEF q
  <2>5. QED
    BY <1>3, <1>4, <1>7, <2>2, <2>3, <2>4
<1>8. CASE op = "CRz"
  <2>1. q \in Qubits /\ r \in Qubits /\ g.th[1] \in Int
    BY <1>1, <1>8 DEF Controlled, Angles
  <2> DEFINE a == Branch({}, {r}, g.th[1] \div 2)
             b == Branch({}, {q, r}, -(g.th[1] \div 2))
  <2>2. Program(g) = a \o b
    BY <1>8 DEF Program
  <2>3. a \in Seq(Pieces) /\ b \in Seq(Pieces)
    <3> HIDE DEF q, r
    <3>1. {r} \in Basis /\ {q, r} \in Basis /\ g.th[1] \div 2 \in Int /\ -(g.th[1] \div 2) \in Int
      BY <1>3, <1>5, <2>1
    <3>2. QED
      BY <1>3, <1>4, <3>1
  <2> HIDE DEF a, b
  <2>4. QED
    BY <2>2, <2>3, Joined
<1>9. CASE op = "CU3"
  <2>1. q \in Qubits /\ r \in Qubits /\ g.th[3] \in Int
    BY <1>1, <1>9 DEF Controlled, Angles
  <2> DEFINE a == Branch({}, {q}, g.th[3] \div 2)
             b == Branch({}, {r}, g.th[3] \div 2)
             c == Branch({}, {q, r}, -(g.th[3] \div 2))
  <2>2. Program(g) = a \o b \o c
    BY <1>9 DEF Program
  <2>3. a \in Seq(Pieces) /\ b \in Seq(Pieces) /\ c \in Seq(Pieces)
    <3> HIDE DEF q, r
    <3>1. /\ {q} \in Basis /\ {r} \in Basis /\ {q, r} \in Basis
          /\ g.th[3] \div 2 \in Int /\ -(g.th[3] \div 2) \in Int
      BY <1>3, <1>5, <2>1
    <3>2. QED
      BY <1>3, <1>4, <3>1
  <2> HIDE DEF a, b, c
  <2>4. QED
    BY <2>2, <2>3, Joined
<1>10. ASSUME NEW x \in Int, NEW y \in Int, NEW z \in Int, q \in Qubits
       PROVE  Euler(q, x, y, z) \in Seq(Pieces)
  <2> DEFINE a == Branch({}, {q}, y)
             b == Branch({q}, {q}, x)
             c == Branch({}, {q}, z)
  <2>1. Euler(q, x, y, z) = a \o b \o c
    BY DEF Euler
  <2>2. a \in Seq(Pieces) /\ b \in Seq(Pieces) /\ c \in Seq(Pieces)
    <3> HIDE DEF q
    <3>1. {q} \in Basis
      BY <1>3, <1>10
    <3>2. QED
      BY <1>3, <1>4, <3>1
  <2> HIDE DEF a, b, c
  <2>3. QED
    BY <2>1, <2>2, Joined
<1>11. CASE op \in {"U2", "U3"}
  <2>1. q \in Qubits /\ g.th[1] \in Int /\ g.th[2] \in Int /\ (op = "U3" => g.th[3] \in Int) /\ 2 \in Int
    BY <1>1, <1>11 DEF OneQubit, Angles
  <2>2. /\ op = "U3" => Program(g) = Euler(q, g.th[1], g.th[2], g.th[3])
        /\ op = "U2" => Program(g) = Euler(q, 2, g.th[1], g.th[2])
    BY DEF Program
  <2> HIDE DEF q
  <2>3. QED
    BY <1>10, <1>11, <2>1, <2>2
<1>12. CASE op = "Rbs"
  <2>1. q \in Qubits /\ r \in Qubits /\ g.th[1] \in Int
    BY <1>1, <1>12 DEF Angles
  <2> DEFINE a == Branch({q, r}, {q}, g.th[1])
             b == Branch({q, r}, {r}, -g.th[1])
  <2>2. Program(g) = a \o b
    BY <1>12 DEF Program
  <2>3. a \in Seq(Pieces) /\ b \in Seq(Pieces)
    <3> HIDE DEF q, r
    <3>1. {q} \in Basis /\ {r} \in Basis /\ {q, r} \in Basis /\ -g.th[1] \in Int
      BY <1>3, <1>5, <2>1
    <3>2. QED
      BY <1>4, <2>1, <3>1
  <2> HIDE DEF a, b
  <2>4. QED
    BY <2>2, <2>3, Joined
<1>13. CASE op \in {"CCX", "CSwap"}
  <2> DEFINE a == g.qs[2]
             h == Map("H", <<r>>)
             x == Map("CX", <<r, a>>)
             s == Seven(q, a, r)
  <2>1. q \in Qubits /\ a \in Qubits /\ r \in Qubits /\ r # a
    BY <1>1, <1>2, <1>13
  <2>2. Program(g) = IF op = "CCX" THEN h \o s \o h ELSE x \o h \o s \o h \o x
    BY <1>13 DEF Program
  <2>3. h \in Seq(Pieces) /\ x \in Seq(Pieces) /\ s \in Seq(Pieces)
    <3> HIDE DEF q, a, r
    <3>1. <<r>> \in Seq(Qubits) /\ Len(<<r>>) = 1
      BY <2>1
    <3>2. <<r, a>> \in Seq(Qubits) /\ Len(<<r, a>>) = 2 /\ <<r, a>>[1] # <<r, a>>[2]
      BY <2>1
    <3>3. h \in Seq(Pieces)
      BY <3>1, MapPiece DEF OneMaps
    <3>4. x \in Seq(Pieces)
      BY <3>2, MapPiece DEF TwoMaps
    <3>5. QED
      BY <2>1, <3>3, <3>4, SevenPieces
  <2> HIDE DEF h, x, s
  <2>4. QED
    BY <2>2, <2>3, Joined
<1>14. CASE op \in {"Id", "Barrier", "Measure"}
  <2>1. Program(g) = <<>>
    BY <1>14 DEF Program
  <2>2. QED
    BY <2>1
<1>15. QED
  BY <1>1, <1>6, <1>7, <1>8, <1>9, <1>11, <1>12, <1>13, <1>14 DEF OneQubit, Controlled, OneMaps, TwoMaps

-----------------------------------------------------------------------------
(* The jobs, and the circuit on its way through the passes.                *)

PlacedOps(c) == IsCircuit(c) /\ \A n \in 1..Len(c) : Placed(c[n])
RealObs(o) == DOMAIN o \subseteq Keys /\ \A k \in DOMAIN o : Kind(FALSE, o[k])

\* Gates on wires of the register, an observable with real weights on its
\* Pauli strings, real rates of noise.
Physical(j) ==
    /\ PlacedOps(j.ops) /\ RealObs(j.obs)
    /\ j.noise = NoNoise \/ RealNoise(j.noise)

PhysicalJobs == \A j \in Jobs : Physical(j)

\* The circuit on its way to the engine.
PlacedInv ==
    /\ PlacedOps(circuit) /\ PlacedOps(deferred)
    /\ \A c \in DOMAIN written_by : written_by[c] \in Qubits
    /\ i \in Nat \ {0}

LEMMA PlacedFrom ==
  ASSUME NEW U, \A x \in U : Placed(x), NEW s \in Seq(U)
  PROVE  PlacedOps(s)
BY OwnRange DEF PlacedOps

LEMMA PlacedRange ==
  ASSUME NEW c, PlacedOps(c)
  PROVE  c \in Seq(Range(c)) /\ \A x \in Range(c) : Placed(x)
BY DEF PlacedOps, IsCircuit, Range

LEMMA PlacedPair ==
  ASSUME PlacedInv, Pair
  PROVE  /\ i \in 1..(Len(circuit) - 1) /\ Len(circuit) \in Nat
         /\ Placed(circuit[i]) /\ Placed(circuit[i + 1])
<1>1. PlacedOps(circuit) /\ i \in Nat \ {0} /\ i < Len(circuit)
  BY DEF PlacedInv, Pair
<1>2. Len(circuit) \in Nat
  BY <1>1 DEF PlacedOps, IsCircuit
<1>3. i \in 1..(Len(circuit) - 1) /\ i \in 1..Len(circuit) /\ i + 1 \in 1..Len(circuit)
  BY <1>1, <1>2
<1>4. QED
  BY <1>1, <1>2, <1>3 DEF PlacedOps

\* A pair is taken out, replaced by one gate, or exchanged.
LEMMA PlacedCut ==
  ASSUME NEW c, PlacedOps(c), NEW n \in 1..(Len(c) - 1)
  PROVE  /\ PlacedOps(Without(c, n))
         /\ \A x : Placed(x) => PlacedOps(SubSeq(c, 1, n - 1) \o <<x>> \o SubSeq(c, n + 2, Len(c)))
         /\ PlacedOps([c EXCEPT ![n] = c[n + 1], ![n + 1] = c[n]])
<1> DEFINE U == Range(c)
<1>1. c \in Seq(U) /\ \A x \in U : Placed(x)
  BY PlacedRange
<1>2. c \in Seq(Range(c))
  BY <1>1
<1> HIDE DEF U
<1>3. PlacedOps(Without(c, n))
  <2>1. Without(c, n) \in Seq(U)
    BY <1>1 DEF Without
  <2>2. QED
    BY <1>1, <2>1, PlacedFrom
<1>4. ASSUME NEW x, Placed(x)
      PROVE  PlacedOps(SubSeq(c, 1, n - 1) \o <<x>> \o SubSeq(c, n + 2, Len(c)))
  <2> DEFINE T == U \cup {x}
             s == SubSeq(c, 1, n - 1) \o <<x>> \o SubSeq(c, n + 2, Len(c))
  <2>1. c \in Seq(T) /\ x \in T /\ \A y \in T : Placed(y)
    BY <1>1, <1>4
  <2> HIDE DEF T
  <2>2. s \in Seq(T)
    BY <2>1
  <2> HIDE DEF s
  <2>3. PlacedOps(s)
    BY <2>1, <2>2, PlacedFrom
  <2>4. QED
    BY <2>3 DEF s
<1>5. PlacedOps([c EXCEPT ![n] = c[n + 1], ![n + 1] = c[n]])
  <2>1. [c EXCEPT ![n] = c[n + 1], ![n + 1] = c[n]] \in Seq(U)
    BY <1>1
  <2>2. QED
    BY <1>1, <2>1, PlacedFrom
<1>6. QED
  BY <1>3, <1>4, <1>5

LEMMA PlacedMerged ==
  ASSUME NEW a, NEW b, Placed(a), Placed(b), Mergeable(a, b)
  PROVE  Placed([a EXCEPT !.th[1] = @ + b.th[1]])
<1> DEFINE x == [a EXCEPT !.th[1] = @ + b.th[1]]
<1>1. /\ a.op \in Rotations1 /\ b.op = a.op /\ Angles(a.op) = 1
      /\ a.th \in [1..1 -> Int] /\ b.th \in [1..1 -> Int]
  BY DEF Mergeable, Placed, Angles, Rotations1
<1>2. /\ DOMAIN x = DOMAIN a /\ x.op = a.op /\ x.qs = a.qs
      /\ x.th = [a.th EXCEPT ![1] = @ + b.th[1]]
  BY DEF Placed
<1>3. x.th \in [1..1 -> Int]
  BY <1>1, <1>2
<1> HIDE DEF x
<1>4. Placed(x)
  BY <1>1, <1>2, <1>3 DEF Placed
<1>5. QED
  BY <1>4 DEF x

LEMMA PlacedAppend ==
  ASSUME NEW c, PlacedOps(c), NEW x, Placed(x)
  PROVE  PlacedOps(Append(c, x))
<1> DEFINE T == Range(c) \cup {x}
<1>1. c \in Seq(Range(c)) /\ \A y \in Range(c) : Placed(y)
  BY PlacedRange
<1>2. c \in Seq(T) /\ x \in T /\ \A y \in T : Placed(y)
  BY <1>1
<1> HIDE DEF T
<1>3. Append(c, x) \in Seq(T)
  BY <1>2
<1>4. QED
  BY <1>2, <1>3, PlacedFrom

LEMMA PlacedOptimizing ==
  ASSUME PlacedInv, Optimizing
  PROVE  PlacedInv'
<1>1. PlacedOps(circuit) /\ i \in Nat \ {0} /\ 1 \in Nat \ {0} /\ i + 1 \in Nat \ {0} /\ StepBack(i) \in Nat \ {0}
  BY DEF PlacedInv, StepBack
<1>2. UNCHANGED <<deferred, written_by, measured>>
  BY DEF Optimizing, Retain, Cancel, Merge, Commute, NextSweep, ScanEnd, Test, Scan, NextStage, Walking
<1>3. PlacedOps(circuit') /\ i' \in Nat \ {0}
  <2>1. CASE Retain
    <3>1. circuit' = Retained(circuit) /\ i' = 1
      BY <2>1 DEF Retain, NextStage
    <3>2. circuit \in Seq(Range(circuit)) /\ \A x \in Range(circuit) : Placed(x)
      BY <1>1, PlacedRange
    <3>3. Retained(circuit) \in Seq(Range(circuit))
      BY <3>2, RetainedKeeps
    <3>4. QED
      BY <1>1, <3>1, <3>2, <3>3, PlacedFrom
  <2>2. CASE Cancel
    <3>1. i \in 1..(Len(circuit) - 1)
      BY <2>2, PlacedPair DEF Cancel
    <3>2. PlacedOps(Without(circuit, i))
      BY <1>1, <3>1, PlacedCut
    <3>3. QED
      BY <1>1, <2>2, <3>2 DEF Cancel, Scan
  <2>3. CASE Merge
    <3> DEFINE a == circuit[i]
               b == circuit[i + 1]
               x == [a EXCEPT !.th[1] = @ + b.th[1]]
               s == SubSeq(circuit, 1, i - 1) \o <<x>> \o SubSeq(circuit, i + 2, Len(circuit))
    <3>1. i \in 1..(Len(circuit) - 1) /\ Placed(a) /\ Placed(b)
      BY <2>3, PlacedPair DEF Merge
    <3>2. Mergeable(a, b) => Placed(x)
      BY <3>1, PlacedMerged
    <3>3. /\ circuit' = circuit \/ circuit' = Without(circuit, i) \/ (Mergeable(a, b) /\ circuit' = s)
          /\ i' \in {i, i + 1, StepBack(i)}
      BY <2>3 DEF Merge, Scan
    <3> HIDE DEF a, b, x
    <3>4. PlacedOps(Without(circuit, i)) /\ (Placed(x) => PlacedOps(s))
      BY <1>1, <3>1, PlacedCut
    <3> HIDE DEF s
    <3>5. QED
      BY <1>1, <3>2, <3>3, <3>4
  <2>4. CASE Commute
    <3>1. i \in 1..(Len(circuit) - 1)
      BY <2>4, PlacedPair DEF Commute
    <3>2. PlacedOps([circuit EXCEPT ![i] = circuit[i + 1], ![i + 1] = circuit[i]])
      BY <1>1, <3>1, PlacedCut
    <3>3. QED
      BY <1>1, <2>4, <3>2 DEF Commute, Scan
  <2>5. CASE NextSweep \/ ScanEnd \/ Test
    BY <1>1, <2>5 DEF NextSweep, ScanEnd, Test, Scan, NextStage
  <2>6. QED
    BY <2>1, <2>2, <2>3, <2>4, <2>5 DEF Optimizing
<1>4. QED
  BY <1>2, <1>3 DEF PlacedInv

\* A classical control becomes a quantum one on the wire that was measured.
LEMMA PlacedControl ==
  ASSUME NEW g, Placed(g), g.op \in DOMAIN Controlled1, NEW control \in Qubits
  PROVE  Placed(Gate(Controlled1[g.op], <<control>> \o g.qs))
<1> DEFINE h == Gate(Controlled1[g.op], <<control>> \o g.qs)
<1>1. g.op \in {"X", "Y", "Z"} /\ Controlled1[g.op] \in {"CX", "CY", "CZ"}
  BY DEF Controlled1
<1>2. g.qs \in Seq(Qubits) /\ Len(g.qs) = 1
  BY <1>1 DEF Placed, OneQubit
<1>3. h.op = Controlled1[g.op] /\ h.qs = <<control>> \o g.qs /\ h.th = <<>> /\ DOMAIN h = {"op", "qs", "th"}
  BY DEF Gate
<1>4. h.qs \in Seq(Qubits) /\ Len(h.qs) = 2
  <2>1. <<control>> \in Seq(Qubits) /\ Len(<<control>>) = 1
    OBVIOUS
  <2> DEFINE s == <<control>>
             t == g.qs
  <2>2. s \in Seq(Qubits) /\ t \in Seq(Qubits) /\ Len(s) = 1 /\ Len(t) = 1
    BY <1>2, <2>1
  <2> HIDE DEF s, t
  <2>3. s \o t \in Seq(Qubits) /\ Len(s \o t) = Len(s) + Len(t)
    BY <2>2, Joint
  <2>4. Len(s \o t) = 2
    BY <2>2, <2>3
  <2>5. QED
    BY <1>3, <2>3, <2>4 DEF s, t
<1>5. Angles(h.op) = 0 /\ h.th \in [1..0 -> Int]
  <2>1. Angles(h.op) = 0
    BY <1>1, <1>3 DEF Angles
  <2>2. <<>> \in [1..0 -> Int]
    OBVIOUS
  <2>3. QED
    BY <1>3, <2>1, <2>2
<1> HIDE DEF h
<1>6. Placed(h)
  BY <1>1, <1>3, <1>4, <1>5 DEF Placed, Controlled, OneQubit
<1>7. QED
  BY <1>6 DEF h

LEMMA PlacedPreparing ==
  ASSUME PlacedInv, Preparing
  PROVE  PlacedInv'
<1>1. CASE Prepare
  BY <1>1 DEF Prepare, PlacedInv, Walking
<1>2. CASE WalkEnd
  BY <1>2 DEF WalkEnd, PlacedInv, Walking
<1>3. CASE WalkOp
  <2> DEFINE g == circuit[i]
             control == written_by[g.cond[1]]
             h == Gate(Controlled1[g.op], <<control>> \o g.qs)
  <2>1. PlacedOps(circuit) /\ PlacedOps(deferred) /\ i \in Nat \ {0} /\ i + 1 \in Nat \ {0} /\ i <= Len(circuit)
    BY <1>3 DEF WalkOp, PlacedInv
  <2>2. Placed(g)
    <3>1. Len(circuit) \in Nat
      BY <2>1 DEF PlacedOps, IsCircuit
    <3>2. i \in 1..Len(circuit)
      BY <2>1, <3>1
    <3>3. QED
      BY <2>1, <3>2 DEF PlacedOps
  <2>3. circuit' = circuit
    BY <1>3 DEF WalkOp
  <2>4. CASE IsMeasure(g)
    <3>1. /\ written_by' = [c \in DOMAIN written_by \cup {g.cbit} |-> IF c = g.cbit THEN g.qs[1] ELSE written_by[c]]
          /\ i' = i + 1 /\ deferred' = deferred
      BY <1>3, <2>4 DEF WalkOp
    <3>2. g.qs[1] \in Qubits
      BY <2>2, <2>4 DEF IsMeasure, Placed
    <3>3. \A c \in DOMAIN written_by' : written_by'[c] \in Qubits
      BY <3>1, <3>2 DEF PlacedInv
    <3>4. QED
      BY <2>1, <2>3, <3>1, <3>3 DEF PlacedInv
  <2>5. CASE ~IsMeasure(g) /\ ~Conditioned(g)
    <3>1. deferred' = Append(deferred, g) /\ i' = i + 1 /\ written_by' = written_by
      BY <1>3, <2>5 DEF WalkOp
    <3>2. PlacedOps(Append(deferred, g))
      BY <2>1, <2>2, PlacedAppend
    <3>3. QED
      BY <2>1, <2>3, <3>1, <3>2 DEF PlacedInv
  <2>6. CASE ~IsMeasure(g) /\ Conditioned(g)
    <3>1. \/ UNCHANGED <<i, deferred, written_by>>
          \/ /\ g.cond[1] \in DOMAIN written_by /\ g.op \in DOMAIN Controlled1
             /\ deferred' = Append(deferred, h) /\ i' = i + 1 /\ written_by' = written_by
      BY <1>3, <2>6 DEF WalkOp, Refusal
    <3>2. ASSUME g.cond[1] \in DOMAIN written_by, g.op \in DOMAIN Controlled1
          PROVE  PlacedOps(Append(deferred, h))
      <4>1. control \in Qubits
        BY <3>2 DEF PlacedInv
      <4>2. Placed(h)
        <5> HIDE DEF g, control
        <5>1. QED
          BY <2>2, <3>2, <4>1, PlacedControl
      <4> HIDE DEF h
      <4>3. QED
        BY <2>1, <4>2, PlacedAppend
    <3> HIDE DEF h
    <3>3. QED
      BY <2>1, <2>3, <3>1, <3>2 DEF PlacedInv
  <2>7. QED
    BY <2>4, <2>5, <2>6
<1>4. QED
  BY <1>1, <1>2, <1>3 DEF Preparing

-----------------------------------------------------------------------------
(* The sum stays Hermitian.                                                *)

JobInv == Physical(job) /\ {"ops", "obs", "noise"} \subseteq DOMAIN job

SumInv ==
    /\ sum \in Hermitian /\ out \in Hermitian
    /\ program \in Seq(Pieces)
    /\ undrained \subseteq DOMAIN sum
    /\ undrained # {} => program # <<>> /\ Head(program).do = "branch"
    /\ phase = "forward" => program = <<>>
    /\ at \in 0..Len(job.ops)
    /\ pass # "handed" => at = 0

HermitianInv == PlacedInv /\ JobInv /\ SumInv

LEMMA HermitianInit ==
  ASSUME PhysicalJobs, ExpectationInit
  PROVE  HermitianInv
<1>1. /\ job \in Jobs /\ circuit = job.ops /\ deferred = <<>> /\ written_by = <<>> /\ i = 1
      /\ sum = EmptySum /\ out = EmptySum /\ program = <<>> /\ undrained = {} /\ at = 0
  BY DEF ExpectationInit, Init, PassInit
<1>2. Physical(job) /\ {"ops", "obs", "noise"} \subseteq DOMAIN job
  BY <1>1, JobsAssumption DEF PhysicalJobs
<1>3. PlacedOps(<<>>)
  <2>1. <<>> \in Seq({})
    OBVIOUS
  <2>2. QED
    BY <2>1, PlacedFrom
<1>4. PlacedInv
  <2>1. \A c \in DOMAIN written_by : written_by[c] \in Qubits
    BY <1>1
  <2>2. QED
    BY <1>1, <1>2, <1>3, <2>1 DEF PlacedInv, Physical
<1>5. at \in 0..Len(job.ops)
  BY <1>1, <1>2 DEF Physical, PlacedOps, IsCircuit
<1>6. program \in Seq(Pieces)
  BY <1>1
<1>7. SumInv
  BY <1>1, <1>5, <1>6, HermitianEmpty DEF SumInv
<1>8. QED
  BY <1>2, <1>4, <1>7 DEF HermitianInv, JobInv

\* The observable that is handed over has fewer strings.
LEMMA HermitianHandover ==
  ASSUME HermitianInv, Handover
  PROVE  HermitianInv'
<1>1. /\ pass # "handed" /\ circuit' = circuit /\ deferred' = deferred /\ written_by' = written_by /\ i' = i
      /\ job' = [job EXCEPT !.ops = circuit, !.obs = dephase(@, measured)]
      /\ UNCHANGED <<phase, program, sum, undrained, out, at>>
  BY DEF Handover
<1>2. /\ DOMAIN job' = DOMAIN job /\ job'.ops = circuit /\ job'.obs = dephase(job.obs, measured)
      /\ job'.noise = job.noise
  BY <1>1 DEF HermitianInv, JobInv
<1>3. RealObs(dephase(job.obs, measured))
  <2> DEFINE o == job.obs
             T == {k \in DOMAIN o : k[1] \cap measured = {}}
  <2>1. dephase(o, measured) = [k \in T |-> o[k]]
    BY DEF dephase
  <2>2. T \subseteq Keys /\ \A k \in T : Kind(FALSE, o[k])
    BY DEF HermitianInv, JobInv, Physical, RealObs
  <2> HIDE DEF o, T
  <2>3. RealObs(dephase(o, measured))
    BY <2>1, <2>2 DEF RealObs
  <2>4. QED
    BY <2>3 DEF o
<1>4. Physical(job')
  BY <1>2, <1>3 DEF HermitianInv, JobInv, PlacedInv, Physical
<1>5. at' \in 0..Len(job'.ops) /\ at' = 0
  <2>1. at = 0 /\ Len(circuit) \in Nat
    BY <1>1 DEF HermitianInv, SumInv, PlacedInv, PlacedOps, IsCircuit
  <2>2. QED
    BY <1>1, <1>2, <2>1
<1>6. JobInv'
  BY <1>2, <1>4 DEF JobInv, Physical, HermitianInv
<1>7. PlacedInv'
  BY <1>1 DEF PlacedInv, HermitianInv
<1>8. SumInv'
  BY <1>1, <1>5 DEF SumInv, HermitianInv
<1>9. QED
  BY <1>6, <1>7, <1>8 DEF HermitianInv

-----------------------------------------------------------------------------
(* The engine, step by step.                                               *)

LEMMA RawHermitian ==
  ASSUME NEW o, RealObs(o)
  PROVE  [k \in DOMAIN o |-> [c |-> Times(o[k], Factor(k[1], k[2])), freq |-> 0]] \in Hermitian
<1> DEFINE raw == [k \in DOMAIN o |-> [c |-> Times(o[k], Factor(k[1], k[2])), freq |-> 0]]
           D == DOMAIN o
<1>1. ASSUME NEW k \in D
      PROVE  raw[k] \in Weights /\ RightKind(k, raw[k].c)
  <2> DEFINE c == Times(o[k], Factor(k[1], k[2]))
             b == Odd(k[1] \cap k[2])
  <2>1. k[1] \in Basis /\ k[2] \in Basis /\ Kind(FALSE, o[k])
    BY DEF Keys, RealObs
  <2>2. b \in BOOLEAN /\ Kind(b, Factor(k[1], k[2]))
    BY <2>1, KindFactor DEF Odd
  <2> HIDE DEF b
  <2>3. Kind(~(FALSE <=> b), c)
    BY <2>1, <2>2, KindTimes
  <2>4. Kind(b, c)
    BY <2>2, <2>3
  <2>5. raw[k] = [c |-> c, freq |-> 0] /\ 0 \in Int
    OBVIOUS
  <2> HIDE DEF c, raw
  <2>6. c \in Amps
    BY <2>4 DEF Kind
  <2>7. QED
    BY <2>4, <2>5, <2>6 DEF Weights, RightKind, b
<1>2. D \in SUBSET Keys /\ raw \in [D -> Weights] /\ \A k \in D : RightKind(k, raw[k].c)
  BY <1>1 DEF RealObs
<1> HIDE DEF D
<1>3. raw \in Hermitian
  <2> HIDE DEF raw
  <2>1. QED
    BY <1>2, HermitianMake
<1>4. QED
  BY <1>3

LEMMA SeedHermitian ==
  ASSUME JobInv, SumInv, Seed
  PROVE  sum' \in Hermitian
<1> DEFINE o == job.obs
           raw == [k \in DOMAIN o |-> [c |-> Times(o[k], Factor(k[1], k[2])), freq |-> 0]]
<1>1. sum' = sum \/ sum' = IF Noisy THEN ReadoutAdjoint(job.noise, raw) ELSE raw
  BY DEF Seed, Refuse
<1>2. RealObs(o)
  BY DEF JobInv, Physical
<1> HIDE DEF o
<1>3. raw \in Hermitian
  BY <1>2, RawHermitian
<1> HIDE DEF raw
<1>4. Noisy => ReadoutAdjoint(job.noise, raw) \in Hermitian
  <2>1. Noisy => RealNoise(job.noise)
    BY DEF Noisy, JobInv, Physical
  <2>2. QED
    BY <1>3, <2>1, ReadoutHermitian
<1>5. QED
  BY <1>1, <1>3, <1>4 DEF SumInv

\* What a gate is compiled to, or three folded into one rotation.
LEMMA StartHermitian ==
  ASSUME JobInv, SumInv, Start
  PROVE  /\ sum' \in Hermitian /\ program' \in Seq(Pieces) /\ at' \in 0..Len(job.ops)
         /\ UNCHANGED <<job, out, undrained>> /\ undrained = {} /\ phase' # "forward"
<1> DEFINE g == job.ops[at]
           noised == IF Noisy THEN GateNoiseAdjoint(job.noise, g, sum) ELSE sum
<1>1. phase = "back" /\ program = <<>> /\ at > 0 /\ at \in 0..Len(job.ops) /\ undrained = {}
  BY DEF Start, Idle, SumInv
<1>2. job.ops \in Seq(Range(job.ops)) /\ Len(job.ops) \in Nat /\ \A n \in 1..Len(job.ops) : Placed(job.ops[n])
  BY DEF JobInv, Physical, PlacedOps, IsCircuit
<1>3. Placed(g)
  BY <1>1, <1>2
<1>4. noised \in Hermitian
  <2>1. Noisy => RealNoise(job.noise)
    BY DEF Noisy, JobInv, Physical
  <2>2. sum \in Hermitian /\ g.qs \in Seq(Qubits)
    BY <1>3 DEF SumInv, Placed
  <2> HIDE DEF g
  <2>3. QED
    BY <2>1, <2>2, NoiseHermitian
<1>5. CASE Folds(at)
  <2>1. /\ program' = Branch({}, Range(g.qs), job.ops[at - 1].th[1]) /\ at' = at - 3
        /\ UNCHANGED <<job, phase, sum, undrained, out>>
    BY <1>5 DEF Start
  <2>2. at >= 3 /\ job.ops[at - 1].op = "Rz"
    BY <1>5 DEF Folds, ZzTriple
  <2>3. at' \in 0..Len(job.ops) /\ at - 1 \in 1..Len(job.ops)
    BY <1>1, <1>2, <2>1, <2>2
  <2>4. job.ops[at - 1].th[1] \in Int
    BY <1>2, <2>2, <2>3 DEF Placed, Angles
  <2>5. {} \in Basis /\ Range(g.qs) \in Basis
    BY <1>3 DEF Basis, Placed, Range
  <2>6. program' \in Seq(Pieces)
    BY <2>1, <2>4, <2>5, BranchPiece
  <2>7. QED
    BY <1>1, <2>1, <2>3, <2>6 DEF SumInv
<1>6. CASE ~Folds(at) /\ (Conditioned(g) \/ ~Dispatched(g))
  <2>1. Refuse
    BY <1>6 DEF Start
  <2>2. QED
    BY <1>1, <2>1 DEF Refuse, SumInv
<1>7. CASE ~Folds(at) /\ ~(Conditioned(g) \/ ~Dispatched(g))
  <2>1. /\ program' = IF Program(g) = <<>> THEN <<[do |-> "nothing"]>> ELSE Program(g)
        /\ at' = at - 1 /\ sum' = noised
        /\ UNCHANGED <<job, phase, undrained, out>>
    BY <1>7 DEF Start
  <2>2. at' \in 0..Len(job.ops)
    BY <1>1, <1>2, <2>1
  <2>3. Program(g) \in Seq(Pieces)
    BY <1>3, <1>7, ProgramPieces
  <2>4. <<[do |-> "nothing"]>> \in Seq(Pieces)
    <3>1. [do |-> "nothing"] \in Pieces
      BY DEF Pieces
    <3>2. QED
      BY <3>1
  <2> HIDE DEF noised, g
  <2>5. QED
    BY <1>1, <1>4, <2>1, <2>2, <2>3, <2>4
<1>8. QED
  BY <1>5, <1>6, <1>7

\* The end of a piece: what is over the cutoffs is dropped.
LEMMA AdvanceHermitian ==
  ASSUME NEW result \in Hermitian, NEW dropped, Advance(result, dropped), program \in Seq(Pieces), program # <<>>
  PROVE  sum' \in Hermitian /\ program' \in Seq(Pieces) /\ UNCHANGED <<job, at>>
<1>1. program' = Tail(program) /\ UNCHANGED <<job, at>>
  BY DEF Advance
<1>2. \/ sum' = result
      \/ \E cut : sum' = [k \in DOMAIN result \ cut |-> result[k]]
  BY DEF Advance, GateEnd
<1>3. ASSUME NEW cut, sum' = [k \in DOMAIN result \ cut |-> result[k]]
      PROVE  sum' \in Hermitian
  <2> DEFINE D == DOMAIN result \ cut
  <2>1. D \in SUBSET DOMAIN result
    OBVIOUS
  <2>2. sum' = [k \in D |-> result[k]]
    BY <1>3
  <2> HIDE DEF D
  <2>3. [k \in D |-> result[k]] \in Hermitian
    BY <2>1, HermitianPart
  <2>4. QED
    BY <2>2, <2>3
<1>4. program' \in Seq(Pieces)
  BY <1>1
<1>5. QED
  BY <1>1, <1>2, <1>3, <1>4

LEMMA PieceAt ==
  ASSUME SumInv, program # <<>>
  PROVE  /\ Head(program) \in Pieces
         /\ Head(program).do = "map" => Clifford(Head(program).g)
         /\ Head(program).do = "branch" => Generator(Head(program))
<1>1. Head(program) \in Pieces
  BY DEF SumInv
<1>2. \A p \in Pieces : /\ p.do = "map" => Clifford(p.g)
                        /\ p.do = "branch" => Generator(p)
  BY DEF Pieces, CliffordGates, Generator
<1>3. QED
  BY <1>1, <1>2

LEMMA SumStep ==
  ASSUME JobInv, SumInv, pass = "handed", pass' = pass, Next
  PROVE  SumInv' /\ job' = job
<1>1. CASE EvolveGate
  <2>1. at' = at + 1 /\ at < Len(job.ops) /\ UNCHANGED <<job, phase, program, sum, undrained, out>>
    BY <1>1 DEF EvolveGate
  <2>2. Len(job.ops) \in Nat
    BY DEF JobInv, Physical, PlacedOps, IsCircuit
  <2>3. at' \in 0..Len(job.ops)
    BY <2>1, <2>2 DEF SumInv
  <2>4. QED
    BY <2>1, <2>3 DEF SumInv
<1>2. CASE EvolveChannel
  BY <1>2 DEF EvolveChannel, SumInv
<1>3. CASE Seed
  <2>1. sum' \in Hermitian
    BY <1>3, SeedHermitian
  <2>2. phase = "forward" /\ phase' # "forward" /\ UNCHANGED <<job, at, program, undrained, out>>
    BY <1>3 DEF Seed, Refuse
  <2>3. undrained = {}
    BY <2>2 DEF SumInv
  <2>4. QED
    BY <2>1, <2>2, <2>3 DEF SumInv
<1>4. CASE Start
  <2>1. /\ sum' \in Hermitian /\ program' \in Seq(Pieces) /\ at' \in 0..Len(job.ops)
        /\ UNCHANGED <<job, out, undrained>> /\ undrained = {} /\ phase' # "forward"
    BY <1>4, StartHermitian
  <2>2. QED
    BY <2>1 DEF SumInv
<1>5. CASE MapStep
  <2> DEFINE g == Head(program).g
  <2>1. /\ phase = "back" /\ program # <<>> /\ Head(program).do = "map" /\ Advance(MapSum(sum, g), dropped_mass)
        /\ UNCHANGED <<undrained, out>>
    BY <1>5 DEF MapStep, Step
  <2>2. Clifford(g)
    BY <2>1, PieceAt
  <2> HIDE DEF g
  <2>3. MapSum(sum, g) \in Hermitian
    BY <2>2, MapHermitian DEF SumInv
  <2>4. sum' \in Hermitian /\ program' \in Seq(Pieces) /\ UNCHANGED <<job, at>>
    BY <2>1, <2>3, AdvanceHermitian DEF SumInv
  <2>5. undrained = {} /\ phase' # "forward"
    BY <2>1 DEF SumInv, Advance
  <2>6. QED
    BY <2>1, <2>4, <2>5 DEF SumInv
<1>6. CASE NothingStep \/ BranchSkip
  <2>1. /\ phase = "back" /\ program # <<>> /\ Advance(sum, dropped_mass) /\ UNCHANGED <<undrained, out>>
        /\ Head(program).do = "nothing" \/ undrained = {}
    BY <1>6 DEF NothingStep, BranchSkip, Step
  <2>2. sum' \in Hermitian /\ program' \in Seq(Pieces) /\ UNCHANGED <<job, at>>
    BY <2>1, AdvanceHermitian DEF SumInv
  <2>3. undrained = {} /\ phase' # "forward"
    BY <2>1 DEF SumInv, Advance
  <2>4. QED
    BY <2>1, <2>2, <2>3 DEF SumInv
<1>7. CASE BranchStart
  BY <1>7 DEF BranchStart, Step, SumInv
<1>8. CASE BranchEnd
  <2>1. phase = "back" /\ program # <<>> /\ undrained = {} /\ Head(program).do = "branch"
    BY <1>8 DEF BranchEnd, Step
  <2>2. CASE OverCap(out)
    <3>1. Refuse
      BY <1>8, <2>2 DEF BranchEnd
    <3>2. QED
      BY <3>1 DEF Refuse, SumInv
  <2>3. CASE ~OverCap(out)
    <3>1. Advance(out, dropped_mass) /\ out' = EmptySum /\ undrained' = undrained
      BY <1>8, <2>3 DEF BranchEnd
    <3>2. sum' \in Hermitian /\ program' \in Seq(Pieces) /\ UNCHANGED <<job, at>>
      BY <2>1, <3>1, AdvanceHermitian DEF SumInv
    <3>3. phase' # "forward"
      BY <2>1, <3>1 DEF Advance
    <3>4. QED
      BY <2>1, <3>1, <3>2, <3>3, HermitianEmpty DEF SumInv
  <2>4. QED
    BY <2>2, <2>3
<1>9. ASSUME NEW key \in Readable, BranchTerm(key)
      PROVE  SumInv' /\ job' = job
  <2> DEFINE r == Head(program)
             e == Expanded([out |-> out, dropped |-> dropped_mass], key, r)
  <2>1. /\ phase = "back" /\ program # <<>> /\ r.do = "branch"
        /\ out' = e.out /\ undrained' = undrained \ {key}
        /\ UNCHANGED <<job, at, program, sum>> /\ phase' \in {"refused", phase}
    BY <1>9 DEF BranchTerm, Step
  <2>2. key \in DOMAIN sum
    <3>1. Readable \subseteq undrained
      BY DEF Readable
    <3>2. QED
      BY <3>1 DEF SumInv
  <2>3. Generator(r) /\ sum \in Hermitian /\ out \in Hermitian
    BY <2>1, PieceAt DEF SumInv
  <2> HIDE DEF r
  <2>4. e.out \in Hermitian
    BY <2>2, <2>3, ExpandedHermitian
  <2> HIDE DEF e
  <2>5. QED
    BY <2>1, <2>4 DEF SumInv, r
<1>10. CASE Finish
  <2>1. phase' \in {"refused", "done"} /\ UNCHANGED <<job, at, program, sum, undrained, out>>
    BY <1>10 DEF Finish
  <2>2. QED
    BY <2>1 DEF SumInv
<1>11. QED
  BY <1>1, <1>2, <1>3, <1>4, <1>5, <1>6, <1>7, <1>8, <1>9, <1>10 DEF Next

LEMMA HermitianStep ==
  ASSUME HermitianInv, [ExpectationNext]_allVars
  PROVE  HermitianInv'
<1>1. CASE Pass
  <2>1. UNCHANGED vars
    BY <1>1 DEF Pass
  <2>2. UNCHANGED <<job, phase, program, sum, undrained, out, at>>
    BY <2>1 DEF vars
  <2>3. PlacedInv'
    BY <1>1, PlacedOptimizing, PlacedPreparing DEF Pass, HermitianInv
  <2>4. pass # "handed"
    BY <1>1 DEF Pass, Optimizing, Preparing, Retain, Cancel, Merge, Commute, NextSweep, ScanEnd, Test, At,
                Prepare, WalkOp, WalkEnd
  <2>5. QED
    BY <2>2, <2>3, <2>4 DEF HermitianInv, JobInv, SumInv
<1>2. CASE Handover
  BY <1>2, HermitianHandover
<1>3. CASE pass = "handed" /\ Next /\ UNCHANGED <<passVars, price>>
  <2>1. pass' = pass /\ UNCHANGED <<circuit, deferred, written_by, i>>
    BY <1>3 DEF passVars
  <2>2. SumInv' /\ job' = job
    BY <1>3, <2>1, SumStep DEF HermitianInv
  <2>3. QED
    BY <2>1, <2>2 DEF HermitianInv, PlacedInv, JobInv
<1>4. CASE UNCHANGED allVars
  <2>1. UNCHANGED <<job, phase, program, sum, undrained, out, at, pass, circuit, deferred, written_by, i>>
    BY <1>4 DEF allVars, passVars, vars
  <2>2. QED
    BY <2>1 DEF HermitianInv, PlacedInv, JobInv, SumInv
<1>5. QED
  BY <1>1, <1>2, <1>3, <1>4 DEF ExpectationNext

\* Whenever no branching is under way, every Y of every string in the sum is
\* paid with its factor i: for any width, circuit, observable with real weights,
\* knobs and noise at real rates.  So the imaginary part that the code drops
\* unseen when it returns the value (sim.rs) is zero.
THEOREM SumIsHermitian ==
  ASSUME PhysicalJobs
  PROVE  ExpectationSpec => []StaysHermitian
<1>1. ExpectationInit => HermitianInv
  BY HermitianInit
<1>2. HermitianInv /\ [ExpectationNext]_allVars => HermitianInv'
  BY HermitianStep
<1>3. HermitianInv => StaysHermitian
  <2> SUFFICES ASSUME HermitianInv, NEW key \in DOMAIN sum
               PROVE  IsReal(Times(sum[key].c, Conj(Factor(key[1], key[2]))))
    BY DEF StaysHermitian
  <2>1. key \in Keys /\ RightKind(key, sum[key].c)
    BY HermitianParts DEF HermitianInv, SumInv
  <2>2. QED
    BY <2>1, KindReal DEF Keys, RightKind
<1>4. QED
  BY <1>1, <1>2, <1>3, PTL DEF ExpectationSpec

-----------------------------------------------------------------------------
(* The price.  What a sum can hold is accounted for wire by wire: the wires*)
(* that may carry a letter (cone), those that may carry an X part (xs), and*)
(* the branchings so far (n).  The account is coarser than the strings and *)
(* finer than the light cone that is priced: a rotation about Z counts only*)
(* where an X part can be, so that moving it through the control of a CX or*)
(* a CZ, as the optimizer does, costs nothing.                             *)

Account(c, x, k) == [cone |-> c, xs |-> x, n |-> k]
Accounts == {a \in [cone : Basis, xs : Basis, n : Nat] : a.xs \subseteq a.cone}
Below(a, b) == a.cone \subseteq b.cone /\ a.xs \subseteq b.xs /\ a.n <= b.n

\* Gates that move no letter to another wire and put no X part anywhere.
Quiet == {"X", "Y", "Z", "S", "Sdg", "Id", "Barrier", "Measure", "Reset"}
Turns == {"Rz", "U1", "T", "Tdg"}

\* The account after the gate is undone.
Pulled(a, g) ==
    LET W == Range(g.qs) IN
    IF g.op \in Quiet THEN a
    ELSE IF g.op \in Turns THEN IF g.qs[1] \in a.xs THEN Account(a.cone, a.xs, a.n + 1) ELSE a
    ELSE IF W \cap a.cone = {} THEN a
    ELSE IF g.op = "CX"
    THEN Account(a.cone \cup W, IF g.qs[1] \in a.xs THEN a.xs \cup {g.qs[2]} ELSE a.xs, a.n)
    ELSE IF g.op = "CZ" THEN Account(a.cone \cup W, a.xs, a.n)
    ELSE Account(a.cone \cup W, a.xs \cup W, a.n + branch_calls(g))

LEMMA AccountMake ==
  ASSUME NEW c \in Basis, NEW x \in Basis, x \subseteq c, NEW k \in Nat
  PROVE  /\ Account(c, x, k) \in Accounts
         /\ Account(c, x, k).cone = c /\ Account(c, x, k).xs = x /\ Account(c, x, k).n = k
BY DEF Account, Accounts

LEMMA AccountParts ==
  ASSUME NEW a \in Accounts
  PROVE  a.cone \in Basis /\ a.xs \in Basis /\ a.xs \subseteq a.cone /\ a.n \in Nat
BY DEF Accounts

LEMMA BelowSelf ==
  ASSUME NEW a \in Accounts
  PROVE  Below(a, a)
BY DEF Below, Accounts

LEMMA BelowChain ==
  ASSUME NEW a \in Accounts, NEW b \in Accounts, NEW c \in Accounts, Below(a, b), Below(b, c)
  PROVE  Below(a, c)
BY DEF Below, Accounts

LEMMA CallsOf ==
  ASSUME NEW g, Placed(g)
  PROVE  /\ g.op # "Reset" => branch_calls(g) \in Nat
         /\ g.op = "Reset" => branch_calls(g) = None
         /\ g.op \in Turns => branch_calls(g) = 1
         /\ Range(g.qs) \in Basis
         /\ g.op \in Turns => g.qs[1] \in Range(g.qs)
         /\ g.op \in {"CX", "CZ"} => /\ g.qs[1] \in Range(g.qs) /\ g.qs[2] \in Range(g.qs)
                                     /\ Range(g.qs) = {g.qs[1], g.qs[2]}
<1>1. Range(g.qs) \in Basis
  BY DEF Placed, Range, Basis
<1>2. g.op \in Turns => g.qs[1] \in Range(g.qs)
  BY DEF Placed, Range, Turns, OneQubit
<1>3. g.op \in {"CX", "CZ"} => Len(g.qs) = 2 /\ DOMAIN g.qs = 1..2
  BY DEF Placed, Controlled
<1>4. g.op \in {"CX", "CZ"} => /\ g.qs[1] \in Range(g.qs) /\ g.qs[2] \in Range(g.qs)
                               /\ Range(g.qs) = {g.qs[1], g.qs[2]}
  BY <1>3 DEF Range
<1>5. g.op = "Reset" => branch_calls(g) = None
  BY DEF branch_calls
<1>6. g.op \in Turns => branch_calls(g) = 1
  BY DEF branch_calls, Turns
<1>7. g.op # "Reset" => branch_calls(g) \in Nat
  BY DEF branch_calls, Placed, OneQubit, Controlled
<1>8. QED
  BY <1>1, <1>2, <1>4, <1>5, <1>6, <1>7

LEMMA AccountAbove ==
  ASSUME NEW a \in Accounts, NEW c \in Basis, NEW x \in Basis, x \subseteq c, NEW k \in Nat,
         a.cone \subseteq c, a.xs \subseteq x, a.n <= k
  PROVE  Account(c, x, k) \in Accounts /\ Below(a, Account(c, x, k))
<1>1. /\ Account(c, x, k) \in Accounts
      /\ Account(c, x, k).cone = c /\ Account(c, x, k).xs = x /\ Account(c, x, k).n = k
  BY AccountMake
<1>2. QED
  BY <1>1 DEF Below

\* Undoing a gate keeps the kind of account, loses nothing, and respects the order.
LEMMA PulledGrows ==
  ASSUME NEW g, Placed(g), NEW a \in Accounts
  PROVE  Pulled(a, g) \in Accounts /\ Below(a, Pulled(a, g))
<1>1. a.cone \in Basis /\ a.xs \in Basis /\ a.xs \subseteq a.cone /\ a.n \in Nat
  BY AccountParts
<1> DEFINE W == Range(g.qs)
<1>2. W \in Basis /\ a.cone \cup W \in Basis /\ a.xs \cup W \in Basis
  BY <1>1, CallsOf DEF Basis
<1>3. CASE g.op \in Quiet
  BY <1>3, BelowSelf DEF Pulled
<1>4. CASE g.op \in Turns
  <2>1. g.op \notin Quiet
    BY <1>4 DEF Turns, Quiet
  <2>2. Account(a.cone, a.xs, a.n + 1) \in Accounts /\ Below(a, Account(a.cone, a.xs, a.n + 1))
    BY <1>1, AccountMake DEF Below
  <2>3. QED
    BY <1>4, <2>1, <2>2, BelowSelf DEF Pulled
<1>5. CASE g.op \notin Quiet \cup Turns /\ W \cap a.cone = {}
  BY <1>5, BelowSelf DEF Pulled
<1>6. CASE g.op \notin Quiet \cup Turns /\ W \cap a.cone # {}
  <2>1. a.cone \subseteq a.cone \cup W /\ a.xs \subseteq a.cone \cup W
    BY <1>1
  <2>2. CASE g.op = "CX"
    <3>1. g.qs[2] \in W
      BY <2>2, CallsOf
    <3>2. a.xs \cup {g.qs[2]} \in Basis
      BY <1>1, <1>2, <3>1 DEF Basis
    <3>3. Pulled(a, g) = Account(a.cone \cup W, IF g.qs[1] \in a.xs THEN a.xs \cup {g.qs[2]} ELSE a.xs, a.n)
      BY <1>6, <2>2 DEF Pulled
    <3> HIDE DEF W
    <3> DEFINE x == IF g.qs[1] \in a.xs THEN a.xs \cup {g.qs[2]} ELSE a.xs
               c == a.cone \cup W
    <3>4. x \in Basis /\ a.xs \subseteq x /\ x \subseteq c /\ a.n <= a.n /\ c \in Basis /\ a.cone \subseteq c
      BY <1>1, <1>2, <2>1, <3>1, <3>2
    <3>5. Pulled(a, g) = Account(c, x, a.n)
      BY <3>3
    <3> HIDE DEF x, c
    <3>6. QED
      BY <1>1, <3>4, <3>5, AccountAbove
  <2>3. CASE g.op = "CZ"
    <3>1. Pulled(a, g) = Account(a.cone \cup W, a.xs, a.n)
      BY <1>6, <2>3 DEF Pulled
    <3> DEFINE c == a.cone \cup W
    <3>2. c \in Basis /\ a.cone \subseteq c /\ a.xs \subseteq c /\ a.n <= a.n
      BY <1>1, <1>2
    <3>3. Pulled(a, g) = Account(c, a.xs, a.n)
      BY <3>1
    <3> HIDE DEF c
    <3>4. QED
      BY <1>1, <3>2, <3>3, AccountAbove
  <2>4. CASE g.op \notin {"CX", "CZ"}
    <3>1. Pulled(a, g) = Account(a.cone \cup W, a.xs \cup W, a.n + branch_calls(g))
      BY <1>6, <2>4 DEF Pulled
    <3>2. branch_calls(g) \in Nat
      BY <1>6, CallsOf DEF Quiet
    <3> DEFINE c == a.cone \cup W
               x == a.xs \cup W
               k == a.n + branch_calls(g)
    <3>3. /\ c \in Basis /\ x \in Basis /\ x \subseteq c /\ a.cone \subseteq c /\ a.xs \subseteq x
          /\ k \in Nat /\ a.n <= k
      BY <1>1, <1>2, <3>2
    <3>4. Pulled(a, g) = Account(c, x, k)
      BY <3>1
    <3> HIDE DEF c, x, k
    <3>5. QED
      BY <1>1, <3>3, <3>4, AccountAbove
  <2>5. QED
    BY <2>2, <2>3, <2>4
<1>7. QED
  BY <1>3, <1>4, <1>5, <1>6

LEMMA PulledMonotone ==
  ASSUME NEW g, Placed(g), NEW a \in Accounts, NEW b \in Accounts, Below(a, b)
  PROVE  Below(Pulled(a, g), Pulled(b, g))
<1> DEFINE W == Range(g.qs)
<1>1. Below(b, Pulled(b, g)) /\ Pulled(b, g) \in Accounts /\ Pulled(a, g) \in Accounts
  BY PulledGrows
<1>2. Pulled(a, g) = a => Below(Pulled(a, g), Pulled(b, g))
  BY <1>1, BelowChain
<1>3. /\ a.cone \subseteq b.cone /\ a.xs \subseteq b.xs /\ a.n <= b.n
      /\ a.n \in Nat /\ b.n \in Nat /\ a.xs \subseteq a.cone /\ b.xs \subseteq b.cone
  BY AccountParts DEF Below
<1>4. CASE g.op \in Quiet
  BY <1>2, <1>4 DEF Pulled
<1>5. CASE g.op \in Turns /\ g.qs[1] \in a.xs
  <2>1. g.op \notin Quiet
    BY <1>5 DEF Turns, Quiet
  <2>2. Pulled(a, g) = Account(a.cone, a.xs, a.n + 1) /\ Pulled(b, g) = Account(b.cone, b.xs, b.n + 1)
    BY <1>3, <1>5, <2>1 DEF Pulled
  <2>3. QED
    BY <1>3, <2>2 DEF Below, Account
<1>6. CASE g.op \in Turns /\ g.qs[1] \notin a.xs
  <2>1. g.op \notin Quiet
    BY <1>6 DEF Turns, Quiet
  <2>2. QED
    BY <1>2, <1>6, <2>1 DEF Pulled
<1>7. CASE g.op \notin Quiet \cup Turns /\ W \cap a.cone = {}
  BY <1>2, <1>7 DEF Pulled
<1>8. CASE g.op \notin Quiet \cup Turns /\ W \cap a.cone # {}
  <2>1. W \cap b.cone # {}
    BY <1>3, <1>8
  <2>2. CASE g.op = "CX"
    <3>1. /\ Pulled(a, g) = Account(a.cone \cup W, IF g.qs[1] \in a.xs THEN a.xs \cup {g.qs[2]} ELSE a.xs, a.n)
          /\ Pulled(b, g) = Account(b.cone \cup W, IF g.qs[1] \in b.xs THEN b.xs \cup {g.qs[2]} ELSE b.xs, b.n)
      BY <1>8, <2>1, <2>2 DEF Pulled
    <3> HIDE DEF W
    <3>2. QED
      BY <1>3, <3>1 DEF Below, Account
  <2>3. CASE g.op = "CZ"
    <3>1. /\ Pulled(a, g) = Account(a.cone \cup W, a.xs, a.n)
          /\ Pulled(b, g) = Account(b.cone \cup W, b.xs, b.n)
      BY <1>8, <2>1, <2>3 DEF Pulled
    <3> HIDE DEF W
    <3>2. QED
      BY <1>3, <3>1 DEF Below, Account
  <2>4. CASE g.op \notin {"CX", "CZ"}
    <3>1. /\ Pulled(a, g) = Account(a.cone \cup W, a.xs \cup W, a.n + branch_calls(g))
          /\ Pulled(b, g) = Account(b.cone \cup W, b.xs \cup W, b.n + branch_calls(g))
      BY <1>8, <2>1, <2>4 DEF Pulled
    <3>2. branch_calls(g) \in Nat
      BY <1>8, CallsOf DEF Quiet
    <3> HIDE DEF W
    <3>3. QED
      BY <1>3, <3>1, <3>2 DEF Below, Account
  <2>5. QED
    BY <2>2, <2>3, <2>4
<1>9. QED
  BY <1>4, <1>5, <1>6, <1>7, <1>8

\* What the optimizer exchanges (a first, b second in the circuit) may be
\* undone in either order.
LEMMA PulledTrade ==
  ASSUME NEW a, Plain(a), Placed(a), NEW b, Placed(b), try_commute(a, b), NEW acc \in Accounts
  PROVE  Pulled(Pulled(acc, a), b) = Pulled(Pulled(acc, b), a)
<1> DEFINE W == Range(a.qs)
           q == b.qs[1]
           l == Pulled(acc, a)
<1>1. CASE b.op \in Quiet
  BY <1>1 DEF Pulled
<1>2. /\ a.op \in {"CX", "CY", "CZ", "Swap", "CRz", "CU3", "Rbs"}
      /\ a.op \notin Quiet \cup Turns
      /\ Len(a.qs) = 2 /\ a.qs[1] # a.qs[2] /\ W = {a.qs[1], a.qs[2]}
  <2>1. a.op \in {"CX", "CY", "CZ", "Swap", "CRz", "CU3", "Rbs"}
    BY DEF Plain, try_commute, ManyWires, OneQubit, Controlled
  <2>2. Len(a.qs) = 2 /\ a.qs[1] # a.qs[2] /\ a.qs \in Seq(Qubits)
    BY <2>1 DEF Plain, Controlled
  <2>3. W = {a.qs[1], a.qs[2]}
    BY <2>2 DEF Range
  <2>4. QED
    BY <2>1, <2>2, <2>3 DEF Quiet, Turns
<1>3. b.op \notin Quiet => b.op \in OneQubit /\ Range(b.qs) = {q}
  <2>1. b.op \notin Quiet => b.op \in OneQubit
    BY DEF try_commute, OneWire, Quiet, OneQubit
  <2>2. b.op \in OneQubit => Len(b.qs) = 1 /\ b.qs \in Seq(Qubits)
    BY DEF Placed
  <2>3. QED
    BY <2>1, <2>2 DEF Range
<1>4. /\ l = acc \/ \E x : /\ l = Account(acc.cone \cup W, x, l.n) /\ acc.xs \subseteq x /\ x \subseteq acc.xs \cup W
                           /\ a.op \in {"CX", "CZ"} => (a.qs[1] \in x <=> a.qs[1] \in acc.xs)
                           /\ a.op = "CZ" => x = acc.xs
  <2>1. CASE W \cap acc.cone = {}
    BY <1>2, <2>1 DEF Pulled
  <2>2. CASE W \cap acc.cone # {} /\ a.op = "CX"
    BY <1>2, <2>2 DEF Pulled, Account
  <2>3. CASE W \cap acc.cone # {} /\ a.op = "CZ"
    BY <1>2, <2>3 DEF Pulled, Account
  <2>4. CASE W \cap acc.cone # {} /\ a.op \notin {"CX", "CZ"}
    BY <1>2, <2>4 DEF Pulled, Account
  <2>5. QED
    BY <2>1, <2>2, <2>3, <2>4
<1>5. acc.cone \in Basis /\ acc.xs \in Basis /\ acc.xs \subseteq acc.cone /\ acc.n \in Nat
  BY AccountParts
<1>6. CASE b.op \in Turns
  <2>1. b.op \notin Quiet
    BY <1>6 DEF Quiet, Turns
  <2>2. q \in l.xs <=> q \in acc.xs
    <3>1. q \in W => a.op \in {"CX", "CZ"} /\ (q = a.qs[1] \/ a.op = "CZ")
      BY <1>2, <1>6 DEF try_commute, Turns
    <3>2. QED
      BY <1>2, <1>4, <3>1 DEF Account
  <2>3. CASE q \notin acc.xs
    BY <1>6, <2>1, <2>2, <2>3 DEF Pulled
  <2>4. CASE q \in acc.xs
    <3>1. Pulled(l, b) = Account(l.cone, l.xs, l.n + 1)
      BY <1>6, <2>1, <2>2, <2>4 DEF Pulled
    <3>2. Pulled(acc, b) = Account(acc.cone, acc.xs, acc.n + 1)
      BY <1>6, <2>1, <2>4 DEF Pulled
    <3> DEFINE m == Account(acc.cone, acc.xs, acc.n + 1)
    <3>3. m.cone = acc.cone /\ m.xs = acc.xs /\ m.n = acc.n + 1
      BY DEF Account
    <3> HIDE DEF m
    <3>4. Pulled(m, a) = Account(l.cone, l.xs, l.n + 1)
      <4>1. CASE W \cap acc.cone = {}
        <5>1. l = acc /\ Pulled(m, a) = m
          BY <1>2, <3>3, <4>1 DEF Pulled
        <5>2. QED
          BY <5>1 DEF m
      <4>2. CASE W \cap acc.cone # {} /\ a.op = "CX"
        BY <1>2, <3>3, <4>2 DEF Pulled, Account
      <4>3. CASE W \cap acc.cone # {} /\ a.op = "CZ"
        BY <1>2, <3>3, <4>3 DEF Pulled, Account
      <4>4. CASE W \cap acc.cone # {} /\ a.op \notin {"CX", "CZ"}
        <5>1. branch_calls(a) \in Nat
          BY <1>2, CallsOf DEF Quiet
        <5>2. /\ l = Account(acc.cone \cup W, acc.xs \cup W, acc.n + branch_calls(a))
              /\ Pulled(m, a) = Account(acc.cone \cup W, acc.xs \cup W, acc.n + 1 + branch_calls(a))
          BY <1>2, <3>3, <4>4 DEF Pulled
        <5>3. acc.n + 1 + branch_calls(a) = acc.n + branch_calls(a) + 1
          BY <1>5, <5>1
        <5>4. l.cone = acc.cone \cup W /\ l.xs = acc.xs \cup W /\ l.n = acc.n + branch_calls(a)
          BY <5>2 DEF Account
        <5>5. QED
          BY <5>2, <5>3, <5>4
      <4>5. QED
        BY <4>1, <4>2, <4>3, <4>4
    <3>5. QED
      BY <3>1, <3>2, <3>4 DEF m
  <2>5. QED
    BY <2>3, <2>4
<1>7. CASE b.op \notin Quiet \cup Turns
  <2>1. q \notin W
    BY <1>2, <1>7 DEF try_commute, ZBasis, Turns, Quiet
  <2>2. b.op \notin {"CX", "CZ"} /\ Range(b.qs) = {q} /\ branch_calls(b) \in Nat
    BY <1>3, <1>7, CallsOf DEF OneQubit, Quiet
  <2>3. (q \in l.cone <=> q \in acc.cone) /\ (q \in l.xs <=> q \in acc.xs)
    BY <1>4, <2>1 DEF Account
  <2>4. CASE q \notin acc.cone
    BY <1>7, <2>2, <2>3, <2>4 DEF Pulled
  <2>5. CASE q \in acc.cone
    <3> DEFINE k == branch_calls(b)
               m == Account(acc.cone \cup {q}, acc.xs \cup {q}, acc.n + k)
    <3>1. Pulled(l, b) = Account(l.cone \cup {q}, l.xs \cup {q}, l.n + k)
      BY <1>7, <2>2, <2>3, <2>5 DEF Pulled
    <3>2. Pulled(acc, b) = m
      BY <1>7, <2>2, <2>5 DEF Pulled
    <3>3. m.cone = acc.cone \cup {q} /\ m.xs = acc.xs \cup {q} /\ m.n = acc.n + k /\ m.cone = acc.cone
      BY <2>5 DEF Account
    <3> HIDE DEF m
    <3>4. Pulled(m, a) = Account(l.cone \cup {q}, l.xs \cup {q}, l.n + k)
      <4>1. CASE W \cap acc.cone = {}
        <5>1. l = acc /\ Pulled(m, a) = m
          BY <1>2, <3>3, <4>1 DEF Pulled
        <5>2. QED
          BY <5>1 DEF m
      <4>2. CASE W \cap acc.cone # {} /\ a.op = "CX"
        <5>1. a.qs[1] \in m.xs <=> a.qs[1] \in acc.xs
          BY <1>2, <2>1, <3>3
        <5> DEFINE x == IF a.qs[1] \in acc.xs THEN acc.xs \cup {a.qs[2]} ELSE acc.xs
        <5>2. l = Account(acc.cone \cup W, x, acc.n)
          BY <1>2, <4>2 DEF Pulled
        <5>3. Pulled(m, a) = Account(m.cone \cup W, IF a.qs[1] \in m.xs THEN m.xs \cup {a.qs[2]} ELSE m.xs, m.n)
          BY <1>2, <3>3, <4>2 DEF Pulled
        <5>4. (IF a.qs[1] \in m.xs THEN m.xs \cup {a.qs[2]} ELSE m.xs) = x \cup {q}
          BY <3>3, <5>1
        <5>5. l.cone = acc.cone \cup W /\ l.xs = x /\ l.n = acc.n
          BY <5>2 DEF Account
        <5>6. m.cone \cup W = l.cone \cup {q}
          BY <3>3, <5>5
        <5> HIDE DEF x
        <5>7. QED
          BY <3>3, <5>3, <5>4, <5>5, <5>6
      <4>3. CASE W \cap acc.cone # {} /\ a.op = "CZ"
        <5>2. l = Account(acc.cone \cup W, acc.xs, acc.n)
          BY <1>2, <4>3 DEF Pulled
        <5>3. Pulled(m, a) = Account(m.cone \cup W, m.xs, m.n)
          BY <1>2, <3>3, <4>3 DEF Pulled
        <5>5. l.cone = acc.cone \cup W /\ l.xs = acc.xs /\ l.n = acc.n
          BY <5>2 DEF Account
        <5>6. m.cone \cup W = l.cone \cup {q}
          BY <3>3, <5>5
        <5>7. QED
          BY <3>3, <5>3, <5>5, <5>6
      <4>4. CASE W \cap acc.cone # {} /\ a.op \notin {"CX", "CZ"}
        <5>1. branch_calls(a) \in Nat
          BY <1>2, CallsOf DEF Quiet
        <5>2. /\ l = Account(acc.cone \cup W, acc.xs \cup W, acc.n + branch_calls(a))
              /\ Pulled(m, a) = Account(m.cone \cup W, m.xs \cup W, acc.n + k + branch_calls(a))
          BY <1>2, <3>3, <4>4 DEF Pulled
        <5>3. acc.n + k + branch_calls(a) = acc.n + branch_calls(a) + k
          BY <1>5, <2>2, <5>1
        <5>4. l.cone = acc.cone \cup W /\ l.xs = acc.xs \cup W /\ l.n = acc.n + branch_calls(a)
          BY <5>2 DEF Account
        <5>6. m.cone \cup W = l.cone \cup {q} /\ m.xs \cup W = l.xs \cup {q}
          BY <3>3, <5>4
        <5>7. QED
          BY <5>2, <5>3, <5>4, <5>6
      <4>5. QED
        BY <4>1, <4>2, <4>3, <4>4
    <3>5. QED
      BY <3>1, <3>2, <3>4
  <2>6. QED
    BY <2>4, <2>5
<1>8. QED
  BY <1>1, <1>6, <1>7

-----------------------------------------------------------------------------
(* A certificate of a circuit: an account for every place between two gates*)
(* that bounds what undoing the later gates gives, from the account of what*)
(* is pulled back to the account that is priced.                           *)

Covers(h, c, n, acc, B) ==
    /\ h \in [0..n -> Accounts]
    /\ Below(acc, h[n]) /\ Below(h[0], B)
    /\ \A k \in 1..n : Below(Pulled(h[k], c[k]), h[k - 1])

Certified(c, n, acc, B) == \E h : Covers(h, c, n, acc, B)

LEMMA CertifiedLess ==
  ASSUME NEW a \in Accounts, NEW b \in Accounts, NEW B \in Accounts, Below(a, b),
         NEW n \in Nat, NEW c, Certified(c, n, b, B)
  PROVE  Certified(c, n, a, B)
<1>1. PICK h : Covers(h, c, n, b, B)
  BY DEF Certified
<1>2. h[n] \in Accounts /\ Below(b, h[n])
  BY <1>1 DEF Covers
<1>3. Below(a, h[n])
  BY <1>2, BelowChain
<1>4. Covers(h, c, n, a, B)
  BY <1>1, <1>3 DEF Covers
<1>5. QED
  BY <1>4 DEF Certified

LEMMA CertifiedSame ==
  ASSUME NEW n \in Nat, NEW c, NEW d, \A k \in 1..n : d[k] = c[k],
         NEW a \in Accounts, NEW B \in Accounts, Certified(c, n, a, B)
  PROVE  Certified(d, n, a, B)
<1>1. PICK h : Covers(h, c, n, a, B)
  BY DEF Certified
<1>2. Covers(h, d, n, a, B)
  BY <1>1 DEF Covers
<1>3. QED
  BY <1>2 DEF Certified

LEMMA CertifiedPull ==
  ASSUME NEW n \in Nat \ {0}, NEW c, \A k \in 1..n : Placed(c[k]),
         NEW a \in Accounts, NEW B \in Accounts, Certified(c, n, a, B)
  PROVE  Certified(c, n - 1, Pulled(a, c[n]), B) /\ Pulled(a, c[n]) \in Accounts
<1>1. PICK h : Covers(h, c, n, a, B)
  BY DEF Certified
<1>2. /\ h \in [0..n -> Accounts] /\ Below(a, h[n]) /\ Below(h[0], B)
      /\ \A k \in 1..n : Below(Pulled(h[k], c[k]), h[k - 1])
  BY <1>1 DEF Covers
<1>3. h[n] \in Accounts /\ h[n - 1] \in Accounts /\ Below(Pulled(h[n], c[n]), h[n - 1]) /\ Placed(c[n])
  BY <1>2
<1>4. Pulled(a, c[n]) \in Accounts /\ Pulled(h[n], c[n]) \in Accounts
  BY <1>3, PulledGrows
<1>5. Below(Pulled(a, c[n]), Pulled(h[n], c[n]))
  BY <1>2, <1>3, PulledMonotone
<1>6. Below(Pulled(a, c[n]), h[n - 1])
  BY <1>3, <1>4, <1>5, BelowChain
<1> DEFINE g == [k \in 0..(n - 1) |-> h[k]]
<1>7. Covers(g, c, n - 1, Pulled(a, c[n]), B)
  <2>1. g \in [0..(n - 1) -> Accounts] /\ g[n - 1] = h[n - 1] /\ g[0] = h[0]
    BY <1>2
  <2>2. \A k \in 1..(n - 1) : g[k] = h[k] /\ g[k - 1] = h[k - 1] /\ k \in 1..n
    OBVIOUS
  <2> HIDE DEF g
  <2>3. QED
    BY <1>2, <1>6, <2>1, <2>2 DEF Covers
<1>8. QED
  BY <1>4, <1>7 DEF Certified

LEMMA CertifiedAppend ==
  ASSUME NEW n \in Nat, NEW c, NEW a \in Accounts, NEW B \in Accounts, Placed(c[n + 1]),
         Certified(c, n, Pulled(a, c[n + 1]), B)
  PROVE  Certified(c, n + 1, a, B)
<1>1. PICK h : Covers(h, c, n, Pulled(a, c[n + 1]), B)
  BY DEF Certified
<1>2. /\ h \in [0..n -> Accounts] /\ Below(Pulled(a, c[n + 1]), h[n]) /\ Below(h[0], B)
      /\ \A k \in 1..n : Below(Pulled(h[k], c[k]), h[k - 1])
  BY <1>1 DEF Covers
<1> DEFINE g == [k \in 0..(n + 1) |-> IF k = n + 1 THEN a ELSE h[k]]
<1>3. g \in [0..(n + 1) -> Accounts] /\ g[n + 1] = a /\ g[0] = h[0] /\ g[n] = h[n]
  BY <1>2
<1>4. \A k \in 1..n : g[k] = h[k] /\ g[k - 1] = h[k - 1]
  OBVIOUS
<1>5. Below(a, a)
  BY BelowSelf
<1> HIDE DEF g
<1>6. \A k \in 1..(n + 1) : Below(Pulled(g[k], c[k]), g[k - 1])
  <2> TAKE k \in 1..(n + 1)
  <2>1. CASE k \in 1..n
    BY <1>2, <1>4, <2>1
  <2>2. CASE k = n + 1
    BY <1>2, <1>3, <2>2
  <2>3. QED
    BY <2>1, <2>2
<1>7. Covers(g, c, n + 1, a, B)
  BY <1>2, <1>3, <1>5, <1>6 DEF Covers
<1>8. QED
  BY <1>7 DEF Certified

LEMMA CertifiedEnd ==
  ASSUME NEW n \in Nat, NEW c, \A k \in 1..n : Placed(c[k]),
         NEW a \in Accounts, NEW B \in Accounts, Certified(c, n, a, B)
  PROVE  Below(a, B)
<1>1. PICK h : Covers(h, c, n, a, B)
  BY DEF Certified
<1>2. /\ h \in [0..n -> Accounts] /\ Below(a, h[n]) /\ Below(h[0], B)
      /\ \A k \in 1..n : Below(Pulled(h[k], c[k]), h[k - 1])
  BY <1>1 DEF Covers
<1> DEFINE P == {k \in 0..n : Below(h[k], B)}
<1>3. \A k \in 1..n : k - 1 \in P => k \in P
  <2> TAKE k \in 1..n
  <2>1. h[k] \in Accounts /\ h[k - 1] \in Accounts /\ Placed(c[k])
    BY <1>2
  <2>2. Pulled(h[k], c[k]) \in Accounts /\ Below(h[k], Pulled(h[k], c[k]))
    BY <2>1, PulledGrows
  <2>3. Below(h[k], h[k - 1])
    BY <1>2, <2>1, <2>2, BelowChain
  <2>4. Below(h[k - 1], B) => Below(h[k], B)
    BY <2>1, <2>3, BelowChain
  <2>5. QED
    BY <2>4
<1>4. 0 \in P
  BY <1>2
<1> HIDE DEF P
<1>5. n \in P
  BY <1>3, <1>4, UpToInduction
<1>6. Below(h[n], B) /\ h[n] \in Accounts
  BY <1>2, <1>5 DEF P
<1>7. QED
  BY <1>2, <1>6, BelowChain

\* The accounts of a certificate never shrink towards the front.
LEMMA CoversGrows ==
  ASSUME NEW n \in Nat, NEW c, \A k \in 1..n : Placed(c[k]),
         NEW a, NEW B, NEW h, Covers(h, c, n, a, B)
  PROVE  \A k \in 1..n : /\ h[k] \in Accounts /\ h[k - 1] \in Accounts
                         /\ Below(h[k], h[k - 1])
<1> TAKE k \in 1..n
<1>1. h[k] \in Accounts /\ h[k - 1] \in Accounts /\ Placed(c[k]) /\ Below(Pulled(h[k], c[k]), h[k - 1])
  BY DEF Covers
<1>2. Pulled(h[k], c[k]) \in Accounts /\ Below(h[k], Pulled(h[k], c[k]))
  BY <1>1, PulledGrows
<1>3. QED
  BY <1>1, <1>2, BelowChain

LEMMA CertifiedWithout ==
  ASSUME NEW c, PlacedOps(c), NEW n \in 1..(Len(c) - 1),
         NEW a \in Accounts, NEW B \in Accounts, Certified(c, Len(c), a, B)
  PROVE  Certified(Without(c, n), Len(Without(c, n)), a, B)
<1> DEFINE L == Len(c)
           d == Without(c, n)
<1>1. L \in Nat /\ n \in Nat /\ n >= 1 /\ n + 1 <= L /\ \A k \in 1..L : Placed(c[k])
  BY DEF PlacedOps, IsCircuit
<1>2. Len(d) = L - 2 /\ \A k \in 1..(L - 2) : d[k] = IF k < n THEN c[k] ELSE c[k + 2]
  BY WithoutIs DEF PlacedOps
<1>3. PICK h : Covers(h, c, L, a, B)
  BY DEF Certified
<1> HIDE DEF L, d
<1>4. /\ h \in [0..L -> Accounts] /\ Below(a, h[L]) /\ Below(h[0], B)
      /\ \A k \in 1..L : Below(Pulled(h[k], c[k]), h[k - 1])
  BY <1>3 DEF Covers
<1>5. \A k \in 1..L : h[k] \in Accounts /\ h[k - 1] \in Accounts /\ Below(h[k], h[k - 1])
  BY <1>1, <1>3, CoversGrows
<1>6. Below(h[n + 1], h[n - 1]) /\ h[n - 1] \in Accounts /\ h[n + 1] \in Accounts
  <2>1. n \in 1..L /\ n + 1 \in 1..L /\ (n + 1) - 1 = n
    BY <1>1
  <2>2. Below(h[n], h[n - 1]) /\ Below(h[n + 1], h[n]) /\ h[n] \in Accounts
    BY <1>5, <2>1
  <2>3. h[n - 1] \in Accounts /\ h[n + 1] \in Accounts
    BY <1>5, <2>1
  <2>4. QED
    BY <2>2, <2>3, BelowChain
<1> DEFINE g == [k \in 0..(L - 2) |-> IF k < n THEN h[k] ELSE h[k + 2]]
<1>7. g \in [0..(L - 2) -> Accounts] /\ g[0] = h[0]
  BY <1>1, <1>4
<1>8. ASSUME NEW k \in 1..(L - 2) PROVE Below(Pulled(g[k], d[k]), g[k - 1])
  <2>1. CASE k < n
    <3>1. g[k] = h[k] /\ g[k - 1] = h[k - 1] /\ d[k] = c[k] /\ k \in 1..L
      BY <1>1, <1>2, <2>1
    <3> HIDE DEF g
    <3>2. QED
      BY <1>4, <3>1
  <2>2. CASE k >= n
    <3>1. k + 2 \in 1..L /\ (k + 2) - 1 = k + 1 /\ k + 1 \in 1..L
      BY <1>1
    <3>2. Below(Pulled(h[k + 2], c[k + 2]), h[k + 1]) /\ h[k + 1] \in Accounts
      BY <1>4, <1>5, <3>1
    <3>3. Pulled(h[k + 2], c[k + 2]) \in Accounts
      BY <1>1, <1>5, <3>1, PulledGrows
    <3>4. g[k] = h[k + 2] /\ d[k] = c[k + 2]
      BY <1>1, <1>2, <2>2
    <3>5. CASE k = n
      <4>1. g[k - 1] = h[n - 1]
        BY <1>1, <3>5
      <4> HIDE DEF g
      <4>2. QED
        BY <1>6, <3>2, <3>3, <3>4, <3>5, <4>1, BelowChain
    <3>6. CASE k > n
      <4>1. g[k - 1] = h[k + 1]
        BY <1>1, <3>6
      <4> HIDE DEF g
      <4>2. QED
        BY <3>2, <3>4, <4>1
    <3>7. QED
      BY <1>1, <2>2, <3>5, <3>6
  <2>3. QED
    BY <1>1, <2>1, <2>2
<1>9. Below(a, g[L - 2])
  <2>1. CASE L - 2 < n
    <3>1. g[L - 2] = h[n - 1] /\ L = n + 1
      BY <1>1, <2>1
    <3> HIDE DEF g
    <3>2. QED
      BY <1>4, <1>6, <3>1, BelowChain
  <2>2. CASE L - 2 >= n
    <3>1. g[L - 2] = h[L]
      BY <1>1, <2>2
    <3> HIDE DEF g
    <3>2. QED
      BY <1>4, <3>1
  <2>3. QED
    BY <1>1, <2>1, <2>2
<1> HIDE DEF g
<1>10. Covers(g, d, L - 2, a, B)
  BY <1>4, <1>7, <1>8, <1>9 DEF Covers
<1>11. QED
  BY <1>2, <1>10 DEF Certified, d, L

LEMMA PulledSame ==
  ASSUME NEW x, NEW y, x.op = y.op, x.qs = y.qs, NEW a
  PROVE  Pulled(a, x) = Pulled(a, y)
<1>1. branch_calls(x) = branch_calls(y)
  BY DEF branch_calls
<1>2. QED
  BY <1>1 DEF Pulled

LEMMA CertifiedJoined ==
  ASSUME NEW c, PlacedOps(c), NEW n \in 1..(Len(c) - 1),
         NEW x, x.op = c[n + 1].op, x.qs = c[n + 1].qs,
         NEW a \in Accounts, NEW B \in Accounts, Certified(c, Len(c), a, B)
  PROVE  LET d == SubSeq(c, 1, n - 1) \o <<x>> \o SubSeq(c, n + 2, Len(c))
         IN  Certified(d, Len(d), a, B)
<1> DEFINE L == Len(c)
           d == SubSeq(c, 1, n - 1) \o <<x>> \o SubSeq(c, n + 2, Len(c))
<1>1. L \in Nat /\ n \in Nat /\ n >= 1 /\ n + 1 <= L /\ \A k \in 1..L : Placed(c[k])
  BY DEF PlacedOps, IsCircuit
<1>2. /\ Len(d) = L - 1
      /\ \A k \in 1..(L - 1) : d[k] = IF k < n THEN c[k] ELSE IF k = n THEN x ELSE c[k + 1]
  <2>1. IsCircuit(c)
    BY DEF PlacedOps
  <2>2. IsJoined(d, c, n, x)
    BY <2>1, JoinedIs
  <2> HIDE DEF d
  <2>3. QED
    BY <2>2 DEF IsJoined, L
<1>3. PICK h : Covers(h, c, L, a, B)
  BY DEF Certified
<1> HIDE DEF L, d
<1>4. /\ h \in [0..L -> Accounts] /\ Below(a, h[L]) /\ Below(h[0], B)
      /\ \A k \in 1..L : Below(Pulled(h[k], c[k]), h[k - 1])
  BY <1>3 DEF Covers
<1>5. \A k \in 1..L : h[k] \in Accounts /\ h[k - 1] \in Accounts /\ Below(h[k], h[k - 1])
  BY <1>1, <1>3, CoversGrows
<1> DEFINE g == [k \in 0..(L - 1) |-> IF k < n THEN h[k] ELSE h[k + 1]]
<1>6. g \in [0..(L - 1) -> Accounts] /\ g[0] = h[0] /\ g[L - 1] = h[L]
  BY <1>1, <1>4
<1>7. ASSUME NEW k \in 1..(L - 1) PROVE Below(Pulled(g[k], d[k]), g[k - 1])
  <2>1. CASE k < n
    <3>1. g[k] = h[k] /\ g[k - 1] = h[k - 1] /\ d[k] = c[k] /\ k \in 1..L
      BY <1>1, <1>2, <2>1
    <3> HIDE DEF g
    <3>2. QED
      BY <1>4, <3>1
  <2>2. CASE k = n
    <3>1. g[k] = h[n + 1] /\ g[k - 1] = h[n - 1] /\ d[k] = x /\ n \in 1..L /\ n + 1 \in 1..L /\ (n + 1) - 1 = n
      <4>1. n \in 0..(L - 1) /\ n - 1 \in 0..(L - 1) /\ n - 1 < n /\ ~(n < n)
        BY <1>1
      <4>2. g[n] = h[n + 1] /\ g[n - 1] = h[n - 1]
        BY <4>1
      <4>3. d[n] = x
        BY <1>1, <1>2, <2>2
      <4> HIDE DEF g
      <4>4. QED
        BY <1>1, <2>2, <4>2, <4>3
    <3>2. Pulled(h[n + 1], x) = Pulled(h[n + 1], c[n + 1])
      BY PulledSame
    <3>3. Pulled(h[n + 1], c[n + 1]) \in Accounts
      BY <1>1, <1>5, <3>1, PulledGrows
    <3>4. Below(Pulled(h[n + 1], c[n + 1]), h[n])
      BY <1>4, <3>1
    <3>5. Below(h[n], h[n - 1]) /\ h[n] \in Accounts /\ h[n - 1] \in Accounts
      BY <1>5, <3>1
    <3> HIDE DEF g
    <3>6. QED
      BY <3>1, <3>2, <3>3, <3>4, <3>5, BelowChain
  <2>3. CASE k > n
    <3>1. g[k] = h[k + 1] /\ g[k - 1] = h[k] /\ d[k] = c[k + 1] /\ k + 1 \in 1..L /\ (k + 1) - 1 = k
      BY <1>1, <1>2, <2>3
    <3> HIDE DEF g
    <3>2. QED
      BY <1>4, <3>1
  <2>4. QED
    BY <1>1, <2>1, <2>2, <2>3
<1> HIDE DEF g
<1>8. Covers(g, d, L - 1, a, B)
  BY <1>4, <1>6, <1>7 DEF Covers
<1>9. QED
  BY <1>2, <1>8 DEF Certified, d, L

LEMMA CertifiedSwapped ==
  ASSUME NEW c, PlacedOps(c), NEW n \in 1..(Len(c) - 1), Plain(c[n]), try_commute(c[n], c[n + 1]),
         NEW a \in Accounts, NEW B \in Accounts, Certified(c, Len(c), a, B)
  PROVE  Certified([c EXCEPT ![n] = c[n + 1], ![n + 1] = c[n]], Len(c), a, B)
<1> DEFINE L == Len(c)
           d == [c EXCEPT ![n] = c[n + 1], ![n + 1] = c[n]]
<1>1. /\ L \in Nat /\ n \in 1..L /\ n + 1 \in 1..L /\ (n + 1) - 1 = n /\ \A k \in 1..L : Placed(c[k])
      /\ c \in Seq(Range(c)) /\ DOMAIN c = 1..L
  BY DEF PlacedOps, IsCircuit
<1>2. /\ d[n] = c[n + 1] /\ d[n + 1] = c[n]
      /\ \A k \in 1..L : k # n /\ k # n + 1 => d[k] = c[k]
  BY <1>1
<1>3. PICK h : Covers(h, c, L, a, B)
  BY DEF Certified
<1> HIDE DEF L, d
<1>4. /\ h \in [0..L -> Accounts] /\ Below(a, h[L]) /\ Below(h[0], B)
      /\ \A k \in 1..L : Below(Pulled(h[k], c[k]), h[k - 1])
  BY <1>3 DEF Covers
<1> DEFINE m == Pulled(h[n + 1], c[n])
           l == Pulled(h[n + 1], c[n + 1])
           g == [k \in 0..L |-> IF k = n THEN m ELSE h[k]]
<1>5. h[n + 1] \in Accounts /\ h[n] \in Accounts /\ h[n - 1] \in Accounts /\ Placed(c[n]) /\ Placed(c[n + 1])
  BY <1>1, <1>4
<1>6. m \in Accounts /\ l \in Accounts
  BY <1>5, PulledGrows
<1>7. Pulled(m, c[n + 1]) = Pulled(l, c[n])
  BY <1>5, PulledTrade
<1>8. Below(Pulled(l, c[n]), Pulled(h[n], c[n])) /\ Below(Pulled(h[n], c[n]), h[n - 1])
  <2>1. Below(l, h[n])
    BY <1>1, <1>4
  <2>2. QED
    BY <1>1, <1>4, <1>5, <1>6, <2>1, PulledMonotone
<1>9. Below(Pulled(m, c[n + 1]), h[n - 1])
  <2>1. Pulled(l, c[n]) \in Accounts /\ Pulled(h[n], c[n]) \in Accounts
    BY <1>5, <1>6, PulledGrows
  <2>2. QED
    BY <1>5, <1>7, <1>8, <2>1, BelowChain
<1>10. Below(m, m)
  BY <1>6, BelowSelf
<1>11. g \in [0..L -> Accounts] /\ g[0] = h[0] /\ Below(a, g[L])
  <2>1. L # n /\ 0 # n
    BY <1>1
  <2>2. QED
    BY <1>1, <1>4, <1>6, <2>1
<1>12. ASSUME NEW k \in 1..L PROVE Below(Pulled(g[k], d[k]), g[k - 1])
  <2>1. CASE k = n
    <3>1. g[k] = m /\ g[k - 1] = h[n - 1] /\ d[k] = c[n + 1]
      BY <1>1, <1>2, <2>1
    <3> HIDE DEF g, m
    <3>2. QED
      BY <1>9, <3>1
  <2>2. CASE k = n + 1
    <3>1. g[k] = h[n + 1] /\ g[k - 1] = m /\ d[k] = c[n]
      BY <1>1, <1>2, <2>2
    <3> HIDE DEF g
    <3>2. QED
      BY <1>10, <3>1
  <2>3. CASE k # n /\ k # n + 1
    <3>1. g[k] = h[k] /\ g[k - 1] = h[k - 1] /\ d[k] = c[k]
      BY <1>1, <1>2, <2>3
    <3> HIDE DEF g
    <3>2. QED
      BY <1>4, <3>1
  <2>4. QED
    BY <2>1, <2>2, <2>3
<1> HIDE DEF g
<1>13. Covers(g, d, L, a, B)
  BY <1>4, <1>11, <1>12 DEF Covers
<1>14. QED
  BY <1>13 DEF Certified, d, L

LEMMA CertifiedRetained ==
  ASSUME NEW c, PlacedOps(c), NEW a \in Accounts, NEW B \in Accounts, Certified(c, Len(c), a, B)
  PROVE  Certified(Retained(c), Len(Retained(c)), a, B)
<1> DEFINE L == Len(c)
           U == Range(c)
<1>1. L \in Nat /\ c \in Seq(U) /\ \A k \in 1..L : Placed(c[k]) /\ c[k] \in U
  BY DEF PlacedOps, IsCircuit
<1>2. \A x \in U : Placed(x)
  BY PlacedRange
<1> HIDE DEF L, U
<1>3. PICK f : /\ f \in [0..L -> Seq(U)] /\ f[0] = <<>> /\ Retained(c) = f[L]
               /\ \A m \in 1..L : f[m] = IF Kept(c[m]) THEN Append(f[m - 1], c[m]) ELSE f[m - 1]
  BY <1>1, RetainedUpto DEF L
<1>4. PICK h : Covers(h, c, L, a, B)
  BY DEF Certified, L
<1>5. /\ h \in [0..L -> Accounts] /\ Below(a, h[L]) /\ Below(h[0], B)
      /\ \A k \in 1..L : Below(Pulled(h[k], c[k]), h[k - 1])
  BY <1>4 DEF Covers
<1>6. \A k \in 1..L : h[k] \in Accounts /\ h[k - 1] \in Accounts /\ Below(h[k], h[k - 1])
  BY <1>1, <1>4, CoversGrows
<1> DEFINE P == {m \in 0..L : Certified(f[m], Len(f[m]), h[m], B)}
<1>7. 0 \in P
  <2> DEFINE g == [k \in 0..0 |-> h[0]]
  <2>1. h[0] \in Accounts /\ Below(h[0], h[0])
    BY <1>1, <1>5, BelowSelf
  <2>2. Covers(g, f[0], 0, h[0], B)
    BY <1>5, <2>1 DEF Covers
  <2>3. Certified(f[0], 0, h[0], B)
    <3> HIDE DEF g
    <3>1. QED
      BY <2>2 DEF Certified
  <2>4. Len(f[0]) = 0
    BY <1>3
  <2>5. QED
    BY <1>1, <2>3, <2>4
<1>8. ASSUME NEW m \in 1..L, m - 1 \in P PROVE m \in P
  <2> DEFINE s == f[m - 1]
             t == f[m]
             n == Len(s)
  <2>1. /\ s \in Seq(U) /\ n \in Nat /\ Certified(s, n, h[m - 1], B) /\ h[m] \in Accounts /\ h[m - 1] \in Accounts
        /\ Below(h[m], h[m - 1]) /\ Below(Pulled(h[m], c[m]), h[m - 1]) /\ Placed(c[m]) /\ c[m] \in U
    <3>1. Certified(f[m - 1], Len(f[m - 1]), h[m - 1], B)
      BY <1>8
    <3>2. f[m - 1] \in Seq(U) /\ Len(f[m - 1]) \in Nat
      BY <1>1, <1>3
    <3>3. QED
      <4>1. Below(h[m], h[m - 1]) /\ Below(Pulled(h[m], c[m]), h[m - 1]) /\ h[m] \in Accounts /\ h[m - 1] \in Accounts
        BY <1>5, <1>6
      <4> HIDE DEF P
      <4>2. Placed(c[m]) /\ c[m] \in U
        BY <1>1
      <4>3. QED
        BY <3>1, <3>2, <4>1, <4>2
  <2>2. t = IF Kept(c[m]) THEN Append(s, c[m]) ELSE s
    BY <1>3
  <2> HIDE DEF s, t
  <2>3. CASE Kept(c[m])
    <3>1. Len(t) = n + 1 /\ t[n + 1] = c[m] /\ \A k \in 1..n : t[k] = s[k]
      BY <2>1, <2>2, <2>3
    <3>2. Pulled(h[m], c[m]) \in Accounts
      BY <2>1, PulledGrows
    <3> HIDE DEF n
    <3>3. Certified(t, n, h[m - 1], B)
      BY <2>1, <3>1, CertifiedSame
    <3>4. Certified(t, n, Pulled(h[m], t[n + 1]), B)
      BY <2>1, <3>1, <3>2, <3>3, CertifiedLess
    <3>5. Certified(t, n + 1, h[m], B)
      BY <2>1, <3>1, <3>4, CertifiedAppend
    <3>6. QED
      BY <1>1, <3>1, <3>5 DEF t
  <2>4. CASE ~Kept(c[m])
    <3>1. Certified(s, n, h[m], B)
      <4> HIDE DEF n
      <4>1. QED
        BY <2>1, CertifiedLess
    <3>2. QED
      BY <1>1, <2>2, <2>4, <3>1 DEF t
  <2>5. QED
    BY <2>3, <2>4
<1> HIDE DEF P
<1>9. L \in P
  <2>1. \A m \in 0..L : m \in P
    BY <1>1, <1>7, <1>8, UpToInduction
  <2>2. QED
    BY <1>1, <2>1
<1>10. Certified(f[L], Len(f[L]), h[L], B) /\ h[L] \in Accounts
  BY <1>1, <1>5, <1>9 DEF P
<1>11. f[L] \in Seq(U) /\ Len(f[L]) \in Nat
  BY <1>1, <1>3
<1>12. Certified(f[L], Len(f[L]), a, B)
  BY <1>5, <1>10, <1>11, CertifiedLess
<1>13. QED
  BY <1>3, <1>12

-----------------------------------------------------------------------------
(* The account of one piece of the program of a gate.                      *)

\* A branching counts where its generator can anticommute with a string.
Turned(a, gx, gz) ==
    IF gz \cap a.xs = {} /\ gx \cap a.cone = {} THEN a
    ELSE Account(a.cone \cup gx \cup gz, a.xs \cup gx, a.n + 1)

PieceEffect(a, p) ==
    IF p.do = "map" THEN Pulled(a, p.g)
    ELSE IF p.do = "branch" THEN Turned(a, p.gx, p.gz)
    ELSE a

\* f[k] accounts for the sum after k pieces.
Passes(f, p) ==
    /\ f \in [0..Len(p) -> Accounts]
    /\ \A k \in 1..Len(p) : Below(PieceEffect(f[k - 1], p[k]), f[k])

LEMMA TurnedGrows ==
  ASSUME NEW a \in Accounts, NEW gx \in Basis, NEW gz \in Basis
  PROVE  Turned(a, gx, gz) \in Accounts /\ Below(a, Turned(a, gx, gz))
<1>1. a.cone \in Basis /\ a.xs \in Basis /\ a.xs \subseteq a.cone /\ a.n \in Nat
  BY AccountParts
<1> DEFINE c == a.cone \cup gx \cup gz
           x == a.xs \cup gx
<1>2. /\ c \in Basis /\ x \in Basis /\ x \subseteq c /\ a.cone \subseteq c /\ a.xs \subseteq x
      /\ a.n + 1 \in Nat /\ a.n <= a.n + 1
  BY <1>1 DEF Basis
<1>3. Turned(a, gx, gz) = a \/ Turned(a, gx, gz) = Account(c, x, a.n + 1)
  BY DEF Turned
<1> HIDE DEF c, x
<1>4. Account(c, x, a.n + 1) \in Accounts /\ Below(a, Account(c, x, a.n + 1))
  BY <1>2, AccountAbove
<1>5. QED
  BY <1>3, <1>4, BelowSelf

LEMMA PlacedClifford ==
  ASSUME NEW g \in CliffordGates
  PROVE  Placed(g) /\ Clifford(g)
<1>1. Clifford(g) /\ g.op \in OneMaps \cup TwoMaps /\ g.th = <<>> /\ g.qs \in Seq(Qubits) /\ {"op", "qs", "th"} \subseteq DOMAIN g
  BY DEF CliffordGates
<1>2. /\ g.op \in OneMaps => Len(g.qs) = 1
      /\ g.op \in TwoMaps => Len(g.qs) = 2
  BY <1>1 DEF Clifford, OneMaps, TwoMaps
<1>3. Angles(g.op) = 0
  BY <1>1 DEF OneMaps, TwoMaps, Angles
<1>4. g.th \in [1..Angles(g.op) -> Int]
  BY <1>1, <1>3
<1>5. QED
  BY <1>1, <1>2, <1>4 DEF Placed, OneMaps, TwoMaps, OneQubit, Controlled

LEMMA PieceGrows ==
  ASSUME NEW a \in Accounts, NEW p \in Pieces
  PROVE  PieceEffect(a, p) \in Accounts /\ Below(a, PieceEffect(a, p))
<1>1. CASE p.do = "map"
  <2>1. p.g \in CliffordGates
    BY <1>1 DEF Pieces
  <2>2. QED
    BY <1>1, <2>1, PlacedClifford, PulledGrows DEF PieceEffect
<1>2. CASE p.do = "branch"
  <2>1. p.gx \in Basis /\ p.gz \in Basis
    BY <1>2 DEF Pieces
  <2>2. QED
    BY <1>2, <2>1, TurnedGrows DEF PieceEffect
<1>3. CASE p.do \notin {"map", "branch"}
  BY <1>3, BelowSelf DEF PieceEffect
<1>4. QED
  BY <1>1, <1>2, <1>3

\* The next piece.
LEMMA PassesTail ==
  ASSUME NEW p \in Seq(Pieces), p # <<>>, NEW f, Passes(f, p)
  PROVE  \E g : Passes(g, Tail(p)) /\ g[0] = f[1] /\ g[Len(Tail(p))] = f[Len(p)]
<1> DEFINE L == Len(p)
           t == Tail(p)
           g == [k \in 0..(L - 1) |-> f[k + 1]]
<1>1. L \in Nat \ {0} /\ Len(t) = L - 1 /\ \A k \in 1..(L - 1) : t[k] = p[k + 1]
  OBVIOUS
<1>2. f \in [0..L -> Accounts] /\ \A k \in 1..L : Below(PieceEffect(f[k - 1], p[k]), f[k])
  BY DEF Passes
<1> HIDE DEF L, t
<1>3. g \in [0..(L - 1) -> Accounts] /\ g[0] = f[1] /\ g[L - 1] = f[L]
  BY <1>1, <1>2
<1>4. ASSUME NEW k \in 1..(L - 1) PROVE Below(PieceEffect(g[k - 1], t[k]), g[k])
  <2>1. g[k - 1] = f[k] /\ g[k] = f[k + 1] /\ t[k] = p[k + 1] /\ k + 1 \in 1..L /\ (k + 1) - 1 = k
    BY <1>1
  <2> HIDE DEF g
  <2>2. QED
    BY <1>2, <2>1
<1> HIDE DEF g
<1>5. Passes(g, t)
  BY <1>1, <1>3, <1>4 DEF Passes
<1>6. QED
  BY <1>1, <1>3, <1>5 DEF L, t

\* From the first account to the last.
LEMMA PassesGrow ==
  ASSUME NEW p \in Seq(Pieces), NEW f, Passes(f, p)
  PROVE  f[0] \in Accounts /\ f[Len(p)] \in Accounts /\ Below(f[0], f[Len(p)])
<1> DEFINE L == Len(p)
           P == {k \in 0..L : Below(f[0], f[k])}
<1>1. L \in Nat /\ \A k \in 1..L : p[k] \in Pieces
  OBVIOUS
<1>2. f \in [0..L -> Accounts] /\ \A k \in 1..L : Below(PieceEffect(f[k - 1], p[k]), f[k])
  BY DEF Passes
<1> HIDE DEF L
<1>3. f[0] \in Accounts /\ f[L] \in Accounts
  BY <1>1, <1>2
<1>4. 0 \in P
  BY <1>1, <1>3, BelowSelf
<1>5. \A k \in 1..L : k - 1 \in P => k \in P
  <2> TAKE k \in 1..L
  <2>1. f[k - 1] \in Accounts /\ f[k] \in Accounts
    BY <1>1, <1>2
  <2>2. PieceEffect(f[k - 1], p[k]) \in Accounts /\ Below(f[k - 1], PieceEffect(f[k - 1], p[k]))
    BY <1>1, <2>1, PieceGrows
  <2>3. Below(f[k - 1], f[k])
    BY <1>2, <2>1, <2>2, BelowChain
  <2>4. Below(f[0], f[k - 1]) => Below(f[0], f[k])
    BY <1>3, <2>1, <2>3, BelowChain
  <2>5. QED
    BY <1>1, <2>4
<1> HIDE DEF P
<1>6. \A k \in 0..L : k \in P
  BY <1>1, <1>4, <1>5, UpToInduction
<1>7. L \in P
  BY <1>1, <1>6
<1>8. QED
  BY <1>3, <1>7 DEF P, L

\* Pieces on wires of W, of which at most m branch, one after the other.
LEMMA HubPasses ==
  ASSUME NEW a \in Accounts, NEW W \in Basis, W \cap a.cone # {},
         NEW p \in Seq(Pieces), NEW lo \in Nat, NEW m \in Nat,
         \A k \in 1..Len(p) :
            /\ p[k].do = "branch" => lo < k /\ k <= lo + m /\ p[k].gx \subseteq W /\ p[k].gz \subseteq W
            /\ p[k].do = "map" => Range(p[k].g.qs) \subseteq W
  PROVE  \E f : Passes(f, p) /\ Below(a, f[0]) /\ Below(f[Len(p)], Account(a.cone \cup W, a.xs \cup W, a.n + m))
<1> DEFINE L == Len(p)
           c == a.cone \cup W
           x == a.xs \cup W
           cnt(k) == IF k <= lo THEN 0 ELSE IF k <= lo + m THEN k - lo ELSE m
           f == [k \in 0..L |-> Account(c, x, a.n + cnt(k))]
<1>1. a.cone \in Basis /\ a.xs \in Basis /\ a.xs \subseteq a.cone /\ a.n \in Nat
  BY AccountParts
<1>2. L \in Nat /\ \A k \in 1..L : p[k] \in Pieces
  OBVIOUS
<1>3. c \in Basis /\ x \in Basis /\ x \subseteq c /\ a.cone \subseteq c /\ a.xs \subseteq x /\ W \subseteq x /\ W \subseteq c
  BY <1>1 DEF Basis
<1>4. \A k \in 0..L : cnt(k) \in Nat /\ cnt(k) <= m /\ cnt(0) = 0
  BY <1>2
<1>5. \A k \in 1..L : /\ k - 1 \in 0..L /\ k \in 0..L
                      /\ cnt(k - 1) <= cnt(k)
                      /\ lo < k /\ k <= lo + m => cnt(k) = cnt(k - 1) + 1
  BY <1>2
<1> HIDE DEF L, c, x, cnt
<1>6. f \in [0..L -> Accounts]
  <2>1. ASSUME NEW k \in 0..L PROVE Account(c, x, a.n + cnt(k)) \in Accounts
    <3>1. a.n + cnt(k) \in Nat
      BY <1>1, <1>4
    <3>2. QED
      BY <1>3, <3>1, AccountMake
  <2>2. QED
    BY <2>1
<1>7. ASSUME NEW k \in 1..L PROVE Below(PieceEffect(f[k - 1], p[k]), f[k])
  <2> DEFINE u == Account(c, x, a.n + cnt(k - 1))
             w == Account(c, x, a.n + cnt(k))
  <2>1. f[k - 1] = u /\ f[k] = w
    BY <1>5
  <2>2. u \in Accounts /\ w \in Accounts
    BY <1>5, <1>6, <2>1
  <2>3. /\ u.cone = c /\ u.xs = x /\ u.n = a.n + cnt(k - 1)
        /\ w.cone = c /\ w.xs = x /\ w.n = a.n + cnt(k)
    BY DEF Account
  <2>4. /\ a.n + cnt(k - 1) \in Nat /\ a.n + cnt(k) \in Nat /\ a.n + cnt(k - 1) <= a.n + cnt(k)
        /\ lo < k /\ k <= lo + m => a.n + cnt(k) = a.n + cnt(k - 1) + 1
    BY <1>1, <1>4, <1>5
  <2> HIDE DEF u, w, f
  <2>5. Below(u, w)
    BY <2>3, <2>4 DEF Below
  <2>6. CASE p[k].do = "map"
    <3> DEFINE g == p[k].g
               V == Range(g.qs)
    <3>1. g \in CliffordGates /\ V \subseteq W
      <4>1. p[k] \in Pieces
        BY <1>2
      <4>2. g \in CliffordGates
        BY <2>6, <4>1 DEF Pieces
      <4>3. QED
        BY <2>6, <4>2 DEF L
    <3>2. Placed(g) /\ Clifford(g) /\ g.op \in OneMaps \cup TwoMaps
      BY <3>1, PlacedClifford DEF CliffordGates
    <3>3. g.op \notin Turns /\ branch_calls(g) = 0
      BY <3>2 DEF OneMaps, TwoMaps, Turns, branch_calls
    <3>4. u.cone \cup V = c /\ u.xs \cup V = x
      BY <1>3, <2>3, <3>1
    <3>5. g.op = "CX" => g.qs[2] \in V
      BY <3>2, CallsOf
    <3>6. (IF g.qs[1] \in u.xs THEN u.xs \cup {g.qs[2]} ELSE u.xs) = x \/ g.op # "CX"
      BY <1>3, <2>3, <3>1, <3>5
    <3>7. u.n + 0 = u.n
      BY <2>3, <2>4
    <3>8. Pulled(u, g) = u \/ Pulled(u, g) = Account(c, x, u.n)
      BY <3>3, <3>4, <3>6, <3>7, <2>3 DEF Pulled
    <3>9. Pulled(u, g) = u
      BY <3>8, <2>3 DEF u
    <3>10. QED
      BY <2>1, <2>5, <2>6, <3>9 DEF PieceEffect
  <2>7. CASE p[k].do = "branch"
    <3>1. p[k].gx \subseteq W /\ p[k].gz \subseteq W /\ lo < k /\ k <= lo + m
      BY <2>7 DEF L
    <3>2. u.cone \cup p[k].gx \cup p[k].gz = c /\ u.xs \cup p[k].gx = x
      BY <1>3, <2>3, <3>1
    <3>3. u.n + 1 = a.n + cnt(k)
      BY <2>3, <2>4, <3>1
    <3>4. Turned(u, p[k].gx, p[k].gz) = u \/ Turned(u, p[k].gx, p[k].gz) = w
      BY <3>2, <3>3 DEF Turned, w
    <3>5. QED
      BY <2>1, <2>2, <2>5, <2>7, <3>4, BelowSelf DEF PieceEffect
  <2>8. CASE p[k].do \notin {"map", "branch"}
    BY <2>1, <2>5, <2>8 DEF PieceEffect
  <2>9. QED
    BY <2>6, <2>7, <2>8
<1>8. f[0] = Account(c, x, a.n + cnt(0)) /\ f[L] = Account(c, x, a.n + cnt(L))
  BY <1>2
<1>9. cnt(0) = 0 /\ cnt(L) \in Nat /\ cnt(L) <= m
  BY <1>2, <1>4
<1> HIDE DEF f
<1>10. Below(a, f[0]) /\ Below(f[L], Account(c, x, a.n + m))
  BY <1>1, <1>3, <1>8, <1>9 DEF Below, Account
<1>11. Passes(f, p)
  BY <1>6, <1>7 DEF Passes, L
<1>12. QED
  BY <1>10, <1>11 DEF L, c, x

\* Pieces on wires that carry no letter.
LEMMA ClearPasses ==
  ASSUME NEW a \in Accounts, NEW W \in Basis, W \cap a.cone = {}, NEW p \in Seq(Pieces),
         \A k \in 1..Len(p) :
            /\ p[k].do = "branch" => p[k].gx \subseteq W /\ p[k].gz \subseteq W
            /\ p[k].do = "map" => Range(p[k].g.qs) \subseteq W
  PROVE  \E f : Passes(f, p) /\ Below(a, f[0]) /\ Below(f[Len(p)], a)
<1> DEFINE L == Len(p)
           f == [k \in 0..L |-> a]
<1>1. a.xs \subseteq a.cone
  BY AccountParts
<1>2. L \in Nat /\ \A k \in 1..L : p[k] \in Pieces
  OBVIOUS
<1>3. f \in [0..L -> Accounts] /\ \A k \in 1..L : f[k - 1] = a /\ f[k] = a
  BY <1>2
<1>4. f[0] = a /\ f[L] = a
  BY <1>2
<1> HIDE DEF f
<1>5. ASSUME NEW k \in 1..L PROVE PieceEffect(a, p[k]) = a
  <2>1. CASE p[k].do = "map"
    <3>1. p[k].g \in CliffordGates
      BY <1>2, <2>1 DEF Pieces
    <3>2. p[k].g.op \notin Turns
      BY <3>1 DEF CliffordGates, OneMaps, TwoMaps, Turns
    <3>3. Range(p[k].g.qs) \cap a.cone = {}
      BY <2>1
    <3>4. QED
      BY <2>1, <3>2, <3>3 DEF PieceEffect, Pulled
  <2>2. CASE p[k].do = "branch"
    BY <1>1, <2>2 DEF PieceEffect, Turned
  <2>3. CASE p[k].do \notin {"map", "branch"}
    BY <2>3 DEF PieceEffect
  <2>4. QED
    BY <2>1, <2>2, <2>3
<1>6. Passes(f, p)
  BY <1>3, <1>5, BelowSelf DEF Passes
<1>7. QED
  BY <1>4, <1>6, BelowSelf

\* A run of n branchings, and a run of maps, on wires of W.
Turning(p, W, n) ==
    /\ p \in Seq(Pieces) /\ Len(p) = n
    /\ \A k \in 1..n : p[k].do = "branch" /\ p[k].gx \subseteq W /\ p[k].gz \subseteq W
Moving(p, W) ==
    /\ p \in Seq(Pieces)
    /\ \A k \in 1..Len(p) : p[k].do = "map" /\ Range(p[k].g.qs) \subseteq W

\* All branchings of p are among the m pieces after the first lo.
Spans(p, W, lo, m) ==
    /\ p \in Seq(Pieces) /\ lo \in Nat /\ m \in Nat
    /\ \A k \in 1..Len(p) :
         /\ p[k].do = "branch" => lo < k /\ k <= lo + m /\ p[k].gx \subseteq W /\ p[k].gz \subseteq W
         /\ p[k].do = "map" => Range(p[k].g.qs) \subseteq W

LEMMA TurningOne ==
  ASSUME NEW W \in Basis, NEW x \in SUBSET W, NEW z \in SUBSET W, NEW th \in Int
  PROVE  Turning(Branch(x, z, th), W, 1)
<1>1. x \in Basis /\ z \in Basis
  BY DEF Basis
<1>2. Branch(x, z, th) \in Seq(Pieces)
  BY <1>1, BranchPiece
<1>3. Branch(x, z, th) = <<[do |-> "branch", gx |-> x, gz |-> z, th |-> th]>>
  BY DEF Branch
<1>4. Len(Branch(x, z, th)) = 1 /\ Branch(x, z, th)[1] = [do |-> "branch", gx |-> x, gz |-> z, th |-> th]
  BY <1>3
<1>5. QED
  BY <1>2, <1>4 DEF Turning

LEMMA TurningJoined ==
  ASSUME NEW W, NEW m \in Nat, NEW n \in Nat, NEW l, l = m + n,
         NEW s, NEW t, Turning(s, W, m), Turning(t, W, n)
  PROVE  Turning(s \o t, W, l)
<1>1. s \in Seq(Pieces) /\ t \in Seq(Pieces) /\ Len(s) = m /\ Len(t) = n
  BY DEF Turning
<1>2. /\ s \o t \in Seq(Pieces) /\ Len(s \o t) = m + n
      /\ \A k \in 1..(m + n) : (s \o t)[k] = IF k <= m THEN s[k] ELSE t[k - m]
  BY <1>1, Joint
<1>3. ASSUME NEW k \in 1..(m + n)
      PROVE  (s \o t)[k].do = "branch" /\ (s \o t)[k].gx \subseteq W /\ (s \o t)[k].gz \subseteq W
  <2>1. CASE k <= m
    BY <1>2, <2>1 DEF Turning
  <2>2. CASE k > m
    <3>1. k - m \in 1..n /\ (s \o t)[k] = t[k - m]
      BY <1>2, <2>2
    <3>2. QED
      BY <3>1 DEF Turning
  <2>3. k <= m \/ k > m
    OBVIOUS
  <2>4. QED
    BY <2>1, <2>2, <2>3
<1>4. QED
  BY <1>2, <1>3 DEF Turning

LEMMA MovingOne ==
  ASSUME NEW W, NEW op, NEW qs \in Seq(Qubits), Range(qs) \subseteq W,
         \/ op \in OneMaps /\ Len(qs) = 1
         \/ op \in TwoMaps /\ Len(qs) = 2 /\ qs[1] # qs[2]
  PROVE  Moving(Map(op, qs), W)
<1>1. Map(op, qs) \in Seq(Pieces)
  BY MapPiece
<1>2. Map(op, qs) = <<[do |-> "map", g |-> Gate(op, qs)]>> /\ Gate(op, qs).qs = qs
  BY DEF Map, Gate
<1>3. Len(Map(op, qs)) = 1 /\ Map(op, qs)[1] = [do |-> "map", g |-> Gate(op, qs)]
  BY <1>2
<1>4. QED
  BY <1>1, <1>2, <1>3 DEF Moving

LEMMA MovingJoined ==
  ASSUME NEW W, NEW s, NEW t, Moving(s, W), Moving(t, W)
  PROVE  Moving(s \o t, W)
<1>1. s \in Seq(Pieces) /\ t \in Seq(Pieces)
  BY DEF Moving
<1>2. /\ s \o t \in Seq(Pieces) /\ Len(s \o t) = Len(s) + Len(t)
      /\ \A k \in 1..(Len(s) + Len(t)) : (s \o t)[k] = IF k <= Len(s) THEN s[k] ELSE t[k - Len(s)]
  BY <1>1, Joint
<1>3. ASSUME NEW k \in 1..(Len(s) + Len(t))
      PROVE  LET p == (s \o t)[k] IN p.do = "map" /\ Range(p.g.qs) \subseteq W
  <2>1. CASE k <= Len(s)
    BY <1>1, <1>2, <2>1 DEF Moving
  <2>2. CASE k > Len(s)
    <3>1. k - Len(s) \in 1..Len(t) /\ (s \o t)[k] = t[k - Len(s)]
      BY <1>1, <1>2, <2>2
    <3>2. QED
      BY <3>1 DEF Moving
  <2>3. QED
    BY <1>1, <2>1, <2>2
<1>4. QED
  BY <1>2, <1>3 DEF Moving

LEMMA SpansTurning ==
  ASSUME NEW W, NEW n \in Nat, NEW p, Turning(p, W, n)
  PROVE  Spans(p, W, 0, n)
BY DEF Turning, Spans

LEMMA SpansBetween ==
  ASSUME NEW W, NEW n \in Nat, NEW s, NEW t, NEW u, Moving(s, W), Turning(t, W, n), Moving(u, W)
  PROVE  Spans((s \o t) \o u, W, Len(s), n) /\ Len((s \o t) \o u) >= n
<1> DEFINE l == Len(s)
           st == s \o t
           p == st \o u
<1>1. /\ s \in Seq(Pieces) /\ t \in Seq(Pieces) /\ u \in Seq(Pieces) /\ Len(t) = n
      /\ l \in Nat /\ Len(u) \in Nat
  BY DEF Turning, Moving
<1>2. /\ st \in Seq(Pieces) /\ Len(st) = l + n
      /\ \A k \in 1..(l + n) : st[k] = IF k <= l THEN s[k] ELSE t[k - l]
  BY <1>1, Joint
<1> HIDE DEF st
<1>3. /\ p \in Seq(Pieces) /\ Len(p) = l + n + Len(u)
      /\ \A k \in 1..(l + n + Len(u)) : p[k] = IF k <= l + n THEN st[k] ELSE u[k - (l + n)]
  <2> HIDE DEF p, l
  <2>1. st \in Seq(Pieces) /\ Len(st) = l + n
    BY <1>2
  <2>0. u \in Seq(Pieces)
    BY <1>1
  <2>2. /\ st \o u \in Seq(Pieces) /\ Len(st \o u) = Len(st) + Len(u)
        /\ \A k \in 1..(Len(st) + Len(u)) :
             (st \o u)[k] = IF k <= Len(st) THEN st[k] ELSE u[k - Len(st)]
    BY <2>0, <2>1, Joint
  <2>3. QED
    BY <2>1, <2>2 DEF p
<1> HIDE DEF p
<1>4. ASSUME NEW k \in 1..Len(p)
      PROVE  /\ p[k].do = "branch" => l < k /\ k <= l + n /\ p[k].gx \subseteq W /\ p[k].gz \subseteq W
             /\ p[k].do = "map" => Range(p[k].g.qs) \subseteq W
  <2>1. CASE k <= l
    <3>1. p[k] = s[k] /\ k \in 1..Len(s)
      BY <1>1, <1>2, <1>3, <2>1
    <3>2. QED
      BY <3>1 DEF Moving
  <2>2. CASE l < k /\ k <= l + n
    <3>1. k - l \in 1..n /\ p[k] = t[k - l]
      BY <1>1, <1>2, <1>3, <2>2
    <3>2. QED
      BY <2>2, <3>1 DEF Turning
  <2>3. CASE l + n < k
    <3>1. k - (l + n) \in 1..Len(u) /\ p[k] = u[k - (l + n)]
      BY <1>1, <1>3, <2>3
    <3>2. QED
      BY <3>1 DEF Moving
  <2>4. QED
    BY <1>1, <1>3, <2>1, <2>2, <2>3
<1>5. QED
  BY <1>1, <1>3, <1>4 DEF Spans, p, st

\* The pieces of a gate on W with the calls that it is priced at.
LEMMA SpansPasses ==
  ASSUME NEW g, Placed(g), g.op \notin Quiet \cup Turns \cup {"CX", "CZ"},
         NEW a \in Accounts, NEW p, NEW lo, NEW m, Spans(p, Range(g.qs), lo, m), m = branch_calls(g)
  PROVE  \E f : Passes(f, p) /\ Below(a, f[0]) /\ Below(f[Len(p)], Pulled(a, g))
<1> DEFINE W == Range(g.qs)
<1>1. W \in Basis
  BY CallsOf
<1>2. /\ p \in Seq(Pieces) /\ lo \in Nat /\ m \in Nat
      /\ \A k \in 1..Len(p) :
         /\ p[k].do = "branch" => lo < k /\ k <= lo + m /\ p[k].gx \subseteq W /\ p[k].gz \subseteq W
         /\ p[k].do = "map" => Range(p[k].g.qs) \subseteq W
  BY DEF Spans
<1>3. Pulled(a, g) = IF W \cap a.cone = {} THEN a ELSE Account(a.cone \cup W, a.xs \cup W, a.n + m)
  BY DEF Pulled
<1> HIDE DEF W
<1>4. CASE W \cap a.cone = {}
  <2>1. \E f : Passes(f, p) /\ Below(a, f[0]) /\ Below(f[Len(p)], a)
    BY <1>1, <1>2, <1>4, ClearPasses
  <2>2. QED
    BY <1>3, <1>4, <2>1
<1>5. CASE W \cap a.cone # {}
  <2>1. \E f : Passes(f, p) /\ Below(a, f[0]) /\ Below(f[Len(p)], Account(a.cone \cup W, a.xs \cup W, a.n + m))
    BY <1>1, <1>2, <1>5, HubPasses
  <2>2. QED
    BY <1>3, <1>5, <2>1
<1>6. QED
  BY <1>4, <1>5

\* One piece.
LEMMA OnePasses ==
  ASSUME NEW a \in Accounts, NEW r \in Pieces
  PROVE  \E f : Passes(f, <<r>>) /\ Below(a, f[0]) /\ Below(f[Len(<<r>>)], PieceEffect(a, r))
<1> DEFINE b == PieceEffect(a, r)
           f == [k \in 0..1 |-> IF k = 0 THEN a ELSE b]
<1>1. b \in Accounts
  BY PieceGrows
<1>2. f \in [0..1 -> Accounts] /\ f[0] = a /\ f[1] = b
  BY <1>1
<1>3. Below(a, a) /\ Below(b, b)
  BY <1>1, BelowSelf
<1> HIDE DEF f
<1>4. Len(<<r>>) = 1 /\ <<r>>[1] = r
  OBVIOUS
<1>5. \A k \in 1..1 : Below(PieceEffect(f[k - 1], <<r>>[k]), f[k])
  BY <1>2, <1>3, <1>4
<1>6. Passes(f, <<r>>)
  BY <1>2, <1>4, <1>5 DEF Passes
<1>7. QED
  BY <1>2, <1>3, <1>4, <1>6

\* What the engine runs for a gate.
Pieced(g) == IF Program(g) = <<>> THEN <<[do |-> "nothing"]>> ELSE Program(g)

Accounted(g, p, a) == p # <<>> /\ \E f : Passes(f, p) /\ Below(a, f[0]) /\ Below(f[Len(p)], Pulled(a, g))

LEMMA MapAccounted ==
  ASSUME NEW g, Placed(g), Dispatched(g), g.op \in OneMaps \cup TwoMaps, NEW a \in Accounts
  PROVE  Accounted(g, Program(g), a)
<1>1. Program(g) = <<[do |-> "map", g |-> Gate(g.op, g.qs)]>>
  BY DEF Program, Map, OneMaps, TwoMaps
<1>2. Program(g) \in Seq(Pieces)
  BY ProgramPieces
<1> DEFINE r == [do |-> "map", g |-> Gate(g.op, g.qs)]
<1>3. r \in Pieces
  BY <1>1, <1>2
<1>4. PieceEffect(a, r) = Pulled(a, Gate(g.op, g.qs)) /\ Gate(g.op, g.qs).op = g.op /\ Gate(g.op, g.qs).qs = g.qs
  BY DEF PieceEffect, Gate
<1>5. PieceEffect(a, r) = Pulled(a, g)
  BY <1>4, PulledSame
<1> HIDE DEF r
<1>6. Program(g) = <<r>>
  BY <1>1 DEF r
<1>7. QED
  BY <1>3, <1>5, <1>6, OnePasses DEF Accounted

LEMMA TurnAccounted ==
  ASSUME NEW g, Placed(g), Dispatched(g), g.op \in Turns, NEW a \in Accounts
  PROVE  Accounted(g, Program(g), a)
<1> DEFINE q == g.qs[1]
<1>1. \E th : Program(g) = <<[do |-> "branch", gx |-> {}, gz |-> {q}, th |-> th]>>
  BY DEF Program, Branch, Turns
<1>2. PICK th : Program(g) = <<[do |-> "branch", gx |-> {}, gz |-> {q}, th |-> th]>>
  BY <1>1
<1>3. Program(g) \in Seq(Pieces)
  BY ProgramPieces
<1> DEFINE r == [do |-> "branch", gx |-> {}, gz |-> {q}, th |-> th]
<1>4. r \in Pieces
  BY <1>2, <1>3
<1>5. PieceEffect(a, r) = Turned(a, {}, {q})
  BY DEF PieceEffect
<1>6. a.xs \subseteq a.cone
  BY AccountParts
<1>7. Pulled(a, g) = IF q \in a.xs THEN Account(a.cone, a.xs, a.n + 1) ELSE a
  BY DEF Pulled, Turns, Quiet
<1>8. q \in a.xs => a.cone \cup {} \cup {q} = a.cone
  BY <1>6
<1>9. Turned(a, {}, {q}) = Pulled(a, g)
  BY <1>7, <1>8 DEF Turned
<1> HIDE DEF r
<1>10. Program(g) = <<r>>
  BY <1>2 DEF r
<1>11. QED
  BY <1>4, <1>5, <1>9, <1>10, OnePasses DEF Accounted

LEMMA TurningMore ==
  ASSUME NEW W, NEW n \in Nat, NEW l, l = n + 1, NEW s, Turning(s, W, n), NEW t, Turning(t, W, 1)
  PROVE  Turning(s \o t, W, l)
BY TurningJoined

LEMMA SevenTurning ==
  ASSUME NEW a \in Qubits, NEW b \in Qubits, NEW t \in Qubits, NEW W \in Basis, {a, b, t} \subseteq W
  PROVE  Turning(Seven(a, b, t), W, 7)
<1>1. 1 \in Int /\ -1 \in Int
  OBVIOUS
<1> DEFINE p1 == Branch({}, {a}, -1)
           p2 == Branch({}, {b}, -1)
           p3 == Branch({}, {t}, -1)
           p4 == Branch({}, {a, b}, 1)
           p5 == Branch({}, {a, t}, 1)
           p6 == Branch({}, {b, t}, 1)
           p7 == Branch({}, {a, b, t}, -1)
<1>2. /\ {} \subseteq W /\ {a} \subseteq W /\ {b} \subseteq W /\ {t} \subseteq W
      /\ {a, b} \subseteq W /\ {a, t} \subseteq W /\ {b, t} \subseteq W
  OBVIOUS
<1>3. /\ Turning(p1, W, 1) /\ Turning(p2, W, 1) /\ Turning(p3, W, 1) /\ Turning(p4, W, 1)
      /\ Turning(p5, W, 1) /\ Turning(p6, W, 1) /\ Turning(p7, W, 1)
  BY <1>1, <1>2, TurningOne
<1>4. Seven(a, b, t) = p1 \o p2 \o p3 \o p4 \o p5 \o p6 \o p7
  BY DEF Seven
<1> HIDE DEF p1, p2, p3, p4, p5, p6, p7
<1>5. Turning(p1 \o p2, W, 2)
  <2>1. Turning(p1, W, 1) /\ Turning(p2, W, 1)
    BY <1>3
  <2>2. 2 = 1 + 1 /\ 1 \in Nat /\ 1 \in Nat
    OBVIOUS
  <2>3. QED
    BY <2>1, <2>2, TurningMore
<1>6. Turning(p1 \o p2 \o p3, W, 3)
  <2>1. Turning(p1 \o p2, W, 2) /\ Turning(p3, W, 1)
    BY <1>3, <1>5
  <2>2. 3 = 2 + 1 /\ 2 \in Nat /\ 1 \in Nat
    OBVIOUS
  <2>3. QED
    BY <2>1, <2>2, TurningMore
<1>7. Turning(p1 \o p2 \o p3 \o p4, W, 4)
  <2>1. Turning(p1 \o p2 \o p3, W, 3) /\ Turning(p4, W, 1)
    BY <1>3, <1>6
  <2>2. 4 = 3 + 1 /\ 3 \in Nat /\ 1 \in Nat
    OBVIOUS
  <2>3. QED
    BY <2>1, <2>2, TurningMore
<1>8. Turning(p1 \o p2 \o p3 \o p4 \o p5, W, 5)
  <2>1. Turning(p1 \o p2 \o p3 \o p4, W, 4) /\ Turning(p5, W, 1)
    BY <1>3, <1>7
  <2>2. 5 = 4 + 1 /\ 4 \in Nat /\ 1 \in Nat
    OBVIOUS
  <2>3. QED
    BY <2>1, <2>2, TurningMore
<1>9. Turning(p1 \o p2 \o p3 \o p4 \o p5 \o p6, W, 6)
  <2>1. Turning(p1 \o p2 \o p3 \o p4 \o p5, W, 5) /\ Turning(p6, W, 1)
    BY <1>3, <1>8
  <2>2. 6 = 5 + 1 /\ 5 \in Nat /\ 1 \in Nat
    OBVIOUS
  <2>3. QED
    BY <2>1, <2>2, TurningMore
<1>10. Turning(p1 \o p2 \o p3 \o p4 \o p5 \o p6 \o p7, W, 7)
  <2>1. Turning(p1 \o p2 \o p3 \o p4 \o p5 \o p6, W, 6) /\ Turning(p7, W, 1)
    BY <1>3, <1>9
  <2>2. 7 = 6 + 1 /\ 6 \in Nat /\ 1 \in Nat
    OBVIOUS
  <2>3. QED
    BY <2>1, <2>2, TurningMore
<1>11. QED
  BY <1>4, <1>10

\* The gates that are compiled to several branchings.
LEMMA TurningAccounted ==
  ASSUME NEW g, Placed(g), g.op \notin Quiet \cup Turns \cup {"CX", "CZ"},
         NEW a \in Accounts, Turning(Program(g), Range(g.qs), branch_calls(g)), branch_calls(g) \in Nat \ {0}
  PROVE  Accounted(g, Program(g), a)
<1>1. Spans(Program(g), Range(g.qs), 0, branch_calls(g))
  BY SpansTurning
<1>2. Program(g) # <<>>
  BY DEF Turning
<1>3. QED
  BY <1>1, <1>2, SpansPasses DEF Accounted

LEMMA RotationAccounted ==
  ASSUME NEW g, Placed(g), Dispatched(g), g.op \in {"Rx", "Ry", "CRz", "CU3", "U2", "U3", "Rbs"},
         NEW a \in Accounts
  PROVE  Accounted(g, Program(g), a)
<1> DEFINE q == g.qs[1]
           r == g.qs[Len(g.qs)]
           W == Range(g.qs)
<1>1. W \in Basis /\ q \in W /\ r \in W
  <2>1. g.qs \in Seq(Qubits) /\ Len(g.qs) \in {1, 2}
    BY DEF Placed, OneQubit, Controlled
  <2>2. QED
    BY <2>1, CallsOf DEF Range
<1>2. /\ {} \in SUBSET W /\ {q} \in SUBSET W /\ {r} \in SUBSET W /\ {q, r} \in SUBSET W
  BY <1>1
<1>3. \A x, z \in SUBSET W, th \in Int : Turning(Branch(x, z, th), W, 1)
  BY <1>1, TurningOne
<1>4. \A m \in Int : m \div 2 \in Int /\ -m \in Int /\ -(m \div 2) \in Int
  OBVIOUS
<1>5. /\ g.th \in [1..Angles(g.op) -> Int]
      /\ g.op \in {"Rx", "Ry", "CRz", "Rbs"} => g.th[1] \in Int
      /\ g.op = "U2" => g.th[1] \in Int /\ g.th[2] \in Int
      /\ g.op \in {"U3", "CU3"} => g.th[1] \in Int /\ g.th[2] \in Int /\ g.th[3] \in Int
  BY DEF Placed, Angles
<1>6. g.op \notin Quiet \cup Turns \cup {"CX", "CZ"}
  BY DEF Quiet, Turns
<1>0. 2 = 1 + 1 /\ 3 = 2 + 1
  OBVIOUS
<1>7. Turning(Program(g), W, branch_calls(g)) /\ branch_calls(g) \in Nat \ {0}
  <2>1. CASE g.op = "Rx"
    <3>1. Program(g) = Branch({q}, {}, g.th[1]) /\ branch_calls(g) = 1
      BY <2>1 DEF Program, branch_calls
    <3> HIDE DEF q, r, W
    <3>2. QED
      BY <1>2, <1>3, <1>5, <2>1, <3>1
  <2>2. CASE g.op = "Ry"
    <3>1. Program(g) = Branch({q}, {q}, g.th[1]) /\ branch_calls(g) = 1
      BY <2>2 DEF Program, branch_calls
    <3> HIDE DEF q, r, W
    <3>2. QED
      BY <1>2, <1>3, <1>5, <2>2, <3>1
  <2>3. CASE g.op = "CRz"
    <3> DEFINE b == Branch({}, {r}, g.th[1] \div 2)
               c == Branch({}, {q, r}, -(g.th[1] \div 2))
    <3>1. Program(g) = b \o c /\ branch_calls(g) = 2
      BY <2>3 DEF Program, branch_calls
    <3>2. Turning(b, W, 1) /\ Turning(c, W, 1)
      <4>1. g.th[1] \div 2 \in Int /\ -(g.th[1] \div 2) \in Int
        BY <1>4, <1>5, <2>3
      <4> HIDE DEF q, r, W
      <4>2. QED
        BY <1>2, <1>3, <4>1
    <3> HIDE DEF b, c, W
    <3>3. Turning(b \o c, W, 2)
      BY <1>0, <3>2, TurningJoined
    <3>4. QED
      BY <3>1, <3>3
  <2>4. CASE g.op = "Rbs"
    <3> DEFINE b == Branch({q, r}, {q}, g.th[1])
               c == Branch({q, r}, {r}, -g.th[1])
    <3>1. Program(g) = b \o c /\ branch_calls(g) = 2
      BY <2>4 DEF Program, branch_calls
    <3>2. Turning(b, W, 1) /\ Turning(c, W, 1)
      <4>1. g.th[1] \in Int /\ -g.th[1] \in Int
        BY <1>4, <1>5, <2>4
      <4> HIDE DEF q, r, W
      <4>2. QED
        BY <1>2, <1>3, <4>1
    <3> HIDE DEF b, c, W
    <3>3. Turning(b \o c, W, 2)
      BY <1>0, <3>2, TurningJoined
    <3>4. QED
      BY <3>1, <3>3
  <2>5. CASE g.op = "CU3"
    <3> DEFINE b == Branch({}, {q}, g.th[3] \div 2)
               c == Branch({}, {r}, g.th[3] \div 2)
               d == Branch({}, {q, r}, -(g.th[3] \div 2))
    <3>1. Program(g) = (b \o c) \o d /\ branch_calls(g) = 3
      BY <2>5 DEF Program, branch_calls
    <3>2. Turning(b, W, 1) /\ Turning(c, W, 1) /\ Turning(d, W, 1)
      <4>1. g.th[3] \div 2 \in Int /\ -(g.th[3] \div 2) \in Int
        BY <1>4, <1>5, <2>5
      <4> HIDE DEF q, r, W
      <4>2. QED
        BY <1>2, <1>3, <4>1
    <3> HIDE DEF b, c, d, W
    <3>3. Turning(b \o c, W, 2)
      BY <1>0, <3>2, TurningJoined
    <3>4. Turning((b \o c) \o d, W, 3)
      BY <1>0, <3>2, <3>3, TurningJoined
    <3>5. QED
      BY <3>1, <3>4
  <2>6. CASE g.op \in {"U2", "U3"}
    <3>1. \E x, y, z \in Int : Program(g) = Euler(q, x, y, z)
      <4>1. g.op = "U3" => Program(g) = Euler(q, g.th[1], g.th[2], g.th[3])
        BY DEF Program
      <4>2. g.op = "U2" => Program(g) = Euler(q, 2, g.th[1], g.th[2])
        BY DEF Program
      <4> HIDE DEF q
      <4>3. 2 \in Int
        OBVIOUS
      <4>4. QED
        BY <1>5, <2>6, <4>1, <4>2, <4>3
    <3>2. PICK x \in Int, y \in Int, z \in Int : Program(g) = Euler(q, x, y, z)
      BY <3>1
    <3> DEFINE b == Branch({}, {q}, y)
               c == Branch({q}, {q}, x)
               d == Branch({}, {q}, z)
    <3>3. Program(g) = (b \o c) \o d
      BY <3>2 DEF Euler
    <3>4. branch_calls(g) = 3
      BY <2>6 DEF branch_calls
    <3>5. Turning(b, W, 1) /\ Turning(c, W, 1) /\ Turning(d, W, 1)
      <4> HIDE DEF q, r, W
      <4>2. QED
        BY <1>2, <1>3
    <3> HIDE DEF b, c, d, W
    <3>6. Turning(b \o c, W, 2)
      BY <1>0, <3>5, TurningJoined
    <3>7. Turning((b \o c) \o d, W, 3)
      BY <1>0, <3>5, <3>6, TurningJoined
    <3>8. QED
      BY <3>3, <3>4, <3>7
  <2>7. QED
    BY <2>1, <2>2, <2>3, <2>4, <2>5, <2>6
<1>8. QED
  BY <1>6, <1>7, TurningAccounted

LEMMA ToffoliAccounted ==
  ASSUME NEW g, Placed(g), Dispatched(g), g.op \in {"CCX", "CSwap"}, NEW a \in Accounts
  PROVE  Accounted(g, Program(g), a)
<1> DEFINE q == g.qs[1]
           b == g.qs[2]
           r == g.qs[Len(g.qs)]
           W == Range(g.qs)
           h == Map("H", <<r>>)
           x == Map("CX", <<r, b>>)
           s == Seven(q, b, r)
<1>1. g.qs \in Seq(Qubits) /\ Len(g.qs) = 3
  BY DEF Placed
<1>2. q \in Qubits /\ b \in Qubits /\ r \in Qubits /\ r # b /\ W \in Basis /\ {q, b, r} \subseteq W
  BY <1>1, DifferentWires, CallsOf DEF Range
<1>3. g.op = "CCX" => Program(g) = h \o s \o h
  BY DEF Program
<1>4. g.op = "CSwap" => Program(g) = x \o h \o s \o h \o x
  BY DEF Program
<1>5. branch_calls(g) = 7 /\ g.op \notin Quiet \cup Turns \cup {"CX", "CZ"}
  BY DEF branch_calls, Quiet, Turns
<1> HIDE DEF q, b, r, W
<1>6. Moving(h, W)
  <2>1. <<r>> \in Seq(Qubits) /\ Len(<<r>>) = 1 /\ Range(<<r>>) \subseteq W
    BY <1>2 DEF Range
  <2>2. QED
    BY <2>1, MovingOne DEF OneMaps
<1>7. Moving(x, W)
  <2>1. <<r, b>> \in Seq(Qubits) /\ Len(<<r, b>>) = 2 /\ <<r, b>>[1] # <<r, b>>[2] /\ Range(<<r, b>>) \subseteq W
    BY <1>2 DEF Range
  <2>2. QED
    BY <2>1, MovingOne DEF TwoMaps
<1>8. Turning(s, W, 7)
  BY <1>2, SevenTurning
<1> HIDE DEF h, x, s
<1>9. CASE g.op = "CCX"
  <2>1. Spans((h \o s) \o h, W, Len(h), 7) /\ Len((h \o s) \o h) >= 7
    BY <1>6, <1>8, SpansBetween
  <2>2. Program(g) = (h \o s) \o h
    BY <1>3, <1>9
  <2>3. Spans(Program(g), W, Len(h), 7) /\ Program(g) # <<>>
    <3> DEFINE p == (h \o s) \o h
    <3>1. Len(p) >= 7
      BY <2>1
    <3> HIDE DEF p
    <3>2. p # <<>>
      BY <3>1
    <3>3. QED
      BY <2>1, <2>2, <3>2 DEF p
  <2>4. QED
    BY <1>5, <2>3, SpansPasses DEF Accounted, W
<1>10. CASE g.op = "CSwap"
  <2>1. Moving(x \o h, W) /\ Moving(h \o x, W)
    BY <1>6, <1>7, MovingJoined
  <2>2. Spans(((x \o h) \o s) \o (h \o x), W, Len(x \o h), 7) /\ Len(((x \o h) \o s) \o (h \o x)) >= 7
    BY <1>8, <2>1, SpansBetween
  <2>3. Program(g) = ((x \o h) \o s) \o (h \o x)
    <3>1. h \in Seq(Pieces) /\ x \in Seq(Pieces) /\ (x \o h) \o s \in Seq(Pieces)
      <4>1. h \in Seq(Pieces) /\ x \in Seq(Pieces) /\ s \in Seq(Pieces)
        BY <1>6, <1>7, <1>8 DEF Moving, Turning
      <4>2. QED
        BY <4>1, Joined
    <3> DEFINE l == (x \o h) \o s
    <3>2. (l \o h) \o x = l \o (h \o x)
      <4> HIDE DEF l
      <4>1. l \in Seq(Pieces)
        BY <3>1 DEF l
      <4>2. QED
        BY <3>1, <4>1
    <3>3. QED
      BY <1>4, <1>10, <3>2
  <2>4. Spans(Program(g), W, Len(x \o h), 7) /\ Len(Program(g)) >= 7
    BY <2>2, <2>3
  <2>5. Program(g) # <<>>
    BY <2>4
  <2>6. QED
    BY <1>5, <2>4, <2>5, SpansPasses DEF Accounted, W
<1>11. QED
  BY <1>9, <1>10

\* What the engine runs for a gate is within the account of the gate.
LEMMA GateAccounted ==
  ASSUME NEW g, Placed(g), Dispatched(g), NEW a \in Accounts
  PROVE  Accounted(g, Pieced(g), a) /\ Pieced(g) \in Seq(Pieces)
<1>1. CASE g.op \in {"Id", "Barrier", "Measure"}
  <2> DEFINE r == [do |-> "nothing"]
  <2>1. Program(g) = <<>>
    BY <1>1 DEF Program
  <2>2. r \in Pieces
    BY DEF Pieces
  <2>3. PieceEffect(a, r) = a /\ Pulled(a, g) = a
    BY <1>1 DEF PieceEffect, Pulled, Quiet
  <2> HIDE DEF r
  <2>4. Pieced(g) = <<r>>
    BY <2>1 DEF Pieced, r
  <2>5. QED
    BY <2>2, <2>3, <2>4, OnePasses DEF Accounted
<1>2. CASE g.op \notin {"Id", "Barrier", "Measure"}
  <2>1. Accounted(g, Program(g), a)
    <3>1. g.op \in OneMaps \cup TwoMaps \cup Turns \cup {"Rx", "Ry", "CRz", "CU3", "U2", "U3", "Rbs", "CCX", "CSwap"}
      BY <1>2 DEF Placed, Dispatched, OneQubit, Controlled, OneMaps, TwoMaps, Turns
    <3>2. QED
      BY <3>1, MapAccounted, TurnAccounted, RotationAccounted, ToffoliAccounted
  <2>2. Program(g) \in Seq(Pieces)
    BY ProgramPieces
  <2>3. Program(g) # <<>>
    BY <2>1 DEF Accounted
  <2>4. QED
    BY <2>1, <2>2, <2>3 DEF Pieced
<1>3. QED
  BY <1>1, <1>2

\* Three ops folded into one rotation by ZZ cost no more than one by one.
LEMMA FoldPulled ==
  ASSUME NEW l, Placed(l), l.op = "CX", l.qs[1] # l.qs[2], NEW m, Placed(m), m.op = "Rz", m.qs = <<l.qs[2]>>,
         NEW f, Placed(f), f.op = "CX", f.qs = l.qs, NEW a \in Accounts
  PROVE  Below(Turned(a, {}, Range(l.qs)), Pulled(Pulled(Pulled(a, l), m), f))
<1> DEFINE c == l.qs[1]
           t == l.qs[2]
           W == Range(l.qs)
           b == Pulled(a, l)
           d == Pulled(b, m)
           e == Pulled(d, f)
<1>1. a.cone \in Basis /\ a.xs \in Basis /\ a.xs \subseteq a.cone /\ a.n \in Nat
  BY AccountParts
<1>2. W = {c, t} /\ W \in Basis
  BY CallsOf
<1>3. b \in Accounts /\ d \in Accounts /\ e \in Accounts
  BY PulledGrows
<1>4. Below(b, d) /\ Below(d, e) /\ Below(a, b)
  BY <1>3, PulledGrows
<1>5. Below(a, e)
  <2> HIDE DEF b, d, e
  <2>1. Below(a, d)
    BY <1>3, <1>4, BelowChain
  <2>2. QED
    BY <1>3, <1>4, <2>1, BelowChain
<1>6. CASE W \cap a.xs = {}
  BY <1>5, <1>6 DEF Turned
<1>7. CASE W \cap a.xs # {}
  <2>1. W \cap a.cone # {}
    BY <1>1, <1>7
  <2>2. l.op \notin Quiet \cup Turns
    BY DEF Quiet, Turns
  <2>3. b = Account(a.cone \cup W, IF c \in a.xs THEN a.xs \cup {t} ELSE a.xs, a.n)
    BY <2>1, <2>2 DEF Pulled
  <2>4. b.cone = a.cone \cup W /\ b.n = a.n /\ t \in b.xs
    BY <1>2, <1>7, <2>3 DEF Account
  <2>5. m.qs[1] = t /\ m.op \in Turns /\ m.op \notin Quiet
    BY DEF Quiet, Turns
  <2>6. d = Account(b.cone, b.xs, b.n + 1)
    BY <2>4, <2>5 DEF Pulled
  <2>7. d.cone = a.cone \cup W /\ d.n = a.n + 1
    BY <2>4, <2>6 DEF Account
  <2>8. Turned(a, {}, W) = Account(a.cone \cup {} \cup W, a.xs \cup {}, a.n + 1)
    BY <1>7 DEF Turned
  <2> DEFINE u == Turned(a, {}, W)
  <2>9. u.cone = a.cone \cup W /\ u.xs = a.xs /\ u.n = a.n + 1
    BY <2>8 DEF Account
  <2> HIDE DEF u, b, d, e, W
  <2>10. a.xs \subseteq e.xs /\ d.cone \subseteq e.cone /\ d.n <= e.n
    BY <1>4, <1>5 DEF Below
  <2>11. Below(u, e)
    BY <2>7, <2>9, <2>10 DEF Below
  <2>12. QED
    BY <2>11 DEF u, W, e, d, b
<1>8. QED
  BY <1>6, <1>7

LEMMA CertifiedFolded ==
  ASSUME NEW ops, NEW n \in Nat, \A k \in 1..n : Placed(ops[k]), ZzTriple(ops, n),
         NEW a \in Accounts, NEW B \in Accounts, Certified(ops, n, a, B)
  PROVE  /\ Certified(ops, n - 3, Turned(a, {}, Range(ops[n].qs)), B)
         /\ Turned(a, {}, Range(ops[n].qs)) \in Accounts
         /\ Range(ops[n].qs) \in Basis
<1> DEFINE l == ops[n]
           m == ops[n - 1]
           f == ops[n - 2]
<1>1. n >= 3 /\ f.op = "CX" /\ m.op = "Rz" /\ l.op = "CX" /\ f.qs = l.qs /\ m.qs = <<f.qs[2]>> /\ f.qs[1] # f.qs[2]
  BY DEF ZzTriple
<1>2. Placed(l) /\ Placed(m) /\ Placed(f) /\ n \in Nat \ {0} /\ n - 1 \in Nat \ {0} /\ n - 2 \in Nat \ {0}
  BY <1>1
<1>3. (n - 1) - 1 = n - 2 /\ (n - 2) - 1 = n - 3 /\ n - 3 \in Nat
  BY <1>1
<1>4. /\ \A k \in 1..(n - 1) : Placed(ops[k])
      /\ \A k \in 1..(n - 2) : Placed(ops[k])
  OBVIOUS
<1> DEFINE b == Pulled(a, l)
           d == Pulled(b, m)
           e == Pulled(d, f)
<1>5. Certified(ops, n - 1, b, B) /\ b \in Accounts
  BY <1>2, CertifiedPull
<1> HIDE DEF b
<1>6. Certified(ops, n - 2, d, B) /\ d \in Accounts
  BY <1>2, <1>3, <1>4, <1>5, CertifiedPull
<1> HIDE DEF d
<1>7. Certified(ops, n - 3, e, B) /\ e \in Accounts
  BY <1>2, <1>3, <1>4, <1>6, CertifiedPull
<1>8. Below(Turned(a, {}, Range(l.qs)), e)
  BY <1>1, <1>2, FoldPulled DEF b, d
<1>9. {} \in Basis /\ Range(l.qs) \in Basis
  BY <1>2, CallsOf DEF Basis
<1>10. Turned(a, {}, Range(l.qs)) \in Accounts
  BY <1>9, TurnedGrows
<1> DEFINE u == Turned(a, {}, Range(l.qs))
<1> HIDE DEF u, e, l
<1>11. u \in Accounts /\ Below(u, e)
  BY <1>8, <1>10 DEF u
<1>12. Certified(ops, n - 3, u, B)
  BY <1>3, <1>7, <1>11, CertifiedLess
<1>13. QED
  BY <1>9, <1>11, <1>12 DEF u, l

-----------------------------------------------------------------------------
(* Powers of two, as numbers of subsets.                                   *)

LEMMA PowerIs ==
  ASSUME NEW n \in Nat
  PROVE  /\ IsFiniteSet(SUBSET (1..n)) /\ Cardinality(SUBSET (1..n)) = 2 ^ n
         /\ 2 ^ n \in Nat
<1>1. IsFiniteSet(1..n) /\ Cardinality(1..n) = n
  BY FS_Interval
<1>2. IsFiniteSet(SUBSET (1..n)) /\ Cardinality(SUBSET (1..n)) = 2 ^ n
  BY <1>1, FS_SUBSET
<1>3. Cardinality(SUBSET (1..n)) \in Nat
  BY <1>2, FS_CardinalityType
<1>4. QED
  BY <1>2, <1>3

LEMMA PowerGrows ==
  ASSUME NEW m \in Nat, NEW n \in Nat, m <= n
  PROVE  2 ^ m <= 2 ^ n
<1>1. SUBSET (1..m) \subseteq SUBSET (1..n)
  OBVIOUS
<1>2. /\ IsFiniteSet(SUBSET (1..n)) /\ Cardinality(SUBSET (1..n)) = 2 ^ n
      /\ Cardinality(SUBSET (1..m)) = 2 ^ m
  BY PowerIs
<1>3. Cardinality(SUBSET (1..m)) <= Cardinality(SUBSET (1..n))
  BY <1>1, <1>2, FS_Subset
<1>4. QED
  BY <1>2, <1>3

LEMMA PowerZero == 2 ^ 0 = 1
<1>1. Cardinality(SUBSET (1..0)) = 2 ^ 0
  BY PowerIs
<1>2. SUBSET (1..0) = {{}}
  OBVIOUS
<1>3. Cardinality({{}}) = 1
  BY FS_Singleton
<1>4. QED
  BY <1>1, <1>2, <1>3

LEMMA PowerPositive ==
  ASSUME NEW n \in Nat
  PROVE  2 ^ n \in Nat \ {0}
<1>1. 2 ^ 0 <= 2 ^ n
  <2>1. 0 \in Nat /\ 0 <= n
    OBVIOUS
  <2>2. QED
    BY <2>1, PowerGrows
<1>2. 2 ^ n \in Nat
  BY PowerIs
<1>3. QED
  BY <1>1, <1>2, PowerZero

LEMMA ZeroAndOne == IsFiniteSet({0, 1}) /\ Cardinality({0, 1}) = 2
<1>1. IsFiniteSet({0}) /\ Cardinality({0}) = 1
  BY FS_Singleton
<1>2. IsFiniteSet({0} \cup {1}) /\ Cardinality({0} \cup {1}) = Cardinality({0}) + 1
  BY <1>1, FS_AddElement
<1>3. {0} \cup {1} = {0, 1}
  OBVIOUS
<1>4. QED
  BY <1>1, <1>2, <1>3

\* The pairs of subsets are no more than the subsets of two copies.
LEMMA PairsWithin ==
  ASSUME NEW C, IsFiniteSet(C)
  PROVE  /\ IsFiniteSet((SUBSET C) \X (SUBSET C))
         /\ Cardinality((SUBSET C) \X (SUBSET C)) <= 2 ^ (2 * Cardinality(C))
<1> DEFINE S == (SUBSET C) \X (SUBSET C)
           T == C \X {0, 1}
           f == [p \in S |-> (p[1] \X {0}) \cup (p[2] \X {1})]
<1>1. IsFiniteSet({0, 1}) /\ Cardinality({0, 1}) = 2
  BY ZeroAndOne
<1>2. IsFiniteSet(T) /\ Cardinality(T) = Cardinality(C) * 2
  BY <1>1, FS_Product
<1>3. Cardinality(C) \in Nat
  BY FS_CardinalityType
<1>4. IsFiniteSet(SUBSET T) /\ Cardinality(SUBSET T) = 2 ^ (2 * Cardinality(C))
  <2>1. IsFiniteSet(SUBSET T) /\ Cardinality(SUBSET T) = 2 ^ Cardinality(T)
    BY <1>2, FS_SUBSET
  <2>2. Cardinality(T) = 2 * Cardinality(C)
    BY <1>2, <1>3
  <2>3. QED
    BY <2>1, <2>2
<1>5. f \in [S -> SUBSET T]
  OBVIOUS
<1>6. ASSUME NEW p \in S, NEW r \in S, f[p] = f[r] PROVE p = r
  <2>1. \A x : x \in p[1] <=> <<x, 0>> \in f[p]
    OBVIOUS
  <2>2. \A x : x \in r[1] <=> <<x, 0>> \in f[r]
    OBVIOUS
  <2>3. \A x : x \in p[2] <=> <<x, 1>> \in f[p]
    OBVIOUS
  <2>4. \A x : x \in r[2] <=> <<x, 1>> \in f[r]
    OBVIOUS
  <2> HIDE DEF f
  <2>5. p[1] = r[1] /\ p[2] = r[2]
    BY <1>6, <2>1, <2>2, <2>3, <2>4
  <2>6. QED
    BY <2>5
<1> HIDE DEF f, S, T
<1>7. f \in Injection(S, SUBSET T)
  BY <1>5, <1>6 DEF Injection, IsInjective
<1>8. IsFiniteSet(S) /\ Cardinality(S) <= Cardinality(SUBSET T)
  BY <1>4, <1>7, FS_Injection
<1>9. QED
  BY <1>4, <1>8 DEF S

\* One more is at least twice as many.
LEMMA PowerDoubles ==
  ASSUME NEW n \in Nat
  PROVE  2 * 2 ^ n <= 2 ^ (n + 1)
<1> DEFINE S == (SUBSET (1..n)) \X {0, 1}
           T == SUBSET (1..(n + 1))
           f == [p \in S |-> IF p[2] = 0 THEN p[1] ELSE p[1] \cup {n + 1}]
<1>1. IsFiniteSet({0, 1}) /\ Cardinality({0, 1}) = 2
  BY ZeroAndOne
<1>2. Cardinality(S) = 2 ^ n * 2
  <2>1. IsFiniteSet(SUBSET (1..n)) /\ Cardinality(SUBSET (1..n)) = 2 ^ n
    BY PowerIs
  <2> DEFINE U == SUBSET (1..n)
  <2> HIDE DEF U, f, T
  <2>2. IsFiniteSet(U) /\ Cardinality(U) = 2 ^ n
    BY <2>1 DEF U
  <2>3. Cardinality(U \X {0, 1}) = Cardinality(U) * 2
    BY <1>1, <2>2, FS_Product
  <2>4. QED
    BY <2>2, <2>3 DEF U
<1>3. IsFiniteSet(T) /\ Cardinality(T) = 2 ^ (n + 1)
  BY PowerIs
<1>4. f \in [S -> T]
  <2>1. ASSUME NEW p \in S PROVE (IF p[2] = 0 THEN p[1] ELSE p[1] \cup {n + 1}) \in T
    OBVIOUS
  <2>2. QED
    BY <2>1
<1>5. ASSUME NEW p \in S, NEW r \in S, f[p] = f[r] PROVE p = r
  <2>1. /\ p[1] \subseteq 1..n /\ r[1] \subseteq 1..n /\ n + 1 \notin 1..n
        /\ p[2] \in {0, 1} /\ r[2] \in {0, 1} /\ p = <<p[1], p[2]>> /\ r = <<r[1], r[2]>>
    OBVIOUS
  <2>2. /\ f[p] = IF p[2] = 0 THEN p[1] ELSE p[1] \cup {n + 1}
        /\ f[r] = IF r[2] = 0 THEN r[1] ELSE r[1] \cup {n + 1}
    OBVIOUS
  <2> HIDE DEF f, S
  <2>3. p[2] = r[2]
    BY <1>5, <2>1, <2>2
  <2>4. p[1] = r[1]
    BY <1>5, <2>1, <2>2, <2>3
  <2>5. QED
    BY <2>1, <2>3, <2>4
<1> HIDE DEF f, S, T
<1>6. f \in Injection(S, T)
  BY <1>4, <1>5 DEF Injection, IsInjective
<1>7. Cardinality(S) <= Cardinality(T)
  BY <1>3, <1>6, FS_Injection
<1>8. 2 ^ n * 2 = 2 * 2 ^ n
  <2> DEFINE a == 2 ^ n
  <2>1. a \in Nat
    BY PowerIs
  <2> HIDE DEF a
  <2>2. a * 2 = 2 * a
    BY <2>1
  <2>3. QED
    BY <2>2 DEF a
<1>9. QED
  BY <1>2, <1>3, <1>7, <1>8

\* s * 2^n, as n grows.
LEMMA TimesPower ==
  ASSUME NEW s \in Nat, NEW m \in Nat, NEW n \in Nat, m <= n
  PROVE  s * 2 ^ m \in Nat /\ s * 2 ^ n \in Nat /\ s * 2 ^ m <= s * 2 ^ n
<1> DEFINE a == 2 ^ m
           b == 2 ^ n
<1>1. a \in Nat /\ b \in Nat /\ a <= b
  BY PowerIs, PowerGrows
<1> HIDE DEF a, b
<1>2. s * a \in Nat /\ s * b \in Nat /\ s * a <= s * b
  BY <1>1
<1>3. QED
  BY <1>2 DEF a, b

LEMMA TimesDouble ==
  ASSUME NEW s \in Nat, NEW n \in Nat
  PROVE  s * 2 ^ n + s * 2 ^ n <= s * 2 ^ (n + 1) /\ s * 2 ^ n \in Nat /\ s * 2 ^ (n + 1) \in Nat
<1> DEFINE a == 2 ^ n
           b == 2 ^ (n + 1)
<1>1. a \in Nat /\ b \in Nat /\ 2 * a <= b
  <2>1. 2 * 2 ^ n <= 2 ^ (n + 1)
    BY PowerDoubles
  <2>2. n + 1 \in Nat
    OBVIOUS
  <2>3. 2 ^ n \in Nat
    BY PowerIs
  <2>4. 2 ^ (n + 1) \in Nat
    BY <2>2, PowerIs
  <2>5. QED
    BY <2>1, <2>3, <2>4
<1> HIDE DEF a, b
<1>2. s * a \in Nat /\ s * b \in Nat /\ s * (2 * a) <= s * b
  BY <1>1
<1>3. s * (2 * a) = s * a + s * a
  BY <1>1
<1>4. QED
  BY <1>2, <1>3 DEF a, b

-----------------------------------------------------------------------------
(* Strings that keep to an account.                                        *)

\* A string with its X part and its letters where the account has them.
Keeps(key, a) == key[1] \subseteq a.xs /\ key[2] \subseteq a.cone

\* Strings from s terms of the observable.
Fits(D, s, a) ==
    /\ D \subseteq Keys /\ \A key \in D : Keeps(key, a)
    /\ Cardinality(D) <= s * 2 ^ a.n

LEMMA KeysFinite ==
  ASSUME NEW D, D \subseteq Keys
  PROVE  IsFiniteSet(D) /\ Cardinality(D) \in Nat
<1>1. IsFiniteSet(Keys)
  BY FiniteBasis, FS_Product DEF Keys
<1>2. IsFiniteSet(D)
  BY <1>1, FS_Subset
<1>3. QED
  BY <1>2, FS_CardinalityType

LEMMA FitsLess ==
  ASSUME NEW D, NEW s \in Nat, NEW a \in Accounts, Fits(D, s, a), NEW E, E \subseteq Keys,
         \A key \in E : Keeps(key, a), Cardinality(E) <= Cardinality(D)
  PROVE  Fits(E, s, a)
<1>1. Cardinality(D) \in Nat /\ Cardinality(E) \in Nat /\ Cardinality(D) <= s * 2 ^ a.n
  BY KeysFinite DEF Fits
<1>2. a.n \in Nat /\ a.n <= a.n
  BY AccountParts
<1>3. s * 2 ^ a.n \in Nat
  BY <1>2, TimesPower
<1>4. Cardinality(E) <= s * 2 ^ a.n
  BY <1>1, <1>3
<1>5. QED
  BY <1>4 DEF Fits

LEMMA FitsPart ==
  ASSUME NEW D, NEW s \in Nat, NEW a \in Accounts, Fits(D, s, a), NEW E \in SUBSET D
  PROVE  Fits(E, s, a)
<1>1. D \subseteq Keys /\ \A key \in D : Keeps(key, a)
  BY DEF Fits
<1>2. Cardinality(E) <= Cardinality(D)
  BY <1>1, KeysFinite, FS_Subset
<1>3. QED
  BY <1>1, <1>2, FitsLess

LEMMA FitsBelow ==
  ASSUME NEW D, NEW s \in Nat, NEW a \in Accounts, Fits(D, s, a), NEW b \in Accounts, Below(a, b)
  PROVE  Fits(D, s, b)
<1>1. a.n \in Nat /\ b.n \in Nat /\ a.n <= b.n /\ a.xs \subseteq b.xs /\ a.cone \subseteq b.cone
  BY AccountParts DEF Below
<1>2. s * 2 ^ a.n \in Nat /\ s * 2 ^ b.n \in Nat /\ s * 2 ^ a.n <= s * 2 ^ b.n
  BY <1>1, TimesPower
<1>3. D \subseteq Keys /\ (\A key \in D : Keeps(key, a)) /\ Cardinality(D) <= s * 2 ^ a.n /\ Cardinality(D) \in Nat
  BY KeysFinite DEF Fits
<1>4. Cardinality(D) <= s * 2 ^ b.n
  BY <1>2, <1>3
<1>5. \A key \in D : Keeps(key, b)
  BY <1>1, <1>3 DEF Keeps
<1>6. QED
  BY <1>3, <1>4, <1>5 DEF Fits

\* No more strings than the wires of the account can carry.
LEMMA FitsWidth ==
  ASSUME NEW D, NEW s \in Nat, NEW a \in Accounts, Fits(D, s, a)
  PROVE  Cardinality(D) <= 2 ^ (2 * Cardinality(a.cone))
<1> DEFINE C == a.cone
<1>1. C \in Basis /\ a.xs \subseteq C
  BY AccountParts
<1>2. IsFiniteSet(C)
  BY <1>1, BasisFinite
<1>3. D \subseteq (SUBSET C) \X (SUBSET C)
  BY <1>1 DEF Fits, Keeps, Keys
<1> HIDE DEF C
<1>4. /\ IsFiniteSet((SUBSET C) \X (SUBSET C))
      /\ Cardinality((SUBSET C) \X (SUBSET C)) <= 2 ^ (2 * Cardinality(C))
  BY <1>2, PairsWithin
<1>5. Cardinality(D) <= Cardinality((SUBSET C) \X (SUBSET C)) /\ Cardinality(D) \in Nat
  BY <1>3, <1>4, FS_Subset, KeysFinite DEF Fits
<1>6. Cardinality((SUBSET C) \X (SUBSET C)) \in Nat
  BY <1>4, FS_CardinalityType
<1>7. 2 ^ (2 * Cardinality(C)) \in Nat
  <2>1. Cardinality(C) \in Nat
    BY <1>2, FS_CardinalityType
  <2>2. 2 * Cardinality(C) \in Nat
    BY <2>1
  <2>3. QED
    BY <2>2, PowerIs
<1>8. QED
  BY <1>4, <1>5, <1>6, <1>7 DEF C

\* The image of a set is no larger.
LEMMA ImageSize ==
  ASSUME NEW D, IsFiniteSet(D), NEW f, DOMAIN f = D
  PROVE  IsFiniteSet({f[x] : x \in D}) /\ Cardinality({f[x] : x \in D}) <= Cardinality(D)
<1> DEFINE T == {f[x] : x \in D}
           g == [x \in D |-> f[x]]
<1>1. g \in [D -> T] /\ \A t \in T : \E x \in D : g[x] = t
  OBVIOUS
<1> HIDE DEF g, T
<1>2. g \in Surjection(D, T)
  BY <1>1 DEF Surjection
<1>3. IsFiniteSet(T) /\ Cardinality(T) <= Cardinality(D)
  BY <1>2, FS_Surjection
<1>4. QED
  BY <1>3 DEF T

-----------------------------------------------------------------------------
(* A Clifford map.                                                         *)

PartOf(b, S) == IF b THEN S ELSE {}

LEMMA PickParts ==
  ASSUME NEW l \in BOOLEAN, NEW a, NEW b
  PROVE  /\ Pick(l, a, b).x = SymDiff(a.x, PartOf(l, b.x))
         /\ Pick(l, a, b).z = SymDiff(a.z, PartOf(l, b.z))
<1>1. \A S : SymDiff(S, {}) = S
  BY DEF SymDiff
<1>2. CASE l
  <2>1. Pick(l, a, b) = RawMul(a, b) /\ PartOf(l, b.x) = b.x /\ PartOf(l, b.z) = b.z
    BY <1>2 DEF Pick, PartOf
  <2>2. RawMul(a, b).x = SymDiff(a.x, b.x) /\ RawMul(a, b).z = SymDiff(a.z, b.z)
    BY DEF RawMul, Raw
  <2>3. QED
    BY <2>1, <2>2
<1>3. CASE ~l
  <2>1. Pick(l, a, b) = a /\ PartOf(l, b.x) = {} /\ PartOf(l, b.z) = {}
    BY <1>3 DEF Pick, PartOf
  <2>2. QED
    BY <1>1, <2>1
<1>4. QED
  BY <1>2, <1>3

\* The X part and the Z part of what the letters on one wire become.
LEMMA TwoParts ==
  ASSUME NEW l \in [1..4 -> BOOLEAN], NEW im
  PROVE  /\ Two(l, im).x = SymDiff(PartOf(l[1], im[1].x), PartOf(l[2], im[2].x))
         /\ Two(l, im).z = SymDiff(PartOf(l[1], im[1].z), PartOf(l[2], im[2].z))
<1>1. \A S : SymDiff({}, S) = S
  BY DEF SymDiff
<1>2. l[1] \in BOOLEAN /\ l[2] \in BOOLEAN
  OBVIOUS
<1> DEFINE n == Raw({}, {}, One)
           u == Pick(l[1], n, im[1])
<1>3. n.x = {} /\ n.z = {}
  BY DEF Raw
<1>4. Two(l, im) = Pick(l[2], u, im[2])
  BY DEF Two
<1> HIDE DEF n
<1>5. u.x = SymDiff(n.x, PartOf(l[1], im[1].x)) /\ u.z = SymDiff(n.z, PartOf(l[1], im[1].z))
  BY <1>2, PickParts
<1>6. u.x = PartOf(l[1], im[1].x) /\ u.z = PartOf(l[1], im[1].z)
  BY <1>1, <1>3, <1>5
<1> HIDE DEF u
<1>7. /\ Pick(l[2], u, im[2]).x = SymDiff(u.x, PartOf(l[2], im[2].x))
      /\ Pick(l[2], u, im[2]).z = SymDiff(u.z, PartOf(l[2], im[2].z))
  BY <1>2, PickParts
<1>8. QED
  BY <1>4, <1>6, <1>7

LEMMA FourParts ==
  ASSUME NEW l \in [1..4 -> BOOLEAN], NEW im, im[2].x = {}, im[4].x = {}
  PROVE  Four(l, im).x = SymDiff(PartOf(l[1], im[1].x), PartOf(l[3], im[3].x))
<1>1. \A S : SymDiff(S, {}) = S
  BY DEF SymDiff
<1>2. l[3] \in BOOLEAN /\ l[4] \in BOOLEAN
  OBVIOUS
<1>3. \A b : PartOf(b, {}) = {}
  BY DEF PartOf
<1> DEFINE r == Two(l, im)
           u == Pick(l[3], r, im[3])
<1>4. r.x = SymDiff(PartOf(l[1], im[1].x), PartOf(l[2], im[2].x))
  BY TwoParts
<1>5. r.x = PartOf(l[1], im[1].x)
  BY <1>1, <1>3, <1>4
<1>6. Four(l, im) = Pick(l[4], u, im[4])
  BY DEF Four
<1> HIDE DEF r
<1>7. u.x = SymDiff(r.x, PartOf(l[3], im[3].x))
  BY <1>2, PickParts
<1> HIDE DEF u
<1>8. Pick(l[4], u, im[4]).x = SymDiff(u.x, PartOf(l[4], im[4].x))
  <2> DEFINE c == im[4]
             e == l[4]
  <2>1. e \in BOOLEAN
    BY <1>2
  <2> HIDE DEF c, e
  <2>2. Pick(e, u, c).x = SymDiff(u.x, PartOf(e, c.x))
    BY <2>1, PickParts
  <2>3. QED
    BY <2>2 DEF c, e
<1>9. SymDiff(u.x, PartOf(l[4], im[4].x)) = u.x
  BY <1>1, <1>3
<1>10. QED
  BY <1>5, <1>6, <1>7, <1>8, <1>9

\* What a map makes of a string keeps to the account of the map.
LEMMA ImageKeeps ==
  ASSUME NEW g \in CliffordGates, NEW a \in Accounts, NEW key \in Keys, Keeps(key, a)
  PROVE  LET r == ConjugateKey(g, key) IN <<r.x, r.z>> \in Keys /\ Keeps(<<r.x, r.z>>, Pulled(a, g))
<1> DEFINE W == Range(g.qs)
           r == ConjugateKey(g, key)
           m == Local(g, key)
           l == Letters(g, key)
           b == Pulled(a, g)
<1>1. Placed(g) /\ Clifford(g) /\ g.op \in OneMaps \cup TwoMaps
  BY PlacedClifford DEF CliffordGates
<1>2. W \in Basis /\ Len(Images(g)) \in {2, 4} /\ m.x \subseteq W /\ m.z \subseteq W
  BY <1>1, LocalProper DEF Proper
<1>3. r.x = m.x \cup (key[1] \ W) /\ r.z = m.z \cup (key[2] \ W)
  BY <1>2, ConjugateKeyIs DEF Raw
<1>4. key[1] \subseteq a.xs /\ key[2] \subseteq a.cone /\ a.xs \subseteq a.cone
  BY AccountParts DEF Keeps
<1>5. <<r.x, r.z>> \in Keys
  <2>1. key[1] \in Basis /\ key[2] \in Basis
    BY DEF Keys
  <2> HIDE DEF r, m, W
  <2>2. r.x \in Basis /\ r.z \in Basis
    BY <1>2, <1>3, <2>1 DEF Basis
  <2>3. QED
    BY <2>2 DEF Keys
<1>6. l \in [1..4 -> BOOLEAN]
  BY DEF Letters
<1>7. /\ l[1] <=> (g.qs[1] \in key[1])
      /\ l[2] <=> (g.qs[1] \in key[2])
      /\ l[3] <=> (g.qs[2] \in key[1])
      /\ l[4] <=> (g.qs[2] \in key[2])
  <2> DEFINE c1 == g.qs[1] \in key[1]
             c2 == g.qs[1] \in key[2]
             c3 == g.qs[2] \in key[1]
             c4 == g.qs[2] \in key[2]
  <2>1. l = [n \in 1..4 |-> IF n = 1 THEN c1 ELSE IF n = 2 THEN c2 ELSE IF n = 3 THEN c3 ELSE c4]
    BY DEF Letters
  <2>2. c1 \in BOOLEAN /\ c2 \in BOOLEAN /\ c3 \in BOOLEAN /\ c4 \in BOOLEAN
    OBVIOUS
  <2> HIDE DEF l, c1, c2, c3, c4
  <2>3. l[1] = c1 /\ l[2] = c2 /\ l[3] = c3 /\ l[4] = c4
    BY <2>1
  <2>4. QED
    BY <2>2, <2>3 DEF c1, c2, c3, c4
<1>8. /\ g.op \in OneMaps => W = {g.qs[1]} /\ g.qs = <<g.qs[1]>> /\ Len(Images(g)) = 2 /\ m = Two(l, Images(g))
      /\ g.op \in TwoMaps => /\ W = {g.qs[1], g.qs[2]} /\ g.qs[1] # g.qs[2] /\ g.qs = <<g.qs[1], g.qs[2]>>
                             /\ Len(Images(g)) = 4 /\ m = Four(l, Images(g))
  <2>1. g.op \in OneMaps => Len(g.qs) = 1 /\ g.qs \in Seq(Qubits) /\ g.op \notin TwoMaps
    BY <1>1 DEF Clifford, OneMaps, TwoMaps
  <2>2. g.op \in TwoMaps => Len(g.qs) = 2 /\ g.qs \in Seq(Qubits) /\ g.qs[1] # g.qs[2]
    BY <1>1 DEF Clifford, OneMaps, TwoMaps
  <2>3. g.op \in OneMaps => g.qs = <<g.qs[1]>> /\ g.qs[1] \in Qubits /\ W = {g.qs[1]}
    BY <2>1 DEF Range
  <2>4. g.op \in TwoMaps => g.qs = <<g.qs[1], g.qs[2]>> /\ g.qs[1] \in Qubits /\ g.qs[2] \in Qubits /\ W = {g.qs[1], g.qs[2]}
    BY <2>2 DEF Range
  <2>5. g.op \in OneMaps => Len(Images(g)) = 2
    BY <2>3, OneWireFrame
  <2>6. g.op \in TwoMaps => Len(Images(g)) = 4
    BY <2>2, <2>4, TwoWireFrames
  <2>7. QED
    BY <2>2, <2>3, <2>4, <2>5, <2>6 DEF Local
<1>9. CASE g.op \in {"X", "Y", "Z", "S", "Sdg"}
  <2> DEFINE q == g.qs[1]
  <2>1. b = a /\ g.op \in OneMaps
    BY <1>9 DEF Pulled, Quiet, OneMaps
  <2>2. Images(g)[1].x = {q} /\ Images(g)[2].x = {}
    BY <1>9 DEF Images, Raw
  <2>0. m = Two(l, Images(g))
    BY <1>8, <2>1
  <2>3. m.x = SymDiff(PartOf(l[1], {q}), PartOf(l[2], {}))
    BY <1>6, <2>0, <2>2, TwoParts
  <2>4. m.x = IF q \in key[1] THEN {q} ELSE {}
    BY <1>7, <2>3 DEF SymDiff, PartOf
  <2>5. Images(g)[1].z \subseteq {q} /\ (g.op \in {"X", "Y", "Z"} => Images(g)[1].z = {}) /\ Images(g)[2].z = {q}
    BY <1>9 DEF Images, Raw
  <2>6. m.z = SymDiff(PartOf(l[1], Images(g)[1].z), PartOf(l[2], Images(g)[2].z))
    BY <1>6, <2>0, TwoParts
  <2>7. m.z \subseteq (IF q \in key[1] THEN {q} ELSE {}) \cup (IF q \in key[2] THEN {q} ELSE {})
    BY <1>7, <2>5, <2>6 DEF SymDiff, PartOf
  <2> HIDE DEF r, m, l, q
  <2>8. r.x \subseteq a.xs /\ r.z \subseteq a.cone
    BY <1>3, <1>4, <2>4, <2>7
  <2>9. QED
    BY <1>5, <2>1, <2>8 DEF Keeps, r
<1>10. CASE W \cap a.cone = {} /\ g.op \notin {"X", "Y", "Z", "S", "Sdg"}
  <2>1. b = a
    BY <1>1, <1>10 DEF Pulled, Quiet, Turns, OneMaps, TwoMaps
  <2>2. ~l[1] /\ ~l[2]
    <3>1. g.qs[1] \in W
      BY <1>1, <1>8
    <3> HIDE DEF W, l
    <3>2. g.qs[1] \notin key[1] /\ g.qs[1] \notin key[2]
      BY <1>4, <1>10, <3>1
    <3>3. QED
      BY <1>7, <3>2
  <2>3. g.op \in TwoMaps => ~l[3] /\ ~l[4]
    <3>1. g.op \in TwoMaps => g.qs[2] \in W
      BY <1>8
    <3> HIDE DEF W, l
    <3>2. g.op \in TwoMaps => g.qs[2] \notin key[1] /\ g.qs[2] \notin key[2]
      BY <1>4, <1>10, <3>1
    <3>3. QED
      BY <1>7, <3>2
  <2>4. Two(l, Images(g)) = Raw({}, {}, One)
    BY <2>2 DEF Two, Pick
  <2>5. g.op \in TwoMaps => Four(l, Images(g)) = Raw({}, {}, One)
    BY <2>3, <2>4 DEF Four, Pick
  <2>6. m = Raw({}, {}, One)
    BY <1>1, <1>8, <2>4, <2>5
  <2>7. m.x = {} /\ m.z = {}
    BY <2>6 DEF Raw
  <2> HIDE DEF r, m, l, W
  <2>8. r.x \subseteq a.xs /\ r.z \subseteq a.cone
    BY <1>3, <1>4, <2>7
  <2>9. QED
    BY <1>5, <2>1, <2>8 DEF Keeps, r
<1>11. CASE W \cap a.cone # {} /\ g.op = "CX"
  <2> DEFINE q == g.qs[1]
             t == g.qs[2]
  <2>1. b = Account(a.cone \cup W, IF q \in a.xs THEN a.xs \cup {t} ELSE a.xs, a.n)
    BY <1>11 DEF Pulled, Quiet, Turns
  <2>2. b.cone = a.cone \cup W /\ b.xs = IF q \in a.xs THEN a.xs \cup {t} ELSE a.xs
    BY <2>1 DEF Account
  <2>3. g.qs[Len(g.qs)] = t
    BY <1>1, <1>11 DEF Placed, Controlled
  <2>4. Images(g)[1].x = {q, t} /\ Images(g)[2].x = {} /\ Images(g)[3].x = {t} /\ Images(g)[4].x = {}
    BY <1>11, <2>3 DEF Images, Raw
  <2>0. m = Four(l, Images(g))
    BY <1>8, <1>11 DEF TwoMaps
  <2>5. m.x = SymDiff(PartOf(l[1], {q, t}), PartOf(l[3], {t}))
    BY <1>6, <2>0, <2>4, FourParts
  <2>6. m.x \subseteq (IF q \in key[1] THEN {q, t} ELSE {}) \cup (IF t \in key[1] THEN {t} ELSE {})
    BY <1>7, <2>5 DEF SymDiff, PartOf
  <2> HIDE DEF r, m, l, W, b, q, t
  <2>7. r.x \subseteq b.xs /\ r.z \subseteq b.cone
    BY <1>2, <1>3, <1>4, <2>2, <2>6
  <2>8. QED
    BY <1>5, <2>7 DEF Keeps, r, b
<1>12. CASE W \cap a.cone # {} /\ g.op = "CZ"
  <2> DEFINE q == g.qs[1]
             t == g.qs[2]
  <2>1. b = Account(a.cone \cup W, a.xs, a.n)
    BY <1>12 DEF Pulled, Quiet, Turns
  <2>2. b.cone = a.cone \cup W /\ b.xs = a.xs
    BY <2>1 DEF Account
  <2>3. g.qs[Len(g.qs)] = t
    BY <1>1, <1>12 DEF Placed, Controlled
  <2>4. Images(g)[1].x = {q} /\ Images(g)[2].x = {} /\ Images(g)[3].x = {t} /\ Images(g)[4].x = {}
    BY <1>12, <2>3 DEF Images, Raw
  <2>0. m = Four(l, Images(g))
    BY <1>8, <1>12 DEF TwoMaps
  <2>5. m.x = SymDiff(PartOf(l[1], {q}), PartOf(l[3], {t}))
    <3> DEFINE im == Images(g)
    <3>1. im[1].x = {q} /\ im[2].x = {} /\ im[3].x = {t} /\ im[4].x = {} /\ m = Four(l, im)
      BY <2>0, <2>4
    <3> HIDE DEF im, m, l, q, t
    <3>2. Four(l, im).x = SymDiff(PartOf(l[1], im[1].x), PartOf(l[3], im[3].x))
      BY <1>6, <3>1, FourParts
    <3>3. QED
      BY <3>1, <3>2
  <2>6. m.x \subseteq (IF q \in key[1] THEN {q} ELSE {}) \cup (IF t \in key[1] THEN {t} ELSE {})
    BY <1>7, <2>5 DEF SymDiff, PartOf
  <2> HIDE DEF r, m, l, W, b, q, t
  <2>7. r.x \subseteq b.xs /\ r.z \subseteq b.cone
    BY <1>2, <1>3, <1>4, <2>2, <2>6
  <2>8. QED
    BY <1>5, <2>7 DEF Keeps, r, b
<1>13. CASE W \cap a.cone # {} /\ g.op \notin {"X", "Y", "Z", "S", "Sdg", "CX", "CZ"}
  <2>1. g.op \notin Quiet \cup Turns \cup {"CX", "CZ"}
    BY <1>1, <1>13 DEF Quiet, Turns, OneMaps, TwoMaps
  <2>2. b = Account(a.cone \cup W, a.xs \cup W, a.n + branch_calls(g))
    BY <1>13, <2>1 DEF Pulled
  <2>3. b.cone = a.cone \cup W /\ b.xs = a.xs \cup W
    BY <2>2 DEF Account
  <2> HIDE DEF r, m, l, W, b
  <2>4. r.x \subseteq b.xs /\ r.z \subseteq b.cone
    BY <1>2, <1>3, <1>4, <2>3
  <2>5. QED
    BY <1>5, <2>4 DEF Keeps, r, b
<1>14. CASE W \cap a.cone = {} /\ g.op \in {"CX", "CZ"}
  BY <1>10, <1>14
<1>15. QED
  BY <1>9, <1>10, <1>11, <1>12, <1>13

LEMMA FitsMapped ==
  ASSUME NEW D, NEW s \in Nat, NEW a \in Accounts, Fits(D, s, a), NEW g \in CliffordGates,
         NEW E, E \subseteq {<<ConjugateKey(g, key).x, ConjugateKey(g, key).z>> : key \in D}
  PROVE  Fits(E, s, Pulled(a, g))
<1> DEFINE f == [key \in D |-> <<ConjugateKey(g, key).x, ConjugateKey(g, key).z>>]
           T == {f[key] : key \in D}
           b == Pulled(a, g)
<1>1. D \subseteq Keys /\ (\A key \in D : Keeps(key, a)) /\ IsFiniteSet(D)
  BY KeysFinite DEF Fits
<1>2. b \in Accounts /\ Below(a, b)
  BY PlacedClifford, PulledGrows
<1>3. \A key \in D : f[key] \in Keys /\ Keeps(f[key], b)
  <2>1. SUFFICES ASSUME NEW key \in D PROVE f[key] \in Keys /\ Keeps(f[key], b)
    OBVIOUS
  <2>2. key \in Keys /\ Keeps(key, a)
    BY <1>1
  <2>3. QED
    BY <2>2, ImageKeeps
<1>4. E \subseteq T
  OBVIOUS
<1>5. DOMAIN f = D
  OBVIOUS
<1> HIDE DEF f, b
<1>6. IsFiniteSet(T) /\ Cardinality(T) <= Cardinality(D)
  BY <1>1, <1>5, ImageSize
<1>7. T \subseteq Keys /\ \A key \in T : Keeps(key, b)
  BY <1>3
<1> HIDE DEF T
<1>8. Fits(D, s, b)
  BY <1>2, FitsBelow
<1>9. Fits(T, s, b)
  BY <1>2, <1>6, <1>7, <1>8, FitsLess
<1>10. QED
  BY <1>2, <1>4, <1>9, FitsPart DEF b

-----------------------------------------------------------------------------
(* A branching.                                                            *)

Crossed(key, r) == <<SymDiff(key[1], r.gx), SymDiff(key[2], r.gz)>>
Crossing(D, r) == {key \in D : anticommutes_with(key, r.gx, r.gz)}
Closure(D, r) == D \cup {Crossed(key, r) : key \in Crossing(D, r)}

LEMMA FitsTurned ==
  ASSUME NEW D, NEW s \in Nat, NEW a \in Accounts, Fits(D, s, a),
         NEW r, r.gx \in Basis, r.gz \in Basis, NEW E, E \subseteq Closure(D, r)
  PROVE  Fits(E, s, Turned(a, r.gx, r.gz))
<1> DEFINE b == Turned(a, r.gx, r.gz)
           A == Crossing(D, r)
           f == [key \in A |-> Crossed(key, r)]
           T == {f[key] : key \in A}
<1>1. D \subseteq Keys /\ (\A key \in D : Keeps(key, a)) /\ IsFiniteSet(D)
      /\ Cardinality(D) \in Nat /\ Cardinality(D) <= s * 2 ^ a.n
  BY KeysFinite DEF Fits
<1>2. b \in Accounts /\ Below(a, b)
  BY TurnedGrows
<1>3. Closure(D, r) = D \cup T
  BY DEF Closure
<1>4. CASE r.gz \cap a.xs = {} /\ r.gx \cap a.cone = {}
  <2>1. b = a
    BY <1>4 DEF Turned
  <2>2. \A key \in D : ~anticommutes_with(key, r.gx, r.gz)
    <3>1. SUFFICES ASSUME NEW key \in D PROVE ~anticommutes_with(key, r.gx, r.gz)
      OBVIOUS
    <3>2. key[1] \cap r.gz = {} /\ key[2] \cap r.gx = {}
      BY <1>1, <1>4 DEF Keeps
    <3>3. QED
      BY <3>2 DEF anticommutes_with
  <2>3. A = {}
    BY <2>2 DEF Crossing
  <2>4. E \subseteq D
    BY <1>3, <2>3
  <2>5. QED
    BY <2>1, <2>4, FitsPart
<1>5. CASE ~(r.gz \cap a.xs = {} /\ r.gx \cap a.cone = {})
  <2>1. b = Account(a.cone \cup r.gx \cup r.gz, a.xs \cup r.gx, a.n + 1)
    BY <1>5 DEF Turned
  <2>2. b.cone = a.cone \cup r.gx \cup r.gz /\ b.xs = a.xs \cup r.gx /\ b.n = a.n + 1
    BY <2>1 DEF Account
  <2>3. \A key \in A : f[key] \in Keys /\ Keeps(f[key], b)
    <3>1. SUFFICES ASSUME NEW key \in A PROVE f[key] \in Keys /\ Keeps(f[key], b)
      OBVIOUS
    <3>2. key \in Keys /\ Keeps(key, a)
      BY <1>1 DEF Crossing
    <3>3. f[key] = <<SymDiff(key[1], r.gx), SymDiff(key[2], r.gz)>>
      BY DEF Crossed
    <3> DEFINE x == SymDiff(key[1], r.gx)
               z == SymDiff(key[2], r.gz)
    <3>4. key[1] \in Basis /\ key[2] \in Basis /\ key[1] \subseteq a.xs /\ key[2] \subseteq a.cone
      BY <3>2 DEF Keys, Keeps
    <3>5. x \in Basis /\ z \in Basis
      BY <3>4 DEF Basis, SymDiff
    <3>6. x \subseteq b.xs /\ z \subseteq b.cone
      BY <2>2, <3>4 DEF SymDiff
    <3> HIDE DEF x, z, b, f
    <3>7. QED
      BY <3>3, <3>5, <3>6 DEF Keys, Keeps, x, z
  <2>4. IsFiniteSet(A) /\ Cardinality(A) <= Cardinality(D) /\ Cardinality(A) \in Nat
    BY <1>1, FS_Subset, FS_CardinalityType DEF Crossing
  <2>5. DOMAIN f = A
    OBVIOUS
  <2> HIDE DEF f, b, A
  <2>6. IsFiniteSet(T) /\ Cardinality(T) <= Cardinality(A)
    BY <2>4, <2>5, ImageSize
  <2>7. T \subseteq Keys /\ \A key \in T : Keeps(key, b)
    BY <2>3
  <2> HIDE DEF T
  <2>8. \A key \in D : Keeps(key, b)
    BY <1>1, <1>2 DEF Keeps, Below
  <2>9. /\ IsFiniteSet(D \cup T)
        /\ Cardinality(D \cup T) = Cardinality(D) + Cardinality(T) - Cardinality(D \cap T)
    BY <1>1, <2>6, FS_Union
  <2>10. Cardinality(T) \in Nat /\ Cardinality(D \cap T) \in Nat /\ Cardinality(D \cup T) \in Nat
    BY <1>1, <2>6, <2>9, FS_CardinalityType, FS_Subset
  <2>11. a.n \in Nat /\ b.n = a.n + 1
    BY <2>2, AccountParts
  <2> DEFINE p == s * 2 ^ a.n
             d == s * 2 ^ (a.n + 1)
  <2>12. p + p <= d /\ p \in Nat /\ d \in Nat
    BY <2>11, TimesDouble
  <2>13. Cardinality(D) <= p
    BY <1>1
  <2> HIDE DEF p, d
  <2>14. Cardinality(D \cup T) <= d
    BY <1>1, <2>4, <2>6, <2>9, <2>10, <2>12, <2>13
  <2>15. Cardinality(D \cup T) <= s * 2 ^ b.n
    BY <2>11, <2>14 DEF d
  <2>16. Fits(D \cup T, s, b)
    BY <1>1, <2>7, <2>8, <2>15 DEF Fits
  <2>17. QED
    BY <1>2, <1>3, <2>16, FitsPart DEF b
<1>6. QED
  BY <1>4, <1>5

LEMMA MapDomain ==
  ASSUME NEW s \in Hermitian, NEW g, Clifford(g)
  PROVE  DOMAIN MapSum(s, g) \subseteq {<<ConjugateKey(g, key).x, ConjugateKey(g, key).z>> : key \in DOMAIN s}
<1> DEFINE T == {<<ConjugateKey(g, key).x, ConjugateKey(g, key).z>> : key \in DOMAIN s}
           V == {t \in Hermitian : DOMAIN t \subseteq T}
<1>1. IsFiniteSet(DOMAIN s)
  BY HermitianParts
<1>2. EmptySum \in V
  <2>1. DOMAIN EmptySum = {}
    BY DEF EmptySum
  <2>2. QED
    BY <2>1, HermitianEmpty
<1>3. ASSUME NEW key \in DOMAIN s, NEW acc \in V
      PROVE  add_weighted(acc, <<ConjugateKey(g, key).x, ConjugateKey(g, key).z>>,
                          Times(s[key].c, ConjugateKey(g, key).f), s[key].freq) \in V
  <2> DEFINE to == <<ConjugateKey(g, key).x, ConjugateKey(g, key).z>>
             c == Times(s[key].c, ConjugateKey(g, key).f)
  <2>1. add_weighted(acc, to, c, s[key].freq) \in Hermitian
    BY MapTerm
  <2>2. DOMAIN add_weighted(acc, to, c, s[key].freq) = DOMAIN acc \cup {to}
    BY AddWeightedDomain
  <2>3. to \in T
    OBVIOUS
  <2> HIDE DEF to, c, T
  <2>4. add_weighted(acc, to, c, s[key].freq) \in V
    BY <2>1, <2>2, <2>3
  <2>5. QED
    BY <2>4 DEF to, c
<1>4. MapSum(s, g) \in V
  <2> HIDE DEF V
  <2>1. QED
    BY <1>1, <1>2, <1>3, MapStays
<1>5. QED
  BY <1>4

LEMMA ScaledDomain ==
  ASSUME NEW s, NEW q, NEW m, NEW g, m.gamma = Zero
  PROVE  DOMAIN WireNoiseAdjoint(m, g, s, q) = DOMAIN s
<1>1. AmplitudeDampingAdjoint(s, q, m.gamma, m.root) = s
  BY DEF AmplitudeDampingAdjoint
<1> DEFINE t == DepolarizingAdjoint(s, q, DepolarizingThird(m, g))
           u == PhaseDampingAdjoint(t, q, m.lambda)
           v == PauliChannelAdjoint(u, q, m)
<1>2. WireNoiseAdjoint(m, g, s, q) = v
  BY <1>1 DEF WireNoiseAdjoint
<1>3. DOMAIN t = DOMAIN s
  BY DEF DepolarizingAdjoint, ScaleBy
<1> HIDE DEF t
<1>4. DOMAIN u = DOMAIN t
  BY DEF PhaseDampingAdjoint, ScaleBy
<1> HIDE DEF u
<1>5. DOMAIN v = DOMAIN u
  BY DEF PauliChannelAdjoint, ScaleBy
<1>6. QED
  BY <1>2, <1>3, <1>4, <1>5

LEMMA NoiseDomain ==
  ASSUME NEW s \in Hermitian, NEW m, RealNoise(m), m.gamma = Zero, NEW g, g.qs \in Seq(Qubits)
  PROVE  DOMAIN GateNoiseAdjoint(m, g, s) = DOMAIN s
<1> DEFINE V == {t \in Hermitian : DOMAIN t = DOMAIN s}
<1>1. s \in V
  OBVIOUS
<1>2. \A t \in V, q \in Qubits : WireNoiseAdjoint(m, g, t, q) \in V
  <2>1. SUFFICES ASSUME NEW t \in V, NEW q \in Qubits PROVE WireNoiseAdjoint(m, g, t, q) \in V
    OBVIOUS
  <2>2. WireNoiseAdjoint(m, g, t, q) \in Hermitian
    BY WireHermitian
  <2>3. DOMAIN WireNoiseAdjoint(m, g, t, q) = DOMAIN t
    BY ScaledDomain
  <2>4. QED
    BY <2>2, <2>3
<1>3. GateNoiseAdjoint(m, g, s) \in V
  <2> HIDE DEF V
  <2>1. QED
    BY <1>1, <1>2, NoiseStays
<1>4. QED
  BY <1>3

LEMMA ReadoutDomain ==
  ASSUME NEW s \in Hermitian, NEW m, RealNoise(m)
  PROVE  DOMAIN ReadoutAdjoint(m, s) = DOMAIN s
<1> DEFINE u == Minus(One, Scale(m.p10, 2))
           V == {t \in Hermitian : DOMAIN t = DOMAIN s}
<1>1. Kind(FALSE, u)
  BY OneReal, RealOps, RealScale DEF RealNoise
<1>2. ASSUME NEW q \in Qubits, NEW acc \in V
      PROVE  [k \in DOMAIN acc |-> [acc[k] EXCEPT !.c = Times(@, IF q \in k[2] THEN u ELSE One)]] \in V
  <2> HIDE DEF u
  <2> DEFINE g == [k \in DOMAIN acc |-> IF q \in k[2] THEN u ELSE One]
             t == [k \in DOMAIN acc |-> [acc[k] EXCEPT !.c = Times(@, g[k])]]
  <2>1. \A k \in DOMAIN acc : Kind(FALSE, g[k])
    BY <1>1, OneReal
  <2>2. [k \in DOMAIN acc |-> [acc[k] EXCEPT !.c = Times(@, IF q \in k[2] THEN u ELSE One)]] = t
    OBVIOUS
  <2> HIDE DEF g
  <2>3. t \in Hermitian
    BY <2>1, HermitianScaled
  <2>4. DOMAIN t = DOMAIN acc
    OBVIOUS
  <2>5. QED
    BY <2>2, <2>3, <2>4
<1>3. s \in V
  OBVIOUS
<1>4. ReadoutAdjoint(m, s) \in V
  <2> HIDE DEF V
  <2>1. QED
    BY <1>2, <1>3, ReadoutStays DEF u
<1>5. QED
  BY <1>4

\* What one term of a branching adds.
LEMMA ExpandedWithin ==
  ASSUME NEW acc, NEW key, NEW r, NEW D, key \in D, DOMAIN acc.out \subseteq Closure(D, r)
  PROVE  DOMAIN Expanded(acc, key, r).out \subseteq Closure(D, r)
<1> DEFINE w == sum[key]
           cosine == add_weighted(acc.out, key, Times(w.c, Cos(r.th)), w.freq)
           child == Times(Times(Times(w.c, ImUnit), Sin(r.th)), Factor(r.gx, r.gz))
           signed == Times(child, RawSign(r.gz, key[1]))
           rk == <<SymDiff(key[1], r.gx), SymDiff(key[2], r.gz)>>
           plain == add_weighted(acc.out, key, w.c, w.freq)
           both == add_weighted(cosine, rk, signed, w.freq + 1)
           lost == Plus(acc.dropped, Modulus(child))
<1>1. Expanded(acc, key, r) =
        IF ~anticommutes_with(key, r.gx, r.gz)
        THEN [out |-> plain, dropped |-> acc.dropped, tested |-> TRUE]
        ELSE IF job.max_freq # None /\ w.freq + 1 > job.max_freq
        THEN [out |-> cosine, dropped |-> lost, tested |-> FALSE]
        ELSE [out |-> both, dropped |-> acc.dropped, tested |-> TRUE]
  BY DEF Expanded
<1>2. key \in Closure(D, r) /\ (anticommutes_with(key, r.gx, r.gz) => rk \in Closure(D, r))
  BY DEF Closure, Crossed, Crossing
<1>3. DOMAIN plain = DOMAIN acc.out \cup {key} /\ DOMAIN cosine = DOMAIN acc.out \cup {key}
  BY AddWeightedDomain
<1> HIDE DEF cosine, rk, signed, w
<1>4. DOMAIN both = DOMAIN cosine \cup {rk}
  BY AddWeightedDomain
<1> HIDE DEF plain, both, lost
<1>5. CASE ~anticommutes_with(key, r.gx, r.gz)
  <2>1. Expanded(acc, key, r).out = plain
    BY <1>1, <1>5
  <2>2. QED
    BY <1>2, <1>3, <2>1
<1>6. CASE anticommutes_with(key, r.gx, r.gz)
  <2>1. Expanded(acc, key, r).out \in {cosine, both}
    BY <1>1, <1>6
  <2>2. QED
    BY <1>2, <1>3, <1>4, <1>6, <2>1
<1>7. QED
  BY <1>5, <1>6

-----------------------------------------------------------------------------
(* The price as a certificate: the light cone, with every branching of     *)
(* every gate that it meets.                                               *)

Full(a) == a \in Accounts /\ a.xs = a.cone

ConePulled(a, g) ==
    IF Range(g.qs) \cap a.cone = {} THEN a
    ELSE Account(a.cone \cup Range(g.qs), a.cone \cup Range(g.qs),
                 a.n + IF g.op = "Reset" THEN 0 ELSE branch_calls(g))

LEMMA ConeCovers ==
  ASSUME NEW g, Placed(g), NEW a, Full(a)
  PROVE  /\ Full(ConePulled(a, g)) /\ Below(Pulled(a, g), ConePulled(a, g))
<1> DEFINE W == Range(g.qs)
           k == IF g.op = "Reset" THEN 0 ELSE branch_calls(g)
           b == ConePulled(a, g)
<1>1. a.cone \in Basis /\ a.xs = a.cone /\ a.n \in Nat /\ a \in Accounts
  BY AccountParts DEF Full
<1>2. k \in Nat /\ (g.op \in Turns => k = 1) /\ W \in Basis
  BY CallsOf DEF Turns
<1> DEFINE c == a.cone \cup W
           n == a.n + k
<1>3. c \in Basis /\ n \in Nat /\ a.n <= n /\ (g.op \in Turns => n = a.n + 1)
  BY <1>1, <1>2 DEF Basis
<1>4. CASE W \cap a.cone = {}
  <2>1. b = a
    BY <1>4 DEF ConePulled
  <2>2. g.op \in Turns => g.qs[1] \notin a.xs
    <3>1. g.op \in Turns => g.qs[1] \in W
      BY CallsOf
    <3>2. QED
      BY <1>1, <1>4, <3>1
  <2>3. Pulled(a, g) = a
    BY <1>4, <2>2 DEF Pulled
  <2>4. QED
    BY <1>1, <2>1, <2>3, BelowSelf DEF Full
<1>5. CASE W \cap a.cone # {}
  <2>1. b = Account(c, c, n)
    BY <1>5 DEF ConePulled
  <2> DEFINE p == Pulled(a, g)
  <2>2. b \in Accounts /\ b.cone = c /\ b.xs = c /\ b.n = n
    <3> HIDE DEF c, n, b
    <3>1. QED
      BY <1>3, <2>1, AccountMake
  <2>3. g.op \notin Quiet \cup Turns \cup {"CX", "CZ"} => k = branch_calls(g)
    BY DEF Quiet
  <2>4. p \in Accounts
    BY <1>1, PulledGrows
  <2>5. CASE g.op \in Quiet
    <3>1. p = a
      BY <2>5 DEF Pulled
    <3>2. QED
      BY <1>1, <1>3, <2>2, <3>1 DEF Below, Full
  <2>6. CASE g.op \in Turns
    <3>1. p = a \/ p = Account(a.cone, a.xs, a.n + 1)
      BY <2>6 DEF Pulled, Quiet, Turns
    <3>2. p.cone = a.cone /\ p.xs = a.xs /\ p.n <= a.n + 1
      BY <1>1, <3>1 DEF Account
    <3>3. QED
      BY <1>1, <1>3, <2>2, <2>6, <3>2 DEF Below, Full
  <2>7. CASE g.op = "CX"
    <3>1. p = Account(c, IF g.qs[1] \in a.xs THEN a.xs \cup {g.qs[2]} ELSE a.xs, a.n)
      BY <1>5, <2>7 DEF Pulled, Quiet, Turns
    <3>2. g.qs[2] \in W
      BY <2>7, CallsOf
    <3>3. p.cone = c /\ p.xs \subseteq c /\ p.n = a.n
      BY <1>1, <3>1, <3>2 DEF Account
    <3> HIDE DEF c, p
    <3>4. QED
      BY <1>3, <2>2, <3>3 DEF Below, Full, p
  <2>8. CASE g.op = "CZ"
    <3>1. p = Account(c, a.xs, a.n)
      BY <1>5, <2>8 DEF Pulled, Quiet, Turns
    <3>3. p.cone = c /\ p.xs \subseteq c /\ p.n = a.n
      BY <1>1, <3>1 DEF Account
    <3> HIDE DEF c, p
    <3>4. QED
      BY <1>3, <2>2, <3>3 DEF Below, Full, p
  <2>9. CASE g.op \notin Quiet \cup Turns \cup {"CX", "CZ"}
    <3>1. p = Account(c, a.xs \cup W, n)
      BY <1>5, <2>3, <2>9 DEF Pulled
    <3>3. p.cone = c /\ p.xs = c /\ p.n = n
      BY <1>1, <3>1 DEF Account
    <3> HIDE DEF c, p
    <3>4. QED
      BY <1>3, <2>2, <3>3 DEF Below, Full, p
  <2>10. QED
    BY <2>5, <2>6, <2>7, <2>8, <2>9
<1>6. QED
  BY <1>4, <1>5

\* What is not above the three ceilings is not above the price.
Priced(price0, s, B, cap) ==
    \A x \in Nat : x <= s * 2 ^ B.n /\ x <= 2 ^ (2 * Cardinality(B.cone)) /\ x <= cap + 2 => x <= price0

ObsCone(obs) == UNION {t[1] \cup t[2] : t \in obs}
SeedSize(obs) == IF obs = {} THEN 1 ELSE Cardinality(obs)

LEMMA SmallestIs ==
  ASSUME NEW a \in Int, NEW b \in Int, NEW c \in Int, NEW x \in Int, x <= a, x <= b, x <= c
  PROVE  x <= SmallestOf({a, b, c})
<1>1. \E u \in {a, b, c} : \A y \in {a, b, c} : u <= y
  <2>1. CASE a <= b /\ a <= c
    BY <2>1
  <2>2. CASE b <= a /\ b <= c
    BY <2>2
  <2>3. CASE c <= a /\ c <= b
    BY <2>3
  <2>4. QED
    BY <2>1, <2>2, <2>3
<1>2. SmallestOf({a, b, c}) \in {a, b, c}
  BY <1>1 DEF SmallestOf
<1>3. QED
  BY <1>2

LEMMA ObsConeIs ==
  ASSUME NEW obs, obs \subseteq Keys
  PROVE  /\ ObsCone(obs) \in Basis /\ \A t \in obs : t[1] \subseteq ObsCone(obs) /\ t[2] \subseteq ObsCone(obs)
         /\ Full(Account(ObsCone(obs), ObsCone(obs), 0))
<1>1. \A t \in obs : t[1] \cup t[2] \in Basis
  BY DEF Keys, Basis
<1>2. ObsCone(obs) \in Basis
  BY <1>1 DEF ObsCone, Basis
<1>3. \A t \in obs : t[1] \subseteq ObsCone(obs) /\ t[2] \subseteq ObsCone(obs)
  BY DEF ObsCone
<1>4. Full(Account(ObsCone(obs), ObsCone(obs), 0))
  <2> DEFINE c == ObsCone(obs)
  <2> HIDE DEF c
  <2>1. c \in Basis /\ 0 \in Nat
    BY <1>2 DEF c
  <2>2. Full(Account(c, c, 0))
    BY <2>1, AccountMake DEF Full
  <2>3. QED
    BY <2>2 DEF c
<1>5. QED
  BY <1>2, <1>3, <1>4

LEMMA PriceCourse ==
  ASSUME NEW ops, PlacedOps(ops), NEW obs, obs \subseteq Keys, NEW cap \in Nat
  PROVE  \E B \in Accounts : /\ Certified(ops, Len(ops), Account(ObsCone(obs), ObsCone(obs), 0), B)
                             /\ Priced(term_upper_bound(ops, obs, cap), SeedSize(obs), B, cap)
<1> DEFINE L == Len(ops)
           R == Reverse(ops)
           start == [cone |-> ObsCone(obs), n |-> 0]
           V == [cone : Basis, n : Nat \cup {None}]
           Back(acc, g) ==
             IF Range(g.qs) \cap acc.cone = {} THEN acc
             ELSE [cone |-> acc.cone \cup Range(g.qs),
                   n |-> IF None \in {acc.n, branch_calls(g)} THEN None ELSE acc.n + branch_calls(g)]
           After[n \in 0..Len(R)] == IF n = 0 THEN start ELSE Back(After[n - 1], R[n])
           own == Account(ObsCone(obs), ObsCone(obs), 0)
           F == {a \in Accounts : Full(a)}
<1>1. L \in Nat /\ Len(R) = L /\ \A n \in 1..L : R[n] = ops[L + 1 - n] /\ L + 1 - n \in 1..L /\ Placed(R[n])
  <2>1. L \in Nat /\ ops \in Seq(Range(ops)) /\ \A n \in 1..L : Placed(ops[n])
    BY DEF PlacedOps, IsCircuit
  <2>2. R = [n \in 1..L |-> ops[(L - n) + 1]]
    BY DEF Reverse
  <2>3. Len(R) = L
    BY <2>1, <2>2
  <2> HIDE DEF R, L
  <2>4. \A n \in 1..L : (L - n) + 1 = L + 1 - n /\ L + 1 - n \in 1..L
    BY <2>1
  <2>5. QED
    BY <2>1, <2>2, <2>3, <2>4
<1>2. term_upper_bound(ops, obs, cap) =
        IF After[Len(R)].n = None THEN cap + 2
        ELSE SmallestOf({SeedSize(obs) * 2 ^ After[Len(R)].n, 2 ^ (2 * Cardinality(After[Len(R)].cone)), cap + 2})
  BY DEF term_upper_bound, Along, SeedSize, ObsCone
<1>3. start \in V /\ own \in F /\ own.cone = start.cone /\ own.n = start.n
  <2>1. ObsCone(obs) \in Basis /\ Full(own)
    BY ObsConeIs
  <2>2. own \in F
    BY <2>1 DEF Full
  <2>3. own.cone = start.cone /\ own.n = start.n
    BY DEF Account
  <2> HIDE DEF own
  <2>4. QED
    BY <2>1, <2>2, <2>3
<1>4. \A n \in 1..L, a \in V : Back(a, R[n]) \in V
  <2>1. SUFFICES ASSUME NEW n \in 1..L, NEW a \in V PROVE Back(a, R[n]) \in V
    OBVIOUS
  <2> DEFINE g == R[n]
  <2>2. Placed(g) /\ Range(g.qs) \in Basis /\ branch_calls(g) \in Nat \cup {None} /\ (g.op = "Reset" => branch_calls(g) = None)
    BY <1>1, CallsOf
  <2> HIDE DEF g
  <2>3. a.cone \cup Range(g.qs) \in Basis
    BY <2>2 DEF Basis
  <2>4. (IF None \in {a.n, branch_calls(g)} THEN None ELSE a.n + branch_calls(g)) \in Nat \cup {None}
    BY <2>2
  <2>5. Back(a, g) \in V
    BY <2>3, <2>4
  <2>6. QED
    BY <2>5 DEF g
<1> HIDE DEF R
<1>5. After[0] = start /\ \A n \in 1..L : After[n] = Back(After[n - 1], R[n]) /\ After[n - 1] \in V /\ After[n] \in V
  <2> DEFINE step == [p \in (1..L) \X V |-> Back(p[2], R[p[1]])]
  <2>1. Stepper(step, L, V)
    BY <1>4 DEF Stepper
  <2>2. \A n \in 1..L, a \in V : step[<<n, a>>] = Back(a, R[n])
    OBVIOUS
  <2> HIDE DEF step, Back, V, L, start
  <2>3. PICK f : Solves(f, L, V, start, step)
    BY <1>1, <1>3, <2>1, Recursion
  <2>4. f \in [0..L -> V] /\ f[0] = start /\ \A n \in 1..L : f[n - 1] \in V /\ f[n] = Back(f[n - 1], R[n])
    BY <2>2, <2>3 DEF Solves
  <2>5. f = [n \in 0..L |-> IF n = 0 THEN start ELSE Back(f[n - 1], R[n])]
    <3>1. \A n \in 0..L : f[n] = IF n = 0 THEN start ELSE Back(f[n - 1], R[n])
      BY <1>1, <2>4
    <3>2. QED
      BY <2>4, <3>1
  <2>6. After = [n \in 0..L |-> IF n = 0 THEN start ELSE Back(After[n - 1], R[n])]
    BY <1>1, <2>5
  <2> HIDE DEF After
  <2>7. After[0] = start /\ \A n \in 1..L : After[n] = Back(After[n - 1], R[n])
    <3>1. 0 \in 0..L /\ \A n \in 1..L : n \in 0..L /\ n # 0
      BY <1>1
    <3>2. QED
      BY <2>6, <3>1
  <2>8. \A n \in 0..L : After[n] \in V
    <3> DEFINE P == {n \in 0..L : After[n] \in V}
    <3>1. 0 \in P
      BY <1>1, <1>3, <2>7
    <3>2. \A n \in 1..L : n - 1 \in P => n \in P
      <4>1. \A n \in 1..L : Back(After[n - 1], R[n]) = After[n] /\ n \in 0..L
        BY <1>1, <2>7
      <4>2. QED
        BY <1>4, <4>1
    <3> HIDE DEF P
    <3>3. \A n \in 0..L : n \in P
      BY <1>1, <3>1, <3>2, UpToInduction
    <3>4. QED
      BY <3>3 DEF P
  <2>9. \A n \in 1..L : n \in 0..L /\ n - 1 \in 0..L
    BY <1>1
  <2>10. QED
    BY <2>7, <2>8, <2>9
<1>6. \E f : /\ f \in [0..L -> F] /\ f[0] = own
             /\ \A n \in 1..L : f[n] = ConePulled(f[n - 1], R[n])
  <2> DEFINE step == [p \in (1..L) \X F |-> ConePulled(p[2], R[p[1]])]
  <2>1. Stepper(step, L, F)
    <3>1. \A n \in 1..L, a \in F : ConePulled(a, R[n]) \in F
      BY <1>1, ConeCovers DEF Full
    <3>2. QED
      BY <3>1 DEF Stepper
  <2>2. \A n \in 1..L, a \in F : step[<<n, a>>] = ConePulled(a, R[n])
    OBVIOUS
  <2> HIDE DEF step, F, L, own
  <2>3. PICK f : Solves(f, L, F, own, step)
    BY <1>1, <1>3, <2>1, Recursion
  <2>4. QED
    BY <2>2, <2>3 DEF Solves
<1>7. PICK f : /\ f \in [0..L -> F] /\ f[0] = own
               /\ \A n \in 1..L : f[n] = ConePulled(f[n - 1], R[n])
  BY <1>6
<1> HIDE DEF After, own, start
<1>8. ASSUME NEW n \in 1..L, NEW a \in V, NEW b \in F, a.cone = b.cone, a.n # None => a.n = b.n
      PROVE  LET c == Back(a, R[n])
                 d == ConePulled(b, R[n])
             IN  c.cone = d.cone /\ (c.n # None => c.n = d.n)
  <2> DEFINE g == R[n]
             c == Back(a, g)
             d == ConePulled(b, g)
  <2>1. Placed(g) /\ (g.op = "Reset" => branch_calls(g) = None)
    BY <1>1, CallsOf
  <2> HIDE DEF g
  <2>2. CASE Range(g.qs) \cap a.cone = {}
    BY <1>8, <2>2 DEF ConePulled, g
  <2>3. CASE Range(g.qs) \cap a.cone # {}
    <3>1. c = [cone |-> a.cone \cup Range(g.qs),
               n |-> IF None \in {a.n, branch_calls(g)} THEN None ELSE a.n + branch_calls(g)]
      BY <2>3
    <3>2. d = Account(b.cone \cup Range(g.qs), b.cone \cup Range(g.qs),
                      b.n + IF g.op = "Reset" THEN 0 ELSE branch_calls(g))
      BY <1>8, <2>3 DEF ConePulled
    <3>3. c.cone = d.cone
      BY <1>8, <3>1, <3>2 DEF Account
    <3>4. c.n # None => a.n # None /\ branch_calls(g) # None /\ c.n = a.n + branch_calls(g)
      BY <3>1
    <3>5. d.n = b.n + IF g.op = "Reset" THEN 0 ELSE branch_calls(g)
      BY <3>2 DEF Account
    <3>6. c.n # None => c.n = d.n
      BY <1>8, <2>1, <3>4, <3>5
    <3>7. QED
      BY <3>3, <3>6 DEF g
  <2>4. QED
    BY <2>2, <2>3
<1> DEFINE Same(n) == After[n].cone = f[n].cone /\ (After[n].n # None => After[n].n = f[n].n)
<1>9. Same(L)
  <2> DEFINE P == {n \in 0..L : Same(n)}
  <2>1. 0 \in P
    BY <1>1, <1>3, <1>5, <1>7
  <2>2. \A n \in 1..L : n - 1 \in P => n \in P
    <3>1. SUFFICES ASSUME NEW n \in 1..L, n - 1 \in P PROVE n \in P
      OBVIOUS
    <3>2. n \in 0..L /\ n - 1 \in 0..L
      BY <1>1
    <3>3. After[n - 1] \in V /\ f[n - 1] \in F /\ Same(n - 1)
      BY <1>5, <1>7, <3>1, <3>2
    <3> HIDE DEF Back, V, F
    <3>4. Same(n)
      BY <1>5, <1>7, <1>8, <3>3
    <3>5. QED
      BY <3>2, <3>4
  <2> HIDE DEF P
  <2> HIDE DEF L
  <2>3. \A n \in 0..L : n \in P
    BY <1>1, <2>1, <2>2, UpToInduction
  <2>4. L \in 0..L
    BY <1>1
  <2>5. QED
    BY <2>3, <2>4 DEF P
<1> HIDE DEF Back
<1> DEFINE B == f[L]
           h == [k \in 0..L |-> f[L - k]]
<1>10. B \in Accounts /\ B \in F
  BY <1>1, <1>7
<1>11. Certified(ops, L, own, B)
  <2>1. \A k \in 0..L : L - k \in 0..L /\ f[L - k] \in Accounts /\ Full(f[L - k])
    <3>1. \A k \in 0..L : L - k \in 0..L
      BY <1>1
    <3> HIDE DEF L
    <3>2. \A k \in 0..L : f[k] \in F
      BY <1>7
    <3>3. QED
      BY <3>1, <3>2
  <2>2. h \in [0..L -> Accounts] /\ h[L] = f[0] /\ h[0] = f[L]
    <3>1. L \in 0..L /\ 0 \in 0..L /\ L - L = 0 /\ L - 0 = L
      BY <1>1
    <3>2. QED
      BY <2>1, <3>1
  <2>3. ASSUME NEW k \in 1..L PROVE Below(Pulled(h[k], ops[k]), h[k - 1])
    <3> DEFINE n == L + 1 - k
    <3>1. n \in 1..L /\ L - k = n - 1 /\ L - (k - 1) = n /\ L + 1 - n = k /\ k \in 0..L /\ k - 1 \in 0..L
      <4>1. L \in Nat
        BY <1>1
      <4> HIDE DEF L
      <4>2. k \in Nat /\ k >= 1 /\ k <= L
        BY <4>1
      <4>3. n \in 1..L /\ k \in 0..L /\ k - 1 \in 0..L
        BY <4>1, <4>2
      <4>4. L - k = n - 1 /\ L - (k - 1) = n /\ L + 1 - n = k
        BY <4>1, <4>2
      <4>5. QED
        BY <4>3, <4>4
    <3>2. h[k] = f[n - 1] /\ h[k - 1] = f[n] /\ R[n] = ops[k]
      BY <1>1, <3>1
    <3> HIDE DEF n, h
    <3>3. Full(f[n - 1]) /\ f[n] = ConePulled(f[n - 1], R[n]) /\ Placed(R[n])
      BY <1>1, <1>7, <2>1, <3>1
    <3>4. Below(Pulled(f[n - 1], R[n]), ConePulled(f[n - 1], R[n]))
      BY <3>3, ConeCovers
    <3>5. QED
      BY <3>2, <3>3, <3>4
  <2>4. Below(own, h[L]) /\ Below(h[0], B) /\ own \in Accounts
    BY <1>3, <1>7, <1>10, <2>2, BelowSelf
  <2> HIDE DEF h, B, L
  <2>5. Covers(h, ops, L, own, B)
    BY <2>2, <2>3, <2>4 DEF Covers
  <2>6. QED
    BY <2>5 DEF Certified
<1>12. Priced(term_upper_bound(ops, obs, cap), SeedSize(obs), B, cap)
  <2> DEFINE e == After[L]
             s == SeedSize(obs)
  <2>1. e.cone = B.cone /\ (e.n # None => e.n = B.n)
    BY <1>9
  <2>2. B.n \in Nat /\ B.cone \in Basis
    BY <1>10, AccountParts
  <2>3. s \in Nat
    BY KeysFinite DEF SeedSize
  <2>4. s * 2 ^ B.n \in Nat
    <3>1. B.n <= B.n
      BY <2>2
    <3> HIDE DEF s, B
    <3>2. QED
      BY <2>2, <2>3, <3>1, TimesPower
  <2>5. 2 ^ (2 * Cardinality(B.cone)) \in Nat
    <3>1. Cardinality(B.cone) \in Nat
      BY <2>2, BasisFinite, FS_CardinalityType
    <3>2. 2 * Cardinality(B.cone) \in Nat
      BY <3>1
    <3> HIDE DEF B
    <3>3. QED
      BY <3>2, PowerIs
  <2> DEFINE u == s * 2 ^ B.n
             v == 2 ^ (2 * Cardinality(B.cone))
             p == term_upper_bound(ops, obs, cap)
  <2>6. p = IF e.n = None THEN cap + 2 ELSE SmallestOf({u, v, cap + 2})
    BY <1>1, <1>2, <2>1
  <2>7. SUFFICES ASSUME NEW x \in Nat, x <= u, x <= v, x <= cap + 2 PROVE x <= p
    BY DEF Priced
  <2>8. cap + 2 \in Int /\ u \in Int /\ v \in Int /\ x \in Int
    BY <2>4, <2>5
  <2> HIDE DEF p, u, v, e
  <2>9. x <= SmallestOf({u, v, cap + 2})
    BY <2>7, <2>8, SmallestIs
  <2>10. QED
    BY <2>6, <2>7, <2>9
<1>13. QED
  BY <1>10, <1>11, <1>12 DEF own

-----------------------------------------------------------------------------
(* The price, along the run.                                               *)

CapOf(j) == IF j.max_terms # None THEN j.max_terms ELSE DefaultTerms

\* The cap is compared after every term, or it is out of reach of the register.
PricedJob(j) ==
    \/ j.max_terms # None /\ j.max_freq = None /\ Cardinality(DOMAIN j.obs) <= j.max_terms + 2
    \/ 2 ^ (2 * N) <= CapOf(j) + 2

PricedJobs == \A j \in Jobs : PricedJob(j)

\* No damping adds terms outside a branching.
Calm == ~Noisy \/ job.noise.gamma = Zero

Terms == SeedSize(DOMAIN job.obs)
Origin == Account(ObsCone(DOMAIN job.obs), ObsCone(DOMAIN job.obs), 0)
Roomy(D) == Cardinality(D) <= CapOf(job) + 2

\* The sum is accounted for before every piece of the gate, and the account
\* after the last of them is certified for what is left of the circuit.
Live(B) ==
    \E f : /\ Passes(f, program) /\ Fits(DOMAIN sum, Terms, f[0])
           /\ Certified(job.ops, at, f[Len(program)], B)

\* What the branching that is under way has built.
OutPart ==
    /\ \/ DOMAIN out = {}
       \/ program # <<>> /\ Head(program).do = "branch" /\ DOMAIN out \subseteq Closure(DOMAIN sum, Head(program))
    /\ undrained # {} \/ DOMAIN out # {} => Overlaps(Head(program))

Blank == phase = "forward" /\ sum = EmptySum /\ out = EmptySum

EngineInv(B) ==
    IF phase = "forward" THEN Blank /\ Certified(job.ops, Len(job.ops), Origin, B)
    ELSE Live(B) /\ OutPart /\ Roomy(DOMAIN sum)

\* The deferred gates, up to where the walk is.
Walked(B) ==
    /\ i \in 1..(Len(circuit) + 1)
    /\ \E h : /\ Covers(h, circuit, Len(circuit), Origin, B)
              /\ Certified(deferred, Len(deferred), h[i - 1], B)

Located(B) ==
    /\ pass \in {"optimize", "prepare", "ready"} => Certified(circuit, Len(circuit), Origin, B)
    /\ pass = "walk" => Walked(B)
    /\ pass = "handed" => EngineInv(B)

Guaranteed(B) == Priced(price, Terms, B, CapOf(job)) /\ Located(B)

PriceInv ==
    /\ PricedJob(job)
    /\ pass # "handed" => Blank
    /\ pass \in {"optimize", "prepare"} => deferred = <<>>
    /\ measured = {} /\ Calm => \E B \in Accounts : Guaranteed(B)

LEMMA TermsIs ==
  ASSUME JobInv
  PROVE  /\ DOMAIN job.obs \subseteq Keys /\ Terms \in Nat /\ Full(Origin) /\ Origin \in Accounts
         /\ Fits(DOMAIN job.obs, Terms, Origin)
<1> DEFINE D == DOMAIN job.obs
           o == Account(ObsCone(D), ObsCone(D), 0)
<1>1. D \subseteq Keys
  BY DEF JobInv, Physical, RealObs
<1> HIDE DEF D
<1>2. Cardinality(D) \in Nat /\ SeedSize(D) \in Nat /\ Cardinality(D) <= SeedSize(D)
  <2>1. Cardinality(D) \in Nat
    BY <1>1, KeysFinite
  <2>2. D = {} => Cardinality(D) = 0
    BY FS_EmptySet
  <2>3. QED
    BY <2>1, <2>2 DEF SeedSize
<1>3. Full(o) /\ o \in Accounts /\ \A t \in D : t[1] \subseteq ObsCone(D) /\ t[2] \subseteq ObsCone(D)
  BY <1>1, ObsConeIs DEF Full
<1>4. o.cone = ObsCone(D) /\ o.xs = ObsCone(D) /\ o.n = 0
  BY DEF Account
<1>5. Cardinality(D) <= SeedSize(D) * 2 ^ o.n
  <2>1. SeedSize(D) * 1 = SeedSize(D)
    BY <1>2
  <2> HIDE DEF o
  <2>2. QED
    BY <1>2, <1>4, <2>1, PowerZero
<1> HIDE DEF o
<1>6. Fits(D, SeedSize(D), o)
  BY <1>1, <1>3, <1>4, <1>5 DEF Fits, Keeps
<1>7. QED
  BY <1>1, <1>2, <1>3, <1>6 DEF Terms, Origin, D, o

LEMMA RoomyKeys ==
  ASSUME NEW D, D \subseteq Keys, 2 ^ (2 * N) <= CapOf(job) + 2, CapOf(job) \in Nat
  PROVE  Roomy(D)
<1>1. IsFiniteSet(Qubits) /\ Cardinality(Qubits) = N /\ N \in Nat
  <2>1. Qubits = 0..(N - 1) /\ N \in Nat
    BY WidthAssumption DEF Qubits
  <2>2. 0 \in Int /\ N - 1 \in Int
    BY <2>1
  <2>3. IsFiniteSet(0..(N - 1)) /\ Cardinality(0..(N - 1)) = IF 0 > N - 1 THEN 0 ELSE N - 1 - 0 + 1
    BY <2>2, FS_Interval
  <2>4. (IF 0 > N - 1 THEN 0 ELSE N - 1 - 0 + 1) = N
    BY <2>1
  <2>5. QED
    BY <2>1, <2>3, <2>4
<1>2. Keys = (SUBSET Qubits) \X (SUBSET Qubits)
  BY DEF Keys, Basis
<1>3. IsFiniteSet(Keys) /\ Cardinality(Keys) <= 2 ^ (2 * N)
  BY <1>1, <1>2, PairsWithin
<1>4. Cardinality(D) <= Cardinality(Keys) /\ Cardinality(D) \in Nat /\ Cardinality(Keys) \in Nat
  BY <1>3, FS_Subset, FS_CardinalityType
<1>5. 2 ^ (2 * N) \in Nat
  <2>1. 2 * N \in Nat
    BY <1>1
  <2>2. QED
    BY <2>1, PowerIs
<1>6. QED
  BY <1>3, <1>4, <1>5 DEF Roomy

LEMMA RoomyLess ==
  ASSUME NEW D, D \subseteq Keys, NEW E, E \subseteq Keys, Roomy(D), Cardinality(E) <= Cardinality(D), CapOf(job) \in Nat
  PROVE  Roomy(E)
<1>1. Cardinality(D) \in Nat /\ Cardinality(E) \in Nat
  BY KeysFinite
<1>2. QED
  BY <1>1 DEF Roomy

LEMMA CapIs ==
  ASSUME FlightInv
  PROVE  CapOf(job) \in Nat
<1>1. job.max_terms \in Nat \cup {None}
  BY DEF FlightInv
<1>2. QED
  BY <1>1 DEF CapOf, DefaultTerms

\* The sum under construction.
LEMMA RoomyOut ==
  ASSUME FlightInv, PricedJob(job), DOMAIN out \subseteq Keys
  PROVE  Roomy(DOMAIN out)
<1>1. CASE 2 ^ (2 * N) <= CapOf(job) + 2
  BY <1>1, CapIs, RoomyKeys
<1>2. CASE job.max_terms # None /\ job.max_freq = None
  <2>1. Strict /\ CapOf(job) = job.max_terms
    BY <1>2 DEF Strict, Capped, CapOf
  <2>2. QED
    BY <2>1 DEF FlightInv, Roomy
<1>3. QED
  BY <1>1, <1>2 DEF PricedJob

LEMMA RoomySeed ==
  ASSUME FlightInv, PricedJob(job), JobInv
  PROVE  Roomy(DOMAIN job.obs)
<1>1. CASE 2 ^ (2 * N) <= CapOf(job) + 2
  BY <1>1, CapIs, RoomyKeys, TermsIs
<1>2. CASE job.max_terms # None /\ Cardinality(DOMAIN job.obs) <= job.max_terms + 2
  BY <1>2 DEF Roomy, CapOf
<1>3. QED
  BY <1>1, <1>2 DEF PricedJob

\* A set of strings that keeps to the account that is priced, within the cap.
LEMMA FitsPriced ==
  ASSUME NEW B \in Accounts, NEW D, JobInv, Fits(D, Terms, B), Roomy(D), Priced(price, Terms, B, CapOf(job))
  PROVE  Cardinality(D) <= price
<1>1. D \subseteq Keys /\ Cardinality(D) <= Terms * 2 ^ B.n
  BY DEF Fits
<1>2. Cardinality(D) \in Nat
  BY <1>1, KeysFinite
<1>3. Terms \in Nat
  BY TermsIs
<1>4. Cardinality(D) <= 2 ^ (2 * Cardinality(B.cone))
  BY <1>3, FitsWidth
<1>5. QED
  BY <1>1, <1>2, <1>4 DEF Roomy, Priced

LEMMA LiveFits ==
  ASSUME NEW B \in Accounts, JobInv, SumInv, Live(B)
  PROVE  /\ Fits(DOMAIN sum, Terms, B)
         /\ OutPart => Fits(DOMAIN out, Terms, B)
<1>1. PICK f : /\ Passes(f, program) /\ Fits(DOMAIN sum, Terms, f[0])
               /\ Certified(job.ops, at, f[Len(program)], B)
  BY DEF Live
<1>2. program \in Seq(Pieces) /\ at \in Nat /\ (\A k \in 1..at : Placed(job.ops[k])) /\ Terms \in Nat
  <2>1. Len(job.ops) \in Nat /\ at \in 0..Len(job.ops) /\ \A k \in 1..Len(job.ops) : Placed(job.ops[k])
    BY DEF SumInv, JobInv, Physical, PlacedOps, IsCircuit
  <2>2. at \in Nat /\ \A k \in 1..at : k \in 1..Len(job.ops)
    BY <2>1
  <2>3. QED
    BY <2>1, <2>2, TermsIs DEF SumInv
<1>3. f[0] \in Accounts /\ f[Len(program)] \in Accounts /\ Below(f[0], f[Len(program)])
  BY <1>1, <1>2, PassesGrow
<1>4. Below(f[Len(program)], B)
  BY <1>1, <1>2, <1>3, CertifiedEnd
<1>5. Below(f[0], B)
  BY <1>3, <1>4, BelowChain
<1>6. Fits(DOMAIN sum, Terms, B)
  BY <1>1, <1>2, <1>3, <1>5, FitsBelow
<1>7. CASE DOMAIN out = {}
  <2>1. {} \in SUBSET DOMAIN sum
    OBVIOUS
  <2>2. QED
    BY <1>2, <1>6, <1>7, <2>1, FitsPart
<1>8. ASSUME program # <<>>, Head(program).do = "branch", DOMAIN out \subseteq Closure(DOMAIN sum, Head(program))
      PROVE  Fits(DOMAIN out, Terms, B)
  <2> DEFINE r == Head(program)
             t == Tail(program)
             a == f[0]
  <2>1. r = program[1] /\ r \in Pieces /\ 1 \in 1..Len(program) /\ t \in Seq(Pieces)
    BY <1>2, <1>8
  <2>2. r.gx \in Basis /\ r.gz \in Basis
    BY <1>8, <2>1 DEF Pieces
  <2> HIDE DEF r
  <2>3. Fits(DOMAIN out, Terms, Turned(a, r.gx, r.gz))
    BY <1>1, <1>2, <1>3, <1>8, <2>2, FitsTurned DEF r
  <2>4. PieceEffect(a, r) = Turned(a, r.gx, r.gz)
    BY <1>8 DEF PieceEffect, r
  <2>5. Below(PieceEffect(f[1 - 1], program[1]), f[1]) /\ f[1] \in Accounts
    <3>1. 1 \in 0..Len(program)
      BY <2>1
    <3>2. QED
      BY <1>1, <2>1, <3>1 DEF Passes
  <2>6. Below(Turned(a, r.gx, r.gz), f[1])
    BY <2>1, <2>4, <2>5
  <2>7. PICK g : Passes(g, t) /\ g[0] = f[1] /\ g[Len(t)] = f[Len(program)]
    BY <1>1, <1>2, <1>8, PassesTail
  <2>8. Below(f[1], f[Len(program)])
    BY <2>1, <2>7, PassesGrow
  <2>9. Below(f[1], B)
    BY <1>3, <1>4, <2>5, <2>8, BelowChain
  <2>10. Turned(a, r.gx, r.gz) \in Accounts
    BY <1>3, <2>2, TurnedGrows
  <2>11. Fits(DOMAIN out, Terms, f[1])
    BY <1>2, <2>3, <2>5, <2>6, <2>10, FitsBelow
  <2>12. QED
    BY <1>2, <2>5, <2>9, <2>11, FitsBelow
<1>9. QED
  BY <1>6, <1>7, <1>8 DEF OutPart

LEMMA PriceHolds ==
  ASSUME HermitianInv, FlightInv, PriceInv
  PROVE  PriceIsABound
<1> SUFFICES ASSUME measured = {}, Calm
             PROVE  PriceCovers
  BY DEF PriceIsABound, Calm
<1>1. PICK B \in Accounts : Guaranteed(B)
  BY DEF PriceInv
<1>2. JobInv /\ SumInv /\ PricedJob(job) /\ DOMAIN out \subseteq Keys /\ DOMAIN sum \subseteq Keys
  BY HermitianParts DEF HermitianInv, SumInv, PriceInv
<1>3. CASE pass = "handed" /\ phase # "forward"
  <2>1. Live(B) /\ OutPart /\ Roomy(DOMAIN sum) /\ Priced(price, Terms, B, CapOf(job))
    BY <1>1, <1>3 DEF Guaranteed, Located, EngineInv
  <2>2. Fits(DOMAIN sum, Terms, B) /\ Fits(DOMAIN out, Terms, B)
    BY <1>2, <2>1, LiveFits
  <2>3. Roomy(DOMAIN out)
    BY <1>2, RoomyOut
  <2>4. QED
    BY <1>2, <2>1, <2>2, <2>3, FitsPriced DEF PriceCovers
<1>4. CASE pass # "handed" \/ phase = "forward"
  <2>1. sum = EmptySum /\ out = EmptySum
    BY <1>1, <1>4 DEF PriceInv, Blank, Guaranteed, Located, EngineInv
  <2>2. DOMAIN sum = {} /\ DOMAIN out = {}
    BY <2>1 DEF EmptySum
  <2>3. Priced(price, Terms, B, CapOf(job))
    BY <1>1 DEF Guaranteed
  <2>4. Roomy({}) /\ Fits({}, Terms, B)
    <3>1. Cardinality({}) = 0
      BY FS_EmptySet
    <3>2. CapOf(job) \in Nat /\ Terms \in Nat /\ B.n \in Nat
      BY <1>2, CapIs, TermsIs, AccountParts
    <3>3. Terms * 2 ^ B.n \in Nat
      <4>1. B.n <= B.n
        BY <3>2
      <4>2. QED
        BY <3>2, <4>1, TimesPower
    <3>4. QED
      BY <3>1, <3>2, <3>3 DEF Roomy, Fits
  <2>5. Cardinality({}) <= price
    BY <1>2, <2>3, <2>4, FitsPriced
  <2>6. QED
    BY <2>2, <2>5 DEF PriceCovers
<1>5. QED
  BY <1>3, <1>4

LEMMA CertifiedEmpty ==
  ASSUME NEW c, NEW a \in Accounts, NEW B \in Accounts, Below(a, B)
  PROVE  Certified(c, 0, a, B)
<1> DEFINE h == [k \in 0..0 |-> a]
<1>1. h \in [0..0 -> Accounts] /\ h[0] = a
  OBVIOUS
<1>2. Below(a, a)
  BY BelowSelf
<1> HIDE DEF h
<1>3. \A k \in 1..0 : Below(Pulled(h[k], c[k]), h[k - 1])
  OBVIOUS
<1>4. Covers(h, c, 0, a, B)
  BY <1>1, <1>2, <1>3 DEF Covers
<1>5. QED
  BY <1>4 DEF Certified

\* No rule of the optimizer makes the circuit dearer.
LEMMA OptimizingCertified ==
  ASSUME HermitianInv, MeaningInv, pass = "optimize", Optimizing,
         NEW a \in Accounts, NEW B \in Accounts, Certified(circuit, Len(circuit), a, B)
  PROVE  Certified(circuit', Len(circuit'), a, B)
<1>1. PlacedOps(circuit)
  BY DEF HermitianInv, PlacedInv
<1>2. Pair => /\ i \in 1..(Len(circuit) - 1) /\ Plain(circuit[i])
  BY MeaningPair
<1>3. CASE Retain
  <2>1. circuit' = Retained(circuit)
    BY <1>3 DEF Retain
  <2>2. QED
    BY <1>1, <2>1, CertifiedRetained
<1>4. CASE Cancel
  <2>1. Pair /\ (circuit' = circuit \/ circuit' = Without(circuit, i))
    BY <1>4 DEF Cancel
  <2>2. QED
    BY <1>1, <1>2, <2>1, CertifiedWithout
<1>5. CASE Merge
  <2> DEFINE x == circuit[i]
             y == circuit[i + 1]
             z == [x EXCEPT !.th[1] = @ + y.th[1]]
             d == SubSeq(circuit, 1, i - 1) \o <<z>> \o SubSeq(circuit, i + 2, Len(circuit))
  <2>1. Pair /\ \/ circuit' = circuit \/ circuit' = Without(circuit, i)
                \/ Mergeable(x, y) /\ circuit' = d
    BY <1>5 DEF Merge
  <2>2. ASSUME Mergeable(x, y)
        PROVE  z.op = y.op /\ z.qs = y.qs
    <3>1. x.op = y.op /\ x.qs = y.qs
      BY <2>2 DEF Mergeable
    <3>2. {"op", "qs", "th"} \subseteq DOMAIN x
      <4>1. Len(circuit) \in Nat
        BY <1>1 DEF PlacedOps, IsCircuit
      <4>2. i \in 1..Len(circuit)
        BY <1>2, <2>1, <4>1
      <4>3. QED
        BY <1>1, <4>2 DEF PlacedOps, Placed
    <3> HIDE DEF x, y
    <3>3. z.op = x.op /\ z.qs = x.qs
      BY <3>2
    <3>4. QED
      BY <3>1, <3>3
  <2>3. ASSUME Mergeable(x, y), circuit' = d
        PROVE  Certified(d, Len(d), a, B)
    <3>1. z.op = y.op /\ z.qs = y.qs /\ i \in 1..(Len(circuit) - 1)
      BY <1>2, <2>1, <2>2, <2>3
    <3> HIDE DEF z
    <3>2. QED
      BY <1>1, <3>1, CertifiedJoined
  <2> HIDE DEF d
  <2>4. CASE circuit' = d /\ Mergeable(x, y)
    BY <2>3, <2>4
  <2>5. CASE circuit' = Without(circuit, i)
    BY <1>1, <1>2, <2>1, <2>5, CertifiedWithout
  <2>6. QED
    BY <2>1, <2>4, <2>5
<1>6. CASE Commute
  <2>1. Pair /\ \/ circuit' = circuit
                \/ /\ try_commute(circuit[i], circuit[i + 1])
                   /\ circuit' = [circuit EXCEPT ![i] = circuit[i + 1], ![i + 1] = circuit[i]]
    BY <1>6 DEF Commute
  <2>2. ASSUME try_commute(circuit[i], circuit[i + 1]),
               circuit' = [circuit EXCEPT ![i] = circuit[i + 1], ![i + 1] = circuit[i]]
        PROVE  Certified(circuit', Len(circuit'), a, B)
    <3> DEFINE d == [circuit EXCEPT ![i] = circuit[i + 1], ![i + 1] = circuit[i]]
    <3>1. Certified(d, Len(circuit), a, B)
      BY <1>1, <1>2, <2>1, <2>2, CertifiedSwapped
    <3>2. Len(d) = Len(circuit)
      <4>1. circuit \in Seq(Range(circuit)) /\ Len(circuit) \in Nat
        BY <1>1 DEF PlacedOps, IsCircuit
      <4>2. i \in 1..Len(circuit) /\ i + 1 \in 1..Len(circuit)
        BY <1>2, <2>1, <4>1
      <4>3. circuit[i] \in Range(circuit) /\ circuit[i + 1] \in Range(circuit)
        BY <4>1, <4>2 DEF Range
      <4>4. DOMAIN d = 1..Len(circuit) /\ d \in Seq(Range(circuit))
        BY <4>1, <4>2, <4>3
      <4>5. QED
        BY <4>1, <4>4
    <3>3. QED
      BY <2>2, <3>1, <3>2
  <2>3. QED
    BY <2>1, <2>2
<1>7. CASE NextSweep \/ ScanEnd \/ Test
  BY <1>7 DEF NextSweep, ScanEnd, Test
<1>8. QED
  BY <1>3, <1>4, <1>5, <1>6, <1>7 DEF Optimizing

LEMMA PassKeeps ==
  ASSUME PriceInv, UNCHANGED <<vars, price>>, pass' # "handed",
         pass' \in {"optimize", "prepare"} => deferred' = <<>>, pass # "handed",
         measured' = {} => measured = {},
         \A B \in Accounts : measured' = {} /\ Located(B) => Located(B)'
  PROVE  PriceInv'
<1>1. UNCHANGED <<job, phase, sum, out, price>>
  BY DEF vars
<1>2. Terms' = Terms /\ CapOf(job)' = CapOf(job) /\ (Blank => Blank') /\ (Calm' => Calm) /\ PricedJob(job)'
  BY <1>1 DEF Terms, CapOf, Blank, Calm, Noisy, PriceInv, PricedJob
<1>3. ASSUME measured' = {}, Calm'
      PROVE  \E B \in Accounts : Guaranteed(B)'
  <2>1. PICK B \in Accounts : Guaranteed(B)
    BY <1>2, <1>3 DEF PriceInv
  <2>2. Located(B)'
    BY <1>3, <2>1 DEF Guaranteed
  <2>3. Guaranteed(B)'
    BY <1>1, <1>2, <2>1, <2>2 DEF Guaranteed, Priced
  <2>4. QED
    BY <2>3
<1>4. Blank'
  BY <1>2 DEF PriceInv
<1>5. QED
  BY <1>2, <1>3, <1>4 DEF PriceInv

LEMMA PriceOptimizing ==
  ASSUME HermitianInv, MeaningInv, PriceInv, Optimizing, UNCHANGED <<vars, price>>
  PROVE  PriceInv'
<1>1. pass = "optimize" /\ pass' \in {"optimize", "prepare"} /\ UNCHANGED <<deferred, measured>>
  BY DEF Optimizing, Retain, Cancel, Merge, Commute, NextSweep, ScanEnd, Test, At, NextStage, Scan, Walking
<1>2. deferred' = <<>>
  BY <1>1 DEF PriceInv
<1>3. Origin' = Origin /\ Origin \in Accounts
  <2>1. job' = job
    BY DEF vars
  <2>2. QED
    BY <2>1, TermsIs DEF Origin, HermitianInv
<1>4. ASSUME NEW B \in Accounts, Located(B)
      PROVE  Located(B)'
  <2>1. Certified(circuit, Len(circuit), Origin, B)
    BY <1>1, <1>4 DEF Located
  <2>2. Certified(circuit', Len(circuit'), Origin, B)
    BY <1>1, <1>3, <2>1, OptimizingCertified
  <2>3. QED
    BY <1>1, <1>3, <2>2 DEF Located, Certified, Covers
<1>5. QED
  BY <1>1, <1>2, <1>4, PassKeeps

LEMMA PricePrepare ==
  ASSUME HermitianInv, PriceInv, Prepare, UNCHANGED <<vars, price>>
  PROVE  PriceInv'
<1>1. /\ pass = "prepare" /\ pass' \in {"ready", "refused", "walk"} /\ i' = 1
      /\ UNCHANGED <<circuit, deferred, measured>> /\ deferred = <<>>
  BY DEF Prepare, Walking, PriceInv
<1>2. Origin' = Origin /\ Origin \in Accounts
  <2>1. job' = job
    BY DEF vars
  <2>2. QED
    BY <2>1, TermsIs DEF Origin, HermitianInv
<1>3. ASSUME NEW B \in Accounts, Located(B)
      PROVE  Located(B)'
  <2>1. Certified(circuit, Len(circuit), Origin, B)
    BY <1>1, <1>3 DEF Located
  <2>2. PICK h : Covers(h, circuit, Len(circuit), Origin, B)
    BY <2>1 DEF Certified
  <2>3. Len(circuit) \in Nat
    BY DEF HermitianInv, PlacedInv, PlacedOps, IsCircuit
  <2>4. h[0] \in Accounts /\ Below(h[0], B)
    BY <2>2, <2>3 DEF Covers
  <2>5. Certified(deferred', Len(deferred'), h[i' - 1], B)
    <3>1. Len(deferred') = 0 /\ i' - 1 = 0
      BY <1>1
    <3>2. QED
      BY <2>4, <3>1, CertifiedEmpty
  <2>6. i' \in 1..(Len(circuit') + 1)
    BY <1>1, <2>3
  <2>7. Covers(h, circuit', Len(circuit'), Origin', B)
    BY <1>1, <1>2, <2>2
  <2>8. Walked(B)'
    BY <2>5, <2>6, <2>7 DEF Walked
  <2>9. pass' = "ready" => Certified(circuit', Len(circuit'), Origin', B)
    BY <1>1, <1>2, <2>1
  <2>10. QED
    BY <1>1, <2>8, <2>9 DEF Located
<1>4. QED
  BY <1>1, <1>3, PassKeeps

\* A gate of the walk is appended or, when it is a measurement, left out; where
\* it becomes the control of a deferred one, the price does not bind any more.
LEMMA PriceWalk ==
  ASSUME HermitianInv, PriceInv, WalkOp, UNCHANGED <<vars, price>>
  PROVE  PriceInv'
<1> DEFINE g == circuit[i]
           L == Len(circuit)
<1>1. /\ pass = "walk" /\ i <= L /\ circuit' = circuit /\ pass' \in {"walk", "refused"}
      /\ measured \subseteq measured'
  BY DEF WalkOp, Refusal
<1>2. /\ \/ pass' = "refused"
         \/ measured' # {}
         \/ IsMeasure(g) /\ deferred' = deferred /\ i' = i + 1
         \/ deferred' = Append(deferred, g) /\ i' = i + 1
  BY DEF WalkOp, Refusal
<1>3. Origin' = Origin /\ Origin \in Accounts
  <2>1. job' = job
    BY DEF vars
  <2>2. QED
    BY <2>1, TermsIs DEF Origin, HermitianInv
<1>4. L \in Nat /\ (\A k \in 1..L : Placed(circuit[k])) /\ PlacedOps(deferred)
  BY DEF HermitianInv, PlacedInv, PlacedOps, IsCircuit
<1>5. ASSUME NEW B \in Accounts, measured' = {}, Located(B)
      PROVE  Located(B)'
  <2>1. i \in 1..(L + 1) /\ \E h : /\ Covers(h, circuit, L, Origin, B)
                                   /\ Certified(deferred, Len(deferred), h[i - 1], B)
    BY <1>1, <1>5 DEF Located, Walked
  <2>2. PICK h : /\ Covers(h, circuit, L, Origin, B)
                 /\ Certified(deferred, Len(deferred), h[i - 1], B)
    BY <2>1
  <2>3. i \in 1..L /\ i + 1 \in 1..(L + 1) /\ (i + 1) - 1 = i
    BY <1>1, <1>4, <2>1
  <2>4. h[i] \in Accounts /\ h[i - 1] \in Accounts /\ Placed(g) /\ Below(Pulled(h[i], g), h[i - 1])
    <3>1. i - 1 \in 0..L /\ i \in 0..L
      BY <1>4, <2>3
    <3>2. QED
      BY <1>4, <2>2, <2>3, <3>1 DEF Covers
  <2>5. Len(deferred) \in Nat
    BY <1>4 DEF PlacedOps, IsCircuit
  <2>6. Pulled(h[i], g) \in Accounts
    BY <2>4, PulledGrows
  <2>7. Certified(deferred, Len(deferred), Pulled(h[i], g), B)
    BY <2>2, <2>4, <2>5, <2>6, CertifiedLess
  <2>8. CASE IsMeasure(g) /\ deferred' = deferred /\ i' = i + 1
    <3>1. Pulled(h[i], g) = h[i]
      BY <2>8 DEF IsMeasure, Pulled, Quiet
    <3>2. Certified(deferred', Len(deferred'), h[i' - 1], B)
      BY <2>3, <2>7, <2>8, <3>1
    <3>3. Walked(B)'
      BY <1>1, <1>3, <2>2, <2>3, <2>8, <3>2 DEF Walked
    <3>4. QED
      BY <1>1, <3>3 DEF Located
  <2>9. CASE deferred' = Append(deferred, g) /\ i' = i + 1
    <3> DEFINE e == Append(deferred, g)
               n == Len(deferred)
    <3>1. /\ Len(e) = n + 1 /\ e[n + 1] = g /\ \A k \in 1..n : e[k] = deferred[k]
      BY <1>4 DEF PlacedOps, IsCircuit
    <3> HIDE DEF e, n, g
    <3>2. Certified(e, n, Pulled(h[i], g), B)
      BY <2>5, <2>6, <2>7, <3>1, CertifiedSame DEF n
    <3>3. Certified(e, n + 1, h[i], B)
      BY <2>4, <2>5, <3>1, <3>2, CertifiedAppend DEF n
    <3>4. Certified(deferred', Len(deferred'), h[i' - 1], B)
      BY <2>3, <2>9, <3>1, <3>3 DEF e
    <3>5. Walked(B)'
      BY <1>1, <1>3, <2>2, <2>3, <2>9, <3>4 DEF Walked
    <3>6. QED
      BY <1>1, <3>5 DEF Located
  <2>10. CASE pass' = "refused"
    BY <2>10 DEF Located
  <2>11. QED
    BY <1>2, <1>5, <2>8, <2>9, <2>10
<1>6. QED
  BY <1>1, <1>5, PassKeeps

LEMMA PriceWalkEnd ==
  ASSUME HermitianInv, PriceInv, WalkEnd, UNCHANGED <<vars, price>>
  PROVE  PriceInv'
<1> DEFINE L == Len(circuit)
<1>1. /\ pass = "walk" /\ i > L /\ circuit' = deferred /\ pass' = "ready" /\ measured' = measured
  BY DEF WalkEnd, Walking
<1>2. Origin' = Origin /\ Origin \in Accounts
  <2>1. job' = job
    BY DEF vars
  <2>2. QED
    BY <2>1, TermsIs DEF Origin, HermitianInv
<1>3. L \in Nat /\ Len(deferred) \in Nat
  BY DEF HermitianInv, PlacedInv, PlacedOps, IsCircuit
<1>4. ASSUME NEW B \in Accounts, Located(B)
      PROVE  Located(B)'
  <2>1. i \in 1..(L + 1) /\ \E h : /\ Covers(h, circuit, L, Origin, B)
                                   /\ Certified(deferred, Len(deferred), h[i - 1], B)
    BY <1>1, <1>4 DEF Located, Walked
  <2>2. PICK h : /\ Covers(h, circuit, L, Origin, B)
                 /\ Certified(deferred, Len(deferred), h[i - 1], B)
    BY <2>1
  <2>3. i - 1 = L /\ L \in 0..L
    BY <1>1, <1>3, <2>1
  <2>4. h[L] \in Accounts /\ Below(Origin, h[L])
    BY <2>2, <2>3 DEF Covers
  <2>5. Certified(deferred, Len(deferred), Origin, B)
    BY <1>2, <1>3, <2>2, <2>3, <2>4, CertifiedLess
  <2>6. Certified(circuit', Len(circuit'), Origin', B)
    BY <1>1, <1>2, <2>5
  <2>7. QED
    BY <1>1, <2>6 DEF Located
<1>5. QED
  BY <1>1, <1>4, PassKeeps

LEMMA PriceHandover ==
  ASSUME HermitianInv, FlightInv, PriceInv, Handover
  PROVE  PriceInv'
<1> DEFINE T == {t \in DOMAIN job.obs : t[1] \cap measured = {}}
<1>1. /\ pass = "ready" /\ pass' = "handed"
      /\ job' = [job EXCEPT !.ops = circuit, !.obs = dephase(@, measured)]
      /\ UNCHANGED <<circuit, measured, phase, sum, out, price>>
  BY DEF Handover
<1>2. /\ job'.ops = circuit /\ job'.obs = dephase(job.obs, measured)
      /\ job'.noise = job.noise /\ job'.max_terms = job.max_terms /\ job'.max_freq = job.max_freq
  BY <1>1 DEF HermitianInv, JobInv
<1>3. DOMAIN job'.obs = T
  BY <1>2 DEF dephase
<1>4. CapOf(job') = CapOf(job) /\ (Calm' => Calm) /\ Blank'
  BY <1>1, <1>2 DEF CapOf, Calm, Noisy, PriceInv, Blank
<1>5. PricedJob(job')
  <2>1. CASE 2 ^ (2 * N) <= CapOf(job) + 2
    BY <1>4, <2>1 DEF PricedJob
  <2>2. CASE job.max_terms # None /\ job.max_freq = None /\ Cardinality(DOMAIN job.obs) <= job.max_terms + 2
    <3>1. DOMAIN job.obs \subseteq Keys
      BY TermsIs DEF HermitianInv
    <3>2. Cardinality(T) <= Cardinality(DOMAIN job.obs) /\ Cardinality(T) \in Nat /\ Cardinality(DOMAIN job.obs) \in Nat
      BY <3>1, KeysFinite, FS_Subset
    <3>3. job.max_terms \in Nat
      BY <2>2 DEF FlightInv
    <3>4. Cardinality(T) <= job.max_terms + 2
      BY <2>2, <3>2, <3>3
    <3> HIDE DEF T
    <3>5. QED
      BY <1>2, <1>3, <2>2, <3>4 DEF PricedJob
  <2>3. QED
    BY <2>1, <2>2 DEF PriceInv, PricedJob
<1>6. ASSUME measured = {}, Calm
      PROVE  \E B \in Accounts : Guaranteed(B)'
  <2>1. PICK B \in Accounts : Guaranteed(B)
    BY <1>6 DEF PriceInv
  <2>2. T = DOMAIN job.obs
    BY <1>6
  <2>3. Terms' = Terms /\ Origin' = Origin
    BY <1>3, <2>2 DEF Terms, Origin
  <2>4. Certified(job'.ops, Len(job'.ops), Origin', B)
    BY <1>1, <1>2, <2>1, <2>3 DEF Guaranteed, Located
  <2>5. EngineInv(B)'
    BY <1>4, <2>4 DEF EngineInv, Blank
  <2>6. Located(B)'
    BY <1>1, <2>5 DEF Located
  <2>7. Guaranteed(B)'
    BY <1>1, <1>4, <2>1, <2>3, <2>6 DEF Guaranteed, Priced
  <2>8. QED
    BY <2>7
<1>7. QED
  BY <1>1, <1>4, <1>5, <1>6 DEF PriceInv

LEMMA PriceInit ==
  ASSUME PhysicalJobs, PricedJobs, ExpectationInit
  PROVE  PriceInv
<1> DEFINE cap == CapOf(job)
           D == DOMAIN job.obs
<1>1. /\ job \in Jobs /\ circuit = job.ops /\ deferred = <<>> /\ pass \in {"optimize", "prepare"}
      /\ sum = EmptySum /\ out = EmptySum /\ phase = "forward"
      /\ price = term_upper_bound(job.ops, D, cap)
  BY DEF ExpectationInit, Init, PassInit, CapOf, Capped
<1>2. Physical(job) /\ PricedJob(job) /\ job.max_terms \in Nat \cup {None}
  BY <1>1, JobsAssumption DEF PhysicalJobs, PricedJobs
<1>3. PlacedOps(job.ops) /\ D \subseteq Keys /\ cap \in Nat
  BY <1>2 DEF Physical, RealObs, CapOf, DefaultTerms
<1> HIDE DEF cap, D
<1>4. PICK B \in Accounts : /\ Certified(job.ops, Len(job.ops), Account(ObsCone(D), ObsCone(D), 0), B)
                            /\ Priced(term_upper_bound(job.ops, D, cap), SeedSize(D), B, cap)
  BY <1>3, PriceCourse
<1>5. Certified(circuit, Len(circuit), Origin, B) /\ Priced(price, Terms, B, CapOf(job))
  BY <1>1, <1>4 DEF Origin, Terms, D, cap
<1>6. Guaranteed(B)
  BY <1>1, <1>5 DEF Guaranteed, Located
<1>7. Blank
  BY <1>1 DEF Blank
<1>8. QED
  BY <1>1, <1>2, <1>6, <1>7 DEF PriceInv

\* The end of a piece, whose result is accounted for.
LEMMA AdvanceLive ==
  ASSUME JobInv, SumInv, CapOf(job) \in Nat, program # <<>>, NEW B \in Accounts, Live(B),
         NEW result \in Hermitian, NEW dropped, Advance(result, dropped), Roomy(DOMAIN result),
         \A a \in Accounts : Fits(DOMAIN sum, Terms, a) => Fits(DOMAIN result, Terms, PieceEffect(a, Head(program)))
  PROVE  Live(B)' /\ Roomy(DOMAIN sum)'
<1> DEFINE r == Head(program)
           t == Tail(program)
<1>1. program' = t /\ UNCHANGED <<job, at>>
  BY DEF Advance
<1>2. DOMAIN sum' \subseteq DOMAIN result
  BY DEF Advance, GateEnd
<1>3. PICK f : /\ Passes(f, program) /\ Fits(DOMAIN sum, Terms, f[0])
               /\ Certified(job.ops, at, f[Len(program)], B)
  BY DEF Live
<1>4. program \in Seq(Pieces) /\ Terms \in Nat /\ DOMAIN result \subseteq Keys
  BY TermsIs, HermitianParts DEF SumInv
<1>5. r = program[1] /\ r \in Pieces /\ 1 \in 1..Len(program) /\ 0 \in 0..Len(program) /\ 1 \in 0..Len(program)
  BY <1>4
<1>6. f[0] \in Accounts /\ f[1] \in Accounts /\ Below(PieceEffect(f[1 - 1], program[1]), f[1])
  BY <1>3, <1>5 DEF Passes
<1>7. Below(PieceEffect(f[0], r), f[1]) /\ PieceEffect(f[0], r) \in Accounts
  BY <1>5, <1>6, PieceGrows
<1>8. Fits(DOMAIN result, Terms, PieceEffect(f[0], r))
  BY <1>3, <1>6
<1>9. Fits(DOMAIN result, Terms, f[1])
  BY <1>4, <1>6, <1>7, <1>8, FitsBelow
<1>10. Fits(DOMAIN sum', Terms, f[1])
  BY <1>2, <1>4, <1>6, <1>9, FitsPart
<1>11. PICK g : Passes(g, t) /\ g[0] = f[1] /\ g[Len(t)] = f[Len(program)]
  BY <1>3, <1>4, PassesTail
<1>12. Terms' = Terms /\ CapOf(job)' = CapOf(job)
  BY <1>1 DEF Terms, CapOf
<1>13. Live(B)'
  <2>1. /\ Passes(g, program') /\ Fits(DOMAIN sum', Terms', g[0])
        /\ Certified(job'.ops, at', g[Len(program')], B)
    BY <1>1, <1>3, <1>10, <1>11, <1>12
  <2>2. QED
    BY <2>1 DEF Live
<1>14. Roomy(DOMAIN sum)'
  <2>1. Cardinality(DOMAIN sum') <= Cardinality(DOMAIN result) /\ DOMAIN sum' \subseteq Keys
    BY <1>2, <1>4, KeysFinite, FS_Subset
  <2>2. Roomy(DOMAIN sum')
    BY <1>4, <2>1, RoomyLess
  <2>3. QED
    BY <1>12, <2>2 DEF Roomy
<1>15. QED
  BY <1>13, <1>14

LEMMA EngineKeeps ==
  ASSUME PriceInv, pass = "handed", pass' = pass, measured' = measured, price' = price, job' = job,
         \A B \in Accounts : Calm /\ EngineInv(B) => EngineInv(B)'
  PROVE  PriceInv'
<1>1. Terms' = Terms /\ CapOf(job)' = CapOf(job) /\ (Calm' => Calm) /\ PricedJob(job)'
  BY DEF Terms, CapOf, Calm, Noisy, PriceInv, PricedJob
<1>2. ASSUME measured' = {}, Calm'
      PROVE  \E B \in Accounts : Guaranteed(B)'
  <2>1. PICK B \in Accounts : Guaranteed(B)
    BY <1>1, <1>2 DEF PriceInv
  <2>2. EngineInv(B)'
    BY <1>1, <1>2, <2>1 DEF Guaranteed, Located
  <2>3. Guaranteed(B)'
    BY <1>1, <2>1, <2>2 DEF Guaranteed, Priced, Located
  <2>4. QED
    BY <2>3
<1>3. QED
  BY <1>1, <1>2 DEF PriceInv

LEMMA SeedLive ==
  ASSUME JobInv, SumInv, FlightInv, PricedJob(job), Seed, NEW B \in Accounts, EngineInv(B), CapOf(job) \in Nat
  PROVE  EngineInv(B)'
<1> DEFINE o == job.obs
           raw == [k \in DOMAIN o |-> [c |-> Times(o[k], Factor(k[1], k[2])), freq |-> 0]]
<1>1. /\ phase = "forward" /\ phase' # "forward" /\ at = Len(job.ops) /\ UNCHANGED <<job, at, program, undrained, out>>
      /\ sum' = sum \/ sum' = IF Noisy THEN ReadoutAdjoint(job.noise, raw) ELSE raw
  BY DEF Seed, Refuse
<1>2. program = <<>> /\ undrained = {} /\ sum = EmptySum /\ out = EmptySum /\ Certified(job.ops, Len(job.ops), Origin, B)
  BY <1>1 DEF SumInv, EngineInv, Blank
<1>3. raw \in Hermitian /\ DOMAIN raw = DOMAIN o
  <2>1. RealObs(o)
    BY DEF JobInv, Physical
  <2> HIDE DEF o
  <2>2. QED
    BY <2>1, RawHermitian
<1> HIDE DEF raw
<1>4. Noisy => DOMAIN ReadoutAdjoint(job.noise, raw) = DOMAIN o
  <2>1. Noisy => RealNoise(job.noise)
    BY DEF Noisy, JobInv, Physical
  <2>2. QED
    BY <1>3, <2>1, ReadoutDomain
<1>5. DOMAIN sum' \subseteq DOMAIN o
  <2>1. DOMAIN EmptySum = {}
    BY DEF EmptySum
  <2>2. QED
    BY <1>1, <1>2, <1>3, <1>4, <2>1
<1>6. o = job.obs
  OBVIOUS
<1> HIDE DEF o
<1>7. Origin \in Accounts /\ Terms \in Nat /\ Fits(DOMAIN o, Terms, Origin) /\ DOMAIN o \subseteq Keys
  BY <1>6, TermsIs
<1>8. Fits(DOMAIN sum', Terms, Origin)
  BY <1>5, <1>7, FitsPart
<1>9. Roomy(DOMAIN sum')
  <2>1. Roomy(DOMAIN o)
    BY <1>6, RoomySeed
  <2>2. Cardinality(DOMAIN sum') <= Cardinality(DOMAIN o) /\ DOMAIN sum' \subseteq Keys
    BY <1>5, <1>7, KeysFinite, FS_Subset
  <2>3. QED
    BY <1>7, <2>1, <2>2, RoomyLess
<1> DEFINE f == [k \in 0..0 |-> Origin]
<1>10. Passes(f, <<>>) /\ f[0] = Origin /\ Len(<<>>) = 0
  <2>1. f \in [0..0 -> Accounts] /\ Len(<<>>) = 0 /\ f[0] = Origin
    BY <1>7
  <2> HIDE DEF f
  <2>2. \A k \in 1..Len(<<>>) : Below(PieceEffect(f[k - 1], <<>>[k]), f[k])
    BY <2>1
  <2>3. QED
    BY <2>1, <2>2 DEF Passes
<1> HIDE DEF f
<1>11. Terms' = Terms /\ CapOf(job)' = CapOf(job)
  BY <1>1 DEF Terms, CapOf
<1>12. Live(B)'
  <2>1. /\ Passes(f, program') /\ Fits(DOMAIN sum', Terms', f[0])
        /\ Certified(job'.ops, at', f[Len(program')], B)
    BY <1>1, <1>2, <1>8, <1>10, <1>11
  <2>2. QED
    BY <2>1 DEF Live
<1>13. OutPart'
  <2>1. DOMAIN out' = {}
    BY <1>1, <1>2 DEF EmptySum
  <2>2. undrained' = {}
    BY <1>1, <1>2
  <2>3. QED
    BY <2>1, <2>2 DEF OutPart
<1>14. Roomy(DOMAIN sum)'
  BY <1>9, <1>11 DEF Roomy
<1>15. QED
  BY <1>1, <1>12, <1>13, <1>14 DEF EngineInv

LEMMA StartLive ==
  ASSUME JobInv, SumInv, CapOf(job) \in Nat, Calm, Start, NEW B \in Accounts, EngineInv(B)
  PROVE  EngineInv(B)'
<1> DEFINE g == job.ops[at]
           noised == IF Noisy THEN GateNoiseAdjoint(job.noise, g, sum) ELSE sum
<1>1. /\ phase = "back" /\ program = <<>> /\ at > 0 /\ at \in 0..Len(job.ops) /\ undrained = {}
      /\ UNCHANGED <<job, out, undrained, support>> /\ phase' # "forward"
  BY DEF Start, Idle, SumInv, Refuse
<1>2. Live(B) /\ OutPart /\ Roomy(DOMAIN sum)
  BY <1>1 DEF EngineInv
<1>3. DOMAIN out = {}
  BY <1>1, <1>2 DEF OutPart
<1>4. Len(job.ops) \in Nat /\ \A n \in 1..Len(job.ops) : Placed(job.ops[n])
  BY DEF JobInv, Physical, PlacedOps, IsCircuit
<1>5. Placed(g) /\ at \in Nat \ {0} /\ \A k \in 1..at : Placed(job.ops[k])
  <2>1. at \in 1..Len(job.ops) /\ at \in Nat \ {0} /\ \A k \in 1..at : k \in 1..Len(job.ops)
    BY <1>1, <1>4
  <2>2. QED
    BY <1>4, <2>1
<1>6. Terms' = Terms /\ CapOf(job)' = CapOf(job) /\ Terms \in Nat
  BY <1>1, TermsIs DEF Terms, CapOf
<1>7. OutPart'
  <2>1. DOMAIN out' = {} /\ undrained' = {}
    BY <1>1, <1>3
  <2>2. QED
    BY <2>1 DEF OutPart
<1>8. PICK f : /\ Passes(f, program) /\ Fits(DOMAIN sum, Terms, f[0])
               /\ Certified(job.ops, at, f[Len(program)], B)
  BY <1>2 DEF Live
<1> DEFINE a == f[0]
<1>9. Len(program) = 0 /\ a \in Accounts /\ Certified(job.ops, at, a, B)
  <2>1. Len(program) = 0
    BY <1>1
  <2>2. f \in [0..0 -> Accounts]
    BY <1>8, <2>1 DEF Passes
  <2>3. QED
    BY <1>8, <2>1, <2>2
<1>10. noised \in Hermitian /\ DOMAIN noised = DOMAIN sum
  <2>1. sum \in Hermitian /\ g.qs \in Seq(Qubits)
    BY <1>5 DEF SumInv, Placed
  <2>2. Noisy => RealNoise(job.noise) /\ job.noise.gamma = Zero
    BY DEF Noisy, JobInv, Physical, Calm
  <2> HIDE DEF g
  <2>3. QED
    BY <2>1, <2>2, NoiseHermitian, NoiseDomain
<1> HIDE DEF noised, a
<1>11. ASSUME NEW p, program' = p, NEW h, Passes(h, p), Below(a, h[0]), h[0] \in Accounts, DOMAIN sum' = DOMAIN sum,
              Certified(job.ops, at', h[Len(p)], B)
       PROVE  EngineInv(B)'
  <2>1. Fits(DOMAIN sum', Terms', h[0])
    BY <1>6, <1>8, <1>9, <1>11, FitsBelow DEF a
  <2>2. job'.ops = job.ops
    BY <1>1
  <2>3. Live(B)'
    BY <1>11, <2>1, <2>2 DEF Live
  <2>4. Roomy(DOMAIN sum)'
    BY <1>2, <1>6, <1>11 DEF Roomy
  <2>5. QED
    BY <1>1, <1>7, <2>3, <2>4 DEF EngineInv
<1>12. CASE Folds(at)
  <2> DEFINE W == Range(g.qs)
             th == job.ops[at - 1].th[1]
             r == [do |-> "branch", gx |-> {}, gz |-> W, th |-> th]
  <2>1. program' = <<r>> /\ at' = at - 3 /\ sum' = sum
    BY <1>12 DEF Start, Branch
  <2>2. ZzTriple(job.ops, at) /\ at >= 3 /\ job.ops[at - 1].op = "Rz"
    BY <1>12 DEF Folds, ZzTriple
  <2>3. /\ Certified(job.ops, at - 3, Turned(a, {}, W), B)
        /\ Turned(a, {}, W) \in Accounts /\ W \in Basis
    BY <1>5, <1>9, <2>2, CertifiedFolded
  <2>4. th \in Int
    <3>1. at - 1 \in 1..at
      BY <1>5, <2>2
    <3>2. QED
      BY <1>5, <2>2, <3>1 DEF Placed, Angles
  <2> HIDE DEF W, th
  <2>5. r \in Pieces /\ {} \in Basis
    BY <2>3, <2>4 DEF Pieces, Basis
  <2>6. PieceEffect(a, r) = Turned(a, {}, W)
    BY DEF PieceEffect
  <2> HIDE DEF r
  <2>7. PICK h : Passes(h, <<r>>) /\ Below(a, h[0]) /\ Below(h[Len(<<r>>)], PieceEffect(a, r))
    BY <1>9, <2>5, OnePasses
  <2>8. <<r>> \in Seq(Pieces)
    BY <2>5
  <2>9. h[0] \in Accounts /\ h[Len(<<r>>)] \in Accounts
    BY <2>7, <2>8, PassesGrow
  <2>10. at - 3 \in Nat
    BY <1>5, <2>2
  <2>11. Certified(job.ops, at', h[Len(<<r>>)], B)
    BY <2>1, <2>3, <2>6, <2>7, <2>9, <2>10, CertifiedLess
  <2>12. DOMAIN sum' = DOMAIN sum
    BY <2>1
  <2>13. QED
    BY <1>11, <2>1, <2>7, <2>9, <2>11, <2>12
<1>13. CASE ~Folds(at) /\ (Conditioned(g) \/ ~Dispatched(g))
  <2>1. UNCHANGED <<program, at, sum>>
    BY <1>13 DEF Start, Refuse
  <2>2. Below(a, a)
    BY <1>9, BelowSelf
  <2>3. DOMAIN sum' = DOMAIN sum /\ program' = program
    BY <2>1
  <2>4. QED
    BY <1>8, <1>9, <1>11, <2>1, <2>2, <2>3 DEF a
<1>14. CASE ~Folds(at) /\ ~(Conditioned(g) \/ ~Dispatched(g))
  <2> DEFINE p == Pieced(g)
  <2>1. program' = p /\ at' = at - 1 /\ sum' = noised
    BY <1>14 DEF Start, noised, Pieced
  <2> HIDE DEF g
  <2>2. Accounted(g, p, a) /\ p \in Seq(Pieces)
    BY <1>5, <1>9, <1>14, GateAccounted
  <2>3. PICK h : Passes(h, p) /\ Below(a, h[0]) /\ Below(h[Len(p)], Pulled(a, g))
    BY <2>2 DEF Accounted
  <2> HIDE DEF p
  <2>4. h[0] \in Accounts /\ h[Len(p)] \in Accounts
    BY <2>2, <2>3, PassesGrow
  <2>5. Certified(job.ops, at - 1, Pulled(a, g), B) /\ Pulled(a, g) \in Accounts
    BY <1>5, <1>9, CertifiedPull DEF g
  <2>6. at - 1 \in Nat
    BY <1>5
  <2>7. Certified(job.ops, at', h[Len(p)], B)
    BY <2>1, <2>3, <2>4, <2>5, <2>6, CertifiedLess
  <2>8. DOMAIN sum' = DOMAIN sum
    BY <1>10, <2>1
  <2>9. QED
    BY <1>11, <2>1, <2>3, <2>4, <2>7, <2>8
<1>15. QED
  BY <1>12, <1>13, <1>14

\* An account of the sum gives one of what the piece makes of it.
LEMMA AdvanceEngine ==
  ASSUME JobInv, SumInv, CapOf(job) \in Nat, phase = "back", program # <<>>, NEW B \in Accounts, EngineInv(B),
         NEW result \in Hermitian, NEW dropped, Advance(result, dropped), Roomy(DOMAIN result),
         \A a \in Accounts : Fits(DOMAIN sum, Terms, a) => Fits(DOMAIN result, Terms, PieceEffect(a, Head(program))),
         DOMAIN out' = {}, undrained' = {}
  PROVE  EngineInv(B)'
<1>1. Live(B)
  BY DEF EngineInv
<1>2. Live(B)' /\ Roomy(DOMAIN sum)'
  BY <1>1, AdvanceLive
<1>3. OutPart'
  BY DEF OutPart
<1>4. phase' # "forward"
  BY DEF Advance
<1>5. QED
  BY <1>2, <1>3, <1>4 DEF EngineInv

LEMMA MapLive ==
  ASSUME JobInv, SumInv, CapOf(job) \in Nat, MapStep, NEW B \in Accounts, EngineInv(B)
  PROVE  EngineInv(B)'
<1> DEFINE r == Head(program)
           g == r.g
           mapped == MapSum(sum, g)
<1>1. /\ phase = "back" /\ program # <<>> /\ r.do = "map" /\ Advance(mapped, dropped_mass)
      /\ UNCHANGED <<undrained, out>>
  BY DEF MapStep, Step
<1>2. r \in Pieces /\ g \in CliffordGates /\ Clifford(g)
  <2>1. r \in Pieces /\ Clifford(g)
    BY <1>1, PieceAt
  <2>2. QED
    BY <1>1, <2>1 DEF Pieces
<1>3. DOMAIN out' = {} /\ undrained' = {}
  BY <1>1 DEF EngineInv, OutPart, SumInv
<1>4. \A a : PieceEffect(a, r) = Pulled(a, g)
  BY <1>1 DEF PieceEffect
<1>5. sum \in Hermitian /\ DOMAIN sum \subseteq Keys
  BY HermitianParts DEF SumInv
<1> HIDE DEF g
<1> DEFINE T == {<<ConjugateKey(g, key).x, ConjugateKey(g, key).z>> : key \in DOMAIN sum}
<1>6. mapped \in Hermitian /\ DOMAIN mapped \subseteq T
  BY <1>2, <1>5, MapHermitian, MapDomain
<1>7. \A a \in Accounts : Fits(DOMAIN sum, Terms, a) => Fits(DOMAIN mapped, Terms, PieceEffect(a, r))
  <2>1. SUFFICES ASSUME NEW a \in Accounts, Fits(DOMAIN sum, Terms, a)
                 PROVE  Fits(DOMAIN mapped, Terms, PieceEffect(a, r))
    OBVIOUS
  <2> HIDE DEF mapped
  <2>2. Fits(DOMAIN mapped, Terms, Pulled(a, g))
    BY <1>2, <1>6, <2>1, TermsIs, FitsMapped
  <2>3. QED
    BY <1>4, <2>2
<1>8. Roomy(DOMAIN mapped)
  <2> DEFINE f == [key \in DOMAIN sum |-> <<ConjugateKey(g, key).x, ConjugateKey(g, key).z>>]
  <2>1. T = {f[key] : key \in DOMAIN sum} /\ DOMAIN f = DOMAIN sum
    OBVIOUS
  <2>2. IsFiniteSet(DOMAIN sum) /\ Cardinality(DOMAIN sum) \in Nat
    BY <1>5, KeysFinite
  <2> HIDE DEF f, T, mapped
  <2>3. IsFiniteSet(T) /\ Cardinality(T) <= Cardinality(DOMAIN sum)
    BY <2>1, <2>2, ImageSize
  <2>4. Cardinality(DOMAIN mapped) <= Cardinality(T) /\ Cardinality(T) \in Nat /\ Cardinality(DOMAIN mapped) \in Nat
    BY <1>6, <2>3, FS_Subset, FS_CardinalityType
  <2>5. DOMAIN mapped \subseteq Keys
    BY <1>6, HermitianParts
  <2>6. Roomy(DOMAIN sum)
    BY <1>1 DEF EngineInv
  <2>7. Cardinality(DOMAIN mapped) <= Cardinality(DOMAIN sum)
    BY <2>2, <2>3, <2>4
  <2>8. QED
    BY <1>5, <2>5, <2>6, <2>7, RoomyLess
<1> HIDE DEF mapped
<1>9. QED
  BY <1>1, <1>3, <1>6, <1>7, <1>8, AdvanceEngine

LEMMA StillLive ==
  ASSUME JobInv, SumInv, CapOf(job) \in Nat, NothingStep \/ BranchSkip, NEW B \in Accounts, EngineInv(B)
  PROVE  EngineInv(B)'
<1> DEFINE r == Head(program)
<1>1. /\ phase = "back" /\ program # <<>> /\ Advance(sum, dropped_mass) /\ UNCHANGED <<undrained, out>>
      /\ \/ r.do = "nothing"
         \/ undrained = {} /\ ~Overlaps(r)
  BY DEF NothingStep, BranchSkip, Step
<1>2. DOMAIN out' = {} /\ undrained' = {}
  BY <1>1 DEF EngineInv, OutPart, SumInv
<1>3. r \in Pieces /\ sum \in Hermitian /\ Terms \in Nat
  BY <1>1, PieceAt, TermsIs DEF SumInv
<1>4. \A a \in Accounts : Fits(DOMAIN sum, Terms, a) => Fits(DOMAIN sum, Terms, PieceEffect(a, r))
  BY <1>3, PieceGrows, FitsBelow
<1>5. Roomy(DOMAIN sum)
  BY <1>1 DEF EngineInv
<1>6. QED
  BY <1>1, <1>2, <1>3, <1>4, <1>5, AdvanceEngine

\* Nothing that the account speaks of moves.
LEMMA SameLive ==
  ASSUME phase # "forward", phase' # "forward", UNCHANGED <<job, at, program, sum>>, NEW B \in Accounts, EngineInv(B),
         OutPart => OutPart'
  PROVE  EngineInv(B)'
<1>1. Live(B) /\ OutPart /\ Roomy(DOMAIN sum)
  BY DEF EngineInv
<1>2. Terms' = Terms /\ CapOf(job)' = CapOf(job)
  BY DEF Terms, CapOf
<1>3. Live(B)'
  BY <1>1, <1>2 DEF Live
<1>4. Roomy(DOMAIN sum)'
  BY <1>1, <1>2 DEF Roomy
<1>5. QED
  BY <1>1, <1>3, <1>4 DEF EngineInv

LEMMA BranchStartLive ==
  ASSUME BranchStart, NEW B \in Accounts, EngineInv(B)
  PROVE  EngineInv(B)'
<1>1. /\ phase = "back" /\ Overlaps(Head(program)) /\ out = EmptySum
      /\ UNCHANGED <<job, at, phase, program, sum, support, out>>
  BY DEF BranchStart, Step
<1>2. OutPart'
  <2>1. DOMAIN out' = {}
    BY <1>1 DEF EmptySum
  <2>2. Overlaps(Head(program))'
    BY <1>1 DEF Overlaps
  <2>3. QED
    BY <2>1, <2>2 DEF OutPart
<1>3. QED
  BY <1>1, <1>2, SameLive

LEMMA BranchTermLive ==
  ASSUME SumInv, NEW key \in Readable, BranchTerm(key), NEW B \in Accounts, EngineInv(B)
  PROVE  EngineInv(B)'
<1> DEFINE r == Head(program)
           acc == [out |-> out, dropped |-> dropped_mass]
<1>1. /\ phase = "back" /\ program # <<>> /\ r.do = "branch" /\ out' = Expanded(acc, key, r).out
      /\ phase' \in {"refused", phase} /\ undrained' = undrained \ {key}
      /\ UNCHANGED <<job, at, program, sum, support>>
  BY DEF BranchTerm, Step
<1>2. key \in undrained /\ key \in DOMAIN sum
  BY DEF Readable, SumInv
<1>3. OutPart
  BY <1>1 DEF EngineInv
<1>4. DOMAIN out \subseteq Closure(DOMAIN sum, r) /\ Overlaps(r)
  BY <1>2, <1>3 DEF OutPart
<1>5. acc.out = out
  OBVIOUS
<1> HIDE DEF acc, r
<1>6. DOMAIN out' \subseteq Closure(DOMAIN sum, r)
  BY <1>1, <1>2, <1>4, <1>5, ExpandedWithin
<1>7. OutPart'
  <2>1. Overlaps(Head(program))'
    BY <1>1, <1>4 DEF Overlaps, r
  <2>2. program' = program /\ sum' = sum
    BY <1>1
  <2>3. program' # <<>> /\ Head(program').do = "branch" /\ DOMAIN out' \subseteq Closure(DOMAIN sum', Head(program'))
    BY <1>1, <1>6, <2>2 DEF r
  <2>4. QED
    BY <2>1, <2>3 DEF OutPart
<1>8. QED
  BY <1>1, <1>7, SameLive

LEMMA BranchEndLive ==
  ASSUME JobInv, SumInv, FlightInv, PricedJob(job), BranchEnd, NEW B \in Accounts, EngineInv(B)
  PROVE  EngineInv(B)'
<1> DEFINE r == Head(program)
<1>1. phase = "back" /\ program # <<>> /\ r.do = "branch" /\ undrained = {} /\ CapOf(job) \in Nat
  BY CapIs DEF BranchEnd, Step
<1>2. CASE OverCap(out)
  <2>1. phase' = "refused" /\ UNCHANGED <<job, at, program, sum, support, undrained, out>>
    BY <1>2 DEF BranchEnd, Refuse
  <2>2. OutPart => OutPart'
    BY <2>1 DEF OutPart, Overlaps
  <2>3. phase # "forward" /\ phase' # "forward"
    BY <1>1, <2>1
  <2>4. QED
    BY <2>1, <2>2, <2>3, SameLive
<1>3. CASE ~OverCap(out)
  <2>1. Advance(out, dropped_mass) /\ out' = EmptySum /\ undrained' = undrained
    BY <1>3 DEF BranchEnd
  <2>2. OutPart
    BY <1>1 DEF EngineInv
  <2>3. r \in Pieces /\ out \in Hermitian /\ sum \in Hermitian /\ Terms \in Nat
    BY <1>1, PieceAt, TermsIs DEF SumInv
  <2>4. r.gx \in Basis /\ r.gz \in Basis
    BY <1>1, <2>3 DEF Pieces
  <2>5. \A a \in Accounts : PieceEffect(a, r) = Turned(a, r.gx, r.gz)
    BY <1>1 DEF PieceEffect
  <2>6. DOMAIN out \subseteq Closure(DOMAIN sum, r)
    BY <2>2 DEF OutPart
  <2> HIDE DEF r
  <2>7. \A a \in Accounts : Fits(DOMAIN sum, Terms, a) => Fits(DOMAIN out, Terms, PieceEffect(a, r))
    <3>1. SUFFICES ASSUME NEW a \in Accounts, Fits(DOMAIN sum, Terms, a)
                   PROVE  Fits(DOMAIN out, Terms, PieceEffect(a, r))
      OBVIOUS
    <3>2. Fits(DOMAIN out, Terms, Turned(a, r.gx, r.gz))
      BY <2>3, <2>4, <2>6, <3>1, FitsTurned
    <3>3. QED
      BY <2>5, <3>2
  <2>8. Roomy(DOMAIN out)
    BY <2>3, HermitianParts, RoomyOut
  <2>9. DOMAIN out' = {} /\ undrained' = {}
    BY <1>1, <2>1 DEF EmptySum
  <2>10. QED
    BY <1>1, <2>1, <2>3, <2>7, <2>8, <2>9, AdvanceEngine DEF r
<1>4. QED
  BY <1>2, <1>3

LEMMA FinishLive ==
  ASSUME Finish, NEW B \in Accounts, EngineInv(B)
  PROVE  EngineInv(B)'
<1>1. phase # "forward" /\ phase' # "forward" /\ UNCHANGED <<job, at, program, sum, support, undrained, out>>
  BY DEF Finish, Idle
<1>2. OutPart => OutPart'
  BY <1>1 DEF OutPart, Overlaps
<1>3. QED
  BY <1>1, <1>2, SameLive

LEMMA EvolveLive ==
  ASSUME EvolveGate \/ EvolveChannel, NEW B \in Accounts, EngineInv(B)
  PROVE  EngineInv(B)'
<1>1. phase = "forward" /\ UNCHANGED <<job, phase, sum, out>>
  BY DEF EvolveGate, EvolveChannel
<1>2. Terms' = Terms /\ Origin' = Origin
  BY <1>1 DEF Terms, Origin
<1>3. Blank /\ Certified(job.ops, Len(job.ops), Origin, B)
  BY <1>1 DEF EngineInv
<1>4. Blank' /\ Certified(job'.ops, Len(job'.ops), Origin', B)
  BY <1>1, <1>2, <1>3 DEF Blank
<1>5. QED
  BY <1>1, <1>4 DEF EngineInv

LEMMA PriceEngine ==
  ASSUME HermitianInv, FlightInv, PriceInv, pass = "handed", Next, UNCHANGED <<passVars, price>>
  PROVE  PriceInv'
<1>1. pass' = pass /\ measured' = measured /\ price' = price
  BY DEF passVars
<1>2. job' = job
  BY DEF Next, EvolveGate, EvolveChannel, Seed, Start, MapStep, NothingStep, BranchSkip, BranchStart, BranchEnd,
         BranchTerm, Finish, Refuse, Advance
<1>3. JobInv /\ SumInv /\ PricedJob(job) /\ CapOf(job) \in Nat
  BY CapIs DEF HermitianInv, PriceInv
<1>4. ASSUME NEW B \in Accounts, Calm, EngineInv(B)
      PROVE  EngineInv(B)'
  <2>1. CASE EvolveGate \/ EvolveChannel
    BY <1>4, <2>1, EvolveLive
  <2>2. CASE Seed
    BY <1>3, <1>4, <2>2, SeedLive
  <2>3. CASE Start
    BY <1>3, <1>4, <2>3, StartLive
  <2>4. CASE MapStep
    BY <1>3, <1>4, <2>4, MapLive
  <2>5. CASE NothingStep \/ BranchSkip
    BY <1>3, <1>4, <2>5, StillLive
  <2>6. CASE BranchStart
    BY <1>4, <2>6, BranchStartLive
  <2>7. CASE BranchEnd
    BY <1>3, <1>4, <2>7, BranchEndLive
  <2>8. CASE \E key \in Readable : BranchTerm(key)
    BY <1>3, <1>4, <2>8, BranchTermLive
  <2>9. CASE Finish
    BY <1>4, <2>9, FinishLive
  <2>10. QED
    BY <2>1, <2>2, <2>3, <2>4, <2>5, <2>6, <2>7, <2>8, <2>9 DEF Next
<1>5. QED
  BY <1>1, <1>2, <1>4, EngineKeeps

LEMMA PriceStill ==
  ASSUME PriceInv, UNCHANGED allVars
  PROVE  PriceInv'
<1>1. UNCHANGED <<vars, passVars, price>>
  BY DEF allVars
<1>2. Terms' = Terms /\ Origin' = Origin /\ CapOf(job)' = CapOf(job) /\ Calm' = Calm
  BY <1>1 DEF Terms, Origin, CapOf, Calm, Noisy, vars
<1>3. /\ Blank' = Blank /\ PricedJob(job)' = PricedJob(job) /\ OutPart' = OutPart
      /\ Roomy(DOMAIN sum)' = Roomy(DOMAIN sum)
  BY <1>1, <1>2 DEF Blank, PricedJob, OutPart, Overlaps, Roomy, vars
<1>4. \A B \in Accounts : Guaranteed(B)' = Guaranteed(B)
  BY <1>1, <1>2, <1>3 DEF Guaranteed, Priced, Located, Walked, EngineInv, Live, vars, passVars
<1>5. QED
  BY <1>1, <1>2, <1>3, <1>4 DEF PriceInv, vars, passVars

LEMMA PriceStep ==
  ASSUME HermitianInv, FlightInv, MeaningInv, PriceInv, [ExpectationNext]_allVars
  PROVE  PriceInv'
<1>1. CASE Pass
  <2>1. UNCHANGED <<vars, price>>
    BY <1>1 DEF Pass
  <2>2. CASE Optimizing
    BY <2>1, <2>2, PriceOptimizing
  <2>3. CASE Preparing
    <3>1. CASE Prepare
      BY <2>1, <3>1, PricePrepare
    <3>2. CASE WalkOp
      BY <2>1, <3>2, PriceWalk
    <3>3. CASE WalkEnd
      BY <2>1, <3>3, PriceWalkEnd
    <3>4. QED
      BY <2>3, <3>1, <3>2, <3>3 DEF Preparing
  <2>4. QED
    BY <1>1, <2>2, <2>3 DEF Pass
<1>2. CASE Handover
  BY <1>2, PriceHandover
<1>3. CASE pass = "handed" /\ Next /\ UNCHANGED <<passVars, price>>
  BY <1>3, PriceEngine
<1>4. CASE UNCHANGED allVars
  BY <1>4, PriceStill
<1>5. QED
  BY <1>1, <1>2, <1>3, <1>4 DEF ExpectationNext

\* The price that the server computes from the circuit as it was submitted
\* (bound.rs term_upper_bound) bounds the terms of the sum and of the sum under
\* construction at every step, whatever the optimizer rewrote in between, where
\* no measurement was deferred and no damping adds terms.
THEOREM PriceBinds ==
  ASSUME PhysicalJobs, PlainJobs, PricedJobs
  PROVE  ExpectationSpec => []PriceIsABound
<1>1. ExpectationInit => HermitianInv /\ FlightInv /\ MeaningInv /\ PriceInv
  BY HermitianInit, FlightInit, MeaningInit, PriceInit
<1>2. HermitianInv /\ FlightInv /\ MeaningInv /\ PriceInv /\ [ExpectationNext]_allVars
        => HermitianInv' /\ FlightInv' /\ MeaningInv' /\ PriceInv'
  BY HermitianStep, FlightStep, MeaningStep, PriceStep
<1>3. HermitianInv /\ FlightInv /\ PriceInv => PriceIsABound
  BY PriceHolds
<1>4. QED
  BY <1>1, <1>2, <1>3, PTL DEF ExpectationSpec
=============================================================================
