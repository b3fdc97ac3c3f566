-------------------------- MODULE GovernorProofs --------------------------
(***************************************************************************)
(* What holds of the governor for every set of handlers, requests and      *)
(* machines: types, exact accounts of permits and slots, that what runs is *)
(* covered by the budget, the ceiling on dense registers, and that nobody  *)
(* is refused as busy on an idle server.                                   *)
(*                                                                         *)
(* The argument is that what a handler holds is told by the step it has    *)
(* reached (Stages), that it passed the steps before with the request it   *)
(* still has (Passed), and that the pools therefore get back exactly what  *)
(* was taken from them.                                                    *)
(***************************************************************************)
EXTENDS Governor, TLAPS, FiniteSetTheorems, WellFoundedInduction

-----------------------------------------------------------------------------
(* Totals.                                                                 *)

\* What it means to be a unit, without the union.
LEMMA UnitsMember ==
  ASSUME NEW S, NEW f, NEW u
  PROVE  u \in Units(f, S) <=>
           \E h \in S : \E i \in 1 .. f[h] : u = <<h, i>>
  BY DEF Units

\* The units of one owner between two counts are as many as the difference.
LEMMA Strip ==
  ASSUME NEW h, NEW m \in Nat, NEW n \in Nat, m <= n
  PROVE  /\ IsFiniteSet({h} \X (m + 1 .. n))
         /\ Cardinality({h} \X (m + 1 .. n)) = n - m
<1>1. IsFiniteSet({h}) /\ Cardinality({h}) = 1
  BY FS_Singleton
<1>2. IsFiniteSet(m + 1 .. n) /\ Cardinality(m + 1 .. n) = n - m
  <2>1. m + 1 \in Int /\ n \in Int
    OBVIOUS
  <2>2. /\ IsFiniteSet(m + 1 .. n)
        /\ Cardinality(m + 1 .. n) = IF m + 1 > n THEN 0 ELSE n - (m + 1) + 1
    BY <2>1, FS_Interval
  <2>3. QED
    BY <2>2
<1>3. QED
  BY <1>1, <1>2, FS_Product

\* A finite set of owners with natural amounts has a natural total.
LEMMA TotalType ==
  ASSUME NEW S, IsFiniteSet(S), NEW f, \A h \in S : f[h] \in Nat
  PROVE  /\ IsFiniteSet(Units(f, S))
         /\ Total(f, S) \in Nat
<1> DEFINE strip == [h \in S |-> {h} \X (1 .. f[h])]
           Strips == {strip[h] : h \in S}
<1>1. strip \in Surjection(S, Strips)
  BY DEF Surjection
<1>2. IsFiniteSet(Strips)
  BY <1>1, FS_Surjection
<1>3. \A T \in Strips : IsFiniteSet(T)
  <2> SUFFICES ASSUME NEW h \in S PROVE IsFiniteSet({h} \X (1 .. f[h]))
    OBVIOUS
  <2>1. IsFiniteSet({h} \X (0 + 1 .. f[h]))
    <3>1. 0 \in Nat /\ f[h] \in Nat /\ 0 <= f[h]
      OBVIOUS
    <3>2. QED
      BY <3>1, Strip
  <2>2. 0 + 1 = 1
    OBVIOUS
  <2>3. QED
    BY <2>1, <2>2
<1>4. IsFiniteSet(UNION Strips)
  BY <1>2, <1>3, FS_UNION
<1>5. Units(f, S) = UNION Strips
  BY DEF Units
<1>6. QED
  BY <1>4, <1>5, FS_CardinalityType DEF Total

\* Fewer owners holding no more have no larger a total.
LEMMA TotalShrink ==
  ASSUME NEW S, IsFiniteSet(S), NEW T \in SUBSET S, NEW f, NEW g,
         \A x \in S : f[x] \in Nat, \A x \in T : g[x] \in Nat,
         \A x \in T : g[x] <= f[x]
  PROVE  Total(g, T) <= Total(f, S)
<1>1. IsFiniteSet(Units(f, S))
  BY TotalType
<1>2. Units(g, T) \subseteq Units(f, S)
  <2> SUFFICES ASSUME NEW x \in T, NEW i \in 1 .. g[x]
               PROVE  <<x, i>> \in Units(f, S)
    BY UnitsMember
  <2>1. x \in S /\ i \in 1 .. f[x]
    OBVIOUS
  <2>2. QED
    BY <2>1, UnitsMember
<1>3. QED
  BY <1>1, <1>2, FS_Subset DEF Total

\* Nobody holds nothing.
LEMMA TotalEmpty ==
  ASSUME NEW f
  PROVE  Total(f, {}) = 0
<1>1. Units(f, {}) = {}
  BY DEF Units
<1>2. QED
  BY <1>1, FS_EmptySet DEF Total

\* Who counts no more than before counts the same.
LEMMA TotalSame ==
  ASSUME NEW S, NEW f, NEW g, \A x \in S : f[x] = g[x]
  PROVE  Total(f, S) = Total(g, S)
<1>1. ASSUME NEW x \in S, NEW i \in 1 .. f[x]
      PROVE  <<x, i>> \in Units(g, S)
  <2>1. i \in 1 .. g[x]
    OBVIOUS
  <2>2. QED
    BY <2>1, UnitsMember
<1>2. ASSUME NEW x \in S, NEW i \in 1 .. g[x]
      PROVE  <<x, i>> \in Units(f, S)
  <2>1. i \in 1 .. f[x]
    OBVIOUS
  <2>2. QED
    BY <2>1, UnitsMember
<1>3. Units(f, S) \subseteq Units(g, S)
  BY <1>1, UnitsMember
<1>4. Units(g, S) \subseteq Units(f, S)
  BY <1>2, UnitsMember
<1>5. Units(f, S) = Units(g, S)
  BY <1>3, <1>4
<1>6. QED
  BY <1>5 DEF Total

\* A new owner adds what it holds.
LEMMA TotalWith ==
  ASSUME NEW S, IsFiniteSet(S), NEW f, NEW h, h \notin S,
         \A x \in S : f[x] \in Nat, f[h] \in Nat
  PROVE  Total(f, S \cup {h}) = Total(f, S) + f[h]
<1> DEFINE Own == {h} \X (1 .. f[h])
<1>1. IsFiniteSet(Own) /\ Cardinality(Own) = f[h]
  <2>1. 0 \in Nat /\ 0 <= f[h] /\ 0 + 1 = 1 /\ f[h] - 0 = f[h]
    OBVIOUS
  <2>2. /\ IsFiniteSet({h} \X (0 + 1 .. f[h]))
        /\ Cardinality({h} \X (0 + 1 .. f[h])) = f[h] - 0
    BY <2>1, Strip
  <2>3. QED
    BY <2>1, <2>2
<1>2. IsFiniteSet(Units(f, S)) /\ Total(f, S) \in Nat
  BY TotalType
<1>3. Units(f, S \cup {h}) = Units(f, S) \cup Own
  BY UnitsMember
<1>4. Units(f, S) \cap Own = {}
  BY UnitsMember
<1>5. Cardinality(Units(f, S) \cup Own)
        = Cardinality(Units(f, S)) + Cardinality(Own)
            - Cardinality(Units(f, S) \cap Own)
  BY <1>1, <1>2, FS_Union
<1>6. Cardinality(Units(f, S) \cap Own) = 0
  BY <1>4, FS_EmptySet
<1>7. Cardinality(Units(f, S \cup {h})) = Cardinality(Units(f, S) \cup Own)
  BY <1>3
<1>8. Cardinality(Units(f, S)) \in Nat
  BY <1>2 DEF Total
<1>9. Cardinality(Units(f, S \cup {h})) = Cardinality(Units(f, S)) + f[h]
  BY <1>1, <1>5, <1>6, <1>7, <1>8
<1>10. QED
  BY <1>9 DEF Total

-----------------------------------------------------------------------------

\* What a handler holds at each step of its way in, and that it executes
\* only where it has been let in.
Stage(j) ==
  /\ pc[j] \in {"idle", "price", "measure", "memory"} => held[j] = {}
  /\ pc[j] = "slot" => held[j] = {"memory"}
  /\ pc[j] = "gate" => held[j] = {"memory", "slot"}
  /\ pc[j] = "run" => {"memory", "slot"} \subseteq held[j]
  /\ at[j] # 0 => pc[j] = "run"

Stages == \A j \in Job : Stage(j)

TooWide(row) == row.dense /\ row.qubits > MaxQubits

Fits(j) == Pool(j) \in DOMAIN capacity /\ Bytes(Shape(j)) <= capacity[Pool(j)]
Narrow(j) == ~TooWide(Shape(j))

\* What a handler that is past a check knows of its request.
Knows(j) ==
  /\ (pc[j] \in {"measure", "memory"} \/ "memory" \in held[j])
       => Fits(j)
  /\ pc[j] \in {"memory", "slot", "gate", "run"} => Narrow(j)

Passed == \A j \in Job : Knows(j)

GInv == TypeOK /\ PermitsExact /\ Stages /\ Passed
-----------------------------------------------------------------------------
(* The row that stands for a request. *)

\* A set of numbers with a member has a least one.
LEMMA Least ==
  ASSUME NEW S \in SUBSET Nat, S # {}
  PROVE  \E m \in S : \A n \in S : m <= n
<1>1. PICK m \in S : \A n \in S : ~(<<n, m>> \in OpToRel(<, Nat))
  BY NatLessThanWellFounded, WFMin
<1>2. \A n \in S : ~(n < m)
  BY <1>1 DEF OpToRel
<1>3. QED
  BY <1>2

\* Some index of a range has a largest value.
LEMMA Largest ==
  ASSUME NEW len \in Nat, NEW P \in SUBSET (1 .. len), P # {},
         NEW f, \A i \in P : f[i] \in Nat
  PROVE  \E i \in P : \A k \in P : f[k] <= f[i]
<1> DEFINE Upto(n) == \E i \in P : \A k \in P : k <= n => f[k] <= f[i]
           Bad == {n \in Nat : ~Upto(n)}
<1>1. Bad = {}
  <2> SUFFICES ASSUME Bad # {} PROVE FALSE
    OBVIOUS
  <2>1. PICK m \in Bad : \A n \in Bad : m <= n
    BY Least
  <2>2. Upto(0)
    <3>1. \A k \in P : ~(k <= 0)
      OBVIOUS
    <3>2. QED
      BY <3>1
  <2>3. m # 0 /\ m \in Nat /\ ~Upto(m)
    BY <2>2
  <2>4. Upto(m - 1)
    <3>1. m - 1 \in Nat /\ ~(m <= m - 1)
      BY <2>3
    <3>2. QED
      BY <2>1, <3>1
  <2>5. PICK i \in P : \A k \in P : k <= m - 1 => f[k] <= f[i]
    BY <2>4
  <2>6. \A k \in P : k <= m => k <= m - 1 \/ k = m
    BY <2>3
  <2>7. CASE m \in P /\ ~(f[m] <= f[i])
    <3>1. \A k \in P : k <= m => f[k] <= f[m]
      BY <2>5, <2>6, <2>7
    <3>2. QED
      BY <2>3, <2>7, <3>1
  <2>8. CASE m \in P => f[m] <= f[i]
    <3>1. \A k \in P : k <= m => f[k] <= f[i]
      BY <2>5, <2>6, <2>8
    <3>2. QED
      BY <2>3, <3>1
  <2>9. QED
    BY <2>7, <2>8
<1>2. Upto(len)
  BY <1>1
<1>3. QED
  BY <1>2

\* decide_shapes answers for one of the rows: for one that is too wide if there
\* is any, and otherwise for one that no other outprices.
LEMMA Stands ==
  ASSUME NEW rows \in Seq(Row) \ {<<>>}
  PROVE  \E i \in DOMAIN rows :
           /\ StandsFor(rows) = rows[i]
           /\ (\E k \in DOMAIN rows : TooWide(rows[k])) => TooWide(rows[i])
           /\ \/ TooWide(rows[i])
              \/ \A k \in DOMAIN rows : Bytes(rows[k]) <= Bytes(rows[i])
<1> DEFINE over == {i \in DOMAIN rows : rows[i].dense /\ rows[i].qubits > MaxQubits}
           priced == {i \in DOMAIN rows : Priced(rows[i])}
           dearest == {i \in priced : \A k \in priced : Bytes(rows[k]) <= Bytes(rows[i])}
           Choice(i) == IF over # {} THEN i \in over /\ \A k \in over : i <= k
                        ELSE IF priced # {} THEN i \in dearest /\ \A k \in dearest : k <= i
                        ELSE i = 1
<1>1. /\ Len(rows) \in Nat \ {0} /\ DOMAIN rows = 1 .. Len(rows)
      /\ \A i \in DOMAIN rows : rows[i] \in Row
  OBVIOUS
<1>2. \E i \in DOMAIN rows : Choice(i)
  <2>1. CASE over # {}
    <3>1. over \in SUBSET Nat
      BY <1>1
    <3>2. PICK i \in over : \A k \in over : i <= k
      BY <2>1, <3>1, Least
    <3>3. QED
      BY <2>1, <3>2
  <2>2. CASE over = {} /\ priced # {}
    <3> DEFINE price == [i \in DOMAIN rows |-> Bytes(rows[i])]
               own == [i \in DOMAIN rows |-> i]
    <3>1. /\ priced \in SUBSET (1 .. Len(rows)) /\ dearest \in SUBSET (1 .. Len(rows))
          /\ Len(rows) \in Nat
      BY <1>1
    <3>2. \A i \in DOMAIN rows : Bytes(rows[i]) \in Nat
      BY <1>1, GovernorAssumption DEF Bytes, Priced
    <3>3. \A i \in priced : price[i] \in Nat
      BY <3>2
    <3>4. \E i \in priced : \A k \in priced : price[k] <= price[i]
      <4> HIDE DEF price, priced
      <4>1. QED
        BY <2>2, <3>1, <3>3, Largest
    <3>5. dearest # {}
      BY <3>4
    <3>6. \A i \in dearest : own[i] \in Nat
      BY <1>1
    <3>7. \E i \in dearest : \A k \in dearest : own[k] <= own[i]
      <4> HIDE DEF own, dearest
      <4>1. QED
        BY <3>1, <3>5, <3>6, Largest
    <3>8. PICK i \in dearest : \A k \in dearest : k <= i
      BY <3>7
    <3>9. QED
      BY <2>2, <3>8
  <2>3. CASE over = {} /\ priced = {}
    <3>1. 1 \in DOMAIN rows
      BY <1>1
    <3>2. QED
      BY <2>3, <3>1
  <2>4. QED
    BY <2>1, <2>2, <2>3
<1> DEFINE c == CHOOSE i \in DOMAIN rows : Choice(i)
<1>3. c \in DOMAIN rows /\ Choice(c)
  <2> HIDE DEF Choice
  <2>1. QED
    BY <1>2
<1>4. StandsFor(rows) = rows[c]
  BY DEF StandsFor
<1>5. (\E k \in DOMAIN rows : TooWide(rows[k])) => over # {}
  BY DEF TooWide
<1>6. over # {} => TooWide(rows[c])
  <2>1. over # {} => c \in over
    BY <1>3
  <2> HIDE DEF c
  <2>2. QED
    BY <2>1 DEF TooWide
<1>7. over = {} => \A k \in DOMAIN rows : Bytes(rows[k]) <= Bytes(rows[c])
  <2>1. over = {} /\ priced # {} => \A k \in priced : Bytes(rows[k]) <= Bytes(rows[c])
    BY <1>3
  <2>2. ASSUME NEW k \in DOMAIN rows
        PROVE  Bytes(rows[k]) \in Nat /\ (k \notin priced => Bytes(rows[k]) = 0)
    BY <1>1, GovernorAssumption DEF Bytes, Priced
  <2>3. c \in DOMAIN rows
    BY <1>3
  <2> HIDE DEF c, over, priced
  <2>4. SUFFICES ASSUME over = {}, NEW k \in DOMAIN rows
                 PROVE  Bytes(rows[k]) <= Bytes(rows[c])
    OBVIOUS
  <2>5. CASE k \in priced
    BY <2>1, <2>4, <2>5
  <2>6. CASE k \notin priced
    <3>1. Bytes(rows[k]) = 0
      BY <2>2, <2>6
    <3>2. Bytes(rows[c]) \in Nat
      BY <2>2, <2>3
    <3>3. QED
      BY <3>1, <3>2
  <2>7. QED
    BY <2>5, <2>6
<1>8. QED
  <2> HIDE DEF c
  <2>1. QED
    BY <1>3, <1>4, <1>5, <1>6, <1>7

\* What stands for the request of a handler is a row with a price in Nat.
LEMMA ShapeType ==
  ASSUME TypeOK, NEW j \in Job
  PROVE  Shape(j) \in Row /\ Bytes(Shape(j)) \in Nat
<1>1. request[j] \in Request
  BY DEF TypeOK
<1>2. request[j].rows \in Seq(Row) \ {<<>>}
  BY <1>1, GovernorAssumption
<1>3. PICK i \in DOMAIN request[j].rows : StandsFor(request[j].rows) = request[j].rows[i]
  BY <1>2, Stands
<1>4. Shape(j) \in Row
  BY <1>2, <1>3 DEF Shape
<1>5. QED
  BY <1>4, GovernorAssumption DEF Bytes, Priced
-----------------------------------------------------------------------------
(* Accounts. *)

Need == [j \in Job |-> Permits(j)]
HoldersOf(p) == {j \in Job : "memory" \in held[j] /\ Pool(j) = p}
SlotHolders == {j \in Job : "slot" \in held[j]}

MemoryExact ==
  \A p \in DOMAIN capacity : memory[p] + Total(Need, HoldersOf(p)) = Budget(p)
SlotsExact == slots + Cardinality(SlotHolders) = MaxConcurrency

\* The two halves of the account, before a step and after it.
LEMMA Accounts ==
  /\ PermitsExact <=> MemoryExact /\ SlotsExact
  /\ PermitsExact' <=> MemoryExact' /\ SlotsExact'
  BY DEF PermitsExact, MemoryExact, SlotsExact, Need, HoldersOf, SlotHolders

\* A price in MiB is a number.
LEMMA MibType ==
  ASSUME NEW bytes \in Nat
  PROVE  ToMib(bytes) \in Nat
<1>1. Mib \in Nat \ {0}
  BY GovernorAssumption
<1>2. bytes + Mib - 1 \in Nat
  BY <1>1
<1>3. (bytes + Mib - 1) \div Mib \in Nat
  BY <1>1, <1>2
<1>4. QED
  BY <1>3 DEF ToMib, CeilDiv

\* A budget is a number of MiB.
LEMMA BudgetType ==
  ASSUME TypeOK, NEW p \in DOMAIN capacity
  PROVE  Budget(p) \in Nat
<1>1. capacity[p] \in Nat
  BY GovernorAssumption DEF TypeOK
<1>2. QED
  BY <1>1, MibType DEF Budget

\* What a reservation takes is a number, and within the budget.
LEMMA PermitsType ==
  ASSUME TypeOK, NEW j \in Job, Pool(j) \in DOMAIN capacity
  PROVE  Permits(j) \in Nat /\ Permits(j) <= Budget(Pool(j))
<1>1. ToMib(Bytes(Shape(j))) \in Nat
  BY ShapeType, MibType
<1>2. Budget(Pool(j)) \in Nat
  BY BudgetType
<1>3. QED
  BY <1>1, <1>2 DEF Permits, Min2

\* A handler that keeps its request keeps its price and its pool.
LEMMA SameRequest ==
  ASSUME capacity' = capacity, NEW j \in Job, request'[j] = request[j]
  PROVE  /\ Shape(j)' = Shape(j) /\ Pool(j)' = Pool(j) /\ Permits(j)' = Permits(j)
         /\ Fits(j)' <=> Fits(j)
         /\ Narrow(j)' <=> Narrow(j)
<1>1. Shape(j)' = Shape(j)
  BY DEF Shape
<1>2. Pool(j)' = Pool(j)
  BY <1>1 DEF Pool, PoolOf
<1>3. Permits(j)' = Permits(j)
  BY <1>1, <1>2 DEF Permits, Budget
<1>4. Fits(j)' <=> Fits(j)
  BY <1>1, <1>2 DEF Fits, Bytes, Priced
<1>5. Narrow(j)' <=> Narrow(j)
  BY <1>1 DEF Narrow, TooWide
<1>6. QED
  BY <1>1, <1>2, <1>3, <1>4, <1>5

\* The accounts of the pools are as they were when no permit moves and whoever
\* has one keeps its request.
LEMMA MemoryKept ==
  ASSUME MemoryExact, capacity' = capacity, memory' = memory,
         \A k \in Job : "memory" \in held'[k] <=> "memory" \in held[k],
         \A k \in Job : "memory" \in held[k] => request'[k] = request[k]
  PROVE  MemoryExact'
<1> SUFFICES ASSUME NEW p \in DOMAIN capacity
             PROVE  memory'[p] + Total(Need, HoldersOf(p))' = Budget(p)'
  BY DEF MemoryExact
<1>1. \A k \in Job : "memory" \in held[k] =>
                       Pool(k)' = Pool(k) /\ Permits(k)' = Permits(k)
  BY SameRequest
<1>2. HoldersOf(p)' = HoldersOf(p)
  BY <1>1 DEF HoldersOf
<1>3. \A k \in HoldersOf(p) : Need'[k] = Need[k]
  BY <1>1 DEF HoldersOf, Need
<1>4. Total(Need', HoldersOf(p)) = Total(Need, HoldersOf(p))
  BY <1>3, TotalSame
<1>5. Total(Need, HoldersOf(p))' = Total(Need', HoldersOf(p)')
  BY DEF Total, Units
<1>6. Budget(p)' = Budget(p)
  BY DEF Budget
<1>7. memory[p] + Total(Need, HoldersOf(p)) = Budget(p)
  BY DEF MemoryExact
<1>8. QED
  BY <1>2, <1>4, <1>5, <1>6, <1>7

\* And so is that of the slots when no slot moves.
LEMMA SlotsKept ==
  ASSUME SlotsExact, slots' = slots,
         \A k \in Job : "slot" \in held'[k] <=> "slot" \in held[k]
  PROVE  SlotsExact'
<1>1. SlotHolders' = SlotHolders
  BY DEF SlotHolders
<1>2. QED
  BY <1>1 DEF SlotsExact

\* A handler that a step leaves alone is where it was and knows what it knew.
LEMMA Bystander ==
  ASSUME Stages, Passed, capacity' = capacity, NEW k \in Job,
         request'[k] = request[k], pc'[k] = pc[k], held'[k] = held[k], at'[k] = at[k]
  PROVE  Stage(k)' /\ Knows(k)'
<1>1. Stage(k)'
  BY DEF Stages, Stage
<1>2. Knows(k)'
  BY SameRequest DEF Passed, Knows
<1>3. QED
  BY <1>1, <1>2

-----------------------------------------------------------------------------
(* One step. *)

\* A refusal moves the handler on and nothing else.
LEMMA RefuseStep ==
  ASSUME GInv, NEW j \in Job,
         NEW from \in {"price", "measure", "memory", "slot", "gate"},
         NEW why \in Refusals, Refuse(j, from, why)
  PROVE  GInv'
<1> USE DEF GInv, Refuse, Goes
<1>1. TypeOK'
  BY DEF TypeOK
<1>2. PermitsExact'
  <2>1. MemoryExact'
    BY Accounts, MemoryKept
  <2>2. SlotsExact'
    BY Accounts, SlotsKept
  <2>3. QED
    BY <2>1, <2>2, Accounts
<1>3. Stage(j)' /\ Knows(j)'
  <2>1. at[j] = 0 /\ pc'[j] = "drop"
    BY DEF Stages, Stage, TypeOK
  <2>2. Fits(j)' <=> Fits(j)
    BY SameRequest
  <2>3. QED
    BY <2>1, <2>2 DEF Stages, Stage, Passed, Knows
<1>4. \A k \in Job \ {j} : Stage(k)' /\ Knows(k)'
  <2>1. \A k \in Job \ {j} : pc'[k] = pc[k]
    BY DEF TypeOK
  <2>2. QED
    BY <2>1, Bystander
<1>5. QED
  BY <1>1, <1>2, <1>3, <1>4 DEF Stages, Passed

\* A handler that submits holds nothing, so its new request disturbs no account.
LEMMA SubmitStep ==
  ASSUME GInv, NEW j \in Job, NEW r \in Request, Submit(j, r)
  PROVE  GInv'
<1> USE DEF GInv, Goes
<1>0. /\ pc[j] = "idle" /\ pc' = [pc EXCEPT ![j] = "price"]
      /\ request' = [request EXCEPT ![j] = r]
      /\ UNCHANGED <<capacity, memory, slots, held, at, outcome, load>>
      /\ held[j] = {} /\ at[j] = 0
  BY DEF Submit, Stages, Stage, TypeOK
<1>1. TypeOK'
  <2>1. Len(r.rows) \in Nat
    BY GovernorAssumption
  <2>2. \A k \in Job : at'[k] \in 0 .. Len(request'[k].rows)
    BY <1>0, <2>1 DEF TypeOK
  <2>3. QED
    BY <1>0, <2>2 DEF TypeOK
<1>2. PermitsExact'
  <2>1. \A k \in Job : "memory" \in held[k] => request'[k] = request[k]
    BY <1>0 DEF TypeOK
  <2>2. MemoryExact'
    BY <1>0, <2>1, Accounts, MemoryKept
  <2>3. SlotsExact'
    BY <1>0, Accounts, SlotsKept
  <2>4. QED
    BY <2>2, <2>3, Accounts
<1>3. Stage(j)' /\ Knows(j)'
  BY <1>0 DEF Stage, Knows, TypeOK
<1>4. \A k \in Job \ {j} : Stage(k)' /\ Knows(k)'
  <2>1. \A k \in Job \ {j} : /\ pc'[k] = pc[k] /\ held'[k] = held[k]
                           /\ request'[k] = request[k] /\ at'[k] = at[k]
    BY <1>0 DEF TypeOK
  <2>2. QED
    BY <1>0, <2>1, Bystander
<1>5. QED
  BY <1>1, <1>2, <1>3, <1>4 DEF Stages, Passed

\* Past its price a request is known to fit into its pool.
LEMMA PriceStep ==
  ASSUME GInv, NEW j \in Job, Price(j)
  PROVE  GInv'
<1> USE DEF GInv, Goes
<1> SUFFICES ASSUME HasPool(Shape(j).target),
                    ~(Bytes(Shape(j)) > capacity[Pool(j)]),
                    pc[j] = "price" /\ pc' = [pc EXCEPT ![j] = "measure"],
                    UNCHANGED <<capacity, memory, slots, request, held, at, outcome, load>>
             PROVE  GInv'
  <2>1. "price" \in {"price", "measure", "memory", "slot", "gate"}
        /\ {"Unpriceable", "ExceedsCapacity"} \subseteq Refusals
    BY DEF Refusals
  <2>2. QED
    BY <2>1, RefuseStep DEF Price
<1>0. held[j] = {} /\ at[j] = 0 /\ pc'[j] = "measure"
  BY DEF Stages, Stage, TypeOK
<1>1. TypeOK'
  BY DEF TypeOK
<1>2. PermitsExact'
  <2>1. MemoryExact'
    BY <1>0, Accounts, MemoryKept
  <2>2. SlotsExact'
    BY <1>0, Accounts, SlotsKept
  <2>3. QED
    BY <2>1, <2>2, Accounts
<1>3. Stage(j)' /\ Knows(j)'
  <2>1. Pool(j) \in DOMAIN capacity
    BY DEF HasPool, Pool
  <2>2. Bytes(Shape(j)) \in Nat /\ capacity[Pool(j)] \in Nat
    BY <2>1, ShapeType, GovernorAssumption DEF TypeOK
  <2>3. Fits(j)
    BY <2>1, <2>2 DEF Fits
  <2>4. Fits(j)'
    BY <2>3, SameRequest
  <2>5. QED
    BY <1>0, <2>4 DEF Stage, Knows
<1>4. \A k \in Job \ {j} : Stage(k)' /\ Knows(k)'
  <2>1. \A k \in Job \ {j} : /\ pc'[k] = pc[k] /\ held'[k] = held[k]
                           /\ request'[k] = request[k] /\ at'[k] = at[k]
    BY <1>0 DEF TypeOK
  <2>2. QED
    BY <1>0, <2>1, Bystander
<1>5. QED
  BY <1>1, <1>2, <1>3, <1>4 DEF Stages, Passed

\* Past the measurement it is known to obey the ceiling.
LEMMA MeasureStep ==
  ASSUME GInv, NEW j \in Job, Measure(j)
  PROVE  GInv'
<1> USE DEF GInv, Goes
<1> SUFFICES ASSUME Narrow(j),
                    pc[j] = "measure" /\ pc' = [pc EXCEPT ![j] = "memory"],
                    UNCHANGED <<capacity, memory, slots, request, held, at, outcome, load>>
             PROVE  GInv'
  <2>1. "measure" \in {"price", "measure", "memory", "slot", "gate"}
        /\ {"MachinePressure", "TooManyQubits"} \subseteq Refusals
    BY DEF Refusals
  <2>2. QED
    BY <2>1, RefuseStep DEF Measure, Narrow, TooWide
<1>0. held[j] = {} /\ at[j] = 0 /\ pc'[j] = "memory" /\ Fits(j)
  BY DEF Stages, Stage, Passed, Knows, TypeOK
<1>1. TypeOK'
  BY DEF TypeOK
<1>2. PermitsExact'
  <2>1. MemoryExact'
    BY <1>0, Accounts, MemoryKept
  <2>2. SlotsExact'
    BY <1>0, Accounts, SlotsKept
  <2>3. QED
    BY <2>1, <2>2, Accounts
<1>3. Stage(j)' /\ Knows(j)'
  <2>1. Fits(j)' /\ Narrow(j)'
    BY <1>0, SameRequest
  <2>2. QED
    BY <1>0, <2>1 DEF Stage, Knows
<1>4. \A k \in Job \ {j} : Stage(k)' /\ Knows(k)'
  <2>1. \A k \in Job \ {j} : /\ pc'[k] = pc[k] /\ held'[k] = held[k]
                           /\ request'[k] = request[k] /\ at'[k] = at[k]
    BY <1>0 DEF TypeOK
  <2>2. QED
    BY <1>0, <2>1, Bystander
<1>5. QED
  BY <1>1, <1>2, <1>3, <1>4 DEF Stages, Passed

\* Prices and pools stay when the requests and the machine do.
LEMMA SameAll ==
  ASSUME capacity' = capacity, request' = request
  PROVE  /\ \A k \in Job : Shape(k)' = Shape(k) /\ Pool(k)' = Pool(k)
                           /\ Permits(k)' = Permits(k)
         /\ Need' = Need
<1>1. \A k \in Job : Shape(k)' = Shape(k) /\ Pool(k)' = Pool(k)
                     /\ Permits(k)' = Permits(k)
  BY SameRequest
<1>2. QED
  BY <1>1 DEF Need

\* A pool with one holder more is charged with that one's permits.
LEMMA OneMore ==
  ASSUME TypeOK, NEW p \in DOMAIN capacity, NEW j \in Job, Pool(j) = p,
         NEW S \in SUBSET HoldersOf(p), j \notin S
  PROVE  /\ Total(Need, S \cup {j}) = Total(Need, S) + Permits(j)
         /\ Total(Need, S) \in Nat /\ Permits(j) \in Nat
<1>1. IsFiniteSet(S)
  BY GovernorAssumption, FS_Subset DEF HoldersOf
<1>2. \A k \in S \cup {j} : Need[k] = Permits(k) /\ Permits(k) \in Nat
  BY PermitsType DEF HoldersOf, Need
<1>3. Total(Need, S \cup {j}) = Total(Need, S) + Need[j]
  <2>1. (\A k \in S : Need[k] \in Nat) /\ Need[j] \in Nat
    BY <1>2
  <2>2. QED
    BY <1>1, <2>1, TotalWith
<1>4. Total(Need, S) \in Nat
  BY <1>1, <1>2, TotalType
<1>5. QED
  BY <1>2, <1>3, <1>4

\* The permits that leave a pool are those its new holder is charged with.
LEMMA TakeMemoryStep ==
  ASSUME GInv, NEW j \in Job, TakeMemory(j)
  PROVE  GInv'
<1> USE DEF GInv, Goes
<1> SUFFICES ASSUME Permits(j) <= memory[Pool(j)],
                    pc[j] = "memory" /\ pc' = [pc EXCEPT ![j] = "slot"],
                    memory' = [memory EXCEPT ![Pool(j)] = @ - Permits(j)],
                    held' = [held EXCEPT ![j] = @ \cup {"memory"}],
                    UNCHANGED <<capacity, slots, request, at, outcome, load>>
             PROVE  GInv'
  <2>1. "memory" \in {"price", "measure", "memory", "slot", "gate"}
        /\ {"Unpriceable", "Busy"} \subseteq Refusals
    BY DEF Refusals
  <2>2. QED
    BY <2>1, RefuseStep DEF TakeMemory
<1>0. /\ held[j] = {} /\ at[j] = 0 /\ pc'[j] = "slot" /\ held'[j] = {"memory"}
      /\ Fits(j) /\ Narrow(j) /\ Pool(j) \in DOMAIN capacity
  BY DEF Stages, Stage, Passed, Knows, Fits, TypeOK
<1>a. /\ Permits(j) \in Nat /\ memory \in [DOMAIN capacity -> Nat]
  BY <1>0, PermitsType DEF TypeOK
<1>b. \A k \in Job \ {j} : held'[k] = held[k]
  BY DEF TypeOK
<1>1. TypeOK'
  <2>1. memory' \in [DOMAIN capacity -> Nat]
    BY <1>0, <1>a
  <2>2. QED
    BY <2>1 DEF TypeOK
<1>2. PermitsExact'
  <2>1. MemoryExact'
    <3> SUFFICES ASSUME NEW p \in DOMAIN capacity
                 PROVE  memory'[p] + Total(Need, HoldersOf(p))' = Budget(p)'
      BY DEF MemoryExact
    <3>1. Total(Need, HoldersOf(p))' = Total(Need, HoldersOf(p)')
      BY SameAll DEF Total, Units
    <3>2. Budget(p)' = Budget(p) /\ memory[p] + Total(Need, HoldersOf(p)) = Budget(p)
      BY Accounts DEF Budget, MemoryExact
    <3>3. CASE p = Pool(j)
      <4>1. HoldersOf(p)' = HoldersOf(p) \cup {j} /\ j \notin HoldersOf(p)
        BY <1>0, <1>b, <3>3, SameAll DEF HoldersOf
      <4>2. /\ Total(Need, HoldersOf(p) \cup {j}) = Total(Need, HoldersOf(p)) + Permits(j)
            /\ Total(Need, HoldersOf(p)) \in Nat
        BY <3>3, <4>1, OneMore
      <4>3. memory'[p] = memory[p] - Permits(j) /\ memory[p] \in Nat
        BY <1>a, <3>3
      <4>4. QED
        BY <1>a, <3>1, <3>2, <4>1, <4>2, <4>3
    <3>4. CASE p # Pool(j)
      <4>1. HoldersOf(p)' = HoldersOf(p)
        BY <1>0, <1>b, <3>4, SameAll DEF HoldersOf
      <4>2. memory'[p] = memory[p]
        BY <1>a, <3>4
      <4>3. QED
        BY <3>1, <3>2, <4>1, <4>2
    <3>5. QED
      BY <3>3, <3>4
  <2>2. SlotsExact'
    <3>1. \A k \in Job : "slot" \in held'[k] <=> "slot" \in held[k]
      BY <1>0, <1>b
    <3>2. QED
      BY <3>1, Accounts, SlotsKept
  <2>3. QED
    BY <2>1, <2>2, Accounts
<1>3. Stage(j)' /\ Knows(j)'
  <2>1. Fits(j)' /\ Narrow(j)'
    BY <1>0, SameRequest
  <2>2. QED
    BY <1>0, <2>1 DEF Stage, Knows
<1>4. \A k \in Job \ {j} : Stage(k)' /\ Knows(k)'
  <2>1. \A k \in Job \ {j} : /\ pc'[k] = pc[k] /\ held'[k] = held[k]
                           /\ request'[k] = request[k] /\ at'[k] = at[k]
    BY <1>0 DEF TypeOK
  <2>2. QED
    BY <1>0, <2>1, Bystander
<1>5. QED
  BY <1>1, <1>2, <1>3, <1>4 DEF Stages, Passed

\* The permits that return are those that were taken: neither the request nor
\* the pool has changed since.
LEMMA DropMemoryStep ==
  ASSUME GInv, NEW j \in Job, DropMemory(j)
  PROVE  GInv'
<1> USE DEF GInv
<1>0. /\ pc[j] = "drop" /\ "memory" \in held[j] /\ at[j] = 0
      /\ memory' = [memory EXCEPT ![Pool(j)] = @ + Permits(j)]
      /\ held' = [held EXCEPT ![j] = @ \ {"memory"}]
      /\ held'[j] = held[j] \ {"memory"}
      /\ UNCHANGED <<capacity, slots, request, pc, at, outcome, load>>
      /\ Pool(j) \in DOMAIN capacity
  BY DEF DropMemory, Stages, Stage, Passed, Knows, Fits, TypeOK
<1>a. /\ Permits(j) \in Nat /\ memory \in [DOMAIN capacity -> Nat]
  BY <1>0, PermitsType DEF TypeOK
<1>b. \A k \in Job \ {j} : held'[k] = held[k]
  BY <1>0 DEF TypeOK
<1>1. TypeOK'
  <2>1. memory' \in [DOMAIN capacity -> Nat]
    BY <1>0, <1>a
  <2>2. QED
    BY <1>0, <2>1 DEF TypeOK
<1>2. PermitsExact'
  <2>1. MemoryExact'
    <3> SUFFICES ASSUME NEW p \in DOMAIN capacity
                 PROVE  memory'[p] + Total(Need, HoldersOf(p))' = Budget(p)'
      BY <1>0 DEF MemoryExact
    <3>1. Total(Need, HoldersOf(p))' = Total(Need, HoldersOf(p)')
      BY <1>0, SameAll DEF Total, Units
    <3>2. Budget(p)' = Budget(p) /\ memory[p] + Total(Need, HoldersOf(p)) = Budget(p)
      BY <1>0, Accounts DEF Budget, MemoryExact
    <3>3. CASE p = Pool(j)
      <4>1. /\ HoldersOf(p) = HoldersOf(p)' \cup {j} /\ j \notin HoldersOf(p)'
            /\ HoldersOf(p)' \subseteq HoldersOf(p)
        BY <1>0, <1>b, <3>3, SameAll DEF HoldersOf
      <4>2. /\ Total(Need, HoldersOf(p)' \cup {j}) = Total(Need, HoldersOf(p)') + Permits(j)
            /\ Total(Need, HoldersOf(p)') \in Nat
        BY <3>3, <4>1, OneMore
      <4>3. memory'[p] = memory[p] + Permits(j) /\ memory[p] \in Nat
        BY <1>0, <1>a, <3>3
      <4>4. QED
        BY <1>a, <3>1, <3>2, <4>1, <4>2, <4>3
    <3>4. CASE p # Pool(j)
      <4>1. HoldersOf(p)' = HoldersOf(p)
        BY <1>0, <1>b, <3>4, SameAll DEF HoldersOf
      <4>2. memory'[p] = memory[p]
        BY <1>0, <1>a, <3>4
      <4>3. QED
        BY <3>1, <3>2, <4>1, <4>2
    <3>5. QED
      BY <3>3, <3>4
  <2>2. SlotsExact'
    <3>1. \A k \in Job : "slot" \in held'[k] <=> "slot" \in held[k]
      BY <1>0, <1>b
    <3>2. QED
      BY <1>0, <3>1, Accounts, SlotsKept
  <2>3. QED
    BY <2>1, <2>2, Accounts
<1>3. Stage(j)' /\ Knows(j)'
  BY <1>0 DEF Stage, Knows
<1>4. \A k \in Job \ {j} : Stage(k)' /\ Knows(k)'
  <2>1. \A k \in Job \ {j} : /\ pc'[k] = pc[k] /\ held'[k] = held[k]
                           /\ request'[k] = request[k] /\ at'[k] = at[k]
    BY <1>0 DEF TypeOK
  <2>2. QED
    BY <1>0, <2>1, Bystander
<1>5. QED
  BY <1>1, <1>2, <1>3, <1>4 DEF Stages, Passed

\* Slots that are taken are within the bound.
LEMMA SlotsType ==
  ASSUME TypeOK, PermitsExact
  PROVE  /\ IsFiniteSet(SlotHolders) /\ Cardinality(SlotHolders) \in Nat
         /\ slots \in Nat /\ MaxConcurrency \in Nat \ {0}
         /\ slots + Cardinality(SlotHolders) = MaxConcurrency
<1>1. IsFiniteSet(SlotHolders)
  BY GovernorAssumption, FS_Subset DEF SlotHolders
<1>2. Cardinality(SlotHolders) \in Nat
  BY <1>1, FS_CardinalityType
<1>3. MaxConcurrency \in Nat \ {0} /\ slots \in Nat
  BY GovernorAssumption DEF TypeOK
<1>4. QED
  BY <1>1, <1>2, <1>3, Accounts DEF SlotsExact

\* A slot that is taken has one holder more.
LEMMA TakeSlotStep ==
  ASSUME GInv, NEW j \in Job, TakeSlot(j)
  PROVE  GInv'
<1> USE DEF GInv, Goes
<1> DEFINE next == CASE request[j].door \in {"run", "ask"} -> "gate"
                     [] request[j].door = "local" -> "run"
                     [] OTHER -> "drop"
<1> SUFFICES ASSUME slots > 0,
                    pc[j] = "slot" /\ pc' = [pc EXCEPT ![j] = next],
                    slots' = slots - 1,
                    held' = [held EXCEPT ![j] = @ \cup {"slot"}],
                    UNCHANGED <<capacity, memory, request, at, outcome, load>>
             PROVE  GInv'
  <2>1. "slot" \in {"price", "measure", "memory", "slot", "gate"} /\ "Busy" \in Refusals
    BY DEF Refusals
  <2>2. QED
    BY <2>1, RefuseStep DEF TakeSlot
<1>n. next \in {"gate", "run", "drop"}
  OBVIOUS
<1> HIDE DEF next
<1>0. /\ held[j] = {"memory"} /\ held'[j] = {"memory", "slot"}
      /\ at[j] = 0 /\ at' = at /\ pc'[j] = next
      /\ UNCHANGED <<capacity, memory, request>>
      /\ Fits(j) /\ Narrow(j)
  BY DEF Stages, Stage, Passed, Knows, TypeOK
<1>a. \A k \in Job \ {j} : held'[k] = held[k]
  BY DEF TypeOK
<1>b. slots' + Cardinality(SlotHolders') = MaxConcurrency
  <2>1. SlotHolders' = SlotHolders \cup {j} /\ j \notin SlotHolders
    BY <1>0, <1>a DEF SlotHolders
  <2>2. Cardinality(SlotHolders') = Cardinality(SlotHolders) + 1
    BY <2>1, SlotsType, FS_AddElement
  <2>3. QED
    BY <2>2, SlotsType
<1>1. TypeOK'
  <2>1. slots' \in 0 .. MaxConcurrency
    BY SlotsType DEF TypeOK
  <2>2. QED
    BY <1>n, <2>1 DEF TypeOK
<1>2. PermitsExact'
  <2>1. \A k \in Job : "memory" \in held'[k] <=> "memory" \in held[k]
    BY <1>0, <1>a
  <2>2. MemoryExact'
    BY <1>0, <2>1, Accounts, MemoryKept
  <2>3. SlotsExact'
    BY <1>0, <1>b DEF SlotsExact
  <2>4. QED
    BY <2>2, <2>3, Accounts
<1>3. Stage(j)' /\ Knows(j)'
  <2>1. Fits(j)' /\ Narrow(j)'
    BY <1>0, SameRequest
  <2>2. QED
    BY <1>0, <1>n, <2>1 DEF Stage, Knows
<1>4. \A k \in Job \ {j} : Stage(k)' /\ Knows(k)'
  <2>1. \A k \in Job \ {j} : /\ pc'[k] = pc[k] /\ held'[k] = held[k]
                           /\ request'[k] = request[k] /\ at'[k] = at[k]
    BY <1>0 DEF TypeOK
  <2>2. QED
    BY <1>0, <2>1, Bystander
<1>5. QED
  BY <1>1, <1>2, <1>3, <1>4 DEF Stages, Passed

\* A slot that is returned had a holder, so there are never more than there were.
LEMMA DropSlotStep ==
  ASSUME GInv, NEW j \in Job, DropSlot(j)
  PROVE  GInv'
<1> USE DEF GInv
<1>0. /\ pc[j] = "drop" /\ "memory" \notin held[j] /\ "slot" \in held[j]
      /\ slots' = slots + 1
      /\ held' = [held EXCEPT ![j] = @ \ {"slot"}] /\ held'[j] = held[j] \ {"slot"}
      /\ UNCHANGED <<capacity, memory, request, pc, at, outcome, load>>
      /\ at[j] = 0
  BY DEF DropSlot, Stages, Stage, TypeOK
<1>a. \A k \in Job \ {j} : held'[k] = held[k]
  BY <1>0 DEF TypeOK
<1>b. /\ slots' + Cardinality(SlotHolders') = MaxConcurrency
      /\ Cardinality(SlotHolders') \in Nat
  <2>1. SlotHolders' = SlotHolders \ {j} /\ j \in SlotHolders
    BY <1>0, <1>a DEF SlotHolders
  <2>2. Cardinality(SlotHolders') = Cardinality(SlotHolders) - 1
    BY <2>1, SlotsType, FS_RemoveElement
  <2>3. Cardinality(SlotHolders') \in Nat
    BY <2>1, SlotsType, FS_RemoveElement, FS_CardinalityType
  <2>4. QED
    BY <1>0, <2>2, <2>3, SlotsType
<1>1. TypeOK'
  <2>1. slots' \in 0 .. MaxConcurrency
    BY <1>0, <1>b, SlotsType
  <2>2. QED
    BY <1>0, <2>1 DEF TypeOK
<1>2. PermitsExact'
  <2>1. \A k \in Job : "memory" \in held'[k] <=> "memory" \in held[k]
    BY <1>0, <1>a
  <2>2. MemoryExact'
    BY <1>0, <2>1, Accounts, MemoryKept
  <2>3. SlotsExact'
    BY <1>0, <1>b DEF SlotsExact
  <2>4. QED
    BY <2>2, <2>3, Accounts
<1>3. Stage(j)' /\ Knows(j)'
  BY <1>0 DEF Stage, Knows
<1>4. \A k \in Job \ {j} : Stage(k)' /\ Knows(k)'
  <2>1. \A k \in Job \ {j} : /\ pc'[k] = pc[k] /\ held'[k] = held[k]
                           /\ request'[k] = request[k] /\ at'[k] = at[k]
    BY <1>0 DEF TypeOK
  <2>2. QED
    BY <1>0, <2>1, Bystander
<1>5. QED
  BY <1>1, <1>2, <1>3, <1>4 DEF Stages, Passed

\* The gate changes neither permits nor slots.
LEMMA AskGateStep ==
  ASSUME GInv, NEW j \in Job, AskGate(j)
  PROVE  GInv'
<1> USE DEF GInv, Goes
<1> DEFINE next == IF request[j].door = "run" THEN "run" ELSE "drop"
<1> SUFFICES ASSUME pc[j] = "gate" /\ pc' = [pc EXCEPT ![j] = next],
                    held' = [held EXCEPT ![j] = @ \cup {"grant"}],
                    UNCHANGED <<capacity, memory, slots, request, at, outcome, load>>
             PROVE  GInv'
  <2>1. "gate" \in {"price", "measure", "memory", "slot", "gate"} /\ "HostBudget" \in Refusals
    BY DEF Refusals
  <2>2. QED
    BY <2>1, RefuseStep DEF AskGate
<1>n. next \in {"run", "drop"}
  OBVIOUS
<1> HIDE DEF next
<1>0. /\ held[j] = {"memory", "slot"} /\ held'[j] = {"memory", "slot", "grant"}
      /\ held' = [held EXCEPT ![j] = @ \cup {"grant"}]
      /\ at[j] = 0 /\ at' = at /\ pc'[j] = next /\ pc' = [pc EXCEPT ![j] = next]
      /\ UNCHANGED <<capacity, memory, slots, request>>
      /\ Fits(j) /\ Narrow(j)
  BY DEF Stages, Stage, Passed, Knows, TypeOK
<1>1. TypeOK'
  BY <1>n DEF TypeOK
<1>a. \A k \in Job \ {j} : held'[k] = held[k]
  BY <1>0 DEF TypeOK
<1>2. PermitsExact'
  <2>1. \A k \in Job : /\ "memory" \in held'[k] <=> "memory" \in held[k]
                       /\ "slot" \in held'[k] <=> "slot" \in held[k]
    BY <1>0, <1>a
  <2>2. MemoryExact'
    BY <1>0, <2>1, Accounts, MemoryKept
  <2>3. SlotsExact'
    BY <1>0, <2>1, Accounts, SlotsKept
  <2>4. QED
    BY <2>2, <2>3, Accounts
<1>3. Stage(j)' /\ Knows(j)'
  <2>1. Fits(j)' /\ Narrow(j)'
    BY <1>0, SameRequest
  <2>2. QED
    BY <1>0, <1>n, <2>1 DEF Stage, Knows
<1>4. \A k \in Job \ {j} : Stage(k)' /\ Knows(k)'
  <2>1. \A k \in Job \ {j} : /\ pc'[k] = pc[k] /\ held'[k] = held[k]
                           /\ request'[k] = request[k] /\ at'[k] = at[k]
    BY <1>0 DEF TypeOK
  <2>2. QED
    BY <1>0, <2>1, Bystander
<1>5. QED
  BY <1>1, <1>2, <1>3, <1>4 DEF Stages, Passed

\* The next row of a batch is one of the request.
LEMMA ExecuteStep ==
  ASSUME GInv, NEW j \in Job, Execute(j)
  PROVE  GInv'
<1> USE DEF GInv
<1>0. /\ pc[j] = "run" /\ at[j] < Len(request[j].rows)
      /\ at' = [at EXCEPT ![j] = @ + 1] /\ at'[j] = at[j] + 1
      /\ UNCHANGED <<capacity, memory, slots, request, pc, held, outcome, load>>
  BY DEF Execute, TypeOK
<1>1. TypeOK'
  <2>1. at[j] \in Nat /\ Len(request[j].rows) \in Nat
    BY GovernorAssumption DEF TypeOK
  <2>2. at'[j] \in 0 .. Len(request'[j].rows)
    BY <1>0, <2>1
  <2>3. \A k \in Job \ {j} : at'[k] = at[k]
    BY <1>0 DEF TypeOK
  <2>4. DOMAIN at' = Job /\ \A k \in Job : at'[k] \in 0 .. Len(request'[k].rows)
    BY <1>0, <2>2, <2>3 DEF TypeOK
  <2>5. QED
    BY <1>0, <2>4 DEF TypeOK
<1>2. PermitsExact'
  <2>1. MemoryExact'
    BY <1>0, Accounts, MemoryKept
  <2>2. SlotsExact'
    BY <1>0, Accounts, SlotsKept
  <2>3. QED
    BY <2>1, <2>2, Accounts
<1>3. Stage(j)' /\ Knows(j)'
  <2>1. Stage(j)'
    BY <1>0 DEF Stages, Stage
  <2>2. Knows(j)'
    <3>1. (Fits(j)' <=> Fits(j)) /\ (Narrow(j)' <=> Narrow(j)) /\ Knows(j)
      BY <1>0, SameRequest DEF Passed
    <3>2. QED
      BY <1>0, <3>1 DEF Knows
  <2>3. QED
    BY <2>1, <2>2
<1>4. \A k \in Job \ {j} : Stage(k)' /\ Knows(k)'
  <2>1. \A k \in Job \ {j} : /\ pc'[k] = pc[k] /\ held'[k] = held[k]
                           /\ request'[k] = request[k] /\ at'[k] = at[k]
    BY <1>0 DEF TypeOK
  <2>2. QED
    BY <1>0, <2>1, Bystander
<1>5. QED
  BY <1>1, <1>2, <1>3, <1>4 DEF Stages, Passed

\* A handler that stops keeps what it holds until it drops it.
LEMMA StopStep ==
  ASSUME GInv, NEW j \in Job, Stop(j)
  PROVE  GInv'
<1> USE DEF GInv
<1>0. /\ pc[j] = "run" /\ pc' = [pc EXCEPT ![j] = "drop"] /\ pc'[j] = "drop"
      /\ at' = [at EXCEPT ![j] = 0] /\ at'[j] = 0
      /\ UNCHANGED <<capacity, memory, slots, request, held, outcome, load>>
  BY DEF Stop, Goes, TypeOK
<1>1. TypeOK'
  <2>1. Len(request[j].rows) \in Nat
    BY GovernorAssumption DEF TypeOK
  <2>2. \A k \in Job \ {j} : at'[k] = at[k]
    BY <1>0 DEF TypeOK
  <2>3. DOMAIN at' = Job /\ \A k \in Job : at'[k] \in 0 .. Len(request'[k].rows)
    BY <1>0, <2>1, <2>2 DEF TypeOK
  <2>4. QED
    BY <1>0, <2>3 DEF TypeOK
<1>2. PermitsExact'
  <2>1. MemoryExact'
    BY <1>0, Accounts, MemoryKept
  <2>2. SlotsExact'
    BY <1>0, Accounts, SlotsKept
  <2>3. QED
    BY <2>1, <2>2, Accounts
<1>3. Stage(j)' /\ Knows(j)'
  <2>1. (Fits(j)' <=> Fits(j)) /\ Knows(j)
    BY <1>0, SameRequest DEF Passed
  <2>2. QED
    BY <1>0, <2>1 DEF Stage, Knows
<1>4. \A k \in Job \ {j} : Stage(k)' /\ Knows(k)'
  <2>1. \A k \in Job \ {j} : /\ pc'[k] = pc[k] /\ held'[k] = held[k]
                           /\ request'[k] = request[k] /\ at'[k] = at[k]
    BY <1>0 DEF TypeOK
  <2>2. QED
    BY <1>0, <2>1, Bystander
<1>5. QED
  BY <1>1, <1>2, <1>3, <1>4 DEF Stages, Passed

\* The grant is the last thing dropped.
LEMMA DropGrantStep ==
  ASSUME GInv, NEW j \in Job, DropGrant(j)
  PROVE  GInv'
<1> USE DEF GInv
<1>0. /\ pc[j] = "drop" /\ held[j] = {"grant"}
      /\ held' = [held EXCEPT ![j] = {}] /\ held'[j] = {}
      /\ UNCHANGED <<capacity, memory, slots, request, pc, at, outcome, load>>
      /\ at[j] = 0
  BY DEF DropGrant, Stages, Stage, TypeOK
<1>1. TypeOK'
  BY <1>0 DEF TypeOK
<1>a. \A k \in Job \ {j} : held'[k] = held[k]
  BY <1>0 DEF TypeOK
<1>2. PermitsExact'
  <2>1. \A k \in Job : /\ "memory" \in held'[k] <=> "memory" \in held[k]
                       /\ "slot" \in held'[k] <=> "slot" \in held[k]
    BY <1>0, <1>a
  <2>2. MemoryExact'
    BY <1>0, <2>1, Accounts, MemoryKept
  <2>3. SlotsExact'
    BY <1>0, <2>1, Accounts, SlotsKept
  <2>4. QED
    BY <2>2, <2>3, Accounts
<1>3. Stage(j)' /\ Knows(j)'
  BY <1>0 DEF Stage, Knows
<1>4. \A k \in Job \ {j} : Stage(k)' /\ Knows(k)'
  <2>1. \A k \in Job \ {j} : /\ pc'[k] = pc[k] /\ held'[k] = held[k]
                           /\ request'[k] = request[k] /\ at'[k] = at[k]
    BY <1>0 DEF TypeOK
  <2>2. QED
    BY <1>0, <2>1, Bystander
<1>5. QED
  BY <1>1, <1>2, <1>3, <1>4 DEF Stages, Passed

\* A handler that replies has dropped everything.
LEMMA ReplyStep ==
  ASSUME GInv, NEW j \in Job, Reply(j)
  PROVE  GInv'
<1> USE DEF GInv
<1>0. /\ pc[j] = "drop" /\ held[j] = {} /\ at[j] = 0
      /\ pc' = [pc EXCEPT ![j] = "idle"] /\ pc'[j] = "idle"
      /\ request' = [request EXCEPT ![j] = NoRequest]
      /\ outcome' = [outcome EXCEPT ![j] = "admitted"]
      /\ UNCHANGED <<capacity, memory, slots, held, at, load>>
  BY DEF Reply, Goes, Stages, Stage, TypeOK
<1>1. TypeOK'
  <2>1. NoRequest \in Request /\ Len(NoRequest.rows) \in Nat
    BY GovernorAssumption DEF NoRequest
  <2>2. \A k \in Job : at'[k] \in 0 .. Len(request'[k].rows)
    BY <1>0, <2>1 DEF TypeOK
  <2>3. QED
    BY <1>0, <2>1, <2>2 DEF TypeOK
<1>2. PermitsExact'
  <2>1. \A k \in Job : "memory" \in held[k] => request'[k] = request[k]
    BY <1>0 DEF TypeOK
  <2>2. MemoryExact'
    BY <1>0, <2>1, Accounts, MemoryKept
  <2>3. SlotsExact'
    BY <1>0, Accounts, SlotsKept
  <2>4. QED
    BY <2>2, <2>3, Accounts
<1>3. Stage(j)' /\ Knows(j)'
  BY <1>0 DEF Stage, Knows
<1>4. \A k \in Job \ {j} : Stage(k)' /\ Knows(k)'
  <2>1. \A k \in Job \ {j} : /\ pc'[k] = pc[k] /\ held'[k] = held[k]
                           /\ request'[k] = request[k] /\ at'[k] = at[k]
    BY <1>0 DEF TypeOK
  <2>2. QED
    BY <1>0, <2>1, Bystander
<1>5. QED
  BY <1>1, <1>2, <1>3, <1>4 DEF Stages, Passed

\* Whatever leaves the handlers and the pools alone.
LEMMA IdleStep ==
  ASSUME GInv, Shift \/ UNCHANGED vars
  PROVE  GInv'
<1> USE DEF GInv
<1>0. UNCHANGED <<capacity, memory, slots, request, pc, held, at, outcome>>
  BY DEF Shift, vars
<1>1. TypeOK'
  BY <1>0 DEF TypeOK, Shift, vars
<1>2. PermitsExact'
  <2>1. MemoryExact'
    BY <1>0, Accounts, MemoryKept
  <2>2. SlotsExact'
    BY <1>0, Accounts, SlotsKept
  <2>3. QED
    BY <2>1, <2>2, Accounts
<1>3. \A k \in Job : Stage(k)' /\ Knows(k)'
  BY <1>0, Bystander
<1>4. QED
  BY <1>1, <1>2, <1>3 DEF Stages, Passed

\* The server starts with every permit and slot in place.
LEMMA InitInv == Init => GInv
<1> SUFFICES ASSUME Init PROVE GInv
  OBVIOUS
<1> USE DEF Init
<1>1. TypeOK
  <2>1. NoRequest \in Request /\ Len(NoRequest.rows) \in Nat
    BY GovernorAssumption DEF NoRequest
  <2>2. \A p \in DOMAIN capacity : Budget(p) \in Nat
    BY GovernorAssumption, MibType DEF Budget
  <2>3. MaxConcurrency \in Nat
    BY GovernorAssumption
  <2>4. request \in [Job -> Request] /\ \A j \in Job : at[j] \in 0 .. Len(request[j].rows)
    BY <2>1
  <2>5. QED
    BY <2>2, <2>3, <2>4 DEF TypeOK
<1>2. PermitsExact
  <2>1. MemoryExact
    <3>1. \A p \in DOMAIN capacity : HoldersOf(p) = {}
      BY DEF HoldersOf
    <3>2. \A p \in DOMAIN capacity : Budget(p) \in Nat /\ memory[p] = Budget(p)
      BY <1>1, BudgetType
    <3>3. \A p \in DOMAIN capacity : Total(Need, HoldersOf(p)) = 0
      BY <3>1, TotalEmpty
    <3>4. QED
      BY <3>2, <3>3 DEF MemoryExact
  <2>2. SlotsExact
    <3>1. SlotHolders = {}
      BY DEF SlotHolders
    <3>2. QED
      BY <3>1, FS_EmptySet, GovernorAssumption DEF SlotsExact
  <2>3. QED
    BY <2>1, <2>2, Accounts
<1>3. Stages /\ Passed
  BY DEF Stages, Stage, Passed, Knows
<1>4. QED
  BY <1>1, <1>2, <1>3 DEF GInv

\* The invariant is inductive: one lemma above per action.
LEMMA StepInv == GInv /\ [Next]_vars => GInv'
<1> SUFFICES ASSUME GInv, [Next]_vars PROVE GInv'
  OBVIOUS
<1>1. CASE \E j \in Job, r \in Request : Submit(j, r)
  BY <1>1, SubmitStep
<1>2. ASSUME NEW j \in Job,
             \/ Price(j) \/ Measure(j) \/ TakeMemory(j) \/ TakeSlot(j) \/ AskGate(j)
             \/ Execute(j) \/ Stop(j)
             \/ DropMemory(j) \/ DropSlot(j) \/ DropGrant(j) \/ Reply(j)
      PROVE  GInv'
  BY <1>2, PriceStep, MeasureStep, TakeMemoryStep, TakeSlotStep, AskGateStep,
     ExecuteStep, StopStep, DropMemoryStep, DropSlotStep, DropGrantStep, ReplyStep
<1>3. CASE Shift \/ UNCHANGED vars
  BY <1>3, IdleStep
<1>4. QED
  BY <1>1, <1>2, <1>3 DEF Next

\* Hence it holds throughout.
LEMMA Invariance == Spec => []GInv
  BY InitInv, StepInv, PTL DEF Spec
-----------------------------------------------------------------------------
(* What follows. *)

\* Every handler, pool and slot stays within its type, whatever the requests.
THEOREM GovernorTypes == Spec => []TypeOK
<1>1. GInv => TypeOK
  BY DEF GInv
<1>2. QED
  BY <1>1, Invariance, PTL

\* Memory and slots are given back exactly: no path of a handler, refused or
\* served, leaks a permit or returns one twice.
THEOREM PermitsNeverLeak == Spec => []PermitsExact
<1>1. GInv => PermitsExact
  BY DEF GInv
<1>2. QED
  BY <1>1, Invariance, PTL

\* What executes is no dearer than what was admitted, uses the same pool, is
\* not too wide, and is paid for.
LEMMA RunningRow ==
  ASSUME GInv, NEW j \in Job, at[j] # 0, NEW row, row = request[j].rows[at[j]]
  PROVE  /\ row \in Row /\ ~TooWide(row)
         /\ Bytes(row) \in Nat /\ Bytes(row) <= Bytes(Shape(j))
         /\ PoolOf(row.target) = Pool(j)
         /\ "memory" \in held[j] /\ Fits(j)
<1>1. pc[j] = "run" /\ "memory" \in held[j] /\ Fits(j) /\ ~TooWide(Shape(j))
  BY DEF GInv, Stages, Stage, Passed, Knows, Narrow
<1>2. /\ request[j].rows \in Seq(Row) \ {<<>>}
      /\ \A i, k \in DOMAIN request[j].rows :
           request[j].rows[i].target = request[j].rows[k].target
  BY GovernorAssumption DEF GInv, TypeOK
<1>3. at[j] \in DOMAIN request[j].rows
  BY <1>2 DEF GInv, TypeOK
<1>4. PICK i \in DOMAIN request[j].rows :
        /\ Shape(j) = request[j].rows[i]
        /\ (\E k \in DOMAIN request[j].rows : TooWide(request[j].rows[k]))
             => TooWide(request[j].rows[i])
        /\ \/ TooWide(request[j].rows[i])
           \/ \A k \in DOMAIN request[j].rows :
                Bytes(request[j].rows[k]) <= Bytes(request[j].rows[i])
  BY <1>2, Stands DEF Shape
<1>5. row \in Row
  BY <1>2, <1>3
<1>6. ~TooWide(row) /\ Bytes(row) <= Bytes(Shape(j))
  BY <1>1, <1>3, <1>4
<1>7. PoolOf(row.target) = Pool(j)
  BY <1>2, <1>3, <1>4 DEF Pool
<1>8. Bytes(row) \in Nat
  BY <1>5, GovernorAssumption DEF Bytes, Priced
<1>9. QED
  BY <1>1, <1>5, <1>6, <1>7, <1>8

\* No dense register wider than the ceiling executes, in any place of a batch.
THEOREM CeilingAlwaysObeyed == Spec => []CeilingObeyed
<1>1. GInv => CeilingObeyed
  <2> SUFFICES ASSUME GInv, NEW j \in Job, at[j] # 0, NEW row,
                      row = request[j].rows[at[j]], row.dense
               PROVE  row.qubits <= MaxQubits
    BY DEF CeilingObeyed
  <2>1. row \in Row /\ ~(row.qubits > MaxQubits)
    BY RunningRow DEF TooWide
  <2>2. row.qubits \in Nat /\ MaxQubits \in Nat
    BY <2>1, GovernorAssumption
  <2>3. QED
    BY <2>1, <2>2
<1>2. QED
  BY <1>1, Invariance, PTL

\* Amounts that are at most m times others add up to at most m times as much.
LEMMA TotalScaled ==
  ASSUME NEW S, IsFiniteSet(S), NEW m \in Nat, NEW f, NEW g,
         \A x \in S : f[x] \in Nat /\ g[x] \in Nat /\ g[x] <= m * f[x]
  PROVE  Total(g, S) <= m * Total(f, S)
<1> DEFINE Holds(T) == Total(g, T) <= m * Total(f, T)
           Bad == {n \in Nat : \E T \in SUBSET S : Cardinality(T) = n /\ ~Holds(T)}
<1>1. Bad = {}
  <2> SUFFICES ASSUME Bad # {} PROVE FALSE
    OBVIOUS
  <2>1. PICK n \in Bad : \A k \in Bad : n <= k
    <3>1. Bad \in SUBSET Nat
      OBVIOUS
    <3> HIDE DEF Bad
    <3>2. QED
      BY <3>1, Least
  <2>2. PICK T \in SUBSET S : Cardinality(T) = n /\ ~Holds(T)
    BY <2>1
  <2>3. IsFiniteSet(T)
    BY FS_Subset
  <2>4. T # {}
    <3>1. Total(g, {}) = 0 /\ Total(f, {}) = 0
      BY TotalEmpty
    <3>2. Holds({})
      BY <3>1
    <3>3. QED
      BY <2>2, <3>2
  <2>5. PICK x \in T : TRUE
    BY <2>4
  <2> DEFINE R == T \ {x}
  <2>6. IsFiniteSet(R) /\ Cardinality(R) = n - 1 /\ n \in Nat
    BY <2>2, <2>3, FS_RemoveElement
  <2>7. Cardinality(R) \in Nat
    BY <2>6, FS_CardinalityType
  <2>8. Holds(R)
    <3>1. n - 1 \in Nat /\ ~(n <= n - 1)
      BY <2>6, <2>7
    <3>2. n - 1 \notin Bad
      BY <2>1, <3>1
    <3>3. R \in SUBSET S
      OBVIOUS
    <3> HIDE DEF R, Holds
    <3>4. QED
      BY <2>6, <3>1, <3>2, <3>3
  <2>9. /\ Total(g, R \cup {x}) = Total(g, R) + g[x]
        /\ Total(f, R \cup {x}) = Total(f, R) + f[x]
    <3>1. /\ x \notin R
          /\ \A y \in R : g[y] \in Nat /\ f[y] \in Nat
          /\ g[x] \in Nat /\ f[x] \in Nat
      OBVIOUS
    <3> HIDE DEF R
    <3>2. QED
      BY <2>6, <3>1, TotalWith
  <2>10. R \cup {x} = T
    OBVIOUS
  <2>11. Total(g, R) \in Nat /\ Total(f, R) \in Nat
    BY <2>6, TotalType
  <2>12. m * (Total(f, R) + f[x]) = m * Total(f, R) + m * f[x]
    BY <2>11
  <2>13. g[x] \in Nat /\ m * f[x] \in Nat /\ g[x] <= m * f[x] /\ m * Total(f, R) \in Nat
    BY <2>11
  <2>14. Total(g, T) <= m * Total(f, T)
    <3>1. Total(g, R) <= m * Total(f, R)
      BY <2>8
    <3> HIDE DEF R
    <3>2. Total(g, T) = Total(g, R) + g[x] /\ Total(f, T) = Total(f, R) + f[x]
      BY <2>9, <2>10
    <3>3. m * Total(f, T) = m * Total(f, R) + m * f[x]
      BY <2>12, <3>2
    <3>4. Total(g, R) + g[x] <= m * Total(f, R) + m * f[x]
      BY <2>11, <2>13, <3>1
    <3>5. QED
      BY <3>2, <3>3, <3>4
  <2>15. QED
    BY <2>2, <2>14
<1>2. Holds(S)
  BY <1>1, FS_CardinalityType
<1>3. QED
  BY <1>2

\* A number of MiB holds at least the bytes it was computed for.
LEMMA MibCovers ==
  ASSUME NEW bytes \in Nat
  PROVE  bytes <= Mib * ToMib(bytes)
<1>1. Mib \in Nat \ {0}
  BY GovernorAssumption
<1> DEFINE q == (bytes + Mib - 1) \div Mib
           r == (bytes + Mib - 1) % Mib
<1>2. bytes + Mib - 1 = Mib * q + r /\ r \in 0 .. Mib - 1 /\ q \in Int
  BY <1>1
<1> HIDE DEF q, r
<1>3. Mib * q \in Int
  BY <1>1, <1>2
<1>4. bytes <= Mib * q
  BY <1>1, <1>2, <1>3
<1>5. ToMib(bytes) = IF bytes = 0 THEN 1 ELSE q
  BY DEF ToMib, CeilDiv, q
<1>6. QED
  BY <1>1, <1>4, <1>5

\* What executes in a pool at any time is covered by the budget of the pool.
THEOREM ResidentAlwaysCovered == Spec => []ResidentCovered
<1>1. GInv => ResidentCovered
  <2> SUFFICES ASSUME GInv, NEW p \in DOMAIN capacity
               PROVE  Total(Resident, In(p)) <= Budget(p) * Mib
    BY DEF ResidentCovered
  <2> USE DEF GInv
  <2>1. \A j \in In(p) : /\ j \in HoldersOf(p)
                         /\ Resident[j] \in Nat /\ Need[j] \in Nat
                         /\ Resident[j] <= Mib * Need[j]
    <3> SUFFICES ASSUME NEW j \in Job, at[j] # 0, PoolOf(request[j].rows[at[j]].target) = p
                 PROVE  /\ j \in HoldersOf(p)
                        /\ Resident[j] \in Nat /\ Need[j] \in Nat
                        /\ Resident[j] <= Mib * Need[j]
      BY DEF In
    <3> DEFINE row == request[j].rows[at[j]]
    <3>1. /\ Bytes(row) \in Nat /\ Bytes(row) <= Bytes(Shape(j))
          /\ Pool(j) = p /\ "memory" \in held[j]
          /\ Bytes(Shape(j)) <= capacity[p]
      <4>1. PoolOf(row.target) = p
        OBVIOUS
      <4> HIDE DEF row
      <4>2. row = request[j].rows[at[j]]
        BY DEF row
      <4>3. QED
        BY <4>1, <4>2, RunningRow DEF Fits
    <3>2. Resident[j] = Bytes(row) /\ Need[j] = Permits(j)
      BY DEF Resident, Need
    <3> HIDE DEF row
    <3>3. Bytes(Shape(j)) \in Nat /\ capacity[p] \in Nat /\ Permits(j) \in Nat
      BY <3>1, ShapeType, PermitsType, GovernorAssumption DEF TypeOK
    <3>4. Bytes(Shape(j)) <= Mib * Permits(j)
      <4>1. CASE Permits(j) = ToMib(Bytes(Shape(j)))
        BY <3>3, <4>1, MibCovers
      <4>2. CASE Permits(j) = Budget(p)
        <5>1. capacity[p] <= Mib * Permits(j)
          BY <3>3, <4>2, MibCovers DEF Budget
        <5>2. Mib * Permits(j) \in Nat
          BY <3>3, GovernorAssumption
        <5>3. QED
          BY <3>1, <3>3, <5>1, <5>2
      <4>3. QED
        BY <3>1, <4>1, <4>2 DEF Permits, Min2
    <3>5. Mib * Permits(j) \in Nat
      BY <3>3, GovernorAssumption
    <3>6. QED
      BY <3>1, <3>2, <3>3, <3>4, <3>5 DEF HoldersOf
  <2>2. /\ IsFiniteSet(HoldersOf(p)) /\ IsFiniteSet(In(p)) /\ In(p) \in SUBSET HoldersOf(p)
        /\ Mib \in Nat
    BY <2>1, GovernorAssumption, FS_Subset DEF HoldersOf, In
  <2>3. Total(Resident, In(p)) <= Mib * Total(Need, In(p))
    BY <2>1, <2>2, TotalScaled
  <2>4. \A j \in HoldersOf(p) : Need[j] \in Nat
    BY PermitsType DEF HoldersOf, Need
  <2>5. Total(Need, In(p)) <= Total(Need, HoldersOf(p))
    <3>1. \A j \in In(p) : Need[j] \in Nat /\ Need[j] <= Need[j]
      BY <2>1
    <3>2. QED
      BY <2>2, <2>4, <3>1, TotalShrink
  <2>6. /\ memory[p] + Total(Need, HoldersOf(p)) = Budget(p)
        /\ memory[p] \in Nat /\ Budget(p) \in Nat
    BY Accounts, BudgetType DEF MemoryExact, TypeOK
  <2>7. /\ Total(Need, HoldersOf(p)) \in Nat /\ Total(Need, In(p)) \in Nat
        /\ Total(Resident, In(p)) \in Nat
    BY <2>1, <2>2, <2>4, TotalType
  <2>8. Total(Need, In(p)) <= Budget(p)
    BY <2>5, <2>6, <2>7
  <2>9. Mib * Total(Need, In(p)) <= Mib * Budget(p)
    BY <2>2, <2>6, <2>7, <2>8
  <2>10. Mib * Total(Need, In(p)) \in Nat /\ Mib * Budget(p) \in Nat
         /\ Mib * Budget(p) = Budget(p) * Mib
    BY <2>2, <2>6, <2>7
  <2>11. QED
    BY <2>3, <2>7, <2>9, <2>10
<1>2. QED
  BY <1>1, Invariance, PTL

\* Nobody is refused as busy while no other handler holds anything.
THEOREM NeverBusyOnIdleServer == Spec => NeverBusyAlone
<1>1. ASSUME GInv, [Next]_vars, NEW j \in Job, outcome'[j] = "Busy", outcome[j] # "Busy"
      PROVE  \E k \in Job \ {j} : held[k] # {}
  <2> USE DEF GInv
  <2>1. \/ TakeMemory(j) /\ pc[j] = "memory" /\ Permits(j) > memory[Pool(j)]
        \/ TakeSlot(j) /\ pc[j] = "slot" /\ slots = 0
    <3>1. outcome' # outcome
      BY <1>1
    <3>2. PICK k \in Job : \/ Price(k) \/ Measure(k) \/ TakeMemory(k) \/ TakeSlot(k)
                           \/ AskGate(k) \/ Reply(k)
      BY <1>1, <3>1 DEF Next, vars, Submit, Execute, Stop, DropMemory, DropSlot,
         DropGrant, Shift
    <3>3. ASSUME NEW from, NEW why \in Refusals, Refuse(k, from, why)
          PROVE  why = "Busy" /\ k = j /\ pc[j] = from
      BY <1>1, <3>3 DEF Refuse, Goes, TypeOK
    <3>4. {"ExceedsCapacity", "TooManyQubits", "Unpriceable", "MachinePressure",
           "HostBudget", "Busy"} = Refusals
      BY DEF Refusals
    <3>5. ~Price(k) /\ ~Measure(k) /\ ~AskGate(k) /\ ~Reply(k)
      <4>1. ~Price(k)
        BY <1>1, <3>1, <3>3, <3>4 DEF Price
      <4>2. ~Measure(k)
        BY <1>1, <3>1, <3>3, <3>4 DEF Measure
      <4>3. ~AskGate(k)
        BY <1>1, <3>1, <3>3, <3>4 DEF AskGate
      <4>4. ~Reply(k)
        BY <1>1 DEF Reply, TypeOK
      <4>5. QED
        BY <4>1, <4>2, <4>3, <4>4
    <3>6. CASE TakeMemory(k)
      BY <1>1, <3>1, <3>3, <3>4, <3>6 DEF TakeMemory, Goes
    <3>7. CASE TakeSlot(k)
      BY <1>1, <3>1, <3>3, <3>4, <3>7 DEF TakeSlot, Goes
    <3>8. QED
      BY <3>2, <3>5, <3>6, <3>7
  <2>2. CASE pc[j] = "memory" /\ Permits(j) > memory[Pool(j)]
    <3>1. held[j] = {} /\ Pool(j) \in DOMAIN capacity
      BY <1>1, <2>2 DEF Stages, Stage, Passed, Knows, Fits
    <3>2. Permits(j) \in Nat /\ Permits(j) <= Budget(Pool(j)) /\ Budget(Pool(j)) \in Nat
      BY <1>1, <3>1, PermitsType, BudgetType
    <3>3. HoldersOf(Pool(j)) # {}
      <4>1. memory[Pool(j)] + Total(Need, HoldersOf(Pool(j))) = Budget(Pool(j))
            /\ memory[Pool(j)] \in Nat
        BY <1>1, <3>1, Accounts DEF MemoryExact, TypeOK
      <4>2. memory[Pool(j)] # Budget(Pool(j))
        BY <2>2, <3>2, <4>1
      <4>3. Total(Need, HoldersOf(Pool(j))) # 0
        BY <3>2, <4>1, <4>2
      <4>4. QED
        BY <4>3, TotalEmpty
    <3>4. QED
      BY <3>1, <3>3 DEF HoldersOf
  <2>3. CASE pc[j] = "slot" /\ slots = 0
    <3>1. held[j] = {"memory"}
      BY <1>1, <2>3 DEF Stages, Stage
    <3>2. Cardinality(SlotHolders) # 0
      BY <1>1, <2>3, SlotsType
    <3>3. SlotHolders # {}
      BY <3>2, FS_EmptySet
    <3>4. QED
      BY <3>1, <3>3 DEF SlotHolders
  <2>4. QED
    BY <2>1, <2>2, <2>3
<1>2. GInv /\ [Next]_vars =>
        \A j \in Job : (outcome'[j] = "Busy" /\ outcome[j] # "Busy")
                         => \E k \in Job \ {j} : held[k] # {}
  BY <1>1
<1>3. QED
  BY <1>2, Invariance, PTL DEF Spec, NeverBusyAlone
===========================================================================
