-------------------------- MODULE HostGateProofs --------------------------
(***************************************************************************)
(* What holds of the host gate for every process table, every set of axes, *)
(* requests and budgets, and every number of restarts.                     *)
(*                                                                         *)
(* The proofs are about ledger values first: each operation of a           *)
(* transaction keeps a ledger sound (within its caps, and without amounts  *)
(* that no record carries).  The steps of the system are compositions of   *)
(* those operations.                                                       *)
(***************************************************************************)
EXTENDS HostGate, TLAPS, FiniteSetTheorems, WellFoundedInduction

-----------------------------------------------------------------------------
(* Totals.                                                                 *)

\* What it means to be a unit, without the union.
LEMMA UnitsMember ==
  ASSUME NEW S, NEW f, NEW u
  PROVE  u \in Units(f, S) <=>
           \E h \in S : \E i \in 1 .. f[h] : u = <<h, i>>
  BY DEF Units

\* The units of one owner between two counts are as many as the difference.
LEMMA Strip ==
  ASSUME NEW h, NEW m \in Nat, NEW n \in Nat, m <= n
  PROVE  /\ IsFiniteSet({h} \X (m + 1 .. n))
         /\ Cardinality({h} \X (m + 1 .. n)) = n - m
<1>1. IsFiniteSet({h}) /\ Cardinality({h}) = 1
  BY FS_Singleton
<1>2. IsFiniteSet(m + 1 .. n) /\ Cardinality(m + 1 .. n) = n - m
  <2>1. m + 1 \in Int /\ n \in Int
    OBVIOUS
  <2>2. /\ IsFiniteSet(m + 1 .. n)
        /\ Cardinality(m + 1 .. n) = IF m + 1 > n THEN 0 ELSE n - (m + 1) + 1
    BY <2>1, FS_Interval
  <2>3. QED
    BY <2>2
<1>3. QED
  BY <1>1, <1>2, FS_Product

\* A finite set of owners with natural amounts has a natural total.
LEMMA TotalType ==
  ASSUME NEW S, IsFiniteSet(S), NEW f, \A h \in S : f[h] \in Nat
  PROVE  /\ IsFiniteSet(Units(f, S))
         /\ Total(f, S) \in Nat
<1> DEFINE strip == [h \in S |-> {h} \X (1 .. f[h])]
           Strips == {strip[h] : h \in S}
<1>1. strip \in Surjection(S, Strips)
  BY DEF Surjection
<1>2. IsFiniteSet(Strips)
  BY <1>1, FS_Surjection
<1>3. \A T \in Strips : IsFiniteSet(T)
  <2> SUFFICES ASSUME NEW h \in S PROVE IsFiniteSet({h} \X (1 .. f[h]))
    OBVIOUS
  <2>1. IsFiniteSet({h} \X (0 + 1 .. f[h]))
    <3>1. 0 \in Nat /\ f[h] \in Nat /\ 0 <= f[h]
      OBVIOUS
    <3>2. QED
      BY <3>1, Strip
  <2>2. 0 + 1 = 1
    OBVIOUS
  <2>3. QED
    BY <2>1, <2>2
<1>4. IsFiniteSet(UNION Strips)
  BY <1>2, <1>3, FS_UNION
<1>5. Units(f, S) = UNION Strips
  BY DEF Units
<1>6. QED
  BY <1>4, <1>5, FS_CardinalityType DEF Total

\* Adding an owner's growth: if the owners of T other than h are owners of S
\* that hold no more than before, and h, an owner of both or a new one, holds
\* at most w more, the total grows by at most w.
LEMMA TotalGrow ==
  ASSUME NEW S, IsFiniteSet(S), NEW T, NEW f, NEW g,
         \A x \in S : f[x] \in Nat, \A x \in T : g[x] \in Nat,
         NEW h, NEW w \in Nat,
         \A x \in T \ {h} : x \in S /\ g[x] <= f[x],
         h \in T => g[h] <= (IF h \in S THEN f[h] ELSE 0) + w,
         IsFiniteSet(T)
  PROVE  Total(g, T) <= Total(f, S) + w
<1> DEFINE m == IF h \in S THEN f[h] ELSE 0
           New == {h} \X (m + 1 .. m + w)
<1>0. m \in Nat
  OBVIOUS
<1>1. IsFiniteSet(New) /\ Cardinality(New) = w
  <2>1. m + w \in Nat /\ m <= m + w /\ (m + w) - m = w
    BY <1>0
  <2>2. QED
    BY <1>0, <2>1, Strip
<1>2. IsFiniteSet(Units(f, S)) /\ Total(f, S) \in Nat
  BY TotalType
<1>3. Units(g, T) \subseteq Units(f, S) \cup New
  <2> SUFFICES ASSUME NEW x \in T, NEW i \in 1 .. g[x]
               PROVE  <<x, i>> \in Units(f, S) \cup New
    BY UnitsMember
  <2>1. CASE x # h
    <3>1. x \in S /\ i \in 1 .. f[x]
      BY <2>1
    <3>2. QED
      BY <3>1, UnitsMember
  <2>2. CASE x = h /\ i <= m
    <3>1. h \in S /\ i \in 1 .. f[h]
      BY <2>2, <1>0
    <3>2. QED
      BY <2>2, <3>1, UnitsMember
  <2>3. CASE x = h /\ ~(i <= m)
    <3>1. i \in m + 1 .. m + w
      BY <2>3, <1>0
    <3>2. QED
      BY <2>3, <3>1
  <2>4. QED
    BY <2>1, <2>2, <2>3
<1>4. /\ IsFiniteSet(Units(f, S) \cup New)
      /\ Cardinality(Units(f, S) \cup New) <= Total(f, S) + w
  <2>1. /\ IsFiniteSet(Units(f, S) \cup New)
        /\ Cardinality(Units(f, S) \cup New)
             = Cardinality(Units(f, S)) + Cardinality(New)
                 - Cardinality(Units(f, S) \cap New)
    BY <1>1, <1>2, FS_Union
  <2>2. Cardinality(Units(f, S) \cap New) \in Nat
    BY <1>2, FS_Intersection, FS_CardinalityType
  <2>3. QED
    BY <1>1, <1>2, <2>1, <2>2 DEF Total
<1>5. Cardinality(Units(g, T)) <= Cardinality(Units(f, S) \cup New)
  BY <1>3, <1>4, FS_Subset
<1>6. Total(g, T) \in Nat /\ Cardinality(Units(f, S) \cup New) \in Nat
  BY <1>4, TotalType, FS_CardinalityType
<1>7. QED
  BY <1>2, <1>4, <1>5, <1>6 DEF Total

\* Fewer owners holding no more have no larger a total.
LEMMA TotalShrink ==
  ASSUME NEW S, IsFiniteSet(S), NEW T \in SUBSET S, NEW f, NEW g,
         \A x \in S : f[x] \in Nat, \A x \in T : g[x] \in Nat,
         \A x \in T : g[x] <= f[x]
  PROVE  Total(g, T) <= Total(f, S)
<1>1. IsFiniteSet(Units(f, S))
  BY TotalType
<1>2. Units(g, T) \subseteq Units(f, S)
  <2> SUFFICES ASSUME NEW x \in T, NEW i \in 1 .. g[x]
               PROVE  <<x, i>> \in Units(f, S)
    BY UnitsMember
  <2>1. x \in S /\ i \in 1 .. f[x]
    OBVIOUS
  <2>2. QED
    BY <2>1, UnitsMember
<1>3. QED
  BY <1>1, <1>2, FS_Subset DEF Total

\* Returning w units that h really holds lowers the total by exactly w.
LEMMA TotalReturn ==
  ASSUME NEW S, IsFiniteSet(S), NEW f, NEW g,
         \A x \in S : f[x] \in Nat /\ g[x] \in Nat,
         NEW h \in S, NEW w \in Nat, w <= f[h], g[h] = f[h] - w,
         \A x \in S \ {h} : g[x] = f[x]
  PROVE  Total(g, S) = Total(f, S) - w
<1> DEFINE Gone == {h} \X (g[h] + 1 .. f[h])
<1>1. IsFiniteSet(Gone) /\ Cardinality(Gone) = w
  <2>1. g[h] \in Nat /\ f[h] \in Nat /\ g[h] <= f[h] /\ f[h] - g[h] = w
    OBVIOUS
  <2>2. QED
    BY <2>1, Strip
<1>2. IsFiniteSet(Units(f, S)) /\ Total(f, S) \in Nat
  BY TotalType
<1>3. Gone \subseteq Units(f, S)
  <2> SUFFICES ASSUME NEW i \in g[h] + 1 .. f[h]
               PROVE  <<h, i>> \in Units(f, S)
    OBVIOUS
  <2>1. i \in 1 .. f[h]
    OBVIOUS
  <2>2. QED
    BY <2>1, UnitsMember
<1>4. Units(g, S) = Units(f, S) \ Gone
  <2>1. ASSUME NEW x \in S, NEW i \in 1 .. g[x]
        PROVE  <<x, i>> \in Units(f, S) \ Gone
    <3>1. i \in 1 .. f[x]
      OBVIOUS
    <3>2. <<x, i>> \in Units(f, S)
      BY <3>1, UnitsMember
    <3>3. <<x, i>> \notin Gone
      OBVIOUS
    <3>4. QED
      BY <3>2, <3>3
  <2>2. ASSUME NEW x \in S, NEW i \in 1 .. f[x], <<x, i>> \notin Gone
        PROVE  <<x, i>> \in Units(g, S)
    <3>1. i \in 1 .. g[x]
      BY <2>2
    <3>2. QED
      BY <3>1, UnitsMember
  <2>3. QED
    BY <2>1, <2>2, UnitsMember
<1>5. Cardinality(Units(g, S)) = Cardinality(Units(f, S))
                                   - Cardinality(Units(f, S) \cap Gone)
  BY <1>2, <1>4, FS_Difference
<1>6. Units(f, S) \cap Gone = Gone
  BY <1>3
<1>7. QED
  BY <1>1, <1>5, <1>6 DEF Total

\* Nobody holds nothing.
LEMMA TotalEmpty ==
  ASSUME NEW f
  PROVE  Total(f, {}) = 0
<1>1. Units(f, {}) = {}
  BY DEF Units
<1>2. QED
  BY <1>1, FS_EmptySet DEF Total

\* Who counts no more than before counts the same.
LEMMA TotalSame ==
  ASSUME NEW S, NEW f, NEW g, \A x \in S : f[x] = g[x]
  PROVE  Total(f, S) = Total(g, S)
<1>1. ASSUME NEW x \in S, NEW i \in 1 .. f[x]
      PROVE  <<x, i>> \in Units(g, S)
  <2>1. i \in 1 .. g[x]
    OBVIOUS
  <2>2. QED
    BY <2>1, UnitsMember
<1>2. ASSUME NEW x \in S, NEW i \in 1 .. g[x]
      PROVE  <<x, i>> \in Units(f, S)
  <2>1. i \in 1 .. f[x]
    OBVIOUS
  <2>2. QED
    BY <2>1, UnitsMember
<1>3. Units(f, S) \subseteq Units(g, S)
  BY <1>1, UnitsMember
<1>4. Units(g, S) \subseteq Units(f, S)
  BY <1>2, UnitsMember
<1>5. Units(f, S) = Units(g, S)
  BY <1>3, <1>4
<1>6. QED
  BY <1>5 DEF Total

\* A new owner adds what it holds.
LEMMA TotalWith ==
  ASSUME NEW S, IsFiniteSet(S), NEW f, NEW h, h \notin S,
         \A x \in S : f[x] \in Nat, f[h] \in Nat
  PROVE  Total(f, S \cup {h}) = Total(f, S) + f[h]
<1> DEFINE Own == {h} \X (1 .. f[h])
<1>1. IsFiniteSet(Own) /\ Cardinality(Own) = f[h]
  <2>1. 0 \in Nat /\ 0 <= f[h] /\ 0 + 1 = 1 /\ f[h] - 0 = f[h]
    OBVIOUS
  <2>2. /\ IsFiniteSet({h} \X (0 + 1 .. f[h]))
        /\ Cardinality({h} \X (0 + 1 .. f[h])) = f[h] - 0
    BY <2>1, Strip
  <2>3. QED
    BY <2>1, <2>2
<1>2. IsFiniteSet(Units(f, S)) /\ Total(f, S) \in Nat
  BY TotalType
<1>3. Units(f, S \cup {h}) = Units(f, S) \cup Own
  BY UnitsMember
<1>4. Units(f, S) \cap Own = {}
  BY UnitsMember
<1>5. Cardinality(Units(f, S) \cup Own)
        = Cardinality(Units(f, S)) + Cardinality(Own)
            - Cardinality(Units(f, S) \cap Own)
  BY <1>1, <1>2, FS_Union
<1>6. Cardinality(Units(f, S) \cap Own) = 0
  BY <1>4, FS_EmptySet
<1>7. Cardinality(Units(f, S \cup {h})) = Cardinality(Units(f, S) \cup Own)
  BY <1>3
<1>8. Cardinality(Units(f, S)) \in Nat
  BY <1>2 DEF Total
<1>9. Cardinality(Units(f, S \cup {h})) = Cardinality(Units(f, S)) + f[h]
  BY <1>1, <1>5, <1>6, <1>7, <1>8
<1>10. QED
  BY <1>9 DEF Total

-----------------------------------------------------------------------------

\* A ledger that no operation has overspent, and whose amounts are those of
\* its records.
Sound(l) ==
  /\ l \in Ledger
  /\ \A h \in HolderId : h \notin l.held => l.amounts[h] = Zero
  /\ \A a \in Axis : Charged(l, a) <= l.caps[a]

\* A wrapper has at most one grant that it may still release or transfer, and
\* none before it asked.
OneGrant ==
  \A w \in Wrapper :
    /\ run[w].phase = "idle" => \A g \in grants : g.pid = w => g.state # "armed"
    /\ \A g, k \in grants : (g.pid = w /\ k.pid = w
                              /\ g.state = "armed" /\ k.state = "armed") => g = k

\* A wrapper's armed grant is covered by its record, so that moving it frees
\* what it then charges.  (A client's may not be: only a wrapper transfers.)
Backed ==
  \A g \in grants :
    /\ Up(g.pid)
    /\ (g.pid \in Wrapper /\ g.state = "armed") =>
         /\ file.instance = boot /\ Me(g.pid) \in file.held
         /\ \A a \in Axis : g.amounts[a] <= file.amounts[Me(g.pid)][a]

\* The ledger is of this boot or an earlier one; records, and the identities
\* that wrappers have probed, are of incarnations that there have been.
BootInv ==
  /\ file.instance <= boot
  /\ NoRecordFromAnotherBoot
  /\ \A w \in Wrapper : \A h \in run[w].to : h[2] <= proc[h[1]].start

BudgetInv ==
  /\ Sound(file)
  /\ AdvisoryNeverSpends
  /\ Mode = {"enforce"} => file.advisory = {}
  /\ OneGrant
  /\ Backed

\* A transfer drops the advisory flag of what it moves, so the budget needs
\* that whoever transfers is enforcing.
Unmixed == Wrapper = {} \/ Mode = {"enforce"}

LEMMA ZeroType == Zero \in Amounts
  BY HostGateAssumption DEF Zero, Amounts

LEMMA HolderIdFinite == IsFiniteSet(HolderId)
<1>1. IsFiniteSet(Pid) /\ IsFiniteSet(0 .. MaxStart)
  BY HostGateAssumption, FS_Interval
<1>2. QED
  BY <1>1, FS_Product DEF HolderId

\* The saturating operations stay within the width of an amount.
LEMMA Saturation ==
  ASSUME NEW x \in 0 .. Top, NEW y \in 0 .. Top
  PROVE  /\ SatAdd(x, y) \in 0 .. Top
         /\ SatAdd(x, y) <= x + y
         /\ x <= SatAdd(x, y) /\ y <= SatAdd(x, y)
         /\ SatSub(x, y) \in 0 .. Top
         /\ SatSub(x, y) <= x
         /\ y <= x => SatSub(x, y) = x - y
  BY HostGateAssumption DEF SatAdd, SatSub, Min2

\* What a ledger charges on an axis is a number.
LEMMA ChargedType ==
  ASSUME NEW l \in Ledger, NEW a \in Axis
  PROVE  /\ Enforcing(l) \in SUBSET HolderId /\ IsFiniteSet(Enforcing(l))
         /\ \A h \in HolderId : OnAxis(l, a)[h] \in 0 .. Top
         /\ \A h \in HolderId : OnAxis(l, a)[h] \in Nat
         /\ Charged(l, a) \in Nat
         /\ l.caps[a] \in 0 .. Top /\ l.caps[a] \in Nat
<1>1. Enforcing(l) \in SUBSET HolderId
  BY DEF Ledger, Enforcing
<1>2. IsFiniteSet(Enforcing(l))
  BY <1>1, HolderIdFinite, FS_Subset
<1>3. \A h \in HolderId : OnAxis(l, a)[h] \in 0 .. Top
  BY DEF Ledger, Amounts, OnAxis
<1>4. \A h \in HolderId : OnAxis(l, a)[h] \in Nat
  BY <1>3, HostGateAssumption
<1>5. Charged(l, a) \in Nat
  BY <1>1, <1>2, <1>4, TotalType DEF Charged
<1>6. l.caps[a] \in 0 .. Top /\ l.caps[a] \in Nat
  BY HostGateAssumption DEF Ledger, Amounts
<1>7. QED
  BY <1>1, <1>2, <1>3, <1>4, <1>5, <1>6

\* A ledger whose enforcing records are some of another's, none of them
\* larger, charges no more.
LEMMA ChargedShrinks ==
  ASSUME NEW l \in Ledger, NEW m \in Ledger, NEW a \in Axis,
         Enforcing(m) \subseteq Enforcing(l),
         \A h \in Enforcing(m) : m.amounts[h][a] <= l.amounts[h][a]
  PROVE  Charged(m, a) <= Charged(l, a)
<1>1. /\ Enforcing(l) \in SUBSET HolderId /\ IsFiniteSet(Enforcing(l))
      /\ Enforcing(m) \in SUBSET HolderId
      /\ \A h \in HolderId : OnAxis(l, a)[h] \in Nat
      /\ \A h \in HolderId : OnAxis(m, a)[h] \in Nat
  BY ChargedType
<1>2. \A h \in Enforcing(m) : OnAxis(m, a)[h] <= OnAxis(l, a)[h]
  BY <1>1 DEF OnAxis
<1>3. Total(OnAxis(m, a), Enforcing(m)) <= Total(OnAxis(l, a), Enforcing(l))
  BY <1>1, <1>2, TotalShrink
<1>4. QED
  BY <1>3 DEF Charged

\* Nothing held, nothing charged.
LEMMA EmptyIsFree ==
  ASSUME NEW l \in Ledger, l.held = {}, NEW a \in Axis
  PROVE  Charged(l, a) <= l.caps[a]
<1>1. Enforcing(l) = {}
  BY DEF Enforcing
<1>2. Charged(l, a) = 0
  BY <1>1, TotalEmpty DEF Charged
<1>3. QED
  BY <1>2, ChargedType

LEMMA FreshSound ==
  ASSUME NEW b \in 0 .. MaxBoot, NEW caps \in Amounts
  PROVE  Sound(Fresh(b, caps))
<1>1. Fresh(b, caps) \in Ledger /\ Fresh(b, caps).held = {}
  BY ZeroType DEF Fresh, Ledger
<1>2. \A h \in HolderId : Fresh(b, caps).amounts[h] = Zero
  BY DEF Fresh
<1>3. QED
  BY <1>1, <1>2, EmptyIsFree DEF Sound

LEMMA WithoutFields ==
  ASSUME NEW l \in Ledger, NEW H
  PROVE  /\ Without(l, H) \in Ledger
         /\ Without(l, H).instance = l.instance
         /\ Without(l, H).caps = l.caps
         /\ Without(l, H).held = l.held \ H
         /\ Without(l, H).advisory = l.advisory \ H
         /\ Without(l, H).amounts =
              [h \in HolderId |-> IF h \in H THEN Zero ELSE l.amounts[h]]
  BY ZeroType DEF Without, Ledger

LEMMA WithoutSound ==
  ASSUME NEW l, Sound(l), NEW H
  PROVE  Sound(Without(l, H))
<1> DEFINE m == Without(l, H)
<1>1. l \in Ledger
  BY DEF Sound
<1>2. /\ m \in Ledger /\ m.caps = l.caps
      /\ m.held = l.held \ H /\ m.advisory = l.advisory \ H
      /\ m.amounts = [h \in HolderId |-> IF h \in H THEN Zero ELSE l.amounts[h]]
  BY <1>1, WithoutFields
<1> HIDE DEF m
<1>3. \A h \in HolderId : h \notin m.held => m.amounts[h] = Zero
  BY <1>2 DEF Sound
<1>4. ASSUME NEW a \in Axis PROVE Charged(m, a) <= m.caps[a]
  <2>1. Enforcing(m) \subseteq Enforcing(l) /\ Enforcing(m) \subseteq HolderId
    BY <1>1, <1>2 DEF Enforcing, Ledger
  <2>2. ASSUME NEW h \in Enforcing(m)
        PROVE  m.amounts[h][a] <= l.amounts[h][a]
    <3>1. h \notin H /\ h \in HolderId
      BY <1>2, <2>1 DEF Enforcing
    <3>2. m.amounts[h] = l.amounts[h]
      BY <1>2, <3>1
    <3>3. l.amounts[h][a] \in Nat
      BY <1>1, <3>1, HostGateAssumption DEF Ledger, Amounts
    <3>4. QED
      BY <3>2, <3>3
  <2>3. Charged(m, a) <= Charged(l, a)
    BY <1>1, <1>2, <2>1, <2>2, ChargedShrinks
  <2>4. Charged(l, a) <= l.caps[a]
    BY DEF Sound
  <2>5. QED
    BY <1>1, <1>2, <2>3, <2>4, ChargedType
<1>5. QED
  BY <1>2, <1>3, <1>4 DEF Sound, m

\* Pruning drops records and amounts, nothing else, and none that matches.
LEMMA PrunedFields ==
  ASSUME NEW l \in Ledger, NEW blind
  PROVE  /\ Pruned(l, blind) \in Ledger
         /\ Pruned(l, blind).instance = l.instance
         /\ Pruned(l, blind).held \subseteq l.held
         /\ Pruned(l, blind).advisory \subseteq l.advisory
         /\ \A h \in l.held : Matches(h, blind) => h \in Pruned(l, blind).held
         /\ \A h \in l.advisory : h \in Pruned(l, blind).held
                                     => h \in Pruned(l, blind).advisory
         /\ \A h \in HolderId : Matches(h, blind)
                                  => Pruned(l, blind).amounts[h] = l.amounts[h]
<1> DEFINE Gone == {h \in l.held : ~Matches(h, blind)}
           m == Without(l, Gone)
<1>1. /\ m \in Ledger /\ m.instance = l.instance
      /\ m.held = l.held \ Gone /\ m.advisory = l.advisory \ Gone
      /\ m.amounts = [h \in HolderId |-> IF h \in Gone THEN Zero ELSE l.amounts[h]]
  BY WithoutFields
<1>2. Pruned(l, blind) = m
  BY DEF Pruned
<1>3. \A h : Matches(h, blind) => h \notin Gone
  OBVIOUS
<1> HIDE DEF m, Gone
<1>4. QED
  BY <1>1, <1>2, <1>3

LEMMA ReconciledFields ==
  ASSUME NEW l \in Ledger, NEW caps \in Amounts
  PROVE  /\ Reconciled(l, caps) \in Ledger
         /\ Reconciled(l, caps).instance = l.instance
         /\ Reconciled(l, caps).held = l.held
         /\ Reconciled(l, caps).advisory = l.advisory
         /\ Reconciled(l, caps).amounts = l.amounts
         /\ l.held # {} => Reconciled(l, caps) = l
  BY DEF Reconciled, Ledger

\* New caps cannot strand a charge: they are adopted only when there is none.
LEMMA ReconciledSound ==
  ASSUME NEW l, Sound(l), NEW caps \in Amounts
  PROVE  Sound(Reconciled(l, caps))
<1>1. l \in Ledger
  BY DEF Sound
<1>2. CASE l.held # {}
  BY <1>1, <1>2, ReconciledFields
<1>3. CASE l.held = {}
  <2>1. /\ Reconciled(l, caps) \in Ledger
        /\ Reconciled(l, caps).held = {}
        /\ Reconciled(l, caps).amounts = l.amounts
    BY <1>1, <1>3, ReconciledFields
  <2>2. QED
    BY <1>3, <2>1, EmptyIsFree DEF Sound
<1>4. QED
  BY <1>2, <1>3

\* What a charge does to a ledger, its records first and then its amounts.
LEMMA ChargeFields ==
  ASSUME NEW l \in Ledger, NEW h \in HolderId, NEW amt \in Amounts, NEW adv
  PROVE  /\ ChargeHolder(l, h, amt, adv) \in Ledger
         /\ ChargeHolder(l, h, amt, adv).instance = l.instance
         /\ ChargeHolder(l, h, amt, adv).caps = l.caps
         /\ ChargeHolder(l, h, amt, adv).held = l.held \cup {h}
<1> DEFINE sum == [a \in Axis |-> SatAdd(l.amounts[h][a], amt[a])]
           m == ChargeHolder(l, h, amt, adv)
<1>1. sum \in Amounts
  BY Saturation DEF Ledger, Amounts
<1>2. m = [l EXCEPT !.held = @ \cup {h},
                    !.advisory = IF adv /\ h \notin l.held THEN @ \cup {h} ELSE @,
                    !.amounts[h] = sum]
  BY DEF ChargeHolder
<1> HIDE DEF sum, m
<1>3. m \in Ledger
  <2>1. /\ m.held = l.held \cup {h} /\ m.held \in SUBSET HolderId
        /\ m.advisory \in SUBSET HolderId
    BY <1>2 DEF Ledger
  <2>2. m.amounts \in [HolderId -> Amounts]
    BY <1>1, <1>2 DEF Ledger
  <2>3. QED
    BY <1>2, <2>1, <2>2 DEF Ledger
<1>4. m.instance = l.instance /\ m.caps = l.caps /\ m.held = l.held \cup {h}
  BY <1>2 DEF Ledger
<1>5. QED
  BY <1>3, <1>4 DEF m

LEMMA ChargeAmounts ==
  ASSUME NEW l \in Ledger, NEW h \in HolderId, NEW amt \in Amounts, NEW adv
  PROVE  /\ \A k \in HolderId \ {h} :
              ChargeHolder(l, h, amt, adv).amounts[k] = l.amounts[k]
         /\ \A a \in Axis :
              /\ ChargeHolder(l, h, amt, adv).amounts[h][a] <= l.amounts[h][a] + amt[a]
              /\ l.amounts[h][a] <= ChargeHolder(l, h, amt, adv).amounts[h][a]
              /\ amt[a] <= ChargeHolder(l, h, amt, adv).amounts[h][a]
<1> DEFINE sum == [a \in Axis |-> SatAdd(l.amounts[h][a], amt[a])]
           m == ChargeHolder(l, h, amt, adv)
<1>1. \A a \in Axis : l.amounts[h][a] \in 0 .. Top /\ amt[a] \in 0 .. Top
  BY DEF Ledger, Amounts
<1>2. \A a \in Axis : /\ sum[a] <= l.amounts[h][a] + amt[a]
                     /\ l.amounts[h][a] <= sum[a] /\ amt[a] <= sum[a]
  BY <1>1, Saturation
<1>3. m.amounts = [l.amounts EXCEPT ![h] = sum]
  BY DEF ChargeHolder, Ledger
<1>4. l.amounts \in [HolderId -> Amounts]
  BY DEF Ledger
<1> HIDE DEF sum, m
<1>5. m.amounts[h] = sum /\ \A k \in HolderId \ {h} : m.amounts[k] = l.amounts[k]
  BY <1>3, <1>4
<1>6. QED
  BY <1>2, <1>5 DEF m

\* A charge that price admitted, or that does not count, stays in the budget.
LEMMA ChargeSound ==
  ASSUME NEW l, Sound(l), NEW h \in HolderId, NEW amt \in Amounts,
         NEW adv \in BOOLEAN,
         adv /\ h \in l.held => h \in l.advisory,
         ~adv => \A a \in Axis : amt[a] <= SatSub(l.caps[a], Charged(l, a))
  PROVE  Sound(ChargeHolder(l, h, amt, adv))
<1> DEFINE m == ChargeHolder(l, h, amt, adv)
<1>1. l \in Ledger
  BY DEF Sound
<1>2. /\ m \in Ledger /\ m.caps = l.caps /\ m.held = l.held \cup {h}
      /\ m.advisory = IF adv /\ h \notin l.held THEN l.advisory \cup {h}
                      ELSE l.advisory
      /\ \A k \in HolderId \ {h} : m.amounts[k] = l.amounts[k]
      /\ \A a \in Axis : m.amounts[h][a] <= l.amounts[h][a] + amt[a]
  <2>1. m \in Ledger /\ m.caps = l.caps /\ m.held = l.held \cup {h}
    BY <1>1, ChargeFields
  <2>2. m.advisory = IF adv /\ h \notin l.held THEN l.advisory \cup {h}
                     ELSE l.advisory
    BY <1>1 DEF ChargeHolder, Ledger
  <2>3. /\ \A k \in HolderId \ {h} : m.amounts[k] = l.amounts[k]
        /\ \A a \in Axis : m.amounts[h][a] <= l.amounts[h][a] + amt[a]
    BY <1>1, ChargeAmounts
  <2>4. QED
    BY <2>1, <2>2, <2>3
<1> HIDE DEF m
<1>3. \A k \in HolderId : k \notin m.held => m.amounts[k] = Zero
  BY <1>2 DEF Sound
<1>4. ASSUME NEW a \in Axis PROVE Charged(m, a) <= m.caps[a]
  <2>1. /\ Enforcing(l) \in SUBSET HolderId /\ IsFiniteSet(Enforcing(l))
        /\ Enforcing(m) \in SUBSET HolderId /\ IsFiniteSet(Enforcing(m))
        /\ \A k \in HolderId : OnAxis(l, a)[k] \in Nat
        /\ \A k \in HolderId : OnAxis(m, a)[k] \in Nat
        /\ Charged(l, a) \in Nat /\ Charged(m, a) \in Nat /\ l.caps[a] \in Nat
    BY <1>1, <1>2, ChargedType
  <2>2. Charged(l, a) <= l.caps[a]
    BY DEF Sound
  <2>3. CASE adv
    <3>1. Enforcing(m) \subseteq Enforcing(l) /\ h \notin Enforcing(m)
      BY <1>2, <2>3 DEF Enforcing
    <3>2. \A k \in Enforcing(m) : m.amounts[k][a] <= l.amounts[k][a]
      BY <1>1, <1>2, <2>1, <3>1, HostGateAssumption DEF Ledger, Amounts
    <3>3. Charged(m, a) <= Charged(l, a)
      BY <1>1, <1>2, <3>1, <3>2, ChargedShrinks
    <3>4. QED
      BY <1>2, <2>1, <2>2, <3>3
  <2>4. CASE ~adv
    <3>1. amt[a] \in Nat
      BY HostGateAssumption DEF Amounts
    <3>2. \A k \in Enforcing(m) \ {h} :
            k \in Enforcing(l) /\ OnAxis(m, a)[k] <= OnAxis(l, a)[k]
      BY <1>2, <2>1, <2>4 DEF Enforcing, OnAxis
    <3>3. h \in Enforcing(m) /\ h \notin Enforcing(l) => l.amounts[h] = Zero
      BY <1>2, <2>4 DEF Enforcing, Sound
    <3>4. h \in Enforcing(m) =>
            OnAxis(m, a)[h]
              <= (IF h \in Enforcing(l) THEN OnAxis(l, a)[h] ELSE 0) + amt[a]
      BY <1>2, <3>3 DEF OnAxis, Zero
    <3>5. Total(OnAxis(m, a), Enforcing(m))
            <= Total(OnAxis(l, a), Enforcing(l)) + amt[a]
      BY <2>1, <3>1, <3>2, <3>4, TotalGrow
    <3>6. Charged(m, a) <= Charged(l, a) + amt[a]
      BY <3>5 DEF Charged
    <3>7. amt[a] <= l.caps[a] - Charged(l, a)
      BY <2>1, <2>2, <2>4 DEF SatSub
    <3>8. QED
      BY <1>2, <2>1, <3>1, <3>6, <3>7
  <2>5. QED
    BY <2>3, <2>4
<1>5. QED
  BY <1>2, <1>3, <1>4 DEF Sound, m

LEMMA DischargeFields ==
  ASSUME NEW l, Sound(l), NEW h \in HolderId, NEW amt \in Amounts,
         NEW m, m = Discharge(l, h, amt)
  PROVE  /\ m \in Ledger
         /\ m.instance = l.instance /\ m.caps = l.caps
         /\ m.held \subseteq l.held /\ l.held \ {h} \subseteq m.held
         /\ m.advisory \subseteq l.advisory
         /\ \A k \in m.held : k \in l.advisory => k \in m.advisory
         /\ \A k \in HolderId \ {h} : m.amounts[k] = l.amounts[k]
         /\ h \in l.held =>
              \A a \in Axis : m.amounts[h][a] = SatSub(l.amounts[h][a], amt[a])
         /\ \A k \in HolderId : k \notin m.held => m.amounts[k] = Zero
<1> DEFINE rest == [a \in Axis |-> SatSub(l.amounts[h][a], amt[a])]
<1>1. l \in Ledger
  BY DEF Sound
<1>2. rest \in Amounts
  BY <1>1, Saturation DEF Ledger, Amounts
<1>3. m = IF h \notin l.held THEN l
          ELSE IF rest = Zero THEN Without(l, {h})
          ELSE [l EXCEPT !.amounts[h] = rest]
  BY DEF Discharge
<1>4. \A a \in Axis : rest[a] = SatSub(l.amounts[h][a], amt[a])
  OBVIOUS
<1> HIDE DEF rest
<1>5. CASE h \notin l.held
  BY <1>1, <1>3, <1>5 DEF Sound
<1>6. CASE h \in l.held /\ rest = Zero
  <2>1. /\ m \in Ledger /\ m.instance = l.instance /\ m.caps = l.caps
        /\ m.held = l.held \ {h} /\ m.advisory = l.advisory \ {h}
        /\ m.amounts = [k \in HolderId |-> IF k \in {h} THEN Zero ELSE l.amounts[k]]
    BY <1>1, <1>3, <1>6, WithoutFields
  <2>2. m.amounts[h] = rest
    BY <1>6, <2>1
  <2>3. QED
    BY <1>4, <2>1, <2>2 DEF Sound
<1>7. CASE h \in l.held /\ rest # Zero
  <2>1. m = [l EXCEPT !.amounts[h] = rest]
    BY <1>3, <1>7
  <2>2. /\ m \in Ledger /\ m.instance = l.instance /\ m.caps = l.caps
        /\ m.held = l.held /\ m.advisory = l.advisory
        /\ m.amounts[h] = rest
        /\ \A k \in HolderId \ {h} : m.amounts[k] = l.amounts[k]
    BY <1>1, <1>2, <2>1 DEF Ledger
  <2>3. QED
    BY <1>4, <1>7, <2>2 DEF Sound
<1>8. QED
  BY <1>5, <1>6, <1>7

\* Giving tokens back cannot overspend.
LEMMA DischargeSound ==
  ASSUME NEW l, Sound(l), NEW h \in HolderId, NEW amt \in Amounts
  PROVE  Sound(Discharge(l, h, amt))
<1> DEFINE m == Discharge(l, h, amt)
<1>1. l \in Ledger
  BY DEF Sound
<1>2. /\ m \in Ledger /\ m.caps = l.caps /\ m.held \subseteq l.held
      /\ \A k \in m.held : k \in l.advisory => k \in m.advisory
      /\ \A k \in HolderId \ {h} : m.amounts[k] = l.amounts[k]
      /\ h \in l.held =>
           \A a \in Axis : m.amounts[h][a] = SatSub(l.amounts[h][a], amt[a])
      /\ \A k \in HolderId : k \notin m.held => m.amounts[k] = Zero
  BY DischargeFields
<1> HIDE DEF m
<1>3. ASSUME NEW a \in Axis PROVE Charged(m, a) <= m.caps[a]
  <2>1. Enforcing(m) \subseteq Enforcing(l) /\ Enforcing(m) \subseteq l.held
    BY <1>2 DEF Enforcing
  <2>2. ASSUME NEW k \in Enforcing(m)
        PROVE  m.amounts[k][a] <= l.amounts[k][a]
    <3>1. k \in HolderId /\ l.amounts[k][a] \in 0 .. Top /\ amt[a] \in 0 .. Top
      BY <1>1, <2>1 DEF Enforcing, Ledger, Amounts
    <3>2. CASE k = h
      <4>1. m.amounts[k][a] = SatSub(l.amounts[k][a], amt[a])
        BY <1>2, <2>1, <3>2
      <4>2. QED
        BY <3>1, <4>1, Saturation
    <3>3. CASE k # h
      BY <1>2, <3>1, <3>3, HostGateAssumption
    <3>4. QED
      BY <3>2, <3>3
  <2>3. Charged(m, a) <= Charged(l, a) /\ Charged(l, a) <= l.caps[a]
    BY <1>1, <1>2, <2>1, <2>2, ChargedShrinks DEF Sound
  <2>4. QED
    BY <1>1, <1>2, <2>3, ChargedType
<1>4. QED
  BY <1>2, <1>3 DEF Sound, m

\* What a record that counts gives up is headroom for as much.
LEMMA MoveFits ==
  ASSUME NEW l, Sound(l), NEW from \in Enforcing(l), NEW amt \in Amounts,
         \A a \in Axis : amt[a] <= l.amounts[from][a]
  PROVE  \A a \in Axis :
           amt[a] <= SatSub(Discharge(l, from, amt).caps[a],
                            Charged(Discharge(l, from, amt), a))
<1> DEFINE m == Discharge(l, from, amt)
<1>1. l \in Ledger /\ from \in HolderId /\ from \in l.held
  BY DEF Sound, Enforcing, Ledger
<1>2. /\ m \in Ledger /\ m.caps = l.caps /\ m.held \subseteq l.held
      /\ \A k \in m.held : k \in l.advisory => k \in m.advisory
      /\ \A k \in HolderId \ {from} : m.amounts[k] = l.amounts[k]
      /\ \A a \in Axis : m.amounts[from][a] = SatSub(l.amounts[from][a], amt[a])
  BY <1>1, DischargeFields
<1> HIDE DEF m
<1>3. ASSUME NEW a \in Axis PROVE amt[a] <= SatSub(m.caps[a], Charged(m, a))
  <2>1. /\ Enforcing(l) \in SUBSET HolderId /\ IsFiniteSet(Enforcing(l))
        /\ \A k \in HolderId : OnAxis(l, a)[k] \in Nat
        /\ \A k \in HolderId : OnAxis(m, a)[k] \in Nat
        /\ Charged(l, a) \in Nat /\ Charged(m, a) \in Nat /\ l.caps[a] \in Nat
        /\ Charged(l, a) <= l.caps[a]
    BY <1>1, <1>2, ChargedType DEF Sound
  <2>2. /\ amt[a] \in Nat /\ amt[a] <= OnAxis(l, a)[from]
        /\ OnAxis(m, a)[from] = OnAxis(l, a)[from] - amt[a]
    <3>1. l.amounts[from][a] \in 0 .. Top /\ amt[a] \in 0 .. Top
      BY <1>1 DEF Ledger, Amounts
    <3>2. m.amounts[from][a] = l.amounts[from][a] - amt[a]
      BY <1>2, <3>1, Saturation
    <3>3. QED
      BY <1>1, <3>1, <3>2, HostGateAssumption DEF OnAxis
  <2>3. \A k \in Enforcing(l) \ {from} : OnAxis(m, a)[k] = OnAxis(l, a)[k]
    BY <1>2, <2>1 DEF OnAxis
  <2>4. Total(OnAxis(m, a), Enforcing(l)) = Total(OnAxis(l, a), Enforcing(l)) - amt[a]
    <3>1. \A k \in Enforcing(l) : OnAxis(l, a)[k] \in Nat /\ OnAxis(m, a)[k] \in Nat
      BY <2>1
    <3>2. QED
      BY <2>1, <2>2, <2>3, <3>1, TotalReturn
  <2>5. Total(OnAxis(m, a), Enforcing(m)) <= Total(OnAxis(m, a), Enforcing(l))
    <3>1. Enforcing(m) \in SUBSET Enforcing(l)
      BY <1>2 DEF Enforcing
    <3>2. \A k \in Enforcing(l) : OnAxis(m, a)[k] \in Nat
      BY <2>1
    <3>3. \A k \in Enforcing(m) : /\ OnAxis(m, a)[k] \in Nat
                                 /\ OnAxis(m, a)[k] <= OnAxis(m, a)[k]
      BY <3>1, <3>2
    <3>4. QED
      BY <2>1, <3>1, <3>2, <3>3, TotalShrink
  <2>6. Charged(m, a) <= Charged(l, a) - amt[a]
    BY <2>4, <2>5 DEF Charged
  <2>7. QED
    BY <1>2, <2>1, <2>2, <2>6 DEF SatSub
<1>4. QED
  BY <1>3 DEF m

\* A charge that moves from a record that counts, and has it, to any other
\* needs no headroom: transfer_to prices nothing.
LEMMA MoveSound ==
  ASSUME NEW l, Sound(l), NEW from \in Enforcing(l), NEW to \in HolderId,
         NEW amt \in Amounts,
         \A a \in Axis : amt[a] <= l.amounts[from][a]
  PROVE  Sound(ChargeHolder(Discharge(l, from, amt), to, amt, FALSE))
<1> DEFINE m == Discharge(l, from, amt)
<1>1. from \in HolderId
  BY DEF Sound, Enforcing, Ledger
<1>2. Sound(m)
  BY <1>1, DischargeSound
<1>3. \A a \in Axis : amt[a] <= SatSub(m.caps[a], Charged(m, a))
  BY MoveFits
<1> HIDE DEF m
<1>4. Sound(ChargeHolder(m, to, amt, FALSE))
  BY <1>2, <1>3, ChargeSound
<1>5. QED
  BY <1>4 DEF m
---------------------------------------------------------------------------
(* The state of the system is always of its type. *)

LEMMA DischargeType ==
  ASSUME NEW l \in Ledger, NEW h \in HolderId, NEW amt \in Amounts
  PROVE  /\ Discharge(l, h, amt) \in Ledger
         /\ Discharge(l, h, amt).instance = l.instance
         /\ Discharge(l, h, amt).held \subseteq l.held
<1> DEFINE rest == [a \in Axis |-> SatSub(l.amounts[h][a], amt[a])]
<1>1. rest \in Amounts
  BY Saturation DEF Ledger, Amounts
<1>2. Discharge(l, h, amt) = IF h \notin l.held THEN l
                             ELSE IF rest = Zero THEN Without(l, {h})
                             ELSE [l EXCEPT !.amounts[h] = rest]
  BY DEF Discharge
<1> HIDE DEF rest
<1>3. [l.amounts EXCEPT ![h] = rest] \in [HolderId -> Amounts]
  BY <1>1 DEF Ledger
<1>4. /\ [l EXCEPT !.amounts[h] = rest] \in Ledger
      /\ [l EXCEPT !.amounts[h] = rest].instance = l.instance
      /\ [l EXCEPT !.amounts[h] = rest].held = l.held
  BY <1>3 DEF Ledger
<1>5. /\ Without(l, {h}) \in Ledger /\ Without(l, {h}).instance = l.instance
      /\ Without(l, {h}).held \subseteq l.held
  <2>1. Without(l, {h}) \in Ledger
    BY WithoutFields
  <2>2. Without(l, {h}).instance = l.instance
    BY WithoutFields
  <2>3. Without(l, {h}).held = l.held \ {h}
    BY WithoutFields
  <2>4. QED
    BY <2>1, <2>2, <2>3
<1>6. QED
  BY <1>2, <1>4, <1>5

\* What a transaction of this boot starts from.
LEMMA OpenedFields ==
  ASSUME TypeOK, NEW p \in Pid
  PROVE  /\ proc[p].cap \in Amounts /\ Me(p) \in HolderId
         /\ Advisory(p) \in BOOLEAN
         /\ Opened(p) \in Ledger /\ Opened(p).instance = boot
         /\ file.instance = boot => Opened(p) = file
         /\ file.instance # boot => Opened(p).held = {} /\ Opened(p).advisory = {}
         /\ Sound(file) => Sound(Opened(p))
<1>1. proc[p].cap \in Amounts /\ Me(p) \in HolderId /\ boot \in 0 .. MaxBoot
  BY HostGateAssumption DEF TypeOK, Me, HolderId
<1>2. Sound(Fresh(boot, proc[p].cap)) /\ Fresh(boot, proc[p].cap) \in Ledger
  BY <1>1, FreshSound DEF Sound
<1>3. /\ Fresh(boot, proc[p].cap).instance = boot
      /\ Fresh(boot, proc[p].cap).held = {}
      /\ Fresh(boot, proc[p].cap).advisory = {}
  BY DEF Fresh
<1>4. file \in Ledger
  BY DEF TypeOK
<1>5. Opened(p) = IF file.instance = boot THEN file ELSE Fresh(boot, proc[p].cap)
  BY DEF Opened
<1>6. QED
  BY <1>1, <1>2, <1>3, <1>4, <1>5 DEF Advisory

LEMMA IdleType ==
  ASSUME NEW w \in Wrapper
  PROVE  Idle(w) \in [phase : Phase, kid : HolderId, to : SUBSET HolderId]
  BY HostGateAssumption DEF Idle, Phase, HolderId

LEMMA DownType ==
  ASSUME NEW n \in 0 .. MaxStart
  PROVE  Down(n) \in [up : BOOLEAN, start : 0 .. MaxStart, mode : Mode, cap : Cap]
<1>1. (CHOOSE m \in Mode : TRUE) \in Mode /\ (CHOOSE c \in Cap : TRUE) \in Cap
  BY HostGateAssumption
<1>2. QED
  BY <1>1 DEF Down

\* Every variable keeps its type: in particular an amount never leaves its
\* width, whatever is charged and discharged.
THEOREM TypeCorrect == Spec => []TypeOK
<1> DEFINE ProcType == [up : BOOLEAN, start : 0 .. MaxStart, mode : Mode, cap : Cap]
           GrantType == [id : GrantId, pid : Pid, amounts : Amounts,
                         state : {"armed", "lost"}]
           RunType == [phase : Phase, kid : HolderId, to : SUBSET HolderId]
<1>1. Init => TypeOK
  <2> SUFFICES ASSUME Init PROVE TypeOK
    OBVIOUS
  <2>1. boot \in 1 .. MaxBoot
    BY HostGateAssumption DEF Init
  <2>2. file \in Ledger
    BY ZeroType, FreshSound, HostGateAssumption DEF Init, NoFile, Sound
  <2>3. proc \in [Pid -> ProcType]
    BY DownType, HostGateAssumption DEF Init
  <2>4. run \in [Wrapper -> RunType]
    BY IdleType DEF Init
  <2>5. owed \in [Pid -> Amounts] /\ grants = {}
    BY ZeroType DEF Init
  <2>6. QED
    BY <2>1, <2>2, <2>3, <2>4, <2>5 DEF TypeOK
<1>2. TypeOK /\ [Next]_vars => TypeOK'
  <2> SUFFICES ASSUME TypeOK, [Next]_vars PROVE TypeOK'
    OBVIOUS
  <2>0. /\ boot \in 1 .. MaxBoot /\ file \in Ledger /\ proc \in [Pid -> ProcType]
        /\ grants \subseteq GrantType /\ run \in [Wrapper -> RunType]
        /\ owed \in [Pid -> Amounts]
    BY DEF TypeOK
  <2>1. ASSUME NEW p \in Pid, NEW blind \in SUBSET Unreadable,
               NEW id \in GrantId, NEW req \in Request, Acquire(p, id, req, blind)
        PROVE  TypeOK'
    <3>1. Reconciled(Pruned(Opened(p), blind), proc[p].cap) \in Ledger
      BY OpenedFields, PrunedFields, ReconciledFields
    <3>2. file' \in Ledger
      BY <2>1, <3>1, OpenedFields, ChargeFields, HostGateAssumption DEF Acquire
    <3>3. FreshGrant(p, id, req) \in GrantType
      BY HostGateAssumption DEF FreshGrant
    <3>4. run' \in [Wrapper -> RunType]
      BY <2>0, <2>1 DEF Acquire, Phase
    <3>5. QED
      BY <2>0, <2>1, <3>2, <3>3, <3>4 DEF Acquire, TypeOK
  <2>2. ASSUME NEW p \in Pid, NEW blind \in SUBSET Unreadable,
               NEW g \in grants, Release(p, g, blind)
        PROVE  TypeOK'
    <3>1. file' \in Ledger
      BY <2>0, <2>2, OpenedFields, DischargeType, PrunedFields DEF Release
    <3>2. run' \in [Wrapper -> RunType]
      BY <2>0, <2>2 DEF Release, AfterRelease, Phase
    <3>3. QED
      BY <2>0, <2>2, <3>1, <3>2 DEF Release, TypeOK
  <2>3. ASSUME NEW p \in Pid, NEW blind \in SUBSET Unreadable, Capacity(p, blind)
        PROVE  TypeOK'
    <3>1. Reconciled(Pruned(Opened(p), blind), proc[p].cap) \in Ledger
      BY OpenedFields, PrunedFields, ReconciledFields
    <3>2. QED
      BY <2>0, <2>3, <3>1 DEF Capacity, TypeOK
  <2>4. ASSUME NEW w \in Wrapper, NEW blind \in SUBSET Unreadable,
               NEW g \in grants, Transfer(w, g, blind)
        PROVE  TypeOK'
    <3>0. w \in Pid /\ g.amounts \in Amounts
      BY <2>0, HostGateAssumption
    <3>1. Discharge(Opened(w), Me(w), g.amounts) \in Ledger
      BY <3>0, OpenedFields, DischargeType
    <3>2. ASSUME NEW h \in run[w].to
          PROVE  ChargeHolder(Discharge(Opened(w), Me(w), g.amounts), h,
                              g.amounts, FALSE) \in Ledger
      BY <2>0, <3>0, <3>1, ChargeFields
    <3>3. file' \in Ledger
      <4>1. CASE file' = Pruned(Discharge(Opened(w), Me(w), g.amounts), blind)
        BY <3>1, <4>1, PrunedFields
      <4>2. ASSUME NEW h \in run[w].to,
                   file' = Pruned(ChargeHolder(Discharge(Opened(w), Me(w), g.amounts),
                                               h, g.amounts, FALSE), blind)
            PROVE  file' \in Ledger
        BY <3>2, <4>2, PrunedFields
      <4>3. QED
        BY <2>4, <4>1, <4>2 DEF Transfer
    <3>4. run' \in [Wrapper -> RunType] /\ owed' \in [Pid -> Amounts]
      BY <2>0, <2>4, <3>0 DEF Transfer, Phase
    <3>5. QED
      BY <2>0, <2>4, <3>3, <3>4 DEF Transfer, TypeOK
  <2>5. ASSUME NEW p \in Pid, NEW g \in grants, ReleaseFails(p, g)
        PROVE  TypeOK'
    <3>1. [g EXCEPT !.state = "lost"] \in GrantType
      BY <2>0
    <3>2. run' \in [Wrapper -> RunType]
      BY <2>0, <2>5 DEF ReleaseFails, AfterRelease, Phase
    <3>3. QED
      BY <2>0, <2>5, <3>1, <3>2 DEF ReleaseFails, TypeOK
  <2>6. ASSUME NEW w \in Wrapper, RunStep(w)
        PROVE  TypeOK'
    <3>1. ASSUME NEW c \in Pid, Spawn(w, c) PROVE TypeOK'
      <4>1. proc[c].start + 1 \in 0 .. MaxStart /\ w \in Pid
        BY <2>0, <3>1, HostGateAssumption DEF Spawn
      <4>2. proc' \in [Pid -> ProcType]
        BY <2>0, <3>1, <4>1 DEF Spawn
      <4>3. <<c, proc[c].start + 1>> \in HolderId
        BY <4>1 DEF HolderId
      <4>4. run' \in [Wrapper -> RunType]
        BY <2>0, <3>1, <4>3 DEF Spawn, Phase
      <4>5. QED
        BY <2>0, <3>1, <4>2, <4>4 DEF Spawn, TypeOK
    <3>2. ASSUME NEW blind \in SUBSET Unreadable, ProbeChild(w, blind) PROVE TypeOK'
      <4>1. run[w].kid \in HolderId
        BY <2>0
      <4>2. <<run[w].kid[1], 0>> \in HolderId
        BY <4>1, HostGateAssumption DEF HolderId
      <4>3. (IF run[w].kid[1] \in blind THEN {<<run[w].kid[1], 0>>}
             ELSE {h \in {run[w].kid} : Alive(h)}) \in SUBSET HolderId
        BY <4>1, <4>2
      <4>4. run' \in [Wrapper -> RunType]
        BY <2>0, <3>2, <4>3 DEF ProbeChild, Phase
      <4>5. QED
        BY <2>0, <3>2, <4>4 DEF ProbeChild, TypeOK
    <3>3. CASE TransferFails(w)
      BY <2>0, <3>3 DEF TransferFails, Phase, TypeOK
    <3>4. CASE Reap(w)
      BY <2>0, <3>4 DEF Reap, Phase, TypeOK
    <3>5. QED
      BY <2>6, <3>1, <3>2, <3>3, <3>4 DEF RunStep
  <2>7. ASSUME NEW p \in Pid, NEW mode \in Mode, NEW cap \in Cap, Start(p, mode, cap)
        PROVE  TypeOK'
    <3>1. proc[p].start + 1 \in 0 .. MaxStart
      BY <2>0, <2>7, HostGateAssumption DEF Start
    <3>2. proc' \in [Pid -> ProcType]
      BY <2>0, <2>7, <3>1 DEF Start
    <3>3. QED
      BY <2>0, <2>7, <3>2 DEF Start, TypeOK
  <2>8. ASSUME NEW p \in Pid, Die(p)
        PROVE  TypeOK'
    <3>1. proc' \in [Pid -> ProcType]
      BY <2>0, <2>8, DownType DEF Die
    <3>2. run' \in [Wrapper -> RunType]
      BY <2>0, <2>8, IdleType DEF Die, Forget
    <3>3. owed' \in [Pid -> Amounts]
      BY <2>0, <2>8, ZeroType DEF Die
    <3>4. QED
      BY <2>0, <2>8, <3>1, <3>2, <3>3 DEF Die, TypeOK
  <2>9. CASE Reboot
    <3>1. boot' \in 1 .. MaxBoot
      BY <2>0, <2>9, HostGateAssumption DEF Reboot
    <3>2. proc' \in [Pid -> ProcType]
      BY <2>9, DownType, HostGateAssumption DEF Reboot
    <3>3. run' \in [Wrapper -> RunType]
      BY <2>9, IdleType DEF Reboot
    <3>4. owed' \in [Pid -> Amounts]
      BY <2>9, ZeroType DEF Reboot
    <3>5. QED
      BY <2>0, <2>9, <3>1, <3>2, <3>3, <3>4 DEF Reboot, TypeOK
  <2>10. CASE UNCHANGED vars
    BY <2>0, <2>10 DEF vars, TypeOK
  <2>11. QED
    BY <2>1, <2>2, <2>3, <2>4, <2>5, <2>6, <2>7, <2>8, <2>9, <2>10
    DEF Next, Transaction, Machine
<1>3. QED
  BY <1>1, <1>2, PTL DEF Spec
---------------------------------------------------------------------------
(* No record is carried over a restart of the machine. *)

\* The ledger l is of this boot, and all its records are of incarnations that
\* this boot has had.
Current(l) ==
  /\ l \in Ledger /\ l.instance = boot
  /\ \A h \in l.held : h[2] <= proc[h[1]].start

LEMMA CurrentOpened ==
  ASSUME TypeOK, BootInv, NEW p \in Pid
  PROVE  Current(Opened(p))
  BY OpenedFields DEF Current, BootInv, NoRecordFromAnotherBoot

LEMMA CurrentPruned ==
  ASSUME NEW l, Current(l), NEW blind
  PROVE  Current(Pruned(l, blind))
  BY PrunedFields DEF Current

LEMMA CurrentReconciled ==
  ASSUME NEW l, Current(l), NEW caps \in Amounts
  PROVE  Current(Reconciled(l, caps))
  BY ReconciledFields DEF Current

LEMMA CurrentDischarge ==
  ASSUME NEW l, Current(l), NEW h \in HolderId, NEW amt \in Amounts
  PROVE  Current(Discharge(l, h, amt))
  BY DischargeType DEF Current

LEMMA CurrentCharge ==
  ASSUME NEW l, Current(l), NEW h \in HolderId, NEW amt \in Amounts,
         NEW adv \in BOOLEAN, h[2] <= proc[h[1]].start
  PROVE  Current(ChargeHolder(l, h, amt, adv))
  BY ChargeFields DEF Current

\* A transaction leaves boot and process table alone, so a current ledger is
\* all it has to write.
LEMMA CurrentWritten ==
  ASSUME TypeOK, BootInv, Current(file'), UNCHANGED <<boot, proc>>,
         \A w \in Wrapper : run'[w].to \subseteq run[w].to
  PROVE  BootInv'
<1>1. file'.instance <= boot'
  BY DEF Current, TypeOK
<1>2. NoRecordFromAnotherBoot'
  BY DEF Current, NoRecordFromAnotherBoot
<1>3. \A w \in Wrapper : \A h \in run'[w].to : h[2] <= proc'[h[1]].start
  BY DEF BootInv
<1>4. QED
  BY <1>1, <1>2, <1>3 DEF BootInv

LEMMA BootStep ==
  ASSUME TypeOK, BootInv, [Next]_vars
  PROVE  BootInv'
<1>0. /\ boot \in 1 .. MaxBoot /\ file \in Ledger
      /\ proc \in [Pid -> [up : BOOLEAN, start : 0 .. MaxStart, mode : Mode, cap : Cap]]
      /\ \A g \in grants : g.pid \in Pid /\ g.amounts \in Amounts
      /\ run \in [Wrapper -> [phase : Phase, kid : HolderId, to : SUBSET HolderId]]
      /\ \A p \in Pid : Me(p)[1] = p /\ Me(p)[2] = proc[p].start
  BY DEF TypeOK, Me
<1>1. ASSUME NEW p \in Pid, NEW blind \in SUBSET Unreadable,
             NEW id \in GrantId, NEW req \in Request, Acquire(p, id, req, blind)
      PROVE  BootInv'
  <2> DEFINE l == Reconciled(Pruned(Opened(p), blind), proc[p].cap)
  <2>0. req \in Amounts /\ Me(p) \in HolderId /\ Advisory(p) \in BOOLEAN
        /\ proc[p].cap \in Amounts
    BY OpenedFields, HostGateAssumption
  <2>1. Current(l)
    BY <2>0, CurrentOpened, CurrentPruned, CurrentReconciled
  <2>2. Current(ChargeHolder(l, Me(p), req, Advisory(p)))
    <3> HIDE DEF l
    <3>1. Me(p)[2] <= proc[Me(p)[1]].start
      BY <1>0
    <3> QED BY <2>0, <2>1, <3>1, CurrentCharge
  <2>3. Current(file')
    BY <1>1, <2>1, <2>2 DEF Acquire
  <2>4. \A w \in Wrapper : run'[w].to \subseteq run[w].to
    BY <1>0, <1>1 DEF Acquire
  <2>5. QED
    BY <1>1, <2>3, <2>4, CurrentWritten DEF Acquire
<1>2. ASSUME NEW p \in Pid, NEW blind \in SUBSET Unreadable,
             NEW g \in grants, Release(p, g, blind)
      PROVE  BootInv'
  <2>1. Current(file')
    BY <1>0, <1>2, OpenedFields, CurrentOpened, CurrentDischarge, CurrentPruned
    DEF Release
  <2>2. \A w \in Wrapper : run'[w].to \subseteq run[w].to
    BY <1>0, <1>2 DEF Release, AfterRelease
  <2>3. QED
    BY <1>2, <2>1, <2>2, CurrentWritten DEF Release
<1>3. ASSUME NEW p \in Pid, NEW blind \in SUBSET Unreadable, Capacity(p, blind)
      PROVE  BootInv'
  <2>1. Current(Reconciled(Pruned(Opened(p), blind), proc[p].cap))
    BY OpenedFields, CurrentOpened, CurrentPruned, CurrentReconciled
  <2>2. CASE file' = file
    BY <1>3, <2>2 DEF Capacity, BootInv, NoRecordFromAnotherBoot
  <2>3. CASE file' # file
    BY <1>3, <2>1, <2>3, CurrentWritten DEF Capacity
  <2>4. QED
    BY <2>2, <2>3
<1>4. ASSUME NEW w \in Wrapper, NEW blind \in SUBSET Unreadable,
             NEW g \in grants, Transfer(w, g, blind)
      PROVE  BootInv'
  <2>0. w \in Pid /\ g.amounts \in Amounts /\ Me(w) \in HolderId
    BY <1>0, OpenedFields, HostGateAssumption
  <2>1. Current(Discharge(Opened(w), Me(w), g.amounts))
    BY <2>0, CurrentOpened, CurrentDischarge
  <2>2. ASSUME NEW h \in run[w].to
        PROVE  Current(ChargeHolder(Discharge(Opened(w), Me(w), g.amounts), h,
                                    g.amounts, FALSE))
    <3>1. h \in HolderId /\ h[2] <= proc[h[1]].start
      BY <1>0 DEF BootInv
    <3>2. QED
      BY <2>0, <2>1, <3>1, CurrentCharge
  <2>3. CASE file' = Pruned(Discharge(Opened(w), Me(w), g.amounts), blind)
    <3>1. Current(file')
      BY <2>1, <2>3, CurrentPruned
    <3>2. \A v \in Wrapper : run'[v].to \subseteq run[v].to
      BY <1>0, <1>4 DEF Transfer
    <3>3. QED
      BY <1>4, <3>1, <3>2, CurrentWritten DEF Transfer
  <2>4. ASSUME NEW h \in run[w].to,
               file' = Pruned(ChargeHolder(Discharge(Opened(w), Me(w), g.amounts),
                                           h, g.amounts, FALSE), blind)
        PROVE  BootInv'
    <3>1. Current(file')
      BY <2>2, <2>4, CurrentPruned
    <3>2. \A v \in Wrapper : run'[v].to \subseteq run[v].to
      BY <1>0, <1>4 DEF Transfer
    <3>3. QED
      BY <1>4, <3>1, <3>2, CurrentWritten DEF Transfer
  <2>5. QED
    BY <1>4, <2>3, <2>4 DEF Transfer
<1>5. ASSUME NEW p \in Pid, NEW g \in grants, ReleaseFails(p, g)
      PROVE  BootInv'
  BY <1>0, <1>5 DEF ReleaseFails, AfterRelease, BootInv, NoRecordFromAnotherBoot
<1>6. ASSUME NEW w \in Wrapper, RunStep(w)
      PROVE  BootInv'
  <2>1. ASSUME NEW c \in Pid, Spawn(w, c) PROVE BootInv'
    <3>1. \A q \in Pid : proc[q].start <= proc'[q].start
      BY <1>0, <2>1 DEF Spawn
    <3>2. \A h \in HolderId : h[2] <= proc[h[1]].start => h[2] <= proc'[h[1]].start
      BY <1>0, <2>1, <3>1 DEF Spawn, HolderId
    <3>3. \A v \in Wrapper : run'[v].to = run[v].to
      BY <1>0, <2>1 DEF Spawn
    <3>4. \A v \in Wrapper : run[v].to \subseteq HolderId
      BY <1>0
    <3>5. file.held \subseteq HolderId
      BY <1>0 DEF Ledger
    <3>6. QED
      BY <2>1, <3>2, <3>3, <3>4, <3>5 DEF Spawn, BootInv, NoRecordFromAnotherBoot
  <2>2. ASSUME NEW blind \in SUBSET Unreadable, ProbeChild(w, blind) PROVE BootInv'
    <3>1. \A v \in Wrapper \ {w} : run'[v].to = run[v].to
      BY <1>0, <2>2 DEF ProbeChild
    <3>2. ASSUME NEW h \in run'[w].to PROVE h[2] <= proc[h[1]].start
      <4>1. run[w].kid \in HolderId /\ run[w].kid[1] \in Pid
        BY <1>0 DEF HolderId
      <4>2. CASE h = <<run[w].kid[1], 0>>
        BY <1>0, <4>1, <4>2
      <4>3. CASE h = run[w].kid /\ Alive(h)
        <5>1. h[1] \in Pid /\ h[2] = proc[h[1]].start
          BY <4>1, <4>3 DEF Alive, Me
        <5>2. QED
          BY <1>0, <5>1
      <4>4. QED
        BY <1>0, <2>2, <3>2, <4>2, <4>3 DEF ProbeChild
    <3>3. QED
      BY <2>2, <3>1, <3>2 DEF ProbeChild, BootInv, NoRecordFromAnotherBoot
  <2>3. CASE TransferFails(w)
    BY <1>0, <2>3 DEF TransferFails, BootInv, NoRecordFromAnotherBoot
  <2>4. CASE Reap(w)
    BY <1>0, <2>4 DEF Reap, BootInv, NoRecordFromAnotherBoot
  <2>5. QED
    BY <1>6, <2>1, <2>2, <2>3, <2>4 DEF RunStep
<1>7. ASSUME NEW p \in Pid, NEW mode \in Mode, NEW cap \in Cap, Start(p, mode, cap)
      PROVE  BootInv'
  <2>1. \A q \in Pid : proc[q].start <= proc'[q].start
    BY <1>0, <1>7 DEF Start
  <2>2. \A h \in HolderId : h[2] <= proc[h[1]].start => h[2] <= proc'[h[1]].start
    BY <1>0, <1>7, <2>1 DEF Start, HolderId
  <2>3. \A v \in Wrapper : run[v].to \subseteq HolderId
    BY <1>0
  <2>4. file.held \subseteq HolderId
    BY <1>0 DEF Ledger
  <2>5. QED
    BY <1>7, <2>2, <2>3, <2>4 DEF Start, BootInv, NoRecordFromAnotherBoot
<1>8. ASSUME NEW p \in Pid, Die(p)
      PROVE  BootInv'
  <2>1. \A q \in Pid : proc[q].start = proc'[q].start
    BY <1>0, <1>8 DEF Die, Down
  <2>2. \A h \in HolderId : h[2] <= proc[h[1]].start => h[2] <= proc'[h[1]].start
    BY <2>1 DEF HolderId
  <2>3. \A v \in Wrapper : run'[v].to \subseteq run[v].to /\ run[v].to \subseteq HolderId
    BY <1>0, <1>8 DEF Die, Forget, Idle
  <2>4. file.held \subseteq HolderId
    BY <1>0 DEF Ledger
  <2>5. QED
    BY <1>8, <2>2, <2>3, <2>4 DEF Die, BootInv, NoRecordFromAnotherBoot
<1>9. CASE Reboot
  <2>1. file'.instance # boot' /\ file'.instance <= boot'
    BY <1>0, <1>9 DEF Reboot, BootInv, Ledger
  <2>2. \A w \in Wrapper : run'[w].to = {}
    BY <1>9 DEF Reboot, Idle
  <2>3. QED
    BY <2>1, <2>2 DEF BootInv, NoRecordFromAnotherBoot
<1>10. CASE UNCHANGED vars
  BY <1>10 DEF vars, BootInv, NoRecordFromAnotherBoot
<1>11. QED
  BY <1>1, <1>2, <1>3, <1>4, <1>5, <1>6, <1>7, <1>8, <1>9, <1>10
  DEF Next, Transaction, Machine

LEMMA BootInit == Init => BootInv
  BY DEF Init, BootInv, NoRecordFromAnotherBoot, NoFile, Fresh, Idle

LEMMA BootInvariant == Spec => []BootInv
<1>1. TypeOK /\ BootInv /\ [Next]_vars => BootInv'
  BY BootStep
<1>2. QED
  BY <1>1, BootInit, TypeCorrect, PTL DEF Spec

\* Start times count from the boot, so the same pid and start time come round
\* again; the boot id is what keeps an old record from being taken for a new
\* process, and every transaction checks it.
THEOREM NoRecordCarriedOver == Spec => []NoRecordFromAnotherBoot
<1>1. BootInv => NoRecordFromAnotherBoot
  BY DEF BootInv
<1>2. QED
  BY <1>1, BootInvariant, PTL
---------------------------------------------------------------------------
(* The budget is never overspent. *)

\* Advisory processes' records carry the flag.
Flagged(l) ==
  /\ \A q \in Pid : (Up(q) /\ Advisory(q) /\ Me(q) \in l.held) => Me(q) \in l.advisory
  /\ Mode = {"enforce"} => l.advisory = {}

\* The armed grants of wrappers among G are covered by their records.
Covers(l, G) ==
  \A g \in G : (g.pid \in Wrapper /\ g.state = "armed") =>
    /\ Me(g.pid) \in l.held
    /\ \A a \in Axis : g.amounts[a] <= l.amounts[Me(g.pid)][a]

LEMMA MeType ==
  ASSUME TypeOK, NEW p \in Pid
  PROVE  /\ Me(p) \in HolderId /\ Me(p)[1] = p /\ Me(p)[2] = proc[p].start
         /\ Up(p) => \A blind : Matches(Me(p), blind)
         /\ \A q \in Pid : Me(q) = Me(p) => q = p
  BY DEF TypeOK, Me, HolderId, Matches, Alive

LEMMA FlaggedPruned ==
  ASSUME NEW l \in Ledger, Flagged(l), NEW blind
  PROVE  Flagged(Pruned(l, blind))
  BY PrunedFields DEF Flagged

LEMMA FlaggedReconciled ==
  ASSUME NEW l \in Ledger, Flagged(l), NEW caps \in Amounts
  PROVE  Flagged(Reconciled(l, caps))
  BY ReconciledFields DEF Flagged

LEMMA FlaggedDischarge ==
  ASSUME NEW l, Sound(l), Flagged(l), NEW h \in HolderId, NEW amt \in Amounts
  PROVE  Flagged(Discharge(l, h, amt))
<1> DEFINE m == Discharge(l, h, amt)
<1>1. /\ m.held \subseteq l.held /\ m.advisory \subseteq l.advisory
      /\ \A k \in m.held : k \in l.advisory => k \in m.advisory
  BY DischargeFields
<1> HIDE DEF m
<1>2. Flagged(m)
  BY <1>1 DEF Flagged
<1>3. QED
  BY <1>2 DEF m

LEMMA FlaggedCharge ==
  ASSUME NEW l \in Ledger, Flagged(l), NEW h \in HolderId, NEW amt \in Amounts,
         NEW adv \in BOOLEAN, adv => Mode # {"enforce"},
         \A q \in Pid : (Up(q) /\ Advisory(q) /\ Me(q) = h) => adv
  PROVE  Flagged(ChargeHolder(l, h, amt, adv))
<1> DEFINE m == ChargeHolder(l, h, amt, adv)
<1>1. /\ m.held = l.held \cup {h}
      /\ m.advisory = IF adv /\ h \notin l.held THEN l.advisory \cup {h}
                      ELSE l.advisory
  BY DEF ChargeHolder, Ledger
<1> HIDE DEF m
<1>2. Flagged(m)
  BY <1>1 DEF Flagged
<1>3. QED
  BY <1>2 DEF m

LEMMA CoversPruned ==
  ASSUME TypeOK, NEW l \in Ledger, NEW G, \A g \in G : g.pid \in Pid /\ Up(g.pid),
         Covers(l, G), NEW blind
  PROVE  Covers(Pruned(l, blind), G)
<1> SUFFICES ASSUME NEW g \in G, g.pid \in Wrapper, g.state = "armed"
             PROVE  /\ Me(g.pid) \in Pruned(l, blind).held
                    /\ \A a \in Axis :
                         g.amounts[a] <= Pruned(l, blind).amounts[Me(g.pid)][a]
  BY DEF Covers
<1>1. Me(g.pid) \in HolderId /\ Matches(Me(g.pid), blind)
  BY MeType
<1>2. /\ Me(g.pid) \in l.held
      /\ \A a \in Axis : g.amounts[a] <= l.amounts[Me(g.pid)][a]
  BY DEF Covers
<1>3. QED
  BY <1>1, <1>2, PrunedFields

LEMMA CoversReconciled ==
  ASSUME NEW l \in Ledger, NEW G, Covers(l, G), NEW caps \in Amounts
  PROVE  Covers(Reconciled(l, caps), G)
  BY ReconciledFields DEF Covers

LEMMA CoversDischarge ==
  ASSUME TypeOK, NEW l, Sound(l), NEW G, NEW p \in Pid,
         \A g \in G : g.pid \in Pid /\ (g.state = "armed" => g.pid # p),
         Covers(l, G), NEW amt \in Amounts
  PROVE  Covers(Discharge(l, Me(p), amt), G)
<1> DEFINE m == Discharge(l, Me(p), amt)
<1>1. /\ l.held \ {Me(p)} \subseteq m.held
      /\ \A k \in HolderId \ {Me(p)} : m.amounts[k] = l.amounts[k]
  BY MeType, DischargeFields
<1> HIDE DEF m
<1>2. \A g \in G : g.state = "armed" => Me(g.pid) \in HolderId \ {Me(p)}
  BY MeType
<1>3. Covers(m, G)
  BY <1>1, <1>2 DEF Covers
<1>4. QED
  BY <1>3 DEF m

\* A charge takes nothing from anybody, and covers what it is for.
LEMMA CoversCharge ==
  ASSUME TypeOK, NEW l \in Ledger, NEW G,
         \A g \in G : g.pid \in Pid /\ g.amounts \in Amounts,
         Covers(l, G), NEW h \in HolderId, NEW amt \in Amounts, NEW adv \in BOOLEAN
  PROVE  /\ Covers(ChargeHolder(l, h, amt, adv), G)
         /\ \A g : g.amounts = amt /\ Me(g.pid) = h =>
              Covers(ChargeHolder(l, h, amt, adv), {g})
<1> DEFINE m == ChargeHolder(l, h, amt, adv)
<1>1. /\ m.held = l.held \cup {h} /\ m \in Ledger
      /\ \A k \in HolderId \ {h} : m.amounts[k] = l.amounts[k]
      /\ \A a \in Axis : l.amounts[h][a] <= m.amounts[h][a] /\ amt[a] <= m.amounts[h][a]
  <2>1. m.held = l.held \cup {h} /\ m \in Ledger
    BY ChargeFields
  <2>2. QED
    BY <2>1, ChargeAmounts
<1> HIDE DEF m
<1>2. ASSUME NEW g \in G, g.pid \in Wrapper, g.state = "armed"
      PROVE  /\ Me(g.pid) \in m.held
             /\ \A a \in Axis : g.amounts[a] <= m.amounts[Me(g.pid)][a]
  <2>1. Me(g.pid) \in HolderId
    BY MeType
  <2>2. /\ Me(g.pid) \in l.held
        /\ \A a \in Axis : g.amounts[a] <= l.amounts[Me(g.pid)][a]
    BY <1>2 DEF Covers
  <2>3. ASSUME NEW a \in Axis PROVE g.amounts[a] <= m.amounts[Me(g.pid)][a]
    <3>1. CASE Me(g.pid) # h
      BY <1>1, <2>1, <2>2, <3>1
    <3>2. CASE Me(g.pid) = h
      <4>1. g.amounts[a] <= l.amounts[h][a] /\ l.amounts[h][a] <= m.amounts[h][a]
        BY <1>1, <2>2, <3>2
      <4>2. /\ l.amounts[h][a] \in Int /\ m.amounts[h][a] \in Int
             /\ g.amounts[a] \in Int
        BY <1>1, HostGateAssumption DEF Ledger, Amounts
      <4>3. QED
        BY <3>2, <4>1, <4>2
    <3>3. QED
      BY <3>1, <3>2
  <2>4. QED
    BY <1>1, <2>2, <2>3
<1>3. Covers(m, G)
  BY <1>2 DEF Covers
<1>4. ASSUME NEW g, g.amounts = amt, Me(g.pid) = h PROVE Covers(m, {g})
  BY <1>1, <1>4 DEF Covers
<1>5. QED
  BY <1>3, <1>4 DEF m

\* What the invariant says of the ledger that a transaction starts from.
LEMMA BudgetOpened ==
  ASSUME TypeOK, BudgetInv, NEW p \in Pid
  PROVE  /\ Sound(Opened(p)) /\ Opened(p) \in Ledger
         /\ Flagged(Opened(p)) /\ Covers(Opened(p), grants)
<1>1. /\ Opened(p) \in Ledger /\ Sound(Opened(p))
      /\ file.instance = boot => Opened(p) = file
      /\ file.instance # boot => Opened(p).held = {} /\ Opened(p).advisory = {}
  BY OpenedFields DEF BudgetInv
<1>2. Flagged(Opened(p))
  BY <1>1 DEF BudgetInv, AdvisoryNeverSpends, Flagged
<1>3. Covers(Opened(p), grants)
  BY <1>1 DEF BudgetInv, Backed, Covers
<1>4. QED
  BY <1>1, <1>2, <1>3

\* What a transaction has to write for the invariant to hold again.
LEMMA BudgetWritten ==
  ASSUME TypeOK, Sound(file'), Flagged(file'), Covers(file', grants'),
         file'.instance = boot, UNCHANGED <<boot, proc>>,
         \A g \in grants' : Up(g.pid), OneGrant'
  PROVE  BudgetInv'
<1>1. AdvisoryNeverSpends' /\ (Mode = {"enforce"} => file'.advisory = {})
  BY DEF Flagged, AdvisoryNeverSpends, Up, Me, Advisory
<1>2. Backed'
  BY DEF Covers, Backed, Up, Me
<1>3. Sound(file)'
  BY DEF Sound, Charged, OnAxis, Enforcing
<1>4. QED
  BY <1>1, <1>2, <1>3 DEF BudgetInv

\* What one transaction leaves of the grants of a wrapper.
LEMMA OneGrantLess ==
  ASSUME OneGrant,
         \A g \in grants' : g.state = "armed" => g \in grants,
         \A w \in Wrapper : run'[w].phase = "idle" => run[w].phase = "idle"
  PROVE  OneGrant'
  BY DEF OneGrant

LEMMA BudgetAcquire ==
  ASSUME TypeOK, BudgetInv, NEW p \in Pid, NEW blind \in SUBSET Unreadable,
         NEW id \in GrantId, NEW req \in Request, Acquire(p, id, req, blind)
  PROVE  BudgetInv'
<1> DEFINE l == Reconciled(Pruned(Opened(p), blind), proc[p].cap)
           m == ChargeHolder(l, Me(p), req, Advisory(p))
           g == FreshGrant(p, id, req)
<1>0. /\ req \in Amounts /\ Me(p) \in HolderId /\ Advisory(p) \in BOOLEAN
      /\ proc[p].cap \in Amounts /\ Up(p)
      /\ Opened(p).instance = boot
      /\ \A k \in grants : k.pid \in Pid /\ k.amounts \in Amounts /\ Up(k.pid)
      /\ run \in [Wrapper -> [phase : Phase, kid : HolderId, to : SUBSET HolderId]]
  BY OpenedFields, HostGateAssumption DEF Acquire, BudgetInv, Backed, TypeOK
<1>1. /\ Sound(Opened(p)) /\ Flagged(Opened(p)) /\ Covers(Opened(p), grants)
      /\ Opened(p) \in Ledger
  BY BudgetOpened
<1>2. /\ Sound(Pruned(Opened(p), blind)) /\ Flagged(Pruned(Opened(p), blind))
      /\ Covers(Pruned(Opened(p), blind), grants)
      /\ Pruned(Opened(p), blind) \in Ledger
      /\ Pruned(Opened(p), blind).instance = boot
  <2>1. Sound(Pruned(Opened(p), blind))
    BY <1>1, WithoutSound DEF Pruned
  <2>2. QED
    BY <1>0, <1>1, <2>1, FlaggedPruned, CoversPruned, PrunedFields
<1>3. Sound(l) /\ Flagged(l) /\ Covers(l, grants) /\ l \in Ledger /\ l.instance = boot
  BY <1>0, <1>2, ReconciledSound, FlaggedReconciled, CoversReconciled, ReconciledFields
<1> HIDE DEF l
<1>4. /\ grants' = IF Advisory(p) \/ Price(l, req) = "admit" THEN grants \cup {g} ELSE grants
      /\ file' = IF Advisory(p) \/ Price(l, req) = "admit" THEN m ELSE l
      /\ UNCHANGED <<boot, proc>>
  BY DEF Acquire, l
<1>5. ASSUME Advisory(p) \/ Price(l, req) = "admit"
      PROVE  Sound(m) /\ Flagged(m) /\ Covers(m, grants') /\ m.instance = boot
  <2>1. Advisory(p) /\ Me(p) \in l.held => Me(p) \in l.advisory
    BY <1>0, <1>3 DEF Flagged
  <2>2. ~Advisory(p) => \A a \in Axis : req[a] <= SatSub(l.caps[a], Charged(l, a))
    <3> SUFFICES ASSUME ~Advisory(p), NEW a \in Axis
                 PROVE  req[a] <= SatSub(l.caps[a], Charged(l, a))
      OBVIOUS
    <3>1. ~(req[a] > SatSub(l.caps[a], Charged(l, a)))
      BY <1>5 DEF Price
    <3>2. req[a] \in Int /\ SatSub(l.caps[a], Charged(l, a)) \in Int
      BY <1>0, <1>3, ChargedType, HostGateAssumption DEF Amounts, SatSub
    <3>3. QED
      BY <3>1, <3>2
  <2>3. Sound(m)
    BY <1>0, <1>3, <2>1, <2>2, ChargeSound
  <2>4. Advisory(p) => Mode # {"enforce"}
    BY DEF Advisory, TypeOK
  <2>5. \A q \in Pid : Me(q) = Me(p) /\ Advisory(q) => Advisory(p)
    BY MeType
  <2>6. Flagged(m)
    BY <1>0, <1>3, <2>4, <2>5, FlaggedCharge
  <2>7. Covers(m, grants) /\ Covers(m, {g})
    BY <1>0, <1>3, CoversCharge DEF FreshGrant
  <2>8. Covers(m, grants')
    BY <1>4, <1>5, <2>7 DEF Covers
  <2>9. m.instance = boot
    BY <1>0, <1>3, ChargeFields
  <2>10. QED
    BY <2>3, <2>6, <2>8, <2>9
<1>6. Sound(file') /\ Flagged(file') /\ Covers(file', grants') /\ file'.instance = boot
  BY <1>3, <1>4, <1>5
<1>7. \A k \in grants' : Up(k.pid)
  BY <1>0, <1>4 DEF FreshGrant
<1>8. OneGrant'
  <2>1. OneGrant
    BY DEF BudgetInv
  <2>2. CASE p \notin Wrapper
    <3>1. run' = run /\ g.pid \notin Wrapper
      BY <2>2 DEF Acquire, FreshGrant
    <3>2. QED
      BY <1>4, <2>1, <3>1 DEF OneGrant
  <2>3. CASE p \in Wrapper
    <3>1. run[p].phase = "idle" /\ \A k \in grants : k.pid = p => k.state # "armed"
      BY <2>1, <2>3 DEF OneGrant, Acquire
    <3>2. /\ run'[p].phase # "idle"
          /\ \A w \in Wrapper \ {p} : run'[w] = run[w]
      BY <1>0, <2>3 DEF Acquire
    <3>3. g.pid = p
      BY DEF FreshGrant
    <3> HIDE DEF g
    <3>4. QED
      BY <1>4, <2>1, <3>1, <3>2, <3>3 DEF OneGrant
  <2>4. QED
    BY <2>2, <2>3
<1>9. QED
  BY <1>4, <1>6, <1>7, <1>8, BudgetWritten

LEMMA BudgetRelease ==
  ASSUME TypeOK, BudgetInv, NEW p \in Pid, NEW blind \in SUBSET Unreadable,
         NEW g \in grants, Release(p, g, blind)
  PROVE  BudgetInv'
<1> DEFINE l == Discharge(Opened(p), Me(p), g.amounts)
           G == {k \in grants : k.state = "armed" => k.pid # p}
<1>0. /\ g.amounts \in Amounts /\ Me(p) \in HolderId /\ Opened(p).instance = boot
      /\ \A k \in grants : k.pid \in Pid /\ k.amounts \in Amounts /\ Up(k.pid)
      /\ run \in [Wrapper -> [phase : Phase, kid : HolderId, to : SUBSET HolderId]]
      /\ file' = Pruned(l, blind) /\ grants' = grants \ {g}
      /\ UNCHANGED <<boot, proc>> /\ g.pid = p /\ g.state = "armed"
  BY OpenedFields DEF Release, BudgetInv, Backed, TypeOK
<1>1. /\ Sound(Opened(p)) /\ Flagged(Opened(p)) /\ Covers(Opened(p), grants)
      /\ Opened(p) \in Ledger
  BY BudgetOpened
<1>2. Covers(Opened(p), G)
  BY <1>1 DEF Covers
<1>3. Sound(l) /\ Flagged(l)
  BY <1>0, <1>1, DischargeSound, FlaggedDischarge
<1>4. Covers(l, G)
  <2>1. \A k \in G : k.pid \in Pid /\ (k.state = "armed" => k.pid # p)
    BY <1>0
  <2> HIDE DEF G
  <2>2. QED
    BY <1>0, <1>1, <1>2, <2>1, CoversDischarge
<1>5. l \in Ledger /\ l.instance = boot
  BY <1>0, <1>1, DischargeType
<1>6. \A k \in G : k.pid \in Pid /\ Up(k.pid)
  BY <1>0
<1> HIDE DEF l
<1>7. /\ Sound(file') /\ Flagged(file') /\ file'.instance = boot
      /\ Covers(file', G)
  <2>1. Sound(Pruned(l, blind))
    BY <1>3, WithoutSound DEF Pruned
  <2>2. Flagged(Pruned(l, blind)) /\ Pruned(l, blind).instance = boot
    BY <1>3, <1>5, FlaggedPruned, PrunedFields
  <2>3. Covers(Pruned(l, blind), G)
    <3> HIDE DEF G
    <3> QED BY <1>4, <1>5, <1>6, CoversPruned
  <2>4. QED
    BY <1>0, <2>1, <2>2, <2>3
<1>8. Covers(file', grants')
  \* the only armed grant that a wrapper p had was g
  <2>1. \A k \in grants' : (k.pid \in Wrapper /\ k.state = "armed") => k \in G
    BY <1>0 DEF BudgetInv, OneGrant
  <2> HIDE DEF G
  <2>2. QED
    BY <1>7, <2>1 DEF Covers
<1>9. OneGrant'
  <2>1. \A w \in Wrapper : run'[w].phase = "idle" => run[w].phase = "idle"
    BY <1>0 DEF Release, AfterRelease
  <2>2. QED
    BY <1>0, <2>1, OneGrantLess DEF BudgetInv
<1>10. QED
  BY <1>0, <1>7, <1>8, <1>9, BudgetWritten

LEMMA BudgetCapacity ==
  ASSUME TypeOK, BudgetInv, NEW p \in Pid, NEW blind \in SUBSET Unreadable,
         Capacity(p, blind)
  PROVE  BudgetInv'
<1> DEFINE l == Reconciled(Pruned(Opened(p), blind), proc[p].cap)
<1>0. /\ proc[p].cap \in Amounts /\ Opened(p).instance = boot
      /\ \A k \in grants : k.pid \in Pid /\ k.amounts \in Amounts /\ Up(k.pid)
      /\ UNCHANGED <<boot, proc, grants, run>>
  BY OpenedFields DEF Capacity, BudgetInv, Backed, TypeOK
<1>1. /\ Sound(Opened(p)) /\ Flagged(Opened(p)) /\ Covers(Opened(p), grants)
      /\ Opened(p) \in Ledger
  BY BudgetOpened
<1>2. /\ Sound(Pruned(Opened(p), blind)) /\ Flagged(Pruned(Opened(p), blind))
      /\ Covers(Pruned(Opened(p), blind), grants)
      /\ Pruned(Opened(p), blind) \in Ledger
      /\ Pruned(Opened(p), blind).instance = boot
  <2>1. Sound(Pruned(Opened(p), blind))
    BY <1>1, WithoutSound DEF Pruned
  <2>2. QED
    BY <1>0, <1>1, <2>1, FlaggedPruned, CoversPruned, PrunedFields
<1>3. Sound(l) /\ Flagged(l) /\ Covers(l, grants) /\ l.instance = boot
  BY <1>0, <1>2, ReconciledSound, FlaggedReconciled, CoversReconciled, ReconciledFields
<1>4. file' = l \/ file' = file
  BY DEF Capacity
<1> HIDE DEF l
<1>5. CASE file' = file
  BY <1>0, <1>5
  DEF BudgetInv, Sound, Charged, OnAxis, Enforcing, AdvisoryNeverSpends, OneGrant,
      Backed, Up, Me, Advisory
<1>6. CASE file' = l
  <2>1. OneGrant'
    BY <1>0 DEF BudgetInv, OneGrant
  <2>2. QED
    BY <1>0, <1>3, <1>6, <2>1, BudgetWritten
<1>7. QED
  BY <1>4, <1>5, <1>6

\* The one place where the budget rests on more than price: transfer_to
\* charges the child without pricing, and what makes room for it is exactly
\* the charge that the wrapper's record gives up.
LEMMA BudgetTransfer ==
  ASSUME TypeOK, BudgetInv, Unmixed, NEW w \in Wrapper,
         NEW blind \in SUBSET Unreadable, NEW g \in grants, Transfer(w, g, blind)
  PROVE  BudgetInv'
<1> DEFINE o == Opened(w)
           paid == Discharge(o, Me(w), g.amounts)
           G == grants \ {g}
<1>0. /\ w \in Pid /\ g.amounts \in Amounts /\ Me(w) \in HolderId
      /\ o.instance = boot
      /\ \A k \in grants : k.pid \in Pid /\ k.amounts \in Amounts /\ Up(k.pid)
      /\ run \in [Wrapper -> [phase : Phase, kid : HolderId, to : SUBSET HolderId]]
      /\ grants' = G /\ UNCHANGED <<boot, proc>> /\ g.pid = w /\ g.state = "armed"
  BY OpenedFields, HostGateAssumption DEF Transfer, BudgetInv, Backed, TypeOK
<1>1. Mode = {"enforce"} /\ \A q \in Pid : ~Advisory(q)
  BY DEF Unmixed, Advisory, TypeOK
<1>2. Sound(o) /\ Flagged(o) /\ Covers(o, grants) /\ o \in Ledger
  BY <1>0, BudgetOpened
<1>3. /\ Me(w) \in Enforcing(o)
      /\ \A a \in Axis : g.amounts[a] <= o.amounts[Me(w)][a]
  BY <1>0, <1>1, <1>2 DEF Covers, Flagged, Enforcing
<1>4. Sound(paid) /\ Flagged(paid) /\ paid \in Ledger /\ paid.instance = boot
  BY <1>0, <1>2, DischargeSound, FlaggedDischarge, DischargeType
<1>5. \A k \in G : k.pid \in Pid /\ (k.state = "armed" => k.pid # w)
  BY <1>0 DEF BudgetInv, OneGrant
<1>6. Covers(o, G)
  BY <1>2 DEF Covers
<1>7. Covers(paid, G)
  <2> HIDE DEF G
  <2> QED BY <1>0, <1>2, <1>5, <1>6, CoversDischarge
<1>8. OneGrant'
  <2>1. \A v \in Wrapper : run'[v].phase = "idle" => run[v].phase = "idle"
    BY <1>0 DEF Transfer
  <2>2. QED
    BY <1>0, <2>1, OneGrantLess DEF BudgetInv
<1>9. ASSUME NEW l, Sound(l), Flagged(l), Covers(l, G), l \in Ledger,
             l.instance = boot, file' = Pruned(l, blind)
      PROVE  BudgetInv'
  <2>1. Sound(file')
    BY <1>9, WithoutSound DEF Pruned
  <2>2. Flagged(file') /\ file'.instance = boot
    BY <1>9, FlaggedPruned, PrunedFields
  <2>3. \A k \in G : k.pid \in Pid /\ Up(k.pid)
    BY <1>0
  <2>4. Covers(file', G)
    <3> HIDE DEF G
    <3> QED BY <1>9, <2>3, CoversPruned
  <2>5. QED
    BY <1>0, <1>8, <2>1, <2>2, <2>3, <2>4, BudgetWritten
<1>10. CASE file' = Pruned(paid, blind)
  BY <1>4, <1>7, <1>9, <1>10
<1>11. ASSUME NEW h \in run[w].to,
              file' = Pruned(ChargeHolder(paid, h, g.amounts, FALSE), blind)
       PROVE  BudgetInv'
  <2> DEFINE m == ChargeHolder(paid, h, g.amounts, FALSE)
  <2>0. h \in HolderId
    BY <1>0
  <2>1. Sound(m)
    BY <1>0, <1>2, <1>3, <2>0, MoveSound
  <2> HIDE DEF paid
  <2>2. Flagged(m)
    BY <1>0, <1>1, <1>4, <2>0, FlaggedCharge
  <2>3. Covers(m, G)
    <3>1. \A k \in G : k.pid \in Pid /\ k.amounts \in Amounts
      BY <1>0
    <3> HIDE DEF G
    <3>2. QED
      BY <1>0, <1>4, <1>7, <2>0, <3>1, CoversCharge
  <2>4. m \in Ledger /\ m.instance = boot
    BY <1>4, <2>1 DEF Sound, ChargeHolder, Ledger
  <2> HIDE DEF m
  <2>5. file' = Pruned(m, blind)
    BY <1>11 DEF m
  <2>6. QED
    BY <1>9, <2>1, <2>2, <2>3, <2>4, <2>5
<1>12. QED
  BY <1>10, <1>11 DEF Transfer

\* Steps that leave the ledger, the grants and the process table alone.
LEMMA BudgetUntouched ==
  ASSUME BudgetInv, UNCHANGED <<boot, file, proc, grants>>,
         \A w \in Wrapper : run'[w].phase = "idle" => run[w].phase = "idle"
  PROVE  BudgetInv'
<1>1. OneGrant'
  BY OneGrantLess DEF BudgetInv
<1>2. QED
  BY <1>1
  DEF BudgetInv, Sound, Charged, OnAxis, Enforcing, AdvisoryNeverSpends, Backed,
      Up, Me, Advisory

\* Steps of the process table: the incarnations that run stay what they are,
\* or the process is gone with its grants, or it is new to the ledger.
LEMMA BudgetProcesses ==
  ASSUME TypeOK, BootInv, BudgetInv, UNCHANGED <<boot, file>>, NEW p \in Pid,
         \A q \in Pid \ {p} : proc'[q] = proc[q],
         ~Up(p)' \/ (~Up(p) /\ proc'[p].start > proc[p].start),
         grants' = {g \in grants : g.pid # p} \/ (grants' = grants /\ ~Up(p)),
         OneGrant'
  PROVE  BudgetInv'
<1>0. /\ \A g \in grants : g.pid \in Pid /\ Up(g.pid)
      /\ proc[p].start \in Nat
  BY HostGateAssumption DEF BudgetInv, Backed, TypeOK
<1>1. \A g \in grants' : g \in grants /\ g.pid \in Pid \ {p}
  BY <1>0
<1>2. \A q \in Pid \ {p} : /\ Up(q)' = Up(q) /\ Me(q)' = Me(q)
                           /\ Advisory(q)' = Advisory(q)
  BY DEF Up, Me, Advisory
<1>3. Sound(file)'
  BY DEF BudgetInv, Sound, Charged, OnAxis, Enforcing
<1>4. AdvisoryNeverSpends'
  <2> SUFFICES ASSUME NEW q \in Pid, Up(q)', Advisory(q)', file.instance = boot,
                      Me(q)' \in file.held
               PROVE  Me(q)' \in file.advisory
    BY DEF AdvisoryNeverSpends
  <2>1. CASE q # p
    BY <1>2, <2>1 DEF BudgetInv, AdvisoryNeverSpends
  <2>2. CASE q = p
    <3>1. proc'[p].start > proc[p].start
      BY <2>2
    <3>2. proc'[p].start <= proc[p].start
      BY <2>2 DEF BootInv, NoRecordFromAnotherBoot, Me
    <3>3. QED
      <4>1. proc'[p].start \in Int
        BY <2>2, HostGateAssumption DEF Me, TypeOK, Ledger, HolderId
      <4>2. QED
        BY <1>0, <3>1, <3>2, <4>1
  <2>3. QED
    BY <2>1, <2>2
<1>5. Backed'
  BY <1>1, <1>2 DEF BudgetInv, Backed
<1>6. QED
  BY <1>3, <1>4, <1>5 DEF BudgetInv

LEMMA BudgetStep ==
  ASSUME Unmixed, TypeOK, BootInv, BudgetInv, [Next]_vars
  PROVE  BudgetInv'
<1>0. /\ proc \in [Pid -> [up : BOOLEAN, start : 0 .. MaxStart, mode : Mode, cap : Cap]]
      /\ \A g \in grants : g.pid \in Pid /\ Up(g.pid)
      /\ run \in [Wrapper -> [phase : Phase, kid : HolderId, to : SUBSET HolderId]]
      /\ OneGrant
  BY DEF TypeOK, BudgetInv, Backed
<1>1. ASSUME NEW p \in Pid, NEW blind \in SUBSET Unreadable, Transaction(p, blind)
      PROVE  BudgetInv'
  BY <1>1, BudgetAcquire, BudgetRelease, BudgetCapacity, BudgetTransfer DEF Transaction
<1>2. ASSUME NEW p \in Pid, NEW g \in grants, ReleaseFails(p, g)
      PROVE  BudgetInv'
  <2> DEFINE k == [g EXCEPT !.state = "lost"]
  <2>1. /\ grants' = (grants \ {g}) \cup {k} /\ k.state = "lost" /\ k.pid = g.pid
        /\ UNCHANGED <<boot, file, proc>>
    BY <1>2 DEF ReleaseFails, TypeOK
  <2> HIDE DEF k
  <2>2. OneGrant'
    <3>1. \A w \in Wrapper : run'[w].phase = "idle" => run[w].phase = "idle"
      BY <1>0, <1>2 DEF ReleaseFails, AfterRelease
    <3>2. QED
      BY <1>0, <2>1, <3>1, OneGrantLess
  <2>3. Backed'
    BY <2>1 DEF BudgetInv, Backed, Up, Me
  <2>4. QED
    BY <2>1, <2>2, <2>3
    DEF BudgetInv, Sound, Charged, OnAxis, Enforcing, AdvisoryNeverSpends, Up, Me,
        Advisory
<1>3. ASSUME NEW w \in Wrapper, RunStep(w)
      PROVE  BudgetInv'
  <2>1. ASSUME NEW c \in Pid, Spawn(w, c) PROVE BudgetInv'
    <3>1. OneGrant'
      <4>1. \A v \in Wrapper : run'[v].phase = "idle" => run[v].phase = "idle"
        BY <1>0, <2>1 DEF Spawn
      <4>2. QED
        BY <1>0, <2>1, <4>1, OneGrantLess DEF Spawn
    <3>2. /\ ~Up(c) /\ proc'[c].start > proc[c].start
          /\ \A q \in Pid \ {c} : proc'[q] = proc[q]
      BY <1>0, <2>1, HostGateAssumption DEF Spawn
    <3>3. QED
      BY <2>1, <3>1, <3>2, BudgetProcesses DEF Spawn
  <2>2. ASSUME NEW blind \in SUBSET Unreadable, ProbeChild(w, blind) PROVE BudgetInv'
    BY <1>0, <2>2, BudgetUntouched DEF ProbeChild
  <2>3. CASE TransferFails(w)
    BY <1>0, <2>3, BudgetUntouched DEF TransferFails
  <2>4. CASE Reap(w)
    BY <1>0, <2>4, BudgetUntouched DEF Reap
  <2>5. QED
    BY <1>3, <2>1, <2>2, <2>3, <2>4 DEF RunStep
<1>4. ASSUME NEW p \in Pid, NEW mode \in Mode, NEW cap \in Cap, Start(p, mode, cap)
      PROVE  BudgetInv'
  <2>1. OneGrant'
    BY <1>0, <1>4, OneGrantLess DEF Start
  <2>2. /\ ~Up(p) /\ proc'[p].start > proc[p].start
        /\ \A q \in Pid \ {p} : proc'[q] = proc[q]
    BY <1>0, <1>4, HostGateAssumption DEF Start
  <2>3. QED
    BY <1>4, <2>1, <2>2, BudgetProcesses DEF Start
<1>5. ASSUME NEW p \in Pid, Die(p)
      PROVE  BudgetInv'
  <2>1. \A w \in Wrapper : w # p => run'[w] = run[w]
    BY <1>0, <1>5 DEF Die, Forget
  <2>2. grants' = {g \in grants : g.pid # p}
    BY <1>5 DEF Die
  <2>3. OneGrant'
    BY <1>0, <2>1, <2>2 DEF OneGrant
  <2>4. ~Up(p)' /\ \A q \in Pid \ {p} : proc'[q] = proc[q]
    BY <1>0, <1>5 DEF Die, Down, Up
  <2>5. QED
    BY <1>5, <2>2, <2>3, <2>4, BudgetProcesses DEF Die
<1>6. CASE Reboot
  <2>1. \A q \in Pid : ~Up(q)'
    BY <1>6 DEF Reboot, Down, Up
  <2>2. grants' = {} /\ file' = file
    BY <1>6 DEF Reboot
  <2>3. Sound(file)'
    BY <2>2 DEF BudgetInv, Sound, Charged, OnAxis, Enforcing
  <2>4. QED
    BY <2>1, <2>2, <2>3 DEF BudgetInv, AdvisoryNeverSpends, OneGrant, Backed
<1>7. CASE UNCHANGED vars
  BY <1>7, BudgetUntouched DEF vars
<1>8. QED
  BY <1>1, <1>2, <1>3, <1>4, <1>5, <1>6, <1>7 DEF Next, Machine

LEMMA BudgetInit == Init => BudgetInv
<1> SUFFICES ASSUME Init PROVE BudgetInv
  OBVIOUS
<1>1. Sound(file)
  BY FreshSound, ZeroType, HostGateAssumption DEF Init, NoFile
<1>2. file.held = {} /\ file.advisory = {} /\ grants = {}
  BY DEF Init, NoFile, Fresh
<1>3. QED
  BY <1>1, <1>2 DEF BudgetInv, AdvisoryNeverSpends, OneGrant, Backed

LEMMA BudgetInvariant ==
  ASSUME Unmixed
  PROVE  Spec => []BudgetInv
<1>1. TypeOK /\ BootInv /\ BudgetInv /\ [Next]_vars => BudgetInv'
  BY BudgetStep
<1>2. QED
  BY <1>1, BudgetInit, BootInvariant, TypeCorrect, PTL DEF Spec

\* The budget is never overspent, whatever the processes do and whenever they
\* or the machine die, as long as no advisory process runs a child through
\* `omega-hostgate run`.
THEOREM BudgetNeverOverspent ==
  ASSUME Unmixed
  PROVE  Spec => []BudgetRespected
<1>1. BudgetInv => BudgetRespected
  BY DEF BudgetInv, Sound, BudgetRespected
<1>2. QED
  BY <1>1, BudgetInvariant, PTL

\* Under the same condition every record of an advisory process is one that
\* the budget leaves out.
THEOREM AdvisoryRecordsFlagged ==
  ASSUME Unmixed
  PROVE  Spec => []AdvisoryNeverSpends
<1>1. BudgetInv => AdvisoryNeverSpends
  BY DEF BudgetInv
<1>2. QED
  BY <1>1, BudgetInvariant, PTL

-----------------------------------------------------------------------------
(***************************************************************************)
(* The accounts: the record of a running process is charged what its own   *)
(* grants took plus what a wrapper handed it, to the unit, for every       *)
(* process table, set of axes, requests and budgets, and every number of   *)
(* faults, deaths and restarts.                                            *)
(*                                                                         *)
(* This needs more than the budget does.  An amount that saturates is no   *)
(* longer exact; that none does follows from the budget, but only for      *)
(* processes that enforce it.  And what is handed to a child is exact only *)
(* if nothing was handed to it before, so no two wrappers may wait for one *)
(* process, and a pid may not be used again before it is waited for.       *)
(***************************************************************************)

\* Every process enforces, and transfer_to can read the child that it spawned.
Accountable == Mode = {"enforce"} /\ (Wrapper = {} \/ Unreadable \subseteq Wrapper)

\* What the grants in G that p holds add up to on one axis.
Held(G, p, a) == Total([g \in G |-> g.amounts[a]], {g \in G : g.pid = p})

\* The accounts agree on the ledger l.
Exact(l, G, o) ==
  \A p \in Pid, a \in Axis :
    Up(p) => l.amounts[Me(p)][a] = Held(G, p, a) + o[p][a]

\* A wrapper with a child that it has not handed its grant to.
Handing(w) == run[w].phase \in {"spawned", "probed"}

\* Nobody has handed that child anything, and nobody else will; whom the
\* wrapper has probed is that child.
KidsApart ==
  \A w \in Wrapper :
    /\ run[w].phase # "idle" => Up(w)
    /\ run[w].to \subseteq {run[w].kid}
    /\ run[w].phase \in {"idle", "granted"} => run[w].to = {}
    /\ Handing(w) =>
         /\ run[w].kid[1] \notin Wrapper
         /\ Alive(run[w].kid) => owed[run[w].kid[1]] = Zero
         /\ \A v \in Wrapper \ {w} : Handing(v) => run[v].kid[1] # run[w].kid[1]

\* No two grants are the same Grant value.
GrantsApart == \A g, k \in grants : g.id = k.id => g = k

DownOwesNothing == \A p \in Pid : ~Up(p) => owed[p] = Zero

AccountInv ==
  /\ IsFiniteSet(grants) /\ GrantsApart
  /\ ExactAccounting
  /\ DownOwesNothing
  /\ KidsApart
---------------------------------------------------------------------------
(* Adding up grants. *)

IsGrants(G) ==
  G \subseteq [id : GrantId, pid : Pid, amounts : Amounts, state : {"armed", "lost"}]

LEMMA HeldType ==
  ASSUME NEW G, IsFiniteSet(G), IsGrants(G), NEW p, NEW a \in Axis
  PROVE  /\ Held(G, p, a) \in Nat
         /\ (\A g \in G : g.pid # p) => Held(G, p, a) = 0
<1> DEFINE f == [g \in G |-> g.amounts[a]]
           S == {g \in G : g.pid = p}
<1>1. IsFiniteSet(S)
  BY FS_Subset
<1>2. \A g \in S : f[g] \in Nat
  BY HostGateAssumption DEF IsGrants, Amounts
<1>3. Total(f, S) \in Nat
  <2> HIDE DEF f, S
  <2> QED BY <1>1, <1>2, TotalType
<1>4. ASSUME \A g \in G : g.pid # p PROVE Total(f, S) = 0
  <2>1. S = {}
    BY <1>4
  <2>2. QED
    BY <2>1, TotalEmpty
<1>5. QED
  BY <1>3, <1>4 DEF Held

\* One grant more adds what it took, to its owner's account.
LEMMA HeldWith ==
  ASSUME NEW G, IsFiniteSet(G), NEW g, g \notin G, IsGrants(G \cup {g}),
         NEW p, NEW a \in Axis
  PROVE  Held(G \cup {g}, p, a) = Held(G, p, a) + (IF g.pid = p THEN g.amounts[a] ELSE 0)
<1> DEFINE H == G \cup {g}
           f == [k \in G |-> k.amounts[a]]
           F == [k \in H |-> k.amounts[a]]
           S == {k \in G : k.pid = p}
           T == {k \in H : k.pid = p}
<1>1. IsFiniteSet(S) /\ g \notin S
  BY FS_Subset
<1>2. (\A k \in S : F[k] \in Nat) /\ F[g] \in Nat /\ F[g] = g.amounts[a]
  BY HostGateAssumption DEF IsGrants, Amounts
<1>3. \A k \in S : F[k] = f[k]
  OBVIOUS
<1>4. T = IF g.pid = p THEN S \cup {g} ELSE S
  OBVIOUS
<1>5. Held(H, p, a) = Total(F, T) /\ Held(G, p, a) = Total(f, S)
  BY DEF Held
<1> HIDE DEF F, f, S, T, H
<1>6. Total(F, S) = Total(f, S)
  BY <1>3, TotalSame
<1>7. Total(F, S \cup {g}) = Total(F, S) + F[g]
  BY <1>1, <1>2, TotalWith
<1>8. Total(F, S) \in Nat
  BY <1>1, <1>2, TotalType
<1>9. QED
  BY <1>2, <1>4, <1>5, <1>6, <1>7, <1>8 DEF H

LEMMA HeldLess ==
  ASSUME NEW G, IsFiniteSet(G), IsGrants(G), NEW g \in G, NEW p, NEW a \in Axis
  PROVE  /\ IsFiniteSet(G \ {g}) /\ IsGrants(G \ {g})
         /\ Held(G \ {g}, p, a) \in Nat
         /\ Held(G, p, a) = Held(G \ {g}, p, a) + (IF g.pid = p THEN g.amounts[a] ELSE 0)
<1>1. IsFiniteSet(G \ {g}) /\ IsGrants(G \ {g}) /\ g \notin G \ {g}
  BY FS_Subset DEF IsGrants
<1>2. (G \ {g}) \cup {g} = G
  OBVIOUS
<1>3. Held((G \ {g}) \cup {g}, p, a)
        = Held(G \ {g}, p, a) + (IF g.pid = p THEN g.amounts[a] ELSE 0)
  BY <1>1, <1>2, HeldWith
<1>4. Held(G \ {g}, p, a) \in Nat
  BY <1>1, HeldType
<1>5. QED
  BY <1>1, <1>2, <1>3, <1>4

\* What others hold is not looked at.
LEMMA HeldOwn ==
  ASSUME NEW G, NEW H, NEW p, NEW a, {g \in G : g.pid = p} = {g \in H : g.pid = p}
  PROVE  Held(G, p, a) = Held(H, p, a)
<1> DEFINE f == [k \in G |-> k.amounts[a]]
           F == [k \in H |-> k.amounts[a]]
           S == {k \in G : k.pid = p}
<1>1. \A k \in S : f[k] = F[k]
  OBVIOUS
<1>2. Total(f, S) = Total(F, S)
  <2> HIDE DEF f, F, S
  <2> QED BY <1>1, TotalSame
<1>3. QED
  BY <1>2 DEF Held

\* A failed release loses a grant, and with it nothing of the account.
LEMMA HeldLost ==
  ASSUME NEW G, IsFiniteSet(G), IsGrants(G), NEW g \in G, NEW k, k \notin G,
         IsGrants({k}), k.pid = g.pid, k.amounts = g.amounts, NEW p, NEW a \in Axis
  PROVE  /\ IsFiniteSet((G \ {g}) \cup {k})
         /\ Held((G \ {g}) \cup {k}, p, a) = Held(G, p, a)
<1>1. /\ IsFiniteSet(G \ {g}) /\ IsGrants(G \ {g}) /\ Held(G \ {g}, p, a) \in Nat
      /\ Held(G, p, a) = Held(G \ {g}, p, a) + (IF g.pid = p THEN g.amounts[a] ELSE 0)
  BY HeldLess
<1>2. k \notin G \ {g} /\ IsGrants((G \ {g}) \cup {k})
  BY <1>1 DEF IsGrants
<1>3. Held((G \ {g}) \cup {k}, p, a)
        = Held(G \ {g}, p, a) + (IF k.pid = p THEN k.amounts[a] ELSE 0)
  BY <1>1, <1>2, HeldWith
<1>4. IsFiniteSet((G \ {g}) \cup {k})
  BY <1>1, FS_AddElement
<1>5. QED
  BY <1>1, <1>3, <1>4
---------------------------------------------------------------------------
(* The operations on a ledger keep it exact. *)

LEMMA ExactPruned ==
  ASSUME TypeOK, NEW l \in Ledger, NEW G, NEW o, Exact(l, G, o), NEW blind
  PROVE  Exact(Pruned(l, blind), G, o)
  BY PrunedFields, MeType DEF Exact

LEMMA ExactReconciled ==
  ASSUME NEW l \in Ledger, NEW G, NEW o, Exact(l, G, o), NEW caps \in Amounts
  PROVE  Exact(Reconciled(l, caps), G, o)
  BY ReconciledFields DEF Exact

\* Nobody is charged more than all are.
LEMMA ChargedOne ==
  ASSUME NEW l \in Ledger, NEW h \in Enforcing(l), NEW a \in Axis
  PROVE  l.amounts[h][a] <= Charged(l, a)
<1> DEFINE f == OnAxis(l, a)
           S == Enforcing(l)
<1>1. S \in SUBSET HolderId /\ IsFiniteSet(S) /\ \A k \in HolderId : f[k] \in Nat
  BY ChargedType
<1>2. f[h] = l.amounts[h][a] /\ Charged(l, a) = Total(f, S)
  BY <1>1 DEF OnAxis, Charged
<1> HIDE DEF f, S
<1>3. h \in S /\ f[h] \in Nat
  BY <1>1 DEF S
<1>4. IsFiniteSet({}) /\ h \notin {} /\ \A k \in {} : f[k] \in Nat
  BY FS_EmptySet
<1>5. Total(f, {} \cup {h}) = Total(f, {}) + f[h]
  BY <1>3, <1>4, TotalWith
<1>6. Total(f, {h}) = f[h]
  BY <1>3, <1>5, TotalEmpty
<1>7. {h} \in SUBSET S /\ (\A k \in S : f[k] \in Nat) /\ (\A k \in {h} : f[k] \in Nat)
      /\ (\A k \in {h} : f[k] <= f[k])
  BY <1>1, <1>3
<1>8. Total(f, {h}) <= Total(f, S)
  BY <1>1, <1>7, TotalShrink
<1>9. QED
  BY <1>2, <1>6, <1>8

\* A charge that counts leaves a ledger of the same boot.
LEMMA ChargeType ==
  ASSUME NEW l \in Ledger, NEW h \in HolderId, NEW amt \in Amounts
  PROVE  /\ ChargeHolder(l, h, amt, FALSE) \in Ledger
         /\ ChargeHolder(l, h, amt, FALSE).instance = l.instance
<1>1. PICK adv \in BOOLEAN : adv = FALSE
  OBVIOUS
<1>2. ChargeHolder(l, h, amt, adv) \in Ledger
      /\ ChargeHolder(l, h, amt, adv).instance = l.instance
  BY ChargeFields
<1>3. QED
  BY <1>1, <1>2

\* A charge that fits does not saturate.
LEMMA ChargeAdds ==
  ASSUME NEW l, Sound(l), l.advisory = {}, NEW h \in HolderId, NEW amt \in Amounts,
         \A a \in Axis : amt[a] <= SatSub(l.caps[a], Charged(l, a))
  PROVE  /\ \A a \in Axis :
              ChargeHolder(l, h, amt, FALSE).amounts[h][a] = l.amounts[h][a] + amt[a]
         /\ \A k \in HolderId \ {h} :
              ChargeHolder(l, h, amt, FALSE).amounts[k] = l.amounts[k]
<1>1. l \in Ledger
  BY DEF Sound
<1>2. \A k \in HolderId \ {h} :
        ChargeHolder(l, h, amt, FALSE).amounts[k] = l.amounts[k]
  BY <1>1 DEF ChargeHolder, Ledger
<1>3. ASSUME NEW a \in Axis
      PROVE  ChargeHolder(l, h, amt, FALSE).amounts[h][a] = l.amounts[h][a] + amt[a]
  <2>1. ChargeHolder(l, h, amt, FALSE).amounts[h][a] = SatAdd(l.amounts[h][a], amt[a])
    BY <1>1 DEF ChargeHolder, Ledger
  <2>2. /\ l.amounts[h][a] \in 0 .. Top /\ amt[a] \in 0 .. Top
        /\ l.caps[a] \in 0 .. Top /\ Charged(l, a) \in Nat /\ Top \in Nat
    BY <1>1, ChargedType, HostGateAssumption DEF Ledger, Amounts
  <2>3. l.amounts[h][a] <= Charged(l, a)
    <3>1. CASE h \in l.held
      BY <1>1, <3>1, ChargedOne DEF Enforcing
    <3>2. CASE h \notin l.held
      <4>1. l.amounts[h][a] = 0
        BY <3>2 DEF Sound, Zero
      <4>2. QED
        BY <2>2, <4>1
    <3>3. QED
      BY <3>1, <3>2
  <2>4. Charged(l, a) <= l.caps[a]
    BY DEF Sound
  <2>5. amt[a] <= l.caps[a] - Charged(l, a)
    <3>1. amt[a] <= SatSub(l.caps[a], Charged(l, a))
      OBVIOUS
    <3>2. QED
      BY <2>2, <2>4, <3>1 DEF SatSub
  <2>6. l.amounts[h][a] + amt[a] <= Top
    BY <2>2, <2>3, <2>5
  <2>7. QED
    BY <2>1, <2>2, <2>6 DEF SatAdd, Min2
<1>4. QED
  BY <1>2, <1>3

\* What is charged for a new grant shows on its owner's account.
LEMMA ExactCharge ==
  ASSUME TypeOK, NEW l, Sound(l), l.advisory = {}, NEW p \in Pid, NEW g,
         NEW G, IsFiniteSet(G), g \notin G, IsGrants(G \cup {g}), g.pid = p,
         NEW o \in [Pid -> Amounts], Exact(l, G, o),
         \A a \in Axis : g.amounts[a] <= SatSub(l.caps[a], Charged(l, a))
  PROVE  Exact(ChargeHolder(l, Me(p), g.amounts, FALSE), G \cup {g}, o)
<1> DEFINE m == ChargeHolder(l, Me(p), g.amounts, FALSE)
<1>1. Me(p) \in HolderId /\ g.amounts \in Amounts /\ IsGrants(G)
  BY MeType DEF IsGrants
<1>2. /\ \A a \in Axis : m.amounts[Me(p)][a] = l.amounts[Me(p)][a] + g.amounts[a]
      /\ \A k \in HolderId \ {Me(p)} : m.amounts[k] = l.amounts[k]
  BY <1>1, ChargeAdds
<1> HIDE DEF m
<1>3. ASSUME NEW q \in Pid, NEW a \in Axis, Up(q)
      PROVE  m.amounts[Me(q)][a] = Held(G \cup {g}, q, a) + o[q][a]
  <2>1. Held(G \cup {g}, q, a) = Held(G, q, a) + (IF g.pid = q THEN g.amounts[a] ELSE 0)
    BY HeldWith, SMTT(30)
  <2>2. l.amounts[Me(q)][a] = Held(G, q, a) + o[q][a]
    BY <1>3 DEF Exact
  <2>3. Held(G, q, a) \in Nat /\ o[q][a] \in Nat /\ g.amounts[a] \in Nat
    <3>1. Held(G, q, a) \in Nat
      BY <1>1, HeldType
    <3>2. QED
      BY <1>1, <3>1, HostGateAssumption DEF Amounts
  <2>4. CASE q = p
    BY <1>2, <2>1, <2>2, <2>3, <2>4
  <2>5. CASE q # p
    <3>1. Me(q) \in HolderId \ {Me(p)}
      BY <2>5, MeType
    <3>2. QED
      BY <1>2, <2>1, <2>2, <2>3, <2>5, <3>1
  <2>6. QED
    BY <2>4, <2>5
<1>4. QED
  BY <1>3 DEF Exact, m

\* What is handed to a process of which nothing was handed before shows on
\* its account; if it has gone, on nobody's.
LEMMA ExactHanded ==
  ASSUME TypeOK, NEW l, Sound(l), l.advisory = {}, NEW h \in HolderId,
         NEW amt \in Amounts,
         NEW G, IsFiniteSet(G), IsGrants(G),
         Exact(l, G, owed), Alive(h) => owed[h[1]] = Zero,
         \A a \in Axis : amt[a] <= SatSub(l.caps[a], Charged(l, a)),
         NEW o, o = IF Alive(h) THEN [owed EXCEPT ![h[1]] = amt] ELSE owed
  PROVE  Exact(ChargeHolder(l, h, amt, FALSE), G, o)
<1> DEFINE m == ChargeHolder(l, h, amt, FALSE)
<1>1. /\ \A a \in Axis : m.amounts[h][a] = l.amounts[h][a] + amt[a]
      /\ \A k \in HolderId \ {h} : m.amounts[k] = l.amounts[k]
  BY ChargeAdds
<1> HIDE DEF m
<1>2. ASSUME NEW q \in Pid, NEW a \in Axis, Up(q)
      PROVE  m.amounts[Me(q)][a] = Held(G, q, a) + o[q][a]
  <2>1. l.amounts[Me(q)][a] = Held(G, q, a) + owed[q][a]
    BY <1>2 DEF Exact
  <2>2. Held(G, q, a) \in Nat /\ owed \in [Pid -> Amounts] /\ amt[a] \in Nat
        /\ Me(q) \in HolderId /\ Me(q)[1] = q
    <3>1. Held(G, q, a) \in Nat
      BY HeldType
    <3>2. QED
      BY <3>1, MeType, HostGateAssumption DEF Amounts, TypeOK
  <2>3. CASE Me(q) = h
    <3>1. Alive(h) /\ h[1] = q
      BY <1>2, <2>2, <2>3 DEF Alive
    <3>2. owed[q][a] = 0
      BY <3>1 DEF Zero
    <3>3. o[q] = amt
      BY <2>2, <3>1
    <3>4. QED
      BY <1>1, <2>1, <2>2, <2>3, <3>2, <3>3
  <2>4. CASE Me(q) # h
    <3>1. o[q] = owed[q]
      BY <2>2, <2>4 DEF Alive
    <3>2. QED
      BY <1>1, <2>1, <2>2, <2>4, <3>1
  <2>5. QED
    BY <2>3, <2>4
<1>3. QED
  BY <1>2 DEF Exact, m

\* What a grant gives back leaves its owner's account.
LEMMA ExactDischarge ==
  ASSUME TypeOK, NEW l, Sound(l), NEW p \in Pid, Up(p), NEW G, IsFiniteSet(G),
         IsGrants(G), NEW g \in G, g.pid = p, Exact(l, G, owed)
  PROVE  Exact(Discharge(l, Me(p), g.amounts), G \ {g}, owed)
<1> DEFINE m == Discharge(l, Me(p), g.amounts)
<1>1. Me(p) \in HolderId /\ g.amounts \in Amounts /\ l \in Ledger
  BY MeType DEF IsGrants, Sound
<1>2. /\ \A k \in HolderId \ {Me(p)} : m.amounts[k] = l.amounts[k]
      /\ Me(p) \in l.held =>
           \A a \in Axis : m.amounts[Me(p)][a] = SatSub(l.amounts[Me(p)][a], g.amounts[a])
      /\ m.held \subseteq l.held
      /\ \A k \in HolderId : k \notin m.held => m.amounts[k] = Zero
  BY <1>1, DischargeFields
<1> HIDE DEF m
<1>3. ASSUME NEW q \in Pid, NEW a \in Axis, Up(q)
      PROVE  m.amounts[Me(q)][a] = Held(G \ {g}, q, a) + owed[q][a]
  <2>1. /\ Held(G \ {g}, q, a) \in Nat
        /\ Held(G, q, a) = Held(G \ {g}, q, a) + (IF g.pid = q THEN g.amounts[a] ELSE 0)
    <3>1. Held(G \ {g}, q, a) \in Nat
      BY HeldLess
    <3>2. Held(G, q, a) = Held(G \ {g}, q, a) + (IF g.pid = q THEN g.amounts[a] ELSE 0)
      BY HeldLess
    <3>3. QED
      BY <3>1, <3>2
  <2>2. l.amounts[Me(q)][a] = Held(G, q, a) + owed[q][a]
    BY <1>3 DEF Exact
  <2>3. owed[q][a] \in Nat /\ g.amounts[a] \in 0 .. Top /\ Top \in Nat
    BY <1>1, HostGateAssumption DEF Amounts, TypeOK
  <2>4. CASE q = p /\ Me(p) \in l.held
    <3>1. m.amounts[Me(q)][a] = SatSub(l.amounts[Me(q)][a], g.amounts[a])
      BY <1>2, <2>4
    <3>2. QED
      BY <2>1, <2>2, <2>3, <2>4, <3>1 DEF SatSub
  <2>5. CASE q = p /\ Me(p) \notin l.held
    <3>1. l.amounts[Me(q)][a] = 0 /\ m.amounts[Me(q)][a] = 0
      BY <1>1, <1>2, <2>5 DEF Sound, Zero
    <3>2. QED
      BY <2>1, <2>2, <2>3, <2>5, <3>1
  <2>6. CASE q # p
    <3>1. Me(q) \in HolderId \ {Me(p)}
      BY <2>6, MeType
    <3>2. QED
      BY <1>2, <2>1, <2>2, <2>3, <2>6, <3>1
  <2>7. QED
    BY <2>4, <2>5, <2>6
<1>4. QED
  BY <1>3 DEF Exact, m

\* What a transaction starts from, and what it has to write.
LEMMA ExactOpened ==
  ASSUME TypeOK, BudgetInv, Accountable, AccountInv, NEW p \in Pid
  PROVE  /\ Exact(Opened(p), grants, owed) /\ IsGrants(grants) /\ IsFiniteSet(grants)
         /\ Opened(p) \in Ledger /\ Sound(Opened(p)) /\ Opened(p).advisory = {}
         /\ Opened(p).instance = boot
<1>1. /\ Opened(p) \in Ledger /\ Sound(Opened(p)) /\ Opened(p).instance = boot
      /\ file.instance = boot => Opened(p) = file
      /\ file.instance # boot => Opened(p).held = {} /\ Opened(p).advisory = {}
  BY OpenedFields DEF BudgetInv
<1>2. IsGrants(grants) /\ IsFiniteSet(grants) /\ file.advisory = {}
  BY DEF TypeOK, IsGrants, AccountInv, Accountable, BudgetInv
<1>3. ASSUME NEW q \in Pid, NEW a \in Axis, Up(q)
      PROVE  Opened(p).amounts[Me(q)][a] = Held(grants, q, a) + owed[q][a]
  <2>1. (IF file.instance = boot THEN file.amounts[Me(q)][a] ELSE 0)
          = Held(grants, q, a) + owed[q][a]
    BY <1>3 DEF AccountInv, ExactAccounting, GrantsOf, Held
  <2>2. file.instance # boot => Opened(p).amounts[Me(q)] = Zero
    BY <1>1, MeType DEF Sound
  <2>3. QED
    BY <1>1, <2>1, <2>2 DEF Zero
<1>4. QED
  BY <1>1, <1>2, <1>3 DEF Exact

LEMMA ExactWritten ==
  ASSUME Exact(file', grants', owed'), file'.instance = boot, UNCHANGED <<boot, proc>>
  PROVE  ExactAccounting'
  BY DEF Exact, ExactAccounting, GrantsOf, Held, Up, Me
---------------------------------------------------------------------------
(* The steps. *)

\* Where run is left alone but for a phase, and nobody starts to hand over.
LEMMA KidsStay ==
  ASSUME KidsApart, UNCHANGED proc,
         \A w \in Wrapper :
           /\ run'[w].kid = run[w].kid /\ run'[w].to = run[w].to
           /\ run'[w].phase # run[w].phase => Up(w)
           /\ run'[w].phase \in {"spawned", "probed"} => run[w].phase \in {"spawned", "probed"}
           /\ run'[w].phase \in {"idle", "granted"} => run[w].phase \in {"idle", "granted"},
         \A w \in Wrapper : Handing(w)' => owed'[run[w].kid[1]] = owed[run[w].kid[1]]
  PROVE  KidsApart'
<1>1. \A w \in Wrapper : Handing(w)' => Handing(w)
  BY DEF Handing, Up
<1>2. \A w \in Wrapper : Alive(run[w].kid)' = Alive(run[w].kid) /\ Up(w)' = Up(w)
  BY DEF Alive, Up, Me
<1>3. QED
  BY <1>1, <1>2 DEF KidsApart

LEMMA AccountAcquire ==
  ASSUME TypeOK, BudgetInv, Accountable, AccountInv, NEW p \in Pid,
         NEW blind \in SUBSET Unreadable,
         NEW id \in GrantId, NEW req \in Request, Acquire(p, id, req, blind)
  PROVE  AccountInv'
<1> DEFINE l == Reconciled(Pruned(Opened(p), blind), proc[p].cap)
           g == FreshGrant(p, id, req)
<1>1. /\ Exact(Opened(p), grants, owed) /\ IsGrants(grants) /\ IsFiniteSet(grants)
      /\ Opened(p) \in Ledger /\ Sound(Opened(p)) /\ Opened(p).advisory = {}
      /\ Opened(p).instance = boot
  BY ExactOpened
<1>2. /\ req \in Amounts /\ proc[p].cap \in Amounts /\ ~Advisory(p) /\ Me(p) \in HolderId
      /\ owed \in [Pid -> Amounts]
      /\ run \in [Wrapper -> [phase : Phase, kid : HolderId, to : SUBSET HolderId]]
  BY OpenedFields, HostGateAssumption DEF Accountable, Advisory, TypeOK
<1>3. /\ Sound(Pruned(Opened(p), blind)) /\ Pruned(Opened(p), blind).advisory = {}
      /\ Exact(Pruned(Opened(p), blind), grants, owed)
      /\ Pruned(Opened(p), blind).instance = boot
  <2>1. Sound(Pruned(Opened(p), blind))
    BY <1>1, WithoutSound DEF Pruned
  <2>2. QED
    BY <1>1, <2>1, ExactPruned, PrunedFields
<1>4. Sound(l) /\ l.advisory = {} /\ Exact(l, grants, owed) /\ l.instance = boot
  BY <1>2, <1>3, ReconciledSound, ExactReconciled, ReconciledFields DEF Sound
<1>5. /\ g.pid = p /\ g.amounts = req /\ g \notin grants /\ IsGrants(grants \cup {g})
      /\ \A k \in grants : k.id # g.id
  BY <1>1, <1>2 DEF FreshGrant, IsGrants, Acquire
<1>6. /\ file' = IF Price(l, req) = "admit" THEN ChargeHolder(l, Me(p), req, FALSE) ELSE l
      /\ grants' = IF Price(l, req) = "admit" THEN grants \cup {g} ELSE grants
      /\ UNCHANGED <<boot, proc, owed>>
  <2>1. Advisory(p) = FALSE
    BY <1>2, OpenedFields
  <2> HIDE DEF g
  <2>2. UNCHANGED <<boot, proc, owed>>
    BY DEF Acquire
  <2>3. file' = IF Price(l, req) = "admit" THEN ChargeHolder(l, Me(p), req, FALSE) ELSE l
    BY <2>1 DEF Acquire
  <2>4. grants' = IF Price(l, req) = "admit" THEN grants \cup {g} ELSE grants
    BY <2>1 DEF Acquire, g
  <2>5. QED
    BY <2>2, <2>3, <2>4
<1> HIDE DEF l, g
<1>7. ASSUME Price(l, req) = "admit"
      PROVE  /\ Exact(file', grants', owed)
             /\ file'.instance = boot /\ IsFiniteSet(grants')
  <2>1. \A a \in Axis : req[a] <= SatSub(l.caps[a], Charged(l, a))
    <3> SUFFICES ASSUME NEW a \in Axis PROVE req[a] <= SatSub(l.caps[a], Charged(l, a))
      OBVIOUS
    <3>1. ~(req[a] > SatSub(l.caps[a], Charged(l, a)))
      BY <1>7 DEF Price
    <3>2. req[a] \in Int /\ SatSub(l.caps[a], Charged(l, a)) \in Int
      BY <1>2, <1>4, ChargedType, HostGateAssumption DEF Amounts, SatSub, Sound
    <3>3. QED
      BY <3>1, <3>2
  <2>2. Exact(ChargeHolder(l, Me(p), req, FALSE), grants \cup {g}, owed)
    BY <1>1, <1>2, <1>4, <1>5, <2>1, ExactCharge
  <2>3. ChargeHolder(l, Me(p), req, FALSE).instance = boot
    BY <1>4 DEF ChargeHolder, Sound, Ledger
  <2>4. IsFiniteSet(grants \cup {g})
    BY <1>1, FS_AddElement
  <2>5. QED
    BY <1>6, <1>7, <2>2, <2>3, <2>4
<1>8. Exact(file', grants', owed') /\ file'.instance = boot /\ IsFiniteSet(grants')
  BY <1>1, <1>4, <1>6, <1>7
<1>9. ExactAccounting'
  BY <1>6, <1>8, ExactWritten
<1>10. DownOwesNothing'
  BY <1>6 DEF AccountInv, DownOwesNothing, Up
<1>11. KidsApart'
  <2>1. \A w \in Wrapper :
          /\ run'[w].kid = run[w].kid /\ run'[w].to = run[w].to
          /\ run'[w].phase # run[w].phase => Up(w)
          /\ run'[w].phase \in {"spawned", "probed"} => run[w].phase \in {"spawned", "probed"}
          /\ run'[w].phase \in {"idle", "granted"} => run[w].phase \in {"idle", "granted"}
    BY <1>2 DEF Acquire
  <2>2. QED
    BY <1>6, <2>1, KidsStay DEF AccountInv
<1>12. GrantsApart'
  BY <1>5, <1>6 DEF AccountInv, GrantsApart
<1>13. QED
  BY <1>8, <1>9, <1>10, <1>11, <1>12 DEF AccountInv

LEMMA AccountRelease ==
  ASSUME TypeOK, BudgetInv, Accountable, AccountInv, NEW p \in Pid,
         NEW blind \in SUBSET Unreadable, NEW g \in grants, Release(p, g, blind)
  PROVE  AccountInv'
<1> DEFINE l == Discharge(Opened(p), Me(p), g.amounts)
<1>1. /\ Exact(Opened(p), grants, owed) /\ IsGrants(grants) /\ IsFiniteSet(grants)
      /\ Opened(p) \in Ledger /\ Sound(Opened(p)) /\ Opened(p).instance = boot
  BY ExactOpened
<1>2. /\ g.amounts \in Amounts /\ Me(p) \in HolderId /\ Up(p) /\ g.pid = p
      /\ run \in [Wrapper -> [phase : Phase, kid : HolderId, to : SUBSET HolderId]]
      /\ file' = Pruned(l, blind) /\ grants' = grants \ {g}
      /\ UNCHANGED <<boot, proc, owed>>
  BY OpenedFields DEF Release, TypeOK
<1>3. Exact(l, grants \ {g}, owed)
  BY <1>1, <1>2, ExactDischarge
<1>4. l \in Ledger /\ l.instance = boot
  BY <1>1, <1>2, DischargeType
<1> HIDE DEF l
<1>5. Exact(file', grants', owed') /\ file'.instance = boot
  BY <1>2, <1>3, <1>4, ExactPruned, PrunedFields
<1>6. ExactAccounting' /\ IsFiniteSet(grants')
  BY <1>1, <1>2, <1>5, ExactWritten, FS_Subset
<1>7. DownOwesNothing'
  BY <1>2 DEF AccountInv, DownOwesNothing, Up
<1>8. KidsApart'
  <2>1. \A w \in Wrapper :
          /\ run'[w].kid = run[w].kid /\ run'[w].to = run[w].to
          /\ run'[w].phase # run[w].phase => Up(w)
          /\ run'[w].phase \in {"spawned", "probed"} => run[w].phase \in {"spawned", "probed"}
          /\ run'[w].phase \in {"idle", "granted"} => run[w].phase \in {"idle", "granted"}
    BY <1>2 DEF Release, AfterRelease
  <2>2. QED
    BY <1>2, <2>1, KidsStay DEF AccountInv
<1>9. GrantsApart'
  BY <1>2 DEF AccountInv, GrantsApart
<1>10. QED
  BY <1>6, <1>7, <1>8, <1>9 DEF AccountInv

LEMMA AccountReleaseFails ==
  ASSUME TypeOK, AccountInv, NEW p \in Pid, NEW g \in grants, ReleaseFails(p, g)
  PROVE  AccountInv'
<1> DEFINE k == [g EXCEPT !.state = "lost"]
<1>1. /\ k.pid = g.pid /\ k.amounts = g.amounts /\ k.state = "lost" /\ k.id = g.id
      /\ IsGrants({k}) /\ IsGrants(grants) /\ IsFiniteSet(grants)
      /\ grants' = (grants \ {g}) \cup {k} /\ UNCHANGED <<boot, file, proc, owed>>
      /\ run \in [Wrapper -> [phase : Phase, kid : HolderId, to : SUBSET HolderId]]
  BY DEF ReleaseFails, TypeOK, IsGrants, AccountInv
<1>2. k \notin grants /\ \A j \in grants \ {g} : j.id # k.id
  BY <1>1 DEF AccountInv, GrantsApart, ReleaseFails
<1> HIDE DEF k
<1>3. IsFiniteSet(grants')
  BY <1>1, FS_Subset, FS_AddElement
<1>4. GrantsApart'
  BY <1>1, <1>2 DEF AccountInv, GrantsApart
<1>5. \A q \in Pid, a \in Axis : Held(grants', q, a) = Held(grants, q, a)
  BY <1>1, <1>2, HeldLost
<1>6. ExactAccounting'
  BY <1>1, <1>5 DEF AccountInv, ExactAccounting, GrantsOf, Held, Up, Me
<1>7. DownOwesNothing'
  BY <1>1 DEF AccountInv, DownOwesNothing, Up
<1>8. KidsApart'
  <2>1. \A w \in Wrapper :
          /\ run'[w].kid = run[w].kid /\ run'[w].to = run[w].to
          /\ run'[w].phase # run[w].phase => Up(w)
          /\ run'[w].phase \in {"spawned", "probed"} => run[w].phase \in {"spawned", "probed"}
          /\ run'[w].phase \in {"idle", "granted"} => run[w].phase \in {"idle", "granted"}
    BY <1>1 DEF ReleaseFails, AfterRelease
  <2>2. QED
    BY <1>1, <2>1, KidsStay DEF AccountInv
<1>9. QED
  BY <1>3, <1>4, <1>6, <1>7, <1>8 DEF AccountInv

LEMMA AccountCapacity ==
  ASSUME TypeOK, BudgetInv, Accountable, AccountInv, NEW p \in Pid,
         NEW blind \in SUBSET Unreadable, Capacity(p, blind)
  PROVE  AccountInv'
<1> DEFINE l == Reconciled(Pruned(Opened(p), blind), proc[p].cap)
<1>1. /\ Exact(Opened(p), grants, owed) /\ Opened(p) \in Ledger /\ Opened(p).instance = boot
  BY ExactOpened
<1>2. proc[p].cap \in Amounts /\ UNCHANGED <<boot, proc, grants, run, owed>>
  BY OpenedFields DEF Capacity
<1>3. /\ Pruned(Opened(p), blind) \in Ledger /\ Pruned(Opened(p), blind).instance = boot
      /\ Exact(Pruned(Opened(p), blind), grants, owed)
  BY <1>1, ExactPruned, PrunedFields
<1>4. Exact(l, grants, owed) /\ l.instance = boot
  BY <1>2, <1>3, ExactReconciled, ReconciledFields
<1>5. file' = l \/ file' = file
  BY DEF Capacity
<1> HIDE DEF l
<1>6. ExactAccounting'
  <2>1. CASE file' = l
    BY <1>2, <1>4, <2>1, ExactWritten
  <2>2. CASE file' = file
    BY <1>2, <2>2 DEF AccountInv, ExactAccounting, GrantsOf, Up, Me
  <2>3. QED
    BY <1>5, <2>1, <2>2
<1>7. KidsApart'
  BY <1>2, KidsStay DEF AccountInv
<1>8. QED
  BY <1>2, <1>6, <1>7 DEF AccountInv, GrantsApart, DownOwesNothing, Up

\* transfer_to: what leaves the wrapper's account comes to the child's.
LEMMA AccountTransfer ==
  ASSUME TypeOK, BudgetInv, Accountable, AccountInv, NEW w \in Wrapper,
         NEW blind \in SUBSET Unreadable, NEW g \in grants, Transfer(w, g, blind)
  PROVE  AccountInv'
<1> DEFINE o == Opened(w)
           kid == run[w].kid
           paid == Discharge(o, Me(w), g.amounts)
           G == grants \ {g}
<1>1. /\ w \in Pid /\ g.amounts \in Amounts /\ Me(w) \in HolderId /\ Up(w)
      /\ g.pid = w /\ g.state = "armed" /\ grants' = G /\ UNCHANGED <<boot, proc>>
      /\ run \in [Wrapper -> [phase : Phase, kid : HolderId, to : SUBSET HolderId]]
      /\ kid \in HolderId /\ kid[1] \in Pid /\ Handing(w) /\ run[w].to \subseteq {kid}
      /\ owed \in [Pid -> Amounts]
      /\ run' = [run EXCEPT ![w].phase = "waiting"]
  BY OpenedFields, HostGateAssumption
  DEF Transfer, TypeOK, HolderId, Handing, AccountInv, KidsApart
<1>2. /\ Exact(o, grants, owed) /\ IsGrants(grants) /\ IsFiniteSet(grants)
      /\ o \in Ledger /\ Sound(o) /\ o.advisory = {} /\ o.instance = boot
  BY <1>1, ExactOpened
<1>3. /\ Sound(paid) /\ paid.instance = boot /\ paid.advisory = {}
      /\ Exact(paid, G, owed) /\ IsFiniteSet(G) /\ IsGrants(G)
  <2>1. Sound(paid) /\ paid.instance = boot
    BY <1>1, <1>2, DischargeSound, DischargeType
  <2>2. paid.advisory = {}
    <3>1. o \in Ledger /\ Sound(o) /\ Me(w) \in HolderId /\ g.amounts \in Amounts /\ o.advisory = {}
      BY <1>1, <1>2
    <3> HIDE DEF o
    <3>2. paid.advisory \subseteq o.advisory
      BY <3>1, DischargeFields
    <3>3. QED
      BY <3>1, <3>2
  <2>3. Exact(paid, G, owed)
    BY <1>1, <1>2, ExactDischarge
  <2>4. IsFiniteSet(G) /\ IsGrants(G)
    BY <1>2, FS_Subset DEF IsGrants
  <2>5. QED
    BY <2>1, <2>2, <2>3, <2>4
<1>4. \A a \in Axis : g.amounts[a] <= SatSub(paid.caps[a], Charged(paid, a))
  <2>1. Me(w) \in Enforcing(o) /\ \A a \in Axis : g.amounts[a] <= o.amounts[Me(w)][a]
    BY <1>1, <1>2, BudgetOpened DEF Covers, Enforcing
  <2>2. QED
    BY <1>1, <1>2, <2>1, MoveFits
<1>5. Alive(kid) => owed[kid[1]] = Zero
  BY <1>1 DEF AccountInv, KidsApart
<1> HIDE DEF o, paid, G
<1>6. Exact(file', G, owed') /\ file'.instance = boot
  <2>1. CASE run[w].to = {} /\ file' = Pruned(paid, blind)
    <3>1. owed' = owed
      BY <2>1 DEF Transfer
    <3>2. QED
      BY <1>3, <2>1, <3>1, ExactPruned, PrunedFields DEF Sound
  <2>2. CASE run[w].to # {}
             /\ file' = Pruned(ChargeHolder(paid, kid, g.amounts, FALSE), blind)
    <3> DEFINE m == ChargeHolder(paid, kid, g.amounts, FALSE)
    <3>1. owed' = IF Alive(kid) THEN [owed EXCEPT ![kid[1]] = g.amounts] ELSE owed
      BY <2>2 DEF Transfer
    <3>2. m \in Ledger /\ m.instance = boot
      <4>1. paid \in Ledger
        BY <1>3 DEF Sound
      <4>2. m \in Ledger /\ m.instance = paid.instance
        BY <1>1, <4>1, ChargeType
      <4>3. QED
        BY <1>3, <4>2
    <3> HIDE DEF kid
    <3>3. Exact(m, G, owed')
      BY <1>1, <1>3, <1>4, <1>5, <3>1, ExactHanded
    <3> HIDE DEF m
    <3>4. QED
      BY <2>2, <3>2, <3>3, ExactPruned, PrunedFields DEF m
  <2>3. QED
    BY <1>1, <2>1, <2>2 DEF Transfer, paid, o
<1>7. ExactAccounting' /\ IsFiniteSet(grants')
  BY <1>1, <1>3, <1>6, ExactWritten
<1>8. GrantsApart'
  BY <1>1 DEF AccountInv, GrantsApart, G
<1>9. owed' = owed \/ (Alive(kid) /\ owed' = [owed EXCEPT ![kid[1]] = g.amounts])
  BY DEF Transfer
<1>10. DownOwesNothing'
  BY <1>1, <1>9 DEF AccountInv, DownOwesNothing, Up, Alive
<1>11. KidsApart'
  <2>1. \A v \in Wrapper :
          /\ run'[v].kid = run[v].kid /\ run'[v].to = run[v].to
          /\ run'[v].phase # run[v].phase => Up(v)
          /\ run'[v].phase \in {"spawned", "probed"} => run[v].phase \in {"spawned", "probed"}
          /\ run'[v].phase \in {"idle", "granted"} => run[v].phase \in {"idle", "granted"}
    BY <1>1
  <2>2. ASSUME NEW v \in Wrapper, Handing(v)'
        PROVE  owed'[run[v].kid[1]] = owed[run[v].kid[1]]
    <3>1. v # w /\ Handing(v)
      BY <1>1, <2>2 DEF Handing, Up
    <3>2. run[v].kid[1] # kid[1]
      BY <1>1, <3>1 DEF AccountInv, KidsApart
    <3>3. run[v].kid[1] \in Pid
      BY <1>1 DEF HolderId
    <3>4. QED
      BY <1>1, <1>9, <3>2, <3>3
  <2>3. QED
    BY <1>1, <2>1, <2>2, KidsStay DEF AccountInv
<1>12. QED
  BY <1>7, <1>8, <1>10, <1>11 DEF AccountInv

\* A new incarnation of p: no record is its own yet, it has no grant, and
\* nothing was handed to it.
LEMMA AccountStarted ==
  ASSUME TypeOK, BootInv, BudgetInv, AccountInv, NEW p \in Pid,
         ~Up(p), proc[p].start < MaxStart,
         NEW mode \in Mode, NEW cap \in Cap,
         proc' = [proc EXCEPT ![p] = [up |-> TRUE, start |-> @.start + 1,
                                      mode |-> mode, cap |-> cap]],
         UNCHANGED <<boot, file, grants, owed>>
  PROVE  IsFiniteSet(grants') /\ GrantsApart' /\ ExactAccounting' /\ DownOwesNothing'
<1>1. /\ proc \in [Pid -> [up : BOOLEAN, start : 0 .. MaxStart, mode : Mode, cap : Cap]]
      /\ proc[p].start \in Nat /\ MaxStart \in Nat
      /\ Up(p)' /\ proc'[p].start = proc[p].start + 1
      /\ \A q \in Pid \ {p} : proc'[q] = proc[q]
  BY HostGateAssumption DEF TypeOK, Up
<1>2. ASSUME NEW q \in Pid, NEW a \in Axis, Up(q)'
      PROVE  (IF file.instance = boot THEN file.amounts[Me(q)'][a] ELSE 0)
               = GrantsOf(q, a) + owed[q][a]
  <2>1. CASE q # p
    <3>1. Up(q) /\ Me(q)' = Me(q)
      BY <1>1, <1>2, <2>1 DEF Up, Me
    <3>2. QED
      BY <3>1 DEF AccountInv, ExactAccounting
  <2>2. CASE q = p
    <3>1. GrantsOf(p, a) = 0
      <4>1. IsFiniteSet(grants) /\ IsGrants(grants)
        BY DEF AccountInv, TypeOK, IsGrants
      <4>2. \A g \in grants : g.pid # p
        BY DEF BudgetInv, Backed
      <4>3. QED
        BY <4>1, <4>2, HeldType DEF Held, GrantsOf
    <3>2. owed[p][a] = 0
      BY DEF AccountInv, DownOwesNothing, Zero
    <3>3. ASSUME file.instance = boot PROVE file.amounts[Me(p)'][a] = 0
      <4>1. Me(p)' = <<p, proc[p].start + 1>> /\ Me(p)' \in HolderId
        BY <1>1 DEF Me, HolderId
      <4>2. Me(p)' \notin file.held
        <5>1. <<p, proc[p].start + 1>>[1] = p /\ <<p, proc[p].start + 1>>[2] = proc[p].start + 1
          OBVIOUS
        <5>2. ~ (proc[p].start + 1 <= proc[p].start)
          BY <1>1
        <5>3. QED
          BY <3>3, <4>1, <5>1, <5>2 DEF BootInv, NoRecordFromAnotherBoot
      <4>3. QED
        BY <4>1, <4>2 DEF BudgetInv, Sound, Zero
    <3>4. QED
      BY <2>2, <3>1, <3>2, <3>3
  <2>3. QED
    BY <2>1, <2>2
<1>3. ExactAccounting'
  BY <1>2 DEF ExactAccounting, GrantsOf
<1>4. DownOwesNothing'
  BY <1>1 DEF AccountInv, DownOwesNothing, Up
<1>5. QED
  BY <1>3, <1>4 DEF AccountInv, GrantsApart

\* Spawn takes a pid that nobody waits for; so does the machine.
LEMMA AccountSpawn ==
  ASSUME TypeOK, BootInv, BudgetInv, AccountInv,
         NEW w \in Wrapper, NEW c \in Pid, Spawn(w, c)
  PROVE  AccountInv'
<1>1. /\ w \in Pid /\ ~Up(c) /\ c \notin Wrapper /\ w # c
      /\ run \in [Wrapper -> [phase : Phase, kid : HolderId, to : SUBSET HolderId]]
      /\ proc[w].mode \in Mode /\ proc[w].cap \in Cap
  BY HostGateAssumption DEF Spawn, TypeOK
<1>2. IsFiniteSet(grants') /\ GrantsApart' /\ ExactAccounting' /\ DownOwesNothing'
  BY <1>1, AccountStarted DEF Spawn
<1>3. /\ run'[w].phase = "spawned" /\ run'[w].to = run[w].to
      /\ run'[w].kid = <<c, proc[c].start + 1>>
      /\ \A v \in Wrapper \ {w} : run'[v] = run[v]
  BY <1>1 DEF Spawn
<1>4. \A v \in Wrapper : Up(v)' = Up(v)
  BY <1>1 DEF Spawn, TypeOK, Up
<1>5. \A v \in Wrapper \ {w} :
        /\ Handing(v)' = Handing(v)
        /\ Handing(v) => run[v].kid[1] # c /\ (Alive(run[v].kid)' = Alive(run[v].kid))
  <2> SUFFICES ASSUME NEW v \in Wrapper \ {w}
               PROVE  /\ Handing(v)' = Handing(v)
                      /\ Handing(v) => /\ run[v].kid[1] # c
                                       /\ Alive(run[v].kid)' = Alive(run[v].kid)
    OBVIOUS
  <2>1. Handing(v)' = Handing(v) /\ (Handing(v) => run[v].kid[1] # c)
    BY <1>3 DEF Handing, Spawn, AccountInv, KidsApart
  <2>2. run[v].kid[1] # c => (Alive(run[v].kid)' = Alive(run[v].kid))
    BY <1>3 DEF Spawn, TypeOK, Alive, Up, Me
  <2>3. QED
    BY <2>1, <2>2
<1>6. owed[c] = Zero /\ run[w].to = {} /\ owed' = owed /\ Up(w)
  BY <1>1 DEF AccountInv, DownOwesNothing, KidsApart, Spawn
<1>7. ASSUME NEW u \in Wrapper
      PROVE  /\ run'[u].phase # "idle" => Up(u)'
             /\ run'[u].to \subseteq {run'[u].kid}
             /\ run'[u].phase \in {"idle", "granted"} => run'[u].to = {}
             /\ Handing(u)' =>
                  /\ run'[u].kid[1] \notin Wrapper
                  /\ Alive(run[u].kid)' => owed'[run'[u].kid[1]] = Zero
                  /\ \A v \in Wrapper \ {u} :
                       Handing(v)' => run'[v].kid[1] # run'[u].kid[1]
  <2>1. CASE u = w
    BY <1>1, <1>3, <1>4, <1>5, <1>6, <2>1
  <2>2. CASE u # w
    <3>1. /\ run[u].phase # "idle" => Up(u)
          /\ run[u].to \subseteq {run[u].kid}
          /\ run[u].phase \in {"idle", "granted"} => run[u].to = {}
          /\ Handing(u) =>
               /\ run[u].kid[1] \notin Wrapper
               /\ Alive(run[u].kid) => owed[run[u].kid[1]] = Zero
               /\ \A v \in Wrapper \ {u} : Handing(v) => run[v].kid[1] # run[u].kid[1]
      BY DEF AccountInv, KidsApart
    <3>2. run'[u] = run[u] /\ Handing(u)' = Handing(u)
          /\ (Handing(u) => run[u].kid[1] # c /\ (Alive(run[u].kid)' = Alive(run[u].kid)))
      BY <1>3, <1>5, <2>2
    <3>3. ASSUME Handing(u), NEW v \in Wrapper \ {u}, Handing(v)'
          PROVE  run'[v].kid[1] # run'[u].kid[1]
      <4>1. CASE v = w
        BY <1>3, <3>2, <3>3, <4>1
      <4>2. CASE v # w
        BY <1>3, <1>5, <3>1, <3>2, <3>3, <4>2
      <4>3. QED
        BY <4>1, <4>2
    <3>4. QED
      BY <1>4, <1>6, <3>1, <3>2, <3>3
  <2>3. QED
    BY <2>1, <2>2
<1>8. KidsApart'
  BY <1>7 DEF KidsApart
<1>9. QED
  BY <1>2, <1>8 DEF AccountInv

LEMMA AccountStart ==
  ASSUME TypeOK, BootInv, BudgetInv, AccountInv,
         NEW p \in Pid, NEW mode \in Mode, NEW cap \in Cap, Start(p, mode, cap)
  PROVE  AccountInv'
<1>1. IsFiniteSet(grants') /\ GrantsApart' /\ ExactAccounting' /\ DownOwesNothing'
  BY AccountStarted DEF Start
<1>2. /\ run' = run /\ owed' = owed /\ Wrapper \subseteq Pid
      /\ \A q \in Pid : Up(q) => Up(q)'
      /\ \A w \in Wrapper : Handing(w)' = Handing(w)
  BY HostGateAssumption DEF Start, TypeOK, Up, Handing
<1>3. ASSUME NEW w \in Wrapper, Handing(w)
      PROVE  Alive(run[w].kid)' = Alive(run[w].kid)
  <2>1. run[w].kid[1] # p
    BY <1>3 DEF AccountInv, KidsApart, Handing, Start
  <2>2. QED
    BY <2>1 DEF Start, TypeOK, Alive, Up, Me
<1>4. KidsApart'
  BY <1>2, <1>3 DEF AccountInv, KidsApart
<1>5. QED
  BY <1>1, <1>4 DEF AccountInv

\* A process takes its grants and what it was handed with it.
LEMMA AccountDie ==
  ASSUME TypeOK, AccountInv, NEW p \in Pid, Die(p)
  PROVE  AccountInv'
<1>1. /\ grants' = {g \in grants : g.pid # p} /\ UNCHANGED <<boot, file>>
      /\ \A q \in Pid \ {p} : proc'[q] = proc[q] /\ owed'[q] = owed[q]
      /\ ~Up(p)' /\ owed'[p] = Zero
      /\ owed \in [Pid -> Amounts] /\ Wrapper \subseteq Pid
  BY HostGateAssumption DEF Die, TypeOK, Down, Up
<1>2. IsFiniteSet(grants') /\ GrantsApart'
  BY <1>1, FS_Subset DEF AccountInv, GrantsApart
<1>3. ExactAccounting'
  <2> SUFFICES ASSUME NEW q \in Pid, NEW a \in Axis, Up(q)'
               PROVE  (IF file.instance = boot THEN file.amounts[Me(q)'][a] ELSE 0)
                        = Held(grants', q, a) + owed'[q][a]
    BY <1>1 DEF ExactAccounting, GrantsOf, Held
  <2>1. q # p /\ Up(q) /\ Me(q)' = Me(q) /\ owed'[q] = owed[q]
    BY <1>1 DEF Up, Me
  <2>2. {g \in grants' : g.pid = q} = {g \in grants : g.pid = q}
    BY <1>1, <2>1
  <2>3. Held(grants', q, a) = Held(grants, q, a)
    BY <2>2, HeldOwn
  <2>4. QED
    BY <2>1, <2>3 DEF AccountInv, ExactAccounting, GrantsOf, Held
<1>4. DownOwesNothing'
  BY <1>1 DEF AccountInv, DownOwesNothing, Up
<1>5. \A w \in Wrapper :
        (w = p => run'[w] = Idle(w)) /\ (w # p => run'[w] = run[w])
  BY DEF Die, Forget, TypeOK
<1>6. \A w \in Wrapper : w = p => /\ ~Handing(w)' /\ run'[w].phase = "idle"
                                   /\ run'[w].to = {}
  <2>1. \A w \in Wrapper : Idle(w).phase = "idle" /\ Idle(w).to = {}
    BY DEF Idle
  <2>2. \A w \in Wrapper : w = p => run'[w].phase = "idle" /\ run'[w].to = {}
    BY <1>5, <2>1
  <2>3. QED
    BY <2>2 DEF Handing
<1>7. ASSUME NEW w \in Wrapper, Handing(w)'
      PROVE  /\ w # p /\ Handing(w)
             /\ Alive(run[w].kid)' => Alive(run[w].kid) /\ run[w].kid[1] # p
             /\ run[w].kid[1] \in Pid
  <2>1. w # p /\ Handing(w) /\ run'[w] = run[w]
    BY <1>5, <1>6, <1>7 DEF Handing
  <2>2. run[w].kid[1] \in Pid
    BY DEF TypeOK, HolderId
  <2>3. QED
    BY <1>1, <2>1, <2>2 DEF Alive, Up, Me
<1>8. KidsApart'
  <2> SUFFICES ASSUME NEW w \in Wrapper
               PROVE  /\ run'[w].phase # "idle" => Up(w)'
                      /\ run'[w].to \subseteq {run'[w].kid}
                      /\ run'[w].phase \in {"idle", "granted"} => run'[w].to = {}
                      /\ Handing(w)' =>
                           /\ run'[w].kid[1] \notin Wrapper
                           /\ Alive(run[w].kid)' => owed'[run'[w].kid[1]] = Zero
                           /\ \A v \in Wrapper \ {w} :
                                Handing(v)' => run'[v].kid[1] # run'[w].kid[1]
    BY DEF KidsApart
  <2>1. CASE w = p
    BY <1>6, <2>1
  <2>2. CASE w # p
    <3>1. run'[w] = run[w] /\ Up(w)' = Up(w)
      BY <1>1, <1>5, <2>2 DEF Up
    <3>2. \A v \in Wrapper : Handing(v)' => Handing(v) /\ run'[v] = run[v]
      BY <1>5, <1>7
    <3>3. Handing(w)' => (Alive(run[w].kid)' => owed'[run[w].kid[1]] = Zero)
      BY <1>1, <1>7 DEF AccountInv, KidsApart
    <3>4. QED
      BY <3>1, <3>2, <3>3 DEF AccountInv, KidsApart
  <2>3. QED
    BY <2>1, <2>2
<1>9. QED
  BY <1>2, <1>3, <1>4, <1>8 DEF AccountInv

\* The steps of a wrapper that touch no ledger, no grant and no process.
LEMMA AccountQuiet ==
  ASSUME TypeOK, Accountable, AccountInv, NEW w \in Wrapper,
         \/ \E blind \in SUBSET Unreadable : ProbeChild(w, blind)
         \/ TransferFails(w)
         \/ Reap(w)
  PROVE  AccountInv'
<1>1. /\ run \in [Wrapper -> [phase : Phase, kid : HolderId, to : SUBSET HolderId]]
      /\ UNCHANGED <<boot, file, proc, grants, owed>>
      /\ Up(w) /\ run[w].phase \notin {"idle", "granted"}
  BY DEF TypeOK, ProbeChild, TransferFails, Reap
<1>2. IsFiniteSet(grants') /\ GrantsApart' /\ ExactAccounting' /\ DownOwesNothing'
  BY <1>1 DEF AccountInv, GrantsApart, ExactAccounting, GrantsOf, DownOwesNothing, Up, Me
<1>3. /\ \A v \in Wrapper \ {w} : run'[v] = run[v]
      /\ run'[w].kid = run[w].kid /\ run'[w].phase \notin {"idle", "granted"}
      /\ Handing(w)' => Handing(w)
      /\ run'[w].to \subseteq {run[w].kid}
  <2>1. CASE TransferFails(w) \/ Reap(w)
    BY <1>1, <2>1 DEF TransferFails, Reap, Handing, AccountInv, KidsApart
  <2>2. ASSUME NEW blind \in SUBSET Unreadable, ProbeChild(w, blind)
        PROVE  /\ \A v \in Wrapper \ {w} : run'[v] = run[v]
               /\ run'[w].kid = run[w].kid /\ run'[w].phase = "probed"
               /\ Handing(w)
               /\ run'[w].to \subseteq {run[w].kid}
    <3>1. run[w].phase = "spawned" /\ run[w].kid[1] \notin Wrapper
      BY <2>2 DEF ProbeChild, AccountInv, KidsApart, Handing
    <3>2. run[w].kid[1] \notin blind
      BY <3>1 DEF Accountable
    <3>3. /\ run'[w].to = {h \in {run[w].kid} : Alive(h)}
          /\ run'[w].kid = run[w].kid /\ run'[w].phase = "probed"
          /\ \A v \in Wrapper \ {w} : run'[v] = run[v]
      BY <1>1, <2>2, <3>2 DEF ProbeChild
    <3>4. QED
      BY <3>1, <3>3 DEF Handing
  <2>3. QED
    BY <2>1, <2>2
<1>4. \A v \in Wrapper : /\ run'[v].kid = run[v].kid /\ (Handing(v)' => Handing(v))
                         /\ Alive(run[v].kid)' = Alive(run[v].kid) /\ Up(v)' = Up(v)
  BY <1>1, <1>3 DEF Handing, Alive, Up, Me
<1>5. KidsApart'
  BY <1>1, <1>3, <1>4 DEF AccountInv, KidsApart
<1>6. QED
  BY <1>2, <1>5 DEF AccountInv

LEMMA AccountReset ==
  ASSUME grants' = {}, owed' = [p \in Pid |-> Zero],
         run' = [w \in Wrapper |-> Idle(w)], proc' = [p \in Pid |-> Down(0)]
  PROVE  AccountInv'
<1>1. \A p \in Pid : ~Up(p)' /\ owed'[p] = Zero
  BY DEF Up, Down
<1>2. \A w \in Wrapper : ~Handing(w)' /\ run'[w].to = {} /\ run'[w].phase = "idle"
  BY DEF Handing, Idle
<1>3. IsFiniteSet(grants') /\ GrantsApart'
  BY FS_EmptySet DEF GrantsApart
<1>4. ExactAccounting' /\ DownOwesNothing'
  BY <1>1 DEF ExactAccounting, DownOwesNothing
<1>5. KidsApart'
  BY <1>2 DEF KidsApart
<1>6. QED
  BY <1>3, <1>4, <1>5 DEF AccountInv
---------------------------------------------------------------------------
(* The theorems. *)

LEMMA AccountStep ==
  ASSUME Accountable, TypeOK, BootInv, BudgetInv, AccountInv, [Next]_vars
  PROVE  AccountInv'
<1>1. ASSUME NEW p \in Pid, NEW blind \in SUBSET Unreadable, Transaction(p, blind)
      PROVE  AccountInv'
  BY <1>1, AccountAcquire, AccountRelease, AccountCapacity, AccountTransfer DEF Transaction
<1>2. ASSUME NEW p \in Pid, NEW g \in grants, ReleaseFails(p, g)
      PROVE  AccountInv'
  BY <1>2, AccountReleaseFails
<1>3. ASSUME NEW w \in Wrapper, RunStep(w)
      PROVE  AccountInv'
  BY <1>3, AccountSpawn, AccountQuiet DEF RunStep
<1>4. CASE Machine
  <2>1. CASE Reboot
    BY <2>1, AccountReset DEF Reboot
  <2>2. QED
    BY <1>4, <2>1, AccountStart, AccountDie DEF Machine
<1>5. CASE UNCHANGED vars
  BY <1>5
  DEF vars, AccountInv, GrantsApart, ExactAccounting, GrantsOf, DownOwesNothing,
      KidsApart, Handing, Alive, Up, Me
<1>6. QED
  BY <1>1, <1>2, <1>3, <1>4, <1>5 DEF Next

LEMMA AccountInit == Init => AccountInv
<1> SUFFICES ASSUME Init PROVE AccountInv
  OBVIOUS
<1>1. (\A p \in Pid : ~Up(p) /\ owed[p] = Zero) /\ grants = {}
  BY DEF Init, Up, Down
<1>2. \A w \in Wrapper : run[w].phase = "idle" /\ run[w].to = {}
  BY DEF Init, Idle
<1>3. QED
  BY <1>1, <1>2, FS_EmptySet
  DEF AccountInv, GrantsApart, ExactAccounting, DownOwesNothing, KidsApart, Handing

LEMMA AccountInvariant ==
  ASSUME Accountable
  PROVE  Spec => []AccountInv
<1>1. Unmixed
  BY DEF Accountable, Unmixed
<1>2. TypeOK /\ BootInv /\ BudgetInv /\ AccountInv /\ [Next]_vars => AccountInv'
  BY AccountStep
<1>3. Spec => []BudgetInv
  BY <1>1, BudgetInvariant
<1>4. QED
  BY <1>2, <1>3, AccountInit, BootInvariant, TypeCorrect, PTL DEF Spec

\* Where every process enforces and a wrapper can read its child's start time,
\* a running process is charged exactly what its grants took and what it was
\* handed, through every acquire, release, transfer, prune, fault and restart.
THEOREM AccountsAreExact ==
  ASSUME Accountable
  PROVE  Spec => []ExactAccounting
<1>1. AccountInv => ExactAccounting
  BY DEF AccountInv
<1>2. QED
  BY <1>1, AccountInvariant, PTL

\* Under the same condition a child keeps what transfer_to charged it with for
\* as long as it runs, though its wrapper may be killed and others prune.
THEOREM ChildIsKeptCharged ==
  ASSUME Accountable
  PROVE  Spec => []ChildKeepsCharge
<1>1. TypeOK /\ AccountInv => ChildKeepsCharge
  <2> SUFFICES ASSUME TypeOK, AccountInv, NEW p \in Pid, NEW a \in Axis, Up(p)
               PROVE  owed[p][a] <= file.amounts[Me(p)][a]
    BY DEF ChildKeepsCharge
  <2>1. GrantsOf(p, a) \in Nat
    <3>1. IsFiniteSet(grants) /\ IsGrants(grants)
      BY DEF AccountInv, TypeOK, IsGrants
    <3>2. Held(grants, p, a) \in Nat
      BY <3>1, HeldType
    <3>3. QED
      BY <3>2 DEF Held, GrantsOf
  <2>2. owed[p][a] \in Nat /\ file.amounts[Me(p)][a] \in Nat
    BY MeType, HostGateAssumption DEF TypeOK, Amounts, Ledger
  <2>3. (IF file.instance = boot THEN file.amounts[Me(p)][a] ELSE 0)
          = GrantsOf(p, a) + owed[p][a]
    BY DEF AccountInv, ExactAccounting
  <2>4. QED
    BY <2>1, <2>2, <2>3
<1>2. QED
  BY <1>1, AccountInvariant, TypeCorrect, PTL
---------------------------------------------------------------------------
(* No transaction takes from somebody else. *)

\* The holder k is charged no less on m than on l.
Spares(l, m, k) == \A a \in Axis : m.amounts[k][a] >= l.amounts[k][a]

LEMMA SparesTrans ==
  ASSUME NEW l \in Ledger, NEW m \in Ledger, NEW n \in Ledger, NEW k \in HolderId,
         Spares(l, m, k), Spares(m, n, k)
  PROVE  Spares(l, n, k)
<1>1. \A a \in Axis : l.amounts[k][a] \in Int /\ m.amounts[k][a] \in Int
                      /\ n.amounts[k][a] \in Int
  BY HostGateAssumption DEF Ledger, Amounts
<1>2. QED
  BY <1>1 DEF Spares

LEMMA SparesPruned ==
  ASSUME TypeOK, NEW l \in Ledger, NEW p \in Pid, Up(p), NEW blind
  PROVE  Spares(l, Pruned(l, blind), Me(p)) /\ Pruned(l, blind) \in Ledger
<1>1. Pruned(l, blind).amounts[Me(p)] = l.amounts[Me(p)] /\ Pruned(l, blind) \in Ledger
  BY MeType, PrunedFields
<1>2. \A a \in Axis : l.amounts[Me(p)][a] \in Int
  BY MeType, HostGateAssumption DEF Ledger, Amounts
<1>3. QED
  BY <1>1, <1>2 DEF Spares

LEMMA SparesReconciled ==
  ASSUME NEW l \in Ledger, NEW k \in HolderId, NEW caps \in Amounts
  PROVE  Spares(l, Reconciled(l, caps), k) /\ Reconciled(l, caps) \in Ledger
<1>1. Reconciled(l, caps).amounts = l.amounts /\ Reconciled(l, caps) \in Ledger
  BY ReconciledFields
<1>2. \A a \in Axis : l.amounts[k][a] \in Int
  BY HostGateAssumption DEF Ledger, Amounts
<1>3. QED
  BY <1>1, <1>2 DEF Spares

LEMMA SparesCharge ==
  ASSUME NEW l \in Ledger, NEW k \in HolderId, NEW h \in HolderId,
         NEW amt \in Amounts, NEW adv \in BOOLEAN
  PROVE  Spares(l, ChargeHolder(l, h, amt, adv), k) /\ ChargeHolder(l, h, amt, adv) \in Ledger
<1> DEFINE m == ChargeHolder(l, h, amt, adv)
<1>1. m \in Ledger
  BY ChargeFields
<1>2. /\ \A j \in HolderId \ {h} : m.amounts[j] = l.amounts[j]
      /\ \A a \in Axis : l.amounts[h][a] <= m.amounts[h][a]
  BY ChargeAmounts
<1> HIDE DEF m
<1>3. \A a \in Axis : l.amounts[k][a] \in Int /\ m.amounts[k][a] \in Int
  BY <1>1, HostGateAssumption DEF Ledger, Amounts
<1>4. Spares(l, m, k)
  BY <1>2, <1>3 DEF Spares
<1>5. QED
  BY <1>1, <1>4 DEF m

LEMMA SparesDischarge ==
  ASSUME NEW l \in Ledger, NEW k \in HolderId, NEW h \in HolderId \ {k},
         NEW amt \in Amounts
  PROVE  Spares(l, Discharge(l, h, amt), k) /\ Discharge(l, h, amt) \in Ledger
<1> DEFINE rest == [a \in Axis |-> SatSub(l.amounts[h][a], amt[a])]
           m == Discharge(l, h, amt)
<1>1. m = IF h \notin l.held THEN l
          ELSE IF rest = Zero THEN Without(l, {h})
          ELSE [l EXCEPT !.amounts[h] = rest]
  BY DEF Discharge
<1>2. m \in Ledger
  BY DischargeType
<1> HIDE DEF rest
<1>3. m.amounts[k] = l.amounts[k]
  <2>1. Without(l, {h}).amounts[k] = l.amounts[k]
    <3>1. Without(l, {h}).amounts =
            [j \in HolderId |-> IF j \in {h} THEN Zero ELSE l.amounts[j]]
      BY WithoutFields
    <3>2. QED
      BY <3>1
  <2>2. [l EXCEPT !.amounts[h] = rest].amounts[k] = l.amounts[k]
    BY DEF Ledger
  <2> HIDE DEF m
  <2>3. QED
    BY <1>1, <2>1, <2>2
<1>4. \A a \in Axis : l.amounts[k][a] \in Int
  BY HostGateAssumption DEF Ledger, Amounts
<1> HIDE DEF m
<1>5. Spares(l, m, k)
  BY <1>3, <1>4 DEF Spares
<1>6. QED
  BY <1>2, <1>5 DEF m

LEMMA TransactionSpares ==
  ASSUME TypeOK, file.instance = boot, NEW p \in Pid, Up(p),
         NEW q \in Pid, NEW blind \in SUBSET Unreadable, Transaction(q, blind),
         {g \in grants' : g.pid = p} = {g \in grants : g.pid = p}
  PROVE  Spares(file, file', Me(p))
<1>0. /\ Opened(q) = file /\ file \in Ledger /\ proc[q].cap \in Amounts
      /\ Me(p) \in HolderId /\ Me(q) \in HolderId /\ Advisory(q) \in BOOLEAN
      /\ \A g \in grants : g.amounts \in Amounts
      /\ q # p => Me(q) # Me(p)
  BY OpenedFields, MeType DEF TypeOK
<1> DEFINE l == Reconciled(Pruned(file, blind), proc[q].cap)
<1>1. l \in Ledger /\ Spares(file, l, Me(p))
  <2>1. Spares(file, Pruned(file, blind), Me(p)) /\ Pruned(file, blind) \in Ledger
    BY <1>0, SparesPruned
  <2>2. Spares(Pruned(file, blind), l, Me(p)) /\ l \in Ledger
    BY <1>0, <2>1, SparesReconciled
  <2> HIDE DEF l
  <2>3. QED
    BY <1>0, <2>1, <2>2, SparesTrans
<1>2. Spares(file, file, Me(p))
  <2>1. \A a \in Axis : file.amounts[Me(p)][a] \in Int
    BY <1>0, HostGateAssumption DEF Ledger, Amounts
  <2>2. QED
    BY <2>1 DEF Spares
<1>3. ASSUME NEW id \in GrantId, NEW req \in Request, Acquire(q, id, req, blind)
      PROVE  Spares(file, file', Me(p))
  <2>1. file' \in {l, ChargeHolder(l, Me(q), req, Advisory(q))} /\ req \in Amounts
    BY <1>0, <1>3, HostGateAssumption DEF Acquire
  <2> HIDE DEF l
  <2>2. /\ Spares(l, ChargeHolder(l, Me(q), req, Advisory(q)), Me(p))
        /\ ChargeHolder(l, Me(q), req, Advisory(q)) \in Ledger
    BY <1>0, <1>1, <2>1, SparesCharge
  <2>3. Spares(file, ChargeHolder(l, Me(q), req, Advisory(q)), Me(p))
    BY <1>0, <1>1, <2>2, SparesTrans
  <2>4. QED
    BY <1>1, <2>1, <2>3
<1>4. ASSUME NEW g \in grants, Release(q, g, blind) \/ Transfer(q, g, blind)
      PROVE  Me(q) # Me(p) /\ g.amounts \in Amounts
  <2>1. g.pid = q /\ grants' = grants \ {g}
    BY <1>4 DEF Release, Transfer
  <2>2. q # p
    BY <2>1
  <2>3. QED
    BY <1>0, <2>2
<1>5. ASSUME NEW g \in grants, Release(q, g, blind)
      PROVE  Spares(file, file', Me(p))
  <2> DEFINE m == Discharge(file, Me(q), g.amounts)
  <2>1. Spares(file, m, Me(p)) /\ m \in Ledger
    BY <1>0, <1>4, <1>5, SparesDischarge
  <2>2. file' = Pruned(m, blind)
    BY <1>0, <1>5 DEF Release
  <2> HIDE DEF m
  <2>3. Spares(m, file', Me(p)) /\ file' \in Ledger
    BY <2>1, <2>2, SparesPruned
  <2>4. QED
    BY <1>0, <2>1, <2>3, SparesTrans
<1>6. CASE Capacity(q, blind)
  <2>1. file' \in {l, file}
    BY <1>0, <1>6 DEF Capacity
  <2>2. QED
    BY <1>1, <1>2, <2>1
<1>7. ASSUME q \in Wrapper, NEW g \in grants, Transfer(q, g, blind)
      PROVE  Spares(file, file', Me(p))
  <2> DEFINE m == Discharge(file, Me(q), g.amounts)
  <2>1. Spares(file, m, Me(p)) /\ m \in Ledger
    BY <1>0, <1>4, <1>7, SparesDischarge
  <2>2. \/ file' = Pruned(m, blind)
        \/ \E h \in run[q].to : file' = Pruned(ChargeHolder(m, h, g.amounts, FALSE), blind)
    BY <1>0, <1>7 DEF Transfer
  <2>3. run[q].to \subseteq HolderId
    BY <1>7 DEF TypeOK
  <2> HIDE DEF m
  <2>4. ASSUME NEW n \in Ledger, Spares(file, n, Me(p)), file' = Pruned(n, blind)
        PROVE  Spares(file, file', Me(p))
    <3>1. Spares(n, file', Me(p)) /\ file' \in Ledger
      BY <2>4, SparesPruned
    <3>2. QED
      BY <1>0, <2>4, <3>1, SparesTrans
  <2>5. ASSUME NEW h \in run[q].to,
               file' = Pruned(ChargeHolder(m, h, g.amounts, FALSE), blind)
        PROVE  Spares(file, file', Me(p))
    <3> DEFINE n == ChargeHolder(m, h, g.amounts, FALSE)
    <3>1. PICK adv \in BOOLEAN : adv = FALSE
      OBVIOUS
    <3>2. Spares(m, ChargeHolder(m, h, g.amounts, adv), Me(p))
          /\ ChargeHolder(m, h, g.amounts, adv) \in Ledger
      BY <1>0, <1>4, <1>7, <2>1, <2>3, SparesCharge
    <3>3. Spares(m, n, Me(p)) /\ n \in Ledger
      BY <3>1, <3>2
    <3> HIDE DEF n
    <3>4. Spares(file, n, Me(p))
      BY <1>0, <2>1, <3>3, SparesTrans
    <3>5. QED
      BY <2>4, <2>5, <3>3, <3>4 DEF n
  <2>6. QED
    BY <2>1, <2>2, <2>4, <2>5
<1>8. QED
  BY <1>3, <1>5, <1>6, <1>7 DEF Transaction

\* Whoever acquires, releases, transfers or prunes, and whatever it cannot
\* read of the process table, what another live process is charged does not
\* fall, except by a transfer of that process's own; in any mixture of modes.
THEOREM NobodyElseIsDischarged == Spec => NoForeignDischarge
<1>1. ASSUME TypeOK, [Next]_vars
      PROVE
        \A p \in Pid :
          (Up(p) /\ Up(p)' /\ boot' = boot /\ file.instance = boot
             /\ {g \in grants' : g.pid = p} = {g \in grants : g.pid = p})
            => \A a \in Axis : file'.amounts[Me(p)][a] >= file.amounts[Me(p)][a]
  <2> SUFFICES ASSUME NEW p \in Pid, Up(p), boot' = boot, file.instance = boot,
                      {g \in grants' : g.pid = p} = {g \in grants : g.pid = p}
               PROVE  Spares(file, file', Me(p))
    BY DEF Spares
  <2>1. CASE file' = file
    <3>1. \A a \in Axis : file.amounts[Me(p)][a] \in Int
      BY <1>1, MeType, HostGateAssumption DEF TypeOK, Ledger, Amounts
    <3>2. QED
      BY <2>1, <3>1 DEF Spares
  <2>2. ASSUME NEW q \in Pid, NEW blind \in SUBSET Unreadable, Transaction(q, blind)
        PROVE  Spares(file, file', Me(p))
    BY <1>1, <2>2, TransactionSpares
  <2>3. (\E q \in Pid, blind \in SUBSET Unreadable : Transaction(q, blind)) \/ file' = file
    BY <1>1
    DEF Next, ReleaseFails, RunStep, Spawn, ProbeChild, TransferFails, Reap, Machine,
        Start, Die, Reboot, vars
  <2>4. QED
    BY <2>1, <2>2, <2>3
<1>2. TypeOK /\ [Next]_vars =>
        \A p \in Pid :
          (Up(p) /\ Up(p)' /\ boot' = boot /\ file.instance = boot
             /\ {g \in grants' : g.pid = p} = {g \in grants : g.pid = p})
            => \A a \in Axis : file'.amounts[Me(p)][a] >= file.amounts[Me(p)][a]
  BY <1>1
<1>3. QED
  BY <1>2, TypeCorrect, PTL DEF Spec, NoForeignDischarge
===========================================================================
