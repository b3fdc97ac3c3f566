--------------------------- MODULE RequestsProofs ---------------------------
(***************************************************************************)
(* Proofs about the request path, for any keys, clients, limits, window,   *)
(* sweep interval, menus and bounds: a limiter never lets more than its    *)
(* limit through a window, a function keeps its circuit, and a pending     *)
(* invocation has a handler that works on it.                              *)
(*                                                                         *)
(* None of the three is inductive.  The limiter needs that what was popped *)
(* had aged and that a request never carries a time of the future; the     *)
(* invocations need that no two handlers work on one row, that only the    *)
(* handlers of an invocation hold a row, and that rows of an earlier boot  *)
(* can be told from those of this one.                                     *)
(***************************************************************************)
EXTENDS Requests, NaturalsInduction, WellFoundedInduction, TLAPS

Requested == UNION {Menu[l][t] : l \in Limits, t \in Tasks}
Steps == {"idle", "ip", "auth", "subject", "body", "answered", "insert",
          "create", "source", "compute", "finish"} \cup Calls
Results == {None, "refused", "completed", "failed"}
Task == [pc : Steps, req : Requested \cup {None}, stamp : Nat,
         inv : Invocations \cup {None}, result : Results]
Entry == [stamp : Nat, at : Nat]
Row == [status : {"free", "pending", "completed", "failed"}, boot : Nat, lost : BOOLEAN]
Working == {"source", "compute", "finish"}

\* The state has its types.
TypeOK ==
    /\ clock \in Nat /\ limit \in Limits /\ boot \in Nat
    /\ log \in [Keys -> Seq(Entry)]
    /\ front \in [Keys -> Nat]
    /\ task \in [Tasks -> Task]
    /\ DOMAIN circuits = Circuits
    /\ DOMAIN functions = Functions
    /\ invocations \in [Invocations -> Row]

\* What was popped had aged: it is older than a window.
PoppedAged ==
    \A k \in Keys :
        /\ front[k] <= Len(log[k])
        /\ \A i \in 1..front[k] : clock - log[k][i].stamp >= Window

\* A request that is in the hands of the server has its request record, does
\* not carry a time of the future, and works on a row only as an invocation.
TasksRight ==
    \A t \in Tasks :
        /\ task[t].stamp <= clock
        /\ task[t].pc \notin {"idle", "answered"} => task[t].req \in Requested
        /\ task[t].inv # None => task[t].pc \in Working \cup {"answered"}
        /\ task[t].pc \in Working => task[t].inv # None
        /\ task[t].pc = "finish" => task[t].result \in {"completed", "failed"}

\* No two handlers work on one row, and a row that is worked on was inserted;
\* every row was inserted in this boot or before.
RowsOwned ==
    /\ \A t, u \in Tasks : t # u /\ task[t].inv # None => task[t].inv # task[u].inv
    /\ \A t \in Tasks : task[t].inv # None => invocations[task[t].inv].status # "free"
    /\ \A v \in Invocations : invocations[v].boot <= boot

IInv == TypeOK /\ PoppedAged /\ WindowRespected /\ TasksRight /\ RowsRefer
            /\ RowsOwned /\ InvocationsSettle

-----------------------------------------------------------------------------
(* Facts about the limiter.                                                *)

\* A set of naturals that is not empty has a least element.
LEMMA Least ==
  ASSUME NEW S \in SUBSET Nat, S # {}
  PROVE  \E m \in S : \A n \in S : m <= n
<1>1. PICK m \in S : \A n \in S : ~(<<n, m>> \in OpToRel(<, Nat))
  BY NatLessThanWellFounded, WFMin
<1>2. \A n \in S : ~(n < m)
  BY <1>1 DEF OpToRel
<1>3. QED
  BY <1>2

\* The items of a sequence.
LEMMA SeqItems ==
  ASSUME NEW S, NEW s \in Seq(S)
  PROVE  Len(s) \in Nat /\ DOMAIN s = 1..Len(s) /\ \A i \in 1..Len(s) : s[i] \in S
OBVIOUS

\* What the types say of one deque.
LEMMA Deque ==
  ASSUME TypeOK, PoppedAged, NEW k \in Keys
  PROVE  /\ Len(log[k]) \in Nat /\ front[k] \in Nat /\ front[k] <= Len(log[k])
         /\ \A i \in 1..Len(log[k]) : log[k][i] \in Entry /\ log[k][i].stamp \in Nat
         /\ DOMAIN log[k] = 1..Len(log[k])
<1>1. log[k] \in Seq(Entry) /\ front[k] \in Nat
  BY DEF TypeOK
<1>2. /\ Len(log[k]) \in Nat /\ DOMAIN log[k] = 1..Len(log[k])
      /\ \A i \in 1..Len(log[k]) : log[k][i] \in Entry
  BY <1>1, SeqItems
<1>3. QED
  BY <1>1, <1>2 DEF PoppedAged, Entry

\* The pops of a check end at an entry that stays, and take only aged ones.
LEMMA PoppedToIs ==
  ASSUME TypeOK, PoppedAged, NEW k \in Keys, NEW now
  PROVE  /\ PoppedTo(k, now) \in front[k]..Len(log[k])
         /\ \A i \in (front[k] + 1)..PoppedTo(k, now) : Aged(k, i, now)
         /\ PoppedTo(k, now) = Len(log[k]) \/ ~Aged(k, PoppedTo(k, now) + 1, now)
<1> DEFINE Stops == {f \in front[k]..Len(log[k]) : f = Len(log[k]) \/ ~Aged(k, f + 1, now)}
<1>1. Len(log[k]) \in Nat /\ front[k] \in Nat /\ front[k] <= Len(log[k])
  BY Deque
<1>2. Stops \in SUBSET Nat /\ Len(log[k]) \in Stops
  BY <1>1
<1>3. PICK m \in Stops : \A n \in Stops : m <= n
  BY <1>2, Least
<1>4. m \in Nat /\ front[k] <= m /\ m <= Len(log[k])
  BY <1>1
<1>5. ASSUME NEW i \in (front[k] + 1)..m
      PROVE  Aged(k, i, now)
  <2>1. i \in Nat /\ i - 1 \in front[k]..Len(log[k]) /\ ~(m <= i - 1)
    BY <1>1, <1>4, <1>5
  <2>2. i - 1 \notin Stops
    BY <1>3, <2>1
  <2>3. (i - 1) + 1 = i /\ i - 1 # Len(log[k])
    BY <1>1, <1>4, <2>1
  <2>4. QED
    BY <2>1, <2>2, <2>3
<1>6. /\ m \in front[k]..Len(log[k])
      /\ \A i \in (front[k] + 1)..m : Aged(k, i, now)
      /\ m = Len(log[k]) \/ ~Aged(k, m + 1, now)
  BY <1>3, <1>5
<1>7. QED
  BY <1>6 DEF PoppedTo

\* An entry that has aged for a request has aged for the clock.
LEMMA AgedForClock ==
  ASSUME TypeOK, PoppedAged, NEW k \in Keys, NEW now \in Nat, now <= clock,
         NEW i \in 1..PoppedTo(k, now)
  PROVE  clock - log[k][i].stamp >= Window /\ i <= Len(log[k])
<1>1. /\ Len(log[k]) \in Nat /\ front[k] \in Nat /\ front[k] <= Len(log[k])
      /\ \A j \in 1..Len(log[k]) : log[k][j].stamp \in Nat
  BY Deque
<1>2. PoppedTo(k, now) \in front[k]..Len(log[k])
  BY PoppedToIs
<1>3. i \in Nat /\ 1 <= i /\ i <= Len(log[k]) /\ log[k][i].stamp \in Nat
  BY <1>1, <1>2
<1>4. clock \in Nat /\ Window \in Nat \ {0}
  BY RateAssumption DEF TypeOK
<1>5. CASE i <= front[k]
  BY <1>1, <1>3, <1>5 DEF PoppedAged
<1>6. CASE ~(i <= front[k])
  <2>1. i \in (front[k] + 1)..PoppedTo(k, now)
    BY <1>1, <1>2, <1>3, <1>6
  <2>2. Aged(k, i, now)
    BY <2>1, PoppedToIs
  <2>3. now - log[k][i].stamp >= Window
    BY <2>2, <1>3, <1>4 DEF Aged, duration_since
  <2>4. QED
    BY <2>3, <1>3, <1>4
<1>7. QED
  BY <1>5, <1>6

\* The deques after a sweep, whether or not an entry is appended to one.
LimiterOK ==
    /\ limit \in Limits
    /\ log \in [Keys -> Seq(Entry)] /\ front \in [Keys -> Nat]
    /\ PoppedAged /\ WindowRespected

LEMMA SweepKeeps ==
  ASSUME TypeOK, PoppedAged, WindowRespected, NEW k \in Keys, NEW now \in Nat, now <= clock,
         Sweep(k, now), UNCHANGED <<clock, limit, log>>
  PROVE  LimiterOK'
<1>1. ASSUME NEW j \in Keys
      PROVE  /\ front'[j] \in Nat /\ front'[j] <= Len(log[j])
             /\ \A i \in 1..front'[j] : clock - log[j][i].stamp >= Window
  <2>1. Len(log[j]) \in Nat /\ front[j] \in Nat /\ front[j] <= Len(log[j])
    BY Deque
  <2>2. front'[j] = IF j \in Swept(k) THEN PoppedTo(j, now) ELSE front[j]
    BY DEF Sweep
  <2>3. CASE j \in Swept(k)
    <3>1. PoppedTo(j, now) \in front[j]..Len(log[j])
      BY PoppedToIs
    <3>2. \A i \in 1..PoppedTo(j, now) : clock - log[j][i].stamp >= Window
      BY AgedForClock
    <3>3. QED
      BY <2>1, <2>2, <2>3, <3>1, <3>2
  <2>4. CASE j \notin Swept(k)
    BY <2>1, <2>2, <2>4 DEF PoppedAged
  <2>5. QED
    BY <2>3, <2>4
<1>2. front' \in [Keys -> Nat]
  BY <1>1 DEF Sweep
<1>3. PoppedAged'
  BY <1>1 DEF PoppedAged
<1>4. WindowRespected'
  BY DEF WindowRespected, Off
<1>5. QED
  BY <1>2, <1>3, <1>4 DEF TypeOK, LimiterOK

\* A request that is let through comes a window after the one that stands as
\* many places before it as the limit says: that one was popped.
LEMMA EntryKeeps ==
  ASSUME TypeOK, PoppedAged, WindowRespected, NEW k \in Keys, NEW now \in Nat, now <= clock,
         LetThrough(k, now)
  PROVE  LimiterOK' /\ UNCHANGED clock
<1>1. CASE Off(k) /\ UNCHANGED rateVars
  BY <1>1 DEF TypeOK, LimiterOK, rateVars, PoppedAged, WindowRespected, Off
<1>2. CASE /\ ~Off(k) /\ ~Full(k, now)
           /\ Sweep(k, now)
           /\ log' = [log EXCEPT ![k] = Append(@, [stamp |-> now, at |-> clock])]
           /\ UNCHANGED <<clock, limit>>
  <2> DEFINE e == [stamp |-> now, at |-> clock]
             n == Len(log[k])
  <2>1. e \in Entry /\ clock \in Nat
    BY DEF Entry, TypeOK
  <2>2. log \in [Keys -> Seq(Entry)] /\ log[k] \in Seq(Entry) /\ n \in Nat
    BY Deque DEF TypeOK
  <2>3. log'[k] = Append(log[k], e) /\ \A j \in Keys \ {k} : log'[j] = log[j]
    BY <1>2, <2>2
  <2>4. log' \in [Keys -> Seq(Entry)]
    BY <1>2, <2>1, <2>2
  <2>5. /\ Len(log'[k]) = n + 1 /\ DOMAIN log'[k] = 1..(n + 1)
        /\ \A i \in 1..n : log'[k][i] = log[k][i]
        /\ log'[k][n + 1] = e
    BY <2>1, <2>2, <2>3
  <2>6. ASSUME NEW j \in Keys
        PROVE  /\ front'[j] \in Nat /\ front'[j] <= Len(log[j])
               /\ \A i \in 1..front'[j] : clock - log[j][i].stamp >= Window
    <3>1. Len(log[j]) \in Nat /\ front[j] \in Nat /\ front[j] <= Len(log[j])
      BY Deque
    <3>2. front'[j] = IF j \in Swept(k) THEN PoppedTo(j, now) ELSE front[j]
      BY <1>2 DEF Sweep
    <3>3. PoppedTo(j, now) \in front[j]..Len(log[j])
      BY PoppedToIs
    <3>4. \A i \in 1..PoppedTo(j, now) : clock - log[j][i].stamp >= Window
      BY AgedForClock
    <3>5. \A i \in 1..front[j] : clock - log[j][i].stamp >= Window
      BY DEF PoppedAged
    <3>6. QED
      BY <3>1, <3>2, <3>3, <3>4, <3>5
  <2>7. front' \in [Keys -> Nat]
    BY <1>2, <2>6 DEF Sweep
  <2>8. PoppedAged'
    <3> SUFFICES ASSUME NEW j \in Keys
                 PROVE  /\ front'[j] <= Len(log'[j])
                        /\ \A i \in 1..front'[j] : clock - log'[j][i].stamp >= Window
      BY <1>2 DEF PoppedAged
    <3>1. CASE j = k
      BY <2>2, <2>5, <2>6, <3>1
    <3>2. CASE j # k
      BY <2>3, <2>6, <3>2
    <3>3. QED
      BY <3>1, <3>2
  <2>9. limit[Surface[k]] \in Nat \ {0} /\ Window \in Nat
    BY <1>2, RateAssumption DEF TypeOK, Off
  <2>10. ASSUME NEW i \in Nat, i >= 1, i + limit[Surface[k]] = n + 1
         PROVE  clock - log'[k][i].stamp >= Window
    <3>1. PoppedTo(k, now) \in front[k]..n /\ front[k] \in Nat
      BY PoppedToIs, Deque
    <3>2. ~(n - PoppedTo(k, now) >= limit[Surface[k]])
      BY <1>2 DEF Full
    <3>3. i \in 1..PoppedTo(k, now) /\ i \in 1..n
      BY <2>2, <2>9, <2>10, <3>1, <3>2
    <3>4. clock - log[k][i].stamp >= Window
      BY <3>3, AgedForClock
    <3>5. QED
      BY <2>5, <3>3, <3>4
  <2>11. WindowRespected'
    <3> SUFFICES ASSUME NEW j \in Keys, ~Off(j), NEW i \in DOMAIN log'[j],
                        i + limit[Surface[j]] \in DOMAIN log'[j]
                 PROVE  log'[j][i + limit[Surface[j]]].at - log'[j][i].stamp >= Window
      BY <1>2 DEF WindowRespected, Off
    <3>1. CASE j # k
      BY <2>3, <3>1 DEF WindowRespected
    <3>2. CASE j = k /\ i + limit[Surface[k]] = n + 1
      BY <2>5, <2>10, <3>2
    <3>3. CASE j = k /\ i + limit[Surface[k]] # n + 1
      <4>1. i \in 1..n /\ i + limit[Surface[k]] \in 1..n
        BY <2>2, <2>5, <2>9, <3>3
      <4>2. DOMAIN log[k] = 1..n
        BY Deque
      <4>3. log[k][i + limit[Surface[k]]].at - log[k][i].stamp >= Window
        BY <3>3, <4>1, <4>2 DEF WindowRespected
      <4>4. QED
        BY <2>5, <3>3, <4>1, <4>3
    <3>4. QED
      BY <3>1, <3>2, <3>3
  <2>12. QED
    BY <1>2, <2>4, <2>7, <2>8, <2>11 DEF TypeOK, LimiterOK
<1>3. QED
  BY <1>1, <1>2 DEF LetThrough

\* A request that is refused only sweeps.
LEMMA RefusalKeeps ==
  ASSUME TypeOK, PoppedAged, WindowRespected, NEW k \in Keys, NEW now \in Nat, now <= clock,
         Throttle(k, now)
  PROVE  LimiterOK' /\ UNCHANGED clock
BY SweepKeeps DEF Throttle

-----------------------------------------------------------------------------
(* Facts about the tasks and their rows.                                   *)

Handlers == task \in [Tasks -> Task] /\ TasksRight /\ RowsOwned /\ InvocationsSettle

\* What the invariant says of one task.
LEMMA OneTask ==
  ASSUME IInv, NEW t \in Tasks
  PROVE  /\ task[t] \in Task /\ task[t].pc \in Steps /\ task[t].stamp \in Nat
         /\ task[t].inv \in Invocations \cup {None} /\ task[t].result \in Results
         /\ task[t].req \in Requested \cup {None}
         /\ task[t].stamp <= clock
         /\ task[t].pc \notin {"idle", "answered"} => task[t].req \in Requested
         /\ task[t].pc \notin Working \cup {"answered"} => task[t].inv = None
<1>1. task[t] \in Task
  BY DEF IInv, TypeOK
<1>2. QED
  BY <1>1 DEF IInv, TasksRight, Task

\* A request that is on its menu names keys of the two limiters.
LEMMA RequestedIs ==
  ASSUME NEW r \in Requested
  PROVE  r.ip \in Keys /\ r.sub \in Keys /\ r.call \in Calls
BY RequestsAssumption DEF Requested

\* A task that works on no row, and will work on none, disturbs no row.
LEMMA QuietTask ==
  ASSUME IInv, NEW t \in Tasks, NEW r \in Task, task' = [task EXCEPT ![t] = r],
         UNCHANGED <<invocations, boot, clock>>,
         task[t].pc \notin Working, r.pc \notin Working, r.inv = None, r.stamp <= clock,
         r.pc \notin {"idle", "answered"} => r.req \in Requested
  PROVE  Handlers'
<1>1. task \in [Tasks -> Task]
  BY DEF IInv, TypeOK
<1>2. task' \in [Tasks -> Task] /\ task'[t] = r /\ \A u \in Tasks \ {t} : task'[u] = task[u]
  BY <1>1
<1>3. TasksRight'
  <2> SUFFICES ASSUME NEW u \in Tasks
               PROVE  /\ task'[u].stamp <= clock
                      /\ task'[u].pc \notin {"idle", "answered"} => task'[u].req \in Requested
                      /\ task'[u].inv # None => task'[u].pc \in Working \cup {"answered"}
                      /\ task'[u].pc \in Working => task'[u].inv # None
                      /\ task'[u].pc = "finish" => task'[u].result \in {"completed", "failed"}
    BY DEF TasksRight
  <2>1. CASE u = t
    BY <1>2, <2>1 DEF Working
  <2>2. CASE u # t
    BY <1>2, <2>2 DEF IInv, TasksRight
  <2>3. QED
    BY <2>1, <2>2
<1>4. RowsOwned'
  BY <1>2 DEF IInv, RowsOwned
<1>5. InvocationsSettle'
  BY <1>2 DEF IInv, InvocationsSettle, At, Working
<1>6. QED
  BY <1>2, <1>3, <1>4, <1>5 DEF Handlers

\* A handler that goes on working keeps its row.
LEMMA WorkingTask ==
  ASSUME IInv, NEW t \in Tasks, NEW r \in Task, task' = [task EXCEPT ![t] = r],
         UNCHANGED <<invocations, boot, clock>>,
         task[t].pc \in Working, r.pc \in Working, r.inv = task[t].inv,
         r.stamp <= clock, r.req = task[t].req,
         r.pc = "finish" => r.result \in {"completed", "failed"}
  PROVE  Handlers'
<1>1. task \in [Tasks -> Task]
  BY DEF IInv, TypeOK
<1>2. task' \in [Tasks -> Task] /\ task'[t] = r /\ \A u \in Tasks \ {t} : task'[u] = task[u]
  BY <1>1
<1>3. TasksRight'
  <2> SUFFICES ASSUME NEW u \in Tasks
               PROVE  /\ task'[u].stamp <= clock
                      /\ task'[u].pc \notin {"idle", "answered"} => task'[u].req \in Requested
                      /\ task'[u].inv # None => task'[u].pc \in Working \cup {"answered"}
                      /\ task'[u].pc \in Working => task'[u].inv # None
                      /\ task'[u].pc = "finish" => task'[u].result \in {"completed", "failed"}
    BY DEF TasksRight
  <2>1. CASE u = t
    BY <1>2, <2>1 DEF IInv, TasksRight, Working
  <2>2. CASE u # t
    BY <1>2, <2>2 DEF IInv, TasksRight
  <2>3. QED
    BY <2>1, <2>2
<1>4. RowsOwned'
  BY <1>2 DEF IInv, RowsOwned
<1>5. InvocationsSettle'
  <2>1. ASSUME NEW v \in Invocations, invocations[v].status = "pending"
        PROVE  \/ invocations[v].boot # boot \/ invocations[v].lost
               \/ \E u \in Tasks : task'[u].inv = v /\ task'[u].pc \in Working
    BY <1>2, <2>1 DEF IInv, InvocationsSettle, Working
  <2>2. ASSUME NEW u \in Tasks, task'[u].pc = "answered", task'[u].inv # None
        PROVE  invocations[task'[u].inv].status = task'[u].result \/ invocations[task'[u].inv].lost
    BY <1>2, <2>2 DEF IInv, InvocationsSettle, At, Working
  <2>3. QED
    BY <2>1, <2>2 DEF InvocationsSettle, At, Working
<1>6. QED
  BY <1>2, <1>3, <1>4, <1>5 DEF Handlers

\* The record of an answered task.
Answered(t, result) == [Idle EXCEPT !.pc = "answered", !.inv = task[t].inv, !.result = result]

LEMMA AnsweredIs ==
  ASSUME IInv, NEW t \in Tasks, NEW result \in Results
  PROVE  /\ Answered(t, result) \in Task /\ Answered(t, result).pc = "answered"
         /\ Answered(t, result).inv = task[t].inv /\ Answered(t, result).stamp = 0
         /\ Answered(t, result).result = result
         /\ Answers(t, result) => task' = [task EXCEPT ![t] = Answered(t, result)]
BY OneTask DEF Answered, Idle, Task, Steps, Results, Answers

LEMMA IdleIs ==
  /\ Idle \in Task /\ Idle.pc = "idle" /\ Idle.inv = None /\ Idle.stamp = 0
BY DEF Idle, Task, Steps, Results

\* The records of a task that goes on with the same request.
LEMMA GoesIs ==
  ASSUME IInv, NEW t \in Tasks, NEW pc \in Steps, NEW stamp \in Nat,
         NEW v \in Invocations \cup {None}, NEW result \in Results
  PROVE  /\ [task[t] EXCEPT !.pc = pc] \in Task
         /\ [task[t] EXCEPT !.pc = pc, !.stamp = stamp] \in Task
         /\ [task[t] EXCEPT !.pc = pc, !.inv = v] \in Task
         /\ [task[t] EXCEPT !.pc = pc, !.result = result] \in Task
BY OneTask DEF Task

\* A step that leaves the limiters and the rows alone.
LEMMA OnlyTasks ==
  ASSUME IInv, Handlers', UNCHANGED <<rateVars, rows, boot>>
  PROVE  IInv'
BY DEF IInv, Handlers, TypeOK, rateVars, rows, PoppedAged, WindowRespected, Off, RowsRefer

\* A refusal, or any other answer of a task that works on no row.
LEMMA QuietAnswer ==
  ASSUME IInv, NEW t \in Tasks, NEW result \in Results,
         Answers(t, result), UNCHANGED <<invocations, boot, clock>>,
         task[t].pc \notin Working \cup {"answered"}
  PROVE  Handlers'
<1> DEFINE r == Answered(t, result)
<1>1. /\ r \in Task /\ r.pc = "answered" /\ r.inv = None /\ r.stamp = 0
      /\ task' = [task EXCEPT ![t] = r]
  BY AnsweredIs, OneTask
<1>2. clock \in Nat
  BY DEF IInv, TypeOK
<1> HIDE DEF r
<1>3. /\ task[t].pc \notin Working /\ r.pc \notin Working /\ r.stamp <= clock
      /\ r.pc \notin {"idle", "answered"} => r.req \in Requested
  BY <1>1, <1>2 DEF Working
<1>4. QED
  BY <1>1, <1>3, QuietTask

\* A task that works on no row goes on.
LEMMA QuietGoes ==
  ASSUME IInv, NEW t \in Tasks, NEW pc \in Steps, Goes(t, pc),
         UNCHANGED <<invocations, boot, clock>>,
         task[t].pc \notin Working \cup {"idle", "answered"}, pc \notin Working
  PROVE  Handlers'
<1> DEFINE r == [task[t] EXCEPT !.pc = pc]
<1>1. r \in Task
  BY GoesIs DEF Results
<1>2. r.pc = pc /\ r.inv = None /\ r.stamp = task[t].stamp /\ r.req = task[t].req
  BY OneTask DEF Task
<1>3. task' = [task EXCEPT ![t] = r]
  BY DEF Goes
<1>4. r.stamp <= clock /\ r.req \in Requested /\ task[t].pc \notin Working
  BY <1>2, OneTask
<1> HIDE DEF r
<1>5. QED
  BY <1>1, <1>2, <1>3, <1>4, QuietTask

\* The next check of a task reads the time, or has read it.
LEMMA QuietStamp ==
  ASSUME IInv, NEW t \in Tasks, NEW pc \in Steps, NEW stamp \in Nat, stamp <= clock,
         task' = [task EXCEPT ![t].pc = pc, ![t].stamp = stamp],
         UNCHANGED <<invocations, boot, clock>>,
         task[t].pc \notin Working \cup {"idle", "answered"}, pc \notin Working
  PROVE  Handlers'
<1> DEFINE r == [task[t] EXCEPT !.pc = pc, !.stamp = stamp]
<1>1. r \in Task
  BY GoesIs DEF Results
<1>2. r.pc = pc /\ r.inv = None /\ r.stamp = stamp /\ r.req = task[t].req
  BY OneTask DEF Task
<1>3. task' = [task EXCEPT ![t] = r]
  BY DEF IInv, TypeOK
<1>4. r.stamp <= clock /\ r.req \in Requested /\ task[t].pc \notin Working
  BY <1>2, OneTask
<1> HIDE DEF r
<1>5. QED
  BY <1>1, <1>2, <1>3, <1>4, QuietTask

\* A task that is done, gone or cancelled where it works on no row.
LEMMA QuietEnd ==
  ASSUME IInv, NEW t \in Tasks, task' = [task EXCEPT ![t] = Idle],
         UNCHANGED <<invocations, boot, clock>>, task[t].pc \notin Working
  PROVE  Handlers'
<1>1. clock \in Nat
  BY DEF IInv, TypeOK
<1>2. /\ Idle \in Task /\ Idle.pc \notin Working /\ Idle.inv = None /\ Idle.stamp <= clock
      /\ Idle.pc \notin {"idle", "answered"} => Idle.req \in Requested
  BY <1>1, IdleIs DEF Working
<1>3. QED
  BY <1>2, QuietTask

\* The two limiters: what a check does to the rest.
LEMMA CheckKeeps ==
  ASSUME IInv, LimiterOK', Handlers', UNCHANGED <<clock, rows, boot>>
  PROVE  IInv'
BY DEF IInv, Handlers, LimiterOK, TypeOK, rows, RowsRefer

-----------------------------------------------------------------------------
(* One lemma for each step that does more than that.                       *)

LEMMA ArriveKeeps ==
  ASSUME IInv, NEW t \in Tasks, Arrive(t)
  PROVE  IInv'
<1>1. PICK q \in Menu[limit][t] :
        task' = [task EXCEPT ![t] = [Idle EXCEPT !.pc = "ip", !.req = q, !.stamp = TimeRead(q.ip)]]
  BY DEF Arrive
<1> DEFINE r == [Idle EXCEPT !.pc = "ip", !.req = q, !.stamp = TimeRead(q.ip)]
<1>2. q \in Requested /\ clock \in Nat
  BY DEF IInv, TypeOK, Requested
<1>3. TimeRead(q.ip) \in Nat /\ TimeRead(q.ip) <= clock
  BY <1>2 DEF TimeRead
<1>4. /\ r \in Task /\ r.pc = "ip" /\ r.inv = None /\ r.req = q
      /\ r.stamp = TimeRead(q.ip)
  BY <1>2, <1>3 DEF Idle, Task, Steps, Results
<1>5. task' = [task EXCEPT ![t] = r] /\ UNCHANGED <<rateVars, rows, boot>>
  BY <1>1 DEF Arrive
<1> HIDE DEF r
<1>6. Handlers'
  BY <1>2, <1>3, <1>4, <1>5, QuietTask DEF Arrive, At, Working, rateVars, rows
<1>7. QED
  BY <1>5, <1>6, OnlyTasks

LEMMA CheckIpKeeps ==
  ASSUME IInv, NEW t \in Tasks, CheckIp(t)
  PROVE  IInv'
<1> DEFINE k == task[t].req.ip
<1>1. task[t].pc = "ip" /\ task[t].stamp \in Nat /\ task[t].stamp <= clock /\ task[t].req \in Requested
  BY OneTask DEF CheckIp, At
<1>2. k \in Keys
  BY <1>1, RequestedIs
<1>3. UNCHANGED <<rows, boot>> /\ TypeOK /\ PoppedAged /\ WindowRespected /\ clock \in Nat
  BY DEF CheckIp, IInv, TypeOK
<1>4. CASE Passes(t, k) /\ task' = [task EXCEPT ![t].pc = "auth", ![t].stamp = 0]
  <2>1. LimiterOK' /\ UNCHANGED clock
    BY <1>1, <1>2, <1>3, <1>4, EntryKeeps DEF Passes
  <2>2. /\ "auth" \in Steps /\ "auth" \notin Working /\ 0 \in Nat /\ 0 <= clock
        /\ task[t].pc \notin Working \cup {"idle", "answered"}
        /\ UNCHANGED <<invocations, boot, clock>>
    BY <1>1, <1>3, <2>1 DEF Steps, Working, rows
  <2>3. Handlers'
    BY <1>4, <2>2, QuietStamp
  <2>4. QED
    BY <1>3, <2>1, <2>3, CheckKeeps
<1>5. CASE TooMany(t, k)
  <2>1. LimiterOK' /\ UNCHANGED clock
    BY <1>1, <1>2, <1>3, <1>5, RefusalKeeps DEF TooMany
  <2>2. Handlers'
    BY <1>1, <1>3, <1>5, <2>1, QuietAnswer DEF TooMany, Working, Results, rows
  <2>3. QED
    BY <1>3, <2>1, <2>2, CheckKeeps
<1>6. QED
  BY <1>4, <1>5 DEF CheckIp

LEMMA CheckSubjectKeeps ==
  ASSUME IInv, NEW t \in Tasks, CheckSubject(t)
  PROVE  IInv'
<1> DEFINE k == task[t].req.sub
<1>1. task[t].pc = "subject" /\ task[t].stamp \in Nat /\ task[t].stamp <= clock /\ task[t].req \in Requested
  BY OneTask DEF CheckSubject, At
<1>2. k \in Keys
  BY <1>1, RequestedIs
<1>3. UNCHANGED <<rows, boot>> /\ TypeOK /\ PoppedAged /\ WindowRespected /\ clock \in Nat
  BY DEF CheckSubject, IInv, TypeOK
<1>4. CASE Passes(t, k) /\ task' = [task EXCEPT ![t].pc = "body", ![t].stamp = 0]
  <2>1. LimiterOK' /\ UNCHANGED clock
    BY <1>1, <1>2, <1>3, <1>4, EntryKeeps DEF Passes
  <2>2. /\ "body" \in Steps /\ "body" \notin Working /\ 0 \in Nat /\ 0 <= clock
        /\ task[t].pc \notin Working \cup {"idle", "answered"}
        /\ UNCHANGED <<invocations, boot, clock>>
    BY <1>1, <1>3, <2>1 DEF Steps, Working, rows
  <2>3. Handlers'
    BY <1>4, <2>2, QuietStamp
  <2>4. QED
    BY <1>3, <2>1, <2>3, CheckKeeps
<1>5. CASE TooMany(t, k)
  <2>1. LimiterOK' /\ UNCHANGED clock
    BY <1>1, <1>2, <1>3, <1>5, RefusalKeeps DEF TooMany
  <2>2. Handlers'
    BY <1>1, <1>3, <1>5, <2>1, QuietAnswer DEF TooMany, Working, Results, rows
  <2>3. QED
    BY <1>3, <2>1, <2>2, CheckKeeps
<1>6. QED
  BY <1>4, <1>5 DEF CheckSubject

LEMMA PureStepsKeep ==
  ASSUME IInv, NEW t \in Tasks,
         \/ Authenticate(t) \/ Body(t) \/ RequestTimeout(t) \/ Disconnect(t) \/ Sent(t)
         \/ Read(t) \/ DefineLookup(t) \/ InvokeLookup(t) \/ GuestEnds(t)
  PROVE  IInv'
<1>1. UNCHANGED <<rateVars, rows, boot>> /\ UNCHANGED <<invocations, boot, clock>>
  BY DEF Authenticate, Body, RequestTimeout, Disconnect, Sent, Read, DefineLookup,
         InvokeLookup, GuestEnds, rows, rateVars
<1>2. clock \in Nat /\ {"refused", "completed", "failed"} \subseteq Results
  BY DEF IInv, TypeOK, Results
<1>3. CASE /\ task[t].pc \notin Working \cup {"answered"}
           /\ \E result \in {"refused", "completed", "failed"} : Answers(t, result)
  <2>1. PICK result \in Results : Answers(t, result)
    BY <1>2, <1>3
  <2>2. Handlers'
    BY <1>1, <1>3, <2>1, QuietAnswer
  <2>3. QED
    BY <1>1, <2>2, OnlyTasks
<1>4. CASE task[t].pc \notin Working /\ task' = [task EXCEPT ![t] = Idle]
  BY <1>1, <1>4, QuietEnd, OnlyTasks
<1>5. CASE /\ task[t].pc \notin Working \cup {"idle", "answered"}
           /\ \E pc \in Steps \ Working : Goes(t, pc)
  <2>1. PICK pc \in Steps : pc \notin Working /\ Goes(t, pc)
    BY <1>5
  <2>2. Handlers'
    BY <1>1, <1>5, <2>1, QuietGoes
  <2>3. QED
    BY <1>1, <2>2, OnlyTasks
<1>6. CASE Authenticate(t)
  <2>1. task[t].pc = "auth" /\ task[t].pc \notin Working \cup {"idle", "answered"}
    BY <1>6 DEF Authenticate, At, Working
  <2>2. CASE Answers(t, "refused")
    BY <1>3, <2>1, <2>2
  <2>3. CASE task' = [task EXCEPT ![t].pc = "subject", ![t].stamp = TimeRead(task[t].req.sub)]
    <3>1. /\ TimeRead(task[t].req.sub) \in Nat /\ TimeRead(task[t].req.sub) <= clock
          /\ "subject" \in Steps /\ "subject" \notin Working
      BY <1>2 DEF TimeRead, Steps, Working
    <3>2. Handlers'
      BY <1>1, <2>1, <2>3, <3>1, QuietStamp
    <3>3. QED
      BY <1>1, <3>2, OnlyTasks
  <2>4. QED
    BY <1>6, <2>2, <2>3 DEF Authenticate
<1>7. CASE Body(t)
  <2>1. task[t].pc = "body" /\ task[t].pc \notin Working \cup {"idle", "answered"}
    BY <1>7 DEF Body, At, Working
  <2>2. CASE Answers(t, "refused")
    BY <1>3, <2>1, <2>2
  <2>3. CASE Goes(t, task[t].req.call)
    <3>1. task[t].req.call \in Calls
      BY <2>1, OneTask, RequestedIs
    <3>2. task[t].req.call \in Steps \ Working
      BY <3>1 DEF Steps, Calls, Working
    <3>3. QED
      BY <1>5, <2>1, <2>3, <3>2
  <2>4. QED
    BY <1>7, <2>2, <2>3 DEF Body
<1>8. CASE RequestTimeout(t)
  BY <1>3, <1>8 DEF RequestTimeout, Cancellable, Working
<1>9. CASE Disconnect(t)
  BY <1>4, <1>9 DEF Disconnect, Cancellable, Working
<1>10. CASE Sent(t)
  BY <1>4, <1>10 DEF Sent, At, Working
<1>11. CASE Read(t)
  BY <1>3, <1>11 DEF Read, At, Working
<1>12. CASE DefineLookup(t)
  BY <1>3, <1>5, <1>12 DEF DefineLookup, At, Working, Steps
<1>13. CASE InvokeLookup(t)
  BY <1>3, <1>5, <1>13 DEF InvokeLookup, At, Working, Steps
<1>14. CASE GuestEnds(t)
  BY <1>3, <1>14 DEF GuestEnds, At, Working
<1>15. QED
  BY <1>6, <1>7, <1>8, <1>9, <1>10, <1>11, <1>12, <1>13, <1>14

\* A step that changes circuits or functions: the references must hold after it.
LEMMA OnlyTables ==
  ASSUME IInv, Handlers', UNCHANGED <<rateVars, invocations, boot>>, RowsRefer',
         DOMAIN circuits' = Circuits, DOMAIN functions' = Functions
  PROVE  IInv'
BY DEF IInv, Handlers, TypeOK, rateVars, PoppedAged, WindowRespected, Off

LEMMA TableStepsKeep ==
  ASSUME IInv, NEW t \in Tasks, Upload(t) \/ Delete(t) \/ DefineInsert(t)
  PROVE  IInv'
<1>1. UNCHANGED <<rateVars, invocations, boot>> /\ UNCHANGED <<invocations, boot, clock>>
  BY DEF Upload, Delete, DefineInsert, rateVars
<1>2. task[t].pc \notin Working \cup {"answered"} /\ {"refused", "completed"} \subseteq Results
  BY DEF Upload, Delete, DefineInsert, At, Working, Results
<1>3. \E result \in {"refused", "completed"} : Answers(t, result)
  BY DEF Upload, Delete, DefineInsert
<1>4. Handlers'
  <2>1. PICK result \in Results : Answers(t, result)
    BY <1>2, <1>3
  <2>2. QED
    BY <1>1, <1>2, <2>1, QuietAnswer
<1>5. RowsRefer /\ DOMAIN circuits = Circuits /\ DOMAIN functions = Functions
  BY DEF IInv, TypeOK
<1>6. CASE UNCHANGED rows
  BY <1>1, <1>4, <1>5, <1>6, OnlyTables DEF rows, RowsRefer
<1>7. ASSUME NEW c \in Circuits, circuits[c] = "free",
             circuits' = [circuits EXCEPT ![c] = "live"], UNCHANGED functions
      PROVE  IInv'
  <2>1. RowsRefer' /\ DOMAIN circuits' = Circuits /\ DOMAIN functions' = Functions
    BY <1>5, <1>7 DEF RowsRefer
  <2>2. QED
    BY <1>1, <1>4, <2>1, OnlyTables
<1>8. ASSUME NEW c, ~Referenced(c),
             circuits' = [circuits EXCEPT ![c] = "deleted"], UNCHANGED functions
      PROVE  IInv'
  <2>1. \A f \in Functions : functions[f] # c
    BY <1>8 DEF Referenced
  <2>2. RowsRefer' /\ DOMAIN circuits' = Circuits /\ DOMAIN functions' = Functions
    BY <1>5, <1>8, <2>1 DEF RowsRefer
  <2>3. QED
    BY <1>1, <1>4, <2>2, OnlyTables
<1>9. ASSUME NEW c, ReferenceHolds(c), NEW f \in Functions,
             functions' = [functions EXCEPT ![f] = c], UNCHANGED circuits
      PROVE  IInv'
  <2>1. RowsRefer' /\ DOMAIN circuits' = Circuits /\ DOMAIN functions' = Functions
    BY <1>5, <1>9 DEF RowsRefer, ReferenceHolds
  <2>2. QED
    BY <1>1, <1>4, <2>1, OnlyTables
<1>10. CASE Upload(t)
  BY <1>6, <1>7, <1>10 DEF Upload, rows
<1>11. CASE Delete(t)
  BY <1>6, <1>8, <1>11 DEF Delete, rows
<1>12. CASE DefineInsert(t)
  BY <1>6, <1>9, <1>12 DEF DefineInsert, rows
<1>13. QED
  BY <1>10, <1>11, <1>12

\* A step of a handler that changes its own row and no other.
LEMMA OwnRow ==
  ASSUME IInv, NEW t \in Tasks, NEW r \in Task, task' = [task EXCEPT ![t] = r],
         NEW v \in Invocations, NEW w \in Row, invocations' = [invocations EXCEPT ![v] = w],
         UNCHANGED <<rateVars, circuits, functions, boot>>,
         task[t].inv \in {v, None}, \A u \in Tasks : u # t => task[u].inv # v,
         r.inv \in {v, None}, r.stamp <= clock,
         r.pc \notin {"idle", "answered"} => r.req \in Requested,
         r.inv # None => r.pc \in Working \cup {"answered"},
         r.pc \in Working => r.inv = v,
         r.pc = "finish" => r.result \in {"completed", "failed"},
         w.status # "free", w.boot <= boot,
         w.status = "pending" => w.lost \/ r.pc \in Working,
         r.pc = "answered" /\ r.inv # None => w.status = r.result \/ w.lost
  PROVE  IInv'
<1>1. task \in [Tasks -> Task] /\ invocations \in [Invocations -> Row] /\ v # None
  BY RequestsAssumption DEF IInv, TypeOK
<1>2. task' \in [Tasks -> Task] /\ task'[t] = r /\ \A u \in Tasks \ {t} : task'[u] = task[u]
  BY <1>1
<1>3. /\ invocations' \in [Invocations -> Row] /\ invocations'[v] = w
      /\ \A x \in Invocations \ {v} : invocations'[x] = invocations[x]
  BY <1>1
<1>4. \A u \in Tasks : task[u].inv \in Invocations \cup {None}
  BY OneTask
<1>5. UNCHANGED <<clock, boot>>
  BY DEF rateVars
<1>6. TasksRight'
  <2> SUFFICES ASSUME NEW u \in Tasks
               PROVE  /\ task'[u].stamp <= clock
                      /\ task'[u].pc \notin {"idle", "answered"} => task'[u].req \in Requested
                      /\ task'[u].inv # None => task'[u].pc \in Working \cup {"answered"}
                      /\ task'[u].pc \in Working => task'[u].inv # None
                      /\ task'[u].pc = "finish" => task'[u].result \in {"completed", "failed"}
    BY <1>5 DEF TasksRight
  <2>1. CASE u = t
    BY <1>1, <1>2, <2>1
  <2>2. CASE u # t
    BY <1>2, <2>2 DEF IInv, TasksRight
  <2>3. QED
    BY <2>1, <2>2
<1>7. RowsOwned'
  <2>1. ASSUME NEW u \in Tasks, NEW x \in Tasks, u # x, task'[u].inv # None
        PROVE  task'[u].inv # task'[x].inv
    BY <1>2, <2>1 DEF IInv, RowsOwned
  <2>2. ASSUME NEW u \in Tasks, task'[u].inv # None
        PROVE  invocations'[task'[u].inv].status # "free"
    <3>1. CASE u = t
      BY <1>2, <1>3, <2>2, <3>1
    <3>2. CASE u # t
      BY <1>2, <1>3, <1>4, <2>2, <3>2 DEF IInv, RowsOwned
    <3>3. QED
      BY <3>1, <3>2
  <2>3. ASSUME NEW x \in Invocations
        PROVE  invocations'[x].boot <= boot
    BY <1>3, <2>3 DEF IInv, RowsOwned
  <2>4. QED
    BY <1>5, <2>1, <2>2, <2>3 DEF RowsOwned
<1>8. InvocationsSettle'
  <2>1. ASSUME NEW x \in Invocations, invocations'[x].status = "pending",
               invocations'[x].boot = boot, ~invocations'[x].lost
        PROVE  \E u \in Tasks : task'[u].inv = x /\ task'[u].pc \in Working
    <3>1. CASE x = v
      BY <1>2, <1>3, <2>1, <3>1
    <3>2. CASE x # v
      <4>1. PICK u \in Tasks : task[u].inv = x /\ task[u].pc \in Working
        BY <1>3, <2>1, <3>2 DEF IInv, InvocationsSettle, Working
      <4>2. u # t
        BY <4>1, <3>2, RequestsAssumption
      <4>3. QED
        BY <1>2, <4>1, <4>2
    <3>3. QED
      BY <3>1, <3>2
  <2>2. ASSUME NEW u \in Tasks, task'[u].pc = "answered", task'[u].inv # None
        PROVE  \/ invocations'[task'[u].inv].status = task'[u].result
               \/ invocations'[task'[u].inv].lost
    <3>1. CASE u = t
      BY <1>2, <1>3, <2>2, <3>1
    <3>2. CASE u # t
      BY <1>2, <1>3, <1>4, <2>2, <3>2 DEF IInv, InvocationsSettle, At
    <3>3. QED
      BY <3>1, <3>2
  <2>3. QED
    BY <1>5, <2>1, <2>2 DEF InvocationsSettle, At, Working
<1>9. TypeOK' /\ PoppedAged' /\ WindowRespected' /\ RowsRefer'
  BY <1>2, <1>3 DEF IInv, TypeOK, rateVars, PoppedAged, WindowRespected, Off, RowsRefer
<1>10. QED
  BY <1>6, <1>7, <1>8, <1>9 DEF IInv

\* A row is inserted for a handler that had none; nobody holds a free row.
LEMMA CreateKeeps ==
  ASSUME IInv, NEW t \in Tasks, InvokeCreate(t)
  PROVE  IInv'
<1>1. /\ task[t].pc = "create" /\ task[t].inv = None
      /\ task[t].req \in Requested /\ task[t].stamp <= clock
  BY OneTask DEF InvokeCreate, At, Working
<1>2. UNCHANGED <<rateVars, circuits, functions, boot>> /\ boot \in Nat
  BY DEF InvokeCreate, IInv, TypeOK
<1>3. ASSUME NEW v \in Invocations, invocations[v] = NoRow,
             invocations' = [invocations EXCEPT ![v] = [status |-> "pending", boot |-> boot, lost |-> FALSE]],
             task' = [task EXCEPT ![t].pc = "source", ![t].inv = v]
      PROVE  IInv'
  <2> DEFINE r == [task[t] EXCEPT !.pc = "source", !.inv = v]
             w == [status |-> "pending", boot |-> boot, lost |-> FALSE]
  <2>1. r \in Task /\ task' = [task EXCEPT ![t] = r]
    BY <1>3, GoesIs DEF Steps, Results, IInv, TypeOK
  <2>2. r.pc = "source" /\ r.inv = v /\ r.stamp = task[t].stamp /\ r.req = task[t].req
    BY OneTask DEF Task
  <2>3. w \in Row /\ w.status = "pending" /\ w.boot <= boot
    BY <1>2 DEF Row
  <2>4. invocations[v].status = "free" /\ v # None
    BY <1>3, RequestsAssumption DEF NoRow
  <2>5. \A u \in Tasks : task[u].inv # v
    BY <2>4 DEF IInv, RowsOwned
  <2>6. invocations' = [invocations EXCEPT ![v] = w]
    BY <1>3
  <2> HIDE DEF r, w
  <2>7. /\ r.pc \in Working /\ r.pc \notin {"finish", "answered"} /\ r.req \in Requested
        /\ r.stamp <= clock /\ w.status # "free"
        /\ task[t].inv \in {v, None} /\ r.inv \in {v, None}
        /\ \A u \in Tasks : u # t => task[u].inv # v
    BY <1>1, <2>2, <2>3, <2>5 DEF Working
  <2>8. QED
    BY <1>2, <2>1, <2>2, <2>3, <2>6, <2>7, OwnRow
<1>4. CASE Answers(t, "refused") /\ UNCHANGED invocations
  <2>1. Handlers'
    BY <1>1, <1>2, <1>4, QuietAnswer DEF Working, Results, rateVars
  <2>2. QED
    BY <1>2, <1>4, <2>1, OnlyTasks DEF rows
<1>5. QED
  BY <1>3, <1>4 DEF InvokeCreate

\* The source and the simulation leave the row as it is.
LEMMA WorkKeeps ==
  ASSUME IInv, NEW t \in Tasks, InvokeSource(t) \/ Compute(t)
  PROVE  IInv'
<1>1. task[t].pc \in {"source", "compute"} /\ task[t].stamp <= clock
  BY OneTask DEF InvokeSource, Compute, At
<1>2. UNCHANGED <<rateVars, rows, boot>> /\ UNCHANGED <<invocations, boot, clock>>
  BY DEF InvokeSource, Compute, rows, rateVars
<1>3. CASE Goes(t, "compute")
  <2> DEFINE r == [task[t] EXCEPT !.pc = "compute"]
  <2>1. r \in Task /\ task' = [task EXCEPT ![t] = r]
    BY <1>3, GoesIs DEF Goes, Steps, Calls, Results
  <2>2. r.pc = "compute" /\ r.inv = task[t].inv /\ r.stamp = task[t].stamp /\ r.req = task[t].req
    BY OneTask DEF Task
  <2> HIDE DEF r
  <2>3. QED
    BY <1>1, <1>2, <2>1, <2>2, WorkingTask, OnlyTasks DEF Working
<1>4. ASSUME NEW result \in {"completed", "failed"},
             task' = [task EXCEPT ![t].pc = "finish", ![t].result = result]
      PROVE  IInv'
  <2> DEFINE r == [task[t] EXCEPT !.pc = "finish", !.result = result]
  <2>1. r \in Task /\ task' = [task EXCEPT ![t] = r]
    BY <1>4, GoesIs DEF Steps, Results, IInv, TypeOK
  <2>2. /\ r.pc = "finish" /\ r.inv = task[t].inv /\ r.stamp = task[t].stamp
        /\ r.req = task[t].req /\ r.result = result
    BY OneTask DEF Task
  <2> HIDE DEF r
  <2>3. QED
    BY <1>1, <1>2, <1>4, <2>1, <2>2, WorkingTask, OnlyTasks DEF Working
<1>5. QED
  BY <1>3, <1>4 DEF InvokeSource, Compute

\* A handler that panics, or ends, leaves its row final or marks it lost.
LEMMA EndKeeps ==
  ASSUME IInv, NEW t \in Tasks, Panic(t) \/ Finish(t)
  PROVE  IInv'
<1> DEFINE v == task[t].inv
<1>1. /\ task[t].pc \in Working /\ v \in Invocations
      /\ clock \in Nat /\ boot \in Nat
  BY OneTask DEF Panic, Finish, At, Working, IInv, TypeOK, TasksRight
<1>2. UNCHANGED <<rateVars, circuits, functions, boot>>
  BY DEF Panic, Finish
<1>3. /\ invocations[v] \in Row /\ invocations[v].status # "free"
      /\ invocations[v].boot <= boot /\ v # None
      /\ \A u \in Tasks : u # t => task[u].inv # v
  BY <1>1, RequestsAssumption DEF IInv, TypeOK, RowsOwned
<1> DEFINE lost == [invocations[v] EXCEPT !.lost = TRUE]
<1>4. /\ lost \in Row /\ lost.lost /\ lost.status # "free" /\ lost.boot <= boot
  BY <1>3 DEF Row
<1>5. CASE Panic(t)
  <2>1. task' = [task EXCEPT ![t] = Idle] /\ invocations' = [invocations EXCEPT ![v] = lost]
    BY <1>5 DEF Panic, IInv, TypeOK
  <2>2. Idle \in Task /\ Idle.pc = "idle" /\ Idle.inv = None /\ Idle.stamp <= clock
    BY <1>1, IdleIs
  <2> HIDE DEF v, lost
  <2>3. task[t].inv \in {v, None}
    BY DEF v
  <2>4. /\ Idle.pc \notin Working /\ Idle.pc # "finish" /\ Idle.pc # "answered"
        /\ Idle.inv \in {v, None}
    BY <2>2 DEF Working
  <2>5. QED
    BY <1>1, <1>2, <1>3, <1>4, <2>1, <2>2, <2>3, <2>4, OwnRow
<1>6. CASE Finish(t)
  <2>1. task[t].result \in {"completed", "failed"} /\ task[t].result \in Results
    BY <1>6 DEF Finish, At, IInv, TasksRight, Results
  <2> DEFINE r == Answered(t, task[t].result)
             done == [invocations[v] EXCEPT !.status = task[t].result]
  <2>2. /\ r \in Task /\ r.pc = "answered" /\ r.inv = v /\ r.stamp <= clock
        /\ r.result = task[t].result /\ task' = [task EXCEPT ![t] = r]
    BY <1>1, <1>6, <2>1, AnsweredIs DEF Finish
  <2>3. /\ done \in Row /\ done.status = task[t].result /\ done.boot <= boot
    BY <1>3, <2>1 DEF Row
  <2>4. \/ invocations' = [invocations EXCEPT ![v] = done]
        \/ invocations' = [invocations EXCEPT ![v] = lost]
    BY <1>6 DEF Finish, IInv, TypeOK
  <2>5. task[t].inv = v
    OBVIOUS
  <2> HIDE DEF v, lost, r, done
  <2>6. CASE invocations' = [invocations EXCEPT ![v] = done]
    <3>1. /\ done.status # "free" /\ done.status # "pending" /\ done.status = r.result
          /\ r.pc \notin Working /\ r.pc # "finish" /\ r.inv \in {v, None}
          /\ task[t].inv \in {v, None}
      BY <2>1, <2>2, <2>3, <2>5 DEF Working
    <3>2. QED
      BY <1>1, <1>2, <1>3, <2>2, <2>3, <2>6, <3>1, OwnRow
  <2>7. CASE invocations' = [invocations EXCEPT ![v] = lost]
    BY <1>1, <1>2, <1>3, <1>4, <2>2, <2>5, <2>7, OwnRow DEF Working
  <2>8. QED
    BY <2>4, <2>6, <2>7
<1>7. QED
  BY <1>5, <1>6

\* Time goes on: what had aged stays aged.
LEMMA TickKeeps ==
  ASSUME IInv, Tick
  PROVE  IInv'
<1>1. clock \in Nat /\ clock' = clock + 1 /\ Window \in Nat
  BY RateAssumption DEF Tick, IInv, TypeOK
<1>2. TypeOK'
  BY <1>1 DEF Tick, IInv, TypeOK, rows
<1>3. PoppedAged'
  <2> SUFFICES ASSUME NEW k \in Keys, NEW i \in 1..front[k]
               PROVE  clock' - log[k][i].stamp >= Window
    BY DEF Tick, IInv, PoppedAged
  <2>1. clock - log[k][i].stamp >= Window
    BY DEF IInv, PoppedAged
  <2>2. front[k] \in Nat /\ front[k] <= Len(log[k]) /\ Len(log[k]) \in Nat
    BY Deque DEF IInv
  <2>3. i \in 1..Len(log[k])
    BY <2>2
  <2>4. log[k][i].stamp \in Nat
    BY <2>3, Deque DEF IInv
  <2>5. QED
    BY <1>1, <2>1, <2>4
<1>4. TasksRight'
  <2>1. \A t \in Tasks : task[t].stamp \in Nat /\ task[t].stamp <= clock
    BY OneTask
  <2>2. \A t \in Tasks : task[t].stamp <= clock'
    BY <1>1, <2>1
  <2>3. QED
    BY <2>2 DEF Tick, IInv, TasksRight
<1>5. WindowRespected' /\ RowsRefer' /\ RowsOwned' /\ InvocationsSettle'
  BY DEF Tick, IInv, rows, WindowRespected, Off, RowsRefer, RowsOwned, InvocationsSettle, At
<1>6. QED
  BY <1>2, <1>3, <1>4, <1>5 DEF IInv

\* A restart forgets the tasks and the deques; the rows it left pending are of
\* an earlier boot.
LEMMA CrashKeeps ==
  ASSUME IInv, Crash
  PROVE  IInv'
<1>1. /\ boot \in Nat /\ boot' = boot + 1 /\ clock \in Nat /\ limit \in Limits
      /\ task' = [t \in Tasks |-> Idle]
      /\ log' = [k \in Keys |-> <<>>] /\ front' = [k \in Keys |-> 0]
      /\ UNCHANGED <<clock, limit, circuits, functions, invocations>>
  BY DEF Crash, Restarted, rows, IInv, TypeOK
<1>2. TypeOK'
  BY <1>1, IdleIs DEF IInv, TypeOK
<1>3. PoppedAged'
  BY <1>1 DEF PoppedAged
<1>4. WindowRespected'
  BY <1>1 DEF WindowRespected
<1>5. TasksRight'
  BY <1>1, IdleIs DEF TasksRight, Working
<1>6. \A v \in Invocations : invocations[v].boot <= boot' /\ invocations[v].boot # boot'
  BY <1>1 DEF IInv, TypeOK, Row, RowsOwned
<1>7. RowsOwned'
  BY <1>1, <1>6, IdleIs DEF RowsOwned
<1>8. InvocationsSettle'
  BY <1>1, <1>6, IdleIs DEF InvocationsSettle, At
<1>9. RowsRefer'
  BY <1>1 DEF IInv, RowsRefer
<1>10. QED
  BY <1>2, <1>3, <1>4, <1>5, <1>7, <1>8, <1>9 DEF IInv

-----------------------------------------------------------------------------
(* The theorems.                                                           *)

LEMMA InitOK == Init => IInv
<1> SUFFICES ASSUME Init PROVE IInv
  OBVIOUS
<1>1. TypeOK
  BY IdleIs DEF Init, RateInit, TypeOK, NoRow, Row
<1>2. PoppedAged /\ WindowRespected
  BY DEF Init, RateInit, PoppedAged, WindowRespected
<1>3. TasksRight
  BY IdleIs DEF Init, RateInit, TasksRight, Working
<1>4. RowsRefer
  BY DEF Init, RowsRefer
<1>5. RowsOwned /\ InvocationsSettle
  BY IdleIs DEF Init, RowsOwned, InvocationsSettle, NoRow, At
<1>6. QED
  BY <1>1, <1>2, <1>3, <1>4, <1>5 DEF IInv

LEMMA StepKeeps == IInv /\ [Next]_vars => IInv'
<1> SUFFICES ASSUME IInv, [Next]_vars PROVE IInv'
  OBVIOUS
<1>1. CASE UNCHANGED vars
  BY <1>1 DEF vars, rateVars, IInv, TypeOK, PoppedAged, WindowRespected, Off, TasksRight,
              RowsRefer, RowsOwned, InvocationsSettle, At
<1>2. ASSUME NEW t \in Tasks, Serve(t) \/ Arrive(t) \/ Body(t) \/ GuestEnds(t) \/ Disconnect(t) \/ Panic(t)
      PROVE  IInv'
  BY <1>2, ArriveKeeps, CheckIpKeeps, CheckSubjectKeeps, PureStepsKeep, TableStepsKeep,
     CreateKeeps, WorkKeeps, EndKeeps DEF Serve
<1>3. QED
  BY <1>1, <1>2, TickKeeps, CrashKeeps DEF Next

LEMMA Inductive == Spec => []IInv
BY InitOK, StepKeeps, PTL DEF Spec

\* The variables keep their types; in particular a request always finds the
\* record and the row it works on.
THEOREM RequestsTypeCorrect == Spec => []TypeOK
<1>1. IInv => TypeOK
  BY DEF IInv
<1>2. QED
  BY <1>1, Inductive, PTL

\* For every key, limit, window and sweep interval: more than the limit are
\* never let through before a window has gone by since the first of them read
\* the time.
THEOREM WindowIsRespected == Spec => []WindowRespected
<1>1. IInv => WindowRespected
  BY DEF IInv
<1>2. QED
  BY <1>1, Inductive, PTL

\* A function never loses its circuit, however uploads, deletes and
\* registrations interleave.
THEOREM ReferencesHold == Spec => []RowsRefer
<1>1. IInv => RowsRefer
  BY DEF IInv
<1>2. QED
  BY <1>1, Inductive, PTL

\* A pending invocation of this boot has a handler that works on it, and a
\* final one says what the client was told, unless its update was lost.
THEOREM InvocationsAreSettled == Spec => []InvocationsSettle
<1>1. IInv => InvocationsSettle
  BY DEF IInv
<1>2. QED
  BY <1>1, Inductive, PTL

-----------------------------------------------------------------------------
(* What a refused client is told.                                          *)

Notice == [key : Keys \cup {None}, due : Nat, seen : Nat]
LimitOf(k) == limit[Surface[k]]

\* No entry carries a time of the future, and a deque holds no more than the
\* limit.
DequesRight ==
    \A k \in Keys :
        /\ \A i \in 1..Len(log[k]) : log[k][i].stamp <= clock
        /\ ~Off(k) => Len(log[k]) - front[k] <= LimitOf(k)

\* What a client was told is due once the entry has aged that stood first when
\* it was refused: with it the deque held as many as the limit says, and the
\* ones before it have left for good.
NoticeRight(w) ==
    LET first == w.seen - LimitOf(w.key)
    IN  /\ ~Off(w.key) /\ w.seen <= Len(log[w.key])
        /\ 0 <= first /\ first <= front[w.key]
        /\ w.due >= log[w.key][first + 1].stamp + Window

ToldRight ==
    /\ told \in [Tasks -> Notice]
    /\ \A t \in Tasks : told[t].key # None => NoticeRight(told[t])

RetryInv == DequesRight /\ ToldRight

\* A truncated quotient and one more is beyond what was divided.
LEMMA BeyondQuotient ==
  ASSUME NEW n \in Nat, NEW d \in Nat \ {0}
  PROVE  (n \div d) \in Nat /\ ((n \div d) + 1) * d > n
OBVIOUS

\* The limit of a limiter that is on.
LEMMA LimitType ==
  ASSUME IInv, NEW k \in Keys
  PROVE  LimitOf(k) \in Nat /\ (~Off(k) => LimitOf(k) \in Nat \ {0})
BY RateAssumption DEF IInv, TypeOK, LimitOf, Off

\* How the deques may change: entries are only appended, and pops are final.
Grows ==
    /\ limit' = limit /\ clock' = clock
    /\ \A k \in Keys :
         /\ Len(log'[k]) \in Nat /\ Len(log[k]) <= Len(log'[k])
         /\ \A i \in 1..Len(log[k]) : log'[k][i] = log[k][i]
         /\ front'[k] \in Nat /\ front[k] <= front'[k]

LEMMA NoticeStays ==
  ASSUME IInv, RetryInv, Grows, NEW w \in Notice, w.key # None, NoticeRight(w)
  PROVE  NoticeRight(w)'
<1> DEFINE k == w.key
           first == w.seen - LimitOf(k)
<1>1. k \in Keys /\ w.seen \in Nat /\ w.due \in Nat
  BY DEF Notice
<1>2. ~Off(k) /\ LimitOf(k) \in Nat \ {0} /\ w.seen <= Len(log[k]) /\ 0 <= first /\ first <= front[k]
      /\ w.due >= log[k][first + 1].stamp + Window
  BY <1>1, LimitType DEF NoticeRight
<1>3. Len(log[k]) \in Nat /\ front[k] \in Nat
  BY <1>1, Deque DEF IInv
<1>4. first + 1 \in 1..Len(log[k])
  BY <1>1, <1>2, <1>3
<1>5. LimitOf(k)' = LimitOf(k) /\ (Off(k)' <=> Off(k)) /\ log'[k][first + 1] = log[k][first + 1]
  BY <1>1, <1>4 DEF Grows, LimitOf, Off
<1>6. w.seen <= Len(log'[k]) /\ first <= front'[k]
  BY <1>1, <1>2, <1>3 DEF Grows
<1>7. QED
  BY <1>2, <1>5, <1>6 DEF NoticeRight

\* Both outcomes of a check only let deques grow, and leave none with more
\* than the limit.
LEMMA CheckGrows ==
  ASSUME IInv, RetryInv, NEW k \in Keys, NEW now \in Nat, now <= clock,
         LetThrough(k, now) \/ Throttle(k, now)
  PROVE  Grows /\ DequesRight'
<1>1. clock \in Nat /\ TypeOK /\ PoppedAged
  BY DEF IInv, TypeOK
<1>2. \A j \in Keys : /\ Len(log[j]) \in Nat /\ front[j] \in Nat /\ front[j] <= Len(log[j])
                      /\ \A i \in 1..Len(log[j]) : log[j][i].stamp \in Nat
  BY <1>1, Deque
<1>3. CASE UNCHANGED rateVars
  BY <1>1, <1>2, <1>3 DEF Grows, RetryInv, DequesRight, rateVars, Off, LimitOf
<1>4. ASSUME ~Off(k), Sweep(k, now), UNCHANGED <<clock, limit>>,
             \/ log' = log
             \/ log' = [log EXCEPT ![k] = Append(@, [stamp |-> now, at |-> clock])] /\ ~Full(k, now)
      PROVE  Grows /\ DequesRight'
  <2> DEFINE e == [stamp |-> now, at |-> clock]
  <2>1. \A j \in Keys : /\ PoppedTo(j, now) \in front[j]..Len(log[j])
                        /\ front'[j] \in {front[j], PoppedTo(j, now)}
    BY <1>1, <1>4, PoppedToIs DEF Sweep
  <2>2. front'[k] = PoppedTo(k, now)
    BY <1>4 DEF Sweep, Swept
  <2>3. \A j \in Keys : front'[j] \in Nat /\ front[j] <= front'[j] /\ front'[j] <= Len(log[j])
    BY <1>2, <2>1
  <2>4. ASSUME log' = [log EXCEPT ![k] = Append(@, e)]
        PROVE  /\ Len(log'[k]) = Len(log[k]) + 1
               /\ log'[k][Len(log[k]) + 1] = e
               /\ \A i \in 1..Len(log[k]) : log'[k][i] = log[k][i]
               /\ \A j \in Keys \ {k} : log'[j] = log[j]
    <3>1. log \in [Keys -> Seq(Entry)] /\ log[k] \in Seq(Entry) /\ e \in Entry
      BY <1>1 DEF TypeOK, Entry
    <3>2. log'[k] = Append(log[k], e) /\ \A j \in Keys \ {k} : log'[j] = log[j]
      BY <2>4, <3>1
    <3>3. QED
      BY <3>1, <3>2
  <2>5. Grows
    BY <1>2, <1>4, <2>3, <2>4 DEF Grows
  <2>6. ASSUME NEW j \in Keys
        PROVE  /\ \A i \in 1..Len(log'[j]) : log'[j][i].stamp <= clock
               /\ ~Off(j) => Len(log'[j]) - front'[j] <= LimitOf(j)
    <3>1. /\ \A i \in 1..Len(log[j]) : log[j][i].stamp <= clock
          /\ ~Off(j) => Len(log[j]) - front[j] <= LimitOf(j)
      BY DEF RetryInv, DequesRight
    <3>2. CASE log'[j] = log[j]
      BY <1>2, <2>3, <3>1, <3>2, LimitType
    <3>3. CASE j = k /\ log' = [log EXCEPT ![k] = Append(@, e)] /\ ~Full(k, now)
      <4>1. e.stamp <= clock
        OBVIOUS
      <4>2. ~(Len(log[k]) - PoppedTo(k, now) >= LimitOf(k))
        BY <3>3 DEF Full, LimitOf
      <4>3. \A i \in 1..Len(log'[k]) : i \in 1..Len(log[k]) \/ i = Len(log[k]) + 1
        BY <1>2, <2>4, <3>3
      <4>4. \A i \in 1..Len(log'[k]) : log'[k][i].stamp <= clock
        BY <2>4, <3>1, <3>3, <4>1, <4>3
      <4>5. Len(log'[k]) - front'[k] <= LimitOf(k)
        BY <1>2, <2>2, <2>3, <2>4, <3>3, <4>2, LimitType
      <4>6. QED
        BY <3>3, <4>4, <4>5
    <3>4. QED
      BY <1>4, <2>4, <3>2, <3>3
  <2>7. QED
    BY <1>4, <2>5, <2>6 DEF DequesRight, Off, LimitOf
<1>5. QED
  BY <1>3, <1>4 DEF LetThrough, Throttle

\* The wait that a refusal names reaches to where the first entry has aged.
LEMMA RefusalTells ==
  ASSUME IInv, RetryInv, NEW k \in Keys, NEW now \in Nat, now <= clock, Throttle(k, now),
         NEW w, w = [key |-> k, due |-> clock + (retry_after(k, now) + 1) * Second,
                     seen |-> Len(log[k])]
  PROVE  w \in Notice /\ NoticeRight(w)'
<1> DEFINE p == PoppedTo(k, now)
           stamp == log[k][p + 1].stamp
           elapsed == duration_since(now, stamp)
           remaining == Window - elapsed
<1>1. /\ clock \in Nat /\ Window \in Nat \ {0} /\ Second \in Nat \ {0}
      /\ Len(log[k]) \in Nat /\ front[k] \in Nat /\ LimitOf(k) \in Nat \ {0} /\ ~Off(k)
  BY RateAssumption, Deque, LimitType DEF IInv, TypeOK, Throttle
<1>2. p \in front[k]..Len(log[k]) /\ (p = Len(log[k]) \/ duration_since(now, stamp) < Window)
  <2>1. p \in front[k]..Len(log[k]) /\ (p = Len(log[k]) \/ ~Aged(k, p + 1, now))
    BY PoppedToIs DEF IInv
  <2>2. CASE p = Len(log[k])
    BY <2>1, <2>2
  <2>3. CASE p # Len(log[k])
    <3>1. p + 1 \in 1..Len(log[k])
      BY <1>1, <2>1, <2>3
    <3>2. stamp \in Nat
      BY <3>1, Deque DEF IInv
    <3>3. ~(duration_since(now, stamp) >= Window)
      BY <2>1, <2>3 DEF Aged
    <3>4. duration_since(now, stamp) \in Nat
      BY <3>2 DEF duration_since
    <3>5. QED
      BY <1>1, <2>1, <3>3, <3>4
  <2>4. QED
    BY <2>2, <2>3
<1>3. Len(log[k]) - p >= LimitOf(k) /\ Len(log[k]) - front[k] <= LimitOf(k)
  BY <1>1 DEF Throttle, Full, LimitOf, RetryInv, DequesRight
<1>4. /\ p = PoppedTo(k, now) /\ stamp = log[k][p + 1].stamp
      /\ elapsed = duration_since(now, stamp) /\ remaining = Window - elapsed
      /\ elapsed = IF now >= stamp THEN now - stamp ELSE 0
  BY DEF duration_since
<1> HIDE DEF p, stamp, elapsed, remaining
<1>5. p \in Nat /\ p = Len(log[k]) - LimitOf(k) /\ p + 1 \in 1..Len(log[k])
  BY <1>1, <1>2, <1>3
<1>6. stamp \in Nat /\ stamp <= clock
  BY <1>4, <1>5, Deque DEF IInv, RetryInv, DequesRight
<1>7. elapsed \in Nat /\ elapsed < Window
  <2>1. p # Len(log[k])
    BY <1>1, <1>5
  <2>2. elapsed < Window
    BY <1>2, <1>4, <2>1
  <2>3. CASE now >= stamp
    <3>1. elapsed = now - stamp
      BY <1>4, <2>3
    <3>2. QED
      BY <1>6, <2>2, <2>3, <3>1
  <2>4. CASE ~(now >= stamp)
    <3>1. elapsed = 0
      BY <1>4, <2>4
    <3>2. QED
      BY <2>2, <3>1
  <2>5. QED
    BY <2>3, <2>4
<1>8. remaining \in Nat /\ clock + remaining >= stamp + Window
  <2>1. elapsed + stamp <= clock
    <3>1. CASE now >= stamp
      <4>1. elapsed + stamp = now
        <5>1. elapsed = now - stamp
          BY <1>4, <3>1
        <5>2. QED
          BY <1>6, <5>1
      <4>2. QED
        BY <4>1
    <3>2. CASE ~(now >= stamp)
      <4>1. elapsed = 0
        BY <1>4, <3>2
      <4>2. QED
        BY <1>6, <4>1
    <3>3. QED
      BY <3>1, <3>2
  <2>2. remaining = Window - elapsed /\ clock \in Nat /\ Window \in Nat
    BY <1>1, <1>4
  <2>3. QED
    BY <1>6, <1>7, <2>1, <2>2
<1>9. retry_after(k, now) = IF remaining < Second THEN 1 ELSE remaining \div Second
  <2>1. retry_after(k, now) =
          LET left == IF elapsed >= Window THEN 0 ELSE Window - elapsed
          IN  IF left < Second THEN 1 ELSE left \div Second
    BY <1>4 DEF retry_after
  <2>2. QED
    BY <1>1, <1>4, <1>7, <2>1
<1>10. retry_after(k, now) \in Nat /\ (retry_after(k, now) + 1) * Second >= remaining
  <2>1. CASE remaining < Second
    BY <1>1, <1>8, <1>9, <2>1
  <2>2. CASE ~(remaining < Second)
    BY <1>1, <1>8, <1>9, <2>2, BeyondQuotient
  <2>3. QED
    BY <2>1, <2>2
<1>11. (retry_after(k, now) + 1) * Second \in Nat
  BY <1>1, <1>10
<1>12. PICK wait \in Nat : wait = (retry_after(k, now) + 1) * Second /\ wait >= remaining
  BY <1>10, <1>11
<1>13. w.key = k /\ w.seen = Len(log[k]) /\ w.due = clock + wait
  BY <1>12
<1>14. front'[k] = p /\ log' = log /\ limit' = limit
  BY <1>4 DEF Throttle, Sweep, Swept
<1>15. w.due \in Nat /\ w.due >= stamp + Window
  BY <1>1, <1>6, <1>8, <1>12, <1>13
<1>16. w \in Notice
  BY <1>1, <1>13, <1>15 DEF Notice
<1>17. NoticeRight(w)'
  <2>1. w.seen - LimitOf(k) = p
    BY <1>1, <1>5, <1>13
  <2>2. LimitOf(k)' = LimitOf(k) /\ ~Off(k)'
    BY <1>1, <1>14 DEF LimitOf, Off
  <2>3. /\ w.seen <= Len(log'[k]) /\ 0 <= p /\ p <= front'[k]
        /\ log'[k][p + 1].stamp = stamp
    BY <1>1, <1>4, <1>5, <1>13, <1>14
  <2>4. QED
    BY <1>13, <1>15, <2>1, <2>2, <2>3 DEF NoticeRight
<1>18. QED
  BY <1>16, <1>17

\* A step that leaves the limiters and what clients were told alone.
LEMMA RetryQuiet ==
  ASSUME IInv, RetryInv, UNCHANGED <<limit, log, front, told>>, clock' \in Nat, clock' >= clock
  PROVE  RetryInv'
<1>1. \A k \in Keys : \A i \in 1..Len(log[k]) : log[k][i].stamp \in Nat
  BY Deque DEF IInv
<1>2. clock \in Nat
  BY DEF IInv, TypeOK
<1>3. DequesRight'
  BY <1>1, <1>2 DEF RetryInv, DequesRight, Off, LimitOf
<1>4. ToldRight'
  BY DEF RetryInv, ToldRight, NoticeRight, Off, LimitOf
<1>5. QED
  BY <1>3, <1>4 DEF RetryInv

\* A check of a request, and what its client is told.
LEMMA CheckTells ==
  ASSUME IInv, RetryInv, NEW t \in Tasks, NEW k \in Keys,
         task[t].stamp \in Nat, task[t].stamp <= clock, Passes(t, k) \/ TooMany(t, k)
  PROVE  RetryInv'
<1> DEFINE now == task[t].stamp
<1>1. LetThrough(k, now) \/ Throttle(k, now)
  BY DEF Passes, TooMany
<1>2. Grows /\ DequesRight'
  BY <1>1, CheckGrows
<1>3. told \in [Tasks -> Notice] /\ \A u \in Tasks : told[u] \in Notice
  BY DEF RetryInv, ToldRight
<1>4. ASSUME NEW w \in Notice, w.key # None, NoticeRight(w)
      PROVE  NoticeRight(w)'
  BY <1>2, <1>4, NoticeStays
<1>5. CASE Passes(t, k)
  <2>1. \A u \in Tasks : told'[u] = told[u] \/ told'[u] = NotTold
    BY <1>3, <1>5 DEF Passes
  <2>2. NotTold \in Notice /\ NotTold.key = None
    BY DEF NotTold, Notice
  <2>3. told' \in [Tasks -> Notice]
    BY <1>3, <1>5, <2>2 DEF Passes
  <2>4. ASSUME NEW u \in Tasks, told'[u].key # None
        PROVE  NoticeRight(told[u])'
    <3>1. PICK w \in Notice : w = told[u] /\ w = told'[u]
      BY <1>3, <2>1, <2>2, <2>4
    <3>2. w.key # None
      BY <2>4, <3>1
    <3>3. NoticeRight(w)
      BY <3>1, <3>2 DEF RetryInv, ToldRight
    <3>4. NoticeRight(w)'
      BY <1>4, <3>2, <3>3
    <3>5. QED
      BY <3>1, <3>4 DEF NoticeRight, Off, LimitOf
  <2>5. QED
    BY <1>2, <2>3, <2>4 DEF RetryInv, ToldRight
<1>6. CASE TooMany(t, k)
  <2>1. PICK n : n = [key |-> k, due |-> clock + (retry_after(k, now) + 1) * Second,
                      seen |-> Len(log[k])]
    OBVIOUS
  <2>2. Throttle(k, now) /\ told' = [told EXCEPT ![t] = n]
    BY <1>6, <2>1 DEF TooMany
  <2>3. n \in Notice /\ NoticeRight(n)'
    BY <2>1, <2>2, RefusalTells
  <2>4. told' \in [Tasks -> Notice] /\ told'[t] = n /\ \A u \in Tasks \ {t} : told'[u] = told[u]
    BY <1>3, <2>2, <2>3
  <2>5. ASSUME NEW u \in Tasks, told'[u].key # None
        PROVE  NoticeRight(told[u])'
    <3>1. PICK w \in Notice : w = told'[u]
      BY <2>4
    <3>2. w.key # None
      BY <2>5, <3>1
    <3>3. NoticeRight(w)'
      <4>1. CASE u = t
        <5>1. w = n
          BY <2>4, <3>1, <4>1
        <5>2. QED
          BY <2>3, <5>1 DEF NoticeRight, Off, LimitOf
      <4>2. CASE u # t
        <5>1. w = told[u]
          BY <2>4, <3>1, <4>2
        <5>2. NoticeRight(w)
          BY <3>2, <5>1 DEF RetryInv, ToldRight
        <5>3. QED
          BY <1>4, <3>2, <5>2
      <4>3. QED
        BY <4>1, <4>2
    <3>4. QED
      BY <3>1, <3>3 DEF NoticeRight, Off, LimitOf
  <2>6. QED
    BY <1>2, <2>4, <2>5 DEF RetryInv, ToldRight
<1>7. QED
  BY <1>5, <1>6

LEMMA RetryStep == IInv /\ RetryInv /\ [Next]_vars => RetryInv'
<1> SUFFICES ASSUME IInv, RetryInv, [Next]_vars PROVE RetryInv'
  OBVIOUS
<1>1. clock \in Nat
  BY DEF IInv, TypeOK
<1>2. ASSUME NEW t \in Tasks, CheckIp(t)
      PROVE  RetryInv'
  <2>1. task[t].stamp \in Nat /\ task[t].stamp <= clock /\ task[t].req \in Requested
    BY <1>2, OneTask DEF CheckIp, At
  <2>2. task[t].req.ip \in Keys
    BY <2>1, RequestedIs
  <2>3. Passes(t, task[t].req.ip) \/ TooMany(t, task[t].req.ip)
    BY <1>2 DEF CheckIp
  <2>4. QED
    BY <2>1, <2>2, <2>3, CheckTells
<1>3. ASSUME NEW t \in Tasks, CheckSubject(t)
      PROVE  RetryInv'
  <2>1. task[t].stamp \in Nat /\ task[t].stamp <= clock /\ task[t].req \in Requested
    BY <1>3, OneTask DEF CheckSubject, At
  <2>2. task[t].req.sub \in Keys
    BY <2>1, RequestedIs
  <2>3. Passes(t, task[t].req.sub) \/ TooMany(t, task[t].req.sub)
    BY <1>3 DEF CheckSubject
  <2>4. QED
    BY <2>1, <2>2, <2>3, CheckTells
<1>4. CASE Crash
  <2>1. /\ limit' = limit /\ log' = [k \in Keys |-> <<>>] /\ front' = [k \in Keys |-> 0]
        /\ told' = [t \in Tasks |-> NotTold]
    BY <1>4 DEF Crash, Restarted
  <2>2. NotTold \in Notice /\ NotTold.key = None
    BY DEF NotTold, Notice
  <2>3. ToldRight'
    BY <2>1, <2>2 DEF ToldRight
  <2>4. DequesRight'
    BY <2>1, LimitType DEF DequesRight, Off, LimitOf
  <2>5. QED
    BY <2>3, <2>4 DEF RetryInv
<1>5. CASE Tick
  BY <1>1, <1>5, RetryQuiet DEF Tick
<1>6. CASE UNCHANGED vars
  BY <1>1, <1>6, RetryQuiet DEF vars, rateVars
<1>7. ASSUME NEW t \in Tasks,
             \/ Arrive(t) \/ Body(t) \/ GuestEnds(t) \/ Disconnect(t) \/ Panic(t)
             \/ Authenticate(t) \/ Read(t) \/ Upload(t) \/ Delete(t)
             \/ DefineLookup(t) \/ DefineInsert(t) \/ InvokeLookup(t) \/ InvokeCreate(t)
             \/ InvokeSource(t) \/ Compute(t) \/ Finish(t) \/ RequestTimeout(t) \/ Sent(t)
      PROVE  RetryInv'
  <2>1. UNCHANGED <<limit, log, front, told, clock>>
    BY <1>7 DEF Arrive, Body, GuestEnds, Disconnect, Panic, Authenticate, Read, Upload, Delete,
                DefineLookup, DefineInsert, InvokeLookup, InvokeCreate, InvokeSource, Compute,
                Finish, RequestTimeout, Sent, rateVars
  <2>2. QED
    BY <1>1, <2>1, RetryQuiet
<1>8. QED
  BY <1>2, <1>3, <1>4, <1>5, <1>6, <1>7 DEF Next, Serve

LEMMA RetryInit == Init => RetryInv
<1> SUFFICES ASSUME Init PROVE RetryInv
  OBVIOUS
<1>1. IInv
  BY InitOK
<1>2. /\ log = [k \in Keys |-> <<>>] /\ front = [k \in Keys |-> 0]
      /\ told = [t \in Tasks |-> NotTold]
  BY DEF Init, RateInit
<1>3. NotTold \in Notice /\ NotTold.key = None
  BY DEF NotTold, Notice
<1>4. QED
  BY <1>1, <1>2, <1>3, LimitType DEF RetryInv, DequesRight, ToldRight

\* When it is due, the entry that stood first has aged for the request, so the
\* pops of its check go past it.
LEMMA DueIsLetThrough ==
  ASSUME IInv, RetryInv, NEW w \in Notice, w.key # None, NoticeRight(w),
         NEW now \in Nat, now >= w.due, Len(log[w.key]) = w.seen
  PROVE  ~Full(w.key, now)
<1> DEFINE k == w.key
           first == w.seen - LimitOf(k)
           p == PoppedTo(k, now)
           stamp == log[k][first + 1].stamp
<1>1. k \in Keys /\ w.seen \in Nat /\ w.due \in Nat /\ Window \in Nat \ {0}
  BY RateAssumption DEF Notice
<1>2. /\ ~Off(k) /\ LimitOf(k) \in Nat \ {0} /\ 0 <= first /\ first <= front[k]
      /\ w.due >= stamp + Window
  BY <1>1, LimitType DEF NoticeRight
<1>3. Len(log[k]) \in Nat /\ front[k] \in Nat
  BY <1>1, Deque DEF IInv
<1>4. first \in Nat /\ first + 1 \in 1..Len(log[k])
  BY <1>1, <1>2, <1>3
<1>5. stamp \in Nat
  BY <1>1, <1>4, Deque DEF IInv
<1>6. now >= stamp /\ now - stamp >= Window
  <2> HIDE DEF stamp, first
  <2>1. QED
    BY <1>1, <1>2, <1>5
<1>7. Aged(k, first + 1, now)
  BY <1>6 DEF Aged, duration_since
<1>8. p \in front[k]..Len(log[k]) /\ (p = Len(log[k]) \/ ~Aged(k, p + 1, now))
  BY <1>1, PoppedToIs DEF IInv
<1>9. p # first
  BY <1>1, <1>2, <1>4, <1>7, <1>8
<1> HIDE DEF p
<1>10. ~(Len(log[k]) - p >= LimitOf(k))
  BY <1>1, <1>2, <1>3, <1>4, <1>8, <1>9
<1>11. QED
  BY <1>10 DEF Full, LimitOf, p

\* For any window, limit and length of a second: a client that waited as long
\* as it was told, and the second that was cut off, finds room, if nobody used
\* the key meanwhile.
THEOREM WaitingHelps == Spec => []RetryHelps
<1>1. IInv /\ RetryInv => RetryHelps
  <2> SUFFICES ASSUME IInv, RetryInv, NEW t \in Tasks,
                      told[t].key # None, task[t].stamp >= told[t].due,
                      Len(log[told[t].key]) = told[t].seen
               PROVE  ~Full(told[t].key, task[t].stamp)
    BY DEF RetryHelps
  <2>1. told[t] \in Notice /\ NoticeRight(told[t])
    BY DEF RetryInv, ToldRight
  <2>2. task[t].stamp \in Nat
    BY OneTask
  <2>3. QED
    BY <2>1, <2>2, DueIsLetThrough
<1>2. IInv /\ RetryInv /\ [Next]_vars => IInv' /\ RetryInv'
  BY StepKeeps, RetryStep
<1>3. Init => IInv /\ RetryInv
  BY InitOK, RetryInit
<1>4. QED
  BY <1>1, <1>2, <1>3, PTL DEF Spec
=============================================================================
