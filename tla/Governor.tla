----------------------------- MODULE Governor -----------------------------
(***************************************************************************)
(* Admission in omega-server: what a request may hold before it runs and   *)
(* when it gives it back (worker.rs, quantum_bridge.rs).                   *)
(*                                                                         *)
(* The governor keeps a semaphore of MiB per memory pool and one of job    *)
(* slots; the host gate guards the machine beside it.  Every handler runs  *)
(* on a thread of its own and admits in several steps: it prices, reads    *)
(* the machine's free memory, takes memory, takes a slot, asks the gate.   *)
(* Nothing waits: a step that does not get what it asks for is a refusal,  *)
(* and whatever was taken before it is dropped.                            *)
(*                                                                         *)
(* The doors differ: the quantum routes ("run") and their admission query  *)
(* ("ask") ask the gate too; a registered function and a run of a WASM     *)
(* guest ("local") ask the governor alone; a guest that registers a        *)
(* circuit ("register") only asks it.  A query drops what it was given.    *)
(*                                                                         *)
(* The price of a row is given with it, as estimate_peak_bytes works it    *)
(* out; memory is counted in bytes of which Mib make a MiB.  The rows of a *)
(* request share one target, for batches run on the CPU.  What the         *)
(* gate answers is modelled by HostGate and is either answer here.         *)
(* Definitions named Slip... are wrong on purpose: each is a way to get    *)
(* the definition after it wrong that the properties have to notice.       *)
(***************************************************************************)
EXTENDS Totals, Sequences

CONSTANTS
  Job,            \* the handlers that may run at once
  Request,        \* what they may be asked for
  Topology,       \* the machines: what each of its pools may hold
  Mib,
  MaxQubits,      \* the ceiling on dense registers
  MaxConcurrency, \* the job slots
  Machine,        \* the memory of the machine
  Load,           \* what everything else on the machine may use
  Blind,          \* whether the free memory may be unreadable
  Gated           \* whether the host gate may refuse

\* A row is one circuit of a request; its price is -1 when it has none.
Row == UNION {{r.rows[i] : i \in DOMAIN r.rows} : r \in Request}

ASSUME GovernorAssumption ==
  /\ Mib \in Nat \ {0} /\ MaxConcurrency \in Nat \ {0} /\ MaxQubits \in Nat
  /\ Machine \in Nat /\ Load \subseteq 0 .. Machine /\ Load # {}
  /\ Blind \in BOOLEAN /\ Gated \in BOOLEAN
  /\ IsFiniteSet(Job) /\ Request # {}
  /\ \A r \in Request :
       /\ r.door \in {"run", "ask", "local", "register"} /\ r.rows \in Seq(Row) \ {<<>>}
       /\ \A i, k \in DOMAIN r.rows : r.rows[i].target = r.rows[k].target
  /\ \A row \in Row : /\ row.peak \in Nat \cup {-1} /\ row.qubits \in Nat
                       /\ row.dense \in BOOLEAN /\ row.opaque \in BOOLEAN
  /\ \A t \in Topology : \A p \in DOMAIN t : t[p] \in Nat \ {0}

VARIABLES
  capacity, \* the pools, fixed when the server starts
  memory,   \* the MiB left in each
  slots,    \* the job slots left
  request,  \* what each handler was asked for
  pc,
  held,     \* what it has taken: memory, slot, grant
  at,       \* the row it is executing, or 0
  outcome,  \* why it was refused, or that it was not
  load      \* what everything else uses

vars == <<capacity, memory, slots, request, pc, held, at, outcome, load>>

\* Of an idle handler: any one stands for none.
NoRequest == CHOOSE r \in Request : TRUE

Refusals == {"ExceedsCapacity", "Busy", "TooManyQubits", "Unpriceable",
             "MachinePressure", "HostBudget"}

TypeOK ==
  /\ capacity \in Topology
  /\ memory \in [DOMAIN capacity -> Nat]
  /\ slots \in 0 .. MaxConcurrency
  /\ request \in [Job -> Request]
  /\ pc \in [Job -> {"idle", "price", "measure", "memory", "slot", "gate", "run", "drop"}]
  /\ held \in [Job -> SUBSET {"memory", "slot", "grant"}]
  /\ DOMAIN at = Job /\ \A j \in Job : at[j] \in 0 .. Len(request[j].rows)
  /\ outcome \in [Job -> Refusals \cup {"admitted"}]
  /\ load \in Load
-----------------------------------------------------------------------------
(* Prices and pools. *)

CeilDiv(x, y) == (x + y - 1) \div y

\* to_mib: whole MiB, at least one.
ToMib(bytes) == IF bytes = 0 THEN 1 ELSE CeilDiv(bytes, Mib)

Budget(p) == ToMib(capacity[p])

\* A unified machine has one pool, and it serves every target.
PoolOf(target) ==
  IF "unified" \in DOMAIN capacity THEN "unified"
  ELSE IF target = "cpu" THEN "host" ELSE target

HasPool(target) == PoolOf(target) \in DOMAIN capacity

Priced(row) == row.peak >= 0
Bytes(row) == IF Priced(row) THEN row.peak ELSE 0

\* Slip: a row without a price outranks the others.
SlipStandsFor(rows) ==
  LET none == {i \in DOMAIN rows : ~Priced(rows[i])}
  IN  IF none # {} THEN rows[CHOOSE i \in none : TRUE]
      ELSE rows[CHOOSE i \in DOMAIN rows :
                  \A k \in DOMAIN rows : Bytes(rows[k]) <= Bytes(rows[i])]

\* decide_shapes: the row that is over the ceiling, or else the dearest one of
\* those that have a price, stands for the request.
StandsFor(rows) ==
  LET over == {i \in DOMAIN rows : rows[i].dense /\ rows[i].qubits > MaxQubits}
      priced == {i \in DOMAIN rows : Priced(rows[i])}
      dearest == {i \in priced : \A k \in priced : Bytes(rows[k]) <= Bytes(rows[i])}
  IN  rows[CHOOSE i \in DOMAIN rows :
             IF over # {} THEN i \in over /\ \A k \in over : i <= k
             ELSE IF priced # {} THEN i \in dearest /\ \A k \in dearest : k <= i
             ELSE i = 1]

Shape(j) == StandsFor(request[j].rows)
Pool(j) == PoolOf(Shape(j).target)

Min2(x, y) == IF x <= y THEN x ELSE y

\* What a reservation takes from its pool.
Permits(j) == Min2(ToMib(Bytes(Shape(j))), Budget(Pool(j)))

\* The memory that a handler has in use: that of the row it executes.
Resident == [j \in Job |-> IF at[j] = 0 THEN 0 ELSE Bytes(request[j].rows[at[j]])]

In(p) == {j \in Job : at[j] # 0 /\ PoolOf(request[j].rows[at[j]].target) = p}

\* What the machine reports as free; the memory of a device is not its own.
Free ==
  LET used == load + Total(Resident, In("host") \cup In("unified"))
  IN  IF used > Machine THEN 0 ELSE Machine - used

\* exceeds_machine_headroom: more than 0.8 of what is free.
Presses(bytes, free) == 10 * bytes > 8 * free
-----------------------------------------------------------------------------
(* The handlers. *)

Goes(j, from, to) == pc[j] = from /\ pc' = [pc EXCEPT ![j] = to]

\* The answer is a refusal; what is held is dropped on the way out.
Refuse(j, from, why) ==
  /\ Goes(j, from, "drop")
  /\ outcome' = [outcome EXCEPT ![j] = why]
  /\ UNCHANGED <<capacity, memory, slots, request, held, at, load>>

Submit(j, r) ==
  /\ Goes(j, "idle", "price")
  /\ request' = [request EXCEPT ![j] = r]
  /\ UNCHANGED <<capacity, memory, slots, held, at, outcome, load>>

\* admit: a device without a budget and a job larger than the budget are
\* refused out of hand.
Price(j) ==
  LET shape == Shape(j)
      tooLarge == Bytes(shape) > capacity[Pool(j)]
  IN  \/ ~HasPool(shape.target) /\ Refuse(j, "price", "Unpriceable")
      \/ HasPool(shape.target) /\ tooLarge /\ Refuse(j, "price", "ExceedsCapacity")
      \/ /\ HasPool(shape.target) /\ ~tooLarge
         /\ Goes(j, "price", "measure")
         /\ UNCHANGED <<capacity, memory, slots, request, held, at, outcome, load>>

\* The machine is asked, and its answer is not looked at again.
Measure(j) ==
  LET shape == Shape(j)
      presses == Priced(shape) /\ Presses(Bytes(shape), Free)
      wide == shape.dense /\ shape.qubits > MaxQubits
  IN  \/ presses /\ Refuse(j, "measure", "MachinePressure")
      \/ (presses => Blind) /\ wide /\ Refuse(j, "measure", "TooManyQubits")
      \/ /\ (presses => Blind) /\ ~wide
         /\ Goes(j, "measure", "memory")
         /\ UNCHANGED <<capacity, memory, slots, request, held, at, outcome, load>>

TakeMemory(j) ==
  LET shape == Shape(j)
      unknown == ~Priced(shape) /\ ~shape.opaque
  IN  \/ pc[j] = "memory" /\ unknown /\ Refuse(j, "memory", "Unpriceable")
      \/ /\ pc[j] = "memory" /\ ~unknown /\ Permits(j) > memory[Pool(j)]
         /\ Refuse(j, "memory", "Busy")
      \/ /\ pc[j] = "memory" /\ ~unknown /\ Permits(j) <= memory[Pool(j)]
         /\ Goes(j, "memory", "slot")
         /\ memory' = [memory EXCEPT ![Pool(j)] = @ - Permits(j)]
         /\ held' = [held EXCEPT ![j] = @ \cup {"memory"}]
         /\ UNCHANGED <<capacity, slots, request, at, outcome, load>>

\* Slip: the refusal forgets the memory permit.
SlipTakeSlot(j) ==
  \/ /\ slots = 0
     /\ Goes(j, "slot", "drop")
     /\ outcome' = [outcome EXCEPT ![j] = "Busy"]
     /\ held' = [held EXCEPT ![j] = {}]
     /\ UNCHANGED <<capacity, memory, slots, request, at, load>>
  \/ /\ slots > 0
     /\ Goes(j, "slot", CASE request[j].door \in {"run", "ask"} -> "gate"
                          [] request[j].door = "local" -> "run"
                          [] OTHER -> "drop")
     /\ slots' = slots - 1
     /\ held' = [held EXCEPT ![j] = @ \cup {"slot"}]
     /\ UNCHANGED <<capacity, memory, request, at, outcome, load>>

TakeSlot(j) ==
  \/ slots = 0 /\ Refuse(j, "slot", "Busy")
  \/ /\ slots > 0
     /\ Goes(j, "slot", CASE request[j].door \in {"run", "ask"} -> "gate"
                          [] request[j].door = "local" -> "run"
                          [] OTHER -> "drop")
     /\ slots' = slots - 1
     /\ held' = [held EXCEPT ![j] = @ \cup {"slot"}]
     /\ UNCHANGED <<capacity, memory, request, at, outcome, load>>

\* decide_shape: local first, then the machine.
AskGate(j) ==
  \/ Gated /\ Refuse(j, "gate", "HostBudget")
  \/ /\ Goes(j, "gate", IF request[j].door = "run" THEN "run" ELSE "drop")
     /\ held' = [held EXCEPT ![j] = @ \cup {"grant"}]
     /\ UNCHANGED <<capacity, memory, slots, request, at, outcome, load>>

\* The rows of a batch run one after the other.
SlipExecute(j) ==
  /\ pc[j] = "run" /\ at[j] <= Len(request[j].rows)
  /\ at' = [at EXCEPT ![j] = @ + 1]
  /\ UNCHANGED <<capacity, memory, slots, request, pc, held, outcome, load>>

Execute(j) ==
  /\ pc[j] = "run" /\ at[j] < Len(request[j].rows)
  /\ at' = [at EXCEPT ![j] = @ + 1]
  /\ UNCHANGED <<capacity, memory, slots, request, pc, held, outcome, load>>

\* The handler returns or panics, after the last row or before.
Stop(j) ==
  /\ Goes(j, "run", "drop")
  /\ at' = [at EXCEPT ![j] = 0]
  /\ UNCHANGED <<capacity, memory, slots, request, held, outcome, load>>

(* Dropping a Reservation and a Grant, field by field. *)

DropMemory(j) ==
  /\ pc[j] = "drop" /\ "memory" \in held[j]
  /\ memory' = [memory EXCEPT ![Pool(j)] = @ + Permits(j)]
  /\ held' = [held EXCEPT ![j] = @ \ {"memory"}]
  /\ UNCHANGED <<capacity, slots, request, pc, at, outcome, load>>

\* Slip: the slot is kept.
SlipDropSlot(j) ==
  /\ pc[j] = "drop" /\ "memory" \notin held[j] /\ "slot" \in held[j]
  /\ held' = [held EXCEPT ![j] = @ \ {"slot"}]
  /\ UNCHANGED <<capacity, memory, slots, request, pc, at, outcome, load>>

DropSlot(j) ==
  /\ pc[j] = "drop" /\ "memory" \notin held[j] /\ "slot" \in held[j]
  /\ slots' = slots + 1
  /\ held' = [held EXCEPT ![j] = @ \ {"slot"}]
  /\ UNCHANGED <<capacity, memory, request, pc, at, outcome, load>>

DropGrant(j) ==
  /\ pc[j] = "drop" /\ held[j] = {"grant"}
  /\ held' = [held EXCEPT ![j] = {}]
  /\ UNCHANGED <<capacity, memory, slots, request, pc, at, outcome, load>>

Reply(j) ==
  /\ held[j] = {} /\ Goes(j, "drop", "idle")
  /\ request' = [request EXCEPT ![j] = NoRequest]
  /\ outcome' = [outcome EXCEPT ![j] = "admitted"]
  /\ UNCHANGED <<capacity, memory, slots, held, at, load>>

Shift ==
  /\ load' \in Load \ {load}
  /\ UNCHANGED <<capacity, memory, slots, request, pc, held, at, outcome>>

Init ==
  /\ capacity \in Topology
  /\ memory = [p \in DOMAIN capacity |-> Budget(p)]
  /\ slots = MaxConcurrency
  /\ request = [j \in Job |-> NoRequest]
  /\ pc = [j \in Job |-> "idle"] /\ held = [j \in Job |-> {}]
  /\ at = [j \in Job |-> 0] /\ outcome = [j \in Job |-> "admitted"]
  /\ load \in Load

Next ==
  \/ \E j \in Job, r \in Request : Submit(j, r)
  \/ \E j \in Job :
       \/ Price(j) \/ Measure(j) \/ TakeMemory(j) \/ TakeSlot(j) \/ AskGate(j)
       \/ Execute(j) \/ Stop(j)
       \/ DropMemory(j) \/ DropSlot(j) \/ DropGrant(j) \/ Reply(j)
  \/ Shift

Spec == Init /\ [][Next]_vars
-----------------------------------------------------------------------------
(* What the governor promises. *)

\* Nothing leaks and nothing is returned twice: in every pool the permits that
\* are left and those that handlers hold make up the budget, and so do the job
\* slots, whichever of the steps refused and whatever was dropped since.
PermitsExact ==
  /\ \A p \in DOMAIN capacity :
       memory[p] + Total([j \in Job |-> Permits(j)],
                         {j \in Job : "memory" \in held[j] /\ Pool(j) = p}) = Budget(p)
  /\ slots + Cardinality({j \in Job : "slot" \in held[j]}) = MaxConcurrency

\* What the rows that run at one time use of a pool is covered by its budget,
\* on a unified machine that of the CPU and of the device together, and
\* whichever row of a batch the request was admitted on.
ResidentCovered ==
  \A p \in DOMAIN capacity : Total(Resident, In(p)) <= Budget(p) * Mib

\* No dense row that runs is wider than the ceiling, in any place of a batch.
CeilingObeyed ==
  \A j \in Job :
    at[j] # 0 => LET row == request[j].rows[at[j]]
                 IN  row.dense => row.qubits <= MaxQubits

\* "Busy" says that others hold the rest: nobody is turned away so while no
\* other handler holds anything.
NeverBusyAlone ==
  [][\A j \in Job :
       (outcome'[j] = "Busy" /\ outcome[j] # "Busy")
         => \E k \in Job \ {j} : held[k] # {}]_vars
=============================================================================
