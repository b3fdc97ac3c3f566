# A verification development for the Omega host gate, server and simulation engines

This directory models three sides of the repository.

**Admission control**, where several actors share something scarce and a mistake
is invisible until a machine dies. The *host gate* (`crates/omega-hostgate`)
keeps one budget for a whole machine, in a file that every participating process
rewrites under a lock. The *governor* (`crates/omega-server/src/worker.rs`) keeps
the budget of one server process. Around the gate stand the store that replaces
the ledger file, the command `omega-hostgate run` that charges processes which
cannot call a library, and the watch that kills a process tree that exceeds what
it declared.

**The request path of the server** (`crates/omega-server`), where many tasks share
two rate limiters, a database connection and a timeout that may cancel them.

**The simulation engines**, where a mistake is a wrong number that looks like a
right one. Four engines keep the same quantum state, or its observable, in four
forms, and each is rewritten gate by gate by rules of its own: a dense vector, a
sum of CH forms, a stabilizer tableau, and a sum of Pauli strings that is pulled
backward. In front of them stand passes that rewrite the circuit. The models run
them side by side over exact amplitudes and compare.

## Inventory

| Component | State | Operations | Interacts with | What is hard | What makes it correct |
|---|---|---|---|---|---|
| Gate (`gate.rs`, `identity.rs`, `lib.rs`) | records of holders (pid, start time, amounts, advisory flag), caps in force, boot; per process: armed grants | `try_acquire`, `capacity`, `release`, `Drop`, `transfer_to`; each prunes | store (calls), operating system (probes), all other processes (shared file) | death without a handler, pid and start time reuse, probes that fail, reboots, caps that differ between processes, I/O errors | budget never overspent; live holders charged exactly; dead ones reclaimed; nothing carried over a boot |
| Store (`ledger.rs`) | ledger file, lock file, temporary files | `with_lock` = lock, read, closure, write, unlock | gate (callback), file system | crash between any two system calls, threads of one process on one temporary file, power loss | a call is atomic; never a torn ledger; every call ends |
| `run` (`bin/omega-hostgate.rs`) | where it has got to, its one grant, its child | acquire, spawn, transfer, wait | gate, child, watch | wrapper and child die in either order | the child stays charged |
| Watch (`watch.rs`) | peak, samples, retries left | sample, fold, react, kill, reap | process tree | the tree changes between listing, reading and signalling | an excess is killed whole; a run reported finished was inside; the watch ends |
| Governor (`worker.rs`) | a semaphore of MiB per pool, one of job slots | `admit`, drop of a `Reservation`, `admit_circuit`, `admit_run` | HTTP handlers, functions, WASM guests (calls), the machine (measurement) | concurrent handlers, several refusals after partial acquisition, rounding, unified memory | permits exact; what runs is covered |
| Quantum routes (`quantum_bridge.rs`) | an `Admitted` per request | `decide_shapes`, `decide_shape`, execution of a batch | governor, then gate | one row stands for a batch | no row dearer or wider than the one priced |
| Prices (`estimate_peak_bytes`, `fock_dim`, shapes per route) | none | pure 64-bit arithmetic | governor, gate | overflow, a price of another job than the one that runs | a price covers the allocation |
| Functions and lambdas (`registry.rs`, `lambda.rs`) | SQLite rows: circuits, functions, lambdas, invocations | register, invoke, complete, fail, delete | HTTP handlers, governor, WASM runtime | one statement at a time under the lock of the connection; delete between look-up and insert, or during an invocation; cancellation, panic or crash between create and complete | a function has its circuit; an invocation ends in one final state, the one its client was told |
| Auth and rate limit (`auth/`) | tokens, revocations, time stamps per key | issue, verify, revoke, `check` | every route | the time is read before the lock is taken; pops by several requests; window boundaries | never more than the limit in a window; `Retry-After` honest |
| HTTP surface (`routes.rs`) | per task: how far its request has come | layers: limit by address, timeout, token, limit by subject, body, handler | all of the above | what a timeout or a closed connection cancels, and where | every request is answered; nothing is cut in two |
| PQC sessions and WebSocket (`pqc/`, `ws/`) | keys, send and receive counters | handshake, encrypt, decrypt | clients | reordering, failed records | no nonce twice; a failed record does not desynchronise |
| Start-up, topology, configuration | none, or fixed at start | parsing, probing | platform | - | unit tests |
| Circuit passes (`optimize.rs`, `defer_measure.rs`, `executor.rs`) | the circuit while it is rewritten, a map from classical bits to wires | `optimize` (three passes in a loop), `prepare_for_expectation`, `defer_measurements`, `dephase` | QML trainer; every engine that answers expectations | rules that enable one another, termination, gates of three wires, bits measured twice | the unitary, or the mean, is kept; the loop ends with nothing left to do |
| Dense engine (`omega-backend-statevector`) | 2^n amplitudes | gates, channels, measure, reset, expectation | passes | a reset that decoheres | its vector is the reference for the others |
| Stabilizer rank (`omega-backend-stabrank`) | branches: coefficient, CH form (F, G, M, gamma, v, s, omega) | gates, splits, amplitude, overlap | - | phases between branches, the branch limit | same amplitudes and expectations; branches stay states |
| Tableau (`omega-backend-pauli`) | 2n signed Pauli rows | gates, measure, reset, distribution, expectation | stabrank (phase table) | independence of the rows after random outcomes | same probabilities, outcomes, expectations |
| Pauli propagation (`omega-backend-pauliprop`) | weighted raw Pauli strings, their support mask, dropped mass | `propagate`, noise adjoints, cutoffs, the cap, `term_upper_bound` | passes; the server prices it | order of adjoints, order of a hash map, stale mask, a cap tested in a loop | value exact up to the dropped mass; never above the ceiling; price a bound |
| Other engines (MPS, photonics, CV, qudits, sectors, Majorana, GPU), tensor library | amplitudes | linear algebra | - | floating point | comparison tests |
| Rest of core, parser, bridges, WASM runtime, FFI, clients | no shared state | translation, marshalling | - | - | unit tests |
| Aria language and libraries | trees, matrices | compile, evaluate | - | - | tests, Lean proofs |

`PROJECT.json` lists the same components with their status, and under `hazards`
every place where this code can go wrong in a way that a test would hardly
reach, with the property that would notice.

## Modules

```
Totals <- HostGate, Governor          StateVector <- EngineLemmas <- BackendsProofs, ExpectationProofs

HostGate <- HostGateProofs            AtomicLedger  <=implements=  LedgerStore
    ^                                                              ^        ^
MCHostGate                                             MCLedgerStore  LedgerStoreProofs

Totals <- Governor <- MCGovernor                         Watch <- MCWatch
             ^                                             ^
       GovernorProofs                                 WatchProofs

RateLimit <- Requests <- MCRequests
                ^
          RequestsProofs

Amplitudes <- Register <- StateVector --------\
                 ^     <- ChForm <- StabRank --- Backends <- MCBackends
  PauliPhase <---|------- Tableau ------------/     ^
                 |                            BackendsProofs
                 |<- CircuitPasses -------------\
                 `<- (StateVector) <- PauliSum <- Propagation -- Expectation <- MCExpectation
                                                                    ^
                                                             ExpectationProofs
```

**Totals** defines the sum of a family of naturals over a finite set as the
number of its units, so that it needs no recursion, with the lemmas on it (it
grows, shrinks and keeps with its members, and a member more adds what it holds)
in the modules that use them. **EngineLemmas** has what the proofs about the
engines share: recursion over a range of naturals and folds (a function so
defined exists, is the one that follows its steps, and stays in a set that its
steps stay in), the ring of amplitudes, gates as kernels over pairs of basis
states, the parity of finite sets, sums over basis states and the norm of a
vector. No module declares an operator as RECURSIVE: the loops of the code are
recursive functions or folds, so that every module can be proved about.

**HostGate** is the gate. A transaction (`Store::with_lock` with its closure) is
one step; that this grain is right is what LedgerStore shows. `file` is the
ledger; `proc` the process table (pid, start time, configuration); `grants` the
`Grant` values in the memory of live processes, `armed` or (after a failed
release) `lost`; `run` the position of each `omega-hostgate run`; `owed` what a
completed transfer says a running process is charged, which only properties
read. `Acquire`, `Release`, `ReleaseFails`, `Capacity`, `ProbeChild`,
`Transfer`, `TransferFails` are the operations; `transfer_to` is two steps,
since it probes the child before it takes the lock. Each transaction chooses
which entries of the process table its probe cannot read (`blind`). `Die` and
`Reboot` come at any time. The helpers `Pruned`, `Reconciled`, `ChargeHolder`,
`Discharge`, `Charged`, `Price` have the names and the order of the code.

**LedgerStore** opens a transaction up into its system calls: lock, read and
closure, create and truncate, write, fsync, rename, fsync of the directory,
unlock. Every one of them may fail; a process may be killed between any two; the
machine may lose power, which leaves any content that the file system was free
to leave. **AtomicLedger** is the abstract specification: a call sees and
changes the ledger at one instant or not at all. The refinement maps a call to
*committed* once its rename is seen.

**Watch** runs the supervisor beside a process tree that forks, calls `setsid`,
grows, shrinks and exits between any two of its steps. The census is two steps
(list, then read), the kill one step per signal.

**Governor** has one program counter per handler: price, measure, take memory,
take a slot, ask the gate, execute the rows one by one, drop field by field. The
*door* of a request says which of these it goes through. The price of a row is
given with it. The host gate answers either way. The rows of one request share a
target: `batch_shapes` and `gradient_shapes` put every row on the CPU, and the
other routes have one row.

**RateLimit** has the two sliding-window limiters. A deque is the tail of a log:
`log` keeps every request of a key that was let through, with the time it read
(`stamp`) and the time at which it held the lock (`at`), and `front` counts how
many were popped; so a property can speak of requests that the code has
forgotten. `Sweep` is the sweep of every `GC_EVERY` requests together with the
pops of the key itself, `LetThrough` and `Throttle` the two ends of `check`. The
clock is read by the request before it takes the lock, in the step before.

**Requests** composes them with the layers of the router and the handlers of
circuits, functions, invocations and guests. `task` is the request of each
client and its program counter; the rows are `circuits`, `functions` and
`invocations`; `boot` and `lost` are history: in which life of the server a row
was inserted, and whether its update failed or its handler panicked. `told` is
what a client remembers of a 429. A step is one SQL statement, or what lies
between two of them, since the connection is locked for one statement at a time;
`state.read().await` never waits, because nothing takes that lock for writing.
Timeout and closed connection can only act where a handler awaits
(`Cancellable`): while the body is read, and while a guest runs. The timer is
not tied to the clock. `ReferenceHolds` and `Referenced` are the REFERENCES
clauses of the schema, which the bundled SQLite enforces. The status codes other
than 429 are one answer, "refused".

**Amplitudes** is the ring in which the engines calculate: integer combinations
of 1, w, w^2, w^3 with w = exp(i pi/4), divided by a power of sqrt 2, in a normal
form, so that equality of amplitudes is equality of records. It holds every
amplitude that a circuit of Clifford gates, T, and rotations by multiples of
pi/4 (an angle *th* counts pi/4) can produce, and comparisons of real members
(`AtMost`, by bracketing sqrt 2) are exact. What floating point adds to this is
left out. **Register** has the wires, the gate kinds, angles and conditions of
`circuit.rs`. A basis state is the set of its wires that are 1.

**StateVector** is the dense engine, a function from basis states to amplitudes.
**ChForm** is the CH form with its update rules, `amplitude` and `overlap`, and
**StabRank** the sum of branches: a non-Clifford gate splits every branch, up to
`max_branches`. **PauliPhase** is the one phase table of row products, which
tableau and CH form share, and **Tableau** the stabilizer tableau with
measurement, the distribution and the expectation. **Backends** runs the three
on one circuit: a script first, then free gates, measurements and resets; an
engine that refuses a gate takes no further part, as the server would answer
with its error. A random outcome is a nondeterministic choice that the engines
in the run share.

**PauliSum** has the pieces of Pauli propagation: raw strings `X^x Z^z`, the
images of the Clifford gates, branch programs of the others, noise adjoints,
cutoffs, the value at zero, `term_upper_bound`. **Propagation** is the run: the
dense density matrix forward, gate and channel by channel, then the sum
backward, gate by gate, and inside a branching term by term in any order the
hash map may have (the order only matters, and is only explored, where the cap
can end the run in the middle). `support` is the mask of wires that may carry a
letter; it is refreshed where the code rebuilds the sum and is stale otherwise.
**CircuitPasses** is the optimizer, one rewriting step at a time with the index
and the flags of its loops, and the deferral of measurements, op by op.
**Expectation** composes them into one request: price, optimize if asked,
prepare, run both engines, compare.

Definitions named `Slip...` stand before the definition they get wrong; they are
the mutants listed in `PROJECT.json`, and nothing else uses them.

## Runs

| Run | Module | Bounds | Result |
|---|---|---|---|
| GateClients | MCHostGate | 3 library clients, 2 axes, 2 grants, 2 caps, both modes, 2 starts per pid and boot, 2 boots, I/O errors | passes, 163 491 states |
| GateRun | MCHostGate | 1 wrapper and 2 other processes, enforcing, I/O errors, unreadable probes of the wrapper | passes, 40 205 states, with liveness |
| StoreCrash | MCLedgerStore | 2 processes, 3 threads, 1 call each, 3 boots, every fault | passes, 28 679 states, with refinement and liveness |
| WatchTree | MCWatch | root and 2 descendants, limit 1, 2 retries, census faults | passes, 324 024 states, with liveness |
| GovernorDoors | MCGovernor | 3 handlers, 9 requests, 3 machines, 2 slots, budget not a whole number of MiB | passes, 774 064 states |
| RequestPath | MCRequests | 2 clients; three servers: limit 1 by address, limit 1 by subject (3 requests, times 0 to 4, window 3, second 2, a sweep every 2 requests), no limits (4 requests, every handler, 1 circuit, 1 function, 2 invocations); 2 boots, failing statements, panics | passes, 770 854 states, with liveness |
| Backends | MCBackends | 3 wires, 4 scripts of 3 to 6 gates, 2 free gates out of 32 with every kind of the table, measurements and resets of each wire, `max_branches` 4, 3 observables | passes, 3 762 states |
| Expectation | MCExpectation | 3 wires; every pair of 25 gates, every triple of 11 simplifiable ones, 7 circuits for chains of rules, 13 measured and conditioned ones, 4 noise models, cutoffs, caps from 1 to 8 terms | passes, 95 286 states, with liveness |
| GateTransferFault | MCHostGate | as GateRun, no unreadable probes | `WaitedForIsCharged` violated |
| GateAdvisoryRun | MCHostGate | one advisory wrapper | `AdvisoryNeverSpends` violated |
| OptimizeWide | MCExpectation | 8 circuits with a gate of three wires | `KeepsMeaning` violated |
| PriceOfMeasured | MCExpectation | 8 circuits with a measurement and a condition | `PriceCovers` violated |

Why the bounds are enough. In the gate, the interesting cases need a holder, a
neighbour that prunes, and a third process that is admitted on what the prune
freed; two requests fill the budget, one of them fills an axis alone; a pid has
to be used twice, and a start time has to recur after a reboot. Two grants let
one process hold two or two processes one each. In the store, two threads share
a temporary file and a third process races them; the third boot is one after a
power loss that followed a write of the second. In the watch, two descendants
give a chain and a fan, and the limit is passed by any two. In the governor,
three handlers over two slots and a budget that two of them fill make every
refusal reachable; three handlers are needed for one to be refused while one
holds and one returns.

On the request path, two requests and a third that comes later show a limit of
one being met, kept while the first is in its window, and released; stamps can
enter a deque in either order, and a window of three ticks in four leaves room
for one that ages and one that does not. A second of two ticks makes
`Retry-After` truncate. The limiters and the handlers share nothing but the way
from one to the other, so the run explores them on different servers: the
product of clocks and rows would only repeat itself. One circuit is deleted
while it is looked up, referred to or executed; two invocations run at a time
and one of them is cancelled, panics or is cut by a restart.

In the engines, three wires are the smallest register on which every gate of the
table (CCX, CSwap) exists and a fourth wire would only be a spectator: every
update rule touches the rows or columns of at most two wires and loops over the
rest, so one wire beside the pair shows what the loop does. The scripts bring
the state to a generic one (no observable of the list is 0 or 1, several
branches, non-diagonal generators); from there every gate of the table is taken
and then a second one, so that a wrong phase of the first has something to
interfere with. Caps are chosen around the number of terms that the circuits
reach, so that each is met before, in and after a branching.

`CHECK_DEADLOCK FALSE` stands where the bounded system stops: all pids used and
no boot left, all calls made, the watch at its end, the circuit run, the request
answered. The governor never stops and
is checked for deadlock.

### What the passing runs show

* `BudgetRespected`: whatever dies, reboots, fails or is reconfigured, the
  enforcing holders are charged no more than the cap in force.
* `ExactAccounting`: a live process is charged exactly what its grants took and
  what was handed to it. `NoForeignDischarge`: no transaction of somebody else
  lowers that. `ChildKeepsCharge`: nor does the death of the wrapper.
* `NoRecordFromAnotherBoot`: start times recur, records do not.
* `DeadAreReclaimed`: the failsafe works as long as somebody asks the gate.
* `NeverTorn`, `ImplementsAtomicLedger`, `EveryCallEnds`: the store.
* `NobodyLeft`, `FinishedInside`, `HogsAreKilled`, `WatchEnds`: the watch.
* `PermitsExact`, `ResidentCovered`, `CeilingObeyed`, `NeverBusyAlone`: the
  governor, through every door and on each kind of machine.
* `WindowRespected`: from the moment a request read the time, no more than the
  limit are let through before a window has gone by, although stamps may be out
  of order and another request's older time may have popped the deque.
  `RetryHelps`: a client that waits as long as it was told, and the second that
  the truncation cut off, is let through unless the key was used meanwhile.
* `RowsRefer`: a delete between the look-up and the insert of `register_function`
  is stopped by the schema. `InvocationsSettle`: a pending row of this boot has a
  handler that works on it, and a final one says what the client was told, except
  for rows whose update failed or whose handler panicked. `EveryRequestAnswered`:
  also one whose body never comes or whose guest runs for ever.
* `SameAmplitudes`, `SameProbabilities`, `SameExpectations`, `SameOutcomes`: the
  engines agree exactly, global phase included, after every gate, measurement
  and reset. `BranchesAreStates` and `RowsIndependent` are the laws on which the
  CH form and the tableau rest. `AnalyticResetSound`: a reset that an analytic
  run accepts has one possible result.
* `ValueKept`: between any two gates the Pauli sum gives the same mean as the
  dense state, up to the mass that was dropped; `StaysHermitian`: nothing is lost
  with the imaginary part. `InFlightCeiling`: the sum under construction is at
  most two terms over the cap. `PriceIsABound`: a circuit without deferred
  measurements and without damping never holds more terms than it was priced at.
* `KeepsMeaning`, `NothingLeft`, `PassesEnd`: the optimizer keeps the unitary of
  every circuit of one- and two-wire gates, ends, and leaves nothing a further
  round would change. `DeferralKeepsMean`: the mean of a measured and
  conditioned circuit is that of its deferred form with the dephased observable,
  where the deferral accepts it.

### What the violations show

1. *A failed transfer releases the charge.* `transfer_to` consumes the grant and
   drops it, armed, as it returns the error; the comments of the wrapper say
   that the charge stays (`bin/omega-hostgate.rs:346`).
2. *An advisory transfer spends the budget.* The child's record carries no
   advisory flag (`gate.rs:320` against `lib.rs:240`).
3. *The optimizer moves a gate through a gate of three wires.* The comparison
   looks at the first two wires only (`optimize.rs:212` against
   `optimize.rs:211`). The optimizer is called by the QML trainer alone
   (`qml.rs:767`), and only when its flag is set; `KeepsMeaning` holds on the
   circuits of the passing run, which give it no gate behind a three-wire one.
4. *A measured circuit is priced as another one.* The light cone is computed
   before the deferral, which adds controls (`bound.rs:162`, with the call at
   `quantum_bridge.rs:330`, against `bound.rs:103`).

Eight further disagreements were seen while modelling and have no run: two
handlers are admitted on the same free memory when both measure before either
allocates (`worker.rs:857` against "a guard rather than a race",
`worker.rs:650-651`); the seconds of `Retry-After` are truncated where the
comment says "Round up" (`auth/rate_limit.rs:103` against `:99`); the circuit
that `invoke_lambda` registers for its guest is priced by nobody, where the
comment says that the governor did so on the request's HTTP path
(`lambda.rs:253-255`, `:269`); a child
that cannot be probed is recorded with start 0, which a later, readable probe
never matches (`gate.rs:313` against `gate.rs:284`); a job over 0.8 of the whole
machine is refused as transient for ever (`worker.rs:428` against
`worker.rs:427`); with `max_freq` set, a term whose child is over the budget
skips the test of the cap (`pauliprop/sim.rs:1283-1287` against "The most terms
the engine can hold at any instant", `bound.rs:40`), which is why
`InFlightCeiling` assumes it unset; `noise_can_spawn_terms` answers false for
every model (`bound.rs:219`) although amplitude damping spawns terms, so
`PriceIsABound` is about runs without it; and the optimizer cancels and merges
gates without looking at their conditions, so conditioned circuits are not given
to it here.

## Fairness

* **HostGate**: strong fairness of a `Capacity` that can read the process table,
  by whatever process. It stands for a client that keeps asking the gate (a
  server does for every request) and a probe that does not fail for ever. Strong,
  because clients may die and restart in between. If no client outside the
  wrappers is running, nothing is promised, and the property says so.
* **LedgerStore**: weak fairness of every thread that has the lock, strong
  fairness of `lock.lock()`: the kernel does not pass over a waiter for ever.
* **Watch**: weak fairness of the supervisor, a thread that the system
  schedules. Nothing is assumed of the tree.
* **Governor**: none; nothing in it waits.
* **Requests**: weak fairness, for every task, of what the server does of itself:
  the runtime polls each task that is ready and fires its timers, and a
  simulation ends. Nothing is assumed of clients (a body may never come, a
  connection may stay open), of guests, or of the clock.
* **Expectation**: weak fairness of the passes. They run on the thread of the
  request and wait for nothing; the engines need no fairness, since nothing is
  promised of when they end.
* **Backends**: none.

## Proofs

`HostGateProofs` proves, for all values of the constants that satisfy
`HostGateAssumption` (any finite set of pids, any axes, requests, caps, faults,
number of boots):

* `TypeCorrect`: `Spec => []TypeOK`.
* `NoRecordCarriedOver`: `Spec => []NoRecordFromAnotherBoot`. Inductive as
  `BootInv`, which adds that the ledger is never of a later boot and that a
  child or a probed identity has started in this one.
* `BudgetNeverOverspent`: `Spec => []BudgetRespected`, and
  `AdvisoryRecordsFlagged`: `Spec => []AdvisoryNeverSpends`, both under
  `Unmixed`: there is no wrapper, or every process enforces. The second finding
  above is a counterexample without that assumption.

`BudgetRespected` is not inductive: a transfer charges the child without asking
`price`, so it must be known that what it charges was on the wrapper's record.
`BudgetInv` adds that: a wrapper has at most one grant (`OneGrant`), and an
armed grant of an enforcing wrapper is backed by its record (`Backed`). The step
of each transaction is composed from lemmas on the ledger operations
(`ChargeSound`, `DischargeSound`, `MoveSound`, `ReconciledSound`): pruning and
discharging only lower the total, a charge is covered by the headroom that
`price` saw, caps move only when nothing is held. `Backed` is disturbed neither
by a prune (the wrapper is alive and matches itself) nor by another's
transaction (it changes another record). `BudgetInv` and `BootInv` were checked
with TLC on the gate's configurations before they were proved.

The second half of `HostGateProofs` goes on from there to the accounts, where every process
enforces and, if there is a wrapper, the probe can read its child's start time
(`Accountable`):

* `AccountsAreExact`: `Spec => []ExactAccounting`, and `ChildIsKeptCharged`:
  `Spec => []ChildKeepsCharge`, which follows from it.

* `NobodyElseIsDischarged`: `Spec => NoForeignDischarge`, for any mixture of
  modes and any unreadable entries. It needs no more than the types: no ledger
  operation lowers the amount of a live process that it is not done for (the
  lemmas `Spares...`), a prune keeps it, a discharge and a move touch the record
  of the caller, and what is written is composed from these.

Both conditions of the first two are needed. An advisory process is charged beyond the caps, up
to where its amount saturates at `u64::MAX` and is no longer exact (the run
GateClients has advisory processes, but too few grants for that). A child whose
start time was not read is recorded under one that no process has, and evicted
by the next prune that can read it. `AccountInv` adds to the equation that a
process that is down owes nothing and that two wrappers never hand over to one
child (`KidsApart`), so that what is handed is not handed twice. The lemmas are
again about ledger values: a charge that fits in the budget does not saturate
(`ChargeAdds`, since no holder is charged more than all are), a discharge takes
off what the grant took (`ExactDischarge`), and what leaves the wrapper's record
has room on the child's (`MoveFits`). `AccountInv` was checked with TLC on the
configurations of GateRun and, enforcing only, of GateClients.

`LedgerStoreProofs` proves the safety of the store for any processes and
threads, numbers of calls and boots, and every fault:

* `StoreTypeCorrect` and `NeverTornEver`: `Spec => []` of `TypeOK` and
  `NeverTorn`.
* `StoreIsAtomic`: `Spec => ImplementsAtomicLedger`. Every step is a step of
  AtomicLedger under the refinement mapping, or a stutter: the rename commits an
  update, the read commits an inspection, and a loss of power is the restart of
  the abstract ledger. AtomicLedger has no fairness, so this is all of it.

They follow from `StoreInv`. That only the holder of the lock is between its
read and its rename (`Exclusive`) is what makes its draft the ledger of the
commit: what it has read is still there, and the temporary file, which all
threads of a process share, holds its own draft (`Drafted`). That the file is
synced before it is renamed is what keeps a loss of power from leaving a torn
one (`OnDisk`). `StoreInv` was checked with TLC on StoreCrash.

`WatchProofs` proves of the watch, for any processes, limit and retries, that
`Spec => []` of `TypeOK`, `NobodyLeft` and `FinishedInside` (`WatchTypeCorrect`,
`NobodyIsLeft`, `FinishedIsInside`). `NobodyLeft` needs that the group is dead
from the signal to it on, which leaves nobody to fork another member, and that
whom the census found had been started, so that its signal was not spent on a
process that is yet to be forked (`SignalledAreDead`, `Started`). The descendants
are the least set closed under children, so that nothing about them needs
induction. `WatchInv` was checked with TLC on WatchTree.

`GovernorProofs` proves every property of the run GovernorDoors for all values
of the constants that satisfy `GovernorAssumption` (any finite set of handlers,
any requests whose batches share a target, any machine, size of a MiB, ceiling
and number of slots):

* `GovernorTypes`, `PermitsNeverLeak`, `ResidentAlwaysCovered`,
  `CeilingAlwaysObeyed`: `Spec => []` of `TypeOK`, `PermitsExact`,
  `ResidentCovered`, `CeilingObeyed`.
* `NeverBusyOnIdleServer`: `Spec => NeverBusyAlone`.

They follow from one invariant, `GInv`. `PermitsExact` alone is not inductive: a
permit is returned at the price and to the pool of the request as it is *then*,
so one has to know that a handler holds nothing while its request changes, and
what it holds when it takes or drops the next thing (`Stages`); and that the
pool it uses exists and the request was compared with it (`Passed`). The types
themselves need the account: a slot is returned to at most `MaxConcurrency`
because somebody held it. `Stands` proves of `decide_shapes` that the row it
picks is too wide if any is, and otherwise outprices all; `TotalScaled` and
`MibCovers` take the step from permits, which are whole MiB, to bytes. Where an
argument would be by induction on the rows or on a set, it takes a least
counterexample instead (`Least`, from `WFMin`). `GInv` was checked with TLC on
GovernorDoors before it was proved.

`RequestsProofs` proves the safety of the request path for all values of the
constants that satisfy `RateAssumption` and `RequestsAssumption` (any keys,
limits, window, sweep interval, clients, menus of requests, rows, bounds):

* `RequestsTypeCorrect`, `WindowIsRespected`, `ReferencesHold` and
  `InvocationsAreSettled`: `Spec => []` of `TypeOK`, `WindowRespected`,
  `RowsRefer` and `InvocationsSettle`.

They follow from one invariant, `IInv`. `WindowRespected` needs that what was
popped had aged (`PoppedAged`) and that no request carries a time of the future
(in `TasksRight`): then the entry that stands `limit` places before a new one was
popped, and is a window old (`EntryKeeps`); `PoppedToIs` says what the loop of
pops leaves, by a least stop. `InvocationsSettle` needs that no two handlers hold
one row, that a row that is held was inserted, and that no row is of a later boot
(`RowsOwned`); `OwnRow` is the step of a handler on its own row, and `QuietTask`
that of a task without one. `IInv` was checked with TLC on RequestPath before it
was proved.

`WaitingHelps` adds `Spec => []RetryHelps` by a second invariant, `RetryInv`: a
deque of a limiter that is on never holds more than the limit, so the refused
client found exactly as many, and what it was told is due once the first of them
is a window old (`RefusalTells`, where the truncated quotient and one more is
beyond what was divided); pops are final and entries stay, so this holds for as
long as the notice does (`NoticeStays`).

`BackendsProofs` proves of the three engines, for any number of wires and any scripts,
gates and branch limits that satisfy `WidthAssumption`, `BranchesAssumption` and
`GatesAssumption` (the gates of the run are gates of the table, on distinct wires
of the register, as many as the gate takes; the kernels stop the process on
others):

* `TableauStaysIndependent`: `Spec => []RowsIndependent`, by `TableauInv`. Whether
  two rows commute is the parity of the wires where they cross; parity is
  additive (`OddSymDiff`), so commutation is bilinear (`AntiProduct`). A gate
  changes no parity (`GateKeeps`, wire by wire). A measurement multiplies the
  rows that anticommute with Z by one stabilizer and puts Z in its place, and
  the relations of all pairs before it say what they are after it
  (`CollapseKeeps`).
* `BranchesStayStates`: `Spec => []BranchesAreStates`, by `BranchInv`. What the
  code states of a CH form is not inductive. CX multiplies a sign into gamma
  that is right only if the X rows commute among themselves: `Symmetric` adds
  it, and it must then be kept by every other gate. The modulus of the scalar is
  1 because it is one of the eight powers of w (`Phases`), which a Hadamard
  keeps only where the two legs of its superposition meet in one basis state:
  their weights are then equal in modulus and not opposite, and that follows
  from the parity law (`SameLegs`, `LegsPhase`); where they do not meet,
  `desuperpose` rewrites the form by a loop of CX and CZ steps over the wires in
  which the legs differ, each of which keeps the laws. Rotations by quarter
  turns are conjugations with loops over the sites; a split copies a branch and
  keeps its coefficient apart from its scalar. Each loop is a recursive
  function, and `StaysIn` carries the laws through it.

TLC checked the strengthened invariants on the run Backends first (with gamma
typed, `Symmetric` and `Phases`).

The other six theorems relate the vector of the dense engine and the tableau.
Their invariant, `DescribedInv`, says that the vector is one of the ring with norm
1 and, while there is a tableau, that the tableau describes it (`Describes`): the
rows are independent, every stabilizer fixes the vector, sign included
(`Stabilizes`), and no Pauli string but the identity commutes with all 2n rows
(`Faithful`). The last is not one of the relations among the rows and has to be
carried along.

* `VectorStaysNormalized`: `Spec => []` that the squared amplitudes add up to 1.
* `TableauDescribesVector`: `Spec => []` that the stabilizers fix the vector.
* `OutcomesStaySame`: `Spec => []SameOutcomes`.
* `AnalyticResetStaysSound`: `Spec => []AnalyticResetSound`.
* `ProbabilitiesStaySame`: `Spec => []SameProbabilities`.
* `TableauExpectations`: `Spec => []` that `stabilizer_expectation` of every pair
  of masks is the mean of that Pauli string in the vector (`SameExpectations`
  says this of the observables of the run, and the like of the sum of CH forms).

The argument, bottom up:

1. A sum over a finite set of basis states is a fold, and what it does is an
   induction over the subsets of that set; it is stated of one set of subsets at
   a time, so that no operator is a parameter (`SumLaws`, `SumMove`, `SumTimes`).
   A sum of squares is positive, and zero only if every square is
   (`SquaresVanish`), also for coefficients with sqrt(2).
2. A gate is a pairing of the basis states with a unitary matrix (`GateMatrix`,
   `Unitary`), so it keeps the norm (`GateNorm`); three-wire gates move basis
   states one to one (`MoveNorm`).
3. What a native gate does to a row is what the gate's matrix does to the string
   of the row by conjugation, sign included (`GateSound`), gate by gate and phase
   by phase; Clifford rotations are sequences of native gates up to a global
   phase, which no string sees (`ScaleFixes`).
4. The product of two rows that fix a vector fixes it (`ProductFixes`): the phase
   table of `row_product` is the i of the product of the strings. By recursion the
   product of any of the stabilizers does (`ProductLaws`), which gives its sign a
   meaning.
5. Measurement. If a stabilizer anticommutes with Z it maps one half of the vector
   to the other, so both have weight 1/2 (`FreeHalves`), and dividing by the root
   of 1/2 is exact in the ring. Otherwise the product of the stabilizers that the
   destabilizers select commutes with every row exactly as Z does, and is Z up to
   its sign, by `Faithful` (`DeterminedIsZ`): so one half is empty (`HalfEmpty`).
   `MeasureSound` carries `Describes` through both, and `OutcomesAgree` is the
   property.
6. Reset. The dense engine accepts it when the reduced density matrix of the wire
   is pure. This is equality in the Cauchy-Schwarz inequality between the two
   halves of the vector, and equality there means that they are parallel
   (`BoundReached`, by expanding the square of one half's excess over the other);
   a determined wire has one empty half, and is pure (`DeterminedPure`).
7. The distribution. The weight of a basis state is the inverse transform, with
   the characters of the basis states, of the means of the products of Z
   (`SumSwap`, `CharacterSum`, `Inversion`). A product of Z that anticommutes with
   a stabilizer has mean 0 (`MeanFree`); one that commutes with all of them is,
   by `Faithful`, a product of stabilizers up to its sign (`CommutesIsProduct`),
   and its mean is that sign (`MeanFixed`, `SignedMean`). So only the masks whose
   product of stabilizers is diagonal contribute, one for each string, and these
   are what `stabilizer_probability` runs over. Where it returns 0 at once, since
   a diagonal product has the other sign at this basis state, the amplitude is 0
   (`DiagonalVanish`).
8. The elimination. The pivots found so far fix the vector, and their leading
   columns differ (`Shaped`), so the walk that reduces a string by them ends
   either in the identity or in a row that is not made of them (`WalkSound`).
   The row that is inserted is made of the pivots from then on, and so is what
   was (`InsertLaws`, `MakesMore`); rows that are made are closed under products
   (`MakesProducts`). So at the end exactly the products of stabilizers are made,
   and the sign the walk collects is that of the product (`SignRides`): what
   fixes a vector other than 0 commutes, and the identity fixes it with the sign
   plus only (`FixersCommute`).

The lemmas about sums and vectors alone are in `EngineLemmas`.

`ExpectationProofs` proves of one request for an expectation value, for any
circuits and observables of any length and width, under `JobsAssumption` (which
fields a job has, that a circuit is a sequence, that a cap is a number):

* `NothingLeftBehind`: `ExpectationSpec => []NothingLeft`, by `RoundInv`. A round
  is eight passes, and it ends the loop when the circuit is not shorter than after
  the merge; what it leaves undone would be a pair that a commutation brought
  together behind the index. `RoundInv` says what the passes after the
  commutations have looked at so far, if they have removed nothing (`Scanned`),
  and that what they keep keeps its length only by staying as it is
  (`RetainedKeeps`).
* `FlightIsBounded`: `ExpectationSpec => []InFlightCeiling`, by `FlightInv`. The
  cap is tested after every term that a branching reads, and a term adds at most
  two (`ExpandedDomain`); after a test that did not refuse, the sum is within the
  cap again. `max_freq` is unset, because with it the code skips the test.
* `OptimizerKeepsOperator`: while the optimizer runs, the circuit does to every
  vector what the submitted one does, global phase included; `OptimizerKeepsMeaning`
  is the property `KeepsMeaning` of the run, on the one vector it uses. Besides
  `JobsAssumption` they assume `PlainJobs`: the gates of a circuit that is to be
  optimized have one or two wires (known names, distinct wires, as many angles as
  the name takes), and Rx, Ry, Rz have an even number of units of pi/4, so that
  their half angle is in the ring. Past a gate of three wires the property is
  false (OptimizeWide); all 1338 circuits that the run Expectation optimizes
  satisfy `PlainJobs`. `Run` leaves classical conditions out, as the property does.
  The argument, bottom up:
  1. `AmplitudesAreARing` (in `EngineLemmas`). A number has coefficients over every power of sqrt(2)
     that is high enough (`Is`), and one record in lowest terms (`IsUnique`);
     multiplying by sqrt(2) is injective and division undoes it (`LowestIs`).
     So the laws of polynomials with w^4 = -1 hold as equations of records.
  2. A gate is a kernel: a pairing of the basis states, the role of a state in its
     pair, and a matrix of four entries. Kernels compose by the product of the
     matrices; kernels that do not disturb one another change places. The angles
     add (`Ei`, `Cos`, `Sin` as trigonometry in the ring).
  3. Each rule keeps the product of two neighbours: what `is_self_inverse_pair`
     accepts is inverse (`PairsCancel`), what `Mergeable` accepts adds its angles
     and is nothing at angle 0 (`PairsMerge`), what `try_commute` accepts changes
     places (`MovesCommute`), what `Kept` drops does nothing (`DroppedIsNothing`).
  4. `Run` of a circuit with two neighbours taken out, replaced or swapped is the
     same (`RunWithout`, `RunJoined`, `RunSwapped`, `RunRetained`).
  `MeaningInv` is then inductive over the steps.

* `SumIsHermitian`: `ExpectationSpec => []StaysHermitian`, under `PhysicalJobs`:
  the gates of a job are of the table, on wires of the register (as many wires and
  angles as the name takes; a wire may even repeat), the weights of its observable
  and the rates of its noise are real. All jobs of the runs are such; TLC evaluated
  `PhysicalJobs` on them. The code returns the real part of the value and drops
  the rest, and nothing in it looks at what it drops.
  1. The property is made inductive by saying more of a coefficient than that it
     is real once its Y are paid: its conjugate is itself or its negative, by the
     parity of Y in its string (`Kind`, `RightKind`; `Hermitian` are the sums of
     such terms). Parity is additive (`OddSymDiff`), and kinds multiply as parities
     add (`KindTimes`).
  2. The loops of the code, over the hash map and along a list, keep what every
     step keeps (the lemmas about folds; `OverSet` and `Along` in PauliSum). So the
     noise, which scales a term by a real number or moves it to a string with as many Y
     modulo two, keeps `Hermitian`.
  3. A Clifford map takes a string letter by letter to the product of its images.
     The product of two raw strings has the factor that their crossings give it,
     so that a product of strings which commute is proper again; the images of the
     letters of one wire, and of two wires, do as the letters do
     (`MapHermitian`).
  4. A branching adds a term over the generator only where the two anticommute,
     with a factor i: the product of two strings that anticommute is of the other
     kind, and the factor makes it right (`ExpandedHermitian`). Every gate of the
     table is a program of such pieces (`Pieces`), the folded pair of CX included.
  5. The passes before the engine hand over gates of the same table: retaining,
     cancelling, merging, commuting and deferring keep `Placed` (`PlacedInv`).
  `HermitianInv` joins these over the steps of all phases.

* `PriceBinds`: `ExpectationSpec => []PriceIsABound`, under `PhysicalJobs`,
  `PlainJobs` and `PricedJobs`. The last says that the cap which the price uses is
  one the engine enforces: `max_terms` is set, `max_freq` is not (with it the test
  is skipped after a term), and the observable has at most two terms over the cap;
  or else the cap is out of reach of the register, 4^N <= cap + 2. The third
  condition is one the code needs too: the observable is not tested against the
  cap before the first gate, so that with more terms than that the sum is over the
  ceiling from the start. Every job of the runs satisfies `PricedJobs`.
  The price is of the circuit as submitted; the engine runs what the optimizer and
  the deferral make of it. A light cone that is not larger is not an invariant of
  the optimizer's steps: where a rotation about Z is moved in front of a CX through
  its control, the price computed anew counts a branching that the first one did
  not. The argument therefore keeps, in place of the cone and the count, something
  finer than them and coarser than the sum:
  1. An account (`Accounts`) is the wires on which a string may have a letter, the
     wires among them where it may have an X part, and the branchings so far.
     `Pulled` is the account after a gate is undone: a gate about Z counts only on
     a wire with an X part, a CX carries an X part to its target, a CZ carries
     none. It is monotone (`PulledMonotone`), and it never exceeds what the price
     charges for the gate (`PriceCourse`).
  2. A certificate (`Certified`) is an account for every place between two gates,
     each above what undoing the next gate makes of the one behind it, and below
     the one that was priced. Taking two gates out, joining them, swapping two that
     `try_commute` accepts and leaving out what `Kept` drops takes a certificate
     to a certificate (`OptimizingCertified`). The swap is why an account knows of X
     parts: a rotation about Z moved through the control of a CX would meet a
     larger cone, and meets the same X parts.
  3. A sum fits an account (`Fits`) if its strings have their letters and X parts
     there and are at most as many as the terms of the observable, doubled once for
     every branching. The gates keep this piece by piece: a Clifford map is no more
     strings than before (`FitsMapped`), a branching at most doubles them and only
     where its generator meets the account (`FitsTurned`), an unmet one is skipped;
     the program of every gate of the table stays within `Pulled` (`GateAccounted`).
     The strings of an account number at most 4 to its wires (`FitsWidth`).
  4. `PriceInv` joins these over the phases: a certificate of the circuit while it is
     optimized, of the two halves of the deferral while they are walked, and, in
     the engine, an account of the sum with a certificate for the gates still to be
     undone; the sum under construction is within the closure of the branching that
     is under way.

Only model-checked, and why:

* `SameAmplitudes`, and `SameExpectations` of the sum of CH forms (of the tableau
  it is `TableauExpectations`): `BranchesStayStates` proves the laws of a CH form,
  but `amplitude` is a closed form over the products of its rows, and `overlap` a
  program of CH gates; that each of them computes a sum over 2^n basis states, and
  that every update rule changes the closed form as the gate changes the vector,
  is not proved.
* `ValueKept`, `DeferralKeepsMean`: propagation and deferral keep a mean, a sum over
  the terms of a Pauli sum against one over a density matrix with noise.
* `ImplementsAtomicLedger` is proved; every liveness property (`DeadAreReclaimed`,
  `EveryCallEnds`, `HogsAreKilled`, `WatchEnds`, `EveryRequestAnswered`,
  `PassesEnd`) is not, since fairness and ENABLED are out of the prover's reach.

## Not modelled, and why

* The share of the repository that is modelled is small because the repository
  is large: 1302 files, of which most are parsers, a language with its libraries
  of algorithms, device kernels, bindings and examples. They are sequential and
  compute over floats or trees; nothing in them interleaves, and no finite ring
  carries their arithmetic.
* Of the engines: rounding, sampling of shots, SIMD and word-packed kernels, the
  sparsified mode of stabrank, CU3 with a phase on the control in Pauli
  propagation, symbolic parameters, gradients, and angles that are not multiples
  of pi/4. MPS, photonics, CV, qudits, sectors, Majorana propagation, tensors and
  the GPU engines are not modelled.
* The gate in a process that has two gates with different modes, and the `Off`
  mode (it keeps no state).
* `/proc` mounted so that other users' processes are hidden: their records are
  pruned as dead. This is a property of the machine, not of a step.
* The wrapper killed between spawn and transfer: the child is uncharged, as it
  must be in a protocol without a daemon.
* Of the server: whether a token is good (signature, expiry, revocation; a
  nondeterministic choice), rights, PKI, sessions and the WebSocket, whose state
  is one connection's and whose hard part is cryptography; the rows of lambdas
  and of tokens; the content of results.
* Rows that a crash or a panic left pending are never swept; the model has them,
  and `InvocationsSettle` excepts them.
* In the watch: the cgroup counter, the reuse of a pid within one pass, the
  descendants that outlive a root which exits by itself, and a descendant that
  called `setsid` when the census fails (documented in `watch.rs:96-98`).

## Plan

Done, in the order of importance: Totals, HostGate, LedgerStore against
AtomicLedger, Watch, Governor, each with the theorems about its safety;
Backends with the three engines of states; Expectation with the passes and Pauli
propagation; RateLimit and Requests with their theorems.

Next:

1. **Pricing**: `estimate_peak_bytes`, `fock_dim`, `default_qubit_ceiling` at
   their width, the shapes that each route builds, and what each route runs. A
   price covers the job that runs under it (`quantum_bridge.rs:1912` says so of
   the gradient template route and admits another shape); no overflow prices
   low; the gate's `dense_bytes` and the governor's price of one circuit
   (`admission.rs` says that they agree).
2. **Proofs about the meaning of the data**: `SameAmplitudes` from the products of
   the rows of a CH form, as `ProductLaws` does for the tableau; `ValueKept`
   without noise, from the kernels of `EngineLemmas`.
3. **One gate shared by threads**: `LedgerStore` composed with `HostGate`, with
   the lemmas on ledger values lifted to it.
