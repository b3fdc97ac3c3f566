----------------------------- MODULE HostGate -----------------------------
(***************************************************************************)
(* The host gate: one budget for a whole machine, kept in one ledger file  *)
(* that every participating process reads and rewrites under a file lock   *)
(* (crates/omega-hostgate).  There is no daemon.  A process that dies runs *)
(* no handler; whoever takes the lock next prunes its record.              *)
(*                                                                         *)
(* Grain.  A transaction (Store::with_lock) is one atomic step: the lock   *)
(* excludes other writers, the rename publishes all of the new ledger or   *)
(* none of it, and every error leaves the file as it was.  The module      *)
(* LedgerStore opens that step up.  A crash between the rename and the     *)
(* return to the caller is the transaction followed by Die.                *)
(*                                                                         *)
(* Left out because they leave every variable alone: a gate that is off,   *)
(* a request refused because the ledger could not be read or the process   *)
(* could not read its own start time, and the inert grant that an advisory *)
(* gate hands out in those cases.                                          *)
(*                                                                         *)
(* Definitions named Slip... are wrong on purpose: each is a way to get    *)
(* the definition after it wrong that the properties have to notice.       *)
(***************************************************************************)
EXTENDS Totals

CONSTANTS
  Pid,         \* the numbers of the process table
  Wrapper,     \* those whose program is `omega-hostgate run`
  Axis,        \* the budgeted resources
  Request,     \* what a client may ask for, an amount per axis
  Cap,         \* the budgets a process may be configured with
  Mode,        \* the modes a process may be configured with
  GrantId,     \* bound: as many grants are held at once
  Unreadable,  \* the pids whose probe may come back Unknown
  Faults,      \* whether a transaction may fail with an I/O error
  Top,         \* u64::MAX, where amounts saturate
  MaxStart,    \* bound: how often a pid is used in one boot
  MaxBoot      \* bound: how often the machine comes up

Amounts == [Axis -> 0 .. Top]

ASSUME HostGateAssumption ==
  /\ Top \in Nat /\ MaxStart \in Nat /\ MaxBoot \in Nat \ {0}
  /\ IsFiniteSet(Pid)
  /\ Wrapper \subseteq Pid
  /\ Unreadable \subseteq Pid
  /\ Request \subseteq Amounts
  /\ Cap \subseteq Amounts
  /\ Mode \subseteq {"advisory", "enforce"} /\ Mode # {} /\ Cap # {}
  /\ Faults \in BOOLEAN

VARIABLES
  boot,    \* the boot id of the machine
  file,    \* the ledger file
  proc,    \* the process table, with each process's configuration
  grants,  \* the Grant values that live processes have in memory
  run,     \* where each `omega-hostgate run` has got to
  owed     \* what a completed transfer says a running process is charged

vars == <<boot, file, proc, grants, run, owed>>

(***************************************************************************)
(* A holder is a pid with the start time of one incarnation of it; start 0 *)
(* is "not recorded", and no process has it.                               *)
(***************************************************************************)
HolderId == Pid \X (0 .. MaxStart)

Zero == [a \in Axis |-> 0]

(***************************************************************************)
(* The ledger: the boot it belongs to, the caps in force and the holders'  *)
(* records.  A holder without a record has amount zero.  The file that     *)
(* does not exist yet is the ledger of boot 0.                             *)
(***************************************************************************)
Ledger == [instance : 0 .. MaxBoot, caps : Amounts,
           held : SUBSET HolderId, amounts : [HolderId -> Amounts],
           advisory : SUBSET HolderId]

Fresh(b, caps) ==
  [instance |-> b, caps |-> caps, held |-> {},
   amounts |-> [h \in HolderId |-> Zero], advisory |-> {}]

NoFile == Fresh(0, Zero)

Phase == {"idle", "granted", "spawned", "probed", "failed", "waiting", "reaped", "done"}

\* A process that is not running has no configuration: any one stands for none.
Down(start) == [up |-> FALSE, start |-> start,
                mode |-> CHOOSE m \in Mode : TRUE, cap |-> CHOOSE c \in Cap : TRUE]

Idle(w) == [phase |-> "idle", kid |-> <<w, 0>>, to |-> {}]

TypeOK ==
  /\ boot \in 1 .. MaxBoot
  /\ file \in Ledger
  /\ proc \in [Pid -> [up : BOOLEAN, start : 0 .. MaxStart, mode : Mode, cap : Cap]]
  /\ grants \subseteq [id : GrantId, pid : Pid, amounts : Amounts,
                       state : {"armed", "lost"}]
  /\ run \in [Wrapper -> [phase : Phase, kid : HolderId, to : SUBSET HolderId]]
  /\ owed \in [Pid -> Amounts]
-----------------------------------------------------------------------------
(* Identity and liveness. *)

Up(p) == proc[p].up
Me(p) == <<p, proc[p].start>>

\* The incarnation h is running.
Alive(h) == Up(h[1]) /\ Me(h[1]) = h

\* Slip: a pid that is in use is its holder.
SlipMatchesPid(h, blind) == h[1] \in blind \/ Up(h[1])

\* HolderId::matches, asked of what the probe answers when it cannot read the
\* pids of blind: Unknown is alive, a different start time is another process.
Matches(h, blind) == h[1] \in blind \/ Alive(h)
-----------------------------------------------------------------------------
(* The operations on a ledger value that a transaction is made of. *)

Min2(x, y) == IF x <= y THEN x ELSE y
SatAdd(x, y) == Min2(x + y, Top)
SatSub(x, y) == IF x <= y THEN 0 ELSE x - y

\* Slip: a ledger of another boot is taken over.
SlipOpened(p) == IF file.instance # 0 THEN [file EXCEPT !.instance = boot]
                 ELSE Fresh(boot, proc[p].cap)

\* What a transaction of this boot starts from.
Opened(p) == IF file.instance = boot THEN file ELSE Fresh(boot, proc[p].cap)

\* The ledger without the records of H.
Without(l, H) ==
  [l EXCEPT !.held = @ \ H,
            !.advisory = @ \ H,
            !.amounts = [h \in HolderId |-> IF h \in H THEN Zero ELSE @[h]]]

Pruned(l, blind) == Without(l, {h \in l.held : ~Matches(h, blind)})

\* Slips: caps adopted under held grants; a change of caps starts afresh.
SlipReconciledHeld(l, caps) == [l EXCEPT !.caps = caps]
SlipReconciledFresh(l, caps) == IF l.caps = caps THEN l ELSE Fresh(boot, caps)

\* The configured caps are adopted exactly when nothing is held.
Reconciled(l, caps) == IF l.held = {} THEN [l EXCEPT !.caps = caps] ELSE l

\* Slip: the flag is lost.
SlipChargeHolder(l, h, amounts, advisory) ==
  [l EXCEPT !.held = @ \cup {h},
            !.amounts[h] = [a \in Axis |-> SatAdd(@[a], amounts[a])]]

\* A holder that has a record keeps that record's flag.
ChargeHolder(l, h, amounts, advisory) ==
  [l EXCEPT !.held = @ \cup {h},
            !.advisory = IF advisory /\ h \notin l.held THEN @ \cup {h} ELSE @,
            !.amounts[h] = [a \in Axis |-> SatAdd(@[a], amounts[a])]]

\* Slips: the record goes whatever is left on it; the subtraction is swapped.
SlipDischargeAll(l, h, amounts) == Without(l, {h})
SlipDischargeSwapped(l, h, amounts) ==
  [l EXCEPT !.amounts[h] = [a \in Axis |-> amounts[a] - @[a]]]

Discharge(l, h, amounts) ==
  LET rest == [a \in Axis |-> SatSub(l.amounts[h][a], amounts[a])]
  IN  IF h \notin l.held THEN l
      ELSE IF rest = Zero THEN Without(l, {h})
      ELSE [l EXCEPT !.amounts[h] = rest]

OnAxis(l, a) == [h \in HolderId |-> l.amounts[h][a]]
Enforcing(l) == l.held \ l.advisory

\* charged_enforcing: what the budget counts on one axis.
Charged(l, a) == Total(OnAxis(l, a), Enforcing(l))

\* price: every cap is checked before any headroom is.
Price(l, req) ==
  IF \E a \in Axis : req[a] > l.caps[a] THEN "TooLarge"
  ELSE IF \E a \in Axis : req[a] > SatSub(l.caps[a], Charged(l, a)) THEN "Busy"
  ELSE "admit"
-----------------------------------------------------------------------------
(* The operations of the gate.  blind is what this transaction's probe
   cannot read. *)

FreshGrant(p, id, amounts) ==
  [id |-> id, pid |-> p, amounts |-> amounts, state |-> "armed"]

Advisory(p) == proc[p].mode = "advisory"

\* HostGate::try_acquire.  A refusal keeps the prune.
Acquire(p, id, req, blind) ==
  LET l == Reconciled(Pruned(Opened(p), blind), proc[p].cap)
      admitted == Advisory(p) \/ Price(l, req) = "admit"
  IN  /\ Up(p)
      /\ p \notin blind
      /\ \A g \in grants : g.id # id
      /\ p \in Wrapper => run[p].phase = "idle"
      /\ file' = IF admitted THEN ChargeHolder(l, Me(p), req, Advisory(p)) ELSE l
      /\ grants' = IF admitted THEN grants \cup {FreshGrant(p, id, req)} ELSE grants
      /\ run' = IF p \in Wrapper
                THEN [run EXCEPT ![p].phase = IF admitted THEN "granted" ELSE "done"]
                ELSE run
      /\ UNCHANGED <<boot, proc, owed>>

\* When Grant::release or Drop runs: whenever a client likes; in `run`, when
\* the spawn failed, or as transfer_to returns its error and drops its self.
MayRelease(p) == p \in Wrapper => run[p].phase \in {"granted", "failed"}

AfterRelease(p) ==
  IF p \in Wrapper
  THEN [run EXCEPT ![p].phase = IF @ = "granted" THEN "done" ELSE "waiting"]
  ELSE run

\* Grant::release_inner, committed.
Release(p, g, blind) ==
  /\ Up(p) /\ g.pid = p /\ g.state = "armed" /\ MayRelease(p)
  /\ file' = Pruned(Discharge(Opened(p), Me(p), g.amounts), blind)
  /\ grants' = grants \ {g}
  /\ run' = AfterRelease(p)
  /\ UNCHANGED <<boot, proc, owed>>

\* Grant::release_inner, failed: the guard was disarmed first, so nothing will
\* return these tokens but the death of the process.
ReleaseFails(p, g) ==
  /\ Faults
  /\ Up(p) /\ g.pid = p /\ g.state = "armed" /\ MayRelease(p)
  /\ grants' = (grants \ {g}) \cup {[g EXCEPT !.state = "lost"]}
  /\ run' = AfterRelease(p)
  /\ UNCHANGED <<boot, file, proc, owed>>

\* HostGate::capacity, called by `status`, by admit_circuit and by
\* release_grant once the watched child is dead.  It writes only a change.
Capacity(p, blind) ==
  LET o == Opened(p)
      l == Reconciled(Pruned(o, blind), proc[p].cap)
      stale == file.instance \notin {0, boot}
  IN  /\ Up(p)
      /\ p \in Wrapper => run[p].phase = "reaped"
      /\ file' = IF l # o \/ stale THEN l ELSE file
      /\ UNCHANGED <<boot, proc, grants, run, owed>>
-----------------------------------------------------------------------------
(* The command line wrapper: acquire, spawn, hand the grant to the child,
   wait.  Its one grant is the one it acquired. *)

\* Command::spawn.  The child inherits the configuration.
Spawn(w, c) ==
  /\ Up(w) /\ run[w].phase = "granted"
  /\ c \notin Wrapper /\ ~Up(c) /\ proc[c].start < MaxStart
  /\ \A v \in Wrapper : Up(v) /\ run[v].kid[1] = c => run[v].phase = "reaped"
  /\ proc' = [proc EXCEPT ![c] = [up |-> TRUE, start |-> @.start + 1,
                                  mode |-> proc[w].mode, cap |-> proc[w].cap]]
  /\ run' = [run EXCEPT ![w].phase = "spawned",
                        ![w].kid = <<c, proc[c].start + 1>>]
  /\ UNCHANGED <<boot, file, grants, owed>>

\* Slip: the child is recorded by its pid alone.
SlipProbeChild(w, blind) ==
  /\ Up(w) /\ run[w].phase = "spawned"
  /\ run' = [run EXCEPT ![w].phase = "probed", ![w].to = {<<run[w].kid[1], 0>>}]
  /\ UNCHANGED <<boot, file, proc, grants, owed>>

\* transfer_to asks for the child's identity before it takes the lock.
ProbeChild(w, blind) ==
  LET kid == run[w].kid
  IN  /\ Up(w) /\ run[w].phase = "spawned"
      /\ run' = [run EXCEPT ![w].phase = "probed",
                            ![w].to = IF kid[1] \in blind THEN {<<kid[1], 0>>}
                                      ELSE {h \in {kid} : Alive(h)}]
      /\ UNCHANGED <<boot, file, proc, grants, owed>>

\* transfer_to, committed: the charge moves, or is released if the child is
\* gone.
Transfer(w, g, blind) ==
  LET kid == run[w].kid
      paid == Discharge(Opened(w), Me(w), g.amounts)
  IN  /\ Up(w) /\ run[w].phase = "probed" /\ g.pid = w /\ g.state = "armed"
      /\ \/ /\ run[w].to = {}
            /\ file' = Pruned(paid, blind)
         \/ \E h \in run[w].to :
              file' = Pruned(ChargeHolder(paid, h, g.amounts, FALSE), blind)
      /\ grants' = grants \ {g}
      /\ run' = [run EXCEPT ![w].phase = "waiting"]
      /\ owed' = IF Alive(kid) /\ run[w].to # {}
                 THEN [owed EXCEPT ![kid[1]] = g.amounts] ELSE owed
      /\ UNCHANGED <<boot, proc>>

\* transfer_to, failed: the guard is still armed and is dropped on return.
TransferFails(w) ==
  /\ Faults
  /\ Up(w) /\ run[w].phase = "probed"
  /\ run' = [run EXCEPT ![w].phase = "failed"]
  /\ UNCHANGED <<boot, file, proc, grants, owed>>

\* Child::wait.  Until then the child's pid is not used again.
Reap(w) ==
  /\ Up(w) /\ run[w].phase = "waiting" /\ ~Alive(run[w].kid)
  /\ run' = [run EXCEPT ![w].phase = "reaped"]
  /\ UNCHANGED <<boot, file, proc, grants, owed>>
-----------------------------------------------------------------------------
(* The machine: processes come and go, and the machine restarts. *)

Forget(p) == IF p \in Wrapper THEN [run EXCEPT ![p] = Idle(p)] ELSE run

Start(p, mode, cap) ==
  /\ ~Up(p) /\ proc[p].start < MaxStart
  /\ \A v \in Wrapper : Up(v) /\ run[v].kid[1] = p => run[v].phase = "reaped"
  /\ proc' = [proc EXCEPT ![p] = [up |-> TRUE, start |-> @.start + 1,
                                  mode |-> mode, cap |-> cap]]
  /\ UNCHANGED <<boot, file, grants, run, owed>>

\* A process ends with its grants unreleased: killed, aborted, out of memory.
Die(p) ==
  /\ Up(p)
  /\ proc' = [proc EXCEPT ![p] = Down(@.start)]
  /\ grants' = {g \in grants : g.pid # p}
  /\ run' = Forget(p)
  /\ owed' = [owed EXCEPT ![p] = Zero]
  /\ UNCHANGED <<boot, file>>

\* Start times count from the boot, so they recur; the file survives.
Reboot ==
  /\ boot < MaxBoot
  /\ boot' = boot + 1
  /\ proc' = [p \in Pid |-> Down(0)]
  /\ grants' = {}
  /\ run' = [w \in Wrapper |-> Idle(w)]
  /\ owed' = [p \in Pid |-> Zero]
  /\ UNCHANGED file

Init ==
  /\ boot = 1
  /\ file = NoFile
  /\ proc = [p \in Pid |-> Down(0)]
  /\ grants = {}
  /\ run = [w \in Wrapper |-> Idle(w)]
  /\ owed = [p \in Pid |-> Zero]

Transaction(p, blind) ==
  \/ \E id \in GrantId, req \in Request : Acquire(p, id, req, blind)
  \/ \E g \in grants : Release(p, g, blind)
  \/ Capacity(p, blind)
  \/ p \in Wrapper /\ \E g \in grants : Transfer(p, g, blind)

RunStep(w) ==
  \/ \E c \in Pid : Spawn(w, c)
  \/ \E blind \in SUBSET Unreadable : ProbeChild(w, blind)
  \/ TransferFails(w)
  \/ Reap(w)

Machine ==
  \/ \E p \in Pid, mode \in Mode, cap \in Cap : Start(p, mode, cap)
  \/ \E p \in Pid : Die(p)
  \/ Reboot

Next ==
  \/ \E p \in Pid, blind \in SUBSET Unreadable : Transaction(p, blind)
  \/ \E p \in Pid, g \in grants : ReleaseFails(p, g)
  \/ \E w \in Wrapper : RunStep(w)
  \/ Machine

Spec == Init /\ [][Next]_vars

\* A process that keeps asking the gate does take the lock and does read the
\* process table eventually; nothing else is assumed to happen.
Fairness == SF_vars(\E p \in Pid : Capacity(p, {}))

FairSpec == Spec /\ Fairness
-----------------------------------------------------------------------------
(* What the gate promises. *)

\* The budget is never overspent: on every axis, what the holders that count
\* (the enforcing ones) are charged stays within the cap in force.  Caps move,
\* holders die and are pruned, charges are handed on, and none of it may let
\* price admit a request that does not fit beside what is running.
BudgetRespected == \A a \in Axis : Charged(file, a) <= file.caps[a]

\* What the grants of p, armed or lost, add up to on one axis.
GrantsOf(p, a) ==
  Total([g \in grants |-> g.amounts[a]], {g \in grants : g.pid = p})

\* Exact accounting: while a process runs, its record is charged what its own
\* grants took plus what a wrapper handed it, and nothing else.  Less would be
\* a live holder evicted or discharged twice, more a leak, and both take
\* several processes: a prune by a neighbour, a pid or a start time that comes
\* round again, a ledger of an earlier boot.
ExactAccounting ==
  \A p \in Pid, a \in Axis :
    Up(p) => (IF file.instance = boot THEN file.amounts[Me(p)][a] ELSE 0)
               = GrantsOf(p, a) + owed[p][a]

\* "Kill the wrapper and the child keeps its charge": once transfer_to has
\* returned Ok, the child is charged what it was handed for as long as it
\* runs, whoever prunes.
ChildKeepsCharge ==
  \A p \in Pid, a \in Axis :
    Up(p) => owed[p][a] <= file.amounts[Me(p)][a]

\* A transfer that failed leaves the wrapper waiting beside a running child
\* that is still accounted for: on the wrapper's record or on its own.
WaitedForIsCharged ==
  \A w \in Wrapper :
    (Up(w) /\ run[w].phase = "waiting" /\ Alive(run[w].kid)) =>
      \E h \in {Me(w), run[w].kid} : h \in file.held

\* An advisory process spends nothing of the budget it does not honour: its
\* record, whoever wrote it, is one that charged_enforcing leaves out.
AdvisoryNeverSpends ==
  \A p \in Pid :
    (Up(p) /\ Advisory(p) /\ file.instance = boot /\ Me(p) \in file.held)
      => Me(p) \in file.advisory

\* No record outlives its boot: a ledger that is in force holds only
\* incarnations that this boot has had, though start times come round again.
NoRecordFromAnotherBoot ==
  file.instance = boot => \A h \in file.held : h[2] <= proc[h[1]].start

\* A transaction of one process never lowers what another live process is
\* charged, except for the wrapper that hands its own grant over.
NoForeignDischarge ==
  [][\A p \in Pid :
       (Up(p) /\ Up(p)' /\ boot' = boot /\ file.instance = boot
          /\ {g \in grants' : g.pid = p} = {g \in grants : g.pid = p})
         => \A a \in Axis : file'.amounts[Me(p)][a] >= file.amounts[Me(p)][a]]_vars

\* The failsafe: while a client goes on asking the gate, the record of a
\* process that died is reclaimed, though nothing noticed the death.
Stale(h) == h \in file.held /\ file.instance = boot /\ ~Alive(h)

DeadAreReclaimed ==
  \A h \in HolderId, b \in 1 .. MaxBoot :
    (boot = b /\ Stale(h))
      ~> (boot # b \/ ~Stale(h) \/ \A p \in Pid \ Wrapper : ~Up(p))
=============================================================================
