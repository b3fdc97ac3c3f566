---------------------------- MODULE LedgerStore ----------------------------
(***************************************************************************)
(* Store::with_lock, step by step: a lock file that is never renamed, a    *)
(* ledger file that is replaced by renaming a temporary file over it, and  *)
(* the crashes in between (crates/omega-hostgate, ledger.rs).              *)
(*                                                                         *)
(* The file system keeps two views of the ledger's name: what processes    *)
(* see, and what a power loss would leave.  A rename is seen at once and   *)
(* may or may not be on disk until the directory is synced; data that was  *)
(* not synced may be missing from a file that was renamed.                 *)
(*                                                                         *)
(* A ledger is its boot and the set of updates it carries.  The closure    *)
(* that a caller passes adds its own update (and is dirty) or only looks.  *)
(* Definitions named Slip... are wrong on purpose: each is a way to get    *)
(* the definition after it wrong that the properties have to notice.       *)
(***************************************************************************)
EXTENDS Naturals

CONSTANTS
  Process,
  Thread,       \* the callers; a process may have several
  Home,         \* the process of a thread
  NoThread,
  Faults,       \* whether system calls may fail
  MaxCalls,     \* bound: the calls of one thread
  MaxBoot       \* bound: how often the machine comes up

ASSUME LedgerStoreAssumption ==
  /\ Home \in [Thread -> Process] /\ NoThread \notin Thread
  /\ Faults \in BOOLEAN /\ MaxCalls \in Nat /\ MaxBoot \in Nat \ {0}

VARIABLES
  boot,      \* the boot id
  file,      \* what the ledger's name refers to
  survives,  \* the contents that a power loss may leave under that name
  tmp,       \* each process's temporary file, named after its pid
  lock,      \* the thread that holds the lock on the lock file
  pc,        \* the next system call of each thread, "idle" or "answer"
  kind,      \* "update" or "inspect"
  draft,     \* the ledger that a call is about to write
  seen,      \* the ledger that its closure was given
  outcome,   \* what it will answer
  calls      \* how many calls each thread has made

vars == <<boot, file, survives, tmp, lock, pc, kind, draft, seen, outcome, calls>>

Update == Thread \X (1 .. MaxCalls)
\* What a name can refer to: a ledger with the updates it holds, or nothing, a
\* file that is empty or cut short, or a ledger of another schema.
Fresh == [form |-> "ledger", instance |-> boot, log |-> {}]
NotALedger(form) == [form |-> form, instance |-> 0, log |-> {}]
None == NotALedger("none")
Torn == NotALedger("torn")
NoTmp == [data |-> None, synced |-> TRUE]

\* What a power loss may leave of a file's data.
AfterLoss(inode) == IF inode.synced THEN {inode.data} ELSE {inode.data, Torn}

Goes(t, from, to) == pc[t] = from /\ pc' = [pc EXCEPT ![t] = to]
-----------------------------------------------------------------------------
(* The steps of a call. *)

Invoke(t, k) ==
  /\ calls[t] < MaxCalls
  /\ Goes(t, "idle", "lock")
  /\ kind' = [kind EXCEPT ![t] = k]
  /\ calls' = [calls EXCEPT ![t] = @ + 1]
  /\ UNCHANGED <<boot, file, survives, tmp, lock, draft, seen, outcome>>

\* lock.lock() returns.
SlipLock(t) ==
  /\ Goes(t, "lock", "read") /\ lock' = t
  /\ UNCHANGED <<boot, file, survives, tmp, kind, draft, seen, outcome, calls>>

Lock(t) ==
  /\ lock = NoThread
  /\ Goes(t, "lock", "read") /\ lock' = t
  /\ UNCHANGED <<boot, file, survives, tmp, kind, draft, seen, outcome, calls>>

\* read, and the closure.  A file that is not there is a new ledger, one of
\* another boot is replaced by a new one; anything unreadable is an error.
Read(t) ==
  LET data == file.data
      ours == data.form = "ledger" /\ data.instance = boot
      stale == data.form = "ledger" /\ data.instance # boot
      l == IF ours THEN data ELSE Fresh
      mine == IF kind[t] = "update" THEN {<<t, calls[t]>>} ELSE {}
  IN  /\ pc[t] = "read"
      /\ \/ /\ data.form \in {"torn", "foreign"}
            /\ pc' = [pc EXCEPT ![t] = "answer"]
            /\ outcome' = [outcome EXCEPT ![t] = "err"]
            /\ UNCHANGED <<draft, seen>>
         \/ /\ data.form \notin {"torn", "foreign"}
            /\ pc' = [pc EXCEPT ![t] = IF kind[t] = "update" \/ stale THEN "create"
                                       ELSE "answer"]
            /\ seen' = [seen EXCEPT ![t] = l.log]
            /\ draft' = [draft EXCEPT ![t] = [l EXCEPT !.log = @ \cup mine]]
            /\ outcome' = [outcome EXCEPT ![t] = "ok"]
      /\ UNCHANGED <<boot, file, survives, tmp, lock, kind, calls>>

\* File::create of the process's temporary file: new, or truncated.
Create(t) ==
  /\ Goes(t, "create", "write")
  /\ tmp' = [tmp EXCEPT ![Home[t]] = [data |-> Torn, synced |-> FALSE]]
  /\ UNCHANGED <<boot, file, survives, lock, kind, draft, seen, outcome, calls>>

SlipWrite(t) ==
  /\ Goes(t, "write", "rename")
  /\ tmp' = [tmp EXCEPT ![Home[t]].data = draft[t]]
  /\ UNCHANGED <<boot, file, survives, lock, kind, draft, seen, outcome, calls>>

Write(t) ==
  /\ Goes(t, "write", "sync")
  /\ tmp' = [tmp EXCEPT ![Home[t]].data = draft[t]]
  /\ UNCHANGED <<boot, file, survives, lock, kind, draft, seen, outcome, calls>>

Sync(t) ==
  /\ Goes(t, "sync", "rename")
  /\ tmp' = [tmp EXCEPT ![Home[t]].synced = TRUE]
  /\ UNCHANGED <<boot, file, survives, lock, kind, draft, seen, outcome, calls>>

Rename(t) ==
  LET new == tmp[Home[t]]
  IN  /\ Goes(t, "rename", "syncdir")
      /\ file' = new
      /\ survives' = survives \cup AfterLoss(new)
      /\ tmp' = [tmp EXCEPT ![Home[t]] = NoTmp]
      /\ UNCHANGED <<boot, lock, kind, draft, seen, outcome, calls>>

\* Syncing the directory is best effort: an error is ignored.
SyncDir(t) ==
  /\ Goes(t, "syncdir", "answer")
  /\ survives' \in {AfterLoss(file)} \cup (IF Faults THEN {survives} ELSE {})
  /\ UNCHANGED <<boot, file, tmp, lock, kind, draft, seen, outcome, calls>>

\* Any other system call that fails ends the call with an error.  What the
\* temporary file holds stays there.
Fail(t) ==
  /\ Faults
  /\ pc[t] \in {"lock", "read", "create", "write", "sync", "rename"}
  /\ pc' = [pc EXCEPT ![t] = "answer"]
  /\ outcome' = [outcome EXCEPT ![t] = "err"]
  /\ UNCHANGED <<boot, file, survives, tmp, lock, kind, draft, seen, calls>>

Cleared(f, T, v) == [t \in Thread |-> IF t \in T THEN v ELSE f[t]]

\* The threads of T are back where they were before the call.
Leave(T) ==
  /\ pc' = Cleared(pc, T, "idle") /\ kind' = Cleared(kind, T, "inspect")
  /\ draft' = Cleared(draft, T, None) /\ seen' = Cleared(seen, T, {})
  /\ outcome' = Cleared(outcome, T, "err")

\* The lock is released whatever the outcome, and the call returns.
SlipAnswer(t) ==
  /\ pc[t] = "answer"
  /\ lock' = IF lock = t /\ outcome[t] = "ok" THEN NoThread ELSE lock
  /\ Leave({t})
  /\ UNCHANGED <<boot, file, survives, tmp, calls>>

Answer(t) ==
  /\ pc[t] = "answer"
  /\ lock' = IF lock = t THEN NoThread ELSE lock
  /\ Leave({t})
  /\ UNCHANGED <<boot, file, survives, tmp, calls>>
-----------------------------------------------------------------------------
(* Crashes. *)

\* A process is killed: its descriptors close, which releases its lock.  Its
\* temporary file stays.
Kill(p) ==
  LET dead == {t \in Thread : Home[t] = p}
  IN  /\ \E t \in dead : pc[t] # "idle"
      /\ lock' = IF lock \in dead THEN NoThread ELSE lock
      /\ Leave(dead)
      /\ UNCHANGED <<boot, file, survives, tmp, calls>>

\* The machine loses power and comes up with one of the contents it may have
\* had on disk.
PowerLoss ==
  /\ boot < MaxBoot /\ boot' = boot + 1
  /\ \E data \in survives :
       file' = [data |-> data, synced |-> TRUE] /\ survives' = {data}
  /\ tmp' = [p \in Process |-> NoTmp]
  /\ lock' = NoThread
  /\ Leave(Thread)
  /\ UNCHANGED calls

Init ==
  /\ boot = 1
  /\ \E data \in {None, NotALedger("foreign")} :
       file = [data |-> data, synced |-> TRUE] /\ survives = {data}
  /\ tmp = [p \in Process |-> NoTmp]
  /\ lock = NoThread
  /\ pc = [t \in Thread |-> "idle"] /\ kind = [t \in Thread |-> "inspect"]
  /\ draft = [t \in Thread |-> None] /\ seen = [t \in Thread |-> {}]
  /\ outcome = [t \in Thread |-> "err"]
  /\ calls = [t \in Thread |-> 0]

Proceed(t) ==
  Read(t) \/ Create(t) \/ Write(t) \/ Sync(t) \/ Rename(t) \/ SyncDir(t) \/ Answer(t)

Next ==
  \/ \E t \in Thread, k \in {"update", "inspect"} : Invoke(t, k)
  \/ \E t \in Thread : Lock(t) \/ Proceed(t) \/ Fail(t)
  \/ \E p \in Process : Kill(p)
  \/ PowerLoss

Spec == Init /\ [][Next]_vars

\* Threads are scheduled, and the kernel passes over no waiter for ever.
Fairness == \A t \in Thread : WF_vars(Proceed(t)) /\ SF_vars(Lock(t))

FairSpec == Spec /\ Fairness
-----------------------------------------------------------------------------
(* What the store promises. *)

\* "Never a silently empty budget": at no instant could a crash, of a process
\* or of the machine, leave a ledger that is empty or cut short.  Such a file
\* is refused from then on by everybody.
NeverTorn == file.data # Torn /\ Torn \notin survives

\* A call is atomic: it took effect at one instant, or not at all.  It
\* commits when its rename is seen; one that only looked, when it read.
AbstractStatus(t) ==
  CASE pc[t] = "idle" -> "idle"
    [] pc[t] = "syncdir" -> "committed"
    [] pc[t] = "answer" -> IF outcome[t] = "ok" THEN "committed" ELSE "refused"
    [] OTHER -> kind[t]

AbstractLedger == IF file.data.instance = boot THEN file.data.log ELSE {}

Atomic ==
  INSTANCE AtomicLedger
  WITH foreign <- file.data.form = "foreign",
       ledger <- AbstractLedger,
       status <- [t \in Thread |-> AbstractStatus(t)],
       seen <- [t \in Thread |-> IF AbstractStatus(t) = "committed" THEN seen[t] ELSE {}]

\* The store implements the atomic ledger that the host gate relies on.
ImplementsAtomicLedger == Atomic!Spec

\* Nobody waits for ever: a call returns, or dies with its process, though
\* holders of the lock fail and are killed at every step.
EveryCallEnds == \A t \in Thread : pc[t] # "idle" ~> pc[t] = "idle"
=============================================================================
