--------------------------- MODULE AtomicLedger ---------------------------
(***************************************************************************)
(* What Store::with_lock promises its callers (crates/omega-hostgate,      *)
(* ledger.rs): a ledger that every call sees and changes in one            *)
(* indivisible step, or not at all.  HostGate takes this for granted;      *)
(* LedgerStore, which opens files, takes locks and renames, implements it. *)
(*                                                                         *)
(* The ledger of the current boot is the set of the updates that have been *)
(* committed to it.  A ledger in a format of another schema is foreign:    *)
(* every call is refused and it is never changed.                          *)
(***************************************************************************)
EXTENDS Naturals

CONSTANTS Thread, MaxCalls

VARIABLES
  foreign, \* whether the ledger is of another schema
  ledger,  \* the committed updates
  status,  \* where each thread's call has got to
  seen,    \* the ledger that a committed call was given
  calls    \* how many calls each thread has made: names its updates

Status == {"idle", "update", "inspect", "committed", "refused"}

Update(t) == <<t, calls[t]>>

Init ==
  /\ foreign \in BOOLEAN /\ ledger = {}
  /\ status = [t \in Thread |-> "idle"]
  /\ seen = [t \in Thread |-> {}]
  /\ calls = [t \in Thread |-> 0]

Invoke(t) ==
  /\ status[t] = "idle" /\ calls[t] < MaxCalls
  /\ \E kind \in {"update", "inspect"} : status' = [status EXCEPT ![t] = kind]
  /\ calls' = [calls EXCEPT ![t] = @ + 1]
  /\ UNCHANGED <<ledger, seen>>

\* The one instant at which a call reads and changes the ledger.
Commit(t) ==
  /\ status[t] \in {"update", "inspect"} /\ ~foreign
  /\ seen' = [seen EXCEPT ![t] = ledger]
  /\ ledger' = IF status[t] = "update" THEN ledger \cup {Update(t)} ELSE ledger
  /\ status' = [status EXCEPT ![t] = "committed"]
  /\ UNCHANGED calls

\* An error: nothing was read for certain and nothing was changed.
Refuse(t) ==
  /\ status[t] \in {"update", "inspect"}
  /\ status' = [status EXCEPT ![t] = "refused"]
  /\ UNCHANGED <<ledger, seen, calls>>

Return(t) ==
  /\ status[t] \in {"committed", "refused"}
  /\ status' = [status EXCEPT ![t] = "idle"]
  /\ seen' = [seen EXCEPT ![t] = {}]
  /\ UNCHANGED <<ledger, calls>>

\* The threads of T die: their calls took effect or did not.
Crash(T) ==
  /\ status' = [t \in Thread |-> IF t \in T THEN "idle" ELSE status[t]]
  /\ seen' = [t \in Thread |-> IF t \in T THEN {} ELSE seen[t]]
  /\ UNCHANGED <<ledger, calls>>

\* A machine that comes up again has an empty ledger: whoever held something
\* is gone.
Restart ==
  /\ ledger' = {}
  /\ status' = [t \in Thread |-> "idle"]
  /\ seen' = [t \in Thread |-> {}]
  /\ UNCHANGED calls

Next ==
  \/ \E t \in Thread : Invoke(t) \/ Commit(t) \/ Refuse(t) \/ Return(t)
  \/ \E T \in SUBSET Thread : Crash(T)
  \/ Restart

Spec == Init /\ [][Next /\ UNCHANGED foreign]_<<foreign, ledger, status, seen, calls>>
===========================================================================
