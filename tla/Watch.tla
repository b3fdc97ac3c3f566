------------------------------- MODULE Watch -------------------------------
(***************************************************************************)
(* `omega-hostgate run --watch`: a supervisor that samples the resident    *)
(* memory of a child's process tree and kills the tree when it exceeds     *)
(* what was declared (crates/omega-hostgate, watch.rs).                    *)
(*                                                                         *)
(* The supervisor and the tree run side by side: processes fork, leave the *)
(* process group, grow, shrink and exit between listing the process table  *)
(* and reading its entries, between the census and the signals, and        *)
(* between one signal and the next.  A process holds one unit of memory or *)
(* none.  The pauses between samples are not modelled: any number of the   *)
(* tree's steps may fit in them.  Left out: the cgroup counter that may    *)
(* replace the sum, a pid that is reused during one census, and wait       *)
(* failing.                                                                *)
(*                                                                         *)
(* Definitions named Slip... are wrong on purpose: each is a way to get    *)
(* the definition after it wrong that the properties have to notice.       *)
(***************************************************************************)
EXTENDS Naturals, FiniteSets

CONSTANTS
  Proc,    \* the processes that there may be, each of them once
  Root,    \* the child that was spawned
  System,  \* the parent of processes that lost theirs
  Limit,   \* the declared memory
  Retries, \* CENSUS_DISAGREEMENT_RETRIES
  Faults   \* whether the census may fail, or miss the child for once

ASSUME WatchAssumption ==
  /\ Root \in Proc /\ System \notin Proc
  /\ Limit \in Nat /\ Retries \in Nat /\ Faults \in BOOLEAN

VARIABLES
  state,    \* of each process: "none", "running", "leaving" (exiting, or a
            \* leader whose threads go on: a census takes it for dead while
            \* wait does not), "zombie" or "gone"
  parent,
  group,    \* the members of the child's process group
  fat,      \* the processes that hold memory
  pc,       \* where the supervisor has got to
  listed,   \* the process table as the census listed it
  victims,  \* whom it has yet to signal
  snapshot, \* whom it set out to signal
  left,     \* how often it will sample again before it gives up on the census
  peak, samples,
  end       \* how the run ended

tree == <<state, parent, group, fat>>
vars == <<tree, pc, listed, victims, snapshot, left, peak, samples, end>>

Alive(p) == state[p] \in {"running", "leaving"}
-----------------------------------------------------------------------------
(* The tree. *)

Fork(p, c) ==
  /\ state[p] = "running" /\ state[c] = "none"
  /\ state' = [state EXCEPT ![c] = "running"]
  /\ parent' = [parent EXCEPT ![c] = p]
  /\ group' = IF p \in group THEN group \cup {c} ELSE group
  /\ UNCHANGED <<fat, pc, listed, victims, snapshot, left, peak, samples, end>>

\* The leader of a group cannot leave it.
Setsid(p) ==
  /\ p # Root /\ state[p] = "running" /\ p \in group
  /\ group' = group \ {p}
  /\ UNCHANGED <<state, parent, fat, pc, listed, victims, snapshot, left, peak, samples, end>>

Resize(p) ==
  /\ Alive(p)
  /\ fat' = IF p \in fat THEN fat \ {p} ELSE fat \cup {p}
  /\ UNCHANGED <<state, parent, group, pc, listed, victims, snapshot, left, peak, samples, end>>

StartToLeave(p) ==
  /\ state[p] = "running"
  /\ state' = [state EXCEPT ![p] = "leaving"]
  /\ UNCHANGED <<parent, group, fat, pc, listed, victims, snapshot, left, peak, samples, end>>

\* The processes of D are over.  A child of somebody alive stays a zombie
\* until it is waited for; orphans go to the system, which waits at once.
Dead(D) ==
  LET orphan(p) == parent[p] \in D \cup {System}
  IN  /\ state' = [p \in Proc |->
                     IF ~Alive(p) /\ state[p] # "zombie" THEN state[p]
                     ELSE IF Alive(p) /\ p \notin D THEN state[p]
                     ELSE IF orphan(p) /\ p # Root THEN "gone" ELSE "zombie"]
      /\ parent' = [p \in Proc |->
                      IF state[p] # "none" /\ parent[p] \in D THEN System ELSE parent[p]]
      /\ fat' = fat \ D
      /\ UNCHANGED group

Exit(p) ==
  /\ Alive(p)
  /\ Dead({p})
  /\ UNCHANGED <<pc, listed, victims, snapshot, left, peak, samples, end>>

WaitedFor(p) ==
  /\ p # Root /\ state[p] = "zombie" /\ parent[p] \in Proc /\ state[parent[p]] = "running"
  /\ state' = [state EXCEPT ![p] = "gone"]
  /\ UNCHANGED <<parent, group, fat, pc, listed, victims, snapshot, left, peak, samples, end>>
-----------------------------------------------------------------------------
(* The supervisor. *)

\* sample_proc lists the process table, and then reads each entry.
List ==
  /\ pc = "sample" /\ pc' = "fold"
  /\ listed' = {p \in Proc : Alive(p) \/ state[p] = "zombie"}
  /\ UNCHANGED <<tree, victims, snapshot, left, peak, samples, end>>

Rows == {p \in listed : state[p] # "gone"}

\* fold_tree: the root and every descendant, which is the least set of rows
\* that has the root and, with a process, its children.
SlipDescendants == {Root}

Closed(S) == Root \in S /\ \A p \in Rows : parent[p] \in S => p \in S

Descendants == {p \in Rows \cup {Root} : \A S \in SUBSET Proc : Closed(S) => p \in S}

Resident == Cardinality({p \in Descendants : p \in fat /\ Alive(p)})

\* The tree is to be killed, for the reason e; V is all that is known of it.
Condemn(V, e) ==
  /\ pc' = "kill" /\ victims' = V /\ snapshot' = V /\ end' = e
  /\ UNCHANGED <<tree, listed, left>>

\* An entry that cannot be read, or no process table at all: fail closed.
FoldFails ==
  /\ Faults /\ pc = "fold"
  /\ Condemn({Root}, "CensusFailed")
  /\ UNCHANGED <<peak, samples>>

\* A measurement: over the declaration, or not.  A retry goes on without
\* polling.
SlipFoldAlive ==
  /\ pc = "fold" /\ Root \in Rows /\ state[Root] = "running"
  /\ peak' = IF Resident > peak THEN Resident ELSE peak
  /\ \/ /\ Resident > Limit /\ left = Retries
        /\ Condemn(Descendants, "Exceeded")
        /\ UNCHANGED samples
     \/ /\ Resident <= Limit \/ left < Retries
        /\ samples' = 1 /\ left' = Retries
        /\ pc' = IF left = Retries THEN "poll" ELSE "sample"
        /\ UNCHANGED <<tree, listed, victims, snapshot, end>>

FoldAlive ==
  /\ pc = "fold" /\ Root \in Rows /\ state[Root] = "running"
  /\ peak' = IF Resident > peak THEN Resident ELSE peak
  /\ \/ /\ Resident > Limit
        /\ Condemn(Descendants, "Exceeded")
        /\ UNCHANGED samples
     \/ /\ Resident <= Limit
        /\ samples' = 1 /\ left' = Retries
        /\ pc' = IF left = Retries THEN "poll" ELSE "sample"
        /\ UNCHANGED <<tree, listed, victims, snapshot, end>>

\* No root among the living: not an exit unless wait agrees.
FoldExited ==
  /\ pc = "fold" /\ (Root \notin Rows \/ state[Root] # "running" \/ Faults)
  /\ \/ /\ left > 0 /\ pc' = "recheck"
        /\ UNCHANGED <<tree, listed, victims, snapshot, left, end>>
     \/ /\ left = 0
        /\ Condemn({Root}, "CensusFailed")
  /\ UNCHANGED <<peak, samples>>

\* try_wait: the status of a child that exited, once.
Finish ==
  /\ pc \in {"poll", "recheck"} /\ state[Root] = "zombie"
  /\ state' = [state EXCEPT ![Root] = "gone"]
  /\ pc' = "done" /\ end' = "Finished"
  /\ UNCHANGED <<parent, group, fat, listed, victims, snapshot, left, peak, samples>>

SlipGoOn ==
  /\ pc \in {"poll", "recheck"} /\ state[Root] # "zombie"
  /\ pc' = "sample"
  /\ UNCHANGED <<tree, listed, victims, snapshot, left, peak, samples, end>>

GoOn ==
  /\ pc \in {"poll", "recheck"} /\ state[Root] # "zombie"
  /\ pc' = "sample" /\ left' = IF pc = "recheck" THEN left - 1 ELSE left
  /\ UNCHANGED <<tree, listed, victims, snapshot, peak, samples, end>>

\* signal_kill_tree: descendants first, the root last, then the group.
Signal(p) ==
  /\ pc = "kill" /\ p \in victims /\ (p = Root => victims = {Root})
  /\ victims' = victims \ {p}
  /\ pc' = IF p = Root THEN "killgroup" ELSE "kill"
  /\ IF Alive(p) THEN Dead({p}) ELSE UNCHANGED tree
  /\ UNCHANGED <<listed, snapshot, left, peak, samples, end>>

SlipSignalGroup ==
  /\ pc = "killgroup" /\ pc' = "reap"
  /\ UNCHANGED <<tree, listed, victims, snapshot, left, peak, samples, end>>

SignalGroup ==
  /\ pc = "killgroup" /\ pc' = "reap"
  /\ Dead({p \in group : Alive(p)})
  /\ UNCHANGED <<listed, victims, snapshot, left, peak, samples, end>>

Reap ==
  /\ pc = "reap" /\ state[Root] = "zombie"
  /\ state' = [state EXCEPT ![Root] = "gone"]
  /\ pc' = "done"
  /\ UNCHANGED <<parent, group, fat, listed, victims, snapshot, left, peak, samples, end>>

Init ==
  /\ state = [p \in Proc |-> IF p = Root THEN "running" ELSE "none"]
  /\ parent = [p \in Proc |-> System]
  /\ group = {Root} /\ fat = {}
  /\ pc = "sample" /\ listed = {} /\ victims = {} /\ snapshot = {}
  /\ left = Retries /\ peak = 0 /\ samples = 0 /\ end = ""

TreeStep ==
  \/ \E p, c \in Proc : Fork(p, c)
  \/ \E p \in Proc : Setsid(p) \/ Resize(p) \/ StartToLeave(p) \/ Exit(p) \/ WaitedFor(p)

Supervise ==
  \/ List \/ FoldFails \/ FoldAlive \/ FoldExited \/ Finish \/ GoOn
  \/ \E p \in Proc : Signal(p)
  \/ SignalGroup \/ Reap

Next == TreeStep \/ Supervise

Spec == Init /\ [][Next]_vars

\* The supervisor is a thread that the operating system schedules.  Of the tree
\* nothing is assumed.
FairSpec == Spec /\ WF_vars(Supervise)
-----------------------------------------------------------------------------
(* What the watch promises. *)

\* "So a grandchild is not left running under a blind watch": when the watch
\* has killed, nobody is left of the child's process group, forked before or
\* during the kill, nor of those that the census had found.
NobodyLeft ==
  (pc = "done" /\ end \in {"Exceeded", "CensusFailed"}) =>
    \A p \in group \cup snapshot : ~Alive(p)

\* "Stayed inside the declaration" is said only of a run of which no sample,
\* not even one of a retry, was over it.
FinishedInside == (pc = "done" /\ end = "Finished") => peak <= Limit

\* The cap: processes of the tree that together hold more than was declared,
\* and keep it, do not stay; it takes no help from the rest of the tree.
Hogs(H) ==
  /\ Cardinality(H) > Limit /\ H \subseteq fat
  /\ state[Root] = "running"
  /\ \A p \in H : state[p] = "running" /\ (p = Root \/ parent[p] = Root)

HogsAreKilled == \A H \in SUBSET Proc : Hogs(H) ~> ~Hogs(H)

\* The supervisor stops waiting: a child that exits or that no census can see
\* ends the watch.
WatchEnds == (state[Root] # "running") ~> (pc = "done")
=============================================================================
