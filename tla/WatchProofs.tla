---------------------------- MODULE WatchProofs ----------------------------
(***************************************************************************)
(* Proofs about the supervisor, for any processes, limit and retries, and  *)
(* whatever the tree does meanwhile: nobody that it knew of is left alive  *)
(* after a kill, and a run said to have finished was never seen over its   *)
(* declaration.                                                            *)
(*                                                                         *)
(* NobodyLeft is not inductive.  A fork may put a child into the group up  *)
(* to the signal to the group, so one has to know that all of the group is *)
(* dead from then on, which leaves nobody to fork; and that what a census  *)
(* found has once lived, as a process that is yet to be forked could not   *)
(* be killed beforehand.                                                   *)
(***************************************************************************)
EXTENDS Watch, TLAPS

States == {"none", "running", "leaving", "zombie", "gone"}
Sampling == {"sample", "fold", "poll", "recheck"}
Killing == {"kill", "killgroup", "reap"}
Killed == {"Exceeded", "CensusFailed"}

\* The state has its types.
TypeOK ==
  /\ state \in [Proc -> States]
  /\ parent \in [Proc -> Proc \cup {System}]
  /\ group \in SUBSET Proc /\ fat \in SUBSET Proc
  /\ pc \in Sampling \cup Killing \cup {"done"}
  /\ listed \in SUBSET Proc
  /\ snapshot \in SUBSET Proc /\ victims \in SUBSET snapshot
  /\ left \in Nat /\ (pc = "recheck" => left > 0)
  /\ end \in {"", "Finished"} \cup Killed

\* Whom the supervisor or the group knows of has been started.
Started == \A p \in {Root} \cup listed \cup snapshot \cup group : state[p] # "none"

\* While it samples, the run has not ended; while it kills, it is known why.
EndMatches ==
  /\ pc \in Sampling => end = ""
  /\ pc \in Killing => end \in Killed

\* Whom it has signalled is dead, at last everybody, and then the group.
SignalledAreDead ==
  end \in Killed =>
    /\ pc = "kill" => Root \in victims
    /\ pc # "kill" => victims = {}
    /\ \A p \in snapshot \ victims : ~Alive(p)
    /\ pc \in {"reap", "done"} => \A p \in group : ~Alive(p)

\* Nothing over the declaration was seen without a kill.
PeakInside == end \notin Killed => peak <= Limit

WatchInv == TypeOK /\ Started /\ EndMatches /\ SignalledAreDead /\ PeakInside
-----------------------------------------------------------------------------
(* What a step may do to the life of a process.                            *)

\* Nobody comes back to life, and nobody that was started is unstarted.
NoneRevived ==
  \A p \in Proc :
    /\ state'[p] = "none" => state[p] = "none"
    /\ Alive(p)' => Alive(p) \/ state[p] = "none"

\* What holds of the supervisor while only the tree moves, and the group gains
\* nobody but the children of its living members.
LEMMA TreeMoves ==
  ASSUME WatchInv, state' \in [Proc -> States], parent' \in [Proc -> Proc \cup {System}],
         fat' \in SUBSET Proc, group' \in SUBSET Proc,
         NoneRevived,
         \A q \in group' \ group : state'[q] # "none" /\ \E p \in group : Alive(p),
         UNCHANGED <<pc, listed, victims, snapshot, left, peak, samples, end>>
  PROVE  WatchInv'
<1>1. TypeOK'
  BY DEF WatchInv, TypeOK
<1>2. Started'
  BY WatchAssumption DEF WatchInv, TypeOK, Started, NoneRevived
<1>3. EndMatches'
  BY DEF WatchInv, EndMatches
<1>4. SignalledAreDead'
  <2> SUFFICES ASSUME end \in Killed PROVE SignalledAreDead'
    BY DEF SignalledAreDead
  <2>1. \A p \in snapshot \ victims : ~Alive(p)'
    BY DEF WatchInv, TypeOK, Started, SignalledAreDead, NoneRevived
  <2>2. ASSUME pc \in {"reap", "done"} PROVE \A p \in group' : ~Alive(p)'
    <3>1. \A p \in group : ~Alive(p)
      BY <2>2 DEF WatchInv, SignalledAreDead
    <3>2. group' \subseteq group
      BY <3>1
    <3>3. QED
      BY <3>1, <3>2 DEF WatchInv, TypeOK, Started, NoneRevived
  <2>3. QED
    BY <2>1, <2>2 DEF WatchInv, SignalledAreDead
<1>5. PeakInside'
  BY DEF WatchInv, PeakInside
<1>6. QED
  BY <1>1, <1>2, <1>3, <1>4, <1>5 DEF WatchInv

\* Dead(D) kills D, spares the others, and moves nobody else.
LEMMA DeadKills ==
  ASSUME TypeOK, NEW D \in SUBSET Proc, Dead(D), Started
  PROVE  /\ state' \in [Proc -> States] /\ parent' \in [Proc -> Proc \cup {System}]
         /\ fat' \in SUBSET Proc /\ group' = group
         /\ NoneRevived
         /\ \A p \in D : ~Alive(p)'
<1>1. \A p \in Proc : state'[p] = IF ~Alive(p) /\ state[p] # "zombie" THEN state[p]
                                  ELSE IF Alive(p) /\ p \notin D THEN state[p]
                                  ELSE IF parent[p] \in D \cup {System} /\ p # Root THEN "gone"
                                  ELSE "zombie"
  BY DEF Dead
<1>2. state' \in [Proc -> States]
  BY DEF Dead, TypeOK, States
<1>3. parent' \in [Proc -> Proc \cup {System}]
  BY DEF Dead, TypeOK
<1>4. NoneRevived
  BY <1>1 DEF NoneRevived, Alive
<1>5. \A p \in D : ~Alive(p)'
  BY <1>1 DEF Alive
<1>6. QED
  BY <1>2, <1>3, <1>4, <1>5 DEF Dead, TypeOK
-----------------------------------------------------------------------------
(* The steps.                                                              *)

LEMMA WatchInit == Init => WatchInv
<1> SUFFICES ASSUME Init PROVE WatchInv
  OBVIOUS
<1>1. TypeOK
  BY WatchAssumption DEF Init, TypeOK, States, Sampling
<1>2. Started
  BY WatchAssumption DEF Init, Started
<1>3. EndMatches /\ SignalledAreDead
  BY DEF Init, EndMatches, SignalledAreDead, Killing, Killed
<1>4. PeakInside
  <2>1. Limit \in Nat
    BY WatchAssumption
  <2>2. peak = 0
    BY DEF Init
  <2>3. peak <= Limit
    BY <2>1, <2>2
  <2>4. QED
    BY <2>3 DEF PeakInside
<1>5. QED
  BY <1>1, <1>2, <1>3, <1>4 DEF WatchInv

LEMMA ForkKeeps ==
  ASSUME WatchInv, NEW p \in Proc, NEW c \in Proc, Fork(p, c)
  PROVE  WatchInv'
<1>1. state' \in [Proc -> States] /\ state'[c] = "running"
      /\ \A q \in Proc \ {c} : state'[q] = state[q]
  BY DEF WatchInv, TypeOK, Fork, States
<1>2. parent' \in [Proc -> Proc \cup {System}]
  BY DEF WatchInv, TypeOK, Fork
<1>3. NoneRevived
  BY <1>1 DEF Fork, NoneRevived, Alive
<1>4. group' \in SUBSET Proc
      /\ \A q \in group' \ group : state'[q] # "none" /\ \E m \in group : Alive(m)
  BY <1>1 DEF WatchInv, TypeOK, Fork, Alive
<1>5. fat' \in SUBSET Proc
  BY DEF WatchInv, TypeOK, Fork
<1>6. QED
  BY <1>1, <1>2, <1>3, <1>4, <1>5, TreeMoves DEF Fork

\* The steps that touch neither group nor parents.
LEMMA QuietKeeps ==
  ASSUME WatchInv, NEW p \in Proc,
         Setsid(p) \/ Resize(p) \/ StartToLeave(p) \/ WaitedFor(p)
  PROVE  WatchInv'
<1>1. state' \in [Proc -> States] /\ NoneRevived
  BY DEF WatchInv, TypeOK, Setsid, Resize, StartToLeave, WaitedFor, NoneRevived, Alive, States
<1>2. parent' \in [Proc -> Proc \cup {System}] /\ fat' \in SUBSET Proc
      /\ group' \in SUBSET group
  BY DEF WatchInv, TypeOK, Setsid, Resize, StartToLeave, WaitedFor
<1>3. group' \in SUBSET Proc /\ group' \ group = {}
  BY <1>2 DEF WatchInv, TypeOK
<1>4. UNCHANGED <<pc, listed, victims, snapshot, left, peak, samples, end>>
  BY DEF Setsid, Resize, StartToLeave, WaitedFor
<1>5. QED
  BY <1>1, <1>2, <1>3, <1>4, TreeMoves

LEMMA ExitKeeps ==
  ASSUME WatchInv, NEW p \in Proc, Exit(p)
  PROVE  WatchInv'
<1>1. Dead({p}) /\ TypeOK /\ Started
  BY DEF Exit, WatchInv
<1>2. /\ state' \in [Proc -> States] /\ parent' \in [Proc -> Proc \cup {System}]
      /\ fat' \in SUBSET Proc /\ group' = group /\ NoneRevived
  BY <1>1, DeadKills
<1>3. group' \in SUBSET Proc /\ group' \ group = {}
  BY <1>1, <1>2 DEF TypeOK
<1>4. QED
  BY <1>2, <1>3, TreeMoves DEF Exit

LEMMA ListKeeps ==
  ASSUME WatchInv, List
  PROVE  WatchInv'
<1>1. TypeOK' /\ EndMatches'
  BY DEF WatchInv, TypeOK, EndMatches, List, tree, Sampling, Killing
<1>2. Started'
  BY DEF WatchInv, Started, List, tree, Alive
<1>3. end \notin Killed
  BY DEF WatchInv, EndMatches, List, Sampling, Killed
<1>4. SignalledAreDead' /\ PeakInside'
  BY <1>3 DEF WatchInv, SignalledAreDead, PeakInside, List
<1>5. QED
  BY <1>1, <1>2, <1>4 DEF WatchInv

\* The root is among those to be killed, and all of them have been started.
LEMMA CondemnKeeps ==
  ASSUME WatchInv, NEW V \in SUBSET (listed \cup {Root}), Root \in V,
         NEW e \in Killed, Condemn(V, e)
  PROVE  WatchInv'
<1>1. TypeOK'
  BY WatchAssumption DEF WatchInv, TypeOK, Condemn, tree, Sampling, Killing
<1>2. Started'
  BY DEF WatchInv, Started, Condemn, tree
<1>3. EndMatches' /\ SignalledAreDead' /\ PeakInside'
  BY DEF EndMatches, SignalledAreDead, PeakInside, Condemn, Sampling, Killing
<1>4. QED
  BY <1>1, <1>2, <1>3 DEF WatchInv

LEMMA DescendantsFound ==
  ASSUME WatchInv
  PROVE  Root \in Descendants /\ Descendants \subseteq listed \cup {Root}
BY DEF Descendants, Closed, Rows

LEMMA FoldKeeps ==
  ASSUME WatchInv, FoldFails \/ FoldAlive \/ FoldExited
  PROVE  WatchInv'
<1>1. pc = "fold" /\ end = ""
  BY DEF WatchInv, EndMatches, FoldFails, FoldAlive, FoldExited, Sampling
<1>2. CASE \E V \in {{Root}, Descendants}, e \in Killed : Condemn(V, e)
  <2>1. PICK V \in {{Root}, Descendants}, e \in Killed : Condemn(V, e)
    BY <1>2
  <2>2. V \in SUBSET (listed \cup {Root}) /\ Root \in V
    BY DescendantsFound
  <2>3. QED
    BY <2>1, <2>2, CondemnKeeps
<1>3. CASE ~ \E V \in {{Root}, Descendants}, e \in Killed : Condemn(V, e)
  <2>1. "CensusFailed" \in Killed /\ "Exceeded" \in Killed
    BY DEF Killed
  <2>2. /\ pc' \in {"poll", "sample", "recheck"}
        /\ UNCHANGED <<tree, listed, victims, snapshot, end>>
        /\ left' \in {left, Retries} /\ (pc' = "recheck" => left' > 0)
        /\ peak' = peak \/ peak' <= Limit
    BY <1>3, <2>1 DEF FoldFails, FoldAlive, FoldExited
  <2>3. TypeOK'
    BY <2>2, WatchAssumption DEF WatchInv, TypeOK, tree, Sampling
  <2>4. Started' /\ EndMatches'
    BY <1>1, <2>2 DEF WatchInv, Started, EndMatches, tree, Sampling, Killing
  <2>5. SignalledAreDead' /\ PeakInside'
    BY <1>1, <2>2 DEF WatchInv, SignalledAreDead, PeakInside, Killed
  <2>6. QED
    BY <2>3, <2>4, <2>5 DEF WatchInv
<1>4. QED
  BY <1>2, <1>3

\* try_wait and wait: the root is taken away.
LEMMA WaitedKeeps ==
  ASSUME WatchInv, Finish \/ Reap
  PROVE  WatchInv'
<1>1. state' \in [Proc -> States] /\ NoneRevived /\ state'[Root] = "gone"
      /\ \A p \in Proc \ {Root} : state'[p] = state[p]
  BY WatchAssumption DEF WatchInv, TypeOK, Finish, Reap, States, NoneRevived, Alive
<1>2. TypeOK'
  BY <1>1 DEF WatchInv, TypeOK, Finish, Reap
<1>3. Started'
  BY <1>1, WatchAssumption DEF WatchInv, TypeOK, Started, Finish, Reap
<1>4. EndMatches'
  BY DEF EndMatches, Finish, Reap, Sampling, Killing
<1>5. PeakInside'
  BY DEF WatchInv, EndMatches, PeakInside, Finish, Reap, Sampling, Killed
<1>6. SignalledAreDead'
  <2>1. CASE Finish
    BY <2>1 DEF Finish, SignalledAreDead, Killed
  <2>2. CASE Reap
    BY <1>1, <2>2 DEF Reap, WatchInv, TypeOK, Started, SignalledAreDead, NoneRevived
  <2>3. QED
    BY <2>1, <2>2
<1>7. QED
  BY <1>2, <1>3, <1>4, <1>5, <1>6 DEF WatchInv

LEMMA GoOnKeeps ==
  ASSUME WatchInv, GoOn
  PROVE  WatchInv'
<1>1. TypeOK'
  <2>1. left \in Nat /\ (pc = "recheck" => left > 0)
    BY DEF WatchInv, TypeOK
  <2>2. left' = left \/ (pc = "recheck" /\ left' = left - 1)
    BY DEF GoOn
  <2>3. left' \in Nat
    BY <2>1, <2>2
  <2>4. QED
    BY <2>3 DEF WatchInv, TypeOK, GoOn, tree, Sampling
<1>2. Started' /\ EndMatches'
  BY DEF WatchInv, Started, EndMatches, GoOn, tree, Sampling, Killing
<1>3. SignalledAreDead' /\ PeakInside'
  BY DEF WatchInv, EndMatches, SignalledAreDead, PeakInside, GoOn, Sampling, Killed
<1>4. QED
  BY <1>1, <1>2, <1>3 DEF WatchInv

LEMMA SignalKeeps ==
  ASSUME WatchInv, NEW p \in Proc, Signal(p)
  PROVE  WatchInv'
<1>1. TypeOK /\ Started /\ pc = "kill" /\ end \in Killed /\ Root \in victims
  BY DEF WatchInv, Signal, EndMatches, SignalledAreDead, Killing
<1>2. /\ state' \in [Proc -> States] /\ parent' \in [Proc -> Proc \cup {System}]
      /\ fat' \in SUBSET Proc /\ group' = group /\ NoneRevived /\ ~Alive(p)'
  <2>1. CASE Alive(p)
    BY <1>1, <2>1, DeadKills DEF Signal
  <2>2. CASE ~Alive(p)
    BY <1>1, <2>2 DEF Signal, tree, TypeOK, NoneRevived, Alive
  <2>3. QED
    BY <2>1, <2>2
<1>3. TypeOK'
  BY <1>1, <1>2 DEF TypeOK, Signal, Killing
<1>4. Started'
  BY <1>1, <1>2, WatchAssumption DEF Started, TypeOK, NoneRevived, Signal
<1>5. EndMatches' /\ PeakInside'
  BY <1>1 DEF EndMatches, PeakInside, Signal, Sampling
<1>6. SignalledAreDead'
  <2>1. \A q \in snapshot \ victims' : ~Alive(q)'
    BY <1>1, <1>2 DEF WatchInv, TypeOK, Started, SignalledAreDead, NoneRevived, Signal
  <2>2. QED
    BY <1>1, <2>1 DEF SignalledAreDead, Signal
<1>7. QED
  BY <1>3, <1>4, <1>5, <1>6 DEF WatchInv

\* Nobody of the group outlives the signal to it.
LEMMA SignalGroupKeeps ==
  ASSUME WatchInv, SignalGroup
  PROVE  WatchInv'
<1> DEFINE D == {p \in group : Alive(p)}
<1>1. TypeOK /\ Started /\ D \in SUBSET Proc /\ Dead(D) /\ end \in Killed
  BY DEF WatchInv, TypeOK, EndMatches, SignalGroup, Killing
<1>2. /\ state' \in [Proc -> States] /\ parent' \in [Proc -> Proc \cup {System}]
      /\ fat' \in SUBSET Proc /\ group' = group /\ NoneRevived
      /\ \A p \in D : ~Alive(p)'
  BY <1>1, DeadKills
<1>3. TypeOK'
  BY <1>1, <1>2 DEF TypeOK, SignalGroup, Killing
<1>4. Started'
  BY <1>1, <1>2, WatchAssumption DEF Started, TypeOK, NoneRevived, SignalGroup
<1>5. EndMatches' /\ PeakInside'
  BY <1>1 DEF EndMatches, PeakInside, SignalGroup, Sampling
<1>6. \A p \in group' : ~Alive(p)'
  BY <1>1, <1>2 DEF TypeOK, Started, NoneRevived
<1>7. \A p \in snapshot \ victims : ~Alive(p)'
  BY <1>1, <1>2 DEF WatchInv, TypeOK, Started, SignalledAreDead, NoneRevived
<1>8. SignalledAreDead'
  BY <1>1, <1>6, <1>7 DEF WatchInv, SignalledAreDead, SignalGroup
<1>9. QED
  BY <1>3, <1>4, <1>5, <1>8 DEF WatchInv
-----------------------------------------------------------------------------
(* The theorems.                                                           *)

LEMMA StepKeeps == WatchInv /\ [Next]_vars => WatchInv'
<1> SUFFICES ASSUME WatchInv, [Next]_vars PROVE WatchInv'
  OBVIOUS
<1>1. CASE TreeStep
  BY <1>1, ForkKeeps, QuietKeeps, ExitKeeps DEF TreeStep
<1>2. CASE List
  BY <1>2, ListKeeps
<1>3. CASE FoldFails \/ FoldAlive \/ FoldExited
  BY <1>3, FoldKeeps
<1>4. CASE Finish \/ Reap
  BY <1>4, WaitedKeeps
<1>5. CASE GoOn
  BY <1>5, GoOnKeeps
<1>6. CASE \E p \in Proc : Signal(p)
  BY <1>6, SignalKeeps
<1>7. CASE SignalGroup
  BY <1>7, SignalGroupKeeps
<1>8. CASE UNCHANGED vars
  BY <1>8 DEF vars, tree, WatchInv, TypeOK, Started, EndMatches, SignalledAreDead, PeakInside, Alive
<1>9. QED
  BY <1>1, <1>2, <1>3, <1>4, <1>5, <1>6, <1>7, <1>8 DEF Next, Supervise

LEMMA AlwaysWatchInv == Spec => []WatchInv
<1>1. QED
  BY WatchInit, StepKeeps, PTL DEF Spec

\* Every reachable state of the watch is well typed.
THEOREM WatchTypeCorrect == Spec => []TypeOK
<1>1. WatchInv => TypeOK
  BY DEF WatchInv
<1>2. QED
  BY <1>1, AlwaysWatchInv, PTL

\* After the watch has killed, nobody is left of the group or of those that it
\* had found, for any tree that forks, leaves the group, grows and exits
\* between any two of the supervisor's steps (signal_kill_tree, reap).
THEOREM NobodyIsLeft == Spec => []NobodyLeft
<1>1. WatchInv => NobodyLeft
  BY DEF WatchInv, SignalledAreDead, NobodyLeft, Killed
<1>2. QED
  BY <1>1, AlwaysWatchInv, PTL

\* A run that is said to have finished was never seen over its declaration,
\* by any sample, retries included (supervise_with).
THEOREM FinishedIsInside == Spec => []FinishedInside
<1>1. WatchInv => FinishedInside
  BY DEF WatchInv, PeakInside, FinishedInside, Killed
<1>2. QED
  BY <1>1, AlwaysWatchInv, PTL
=============================================================================
