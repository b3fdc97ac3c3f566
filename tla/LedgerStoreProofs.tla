------------------------- MODULE LedgerStoreProofs -------------------------
(***************************************************************************)
(* Proofs about the ledger store, for any processes and threads, any       *)
(* number of calls and boots, and with every fault: no crash can leave a   *)
(* torn ledger, and the store implements the atomic ledger.                *)
(*                                                                         *)
(* Neither is inductive.  Both need that only the holder of the lock is    *)
(* between its read and its rename, so that what it has read is still the  *)
(* ledger and what it has written is still in the temporary file of its    *)
(* process; and that a file is synced before it is renamed.                *)
(***************************************************************************)
EXTENDS LedgerStore, TLAPS

Numbers == Thread \X Nat
Content == [form : {"none", "ledger", "torn", "foreign"}, instance : Nat, log : SUBSET Numbers]
Inode == [data : Content, synced : BOOLEAN]
Steps == {"idle", "lock", "read", "create", "write", "sync", "rename", "syncdir", "answer"}
Inside == {"read", "create", "write", "sync", "rename", "syncdir"}
Writing == {"create", "write", "sync", "rename"}

\* The state has its types.
TypeOK ==
  /\ boot \in Nat \ {0}
  /\ file \in Inode /\ survives \in SUBSET Content
  /\ tmp \in [Process -> Inode]
  /\ lock \in Thread \cup {NoThread}
  /\ pc \in [Thread -> Steps] /\ kind \in [Thread -> {"update", "inspect"}]
  /\ draft \in [Thread -> Content]
  /\ seen \in [Thread -> SUBSET Numbers]
  /\ outcome \in [Thread -> {"ok", "err"}]
  /\ calls \in [Thread -> Nat]

\* What the ledger's name may refer to: nothing is torn, a ledger is of this
\* boot or an earlier one, and what is no ledger is of none.
Sound(data) ==
  /\ data.form # "torn"
  /\ data.instance <= boot
  /\ data.form # "ledger" => data.instance = 0

\* Neither the ledger nor what a power loss may leave of it is torn, and both
\* are of one schema.
OnDisk ==
  /\ file.synced /\ Sound(file.data)
  /\ \A data \in survives :
       Sound(data) /\ (data.form = "foreign" <=> file.data.form = "foreign")

\* Only the holder of the lock is inside.
Exclusive == \A t \in Thread : pc[t] \in Inside => lock = t

Mine(t) == IF kind[t] = "update" THEN {<<t, calls[t]>>} ELSE {}

\* What a call that is about to write has read is still the ledger, its draft
\* adds its own update, and the temporary file holds what it has written.
DraftedBy(t) ==
  /\ pc[t] \in Writing \cup {"syncdir"} => outcome[t] = "ok"
  /\ pc[t] \in Writing =>
       /\ file.data.form # "foreign"
       /\ seen[t] = AbstractLedger
       /\ draft[t].form = "ledger" /\ draft[t].instance = boot
       /\ draft[t].log = seen[t] \cup Mine(t)
  /\ pc[t] \in {"sync", "rename"} => tmp[Home[t]].data = draft[t]
  /\ pc[t] = "rename" => tmp[Home[t]].synced

Drafted == \A t \in Thread : DraftedBy(t)

StoreInv == TypeOK /\ OnDisk /\ Exclusive /\ Drafted
-----------------------------------------------------------------------------
(* The invariant, step by step.                                            *)

\* The two contents that are no ledger.
LEMMA NoLedger ==
  ASSUME NEW form \in {"none", "torn", "foreign"}
  PROVE  NotALedger(form) \in Content /\ NotALedger(form).form = form /\ NotALedger(form).instance = 0
BY DEF NotALedger, Content

LEMMA InitOK == Init => StoreInv
<1> SUFFICES ASSUME Init PROVE StoreInv
  OBVIOUS
<1>1. PICK data \in {NotALedger("none"), NotALedger("foreign")} :
        file = [data |-> data, synced |-> TRUE] /\ survives = {data}
  BY DEF Init, None
<1>2. data \in Content /\ data.form \in {"none", "foreign"} /\ data.instance = 0
  BY NoLedger
<1>3. NoTmp \in Inode /\ None \in Content
  BY NoLedger DEF NoTmp, None, Inode
<1>4. TypeOK
  BY <1>1, <1>2, <1>3 DEF Init, TypeOK, Inode, Steps
<1>5. OnDisk
  BY <1>1, <1>2 DEF Init, OnDisk, Sound
<1>6. Exclusive /\ Drafted
  BY DEF Init, Exclusive, Drafted, DraftedBy, Inside, Writing
<1>7. QED
  BY <1>4, <1>5, <1>6 DEF StoreInv

\* A step that touches no file keeps what is on disk.
LEMMA DiskKept ==
  ASSUME StoreInv, UNCHANGED <<boot, file, survives>>
  PROVE  OnDisk' /\ AbstractLedger' = AbstractLedger
BY DEF StoreInv, OnDisk, Sound, AbstractLedger

\* While a call is inside, no other one is, and none has a draft.
LEMMA OthersOutside ==
  ASSUME StoreInv, NEW t \in Thread, pc[t] \in Inside,
         NEW next, pc' = [pc EXCEPT ![t] = next]
  PROVE  \A u \in Thread \ {t} : DraftedBy(u)'
<1> SUFFICES ASSUME NEW u \in Thread \ {t} PROVE DraftedBy(u)'
  OBVIOUS
<1>1. pc[u] \notin Inside
  BY DEF StoreInv, Exclusive
<1>2. pc'[u] = pc[u]
  BY DEF StoreInv, TypeOK
<1>3. QED
  BY <1>1, <1>2 DEF DraftedBy, Inside, Writing

LEMMA InvokeKeeps ==
  ASSUME StoreInv, NEW t \in Thread, NEW k \in {"update", "inspect"}, Invoke(t, k)
  PROVE  StoreInv'
<1>1. TypeOK'
  BY DEF StoreInv, TypeOK, Invoke, Goes, Steps
<1>2. OnDisk' /\ AbstractLedger' = AbstractLedger
  BY DiskKept DEF Invoke
<1>3. Exclusive'
  BY DEF StoreInv, TypeOK, Exclusive, Inside, Invoke, Goes
<1>4. Drafted'
  BY <1>2 DEF StoreInv, TypeOK, Drafted, DraftedBy, Writing, Mine, Invoke, Goes
<1>5. QED
  BY <1>1, <1>2, <1>3, <1>4 DEF StoreInv

LEMMA LockKeeps ==
  ASSUME StoreInv, NEW t \in Thread, Lock(t)
  PROVE  StoreInv'
<1>1. TypeOK'
  BY DEF StoreInv, TypeOK, Lock, Goes, Steps
<1>2. OnDisk' /\ AbstractLedger' = AbstractLedger
  BY DiskKept DEF Lock
<1>3. Exclusive'
  BY LedgerStoreAssumption DEF StoreInv, TypeOK, Exclusive, Inside, Lock, Goes
<1>4. Drafted'
  BY <1>2 DEF StoreInv, TypeOK, Drafted, DraftedBy, Writing, Mine, Lock, Goes
<1>5. QED
  BY <1>1, <1>2, <1>3, <1>4 DEF StoreInv

\* What the closure is given, and what it makes of it.
Given == IF file.data.form = "ledger" /\ file.data.instance = boot THEN file.data ELSE Fresh

LEMMA GivenIs ==
  ASSUME StoreInv, file.data.form \notin {"torn", "foreign"}
  PROVE  /\ Given \in Content /\ Given.form = "ledger" /\ Given.instance = boot
         /\ Given.log = AbstractLedger
<1>1. file.data \in Content /\ boot \in Nat \ {0}
  BY DEF StoreInv, TypeOK, Inode
<1>2. Fresh \in Content /\ Fresh.form = "ledger" /\ Fresh.instance = boot /\ Fresh.log = {}
  BY <1>1 DEF Fresh, Content
<1>3. file.data.form # "ledger" => file.data.instance # boot
  BY <1>1 DEF StoreInv, OnDisk, Sound
<1>4. QED
  BY <1>1, <1>2, <1>3 DEF Given, AbstractLedger

LEMMA ReadIs ==
  ASSUME StoreInv, NEW t \in Thread, Read(t)
  PROVE  \/ /\ file.data.form \in {"torn", "foreign"}
            /\ pc' = [pc EXCEPT ![t] = "answer"]
            /\ outcome' = [outcome EXCEPT ![t] = "err"]
            /\ UNCHANGED <<draft, seen>>
         \/ /\ file.data.form \notin {"torn", "foreign"}
            /\ pc' = [pc EXCEPT ![t] = IF kind[t] = "update" \/ pc'[t] = "create" THEN "create"
                                       ELSE "answer"]
            /\ seen' = [seen EXCEPT ![t] = Given.log]
            /\ draft' = [draft EXCEPT ![t] = [Given EXCEPT !.log = @ \cup Mine(t)]]
            /\ outcome' = [outcome EXCEPT ![t] = "ok"]
<1>1. pc \in [Thread -> Steps]
  BY DEF StoreInv, TypeOK
<1>2. QED
  BY <1>1 DEF Read, Given, Mine

LEMMA ReadKeeps ==
  ASSUME StoreInv, NEW t \in Thread, Read(t)
  PROVE  StoreInv'
<1>1. /\ pc[t] = "read" /\ UNCHANGED <<boot, file, survives, tmp, lock, kind, calls>>
  BY DEF Read
<1>2. OnDisk' /\ AbstractLedger' = AbstractLedger
  BY <1>1, DiskKept
<1>3. CASE /\ file.data.form \in {"torn", "foreign"}
           /\ pc' = [pc EXCEPT ![t] = "answer"]
           /\ outcome' = [outcome EXCEPT ![t] = "err"]
           /\ UNCHANGED <<draft, seen>>
  <2>1. TypeOK'
    BY <1>1, <1>3 DEF StoreInv, TypeOK, Steps
  <2>2. Exclusive'
    BY <1>1, <1>3 DEF StoreInv, TypeOK, Exclusive, Inside
  <2>3. Drafted'
    BY <1>1, <1>2, <1>3 DEF StoreInv, TypeOK, Drafted, DraftedBy, Writing, Mine
  <2>4. QED
    BY <1>2, <2>1, <2>2, <2>3 DEF StoreInv
<1>4. ASSUME file.data.form \notin {"torn", "foreign"}, NEW next \in {"create", "answer"},
             pc' = [pc EXCEPT ![t] = next],
             seen' = [seen EXCEPT ![t] = Given.log],
             draft' = [draft EXCEPT ![t] = [Given EXCEPT !.log = @ \cup Mine(t)]],
             outcome' = [outcome EXCEPT ![t] = "ok"]
      PROVE  StoreInv'
  <2> DEFINE d == [Given EXCEPT !.log = @ \cup Mine(t)]
  <2>1. /\ Given \in Content /\ Given.form = "ledger" /\ Given.instance = boot
        /\ Given.log = AbstractLedger
    BY <1>4, GivenIs
  <2>2. Mine(t) \in SUBSET Numbers
    BY DEF Mine, Numbers, StoreInv, TypeOK
  <2>3. /\ d \in Content /\ d.form = "ledger" /\ d.instance = boot
        /\ d.log = AbstractLedger \cup Mine(t) /\ Given.log \in SUBSET Numbers
    BY <2>1, <2>2 DEF Content
  <2> HIDE DEF d
  <2>4. TypeOK'
    BY <1>1, <1>4, <2>3 DEF StoreInv, TypeOK, Steps, d
  <2>5. Exclusive'
    BY <1>1, <1>4 DEF StoreInv, TypeOK, Exclusive, Inside
  <2>6. /\ draft' = [draft EXCEPT ![t] = d] /\ seen' = [seen EXCEPT ![t] = AbstractLedger]
        /\ \A u \in Thread : Mine(u)' = Mine(u)
    BY <1>1, <1>4, <2>1 DEF d, Mine
  <2>7. pc \in [Thread -> Steps] /\ draft \in [Thread -> Content]
        /\ seen \in [Thread -> SUBSET Numbers] /\ outcome \in [Thread -> {"ok", "err"}]
    BY DEF StoreInv, TypeOK
  <2>8. Drafted'
    <3>1. \A u \in Thread \ {t} : DraftedBy(u)'
      BY <1>1, <1>4, <2>7, OthersOutside DEF Inside
    <3>2. DraftedBy(t)'
      BY <1>1, <1>2, <1>4, <2>3, <2>6, <2>7 DEF DraftedBy, Writing
    <3>3. QED
      BY <3>1, <3>2 DEF Drafted
  <2>9. QED
    BY <1>2, <2>4, <2>5, <2>8 DEF StoreInv
<1>5. QED
  BY <1>3, <1>4, ReadIs
\* The steps from the temporary file to the ledger, which the holder takes.
LEMMA WriteKeeps ==
  ASSUME StoreInv, NEW t \in Thread, Create(t) \/ Write(t) \/ Sync(t)
  PROVE  StoreInv'
<1>1. /\ pc[t] \in {"create", "write", "sync"}
      /\ UNCHANGED <<boot, file, survives, lock, kind, draft, seen, outcome, calls>>
  BY DEF Create, Write, Sync, Goes
<1>2. OnDisk' /\ AbstractLedger' = AbstractLedger
  BY <1>1, DiskKept
<1>3. PICK next \in {"write", "sync", "rename"} : pc' = [pc EXCEPT ![t] = next]
  BY DEF Create, Write, Sync, Goes
<1>4. /\ pc \in [Thread -> Steps] /\ draft[t] \in Content /\ tmp \in [Process -> Inode]
      /\ Home[t] \in Process /\ tmp[Home[t]] \in Inode
  BY LedgerStoreAssumption DEF StoreInv, TypeOK
<1>5. tmp' \in [Process -> Inode]
  <2>1. Torn \in Content
    BY NoLedger DEF Torn
  <2>2. [data |-> Torn, synced |-> FALSE] \in Inode
    BY <2>1 DEF Inode
  <2>3. CASE Create(t)
    BY <1>4, <2>2, <2>3 DEF Create
  <2>4. CASE Write(t)
    <3>1. [tmp[Home[t]] EXCEPT !.data = draft[t]] \in Inode
      BY <1>4 DEF Inode
    <3>2. QED
      BY <1>4, <2>4, <3>1 DEF Write
  <2>5. CASE Sync(t)
    <3>1. [tmp[Home[t]] EXCEPT !.synced = TRUE] \in Inode
      BY <1>4 DEF Inode
    <3>2. QED
      BY <1>4, <2>5, <3>1 DEF Sync
  <2>6. QED
    BY <2>3, <2>4, <2>5
<1>6. TypeOK'
  BY <1>1, <1>3, <1>5 DEF StoreInv, TypeOK, Steps
<1>7. Exclusive'
  BY <1>1, <1>3 DEF StoreInv, TypeOK, Exclusive, Inside
<1>8. \A u \in Thread \ {t} : DraftedBy(u)'
  BY <1>1, <1>3, OthersOutside DEF Inside
<1>9. DraftedBy(t) /\ Mine(t)' = Mine(t)
  BY <1>1 DEF StoreInv, Drafted, Mine
<1>10. ASSUME Create(t) PROVE DraftedBy(t)'
  BY <1>1, <1>2, <1>4, <1>9, <1>10 DEF Create, Goes, DraftedBy, Writing
<1>11. ASSUME Write(t) PROVE DraftedBy(t)'
  <2>1. pc'[t] = "sync" /\ tmp'[Home[t]].data = draft[t]
    BY <1>4, <1>11 DEF Write, Goes, Inode
  <2>2. QED
    BY <1>1, <1>2, <1>9, <2>1 DEF DraftedBy, Writing
<1>12. ASSUME Sync(t) PROVE DraftedBy(t)'
  <2>1. pc[t] = "sync" /\ pc'[t] = "rename"
    BY <1>4, <1>12 DEF Sync, Goes
  <2>2. tmp'[Home[t]].data = tmp[Home[t]].data /\ tmp'[Home[t]].synced
    BY <1>4, <1>12 DEF Sync, Inode
  <2>3. QED
    BY <1>1, <1>2, <1>9, <2>1, <2>2 DEF DraftedBy, Writing
<1>13. DraftedBy(t)'
  BY <1>10, <1>11, <1>12
<1>14. QED
  BY <1>2, <1>6, <1>7, <1>8, <1>13 DEF StoreInv, Drafted

\* What is renamed over the ledger is synced, and is the draft.
LEMMA RenameIs ==
  ASSUME StoreInv, NEW t \in Thread, Rename(t)
  PROVE  /\ pc[t] = "rename" /\ file' = tmp[Home[t]]
         /\ file'.synced /\ file'.data = draft[t] /\ file' \in Inode
         /\ survives' = survives \cup {draft[t]}
         /\ draft[t] \in Content /\ draft[t].form = "ledger" /\ draft[t].instance = boot
         /\ draft[t].log = AbstractLedger \cup Mine(t) /\ seen[t] = AbstractLedger
         /\ file.data.form # "foreign"
<1>1. pc[t] = "rename" /\ file' = tmp[Home[t]] /\ DraftedBy(t)
  BY DEF Rename, Goes, StoreInv, Drafted
<1>2. tmp[Home[t]] \in Inode /\ draft[t] \in Content
  BY LedgerStoreAssumption DEF StoreInv, TypeOK
<1>3. tmp[Home[t]].synced /\ tmp[Home[t]].data = draft[t]
  BY <1>1 DEF DraftedBy
<1>4. survives' = survives \cup {draft[t]}
  BY <1>3 DEF Rename, AfterLoss
<1>5. QED
  BY <1>1, <1>2, <1>3, <1>4 DEF DraftedBy, Writing

LEMMA RenameKeeps ==
  ASSUME StoreInv, NEW t \in Thread, Rename(t)
  PROVE  StoreInv'
<1>1. /\ pc[t] = "rename" /\ pc' = [pc EXCEPT ![t] = "syncdir"]
      /\ tmp' = [tmp EXCEPT ![Home[t]] = NoTmp]
      /\ UNCHANGED <<boot, lock, kind, draft, seen, outcome, calls>>
  BY DEF Rename, Goes
<1>2. NoTmp \in Inode
  BY NoLedger DEF NoTmp, None, Inode
<1>3. TypeOK'
  <2>1. tmp' \in [Process -> Inode] /\ pc' \in [Thread -> Steps]
    BY <1>1, <1>2 DEF StoreInv, TypeOK, Steps
  <2>2. file' \in Inode /\ survives' \in SUBSET Content
    BY RenameIs DEF StoreInv, TypeOK
  <2>3. QED
    BY <1>1, <2>1, <2>2 DEF StoreInv, TypeOK
<1>4. OnDisk'
  <2>1. Sound(draft[t]) /\ boot \in Nat
    BY RenameIs DEF Sound, StoreInv, TypeOK
  <2>2. \A data \in survives : Sound(data) /\ data.form # "foreign"
    BY RenameIs DEF StoreInv, OnDisk
  <2>3. boot' = boot
    BY <1>1
  <2>4. QED
    BY <2>1, <2>2, <2>3, RenameIs DEF OnDisk, Sound
<1>5. Exclusive'
  BY <1>1 DEF StoreInv, TypeOK, Exclusive, Inside
<1>6. \A u \in Thread \ {t} : DraftedBy(u)'
  BY <1>1, OthersOutside DEF Inside
<1>7. pc'[t] = "syncdir" /\ outcome[t] = "ok"
  BY <1>1 DEF StoreInv, TypeOK, Drafted, DraftedBy, Writing
<1>8. DraftedBy(t)'
  BY <1>1, <1>7 DEF DraftedBy, Writing
<1>9. QED
  BY <1>3, <1>4, <1>5, <1>6, <1>8 DEF StoreInv, Drafted

LEMMA SyncDirKeeps ==
  ASSUME StoreInv, NEW t \in Thread, SyncDir(t)
  PROVE  StoreInv'
<1>1. /\ pc[t] = "syncdir" /\ pc' = [pc EXCEPT ![t] = "answer"]
      /\ UNCHANGED <<boot, file, tmp, lock, kind, draft, seen, outcome, calls>>
      /\ survives' = survives \/ survives' = AfterLoss(file)
  BY DEF SyncDir, Goes
<1>2. AfterLoss(file) = {file.data} /\ file.data \in Content
  BY DEF AfterLoss, StoreInv, OnDisk, TypeOK, Inode
<1>3. TypeOK'
  BY <1>1, <1>2 DEF StoreInv, TypeOK, Steps
<1>4. OnDisk'
  BY <1>1, <1>2 DEF StoreInv, OnDisk, Sound
<1>5. Exclusive'
  BY <1>1 DEF StoreInv, TypeOK, Exclusive, Inside
<1>6. \A u \in Thread \ {t} : DraftedBy(u)'
  BY <1>1, OthersOutside DEF Inside
<1>7. DraftedBy(t)'
  BY <1>1 DEF StoreInv, TypeOK, DraftedBy, Writing
<1>8. QED
  BY <1>3, <1>4, <1>5, <1>6, <1>7 DEF StoreInv, Drafted

LEMMA FailKeeps ==
  ASSUME StoreInv, NEW t \in Thread, Fail(t)
  PROVE  StoreInv'
<1>1. TypeOK'
  BY DEF StoreInv, TypeOK, Fail, Steps
<1>2. OnDisk' /\ AbstractLedger' = AbstractLedger
  BY DiskKept DEF Fail
<1>3. Exclusive'
  BY DEF StoreInv, TypeOK, Exclusive, Inside, Fail
<1>4. Drafted'
  BY <1>2 DEF StoreInv, TypeOK, Drafted, DraftedBy, Writing, Mine, Fail
<1>5. QED
  BY <1>1, <1>2, <1>3, <1>4 DEF StoreInv

\* Threads that leave, by an answer or a death, release what they hold.
LEMMA LeaveKeeps ==
  ASSUME StoreInv, NEW T \in SUBSET Thread, Leave(T),
         lock' = IF lock \in T THEN NoThread ELSE lock,
         UNCHANGED <<boot, file, survives, tmp, calls>>
  PROVE  StoreInv'
<1>1. None \in Content
  BY NoLedger DEF None
<1>2. \A t \in Thread : /\ t \in T => pc'[t] = "idle"
                        /\ t \notin T => pc'[t] = pc[t] /\ kind'[t] = kind[t]
                             /\ draft'[t] = draft[t] /\ seen'[t] = seen[t]
                             /\ outcome'[t] = outcome[t]
  BY DEF Leave, Cleared
<1>3. TypeOK'
  BY <1>1 DEF StoreInv, TypeOK, Leave, Cleared, Steps
<1>4. OnDisk' /\ AbstractLedger' = AbstractLedger
  BY DiskKept
<1>5. Exclusive'
  BY <1>2 DEF StoreInv, Exclusive, Inside
<1>6. Drafted'
  BY <1>2, <1>4 DEF StoreInv, Drafted, DraftedBy, Writing, Mine
<1>7. QED
  BY <1>3, <1>4, <1>5, <1>6 DEF StoreInv

LEMMA AnswerKeeps ==
  ASSUME StoreInv, NEW t \in Thread, Answer(t)
  PROVE  StoreInv'
BY LeaveKeeps DEF Answer

LEMMA KillKeeps ==
  ASSUME StoreInv, NEW p \in Process, Kill(p)
  PROVE  StoreInv'
BY LeaveKeeps DEF Kill

\* Whatever a power loss leaves is sound, and of an earlier boot.
LEMMA PowerLossKeeps ==
  ASSUME StoreInv, PowerLoss
  PROVE  StoreInv'
<1>1. PICK data \in survives : file' = [data |-> data, synced |-> TRUE] /\ survives' = {data}
  BY DEF PowerLoss
<1>2. data \in Content /\ Sound(data) /\ boot \in Nat \ {0} /\ boot' = boot + 1
  BY DEF StoreInv, TypeOK, OnDisk, PowerLoss
<1>3. None \in Content /\ NoTmp \in Inode
  BY NoLedger DEF None, NoTmp, Inode
<1>4. TypeOK'
  BY <1>1, <1>2, <1>3 DEF StoreInv, TypeOK, PowerLoss, Leave, Cleared, Steps, Inode
<1>5. data.instance \in Nat /\ data.instance <= boot'
  BY <1>2 DEF Content, Sound
<1>6. OnDisk'
  BY <1>1, <1>2, <1>5 DEF OnDisk, Sound
<1>7. \A t \in Thread : pc'[t] = "idle"
  BY DEF PowerLoss, Leave, Cleared
<1>8. Exclusive' /\ Drafted'
  BY <1>7 DEF Exclusive, Drafted, DraftedBy, Inside, Writing
<1>9. QED
  BY <1>4, <1>6, <1>8 DEF StoreInv

LEMMA StepKeeps == StoreInv /\ [Next]_vars => StoreInv'
<1> SUFFICES ASSUME StoreInv, [Next]_vars PROVE StoreInv'
  OBVIOUS
<1>1. CASE UNCHANGED vars
  BY <1>1 DEF vars, StoreInv, TypeOK, OnDisk, Sound, Exclusive, Drafted, DraftedBy,
              AbstractLedger, Mine
<1>2. ASSUME NEW t \in Thread, Lock(t) \/ Proceed(t) \/ Fail(t)
      PROVE  StoreInv'
  BY <1>2, LockKeeps, ReadKeeps, WriteKeeps, RenameKeeps, SyncDirKeeps, AnswerKeeps, FailKeeps
     DEF Proceed
<1>3. QED
  BY <1>1, <1>2, InvokeKeeps, KillKeeps, PowerLossKeeps DEF Next

LEMMA Inductive == Spec => []StoreInv
BY InitOK, StepKeeps, PTL DEF Spec

\* The variables of the store keep their types.
THEOREM StoreTypeCorrect == Spec => []TypeOK
<1>1. StoreInv => TypeOK
  BY DEF StoreInv
<1>2. QED
  BY <1>1, Inductive, PTL

\* Whatever fails, is killed or loses power, at whatever step, no crash could
\* leave a ledger that is empty or cut short.
THEOREM NeverTornEver == Spec => []NeverTorn
<1>1. StoreInv => NeverTorn
  <2>1. Torn.form = "torn"
    BY NoLedger DEF Torn
  <2>2. QED
    BY <2>1 DEF StoreInv, OnDisk, Sound, NeverTorn
<1>2. QED
  BY <1>1, Inductive, PTL
-----------------------------------------------------------------------------
(* The refinement: every step of the store is one of the atomic ledger, or *)
(* leaves it alone.                                                        *)

Shown(t) == IF AbstractStatus(t) = "committed" THEN seen[t] ELSE {}
Statuses == [t \in Thread |-> AbstractStatus(t)]
AllShown == [t \in Thread |-> Shown(t)]
Foreign == file.data.form = "foreign"
abstract == <<Foreign, AbstractLedger, Statuses, AllShown, calls>>

\* What a call is to the atomic ledger, by where it has got to.
LEMMA StatusIs ==
  ASSUME TypeOK, NEW t \in Thread
  PROVE  /\ pc[t] = "idle" => AbstractStatus(t) = "idle"
         /\ pc[t] = "syncdir" => AbstractStatus(t) = "committed"
         /\ pc[t] = "answer" /\ outcome[t] = "ok" => AbstractStatus(t) = "committed"
         /\ pc[t] = "answer" /\ outcome[t] = "err" => AbstractStatus(t) = "refused"
         /\ pc[t] \in {"lock", "read"} \cup Writing =>
              AbstractStatus(t) = kind[t] /\ AbstractStatus(t) \in {"update", "inspect"}
BY DEF TypeOK, AbstractStatus, Writing

\* A step of one call changes its own status and no other.
LEMMA OneStatus ==
  ASSUME TypeOK, TypeOK', NEW t \in Thread,
         \A u \in Thread \ {t} : /\ pc'[u] = pc[u] /\ kind'[u] = kind[u]
                                 /\ seen'[u] = seen[u] /\ outcome'[u] = outcome[u]
  PROVE  /\ Statuses' = [Statuses EXCEPT ![t] = AbstractStatus(t)']
         /\ AllShown' = [AllShown EXCEPT ![t] = Shown(t)']
<1>1. \A u \in Thread \ {t} : AbstractStatus(u)' = AbstractStatus(u) /\ Shown(u)' = Shown(u)
  BY DEF AbstractStatus, Shown
<1>2. QED
  BY <1>1 DEF Statuses, AllShown

\* The steps that the atomic ledger does not see.
LEMMA StutterSteps ==
  ASSUME StoreInv, StoreInv', NEW t \in Thread,
         Lock(t) \/ Create(t) \/ Write(t) \/ Sync(t) \/ SyncDir(t)
  PROVE  UNCHANGED abstract
<1>1. TypeOK /\ TypeOK'
  BY DEF StoreInv
<1>2. /\ UNCHANGED <<boot, file, kind, seen, outcome, calls>>
      /\ \A u \in Thread \ {t} : pc'[u] = pc[u]
  BY <1>1 DEF Lock, Create, Write, Sync, SyncDir, Goes, TypeOK
<1>3. \/ /\ pc[t] \in {"lock", "read"} \cup Writing
         /\ pc'[t] \in {"lock", "read"} \cup Writing
      \/ pc[t] = "syncdir" /\ pc'[t] = "answer" /\ outcome[t] = "ok"
  BY <1>1 DEF Lock, Create, Write, Sync, SyncDir, Goes, TypeOK, Writing, StoreInv, Drafted, DraftedBy
<1>4. AbstractStatus(t)' = AbstractStatus(t)
  BY <1>1, <1>2, <1>3 DEF AbstractStatus, Writing, TypeOK
<1>5. Shown(t)' = Shown(t)
  BY <1>2, <1>4 DEF Shown
<1>6. Statuses' = Statuses /\ AllShown' = AllShown
  BY <1>1, <1>2, <1>4, <1>5, OneStatus DEF Statuses, AllShown
<1>7. QED
  BY <1>2, <1>6 DEF abstract, AbstractLedger, Foreign
\* A call begins.
LEMMA InvokeImplements ==
  ASSUME StoreInv, StoreInv', NEW t \in Thread, NEW k \in {"update", "inspect"}, Invoke(t, k)
  PROVE  Atomic!Invoke(t) /\ UNCHANGED Foreign
<1>1. TypeOK /\ TypeOK'
  BY DEF StoreInv
<1>2. /\ UNCHANGED <<boot, file, seen, outcome>> /\ calls[t] < MaxCalls
      /\ calls' = [calls EXCEPT ![t] = @ + 1]
      /\ pc[t] = "idle" /\ pc'[t] = "lock" /\ kind'[t] = k
      /\ \A u \in Thread \ {t} : pc'[u] = pc[u] /\ kind'[u] = kind[u]
  BY <1>1 DEF Invoke, Goes, TypeOK
<1>3. AbstractStatus(t) = "idle" /\ AbstractStatus(t)' = k
  BY <1>2 DEF AbstractStatus
<1>4. Shown(t)' = Shown(t)
  BY <1>2, <1>3 DEF Shown
<1>5. Statuses' = [Statuses EXCEPT ![t] = k] /\ AllShown' = AllShown
  BY <1>1, <1>2, <1>3, <1>4, OneStatus DEF AllShown
<1>6. Statuses[t] = "idle" /\ AbstractLedger' = AbstractLedger /\ Foreign' = Foreign
  BY <1>2, <1>3 DEF Statuses, AbstractLedger, Foreign
<1>7. QED
  BY <1>2, <1>5, <1>6 DEF Atomic!Invoke, Statuses, AllShown, Shown
\* The instant of a call, when it has read or when its rename is seen.
LEMMA CommitOf ==
  ASSUME StoreInv, StoreInv', NEW t \in Thread,
         pc[t] \in {"read", "rename"}, file.data.form # "foreign", Foreign' = Foreign,
         \A u \in Thread \ {t} : /\ pc'[u] = pc[u] /\ seen'[u] = seen[u]
                                 /\ outcome'[u] = outcome[u],
         UNCHANGED <<kind, calls>>,
         AbstractStatus(t)' = "committed", seen'[t] = AbstractLedger,
         AbstractLedger' = AbstractLedger \cup Mine(t)
  PROVE  Atomic!Commit(t) /\ UNCHANGED Foreign
<1>1. TypeOK /\ TypeOK'
  BY DEF StoreInv
<1>2. AbstractStatus(t) = kind[t] /\ kind[t] \in {"update", "inspect"}
  BY <1>1, StatusIs DEF Writing, TypeOK
<1>3. Shown(t)' = AbstractLedger
  BY DEF Shown
<1>4. /\ Statuses' = [Statuses EXCEPT ![t] = "committed"]
      /\ AllShown' = [AllShown EXCEPT ![t] = AbstractLedger]
  BY <1>1, <1>3, OneStatus
<1>5. Statuses[t] = kind[t] /\ ~Foreign
  BY <1>2 DEF Statuses, Foreign
<1>6. AbstractLedger' = IF kind[t] = "update" THEN AbstractLedger \cup {<<t, calls[t]>>}
                        ELSE AbstractLedger
  BY DEF Mine
<1>7. QED
  BY <1>2, <1>4, <1>5, <1>6
     DEF Atomic!Commit, Atomic!Update, Statuses, AllShown, Shown, Foreign

\* An error, before anything was changed.
LEMMA RefuseOf ==
  ASSUME StoreInv, StoreInv', NEW t \in Thread,
         pc[t] \in {"lock", "read"} \cup Writing, UNCHANGED <<boot, file, kind, seen, calls>>,
         pc' = [pc EXCEPT ![t] = "answer"], outcome' = [outcome EXCEPT ![t] = "err"]
  PROVE  Atomic!Refuse(t) /\ UNCHANGED Foreign
<1>1. TypeOK /\ TypeOK'
  BY DEF StoreInv
<1>2. /\ pc'[t] = "answer" /\ outcome'[t] = "err"
      /\ \A u \in Thread \ {t} : pc'[u] = pc[u] /\ outcome'[u] = outcome[u]
  BY <1>1 DEF TypeOK
<1>3. AbstractStatus(t) \in {"update", "inspect"} /\ AbstractStatus(t)' = "refused"
  BY <1>1, <1>2, StatusIs DEF AbstractStatus
<1>4. Shown(t)' = Shown(t)
  BY <1>3 DEF Shown
<1>5. Statuses' = [Statuses EXCEPT ![t] = "refused"] /\ AllShown' = AllShown
  BY <1>1, <1>2, <1>3, <1>4, OneStatus DEF AllShown
<1>6. AbstractLedger' = AbstractLedger /\ Foreign' = Foreign
  BY DEF AbstractLedger, Foreign
<1>7. QED
  BY <1>3, <1>5, <1>6 DEF Atomic!Refuse, Statuses, AllShown, Shown

\* A read is an error, the instant of a call that only looks, or nothing yet.
LEMMA ReadImplements ==
  ASSUME StoreInv, StoreInv', NEW t \in Thread, Read(t)
  PROVE  \/ (Atomic!Refuse(t) \/ Atomic!Commit(t)) /\ UNCHANGED Foreign
         \/ UNCHANGED abstract
<1>1. TypeOK /\ TypeOK'
  BY DEF StoreInv
<1>2. /\ pc[t] = "read" /\ UNCHANGED <<boot, file, kind, calls>>
  BY DEF Read
<1>3. AbstractLedger' = AbstractLedger /\ Foreign' = Foreign
  BY <1>2 DEF AbstractLedger, Foreign
<1>4. CASE /\ file.data.form \in {"torn", "foreign"}
           /\ pc' = [pc EXCEPT ![t] = "answer"]
           /\ outcome' = [outcome EXCEPT ![t] = "err"]
           /\ UNCHANGED <<draft, seen>>
  BY <1>2, <1>4, RefuseOf
<1>5. ASSUME file.data.form \notin {"torn", "foreign"},
             seen' = [seen EXCEPT ![t] = Given.log],
             outcome' = [outcome EXCEPT ![t] = "ok"],
             NEW next \in {"create", "answer"}, pc' = [pc EXCEPT ![t] = next],
             next = "answer" => kind[t] # "update"
      PROVE  \/ Atomic!Commit(t) /\ UNCHANGED Foreign
             \/ UNCHANGED abstract
  <2>1. /\ seen'[t] = AbstractLedger /\ outcome'[t] = "ok" /\ pc'[t] = next
        /\ \A u \in Thread \ {t} : /\ pc'[u] = pc[u] /\ seen'[u] = seen[u]
                                   /\ outcome'[u] = outcome[u]
    BY <1>1, <1>5, GivenIs DEF TypeOK
  <2>2. CASE next = "answer"
    <3>1. AbstractStatus(t)' = "committed"
      BY <2>1, <2>2 DEF AbstractStatus
    <3>2. AbstractLedger' = AbstractLedger \cup Mine(t)
      BY <1>3, <1>5, <2>2 DEF Mine
    <3>3. QED
      BY <1>2, <1>3, <1>5, <2>1, <3>1, <3>2, CommitOf
  <2>3. CASE next = "create"
    <3>1. kind[t] \in {"update", "inspect"} /\ kind'[t] = kind[t]
      BY <1>1, <1>2 DEF TypeOK
    <3>2. AbstractStatus(t)' = AbstractStatus(t) /\ AbstractStatus(t) # "committed"
      BY <1>2, <2>1, <2>3, <3>1 DEF AbstractStatus
    <3>3. Shown(t)' = Shown(t)
      BY <3>2 DEF Shown
    <3>4. Statuses' = Statuses /\ AllShown' = AllShown
      BY <1>1, <1>2, <2>1, <3>2, <3>3, OneStatus DEF Statuses, AllShown
    <3>5. QED
      BY <1>2, <1>3, <3>4 DEF abstract
  <2>4. QED
    BY <2>2, <2>3
<1>6. QED
  <2>1. CASE /\ file.data.form \notin {"torn", "foreign"}
             /\ pc' = [pc EXCEPT ![t] = IF kind[t] = "update" \/ pc'[t] = "create"
                                        THEN "create" ELSE "answer"]
             /\ seen' = [seen EXCEPT ![t] = Given.log]
             /\ outcome' = [outcome EXCEPT ![t] = "ok"]
    BY <1>5, <2>1
  <2>2. QED
    BY <1>4, <2>1, ReadIs

\* The rename is the instant of every call that writes.
LEMMA RenameImplements ==
  ASSUME StoreInv, StoreInv', NEW t \in Thread, Rename(t)
  PROVE  Atomic!Commit(t) /\ UNCHANGED Foreign
<1>1. TypeOK
  BY DEF StoreInv
<1>2. /\ pc[t] = "rename" /\ pc' = [pc EXCEPT ![t] = "syncdir"]
      /\ UNCHANGED <<boot, kind, draft, seen, outcome, calls>>
  BY DEF Rename, Goes
<1>3. /\ pc'[t] = "syncdir" /\ \A u \in Thread \ {t} : pc'[u] = pc[u]
  BY <1>1, <1>2 DEF TypeOK
<1>4. AbstractStatus(t)' = "committed"
  BY <1>3 DEF AbstractStatus
<1>5. AbstractLedger' = AbstractLedger \cup Mine(t) /\ Foreign' = Foreign
  BY <1>2, RenameIs DEF AbstractLedger, Foreign
<1>6. QED
  BY <1>2, <1>3, <1>4, <1>5, RenameIs, CommitOf

LEMMA AnswerImplements ==
  ASSUME StoreInv, StoreInv', NEW t \in Thread, Answer(t)
  PROVE  Atomic!Return(t) /\ UNCHANGED Foreign
<1>1. TypeOK /\ TypeOK'
  BY DEF StoreInv
<1>2. /\ pc[t] = "answer" /\ UNCHANGED <<boot, file, calls>>
      /\ pc'[t] = "idle"
      /\ \A u \in Thread \ {t} : /\ pc'[u] = pc[u] /\ kind'[u] = kind[u]
                                 /\ seen'[u] = seen[u] /\ outcome'[u] = outcome[u]
  BY DEF Answer, Leave, Cleared
<1>3. AbstractStatus(t) \in {"committed", "refused"} /\ AbstractStatus(t)' = "idle"
  BY <1>1, <1>2 DEF AbstractStatus, TypeOK
<1>4. Shown(t)' = {}
  BY <1>3 DEF Shown
<1>5. /\ Statuses' = [Statuses EXCEPT ![t] = "idle"]
      /\ AllShown' = [AllShown EXCEPT ![t] = {}]
  BY <1>1, <1>2, <1>3, <1>4, OneStatus
<1>6. AbstractLedger' = AbstractLedger /\ Foreign' = Foreign
  BY <1>2 DEF AbstractLedger, Foreign
<1>7. QED
  BY <1>2, <1>3, <1>5, <1>6 DEF Atomic!Return, Statuses, AllShown, Shown

\* A killed process takes its calls with it; none of them is cut in two.
LEMMA KillImplements ==
  ASSUME StoreInv, StoreInv', NEW p \in Process, Kill(p)
  PROVE  (\E T \in SUBSET Thread : Atomic!Crash(T)) /\ UNCHANGED Foreign
<1> DEFINE T == {t \in Thread : Home[t] = p}
<1>1. /\ UNCHANGED <<boot, file, calls>>
      /\ \A t \in T : pc'[t] = "idle"
      /\ \A u \in Thread \ T : /\ pc'[u] = pc[u] /\ kind'[u] = kind[u]
                               /\ seen'[u] = seen[u] /\ outcome'[u] = outcome[u]
  BY DEF Kill, Leave, Cleared
<1>2. \A t \in T : AbstractStatus(t)' = "idle" /\ Shown(t)' = {}
  BY <1>1 DEF AbstractStatus, Shown
<1>3. \A u \in Thread \ T : AbstractStatus(u)' = AbstractStatus(u) /\ Shown(u)' = Shown(u)
  BY <1>1 DEF AbstractStatus, Shown
<1>4. AbstractLedger' = AbstractLedger /\ Foreign' = Foreign
  BY <1>1 DEF AbstractLedger, Foreign
<1>5. Statuses' = [t \in Thread |-> IF t \in T THEN "idle" ELSE Statuses[t]]
  BY <1>2, <1>3 DEF Statuses
<1>6. AllShown' = [t \in Thread |-> IF t \in T THEN {} ELSE AllShown[t]]
  BY <1>2, <1>3 DEF AllShown
<1> HIDE DEF T
<1>7. Atomic!Crash(T)
  BY <1>1, <1>4, <1>5, <1>6 DEF Atomic!Crash, Statuses, AllShown, Shown
<1>8. T \in SUBSET Thread
  BY DEF T
<1>9. QED
  BY <1>4, <1>7, <1>8

LEMMA PowerLossImplements ==
  ASSUME StoreInv, PowerLoss
  PROVE  Atomic!Restart /\ UNCHANGED Foreign
<1>1. PICK data \in survives : file' = [data |-> data, synced |-> TRUE]
  BY DEF PowerLoss
<1>2. /\ data \in Content /\ Sound(data) /\ boot \in Nat \ {0} /\ boot' = boot + 1
      /\ data.form = "foreign" <=> file.data.form = "foreign"
  BY DEF StoreInv, TypeOK, OnDisk, PowerLoss
<1>3. data.instance # boot'
  BY <1>2 DEF Content, Sound
<1>4. AbstractLedger' = {} /\ Foreign' = Foreign
  BY <1>1, <1>2, <1>3 DEF AbstractLedger, Foreign
<1>5. \A t \in Thread : pc'[t] = "idle"
  BY DEF PowerLoss, Leave, Cleared
<1>6. \A t \in Thread : AbstractStatus(t)' = "idle" /\ Shown(t)' = {}
  BY <1>5 DEF AbstractStatus, Shown
<1>7. Statuses' = [t \in Thread |-> "idle"] /\ AllShown' = [t \in Thread |-> {}]
  BY <1>6 DEF Statuses, AllShown
<1>8. QED
  BY <1>4, <1>7 DEF Atomic!Restart, PowerLoss, Statuses, AllShown, Shown, Foreign

LEMMA InitImplements == Init => Atomic!Init
<1> SUFFICES ASSUME Init PROVE Atomic!Init
  OBVIOUS
<1>1. PICK data \in {NotALedger("none"), NotALedger("foreign")} :
        file = [data |-> data, synced |-> TRUE]
  BY DEF Init, None
<1>2. AbstractLedger = {} /\ Foreign \in BOOLEAN
  BY <1>1, NoLedger DEF Init, AbstractLedger, Foreign
<1>3. \A t \in Thread : AbstractStatus(t) = "idle" /\ Shown(t) = {}
  BY DEF Init, AbstractStatus, Shown
<1>4. Statuses = [t \in Thread |-> "idle"] /\ AllShown = [t \in Thread |-> {}]
  BY <1>3 DEF Statuses, AllShown
<1>5. QED
  BY <1>2, <1>4 DEF Init, Atomic!Init, Statuses, AllShown, Shown, Foreign

\* A step of the store is a step of the atomic ledger, or none.
LEMMA StepImplements ==
  ASSUME StoreInv, StoreInv', [Next]_vars
  PROVE  (Atomic!Next /\ UNCHANGED Foreign) \/ UNCHANGED abstract
<1>1. CASE UNCHANGED vars
  BY <1>1 DEF vars, abstract, Foreign, AbstractLedger, Statuses, AllShown, Shown, AbstractStatus
<1>2. ASSUME NEW t \in Thread, NEW k \in {"update", "inspect"}, Invoke(t, k)
      PROVE  Atomic!Next /\ UNCHANGED Foreign
  BY <1>2, InvokeImplements DEF Atomic!Next
<1>3. ASSUME NEW t \in Thread, Fail(t)
      PROVE  Atomic!Next /\ UNCHANGED Foreign
  <2>1. Atomic!Refuse(t) /\ UNCHANGED Foreign
    BY <1>3, RefuseOf DEF Fail, Writing
  <2>2. QED
    BY <2>1 DEF Atomic!Next
<1>4. ASSUME NEW t \in Thread, Lock(t) \/ Proceed(t)
      PROVE  (Atomic!Next /\ UNCHANGED Foreign) \/ UNCHANGED abstract
  <2>1. CASE Lock(t) \/ Create(t) \/ Write(t) \/ Sync(t) \/ SyncDir(t)
    BY <2>1, StutterSteps
  <2>2. CASE Read(t)
    BY <2>2, ReadImplements DEF Atomic!Next
  <2>3. CASE Rename(t)
    BY <2>3, RenameImplements DEF Atomic!Next
  <2>4. CASE Answer(t)
    BY <2>4, AnswerImplements DEF Atomic!Next
  <2>5. QED
    BY <1>4, <2>1, <2>2, <2>3, <2>4 DEF Proceed
<1>5. ASSUME NEW p \in Process, Kill(p)
      PROVE  Atomic!Next /\ UNCHANGED Foreign
  BY <1>5, KillImplements DEF Atomic!Next
<1>6. CASE PowerLoss
  BY <1>6, PowerLossImplements DEF Atomic!Next
<1>7. QED
  BY <1>1, <1>2, <1>3, <1>4, <1>5, <1>6 DEF Next

\* The store implements the atomic ledger: whatever fails, dies or loses
\* power, a call sees and changes the ledger at one instant or not at all.
THEOREM StoreIsAtomic == Spec => ImplementsAtomicLedger
<1>1. StoreInv /\ StoreInv' /\ [Next]_vars
        => [Atomic!Next /\ UNCHANGED Foreign]_abstract
  BY StepImplements
<1>2. QED
  BY <1>1, InitImplements, Inductive, PTL
     DEF Spec, ImplementsAtomicLedger, Atomic!Spec, abstract, Foreign, Statuses, AllShown, Shown
=============================================================================
