---------------------------- MODULE SkillSyncProofs ----------------------------
(***************************************************************************)
(* Theorems about SkillSync, for every set of skills and Projects, every   *)
(* number of slots, attempts, edits, reassignments and faults: its type    *)
(* invariant, and that a projection claim is given up only after the row   *)
(* it stands for.                                                          *)
(***************************************************************************)
EXTENDS SkillSync, QueueOpsProofs

-----------------------------------------------------------------------------
(***************************************************************************)
(* The queue: whatever the daemon enqueues, completes or retries, the      *)
(* array stays an array of items with one item per key.                    *)
(***************************************************************************)

GoodQueue(s) == s \in Seq(Item) /\ OneItemPerKey(s)

\* The type invariant is inductive with one item per key, in memory and on disk:
\* an eviction takes an item out at an index that has to exist.
SyncInv == TypeOK /\ GoodQueue(items) /\ GoodQueue(saved)

\* enqueue, completion and error keep a queue good.
LEMMA EnqueuedGood ==
  ASSUME NEW s, GoodQueue(s), NEW it \in Item
  PROVE  GoodQueue(Enqueued(s, it))
<1> HIDE DEF Item
<1> QED BY EnqueuedElements DEF GoodQueue

\* markDoneIfVersion takes out one item at most.
LEMMA DoneGood ==
  ASSUME NEW s, GoodQueue(s), NEW it
  PROVE  GoodQueue(markDoneIfVersion(s, it))
<1> HIDE DEF Item
<1> QED BY MarkDoneElements DEF GoodQueue

\* bumpAttempts changes the attempts of one item and no key.
LEMMA BumpGood ==
  ASSUME NEW s, GoodQueue(s), NEW it
  PROVE  GoodQueue(bumpAttempts(s, it))
<1>1. CASE IsCurrent(s, it)
  <2>1. \A x \in Item : [x EXCEPT !.attempts = @ + 1] \in Item
                        /\ [x EXCEPT !.attempts = @ + 1].key = x.key
    BY DEF Item
  <2> HIDE DEF Item
  <2> QED BY <1>1, <2>1, BumpElements DEF GoodQueue
<1>2. CASE ~IsCurrent(s, it)
  BY <1>2, BumpStale
<1> QED BY <1>1, <1>2

\* An error retries the item or drops it.
LEMMA ErrorGood ==
  ASSUME GoodQueue(items), NEW d, NEW permanent
  PROVE  GoodQueue(ItemsAfterError(d, permanent))
<1>1. GoodQueue(bumpAttempts(items, d.item))
  BY BumpGood
<1>2. GoodQueue(markDoneIfVersion(bumpAttempts(items, d.item), d.item))
  BY <1>1, DoneGood
<1> QED BY <1>1, <1>2 DEF ItemsAfterError

\* What the daemon stamps is an item.
LEMMA OpType ==
  ASSUME NEW op \in {"push", "delete"}, NEW k \in SkillKeys, NEW h \in Stored, NEW p \in Projects
  PROVE  Op(op, k, h, p) \in Item
<1>1. FreshVersion(k) \in Nat
  BY DEF FreshVersion
<1> QED BY <1>1 DEF Op, Item

\* A queued upload.
LEMMA PushGood ==
  ASSUME TypeOK, NEW s, GoodQueue(s), NEW k \in SkillKeys, NEW h \in Stored
  PROVE  GoodQueue(Push(s, k, h))
<1>1. bound \in Projects
  BY DEF TypeOK
<1> QED BY <1>1, OpType, EnqueuedGood DEF Push

\* A queued delete.
LEMMA DeleteGood ==
  ASSUME NEW s, GoodQueue(s), NEW k \in SkillKeys, NEW p \in Projects
  PROVE  GoodQueue(Delete(s, k, p))
<1>1. Absent \in Stored
  BY DEF Stored
<1> QED BY <1>1, OpType, EnqueuedGood DEF Delete

\* The retirement of the claims of a Project-owned key.
LEMMA CleanupGood ==
  ASSUME NEW s, GoodQueue(s), NEW k \in SkillKeys
  PROVE  GoodQueue(CleanupEnqueued(s, k))
<1> DEFINE p == CHOOSE q \in ClaimProjects(k) : TRUE
<1>1. ClaimProjects(k) # {} => p \in Projects
  BY DEF ClaimProjects
<1> HIDE DEF p
<1>2. CASE ClaimProjects(k) = {} \/ \E it \in PendingOf(s, k) : it.op = "delete"
  BY <1>2 DEF CleanupEnqueued
<1>3. CASE ~(ClaimProjects(k) = {} \/ \E it \in PendingOf(s, k) : it.op = "delete")
  <2>1. GoodQueue(Delete(s, k, p))
    BY <1>1, <1>3, DeleteGood
  <2> QED BY <1>3, <2>1 DEF CleanupEnqueued, p
<1> QED BY <1>2, <1>3

\* enqueueIfChanged, in its parts and as a whole.
LEMMA IfChangedGood ==
  ASSUME TypeOK, NEW s, GoodQueue(s), NEW k \in SkillKeys
  PROVE  /\ GoodQueue(ReportAbsence(s, k))
         /\ \A h \in Stored : GoodQueue(PushIfChanged(s, k, h))
         /\ GoodQueue(EnqueuedIfChanged(s, k))
<1>1. bound \in Projects /\ local[k] \in Stored
  BY DEF TypeOK
<1>2. GoodQueue(ReportAbsence(s, k))
  BY <1>1, DeleteGood DEF ReportAbsence
<1>3. \A h \in Stored : GoodQueue(PushIfChanged(s, k, h))
  BY PushGood DEF PushIfChanged
<1>4. GoodQueue(EnqueuedIfChanged(s, k))
  BY <1>1, <1>2, <1>3, CleanupGood DEF EnqueuedIfChanged
<1> QED BY <1>2, <1>3, <1>4

\* enqueueAbsentSkill.
LEMMA AbsentGood ==
  ASSUME SyncInv, NEW r, NEW k \in SkillKeys
  PROVE  GoodQueue(AbsentEnqueued(r, k))
<1>1. bound \in Projects /\ GoodQueue(items)
  BY DEF SyncInv, TypeOK
<1> QED BY <1>1, DeleteGood DEF AbsentEnqueued

-----------------------------------------------------------------------------
(***************************************************************************)
(* Types of what reconcile and drain loop hold.                            *)
(***************************************************************************)

\* A reconcile that begins, and one that goes on or ends.
LEMMA ReconOfType ==
  ASSUME NEW p, NEW pushed, NEW trusted \in SUBSET SkillKeys, NEW listing \in BOOLEAN
  PROVE  ReconOf(p, pushed, trusted, listing) \in Recon
BY DEF ReconOf, Recon, Claimed

\* A reconcile goes on as it was, or has ended.
LEMMA GoingType ==
  ASSUME NEW r \in Recon
  PROVE  Going(r) \subseteq Recon
BY DEF Going

\* The step of an item is one of the four.
LEMMA StepOfType ==
  ASSUME NEW it, NEW todo
  PROVE  /\ StepOf(it, todo) \in {"clean", "delete", "upload"}
         /\ StepOf(it, todo) = "clean" <=> todo # {}
BY DEF StepOf

\* The item the drain loop picks is an item.
LEMMA HeadType ==
  ASSUME GoodQueue(items), items # <<>>
  PROVE  Head(items) \in Item
<1> HIDE DEF Item
<1> QED BY DEF GoodQueue

-----------------------------------------------------------------------------
(***************************************************************************)
(* Every step preserves the types, action by action.                       *)
(***************************************************************************)

\* The daemon starts well-typed.
LEMMA InitSyncInv == Init => SyncInv
<1> SUFFICES ASSUME Init PROVE SyncInv
  OBVIOUS
<1>1. NoHash \in [SkillKeys -> Stored]
  BY DEF NoHash, Stored
<1>2. FirstProject \in Projects /\ {MaxEdits, MaxReassigns, MaxFaults} \subseteq Nat
  BY SkillSyncAssumption
<1>3. <<>> \in Seq(Item) /\ OneItemPerKey(<<>>)
  BY DEF OneItemPerKey
<1>4. budget \in [{"edits", "reassigns", "faults"} -> Nat]
  BY <1>2 DEF Init
<1> HIDE DEF Item
<1> QED BY <1>1, <1>2, <1>3, <1>4 DEF Init, SyncInv, TypeOK, GoodQueue

\* One fault, edit or reassignment less.
LEMMA SpendType ==
  ASSUME TypeOK, NEW what, Spend(what)
  PROVE  budget' \in [{"edits", "reassigns", "faults"} -> Nat]
<1>1. budget \in [{"edits", "reassigns", "faults"} -> Nat]
  BY DEF TypeOK
<1>2. what \in {"edits", "reassigns", "faults"} => budget[what] \in Nat /\ budget[what] - 1 \in Nat
  BY <1>1 DEF Spend
<1> QED BY <1>1, <1>2 DEF Spend

\* The user and the Projects change folders and the Agent.
LEMMA WorldTypes ==
  ASSUME SyncInv,
         \/ \E k \in SkillKeys : \/ \E c \in Stored \ {Shared} : Edit(k, c)
                                 \/ Materialize(k) \/ Dematerialize(k)
         \/ \E p \in Projects : Reassign(p)
  PROVE  SyncInv'
<1> USE DEF SyncInv, fileVars, cloudVars, bindVars
<1>0. Shared \in Stored /\ Absent \in Stored
  BY DEF Stored
<1>1. ASSUME NEW k \in SkillKeys, NEW c \in Stored \ {Shared}, Edit(k, c)
      PROVE  SyncInv'
  <2>1. budget' \in [{"edits", "reassigns", "faults"} -> Nat]
    BY <1>1, SpendType DEF Edit
  <2>2. local' \in [SkillKeys -> Stored] /\ dirty' \subseteq SkillKeys
    BY <1>1 DEF Edit, Touch, TypeOK
  <2> QED BY <1>1, <2>1, <2>2 DEF Edit, TypeOK, GoodQueue
<1>2. ASSUME NEW k \in SkillKeys, Materialize(k)
      PROVE  SyncInv'
  <2>1. budget' \in [{"edits", "reassigns", "faults"} -> Nat]
    BY <1>2, SpendType DEF Materialize
  <2>2. local' \in [SkillKeys -> Stored] /\ dirty' \subseteq SkillKeys /\ materialized' \subseteq SkillKeys
    BY <1>0, <1>2 DEF Materialize, Touch, TypeOK
  <2> QED BY <1>2, <2>1, <2>2 DEF Materialize, TypeOK, GoodQueue
<1>3. ASSUME NEW k \in SkillKeys, Dematerialize(k)
      PROVE  SyncInv'
  <2>1. budget' \in [{"edits", "reassigns", "faults"} -> Nat]
    BY <1>3, SpendType DEF Dematerialize
  <2>2. local' \in [SkillKeys -> Stored] /\ dirty' \subseteq SkillKeys /\ materialized' \subseteq SkillKeys
    BY <1>0, <1>3 DEF Dematerialize, Touch, TypeOK
  <2> QED BY <1>3, <2>1, <2>2 DEF Dematerialize, TypeOK, GoodQueue
<1>4. ASSUME NEW p \in Projects, Reassign(p)
      PROVE  SyncInv'
  <2>1. budget' \in [{"edits", "reassigns", "faults"} -> Nat]
    BY <1>4, SpendType DEF Reassign
  <2> QED BY <1>4, <2>1 DEF Reassign, TypeOK, GoodQueue
<1> QED BY <1>1, <1>2, <1>3, <1>4

\* A watch event is handled, in two parts.
LEMMA ScanTypes ==
  ASSUME SyncInv, NEW k \in SkillKeys, ScanBegin(k) \/ ScanEnd(k)
  PROVE  SyncInv'
<1> USE DEF SyncInv, fileVars, cloudVars, bindVars
<1>1. local[k] \in Stored /\ scan[k] \subseteq Stored
  BY DEF TypeOK
<1>2. CASE ScanBegin(k)
  <2>1. GoodQueue(items')
    BY <1>2, IfChangedGood DEF ScanBegin
  <2>2. scan' \in [SkillKeys -> SUBSET Stored] /\ dirty' \subseteq SkillKeys
    BY <1>1, <1>2 DEF ScanBegin, TypeOK
  <2> QED BY <1>2, <2>1, <2>2 DEF ScanBegin, TypeOK, GoodQueue
<1>3. CASE ScanEnd(k)
  <2>1. GoodQueue(items')
    BY <1>1, <1>3, IfChangedGood DEF ScanEnd
  <2>2. scan' \in [SkillKeys -> SUBSET Stored]
    BY <1>3 DEF ScanEnd, TypeOK
  <2> QED BY <1>3, <2>1, <2>2 DEF ScanEnd, TypeOK, GoodQueue
<1> QED BY <1>2, <1>3

\* The reconcile, key by key.
LEMMA ReconcileTypes ==
  ASSUME SyncInv,
         \/ \E listing \in BOOLEAN : ReconcileBegin(listing)
         \/ \E k \in SkillKeys : ReconcileKey(k)
         \/ ReconcileHashed \/ ReconcileEnd
  PROVE  SyncInv'
<1> USE DEF SyncInv, fileVars, cloudVars, bindVars
<1>0. /\ recon \subseteq Recon /\ local \in [SkillKeys -> Stored]
      /\ Remote(bound) \subseteq SkillKeys
  BY DEF TypeOK, Remote
<1>1. ASSUME NEW listing \in BOOLEAN, ReconcileBegin(listing)
      PROVE  SyncInv'
  <2> DEFINE r == ReconOf(bound, lastPushedHash, IF listing THEN Remote(bound) ELSE {}, listing)
  <2>1. r \in Recon
    BY <1>0, ReconOfType
  <2>2. recon' = Going(r)
    BY <1>1 DEF ReconcileBegin
  <2> HIDE DEF r
  <2>3. recon' \subseteq Recon
    BY <2>1, <2>2, GoingType
  <2> QED BY <1>1, <2>3 DEF ReconcileBegin, TypeOK, GoodQueue
<1>2. ASSUME NEW k \in SkillKeys, ReconcileKey(k)
      PROVE  SyncInv'
  <2>1. PICK r \in recon :
          LET next(h) == Going([r EXCEPT !.todo = @ \ {k}, !.hashed = h])
          IN \/ items' = CleanupEnqueued(items, k) /\ recon' = next({})
             \/ items' = AbsentEnqueued(r, k) /\ recon' = next({})
             \/ recon' = next({<<k, local[k]>>}) /\ UNCHANGED items
    BY <1>2 DEF ReconcileKey
  <2>2. \A h \in SUBSET (SkillKeys \X Stored) :
          [r EXCEPT !.todo = @ \ {k}, !.hashed = h] \in Recon
    BY <1>0 DEF Recon
  <2>3. {<<k, local[k]>>} \in SUBSET (SkillKeys \X Stored)
    BY <1>0
  <2>4. recon' \subseteq Recon
    BY <2>1, <2>2, <2>3, GoingType
  <2>5. GoodQueue(items')
    BY <2>1, CleanupGood, AbsentGood
  <2> QED BY <1>2, <2>4, <2>5 DEF ReconcileKey, TypeOK, GoodQueue
<1>3. CASE ReconcileHashed
  <2>1. PICK r \in recon : \E kh \in r.hashed :
          /\ items' = IF NothingToPush(r, kh[1], kh[2]) THEN items ELSE Push(items, kh[1], kh[2])
          /\ recon' = Going([r EXCEPT !.hashed = {}])
    BY <1>3 DEF ReconcileHashed
  <2>2. [r EXCEPT !.hashed = {}] \in Recon /\ r.hashed \subseteq SkillKeys \X Stored
    BY <1>0 DEF Recon
  <2>3. recon' \subseteq Recon
    BY <2>1, <2>2, GoingType
  <2>4. GoodQueue(items')
    BY <2>1, <2>2, PushGood
  <2> QED BY <1>3, <2>3, <2>4 DEF ReconcileHashed, TypeOK, GoodQueue
<1>4. CASE ReconcileEnd
  <2>1. ReconOf(bound, lastPushedHash, Remote(bound), TRUE) \in Recon
    BY <1>0, ReconOfType
  <2>2. recon' \subseteq Recon /\ slot' \in {"down", "preparing", "ready", "draining"}
    BY <1>4, <2>1 DEF ReconcileEnd, TypeOK
  <2> QED BY <1>4, <2>2 DEF ReconcileEnd, TypeOK, GoodQueue
<1> QED BY <1>1, <1>2, <1>3, <1>4

\* The drain loop takes an item and works on it.
LEMMA DrainTypes ==
  ASSUME SyncInv,
         \/ DrainPeek \/ CleanReturn \/ Snapshot \/ ServeUpload \/ DrainAbandon
         \/ \E p \in Projects : ServeDelete(p)
  PROVE  SyncInv'
<1> USE DEF SyncInv, fileVars, cloudVars, bindVars
<1>0. /\ drain \subseteq Drain /\ local \in [SkillKeys -> Stored] /\ agentProject \in Projects
      /\ cloud \in [Projects -> [SkillKeys -> Stored]] /\ Absent \in Stored
      /\ claims \in [Projects -> [SkillKeys -> Stored]]
  BY DEF TypeOK, Stored
<1>1. CASE DrainPeek
  <2> DEFINE it == Head(items)
             owned == it.key \in materialized
             todo == ClaimProjects(it.key) \ (IF owned THEN {} ELSE {bound})
             step == IF owned THEN "retire" ELSE StepOf(it, todo)
             d == [item |-> it, step |-> step, todo |-> todo, snap |-> Absent, served |-> {}]
  <2>1. it \in Item /\ todo \subseteq Projects /\ step \in {"retire", "clean", "delete", "upload"}
    BY <1>1, HeadType, StepOfType DEF DrainPeek, ClaimProjects
  <2>2. \/ items' = markDoneIfVersion(items, it) /\ UNCHANGED drain
        \/ drain' = {d} /\ UNCHANGED items
    BY <1>1 DEF DrainPeek
  <2>3. GoodQueue(items')
    BY <2>2, DoneGood
  <2> HIDE DEF it, todo, step
  <2>4. d \in Drain
    BY <1>0, <2>1 DEF Drain
  <2> HIDE DEF d
  <2>5. drain' \subseteq Drain
    BY <1>0, <2>2, <2>4
  <2> QED BY <1>1, <2>3, <2>5 DEF DrainPeek, TypeOK, GoodQueue
<1>2. CASE CleanReturn
  <2>1. PICK d \in drain : \E p \in d.served :
          /\ p \in d.todo
          /\ removeSkillProjectionClaim(p, d.item.key)
          /\ drain' = {[d EXCEPT !.todo = @ \ {p}, !.served = {},
                                 !.step = IF @ = "retire" THEN @ ELSE StepOf(d.item, d.todo \ {p})]}
    BY <1>2 DEF CleanReturn
  <2>2. PICK p \in d.served :
          /\ p \in d.todo
          /\ claims' = [claims EXCEPT ![p][d.item.key] = Absent]
          /\ drain' = {[d EXCEPT !.todo = d.todo \ {p}, !.served = {},
                                 !.step = IF d.step = "retire" THEN d.step
                                          ELSE StepOf(d.item, d.todo \ {p})]}
    BY <2>1 DEF removeSkillProjectionClaim
  <2>3. d \in Drain
    BY <1>0
  <2>4. /\ d.item.key \in SkillKeys /\ d.todo \ {p} \in SUBSET Projects /\ p \in Projects
        /\ d.step \in {"retire", "clean", "delete", "upload"}
    BY <2>2, <2>3 DEF Drain, Item
  <2>5. (IF d.step = "retire" THEN d.step ELSE StepOf(d.item, d.todo \ {p}))
          \in {"retire", "clean", "delete", "upload"}
    BY <2>4, StepOfType
  <2> DEFINE step == IF d.step = "retire" THEN d.step ELSE StepOf(d.item, d.todo \ {p})
             e == [d EXCEPT !.todo = d.todo \ {p}, !.served = {}, !.step = step]
  <2>6. drain' \subseteq Drain
    <3>1. drain' = {e}
      BY <2>2
    <3> HIDE DEF step
    <3>2. step \in {"retire", "clean", "delete", "upload"}
      BY <2>5 DEF step
    <3>3. e \in Drain
      BY <2>3, <2>4, <3>2 DEF Drain
    <3> HIDE DEF e
    <3> QED BY <3>1, <3>3
  <2>7. claims' \in [Projects -> [SkillKeys -> Stored]]
    BY <1>0, <2>2, <2>4
  <2> QED BY <1>2, <2>6, <2>7 DEF CleanReturn, TypeOK, GoodQueue
<1>3. CASE Snapshot
  <2>1. PICK d \in drain : drain' = {[d EXCEPT !.snap = local[d.item.key]]}
    BY <1>3 DEF Snapshot
  <2>2. d \in Drain /\ local[d.item.key] \in Stored
    BY <1>0 DEF Drain, Item
  <2>3. [d EXCEPT !.snap = local[d.item.key]] \in Drain
    BY <2>2 DEF Drain
  <2> QED BY <1>3, <2>1, <2>3 DEF Snapshot, TypeOK, GoodQueue
<1>4. CASE ServeUpload
  <2>1. PICK d \in drain :
          /\ cloud' = [cloud EXCEPT ![agentProject][d.item.key] = d.snap]
          /\ drain' = {[d EXCEPT !.served = {agentProject}]}
    BY <1>4 DEF ServeUpload
  <2>2. d \in Drain /\ d.item.key \in SkillKeys /\ d.snap \in Stored
    BY <1>0 DEF Drain, Item
  <2>3. [d EXCEPT !.served = {agentProject}] \in Drain
    BY <1>0, <2>2 DEF Drain
  <2>4. cloud' \in [Projects -> [SkillKeys -> Stored]]
    BY <1>0, <2>1, <2>2
  <2> QED BY <1>4, <2>1, <2>3, <2>4 DEF ServeUpload, TypeOK, GoodQueue
<1>5. CASE DrainAbandon
  BY <1>5 DEF DrainAbandon, TypeOK, GoodQueue
<1>6. ASSUME NEW p \in Projects, ServeDelete(p)
      PROVE  SyncInv'
  <2>1. PICK d \in drain :
          /\ cloud' = [cloud EXCEPT ![p][d.item.key] = Absent]
          /\ drain' = {[d EXCEPT !.served = {p}]}
    BY <1>6 DEF ServeDelete, deleteAgentSkill
  <2>2. d \in Drain /\ d.item.key \in SkillKeys
    BY <1>0 DEF Drain, Item
  <2>3. [d EXCEPT !.served = {p}] \in Drain
    BY <2>2 DEF Drain
  <2>4. cloud' \in [Projects -> [SkillKeys -> Stored]]
    BY <1>0, <2>1, <2>2
  <2> QED BY <1>6, <2>1, <2>3, <2>4 DEF ServeDelete, TypeOK, GoodQueue
<1> QED BY <1>1, <1>2, <1>3, <1>4, <1>5, <1>6

\* The drain loop ends its item.
LEMMA OutcomeTypes ==
  ASSUME SyncInv,
         \/ RetireDone \/ DeleteReturn \/ UploadReturn \/ DiskShifted
         \/ \E permanent \in BOOLEAN : RequestFail(permanent)
  PROVE  SyncInv'
<1> USE DEF SyncInv, fileVars, cloudVars, bindVars
<1>0. /\ drain \subseteq Drain /\ bound \in Projects /\ Absent \in Stored
      /\ claims \in [Projects -> [SkillKeys -> Stored]]
      /\ lastPushedHash \in [SkillKeys -> Stored]
  BY DEF TypeOK, Stored
<1>1. CASE RetireDone
  <2>1. GoodQueue(items')
    BY <1>1, DoneGood DEF RetireDone
  <2>2. lastPushedHash' \in [SkillKeys -> Stored]
    BY <1>0, <1>1 DEF RetireDone
  <2> QED BY <1>1, <2>1, <2>2 DEF RetireDone, TypeOK, GoodQueue
<1>2. CASE DeleteReturn
  <2>1. PICK d \in drain :
          /\ claims' = [claims EXCEPT ![d.item.project][d.item.key] = Absent]
          /\ \/ /\ lastPushedHash' = [lastPushedHash EXCEPT ![d.item.key] = Absent]
                /\ items' = markDoneIfVersion(items, d.item)
             \/ /\ items' = EnqueuedIfChanged(markDoneIfVersion(items, d.item), d.item.key)
                /\ UNCHANGED lastPushedHash
    BY <1>2 DEF DeleteReturn, removeSkillProjectionClaim
  <2>2. d.item.key \in SkillKeys /\ d.item.project \in Projects
    BY <1>0 DEF Drain, Item
  <2>3. GoodQueue(items')
    BY <2>1, <2>2, DoneGood, IfChangedGood
  <2>4. claims' \in [Projects -> [SkillKeys -> Stored]]
    BY <1>0, <2>1, <2>2
  <2>5. lastPushedHash' \in [SkillKeys -> Stored]
    BY <1>0, <2>1, <2>2
  <2> QED BY <1>2, <2>3, <2>4, <2>5 DEF DeleteReturn, TypeOK, GoodQueue
<1>3. CASE UploadReturn
  <2>1. PICK d \in drain :
          /\ lastPushedHash' = [lastPushedHash EXCEPT ![d.item.key] = d.snap]
          /\ claims' = [claims EXCEPT ![bound][d.item.key] = d.snap]
          /\ items' = markDoneIfVersion(items, d.item)
    BY <1>3 DEF UploadReturn, recordSkillProjectionClaim
  <2>2. d.item.key \in SkillKeys /\ d.snap \in Stored
    BY <1>0 DEF Drain, Item
  <2>3. GoodQueue(items')
    BY <2>1, DoneGood
  <2>4. claims' \in [Projects -> [SkillKeys -> Stored]]
    BY <1>0, <2>1, <2>2
  <2>5. lastPushedHash' \in [SkillKeys -> Stored]
    BY <1>0, <2>1, <2>2
  <2> QED BY <1>3, <2>3, <2>4, <2>5 DEF UploadReturn, TypeOK, GoodQueue
<1>4. CASE DiskShifted
  <2>1. GoodQueue(items')
    BY <1>4, ErrorGood DEF DiskShifted
  <2> QED BY <1>4, <2>1 DEF DiskShifted, TypeOK, GoodQueue
<1>5. ASSUME NEW permanent \in BOOLEAN, RequestFail(permanent)
      PROVE  SyncInv'
  <2>1. GoodQueue(items') /\ budget' \in [{"edits", "reassigns", "faults"} -> Nat]
    BY <1>5, ErrorGood, SpendType DEF RequestFail
  <2> QED BY <1>5, <2>1 DEF RequestFail, TypeOK, GoodQueue
<1> QED BY <1>1, <1>2, <1>3, <1>4, <1>5

\* Bindings come and go, the queue is written, the process crashes.
LEMMA LifeTypes ==
  ASSUME SyncInv, Prepare \/ ScopeAbort \/ ScopeJoined \/ Flush \/ Crash
  PROVE  SyncInv'
<1> USE DEF SyncInv, fileVars, cloudVars, bindVars
<1>1. CASE Prepare
  <2>1. ReconOf(agentProject, claims[agentProject], {}, FALSE) \in Recon
    BY ReconOfType
  <2> QED BY <1>1, <2>1 DEF Prepare, TypeOK, GoodQueue
<1>2. CASE ScopeAbort
  <2>1. budget' \in [{"edits", "reassigns", "faults"} -> Nat]
    BY <1>2, SpendType DEF ScopeAbort, TypeOK
  <2> QED BY <1>2, <2>1 DEF ScopeAbort, TypeOK, GoodQueue
<1>3. CASE ScopeJoined
  BY <1>3 DEF ScopeJoined, TypeOK, GoodQueue
<1>4. CASE Flush
  BY <1>4 DEF Flush, TypeOK, GoodQueue
<1>5. CASE Crash
  <2>1. budget' \in [{"edits", "reassigns", "faults"} -> Nat]
    BY <1>5, SpendType DEF Crash
  <2>2. NoHash \in [SkillKeys -> Stored]
    BY DEF NoHash, Stored
  <2> QED BY <1>5, <2>1, <2>2 DEF Crash, TypeOK, GoodQueue
<1> QED BY <1>1, <1>2, <1>3, <1>4, <1>5

\* Every step keeps the type invariant and one item per key.
LEMMA NextSyncInv == SyncInv /\ [Next]_vars => SyncInv'
<1> SUFFICES ASSUME SyncInv, [Next]_vars PROVE SyncInv'
  OBVIOUS
<1>1. CASE UNCHANGED vars
  BY <1>1 DEF SyncInv, TypeOK, GoodQueue, vars, fileVars, cloudVars, bindVars
<1>2. CASE Next
  BY <1>2, WorldTypes, ScanTypes, ReconcileTypes, DrainTypes, OutcomeTypes, LifeTypes DEF Next
<1> QED BY <1>1, <1>2

\* Every reachable state is well typed, whatever the files, the server and the
\* life of the binding do to the daemon.
THEOREM SyncTypeCorrect == Spec => []TypeOK
<1>1. SyncInv => TypeOK
  BY DEF SyncInv
<1> QED BY <1>1, InitSyncInv, NextSyncInv, PTL DEF Spec

-----------------------------------------------------------------------------
(***************************************************************************)
(* A claim is the only durable memory of a row in an old Project.          *)
(***************************************************************************)

\* A delete the server has answered for is one the item asked for, and its row is
\* gone: nothing uploads while the item is in hand.  Only an upload has a
\* snapshot, and what is deleted or uploaded has no old claim left.
RowGone(d, rows) ==
  /\ d.step \in {"upload", "delete"} => d.todo = {}
  /\ d.step # "upload" =>
       /\ d.snap = Absent
       /\ \A p \in d.served :
            /\ p \in d.todo \/ (d.step = "delete" /\ p = d.item.project)
            /\ rows[p][d.item.key] = Absent

ServedInv == \A d \in drain : RowGone(d, cloud)

\* No delete was served at first.
LEMMA InitServedInv == Init => ServedInv
BY DEF Init, ServedInv

\* Between the server's answer and its receipt no step brings the row back.
LEMMA NextServedInv == SyncInv /\ ServedInv /\ [Next]_vars => ServedInv'
<1> SUFFICES ASSUME SyncInv, ServedInv, [Next]_vars PROVE ServedInv'
  OBVIOUS
<1> USE DEF fileVars, cloudVars, bindVars
<1>0. /\ drain \subseteq Drain /\ cloud \in [Projects -> [SkillKeys -> Stored]]
  BY DEF SyncInv, TypeOK
<1>1. CASE UNCHANGED <<drain, cloud>>
  BY <1>1 DEF ServedInv
<1>2. CASE drain' = {}
  BY <1>2 DEF ServedInv
<1>3. CASE DrainPeek
  <2> DEFINE it == Head(items)
             owned == it.key \in materialized
             todo == ClaimProjects(it.key) \ (IF owned THEN {} ELSE {bound})
             step == IF owned THEN "retire" ELSE StepOf(it, todo)
             d == [item |-> it, step |-> step, todo |-> todo, snap |-> Absent, served |-> {}]
  <2>1. step \in {"upload", "delete"} => todo = {}
    BY StepOfType
  <2>2. (drain' = drain \/ drain' = {d}) /\ cloud' = cloud
    BY <1>3 DEF DrainPeek
  <2> HIDE DEF it, owned, todo, step
  <2>3. RowGone(d, cloud)
    BY <2>1 DEF RowGone
  <2> HIDE DEF d
  <2> QED BY <2>2, <2>3 DEF ServedInv
<1>4. CASE CleanReturn
  <2>1. PICK d \in drain : \E p \in d.served : p \in d.todo /\
          drain' = {[d EXCEPT !.todo = @ \ {p}, !.served = {},
                              !.step = IF @ = "retire" THEN @ ELSE StepOf(d.item, d.todo \ {p})]}
    BY <1>4 DEF CleanReturn
  <2>2. PICK p \in d.served : p \in d.todo /\
          drain' = {[d EXCEPT !.todo = d.todo \ {p}, !.served = {},
                              !.step = IF d.step = "retire" THEN d.step
                                       ELSE StepOf(d.item, d.todo \ {p})]}
    BY <2>1
  <2> DEFINE step == IF d.step = "retire" THEN d.step ELSE StepOf(d.item, d.todo \ {p})
             e == [d EXCEPT !.todo = d.todo \ {p}, !.served = {}, !.step = step]
  <2>3. d \in Drain /\ RowGone(d, cloud) /\ p \in d.todo
    BY <1>0, <2>2 DEF ServedInv
  <2>4. d.step \notin {"upload", "delete"} /\ d.snap = Absent
    BY <2>3 DEF RowGone
  <2>5. step \in {"retire", "clean", "delete", "upload"}
        /\ (step \in {"upload", "delete"} => d.todo \ {p} = {})
    BY StepOfType
  <2> HIDE DEF step
  <2>6. e.step = step /\ e.snap = d.snap /\ e.served = {} /\ e.todo = d.todo \ {p}
    BY <2>3 DEF Drain
  <2> HIDE DEF e
  <2>7. RowGone(e, cloud')
    BY <2>4, <2>5, <2>6 DEF RowGone
  <2>8. drain' = {e}
    BY <2>2 DEF e, step
  <2> QED BY <2>7, <2>8 DEF ServedInv
<1>5. CASE Snapshot
  <2>1. PICK d \in drain : d.step = "upload" /\ drain' = {[d EXCEPT !.snap = local[d.item.key]]}
    BY <1>5 DEF Snapshot
  <2>2. d \in Drain /\ RowGone(d, cloud)
    BY <1>0 DEF ServedInv
  <2> DEFINE e == [d EXCEPT !.snap = local[d.item.key]]
  <2>3. e.step = d.step /\ e.todo = d.todo
    BY <2>2 DEF Drain
  <2> HIDE DEF e
  <2>4. RowGone(e, cloud')
    BY <2>1, <2>2, <2>3 DEF RowGone
  <2>5. drain' = {e}
    BY <2>1 DEF e
  <2> QED BY <2>4, <2>5 DEF ServedInv
<1>6. ASSUME NEW p \in Projects, ServeDelete(p)
      PROVE  ServedInv'
  <2>1. PICK d \in drain :
          /\ p \in d.todo \/ (d.step = "delete" /\ p = d.item.project)
          /\ cloud' = [cloud EXCEPT ![p][d.item.key] = Absent]
          /\ drain' = {[d EXCEPT !.served = {p}]}
    BY <1>6 DEF ServeDelete, deleteAgentSkill
  <2>2. d \in Drain /\ RowGone(d, cloud) /\ d.item.key \in SkillKeys
    BY <1>0 DEF ServedInv, Drain, Item
  <2>3. cloud'[p][d.item.key] = Absent
    BY <1>0, <2>1, <2>2
  <2> DEFINE e == [d EXCEPT !.served = {p}]
  <2>4. e.step = d.step /\ e.todo = d.todo /\ e.snap = d.snap /\ e.item = d.item /\ e.served = {p}
    BY <2>2 DEF Drain
  <2> HIDE DEF e
  <2>5. RowGone(e, cloud')
    BY <2>1, <2>2, <2>3, <2>4 DEF RowGone
  <2>6. drain' = {e}
    BY <2>1 DEF e
  <2> QED BY <2>5, <2>6 DEF ServedInv
\* Only an upload has a snapshot.
<1>7. CASE ServeUpload
  <2>1. PICK d \in drain : d.snap # Absent /\ drain' = {[d EXCEPT !.served = {agentProject}]}
    BY <1>7 DEF ServeUpload
  <2>2. d \in Drain /\ RowGone(d, cloud)
    BY <1>0 DEF ServedInv
  <2> DEFINE e == [d EXCEPT !.served = {agentProject}]
  <2>3. e.step = d.step /\ e.todo = d.todo
    BY <2>2 DEF Drain
  <2> HIDE DEF e
  <2>4. RowGone(e, cloud')
    BY <2>1, <2>2, <2>3 DEF RowGone
  <2>5. drain' = {e}
    BY <2>1 DEF e
  <2> QED BY <2>4, <2>5 DEF ServedInv
<1>8. ASSUME NEW k \in SkillKeys,
             \/ \E c \in Stored \ {Shared} : Edit(k, c)
             \/ Materialize(k) \/ Dematerialize(k) \/ ScanBegin(k) \/ ScanEnd(k) \/ ReconcileKey(k)
      PROVE  ServedInv'
  <2>1. UNCHANGED <<drain, cloud>>
    BY <1>8 DEF Edit, Materialize, Dematerialize, ScanBegin, ScanEnd, ReconcileKey
  <2> QED BY <1>1, <2>1
<1>9. CASE (\E p \in Projects : Reassign(p)) \/ (\E listing \in BOOLEAN : ReconcileBegin(listing))
  BY <1>1, <1>9 DEF Reassign, ReconcileBegin
<1>10. CASE ReconcileHashed \/ ReconcileEnd \/ Prepare \/ ScopeAbort \/ ScopeJoined \/ Flush
  <2>1. UNCHANGED <<drain, cloud>>
    BY <1>10 DEF ReconcileHashed, ReconcileEnd, Prepare, ScopeAbort, ScopeJoined, Flush
  <2> QED BY <1>1, <2>1
<1>11. CASE RetireDone \/ DeleteReturn \/ UploadReturn \/ DiskShifted \/ DrainAbandon \/ Crash
  BY <1>2, <1>11 DEF RetireDone, DeleteReturn, UploadReturn, DiskShifted, DrainAbandon, Crash
<1>12. CASE \E permanent \in BOOLEAN : RequestFail(permanent)
  BY <1>2, <1>12 DEF RequestFail
<1>13. CASE UNCHANGED vars
  BY <1>1, <1>13 DEF vars
<1>14. CASE Next
  BY <1>3, <1>4, <1>5, <1>6, <1>7, <1>8, <1>9, <1>10, <1>11, <1>12, <1>14, Zenon DEF Next
<1> QED BY <1>13, <1>14

\* The step that gives up a claim is the reply to the delete of its row.
LEMMA ReleasedAfterRow ==
  ASSUME SyncInv, ServedInv, [Next]_vars,
         NEW p \in Projects, NEW k \in SkillKeys, claims[p][k] # Absent, claims'[p][k] = Absent
  PROVE  cloud'[p][k] = Absent
<1> USE DEF fileVars, cloudVars, bindVars
<1>0. /\ drain \subseteq Drain /\ bound \in Projects
      /\ claims \in [Projects -> [SkillKeys -> Stored]]
  BY DEF SyncInv, TypeOK
<1>1. claims' # claims
  OBVIOUS
<1>2. CASE CleanReturn
  <2>1. PICK d \in drain : \E q \in d.served :
          /\ q \in d.todo
          /\ claims' = [claims EXCEPT ![q][d.item.key] = Absent]
          /\ cloud' = cloud
    BY <1>2 DEF CleanReturn, removeSkillProjectionClaim
  <2>2. PICK q \in d.served :
          /\ q \in d.todo
          /\ claims' = [claims EXCEPT ![q][d.item.key] = Absent]
          /\ cloud' = cloud
    BY <2>1
  <2>3. d \in Drain /\ RowGone(d, cloud) /\ d.item.key \in SkillKeys /\ q \in Projects
    BY <1>0 DEF ServedInv, Drain, Item
  <2>4. p = q /\ k = d.item.key
    BY <1>0, <2>2, <2>3
  <2>5. cloud[q][d.item.key] = Absent
    BY <2>2, <2>3 DEF RowGone
  <2> QED BY <2>2, <2>4, <2>5
<1>3. CASE DeleteReturn
  <2>1. PICK d \in drain :
          /\ d.step = "delete" /\ d.served # {}
          /\ claims' = [claims EXCEPT ![d.item.project][d.item.key] = Absent]
          /\ cloud' = cloud
    BY <1>3 DEF DeleteReturn, removeSkillProjectionClaim
  <2>2. d \in Drain /\ RowGone(d, cloud) /\ d.item.key \in SkillKeys /\ d.item.project \in Projects
    BY <1>0 DEF ServedInv, Drain, Item
  <2>3. p = d.item.project /\ k = d.item.key
    BY <1>0, <2>1, <2>2
  <2>4. cloud[d.item.project][d.item.key] = Absent
    BY <2>1, <2>2 DEF RowGone
  <2> QED BY <2>1, <2>3, <2>4
\* An upload records the hash of a snapshot.
<1>4. CASE UploadReturn
  <2>1. PICK d \in drain :
          /\ d.snap # Absent
          /\ claims' = [claims EXCEPT ![bound][d.item.key] = d.snap]
    BY <1>4 DEF UploadReturn, recordSkillProjectionClaim
  <2>2. d.item.key \in SkillKeys
    BY <1>0 DEF Drain, Item
  <2> QED BY <1>0, <2>1, <2>2
<1>5. CASE ~(CleanReturn \/ DeleteReturn \/ UploadReturn)
  BY <1>1, <1>5 DEF Next, vars, Edit, Materialize, Dematerialize, Reassign, ScanBegin, ScanEnd,
     ReconcileBegin, ReconcileKey, ReconcileHashed, ReconcileEnd, DrainPeek, ServeDelete, RetireDone,
     Snapshot, ServeUpload, DiskShifted, DrainAbandon, RequestFail, Prepare, ScopeAbort, ScopeJoined,
     Flush, Crash
<1> QED BY <1>2, <1>3, <1>4, <1>5

\* "Exact claims remain the sole deletion authority": the daemon gives a claim up
\* only in a state where the row it stands for is gone from that Project.
THEOREM ReleasedOnlyAfterRow == Spec => ClaimReleasedAfterRow
<1> DEFINE A == \A p \in Projects, k \in SkillKeys :
                  claims[p][k] # Absent /\ claims'[p][k] = Absent => cloud'[p][k] = Absent
<1>1. SyncInv /\ ServedInv /\ [Next]_vars => [A]_vars
  <2> SUFFICES ASSUME SyncInv, ServedInv, [Next]_vars PROVE [A]_vars
    OBVIOUS
  <2>1. A
    BY ReleasedAfterRow
  <2> QED BY <2>1
<1>2. ClaimReleasedAfterRow <=> [][A]_vars
  BY DEF ClaimReleasedAfterRow
<1> HIDE DEF A
<1> QED BY <1>1, <1>2, InitSyncInv, NextSyncInv, InitServedInv, NextServedInv, PTL DEF Spec
=============================================================================
