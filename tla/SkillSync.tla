------------------------------ MODULE SkillSync ------------------------------
(***************************************************************************)
(* The daemon's projection of local skills into the cloud (packages/cli/   *)
(* src/serve/sync-engine.ts): the watcher, the periodic reconcile, the     *)
(* drain loop, the ledger of projection claims (lib/skills-lock.ts) and    *)
(* the cloud rows the Agent routes of the backend keep.                    *)
(*                                                                         *)
(* The user edits files at any time.  Every read of the files, every       *)
(* request and every reply is a step of its own; the synchronous stretch   *)
(* between two awaits is one action.  A request may fail before or after   *)
(* the server has applied it.  The binding of the skill module is retired  *)
(* when the Agent's Project changes, and the process may crash: the ledger *)
(* survives, the queue comes back as last written.                         *)
(*                                                                         *)
(* The version counter of the queue only tells whether an item was         *)
(* replaced while the drain loop held it, so a fresh version is the least  *)
(* one the drain loop does not hold.                                       *)
(***************************************************************************)
EXTENDS QueueOps

CONSTANTS Projects,     \* Projects the Agent can be assigned to
          FirstProject, \* the one it is registered with
          Absent,       \* no folder, no row, no claim
          Reserved,     \* a folder shouldIgnoreUserSkill recognises
          Shared,       \* bytes a Project materializes into a folder
          MaxAttempts,  \* MAX_QUEUE_ATTEMPTS
          MaxEdits,     \* bound: changes of the local files
          MaxReassigns, \* bound: changes of the Agent's Project
          MaxFaults     \* bound: failed requests, scope aborts and crashes

ASSUME SkillSyncAssumption ==
  /\ SessionKeys = {} /\ Cardinality(SkillKeys) <= MaxItems
  /\ {Absent, Reserved, Shared} \cap Nat = {} /\ Cardinality({Absent, Reserved, Shared}) = 3
  /\ MaxAttempts \in Nat \ {0}
  /\ FirstProject \in Projects
  /\ {MaxEdits, MaxReassigns, MaxFaults} \subseteq Nat

VARIABLES
  local,         \* content of each skill folder
  materialized,  \* keys whose folder a Project owns (ProjectSkillMaterialization)
  agentProject,  \* default_project_id of the Agent on the server
  cloud,         \* cloud[p][k]: the Agent's active row of skill k in Project p
  claims,        \* claims[p][k]: hash of the exact projection claim on disk
  slot,          \* state of the skill SyncModule
  bound,         \* the Project the binding captured
  lastPushedHash,\* the binding's in-memory claims
  items, saved,  \* the queue, and the queue as last written to disk
  dirty,         \* keys with a watch event not yet handled
  scan,          \* scan[k]: {} or the hash enqueueIfChanged is about to compare
  recon,         \* {} or the reconcile in progress
  drain,         \* {} or the item being processed
  budget         \* what is left of each bound

fileVars == <<local, materialized>>
cloudVars == <<agentProject, cloud>>
bindVars == <<slot, bound, lastPushedHash>>
vars == <<fileVars, cloudVars, claims, bindVars, items, saved, dirty, scan, recon, drain, budget>>

\* Contents are numbered in the order of their first appearance.
Hashes == 1 .. MaxEdits
Stored == Hashes \cup {Shared, Reserved, Absent}
Item == [key : SkillKeys, op : {"push", "delete"}, hash : Stored, project : Projects,
         version : Nat, attempts : Nat]

\* Read between the awaits of reconcileAgentSkillProjection.
Recon == [listed : SUBSET SkillKeys, evidence : SUBSET SkillKeys, staleClaim : SUBSET SkillKeys,
          todo : SUBSET SkillKeys, hashed : SUBSET (SkillKeys \X Stored), listing : BOOLEAN]

\* Read between the awaits of processQueueItem: what is being done ("retire" the
\* claims of a Project-owned key, "clean" old claims, "delete" the item's row, or
\* "upload"), the Projects still to be cleaned, the first snapshot, and the
\* Project of the request the server has applied but not answered.
Drain == [item : Item, step : {"retire", "clean", "delete", "upload"}, todo : SUBSET Projects,
          snap : Stored, served : SUBSET Projects]

TypeOK ==
  /\ local \in [SkillKeys -> Stored]
  /\ materialized \subseteq SkillKeys
  /\ agentProject \in Projects
  /\ cloud \in [Projects -> [SkillKeys -> Stored]]
  /\ claims \in [Projects -> [SkillKeys -> Stored]]
  /\ slot \in {"down", "preparing", "ready", "draining"}
  /\ bound \in Projects
  /\ lastPushedHash \in [SkillKeys -> Stored]
  /\ items \in Seq(Item) /\ saved \in Seq(Item)
  /\ dirty \subseteq SkillKeys
  /\ scan \in [SkillKeys -> SUBSET Stored]
  /\ recon \subseteq Recon /\ drain \subseteq Drain
  /\ budget \in [{"edits", "reassigns", "faults"} -> Nat]

NoHash == [k \in SkillKeys |-> Absent]

Init ==
  /\ local = NoHash /\ materialized = {}
  /\ agentProject = FirstProject
  /\ cloud = [p \in Projects |-> NoHash] /\ claims = [p \in Projects |-> NoHash]
  /\ slot = "down" /\ bound = agentProject /\ lastPushedHash = NoHash
  /\ items = <<>> /\ saved = <<>>
  /\ dirty = {} /\ scan = [k \in SkillKeys |-> {}] /\ recon = {} /\ drain = {}
  /\ budget = [edits |-> MaxEdits, reassigns |-> MaxReassigns, faults |-> MaxFaults]

Spend(what) == budget[what] > 0 /\ budget' = [budget EXCEPT ![what] = @ - 1]

-----------------------------------------------------------------------------
(***************************************************************************)
(* The world around the daemon.                                            *)
(***************************************************************************)

\* The watcher runs while the binding is ready: a change makes an event, which
\* fs.watch may drop.
Touch(k) == \/ slot = "ready" /\ dirty' = dirty \cup {k}
            \/ UNCHANGED dirty

\* The user writes, removes, recreates or reserves a skill folder.
Edit(k, content) ==
  /\ k \notin materialized /\ content # local[k]
  /\ content \in Hashes => content + budget["edits"] <= MaxEdits + 1
  /\ Spend("edits")
  /\ local' = [local EXCEPT ![k] = content]
  /\ Touch(k)
  /\ UNCHANGED <<materialized, cloudVars, claims, bindVars, items, saved, scan, recon, drain>>

\* commitProjectSkillMaterialization: the receipt is recorded, then the bytes land.
Materialize(k) ==
  /\ k \notin materialized
  /\ Spend("edits")
  /\ materialized' = materialized \cup {k}
  /\ local' = [local EXCEPT ![k] = Shared]
  /\ Touch(k)
  /\ UNCHANGED <<cloudVars, claims, bindVars, items, saved, scan, recon, drain>>

\* The Project no longer delivers the skill: bytes and receipt go.
Dematerialize(k) ==
  /\ k \in materialized
  /\ Spend("edits")
  /\ materialized' = materialized \ {k}
  /\ local' = [local EXCEPT ![k] = Absent]
  /\ Touch(k)
  /\ UNCHANGED <<cloudVars, claims, bindVars, items, saved, scan, recon, drain>>

Reassign(p) ==
  /\ p # agentProject
  /\ Spend("reassigns")
  /\ agentProject' = p
  /\ UNCHANGED <<fileVars, cloud, claims, bindVars, items, saved, dirty, scan, recon, drain>>

-----------------------------------------------------------------------------
(***************************************************************************)
(* Enqueueing.                                                             *)
(***************************************************************************)

FreshVersion(k) ==
  IF \E d \in drain : d.item.key = k /\ d.item.version = 0 THEN 1 ELSE 0

\* Mutant: the item is queued without a version.
OpUnstamped(op, k, h, p) == [key |-> k, op |-> op, hash |-> h, project |-> p, attempts |-> 0]

Op(op, k, h, p) == [key |-> k, op |-> op, hash |-> h, project |-> p,
                    version |-> FreshVersion(k), attempts |-> 0]

Push(s, k, h) == Enqueued(s, Op("push", k, h, bound))
Delete(s, k, p) == Enqueued(s, Op("delete", k, Absent, p))

ClaimProjects(k) == {p \in Projects : claims[p][k] # Absent}

PendingOf(s, k) == {s[i] : i \in {j \in DOMAIN s : s[j].key = k}}

\* enqueueMaterializedSkillClaimCleanup: claims of a key a Project owns are retired.
CleanupEnqueued(s, k) ==
  IF ClaimProjects(k) = {} \/ \E it \in PendingOf(s, k) : it.op = "delete"
  THEN s ELSE Delete(s, k, CHOOSE p \in ClaimProjects(k) : TRUE)

Unprojectable(k) == local[k] \in {Absent, Reserved}

\* enqueueIfChanged when nothing has to be hashed.
ReportAbsence(s, k) ==
  IF lastPushedHash[k] = Absent THEN s ELSE Delete(s, k, bound)

PushIfChanged(s, k, h) == IF lastPushedHash[k] = h THEN s ELSE Push(s, k, h)

\* enqueueIfChanged as the drain loop awaits it after a handoff.
EnqueuedIfChanged(s, k) ==
  IF k \in materialized THEN CleanupEnqueued(s, k)
  ELSE IF Unprojectable(k) THEN ReportAbsence(s, k)
  ELSE PushIfChanged(s, k, local[k])

\* The watcher calls enqueueIfChanged: everything up to computeSkillFolderHash.
ScanBegin(k) ==
  /\ slot = "ready" /\ k \in dirty /\ scan[k] = {}
  /\ dirty' = dirty \ {k}
  /\ \/ /\ k \in materialized \/ Unprojectable(k)
        /\ items' = EnqueuedIfChanged(items, k)
        /\ UNCHANGED scan
     \/ /\ k \notin materialized /\ ~Unprojectable(k)
        /\ scan' = [scan EXCEPT ![k] = {local[k]}]
        /\ UNCHANGED items
  /\ UNCHANGED <<fileVars, cloudVars, claims, bindVars, saved, recon, drain, budget>>

\* ... and everything after it; the folder may have vanished under the hash.
ScanEnd(k) ==
  /\ slot \in {"ready", "draining"}
  /\ \E h \in scan[k] :
       \/ items' = PushIfChanged(items, k, h)
       \/ local[k] = Absent /\ items' = ReportAbsence(items, k)
  /\ scan' = [scan EXCEPT ![k] = {}]
  /\ UNCHANGED <<fileVars, cloudVars, claims, bindVars, saved, dirty, recon, drain, budget>>

-----------------------------------------------------------------------------
(***************************************************************************)
(* reconcileAgentSkillProjection: at boot, on an inventory change, on an   *)
(* SSE invalidation and every five minutes.                                *)
(***************************************************************************)

Claimed == {k \in SkillKeys : ClaimProjects(k) # {}}

\* Mutant: the complete listing of the Project is no evidence.
ReconOfLedger(p, pushed, trusted, listing) ==
  LET listed == {k \in SkillKeys : ~Unprojectable(k)}
      evidence == Claimed \cup {k \in SkillKeys : pushed[k] # Absent}
  IN [listed |-> listed, evidence |-> evidence,
      staleClaim |-> {k \in SkillKeys : ClaimProjects(k) \ {p} # {}},
      todo |-> listed \cup evidence, hashed |-> {}, listing |-> listing]

\* listKeys and the ledger are read once, for Project p and its claims `pushed`;
\* a complete listing of p, or an SSE event, adds the keys it names as evidence.
ReconOf(p, pushed, trusted, listing) ==
  LET listed == {k \in SkillKeys : ~Unprojectable(k)}
      evidence == Claimed \cup trusted \cup {k \in SkillKeys : pushed[k] # Absent}
  IN [listed |-> listed, evidence |-> evidence,
      staleClaim |-> {k \in SkillKeys : ClaimProjects(k) \ {p} # {}},
      todo |-> listed \cup evidence, hashed |-> {}, listing |-> listing]

\* In a ready binding nothing follows the last key; at boot the listing does.
Going(r) == IF slot = "ready" /\ r.todo = {} /\ r.hashed = {} THEN {} ELSE {r}

Remote(p) == {k \in SkillKeys : cloud[p][k] # Absent}

\* A local scan, or one that trusts a complete listing of the Project.
ReconcileBegin(listing) ==
  /\ slot = "ready" /\ recon = {}
  /\ recon' = Going(ReconOf(bound, lastPushedHash, IF listing THEN Remote(bound) ELSE {}, listing))
  /\ UNCHANGED <<fileVars, cloudVars, claims, bindVars, items, saved, dirty, scan, drain, budget>>

\* enqueueAbsentSkill: claims is the live map, the other evidence was read before.
AbsentEnqueued(r, k) ==
  IF /\ lastPushedHash[k] # Absent \/ k \in r.evidence
     /\ ~\E it \in PendingOf(items, k) : it.op = "delete" /\ it.project = bound
  THEN Delete(items, k, bound) ELSE items

\* One key: retired, reported absent, or hashed.
ReconcileKey(k) ==
  /\ slot \in {"preparing", "ready"}
  /\ \E r \in recon :
       /\ k \in r.todo /\ r.hashed = {}
       /\ LET next(h) == Going([r EXCEPT !.todo = @ \ {k}, !.hashed = h])
          IN \/ /\ k \in materialized
                /\ items' = CleanupEnqueued(items, k)
                /\ recon' = next({})
             \/ /\ k \notin materialized
                /\ k \notin r.listed \/ Unprojectable(k)
                /\ items' = AbsentEnqueued(r, k)
                /\ recon' = next({})
             \/ /\ k \notin materialized /\ k \in r.listed /\ ~Unprojectable(k)
                /\ recon' = next({<<k, local[k]>>})
                /\ UNCHANGED items
  /\ UNCHANGED <<fileVars, cloudVars, claims, bindVars, saved, dirty, scan, drain, budget>>

\* A matching push is pending, or the claim already covers the hash.
NothingToPush(r, k, h) ==
  \/ \E it \in PendingOf(items, k) : it.op = "push" /\ it.project = bound /\ it.hash = h
  \/ /\ lastPushedHash[k] = h
     /\ \A it \in PendingOf(items, k) : it.op # "delete"
     /\ k \notin r.staleClaim

ReconcileHashed ==
  /\ slot \in {"preparing", "ready"}
  /\ \E r \in recon : \E kh \in r.hashed :
       /\ items' = IF NothingToPush(r, kh[1], kh[2]) THEN items ELSE Push(items, kh[1], kh[2])
       /\ recon' = Going([r EXCEPT !.hashed = {}])
  /\ UNCHANGED <<fileVars, cloudVars, claims, bindVars, saved, dirty, scan, drain, budget>>

\* The last key is done.  At boot the local scan is followed by one that trusts
\* the listing, unless the listing fails; then the binding is published as ready.
ReconcileEnd ==
  /\ \E r \in recon :
       /\ r.todo = {} /\ r.hashed = {}
       /\ \/ /\ slot = "preparing" /\ ~r.listing
             /\ recon' = {ReconOf(bound, lastPushedHash, Remote(bound), TRUE)}
             /\ UNCHANGED slot
          \/ recon' = {} /\ slot' = "ready"
  /\ UNCHANGED <<fileVars, cloudVars, claims, bound, lastPushedHash, items, saved, dirty, scan,
                 drain, budget>>

-----------------------------------------------------------------------------
(***************************************************************************)
(* drainQueueLoop and processQueueItem for one skill item at a time.       *)
(***************************************************************************)

\* With no old claim left the item's row is deleted when the item asks for it, was
\* stamped for another Project, or the folder is reserved now; else it is uploaded.
StepOf(it, todo) ==
  IF todo # {} THEN "clean"
  ELSE IF it.op = "delete" \/ it.project # bound \/ local[it.key] = Reserved
  THEN "delete" ELSE "upload"

\* Mutant: claims of old Projects are not cleaned before an upload.
DrainPeekKeepsOldClaims ==
  /\ slot = "ready" /\ drain = {} /\ items # <<>>
  /\ drain' = {[item |-> Head(items), step |-> StepOf(Head(items), {}), todo |-> {},
                snap |-> Absent, served |-> {}]}
  /\ UNCHANGED <<fileVars, cloudVars, claims, bindVars, items, saved, dirty, scan, recon, budget>>

\* peek, acquire, and processQueueItem up to its first await.
DrainPeek ==
  /\ slot = "ready" /\ drain = {} /\ items # <<>>
  /\ LET it == Head(items)
         owned == it.key \in materialized
         todo == ClaimProjects(it.key) \ (IF owned THEN {} ELSE {bound})
     IN IF owned /\ it.op = "push"
        THEN items' = markDoneIfVersion(items, it) /\ UNCHANGED drain
        ELSE /\ drain' = {[item |-> it, step |-> IF owned THEN "retire" ELSE StepOf(it, todo),
                           todo |-> todo, snap |-> Absent, served |-> {}]}
             /\ UNCHANGED items
  /\ UNCHANGED <<fileVars, cloudVars, claims, bindVars, saved, dirty, scan, recon, budget>>

\* Mutant: the Project is taken from the Agent row, as for an upload.
deleteFromAgentProject(p, k) == cloud' = [cloud EXCEPT ![agentProject][k] = Absent]

\* The server applies a DELETE for skill k in Project p (idempotent).
deleteAgentSkill(p, k) == cloud' = [cloud EXCEPT ![p][k] = Absent]

ServeDelete(p) ==
  /\ \E d \in drain :
       /\ d.served = {}
       /\ p \in d.todo \/ (d.step = "delete" /\ p = d.item.project)
       /\ deleteAgentSkill(p, d.item.key)
       /\ drain' = {[d EXCEPT !.served = {p}]}
  /\ UNCHANGED <<fileVars, agentProject, claims, bindVars, items, saved, dirty, scan, recon, budget>>

removeSkillProjectionClaim(p, k) == claims' = [claims EXCEPT ![p][k] = Absent]

\* The reply to the DELETE of a claim: drop the claim, go on with the next.
CleanReturn ==
  /\ slot = "ready"
  /\ \E d \in drain : \E p \in d.served :
       /\ p \in d.todo
       /\ removeSkillProjectionClaim(p, d.item.key)
       /\ drain' = {[d EXCEPT !.todo = @ \ {p}, !.served = {},
                              !.step = IF @ = "retire" THEN @ ELSE StepOf(d.item, d.todo \ {p})]}
  /\ UNCHANGED <<fileVars, cloudVars, bindVars, items, saved, dirty, scan, recon, budget>>

\* Every claim of a Project-owned key is retired.
RetireDone ==
  /\ slot = "ready"
  /\ \E d \in drain :
       /\ d.step = "retire" /\ d.todo = {}
       /\ lastPushedHash' = [lastPushedHash EXCEPT ![d.item.key] = Absent]
       /\ items' = markDoneIfVersion(items, d.item)
  /\ drain' = {}
  /\ UNCHANGED <<fileVars, cloudVars, claims, slot, bound, saved, dirty, scan, recon, budget>>

\* The reply to the item's own DELETE: drop the claim and the item, and after a
\* change of Project look at the folder again for the current one.
DeleteReturn ==
  /\ slot = "ready"
  /\ \E d \in drain :
       /\ d.step = "delete" /\ d.served # {}
       /\ removeSkillProjectionClaim(d.item.project, d.item.key)
       /\ IF d.item.project = bound
          THEN /\ lastPushedHash' = [lastPushedHash EXCEPT ![d.item.key] = Absent]
               /\ items' = markDoneIfVersion(items, d.item)
          ELSE /\ items' = EnqueuedIfChanged(markDoneIfVersion(items, d.item), d.item.key)
               /\ UNCHANGED lastPushedHash
  /\ drain' = {}
  /\ UNCHANGED <<fileVars, cloudVars, slot, bound, saved, dirty, scan, recon, budget>>

\* uploadSkillFromQueue: the first snapshot of the folder.
Snapshot ==
  /\ \E d \in drain :
       /\ d.step = "upload" /\ d.snap = Absent /\ local[d.item.key] # Absent
       /\ drain' = {[d EXCEPT !.snap = local[d.item.key]]}
  /\ UNCHANGED <<fileVars, cloudVars, claims, bindVars, items, saved, dirty, scan, recon, budget>>

\* The second snapshot agrees and the upload reaches the server, which takes the
\* Project from the Agent row and not from the request.
ServeUpload ==
  /\ \E d \in drain :
       /\ d.snap # Absent /\ d.served = {}
       /\ local[d.item.key] = d.snap
       /\ cloud' = [cloud EXCEPT ![agentProject][d.item.key] = d.snap]
       /\ drain' = {[d EXCEPT !.served = {agentProject}]}
  /\ UNCHANGED <<fileVars, agentProject, claims, bindVars, items, saved, dirty, scan, recon, budget>>

recordSkillProjectionClaim(p, k, h) == claims' = [claims EXCEPT ![p][k] = h]

\* The reply: remember the hash, record the claim, drop the item if it is still it.
UploadReturn ==
  /\ slot = "ready"
  /\ \E d \in drain :
       /\ d.snap # Absent /\ d.served # {}
       /\ lastPushedHash' = [lastPushedHash EXCEPT ![d.item.key] = d.snap]
       /\ recordSkillProjectionClaim(bound, d.item.key, d.snap)
       /\ items' = markDoneIfVersion(items, d.item)
  /\ drain' = {}
  /\ UNCHANGED <<fileVars, cloudVars, slot, bound, saved, dirty, scan, recon, budget>>

\* What an error does to the item: another attempt, or the end of it.
ItemsAfterError(d, permanent) ==
  LET bumped == bumpAttempts(items, d.item)
  IN IF permanent \/ d.item.attempts + 1 >= MaxAttempts
     THEN markDoneIfVersion(bumped, d.item) ELSE bumped

\* A request failed: the server rejected it for good, or it was lost before or
\* after the server applied it.
RequestFail(permanent) ==
  /\ slot = "ready"
  /\ Spend("faults")
  /\ \E d \in drain :
       /\ d.todo # {} \/ d.step = "delete" \/ d.snap # Absent
       /\ permanent => d.served = {}
       /\ items' = ItemsAfterError(d, permanent)
  /\ drain' = {}
  /\ UNCHANGED <<fileVars, cloudVars, claims, bindVars, saved, dirty, scan, recon>>

\* The folder is gone, or differs from the first snapshot.
DiskShifted ==
  /\ slot = "ready"
  /\ \E d \in drain :
       /\ d.step = "upload" /\ d.served = {}
       /\ IF d.snap = Absent THEN local[d.item.key] = Absent ELSE local[d.item.key] # d.snap
       /\ items' = ItemsAfterError(d, FALSE)
  /\ drain' = {}
  /\ UNCHANGED <<fileVars, cloudVars, claims, bindVars, saved, dirty, scan, recon, budget>>

\* The scope was aborted under the item: it stays in the queue untouched.
DrainAbandon ==
  /\ slot = "draining" /\ drain # {}
  /\ drain' = {}
  /\ UNCHANGED <<fileVars, cloudVars, claims, bindVars, items, saved, dirty, scan, recon, budget>>

-----------------------------------------------------------------------------
(***************************************************************************)
(* The life of the binding and of the process.                             *)
(***************************************************************************)

\* prepareSkillSync: capture the Project, load its claims, reconcile once.
Prepare ==
  /\ slot = "down"
  /\ slot' = "preparing" /\ bound' = agentProject
  /\ lastPushedHash' = claims[agentProject]
  /\ recon' = {ReconOf(agentProject, claims[agentProject], {}, FALSE)}
  /\ UNCHANGED <<fileVars, cloudVars, claims, items, saved, dirty, scan, drain, budget>>

\* refreshDefaultProjectIdLoop sees another Project, or a worker of the binding fails.
ScopeAbort ==
  /\ slot \in {"preparing", "ready"}
  /\ \/ slot = "ready" /\ agentProject # bound /\ UNCHANGED budget
     \/ Spend("faults")
  /\ slot' = "draining"
  /\ recon' = {}
  /\ UNCHANGED <<fileVars, cloudVars, claims, bound, lastPushedHash, items, saved, dirty, scan, drain>>

\* SyncScope.join: every scan and the lease of the drain loop have settled.
ScopeJoined ==
  /\ slot = "draining"
  /\ drain = {} /\ \A k \in SkillKeys : scan[k] = {}
  /\ slot' = "down" /\ dirty' = {}
  /\ UNCHANGED <<fileVars, cloudVars, claims, bound, lastPushedHash, items, saved, scan, recon,
                 drain, budget>>

\* flushPending has written queue.jsonl.  The file is read only after a crash,
\* so its writes are left out once no crash is to come.
Flush ==
  /\ budget["faults"] > 0
  /\ saved # items
  /\ saved' = items
  /\ UNCHANGED <<fileVars, cloudVars, claims, bindVars, items, dirty, scan, recon, drain, budget>>

Crash ==
  /\ Spend("faults")
  /\ items' = saved
  /\ slot' = "down" /\ lastPushedHash' = NoHash
  /\ dirty' = {} /\ scan' = [k \in SkillKeys |-> {}] /\ recon' = {} /\ drain' = {}
  /\ UNCHANGED <<fileVars, cloudVars, claims, bound, saved>>

Next ==
  \/ \E k \in SkillKeys :
       \/ \E c \in Stored \ {Shared} : Edit(k, c)
       \/ Materialize(k) \/ Dematerialize(k) \/ ScanBegin(k) \/ ScanEnd(k) \/ ReconcileKey(k)
  \/ \E p \in Projects : Reassign(p) \/ ServeDelete(p)
  \/ \E listing \in BOOLEAN : ReconcileBegin(listing)
  \/ ReconcileHashed \/ ReconcileEnd
  \/ DrainPeek \/ CleanReturn \/ RetireDone \/ DeleteReturn \/ Snapshot \/ ServeUpload
  \/ UploadReturn \/ DiskShifted \/ DrainAbandon
  \/ \E permanent \in BOOLEAN : RequestFail(permanent)
  \/ Prepare \/ ScopeAbort \/ ScopeJoined \/ Flush \/ Crash

Spec == Init /\ [][Next]_vars

\* Fairness: the watcher, the drain loop and the life of the binding do not all
\* stand still, a reconcile that has begun goes on, a request is answered in the
\* end (failures are what RequestFail spends), the listing of the periodic cycle
\* is taken again and again, and a changed Project is noticed.
ScanStep == \E k \in SkillKeys : ScanBegin(k) \/ ScanEnd(k)
ReconcileStep == ReconcileHashed \/ ReconcileEnd \/ \E k \in SkillKeys : ReconcileKey(k)
DrainStep ==
  \/ DrainPeek \/ CleanReturn \/ RetireDone \/ DeleteReturn \/ Snapshot \/ ServeUpload
  \/ UploadReturn \/ DiskShifted \/ DrainAbandon \/ \E p \in Projects : ServeDelete(p)
ScopeStep == Prepare \/ ScopeJoined \/ (ScopeAbort /\ UNCHANGED budget)

FairSpec ==
  /\ Spec
  /\ WF_vars(ScanStep \/ ScopeStep \/ DrainStep) /\ WF_vars(ReconcileStep)
  /\ SF_vars(ReconcileBegin(TRUE))

-----------------------------------------------------------------------------
(***************************************************************************)
(* Properties.                                                             *)
(***************************************************************************)

\* What the Agent's Project should hold of a key.
Desired(k) == IF k \in materialized \/ Unprojectable(k) THEN Absent ELSE local[k]

Converged ==
  /\ \A k \in SkillKeys \ materialized : cloud[agentProject][k] = Desired(k)
  /\ \A k \in SkillKeys, p \in Projects :
       claims[p][k] = IF p = agentProject THEN Desired(k) ELSE Absent
  /\ items = <<>>

\* The purpose of the daemon, whatever edits, lost watch events, failed requests,
\* lost replies, retired bindings, Project changes and crashes came before: once
\* they end, the rows and the claims of the Agent's Project become exactly the
\* local skills the Agent owns, every claim of another Project or of a key that a
\* Project owns is gone, and the queue empties and stays empty (no reconcile
\* re-enqueues settled work).
Converges == <>[]Converged

\* "Exact claims remain the sole deletion authority": a claim is the only durable
\* memory of a row in an old Project, so it is given up only in a state where
\* the row it stands for is gone.
ClaimReleasedAfterRow ==
  [][\A p \in Projects, k \in SkillKeys :
       claims[p][k] # Absent /\ claims'[p][k] = Absent => cloud'[p][k] = Absent]_vars

\* "Project reassignment is a two-step handoff: remove any projection fenced to
\* the stamped old Project": a row left in another Project than the binding's is
\* still known to the daemon, as a claim, a stamped item, or the item in hand.
OldProjectRowTracked ==
  \A p \in Projects \ {bound, agentProject}, k \in SkillKeys :
    cloud[p][k] # Absent =>
      \/ claims[p][k] # Absent
      \/ \E it \in PendingOf(items, k) : it.project = p
      \/ \E d \in drain : d.item.key = k
=============================================================================
