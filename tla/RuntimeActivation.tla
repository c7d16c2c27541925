-------------------------- MODULE RuntimeActivation --------------------------
(***************************************************************************)
(* Convergence of a hosted runtime on the manifest the Cloud serves        *)
(* (packages/cli/src/commands/runtime.ts, runtime/manifest-converge.ts,    *)
(* runtime/systemd-transaction.ts, runtime/systemd-activation-journal.ts,  *)
(* runtime/manifest-source.ts): the watch loop publishes the unit files of *)
(* a manifest, has systemd stop and (re)start units, and then commits the  *)
(* manifest: snapshot, applied receipt, journal, in that order.  An apply  *)
(* that fails replays the last manifest it committed.                      *)
(*                                                                         *)
(* The watcher may be killed between any two steps, a step may throw, a    *)
(* systemctl call may be killed by its timeout without an answer (its job  *)
(* may then run later), and a service may fail.  A unit's files are one    *)
(* revision; the converge lock makes applies sequential, so there is one.  *)
(* Time is not counted: a self-heal or a retry may be due at any moment.   *)
(***************************************************************************)
EXTENDS Naturals, FiniteSets

CONSTANTS Manifests,    \* the manifests the Cloud may serve
          SystemUnits,  \* units of the system manager
          UserUnits,    \* units of the runtime user's manager
          Revisions,    \* contents of a unit's files (fingerprints)
          Contents,     \* the revision each manifest wants of each unit, or None
          Broken,       \* revisions whose service does not stay up
          None,
          MaxChanges,   \* bound: changes of the served manifest
          MaxFaults     \* bound: crashes, throwing steps, lost answers, failing services

Units == SystemUnits \cup UserUnits

ASSUME RuntimeActivationAssumption ==
  /\ SystemUnits \cap UserUnits = {}
  /\ None \notin Manifests \cup Revisions
  /\ Broken \subseteq Revisions
  /\ Contents \in [Manifests -> [Units -> Revisions \cup {None}]]
  /\ MaxChanges \in Nat /\ MaxFaults \in Nat

VARIABLES
  desired,    \* the manifest the Cloud serves
  receipt,    \* the manifest of runtime-applied.json, or None
  snapshots,  \* manifests with a content snapshot
  lastGood,   \* the manifest of the manifest-last-good file, or None
  files,      \* the published files of each unit, or None
  unit,       \* systemd: state of each unit and the revision its process loaded
  job,        \* systemd: unfinished job of each unit
  journal,    \* systemd-activation-journal.json: revision of each pending intent
  apply,      \* what the watch loop is doing
  backoff,    \* failureBackoff: the manifest whose apply failed last, or None
  unrun,      \* history: user units whose journaled activation never ran
  budget      \* what is left of each bound

disk == <<receipt, snapshots, lastGood, files, journal>>
systemd == <<unit, job>>
vars == <<desired, disk, systemd, apply, backoff, unrun, budget>>

Phases == {"idle", "publish", "stop", "system", "journal", "user", "prove", "stage",
           "snapshot", "receipt", "acknowledge", "prune"}
Files == [Units -> Revisions \cup {None}]
Idle == [phase |-> "idle", manifest |-> None, etag |-> None, replay |-> FALSE,
         recover |-> FALSE, before |-> [u \in Units |-> None], plan |-> {}]

TypeOK ==
  /\ desired \in Manifests
  /\ {receipt, lastGood, backoff} \subseteq Manifests \cup {None}
  /\ snapshots \subseteq Manifests
  /\ files \in Files
  /\ unit \in [Units -> [state : {"inactive", "active", "failed"}, rev : Revisions \cup {None}]]
  /\ job \in [Units -> {"none", "start", "stop"}]
  /\ journal \in [UserUnits -> Revisions \cup {None}]
  /\ apply \in [phase : Phases, manifest : Manifests \cup {None}, etag : Manifests \cup {None},
                replay : BOOLEAN, recover : BOOLEAN, before : Files, plan : SUBSET Units]
  /\ unrun \subseteq UserUnits
  /\ budget \in [{"changes", "faults"} -> Nat]

\* A machine of the pool: nothing published, nothing committed.
Init ==
  /\ desired \in Manifests
  /\ receipt = None /\ snapshots = {} /\ lastGood = None
  /\ files = [u \in Units |-> None]
  /\ unit = [u \in Units |-> [state |-> "inactive", rev |-> None]]
  /\ job = [u \in Units |-> "none"]
  /\ journal = [u \in UserUnits |-> None]
  /\ apply = Idle /\ backoff = None /\ unrun = {}
  /\ budget = [changes |-> MaxChanges, faults |-> MaxFaults]

-----------------------------------------------------------------------------
(* What the code reads off its state.                                      *)

\* loadCommittedRuntimeManifest: the receipt's snapshot, else last-good.
Committed == IF receipt \in snapshots THEN receipt ELSE lastGood

\* committedActivated[unit]: the revision the receipt proves.
Proved(u) == IF receipt = None THEN None ELSE Contents[receipt][u]

Wanted(u) == Contents[apply.manifest][u]
Present == {u \in Units : files[u] # None}
Removed == {u \in Units : apply.before[u] # None /\ files[u] = None}
Changed == {u \in Present : apply.before[u] # files[u]}

\* Mutant of Pending: a restart that was never committed is forgotten.
PendingByReceipt == {u \in Present : files[u] # Proved(u)}

\* pendingSystemActivation and pendingUserActivation.  Only user units have a
\* journal, and an entry equal to the candidate does not make it pending.
Pending ==
  {u \in Present : \/ files[u] # Proved(u)
                   \/ u \in UserUnits /\ journal[u] \notin {None, files[u]}}

\* Mutant of ToActivate: the full refresh does not recover failed units.
ToActivateUnrecovered ==
  {u \in Present : \/ unit[u].state = "inactive"
                   \/ u \in Pending
                   \/ apply.replay /\ u \in SystemUnits \cap Changed}

\* The units applySystemdRuntimeUpdate starts or restarts.
ToActivate ==
  {u \in Present :
     \/ unit[u].state = "inactive"
     \/ unit[u].state = "failed" /\ (apply.recover \/ u \in Changed \cup Pending)
     \/ /\ unit[u].state = "active"
        /\ u \in Pending \/ (apply.replay /\ u \in SystemUnits \cap Changed)}

\* What a unit is once systemd has run a start, restart or stop of it.
Started(u) == IF files[u] = None \/ files[u] \in Broken
              THEN [state |-> "failed", rev |-> None]
              ELSE [state |-> "active", rev |-> files[u]]
Stopped == [state |-> "inactive", rev |-> None]

SystemFirst(u, S) == u \in S /\ (u \in UserUnits => S \cap SystemUnits = {})
Spend(what) == /\ budget[what] > 0
               /\ budget' = [budget EXCEPT ![what] = @ - 1]
Enter(phase) == apply' = [apply EXCEPT !.phase = phase]

-----------------------------------------------------------------------------
(* The watch loop: begin and end of an apply.                              *)

\* readSystemdRuntimeUnits throws when one of the units has a job.
Busy(S) == \E u \in S : job[u] # "none"

\* runtimeWatchFailureBackoff: the event of a failed or deferred apply.
EndFailed(etag) == apply' = Idle /\ backoff' = etag
EndApplied == apply' = Idle /\ backoff' = None

Applying(m, etag, replay, recover) ==
  [phase |-> "publish", manifest |-> m, etag |-> etag, replay |-> replay,
   recover |-> recover, before |-> files, plan |-> {}]

\* A tick finds a manifest to apply: always when a full refresh is due;
\* otherwise not when the datasource answers 304 for the etag sent, which is
\* that of the failed apply during a backoff and of the receipt else.
Tick(force) ==
  /\ apply.phase = "idle"
  /\ force \/ desired # (IF backoff # None THEN backoff ELSE receipt)
  /\ IF Busy({u \in Units : files[u] # None})
     THEN EndFailed(desired)
     ELSE apply' = Applying(desired, desired, FALSE, force) /\ UNCHANGED backoff
  /\ UNCHANGED <<desired, disk, systemd, unrun, budget>>

\* User units whose intent is journaled and whose command has not run.
Journaled == IF apply.phase = "user" THEN apply.plan \cap UserUnits ELSE {}

\* A step throws: the apply fails, and last-good is replayed unless this was
\* the replay or nothing was ever committed.
Failed ==
  /\ IF apply.replay \/ Committed = None \/ Busy(Present)
     THEN EndFailed(apply.etag)
     ELSE /\ apply' = Applying(Committed, apply.etag, TRUE, apply.recover)
          /\ UNCHANGED backoff

StepThrows ==
  /\ apply.phase # "idle" /\ Spend("faults")
  /\ Failed
  /\ unrun' = unrun \cup Journaled
  /\ UNCHANGED <<desired, disk, systemd>>

\* The watcher is killed; systemd and the disk go on.
Crash ==
  /\ apply.phase # "idle" /\ Spend("faults")
  /\ apply' = Idle /\ backoff' = None
  /\ unrun' = unrun \cup Journaled
  /\ UNCHANGED <<desired, disk, systemd>>

-----------------------------------------------------------------------------
(* The steps of an apply.                                                  *)

Unpublished == {u \in Units : Wanted(u) # None /\ files[u] # Wanted(u)}
Stale == {u \in Units : Wanted(u) = None /\ files[u] # None}

\* prepareRuntimeActivation: write the wanted files, then remove the stale.
Publish(u) ==
  /\ apply.phase = "publish"
  /\ SystemFirst(u, IF Unpublished # {} THEN Unpublished ELSE Stale)
  /\ files' = [files EXCEPT ![u] = Wanted(u)]
  /\ UNCHANGED <<desired, receipt, snapshots, lastGood, journal, systemd, apply, backoff,
                 unrun, budget>>

\* applySystemdRuntimeUpdate reads the units' states and plans; jobs defer it.
Observe ==
  /\ apply.phase = "publish" /\ Unpublished \cup Stale = {}
  /\ IF Busy(Present \cup Removed)
     THEN EndFailed(apply.etag)
     ELSE /\ apply' = [apply EXCEPT !.phase = "stop", !.plan = ToActivate]
          /\ UNCHANGED backoff
  /\ UNCHANGED <<desired, disk, systemd, unrun, budget>>

\* One systemctl call: every unit of S has been stopped or started.
Run(S, what) ==
  /\ unit' = [u \in Units |-> IF u \notin S THEN unit[u]
                              ELSE IF what = "stop" THEN Stopped ELSE Started(u)]
  /\ unrun' = unrun \ S

\* Its answer is lost: units of ran have been started or stopped, those of
\* queued have an unfinished job, the call never reached the others.
\* SystemdReobservationRequiredError ends the apply without a replay.
Lost(S, what) ==
  /\ S # {} /\ Spend("faults")
  /\ \E ran \in SUBSET S : \E queued \in SUBSET (S \ ran) :
       /\ unit' = [u \in Units |-> IF u \notin ran THEN unit[u]
                                   ELSE IF what = "stop" THEN Stopped ELSE Started(u)]
       /\ job' = [u \in Units |-> IF u \in queued THEN what ELSE job[u]]
       /\ unrun' = (unrun \cup Journaled) \ ran
  /\ EndFailed(apply.etag)
  /\ UNCHANGED <<desired, disk>>

StopRemoved ==
  /\ apply.phase = "stop"
  /\ \/ Run(Removed, "stop") /\ Enter("system") /\ UNCHANGED <<job, backoff, budget>>
     \/ Lost(Removed, "stop")
  /\ UNCHANGED <<desired, disk>>

\* systemctl start and restart of the planned units of one manager.  A service
\* that does not come up makes the call fail, or only the proof later.
Activate(S, next) ==
  \/ /\ Run(S, "start")
     /\ \/ Enter(next) /\ UNCHANGED backoff
        \/ (\E u \in S : unit'[u].state = "failed") /\ Failed
     /\ UNCHANGED <<job, budget>>
  \/ Lost(S, "start")

ActivateSystem ==
  /\ apply.phase = "system"
  /\ Activate(apply.plan \cap SystemUnits, "journal")
  /\ UNCHANGED <<desired, disk>>

\* recordSystemdActivationIntent, before any user unit is touched.
RecordIntent ==
  /\ apply.phase = "journal"
  /\ journal' = [u \in UserUnits |-> IF u \in apply.plan THEN files[u] ELSE journal[u]]
  /\ Enter("user")
  /\ UNCHANGED <<desired, receipt, snapshots, lastGood, files, systemd, backoff, unrun, budget>>

ActivateUser ==
  /\ apply.phase = "user"
  /\ Activate(apply.plan \cap UserUnits, "prove")
  /\ UNCHANGED <<desired, disk>>

Converged == /\ \A u \in Present : unit[u].state = "active"
             /\ \A u \in Removed : unit[u].state = "inactive"
NoIntent == [u \in UserUnits |-> None]

\* The final proof.  A replay that passes it acknowledges the journal when it
\* replayed the receipt's content, and the apply it follows has still failed.
Prove ==
  /\ apply.phase = "prove"
  /\ \/ ~Converged /\ Failed /\ UNCHANGED journal
     \/ /\ Converged /\ apply.replay
        /\ EndFailed(apply.etag)
        /\ journal' = IF receipt = apply.manifest THEN NoIntent ELSE journal
     \/ Converged /\ ~apply.replay /\ Enter("stage") /\ UNCHANGED <<backoff, journal>>
  /\ UNCHANGED <<desired, receipt, snapshots, lastGood, files, systemd, unrun, budget>>

\* Mutants of StageSnapshot: the applied content is not kept; the previous
\* content is written although there is none.
StageSnapshotForgets ==
  /\ apply.phase = "stage"
  /\ snapshots' = snapshots \cap {apply.manifest}
  /\ Enter("snapshot")
  /\ UNCHANGED <<desired, receipt, lastGood, files, journal, systemd, backoff, unrun, budget>>

StageSnapshotUnchecked ==
  /\ apply.phase = "stage"
  /\ snapshots' = (snapshots \cup {Committed}) \cap {apply.manifest, receipt}
  /\ Enter("snapshot")
  /\ UNCHANGED <<desired, receipt, lastGood, files, journal, systemd, backoff, unrun, budget>>

\* writeRuntimeManifestSnapshot: keep the committed content, drop the rest ...
StageSnapshot ==
  /\ apply.phase = "stage"
  /\ snapshots' = (snapshots \cup {Committed}) \cap ({apply.manifest, receipt} \ {None})
  /\ Enter("snapshot")
  /\ UNCHANGED <<desired, receipt, lastGood, files, journal, systemd, backoff, unrun, budget>>

\* ... then write the new content and the last-good file.
WriteSnapshot ==
  /\ apply.phase = "snapshot"
  /\ snapshots' = snapshots \cup {apply.manifest}
  /\ lastGood' = apply.manifest
  /\ Enter("receipt")
  /\ UNCHANGED <<desired, receipt, files, journal, systemd, backoff, unrun, budget>>

\* writeRuntimeAppliedState: the receipt, then the journal.
WriteReceipt ==
  /\ apply.phase = "receipt"
  /\ receipt' = apply.manifest
  /\ Enter("acknowledge")
  /\ UNCHANGED <<desired, snapshots, lastGood, files, journal, systemd, backoff, unrun, budget>>

ClearJournal ==
  /\ apply.phase = "acknowledge"
  /\ journal' = NoIntent
  /\ Enter("prune")
  /\ UNCHANGED <<desired, receipt, snapshots, lastGood, files, systemd, backoff, unrun, budget>>

\* pruneRuntimeSnapshots: only the content just committed stays.
PruneSnapshots ==
  /\ apply.phase = "prune"
  /\ snapshots' = snapshots \cap {apply.manifest}
  /\ EndApplied
  /\ UNCHANGED <<desired, receipt, lastGood, files, journal, systemd, unrun, budget>>

-----------------------------------------------------------------------------
(* The environment.                                                        *)

Change(m) ==
  /\ m # desired /\ Spend("changes")
  /\ desired' = m
  /\ UNCHANGED <<disk, systemd, apply, backoff, unrun>>

\* systemd runs a job whose caller is gone, with the files it then finds.
JobRuns(u) ==
  /\ job[u] # "none"
  /\ unit' = [unit EXCEPT ![u] = IF job[u] = "stop" THEN Stopped ELSE Started(u)]
  /\ job' = [job EXCEPT ![u] = "none"]
  /\ unrun' = unrun \ {u}
  /\ UNCHANGED <<desired, disk, apply, backoff, budget>>

\* A service fails and systemd gives up restarting it.
ServiceFails(u) ==
  /\ unit[u].state = "active" /\ Spend("faults")
  /\ unit' = [unit EXCEPT ![u] = [state |-> "failed", rev |-> None]]
  /\ UNCHANGED <<desired, disk, job, apply, backoff, unrun>>

Step == \/ \E u \in Units : Publish(u)
        \/ Observe \/ StopRemoved \/ ActivateSystem \/ RecordIntent \/ ActivateUser \/ Prove
        \/ StageSnapshot \/ WriteSnapshot \/ WriteReceipt \/ ClearJournal \/ PruneSnapshots

Next == \/ \E force \in BOOLEAN : Tick(force)
        \/ Step \/ StepThrows \/ Crash
        \/ \E m \in Manifests : Change(m)
        \/ \E u \in Units : JobRuns(u) \/ ServiceFails(u)

Spec == Init /\ [][Next]_vars

\* The watch loop runs on and comes to its full refresh; systemd finishes its
\* jobs.  Nothing makes the Cloud change a manifest or a fault happen.
FairSpec == /\ Spec
            /\ WF_vars(Step /\ UNCHANGED budget)
            /\ WF_vars(Tick(TRUE))
            /\ WF_vars(\E u \in Units : JobRuns(u))

-----------------------------------------------------------------------------
(* Properties.                                                             *)

\* Whatever step a crash or an error cuts off, the content of the committed
\* manifest is there to be replayed, beside at most one other
\* (manifest-source.ts:626).
CommittedReplayable ==
  /\ receipt # None => receipt \in snapshots
  /\ Cardinality(snapshots) <= 2

\* A user unit that the receipt covers and for which no activation is pending
\* in the journal runs the receipt's revision.  The one exception is the window
\* the code documents: an activation was journaled and its command never ran.
ReceiptRuns ==
  \A u \in UserUnits :
    (/\ Proved(u) # None /\ unit[u].state = "active"
     /\ journal[u] = None /\ u \notin unrun) => unit[u].rev = Proved(u)

Deployable(m) == \A u \in Units : Contents[m][u] \notin Broken
Target == IF Deployable(desired) THEN desired ELSE receipt

\* Again and again the machine is where it should be: on the served manifest
\* when its services work, else back on the last one that was committed.
Settles ==
  []<>(Target # None =>
         /\ receipt = Target
         /\ \A u \in Units : Contents[Target][u] # None => unit[u].state = "active"
         /\ \A u \in UserUnits \ unrun : Contents[Target][u] \in {None, unit[u].rev})
=============================================================================
