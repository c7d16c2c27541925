----------------------- MODULE RuntimeActivationProofs -----------------------
(***************************************************************************)
(* Theorems about RuntimeActivation, for every set of manifests and units, *)
(* every content of theirs and every number of changes and faults: its     *)
(* type invariant, that the committed content can always be replayed, and  *)
(* that no user unit silently runs another revision than the receipt's.    *)
(***************************************************************************)
EXTENDS RuntimeActivation, FiniteSetTheorems, TLAPS

-----------------------------------------------------------------------------
(***************************************************************************)
(* Types.  An apply in progress has a manifest, so that its contents are   *)
(* defined.                                                                *)
(***************************************************************************)

ApplyState ==
  [phase : Phases, manifest : Manifests \cup {None}, etag : Manifests \cup {None},
   replay : BOOLEAN, recover : BOOLEAN, before : Files, plan : SUBSET Units]

HasManifest(a) == a.phase # "idle" => a.manifest \in Manifests

TypeInv == TypeOK /\ HasManifest(apply)

UnitState == [state : {"inactive", "active", "failed"}, rev : Revisions \cup {None}]

\* What a start leaves is a state of a unit.
LEMMA StartedType ==
  ASSUME TypeOK, NEW u \in Units
  PROVE  Started(u) \in UnitState /\ Stopped \in UnitState
BY DEF TypeOK, Files, Started, Stopped, UnitState

\* The manifest a replay takes is one the Cloud has served.
LEMMA CommittedType ==
  ASSUME TypeOK
  PROVE  Committed \in Manifests \cup {None}
BY DEF TypeOK, Committed

\* What wanted files a manifest has.
LEMMA ContentsType ==
  ASSUME NEW m \in Manifests, NEW u \in Units
  PROVE  Contents[m][u] \in Revisions \cup {None}
BY RuntimeActivationAssumption

\* The beginning and the end of an apply.
LEMMA IdleType == Idle \in ApplyState /\ HasManifest(Idle)
BY DEF Idle, ApplyState, HasManifest, Phases, Files

\* A new apply has a manifest.
LEMMA ApplyingType ==
  ASSUME TypeOK, NEW m \in Manifests, NEW e \in Manifests \cup {None},
         NEW replay \in BOOLEAN, NEW recover \in BOOLEAN
  PROVE  Applying(m, e, replay, recover) \in ApplyState /\ HasManifest(Applying(m, e, replay, recover))
BY DEF TypeOK, Applying, ApplyState, HasManifest, Phases

\* The apply in progress is one.
LEMMA ApplyType == ASSUME TypeOK PROVE apply \in ApplyState
BY DEF TypeOK, ApplyState

\* The apply goes on to another phase, is replayed, or ends.
LEMMA FailedType ==
  ASSUME TypeInv, Failed
  PROVE  apply' \in ApplyState /\ HasManifest(apply') /\ backoff' \in Manifests \cup {None}
<1>1. apply \in ApplyState /\ backoff \in Manifests \cup {None}
  BY ApplyType DEF TypeInv, TypeOK
<1>2. apply.etag \in Manifests \cup {None} /\ apply.recover \in BOOLEAN
  BY <1>1 DEF ApplyState
<1>3. CASE apply.replay \/ Committed = None \/ Busy(Present)
  BY <1>2, <1>3, IdleType DEF Failed, EndFailed
<1>4. CASE ~(apply.replay \/ Committed = None \/ Busy(Present))
  <2>1. Committed \in Manifests
    BY <1>4, CommittedType DEF TypeInv
  <2>2. apply' = Applying(Committed, apply.etag, TRUE, apply.recover) /\ backoff' = backoff
    BY <1>4 DEF Failed
  <2> QED BY <1>1, <1>2, <2>1, <2>2, ApplyingType DEF TypeInv
<1> QED BY <1>3, <1>4

\* An apply that goes on to another phase keeps its manifest.
LEMMA EnterType ==
  ASSUME TypeInv, NEW p \in Phases, apply.phase # "idle", Enter(p)
  PROVE  apply' \in ApplyState /\ HasManifest(apply')
<1>1. apply \in ApplyState
  BY ApplyType DEF TypeInv
<1>2. apply.manifest \in Manifests
  BY DEF TypeInv, HasManifest
<1>3. apply' = [apply EXCEPT !.phase = p]
  BY DEF Enter
<1> QED BY <1>1, <1>2, <1>3 DEF ApplyState, HasManifest

\* A systemctl call leaves every unit in a state of a unit.
LEMMA LostType ==
  ASSUME TypeInv, NEW S \in SUBSET Units, NEW what \in {"start", "stop"}, Lost(S, what)
  PROVE  /\ unit' \in [Units -> UnitState] /\ job' \in [Units -> {"none", "start", "stop"}]
         /\ unrun' \subseteq UserUnits /\ budget' \in [{"changes", "faults"} -> Nat]
         /\ apply' = Idle /\ backoff' \in Manifests \cup {None}
<1>1. PICK ran \in SUBSET S : \E queued \in SUBSET (S \ ran) :
       /\ unit' = [u \in Units |-> IF u \notin ran THEN unit[u]
                                   ELSE IF what = "stop" THEN Stopped ELSE Started(u)]
       /\ job' = [u \in Units |-> IF u \in queued THEN what ELSE job[u]]
       /\ unrun' = (unrun \cup Journaled) \ ran
  BY DEF Lost
<1>2. Journaled \subseteq UserUnits
  BY DEF Journaled
<1>3. /\ unit \in [Units -> UnitState] /\ job \in [Units -> {"none", "start", "stop"}]
      /\ unrun \subseteq UserUnits /\ budget \in [{"changes", "faults"} -> Nat]
      /\ apply.etag \in Manifests \cup {None}
  BY DEF TypeInv, TypeOK, UnitState
<1>4. unit' \in [Units -> UnitState]
  BY <1>1, <1>3, StartedType DEF TypeInv
<1>5. job' \in [Units -> {"none", "start", "stop"}]
  BY <1>1, <1>3
<1>6. budget' \in [{"changes", "faults"} -> Nat]
  BY <1>3 DEF Lost, Spend
<1> QED BY <1>1, <1>2, <1>3, <1>4, <1>5, <1>6 DEF Lost, EndFailed

\* A job that runs leaves its unit in a state of a unit.
LEMMA RunType ==
  ASSUME TypeInv, NEW S \in SUBSET Units, NEW what \in {"start", "stop"}, Run(S, what)
  PROVE  unit' \in [Units -> UnitState] /\ unrun' \subseteq UserUnits
<1>1. unit \in [Units -> UnitState] /\ unrun \subseteq UserUnits
  BY DEF TypeInv, TypeOK, UnitState
<1> QED BY <1>1, StartedType DEF TypeInv, Run

\* A machine starts with well-typed state.
LEMMA InitTypeInv == Init => TypeInv
<1> SUFFICES ASSUME Init PROVE TypeInv
  OBVIOUS
<1>1. TypeOK
  BY IdleType, RuntimeActivationAssumption DEF Init, TypeOK, ApplyState, Files
<1> QED BY <1>1, IdleType DEF Init, TypeInv

\* Every step keeps the types.
LEMMA NextTypeInv == TypeInv /\ [Next]_vars => TypeInv'
<1> SUFFICES ASSUME TypeInv, [Next]_vars PROVE TypeInv'
  OBVIOUS
<1>0. /\ TypeOK
      /\ desired \in Manifests
      /\ receipt \in Manifests \cup {None} /\ lastGood \in Manifests \cup {None}
      /\ backoff \in Manifests \cup {None}
      /\ snapshots \subseteq Manifests /\ files \in Files
      /\ unit \in [Units -> UnitState] /\ job \in [Units -> {"none", "start", "stop"}]
      /\ journal \in [UserUnits -> Revisions \cup {None}]
      /\ apply \in ApplyState /\ HasManifest(apply)
      /\ unrun \subseteq UserUnits /\ budget \in [{"changes", "faults"} -> Nat]
      /\ UserUnits \subseteq Units /\ SystemUnits \subseteq Units
  BY ApplyType DEF TypeInv, TypeOK, UnitState, Units
<1>1. ASSUME desired' \in Manifests, receipt' \in Manifests \cup {None},
             lastGood' \in Manifests \cup {None}, backoff' \in Manifests \cup {None},
             snapshots' \subseteq Manifests, files' \in Files,
             unit' \in [Units -> UnitState], job' \in [Units -> {"none", "start", "stop"}],
             journal' \in [UserUnits -> Revisions \cup {None}],
             apply' \in ApplyState, HasManifest(apply'), unrun' \subseteq UserUnits,
             budget' \in [{"changes", "faults"} -> Nat]
      PROVE  TypeInv'
  BY <1>1 DEF TypeInv, TypeOK, ApplyState, HasManifest, UnitState
<1>2. apply.plan \subseteq Units /\ apply.etag \in Manifests \cup {None} /\ Journaled \subseteq UserUnits
  BY <1>0 DEF ApplyState, Journaled
<1>3. ASSUME NEW force \in BOOLEAN, Tick(force) PROVE TypeInv'
  <2>1. apply' \in ApplyState /\ HasManifest(apply') /\ backoff' \in Manifests \cup {None}
    <3>1. /\ Applying(desired, desired, FALSE, force) \in ApplyState
          /\ HasManifest(Applying(desired, desired, FALSE, force))
      BY <1>0, ApplyingType
    <3>2. \/ apply' = Idle /\ backoff' = desired
          \/ apply' = Applying(desired, desired, FALSE, force) /\ backoff' = backoff
      BY <1>3 DEF Tick, EndFailed
    <3> QED BY <1>0, <3>1, <3>2, IdleType
  <2> QED BY <1>0, <1>1, <1>3, <2>1 DEF Tick, disk, systemd
<1>4. CASE StepThrows
  <2>1. budget' \in [{"changes", "faults"} -> Nat]
    BY <1>0, <1>4 DEF StepThrows, Spend
  <2> QED BY <1>0, <1>1, <1>2, <1>4, <2>1, FailedType DEF StepThrows, disk, systemd
<1>5. CASE Crash
  <2>1. budget' \in [{"changes", "faults"} -> Nat]
    BY <1>0, <1>5 DEF Crash, Spend
  <2> QED BY <1>0, <1>1, <1>2, <1>5, <2>1, IdleType DEF Crash, disk, systemd
<1>6. ASSUME NEW u \in Units, Publish(u) PROVE TypeInv'
  <2>1. apply.manifest \in Manifests
    BY <1>0, <1>6 DEF Publish, HasManifest
  <2>2. files' \in Files
    BY <1>0, <1>6, <2>1, ContentsType DEF Publish, Wanted, Files
  <2> QED BY <1>0, <1>1, <1>6, <2>2 DEF Publish, systemd
<1>7. CASE Observe
  <2>1. ToActivate \subseteq Units
    BY DEF ToActivate, Present
  <2>2. apply' \in ApplyState /\ HasManifest(apply') /\ backoff' \in Manifests \cup {None}
    <3>1. CASE Busy(Present \cup Removed)
      BY <1>0, <1>2, <1>7, <3>1, IdleType DEF Observe, EndFailed
    <3>2. CASE ~Busy(Present \cup Removed)
      <4>1. /\ apply' = [apply EXCEPT !.phase = "stop", !.plan = ToActivate]
            /\ backoff' = backoff /\ apply.phase = "publish"
        BY <1>7, <3>2 DEF Observe
      <4> QED BY <1>0, <2>1, <4>1 DEF ApplyState, HasManifest, Phases
    <3> QED BY <3>1, <3>2
  <2> QED BY <1>0, <1>1, <1>7, <2>2 DEF Observe, disk, systemd
<1>8. CASE StopRemoved
  <2>1. Removed \subseteq Units
    BY DEF Removed
  <2>2. CASE Lost(Removed, "stop")
    <3>1. /\ unit' \in [Units -> UnitState] /\ job' \in [Units -> {"none", "start", "stop"}]
          /\ unrun' \subseteq UserUnits /\ budget' \in [{"changes", "faults"} -> Nat]
          /\ apply' = Idle /\ backoff' \in Manifests \cup {None}
      BY <2>1, <2>2, LostType
    <3> QED BY <1>0, <1>1, <1>8, <3>1, IdleType DEF StopRemoved, disk
  <2>3. CASE Run(Removed, "stop") /\ Enter("system") /\ UNCHANGED <<job, backoff, budget>>
    <3>1. unit' \in [Units -> UnitState] /\ unrun' \subseteq UserUnits
      BY <2>1, <2>3, RunType
    <3>2. apply' \in ApplyState /\ HasManifest(apply')
      BY <1>8, <2>3, EnterType DEF StopRemoved, Phases
    <3> QED BY <1>0, <1>1, <1>8, <2>3, <3>1, <3>2 DEF StopRemoved, disk
  <2> QED BY <1>8, <2>2, <2>3 DEF StopRemoved
<1>9. ASSUME NEW S \in SUBSET Units, NEW next \in Phases, apply.phase # "idle",
             Activate(S, next), UNCHANGED <<desired, disk>>
      PROVE  TypeInv'
  <2>1. CASE Lost(S, "start")
    <3>1. /\ unit' \in [Units -> UnitState] /\ job' \in [Units -> {"none", "start", "stop"}]
          /\ unrun' \subseteq UserUnits /\ budget' \in [{"changes", "faults"} -> Nat]
          /\ apply' = Idle /\ backoff' \in Manifests \cup {None}
      BY <2>1, LostType
    <3> QED BY <1>0, <1>1, <1>9, <3>1, IdleType DEF disk
  <2>2. CASE /\ Run(S, "start") /\ UNCHANGED <<job, budget>>
             /\ (Enter(next) /\ UNCHANGED backoff) \/ Failed
    <3>1. unit' \in [Units -> UnitState] /\ unrun' \subseteq UserUnits
      BY <2>2, RunType
    <3>2. apply' \in ApplyState /\ HasManifest(apply') /\ backoff' \in Manifests \cup {None}
      BY <1>0, <1>9, <2>2, EnterType, FailedType
    <3> QED BY <1>0, <1>1, <1>9, <2>2, <3>1, <3>2 DEF disk
  <2> QED BY <1>9, <2>1, <2>2 DEF Activate
<1>10. CASE ActivateSystem \/ ActivateUser
  <2>1. apply.plan \cap SystemUnits \in SUBSET Units /\ apply.plan \cap UserUnits \in SUBSET Units
    BY <1>2
  <2> QED BY <1>9, <1>10, <2>1 DEF ActivateSystem, ActivateUser, Phases
<1>11. CASE RecordIntent
  <2>1. journal' \in [UserUnits -> Revisions \cup {None}]
    BY <1>0, <1>11 DEF RecordIntent, Files
  <2>2. apply' \in ApplyState /\ HasManifest(apply')
    BY <1>11, EnterType DEF RecordIntent, Phases
  <2> QED BY <1>0, <1>1, <1>11, <2>1, <2>2 DEF RecordIntent, systemd
<1>12. CASE Prove
  <2>1. journal' \in [UserUnits -> Revisions \cup {None}]
    BY <1>0, <1>12 DEF Prove, NoIntent
  <2>2. apply' \in ApplyState /\ HasManifest(apply') /\ backoff' \in Manifests \cup {None}
    <3>1. CASE ~Converged
      BY <1>12, <3>1, FailedType DEF Prove
    <3>2. CASE Converged /\ apply.replay
      BY <1>0, <1>2, <1>12, <3>2, IdleType DEF Prove, EndFailed
    <3>3. CASE Converged /\ ~apply.replay
      BY <1>0, <1>12, <3>3, EnterType DEF Prove, Phases
    <3> QED BY <3>1, <3>2, <3>3
  <2> QED BY <1>0, <1>1, <1>12, <2>1, <2>2 DEF Prove, systemd
<1>13. CASE StageSnapshot \/ WriteSnapshot \/ WriteReceipt \/ ClearJournal
  <2>1. apply.phase # "idle" /\ apply.manifest \in Manifests
    BY <1>0, <1>13 DEF StageSnapshot, WriteSnapshot, WriteReceipt, ClearJournal, HasManifest
  <2>2. apply' \in ApplyState /\ HasManifest(apply')
    BY <1>13, <2>1, EnterType DEF StageSnapshot, WriteSnapshot, WriteReceipt, ClearJournal, Phases
  <2> QED BY <1>0, <1>1, <1>13, <2>1, <2>2
          DEF StageSnapshot, WriteSnapshot, WriteReceipt, ClearJournal, NoIntent, systemd
<1>14. CASE PruneSnapshots
  BY <1>0, <1>1, <1>14, IdleType DEF PruneSnapshots, EndApplied, systemd
<1>15. ASSUME NEW m \in Manifests, Change(m) PROVE TypeInv'
  <2>1. budget' \in [{"changes", "faults"} -> Nat]
    BY <1>0, <1>15 DEF Change, Spend
  <2> QED BY <1>0, <1>1, <1>15, <2>1 DEF Change, disk, systemd
<1>16. ASSUME NEW u \in Units, JobRuns(u) PROVE TypeInv'
  BY <1>0, <1>1, <1>16, StartedType DEF JobRuns, disk
<1>17. ASSUME NEW u \in Units, ServiceFails(u) PROVE TypeInv'
  <2>1. budget' \in [{"changes", "faults"} -> Nat]
    BY <1>0, <1>17 DEF ServiceFails, Spend
  <2>2. unit' \in [Units -> UnitState]
    BY <1>0, <1>17 DEF ServiceFails, UnitState
  <2> QED BY <1>0, <1>1, <1>17, <2>1, <2>2 DEF ServiceFails, disk
<1>18. CASE UNCHANGED vars
  BY <1>0, <1>1, <1>18 DEF vars, disk, systemd
<1> QED
  BY <1>3, <1>4, <1>5, <1>6, <1>7, <1>8, <1>10, <1>11, <1>12, <1>13, <1>14, <1>15, <1>16,
     <1>17, <1>18 DEF Next, Step

\* Every reachable state has its type: the watch loop never publishes, starts or
\* commits something that is not the content of a manifest it was served.
THEOREM RuntimeTypeCorrect == Spec => []TypeOK
<1>1. TypeInv => TypeOK
  BY DEF TypeInv
<1> QED BY InitTypeInv, NextTypeInv, <1>1, PTL DEF Spec

-----------------------------------------------------------------------------
(***************************************************************************)
(* The committed content.  While an apply commits, the snapshots are those *)
(* of its manifest and of the receipt; from the write of the receipt on    *)
(* its manifest is the receipt.                                            *)
(***************************************************************************)

Committing ==
  /\ apply.phase \in {"snapshot", "receipt"} => snapshots \subseteq {apply.manifest, receipt}
  /\ apply.phase = "receipt" => apply.manifest \in snapshots
  /\ apply.phase \in {"acknowledge", "prune"} => receipt = apply.manifest

ReplayInv == CommittedReplayable /\ Committing

\* Two manifests are at most two.
LEMMA AtMostTwo ==
  ASSUME NEW a, NEW b, NEW S \in SUBSET {a, b}
  PROVE  Cardinality(S) <= 2
<1>1. IsFiniteSet({a}) /\ Cardinality({a}) = 1
  BY FS_Singleton
<1>2. IsFiniteSet({a} \cup {b}) /\ Cardinality({a} \cup {b}) <= 2
  BY <1>1, FS_AddElement
<1>3. {a} \cup {b} = {a, b}
  OBVIOUS
<1>4. Cardinality(S) <= Cardinality({a, b}) /\ Cardinality(S) \in Nat /\ Cardinality({a, b}) \in Nat
  BY <1>2, <1>3, FS_Subset, FS_CardinalityType
<1> QED BY <1>2, <1>3, <1>4

\* The ways a step can change what is committed, and the phase it leads to.
Elsewhere == apply'.phase \in {"idle", "publish", "stop", "system", "journal", "user", "prove", "stage"}

\* Steps outside the commit touch neither receipt nor snapshots and do not enter it.
LEMMA QuietSteps ==
  ASSUME TypeInv, [Next]_vars, ~StageSnapshot, ~WriteSnapshot, ~WriteReceipt, ~ClearJournal,
         ~PruneSnapshots
  PROVE  /\ UNCHANGED <<receipt, snapshots, lastGood>>
         /\ apply' = apply \/ Elsewhere
<1>0. apply \in ApplyState
  BY ApplyType DEF TypeInv
<1>a. ASSUME NEW p \in {"system", "journal", "user", "prove", "stage"}, Enter(p) PROVE Elsewhere
  BY <1>0, <1>a DEF Enter, Elsewhere, ApplyState
<1>i. ASSUME apply' = Idle PROVE Elsewhere
  BY <1>i DEF Idle, Elsewhere
<1>f. ASSUME Failed PROVE Elsewhere
  BY <1>f, <1>i DEF Failed, EndFailed, Applying, Elsewhere
<1>1. ASSUME NEW force \in BOOLEAN, Tick(force)
      PROVE  UNCHANGED <<receipt, snapshots, lastGood>> /\ Elsewhere
  BY <1>1, <1>i DEF Tick, EndFailed, Applying, Elsewhere, disk
<1>2. CASE StepThrows \/ Crash
  BY <1>2, <1>f, <1>i DEF StepThrows, Crash, disk
<1>3. ASSUME NEW u \in Units, Publish(u) PROVE UNCHANGED <<receipt, snapshots, lastGood, apply>>
  BY <1>3 DEF Publish
<1>4. CASE Observe
  <2>1. CASE Busy(Present \cup Removed)
    BY <1>4, <1>i, <2>1 DEF Observe, EndFailed, disk
  <2>2. CASE ~Busy(Present \cup Removed)
    <3>1. apply' = [apply EXCEPT !.phase = "stop", !.plan = ToActivate]
      BY <1>4, <2>2 DEF Observe
    <3>2. apply'.phase = "stop"
      BY <1>0, <3>1 DEF ApplyState
    <3> QED BY <1>4, <3>2 DEF Observe, Elsewhere, disk
  <2> QED BY <2>1, <2>2
<1>5. CASE StopRemoved
  BY <1>5, <1>a, <1>i DEF StopRemoved, Lost, EndFailed, disk
<1>6. CASE ActivateSystem \/ ActivateUser
  BY <1>6, <1>a, <1>f, <1>i DEF ActivateSystem, ActivateUser, Activate, Lost, EndFailed, disk
<1>7. CASE RecordIntent \/ Prove
  BY <1>7, <1>a, <1>f, <1>i DEF RecordIntent, Prove, EndFailed
<1>8. ASSUME NEW m \in Manifests, Change(m) PROVE UNCHANGED <<receipt, snapshots, lastGood, apply>>
  BY <1>8 DEF Change, disk
<1>9. ASSUME NEW u \in Units, JobRuns(u) \/ ServiceFails(u)
      PROVE  UNCHANGED <<receipt, snapshots, lastGood, apply>>
  BY <1>9 DEF JobRuns, ServiceFails, disk
<1>10. CASE UNCHANGED vars
  BY <1>10 DEF vars, disk
<1> QED
  BY <1>1, <1>2, <1>3, <1>4, <1>5, <1>6, <1>7, <1>8, <1>9, <1>10 DEF Next, Step

\* Nothing is committed at first.
LEMMA InitReplayInv == Init => ReplayInv
<1> SUFFICES ASSUME Init PROVE ReplayInv
  OBVIOUS
<1>1. Cardinality({}) = 0
  BY FS_EmptySet
<1> QED BY <1>1 DEF Init, ReplayInv, CommittedReplayable, Committing, Idle

\* Every step keeps the committed content and its snapshots.
LEMMA NextReplayInv == TypeInv /\ ReplayInv /\ [Next]_vars => ReplayInv'
<1> SUFFICES ASSUME TypeInv, ReplayInv, [Next]_vars PROVE ReplayInv'
  OBVIOUS
<1>0. /\ apply \in ApplyState /\ receipt \in Manifests \cup {None} /\ None \notin Manifests
      /\ apply.phase # "idle" => apply.manifest \in Manifests
  BY ApplyType, RuntimeActivationAssumption DEF TypeInv, TypeOK, HasManifest
<1>e. ASSUME NEW p \in Phases, Enter(p) PROVE apply'.phase = p /\ apply'.manifest = apply.manifest
  BY <1>0, <1>e DEF Enter, ApplyState
<1>1. CASE ~(StageSnapshot \/ WriteSnapshot \/ WriteReceipt \/ ClearJournal \/ PruneSnapshots)
  <2>1. UNCHANGED <<receipt, snapshots, lastGood>> /\ (apply' = apply \/ Elsewhere)
    BY <1>1, QuietSteps
  <2> QED BY <2>1 DEF ReplayInv, CommittedReplayable, Committing, Elsewhere
<1>2. CASE StageSnapshot
  <2>1. /\ apply'.phase = "snapshot" /\ apply'.manifest = apply.manifest /\ receipt' = receipt
        /\ snapshots' = (snapshots \cup {Committed}) \cap ({apply.manifest, receipt} \ {None})
    BY <1>2, <1>e DEF StageSnapshot, Phases
  <2>2. Cardinality(snapshots') <= 2
    BY <2>1, AtMostTwo
  <2> QED BY <2>1, <2>2 DEF ReplayInv, CommittedReplayable, Committing
<1>3. CASE WriteSnapshot
  <2>1. /\ apply'.phase = "receipt" /\ apply'.manifest = apply.manifest /\ receipt' = receipt
        /\ snapshots' = snapshots \cup {apply.manifest} /\ apply.phase = "snapshot"
    BY <1>3, <1>e DEF WriteSnapshot, Phases
  <2>2. snapshots' \subseteq {apply.manifest, receipt}
    BY <2>1 DEF ReplayInv, Committing
  <2>3. Cardinality(snapshots') <= 2
    BY <2>2, AtMostTwo
  <2> QED BY <2>1, <2>2, <2>3 DEF ReplayInv, CommittedReplayable, Committing
<1>4. CASE WriteReceipt
  <2>1. /\ apply'.phase = "acknowledge" /\ apply'.manifest = apply.manifest
        /\ receipt' = apply.manifest /\ snapshots' = snapshots /\ apply.phase = "receipt"
    BY <1>4, <1>e DEF WriteReceipt, Phases
  <2> QED BY <2>1 DEF ReplayInv, CommittedReplayable, Committing
<1>5. CASE ClearJournal
  <2>1. /\ apply'.phase = "prune" /\ apply'.manifest = apply.manifest
        /\ receipt' = receipt /\ snapshots' = snapshots /\ apply.phase = "acknowledge"
    BY <1>5, <1>e DEF ClearJournal, Phases
  <2> QED BY <2>1 DEF ReplayInv, CommittedReplayable, Committing
<1>6. CASE PruneSnapshots
  <2>1. /\ apply'.phase = "idle" /\ receipt' = receipt
        /\ snapshots' = snapshots \cap {apply.manifest} /\ apply.phase = "prune"
    BY <1>6 DEF PruneSnapshots, EndApplied, Idle
  <2>2. Cardinality(snapshots') <= 2
    BY <2>1, AtMostTwo
  <2> QED BY <2>1, <2>2 DEF ReplayInv, CommittedReplayable, Committing
<1> QED BY <1>1, <1>2, <1>3, <1>4, <1>5, <1>6

\* At every point where the watcher may be killed or a step may throw, the
\* content the receipt names is on disk, beside at most one other.
THEOREM ReplayAlwaysPossible == Spec => []CommittedReplayable
<1>1. ReplayInv => CommittedReplayable
  BY DEF ReplayInv
<1> QED BY InitTypeInv, NextTypeInv, InitReplayInv, NextReplayInv, <1>1, PTL DEF Spec

-----------------------------------------------------------------------------
(***************************************************************************)
(* The receipt and what runs.  ReceiptRuns is about a unit with no intent  *)
(* in the journal; it is kept because a unit with an intent runs the       *)
(* intent's revision (Intended), because what an apply leaves out of its   *)
(* plan runs the published revision already (Unplanned), and because a     *)
(* start whose caller is gone keeps every further apply away until systemd *)
(* has run it (StartJobs).                                                 *)
(***************************************************************************)

\* A queued start: no apply is under way, and the files it will load are there
\* and are those of the intent.
StartJobs ==
  \A u \in Units : job[u] = "start" =>
    /\ apply.phase = "idle" /\ files[u] # None
    /\ u \in UserUnits => journal[u] = files[u]

\* Once an apply has planned, the published files are those of its manifest.
Published == apply.phase \notin {"idle", "publish"} => \A u \in Units : files[u] = Wanted(u)

\* The plan is of published units, and its intents are recorded before it runs.
Planning == apply.phase \in {"stop", "system", "journal", "user"}

Planned ==
  /\ Planning => apply.plan \subseteq Present
  /\ apply.phase = "user" => \A u \in apply.plan \cap UserUnits : journal[u] = files[u]

\* A user unit that runs and that no cut-off command accounts for.
Accounted(u) == unit[u].state = "active" /\ u \notin unrun

\* Such a unit runs its intent's revision, or the receipt's when it has none.
Intended ==
  \A u \in UserUnits :
    Accounted(u) /\ u \notin Journaled =>
      /\ journal[u] # None => unit[u].rev = journal[u]
      /\ journal[u] = None /\ Proved(u) # None => unit[u].rev = Proved(u)

\* Such a unit, left out of the plan or already started by it, runs what is
\* published.
Unplanned ==
  \A u \in UserUnits :
    /\ Accounted(u) /\ files[u] # None
    /\ \/ Planning /\ u \notin apply.plan
       \/ apply.phase \in {"prove", "stage", "snapshot", "receipt", "acknowledge"}
    => unit[u].rev = files[u]

RunsInv == StartJobs /\ Published /\ Planned /\ Intended /\ Unplanned

\* The parts of the state the invariant is about have their types.
LEMMA RunsTypes ==
  ASSUME TypeInv
  PROVE  /\ apply \in ApplyState /\ HasManifest(apply)
         /\ apply.plan \subseteq Units
         /\ unit \in [Units -> UnitState] /\ job \in [Units -> {"none", "start", "stop"}]
         /\ files \in [Units -> Revisions \cup {None}]
         /\ journal \in [UserUnits -> Revisions \cup {None}]
         /\ UserUnits \subseteq Units /\ SystemUnits \subseteq Units
         /\ \A u \in UserUnits : u \notin SystemUnits
         /\ None \notin Manifests
BY ApplyType, RuntimeActivationAssumption DEF TypeInv, TypeOK, UnitState, Units, Files, ApplyState

\* A unit that runs after a start runs the published revision.
LEMMA StartedRuns ==
  ASSUME NEW u, Started(u).state = "active"
  PROVE  Started(u).rev = files[u] /\ files[u] # None
BY DEF Started

\* The next phase of an apply.
LEMMA EnterPhase ==
  ASSUME TypeInv, NEW p \in Phases, Enter(p)
  PROVE  apply'.phase = p /\ apply'.manifest = apply.manifest /\ apply'.plan = apply.plan
<1>1. apply \in ApplyState
  BY ApplyType DEF TypeInv
<1> QED BY <1>1 DEF Enter, ApplyState

\* An apply begins or ends: every unit that runs and is accounted for either was
\* so before, or has just been started on its intent's revision.
LEMMA ApplyEnds ==
  ASSUME TypeInv, RunsInv, UNCHANGED <<receipt, files, journal>>,
         apply'.phase \in {"idle", "publish"}, StartJobs',
         \A u \in UserUnits :
           Accounted(u)' =>
             \/ Accounted(u) /\ u \notin Journaled /\ unit'[u].rev = unit[u].rev
             \/ journal[u] # None /\ unit'[u].rev = journal[u]
  PROVE  RunsInv'
<1>1. Published' /\ Planned' /\ Unplanned'
  BY DEF Published, Planned, Planning, Unplanned
<1>2. Intended'
  BY DEF RunsInv, Intended, Proved
<1> QED BY <1>1, <1>2 DEF RunsInv

\* A failing apply ends or is replayed; no start is queued while it is under way.
LEMMA FailedPhase ==
  ASSUME TypeInv, Failed, apply.phase # "idle"
  PROVE  apply'.phase \in {"idle", "publish"}
<1>1. apply' = Idle \/ apply' = Applying(Committed, apply.etag, TRUE, apply.recover)
  BY DEF Failed, EndFailed
<1> QED BY <1>1 DEF Idle, Applying

\* While an apply is under way, systemd has no start queued.
LEMMA NoStartQueued ==
  ASSUME RunsInv, apply.phase # "idle", NEW u \in Units
  PROVE  job[u] # "start"
BY DEF RunsInv, StartJobs

\* A systemctl call that is cut off keeps the invariant.
LEMMA LostRuns ==
  ASSUME TypeInv, RunsInv, NEW S \in SUBSET Units, NEW what \in {"start", "stop"},
         Lost(S, what), apply.phase # "idle",
         what = "start" => \A u \in S : /\ files[u] # None
                                        /\ u \in UserUnits => journal[u] = files[u]
  PROVE  RunsInv'
<1>0. /\ unit \in [Units -> UnitState] /\ job \in [Units -> {"none", "start", "stop"}]
      /\ UserUnits \subseteq Units
  BY RunsTypes
<1>1. PICK ran \in SUBSET S : \E queued \in SUBSET (S \ ran) :
       /\ unit' = [u \in Units |-> IF u \notin ran THEN unit[u]
                                   ELSE IF what = "stop" THEN Stopped ELSE Started(u)]
       /\ job' = [u \in Units |-> IF u \in queued THEN what ELSE job[u]]
       /\ unrun' = (unrun \cup Journaled) \ ran
  BY DEF Lost
<1>2. PICK queued \in SUBSET (S \ ran) :
       job' = [u \in Units |-> IF u \in queued THEN what ELSE job[u]]
  BY <1>1
<1>3. UNCHANGED <<receipt, files, journal>> /\ apply'.phase = "idle"
  BY DEF Lost, EndFailed, Idle, disk
<1>4. StartJobs'
  <2> SUFFICES ASSUME NEW u \in Units, job'[u] = "start"
               PROVE  files[u] # None /\ (u \in UserUnits => journal[u] = files[u])
    BY <1>3 DEF StartJobs
  <2>1. u \in queued /\ what = "start"
    BY <1>2, NoStartQueued
  <2> QED BY <2>1
<1>5. ASSUME NEW u \in UserUnits, Accounted(u)'
      PROVE  \/ Accounted(u) /\ u \notin Journaled /\ unit'[u].rev = unit[u].rev
             \/ journal[u] # None /\ unit'[u].rev = journal[u]
  <2>1. CASE u \notin ran
    BY <1>0, <1>1, <1>5, <2>1 DEF Accounted
  <2>2. CASE u \in ran
    <3>1. what # "stop" /\ unit'[u] = Started(u)
      BY <1>0, <1>1, <1>5, <2>2 DEF Accounted, Stopped
    <3>2. Started(u).state = "active"
      BY <3>1, <1>5 DEF Accounted
    <3> QED BY <2>2, <3>1, <3>2, StartedRuns
  <2> QED BY <2>1, <2>2
<1> QED BY <1>3, <1>4, <1>5, ApplyEnds

\* At first nothing runs and nothing is planned.
LEMMA InitRunsInv == Init => RunsInv
BY DEF Init, RunsInv, StartJobs, Published, Planned, Planning, Intended, Accounted, Unplanned, Idle, Units

\* The steps that begin and end an apply.
LEMMA EndsRunsInv ==
  ASSUME TypeInv, RunsInv,
         \/ \E force \in BOOLEAN : Tick(force)
         \/ StepThrows \/ Crash \/ PruneSnapshots
  PROVE  RunsInv'
<1>0. job \in [Units -> {"none", "start", "stop"}] /\ UserUnits \subseteq Units
  BY RunsTypes
<1>1. ASSUME UNCHANGED <<receipt, files, journal, unit, job>>, unrun \cup Journaled \subseteq unrun',
             apply'.phase \in {"idle", "publish"},
             apply'.phase = "idle" \/ \A u \in Units : job[u] # "start",
             apply.phase # "idle" \/ StartJobs
      PROVE  RunsInv'
  <2>1. StartJobs'
    BY <1>1, NoStartQueued DEF StartJobs
  <2>2. \A u \in UserUnits : Accounted(u)' => Accounted(u) /\ u \notin Journaled /\ unit'[u].rev = unit[u].rev
    BY <1>1 DEF Accounted
  <2> QED BY <1>1, <2>1, <2>2, ApplyEnds
<1>2. ASSUME NEW force \in BOOLEAN, Tick(force) PROVE RunsInv'
  <2>1. /\ UNCHANGED <<receipt, files, journal, unit, job, unrun>> /\ Journaled = {} /\ StartJobs
        /\ apply.phase = "idle"
    BY <1>2 DEF Tick, disk, systemd, Journaled, RunsInv
  <2>2. \/ apply' = Idle
        \/ apply' = Applying(desired, desired, FALSE, force) /\ ~Busy(Present)
    BY <1>2 DEF Tick, EndFailed, Present
  <2>3. apply'.phase \in {"idle", "publish"}
    BY <2>2 DEF Idle, Applying
  <2>4. apply'.phase = "idle" \/ \A u \in Units : job[u] # "start"
    <3>1. CASE apply' = Idle
      BY <3>1 DEF Idle
    <3>2. CASE ~Busy(Present)
      BY <2>1, <3>2 DEF Busy, Present, StartJobs
    <3> QED BY <2>2, <3>1, <3>2
  <2> QED BY <1>1, <2>1, <2>3, <2>4
<1>3. CASE StepThrows
  <2>1. /\ UNCHANGED <<receipt, files, journal, unit, job>> /\ unrun' = unrun \cup Journaled
        /\ apply.phase # "idle" /\ Failed
    BY <1>3 DEF StepThrows, disk, systemd
  <2> QED BY <1>1, <2>1, FailedPhase, NoStartQueued
<1>4. CASE Crash
  <2>1. /\ UNCHANGED <<receipt, files, journal, unit, job>> /\ unrun' = unrun \cup Journaled
        /\ apply.phase # "idle" /\ apply'.phase = "idle"
    BY <1>4 DEF Crash, disk, systemd, Idle
  <2> QED BY <1>1, <2>1
<1>5. CASE PruneSnapshots
  <2>1. /\ UNCHANGED <<receipt, files, journal, unit, job>> /\ unrun' = unrun /\ Journaled = {}
        /\ apply.phase # "idle" /\ apply'.phase = "idle"
    BY <1>5 DEF PruneSnapshots, EndApplied, disk, systemd, Idle, Journaled
  <2> QED BY <1>1, <2>1
<1> QED BY <1>2, <1>3, <1>4, <1>5

\* The steps up to the plan.  What the plan leaves out is on the revision the
\* receipt proves and has no other intent, so that it runs what is published.
LEMMA PlanRunsInv ==
  ASSUME TypeInv, RunsInv, (\E u \in Units : Publish(u)) \/ Observe
  PROVE  RunsInv'
<1>0. /\ apply \in ApplyState /\ files \in [Units -> Revisions \cup {None}]
      /\ unit \in [Units -> UnitState] /\ UserUnits \subseteq Units
      /\ apply.phase = "publish" /\ Journaled = {}
      /\ \A u \in Units : job[u] # "start"
  BY RunsTypes, NoStartQueued DEF Publish, Observe, Journaled
<1>1. ASSUME NEW u \in Units, Publish(u) PROVE RunsInv'
  <2>1. UNCHANGED <<receipt, journal, unit, job, apply, unrun>>
    BY <1>1 DEF Publish, systemd
  <2>2. StartJobs'
    BY <1>0, <2>1 DEF StartJobs
  <2>3. Published' /\ Planned' /\ Unplanned'
    BY <1>0, <2>1 DEF Published, Planned, Planning, Unplanned
  <2>4. Intended'
    BY <2>1 DEF RunsInv, Intended, Accounted, Journaled, Proved
  <2> QED BY <2>2, <2>3, <2>4 DEF RunsInv
<1>2. CASE Observe /\ Busy(Present \cup Removed)
  <2>1. UNCHANGED <<receipt, files, journal, unit, job, unrun>> /\ apply'.phase = "idle"
    BY <1>2 DEF Observe, EndFailed, Idle, disk, systemd
  <2>2. StartJobs'
    BY <1>0, <2>1 DEF StartJobs
  <2>3. \A u \in UserUnits : Accounted(u)' => Accounted(u) /\ u \notin Journaled /\ unit'[u].rev = unit[u].rev
    BY <1>0, <2>1 DEF Accounted
  <2> QED BY <2>1, <2>2, <2>3, ApplyEnds
<1>3. CASE Observe /\ ~Busy(Present \cup Removed)
  <2>1. /\ UNCHANGED <<receipt, files, journal, unit, job, unrun>>
        /\ apply' = [apply EXCEPT !.phase = "stop", !.plan = ToActivate]
        /\ Unpublished \cup Stale = {}
    BY <1>3 DEF Observe, disk, systemd
  <2>2. apply'.phase = "stop" /\ apply'.plan = ToActivate /\ apply'.manifest = apply.manifest
    BY <1>0, <2>1 DEF ApplyState
  <2>3. StartJobs'
    BY <1>0, <2>1 DEF StartJobs
  <2>4. Published'
    <3>1. \A u \in Units : files[u] = Wanted(u)
      BY <2>1 DEF Unpublished, Stale
    <3> QED BY <2>1, <2>2, <3>1 DEF Published, Wanted
  <2>5. Planned'
    BY <2>1, <2>2 DEF Planned, Planning, ToActivate, Present
  <2>6. Intended'
    BY <1>0, <2>1, <2>2 DEF RunsInv, Intended, Accounted, Journaled, Proved
  <2>7. ASSUME NEW u \in UserUnits, Accounted(u), files[u] # None, u \notin ToActivate
        PROVE  unit[u].rev = files[u]
    <3>1. u \in Present /\ unit[u].state = "active" /\ u \notin Pending
      BY <1>0, <2>7 DEF Present, Accounted, ToActivate
    <3>2. files[u] = Proved(u) /\ journal[u] \in {None, files[u]}
      BY <2>7, <3>1 DEF Pending
    <3> QED BY <1>0, <2>7, <3>2 DEF RunsInv, Intended
  <2>8. Unplanned'
    BY <2>1, <2>2, <2>7 DEF Unplanned, Accounted
  <2> QED BY <2>3, <2>4, <2>5, <2>6, <2>8 DEF RunsInv
<1> QED BY <1>1, <1>2, <1>3

\* Stopping what the manifest no longer has.
LEMMA StopRunsInv == ASSUME TypeInv, RunsInv, StopRemoved PROVE RunsInv'
<1>0. /\ unit \in [Units -> UnitState] /\ UserUnits \subseteq Units /\ apply.phase = "stop"
      /\ UNCHANGED <<receipt, files, journal>> /\ Removed \in SUBSET Units /\ "system" \in Phases
  BY RunsTypes DEF StopRemoved, disk, Removed, Phases
<1>1. CASE Lost(Removed, "stop")
  BY <1>0, <1>1, LostRuns
<1>2. CASE Run(Removed, "stop") /\ Enter("system") /\ UNCHANGED job
  <2>1. apply'.phase = "system" /\ apply'.manifest = apply.manifest /\ apply'.plan = apply.plan
    BY <1>0, <1>2, EnterPhase
  <2>2. /\ unit' = [u \in Units |-> IF u \notin Removed THEN unit[u] ELSE Stopped]
        /\ unrun' = unrun \ Removed
    BY <1>2 DEF Run
  <2>3. \A u \in UserUnits : Accounted(u)' => Accounted(u) /\ unit'[u] = unit[u]
    BY <1>0, <2>2 DEF Accounted, Stopped
  <2>4. StartJobs'
    BY <1>0, <1>2, NoStartQueued DEF StartJobs
  <2>5. Published' /\ Planned'
    BY <1>0, <2>1 DEF RunsInv, Published, Planned, Planning, Wanted, Present
  <2>6. Intended' /\ Unplanned'
    BY <1>0, <2>1, <2>3 DEF RunsInv, Intended, Unplanned, Planning, Journaled, Proved
  <2> QED BY <2>4, <2>5, <2>6 DEF RunsInv
<1> QED BY <1>1, <1>2 DEF StopRemoved

\* Starting the planned units of the system manager touches no user unit.
LEMMA SystemRunsInv == ASSUME TypeInv, RunsInv, ActivateSystem PROVE RunsInv'
<1> DEFINE S == apply.plan \cap SystemUnits
<1>0. /\ unit \in [Units -> UnitState] /\ UserUnits \subseteq Units /\ apply.phase = "system"
      /\ UNCHANGED <<receipt, files, journal>> /\ S \in SUBSET Units /\ "journal" \in Phases
      /\ \A u \in UserUnits : u \notin S
      /\ Activate(S, "journal") /\ Journaled = {}
  BY RunsTypes DEF ActivateSystem, disk, Phases, Journaled
<1>1. \A u \in S : files[u] # None
  BY <1>0 DEF RunsInv, Planned, Planning, Present
<1>2. CASE Lost(S, "start")
  BY <1>0, <1>1, <1>2, LostRuns
<1>3. CASE Run(S, "start") /\ UNCHANGED job
  <2>1. /\ unit' = [u \in Units |-> IF u \notin S THEN unit[u] ELSE Started(u)]
        /\ unrun' = unrun \ S
    BY <1>3 DEF Run
  <2>2. \A u \in UserUnits : Accounted(u)' => Accounted(u) /\ unit'[u] = unit[u]
    BY <1>0, <2>1 DEF Accounted
  <2>3. StartJobs'
    BY <1>0, <1>3, NoStartQueued DEF StartJobs
  <2>4. CASE Failed
    <3>1. apply'.phase \in {"idle", "publish"}
      BY <1>0, <2>4, FailedPhase
    <3> QED BY <1>0, <2>2, <2>3, <3>1, ApplyEnds
  <2>5. CASE Enter("journal")
    <3>1. apply'.phase = "journal" /\ apply'.manifest = apply.manifest /\ apply'.plan = apply.plan
      BY <1>0, <2>5, EnterPhase
    <3>2. Published' /\ Planned'
      BY <1>0, <3>1 DEF RunsInv, Published, Planned, Planning, Wanted, Present
    <3>3. Intended' /\ Unplanned'
      BY <1>0, <2>2, <3>1 DEF RunsInv, Intended, Unplanned, Planning, Journaled, Proved
    <3> QED BY <2>3, <3>2, <3>3 DEF RunsInv
  <2> QED BY <1>0, <1>2, <1>3, <2>4, <2>5 DEF Activate
<1> QED BY <1>0, <1>2, <1>3 DEF Activate

\* The journal takes the revision of every planned user unit.
LEMMA IntentRunsInv == ASSUME TypeInv, RunsInv, RecordIntent PROVE RunsInv'
<1>0. /\ UNCHANGED <<receipt, files, unit, job, unrun>> /\ apply.phase = "journal"
      /\ journal' = [u \in UserUnits |-> IF u \in apply.plan THEN files[u] ELSE journal[u]]
      /\ Enter("user") /\ "user" \in Phases
  BY DEF RecordIntent, systemd, Phases
<1>1. apply'.phase = "user" /\ apply'.manifest = apply.manifest /\ apply'.plan = apply.plan
  BY <1>0, EnterPhase
<1>2. StartJobs'
  BY <1>0, NoStartQueued DEF StartJobs
<1>3. Published' /\ Planned'
  BY <1>0, <1>1 DEF RunsInv, Published, Planned, Planning, Wanted, Present
<1>4. Intended'
  BY <1>0, <1>1 DEF RunsInv, Intended, Accounted, Journaled, Proved
<1>5. Unplanned'
  BY <1>0, <1>1 DEF RunsInv, Unplanned, Accounted, Planning
<1> QED BY <1>2, <1>3, <1>4, <1>5 DEF RunsInv

\* Starting the planned user units puts them on their intents' revisions.
LEMMA UserRunsInv == ASSUME TypeInv, RunsInv, ActivateUser PROVE RunsInv'
<1> DEFINE S == apply.plan \cap UserUnits
<1>0. /\ unit \in [Units -> UnitState] /\ UserUnits \subseteq Units /\ apply.phase = "user"
      /\ UNCHANGED <<receipt, files, journal>> /\ S \in SUBSET Units /\ "prove" \in Phases
      /\ Activate(S, "prove") /\ Journaled = S
  BY RunsTypes DEF ActivateUser, disk, Phases, Journaled
<1>1. \A u \in S : files[u] # None /\ journal[u] = files[u]
  BY <1>0 DEF RunsInv, Planned, Planning, Present
<1>2. CASE Lost(S, "start")
  BY <1>0, <1>1, <1>2, LostRuns
<1>3. CASE Run(S, "start") /\ UNCHANGED job
  <2>1. /\ unit' = [u \in Units |-> IF u \notin S THEN unit[u] ELSE Started(u)]
        /\ unrun' = unrun \ S
    BY <1>3 DEF Run
  <2>2. ASSUME NEW u \in UserUnits, Accounted(u)'
        PROVE  \/ u \notin S /\ Accounted(u) /\ unit'[u].rev = unit[u].rev
               \/ u \in S /\ journal[u] # None /\ unit'[u].rev = journal[u]
    <3>1. CASE u \notin S
      BY <1>0, <2>1, <2>2, <3>1 DEF Accounted
    <3>2. CASE u \in S
      <4>1. unit'[u] = Started(u)
        BY <1>0, <2>1, <3>2
      <4>2. Started(u).state = "active"
        BY <2>2, <4>1 DEF Accounted
      <4> QED BY <1>1, <3>2, <4>1, <4>2, StartedRuns
    <3> QED BY <3>1, <3>2
  <2>3. StartJobs'
    BY <1>0, <1>3, NoStartQueued DEF StartJobs
  <2>4. CASE Failed
    <3>1. apply'.phase \in {"idle", "publish"}
      BY <1>0, <2>4, FailedPhase
    <3> QED BY <1>0, <2>2, <2>3, <3>1, ApplyEnds
  <2>5. CASE Enter("prove")
    <3>1. apply'.phase = "prove" /\ apply'.manifest = apply.manifest /\ apply'.plan = apply.plan
      BY <1>0, <2>5, EnterPhase
    <3>2. Published' /\ Planned'
      BY <1>0, <3>1 DEF RunsInv, Published, Planned, Planning, Wanted, Present
    <3>3. Intended'
      BY <1>0, <2>2, <3>1 DEF RunsInv, Intended, Proved
    <3>4. ASSUME NEW u \in UserUnits, Accounted(u)', files[u] # None
          PROVE  unit'[u].rev = files[u]
      BY <1>0, <1>1, <2>2, <3>4 DEF RunsInv, Unplanned, Planning
    <3>5. Unplanned'
      BY <1>0, <3>4 DEF Unplanned
    <3> QED BY <2>3, <3>2, <3>3, <3>5 DEF RunsInv
  <2> QED BY <1>0, <1>2, <1>3, <2>4, <2>5 DEF Activate
<1> QED BY <1>0, <1>2, <1>3 DEF Activate

\* A unit the manifest of a proved apply wants, and that is accounted for, runs
\* the manifest's revision.
LEMMA ProvedRuns ==
  ASSUME TypeInv, RunsInv, NEW u \in UserUnits, Accounted(u),
         apply.phase \in {"prove", "stage", "snapshot", "receipt", "acknowledge"}, Wanted(u) # None
  PROVE  unit[u].rev = Wanted(u)
<1>1. UserUnits \subseteq Units
  BY RunsTypes
<1>2. files[u] = Wanted(u)
  BY <1>1 DEF RunsInv, Published
<1> QED BY <1>2 DEF RunsInv, Unplanned

\* The final proof, and the acknowledgement of a replay.
LEMMA ProveRunsInv == ASSUME TypeInv, RunsInv, Prove PROVE RunsInv'
<1>0. /\ UNCHANGED <<receipt, files, unit, job, unrun>> /\ apply.phase = "prove" /\ Journaled = {}
      /\ apply.manifest \in Manifests /\ None \notin Manifests /\ "stage" \in Phases
  BY RunsTypes DEF Prove, systemd, Journaled, HasManifest, Phases
<1>1. StartJobs'
  BY <1>0, NoStartQueued DEF StartJobs
<1>2. \A u \in UserUnits : Accounted(u)' => Accounted(u) /\ u \notin Journaled /\ unit'[u].rev = unit[u].rev
  BY <1>0 DEF Accounted
<1>3. CASE Failed /\ UNCHANGED journal
  BY <1>0, <1>1, <1>2, <1>3, FailedPhase, ApplyEnds
<1>4. CASE apply' = Idle /\ UNCHANGED journal
  <2>1. apply'.phase = "idle"
    BY <1>4 DEF Idle
  <2> QED BY <1>0, <1>1, <1>2, <1>4, <2>1, ApplyEnds
<1>5. CASE apply' = Idle /\ receipt = apply.manifest /\ journal' = NoIntent
  <2>1. apply'.phase = "idle"
    BY <1>5 DEF Idle
  <2>2. Published' /\ Planned' /\ Unplanned'
    BY <2>1 DEF Published, Planned, Planning, Unplanned
  <2>3. ASSUME NEW u \in UserUnits, Accounted(u), Proved(u) # None PROVE unit[u].rev = Proved(u)
    <3>1. Proved(u) = Wanted(u)
      BY <1>0, <1>5 DEF Proved, Wanted
    <3> QED BY <1>0, <2>3, <3>1, ProvedRuns
  <2>4. Intended'
    BY <1>0, <1>2, <1>5, <2>3 DEF Intended, NoIntent, Proved
  <2> QED BY <1>1, <2>2, <2>4 DEF RunsInv
<1>6. CASE Enter("stage") /\ UNCHANGED journal
  <2>1. apply'.phase = "stage" /\ apply'.manifest = apply.manifest
    BY <1>0, <1>6, EnterPhase
  <2>2. Published' /\ Planned'
    BY <1>0, <2>1 DEF RunsInv, Published, Planned, Planning, Wanted
  <2>3. Intended' /\ Unplanned'
    BY <1>0, <1>2, <1>6, <2>1 DEF RunsInv, Intended, Unplanned, Planning, Proved
  <2> QED BY <1>1, <2>2, <2>3 DEF RunsInv
<1> QED BY <1>3, <1>4, <1>5, <1>6 DEF Prove, EndFailed

\* The commit.  The receipt names what runs when it is written, and so does the
\* journal when it is cleared.
LEMMA CommitRunsInv ==
  ASSUME TypeInv, ReplayInv, RunsInv,
         StageSnapshot \/ WriteSnapshot \/ WriteReceipt \/ ClearJournal
  PROVE  RunsInv'
<1>0. /\ UNCHANGED <<files, unit, job, unrun>> /\ Journaled = {} /\ apply.phase # "idle"
      /\ apply.phase \in {"stage", "snapshot", "receipt", "acknowledge"}
      /\ apply.manifest \in Manifests /\ None \notin Manifests
  BY RunsTypes
     DEF StageSnapshot, WriteSnapshot, WriteReceipt, ClearJournal, systemd, Journaled, HasManifest
<1>1. /\ apply'.phase \in {"snapshot", "receipt", "acknowledge", "prune"}
      /\ apply'.manifest = apply.manifest
  BY EnterPhase DEF StageSnapshot, WriteSnapshot, WriteReceipt, ClearJournal, Phases
<1>2. StartJobs'
  BY <1>0, NoStartQueued DEF StartJobs
<1>3. Published' /\ Planned'
  BY <1>0, <1>1 DEF RunsInv, Published, Planned, Planning, Wanted
<1>4. Unplanned'
  BY <1>0, <1>1 DEF RunsInv, Unplanned, Planning, Accounted
<1>5. Intended'
  <2>1. CASE UNCHANGED <<receipt, journal>>
    BY <1>0, <2>1 DEF RunsInv, Intended, Proved, Accounted
  <2>2. ASSUME NEW u \in UserUnits, Accounted(u), Wanted(u) # None PROVE unit[u].rev = Wanted(u)
    BY <1>0, <2>2, ProvedRuns
  <2>3. CASE WriteReceipt
    <3>1. receipt' = apply.manifest /\ journal' = journal
      BY <2>3 DEF WriteReceipt
    <3>2. \A u \in UserUnits : Proved(u)' = Wanted(u)
      BY <1>0, <3>1 DEF Proved, Wanted
    <3> QED BY <1>0, <2>2, <3>1, <3>2 DEF RunsInv, Intended, Accounted
  <2>4. CASE ClearJournal
    <3>1. receipt' = apply.manifest /\ journal' = NoIntent
      BY <2>4 DEF ClearJournal, ReplayInv, Committing
    <3>2. \A u \in UserUnits : Proved(u)' = Wanted(u)
      BY <1>0, <3>1 DEF Proved, Wanted
    <3> QED BY <1>0, <2>2, <3>1, <3>2 DEF Intended, Accounted, NoIntent
  <2> QED BY <2>1, <2>3, <2>4 DEF StageSnapshot, WriteSnapshot, WriteReceipt, ClearJournal
<1> QED BY <1>2, <1>3, <1>4, <1>5 DEF RunsInv

\* The environment: a queued start loads the intent's revision.
LEMMA EnvironmentRunsInv ==
  ASSUME TypeInv, RunsInv,
         \/ \E m \in Manifests : Change(m)
         \/ \E u \in Units : JobRuns(u) \/ ServiceFails(u)
  PROVE  RunsInv'
<1>0. /\ unit \in [Units -> UnitState] /\ job \in [Units -> {"none", "start", "stop"}]
      /\ UserUnits \subseteq Units
      /\ UNCHANGED <<receipt, files, journal, apply>>
  BY RunsTypes DEF Change, JobRuns, ServiceFails, disk
<1>1. Published' /\ Planned'
  BY <1>0 DEF RunsInv, Published, Planned, Planning, Wanted, Present
<1>2. ASSUME \A u \in Units : job'[u] = "start" => job[u] = "start",
             \A u \in UserUnits : Accounted(u)' =>
               \/ Accounted(u) /\ unit'[u].rev = unit[u].rev
               \/ job[u] = "start" /\ unit'[u] = Started(u)
      PROVE  RunsInv'
  <2>1. StartJobs'
    BY <1>0, <1>2 DEF RunsInv, StartJobs
  <2>2. ASSUME NEW u \in UserUnits, Accounted(u)', ~(Accounted(u) /\ unit'[u].rev = unit[u].rev)
        PROVE  apply.phase = "idle" /\ unit'[u].rev = journal[u] /\ journal[u] # None
    <3>1. job[u] = "start" /\ unit'[u] = Started(u)
      BY <1>2, <2>2
    <3>2. apply.phase = "idle" /\ journal[u] = files[u] /\ files[u] # None
      BY <1>0, <3>1 DEF RunsInv, StartJobs
    <3>3. Started(u).state = "active"
      BY <2>2, <3>1 DEF Accounted
    <3> QED BY <3>1, <3>2, <3>3, StartedRuns
  <2>3. Intended'
    BY <1>0, <2>2 DEF RunsInv, Intended, Proved, Journaled
  <2>4. Unplanned'
    BY <1>0, <2>2 DEF RunsInv, Unplanned, Planning
  <2> QED BY <1>1, <2>1, <2>3, <2>4 DEF RunsInv
<1>3. ASSUME NEW m \in Manifests, Change(m) PROVE RunsInv'
  <2>1. UNCHANGED <<unit, job, unrun>>
    BY <1>3 DEF Change, systemd
  <2> QED BY <1>2, <2>1 DEF Accounted
<1>4. ASSUME NEW u \in Units, JobRuns(u) PROVE RunsInv'
  <2>1. /\ unit' = [unit EXCEPT ![u] = IF job[u] = "stop" THEN Stopped ELSE Started(u)]
        /\ job' = [job EXCEPT ![u] = "none"] /\ unrun' = unrun \ {u} /\ job[u] # "none"
    BY <1>4 DEF JobRuns
  <2>2. \A v \in Units : job'[v] = "start" => job[v] = "start"
    BY <1>0, <2>1
  <2>3. ASSUME NEW v \in UserUnits, Accounted(v)'
        PROVE  \/ Accounted(v) /\ unit'[v].rev = unit[v].rev
               \/ job[v] = "start" /\ unit'[v] = Started(v)
    <3>1. CASE v # u
      BY <1>0, <2>1, <2>3, <3>1 DEF Accounted
    <3>2. CASE v = u /\ job[u] = "stop"
      BY <1>0, <2>1, <2>3, <3>2 DEF Accounted, Stopped
    <3>3. CASE v = u /\ job[u] = "start"
      BY <1>0, <2>1, <3>3
    <3> QED BY <1>0, <2>1, <3>1, <3>2, <3>3
  <2> QED BY <1>2, <2>2, <2>3
<1>5. ASSUME NEW u \in Units, ServiceFails(u) PROVE RunsInv'
  <2>1. /\ unit' = [unit EXCEPT ![u] = [state |-> "failed", rev |-> None]]
        /\ UNCHANGED <<job, unrun>>
    BY <1>5 DEF ServiceFails
  <2>2. \A v \in UserUnits : Accounted(v)' => Accounted(v) /\ unit'[v].rev = unit[v].rev
    BY <1>0, <2>1 DEF Accounted
  <2> QED BY <1>2, <2>1, <2>2
<1> QED BY <1>3, <1>4, <1>5

\* Every step keeps the invariant.
LEMMA NextRunsInv == TypeInv /\ ReplayInv /\ RunsInv /\ [Next]_vars => RunsInv'
<1> SUFFICES ASSUME TypeInv, ReplayInv, RunsInv, [Next]_vars PROVE RunsInv'
  OBVIOUS
<1>1. CASE UNCHANGED vars
  BY <1>1 DEF vars, disk, systemd, RunsInv, StartJobs, Published, Planned, Planning, Intended,
              Accounted, Unplanned, Journaled, Proved, Wanted, Present
<1> QED
  BY <1>1, EndsRunsInv, PlanRunsInv, StopRunsInv, SystemRunsInv, IntentRunsInv, UserRunsInv,
     ProveRunsInv, CommitRunsInv, EnvironmentRunsInv DEF Next, Step

\* However an apply is cut off, replayed, deferred or overtaken by a job systemd
\* runs later, a user unit the receipt covers, with no intent left in the journal,
\* runs the receipt's revision, but for units whose journaled command never ran.
THEOREM ReceiptAlwaysRuns == Spec => []ReceiptRuns
<1>1. TypeInv /\ RunsInv => ReceiptRuns
  <2> SUFFICES ASSUME TypeInv, RunsInv, NEW u \in UserUnits,
                      Proved(u) # None, unit[u].state = "active", journal[u] = None, u \notin unrun
               PROVE  unit[u].rev = Proved(u)
    BY DEF ReceiptRuns
  <2>1. UserUnits \subseteq Units
    BY RunsTypes
  <2>2. u \notin Journaled
    BY <2>1, RunsTypes DEF RunsInv, Planned, Planning, Present, Journaled
  <2> QED BY <2>2 DEF RunsInv, Intended, Accounted
<1> QED BY InitTypeInv, NextTypeInv, InitReplayInv, NextReplayInv, InitRunsInv, NextRunsInv, <1>1,
           PTL DEF Spec
=============================================================================
