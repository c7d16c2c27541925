----------------------------- MODULE RetryQueue -----------------------------
(***************************************************************************)
(* The bounded persistent retry queue of `clawdi daemon`                   *)
(* (packages/cli/src/serve/queue.ts, class RetryQueue) with its callers in *)
(* sync-engine.ts: producers that enqueue at once (the skill watcher),     *)
(* producers that wait for a free slot (the session scan), the drain loop, *)
(* the heartbeat that reports drops, and the process itself, which may     *)
(* crash, stop gracefully and start again from queue.jsonl.                *)
(*                                                                         *)
(* JavaScript runs one synchronous stretch at a time, so every stretch     *)
(* between two awaits is one action.  The write of queue.jsonl (tmp file   *)
(* then rename) is one await: the file changes at the rename or not at     *)
(* all.  A value that may be null in the code is a set of at most one      *)
(* element here.                                                           *)
(***************************************************************************)
EXTENDS QueueOps

CONSTANTS Payloads,     \* what an item asks to project (push of a hash, delete)
          Producers,    \* concurrent callers of enqueueWhenAvailable
          MaxAttempts,  \* MAX_QUEUE_ATTEMPTS (30) of the drain loop
          LegacyDisks,  \* queue.jsonl files an earlier binary may have left
          Junk,         \* a line isQueueItem rejects
          MaxVersion,   \* bound: versions stamped in one life of the process
          MaxBeats,     \* bound: heartbeats sent in one life of the process
          MaxStarts     \* bound: starts of the process

Item == [key : Keys, op : Payloads, version : Nat, attempts : Nat]
Request == [key : Keys, op : Payloads]

DropReasons == {"capacity_skills", "capacity_sessions", "permanent",
                "retry_exhausted", "oversized", "invalid_persisted"}
NoDrops == [r \in DropReasons |-> 0]

ASSUME RetryQueueAssumption ==
  /\ MaxAttempts \in Nat \ {0}
  /\ MaxVersion \in Nat /\ MaxBeats \in Nat /\ MaxStarts \in Nat
  /\ Junk \notin Item
  /\ \A d \in LegacyDisks : /\ d \in Seq(Item \cup {Junk})
                            /\ \A m \in Modules :
                                 Cardinality({i \in DOMAIN d : d[i] # Junk /\ ModuleOf(d[i].key) = m})
                                   <= MaxItems

VARIABLES
  phase,        \* "down", "up", or "stopping" (graceful: abort, then flushPersist)
  items, nextVersion, droppedByReason,
  pendingBlob,  \* {} or the one snapshot waiting to be written
  writing,      \* {} or the one snapshot flushPending is writing (flushActive)
  disk,         \* the lines of queue.jsonl
  stale,        \* the last write of queue.jsonl failed
  wants,        \* what each waiting producer wants to enqueue ({} when idle)
  capacityWaiters, \* producers blocked until a slot may be free
  available,    \* modules whose slot can hand out a lease
  drain,        \* {} or the one item the drain loop is processing
  asleep,       \* the drain loop waits in waitForChange
  beat,         \* {} or the one drop delta of a heartbeat in flight
  beats,        \* heartbeats sent so far
  starts,       \* starts of the process so far
  latest,       \* history: version last accepted for each key (0: none)
  settled,      \* history: version of each key last evicted, done or given up
  drops,        \* history: drops of this life of the process, per reason
  reported      \* history: drops the server counted in this life, per reason

queueVars == <<items, nextVersion, droppedByReason, pendingBlob, writing>>
waitVars == <<wants, capacityWaiters>>
drainVars == <<available, drain, asleep>>
beatVars == <<beat, beats, reported>>
historyVars == <<latest, settled, drops>>
vars == <<phase, queueVars, disk, stale, waitVars, drainVars, beatVars, starts, historyVars>>

Line == Item \cup {Junk}

TypeOK ==
  /\ phase \in {"down", "up", "stopping"}
  /\ items \in Seq(Item)
  /\ nextVersion \in Nat
  /\ droppedByReason \in [DropReasons -> Nat]
  /\ pendingBlob \subseteq Seq(Item)
  /\ writing \subseteq Seq(Item)
  /\ disk \in Seq(Line)
  /\ stale \in BOOLEAN
  /\ wants \in [Producers -> SUBSET Request]
  /\ capacityWaiters \subseteq Producers
  /\ available \subseteq Modules
  /\ drain \subseteq Item
  /\ asleep \in BOOLEAN
  /\ beat \subseteq [DropReasons -> Nat]
  /\ beats \in Nat
  /\ starts \in Nat
  /\ latest \in [Keys -> Nat]
  /\ settled \in [Keys -> Nat]
  /\ drops \in [DropReasons -> Nat]
  /\ reported \in [DropReasons -> Nat]

Init ==
  /\ phase = "down"
  /\ items = <<>> /\ nextVersion = 1 /\ droppedByReason = NoDrops
  /\ pendingBlob = {} /\ writing = {} /\ stale = FALSE
  /\ disk \in LegacyDisks
  /\ wants = [p \in Producers |-> {}] /\ capacityWaiters = {}
  /\ available = {} /\ drain = {} /\ asleep = FALSE
  /\ beat = {} /\ beats = 0 /\ starts = 0
  /\ latest = [k \in Keys |-> 0] /\ settled = [k \in Keys |-> 0]
  /\ drops = NoDrops /\ reported = NoDrops

-----------------------------------------------------------------------------
(***************************************************************************)
(* persist: snapshot now, write later.  A running flush picks the snapshot *)
(* up when its current write ends; otherwise the flush starts at once and  *)
(* takes the snapshot in the same stretch.                                 *)
(***************************************************************************)
persistDropping(s) ==   \* Mutant: a snapshot taken during a write is ignored.
  IF writing # {} THEN UNCHANGED <<pendingBlob, writing>> ELSE pendingBlob' = {} /\ writing' = {s}

persist(s) ==
  IF writing # {}
  THEN pendingBlob' = {s} /\ UNCHANGED writing
  ELSE pendingBlob' = {} /\ writing' = {s}

\* persist(t) in a stretch that began with the array items: when bumpAttempts has
\* changed it to s before, s was persisted first, and a flush that started with s
\* finds t waiting.
persistAfter(s, t) ==
  IF s = items
  THEN persist(t)
  ELSE pendingBlob' = {t} /\ writing' = (IF writing # {} THEN writing ELSE {s})

\* flushPending after a write: the next snapshot, or the end of the flush.
NextBlob == writing' = pendingBlob /\ pendingBlob' = {}

recordDrop(counts, r) == [counts EXCEPT ![r] = @ + 1]

CapacityReason(m) == IF m = "skills" THEN "capacity_skills" ELSE "capacity_sessions"

(***************************************************************************)
(* enqueue(item): stamp, replace or append, evict, persist, wake the drain *)
(* loop.  Evicting removes the oldest item of the module and counts it.    *)
(***************************************************************************)
enqueue(req) ==
  LET it == [key |-> req.key, op |-> req.op, version |-> nextVersion, attempts |-> 0]
      m == ModuleOf(it.key)
      pushed == Requeue(items, it)
      evicted == pushed[OldestOf(pushed, m)]
  IN /\ nextVersion <= MaxVersion
     /\ nextVersion' = nextVersion + 1
     /\ items' = Enqueued(items, it)
     /\ IF Overflows(pushed, m)
        THEN /\ droppedByReason' = recordDrop(droppedByReason, CapacityReason(m))
             /\ drops' = recordDrop(drops, CapacityReason(m))
             /\ settled' = [settled EXCEPT ![evicted.key] = evicted.version]
        ELSE UNCHANGED <<droppedByReason, drops, settled>>
     /\ persist(items')
     /\ asleep' = FALSE
     /\ latest' = [latest EXCEPT ![it.key] = it.version]

\* A direct producer (enqueueIfChanged, reconcileAgentSkillProjection), which
\* does not look at the abort signal again after hashing the files.
Enqueue(req) ==
  /\ phase # "down"
  /\ enqueue(req)
  /\ UNCHANGED <<phase, disk, stale, waitVars, available, drain, beatVars, starts>>

\* enqueueWhenAvailable is called: the first check follows in the same stretch
\* or, for a producer that was woken, in a later one.
CallEnqueueWhenAvailable(p, req) ==
  /\ phase = "up"
  /\ wants[p] = {}
  /\ wants' = [wants EXCEPT ![p] = {req}]
  /\ UNCHANGED <<phase, queueVars, disk, stale, capacityWaiters, drainVars, beatVars, starts,
                 historyVars>>

HasRoomFor(req) ==
  \/ IndexOfKey(items, req.key) > 0
  \/ moduleDepth(items, ModuleOf(req.key)) < MaxItems

\* One turn of its loop: enqueue, or block in waitForCapacityChange.
EnqueueWhenAvailable(p) ==
  /\ phase = "up"
  /\ p \notin capacityWaiters
  /\ \E req \in wants[p] :
       \/ /\ HasRoomFor(req)
          /\ enqueue(req)
          /\ wants' = [wants EXCEPT ![p] = {}]
          /\ UNCHANGED <<phase, disk, stale, capacityWaiters, available, drain, beatVars, starts>>
       \/ /\ ~HasRoomFor(req)
          /\ capacityWaiters' = capacityWaiters \cup {p}
          /\ UNCHANGED <<phase, queueVars, disk, stale, wants, drainVars, beatVars, starts,
                         historyVars>>

\* The scope of the scan is aborted: the wait ends and null is returned.
AbortEnqueue(p) ==
  /\ phase # "down"
  /\ wants[p] # {}
  /\ wants' = [wants EXCEPT ![p] = {}]
  /\ capacityWaiters' = capacityWaiters \ {p}
  /\ UNCHANGED <<phase, queueVars, disk, stale, drainVars, beatVars, starts, historyVars>>

-----------------------------------------------------------------------------
(***************************************************************************)
(* The drain loop.                                                         *)
(***************************************************************************)

Eligible(it) == ModuleOf(it.key) \in available

\* Mutant: the drain loop is not woken.
ModuleChangedSilently(m) ==
  /\ phase = "up"
  /\ m \notin available => \A it \in drain : ModuleOf(it.key) # m
  /\ available' = IF m \in available THEN available \ {m} ELSE available \cup {m}
  /\ UNCHANGED <<phase, queueVars, disk, stale, waitVars, drain, asleep, beatVars, starts,
                 historyVars>>

\* moduleOptions.changed: a module slot opens or closes and the drain loop wakes.
\* A slot reopens only after SyncScope.join, when its lease has been released.
ModuleChanged(m) ==
  /\ phase = "up"
  /\ m \notin available => \A it \in drain : ModuleOf(it.key) # m
  /\ available' = IF m \in available THEN available \ {m} ELSE available \cup {m}
  /\ asleep' = FALSE
  /\ UNCHANGED <<phase, queueVars, disk, stale, waitVars, drain, beatVars, starts, historyVars>>

\* peek: the oldest item whose module can lend its slot, or sleep.
DrainPeek ==
  /\ phase = "up" /\ drain = {} /\ ~asleep
  /\ IF \E i \in DOMAIN items : Eligible(items[i])
     THEN /\ drain' = {items[SelectInSeq(items, Eligible)]}
          /\ UNCHANGED asleep
     ELSE asleep' = TRUE /\ UNCHANGED drain
  /\ UNCHANGED <<phase, queueVars, disk, stale, waitVars, available, beatVars, starts, historyVars>>

\* waitForChange gives up after QUEUE_IDLE_WAKEUP_MS.
DrainTimeout ==
  /\ phase = "up" /\ asleep
  /\ asleep' = FALSE
  /\ UNCHANGED <<phase, queueVars, disk, stale, waitVars, available, drain, beatVars, starts,
                 historyVars>>

\* Mutant: notifyCapacityWaiters is not called.
MarkDoneSilently(it, s) ==
  /\ items' = markDoneIfVersion(s, it)
  /\ IF IsCurrent(s, it)
     THEN persistAfter(s, items') /\ settled' = [settled EXCEPT ![it.key] = it.version]
     ELSE UNCHANGED <<pendingBlob, writing, settled>>
  /\ UNCHANGED capacityWaiters

\* markDoneIfVersion as the drain loop calls it: persist and wake the waiters
\* only when the item was still the one processed.
MarkDone(it, s) ==
  IF IsCurrent(s, it)
  THEN /\ items' = markDoneIfVersion(s, it)
       /\ persistAfter(s, items')
       /\ capacityWaiters' = {}
       /\ settled' = [settled EXCEPT ![it.key] = it.version]
  ELSE /\ items' = s
       /\ UNCHANGED <<pendingBlob, writing, capacityWaiters, settled>>

\* processQueueItem came back with an outcome: the item is done.
DrainDone ==
  /\ phase = "up"
  /\ \E it \in drain : MarkDone(it, items)
  /\ drain' = {}
  /\ UNCHANGED <<phase, nextVersion, droppedByReason, disk, stale, wants, available, asleep,
                 beatVars, starts, latest, drops>>

\* It threw a retryable error and attempts are left: bumpAttempts, sleep, retry.
DrainRetry ==
  /\ phase = "up"
  /\ \E it \in drain :
       /\ it.attempts + 1 < MaxAttempts
       /\ items' = bumpAttempts(items, it)
       /\ IF IsCurrent(items, it) THEN persist(items') ELSE UNCHANGED <<pendingBlob, writing>>
  /\ drain' = {}
  /\ UNCHANGED <<phase, nextVersion, droppedByReason, disk, stale, waitVars, available, asleep,
                 beatVars, starts, historyVars>>

\* It threw an error that ends the item: bumpAttempts, then dropItem, which
\* counts the drop even when a newer version has replaced the item.
DrainDrop(reason) ==
  /\ phase = "up"
  /\ \E it \in drain :
       /\ reason \in {"permanent", "oversized"}
            \cup (IF it.attempts + 1 >= MaxAttempts THEN {"retry_exhausted"} ELSE {})
       /\ droppedByReason' = recordDrop(droppedByReason, reason)
       /\ drops' = recordDrop(drops, reason)
       /\ MarkDone(it, bumpAttempts(items, it))
  /\ drain' = {}
  /\ UNCHANGED <<phase, nextVersion, disk, stale, wants, available, asleep, beatVars, starts,
                 latest>>

\* The lease was aborted under it: the item stays as it is.
DrainAbandon ==
  /\ phase # "down"
  /\ \E it \in drain : phase = "stopping" \/ ~Eligible(it)
  /\ drain' = {}
  /\ UNCHANGED <<phase, queueVars, disk, stale, waitVars, available, asleep, beatVars, starts,
                 historyVars>>

-----------------------------------------------------------------------------
(***************************************************************************)
(* The heartbeat: drain the counters, post, restore them on failure.       *)
(***************************************************************************)

AddDrops(a, b) == [r \in DropReasons |-> a[r] + b[r]]

BeatSend ==
  /\ phase = "up" /\ beat = {} /\ beats < MaxBeats
  /\ beat' = {droppedByReason}
  /\ droppedByReason' = NoDrops
  /\ beats' = beats + 1
  /\ UNCHANGED <<phase, items, nextVersion, pendingBlob, writing, disk, stale, waitVars, drainVars,
                 reported, starts, historyVars>>

\* The POST is counted by the server; the reply may still be lost.
BeatOk ==
  /\ phase # "down"
  /\ \E d \in beat : reported' = AddDrops(reported, d)
  /\ beat' = {}
  /\ UNCHANGED <<phase, queueVars, disk, stale, waitVars, drainVars, beats, starts, historyVars>>

\* Mutant: restoreDroppedDelta is not called.
BeatFailForgets ==
  /\ phase # "down" /\ beat # {}
  /\ beat' = {}
  /\ UNCHANGED <<phase, queueVars, disk, stale, waitVars, drainVars, beats, reported, starts,
                 historyVars>>

BeatFail ==
  /\ phase # "down"
  /\ \E d \in beat :
       /\ droppedByReason' = AddDrops(droppedByReason, d)
       /\ \/ UNCHANGED reported                       \* never reached the server
          \/ reported' = AddDrops(reported, d)        \* only the reply was lost
  /\ beat' = {}
  /\ UNCHANGED <<phase, items, nextVersion, pendingBlob, writing, disk, stale, waitVars, drainVars,
                 beats, starts, historyVars>>

-----------------------------------------------------------------------------
(***************************************************************************)
(* The disk and the life of the process.                                   *)
(***************************************************************************)

\* writeFile and rename succeeded.
WriteOk ==
  /\ writing # {}
  /\ \E blob \in writing : disk' = blob
  /\ stale' = FALSE
  /\ NextBlob
  /\ UNCHANGED <<phase, items, nextVersion, droppedByReason, waitVars, drainVars, beatVars, starts,
                 historyVars>>

\* Either failed: the error is logged, the snapshot is gone, the flush goes on.
WriteFail ==
  /\ writing # {}
  /\ stale' = TRUE
  /\ NextBlob
  /\ UNCHANGED <<phase, items, nextVersion, droppedByReason, disk, waitVars, drainVars, beatVars,
                 starts, historyVars>>

Valid(lines) == {i \in DOMAIN lines : lines[i] # Junk}

\* Among the valid lines of a key the greatest version wins, the later line on a tie.
Wins(lines, i) ==
  \A j \in Valid(lines) : lines[j].key = lines[i].key =>
    \/ lines[j].version < lines[i].version
    \/ lines[j].version = lines[i].version /\ j <= i

FirstLineOf(lines, k) == Min({i \in Valid(lines) : lines[i].key = k})

\* s is what load() reads from the lines: one item per key, the winner of the
\* key, at the place of the key's first line.
IsLoadOf(lines, s) ==
  /\ \A i \in DOMAIN s : \E j \in Valid(lines) : s[i] = lines[j] /\ Wins(lines, j)
  /\ \A j \in Valid(lines) : \E i \in DOMAIN s : s[i].key = lines[j].key
  /\ \A i, j \in DOMAIN s : i < j => FirstLineOf(lines, s[i].key) < FirstLineOf(lines, s[j].key)

\* Mutant: load() does not reseed the counter.
MaxLoadedIgnored(s) == 0

MaxLoaded(s) == Max({s[i].version : i \in DOMAIN s} \cup {0})

VersionIn(s, k) == IF IndexOfKey(s, k) > 0 THEN s[IndexOfKey(s, k)].version ELSE 0

\* Mutant: load() stamps the items again, in the order of the file.
loadRestamped(s) ==
  /\ items' = [i \in DOMAIN s |-> [s[i] EXCEPT !.version = i]]
  /\ nextVersion' = Len(s) + 1
  /\ latest' = [k \in Keys |-> IndexOfKey(s, k)]
  /\ IF Len(s) < Len(disk) THEN writing' = {items'} ELSE writing' = {}

\* load() takes over what it read; a file that lost lines is rewritten at once.
load(s) ==
  /\ items' = s
  /\ nextVersion' = MaxLoaded(s) + 1
  /\ latest' = [k \in Keys |-> VersionIn(s, k)]
  /\ IF Len(s) < Len(disk) THEN writing' = {s} ELSE writing' = {}

\* The constructor and load(): the counters start at zero and every invalid line
\* is counted.
Start ==
  /\ phase = "down" /\ starts < MaxStarts
  /\ phase' = "up" /\ starts' = starts + 1
  /\ \E s \in SeqOf({disk[i] : i \in Valid(disk)}, Len(disk)) :
       /\ IsLoadOf(disk, s)
       /\ load(s)
  /\ droppedByReason' = [NoDrops EXCEPT !["invalid_persisted"] = Len(disk) - Cardinality(Valid(disk))]
  /\ drops' = droppedByReason'
  /\ pendingBlob' = {} /\ stale' = FALSE
  /\ settled' = [k \in Keys |-> 0]
  /\ beats' = 0 /\ reported' = NoDrops
  /\ UNCHANGED <<disk, waitVars, drainVars, beat>>

\* Every memory of the process is gone.
Vanish ==
  /\ phase' = "down"
  /\ items' = <<>> /\ nextVersion' = 1 /\ droppedByReason' = NoDrops
  /\ pendingBlob' = {} /\ writing' = {} /\ stale' = FALSE
  /\ wants' = [p \in Producers |-> {}] /\ capacityWaiters' = {}
  /\ available' = {} /\ drain' = {} /\ asleep' = FALSE
  /\ beat' = {} /\ beats' = 0 /\ reported' = NoDrops
  /\ latest' = [k \in Keys |-> 0] /\ settled' = [k \in Keys |-> 0] /\ drops' = NoDrops
  /\ UNCHANGED <<disk, starts>>

Crash == phase # "down" /\ Vanish

\* abortController.abort(): an auth failure, a disconnected agent or a signal.
Stop ==
  /\ phase = "up"
  /\ phase' = "stopping"
  /\ UNCHANGED <<queueVars, disk, stale, waitVars, drainVars, beatVars, starts, historyVars>>

\* The tasks have settled and `await queue.flushPersist()` has returned.
Exit ==
  /\ phase = "stopping"
  /\ drain = {} /\ beat = {} /\ \A p \in Producers : wants[p] = {}
  /\ writing = {}
  /\ Vanish

Next ==
  \/ \E req \in Request : Enqueue(req)
  \/ \E p \in Producers, req \in Request : CallEnqueueWhenAvailable(p, req)
  \/ \E p \in Producers : EnqueueWhenAvailable(p)
  \/ \E p \in Producers : AbortEnqueue(p)
  \/ \E m \in Modules : ModuleChanged(m)
  \/ DrainPeek \/ DrainTimeout \/ DrainDone \/ DrainRetry \/ DrainAbandon
  \/ \E r \in {"permanent", "retry_exhausted", "oversized"} : DrainDrop(r)
  \/ BeatSend \/ BeatOk \/ BeatFail
  \/ WriteOk \/ WriteFail
  \/ Start \/ Crash \/ Stop \/ Exit

Spec == Init /\ [][Next]_vars

\* The drain loop is a running task: it peeks, its idle wait times out, and
\* every request it makes ends in an outcome or an error.
DrainOutcome ==
  DrainDone \/ DrainRetry \/ \E r \in {"permanent", "retry_exhausted", "oversized"} : DrainDrop(r)

FairSpec ==
  Spec /\ WF_vars(DrainPeek) /\ WF_vars(DrainTimeout) /\ WF_vars(DrainOutcome)

-----------------------------------------------------------------------------
(***************************************************************************)
(* Properties.                                                             *)
(***************************************************************************)

\* queue.ts promises one entry per resource, because only the latest local
\* state may be projected, and a version counter ahead of every queued stamp,
\* also after load() reseeds it from a legacy file: no two items share a key
\* and no queued version is ever stamped again.
QueueWellFormed ==
  /\ \A i, j \in DOMAIN items : items[i].key = items[j].key => i = j
  /\ \A i \in DOMAIN items : items[i].version < nextVersion

\* "Bounded - each module has `maxItems` slots": whatever mix of direct, waiting
\* and replaying producers runs, no module ever holds more.
ModuleBounded == \A m \in Modules : moduleDepth(items, m) <= MaxItems

\* markDoneIfVersion exists because of a lost update: the drain loop finishes
\* version v while the watcher has replaced it.  The version last accepted for
\* a key is always either still queued or was itself evicted, done or dropped.
AcceptedWorkNotLost ==
  phase # "down" =>
    \A k \in Keys : latest[k] # 0 =>
      VersionIn(items, k) = latest[k] \/ settled[k] = latest[k]

\* Versions restart below old ones after a crash (load reseeds from what was
\* saved), yet an item in the hands of the drain loop is never confused with a
\* different one: while the version matches, the queue holds that very item.
DrainHoldsCurrentItem ==
  \A it \in drain : IsCurrent(items, it) => items[IndexOfKey(items, it.key)] = it

\* No lost wake-up in waitForCapacityChange: a producer stays blocked only while
\* its module is really full, although eviction, replacement and retries change
\* the array without notifying anyone.
BlockedOnlyWhenFull ==
  \A p \in capacityWaiters : \E req \in wants[p] :
    moduleDepth(items, ModuleOf(req.key)) >= MaxItems

\* No lost wake-up in waitForChange: the drain loop never sleeps on work it
\* could take, whether the work or the module's slot came second.
NeverSleepsOnWork ==
  phase = "up" /\ asleep => \A i \in DOMAIN items : ~Eligible(items[i])

\* Coalesced writes lose no snapshot: the newest snapshot not yet written is
\* always the array itself, and once the flush ends without a failed write the
\* file is the array, so that a crash or a stop there loses nothing.
DiskFollowsMemory ==
  phase # "down" =>
    /\ \A blob \in pendingBlob : blob = items
    /\ pendingBlob = {} => \A blob \in writing : blob = items
    /\ (pendingBlob = {} /\ writing = {} /\ ~stale) => disk = items

\* restoreDroppedDelta: a drop of this life of the process is never missing from
\* what the server counted, the beat in flight and the counters together.
DropsNeverUnderreported ==
  \A r \in DropReasons :
    drops[r] <= droppedByReason[r] + reported[r]
                + (IF beat = {} THEN 0 ELSE (CHOOSE d \in beat : TRUE)[r])

\* A file this binary wrote is read back as it was written: order, versions and
\* attempts survive a restart, and nothing is rewritten or counted as dropped.
CleanFile(lines) ==
  /\ Valid(lines) = DOMAIN lines
  /\ \A i, j \in DOMAIN lines : lines[i].key = lines[j].key => i = j

RestartKeepsQueue ==
  [][phase = "down" /\ phase' = "up" /\ CleanFile(disk)
       => items' = disk /\ writing' = {} /\ drops' = NoDrops]_vars

\* "A broken resource must not consume every retry before healthy work runs":
\* while the process is up and no module loses its slot, every queued item
\* leaves the queue, whichever items fail around it.  A life of the process
\* accepts finitely many items (MaxVersion), so the queue runs empty again.
EveryItemLeaves == []<>(items = <<>> \/ phase # "up" \/ available # Modules)
=============================================================================
