# A TLA+ model of Clawdi's synchronisation core and its durable workers

Clawdi keeps the skills and the session transcripts of a user's AI agents in
step with a cloud. On every machine `clawdi daemon` (`packages/cli/src/serve`)
watches the agents' files, queues what changed in a small persistent queue and
projects it through the API; the backend (`backend/app`) stores skills as rows
and transcripts as generations of immutable chunks, and sweeps what nobody needs
any more. Beside that core the backend sends channel messages from an outbox and
signs its users in to AI providers, and a hosted machine converges on the manifest
the cloud serves it. What these parts have in common is that files change at any
time, requests are lost or arrive late, processes crash, leases lapse and two
actors work on one row: what they then agree on is what this project models,
checks with TLC and, as far as safety goes, proves with TLAPS. Paths below are
relative to the repository root.

## 1. Inventory

| Component | State | Operations | Hard behaviour | Correct when |
|---|---|---|---|---|
| Retry queue (`serve/queue.ts`) | array of items, version counter, drop counters, pending and running write, `queue.jsonl` | enqueue, enqueueWhenAvailable, peek, markDoneIfVersion, bumpAttempts, persist, load, drain/restoreDroppedDelta | replacement while the drain loop holds an item, wake-ups, coalesced writes, restart | nothing accepted is lost, slots are bounded, the file follows the array |
| Drain loop, heartbeat (`serve/sync-engine.ts`) | the item in hand, module slots, the drop delta in flight | process, retry, drop, abandon; post counters | leases aborted under it, a failing head, lost replies | every item leaves, every drop is reported |
| Skill projection (`serve/sync-engine.ts`, `serve/sync-module.ts`, `lib/skills-lock.ts`) | binding to a Project, claims in memory and on disk, scans and reconciles in progress | watch, enqueueIfChanged, reconcile, upload, delete, retire claims, rebind | state read before an await and used after it, Project handoff, crash between cloud, ledger and queue | cloud and claims converge to the local skills |
| Session upload client (`lib/session-upload.ts`) | entry of `sessions-lock.json`: hash and pending ids | append, stage, put, commit, resume | break-off, retry with the same ids, expiry | a transcript counts as confirmed only when stored; it is stored in the end |
| Session event store (`routes/session_events.py`) | session row, generations, chunks, receipts, objects | stage, put chunk, commit, append, read | locks released around object writes, duplicates, late requests, two uploaders | a reader always gets one complete transcript |
| Retention worker, shares | generation locked for removal, shares | sweep, share, revoke | failure half way, races with revived uploads | current and shared generations keep their objects |
| Channel outbox (`services/channels.py`, `services/channel_delivery_worker.py`) | delivery rows with status, attempts and lease; link, account and binding | enqueue, claim, prepare, send, finalize, cancel, reap, archive, unpair | a worker dies between the provider's acceptance and the commit, leases lapse under a live worker, archive against delivery | sends are bounded, outcomes true and final, an archive fences its link |
| AI provider sign-in (`services/ai_provider_oauth_*.py`, `ai_provider_auth_transition.py`) | attempts, the installed credential, tombstones of tokens to revoke | start, poll, exchange, commit, compensate, take over, claim, revoke, purge | two requests complete one attempt, answers lost after a grant, claims taken over | the installed token is never revoked, no other token is forgotten |
| Hosted runtime (`commands/runtime.ts`, `runtime/manifest-converge.ts`, `systemd-transaction.ts`, `systemd-activation-journal.ts`, `manifest-source.ts`) | served manifest, applied receipt, snapshots, unit files, activation journal, systemd's units | tick, publish, plan, stop, activate, prove, commit in four writes, replay of the last good manifest | a kill between any two steps, a `systemctl` without an answer, a service that fails | what was committed can be replayed and is what runs |
| Session scan, directory lock, native CLI activation, transports, vault, ... | | | | not modelled; see section 8 and `components` in `PROJECT.json` |

The watcher and the reconcile feed the queue; the drain loop takes items from it
and calls the API; the outcome updates claims and queue; the heartbeat reports
what the queue dropped. The session scan feeds the same queue, and the drain
loop then runs the upload client against the session event store, whose objects
the retention worker removes. The last three parts share no state with these or
with one another and are modelled apart.

`PROJECT.json` lists, under `hazards`, what is hard to test in this code, each
at its line, with the properties below that would catch it.

## 2. Modules

| Module | Models |
|---|---|
| `QueueOps` | the pure part of `RetryQueue`: what each operation does to the array |
| `RetryQueue` | the queue with its callers, its disk and the life of the process |
| `SkillSync` | skill projection, using `QueueOps` for its queue |
| `SessionLog` | abstract: what the session store promises a reader |
| `SessionEvents` | uploaders, handlers, shares and retention worker; implements `SessionLog` |
| `ChannelDelivery` | the outbox: senders, workers, reaper, control plane |
| `OAuthAttempt` | sign-in attempts, the credential they install, tombstones and revoke workers |
| `RuntimeActivation` | one hosted machine: watch loop, apply, replay, systemd |
| `MCRetryQueue`, `MCSkillSync`, ... | instances for TLC, one for each specification |
| `QueueOpsProofs` | lemmas about the queue's array, for the next two |
| `RetryQueueProofs`, `SkillSyncProofs`, `SessionEventsProofs`, `ChannelDeliveryProofs`, `OAuthAttemptProofs`, `RuntimeActivationProofs` | theorems about the module of that name |

Operators that begin with "Mutant:" in their comment are not part of the model:
each is a plausible mistake in the operator that follows it, kept to show that
the property paired with it in `PROJECT.json` would notice.

### RetryQueue

JavaScript runs one synchronous stretch at a time, so every stretch between two
awaits is one action: `Enqueue` and `EnqueueWhenAvailable` are whole calls
(stamp, replace, evict, count, snapshot, wake), `DrainPeek` ends where the
request begins, `DrainDone`, `DrainRetry`, `DrainDrop` and `DrainAbandon` are the
ways it comes back. `WriteOk` and `WriteFail` are the end of `writeFile` plus
`rename`; the flush takes the next snapshot in the same stretch. A dropped item is
persisted twice in one stretch, counted and then gone (`persistAfter`), so a crash
may leave it in the file with its last attempt counted. `Start` is the
constructor and `load()`, `Crash`, `Stop` and `Exit` the ends of the process.
Payload bytes, the kinds of session fence, `highWaterMark` and timing are
abstracted away; a key stands for what `sameKey` compares. (For session items
`sameKey` (`queue.ts:593-612`) is no equivalence: an item without a fence matches any
fenced one of its session. The model has one kind of session item.) A module is
`available` while its slot can lend a lease. Items of an *unsupported* module,
which the code also picks and then discards, are not told apart. `latest`,
`settled`, `drops`, `reported` and `stale` are history.

`load()` appears as the predicate `IsLoadOf`; `MCRetryQueue` also has it as the
loop of the code, and TLC checks (`LoadLoopIsLoad`) that the loop computes the
predicate for every file of at most three lines over two keys.

### SkillSync

Reads of the files, applications of a request by the server and replies are steps of
their own, with the exceptions named below. `ScanBegin`/`ScanEnd` are `enqueueIfChanged` around
its hash; `ReconcileBegin`, `ReconcileKey`, `ReconcileHashed`, `ReconcileEnd` are
`reconcileAgentSkillProjection` key by key; `DrainPeek` to `UploadReturn` are
`processQueueItem` and `uploadSkillFromQueue`. `Prepare`, `ScopeAbort` and
`ScopeJoined` are the life of a binding: a change of Project, or a failing worker,
retires it and nothing of it may act after the join. The server takes the Project
of an upload from the Agent row and that of a delete from the request, as the
routes do. `Reassign` is external: no route changes `default_project_id` of an Agent, the
daemon expects it as "an administrative control-plane change" (`sync-engine.ts:180`) and
the backend's tests write the column.

Simplifications: the version counter only tells whether an item was replaced
while the drain loop held it, so two values are enough; reconciles of one binding
do not overlap; `ReconcileBegin` takes the remote listing (`sync-engine.ts:2397`), the
local keys (2447) and the ledger (2451) in one step, and `ServeUpload` the second snapshot
of the folder (2191) together with the server's application of the request, so a change
between two of these reads is not seen; `enqueueIfChanged`, where the drain loop awaits it after a
handoff, is one step; a request that is aborted is either applied before or
never; edits inside a folder a Project has materialized are left out.

### SessionEvents

One session. The chained head hash is injective, so a head *is* its transcript; a
chunk holds one event. A handler is one action under its row locks, but a put or
an append that must store an object is two, with every check repeated, because
the code closes its database session around the write. `requests` holds what has
been sent and not answered, also after the sender gave up. The worker's sweep is
split at every object it deletes. Time is the mark of a generation (`idle`,
`expired`, `superseded`, `aged`); a generation becomes idle only while none of
its requests is under way, since the cutoffs are hours and requests last seconds.

`StillAt` is the check before a repeated commit or append is answered from what is
recorded: the row is still where the first one put it.

`SessionLog` is what a reader is promised: the transcript changes by one event or
as a whole, each time with a new revision, and is always one an uploader read, or
such a one cut short by appends still to come. The refinement mapping is
`log <- Readable` (what `GET /events` returns), `revision <- session.rev`.

### ChannelDelivery

One account with one link and one binding. A transaction that holds row locks over
an await is split where another can see or block it: `Claim`, `Prepare` (the locks
of account, link and binding and the checks under them), `Send`, `Finalize`;
`BeginControl`, `CommitArchive` and `EndControl` for rotation and archiving.
`FindBinding` and `EnqueueOutbound` are apart because the code looks the binding up
without a lock; `EnqueueUnderLock` is the path of the WhatsApp bridge. The provider
is external: it accepts or not, and its answer may be lost. A prepare that finds the link
row locked by rotation or archiving gives its attempt back (`Contended`); that two
prepares of different deliveries of a link can do this to each other as well
(`channels.py:7605`) is left out. Time is not counted: a pending row may be
due and a lease may lapse at any moment. Pruning of old rows is left out.

### OAuthAttempt

One provider of one owner. Every transaction takes the owner's row lock first and is
one action; upstream calls between transactions are actions of their own. Upstream
may grant a code twice and may hand out again the token of a credential that was
replaced. A request may die, lose an answer or fail to write its compensation, and a
second request may take its exchange over. `lost` is history: the tokens of the
windows the code itself calls unavoidable. Left out: quarantine, import of
authentication files, expiry of attempts, providers whose tokens cannot be revoked,
deletion of the principal. A device poll stalls as long as upstream takes to answer;
`PollConfirmed` is its confirmation, which looks at the provider before it looks at its
claim (`Confirmed`). That upstream hands the token *in use* to a second
sign-in, or one token to two live exchanges, is excluded (section 6).

### RuntimeActivation

Applies are sequential under the converge lock, so there is one. `Tick` is a turn of
the watch loop with its reasons to skip (not modified, backing off). An apply then
goes `Publish` unit by unit, `Observe` (which makes the plan), `StopRemoved`,
`ActivateSystem`, `RecordIntent` (the journal), `ActivateUser`, `Prove`,
`StageSnapshot`, `WriteSnapshot`, `WriteReceipt`, `ClearJournal`, `PruneSnapshots`.
`StepThrows` fails any of them, which replays the last committed manifest; `Crash`
ends the process; a `systemctl` killed by its timeout may have done some of its jobs
and left others queued (`Lost`, `JobRuns`). `unrun` is history: the window the code
documents, in which an activation was journaled and its command has not run. A unit
whose job was left queued stays in it until the job runs.

Simplifications: the files of a unit are one revision; the start and the restart of a
manager's units, two calls in the code, are one step, which may be cut off after any part
of it; enabling, daemon-reload,
official installers, the egress prerequisite, warm pool and hot-apply flags, upgrade
of the CLI, runtime projections and uncached manifests are left out; a service that
dies stays failed and is not respawned onto files that were published and not
committed.

## 3. Runs

| Run | Instance | Shows |
|---|---|---|
| `queue_race` | 2 skills and 1 session, 1 slot, 1 waiting producer, 2 versions, 2 attempts, fair | `ModuleBounded`, `AcceptedWorkNotLost`, `BlockedOnlyWhenFull`, `NeverSleepsOnWork`, `EveryItemLeaves` |
| `queue_disk` | 1 key per module, 2 starts, 2 attempts, 1 heartbeat, no file or a legacy file | `QueueWellFormed`, `DrainHoldsCurrentItem`, `DiskFollowsMemory`, `DropsNeverUnderreported`, `RestartKeepsQueue` |
| `skill_converge` | 1 skill, 2 Projects, 2 changes, 1 reassignment, 1 fault, fair | `Converges`, `ClaimReleasedAfterRow` |
| `session_upload` | 1 uploader, 2 events, length 2, 1 break-off or expiry, 2 sweeps of which 1 fails, fair | `ConfirmedWasStored`, `CurrentReadable`, `SharedReadable`, `TranscriptStored`, `ImplementsSessionLog` |
| `session_race` | 2 uploaders of one lock entry, 3 lengths, 3 changes, 2 appends, 2 generations, 1 sweep | `CurrentReadable`, `SharedReadable`, `AnswerIsTrue`, `ImplementsSessionLog` |
| `channel_outbox` | 2 workers, 1 linked and 1 unlinked delivery, 2 attempts, 1 control transaction, 1 fault, fair | `SendsBounded`, `SucceededWasAccepted`, `ArchivedLinkFenced`, `NeverReopened`, `EveryDeliverySettles` |
| `oauth_signin` | 2 requests, 2 workers, 2 sign-ins of which 1 by device, 2 tokens, 1 replacement, 1 fault, fair | `InstalledNeverRevoked`, `TokenAccounted`, `OutcomeStands`, `OrphansRevoked` |
| `runtime_apply` | 4 manifests (1 broken, 1 without the user unit), 2 changes, 2 faults, fair | `CommittedReplayable`, `ReceiptRuns`, `Settles` |
| `channel_archive`, `skill_orphan`, `session_sweep`, `session_expire` | | violated: section 6 |

Each specification module has one type invariant, checked by one of its runs.
Deadlock is not checked: bounded runs end when their budgets are spent.

**Bounds.** Every bound is a constant in a guard. One slot and two keys are enough
for eviction, replacement and blocking to meet; two starts for a restart from a
file this binary wrote; two attempts for a retry and an exhausted retry. Two
changes let a folder be written and then rewritten, removed, reserved or
materialized while the first upload is in flight, and one reassignment gives
every order of handoff and upload. Two events and length two give an append, a
truncation and a rewrite; three generations a rewrite of a rewrite. A request that is
answered after the work of another uploader needs two uploaders, and for an append a
transcript that grows twice: `session_race` has both. Two workers are
enough for a lease or a claim to be taken over while its first holder still acts, and
two attempts for the last one to be refunded or lost. Two sign-ins let the second
supersede the first in every phase, two tokens let a code be granted twice. Two
changes of the manifest take a machine away from what it committed and back, and
with two faults the replay can fail as well. The instances
say nothing about longer histories; for the safety properties the theorems of section
5 do.

**Fairness.** `RetryQueue`: the drain loop runs, its idle wait times out and every
request it makes ends (API calls have timeouts); producers, disk and heartbeat need
no fairness. `SkillSync`: the loops of the daemon keep running and requests end;
the cycle that takes the complete listing is strongly fair, since a binding may be
retired between two of its turns but the timer runs again in the next.
`SessionEvents`: the uploaders keep scanning and go on with what they began, a
request somebody waits for is answered, a sweep goes on. `ChannelDelivery`: the
workers poll and are restarted when they die, leases lapse and are reaped, a
transaction ends. `OAuthAttempt`: a request that runs goes on, the workers poll, time
passes; nobody makes the user complete a sign-in. `RuntimeActivation`: an apply goes
on, the watch loop comes to its full refresh, systemd finishes its jobs. Edits,
faults, crashes, expiries, shares, archives, changes of a manifest and new sweeps are
never fair: nothing relies on them.

## 4. Properties

Each is stated in its module above its definition. The ones to argue about:

* `AcceptedWorkNotLost`: the version last accepted for a key is queued, or was
  itself evicted, done or dropped; completing an older version never removes it.
* `BlockedOnlyWhenFull`, `NeverSleepsOnWork`: no lost wake-up, although several
  changes of the array notify nobody.
* `DiskFollowsMemory`, `RestartKeepsQueue`, `DrainHoldsCurrentItem`: coalescing
  loses no snapshot, a restart reads back what was written, and versions reused
  after a crash are never mistaken for one another.
* `Converges`: after the last disturbance cloud rows, claims and queue settle at
  what the files say and stay there. The cloud row of a *materialized* key is left
  out (section 6, fourth observation); its claims are not.
* `ClaimReleasedAfterRow`: the claim, the only durable memory of a row in an old
  Project, goes after the row.
* `CurrentReadable`, `SharedReadable`, `ImplementsSessionLog`, `ConfirmedWasStored`,
  `TranscriptStored`: what a reader, a share and the lock file may rely on.
* `AnswerIsTrue`: what an uploader may rely on. It speaks of the step in which the
  answer is given: the row then holds the announced transcript, by the revision that is
  named, which came after the upload's base. That the row was there once is not enough;
  without the check of `routes/session_events.py:538` or that of 675 a repeated request
  would be confirmed after the row moved on, and `session_race` fails.
* `SendsBounded`, `NeverReopened`, `SucceededWasAccepted`: although an attempt can be
  refunded, lapse or be reported late, a message is handed over at most `max_attempts`
  times, and what ended stays as it ended. `ArchivedLinkFenced`: prepare and archive
  meet at the link's lock.
* `InstalledNeverRevoked`, `TokenAccounted`, `OrphansRevoked`: a compensation never
  hits the credential in use, and every other token that was granted is recorded
  before it can be forgotten and revoked in the end. `OutcomeStands`: what was superseded
  or compensated never commits, and a commit whose answer was lost is not failed
  afterwards, nor by anything else but the late poll of a deleted provider, when nothing
  is installed. Without that exception it is false (section 6).
* `CommittedReplayable`: at every crash point the committed content is on disk.
  `ReceiptRuns`: no user unit silently runs a revision other than the receipt's.
  `Settles`: the machine reaches the served manifest or, when its services do not
  stay up, is back on the committed one.

## 5. Proofs

Every safety property of a passing run is also a theorem, for every value of the
constants that satisfies the assumption of its module: any number of keys, slots,
deliveries, workers, requests, tokens, uploaders, events, units and manifests, and any
budget of edits, faults, sweeps and restarts. Each rests on an inductive invariant,
described below and defined at the head of its section of the module.

| Module | Theorem | Statement |
|---|---|---|
| `RetryQueueProofs` | `TypeCorrect`, `WellFormed` | `Spec => []TypeOK`, `Spec => []QueueWellFormed` |
| | `Bounded` | `Spec => []ModuleBounded` |
| | `WorkNotLost` | `Spec => []AcceptedWorkNotLost` |
| | `FileFollowsArray`, `RestartKeepsFile` | `Spec => []DiskFollowsMemory`, `Spec => RestartKeepsQueue` |
| | `DropsReported` | `Spec => []DropsNeverUnderreported` |
| | `BlockedRightly`, `AwakeWhenNeeded` | `Spec => []BlockedOnlyWhenFull`, `Spec => []NeverSleepsOnWork` |
| | `DrainHoldsItsItem` | `Spec => []DrainHoldsCurrentItem` |
| `SkillSyncProofs` | `SyncTypeCorrect` | `Spec => []TypeOK` |
| | `ReleasedOnlyAfterRow` | `Spec => ClaimReleasedAfterRow` |
| `SessionEventsProofs` | `EventsTypeCorrect`, `ToldTheTruth` | `Spec => []TypeOK`, `Spec => AnswerIsTrue` |
| | `CurrentStaysReadable` | `Spec /\ CleanSweeps => []CurrentReadable` |
| | `SharedStaysReadable` | `Spec /\ CleanSweeps => []SharedReadable` |
| | `StoreImplementsLog` | `Spec /\ CleanSweeps => ImplementsSessionLog` |
| | `ConfirmedIsStored` | `Spec /\ []NeverExpired => []ConfirmedWasStored` |
| `ChannelDeliveryProofs` | `DeliveryTypeCorrect`, `EndedStaysEnded` | `Spec => []TypeOK`, `Spec => NeverReopened` |
| | `SendsAlwaysBounded` | `Spec => []SendsBounded` |
| | `ReportedWasAccepted` | `Spec => []SucceededWasAccepted` |
| | `ArchiveFences` | `Spec => []ArchivedLinkFenced` |
| `OAuthAttemptProofs` | `OAuthTypeCorrect`, `OutcomesStand` | `Spec => []TypeOK`, `Spec => OutcomeStands` |
| | `InstalledStaysLive` | `Spec => []InstalledNeverRevoked` |
| | `TokensAccounted` | `Spec => []TokenAccounted` |
| `RuntimeActivationProofs` | `RuntimeTypeCorrect` | `Spec => []TypeOK` |
| | `ReplayAlwaysPossible` | `Spec => []CommittedReplayable` |
| | `ReceiptAlwaysRuns` | `Spec => []ReceiptRuns` |

Assumptions that say more than that a bound is a number: there is a slot and an attempt
(`QueueAssumption`, `RetryQueueAssumption`, `ChannelDeliveryAssumption`); a legacy file
holds no more than `MaxItems` items of a module, since `load()` does not evict; skills
and sessions, system and user units are disjoint; deliveries and workers are finite, so
that a fresh lease token exists; in `SkillSync` every skill fits in the queue.

### RetryQueue

The argument is layered. `Inv1` is `TypeOK /\ QueueWellFormed`; that `Requeue`,
eviction, completion and rotation keep one item per key and the versions below the
counter are lemmas about sequences in `QueueOpsProofs`. `Inv2` adds that a
queued item of a key *is* the latest version accepted for it (`LatestQueued`) and
restates the property over the set of queued items (`WorkAccounted`); without the
first part the property is not inductive, since `DrainDone` could then remove an
item and settle a version other than the latest. `DiskFollowsMemory` is inductive
over `Inv1`. `Inv4` adds that at most one heartbeat is in flight, which makes the
sum of counters, beat and reports well defined. `Inv5` extends the bound from the
array to the snapshots and the file, from which a restart reads the array again;
its core is that a push adds one item to one module and an eviction takes one from
the same module. `Inv6` is about the loops: they hold nothing while the process is
down, the drain loop sleeps only when no module of a queued item can lend a lease, and
the item in hand has a version below the counter and is the queued item of that key and
version, if there is one. That versions start again after a crash does no harm: nothing
is in hand then.

### SkillSync

`SyncInv` is the type invariant with one item per key, in memory and in the file: the
eviction takes an item out at an index, and the index has to exist. `ServedInv` says of
the item in hand that a delete the server has answered for has its row gone. It is
inductive because one item is in hand at a time and only its own upload could bring a
row back, and it is the whole of `ReleasedOnlyAfterRow`: when the reply arrives and the
claim goes, the row is still absent.

### SessionEvents

* `TypeInv` joins to the types what requests and uploaders know of each other: a request
  is the next one of somebody's plan, an uploader waits for the request of its step and
  for no other, pending ids name a plan that was read.
* `RowsInv`: the session row points to a committed generation whose chunk rows are
  exactly its chain, marks go with the state of a generation, and what is being swept is
  locked, not current and not shared.
* `BaseInv` and `AnswerInv` are for `AnswerIsTrue`: the row was where an upload is based
  or is there still, and so with the append it was just told of. The first check an
  append passes, that the row already ends in the announced head, says nothing about
  revisions; that the row has moved since the base follows from `BaseInv`, because the
  announced head is longer than the base. Neither expiry nor a failing sweep matters.
* `ObjectInv`: the rows of an *intact* generation, one that no sweep holds and none can
  have left half removed, have their objects; so has a put between its two parts, and an
  append while the session row is where it was. The two halves of an append are safe
  because every move of the row raises its revision: if the row still equals the base
  at the second half it never moved, so the generation stayed current and no sweep
  began.
* Current and shared generations are intact, hence readable. The refinement follows
  action by action: a commit is `SessionLog`'s replacement, the second half of an append
  its extension, and every other step leaves what `GET /events` returns alone.

Two hypotheses are behaviours the code does not exclude; without them the properties are
false. `CleanSweeps`: no sweep breaks off over a staging generation that may be
resumed (run `session_sweep`) and none ends while a put or an append to its generation
is between its two parts (section 6, second observation). `NeverExpired`: no staging
generation reaches its maximal age, after which the client forgets what was pending (run
`session_expire`). Both leave every break-off, loss, duplicate and competing upload in.

### ChannelDelivery

`DeliveryInv` adds to the types that a pending row has an attempt left, that a claimed
row is pending and claimed by one worker, and that what an archive has read exists; that
a claim finds a fresh token follows by counting, there being more tokens than rows and
workers. `SendsCounted`, no more sends than attempts in the row, gives `SendsBounded`:
the attempt is committed before the provider is called, and nothing that happens
afterwards takes it back. `AcceptInv`
carries the provider's answer from the worker's hand to the row. `FenceInv` adds what an
archive in progress has seen: it holds the link's lock, so nothing of its link starts
between the read and the commit.

### OAuthAttempt

`TypeInv` ties a request to an attempt that was started and a token that was issued.
It also says that nothing is installed once the provider is archived and that a poll is
one of a device sign-in whose attempt is not purged, which is what `OutcomesStand` needs
of the late poll.
`TokenInv` has five parts: a tombstone is cancelled exactly while its token is
installed; nobody is about to record or revoke the installed token; one request at most
answers for a token, until its tombstone is that of a replaced credential; the token a
request is going to commit is live; and a worker, however late, revokes only a token
whose attempt can no longer commit. None is inductive without the others: a late worker
is harmless only because tombstones of active attempts are not claimed, and they are not
only because one request holds each token.

### RuntimeActivation

`ReplayInv` adds to the property what holds between the four writes of a commit: the
snapshots are those of the new manifest and of the receipt, and the new one is there
before the receipt names it. `RunsInv` follows a unit from its file to its process: a
job left queued keeps every apply away until it has run, after publication files are
what the manifest wants, the journal names every user unit of the plan before it is
activated, a running user unit is at its intent's revision or, without one, at the
receipt's, and what the plan leaves out runs the published revision already. The attempt to prove `ReceiptRuns` corrected the model: `unrun` used
to forget a unit when its job was queued and not only when the job ran, and with three
changes and three faults the property failed.

### Only model-checked

The liveness properties (`EveryItemLeaves`, `Converges`, `TranscriptStored`,
`EveryDeliverySettles`, `OrphansRevoked`, `Settles`): the prover has no reasoning about
fairness and `ENABLED`. And that the loading loop computes `IsLoadOf`
(`LoadLoopIsLoad`), an induction over files.

## 6. What the runs found

1. `skill_orphan`: an upload was applied in Project A when the Agent moves to B and
   the binding is retired. The daemon throws before it records the claim
   (`sync-engine.ts:2215`), the item stamped A is then replaced by the push for B,
   and nothing remembers the row in A.
2. `session_sweep`: the retention worker deletes objects before the row
   (`session_event_retention_worker.py:105`). When the store fails half way the rows
   survive, a resumed upload gets its chunks acknowledged from them, and the commit
   makes a generation current whose objects are gone.
3. `session_expire`: after a 410 the client forgets the pending ids and keeps the
   hash (`session-upload.ts:410`); if its next attempt fails, the lock file says the
   transcript is stored and later scans skip it. The one fault of `session_upload` is
   therefore an expiry or a break-off, never both.
4. `channel_archive`: a sender finds its binding (`channels.py:4991`), an archive of
   the account (`channels.py:1628-1700`), which ends its links too, reads the open
   deliveries, the sender inserts its row, the archive commits. The row is pending and no
   claim takes rows of an archived link. The archive of a link alone (1470-1478) leaves
   the same gap.

Three more have no run of their own: the exception in `OutcomeStands` names the first
(without it TLC finds this trace in the instance of `oauth_signin`), and the other two,
found while the hosted runtime was modelled, are out of the reach of `ReceiptRuns`, which
speaks of wanted user units only:

5. A device poll stalls upstream, a second request takes it over, exchanges the code
   and commits, and the provider is deleted. The confirmation of the
   first poll sees the deleted provider before it sees that it lost its claim
   (`ai_provider_oauth_attempt.py:808-815`), and marks the committed attempt as failed;
   its receipt goes, and a request that is repeated is refused instead of being given
   the committed answer again. Nothing is installed at that moment and the committed
   token has its tombstone, so the properties about tokens are not touched.
6. The files of a stale unit are removed (`manifest-converge.ts:1311-1313`) before the
   unit is stopped, and what to stop is derived from the files. When the watcher is
   killed in between, the next apply stops nothing and commits, and the service runs
   on (`docs/managed-runtime.md:432-434`, `453-455` say otherwise).
7. System units have no activation journal (`systemd-transaction.ts:438-443`,
   `535-539`): when the restart of one ran, the apply was cut off and the cloud serves
   the committed manifest again, the unit keeps the other revision under the old
   receipt.

Observations without a run of their own:

* Items are stamped with a Project so as not to be "redirected to project B on
  reassignment" (`sync-engine.ts:1449-1455`), but an upload lands in the Project of
  the Agent row at that moment (`routes/skills.py:1203`). After one move the
  projection still converges; a move away and back between two polls of the daemon
  can leave a row in the other Project.
* `CurrentReadable` can fail without a failing sweep. A put has stored its object and
  not yet its row (`routes/session_events.py:432`) when another upload with the same ids
  writes the row and the generation reaches its maximal age; the worker removes objects
  and rows; a delayed stage request of the same ids creates the generation again; the
  put's second half adds a row whose object is gone, and a commit makes it current. This
  takes a request in flight across an expiry and a sweep and is out of the runs' bounds;
  the proof of `CurrentStaysReadable` showed it.
* Two puts of one chunk that are both in flight when the generation reaches its
  maximal age can leave an object without a row. No reader notices.
* Whether a Project owns a folder is asked when an item is picked up
  (`sync-engine.ts:1796`), its bytes are read later (2190), so bytes materialized in
  between can be uploaded and claimed by the Agent (`lib/skills-lock.ts:31-33` says
  never). The next reconcile retires the claim.
* An archive reads the open deliveries of a link without locking them
  (`channels.py:1470-1478`, `1677-1685`), so one that succeeds at that moment may be
  overwritten as failed.
* A token that upstream hands out a second time while it is installed would be
  revoked with the sign-in that lost (`ai_provider_auth_transition.py:241`).
  Authorization servers issue fresh tokens; the model assumes they do.
* The tombstone of a second grant of a committed attempt is revoked only once the
  attempt's row is purged, thirty days later.
* A stale directory lock is taken over by renaming it; with three callers the rename
  may hit the lock of the one that was faster (`lib/private-directory-lock.ts:136`).

## 7. Running it

`tlc -config MCRetryQueue_race.cfg MCRetryQueue` and so on: the configuration's name
begins with the module's. `tlapm RetryQueueProofs.tla` checks the proofs of that
module, and so on for the other six. The longest run and the longest proof,
`SessionEventsProofs`, take about six minutes each, everything else less.

## 8. Plan

Done, in this order: the queue and its proofs, skill projection, session events, the
channel outbox, AI provider sign-in, hosted runtime activation, and the proofs of every
safety property. Next:

1. The safety half of `Converges` as an invariant of its own (what a quiet daemon with
   an empty queue has claimed is what the cloud has), to be checked and then proved.
2. `SessionScan`: stability window, in-flight hash against eviction, coalesced scan
   requests, in front of `enqueueWhenAvailable` (`sync-engine.ts:304-364`,
   `1148-1300`).
3. `PrivateDirectoryLock`: mutual exclusion of the mkdir lock with takeover by rename.
4. Overlapping reconciles, and a property for the window of the fourth observation.
5. Native CLI activation, which swaps a versioned binary under the watch loop.

Not planned: transports of Discord, Telegram and WhatsApp and the vault's
cryptography (encodings and I/O), the web, mobile and desktop applications, and
single-request CRUD routes, which have no protocol to model.
