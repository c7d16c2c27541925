------------------------------ MODULE QueueOps ------------------------------
(***************************************************************************)
(* The pure part of the daemon's retry queue (packages/cli/src/serve/      *)
(* queue.ts): what each operation of class RetryQueue does to its array of *)
(* items.  RetryQueue.tla gives the operations their state, their callers  *)
(* and their disk; SkillSync.tla uses them for the daemon's drain loop.    *)
(*                                                                         *)
(* An item is a record with at least the fields key (the dedup identity    *)
(* sameKey compares: the skill_key of a skill operation, the complete      *)
(* fence of a session push), version (the stamp of enqueue) and attempts.  *)
(***************************************************************************)
EXTENDS Naturals, Sequences, FiniteSets, SequencesExt

CONSTANTS SkillKeys,    \* dedup keys of skill_push and skill_delete items
          SessionKeys,  \* dedup keys of session_push items
          MaxItems      \* slots of each module (DEFAULT_MAX_ITEMS = 500)

ASSUME QueueAssumption ==
  /\ SkillKeys \cap SessionKeys = {}
  /\ MaxItems \in Nat \ {0}

Keys == SkillKeys \cup SessionKeys

Modules == {"skills", "sessions"}

\* isSkillOperation: the two kinds of skill operation share one module.
ModuleOf(k) == IF k \in SkillKeys THEN "skills" ELSE "sessions"

\* findIndex with sameKey; 0 when there is none.
IndexOfKey(s, k) == SelectInSeq(s, LAMBDA x : x.key = k)

\* findIndex of the oldest item of a module; 0 when there is none.
OldestOf(s, m) == SelectInSeq(s, LAMBDA x : ModuleOf(x.key) = m)

moduleDepth(s, m) == Cardinality({i \in DOMAIN s : ModuleOf(s[i].key) = m})

\* Mutant: the key alone decides, as markDone did before it compared versions.
IsCurrentByKey(s, it) == IndexOfKey(s, it.key) > 0

\* The item of key k still carries the version the caller saw.
IsCurrent(s, it) ==
  LET i == IndexOfKey(s, it.key) IN i > 0 /\ s[i].version = it.version

\* splice(idx, 1) when the key is there: the array without the item of key k.
WithoutKey(s, k) == IF IndexOfKey(s, k) > 0 THEN RemoveAt(s, IndexOfKey(s, k)) ELSE s

\* Mutant: a same-key item is not replaced.
RequeueBeside(s, it) == Append(s, it)

\* Mutant: stampVersion is forgotten.
RequeueUnstamped(s, it) == Append(WithoutKey(s, it.key), [key |-> it.key, op |-> it.op])

\* enqueue before eviction: a same-key item is replaced and goes to the tail.
Requeue(s, it) == Append(WithoutKey(s, it.key), it)

\* The module outgrew its slots by the item just pushed.  The loop of the code
\* runs at most once: a push adds one item to a module that was within bounds.
Overflows(s, m) == moduleDepth(s, m) > MaxItems

\* Mutant: nothing is evicted.
evictNothing(s, m) == s

evictIfFull(s, m) == IF Overflows(s, m) THEN RemoveAt(s, OldestOf(s, m)) ELSE s

\* The array after enqueue(it).
Enqueued(s, it) == evictIfFull(Requeue(s, it), ModuleOf(it.key))

\* markDoneIfVersion: only the version the caller processed is removed.
markDoneIfVersion(s, it) == IF IsCurrent(s, it) THEN WithoutKey(s, it.key) ELSE s

\* Mutant: the item goes to the tail but its attempts are not counted.
bumpUncounted(s, it) ==
  IF IsCurrent(s, it)
  THEN Append(WithoutKey(s, it.key), s[IndexOfKey(s, it.key)]) ELSE s

\* bumpAttempts: the processed version moves behind its peers, one attempt older.
bumpAttempts(s, it) ==
  IF IsCurrent(s, it)
  THEN LET i == IndexOfKey(s, it.key)
       IN  Append(RemoveAt(s, i), [s[i] EXCEPT !.attempts = @ + 1])
  ELSE s
=============================================================================
