---------------------------- MODULE SessionEvents ----------------------------
(***************************************************************************)
(* The events-v1 protocol for one session: the uploaders (packages/cli/src *)
(* /lib/session-upload.ts), the handlers of backend/app/routes/            *)
(* session_events.py, and the retention worker that removes abandoned and  *)
(* superseded generations (session_event_retention_worker.py).             *)
(*                                                                         *)
(* The chained head hash of a transcript is injective, so the head is the  *)
(* transcript itself and the count is its length.  A chunk holds one       *)
(* event.  A handler runs under its row locks and is one action, except    *)
(* that the locks are released around the write of the object: a "put" or  *)
(* "append" that has to store a chunk is two actions and checks everything *)
(* again in the second.  Requests may arrive after their sender gave up.   *)
(* The uploaders of a machine (the daemon, `clawdi push`) share one entry  *)
(* of sessions-lock.json.  A value that may be null is a set of at most    *)
(* one element; generation 0 is null.                                      *)
(***************************************************************************)
EXTENDS Naturals, Sequences, FiniteSets, SequencesExt

CONSTANTS Events,       \* events a transcript is made of
          MaxLen,       \* bound: length of a transcript
          Clients,      \* concurrent uploaders
          RetryLimit,   \* EVENT_RETRY_LIMIT (3)
          MaxGens,      \* bound: generation ids drawn
          MaxAppends,   \* bound: append ids drawn
          MaxEdits,     \* bound: changes of the source
          MaxFaults,    \* bound: uploads that break off, staging generations that get too old
          MaxIdles,     \* bound: staging generations that see no upload for hours
          MaxSweeps,    \* bound: generations the worker begins to remove
          SweepFaults   \* bound: sweeps that break off

Logs == BoundedSeq(Events, MaxLen)
Gens == 1..MaxGens

ASSUME SessionEventsAssumption ==
  /\ {MaxLen, RetryLimit, MaxGens, MaxAppends, MaxEdits, MaxFaults, MaxIdles, MaxSweeps,
    SweepFaults}
       \subseteq Nat
  /\ RetryLimit > 0

Base == [gen : 0..MaxGens, rev : Nat, log : Logs]
Chunk == [start : Nat, base : Logs, result : Logs]
Key == Gens \X Nat \X Events
Pending == [kind : {"append", "rewrite"}, gen : Gens, append : 0..MaxAppends, base : Base,
            final : Logs]
Request == [by : SUBSET Clients, kind : {"stage", "put", "commit", "append"}, gen : Gens,
            append : 0..MaxAppends, base : Base, final : Logs, at : Nat, stored : BOOLEAN]
Answer == [code : {"ok", "committed", "404", "409", "410"}, rev : Nat]
Upload == [plan : Logs, pc : {"head", "append", "stage", "put", "commit"}, tries : Nat,
           confirmed : BOOLEAN, base : Base, id : Nat, at : Nat, waiting : BOOLEAN,
           answer : SUBSET Answer]

VARIABLES
  source,    \* the transcript on the machine
  offered,   \* history: transcripts planned so far
  stored,    \* history: transcripts the session row has pointed to
  session,   \* event_generation_id, event_revision and head of the session row
  gens,      \* rows of session_event_generations
  chunks,    \* rows of session_event_chunks, per generation
  receipts,  \* rows of session_event_append_receipts
  shares,    \* generations with an active share
  objects,   \* keys in the object store
  sweep,     \* {} or the generation the worker has locked and the keys left to delete
  lock,      \* the entry of sessions-lock.json: local_hash and the pending upload
  up,        \* up[c]: {} or the upload client c is performing
  requests,  \* requests sent and not yet answered
  ids,       \* ids drawn so far
  budget     \* what is left of each bound

dbVars == <<session, stored, gens, chunks, receipts, shares>>
clientVars == <<lock, up, ids>>
vars == <<source, offered, dbVars, objects, sweep, clientVars, requests, budget>>

NoGen == [status |-> "none", mark |-> "fresh", base |-> [gen |-> 0, rev |-> 0, log |-> <<>>],
          final |-> <<>>]

TypeOK ==
  /\ source \in Logs /\ offered \subseteq Logs /\ stored \subseteq Logs
  /\ session \in Base
  /\ gens \in [Gens -> [status : {"none", "staging", "committed"},
                        mark : {"fresh", "idle", "expired", "superseded", "aged"},
                        base : Base, final : Logs]]
  /\ chunks \in [Gens -> SUBSET Chunk]
  /\ \A r \in receipts : r \in [append : 1..MaxAppends, base : Base, final : Logs]
  /\ shares \subseteq Gens
  /\ objects \subseteq Key
  /\ sweep \subseteq [gen : Gens, todo : SUBSET Key]
  /\ lock \in [local : SUBSET Logs, pending : SUBSET Pending]
  /\ up \in [Clients -> SUBSET Upload]
  /\ requests \subseteq Request
  /\ ids \in [gen : 0..MaxGens, append : 0..MaxAppends]
  /\ budget \in [{"edits", "faults", "idles", "sweeps", "sweepFaults"} -> Nat]

Init ==
  /\ source = <<>> /\ offered = {} /\ stored = {}
  /\ session = [gen |-> 0, rev |-> 0, log |-> <<>>]
  /\ gens = [g \in Gens |-> NoGen] /\ chunks = [g \in Gens |-> {}]
  /\ receipts = {} /\ shares = {} /\ objects = {} /\ sweep = {}
  /\ lock = [local |-> {}, pending |-> {}]
  /\ up = [c \in Clients |-> {}] /\ requests = {}
  /\ ids = [gen |-> 0, append |-> 0]
  /\ budget = [edits |-> MaxEdits, faults |-> MaxFaults, idles |-> MaxIdles,
               sweeps |-> MaxSweeps, sweepFaults |-> SweepFaults]

Spend(what) == budget[what] > 0 /\ budget' = [budget EXCEPT ![what] = @ - 1]

-----------------------------------------------------------------------------
(***************************************************************************)
(* The uploader: syncEventSession, appendEvents, replaceEventGeneration.   *)
(***************************************************************************)

\* The agent writes, truncates or rewrites the transcript.
Transcribe(l) ==
  /\ l \notin {<<>>, source}
  /\ Spend("edits")
  /\ source' = l
  /\ UNCHANGED <<offered, dbVars, objects, sweep, clientVars, requests>>

\* A scan finds that the lock does not confirm the source: plan and upload it.
BeginUpload(c) ==
  /\ up[c] = {} /\ source # <<>>
  /\ lock.local # {source} \/ lock.pending # {}
  /\ offered' = offered \cup {source}
  /\ up' = [up EXCEPT ![c] = {[plan |-> source, pc |-> "head", tries |-> 0, confirmed |-> FALSE,
                               base |-> session, id |-> 0, at |-> 0, waiting |-> FALSE,
                               answer |-> {}]}]
  /\ UNCHANGED <<source, dbVars, objects, sweep, lock, ids, requests, budget>>

\* persistEventSuccess
Synced(c, u) ==
  /\ lock' = [local |-> {u.plan}, pending |-> {}]
  /\ up' = [up EXCEPT ![c] = {}]

Shrinks(u) == session.gen # 0 /\ Len(session.log) > Len(u.plan)

\* The head decides: in sync, append, stale plan, or rewrite.
GetHead(c) ==
  /\ \E u \in up[c] :
       /\ u.pc = "head"
       /\ IF session.gen # 0 /\ session.log = u.plan
          THEN Synced(c, u)
          ELSE /\ up' = [up EXCEPT ![c] =
                    IF session.gen # 0 /\ IsStrictPrefix(session.log, u.plan)
                    THEN {[u EXCEPT !.pc = "append", !.base = session]}
                    ELSE IF Shrinks(u) /\ ~u.confirmed /\ source # u.plan
                    THEN {}
                    ELSE {[u EXCEPT !.pc = "stage", !.base = session,
                                    !.confirmed = @ \/ Shrinks(u)]}]
               /\ UNCHANGED lock
  /\ UNCHANGED <<source, offered, dbVars, objects, sweep, ids, requests, budget>>

\* What an append of the next event, and a rewrite, would leave in the lock.
NextLog(u) == SubSeq(u.plan, 1, Len(u.base.log) + 1)

\* Mutant: whatever is pending is resumed.
ReusableAlways(kind, base, final) == lock.pending

\* reusablePending: the same operation on the same base keeps its ids.
Reusable(kind, base, final) ==
  {p \in lock.pending : p.kind = kind /\ p.base = base /\ p.final = final}

\* Mutant: the request names the generation it replaces.
RequestOfBase(c, u, p) ==
  [by |-> {c}, kind |-> u.pc, gen |-> p.base.gen, append |-> p.append, base |-> p.base,
   final |-> p.final, at |-> u.at, stored |-> FALSE]

\* The request of the current step, with the ids of pending upload p.
RequestOf(c, u, p) ==
  [by |-> {c}, kind |-> u.pc, gen |-> p.gen, append |-> p.append, base |-> p.base,
   final |-> p.final, at |-> u.at, stored |-> FALSE]

Send(c, u, p) ==
  /\ requests' = requests \cup {RequestOf(c, u, p)}
  /\ up' = [up EXCEPT ![c] = {[u EXCEPT !.id = p.gen, !.waiting = TRUE]}]

\* Mutant: the lock records the transcript and not that its upload is pending.
persistHashOnly(u, p) == lock' = [local |-> {u.plan}, pending |-> {}]

persistPending(u, p) == lock' = [local |-> {u.plan}, pending |-> {p}]

\* One chunk of appendEvents: reuse or draw the append id, persist, post.
SendAppend(c) ==
  /\ \E u \in up[c] :
       /\ u.pc = "append" /\ ~u.waiting
       /\ LET reuse == Reusable("append", u.base, NextLog(u))
          IN \E p \in IF reuse # {} THEN reuse
                      ELSE {[kind |-> "append", gen |-> u.base.gen, append |-> ids.append + 1,
                             base |-> u.base, final |-> NextLog(u)]} :
               /\ p.append <= MaxAppends
               /\ ids' = [ids EXCEPT !.append = IF reuse = {} THEN @ + 1 ELSE @]
               /\ persistPending(u, p)
               /\ Send(c, u, p)
  /\ UNCHANGED <<source, offered, dbVars, objects, sweep, budget>>

\* The start of replaceEventGeneration: reuse or draw the ids, persist, stage.
SendStage(c) ==
  /\ \E u \in up[c] :
       /\ u.pc = "stage" /\ ~u.waiting
       /\ LET reuse == Reusable("rewrite", u.base, u.plan)
          IN \E p \in IF reuse # {} THEN reuse
                      ELSE {[kind |-> "rewrite", gen |-> ids.gen + 1, append |-> 0,
                             base |-> u.base, final |-> u.plan]} :
               /\ p.gen <= MaxGens
               /\ ids' = [ids EXCEPT !.gen = IF reuse = {} THEN @ + 1 ELSE @]
               /\ persistPending(u, p)
               /\ Send(c, u, p)
  /\ UNCHANGED <<source, offered, dbVars, objects, sweep, budget>>

\* The following chunks and the commit carry the ids drawn before.
SendNext(c) ==
  /\ \E u \in up[c] :
       /\ u.pc \in {"put", "commit"} /\ ~u.waiting
       /\ Send(c, u, [gen |-> u.id, append |-> 0, base |-> u.base, final |-> u.plan])
  /\ UNCHANGED <<source, offered, dbVars, objects, sweep, lock, ids, budget>>

Retry(c, u) ==
  up' = [up EXCEPT ![c] = IF u.tries + 1 < RetryLimit
                          THEN {[u EXCEPT !.pc = "head", !.tries = @ + 1, !.at = 0,
                                          !.waiting = FALSE, !.answer = {}]}
                          ELSE {}]

\* The next step of the upload after a successful one.
Proceed(c, u, pc, at) ==
  /\ up' = [up EXCEPT ![c] = {[u EXCEPT !.pc = pc, !.at = at, !.waiting = FALSE, !.answer = {}]}]
  /\ UNCHANGED lock

\* Mutant: the expired ids stay pending.
KeepPending == UNCHANGED lock

\* Expired ids are never resumed.
ForgetPending == lock' = [lock EXCEPT !.pending = {}]

\* The answer arrives.  A receipt with another revision than expected is an error.
Receive(c) ==
  /\ \E u \in up[c], a \in UNION {v.answer : v \in up[c]} :
       \/ /\ a.code = "409"
          /\ Retry(c, u) /\ UNCHANGED lock
       \/ /\ a.code = "410"
          /\ \E p \in lock.pending : p.kind = "rewrite"
          /\ Retry(c, u) /\ ForgetPending
       \/ /\ \/ a.code = "404"
             \/ a.code = "410" /\ \A p \in lock.pending : p.kind # "rewrite"
             \/ a.code = "ok" /\ u.pc \in {"append", "commit"} /\ a.rev # u.base.rev + 1
          /\ up' = [up EXCEPT ![c] = {}] /\ UNCHANGED lock
       \/ u.pc = "stage" /\ a.code = "ok" /\ Proceed(c, u, "put", 0)
       \/ u.pc = "stage" /\ a.code = "committed" /\ Proceed(c, u, "commit", 0)
       \/ /\ u.pc = "put" /\ a.code = "ok"
          /\ Proceed(c, u, IF u.at + 1 = Len(u.plan) THEN "commit" ELSE "put", u.at + 1)
       \/ /\ u.pc = "commit" /\ a.code = "ok" /\ a.rev = u.base.rev + 1
          /\ Synced(c, u)
       \/ /\ u.pc = "append" /\ a.code = "ok" /\ a.rev = u.base.rev + 1
          /\ IF NextLog(u) = u.plan THEN Synced(c, u)
             ELSE Proceed(c, [u EXCEPT !.base = [@ EXCEPT !.rev = a.rev, !.log = NextLog(u)]],
                          "append", 0)
  /\ UNCHANGED <<source, offered, dbVars, objects, sweep, ids, requests, budget>>

\* The upload breaks off: a crash, a timeout, a lost answer.  What was sent may
\* still arrive; the lock keeps the pending ids.
BreakOff(c) ==
  /\ up[c] # {} /\ Spend("faults")
  /\ up' = [up EXCEPT ![c] = {}]
  /\ requests' = {[r EXCEPT !.by = @ \ {c}] : r \in requests}
  /\ UNCHANGED <<source, offered, dbVars, objects, sweep, lock, ids>>

-----------------------------------------------------------------------------
(***************************************************************************)
(* The handlers.  Each takes a request r that has arrived and answers it.  *)
(***************************************************************************)

cas_matches(gen, rev, log) == session = [gen |-> gen, rev |-> rev, log |-> log]

BaseMatches(r) == cas_matches(r.base.gen, r.base.rev, r.base.log)

\* Mutant: a repeated request is answered from what is recorded, unchecked.
StillAtUnchecked(r) == TRUE

\* A repeated request was done before: its answer is still what the row says.
StillAt(r) == cas_matches(r.gen, r.base.rev + 1, r.final)

\* Mutant: the handlers do not wait for the row lock.
LockedNever(g) == FALSE

\* The row lock of the retention worker makes the handlers of a generation wait.
Locked(g) == \E w \in sweep : w.gen = g

Expired(g) == gens[g].status = "staging" /\ gens[g].mark = "expired"

\* The request is gone; whoever still waits for it gets the answer.
Reply(r, code, rev) ==
  /\ requests' = requests \ {r}
  /\ up' = [c \in Clients |-> IF c \in r.by
                              THEN {[u EXCEPT !.answer = {[code |-> code, rev |-> rev]}] : u \in up[c]}
                              ELSE up[c]]

Identity(r) == gens[r.gen].base = r.base /\ gens[r.gen].final = r.final

\* POST .../generations
HandleStage(r) ==
  /\ r.kind = "stage"
  /\ LET known == gens[r.gen].status # "none"
     IN \/ /\ IF known THEN ~Identity(r) ELSE ~BaseMatches(r)
           /\ Reply(r, "409", 0) /\ UNCHANGED gens
        \/ /\ known /\ Identity(r)
           /\ Reply(r, IF Expired(r.gen) THEN "410"
                       ELSE IF gens[r.gen].status = "committed" THEN "committed" ELSE "ok", 0)
           /\ UNCHANGED gens
        \/ /\ ~known /\ BaseMatches(r)
           /\ gens' = [gens EXCEPT ![r.gen] = [status |-> "staging", mark |-> "fresh",
                                               base |-> r.base, final |-> r.final]]
           /\ Reply(r, "ok", 0)
  /\ UNCHANGED <<source, offered, session, stored, chunks, receipts, shares, objects, sweep, lock,
                 ids, budget>>

\* Rows, and keys of objects, of the chunk that extends log l to its next event.
ChunkOf(l, final) == [start |-> Len(l), base |-> l, result |-> SubSeq(final, 1, Len(l) + 1)]
KeyOfEvent(g, ch) == <<1, ch.start, Last(ch.result)>>   \* Mutant: keys without generation.
KeyOf(g, ch) == <<g, ch.start, Last(ch.result)>>
AtStart(g, n) == {ch \in chunks[g] : ch.start = n}
Stored(r) == [r EXCEPT !.stored = TRUE]

\* PUT .../chunks/{start_seq}: the checks under the row lock, then the object
\* without it, then the checks again and the row.
HandlePut(r) ==
  LET g == r.gen
      ch == ChunkOf(SubSeq(r.final, 1, r.at), r.final)
      there == AtStart(g, r.at)
      Touched == [gens EXCEPT ![g].mark = "fresh"]
  IN /\ r.kind = "put" /\ ~Locked(g)
     /\ \/ /\ gens[g].status # "staging" /\ Reply(r, "404", 0)
           /\ UNCHANGED <<gens, chunks, objects>>
        \/ /\ Expired(g) /\ Reply(r, "410", 0)
           /\ UNCHANGED <<gens, chunks, objects>>
        \/ /\ gens[g].status = "staging" /\ ~Expired(g)
           /\ \/ /\ there # {} /\ there # {ch} /\ Reply(r, "409", 0)
                 /\ UNCHANGED <<gens, chunks, objects>>
              \/ /\ there = {ch} /\ Reply(r, "ok", 0)
                 /\ gens' = Touched /\ UNCHANGED <<chunks, objects>>
              \/ /\ there = {} /\ ~r.stored
                 /\ objects' = objects \cup {KeyOf(g, ch)}
                 /\ requests' = (requests \ {r}) \cup {Stored(r)}
                 /\ UNCHANGED <<gens, chunks, up>>
              \/ /\ there = {} /\ r.stored
                 /\ chunks' = [chunks EXCEPT ![g] = @ \cup {ch}]
                 /\ gens' = Touched /\ Reply(r, "ok", 0) /\ UNCHANGED objects
     /\ UNCHANGED <<source, offered, session, stored, receipts, shares, sweep, lock, ids, budget>>

\* The rows run from 0 without a gap, each continues the one before, and the
\* last one ends in the announced head.
Chained(g, final) ==
  /\ {ch.start : ch \in chunks[g]} = 0..(Len(final) - 1)
  /\ \A ch \in chunks[g] : /\ ch.base = SubSeq(final, 1, ch.start)
                           /\ ch.result = SubSeq(final, 1, ch.start + 1)

\* Mutant: the revision is not incremented.
MoveToSameRevision(g, log) ==
  /\ session' = [gen |-> g, rev |-> session.rev, log |-> log]
  /\ stored' = stored \cup {log}

\* The session row moves to another head: one revision more.
MoveTo(g, log) ==
  /\ session' = [gen |-> g, rev |-> session.rev + 1, log |-> log]
  /\ stored' = stored \cup {log}

\* POST .../commit
HandleCommit(r) ==
  LET g == r.gen
      done == gens[g].status = "committed" /\ Identity(r)
      fresh == gens[g].status = "staging" /\ Identity(r) /\ ~Expired(g)
  IN /\ r.kind = "commit" /\ ~Locked(g)
     /\ \/ /\ gens[g].status = "none" /\ Reply(r, "404", 0)
           /\ UNCHANGED <<session, stored, gens>>
        \/ /\ Expired(g) /\ Identity(r) /\ Reply(r, "410", 0)
           /\ UNCHANGED <<session, stored, gens>>
        \/ /\ \/ gens[g].status # "none" /\ ~Identity(r)
              \/ done /\ ~StillAt(r)
              \/ fresh /\ ~(BaseMatches(r) /\ Chained(g, r.final))
           /\ Reply(r, "409", 0)
           /\ UNCHANGED <<session, stored, gens>>
        \/ /\ done /\ StillAt(r)
           /\ Reply(r, "ok", r.base.rev + 1)
           /\ UNCHANGED <<session, stored, gens>>
        \/ /\ fresh /\ BaseMatches(r) /\ Chained(g, r.final)
           /\ gens' = [h \in Gens |-> IF h = g THEN [gens[h] EXCEPT !.status = "committed",
                                                                    !.mark = "fresh"]
                                      ELSE IF h = session.gen
                                      THEN [gens[h] EXCEPT !.mark = "superseded"] ELSE gens[h]]
           /\ MoveTo(g, r.final)
           /\ Reply(r, "ok", session.rev + 1)
     /\ UNCHANGED <<source, offered, chunks, receipts, shares, objects, sweep, lock, ids, budget>>

\* POST .../append, in two parts around the write of the object like HandlePut.
HandleAppend(r) ==
  LET g == r.gen
      ch == ChunkOf(r.base.log, r.final)
      receipt == {x \in receipts : x.append = r.append}
      known == receipt # {}
      replay == receipt = {[append |-> r.append, base |-> r.base, final |-> r.final]}
      there == session.gen = g /\ session.log = r.final
      open == ~known /\ ~there /\ BaseMatches(r) /\ gens[g].status = "committed"
  IN /\ r.kind = "append"
     /\ \/ /\ \/ known /\ ~(replay /\ StillAt(r)
                                   /\ AtStart(g, ch.start) # {})
              \/ ~known /\ ~there /\ ~open
           /\ Reply(r, "409", 0)
           /\ UNCHANGED <<session, stored, chunks, receipts, objects>>
        \/ /\ replay /\ StillAt(r) /\ AtStart(g, ch.start) # {}
           /\ Reply(r, "ok", r.base.rev + 1)
           /\ UNCHANGED <<session, stored, chunks, receipts, objects>>
        \/ /\ ~known /\ there
           /\ Reply(r, "ok", session.rev)
           /\ UNCHANGED <<session, stored, chunks, receipts, objects>>
        \/ /\ open /\ ~r.stored
           /\ objects' = objects \cup {KeyOf(g, ch)}
           /\ requests' = (requests \ {r}) \cup {Stored(r)}
           /\ UNCHANGED <<session, stored, chunks, receipts, up>>
        \/ /\ open /\ r.stored
           /\ chunks' = [chunks EXCEPT ![g] = @ \cup {ch}]
           /\ receipts' = receipts \cup {[append |-> r.append, base |-> r.base, final |-> r.final]}
           /\ MoveTo(g, r.final)
           /\ Reply(r, "ok", session.rev + 1)
           /\ UNCHANGED objects
     /\ UNCHANGED <<source, offered, gens, shares, sweep, lock, ids, budget>>

\* A request is lost on the way, or its handler dies between object and row.
LoseRequest(r) ==
  /\ r.by = {}
  /\ requests' = requests \ {r}
  /\ UNCHANGED <<source, offered, dbVars, objects, sweep, clientVars, budget>>

-----------------------------------------------------------------------------
(***************************************************************************)
(* Shares, the passing of time and the retention worker.                   *)
(***************************************************************************)

\* create_session_share freezes the current generation under the session lock.
Share ==
  /\ session.gen # 0 /\ session.gen \notin shares
  /\ shares' = shares \cup {session.gen}
  /\ UNCHANGED <<source, offered, session, stored, gens, chunks, receipts, objects, sweep,
                 clientVars, requests, budget>>

Revoke(g) ==
  /\ g \in shares
  /\ shares' = shares \ {g}
  /\ UNCHANGED <<source, offered, session, stored, gens, chunks, receipts, objects, sweep,
                 clientVars, requests, budget>>

\* Time passes: a staging generation sees no upload for its cutoff, or is two
\* days old; a superseded one is past its seven days.  The cutoff is hours, the
\* life of a request seconds: none of the generation is under way when it ends.
Age(g) ==
  /\ \/ /\ gens[g].status = "staging" /\ gens[g].mark = "fresh"
        /\ \A r \in requests : r.gen # g
        /\ gens' = [gens EXCEPT ![g].mark = "idle"] /\ Spend("idles")
     \/ /\ gens[g].status = "staging" /\ gens[g].mark # "expired"
        /\ gens' = [gens EXCEPT ![g].mark = "expired"] /\ Spend("faults")
     \/ /\ gens[g].status = "committed" /\ gens[g].mark = "superseded"
        /\ gens' = [gens EXCEPT ![g].mark = "aged"] /\ UNCHANGED budget
  /\ UNCHANGED <<source, offered, session, stored, chunks, receipts, shares, objects, sweep,
                 clientVars, requests>>

\* Mutant: active shares are not looked at.
RemovableShared(g) ==
  /\ g # session.gen
  /\ \/ gens[g].status = "staging" /\ gens[g].mark \in {"idle", "expired"}
     \/ gens[g].status = "committed" /\ gens[g].mark = "aged"

Removable(g) ==
  /\ g # session.gen /\ g \notin shares
  /\ \/ gens[g].status = "staging" /\ gens[g].mark \in {"idle", "expired"}
     \/ gens[g].status = "committed" /\ gens[g].mark = "aged"

\* run_once: lock one removable generation and list its objects.
SweepBegin(g) ==
  /\ sweep = {} /\ Removable(g) /\ Spend("sweeps")
  /\ sweep' = {[gen |-> g, todo |-> {KeyOf(g, ch) : ch \in chunks[g]}]}
  /\ UNCHANGED <<source, offered, dbVars, objects, clientVars, requests>>

SweepDelete ==
  /\ \E w \in sweep : \E k \in w.todo :
       /\ objects' = objects \ {k}
       /\ sweep' = {[w EXCEPT !.todo = @ \ {k}]}
  /\ UNCHANGED <<source, offered, dbVars, clientVars, requests, budget>>

\* Every object is gone: delete the row, which cascades, and commit.
SweepDone ==
  /\ \E w \in sweep :
       /\ w.todo = {}
       /\ gens' = [gens EXCEPT ![w.gen] = NoGen]
       /\ chunks' = [chunks EXCEPT ![w.gen] = {}]
       /\ receipts' = {x \in receipts : x.base.gen # w.gen}
  /\ sweep' = {}
  /\ UNCHANGED <<source, offered, session, stored, shares, objects, clientVars, requests, budget>>

\* The store raises, or the worker dies: the transaction is rolled back.
SweepFail ==
  /\ sweep # {} /\ Spend("sweepFaults")
  /\ sweep' = {}
  /\ UNCHANGED <<source, offered, dbVars, objects, clientVars, requests>>

Next ==
  \/ \E l \in Logs : Transcribe(l)
  \/ \E c \in Clients :
       BeginUpload(c) \/ GetHead(c) \/ SendAppend(c) \/ SendStage(c) \/ SendNext(c) \/ Receive(c)
         \/ BreakOff(c)
  \/ \E r \in requests :
       HandleStage(r) \/ HandlePut(r) \/ HandleCommit(r) \/ HandleAppend(r) \/ LoseRequest(r)
  \/ \E g \in Gens : Revoke(g) \/ Age(g) \/ SweepBegin(g)
  \/ Share \/ SweepDelete \/ SweepDone \/ SweepFail

Spec == Init /\ [][Next]_vars

\* Fairness: the uploaders keep scanning and go on with what they began, every
\* request that is waited for is answered, and the worker ends what it began.
Handle == \E r \in requests : HandleStage(r) \/ HandlePut(r) \/ HandleCommit(r) \/ HandleAppend(r)
Sweep == SweepDelete \/ SweepDone

FairSpec ==
  /\ Spec
  /\ \A c \in Clients :
       WF_vars(BeginUpload(c) \/ GetHead(c) \/ SendAppend(c) \/ SendStage(c) \/ SendNext(c)
                 \/ Receive(c))
  /\ WF_vars(Handle) /\ WF_vars(Sweep)

-----------------------------------------------------------------------------
(***************************************************************************)
(* Properties.                                                             *)
(***************************************************************************)

ObjectsOf(g) == {KeyOf(g, ch) : ch \in chunks[g]}

\* What GET /events returns: the rows of the current generation and their objects.
Readable ==
  IF /\ session.gen # 0
     /\ Chained(session.gen, session.log)
     /\ ObjectsOf(session.gen) \subseteq objects
  THEN session.log ELSE <<>>

\* GET /events never answers with an error: the rows of the current generation
\* are the chain the session row announces and every object is in the store,
\* whatever sweeps, late requests and competing uploads are going on.
CurrentReadable == session.gen # 0 => Readable = session.log

\* "actively shared generations are never eligible": a share keeps every object
\* of its generation, after the generation was superseded too.
SharedReadable == \A g \in shares : ObjectsOf(g) \subseteq objects

\* The protocol implements SessionLog: a reader sees a transcript change only
\* in one step and with a revision of its own, never half of a rewrite, never
\* an event twice because a request was repeated, never a transcript nobody had.
Log == INSTANCE SessionLog WITH log <- Readable, revision <- session.rev
ImplementsSessionLog == Log!Spec

\* The entry of sessions-lock.json makes later scans skip a transcript, so when
\* no upload is going on it confirms one only if the server had it.
ConfirmedWasStored ==
  lock.pending = {} /\ (\A c \in Clients : up[c] = {}) => lock.local \subseteq stored

\* What the server holds when a commit, or the append of one event, has worked.
Announced(u) == IF u.pc = "commit" THEN u.plan ELSE NextLog(u)

\* Upload u is told in this step that its commit or append has worked, and it has:
\* the row holds what was announced, by a revision after the base, the one named.
ToldTruly(u) ==
  \A a \in u.answer : (u.pc \in {"commit", "append"} /\ a.code = "ok") =>
    session'.log = Announced(u) /\ session'.rev = a.rev /\ a.rev > u.base.rev

\* An idempotent retry does not resurrect the past: whenever an uploader is told
\* that its commit or append has worked, at first or on a repetition, the session
\* row holds at that moment the transcript it announced, with the revision the
\* answer names, and that revision came after the one the upload was based on.
AnswerIsTrue == [][\A c \in Clients : \A u \in up'[c] \ up[c] : ToldTruly(u)]_vars

\* Once the transcript stops changing it is stored in the end, whatever uploads
\* broke off, requests arrived late and generations were removed before.
TranscriptStored == <>[](source = <<>> \/ session.log = source)
=============================================================================
