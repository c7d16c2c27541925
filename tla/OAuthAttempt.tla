---------------------------- MODULE OAuthAttempt ----------------------------
(***************************************************************************)
(* Sign-in to an AI provider and the revocation of its tokens (backend/    *)
(* app/services/ai_provider_oauth_attempt.py, ai_provider_auth_transition. *)
(* py, ai_provider_oauth_revoke_worker.py): the durable attempts, the      *)
(* requests that poll, exchange and commit them, the credential they       *)
(* install, the tombstones of tokens to be revoked and the workers that    *)
(* revoke them.                                                            *)
(*                                                                         *)
(* One provider of one owner.  Every transaction takes the owner's row     *)
(* lock first (lock_ai_provider_owner), so it is one action; the upstream  *)
(* calls between the transactions are actions of their own.  Upstream may  *)
(* grant a code more than once, and may hand out again the token of a      *)
(* credential that was replaced.  Time is not counted: an exchange or a    *)
(* claim may be found old at any moment, and so may a tombstone be due.    *)
(***************************************************************************)
EXTENDS Integers, FiniteSets

CONSTANTS Requests,    \* concurrent requests that complete a sign-in
          Workers,     \* concurrent AiProviderOAuthRevokeWorkers
          MaxSignIns,  \* bound: attempts the user starts
          Device,      \* the attempts of the device_code flow
          MaxTokens,   \* bound: different tokens upstream hands out
          MaxReplaces, \* bound: other changes of the provider's credential
          MaxFaults    \* bound: crashes, lost answers, failed writes, stalls

Attempts == 1..MaxSignIns
Tokens == 1..MaxTokens
None == 0

ASSUME OAuthAttemptAssumption ==
  /\ None \notin Requests \cup Workers
  /\ IsFiniteSet(Requests) /\ IsFiniteSet(Workers)
  /\ {MaxSignIns, MaxTokens, MaxReplaces, MaxFaults} \subseteq Nat
  /\ Device \subseteq Attempts

VARIABLES
  attempt,    \* rows of ai_provider_oauth_attempts
  tombstone,  \* rows of ai_provider_oauth_revoke_tombstones, one per token
  installed,  \* the token of the provider's active auth payload, or None
  revision,   \* credential_revision of that payload
  archived,   \* provider.archived_at is set
  request,    \* what each request is doing
  worker,     \* what each revoke worker is doing
  token,      \* upstream: what became of each token
  lost,       \* tokens upstream issued and nothing here remembers
  budget      \* what is left of each bound

provider == <<installed, revision, archived>>
vars == <<attempt, tombstone, provider, request, worker, token, lost, budget>>

Active == {"pending", "polling", "exchanging"}
Attempt == [status : Active \cup {"none", "committed", "failed", "purged"}, base : Nat,
            claim : Requests \cup {None}, stale : BOOLEAN]
Open == {"pending", "processing"}
Tombstone == [status : Open \cup {"none", "revoked", "cancelled"}, attempt : Attempts \cup {None},
              claim : Workers \cup {None}, lapsed : BOOLEAN]
Phases == {"idle", "poll", "load", "exchange", "protect", "revoke", "reprotect", "commit",
           "fail"}
Request == [phase : Phases, attempt : Attempts \cup {None}, token : Tokens \cup {None}]
Idle == [phase |-> "idle", attempt |-> None, token |-> None]
Resting == [phase |-> "idle"]
Worker == {Resting} \cup [phase : {"picked"}, token : Tokens, attempt : Attempts \cup {None},
                          pending : BOOLEAN]
                    \cup [phase : {"claimed"}, token : Tokens]
                    \cup [phase : {"answered"}, token : Tokens, revoked : BOOLEAN]

\* Rows are well typed, and ck_ai_provider_oauth_attempts_poll_claim is never
\* violated: a poll claim is set exactly while the attempt is polling.
TypeOK ==
  /\ attempt \in [Attempts -> Attempt]
  /\ \A a \in Attempts : attempt[a].status = "polling" <=> attempt[a].claim # None
  /\ tombstone \in [Tokens -> Tombstone]
  /\ installed \in Tokens \cup {None} /\ revision \in Nat /\ archived \in BOOLEAN
  /\ request \in [Requests -> Request]
  /\ worker \in [Workers -> Worker]
  /\ token \in [Tokens -> {"unissued", "live", "revoked"}]
  /\ lost \subseteq Tokens
  /\ budget \in [{"replaces", "faults"} -> Nat]

Init ==
  /\ attempt = [a \in Attempts |-> [status |-> "none", base |-> 0, claim |-> None, stale |-> FALSE]]
  /\ tombstone = [t \in Tokens |->
       [status |-> "none", attempt |-> None, claim |-> None, lapsed |-> FALSE]]
  /\ installed = None /\ revision = 0 /\ archived = FALSE
  /\ request = [r \in Requests |-> Idle] /\ worker = [w \in Workers |-> Resting]
  /\ token = [t \in Tokens |-> "unissued"] /\ lost = {}
  /\ budget = [replaces |-> MaxReplaces, faults |-> MaxFaults]

Spend(what) == budget[what] > 0 /\ budget' = [budget EXCEPT ![what] = @ - 1]

RequestsOn(a) == {r \in Requests : request[r].attempt = a}

-----------------------------------------------------------------------------
(***************************************************************************)
(* What the transactions are made of.                                      *)
(***************************************************************************)

\* Mutant: the status of the attempt is not looked at.
FailedAny(at, S) ==
  [a \in Attempts |-> IF a \in S /\ at[a].status # "none"
                      THEN [at[a] EXCEPT !.status = "failed", !.claim = None, !.stale = FALSE] ELSE at[a]]

\* Mutant: the poll claim of a failed attempt stays.
FailedClaimed(at, S) ==
  [a \in Attempts |-> IF a \in S /\ at[a].status \in Active
                      THEN [at[a] EXCEPT !.status = "failed", !.stale = FALSE] ELSE at[a]]

\* terminal_oauth_attempt("failed") for those of S that are active.
Failed(at, S) ==
  [a \in Attempts |-> IF a \in S /\ at[a].status \in Active
                      THEN [at[a] EXCEPT !.status = "failed", !.claim = None, !.stale = FALSE] ELSE at[a]]

\* _validate_attempt_fence, and the provider is still there.
Fenced(a) == ~archived /\ attempt[a].base = revision

\* The attempt enters a phase under the claim c, or fails at the fence.
Entered(a, status, c) ==
  IF Fenced(a)
  THEN [attempt EXCEPT ![a].status = status, ![a].claim = c, ![a].stale = FALSE]
  ELSE Failed(attempt, {a})

\* Mutant: a finished tombstone of the same token is left as it is.
QueuedOnce(ts, t, a) ==
  IF ts[t].status # "none" THEN ts
  ELSE [ts EXCEPT ![t] = [status |-> "pending", attempt |-> a, claim |-> None, lapsed |-> FALSE]]

\* enqueue_oauth_revoke_tombstone: an upsert that preserves an open or a revoked row.
Queued(ts, t, a) ==
  IF ts[t].status \in Open \cup {"revoked"} THEN ts
  ELSE [ts EXCEPT ![t] = [status |-> "pending", attempt |-> a, claim |-> None, lapsed |-> FALSE]]

\* transition_ai_provider_auth: the token of the old payload is to be revoked,
\* unless the new payload holds it too.
Retired(ts, new) == IF installed \in {None, new} THEN ts ELSE Queued(ts, installed, None)

\* Mutant: the tombstone is found by its token alone.
CancellableByToken(t, a) == tombstone[t].status \in Open

\* cancel_oauth_revoke_tombstone finds its row.
Cancellable(t, a) == tombstone[t].status = "pending" /\ tombstone[t].attempt = a

\* Something durable still names the token.
Remembered(t) == t = installed \/ tombstone[t].status \in Open

At(r, phase, a, t) ==
  request' = [request EXCEPT ![r] = [phase |-> phase, attempt |-> a, token |-> t]]
Done(r) == request' = [request EXCEPT ![r] = Idle]
Continue(r, phase) == request' = [request EXCEPT ![r].phase = phase]

-----------------------------------------------------------------------------
(***************************************************************************)
(* The user starts a sign-in, or changes the credential another way.       *)
(***************************************************************************)

\* persist_attempt: the new attempt supersedes every active one.
StartAttempt(a) ==
  /\ attempt[a].status = "none" /\ \A b \in 1..(a - 1) : attempt[b].status # "none"
  /\ ~archived
  /\ attempt' = [Failed(attempt, Attempts) EXCEPT ![a] =
                   [status |-> "pending", base |-> revision, claim |-> None, stale |-> FALSE]]
  /\ UNCHANGED <<tombstone, provider, request, worker, token, lost, budget>>

\* An API key is set or the provider is deleted: transition_ai_provider_auth
\* without an attempt to keep.
Replace(archive) ==
  /\ ~archived
  /\ Spend("replaces")
  /\ attempt' = Failed(attempt, Attempts)
  /\ tombstone' = Retired(tombstone, None)
  /\ installed' = None /\ revision' = revision + 1 /\ archived' = archive
  /\ UNCHANGED <<request, worker, token, lost>>

\* The deleted provider is created again.
Reactivate ==
  /\ archived
  /\ archived' = FALSE
  /\ UNCHANGED <<attempt, tombstone, installed, revision, request, worker, token, lost, budget>>

-----------------------------------------------------------------------------
(***************************************************************************)
(* A request that completes a sign-in.                                     *)
(***************************************************************************)

\* begin_exchange, and the head of _claim_device_poll: a stale exchange is taken
\* up again with the code that is stored.
TakeOver(r, a) ==
  /\ request[r] = Idle
  /\ attempt[a].status = "exchanging" /\ attempt[a].stale
  /\ attempt' = [attempt EXCEPT ![a].stale = FALSE]
  /\ At(r, "load", a, None)
  /\ UNCHANGED <<tombstone, provider, worker, token, lost, budget>>

\* begin_exchange of a pending attempt: the code is stored before it is used.
BeginExchange(r, a) ==
  /\ request[r] = Idle /\ a \notin Device
  /\ attempt[a].status = "pending"
  /\ attempt' = Entered(a, "exchanging", None)
  /\ IF Fenced(a) THEN At(r, "load", a, None) ELSE UNCHANGED request
  /\ UNCHANGED <<tombstone, provider, worker, token, lost, budget>>

\* _claim_device_poll: one request at a time polls, until its lease is over.
ClaimPoll(r, a) ==
  /\ request[r] = Idle /\ a \in Device
  /\ \/ attempt[a].status = "pending"
     \/ attempt[a].status = "polling" /\ attempt[a].stale
  /\ attempt' = Entered(a, "polling", r)
  /\ IF Fenced(a) THEN At(r, "poll", a, None) ELSE UNCHANGED request
  /\ UNCHANGED <<tombstone, provider, worker, token, lost, budget>>

HoldsPoll(r, a) == attempt[a].status = "polling" /\ attempt[a].claim = r

\* _release_device_poll: the user has not confirmed yet.
PollPending(r) ==
  /\ request[r].phase = "poll"
  /\ LET a == request[r].attempt
     IN attempt' = IF HoldsPoll(r, a)
                   THEN [attempt EXCEPT ![a].status = "pending", ![a].claim = None, ![a].stale = FALSE]
                   ELSE attempt
  /\ Done(r)
  /\ UNCHANGED <<tombstone, provider, worker, token, lost, budget>>

\* fail_attempt with the expected claim.
PollRefused(r) ==
  /\ request[r].phase = "poll"
  /\ LET a == request[r].attempt
     IN attempt' = IF attempt[a].claim = r THEN Failed(attempt, {a}) ELSE attempt
  /\ Done(r)
  /\ UNCHANGED <<tombstone, provider, worker, token, lost, budget>>

\* The attempt after _persist_device_poll_success: of a deleted provider it fails
\* whatever its status, and before the claim is looked at.
Confirmed(r, a) ==
  IF archived THEN [attempt EXCEPT ![a].status = "failed", ![a].claim = None, ![a].stale = FALSE]
  ELSE IF HoldsPoll(r, a) THEN Entered(a, "exchanging", None)
  ELSE attempt

\* Who lost the claim to a request that has the code already joins the exchange.
PollConfirmed(r) ==
  /\ request[r].phase = "poll"
  /\ LET a == request[r].attempt
     IN /\ attempt' = Confirmed(r, a)
        /\ IF attempt'[a].status = "exchanging" THEN Continue(r, "load") ELSE Done(r)
  /\ UNCHANGED <<tombstone, provider, worker, token, lost, budget>>

\* exchange_and_commit reads the attempt: replayed, refused, or exchanged.
Load(r) ==
  /\ request[r].phase = "load"
  /\ IF attempt[request[r].attempt].status = "exchanging" THEN Continue(r, "exchange") ELSE Done(r)
  /\ UNCHANGED <<attempt, tombstone, provider, worker, token, lost, budget>>

\* The next new token, or that of a replaced credential which is still to be revoked.
Grants(t) ==
  \/ token[t] = "unissued" /\ \A u \in 1..(t - 1) : token[u] # "unissued"
  \/ token[t] = "live" /\ tombstone[t].status \in Open /\ tombstone[t].attempt = None

Granted(r, t) ==
  /\ request[r].phase = "exchange" /\ Grants(t)
  /\ token' = [token EXCEPT ![t] = "live"]
  /\ At(r, "protect", request[r].attempt, t)
  /\ UNCHANGED <<attempt, tombstone, provider, worker, lost, budget>>

\* Upstream refuses, or its answer is lost.
Refused(r) ==
  /\ request[r].phase = "exchange"
  /\ \/ UNCHANGED <<token, lost, budget>>
     \/ \E t \in Tokens :
          /\ Grants(t) /\ token[t] = "unissued"
          /\ token' = [token EXCEPT ![t] = "live"] /\ lost' = lost \cup {t}
          /\ Spend("faults")
  /\ Continue(r, "fail")
  /\ UNCHANGED <<attempt, tombstone, provider, worker>>

\* _persist_compensation_once: the token is to be revoked unless a commit says otherwise.
Protect(r) ==
  /\ request[r].phase = "protect"
  /\ tombstone' = Queued(tombstone, request[r].token, request[r].attempt)
  /\ Continue(r, "commit")
  /\ UNCHANGED <<attempt, provider, worker, token, lost, budget>>

\* The write fails, applied or not.
ProtectFails(r) ==
  /\ request[r].phase = "protect"
  /\ Spend("faults")
  /\ tombstone' \in {tombstone, Queued(tombstone, request[r].token, request[r].attempt)}
  /\ Continue(r, "revoke")
  /\ UNCHANGED <<attempt, provider, worker, token, lost>>

\* revoke_exchanged_token, with or without success.
RevokeNow(r) ==
  /\ request[r].phase = "revoke"
  /\ token' \in {token, [token EXCEPT ![request[r].token] = "revoked"]}
  /\ Continue(r, "reprotect")
  /\ UNCHANGED <<attempt, tombstone, provider, worker, lost, budget>>

\* The second write; when it fails as well nothing remembers the token.
Reprotect(r) ==
  /\ request[r].phase = "reprotect"
  /\ LET t == request[r].token
     IN \/ tombstone' = Queued(tombstone, t, request[r].attempt) /\ UNCHANGED lost
        \/ /\ lost' = IF token[t] = "live" /\ ~Remembered(t) THEN lost \cup {t} ELSE lost
           /\ UNCHANGED tombstone
  /\ Continue(r, "fail")
  /\ UNCHANGED <<attempt, provider, worker, token, budget>>

\* commit_attempt: the tombstone is cancelled and the token installed.
Commit(r) ==
  /\ request[r].phase = "commit"
  /\ LET a == request[r].attempt
         t == request[r].token
     IN /\ attempt[a].status = "exchanging" /\ Fenced(a) /\ Cancellable(t, a)
        /\ attempt' = [Failed(attempt, Attempts \ {a}) EXCEPT ![a].status = "committed", ![a].stale = FALSE]
        /\ tombstone' = Retired([tombstone EXCEPT ![t].status = "cancelled"], t)
        /\ installed' = t /\ revision' = revision + 1
  /\ \/ Done(r) /\ UNCHANGED budget
     \/ Continue(r, "fail") /\ Spend("faults")
  /\ UNCHANGED <<archived, worker, token, lost>>

\* Another request has committed the attempt: its receipt is replayed.
Replay(r) ==
  /\ request[r].phase = "commit" /\ attempt[request[r].attempt].status = "committed"
  /\ Done(r)
  /\ UNCHANGED <<attempt, tombstone, provider, worker, token, lost, budget>>

\* The credential cannot be built, the revocation has begun, or a fence is lost;
\* only the latter is written down at once.
CommitRefused(r) ==
  /\ request[r].phase = "commit"
  /\ LET a == request[r].attempt
     IN /\ attempt[a].status # "committed"
        /\ attempt' = IF Fenced(a) THEN attempt ELSE Failed(attempt, {a})
  /\ Continue(r, "fail")
  /\ UNCHANGED <<tombstone, provider, worker, token, lost, budget>>

\* fail_attempt; a failure of its own is only logged.
FailAttempt(r) ==
  /\ request[r].phase = "fail"
  /\ \/ attempt' = Failed(attempt, {request[r].attempt}) /\ UNCHANGED budget
     \/ UNCHANGED attempt /\ Spend("faults")
  /\ Done(r)
  /\ UNCHANGED <<tombstone, provider, worker, token, lost>>

InHand(t) == {r \in Requests : request[r].token = t /\ request[r].phase \in {"protect", "revoke", "reprotect"}}

\* The process dies; a token it had not recorded yet is forgotten.
RequestDies(r) ==
  /\ request[r] # Idle
  /\ Spend("faults")
  /\ lost' = lost \cup {t \in Tokens : InHand(t) = {r} /\ token[t] = "live" /\ ~Remembered(t)}
  /\ Done(r)
  /\ UNCHANGED <<attempt, tombstone, provider, worker, token>>

\* The exchange or the polling lease grows old; under a running request it is a stall.
Age(a) ==
  /\ attempt[a].status \in {"polling", "exchanging"} /\ ~attempt[a].stale
  /\ IF RequestsOn(a) = {} THEN UNCHANGED budget ELSE Spend("faults")
  /\ attempt' = [attempt EXCEPT ![a].stale = TRUE]
  /\ UNCHANGED <<tombstone, provider, request, worker, token, lost>>

-----------------------------------------------------------------------------
(***************************************************************************)
(* The revoke worker.                                                      *)
(***************************************************************************)

\* Mutant: an abandoned exchange keeps its token.
ForfeitedWhenTerminal == {a \in Attempts : attempt[a].status \in {"failed", "purged"}}

\* Attempts that cannot commit any more or have had their time.
Forfeited ==
  {a \in Attempts : \/ attempt[a].status \in {"failed", "purged"}
                    \/ attempt[a].status = "exchanging" /\ attempt[a].stale}

\* oauth_revoke_candidate_ids
Eligible(t) ==
  \/ tombstone[t].status = "processing" /\ tombstone[t].lapsed
  \/ tombstone[t].status = "pending" /\ tombstone[t].attempt \in Forfeited \cup {None}

\* The candidate is read before any lock is taken.
Pick(w, t) ==
  /\ worker[w] = Resting /\ Eligible(t)
  /\ worker' = [worker EXCEPT ![w] =
       [phase |-> "picked", token |-> t, attempt |-> tombstone[t].attempt,
        pending |-> tombstone[t].status = "pending"]]
  /\ UNCHANGED <<attempt, tombstone, provider, request, token, lost, budget>>

\* fence_oauth_attempt_for_revoke: the attempt can be kept from committing.
MayRevoke(a, pending) == pending => a \in Forfeited \cup {None}

\* _claim_oauth_revoke_candidate under the lock: the attempt is failed first.
ClaimTombstone(w) ==
  /\ worker[w].phase = "picked"
  /\ LET t == worker[w].token
         a == worker[w].attempt
         may == MayRevoke(a, worker[w].pending)
         due == /\ tombstone[t].attempt = a
                /\ \/ tombstone[t].status = "pending"
                   \/ tombstone[t].status = "processing" /\ tombstone[t].lapsed
     IN /\ attempt' = IF may THEN Failed(attempt, {a}) ELSE attempt
        /\ IF may /\ due
           THEN /\ tombstone' = [tombstone EXCEPT ![t].status = "processing", ![t].claim = w,
                                                  ![t].lapsed = FALSE]
                /\ worker' = [worker EXCEPT ![w] = [phase |-> "claimed", token |-> t]]
           ELSE UNCHANGED tombstone /\ worker' = [worker EXCEPT ![w] = Resting]
  /\ UNCHANGED <<provider, request, token, lost, budget>>

\* revoke_oauth_token: done, refused, or done without an answer.
Revoke(w) ==
  /\ worker[w].phase = "claimed"
  /\ LET t == worker[w].token
         answered(ok) == worker' = [worker EXCEPT ![w] =
                                      [phase |-> "answered", token |-> t, revoked |-> ok]]
         gone == [token EXCEPT ![t] = "revoked"]
     IN \/ token' = gone /\ answered(TRUE) /\ UNCHANGED budget
        \/ token' \in {token, gone} /\ answered(FALSE) /\ Spend("faults")
  /\ UNCHANGED <<attempt, tombstone, provider, request, lost>>

OwnsClaim(w, t) == tombstone[t].status = "processing" /\ tombstone[t].claim = w

\* record_oauth_revoke_result
Record(w) ==
  /\ worker[w].phase = "answered"
  /\ LET t == worker[w].token
     IN tombstone' = IF OwnsClaim(w, t)
                     THEN [tombstone EXCEPT
                             ![t].status = IF worker[w].revoked THEN "revoked" ELSE "pending",
                             ![t].claim = None, ![t].lapsed = FALSE]
                     ELSE tombstone
  /\ worker' = [worker EXCEPT ![w] = Resting]
  /\ UNCHANGED <<attempt, provider, request, token, lost, budget>>

WorkerDies(w) ==
  /\ worker[w] # Resting
  /\ Spend("faults")
  /\ worker' = [worker EXCEPT ![w] = Resting]
  /\ UNCHANGED <<attempt, tombstone, provider, request, token, lost>>

\* The claim is older than its lease; under a running worker it is a stall.
Lapse(t) ==
  /\ tombstone[t].status = "processing" /\ ~tombstone[t].lapsed
  /\ IF \E w \in Workers : worker[w].phase \in {"claimed", "answered"} /\ worker[w].token = t
                           /\ tombstone[t].claim = w
     THEN Spend("faults") ELSE UNCHANGED budget
  /\ tombstone' = [tombstone EXCEPT ![t].lapsed = TRUE]
  /\ UNCHANGED <<attempt, provider, request, worker, token, lost>>

\* purge_expired_oauth_records, thirty days later, when nobody works on the row.
\* It removes failed attempts and finished tombstones too, and what is done here
\* does not depend on whether those are kept.
PurgeAttempt(a) ==
  /\ attempt[a].status = "committed"
  /\ RequestsOn(a) = {}
  /\ attempt' = [attempt EXCEPT ![a].status = "purged"]
  /\ UNCHANGED <<tombstone, provider, request, worker, token, lost, budget>>

-----------------------------------------------------------------------------
RequestStep(r) ==
  \/ PollPending(r) \/ PollRefused(r) \/ PollConfirmed(r) \/ Load(r)
  \/ \E t \in Tokens : Granted(r, t)
  \/ Refused(r) \/ Protect(r) \/ ProtectFails(r) \/ RevokeNow(r) \/ Reprotect(r)
  \/ Commit(r) \/ Replay(r) \/ CommitRefused(r) \/ FailAttempt(r)

WorkerStep(w) ==
  (\E t \in Tokens : Pick(w, t)) \/ ClaimTombstone(w) \/ Revoke(w) \/ Record(w)

TimePasses ==
  (\E a \in Attempts : Age(a) \/ PurgeAttempt(a)) \/ \E t \in Tokens : Lapse(t)

Next ==
  \/ \E a \in Attempts : StartAttempt(a)
  \/ \E archive \in BOOLEAN : Replace(archive)
  \/ Reactivate
  \/ \E r \in Requests : RequestStep(r) \/ RequestDies(r)
  \/ \E r \in Requests, a \in Attempts : TakeOver(r, a) \/ BeginExchange(r, a) \/ ClaimPoll(r, a)
  \/ \E w \in Workers : WorkerStep(w) \/ WorkerDies(w)
  \/ TimePasses

Spec == Init /\ [][Next]_vars

\* Fairness: a request that runs goes on, the workers poll, time passes and the
\* retention runs.  Nothing makes the user start or complete a sign-in.
FairSpec ==
  /\ Spec
  /\ \A r \in Requests : WF_vars(RequestStep(r))
  /\ \A w \in Workers : WF_vars(WorkerStep(w))
  /\ WF_vars(TimePasses /\ UNCHANGED budget)

-----------------------------------------------------------------------------
(***************************************************************************)
(* Properties.                                                             *)
(***************************************************************************)

\* The token the provider's runtime signs in with is never revoked upstream by
\* a compensation, however an exchange, a takeover of it, a commit, a revoke
\* worker and a late answer of an earlier one interleave.
InstalledNeverRevoked == installed # None => token[installed] = "live"

\* "Compensation must survive": a live token is installed, has an open tombstone,
\* or is in the hands of a request that has yet to record it; the only others are
\* those of the windows the code calls unavoidable (a death or a lost answer
\* before the first durable write, and two failed writes around a failed revoke).
TokenAccounted ==
  \A t \in Tokens : token[t] = "live" => Remembered(t) \/ InHand(t) # {} \/ t \in lost

\* The outcome of a sign-in stands: an attempt that failed, by being superseded,
\* refused or compensated, never commits, and one that committed is not failed by
\* its own lost answer, a loser of the race or a change of the credential.  Only
\* the late confirmation of a poll takes a commit back, and only while the provider
\* is deleted and nothing is installed (_persist_device_poll_success looks at the
\* provider before it looks at its claim).
OutcomeStands ==
  [][\A a \in Attempts :
       /\ attempt[a].status \in {"failed", "purged"} => attempt'[a].status = attempt[a].status
       /\ attempt[a].status = "committed" =>
            \/ attempt'[a].status \in {"committed", "purged"}
            \/ archived /\ installed = None /\ a \in Device /\ attempt'[a].status = "failed"]_vars

\* In the end the only live token is the installed one: every other token that
\* was recorded is revoked, after failed attempts, lapsed claims, dead workers and
\* exchanges that were granted twice.
OrphansRevoked ==
  <>[](\A t \in Tokens : token[t] = "live" => t = installed \/ t \in lost)
=============================================================================
