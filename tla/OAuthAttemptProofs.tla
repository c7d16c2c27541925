------------------------- MODULE OAuthAttemptProofs -------------------------
(***************************************************************************)
(* Theorems about OAuthAttempt, for any number of requests, workers, sign- *)
(* ins, tokens and faults: its type invariant, that the outcome of an      *)
(* attempt stands but for the late poll of a deleted provider, that the    *)
(* installed token is never revoked and that no live token is forgotten    *)
(* outside the windows the code documents.                                 *)
(***************************************************************************)
EXTENDS OAuthAttempt, TLAPS

-----------------------------------------------------------------------------
(***************************************************************************)
(* The invariant.                                                          *)
(***************************************************************************)

\* The phases in which a request answers for a token.
Holding == {"protect", "revoke", "reprotect", "commit"}

Holds(r, t) == request[r].phase \in Holding /\ request[r].token = t

\* A request works on an attempt that was started and is still there, polls only
\* for one of the device flow, and has a token that was issued.
RequestInv ==
  \A r \in Requests :
    /\ request[r].phase # "idle" => /\ request[r].attempt \in Attempts
                                    /\ attempt[request[r].attempt].status \notin {"none", "purged"}
    /\ request[r].phase = "poll" => request[r].attempt \in Device
    /\ request[r].phase \in Holding => /\ request[r].token \in Tokens
                                       /\ token[request[r].token] # "unissued"

\* A deleted provider has no credential.
ArchivedInv == archived => installed = None

TypeInv == TypeOK /\ RequestInv /\ ArchivedInv

\* The attempt that could still commit the token: the tombstone names it.
MayCommit(t) ==
  /\ tombstone[t].status \in Open /\ tombstone[t].attempt \in Attempts
  /\ attempt[tombstone[t].attempt].status \in Active

\* A tombstone names an attempt that was started; it is cancelled exactly while
\* its token is installed, and done only when its token is revoked.
TombstoneInv ==
  \A t \in Tokens :
    /\ token[t] = "unissued" => tombstone[t].status = "none"
    /\ tombstone[t].attempt \in Attempts => attempt[tombstone[t].attempt].status # "none"
    /\ tombstone[t].status = "cancelled" <=> t = installed
    /\ tombstone[t].status = "revoked" => token[t] = "revoked"

\* The installed token is live, and nobody is about to record or revoke it.
InstalledInv == \A t \in Tokens : t = installed => token[t] = "live" /\ InHand(t) = {}

\* Until its tombstone is that of a replaced credential, which upstream may hand
\* out again, one request at most answers for a token ...
OneHolder ==
  \A t \in Tokens : tombstone[t].status = "none" \/ tombstone[t].attempt # None =>
    \A r, s \in Requests : Holds(r, t) /\ Holds(s, t) => r = s

\* ... and the token it is going to commit is live.
HeldLive ==
  \A r \in Requests, t \in Tokens :
    /\ request[r].phase \in {"protect", "commit"} /\ request[r].token = t
    /\ tombstone[t].status = "none" \/ MayCommit(t)
    => token[t] = "live"

\* A worker revokes, however late, only a token whose attempt cannot commit.
WorkerInv ==
  \A w \in Workers, t \in Tokens : worker[w].phase # "idle" /\ worker[w].token = t =>
    /\ worker[w].phase = "claimed" =>
         tombstone[t].status \in Open \cup {"revoked"} /\ ~MayCommit(t)
    /\ worker[w].phase = "answered" /\ worker[w].revoked => token[t] = "revoked"

TokenInv == TombstoneInv /\ InstalledInv /\ OneHolder /\ HeldLive /\ WorkerInv

-----------------------------------------------------------------------------
(***************************************************************************)
(* Attempts.                                                               *)
(***************************************************************************)

\* The poll claim is set exactly while the attempt is polling.
ClaimMatches(x) == x.status = "polling" <=> x.claim # None

AttemptType(at) == at \in [Attempts -> Attempt] /\ \A a \in Attempts : ClaimMatches(at[a])

Finished == {"committed", "failed", "purged"}

\* What was started stays started, and what cannot commit any more stays so.
Ages(x, y) ==
  /\ x.status # "none" => y.status # "none"
  /\ x.status # "none" /\ y.status \in Active => x.status \in Active

\* What a transaction but those two below may do to an attempt: what is finished
\* is left as it is, and nothing is removed.
Moves(x, y) ==
  /\ Ages(x, y)
  /\ x.status \in Finished => y.status = x.status
  /\ y.status = "purged" => x.status = "purged"

AttemptStep == AttemptType(attempt') /\ \A a \in Attempts : Moves(attempt[a], attempt'[a])

\* Only the attempt a becomes x.
Only(a, x) ==
  /\ AttemptType(attempt')
  /\ attempt'[a] = x
  /\ \A b \in Attempts : b # a => attempt'[b] = attempt[b]

\* The retention removes an attempt that nobody works on.
PurgeStep ==
  \E a \in Attempts, x \in Attempt :
    /\ attempt[a].status = "committed" /\ x.status = "purged" /\ RequestsOn(a) = {} /\ UNCHANGED request
    /\ Only(a, x)

\* A poll of a deleted provider is confirmed: its attempt fails, whatever its status.
LatePollStep ==
  /\ archived
  /\ \E r \in Requests, x \in Attempt :
       request[r].phase = "poll" /\ x.status = "failed" /\ Only(request[r].attempt, x)

\* Numbers of attempts and tokens are not None.
LEMMA NoneApart == None \notin Attempts /\ None \notin Tokens
BY OAuthAttemptAssumption DEF None, Attempts, Tokens

\* terminal_oauth_attempt: active attempts fail, the others are left alone.
LEMMA FailedAttempts ==
  ASSUME NEW at, AttemptType(at), NEW S
  PROVE  /\ AttemptType(Failed(at, S))
         /\ \A a \in Attempts : /\ Moves(at[a], Failed(at, S)[a])
                                /\ a \in S => Failed(at, S)[a].status \notin Active
                                /\ a \notin S => Failed(at, S)[a] = at[a]
                                /\ at[a].status \notin Active => Failed(at, S)[a] = at[a]
<1>1. \A a \in Attempts : at[a] \in Attempt
  BY DEF AttemptType
<1> DEFINE f(a) == [at[a] EXCEPT !.status = "failed", !.claim = None, !.stale = FALSE]
<1>2. ASSUME NEW a \in Attempts PROVE f(a) \in Attempt /\ f(a).status = "failed" /\ f(a).claim = None
  BY <1>1 DEF Attempt, None
<1>3. Failed(at, S) = [a \in Attempts |-> IF a \in S /\ at[a].status \in Active THEN f(a) ELSE at[a]]
  BY DEF Failed
<1> HIDE DEF f
<1>4. AttemptType(Failed(at, S))
  BY <1>1, <1>2, <1>3 DEF AttemptType, ClaimMatches
<1>5. ASSUME NEW a \in Attempts
      PROVE  /\ Moves(at[a], Failed(at, S)[a])
             /\ a \in S => Failed(at, S)[a].status \notin Active
             /\ a \notin S => Failed(at, S)[a] = at[a]
             /\ at[a].status \notin Active => Failed(at, S)[a] = at[a]
  BY <1>2, <1>3 DEF Moves, Ages, Active, Finished
<1> QED BY <1>4, <1>5

\* One row is written.
LEMMA OneAttempt ==
  ASSUME AttemptType(attempt), NEW a \in Attempts, NEW x \in Attempt,
         attempt' = [attempt EXCEPT ![a] = x], ClaimMatches(x), Moves(attempt[a], x)
  PROVE  AttemptStep
<1>1. attempt \in [Attempts -> Attempt]
  BY DEF AttemptType
<1>2. attempt' \in [Attempts -> Attempt] /\ attempt'[a] = x
      /\ \A b \in Attempts : b # a => attempt'[b] = attempt[b]
  BY <1>1
<1> QED BY <1>2 DEF AttemptType, AttemptStep, Moves, Ages

\* Some attempts fail, or none changes.
LEMMA FailStep ==
  ASSUME AttemptType(attempt), NEW S, attempt' = Failed(attempt, S)
  PROVE  AttemptStep
BY FailedAttempts DEF AttemptStep

\* A step that leaves the attempts alone.
LEMMA NoAttempt ==
  ASSUME AttemptType(attempt), UNCHANGED attempt
  PROVE  AttemptStep
BY DEF AttemptStep, Moves, Ages, Finished, AttemptType, ClaimMatches

\* The attempt enters a phase, or fails at the fence.
LEMMA EnteredStep ==
  ASSUME AttemptType(attempt), NEW a \in Attempts, NEW s \in {"polling", "exchanging"},
         NEW c \in Requests \cup {None}, s = "polling" <=> c # None,
         attempt[a].status \in Active, attempt' = Entered(a, s, c)
  PROVE  AttemptStep
<1>1. attempt \in [Attempts -> Attempt]
  BY DEF AttemptType
<1>2. CASE Fenced(a)
  <2> DEFINE x == [attempt[a] EXCEPT !.status = s, !.claim = c, !.stale = FALSE]
  <2>1. x \in Attempt /\ x.status = s /\ x.claim = c
    BY <1>1 DEF Attempt, Active
  <2>2. attempt' = [attempt EXCEPT ![a].status = s, ![a].claim = c, ![a].stale = FALSE]
    BY <1>2 DEF Entered
  <2>3. attempt' = [attempt EXCEPT ![a] = x]
    BY <1>1, <2>2
  <2>4. Moves(attempt[a], x) /\ ClaimMatches(x)
    BY <2>1 DEF Moves, Ages, Active, Finished, ClaimMatches
  <2> HIDE DEF x
  <2> QED BY <2>1, <2>3, <2>4, OneAttempt
<1>3. CASE ~Fenced(a)
  BY <1>3, FailStep DEF Entered
<1> QED BY <1>2, <1>3

\* One row is written, out of turn.
LEMMA OnlyAttempt ==
  ASSUME AttemptType(attempt), NEW a \in Attempts, NEW x \in Attempt, ClaimMatches(x),
         attempt' = [attempt EXCEPT ![a] = x]
  PROVE  Only(a, x)
<1>1. attempt' \in [Attempts -> Attempt] /\ attempt'[a] = x
      /\ \A b \in Attempts : b # a => attempt'[b] = attempt[b]
  BY DEF AttemptType
<1> QED BY <1>1 DEF AttemptType, Only

\* Every step moves the attempts as it may.
LEMMA NextAttempt ==
  ASSUME TypeInv, [Next]_vars
  PROVE  AttemptStep \/ PurgeStep \/ LatePollStep
<1>0. /\ AttemptType(attempt) /\ attempt \in [Attempts -> Attempt]
      /\ \A r \in Requests : request[r].phase # "idle" => request[r].attempt \in Attempts
      /\ None \notin Requests /\ revision \in Nat
  BY OAuthAttemptAssumption DEF TypeInv, TypeOK, RequestInv, AttemptType, ClaimMatches
<1>1. ASSUME NEW a \in Attempts, StartAttempt(a) PROVE AttemptStep
  <2> DEFINE x == [status |-> "pending", base |-> revision, claim |-> None, stale |-> FALSE]
             at == Failed(attempt, Attempts)
  <2>1. attempt' = [at EXCEPT ![a] = x] /\ attempt[a].status = "none"
    BY <1>1 DEF StartAttempt
  <2>2. x \in Attempt /\ x.status = "pending" /\ x.claim = None
    BY <1>0 DEF Attempt, Active
  <2>3. AttemptType(at) /\ \A b \in Attempts : Moves(attempt[b], at[b])
    BY <1>0, FailedAttempts
  <2> HIDE DEF x, at
  <2>4. /\ attempt' \in [Attempts -> Attempt] /\ attempt'[a] = x
        /\ \A b \in Attempts : b # a => attempt'[b] = at[b]
    BY <2>1, <2>2, <2>3 DEF AttemptType
  <2>5. Moves(attempt[a], x)
    BY <2>1, <2>2 DEF Moves, Ages, Active, Finished
  <2> QED BY <2>2, <2>3, <2>4, <2>5 DEF AttemptType, AttemptStep, ClaimMatches
<1>2. ASSUME NEW archive \in BOOLEAN, Replace(archive) PROVE AttemptStep
  BY <1>0, <1>2, FailStep DEF Replace
<1>3. ASSUME NEW r \in Requests, NEW a \in Attempts,
             TakeOver(r, a) \/ BeginExchange(r, a) \/ ClaimPoll(r, a)
      PROVE  AttemptStep
  <2>1. CASE TakeOver(r, a)
    <3> DEFINE x == [attempt[a] EXCEPT !.stale = FALSE]
    <3>1. attempt' = [attempt EXCEPT ![a] = x] /\ attempt[a].status = "exchanging"
      BY <1>0, <2>1 DEF TakeOver
    <3>2. x \in Attempt /\ x.status = attempt[a].status /\ x.claim = attempt[a].claim
      BY <1>0 DEF Attempt
    <3>3. Moves(attempt[a], x) /\ ClaimMatches(x)
      BY <1>0, <3>1, <3>2 DEF Moves, Ages, AttemptType, ClaimMatches, Finished
    <3> HIDE DEF x
    <3> QED BY <1>0, <3>1, <3>2, <3>3, OneAttempt
  <2>2. CASE BeginExchange(r, a)
    BY <1>0, <2>2, EnteredStep DEF BeginExchange, Active
  <2>3. CASE ClaimPoll(r, a)
    BY <1>0, <2>3, EnteredStep DEF ClaimPoll, Active
  <2> QED BY <1>3, <2>1, <2>2, <2>3
<1>4. ASSUME NEW r \in Requests, PollPending(r) PROVE AttemptStep
  <2> DEFINE a == request[r].attempt
             x == [attempt[a] EXCEPT !.status = "pending", !.claim = None, !.stale = FALSE]
  <2>1. CASE ~HoldsPoll(r, a)
    BY <1>0, <1>4, <2>1, NoAttempt DEF PollPending
  <2>2. CASE HoldsPoll(r, a)
    <3>1. a \in Attempts /\ attempt[a].status = "polling"
      BY <1>0, <1>4, <2>2 DEF PollPending, HoldsPoll
    <3>2. attempt' = [attempt EXCEPT ![a].status = "pending", ![a].claim = None, ![a].stale = FALSE]
      BY <1>4, <2>2 DEF PollPending
    <3>3. attempt' = [attempt EXCEPT ![a] = x]
      BY <1>0, <3>1, <3>2
    <3>4. x \in Attempt /\ x.status = "pending" /\ x.claim = None
      BY <1>0, <3>1 DEF Attempt, Active, None
    <3>5. Moves(attempt[a], x) /\ ClaimMatches(x)
      BY <3>1, <3>4 DEF Moves, Ages, Active, Finished, ClaimMatches
    <3> HIDE DEF x
    <3> QED BY <1>0, <3>1, <3>3, <3>4, <3>5, OneAttempt
  <2> QED BY <2>1, <2>2
<1>5. ASSUME NEW r \in Requests, PollRefused(r) PROVE AttemptStep
  <2>1. attempt' = attempt \/ attempt' = Failed(attempt, {request[r].attempt})
    BY <1>5 DEF PollRefused
  <2> QED BY <1>0, <2>1, FailStep, NoAttempt
<1>6. ASSUME NEW r \in Requests, PollConfirmed(r) PROVE AttemptStep \/ LatePollStep
  <2> DEFINE a == request[r].attempt
  <2>1. a \in Attempts /\ request[r].phase = "poll" /\ attempt' = Confirmed(r, a)
    BY <1>0, <1>6 DEF PollConfirmed
  <2>2. CASE archived
    <3> DEFINE x == [attempt[a] EXCEPT !.status = "failed", !.claim = None, !.stale = FALSE]
    <3>1. attempt' = [attempt EXCEPT ![a] = x]
      BY <1>0, <2>1, <2>2 DEF Confirmed
    <3>2. x \in Attempt /\ x.status = "failed" /\ x.claim = None
      <4>1. attempt[a] \in Attempt
        BY <1>0, <2>1
      <4> HIDE DEF a
      <4> QED BY <4>1 DEF Attempt, Active, None
    <3> HIDE DEF x
    <3>3. Only(a, x)
      BY <1>0, <2>1, <3>1, <3>2, OnlyAttempt DEF ClaimMatches
    <3> QED BY <2>1, <2>2, <3>2, <3>3 DEF LatePollStep
  <2>3. CASE ~archived /\ HoldsPoll(r, a)
    BY <1>0, <2>1, <2>3, EnteredStep DEF Confirmed, HoldsPoll, Active
  <2>4. CASE ~archived /\ ~HoldsPoll(r, a)
    BY <1>0, <2>1, <2>4, NoAttempt DEF Confirmed
  <2> QED BY <2>2, <2>3, <2>4
<1>7. ASSUME NEW r \in Requests, Commit(r) PROVE AttemptStep
  <2> DEFINE a == request[r].attempt
             at == Failed(attempt, Attempts \ {a})
             x == [at[a] EXCEPT !.status = "committed", !.stale = FALSE]
  <2>1. /\ a \in Attempts /\ attempt[a].status = "exchanging"
        /\ attempt' = [at EXCEPT ![a].status = "committed", ![a].stale = FALSE]
    BY <1>0, <1>7 DEF Commit
  <2>2. /\ AttemptType(at) /\ at[a] = attempt[a] /\ at \in [Attempts -> Attempt]
        /\ \A b \in Attempts : Moves(attempt[b], at[b])
    BY <1>0, <2>1, FailedAttempts DEF AttemptType
  <2> HIDE DEF at
  <2>3. attempt' = [at EXCEPT ![a] = x]
    BY <2>1, <2>2
  <2>4. x \in Attempt /\ x.status = "committed" /\ x.claim = attempt[a].claim
    BY <2>1, <2>2 DEF Attempt, Active
  <2>5. attempt[a].claim = None
    BY <1>0, <2>1 DEF AttemptType, ClaimMatches
  <2> HIDE DEF x
  <2>6. /\ attempt' \in [Attempts -> Attempt] /\ attempt'[a] = x
        /\ \A b \in Attempts : b # a => attempt'[b] = at[b]
    BY <2>1, <2>2, <2>3, <2>4
  <2>7. Moves(attempt[a], x) /\ ClaimMatches(x)
    BY <2>1, <2>4, <2>5 DEF Moves, Ages, Active, Finished, ClaimMatches
  <2> QED BY <2>2, <2>6, <2>7 DEF AttemptType, AttemptStep
<1>8. ASSUME NEW r \in Requests, CommitRefused(r) \/ FailAttempt(r) PROVE AttemptStep
  <2>1. attempt' = attempt \/ attempt' = Failed(attempt, {request[r].attempt})
    BY <1>8 DEF CommitRefused, FailAttempt
  <2> QED BY <1>0, <2>1, FailStep, NoAttempt
<1>9. ASSUME NEW a \in Attempts, Age(a) PROVE AttemptStep
  <2> DEFINE x == [attempt[a] EXCEPT !.stale = TRUE]
  <2>1. attempt' = [attempt EXCEPT ![a] = x] /\ attempt[a].status \in {"polling", "exchanging"}
    BY <1>0, <1>9 DEF Age
  <2>2. x \in Attempt /\ x.status = attempt[a].status /\ x.claim = attempt[a].claim
    BY <1>0 DEF Attempt
  <2>3. Moves(attempt[a], x) /\ ClaimMatches(x)
    BY <1>0, <2>1, <2>2 DEF Moves, Ages, AttemptType, ClaimMatches, Finished
  <2> HIDE DEF x
  <2> QED BY <1>0, <2>1, <2>2, <2>3, OneAttempt
<1>10. ASSUME NEW a \in Attempts, PurgeAttempt(a) PROVE PurgeStep
  <2> DEFINE x == [attempt[a] EXCEPT !.status = "purged"]
  <2>1. /\ attempt' = [attempt EXCEPT ![a] = x] /\ attempt[a].status = "committed"
        /\ RequestsOn(a) = {} /\ UNCHANGED request
    BY <1>0, <1>10 DEF PurgeAttempt
  <2>2. x \in Attempt /\ x.status = "purged" /\ x.claim = attempt[a].claim
    BY <1>0 DEF Attempt
  <2>3. ClaimMatches(x)
    BY <1>0, <2>1, <2>2 DEF AttemptType, ClaimMatches
  <2> HIDE DEF x
  <2> QED BY <1>0, <2>1, <2>2, <2>3, OnlyAttempt DEF PurgeStep
<1>11. ASSUME NEW w \in Workers, ClaimTombstone(w) PROVE AttemptStep
  <2>1. attempt' = attempt \/ attempt' = Failed(attempt, {worker[w].attempt})
    BY <1>11 DEF ClaimTombstone
  <2> QED BY <1>0, <2>1, FailStep, NoAttempt
<1>12. CASE UNCHANGED attempt
  BY <1>0, <1>12, NoAttempt
<1>13. ASSUME NEW r \in Requests,
              \/ Load(r) \/ (\E t \in Tokens : Granted(r, t)) \/ Refused(r) \/ Protect(r)
              \/ ProtectFails(r) \/ RevokeNow(r) \/ Reprotect(r) \/ Replay(r) \/ RequestDies(r)
       PROVE  UNCHANGED attempt
  BY <1>13 DEF Load, Granted, Refused, Protect, ProtectFails, RevokeNow, Reprotect, Replay, RequestDies
<1>14. ASSUME NEW w \in Workers,
              (\E t \in Tokens : Pick(w, t)) \/ Revoke(w) \/ Record(w) \/ WorkerDies(w)
       PROVE  UNCHANGED attempt
  BY <1>14 DEF Pick, Revoke, Record, WorkerDies
<1>15. ASSUME Reactivate \/ (\E t \in Tokens : Lapse(t)) \/ UNCHANGED vars PROVE UNCHANGED attempt
  BY <1>15 DEF Reactivate, Lapse, vars
<1> QED
  BY <1>1, <1>2, <1>3, <1>4, <1>5, <1>6, <1>7, <1>8, <1>9, <1>10, <1>11, <1>12, <1>13, <1>14,
     <1>15 DEF Next, RequestStep, WorkerStep, TimePasses

\* Whatever the step, attempts only age.
LEMMA NextAttempts ==
  ASSUME TypeInv, [Next]_vars
  PROVE  AttemptType(attempt') /\ \A a \in Attempts : Ages(attempt[a], attempt'[a])
<1>1. CASE AttemptStep
  BY <1>1 DEF AttemptStep, Moves
<1>2. CASE PurgeStep
  BY <1>2 DEF PurgeStep, Only, Ages, Active
<1>3. CASE LatePollStep
  <2>1. PICK r \in Requests, x \in Attempt :
               request[r].phase = "poll" /\ x.status = "failed" /\ Only(request[r].attempt, x)
    BY <1>3 DEF LatePollStep
  <2> QED BY <2>1 DEF Only, Ages, Active
<1> QED BY <1>1, <1>2, <1>3, NextAttempt

\* What a request works on is not removed under it.
LEMMA AttemptsStay ==
  ASSUME TypeInv, [Next]_vars, NEW a \in Attempts, attempt[a].status # "purged",
         attempt[a].status = "committed" => RequestsOn(a) # {}
  PROVE  attempt'[a].status # "purged"
<1>1. CASE AttemptStep
  BY <1>1 DEF AttemptStep, Moves
<1>2. CASE PurgeStep
  BY <1>2 DEF PurgeStep, Only
<1>3. CASE LatePollStep
  <2>1. PICK r \in Requests, x \in Attempt : x.status = "failed" /\ Only(request[r].attempt, x)
    BY <1>3 DEF LatePollStep
  <2> QED BY <2>1 DEF Only
<1> QED BY <1>1, <1>2, <1>3, NextAttempt

\* The outcome of an attempt stands, but for the late poll of a deleted provider.
LEMMA OutcomeStep ==
  ASSUME TypeInv, [Next]_vars, NEW a \in Attempts
  PROVE  /\ attempt[a].status \in {"failed", "purged"} => attempt'[a].status = attempt[a].status
         /\ attempt[a].status = "committed" =>
              \/ attempt'[a].status \in {"committed", "purged"}
              \/ archived /\ installed = None /\ a \in Device /\ attempt'[a].status = "failed"
<1>1. CASE AttemptStep
  BY <1>1 DEF AttemptStep, Moves, Finished
<1>2. CASE PurgeStep
  BY <1>2 DEF PurgeStep, Only
<1>3. CASE LatePollStep
  <2>1. PICK r \in Requests, x \in Attempt :
               request[r].phase = "poll" /\ x.status = "failed" /\ Only(request[r].attempt, x)
    BY <1>3 DEF LatePollStep
  <2>2. /\ request[r].attempt \in Device /\ attempt[request[r].attempt].status # "purged"
        /\ archived /\ installed = None
    BY <1>3, <2>1 DEF TypeInv, RequestInv, ArchivedInv, LatePollStep
  <2> QED BY <2>1, <2>2 DEF Only
<1> QED BY <1>1, <1>2, <1>3, NextAttempt

-----------------------------------------------------------------------------
(***************************************************************************)
(* Types of the other variables.                                           *)
(***************************************************************************)

\* enqueue_oauth_revoke_tombstone touches one row, and only one that is neither
\* open nor revoked.
LEMMA QueuedRow ==
  ASSUME NEW ts \in [Tokens -> Tombstone], NEW t \in Tokens, NEW a \in Attempts \cup {None}
  PROVE  /\ Queued(ts, t, a) \in [Tokens -> Tombstone]
         /\ \A u \in Tokens : u # t => Queued(ts, t, a)[u] = ts[u]
         /\ ts[t].status \in Open \cup {"revoked"} => Queued(ts, t, a)[t] = ts[t]
         /\ ts[t].status \notin Open \cup {"revoked"} =>
              Queued(ts, t, a)[t].status = "pending" /\ Queued(ts, t, a)[t].attempt = a
<1> DEFINE x == [status |-> "pending", attempt |-> a, claim |-> None, lapsed |-> FALSE]
<1>1. x \in Tombstone /\ x.status = "pending" /\ x.attempt = a
  BY DEF Tombstone, Open
<1>2. Queued(ts, t, a) = IF ts[t].status \in Open \cup {"revoked"} THEN ts ELSE [ts EXCEPT ![t] = x]
  BY DEF Queued
<1> HIDE DEF x
<1> QED BY <1>1, <1>2

\* The tombstone of the credential that is replaced.
LEMMA RetiredRow ==
  ASSUME NEW ts \in [Tokens -> Tombstone], NEW new, installed \in Tokens \cup {None}
  PROVE  /\ Retired(ts, new) \in [Tokens -> Tombstone]
         /\ \A u \in Tokens : u # installed \/ u = new => Retired(ts, new)[u] = ts[u]
         /\ installed \in Tokens /\ installed # new => Retired(ts, new) = Queued(ts, installed, None)
BY QueuedRow, NoneApart DEF Retired

\* The steps of a request.
LEMMA RequestMoves ==
  ASSUME TypeInv, NEW r \in Requests
  PROVE  /\ \A p \in Phases, a \in Attempts \cup {None}, t \in Tokens \cup {None} :
              At(r, p, a, t) =>
                /\ request' \in [Requests -> Request]
                /\ request'[r].phase = p /\ request'[r].attempt = a /\ request'[r].token = t
         /\ Done(r) => request' \in [Requests -> Request] /\ request'[r].phase = "idle"
         /\ \A p \in Phases : Continue(r, p) =>
              /\ request' \in [Requests -> Request] /\ request'[r].phase = p
              /\ request'[r].attempt = request[r].attempt /\ request'[r].token = request[r].token
         /\ Done(r) \/ (\E p, a, t : At(r, p, a, t)) \/ (\E p : Continue(r, p)) =>
              \A s \in Requests : s # r => request'[s] = request[s]
<1>0. request \in [Requests -> Request] /\ request[r] \in Request
  BY DEF TypeInv, TypeOK
<1>1. ASSUME NEW p \in Phases, NEW a \in Attempts \cup {None}, NEW t \in Tokens \cup {None}, At(r, p, a, t)
      PROVE  /\ request' \in [Requests -> Request]
             /\ request'[r].phase = p /\ request'[r].attempt = a /\ request'[r].token = t
  <2> DEFINE x == [phase |-> p, attempt |-> a, token |-> t]
  <2>1. x \in Request /\ request' = [request EXCEPT ![r] = x]
    BY <1>1 DEF Request, At
  <2> QED BY <1>0, <2>1
<1>2. ASSUME Done(r) PROVE request' \in [Requests -> Request] /\ request'[r].phase = "idle"
  <2>1. Idle \in Request /\ Idle.phase = "idle"
    BY DEF Idle, Request, Phases
  <2> QED BY <1>0, <1>2, <2>1 DEF Done
<1>3. ASSUME NEW p \in Phases, Continue(r, p)
      PROVE  /\ request' \in [Requests -> Request] /\ request'[r].phase = p
             /\ request'[r].attempt = request[r].attempt /\ request'[r].token = request[r].token
  <2> DEFINE x == [request[r] EXCEPT !.phase = p]
  <2>1. request' = [request EXCEPT ![r] = x]
    BY <1>0, <1>3 DEF Continue
  <2>2. /\ x \in Request /\ x.phase = p /\ x.attempt = request[r].attempt /\ x.token = request[r].token
    BY <1>0 DEF Request
  <2> HIDE DEF x
  <2> QED BY <1>0, <2>1, <2>2
<1>4. ASSUME Done(r) \/ (\E p, a, t : At(r, p, a, t)) \/ (\E p : Continue(r, p)), NEW s \in Requests, s # r
      PROVE  request'[s] = request[s]
  BY <1>0, <1>4 DEF Done, At, Continue
<1> QED BY <1>1, <1>2, <1>3, <1>4

\* What a worker holds.
LEMMA WorkerFields ==
  ASSUME NEW k \in Worker
  PROVE  /\ k.phase \in {"idle", "picked", "claimed", "answered"}
         /\ k.phase # "idle" => k.token \in Tokens
         /\ k.phase = "picked" => k.attempt \in Attempts \cup {None} /\ k.pending \in BOOLEAN
         /\ k.phase = "answered" => k.revoked \in BOOLEAN
BY DEF Worker, Resting

\* Something is spent of a budget.
LEMMA SpendType ==
  ASSUME TypeInv, NEW what \in {"replaces", "faults"}, Spend(what)
  PROVE  budget' \in [{"replaces", "faults"} -> Nat]
<1>1. budget \in [{"replaces", "faults"} -> Nat]
  BY DEF TypeInv, TypeOK
<1> QED BY <1>1 DEF Spend

\* Upstream: a token that was issued stays issued, a revoked one stays revoked.
TokenMoves(t) ==
  /\ token[t] # "unissued" => token'[t] # "unissued"
  /\ token[t] = "revoked" => token'[t] = "revoked"

\* No step makes a revoked token live or an issued one unissued.
LEMMA NextTokens ==
  ASSUME TypeInv, [Next]_vars
  PROVE  /\ token' \in [Tokens -> {"unissued", "live", "revoked"}] /\ lost' \subseteq Tokens
         /\ \A t \in Tokens : TokenMoves(t)
<1>0. /\ token \in [Tokens -> {"unissued", "live", "revoked"}] /\ lost \subseteq Tokens
      /\ worker \in [Workers -> Worker]
      /\ \A r \in Requests : request[r].phase \in Holding => request[r].token \in Tokens
  BY DEF TypeInv, TypeOK, RequestInv
<1>1. ASSUME NEW r \in Requests, NEW t \in Tokens, Granted(r, t)
      PROVE  /\ token' \in [Tokens -> {"unissued", "live", "revoked"}] /\ lost' \subseteq Tokens
             /\ \A u \in Tokens : TokenMoves(u)
  BY <1>0, <1>1 DEF Granted, Grants, TokenMoves
<1>2. ASSUME NEW r \in Requests, Refused(r)
      PROVE  /\ token' \in [Tokens -> {"unissued", "live", "revoked"}] /\ lost' \subseteq Tokens
             /\ \A u \in Tokens : TokenMoves(u)
  <2>1. CASE UNCHANGED <<token, lost>>
    BY <1>0, <2>1 DEF TokenMoves
  <2>2. ASSUME NEW t \in Tokens, token[t] = "unissued", token' = [token EXCEPT ![t] = "live"],
               lost' = lost \cup {t}
        PROVE  /\ token' \in [Tokens -> {"unissued", "live", "revoked"}] /\ lost' \subseteq Tokens
               /\ \A u \in Tokens : TokenMoves(u)
    BY <1>0, <2>2 DEF TokenMoves
  <2> QED BY <1>2, <2>1, <2>2 DEF Refused
<1>3. ASSUME NEW r \in Requests, RevokeNow(r)
      PROVE  /\ token' \in [Tokens -> {"unissued", "live", "revoked"}] /\ lost' \subseteq Tokens
             /\ \A u \in Tokens : TokenMoves(u)
  BY <1>0, <1>3 DEF RevokeNow, TokenMoves
<1>4. ASSUME NEW w \in Workers, Revoke(w)
      PROVE  /\ token' \in [Tokens -> {"unissued", "live", "revoked"}] /\ lost' \subseteq Tokens
             /\ \A u \in Tokens : TokenMoves(u)
  <2>1. token' \in {token, [token EXCEPT ![worker[w].token] = "revoked"]} /\ lost' = lost
    BY <1>4 DEF Revoke
  <2> QED BY <1>0, <2>1 DEF TokenMoves
<1>5. ASSUME NEW r \in Requests, Reprotect(r)
      PROVE  UNCHANGED token /\ lost' \subseteq Tokens
  <2>1. request[r].token \in Tokens
    BY <1>0, <1>5 DEF Reprotect, Holding
  <2> QED BY <1>0, <1>5, <2>1 DEF Reprotect
<1>6. ASSUME NEW r \in Requests, RequestDies(r) PROVE UNCHANGED token /\ lost' \subseteq Tokens
  BY <1>0, <1>6 DEF RequestDies
<1>7. ASSUME NEW r \in Requests,
             \/ Load(r) \/ Protect(r) \/ ProtectFails(r) \/ Commit(r) \/ Replay(r) \/ CommitRefused(r)
             \/ FailAttempt(r) \/ PollPending(r) \/ PollRefused(r) \/ PollConfirmed(r)
             \/ \E a \in Attempts : TakeOver(r, a) \/ BeginExchange(r, a) \/ ClaimPoll(r, a)
      PROVE  UNCHANGED <<token, lost>>
  BY <1>7 DEF Load, Protect, ProtectFails, Commit, Replay, CommitRefused, FailAttempt, PollPending,
              PollRefused, PollConfirmed, TakeOver, BeginExchange, ClaimPoll
<1>8. ASSUME NEW w \in Workers,
             (\E t \in Tokens : Pick(w, t)) \/ ClaimTombstone(w) \/ Record(w) \/ WorkerDies(w)
      PROVE  UNCHANGED <<token, lost>>
  BY <1>8 DEF Pick, ClaimTombstone, Record, WorkerDies
<1>9. ASSUME \/ \E a \in Attempts : StartAttempt(a) \/ Age(a) \/ PurgeAttempt(a)
             \/ \E archive \in BOOLEAN : Replace(archive)
             \/ Reactivate \/ (\E t \in Tokens : Lapse(t)) \/ UNCHANGED vars
      PROVE  UNCHANGED <<token, lost>>
  BY <1>9 DEF StartAttempt, Age, PurgeAttempt, Replace, Reactivate, Lapse, vars
<1>10. ASSUME UNCHANGED token, lost' \subseteq Tokens
       PROVE  /\ token' \in [Tokens -> {"unissued", "live", "revoked"}] /\ lost' \subseteq Tokens
              /\ \A u \in Tokens : TokenMoves(u)
  BY <1>0, <1>10 DEF TokenMoves
<1> QED
  BY <1>0, <1>1, <1>2, <1>3, <1>4, <1>5, <1>6, <1>7, <1>8, <1>9, <1>10
     DEF Next, RequestStep, WorkerStep, TimePasses

\* The requests.
LEMMA NextRequests ==
  ASSUME TypeInv, [Next]_vars
  PROVE  request' \in [Requests -> Request] /\ RequestInv'
<1>0. /\ request \in [Requests -> Request] /\ RequestInv
      /\ \A a \in Attempts : attempt[a].status # "none" => attempt'[a].status # "none"
      /\ \A t \in Tokens : token[t] # "unissued" => token'[t] # "unissued"
  BY NextAttempts, NextTokens DEF TypeInv, TypeOK, Ages, TokenMoves
<1>00. \A r \in Requests : request[r].phase # "idle" => attempt'[request[r].attempt].status # "purged"
  BY AttemptsStay, <1>0 DEF RequestInv, RequestsOn
<1> DEFINE Good(r) ==
             /\ request'[r].phase # "idle" =>
                  /\ request'[r].attempt \in Attempts
                  /\ attempt'[request'[r].attempt].status \notin {"none", "purged"}
             /\ request'[r].phase = "poll" => request'[r].attempt \in Device
             /\ request'[r].phase \in Holding => /\ request'[r].token \in Tokens
                                                 /\ token'[request'[r].token] # "unissued"
<1>1. ASSUME NEW r \in Requests, request' \in [Requests -> Request], Good(r),
             \A s \in Requests : s # r => request'[s] = request[s]
      PROVE  request' \in [Requests -> Request] /\ RequestInv'
  BY <1>0, <1>00, <1>1 DEF RequestInv
<1>2. ASSUME NEW r \in Requests, Done(r) PROVE request' \in [Requests -> Request] /\ RequestInv'
  <2>1. Good(r)
    BY <1>2, RequestMoves DEF Holding
  <2> QED BY <1>1, <1>2, <2>1, RequestMoves
<1>3. ASSUME NEW r \in Requests, NEW p \in Phases, Continue(r, p), request[r].phase # "idle", p # "poll",
             p \in Holding => request[r].phase \in Holding
      PROVE  request' \in [Requests -> Request] /\ RequestInv'
  <2>1. /\ request' \in [Requests -> Request] /\ request'[r].phase = p
        /\ request'[r].attempt = request[r].attempt /\ request'[r].token = request[r].token
        /\ \A s \in Requests : s # r => request'[s] = request[s]
    BY <1>3, RequestMoves
  <2>2. Good(r)
    BY <1>0, <1>00, <1>3, <2>1 DEF RequestInv
  <2> QED BY <1>1, <2>1, <2>2
<1>4. ASSUME NEW r \in Requests, NEW p \in Phases, NEW a \in Attempts, NEW t \in Tokens \cup {None},
             At(r, p, a, t), attempt[a].status # "none", attempt'[a].status # "purged",
             p = "poll" => a \in Device, p \in Holding => t \in Tokens /\ token'[t] # "unissued"
      PROVE  request' \in [Requests -> Request] /\ RequestInv'
  <2>1. /\ request' \in [Requests -> Request]
        /\ request'[r].phase = p /\ request'[r].attempt = a /\ request'[r].token = t
        /\ \A s \in Requests : s # r => request'[s] = request[s]
    BY <1>4, RequestMoves
  <2>2. Good(r)
    BY <1>0, <1>4, <2>1
  <2> QED BY <1>1, <2>1, <2>2
<1>5. CASE UNCHANGED request
  BY <1>0, <1>00, <1>5 DEF RequestInv
<1>6. ASSUME NEW r \in Requests, NEW a \in Attempts, TakeOver(r, a) \/ BeginExchange(r, a) \/ ClaimPoll(r, a)
      PROVE  request' \in [Requests -> Request] /\ RequestInv'
  <2>1. /\ attempt[a].status \in Active
        /\ \/ UNCHANGED request \/ At(r, "load", a, None)
           \/ At(r, "poll", a, None) /\ a \in Device
    BY <1>6 DEF TakeOver, BeginExchange, ClaimPoll, Active
  <2>2. {"load", "poll"} \subseteq Phases /\ {"load", "poll"} \cap Holding = {}
    BY DEF Phases, Holding
  <2>3. attempt[a].status # "none" /\ attempt'[a].status # "purged"
    BY <2>1, AttemptsStay DEF Active
  <2> QED BY <1>4, <1>5, <2>1, <2>2, <2>3
<1>7. ASSUME NEW r \in Requests, NEW t \in Tokens, Granted(r, t)
      PROVE  request' \in [Requests -> Request] /\ RequestInv'
  <2>1. request[r].phase = "exchange" /\ At(r, "protect", request[r].attempt, t) /\ "protect" \in Phases
    BY <1>7 DEF Granted, Phases
  <2>2. /\ request[r].attempt \in Attempts /\ attempt[request[r].attempt].status # "none"
        /\ attempt'[request[r].attempt].status # "purged"
    BY <1>0, <1>00, <2>1 DEF RequestInv
  <2>3. token'[t] # "unissued"
    BY <1>7 DEF Granted, TypeInv, TypeOK
  <2> QED BY <1>4, <2>1, <2>2, <2>3
<1>8. ASSUME NEW r \in Requests, RequestStep(r) PROVE request' \in [Requests -> Request] /\ RequestInv'
  <2>1. \/ Done(r)
        \/ \E t \in Tokens : Granted(r, t)
        \/ \E p \in Phases : /\ Continue(r, p) /\ request[r].phase # "idle" /\ p # "poll"
                             /\ p \in Holding => request[r].phase \in Holding
    BY <1>8 DEF RequestStep, PollPending, PollRefused, PollConfirmed, Load, Refused, Protect, ProtectFails,
                RevokeNow, Reprotect, Commit, Replay, CommitRefused, FailAttempt, Phases, Holding
  <2> QED BY <1>2, <1>3, <1>7, <2>1
<1>9. ASSUME NEW r \in Requests, RequestDies(r) PROVE Done(r)
  BY <1>9 DEF RequestDies
<1>10. ASSUME \/ \E w \in Workers : WorkerStep(w) \/ WorkerDies(w)
              \/ \E a \in Attempts : StartAttempt(a)
              \/ \E archive \in BOOLEAN : Replace(archive)
              \/ TimePasses \/ Reactivate \/ UNCHANGED vars
       PROVE  UNCHANGED request
  BY <1>10 DEF WorkerStep, Pick, ClaimTombstone, Revoke, Record, WorkerDies, StartAttempt, Age,
               PurgeAttempt, Replace, TimePasses, Reactivate, Lapse, vars
<1> QED BY <1>2, <1>5, <1>6, <1>8, <1>9, <1>10 DEF Next

\* One tombstone is written under the same attempt.
SameAttempt(t, s) ==
  /\ tombstone' \in [Tokens -> Tombstone]
  /\ tombstone'[t].status = s /\ tombstone'[t].attempt = tombstone[t].attempt
  /\ \A u \in Tokens : u # t => tombstone'[u] = tombstone[u]

\* A worker claims an open tombstone, and fails its attempt with it.
LEMMA ClaimRow ==
  ASSUME TypeInv, NEW w \in Workers, ClaimTombstone(w)
  PROVE  /\ worker[w].token \in Tokens
         /\ \/ UNCHANGED tombstone /\ worker' = [worker EXCEPT ![w] = Resting]
            \/ /\ SameAttempt(worker[w].token, "processing")
               /\ tombstone[worker[w].token].status \in Open
               /\ tombstone[worker[w].token].attempt = worker[w].attempt
               /\ attempt' = Failed(attempt, {worker[w].attempt})
               /\ worker' = [worker EXCEPT ![w] = [phase |-> "claimed", token |-> worker[w].token]]
<1> DEFINE t == worker[w].token
           x == [tombstone[t] EXCEPT !.status = "processing", !.claim = w, !.lapsed = FALSE]
<1>0. tombstone \in [Tokens -> Tombstone] /\ t \in Tokens
  BY WorkerFields DEF TypeInv, TypeOK, ClaimTombstone
<1>1. CASE UNCHANGED tombstone /\ worker' = [worker EXCEPT ![w] = Resting]
  BY <1>0, <1>1
<1>2. CASE /\ tombstone' = [tombstone EXCEPT ![t].status = "processing", ![t].claim = w, ![t].lapsed = FALSE]
           /\ worker' = [worker EXCEPT ![w] = [phase |-> "claimed", token |-> t]]
           /\ tombstone[t].attempt = worker[w].attempt
           /\ tombstone[t].status \in Open
           /\ attempt' = Failed(attempt, {worker[w].attempt})
  <2>1. tombstone' = [tombstone EXCEPT ![t] = x]
    BY <1>0, <1>2
  <2>2. x \in Tombstone /\ x.status = "processing" /\ x.attempt = tombstone[t].attempt
    BY <1>0 DEF Tombstone, Open
  <2> HIDE DEF x
  <2>3. SameAttempt(t, "processing")
    BY <1>0, <2>1, <2>2 DEF SameAttempt
  <2> QED BY <1>0, <1>2, <2>3
<1> QED BY <1>1, <1>2 DEF ClaimTombstone, Open

\* A worker records its answer on the tombstone while it owns the claim.
LEMMA RecordRow ==
  ASSUME TypeInv, NEW w \in Workers, Record(w)
  PROVE  /\ worker[w].token \in Tokens /\ worker' = [worker EXCEPT ![w] = Resting]
         /\ \/ UNCHANGED tombstone
            \/ /\ tombstone[worker[w].token].status = "processing"
               /\ \/ SameAttempt(worker[w].token, "pending")
                  \/ SameAttempt(worker[w].token, "revoked") /\ worker[w].revoked
<1> DEFINE t == worker[w].token
           s == IF worker[w].revoked THEN "revoked" ELSE "pending"
           x == [tombstone[t] EXCEPT !.status = s, !.claim = None, !.lapsed = FALSE]
<1>0. tombstone \in [Tokens -> Tombstone] /\ t \in Tokens /\ worker' = [worker EXCEPT ![w] = Resting]
  BY WorkerFields DEF TypeInv, TypeOK, Record
<1>1. CASE ~OwnsClaim(w, t)
  BY <1>0, <1>1 DEF Record
<1>2. CASE OwnsClaim(w, t)
  <2>1. tombstone' = [tombstone EXCEPT ![t].status = s, ![t].claim = None, ![t].lapsed = FALSE]
    BY <1>2 DEF Record
  <2>2. s \in {"revoked", "pending"} /\ (s = "revoked" => worker[w].revoked)
    OBVIOUS
  <2> HIDE DEF s
  <2>3. tombstone' = [tombstone EXCEPT ![t] = x]
    BY <1>0, <2>1
  <2>4. x \in Tombstone /\ x.status = s /\ x.attempt = tombstone[t].attempt
    BY <1>0, <2>2 DEF Tombstone, Open, None
  <2> HIDE DEF x
  <2>5. SameAttempt(t, s)
    BY <1>0, <2>3, <2>4 DEF SameAttempt
  <2> QED BY <1>0, <1>2, <2>2, <2>5 DEF OwnsClaim
<1> QED BY <1>1, <1>2

\* A lapsed claim leaves the tombstone in processing.
LEMMA LapseRow ==
  ASSUME TypeInv, NEW t \in Tokens, Lapse(t)
  PROVE  tombstone[t].status = "processing" /\ SameAttempt(t, "processing")
<1> DEFINE x == [tombstone[t] EXCEPT !.lapsed = TRUE]
<1>0. tombstone \in [Tokens -> Tombstone] /\ tombstone[t].status = "processing"
  BY DEF TypeInv, TypeOK, Lapse
<1>1. tombstone' = [tombstone EXCEPT ![t] = x]
  BY <1>0 DEF Lapse
<1>2. x \in Tombstone /\ x.status = tombstone[t].status /\ x.attempt = tombstone[t].attempt
  BY <1>0 DEF Tombstone
<1> HIDE DEF x
<1> QED BY <1>0, <1>1, <1>2 DEF SameAttempt

\* A commit cancels the tombstone of its token and retires the old credential.
LEMMA CommitRow ==
  ASSUME TypeInv, NEW r \in Requests, Commit(r)
  PROVE  LET t == request[r].token
             ts == [tombstone EXCEPT ![t].status = "cancelled"]
         IN  /\ t \in Tokens /\ request[r].attempt \in Attempts
             /\ tombstone[t].status = "pending" /\ tombstone[t].attempt = request[r].attempt
             /\ ts \in [Tokens -> Tombstone]
             /\ ts[t].status = "cancelled" /\ ts[t].attempt = tombstone[t].attempt
             /\ \A u \in Tokens : u # t => ts[u] = tombstone[u]
             /\ tombstone' = Retired(ts, t) /\ tombstone' \in [Tokens -> Tombstone]
<1> DEFINE t == request[r].token
           x == [tombstone[t] EXCEPT !.status = "cancelled"]
           ts == [tombstone EXCEPT ![t].status = "cancelled"]
<1>0. /\ tombstone \in [Tokens -> Tombstone] /\ t \in Tokens /\ request[r].attempt \in Attempts
      /\ installed \in Tokens \cup {None}
  BY DEF TypeInv, TypeOK, RequestInv, Commit, Holding
<1>1. x \in Tombstone /\ x.status = "cancelled" /\ x.attempt = tombstone[t].attempt
  BY <1>0 DEF Tombstone
<1>2. ts = [tombstone EXCEPT ![t] = x]
  BY <1>0
<1>3. /\ ts \in [Tokens -> Tombstone] /\ ts[t] = x
      /\ \A u \in Tokens : u # t => ts[u] = tombstone[u]
  <2> HIDE DEF x, ts
  <2> QED BY <1>0, <1>1, <1>2
<1>4. /\ tombstone[t].status = "pending" /\ tombstone[t].attempt = request[r].attempt
      /\ tombstone' = Retired(ts, t)
  BY DEF Commit, Cancellable
<1>5. tombstone' \in [Tokens -> Tombstone]
  <2> HIDE DEF ts
  <2> QED BY <1>0, <1>3, <1>4, RetiredRow
<1> HIDE DEF x, ts
<1>6. ts[t].status = "cancelled" /\ ts[t].attempt = tombstone[t].attempt
  BY <1>1, <1>3
<1> QED BY <1>0, <1>3, <1>4, <1>5, <1>6 DEF ts

\* The tombstones.
LEMMA NextTombstones ==
  ASSUME TypeInv, [Next]_vars
  PROVE  tombstone' \in [Tokens -> Tombstone]
<1>0. /\ tombstone \in [Tokens -> Tombstone] /\ installed \in Tokens \cup {None}
      /\ \A r \in Requests : /\ request[r].phase # "idle" => request[r].attempt \in Attempts
                             /\ request[r].phase \in Holding => request[r].token \in Tokens
  BY DEF TypeInv, TypeOK, RequestInv
<1>1. ASSUME NEW archive \in BOOLEAN, Replace(archive) PROVE tombstone' \in [Tokens -> Tombstone]
  BY <1>0, <1>1, RetiredRow DEF Replace
<1>2. ASSUME NEW r \in Requests, Protect(r) \/ ProtectFails(r) \/ Reprotect(r)
      PROVE  tombstone' \in [Tokens -> Tombstone]
  <2>1. request[r].token \in Tokens /\ request[r].attempt \in Attempts
    BY <1>0, <1>2 DEF Protect, ProtectFails, Reprotect, Holding
  <2>2. tombstone' \in {tombstone, Queued(tombstone, request[r].token, request[r].attempt)}
    BY <1>2 DEF Protect, ProtectFails, Reprotect
  <2> QED BY <1>0, <2>1, <2>2, QueuedRow
<1>3. ASSUME NEW r \in Requests, Commit(r) PROVE tombstone' \in [Tokens -> Tombstone]
  BY <1>3, CommitRow
<1>4. ASSUME NEW w \in Workers, ClaimTombstone(w) \/ Record(w) PROVE tombstone' \in [Tokens -> Tombstone]
  BY <1>0, <1>4, ClaimRow, RecordRow DEF SameAttempt
<1>5. ASSUME NEW t \in Tokens, Lapse(t) PROVE tombstone' \in [Tokens -> Tombstone]
  BY <1>5, LapseRow DEF SameAttempt
<1>6. ASSUME NEW r \in Requests,
             \/ Load(r) \/ (\E t \in Tokens : Granted(r, t)) \/ Refused(r) \/ RevokeNow(r) \/ Replay(r)
             \/ CommitRefused(r) \/ FailAttempt(r) \/ RequestDies(r)
             \/ PollPending(r) \/ PollRefused(r) \/ PollConfirmed(r)
             \/ \E a \in Attempts : TakeOver(r, a) \/ BeginExchange(r, a) \/ ClaimPoll(r, a)
      PROVE  UNCHANGED tombstone
  BY <1>6 DEF Load, Granted, Refused, RevokeNow, Replay, CommitRefused, FailAttempt, RequestDies,
              PollPending, PollRefused, PollConfirmed, TakeOver, BeginExchange, ClaimPoll
<1>7. ASSUME NEW w \in Workers, (\E t \in Tokens : Pick(w, t)) \/ Revoke(w) \/ WorkerDies(w)
      PROVE  UNCHANGED tombstone
  BY <1>7 DEF Pick, Revoke, WorkerDies
<1>8. ASSUME \/ \E a \in Attempts : StartAttempt(a) \/ Age(a) \/ PurgeAttempt(a)
             \/ Reactivate \/ UNCHANGED vars
      PROVE  UNCHANGED tombstone
  BY <1>8 DEF StartAttempt, Age, PurgeAttempt, Reactivate, vars
<1> QED
  BY <1>0, <1>1, <1>2, <1>3, <1>4, <1>5, <1>6, <1>7, <1>8
     DEF Next, RequestStep, WorkerStep, TimePasses

\* The workers.
LEMMA NextWorkers ==
  ASSUME TypeInv, [Next]_vars
  PROVE  worker' \in [Workers -> Worker]
<1>0. /\ worker \in [Workers -> Worker] /\ tombstone \in [Tokens -> Tombstone] /\ Resting \in Worker
  BY DEF TypeInv, TypeOK, Worker
<1>1. ASSUME NEW w \in Workers, NEW k \in Worker, worker' = [worker EXCEPT ![w] = k]
      PROVE  worker' \in [Workers -> Worker]
  BY <1>0, <1>1
<1>2. ASSUME NEW w \in Workers, NEW t \in Tokens, Pick(w, t) PROVE worker' \in [Workers -> Worker]
  <2> DEFINE k == [phase |-> "picked", token |-> t, attempt |-> tombstone[t].attempt,
                   pending |-> tombstone[t].status = "pending"]
  <2>1. tombstone[t].attempt \in Attempts \cup {None}
    BY <1>0 DEF Tombstone
  <2>2. (tombstone[t].status = "pending") \in BOOLEAN
    OBVIOUS
  <2>3. k \in Worker
    BY <2>1, <2>2 DEF Worker
  <2>4. worker' = [worker EXCEPT ![w] = k]
    BY <1>2 DEF Pick
  <2> QED BY <1>1, <2>3, <2>4
<1>3. ASSUME NEW w \in Workers, ClaimTombstone(w) PROVE worker' \in [Workers -> Worker]
  <2>1. worker[w].token \in Tokens
    BY <1>3, ClaimRow
  <2>2. [phase |-> "claimed", token |-> worker[w].token] \in Worker
    BY <2>1 DEF Worker
  <2> QED BY <1>0, <1>1, <1>3, <2>2, ClaimRow
<1>4. ASSUME NEW w \in Workers, Revoke(w) PROVE worker' \in [Workers -> Worker]
  <2>1. worker[w].token \in Tokens
    BY <1>0, <1>4, WorkerFields DEF Revoke
  <2>2. \A ok \in BOOLEAN : [phase |-> "answered", token |-> worker[w].token, revoked |-> ok] \in Worker
    BY <2>1 DEF Worker
  <2>3. \E ok \in BOOLEAN :
          worker' = [worker EXCEPT ![w] = [phase |-> "answered", token |-> worker[w].token, revoked |-> ok]]
    BY <1>4 DEF Revoke
  <2> QED BY <1>1, <2>2, <2>3
<1>5. ASSUME NEW w \in Workers, Record(w) \/ WorkerDies(w) PROVE worker' \in [Workers -> Worker]
  BY <1>0, <1>1, <1>5 DEF Record, WorkerDies
<1>6. ASSUME NEW r \in Requests,
             \/ RequestStep(r) \/ RequestDies(r)
             \/ \E a \in Attempts : TakeOver(r, a) \/ BeginExchange(r, a) \/ ClaimPoll(r, a)
      PROVE  UNCHANGED worker
  BY <1>6 DEF RequestStep, Load, Granted, Refused, Protect, ProtectFails, RevokeNow, Reprotect, Commit,
              Replay, CommitRefused, FailAttempt, RequestDies, PollPending, PollRefused, PollConfirmed,
              TakeOver, BeginExchange, ClaimPoll
<1>7. ASSUME \/ \E a \in Attempts : StartAttempt(a)
             \/ \E archive \in BOOLEAN : Replace(archive)
             \/ TimePasses \/ Reactivate \/ UNCHANGED vars
      PROVE  UNCHANGED worker
  BY <1>7 DEF StartAttempt, Age, PurgeAttempt, Replace, Reactivate, Lapse, TimePasses, vars
<1> QED BY <1>0, <1>2, <1>3, <1>4, <1>5, <1>6, <1>7 DEF Next, WorkerStep

\* The provider's credential and the budgets.
LEMMA NextProvider ==
  ASSUME TypeInv, [Next]_vars
  PROVE  /\ installed' \in Tokens \cup {None} /\ revision' \in Nat /\ archived' \in BOOLEAN
         /\ budget' \in [{"replaces", "faults"} -> Nat]
         /\ ArchivedInv'
<1>0. /\ installed \in Tokens \cup {None} /\ revision \in Nat /\ archived \in BOOLEAN
      /\ budget \in [{"replaces", "faults"} -> Nat]
      /\ archived => installed = None
  BY DEF TypeInv, TypeOK, ArchivedInv
<1>1. ASSUME UNCHANGED budget \/ Spend("faults") \/ Spend("replaces")
      PROVE  budget' \in [{"replaces", "faults"} -> Nat]
  BY <1>0, <1>1, SpendType
<1>2. ASSUME NEW archive \in BOOLEAN, Replace(archive)
      PROVE  /\ installed' \in Tokens \cup {None} /\ revision' \in Nat /\ archived' \in BOOLEAN
             /\ Spend("replaces") /\ ArchivedInv'
  BY <1>0, <1>2 DEF Replace, ArchivedInv
<1>3. ASSUME NEW r \in Requests, Commit(r)
      PROVE  /\ installed' \in Tokens \cup {None} /\ revision' \in Nat /\ archived' \in BOOLEAN
             /\ UNCHANGED budget \/ Spend("faults")
             /\ ArchivedInv'
  <2>1. request[r].token \in Tokens
    BY <1>3, CommitRow
  <2> QED BY <1>0, <1>3, <2>1 DEF Commit, Fenced, ArchivedInv
<1>4. ASSUME NEW r \in Requests, RequestStep(r), ~Commit(r)
      PROVE  UNCHANGED provider /\ (UNCHANGED budget \/ Spend("faults"))
  BY <1>4 DEF RequestStep, Load, Granted, Refused, Protect, ProtectFails, RevokeNow, Reprotect,
              Replay, CommitRefused, FailAttempt, PollPending, PollRefused, PollConfirmed
<1>5. ASSUME NEW r \in Requests,
             RequestDies(r) \/ \E a \in Attempts : TakeOver(r, a) \/ BeginExchange(r, a) \/ ClaimPoll(r, a)
      PROVE  UNCHANGED provider /\ (UNCHANGED budget \/ Spend("faults"))
  BY <1>5 DEF RequestDies, TakeOver, BeginExchange, ClaimPoll
<1>6. ASSUME NEW w \in Workers, WorkerStep(w) \/ WorkerDies(w)
      PROVE  UNCHANGED provider /\ (UNCHANGED budget \/ Spend("faults"))
  BY <1>6 DEF WorkerStep, Pick, ClaimTombstone, Revoke, Record, WorkerDies
<1>7. ASSUME (\E a \in Attempts : StartAttempt(a)) \/ TimePasses \/ UNCHANGED vars
      PROVE  UNCHANGED provider /\ (UNCHANGED budget \/ Spend("faults"))
  BY <1>7 DEF StartAttempt, Age, PurgeAttempt, Lapse, TimePasses, vars
<1>8. ASSUME Reactivate
      PROVE  UNCHANGED <<installed, revision, budget>> /\ archived' \in BOOLEAN /\ ArchivedInv'
  BY <1>8 DEF Reactivate, ArchivedInv
<1>9. ASSUME UNCHANGED provider
      PROVE  installed' \in Tokens \cup {None} /\ revision' \in Nat /\ archived' \in BOOLEAN /\ ArchivedInv'
  BY <1>0, <1>9 DEF provider, ArchivedInv
<1> QED BY <1>0, <1>1, <1>2, <1>3, <1>4, <1>5, <1>6, <1>7, <1>8, <1>9 DEF Next

\* The sign-in starts well-typed.
LEMMA InitTypeInv == Init => TypeInv
<1> SUFFICES ASSUME Init PROVE TypeInv
  OBVIOUS
<1>1. attempt \in [Attempts -> Attempt] /\ \A a \in Attempts : attempt[a].status = "polling" <=> attempt[a].claim # None
  BY DEF Init, Attempt
<1>2. tombstone \in [Tokens -> Tombstone]
  BY DEF Init, Tombstone
<1>3. request \in [Requests -> Request]
  BY DEF Init, Request, Idle, Phases
<1>4. worker \in [Workers -> Worker]
  BY DEF Init, Worker
<1>5. budget \in [{"replaces", "faults"} -> Nat]
  BY OAuthAttemptAssumption DEF Init
<1>6. RequestInv /\ ArchivedInv
  BY DEF Init, RequestInv, ArchivedInv, Idle, Holding
<1> QED BY <1>1, <1>2, <1>3, <1>4, <1>5, <1>6 DEF Init, TypeInv, TypeOK

\* Every step keeps the types.
LEMMA NextTypeInv == TypeInv /\ [Next]_vars => TypeInv'
<1> SUFFICES ASSUME TypeInv, [Next]_vars PROVE TypeInv'
  OBVIOUS
<1>1. /\ attempt' \in [Attempts -> Attempt]
      /\ \A a \in Attempts : attempt'[a].status = "polling" <=> attempt'[a].claim # None
  BY NextAttempts DEF AttemptType, ClaimMatches
<1> QED
  BY <1>1, NextTombstones, NextProvider, NextRequests, NextWorkers, NextTokens DEF TypeInv, TypeOK

\* Every reachable state has its type, and the table's constraint on poll claims
\* is never violated, whichever request takes a poll over, loses it or fails it.
THEOREM OAuthTypeCorrect == Spec => []TypeOK
<1>1. TypeInv => TypeOK
  BY DEF TypeInv
<1> QED BY InitTypeInv, NextTypeInv, <1>1, PTL DEF Spec

\* The outcome of a sign-in stands: what was superseded, refused or compensated
\* never commits, and a commit is taken back only by the late poll of a deleted
\* provider, with nothing installed.
THEOREM OutcomesStand == Spec => OutcomeStands
<1>1. TypeInv /\ [Next]_vars =>
        [\A a \in Attempts :
           /\ attempt[a].status \in {"failed", "purged"} => attempt'[a].status = attempt[a].status
           /\ attempt[a].status = "committed" =>
                \/ attempt'[a].status \in {"committed", "purged"}
                \/ archived /\ installed = None /\ a \in Device /\ attempt'[a].status = "failed"]_vars
  BY OutcomeStep
<1> QED BY InitTypeInv, NextTypeInv, <1>1, PTL DEF Spec, OutcomeStands

-----------------------------------------------------------------------------
(***************************************************************************)
(* Tokens.  Every step that revokes, records or installs a token keeps     *)
(* TokenInv.                                                               *)
(***************************************************************************)

InHandPhases == {"protect", "revoke", "reprotect"}

\* No request takes a token, and no worker a claim or an answer.
HoldersShrink ==
  \A r \in Requests : request'[r].phase \in Holding =>
    /\ request[r].phase \in Holding /\ request'[r].token = request[r].token
    /\ request'[r].phase \in {"protect", "commit"} => request[r].phase \in {"protect", "commit"}
    /\ request'[r].phase \in InHandPhases => request[r].phase \in InHandPhases

WorkersShrink ==
  \A w \in Workers : worker'[w].phase \in {"claimed", "answered"} => worker'[w] = worker[w]

\* What may become of a tombstone whose token is neither installed nor replaced:
\* nothing, another open status or the end under the same attempt, or its first
\* row, which names an attempt that was started.
TombstoneKept(t) ==
  \/ /\ tombstone'[t].status = tombstone[t].status
     /\ tombstone'[t].attempt = tombstone[t].attempt
  \/ /\ tombstone[t].status \in Open /\ tombstone'[t].status \in Open \cup {"revoked"}
     /\ tombstone'[t].attempt = tombstone[t].attempt
     /\ tombstone'[t].status = "revoked" => token[t] = "revoked"
  \/ /\ tombstone[t].status = "none" /\ token[t] # "unissued"
     /\ tombstone'[t].status = "pending" /\ tombstone'[t].attempt \in Attempts
     /\ attempt[tombstone'[t].attempt].status # "none"

\* The tombstone of a replaced credential belongs to no attempt.
TombstoneReplaced(t) == tombstone'[t].status \in Open /\ tombstone'[t].attempt = None

\* An attempt that cannot commit does not begin to.
LEMMA MayCommitShrinks ==
  ASSUME TypeInv, TokenInv, [Next]_vars, NEW t \in Tokens, tombstone[t].status \in Open,
         tombstone'[t].attempt = tombstone[t].attempt, MayCommit(t)'
  PROVE  MayCommit(t)
<1>1. \A a \in Attempts : attempt[a].status # "none" /\ attempt'[a].status \in Active => attempt[a].status \in Active
  BY NextAttempts DEF Ages
<1>2. tombstone[t].attempt \in Attempts /\ attempt[tombstone[t].attempt].status # "none"
      /\ attempt'[tombstone[t].attempt].status \in Active
  BY DEF TokenInv, TombstoneInv, MayCommit
<1> QED BY <1>1, <1>2 DEF MayCommit

\* The tombstones, while no credential is installed or replaced.
LEMMA TombstonesKept ==
  ASSUME TypeInv, TokenInv, [Next]_vars, UNCHANGED installed, \A t \in Tokens : TombstoneKept(t)
  PROVE  TombstoneInv'
<1>1. \A a \in Attempts : attempt[a].status # "none" => attempt'[a].status # "none"
  BY NextAttempts DEF Ages
<1>2. \A t \in Tokens : TokenMoves(t)
  BY NextTokens
<1> QED BY <1>1, <1>2 DEF TokenInv, TombstoneInv, TombstoneKept, TokenMoves, Open

\* The installed token, while nothing happens to it.
LEMMA InstalledKept ==
  ASSUME TokenInv, HoldersShrink, UNCHANGED installed,
         \A t \in Tokens : t = installed => token'[t] = token[t]
  PROVE  InstalledInv'
<1> SUFFICES ASSUME NEW t \in Tokens, t = installed PROVE token'[t] = "live" /\ InHand(t)' = {}
  BY DEF InstalledInv
<1>1. InHand(t)' \subseteq InHand(t)
  BY DEF InHand, HoldersShrink, Holding, InHandPhases
<1> QED BY <1>1 DEF TokenInv, InstalledInv

\* Nobody comes to share a token.
LEMMA OneHolderKept ==
  ASSUME TokenInv, HoldersShrink,
         \A t \in Tokens : TombstoneKept(t) \/ TombstoneReplaced(t)
  PROVE  OneHolder'
<1> SUFFICES ASSUME NEW t \in Tokens, tombstone'[t].status = "none" \/ tombstone'[t].attempt # None,
                    NEW r \in Requests, NEW s \in Requests, Holds(r, t)', Holds(s, t)'
             PROVE  r = s
  BY DEF OneHolder
<1>1. tombstone[t].status = "none" \/ tombstone[t].attempt # None
  BY DEF TombstoneKept, TombstoneReplaced, Open
<1>2. Holds(r, t) /\ Holds(s, t)
  BY DEF Holds, HoldersShrink
<1> QED BY <1>1, <1>2 DEF TokenInv, OneHolder

\* What a request is still going to commit it was going to commit before.
LEMMA HeldKept ==
  ASSUME TypeInv, TokenInv, [Next]_vars, HoldersShrink, NEW r \in Requests, NEW t \in Tokens,
         request'[r].phase \in {"protect", "commit"}, request'[r].token = t,
         tombstone'[t].status = "none" \/ MayCommit(t)',
         TombstoneKept(t) \/ TombstoneReplaced(t)
  PROVE  /\ request[r].phase \in {"protect", "commit"} /\ request[r].token = t
         /\ tombstone[t].status = "none" \/ MayCommit(t)
         /\ token[t] = "live"
<1>1. request[r].phase \in {"protect", "commit"} /\ request[r].token = t
  BY DEF HoldersShrink, Holding
<1>2. TombstoneKept(t)
  BY NoneApart DEF TombstoneReplaced, MayCommit, Open
<1>3. tombstone[t].status = "none" \/ MayCommit(t)
  <2>1. CASE tombstone'[t].status = "none"
    BY <1>2, <2>1 DEF TombstoneKept, Open
  <2>2. CASE MayCommit(t)'
    <3>1. \/ tombstone[t].status = "none"
          \/ tombstone[t].status \in Open /\ tombstone'[t].attempt = tombstone[t].attempt
      BY <1>2, <2>2 DEF MayCommit, TombstoneKept, Open
    <3> QED BY <2>2, <3>1, MayCommitShrinks
  <2> QED BY <2>1, <2>2
<1> QED BY <1>1, <1>3 DEF TokenInv, HeldLive

\* A claim on a token stays one that may be acted on.
LEMMA ClaimKept ==
  ASSUME TypeInv, TokenInv, [Next]_vars, NEW w \in Workers, NEW t \in Tokens,
         worker[w].phase = "claimed", worker[w].token = t, TombstoneKept(t)
  PROVE  tombstone'[t].status \in Open \cup {"revoked"} /\ ~MayCommit(t)'
<1>1. tombstone[t].status \in Open \cup {"revoked"} /\ ~MayCommit(t)
  BY DEF TokenInv, WorkerInv
<1>2. /\ tombstone'[t].status \in Open \cup {"revoked"}
      /\ tombstone'[t].attempt = tombstone[t].attempt
      /\ tombstone'[t].status \in Open => tombstone[t].status \in Open
  BY <1>1 DEF TombstoneKept, Open
<1>3. ~MayCommit(t)'
  BY <1>1, <1>2, MayCommitShrinks DEF MayCommit
<1> QED BY <1>2, <1>3

\* The workers, while none of them claims a tombstone or gets an answer.
LEMMA WorkersKept ==
  ASSUME TypeInv, TokenInv, [Next]_vars, WorkersShrink,
         \A w \in Workers, t \in Tokens :
           worker[w].phase = "claimed" /\ worker[w].token = t => TombstoneKept(t)
  PROVE  WorkerInv'
<1> SUFFICES ASSUME NEW w \in Workers, NEW t \in Tokens, worker'[w].phase # "idle", worker'[w].token = t
             PROVE  /\ worker'[w].phase = "claimed" =>
                         tombstone'[t].status \in Open \cup {"revoked"} /\ ~MayCommit(t)'
                    /\ worker'[w].phase = "answered" /\ worker'[w].revoked => token'[t] = "revoked"
  BY DEF WorkerInv
<1>1. ASSUME worker'[w].phase = "claimed"
      PROVE  tombstone'[t].status \in Open \cup {"revoked"} /\ ~MayCommit(t)'
  <2>1. worker[w].phase = "claimed" /\ worker[w].token = t
    BY <1>1 DEF WorkersShrink
  <2> QED BY <2>1, ClaimKept
<1>2. ASSUME worker'[w].phase = "answered", worker'[w].revoked PROVE token'[t] = "revoked"
  <2>1. token[t] = "revoked"
    BY <1>2 DEF TokenInv, WorkerInv, WorkersShrink
  <2> QED BY <2>1, NextTokens DEF TokenMoves
<1> QED BY <1>1, <1>2

\* The steps that neither grant, install, replace nor revoke a token.
LEMMA KeptTokenInv ==
  ASSUME TypeInv, TokenInv, [Next]_vars, HoldersShrink, WorkersShrink,
         UNCHANGED <<token, installed>>, \A t \in Tokens : TombstoneKept(t)
  PROVE  TokenInv'
<1>1. HeldLive'
  <2> SUFFICES ASSUME NEW r \in Requests, NEW t \in Tokens,
                      request'[r].phase \in {"protect", "commit"}, request'[r].token = t,
                      tombstone'[t].status = "none" \/ MayCommit(t)'
               PROVE  token'[t] = "live"
    BY DEF HeldLive
  <2> QED BY HeldKept
<1>2. TombstoneInv'
  BY TombstonesKept
<1>3. InstalledInv'
  BY InstalledKept
<1>4. OneHolder'
  BY OneHolderKept
<1>5. WorkerInv'
  BY WorkersKept
<1> QED BY <1>1, <1>2, <1>3, <1>4, <1>5 DEF TokenInv

\* The steps of a request but for a grant take no token.
LEMMA RequestsShrink ==
  ASSUME TypeInv, [Next]_vars, ~\E r \in Requests, t \in Tokens : Granted(r, t)
  PROVE  HoldersShrink
<1>0. request \in [Requests -> Request]
  BY DEF TypeInv, TypeOK
<1>1. ASSUME NEW r \in Requests, Done(r) PROVE HoldersShrink
  BY <1>1, RequestMoves DEF HoldersShrink, Holding
<1>2. ASSUME NEW r \in Requests, NEW p \in Phases, Continue(r, p),
             p \in Holding => /\ request[r].phase \in Holding
                              /\ p = "commit" => request[r].phase = "protect"
                              /\ p # "protect"
                              /\ p # "commit" => request[r].phase \in InHandPhases
      PROVE  HoldersShrink
  <2>1. /\ request'[r].phase = p /\ request'[r].token = request[r].token
        /\ \A s \in Requests : s # r => request'[s] = request[s]
    BY <1>2, RequestMoves
  <2> QED BY <1>2, <2>1 DEF HoldersShrink, Holding, InHandPhases
<1>3. ASSUME NEW r \in Requests, NEW a \in Attempts, TakeOver(r, a) \/ BeginExchange(r, a) \/ ClaimPoll(r, a)
      PROVE  HoldersShrink
  <2>1. UNCHANGED request \/ \E p \in {"load", "poll"} : At(r, p, a, None)
    BY <1>3 DEF TakeOver, BeginExchange, ClaimPoll
  <2>2. ASSUME NEW p \in {"load", "poll"}, At(r, p, a, None)
        PROVE  request'[r].phase = p /\ \A s \in Requests : s # r => request'[s] = request[s]
    BY <2>2, RequestMoves DEF Phases
  <2> QED BY <2>1, <2>2 DEF HoldersShrink, Holding
<1>4. ASSUME NEW r \in Requests, RequestStep(r) PROVE HoldersShrink
  <2>1. \/ Done(r)
        \/ \E p \in Phases : /\ Continue(r, p)
                             /\ p \in Holding => /\ request[r].phase \in Holding
                                                 /\ p = "commit" => request[r].phase = "protect"
                                                 /\ p # "protect"
                                                 /\ p # "commit" => request[r].phase \in InHandPhases
    BY <1>4 DEF RequestStep, PollPending, PollRefused, PollConfirmed, Load, Refused, Protect, ProtectFails,
                RevokeNow, Reprotect, Commit, Replay, CommitRefused, FailAttempt, Phases, Holding, InHandPhases
  <2> QED BY <1>1, <1>2, <1>4, <2>1
<1>5. ASSUME NEW r \in Requests, RequestDies(r) PROVE HoldersShrink
  BY <1>1, <1>5 DEF RequestDies
<1>6. CASE UNCHANGED request
  BY <1>6 DEF HoldersShrink
<1>7. ASSUME \/ \E w \in Workers : WorkerStep(w) \/ WorkerDies(w)
             \/ \E a \in Attempts : StartAttempt(a)
             \/ \E archive \in BOOLEAN : Replace(archive)
             \/ TimePasses \/ Reactivate \/ UNCHANGED vars
      PROVE  UNCHANGED request
  BY <1>7 DEF WorkerStep, Pick, ClaimTombstone, Revoke, Record, WorkerDies, StartAttempt, Age,
              PurgeAttempt, Replace, TimePasses, Reactivate, Lapse, vars
<1> QED BY <1>3, <1>4, <1>5, <1>6, <1>7 DEF Next

\* A worker takes a claim or an answer in two steps only.
LEMMA WorkersShrinkStep ==
  ASSUME TypeInv, [Next]_vars, ~\E w \in Workers : ClaimTombstone(w) \/ Revoke(w)
  PROVE  WorkersShrink
<1>0. worker \in [Workers -> Worker]
  BY DEF TypeInv, TypeOK
<1>1. ASSUME NEW w \in Workers, NEW k, worker' = [worker EXCEPT ![w] = k],
             k.phase \notin {"claimed", "answered"}
      PROVE  WorkersShrink
  BY <1>0, <1>1 DEF WorkersShrink
<1>2. ASSUME NEW w \in Workers, WorkerStep(w) \/ WorkerDies(w) PROVE WorkersShrink
  <2>1. CASE \E t \in Tokens : Pick(w, t)
    BY <1>1, <2>1 DEF Pick
  <2>2. CASE Record(w) \/ WorkerDies(w)
    BY <1>1, <2>2 DEF Record, WorkerDies, Resting
  <2> QED BY <1>2, <2>1, <2>2 DEF WorkerStep
<1>3. CASE UNCHANGED worker
  BY <1>3 DEF WorkersShrink
<1>4. ASSUME NEW r \in Requests,
             \/ RequestStep(r) \/ RequestDies(r)
             \/ \E a \in Attempts : TakeOver(r, a) \/ BeginExchange(r, a) \/ ClaimPoll(r, a)
      PROVE  UNCHANGED worker
  BY <1>4 DEF RequestStep, Load, Granted, Refused, Protect, ProtectFails, RevokeNow, Reprotect, Commit,
              Replay, CommitRefused, FailAttempt, RequestDies, PollPending, PollRefused, PollConfirmed,
              TakeOver, BeginExchange, ClaimPoll
<1>5. ASSUME \/ \E a \in Attempts : StartAttempt(a)
             \/ \E archive \in BOOLEAN : Replace(archive)
             \/ TimePasses \/ Reactivate \/ UNCHANGED vars
      PROVE  UNCHANGED worker
  BY <1>5 DEF StartAttempt, Age, PurgeAttempt, Replace, Reactivate, Lapse, TimePasses, vars
<1> QED BY <1>2, <1>3, <1>4, <1>5 DEF Next

\* A request records a token it has in hand: an open or finished tombstone is kept,
\* and a cancelled one is out of the question because the token is not installed.
LEMMA RecordedKept ==
  ASSUME TypeInv, TokenInv, NEW r \in Requests, request[r].phase \in InHandPhases,
         tombstone' \in {tombstone, Queued(tombstone, request[r].token, request[r].attempt)}
  PROVE  \A t \in Tokens : TombstoneKept(t)
<1> DEFINE t == request[r].token
           a == request[r].attempt
<1>1. /\ tombstone \in [Tokens -> Tombstone] /\ t \in Tokens /\ token[t] # "unissued"
      /\ a \in Attempts /\ attempt[a].status # "none"
  BY DEF TypeInv, TypeOK, RequestInv, Holding, InHandPhases
<1>2. tombstone[t].status # "cancelled"
  <2>1. r \in InHand(t)
    BY DEF InHand, InHandPhases
  <2> QED BY <1>1, <2>1 DEF TokenInv, TombstoneInv, InstalledInv
<1>3. tombstone[t].status \in Open \cup {"revoked", "none"}
  <2>1. tombstone[t] \in Tombstone
    BY <1>1
  <2> QED BY <1>2, <2>1 DEF Tombstone
<1>4. CASE tombstone' = tombstone
  BY <1>4 DEF TombstoneKept
<1>5. CASE tombstone' = Queued(tombstone, t, a)
  <2>1. /\ \A u \in Tokens : u # t => tombstone'[u] = tombstone[u]
        /\ tombstone[t].status \in Open \cup {"revoked"} => tombstone'[t] = tombstone[t]
        /\ tombstone[t].status \notin Open \cup {"revoked"} =>
             tombstone'[t].status = "pending" /\ tombstone'[t].attempt = a
    BY <1>1, <1>5, QueuedRow
  <2> QED BY <1>1, <1>3, <2>1 DEF TombstoneKept
<1> QED BY <1>4, <1>5

\* A worker's record and the lapse of its lease leave the tombstone to its attempt.
LEMMA WrittenKept ==
  ASSUME TypeInv, TokenInv,
         (\E w \in Workers : Record(w)) \/ (\E t \in Tokens : Lapse(t))
  PROVE  \A t \in Tokens : TombstoneKept(t)
<1>1. ASSUME NEW t \in Tokens, NEW s \in Open \cup {"revoked"}, SameAttempt(t, s),
             tombstone[t].status \in Open, s = "revoked" => token[t] = "revoked"
      PROVE  \A u \in Tokens : TombstoneKept(u)
  BY <1>1 DEF SameAttempt, TombstoneKept, Open
<1>2. ASSUME NEW w \in Workers, Record(w) PROVE \A u \in Tokens : TombstoneKept(u)
  <2>1. worker[w].token \in Tokens /\ worker[w].phase = "answered"
    BY <1>2, RecordRow DEF Record
  <2>2. worker[w].revoked => token[worker[w].token] = "revoked"
    BY <2>1 DEF TokenInv, WorkerInv
  <2>3. CASE UNCHANGED tombstone
    BY <2>3 DEF TombstoneKept
  <2>4. CASE /\ tombstone[worker[w].token].status = "processing"
             /\ \/ SameAttempt(worker[w].token, "pending")
                \/ SameAttempt(worker[w].token, "revoked") /\ worker[w].revoked
    BY <1>1, <2>1, <2>2, <2>4 DEF Open
  <2> QED BY <1>2, <2>3, <2>4, RecordRow
<1>3. ASSUME NEW t \in Tokens, Lapse(t) PROVE \A u \in Tokens : TombstoneKept(u)
  BY <1>1, <1>3, LapseRow DEF Open
<1> QED BY <1>2, <1>3

\* A replaced credential is handed over to its tombstone.
LEMMA ReplaceTokenInv ==
  ASSUME TypeInv, TokenInv, [Next]_vars, HoldersShrink, WorkersShrink, NEW archive \in BOOLEAN, Replace(archive)
  PROVE  TokenInv'
<1>0. /\ tombstone \in [Tokens -> Tombstone] /\ installed \in Tokens \cup {None}
      /\ installed' = None /\ tombstone' = Retired(tombstone, None) /\ UNCHANGED token
      /\ \A b \in Attempts : attempt[b].status # "none" => attempt'[b].status # "none"
  BY NextAttempts DEF TypeInv, TypeOK, Replace, Ages
<1>1. /\ \A t \in Tokens : t # installed => tombstone'[t] = tombstone[t]
      /\ installed \in Tokens => tombstone' = Queued(tombstone, installed, None)
  BY <1>0, RetiredRow, NoneApart
<1>2. ASSUME NEW t \in Tokens, t = installed
      PROVE  /\ tombstone[t].status = "cancelled"
             /\ tombstone'[t].status = "pending" /\ tombstone'[t].attempt = None
  <2>1. tombstone[t].status = "cancelled"
    BY <1>2 DEF TokenInv, TombstoneInv
  <2> QED BY <1>0, <1>1, <1>2, <2>1, QueuedRow DEF Open
<1>3. ASSUME NEW t \in Tokens PROVE IF t = installed THEN TombstoneReplaced(t) ELSE TombstoneKept(t)
  BY <1>1, <1>2 DEF TombstoneReplaced, TombstoneKept, Open
<1>4. TombstoneInv'
  BY <1>0, <1>1, <1>2, NoneApart DEF TokenInv, TombstoneInv, InstalledInv
<1>5. InstalledInv'
  BY <1>0, NoneApart DEF InstalledInv
<1>6. OneHolder'
  BY <1>3, OneHolderKept
<1>7. HeldLive'
  <2> SUFFICES ASSUME NEW r \in Requests, NEW t \in Tokens,
                      request'[r].phase \in {"protect", "commit"}, request'[r].token = t,
                      tombstone'[t].status = "none" \/ MayCommit(t)'
               PROVE  token'[t] = "live"
    BY DEF HeldLive
  <2> QED BY <1>0, <1>3, HeldKept
<1>8. WorkerInv'
  <2>1. ASSUME NEW w \in Workers, NEW t \in Tokens, worker[w].phase = "claimed", worker[w].token = t
        PROVE  TombstoneKept(t)
    <3>1. tombstone[t].status \in Open \cup {"revoked"}
      BY <2>1 DEF TokenInv, WorkerInv
    <3> QED BY <1>2, <1>3, <3>1 DEF Open
  <2> QED BY <2>1, WorkersKept
<1> QED BY <1>4, <1>5, <1>6, <1>7, <1>8 DEF TokenInv

\* A commit installs the token it holds alone and that no worker is revoking; the
\* old credential is handed over to its tombstone.
LEMMA CommitTokenInv ==
  ASSUME TypeInv, TokenInv, [Next]_vars, HoldersShrink, WorkersShrink, NEW r \in Requests, Commit(r)
  PROVE  TokenInv'
<1> DEFINE t == request[r].token
           a == request[r].attempt
           ts == [tombstone EXCEPT ![t].status = "cancelled"]
<1>0. /\ tombstone \in [Tokens -> Tombstone] /\ installed \in Tokens \cup {None}
      /\ installed' = t /\ UNCHANGED token /\ request[r].phase = "commit"
      /\ \A b \in Attempts : attempt[b].status # "none" => attempt'[b].status # "none"
      /\ attempt[a].status = "exchanging"
  BY NextAttempts DEF TypeInv, TypeOK, Commit, Ages
<1>1. /\ t \in Tokens /\ a \in Attempts
      /\ tombstone[t].status = "pending" /\ tombstone[t].attempt = a
      /\ ts \in [Tokens -> Tombstone]
      /\ ts[t].status = "cancelled" /\ ts[t].attempt = a
      /\ \A u \in Tokens : u # t => ts[u] = tombstone[u]
      /\ tombstone' = Retired(ts, t)
  BY CommitRow
<1> HIDE DEF ts
<1>2. MayCommit(t)
  BY <1>0, <1>1 DEF MayCommit, Open, Active
<1>3. t # installed
  BY <1>1 DEF TokenInv, TombstoneInv
<1>4. /\ tombstone'[t].status = "cancelled" /\ tombstone'[t].attempt = a
      /\ \A u \in Tokens : u \notin {t, installed} => tombstone'[u] = tombstone[u]
      /\ installed \in Tokens => tombstone' = Queued(ts, installed, None)
  BY <1>0, <1>1, <1>3, RetiredRow
<1>5. ASSUME NEW u \in Tokens, u = installed
      PROVE  /\ tombstone[u].status = "cancelled"
             /\ tombstone'[u].status = "pending" /\ tombstone'[u].attempt = None
  <2>1. tombstone[u].status = "cancelled"
    BY <1>5 DEF TokenInv, TombstoneInv
  <2>2. ts[u].status = "cancelled" /\ tombstone' = Queued(ts, u, None)
    BY <1>1, <1>3, <1>4, <1>5, <2>1
  <2> QED BY <1>1, <2>1, <2>2, QueuedRow DEF Open
<1>6. token[t] = "live"
  BY <1>0, <1>1, <1>2 DEF TokenInv, HeldLive
<1>7. InHand(t) = {}
  <2>1. Holds(r, t)
    BY <1>0 DEF Holds, Holding
  <2>2. ASSUME NEW s \in InHand(t) PROVE FALSE
    <3>1. s \in Requests /\ Holds(s, t) /\ request[s].phase # "commit"
      BY <2>2 DEF InHand, Holds, Holding
    <3>2. s = r
      BY <1>1, <2>1, <3>1, NoneApart DEF TokenInv, OneHolder
    <3> QED BY <1>0, <3>1, <3>2
  <2> QED BY <2>2
<1>8. ASSUME NEW u \in Tokens, u # t PROVE IF u = installed THEN TombstoneReplaced(u) ELSE TombstoneKept(u)
  BY <1>4, <1>5, <1>8 DEF TombstoneReplaced, TombstoneKept, Open
<1>9. TombstoneInv'
  <2> SUFFICES ASSUME NEW u \in Tokens
               PROVE  /\ token'[u] = "unissued" => tombstone'[u].status = "none"
                      /\ tombstone'[u].attempt \in Attempts => attempt'[tombstone'[u].attempt].status # "none"
                      /\ tombstone'[u].status = "cancelled" <=> u = installed'
                      /\ tombstone'[u].status = "revoked" => token'[u] = "revoked"
    BY DEF TombstoneInv
  <2>1. CASE u = t
    BY <1>0, <1>1, <1>4, <1>6, <2>1
  <2>2. CASE u = installed
    BY <1>0, <1>3, <1>5, <2>2, NoneApart DEF TokenInv, InstalledInv
  <2>3. CASE u \notin {t, installed}
    BY <1>0, <1>4, <2>3 DEF TokenInv, TombstoneInv
  <2> QED BY <2>1, <2>2, <2>3
<1>10. InstalledInv'
  <2> SUFFICES ASSUME NEW u \in Tokens, u = t PROVE token'[u] = "live" /\ InHand(u)' = {}
    BY <1>0 DEF InstalledInv
  <2>1. InHand(u)' \subseteq InHand(u)
    BY DEF InHand, HoldersShrink, Holding, InHandPhases
  <2> QED BY <1>0, <1>6, <1>7, <2>1
<1>11. OneHolder'
  <2> SUFFICES ASSUME NEW u \in Tokens, tombstone'[u].status = "none" \/ tombstone'[u].attempt # None,
                      NEW p \in Requests, NEW s \in Requests, Holds(p, u)', Holds(s, u)'
               PROVE  p = s
    BY DEF OneHolder
  <2>1. tombstone[u].status = "none" \/ tombstone[u].attempt # None
    BY <1>1, <1>8, NoneApart DEF TombstoneKept, TombstoneReplaced, Open
  <2>2. Holds(p, u) /\ Holds(s, u)
    BY DEF Holds, HoldersShrink
  <2> QED BY <2>1, <2>2 DEF TokenInv, OneHolder
<1>12. HeldLive'
  <2> SUFFICES ASSUME NEW s \in Requests, NEW u \in Tokens,
                      request'[s].phase \in {"protect", "commit"}, request'[s].token = u,
                      tombstone'[u].status = "none" \/ MayCommit(u)'
               PROVE  token'[u] = "live"
    BY DEF HeldLive
  <2>1. u # t
    BY <1>4 DEF MayCommit, Open
  <2> QED BY <1>0, <1>8, <2>1, HeldKept
<1>13. WorkerInv'
  <2>1. ASSUME NEW w \in Workers, NEW u \in Tokens, worker[w].phase = "claimed", worker[w].token = u
        PROVE  TombstoneKept(u)
    <3>1. tombstone[u].status \in Open \cup {"revoked"} /\ ~MayCommit(u)
      BY <2>1 DEF TokenInv, WorkerInv
    <3>2. u # t /\ u # installed
      BY <1>2, <1>5, <3>1 DEF Open
    <3> QED BY <1>8, <3>2
  <2> QED BY <2>1, WorkersKept
<1> QED BY <1>9, <1>10, <1>11, <1>12, <1>13 DEF TokenInv

\* A grant is a new token, which nobody holds, or that of a replaced credential.
LEMMA GrantedTokenInv ==
  ASSUME TypeInv, TokenInv, [Next]_vars, NEW r \in Requests, NEW t \in Tokens, Granted(r, t)
  PROVE  TokenInv'
<1>0. /\ token \in [Tokens -> {"unissued", "live", "revoked"}] /\ request \in [Requests -> Request]
      /\ UNCHANGED <<attempt, tombstone, installed, worker>> /\ request[r].phase = "exchange"
      /\ token' = [token EXCEPT ![t] = "live"]
  BY DEF TypeInv, TypeOK, Granted, provider
<1>1. /\ token'[t] = "live" /\ \A u \in Tokens : u # t => token'[u] = token[u]
      /\ \A u \in Tokens : MayCommit(u)' <=> MayCommit(u)
  BY <1>0 DEF MayCommit
<1>2. /\ request'[r].phase = "protect" /\ request'[r].token = t
      /\ \A s \in Requests : s # r => request'[s] = request[s]
  <2>1. request[r].attempt \in Attempts /\ "protect" \in Phases /\ At(r, "protect", request[r].attempt, t)
    BY <1>0 DEF TypeInv, RequestInv, Phases, Granted
  <2> QED BY <2>1, RequestMoves
<1>3. \/ /\ token[t] = "unissued" /\ tombstone[t].status = "none"
         /\ \A s \in Requests : ~Holds(s, t)
      \/ token[t] = "live" /\ tombstone[t].status \in Open /\ tombstone[t].attempt = None
  <2>1. token[t] = "unissued" => tombstone[t].status = "none" /\ \A s \in Requests : ~Holds(s, t)
    BY DEF TypeInv, RequestInv, TokenInv, TombstoneInv, Holds
  <2> QED BY <2>1 DEF Granted, Grants
<1>4. t # installed
  BY <1>3 DEF TokenInv, TombstoneInv, Open
<1>5. TombstoneInv'
  BY <1>0, <1>1, <1>3 DEF TokenInv, TombstoneInv, Open
<1>6. InstalledInv'
  <2> SUFFICES ASSUME NEW u \in Tokens, u = installed PROVE token'[u] = "live" /\ InHand(u)' = {}
    BY <1>0 DEF InstalledInv
  <2>1. InHand(u)' \subseteq InHand(u)
    BY <1>2, <1>4 DEF InHand
  <2> QED BY <1>1, <1>4, <2>1 DEF TokenInv, InstalledInv
<1>7. OneHolder'
  <2> SUFFICES ASSUME NEW u \in Tokens, tombstone[u].status = "none" \/ tombstone[u].attempt # None,
                      NEW p \in Requests, NEW s \in Requests, Holds(p, u)', Holds(s, u)'
               PROVE  p = s
    BY <1>0 DEF OneHolder
  <2>1. CASE u = t
    <3>1. \A q \in Requests : ~Holds(q, t)
      BY <1>3, <2>1 DEF Open
    <3> QED BY <1>2, <2>1, <3>1 DEF Holds
  <2>2. CASE u # t
    <3>1. Holds(p, u) /\ Holds(s, u)
      BY <1>2, <2>2 DEF Holds
    <3> QED BY <3>1 DEF TokenInv, OneHolder
  <2> QED BY <2>1, <2>2
<1>8. HeldLive'
  <2> SUFFICES ASSUME NEW s \in Requests, NEW u \in Tokens, u # t,
                      request'[s].phase \in {"protect", "commit"}, request'[s].token = u,
                      tombstone[u].status = "none" \/ MayCommit(u)
               PROVE  token[u] = "live"
    BY <1>0, <1>1 DEF HeldLive
  <2>1. request[s].phase \in {"protect", "commit"} /\ request[s].token = u
    BY <1>2
  <2> QED BY <2>1 DEF TokenInv, HeldLive
<1>9. WorkerInv'
  BY <1>0, <1>1, <1>3 DEF TokenInv, WorkerInv
<1> QED BY <1>5, <1>6, <1>7, <1>8, <1>9 DEF TokenInv

\* A token is granted and the answer lost: nobody here knows of it.
LEMMA RefusedTokenInv ==
  ASSUME TypeInv, TokenInv, [Next]_vars, HoldersShrink, WorkersShrink, NEW r \in Requests, Refused(r)
  PROVE  TokenInv'
<1>0. /\ token \in [Tokens -> {"unissued", "live", "revoked"}] /\ UNCHANGED <<tombstone, installed>>
      /\ \A t \in Tokens : TombstoneKept(t)
  BY DEF TypeInv, TypeOK, Refused, provider, TombstoneKept
<1>1. CASE UNCHANGED token
  BY <1>0, <1>1, KeptTokenInv
<1>2. ASSUME NEW t \in Tokens, token[t] = "unissued", token' = [token EXCEPT ![t] = "live"]
      PROVE  TokenInv'
  <2>1. \A u \in Tokens : token[u] = "live" => token'[u] = token[u]
    BY <1>0, <1>2
  <2>2. TombstoneInv' /\ OneHolder' /\ WorkerInv'
    BY <1>0, TombstonesKept, OneHolderKept, WorkersKept
  <2>3. InstalledInv'
    BY <1>0, <2>1, InstalledKept DEF TokenInv, InstalledInv
  <2>4. HeldLive'
    <3> SUFFICES ASSUME NEW s \in Requests, NEW u \in Tokens,
                        request'[s].phase \in {"protect", "commit"}, request'[s].token = u,
                        tombstone'[u].status = "none" \/ MayCommit(u)'
                 PROVE  token'[u] = "live"
      BY DEF HeldLive
    <3> QED BY <1>0, <2>1, HeldKept
  <2> QED BY <2>2, <2>3, <2>4 DEF TokenInv
<1> QED BY <1>1, <1>2 DEF Refused

\* A request revokes the token it could not record: nobody else is to commit it.
LEMMA RevokeNowTokenInv ==
  ASSUME TypeInv, TokenInv, [Next]_vars, HoldersShrink, WorkersShrink, NEW r \in Requests, RevokeNow(r)
  PROVE  TokenInv'
<1> DEFINE t == request[r].token
<1>0. /\ token \in [Tokens -> {"unissued", "live", "revoked"}] /\ UNCHANGED <<tombstone, installed>>
      /\ \A u \in Tokens : TombstoneKept(u)
      /\ t \in Tokens /\ request[r].phase = "revoke"
      /\ token' \in {token, [token EXCEPT ![t] = "revoked"]}
  BY DEF TypeInv, TypeOK, RequestInv, Holding, RevokeNow, provider, TombstoneKept
<1>1. \A u \in Tokens : u # t => token'[u] = token[u]
  BY <1>0
<1>2. t # installed
  <2>1. r \in InHand(t)
    BY <1>0 DEF InHand
  <2> QED BY <1>0, <2>1 DEF TokenInv, InstalledInv
<1>3. TombstoneInv' /\ OneHolder' /\ WorkerInv'
  BY <1>0, TombstonesKept, OneHolderKept, WorkersKept
<1>4. InstalledInv'
  BY <1>0, <1>1, <1>2, InstalledKept
<1>5. HeldLive'
  <2> SUFFICES ASSUME NEW s \in Requests, NEW u \in Tokens,
                      request'[s].phase \in {"protect", "commit"}, request'[s].token = u,
                      tombstone'[u].status = "none" \/ MayCommit(u)'
               PROVE  token'[u] = "live"
    BY DEF HeldLive
  <2>1. /\ request[s].phase \in {"protect", "commit"} /\ request[s].token = u
        /\ tombstone[u].status = "none" \/ MayCommit(u)
        /\ token[u] = "live"
    BY <1>0, HeldKept
  <2>2. u # t
    <3>1. ASSUME u = t PROVE FALSE
      <4>1. Holds(r, u) /\ Holds(s, u) /\ s # r
        BY <1>0, <2>1, <3>1 DEF Holds, Holding
      <4>2. tombstone[u].status = "none" \/ tombstone[u].attempt # None
        BY <2>1, NoneApart DEF MayCommit
      <4> QED BY <4>1, <4>2 DEF TokenInv, OneHolder
    <3> QED BY <3>1
  <2> QED BY <1>1, <2>1, <2>2
<1> QED BY <1>3, <1>4, <1>5 DEF TokenInv

\* A worker that claims a tombstone has failed the attempt that could commit it.
LEMMA ClaimTokenInv ==
  ASSUME TypeInv, TokenInv, [Next]_vars, HoldersShrink, NEW w \in Workers, ClaimTombstone(w)
  PROVE  TokenInv'
<1> DEFINE t == worker[w].token
<1>0. UNCHANGED <<token, installed>> /\ worker \in [Workers -> Worker] /\ t \in Tokens
  BY ClaimRow DEF TypeInv, TypeOK, ClaimTombstone, provider
<1>1. CASE UNCHANGED tombstone /\ worker' = [worker EXCEPT ![w] = Resting]
  <2>1. WorkersShrink
    BY <1>0, <1>1 DEF WorkersShrink, Resting
  <2>2. \A u \in Tokens : TombstoneKept(u)
    BY <1>1 DEF TombstoneKept
  <2> QED BY <1>0, <2>1, <2>2, KeptTokenInv
<1>2. CASE /\ SameAttempt(t, "processing") /\ tombstone[t].status \in Open
           /\ tombstone[t].attempt = worker[w].attempt
           /\ attempt' = Failed(attempt, {worker[w].attempt})
           /\ worker' = [worker EXCEPT ![w] = [phase |-> "claimed", token |-> t]]
  <2>1. \A u \in Tokens : TombstoneKept(u)
    BY <1>2 DEF SameAttempt, TombstoneKept, Open
  <2>2. TombstoneInv' /\ OneHolder'
    BY <1>0, <2>1, TombstonesKept, OneHolderKept
  <2>3. InstalledInv'
    BY <1>0, InstalledKept
  <2>4. HeldLive'
    <3> SUFFICES ASSUME NEW s \in Requests, NEW u \in Tokens,
                        request'[s].phase \in {"protect", "commit"}, request'[s].token = u,
                        tombstone'[u].status = "none" \/ MayCommit(u)'
                 PROVE  token'[u] = "live"
      BY DEF HeldLive
    <3> QED BY <1>0, <2>1, HeldKept
  <2>5. tombstone'[t].status \in Open \cup {"revoked"} /\ tombstone'[t].attempt = worker[w].attempt
    BY <1>2 DEF SameAttempt, Open
  <2>6. worker[w].attempt \in Attempts => attempt'[worker[w].attempt].status \notin Active
    <3>1. AttemptType(attempt)
      BY DEF TypeInv, TypeOK, AttemptType, ClaimMatches
    <3> QED BY <1>2, <3>1, FailedAttempts
  <2>7. WorkerInv'
    <3> SUFFICES ASSUME NEW v \in Workers, NEW u \in Tokens, worker'[v].phase # "idle", worker'[v].token = u
                 PROVE  /\ worker'[v].phase = "claimed" =>
                             tombstone'[u].status \in Open \cup {"revoked"} /\ ~MayCommit(u)'
                        /\ worker'[v].phase = "answered" /\ worker'[v].revoked => token'[u] = "revoked"
      BY DEF WorkerInv
    <3>1. CASE v = w
      <4>1. worker'[v].phase = "claimed" /\ u = t
        BY <1>0, <1>2, <3>1
      <4> QED BY <2>5, <2>6, <4>1 DEF MayCommit
    <3>2. CASE v # w
      <4>1. worker'[v] = worker[v]
        BY <1>0, <1>2, <3>2
      <4>2. worker'[v].phase = "claimed" => tombstone'[u].status \in Open \cup {"revoked"} /\ ~MayCommit(u)'
        BY <2>1, <4>1, ClaimKept
      <4> QED BY <1>0, <4>1, <4>2 DEF TokenInv, WorkerInv
    <3> QED BY <3>1, <3>2
  <2> QED BY <2>2, <2>3, <2>4, <2>7 DEF TokenInv
<1> QED BY <1>1, <1>2, ClaimRow

\* A worker revokes a token that is not installed and that nobody is to commit.
LEMMA RevokeTokenInv ==
  ASSUME TypeInv, TokenInv, [Next]_vars, HoldersShrink, NEW w \in Workers, Revoke(w)
  PROVE  TokenInv'
<1> DEFINE t == worker[w].token
<1>0. /\ token \in [Tokens -> {"unissued", "live", "revoked"}] /\ UNCHANGED <<attempt, tombstone, installed>>
      /\ worker \in [Workers -> Worker] /\ t \in Tokens /\ worker[w].phase = "claimed"
      /\ \A u \in Tokens : TombstoneKept(u)
  BY WorkerFields DEF TypeInv, TypeOK, Revoke, provider, TombstoneKept
<1>1. PICK ok \in BOOLEAN :
        /\ worker' = [worker EXCEPT ![w] = [phase |-> "answered", token |-> t, revoked |-> ok]]
        /\ token' \in {token, [token EXCEPT ![t] = "revoked"]}
        /\ ok => token' = [token EXCEPT ![t] = "revoked"]
  BY DEF Revoke
<1>2. /\ \A u \in Tokens : u # t => token'[u] = token[u]
      /\ ok => token'[t] = "revoked"
  BY <1>0, <1>1
<1>3. tombstone[t].status \in Open \cup {"revoked"} /\ ~MayCommit(t)
  BY <1>0 DEF TokenInv, WorkerInv
<1>4. t # installed
  BY <1>0, <1>3 DEF TokenInv, TombstoneInv, Open
<1>5. TombstoneInv' /\ OneHolder'
  BY <1>0, TombstonesKept, OneHolderKept
<1>6. InstalledInv'
  BY <1>0, <1>2, <1>4, InstalledKept
<1>7. HeldLive'
  <2> SUFFICES ASSUME NEW s \in Requests, NEW u \in Tokens,
                      request'[s].phase \in {"protect", "commit"}, request'[s].token = u,
                      tombstone'[u].status = "none" \/ MayCommit(u)'
               PROVE  token'[u] = "live"
    BY DEF HeldLive
  <2>1. (tombstone[u].status = "none" \/ MayCommit(u)) /\ token[u] = "live"
    BY <1>0, HeldKept
  <2> QED BY <1>2, <1>3, <2>1 DEF Open
<1>8. WorkerInv'
  <2> SUFFICES ASSUME NEW v \in Workers, NEW u \in Tokens, worker'[v].phase # "idle", worker'[v].token = u
               PROVE  /\ worker'[v].phase = "claimed" =>
                           tombstone'[u].status \in Open \cup {"revoked"} /\ ~MayCommit(u)'
                      /\ worker'[v].phase = "answered" /\ worker'[v].revoked => token'[u] = "revoked"
    BY DEF WorkerInv
  <2>1. CASE v = w
    <3>1. worker'[v].phase = "answered" /\ u = t /\ worker'[v].revoked = ok
      BY <1>0, <1>1, <2>1
    <3> QED BY <1>2, <3>1
  <2>2. CASE v # w
    <3>1. worker'[v] = worker[v]
      BY <1>0, <1>1, <2>2
    <3>2. worker'[v].phase = "claimed" => tombstone'[u].status \in Open \cup {"revoked"} /\ ~MayCommit(u)'
      BY <1>0, <3>1, ClaimKept
    <3>3. worker'[v].phase = "answered" /\ worker'[v].revoked => token[u] = "revoked"
      BY <3>1 DEF TokenInv, WorkerInv
    <3>4. token[u] = "revoked" => token'[u] = "revoked"
      BY NextTokens DEF TokenMoves
    <3> QED BY <3>2, <3>3, <3>4
  <2> QED BY <2>1, <2>2
<1> QED BY <1>5, <1>6, <1>7, <1>8 DEF TokenInv

\* Initially there is no token.
LEMMA InitTokenInv == Init => TokenInv
<1> SUFFICES ASSUME Init PROVE TokenInv
  OBVIOUS
<1>1. TombstoneInv
  BY NoneApart DEF Init, TombstoneInv
<1>2. InstalledInv
  BY NoneApart DEF Init, InstalledInv
<1>3. OneHolder /\ HeldLive
  BY DEF Init, OneHolder, HeldLive, Holds, Holding, Idle
<1>4. WorkerInv
  BY DEF Init, WorkerInv, Resting
<1> QED BY <1>1, <1>2, <1>3, <1>4 DEF TokenInv

\* Every step keeps the invariant.
LEMMA NextTokenInv == TypeInv /\ TokenInv /\ [Next]_vars => TokenInv'
<1> SUFFICES ASSUME TypeInv, TokenInv, [Next]_vars PROVE TokenInv'
  OBVIOUS
<1>1. CASE \E r \in Requests, t \in Tokens : Granted(r, t)
  BY <1>1, GrantedTokenInv
<1>2. CASE ~\E r \in Requests, t \in Tokens : Granted(r, t)
  <2>1. HoldersShrink
    BY <1>2, RequestsShrink
  <2>2. CASE \E w \in Workers : ClaimTombstone(w) \/ Revoke(w)
    BY <2>1, <2>2, ClaimTokenInv, RevokeTokenInv
  <2>3. CASE ~\E w \in Workers : ClaimTombstone(w) \/ Revoke(w)
    <3>1. WorkersShrink
      BY <2>3, WorkersShrinkStep
    <3>2. ASSUME UNCHANGED <<token, installed>>, \A t \in Tokens : TombstoneKept(t) PROVE TokenInv'
      BY <2>1, <3>1, <3>2, KeptTokenInv
    <3>3. ASSUME UNCHANGED <<tombstone, token, installed>> PROVE TokenInv'
      BY <3>2, <3>3 DEF TombstoneKept
    <3>4. ASSUME NEW archive \in BOOLEAN, Replace(archive) PROVE TokenInv'
      BY <2>1, <3>1, <3>4, ReplaceTokenInv
    <3>5. ASSUME NEW r \in Requests, Commit(r) \/ Refused(r) \/ RevokeNow(r) PROVE TokenInv'
      BY <2>1, <3>1, <3>5, CommitTokenInv, RefusedTokenInv, RevokeNowTokenInv
    <3>6. ASSUME NEW r \in Requests, Protect(r) \/ ProtectFails(r) \/ Reprotect(r) PROVE TokenInv'
      <4>1. /\ request[r].phase \in InHandPhases /\ UNCHANGED <<token, installed>>
            /\ tombstone' \in {tombstone, Queued(tombstone, request[r].token, request[r].attempt)}
        BY <3>6 DEF Protect, ProtectFails, Reprotect, provider, InHandPhases
      <4> QED BY <3>2, <4>1, RecordedKept
    <3>7. ASSUME (\E w \in Workers : Record(w)) \/ (\E t \in Tokens : Lapse(t)) PROVE TokenInv'
      <4>1. UNCHANGED <<token, installed>>
        BY <3>7 DEF Record, Lapse, provider
      <4> QED BY <3>2, <3>7, <4>1, WrittenKept
    <3>8. ASSUME NEW r \in Requests,
                 \/ Load(r) \/ Replay(r) \/ CommitRefused(r) \/ FailAttempt(r) \/ RequestDies(r)
                 \/ PollPending(r) \/ PollRefused(r) \/ PollConfirmed(r)
                 \/ \E a \in Attempts : TakeOver(r, a) \/ BeginExchange(r, a) \/ ClaimPoll(r, a)
          PROVE  UNCHANGED <<tombstone, token, installed>>
      BY <3>8 DEF Load, Replay, CommitRefused, FailAttempt, RequestDies, PollPending, PollRefused,
                  PollConfirmed, TakeOver, BeginExchange, ClaimPoll, provider
    <3>9. ASSUME NEW w \in Workers, (\E t \in Tokens : Pick(w, t)) \/ WorkerDies(w)
          PROVE  UNCHANGED <<tombstone, token, installed>>
      BY <3>9 DEF Pick, WorkerDies, provider
    <3>10. ASSUME \/ \E a \in Attempts : StartAttempt(a) \/ Age(a) \/ PurgeAttempt(a)
                  \/ Reactivate \/ UNCHANGED vars
           PROVE  UNCHANGED <<tombstone, token, installed>>
      BY <3>10 DEF StartAttempt, Age, PurgeAttempt, Reactivate, vars, provider
    <3> QED
      BY <1>2, <2>3, <3>3, <3>4, <3>5, <3>6, <3>7, <3>8, <3>9, <3>10
         DEF Next, RequestStep, WorkerStep, TimePasses
  <2> QED BY <2>2, <2>3
<1> QED BY <1>1, <1>2

\* The credential a runtime signs in with is never revoked by a compensation: not
\* by the request that lost its answer, nor by a worker that picked its tombstone
\* before the commit, nor by a late answer of an earlier claim.
THEOREM InstalledStaysLive == Spec => []InstalledNeverRevoked
<1>1. TypeInv /\ TokenInv => InstalledNeverRevoked
  BY DEF TypeInv, TypeOK, TokenInv, InstalledInv, InstalledNeverRevoked
<1> QED BY InitTypeInv, InitTokenInv, NextTypeInv, NextTokenInv, <1>1, PTL DEF Spec

-----------------------------------------------------------------------------
(***************************************************************************)
(* No token is forgotten outside the documented windows.                   *)
(***************************************************************************)

\* A request lets go of a token in three steps only.
LEMMA InHandStays ==
  ASSUME TypeInv, [Next]_vars, ~\E r \in Requests : Protect(r) \/ Reprotect(r) \/ RequestDies(r)
  PROVE  \A t \in Tokens : InHand(t) \subseteq InHand(t)'
<1>0. request \in [Requests -> Request]
  BY DEF TypeInv, TypeOK
<1>1. ASSUME NEW r \in Requests, request[r].phase \notin InHandPhases,
             \A s \in Requests : s # r => request'[s] = request[s]
      PROVE  \A t \in Tokens : InHand(t) \subseteq InHand(t)'
  BY <1>1 DEF InHand, InHandPhases
<1>2. ASSUME NEW r \in Requests, NEW p \in InHandPhases, Continue(r, p)
      PROVE  \A t \in Tokens : InHand(t) \subseteq InHand(t)'
  <2>1. /\ request'[r].phase = p /\ request'[r].token = request[r].token
        /\ \A s \in Requests : s # r => request'[s] = request[s]
    BY <1>2, RequestMoves DEF InHandPhases, Phases
  <2> QED BY <1>2, <2>1 DEF InHand, InHandPhases
<1>3. CASE UNCHANGED request
  BY <1>3 DEF InHand
<1>4. ASSUME NEW r \in Requests, ProtectFails(r) \/ RevokeNow(r)
      PROVE  \A t \in Tokens : InHand(t) \subseteq InHand(t)'
  BY <1>2, <1>4 DEF ProtectFails, RevokeNow, InHandPhases
<1>5. ASSUME NEW r \in Requests,
             \/ Load(r) \/ (\E t \in Tokens : Granted(r, t)) \/ Refused(r) \/ Commit(r) \/ Replay(r)
             \/ CommitRefused(r) \/ FailAttempt(r) \/ PollPending(r) \/ PollRefused(r) \/ PollConfirmed(r)
      PROVE  \A t \in Tokens : InHand(t) \subseteq InHand(t)'
  <2>1. /\ request[r].phase \notin InHandPhases
        /\ Done(r) \/ (\E p, a, t : At(r, p, a, t)) \/ (\E p : Continue(r, p))
    BY <1>5 DEF Load, Granted, Refused, Commit, Replay, CommitRefused, FailAttempt, PollPending,
                PollRefused, PollConfirmed, InHandPhases
  <2> QED BY <1>1, <2>1, RequestMoves
<1>6. ASSUME NEW r \in Requests, NEW a \in Attempts, TakeOver(r, a) \/ BeginExchange(r, a) \/ ClaimPoll(r, a)
      PROVE  \A t \in Tokens : InHand(t) \subseteq InHand(t)'
  <2>1. /\ request[r].phase \notin InHandPhases
        /\ UNCHANGED request \/ \E p : At(r, p, a, None)
    BY <1>6 DEF TakeOver, BeginExchange, ClaimPoll, Idle, InHandPhases
  <2> QED BY <1>1, <1>3, <2>1, RequestMoves
<1>7. ASSUME \/ \E w \in Workers : WorkerStep(w) \/ WorkerDies(w)
             \/ \E a \in Attempts : StartAttempt(a)
             \/ \E archive \in BOOLEAN : Replace(archive)
             \/ TimePasses \/ Reactivate \/ UNCHANGED vars
      PROVE  UNCHANGED request
  BY <1>7 DEF WorkerStep, Pick, ClaimTombstone, Revoke, Record, WorkerDies, StartAttempt, Age,
              PurgeAttempt, Replace, TimePasses, Reactivate, Lapse, vars
<1> QED BY <1>3, <1>4, <1>5, <1>6, <1>7 DEF Next, RequestStep

Accounted(t) == Remembered(t) \/ InHand(t) # {} \/ t \in lost

\* A token that is still in hand, recorded, installed or just replaced is not forgotten.
LEMMA AccountedKept ==
  ASSUME TypeInv, TokenInv, [Next]_vars, NEW t \in Tokens, token'[t] = "live", Accounted(t),
         InHand(t) # {} => InHand(t)' # {}, lost \subseteq lost',
         \/ TombstoneReplaced(t)
         \/ TombstoneKept(t) /\ (t = installed => t = installed')
  PROVE  Accounted(t)'
<1>1. TokenInv'
  BY NextTokenInv
<1>2. tombstone'[t].status # "revoked"
  BY <1>1 DEF TokenInv, TombstoneInv
<1>3. Remembered(t) => Remembered(t)'
  BY <1>2 DEF Remembered, TombstoneReplaced, TombstoneKept, Open
<1> QED BY <1>3 DEF Accounted

\* A request that records its token leaves it with an open tombstone, unless it
\* is revoked.
LEMMA RecordedAccounted ==
  ASSUME TypeInv, TokenInv, [Next]_vars, NEW r \in Requests, request[r].phase \in InHandPhases,
         tombstone' = Queued(tombstone, request[r].token, request[r].attempt),
         NEW t \in Tokens, t = request[r].token, token'[t] = "live"
  PROVE  Remembered(t)'
<1>1. TokenInv' /\ tombstone \in [Tokens -> Tombstone] /\ request[r].attempt \in Attempts
  BY NextTokenInv DEF TypeInv, TypeOK, RequestInv, InHandPhases
<1>2. tombstone'[t].status # "revoked"
  BY <1>1 DEF TokenInv, TombstoneInv
<1>3. tombstone'[t].status \in Open
  <2>1. CASE tombstone[t].status \in Open \cup {"revoked"}
    BY <1>1, <1>2, <2>1, QueuedRow
  <2>2. CASE tombstone[t].status \notin Open \cup {"revoked"}
    BY <1>1, <2>2, QueuedRow DEF Open
  <2> QED BY <2>1, <2>2
<1> QED BY <1>3 DEF Remembered

\* Every step accounts for the live tokens.
LEMMA NextAccounted ==
  TypeInv /\ TokenInv /\ TokenAccounted /\ [Next]_vars => TokenAccounted'
<1> SUFFICES ASSUME TypeInv, TokenInv, TokenAccounted, [Next]_vars, NEW t \in Tokens, token'[t] = "live"
             PROVE  Accounted(t)'
  BY DEF TokenAccounted, Accounted
<1>0. /\ token \in [Tokens -> {"unissued", "live", "revoked"}] /\ tombstone \in [Tokens -> Tombstone]
      /\ installed \in Tokens \cup {None} /\ request \in [Requests -> Request]
      /\ token[t] = "live" => Accounted(t)
      /\ token[t] # "revoked"
  BY NextTokens DEF TypeInv, TypeOK, TokenAccounted, Accounted, TokenMoves
<1>1. ASSUME NEW r \in Requests, Granted(r, t) PROVE Accounted(t)'
  <2>1. /\ request[r].attempt \in Attempts /\ "protect" \in Phases
        /\ At(r, "protect", request[r].attempt, t)
    BY <1>1 DEF TypeInv, RequestInv, Phases, Granted
  <2>2. request'[r].phase = "protect" /\ request'[r].token = t
    BY <2>1, RequestMoves
  <2>3. r \in InHand(t)'
    BY <2>2 DEF InHand
  <2> QED BY <2>3 DEF Accounted
<1>2. ASSUME NEW r \in Requests, Refused(r), token[t] # "live" PROVE Accounted(t)'
  BY <1>0, <1>2 DEF Refused, Accounted
<1>3. ASSUME token[t] # "live", ~\E r \in Requests : Granted(r, t) \/ Refused(r) PROVE FALSE
  <2>1. \/ UNCHANGED token
        \/ \E u \in Tokens : u # t /\ token' = [token EXCEPT ![u] = "live"]
        \/ \E u : token' = [token EXCEPT ![u] = "revoked"]
    <3>1. ASSUME NEW r \in Requests, NEW u \in Tokens, Granted(r, u)
          PROVE  u # t /\ token' = [token EXCEPT ![u] = "live"]
      BY <1>3, <3>1 DEF Granted
    <3>2. ASSUME NEW r \in Requests, RevokeNow(r)
          PROVE  UNCHANGED token \/ \E u : token' = [token EXCEPT ![u] = "revoked"]
      BY <3>2 DEF RevokeNow
    <3>3. ASSUME NEW w \in Workers, Revoke(w)
          PROVE  UNCHANGED token \/ \E u : token' = [token EXCEPT ![u] = "revoked"]
      BY <3>3 DEF Revoke
    <3>4. ASSUME NEW r \in Requests,
                 \/ Load(r) \/ Protect(r) \/ ProtectFails(r) \/ Reprotect(r) \/ Commit(r) \/ Replay(r)
                 \/ CommitRefused(r) \/ FailAttempt(r) \/ PollPending(r) \/ PollRefused(r)
                 \/ PollConfirmed(r) \/ RequestDies(r)
                 \/ \E a \in Attempts : TakeOver(r, a) \/ BeginExchange(r, a) \/ ClaimPoll(r, a)
          PROVE  UNCHANGED token
      BY <3>4 DEF Load, Protect, ProtectFails, Reprotect, Commit, Replay, CommitRefused, FailAttempt,
                  PollPending, PollRefused, PollConfirmed, RequestDies, TakeOver, BeginExchange, ClaimPoll
    <3>5. ASSUME NEW w \in Workers,
                 (\E u \in Tokens : Pick(w, u)) \/ ClaimTombstone(w) \/ Record(w) \/ WorkerDies(w)
          PROVE  UNCHANGED token
      BY <3>5 DEF Pick, ClaimTombstone, Record, WorkerDies
    <3>6. ASSUME \/ \E a \in Attempts : StartAttempt(a) \/ Age(a) \/ PurgeAttempt(a)
                 \/ \E archive \in BOOLEAN : Replace(archive)
                 \/ Reactivate \/ (\E u \in Tokens : Lapse(u)) \/ UNCHANGED vars
          PROVE  UNCHANGED token
      BY <3>6 DEF StartAttempt, Age, PurgeAttempt, Replace, Reactivate, Lapse, vars
    <3> QED BY <1>3, <3>1, <3>2, <3>3, <3>4, <3>5, <3>6 DEF Next, RequestStep, WorkerStep, TimePasses
  <2> QED BY <1>0, <1>3, <2>1
<1>4. ASSUME token[t] = "live" PROVE Accounted(t)'
  <2>0. Accounted(t)
    BY <1>0, <1>4
  <2>1. lost \subseteq lost'
    BY DEF Next, RequestStep, Load, Granted, Refused, Protect, ProtectFails, RevokeNow, Reprotect, Commit,
           Replay, CommitRefused, FailAttempt, PollPending, PollRefused, PollConfirmed, RequestDies,
           TakeOver, BeginExchange, ClaimPoll, WorkerStep, Pick, ClaimTombstone, Revoke, Record, WorkerDies,
           StartAttempt, Replace, Reactivate, TimePasses, Age, PurgeAttempt, Lapse, vars
  <2>2. ASSUME NEW r \in Requests, RequestDies(r) PROVE Accounted(t)'
    <3>1. /\ UNCHANGED <<tombstone, installed>> /\ Done(r)
          /\ lost' = lost \cup {u \in Tokens : InHand(u) = {r} /\ token[u] = "live" /\ ~Remembered(u)}
      BY <2>2 DEF RequestDies, provider
    <3>2. Remembered(t) => Remembered(t)'
      BY <3>1 DEF Remembered
    <3>3. CASE InHand(t) = {r}
      BY <1>4, <2>0, <3>1, <3>2, <3>3 DEF Accounted
    <3>4. CASE InHand(t) # {r}
      <4>1. InHand(t) # {} => \E s \in InHand(t) : s # r
        BY <3>4
      <4>2. \A s \in Requests : s # r => request'[s] = request[s]
        BY <3>1, RequestMoves
      <4>3. InHand(t) # {} => InHand(t)' # {}
        BY <4>1, <4>2 DEF InHand
      <4> QED BY <2>0, <2>1, <3>2, <4>3 DEF Accounted
    <3> QED BY <3>3, <3>4
  <2>3. ASSUME NEW r \in Requests, Protect(r) \/ Reprotect(r) PROVE Accounted(t)'
    <3>1. /\ request[r].phase \in InHandPhases /\ UNCHANGED <<token, installed>>
          /\ tombstone' \in {tombstone, Queued(tombstone, request[r].token, request[r].attempt)}
          /\ \E p : Continue(r, p)
      BY <2>3 DEF Protect, Reprotect, provider, InHandPhases
    <3>2. CASE t # request[r].token
      <4>1. \A s \in Requests : s # r => request'[s] = request[s]
        BY <3>1, RequestMoves
      <4>2. InHand(t) \subseteq InHand(t)'
        BY <3>2, <4>1 DEF InHand
      <4>3. TombstoneKept(t)
        BY <3>1, RecordedKept
      <4> QED BY <2>0, <2>1, <3>1, <4>2, <4>3, AccountedKept
    <3>3. CASE t = request[r].token
      <4>1. CASE tombstone' = Queued(tombstone, request[r].token, request[r].attempt)
        BY <3>1, <3>3, <4>1, RecordedAccounted DEF Accounted
      <4>2. CASE lost' = IF token[t] = "live" /\ ~Remembered(t) THEN lost \cup {t} ELSE lost
        <5>1. CASE Remembered(t)
          <6>1. TombstoneKept(t)
            BY <3>1, RecordedKept
          <6>2. TokenInv'
            BY NextTokenInv
          <6>3. Remembered(t)'
            BY <3>1, <5>1, <6>1, <6>2 DEF Remembered, TombstoneKept, TokenInv, TombstoneInv, Open
          <6> QED BY <6>3 DEF Accounted
        <5>2. CASE ~Remembered(t)
          BY <1>4, <4>2, <5>2 DEF Accounted
        <5> QED BY <5>1, <5>2
      <4> QED BY <2>3, <3>3, <4>1, <4>2 DEF Protect, Reprotect
    <3> QED BY <3>2, <3>3
  <2>4. CASE ~\E r \in Requests : Protect(r) \/ Reprotect(r) \/ RequestDies(r)
    <3>1. InHand(t) # {} => InHand(t)' # {}
      BY <2>4, InHandStays
    <3>2. ASSUME \/ TombstoneReplaced(t)
                 \/ TombstoneKept(t) /\ (t = installed => t = installed')
          PROVE  Accounted(t)'
      BY <2>0, <2>1, <3>1, <3>2, AccountedKept
    <3>3. ASSUME NEW archive \in BOOLEAN, Replace(archive) PROVE Accounted(t)'
      <4>1. tombstone' = Retired(tombstone, None)
        BY <3>3 DEF Replace
      <4>2. CASE t = installed
        <5>1. tombstone[t].status = "cancelled" /\ tombstone' = Queued(tombstone, t, None)
          BY <1>0, <4>1, <4>2, RetiredRow, NoneApart DEF TokenInv, TombstoneInv
        <5>2. TombstoneReplaced(t)
          BY <1>0, <5>1, QueuedRow DEF TombstoneReplaced, Open
        <5> QED BY <3>2, <5>2
      <4>3. CASE t # installed
        BY <1>0, <3>2, <4>1, <4>3, RetiredRow DEF TombstoneKept
      <4> QED BY <4>2, <4>3
    <3>4. ASSUME NEW r \in Requests, Commit(r) PROVE Accounted(t)'
      <4> DEFINE ts == [tombstone EXCEPT ![request[r].token].status = "cancelled"]
      <4>1. /\ ts \in [Tokens -> Tombstone]
            /\ \A u \in Tokens : u # request[r].token => ts[u] = tombstone[u]
            /\ tombstone' = Retired(ts, request[r].token)
            /\ installed' = request[r].token
        BY <3>4, CommitRow DEF Commit
      <4> HIDE DEF ts
      <4>2. CASE t = request[r].token
        BY <4>1, <4>2 DEF Accounted, Remembered
      <4>3. CASE t # request[r].token /\ t = installed
        <5>1. ts[t].status = "cancelled" /\ tombstone' = Queued(ts, t, None)
          BY <4>1, <4>3, RetiredRow DEF TokenInv, TombstoneInv
        <5>2. TombstoneReplaced(t)
          BY <4>1, <5>1, QueuedRow DEF TombstoneReplaced, Open
        <5> QED BY <3>2, <5>2
      <4>4. CASE t # request[r].token /\ t # installed
        BY <1>0, <3>2, <4>1, <4>4, RetiredRow DEF TombstoneKept
      <4> QED BY <4>2, <4>3, <4>4
    <3>5. ASSUME NEW r \in Requests, ProtectFails(r) PROVE Accounted(t)'
      <4>1. /\ request[r].phase \in InHandPhases /\ UNCHANGED installed
            /\ tombstone' \in {tombstone, Queued(tombstone, request[r].token, request[r].attempt)}
        BY <3>5 DEF ProtectFails, provider, InHandPhases
      <4> QED BY <3>2, <4>1, RecordedKept
    <3>6. ASSUME (\E w \in Workers : Record(w)) \/ (\E u \in Tokens : Lapse(u)) PROVE Accounted(t)'
      <4>1. UNCHANGED installed
        BY <3>6 DEF Record, Lapse, provider
      <4> QED BY <3>2, <3>6, <4>1, WrittenKept
    <3>7. ASSUME NEW w \in Workers, ClaimTombstone(w) PROVE Accounted(t)'
      <4>1. UNCHANGED installed
        BY <3>7 DEF ClaimTombstone, provider
      <4>2. TombstoneKept(t)
        BY <3>7, ClaimRow DEF SameAttempt, TombstoneKept, Open
      <4> QED BY <3>2, <4>1, <4>2
    <3>8. ASSUME UNCHANGED <<tombstone, installed>> PROVE Accounted(t)'
      BY <3>2, <3>8 DEF TombstoneKept
    <3>9. ASSUME NEW r \in Requests,
                 \/ Load(r) \/ (\E u \in Tokens : Granted(r, u)) \/ Refused(r) \/ RevokeNow(r) \/ Replay(r)
                 \/ CommitRefused(r) \/ FailAttempt(r) \/ PollPending(r) \/ PollRefused(r) \/ PollConfirmed(r)
                 \/ \E a \in Attempts : TakeOver(r, a) \/ BeginExchange(r, a) \/ ClaimPoll(r, a)
          PROVE  UNCHANGED <<tombstone, installed>>
      BY <3>9 DEF Load, Granted, Refused, RevokeNow, Replay, CommitRefused, FailAttempt, PollPending,
                  PollRefused, PollConfirmed, TakeOver, BeginExchange, ClaimPoll, provider
    <3>10. ASSUME NEW w \in Workers, (\E u \in Tokens : Pick(w, u)) \/ Revoke(w) \/ WorkerDies(w)
           PROVE  UNCHANGED <<tombstone, installed>>
      BY <3>10 DEF Pick, Revoke, WorkerDies, provider
    <3>11. ASSUME \/ \E a \in Attempts : StartAttempt(a) \/ Age(a) \/ PurgeAttempt(a)
                  \/ Reactivate \/ UNCHANGED vars
           PROVE  UNCHANGED <<tombstone, installed>>
      BY <3>11 DEF StartAttempt, Age, PurgeAttempt, Reactivate, vars, provider
    <3> QED
      BY <2>4, <3>3, <3>4, <3>5, <3>6, <3>7, <3>8, <3>9, <3>10, <3>11
         DEF Next, RequestStep, WorkerStep, TimePasses
  <2> QED BY <2>2, <2>3, <2>4
<1> QED BY <1>1, <1>2, <1>3, <1>4

\* "Compensation must survive": whatever fails or dies, a live token is installed,
\* recorded for revocation or in the hands of a request that has yet to record it,
\* but for those lost in the windows the code calls unavoidable.
THEOREM TokensAccounted == Spec => []TokenAccounted
<1>1. Init => TokenAccounted
  BY DEF Init, TokenAccounted
<1> QED
  BY InitTypeInv, InitTokenInv, NextTypeInv, NextTokenInv, NextAccounted, <1>1, PTL DEF Spec
=============================================================================
