-------------------------- MODULE ChannelDelivery --------------------------
(***************************************************************************)
(* The outbox of the channel service (backend/app/services/channels.py and *)
(* channel_delivery_worker.py): rows of channel_deliveries, the requests   *)
(* that enqueue them, the workers that claim and send them, the reaper of  *)
(* expired leases and the requests that archive the link or the account a  *)
(* row belongs to.                                                         *)
(*                                                                         *)
(* One account with one link and one binding.  A database transaction that *)
(* holds locks over an await is split at the points where another one can  *)
(* see or block it; what it has not committed is not visible to the        *)
(* others.  The provider is external: it accepts a message or not, and its *)
(* answer may be lost.  Time is not counted: a pending row may be due and  *)
(* a lease may lapse at any moment, so a worker that is still alive can    *)
(* lose its lease too (a stalled process).                                 *)
(***************************************************************************)
EXTENDS Integers, FiniteSets

CONSTANTS Deliveries,   \* the messages that will be sent
          Linked,       \* those sent by an agent link through its binding
          Queued,       \* those that are in the outbox from the start
          Workers,      \* concurrent ChannelDeliveryWorkers
          MaxAttempts,  \* max_attempts of a row (5)
          MaxControls,  \* bound: transactions of the control plane
          MaxFaults     \* bound: crashes, cancellations and lost answers

ASSUME ChannelDeliveryAssumption ==
  /\ Linked \subseteq Deliveries /\ Queued \subseteq Deliveries
  /\ IsFiniteSet(Deliveries) /\ IsFiniteSet(Workers)
  /\ MaxAttempts \in Nat \ {0} /\ MaxControls \in Nat /\ MaxFaults \in Nat

NoToken == 0
\* uuid4: a new token differs from every token some row or worker holds.
Tokens == 1..(Cardinality(Deliveries) + Cardinality(Workers) + 1)

VARIABLES
  account, link, binding,  \* "active" or "archived", as committed
  authority,  \* the link's runtime still has strict v2 authority
  request,    \* per message: "none", "read" (binding found, not inserted), "done"
  row,        \* the committed row of channel_deliveries
  delivered,  \* messages with delivered_at set
  work,       \* what each worker is doing
  control,    \* the control plane transaction in progress
  controls,   \* bound: transactions of the control plane so far
  faults,     \* bound: faults so far
  sends,      \* history: times each message was handed to the provider
  accepted    \* history: messages the provider accepted at least once

plane == <<account, link, binding, authority>>
history == <<sends, accepted>>
vars == <<plane, request, row, delivered, work, control, controls, faults, history>>

Open == {"pending", "in_progress"}
Terminal == {"succeeded", "failed"}
Row == [status : Open \cup Terminal \cup {"none"}, attempts : 0..MaxAttempts,
        token : Tokens \cup {NoToken}, lapsed : BOOLEAN]
Outcomes == {"sent", "retry", "rejected"}
Idle == [phase |-> "idle"]
Work == {Idle} \cup [phase : {"claimed", "sending"}, d : Deliveries, token : Tokens]
               \cup [phase : {"answered"}, d : Deliveries, token : Tokens, outcome : Outcomes]
NoControl == [kind |-> "none"]
Control == {NoControl} \cup [kind : {"rotate"}]
             \cup [kind : {"link", "account"}, seen : [Deliveries -> {"no", "unlocked", "locked"}]]

TypeOK ==
  /\ account \in {"active", "archived"} /\ link \in {"active", "archived"}
  /\ binding \in {"active", "archived"} /\ authority \in BOOLEAN
  /\ request \in [Deliveries -> {"none", "read", "done"}]
  /\ row \in [Deliveries -> Row]
  /\ delivered \subseteq Deliveries
  /\ work \in [Workers -> Work]
  /\ control \in Control
  /\ controls \in 0..MaxControls /\ faults \in 0..MaxFaults
  /\ sends \in [Deliveries -> Nat] /\ accepted \subseteq Deliveries

Init ==
  /\ account = "active" /\ link = "active" /\ binding = "active" /\ authority = TRUE
  /\ request = [d \in Deliveries |-> IF d \in Queued THEN "done" ELSE "none"]
  /\ row = [d \in Deliveries |->
              [status |-> IF d \in Queued THEN "pending" ELSE "none",
               attempts |-> 0, token |-> NoToken, lapsed |-> FALSE]]
  /\ delivered = {}
  /\ work = [w \in Workers |-> Idle]
  /\ control = NoControl /\ controls = 0 /\ faults = 0
  /\ sends = [d \in Deliveries |-> 0] /\ accepted = {}

-----------------------------------------------------------------------------
(***************************************************************************)
(* Row locks held over more than one step.                                 *)
(***************************************************************************)
\* The claim's transaction holds the row until prepare commits it.
RowLocked(d) == \E w \in Workers : work[w].phase = "claimed" /\ work[w].d = d

\* Archiving and token rotation hold the link row until they commit.
LinkLocked == control # NoControl

OwnsByToken(w, d) == row[d].token = work[w].token   \* Mutant: the status is not compared.

\* _owned_delivery_for_update.
Owns(w, d) == row[d].status = "in_progress" /\ row[d].token = work[w].token

Released(r, status) == [r EXCEPT !.status = status, !.token = NoToken, !.lapsed = FALSE]

\* _channel_delivery_retry_status and _schedule_delivery_retry: attempts are
\* used up, or the row is pending again.
RetriedForever(r) == Released(r, "pending")   \* Mutant: max_attempts is not looked at.

Retried(r) == Released(r, IF r.attempts >= MaxAttempts THEN "failed" ELSE "pending")

Settle(w) == work' = [work EXCEPT ![w] = Idle]

-----------------------------------------------------------------------------
(***************************************************************************)
(* enqueue_channel_outbound_message.  POST /messages finds the account and *)
(* the binding without a lock and inserts later; the insert waits for a    *)
(* transaction that locked the link FOR UPDATE (foreign key), it does not  *)
(* look at the link again.                                                 *)
(***************************************************************************)
FindBinding(d) ==
  /\ request[d] = "none"
  /\ account = "active"
  /\ d \in Linked => binding = "active"
  /\ request' = [request EXCEPT ![d] = "read"]
  /\ UNCHANGED <<plane, row, delivered, work, control, controls, faults, history>>

Insert(d) ==
  /\ request' = [request EXCEPT ![d] = "done"]
  /\ row' = [row EXCEPT ![d].status = "pending"]
  /\ UNCHANGED <<plane, delivered, work, control, controls, faults, history>>

EnqueueOutbound(d) ==
  /\ request[d] = "read"
  /\ d \in Linked => control.kind \notin {"rotate", "link"}
  /\ Insert(d)

\* The WhatsApp bridge takes share locks on account, link and binding first
\* (lock_active_binding_authority) and enqueues under them.
EnqueueUnderLock(d) ==
  /\ request[d] = "none"
  /\ d \in Linked
  /\ ~LinkLocked
  /\ account = "active" /\ link = "active" /\ binding = "active"
  /\ Insert(d)

-----------------------------------------------------------------------------
(***************************************************************************)
(* run_once: claim_next_channel_delivery, then deliver_channel_delivery.   *)
(***************************************************************************)
Claimable(d) ==
  /\ row[d].status = "pending"
  /\ account = "active"
  /\ d \in Linked => link = "active"

FreshToken == CHOOSE t \in Tokens : /\ \A d \in Deliveries : row[d].token # t
                                    /\ \A w \in Workers : work[w] # Idle => work[w].token # t

ClaimAnyOpen(w, d) ==   \* Mutant: rows in progress are claimed too.
  /\ work[w] = Idle
  /\ row[d].status \in Open /\ account = "active" /\ (d \in Linked => link = "active")
  /\ ~RowLocked(d)
  /\ work' = [work EXCEPT ![w] = [phase |-> "claimed", d |-> d, token |-> FreshToken]]
  /\ UNCHANGED <<plane, request, row, delivered, control, controls, faults, history>>

Claim(w, d) ==
  /\ work[w] = Idle
  /\ Claimable(d)
  /\ ~RowLocked(d)
  /\ work' = [work EXCEPT ![w] = [phase |-> "claimed", d |-> d, token |-> FreshToken]]
  /\ UNCHANGED <<plane, request, row, delivered, control, controls, faults, history>>

\* 400 or 409: the account, the link, its authority or the binding is gone.
Refused(d) ==
  \/ account = "archived"
  \/ d \in Linked /\ (link = "archived" \/ ~authority \/ binding = "archived")

NeverContended(d) == FALSE   \* Mutant: the link is read without its lock.

\* The link row is skipped because it is locked, and is still active: 503.
Contended(d) == d \in Linked /\ account = "active" /\ link = "active" /\ LinkLocked

\* _prepare_channel_delivery_send and the commit of claim and checks.
\* Contention gives the attempt back; nothing was handed to the provider.
Prepare(w) ==
  /\ work[w].phase = "claimed"
  /\ LET d == work[w].d
         r == [row[d] EXCEPT !.attempts = @ + 1]
     IN  \/ /\ Contended(d)
            /\ row' = [row EXCEPT ![d] = Released(row[d], "pending")]
            /\ Settle(w)
            /\ UNCHANGED sends
         \/ /\ ~Contended(d) /\ Refused(d)
            /\ row' = [row EXCEPT ![d] = Released(r, "failed")]
            /\ Settle(w)
            /\ UNCHANGED sends
         \/ /\ ~Contended(d) /\ ~Refused(d)
            /\ row' = [row EXCEPT ![d] =
                         [r EXCEPT !.status = "in_progress", !.token = work[w].token,
                                   !.lapsed = FALSE]]
            /\ work' = [work EXCEPT ![w].phase = "sending"]
            /\ sends' = [sends EXCEPT ![d] = @ + 1]
  /\ UNCHANGED <<plane, request, delivered, control, controls, faults, accepted>>

\* send_provider_outbound_payload returned or raised.
Answer(w, outcome) ==
  work' = [work EXCEPT ![w] = [phase |-> "answered", d |-> work[w].d, token |-> work[w].token,
                               outcome |-> outcome]]

SendOptimistic(w) ==   \* Mutant: a send that timed out counts as sent.
  /\ work[w].phase = "sending"
  /\ Answer(w, "sent")
  /\ accepted' \in {accepted, accepted \cup {work[w].d}}
  /\ UNCHANGED <<plane, request, row, delivered, control, controls, faults, sends>>

Send(w) ==
  /\ work[w].phase = "sending"
  /\ \/ Answer(w, "sent") /\ accepted' = accepted \cup {work[w].d} /\ UNCHANGED faults
     \/ Answer(w, "rejected") /\ UNCHANGED <<accepted, faults>>
     \/ Answer(w, "retry") /\ UNCHANGED <<accepted, faults>>   \* 429, 5xx, unreachable
     \/ /\ faults < MaxFaults   \* accepted, and the answer is lost or late
        /\ faults' = faults + 1
        /\ Answer(w, "retry")
        /\ accepted' = accepted \cup {work[w].d}
  /\ UNCHANGED <<plane, request, row, delivered, control, controls, sends>>

\* _finalize_channel_delivery: the outcome of a stale attempt is ignored.
Finalize(w) ==
  /\ work[w].phase = "answered"
  /\ LET d == work[w].d
     IN  \/ /\ ~Owns(w, d)
            /\ UNCHANGED <<row, delivered>>
         \/ /\ Owns(w, d) /\ work[w].outcome = "sent"
            /\ row' = [row EXCEPT ![d] = Released(row[d], "succeeded")]
            /\ delivered' = delivered \cup {d}
         \/ /\ Owns(w, d) /\ work[w].outcome = "rejected"
            /\ row' = [row EXCEPT ![d] = Released(row[d], "failed")]
            /\ UNCHANGED delivered
         \/ /\ Owns(w, d) /\ work[w].outcome = "retry"
            /\ row' = [row EXCEPT ![d] = Retried(row[d])]
            /\ UNCHANGED delivered
  /\ Settle(w)
  /\ UNCHANGED <<plane, request, control, controls, faults, history>>

\* Shutdown cancels the send (the provider may have accepted it already);
\* _release_cancelled_channel_delivery releases the lease, or fails to.
CancelSend(w) ==
  /\ work[w].phase = "sending"
  /\ faults < MaxFaults /\ faults' = faults + 1
  /\ accepted' \in {accepted, accepted \cup {work[w].d}}
  /\ LET d == work[w].d
     IN  \/ Owns(w, d) /\ row' = [row EXCEPT ![d] = Retried(row[d])]
         \/ UNCHANGED row
  /\ Settle(w)
  /\ UNCHANGED <<plane, request, delivered, control, controls, sends>>

\* The process dies or a commit fails: an open transaction rolls back, a
\* committed lease stays behind.
Crash(w) ==
  /\ work[w] # Idle
  /\ faults < MaxFaults /\ faults' = faults + 1
  /\ accepted' \in IF work[w].phase = "sending" THEN {accepted, accepted \cup {work[w].d}}
                                                ELSE {accepted}
  /\ Settle(w)
  /\ UNCHANGED <<plane, request, row, delivered, control, controls, sends>>

LeaseLapses(d) ==
  /\ row[d].status = "in_progress" /\ ~row[d].lapsed
  /\ row' = [row EXCEPT ![d].lapsed = TRUE]
  /\ UNCHANGED <<plane, request, delivered, work, control, controls, faults, history>>

ReapUnlocked(d) ==   \* Mutant: only rows without a lease are reaped.
  /\ row[d].status = "in_progress" /\ row[d].token = NoToken
  /\ row' = [row EXCEPT ![d] = Retried(row[d])]
  /\ UNCHANGED <<plane, request, delivered, work, control, controls, faults, history>>

\* reap_expired_channel_delivery_leases, which skips locked rows.
Reap(d) ==
  /\ row[d].status = "in_progress" /\ row[d].lapsed
  /\ ~RowLocked(d)
  /\ row' = [row EXCEPT ![d] = Retried(row[d])]
  /\ UNCHANGED <<plane, request, delivered, work, control, controls, faults, history>>

-----------------------------------------------------------------------------
(***************************************************************************)
(* The control plane.  Archiving locks the link, archives link, bindings   *)
(* (and account) and reads the open deliveries without locking them; the   *)
(* rows are written at the end, each waiting for its lock, and all of it   *)
(* is committed together.  A row read unlocked keeps the lease written     *)
(* since, because only the changed columns are updated.                    *)
(***************************************************************************)
OpenRowsOf(kind) ==
  [d \in Deliveries |->
     IF row[d].status \notin Open \/ (kind = "link" /\ d \notin Linked) THEN "no"
     ELSE IF row[d].token = NoToken THEN "unlocked" ELSE "locked"]

BeginControl(kind) ==
  /\ controls < MaxControls /\ controls' = controls + 1
  /\ control = NoControl
  /\ IF kind = "account" THEN account = "active" ELSE link = "active"
  /\ control' = IF kind = "rotate" THEN [kind |-> kind]
                                   ELSE [kind |-> kind, seen |-> OpenRowsOf(kind)]
  /\ UNCHANGED <<plane, request, row, delivered, work, faults, history>>

FailDelivery(r, seen) ==
  [r EXCEPT !.status = "failed", !.lapsed = FALSE,
            !.token = IF seen = "locked" THEN NoToken ELSE @]

\* archive_bot_agent_link and archive_channel_account, from flush to commit.
CommitArchive ==
  /\ control.kind \in {"link", "account"}
  /\ \A d \in Deliveries : control.seen[d] # "no" => ~RowLocked(d)
  /\ row' = [d \in Deliveries |-> IF control.seen[d] = "no" THEN row[d]
                                  ELSE FailDelivery(row[d], control.seen[d])]
  /\ link' = "archived" /\ binding' = "archived"
  /\ account' = IF control.kind = "account" THEN "archived" ELSE account
  /\ control' = NoControl
  /\ UNCHANGED <<authority, request, delivered, work, controls, faults, history>>

\* rotate_bot_agent_link_token commits, or any control request fails.
EndControl ==
  /\ control # NoControl
  /\ control' = NoControl
  /\ UNCHANGED <<plane, request, row, delivered, work, controls, faults, history>>

\* /clawdi_unpair archives the binding; deliveries are left alone.
Unpair ==
  /\ binding = "active"
  /\ control.kind \notin {"link", "account"}
  /\ controls < MaxControls /\ controls' = controls + 1
  /\ binding' = "archived"
  /\ UNCHANGED <<account, link, authority, request, row, delivered, work, control, faults,
                 history>>

\* The hosted runtime behind the link is retired or fenced.
LoseAuthority ==
  /\ authority
  /\ controls < MaxControls /\ controls' = controls + 1
  /\ authority' = FALSE
  /\ UNCHANGED <<account, link, binding, request, row, delivered, work, control, faults,
                 history>>

WorkerStep(w) == (\E d \in Deliveries : Claim(w, d)) \/ Prepare(w) \/ Send(w) \/ Finalize(w)

Next ==
  \/ \E d \in Deliveries : FindBinding(d)
  \/ \E d \in Deliveries : EnqueueOutbound(d)
  \/ \E d \in Deliveries : EnqueueUnderLock(d)
  \/ \E w \in Workers, d \in Deliveries : Claim(w, d)
  \/ \E w \in Workers : Prepare(w)
  \/ \E w \in Workers : Send(w)
  \/ \E w \in Workers : Finalize(w)
  \/ \E w \in Workers : CancelSend(w)
  \/ \E w \in Workers : Crash(w)
  \/ \E d \in Deliveries : LeaseLapses(d)
  \/ \E d \in Deliveries : Reap(d)
  \/ \E kind \in {"rotate", "link", "account"} : BeginControl(kind)
  \/ CommitArchive
  \/ EndControl
  \/ Unpair
  \/ LoseAuthority

Spec == Init /\ [][Next]_vars

\* run_forever polls and reaps as long as the process lives and is restarted
\* when it dies; a database transaction ends.
Fairness ==
  /\ \A w \in Workers : WF_vars(WorkerStep(w))
  /\ \A d \in Deliveries : WF_vars(LeaseLapses(d)) /\ WF_vars(Reap(d))
  /\ WF_vars(CommitArchive \/ EndControl)

FairSpec == Spec /\ Fairness

-----------------------------------------------------------------------------
(***************************************************************************)
(* Properties.                                                             *)
(***************************************************************************)

\* A message is handed to the provider at most max_attempts times, over
\* crashes, lapsed leases, late outcomes and refunded attempts.
SendsBounded == \A d \in Deliveries : sends[d] <= MaxAttempts

\* A message is reported as sent only if the provider accepted it.
SucceededWasAccepted ==
  \A d \in Deliveries : row[d].status = "succeeded" \/ d \in delivered => d \in accepted

\* A delivery that has ended is not taken up again: no late outcome, reaper or
\* release of a stale attempt reopens it.
NeverReopened ==
  [][\A d \in Deliveries : row[d].status \in Terminal => row'[d].status \in Terminal]_vars

\* Once the archive of a link is committed no delivery of the link is in
\* progress: prepare and archive meet at the link's lock.
ArchivedLinkFenced ==
  link = "archived" => \A d \in Linked : row[d].status # "in_progress"

\* Every delivery ends, unless its link or account is archived under it.
EveryDeliverySettles ==
  \A d \in Deliveries :
    row[d].status \in Open ~> \/ row[d].status \in Terminal
                              \/ account = "archived"
                              \/ d \in Linked /\ link = "archived"

\* What the lifecycle test asserts of an archived link: none of its
\* deliveries is left open.
ArchiveEndsDeliveries ==
  link = "archived" => \A d \in Linked : row[d].status \notin Open
=============================================================================
