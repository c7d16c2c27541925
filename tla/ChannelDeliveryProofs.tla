------------------------ MODULE ChannelDeliveryProofs ------------------------
(***************************************************************************)
(* Theorems about ChannelDelivery, for any number of deliveries, workers,  *)
(* attempts, control plane transactions and faults: its type invariant,    *)
(* the bound on what is handed to the provider, that what is reported as   *)
(* sent was accepted, that an ended delivery stays ended, and that no      *)
(* delivery of an archived link is in progress.                            *)
(***************************************************************************)
EXTENDS ChannelDelivery, FiniteSetTheorems, TLAPS

-----------------------------------------------------------------------------
(***************************************************************************)
(* Rows, workers and tokens.                                               *)
(***************************************************************************)

Statuses == Open \cup Terminal \cup {"none"}

\* What becomes of a row that is released: its attempts are kept.
LEMMA ReleasedRow ==
  ASSUME NEW r \in Row, NEW s \in Statuses
  PROVE  /\ Released(r, s) \in Row
         /\ Released(r, s).status = s /\ Released(r, s).attempts = r.attempts
BY DEF Released, Row, Statuses, NoToken

\* A retry ends the delivery or leaves an attempt.
LEMMA RetriedRow ==
  ASSUME NEW r \in Row
  PROVE  /\ Retried(r) \in Row /\ Retried(r).attempts = r.attempts
         /\ \/ Retried(r).status = "failed"
            \/ Retried(r).status = "pending" /\ r.attempts < MaxAttempts
<1>1. CASE r.attempts >= MaxAttempts
  <2>1. Retried(r) = Released(r, "failed")
    BY <1>1 DEF Retried
  <2> QED BY <2>1, ReleasedRow DEF Statuses, Open, Terminal
<1>2. CASE ~(r.attempts >= MaxAttempts)
  <2>1. Retried(r) = Released(r, "pending")
    BY <1>2 DEF Retried
  <2>2. r.attempts < MaxAttempts
    BY <1>2, ChannelDeliveryAssumption DEF Row
  <2> QED BY <2>1, <2>2, ReleasedRow DEF Statuses, Open, Terminal
<1> QED BY <1>1, <1>2

\* The archive fails a row and keeps its attempts.
LEMMA FailedRow ==
  ASSUME NEW r \in Row, NEW seen
  PROVE  /\ FailDelivery(r, seen) \in Row
         /\ FailDelivery(r, seen).status = "failed" /\ FailDelivery(r, seen).attempts = r.attempts
BY DEF FailDelivery, Row, Open, Terminal, NoToken

\* What a worker holds while it is not idle.
LEMMA WorkFields ==
  ASSUME NEW k \in Work
  PROVE  /\ k.phase \in {"idle", "claimed", "sending", "answered"}
         /\ k = Idle <=> k.phase = "idle"
         /\ k # Idle => k.d \in Deliveries /\ k.token \in Tokens
         /\ k.phase = "answered" => k.outcome \in Outcomes
BY DEF Work, Idle

\* There are more tokens than rows and workers, so that a claim finds one no
\* row and no worker holds (uuid4).
LEMMA FreshTokenExists ==
  ASSUME TypeOK
  PROVE  /\ FreshToken \in Tokens
         /\ \A d \in Deliveries : row[d].token # FreshToken
         /\ \A w \in Workers : work[w] # Idle => work[w].token # FreshToken
<1> DEFINE ofRow == [d \in Deliveries |-> row[d].token]
           ofWork == [w \in Workers |-> IF work[w] = Idle THEN NoToken ELSE work[w].token]
           R == {ofRow[d] : d \in Deliveries}
           W == {ofWork[w] : w \in Workers}
<1>1. /\ IsFiniteSet(Deliveries) /\ IsFiniteSet(Workers)
      /\ Cardinality(Deliveries) \in Nat /\ Cardinality(Workers) \in Nat
  BY ChannelDeliveryAssumption, FS_CardinalityType
<1>2. IsFiniteSet(R) /\ Cardinality(R) <= Cardinality(Deliveries)
  <2>1. ofRow \in Surjection(Deliveries, R)
    BY DEF Surjection
  <2> QED BY <1>1, <2>1, FS_Surjection
<1>3. IsFiniteSet(W) /\ Cardinality(W) <= Cardinality(Workers)
  <2>1. ofWork \in Surjection(Workers, W)
    BY DEF Surjection
  <2> QED BY <1>1, <2>1, FS_Surjection
<1>4. /\ IsFiniteSet(R \cup W)
      /\ Cardinality(R \cup W) <= Cardinality(Deliveries) + Cardinality(Workers)
  <2>1. /\ Cardinality(R) \in Nat /\ Cardinality(W) \in Nat
        /\ Cardinality(R \cap W) \in Nat
    BY <1>2, <1>3, FS_CardinalityType, FS_Intersection
  <2>2. /\ IsFiniteSet(R \cup W)
        /\ Cardinality(R \cup W) = Cardinality(R) + Cardinality(W) - Cardinality(R \cap W)
    BY <1>2, <1>3, FS_Union
  <2> HIDE DEF R, W
  <2> QED BY <1>1, <1>2, <1>3, <2>1, <2>2
<1>5. IsFiniteSet(Tokens) /\ Cardinality(Tokens) = Cardinality(Deliveries) + Cardinality(Workers) + 1
  <2> DEFINE n == Cardinality(Deliveries) + Cardinality(Workers) + 1
  <2>1. n \in Nat /\ n >= 1
    BY <1>1
  <2>2. Tokens = 1..n
    BY DEF Tokens
  <2> HIDE DEF n
  <2>3. IsFiniteSet(1..n) /\ Cardinality(1..n) = IF 1 > n THEN 0 ELSE n - 1 + 1
    BY <2>1, FS_Interval
  <2>4. Cardinality(1..n) = n
    BY <2>1, <2>3
  <2> QED BY <2>2, <2>3, <2>4 DEF n
<1>6. \E t \in Tokens : t \notin R \cup W
  <2> HIDE DEF R, W
  <2> SUFFICES ASSUME Tokens \subseteq R \cup W PROVE FALSE
    OBVIOUS
  <2>1. Cardinality(Tokens) <= Cardinality(R \cup W)
    BY <1>4, FS_Subset
  <2>2. Cardinality(R \cup W) \in Nat
    BY <1>4, FS_CardinalityType
  <2> QED BY <1>1, <1>4, <1>5, <2>1, <2>2
<1>7. \E t \in Tokens : /\ \A d \in Deliveries : row[d].token # t
                        /\ \A w \in Workers : work[w] # Idle => work[w].token # t
  BY <1>6
<1> QED BY <1>7 DEF FreshToken

-----------------------------------------------------------------------------
(***************************************************************************)
(* Types.  The number of attempts stays in its range because a pending row *)
(* has an attempt left, and a row is claimed only while it is pending and  *)
(* by one worker: everything else that writes a row looks for a row in     *)
(* progress, or waits for the claim's lock.                                *)
(***************************************************************************)

RowInv ==
  \A d \in Deliveries :
    /\ row[d].status = "none" => row[d].attempts = 0
    /\ row[d].status = "pending" => row[d].attempts < MaxAttempts
    /\ request[d] # "done" => row[d].status = "none"

ClaimInv ==
  \A w \in Workers : work[w].phase = "claimed" =>
    /\ row[work[w].d].status = "pending"
    /\ \A v \in Workers : work[v].phase = "claimed" /\ work[v].d = work[w].d => v = w

\* A row an archive writes exists: it was open when the archive read it.
SeenExists ==
  control.kind \in {"link", "account"} =>
    \A d \in Deliveries : control.seen[d] # "no" => row[d].status # "none"

DeliveryInv == TypeOK /\ RowInv /\ ClaimInv /\ SeenExists

\* No row ceases to exist.
LEMMA SeenKept ==
  ASSUME DeliveryInv, UNCHANGED control,
         \A d \in Deliveries : row[d].status # "none" => row'[d].status # "none"
  PROVE  SeenExists'
BY DEF DeliveryInv, SeenExists

\* The claims that are left are on rows that were not touched.
LEMMA ClaimsShrink ==
  ASSUME DeliveryInv,
         \A w \in Workers : work'[w].phase = "claimed" =>
           work'[w] = work[w] /\ row'[work[w].d].status = "pending"
  PROVE  ClaimInv'
BY DEF DeliveryInv, ClaimInv

\* One row that exists is written.
LEMMA OneRow ==
  ASSUME DeliveryInv, NEW d \in Deliveries, NEW r \in Row, row' = [row EXCEPT ![d] = r],
         UNCHANGED request, row[d].status # "none", r.status # "none",
         r.status = "pending" => r.attempts < MaxAttempts, UNCHANGED control
  PROVE  row' \in [Deliveries -> Row] /\ RowInv' /\ SeenExists'
<1>1. row \in [Deliveries -> Row]
  BY DEF DeliveryInv, TypeOK
<1>2. row' \in [Deliveries -> Row]
  BY <1>1
<1>3. \A e \in Deliveries : row'[e] = IF e = d THEN r ELSE row[e]
  BY <1>1
<1>4. RowInv'
  BY <1>3 DEF DeliveryInv, RowInv
<1>5. SeenExists'
  BY <1>3, SeenKept
<1> QED BY <1>2, <1>4, <1>5

\* A row in progress is not claimed, so that writing it leaves every claim.
LEMMA InProgressRow ==
  ASSUME DeliveryInv, NEW d \in Deliveries, NEW r \in Row, row' = [row EXCEPT ![d] = r],
         row[d].status = "in_progress",
         \A w \in Workers : work'[w].phase = "claimed" => work'[w] = work[w]
  PROVE  ClaimInv'
<1>1. row \in [Deliveries -> Row] /\ work \in [Workers -> Work]
  BY DEF DeliveryInv, TypeOK
<1>2. ASSUME NEW w \in Workers, work'[w].phase = "claimed"
      PROVE  work'[w] = work[w] /\ row'[work[w].d].status = "pending"
  <2>1. work'[w] = work[w] /\ work[w].phase = "claimed"
    BY <1>2
  <2>2. work[w].d \in Deliveries /\ row[work[w].d].status = "pending"
    BY <1>1, <2>1, WorkFields DEF DeliveryInv, ClaimInv, Idle
  <2>3. work[w].d # d
    BY <2>2
  <2> QED BY <1>1, <2>1, <2>2, <2>3
<1> QED BY <1>2, ClaimsShrink

\* A worker that has finished is idle, the others go on.
LEMMA SettleWork ==
  ASSUME DeliveryInv, NEW w \in Workers, Settle(w)
  PROVE  /\ work' \in [Workers -> Work]
         /\ work'[w].phase = "idle"
         /\ \A v \in Workers : v # w => work'[v] = work[v]
         /\ \A v \in Workers : work'[v].phase # "idle" => v # w /\ work'[v] = work[v]
<1>1. work \in [Workers -> Work] /\ Idle \in Work /\ Idle.phase = "idle"
  BY DEF DeliveryInv, TypeOK, Work, Idle
<1> QED BY <1>1 DEF Settle

\* The outbox starts well-formed.
LEMMA InitDeliveryInv == Init => DeliveryInv
<1> SUFFICES ASSUME Init PROVE DeliveryInv
  OBVIOUS
<1>1. row \in [Deliveries -> Row]
  BY ChannelDeliveryAssumption DEF Init, Row, Open, NoToken
<1>2. work \in [Workers -> Work] /\ control \in Control
  BY DEF Init, Work, Control
<1>3. TypeOK
  BY <1>1, <1>2, ChannelDeliveryAssumption DEF Init, TypeOK
<1>4. RowInv
  BY ChannelDeliveryAssumption DEF Init, RowInv
<1>5. ClaimInv
  BY DEF Init, ClaimInv, Idle
<1>6. SeenExists
  BY DEF Init, SeenExists, NoControl
<1> QED BY <1>3, <1>4, <1>5, <1>6 DEF DeliveryInv

\* Enqueueing.
LEMMA EnqueueDeliveryInv ==
  ASSUME DeliveryInv, NEW d \in Deliveries,
         FindBinding(d) \/ EnqueueOutbound(d) \/ EnqueueUnderLock(d)
  PROVE  DeliveryInv'
<1>0. row \in [Deliveries -> Row] /\ work \in [Workers -> Work]
      /\ request \in [Deliveries -> {"none", "read", "done"}]
  BY DEF DeliveryInv, TypeOK
<1>1. CASE FindBinding(d)
  <2>1. UNCHANGED <<row, work>> /\ request' = [request EXCEPT ![d] = "read"] /\ request[d] = "none"
    BY <1>1 DEF FindBinding
  <2>2. TypeOK'
    BY <1>1, <2>1 DEF FindBinding, DeliveryInv, TypeOK, plane, history
  <2>3. RowInv'
    BY <1>0, <2>1 DEF DeliveryInv, RowInv
  <2>4. ClaimInv'
    BY <2>1 DEF DeliveryInv, ClaimInv
  <2>5. SeenExists'
    BY <1>1, <2>1, SeenKept DEF FindBinding
  <2> QED BY <2>2, <2>3, <2>4, <2>5 DEF DeliveryInv
<1>2. CASE Insert(d) /\ request[d] # "done"
  <2>1. /\ UNCHANGED work /\ request' = [request EXCEPT ![d] = "done"]
        /\ row' = [row EXCEPT ![d].status = "pending"]
    BY <1>2 DEF Insert
  <2>2. row[d].status = "none" /\ row[d].attempts = 0
    BY <1>2 DEF DeliveryInv, RowInv
  <2>3. \A e \in Deliveries : row'[e] = IF e = d THEN [row[d] EXCEPT !.status = "pending"] ELSE row[e]
    BY <1>0, <2>1
  <2>4. /\ row'[d].status = "pending" /\ row'[d].attempts = 0 /\ row'[d] \in Row
    BY <1>0, <2>2, <2>3 DEF Row, Open
  <2>5. row' \in [Deliveries -> Row]
    BY <1>0, <2>1, <2>3, <2>4
  <2>6. TypeOK'
    BY <1>2, <2>1, <2>5 DEF Insert, DeliveryInv, TypeOK, plane, history
  <2>7. RowInv'
    BY <1>0, <2>1, <2>3, <2>4, ChannelDeliveryAssumption DEF DeliveryInv, RowInv
  <2>8. ASSUME NEW w \in Workers, work'[w].phase = "claimed"
        PROVE  work'[w] = work[w] /\ row'[work[w].d].status = "pending"
    <3>1. work[w].d \in Deliveries /\ row[work[w].d].status = "pending"
      BY <1>0, <2>1, <2>8, WorkFields DEF DeliveryInv, ClaimInv, Idle
    <3> QED BY <2>1, <2>3, <2>4, <3>1
  <2>9. ClaimInv'
    BY <2>8, ClaimsShrink
  <2>10. SeenExists'
    BY <1>2, <2>3, <2>4, SeenKept DEF Insert
  <2> QED BY <2>6, <2>7, <2>9, <2>10 DEF DeliveryInv
<1> QED BY <1>1, <1>2 DEF EnqueueOutbound, EnqueueUnderLock

\* A claim takes a pending row nobody has claimed.
LEMMA ClaimDeliveryInv ==
  ASSUME DeliveryInv, NEW w \in Workers, NEW d \in Deliveries, Claim(w, d)
  PROVE  DeliveryInv'
<1> DEFINE k == [phase |-> "claimed", d |-> d, token |-> FreshToken]
<1>0. row \in [Deliveries -> Row] /\ work \in [Workers -> Work]
  BY DEF DeliveryInv, TypeOK
<1>1. UNCHANGED <<row, request>> /\ work' = [work EXCEPT ![w] = k]
  BY DEF Claim
<1>2. k \in Work
  <2>1. FreshToken \in Tokens
    BY FreshTokenExists DEF DeliveryInv
  <2> QED BY <2>1 DEF Work
<1>3. work' \in [Workers -> Work]
  BY <1>0, <1>1, <1>2
<1>4. TypeOK'
  BY <1>1, <1>3 DEF Claim, DeliveryInv, TypeOK, plane, history
<1>5. RowInv'
  BY <1>1 DEF DeliveryInv, RowInv
<1>6. row[d].status = "pending" /\ \A v \in Workers : ~(work[v].phase = "claimed" /\ work[v].d = d)
  BY DEF Claim, Claimable, RowLocked
<1>7. work'[w].d = d /\ work'[w].phase = "claimed" /\ \A v \in Workers : v # w => work'[v] = work[v]
  BY <1>0, <1>1
<1>8. ClaimInv'
  BY <1>1, <1>6, <1>7 DEF DeliveryInv, ClaimInv
<1>9. SeenExists'
  BY <1>1, SeenKept DEF Claim
<1> QED BY <1>4, <1>5, <1>8, <1>9 DEF DeliveryInv

\* What prepare does to the row it has claimed: the attempt is given back, or
\* used up, and only then handed to the provider.
Given(r, w) == r.status = "pending" /\ r.attempts = row[work[w].d].attempts

Used(r, w) == r.attempts = row[work[w].d].attempts + 1

\* What prepare makes of the row of its delivery.
LEMMA PrepareRow ==
  ASSUME DeliveryInv, NEW w \in Workers, Prepare(w)
  PROVE  /\ work[w].d \in Deliveries /\ row[work[w].d].status = "pending"
         /\ row[work[w].d].attempts < MaxAttempts
         /\ work' \in [Workers -> Work] /\ work'[w].phase \in {"idle", "sending"}
         /\ \A v \in Workers : v # w => work'[v] = work[v]
         /\ \E r \in Row :
              /\ row' = [row EXCEPT ![work[w].d] = r]
              /\ \/ Given(r, w) /\ UNCHANGED sends
                 \/ r.status = "failed" /\ Used(r, w) /\ UNCHANGED sends
                 \/ /\ ~Contended(work[w].d) /\ ~Refused(work[w].d)
                    /\ r.status = "in_progress" /\ Used(r, w)
                    /\ sends' = [sends EXCEPT ![work[w].d] = @ + 1]
<1> DEFINE d == work[w].d
           r0 == row[d]
           r1 == [r0 EXCEPT !.attempts = @ + 1]
<1>0. /\ row \in [Deliveries -> Row] /\ work \in [Workers -> Work]
      /\ work[w].phase = "claimed"
  BY DEF DeliveryInv, TypeOK, Prepare
<1>1. d \in Deliveries /\ r0 \in Row /\ work[w].token \in Tokens
  BY <1>0, WorkFields DEF Idle
<1>2. r0.status = "pending" /\ r0.attempts < MaxAttempts
  BY <1>0, <1>1 DEF DeliveryInv, ClaimInv, RowInv
<1>3. r1 \in Row /\ r1.attempts = r0.attempts + 1
  BY <1>1, <1>2, ChannelDeliveryAssumption DEF Row
<1>4. CASE /\ row' = [row EXCEPT ![d] = Released(r0, "pending")] /\ Settle(w) /\ UNCHANGED sends
  <2>1. /\ Released(r0, "pending") \in Row /\ Released(r0, "pending").status = "pending"
        /\ Released(r0, "pending").attempts = r0.attempts
    BY <1>1, ReleasedRow DEF Statuses, Open
  <2> QED BY <1>1, <1>2, <1>4, <2>1, SettleWork DEF Given
<1>5. CASE /\ row' = [row EXCEPT ![d] = Released(r1, "failed")] /\ Settle(w) /\ UNCHANGED sends
  <2> HIDE DEF r1
  <2>1. /\ Released(r1, "failed") \in Row /\ Released(r1, "failed").status = "failed"
        /\ Released(r1, "failed").attempts = r0.attempts + 1
    BY <1>3, ReleasedRow DEF Statuses, Terminal
  <2> QED BY <1>1, <1>2, <1>5, <2>1, SettleWork DEF Used
<1>6. CASE /\ ~Contended(d) /\ ~Refused(d)
           /\ row' = [row EXCEPT ![d] =
                        [r1 EXCEPT !.status = "in_progress", !.token = work[w].token,
                                   !.lapsed = FALSE]]
           /\ work' = [work EXCEPT ![w].phase = "sending"]
           /\ sends' = [sends EXCEPT ![d] = @ + 1]
  <2> DEFINE r2 == [r1 EXCEPT !.status = "in_progress", !.token = work[w].token, !.lapsed = FALSE]
  <2>1. r2 \in Row /\ r2.status = "in_progress" /\ r2.attempts = r0.attempts + 1
    <3> HIDE DEF r1
    <3> QED BY <1>1, <1>3 DEF Row, Open
  <2>2. work[w] \in [phase : {"claimed", "sending"}, d : Deliveries, token : Tokens]
    BY <1>0 DEF Work, Idle
  <2>3. [work[w] EXCEPT !.phase = "sending"] \in Work
    BY <2>2 DEF Work
  <2>4. work' = [work EXCEPT ![w] = [work[w] EXCEPT !.phase = "sending"]]
    BY <1>0, <1>6
  <2>5. [work[w] EXCEPT !.phase = "sending"].phase = "sending"
    BY <2>2
  <2>6. /\ work' \in [Workers -> Work] /\ work'[w].phase = "sending"
        /\ \A v \in Workers : v # w => work'[v] = work[v]
    BY <1>0, <2>3, <2>4, <2>5
  <2> HIDE DEF r2
  <2>7. row' = [row EXCEPT ![d] = r2]
    BY <1>6 DEF r2
  <2> QED BY <1>1, <1>2, <1>6, <2>1, <2>6, <2>7 DEF Used
<1> QED BY <1>4, <1>5, <1>6 DEF Prepare

\* prepare keeps the invariant, whichever way it ends.
LEMMA PrepareDeliveryInv ==
  ASSUME DeliveryInv, NEW w \in Workers, Prepare(w)
  PROVE  DeliveryInv'
<1> DEFINE d == work[w].d
<1>0. row \in [Deliveries -> Row] /\ work \in [Workers -> Work] /\ sends \in [Deliveries -> Nat]
  BY DEF DeliveryInv, TypeOK
<1>1. /\ d \in Deliveries /\ row[d].status = "pending" /\ row[d].attempts < MaxAttempts
      /\ work' \in [Workers -> Work] /\ work'[w].phase # "claimed" /\ work[w].phase = "claimed"
      /\ \A v \in Workers : v # w => work'[v] = work[v]
  BY PrepareRow DEF Prepare
<1>2. PICK r \in Row :
        /\ row' = [row EXCEPT ![d] = r]
        /\ \/ Given(r, w) /\ UNCHANGED sends
           \/ r.status = "failed" /\ Used(r, w) /\ UNCHANGED sends
           \/ /\ r.status = "in_progress" /\ Used(r, w)
              /\ sends' = [sends EXCEPT ![d] = @ + 1]
  BY PrepareRow
<1>3. r.status \in {"pending", "failed", "in_progress"} /\ (r.status = "pending" => r.attempts < MaxAttempts)
  BY <1>1, <1>2 DEF Given
<1>4. UNCHANGED <<plane, request, delivered, control, controls, faults, accepted>>
  BY DEF Prepare
<1>5. row' \in [Deliveries -> Row] /\ RowInv' /\ SeenExists'
  BY <1>1, <1>2, <1>3, <1>4, OneRow
<1>6. sends' \in [Deliveries -> Nat]
  BY <1>0, <1>2
<1>7. TypeOK'
  BY <1>1, <1>4, <1>5, <1>6 DEF DeliveryInv, TypeOK, plane
<1>8. ASSUME NEW v \in Workers, work'[v].phase = "claimed"
      PROVE  work'[v] = work[v] /\ row'[work[v].d].status = "pending"
  <2>1. v # w /\ work'[v] = work[v] /\ work[v].phase = "claimed"
    BY <1>1, <1>8
  <2>2. work[v].d # d /\ work[v].d \in Deliveries /\ row[work[v].d].status = "pending"
    BY <1>0, <1>1, <2>1, WorkFields DEF DeliveryInv, ClaimInv, Idle
  <2> QED BY <1>0, <1>2, <2>1, <2>2
<1>9. ClaimInv'
  BY <1>8, ClaimsShrink
<1> QED BY <1>5, <1>7, <1>9 DEF DeliveryInv

\* An answer replaces the send it is of.
LEMMA AnswerWork ==
  ASSUME DeliveryInv, NEW w \in Workers, work[w].phase = "sending", NEW o \in Outcomes, Answer(w, o)
  PROVE  /\ work' \in [Workers -> Work]
         /\ work'[w].phase = "answered" /\ work'[w].d = work[w].d /\ work'[w].outcome = o
         /\ \A v \in Workers : v # w => work'[v] = work[v]
         /\ work[w].d \in Deliveries
<1> DEFINE k == [phase |-> "answered", d |-> work[w].d, token |-> work[w].token, outcome |-> o]
<1>0. work \in [Workers -> Work]
  BY DEF DeliveryInv, TypeOK
<1>1. work[w].d \in Deliveries /\ work[w].token \in Tokens
  BY <1>0, WorkFields DEF Idle
<1>2. k \in Work
  BY <1>1 DEF Work
<1>3. work' = [work EXCEPT ![w] = k]
  BY DEF Answer
<1> QED BY <1>0, <1>1, <1>2, <1>3

\* The provider call and its answer keep the invariant.
LEMMA SendDeliveryInv ==
  ASSUME DeliveryInv, NEW w \in Workers, Send(w)
  PROVE  DeliveryInv'
<1>0. /\ work[w].phase = "sending" /\ faults \in 0..MaxFaults /\ accepted \subseteq Deliveries
      /\ MaxFaults \in Nat
      /\ UNCHANGED <<plane, request, row, delivered, control, controls, sends>>
  BY ChannelDeliveryAssumption DEF Send, DeliveryInv, TypeOK
<1>1. PICK o \in Outcomes : Answer(w, o)
  BY DEF Send, Outcomes
<1>2. /\ work' \in [Workers -> Work] /\ work'[w].phase = "answered"
      /\ \A v \in Workers : v # w => work'[v] = work[v]
      /\ work[w].d \in Deliveries
  BY <1>0, <1>1, AnswerWork
<1>3. faults' \in 0..MaxFaults /\ accepted' \subseteq Deliveries
  BY <1>0, <1>2 DEF Send
<1>4. TypeOK'
  BY <1>0, <1>2, <1>3 DEF DeliveryInv, TypeOK, plane
<1>5. RowInv'
  BY <1>0 DEF DeliveryInv, RowInv
<1>6. ClaimInv'
  BY <1>0, <1>2 DEF DeliveryInv, ClaimInv
<1>7. SeenExists'
  BY <1>0, SeenKept
<1> QED BY <1>4, <1>5, <1>6, <1>7 DEF DeliveryInv

\* What the end of an attempt does to a row: nothing, or it ends or releases a
\* lease the row is still under, keeping the attempts.
Ended(r, r0) ==
  /\ r0.status = "in_progress" /\ r.attempts = r0.attempts
  /\ \/ r.status \in Terminal
     \/ r.status = "pending" /\ r.attempts < MaxAttempts

\* What finalize, a cancelled send or a dying worker makes of the row.
LEMMA OutcomeRow ==
  ASSUME DeliveryInv, NEW w \in Workers, Finalize(w) \/ CancelSend(w) \/ Crash(w)
  PROVE  /\ work[w].d \in Deliveries /\ work[w].phase # "idle" /\ Settle(w)
         /\ \/ UNCHANGED row
            \/ \E r \in Row :
                 /\ row' = [row EXCEPT ![work[w].d] = r] /\ Ended(r, row[work[w].d])
                 /\ r.status = "succeeded" => work[w].phase = "answered" /\ work[w].outcome = "sent"
<1> DEFINE d == work[w].d
           r0 == row[d]
<1>0. row \in [Deliveries -> Row] /\ work \in [Workers -> Work]
  BY DEF DeliveryInv, TypeOK
<1>1. work[w].phase # "idle" /\ work[w] # Idle /\ Settle(w)
  BY <1>0, WorkFields DEF Finalize, CancelSend, Crash
<1>2. d \in Deliveries /\ r0 \in Row
  BY <1>0, <1>1, WorkFields
<1>3. CASE Owns(w, d) /\ row' = [row EXCEPT ![d] = Retried(r0)]
  <2>1. /\ Retried(r0) \in Row /\ Ended(Retried(r0), r0) /\ Retried(r0).status # "succeeded"
    BY <1>2, <1>3, RetriedRow DEF Owns, Ended, Terminal
  <2> QED BY <1>1, <1>2, <1>3, <2>1
<1>4. CASE Owns(w, d) /\ row' = [row EXCEPT ![d] = Released(r0, "failed")]
  <2>1. /\ Released(r0, "failed") \in Row /\ Released(r0, "failed").status = "failed"
        /\ Released(r0, "failed").attempts = r0.attempts
    BY <1>2, ReleasedRow DEF Statuses, Terminal
  <2> QED BY <1>1, <1>2, <1>4, <2>1 DEF Owns, Ended, Terminal
<1>5. CASE /\ Owns(w, d) /\ row' = [row EXCEPT ![d] = Released(r0, "succeeded")]
           /\ work[w].phase = "answered" /\ work[w].outcome = "sent"
  <2>1. /\ Released(r0, "succeeded") \in Row /\ Released(r0, "succeeded").status = "succeeded"
        /\ Released(r0, "succeeded").attempts = r0.attempts
    BY <1>2, ReleasedRow DEF Statuses, Terminal
  <2> QED BY <1>1, <1>2, <1>5, <2>1 DEF Owns, Ended, Terminal
<1> QED BY <1>1, <1>2, <1>3, <1>4, <1>5 DEF Finalize, CancelSend, Crash

\* finalize keeps the invariant, also when its lease was lost, and so do a cancelled
\* send and a dying worker.
LEMMA OutcomeDeliveryInv ==
  ASSUME DeliveryInv, NEW w \in Workers, Finalize(w) \/ CancelSend(w) \/ Crash(w)
  PROVE  DeliveryInv'
<1> DEFINE d == work[w].d
<1>0. /\ faults \in 0..MaxFaults /\ accepted \subseteq Deliveries /\ delivered \subseteq Deliveries
      /\ MaxFaults \in Nat
      /\ UNCHANGED <<plane, request, control, controls, sends>>
  BY ChannelDeliveryAssumption DEF Finalize, CancelSend, Crash, DeliveryInv, TypeOK, history
<1>1. d \in Deliveries /\ Settle(w)
  BY OutcomeRow
<1>2. /\ work' \in [Workers -> Work]
      /\ \A v \in Workers : work'[v].phase = "claimed" => work'[v] = work[v]
  BY <1>1, SettleWork
<1>3. faults' \in 0..MaxFaults /\ accepted' \subseteq Deliveries /\ delivered' \subseteq Deliveries
  <2>1. CASE Finalize(w)
    BY <1>0, <1>1, <2>1 DEF Finalize, history
  <2>2. CASE CancelSend(w)
    BY <1>0, <1>1, <2>2 DEF CancelSend
  <2>3. CASE Crash(w)
    BY <1>0, <1>1, <2>3 DEF Crash
  <2> QED BY <2>1, <2>2, <2>3
<1>4. CASE UNCHANGED row
  <2>1. TypeOK'
    BY <1>0, <1>2, <1>3, <1>4 DEF DeliveryInv, TypeOK, plane
  <2>2. RowInv'
    BY <1>0, <1>4 DEF DeliveryInv, RowInv
  <2>3. ClaimInv'
    BY <1>2, <1>4, ClaimsShrink DEF DeliveryInv, ClaimInv
  <2>4. SeenExists'
    BY <1>0, <1>4, SeenKept
  <2> QED BY <2>1, <2>2, <2>3, <2>4 DEF DeliveryInv
<1>5. ASSUME NEW r \in Row, row' = [row EXCEPT ![d] = r], Ended(r, row[d]) PROVE DeliveryInv'
  <2>1. /\ row[d].status = "in_progress" /\ r.status # "none"
        /\ r.status = "pending" => r.attempts < MaxAttempts
    BY <1>5 DEF Ended, Terminal
  <2>2. row' \in [Deliveries -> Row] /\ RowInv' /\ SeenExists'
    BY <1>0, <1>1, <1>5, <2>1, OneRow
  <2>3. ClaimInv'
    BY <1>1, <1>2, <1>5, <2>1, InProgressRow
  <2>4. TypeOK'
    BY <1>0, <1>2, <1>3, <2>2 DEF DeliveryInv, TypeOK, plane
  <2> QED BY <2>2, <2>3, <2>4 DEF DeliveryInv
<1> QED BY <1>4, <1>5, OutcomeRow

\* Leases lapse and are reaped.
LEMMA LeaseRow ==
  ASSUME DeliveryInv, NEW d \in Deliveries, LeaseLapses(d) \/ Reap(d)
  PROVE  /\ row[d].status = "in_progress"
         /\ \E r \in Row : /\ row' = [row EXCEPT ![d] = r]
                           /\ (LeaseLapses(d) /\ r.status = "in_progress" /\ r.attempts = row[d].attempts)
                              \/ (Ended(r, row[d]) /\ r.status # "succeeded")
<1>0. row \in [Deliveries -> Row]
  BY DEF DeliveryInv, TypeOK
<1>1. CASE LeaseLapses(d)
  <2>1. row' = [row EXCEPT ![d] = [row[d] EXCEPT !.lapsed = TRUE]] /\ row[d].status = "in_progress"
    BY <1>0, <1>1 DEF LeaseLapses
  <2>2. /\ [row[d] EXCEPT !.lapsed = TRUE] \in Row
        /\ [row[d] EXCEPT !.lapsed = TRUE].status = "in_progress"
        /\ [row[d] EXCEPT !.lapsed = TRUE].attempts = row[d].attempts
    BY <1>0, <2>1 DEF Row
  <2> QED BY <1>1, <2>1, <2>2
<1>2. CASE Reap(d)
  <2>1. row' = [row EXCEPT ![d] = Retried(row[d])] /\ row[d].status = "in_progress"
    BY <1>2 DEF Reap
  <2>2. Retried(row[d]) \in Row /\ Ended(Retried(row[d]), row[d]) /\ Retried(row[d]).status # "succeeded"
    BY <1>0, <2>1, RetriedRow DEF Ended, Terminal
  <2> QED BY <2>1, <2>2
<1> QED BY <1>1, <1>2

\* Lapsed leases and the reaper keep the invariant.
LEMMA LeaseDeliveryInv ==
  ASSUME DeliveryInv, NEW d \in Deliveries, LeaseLapses(d) \/ Reap(d)
  PROVE  DeliveryInv'
<1>0. UNCHANGED <<plane, request, delivered, work, control, controls, faults, sends, accepted>>
  BY DEF LeaseLapses, Reap, history
<1>1. PICK r \in Row :
        /\ row' = [row EXCEPT ![d] = r] /\ row[d].status = "in_progress"
        /\ r.status = "in_progress" \/ Ended(r, row[d])
  BY LeaseRow
<1>2. r.status # "none" /\ (r.status = "pending" => r.attempts < MaxAttempts)
  BY <1>1 DEF Ended, Terminal
<1>3. row' \in [Deliveries -> Row] /\ RowInv' /\ SeenExists'
  BY <1>0, <1>1, <1>2, OneRow
<1>4. ClaimInv'
  BY <1>0, <1>1, InProgressRow
<1>5. TypeOK'
  BY <1>0, <1>3 DEF DeliveryInv, TypeOK, plane
<1> QED BY <1>3, <1>4, <1>5 DEF DeliveryInv

\* The archive writes the rows it has read, none of which is claimed.
LEMMA ArchiveRows ==
  ASSUME DeliveryInv, CommitArchive, NEW d \in Deliveries
  PROVE  /\ row'[d] \in Row /\ row'[d].attempts = row[d].attempts
         /\ \/ control.seen[d] = "no" /\ row'[d] = row[d]
            \/ /\ control.seen[d] # "no" /\ row'[d].status = "failed"
               /\ \A w \in Workers : ~(work[w].phase = "claimed" /\ work[w].d = d)
<1>1. row[d] \in Row
  BY DEF DeliveryInv, TypeOK
<1>2. row'[d] = IF control.seen[d] = "no" THEN row[d] ELSE FailDelivery(row[d], control.seen[d])
  BY DEF CommitArchive
<1>3. /\ FailDelivery(row[d], control.seen[d]) \in Row
      /\ FailDelivery(row[d], control.seen[d]).status = "failed"
      /\ FailDelivery(row[d], control.seen[d]).attempts = row[d].attempts
  BY <1>1, FailedRow
<1>4. control.seen[d] # "no" => ~RowLocked(d)
  BY DEF CommitArchive
<1> QED BY <1>1, <1>2, <1>3, <1>4 DEF RowLocked

\* What the control plane holds.
LEMMA ControlFields ==
  ASSUME control \in Control, control.kind \in {"link", "account"}
  PROVE  control \in [kind : {"link", "account"}, seen : [Deliveries -> {"no", "unlocked", "locked"}]]
BY DEF Control, NoControl

\* The control plane keeps the invariant.
LEMMA ControlDeliveryInv ==
  ASSUME DeliveryInv,
         \/ \E kind \in {"rotate", "link", "account"} : BeginControl(kind)
         \/ CommitArchive \/ EndControl \/ Unpair \/ LoseAuthority
  PROVE  DeliveryInv'
<1>0. /\ row \in [Deliveries -> Row] /\ work \in [Workers -> Work] /\ control \in Control
      /\ controls \in 0..MaxControls /\ MaxControls \in Nat
      /\ UNCHANGED <<request, work, delivered, faults, sends, accepted>>
  BY ChannelDeliveryAssumption
     DEF DeliveryInv, TypeOK, BeginControl, CommitArchive, EndControl, Unpair, LoseAuthority, history
<1>1. ASSUME NEW kind \in {"rotate", "link", "account"}, BeginControl(kind) PROVE DeliveryInv'
  <2>1. UNCHANGED <<plane, row>> /\ controls < MaxControls /\ controls' = controls + 1
    BY <1>1 DEF BeginControl
  <2>2. OpenRowsOf(kind) \in [Deliveries -> {"no", "unlocked", "locked"}]
    BY DEF OpenRowsOf
  <2>3. CASE kind = "rotate"
    <3>1. control' = [kind |-> kind]
      BY <1>1, <2>3 DEF BeginControl
    <3>2. control' \in Control /\ control'.kind = "rotate"
      BY <2>3, <3>1 DEF Control
    <3>3. TypeOK'
      BY <1>0, <2>1, <3>2 DEF DeliveryInv, TypeOK, plane
    <3> QED BY <1>0, <2>1, <3>2, <3>3 DEF DeliveryInv, RowInv, ClaimInv, SeenExists
  <2>4. CASE kind # "rotate"
    <3>1. control' = [kind |-> kind, seen |-> OpenRowsOf(kind)]
      BY <1>1, <2>4 DEF BeginControl
    <3>2. control' \in Control
      BY <2>2, <2>4, <3>1 DEF Control
    <3>3. TypeOK'
      BY <1>0, <2>1, <3>2 DEF DeliveryInv, TypeOK, plane
    <3>4. \A d \in Deliveries : OpenRowsOf(kind)[d] # "no" => row[d].status # "none"
      BY DEF OpenRowsOf, Open
    <3>5. SeenExists'
      BY <2>1, <3>1, <3>4 DEF SeenExists
    <3> QED BY <1>0, <2>1, <3>3, <3>5 DEF DeliveryInv, RowInv, ClaimInv
  <2> QED BY <2>3, <2>4
<1>2. CASE CommitArchive
  <2>1. /\ control' = NoControl /\ UNCHANGED <<controls, authority>>
        /\ link' = "archived" /\ binding' = "archived"
        /\ account' \in {"archived", account} /\ control.kind \in {"link", "account"}
    BY <1>2 DEF CommitArchive
  <2>2. row' \in [Deliveries -> Row]
    BY <1>2, ArchiveRows DEF CommitArchive
  <2>3. TypeOK'
    BY <1>0, <2>1, <2>2 DEF DeliveryInv, TypeOK, Control
  <2>4. RowInv'
    BY <1>0, <1>2, <2>1, ArchiveRows DEF DeliveryInv, RowInv, SeenExists
  <2>5. ASSUME NEW w \in Workers, work'[w].phase = "claimed"
        PROVE  work'[w] = work[w] /\ row'[work[w].d].status = "pending"
    <3>1. work[w].phase = "claimed" /\ work[w].d \in Deliveries /\ row[work[w].d].status = "pending"
      BY <1>0, <2>5, WorkFields DEF DeliveryInv, ClaimInv, Idle
    <3>2. row'[work[w].d] = row[work[w].d]
      BY <1>2, <3>1, ArchiveRows
    <3> QED BY <1>0, <3>1, <3>2
  <2>6. ClaimInv'
    BY <2>5, ClaimsShrink
  <2>7. SeenExists'
    BY <2>1 DEF SeenExists, NoControl
  <2> QED BY <2>3, <2>4, <2>6, <2>7 DEF DeliveryInv
<1>3. CASE EndControl
  <2>1. UNCHANGED <<plane, row, controls>> /\ control' = NoControl
    BY <1>3 DEF EndControl
  <2>2. TypeOK'
    BY <1>0, <2>1 DEF DeliveryInv, TypeOK, plane, Control
  <2> QED BY <1>0, <2>1, <2>2 DEF DeliveryInv, RowInv, ClaimInv, SeenExists, NoControl
<1>4. CASE Unpair \/ LoseAuthority
  <2>1. /\ UNCHANGED <<row, control, account, link>> /\ controls < MaxControls /\ controls' = controls + 1
        /\ binding' \in {binding, "archived"} /\ authority' \in BOOLEAN
    BY <1>4 DEF Unpair, LoseAuthority, DeliveryInv, TypeOK
  <2>2. TypeOK'
    BY <1>0, <2>1 DEF DeliveryInv, TypeOK
  <2> QED BY <1>0, <2>1, <2>2 DEF DeliveryInv, RowInv, ClaimInv, SeenExists
<1> QED BY <1>1, <1>2, <1>3, <1>4

\* Every step keeps the types, the attempts left and the claims.
LEMMA NextDeliveryInv == DeliveryInv /\ [Next]_vars => DeliveryInv'
<1> SUFFICES ASSUME DeliveryInv, [Next]_vars PROVE DeliveryInv'
  OBVIOUS
<1>1. CASE UNCHANGED vars
  BY <1>1 DEF vars, plane, history, DeliveryInv, TypeOK, RowInv, ClaimInv, SeenExists
<1> QED
  BY <1>1, EnqueueDeliveryInv, ClaimDeliveryInv, PrepareDeliveryInv, SendDeliveryInv,
     OutcomeDeliveryInv, LeaseDeliveryInv, ControlDeliveryInv DEF Next

\* Every reachable state has its type: in particular no row ever counts more
\* than max_attempts attempts, and every claim finds an unused token.
THEOREM DeliveryTypeCorrect == Spec => []TypeOK
<1>1. DeliveryInv => TypeOK
  BY DEF DeliveryInv
<1> QED BY InitDeliveryInv, NextDeliveryInv, <1>1, PTL DEF Spec

-----------------------------------------------------------------------------
(***************************************************************************)
(* What a step does to a row.  Only prepare counts an attempt and begins a *)
(* send; nothing takes up a row that has ended.                            *)
(***************************************************************************)

\* A step other than prepare.
Quiet(d) ==
  /\ row'[d].attempts = row[d].attempts
  /\ row[d].status \in Terminal => row'[d].status \in Terminal
  /\ row'[d].status = "in_progress" => row[d].status = "in_progress"
  /\ row'[d].status = "succeeded" =>
       \/ row[d].status = "succeeded"
       \/ \E w \in Workers : /\ work[w].phase = "answered" /\ work[w].d = d
                             /\ work[w].outcome = "sent"

\* What the end of an attempt and the archive may do to a row is quiet.
LEMMA EndedQuiet ==
  ASSUME DeliveryInv, NEW d \in Deliveries, NEW r \in Row, row' = [row EXCEPT ![d] = r],
         Ended(r, row[d]),
         r.status = "succeeded" =>
           \E w \in Workers : work[w].phase = "answered" /\ work[w].d = d /\ work[w].outcome = "sent"
  PROVE  \A e \in Deliveries : Quiet(e)
<1>1. row \in [Deliveries -> Row]
  BY DEF DeliveryInv, TypeOK
<1>2. row'[d] = r /\ \A e \in Deliveries : e # d => row'[e] = row[e]
  BY <1>1
<1>3. Quiet(d)
  BY <1>2 DEF Ended, Quiet, Terminal
<1> QED BY <1>2, <1>3 DEF Quiet

\* No step but prepare counts an attempt or a send, begins a send, or reopens a
\* delivery.
LEMMA QuietSteps ==
  ASSUME DeliveryInv, [Next]_vars, ~(\E w \in Workers : Prepare(w))
  PROVE  UNCHANGED sends /\ \A d \in Deliveries : Quiet(d)
<1>0. row \in [Deliveries -> Row]
  BY DEF DeliveryInv, TypeOK
<1>1. ASSUME UNCHANGED <<row, sends>> PROVE UNCHANGED sends /\ \A d \in Deliveries : Quiet(d)
  BY <1>1 DEF Quiet
<1>2. ASSUME NEW d \in Deliveries, EnqueueOutbound(d) \/ EnqueueUnderLock(d)
      PROVE  UNCHANGED sends /\ \A e \in Deliveries : Quiet(e)
  <2>1. row' = [row EXCEPT ![d].status = "pending"] /\ UNCHANGED sends /\ request[d] # "done"
    BY <1>2 DEF EnqueueOutbound, EnqueueUnderLock, Insert, history
  <2>2. row[d].status = "none"
    BY <2>1 DEF DeliveryInv, RowInv
  <2>3. \A e \in Deliveries : row'[e] = IF e = d THEN [row[d] EXCEPT !.status = "pending"] ELSE row[e]
    BY <1>0, <2>1
  <2>4. row'[d].status = "pending" /\ row'[d].attempts = row[d].attempts
    BY <1>0, <2>3 DEF Row
  <2> QED BY <2>1, <2>2, <2>3, <2>4 DEF Quiet, Terminal
<1>3. ASSUME NEW w \in Workers, Finalize(w) \/ CancelSend(w) \/ Crash(w)
      PROVE  UNCHANGED sends /\ \A e \in Deliveries : Quiet(e)
  <2>1. UNCHANGED sends
    BY <1>3 DEF Finalize, CancelSend, Crash, history
  <2>2. CASE UNCHANGED row
    BY <1>1, <2>1, <2>2
  <2>3. ASSUME NEW r \in Row, row' = [row EXCEPT ![work[w].d] = r], Ended(r, row[work[w].d]),
               r.status = "succeeded" => work[w].phase = "answered" /\ work[w].outcome = "sent"
        PROVE  \A e \in Deliveries : Quiet(e)
    <3>1. work[w].d \in Deliveries
      BY <1>3, OutcomeRow
    <3> QED BY <2>3, <3>1, EndedQuiet
  <2> QED BY <1>3, <2>1, <2>2, <2>3, OutcomeRow
<1>4. ASSUME NEW d \in Deliveries, LeaseLapses(d) \/ Reap(d)
      PROVE  UNCHANGED sends /\ \A e \in Deliveries : Quiet(e)
  <2>1. UNCHANGED sends
    BY <1>4 DEF LeaseLapses, Reap, history
  <2>2. PICK r \in Row :
          /\ row' = [row EXCEPT ![d] = r] /\ row[d].status = "in_progress"
          /\ (r.status = "in_progress" /\ r.attempts = row[d].attempts)
             \/ (Ended(r, row[d]) /\ r.status # "succeeded")
    BY <1>4, LeaseRow
  <2>3. CASE Ended(r, row[d]) /\ r.status # "succeeded"
    BY <2>1, <2>2, <2>3, EndedQuiet
  <2>4. CASE r.status = "in_progress" /\ r.attempts = row[d].attempts
    <3>1. row'[d] = r /\ \A e \in Deliveries : e # d => row'[e] = row[e]
      BY <1>0, <2>2
    <3> QED BY <2>1, <2>2, <2>4, <3>1 DEF Quiet, Terminal
  <2> QED BY <2>2, <2>3, <2>4
<1>5. CASE CommitArchive
  <2>1. UNCHANGED sends
    BY <1>5 DEF CommitArchive, history
  <2>2. ASSUME NEW d \in Deliveries PROVE Quiet(d)
    BY <1>5, ArchiveRows DEF Quiet, Terminal
  <2> QED BY <2>1, <2>2
<1>6. ASSUME NEW d \in Deliveries, FindBinding(d) PROVE UNCHANGED <<row, sends>>
  BY <1>6 DEF FindBinding, history
<1>7. ASSUME NEW w \in Workers, NEW d \in Deliveries, Claim(w, d) PROVE UNCHANGED <<row, sends>>
  BY <1>7 DEF Claim, history
<1>8. ASSUME NEW w \in Workers, Send(w) PROVE UNCHANGED <<row, sends>>
  BY <1>8 DEF Send
<1>9. ASSUME NEW kind \in {"rotate", "link", "account"}, BeginControl(kind)
      PROVE  UNCHANGED <<row, sends>>
  BY <1>9 DEF BeginControl, history
<1>10. CASE EndControl \/ Unpair \/ LoseAuthority \/ UNCHANGED vars
  <2>1. UNCHANGED <<row, sends>>
    BY <1>10 DEF EndControl, Unpair, LoseAuthority, vars, history
  <2> QED BY <1>1, <2>1
<1> QED
  BY <1>1, <1>2, <1>3, <1>4, <1>5, <1>6, <1>7, <1>8, <1>9, <1>10 DEF Next

\* No late outcome, reaper or release of a stale attempt takes up a delivery
\* that has ended: whoever writes a row has claimed it while it was pending, or
\* finds it in progress under its own lease.
THEOREM EndedStaysEnded == Spec => NeverReopened
<1>1. DeliveryInv /\ [Next]_vars =>
        [\A d \in Deliveries : row[d].status \in Terminal => row'[d].status \in Terminal]_vars
  <2> SUFFICES ASSUME DeliveryInv, [Next]_vars, NEW d \in Deliveries, row[d].status \in Terminal
               PROVE  row'[d].status \in Terminal
    OBVIOUS
  <2>1. CASE \E w \in Workers : Prepare(w)
    <3>1. PICK w \in Workers : Prepare(w)
      BY <2>1
    <3>2. work[w].d \in Deliveries /\ row[work[w].d].status = "pending"
          /\ \E r \in Row : row' = [row EXCEPT ![work[w].d] = r]
      BY <3>1, PrepareRow
    <3>3. d # work[w].d
      BY <3>2 DEF Terminal
    <3>4. row'[d] = row[d]
      BY <3>2, <3>3 DEF DeliveryInv, TypeOK
    <3> QED BY <3>4
  <2>2. CASE ~\E w \in Workers : Prepare(w)
    BY <2>2, QuietSteps DEF Quiet
  <2> QED BY <2>1, <2>2
<1> QED BY InitDeliveryInv, NextDeliveryInv, <1>1, PTL DEF Spec, NeverReopened

-----------------------------------------------------------------------------
(***************************************************************************)
(* The bound on sends: a row counts at least the times its message was     *)
(* handed to the provider.                                                 *)
(***************************************************************************)

SendsCounted == \A d \in Deliveries : sends[d] <= row[d].attempts

\* Nothing is sent at first.
LEMMA InitSendsCounted == Init => SendsCounted
BY DEF Init, SendsCounted

\* Every send follows an attempt that was counted in the row.
LEMMA NextSendsCounted == DeliveryInv /\ SendsCounted /\ [Next]_vars => SendsCounted'
<1> SUFFICES ASSUME DeliveryInv, SendsCounted, [Next]_vars PROVE SendsCounted'
  OBVIOUS
<1>0. row \in [Deliveries -> Row] /\ sends \in [Deliveries -> Nat]
  BY DEF DeliveryInv, TypeOK
<1>1. CASE ~\E w \in Workers : Prepare(w)
  BY <1>1, QuietSteps DEF SendsCounted, Quiet
<1>2. ASSUME NEW w \in Workers, Prepare(w) PROVE SendsCounted'
  <2> DEFINE d == work[w].d
  <2>1. d \in Deliveries /\ row[d].attempts \in Nat /\ sends[d] <= row[d].attempts
    BY <1>0, <1>2, PrepareRow DEF Row, SendsCounted
  <2>2. PICK r \in Row :
          /\ row' = [row EXCEPT ![d] = r]
          /\ \/ Given(r, w) /\ UNCHANGED sends
             \/ Used(r, w) /\ UNCHANGED sends
             \/ Used(r, w) /\ sends' = [sends EXCEPT ![d] = @ + 1]
    BY <1>2, PrepareRow
  <2>3. \A e \in Deliveries : e # d => row'[e] = row[e] /\ sends'[e] = sends[e]
    BY <1>0, <2>2
  <2>4. /\ row'[d].attempts = r.attempts /\ r.attempts \in {row[d].attempts, row[d].attempts + 1}
        /\ sends'[d] = sends[d] \/ (sends'[d] = sends[d] + 1 /\ r.attempts = row[d].attempts + 1)
    BY <1>0, <2>1, <2>2 DEF Given, Used
  <2>5. sends'[d] <= row'[d].attempts
    BY <1>0, <2>1, <2>4
  <2> QED BY <2>3, <2>5 DEF SendsCounted
<1> QED BY <1>1, <1>2

\* However often a worker dies, a lease lapses under a stalled worker, an answer
\* is lost or an attempt is given back, a message is handed to the provider at
\* most max_attempts times.
THEOREM SendsAlwaysBounded == Spec => []SendsBounded
<1>1. DeliveryInv /\ SendsCounted => SendsBounded
  <2> SUFFICES ASSUME DeliveryInv, SendsCounted, NEW d \in Deliveries PROVE sends[d] <= MaxAttempts
    BY DEF SendsBounded
  <2>1. sends[d] \in Nat /\ row[d].attempts \in 0..MaxAttempts /\ sends[d] <= row[d].attempts
    BY DEF DeliveryInv, TypeOK, Row, SendsCounted
  <2> QED BY <2>1, ChannelDeliveryAssumption
<1> QED BY InitDeliveryInv, NextDeliveryInv, InitSendsCounted, NextSendsCounted, <1>1, PTL DEF Spec

-----------------------------------------------------------------------------
(***************************************************************************)
(* What is reported as sent.  An outcome "sent" that is still to be        *)
(* recorded is of a message the provider accepted.                         *)
(***************************************************************************)

AnswersAccepted ==
  \A w \in Workers : work[w].phase = "answered" /\ work[w].outcome = "sent" => work[w].d \in accepted

AcceptInv == SucceededWasAccepted /\ AnswersAccepted

\* Nothing is reported at first.
LEMMA InitAcceptInv == Init => AcceptInv
BY DEF Init, AcceptInv, SucceededWasAccepted, AnswersAccepted, Idle

\* Nothing the provider accepted is forgotten, and what a worker holds as sent
\* it held before or has just been told.
LEMMA AcceptedGrows ==
  ASSUME DeliveryInv, AnswersAccepted, [Next]_vars
  PROVE  accepted \subseteq accepted' /\ AnswersAccepted'
<1>0. work \in [Workers -> Work]
  BY DEF DeliveryInv, TypeOK
<1>1. ASSUME accepted \subseteq accepted',
             \A w \in Workers : work'[w].phase = "answered" =>
               work'[w] = work[w] \/ work'[w].outcome # "sent" \/ work'[w].d \in accepted'
      PROVE  accepted \subseteq accepted' /\ AnswersAccepted'
  BY <1>1 DEF AnswersAccepted
<1>2. ASSUME NEW w \in Workers, NEW d \in Deliveries, Claim(w, d)
      PROVE  accepted \subseteq accepted' /\ AnswersAccepted'
  <2>1. UNCHANGED accepted /\ work'[w].phase = "claimed" /\ \A v \in Workers : v # w => work'[v] = work[v]
    BY <1>0, <1>2 DEF Claim, history
  <2> QED BY <1>1, <2>1
<1>3. ASSUME NEW w \in Workers, Prepare(w) PROVE accepted \subseteq accepted' /\ AnswersAccepted'
  <2>1. UNCHANGED accepted /\ work'[w].phase # "answered" /\ \A v \in Workers : v # w => work'[v] = work[v]
    BY <1>3, PrepareRow DEF Prepare
  <2> QED BY <1>1, <2>1
<1>4. ASSUME NEW w \in Workers, Send(w) PROVE accepted \subseteq accepted' /\ AnswersAccepted'
  <2>1. PICK o \in Outcomes :
          Answer(w, o) /\ accepted \subseteq accepted' /\ (o = "sent" => work[w].d \in accepted')
    BY <1>4 DEF Send, Outcomes
  <2>2. /\ work'[w].d = work[w].d /\ work'[w].outcome = o
        /\ \A v \in Workers : v # w => work'[v] = work[v]
    BY <1>4, <2>1, AnswerWork DEF Send
  <2> QED BY <1>1, <2>1, <2>2
<1>5. ASSUME NEW w \in Workers, Finalize(w) \/ CancelSend(w) \/ Crash(w)
      PROVE  accepted \subseteq accepted' /\ AnswersAccepted'
  <2>1. accepted \subseteq accepted'
    BY <1>5 DEF Finalize, CancelSend, Crash, history
  <2>2. \A v \in Workers : work'[v].phase # "idle" => work'[v] = work[v]
    BY <1>5, OutcomeRow, SettleWork
  <2> QED BY <1>1, <2>1, <2>2
<1>6. CASE UNCHANGED <<work, accepted>>
  BY <1>1, <1>6
<1>7. ASSUME NEW d \in Deliveries,
             \/ FindBinding(d) \/ EnqueueOutbound(d) \/ EnqueueUnderLock(d)
             \/ LeaseLapses(d) \/ Reap(d)
      PROVE  UNCHANGED <<work, accepted>>
  BY <1>7 DEF FindBinding, EnqueueOutbound, EnqueueUnderLock, Insert, LeaseLapses, Reap, history
<1>8. ASSUME \/ \E kind \in {"rotate", "link", "account"} : BeginControl(kind)
             \/ CommitArchive \/ EndControl \/ Unpair \/ LoseAuthority \/ UNCHANGED vars
      PROVE  UNCHANGED <<work, accepted>>
  BY <1>8 DEF BeginControl, CommitArchive, EndControl, Unpair, LoseAuthority, vars, history
<1> QED BY <1>2, <1>3, <1>4, <1>5, <1>6, <1>7, <1>8 DEF Next

\* delivered_at is set by the worker that records an outcome "sent".
LEMMA DeliveredGrows ==
  ASSUME DeliveryInv, [Next]_vars, NEW d \in delivered' \ delivered
  PROVE  \E w \in Workers : work[w].phase = "answered" /\ work[w].d = d /\ work[w].outcome = "sent"
<1>1. ASSUME NEW w \in Workers, Finalize(w)
      PROVE  \E v \in Workers : work[v].phase = "answered" /\ work[v].d = d /\ work[v].outcome = "sent"
  BY <1>1 DEF Finalize
<1>2. ASSUME ~\E w \in Workers : Finalize(w) PROVE UNCHANGED delivered
  <2>1. ASSUME NEW e \in Deliveries,
               \/ FindBinding(e) \/ EnqueueOutbound(e) \/ EnqueueUnderLock(e)
               \/ LeaseLapses(e) \/ Reap(e)
        PROVE  UNCHANGED delivered
    BY <2>1 DEF FindBinding, EnqueueOutbound, EnqueueUnderLock, Insert, LeaseLapses, Reap
  <2>2. ASSUME NEW w \in Workers,
               (\E e \in Deliveries : Claim(w, e)) \/ Prepare(w) \/ Send(w) \/ CancelSend(w) \/ Crash(w)
        PROVE  UNCHANGED delivered
    BY <2>2 DEF Claim, Prepare, Send, CancelSend, Crash
  <2>3. ASSUME \/ \E kind \in {"rotate", "link", "account"} : BeginControl(kind)
               \/ CommitArchive \/ EndControl \/ Unpair \/ LoseAuthority \/ UNCHANGED vars
        PROVE  UNCHANGED delivered
    BY <2>3 DEF BeginControl, CommitArchive, EndControl, Unpair, LoseAuthority, vars
  <2> QED BY <1>2, <2>1, <2>2, <2>3 DEF Next
<1> QED BY <1>1, <1>2

\* Only an answer of the provider makes a delivery succeed.
LEMMA NextAcceptInv == DeliveryInv /\ AcceptInv /\ [Next]_vars => AcceptInv'
<1> SUFFICES ASSUME DeliveryInv, AcceptInv, [Next]_vars PROVE AcceptInv'
  OBVIOUS
<1>1. accepted \subseteq accepted' /\ AnswersAccepted'
  BY AcceptedGrows DEF AcceptInv
<1>2. ASSUME NEW d \in Deliveries, row'[d].status = "succeeded" PROVE d \in accepted
  <2>1. CASE ~\E w \in Workers : Prepare(w)
    <3>1. \/ row[d].status = "succeeded"
          \/ \E w \in Workers : work[w].phase = "answered" /\ work[w].d = d /\ work[w].outcome = "sent"
      BY <1>2, <2>1, QuietSteps DEF Quiet
    <3> QED BY <3>1 DEF AcceptInv, SucceededWasAccepted, AnswersAccepted
  <2>2. ASSUME NEW w \in Workers, Prepare(w) PROVE d \in accepted
    <3>1. PICK r \in Row : /\ row' = [row EXCEPT ![work[w].d] = r]
                           /\ r.status \in {"pending", "failed", "in_progress"}
      BY <2>2, PrepareRow DEF Given
    <3>2. row[d].status = "succeeded"
      BY <1>2, <3>1 DEF DeliveryInv, TypeOK
    <3> QED BY <3>2 DEF AcceptInv, SucceededWasAccepted
  <2> QED BY <2>1, <2>2
<1>3. ASSUME NEW d \in Deliveries, d \in delivered' PROVE d \in accepted
  BY <1>3, DeliveredGrows DEF AcceptInv, SucceededWasAccepted, AnswersAccepted
<1>4. SucceededWasAccepted'
  BY <1>1, <1>2, <1>3 DEF SucceededWasAccepted
<1> QED BY <1>1, <1>4 DEF AcceptInv

\* A delivery is recorded as succeeded, and its message as delivered, only when
\* the provider accepted it: never after a timeout, a cancelled send, a lease
\* that was reaped or an outcome that came too late.
THEOREM ReportedWasAccepted == Spec => []SucceededWasAccepted
<1>1. AcceptInv => SucceededWasAccepted
  BY DEF AcceptInv
<1> QED BY InitDeliveryInv, NextDeliveryInv, InitAcceptInv, NextAcceptInv, <1>1, PTL DEF Spec

-----------------------------------------------------------------------------
(***************************************************************************)
(* The fence of an archived link.  While an archive holds the link's lock, *)
(* prepare sends no delivery of the link, so that the rows in progress are *)
(* among those the archive has read.                                       *)
(***************************************************************************)

SeenFenced ==
  control.kind \in {"link", "account"} =>
    \A d \in Linked : control.seen[d] = "no" => row[d].status # "in_progress"

FenceInv == ArchivedLinkFenced /\ SeenFenced

\* The link is not archived at first.
LEMMA InitFenceInv == Init => FenceInv
BY DEF Init, FenceInv, ArchivedLinkFenced, SeenFenced, NoControl

\* Only prepare begins a send, and for a delivery of a link only while the link
\* is active and nobody holds its lock.
LEMMA SendsUnderLock ==
  ASSUME DeliveryInv, [Next]_vars, NEW d \in Linked,
         row'[d].status = "in_progress", row[d].status # "in_progress"
  PROVE  link = "active" /\ control = NoControl /\ UNCHANGED <<link, control>>
<1>0. d \in Deliveries /\ account \in {"active", "archived"} /\ link \in {"active", "archived"}
  BY ChannelDeliveryAssumption DEF DeliveryInv, TypeOK
<1>1. PICK w \in Workers : Prepare(w)
  BY <1>0, QuietSteps DEF Quiet
<1>2. PICK r \in Row :
        /\ row' = [row EXCEPT ![work[w].d] = r]
        /\ \/ r.status \in {"pending", "failed"}
           \/ ~Contended(work[w].d) /\ ~Refused(work[w].d)
  BY <1>1, PrepareRow DEF Given
<1>3. d = work[w].d /\ r.status = "in_progress"
  BY <1>0, <1>2 DEF DeliveryInv, TypeOK
<1>4. ~Contended(d) /\ ~Refused(d)
  BY <1>2, <1>3
<1> QED BY <1>0, <1>1, <1>4 DEF Contended, Refused, LinkLocked, Prepare, plane

\* No step takes a delivery of an archived link up again.
LEMMA NextFenceInv == DeliveryInv /\ FenceInv /\ [Next]_vars => FenceInv'
<1> SUFFICES ASSUME DeliveryInv, FenceInv, [Next]_vars PROVE FenceInv'
  OBVIOUS
<1>0. Linked \subseteq Deliveries
  BY ChannelDeliveryAssumption
<1>1. ASSUME UNCHANGED <<link, control>> PROVE FenceInv'
  BY <1>1, SendsUnderLock DEF FenceInv, ArchivedLinkFenced, SeenFenced, NoControl
<1>2. ASSUME NEW kind \in {"rotate", "link", "account"}, BeginControl(kind) PROVE FenceInv'
  <2>1. UNCHANGED <<row, link>>
    BY <1>2 DEF BeginControl, plane
  <2>2. ArchivedLinkFenced'
    BY <2>1 DEF FenceInv, ArchivedLinkFenced
  <2>3. CASE kind = "rotate"
    BY <1>2, <2>2, <2>3 DEF BeginControl, FenceInv, SeenFenced
  <2>4. CASE kind # "rotate"
    <3>1. control' = [kind |-> kind, seen |-> OpenRowsOf(kind)]
      BY <1>2, <2>4 DEF BeginControl
    <3>2. \A d \in Linked : OpenRowsOf(kind)[d] = "no" => row[d].status # "in_progress"
      BY <1>0 DEF OpenRowsOf, Open
    <3>3. SeenFenced'
      BY <2>1, <3>1, <3>2 DEF SeenFenced
    <3> QED BY <2>2, <3>3 DEF FenceInv
  <2> QED BY <2>3, <2>4
<1>3. CASE CommitArchive
  <2>1. control' = NoControl /\ control.kind \in {"link", "account"}
    BY <1>3 DEF CommitArchive
  <2>2. ASSUME NEW d \in Linked PROVE row'[d].status # "in_progress"
    BY <1>0, <1>3, <2>1, ArchiveRows DEF FenceInv, SeenFenced
  <2> QED BY <2>1, <2>2 DEF FenceInv, ArchivedLinkFenced, SeenFenced, NoControl
<1>4. CASE EndControl
  <2>1. UNCHANGED <<row, link>> /\ control' = NoControl
    BY <1>4 DEF EndControl, plane
  <2> QED BY <2>1 DEF FenceInv, ArchivedLinkFenced, SeenFenced, NoControl
<1>5. ASSUME NEW d \in Deliveries,
             \/ FindBinding(d) \/ EnqueueOutbound(d) \/ EnqueueUnderLock(d)
             \/ LeaseLapses(d) \/ Reap(d)
      PROVE  UNCHANGED <<link, control>>
  BY <1>5 DEF FindBinding, EnqueueOutbound, EnqueueUnderLock, Insert, LeaseLapses, Reap, plane
<1>6. ASSUME NEW w \in Workers,
             \/ \E d \in Deliveries : Claim(w, d)
             \/ Prepare(w) \/ Send(w) \/ Finalize(w) \/ CancelSend(w) \/ Crash(w)
      PROVE  UNCHANGED <<link, control>>
  BY <1>6 DEF Claim, Prepare, Send, Finalize, CancelSend, Crash, plane
<1>7. ASSUME Unpair \/ LoseAuthority \/ UNCHANGED vars PROVE UNCHANGED <<link, control>>
  BY <1>7 DEF Unpair, LoseAuthority, vars, plane
<1> QED BY <1>1, <1>2, <1>3, <1>4, <1>5, <1>6, <1>7 DEF Next

\* When the archive of a link has committed, no delivery of the link is being
\* sent: the archive and prepare exclude each other by the link's lock, although
\* the archive reads the rows without locking them.
THEOREM ArchiveFences == Spec => []ArchivedLinkFenced
<1>1. FenceInv => ArchivedLinkFenced
  BY DEF FenceInv
<1> QED BY InitDeliveryInv, NextDeliveryInv, InitFenceInv, NextFenceInv, <1>1, PTL DEF Spec
=============================================================================
