-------------------------- MODULE SessionEventsProofs --------------------------
(***************************************************************************)
(* Theorems about SessionEvents, for every set of events and uploaders and *)
(* every number of generations, edits, faults and sweeps: its type         *)
(* invariant, that an uploader is told the truth, that the current and the *)
(* shared generations stay readable and that the store implements          *)
(* SessionLog.                                                             *)
(*                                                                         *)
(* The retention worker deletes objects before the row.  What a reader is  *)
(* promised therefore holds as long as its sweeps are clean (CleanSweeps), *)
(* and what the lock file confirms as long as no generation expires.       *)
(***************************************************************************)
EXTENDS SessionEvents, SequenceTheorems, TLAPS

-----------------------------------------------------------------------------
(***************************************************************************)
(* The inductive invariant.                                                *)
(***************************************************************************)

\* f is log l with the next event of a transcript that was planned.
NextOf(l, f) == \E t \in offered : IsStrictPrefix(l, t) /\ f = SubSeq(t, 1, Len(l) + 1)

\* What an uploader is about to do follows from its plan.
PlanOf(u) ==
  /\ u.plan # <<>> /\ u.plan \in offered
  /\ u.pc = "head" => ~u.waiting
  /\ ~u.waiting => u.answer = {}
  /\ u.pc = "append" => IsStrictPrefix(u.base.log, u.plan) /\ u.base.gen # 0
  /\ u.pc = "put" => u.at < Len(u.plan)
  /\ u.pc \in {"put", "commit"} \/ (u.pc = "stage" /\ u.waiting) => u.id \in Gens

PlanInv ==
  \A c \in Clients : /\ \A u \in up[c] : PlanOf(u)
                     /\ \A u, v \in up[c] : u = v

\* Ids that are pending belong to an operation somebody planned.
PendingOf(p) ==
  IF p.kind = "append"
  THEN p.gen = p.base.gen /\ p.append # 0 /\ NextOf(p.base.log, p.final)
  ELSE p.final \in offered /\ p.final # <<>>

PendingInv == \A p \in lock.pending : PendingOf(p)

\* So do requests.
LawfulRequest(r) ==
  /\ IF r.kind = "append"
     THEN r.gen = r.base.gen /\ r.append # 0 /\ NextOf(r.base.log, r.final)
     ELSE r.final \in offered /\ r.final # <<>>
  /\ r.kind = "put" => r.at < Len(r.final)

\* An uploader waits for one request at a time, and the request is that of its step.
AwaitedBy(r, u) ==
  /\ u.waiting /\ u.answer = {} /\ u.pc = r.kind /\ u.base = r.base
  /\ r.final = IF u.pc = "append" THEN NextLog(u) ELSE u.plan

RequestInv ==
  /\ \A r \in requests : LawfulRequest(r)
  /\ \A r \in requests : \A c \in r.by : up[c] # {} /\ \A u \in up[c] : AwaitedBy(r, u)
  /\ \A r, q \in requests : r.by \cap q.by # {} => r = q

\* The key of a row is a key.
ChunkInv == \A g \in Gens : \A ch \in chunks[g] : ch.result # <<>>

TypeInv == TypeOK /\ PlanInv /\ PendingInv /\ RequestInv /\ ChunkInv

\* The session row points to a committed generation whose rows are its chain.
CurrentInv ==
  session.gen # 0 =>
    /\ gens[session.gen].status = "committed" /\ gens[session.gen].mark = "fresh"
    /\ Chained(session.gen, session.log)
    /\ session.log \in stored

\* Marks of staging, committed and removed generations.
MarkInv ==
  \A g \in Gens :
    /\ gens[g].status = "none" => gens[g].mark = "fresh"
    /\ gens[g].status = "staging" => gens[g].mark \in {"fresh", "idle", "expired"}
    /\ gens[g].status = "committed" => gens[g].mark \in {"fresh", "superseded", "aged"}

\* The worker sweeps one generation nobody reads, and only objects of it.
SweepInv ==
  /\ \A w \in sweep :
       /\ w.gen # session.gen /\ w.gen \notin shares
       /\ gens[w.gen].status # "none" /\ gens[w.gen].mark \in {"idle", "expired", "aged"}
       /\ \A k \in w.todo : k[1] = w.gen
  /\ \A v, w \in sweep : v = w

RowsInv == CurrentInv /\ MarkInv /\ SweepInv

\* A generation that no sweep has touched, or one whose sweep has ended: it is
\* neither locked nor one that a failed sweep can have left half removed.
Intact(g) ==
  /\ ~Locked(g)
  /\ gens[g].mark \notin {"expired", "aged"} \/ g \in shares

\* The chunk a put or an append stores.
PutChunk(r) == ChunkOf(SubSeq(r.final, 1, r.at), r.final)
AppendChunk(r) == ChunkOf(r.base.log, r.final)

\* The rows of an intact generation have their objects, and so has the put whose
\* row is still to come.  An append whose row is to come has its object as long
\* as the session row is where it was.
ObjectInv ==
  /\ \A g \in Gens : Intact(g) => ObjectsOf(g) \subseteq objects
  /\ \A r \in requests :
       r.kind = "put" /\ r.stored /\ Intact(r.gen) => KeyOf(r.gen, PutChunk(r)) \in objects
  /\ \A r \in requests :
       r.kind = "append" /\ r.stored =>
         /\ r.base.rev <= session.rev
         /\ session = r.base => KeyOf(r.gen, AppendChunk(r)) \in objects

\* A step of a sweep is clean when it does not break off over a staging generation
\* that may be resumed, and does not end under a put between its two parts.
CleanSweep ==
  /\ SweepFail => \A w \in sweep : gens[w.gen].mark # "idle"
  /\ SweepDone => \A w \in sweep : \A r \in requests : r.gen = w.gen => ~r.stored

CleanSweeps == [][CleanSweep]_vars

\* What an uploader was told is stored.
AnswerInv ==
  \A c \in Clients : \A u \in up[c] : \A a \in u.answer :
    (u.pc \in {"commit", "append"} /\ a.code = "ok") => Announced(u) \in stored

\* The session row is at b, or has moved on from there.
Reached(b) == b.rev <= session.rev /\ (b.rev = session.rev => session = b)

\* The base of the next append, once an uploader was told that the last one worked.
Appended(u, a) == [gen |-> u.base.gen, rev |-> a.rev, log |-> NextLog(u)]

\* The row was where an upload is based, or will be.
BaseInv ==
  \A c \in Clients : \A u \in up[c] :
    /\ Reached(u.base)
    /\ \A a \in u.answer : u.pc = "append" /\ a.code = "ok" => Reached(Appended(u, a))

\* What the lock file confirms was stored, when no 410 made an uploader forget.
LockInv ==
  /\ lock.pending = {} => lock.local \subseteq stored
  /\ \A c \in Clients : \A u \in up[c] : \A a \in u.answer : a.code # "410"

NeverExpired == \A g \in Gens : ~Expired(g)

-----------------------------------------------------------------------------
(***************************************************************************)
(* Transcripts and their beginnings.                                       *)
(***************************************************************************)

\* A transcript is a sequence of events, of bounded length.
LEMMA LogFacts ==
  ASSUME NEW l \in Logs
  PROVE  /\ l \in Seq(Events) /\ Len(l) \in Nat /\ Len(l) <= MaxLen
         /\ \A i \in 1..Len(l) : l[i] \in Events
         /\ l # <<>> => Len(l) > 0
<1>1. PICK m \in 0..MaxLen : l \in [1..m -> Events]
  BY DEF Logs, BoundedSeq, SeqOf
<1>2. MaxLen \in Nat
  BY SessionEventsAssumption
<1>3. m \in Nat /\ m <= MaxLen
  BY <1>1, <1>2
<1>4. l \in Seq(Events)
  BY <1>1, <1>3
<1>5. Len(l) = m
  BY <1>1, <1>3, <1>4, LenProperties
<1> QED BY <1>1, <1>3, <1>4, <1>5, EmptySeq

\* A sequence of events that is short enough is a transcript.
LEMMA SeqIsLog ==
  ASSUME NEW l \in Seq(Events), Len(l) <= MaxLen
  PROVE  l \in Logs
<1>1. Len(l) \in Nat /\ l \in [1..Len(l) -> Events]
  BY LenProperties
<1>2. MaxLen \in Nat
  BY SessionEventsAssumption
<1>3. Len(l) \in 0..MaxLen
  BY <1>1, <1>2
<1>4. l \in UNION {[1..m -> Events] : m \in 0..MaxLen}
  BY <1>1, <1>3
<1> QED BY <1>4 DEF Logs, BoundedSeq, SeqOf

\* The empty transcript.
LEMMA EmptyLog == <<>> \in Logs /\ Len(<<>>) = 0
<1>1. MaxLen \in Nat
  BY SessionEventsAssumption
<1>2. <<>> \in Seq(Events) /\ Len(<<>>) = 0
  BY EmptySeq
<1>3. Len(<<>>) <= MaxLen
  BY <1>1, <1>2
<1> QED BY <1>2, <1>3, SeqIsLog

\* The first n events of a transcript.
LEMMA Beginning ==
  ASSUME NEW l \in Logs, NEW n \in 0..Len(l)
  PROVE  /\ SubSeq(l, 1, n) \in Logs /\ Len(SubSeq(l, 1, n)) = n
         /\ \A i \in 1..n : SubSeq(l, 1, n)[i] = l[i]
         /\ n = Len(l) => SubSeq(l, 1, n) = l
<1>1. l \in Seq(Events) /\ Len(l) \in Nat /\ Len(l) <= MaxLen /\ MaxLen \in Nat
  BY LogFacts, SessionEventsAssumption
<1>2. n \in Int /\ 0 <= n /\ n <= Len(l)
  BY <1>1
<1>3. /\ SubSeq(l, 1, n) \in Seq(Events) /\ Len(SubSeq(l, 1, n)) = n
      /\ \A i \in 1..n : SubSeq(l, 1, n)[i] = l[i]
  BY <1>1, <1>2
<1>4. SubSeq(l, 1, n) \in Logs
  <2> DEFINE p == SubSeq(l, 1, n)
  <2>1. p \in Seq(Events) /\ Len(p) = n
    BY <1>3
  <2> HIDE DEF p
  <2>2. p \in Logs
    BY <1>1, <1>2, <2>1, SeqIsLog
  <2> QED BY <2>2 DEF p
<1>5. n = Len(l) => SubSeq(l, 1, n) = l
  BY <1>1, SubSeqFull
<1> QED BY <1>3, <1>4, <1>5

\* The beginning of a beginning is a beginning.
LEMMA BeginningOfBeginning ==
  ASSUME NEW l \in Logs, NEW n \in 0..Len(l), NEW m \in 0..n
  PROVE  SubSeq(SubSeq(l, 1, n), 1, m) = SubSeq(l, 1, m)
<1>1. Len(l) \in Nat
  BY LogFacts
<1>2. m \in 0..Len(l)
  BY <1>1
<1> DEFINE p == SubSeq(l, 1, n)
<1>3. p \in Logs /\ Len(p) = n /\ \A i \in 1..n : p[i] = l[i]
  BY Beginning
<1> HIDE DEF p
<1>4. /\ SubSeq(p, 1, m) \in Logs /\ Len(SubSeq(p, 1, m)) = m
      /\ \A i \in 1..m : SubSeq(p, 1, m)[i] = p[i]
  BY <1>3, Beginning
<1>5. /\ SubSeq(l, 1, m) \in Logs /\ Len(SubSeq(l, 1, m)) = m
      /\ \A i \in 1..m : SubSeq(l, 1, m)[i] = l[i]
  BY <1>2, Beginning
<1>6. \A i \in 1..m : SubSeq(p, 1, m)[i] = SubSeq(l, 1, m)[i]
  BY <1>3, <1>4, <1>5
<1>7. SubSeq(p, 1, m) \in Seq(Events) /\ SubSeq(l, 1, m) \in Seq(Events)
  BY <1>4, <1>5, LogFacts
<1>8. SubSeq(p, 1, m) = SubSeq(l, 1, m)
  BY <1>4, <1>5, <1>6, <1>7, SeqEqual
<1> QED BY <1>8 DEF p

\* A strict beginning is shorter.
LEMMA StrictPrefixFacts ==
  ASSUME NEW l \in Logs, NEW t \in Logs, IsStrictPrefix(l, t)
  PROVE  Len(l) < Len(t) /\ SubSeq(t, 1, Len(l)) = l
<1>1. Len(l) \in Nat /\ Len(t) \in Nat
  BY LogFacts
<1>2. /\ Len(l) <= Len(t) /\ l # t
      /\ SubSeq(l, 1, Len(l)) = SubSeq(t, 1, Len(l))
  BY DEF IsStrictPrefix, IsPrefix
<1>3. Len(l) \in 0..Len(l) /\ Len(t) \in 0..Len(t)
  BY <1>1
<1>4. SubSeq(l, 1, Len(l)) = l /\ SubSeq(t, 1, Len(t)) = t
  BY <1>3, Beginning
<1> QED BY <1>1, <1>2, <1>4

\* The log with its next event is one longer, continues it, and is the plan or
\* a strict beginning of it.
LEMMA NextEvent ==
  ASSUME NEW l \in Logs, NEW t \in Logs, IsStrictPrefix(l, t)
  PROVE  LET f == SubSeq(t, 1, Len(l) + 1)
         IN  /\ f \in Logs /\ Len(f) = Len(l) + 1 /\ f # <<>>
             /\ SubSeq(f, 1, Len(l)) = l
             /\ f # t => IsStrictPrefix(f, t)
<1> DEFINE n == Len(l)
           f == SubSeq(t, 1, n + 1)
<1>1. n \in Nat /\ Len(t) \in Nat /\ n < Len(t) /\ SubSeq(t, 1, n) = l
  BY StrictPrefixFacts, LogFacts
<1> HIDE DEF n
<1>2. n + 1 \in 0..Len(t) /\ n \in 0..(n + 1)
  BY <1>1
<1>3. f \in Logs /\ Len(f) = n + 1
  BY <1>2, Beginning
<1>4. SubSeq(f, 1, n) = l
  BY <1>1, <1>2, BeginningOfBeginning
<1>5. SubSeq(f, 1, n + 1) = f
  BY <1>1, <1>3, Beginning
<1>6. f # t => IsStrictPrefix(f, t)
  BY <1>1, <1>2, <1>3, <1>5 DEF IsStrictPrefix, IsPrefix
<1>7. f # <<>>
  BY <1>1, <1>3, EmptyLog
<1> QED BY <1>3, <1>4, <1>6, <1>7 DEF n

\* What an append sends is one event longer and begins with what is stored.
LEMMA NextOfFacts ==
  ASSUME offered \subseteq Logs, NEW l \in Logs, NEW f, NextOf(l, f)
  PROVE  f \in Logs /\ Len(f) = Len(l) + 1 /\ SubSeq(f, 1, Len(l)) = l /\ f # <<>>
BY NextEvent DEF NextOf

-----------------------------------------------------------------------------
(***************************************************************************)
(* Uploaders and requests: what a step of one uploader, a request sent and *)
(* a request answered do to PlanInv and RequestInv.                        *)
(***************************************************************************)

\* The answer of a request is for whoever waits for it; nobody else awaits it.
LEMMA NotAwaited ==
  ASSUME TypeInv, NEW c \in Clients, NEW u \in up[c],
         u.pc = "head" \/ ~u.waiting \/ u.answer # {}
  PROVE  \A r \in requests : c \notin r.by
<1> SUFFICES ASSUME NEW r \in requests, c \in r.by PROVE FALSE
  OBVIOUS
<1>1. AwaitedBy(r, u)
  BY DEF TypeInv, RequestInv
<1>2. r.kind # "head"
  BY DEF TypeInv, TypeOK, Request
<1> QED BY <1>1, <1>2 DEF AwaitedBy

\* More transcripts planned make no plan, pending upload or request unlawful.
LEMMA PlansGrow ==
  ASSUME offered \subseteq offered'
  PROVE  /\ \A u : PlanOf(u) => PlanOf(u)'
         /\ \A p : PendingOf(p) => PendingOf(p)'
         /\ \A r : LawfulRequest(r) => LawfulRequest(r)'
<1>1. ASSUME NEW l, NEW f, NextOf(l, f) PROVE NextOf(l, f)'
  BY <1>1 DEF NextOf
<1>2. ASSUME NEW u, PlanOf(u) PROVE PlanOf(u)'
  BY <1>2 DEF PlanOf
<1>3. ASSUME NEW p, PendingOf(p) PROVE PendingOf(p)'
  BY <1>1, <1>3 DEF PendingOf
<1>4. ASSUME NEW r, LawfulRequest(r) PROVE LawfulRequest(r)'
  BY <1>1, <1>4 DEF LawfulRequest
<1> QED BY <1>2, <1>3, <1>4

\* An uploader goes on, begins or ends without a request being sent.
LEMMA UpStep ==
  ASSUME TypeInv, offered \subseteq offered', NEW c \in Clients, NEW X \in SUBSET Upload,
         \A u, v \in X : u = v, \A u \in X : PlanOf(u)',
         \A r \in requests : c \notin r.by,
         up' = [up EXCEPT ![c] = X], requests' = requests
  PROVE  up' \in [Clients -> SUBSET Upload] /\ PlanInv' /\ RequestInv'
<1>1. up \in [Clients -> SUBSET Upload] /\ PlanInv /\ RequestInv
  BY DEF TypeInv, TypeOK
<1>2. \A d \in Clients : up'[d] = IF d = c THEN X ELSE up[d]
  BY <1>1
<1>3. up' \in [Clients -> SUBSET Upload]
  BY <1>1
<1>4. PlanInv'
  <2> SUFFICES ASSUME NEW d \in Clients
               PROVE  (\A u \in up'[d] : PlanOf(u)') /\ (\A u, v \in up'[d] : u = v)
    BY DEF PlanInv
  <2> QED BY <1>1, <1>2, PlansGrow DEF PlanInv
<1>5. \A r \in requests : LawfulRequest(r)'
  BY <1>1, PlansGrow DEF RequestInv
<1>6. ASSUME NEW r \in requests, NEW d \in r.by
      PROVE  up'[d] # {} /\ \A u \in up'[d] : AwaitedBy(r, u)
  <2>1. d \in Clients /\ d # c
    BY <1>6 DEF TypeInv, TypeOK, Request
  <2> QED BY <1>1, <1>2, <2>1 DEF RequestInv
<1>7. \A r, u : AwaitedBy(r, u)' = AwaitedBy(r, u)
  BY DEF AwaitedBy, NextLog
<1> QED BY <1>1, <1>3, <1>4, <1>5, <1>6, <1>7 DEF RequestInv

\* An uploader sends a request and waits for it.
LEMMA SendStep ==
  ASSUME TypeInv, offered' = offered, NEW c \in Clients, NEW u \in Upload, PlanOf(u), u.waiting,
         \A r \in requests : c \notin r.by,
         NEW q \in Request, q.by = {c}, LawfulRequest(q), AwaitedBy(q, u),
         up' = [up EXCEPT ![c] = {u}], requests' = requests \cup {q}
  PROVE  /\ up' \in [Clients -> SUBSET Upload] /\ requests' \subseteq Request
         /\ PlanInv' /\ RequestInv'
<1>1. /\ up \in [Clients -> SUBSET Upload] /\ PlanInv /\ RequestInv
      /\ requests \subseteq Request
  BY DEF TypeInv, TypeOK
<1>2. \A d \in Clients : up'[d] = IF d = c THEN {u} ELSE up[d]
  BY <1>1
<1>3. up' \in [Clients -> SUBSET Upload] /\ requests' \subseteq Request
  BY <1>1
<1>4. PlanInv'
  <2> SUFFICES ASSUME NEW d \in Clients
               PROVE  (\A v \in up'[d] : PlanOf(v)') /\ (\A v, w \in up'[d] : v = w)
    BY DEF PlanInv
  <2> QED BY <1>1, <1>2, PlansGrow DEF PlanInv
<1>5. \A r \in requests' : LawfulRequest(r)'
  BY <1>1, PlansGrow DEF RequestInv
<1>6. ASSUME NEW r \in requests', NEW d \in r.by
      PROVE  up'[d] # {} /\ \A v \in up'[d] : AwaitedBy(r, v)
  <2>1. CASE r \in requests
    <3>1. d \in Clients /\ d # c
      BY <1>1, <2>1, <1>6 DEF Request
    <3> QED BY <1>1, <1>2, <2>1, <3>1 DEF RequestInv
  <2>2. CASE r = q
    BY <1>2, <2>2, <1>6
  <2> QED BY <2>1, <2>2
<1>7. \A r, v : AwaitedBy(r, v)' = AwaitedBy(r, v)
  BY DEF AwaitedBy, NextLog
<1>8. ASSUME NEW r \in requests', NEW p \in requests', r.by \cap p.by # {}
      PROVE  r = p
  BY <1>1, <1>8 DEF RequestInv
<1> QED BY <1>3, <1>4, <1>5, <1>6, <1>7, <1>8 DEF RequestInv

\* A request is answered: whoever waits for it gets the answer.
LEMMA ReplyStep ==
  ASSUME TypeInv, offered' = offered, NEW r \in requests, NEW code, NEW rev,
         [code |-> code, rev |-> rev] \in Answer, Reply(r, code, rev)
  PROVE  /\ up' \in [Clients -> SUBSET Upload] /\ requests' \subseteq Request
         /\ PlanInv' /\ RequestInv'
<1>1. /\ up \in [Clients -> SUBSET Upload] /\ PlanInv /\ RequestInv
      /\ requests \subseteq Request
  BY DEF TypeInv, TypeOK
<1> DEFINE ans == {[code |-> code, rev |-> rev]}
           Told(d) == {[u EXCEPT !.answer = ans] : u \in up[d]}
<1>2. /\ requests' = requests \ {r}
      /\ up' = [d \in Clients |-> IF d \in r.by THEN Told(d) ELSE up[d]]
  BY DEF Reply
<1>3. ans \subseteq Answer /\ ans # {}
  OBVIOUS
<1> HIDE DEF ans
<1>4. ASSUME NEW d \in Clients, NEW u \in up[d]
      PROVE  LET v == [u EXCEPT !.answer = ans]
             IN  v \in Upload /\ (u.waiting /\ PlanOf(u) => PlanOf(v)')
  <2>1. u \in Upload
    BY <1>1
  <2> DEFINE v == [u EXCEPT !.answer = ans]
  <2>2. v \in Upload /\ v.plan = u.plan /\ v.pc = u.pc /\ v.waiting = u.waiting /\ v.base = u.base
        /\ v.at = u.at /\ v.id = u.id
    BY <1>3, <2>1 DEF Upload
  <2> HIDE DEF v
  <2>3. u.waiting /\ PlanOf(u) => PlanOf(v)'
    BY <2>2 DEF PlanOf
  <2> QED BY <2>2, <2>3 DEF v
<1>5. up' \in [Clients -> SUBSET Upload]
  BY <1>1, <1>2, <1>4
<1>6. PlanInv'
  <2> SUFFICES ASSUME NEW d \in Clients
               PROVE  (\A v \in up'[d] : PlanOf(v)') /\ (\A v, w \in up'[d] : v = w)
    BY DEF PlanInv
  <2>1. CASE d \in r.by
    <3>1. up'[d] = Told(d)
      BY <1>2, <2>1
    <3>2. \A u \in up[d] : u.waiting /\ PlanOf(u)
      BY <1>1, <2>1 DEF RequestInv, PlanInv, AwaitedBy
    <3> QED BY <1>1, <1>4, <3>1, <3>2 DEF PlanInv
  <2>2. CASE d \notin r.by
    BY <1>1, <1>2, <2>2, PlansGrow DEF PlanInv
  <2> QED BY <2>1, <2>2
<1>7. \A q \in requests' : LawfulRequest(q)'
  BY <1>1, <1>2, PlansGrow DEF RequestInv
<1>8. ASSUME NEW q \in requests', NEW d \in q.by
      PROVE  up'[d] # {} /\ \A u \in up'[d] : AwaitedBy(q, u)
  <2>1. d \in Clients /\ q \in requests /\ q # r
    BY <1>1, <1>2, <1>8 DEF Request
  <2>2. d \notin r.by
    BY <1>1, <1>8, <2>1 DEF RequestInv
  <2> QED BY <1>1, <1>2, <1>8, <2>1, <2>2 DEF RequestInv
<1>9. \A q, u : AwaitedBy(q, u)' = AwaitedBy(q, u)
  BY DEF AwaitedBy, NextLog
<1> QED BY <1>1, <1>2, <1>5, <1>6, <1>7, <1>8, <1>9 DEF RequestInv

-----------------------------------------------------------------------------
(***************************************************************************)
(* TypeInv is inductive: the uploaders.                                    *)
(***************************************************************************)

\* The variables of the server, and those of the machine.
ServerType ==
  /\ stored \subseteq Logs
  /\ session \in Base
  /\ gens \in [Gens -> [status : {"none", "staging", "committed"},
                        mark : {"fresh", "idle", "expired", "superseded", "aged"},
                        base : Base, final : Logs]]
  /\ chunks \in [Gens -> SUBSET Chunk]
  /\ \A r \in receipts : r \in [append : 1..MaxAppends, base : Base, final : Logs]
  /\ shares \subseteq Gens
  /\ objects \subseteq Key
  /\ sweep \subseteq [gen : Gens, todo : SUBSET Key]

ClientType ==
  /\ source \in Logs /\ offered \subseteq Logs
  /\ lock \in [local : SUBSET Logs, pending : SUBSET Pending]
  /\ ids \in [gen : 0..MaxGens, append : 0..MaxAppends]
  /\ budget \in [{"edits", "faults", "idles", "sweeps", "sweepFaults"} -> Nat]

MessageType ==
  /\ up \in [Clients -> SUBSET Upload] /\ requests \subseteq Request
  /\ PlanInv /\ RequestInv

\* The invariant by its parts.
LEMMA TypeInvParts ==
  TypeInv <=> ServerType /\ ChunkInv /\ ClientType /\ PendingInv /\ MessageType
BY DEF TypeInv, TypeOK, ServerType, ClientType, MessageType

\* The same in the next state.
LEMMA TypeInvNext ==
  ASSUME ServerType', ChunkInv', ClientType', PendingInv', MessageType'
  PROVE  TypeInv'
BY DEF TypeInv, TypeOK, ServerType, ClientType, MessageType

\* A step that leaves rows, objects and sweep alone keeps their types.
LEMMA ServerUntouched ==
  ASSUME TypeInv, UNCHANGED <<dbVars, objects, sweep>>
  PROVE  ServerType' /\ ChunkInv'
BY TypeInvParts DEF dbVars, ServerType, ChunkInv

\* A budget that is spent stays a number.
LEMMA SpendType ==
  ASSUME TypeInv, NEW what \in {"edits", "faults", "idles", "sweeps", "sweepFaults"}, Spend(what)
  PROVE  budget' \in [{"edits", "faults", "idles", "sweeps", "sweepFaults"} -> Nat]
BY DEF TypeInv, TypeOK, Spend

\* Nothing is sent, answered, planned or recorded.
LEMMA ClientsUntouched ==
  ASSUME TypeInv, UNCHANGED <<offered, lock, up, requests>>
  PROVE  MessageType' /\ PendingInv'
<1>1. \A r, v : AwaitedBy(r, v)' = AwaitedBy(r, v)
  BY DEF AwaitedBy, NextLog
<1> QED BY <1>1, PlansGrow, TypeInvParts DEF MessageType, PlanInv, RequestInv, PendingInv

\* An agent that writes its transcript preserves TypeInv.
LEMMA TranscribeType ==
  ASSUME TypeInv, NEW l \in Logs, Transcribe(l)
  PROVE  TypeInv'
<1>1. ServerType' /\ ChunkInv' /\ MessageType' /\ PendingInv'
  BY ServerUntouched, ClientsUntouched DEF Transcribe, clientVars
<1>2. ClientType'
  BY SpendType, TypeInvParts DEF Transcribe, clientVars, ClientType
<1> QED BY <1>1, <1>2, TypeInvNext

\* The start of an upload preserves TypeInv.
LEMMA BeginUploadType ==
  ASSUME TypeInv, NEW c \in Clients, BeginUpload(c)
  PROVE  TypeInv'
<1>1. ServerType /\ ClientType /\ PendingInv /\ MessageType
  BY TypeInvParts
<1>2. PICK u : u = [plan |-> source, pc |-> "head", tries |-> 0, confirmed |-> FALSE,
                    base |-> session, id |-> 0, at |-> 0, waiting |-> FALSE, answer |-> {}]
  OBVIOUS
<1>3. u \in Upload
  BY <1>1, <1>2 DEF Upload, ServerType, ClientType
<1>4. offered' = offered \cup {source} /\ offered' \subseteq Logs
  BY <1>1 DEF BeginUpload, ClientType
<1>5. PlanOf(u)'
  BY <1>2, <1>4 DEF PlanOf, BeginUpload
<1>6. \A r \in requests : c \notin r.by
  BY <1>1 DEF MessageType, RequestInv, BeginUpload
<1>7. up' = [up EXCEPT ![c] = {u}] /\ requests' = requests
  BY <1>2 DEF BeginUpload
<1>8. MessageType'
  <2>1. {u} \in SUBSET Upload /\ (\A v, w \in {u} : v = w) /\ \A v \in {u} : PlanOf(v)'
    BY <1>3, <1>5
  <2>2. offered \subseteq offered'
    BY <1>4
  <2>3. up' \in [Clients -> SUBSET Upload] /\ PlanInv' /\ RequestInv'
    BY <1>6, <1>7, <2>1, <2>2, UpStep
  <2> QED BY <1>1, <1>7, <2>3 DEF MessageType
<1>9. ServerType' /\ ChunkInv'
  BY ServerUntouched DEF BeginUpload
<1>10. ClientType'
  BY <1>1, <1>4 DEF BeginUpload, ClientType
<1>11. PendingInv'
  BY <1>1, <1>4, PlansGrow DEF BeginUpload, PendingInv
<1> QED BY <1>8, <1>9, <1>10, <1>11, TypeInvNext

\* Lock and uploader when an upload has succeeded.
LEMMA SyncedType ==
  ASSUME TypeInv, NEW c \in Clients, NEW u \in up[c], NEW v, v.plan = u.plan, Synced(c, v),
         \A r \in requests : c \notin r.by,
         UNCHANGED <<offered, requests, source, ids, budget>>
  PROVE  ClientType' /\ PendingInv' /\ MessageType'
<1>1. ClientType /\ MessageType /\ u.plan \in Logs
  BY TypeInvParts DEF MessageType, Upload
<1>2. lock' = [local |-> {v.plan}, pending |-> {}] /\ up' = [up EXCEPT ![c] = {}]
  BY DEF Synced
<1>3. ClientType'
  BY <1>1, <1>2 DEF ClientType
<1>4. PendingInv'
  BY <1>2 DEF PendingInv
<1> DEFINE X == {}
<1>5. X \in SUBSET Upload /\ (\A w, z \in X : w = z) /\ (\A w \in X : PlanOf(w)')
      /\ up' = [up EXCEPT ![c] = X]
  BY <1>2
<1> HIDE DEF X
<1>6. up' \in [Clients -> SUBSET Upload] /\ PlanInv' /\ RequestInv'
  BY <1>5, UpStep
<1> QED BY <1>1, <1>3, <1>4, <1>6 DEF MessageType

\* An uploader goes to its next step, or gives up.
LEMMA GoOnType ==
  ASSUME TypeInv, NEW c \in Clients, NEW X \in SUBSET Upload,
         \A u, v \in X : u = v, \A u \in X : PlanOf(u),
         \A r \in requests : c \notin r.by, up' = [up EXCEPT ![c] = X],
         lock' \in {lock, [lock EXCEPT !.pending = {}]},
         UNCHANGED <<offered, requests, source, ids, budget>>
  PROVE  ClientType' /\ PendingInv' /\ MessageType'
<1>1. ClientType /\ MessageType /\ PendingInv
  BY TypeInvParts
<1>2. ClientType'
  BY <1>1 DEF ClientType
<1>3. lock'.pending \subseteq lock.pending
  BY <1>1 DEF ClientType
<1>4. PendingInv'
  BY <1>1, <1>3, PlansGrow DEF PendingInv
<1>5. \A u \in X : PlanOf(u)'
  BY PlansGrow
<1>6. up' \in [Clients -> SUBSET Upload] /\ PlanInv' /\ RequestInv'
  BY <1>5, UpStep
<1> QED BY <1>1, <1>2, <1>4, <1>6 DEF MessageType

\* Reading the head of the session preserves TypeInv.
LEMMA GetHeadType ==
  ASSUME TypeInv, NEW c \in Clients, GetHead(c)
  PROVE  TypeInv'
<1>1. ServerType' /\ ChunkInv' /\ UNCHANGED <<offered, requests, source, ids, budget>>
  BY ServerUntouched DEF GetHead
<1>2. PICK u \in up[c] :
        /\ u.pc = "head"
        /\ IF session.gen # 0 /\ session.log = u.plan
           THEN Synced(c, u)
           ELSE /\ up' = [up EXCEPT ![c] =
                     IF session.gen # 0 /\ IsStrictPrefix(session.log, u.plan)
                     THEN {[u EXCEPT !.pc = "append", !.base = session]}
                     ELSE IF Shrinks(u) /\ ~u.confirmed /\ source # u.plan
                     THEN {}
                     ELSE {[u EXCEPT !.pc = "stage", !.base = session,
                                     !.confirmed = @ \/ Shrinks(u)]}]
                /\ UNCHANGED lock
  BY DEF GetHead
<1>3. u \in Upload /\ PlanOf(u) /\ ~u.waiting /\ u.answer = {} /\ session \in Base
  BY <1>2, TypeInvParts DEF MessageType, PlanInv, PlanOf, ServerType
<1>4. \A r \in requests : c \notin r.by
  BY <1>2, NotAwaited
<1>5. CASE session.gen # 0 /\ session.log = u.plan
  BY <1>1, <1>2, <1>4, <1>5, SyncedType, TypeInvNext
<1>6. CASE ~(session.gen # 0 /\ session.log = u.plan)
  <2> DEFINE v == [u EXCEPT !.pc = "append", !.base = session]
             w == [u EXCEPT !.pc = "stage", !.base = session, !.confirmed = @ \/ Shrinks(u)]
             X == IF session.gen # 0 /\ IsStrictPrefix(session.log, u.plan) THEN {v}
                  ELSE IF Shrinks(u) /\ ~u.confirmed /\ source # u.plan THEN {} ELSE {w}
  <2>1. v \in Upload /\ v.plan = u.plan /\ v.pc = "append" /\ v.base = session
        /\ v.waiting = u.waiting /\ v.answer = u.answer
    BY <1>3 DEF Upload
  <2>2. (u.confirmed \/ Shrinks(u)) \in BOOLEAN
    OBVIOUS
  <2>3. w \in Upload /\ w.plan = u.plan /\ w.pc = "stage" /\ w.base = session
        /\ w.waiting = u.waiting /\ w.answer = u.answer
    <3> DEFINE b == u.confirmed \/ Shrinks(u)
    <3>1. b \in BOOLEAN
      BY <2>2
    <3>2. w = [u EXCEPT !.pc = "stage", !.base = session, !.confirmed = b]
      OBVIOUS
    <3> HIDE DEF b
    <3> QED BY <1>3, <3>1, <3>2 DEF Upload
  <2>4. up' = [up EXCEPT ![c] = X] /\ lock' = lock
    BY <1>2, <1>6
  <2> HIDE DEF v, w
  <2>5. session.gen # 0 /\ IsStrictPrefix(session.log, u.plan) => PlanOf(v)
    BY <1>3, <2>1 DEF PlanOf
  <2>6. PlanOf(w)
    BY <1>3, <2>3 DEF PlanOf
  <2>7. X \in SUBSET Upload /\ (\A x, y \in X : x = y) /\ \A x \in X : PlanOf(x)
    BY <2>1, <2>3, <2>5, <2>6
  <2> HIDE DEF X
  <2> QED BY <1>1, <1>4, <2>4, <2>7, GoOnType, TypeInvNext
<1> QED BY <1>5, <1>6

\* A request is sent with ids that fit the uploader's step.
LEMMA SendType ==
  ASSUME TypeInv, NEW c \in Clients, NEW u \in up[c], ~u.waiting, u.pc # "head",
         NEW p, p.gen \in Gens, p.append \in 0..MaxAppends, p.base = u.base,
         p.final = IF u.pc = "append" THEN NextLog(u) ELSE u.plan,
         u.pc = "append" => p.gen = u.base.gen /\ p.append # 0,
         Send(c, u, p), offered' = offered
  PROVE  MessageType'
<1>1. u \in Upload /\ PlanOf(u) /\ MessageType /\ offered \subseteq Logs
  BY TypeInvParts DEF MessageType, PlanInv, ClientType
<1>2. u.answer = {} /\ u.plan \in offered /\ u.plan # <<>> /\ u.plan \in Logs /\ u.base \in Base
      /\ u.base.log \in Logs
  BY <1>1 DEF PlanOf, Upload, Base
<1>3. \A r \in requests : c \notin r.by
  BY NotAwaited
<1> DEFINE v == [u EXCEPT !.id = p.gen, !.waiting = TRUE]
           q == RequestOf(c, u, p)
<1>4. v \in Upload /\ v.plan = u.plan /\ v.pc = u.pc /\ v.waiting /\ v.answer = {} /\ v.base = u.base
      /\ v.at = u.at /\ v.id = p.gen
  <2>1. p.gen \in Nat
    BY SessionEventsAssumption DEF Gens
  <2> QED BY <1>1, <1>2, <2>1 DEF Upload
<1>5. u.pc = "append" => p.final \in Logs /\ NextOf(u.base.log, p.final)
  BY <1>1, <1>2, NextEvent DEF PlanOf, NextOf, NextLog
<1>6. q \in Request
  <2>1. p.final \in Logs
    BY <1>2, <1>5
  <2>2. u.pc \in {"stage", "put", "commit", "append"} /\ u.at \in Nat
    BY <1>1 DEF Upload
  <2> QED BY <1>2, <2>1, <2>2 DEF Request, RequestOf
<1>7. q.by = {c} /\ q.kind = u.pc /\ q.gen = p.gen /\ q.append = p.append /\ q.base = p.base
      /\ q.final = p.final /\ q.at = u.at
  BY DEF RequestOf
<1>8. up' = [up EXCEPT ![c] = {v}] /\ requests' = requests \cup {q}
  BY DEF Send
<1> HIDE DEF v, q
<1>9. PlanOf(v)
  BY <1>1, <1>4 DEF PlanOf
<1>10. LawfulRequest(q)
  BY <1>1, <1>2, <1>5, <1>7 DEF LawfulRequest, PlanOf
<1>11. AwaitedBy(q, v)
  BY <1>4, <1>7 DEF AwaitedBy, NextLog
<1> QED BY <1>3, <1>4, <1>6, <1>7, <1>8, <1>9, <1>10, <1>11, SendStep DEF MessageType

\* Sending an append preserves TypeInv.
LEMMA SendAppendType ==
  ASSUME TypeInv, NEW c \in Clients, SendAppend(c)
  PROVE  TypeInv'
<1>1. ServerType' /\ ChunkInv' /\ UNCHANGED <<offered, source, budget>>
  BY ServerUntouched DEF SendAppend
<1>2. PICK u \in up[c] :
        /\ u.pc = "append" /\ ~u.waiting
        /\ \E p \in IF Reusable("append", u.base, NextLog(u)) # {}
                    THEN Reusable("append", u.base, NextLog(u))
                    ELSE {[kind |-> "append", gen |-> u.base.gen, append |-> ids.append + 1,
                           base |-> u.base, final |-> NextLog(u)]} :
             /\ p.append <= MaxAppends
             /\ ids' = [ids EXCEPT !.append =
                          IF Reusable("append", u.base, NextLog(u)) = {} THEN @ + 1 ELSE @]
             /\ persistPending(u, p)
             /\ Send(c, u, p)
  BY DEF SendAppend
<1> DEFINE reuse == Reusable("append", u.base, NextLog(u))
           new == [kind |-> "append", gen |-> u.base.gen, append |-> ids.append + 1,
                   base |-> u.base, final |-> NextLog(u)]
<1>3. PICK p \in IF reuse # {} THEN reuse ELSE {new} :
        /\ p.append <= MaxAppends
        /\ ids' = [ids EXCEPT !.append = IF reuse = {} THEN @ + 1 ELSE @]
        /\ persistPending(u, p)
        /\ Send(c, u, p)
  BY <1>2
<1>4. u \in Upload /\ PlanOf(u) /\ offered \subseteq Logs
  BY TypeInvParts DEF MessageType, PlanInv, ClientType
<1>5. /\ IsStrictPrefix(u.base.log, u.plan) /\ u.base.gen \in Gens /\ u.plan \in offered
      /\ u.base \in Base /\ u.base.log \in Logs /\ u.plan \in Logs
  BY <1>2, <1>4, SessionEventsAssumption DEF PlanOf, Upload, Base, Gens
<1>6. NextLog(u) \in Logs /\ NextOf(u.base.log, NextLog(u))
  BY <1>5, NextEvent DEF NextOf, NextLog
<1>7. /\ p \in Pending /\ p.kind = "append" /\ p.base = u.base /\ p.final = NextLog(u)
      /\ p.gen = u.base.gen /\ p.append # 0
      /\ ids' \in [gen : 0..MaxGens, append : 0..MaxAppends]
  <2>1. ids \in [gen : 0..MaxGens, append : 0..MaxAppends] /\ lock.pending \subseteq Pending
        /\ PendingInv /\ MaxAppends \in Nat
    BY TypeInvParts, SessionEventsAssumption DEF ClientType
  <2>2. CASE reuse # {}
    <3>1. p \in lock.pending /\ p.kind = "append" /\ p.base = u.base /\ p.final = NextLog(u)
      BY <1>3, <2>2 DEF Reusable
    <3>2. p.gen = u.base.gen /\ p.append # 0
      BY <2>1, <3>1 DEF PendingInv, PendingOf
    <3>3. ids' = ids
      BY <1>3, <2>1, <2>2
    <3> QED BY <2>1, <3>1, <3>2, <3>3
  <2>3. CASE reuse = {}
    <3>1. p = new /\ ids' = [ids EXCEPT !.append = @ + 1]
      BY <1>3, <2>3
    <3>2. ids.append + 1 \in 1..MaxAppends
      BY <1>3, <2>1, <3>1
    <3>3. ids' \in [gen : 0..MaxGens, append : 0..MaxAppends]
      BY <2>1, <3>1, <3>2
    <3> HIDE DEF reuse
    <3> QED BY <1>5, <1>6, <3>1, <3>2, <3>3 DEF Pending
  <2> QED BY <2>2, <2>3
<1>8. MessageType'
  <2>1. p.gen \in Gens /\ p.append \in 0..MaxAppends
    BY <1>7 DEF Pending
  <2>2. u.pc # "head" /\ ~u.waiting /\ offered' = offered /\ Send(c, u, p)
        /\ p.final = IF u.pc = "append" THEN NextLog(u) ELSE u.plan
    BY <1>1, <1>2, <1>3, <1>7
  <2> HIDE DEF reuse, new
  <2> QED BY <1>7, <2>1, <2>2, SendType
<1>9. ClientType' /\ PendingInv'
  <2>1. lock' = [local |-> {u.plan}, pending |-> {p}]
    BY <1>3 DEF persistPending
  <2>2. PendingOf(p)
    BY <1>6, <1>7 DEF PendingOf
  <2>3. ClientType
    BY TypeInvParts
  <2>4. \A x \in lock'.pending : x = p
    BY <2>1
  <2> HIDE DEF reuse, new
  <2>5. ClientType'
    BY <1>1, <1>5, <1>7, <2>1, <2>3 DEF ClientType
  <2>6. PendingInv'
    BY <1>1, <2>2, <2>4, PlansGrow DEF PendingInv
  <2> QED BY <2>5, <2>6
<1> QED BY <1>1, <1>8, <1>9, TypeInvNext

\* Staging a generation preserves TypeInv.
LEMMA SendStageType ==
  ASSUME TypeInv, NEW c \in Clients, SendStage(c)
  PROVE  TypeInv'
<1>1. ServerType' /\ ChunkInv' /\ UNCHANGED <<offered, source, budget>>
  BY ServerUntouched DEF SendStage
<1>2. PICK u \in up[c] :
        /\ u.pc = "stage" /\ ~u.waiting
        /\ \E p \in IF Reusable("rewrite", u.base, u.plan) # {}
                    THEN Reusable("rewrite", u.base, u.plan)
                    ELSE {[kind |-> "rewrite", gen |-> ids.gen + 1, append |-> 0,
                           base |-> u.base, final |-> u.plan]} :
             /\ p.gen <= MaxGens
             /\ ids' = [ids EXCEPT !.gen =
                          IF Reusable("rewrite", u.base, u.plan) = {} THEN @ + 1 ELSE @]
             /\ persistPending(u, p)
             /\ Send(c, u, p)
  BY DEF SendStage
<1> DEFINE reuse == Reusable("rewrite", u.base, u.plan)
           new == [kind |-> "rewrite", gen |-> ids.gen + 1, append |-> 0,
                   base |-> u.base, final |-> u.plan]
<1>3. PICK p \in IF reuse # {} THEN reuse ELSE {new} :
        /\ p.gen <= MaxGens
        /\ ids' = [ids EXCEPT !.gen = IF reuse = {} THEN @ + 1 ELSE @]
        /\ persistPending(u, p)
        /\ Send(c, u, p)
  BY <1>2
<1>4. u \in Upload /\ PlanOf(u) /\ offered \subseteq Logs
  BY TypeInvParts DEF MessageType, PlanInv, ClientType
<1>5. u.plan \in offered /\ u.plan # <<>> /\ u.base \in Base /\ u.plan \in Logs
  BY <1>4 DEF PlanOf, Upload
<1>6. /\ p \in Pending /\ p.kind = "rewrite" /\ p.base = u.base /\ p.final = u.plan
      /\ ids' \in [gen : 0..MaxGens, append : 0..MaxAppends]
  <2>1. /\ ids \in [gen : 0..MaxGens, append : 0..MaxAppends] /\ lock.pending \subseteq Pending
        /\ MaxGens \in Nat /\ MaxAppends \in Nat
    BY TypeInvParts, SessionEventsAssumption DEF ClientType
  <2>2. CASE reuse # {}
    <3>1. p \in lock.pending /\ p.kind = "rewrite" /\ p.base = u.base /\ p.final = u.plan
      BY <1>3, <2>2 DEF Reusable
    <3>2. ids' = ids
      BY <1>3, <2>1, <2>2
    <3> QED BY <2>1, <3>1, <3>2
  <2>3. CASE reuse = {}
    <3>1. p = new /\ ids' = [ids EXCEPT !.gen = @ + 1]
      BY <1>3, <2>3
    <3>2. ids.gen + 1 \in Gens
      BY <1>3, <2>1, <3>1 DEF Gens
    <3>3. ids' \in [gen : 0..MaxGens, append : 0..MaxAppends]
      BY <2>1, <3>1, <3>2 DEF Gens
    <3> HIDE DEF reuse
    <3>4. 0 \in 0..MaxAppends
      BY <2>1
    <3> QED BY <1>5, <3>1, <3>2, <3>3, <3>4 DEF Pending
  <2> QED BY <2>2, <2>3
<1>7. MessageType'
  <2>1. p.gen \in Gens /\ p.append \in 0..MaxAppends
    BY <1>6 DEF Pending
  <2>2. /\ u.pc # "head" /\ ~u.waiting /\ offered' = offered /\ Send(c, u, p)
        /\ u.pc # "append" /\ p.final = IF u.pc = "append" THEN NextLog(u) ELSE u.plan
    BY <1>1, <1>2, <1>3, <1>6
  <2> HIDE DEF reuse, new
  <2> QED BY <1>6, <2>1, <2>2, SendType
<1>8. ClientType' /\ PendingInv'
  <2>1. lock' = [local |-> {u.plan}, pending |-> {p}]
    BY <1>3 DEF persistPending
  <2>2. PendingOf(p)
    BY <1>5, <1>6 DEF PendingOf
  <2>3. ClientType
    BY TypeInvParts
  <2>4. \A x \in lock'.pending : x = p
    BY <2>1
  <2> HIDE DEF reuse, new
  <2>5. ClientType'
    BY <1>1, <1>5, <1>6, <2>1, <2>3 DEF ClientType
  <2>6. PendingInv'
    BY <1>1, <2>2, <2>4, PlansGrow DEF PendingInv
  <2> QED BY <2>5, <2>6
<1> QED BY <1>1, <1>7, <1>8, TypeInvNext

\* Sending the next chunk, or the commit, preserves TypeInv.
LEMMA SendNextType ==
  ASSUME TypeInv, NEW c \in Clients, SendNext(c)
  PROVE  TypeInv'
<1>1. /\ ServerType' /\ ChunkInv' /\ UNCHANGED <<offered, source, budget, lock, ids>>
  BY ServerUntouched DEF SendNext
<1>2. PICK u \in up[c] :
        /\ u.pc \in {"put", "commit"} /\ ~u.waiting
        /\ Send(c, u, [gen |-> u.id, append |-> 0, base |-> u.base, final |-> u.plan])
  BY DEF SendNext
<1> DEFINE p == [gen |-> u.id, append |-> 0, base |-> u.base, final |-> u.plan]
<1>3. u.id \in Gens /\ MaxAppends \in Nat
  BY <1>2, TypeInvParts, SessionEventsAssumption DEF MessageType, PlanInv, PlanOf
<1>4. p.gen \in Gens /\ p.append \in 0..MaxAppends /\ p.base = u.base /\ p.final = u.plan
      /\ Send(c, u, p)
  BY <1>2, <1>3
<1> HIDE DEF p
<1>5. MessageType'
  <2>1. u.pc # "head" /\ ~u.waiting /\ u.pc # "append"
    BY <1>2
  <2> QED BY <1>1, <1>4, <2>1, SendType
<1>6. ClientType' /\ PendingInv'
  BY <1>1, PlansGrow, TypeInvParts DEF ClientType, PendingInv
<1> QED BY <1>1, <1>5, <1>6, TypeInvNext

\* The record of an uploader that starts over.
LEMMA RetryFacts ==
  ASSUME NEW u \in Upload
  PROVE  LET v == [u EXCEPT !.pc = "head", !.tries = @ + 1, !.at = 0, !.waiting = FALSE,
                            !.answer = {}]
         IN  v \in Upload /\ v.plan = u.plan /\ v.pc = "head" /\ ~v.waiting /\ v.answer = {}
<1> DEFINE n == u.tries + 1
<1>1. n \in Nat
  BY DEF Upload
<1> HIDE DEF n
<1>2. LET v == [u EXCEPT !.pc = "head", !.tries = n, !.at = 0, !.waiting = FALSE, !.answer = {}]
      IN  v \in Upload /\ v.plan = u.plan /\ v.pc = "head" /\ ~v.waiting /\ v.answer = {}
  BY <1>1 DEF Upload
<1> QED BY <1>2 DEF n

\* An uploader that is at a step without waiting for it goes on lawfully.
LEMMA ProceedType ==
  ASSUME TypeInv, NEW c \in Clients, NEW u \in Upload, PlanOf(u),
         NEW pc \in {"append", "stage", "put", "commit"}, NEW at \in Nat,
         pc = "append" => IsStrictPrefix(u.base.log, u.plan) /\ u.base.gen # 0,
         pc = "put" => at < Len(u.plan),
         pc \in {"put", "commit"} => u.id \in Gens,
         Proceed(c, u, pc, at), \A r \in requests : c \notin r.by,
         UNCHANGED <<offered, requests, source, ids, budget>>
  PROVE  ClientType' /\ PendingInv' /\ MessageType'
<1> DEFINE v == [u EXCEPT !.pc = pc, !.at = at, !.waiting = FALSE, !.answer = {}]
<1>1. /\ v \in Upload /\ v.plan = u.plan /\ v.pc = pc /\ v.at = at /\ ~v.waiting
      /\ v.answer = {} /\ v.base = u.base /\ v.id = u.id
  <2>1. pc \in {"head", "append", "stage", "put", "commit"}
    OBVIOUS
  <2> QED BY <2>1 DEF Upload
<1>2. up' = [up EXCEPT ![c] = {v}] /\ lock' = lock
  BY DEF Proceed
<1> HIDE DEF v
<1>3. PlanOf(v)
  BY <1>1 DEF PlanOf
<1>4. {v} \in SUBSET Upload /\ (\A x, y \in {v} : x = y) /\ \A x \in {v} : PlanOf(x)
  BY <1>1, <1>3
<1> QED BY <1>2, <1>4, GoOnType

\* After a conflict the uploader starts over, or gives up.
LEMMA RetryType ==
  ASSUME TypeInv, NEW c \in Clients, NEW u \in Upload, PlanOf(u), Retry(c, u),
         lock' \in {lock, [lock EXCEPT !.pending = {}]}, \A r \in requests : c \notin r.by,
         UNCHANGED <<offered, requests, source, ids, budget>>
  PROVE  ClientType' /\ PendingInv' /\ MessageType'
<1> DEFINE v == [u EXCEPT !.pc = "head", !.tries = @ + 1, !.at = 0, !.waiting = FALSE,
                          !.answer = {}]
           X == IF u.tries + 1 < RetryLimit THEN {v} ELSE {}
<1>1. v \in Upload /\ v.plan = u.plan /\ v.pc = "head" /\ ~v.waiting /\ v.answer = {}
  BY RetryFacts
<1>2. up' = [up EXCEPT ![c] = X]
  BY DEF Retry
<1> HIDE DEF v
<1>3. PlanOf(v)
  BY <1>1 DEF PlanOf
<1>4. X \in SUBSET Upload /\ (\A x, y \in X : x = y) /\ \A x \in X : PlanOf(x)
  BY <1>1, <1>3
<1> HIDE DEF X
<1> QED BY <1>2, <1>4, GoOnType

\* Receiving an answer preserves TypeInv.
LEMMA ReceiveType ==
  ASSUME TypeInv, NEW c \in Clients, Receive(c)
  PROVE  TypeInv'
<1>1. ServerType' /\ ChunkInv' /\ UNCHANGED <<offered, requests, source, ids, budget>>
  BY ServerUntouched DEF Receive
<1>2. PICK u \in up[c], a \in UNION {v.answer : v \in up[c]} :
        \/ /\ a.code = "409"
           /\ Retry(c, u) /\ UNCHANGED lock
        \/ /\ a.code = "410"
           /\ \E p \in lock.pending : p.kind = "rewrite"
           /\ Retry(c, u) /\ ForgetPending
        \/ /\ \/ a.code = "404"
              \/ a.code = "410" /\ \A p \in lock.pending : p.kind # "rewrite"
              \/ a.code = "ok" /\ u.pc \in {"append", "commit"} /\ a.rev # u.base.rev + 1
           /\ up' = [up EXCEPT ![c] = {}] /\ UNCHANGED lock
        \/ u.pc = "stage" /\ a.code = "ok" /\ Proceed(c, u, "put", 0)
        \/ u.pc = "stage" /\ a.code = "committed" /\ Proceed(c, u, "commit", 0)
        \/ /\ u.pc = "put" /\ a.code = "ok"
           /\ Proceed(c, u, IF u.at + 1 = Len(u.plan) THEN "commit" ELSE "put", u.at + 1)
        \/ /\ u.pc = "commit" /\ a.code = "ok" /\ a.rev = u.base.rev + 1
           /\ Synced(c, u)
        \/ /\ u.pc = "append" /\ a.code = "ok" /\ a.rev = u.base.rev + 1
           /\ IF NextLog(u) = u.plan THEN Synced(c, u)
              ELSE Proceed(c, [u EXCEPT !.base = [@ EXCEPT !.rev = a.rev, !.log = NextLog(u)]],
                           "append", 0)
  BY DEF Receive
<1>3. /\ u \in Upload /\ PlanOf(u) /\ up[c] = {u} /\ a \in u.answer /\ offered \subseteq Logs
      /\ u.plan \in Logs /\ u.plan # <<>> /\ u.at \in Nat /\ u.base \in Base
      /\ u.base.log \in Logs /\ a.rev \in Nat
  <2>1. u \in Upload /\ PlanOf(u) /\ up[c] = {u} /\ offered \subseteq Logs
    BY TypeInvParts DEF MessageType, PlanInv, ClientType
  <2>2. PICK v \in up[c] : a \in v.answer
    OBVIOUS
  <2>3. a \in u.answer /\ a.rev \in Nat
    BY <2>1, <2>2 DEF Upload, Answer
  <2> QED BY <2>1, <2>3 DEF PlanOf, Upload, Base
<1>4. u.waiting /\ \A r \in requests : c \notin r.by
  BY <1>3, NotAwaited DEF PlanOf
<1>5. Len(u.plan) \in Nat /\ Len(u.plan) > 0
  BY <1>3, LogFacts
<1>6. CASE a.code = "409" /\ Retry(c, u) /\ UNCHANGED lock
  BY <1>1, <1>3, <1>4, <1>6, RetryType, TypeInvNext
<1>7. CASE Retry(c, u) /\ ForgetPending
  BY <1>1, <1>3, <1>4, <1>7, RetryType, TypeInvNext DEF ForgetPending
<1>8. CASE up' = [up EXCEPT ![c] = {}] /\ UNCHANGED lock
  <2>1. {} \in SUBSET Upload /\ (\A x, y \in {} : x = y) /\ \A x \in {} : PlanOf(x)
    OBVIOUS
  <2> QED BY <1>1, <1>4, <1>8, <2>1, GoOnType, TypeInvNext
<1>9. CASE u.pc = "stage" /\ Proceed(c, u, "put", 0)
  <2>1. u.id \in Gens
    BY <1>3, <1>4, <1>9 DEF PlanOf
  <2> QED BY <1>1, <1>3, <1>4, <1>5, <1>9, <2>1, ProceedType, TypeInvNext
<1>10. CASE u.pc = "stage" /\ Proceed(c, u, "commit", 0)
  <2>1. u.id \in Gens
    BY <1>3, <1>4, <1>10 DEF PlanOf
  <2> QED BY <1>1, <1>3, <1>4, <1>10, <2>1, ProceedType, TypeInvNext
<1>11. CASE u.pc = "put"
            /\ Proceed(c, u, IF u.at + 1 = Len(u.plan) THEN "commit" ELSE "put", u.at + 1)
  <2>1. u.id \in Gens /\ u.at < Len(u.plan)
    BY <1>3, <1>11 DEF PlanOf
  <2> DEFINE pc == IF u.at + 1 = Len(u.plan) THEN "commit" ELSE "put"
             at == u.at + 1
  <2>2. pc \in {"append", "stage", "put", "commit"} /\ pc # "append" /\ at \in Nat
        /\ (pc = "put" => at < Len(u.plan)) /\ Proceed(c, u, pc, at)
    BY <1>3, <1>5, <1>11, <2>1
  <2> HIDE DEF pc, at
  <2> QED BY <1>1, <1>3, <1>4, <2>1, <2>2, ProceedType, TypeInvNext
<1>12. CASE Synced(c, u)
  BY <1>1, <1>3, <1>4, <1>12, SyncedType, TypeInvNext
<1>13. CASE /\ u.pc = "append" /\ NextLog(u) # u.plan
            /\ Proceed(c, [u EXCEPT !.base = [@ EXCEPT !.rev = a.rev, !.log = NextLog(u)]],
                       "append", 0)
  <2>1. IsStrictPrefix(u.base.log, u.plan) /\ u.base.gen # 0
    BY <1>3, <1>13 DEF PlanOf
  <2>2. NextLog(u) \in Logs /\ IsStrictPrefix(NextLog(u), u.plan)
    BY <1>3, <1>13, <2>1, NextEvent DEF NextLog
  <2> DEFINE b == [u.base EXCEPT !.rev = a.rev, !.log = NextLog(u)]
             v == [u EXCEPT !.base = b]
  <2>3. b \in Base /\ b.gen = u.base.gen /\ b.log = NextLog(u)
    BY <1>3, <2>2 DEF Base
  <2>4. Proceed(c, v, "append", 0)
    BY <1>13
  <2> HIDE DEF b
  <2>5. v \in Upload /\ v.plan = u.plan /\ v.pc = u.pc /\ v.base = b /\ v.waiting = u.waiting
        /\ v.answer = u.answer
    BY <1>3, <2>3 DEF Upload
  <2> HIDE DEF v
  <2>6. PlanOf(v)
    BY <1>3, <1>4, <1>13, <2>1, <2>2, <2>3, <2>5 DEF PlanOf
  <2> QED BY <1>1, <1>4, <2>1, <2>2, <2>3, <2>4, <2>5, <2>6, ProceedType, TypeInvNext
<1> QED BY <1>2, <1>6, <1>7, <1>8, <1>9, <1>10, <1>11, <1>12, <1>13

\* An upload that breaks off preserves TypeInv.
LEMMA BreakOffType ==
  ASSUME TypeInv, NEW c \in Clients, BreakOff(c)
  PROVE  TypeInv'
<1>1. /\ ServerType' /\ ChunkInv' /\ UNCHANGED <<offered, source, lock, ids>>
  BY ServerUntouched DEF BreakOff
<1>2. ClientType' /\ PendingInv'
  BY <1>1, PlansGrow, SpendType, TypeInvParts DEF ClientType, PendingInv, BreakOff
<1>3. MessageType
  BY TypeInvParts
<1> DEFINE Left(r) == [r EXCEPT !.by = @ \ {c}]
<1>4. up' = [up EXCEPT ![c] = {}] /\ requests' = {Left(r) : r \in requests}
  BY DEF BreakOff
<1>5. ASSUME NEW r \in requests
      PROVE  /\ Left(r) \in Request /\ Left(r).by = r.by \ {c} /\ Left(r).kind = r.kind
             /\ Left(r).gen = r.gen /\ Left(r).append = r.append /\ Left(r).base = r.base
             /\ Left(r).final = r.final /\ Left(r).at = r.at /\ Left(r).stored = r.stored
  BY <1>3 DEF MessageType, Request
<1> HIDE DEF Left
<1>6. up' \in [Clients -> SUBSET Upload] /\ requests' \subseteq Request
  BY <1>3, <1>4, <1>5 DEF MessageType
<1>7. \A d \in Clients : up'[d] = IF d = c THEN {} ELSE up[d]
  BY <1>3, <1>4 DEF MessageType
<1>8. PlanInv'
  <2> SUFFICES ASSUME NEW d \in Clients
               PROVE  (\A u \in up'[d] : PlanOf(u)') /\ (\A u, v \in up'[d] : u = v)
    BY DEF PlanInv
  <2> QED BY <1>1, <1>3, <1>7, PlansGrow DEF MessageType, PlanInv
<1>9. ASSUME NEW r \in requests PROVE LawfulRequest(Left(r))
  <2>1. LawfulRequest(r)
    BY <1>3 DEF MessageType, RequestInv
  <2> QED BY <1>5, <2>1 DEF LawfulRequest
<1>10. ASSUME NEW r \in requests, NEW d \in Left(r).by
       PROVE  up'[d] # {} /\ \A u \in up'[d] : AwaitedBy(Left(r), u)
  <2>1. d \in r.by /\ d # c /\ d \in Clients
    BY <1>3, <1>5, <1>10 DEF MessageType, Request
  <2>2. up'[d] # {} /\ \A u \in up'[d] : AwaitedBy(r, u)
    BY <1>3, <1>7, <2>1 DEF MessageType, RequestInv
  <2> QED BY <1>5, <2>2 DEF AwaitedBy
<1>11. \A q, u : AwaitedBy(q, u)' = AwaitedBy(q, u)
  BY DEF AwaitedBy, NextLog
<1>12. ASSUME NEW r \in requests, NEW q \in requests, Left(r).by \cap Left(q).by # {}
       PROVE  Left(r) = Left(q)
  <2>1. r.by \cap q.by # {}
    BY <1>5, <1>12
  <2> QED BY <1>3, <2>1 DEF MessageType, RequestInv
<1>13. RequestInv'
  <2>1. \A q \in requests' : LawfulRequest(q)'
    BY <1>1, <1>4, <1>9, PlansGrow
  <2>2. \A q \in requests' : \A d \in q.by : up'[d] # {} /\ \A u \in up'[d] : AwaitedBy(q, u)'
    BY <1>4, <1>10, <1>11
  <2>3. \A q, r \in requests' : q.by \cap r.by # {} => q = r
    BY <1>4, <1>12
  <2> QED BY <2>1, <2>2, <2>3 DEF RequestInv
<1>14. MessageType'
  BY <1>6, <1>8, <1>13 DEF MessageType
<1> QED BY <1>1, <1>2, <1>14, TypeInvNext

-----------------------------------------------------------------------------
(***************************************************************************)
(* TypeInv is inductive: the handlers, shares, time and the worker.        *)
(***************************************************************************)

\* A step that leaves the machine's files alone keeps their types.
LEMMA MachineUntouched ==
  ASSUME TypeInv, UNCHANGED <<source, offered, lock, ids, budget>>
  PROVE  ClientType' /\ PendingInv'
BY PlansGrow, TypeInvParts DEF ClientType, PendingInv

\* A reply reaches the uploader that waits for it and nobody else.
LEMMA ReplyType ==
  ASSUME TypeInv, offered' = offered, NEW r \in requests,
         NEW code \in {"ok", "committed", "404", "409", "410"}, NEW rev \in Nat, Reply(r, code, rev)
  PROVE  MessageType'
<1>1. [code |-> code, rev |-> rev] \in Answer
  BY DEF Answer
<1> QED BY <1>1, ReplyStep DEF MessageType

\* What is known of a request.
LEMMA RequestFacts ==
  ASSUME TypeInv, NEW r \in requests
  PROVE  /\ r \in Request /\ LawfulRequest(r)
         /\ r.gen \in Gens /\ r.base \in Base /\ r.final \in Logs /\ r.append \in 0..MaxAppends
         /\ r.base.log \in Logs /\ r.base.rev \in Nat /\ r.at \in Nat /\ r.final # <<>>
         /\ r.kind = "append" => /\ Len(r.final) = Len(r.base.log) + 1
                                 /\ SubSeq(r.final, 1, Len(r.base.log)) = r.base.log
         /\ r.kind = "put" => r.at < Len(r.final)
         /\ offered \subseteq Logs /\ session \in Base /\ session.rev \in Nat
<1>1. r \in Request /\ LawfulRequest(r) /\ offered \subseteq Logs /\ session \in Base
  BY TypeInvParts DEF MessageType, RequestInv, ClientType, ServerType
<1>2. /\ r.gen \in Gens /\ r.base \in Base /\ r.final \in Logs /\ r.append \in 0..MaxAppends
      /\ r.base.log \in Logs /\ r.base.rev \in Nat /\ r.at \in Nat /\ session.rev \in Nat
  BY <1>1 DEF Request, Base
<1>3. r.kind = "append" => /\ Len(r.final) = Len(r.base.log) + 1 /\ r.final # <<>>
                           /\ SubSeq(r.final, 1, Len(r.base.log)) = r.base.log
  BY <1>1, <1>2, NextOfFacts DEF LawfulRequest
<1>4. r.kind # "append" => r.final # <<>>
  BY <1>1 DEF LawfulRequest
<1> QED BY <1>1, <1>2, <1>3, <1>4 DEF LawfulRequest

\* The chunk with the next event of f, and its key.
LEMMA ChunkFacts ==
  ASSUME NEW l \in Logs, NEW f \in Logs, Len(l) < Len(f), NEW g \in Gens
  PROVE  LET ch == ChunkOf(l, f)
         IN  /\ ch \in Chunk /\ KeyOf(g, ch) \in Key
             /\ ch.start = Len(l) /\ ch.base = l /\ ch.result = SubSeq(f, 1, Len(l) + 1)
             /\ ch.result # <<>>
<1>1. Len(l) \in Nat /\ Len(f) \in Nat
  BY LogFacts
<1>2. PICK n : n = Len(l) + 1
  OBVIOUS
<1>3. n \in 0..Len(f) /\ n \in Nat /\ n > 0
  BY <1>1, <1>2
<1> DEFINE p == SubSeq(f, 1, n)
<1>4. p \in Logs /\ Len(p) = n
  BY <1>3, Beginning
<1> DEFINE ch == ChunkOf(l, f)
<1>5. ch = [start |-> Len(l), base |-> l, result |-> p]
  BY <1>2 DEF ChunkOf
<1> HIDE DEF p, ch
<1>6. p # <<>> /\ p[n] \in Events
  BY <1>3, <1>4, EmptyLog, LogFacts
<1>7. ch \in Chunk /\ ch.start = Len(l) /\ ch.base = l /\ ch.result = p
  BY <1>1, <1>4, <1>5 DEF Chunk
<1>8. KeyOf(g, ch) = <<g, Len(l), p[n]>>
  BY <1>4, <1>7 DEF KeyOf, Last
<1>9. KeyOf(g, ch) \in Key
  BY <1>1, <1>6, <1>8 DEF Key
<1>10. p = SubSeq(f, 1, Len(l) + 1)
  BY <1>2 DEF p
<1> QED BY <1>6, <1>7, <1>9, <1>10 DEF ch

\* The chunk of a put is a chunk of the final transcript.
LEMMA PutChunkFacts ==
  ASSUME TypeInv, NEW r \in requests, r.kind = "put"
  PROVE  /\ PutChunk(r) \in Chunk /\ KeyOf(r.gen, PutChunk(r)) \in Key
         /\ PutChunk(r).start = r.at /\ PutChunk(r).result # <<>>
<1>1. r.gen \in Gens /\ r.final \in Logs /\ r.at \in Nat /\ r.at < Len(r.final)
  BY RequestFacts
<1>2. r.at \in 0..Len(r.final) /\ Len(r.final) \in Nat
  BY <1>1, LogFacts
<1> DEFINE p == SubSeq(r.final, 1, r.at)
<1>3. p \in Logs /\ Len(p) = r.at
  BY <1>1, <1>2, Beginning
<1>4. PutChunk(r) = ChunkOf(p, r.final)
  BY DEF PutChunk
<1> HIDE DEF p
<1> QED BY <1>1, <1>3, <1>4, ChunkFacts

\* The chunk of an append is its last event.
LEMMA AppendChunkFacts ==
  ASSUME TypeInv, NEW r \in requests, r.kind = "append"
  PROVE  /\ AppendChunk(r) \in Chunk /\ KeyOf(r.gen, AppendChunk(r)) \in Key
         /\ AppendChunk(r).start = Len(r.base.log) /\ AppendChunk(r).base = r.base.log
         /\ AppendChunk(r).result = r.final /\ r.final # <<>>
<1>1. /\ r.gen \in Gens /\ r.final \in Logs /\ r.base.log \in Logs /\ r.final # <<>>
      /\ Len(r.final) = Len(r.base.log) + 1
  BY RequestFacts
<1>2. Len(r.final) \in Nat /\ Len(r.base.log) \in Nat
  BY <1>1, LogFacts
<1>3. SubSeq(r.final, 1, Len(r.base.log) + 1) = r.final
  BY <1>1, <1>2, Beginning
<1>4. Len(r.base.log) < Len(r.final)
  BY <1>1, <1>2
<1> QED BY <1>1, <1>3, <1>4, ChunkFacts DEF AppendChunk

\* The first part of a put or an append leaves the request to its second part.
LEMMA StoredType ==
  ASSUME TypeInv, NEW r \in requests, requests' = (requests \ {r}) \cup {Stored(r)},
         UNCHANGED <<up, offered>>
  PROVE  MessageType'
<1>1. MessageType /\ r \in Request
  BY TypeInvParts DEF MessageType
<1> DEFINE s == Stored(r)
<1>2. /\ s \in Request /\ s.by = r.by /\ s.kind = r.kind /\ s.gen = r.gen /\ s.append = r.append
      /\ s.base = r.base /\ s.final = r.final /\ s.at = r.at /\ s.stored
  BY <1>1 DEF Stored, Request
<1> HIDE DEF s
<1>3. requests' = (requests \ {r}) \cup {s}
  BY DEF s
<1>4. \A q, v : AwaitedBy(q, v)' = AwaitedBy(q, v)
  BY DEF AwaitedBy, NextLog
<1>5. LawfulRequest(s)
  <2>1. LawfulRequest(r)
    BY RequestFacts
  <2> QED BY <1>2, <2>1 DEF LawfulRequest
<1>6. \A c \in s.by : up[c] # {} /\ \A u \in up[c] : AwaitedBy(s, u)
  <2>1. \A c \in r.by : up[c] # {} /\ \A u \in up[c] : AwaitedBy(r, u)
    BY <1>1 DEF MessageType, RequestInv
  <2> QED BY <1>2, <2>1 DEF AwaitedBy
<1>7. PlanInv' /\ requests' \subseteq Request /\ up' \in [Clients -> SUBSET Upload]
  BY <1>1, <1>2, <1>3, PlansGrow DEF MessageType, PlanInv
<1>8. \A q \in requests' : LawfulRequest(q)'
  BY <1>1, <1>3, <1>5, PlansGrow DEF MessageType, RequestInv
<1>9. \A q \in requests' : \A c \in q.by : up'[c] # {} /\ \A u \in up'[c] : AwaitedBy(q, u)'
  BY <1>1, <1>3, <1>4, <1>6 DEF MessageType, RequestInv
<1>10. \A q, p \in requests' : q.by \cap p.by # {} => q = p
  BY <1>1, <1>2, <1>3 DEF MessageType, RequestInv
<1> QED BY <1>7, <1>8, <1>9, <1>10 DEF MessageType, RequestInv

\* What the handlers do, case by case.
StageDone(r) ==
  \/ \E code \in {"ok", "committed", "409", "410"} : Reply(r, code, 0) /\ UNCHANGED gens
  \/ /\ gens[r.gen].status = "none" /\ BaseMatches(r) /\ Reply(r, "ok", 0)
     /\ gens' = [gens EXCEPT ![r.gen] = [status |-> "staging", mark |-> "fresh",
                                         base |-> r.base, final |-> r.final]]

\* The ways the stage handler ends.
LEMMA StageCases ==
  ASSUME NEW r, HandleStage(r)
  PROVE  /\ r.kind = "stage" /\ StageDone(r)
         /\ UNCHANGED <<source, offered, session, stored, chunks, receipts, shares, objects, sweep,
                        lock, ids, budget>>
BY DEF HandleStage, StageDone

Open(g) == gens[g].status = "staging" /\ gens[g].mark # "expired"
Touched(g) == gens' = [gens EXCEPT ![g].mark = "fresh"]

PutDone(r) ==
  \/ \E code \in {"404", "409", "410"} : Reply(r, code, 0) /\ UNCHANGED <<gens, chunks, objects>>
  \/ Open(r.gen) /\ Touched(r.gen) /\ Reply(r, "ok", 0) /\ UNCHANGED <<chunks, objects>>
  \/ /\ Open(r.gen) /\ ~r.stored
     /\ objects' = objects \cup {KeyOf(r.gen, PutChunk(r))}
     /\ requests' = (requests \ {r}) \cup {Stored(r)}
     /\ UNCHANGED <<gens, chunks, up>>
  \/ /\ Open(r.gen) /\ AtStart(r.gen, r.at) = {} /\ r.stored
     /\ chunks' = [chunks EXCEPT ![r.gen] = @ \cup {PutChunk(r)}]
     /\ Touched(r.gen) /\ Reply(r, "ok", 0) /\ UNCHANGED objects

\* The ways the put handler ends.
LEMMA PutCases ==
  ASSUME NEW r, HandlePut(r)
  PROVE  /\ r.kind = "put" /\ ~Locked(r.gen) /\ PutDone(r)
         /\ UNCHANGED <<source, offered, session, stored, receipts, shares, sweep, lock, ids, budget>>
<1>1. r.kind = "put" /\ ~Locked(r.gen)
      /\ UNCHANGED <<source, offered, session, stored, receipts, shares, sweep, lock, ids, budget>>
  BY DEF HandlePut
<1>2. \/ Reply(r, "404", 0) /\ UNCHANGED <<gens, chunks, objects>>
      \/ Reply(r, "410", 0) /\ UNCHANGED <<gens, chunks, objects>>
      \/ /\ gens[r.gen].status = "staging" /\ ~Expired(r.gen)
         /\ \/ /\ Reply(r, "409", 0)
               /\ UNCHANGED <<gens, chunks, objects>>
            \/ /\ Reply(r, "ok", 0)
               /\ Touched(r.gen) /\ UNCHANGED <<chunks, objects>>
            \/ /\ AtStart(r.gen, r.at) = {} /\ ~r.stored
               /\ objects' = objects \cup {KeyOf(r.gen, PutChunk(r))}
               /\ requests' = (requests \ {r}) \cup {Stored(r)}
               /\ UNCHANGED <<gens, chunks, up>>
            \/ /\ AtStart(r.gen, r.at) = {} /\ r.stored
               /\ chunks' = [chunks EXCEPT ![r.gen] = @ \cup {PutChunk(r)}]
               /\ Touched(r.gen) /\ Reply(r, "ok", 0) /\ UNCHANGED objects
  BY Zenon DEF HandlePut, PutChunk, Touched
<1>3. gens[r.gen].status = "staging" /\ ~Expired(r.gen) => Open(r.gen)
  BY DEF Expired, Open
<1>4. PutDone(r)
  BY <1>2, <1>3, Zenon DEF PutDone
<1> QED BY <1>1, <1>4

CommitDone(r) ==
  \/ \E code \in {"404", "409", "410"} : Reply(r, code, 0) /\ UNCHANGED <<session, stored, gens>>
  \/ /\ StillAt(r)
     /\ Reply(r, "ok", r.base.rev + 1) /\ UNCHANGED <<session, stored, gens>>
  \/ /\ Open(r.gen) /\ Identity(r) /\ BaseMatches(r) /\ Chained(r.gen, r.final)
     /\ gens' = [h \in Gens |-> IF h = r.gen THEN [gens[h] EXCEPT !.status = "committed",
                                                                  !.mark = "fresh"]
                                ELSE IF h = session.gen
                                THEN [gens[h] EXCEPT !.mark = "superseded"] ELSE gens[h]]
     /\ MoveTo(r.gen, r.final) /\ Reply(r, "ok", session.rev + 1)

\* The ways the commit handler ends.
LEMMA CommitCases ==
  ASSUME NEW r, HandleCommit(r)
  PROVE  /\ r.kind = "commit" /\ ~Locked(r.gen) /\ CommitDone(r)
         /\ UNCHANGED <<source, offered, chunks, receipts, shares, objects, sweep, lock, ids, budget>>
<1>1. gens[r.gen].status = "staging" /\ ~Expired(r.gen) => Open(r.gen)
  BY DEF Expired, Open
<1> QED BY <1>1, Zenon DEF HandleCommit, CommitDone

AppendDone(r) ==
  \/ Reply(r, "409", 0) /\ UNCHANGED <<session, stored, chunks, receipts, objects>>
  \/ /\ StillAt(r) /\ Reply(r, "ok", r.base.rev + 1)
     /\ UNCHANGED <<session, stored, chunks, receipts, objects>>
  \/ /\ session.gen = r.gen /\ session.log = r.final /\ Reply(r, "ok", session.rev)
     /\ UNCHANGED <<session, stored, chunks, receipts, objects>>
  \/ /\ BaseMatches(r) /\ gens[r.gen].status = "committed" /\ ~r.stored
     /\ objects' = objects \cup {KeyOf(r.gen, AppendChunk(r))}
     /\ requests' = (requests \ {r}) \cup {Stored(r)}
     /\ UNCHANGED <<session, stored, chunks, receipts, up>>
  \/ /\ BaseMatches(r) /\ gens[r.gen].status = "committed" /\ r.stored
     /\ chunks' = [chunks EXCEPT ![r.gen] = @ \cup {AppendChunk(r)}]
     /\ receipts' = receipts \cup {[append |-> r.append, base |-> r.base, final |-> r.final]}
     /\ MoveTo(r.gen, r.final) /\ Reply(r, "ok", session.rev + 1) /\ UNCHANGED objects

\* The ways the append handler ends.
LEMMA AppendCases ==
  ASSUME NEW r, HandleAppend(r)
  PROVE  /\ r.kind = "append" /\ AppendDone(r)
         /\ UNCHANGED <<source, offered, gens, shares, sweep, lock, ids, budget>>
BY Zenon DEF HandleAppend, AppendDone, AppendChunk

GenRow == [status : {"none", "staging", "committed"},
           mark : {"fresh", "idle", "expired", "superseded", "aged"}, base : Base, final : Logs]

\* A generation row is marked.
LEMMA MarkType ==
  ASSUME TypeInv, NEW g \in Gens, NEW m \in {"fresh", "idle", "expired", "superseded", "aged"},
         gens' = [gens EXCEPT ![g].mark = m]
  PROVE  /\ gens' \in [Gens -> GenRow]
         /\ \A h \in Gens : gens'[h].status = gens[h].status /\ gens'[h].base = gens[h].base
                            /\ gens'[h].final = gens[h].final
                            /\ gens'[h].mark = IF h = g THEN m ELSE gens[h].mark
         /\ \A h \in Gens \ {g} : gens'[h] = gens[h]
<1>1. gens \in [Gens -> GenRow]
  BY TypeInvParts DEF ServerType, GenRow
<1> DEFINE row == [gens[g] EXCEPT !.mark = m]
<1>2. row \in GenRow /\ row.status = gens[g].status /\ row.base = gens[g].base
      /\ row.final = gens[g].final /\ row.mark = m
  BY <1>1 DEF GenRow
<1>3. gens' = [gens EXCEPT ![g] = row]
  BY <1>1
<1> HIDE DEF row
<1>4. \A h \in Gens : gens'[h] = IF h = g THEN row ELSE gens[h]
  BY <1>1, <1>3
<1> QED BY <1>1, <1>2, <1>3, <1>4

\* The rows of a commit.
LEMMA CommitRows ==
  ASSUME TypeInv, NEW g \in Gens,
         gens' = [h \in Gens |-> IF h = g THEN [gens[h] EXCEPT !.status = "committed",
                                                               !.mark = "fresh"]
                                 ELSE IF h = session.gen
                                 THEN [gens[h] EXCEPT !.mark = "superseded"] ELSE gens[h]]
  PROVE  /\ gens' \in [Gens -> GenRow]
         /\ gens'[g].status = "committed" /\ gens'[g].mark = "fresh"
         /\ \A h \in Gens \ {g} :
              /\ gens'[h].status = gens[h].status
              /\ gens'[h].mark = IF h = session.gen THEN "superseded" ELSE gens[h].mark
<1>1. gens \in [Gens -> GenRow]
  BY TypeInvParts DEF ServerType, GenRow
<1> DEFINE done == [gens[g] EXCEPT !.status = "committed", !.mark = "fresh"]
           Old(h) == [gens[h] EXCEPT !.mark = "superseded"]
<1>2. done \in GenRow /\ done.status = "committed" /\ done.mark = "fresh"
  BY <1>1 DEF GenRow
<1>3. ASSUME NEW h \in Gens
      PROVE  Old(h) \in GenRow /\ Old(h).status = gens[h].status /\ Old(h).mark = "superseded"
  BY <1>1 DEF GenRow
<1>4. gens' = [h \in Gens |-> IF h = g THEN done ELSE IF h = session.gen THEN Old(h) ELSE gens[h]]
  BY Zenon
<1> HIDE DEF done, Old
<1>5. gens' \in [Gens -> GenRow]
  BY <1>1, <1>2, <1>3, <1>4
<1>6. gens'[g] = done
  BY <1>4
<1>7. ASSUME NEW h \in Gens \ {g}
      PROVE  gens'[h] = IF h = session.gen THEN Old(h) ELSE gens[h]
  BY <1>4
<1>8. ASSUME NEW h \in Gens \ {g}
      PROVE  /\ gens'[h].status = gens[h].status
             /\ gens'[h].mark = IF h = session.gen THEN "superseded" ELSE gens[h].mark
  BY <1>3, <1>7
<1> QED BY <1>2, <1>5, <1>6, <1>8

\* The stage handler preserves TypeInv.
LEMMA HandleStageType ==
  ASSUME TypeInv, NEW r \in requests, HandleStage(r)
  PROVE  TypeInv'
<1>1. StageDone(r)
      /\ UNCHANGED <<source, offered, session, stored, chunks, receipts, shares, objects, sweep,
                     lock, ids, budget>>
  BY StageCases
<1>2. /\ r.gen \in Gens /\ r.base \in Base /\ r.final \in Logs /\ ServerType /\ ChunkInv
      /\ gens \in [Gens -> GenRow]
  BY RequestFacts, TypeInvParts DEF ServerType, GenRow
<1>3. ClientType' /\ PendingInv'
  BY <1>1, MachineUntouched
<1>4. MessageType'
  <2>1. PICK code \in {"ok", "committed", "404", "409", "410"} : Reply(r, code, 0)
    BY <1>1 DEF StageDone
  <2> QED BY <1>1, <2>1, ReplyType
<1>5. gens' \in [Gens -> GenRow]
  <2> DEFINE row == [status |-> "staging", mark |-> "fresh", base |-> r.base, final |-> r.final]
  <2>1. row \in GenRow
    BY <1>2 DEF GenRow
  <2>2. gens' = gens \/ gens' = [gens EXCEPT ![r.gen] = row]
    BY <1>1 DEF StageDone
  <2> HIDE DEF row
  <2> QED BY <1>2, <2>1, <2>2
<1>6. ServerType' /\ ChunkInv'
  BY <1>1, <1>2, <1>5 DEF ServerType, ChunkInv, GenRow
<1> QED BY <1>3, <1>4, <1>6, TypeInvNext

\* A row is added to a generation.
LEMMA AddChunkType ==
  ASSUME TypeInv, NEW g \in Gens, NEW ch \in Chunk, ch.result # <<>>,
         chunks' \in {chunks, [chunks EXCEPT ![g] = @ \cup {ch}]}
  PROVE  chunks' \in [Gens -> SUBSET Chunk] /\ ChunkInv'
<1>1. chunks \in [Gens -> SUBSET Chunk] /\ ChunkInv
  BY TypeInvParts DEF ServerType
<1>2. \A h \in Gens : chunks'[h] \subseteq chunks[h] \cup {ch}
  BY <1>1
<1>3. chunks' \in [Gens -> SUBSET Chunk]
  BY <1>1
<1> QED BY <1>1, <1>2, <1>3 DEF ChunkInv

\* The put handler, in both its parts, preserves TypeInv.
LEMMA HandlePutType ==
  ASSUME TypeInv, NEW r \in requests, HandlePut(r)
  PROVE  TypeInv'
<1>1. /\ PutDone(r) /\ r.kind = "put"
      /\ UNCHANGED <<source, offered, session, stored, receipts, shares, sweep, lock, ids, budget>>
  BY PutCases
<1>2. /\ r.gen \in Gens /\ ServerType /\ gens \in [Gens -> GenRow]
      /\ PutChunk(r) \in Chunk /\ PutChunk(r).result # <<>>
      /\ KeyOf(r.gen, PutChunk(r)) \in Key
  BY <1>1, RequestFacts, PutChunkFacts, TypeInvParts DEF ServerType, GenRow
<1>3. ClientType' /\ PendingInv'
  BY <1>1, MachineUntouched
<1>4. MessageType'
  <2>1. ASSUME NEW code \in {"ok", "committed", "404", "409", "410"}, Reply(r, code, 0)
        PROVE  MessageType'
    BY <1>1, <2>1, ReplyType
  <2>2. ASSUME requests' = (requests \ {r}) \cup {Stored(r)}, UNCHANGED up
        PROVE  MessageType'
    BY <1>1, <2>2, StoredType
  <2> QED BY <1>1, <2>1, <2>2 DEF PutDone
<1>5. gens' \in [Gens -> GenRow]
  <2>1. gens' = gens \/ Touched(r.gen)
    BY <1>1 DEF PutDone
  <2> QED BY <1>2, <2>1, MarkType DEF Touched
<1>6. chunks' \in [Gens -> SUBSET Chunk] /\ ChunkInv'
  <2>1. chunks' \in {chunks, [chunks EXCEPT ![r.gen] = @ \cup {PutChunk(r)}]}
    BY <1>1 DEF PutDone
  <2> QED BY <1>2, <2>1, AddChunkType
<1>7. objects' \subseteq Key
  <2>1. objects' \subseteq objects \cup {KeyOf(r.gen, PutChunk(r))}
    BY <1>1 DEF PutDone
  <2> QED BY <1>2, <2>1 DEF ServerType
<1>8. ServerType'
  BY <1>1, <1>2, <1>5, <1>6, <1>7 DEF ServerType, GenRow
<1> QED BY <1>3, <1>4, <1>6, <1>8, TypeInvNext

\* The session row moves.
LEMMA MoveType ==
  ASSUME TypeInv, NEW g \in Gens, NEW l \in Logs, MoveTo(g, l)
  PROVE  /\ session' \in Base /\ stored' \subseteq Logs /\ stored \subseteq stored' /\ l \in stored'
         /\ session'.gen = g /\ session'.rev = session.rev + 1 /\ session'.log = l
<1>1. session \in Base /\ session.rev \in Nat /\ stored \subseteq Logs /\ g \in 0..MaxGens
  BY TypeInvParts, SessionEventsAssumption DEF ServerType, Base, Gens
<1> QED BY <1>1 DEF MoveTo, Base

\* The commit handler preserves TypeInv.
LEMMA HandleCommitType ==
  ASSUME TypeInv, NEW r \in requests, HandleCommit(r)
  PROVE  TypeInv'
<1>1. /\ CommitDone(r)
      /\ UNCHANGED <<source, offered, chunks, receipts, shares, objects, sweep, lock, ids, budget>>
  BY CommitCases
<1>2. /\ r.gen \in Gens /\ r.final \in Logs /\ ServerType /\ ChunkInv /\ gens \in [Gens -> GenRow]
      /\ r.base.rev \in Nat /\ session.rev \in Nat
  BY RequestFacts, TypeInvParts DEF ServerType, GenRow
<1>3. ClientType' /\ PendingInv'
  BY <1>1, MachineUntouched
<1>4. MessageType'
  <2>1. PICK code \in {"ok", "committed", "404", "409", "410"}, rev \in Nat : Reply(r, code, rev)
    <3>1. r.base.rev + 1 \in Nat /\ session.rev + 1 \in Nat /\ 0 \in Nat
      BY <1>2
    <3> QED BY <1>1, <3>1, Zenon DEF CommitDone
  <2> QED BY <1>1, <2>1, ReplyType
<1>5. gens' \in [Gens -> GenRow]
  BY <1>1, <1>2, CommitRows DEF CommitDone
<1>6. session' \in Base /\ stored' \subseteq Logs
  <2>1. UNCHANGED <<session, stored>> \/ MoveTo(r.gen, r.final)
    BY <1>1, Zenon DEF CommitDone
  <2> QED BY <1>2, <2>1, MoveType DEF ServerType
<1>7. ServerType' /\ ChunkInv'
  BY <1>1, <1>2, <1>5, <1>6 DEF ServerType, ChunkInv, GenRow
<1> QED BY <1>3, <1>4, <1>7, TypeInvNext

\* The append handler, in both its parts, preserves TypeInv.
LEMMA HandleAppendType ==
  ASSUME TypeInv, NEW r \in requests, HandleAppend(r)
  PROVE  TypeInv'
<1>1. /\ AppendDone(r) /\ r.kind = "append"
      /\ UNCHANGED <<source, offered, gens, shares, sweep, lock, ids, budget>>
  BY AppendCases
<1>2. /\ r.gen \in Gens /\ r.final \in Logs /\ r.base \in Base /\ ServerType /\ session.rev \in Nat
      /\ r.base.rev \in Nat /\ r.append \in 0..MaxAppends /\ r.append # 0 /\ MaxAppends \in Nat
      /\ AppendChunk(r) \in Chunk /\ AppendChunk(r).result # <<>>
      /\ KeyOf(r.gen, AppendChunk(r)) \in Key
  BY <1>1, RequestFacts, AppendChunkFacts, TypeInvParts, SessionEventsAssumption DEF LawfulRequest
<1>3. ClientType' /\ PendingInv'
  BY <1>1, MachineUntouched
<1>4. MessageType'
  <2>1. ASSUME NEW code \in {"ok", "committed", "404", "409", "410"}, NEW rev \in Nat,
               Reply(r, code, rev)
        PROVE  MessageType'
    BY <1>1, <2>1, ReplyType
  <2>2. ASSUME requests' = (requests \ {r}) \cup {Stored(r)}, UNCHANGED up
        PROVE  MessageType'
    BY <1>1, <2>2, StoredType
  <2>3. r.base.rev + 1 \in Nat /\ session.rev + 1 \in Nat /\ 0 \in Nat
    BY <1>2
  <2> QED BY <1>1, <1>2, <2>1, <2>2, <2>3 DEF AppendDone
<1>5. chunks' \in [Gens -> SUBSET Chunk] /\ ChunkInv'
  <2>1. chunks' \in {chunks, [chunks EXCEPT ![r.gen] = @ \cup {AppendChunk(r)}]}
    BY <1>1 DEF AppendDone
  <2> QED BY <1>2, <2>1, AddChunkType
<1>6. objects' \subseteq Key
  <2>1. objects' \subseteq objects \cup {KeyOf(r.gen, AppendChunk(r))}
    BY <1>1 DEF AppendDone
  <2> QED BY <1>2, <2>1 DEF ServerType
<1>7. session' \in Base /\ stored' \subseteq Logs
  <2>1. UNCHANGED <<session, stored>> \/ MoveTo(r.gen, r.final)
    BY <1>1, Zenon DEF AppendDone
  <2> QED BY <1>2, <2>1, MoveType DEF ServerType
<1>8. \A x \in receipts' : x \in [append : 1..MaxAppends, base : Base, final : Logs]
  <2> DEFINE y == [append |-> r.append, base |-> r.base, final |-> r.final]
  <2>1. y \in [append : 1..MaxAppends, base : Base, final : Logs]
    BY <1>2
  <2>2. receipts' = receipts \/ receipts' = receipts \cup {y}
    BY <1>1 DEF AppendDone
  <2> HIDE DEF y
  <2> QED BY <1>2, <2>1, <2>2 DEF ServerType
<1>9. ServerType'
  BY <1>1, <1>2, <1>5, <1>6, <1>7, <1>8 DEF ServerType
<1> QED BY <1>3, <1>4, <1>5, <1>9, TypeInvNext

\* The loss of a request preserves TypeInv.
LEMMA LoseRequestType ==
  ASSUME TypeInv, NEW r \in requests, LoseRequest(r)
  PROVE  TypeInv'
<1>1. requests' = requests \ {r} /\ UNCHANGED <<up, offered>>
  BY DEF LoseRequest, clientVars
<1>2. \A q, v : AwaitedBy(q, v)' = AwaitedBy(q, v)
  BY DEF AwaitedBy, NextLog
<1>3. MessageType'
  BY <1>1, <1>2, PlansGrow, TypeInvParts DEF MessageType, PlanInv, RequestInv
<1>4. ClientType' /\ PendingInv'
  BY MachineUntouched DEF LoseRequest, clientVars
<1>5. ServerType' /\ ChunkInv'
  BY ServerUntouched DEF LoseRequest
<1> QED BY <1>3, <1>4, <1>5, TypeInvNext

\* Sharing and revoking preserve TypeInv.
LEMMA ShareType ==
  ASSUME TypeInv, Share \/ \E g \in Gens : Revoke(g)
  PROVE  TypeInv'
<1>1. shares' \subseteq Gens
  BY TypeInvParts, SessionEventsAssumption DEF Share, Revoke, ServerType, Base, Gens
<1>2. UNCHANGED <<source, offered, session, stored, gens, chunks, receipts, objects, sweep,
                  lock, up, ids, requests, budget>>
  BY DEF Share, Revoke, clientVars
<1>3. MessageType' /\ ClientType' /\ PendingInv'
  BY <1>2, ClientsUntouched, MachineUntouched
<1>4. ServerType' /\ ChunkInv'
  BY <1>1, <1>2, TypeInvParts DEF ServerType, ChunkInv
<1> QED BY <1>3, <1>4, TypeInvNext

\* The passing of time preserves TypeInv.
LEMMA AgeType ==
  ASSUME TypeInv, NEW g \in Gens, Age(g)
  PROVE  TypeInv'
<1>1. UNCHANGED <<source, offered, session, stored, chunks, receipts, shares, objects, sweep,
                  lock, up, ids, requests>>
  BY DEF Age, clientVars
<1>2. PICK m \in {"fresh", "idle", "expired", "superseded", "aged"} :
        gens' = [gens EXCEPT ![g].mark = m]
  BY DEF Age
<1>3. gens' \in [Gens -> GenRow]
  BY <1>2, MarkType
<1>4. budget' \in [{"edits", "faults", "idles", "sweeps", "sweepFaults"} -> Nat]
  <2>1. budget' = budget \/ Spend("idles") \/ Spend("faults")
    BY DEF Age
  <2> QED BY <2>1, SpendType, TypeInvParts DEF ClientType
<1>5. MessageType' /\ PendingInv'
  BY <1>1, ClientsUntouched
<1>6. ClientType'
  BY <1>1, <1>4, TypeInvParts DEF ClientType
<1>7. ServerType' /\ ChunkInv'
  BY <1>1, <1>3, TypeInvParts DEF ServerType, ChunkInv, GenRow
<1> QED BY <1>5, <1>6, <1>7, TypeInvNext

\* Keys of the rows of a generation are keys of that generation.
LEMMA KeysOf ==
  ASSUME TypeInv, NEW g \in Gens
  PROVE  \A ch \in chunks[g] : KeyOf(g, ch) \in Key /\ KeyOf(g, ch)[1] = g
<1> SUFFICES ASSUME NEW ch \in chunks[g] PROVE KeyOf(g, ch) \in Key /\ KeyOf(g, ch)[1] = g
  OBVIOUS
<1>1. ch \in Chunk /\ ch.result # <<>>
  BY TypeInvParts DEF ServerType, ChunkInv
<1>2. ch.start \in Nat /\ ch.result \in Logs
  BY <1>1 DEF Chunk
<1>3. ch.result[Len(ch.result)] \in Events
  BY <1>1, <1>2, LogFacts
<1> QED BY <1>2, <1>3 DEF KeyOf, Last, Key

\* The retention worker preserves TypeInv.
LEMMA SweepType ==
  ASSUME TypeInv, (\E g \in Gens : SweepBegin(g)) \/ SweepDelete \/ SweepDone \/ SweepFail
  PROVE  TypeInv'
<1>1. UNCHANGED <<source, offered, session, stored, shares, lock, up, ids, requests>>
  BY DEF SweepBegin, SweepDelete, SweepDone, SweepFail, dbVars, clientVars
<1>2. ServerType /\ ChunkInv /\ ClientType
  BY TypeInvParts
<1>3. MessageType' /\ PendingInv'
  BY <1>1, ClientsUntouched
<1>4. ClientType'
  <2>1. budget' = budget \/ Spend("sweeps") \/ Spend("sweepFaults")
    BY DEF SweepBegin, SweepDelete, SweepDone, SweepFail
  <2> QED BY <1>1, <1>2, <2>1, SpendType DEF ClientType
<1>5. CASE \E g \in Gens : SweepBegin(g)
  <2>1. PICK g \in Gens : SweepBegin(g)
    BY <1>5
  <2> DEFINE todo == {KeyOf(g, ch) : ch \in chunks[g]}
             w == [gen |-> g, todo |-> todo]
  <2>2. todo \subseteq Key
    BY KeysOf
  <2>3. sweep' = {w} /\ UNCHANGED <<gens, chunks, receipts, objects>>
    BY <2>1 DEF SweepBegin, dbVars
  <2> HIDE DEF todo
  <2>4. w \in [gen : Gens, todo : SUBSET Key]
    BY <2>2
  <2> HIDE DEF w
  <2>5. ServerType' /\ ChunkInv'
    BY <1>1, <1>2, <2>3, <2>4 DEF ServerType, ChunkInv
  <2> QED BY <1>3, <1>4, <2>5, TypeInvNext
<1>6. CASE SweepDelete
  <2>1. PICK w \in sweep : \E k \in w.todo :
          objects' = objects \ {k} /\ sweep' = {[w EXCEPT !.todo = @ \ {k}]}
    BY <1>6 DEF SweepDelete
  <2>2. PICK k \in w.todo : objects' = objects \ {k} /\ sweep' = {[w EXCEPT !.todo = @ \ {k}]}
    BY <2>1
  <2>3. [w EXCEPT !.todo = @ \ {k}] \in [gen : Gens, todo : SUBSET Key]
    BY <1>2 DEF ServerType
  <2>4. UNCHANGED <<gens, chunks, receipts>>
    BY <1>6 DEF SweepDelete, dbVars
  <2>5. sweep' \subseteq [gen : Gens, todo : SUBSET Key] /\ objects' \subseteq Key
    BY <1>2, <2>2, <2>3 DEF ServerType
  <2>6. ServerType' /\ ChunkInv'
    BY <1>1, <1>2, <2>4, <2>5 DEF ServerType, ChunkInv
  <2> QED BY <1>3, <1>4, <2>6, TypeInvNext
<1>7. CASE SweepDone
  <2>1. PICK w \in sweep :
          /\ w.todo = {}
          /\ gens' = [gens EXCEPT ![w.gen] = NoGen]
          /\ chunks' = [chunks EXCEPT ![w.gen] = {}]
          /\ receipts' = {x \in receipts : x.base.gen # w.gen}
    BY <1>7 DEF SweepDone
  <2>2. sweep' = {} /\ objects' = objects
    BY <1>7 DEF SweepDone
  <2>3. w.gen \in Gens /\ MaxGens \in Nat
    BY <1>2, SessionEventsAssumption DEF ServerType
  <2>4. NoGen \in GenRow
    BY <2>3, EmptyLog DEF NoGen, GenRow, Base
  <2>5. gens' \in [Gens -> GenRow]
    BY <1>2, <2>1, <2>3, <2>4 DEF ServerType, GenRow
  <2>6. chunks' \in [Gens -> SUBSET Chunk] /\ \A g \in Gens : chunks'[g] \subseteq chunks[g]
    BY <1>2, <2>1 DEF ServerType
  <2>7. ServerType' /\ ChunkInv'
    BY <1>1, <1>2, <2>1, <2>2, <2>5, <2>6 DEF ServerType, ChunkInv, GenRow
  <2> QED BY <1>3, <1>4, <2>7, TypeInvNext
<1>8. CASE SweepFail
  <2>1. ServerType' /\ ChunkInv'
    BY <1>1, <1>2, <1>8 DEF SweepFail, ServerType, ChunkInv, dbVars
  <2> QED BY <1>3, <1>4, <2>1, TypeInvNext
<1> QED BY <1>5, <1>6, <1>7, <1>8

\* A new session is well-typed.
LEMMA InitTypeInv == Init => TypeInv
<1> SUFFICES ASSUME Init PROVE TypeInv
  OBVIOUS
<1>1. <<>> \in Logs /\ 0 \in 0..MaxGens /\ 0 \in 0..MaxAppends
  BY EmptyLog, SessionEventsAssumption
<1>2. NoGen \in GenRow
  BY <1>1 DEF NoGen, GenRow, Base
<1>3. gens \in [Gens -> GenRow]
  BY <1>2 DEF Init
<1>4. ServerType
  BY <1>1, <1>3 DEF Init, ServerType, GenRow, Base
<1>5. budget \in [{"edits", "faults", "idles", "sweeps", "sweepFaults"} -> Nat]
  BY SessionEventsAssumption DEF Init
<1>6. ClientType
  BY <1>1, <1>5 DEF Init, ClientType
<1>7. ChunkInv /\ PendingInv /\ MessageType
  BY DEF Init, ChunkInv, PendingInv, MessageType, PlanInv, RequestInv
<1> QED BY <1>4, <1>6, <1>7, TypeInvParts

\* Every step preserves TypeInv.
LEMMA NextTypeInv == TypeInv /\ [Next]_vars => TypeInv'
<1> SUFFICES ASSUME TypeInv, [Next]_vars PROVE TypeInv'
  OBVIOUS
<1>1. ASSUME NEW l \in Logs, Transcribe(l) PROVE TypeInv'
  BY <1>1, TranscribeType
<1>2. ASSUME NEW c \in Clients,
             BeginUpload(c) \/ GetHead(c) \/ SendAppend(c) \/ SendStage(c) \/ SendNext(c)
               \/ Receive(c) \/ BreakOff(c)
      PROVE  TypeInv'
  BY <1>2, BeginUploadType, GetHeadType, SendAppendType, SendStageType, SendNextType, ReceiveType,
     BreakOffType
<1>3. ASSUME NEW r \in requests,
             HandleStage(r) \/ HandlePut(r) \/ HandleCommit(r) \/ HandleAppend(r) \/ LoseRequest(r)
      PROVE  TypeInv'
  BY <1>3, HandleStageType, HandlePutType, HandleCommitType, HandleAppendType, LoseRequestType
<1>4. ASSUME NEW g \in Gens, Revoke(g) \/ Age(g) \/ SweepBegin(g) PROVE TypeInv'
  BY <1>4, ShareType, AgeType, SweepType
<1>5. ASSUME Share \/ SweepDelete \/ SweepDone \/ SweepFail PROVE TypeInv'
  BY <1>5, ShareType, SweepType
<1>6. CASE UNCHANGED vars
  <2>1. UNCHANGED <<source, offered, dbVars, objects, sweep, lock, up, ids, requests, budget>>
    BY <1>6 DEF vars, clientVars
  <2> QED BY <2>1, ServerUntouched, ClientsUntouched, MachineUntouched, TypeInvNext
<1> QED BY <1>1, <1>2, <1>3, <1>4, <1>5, <1>6, Zenon DEF Next

\* Every variable keeps its type; in particular no upload, request or row is made
\* of anything but transcripts that were read from the source, and an uploader
\* waits for at most one request, the one of its step.
THEOREM EventsTypeCorrect == Spec => []TypeOK
<1>1. TypeInv => TypeOK
  BY DEF TypeInv
<1> QED BY <1>1, InitTypeInv, NextTypeInv, PTL DEF Spec

-----------------------------------------------------------------------------
(***************************************************************************)
(* The current generation, the marks and the sweep.                        *)
(***************************************************************************)

\* What RowsInv says is about these variables only.
LEMMA RowsUntouched ==
  ASSUME RowsInv, UNCHANGED <<session, stored, gens, chunks, shares, sweep>>
  PROVE  RowsInv'
<1>1. CurrentInv'
  BY DEF RowsInv, CurrentInv, Chained
<1>2. MarkInv'
  BY DEF RowsInv, MarkInv
<1>3. SweepInv'
  BY DEF RowsInv, SweepInv
<1> QED BY <1>1, <1>2, <1>3 DEF RowsInv

\* The generation the session row names, and the one a sweep has locked.
LEMMA CurrentFacts ==
  ASSUME TypeInv, RowsInv
  PROVE  /\ session.gen # 0 => session.gen \in Gens
         /\ ~Locked(session.gen)
         /\ \A g \in shares : ~Locked(g)
         /\ 0 \notin Gens
<1>1. session.gen # 0 => session.gen \in Gens
  BY TypeInvParts, SessionEventsAssumption DEF ServerType, Base, Gens
<1>2. 0 \notin Gens
  BY SessionEventsAssumption DEF Gens
<1> QED BY <1>1, <1>2 DEF RowsInv, SweepInv, Locked

\* A row is staged, touched, aged or removed, and the session row stays: the
\* current generation must not be that row.
LEMMA OtherRow ==
  ASSUME TypeInv, RowsInv, NEW g \in Gens, g # session.gen,
         \A h \in Gens \ {g} : gens'[h] = gens[h],
         \A h \in Gens \ {g} : chunks'[h] = chunks[h],
         UNCHANGED <<session, stored>>
  PROVE  CurrentInv'
<1>1. session.gen # 0 => session.gen \in Gens \ {g}
  BY CurrentFacts
<1> QED BY <1>1 DEF RowsInv, CurrentInv, Chained

\* The stage handler preserves RowsInv.
LEMMA StageRows ==
  ASSUME TypeInv, RowsInv, NEW r \in requests, HandleStage(r)
  PROVE  RowsInv'
<1>1. StageDone(r) /\ UNCHANGED <<session, stored, chunks, shares, sweep>>
  BY StageCases
<1>2. r.gen \in Gens /\ gens \in [Gens -> GenRow]
  BY RequestFacts, TypeInvParts DEF ServerType, GenRow
<1>3. CASE UNCHANGED gens
  BY <1>1, <1>3, RowsUntouched
<1>4. CASE /\ gens[r.gen].status = "none"
           /\ gens' = [gens EXCEPT ![r.gen] = [status |-> "staging", mark |-> "fresh",
                                               base |-> r.base, final |-> r.final]]
  <2>1. /\ gens'[r.gen].status = "staging" /\ gens'[r.gen].mark = "fresh"
        /\ \A h \in Gens \ {r.gen} : gens'[h] = gens[h]
    BY <1>2, <1>4
  <2>2. r.gen # session.gen
    BY <1>2, <1>4, CurrentFacts DEF RowsInv, CurrentInv
  <2>3. CurrentInv'
    BY <1>1, <1>2, <2>1, <2>2, OtherRow
  <2>4. MarkInv'
    BY <1>2, <2>1 DEF RowsInv, MarkInv
  <2>5. \A w \in sweep : w.gen \in Gens \ {r.gen}
    BY <1>4, TypeInvParts DEF RowsInv, SweepInv, ServerType
  <2>6. SweepInv'
    BY <1>1, <2>1, <2>5 DEF RowsInv, SweepInv
  <2> QED BY <2>3, <2>4, <2>6 DEF RowsInv
<1> QED BY <1>1, <1>3, <1>4 DEF StageDone

\* The put handler preserves RowsInv: it adds rows to staging generations only.
LEMMA PutRows ==
  ASSUME TypeInv, RowsInv, NEW r \in requests, HandlePut(r)
  PROVE  RowsInv'
<1>1. PutDone(r) /\ ~Locked(r.gen) /\ UNCHANGED <<session, stored, shares, sweep>>
  BY PutCases
<1>2. r.gen \in Gens /\ gens \in [Gens -> GenRow] /\ chunks \in [Gens -> SUBSET Chunk]
  BY RequestFacts, TypeInvParts DEF ServerType, GenRow
<1>3. CASE UNCHANGED <<gens, chunks>>
  BY <1>1, <1>3, RowsUntouched
<1>4. CASE /\ Open(r.gen) /\ Touched(r.gen)
           /\ chunks' \in {chunks, [chunks EXCEPT ![r.gen] = @ \cup {PutChunk(r)}]}
  <2>1. /\ gens' \in [Gens -> GenRow]
        /\ gens'[r.gen].status = "staging" /\ gens'[r.gen].mark = "fresh"
        /\ \A h \in Gens \ {r.gen} : gens'[h] = gens[h]
    <3>1. gens' = [gens EXCEPT ![r.gen].mark = "fresh"]
      BY <1>4 DEF Touched
    <3>2. /\ gens' \in [Gens -> GenRow]
          /\ \A h \in Gens : gens'[h].status = gens[h].status /\ gens'[h].base = gens[h].base
                             /\ gens'[h].final = gens[h].final
                             /\ gens'[h].mark = IF h = r.gen THEN "fresh" ELSE gens[h].mark
          /\ \A h \in Gens \ {r.gen} : gens'[h] = gens[h]
      BY <1>2, <3>1, MarkType, Zenon
    <3> QED BY <1>2, <1>4, <3>2 DEF Open
  <2>2. \A h \in Gens \ {r.gen} : chunks'[h] = chunks[h]
    BY <1>2, <1>4
  <2>3. r.gen # session.gen
    BY <1>2, <1>4, CurrentFacts DEF RowsInv, CurrentInv, Open
  <2>4. CurrentInv'
    BY <1>1, <1>2, <2>1, <2>2, <2>3, OtherRow
  <2>5. MarkInv'
    BY <1>2, <2>1 DEF RowsInv, MarkInv
  <2>6. \A w \in sweep : w.gen \in Gens \ {r.gen}
    BY <1>1, TypeInvParts DEF Locked, ServerType
  <2>7. SweepInv'
    BY <1>1, <2>1, <2>6 DEF RowsInv, SweepInv
  <2> QED BY <2>4, <2>5, <2>7 DEF RowsInv
<1> QED BY <1>1, <1>3, <1>4 DEF PutDone

\* The commit handler preserves RowsInv: what it makes current is a whole chain.
LEMMA CommitRowsInv ==
  ASSUME TypeInv, RowsInv, NEW r \in requests, HandleCommit(r)
  PROVE  RowsInv'
<1>1. CommitDone(r) /\ ~Locked(r.gen) /\ UNCHANGED <<chunks, shares, sweep>>
  BY CommitCases
<1>2. r.gen \in Gens /\ r.final \in Logs
  BY RequestFacts
<1>3. CASE UNCHANGED <<session, stored, gens>>
  BY <1>1, <1>3, RowsUntouched
<1>4. CASE /\ Chained(r.gen, r.final) /\ MoveTo(r.gen, r.final)
           /\ gens' = [h \in Gens |-> IF h = r.gen THEN [gens[h] EXCEPT !.status = "committed",
                                                                        !.mark = "fresh"]
                                      ELSE IF h = session.gen
                                      THEN [gens[h] EXCEPT !.mark = "superseded"] ELSE gens[h]]
  <2>1. session'.gen = r.gen /\ session'.log = r.final /\ r.final \in stored'
    BY <1>2, <1>4, MoveType
  <2>2. /\ gens'[r.gen].status = "committed" /\ gens'[r.gen].mark = "fresh"
        /\ \A h \in Gens \ {r.gen} :
             /\ gens'[h].status = gens[h].status
             /\ gens'[h].mark = IF h = session.gen THEN "superseded" ELSE gens[h].mark
    BY <1>2, <1>4, CommitRows
  <2>3. CurrentInv'
    BY <1>1, <1>4, <2>1, <2>2 DEF CurrentInv, Chained
  <2>4. session.gen \in Gens => gens[session.gen].status = "committed"
    BY CurrentFacts DEF RowsInv, CurrentInv
  <2>5. MarkInv'
    <3> SUFFICES ASSUME NEW g \in Gens
                 PROVE  /\ gens'[g].status = "none" => gens'[g].mark = "fresh"
                        /\ gens'[g].status = "staging" => gens'[g].mark \in {"fresh", "idle", "expired"}
                        /\ gens'[g].status = "committed"
                             => gens'[g].mark \in {"fresh", "superseded", "aged"}
      BY DEF MarkInv
    <3>1. CASE g = r.gen
      BY <2>2, <3>1
    <3>2. CASE g # r.gen /\ g = session.gen
      BY <2>2, <2>4, <3>2
    <3>3. CASE g # r.gen /\ g # session.gen
      BY <2>2, <3>3 DEF RowsInv, MarkInv
    <3> QED BY <3>1, <3>2, <3>3
  <2>6. \A w \in sweep : w.gen \in Gens \ {r.gen} /\ w.gen # session.gen
    BY <1>1, TypeInvParts DEF Locked, ServerType, RowsInv, SweepInv
  <2>7. SweepInv'
    <3>1. \A w \in sweep' : /\ w.gen # session'.gen /\ w.gen \notin shares'
                            /\ gens'[w.gen].status # "none"
                            /\ gens'[w.gen].mark \in {"idle", "expired", "aged"}
                            /\ \A k \in w.todo : k[1] = w.gen
      BY <1>1, <2>1, <2>2, <2>6 DEF RowsInv, SweepInv
    <3>2. \A v, w \in sweep' : v = w
      BY <1>1 DEF RowsInv, SweepInv
    <3> QED BY <3>1, <3>2 DEF SweepInv
  <2> QED BY <2>3, <2>5, <2>7 DEF RowsInv
<1> QED BY <1>1, <1>3, <1>4, Zenon DEF CommitDone

\* The chain of the current generation with the chunk that was appended.
LEMMA ChainGrows ==
  ASSUME TypeInv, NEW r \in requests, r.kind = "append", Chained(r.gen, r.base.log),
         chunks' = [chunks EXCEPT ![r.gen] = @ \cup {AppendChunk(r)}]
  PROVE  Chained(r.gen, r.final)'
<1> DEFINE l == r.base.log
           f == r.final
           g == r.gen
           new == AppendChunk(r)
<1>1. /\ g \in Gens /\ l \in Logs /\ f \in Logs /\ Len(f) = Len(l) + 1
      /\ SubSeq(f, 1, Len(l)) = l
      /\ new.start = Len(l) /\ new.base = l /\ new.result = f
  BY RequestFacts, AppendChunkFacts
<1>2. Len(l) \in Nat /\ Len(f) \in Nat
  BY <1>1, LogFacts
<1>3. chunks'[g] = chunks[g] \cup {new}
  BY <1>1, TypeInvParts DEF ServerType
<1>4. /\ {ch.start : ch \in chunks[g]} = 0..(Len(l) - 1)
      /\ \A ch \in chunks[g] : /\ ch.base = SubSeq(l, 1, ch.start)
                               /\ ch.result = SubSeq(l, 1, ch.start + 1)
  BY DEF Chained
<1> HIDE DEF new, l, f, g
<1>5. {ch.start : ch \in chunks'[g]} = 0..(Len(f) - 1)
  <2>1. {ch.start : ch \in chunks'[g]} = {ch.start : ch \in chunks[g]} \cup {new.start}
    BY <1>3
  <2>2. 0..(Len(l) - 1) \cup {Len(l)} = 0..(Len(f) - 1)
    BY <1>1, <1>2
  <2> QED BY <1>1, <1>4, <2>1, <2>2
<1>6. ASSUME NEW ch \in chunks'[g]
      PROVE  ch.base = SubSeq(f, 1, ch.start) /\ ch.result = SubSeq(f, 1, ch.start + 1)
  <2>1. CASE ch = new
    <3>1. Len(f) \in 0..Len(f)
      BY <1>2
    <3>2. SubSeq(f, 1, Len(f)) = f
      BY <1>1, <3>1, Beginning
    <3> QED BY <1>1, <2>1, <3>2
  <2>2. CASE ch \in chunks[g]
    <3>1. PICK n : n = ch.start
      OBVIOUS
    <3>2. n \in 0..(Len(l) - 1)
      BY <1>4, <2>2, <3>1
    <3>3. n \in 0..Len(l) /\ n + 1 \in 0..Len(l) /\ Len(l) \in 0..Len(f)
      BY <1>1, <1>2, <3>2
    <3>4. \A m \in 0..Len(l) : SubSeq(SubSeq(f, 1, Len(l)), 1, m) = SubSeq(f, 1, m)
      BY <1>1, <3>3, BeginningOfBeginning
    <3>5. \A m \in 0..Len(l) : SubSeq(l, 1, m) = SubSeq(f, 1, m)
      BY <1>1, <3>4
    <3> QED BY <1>4, <2>2, <3>1, <3>3, <3>5
  <2> QED BY <1>3, <2>1, <2>2
<1>7. /\ {ch.start : ch \in chunks'[g]} = 0..(Len(f) - 1)
      /\ \A ch \in chunks'[g] : ch.base = SubSeq(f, 1, ch.start)
                                /\ ch.result = SubSeq(f, 1, ch.start + 1)
  BY <1>5, <1>6
<1> QED BY <1>7 DEF Chained, g, f

\* The append handler preserves RowsInv: its row continues the chain.
LEMMA AppendRows ==
  ASSUME TypeInv, RowsInv, NEW r \in requests, HandleAppend(r)
  PROVE  RowsInv'
<1>1. AppendDone(r) /\ r.kind = "append" /\ UNCHANGED <<gens, shares, sweep>>
  BY AppendCases
<1>2. /\ r.gen \in Gens /\ r.final \in Logs /\ r.base \in Base /\ r.gen = r.base.gen
  BY <1>1, RequestFacts DEF LawfulRequest
<1>3. CASE UNCHANGED <<session, stored, chunks>>
  BY <1>1, <1>3, RowsUntouched
<1>4. CASE /\ BaseMatches(r) /\ MoveTo(r.gen, r.final)
           /\ chunks' = [chunks EXCEPT ![r.gen] = @ \cup {AppendChunk(r)}]
  <2>1. session'.gen = r.gen /\ session'.log = r.final /\ r.final \in stored'
    BY <1>2, <1>4, MoveType
  <2>2. session.gen = r.gen /\ session.log = r.base.log /\ r.gen # 0
    BY <1>2, <1>4, CurrentFacts DEF BaseMatches, cas_matches
  <2>3. Chained(r.gen, r.base.log)
        /\ gens[r.gen].status = "committed" /\ gens[r.gen].mark = "fresh"
    BY <2>2 DEF RowsInv, CurrentInv
  <2>4. Chained(r.gen, r.final)'
    BY <1>1, <1>4, <2>3, ChainGrows
  <2>5. CurrentInv'
    BY <1>1, <2>1, <2>3, <2>4 DEF CurrentInv, Chained
  <2>6. MarkInv'
    BY <1>1 DEF RowsInv, MarkInv
  <2>7. SweepInv'
    BY <1>1, <2>1, <2>2 DEF RowsInv, SweepInv
  <2> QED BY <2>5, <2>6, <2>7 DEF RowsInv
<1> QED BY <1>1, <1>3, <1>4 DEF AppendDone

\* The passing of time preserves RowsInv.
LEMMA AgeRows ==
  ASSUME TypeInv, RowsInv, NEW g \in Gens, Age(g)
  PROVE  RowsInv'
<1>1. UNCHANGED <<session, stored, chunks, shares, sweep>>
  BY DEF Age
<1>2. PICK m \in {"fresh", "idle", "expired", "superseded", "aged"} :
        /\ gens' = [gens EXCEPT ![g].mark = m]
        /\ \/ gens[g].status = "staging" /\ m \in {"idle", "expired"}
           \/ gens[g].status = "committed" /\ gens[g].mark = "superseded" /\ m = "aged"
  BY DEF Age
<1>3. /\ gens \in [Gens -> GenRow] /\ gens' \in [Gens -> GenRow]
      /\ \A h \in Gens : gens'[h].status = gens[h].status
                         /\ gens'[h].mark = IF h = g THEN m ELSE gens[h].mark
      /\ \A h \in Gens \ {g} : gens'[h] = gens[h]
  <2>2. gens \in [Gens -> GenRow]
    BY TypeInvParts DEF ServerType, GenRow
  <2> DEFINE row == [gens[g] EXCEPT !.mark = m]
  <2>3. row \in GenRow /\ row.status = gens[g].status /\ row.mark = m
    BY <2>2 DEF GenRow
  <2>4. gens' = [gens EXCEPT ![g] = row]
    BY <1>2, <2>2
  <2> HIDE DEF row
  <2>5. \A h \in Gens : gens'[h] = IF h = g THEN row ELSE gens[h]
    BY <2>2, <2>4
  <2> QED BY <2>2, <2>3, <2>4, <2>5
<1>4. g # session.gen
  BY <1>2, CurrentFacts DEF RowsInv, CurrentInv
<1>5. CurrentInv'
  BY <1>1, <1>3, <1>4, OtherRow
<1>6. MarkInv'
  BY <1>2, <1>3 DEF RowsInv, MarkInv
<1>7. SweepInv'
  <2>1. \A w \in sweep : w.gen \in Gens
    BY TypeInvParts DEF ServerType
  <2>2. \A w \in sweep : gens'[w.gen].status # "none" /\ gens'[w.gen].mark \in {"idle", "expired", "aged"}
    BY <1>2, <1>3, <2>1 DEF RowsInv, SweepInv
  <2> QED BY <1>1, <2>2 DEF RowsInv, SweepInv
<1> QED BY <1>5, <1>6, <1>7 DEF RowsInv

\* Sharing and revoking preserve RowsInv: only a generation not locked is shared.
LEMMA ShareRows ==
  ASSUME TypeInv, RowsInv, Share \/ \E g \in Gens : Revoke(g)
  PROVE  RowsInv'
<1>1. UNCHANGED <<session, stored, gens, chunks, sweep>> /\ shares' \subseteq shares \cup {session.gen}
  BY DEF Share, Revoke
<1>2. CurrentInv'
  BY <1>1 DEF RowsInv, CurrentInv, Chained
<1>3. MarkInv'
  BY <1>1 DEF RowsInv, MarkInv
<1>4. SweepInv'
  BY <1>1 DEF RowsInv, SweepInv
<1> QED BY <1>2, <1>3, <1>4 DEF RowsInv

\* The retention worker preserves RowsInv.
LEMMA SweepRows ==
  ASSUME TypeInv, RowsInv, (\E g \in Gens : SweepBegin(g)) \/ SweepDelete \/ SweepDone \/ SweepFail
  PROVE  RowsInv'
<1>1. UNCHANGED <<session, stored, shares>>
  BY DEF SweepBegin, SweepDelete, SweepDone, SweepFail, dbVars
<1>2. CASE UNCHANGED <<gens, chunks>>
  <2>1. CurrentInv' /\ MarkInv'
    BY <1>1, <1>2 DEF RowsInv, CurrentInv, Chained, MarkInv
  <2>2. CASE \E g \in Gens : SweepBegin(g)
    <3>1. PICK g \in Gens : SweepBegin(g)
      BY <2>2
    <3> DEFINE todo == {KeyOf(g, ch) : ch \in chunks[g]}
    <3>2. sweep' = {[gen |-> g, todo |-> todo]}
      BY <3>1 DEF SweepBegin
    <3>3. \A k \in todo : k[1] = g
      BY KeysOf
    <3> HIDE DEF todo
    <3>4. /\ g # session.gen /\ g \notin shares /\ gens[g].status # "none"
          /\ gens[g].mark \in {"idle", "expired", "aged"}
      BY <3>1 DEF SweepBegin, Removable
    <3>5. SweepInv'
      BY <1>1, <1>2, <3>2, <3>3, <3>4 DEF SweepInv
    <3> QED BY <2>1, <3>5 DEF RowsInv
  <2>3. CASE SweepDelete
    <3>1. PICK w \in sweep : \E k \in w.todo : sweep' = {[w EXCEPT !.todo = @ \ {k}]}
      BY <2>3 DEF SweepDelete
    <3>5. PICK k \in w.todo : sweep' = {[w EXCEPT !.todo = @ \ {k}]}
      BY <3>1
    <3> DEFINE v == [w EXCEPT !.todo = @ \ {k}]
    <3>2. v.gen = w.gen /\ v.todo \subseteq w.todo
      BY TypeInvParts DEF ServerType
    <3>3. sweep' = {v}
      BY <3>5
    <3> HIDE DEF v
    <3>4. SweepInv'
      BY <1>1, <1>2, <3>2, <3>3 DEF RowsInv, SweepInv
    <3> QED BY <2>1, <3>4 DEF RowsInv
  <2>4. CASE SweepFail \/ SweepDone
    <3>1. sweep' = {}
      BY <2>4 DEF SweepFail, SweepDone
    <3>2. SweepInv'
      BY <3>1 DEF SweepInv
    <3> QED BY <2>1, <3>2 DEF RowsInv
  <2> QED BY <2>2, <2>3, <2>4
<1>3. CASE SweepDone
  <2>1. PICK w \in sweep :
          /\ gens' = [gens EXCEPT ![w.gen] = NoGen]
          /\ chunks' = [chunks EXCEPT ![w.gen] = {}]
    BY <1>3 DEF SweepDone
  <2>2. /\ w.gen \in Gens /\ w.gen # session.gen
        /\ gens \in [Gens -> GenRow] /\ chunks \in [Gens -> SUBSET Chunk]
    BY TypeInvParts DEF ServerType, GenRow, RowsInv, SweepInv
  <2>3. /\ \A h \in Gens \ {w.gen} : gens'[h] = gens[h] /\ chunks'[h] = chunks[h]
        /\ gens'[w.gen] = NoGen
    BY <2>1, <2>2
  <2>4. CurrentInv'
    BY <1>1, <2>2, <2>3, OtherRow
  <2>5. MarkInv'
    BY <2>2, <2>3 DEF RowsInv, MarkInv, NoGen
  <2>6. SweepInv'
    BY <1>3 DEF SweepDone, SweepInv
  <2> QED BY <2>4, <2>5, <2>6 DEF RowsInv
<1> QED BY <1>2, <1>3 DEF SweepBegin, SweepDelete, SweepFail, dbVars

\* Nothing the uploaders do touches the rows.
LEMMA UploaderRows ==
  ASSUME (\E l \in Logs : Transcribe(l))
           \/ (\E c \in Clients : BeginUpload(c) \/ GetHead(c) \/ SendAppend(c) \/ SendStage(c)
                                    \/ SendNext(c) \/ Receive(c) \/ BreakOff(c))
           \/ (\E r \in requests : LoseRequest(r))
  PROVE  UNCHANGED <<dbVars, objects, sweep>>
<1>1. ASSUME NEW l \in Logs, Transcribe(l) PROVE UNCHANGED <<dbVars, objects, sweep>>
  BY <1>1 DEF Transcribe
<1>2. ASSUME NEW c \in Clients,
             BeginUpload(c) \/ GetHead(c) \/ SendAppend(c) \/ SendStage(c) \/ SendNext(c)
               \/ Receive(c) \/ BreakOff(c)
      PROVE  UNCHANGED <<dbVars, objects, sweep>>
  <2>1. CASE BeginUpload(c) \/ GetHead(c) \/ BreakOff(c)
    BY <2>1 DEF BeginUpload, GetHead, BreakOff
  <2>2. CASE SendAppend(c) \/ SendStage(c) \/ SendNext(c)
    BY <2>2 DEF SendAppend, SendStage, SendNext
  <2>3. CASE Receive(c)
    BY <2>3 DEF Receive
  <2> QED BY <1>2, <2>1, <2>2, <2>3
<1>3. ASSUME NEW r \in requests, LoseRequest(r) PROVE UNCHANGED <<dbVars, objects, sweep>>
  BY <1>3 DEF LoseRequest
<1> QED BY <1>1, <1>2, <1>3

\* Every step preserves RowsInv.
LEMMA NextRowsInv == TypeInv /\ RowsInv /\ [Next]_vars => RowsInv'
<1> SUFFICES ASSUME TypeInv, RowsInv, [Next]_vars PROVE RowsInv'
  OBVIOUS
<1>1. ASSUME NEW l \in Logs, Transcribe(l) PROVE RowsInv'
  BY <1>1, UploaderRows, RowsUntouched DEF dbVars
<1>2. ASSUME NEW c \in Clients,
             BeginUpload(c) \/ GetHead(c) \/ SendAppend(c) \/ SendStage(c) \/ SendNext(c)
               \/ Receive(c) \/ BreakOff(c)
      PROVE  RowsInv'
  BY <1>2, UploaderRows, RowsUntouched DEF dbVars
<1>3. ASSUME NEW r \in requests,
             HandleStage(r) \/ HandlePut(r) \/ HandleCommit(r) \/ HandleAppend(r) \/ LoseRequest(r)
      PROVE  RowsInv'
  BY <1>3, StageRows, PutRows, CommitRowsInv, AppendRows, UploaderRows, RowsUntouched DEF dbVars
<1>4. ASSUME NEW g \in Gens, Revoke(g) \/ Age(g) \/ SweepBegin(g) PROVE RowsInv'
  BY <1>4, ShareRows, AgeRows, SweepRows
<1>5. ASSUME Share \/ SweepDelete \/ SweepDone \/ SweepFail PROVE RowsInv'
  BY <1>5, ShareRows, SweepRows
<1>6. CASE UNCHANGED vars
  BY <1>6, RowsUntouched DEF vars, dbVars
<1> QED BY <1>1, <1>2, <1>3, <1>4, <1>5, <1>6, Zenon DEF Next

\* A new session has no rows.
LEMMA InitRowsInv == Init => RowsInv
<1> SUFFICES ASSUME Init PROVE RowsInv
  OBVIOUS
<1>1. CurrentInv
  BY DEF Init, CurrentInv
<1>2. MarkInv
  BY DEF Init, MarkInv, NoGen
<1>3. SweepInv
  BY DEF Init, SweepInv
<1> QED BY <1>1, <1>2, <1>3 DEF RowsInv

-----------------------------------------------------------------------------
(***************************************************************************)
(* An uploader is told the truth.                                          *)
(***************************************************************************)

Uploads(c) ==
  BeginUpload(c) \/ GetHead(c) \/ SendAppend(c) \/ SendStage(c) \/ SendNext(c) \/ Receive(c)
    \/ BreakOff(c)

SameStored(q, r) ==
  r.stored /\ q.kind = r.kind /\ q.gen = r.gen /\ q.base = r.base /\ q.final = r.final /\ q.at = r.at

\* The base of upload v of uploader c after a step: the row as it is read, the base
\* before, or the append it was told of.
NextBase(c, v) ==
  \/ v.base = session
  \/ \E u \in up[c] : v.base = u.base
  \/ \E u \in up[c] : \E a \in u.answer :
       u.pc = "append" /\ a.code = "ok" /\ v.base = Appended(u, a)

\* A step of an uploader leaves the others alone, leaves no answer with itself and
\* sends no request that is half handled already.
LEMMA UploaderSteps ==
  ASSUME TypeInv, NEW c \in Clients, Uploads(c)
  PROVE  /\ \A d \in Clients : \A v \in up'[d] : v \in up[d] \/ (v.answer = {} /\ NextBase(d, v))
         /\ \A q \in requests' : q.stored => \E r \in requests : SameStored(q, r)
<1>1. up \in [Clients -> SUBSET Upload] /\ requests \subseteq Request
  BY TypeInvParts DEF MessageType
<1>2. ASSUME NEW X, up' = [up EXCEPT ![c] = X], \A v \in X : v.answer = {} /\ NextBase(c, v)
      PROVE  \A d \in Clients : \A v \in up'[d] : v \in up[d] \/ (v.answer = {} /\ NextBase(d, v))
  BY <1>1, <1>2
<1>3. requests' = requests => \A q \in requests' : q.stored => \E r \in requests : SameStored(q, r)
  BY DEF SameStored
<1>4. \A u \in up[c] : u \in Upload /\ (~u.waiting \/ u.pc = "head" => u.answer = {})
  BY <1>1, TypeInvParts DEF MessageType, PlanInv, PlanOf
<1>5. CASE BeginUpload(c)
  <2>1. PICK u : u = [plan |-> source, pc |-> "head", tries |-> 0, confirmed |-> FALSE,
                      base |-> session, id |-> 0, at |-> 0, waiting |-> FALSE, answer |-> {}]
    OBVIOUS
  <2>2. /\ u.answer = {} /\ NextBase(c, u)
        /\ up' = [up EXCEPT ![c] = {u}] /\ requests' = requests
    BY <1>5, <2>1 DEF BeginUpload, NextBase
  <2> QED BY <1>2, <1>3, <2>2
<1>6. CASE GetHead(c)
  <2>1. requests' = requests
    BY <1>6 DEF GetHead
  <2>2. PICK u \in up[c] :
          /\ u.pc = "head"
          /\ \/ Synced(c, u)
             \/ up' = [up EXCEPT ![c] =
                  IF session.gen # 0 /\ IsStrictPrefix(session.log, u.plan)
                  THEN {[u EXCEPT !.pc = "append", !.base = session]}
                  ELSE IF Shrinks(u) /\ ~u.confirmed /\ source # u.plan
                  THEN {}
                  ELSE {[u EXCEPT !.pc = "stage", !.base = session,
                                  !.confirmed = @ \/ Shrinks(u)]}]
    BY <1>6 DEF GetHead
  <2>3. u.answer = {} /\ u \in Upload
    BY <1>4, <2>2
  <2> DEFINE v == [u EXCEPT !.pc = "append", !.base = session]
             w == [u EXCEPT !.pc = "stage", !.base = session, !.confirmed = @ \/ Shrinks(u)]
             X == IF session.gen # 0 /\ IsStrictPrefix(session.log, u.plan) THEN {v}
                  ELSE IF Shrinks(u) /\ ~u.confirmed /\ source # u.plan THEN {} ELSE {w}
  <2>4. v.answer = {} /\ w.answer = {} /\ NextBase(c, v) /\ NextBase(c, w)
    <3>1. v.answer = {} /\ w.answer = {} /\ v.base = session /\ w.base = session
      BY <2>3 DEF Upload
    <3> QED BY <3>1 DEF NextBase
  <2>5. CASE Synced(c, u)
    BY <1>2, <1>3, <2>1, <2>5 DEF Synced
  <2>6. CASE up' = [up EXCEPT ![c] = X]
    <3> HIDE DEF v, w
    <3>1. \A x \in X : x.answer = {} /\ NextBase(c, x)
      BY <2>4
    <3> HIDE DEF X
    <3> QED BY <1>2, <1>3, <2>1, <2>6, <3>1
  <2> QED BY <2>2, <2>5, <2>6
<1>7. ASSUME NEW u \in up[c], ~u.waiting, NEW p, Send(c, u, p)
      PROVE  /\ \A d \in Clients : \A v \in up'[d] : v \in up[d] \/ (v.answer = {} /\ NextBase(d, v))
             /\ \A q \in requests' : q.stored => \E r \in requests : SameStored(q, r)
  <2> DEFINE v == [u EXCEPT !.id = p.gen, !.waiting = TRUE]
             q == RequestOf(c, u, p)
  <2>1. v.answer = {} /\ NextBase(c, v) /\ ~q.stored
    <3>1. u \in Upload /\ u.answer = {}
      BY <1>4, <1>7
    <3>2. v.answer = {} /\ v.base = u.base
      BY <3>1 DEF Upload
    <3>3. ~q.stored
      BY DEF RequestOf
    <3> QED BY <3>2, <3>3 DEF NextBase
  <2>2. up' = [up EXCEPT ![c] = {v}] /\ requests' = requests \cup {q}
    BY <1>7 DEF Send
  <2> HIDE DEF v, q
  <2>3. \A d \in Clients : \A x \in up'[d] : x \in up[d] \/ (x.answer = {} /\ NextBase(d, x))
    BY <1>2, <2>1, <2>2
  <2>4. \A x \in requests' : x.stored => \E r \in requests : SameStored(x, r)
    BY <2>1, <2>2 DEF SameStored
  <2> QED BY <2>3, <2>4
<1>8. CASE SendAppend(c) \/ SendStage(c) \/ SendNext(c)
  <2>1. PICK u \in up[c] : ~u.waiting /\ \E p : Send(c, u, p)
    <3>1. CASE SendAppend(c)
      BY <3>1, Zenon DEF SendAppend
    <3>2. CASE SendStage(c)
      BY <3>2, Zenon DEF SendStage
    <3>3. CASE SendNext(c)
      BY <3>3, Zenon DEF SendNext
    <3> QED BY <1>8, <3>1, <3>2, <3>3
  <2> QED BY <1>7, <2>1
<1>9. CASE Receive(c)
  <2>1. requests' = requests
    BY <1>9 DEF Receive
  <2>2. PICK u \in up[c], a \in UNION {v.answer : v \in up[c]} :
           \/ Retry(c, u) \/ Synced(c, u) \/ up' = [up EXCEPT ![c] = {}]
           \/ \E pc, at : Proceed(c, u, pc, at)
           \/ /\ u.pc = "append" /\ a.code = "ok"
              /\ Proceed(c, [u EXCEPT !.base = [@ EXCEPT !.rev = a.rev, !.log = NextLog(u)]],
                         "append", 0)
    BY <1>9, Zenon DEF Receive
  <2>3. u \in Upload /\ a \in u.answer
    <3>1. \A v \in up[c] : v = u
      BY TypeInvParts DEF MessageType, PlanInv
    <3> QED BY <1>4, <2>2, <3>1
  <2>4. CASE Retry(c, u)
    <3> DEFINE v == [u EXCEPT !.pc = "head", !.tries = @ + 1, !.at = 0, !.waiting = FALSE,
                              !.answer = {}]
               X == IF u.tries + 1 < RetryLimit THEN {v} ELSE {}
    <3>1. v.answer = {} /\ v.base = u.base /\ up' = [up EXCEPT ![c] = X]
      BY <2>3, <2>4 DEF Upload, Retry
    <3> HIDE DEF v
    <3>2. \A x \in X : x.answer = {} /\ NextBase(c, x)
      BY <3>1 DEF NextBase
    <3> HIDE DEF X
    <3> QED BY <1>2, <1>3, <2>1, <3>1, <3>2
  <2>5. CASE Synced(c, u) \/ up' = [up EXCEPT ![c] = {}]
    BY <1>2, <1>3, <2>1, <2>5 DEF Synced
  <2>6. CASE \E pc, at : Proceed(c, u, pc, at)
    <3>1. PICK pc, at : Proceed(c, u, pc, at)
      BY <2>6
    <3> DEFINE v == [u EXCEPT !.pc = pc, !.at = at, !.waiting = FALSE, !.answer = {}]
    <3>2. v.answer = {} /\ v.base = u.base /\ up' = [up EXCEPT ![c] = {v}]
      BY <2>3, <3>1 DEF Upload, Proceed
    <3> HIDE DEF v
    <3>3. NextBase(c, v)
      BY <3>2 DEF NextBase
    <3> QED BY <1>2, <1>3, <2>1, <3>2, <3>3
  <2>7. CASE /\ u.pc = "append" /\ a.code = "ok"
             /\ Proceed(c, [u EXCEPT !.base = [@ EXCEPT !.rev = a.rev, !.log = NextLog(u)]],
                        "append", 0)
    <3>1. PICK b : b = [u.base EXCEPT !.rev = a.rev, !.log = NextLog(u)]
      OBVIOUS
    <3>2. Proceed(c, [u EXCEPT !.base = b], "append", 0)
      BY <2>7, <3>1
    <3> DEFINE v == [[u EXCEPT !.base = b] EXCEPT !.pc = "append", !.at = 0, !.waiting = FALSE,
                                                  !.answer = {}]
    <3>3. v.answer = {} /\ v.base = b
      BY <2>3 DEF Upload
    <3>4. up' = [up EXCEPT ![c] = {v}]
      BY <3>2 DEF Proceed
    <3> HIDE DEF v
    <3>5. b = Appended(u, a)
      BY <2>3, <3>1 DEF Upload, Base, Appended
    <3>6. NextBase(c, v)
      BY <2>3, <2>7, <3>3, <3>5 DEF NextBase
    <3> QED BY <1>2, <1>3, <2>1, <3>3, <3>4, <3>6
  <2> QED BY <2>2, <2>4, <2>5, <2>6, <2>7
<1>10. CASE BreakOff(c)
  <2>1. up' = [up EXCEPT ![c] = {}] /\ requests' = {[r EXCEPT !.by = @ \ {c}] : r \in requests}
    BY <1>10 DEF BreakOff
  <2>2. ASSUME NEW q \in requests', q.stored
        PROVE  \E r \in requests : SameStored(q, r)
    <3>1. PICK r \in requests : q = [r EXCEPT !.by = @ \ {c}]
      BY <2>1
    <3>2. r \in Request
      BY <1>1
    <3>3. SameStored(q, r)
      BY <2>2, <3>1, <3>2 DEF Request, SameStored
    <3> QED BY <3>3
  <2>3. \A d \in Clients : \A v \in up'[d] : v \in up[d] \/ (v.answer = {} /\ NextBase(d, v))
    BY <1>2, <2>1
  <2> QED BY <2>2, <2>3
<1> QED BY <1>5, <1>6, <1>8, <1>9, <1>10 DEF Uploads

\* The session row stays, or moves on by one revision.
RowStep ==
  \/ UNCHANGED <<session, stored>>
  \/ session' \in Base /\ session'.rev = session.rev + 1 /\ stored \subseteq stored'

\* An answer is true of the row as the handler leaves it.
TrueOf(r, code, rev) ==
  (r.kind \in {"commit", "append"} /\ code = "ok") =>
    /\ session' = [gen |-> r.gen, rev |-> rev, log |-> r.final] /\ r.final \in stored'
    /\ r.by # {} => rev > r.base.rev

\* What the row has reached stays reached.
LEMMA StaysReached ==
  ASSUME TypeInv, RowStep, NEW b \in Base, Reached(b)
  PROVE  Reached(b)'
<1>1. session.rev \in Nat /\ b.rev \in Nat /\ b.rev <= session.rev
  BY TypeInvParts DEF ServerType, Base, Reached
<1>2. CASE UNCHANGED <<session, stored>>
  BY <1>2 DEF Reached
<1>3. CASE session'.rev = session.rev + 1
  BY <1>1, <1>3 DEF Reached
<1> QED BY <1>2, <1>3 DEF RowStep

\* What is known of an upload.
LEMMA UploadFacts ==
  ASSUME TypeInv, NEW c \in Clients, NEW u \in up[c]
  PROVE  /\ u \in Upload /\ u.base \in Base
         /\ \A a \in u.answer : a.rev \in Nat /\ (u.pc = "append" => Appended(u, a) \in Base)
<1>1. u \in Upload /\ PlanOf(u) /\ offered \subseteq Logs
  BY TypeInvParts DEF MessageType, PlanInv, ClientType
<1>2. u.base \in Base /\ u.plan \in Logs /\ u.base.log \in Logs /\ u.base.gen \in 0..MaxGens
  BY <1>1 DEF Upload, Base
<1>3. u.pc = "append" => NextLog(u) \in Logs
  BY <1>1, <1>2, NextEvent DEF PlanOf, NextLog
<1>4. \A a \in u.answer : a.rev \in Nat
  BY <1>1 DEF Upload, Answer
<1> QED BY <1>1, <1>2, <1>3, <1>4 DEF Appended, Base

\* Whoever is answered was waiting for this request.
LEMMA ReplyTells ==
  ASSUME TypeInv, NEW r \in requests, NEW code, NEW rev, Reply(r, code, rev),
         NEW c \in Clients, NEW v \in up'[c], v \notin up[c]
  PROVE  \E u \in up[c] :
           /\ c \in r.by /\ v.base = u.base /\ v.base = r.base /\ v.pc = r.kind
           /\ r.final = IF v.pc = "append" THEN NextLog(v) ELSE v.plan
           /\ \A a \in v.answer : a.code = code /\ a.rev = rev
<1> DEFINE ans == {[code |-> code, rev |-> rev]}
<1>1. up' = [d \in Clients |-> IF d \in r.by THEN {[u EXCEPT !.answer = ans] : u \in up[d]}
                               ELSE up[d]]
  BY DEF Reply
<1>2. \A a \in ans : a.code = code /\ a.rev = rev
  OBVIOUS
<1> HIDE DEF ans
<1>3. c \in r.by
  BY <1>1
<1>4. PICK u \in up[c] : v = [u EXCEPT !.answer = ans]
  BY <1>1, <1>3
<1>5. u \in Upload /\ AwaitedBy(r, u)
  BY <1>3, UploadFacts, TypeInvParts DEF MessageType, RequestInv
<1>6. v.plan = u.plan /\ v.pc = u.pc /\ v.base = u.base /\ v.answer = ans
  BY <1>4, <1>5 DEF Upload
<1>7. NextLog(v) = NextLog(u)
  BY <1>6 DEF NextLog
<1> QED BY <1>2, <1>3, <1>5, <1>6, <1>7 DEF AwaitedBy

\* The answer to a request is true for whoever waits for it.
LEMMA TrueReply ==
  ASSUME TypeInv, RowStep, BaseInv, AnswerInv, NEW r \in requests, NEW code, NEW rev \in Nat,
         Reply(r, code, rev), TrueOf(r, code, rev)
  PROVE  /\ BaseInv' /\ AnswerInv'
         /\ \A c \in Clients : \A v \in up'[c] \ up[c] : ToldTruly(v)
<1> SUFFICES ASSUME NEW c \in Clients, NEW v \in up'[c]
             PROVE  /\ Reached(v.base)'
                    /\ \A a \in v.answer :
                         (v.pc = "append" /\ a.code = "ok") => Reached(Appended(v, a))'
                    /\ \A a \in v.answer :
                         (v.pc \in {"commit", "append"} /\ a.code = "ok") =>
                           Announced(v) \in stored'
                    /\ v \notin up[c] => ToldTruly(v)
  BY DEF BaseInv, AnswerInv, Reached, Appended, Announced, NextLog
<1>1. stored \subseteq stored'
  BY DEF RowStep
<1>2. CASE v \in up[c]
  <2>1. Reached(v.base)'
    BY <1>2, UploadFacts, StaysReached DEF BaseInv
  <2>2. \A a \in v.answer : (v.pc = "append" /\ a.code = "ok") => Reached(Appended(v, a))'
    BY <1>2, UploadFacts, StaysReached DEF BaseInv
  <2> QED BY <1>1, <1>2, <2>1, <2>2 DEF AnswerInv
<1>3. CASE v \notin up[c]
  <2>1. PICK u \in up[c] :
          /\ c \in r.by /\ v.base = u.base /\ v.base = r.base /\ v.pc = r.kind
          /\ r.final = IF v.pc = "append" THEN NextLog(v) ELSE v.plan
          /\ \A a \in v.answer : a.code = code /\ a.rev = rev
    BY <1>3, ReplyTells
  <2>2. Reached(v.base)'
    BY <2>1, UploadFacts, StaysReached DEF BaseInv
  <2>3. ASSUME NEW a \in v.answer, v.pc \in {"commit", "append"}, a.code = "ok"
        PROVE  /\ session' = [gen |-> r.gen, rev |-> rev, log |-> Announced(v)]
               /\ Announced(v) \in stored' /\ rev > v.base.rev /\ a.rev = rev
    <3>1. r.final = Announced(v) /\ r.by # {} /\ code = "ok" /\ a.rev = rev
      BY <2>1, <2>3 DEF Announced
    <3> QED BY <2>1, <2>3, <3>1 DEF TrueOf
  <2>4. ASSUME NEW a \in v.answer, v.pc = "append", a.code = "ok"
        PROVE  Reached(Appended(v, a))'
    <3>1. r.gen = v.base.gen
      BY <2>1, <2>4, RequestFacts DEF LawfulRequest
    <3>2. session' = Appended(v, a) /\ session'.rev = rev /\ Appended(v, a).rev = rev
      BY <2>3, <2>4, <3>1 DEF Announced, Appended
    <3> QED BY <3>2 DEF Reached, Appended, NextLog
  <2>5. ToldTruly(v)
    BY <2>3 DEF ToldTruly
  <2> QED BY <2>2, <2>3, <2>4, <2>5
<1> QED BY <1>2, <1>3

\* No uploader is answered and the session row stays.
LEMMA NoReply ==
  ASSUME TypeInv, BaseInv, AnswerInv, UNCHANGED <<session, stored>>,
         \A c \in Clients : \A v \in up'[c] : v \in up[c] \/ (v.answer = {} /\ NextBase(c, v))
  PROVE  /\ BaseInv' /\ AnswerInv'
         /\ \A c \in Clients : \A v \in up'[c] \ up[c] : ToldTruly(v)
<1>1. \A b : Reached(b)' = Reached(b)
  BY DEF Reached
<1>2. ASSUME NEW c \in Clients, NEW v \in up'[c], v.answer = {}, NextBase(c, v)
      PROVE  Reached(v.base)
  <2>1. session.rev \in Nat
    BY TypeInvParts DEF ServerType, Base
  <2>2. Reached(session)
    BY <2>1 DEF Reached
  <2> QED BY <1>2, <2>2 DEF NextBase, BaseInv
<1>3. BaseInv'
  <2> SUFFICES ASSUME NEW c \in Clients, NEW v \in up'[c]
               PROVE  /\ Reached(v.base)
                      /\ \A a \in v.answer :
                           (v.pc = "append" /\ a.code = "ok") => Reached(Appended(v, a))
    BY <1>1 DEF BaseInv, Appended, NextLog
  <2> QED BY <1>2 DEF BaseInv
<1>4. AnswerInv'
  BY DEF AnswerInv, Announced, NextLog
<1>5. \A c \in Clients : \A v \in up'[c] \ up[c] : ToldTruly(v)
  BY DEF ToldTruly
<1> QED BY <1>3, <1>4, <1>5

\* A handler says yes only when the row is where the request wanted it.
LEMMA HandlerTells ==
  ASSUME TypeInv, RowsInv, BaseInv, NEW r \in requests,
         HandleStage(r) \/ HandlePut(r) \/ HandleCommit(r) \/ HandleAppend(r)
  PROVE  \/ UNCHANGED <<up, session, stored>>
         \/ RowStep /\ \E code : \E rev \in Nat : Reply(r, code, rev) /\ TrueOf(r, code, rev)
<1>1. /\ r.gen \in Gens /\ r.final \in Logs /\ session.rev \in Nat /\ r.base.rev \in Nat
      /\ session \in Base /\ r.gen # 0
  BY RequestFacts, CurrentFacts
<1> DEFINE Told == RowStep /\ \E code : \E rev \in Nat : Reply(r, code, rev) /\ TrueOf(r, code, rev)
<1>2. ASSUME NEW code, NEW rev \in Nat, Reply(r, code, rev), UNCHANGED <<session, stored>>,
             (r.kind \in {"commit", "append"} /\ code = "ok") =>
               /\ session = [gen |-> r.gen, rev |-> rev, log |-> r.final]
               /\ r.by # {} => rev > r.base.rev
      PROVE  Told
  <2>1. session.gen = r.gen => session.log \in stored
    BY <1>1 DEF RowsInv, CurrentInv
  <2>2. TrueOf(r, code, rev)
    BY <1>2, <2>1 DEF TrueOf
  <2> QED BY <1>2, <2>2 DEF RowStep
<1>3. ASSUME Reply(r, "ok", session.rev + 1), MoveTo(r.gen, r.final), BaseMatches(r) PROVE Told
  <2>1. /\ session' \in Base /\ session'.rev = session.rev + 1 /\ stored \subseteq stored'
        /\ r.final \in stored'
    BY <1>1, <1>3, MoveType
  <2>2. r.base.rev = session.rev
    BY <1>3 DEF BaseMatches, cas_matches
  <2>3. session.rev + 1 \in Nat /\ session.rev + 1 > r.base.rev
    BY <1>1, <2>2
  <2>4. TrueOf(r, "ok", session.rev + 1)
    BY <1>3, <2>1, <2>3 DEF TrueOf, MoveTo
  <2> QED BY <1>3, <2>1, <2>3, <2>4 DEF RowStep
<1>4. ASSUME StillAt(r), Reply(r, "ok", r.base.rev + 1), UNCHANGED <<session, stored>> PROVE Told
  <2>1. session = [gen |-> r.gen, rev |-> r.base.rev + 1, log |-> r.final]
    BY <1>4 DEF StillAt, cas_matches
  <2>2. r.base.rev + 1 \in Nat /\ r.base.rev + 1 > r.base.rev
    BY <1>1
  <2> QED BY <1>2, <1>4, <2>1, <2>2
<1>5. ASSUME r.kind = "append", session.gen = r.gen, session.log = r.final,
             Reply(r, "ok", session.rev), UNCHANGED <<session, stored>>
      PROVE  Told
  <2>1. session = [gen |-> r.gen, rev |-> session.rev, log |-> r.final]
    BY <1>1, <1>5 DEF Base
  <2>2. ASSUME r.by # {} PROVE session.rev > r.base.rev
    <3>1. PICK c \in r.by : TRUE
      BY <2>2
    <3>2. c \in Clients /\ up[c] # {} /\ \A u \in up[c] : AwaitedBy(r, u)
      BY <3>1, TypeInvParts, RequestFacts DEF MessageType, RequestInv, Request
    <3>3. Reached(r.base)
      BY <3>2 DEF AwaitedBy, BaseInv
    <3>4. session # r.base
      <4>1. Len(r.final) = Len(r.base.log) + 1 /\ r.base.log \in Logs
        BY <1>5, RequestFacts
      <4>2. Len(r.base.log) \in Nat
        BY <4>1, LogFacts
      <4>3. r.final # r.base.log
        BY <4>1, <4>2
      <4> QED BY <1>5, <4>3
    <3> QED BY <1>1, <3>3, <3>4 DEF Reached
  <2> QED BY <1>1, <1>2, <1>5, <2>1, <2>2
<1>6. CASE HandleStage(r)
  <2>1. r.kind = "stage" /\ StageDone(r) /\ UNCHANGED <<session, stored>>
    BY <1>6, StageCases
  <2>2. PICK code : Reply(r, code, 0)
    BY <2>1 DEF StageDone
  <2> QED BY <1>2, <2>1, <2>2
<1>7. CASE HandlePut(r)
  <2>1. r.kind = "put" /\ PutDone(r) /\ UNCHANGED <<session, stored>>
    BY <1>7, PutCases
  <2>2. (\E code : Reply(r, code, 0)) \/ UNCHANGED up
    BY <2>1 DEF PutDone
  <2> QED BY <1>2, <2>1, <2>2
<1>8. CASE HandleCommit(r)
  <2>1. CommitDone(r)
    BY <1>8, CommitCases
  <2>2. ASSUME NEW code \in {"404", "409", "410"}, Reply(r, code, 0), UNCHANGED <<session, stored>>
        PROVE  Told
    BY <1>2, <2>2
  <2> HIDE DEF Told
  <2>3. Told
    BY <1>3, <1>4, <2>1, <2>2, Zenon DEF CommitDone
  <2> QED BY <2>3 DEF Told
<1>9. CASE HandleAppend(r)
  <2>1. AppendDone(r) /\ r.kind = "append"
    BY <1>9, AppendCases
  <2>2. ASSUME Reply(r, "409", 0), UNCHANGED <<session, stored>> PROVE Told
    BY <1>2, <2>2
  <2> HIDE DEF Told
  <2>3. Told \/ UNCHANGED <<up, session, stored>>
    BY <1>3, <1>4, <1>5, <2>1, <2>2 DEF AppendDone
  <2> QED BY <2>3 DEF Told
<1> QED BY <1>6, <1>7, <1>8, <1>9

\* Neither time, shares nor the worker answer anybody.
LEMMA WorkerSteps ==
  ASSUME Share \/ (\E g \in Gens : Revoke(g) \/ Age(g) \/ SweepBegin(g)) \/ SweepDelete
           \/ SweepDone \/ SweepFail
  PROVE  UNCHANGED <<source, offered, session, stored, lock, up, ids, requests>>
<1>1. ASSUME NEW g \in Gens, Revoke(g) \/ Age(g) \/ SweepBegin(g)
      PROVE  UNCHANGED <<source, offered, session, stored, lock, up, ids, requests>>
  BY <1>1 DEF Revoke, Age, SweepBegin, dbVars, clientVars
<1>2. ASSUME Share \/ SweepDelete \/ SweepDone \/ SweepFail
      PROVE  UNCHANGED <<source, offered, session, stored, lock, up, ids, requests>>
  BY <1>2 DEF Share, SweepDelete, SweepDone, SweepFail, dbVars, clientVars
<1> QED BY <1>1, <1>2

\* Every step tells the truth, and leaves what was said before true.
LEMMA NextAnswer ==
  TypeInv /\ RowsInv /\ BaseInv /\ AnswerInv /\ [Next]_vars =>
    /\ BaseInv' /\ AnswerInv'
    /\ [\A c \in Clients : \A u \in up'[c] \ up[c] : ToldTruly(u)]_vars
<1> DEFINE Truth == /\ BaseInv' /\ AnswerInv'
                    /\ \A c \in Clients : \A v \in up'[c] \ up[c] : ToldTruly(v)
<1> SUFFICES ASSUME TypeInv, RowsInv, BaseInv, AnswerInv, [Next]_vars PROVE Truth
  OBVIOUS
<1>1. ASSUME UNCHANGED <<up, session, stored>> PROVE Truth
  <2>1. /\ UNCHANGED <<session, stored>>
        /\ \A c \in Clients : \A v \in up'[c] : v \in up[c] \/ (v.answer = {} /\ NextBase(c, v))
    BY <1>1
  <2> QED BY <2>1, NoReply
<1> HIDE DEF Truth
<1>2. ASSUME NEW l \in Logs, Transcribe(l) PROVE Truth
  BY <1>1, <1>2 DEF Transcribe, dbVars, clientVars
<1>3. ASSUME NEW c \in Clients, Uploads(c) PROVE Truth
  <2>1. UNCHANGED <<session, stored>>
    BY <1>3, UploaderRows DEF Uploads, dbVars
  <2> QED BY <1>3, <2>1, UploaderSteps, NoReply DEF Truth
<1>4. ASSUME NEW r \in requests,
             HandleStage(r) \/ HandlePut(r) \/ HandleCommit(r) \/ HandleAppend(r)
      PROVE  Truth
  <2>1. CASE UNCHANGED <<up, session, stored>>
    BY <1>1, <2>1
  <2>2. CASE RowStep /\ \E code : \E rev \in Nat : Reply(r, code, rev) /\ TrueOf(r, code, rev)
    BY <2>2, TrueReply DEF Truth
  <2> QED BY <1>4, <2>1, <2>2, HandlerTells
<1>5. ASSUME NEW r \in requests, LoseRequest(r) PROVE Truth
  BY <1>1, <1>5 DEF LoseRequest, dbVars, clientVars
<1>6. ASSUME NEW g \in Gens, Revoke(g) \/ Age(g) \/ SweepBegin(g) PROVE Truth
  BY <1>1, <1>6, WorkerSteps
<1>7. ASSUME Share \/ SweepDelete \/ SweepDone \/ SweepFail PROVE Truth
  BY <1>1, <1>7, WorkerSteps
<1>8. CASE UNCHANGED vars
  BY <1>1, <1>8 DEF vars, dbVars, clientVars
<1> QED BY <1>2, <1>3, <1>4, <1>5, <1>6, <1>7, <1>8, Zenon DEF Next, Uploads

\* Initially nobody was told anything.
LEMMA InitAnswer == Init => BaseInv /\ AnswerInv
BY DEF Init, BaseInv, AnswerInv

\* An idempotent retry does not resurrect the past: an uploader that is told its
\* commit or append has worked is told so while the row holds that transcript, by
\* the revision it is told, which is after the base of its upload.
THEOREM ToldTheTruth == Spec => AnswerIsTrue
<1>1. TypeInv /\ RowsInv /\ BaseInv /\ AnswerInv /\ [Next]_vars =>
        [\A c \in Clients : \A u \in up'[c] \ up[c] : ToldTruly(u)]_vars
  BY NextAnswer
<1> QED BY <1>1, InitTypeInv, NextTypeInv, InitRowsInv, NextRowsInv, InitAnswer, NextAnswer,
           PTL DEF Spec, AnswerIsTrue

-----------------------------------------------------------------------------
(***************************************************************************)
(* Rows have their objects, while sweeps are clean.                        *)
(***************************************************************************)

\* A request that is half handled was so before, or has just stored its object.
HalfDone(q) ==
  \/ \E r \in requests : SameStored(q, r)
  \/ q.kind = "put" /\ KeyOf(q.gen, PutChunk(q)) \in objects'
  \/ q.kind = "append" /\ q.base.rev <= session'.rev /\ KeyOf(q.gen, AppendChunk(q)) \in objects'

\* A step that deletes no object, makes no generation intact that was not, and
\* adds no row without its object.
LEMMA ObjectStep ==
  ASSUME TypeInv, ObjectInv, objects \subseteq objects',
         \A g \in Gens : Intact(g)' => Intact(g),
         \A g \in Gens : \A ch \in chunks'[g] : ch \in chunks[g] \/ KeyOf(g, ch) \in objects',
         session' = session \/ session'.rev = session.rev + 1,
         requests' \subseteq Request,
         \A q \in requests' : q.stored => HalfDone(q)
  PROVE  ObjectInv'
<1>1. requests \subseteq Request /\ session.rev \in Nat
  BY TypeInvParts DEF MessageType, ServerType, Base
<1>2. ASSUME NEW g \in Gens, Intact(g)' PROVE ObjectsOf(g)' \subseteq objects'
  <2>1. ObjectsOf(g) \subseteq objects
    BY <1>2 DEF ObjectInv
  <2>2. \A ch \in chunks'[g] : KeyOf(g, ch) \in objects'
    BY <2>1 DEF ObjectsOf
  <2> QED BY <2>2 DEF ObjectsOf, KeyOf
<1>3. ASSUME NEW q \in requests', q.kind = "put", q.stored, Intact(q.gen)'
      PROVE  KeyOf(q.gen, PutChunk(q)) \in objects'
  <2>1. CASE \E r \in requests : SameStored(q, r)
    <3>1. PICK r \in requests : SameStored(q, r)
      BY <2>1
    <3>2. r.kind = "put" /\ r.stored /\ r.gen = q.gen /\ r.gen \in Gens /\ PutChunk(q) = PutChunk(r)
      BY <1>1, <1>3, <3>1 DEF SameStored, PutChunk, Request
    <3>3. KeyOf(r.gen, PutChunk(r)) \in objects
      BY <1>3, <3>2 DEF ObjectInv
    <3> QED BY <3>2, <3>3
  <2> QED BY <1>3, <2>1 DEF HalfDone
<1>4. ASSUME NEW q \in requests', q.kind = "append", q.stored
      PROVE  /\ q.base.rev <= session'.rev
             /\ session' = q.base => KeyOf(q.gen, AppendChunk(q)) \in objects'
  <2>1. CASE \E r \in requests : SameStored(q, r)
    <3>1. PICK r \in requests : SameStored(q, r)
      BY <2>1
    <3>2. r.kind = "append" /\ r.stored /\ r.gen = q.gen /\ r.base = q.base
          /\ AppendChunk(q) = AppendChunk(r)
      BY <1>4, <3>1 DEF SameStored, AppendChunk
    <3>3. r.base.rev <= session.rev
          /\ (session = r.base => KeyOf(r.gen, AppendChunk(r)) \in objects)
      BY <3>2 DEF ObjectInv
    <3>4. r.base.rev \in Nat
      BY RequestFacts
    <3>5. CASE session' = session
      BY <3>2, <3>3, <3>5
    <3>6. CASE session'.rev = session.rev + 1
      <4>1. q.base.rev < session'.rev
        BY <1>1, <3>2, <3>3, <3>4, <3>6
      <4>2. q.base.rev <= session'.rev /\ session' # q.base
        BY <1>1, <3>2, <3>4, <3>6, <4>1
      <4> QED BY <4>2
    <3> QED BY <3>5, <3>6
  <2> QED BY <1>4, <2>1 DEF HalfDone
<1>5. \A g \in Gens : Intact(g)' => ObjectsOf(g)' \subseteq objects'
  BY <1>2
<1>6. \A r \in requests' :
        r.kind = "put" /\ r.stored /\ Intact(r.gen)' => KeyOf(r.gen, PutChunk(r)) \in objects'
  BY <1>3
<1>7. \A r \in requests' : r.kind = "append" /\ r.stored =>
        /\ r.base.rev <= session'.rev
        /\ session' = r.base => KeyOf(r.gen, AppendChunk(r)) \in objects'
  BY <1>4
<1> QED BY <1>5, <1>6, <1>7 DEF ObjectInv, PutChunk, AppendChunk, ChunkOf, KeyOf

\* Rows and sweep stay as they are: nothing becomes intact.
LEMMA StillIntact ==
  ASSUME UNCHANGED <<gens, shares, sweep>>
  PROVE  \A g \in Gens : Intact(g)' => Intact(g)
BY DEF Intact, Locked

\* The requests that are left, or were half handled before.
LEMMA HalfBefore ==
  ASSUME requests' \subseteq requests
  PROVE  \A q \in requests' : q.stored => HalfDone(q)
BY DEF HalfDone, SameStored

\* The first part of a put or an append.
LEMMA HalfNow ==
  ASSUME TypeInv, NEW r \in requests, requests' = (requests \ {r}) \cup {Stored(r)},
         \/ r.kind = "put" /\ KeyOf(r.gen, PutChunk(r)) \in objects'
         \/ /\ r.kind = "append" /\ r.base.rev <= session'.rev
            /\ KeyOf(r.gen, AppendChunk(r)) \in objects'
  PROVE  \A q \in requests' : q.stored => HalfDone(q)
<1> DEFINE s == Stored(r)
<1>1. /\ s.kind = r.kind /\ s.gen = r.gen /\ s.base = r.base /\ s.final = r.final /\ s.at = r.at
  BY TypeInvParts DEF MessageType, Request, Stored
<1>2. requests' = (requests \ {r}) \cup {s}
  OBVIOUS
<1> HIDE DEF s
<1>3. PutChunk(s) = PutChunk(r) /\ AppendChunk(s) = AppendChunk(r)
  BY <1>1 DEF PutChunk, AppendChunk
<1>4. HalfDone(s)
  BY <1>1, <1>3 DEF HalfDone
<1>5. \A q \in requests : q.stored => HalfDone(q)
  BY DEF HalfDone, SameStored
<1> QED BY <1>2, <1>4, <1>5

\* The handlers preserve ObjectInv.
LEMMA HandlerObjects ==
  ASSUME TypeInv, RowsInv, ObjectInv, TypeInv', NEW r \in requests,
         HandleStage(r) \/ HandlePut(r) \/ HandleCommit(r) \/ HandleAppend(r)
  PROVE  ObjectInv'
<1>1. /\ r.gen \in Gens /\ r.final \in Logs /\ session.rev \in Nat /\ r.base.rev \in Nat
      /\ gens \in [Gens -> GenRow] /\ chunks \in [Gens -> SUBSET Chunk]
  BY RequestFacts, TypeInvParts DEF ServerType, GenRow
<1>2. requests' \subseteq Request
  BY DEF TypeInv, TypeOK
<1>3. ASSUME NEW code, NEW rev, Reply(r, code, rev)
      PROVE  \A q \in requests' : q.stored => HalfDone(q)
  BY <1>3, HalfBefore DEF Reply
<1>4. CASE HandleStage(r)
  <2>1. StageDone(r) /\ UNCHANGED <<session, chunks, shares, objects, sweep>>
    BY <1>4, StageCases
  <2>2. \A q \in requests' : q.stored => HalfDone(q)
    BY <1>3, <2>1 DEF StageDone
  <2>3. \A g \in Gens : Intact(g)' => Intact(g)
    <3>1. CASE UNCHANGED gens
      BY <2>1, <3>1, StillIntact
    <3>2. CASE /\ gens[r.gen].status = "none"
               /\ gens' = [gens EXCEPT ![r.gen] = [status |-> "staging", mark |-> "fresh",
                                                   base |-> r.base, final |-> r.final]]
      <4>1. \A g \in Gens : gens'[g].mark = gens[g].mark
        BY <1>1, <3>2 DEF RowsInv, MarkInv
      <4> QED BY <2>1, <4>1 DEF Intact, Locked
    <3> QED BY <2>1, <3>1, <3>2 DEF StageDone
  <2> QED BY <1>2, <2>1, <2>2, <2>3, ObjectStep
<1>5. CASE HandlePut(r)
  <2>1. /\ PutDone(r) /\ r.kind = "put" /\ ~Locked(r.gen)
        /\ UNCHANGED <<session, shares, sweep>>
    BY <1>5, PutCases
  <2>2. Touched(r.gen) /\ Open(r.gen) => \A g \in Gens : Intact(g)' => Intact(g)
    <3> SUFFICES ASSUME Touched(r.gen), Open(r.gen), NEW g \in Gens, Intact(g)' PROVE Intact(g)
      OBVIOUS
    <3>1. CASE g = r.gen
      <4>1. gens[g].mark \notin {"expired", "aged"}
        BY <1>1, <3>1 DEF Open, RowsInv, MarkInv
      <4> QED BY <2>1, <3>1, <4>1 DEF Intact
    <3>2. CASE g # r.gen
      <4>1. gens'[g] = gens[g]
        BY <1>1, <3>2 DEF Touched
      <4> QED BY <2>1, <4>1 DEF Intact, Locked
    <3> QED BY <3>1, <3>2
  <2>3. CASE \E code \in {"404", "409", "410"} :
               Reply(r, code, 0) /\ UNCHANGED <<gens, chunks, objects>>
    BY <1>2, <1>3, <2>1, <2>3, StillIntact, ObjectStep
  <2>4. CASE Open(r.gen) /\ Touched(r.gen) /\ Reply(r, "ok", 0) /\ UNCHANGED <<chunks, objects>>
    BY <1>2, <1>3, <2>1, <2>2, <2>4, ObjectStep
  <2>5. CASE /\ objects' = objects \cup {KeyOf(r.gen, PutChunk(r))}
             /\ requests' = (requests \ {r}) \cup {Stored(r)}
             /\ UNCHANGED <<gens, chunks, up>>
    <3>1. \A q \in requests' : q.stored => HalfDone(q)
      BY <2>1, <2>5, HalfNow
    <3> QED BY <1>2, <2>1, <2>5, <3>1, StillIntact, ObjectStep
  <2>6. CASE /\ Open(r.gen) /\ r.stored
             /\ chunks' = [chunks EXCEPT ![r.gen] = @ \cup {PutChunk(r)}]
             /\ Touched(r.gen) /\ Reply(r, "ok", 0) /\ UNCHANGED objects
    <3>1. Intact(r.gen)
      BY <1>1, <2>1, <2>6 DEF Intact, Open, RowsInv, MarkInv
    <3>2. KeyOf(r.gen, PutChunk(r)) \in objects
      BY <2>1, <2>6, <3>1 DEF ObjectInv
    <3>3. \A g \in Gens : \A ch \in chunks'[g] : ch \in chunks[g] \/ KeyOf(g, ch) \in objects'
      BY <1>1, <2>6, <3>2
    <3> QED BY <1>2, <1>3, <2>1, <2>2, <2>6, <3>3, ObjectStep
  <2> QED BY <2>1, <2>3, <2>4, <2>5, <2>6 DEF PutDone
<1>6. CASE HandleCommit(r)
  <2>1. /\ CommitDone(r) /\ ~Locked(r.gen) /\ UNCHANGED <<chunks, shares, objects, sweep>>
    BY <1>6, CommitCases
  <2>2. CASE (\E code, rev : Reply(r, code, rev)) /\ UNCHANGED <<session, stored, gens>>
    BY <1>2, <1>3, <2>1, <2>2, StillIntact, ObjectStep
  <2>3. CASE /\ Open(r.gen) /\ MoveTo(r.gen, r.final) /\ Reply(r, "ok", session.rev + 1)
             /\ gens' = [h \in Gens |-> IF h = r.gen THEN [gens[h] EXCEPT !.status = "committed",
                                                                          !.mark = "fresh"]
                                        ELSE IF h = session.gen
                                        THEN [gens[h] EXCEPT !.mark = "superseded"] ELSE gens[h]]
    <3>1. \A h \in Gens \ {r.gen} :
            gens'[h].mark = IF h = session.gen THEN "superseded" ELSE gens[h].mark
      BY <1>1, <2>3, CommitRows
    <3>2. ASSUME NEW g \in Gens, Intact(g)' PROVE Intact(g)
      <4>1. CASE g = r.gen
        BY <1>1, <2>1, <2>3, <4>1 DEF Intact, Open, RowsInv, MarkInv
      <4>2. CASE g # r.gen /\ g = session.gen
        <5>1. ~Locked(g) /\ gens[g].mark = "fresh"
          BY <4>2, CurrentFacts DEF RowsInv, CurrentInv
        <5> QED BY <5>1 DEF Intact
      <4>3. CASE g # r.gen /\ g # session.gen
        <5>1. gens'[g].mark = gens[g].mark
          BY <3>1, <4>3
        <5> QED BY <2>1, <3>2, <5>1 DEF Intact, Locked
      <4> QED BY <4>1, <4>2, <4>3
    <3>3. session'.rev = session.rev + 1
      BY <1>1, <2>3, MoveType
    <3> QED BY <1>2, <1>3, <2>1, <2>3, <3>2, <3>3, ObjectStep
  <2> QED BY <2>1, <2>2, <2>3, Zenon DEF CommitDone
<1>7. CASE HandleAppend(r)
  <2>1. /\ AppendDone(r) /\ r.kind = "append" /\ UNCHANGED <<gens, shares, sweep>>
    BY <1>7, AppendCases
  <2>2. \A g \in Gens : Intact(g)' => Intact(g)
    BY <2>1, StillIntact
  <2>3. CASE (\E code, rev : Reply(r, code, rev)) /\ UNCHANGED <<session, chunks, objects>>
    BY <1>2, <1>3, <2>2, <2>3, ObjectStep
  <2>4. CASE /\ BaseMatches(r)
             /\ objects' = objects \cup {KeyOf(r.gen, AppendChunk(r))}
             /\ requests' = (requests \ {r}) \cup {Stored(r)}
             /\ UNCHANGED <<session, chunks>>
    <3>1. r.base.rev <= session'.rev
      BY <1>1, <2>4 DEF BaseMatches, cas_matches
    <3>2. \A q \in requests' : q.stored => HalfDone(q)
      BY <2>1, <2>4, <3>1, HalfNow
    <3> QED BY <1>2, <2>2, <2>4, <3>2, ObjectStep
  <2>5. CASE /\ BaseMatches(r) /\ r.stored
             /\ chunks' = [chunks EXCEPT ![r.gen] = @ \cup {AppendChunk(r)}]
             /\ MoveTo(r.gen, r.final) /\ Reply(r, "ok", session.rev + 1) /\ UNCHANGED objects
    <3>1. session = r.base
      <4>1. r.base \in Base
        BY RequestFacts
      <4> QED BY <2>5, <4>1 DEF BaseMatches, cas_matches, Base
    <3>2. KeyOf(r.gen, AppendChunk(r)) \in objects
      BY <2>1, <2>5, <3>1 DEF ObjectInv
    <3>3. \A g \in Gens : \A ch \in chunks'[g] : ch \in chunks[g] \/ KeyOf(g, ch) \in objects'
      BY <1>1, <2>5, <3>2
    <3>4. session'.rev = session.rev + 1
      BY <1>1, <2>5, MoveType
    <3> QED BY <1>2, <1>3, <2>2, <2>5, <3>3, <3>4, ObjectStep
  <2> QED BY <2>1, <2>3, <2>4, <2>5 DEF AppendDone
<1> QED BY <1>4, <1>5, <1>6, <1>7

\* Shares and the passing of time preserve ObjectInv.
LEMMA ShareAgeObjects ==
  ASSUME TypeInv, RowsInv, ObjectInv, TypeInv',
         Share \/ \E g \in Gens : Revoke(g) \/ Age(g) \/ SweepBegin(g)
  PROVE  ObjectInv'
<1>1. UNCHANGED <<session, chunks, objects, requests>>
  BY DEF Share, Revoke, Age, SweepBegin, dbVars
<1>2. requests' \subseteq Request /\ \A q \in requests' : q.stored => HalfDone(q)
  BY <1>1, HalfBefore DEF TypeInv, TypeOK
<1>3. SUFFICES \A g \in Gens : Intact(g)' => Intact(g)
  BY <1>1, <1>2, ObjectStep
<1>4. CASE Share
  <2>1. UNCHANGED <<gens, sweep>> /\ shares' = shares \cup {session.gen} /\ session.gen # 0
    BY <1>4 DEF Share
  <2>2. ~Locked(session.gen) /\ gens[session.gen].mark = "fresh"
    BY <2>1, CurrentFacts DEF RowsInv, CurrentInv
  <2> QED BY <2>1, <2>2 DEF Intact, Locked
<1>5. ASSUME NEW g \in Gens, Revoke(g) PROVE \A h \in Gens : Intact(h)' => Intact(h)
  BY <1>5 DEF Revoke, Intact, Locked
<1>6. ASSUME NEW g \in Gens, Age(g) PROVE \A h \in Gens : Intact(h)' => Intact(h)
  <2>1. UNCHANGED <<shares, sweep>> /\ gens \in [Gens -> GenRow]
    BY <1>6, TypeInvParts DEF Age, ServerType, GenRow
  <2>2. \A h \in Gens \ {g} : gens'[h] = gens[h]
    BY <1>6, <2>1 DEF Age
  <2>3. gens[g].mark \in {"expired", "aged"} => gens'[g].mark \in {"expired", "aged"}
    BY <1>6, <2>1 DEF Age, RowsInv, MarkInv, GenRow
  <2> QED BY <2>1, <2>2, <2>3 DEF Intact, Locked
<1>7. ASSUME NEW g \in Gens, SweepBegin(g) PROVE \A h \in Gens : Intact(h)' => Intact(h)
  BY <1>7 DEF SweepBegin, Intact, Locked, dbVars
<1> QED BY <1>4, <1>5, <1>6, <1>7

\* A clean sweep preserves ObjectInv.
LEMMA SweepObjects ==
  ASSUME TypeInv, RowsInv, ObjectInv, TypeInv', CleanSweep,
         SweepDelete \/ SweepDone \/ SweepFail
  PROVE  ObjectInv'
<1>1. UNCHANGED <<session, shares, requests>>
  BY DEF SweepDelete, SweepDone, SweepFail, dbVars, clientVars
<1>2. requests' \subseteq Request /\ requests \subseteq Request
      /\ \A q \in requests' : q.stored => HalfDone(q)
  BY <1>1, HalfBefore DEF TypeInv, TypeOK
<1>3. PICK w \in sweep : TRUE
  BY DEF SweepDelete, SweepDone, SweepFail
<1>4. /\ w.gen \in Gens /\ w.gen # session.gen /\ w.gen \notin shares /\ sweep = {w}
      /\ gens[w.gen].mark \in {"idle", "expired", "aged"} /\ \A k \in w.todo : k[1] = w.gen
      /\ gens \in [Gens -> GenRow] /\ chunks \in [Gens -> SUBSET Chunk]
  BY TypeInvParts DEF RowsInv, SweepInv, ServerType, GenRow
<1>5. CASE SweepFail
  <2>1. UNCHANGED <<gens, chunks, objects>> /\ sweep' = {}
    BY <1>5 DEF SweepFail, dbVars
  <2>2. gens[w.gen].mark \in {"expired", "aged"}
    BY <1>4, <1>5 DEF CleanSweep
  <2>3. \A g \in Gens : Intact(g)' => Intact(g)
    BY <1>1, <1>4, <2>1, <2>2 DEF Intact, Locked
  <2> QED BY <1>1, <1>2, <2>1, <2>3, ObjectStep
<1>6. CASE SweepDelete
  <2>1. PICK k \in w.todo :
          objects' = objects \ {k} /\ sweep' = {[w EXCEPT !.todo = @ \ {k}]}
    BY <1>4, <1>6 DEF SweepDelete
  <2>2. UNCHANGED <<gens, chunks>>
    BY <1>6 DEF SweepDelete, dbVars
  <2>3. \A g \in Gens : Locked(g)' <=> g = w.gen
    <3> DEFINE v == [w EXCEPT !.todo = @ \ {k}]
    <3>1. v.gen = w.gen /\ sweep' = {v}
      BY <2>1, TypeInvParts DEF ServerType
    <3> HIDE DEF v
    <3> QED BY <3>1 DEF Locked
  <2>4. \A g \in Gens : Locked(g) <=> g = w.gen
    BY <1>4 DEF Locked
  <2>5. \A g \in Gens : Intact(g)' => Intact(g) /\ g # w.gen
    BY <1>1, <2>2, <2>3, <2>4 DEF Intact
  <2>6. k[1] = w.gen
    BY <1>4
  <2>7. ASSUME NEW g \in Gens, Intact(g)' PROVE ObjectsOf(g)' \subseteq objects'
    <3>1. ObjectsOf(g) \subseteq objects /\ g # w.gen
      BY <2>5, <2>7 DEF ObjectInv
    <3>2. \A ch \in chunks[g] : KeyOf(g, ch) # k
      BY <2>6, <3>1, KeysOf
    <3> QED BY <2>1, <2>2, <3>1, <3>2 DEF ObjectsOf, KeyOf
  <2>8. ASSUME NEW r \in requests, r.kind = "put", r.stored, Intact(r.gen)'
        PROVE  KeyOf(r.gen, PutChunk(r)) \in objects'
    <3>1. r.gen \in Gens /\ Intact(r.gen) /\ r.gen # w.gen
      BY <2>5, <2>8, RequestFacts
    <3>2. KeyOf(r.gen, PutChunk(r)) \in objects
      BY <2>8, <3>1 DEF ObjectInv
    <3>3. KeyOf(r.gen, PutChunk(r))[1] = r.gen
      BY DEF KeyOf
    <3> QED BY <2>1, <2>6, <3>1, <3>2, <3>3
  <2>9. ASSUME NEW r \in requests, r.kind = "append", r.stored
        PROVE  /\ r.base.rev <= session.rev
               /\ session = r.base => KeyOf(r.gen, AppendChunk(r)) \in objects'
    <3>1. /\ r.base.rev <= session.rev
          /\ session = r.base => KeyOf(r.gen, AppendChunk(r)) \in objects
      BY <2>9 DEF ObjectInv
    <3>2. r.gen = r.base.gen
      BY <2>9, RequestFacts DEF LawfulRequest
    <3>3. KeyOf(r.gen, AppendChunk(r))[1] = r.gen
      BY DEF KeyOf
    <3> QED BY <1>4, <2>1, <2>6, <3>1, <3>2, <3>3
  <2> QED BY <1>1, <2>7, <2>8, <2>9 DEF ObjectInv, PutChunk, AppendChunk, ChunkOf, KeyOf
<1>7. CASE SweepDone
  <2>1. /\ gens' = [gens EXCEPT ![w.gen] = NoGen] /\ chunks' = [chunks EXCEPT ![w.gen] = {}]
        /\ sweep' = {} /\ objects' = objects
    BY <1>4, <1>7 DEF SweepDone
  <2>2. \A r \in requests : r.gen = w.gen => ~r.stored
    BY <1>4, <1>7 DEF CleanSweep
  <2>3. \A g \in Gens : g # w.gen => gens'[g] = gens[g] /\ chunks'[g] = chunks[g] /\ ~Locked(g)
    BY <1>4, <2>1 DEF Locked
  <2>4. \A g \in Gens : Intact(g)' /\ g # w.gen => Intact(g)
    BY <1>1, <2>3 DEF Intact
  <2>5. ASSUME NEW g \in Gens, Intact(g)' PROVE ObjectsOf(g)' \subseteq objects'
    <3>1. CASE g = w.gen
      <4>1. chunks'[g] = {}
        BY <1>4, <2>1, <3>1
      <4> QED BY <4>1 DEF ObjectsOf
    <3>2. CASE g # w.gen
      <4>1. ObjectsOf(g) \subseteq objects
        BY <2>4, <2>5, <3>2 DEF ObjectInv
      <4> QED BY <2>1, <2>3, <3>2, <4>1 DEF ObjectsOf, KeyOf
    <3> QED BY <3>1, <3>2
  <2>6. ASSUME NEW r \in requests, r.kind = "put", r.stored, Intact(r.gen)'
        PROVE  KeyOf(r.gen, PutChunk(r)) \in objects'
    <3>1. r.gen \in Gens /\ r.gen # w.gen
      BY <2>2, <2>6, RequestFacts
    <3> QED BY <2>1, <2>4, <2>6, <3>1 DEF ObjectInv
  <2>7. ASSUME NEW r \in requests, r.kind = "append", r.stored
        PROVE  /\ r.base.rev <= session.rev
               /\ session = r.base => KeyOf(r.gen, AppendChunk(r)) \in objects'
    BY <2>1, <2>7 DEF ObjectInv
  <2> QED BY <1>1, <2>5, <2>6, <2>7 DEF ObjectInv, PutChunk, AppendChunk, ChunkOf, KeyOf
<1> QED BY <1>5, <1>6, <1>7

\* Every clean step preserves ObjectInv.
LEMMA NextObjectInv ==
  TypeInv /\ RowsInv /\ ObjectInv /\ TypeInv' /\ [Next]_vars /\ [CleanSweep]_vars => ObjectInv'
<1> SUFFICES ASSUME TypeInv, RowsInv, ObjectInv, TypeInv', [Next]_vars, [CleanSweep]_vars
             PROVE  ObjectInv'
  OBVIOUS
<1>1. requests' \subseteq Request
  BY DEF TypeInv, TypeOK
<1>2. ASSUME UNCHANGED <<dbVars, objects, sweep>>, \A q \in requests' : q.stored => HalfDone(q)
      PROVE  ObjectInv'
  BY <1>1, <1>2, StillIntact, ObjectStep DEF dbVars
<1>3. ASSUME NEW l \in Logs, Transcribe(l) PROVE ObjectInv'
  BY <1>2, <1>3, HalfBefore DEF Transcribe
<1>4. ASSUME NEW c \in Clients, Uploads(c) PROVE ObjectInv'
  <2>1. UNCHANGED <<dbVars, objects, sweep>>
    BY <1>4, UploaderRows DEF Uploads
  <2>2. \A q \in requests' : q.stored => HalfDone(q)
    BY <1>4, UploaderSteps DEF HalfDone
  <2> QED BY <1>2, <2>1, <2>2
<1>5. ASSUME NEW r \in requests,
             HandleStage(r) \/ HandlePut(r) \/ HandleCommit(r) \/ HandleAppend(r)
      PROVE  ObjectInv'
  BY <1>5, HandlerObjects
<1>6. ASSUME NEW r \in requests, LoseRequest(r) PROVE ObjectInv'
  BY <1>2, <1>6, HalfBefore DEF LoseRequest
<1>7. ASSUME NEW g \in Gens, Revoke(g) \/ Age(g) \/ SweepBegin(g) PROVE ObjectInv'
  BY <1>7, ShareAgeObjects
<1>8. ASSUME Share PROVE ObjectInv'
  BY <1>8, ShareAgeObjects
<1>9. CASE UNCHANGED vars
  BY <1>2, <1>9, HalfBefore DEF vars
<1>10. ASSUME SweepDelete \/ SweepDone \/ SweepFail PROVE ObjectInv'
  BY <1>9, <1>10, SweepObjects
<1> QED BY <1>3, <1>4, <1>5, <1>6, <1>7, <1>8, <1>9, <1>10, Zenon DEF Next, Uploads

\* A new session needs no objects.
LEMMA InitObjectInv == Init => ObjectInv
BY DEF Init, ObjectInv, ObjectsOf

\* The current generation is readable, and so are the shared ones.
LEMMA CurrentIsReadable ==
  ASSUME TypeInv, RowsInv, ObjectInv
  PROVE  Readable = IF session.gen # 0 THEN session.log ELSE <<>>
<1>1. CASE session.gen # 0
  <2>1. session.gen \in Gens /\ ~Locked(session.gen)
    BY <1>1, CurrentFacts
  <2>2. Intact(session.gen) /\ Chained(session.gen, session.log)
    BY <1>1, <2>1 DEF Intact, RowsInv, CurrentInv
  <2>3. ObjectsOf(session.gen) \subseteq objects
    BY <2>1, <2>2 DEF ObjectInv
  <2> QED BY <1>1, <2>2, <2>3 DEF Readable
<1>2. CASE session.gen = 0
  BY <1>2 DEF Readable
<1> QED BY <1>1, <1>2

\* A shared generation is intact, so its objects are there.
LEMMA SharedIsReadable ==
  ASSUME TypeInv, RowsInv, ObjectInv
  PROVE  SharedReadable
<1> SUFFICES ASSUME NEW g \in shares PROVE ObjectsOf(g) \subseteq objects
  BY DEF SharedReadable
<1>1. g \in Gens /\ ~Locked(g)
  BY CurrentFacts, TypeInvParts DEF ServerType
<1> QED BY <1>1 DEF ObjectInv, Intact

\* GET /events never answers with an error, whatever late requests, competing
\* uploads and sweeps are going on, as long as no sweep breaks off over a staging
\* generation that may be resumed or ends under a put between its two parts.
THEOREM CurrentStaysReadable == Spec /\ CleanSweeps => []CurrentReadable
<1>1. TypeInv /\ RowsInv /\ ObjectInv => CurrentReadable
  BY CurrentIsReadable DEF CurrentReadable
<1> QED BY <1>1, InitTypeInv, NextTypeInv, InitRowsInv, NextRowsInv, InitObjectInv, NextObjectInv,
           PTL DEF Spec, CleanSweeps

\* A share keeps every object of its generation, after the generation was
\* superseded too, under the same condition.
THEOREM SharedStaysReadable == Spec /\ CleanSweeps => []SharedReadable
<1>1. TypeInv /\ RowsInv /\ ObjectInv => SharedReadable
  BY SharedIsReadable
<1> QED BY <1>1, InitTypeInv, NextTypeInv, InitRowsInv, NextRowsInv, InitObjectInv, NextObjectInv,
           PTL DEF Spec, CleanSweeps

-----------------------------------------------------------------------------
(***************************************************************************)
(* The store implements SessionLog.                                        *)
(***************************************************************************)

ReaderInv == Readable = IF session.gen # 0 THEN session.log ELSE <<>>

\* One step of the store is one step of SessionLog, or none.
LEMMA RefinedStep ==
  ASSUME TypeInv, RowsInv, ReaderInv, ReaderInv', [Next]_vars
  PROVE  [Log!Next]_(Log!vars)
<1>1. ASSUME UNCHANGED <<offered, session>> PROVE [Log!Next]_(Log!vars)
  <2>1. Readable' = Readable
    BY <1>1 DEF ReaderInv
  <2> QED BY <1>1, <2>1 DEF Log!vars
<1>2. ASSUME NEW l \in Logs, Transcribe(l) PROVE [Log!Next]_(Log!vars)
  BY <1>1, <1>2 DEF Transcribe, dbVars
<1>3. ASSUME NEW c \in Clients, BeginUpload(c) PROVE [Log!Next]_(Log!vars)
  <2>1. offered' = offered \cup {source} /\ session' = session
    BY <1>3 DEF BeginUpload, dbVars
  <2>2. Readable' = Readable
    BY <2>1 DEF ReaderInv
  <2>3. Log!Offer(source) /\ source \in offered'
    BY <2>1, <2>2 DEF Log!Offer
  <2> QED BY <2>3 DEF Log!Next
<1>4. ASSUME NEW c \in Clients,
             GetHead(c) \/ SendAppend(c) \/ SendStage(c) \/ SendNext(c) \/ Receive(c) \/ BreakOff(c)
      PROVE  [Log!Next]_(Log!vars)
  <2>1. CASE GetHead(c) \/ BreakOff(c) \/ Receive(c)
    BY <1>1, <2>1 DEF GetHead, BreakOff, Receive, dbVars
  <2>2. CASE SendAppend(c) \/ SendStage(c) \/ SendNext(c)
    BY <1>1, <2>2 DEF SendAppend, SendStage, SendNext, dbVars
  <2> QED BY <1>4, <2>1, <2>2
<1>5. ASSUME NEW r \in requests, HandleStage(r) \/ HandlePut(r) \/ LoseRequest(r)
      PROVE  [Log!Next]_(Log!vars)
  BY <1>1, <1>5, StageCases, PutCases DEF LoseRequest, dbVars
<1>6. ASSUME NEW r \in requests, HandleCommit(r) PROVE [Log!Next]_(Log!vars)
  <2>1. CommitDone(r) /\ r.kind = "commit" /\ offered' = offered
    BY <1>6, CommitCases
  <2>2. CASE UNCHANGED session
    BY <1>1, <2>1, <2>2
  <2>3. CASE MoveTo(r.gen, r.final)
    <3>1. r.gen \in Gens /\ r.final \in Logs /\ r.final \in offered /\ r.gen # 0
      BY <2>1, RequestFacts, CurrentFacts DEF LawfulRequest
    <3>2. session'.gen = r.gen /\ session'.rev = session.rev + 1 /\ session'.log = r.final
      BY <2>3, <3>1, MoveType
    <3>3. Readable' = r.final
      BY <3>1, <3>2 DEF ReaderInv
    <3>4. Log!Replace
      BY <2>1, <3>1, <3>2, <3>3 DEF Log!Replace
    <3> QED BY <3>4 DEF Log!Next
  <2> QED BY <2>1, <2>2, <2>3, Zenon DEF CommitDone
<1>7. ASSUME NEW r \in requests, HandleAppend(r) PROVE [Log!Next]_(Log!vars)
  <2>1. AppendDone(r) /\ r.kind = "append" /\ offered' = offered
    BY <1>7, AppendCases
  <2>2. CASE UNCHANGED session
    BY <1>1, <2>1, <2>2
  <2>3. CASE BaseMatches(r) /\ MoveTo(r.gen, r.final)
    <3>1. /\ r.gen \in Gens /\ r.final \in Logs /\ r.gen # 0 /\ r.gen = r.base.gen
          /\ NextOf(r.base.log, r.final)
      BY <2>1, RequestFacts, CurrentFacts DEF LawfulRequest
    <3>2. session'.gen = r.gen /\ session'.rev = session.rev + 1 /\ session'.log = r.final
      BY <2>3, <3>1, MoveType
    <3>3. session.gen = r.gen /\ session.log = r.base.log
      BY <2>3, <3>1 DEF BaseMatches, cas_matches
    <3>4. Readable = r.base.log /\ Readable' = r.final
      BY <3>1, <3>2, <3>3 DEF ReaderInv
    <3>5. \E l \in offered : IsStrictPrefix(Readable, l) /\ Readable' = SubSeq(l, 1, Len(Readable) + 1)
      BY <3>1, <3>4 DEF NextOf
    <3>6. \A k, l : IsStrictPrefix(k, l) = Log!IsStrictPrefix(k, l)
      BY DEF IsStrictPrefix, IsPrefix, Log!IsStrictPrefix, Log!IsPrefix
    <3>7. Log!AppendEvent
      BY <2>1, <3>2, <3>5, <3>6 DEF Log!AppendEvent
    <3> QED BY <3>7 DEF Log!Next
  <2> QED BY <2>1, <2>2, <2>3, Zenon DEF AppendDone
<1>8. ASSUME NEW g \in Gens, Revoke(g) \/ Age(g) \/ SweepBegin(g) PROVE [Log!Next]_(Log!vars)
  BY <1>1, <1>8, WorkerSteps
<1>9. ASSUME Share \/ SweepDelete \/ SweepDone \/ SweepFail PROVE [Log!Next]_(Log!vars)
  BY <1>1, <1>9, WorkerSteps
<1>10. CASE UNCHANGED vars
  BY <1>1, <1>10 DEF vars, dbVars
<1> QED BY <1>2, <1>3, <1>4, <1>5, <1>6, <1>7, <1>8, <1>9, <1>10, Zenon DEF Next

\* While sweeps are clean, what a reader of GET /events sees is a behaviour of
\* SessionLog: a commit replaces the transcript by one that was offered, the second
\* part of an append adds one event of such a transcript, each with a revision of
\* its own, and no other step is seen.
THEOREM StoreImplementsLog == Spec /\ CleanSweeps => ImplementsSessionLog
<1>1. Init => Log!Init
  BY DEF Init, Readable, Log!Init
<1>2. TypeInv /\ RowsInv /\ ObjectInv => ReaderInv
  BY CurrentIsReadable DEF ReaderInv
<1>3. TypeInv /\ RowsInv /\ ReaderInv /\ ReaderInv' /\ [Next]_vars => [Log!Next]_(Log!vars)
  BY RefinedStep
<1> QED BY <1>1, <1>2, <1>3, InitTypeInv, NextTypeInv, InitRowsInv, NextRowsInv, InitObjectInv,
           NextObjectInv, PTL DEF Spec, CleanSweeps, ImplementsSessionLog, Log!Spec

-----------------------------------------------------------------------------
(***************************************************************************)
(* What the lock file confirms.                                            *)
(***************************************************************************)

\* Only an expired generation is answered with 410.
LEMMA GoneIsExpired ==
  ASSUME NEW r, ~Expired(r.gen),
         HandleStage(r) \/ HandlePut(r) \/ HandleCommit(r) \/ HandleAppend(r)
  PROVE  UNCHANGED up \/ \E code, rev : code # "410" /\ Reply(r, code, rev)
<1>1. CASE HandleStage(r)
  BY <1>1 DEF HandleStage
<1>2. CASE HandlePut(r)
  BY <1>2 DEF HandlePut
<1>3. CASE HandleCommit(r)
  BY <1>3 DEF HandleCommit
<1>4. CASE HandleAppend(r)
  BY <1>4 DEF HandleAppend
<1> QED BY <1>1, <1>2, <1>3, <1>4

\* Without expired generations the handlers preserve LockInv.
LEMMA HandlerLock ==
  ASSUME TypeInv, LockInv, NeverExpired, NEW r \in requests,
         HandleStage(r) \/ HandlePut(r) \/ HandleCommit(r) \/ HandleAppend(r)
  PROVE  LockInv'
<1>1. lock' = lock /\ r.gen \in Gens /\ r.final \in Logs
  BY StageCases, PutCases, CommitCases, AppendCases, RequestFacts
<1>2. stored \subseteq stored'
  <2>1. UNCHANGED stored \/ MoveTo(r.gen, r.final)
    BY StageCases, PutCases, CommitCases, AppendCases DEF CommitDone, AppendDone
  <2> QED BY <2>1 DEF MoveTo
<1>3. ASSUME NEW d \in Clients, NEW v \in up'[d], NEW a \in v.answer PROVE a.code # "410"
  <2>1. up \in [Clients -> SUBSET Upload]
    BY TypeInvParts DEF MessageType
  <2>2. CASE v \in up[d]
    BY <1>3, <2>2 DEF LockInv
  <2>3. CASE v \notin up[d]
    <3>1. PICK code, rev : code # "410" /\ Reply(r, code, rev)
      BY <1>1, <1>3, <2>3, GoneIsExpired DEF NeverExpired
    <3> DEFINE ans == {[code |-> code, rev |-> rev]}
    <3>2. up' = [c \in Clients |-> IF c \in r.by THEN {[u EXCEPT !.answer = ans] : u \in up[c]}
                                   ELSE up[c]]
      BY <3>1 DEF Reply
    <3>3. \A x \in ans : x.code # "410"
      BY <3>1
    <3> HIDE DEF ans
    <3>4. PICK u \in up[d] : v = [u EXCEPT !.answer = ans]
      BY <1>3, <2>3, <3>2
    <3>5. v.answer = ans
      BY <2>1, <3>4 DEF Upload
    <3> QED BY <1>3, <3>3, <3>5
  <2> QED BY <2>2, <2>3
<1> QED BY <1>1, <1>2, <1>3 DEF LockInv

\* An uploader changes the lock when it persists a pending upload and when it is
\* told, or sees, that its transcript is in.
LEMMA UploaderLock ==
  ASSUME TypeInv, RowsInv, AnswerInv, LockInv, NEW c \in Clients, Uploads(c)
  PROVE  LockInv'
<1>1. stored' = stored
  BY UploaderRows DEF Uploads, dbVars
<1>2. \A d \in Clients : \A v \in up'[d] : \A a \in v.answer : a.code # "410"
  BY UploaderSteps DEF LockInv
<1>3. SUFFICES lock'.pending = {} => lock'.local \subseteq stored
  BY <1>1, <1>2 DEF LockInv
<1>4. ASSUME NEW u, u.plan \in stored, Synced(c, u)
      PROVE  lock'.pending = {} => lock'.local \subseteq stored
  BY <1>4 DEF Synced
<1>5. ASSUME UNCHANGED lock PROVE lock'.pending = {} => lock'.local \subseteq stored
  BY <1>5 DEF LockInv
<1>6. CASE BeginUpload(c) \/ SendNext(c) \/ BreakOff(c)
  BY <1>5, <1>6 DEF BeginUpload, SendNext, BreakOff
<1>7. CASE SendAppend(c) \/ SendStage(c)
  <2>1. PICK u, p : persistPending(u, p)
    <3>1. CASE SendAppend(c)
      BY <3>1, Zenon DEF SendAppend
    <3>2. CASE SendStage(c)
      BY <3>2, Zenon DEF SendStage
    <3> QED BY <1>7, <3>1, <3>2
  <2> QED BY <2>1 DEF persistPending
<1>8. CASE GetHead(c)
  <2>1. PICK u \in up[c] : \/ UNCHANGED lock
                           \/ session.gen # 0 /\ session.log = u.plan /\ Synced(c, u)
    BY <1>8, Zenon DEF GetHead
  <2> QED BY <1>4, <1>5, <2>1 DEF RowsInv, CurrentInv
<1>9. CASE Receive(c)
  <2>1. PICK u \in up[c], a \in UNION {v.answer : v \in up[c]} :
          \/ UNCHANGED lock
          \/ a.code = "410"
          \/ u.pc = "commit" /\ a.code = "ok" /\ Synced(c, u)
          \/ u.pc = "append" /\ a.code = "ok" /\ NextLog(u) = u.plan /\ Synced(c, u)
    BY <1>9, Zenon DEF Receive, Proceed
  <2>2. a \in u.answer
    <3>1. \A v \in up[c] : v = u
      BY TypeInvParts DEF MessageType, PlanInv
    <3> QED BY <3>1
  <2>3. a.code # "410"
    BY <2>2 DEF LockInv
  <2>4. CASE u.pc = "commit" /\ a.code = "ok" /\ Synced(c, u)
    <3>1. u.plan \in stored
      BY <2>2, <2>4 DEF AnswerInv, Announced
    <3> QED BY <1>4, <2>4, <3>1
  <2>5. CASE u.pc = "append" /\ a.code = "ok" /\ NextLog(u) = u.plan /\ Synced(c, u)
    <3>1. u.plan \in stored
      BY <2>2, <2>5 DEF AnswerInv, Announced
    <3> QED BY <1>4, <2>5, <3>1
  <2> QED BY <1>5, <2>1, <2>3, <2>4, <2>5
<1> QED BY <1>6, <1>7, <1>8, <1>9 DEF Uploads

\* Without expired generations every step preserves LockInv.
LEMMA NextLockInv ==
  TypeInv /\ RowsInv /\ AnswerInv /\ LockInv /\ NeverExpired /\ [Next]_vars => LockInv'
<1> SUFFICES ASSUME TypeInv, RowsInv, AnswerInv, LockInv, NeverExpired, [Next]_vars
             PROVE  LockInv'
  OBVIOUS
<1>1. ASSUME UNCHANGED <<lock, stored, up>> PROVE LockInv'
  BY <1>1 DEF LockInv
<1>2. ASSUME NEW l \in Logs, Transcribe(l) PROVE LockInv'
  BY <1>1, <1>2 DEF Transcribe, dbVars, clientVars
<1>3. ASSUME NEW c \in Clients, Uploads(c) PROVE LockInv'
  BY <1>3, UploaderLock
<1>4. ASSUME NEW r \in requests,
             HandleStage(r) \/ HandlePut(r) \/ HandleCommit(r) \/ HandleAppend(r)
      PROVE  LockInv'
  BY <1>4, HandlerLock
<1>5. ASSUME NEW r \in requests, LoseRequest(r) PROVE LockInv'
  BY <1>1, <1>5 DEF LoseRequest, dbVars, clientVars
<1>6. ASSUME NEW g \in Gens, Revoke(g) \/ Age(g) \/ SweepBegin(g) PROVE LockInv'
  BY <1>1, <1>6, WorkerSteps
<1>7. ASSUME Share \/ SweepDelete \/ SweepDone \/ SweepFail PROVE LockInv'
  BY <1>1, <1>7, WorkerSteps
<1>8. CASE UNCHANGED vars
  BY <1>1, <1>8 DEF vars, dbVars, clientVars
<1> QED BY <1>2, <1>3, <1>4, <1>5, <1>6, <1>7, <1>8, Zenon DEF Next, Uploads

\* While no staging generation expires, the entry of sessions-lock.json confirms a
\* transcript only if the server had it, whatever uploads broke off, whatever
\* requests arrived late and however the worker sweeps.
THEOREM ConfirmedIsStored == Spec /\ []NeverExpired => []ConfirmedWasStored
<1>1. Init => LockInv
  BY DEF Init, LockInv
<1>2. LockInv => ConfirmedWasStored
  BY DEF LockInv, ConfirmedWasStored
<1> QED BY <1>1, <1>2, InitTypeInv, NextTypeInv, InitRowsInv, NextRowsInv, InitAnswer, NextAnswer,
           NextLockInv, PTL DEF Spec
=============================================================================
