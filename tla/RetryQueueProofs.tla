-------------------------- MODULE RetryQueueProofs --------------------------
(***************************************************************************)
(* Theorems about RetryQueue, for every number of keys, slots, producers   *)
(* and attempts and for every bound.                                       *)
(***************************************************************************)
EXTENDS RetryQueue, QueueOpsProofs

\* The first layer of the inductive invariant: types, and an array without
\* duplicate keys whose versions lie below the counter.
Inv1 == TypeOK /\ QueueWellFormed

\* The invariant in the vocabulary of the queue lemmas: one item per key, stamps below the counter.
LEMMA QueueWellFormedParts ==
  QueueWellFormed <=> OneItemPerKey(items) /\ VersionsBelow(items, nextVersion)
BY DEF QueueWellFormed, OneItemPerKey, VersionsBelow

\* bumpAttempts changes nothing of an item but its attempts.
LEMMA BumpedItem ==
  ASSUME NEW x \in Item
  PROVE  /\ [x EXCEPT !.attempts = @ + 1] \in Item
         /\ [x EXCEPT !.attempts = @ + 1].key = x.key
         /\ [x EXCEPT !.attempts = @ + 1].version = x.version
BY DEF Item

\* The fields of a queued item have their types.
LEMMA ItemFields == \A x \in Item : x.key \in Keys /\ x.version \in Nat /\ x.attempts \in Nat
BY DEF Item

\* Under the first layer the array holds items only, one per key.
LEMMA ItemsOfArray ==
  ASSUME NEW s \in Seq(Item)
  PROVE  /\ Len(s) \in Nat /\ DOMAIN s = 1..Len(s)
         /\ \A i \in DOMAIN s : s[i] \in Item /\ s[i].key \in Keys /\ s[i].version \in Nat
<1>1. Len(s) \in Nat /\ DOMAIN s = 1..Len(s) /\ \A i \in DOMAIN s : s[i] \in Item
  BY LenProperties
<1> QED
  BY <1>1, ItemFields

\* A statement about the elements of an array, read at its indices.
LEMMA ElementsOfSeq ==
  ASSUME NEW S, NEW s \in Seq(S)
  PROVE  ToSet(s) \subseteq S /\ \A n : VersionsBelow(s, n) <=> \A x \in ToSet(s) : x.version < n
BY LenProperties DEF ToSet, VersionsBelow

\* recordDrop keeps the drop counters natural.
LEMMA RecordDropType ==
  ASSUME NEW c \in [DropReasons -> Nat], NEW r \in DropReasons
  PROVE  recordDrop(c, r) \in [DropReasons -> Nat]
BY DEF recordDrop

\* restoreDroppedDelta keeps the drop counters natural.
LEMMA AddDropsType ==
  ASSUME NEW c \in [DropReasons -> Nat], NEW d \in [DropReasons -> Nat]
  PROVE  AddDrops(c, d) \in [DropReasons -> Nat]
BY DEF AddDrops

\* An eviction is counted under one of the drop reasons.
LEMMA CapacityReasonType == \A m : CapacityReason(m) \in DropReasons
BY DEF CapacityReason, DropReasons

-----------------------------------------------------------------------------
\* enqueue keeps the first layer.
LEMMA EnqueueKeepsInv1 ==
  ASSUME Inv1, NEW req \in Request, enqueue(req)
  PROVE  /\ items' \in Seq(Item) /\ OneItemPerKey(items') /\ VersionsBelow(items', nextVersion')
         /\ nextVersion' \in Nat
         /\ droppedByReason' \in [DropReasons -> Nat] /\ drops' \in [DropReasons -> Nat]
         /\ pendingBlob' \subseteq Seq(Item) /\ writing' \subseteq Seq(Item)
         /\ asleep' = FALSE
         /\ latest' \in [Keys -> Nat] /\ settled' \in [Keys -> Nat]
<1> DEFINE it == [key |-> req.key, op |-> req.op, version |-> nextVersion, attempts |-> 0]
           m == ModuleOf(it.key)
           pushed == Requeue(items, it)
           evicted == pushed[OldestOf(pushed, m)]
<1>0. /\ items \in Seq(Item) /\ OneItemPerKey(items) /\ VersionsBelow(items, nextVersion)
      /\ nextVersion \in Nat
      /\ droppedByReason \in [DropReasons -> Nat] /\ drops \in [DropReasons -> Nat]
      /\ pendingBlob \subseteq Seq(Item) /\ writing \subseteq Seq(Item)
      /\ latest \in [Keys -> Nat] /\ settled \in [Keys -> Nat]
  BY QueueWellFormedParts DEF Inv1, TypeOK
<1>1. it \in Item /\ it.version = nextVersion
  BY <1>0 DEF Item, Request
<1>2. /\ nextVersion' = nextVersion + 1
      /\ items' = Enqueued(items, it)
      /\ persist(items')
      /\ asleep' = FALSE
      /\ latest' = [latest EXCEPT ![it.key] = it.version]
  BY DEF enqueue
<1>2a. IF Overflows(pushed, m)
         THEN /\ droppedByReason' = recordDrop(droppedByReason, CapacityReason(m))
              /\ drops' = recordDrop(drops, CapacityReason(m))
              /\ settled' = [settled EXCEPT ![evicted.key] = evicted.version]
         ELSE UNCHANGED <<droppedByReason, drops, settled>>
  BY DEF enqueue
<1> HIDE DEF it
<1>3. /\ pushed \in Seq(Item) /\ OneItemPerKey(pushed)
      /\ ToSet(pushed) = {x \in ToSet(items) : x.key # it.key} \cup {it}
  BY <1>0, <1>1, RequeueElements
<1>4. /\ items' \in Seq(Item) /\ OneItemPerKey(items')
      /\ ToSet(items') \subseteq ToSet(pushed)
      /\ Overflows(pushed, m) => evicted \in ToSet(pushed)
  BY <1>0, <1>1, <1>2, EnqueuedElements
<1> HIDE DEF pushed, evicted, m
<1>5. VersionsBelow(items', nextVersion')
  <2>1. \A x \in ToSet(items) : x \in Item /\ x.version < nextVersion
    BY <1>0, ElementsOfSeq
  <2>2. \A x \in ToSet(items') : x \in ToSet(items) \/ x = it
    BY <1>3, <1>4
  <2>3. \A x \in ToSet(items') : x.version < nextVersion + 1
    <3> SUFFICES ASSUME NEW x \in ToSet(items') PROVE x.version < nextVersion + 1
      OBVIOUS
    <3>1. CASE x \in ToSet(items)
      <4>1. x.version \in Nat /\ x.version < nextVersion BY <3>1, <2>1 DEF Item
      <4> QED BY <4>1, <1>0
    <3>2. CASE x = it
      BY <3>2, <1>0, <1>1
    <3> QED BY <3>1, <3>2, <2>2
  <2>4. \A x \in ToSet(items') : x.version < nextVersion'
    BY <2>3, <1>2
  <2> QED BY <2>4, <1>4, ElementsOfSeq
<1>6. pendingBlob' \subseteq Seq(Item) /\ writing' \subseteq Seq(Item)
  BY <1>0, <1>2, <1>4 DEF persist
<1>7. droppedByReason' \in [DropReasons -> Nat] /\ drops' \in [DropReasons -> Nat]
  <2>1. CASE Overflows(pushed, m)
    <3>1. /\ droppedByReason' = recordDrop(droppedByReason, CapacityReason(m))
          /\ drops' = recordDrop(drops, CapacityReason(m))
      BY <2>1, <1>2a
    <3>2. CapacityReason(m) \in DropReasons
      BY CapacityReasonType
    <3> QED BY <3>1, <3>2, <1>0, RecordDropType
  <2>2. CASE ~Overflows(pushed, m)
    BY <2>2, <1>0, <1>2a
  <2> QED BY <2>1, <2>2
<1>8. latest' \in [Keys -> Nat] /\ settled' \in [Keys -> Nat]
  <2>1. Overflows(pushed, m) => evicted \in Item
    BY <1>3, <1>4, ElementsOfSeq
  <2> QED BY <2>1, <1>0, <1>1, <1>2, <1>2a DEF Item
<1> QED
  BY <1>0, <1>2, <1>4, <1>5, <1>6, <1>7, <1>8

\* markDoneIfVersion, as the drain loop calls it, keeps the first layer.
LEMMA MarkDoneKeepsInv1 ==
  ASSUME Inv1, NEW it \in Item, NEW s \in Seq(Item), OneItemPerKey(s),
         VersionsBelow(s, nextVersion), MarkDone(it, s)
  PROVE  /\ items' \in Seq(Item) /\ OneItemPerKey(items') /\ VersionsBelow(items', nextVersion)
         /\ pendingBlob' \subseteq Seq(Item) /\ writing' \subseteq Seq(Item)
         /\ capacityWaiters' \subseteq Producers
         /\ settled' \in [Keys -> Nat]
<1> DEFINE t == markDoneIfVersion(s, it)
<1>1. /\ t \in Seq(Item) /\ OneItemPerKey(t) /\ ToSet(t) \subseteq ToSet(s)
  BY MarkDoneElements
<1>2. VersionsBelow(t, nextVersion)
  BY <1>1, ElementsOfSeq
<1>3. items' = t \/ items' = s
  BY DEF MarkDone
<1>4. items' \in Seq(Item) /\ OneItemPerKey(items') /\ VersionsBelow(items', nextVersion)
  BY <1>1, <1>2, <1>3
<1> HIDE DEF t
<1>5. /\ pendingBlob' \subseteq Seq(Item) /\ writing' \subseteq Seq(Item)
      /\ capacityWaiters' \subseteq Producers
      /\ settled' \in [Keys -> Nat]
  BY <1>4 DEF MarkDone, persistAfter, persist, Inv1, TypeOK, Item
<1> QED
  BY <1>4, <1>5

\* bumpAttempts keeps the first layer.
LEMMA BumpKeepsInv1 ==
  ASSUME Inv1, NEW it \in Item
  PROVE  LET s == bumpAttempts(items, it)
         IN s \in Seq(Item) /\ OneItemPerKey(s) /\ VersionsBelow(s, nextVersion)
<1> DEFINE s == bumpAttempts(items, it)
           old == items[IndexOfKey(items, it.key)]
           new == [old EXCEPT !.attempts = @ + 1]
<1>0. items \in Seq(Item) /\ OneItemPerKey(items) /\ VersionsBelow(items, nextVersion)
  BY QueueWellFormedParts DEF Inv1, TypeOK
<1>1. CASE IsCurrent(items, it)
  <2>1. \A x \in Item : [x EXCEPT !.attempts = @ + 1] \in Item
                        /\ [x EXCEPT !.attempts = @ + 1].key = x.key
    BY BumpedItem
  <2>2. /\ s \in Seq(Item) /\ OneItemPerKey(s)
        /\ ToSet(s) = {x \in ToSet(items) : x.key # it.key} \cup {new}
    BY <1>0, <1>1, <2>1, BumpElements
  <2>3. old \in ToSet(items) /\ old \in Item
    BY <1>0, <1>1, CurrentItem, ElementsOfSeq
  <2> HIDE DEF s, old
  <2>4. new.version = old.version
    BY <2>3, BumpedItem
  <2> HIDE DEF new
  <2>5. \A x \in ToSet(s) : x.version < nextVersion
    BY <1>0, <2>2, <2>3, <2>4, ElementsOfSeq
  <2> QED BY <2>2, <2>5, ElementsOfSeq DEF s
<1>2. CASE ~IsCurrent(items, it)
  BY <1>0, <1>2, BumpStale
<1> QED
  BY <1>1, <1>2

-----------------------------------------------------------------------------
(***************************************************************************)
(* load().                                                                 *)
(***************************************************************************)

\* A nonempty bounded set of naturals has its Max.
LEMMA MaxOfNaturals ==
  ASSUME NEW T, T \subseteq Nat, T # {}, NEW b \in Nat, \A x \in T : x <= b
  PROVE  Max(T) \in T /\ \A y \in T : y <= Max(T)
<1> DEFINE U == {n \in Nat : \A x \in T : x <= n}
           u == Min(U)
<1>1. u \in U /\ \A y \in U : u <= y
  <2>1. b \in U /\ U \subseteq Nat
    OBVIOUS
  <2> HIDE DEF U
  <2> QED BY <2>1, MinOfNaturals
<1>2. u \in Nat /\ \A x \in T : x <= u
  BY <1>1
<1> HIDE DEF u
<1>3. u \in T
  <2> SUFFICES ASSUME u \notin T PROVE FALSE
    OBVIOUS
  <2>1. \A x \in T : x \in Nat /\ x <= u - 1
    BY <1>2
  <2>2. u - 1 \in Nat
    <3>1. PICK x \in T : x \in Nat /\ x <= u - 1
      BY <2>1
    <3> QED BY <3>1, <1>2
  <2>3. u - 1 \in U
    BY <2>1, <2>2
  <2> QED BY <1>1, <1>2, <2>3
<1>4. \E x \in T : \A y \in T : x >= y
  BY <1>2, <1>3
<1>5. Max(T) \in T /\ \A y \in T : Max(T) >= y
  BY <1>4 DEF Max
<1> QED
  BY <1>5

\* Finitely many naturals are bounded: otherwise take the shortest prefix that
\* is not.
LEMMA FunctionBounded ==
  ASSUME NEW N \in Nat, NEW f \in [1..N -> Nat]
  PROVE  \E b \in Nat : \A i \in 1..N : f[i] <= b
<1> DEFINE Bounded(n) == \E b \in Nat : \A i \in 1..n : f[i] <= b
           Bad == {n \in 0..N : ~Bounded(n)}
           n0 == Min(Bad)
<1>0. SUFFICES ASSUME ~Bounded(N) PROVE FALSE
  OBVIOUS
<1>1. n0 \in 0..N /\ ~Bounded(n0) /\ \A y \in 0..N : ~Bounded(y) => n0 <= y
  <2>1. Bad \subseteq Nat /\ N \in Bad
    BY <1>0
  <2>2. n0 \in Bad /\ \A y \in Bad : n0 <= y
    <3> HIDE DEF Bad
    <3> QED BY <2>1, MinOfNaturals
  <2> HIDE DEF n0, Bounded
  <2> QED BY <2>2
<1> HIDE DEF n0, Bad
<1>2. n0 # 0
  <2>1. \A i \in 1..0 : f[i] <= 0
    OBVIOUS
  <2> QED BY <2>1, <1>1
<1>3. n0 - 1 \in 0..N /\ Bounded(n0 - 1)
  <2> HIDE DEF Bounded
  <2> QED BY <1>1, <1>2
<1>4. PICK b \in Nat : \A i \in 1..(n0 - 1) : f[i] <= b
  BY <1>3
<1>5. n0 \in 1..N /\ f[n0] \in Nat
  <2>1. n0 \in 1..N
    <3> HIDE DEF Bounded
    <3> QED BY <1>1, <1>2
  <2> QED BY <2>1
<1>6. \A i \in 1..n0 : f[i] <= b + f[n0]
  <2> SUFFICES ASSUME NEW i \in 1..n0 PROVE f[i] <= b + f[n0]
    OBVIOUS
  <2>1. f[i] \in Nat
    BY <1>5
  <2>2. i = n0 \/ i \in 1..(n0 - 1)
    BY <1>5
  <2>3. i \in 1..(n0 - 1) => f[i] <= b
    BY <1>4
  <2> QED BY <2>1, <2>2, <2>3, <1>5
<1>7. b + f[n0] \in Nat
  BY <1>5
<1> QED
  BY <1>1, <1>6, <1>7

\* load() reseeds the counter above every version it loaded.
LEMMA MaxLoadedProperties ==
  ASSUME NEW s \in Seq(Item)
  PROVE  MaxLoaded(s) \in Nat /\ VersionsBelow(s, MaxLoaded(s) + 1)
<1> DEFINE T == {s[i].version : i \in DOMAIN s} \cup {0}
           f == [i \in 1..Len(s) |-> s[i].version]
<1>1. Len(s) \in Nat /\ DOMAIN s = 1..Len(s) /\ \A i \in DOMAIN s : s[i].version \in Nat
  BY ItemsOfArray
<1>2. PICK b \in Nat : \A i \in DOMAIN s : s[i].version <= b
  <2>1. f \in [1..Len(s) -> Nat]
    BY <1>1
  <2>2. \E b \in Nat : \A i \in 1..Len(s) : f[i] <= b
    <3> HIDE DEF f
    <3> QED BY <2>1, <1>1, FunctionBounded
  <2> QED BY <2>2, <1>1
<1>3. T \subseteq Nat /\ T # {} /\ \A x \in T : x <= b
  BY <1>1, <1>2
<1>4. MaxLoaded(s) = Max(T)
  BY DEF MaxLoaded
<1>5. \A i \in DOMAIN s : s[i].version \in T
  OBVIOUS
<1> HIDE DEF T
<1>6. Max(T) \in Nat /\ \A y \in T : y \in Nat /\ y <= Max(T)
  BY <1>3, MaxOfNaturals
<1> QED
  BY <1>4, <1>5, <1>6 DEF VersionsBelow

\* A strictly increasing map of 1..N into itself is the identity.
LEMMA StrictlyIncreasing ==
  ASSUME NEW N \in Nat, NEW f \in [1..N -> 1..N],
         \A i, j \in 1..N : i < j => f[i] < f[j]
  PROVE  \A i \in 1..N : f[i] = i
<1> DEFINE Low == {i \in 1..N : f[i] < i}
           High == {d \in 0..(N - 1) : f[N - d] > N - d}
<1>1. Low = {}
  <2>1. SUFFICES ASSUME Low # {} PROVE FALSE
    OBVIOUS
  <2> DEFINE i == Min(Low)
  <2>2. i \in Low /\ \A y \in Low : i <= y
    <3>1. Low \subseteq Nat
      OBVIOUS
    <3> HIDE DEF Low
    <3> QED BY <2>1, <3>1, MinOfNaturals
  <2> HIDE DEF i
  <2>3. i \in 1..N /\ f[i] < i /\ f[i] \in 1..N
    BY <2>2
  <2>4. i - 1 \in 1..N /\ f[i - 1] \in 1..N
    BY <2>3
  <2>5. f[i - 1] < f[i]
    BY <2>3, <2>4
  <2>6. i - 1 \in Low
    BY <2>3, <2>4, <2>5
  <2> HIDE DEF Low
  <2> QED BY <2>2, <2>3, <2>6
<1>2. High = {}
  <2>1. SUFFICES ASSUME High # {} PROVE FALSE
    OBVIOUS
  <2> DEFINE d == Min(High)
  <2>2. d \in High /\ \A y \in High : d <= y
    <3>1. High \subseteq Nat
      OBVIOUS
    <3> HIDE DEF High
    <3> QED BY <2>1, <3>1, MinOfNaturals
  <2> HIDE DEF d
  <2>3. d \in 0..(N - 1) /\ N - d \in 1..N /\ f[N - d] > N - d /\ f[N - d] \in 1..N
    BY <2>2
  <2>4. d - 1 \in 0..(N - 1) /\ N - (d - 1) \in 1..N /\ f[N - (d - 1)] \in 1..N
    BY <2>3
  <2>5. f[N - d] < f[N - (d - 1)]
    BY <2>3, <2>4
  <2>6. d - 1 \in High
    BY <2>3, <2>4, <2>5
  <2> HIDE DEF High
  <2> QED BY <2>2, <2>3, <2>6
<1>3. \A i \in 1..N : f[i] \in 1..N /\ N - i \in 0..(N - 1) /\ N - (N - i) = i
  OBVIOUS
<1>4. \A i \in 1..N : ~(f[i] < i)
  BY <1>1
<1>5. \A i \in 1..N : ~(f[i] > i)
  <2> SUFFICES ASSUME NEW i \in 1..N, f[i] > i PROVE N - i \in High
    BY <1>2
  <2>1. N - i \in 0..(N - 1) /\ N - (N - i) = i
    BY <1>3
  <2> QED BY <2>1
<1> QED
  BY <1>3, <1>4, <1>5

\* The lines load() accepts are items.
LEMMA ValidLines ==
  ASSUME NEW lines \in Seq(Line)
  PROVE  /\ Len(lines) \in Nat /\ DOMAIN lines = 1..Len(lines)
         /\ Valid(lines) \subseteq 1..Len(lines)
         /\ \A i \in Valid(lines) : lines[i] \in Item
<1>1. /\ Len(lines) \in Nat /\ DOMAIN lines = 1..Len(lines)
      /\ \A i \in DOMAIN lines : lines[i] \in Line
  BY LenProperties
<1> QED
  BY <1>1 DEF Valid, Line

\* What load() returns: an array of items without duplicates, no longer than
\* the file, and the file itself when it is as long.
LEMMA LoadedArray ==
  ASSUME NEW lines \in Seq(Line),
         NEW s \in SeqOf({lines[i] : i \in Valid(lines)}, Len(lines)),
         IsLoadOf(lines, s)
  PROVE  /\ s \in Seq(Item) /\ OneItemPerKey(s)
         /\ Len(s) <= Len(lines)
         /\ Len(s) = Len(lines) => s = lines
<1> DEFINE V == Valid(lines)
           N == Len(lines)
           First(k) == {i \in V : lines[i].key = k}
<1>1. N \in Nat /\ DOMAIN lines = 1..N /\ V \subseteq 1..N /\ \A i \in V : lines[i] \in Item
  BY ValidLines
<1>2. PICK n \in 0..N : s \in [1..n -> {lines[i] : i \in V}]
  BY DEF SeqOf
<1>3. s \in Seq(Item) /\ Len(s) = n /\ DOMAIN s = 1..n
  <2>1. s \in [1..n -> Item]
    BY <1>1, <1>2
  <2> QED BY <2>1
<1>4. \A i \in 1..n : \E j \in V : s[i] = lines[j] /\ Wins(lines, j)
  BY <1>3 DEF IsLoadOf
<1>5. \A i \in 1..n : /\ FirstLineOf(lines, s[i].key) \in V
                      /\ lines[FirstLineOf(lines, s[i].key)].key = s[i].key
                      /\ FirstLineOf(lines, s[i].key) \in 1..N
  <2> SUFFICES ASSUME NEW i \in 1..n
               PROVE  Min(First(s[i].key)) \in First(s[i].key)
    BY <1>1 DEF FirstLineOf
  <2>1. First(s[i].key) # {} /\ First(s[i].key) \subseteq Nat
    BY <1>1, <1>4
  <2> HIDE DEF First
  <2> QED BY <2>1, MinOfNaturals
<1>6. \A i, j \in 1..n : i < j => FirstLineOf(lines, s[i].key) < FirstLineOf(lines, s[j].key)
  BY <1>3 DEF IsLoadOf
<1>7. OneItemPerKey(s)
  <2> SUFFICES ASSUME NEW i \in 1..n, NEW j \in 1..n, s[i].key = s[j].key, i < j PROVE FALSE
    BY <1>3 DEF OneItemPerKey
  <2> QED BY <1>5, <1>6
<1>8. ASSUME n = N PROVE s = lines
  <2> DEFINE f == [i \in 1..N |-> FirstLineOf(lines, s[i].key)]
  <2>1. f \in [1..N -> 1..N] /\ \A i, j \in 1..N : i < j => f[i] < f[j]
    BY <1>5, <1>6, <1>8
  <2>2. \A i \in 1..N : f[i] = i
    <3> HIDE DEF f
    <3> QED BY <2>1, <1>1, StrictlyIncreasing
  <2>3. \A i \in 1..N : i \in V /\ lines[i].key = s[i].key
    BY <2>2, <1>5, <1>8
  <2>4. \A i, j \in 1..N : s[i].key = s[j].key => i = j
    BY <1>3, <1>7, <1>8 DEF OneItemPerKey
  <2>5. \A i \in 1..N : s[i] = lines[i]
    <3> SUFFICES ASSUME NEW i \in 1..N PROVE s[i] = lines[i]
      OBVIOUS
    <3>1. PICK j \in V : s[i] = lines[j]
      BY <1>4, <1>8
    <3>2. j \in 1..N /\ s[j].key = s[i].key
      BY <3>1, <1>1, <2>3
    <3> QED BY <3>1, <3>2, <2>4
  <2>6. s \in Seq(Line) /\ Len(s) = Len(lines)
    BY <1>3, <1>8 DEF Line
  <2> QED BY <2>5, <2>6, <1>8, <1>3, SeqEqual
<1>9. Len(s) <= Len(lines)
  BY <1>1, <1>3
<1> QED
  BY <1>3, <1>7, <1>8, <1>9

\* Start keeps the first layer.
LEMMA StartKeepsInv1 ==
  ASSUME Inv1, Start
  PROVE  Inv1'
<1>1. PICK s \in SeqOf({disk[i] : i \in Valid(disk)}, Len(disk)) :
        /\ IsLoadOf(disk, s)
        /\ items' = s
        /\ nextVersion' = MaxLoaded(s) + 1
        /\ latest' = [k \in Keys |-> VersionIn(s, k)]
        /\ IF Len(s) < Len(disk) THEN writing' = {s} ELSE writing' = {}
  BY DEF Start, load
<1>2. disk \in Seq(Line)
  BY DEF Inv1, TypeOK
<1>3. s \in Seq(Item) /\ OneItemPerKey(s)
  BY <1>1, <1>2, LoadedArray
<1>4. nextVersion' \in Nat /\ VersionsBelow(items', nextVersion')
  <2>1. MaxLoaded(s) \in Nat /\ VersionsBelow(s, MaxLoaded(s) + 1)
    BY <1>3, MaxLoadedProperties
  <2> QED BY <2>1, <1>1
<1>5. latest' \in [Keys -> Nat]
  <2>1. \A k \in Keys : VersionIn(s, k) \in Nat
    <3> SUFFICES ASSUME NEW k \in Keys PROVE VersionIn(s, k) \in Nat
      OBVIOUS
    <3>1. IndexOfKey(s, k) > 0 => IndexOfKey(s, k) \in DOMAIN s
      BY <1>3, IndexOfKeyProperties, ItemsOfArray
    <3> QED BY <3>1, <1>3, ItemsOfArray DEF VersionIn
  <2> QED BY <2>1, <1>1
<1>6. droppedByReason' \in [DropReasons -> Nat] /\ drops' \in [DropReasons -> Nat]
  <2> DEFINE V == Valid(disk)
             bad == Len(disk) - Cardinality(V)
  <2>1. Len(disk) \in Nat /\ V \subseteq 1..Len(disk)
    BY <1>2, ValidLines
  <2>2. IsFiniteSet(1..Len(disk)) /\ Cardinality(1..Len(disk)) = Len(disk)
    <3>1. /\ IsFiniteSet(1..Len(disk))
          /\ Cardinality(1..Len(disk)) = IF 1 > Len(disk) THEN 0 ELSE Len(disk) - 1 + 1
      BY <2>1, FS_Interval
    <3> QED BY <3>1, <2>1
  <2> HIDE DEF V
  <2>3. IsFiniteSet(V) /\ Cardinality(V) <= Len(disk)
    BY <2>1, <2>2, FS_Subset
  <2>4. Cardinality(V) \in Nat
    BY <2>3, FS_CardinalityType
  <2>5. bad \in Nat
    BY <2>1, <2>3, <2>4
  <2>6. droppedByReason' = [NoDrops EXCEPT !["invalid_persisted"] = bad] /\ drops' = droppedByReason'
    BY DEF Start, load, V
  <2> HIDE DEF bad
  <2> QED BY <2>5, <2>6 DEF NoDrops
<1>7. writing' \subseteq Seq(Item)
  BY <1>1, <1>3
<1>8. /\ phase' = "up" /\ starts' \in Nat /\ pendingBlob' = {} /\ stale' = FALSE
      /\ settled' \in [Keys -> Nat] /\ beats' = 0 /\ reported' = NoDrops
      /\ UNCHANGED <<disk, waitVars, drainVars, beat>>
  BY DEF Start, load, Inv1, TypeOK
<1>9. TypeOK'
  BY <1>1, <1>3, <1>4, <1>5, <1>6, <1>7, <1>8
     DEF Inv1, TypeOK, waitVars, drainVars, NoDrops
<1> QED
  BY <1>1, <1>3, <1>4, <1>9, QueueWellFormedParts DEF Inv1, QueueWellFormed, OneItemPerKey,
     VersionsBelow

-----------------------------------------------------------------------------
(***************************************************************************)
(* The first layer: types and a well-formed array.                         *)
(***************************************************************************)

\* What a process without memory has in its variables.
LEMMA NothingTypes ==
  /\ <<>> \in Seq(Item)
  /\ NoDrops \in [DropReasons -> Nat]
  /\ [k \in Keys |-> 0] \in [Keys -> Nat]
  /\ [p \in Producers |-> {}] \in [Producers -> SUBSET Request]
BY DEF NoDrops

\* The first layer holds before the process starts.
LEMMA InitInv1 == Init => Inv1
<1> SUFFICES ASSUME Init PROVE Inv1
  OBVIOUS
<1>1. disk \in Seq(Line)
  BY RetryQueueAssumption DEF Init, Line
<1>2. TypeOK
  BY <1>1, NothingTypes DEF Init, TypeOK
<1>3. QueueWellFormed
  BY DEF Init, QueueWellFormed
<1> QED
  BY <1>2, <1>3 DEF Inv1

\* Every step keeps the types and the well-formed array.
LEMMA NextInv1 == Inv1 /\ [Next]_vars => Inv1'
<1> SUFFICES ASSUME Inv1, [Next]_vars PROVE Inv1'
  OBVIOUS
<1>0. TypeOK /\ QueueWellFormed
  BY DEF Inv1
<1>1. ASSUME NEW req \in Request, Enqueue(req) PROVE Inv1'
  <2>1. enqueue(req)
    BY <1>1 DEF Enqueue
  <2>2. TypeOK'
    BY <1>0, <1>1, <2>1, EnqueueKeepsInv1 DEF Enqueue, TypeOK, waitVars, beatVars
  <2> QED BY <2>1, <2>2, EnqueueKeepsInv1 DEF Inv1, QueueWellFormed, OneItemPerKey, VersionsBelow
<1>2. ASSUME NEW p \in Producers, NEW req \in Request, CallEnqueueWhenAvailable(p, req) PROVE Inv1'
  <2>1. wants' \in [Producers -> SUBSET Request]
    BY <1>0, <1>2 DEF CallEnqueueWhenAvailable, TypeOK
  <2> QED BY <1>0, <1>2, <2>1 DEF CallEnqueueWhenAvailable, Inv1, TypeOK, QueueWellFormed, queueVars,
                                  drainVars, beatVars, historyVars
<1>3. ASSUME NEW p \in Producers, EnqueueWhenAvailable(p) PROVE Inv1'
  <2>1. PICK req \in wants[p] :
          \/ /\ enqueue(req)
             /\ wants' = [wants EXCEPT ![p] = {}]
             /\ UNCHANGED <<phase, disk, stale, capacityWaiters, available, drain, beatVars, starts>>
          \/ /\ capacityWaiters' = capacityWaiters \cup {p}
             /\ UNCHANGED <<phase, queueVars, disk, stale, wants, drainVars, beatVars, starts,
                            historyVars>>
    BY <1>3 DEF EnqueueWhenAvailable
  <2>2. req \in Request
    BY <1>0 DEF TypeOK
  <2>3. CASE /\ enqueue(req)
             /\ wants' = [wants EXCEPT ![p] = {}]
             /\ UNCHANGED <<phase, disk, stale, capacityWaiters, available, drain, beatVars, starts>>
    <3>1. wants' \in [Producers -> SUBSET Request]
      BY <1>0, <2>3 DEF TypeOK
    <3>2. TypeOK'
      BY <1>0, <2>2, <2>3, <3>1, EnqueueKeepsInv1 DEF TypeOK, beatVars
    <3> QED BY <2>2, <2>3, <3>2, EnqueueKeepsInv1 DEF Inv1, QueueWellFormed, OneItemPerKey,
                                                     VersionsBelow
  <2>4. CASE /\ capacityWaiters' = capacityWaiters \cup {p}
             /\ UNCHANGED <<phase, queueVars, disk, stale, wants, drainVars, beatVars, starts,
                            historyVars>>
    BY <1>0, <2>4 DEF Inv1, TypeOK, QueueWellFormed, queueVars, drainVars, beatVars, historyVars
  <2> QED BY <2>1, <2>3, <2>4
<1>4. ASSUME NEW p \in Producers, AbortEnqueue(p) PROVE Inv1'
  <2>1. wants' \in [Producers -> SUBSET Request]
    BY <1>0, <1>4 DEF AbortEnqueue, TypeOK
  <2> QED BY <1>0, <1>4, <2>1 DEF AbortEnqueue, Inv1, TypeOK, QueueWellFormed, queueVars, drainVars,
                                  beatVars, historyVars
<1>5. ASSUME NEW m \in Modules, ModuleChanged(m) PROVE Inv1'
  BY <1>0, <1>5 DEF ModuleChanged, Inv1, TypeOK, QueueWellFormed, queueVars, waitVars, beatVars,
                    historyVars
<1>6. CASE DrainPeek
  <2>1. drain' \subseteq Item
    <3>1. CASE \E i \in DOMAIN items : Eligible(items[i])
      <4> DEFINE I == {i \in 1..Len(items) : Eligible(items[i])}
      <4>1. /\ Len(items) \in Nat /\ DOMAIN items = 1..Len(items)
            /\ \A i \in DOMAIN items : items[i] \in Item
        BY <1>0, ItemsOfArray DEF TypeOK
      <4>2. I # {} /\ I \subseteq Nat
        BY <3>1, <4>1
      <4>3. SelectInSeq(items, Eligible) = Min(I)
        BY <4>2 DEF SelectInSeq
      <4>4. Min(I) \in I
        BY <4>2, MinOfNaturals
      <4>5. drain' = {items[SelectInSeq(items, Eligible)]}
        BY <1>6, <3>1 DEF DrainPeek
      <4> QED BY <4>1, <4>3, <4>4, <4>5
    <3>2. CASE ~\E i \in DOMAIN items : Eligible(items[i])
      BY <1>0, <1>6, <3>2 DEF DrainPeek, TypeOK
    <3> QED BY <3>1, <3>2
  <2>2. asleep' \in BOOLEAN
    BY <1>0, <1>6 DEF DrainPeek, TypeOK
  <2>3. UNCHANGED <<phase, queueVars, disk, stale, waitVars, available, beatVars, starts, historyVars>>
    BY <1>6 DEF DrainPeek
  <2> QED BY <1>0, <2>1, <2>2, <2>3 DEF Inv1, TypeOK, QueueWellFormed, queueVars, waitVars, beatVars,
                                       historyVars
<1>7. CASE DrainTimeout
  BY <1>0, <1>7 DEF DrainTimeout, Inv1, TypeOK, QueueWellFormed, queueVars, waitVars, beatVars,
                    historyVars
<1>8. CASE DrainDone
  <2>1. PICK it \in drain : MarkDone(it, items)
    BY <1>8 DEF DrainDone
  <2>2. it \in Item /\ items \in Seq(Item) /\ OneItemPerKey(items) /\ VersionsBelow(items, nextVersion)
    BY <1>0, QueueWellFormedParts DEF TypeOK
  <2>3. /\ items' \in Seq(Item) /\ OneItemPerKey(items') /\ VersionsBelow(items', nextVersion)
        /\ pendingBlob' \subseteq Seq(Item) /\ writing' \subseteq Seq(Item)
        /\ capacityWaiters' \subseteq Producers /\ settled' \in [Keys -> Nat]
    BY <2>1, <2>2, MarkDoneKeepsInv1
  <2>4. TypeOK'
    BY <1>0, <1>8, <2>3 DEF DrainDone, TypeOK, beatVars
  <2> QED BY <1>8, <2>3, <2>4 DEF DrainDone, Inv1, QueueWellFormed, OneItemPerKey, VersionsBelow
<1>9. CASE DrainRetry
  <2>1. PICK it \in drain :
          /\ items' = bumpAttempts(items, it)
          /\ IF IsCurrent(items, it) THEN persist(items') ELSE UNCHANGED <<pendingBlob, writing>>
    BY <1>9 DEF DrainRetry
  <2>2. it \in Item
    BY <1>0 DEF TypeOK
  <2>3. items' \in Seq(Item) /\ OneItemPerKey(items') /\ VersionsBelow(items', nextVersion)
    BY <2>1, <2>2, BumpKeepsInv1
  <2>4. pendingBlob' \subseteq Seq(Item) /\ writing' \subseteq Seq(Item)
    BY <1>0, <2>1, <2>3 DEF persist, TypeOK
  <2>5. /\ drain' = {}
        /\ UNCHANGED <<phase, nextVersion, droppedByReason, disk, stale, waitVars, available, asleep,
                       beatVars, starts, historyVars>>
    BY <1>9 DEF DrainRetry
  <2>6. TypeOK'
    BY <1>0, <2>3, <2>4, <2>5 DEF TypeOK, waitVars, beatVars, historyVars
  <2> QED BY <2>3, <2>5, <2>6 DEF Inv1, QueueWellFormed, OneItemPerKey, VersionsBelow
<1>10. ASSUME NEW r \in {"permanent", "retry_exhausted", "oversized"}, DrainDrop(r) PROVE Inv1'
  <2>1. PICK it \in drain : MarkDone(it, bumpAttempts(items, it))
    BY <1>10 DEF DrainDrop
  <2>2. it \in Item
    BY <1>0 DEF TypeOK
  <2> DEFINE s == bumpAttempts(items, it)
  <2>3. s \in Seq(Item) /\ OneItemPerKey(s) /\ VersionsBelow(s, nextVersion)
    BY <2>2, BumpKeepsInv1
  <2> HIDE DEF s
  <2>4. /\ items' \in Seq(Item) /\ OneItemPerKey(items') /\ VersionsBelow(items', nextVersion)
        /\ pendingBlob' \subseteq Seq(Item) /\ writing' \subseteq Seq(Item)
        /\ capacityWaiters' \subseteq Producers /\ settled' \in [Keys -> Nat]
    BY <2>1, <2>2, <2>3, MarkDoneKeepsInv1 DEF s
  <2>5. /\ droppedByReason' = recordDrop(droppedByReason, r)
        /\ drops' = recordDrop(drops, r)
        /\ drain' = {}
        /\ UNCHANGED <<phase, nextVersion, disk, stale, wants, available, asleep, beatVars, starts,
                       latest>>
    BY <1>10 DEF DrainDrop
  <2>6. r \in DropReasons
    BY DEF DropReasons
  <2>7. droppedByReason' \in [DropReasons -> Nat] /\ drops' \in [DropReasons -> Nat]
    BY <1>0, <2>5, <2>6, RecordDropType DEF TypeOK
  <2>8. TypeOK'
    BY <1>0, <2>4, <2>5, <2>7 DEF TypeOK, beatVars
  <2> QED BY <2>4, <2>5, <2>8 DEF Inv1, QueueWellFormed, OneItemPerKey, VersionsBelow
<1>11. CASE DrainAbandon
  BY <1>0, <1>11 DEF DrainAbandon, Inv1, TypeOK, QueueWellFormed, queueVars, waitVars, beatVars,
                     historyVars
<1>12. CASE BeatSend
  BY <1>0, <1>12 DEF BeatSend, Inv1, TypeOK, QueueWellFormed, NoDrops, waitVars, drainVars,
                     historyVars
<1>13. CASE BeatOk
  <2>1. reported' \in [DropReasons -> Nat]
    <3>1. PICK d \in beat : reported' = AddDrops(reported, d)
      BY <1>13 DEF BeatOk
    <3> QED BY <1>0, <3>1, AddDropsType DEF TypeOK
  <2> QED BY <1>0, <1>13, <2>1 DEF BeatOk, Inv1, TypeOK, QueueWellFormed, queueVars, waitVars,
                                  drainVars, historyVars
<1>14. CASE BeatFail
  <2>1. reported' \in [DropReasons -> Nat] /\ droppedByReason' \in [DropReasons -> Nat]
    <3>1. PICK d \in beat : /\ droppedByReason' = AddDrops(droppedByReason, d)
                            /\ reported' = reported \/ reported' = AddDrops(reported, d)
      BY <1>14 DEF BeatFail
    <3> QED BY <1>0, <3>1, AddDropsType DEF TypeOK
  <2> QED BY <1>0, <1>14, <2>1 DEF BeatFail, Inv1, TypeOK, QueueWellFormed, waitVars, drainVars,
                                  historyVars
<1>15. CASE WriteOk
  <2>1. disk' \in Seq(Line)
    BY <1>0, <1>15 DEF WriteOk, TypeOK, Line
  <2> QED BY <1>0, <1>15, <2>1 DEF WriteOk, NextBlob, Inv1, TypeOK, QueueWellFormed, waitVars,
                                  drainVars, beatVars, historyVars
<1>16. CASE WriteFail
  BY <1>0, <1>16 DEF WriteFail, NextBlob, Inv1, TypeOK, QueueWellFormed, waitVars, drainVars,
                     beatVars, historyVars
<1>17. CASE Start
  BY <1>17, StartKeepsInv1
<1>18. ASSUME Vanish PROVE Inv1'
  <2>1. TypeOK'
    BY <1>0, <1>18, NothingTypes DEF Vanish, TypeOK
  <2>2. QueueWellFormed'
    BY <1>18 DEF Vanish, QueueWellFormed
  <2> QED BY <2>1, <2>2 DEF Inv1
<1>19. CASE Crash
  BY <1>18, <1>19 DEF Crash
<1>20. CASE Stop
  BY <1>0, <1>20 DEF Stop, Inv1, TypeOK, QueueWellFormed, queueVars, waitVars, drainVars, beatVars,
                     historyVars
<1>21. CASE Exit
  BY <1>18, <1>21 DEF Exit
<1>22. CASE UNCHANGED vars
  BY <1>0, <1>22 DEF vars, Inv1, TypeOK, QueueWellFormed, queueVars, waitVars, drainVars, beatVars,
                     historyVars
<1> QED
  BY <1>1, <1>2, <1>3, <1>4, <1>5, <1>6, <1>7, <1>8, <1>9, <1>10, <1>11, <1>12, <1>13, <1>14, <1>15,
     <1>16, <1>17, <1>19, <1>20, <1>21, <1>22 DEF Next

\* The type invariant, for every value of the constants: the array, its
\* snapshots, the file and the counters of queue.ts keep their shape.
THEOREM TypeCorrect == Spec => []TypeOK
<1>1. Inv1 => TypeOK
  BY DEF Inv1
<1> QED
  BY InitInv1, NextInv1, <1>1, PTL DEF Spec

\* One queued entry per resource and a counter ahead of every stamp, whatever
\* file was loaded and whoever enqueued: queue.ts's dedup and version promise.
THEOREM WellFormed == Spec => []QueueWellFormed
<1>1. Inv1 => QueueWellFormed
  BY DEF Inv1
<1> QED
  BY InitInv1, NextInv1, <1>1, PTL DEF Spec

-----------------------------------------------------------------------------
(***************************************************************************)
(* What a step can do to the array and its snapshots: every action is one  *)
(* of these, and the remaining layers are proved case by case over them.   *)
(***************************************************************************)
StillUp == phase = "down" => phase' = "down"

Quiet == StillUp /\ UNCHANGED <<items, pendingBlob, writing, disk, stale, latest, settled>>
Accepts(req) == StillUp /\ enqueue(req) /\ UNCHANGED <<disk, stale>>
Finishes(it) == StillUp /\ MarkDone(it, items) /\ UNCHANGED <<latest, disk, stale>>
GivesUp(it) == StillUp /\ MarkDone(it, bumpAttempts(items, it)) /\ UNCHANGED <<latest, disk, stale>>
Retries(it) ==
  /\ StillUp
  /\ items' = bumpAttempts(items, it)
  /\ IF IsCurrent(items, it) THEN persist(items') ELSE UNCHANGED <<pendingBlob, writing>>
  /\ UNCHANGED <<latest, settled, disk, stale>>
Writes == StillUp /\ (WriteOk \/ WriteFail) /\ UNCHANGED <<items, latest, settled>>

QueueStep ==
  \/ Quiet
  \/ \E req \in Request : Accepts(req)
  \/ \E it \in Item : Finishes(it) \/ GivesUp(it) \/ Retries(it)
  \/ Writes \/ Start \/ Vanish

\* Every step of the daemon is one of the five kinds the queue can tell apart.
LEMMA QueueSteps == Inv1 /\ [Next]_vars => QueueStep
<1> SUFFICES ASSUME Inv1, [Next]_vars PROVE QueueStep
  OBVIOUS
<1>0. drain \subseteq Item /\ wants \in [Producers -> SUBSET Request]
  BY DEF Inv1, TypeOK
<1>1. ASSUME NEW req \in Request, Enqueue(req) PROVE QueueStep
  BY <1>1 DEF Enqueue, QueueStep, Accepts, StillUp
<1>2. ASSUME NEW p \in Producers, NEW req \in Request, CallEnqueueWhenAvailable(p, req)
      PROVE  Quiet
  BY <1>2 DEF CallEnqueueWhenAvailable, Quiet, StillUp, queueVars, historyVars
<1>3. ASSUME NEW p \in Producers, EnqueueWhenAvailable(p) PROVE QueueStep
  <2>1. PICK req \in wants[p] :
          \/ enqueue(req) /\ UNCHANGED <<phase, disk, stale>>
          \/ UNCHANGED <<phase, queueVars, disk, stale, historyVars>>
    BY <1>3 DEF EnqueueWhenAvailable
  <2>2. req \in Request
    BY <1>0
  <2>3. CASE enqueue(req) /\ UNCHANGED <<phase, disk, stale>>
    BY <2>2, <2>3 DEF QueueStep, Accepts, StillUp
  <2>4. CASE UNCHANGED <<phase, queueVars, disk, stale, historyVars>>
    BY <2>4 DEF QueueStep, Quiet, StillUp, queueVars, historyVars
  <2> QED BY <2>1, <2>3, <2>4
<1>4. ASSUME NEW p \in Producers, AbortEnqueue(p) PROVE Quiet
  BY <1>4 DEF AbortEnqueue, Quiet, StillUp, queueVars, historyVars
<1>5. ASSUME NEW m \in Modules, ModuleChanged(m) PROVE Quiet
  BY <1>5 DEF ModuleChanged, Quiet, StillUp, queueVars, historyVars
<1>6. CASE DrainPeek \/ DrainTimeout \/ DrainAbandon \/ BeatOk \/ Stop
  BY <1>6 DEF DrainPeek, DrainTimeout, DrainAbandon, BeatOk, Stop, QueueStep, Quiet, StillUp,
              queueVars, historyVars
<1>7. CASE BeatSend \/ BeatFail
  BY <1>7 DEF BeatSend, BeatFail, QueueStep, Quiet, StillUp, historyVars
<1>8. CASE DrainDone
  <2>1. PICK it \in drain : Finishes(it)
    BY <1>8 DEF DrainDone, Finishes, StillUp
  <2> QED BY <1>0, <2>1 DEF QueueStep
<1>9. CASE DrainRetry
  <2>1. PICK it \in drain : Retries(it)
    BY <1>9 DEF DrainRetry, Retries, StillUp, historyVars
  <2> QED BY <1>0, <2>1 DEF QueueStep
<1>10. ASSUME NEW r \in {"permanent", "retry_exhausted", "oversized"}, DrainDrop(r) PROVE QueueStep
  <2>1. PICK it \in drain : GivesUp(it)
    BY <1>10 DEF DrainDrop, GivesUp, StillUp
  <2> QED BY <1>0, <2>1 DEF QueueStep
<1>11. CASE WriteOk \/ WriteFail
  BY <1>11 DEF WriteOk, WriteFail, QueueStep, Writes, StillUp, historyVars
<1>12. CASE Start \/ Crash \/ Exit
  BY <1>12 DEF Crash, Exit, QueueStep
<1>13. CASE UNCHANGED vars
  BY <1>13 DEF vars, QueueStep, Quiet, StillUp, queueVars, historyVars
<1>14. Quiet => QueueStep
  BY DEF QueueStep
<1> QED
  BY <1>1, <1>2, <1>3, <1>4, <1>5, <1>6, <1>7, <1>8, <1>9, <1>10, <1>11, <1>12, <1>13, <1>14 DEF Next

-----------------------------------------------------------------------------
(***************************************************************************)
(* The second layer: accepted work.                                        *)
(***************************************************************************)

\* A queued item carries the version last accepted for its key.
LatestQueued == \A x \in ToSet(items) : x.version = latest[x.key]

\* AcceptedWorkNotLost, over the set of queued items.
WorkAccounted ==
  \A k \in Keys : latest[k] # 0 =>
    (\E x \in ToSet(items) : x.key = k) \/ settled[k] = latest[k]

Inv2 == LatestQueued /\ WorkAccounted

\* VersionIn is the version of the one item of the key.
LEMMA VersionInProperties ==
  ASSUME NEW s \in Seq(Item), OneItemPerKey(s), NEW k
  PROVE  /\ \A x \in ToSet(s) : x.key = k => VersionIn(s, k) = x.version
         /\ (\A x \in ToSet(s) : x.key # k) => VersionIn(s, k) = 0
<1> DEFINE i == IndexOfKey(s, k)
<1>1. Len(s) \in Nat /\ DOMAIN s = 1..Len(s)
  BY ItemsOfArray
<1>2. /\ i \in 0..Len(s) /\ (i > 0 => s[i].key = k)
      /\ i = 0 <=> \A j \in 1..Len(s) : s[j].key # k
  BY IndexOfKeyProperties
<1>3. VersionIn(s, k) = IF i > 0 THEN s[i].version ELSE 0
  BY DEF VersionIn
<1> HIDE DEF i
<1>4. ASSUME NEW j \in 1..Len(s), s[j].key = k PROVE VersionIn(s, k) = s[j].version
  <2>1. i \in 1..Len(s) /\ s[i].key = k
    BY <1>1, <1>2, <1>4
  <2>2. i = j
    BY <1>1, <1>4, <2>1 DEF OneItemPerKey
  <2> QED BY <2>1, <2>2, <1>3
<1>5. ASSUME \A x \in ToSet(s) : x.key # k PROVE VersionIn(s, k) = 0
  <2>1. \A j \in 1..Len(s) : s[j].key # k
    BY <1>1, <1>5 DEF ToSet
  <2> QED BY <2>1, <1>2, <1>3
<1> QED
  BY <1>1, <1>4, <1>5 DEF ToSet

\* An item is current when the array holds its key with its version.
LEMMA CurrentIff ==
  ASSUME NEW s \in Seq(Item), OneItemPerKey(s), NEW it
  PROVE  IsCurrent(s, it) <=> \E x \in ToSet(s) : x.key = it.key /\ x.version = it.version
<1> DEFINE i == IndexOfKey(s, it.key)
<1>1. Len(s) \in Nat /\ DOMAIN s = 1..Len(s)
  BY ItemsOfArray
<1>2. /\ i \in 0..Len(s) /\ (i > 0 => s[i].key = it.key)
      /\ i = 0 <=> \A j \in 1..Len(s) : s[j].key # it.key
  BY IndexOfKeyProperties
<1>3. IsCurrent(s, it) <=> i > 0 /\ s[i].version = it.version
  BY DEF IsCurrent
<1> HIDE DEF i
<1>4. ASSUME NEW j \in 1..Len(s), s[j].key = it.key PROVE i = j
  BY <1>1, <1>2, <1>4 DEF OneItemPerKey
<1>5. i > 0 => i \in 1..Len(s)
  BY <1>1, <1>2
<1> QED
  BY <1>1, <1>2, <1>3, <1>4, <1>5 DEF ToSet

\* The second layer holds before the process starts.
LEMMA InitInv2 == Init => Inv2
BY DEF Init, Inv2, LatestQueued, WorkAccounted, ToSet

\* Two arrays hold the same keys with the same versions.
SameStamps(s, t) ==
  /\ \A x \in ToSet(s) : \E y \in ToSet(t) : y.key = x.key /\ y.version = x.version
  /\ \A y \in ToSet(t) : \E x \in ToSet(s) : y.key = x.key /\ y.version = x.version

\* A failed attempt (bumpAttempts) keeps the stamp queued for every key.
LEMMA BumpKeepsStamps ==
  ASSUME Inv1, NEW it \in Item
  PROVE  SameStamps(bumpAttempts(items, it), items)
<1> DEFINE s == bumpAttempts(items, it)
           old == items[IndexOfKey(items, it.key)]
           new == [old EXCEPT !.attempts = @ + 1]
<1>0. items \in Seq(Item) /\ OneItemPerKey(items)
  BY QueueWellFormedParts DEF Inv1, TypeOK
<1>1. CASE IsCurrent(items, it)
  <2>1. \A x \in Item : [x EXCEPT !.attempts = @ + 1] \in Item
                        /\ [x EXCEPT !.attempts = @ + 1].key = x.key
    BY BumpedItem
  <2>2. ToSet(s) = {x \in ToSet(items) : x.key # it.key} \cup {new}
    BY <1>0, <1>1, <2>1, BumpElements
  <2>3. old \in ToSet(items) /\ old \in Item /\ old.key = it.key
    BY <1>0, <1>1, CurrentItem, ElementsOfSeq
  <2> HIDE DEF s, old
  <2>4. new.version = old.version /\ new.key = it.key
    BY <2>3, BumpedItem
  <2> HIDE DEF new
  <2>5. \A x \in ToSet(items) : x.key = it.key => x = old
    <3>1. DOMAIN items = 1..Len(items) /\ \A i, j \in DOMAIN items : items[i].key = items[j].key => i = j
      BY <1>0, LenProperties DEF OneItemPerKey
    <3> QED BY <2>3, <3>1 DEF ToSet
  <2>6. \A x \in ToSet(s) : \E y \in ToSet(items) : y.key = x.key /\ y.version = x.version
    BY <2>2, <2>3, <2>4
  <2>7. \A y \in ToSet(items) : \E x \in ToSet(s) : y.key = x.key /\ y.version = x.version
    BY <2>2, <2>3, <2>4, <2>5
  <2> QED BY <2>6, <2>7 DEF SameStamps, s
<1>2. CASE ~IsCurrent(items, it)
  BY <1>2, BumpStale DEF SameStamps
<1> QED
  BY <1>1, <1>2

\* markDoneIfVersion settles exactly the version it takes out.
LEMMA MarkDoneKeepsInv2 ==
  ASSUME Inv1, Inv2, NEW it \in Item, NEW s \in Seq(Item), OneItemPerKey(s), SameStamps(s, items),
         MarkDone(it, s), latest' = latest
  PROVE  Inv2'
<1> DEFINE t == markDoneIfVersion(s, it)
<1>0. settled \in [Keys -> Nat] /\ latest \in [Keys -> Nat] /\ it.key \in Keys
  BY ItemFields DEF Inv1, TypeOK
<1>1. \A x \in ToSet(s) : x.version = latest[x.key]
  BY DEF Inv2, LatestQueued, SameStamps
<1>2. \A k \in Keys : latest[k] # 0 => (\E x \in ToSet(s) : x.key = k) \/ settled[k] = latest[k]
  BY DEF Inv2, WorkAccounted, SameStamps
<1>3. CASE IsCurrent(s, it)
  <2>1. ToSet(t) = {x \in ToSet(s) : x.key # it.key}
    BY <1>3, MarkDoneElements
  <2>2. items' = t /\ settled' = [settled EXCEPT ![it.key] = it.version]
    BY <1>3 DEF MarkDone
  <2> HIDE DEF t
  <2>3. it.version = latest[it.key]
    BY <1>1, <1>3, CurrentIff
  <2>4. LatestQueued'
    BY <1>1, <2>1, <2>2 DEF LatestQueued
  <2>5. WorkAccounted'
    <3> SUFFICES ASSUME NEW k \in Keys, latest[k] # 0
                 PROVE  (\E x \in ToSet(t) : x.key = k) \/ settled'[k] = latest[k]
      BY <2>2 DEF WorkAccounted
    <3>1. CASE k = it.key
      BY <3>1, <1>0, <2>2, <2>3
    <3>2. CASE k # it.key
      BY <3>2, <1>0, <1>2, <2>1, <2>2
    <3> QED BY <3>1, <3>2
  <2> QED BY <2>4, <2>5 DEF Inv2
<1>4. CASE ~IsCurrent(s, it)
  <2>1. items' = s /\ settled' = settled
    BY <1>4 DEF MarkDone
  <2> QED BY <1>1, <1>2, <2>1 DEF Inv2, LatestQueued, WorkAccounted
<1> QED
  BY <1>3, <1>4

\* enqueue settles exactly the version it evicts.
LEMMA EnqueueKeepsInv2 ==
  ASSUME Inv1, Inv2, NEW req \in Request, enqueue(req)
  PROVE  Inv2'
<1> DEFINE it == [key |-> req.key, op |-> req.op, version |-> nextVersion, attempts |-> 0]
           m == ModuleOf(it.key)
           pushed == Requeue(items, it)
           e == pushed[OldestOf(pushed, m)]
<1>0. /\ items \in Seq(Item) /\ OneItemPerKey(items) /\ nextVersion \in Nat
      /\ latest \in [Keys -> Nat] /\ settled \in [Keys -> Nat]
  BY QueueWellFormedParts DEF Inv1, TypeOK
<1>1. it \in Item /\ it.key \in Keys
  BY <1>0 DEF Item, Request
<1>2. /\ items' = Enqueued(items, it)
      /\ latest' = [latest EXCEPT ![it.key] = it.version]
  BY DEF enqueue
<1>3. IF Overflows(pushed, m) THEN settled' = [settled EXCEPT ![e.key] = e.version]
      ELSE settled' = settled
  BY DEF enqueue
<1> HIDE DEF it
<1>4. /\ pushed \in Seq(Item)
      /\ ToSet(pushed) = {x \in ToSet(items) : x.key # it.key} \cup {it}
  BY <1>0, <1>1, RequeueElements
<1>5. /\ ~Overflows(pushed, m) => ToSet(items') = ToSet(pushed)
      /\ Overflows(pushed, m) => /\ e \in ToSet(pushed)
                                 /\ ToSet(items') = {x \in ToSet(pushed) : x.key # e.key}
  BY <1>0, <1>1, <1>2, EnqueuedElements
<1> HIDE DEF pushed, e, m
<1>6. \A x \in ToSet(pushed) : x.key \in Keys /\ x.version = latest'[x.key]
  <2>1. \A x \in ToSet(items) : x.key \in Keys /\ x.version = latest[x.key]
    BY <1>0, ElementsOfSeq, ItemFields DEF Inv2, LatestQueued
  <2> QED BY <2>1, <1>0, <1>1, <1>2, <1>4
<1>7. \A k \in Keys : latest'[k] # 0 =>
        (\E x \in ToSet(pushed) : x.key = k) \/ settled[k] = latest'[k]
  <2> SUFFICES ASSUME NEW k \in Keys, latest'[k] # 0
               PROVE  (\E x \in ToSet(pushed) : x.key = k) \/ settled[k] = latest'[k]
    OBVIOUS
  <2>1. CASE k = it.key
    BY <2>1, <1>4
  <2>2. CASE k # it.key
    <3>1. latest'[k] = latest[k]
      BY <2>2, <1>0, <1>2
    <3>2. (\E x \in ToSet(items) : x.key = k) \/ settled[k] = latest[k]
      BY <3>1 DEF Inv2, WorkAccounted
    <3> QED BY <2>2, <3>1, <3>2, <1>4
  <2> QED BY <2>1, <2>2
<1>8. CASE Overflows(pushed, m)
  <2>1. /\ e \in ToSet(pushed) /\ e.key \in Keys /\ e.version = latest'[e.key]
        /\ ToSet(items') = {x \in ToSet(pushed) : x.key # e.key}
        /\ settled' = [settled EXCEPT ![e.key] = e.version]
    BY <1>3, <1>5, <1>6, <1>8
  <2>2. LatestQueued'
    BY <2>1, <1>6 DEF LatestQueued
  <2>3. WorkAccounted'
    <3> SUFFICES ASSUME NEW k \in Keys, latest'[k] # 0
                 PROVE  (\E x \in ToSet(items') : x.key = k) \/ settled'[k] = latest'[k]
      BY DEF WorkAccounted
    <3>1. CASE k = e.key
      BY <3>1, <1>0, <2>1
    <3>2. CASE k # e.key
      BY <3>2, <1>0, <1>7, <2>1
    <3> QED BY <3>1, <3>2
  <2> QED BY <2>2, <2>3 DEF Inv2
<1>9. CASE ~Overflows(pushed, m)
  BY <1>9, <1>3, <1>5, <1>6, <1>7 DEF Inv2, LatestQueued, WorkAccounted
<1> QED
  BY <1>8, <1>9

\* Every step keeps the latest accepted version of each key queued or settled.
LEMMA NextInv2 == Inv1 /\ Inv2 /\ [Next]_vars => Inv2'
<1> SUFFICES ASSUME Inv1, Inv2, [Next]_vars PROVE Inv2'
  OBVIOUS
<1>0. items \in Seq(Item) /\ OneItemPerKey(items)
  BY QueueWellFormedParts DEF Inv1, TypeOK
<1>1. CASE Quiet
  BY <1>1 DEF Quiet, Inv2, LatestQueued, WorkAccounted
<1>2. ASSUME NEW req \in Request, Accepts(req) PROVE Inv2'
  BY <1>2, EnqueueKeepsInv2 DEF Accepts
<1>3. ASSUME NEW it \in Item, Finishes(it) PROVE Inv2'
  <2>1. SameStamps(items, items)
    BY DEF SameStamps
  <2> QED BY <1>0, <1>3, <2>1, MarkDoneKeepsInv2 DEF Finishes
<1>4. ASSUME NEW it \in Item, GivesUp(it) PROVE Inv2'
  <2> DEFINE s == bumpAttempts(items, it)
  <2>1. s \in Seq(Item) /\ OneItemPerKey(s) /\ SameStamps(s, items)
    BY BumpKeepsInv1, BumpKeepsStamps
  <2>2. MarkDone(it, s) /\ latest' = latest
    BY <1>4 DEF GivesUp
  <2> HIDE DEF s
  <2> QED BY <2>1, <2>2, MarkDoneKeepsInv2
<1>5. ASSUME NEW it \in Item, Retries(it) PROVE Inv2'
  <2>1. SameStamps(items', items) /\ latest' = latest /\ settled' = settled
    BY <1>5, BumpKeepsStamps DEF Retries
  <2> QED BY <2>1 DEF SameStamps, Inv2, LatestQueued, WorkAccounted
<1>6. CASE Writes
  BY <1>6 DEF Writes, Inv2, LatestQueued, WorkAccounted
<1>7. CASE Start
  <2>1. PICK s \in SeqOf({disk[i] : i \in Valid(disk)}, Len(disk)) :
          IsLoadOf(disk, s) /\ items' = s /\ latest' = [k \in Keys |-> VersionIn(s, k)]
    BY <1>7 DEF Start, load
  <2>2. s \in Seq(Item) /\ OneItemPerKey(s)
    BY <2>1, LoadedArray DEF Inv1, TypeOK
  <2>3. \A x \in ToSet(s) : x.key \in Keys /\ VersionIn(s, x.key) = x.version
    BY <2>2, ElementsOfSeq, ItemFields, VersionInProperties
  <2>4. \A k \in Keys : VersionIn(s, k) # 0 => \E x \in ToSet(s) : x.key = k
    BY <2>2, VersionInProperties
  <2> QED BY <2>1, <2>3, <2>4 DEF Inv2, LatestQueued, WorkAccounted
<1>8. CASE Vanish
  BY <1>8 DEF Vanish, Inv2, LatestQueued, WorkAccounted, ToSet
<1> QED
  BY <1>1, <1>2, <1>3, <1>4, <1>5, <1>6, <1>7, <1>8, QueueSteps DEF QueueStep

\* No lost update, for every number of keys, slots and producers: the version
\* last accepted for a key is queued or was itself evicted, done or dropped,
\* although the drain loop finishes versions a watcher has replaced meanwhile.
THEOREM WorkNotLost == Spec => []AcceptedWorkNotLost
<1>1. Inv1 /\ Inv2 => AcceptedWorkNotLost
  <2> SUFFICES ASSUME Inv1, Inv2, NEW k \in Keys, latest[k] # 0
               PROVE  VersionIn(items, k) = latest[k] \/ settled[k] = latest[k]
    BY DEF AcceptedWorkNotLost
  <2>1. items \in Seq(Item) /\ OneItemPerKey(items)
    BY QueueWellFormedParts DEF Inv1, TypeOK
  <2>2. ASSUME NEW x \in ToSet(items), x.key = k PROVE VersionIn(items, k) = latest[k]
    BY <2>1, <2>2, VersionInProperties DEF Inv2, LatestQueued
  <2> QED BY <2>2 DEF Inv2, WorkAccounted
<1> QED
  BY InitInv1, NextInv1, InitInv2, NextInv2, <1>1, PTL DEF Spec

-----------------------------------------------------------------------------
(***************************************************************************)
(* The third layer: the snapshots and the file.                            *)
(***************************************************************************)

\* persist(items') makes the newest snapshot the array.
LEMMA PersistFollows ==
  ASSUME NEW s, persist(items') \/ persistAfter(s, items')
  PROVE  /\ \A blob \in pendingBlob' : blob = items'
         /\ pendingBlob' = {} => \A blob \in writing' : blob = items'
         /\ pendingBlob' = {} => writing' # {}
BY DEF persist, persistAfter

\* MarkDone persists the array it leaves, or leaves array and snapshots alone.
LEMMA MarkDoneFollows ==
  ASSUME NEW it, NEW s, MarkDone(it, s)
  PROVE  \/ persistAfter(s, items')
         \/ items' = s /\ ~IsCurrent(s, it) /\ UNCHANGED <<pendingBlob, writing>>
BY DEF MarkDone

\* Every step keeps the snapshots and the file in line with the array.
LEMMA NextInv3 == Inv1 /\ DiskFollowsMemory /\ [Next]_vars => DiskFollowsMemory'
<1> SUFFICES ASSUME Inv1, DiskFollowsMemory, [Next]_vars PROVE DiskFollowsMemory'
  OBVIOUS
<1>0. items \in Seq(Item) /\ OneItemPerKey(items)
  BY QueueWellFormedParts DEF Inv1, TypeOK
<1>p. ASSUME NEW s, persist(items') \/ persistAfter(s, items') PROVE DiskFollowsMemory'
  BY <1>p, PersistFollows DEF DiskFollowsMemory
<1>u. ASSUME StillUp, UNCHANGED <<items, pendingBlob, writing, disk, stale>>
      PROVE  DiskFollowsMemory'
  BY <1>u DEF StillUp, DiskFollowsMemory
<1>1. CASE Quiet
  BY <1>1, <1>u DEF Quiet
<1>2. ASSUME NEW req \in Request, Accepts(req) PROVE DiskFollowsMemory'
  BY <1>2, <1>p DEF Accepts, enqueue
<1>3. ASSUME NEW it \in Item, Finishes(it) PROVE DiskFollowsMemory'
  BY <1>3, <1>p, <1>u, MarkDoneFollows DEF Finishes
<1>4. ASSUME NEW it \in Item, GivesUp(it) PROVE DiskFollowsMemory'
  <2> DEFINE s == bumpAttempts(items, it)
  <2>1. MarkDone(it, s) /\ StillUp /\ UNCHANGED <<disk, stale>>
    BY <1>4 DEF GivesUp
  <2>2. s \in Seq(Item) /\ OneItemPerKey(s) /\ SameStamps(s, items)
    BY BumpKeepsInv1, BumpKeepsStamps
  <2>3. ~IsCurrent(items, it) => s = items
    BY BumpStale
  <2> HIDE DEF s
  <2>4. IsCurrent(items, it) => IsCurrent(s, it)
    BY <1>0, <2>2, CurrentIff DEF SameStamps
  <2> QED BY <1>p, <1>u, <2>1, <2>3, <2>4, MarkDoneFollows
<1>5. ASSUME NEW it \in Item, Retries(it) PROVE DiskFollowsMemory'
  BY <1>5, <1>p, <1>u, BumpStale DEF Retries
<1>6. CASE Writes
  BY <1>6 DEF Writes, StillUp, WriteOk, WriteFail, NextBlob, DiskFollowsMemory
<1>7. CASE Start
  <2>1. PICK s \in SeqOf({disk[i] : i \in Valid(disk)}, Len(disk)) :
          /\ IsLoadOf(disk, s)
          /\ items' = s
          /\ IF Len(s) < Len(disk) THEN writing' = {s} ELSE writing' = {}
    BY <1>7 DEF Start, load
  <2>2. disk \in Seq(Line) /\ Len(disk) \in Nat
    BY LenProperties DEF Inv1, TypeOK
  <2>3. s \in Seq(Item) /\ Len(s) <= Len(disk) /\ (Len(s) = Len(disk) => s = disk)
    BY <2>1, <2>2, LoadedArray
  <2>4. Len(s) \in Nat
    BY <2>3, LenProperties
  <2>5. ~(Len(s) < Len(disk)) => s = disk
    BY <2>2, <2>3, <2>4
  <2>6. pendingBlob' = {} /\ disk' = disk
    BY <1>7 DEF Start, load
  <2> QED BY <2>1, <2>5, <2>6 DEF DiskFollowsMemory
<1>8. CASE Vanish
  BY <1>8 DEF Vanish, DiskFollowsMemory
<1> QED
  BY <1>1, <1>2, <1>3, <1>4, <1>5, <1>6, <1>7, <1>8, QueueSteps DEF QueueStep

\* Coalescing loses no snapshot: persist, flushPending and load() together keep
\* the newest unwritten snapshot equal to the array and, when nothing is left
\* to write and no write failed, the file equal to it.
THEOREM FileFollowsArray == Spec => []DiskFollowsMemory
<1>1. Init => DiskFollowsMemory
  BY DEF Init, DiskFollowsMemory
<1> QED
  BY InitInv1, NextInv1, NextInv3, <1>1, PTL DEF Spec

-----------------------------------------------------------------------------
(***************************************************************************)
(* The drop counters of the heartbeat.                                     *)
(***************************************************************************)

\* The drops of the beat in flight.
InFlight == IF beat = {} THEN NoDrops ELSE CHOOSE d \in beat : TRUE

Inv4 ==
  /\ \A d, e \in beat : d = e
  /\ \A r \in DropReasons : drops[r] <= droppedByReason[r] + reported[r] + InFlight[r]

\* The drops of the heartbeat in flight are a natural number per reason.
LEMMA InFlightType ==
  ASSUME TypeOK
  PROVE  InFlight \in [DropReasons -> Nat]
<1>1. beat \subseteq [DropReasons -> Nat]
  BY DEF TypeOK
<1>2. CASE beat = {}
  BY <1>2, NothingTypes DEF InFlight
<1>3. CASE beat # {}
  <2>1. (CHOOSE d \in beat : TRUE) \in beat
    BY <1>3
  <2> QED BY <1>1, <1>3, <2>1 DEF InFlight
<1> QED
  BY <1>2, <1>3

\* The property with the choice of the single heartbeat in flight made explicit.
LEMMA DropsAsInFlight == DropsNeverUnderreported <=>
  \A r \in DropReasons : drops[r] <= droppedByReason[r] + reported[r] + InFlight[r]
BY DEF DropsNeverUnderreported, InFlight, NoDrops

\* What a step can do to the counters.
CountersQuiet == UNCHANGED <<drops, droppedByReason, reported, beat>>
CountsDrop(r) ==
  /\ drops' = recordDrop(drops, r) /\ droppedByReason' = recordDrop(droppedByReason, r)
  /\ UNCHANGED <<reported, beat>>

\* What each step does to the counters of the heartbeat (drainDroppedDelta, restoreDroppedDelta).
LEMMA CounterSteps ==
  ASSUME Inv1, [Next]_vars
  PROVE  \/ CountersQuiet
         \/ \E r \in DropReasons : CountsDrop(r)
         \/ BeatSend \/ BeatOk \/ BeatFail \/ Start \/ Vanish
<1> DEFINE Goal == CountersQuiet \/ \E r \in DropReasons : CountsDrop(r)
<1>e. ASSUME NEW req, enqueue(req), UNCHANGED beatVars PROVE Goal
  <2> DEFINE it == [key |-> req.key, op |-> req.op, version |-> nextVersion, attempts |-> 0]
             m == ModuleOf(it.key)
             over == Overflows(Requeue(items, it), m)
  <2>1. IF over THEN /\ droppedByReason' = recordDrop(droppedByReason, CapacityReason(m))
                     /\ drops' = recordDrop(drops, CapacityReason(m))
        ELSE UNCHANGED <<droppedByReason, drops>>
    BY <1>e DEF enqueue
  <2> HIDE DEF over, m
  <2>2. UNCHANGED <<reported, beat>>
    BY <1>e DEF beatVars
  <2> QED BY <2>1, <2>2, CapacityReasonType DEF CountsDrop, CountersQuiet
<1>1. ASSUME NEW req \in Request, Enqueue(req) PROVE Goal
  BY <1>1, <1>e DEF Enqueue
<1>2. ASSUME NEW p \in Producers, EnqueueWhenAvailable(p) PROVE Goal
  <2>1. PICK req \in wants[p] : \/ enqueue(req) /\ UNCHANGED beatVars
                                \/ UNCHANGED <<queueVars, beatVars, historyVars>>
    BY <1>2 DEF EnqueueWhenAvailable
  <2>2. UNCHANGED <<queueVars, beatVars, historyVars>> => CountersQuiet
    BY DEF CountersQuiet, queueVars, beatVars, historyVars
  <2> QED BY <1>e, <2>1, <2>2
<1>3. ASSUME NEW p \in Producers, NEW req \in Request, CallEnqueueWhenAvailable(p, req) PROVE Goal
  BY <1>3 DEF CallEnqueueWhenAvailable, CountersQuiet, queueVars, beatVars, historyVars
<1>4. ASSUME NEW p \in Producers, AbortEnqueue(p) PROVE Goal
  BY <1>4 DEF AbortEnqueue, CountersQuiet, queueVars, beatVars, historyVars
<1>5. ASSUME NEW m \in Modules, ModuleChanged(m) PROVE Goal
  BY <1>5 DEF ModuleChanged, CountersQuiet, queueVars, beatVars, historyVars
<1>6. CASE DrainPeek \/ DrainTimeout \/ DrainAbandon \/ Stop
  BY <1>6 DEF DrainPeek, DrainTimeout, DrainAbandon, Stop, CountersQuiet, queueVars, beatVars,
              historyVars
<1>7. CASE DrainDone \/ DrainRetry \/ WriteOk \/ WriteFail
  BY <1>7 DEF DrainDone, DrainRetry, WriteOk, WriteFail, CountersQuiet, beatVars, historyVars
<1>8. ASSUME NEW r \in {"permanent", "retry_exhausted", "oversized"}, DrainDrop(r) PROVE Goal
  <2>1. r \in DropReasons
    BY DEF DropReasons
  <2>2. CountsDrop(r)
    BY <1>8 DEF DrainDrop, CountsDrop, beatVars
  <2> QED BY <2>1, <2>2
<1>9. CASE UNCHANGED vars
  BY <1>9 DEF vars, CountersQuiet, queueVars, beatVars, historyVars
<1>10. CASE Crash \/ Exit
  BY <1>10 DEF Crash, Exit
<1> QED
  BY <1>1, <1>2, <1>3, <1>4, <1>5, <1>6, <1>7, <1>8, <1>9, <1>10 DEF Next

\* Every step keeps each drop in the counters, in flight or reported.
LEMMA NextInv4 == Inv1 /\ Inv4 /\ [Next]_vars => Inv4'
<1> SUFFICES ASSUME Inv1, Inv4, [Next]_vars PROVE Inv4'
  OBVIOUS
<1>0. /\ drops \in [DropReasons -> Nat] /\ droppedByReason \in [DropReasons -> Nat]
      /\ reported \in [DropReasons -> Nat] /\ InFlight \in [DropReasons -> Nat]
      /\ beat \subseteq [DropReasons -> Nat]
  BY InFlightType DEF Inv1, TypeOK
<1>1. CASE CountersQuiet
  BY <1>1 DEF CountersQuiet, Inv4, InFlight
<1>2. ASSUME NEW r \in DropReasons, CountsDrop(r) PROVE Inv4'
  <2>1. InFlight' = InFlight
    BY <1>2 DEF CountsDrop, InFlight
  <2>2. /\ drops' = [drops EXCEPT ![r] = @ + 1] /\ reported' = reported /\ beat' = beat
        /\ droppedByReason' = [droppedByReason EXCEPT ![r] = @ + 1]
    BY <1>2 DEF CountsDrop, recordDrop
  <2>3. \A q \in DropReasons : drops'[q] <= droppedByReason'[q] + reported'[q] + InFlight'[q]
    <3> SUFFICES ASSUME NEW q \in DropReasons
                 PROVE  drops'[q] <= droppedByReason'[q] + reported[q] + InFlight[q]
      BY <2>1, <2>2
    <3>1. /\ drops[q] \in Nat /\ droppedByReason[q] \in Nat /\ reported[q] \in Nat
          /\ InFlight[q] \in Nat /\ drops[q] <= droppedByReason[q] + reported[q] + InFlight[q]
      BY <1>0 DEF Inv4
    <3>2. \/ drops'[q] = drops[q] /\ droppedByReason'[q] = droppedByReason[q]
          \/ drops'[q] = drops[q] + 1 /\ droppedByReason'[q] = droppedByReason[q] + 1
      BY <1>0, <2>2
    <3> QED BY <3>1, <3>2
  <2> QED BY <2>2, <2>3 DEF Inv4
<1>3. CASE BeatSend
  <2>1. /\ beat = {} /\ beat' = {droppedByReason} /\ droppedByReason' = NoDrops
        /\ drops' = drops /\ reported' = reported
    BY <1>3 DEF BeatSend, historyVars
  <2>2. InFlight' = droppedByReason /\ InFlight = NoDrops
    BY <2>1 DEF InFlight
  <2>3. \A q \in DropReasons : drops'[q] <= droppedByReason'[q] + reported'[q] + InFlight'[q]
    BY <1>0, <2>1, <2>2 DEF Inv4, NoDrops
  <2> QED BY <2>1, <2>3 DEF Inv4
<1>4. ASSUME NEW d \in beat, beat' = {}, drops' = drops,
             \A q \in DropReasons : droppedByReason'[q] \in Nat /\ reported'[q] \in Nat
                 /\ droppedByReason'[q] + reported'[q] >= droppedByReason[q] + reported[q] + d[q]
      PROVE  Inv4'
  <2>1. InFlight = d /\ InFlight' = NoDrops
    <3>1. (CHOOSE e \in beat : TRUE) \in beat
      OBVIOUS
    <3>2. (CHOOSE e \in beat : TRUE) = d
      BY <3>1 DEF Inv4
    <3> QED BY <1>4, <3>2 DEF InFlight
  <2>2. \A q \in DropReasons : drops'[q] <= droppedByReason'[q] + reported'[q] + InFlight'[q]
    <3> SUFFICES ASSUME NEW q \in DropReasons
                 PROVE  drops[q] <= droppedByReason'[q] + reported'[q] + 0
      BY <1>4, <2>1 DEF NoDrops
    <3>1. /\ drops[q] \in Nat /\ droppedByReason[q] \in Nat /\ reported[q] \in Nat
          /\ d[q] \in Nat /\ drops[q] <= droppedByReason[q] + reported[q] + d[q]
      BY <1>0, <2>1 DEF Inv4
    <3>2. /\ droppedByReason'[q] \in Nat /\ reported'[q] \in Nat
          /\ droppedByReason'[q] + reported'[q] >= droppedByReason[q] + reported[q] + d[q]
      BY <1>4
    <3> QED BY <3>1, <3>2
  <2> QED BY <1>4, <2>2 DEF Inv4
<1>5. CASE BeatOk
  <2>1. PICK d \in beat : reported' = AddDrops(reported, d)
    BY <1>5 DEF BeatOk
  <2>2. droppedByReason' = droppedByReason /\ beat' = {} /\ drops' = drops
    BY <1>5 DEF BeatOk, queueVars, historyVars
  <2>3. \A q \in DropReasons : droppedByReason'[q] \in Nat /\ reported'[q] \in Nat
                 /\ droppedByReason'[q] + reported'[q] >= droppedByReason[q] + reported[q] + d[q]
    BY <1>0, <2>1, <2>2 DEF AddDrops
  <2> QED BY <1>4, <2>2, <2>3
<1>6. CASE BeatFail
  <2>1. PICK d \in beat : /\ droppedByReason' = AddDrops(droppedByReason, d)
                          /\ reported' = reported \/ reported' = AddDrops(reported, d)
    BY <1>6 DEF BeatFail
  <2>2. beat' = {} /\ drops' = drops
    BY <1>6 DEF BeatFail, historyVars
  <2>3. \A q \in DropReasons : droppedByReason'[q] \in Nat /\ reported'[q] \in Nat
                 /\ droppedByReason'[q] + reported'[q] >= droppedByReason[q] + reported[q] + d[q]
    <3> SUFFICES ASSUME NEW q \in DropReasons
                 PROVE  droppedByReason'[q] \in Nat /\ reported'[q] \in Nat
                   /\ droppedByReason'[q] + reported'[q] >= droppedByReason[q] + reported[q] + d[q]
      OBVIOUS
    <3>1. droppedByReason[q] \in Nat /\ reported[q] \in Nat /\ d[q] \in Nat
      BY <1>0
    <3>2. /\ droppedByReason'[q] = droppedByReason[q] + d[q]
          /\ reported'[q] = reported[q] \/ reported'[q] = reported[q] + d[q]
      BY <2>1 DEF AddDrops
    <3> QED BY <3>1, <3>2
  <2> QED BY <1>4, <2>2, <2>3
<1>7. CASE Start
  <2>1. drops' = droppedByReason' /\ reported' = NoDrops /\ beat' = beat
    BY <1>7 DEF Start, load
  <2>2. InFlight' = InFlight
    BY <2>1 DEF InFlight
  <2>3. droppedByReason' \in [DropReasons -> Nat]
    BY <1>7, StartKeepsInv1 DEF Inv1, TypeOK
  <2>4. \A q \in DropReasons : drops'[q] <= droppedByReason'[q] + reported'[q] + InFlight'[q]
    BY <1>0, <2>1, <2>2, <2>3 DEF NoDrops
  <2> QED BY <2>1, <2>4 DEF Inv4
<1>8. CASE Vanish
  <2>1. drops' = NoDrops /\ droppedByReason' = NoDrops /\ reported' = NoDrops /\ beat' = {}
    BY <1>8 DEF Vanish
  <2> QED BY <2>1 DEF Inv4, InFlight, NoDrops
<1> QED
  BY <1>1, <1>2, <1>3, <1>5, <1>6, <1>7, <1>8, CounterSteps

\* drainDroppedDelta and restoreDroppedDelta never lose a drop, whatever beats
\* fail or succeed between drops.
THEOREM DropsReported == Spec => []DropsNeverUnderreported
<1>1. Init => Inv4
  BY DEF Init, Inv4, InFlight, NoDrops
<1>2. Inv4 => DropsNeverUnderreported
  BY DropsAsInFlight DEF Inv4
<1> QED
  BY InitInv1, NextInv1, NextInv4, <1>1, <1>2, PTL DEF Spec

-----------------------------------------------------------------------------
(***************************************************************************)
(* The slots of a module.                                                  *)
(***************************************************************************)

KeysIn(s, m) == {x.key : x \in OfModule(s, m)}
LinesIn(lines, m) == {i \in Valid(lines) : ModuleOf(lines[i].key) = m}
Fits(s) == \A m \in Modules : moduleDepth(s, m) <= MaxItems
FileFits(lines) == \A m \in Modules : Cardinality(LinesIn(lines, m)) <= MaxItems

Inv5 == Fits(items) /\ (\A blob \in pendingBlob \cup writing : Fits(blob)) /\ FileFits(disk)

\* Without duplicates the depth of a module is its number of keys.
LEMMA DepthCountsKeys ==
  ASSUME NEW s \in Seq(Item), OneItemPerKey(s), NEW m
  PROVE  IsFiniteSet(KeysIn(s, m)) /\ moduleDepth(s, m) = Cardinality(KeysIn(s, m))
<1> DEFINE A == OfModule(s, m)
           T == KeysIn(s, m)
           f == [x \in A |-> x.key]
<1>1. IsFiniteSet(A) /\ moduleDepth(s, m) = Cardinality(A)
  BY DepthCountsItems
<1>2. f \in [A -> T] /\ \A t \in T : \E x \in A : f[x] = t
  BY DEF KeysIn
<1>3. \A x, y \in A : f[x] = f[y] => x = y
  <2>1. \A x, y \in ToSet(s) : x.key = y.key => x = y
    BY LenProperties DEF ToSet, OneItemPerKey
  <2> QED BY <2>1 DEF OfModule
<1> HIDE DEF A, T, f
<1>4. f \in Injection(A, T)
  BY <1>2, <1>3 DEF Injection, IsInjective
<1>5. f \in Surjection(A, T)
  BY <1>2 DEF Surjection
<1>6. ExistsBijection(A, T)
  BY <1>4, <1>5 DEF ExistsBijection, Bijection
<1>7. IsFiniteSet(T) /\ Cardinality(T) = Cardinality(A)
  BY <1>1, <1>6, FS_Bijection
<1> QED
  BY <1>1, <1>7 DEF T

\* An array whose keys are among those of one that fits, fits.
LEMMA FewerKeysFit ==
  ASSUME NEW s \in Seq(Item), OneItemPerKey(s), Fits(s), NEW t \in Seq(Item), OneItemPerKey(t),
         \A x \in ToSet(t) : \E y \in ToSet(s) : y.key = x.key
  PROVE  Fits(t)
<1> SUFFICES ASSUME NEW m \in Modules PROVE moduleDepth(t, m) <= MaxItems
  BY DEF Fits
<1> DEFINE A == KeysIn(s, m)
           B == KeysIn(t, m)
<1>1. /\ IsFiniteSet(A) /\ moduleDepth(s, m) = Cardinality(A)
      /\ IsFiniteSet(B) /\ moduleDepth(t, m) = Cardinality(B)
  BY DepthCountsKeys
<1>2. B \subseteq A
  BY DEF KeysIn, OfModule
<1>3. moduleDepth(s, m) <= MaxItems /\ MaxItems \in Nat
  BY QueueAssumption DEF Fits
<1> HIDE DEF A, B
<1>4. Cardinality(B) <= Cardinality(A) /\ Cardinality(A) \in Nat /\ Cardinality(B) \in Nat
  BY <1>1, <1>2, FS_Subset, FS_CardinalityType
<1> QED
  BY <1>1, <1>3, <1>4

\* A snapshot that fits makes a file that fits.
LEMMA BlobFits ==
  ASSUME NEW s \in Seq(Item), Fits(s)
  PROVE  FileFits(s)
<1>1. \A i \in DOMAIN s : s[i] # Junk
  BY ItemsOfArray, RetryQueueAssumption
<1>2. \A m : LinesIn(s, m) = {i \in DOMAIN s : ModuleOf(s[i].key) = m}
  BY <1>1 DEF LinesIn, Valid
<1> QED
  BY <1>2 DEF FileFits, Fits, moduleDepth

\* load() of a file that fits fits.
LEMMA LoadedFits ==
  ASSUME NEW lines \in Seq(Line), FileFits(lines), NEW s \in Seq(Item), OneItemPerKey(s),
         IsLoadOf(lines, s)
  PROVE  Fits(s)
<1> SUFFICES ASSUME NEW m \in Modules PROVE moduleDepth(s, m) <= MaxItems
  BY DEF Fits
<1> DEFINE I == LinesIn(lines, m)
           T == {lines[i].key : i \in I}
           B == KeysIn(s, m)
           f == [i \in I |-> lines[i].key]
<1>1. IsFiniteSet(I) /\ Cardinality(I) \in Nat /\ Cardinality(I) <= MaxItems
  <2>1. I \subseteq 1..Len(lines) /\ IsFiniteSet(1..Len(lines))
    BY ValidLines, FS_Interval DEF LinesIn
  <2>2. Cardinality(I) <= MaxItems
    BY DEF FileFits
  <2> HIDE DEF I
  <2>3. IsFiniteSet(I)
    BY <2>1, FS_Subset
  <2> QED BY <2>2, <2>3, FS_CardinalityType
<1>2. f \in Surjection(I, T)
  BY DEF Surjection
<1>3. B \subseteq T
  <2>1. \A x \in ToSet(s) : \E j \in Valid(lines) : x = lines[j]
    BY DEF IsLoadOf, ToSet
  <2> QED BY <2>1 DEF KeysIn, OfModule, LinesIn
<1>4. IsFiniteSet(B) /\ moduleDepth(s, m) = Cardinality(B)
  BY DepthCountsKeys
<1> HIDE DEF I, T, B, f
<1>5. IsFiniteSet(T) /\ Cardinality(T) <= Cardinality(I)
  BY <1>1, <1>2, FS_Surjection
<1>6. Cardinality(B) <= Cardinality(T)
  BY <1>3, <1>5, FS_Subset
<1>7. Cardinality(B) \in Nat /\ Cardinality(T) \in Nat /\ MaxItems \in Nat
  BY <1>4, <1>5, FS_CardinalityType, QueueAssumption
<1> QED
  BY <1>1, <1>4, <1>5, <1>6, <1>7

\* A legacy file fits the slots, so the fifth layer holds at the start.
LEMMA InitInv5 == Init => Inv5
<1> SUFFICES ASSUME Init PROVE Inv5
  OBVIOUS
<1>1. items = <<>> /\ pendingBlob = {} /\ writing = {} /\ disk \in LegacyDisks
  BY DEF Init
<1>2. Fits(<<>>)
  <2>1. \A m : {i \in DOMAIN <<>> : ModuleOf(<<>>[i].key) = m} = {}
    OBVIOUS
  <2>2. \A m : moduleDepth(<<>>, m) = 0
    BY <2>1, FS_EmptySet DEF moduleDepth
  <2> QED BY <2>2, QueueAssumption DEF Fits
<1>3. FileFits(disk)
  <2>1. \A m : LinesIn(disk, m) = {i \in DOMAIN disk : disk[i] # Junk /\ ModuleOf(disk[i].key) = m}
    BY DEF LinesIn, Valid
  <2> QED BY <1>1, <2>1, RetryQueueAssumption DEF FileFits
<1> QED
  BY <1>1, <1>2, <1>3 DEF Inv5

\* Every step keeps the array, the snapshots and the file within the slots.
LEMMA NextInv5 == Inv1 /\ Inv5 /\ [Next]_vars => Inv5'
<1> SUFFICES ASSUME Inv1, Inv5, [Next]_vars PROVE Inv5'
  OBVIOUS
<1>0. /\ items \in Seq(Item) /\ OneItemPerKey(items) /\ disk \in Seq(Line)
      /\ pendingBlob \subseteq Seq(Item) /\ writing \subseteq Seq(Item)
  BY QueueWellFormedParts DEF Inv1, TypeOK
<1>1. Inv1' /\ items' \in Seq(Item) /\ OneItemPerKey(items')
  BY NextInv1 DEF Inv1, TypeOK, QueueWellFormed, OneItemPerKey
<1>p. ASSUME NEW s, Fits(s), Fits(items'), disk' = disk,
             \/ persist(items') \/ persistAfter(s, items')
             \/ UNCHANGED <<pendingBlob, writing>>
      PROVE  Inv5'
  BY <1>p DEF Inv5, persist, persistAfter
<1>2. CASE Quiet
  BY <1>2 DEF Quiet, Inv5
<1>3. ASSUME NEW req \in Request, Accepts(req) PROVE Inv5'
  <2> DEFINE it == [key |-> req.key, op |-> req.op, version |-> nextVersion, attempts |-> 0]
  <2>1. items' = Enqueued(items, it) /\ persist(items') /\ disk' = disk
    BY <1>3 DEF Accepts, enqueue
  <2>2. it \in Item
    BY DEF Item, Request, Inv1, TypeOK
  <2> HIDE DEF it
  <2>3. \A m \in Modules : moduleDepth(Enqueued(items, it), m) <= MaxItems
    BY <1>0, <2>2, EnqueuedBounded DEF Inv5, Fits
  <2>4. Fits(items')
    BY <2>1, <2>3 DEF Fits
  <2> QED BY <1>p, <2>1, <2>4 DEF Inv5
<1>f. ASSUME NEW s \in Seq(Item), OneItemPerKey(s), SameStamps(s, items),
             ToSet(items') \subseteq ToSet(s)
      PROVE  Fits(items')
  <2>1. \A x \in ToSet(items') : \E y \in ToSet(items) : y.key = x.key
    BY <1>f DEF SameStamps
  <2> QED BY <1>0, <1>1, <2>1, FewerKeysFit DEF Inv5
<1>4. ASSUME NEW it \in Item, NEW s \in Seq(Item), OneItemPerKey(s), SameStamps(s, items),
             MarkDone(it, s), disk' = disk
      PROVE  Inv5'
  <2>1. ToSet(items') \subseteq ToSet(s)
    BY <1>4, MarkDoneElements DEF MarkDone
  <2>2. persistAfter(s, items') \/ UNCHANGED <<pendingBlob, writing>>
    BY <1>4, MarkDoneFollows
  <2>3. Fits(items')
    BY <1>4, <1>f, <2>1
  <2>4. Fits(s)
    BY <1>0, <1>4, FewerKeysFit DEF SameStamps, Inv5
  <2> QED BY <1>4, <1>p, <2>2, <2>3, <2>4
<1>5. ASSUME NEW it \in Item, Finishes(it) PROVE Inv5'
  <2>1. SameStamps(items, items)
    BY DEF SameStamps
  <2> QED BY <1>0, <1>4, <1>5, <2>1 DEF Finishes
<1>6. ASSUME NEW it \in Item, GivesUp(it) PROVE Inv5'
  <2> DEFINE s == bumpAttempts(items, it)
  <2>1. s \in Seq(Item) /\ OneItemPerKey(s) /\ SameStamps(s, items)
    BY BumpKeepsInv1, BumpKeepsStamps
  <2>2. MarkDone(it, s) /\ disk' = disk
    BY <1>6 DEF GivesUp
  <2> HIDE DEF s
  <2> QED BY <1>4, <2>1, <2>2
<1>7. ASSUME NEW it \in Item, Retries(it) PROVE Inv5'
  <2>1. SameStamps(items', items)
    BY <1>7, BumpKeepsStamps DEF Retries
  <2>2. Fits(items')
    BY <1>1, <1>f, <2>1
  <2> QED BY <1>7, <1>p, <2>2 DEF Retries, Inv5
<1>8. CASE Writes
  <2>1. /\ items' = items /\ pendingBlob' = {} /\ writing' = pendingBlob
        /\ disk' = disk \/ disk' \in writing
    BY <1>8 DEF Writes, WriteOk, WriteFail, NextBlob
  <2>2. FileFits(disk')
    BY <1>0, <2>1, BlobFits DEF Inv5
  <2> QED BY <2>1, <2>2 DEF Inv5
<1>9. CASE Start
  <2>1. /\ IsLoadOf(disk, items') /\ pendingBlob' = {} /\ disk' = disk
        /\ writing' = {} \/ writing' = {items'}
    BY <1>9 DEF Start, load
  <2>2. Fits(items')
    BY <1>0, <1>1, <2>1, LoadedFits DEF Inv5
  <2> QED BY <2>1, <2>2 DEF Inv5
<1>10. CASE Vanish
  <2>1. items' = <<>> /\ pendingBlob' = {} /\ writing' = {} /\ disk' = disk
    BY <1>10 DEF Vanish
  <2>2. \A x \in ToSet(items') : \E y \in ToSet(items) : y.key = x.key
    BY <2>1 DEF ToSet
  <2>3. Fits(items')
    BY <1>0, <1>1, <2>2, FewerKeysFit DEF Inv5
  <2> QED BY <2>1, <2>3 DEF Inv5
<1> QED
  BY <1>2, <1>3, <1>5, <1>6, <1>7, <1>8, <1>9, <1>10, QueueSteps DEF QueueStep

\* "each module has `maxItems` slots": for every number of slots, whatever mix
\* of direct, waiting and replaying producers runs and whatever is loaded.
THEOREM Bounded == Spec => []ModuleBounded
<1>1. Inv5 => ModuleBounded
  BY DEF Inv5, Fits, ModuleBounded
<1> QED
  BY InitInv1, NextInv1, InitInv5, NextInv5, <1>1, PTL DEF Spec

-----------------------------------------------------------------------------
(***************************************************************************)
(* The sixth layer: the loops that wait on the queue.                      *)
(***************************************************************************)

\* Nothing of the loops is left when the process is down.
LoopsDown == phase = "down" => drain = {} /\ asleep = FALSE /\ capacityWaiters = {}

\* NeverSleepsOnWork, over the set of queued items.
SleepInv == phase = "up" /\ asleep => \A x \in ToSet(items) : ModuleOf(x.key) \notin available

\* The item being processed has a version the counter has passed, so no later
\* item of its key gets the same one.
DrainInv ==
  \A it \in drain :
    /\ it.version < nextVersion
    /\ \A x \in ToSet(items) : x.key = it.key /\ x.version = it.version => x = it

Inv6 == LoopsDown /\ SleepInv /\ DrainInv /\ BlockedOnlyWhenFull

\* Arrays with the same keys are equally deep.
LEMMA SameKeysSameDepth ==
  ASSUME NEW s \in Seq(Item), OneItemPerKey(s), NEW t \in Seq(Item), OneItemPerKey(t), SameStamps(s, t), NEW m
  PROVE  moduleDepth(s, m) = moduleDepth(t, m)
<1>1. KeysIn(s, m) = KeysIn(t, m)
  BY DEF KeysIn, OfModule, SameStamps
<1> QED BY <1>1, DepthCountsKeys

\* enqueue leaves a full module full: it replaces, or evicts one item for one.
LEMMA EnqueuedStaysFull ==
  ASSUME NEW s \in Seq(Item), OneItemPerKey(s), NEW it \in Item, NEW n, moduleDepth(s, n) >= MaxItems
  PROVE  moduleDepth(Enqueued(s, it), n) >= MaxItems
<1> DEFINE m == ModuleOf(it.key)
           p == Requeue(s, it)
           e == p[OldestOf(p, m)]
           t == Enqueued(s, it)
<1>1. /\ p \in Seq(Item) /\ OneItemPerKey(p)
      /\ ToSet(p) = {x \in ToSet(s) : x.key # it.key} \cup {it}
  BY RequeueElements
<1>2. /\ t \in Seq(Item) /\ OneItemPerKey(t)
      /\ ~Overflows(p, m) => ToSet(t) = ToSet(p)
      /\ Overflows(p, m) => /\ e \in ToSet(p) /\ ModuleOf(e.key) = m
                            /\ ToSet(t) = {x \in ToSet(p) : x.key # e.key}
  BY EnqueuedElements
<1> SUFFICES moduleDepth(t, n) >= MaxItems
  OBVIOUS
<1> HIDE DEF p, t, e
<1>3. /\ IsFiniteSet(KeysIn(s, n)) /\ moduleDepth(s, n) = Cardinality(KeysIn(s, n))
      /\ IsFiniteSet(KeysIn(p, n)) /\ moduleDepth(p, n) = Cardinality(KeysIn(p, n))
      /\ IsFiniteSet(KeysIn(t, n)) /\ moduleDepth(t, n) = Cardinality(KeysIn(t, n))
  BY <1>1, <1>2, DepthCountsKeys
<1>4. /\ Cardinality(KeysIn(s, n)) \in Nat /\ Cardinality(KeysIn(p, n)) \in Nat
      /\ Cardinality(KeysIn(t, n)) \in Nat /\ MaxItems \in Nat
  BY <1>3, FS_CardinalityType, QueueAssumption
<1>5. KeysIn(s, n) \subseteq KeysIn(p, n)
  BY <1>1 DEF KeysIn, OfModule
<1>6. moduleDepth(p, n) >= moduleDepth(s, n)
  BY <1>3, <1>4, <1>5, FS_Subset
<1>7. CASE ~Overflows(p, m)
  <2>1. KeysIn(t, n) = KeysIn(p, n)
    BY <1>2, <1>7 DEF KeysIn, OfModule
  <2> QED BY <1>3, <1>4, <1>6, <2>1
<1>8. CASE Overflows(p, m) /\ n # m
  <2>1. KeysIn(t, n) = KeysIn(p, n)
    BY <1>2, <1>8 DEF KeysIn, OfModule
  <2> QED BY <1>3, <1>4, <1>6, <2>1
<1>9. CASE Overflows(p, m) /\ n = m
  <2>1. KeysIn(t, n) = KeysIn(p, n) \ {e.key} /\ e.key \in KeysIn(p, n)
    BY <1>2, <1>9 DEF KeysIn, OfModule
  <2>2. Cardinality(KeysIn(t, n)) = Cardinality(KeysIn(p, n)) - 1
    BY <1>3, <2>1, FS_RemoveElement
  <2>3. Cardinality(KeysIn(p, n)) > MaxItems
    BY <1>3, <1>9 DEF Overflows
  <2> QED BY <1>3, <1>4, <2>2, <2>3
<1> QED BY <1>7, <1>8, <1>9

\* An item is accepted: the drain loop wakes, and who waits waits rightly.
LEMMA EnqueueKeepsInv6 ==
  ASSUME Inv1, Inv6, NEW req \in Request, enqueue(req), phase # "down",
         UNCHANGED <<phase, drain, capacityWaiters>>,
         \A p \in capacityWaiters : wants'[p] = wants[p]
  PROVE  Inv6'
<1> DEFINE it == [key |-> req.key, op |-> req.op, version |-> nextVersion, attempts |-> 0]
<1>0. /\ items \in Seq(Item) /\ OneItemPerKey(items) /\ nextVersion \in Nat /\ drain \subseteq Item
      /\ wants \in [Producers -> SUBSET Request] /\ capacityWaiters \subseteq Producers
  BY QueueWellFormedParts DEF Inv1, TypeOK
<1>1. it \in Item /\ it.version = nextVersion /\ it.key = req.key
  BY <1>0 DEF Item, Request
<1>2. items' = Enqueued(items, it) /\ nextVersion' = nextVersion + 1 /\ asleep' = FALSE
  BY DEF enqueue
<1> HIDE DEF it
<1>3. \A x \in ToSet(items') : x \in ToSet(items) \/ x = it
  <2> DEFINE m == ModuleOf(it.key)
             p == Requeue(items, it)
  <2>1. ToSet(p) = {x \in ToSet(items) : x.key # it.key} \cup {it}
    BY <1>0, <1>1, RequeueElements
  <2>2. ToSet(items') \subseteq ToSet(p)
    <3>1. /\ ~Overflows(p, m) => ToSet(items') = ToSet(p)
          /\ Overflows(p, m) => \E e : ToSet(items') = {x \in ToSet(p) : x.key # e}
      BY <1>0, <1>1, <1>2, EnqueuedElements
    <3> HIDE DEF p, m
    <3> QED BY <3>1
  <2> QED BY <2>1, <2>2
<1>4. DrainInv'
  <2> SUFFICES ASSUME NEW d \in drain
               PROVE  /\ d.version < nextVersion'
                      /\ \A x \in ToSet(items') : x.key = d.key /\ x.version = d.version => x = d
    BY DEF DrainInv
  <2>1. d.version \in Nat /\ d.version < nextVersion
    BY <1>0, ItemFields DEF Inv6, DrainInv
  <2>2. \A x \in ToSet(items) : x.key = d.key /\ x.version = d.version => x = d
    BY DEF Inv6, DrainInv
  <2> QED BY <1>0, <1>1, <1>2, <1>3, <2>1, <2>2
<1>5. BlockedOnlyWhenFull'
  <2> SUFFICES ASSUME NEW p \in capacityWaiters
               PROVE  \E q \in wants[p] : moduleDepth(items', ModuleOf(q.key)) >= MaxItems
    BY DEF BlockedOnlyWhenFull
  <2>1. PICK q \in wants[p] : moduleDepth(items, ModuleOf(q.key)) >= MaxItems
    BY DEF Inv6, BlockedOnlyWhenFull
  <2>2. moduleDepth(items', ModuleOf(q.key)) >= MaxItems
    BY <1>0, <1>1, <1>2, <2>1, EnqueuedStaysFull
  <2> QED BY <2>2
<1>6. LoopsDown' /\ SleepInv'
  BY <1>2 DEF LoopsDown, SleepInv
<1> QED BY <1>4, <1>5, <1>6 DEF Inv6

\* The drain loop is through with an item: no key is new, and who waits is woken
\* unless the array still holds the same keys.
LEMMA DrainEndKeepsInv6 ==
  ASSUME Inv1, Inv1', Inv6, phase # "down", drain' = {}, UNCHANGED <<phase, available, asleep, wants>>,
         NEW s \in Seq(Item), OneItemPerKey(s), SameStamps(s, items),
         \/ items' = s /\ UNCHANGED capacityWaiters
         \/ ToSet(items') \subseteq ToSet(s) /\ capacityWaiters' = {}
  PROVE  Inv6'
<1>0. items \in Seq(Item) /\ OneItemPerKey(items)
  BY QueueWellFormedParts DEF Inv1, TypeOK
<1>1. \A x \in ToSet(items') : \E y \in ToSet(items) : y.key = x.key
  BY DEF SameStamps
<1>2. LoopsDown' /\ SleepInv' /\ DrainInv'
  BY <1>1 DEF LoopsDown, SleepInv, DrainInv, Inv6
<1>3. BlockedOnlyWhenFull'
  <2>1. CASE items' = s /\ UNCHANGED capacityWaiters
    <3>1. \A m : moduleDepth(items', m) = moduleDepth(items, m)
      BY <1>0, <2>1, SameKeysSameDepth
    <3> QED BY <2>1, <3>1 DEF Inv6, BlockedOnlyWhenFull
  <2>2. CASE capacityWaiters' = {}
    BY <2>2 DEF BlockedOnlyWhenFull
  <2> QED BY <2>1, <2>2
<1> QED BY <1>2, <1>3 DEF Inv6

\* Nothing waits before the process starts.
LEMMA InitInv6 == Init => Inv6
BY DEF Init, Inv6, LoopsDown, SleepInv, DrainInv, BlockedOnlyWhenFull

\* peek returns an item of the array whose module can lend its slot, if any.
LEMMA PeekedItem ==
  ASSUME NEW s \in Seq(Item)
  PROVE  (\E i \in DOMAIN s : Eligible(s[i])) => s[SelectInSeq(s, Eligible)] \in ToSet(s)
<1> SUFFICES ASSUME \E i \in DOMAIN s : Eligible(s[i]) PROVE s[SelectInSeq(s, Eligible)] \in ToSet(s)
  OBVIOUS
<1> DEFINE I == {i \in 1..Len(s) : Eligible(s[i])}
<1>1. SelectInSeq(s, Eligible) = IF I # {} THEN Min(I) ELSE 0
  BY DEF SelectInSeq
<1>2. Len(s) \in Nat /\ DOMAIN s = 1..Len(s) /\ I \subseteq Nat
  BY LenProperties
<1>3. I # {}
  BY <1>2
<1>4. Min(I) \in I
  BY <1>2, <1>3, MinOfNaturals
<1>5. SelectInSeq(s, Eligible) \in 1..Len(s)
  BY <1>1, <1>3, <1>4
<1> QED BY <1>2, <1>5 DEF ToSet

\* Every step keeps the sixth layer.
LEMMA NextInv6 == Inv1 /\ Inv6 /\ [Next]_vars => Inv6'
<1> SUFFICES ASSUME Inv1, Inv6, [Next]_vars PROVE Inv6'
  OBVIOUS
<1>0. /\ items \in Seq(Item) /\ OneItemPerKey(items) /\ drain \subseteq Item
      /\ \A i \in DOMAIN items : items[i].version < nextVersion
      /\ wants \in [Producers -> SUBSET Request] /\ capacityWaiters \subseteq Producers
      /\ ToSet(items) = {items[i] : i \in DOMAIN items} /\ Inv1'
  BY NextInv1, QueueWellFormedParts DEF Inv1, TypeOK, QueueWellFormed, ToSet
<1>1. ASSUME NEW req \in Request, Enqueue(req) PROVE Inv6'
  BY <1>1, EnqueueKeepsInv6 DEF Enqueue, waitVars
<1>2. ASSUME UNCHANGED <<items, nextVersion, drain>>
      PROVE  DrainInv'
  BY <1>2 DEF Inv6, DrainInv
<1>3. ASSUME UNCHANGED <<items, capacityWaiters>>, \A p \in capacityWaiters : wants'[p] = wants[p]
      PROVE  BlockedOnlyWhenFull'
  BY <1>3 DEF Inv6, BlockedOnlyWhenFull
<1>4. ASSUME UNCHANGED <<items, available, asleep, drain>>, phase' = phase \/ phase' = "stopping",
             capacityWaiters' \subseteq capacityWaiters \/ phase = "up"
      PROVE  LoopsDown' /\ SleepInv'
  BY <1>4 DEF Inv6, LoopsDown, SleepInv
<1>5. ASSUME NEW p \in Producers, NEW req \in Request, CallEnqueueWhenAvailable(p, req) PROVE Inv6'
  <2>1. p \notin capacityWaiters
    BY <1>5 DEF CallEnqueueWhenAvailable, Inv6, BlockedOnlyWhenFull
  <2>2. /\ UNCHANGED <<phase, items, nextVersion, available, asleep, drain, capacityWaiters>>
        /\ \A q \in capacityWaiters : wants'[q] = wants[q]
    BY <1>0, <1>5, <2>1 DEF CallEnqueueWhenAvailable, queueVars, drainVars
  <2> QED BY <1>2, <1>3, <1>4, <2>2 DEF Inv6
<1>6. ASSUME NEW p \in Producers, EnqueueWhenAvailable(p) PROVE Inv6'
  <2>1. PICK req \in wants[p] :
          \/ /\ enqueue(req) /\ wants' = [wants EXCEPT ![p] = {}]
             /\ UNCHANGED <<phase, capacityWaiters, drain>>
          \/ /\ ~HasRoomFor(req) /\ capacityWaiters' = capacityWaiters \cup {p}
             /\ UNCHANGED <<phase, queueVars, wants, drainVars>>
    BY <1>6 DEF EnqueueWhenAvailable
  <2>2. req \in Request /\ phase = "up" /\ p \notin capacityWaiters
    BY <1>0, <1>6 DEF EnqueueWhenAvailable
  <2>3. CASE /\ enqueue(req) /\ wants' = [wants EXCEPT ![p] = {}]
             /\ UNCHANGED <<phase, capacityWaiters, drain>>
    <3>1. \A q \in capacityWaiters : wants'[q] = wants[q]
      BY <1>0, <2>2, <2>3
    <3> QED BY <2>2, <2>3, <3>1, EnqueueKeepsInv6
  <2>4. CASE /\ ~HasRoomFor(req) /\ capacityWaiters' = capacityWaiters \cup {p}
             /\ UNCHANGED <<phase, queueVars, wants, drainVars>>
    <3>1. moduleDepth(items, ModuleOf(req.key)) >= MaxItems
      <4>1. /\ moduleDepth(items, ModuleOf(req.key)) = Cardinality(OfModule(items, ModuleOf(req.key)))
            /\ IsFiniteSet(OfModule(items, ModuleOf(req.key)))
        BY <1>0, DepthCountsItems
      <4>2. moduleDepth(items, ModuleOf(req.key)) \in Nat /\ MaxItems \in Nat
        BY <4>1, FS_CardinalityType, QueueAssumption
      <4>3. ~(moduleDepth(items, ModuleOf(req.key)) < MaxItems)
        BY <2>4 DEF HasRoomFor
      <4> QED BY <4>2, <4>3
    <3>2. BlockedOnlyWhenFull'
      BY <2>4, <3>1 DEF Inv6, BlockedOnlyWhenFull, queueVars
    <3>3. UNCHANGED <<phase, items, nextVersion, available, asleep, drain>>
      BY <2>4 DEF queueVars, drainVars
    <3> QED BY <1>2, <1>4, <2>2, <3>2, <3>3 DEF Inv6
  <2> QED BY <2>1, <2>3, <2>4
<1>7. ASSUME NEW p \in Producers, AbortEnqueue(p) PROVE Inv6'
  <2>1. /\ UNCHANGED <<phase, items, nextVersion, available, asleep, drain>>
        /\ capacityWaiters' = capacityWaiters \ {p}
        /\ \A q \in capacityWaiters' : wants'[q] = wants[q]
    BY <1>0, <1>7 DEF AbortEnqueue, queueVars, drainVars
  <2>2. BlockedOnlyWhenFull'
    BY <2>1 DEF Inv6, BlockedOnlyWhenFull
  <2> QED BY <1>2, <1>4, <2>1, <2>2 DEF Inv6
<1>8. ASSUME NEW m \in Modules, ModuleChanged(m) PROVE Inv6'
  <2>1. /\ UNCHANGED <<phase, items, nextVersion, drain, wants, capacityWaiters>>
        /\ phase = "up" /\ asleep' = FALSE
    BY <1>8 DEF ModuleChanged, queueVars, waitVars
  <2>2. LoopsDown' /\ SleepInv'
    BY <2>1 DEF LoopsDown, SleepInv
  <2> QED BY <1>2, <1>3, <2>1, <2>2 DEF Inv6
<1>9. CASE DrainPeek
  <2>1. /\ UNCHANGED <<phase, items, nextVersion, available, wants, capacityWaiters>> /\ phase = "up" /\ ~asleep
        /\ IF \E i \in DOMAIN items : Eligible(items[i])
           THEN drain' = {items[SelectInSeq(items, Eligible)]} /\ UNCHANGED asleep
           ELSE asleep' = TRUE /\ UNCHANGED drain
    BY <1>9 DEF DrainPeek, queueVars, waitVars
  <2>2. BlockedOnlyWhenFull'
    BY <1>3, <2>1
  <2>3. CASE \E i \in DOMAIN items : Eligible(items[i])
    <3> DEFINE it == items[SelectInSeq(items, Eligible)]
    <3>1. drain' = {it} /\ it \in ToSet(items) /\ asleep' = asleep
      BY <1>0, <2>1, <2>3, PeekedItem
    <3> HIDE DEF it
    <3>2. it.version < nextVersion /\ \A x \in ToSet(items) : x.key = it.key => x = it
      BY <1>0, <3>1 DEF OneItemPerKey
    <3>3. DrainInv'
      BY <2>1, <3>1, <3>2 DEF DrainInv
    <3>4. LoopsDown' /\ SleepInv'
      BY <2>1, <3>1 DEF LoopsDown, SleepInv
    <3> QED BY <2>2, <3>3, <3>4 DEF Inv6
  <2>4. CASE ~\E i \in DOMAIN items : Eligible(items[i])
    <3>1. SleepInv' /\ LoopsDown'
      BY <1>0, <2>1, <2>4 DEF SleepInv, LoopsDown, Eligible
    <3> QED BY <1>2, <2>1, <2>2, <2>4, <3>1 DEF Inv6
  <2> QED BY <2>3, <2>4
<1>10. CASE DrainTimeout
  <2>1. /\ UNCHANGED <<phase, items, nextVersion, drain, wants, capacityWaiters>>
        /\ phase = "up" /\ asleep' = FALSE
    BY <1>10 DEF DrainTimeout, queueVars, waitVars
  <2>2. LoopsDown' /\ SleepInv'
    BY <2>1 DEF LoopsDown, SleepInv
  <2> QED BY <1>2, <1>3, <2>1, <2>2 DEF Inv6
<1>11. ASSUME NEW it \in drain, NEW s \in Seq(Item), OneItemPerKey(s), SameStamps(s, items), MarkDone(it, s),
              drain' = {}, phase # "down", UNCHANGED <<phase, available, asleep, wants>>
       PROVE  Inv6'
  <2>1. \/ items' = s /\ UNCHANGED capacityWaiters
        \/ ToSet(items') \subseteq ToSet(s) /\ capacityWaiters' = {}
    BY <1>11, MarkDoneElements DEF MarkDone
  <2> QED BY <1>0, <1>11, <2>1, DrainEndKeepsInv6
<1>12. CASE DrainDone
  <2>1. PICK it \in drain : MarkDone(it, items)
    BY <1>12 DEF DrainDone
  <2>2. SameStamps(items, items)
    BY DEF SameStamps
  <2>3. drain' = {} /\ phase # "down" /\ UNCHANGED <<phase, available, asleep, wants>>
    BY <1>12 DEF DrainDone
  <2> QED BY <1>0, <1>11, <2>1, <2>2, <2>3
<1>13. CASE DrainRetry
  <2>1. PICK it \in drain : items' = bumpAttempts(items, it)
    BY <1>13 DEF DrainRetry
  <2>2. items' \in Seq(Item) /\ OneItemPerKey(items') /\ SameStamps(items', items)
    BY <1>0, <2>1, BumpKeepsInv1, BumpKeepsStamps
  <2>3. /\ drain' = {} /\ phase # "down" /\ UNCHANGED <<phase, available, asleep, wants, capacityWaiters>>
    BY <1>13 DEF DrainRetry, waitVars
  <2>4. ASSUME NEW s \in Seq(Item), OneItemPerKey(s), SameStamps(s, items), items' = s PROVE Inv6'
    BY <1>0, <2>3, <2>4, DrainEndKeepsInv6
  <2> QED BY <2>2, <2>4
<1>14. ASSUME NEW r \in {"permanent", "retry_exhausted", "oversized"}, DrainDrop(r) PROVE Inv6'
  <2>1. PICK it \in drain : MarkDone(it, bumpAttempts(items, it))
    BY <1>14 DEF DrainDrop
  <2> DEFINE s == bumpAttempts(items, it)
  <2>2. s \in Seq(Item) /\ OneItemPerKey(s) /\ SameStamps(s, items) /\ MarkDone(it, s)
    BY <1>0, <2>1, BumpKeepsInv1, BumpKeepsStamps
  <2>3. drain' = {} /\ phase # "down" /\ UNCHANGED <<phase, available, asleep, wants>>
    BY <1>14 DEF DrainDrop
  <2> HIDE DEF s
  <2> QED BY <1>11, <2>2, <2>3
<1>15. CASE DrainAbandon
  <2>1. /\ UNCHANGED <<phase, items, nextVersion, available, asleep, wants, capacityWaiters>>
        /\ drain' = {} /\ phase # "down"
    BY <1>15 DEF DrainAbandon, queueVars, waitVars
  <2>2. LoopsDown' /\ SleepInv' /\ DrainInv'
    BY <2>1 DEF Inv6, LoopsDown, SleepInv, DrainInv
  <2> QED BY <1>3, <2>1, <2>2 DEF Inv6
<1>16. ASSUME UNCHANGED <<items, nextVersion, available, asleep, drain, wants, capacityWaiters>>,
              phase' = phase \/ phase' = "stopping"
       PROVE  Inv6'
  BY <1>2, <1>3, <1>4, <1>16 DEF Inv6
<1>17. CASE BeatSend \/ BeatOk \/ BeatFail \/ WriteOk \/ WriteFail \/ Stop \/ UNCHANGED vars
  <2>1. /\ UNCHANGED <<items, nextVersion, available, asleep, drain, wants, capacityWaiters>>
        /\ phase' = phase \/ phase' = "stopping"
    BY <1>17 DEF BeatSend, BeatOk, BeatFail, WriteOk, WriteFail, Stop, vars, queueVars, waitVars, drainVars
  <2> QED BY <1>16, <2>1
<1>18. CASE Start
  <2>1. phase = "down" /\ phase' = "up" /\ UNCHANGED <<drain, asleep, capacityWaiters>>
    BY <1>18 DEF Start, waitVars, drainVars
  <2>2. drain' = {} /\ asleep' = FALSE /\ capacityWaiters' = {}
    BY <2>1 DEF Inv6, LoopsDown
  <2> QED BY <2>1, <2>2 DEF Inv6, LoopsDown, SleepInv, DrainInv, BlockedOnlyWhenFull
<1>19. CASE Crash \/ Exit
  <2>1. drain' = {} /\ asleep' = FALSE /\ capacityWaiters' = {}
    BY <1>19 DEF Crash, Exit, Vanish
  <2> QED BY <2>1 DEF Inv6, LoopsDown, SleepInv, DrainInv, BlockedOnlyWhenFull
<1> QED
  BY <1>1, <1>5, <1>6, <1>7, <1>8, <1>9, <1>10, <1>12, <1>13, <1>14, <1>15, <1>17, <1>18, <1>19 DEF Next

\* A producer stays blocked only while its module is really full, for every number
\* of slots and producers: eviction, replacement and retries wake nobody, and need not.
THEOREM BlockedRightly == Spec => []BlockedOnlyWhenFull
<1>1. Inv6 => BlockedOnlyWhenFull
  BY DEF Inv6
<1> QED BY InitInv1, NextInv1, InitInv6, NextInv6, <1>1, PTL DEF Spec

\* The drain loop never sleeps on work it could take, whether the work or the
\* module's slot came second.
THEOREM AwakeWhenNeeded == Spec => []NeverSleepsOnWork
<1>1. Inv1 /\ Inv6 => NeverSleepsOnWork
  BY DEF Inv6, SleepInv, NeverSleepsOnWork, Eligible, ToSet
<1> QED BY InitInv1, NextInv1, InitInv6, NextInv6, <1>1, PTL DEF Spec

\* An item in the hands of the drain loop is never confused with another one of
\* its key, although versions restart after a crash.
THEOREM DrainHoldsItsItem == Spec => []DrainHoldsCurrentItem
<1>1. Inv1 /\ Inv6 => DrainHoldsCurrentItem
  <2> SUFFICES ASSUME Inv1, Inv6, NEW it \in drain, IsCurrent(items, it)
               PROVE  items[IndexOfKey(items, it.key)] = it
    BY DEF DrainHoldsCurrentItem
  <2> DEFINE x == items[IndexOfKey(items, it.key)]
  <2>1. x \in ToSet(items) /\ x.key = it.key /\ x.version = it.version
    BY CurrentItem DEF Inv1, TypeOK
  <2> HIDE DEF x
  <2>2. x = it
    BY <2>1 DEF Inv6, DrainInv
  <2> QED BY <2>2 DEF x
<1> QED BY InitInv1, NextInv1, InitInv6, NextInv6, <1>1, PTL DEF Spec

-----------------------------------------------------------------------------
(***************************************************************************)
(* Restarts.                                                               *)
(***************************************************************************)

\* load() of a file without junk and duplicates returns the file.
LEMMA CleanFileLoaded ==
  ASSUME NEW lines \in Seq(Line), CleanFile(lines),
         NEW s \in SeqOf({lines[i] : i \in Valid(lines)}, Len(lines)), IsLoadOf(lines, s)
  PROVE  s = lines
<1> DEFINE N == Len(lines)
           n == Len(s)
           f == [j \in 1..N |-> CHOOSE i \in 1..n : s[i].key = lines[j].key]
<1>1. /\ N \in Nat /\ DOMAIN lines = 1..N /\ Valid(lines) = 1..N
      /\ \A i, j \in 1..N : lines[i].key = lines[j].key => i = j
  BY ValidLines DEF CleanFile
<1>2. s \in Seq(Item) /\ n <= N /\ (n = N => s = lines)
  BY LoadedArray
<1>3. n \in Nat /\ DOMAIN s = 1..n
  BY <1>2, LenProperties
<1>4. \A j \in 1..N : \E i \in 1..n : s[i].key = lines[j].key
  BY <1>1, <1>3 DEF IsLoadOf
<1> HIDE DEF N, n
<1>5. \A j \in 1..N : f[j] \in 1..n /\ s[f[j]].key = lines[j].key
  BY <1>4
<1>6. f \in Injection(1..N, 1..n)
  <2>1. f \in [1..N -> 1..n]
    BY <1>5
  <2>2. \A i, j \in 1..N : f[i] = f[j] => i = j
    <3> HIDE DEF f
    <3> QED BY <1>1, <1>5
  <2> HIDE DEF f
  <2> QED BY <2>1, <2>2 DEF Injection, IsInjective
<1>7. N <= n
  <2>1. /\ IsFiniteSet(1..n) /\ Cardinality(1..n) = IF 1 > n THEN 0 ELSE n - 1 + 1
        /\ Cardinality(1..N) = IF 1 > N THEN 0 ELSE N - 1 + 1
    BY <1>1, <1>3, FS_Interval
  <2>2. Cardinality(1..N) <= Cardinality(1..n)
    BY <1>6, <2>1, FS_Injection
  <2> QED BY <1>1, <1>3, <2>1, <2>2
<1> QED BY <1>1, <1>2, <1>3, <1>7

\* A file this binary wrote is read back as it was written: order, versions and
\* attempts survive a restart, and nothing is rewritten or counted as dropped.
THEOREM RestartKeepsFile == Spec => RestartKeepsQueue
<1>1. Inv1 /\ [Next]_vars =>
        [phase = "down" /\ phase' = "up" /\ CleanFile(disk)
           => items' = disk /\ writing' = {} /\ drops' = NoDrops]_vars
  <2> SUFFICES ASSUME Inv1, [Next]_vars, phase = "down", phase' = "up", CleanFile(disk)
               PROVE  items' = disk /\ writing' = {} /\ drops' = NoDrops
    OBVIOUS
  <2>1. Start
    <3>1. ~StillUp
      BY DEF StillUp
    <3>2. ~Vanish
      BY DEF Vanish
    <3> QED BY <3>1, <3>2, QueueSteps
               DEF QueueStep, Quiet, Accepts, Finishes, GivesUp, Retries, Writes
  <2>2. PICK s \in SeqOf({disk[i] : i \in Valid(disk)}, Len(disk)) :
          /\ IsLoadOf(disk, s) /\ items' = s
          /\ IF Len(s) < Len(disk) THEN writing' = {s} ELSE writing' = {}
    BY <2>1 DEF Start, load
  <2>3. disk \in Seq(Line) /\ s = disk
    BY <2>2, CleanFileLoaded DEF Inv1, TypeOK
  <2>4. Len(disk) \in Nat /\ Valid(disk) = 1..Len(disk)
    BY <2>3, ValidLines DEF CleanFile
  <2>5. Cardinality(Valid(disk)) = Len(disk)
    <3>1. Cardinality(1..Len(disk)) = IF 1 > Len(disk) THEN 0 ELSE Len(disk) - 1 + 1
      BY <2>4, FS_Interval
    <3> QED BY <2>4, <3>1
  <2>6. drops' = [NoDrops EXCEPT !["invalid_persisted"] = 0]
    <3>1. drops' = [NoDrops EXCEPT !["invalid_persisted"] = Len(disk) - Cardinality(Valid(disk))]
      BY <2>1 DEF Start
    <3>2. Len(disk) - Cardinality(Valid(disk)) = 0
      BY <2>4, <2>5
    <3> QED BY <3>1, <3>2
  <2>7. drops' = NoDrops
    BY <2>6 DEF NoDrops
  <2> QED BY <2>2, <2>3, <2>4, <2>7
<1> QED BY InitInv1, NextInv1, <1>1, PTL DEF Spec, RestartKeepsQueue
=============================================================================
