--------------------------- MODULE QueueOpsProofs ---------------------------
(***************************************************************************)
(* What the operators of QueueOps do to an array of items, for every array *)
(* and every set of items.                                                 *)
(***************************************************************************)
EXTENDS QueueOps, TLAPS, WellFoundedInduction, SequenceTheorems, FiniteSetTheorems

\* No two items of an array share a key.
OneItemPerKey(s) == \A i, j \in DOMAIN s : s[i].key = s[j].key => i = j

\* Every version of an array lies below n.
VersionsBelow(s, n) == \A i \in DOMAIN s : s[i].version < n

\* The items of a module, as a set.
OfModule(s, m) == {x \in ToSet(s) : ModuleOf(x.key) = m}

-----------------------------------------------------------------------------

\* findIndex returns a least index: a nonempty set of naturals has its Min.
LEMMA MinOfNaturals ==
  ASSUME NEW I, I \subseteq Nat, I # {}
  PROVE  Min(I) \in I /\ \A y \in I : Min(I) <= y
<1> DEFINE R == {ss \in Nat \X Nat : ss[1] < ss[2]}
<1>1. IsWellFoundedOn(R, Nat)
  BY NatLessThanWellFounded, Zenon DEF OpToRel
<1>2. \E x \in I : \A y \in I : ~(<<y, x>> \in R)
  <2> HIDE DEF R
  <2> QED BY <1>1, WFMin
<1>3. \A x, y \in I : y < x => <<y, x>> \in R
  OBVIOUS
<1>4. \E x \in I : \A y \in I : x <= y
  <2> HIDE DEF R
  <2>1. PICK x \in I : \A y \in I : ~(<<y, x>> \in R)
    BY <1>2
  <2>2. \A y \in I : ~(y < x)
    BY <2>1, <1>3
  <2> QED BY <2>2
<1> QED
  BY <1>4 DEF Min

\* splice(i, 1) takes out one element and keeps the order of the others.
LEMMA RemoveAtProperties ==
  ASSUME NEW S, NEW s \in Seq(S), NEW i \in 1..Len(s)
  PROVE  /\ RemoveAt(s, i) \in Seq(S)
         /\ Len(RemoveAt(s, i)) = Len(s) - 1
         /\ \A j \in 1..(Len(s) - 1) :
              RemoveAt(s, i)[j] = IF j < i THEN s[j] ELSE s[j + 1]
<1> DEFINE p == SubSeq(s, 1, i - 1)
           q == SubSeq(s, i + 1, Len(s))
<1>1. /\ p \in Seq(S) /\ Len(p) = i - 1
      /\ \A j \in 1..(i - 1) : p[j] = s[j]
  BY SubSeqProperties, LenProperties
<1>2. /\ q \in Seq(S) /\ Len(q) = Len(s) - i
      /\ \A j \in 1..(Len(s) - i) : q[j] = s[i + j]
  <2>1. Len(s) \in Nat /\ \A j \in (i + 1)..Len(s) : s[j] \in S
    BY LenProperties
  <2>2. /\ q \in Seq(S)
        /\ Len(q) = IF i + 1 <= Len(s) THEN Len(s) - (i + 1) + 1 ELSE 0
        /\ \A j \in 1..(Len(s) - (i + 1) + 1) : q[j] = s[i + 1 + j - 1]
    BY <2>1, SubSeqProperties
  <2> QED BY <2>1, <2>2
<1> HIDE DEF p, q
<1>3. /\ p \o q \in Seq(S)
      /\ Len(p \o q) = Len(p) + Len(q)
      /\ \A j \in 1..(Len(p) + Len(q)) : (p \o q)[j] = IF j <= Len(p) THEN p[j] ELSE q[j - Len(p)]
  BY <1>1, <1>2, ConcatProperties
<1>4. Len(s) \in Nat
  BY LenProperties
<1>5. \A j \in 1..(Len(s) - 1) : (p \o q)[j] = IF j < i THEN s[j] ELSE s[j + 1]
  <2> SUFFICES ASSUME NEW j \in 1..(Len(s) - 1)
               PROVE  (p \o q)[j] = IF j < i THEN s[j] ELSE s[j + 1]
    OBVIOUS
  <2>1. CASE j < i
    BY <2>1, <1>1, <1>2, <1>3, <1>4
  <2>2. CASE ~(j < i)
    <3>1. (p \o q)[j] = q[j - (i - 1)]
      BY <2>2, <1>1, <1>2, <1>3, <1>4
    <3>2. j - (i - 1) \in 1..(Len(s) - i)
      BY <2>2, <1>4
    <3> QED BY <3>1, <3>2, <2>2, <1>2, <1>4
  <2> QED BY <2>1, <2>2
<1>6. RemoveAt(s, i) = p \o q
  BY DEF RemoveAt, p, q
<1>7. Len(p) + Len(q) = Len(s) - 1
  BY <1>1, <1>2, <1>4
<1> QED
  BY <1>3, <1>5, <1>6, <1>7

\* findIndex over the dedup key finds the first item of the key, if any.
LEMMA IndexOfKeyProperties ==
  ASSUME NEW S, NEW s \in Seq(S), NEW k
  PROVE  /\ IndexOfKey(s, k) \in 0..Len(s)
         /\ IndexOfKey(s, k) > 0 => s[IndexOfKey(s, k)].key = k
         /\ IndexOfKey(s, k) = 0 <=> \A i \in 1..Len(s) : s[i].key # k
<1> DEFINE I == {i \in 1..Len(s) : s[i].key = k}
<1>1. IndexOfKey(s, k) = IF I # {} THEN Min(I) ELSE 0
  BY DEF IndexOfKey, SelectInSeq
<1>2. Len(s) \in Nat /\ I \subseteq Nat
  BY LenProperties
<1>3. I # {} => Min(I) \in I
  BY <1>2, MinOfNaturals
<1> QED
  BY <1>1, <1>2, <1>3

\* Taking out one item of an array without duplicates.
LEMMA RemoveAtElements ==
  ASSUME NEW S, NEW s \in Seq(S), OneItemPerKey(s), NEW i \in 1..Len(s)
  PROVE  /\ OneItemPerKey(RemoveAt(s, i))
         /\ ToSet(RemoveAt(s, i)) = {x \in ToSet(s) : x.key # s[i].key}
<1> DEFINE t == RemoveAt(s, i)
           n == Len(s)
           At(j) == IF j < i THEN j ELSE j + 1
<1>1. /\ n \in Nat /\ DOMAIN s = 1..n
      /\ t \in Seq(S) /\ Len(t) = n - 1 /\ DOMAIN t = 1..(n - 1)
      /\ \A j \in 1..(n - 1) : t[j] = IF j < i THEN s[j] ELSE s[j + 1]
  BY RemoveAtProperties, LenProperties
<1> HIDE DEF t
<1>2. \A j \in 1..(n - 1) : /\ At(j) \in 1..n /\ At(j) # i /\ t[j] = s[At(j)]
                           /\ \A h \in 1..(n - 1) : At(j) = At(h) => j = h
  BY <1>1
<1>3. \A j \in 1..n : j # i => \E h \in 1..(n - 1) : At(h) = j
  <2> SUFFICES ASSUME NEW j \in 1..n, j # i PROVE \E h \in 1..(n - 1) : At(h) = j
    OBVIOUS
  <2>1. CASE j < i
    <3>1. j \in 1..(n - 1) /\ At(j) = j BY <2>1, <1>1
    <3> QED BY <3>1
  <2>2. CASE j > i
    <3>1. j - 1 \in 1..(n - 1) /\ At(j - 1) = j BY <2>2, <1>1
    <3> QED BY <3>1
  <2> QED BY <2>1, <2>2, <1>1
<1> HIDE DEF At
<1>4. \A j, h \in 1..n : s[j].key = s[h].key => j = h
  BY <1>1 DEF OneItemPerKey
<1>5. OneItemPerKey(t)
  <2> SUFFICES ASSUME NEW j \in 1..(n - 1), NEW h \in 1..(n - 1), t[j].key = t[h].key PROVE j = h
    BY <1>1 DEF OneItemPerKey
  <2>1. At(j) = At(h)
    BY <1>2, <1>4
  <2> QED BY <2>1, <1>2
<1>6. \A x \in ToSet(t) : x \in ToSet(s) /\ x.key # s[i].key
  BY <1>1, <1>2, <1>4 DEF ToSet
<1>7. \A x \in ToSet(s) : x.key # s[i].key => x \in ToSet(t)
  <2> SUFFICES ASSUME NEW j \in 1..n, s[j].key # s[i].key PROVE s[j] \in ToSet(t)
    BY <1>1 DEF ToSet
  <2>1. PICK h \in 1..(n - 1) : At(h) = j
    BY <1>3
  <2> QED BY <2>1, <1>1, <1>2 DEF ToSet
<1> QED
  BY <1>5, <1>6, <1>7 DEF t

\* push() of an item whose key is not in the array.
LEMMA AppendElements ==
  ASSUME NEW S, NEW s \in Seq(S), OneItemPerKey(s), NEW e \in S,
         \A x \in ToSet(s) : x.key # e.key
  PROVE  /\ Append(s, e) \in Seq(S)
         /\ OneItemPerKey(Append(s, e))
         /\ ToSet(Append(s, e)) = ToSet(s) \cup {e}
<1> DEFINE t == Append(s, e)
           n == Len(s)
<1>1. /\ n \in Nat /\ DOMAIN s = 1..n
      /\ t \in Seq(S) /\ DOMAIN t = 1..(n + 1)
      /\ \A j \in 1..n : t[j] = s[j]
      /\ t[n + 1] = e
  BY AppendProperties, LenProperties
<1> HIDE DEF t
<1>2. \A j \in 1..n : t[j].key # e.key
  BY <1>1 DEF ToSet
<1>3. \A j, h \in 1..n : t[j].key = t[h].key => j = h
  BY <1>1 DEF OneItemPerKey
<1>4. \A j \in 1..(n + 1) : j \in 1..n \/ j = n + 1
  BY <1>1
<1>5. OneItemPerKey(t)
  BY <1>1, <1>2, <1>3, <1>4 DEF OneItemPerKey
<1>6. ToSet(t) = ToSet(s) \cup {e}
  BY <1>1, <1>4 DEF ToSet
<1> QED
  BY <1>1, <1>5, <1>6 DEF t

\* The array without the item of a key, whether or not it was there.
LEMMA WithoutKeyElements ==
  ASSUME NEW S, NEW s \in Seq(S), OneItemPerKey(s), NEW k
  PROVE  /\ WithoutKey(s, k) \in Seq(S)
         /\ OneItemPerKey(WithoutKey(s, k))
         /\ ToSet(WithoutKey(s, k)) = {x \in ToSet(s) : x.key # k}
<1> DEFINE i == IndexOfKey(s, k)
<1>0. Len(s) \in Nat /\ DOMAIN s = 1..Len(s)
  BY LenProperties
<1>1. CASE i > 0
  <2>1. i \in 1..Len(s) /\ s[i].key = k
    BY <1>0, <1>1, IndexOfKeyProperties
  <2>2. WithoutKey(s, k) = RemoveAt(s, i)
    BY <1>1 DEF WithoutKey
  <2> HIDE DEF i
  <2> QED BY <2>1, <2>2, RemoveAtProperties, RemoveAtElements
<1>2. CASE ~(i > 0)
  <2>1. \A x \in ToSet(s) : x.key # k
    BY <1>0, <1>2, IndexOfKeyProperties DEF ToSet
  <2> QED BY <1>2, <2>1 DEF WithoutKey
<1> QED
  BY <1>1, <1>2

\* enqueue, before eviction: the new item stands for its key.
LEMMA RequeueElements ==
  ASSUME NEW S, NEW s \in Seq(S), OneItemPerKey(s), NEW it \in S
  PROVE  /\ Requeue(s, it) \in Seq(S)
         /\ OneItemPerKey(Requeue(s, it))
         /\ ToSet(Requeue(s, it)) = {x \in ToSet(s) : x.key # it.key} \cup {it}
<1> DEFINE t == WithoutKey(s, it.key)
<1>1. t \in Seq(S) /\ OneItemPerKey(t) /\ ToSet(t) = {x \in ToSet(s) : x.key # it.key}
  BY WithoutKeyElements
<1>2. Requeue(s, it) = Append(t, it)
  BY DEF Requeue
<1> HIDE DEF t
<1> QED
  BY <1>1, <1>2, AppendElements

\* moduleDepth counts positions; without duplicates it counts items.
LEMMA DepthCountsItems ==
  ASSUME NEW S, NEW s \in Seq(S), OneItemPerKey(s), NEW m
  PROVE  /\ IsFiniteSet(OfModule(s, m))
         /\ moduleDepth(s, m) = Cardinality(OfModule(s, m))
<1> DEFINE I == {i \in DOMAIN s : ModuleOf(s[i].key) = m}
           T == OfModule(s, m)
           f == [i \in I |-> s[i]]
<1>1. DOMAIN s = 1..Len(s) /\ Len(s) \in Nat
  BY LenProperties
<1>2. IsFiniteSet(I)
  <2>1. IsFiniteSet(1..Len(s))
    BY <1>1, FS_Interval
  <2>2. I \in SUBSET (1..Len(s))
    BY <1>1
  <2> HIDE DEF I
  <2> QED BY <2>1, <2>2, FS_Subset
<1>3. f \in [I -> T]
  BY DEF OfModule, ToSet
<1>4. \A i, j \in I : f[i] = f[j] => i = j
  BY DEF OneItemPerKey
<1>5. \A x \in T : \E i \in I : f[i] = x
  BY DEF OfModule, ToSet
<1>6. ExistsBijection(I, T)
  <2> HIDE DEF I, T, f
  <2>1. f \in Injection(I, T)
    BY <1>3, <1>4 DEF Injection, IsInjective
  <2>2. f \in Surjection(I, T)
    BY <1>3, <1>5 DEF Surjection
  <2> QED BY <2>1, <2>2 DEF ExistsBijection, Bijection
<1>7. moduleDepth(s, m) = Cardinality(I)
  BY DEF moduleDepth
<1> HIDE DEF I, T
<1>8. IsFiniteSet(T) /\ Cardinality(T) = Cardinality(I)
  BY <1>2, <1>6, FS_Bijection
<1> QED
  BY <1>7, <1>8 DEF T

\* A module that overflows has an oldest item to evict.
LEMMA OldestOfProperties ==
  ASSUME NEW S, NEW s \in Seq(S), OneItemPerKey(s), NEW m, Overflows(s, m)
  PROVE  /\ OldestOf(s, m) \in 1..Len(s)
         /\ ModuleOf(s[OldestOf(s, m)].key) = m
<1> DEFINE I == {i \in 1..Len(s) : ModuleOf(s[i].key) = m}
<1>1. OldestOf(s, m) = IF I # {} THEN Min(I) ELSE 0
  BY DEF OldestOf, SelectInSeq
<1>2. Len(s) \in Nat /\ DOMAIN s = 1..Len(s) /\ I \subseteq Nat
  BY LenProperties
<1>3. I # {}
  <2>1. Cardinality(I) > MaxItems
    BY <1>2 DEF Overflows, moduleDepth
  <2>2. MaxItems \in Nat
    BY QueueAssumption
  <2>3. I = {} => Cardinality(I) = 0
    BY FS_EmptySet, Zenon
  <2> HIDE DEF I
  <2> QED BY <2>1, <2>2, <2>3
<1>4. Min(I) \in I
  BY <1>2, <1>3, MinOfNaturals
<1> QED
  BY <1>1, <1>3, <1>4

\* enqueue: the array stays free of duplicates, at most the oldest item of the
\* module is evicted, and a module within its slots stays within them.
LEMMA EnqueuedElements ==
  ASSUME NEW S, NEW s \in Seq(S), OneItemPerKey(s), NEW it \in S
  PROVE  LET m == ModuleOf(it.key)
             pushed == Requeue(s, it)
             evicted == pushed[OldestOf(pushed, m)]
         IN /\ Enqueued(s, it) \in Seq(S)
            /\ OneItemPerKey(Enqueued(s, it))
            /\ ~Overflows(pushed, m) => ToSet(Enqueued(s, it)) = ToSet(pushed)
            /\ Overflows(pushed, m) =>
                 /\ evicted \in ToSet(pushed) /\ ModuleOf(evicted.key) = m
                 /\ ToSet(Enqueued(s, it)) = {x \in ToSet(pushed) : x.key # evicted.key}
<1> DEFINE m == ModuleOf(it.key)
           pushed == Requeue(s, it)
           o == OldestOf(pushed, m)
<1>1. pushed \in Seq(S) /\ OneItemPerKey(pushed) /\ DOMAIN pushed = 1..Len(pushed)
  BY RequeueElements, LenProperties
<1>2. Enqueued(s, it) = IF Overflows(pushed, m) THEN RemoveAt(pushed, o) ELSE pushed
  BY DEF Enqueued, evictIfFull
<1> HIDE DEF pushed, m
<1>3. CASE Overflows(pushed, m)
  <2>1. o \in 1..Len(pushed) /\ ModuleOf(pushed[o].key) = m
    BY <1>1, <1>3, OldestOfProperties
  <2>2. pushed[o] \in ToSet(pushed)
    BY <1>1, <2>1 DEF ToSet
  <2> HIDE DEF o
  <2>3. /\ RemoveAt(pushed, o) \in Seq(S) /\ OneItemPerKey(RemoveAt(pushed, o))
        /\ ToSet(RemoveAt(pushed, o)) = {x \in ToSet(pushed) : x.key # pushed[o].key}
    BY <1>1, <2>1, RemoveAtProperties, RemoveAtElements
  <2> QED BY <1>2, <1>3, <2>1, <2>2, <2>3 DEF o, pushed, m
<1>4. CASE ~Overflows(pushed, m)
  BY <1>1, <1>2, <1>4 DEF pushed, m
<1> QED
  BY <1>3, <1>4

\* Slots: enqueue leaves every module within MaxItems.
LEMMA EnqueuedBounded ==
  ASSUME NEW S, NEW s \in Seq(S), OneItemPerKey(s), NEW it \in S, NEW n,
         moduleDepth(s, n) <= MaxItems
  PROVE  moduleDepth(Enqueued(s, it), n) <= MaxItems
<1> DEFINE m == ModuleOf(it.key)
           pushed == Requeue(s, it)
           e == pushed[OldestOf(pushed, m)]
           t == Enqueued(s, it)
           A == OfModule(s, n)
           B == OfModule(pushed, n)
           C == OfModule(t, n)
<1>0. MaxItems \in Nat /\ MaxItems > 0
  BY QueueAssumption
<1>1. /\ pushed \in Seq(S) /\ OneItemPerKey(pushed)
      /\ ToSet(pushed) = {x \in ToSet(s) : x.key # it.key} \cup {it}
  BY RequeueElements
<1>2. /\ t \in Seq(S) /\ OneItemPerKey(t)
      /\ ~Overflows(pushed, m) => ToSet(t) = ToSet(pushed)
      /\ Overflows(pushed, m) => /\ e \in ToSet(pushed) /\ ModuleOf(e.key) = m
                                 /\ ToSet(t) = {x \in ToSet(pushed) : x.key # e.key}
  BY EnqueuedElements
<1> HIDE DEF pushed, t, m, e
<1>3. /\ IsFiniteSet(A) /\ moduleDepth(s, n) = Cardinality(A)
      /\ IsFiniteSet(B) /\ moduleDepth(pushed, n) = Cardinality(B)
      /\ IsFiniteSet(C) /\ moduleDepth(t, n) = Cardinality(C)
  BY <1>1, <1>2, DepthCountsItems
<1>4. Cardinality(A) \in Nat /\ Cardinality(B) \in Nat /\ Cardinality(C) \in Nat
  BY <1>3, FS_CardinalityType
<1>5. CASE n # m
  <2>1. B \subseteq A /\ C \subseteq B
    BY <1>1, <1>2, <1>5 DEF OfModule, m
  <2>2. Cardinality(B) <= Cardinality(A) /\ Cardinality(C) <= Cardinality(B)
    <3> HIDE DEF A, B, C
    <3> QED BY <1>3, <2>1, FS_Subset
  <2> QED BY <2>2, <1>0, <1>3, <1>4 DEF t
<1>6. CASE n = m /\ ~Overflows(pushed, m)
  <2>1. C = B
    BY <1>2, <1>6 DEF OfModule
  <2>2. Cardinality(B) <= MaxItems
    BY <1>0, <1>3, <1>4, <1>6 DEF Overflows
  <2> QED BY <2>1, <2>2, <1>3 DEF t
<1>7. CASE n = m /\ Overflows(pushed, m)
  <2>1. B \subseteq A \cup {it}
    BY <1>1 DEF OfModule
  <2>2. C \subseteq B \ {e} /\ e \in B
    BY <1>2, <1>7 DEF OfModule
  <2> HIDE DEF A, B, C
  <2>3. IsFiniteSet(A \cup {it}) /\ Cardinality(A \cup {it}) <= Cardinality(A) + 1
    <3>1. /\ IsFiniteSet(A \cup {it})
          /\ Cardinality(A \cup {it}) = IF it \in A THEN Cardinality(A) ELSE Cardinality(A) + 1
      BY <1>3, FS_AddElement, Zenon
    <3> QED BY <3>1, <1>4
  <2>4. Cardinality(B) <= Cardinality(A \cup {it}) /\ Cardinality(A \cup {it}) \in Nat
    BY <2>1, <2>3, FS_Subset, FS_CardinalityType
  <2>5. IsFiniteSet(B \ {e}) /\ Cardinality(B \ {e}) = Cardinality(B) - 1
    BY <1>3, <2>2, FS_RemoveElement
  <2>6. Cardinality(C) <= Cardinality(B \ {e})
    BY <2>2, <2>5, FS_Subset
  <2> QED BY <1>0, <1>3, <1>4, <2>3, <2>4, <2>5, <2>6 DEF t
<1> QED
  BY <1>5, <1>6, <1>7

\* markDoneIfVersion: the item of the key goes only if the version is current.
LEMMA MarkDoneElements ==
  ASSUME NEW S, NEW s \in Seq(S), OneItemPerKey(s), NEW it
  PROVE  /\ markDoneIfVersion(s, it) \in Seq(S)
         /\ OneItemPerKey(markDoneIfVersion(s, it))
         /\ ToSet(markDoneIfVersion(s, it)) =
              IF IsCurrent(s, it) THEN {x \in ToSet(s) : x.key # it.key} ELSE ToSet(s)
<1> DEFINE t == WithoutKey(s, it.key)
<1>1. t \in Seq(S) /\ OneItemPerKey(t) /\ ToSet(t) = {x \in ToSet(s) : x.key # it.key}
  BY WithoutKeyElements
<1>2. markDoneIfVersion(s, it) = IF IsCurrent(s, it) THEN t ELSE s
  BY DEF markDoneIfVersion
<1> HIDE DEF t
<1> QED
  BY <1>1, <1>2

\* A current item stands in the array with its key and version.
LEMMA CurrentItem ==
  ASSUME NEW S, NEW s \in Seq(S), NEW it, IsCurrent(s, it)
  PROVE  LET i == IndexOfKey(s, it.key)
         IN i \in 1..Len(s) /\ s[i] \in ToSet(s) /\ s[i].key = it.key /\ s[i].version = it.version
<1> DEFINE i == IndexOfKey(s, it.key)
<1>1. i > 0 /\ s[i].version = it.version
  BY DEF IsCurrent
<1>2. Len(s) \in Nat /\ DOMAIN s = 1..Len(s) /\ i \in 0..Len(s) /\ (i > 0 => s[i].key = it.key)
  BY IndexOfKeyProperties, LenProperties
<1>3. i \in 1..Len(s)
  BY <1>1, <1>2
<1> QED
  BY <1>1, <1>2, <1>3 DEF ToSet

\* bumpAttempts: a current item moves to the tail, one attempt older.
LEMMA BumpElements ==
  ASSUME NEW S, NEW s \in Seq(S), OneItemPerKey(s), NEW it, IsCurrent(s, it),
         \A x \in S : [x EXCEPT !.attempts = @ + 1] \in S
                     /\ [x EXCEPT !.attempts = @ + 1].key = x.key
  PROVE  LET old == s[IndexOfKey(s, it.key)]
             new == [old EXCEPT !.attempts = @ + 1]
         IN /\ bumpAttempts(s, it) \in Seq(S)
            /\ OneItemPerKey(bumpAttempts(s, it))
            /\ ToSet(bumpAttempts(s, it)) = {x \in ToSet(s) : x.key # it.key} \cup {new}
<1> DEFINE i == IndexOfKey(s, it.key)
           old == s[i]
           new == [old EXCEPT !.attempts = @ + 1]
           t == RemoveAt(s, i)
<1>1. i \in 1..Len(s) /\ old \in ToSet(s) /\ old.key = it.key
  BY CurrentItem
<1>2. old \in S
  BY <1>1, LenProperties
<1>3. new \in S /\ new.key = it.key
  BY <1>1, <1>2
<1>4. bumpAttempts(s, it) = Append(t, new)
  BY DEF bumpAttempts
<1> HIDE DEF i
<1>5. t \in Seq(S) /\ OneItemPerKey(t) /\ ToSet(t) = {x \in ToSet(s) : x.key # it.key}
  BY <1>1, RemoveAtProperties, RemoveAtElements
<1> HIDE DEF t, new, old
<1>6. \A x \in ToSet(t) : x.key # new.key
  BY <1>3, <1>5
<1>7. /\ Append(t, new) \in Seq(S) /\ OneItemPerKey(Append(t, new))
      /\ ToSet(Append(t, new)) = ToSet(t) \cup {new}
  BY <1>3, <1>5, <1>6, AppendElements
<1> QED
  BY <1>4, <1>5, <1>7 DEF new, old, i

\* bumpAttempts leaves an array alone in which the item is no longer current.
LEMMA BumpStale ==
  ASSUME NEW s, NEW it, ~IsCurrent(s, it)
  PROVE  bumpAttempts(s, it) = s
BY DEF bumpAttempts
=============================================================================
