----------------------------- MODULE LRUProofs -----------------------------
(***************************************************************************)
(* Theorems about LRU, for every set of keys and values, every number of   *)
(* buckets up to 128, every time to live and every capacity.               *)
(***************************************************************************)
EXTENDS LRU, SequenceTheorems, FiniteSetTheorems, TLAPS

------------------------------------------------------------------------------
(***************************************************************************)
(* The list operations.  A list is good when it links no key twice.        *)
(***************************************************************************)

Injective(s) == \A i, j \in DOMAIN s : s[i] = s[j] => i = j
Linked(s) == {s[i] : i \in DOMAIN s}
Sorted(s, f) == \A i, j \in DOMAIN s : i < j => f[s[i]] >= f[s[j]]

\* Taking out position n shifts what is behind it, and nothing else
\* (LruList.Remove).
LEMMA RemoveAtElements ==
    ASSUME NEW S, NEW s \in Seq(S), NEW n \in 1..Len(s)
    PROVE  /\ RemoveAt(s, n) \in Seq(S)
           /\ Len(RemoveAt(s, n)) = Len(s) - 1
           /\ \A i \in 1..(Len(s) - 1) : RemoveAt(s, n)[i] = IF i < n THEN s[i] ELSE s[i + 1]
  <1> DEFINE a == SubSeq(s, 1, n - 1)
             b == SubSeq(s, n + 1, Len(s))
  <1>1. a \in Seq(S) /\ Len(a) = n - 1 /\ \A i \in 1..(n - 1) : a[i] = s[i]
    OBVIOUS
  <1>2. b \in Seq(S) /\ Len(b) = Len(s) - n /\ \A i \in 1..(Len(s) - n) : b[i] = s[n + i]
    OBVIOUS
  <1>3. RemoveAt(s, n) = a \o b
    BY DEF RemoveAt
  <1> HIDE DEF a, b
  <1>4. /\ a \o b \in Seq(S)
        /\ Len(a \o b) = Len(a) + Len(b)
        /\ \A i \in 1..(Len(a) + Len(b)) :
              (a \o b)[i] = IF i =< Len(a) THEN a[i] ELSE b[i - Len(a)]
    BY <1>1, <1>2, ConcatProperties
  <1> QED
    BY <1>1, <1>2, <1>3, <1>4

\* Linking k in front of a list shifts the rest (LruList.PushFrontExpirable).
LEMMA ConsElements ==
    ASSUME NEW S, NEW s \in Seq(S), NEW k \in S
    PROVE  /\ Cons(k, s) \in Seq(S)
           /\ Len(Cons(k, s)) = Len(s) + 1
           /\ Cons(k, s)[1] = k
           /\ \A i \in 2..(Len(s) + 1) : Cons(k, s)[i] = s[i - 1]
  BY DEF Cons

\* Removing a linked key keeps the list injective and sorted, and unlinks
\* exactly that key.
LEMMA UnlinkKeepsList ==
    ASSUME NEW S, NEW s \in Seq(S), Injective(s),
           NEW n \in 1..Len(s)
    PROVE  /\ RemoveAt(s, n) \in Seq(S)
           /\ Len(RemoveAt(s, n)) = Len(s) - 1
           /\ Injective(RemoveAt(s, n))
           /\ Linked(RemoveAt(s, n)) = Linked(s) \ {s[n]}
           /\ \A f : Sorted(s, f) => Sorted(RemoveAt(s, n), f)
  <1> DEFINE t == RemoveAt(s, n)
             up(i) == IF i < n THEN i ELSE i + 1
  <1>1. /\ t \in Seq(S) /\ Len(t) = Len(s) - 1
        /\ \A i \in 1..(Len(s) - 1) : t[i] = IF i < n THEN s[i] ELSE s[i + 1]
    BY RemoveAtElements
  <1> HIDE DEF t
  <1>2. DOMAIN t = 1..(Len(s) - 1) /\ DOMAIN s = 1..Len(s) /\ Len(s) \in Nat
    BY <1>1
  <1>3. \A i \in DOMAIN t : up(i) \in DOMAIN s /\ t[i] = s[up(i)] /\ up(i) # n
    BY <1>1, <1>2
  <1>4. \A i, j \in DOMAIN t : (i < j <=> up(i) < up(j)) /\ (up(i) = up(j) => i = j)
    BY <1>2
  <1>5. \A i \in DOMAIN s \ {n} : \E j \in DOMAIN t : up(j) = i
    <2> TAKE i \in DOMAIN s \ {n}
    <2>1. CASE i < n
      BY <1>2, <2>1
    <2>2. CASE i > n
      <3>1. i - 1 \in DOMAIN t /\ up(i - 1) = i
        BY <1>2, <2>2
      <3> QED BY <3>1
    <2> QED BY <2>1, <2>2, <1>2
  <1> HIDE DEF up
  <1>6. Injective(t)
    BY <1>3, <1>4 DEF Injective
  <1>7. Linked(t) = Linked(s) \ {s[n]}
    BY <1>2, <1>3, <1>5 DEF Linked, Injective
  <1>8. \A f : Sorted(s, f) => Sorted(t, f)
    BY <1>3, <1>4 DEF Sorted
  <1> QED
    BY <1>1, <1>6, <1>7, <1>8 DEF t

\* Pushing a key that is not linked keeps the list injective; it stays sorted
\* when the new key is used no earlier than the others.
LEMMA PushKeepsList ==
    ASSUME NEW S, NEW s \in Seq(S), Injective(s), NEW k \in S, k \notin Linked(s)
    PROVE  /\ Cons(k, s) \in Seq(S)
           /\ Len(Cons(k, s)) = Len(s) + 1
           /\ Injective(Cons(k, s))
           /\ Linked(Cons(k, s)) = Linked(s) \cup {k}
           /\ \A f : Sorted(s, f) /\ (\A x \in Linked(s) : f[k] >= f[x]) => Sorted(Cons(k, s), f)
  <1> DEFINE t == Cons(k, s)
  <1>1. /\ t \in Seq(S) /\ Len(t) = Len(s) + 1 /\ t[1] = k
        /\ \A i \in 2..(Len(s) + 1) : t[i] = s[i - 1]
    BY ConsElements
  <1> HIDE DEF t
  <1>2. DOMAIN t = 1..(Len(s) + 1) /\ DOMAIN s = 1..Len(s) /\ Len(s) \in Nat
    BY <1>1
  <1>3. \A i \in DOMAIN t : i # 1 => i - 1 \in DOMAIN s /\ t[i] = s[i - 1] /\ t[i] \in Linked(s)
    BY <1>1, <1>2 DEF Linked
  <1>4. \A i \in DOMAIN s : i + 1 \in DOMAIN t /\ t[i + 1] = s[i]
    BY <1>1, <1>2
  <1>5. Injective(t)
    <2> SUFFICES ASSUME NEW i \in DOMAIN t, NEW j \in DOMAIN t, t[i] = t[j]
                 PROVE  i = j
      BY DEF Injective
    <2>1. CASE i = 1
      BY <1>1, <1>3, <2>1
    <2>2. CASE j = 1
      BY <1>1, <1>3, <2>2
    <2>3. CASE i # 1 /\ j # 1
      <3>1. i - 1 = j - 1
        BY <1>3, <2>3 DEF Injective
      <3> QED BY <3>1, <1>2
    <2> QED BY <2>1, <2>2, <2>3
  <1>6. Linked(t) = Linked(s) \cup {k}
    <2>1. \A x \in Linked(t) : x \in Linked(s) \cup {k}
      BY <1>1, <1>3 DEF Linked
    <2>2. 1 \in DOMAIN t
      BY <1>2
    <2>3. \A x \in Linked(s) \cup {k} : x \in Linked(t)
      BY <1>1, <1>4, <2>2 DEF Linked
    <2> QED BY <2>1, <2>3
  <1>7. \A f : Sorted(s, f) /\ (\A x \in Linked(s) : f[k] >= f[x]) => Sorted(t, f)
    <2> SUFFICES ASSUME NEW f, Sorted(s, f), \A x \in Linked(s) : f[k] >= f[x],
                        NEW i \in DOMAIN t, NEW j \in DOMAIN t, i < j
                 PROVE  f[t[i]] >= f[t[j]]
      BY DEF Sorted
    <2>1. j # 1
      BY <1>2
    <2>2. CASE i = 1
      BY <1>1, <1>3, <2>1, <2>2
    <2>3. CASE i # 1
      <3>1. i - 1 < j - 1
        BY <1>2
      <3> QED BY <1>3, <2>1, <2>3, <3>1 DEF Sorted
    <2> QED BY <2>2, <2>3
  <1> QED
    BY <1>1, <1>5, <1>6, <1>7 DEF t

\* Cutting the list at n keeps its front (Resize, and removeOldest).
LEMMA CutKeepsList ==
    ASSUME NEW S, NEW s \in Seq(S), Injective(s), NEW n \in 0..Len(s)
    PROVE  /\ SubSeq(s, 1, n) \in Seq(S)
           /\ Len(SubSeq(s, 1, n)) = n
           /\ Injective(SubSeq(s, 1, n))
           /\ Linked(SubSeq(s, 1, n)) = Linked(s) \ {s[i] : i \in (n + 1)..Len(s)}
           /\ \A f : Sorted(s, f) => Sorted(SubSeq(s, 1, n), f)
  <1> DEFINE t == SubSeq(s, 1, n)
  <1>1. t \in Seq(S) /\ Len(t) = n /\ \A i \in 1..n : t[i] = s[i]
    OBVIOUS
  <1> HIDE DEF t
  <1>2. DOMAIN t = 1..n /\ DOMAIN s = 1..Len(s) /\ Len(s) \in Nat
    BY <1>1
  <1>3. \A i \in DOMAIN t : i \in DOMAIN s /\ t[i] = s[i] /\ i \notin (n + 1)..Len(s)
    BY <1>1, <1>2
  <1>4. \A i \in DOMAIN s : i \notin (n + 1)..Len(s) => i \in DOMAIN t
    BY <1>2
  <1>5. Injective(t)
    BY <1>3 DEF Injective
  <1>6. Linked(t) = Linked(s) \ {s[i] : i \in (n + 1)..Len(s)}
    <2>1. \A x \in Linked(t) : x \in Linked(s) /\ x \notin {s[i] : i \in (n + 1)..Len(s)}
      <3> SUFFICES ASSUME NEW i \in DOMAIN t
                   PROVE  t[i] \in Linked(s) /\ t[i] \notin {s[j] : j \in (n + 1)..Len(s)}
        BY DEF Linked
      <3>1. \A j \in (n + 1)..Len(s) : j \in DOMAIN s /\ j # i
        BY <1>2, <1>3
      <3> QED BY <1>3, <3>1 DEF Linked, Injective
    <2>2. \A x \in Linked(s) : x \notin {s[i] : i \in (n + 1)..Len(s)} => x \in Linked(t)
      BY <1>3, <1>4 DEF Linked
    <2> QED BY <2>1, <2>2
  <1>7. \A f : Sorted(s, f) => Sorted(t, f)
    BY <1>3 DEF Sorted
  <1> QED
    BY <1>1, <1>5, <1>6, <1>7 DEF t

\* An injective list of length n links n keys, so the map's size is the list's.
LEMMA LinkedCardinality ==
    ASSUME NEW S, NEW s \in Seq(S), Injective(s)
    PROVE  Cardinality(Linked(s)) = Len(s)
  <1>1. s \in Bijection(1..Len(s), Linked(s))
    BY DEF Injective, Linked, Bijection, Injection, Surjection, IsInjective
  <1>2. ExistsBijection(1..Len(s), Linked(s))
    BY <1>1 DEF ExistsBijection
  <1> QED
    BY <1>2, FS_CountingElements

------------------------------------------------------------------------------
(***************************************************************************)
(* The inductive invariant.                                                *)
(***************************************************************************)

\* Add makes room before it returns, Resize before it sets the limit.
LengthInv == size > 0 => Len(evictList) =< size

UsedPast == \A k \in Keys : usedAt[k] =< now

\* newestEntry bounds what is in the bucket: that is what the sweeper relies on.
BucketBound == \A k \in Held : items[k].expiresAt =< newestEntry[items[k].expireBucket]

\* Nothing was added to the bucket since the sweeper looked at it.
SweeperInv ==
    /\ sweeper.pc # "tick" => sweeper.bucketIdx = nextCleanupBucket
    /\ sweeper.pc = "sleep" => newestEntry[nextCleanupBucket] =< sweeper.wakeAt
    /\ sweeper.pc = "sweep" => newestEntry[nextCleanupBucket] =< now

\* What ViewsAgree says of the list, and of the buckets.
ListView == Injective(evictList) /\ Linked(evictList) = Held
BucketView == \A b \in Buckets : bucketEntries[b] = {k \in Held : items[k].expireBucket = b}

IInv ==
    /\ TypeOK
    /\ ListView /\ Sorted(evictList, usedAt) /\ LengthInv
    /\ BucketView /\ BucketBound
    /\ UsedPast
    /\ SweeperInv

USE SizesAssumption, TimeAssumption, BucketsAssumption

\* The uint8 arithmetic never wraps for 128 buckets or fewer, and never yields
\* the bucket that is swept next.
LEMMA AddBucketSafe ==
    ASSUME nextCleanupBucket \in Buckets
    PROVE  AddBucket \in Buckets /\ AddBucket # nextCleanupBucket
  <1> DEFINE n == NumBuckets + nextCleanupBucket - 1
  <1>1. n \in 1..254 /\ n % 256 = n
    BY DEF Buckets
  <1>2. CASE nextCleanupBucket = 0
    <2>1. n = NumBuckets - 1 /\ n % NumBuckets = NumBuckets - 1
      BY <1>2
    <2> QED BY <1>1, <1>2, <2>1 DEF AddBucket, Buckets
  <1>3. CASE nextCleanupBucket # 0
    <2>1. n = NumBuckets + (nextCleanupBucket - 1) /\ nextCleanupBucket - 1 \in 0..(NumBuckets - 1)
      BY <1>3 DEF Buckets
    <2>2. n % NumBuckets = nextCleanupBucket - 1
      BY <2>1
    <2> QED BY <1>1, <1>3, <2>1, <2>2 DEF AddBucket, Buckets
  <1> QED BY <1>2, <1>3

\* What filing a value under k does to the map and the buckets, whatever else
\* goes (addToBucket and removeFromBucket together).
LEMMA FileKeeps ==
    ASSUME IInv, NEW k \in Keys, NEW v \in Values, NEW K \in SUBSET (Held \ {k}),
           now + TTL =< MaxTime, file(k, v, K),
           UNCHANGED <<now, nextCleanupBucket, sweeper>>
    PROVE  /\ Held' = (Held \ K) \cup {k} /\ items' \in [Held' -> Entry]
           /\ bucketEntries' \in [Buckets -> SUBSET Keys]
           /\ newestEntry' \in [Buckets -> Times]
           /\ evicted' \subseteq Keys \X Values
           /\ usedAt' \in [Keys -> Times] /\ UsedPast'
           /\ BucketView' /\ BucketBound' /\ SweeperInv'
  <1> DEFINE a == AddBucket
             e == [value |-> v, expiresAt |-> now + TTL, expireBucket |-> a]
  <1>1. a \in Buckets /\ a # nextCleanupBucket
    BY AddBucketSafe DEF IInv, TypeOK
  <1>2. now \in Times /\ now + TTL \in Times /\ e \in Entry
    BY <1>1 DEF IInv, TypeOK, Times, Entry
  <1> HIDE DEF a
  <1>3. items' = [j \in (Held \ K) \cup {k} |-> IF j = k THEN e ELSE items[j]]
    BY DEF file, a
  <1>4. Held' = (Held \ K) \cup {k}
    BY <1>3 DEF Held
  <1>5. items' \in [Held' -> Entry]
    BY <1>2, <1>3, <1>4 DEF IInv, TypeOK
  <1>6. bucketEntries' = [WithoutKeys(K \cup {k}) EXCEPT ![a] = @ \cup {k}]
    BY DEF file, a
  <1>7. \A b \in Buckets : bucketEntries'[b] = {j \in Held' : items'[j].expireBucket = b}
    <2> TAKE b \in Buckets
    <2>1. WithoutKeys(K \cup {k})[b] = {j \in Held \ (K \cup {k}) : items[j].expireBucket = b}
      BY DEF WithoutKeys, IInv, BucketView
    <2>2. bucketEntries'[b] = WithoutKeys(K \cup {k})[b] \cup (IF b = a THEN {k} ELSE {})
      BY <1>1, <1>6 DEF WithoutKeys
    <2>3. \A j \in Held' : items'[j].expireBucket = IF j = k THEN a ELSE items[j].expireBucket
      BY <1>3, <1>4
    <2> QED BY <2>1, <2>2, <2>3, <1>4
  <1>8. bucketEntries' \in [Buckets -> SUBSET Keys]
    BY <1>1, <1>6 DEF WithoutKeys, IInv, TypeOK
  <1>9. newestEntry' = [newestEntry EXCEPT ![a] = IF newestEntry[a] < now + TTL THEN now + TTL ELSE newestEntry[a]]
    BY DEF file, a
  <1>10. newestEntry' \in [Buckets -> Times]
    BY <1>1, <1>2, <1>9 DEF IInv, TypeOK
  <1>11. /\ newestEntry'[a] >= now + TTL
         /\ \A b \in Buckets : newestEntry'[b] >= newestEntry[b]
         /\ newestEntry'[nextCleanupBucket] = newestEntry[nextCleanupBucket]
    BY <1>1, <1>2, <1>9 DEF IInv, TypeOK, Times
  <1>12. BucketBound'
    <2> SUFFICES ASSUME NEW j \in Held'
                 PROVE  items'[j].expiresAt =< newestEntry'[items'[j].expireBucket]
      BY DEF BucketBound
    <2>1. CASE j = k
      BY <2>1, <1>3, <1>4, <1>11
    <2>2. CASE j # k
      <3>1. j \in Held /\ items'[j] = items[j] /\ items[j] \in Entry
        BY <2>2, <1>3, <1>4 DEF IInv, TypeOK
      <3>2. items[j].expiresAt =< newestEntry[items[j].expireBucket]
        BY <3>1 DEF IInv, BucketBound
      <3>3. /\ items[j].expiresAt \in Int /\ newestEntry[items[j].expireBucket] \in Int
            /\ newestEntry'[items[j].expireBucket] \in Int
            /\ newestEntry'[items[j].expireBucket] >= newestEntry[items[j].expireBucket]
        BY <3>1, <1>10, <1>11 DEF Entry, IInv, TypeOK, Times
      <3> QED BY <3>1, <3>2, <3>3
    <2> QED BY <2>1, <2>2
  <1>13. SweeperInv'
    BY <1>11 DEF IInv, SweeperInv
  <1>14. evicted' \subseteq Keys \X Values
    BY DEF file, IInv, TypeOK, Entry
  <1>15. usedAt' \in [Keys -> Times] /\ UsedPast'
    BY <1>2 DEF file, IInv, TypeOK, UsedPast, Times
  <1> QED
    BY <1>4, <1>5, <1>7, <1>8, <1>10, <1>12, <1>13, <1>14, <1>15 DEF BucketView

\* What removing the keys of K does to the map and the buckets (removeElement).
LEMMA RemoveKeeps ==
    ASSUME IInv, NEW K \in SUBSET Held, removeElements(K),
           UNCHANGED <<now, nextCleanupBucket, sweeper, newestEntry, usedAt>>
    PROVE  /\ Held' = Held \ K /\ items' \in [Held' -> Entry]
           /\ bucketEntries' \in [Buckets -> SUBSET Keys]
           /\ evicted' \subseteq Keys \X Values
           /\ UsedPast' /\ BucketView' /\ BucketBound' /\ SweeperInv'
  <1>1. items' = [k \in Held \ K |-> items[k]]
    BY DEF removeElements
  <1>2. Held' = Held \ K
    BY <1>1 DEF Held
  <1>3. items' \in [Held' -> Entry]
    BY <1>1, <1>2 DEF IInv, TypeOK
  <1>4. bucketEntries' = WithoutKeys(K)
    BY DEF removeElements
  <1>5. \A b \in Buckets : bucketEntries'[b] = {j \in Held' : items'[j].expireBucket = b}
    BY <1>1, <1>2, <1>4 DEF WithoutKeys, IInv, BucketView
  <1>6. bucketEntries' \in [Buckets -> SUBSET Keys]
    BY <1>4 DEF WithoutKeys, IInv, TypeOK
  <1>7. BucketBound'
    BY <1>1, <1>2 DEF BucketBound, IInv
  <1>8. evicted' \subseteq Keys \X Values
    BY DEF removeElements, IInv, TypeOK, Entry
  <1>9. UsedPast' /\ SweeperInv'
    BY DEF IInv, UsedPast, SweeperInv
  <1> QED
    BY <1>2, <1>3, <1>5, <1>6, <1>7, <1>8, <1>9 DEF BucketView

\* A held key has a position in the list.
LEMMA PositionOf ==
    ASSUME ListView, evictList \in Seq(Keys), NEW k \in Held
    PROVE  Position(k) \in 1..Len(evictList) /\ evictList[Position(k)] = k
  BY DEF Position, ListView, Linked

\* Unlinking a held key (LruList.Remove) and moving it to the front
\* (LruList.MoveToFront), in the terms of the invariant.
LEMMA UnlinkedKeeps ==
    ASSUME IInv, NEW k \in Held
    PROVE  /\ Unlinked(k) \in Seq(Keys) /\ Len(Unlinked(k)) = Len(evictList) - 1
           /\ Injective(Unlinked(k)) /\ Linked(Unlinked(k)) = Held \ {k}
           /\ Sorted(Unlinked(k), usedAt)
  <1>1. evictList \in Seq(Keys) /\ Injective(evictList) /\ Linked(evictList) = Held
    BY DEF IInv, TypeOK, ListView
  <1>2. Position(k) \in 1..Len(evictList) /\ evictList[Position(k)] = k
    BY <1>1, PositionOf DEF ListView
  <1> QED
    BY <1>1, <1>2, UnlinkKeepsList DEF Unlinked, IInv

LEMMA MovedToFrontKeeps ==
    ASSUME IInv, NEW k \in Held
    PROVE  LET f == [usedAt EXCEPT ![k] = now] IN
           /\ MovedToFront(k) \in Seq(Keys) /\ Len(MovedToFront(k)) = Len(evictList)
           /\ Injective(MovedToFront(k)) /\ Linked(MovedToFront(k)) = Held
           /\ Sorted(MovedToFront(k), f)
  <1> DEFINE f == [usedAt EXCEPT ![k] = now]
             t == Unlinked(k)
  <1>1. /\ t \in Seq(Keys) /\ Len(t) = Len(evictList) - 1 /\ Injective(t)
        /\ Linked(t) = Held \ {k} /\ Sorted(t, usedAt)
    BY UnlinkedKeeps
  <1>2. k \in Keys /\ k \notin Linked(t) /\ Held \subseteq Keys /\ evictList \in Seq(Keys)
    BY <1>1 DEF IInv, TypeOK
  <1>3. usedAt \in [Keys -> Times] /\ now \in Times /\ UsedPast
    BY DEF IInv, TypeOK
  <1>4. \A x \in Linked(t) : f[k] >= f[x] /\ f[x] = usedAt[x]
    BY <1>1, <1>2, <1>3 DEF UsedPast, Times
  <1>5. Sorted(t, f)
    BY <1>1, <1>4 DEF Sorted, Linked
  <1>6. Cons(k, t) = MovedToFront(k)
    BY DEF MovedToFront
  <1> HIDE DEF f, t
  <1>7. /\ Cons(k, t) \in Seq(Keys) /\ Len(Cons(k, t)) = Len(t) + 1
        /\ Injective(Cons(k, t)) /\ Linked(Cons(k, t)) = Linked(t) \cup {k}
        /\ Sorted(Cons(k, t), f)
    BY <1>1, <1>2, <1>4, <1>5, PushKeepsList
  <1> QED
    BY <1>1, <1>2, <1>6, <1>7 DEF f

\* The same for a new key pushed on a list t of other keys.
LEMMA PushedKeeps ==
    ASSUME IInv, NEW k \in Keys, NEW t \in Seq(Keys), Injective(t),
           k \notin Linked(t), Sorted(t, usedAt)
    PROVE  LET f == [usedAt EXCEPT ![k] = now] IN
           /\ Cons(k, t) \in Seq(Keys) /\ Len(Cons(k, t)) = Len(t) + 1
           /\ Injective(Cons(k, t)) /\ Linked(Cons(k, t)) = Linked(t) \cup {k}
           /\ Sorted(Cons(k, t), f)
  <1> DEFINE f == [usedAt EXCEPT ![k] = now]
  <1>1. usedAt \in [Keys -> Times] /\ now \in Times /\ UsedPast /\ Linked(t) \subseteq Keys
    BY DEF IInv, TypeOK, Linked
  <1>2. \A x \in Linked(t) : f[k] >= f[x] /\ f[x] = usedAt[x]
    BY <1>1 DEF UsedPast, Times
  <1>3. Sorted(t, f)
    BY <1>2 DEF Sorted, Linked
  <1> HIDE DEF f
  <1>4. /\ Cons(k, t) \in Seq(Keys) /\ Len(Cons(k, t)) = Len(t) + 1
        /\ Injective(Cons(k, t)) /\ Linked(Cons(k, t)) = Linked(t) \cup {k}
        /\ Sorted(Cons(k, t), f)
    BY <1>2, <1>3, PushKeepsList
  <1> QED
    BY <1>4 DEF f

\* Dropping the back of the list (removeOldest).
LEMMA FrontKeeps ==
    ASSUME IInv, evictList # <<>>
    PROVE  /\ Front(evictList) \in Seq(Keys) /\ Len(Front(evictList)) = Len(evictList) - 1
           /\ Injective(Front(evictList)) /\ Linked(Front(evictList)) = Held \ {Back}
           /\ Sorted(Front(evictList), usedAt) /\ Back \in Held
  <1>1. /\ evictList \in Seq(Keys) /\ Injective(evictList) /\ Linked(evictList) = Held
        /\ Sorted(evictList, usedAt) /\ Len(evictList) \in Nat \ {0}
    BY SMTT(60) DEF IInv, TypeOK, ListView
  <1>2. PICK n \in Nat : Len(evictList) = n + 1
    <2>1. Len(evictList) - 1 \in Nat /\ Len(evictList) = (Len(evictList) - 1) + 1
      BY <1>1
    <2> QED BY <2>1
  <1>3. n \in 0..Len(evictList)
    BY <1>2
  <1>4. LET t == SubSeq(evictList, 1, n) IN
        /\ t \in Seq(Keys) /\ Len(t) = n /\ Injective(t)
        /\ Linked(t) = Linked(evictList) \ {evictList[i] : i \in (n + 1)..Len(evictList)}
        /\ Sorted(t, usedAt)
    BY <1>1, <1>3, CutKeepsList
  <1>5. {evictList[i] : i \in (n + 1)..Len(evictList)} = {Back}
    BY <1>2 DEF Back
  <1>6. Front(evictList) = SubSeq(evictList, 1, n)
    BY <1>2 DEF Front
  <1>7. Back \in Held
    BY <1>1 DEF Back, Linked
  <1> QED
    BY <1>1, <1>2, <1>4, <1>5, <1>6, <1>7

------------------------------------------------------------------------------
(***************************************************************************)
(* The invariant is inductive.                                             *)
(***************************************************************************)

LEMMA InitInv == Init => IInv
  <1> SUFFICES ASSUME Init PROVE IInv
    OBVIOUS
  <1>1. TypeOK
    BY DEF Init, TypeOK, Times, Buckets, Held, Entry, Sweeper
  <1>2. ListView /\ Sorted(evictList, usedAt) /\ LengthInv
    BY DEF Init, ListView, Injective, Linked, Held, Sorted, LengthInv
  <1>3. BucketView /\ BucketBound /\ UsedPast /\ SweeperInv
    BY DEF Init, BucketView, BucketBound, UsedPast, SweeperInv, Held
  <1> QED
    BY <1>1, <1>2, <1>3 DEF IInv

LEMMA NextInv == IInv /\ [Next]_vars => IInv'
  <1> SUFFICES ASSUME IInv, [Next]_vars PROVE IInv'
    OBVIOUS
  <1> USE DEF Held
  <1>t. TypeOK /\ ListView /\ Sorted(evictList, usedAt) /\ LengthInv /\ UsedPast
    BY DEF IInv
  <1>n. Len(evictList) \in Nat /\ size \in Nat
    BY <1>t DEF TypeOK
  <1>1. ASSUME NEW k \in Keys, NEW v \in Values, AddExisting(k, v)
        PROVE  IInv'
    <2>1. now + TTL =< MaxTime /\ file(k, v, {}) /\ UNCHANGED <<now, size, nextCleanupBucket, sweeper>>
      BY <1>1 DEF AddExisting
    <2>2. k \in Held /\ evictList' = MovedToFront(k) /\ usedAt' = [usedAt EXCEPT ![k] = now]
      BY <1>1 DEF AddExisting, file
    <2>e. {} \in SUBSET (Held \ {k}) /\ (Held \ {}) \cup {k} = Held \cup {k}
      OBVIOUS
    <2>3. /\ Held' = Held \cup {k} /\ items' \in [Held' -> Entry]
          /\ bucketEntries' \in [Buckets -> SUBSET Keys] /\ newestEntry' \in [Buckets -> Times]
          /\ evicted' \subseteq Keys \X Values /\ usedAt' \in [Keys -> Times]
          /\ UsedPast' /\ BucketView' /\ BucketBound' /\ SweeperInv'
      BY <2>1, <2>e, FileKeeps
    <2>4. /\ evictList' \in Seq(Keys) /\ Len(evictList') = Len(evictList)
          /\ Injective(evictList') /\ Linked(evictList') = Held
          /\ Sorted(evictList', usedAt')
      BY <2>2, MovedToFrontKeeps
    <2>5. TypeOK'
      BY <1>t, <2>1, <2>3, <2>4 DEF TypeOK
    <2>6. ListView' /\ LengthInv'
      BY <1>t, <2>1, <2>2, <2>3, <2>4 DEF ListView, LengthInv
    <2> QED BY <2>3, <2>4, <2>5, <2>6 DEF IInv
  <1>2. ASSUME NEW k \in Keys, NEW v \in Values, AddNew(k, v)
        PROVE  IInv'
    <2>1. now + TTL =< MaxTime /\ file(k, v, {}) /\ UNCHANGED <<now, size, nextCleanupBucket, sweeper>>
      BY <1>2 DEF AddNew
    <2>2. /\ k \notin Held /\ evictList' = Cons(k, evictList) /\ ~Full
          /\ usedAt' = [usedAt EXCEPT ![k] = now]
      BY <1>2 DEF AddNew, file
    <2>e. {} \in SUBSET (Held \ {k}) /\ (Held \ {}) \cup {k} = Held \cup {k}
      OBVIOUS
    <2>3. /\ Held' = Held \cup {k} /\ items' \in [Held' -> Entry]
          /\ bucketEntries' \in [Buckets -> SUBSET Keys] /\ newestEntry' \in [Buckets -> Times]
          /\ evicted' \subseteq Keys \X Values /\ usedAt' \in [Keys -> Times]
          /\ UsedPast' /\ BucketView' /\ BucketBound' /\ SweeperInv'
      BY <2>1, <2>e, FileKeeps
    <2>4. evictList \in Seq(Keys) /\ Injective(evictList) /\ Linked(evictList) = Held
      BY <1>t DEF TypeOK, ListView
    <2>5. /\ evictList' \in Seq(Keys) /\ Len(evictList') = Len(evictList) + 1
          /\ Injective(evictList') /\ Linked(evictList') = Held \cup {k}
          /\ Sorted(evictList', usedAt')
      BY <1>t, <2>2, <2>4, PushedKeeps
    <2>6. TypeOK'
      BY <1>t, <2>1, <2>3, <2>5 DEF TypeOK
    <2>7. ListView' /\ LengthInv'
      BY <1>n, <2>1, <2>2, <2>3, <2>5 DEF ListView, LengthInv, Full
    <2> QED BY <2>3, <2>5, <2>6, <2>7 DEF IInv
  <1>3. ASSUME NEW k \in Keys, NEW v \in Values, AddEvict(k, v)
        PROVE  IInv'
    <2> DEFINE t == Front(evictList)
    <2>1. /\ now + TTL =< MaxTime /\ file(k, v, {Back}) /\ evictList # <<>>
          /\ UNCHANGED <<now, size, nextCleanupBucket, sweeper>>
      BY <1>3 DEF AddEvict
    <2>2. /\ k \notin Held /\ evictList' = Cons(k, t)
          /\ usedAt' = [usedAt EXCEPT ![k] = now]
      BY <1>3 DEF AddEvict, file
    <2>3. /\ t \in Seq(Keys) /\ Len(t) = Len(evictList) - 1 /\ Injective(t)
          /\ Linked(t) = Held \ {Back} /\ Sorted(t, usedAt) /\ Back \in Held
      BY <2>1, FrontKeeps
    <2> HIDE DEF t
    <2>4. {Back} \in SUBSET (Held \ {k})
      BY <2>2, <2>3
    <2>5. /\ Held' = (Held \ {Back}) \cup {k} /\ items' \in [Held' -> Entry]
          /\ bucketEntries' \in [Buckets -> SUBSET Keys] /\ newestEntry' \in [Buckets -> Times]
          /\ evicted' \subseteq Keys \X Values /\ usedAt' \in [Keys -> Times]
          /\ UsedPast' /\ BucketView' /\ BucketBound' /\ SweeperInv'
      BY <2>1, <2>4, FileKeeps
    <2>6. /\ evictList' \in Seq(Keys) /\ Len(evictList') = Len(t) + 1
          /\ Injective(evictList') /\ Linked(evictList') = Linked(t) \cup {k}
          /\ Sorted(evictList', usedAt')
      BY <2>2, <2>3, PushedKeeps
    <2>7. TypeOK'
      BY <1>t, <2>1, <2>5, <2>6 DEF TypeOK
    <2>8. ListView' /\ LengthInv'
      BY <1>t, <1>n, <2>1, <2>3, <2>5, <2>6 DEF ListView, LengthInv
    <2> QED BY <2>5, <2>6, <2>7, <2>8 DEF IInv
  <1>4. ASSUME NEW k \in Keys, Get(k)
        PROVE  IInv'
    <2>1. /\ k \in Held /\ evictList' = MovedToFront(k) /\ usedAt' = [usedAt EXCEPT ![k] = now]
          /\ UNCHANGED <<now, size, items, bucketEntries, newestEntry, nextCleanupBucket, sweeper, evicted>>
      BY <1>4 DEF Get
    <2>2. /\ evictList' \in Seq(Keys) /\ Len(evictList') = Len(evictList)
          /\ Injective(evictList') /\ Linked(evictList') = Held
          /\ Sorted(evictList', usedAt')
      BY <2>1, MovedToFrontKeeps
    <2>3. TypeOK'
      BY <1>t, <2>1, <2>2 DEF TypeOK
    <2>4. ListView' /\ LengthInv' /\ BucketView' /\ BucketBound' /\ SweeperInv'
      BY <2>1, <2>2 DEF IInv, ListView, LengthInv, BucketView, BucketBound, SweeperInv
    <2>5. UsedPast'
      BY <1>t, <2>1 DEF UsedPast, TypeOK, Times
    <2> QED BY <2>2, <2>3, <2>4, <2>5 DEF IInv
  <1>5. ASSUME NEW k \in Held, removeElements({k}), evictList' = Unlinked(k),
               UNCHANGED <<now, size, newestEntry, nextCleanupBucket, sweeper, usedAt>>
        PROVE  IInv'
    <2>1. /\ Held' = Held \ {k} /\ items' \in [Held' -> Entry]
          /\ bucketEntries' \in [Buckets -> SUBSET Keys] /\ evicted' \subseteq Keys \X Values
          /\ UsedPast' /\ BucketView' /\ BucketBound' /\ SweeperInv'
      BY <1>5, RemoveKeeps
    <2>2. /\ evictList' \in Seq(Keys) /\ Len(evictList') = Len(evictList) - 1
          /\ Injective(evictList') /\ Linked(evictList') = Held \ {k}
          /\ Sorted(evictList', usedAt')
      BY <1>5, UnlinkedKeeps
    <2>3. TypeOK'
      BY <1>t, <1>5, <2>1, <2>2 DEF TypeOK
    <2>4. ListView' /\ LengthInv'
      BY <1>t, <1>n, <1>5, <2>1, <2>2 DEF ListView, LengthInv
    <2> QED BY <2>1, <2>2, <2>3, <2>4 DEF IInv
  <1>6. ASSUME NEW k \in Keys, RemoveKey(k)
        PROVE  IInv'
    BY <1>5, <1>6 DEF RemoveKey
  <1>7. CASE RemoveOldest
    <2>1. /\ removeElements({Back}) /\ evictList # <<>> /\ evictList' = Front(evictList)
          /\ UNCHANGED <<now, size, newestEntry, nextCleanupBucket, sweeper, usedAt>>
      BY <1>7 DEF RemoveOldest
    <2>2. /\ evictList' \in Seq(Keys) /\ Len(evictList') = Len(evictList) - 1
          /\ Injective(evictList') /\ Linked(evictList') = Held \ {Back}
          /\ Sorted(evictList', usedAt') /\ Back \in Held
      BY <2>1, FrontKeeps
    <2>3. /\ Held' = Held \ {Back} /\ items' \in [Held' -> Entry]
          /\ bucketEntries' \in [Buckets -> SUBSET Keys] /\ evicted' \subseteq Keys \X Values
          /\ UsedPast' /\ BucketView' /\ BucketBound' /\ SweeperInv'
      BY <2>1, <2>2, RemoveKeeps
    <2>4. TypeOK'
      BY <1>t, <2>1, <2>2, <2>3 DEF TypeOK
    <2>5. ListView' /\ LengthInv'
      BY <1>t, <1>n, <2>1, <2>2, <2>3 DEF ListView, LengthInv
    <2> QED BY <2>2, <2>3, <2>4, <2>5 DEF IInv
  <1>8. CASE Purge
    <2>1. TypeOK'
      BY <1>t, <1>8 DEF Purge, TypeOK, Entry
    <2>2. ListView' /\ Sorted(evictList', usedAt') /\ LengthInv'
      BY <1>n, <1>8 DEF Purge, ListView, Injective, Linked, Sorted, LengthInv
    <2>3. BucketView' /\ BucketBound' /\ UsedPast' /\ SweeperInv'
      BY <1>8 DEF Purge, IInv, BucketView, BucketBound, UsedPast, SweeperInv
    <2> QED BY <2>1, <2>2, <2>3 DEF IInv
  <1>9. ASSUME NEW n \in Sizes, Resize(n)
        PROVE  IInv'
    <2> DEFINE keep == IF n = 0 \/ Len(evictList) =< n THEN Len(evictList) ELSE n
               gone == {evictList[i] : i \in (keep + 1)..Len(evictList)}
    <2>1. /\ removeElements(gone) /\ evictList' = SubSeq(evictList, 1, keep) /\ size' = n
          /\ UNCHANGED <<now, newestEntry, nextCleanupBucket, sweeper, usedAt>>
      BY <1>9 DEF Resize
    <2>2. evictList \in Seq(Keys) /\ Injective(evictList) /\ Linked(evictList) = Held
      BY <1>t DEF TypeOK, ListView
    <2>3. keep \in 0..Len(evictList) /\ (n > 0 => keep =< n) /\ n \in Nat
      BY <1>n
    <2>4. gone \in SUBSET Held
      <3>1. \A i \in (keep + 1)..Len(evictList) : i \in DOMAIN evictList
        BY <2>2, <2>3
      <3> QED BY <2>2, <3>1 DEF Linked
    <2> HIDE DEF keep
    <2>5. /\ evictList' \in Seq(Keys) /\ Len(evictList') = keep
          /\ Injective(evictList') /\ Linked(evictList') = Held \ gone
          /\ Sorted(evictList', usedAt')
      BY <1>t, <2>1, <2>2, <2>3, CutKeepsList
    <2> HIDE DEF gone
    <2>6. /\ Held' = Held \ gone /\ items' \in [Held' -> Entry]
          /\ bucketEntries' \in [Buckets -> SUBSET Keys] /\ evicted' \subseteq Keys \X Values
          /\ UsedPast' /\ BucketView' /\ BucketBound' /\ SweeperInv'
      BY <2>1, <2>4, RemoveKeeps
    <2>7. TypeOK'
      BY <1>t, <2>1, <2>5, <2>6 DEF TypeOK
    <2>8. ListView' /\ LengthInv'
      BY <2>1, <2>3, <2>5, <2>6 DEF ListView, LengthInv
    <2> QED BY <2>5, <2>6, <2>7, <2>8 DEF IInv
  <1>10. CASE SweepStart
    <2>1. UNCHANGED <<now, size, items, evictList, bucketEntries, newestEntry, nextCleanupBucket, evicted, usedAt>>
      BY <1>10 DEF SweepStart, cacheVars
    <2>2. sweeper \in Sweeper /\ newestEntry[nextCleanupBucket] \in Times /\ now \in Times
      BY <1>t DEF TypeOK
    <2>5. TypeOK' /\ SweeperInv'
      <3>3. CASE newestEntry[nextCleanupBucket] > now
        <4>1. sweeper' = [pc |-> "sleep", bucketIdx |-> nextCleanupBucket,
                          wakeAt |-> newestEntry[nextCleanupBucket]]
          BY <1>10, <3>3 DEF SweepStart
        <4>2. TypeOK'
          BY <1>t, <2>1, <2>2, <4>1 DEF TypeOK, Sweeper
        <4> QED BY <2>1, <2>2, <4>1, <4>2 DEF SweeperInv, Times
      <3>4. CASE ~(newestEntry[nextCleanupBucket] > now)
        <4>1. sweeper' = [sweeper EXCEPT !.pc = "sweep", !.bucketIdx = nextCleanupBucket]
          BY <1>10, <3>4 DEF SweepStart
        <4>2. TypeOK'
          BY <1>t, <2>1, <2>2, <4>1 DEF TypeOK, Sweeper
        <4> QED BY <2>1, <2>2, <3>4, <4>1, <4>2 DEF SweeperInv, Times, Sweeper
      <3> QED BY <3>3, <3>4
    <2> QED
      BY <2>1, <2>5 DEF IInv, ListView, LengthInv, BucketView, BucketBound, UsedPast, Sorted, Injective, Linked
  <1>11. CASE SweepWake
    <2>1. UNCHANGED <<now, size, items, evictList, bucketEntries, newestEntry, nextCleanupBucket, evicted, usedAt>>
      BY <1>11 DEF SweepWake, cacheVars
    <2>2. TypeOK'
      BY <1>t, <1>11, <2>1 DEF SweepWake, TypeOK, Sweeper
    <2>3. SweeperInv'
      <3>1. now \in Int /\ sweeper.wakeAt \in Int /\ newestEntry[nextCleanupBucket] \in Int
        BY <1>t DEF TypeOK, Sweeper, Times
      <3> QED BY <1>t, <1>11, <2>1, <3>1 DEF SweepWake, SweeperInv, IInv, TypeOK, Sweeper
    <2> QED
      BY <2>1, <2>2, <2>3 DEF IInv, ListView, LengthInv, BucketView, BucketBound, UsedPast, Sorted, Injective, Linked
  <1>12. ASSUME NEW k \in Keys, SweepRemove(k)
         PROVE  IInv'
    <2>1. k \in Held
      BY <1>t, <1>12 DEF SweepRemove, IInv, BucketView, TypeOK, Sweeper
    <2> QED BY <1>5, <1>12, <2>1 DEF SweepRemove
  <1>13. CASE SweepDone
    <2>1. UNCHANGED <<now, size, items, evictList, bucketEntries, newestEntry, evicted, usedAt>>
      BY <1>13 DEF SweepDone
    <2>2. nextCleanupBucket' \in Buckets
      <3>1. nextCleanupBucket \in Nat /\ nextCleanupBucket + 1 \in Nat
        BY <1>t DEF TypeOK, Buckets
      <3> QED BY <1>13, <3>1 DEF SweepDone, Buckets
    <2>3. TypeOK' /\ SweeperInv'
      BY <1>t, <1>13, <2>1, <2>2 DEF SweepDone, TypeOK, Sweeper, SweeperInv
    <2> QED
      BY <2>1, <2>3 DEF IInv, ListView, LengthInv, BucketView, BucketBound, UsedPast, Sorted, Injective, Linked
  <1>14. CASE Tick
    <2>1. /\ UNCHANGED <<size, items, evictList, bucketEntries, newestEntry, nextCleanupBucket, evicted, usedAt, sweeper>>
          /\ now' = now + 1 /\ now < MaxTime
      BY <1>14 DEF Tick, cacheVars
    <2>2. TypeOK' /\ now \in Int
      BY <1>t, <2>1 DEF TypeOK, Times
    <2>3. UsedPast' /\ SweeperInv'
      BY <1>t, <2>1, <2>2 DEF IInv, UsedPast, SweeperInv, TypeOK, Times, Sweeper
    <2> QED
      BY <2>1, <2>2, <2>3 DEF IInv, ListView, LengthInv, BucketView, BucketBound, Sorted, Injective, Linked
  <1>15. CASE UNCHANGED vars
    BY <1>15 DEF vars, cacheVars, IInv, TypeOK, ListView, LengthInv, BucketView, BucketBound,
                 UsedPast, SweeperInv, Sorted, Injective, Linked
  <1> QED
    BY <1>1, <1>2, <1>3, <1>4, <1>6, <1>7, <1>8, <1>9, <1>10, <1>11, <1>12, <1>13, <1>14, <1>15
       DEF Next, Sweep

LEMMA Invariance == Spec => []IInv
  BY InitInv, NextInv, PTL DEF Spec

------------------------------------------------------------------------------
(***************************************************************************)
(* The theorems.                                                           *)
(***************************************************************************)

\* Every variable keeps its type: in particular the uint8 bucket index stays
\* an index, whatever the number of buckets up to 128 (addToBucket).
THEOREM Typing == Spec => []TypeOK
  BY Invariance, PTL DEF IInv

\* The map, the list and the buckets always describe the same entries, between
\* the sweeper's removals too (removeElement, addToBucket, removeFromBucket).
THEOREM Views == Spec => []ViewsAgree
  <1>1. IInv => ViewsAgree
    BY DEF IInv, ListView, BucketView, ViewsAgree, Injective, Linked
  <1> QED BY <1>1, Invariance, PTL

\* What goes first is always what was used longest ago (MoveToFront, Back).
THEOREM Recency == Spec => []RecencyOrder
  <1>1. IInv => RecencyOrder
    BY DEF IInv, RecencyOrder, Sorted
  <1> QED BY <1>1, Invariance, PTL

\* The abstract module's Cardinality is this one's.
LEMMA SameCardinality == \A S : Abstract!Cardinality(S) = Cardinality(S)
  BY DEF Abstract!Cardinality, Cardinality

\* The cache never holds more than its size (Add, Resize).
THEOREM Capacity == Spec => []WithinCapacity
  <1>1. ASSUME IInv PROVE WithinCapacity
    <2>1. Cardinality(Held) = Len(evictList)
      BY <1>1, LinkedCardinality DEF IInv, TypeOK, ListView
    <2>2. Abstract!Held = Held
      BY DEF Abstract!Held
    <2>3. size > 0 => Cardinality(Held) =< size
      BY <1>1, <2>1 DEF IInv, LengthInv
    <2> QED
      BY <2>2, <2>3, SameCardinality DEF WithinCapacity, Abstract!Bounded
  <1> QED BY <1>1, Invariance, PTL

\* The sweeper removes only entries whose time has come, although it sleeps
\* without the mutex between looking at the bucket and emptying it.
THEOREM SweepsOnlyExpired == Spec => SweepOnlyExpired
  <1> DEFINE A == sweeper.pc = "sweep" => \A k \in Held \ DOMAIN items' : now >= items[k].expiresAt
  <1>1. ASSUME IInv, Next, sweeper.pc = "sweep", NEW k \in Held \ DOMAIN items'
        PROVE  now >= items[k].expiresAt
    <2>1. \A j \in Keys : ~AddExisting(j, items[k].value) /\ ~Get(j) /\ ~RemoveKey(j)
      BY <1>1 DEF AddExisting, Get, RemoveKey, Unlocked
    <2>2. \A j \in Keys, v \in Values : ~AddExisting(j, v) /\ ~AddNew(j, v) /\ ~AddEvict(j, v)
      BY <1>1 DEF AddExisting, AddNew, AddEvict, Unlocked
    <2>3. ~RemoveOldest /\ ~Purge /\ ~SweepStart /\ ~SweepWake /\ \A n \in Sizes : ~Resize(n)
      BY <1>1 DEF RemoveOldest, Purge, Resize, Unlocked, SweepStart, SweepWake
    <2>4. ~SweepDone /\ ~Tick
      BY <1>1 DEF SweepDone, Tick, cacheVars, Held
    <2>5. PICK j \in Keys : SweepRemove(j)
      BY <1>1, <2>1, <2>2, <2>3, <2>4 DEF Next, Sweep
    <2>6. k = j
      <3>1. DOMAIN items' = Held \ {j}
        BY <2>5 DEF SweepRemove, removeElements
      <3> QED BY <1>1, <3>1
    <2>7. items[k].expireBucket = nextCleanupBucket /\ newestEntry[nextCleanupBucket] =< now
      <3>1. sweeper.bucketIdx = nextCleanupBucket /\ newestEntry[nextCleanupBucket] =< now
        BY <1>1 DEF IInv, SweeperInv
      <3>2. k \in bucketEntries[nextCleanupBucket] /\ nextCleanupBucket \in Buckets
        BY <1>1, <2>5, <2>6, <3>1 DEF SweepRemove, IInv, TypeOK
      <3> QED BY <1>1, <3>1, <3>2 DEF IInv, BucketView
    <2>8. items[k].expiresAt =< newestEntry[nextCleanupBucket] /\ items[k] \in Entry
      BY <1>1, <2>7 DEF IInv, BucketBound, TypeOK
    <2> QED BY <1>1, <2>7, <2>8 DEF IInv, TypeOK, Entry, Times
  <1>2. IInv /\ [Next]_vars => [A]_vars
    BY <1>1
  <1> QED BY <1>2, Invariance, PTL DEF Spec, SweepOnlyExpired

------------------------------------------------------------------------------
(***************************************************************************)
(* LRU implements ExpiringCache.                                           *)
(***************************************************************************)

\* The entry of a key as ExpiringCache sees it.
Seen(k) == [value |-> items[k].value, age |-> AgeOf(k)]
SeenStore == [k \in Held |-> Seen(k)]

\* The abstract store after v is filed under k and the keys of K are gone, and
\* what the callback is told of them.
SeenFiled(k, v, K) ==
    [j \in (Held \ K) \cup {k} |-> IF j = k THEN [value |-> v, age |-> 0] ELSE SeenStore[j]]
SeenGone(K) == {<<j, SeenStore[j].value>> : j \in K}

USE DEF Abstract!Fresh, Abstract!Due, Abstract!Past

\* A value filed under k is fresh, and the other entries do not age.
LEMMA SeenAfterFile ==
    ASSUME IInv, NEW k \in Keys, NEW v \in Values, NEW K \in SUBSET (Held \ {k}),
           now + TTL =< MaxTime, file(k, v, K), now' = now
    PROVE  SeenStore' = SeenFiled(k, v, K) /\ evicted' = SeenGone(K)
  <1>1. items' = [j \in (Held \ K) \cup {k} |->
                     IF j = k THEN [value |-> v, expiresAt |-> now + TTL,
                                    expireBucket |-> AddBucket]
                              ELSE items[j]]
    BY DEF file
  <1>2. Held' = (Held \ K) \cup {k}
    BY <1>1 DEF Held
  <1>3. items'[k].value = v /\ items'[k].expiresAt = now + TTL
    BY <1>1
  <1>4. ~(now > now + TTL) /\ now # now + TTL
    BY DEF IInv, TypeOK, Times
  <1>5. Seen(k)' = [value |-> v, age |-> 0]
    BY <1>3, <1>4 DEF Seen, AgeOf, Expired
  <1>6. \A j \in Held \ (K \cup {k}) : Seen(j)' = Seen(j)
    BY <1>1 DEF Seen, AgeOf, Expired
  <1>7. SeenStore' = [j \in Held' |-> Seen(j)']
    BY DEF SeenStore
  <1>8. \A j \in Held : SeenStore[j] = Seen(j)
    BY DEF SeenStore
  <1>9. SeenStore' = [j \in (Held \ K) \cup {k} |->
                         IF j = k THEN [value |-> v, age |-> 0] ELSE SeenStore[j]]
    BY <1>2, <1>5, <1>6, <1>7, <1>8
  <1>10. evicted' = {<<j, items[j].value>> : j \in K}
    BY DEF file
  <1>11. \A j \in K : SeenStore[j].value = items[j].value
    <2>1. \A j \in Held : Seen(j).value = items[j].value
      BY DEF Seen
    <2>2. K \subseteq Held
      OBVIOUS
    <2> QED BY <1>8, <2>1, <2>2
  <1> QED BY <1>9, <1>10, <1>11 DEF SeenFiled, SeenGone

\* Removing the keys of K is the abstract cache's Release.
LEMMA SeenAfterRemove ==
    ASSUME NEW K \in SUBSET Held, removeElements(K), now' = now
    PROVE  Abstract!Release(K)
  <1>1. items' = [k \in Held \ K |-> items[k]] /\ evicted' = {<<k, items[k].value>> : k \in K}
    BY DEF removeElements
  <1>2. Held' = Held \ K
    BY <1>1 DEF Held
  <1>3. \A k \in Held \ K : Seen(k)' = Seen(k)
    BY <1>1 DEF Seen, AgeOf, Expired
  <1>4. SeenStore' = [k \in Held \ K |-> SeenStore[k]]
    BY <1>2, <1>3 DEF SeenStore
  <1>5. \A k \in K : SeenStore[k].value = items[k].value
    BY DEF SeenStore, Seen
  <1>6. Abstract!Held = Held
    BY DEF Abstract!Held
  <1>7. evicted' = {<<k, SeenStore[k].value>> : k \in K}
    BY <1>1, <1>5
  <1>8. Abstract!Release(K) =
           (/\ SeenStore' = [k \in Abstract!Held \ K |-> SeenStore[k]]
            /\ evicted' = {<<k, SeenStore[k].value>> : k \in K})
    BY DEF Abstract!Release, SeenStore, Seen
  <1> QED BY <1>4, <1>6, <1>7, <1>8

\* Every step of the cache is a step of the abstract cache or a stutter.
LEMMA StepRefines ==
    ASSUME IInv, [Next]_vars
    PROVE  [Abstract!Next]_(Abstract!vars)
  <1>a. Abstract!Held = Held /\ Held \subseteq Keys /\ evictList \in Seq(Keys)
    BY DEF Abstract!Held, IInv, TypeOK
  <1>b. size \in Nat /\ Cardinality(Held) = Len(evictList) /\ Len(evictList) \in Nat
    BY LinkedCardinality DEF IInv, TypeOK, ListView
  <1>s. ASSUME UNCHANGED <<now, size, items, evicted>>
        PROVE  UNCHANGED Abstract!vars
    BY <1>s DEF Abstract!vars, Held, AgeOf, Expired
  <1>d. ASSUME NEW K \in SUBSET Held, removeElements(K), UNCHANGED <<now, size>>
        PROVE  Abstract!Next
    <2>1. Abstract!Drop(K)
      BY <1>a, <1>d, SeenAfterRemove DEF Abstract!Drop
    <2> QED BY <1>a, <2>1 DEF Abstract!Next
  <1>1. ASSUME NEW k \in Keys, NEW v \in Values, AddExisting(k, v)
        PROVE  Abstract!Next
    <2>1. k \in Held /\ {} \in SUBSET (Held \ {k}) /\ (Held \ {}) \cup {k} = Held
      BY <1>1 DEF AddExisting
    <2>2. now + TTL =< MaxTime /\ file(k, v, {}) /\ UNCHANGED <<now, size>>
      BY <1>1 DEF AddExisting
    <2>3. SeenStore' = SeenFiled(k, v, {}) /\ evicted' = SeenGone({})
      BY <2>1, <2>2, SeenAfterFile
    <2>4. evicted' = {}
      BY <2>3 DEF SeenGone
    <2>5. SeenStore' = [SeenStore EXCEPT ![k] = [value |-> v, age |-> 0]]
      BY <2>1, <2>3 DEF SeenStore, SeenFiled
    <2>6. Abstract!Renew(k, v) =
             (k \in Abstract!Held /\ SeenStore' = [SeenStore EXCEPT ![k] = [value |-> v, age |-> 0]]
              /\ evicted' = {} /\ UNCHANGED size)
      BY DEF Abstract!Renew, SeenStore, Seen
    <2> QED BY <1>a, <2>1, <2>2, <2>4, <2>5, <2>6 DEF Abstract!Next, Abstract!Put
  <1>i. ASSUME NEW k \in Keys, NEW v \in Values, NEW K \in SUBSET Held, k \notin Held,
               now + TTL =< MaxTime, file(k, v, K), UNCHANGED <<now, size>>,
               IF size = 0 \/ Cardinality(Held) < size THEN K = {} ELSE Cardinality(K) = 1
        PROVE  Abstract!Next
    <2>1. K \in SUBSET (Held \ {k})
      BY <1>i
    <2>2. SeenStore' = SeenFiled(k, v, K) /\ evicted' = SeenGone(K)
      BY <1>i, <2>1, SeenAfterFile
    <2>3. Abstract!Insert(k, v) =
             (/\ k \notin Abstract!Held
              /\ \E gone \in SUBSET Abstract!Held :
                    /\ IF size = 0 \/ Abstract!Cardinality(Abstract!Held) < size
                          THEN gone = {} ELSE Abstract!Cardinality(gone) = 1
                    /\ SeenStore' = [j \in (Abstract!Held \ gone) \cup {k} |->
                                        IF j = k THEN [value |-> v, age |-> 0] ELSE SeenStore[j]]
                    /\ evicted' = {<<j, SeenStore[j].value>> : j \in gone}
              /\ UNCHANGED size)
      BY DEF Abstract!Insert, SeenStore, Seen
    <2>4. Abstract!Insert(k, v)
      BY <1>a, <1>i, <2>2, <2>3, SameCardinality DEF SeenFiled, SeenGone
    <2> QED BY <2>4 DEF Abstract!Next, Abstract!Put
  <1>2. ASSUME NEW k \in Keys, NEW v \in Values, AddNew(k, v)
        PROVE  Abstract!Next
    <2>1. size = 0 \/ Cardinality(Held) < size
      BY <1>2, <1>b DEF AddNew, Full
    <2> QED BY <1>2, <1>i, <2>1 DEF AddNew
  <1>3. ASSUME NEW k \in Keys, NEW v \in Values, AddEvict(k, v)
        PROVE  Abstract!Next
    <2>1. ~(size = 0 \/ Cardinality(Held) < size)
      BY <1>3, <1>b DEF AddEvict, Full
    <2>2. Back \in Held /\ Cardinality({Back}) = 1
      BY <1>3, FrontKeeps, FS_Singleton DEF AddEvict
    <2> QED BY <1>3, <1>i, <2>1, <2>2 DEF AddEvict
  <1>4. ASSUME NEW k \in Keys, Get(k)
        PROVE  UNCHANGED Abstract!vars
    BY <1>4, <1>s DEF Get
  <1>5. ASSUME NEW k \in Keys, RemoveKey(k)
        PROVE  Abstract!Next
    BY <1>5, <1>d DEF RemoveKey
  <1>6. CASE RemoveOldest
    BY <1>6, <1>d, FrontKeeps DEF RemoveOldest
  <1>7. CASE Purge
    <2>1. removeElements(Held)
      <3>1. bucketEntries' = WithoutKeys(Held)
        BY <1>7 DEF Purge, WithoutKeys, IInv, BucketView
      <3> QED BY <1>7, <3>1 DEF Purge, removeElements
    <2> QED BY <1>7, <1>d, <2>1 DEF Purge
  <1>8. ASSUME NEW n \in Sizes, Resize(n)
        PROVE  Abstract!Next
    <2> DEFINE keep == IF n = 0 \/ Len(evictList) =< n THEN Len(evictList) ELSE n
               gone == {evictList[i] : i \in (keep + 1)..Len(evictList)}
    <2>1. removeElements(gone) /\ size' = n /\ now' = now
      BY <1>8 DEF Resize
    <2>2. keep \in 0..Len(evictList) /\ (n > 0 => keep =< n) /\ (n = 0 => keep = Len(evictList))
      BY <1>b
    <2>3. Injective(evictList) /\ Linked(evictList) = Held
      BY DEF IInv, ListView
    <2>4. gone \in SUBSET Held /\ (n = 0 => gone = {})
      <3>1. \A i \in (keep + 1)..Len(evictList) : i \in DOMAIN evictList
        BY <1>a, <2>2
      <3> QED BY <1>b, <2>2, <2>3, <3>1 DEF Linked
    <2> HIDE DEF keep
    <2>5. LET t == SubSeq(evictList, 1, keep) IN
          t \in Seq(Keys) /\ Len(t) = keep /\ Injective(t) /\ Linked(t) = Held \ gone
      BY <1>a, <2>2, <2>3, CutKeepsList
    <2>6. Cardinality(Held \ gone) = keep
      BY <2>5, LinkedCardinality
    <2> HIDE DEF gone
    <2>7. Abstract!SetCapacity(n)
      BY <1>a, <2>1, <2>2, <2>4, <2>6, SeenAfterRemove, SameCardinality DEF Abstract!SetCapacity
    <2> QED BY <2>7 DEF Abstract!Next
  <1>9. ASSUME NEW k \in Keys, SweepRemove(k)
        PROVE  Abstract!Next
    <2>1. k \in Held
      BY <1>9 DEF SweepRemove, IInv, BucketView, TypeOK, Sweeper
    <2> QED BY <1>9, <1>d, <2>1 DEF SweepRemove
  <1>10. CASE SweepStart \/ SweepWake \/ SweepDone
    BY <1>10, <1>s DEF SweepStart, SweepWake, SweepDone, cacheVars
  <1>11. CASE Tick
    <2>1. UNCHANGED <<items, size, evicted>> /\ now' = now + 1 /\ now \in Int
      BY <1>11 DEF Tick, cacheVars, IInv, TypeOK, Times
    <2>2. \A k \in Held : items[k] \in Entry /\ items[k].expiresAt \in Int
      BY DEF IInv, TypeOK, Entry, Times
    <2>3. \A k \in Held : /\ Seen(k)' \in Abstract!Entries
                           /\ Seen(k)'.value = SeenStore[k].value
                           /\ Seen(k)'.age >= SeenStore[k].age
      <3> TAKE k \in Held
      <3>1. SeenStore[k].value = items[k].value /\ SeenStore[k].age = AgeOf(k)
        BY DEF SeenStore, Seen
      <3>2. Seen(k)' = [value |-> items[k].value, age |-> AgeOf(k)']
        BY <2>1 DEF Seen
      <3>3. AgeOf(k)' \in {0, 1, 2} /\ AgeOf(k)' >= AgeOf(k)
        BY <2>1, <2>2 DEF AgeOf, Expired
      <3> QED BY <2>2, <3>1, <3>2, <3>3 DEF Abstract!Entries, Abstract!Ages, Entry
    <2>4. SeenStore' = [k \in Held |-> Seen(k)']
      BY <2>1 DEF SeenStore, Held
    <2>5. Abstract!Age =
             (/\ \E older \in [Abstract!Held -> Abstract!Entries] :
                    /\ \A k \in Abstract!Held : /\ older[k].value = SeenStore[k].value
                                                /\ older[k].age >= SeenStore[k].age
                    /\ SeenStore' = older
              /\ UNCHANGED <<size, evicted>>)
      BY DEF Abstract!Age, SeenStore, Seen
    <2>6. SeenStore' \in [Abstract!Held -> Abstract!Entries]
      BY <1>a, <2>3, <2>4
    <2>7. \A k \in Abstract!Held : /\ SeenStore'[k].value = SeenStore[k].value
                                   /\ SeenStore'[k].age >= SeenStore[k].age
      BY <1>a, <2>3, <2>4
    <2> QED BY <2>1, <2>5, <2>6, <2>7 DEF Abstract!Next
  <1>12. CASE UNCHANGED vars
    BY <1>12, <1>s DEF vars, cacheVars
  <1> QED
    BY <1>1, <1>2, <1>3, <1>4, <1>5, <1>6, <1>7, <1>8, <1>9, <1>10, <1>11, <1>12 DEF Next, Sweep

\* The LRU does what ExpiringCache promises: Add puts, eviction, removal and the
\* sweeper drop, and each entry that leaves goes to onEvict with its value.
THEOREM Refinement == Spec => ImplementsCache
  <1>1. Init => Abstract!Init
    BY DEF Init, Abstract!Init, Held
  <1>2. IInv /\ [Next]_vars => [Abstract!Next]_(Abstract!vars)
    BY StepRefines
  <1> QED BY <1>1, <1>2, Invariance, PTL DEF Spec, ImplementsCache, Abstract!Spec
==============================================================================
