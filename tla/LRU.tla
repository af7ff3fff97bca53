-------------------------------- MODULE LRU --------------------------------
(***************************************************************************)
(* internal/lru/lru.go: a least-recently-used cache with a time to live.   *)
(*                                                                         *)
(* Every exported method runs under the mutex and is one action here.  The *)
(* goroutine that NewLRU starts is the one thing that runs in steps: on a  *)
(* tick it locks, looks at the oldest bucket, unlocks and sleeps when the  *)
(* newest entry there is still alive, locks again, removes the bucket's    *)
(* entries one by one and moves on.  While it holds the mutex ("sweep") no *)
(* method runs; while it sleeps every method does.                         *)
(*                                                                         *)
(* The doubly linked evictList is the sequence of the keys it links, most  *)
(* recently used first.                                                    *)
(***************************************************************************)
EXTENDS Integers, FiniteSets, SequencesExt

CONSTANTS
    Keys, Values,
    Sizes,          \* the values size may take; 0 turns the limit off
    TTL,            \* the time to live, in ticks of the model's clock
    NumBuckets,     \* numBuckets, 100 in the code
    MaxTime         \* bound of the model's clock

ASSUME SizesAssumption == Sizes \subseteq Nat
ASSUME TimeAssumption == TTL \in Nat \ {0} /\ MaxTime \in Nat
\* 2 * NumBuckets - 1 must fit in the uint8 that addToBucket computes with.
ASSUME BucketsAssumption == NumBuckets \in 2..128

VARIABLES
    now,                \* the clock
    size,
    items,              \* the map: a partial function on Keys
    evictList,
    bucketEntries,      \* buckets[b].entries, by key
    newestEntry,        \* buckets[b].newestEntry
    nextCleanupBucket,
    sweeper,            \* where the deleteExpired goroutine is
    evicted,            \* history: what the last change passed to onEvict
    usedAt              \* history: when each key was last added or found

cacheVars == <<size, items, evictList, bucketEntries, newestEntry, nextCleanupBucket,
               evicted, usedAt>>
vars == <<now, cacheVars, sweeper>>

Times   == 0..MaxTime
Buckets == 0..(NumBuckets - 1)
Held    == DOMAIN items

Entry == [value : Values, expiresAt : Times, expireBucket : Buckets]

Sweeper == [pc : {"tick", "sleep", "sweep"}, bucketIdx : Buckets, wakeAt : Times]

TypeOK ==
    /\ now \in Times
    /\ size \in Sizes
    /\ Held \subseteq Keys
    /\ items \in [Held -> Entry]
    /\ evictList \in Seq(Keys)
    /\ bucketEntries \in [Buckets -> SUBSET Keys]
    /\ newestEntry \in [Buckets -> Times]
    /\ nextCleanupBucket \in Buckets
    /\ sweeper \in Sweeper
    /\ evicted \subseteq Keys \X Values
    /\ usedAt \in [Keys -> Times]

------------------------------------------------------------------------------
(***************************************************************************)
(* The helpers of the methods.                                             *)
(***************************************************************************)

\* The mutex is free: the only holder a step can meet is the sweeper.
Unlocked == sweeper.pc # "sweep"

Position(k) == CHOOSE i \in DOMAIN evictList : evictList[i] = k

Back == evictList[Len(evictList)]

Unlinked(k) == RemoveAt(evictList, Position(k))

MovedToFront(k) == Cons(k, Unlinked(k))

\* now.After(expiresAt): at the deadline itself the entry is still found.
Expired(k) == now > items[k].expiresAt

\* Add's test, after the push: one entry too many.
Full == size > 0 /\ Len(evictList) + 1 > size

\* Mutants: the index is not wrapped; the bucket the sweeper looks at.
AddBucket_NoWrap == (NumBuckets + nextCleanupBucket - 1) % 256
AddBucket_Next == nextCleanupBucket

\* addToBucket's bucketID, in uint8: the bucket that is swept last.
AddBucket == ((NumBuckets + nextCleanupBucket - 1) % 256) % NumBuckets

\* Mutant: an entry that leaves stays in its bucket.
WithoutKeys_Keep(K) == bucketEntries

\* removeFromBucket for the keys of K, by the bucket each entry names.
WithoutKeys(K) ==
    [b \in Buckets |-> bucketEntries[b] \ {k \in K \cap Held : items[k].expireBucket = b}]

\* Mutant: the callback is not told.
removeElements_Silent(K) ==
    /\ items' = [k \in Held \ K |-> items[k]]
    /\ bucketEntries' = WithoutKeys(K)
    /\ evicted' = {}

\* removeElement for the keys of K, the list apart.
removeElements(K) ==
    /\ items' = [k \in Held \ K |-> items[k]]
    /\ bucketEntries' = WithoutKeys(K)
    /\ evicted' = {<<k, items[k].value>> : k \in K}

\* A new entry for k, or the renewal of the one there is; K is what goes.
file(k, v, K) ==
    /\ items' = [j \in (Held \ K) \cup {k} |->
                    IF j = k THEN [value |-> v, expiresAt |-> now + TTL,
                                   expireBucket |-> AddBucket]
                             ELSE items[j]]
    /\ bucketEntries' = [WithoutKeys(K \cup {k}) EXCEPT ![AddBucket] = @ \cup {k}]
    /\ newestEntry' = [newestEntry EXCEPT ![AddBucket] = IF @ < now + TTL THEN now + TTL ELSE @]
    /\ evicted' = {<<j, items[j].value>> : j \in K}
    /\ usedAt' = [usedAt EXCEPT ![k] = now]

------------------------------------------------------------------------------
Init ==
    /\ now = 0
    /\ size \in Sizes
    /\ items = [k \in {} |-> [value |-> k, expiresAt |-> 0, expireBucket |-> 0]]
    /\ evictList = <<>>
    /\ bucketEntries = [b \in Buckets |-> {}]
    /\ newestEntry = [b \in Buckets |-> 0]
    /\ nextCleanupBucket = 0
    /\ sweeper = [pc |-> "tick", bucketIdx |-> 0, wakeAt |-> 0]
    /\ evicted = {}
    /\ usedAt = [k \in Keys |-> 0]

\* Add on a key that is there: renewed and moved to the front.  onEvict does
\* not hear of the value that was there.
AddExisting(k, v) ==
    /\ Unlocked /\ now + TTL =< MaxTime
    /\ k \in Held
    /\ file(k, v, {})
    /\ evictList' = MovedToFront(k)
    /\ UNCHANGED <<now, size, nextCleanupBucket, sweeper>>

\* Add on a new key while there is room.
AddNew(k, v) ==
    /\ Unlocked /\ now + TTL =< MaxTime
    /\ k \notin Held
    /\ ~Full
    /\ file(k, v, {})
    /\ evictList' = Cons(k, evictList)
    /\ UNCHANGED <<now, size, nextCleanupBucket, sweeper>>

\* Add on a new key that is one too many: removeOldest takes the back.
AddEvict(k, v) ==
    /\ Unlocked /\ now + TTL =< MaxTime
    /\ k \notin Held
    /\ Full /\ evictList # <<>>
    /\ file(k, v, {Back})
    /\ evictList' = Cons(k, Front(evictList))
    /\ UNCHANGED <<now, size, nextCleanupBucket, sweeper>>

\* Get on a live entry.  A miss, and every other lookup, changes nothing.
Get(k) ==
    /\ Unlocked
    /\ k \in Held /\ ~Expired(k)
    /\ evictList' = MovedToFront(k)
    /\ usedAt' = [usedAt EXCEPT ![k] = now]
    /\ UNCHANGED <<now, size, items, bucketEntries, newestEntry, nextCleanupBucket,
                   sweeper, evicted>>

RemoveKey(k) ==
    /\ Unlocked
    /\ k \in Held
    /\ removeElements({k})
    /\ evictList' = Unlinked(k)
    /\ UNCHANGED <<now, size, newestEntry, nextCleanupBucket, sweeper, usedAt>>

RemoveOldest ==
    /\ Unlocked
    /\ evictList # <<>>
    /\ removeElements({Back})
    /\ evictList' = Front(evictList)
    /\ UNCHANGED <<now, size, newestEntry, nextCleanupBucket, sweeper, usedAt>>

\* Purge leaves newestEntry and nextCleanupBucket as they are.
Purge ==
    /\ Unlocked
    /\ items' = [k \in {} |-> items[k]]
    /\ bucketEntries' = [b \in Buckets |-> {}]
    /\ evictList' = <<>>
    /\ evicted' = {<<k, items[k].value>> : k \in Held}
    /\ UNCHANGED <<now, size, newestEntry, nextCleanupBucket, sweeper, usedAt>>

\* Resize to a limit takes the entries at the back that no longer fit.
Resize(n) ==
    /\ Unlocked
    /\ LET keep == IF n = 0 \/ Len(evictList) =< n THEN Len(evictList) ELSE n
       IN  /\ removeElements({evictList[i] : i \in keep + 1 .. Len(evictList)})
           /\ evictList' = SubSeq(evictList, 1, keep)
    /\ size' = n
    /\ UNCHANGED <<now, newestEntry, nextCleanupBucket, sweeper, usedAt>>

------------------------------------------------------------------------------
(***************************************************************************)
(* deleteExpired, once per tick of the goroutine's ticker.                 *)
(***************************************************************************)

\* Lock; read the bucket and the time its newest entry dies; unlock to sleep.
SweepStart ==
    /\ sweeper.pc = "tick"
    /\ LET b == nextCleanupBucket IN
       sweeper' = IF newestEntry[b] > now
                     THEN [pc |-> "sleep", bucketIdx |-> b, wakeAt |-> newestEntry[b]]
                     ELSE [sweeper EXCEPT !.pc = "sweep", !.bucketIdx = b]
    /\ UNCHANGED <<now, cacheVars>>

\* The sleep is over and the mutex taken again; newestEntry is not reread.
SweepWake ==
    /\ sweeper.pc = "sleep" /\ now >= sweeper.wakeAt
    /\ sweeper' = [sweeper EXCEPT !.pc = "sweep"]
    /\ UNCHANGED <<now, cacheVars>>

\* One turn of the loop over the bucket's entries.
SweepRemove(k) ==
    /\ sweeper.pc = "sweep" /\ k \in bucketEntries[sweeper.bucketIdx]
    /\ removeElements({k})
    /\ evictList' = Unlinked(k)
    /\ UNCHANGED <<now, size, newestEntry, nextCleanupBucket, sweeper, usedAt>>

\* Mutant: the sweeper stays at its bucket.
SweepDone_Stuck ==
    /\ sweeper.pc = "sweep" /\ bucketEntries[sweeper.bucketIdx] = {}
    /\ sweeper' = [sweeper EXCEPT !.pc = "tick"]
    /\ UNCHANGED <<now, cacheVars>>

\* The bucket is empty: unlock, the next one is next.
SweepDone ==
    /\ sweeper.pc = "sweep" /\ bucketEntries[sweeper.bucketIdx] = {}
    /\ nextCleanupBucket' = (nextCleanupBucket + 1) % NumBuckets
    /\ sweeper' = [sweeper EXCEPT !.pc = "tick"]
    /\ UNCHANGED <<now, size, items, evictList, bucketEntries, newestEntry, evicted, usedAt>>

Tick ==
    /\ now < MaxTime
    /\ now' = now + 1
    /\ UNCHANGED <<cacheVars, sweeper>>

------------------------------------------------------------------------------
Sweep == SweepStart \/ SweepWake \/ SweepDone \/ \E k \in Keys : SweepRemove(k)

Next ==
    \/ \E k \in Keys, v \in Values : AddExisting(k, v) \/ AddNew(k, v) \/ AddEvict(k, v)
    \/ \E k \in Keys : Get(k) \/ RemoveKey(k)
    \/ RemoveOldest \/ Purge
    \/ \E n \in Sizes : Resize(n)
    \/ Sweep
    \/ Tick

Spec == Init /\ [][Next]_vars

\* The goroutine is never stopped (done is never closed), its ticker always
\* fires again, and time does not stand still.
FairSpec == Spec /\ WF_vars(Sweep) /\ WF_vars(Tick)

------------------------------------------------------------------------------
(***************************************************************************)
(* Properties.                                                             *)
(***************************************************************************)

\* The three views of the cache agree: the list links every held key once, and
\* every held key is in the bucket its entry names and in no other bucket.  A
\* key only in the list would be evicted twice, a key only in a bucket would
\* make the sweeper remove an entry that is no longer there.
ViewsAgree ==
    /\ \A i, j \in DOMAIN evictList : evictList[i] = evictList[j] => i = j
    /\ {evictList[i] : i \in DOMAIN evictList} = Held
    /\ \A b \in Buckets : bucketEntries[b] = {k \in Held : items[k].expireBucket = b}

\* The list is in order of last use, so that what Add, Resize and RemoveOldest
\* take from its back is what was not used for longest.
RecencyOrder ==
    \A i, j \in DOMAIN evictList : i < j => usedAt[evictList[i]] >= usedAt[evictList[j]]

\* The sweeper takes only what has expired, although it looks at the bucket's
\* newest entry before it sleeps and removes whatever is there after it.
SweepOnlyExpired ==
    [][sweeper.pc = "sweep" => \A k \in Held \ DOMAIN items' : now >= items[k].expiresAt]_vars

\* Whatever has expired is collected (or renewed), Get's callers or not.
ExpiredAreSwept == \A k \in Keys : (k \in Held /\ Expired(k)) ~> ~(k \in Held /\ Expired(k))

\* The cache does what ExpiringCache promises.
AgeOf(k) == IF Expired(k) THEN 2 ELSE IF now = items[k].expiresAt THEN 1 ELSE 0

Abstract == INSTANCE ExpiringCache WITH
    store <- [k \in Held |-> [value |-> items[k].value, age |-> AgeOf(k)]],
    capacity <- size

ImplementsCache == Abstract!Spec
WithinCapacity == Abstract!Bounded
==============================================================================
