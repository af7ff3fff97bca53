---------------------------- MODULE ExpiringCache ----------------------------
(***************************************************************************)
(* What internal/lru promises to the prepared statement store that is      *)
(* built on it: a bounded map whose entries grow old, in which the value   *)
(* under a key changes only when somebody puts one there, and in which     *)
(* every entry that leaves, and no other, is handed to the eviction        *)
(* callback.  Which entry goes when the map is full, and when an old entry *)
(* is collected, is left open here; LRU.tla fixes both.                    *)
(***************************************************************************)
EXTENDS Integers, FiniteSets

CONSTANTS
    Keys,       \* what entries are filed under (the SQL text, for statements)
    Values,     \* what is stored
    Sizes       \* the capacities the cache may be given; 0 is "unlimited"

VARIABLES
    store,      \* the entries held: a partial function on Keys
    capacity,   \* how many of them there may be, 0 for any number
    evicted     \* what the last change of the map handed to the callback

vars == <<store, capacity, evicted>>

(***************************************************************************)
(* An entry is fresh, then due (its deadline is reached: it may be         *)
(* collected, but a lookup still finds it), then past (a lookup misses).   *)
(***************************************************************************)
Fresh == 0
Due   == 1
Past  == 2
Ages  == {Fresh, Due, Past}

Entries == [value : Values, age : Ages]

Held == DOMAIN store

\* A lookup of k succeeds, and Found(k) is what it returns.
Hit(k)   == k \in Held /\ store[k].age # Past
Found(k) == store[k].value

Init ==
    /\ store = [k \in {} |-> [value |-> k, age |-> Fresh]]
    /\ capacity \in Sizes
    /\ evicted = {}

\* The entries of K leave, each to the callback.
Release(K) ==
    /\ store' = [k \in Held \ K |-> store[k]]
    /\ evicted' = {<<k, store[k].value>> : k \in K}

\* A value is put under a key that is held: the deadline starts again, and the
\* value that was there is dropped without the callback hearing of it.
Renew(k, v) ==
    /\ k \in Held
    /\ store' = [store EXCEPT ![k] = [value |-> v, age |-> Fresh]]
    /\ evicted' = {}
    /\ capacity' = capacity

\* A value is put under a new key; when the map is full one other entry goes.
Insert(k, v) ==
    /\ k \notin Held
    /\ \E gone \in SUBSET Held :
          /\ IF capacity = 0 \/ Cardinality(Held) < capacity
                THEN gone = {}
                ELSE Cardinality(gone) = 1
          /\ store' = [j \in (Held \ gone) \cup {k} |->
                          IF j = k THEN [value |-> v, age |-> Fresh] ELSE store[j]]
          /\ evicted' = {<<j, store[j].value>> : j \in gone}
    /\ capacity' = capacity

Put(k, v) == Renew(k, v) \/ Insert(k, v)

\* Entries are taken out on request.
Drop(K) ==
    /\ K \subseteq Held
    /\ Release(K)
    /\ capacity' = capacity

\* A new capacity is set; what no longer fits goes.
SetCapacity(n) ==
    /\ \E gone \in SUBSET Held :
          /\ n = 0 => gone = {}
          /\ n > 0 => Cardinality(Held \ gone) =< n
          /\ Release(gone)
    /\ capacity' = n

\* Time passes: entries only ever get older.
Age ==
    /\ \E older \in [Held -> Entries] :
          /\ \A k \in Held : /\ older[k].value = store[k].value
                             /\ older[k].age >= store[k].age
          /\ store' = older
    /\ capacity' = capacity /\ UNCHANGED evicted

Next ==
    \/ \E k \in Keys, v \in Values : Put(k, v)
    \/ \E K \in SUBSET Keys : Drop(K)
    \/ \E n \in Sizes : SetCapacity(n)
    \/ Age

Spec == Init /\ [][Next]_vars

------------------------------------------------------------------------------
\* The cache never holds more than its capacity (Add and Resize in lru.go).
Bounded == capacity > 0 => Cardinality(Held) =< capacity
==============================================================================
