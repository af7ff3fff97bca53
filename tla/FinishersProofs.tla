---------------------------- MODULE FinishersProofs ----------------------------
(***************************************************************************)
(* Theorems about FindInBatches and Finishers, for every table, limit,     *)
(* offset and size of a batch, and every list of values; and about the     *)
(* registry of callbacks that the finishers run, which shares no variable  *)
(* with them, for every sequence of calls.                                 *)
(***************************************************************************)
EXTENDS Finishers, CallbackOrder, FiniteSetTheorems, TLAPS

------------------------------------------------------------------------------
(***************************************************************************)
(* FindInBatches.                                                          *)
(***************************************************************************)

\* The application orders by nothing that contradicts the primary key.
OrderAgrees == \A a, b \in Ids : a < b => Rank[a] =< Rank[b]

Typed ==
    /\ table \subseteq Ids /\ stable \subseteq table
    /\ limit \in Limits \cup {-1} /\ offset \in Nat
    /\ size \in Nat \ {0}
    /\ pc \in {"query", "call", "done"}
    /\ after \in Nat /\ batch \in Nat /\ affected \in Nat
    /\ page \subseteq Ids /\ found \subseteq Ids /\ skipped \subseteq Ids
    /\ error \in BOOLEAN
    /\ batch = 0 => skipped = {} /\ found = {} /\ affected = 0

\* Each batch is behind those before it, unless an alternative takes it back.
BehindInv ==
    /\ pc = "query" /\ loose = {} => \A r \in found : r =< after
    /\ pc = "call" =>
          page # {} /\ batch > 0 /\ (loose = {} => \A r \in page, f \in found : f < r)

\* Of the rows that are wanted, those up to the last primary key are found.
Wanted == (stable \cap Matched) \ skipped

FoundInv ==
    /\ pc = "query" => ~error /\ \A r \in Wanted : batch > 0 /\ r =< after => r \in found
    /\ pc = "call" => /\ ~error
                      /\ \A r \in Wanted : r \in found \cup page \/ \A p \in page : p < r
                      /\ Cardinality(page) < size => Wanted \subseteq found \cup page
    /\ AllFound

\* Every row that is found is counted, and a batch is as large as its size at most.
CountInv ==
    /\ Cardinality(found) + (IF pc = "call" THEN Cardinality(page) ELSE 0) =< affected
    /\ pc = "call" => Cardinality(page) =< size

\* Whole batches so far, and room for another; or the last one takes the rest.
LimitInv ==
    limit > 0 =>
       /\ affected =< limit
       /\ pc = "query" => \/ affected = batch * size /\ affected + size =< limit
                          \/ affected + size = limit
       /\ pc = "call" => (Cardinality(page) = size /\ affected < limit => affected = batch * size)

\* What holds whatever the order is.
SizeInv == Typed /\ CountInv /\ LimitInv
BatchInv == SizeInv /\ BehindInv /\ FoundInv

\* The specifications that FindInBatches is part of: its own, and that of the
\* finishers.
BatchInit == Init \/ NoBatches

USE InputAssumption

LEMMA Finite == \A S \in SUBSET Ids : IsFiniteSet(S) /\ Cardinality(S) \in Nat
  BY FS_Subset, FS_CardinalityType

\* The first n of S are at most n, and all of S when they are fewer.
LEMMA FirstRows ==
    ASSUME NEW S \in SUBSET Ids, NEW n \in Nat, NEW P, IsFirst(P, n, S)
    PROVE  /\ P \in SUBSET Ids /\ Cardinality(P) \in Nat /\ Cardinality(P) =< n
           /\ Cardinality(P) < n => P = S
           /\ n = 0 => P = {}
  <1>1. P \subseteq S /\ P \in SUBSET Ids
    BY DEF IsFirst
  <1>2. /\ IsFiniteSet(S) /\ IsFiniteSet(P)
        /\ Cardinality(S) \in Nat /\ Cardinality(P) \in Nat
    BY <1>1, Finite
  <1>3. Cardinality(P) = IF n < Cardinality(S) THEN n ELSE Cardinality(S)
    BY DEF IsFirst
  <1>4. Cardinality(P) = Cardinality(S) => P = S
    BY <1>1, <1>2, FS_Subset
  <1>5. Cardinality(P) = 0 => P = {}
    BY <1>2, FS_EmptySet
  <1> QED BY <1>1, <1>2, <1>3, <1>4, <1>5

LEMMA Union ==
    ASSUME NEW A \in SUBSET Ids, NEW B \in SUBSET Ids
    PROVE  Cardinality(A \cup B) =< Cardinality(A) + Cardinality(B)
  <1>1. /\ IsFiniteSet(A) /\ IsFiniteSet(B)
        /\ Cardinality(A) \in Nat /\ Cardinality(B) \in Nat /\ Cardinality(A \cap B) \in Nat
    BY Finite
  <1>2. Cardinality(A \cup B) = Cardinality(A) + Cardinality(B) - Cardinality(A \cap B)
    BY <1>1, FS_Union
  <1> QED BY <1>1, <1>2

\* The size of the last batch is what the limit leaves.
LEMMA Rest ==
    ASSUME NEW m \in Nat, NEW n \in Nat \ {0}, NEW b \in Nat, b * n < m
    PROVE  /\ m \div n = b => m % n \in Nat \ {0} /\ b * n + (m % n) = m
           /\ m \div n # b => (b + 1) * n =< m
  <1> DEFINE q == m \div n
  <1>1. q \in Nat /\ m % n \in 0..(n - 1) /\ m = n * q + (m % n)
    OBVIOUS
  <1>2. ASSUME q # b PROVE (b + 1) * n =< m
    <2>1. q > b
      <3> SUFFICES ASSUME q < b PROVE FALSE
        BY <1>1, <1>2
      <3>1. (q + 1) * n =< b * n
        BY <1>1
      <3>2. (q + 1) * n = n * q + n
        BY <1>1
      <3> QED BY <1>1, <3>1, <3>2
    <2>2. (b + 1) * n =< q * n
      BY <1>1, <2>1
    <2> QED BY <1>1, <2>2
  <1> QED BY <1>1, <1>2

------------------------------------------------------------------------------
LEMMA BatchStart == BatchInit => BatchInv
  <1> SUFFICES ASSUME BatchInit PROVE BatchInv
    OBVIOUS
  <1>1. Cardinality({}) = 0
    BY FS_EmptySet
  <1>2. /\ found = {} /\ page = {} /\ skipped = {} /\ error = FALSE
        /\ after = 0 /\ batch = 0 /\ affected = 0
        /\ pc = "query" \/ (pc = "done" /\ stable = {})
        /\ table \subseteq Ids /\ stable \subseteq table
        /\ limit \in Limits \cup {-1} /\ offset \in Nat /\ size \in Nat \ {0}
        /\ limit > 0 => size =< limit
    BY DEF BatchInit, Init, NoBatches
  <1>3. Typed
    <2>1. pc \in {"query", "call", "done"} /\ error \in BOOLEAN
      BY <1>2
    <2>2. page \subseteq Ids /\ found \subseteq Ids /\ skipped \subseteq Ids
      BY <1>2
    <2> QED BY <1>2, <2>1, <2>2 DEF Typed
  <1>4. CountInv /\ LimitInv
    BY <1>1, <1>2 DEF CountInv, LimitInv
  <1>5. BehindInv /\ FoundInv
    <2>1. BehindInv
      BY <1>2 DEF BehindInv
    <2>2. Wanted \subseteq stable
      BY DEF Wanted
    <2>3. AllFound
      BY <1>2 DEF AllFound
    <2> QED BY <1>2, <2>1, <2>2, <2>3 DEF FoundInv
  <1> QED BY <1>3, <1>4, <1>5 DEF BatchInv, SizeInv

\* What a query does, and what of it the order has no part in.
LEMMA QuerySize ==
    ASSUME SizeInv, Query
    PROVE  /\ pc = "query" /\ batch' = batch + 1
           /\ UNCHANGED <<table, limit, offset, loose, orOnly, size, after, error, found, stable>>
           /\ pc' = IF page' = {} THEN "done" ELSE "call"
           /\ Selected \in SUBSET Ids
           /\ \E left \in SUBSET Selected :
                 /\ IsFirst(page', size, Selected \ left)
                 /\ Cardinality(page') < size => page' = Selected \ left
                 /\ skipped' = IF batch = 0 THEN left ELSE skipped
                 /\ batch # 0 => left = {}
           /\ SizeInv'
  <1>1. PICK left \in SUBSET Selected : \E rs \in SUBSET (Selected \ left) :
          /\ IsFirst(left, Skip, Selected)
          /\ IsFirst(rs, size, Selected \ left)
          /\ page' = rs
          /\ skipped' = IF batch = 0 THEN left ELSE skipped
          /\ affected' = affected + Cardinality(rs)
          /\ pc' = IF rs = {} THEN "done" ELSE "call"
    BY DEF Query
  <1>2. /\ IsFirst(left, Skip, Selected)
        /\ IsFirst(page', size, Selected \ left)
        /\ page' \subseteq Selected \ left
        /\ skipped' = IF batch = 0 THEN left ELSE skipped
        /\ affected' = affected + Cardinality(page')
        /\ pc' = IF page' = {} THEN "done" ELSE "call"
    BY <1>1
  <1>3. /\ pc = "query" /\ batch' = batch + 1
        /\ UNCHANGED <<table, limit, offset, loose, orOnly, size, after, error, found, stable>>
    BY DEF Query, input
  <1>4. Typed /\ Selected \in SUBSET Ids /\ Skip \in Nat /\ left \in SUBSET Ids
    BY <1>1 DEF SizeInv, Typed, Selected, First, Skip
  <1>5. /\ page' \in SUBSET Ids /\ Cardinality(page') \in Nat /\ Cardinality(page') =< size
        /\ Cardinality(page') < size => page' = Selected \ left
    <2>1. Selected \ left \in SUBSET Ids /\ size \in Nat
      BY <1>4 DEF Typed
    <2> QED BY <1>2, <2>1, FirstRows
  <1>6. batch # 0 => left = {}
    BY <1>2, <1>4, FirstRows DEF Skip
  <1>7. Typed'
    BY <1>2, <1>3, <1>4, <1>5 DEF Typed
  <1>8. CountInv'
    <2>1. Cardinality(found) \in Nat /\ Cardinality(found) =< affected /\ affected \in Nat
      BY <1>3, <1>4, Finite DEF SizeInv, CountInv, Typed
    <2> QED BY <1>2, <1>3, <1>5, <2>1 DEF CountInv
  <1>9. LimitInv'
    <2> SUFFICES ASSUME limit > 0
                 PROVE  /\ affected' =< limit
                        /\ Cardinality(page') = size /\ affected' < limit
                              => affected' = batch' * size
      BY <1>2, <1>3 DEF LimitInv
    <2>1. /\ affected \in Nat /\ size \in Nat /\ limit \in Int /\ batch \in Nat
          /\ \/ affected = batch * size /\ affected + size =< limit
             \/ affected + size = limit
      BY <1>3, <1>4 DEF SizeInv, LimitInv, Typed
    <2>2. (batch + 1) * size = batch * size + size
      BY <2>1
    <2> QED BY <1>2, <1>3, <1>5, <2>1, <2>2
  <1> QED BY <1>1, <1>2, <1>3, <1>4, <1>5, <1>6, <1>7, <1>8, <1>9 DEF SizeInv

LEMMA QueryStep ==
    ASSUME BatchInv, OrderAgrees, Query
    PROVE  BatchInv'
  <1>1. SizeInv
    BY DEF BatchInv
  <1>2. /\ pc = "query" /\ batch' = batch + 1
        /\ UNCHANGED <<table, limit, offset, loose, orOnly, size, after, error, found, stable>>
        /\ pc' = IF page' = {} THEN "done" ELSE "call"
        /\ Selected \in SUBSET Ids
        /\ SizeInv'
    BY <1>1, QuerySize
  <1>3. PICK left \in SUBSET Selected :
          /\ IsFirst(page', size, Selected \ left)
          /\ Cardinality(page') < size => page' = Selected \ left
          /\ skipped' = IF batch = 0 THEN left ELSE skipped
          /\ batch # 0 => left = {}
    BY <1>1, QuerySize
  <1>4. Typed /\ page' \subseteq Selected \ left /\ page' \in SUBSET Ids /\ size \in Nat \ {0}
    BY <1>1, <1>2, <1>3 DEF SizeInv, Typed, IsFirst
  <1>5. Cardinality(page') < size => page' = Selected \ left
    BY <1>3
  <1>6. batch # 0 => left = {}
    BY <1>3
  <1>7. BehindInv'
    <2> SUFFICES ASSUME pc' = "call"
                 PROVE  page' # {} /\ batch' > 0 /\ (loose = {} => \A r \in page', f \in found : f < r)
      BY <1>2, <1>3 DEF BehindInv
    <2>1. loose = {} => \A r \in page', f \in found : f < r
      <3> SUFFICES ASSUME loose = {}, NEW r \in page', NEW f \in found PROVE f < r
        OBVIOUS
      <3>1. batch # 0
        BY <1>4 DEF Typed
      <3>2. r > after /\ f =< after /\ r \in Nat /\ f \in Nat /\ after \in Nat
        BY <1>2, <1>4, <3>1 DEF Selected, BatchInv, BehindInv, Typed
      <3> QED BY <3>2
    <2> QED BY <1>2, <1>3, <1>4, <2>1 DEF Typed
  <1>8. FoundInv'
    <2>1. ~error /\ \A r \in Wanted : batch > 0 /\ r =< after => r \in found
      BY <1>2 DEF BatchInv, FoundInv
    <2>2. ASSUME NEW r \in Wanted'
          PROVE  r \in found \/ r \in Selected \ left
      <3>1. r \in stable /\ r \in table /\ r \in Nat /\ after \in Nat /\ (orOnly => r \in loose)
        BY <1>2, <1>4, <2>2 DEF Wanted, Matched, Typed
      <3>2. CASE batch = 0
        BY <1>3, <2>2, <3>1, <3>2 DEF Wanted, Selected, First
      <3>3. CASE batch # 0
        <4>1. r \in Wanted /\ left = {} /\ batch > 0
          BY <1>2, <1>3, <1>4, <1>6, <2>2, <3>3 DEF Wanted, Matched, Typed
        <4> QED BY <2>1, <3>1, <3>3, <4>1 DEF Selected
      <3> QED BY <3>2, <3>3
    <2>3. ASSUME NEW r \in Wanted', r \notin found \cup page', NEW q \in page'
          PROVE  q < r
      <3>1. r \in Selected \ left /\ r \notin page'
        BY <2>2, <2>3
      <3>2. Before(q, r) /\ q \in Ids /\ r \in Ids
        BY <1>2, <1>3, <1>4, <2>3, <3>1 DEF IsFirst
      <3>3. q \in Nat /\ r \in Nat /\ Rank[q] \in Nat /\ Rank[r] \in Nat
        BY <3>2
      <3>4. r < q => Rank[r] =< Rank[q]
        BY <3>2 DEF OrderAgrees
      <3>5. q # r
        BY <3>1
      <3> QED BY <3>2, <3>3, <3>4, <3>5 DEF Before
    <2>4. Cardinality(page') < size => Wanted' \subseteq found \cup page'
      BY <1>5, <2>2
    <2>5. page' = {} => Wanted' \subseteq found
      <3>1. page' = {} => Cardinality(page') = 0
        BY FS_EmptySet
      <3> QED BY <1>4, <2>4, <3>1 DEF Typed
    <2>6. AllFound'
      BY <1>2, <2>5 DEF AllFound, Wanted, Matched
    <2> QED BY <1>2, <1>3, <2>1, <2>3, <2>4, <2>6 DEF FoundInv
  <1> QED BY <1>2, <1>7, <1>8 DEF BatchInv

\* What the end of fc does.
LEMMA CallSize ==
    ASSUME SizeInv, Call
    PROVE  /\ pc = "call" /\ found' = found \cup page
           /\ UNCHANGED <<table, limit, offset, loose, orOnly, batch, affected, page, stable, skipped>>
           /\ \/ pc' = "done" /\ (error' = TRUE \/ (error' = error /\ IsOver))
              \/ /\ ~IsOver /\ after' \in page /\ IsLast(after', page)
                 /\ error' = (after' = 0)
                 /\ pc' = IF after' = 0 THEN "done" ELSE "query"
           /\ SizeInv'
  <1>1. /\ pc = "call" /\ found' = found \cup page
        /\ UNCHANGED <<table, limit, offset, loose, orOnly, batch, affected, page, stable, skipped>>
    BY DEF Call, input
  <1>2. \/ pc' = "done" /\ (error' = TRUE \/ (error' = error /\ IsOver)) /\ UNCHANGED <<after, size>>
        \/ /\ ~IsOver /\ size' = NextSize /\ after' \in page /\ IsLast(after', page)
           /\ error' = (after' = 0)
           /\ pc' = IF after' = 0 THEN "done" ELSE "query"
    BY DEF Call
  <1>3. /\ Cardinality(found) + Cardinality(page) =< affected /\ Cardinality(page) =< size
        /\ Cardinality(found) \in Nat /\ Cardinality(page) \in Nat /\ Cardinality(found') \in Nat
        /\ found \in SUBSET Ids /\ page \in SUBSET Ids /\ found' \in SUBSET Ids
        /\ affected \in Nat /\ size \in Nat \ {0} /\ batch \in Nat /\ limit \in Int
    <2>1. found \in SUBSET Ids /\ page \in SUBSET Ids /\ found' \in SUBSET Ids
      BY <1>1 DEF SizeInv, Typed
    <2> QED BY <1>1, <2>1, Finite DEF SizeInv, CountInv, Typed
  <1>4. Cardinality(found') =< Cardinality(found) + Cardinality(page)
    BY <1>1, <1>3, Union
  <1>5. ASSUME ~IsOver, limit > 0
        PROVE  /\ affected = batch * size /\ affected < limit
               /\ NextSize \in Nat \ {0}
               /\ \/ affected = batch * NextSize /\ affected + NextSize =< limit
                  \/ affected + NextSize = limit
    <2>1. Cardinality(page) = size /\ affected < limit
      BY <1>3, <1>5 DEF IsOver
    <2>2. affected = batch * size /\ batch * size < limit
      BY <1>1, <1>5, <2>1 DEF SizeInv, LimitInv
    <2>3. limit \in Nat /\ size \in Nat \ {0} /\ batch \in Nat
      BY <1>3, <1>5
    <2>4. /\ limit \div size = batch => limit % size \in Nat \ {0} /\ batch * size + (limit % size) = limit
          /\ limit \div size # batch => (batch + 1) * size =< limit
      BY <2>2, <2>3, Rest
    <2>5. (batch + 1) * size = batch * size + size
      BY <2>3
    <2>6. CASE limit \div size = batch
      BY <1>5, <2>1, <2>2, <2>4, <2>6 DEF NextSize
    <2>7. CASE limit \div size # batch
      <3>1. NextSize = size
        BY <2>7 DEF NextSize
      <3> QED BY <2>1, <2>2, <2>3, <2>4, <2>5, <2>7, <3>1
    <2> QED BY <2>6, <2>7
  <1>6. size' \in Nat \ {0}
    <2>1. ~(limit > 0) => NextSize = size
      BY DEF NextSize
    <2> QED BY <1>2, <1>3, <1>5, <2>1
  <1>7. Typed'
    <2>1. /\ after' \in Nat /\ error' \in BOOLEAN /\ pc' \in {"query", "call", "done"}
      BY <1>2, <1>3 DEF SizeInv, Typed
    <2>2. batch = 0 => page = {}
      <3>1. batch = 0 => Cardinality(page) = 0
        BY <1>3 DEF SizeInv, Typed
      <3> QED BY <1>3, <3>1, Finite, FS_EmptySet
    <2> QED BY <1>1, <1>3, <1>6, <2>1, <2>2 DEF SizeInv, Typed
  <1>8. CountInv'
    BY <1>1, <1>2, <1>3, <1>4 DEF CountInv
  <1>9. LimitInv'
    BY <1>1, <1>2, <1>3, <1>5 DEF LimitInv, SizeInv
  <1> QED BY <1>1, <1>2, <1>7, <1>8, <1>9 DEF SizeInv

LEMMA CallStep ==
    ASSUME BatchInv, OrderAgrees, Call
    PROVE  BatchInv'
  <1>1. SizeInv
    BY DEF BatchInv
  <1>2. /\ pc = "call" /\ found' = found \cup page
        /\ UNCHANGED <<table, limit, offset, loose, orOnly, batch, affected, page, stable, skipped>>
        /\ \/ pc' = "done" /\ (error' = TRUE \/ (error' = error /\ IsOver))
           \/ /\ ~IsOver /\ after' \in page /\ IsLast(after', page)
              /\ error' = (after' = 0)
              /\ pc' = IF after' = 0 THEN "done" ELSE "query"
        /\ SizeInv'
    BY <1>1, CallSize
  <1>3. /\ page # {} /\ batch > 0 /\ (loose = {} => \A r \in page, f \in found : f < r)
        /\ \A r \in Wanted : r \in found \cup page \/ \A p \in page : p < r
        /\ Cardinality(page) < size => Wanted \subseteq found \cup page
        /\ page \subseteq Ids /\ found \subseteq Ids /\ Wanted \subseteq Ids
        /\ Wanted' = Wanted
    BY <1>1, <1>2 DEF BatchInv, BehindInv, FoundInv, SizeInv, Typed, Wanted, Matched
  <1>4. ASSUME pc' = "query" PROVE \A r \in page : r =< after'
    <2> SUFFICES ASSUME NEW r \in page, r # after' PROVE r =< after'
      BY <1>2, <1>3, <1>4
    <2>1. after' \in Ids /\ r \in Ids /\ Before(r, after')
      BY <1>2, <1>3, <1>4 DEF IsLast
    <2>2. Rank[r] \in Nat /\ Rank[after'] \in Nat /\ r \in Nat /\ after' \in Nat
      BY <2>1
    <2>3. after' < r => Rank[after'] =< Rank[r]
      BY <2>1 DEF OrderAgrees
    <2> QED BY <2>1, <2>2, <2>3 DEF Before
  <1>5. BehindInv'
    <2> SUFFICES ASSUME pc' = "query", loose = {}, NEW r \in found' PROVE r =< after'
      BY <1>2 DEF BehindInv
    <2>1. CASE r \in page
      BY <1>4, <2>1
    <2>2. CASE r \in found
      <3>1. after' \in page /\ after' \in Nat /\ r \in Nat /\ r < after'
        BY <1>2, <1>3, <2>2
      <3> QED BY <3>1
    <2> QED BY <1>2, <2>1, <2>2
  <1>6. FoundInv'
    <2>1. ASSUME pc' = "query", NEW r \in Wanted, r =< after' PROVE r \in found'
      <3>1. after' \in page /\ after' \in Nat /\ r \in Nat
        BY <1>2, <1>3, <2>1
      <3>2. ~(\A p \in page : p < r)
        BY <2>1, <3>1
      <3> QED BY <1>2, <1>3, <3>2
    <2>2. pc' = "query" => error' = FALSE
      BY <1>2
    <2>3. AllFound'
      <3> SUFFICES ASSUME pc' = "done", ~error', affected # limit
                   PROVE  Wanted \subseteq found \cup page
        BY <1>2, <1>3 DEF AllFound, Wanted, Matched
      <3>1. IsOver
        BY <1>2
      <3>2. affected \in Nat /\ limit \in Int /\ (limit > 0 => affected =< limit)
        BY <1>1 DEF SizeInv, Typed, LimitInv
      <3>3. Cardinality(page) < size
        BY <3>1, <3>2 DEF IsOver
      <3> QED BY <1>3, <3>3
    <2> QED BY <1>2, <1>3, <2>1, <2>2, <2>3 DEF FoundInv
  <1> QED BY <1>2, <1>5, <1>6 DEF BatchInv

\* The other steps: a query that fails, and what others do.
LEMMA OtherSize ==
    ASSUME SizeInv, QueryFails \/ (\E r \in Ids : Insert(r) \/ RemoveRow(r)) \/ UNCHANGED vars
    PROVE  SizeInv'
  <1> USE DEF SizeInv
  <1>1. CASE QueryFails
    BY <1>1 DEF QueryFails, input, Typed, CountInv, LimitInv
  <1>2. ASSUME NEW r \in Ids, Insert(r) PROVE SizeInv'
    BY <1>2 DEF Insert, input, Typed, CountInv, LimitInv
  <1>3. ASSUME NEW r \in Ids, RemoveRow(r) PROVE SizeInv'
    BY <1>3 DEF RemoveRow, input, Typed, CountInv, LimitInv
  <1>4. CASE UNCHANGED vars
    BY <1>4 DEF vars, input, Typed, CountInv, LimitInv
  <1> QED BY <1>1, <1>2, <1>3, <1>4

LEMMA OtherStep ==
    ASSUME BatchInv, QueryFails \/ (\E r \in Ids : Insert(r) \/ RemoveRow(r)) \/ UNCHANGED vars
    PROVE  BatchInv'
  <1>1. SizeInv'
    BY OtherSize DEF BatchInv
  <1>2. Typed
    BY DEF BatchInv, SizeInv
  <1>3. BehindInv' /\ FoundInv'
    <2> USE DEF BatchInv, BehindInv, FoundInv, Wanted, Matched, AllFound
    <2>1. CASE QueryFails
      BY <2>1 DEF QueryFails, input
    <2>2. ASSUME NEW r \in Ids, Insert(r) PROVE BehindInv' /\ FoundInv'
      BY <2>2 DEF Insert, input
    <2>3. ASSUME NEW r \in Ids, RemoveRow(r) PROVE BehindInv' /\ FoundInv'
      BY <2>3 DEF RemoveRow, input
    <2>4. CASE UNCHANGED vars
      BY <2>4 DEF vars, input
    <2> QED BY <2>1, <2>2, <2>3, <2>4
  <1> QED BY <1>1, <1>3 DEF BatchInv

LEMMA SizeStep == SizeInv /\ [Next]_vars => SizeInv'
  BY QuerySize, CallSize, OtherSize DEF Next, Loop

LEMMA BatchStep == OrderAgrees /\ BatchInv /\ [Next]_vars => BatchInv'
  BY QueryStep, CallStep, OtherStep DEF Next, Loop

\* A step of the finishers is one of FindInBatches, or leaves it alone.
LEMMA Extends ==
    /\ Init => BatchInit
    /\ FInit => BatchInit
    /\ [FNext]_<<vars, fvars>> => [Next]_vars
  BY DEF BatchInit, FInit, FNext, vars, fvars, batchVars

LEMMA SizeAlways == (Spec => []SizeInv) /\ (FSpec => []SizeInv)
  <1>1. Init \/ FInit => SizeInv
    BY Extends, BatchStart DEF BatchInv
  <1> QED BY <1>1, SizeStep, Extends, PTL DEF Spec, FSpec

LEMMA BatchAlways ==
    ASSUME OrderAgrees
    PROVE  (Spec => []BatchInv) /\ (FSpec => []BatchInv)
  <1>1. Init \/ FInit => BatchInv
    BY Extends, BatchStart
  <1>2. BatchInv /\ [Next]_vars => BatchInv'
    BY BatchStep
  <1> QED BY <1>1, <1>2, Extends, PTL DEF Spec, FSpec

\* FindInBatches: no row is given to fc twice, whatever others insert and remove
\* between the batches, when the application orders by nothing that contradicts the
\* primary key and has no alternative that the condition on it does not bind to.
THEOREM NoRowTwice ==
    ASSUME OrderAgrees
    PROVE  (Spec => []NoneTwice) /\ (FSpec => []NoneTwice)
  <1>1. BatchInv => NoneTwice
    <2> SUFFICES ASSUME BatchInv, loose = {}, pc = "call", NEW r \in page, r \in found PROVE FALSE
      BY DEF NoneTwice, EachOnce
    <2>1. r < r /\ r \in Nat
      BY DEF BatchInv, BehindInv, SizeInv, Typed
    <2> QED BY <2>1
  <1> QED BY <1>1, BatchAlways, PTL

\* FindInBatches: a limit is kept over all the batches, whatever the order, the size
\* of a batch and the changes between them.  Limit(0) is no limit to its loop.
THEOREM NotMoreThanLimit ==
    ASSUME 0 \notin Limits
    PROVE  (Spec => []LimitKept) /\ (FSpec => []LimitKept)
  <1>1. SizeInv => LimitKept
    <2> SUFFICES ASSUME SizeInv, limit >= 0 PROVE Cardinality(found) =< limit
      BY DEF LimitKept
    <2>1. /\ found \in SUBSET Ids /\ page \in SUBSET Ids
          /\ limit \in Nat \ {0} /\ affected \in Nat
      BY DEF SizeInv, Typed
    <2>2. Cardinality(found) \in Nat /\ Cardinality(page) \in Nat
      BY <2>1, Finite
    <2> QED BY <2>1, <2>2 DEF SizeInv, CountInv, LimitInv
  <1> QED BY <1>1, SizeAlways, PTL

\* FindInBatches: when it ends without an error and short of its limit, fc has had
\* every row that was asked for, was there all the time and was not left out by the
\* offset, whatever alternatives its conditions have.
THEOREM NoneLeftOut ==
    ASSUME OrderAgrees
    PROVE  (Spec => []AllFound) /\ (FSpec => []AllFound)
  <1>1. BatchInv => AllFound
    BY DEF BatchInv, FoundInv
  <1> QED BY <1>1, BatchAlways, PTL

------------------------------------------------------------------------------
(***************************************************************************)
(* Save, FirstOrCreate and CreateInBatches.                                *)
(***************************************************************************)
Stages == {"save", "update", "upsert", "create", "find", "assign", "batch", "done"}
CallType ==
    [at : Stages, key : Nat, name : Names, data : Datas, assign : {{}} \cup {{d} : d \in Datas},
     values : Seq(Names), size : Nat, keys : Seq(Nat), result : {"none", "nil", "error"},
     before : UNION {[S -> Row] : S \in SUBSET Nat}]

\* Rows with keys that have been given out.
Table(rs, l) == DOMAIN rs \subseteq 1..l /\ rs \in [DOMAIN rs -> Row]

\* Others have seen the rows there are, and a call that nobody disturbs finds the
\* table as it left it.
TableInv ==
    /\ call \in CallType /\ last \in Nat /\ others \in Nat
    /\ Table(rows, last) /\ Table(pending, last) /\ Table(call.before, last)
    /\ call.result = "none" <=> call.at # "done"
    /\ \A k \in DOMAIN rows : WasThere(k, rows[k])
    /\ \A e \in held : e[1] \in 1..last
    /\ finisher # "CreateInBatches" => pending = Nothing
    /\ finisher # "CreateInBatches" /\ others = 0 /\ call.at # "done" => rows = call.before

SaveInv ==
    finisher = "Save" =>
       /\ call.at \in {"save", "update", "upsert", "create", "done"}
       /\ call.at \in {"update", "upsert"} => call.key # 0

FoundOrNot ==
    finisher = "FirstOrCreate" =>
       /\ call.at \in {"find", "create", "assign", "done"}
       /\ call.at = "create" =>
             /\ call.assign \subseteq {call.data}
             /\ others = 0 => Matching(rows, call.name) = {}
       /\ call.at = "assign" =>
             /\ \E d \in Datas : WasThere(call.key, NewRow(call.name, d))
             /\ others = 0 => call.key \in Matching(rows, call.name)

\* The row of the i-th value.
As(i) == NewRow(call.values[i], call.data)

\* Whole batches so far, or all of the values.
Whole ==
    /\ call.at \in {"batch", "done"} /\ call.size # 0
    /\ Len(call.keys) =< Len(call.values)
    /\ \A i \in DOMAIN call.keys : call.keys[i] \in 1..last
    /\ call.at = "batch" \/ (call.result = "error" /\ ~InTx) =>
          Len(call.keys) % call.size = 0 \/ (call.at = "batch" /\ Len(call.keys) = Len(call.values))
    /\ call.result = "nil" => Len(call.keys) = Len(call.values)

\* A transaction keeps its rows to itself, out of what others saw.
Kept ==
    /\ call.at = "batch" /\ InTx =>
          /\ DOMAIN pending = {call.keys[i] : i \in DOMAIN call.keys}
          /\ \A i \in DOMAIN call.keys : pending[call.keys[i]] = As(i)
          /\ \A e \in held : e[1] \notin DOMAIN pending
    /\ ~InTx \/ call.at = "done" => pending = Nothing
    /\ InTx /\ call.result = "error" =>
          \A i \in DOMAIN call.keys, e \in held : e[1] # call.keys[i]

Shown == ~InTx \/ call.result = "nil" => \A i \in DOMAIN call.keys : WasThere(call.keys[i], As(i))

Counted ==
    others = 0 /\ call.result # "error" =>
       Cardinality(DOMAIN rows \cup DOMAIN pending) = Cardinality(DOMAIN call.before) + Len(call.keys)

BatchesInv == finisher = "CreateInBatches" => Whole /\ Kept /\ Shown /\ Counted

USE FinishersAssumption

LEMMA Finishers3 == DOMAIN At = {"Save", "FirstOrCreate", "CreateInBatches"}
  BY DEF At

LEMMA RowOf == \A n \in Names, d \in Datas : NewRow(n, d) \in Row
  BY DEF NewRow, Row

\* Both takes the rows of its second table, and the rest of the first.
LEMMA Tables ==
    ASSUME NEW f, NEW g, NEW l \in Nat, NEW m \in Nat, l =< m, Table(f, l), Table(g, m)
    PROVE  /\ Table(f, m) /\ Table(Both(f, g), m)
           /\ DOMAIN Both(f, g) = DOMAIN f \cup DOMAIN g
           /\ \A k \in DOMAIN g : Both(f, g)[k] = g[k]
           /\ \A k \in DOMAIN f \ DOMAIN g : Both(f, g)[k] = f[k]
  BY DEF Table, Both

One(k, r) == [j \in {k} |-> r]

LEMMA OneRow ==
    \A l \in Nat : \A k \in 1..l, r \in Row :
       Table(One(k, r), l) /\ DOMAIN One(k, r) = {k} /\ One(k, r)[k] = r
  BY DEF Table, One

LEMMA NoRows == \A l \in Nat : Table(Nothing, l) /\ DOMAIN Nothing = {}
  BY DEF Table, Nothing

\* What a step does with what others see.
LEMMA Sees ==
    ASSUME TableInv, last' \in Nat, last =< last', Table(rows', last'),
           See(rows') \/ UNCHANGED <<rows, held>>
    PROVE  /\ held \subseteq held'
           /\ \A k \in DOMAIN rows' : <<k, rows'[k]>> \in held'
           /\ \A e \in held' : e \in held \/ e[1] \in DOMAIN rows'
           /\ \A e \in held' : e[1] \in 1..last'
           /\ Table(pending, last') /\ Table(call.before, last')
  <1>1. /\ held \subseteq held'
        /\ \A k \in DOMAIN rows' : <<k, rows'[k]>> \in held'
        /\ \A e \in held' : e \in held \/ e[1] \in DOMAIN rows'
    BY DEF See, TableInv, WasThere
  <1>2. \A e \in held' : e[1] \in 1..last'
    BY <1>1 DEF TableInv, Table
  <1>3. Table(pending, last') /\ Table(call.before, last')
    BY DEF TableInv, Table
  <1> QED BY <1>1, <1>2, <1>3

LEMMA NotNil == call.result # "nil" => LeftAsAsked
  BY DEF LeftAsAsked

CallInv == TableInv /\ SaveInv /\ FoundOrNot /\ BatchesInv /\ LeftAsAsked

\* The state of the call, when nothing but it changes.
LEMMA CallAlone ==
    ASSUME TableInv, UNCHANGED <<finisher, others, rows, last, held, pending>>,
           call' \in CallType, call'.before = call.before,
           call'.result = "none" <=> call'.at # "done", call.at # "done"
    PROVE  TableInv'
  BY DEF TableInv, WasThere

------------------------------------------------------------------------------
LEMMA FailsStep ==
    ASSUME finisher \in DOMAIN At, CallInv, StatementFails \/ FindFails,
           UNCHANGED <<finisher, db, others>>
    PROVE  CallInv'
  <1>1. /\ call' = [call EXCEPT !.at = "done", !.result = "error"]
        /\ pending' = Nothing /\ UNCHANGED <<rows, last, held>>
        /\ call.at \in {"update", "upsert", "create", "assign", "find", "batch"}
        /\ call.at = "batch" => InTx \/ Len(call.keys) < Len(call.values)
    BY DEF StatementFails, FindFails, Fails, Done
  <1>2. TableInv /\ call \in CallType
    BY DEF CallInv, TableInv
  <1>3. /\ call' \in CallType /\ call'.at = "done" /\ call'.result = "error"
        /\ call'.before = call.before /\ call'.keys = call.keys /\ call'.values = call.values
        /\ call'.size = call.size /\ call'.data = call.data /\ call'.name = call.name
    BY <1>1, <1>2 DEF CallType, Stages
  <1>4. TableInv'
    BY <1>1, <1>2, <1>3, NoRows DEF TableInv, WasThere
  <1>5. SaveInv' /\ FoundOrNot'
    BY <1>3 DEF SaveInv, FoundOrNot
  <1>6. BatchesInv'
    <2> SUFFICES ASSUME finisher = "CreateInBatches" PROVE BatchesInv'
      BY DEF BatchesInv
    <2>1. call.at = "batch" /\ Whole /\ Kept /\ Shown /\ (InTx' <=> InTx)
      BY <1>1, <1>3 DEF CallInv, BatchesInv, Whole, InTx
    <2>2. \A i \in DOMAIN call.keys : InTx => call.keys[i] \in DOMAIN pending
      BY <2>1 DEF Kept
    <2>3. Kept'
      BY <1>1, <1>3, <2>1, <2>2 DEF Kept
    <2>4. Len(call.keys) \in Nat /\ Len(call.values) \in Nat
      BY <1>2 DEF CallType
    <2>5. Whole'
      BY <1>1, <1>3, <2>1, <2>4 DEF Whole
    <2>6. Shown'
      <3> SUFFICES ASSUME ~InTx, NEW i \in DOMAIN call.keys
                   PROVE  <<call'.keys[i], NewRow(call'.values[i], call'.data)>> \in held'
        BY <1>3, <2>1 DEF Shown, As, WasThere
      <3>1. <<call.keys[i], NewRow(call.values[i], call.data)>> \in held
        BY <2>1 DEF Shown, As, WasThere
      <3> QED BY <1>1, <1>3, <3>1
    <2>7. Counted'
      BY <1>3 DEF Counted
    <2> QED BY <2>3, <2>5, <2>6, <2>7 DEF BatchesInv
  <1> QED BY <1>3, <1>4, <1>5, <1>6, NotNil DEF CallInv, LeftAsAsked

LEMMA SaveBeginsStep ==
    ASSUME finisher \in DOMAIN At, CallInv, SaveBegins, UNCHANGED <<finisher, db, others>>
    PROVE  CallInv'
  <1>1. /\ call' = [call EXCEPT !.at = IF call.key = 0 THEN "create" ELSE "update"]
        /\ call.at = "save" /\ UNCHANGED <<rows, last, held, pending>>
    BY DEF SaveBegins, Goes
  <1>2. TableInv /\ call \in CallType
    BY DEF CallInv, TableInv
  <1>3. finisher = "Save"
    BY <1>1, Finishers3 DEF CallInv, FoundOrNot, BatchesInv, Whole
  <1>4. /\ call' \in CallType /\ call'.before = call.before /\ call'.key = call.key
        /\ call'.at = IF call.key = 0 THEN "create" ELSE "update"
        /\ call'.result = call.result
    BY <1>1, <1>2 DEF CallType, Stages
  <1>5. TableInv'
    BY <1>1, <1>2, <1>4, CallAlone DEF TableInv
  <1>6. SaveInv' /\ FoundOrNot' /\ BatchesInv'
    BY <1>3, <1>4 DEF SaveInv, FoundOrNot, BatchesInv
  <1>7. LeftAsAsked'
    BY <1>1, <1>2, <1>4 DEF LeftAsAsked, TableInv
  <1> QED BY <1>5, <1>6, <1>7 DEF CallInv

\* What a statement that writes one row and ends a Save, or a FirstOrCreate that found
\* none, comes to.
LEMMA WritesOne ==
    ASSUME finisher \in {"Save", "FirstOrCreate"}, CallInv, UNCHANGED <<finisher, others, pending>>,
           NEW k \in Nat \ {0}, NEW l \in Nat, last =< l, k =< l, last' = l,
           call' = [call EXCEPT !.key = k, !.at = "done", !.result = "nil"],
           call.at # "done", See(rows'),
           rows' = Both(rows, One(k, Asked)),
           finisher = "FirstOrCreate" =>
              call.at = "create" /\ k \notin DOMAIN rows
    PROVE  CallInv'
  <1>1. TableInv /\ call \in CallType /\ call.name \in Names /\ call.data \in Datas
    BY DEF CallInv, TableInv, CallType
  <1>2. Asked \in Row
    BY <1>1, RowOf DEF Asked
  <1>3. /\ call' \in CallType /\ call'.at = "done" /\ call'.result = "nil" /\ call'.key = k
        /\ call'.before = call.before /\ call'.name = call.name /\ call'.data = call.data
        /\ call'.assign = call.assign
    BY <1>1 DEF CallType, Stages
  <1>4. Asked' = Asked
    BY <1>3 DEF Asked
  <1>5. /\ Table(rows, last) /\ Table(One(k, Asked), l) /\ last \in Nat
        /\ DOMAIN One(k, Asked) = {k} /\ One(k, Asked)[k] = Asked
    <2>1. k \in 1..l
      OBVIOUS
    <2>2. Table(rows, last) /\ last \in Nat
      BY <1>1 DEF TableInv
    <2> QED BY <1>2, <2>1, <2>2, OneRow
  <1>6. /\ Table(rows', last') /\ rows'[k] = Asked /\ k \in DOMAIN rows'
        /\ DOMAIN rows' = DOMAIN rows \cup {k}
        /\ \A j \in DOMAIN rows \ {k} : rows'[j] = rows[j]
    <2>1. /\ Table(Both(rows, One(k, Asked)), l)
          /\ DOMAIN Both(rows, One(k, Asked)) = DOMAIN rows \cup DOMAIN One(k, Asked)
          /\ \A j \in DOMAIN One(k, Asked) : Both(rows, One(k, Asked))[j] = One(k, Asked)[j]
          /\ \A j \in DOMAIN rows \ DOMAIN One(k, Asked) : Both(rows, One(k, Asked))[j] = rows[j]
      BY ONLY <1>5, l \in Nat, last =< l, Tables, ZenonT(60)
    <2> QED BY <1>5, <2>1
  <1>7. TableInv'
    <2>1. /\ \A j \in DOMAIN rows' : <<j, rows'[j]>> \in held'
          /\ \A e \in held' : e[1] \in 1..last'
          /\ Table(pending, last') /\ Table(call.before, last')
      BY <1>1, <1>6, Sees
    <2>2. pending = Nothing
      BY <1>1 DEF TableInv
    <2> QED BY <1>1, <1>3, <1>6, <2>1, <2>2 DEF TableInv, WasThere
  <1>8. SaveInv' /\ FoundOrNot' /\ BatchesInv'
    BY <1>3 DEF SaveInv, FoundOrNot, BatchesInv
  <1>9. LeftAsAsked'
    <2>1. <<k, Asked>> \in held'
      BY <1>6 DEF See
    <2>2. others = 0 => rows = call.before
      BY <1>1 DEF TableInv
    <2>3. CASE finisher = "Save"
      BY <1>3, <1>4, <2>1, <2>2, <2>3, Finishers3 DEF LeftAsAsked, WasThere, One
    <2>4. CASE finisher = "FirstOrCreate"
      <3>1. <<call'.key, NewRow(call'.name, call'.data)>> \in held'
        BY <1>3, <2>1 DEF Asked
      <3>2. call.assign \subseteq {call.data}
        BY <2>4 DEF CallInv, FoundOrNot
      <3>3. others = 0 => Matching(call.before, call.name) = {}
        BY <2>2, <2>4 DEF CallInv, FoundOrNot
      <3>4. /\ others' = others /\ finisher' = "FirstOrCreate" /\ call'.data \in Datas
        BY <1>1, <1>3, <2>4
      <3>5. others = 0 => /\ rows' = Both(call'.before, One(call'.key, Asked'))
                          /\ call'.assign \subseteq {call'.data}
                          /\ Matching(call'.before, call'.name) = {}
        BY <1>3, <1>4, <2>2, <3>2, <3>3
      <3> QED BY <1>3, <3>1, <3>4, <3>5 DEF LeftAsAsked, WasThere, One
    <2> QED BY <2>3, <2>4
  <1> QED BY <1>7, <1>8, <1>9 DEF CallInv

LEMMA SaveUpdatesStep ==
    ASSUME finisher \in DOMAIN At, CallInv, SaveUpdates, UNCHANGED <<finisher, db, others>>
    PROVE  CallInv'
  <1>1. TableInv /\ call \in CallType /\ call.at = "update" /\ call.key \in Nat
    BY DEF CallInv, TableInv, CallType, SaveUpdates
  <1>2. finisher = "Save" /\ call.key # 0
    BY <1>1, Finishers3 DEF CallInv, SaveInv, FoundOrNot, BatchesInv, Whole
  <1>3. CASE /\ call.key \in Live(rows)
             /\ Leaves([rows EXCEPT ![call.key] = Asked]) /\ Done("nil") /\ UNCHANGED last
    <2>1. /\ rows' = [rows EXCEPT ![call.key] = Asked] /\ See(rows') /\ UNCHANGED <<last, pending>>
          /\ call' = [call EXCEPT !.at = "done", !.result = "nil"]
          /\ call.key \in DOMAIN rows
      BY <1>3 DEF Leaves, Done, Live
    <2>2. Table(rows, last) /\ last \in Nat /\ call.key =< last
      BY <1>1, <2>1 DEF TableInv, Table
    <2>3. rows' = Both(rows, One(call.key, Asked))
      BY <2>1, <2>2 DEF Both, Table, One
    <2>4. call' = [call EXCEPT !.key = call.key, !.at = "done", !.result = "nil"]
      BY <1>1, <2>1 DEF CallType
    <2>5. /\ UNCHANGED <<finisher, others, pending>> /\ call.at # "done"
          /\ finisher \in {"Save", "FirstOrCreate"} /\ finisher # "FirstOrCreate"
          /\ call.key \in Nat \ {0} /\ last =< last /\ last' = last
      BY <1>1, <1>2, <2>1, <2>2
    <2> QED BY <2>1, <2>2, <2>3, <2>4, <2>5, WritesOne, Zenon
  <1>4. CASE Goes("upsert")
    <2>1. call' = [call EXCEPT !.at = "upsert"] /\ UNCHANGED <<rows, last, held, pending>>
      BY <1>4 DEF Goes
    <2>2. /\ call' \in CallType /\ call'.at = "upsert" /\ call'.before = call.before
          /\ call'.key = call.key /\ call'.result = call.result
      BY <1>1, <2>1 DEF CallType, Stages
    <2>3. TableInv'
      BY <1>1, <2>1, <2>2, CallAlone DEF TableInv
    <2>4. SaveInv' /\ FoundOrNot' /\ BatchesInv'
      BY <1>2, <2>2 DEF SaveInv, FoundOrNot, BatchesInv
    <2>5. LeftAsAsked'
      BY <1>1, <2>2 DEF LeftAsAsked, TableInv
    <2> QED BY <2>3, <2>4, <2>5 DEF CallInv
  <1> QED BY <1>3, <1>4 DEF SaveUpdates, Asked

LEMMA SaveInsertsStep ==
    ASSUME finisher \in DOMAIN At, CallInv, SaveInserts, UNCHANGED <<finisher, db, others>>
    PROVE  CallInv'
  <1>1. TableInv /\ call \in CallType /\ call.at = "upsert" /\ call.key \in Nat /\ last \in Nat
    BY DEF CallInv, TableInv, CallType, SaveInserts
  <1>2. finisher = "Save" /\ call.key # 0
    BY <1>1, Finishers3 DEF CallInv, SaveInv, FoundOrNot, BatchesInv, Whole
  <1>3. /\ rows' = Both(rows, One(call.key, Asked)) /\ See(rows') /\ UNCHANGED pending
        /\ call' = [call EXCEPT !.at = "done", !.result = "nil"]
        /\ last' = IF call.key > last THEN call.key ELSE last
    BY DEF SaveInserts, Leaves, Done, Asked, One
  <1>4. call' = [call EXCEPT !.key = call.key, !.at = "done", !.result = "nil"]
    BY <1>1, <1>3 DEF CallType
  <1>5. last' \in Nat /\ last =< last' /\ call.key =< last'
    BY <1>1, <1>3
  <1> QED BY <1>1, <1>2, <1>3, <1>4, <1>5, WritesOne

LEMMA CreatesStep ==
    ASSUME finisher \in DOMAIN At, CallInv, Creates, UNCHANGED <<finisher, db, others>>
    PROVE  CallInv'
  <1>1. TableInv /\ call \in CallType /\ call.at = "create" /\ last \in Nat
    BY DEF CallInv, TableInv, CallType, Creates
  <1>2. finisher \in {"Save", "FirstOrCreate"}
    BY <1>1, Finishers3 DEF CallInv, BatchesInv, Whole
  <1>3. /\ rows' = Both(rows, One(last + 1, Asked)) /\ See(rows') /\ UNCHANGED pending
        /\ call' = [call EXCEPT !.key = last + 1, !.at = "done", !.result = "nil"]
        /\ last' = last + 1
    BY DEF Creates, Inserts, Leaves, Asked, One
  <1>4. last + 1 \notin DOMAIN rows /\ last + 1 \in Nat \ {0} /\ last =< last + 1
    BY <1>1 DEF TableInv, Table
  <1>5. /\ UNCHANGED <<finisher, others, pending>> /\ call.at # "done"
        /\ last + 1 \in Nat /\ last + 1 =< last + 1
        /\ finisher = "FirstOrCreate" => call.at = "create" /\ last + 1 \notin DOMAIN rows
    BY <1>1, <1>3, <1>4
  <1> QED BY <1>2, <1>3, <1>4, <1>5, WritesOne, Zenon

LEMMA FoundRow ==
    ASSUME TableInv, NEW k \in Matching(rows, call.name)
    PROVE  /\ k \in DOMAIN rows /\ k \in Nat /\ rows[k].data \in Datas
           /\ rows[k] = NewRow(call.name, rows[k].data)
  <1>1. k \in DOMAIN rows /\ rows[k].name = call.name /\ ~rows[k].deleted
    BY DEF Matching, Live
  <1>2. rows[k] \in Row /\ k \in Nat
    BY <1>1 DEF TableInv, Table
  <1> QED BY <1>1, <1>2 DEF Row, NewRow

LEMMA FindsStep ==
    ASSUME finisher \in DOMAIN At, CallInv, Finds, UNCHANGED <<finisher, db, others>>
    PROVE  CallInv'
  <1>1. /\ TableInv /\ call \in CallType /\ call.at = "find" /\ call.result = "none"
        /\ call.name \in Names
        /\ UNCHANGED <<rows, last, held, pending>>
    BY DEF CallInv, TableInv, Finds, CallType
  <1>2. finisher = "FirstOrCreate"
    BY <1>1, Finishers3 DEF CallInv, SaveInv, BatchesInv, Whole
  <1>3. ASSUME NEW d \in Assembled, Matching(rows, call.name) = {},
               call' = [call EXCEPT !.data = d, !.at = "create"]
        PROVE  CallInv'
    <2>1. d \in Datas /\ call.assign \subseteq {d}
      BY <1>1 DEF Assembled, CallType
    <2>2. /\ call' \in CallType /\ call'.at = "create" /\ call'.before = call.before
          /\ call'.result = "none" /\ call'.data = d /\ call'.assign = call.assign
          /\ call'.name = call.name
      BY <1>1, <1>3, <2>1 DEF CallType, Stages
    <2>3. TableInv'
      BY <1>1, <2>2, CallAlone
    <2>4. SaveInv' /\ BatchesInv'
      BY <1>2 DEF SaveInv, BatchesInv
    <2>5. FoundOrNot'
      BY <1>1, <1>3, <2>1, <2>2 DEF FoundOrNot, Matching, Live
    <2>6. LeftAsAsked'
      BY <2>2 DEF LeftAsAsked
    <2> QED BY <2>3, <2>4, <2>5, <2>6 DEF CallInv
  <1>4. ASSUME NEW k \in Matching(rows, call.name),
               call' = [call EXCEPT !.key = k, !.data = rows[k].data,
                          !.at = IF call.assign = {} THEN "done" ELSE "assign",
                          !.result = IF call.assign = {} THEN "nil" ELSE @]
        PROVE  CallInv'
    <2>1. /\ k \in DOMAIN rows /\ k \in Nat /\ rows[k].data \in Datas
          /\ rows[k] = NewRow(call.name, rows[k].data)
      BY SMTT(60), <1>1, FoundRow
    <2>2. /\ call' \in CallType /\ call'.before = call.before /\ call'.name = call.name
          /\ call'.key = k /\ call'.data = rows[k].data /\ call'.assign = call.assign
          /\ call'.at = IF call.assign = {} THEN "done" ELSE "assign"
          /\ call'.result = IF call.assign = {} THEN "nil" ELSE "none"
      BY <1>1, <1>4, <2>1 DEF CallType, Stages
    <2>3. TableInv'
      BY <1>1, <2>2, CallAlone
    <2>4. SaveInv' /\ BatchesInv'
      BY <1>2 DEF SaveInv, BatchesInv
    <2>5. <<k, NewRow(call.name, rows[k].data)>> \in held
      BY <1>1, <2>1 DEF TableInv, WasThere
    <2>6. FoundOrNot'
      <3>1. \E d \in Datas : <<call'.key, NewRow(call'.name, d)>> \in held'
        BY <1>1, <2>1, <2>2, <2>5
      <3>2. call'.key \in Matching(rows, call.name)
        BY <2>2
      <3> QED BY <1>1, <2>2, <3>1, <3>2 DEF FoundOrNot, WasThere, Matching, Live
    <2>7. LeftAsAsked'
      <3>1. CASE call.assign # {}
        BY <2>2, <3>1 DEF LeftAsAsked
      <3>2. CASE call.assign = {}
        <4>1. others = 0 => rows' = Both(call'.before, One(call'.key, Asked'))
          <5> SUFFICES ASSUME others = 0 PROVE rows = Both(rows, One(k, rows[k]))
            BY <1>1, <1>2, <2>1, <2>2 DEF TableInv, Asked
          <5> QED BY <1>1, <2>1 DEF TableInv, Table, Both, One
        <4>2. \E d \in Datas : <<call'.key, NewRow(call'.name, d)>> \in held'
          BY <1>1, <2>1, <2>2, <2>5
        <4>3. others = 0 => Matching(call'.before, call'.name) = Matching(rows, call.name)
          BY <1>1, <1>2, <2>2 DEF TableInv
        <4>4. /\ call'.assign = {} /\ finisher' = "FirstOrCreate" /\ others' = others
              /\ Matching(rows, call.name) = Matching(rows', call'.name)
          BY <1>1, <1>2, <2>2, <3>2
        <4> QED BY <4>1, <4>2, <4>3, <4>4 DEF LeftAsAsked, WasThere, One
      <3> QED BY <3>1, <3>2
    <2> QED BY <2>3, <2>4, <2>6, <2>7 DEF CallInv
  <1> QED BY <1>3, <1>4 DEF Finds

LEMMA AssignsStep ==
    ASSUME finisher \in DOMAIN At, CallInv, Assigns, UNCHANGED <<finisher, db, others>>
    PROVE  CallInv'
  <1>1. /\ TableInv /\ call \in CallType /\ call.at = "assign" /\ call.result = "none"
        /\ call.name \in Names /\ call.key \in Nat /\ last \in Nat /\ last' = last
        /\ Table(rows, last)
    BY DEF CallInv, TableInv, Assigns, CallType
  <1>2. finisher = "FirstOrCreate"
    BY <1>1, Finishers3 DEF CallInv, SaveInv, BatchesInv, Whole
  <1>3. PICK d \in call.assign :
          /\ rows' = [k \in DOMAIN rows |-> IF k = call.key /\ k \in Matching(rows, call.name)
                                            THEN [rows[k] EXCEPT !.data = d] ELSE rows[k]]
          /\ See(rows') /\ UNCHANGED pending
          /\ call' = [call EXCEPT !.data = d, !.at = "done", !.result = "nil"]
    BY DEF Assigns, Leaves
  <1>4. d \in Datas /\ call.assign = {d}
    BY <1>1, <1>3 DEF CallType
  <1>5. /\ call' \in CallType /\ call'.before = call.before /\ call'.name = call.name
        /\ call'.key = call.key /\ call'.data = d /\ call'.assign = call.assign
        /\ call'.at = "done" /\ call'.result = "nil"
    BY <1>1, <1>3, <1>4 DEF CallType, Stages
  <1>6. \A r \in Row : [r EXCEPT !.data = d] \in Row /\ [r EXCEPT !.data = d].name = r.name
                       /\ [r EXCEPT !.data = d].deleted = r.deleted
                       /\ [r EXCEPT !.data = d].data = d
    BY <1>4 DEF Row
  <1>7. Table(rows', last')
    BY <1>1, <1>3, <1>6 DEF Table
  <1>8. TableInv'
    <2>1. /\ \A j \in DOMAIN rows' : <<j, rows'[j]>> \in held'
          /\ \A e \in held' : e[1] \in 1..last'
          /\ Table(pending, last') /\ Table(call.before, last')
      BY <1>1, <1>3, <1>7, Sees
    <2> QED BY <1>1, <1>2, <1>3, <1>5, <1>7, <2>1 DEF TableInv, WasThere
  <1>9. SaveInv' /\ FoundOrNot' /\ BatchesInv'
    BY <1>2, <1>5 DEF SaveInv, FoundOrNot, BatchesInv
  <1>10. LeftAsAsked'
    <2>1. \E x \in Datas : <<call'.key, NewRow(call'.name, x)>> \in held'
      BY <1>1, <1>2, <1>3, <1>5 DEF CallInv, FoundOrNot, WasThere, See
    <2>2. ASSUME others = 0
          PROVE  /\ rows' = Both(call'.before, One(call'.key, Asked'))
                 /\ Matching(call'.before, call'.name) = Matching(rows', call'.name)
      <3>1. rows = call.before /\ call.key \in Matching(rows, call.name)
        BY <1>1, <1>2, <2>2 DEF CallInv, FoundOrNot, TableInv
      <3>2. rows[call.key] = NewRow(call.name, rows[call.key].data) /\ call.key \in DOMAIN rows
        BY <1>1, <3>1, FoundRow
      <3>3. [rows[call.key] EXCEPT !.data = d] = NewRow(call.name, d)
        <4>1. rows[call.key] \in Row /\ rows[call.key].name = call.name /\ rows[call.key].deleted = FALSE
          BY <1>1, <3>2 DEF Table, NewRow
        <4> DEFINE e == [rows[call.key] EXCEPT !.data = d]
        <4>2. /\ e \in Row /\ e.name = rows[call.key].name
              /\ e.deleted = rows[call.key].deleted /\ e.data = d
          BY <1>6, <4>1
        <4> HIDE DEF e
        <4>3. e = NewRow(call.name, d)
          BY <4>1, <4>2 DEF Row, NewRow
        <4> QED BY <4>3 DEF e
      <3>4. rows' = Both(rows, One(call.key, NewRow(call.name, d)))
        BY <1>1, <1>3, <3>1, <3>2, <3>3 DEF Both, One, Table
      <3>5. Matching(rows', call.name) = Matching(rows, call.name)
        <4>1. DOMAIN rows' = DOMAIN rows
          BY <1>3
        <4>2. \A k \in DOMAIN rows : rows'[k].name = rows[k].name /\ rows'[k].deleted = rows[k].deleted
          BY <1>1, <1>3, <1>6 DEF Table
        <4> QED BY <4>1, <4>2 DEF Matching, Live
      <3> QED BY <1>5, <3>1, <3>4, <3>5 DEF Asked
    <2>3. call'.assign \subseteq {call'.data}
      BY <1>4, <1>5
    <2> QED BY <1>2, <1>5, <2>1, <2>2, <2>3 DEF LeftAsAsked, WasThere, One
  <1> QED BY <1>8, <1>9, <1>10 DEF CallInv

------------------------------------------------------------------------------
(***************************************************************************)
(* A batch.                                                                *)
(***************************************************************************)
LEMMA OneMore ==
    ASSUME NEW a \in Nat, NEW s \in Nat \ {0}, a % s = 0
    PROVE  (a + s) % s = 0
  <1>1. /\ a % s \in 0..(s - 1) /\ a \div s \in Nat /\ a = s * (a \div s) + (a % s)
        /\ (a + s) % s \in 0..(s - 1) /\ (a + s) \div s \in Nat
        /\ a + s = s * ((a + s) \div s) + ((a + s) % s)
    OBVIOUS
  <1> DEFINE p == a \div s
             q == (a + s) \div s
             r == (a + s) % s
  <1>2. p \in Nat /\ q \in Nat /\ r \in 0..(s - 1) /\ s * p + s = s * q + r
    BY <1>1
  <1> HIDE DEF p, q, r
  <1>3. s * (p + 1) = s * p + s
    BY <1>2
  <1>4. q =< p + 1
    <2> SUFFICES ASSUME q >= p + 2 PROVE FALSE
      BY <1>2
    <2>1. s * q >= s * (p + 2)
      BY <1>2
    <2>2. s * (p + 2) = s * p + s + s
      BY <1>2
    <2> QED BY <1>2, <2>1, <2>2
  <1>5. q >= p + 1
    <2> SUFFICES ASSUME q =< p PROVE FALSE
      BY <1>2
    <2>1. s * q =< s * p
      BY <1>2
    <2> QED BY <1>2, <2>1
  <1>6. q = p + 1
    BY <1>2, <1>4, <1>5
  <1>7. r = 0
    BY <1>2, <1>3, <1>6
  <1> QED BY <1>7 DEF r

\* The keys that are given out next.
LEMMA NextKeys ==
    ASSUME NEW S, NEW l \in Nat, NEW n \in Nat, S \subseteq 1..l
    PROVE  /\ IsFiniteSet(S) /\ Cardinality(S) \in Nat
           /\ Cardinality(S \cup (l + 1 .. l + n)) = Cardinality(S) + n
  <1>1. IsFiniteSet(1..l) /\ IsFiniteSet(l + 1 .. l + n)
    BY SMTT(60), FS_Interval
  <1>2. Cardinality(l + 1 .. l + n) = n
    <2>1. Cardinality(l + 1 .. l + n) = IF l + 1 > l + n THEN 0 ELSE (l + n) - (l + 1) + 1
      BY FS_Interval
    <2> QED BY <2>1
  <1>3. IsFiniteSet(S) /\ Cardinality(S) \in Nat
    BY <1>1, FS_Subset, FS_CardinalityType
  <1>4. S \cap (l + 1 .. l + n) = {}
    OBVIOUS
  <1>5. Cardinality(S \cap (l + 1 .. l + n)) = 0
    BY <1>4, FS_EmptySet
  <1>6. Cardinality(S \cup (l + 1 .. l + n))
          = Cardinality(S) + Cardinality(l + 1 .. l + n) - Cardinality(S \cap (l + 1 .. l + n))
    BY <1>1, <1>3, FS_Union
  <1> QED BY <1>2, <1>3, <1>5, <1>6

\* The keys after those that were given, and the rows with them.
LEMMA Given ==
    ASSUME NEW ks \in Seq(Nat), NEW l \in Nat, NEW n \in Nat, NEW g,
           g = [i \in 1..n |-> l + i]
    PROVE  /\ ks \o g \in Seq(Nat) /\ Len(ks \o g) = Len(ks) + n
           /\ DOMAIN ks = 1..Len(ks) /\ DOMAIN (ks \o g) = 1..(Len(ks) + n)
           /\ \A i \in 1..Len(ks) : (ks \o g)[i] = ks[i]
           /\ \A i \in 1..n : (ks \o g)[Len(ks) + i] = l + i
           /\ \A i \in 1..(Len(ks) + n) :
                 i \in 1..Len(ks) \/ (i - Len(ks) \in 1..n /\ Len(ks) + (i - Len(ks)) = i)
  <1>1. g \in Seq(Nat) /\ Len(g) = n /\ \A i \in 1..n : g[i] = l + i
    OBVIOUS
  <1>2. Len(ks) \in Nat /\ DOMAIN ks = 1..Len(ks)
    OBVIOUS
  <1> QED BY <1>1, <1>2

LEMMA RowsGiven ==
    ASSUME NEW vs \in Seq(Names), NEW d \in Datas, NEW f \in Nat, NEW l \in Nat, NEW n \in Nat,
           f + n =< Len(vs), NEW rs,
           rs = [k \in l + 1 .. l + n |-> NewRow(vs[f + k - l], d)]
    PROVE  /\ DOMAIN rs = l + 1 .. l + n
           /\ \A i \in 1..n : rs[l + i] = NewRow(vs[f + i], d)
           /\ Table(rs, l + n)
  <1>1. \A k \in l + 1 .. l + n : k - l \in 1..n /\ f + k - l = f + (k - l) /\ k \in 1 .. l + n
    OBVIOUS
  <1>2. \A i \in 1..n : f + i \in 1..Len(vs) /\ vs[f + i] \in Names
    <2> SUFFICES ASSUME NEW i \in 1..n PROVE f + i \in 1..Len(vs) /\ vs[f + i] \in Names
      OBVIOUS
    <2>1. Len(vs) \in Nat
      OBVIOUS
    <2>2. f + i \in 1..Len(vs)
      BY <2>1
    <2> QED BY SMTT(60), <2>2
  <1>3. \A i \in 1..n : NewRow(vs[f + i], d) \in Row
    BY <1>2, RowOf
  <1>4. \A k \in l + 1 .. l + n : rs[k] \in Row
    BY <1>1, <1>3
  <1>5. \A i \in 1..n : l + i \in l + 1 .. l + n /\ f + (l + i) - l = f + i
    BY SMTT(60)
  <1> QED BY <1>1, <1>4, <1>5 DEF Table

LEMMA NextBatchStep ==
    ASSUME finisher \in DOMAIN At, CallInv, Batch, UNCHANGED <<finisher, db, others>>
    PROVE  CallInv'
  <1> DEFINE from == Len(call.keys)
             n == IF from + call.size > Len(call.values) THEN Len(call.values) - from ELSE call.size
             new == [k \in last + 1 .. last + n |-> NewRow(call.values[from + k - last], call.data)]
             given == [i \in 1..n |-> last + i]
  <1>1. /\ TableInv /\ call \in CallType /\ call.at = "batch" /\ call.result = "none"
        /\ Len(call.keys) < Len(call.values)
    BY DEF CallInv, TableInv, Batch
  <1>2. /\ call.data \in Datas /\ call.values \in Seq(Names) /\ call.keys \in Seq(Nat)
        /\ call.size \in Nat /\ last \in Nat
    BY <1>1 DEF CallType, TableInv
  <1>3. from \in Nat /\ Len(call.values) \in Nat
    BY <1>2
  <1>4. /\ finisher = "CreateInBatches" /\ Whole /\ Kept /\ Shown /\ Counted
        /\ SaveInv /\ FoundOrNot
    BY <1>1, Finishers3 DEF CallInv, SaveInv, FoundOrNot, BatchesInv
  <1>5. /\ n \in Nat /\ from + n =< Len(call.values) /\ n > 0
        /\ n = call.size \/ from + n = Len(call.values)
    <2>1. call.size # 0 /\ from < Len(call.values)
      BY <1>1, <1>4 DEF Whole
    <2> HIDE DEF from
    <2> QED BY SMTT(60), <1>2, <1>3, <2>1
  <1>6. /\ last' = last + n
        /\ call' = [call EXCEPT !.keys = call.keys \o given]
        /\ IF InTx
           THEN pending' = Both(pending, new) /\ UNCHANGED <<rows, held>>
           ELSE rows' = Both(rows, new) /\ See(rows') /\ UNCHANGED pending
    <2>1. [call EXCEPT !.keys = @ \o given] = [call EXCEPT !.keys = call.keys \o given]
      BY <1>1 DEF CallType
    <2> HIDE DEF given
    <2> QED BY <2>1 DEF Batch, Leaves, given
  <1>7. /\ DOMAIN new = last + 1 .. last + n
        /\ \A i \in 1..n : new[last + i] = As(from + i)
        /\ Table(new, last + n)
    <2> HIDE DEF from, n
    <2> QED BY SMTT(60), <1>2, <1>3, <1>5, RowsGiven DEF As
  <1>8. /\ call.keys \o given \in Seq(Nat) /\ Len(call.keys \o given) = from + n
        /\ DOMAIN call.keys = 1..from /\ DOMAIN (call.keys \o given) = 1..(from + n)
        /\ \A i \in 1..from : (call.keys \o given)[i] = call.keys[i]
        /\ \A i \in 1..n : (call.keys \o given)[from + i] = last + i
        /\ \A i \in 1..(from + n) : i \in 1..from \/ (i - from \in 1..n /\ from + (i - from) = i)
    <2> HIDE DEF n
    <2> QED BY SMTT(60), <1>2, <1>5, Given
  <1> HIDE DEF new, given, n, from
  <1>9. /\ call' \in CallType /\ call'.at = "batch" /\ call'.result = "none"
        /\ call'.before = call.before /\ call'.name = call.name /\ call'.data = call.data
        /\ call'.values = call.values /\ call'.size = call.size
        /\ call'.keys = call.keys \o given
    BY <1>1, <1>6, <1>8 DEF CallType, Stages
  <1>10. (InTx' <=> InTx) /\ \A i : As(i)' = As(i)
    BY <1>9 DEF InTx, As
  <1>11. /\ Table(rows, last) /\ Table(pending, last) /\ last + n \in Nat /\ last =< last + n
         /\ Table(Both(rows, new), last + n) /\ Table(Both(pending, new), last + n)
         /\ Table(rows, last + n) /\ Table(pending, last + n)
    <2>1. Table(rows, last) /\ Table(pending, last) /\ last + n \in Nat /\ last =< last + n
      BY <1>1, <1>2, <1>5 DEF TableInv
    <2> QED BY <1>2, <1>7, <2>1, Tables, Zenon
  <1>12. /\ Table(rows', last') /\ Table(pending', last') /\ last' \in Nat /\ last =< last'
         /\ See(rows') \/ UNCHANGED <<rows, held>>
    BY <1>6, <1>11
  <1>13. /\ held \subseteq held'
         /\ \A k \in DOMAIN rows' : <<k, rows'[k]>> \in held'
         /\ \A e \in held' : e[1] \in 1..last'
         /\ Table(call.before, last')
    BY <1>1, <1>12, Sees
  <1>14. TableInv'
    BY <1>1, <1>4, <1>9, <1>12, <1>13 DEF TableInv, WasThere
  <1>15. SaveInv' /\ FoundOrNot' /\ LeftAsAsked'
    BY <1>4, <1>9 DEF SaveInv, FoundOrNot, LeftAsAsked
  <1>16. Whole'
    <2>1. \A i \in DOMAIN call'.keys : call'.keys[i] \in 1..last'
      <3> SUFFICES ASSUME NEW i \in 1..(from + n) PROVE (call.keys \o given)[i] \in 1..(last + n)
        BY <1>6, <1>8, <1>9
      <3>1. CASE i \in 1..from
        <4>1. (call.keys \o given)[i] = call.keys[i] /\ call.keys[i] \in 1..last
          BY <1>4, <1>8, <3>1 DEF Whole
        <4> QED BY SMTT(60), <1>2, <1>5, <4>1
      <3>2. CASE i - from \in 1..n /\ from + (i - from) = i
        <4>1. (call.keys \o given)[i] = last + (i - from)
          BY <1>8, <3>2
        <4> QED BY <1>2, <1>3, <1>5, <3>2, <4>1
      <3> QED BY <1>8, <3>1, <3>2
    <2>2. (from + n) % call.size = 0 \/ from + n = Len(call.values)
      <3>1. from % call.size = 0 /\ call.size # 0
        BY <1>1, <1>3, <1>4 DEF Whole, from
      <3> QED BY <1>2, <1>3, <1>5, <3>1, OneMore
    <2> QED BY <1>4, <1>5, <1>8, <1>9, <2>1, <2>2 DEF Whole
  <1>17. Kept'
    <2>1. ~InTx => pending' = Nothing
      BY <1>4, <1>6 DEF Kept
    <2> SUFFICES ASSUME InTx
                 PROVE  /\ DOMAIN pending' = {call'.keys[i] : i \in DOMAIN call'.keys}
                        /\ \A i \in DOMAIN call'.keys : pending'[call'.keys[i]] = As(i)
                        /\ \A e \in held' : e[1] \notin DOMAIN pending'
      BY <1>9, <1>10, <2>1 DEF Kept
    <2>2. /\ DOMAIN pending' = DOMAIN pending \cup (last + 1 .. last + n)
          /\ \A k \in last + 1 .. last + n : pending'[k] = new[k]
          /\ \A k \in DOMAIN pending \ (last + 1 .. last + n) : pending'[k] = pending[k]
          /\ held' = held
      <3>1. /\ DOMAIN Both(pending, new) = DOMAIN pending \cup DOMAIN new
            /\ \A k \in DOMAIN new : Both(pending, new)[k] = new[k]
            /\ \A k \in DOMAIN pending \ DOMAIN new : Both(pending, new)[k] = pending[k]
        BY <1>2, <1>7, <1>11, Tables, ZenonT(60)
      <3> QED BY <1>6, <1>7, <3>1
    <2>3. /\ DOMAIN pending = {call.keys[i] : i \in 1..from}
          /\ \A i \in 1..from : pending[call.keys[i]] = As(i)
          /\ \A e \in held : e[1] \notin DOMAIN pending
      BY <1>1, <1>4, <1>8 DEF Kept
    <2>4. DOMAIN pending \subseteq 1..last
      BY <1>11 DEF Table
    <2>5. \A i \in 1..n : last + i \in last + 1 .. last + n
      BY <1>2, <1>5
    <2>6. \A k \in last + 1 .. last + n : k - last \in 1..n /\ last + (k - last) = k
      BY <1>2, <1>5
    <2>7. ASSUME NEW i \in 1..(from + n)
          PROVE  (call.keys \o given)[i] \in DOMAIN pending' /\ pending'[(call.keys \o given)[i]] = As(i)
      <3>1. CASE i \in 1..from
        <4>1. call.keys[i] \in DOMAIN pending /\ call.keys[i] \notin last + 1 .. last + n
          BY SMTT(60), <1>2, <2>3, <2>4, <3>1
        <4> QED BY <1>8, <2>2, <2>3, <3>1, <4>1
      <3>2. CASE i - from \in 1..n /\ from + (i - from) = i
        <4>1. (call.keys \o given)[i] = last + (i - from) /\ new[last + (i - from)] = As(i)
          BY <1>7, <1>8, <3>2
        <4> QED BY <2>2, <2>5, <3>2, <4>1
      <3> QED BY <1>8, <3>1, <3>2
    <2>8. ASSUME NEW k \in DOMAIN pending'
          PROVE  \E i \in 1..(from + n) : k = (call.keys \o given)[i]
      <3>1. CASE k \in DOMAIN pending
        <4>1. PICK i \in 1..from : k = call.keys[i]
          BY <2>3, <3>1
        <4>2. i \in 1..(from + n)
          BY <1>3, <1>5
        <4> QED BY <1>8, <4>1, <4>2
      <3>2. CASE k \in last + 1 .. last + n
        <4>1. from + (k - last) \in 1..(from + n)
          BY <1>3, <1>5, <2>6, <3>2
        <4> QED BY <1>8, <2>6, <3>2, <4>1
      <3> QED BY <2>2, <3>1, <3>2
    <2>9. \A e \in held' : e[1] \notin DOMAIN pending'
      <3> SUFFICES ASSUME NEW e \in held PROVE e[1] \notin DOMAIN pending'
        BY <2>2
      <3>1. e[1] \in 1..last
        BY <1>1 DEF TableInv
      <3> QED BY <1>2, <2>2, <2>3, <3>1
    <2> DEFINE ks == call.keys \o given
    <2>10. DOMAIN ks = 1..(from + n) /\ call'.keys = ks
      BY <1>8, <1>9
    <2>11. \A i \in 1..(from + n) : ks[i] \in DOMAIN pending' /\ pending'[ks[i]] = As(i)
      BY <2>7
    <2>12. \A k \in DOMAIN pending' : \E i \in 1..(from + n) : k = ks[i]
      BY <2>8
    <2> HIDE DEF ks
    <2>13. DOMAIN pending' = {ks[i] : i \in 1..(from + n)}
      BY <2>11, <2>12
    <2>14. DOMAIN pending' = {call'.keys[i] : i \in DOMAIN call'.keys}
      BY <2>10, <2>13, Zenon
    <2>15. \A i \in DOMAIN call'.keys : pending'[call'.keys[i]] = As(i)
      BY <2>10, <2>11, Zenon
    <2> QED BY <2>9, <2>14, <2>15, Zenon
  <1>18. Shown'
    <2> SUFFICES ASSUME ~InTx, NEW i \in 1..(from + n)
                 PROVE  <<(call.keys \o given)[i], As(i)>> \in held'
      BY <1>8, <1>9, <1>10 DEF Shown, WasThere
    <2>1. CASE i \in 1..from
      BY <1>4, <1>8, <1>13, <2>1 DEF Shown, WasThere
    <2>2. CASE i - from \in 1..n /\ from + (i - from) = i
      <3>1. (call.keys \o given)[i] = last + (i - from) /\ new[last + (i - from)] = As(i)
        BY <1>7, <1>8, <2>2
      <3>2. last + (i - from) \in DOMAIN new
        BY SMTT(60), <1>2, <1>5, <1>7, <2>2
      <3>3. /\ DOMAIN rows' = DOMAIN rows \cup DOMAIN new
            /\ \A k \in DOMAIN new : rows'[k] = new[k]
        <4>1. /\ DOMAIN Both(rows, new) = DOMAIN rows \cup DOMAIN new
              /\ \A k \in DOMAIN new : Both(rows, new)[k] = new[k]
          BY <1>2, <1>7, <1>11, Tables, ZenonT(60)
        <4> QED BY <1>6, <4>1
      <3> QED BY <1>13, <3>1, <3>2, <3>3
    <2> QED BY <1>8, <2>1, <2>2
  <1>19. Counted'
    <2>1. DOMAIN rows' \cup DOMAIN pending'
            = (DOMAIN rows \cup DOMAIN pending) \cup (last + 1 .. last + n)
      <3>1. /\ DOMAIN Both(rows, new) = DOMAIN rows \cup DOMAIN new
            /\ DOMAIN Both(pending, new) = DOMAIN pending \cup DOMAIN new
        BY <1>2, <1>7, <1>11, Tables, Zenon
      <3> QED BY <1>6, <1>7, <3>1
    <2>2. DOMAIN rows \cup DOMAIN pending \subseteq 1..last
      BY <1>11 DEF Table
    <2>3. Cardinality((DOMAIN rows \cup DOMAIN pending) \cup (last + 1 .. last + n))
            = Cardinality(DOMAIN rows \cup DOMAIN pending) + n
      BY <1>2, <1>5, <2>2, NextKeys
    <2>4. DOMAIN call.before \subseteq 1..last
      BY <1>1 DEF TableInv, Table
    <2>5. Cardinality(DOMAIN call.before) \in Nat
      BY <1>2, <1>5, <2>4, NextKeys
    <2>6. others = 0 => Cardinality(DOMAIN rows \cup DOMAIN pending)
                          = Cardinality(DOMAIN call.before) + from
      BY <1>1, <1>4 DEF Counted, from
    <2>7. others = 0 => Cardinality(DOMAIN rows' \cup DOMAIN pending')
                          = Cardinality(DOMAIN call.before) + (from + n)
      <3> DEFINE c == Cardinality(DOMAIN rows \cup DOMAIN pending)
                 b == Cardinality(DOMAIN call.before)
      <3>1. Cardinality(DOMAIN rows' \cup DOMAIN pending') = c + n
        BY <2>1, <2>3, Zenon
      <3>2. b \in Nat /\ (others = 0 => c = b + from)
        BY <2>5, <2>6
      <3> HIDE DEF b, c
      <3>3. others = 0 => c + n = b + (from + n)
        BY <1>3, <1>5, <3>2
      <3> QED BY <3>1, <3>3 DEF b
    <2>8. call'.before = call.before /\ Len(call'.keys) = from + n /\ others' = others
      BY <1>8, <1>9
    <2> QED BY <2>7, <2>8 DEF Counted
  <1> QED BY <1>4, <1>14, <1>15, <1>16, <1>17, <1>18, <1>19 DEF CallInv, BatchesInv

LEMMA BatchesEndStep ==
    ASSUME finisher \in DOMAIN At, CallInv, BatchesEnd, UNCHANGED <<finisher, db, others>>
    PROVE  CallInv'
  <1>1. /\ TableInv /\ call \in CallType /\ call.at = "batch" /\ call.result = "none"
        /\ Len(call.keys) = Len(call.values) /\ last \in Nat /\ last' = last
        /\ rows' = Both(rows, pending) /\ See(rows') /\ pending' = Nothing
        /\ call' = [call EXCEPT !.at = "done", !.result = "nil"]
    BY DEF CallInv, TableInv, BatchesEnd, Done
  <1>2. /\ finisher = "CreateInBatches" /\ Whole /\ Kept /\ Shown /\ Counted
        /\ SaveInv /\ FoundOrNot
    BY <1>1, Finishers3 DEF CallInv, SaveInv, FoundOrNot, BatchesInv
  <1>3. /\ call' \in CallType /\ call'.at = "done" /\ call'.result = "nil"
        /\ call'.before = call.before /\ call'.name = call.name /\ call'.data = call.data
        /\ call'.values = call.values /\ call'.size = call.size /\ call'.keys = call.keys
    BY <1>1 DEF CallType, Stages
  <1>4. (InTx' <=> InTx) /\ \A i : As(i)' = As(i)
    BY <1>3 DEF InTx, As
  <1>5. /\ call.keys \in Seq(Nat) /\ call.values \in Seq(Names)
        /\ DOMAIN call.keys = 1..Len(call.keys) /\ DOMAIN call.values = DOMAIN call.keys
    BY <1>1 DEF CallType
  <1>6. /\ Table(rows', last') /\ DOMAIN rows' = DOMAIN rows \cup DOMAIN pending
        /\ \A k \in DOMAIN pending : rows'[k] = pending[k]
    <2>1. Table(rows, last) /\ Table(pending, last) /\ last =< last /\ last \in Nat
      BY <1>1 DEF TableInv
    <2>2. /\ Table(Both(rows, pending), last)
          /\ DOMAIN Both(rows, pending) = DOMAIN rows \cup DOMAIN pending
          /\ \A k \in DOMAIN pending : Both(rows, pending)[k] = pending[k]
      BY ONLY <2>1, Tables, ZenonT(60)
    <2> QED BY <1>1, <2>2
  <1>7. /\ held \subseteq held'
        /\ \A k \in DOMAIN rows' : <<k, rows'[k]>> \in held'
        /\ \A e \in held' : e[1] \in 1..last'
        /\ Table(call.before, last')
    BY <1>1, <1>6, Sees
  <1>8. TableInv'
    BY <1>1, <1>2, <1>3, <1>6, <1>7, NoRows DEF TableInv, WasThere
  <1>9. \A i \in DOMAIN call.keys : <<call.keys[i], As(i)>> \in held'
    <2>1. CASE InTx
      <3> SUFFICES ASSUME NEW i \in DOMAIN call.keys PROVE <<call.keys[i], As(i)>> \in held'
        OBVIOUS
      <3>1. call.keys[i] \in DOMAIN pending /\ pending[call.keys[i]] = As(i)
        BY <1>1, <1>2, <2>1 DEF Kept
      <3> QED BY <1>6, <1>7, <3>1
    <2>2. CASE ~InTx
      BY <1>2, <1>7, <2>2 DEF Shown, WasThere
    <2> QED BY <2>1, <2>2
  <1>10. Whole'
    BY <1>1, <1>2, <1>3 DEF Whole
  <1>11. Kept'
    BY <1>1, <1>3 DEF Kept
  <1>12. Shown'
    BY <1>3, <1>4, <1>9 DEF Shown, WasThere
  <1>13. others = 0 => Cardinality(DOMAIN rows') = Cardinality(DOMAIN call.before) + Len(call.keys)
    BY <1>1, <1>2, <1>6 DEF Counted
  <1>14. Counted'
    <2>1. DOMAIN rows' \cup DOMAIN pending' = DOMAIN rows'
      BY <1>1, <1>8, NoRows DEF TableInv
    <2> QED BY <1>3, <1>13, <2>1 DEF Counted
  <1>15. LeftAsAsked'
    <2>1. /\ \A i \in DOMAIN call'.values :
                <<call'.keys[i], [j \in DOMAIN call'.keys |-> NewRow(call'.values[j], call'.data)][i]>> \in held'
          /\ others' = 0 => Cardinality(DOMAIN rows')
                              = Cardinality(DOMAIN call'.before) + Len(call'.values)
      BY <1>1, <1>3, <1>5, <1>9, <1>13 DEF As
    <2> QED BY <1>2, <2>1 DEF LeftAsAsked, WasThere
  <1>16. SaveInv' /\ FoundOrNot'
    BY <1>2 DEF SaveInv, FoundOrNot
  <1> QED BY <1>8, <1>10, <1>11, <1>12, <1>14, <1>15, <1>16 DEF CallInv, BatchesInv

\* What others do.  They end what holds of a call that is alone.
LEMMA OthersStep ==
    ASSUME finisher \in DOMAIN At, CallInv, OtherInserts \/ OtherUpdates \/ OtherDeletes,
           UNCHANGED <<finisher, db>>
    PROVE  CallInv'
  <1>1. /\ TableInv /\ call \in CallType /\ last \in Nat /\ Table(rows, last) /\ others \in Nat
    BY DEF CallInv, TableInv
  <1>2. /\ call.at # "done" /\ others' = others + 1 /\ UNCHANGED <<pending, call>>
        /\ See(rows')
    BY DEF OtherInserts, OtherUpdates, OtherDeletes, Change
  <1>3. /\ last' \in Nat /\ last =< last' /\ Table(rows', last')
        /\ DOMAIN rows' \subseteq DOMAIN rows \cup {last + 1}
        /\ last + 1 \in DOMAIN rows' => last' = last + 1
    <2>1. CASE OtherInserts
      <3>1. PICK nm \in Names, d \in Datas :
              rows' = Both(rows, One(last + 1, NewRow(nm, d))) /\ last' = last + 1
        BY <2>1 DEF OtherInserts, Change, One
      <3>2. last + 1 \in 1..(last + 1) /\ last + 1 \in Nat /\ last =< last + 1 /\ NewRow(nm, d) \in Row
        BY <1>1, RowOf
      <3>3. Table(One(last + 1, NewRow(nm, d)), last + 1) /\ DOMAIN One(last + 1, NewRow(nm, d)) = {last + 1}
        BY <3>2, OneRow
      <3>4. /\ Table(Both(rows, One(last + 1, NewRow(nm, d))), last + 1)
            /\ DOMAIN Both(rows, One(last + 1, NewRow(nm, d))) = DOMAIN rows \cup {last + 1}
        BY <1>1, <3>2, <3>3, Tables, Zenon
      <3> QED BY <3>1, <3>2, <3>4
    <2>2. CASE OtherUpdates
      <3>1. PICK k \in DOMAIN rows, r \in Row : rows' = [rows EXCEPT ![k] = r] /\ last' = last
        BY <2>2 DEF OtherUpdates, Change
      <3> QED BY <1>1, <3>1 DEF Table
    <2>3. CASE OtherDeletes
      <3>1. PICK k \in DOMAIN rows : rows' = [j \in DOMAIN rows \ {k} |-> rows[j]] /\ last' = last
        BY <2>3 DEF OtherDeletes, Change
      <3> QED BY <1>1, <3>1 DEF Table
    <2> QED BY <2>1, <2>2, <2>3
  <1>4. /\ held \subseteq held'
        /\ \A k \in DOMAIN rows' : <<k, rows'[k]>> \in held'
        /\ \A e \in held' : e \in held \/ e[1] \in DOMAIN rows'
        /\ \A e \in held' : e[1] \in 1..last'
        /\ Table(pending, last') /\ Table(call.before, last')
    BY <1>1, <1>2, <1>3, Sees
  <1>5. others' # 0 /\ others' \in Nat
    BY <1>1, <1>2
  <1>6. TableInv'
    BY <1>1, <1>2, <1>3, <1>4, <1>5 DEF TableInv, WasThere
  <1>7. SaveInv'
    BY <1>2 DEF CallInv, SaveInv
  <1>8. FoundOrNot'
    <2>1. FoundOrNot
      BY DEF CallInv
    <2> QED BY <1>2, <1>4, <1>5, <2>1 DEF FoundOrNot, WasThere
  <1>9. BatchesInv'
    <2> SUFFICES ASSUME finisher = "CreateInBatches" PROVE Whole' /\ Kept' /\ Shown' /\ Counted'
      BY DEF BatchesInv
    <2>1. Whole /\ Kept /\ Shown /\ (InTx' <=> InTx) /\ \A i : As(i)' = As(i)
      BY <1>2 DEF CallInv, BatchesInv, InTx, As
    <2>2. Whole'
      BY <1>1, <1>2, <1>3, <2>1 DEF Whole
    <2>3. Kept'
      <3>1. ASSUME InTx, call.at = "batch", NEW e \in held' PROVE e[1] \notin DOMAIN pending
        <4>1. e \in held => e[1] \notin DOMAIN pending
          BY <2>1, <3>1 DEF Kept
        <4>2. last + 1 \notin DOMAIN pending
          BY <1>1 DEF TableInv, Table
        <4>3. \A k \in DOMAIN rows : k \notin DOMAIN pending
          <5> SUFFICES ASSUME NEW k \in DOMAIN rows PROVE k \notin DOMAIN pending
            OBVIOUS
          <5>1. <<k, rows[k]>> \in held
            BY <1>1 DEF TableInv, WasThere
          <5>2. <<k, rows[k]>>[1] \notin DOMAIN pending
            BY <2>1, <3>1, <5>1 DEF Kept
          <5> QED BY <5>2
        <4> QED BY <1>3, <1>4, <4>1, <4>2, <4>3
      <3>2. call.result = "none"
        BY <1>1, <1>2 DEF TableInv
      <3> QED BY <1>2, <2>1, <3>1, <3>2 DEF Kept
    <2>4. Shown'
      BY <1>2, <1>4, <2>1 DEF Shown, WasThere
    <2>5. Counted'
      BY <1>5 DEF Counted
    <2> QED BY <2>2, <2>3, <2>4, <2>5
  <1>10. LeftAsAsked'
    <2>1. call'.result = "none"
      BY <1>1, <1>2 DEF TableInv
    <2> QED BY <2>1 DEF LeftAsAsked
  <1> QED BY <1>6, <1>7, <1>8, <1>9, <1>10 DEF CallInv

LEMMA UnchangedStep ==
    ASSUME finisher \in DOMAIN At, CallInv, UNCHANGED fvars
    PROVE  CallInv'
  <1> USE DEF fvars
  <1>1. TableInv' /\ SaveInv'
    BY DEF CallInv, TableInv, SaveInv, WasThere
  <1>2. FoundOrNot'
    BY DEF CallInv, FoundOrNot, WasThere, Matching, Live
  <1>3. BatchesInv'
    BY DEF CallInv, BatchesInv, Whole, Kept, Shown, Counted, As, InTx, WasThere
  <1>4. LeftAsAsked'
    <2>1. /\ LeftAsAsked /\ Asked' = Asked
          /\ \A k, r : WasThere(k, r)' <=> WasThere(k, r)
      BY DEF CallInv, WasThere, Asked
    <2>2. CASE finisher = "Save" /\ call.result = "nil"
      BY <2>1, <2>2, Finishers3 DEF LeftAsAsked, WasThere
    <2>3. CASE finisher = "FirstOrCreate" /\ call.result = "nil"
      BY <2>1, <2>3, Finishers3 DEF LeftAsAsked, WasThere, Matching, Live
    <2>4. CASE finisher = "CreateInBatches" /\ call.result = "nil"
      BY <2>1, <2>4, Finishers3 DEF LeftAsAsked, WasThere
    <2>5. CASE call.result # "nil"
      BY <2>5 DEF LeftAsAsked
    <2> QED BY <2>2, <2>3, <2>4, <2>5, Finishers3
  <1> QED BY <1>1, <1>2, <1>3, <1>4 DEF CallInv

------------------------------------------------------------------------------
LEMMA Names1 == AName \in Names /\ AData \in Datas
  BY DEF AName, AData

\* What a program may call them with.
LEMMA Asks ==
    ASSUME NEW f \in DOMAIN At, NEW i \in Inputs[f]
    PROVE  /\ i = Input(i.key, i.assign, i.values, i.size)
           /\ i.key \in Nat /\ i.assign \in {{}} \cup {{d} : d \in Datas}
           /\ i.values \in Seq(Names) /\ i.size \in Nat
           /\ f = "CreateInBatches" => i.size # 0
  <1>1. MaxRows \in Nat /\ MaxValues \in Nat
    OBVIOUS
  <1>2. CASE f = "Save"
    <2>1. PICK k \in 0..MaxRows + 1 : i = Input(k, {}, <<>>, 0)
      BY <1>2 DEF Inputs
    <2> QED BY <1>1, <1>2, <2>1 DEF Input
  <1>3. CASE f = "FirstOrCreate"
    <2>1. PICK a \in {{}} \cup {{d} : d \in Datas} : i = Input(0, a, <<>>, 0)
      BY <1>3 DEF Inputs
    <2> QED BY <1>3, <2>1 DEF Input
  <1>4. CASE f = "CreateInBatches"
    <2>1. PICK v \in UNION {[1..n -> Names] : n \in 1..MaxValues}, s \in 1..MaxValues - 1 :
            i = Input(0, {}, v, s)
      BY <1>4 DEF Inputs
    <2>2. v \in Seq(Names)
      <3>1. PICK n \in 1..MaxValues : v \in [1..n -> Names]
        BY <2>1
      <3> QED BY <1>1, <3>1
    <2> QED BY <1>1, <2>1, <2>2 DEF Input
  <1> QED BY <1>2, <1>3, <1>4, Finishers3

LEMMA CallStart == FInit /\ finisher \in DOMAIN At => CallInv
  <1> SUFFICES ASSUME FInit, finisher \in DOMAIN At PROVE CallInv
    OBVIOUS
  <1>1. /\ pending = Nothing /\ others = 0 /\ last \in 0..MaxRows
        /\ rows \in UNION {[S -> Row] : S \in SUBSET (1..last)}
        /\ held = {<<k, rows[k]>> : k \in DOMAIN rows}
    BY Finishers3 DEF FInit
  <1>2. PICK i \in Inputs[finisher] : call = Called(At[finisher], i)
    BY Finishers3 DEF FInit
  <1>3. /\ i.key \in Nat /\ i.name \in Names /\ i.data \in Datas
        /\ i.assign \in {{}} \cup {{d} : d \in Datas}
        /\ i.values \in Seq(Names) /\ i.size \in Nat
        /\ finisher = "CreateInBatches" => i.size # 0
    BY <1>2, Asks, Names1 DEF Input
  <1>4. last \in Nat /\ Table(rows, last) /\ rows \in UNION {[S -> Row] : S \in SUBSET Nat}
    <2>1. last \in Nat
      BY <1>1
    <2>2. PICK S \in SUBSET (1..last) : rows \in [S -> Row]
      BY <1>1
    <2>3. S \in SUBSET Nat
      BY <2>1, <2>2
    <2> QED BY <2>1, <2>2, <2>3 DEF Table
  <1>5. /\ call.at = At[finisher] /\ call.result = "none" /\ call.before = rows /\ call.keys = <<>>
        /\ call.size = i.size /\ call.values = i.values
        /\ At[finisher] \in Stages /\ At[finisher] # "done"
        /\ finisher = "Save" => At[finisher] = "save"
        /\ finisher = "FirstOrCreate" => At[finisher] = "find"
        /\ finisher = "CreateInBatches" => At[finisher] = "batch"
    BY <1>2, Finishers3 DEF Called, At, Stages
  <1>6. call \in CallType
    <2>1. <<>> \in Seq(Nat) /\ "none" \in {"none", "nil", "error"}
      OBVIOUS
    <2> QED BY <1>2, <1>3, <1>4, <1>5, <2>1 DEF Called, CallType
  <1>7. TableInv
    <2>1. /\ \A k \in DOMAIN rows : WasThere(k, rows[k])
          /\ \A e \in held : e[1] \in DOMAIN rows
      BY <1>1 DEF WasThere
    <2>2. DOMAIN rows \subseteq 1..last
      BY <1>4 DEF Table
    <2>3. Table(pending, last) /\ Table(call.before, last) /\ others \in Nat
      BY <1>1, <1>4, <1>5, NoRows
    <2> QED BY <1>1, <1>4, <1>5, <1>6, <2>1, <2>2, <2>3 DEF TableInv
  <1>8. SaveInv /\ FoundOrNot /\ LeftAsAsked
    BY <1>5 DEF SaveInv, FoundOrNot, LeftAsAsked
  <1>9. BatchesInv
    <2> SUFFICES ASSUME finisher = "CreateInBatches" PROVE Whole /\ Kept /\ Shown /\ Counted
      BY DEF BatchesInv
    <2>1. /\ Len(call.keys) = 0 /\ DOMAIN call.keys = {} /\ Len(call.values) \in Nat
          /\ call.size \in Nat \ {0} /\ call.at = "batch"
      BY <1>3, <1>5
    <2>2. Whole
      <3>1. 0 % call.size = 0
        BY <2>1
      <3> QED BY <1>5, <2>1, <3>1 DEF Whole
    <2>3. Kept /\ Shown
      BY <1>1, <1>5, <2>1, NoRows DEF Kept, Shown
    <2>4. Counted
      <3>1. DOMAIN rows \cup DOMAIN pending = DOMAIN call.before
        BY <1>1, <1>4, <1>5, NoRows
      <3>2. DOMAIN rows \subseteq 1..last /\ last \in Nat /\ 0 \in Nat
        BY <1>4 DEF Table
      <3>3. Cardinality(DOMAIN rows) \in Nat
        BY <3>2, NextKeys
      <3> QED BY <1>5, <2>1, <3>1, <3>3 DEF Counted
    <2> QED BY <2>2, <2>3, <2>4
  <1> QED BY <1>7, <1>8, <1>9 DEF CallInv

FInv == finisher \in DOMAIN At => CallInv

LEMMA FAlways == FSpec => []FInv
  <1>1. FInit => FInv
    BY CallStart DEF FInv
  <1>2. FInv /\ [FNext]_<<vars, fvars>> => FInv'
    <2> SUFFICES ASSUME FInv, [FNext]_<<vars, fvars>>, finisher' \in DOMAIN At PROVE CallInv'
      BY DEF FInv
    <2>1. finisher' = finisher /\ CallInv /\ finisher # "FindInBatches"
      BY Finishers3 DEF FNext, fvars, FInv, OtherInserts, OtherUpdates, OtherDeletes
    <2>2. CASE UNCHANGED fvars
      BY <2>1, <2>2, UnchangedStep
    <2>3. CASE /\ UNCHANGED <<finisher, db>>
               /\ (Statement /\ UNCHANGED others) \/ OtherInserts \/ OtherUpdates \/ OtherDeletes
      BY <2>1, <2>3, FailsStep, SaveBeginsStep, SaveUpdatesStep, SaveInsertsStep, FindsStep,
         CreatesStep, AssignsStep, NextBatchStep, BatchesEndStep, OthersStep DEF Statement
    <2> QED BY <2>1, <2>2, <2>3 DEF FNext
  <1> QED BY <1>1, <1>2, PTL DEF FSpec

\* Save, FirstOrCreate and CreateInBatches: a call that returned nil has done what it
\* is for at some moment since it came, whatever others did between its statements,
\* and nothing else when they did nothing.
THEOREM DoesWhatIsAsked == FSpec => []LeftAsAsked
  <1>1. FInv => LeftAsAsked
    BY DEF FInv, CallInv, LeftAsAsked
  <1> QED BY <1>1, FAlways, PTL

\* CreateInBatches: its transaction shows all of the values or none of them; without
\* it a failure leaves whole batches.
THEOREM BatchesAreWhole == FSpec => []WholeBatches
  <1>1. FInv => WholeBatches
    <2> SUFFICES ASSUME FInv, finisher = "CreateInBatches" PROVE WholeBatches
      BY DEF WholeBatches
    <2>1. TableInv /\ Whole /\ Kept /\ Shown /\ call \in CallType
      BY Finishers3 DEF FInv, CallInv, BatchesInv, TableInv
    <2>2. /\ call.keys \in Seq(Nat) /\ call.values \in Seq(Names)
          /\ call.result \in {"none", "nil", "error"}
      BY <2>1 DEF CallType
    <2> DEFINE shown == {i \in DOMAIN call.keys : \E e \in held : e[1] = call.keys[i]}
    <2>3. ~InTx \/ call.result = "nil" => shown = DOMAIN call.keys
      <3> SUFFICES ASSUME ~InTx \/ call.result = "nil", NEW i \in DOMAIN call.keys
                   PROVE  \E e \in held : e[1] = call.keys[i]
        OBVIOUS
      <3>1. <<call.keys[i], As(i)>> \in held
        BY <2>1 DEF Shown, WasThere
      <3>2. <<call.keys[i], As(i)>>[1] = call.keys[i]
        OBVIOUS
      <3> QED BY <3>1, <3>2
    <2>4. InTx /\ call.result # "nil" => shown = {}
      <3> SUFFICES ASSUME InTx, call.result # "nil", NEW i \in DOMAIN call.keys, NEW e \in held,
                          e[1] = call.keys[i]
                   PROVE  FALSE
        OBVIOUS
      <3>1. CASE call.result = "error"
        BY <2>1, <3>1 DEF Kept
      <3>2. CASE call.result = "none"
        <4>1. call.at = "batch"
          BY <2>1, <3>2 DEF TableInv, Whole
        <4> QED BY <2>1, <4>1 DEF Kept
      <3> QED BY <2>2, <3>1, <3>2
    <2>5. call.result = "nil" => DOMAIN call.keys = DOMAIN call.values
      BY <2>1, <2>2 DEF Whole
    <2>6. ~InTx /\ call.result = "error" => Len(call.keys) % call.size = 0
      BY <2>1 DEF TableInv, Whole
    <2> HIDE DEF shown
    <2>7. IF ~db.skip /\ Len(call.values) > call.size
          THEN /\ shown # {} => shown = DOMAIN call.values
               /\ call.result = "error" => shown = {}
          ELSE /\ shown = DOMAIN call.keys
               /\ call.result = "error" => Len(call.keys) % call.size = 0
      BY <2>3, <2>4, <2>5, <2>6 DEF InTx
    <2> QED BY <2>7 DEF WholeBatches, shown
  <1> QED BY <1>1, FAlways, PTL

------------------------------------------------------------------------------
(***************************************************************************)
(* The registry of callbacks, through which the finishers run.             *)
(***************************************************************************)
Starred(c) == Star \in {c.before, c.after}

Wish == CallbackNames \cup {NoName, Star}
Handlers ==
    [how : {"default", "register", "replace", "remove"}, name : CallbackNames,
     before : Wish, after : Wish, id : Nat]

\* The last of the callbacks cs with the name n is the one called id.
Latest(cs, n, id) ==
    \E i \in 1..Len(cs) :
        cs[i].name = n /\ cs[i].id = id /\ \A j \in 1..Len(cs) : j > i => cs[j].name # n

\* No other of the callbacks cs has the name of one with a star.
Alone(cs) == \A i, j \in 1..Len(cs) : Starred(cs[i]) /\ cs[j].name = cs[i].name => i = j

OnceEach(s) == \A i, j \in 1..Len(s) : s[i] = s[j] => i = j

RegistryInv ==
    /\ callbacks \in Seq(Handlers)
    /\ next \in 0..(Len(callbacks) + 1)
    /\ sorted \in Seq(CallbackNames)
    /\ stack \in Seq([of : 1..Len(callbacks), at : {"before", "after"}])
    /\ Idle => stack = <<>>
    /\ calls \in Nat /\ failed \in BOOLEAN
    /\ DOMAIN asked \subseteq CallbackNames
    /\ asked \in [DOMAIN asked -> Handlers]

\* The callbacks in the list are the registered ones, the last of each name the
\* one that was asked for last.
ListInv ==
    /\ \A i \in 1..Len(callbacks) : callbacks[i].name \in Registered
    /\ \A n \in Registered : Latest(callbacks, n, asked[n].id)

\* A star is asked for by a call, and no other callback has that name.
StarInv ==
    /\ Alone(callbacks)
    /\ \A i \in 1..Len(callbacks) :
          Starred(callbacks[i]) => \E c \in Calls : c.name = callbacks[i].name /\ Starred(c)

\* A callback that the loop has come to is placed, or under way.
Placed(i) == \E k \in 1..Len(sorted) : sorted[k] = callbacks[i].name
UnderWay(i) == \E k \in 1..Len(stack) : stack[k].of = i
SortInv ==
    ~Idle => /\ \A k \in 1..Len(sorted) : sorted[k] \in Registered
             /\ OnceEach(sorted)
             /\ \A i \in 1..(next - 1) : Placed(i) \/ UnderWay(i)

OrderInv == RegistryInv /\ ListInv /\ StarInv /\ SortInv /\ LatestRunsOnce

------------------------------------------------------------------------------
(***************************************************************************)
(* Lists.                                                                  *)
(***************************************************************************)
LEMMA ByOne ==
    ASSUME NEW P, 0 \in P, \A n \in Nat : n \in P => n + 1 \in P
    PROVE  Nat \subseteq P
  <1> SUFFICES ASSUME NEW k \in Nat, k \notin P PROVE FALSE
    OBVIOUS
  <1>1. PICK A : A = {n \in Nat : n \in P /\ n =< k}
    OBVIOUS
  <1>2. IsFiniteSet(A)
    BY <1>1, FS_BoundedSetOfNaturals
  <1>3. PICK f : f = [n \in A |-> n + 1]
    OBVIOUS
  <1>4. f \in Injection(A, A)
    BY <1>1, <1>3 DEF Injection, IsInjective
  <1>5. f \in Surjection(A, A)
    BY <1>2, <1>4, FS_Injection
  <1>6. 0 \in A
    BY <1>1
  <1> QED BY <1>1, <1>3, <1>5, <1>6 DEF Surjection

LEMMA LastPlace ==
    ASSUME NEW n \in Nat, NEW A, A \subseteq 1..n, A # {}
    PROVE  Max(A) \in A /\ \A x \in A : x =< Max(A)
  <1> DEFINE P == {m \in Nat : \A S \in SUBSET (1..m) : S # {} => \E u \in S : \A x \in S : u >= x}
  <1>1. 0 \in P
    BY 1..0 = {}
  <1>2. ASSUME NEW m \in Nat, m \in P PROVE m + 1 \in P
    <2> SUFFICES ASSUME NEW S \in SUBSET (1..(m + 1)), S # {} PROVE \E u \in S : \A x \in S : u >= x
      OBVIOUS
    <2>1. CASE m + 1 \in S
      BY <2>1
    <2>2. CASE m + 1 \notin S
      <3>1. S \in SUBSET (1..m)
        BY <2>2
      <3> QED BY <1>2, <3>1
    <2> QED BY <2>1, <2>2
  <1> HIDE DEF P
  <1>3. n \in P
    BY <1>1, <1>2, ByOne
  <1>4. PICK u \in A : \A x \in A : u >= x
    BY <1>3 DEF P
  <1> QED BY <1>4 DEF Max

\* Index is the place of the last callback of a name.
LEMMA IndexIs ==
    ASSUME RegistryInv, NEW n
    PROVE  /\ Index(n) \in 0..Len(callbacks)
           /\ Index(n) = 0 <=> \A i \in 1..Len(callbacks) : callbacks[i].name # n
           /\ Index(n) # 0 => /\ callbacks[Index(n)].name = n
                              /\ \A i \in 1..Len(callbacks) : callbacks[i].name = n => i =< Index(n)
  <1>1. Len(callbacks) \in Nat
    BY DEF RegistryInv
  <1>2. PICK A : A = {i \in 1..Len(callbacks) : callbacks[i].name = n}
    OBVIOUS
  <1>3. Index(n) = IF A # {} THEN Max(A) ELSE 0
    BY <1>2 DEF Index, SelectLastInSeq
  <1>4. CASE A = {}
    BY <1>1, <1>2, <1>3, <1>4
  <1>5. CASE A # {}
    <2>1. Max(A) \in A /\ \A x \in A : x =< Max(A)
      BY <1>1, <1>2, <1>5, LastPlace
    <2> QED BY <1>1, <1>2, <1>3, <1>5, <2>1
  <1> QED BY <1>4, <1>5

LEMMA PlaceIs ==
    ASSUME RegistryInv, NEW n
    PROVE  /\ Place(n) \in 0..Len(sorted)
           /\ IsPlaced(n) <=> \E i \in 1..Len(sorted) : sorted[i] = n
           /\ IsPlaced(n) => sorted[Place(n)] = n
  <1>1. Len(sorted) \in Nat
    BY DEF RegistryInv
  <1>2. PICK A : A = {i \in 1..Len(sorted) : sorted[i] = n}
    OBVIOUS
  <1>3. Place(n) = IF A # {} THEN Max(A) ELSE 0
    BY <1>2 DEF Place, SelectLastInSeq
  <1>4. CASE A = {}
    BY <1>1, <1>2, <1>3, <1>4 DEF IsPlaced
  <1>5. CASE A # {}
    <2>1. Max(A) \in A /\ \A x \in A : x =< Max(A)
      BY <1>1, <1>2, <1>5, LastPlace
    <2> QED BY <1>1, <1>2, <1>3, <1>5, <2>1 DEF IsPlaced
  <1> QED BY <1>4, <1>5

\* Where the element at w is when one has been put in at p.
Moved(w, p) == IF w < p THEN w ELSE w + 1

\* The list r is s with e put in at p.
PutAt(r, s, p, e) ==
    /\ Len(r) = Len(s) + 1 /\ r[p] = e
    /\ \A w \in 1..Len(s) : Moved(w, p) \in 1..Len(r) /\ Moved(w, p) # p /\ r[Moved(w, p)] = s[w]
    /\ \A u \in 1..Len(r) : u = p \/ \E w \in 1..Len(s) : u = Moved(w, p)

LEMMA InsertAtIs ==
    ASSUME NEW S, NEW s \in Seq(S), NEW p \in 1..(Len(s) + 1), NEW e \in S,
           NEW r, r = InsertAt(s, p, e)
    PROVE  r \in Seq(S) /\ PutAt(r, s, p, e)
  <1>1. Len(s) \in Nat /\ p \in Nat
    OBVIOUS
  <1>2. PICK a : a = SubSeq(s, 1, p - 1)
    OBVIOUS
  <1>3. PICK b : b = SubSeq(s, p, Len(s))
    OBVIOUS
  <1>4. a \in Seq(S) /\ Len(a) = p - 1 /\ \A i \in 1..(p - 1) : a[i] = s[i]
    BY <1>1, <1>2
  <1>5. b \in Seq(S) /\ Len(b) = Len(s) - p + 1 /\ \A i \in 1..(Len(s) - p + 1) : b[i] = s[p + i - 1]
    BY <1>1, <1>3
  <1>6. PICK q : q = a \o <<e>>
    OBVIOUS
  <1>7. q \in Seq(S) /\ Len(q) = p /\ q[p] = e /\ \A i \in 1..(p - 1) : q[i] = s[i]
    BY SMTT(60), <1>1, <1>4, <1>6
  <1>8. r = q \o b
    BY <1>2, <1>3, <1>6 DEF InsertAt
  <1>9. /\ r \in Seq(S) /\ Len(r) = Len(s) + 1 /\ \A i \in 1..p : r[i] = q[i]
        /\ \A i \in 1..(Len(s) - p + 1) : r[p + i] = b[i]
    <2>0. q \in Seq(S) /\ b \in Seq(S)
      BY <1>5, <1>7
    <2>1. r \in Seq(S) /\ Len(r) = Len(q) + Len(b)
      BY ONLY <1>8, <2>0
    <2>2. \A i \in 1..Len(q) : r[i] = q[i]
      BY ONLY <1>8, <2>0
    <2>3. \A i \in 1..Len(b) : r[Len(q) + i] = b[i]
      BY ONLY <1>8, <2>0
    <2> QED BY SMTT(60), <1>1, <1>5, <1>7, <2>1, <2>2, <2>3
  <1>10. r[p] = e
    BY <1>1, <1>7, <1>9
  <1>11. ASSUME NEW w \in 1..Len(s)
         PROVE  Moved(w, p) \in 1..Len(r) /\ Moved(w, p) # p /\ r[Moved(w, p)] = s[w]
    <2>1. CASE w < p
      BY <1>1, <1>7, <1>9, <2>1 DEF Moved
    <2>2. CASE ~(w < p)
      <3>1. w - p + 1 \in 1..(Len(s) - p + 1) /\ p + (w - p + 1) = w + 1 /\ p + (w - p + 1) - 1 = w
        BY <1>1, <2>2
      <3>2. r[w + 1] = b[w - p + 1] /\ b[w - p + 1] = s[w]
        BY <1>5, <1>9, <3>1
      <3> QED BY <1>1, <1>9, <2>2, <3>2 DEF Moved
    <2> QED BY <2>1, <2>2
  <1>12. ASSUME NEW u \in 1..Len(r), u # p PROVE \E w \in 1..Len(s) : u = Moved(w, p)
    <2>1. CASE u < p
      BY <1>1, <1>9, <2>1 DEF Moved
    <2>2. CASE u > p
      <3>1. u - 1 \in 1..Len(s) /\ Moved(u - 1, p) = u
        BY <1>1, <1>9, <2>2 DEF Moved
      <3> QED BY <3>1
    <2> QED BY <1>1, <1>9, <1>12, <2>1, <2>2
  <1> QED BY <1>9, <1>10, <1>11, <1>12 DEF PutAt

LEMMA InFrontIs ==
    ASSUME NEW S, NEW s \in Seq(S), NEW n \in S, NEW r, r = <<n>> \o s
    PROVE  r \in Seq(S) /\ PutAt(r, s, 1, n) /\ 1 \in 1..(Len(s) + 1)
  <1>0. Len(s) \in Nat
    OBVIOUS
  <1>1. r \in Seq(S) /\ Len(r) = Len(s) + 1 /\ r[1] = n /\ \A w \in 1..Len(s) : r[w + 1] = s[w]
    BY <1>0
  <1>2. \A w \in 1..Len(s) : Moved(w, 1) = w + 1 /\ w + 1 \in 1..Len(r) /\ w + 1 # 1
    BY <1>0, <1>1 DEF Moved
  <1>3. \A u \in 1..Len(r) : u = 1 \/ u - 1 \in 1..Len(s)
    BY <1>0, <1>1
  <1>4. \A u \in 1..Len(r) : u = 1 \/ \E w \in 1..Len(s) : u = Moved(w, 1)
    <2> SUFFICES ASSUME NEW u \in 1..Len(r), u # 1 PROVE \E w \in 1..Len(s) : u = Moved(w, 1)
      OBVIOUS
    <2>1. u - 1 \in 1..Len(s) /\ Moved(u - 1, 1) = u
      BY <1>0, <1>1, <1>3 DEF Moved
    <2> QED BY <2>1
  <1>5. \A w \in 1..Len(s) : Moved(w, 1) \in 1..Len(r) /\ Moved(w, 1) # 1 /\ r[Moved(w, 1)] = s[w]
    BY <1>1, <1>2
  <1>6. PutAt(r, s, 1, n)
    BY <1>1, <1>4, <1>5 DEF PutAt
  <1>7. 1 \in 1..(Len(s) + 1)
    BY <1>0
  <1> QED BY <1>1, <1>6, <1>7

LEMMA BehindIs ==
    ASSUME NEW S, NEW s \in Seq(S), NEW n \in S, NEW r, r = Append(s, n)
    PROVE  r \in Seq(S) /\ PutAt(r, s, Len(s) + 1, n) /\ Len(s) + 1 \in 1..(Len(s) + 1)
  <1>0. Len(s) \in Nat
    OBVIOUS
  <1>1. r \in Seq(S) /\ Len(r) = Len(s) + 1 /\ r[Len(s) + 1] = n /\ \A w \in 1..Len(s) : r[w] = s[w]
    BY <1>0
  <1>2. \A w \in 1..Len(s) : Moved(w, Len(s) + 1) = w /\ w \in 1..Len(r) /\ w # Len(s) + 1
    BY <1>0, <1>1 DEF Moved
  <1>3. \A u \in 1..Len(r) : u = Len(s) + 1 \/ u \in 1..Len(s)
    BY <1>0, <1>1
  <1> QED BY <1>0, <1>1, <1>2, <1>3 DEF PutAt

\* The list r is s with n in front of something, of all, or behind all.
Put(r, s, n) ==
    \/ \E p \in 1..(Len(s) + 1) : r = InsertAt(s, p, n)
    \/ r = <<n>> \o s
    \/ r = Append(s, n)

\* A name that is not placed gets a place.
LEMMA PutIn ==
    ASSUME NEW S, NEW s \in Seq(S), OnceEach(s), NEW n \in S, \A i \in 1..Len(s) : s[i] # n,
           NEW r, Put(r, s, n)
    PROVE  /\ r \in Seq(S) /\ OnceEach(r)
           /\ \E i \in 1..Len(r) : r[i] = n
           /\ \A i \in 1..Len(s) : \E j \in 1..Len(r) : r[j] = s[i]
           /\ \A j \in 1..Len(r) : r[j] = n \/ \E i \in 1..Len(s) : r[j] = s[i]
  <1>0. Len(s) \in Nat
    OBVIOUS
  <1>1. PICK p \in 1..(Len(s) + 1) : r \in Seq(S) /\ PutAt(r, s, p, n)
    <2>1. CASE \E p \in 1..(Len(s) + 1) : r = InsertAt(s, p, n)
      <3>1. PICK p \in 1..(Len(s) + 1) : r = InsertAt(s, p, n)
        BY <2>1
      <3> QED BY <3>1, InsertAtIs
    <2>2. CASE r = <<n>> \o s
      <3>1. r \in Seq(S) /\ PutAt(r, s, 1, n) /\ 1 \in 1..(Len(s) + 1)
        BY ZenonT(60), <2>2, InFrontIs
      <3> QED BY <3>1
    <2>3. CASE r = Append(s, n)
      BY <1>0, <2>3, BehindIs
    <2> QED BY <2>1, <2>2, <2>3 DEF Put
  <1>2. p \in 1..Len(r)
    BY <1>1 DEF PutAt
  <1>3. OnceEach(r)
    <2> SUFFICES ASSUME NEW i \in 1..Len(r), NEW j \in 1..Len(r), r[i] = r[j] PROVE i = j
      BY DEF OnceEach
    <2>0. ASSUME NEW u \in 1..Len(r), u # p PROVE r[u] # n
      <3>1. PICK w \in 1..Len(s) : u = Moved(w, p)
        BY <1>1, <2>0 DEF PutAt
      <3> QED BY <1>1, <3>1 DEF PutAt
    <2>1. CASE i = p \/ j = p
      <3>1. r[p] = n
        BY <1>1 DEF PutAt
      <3> QED BY <2>0, <2>1, <3>1
    <2>2. CASE i # p /\ j # p
      <3>1. PICK u \in 1..Len(s) : i = Moved(u, p)
        BY <1>1, <2>2 DEF PutAt
      <3>2. PICK w \in 1..Len(s) : j = Moved(w, p)
        BY <1>1, <2>2 DEF PutAt
      <3>3. s[u] = s[w]
        BY <1>1, <3>1, <3>2 DEF PutAt
      <3>4. u = w
        BY <3>3 DEF OnceEach
      <3> QED BY <3>1, <3>2, <3>4
    <2> QED BY <2>1, <2>2
  <1>4. \A j \in 1..Len(r) : r[j] = n \/ \E i \in 1..Len(s) : r[j] = s[i]
    BY <1>1 DEF PutAt
  <1> QED BY <1>1, <1>2, <1>3, <1>4 DEF PutAt

\* A callback is put in behind all that need not come after it: what is behind
\* it then has a star.
LEMMA InsertedIs ==
    ASSUME NEW cs \in Seq(Handlers), NEW c \in Handlers, NEW r, r = Inserted(cs, c)
    PROVE  \E p \in 1..(Len(cs) + 1) :
              /\ r \in Seq(Handlers) /\ PutAt(r, cs, p, c)
              /\ \A w \in p..Len(cs) : Starred(cs[w])
              /\ p # 1 => ~Less(c, cs[p - 1])
  <1>1. Len(cs) \in Nat
    OBVIOUS
  <1>2. PICK A : A = {i \in 1..Len(cs) : ~Less(c, cs[i])}
    OBVIOUS
  <1>3. PICK m : m = IF A # {} THEN Max(A) ELSE 0
    OBVIOUS
  <1>4. m \in 0..Len(cs) /\ (\A x \in A : x =< m) /\ (m # 0 => m \in A)
    <2>1. CASE A = {}
      BY <1>1, <1>3, <2>1
    <2>2. CASE A # {}
      <3>1. A \subseteq 1..Len(cs)
        BY <1>2
      <3>2. PICK u : u = Max(A)
        OBVIOUS
      <3>3. u \in A /\ \A x \in A : x =< u
        BY <1>1, <2>2, <3>1, <3>2, LastPlace
      <3> QED BY <1>1, <1>3, <2>2, <3>1, <3>2, <3>3
    <2> QED BY <2>1, <2>2
  <1>5. r = InsertAt(cs, m + 1, c)
    BY <1>2, <1>3 DEF Inserted, SelectLastInSeq
  <1>6. m + 1 \in 1..(Len(cs) + 1)
    BY <1>1, <1>4
  <1>7. ASSUME NEW w \in (m + 1)..Len(cs) PROVE Starred(cs[w])
    <2>1. w \in 1..Len(cs) /\ ~(w =< m)
      BY <1>1, <1>4
    <2>2. Less(c, cs[w])
      BY <1>2, <1>4, <2>1
    <2> QED BY <2>2 DEF Less, Starred
  <1>8. \A w \in (m + 1)..Len(cs) : Starred(cs[w])
    BY <1>7
  <1>9. r \in Seq(Handlers) /\ PutAt(r, cs, m + 1, c)
    BY <1>5, <1>6, InsertAtIs
  <1>10. m + 1 # 1 => ~Less(c, cs[(m + 1) - 1])
    BY <1>1, <1>2, <1>4
  <1> QED BY <1>6, <1>8, <1>9, <1>10

\* The list of the first n callbacks.
Lists(cs, G, n, f) ==
    f = [k \in 0..n |-> IF k = 0 THEN <<>>
                        ELSE IF cs[k].name \in G THEN f[k - 1]
                        ELSE Inserted(f[k - 1], cs[k])]

LEMMA ListsExist ==
    ASSUME NEW cs, NEW G, NEW n \in Nat
    PROVE  \E f : Lists(cs, G, n, f)
  <1> DEFINE Step(q, k) == IF cs[k].name \in G THEN q ELSE Inserted(q, cs[k])
             P == {m \in Nat : \E f : Lists(cs, G, m, f)}
  <1> HIDE DEF Step
  <1>0. ASSUME NEW m, NEW f
        PROVE  Lists(cs, G, m, f) <=> f = [k \in 0..m |-> IF k = 0 THEN <<>> ELSE Step(f[k - 1], k)]
    BY DEF Lists, Step
  <1>1. 0 \in P
    <2>1. PICK f : f = [k \in 0..0 |-> IF k = 0 THEN <<>> ELSE Step(f[k - 1], k)]
      <3>1. PICK f : f = [k \in 0..0 |-> <<>>]
        OBVIOUS
      <3>2. [k \in 0..0 |-> <<>>] = [k \in 0..0 |-> IF k = 0 THEN <<>> ELSE Step(f[k - 1], k)]
        OBVIOUS
      <3> QED BY <3>1, <3>2
    <2> QED BY <1>0, <2>1
  <1>2. ASSUME NEW m \in Nat, m \in P PROVE m + 1 \in P
    <2>1. PICK f : Lists(cs, G, m, f)
      BY <1>2
    <2>2. f = [k \in 0..m |-> IF k = 0 THEN <<>> ELSE Step(f[k - 1], k)]
      BY <1>0, <2>1
    <2>3. PICK g : g = [k \in 0..(m + 1) |-> IF k = m + 1 THEN Step(f[m], m + 1) ELSE f[k]]
      OBVIOUS
    <2>4. \A k \in 0..m : g[k] = f[k]
      BY <2>3
    <2>5. ASSUME NEW k \in 0..(m + 1)
          PROVE  g[k] = IF k = 0 THEN <<>> ELSE Step(g[k - 1], k)
      <3>1. CASE k = m + 1
        <4>1. k - 1 = m /\ m \in 0..m /\ k # 0
          BY <3>1
        <4> QED BY <2>3, <2>4, <3>1, <4>1
      <3>2. CASE k # m + 1
        <4>1. k \in 0..m /\ (k # 0 => k - 1 \in 0..m)
          BY <3>2
        <4>2. g[k] = f[k] /\ (k # 0 => g[k - 1] = f[k - 1])
          BY <2>4, <4>1
        <4> QED BY <2>2, <4>1, <4>2
      <3> QED BY <3>1, <3>2
    <2>6. DOMAIN g = 0..(m + 1) /\ g = [k \in 0..(m + 1) |-> g[k]]
      BY <2>3
    <2>7. g = [k \in 0..(m + 1) |-> IF k = 0 THEN <<>> ELSE Step(g[k - 1], k)]
      BY <2>5, <2>6
    <2>8. Lists(cs, G, m + 1, g)
      BY <1>0, <2>7
    <2> QED BY <2>8
  <1> HIDE DEF P
  <1>3. Nat \subseteq P
    BY <1>1, <1>2, ByOne
  <1> QED BY <1>3 DEF P

\* The last of the first k callbacks with the name n.
LatestOf(cs, k, n, id) ==
    \E i \in 1..k : cs[i].name = n /\ cs[i].id = id /\ \A j \in 1..k : j > i => cs[j].name # n

\* What is in a list of the first k callbacks without those of the names G.
IsList(q, cs, G, k) ==
    /\ q \in Seq(Handlers)
    /\ \A w \in 1..Len(q) : \E i \in 1..k : cs[i].name \notin G /\ q[w] = cs[i]
    /\ Alone(q)
    /\ \A n, id : n \notin G /\ LatestOf(cs, k, n, id) => Latest(q, n, id)

\* One more callback with a name that stays.
LEMMA OneMoreCallback ==
    ASSUME NEW cs \in Seq(Handlers), NEW G,
           \A i, j \in 1..Len(cs) : Starred(cs[i]) /\ cs[j].name = cs[i].name /\ cs[i].name \notin G => i = j,
           NEW k \in Nat, k + 1 =< Len(cs), NEW q, IsList(q, cs, G, k), cs[k + 1].name \notin G,
           NEW r, r = Inserted(q, cs[k + 1])
    PROVE  IsList(r, cs, G, k + 1)
  <1>0. /\ Len(cs) \in Nat /\ k + 1 \in 1..Len(cs) /\ \A i \in 1..k : i \in 1..Len(cs) /\ i # k + 1
        /\ \A i \in 1..(k + 1) : i = k + 1 \/ i \in 1..k
    OBVIOUS
  <1>1. PICK c : c = cs[k + 1]
    OBVIOUS
  <1>2. c \in Handlers
    BY <1>0, <1>1
  <1>3. q \in Seq(Handlers) /\ Len(q) \in Nat
    BY DEF IsList
  <1>4. PICK p \in 1..(Len(q) + 1) :
           r \in Seq(Handlers) /\ PutAt(r, q, p, c) /\ \A w \in p..Len(q) : Starred(q[w])
    BY ZenonT(60), <1>1, <1>2, <1>3, InsertedIs
  <1>5. /\ Len(r) = Len(q) + 1 /\ r[p] = c /\ p \in 1..Len(r)
        /\ \A w \in 1..Len(q) : Moved(w, p) \in 1..Len(r) /\ Moved(w, p) # p /\ r[Moved(w, p)] = q[w]
        /\ \A u \in 1..Len(r) : u = p \/ \E w \in 1..Len(q) : u = Moved(w, p)
    BY <1>3, <1>4 DEF PutAt
  <1>6. \A w \in 1..Len(q) : \E i \in 1..k : cs[i].name \notin G /\ q[w] = cs[i]
    BY DEF IsList
  <1>7. \A u \in 1..Len(r) : \E i \in 1..(k + 1) : cs[i].name \notin G /\ r[u] = cs[i]
    <2> SUFFICES ASSUME NEW u \in 1..Len(r) PROVE \E i \in 1..(k + 1) : cs[i].name \notin G /\ r[u] = cs[i]
      OBVIOUS
    <2>1. CASE u = p
      <3>1. k + 1 \in 1..(k + 1)
        OBVIOUS
      <3> QED BY <1>1, <1>5, <2>1, <3>1
    <2>2. CASE u # p
      <3>1. PICK w \in 1..Len(q) : u = Moved(w, p)
        BY <1>5, <2>2
      <3>2. PICK i \in 1..k : cs[i].name \notin G /\ q[w] = cs[i]
        BY <1>6
      <3>3. i \in 1..(k + 1) /\ r[u] = cs[i]
        BY SMTT(60), <1>5, <3>1, <3>2
      <3> QED BY <3>2, <3>3
    <2> QED BY <2>1, <2>2
  \* Neither the new one nor one that is there has a star and the other's name.
  <1>8. ASSUME NEW w \in 1..Len(q), Starred(q[w]) \/ Starred(c) PROVE q[w].name # c.name
    <2>1. PICK i \in 1..k : cs[i].name \notin G /\ q[w] = cs[i]
      BY <1>6
    <2> QED BY <1>0, <1>1, <1>8, <2>1
  <1>9. Alone(r)
    <2> SUFFICES ASSUME NEW u \in 1..Len(r), NEW v \in 1..Len(r), Starred(r[u]), r[v].name = r[u].name
                 PROVE  u = v
      BY DEF Alone
    <2>1. CASE u = p /\ v # p
      <3>1. PICK w \in 1..Len(q) : v = Moved(w, p)
        BY <1>5, <2>1
      <3>2. r[v] = q[w]
        BY <1>5, <3>1
      <3> QED BY <1>5, <1>8, <2>1, <3>2
    <2>2. CASE u # p /\ v = p
      <3>1. PICK w \in 1..Len(q) : u = Moved(w, p)
        BY <1>5, <2>2
      <3>2. r[u] = q[w]
        BY <1>5, <3>1
      <3> QED BY <1>5, <1>8, <2>2, <3>2
    <2>3. CASE u # p /\ v # p
      <3>1. PICK w \in 1..Len(q) : u = Moved(w, p)
        BY <1>5, <2>3
      <3>2. PICK x \in 1..Len(q) : v = Moved(x, p)
        BY <1>5, <2>3
      <3>3. r[u] = q[w] /\ r[v] = q[x]
        BY <1>5, <3>1, <3>2
      <3>4. w = x
        BY <3>3 DEF IsList, Alone
      <3> QED BY <3>1, <3>2, <3>4
    <2> QED BY <2>1, <2>2, <2>3
  <1>10. ASSUME NEW n, NEW id, n \notin G, LatestOf(cs, k + 1, n, id) PROVE Latest(r, n, id)
    <2>1. PICK i \in 1..(k + 1) :
             cs[i].name = n /\ cs[i].id = id /\ \A j \in 1..(k + 1) : j > i => cs[j].name # n
      BY <1>10 DEF LatestOf
    <2>2. CASE i = k + 1
      <3>1. ASSUME NEW u \in 1..Len(r), u > p PROVE r[u].name # n
        <4>1. PICK w \in 1..Len(q) : u = Moved(w, p)
          BY <1>5, <3>1
        <4>2. w \in p..Len(q)
          BY <1>3, <3>1, <4>1 DEF Moved
        <4>3. r[u] = q[w] /\ Starred(q[w])
          BY <1>4, <1>5, <4>1, <4>2
        <4> QED BY <1>1, <1>8, <2>1, <2>2, <4>3
      <3>2. r[p].name = n /\ r[p].id = id
        BY <1>1, <1>5, <2>1, <2>2
      <3> QED BY <1>5, <3>1, <3>2 DEF Latest
    <2>3. CASE i # k + 1
      <3>1. c.name # n
        BY <1>0, <1>1, <2>1, <2>3
      <3>2. i \in 1..k /\ \A j \in 1..k : j \in 1..(k + 1)
        BY <2>3
      <3>3. LatestOf(cs, k, n, id)
        BY <2>1, <3>2 DEF LatestOf
      <3>4. Latest(q, n, id)
        BY <1>10, <3>3 DEF IsList
      <3>5. PICK w \in 1..Len(q) :
               q[w].name = n /\ q[w].id = id /\ \A x \in 1..Len(q) : x > w => q[x].name # n
        BY <3>4 DEF Latest
      <3>6. PICK v : v = Moved(w, p)
        OBVIOUS
      <3>7. v \in 1..Len(r) /\ r[v] = q[w]
        BY <1>5, <3>6
      <3>8. ASSUME NEW u \in 1..Len(r), u > v PROVE r[u].name # n
        <4>1. CASE u = p
          BY <1>5, <3>1, <4>1
        <4>2. CASE u # p
          <5>1. PICK x \in 1..Len(q) : u = Moved(x, p)
            BY <1>5, <4>2
          <5>2. x > w
            BY SMTT(60), <3>6, <3>8, <5>1 DEF Moved
          <5>3. r[u] = q[x]
            BY <1>5, <5>1
          <5> QED BY <3>5, <5>2, <5>3
        <4> QED BY <4>1, <4>2
      <3> QED BY <3>5, <3>7, <3>8 DEF Latest
    <2> QED BY <2>2, <2>3
  <1> QED BY <1>4, <1>7, <1>9, <1>10 DEF IsList

\* The sort keeps the last of each name that stays, since a star stands alone.
LEMMA StarsLastIs ==
    ASSUME NEW cs \in Seq(Handlers), NEW G,
           \A i, j \in 1..Len(cs) : Starred(cs[i]) /\ cs[j].name = cs[i].name /\ cs[i].name \notin G => i = j
    PROVE  IsList(StarsLast(cs, G), cs, G, Len(cs))
  <1> DEFINE N == Len(cs)
  <1>1. N \in Nat
    OBVIOUS
  <1>2. PICK f : Lists(cs, G, N, f) /\ StarsLast(cs, G) = f[N]
    <2> DEFINE f == CHOOSE g : Lists(cs, G, N, g)
    <2>1. Lists(cs, G, N, f)
      BY <1>1, ListsExist
    <2>2. StarsLast(cs, G) = f[N]
      BY DEF StarsLast, Lists
    <2> QED BY <2>1, <2>2
  <1>3. \A k \in 0..N : f[k] = IF k = 0 THEN <<>>
                               ELSE IF cs[k].name \in G THEN f[k - 1]
                               ELSE Inserted(f[k - 1], cs[k])
    BY <1>2 DEF Lists
  <1> DEFINE P == {k \in Nat : k =< N => IsList(f[k], cs, G, k)}
  <1>4. 0 \in P
    <2>1. f[0] = <<>>
      BY <1>1, <1>3
    <2>2. PICK q : q = f[0]
      OBVIOUS
    <2>3. q \in Seq(Handlers) /\ 1..Len(q) = {} /\ 1..0 = {}
      BY <2>1, <2>2
    <2>4. Alone(q)
      BY <2>3 DEF Alone
    <2>5. \A n, id : ~LatestOf(cs, 0, n, id)
      BY <2>3 DEF LatestOf
    <2>6. IsList(q, cs, G, 0)
      BY <2>3, <2>4, <2>5 DEF IsList
    <2> QED BY <2>2, <2>6
  <1>5. ASSUME NEW k \in Nat, k \in P PROVE k + 1 \in P
    <2> SUFFICES ASSUME k + 1 =< N PROVE IsList(f[k + 1], cs, G, k + 1)
      OBVIOUS
    <2>1. PICK q : q = f[k]
      OBVIOUS
    <2>2. IsList(q, cs, G, k)
      BY <1>1, <1>5, <2>1
    <2>3. k + 1 \in 0..N /\ k + 1 # 0 /\ (k + 1) - 1 = k
      BY <1>1
    <2>4. PICK r : r = f[k + 1]
      OBVIOUS
    <2>5. CASE cs[k + 1].name \in G
      <3>1. r = q
        BY <1>3, <2>1, <2>3, <2>4, <2>5
      <3>2. \A i \in 1..k : i \in 1..(k + 1)
        OBVIOUS
      <3>3. \A w \in 1..Len(q) : \E i \in 1..(k + 1) : cs[i].name \notin G /\ q[w] = cs[i]
        BY <2>2, <3>2 DEF IsList
      <3>4. ASSUME NEW n, NEW id, n \notin G, LatestOf(cs, k + 1, n, id) PROVE Latest(q, n, id)
        <4>1. PICK i \in 1..(k + 1) :
                 cs[i].name = n /\ cs[i].id = id /\ \A j \in 1..(k + 1) : j > i => cs[j].name # n
          BY <3>4 DEF LatestOf
        <4>2. i \in 1..k
          BY <2>5, <3>4, <4>1
        <4>3. LatestOf(cs, k, n, id)
          BY <3>2, <4>1, <4>2 DEF LatestOf
        <4> QED BY <2>2, <3>4, <4>3 DEF IsList
      <3>5. IsList(q, cs, G, k + 1)
        BY <2>2, <3>3, <3>4 DEF IsList
      <3> QED BY <2>4, <3>1, <3>5
    <2>6. CASE cs[k + 1].name \notin G
      <3>1. r = Inserted(q, cs[k + 1])
        BY <1>3, <2>1, <2>3, <2>4, <2>6
      <3>2. IsList(r, cs, G, k + 1)
        BY <2>2, <2>6, <3>1, OneMoreCallback
      <3> QED BY <2>4, <3>2
    <2> QED BY <2>5, <2>6
  <1> HIDE DEF P
  <1>6. N \in P
    BY <1>1, <1>4, <1>5, ByOne
  <1>7. IsList(f[N], cs, G, N)
    BY <1>1, <1>6 DEF P
  <1> QED BY <1>2, <1>7

------------------------------------------------------------------------------
(***************************************************************************)
(* The calls.                                                              *)
(***************************************************************************)
USE CallsAssumption

LEMMA NamesAre == NoName \notin CallbackNames /\ Star \notin CallbackNames /\ NoName # Star
  BY DEF NoName, Star

\* In the list, the last of a registered name is what was asked for; no other
\* name is there.
LEMMA IndexedIs ==
    ASSUME RegistryInv, ListInv, NEW n
    PROVE  /\ Index(n) # 0 <=> n \in Registered
           /\ n \in Registered => callbacks[Index(n)].id = asked[n].id
  <1>0. Len(callbacks) \in Nat
    BY DEF RegistryInv
  <1>1. PICK x : x = Index(n)
    OBVIOUS
  <1>2. /\ x \in 0..Len(callbacks)
        /\ x = 0 <=> \A i \in 1..Len(callbacks) : callbacks[i].name # n
        /\ x # 0 => /\ callbacks[x].name = n
                    /\ \A i \in 1..Len(callbacks) : callbacks[i].name = n => i =< x
    BY <1>1, IndexIs
  <1>3. ASSUME x # 0 PROVE n \in Registered
    BY <1>2, <1>3 DEF ListInv
  <1>4. ASSUME n \in Registered PROVE x # 0 /\ callbacks[x].id = asked[n].id
    <2>1. PICK i \in 1..Len(callbacks) :
             /\ callbacks[i].name = n /\ callbacks[i].id = asked[n].id
             /\ \A j \in 1..Len(callbacks) : j > i => callbacks[j].name # n
      BY <1>4 DEF ListInv, Latest
    <2>2. x # 0 /\ x \in 1..Len(callbacks) /\ i =< x
      BY <1>0, <1>2, <2>1
    <2>3. ~(x > i)
      BY <1>2, <2>1, <2>2
    <2>4. x = i
      BY <2>2, <2>3
    <2> QED BY <2>1, <2>2, <2>4
  <1> QED BY <1>1, <1>3, <1>4

\* A callback c is added, or takes those of its name with it; what is asked for
\* under its name is c.
LEMMA Compiles ==
    ASSUME OrderInv, Idle, NEW c \in Handlers, Compile(c),
           asked' \in [DOMAIN asked \cup {c.name} -> Handlers],
           \A n \in DOMAIN asked \ {c.name} : asked'[n] = asked[n],
           c.name \in Registered' <=> c.how # "remove",
           asked'[c.name].id = c.id,
           Starred(c) => c.how # "remove" /\ \E d \in Calls : d.name = c.name /\ Starred(d),
           c.how # "remove" => \A i \in 1..Len(callbacks) :
                callbacks[i].name = c.name => ~Starred(c) /\ ~Starred(callbacks[i])
    PROVE  OrderInv'
  <1>0. RegistryInv /\ ListInv /\ StarInv
    BY DEF OrderInv
  <1>1. PICK N : N = Len(callbacks)
    OBVIOUS
  <1>2. callbacks \in Seq(Handlers) /\ N \in Nat
    BY <1>0, <1>1 DEF RegistryInv
  <1>3. PICK all : all = Append(callbacks, c)
    OBVIOUS
  <1>4. all \in Seq(Handlers) /\ Len(all) = N + 1 /\ all[N + 1] = c /\ \A i \in 1..N : all[i] = callbacks[i]
    BY <1>1, <1>2, <1>3
  <1>5. PICK G : G = IF c.how = "remove" THEN {c.name} ELSE {}
    OBVIOUS
  <1>6. PICK q : q = callbacks'
    OBVIOUS
  <1>7. q = StarsLast(all, G)
    BY <1>3, <1>5, <1>6 DEF Compile
  <1>8. \A i \in 1..(N + 1) : i = N + 1 \/ i \in 1..N
    BY <1>2
  <1>9. ASSUME NEW i \in 1..(N + 1), NEW j \in 1..(N + 1), Starred(all[i]), all[j].name = all[i].name,
               all[i].name \notin G
        PROVE  i = j
    <2>1. CASE i \in 1..N /\ j \in 1..N
      BY <1>0, <1>1, <1>4, <1>9, <2>1 DEF StarInv, Alone
    <2>2. CASE i = N + 1 /\ j \in 1..N
      BY <1>1, <1>4, <1>5, <1>9, <2>2
    <2>3. CASE i \in 1..N /\ j = N + 1
      BY <1>1, <1>4, <1>5, <1>9, <2>3
    <2> QED BY <1>8, <2>1, <2>2, <2>3
  <1>10. IsList(q, all, G, N + 1)
    BY <1>4, <1>7, <1>9, StarsLastIs
  <1>11. /\ q \in Seq(Handlers) /\ Len(q) \in Nat
         /\ \A w \in 1..Len(q) : \E i \in 1..(N + 1) : all[i].name \notin G /\ q[w] = all[i]
         /\ Alone(q)
         /\ \A n, id : n \notin G /\ LatestOf(all, N + 1, n, id) => Latest(q, n, id)
    BY SMTT(60), <1>10 DEF IsList
  <1>12. c.name \in CallbackNames
    BY DEF Handlers
  <1>13. RegistryInv'
    <2>1. DOMAIN asked' = DOMAIN asked \cup {c.name}
      OBVIOUS
    <2>2. stack' = <<>> /\ next' = 1 /\ sorted' = <<>> /\ failed' = FALSE /\ calls' = calls + 1
      BY <1>0 DEF Compile, RegistryInv
    <2>3. next' \in 0..(Len(q) + 1)
      BY <1>11, <2>2
    <2>4. stack' \in Seq([of : 1..Len(q), at : {"before", "after"}])
      BY <2>2
    <2>5. sorted' \in Seq(CallbackNames) /\ calls' \in Nat /\ failed' \in BOOLEAN
      <3>1. <<>> \in Seq(CallbackNames)
        OBVIOUS
      <3>2. calls' \in Nat
        BY SMTT(60), <1>0, <2>2 DEF RegistryInv
      <3>3. failed' \in BOOLEAN
        BY <2>2
      <3> QED BY <2>2, <3>1, <3>2, <3>3
    <2>6. DOMAIN asked' \subseteq CallbackNames /\ asked' \in [DOMAIN asked' -> Handlers]
      BY <1>0, <1>12, <2>1 DEF RegistryInv
    <2> QED BY <1>6, <1>11, <2>2, <2>3, <2>4, <2>5, <2>6 DEF RegistryInv, Idle
  <1>14. Registered' = IF c.how = "remove" THEN Registered \ {c.name} ELSE Registered \cup {c.name}
    BY DEF Registered
  <1>15. ListInv'
    <2>1. ASSUME NEW w \in 1..Len(q) PROVE q[w].name \in Registered'
      <3>1. PICK i \in 1..(N + 1) : all[i].name \notin G /\ q[w] = all[i]
        BY <1>11
      <3>2. CASE i = N + 1
        BY <1>4, <1>5, <1>14, <3>1, <3>2
      <3>3. CASE i \in 1..N
        <4>1. q[w].name \in Registered
          BY <1>0, <1>1, <1>4, <3>1, <3>3 DEF ListInv
        <4> QED BY <1>5, <1>14, <3>1, <4>1
      <3> QED BY <1>8, <3>2, <3>3
    <2>2. ASSUME NEW n \in Registered' PROVE Latest(q, n, asked'[n].id)
      <3>1. n \notin G
        BY <1>5, <1>14, <2>2
      <3>2. CASE n = c.name
        <4>1. N + 1 \in 1..(N + 1) /\ \A j \in 1..(N + 1) : ~(j > N + 1)
          BY <1>2
        <4>2. LatestOf(all, N + 1, n, asked'[n].id)
          BY <1>4, <3>2, <4>1 DEF LatestOf
        <4> QED BY <1>11, <3>1, <4>2
      <3>3. CASE n # c.name
        <4>1. n \in Registered /\ asked'[n] = asked[n]
          BY <1>14, <2>2, <3>3 DEF Registered
        <4>2. PICK i \in 1..N :
                 /\ callbacks[i].name = n /\ callbacks[i].id = asked[n].id
                 /\ \A j \in 1..N : j > i => callbacks[j].name # n
          BY <1>0, <1>1, <4>1 DEF ListInv, Latest
        <4>3. i \in 1..(N + 1)
          BY <1>2
        <4>4. \A j \in 1..(N + 1) : j > i => all[j].name # n
          BY <1>4, <1>8, <3>3, <4>2
        <4>5. LatestOf(all, N + 1, n, asked'[n].id)
          BY <1>4, <4>1, <4>2, <4>3, <4>4 DEF LatestOf
        <4> QED BY <1>11, <3>1, <4>5
      <3> QED BY <3>2, <3>3
    <2> QED BY <1>6, <2>1, <2>2 DEF ListInv
  <1>16. StarInv'
    <2>1. ASSUME NEW w \in 1..Len(q), Starred(q[w]) PROVE \E d \in Calls : d.name = q[w].name /\ Starred(d)
      <3>1. PICK i \in 1..(N + 1) : all[i].name \notin G /\ q[w] = all[i]
        BY <1>11
      <3>2. CASE i = N + 1
        BY <1>4, <2>1, <3>1, <3>2
      <3>3. CASE i \in 1..N
        BY <1>0, <1>1, <1>4, <2>1, <3>1, <3>3 DEF StarInv
      <3> QED BY <1>8, <3>2, <3>3
    <2> QED BY <1>6, <1>11, <2>1 DEF StarInv
  <1>17. SortInv'
    <2>1. sorted' = <<>> /\ next' = 1
      BY DEF Compile
    <2>2. 1..Len(sorted') = {} /\ 1..(next' - 1) = {}
      BY <2>1
    <2>3. OnceEach(sorted)'
      BY <2>2 DEF OnceEach
    <2> QED BY <2>2, <2>3 DEF SortInv
  <1>18. LatestRunsOnce'
    BY DEF LatestRunsOnce, Compile, Idle
  <1> QED BY <1>13, <1>15, <1>16, <1>17, <1>18 DEF OrderInv

LEMMA Registers ==
    ASSUME StarsAreKept, OrderInv, NEW c \in Calls, Register(c)
    PROVE  OrderInv'
  <1>0. RegistryInv /\ ListInv /\ StarInv
    BY DEF OrderInv
  <1>1. PICK new : new = Callback(c.how, c.name, c.before, c.after, calls + 1)
    OBVIOUS
  <1>2. Idle /\ Compile(new) /\ Ask(c.name, new) /\ c.how = "register" /\ (c.name \in DOMAIN asked => Reuse)
    BY <1>1 DEF Register
  <1>3. c.name \in CallbackNames /\ {c.before, c.after} \subseteq CallbackNames \cup {NoName, Star}
    BY DEF CallbackNames
  <1>4. new \in Handlers /\ new.name = c.name /\ new.how = "register" /\ Starred(new) = Starred(c)
    BY SMTT(60), <1>0, <1>1, <1>2, <1>3 DEF Callback, Handlers, Wish, Starred, RegistryInv
  <1>5. PICK D : D = DOMAIN asked \cup {c.name}
    OBVIOUS
  <1>6. asked' = [m \in D |-> IF m = c.name THEN new ELSE asked[m]]
    BY <1>2, <1>5 DEF Ask
  <1>7. asked' \in [D -> Handlers]
    BY <1>0, <1>4, <1>5, <1>6 DEF RegistryInv
  <1>8. asked'[c.name] = new /\ \A n \in DOMAIN asked \ {c.name} : asked'[n] = asked[n]
    BY <1>5, <1>6
  <1>9. c.name \in Registered'
    BY <1>4, <1>5, <1>6, <1>8 DEF Registered
  <1>10. ASSUME NEW i \in 1..Len(callbacks), callbacks[i].name = c.name, Starred(new) \/ Starred(callbacks[i])
         PROVE  FALSE
    <2>1. c.name \in DOMAIN asked
      BY <1>0, <1>10 DEF ListInv, Registered
    <2>2. PICK d \in Calls : Starred(d) /\ d.name = c.name
      BY <1>0, <1>4, <1>10 DEF StarInv
    <2> QED BY <1>2, <2>1, <2>2 DEF StarsAreKept, Starred
  <1> QED BY <1>2, <1>4, <1>5, <1>7, <1>8, <1>9, <1>10, Compiles

LEMMA Replaces ==
    ASSUME StarsAreKept, OrderInv, NEW c \in Calls, Replace(c)
    PROVE  OrderInv'
  <1>0. RegistryInv /\ ListInv /\ StarInv
    BY DEF OrderInv
  <1>1. PICK new : new = Callback(c.how, c.name, NoName, NoName, calls + 1)
    OBVIOUS
  <1>2. PICK wish : wish = IF c.name \in Registered THEN [asked[c.name] EXCEPT !.id = new.id] ELSE new
    OBVIOUS
  <1>3. Idle /\ Compile(new) /\ Ask(c.name, wish) /\ c.how = "replace"
    BY <1>1, <1>2 DEF Replace
  <1>4. c.name \in CallbackNames
    BY DEF CallbackNames
  <1>5. new \in Handlers /\ new.name = c.name /\ new.how = "replace" /\ ~Starred(new)
    BY SMTT(60), <1>0, <1>1, <1>3, <1>4, NamesAre DEF Callback, Handlers, Wish, Starred, RegistryInv
  <1>6. wish \in Handlers /\ wish.id = new.id /\ wish.how # "remove"
    <2>1. CASE c.name \in Registered
      <3>1. PICK a : a = asked[c.name]
        OBVIOUS
      <3>2. a \in Handlers /\ a.how # "remove"
        BY <1>0, <2>1, <3>1 DEF Registered, RegistryInv
      <3>3. wish = [a EXCEPT !.id = new.id] /\ new.id \in Nat
        BY <1>2, <1>5, <2>1, <3>1 DEF Handlers
      <3> QED BY <3>2, <3>3 DEF Handlers
    <2>2. CASE c.name \notin Registered
      BY <1>2, <1>5, <2>2
    <2> QED BY <2>1, <2>2
  <1>7. PICK D : D = DOMAIN asked \cup {c.name}
    OBVIOUS
  <1>8. asked' = [m \in D |-> IF m = c.name THEN wish ELSE asked[m]]
    BY <1>3, <1>7 DEF Ask
  <1>9. asked' \in [D -> Handlers]
    BY <1>0, <1>6, <1>7, <1>8 DEF RegistryInv
  <1>10. asked'[c.name] = wish /\ \A n \in DOMAIN asked \ {c.name} : asked'[n] = asked[n]
    BY <1>7, <1>8
  <1>11. c.name \in Registered'
    BY <1>6, <1>7, <1>8, <1>10 DEF Registered
  <1>12. ASSUME NEW i \in 1..Len(callbacks), callbacks[i].name = c.name, Starred(callbacks[i])
         PROVE  FALSE
    <2>1. PICK d \in Calls : Starred(d) /\ d.name = c.name
      BY <1>0, <1>12 DEF StarInv
    <2> QED BY <1>3, <2>1 DEF StarsAreKept, Starred
  <1> QED BY <1>3, <1>5, <1>6, <1>7, <1>9, <1>10, <1>11, <1>12, Compiles

LEMMA Unregisters ==
    ASSUME OrderInv, NEW c \in Calls, Unregister(c)
    PROVE  OrderInv'
  <1>0. RegistryInv
    BY DEF OrderInv
  <1>1. PICK new : new = Callback(c.how, c.name, NoName, NoName, calls + 1)
    OBVIOUS
  <1>2. Idle /\ Compile(new) /\ Ask(c.name, new) /\ c.how = "remove"
    BY <1>1 DEF Unregister
  <1>3. c.name \in CallbackNames
    BY DEF CallbackNames
  <1>4. new \in Handlers /\ new.name = c.name /\ new.how = "remove" /\ ~Starred(new)
    BY SMTT(60), <1>0, <1>1, <1>2, <1>3, NamesAre DEF Callback, Handlers, Wish, Starred, RegistryInv
  <1>5. PICK D : D = DOMAIN asked \cup {c.name}
    OBVIOUS
  <1>6. asked' = [m \in D |-> IF m = c.name THEN new ELSE asked[m]]
    BY <1>2, <1>5 DEF Ask
  <1>7. asked' \in [D -> Handlers]
    BY <1>0, <1>4, <1>5, <1>6 DEF RegistryInv
  <1>8. asked'[c.name] = new /\ \A n \in DOMAIN asked \ {c.name} : asked'[n] = asked[n]
    BY <1>5, <1>6
  <1>9. c.name \notin Registered'
    BY <1>4, <1>8 DEF Registered
  <1> QED BY <1>2, <1>4, <1>5, <1>7, <1>8, <1>9, Compiles

LEMMA RegistryInit == CInit => OrderInv
  <1> SUFFICES ASSUME CInit PROVE OrderInv
    OBVIOUS
  <1>1. PICK N : N = Len(Defaults)
    OBVIOUS
  <1>2. N \in Nat /\ DOMAIN Defaults = 1..N /\ \A i, j \in 1..N : Defaults[i] = Defaults[j] => i = j
    BY <1>1 DEF IsInjective
  <1>3. \A n : n \in Own <=> \E i \in 1..N : n = Defaults[i]
    BY <1>2 DEF Own, ToSet
  <1>4. \A n \in Own :
           Default(n) \in Handlers /\ Default(n).name = n /\ Default(n).id = 0 /\ Default(n).how # "remove" /\ ~Starred(Default(n))
    BY NamesAre DEF Default, Callback, Handlers, Wish, Starred, CallbackNames
  <1>5. callbacks = [i \in 1..N |-> Default(Defaults[i])]
    BY <1>2 DEF CInit
  <1>6. asked = [n \in Own |-> Default(n)] /\ fns = [i \in 1..N |-> [name |-> Defaults[i], id |-> 0]]
    BY <1>2 DEF CInit
  <1>7. \A i \in 1..N : callbacks[i] = Default(Defaults[i]) /\ Defaults[i] \in Own
    BY <1>3, <1>5
  <1>8. callbacks \in Seq(Handlers) /\ Len(callbacks) = N
    <2>1. \A i \in 1..N : callbacks[i] \in Handlers
      BY <1>4, <1>7
    <2>2. callbacks = [i \in 1..N |-> callbacks[i]]
      BY <1>5
    <2> QED BY ONLY <1>2, <2>1, <2>2
  <1>9. Registered = Own
    BY <1>4, <1>6 DEF Registered
  <1>10. RegistryInv
    <2>1. Own \subseteq CallbackNames
      BY DEF CallbackNames
    <2>2. asked \in [DOMAIN asked -> Handlers] /\ DOMAIN asked \subseteq CallbackNames
      BY <1>4, <1>6, <2>1
    <2>3. <<>> \in Seq(CallbackNames) /\ <<>> \in Seq([of : 1..Len(callbacks), at : {"before", "after"}])
      OBVIOUS
    <2>4. next \in 0..(Len(callbacks) + 1)
      BY <1>2, <1>8 DEF CInit
    <2> QED BY <1>8, <2>2, <2>3, <2>4 DEF RegistryInv, CInit
  <1>11. ListInv
    <2>1. \A i \in 1..N : callbacks[i].name \in Registered
      BY <1>4, <1>7, <1>9
    <2>2. ASSUME NEW n \in Registered PROVE Latest(callbacks, n, asked[n].id)
      <3>1. PICK i \in 1..N : n = Defaults[i]
        BY <1>3, <1>9
      <3>2. callbacks[i].name = n /\ callbacks[i].id = asked[n].id
        BY <1>4, <1>6, <1>7, <3>1
      <3>3. ASSUME NEW j \in 1..N, j > i PROVE callbacks[j].name # n
        <4>1. callbacks[j].name = Defaults[j]
          BY <1>4, <1>7
        <4> QED BY <1>2, <3>1, <3>3, <4>1
      <3> QED BY <1>8, <3>2, <3>3 DEF Latest
    <2> QED BY <1>8, <2>1, <2>2 DEF ListInv
  <1>12. StarInv
    <2>1. \A i \in 1..N : ~Starred(callbacks[i])
      BY <1>4, <1>7
    <2> QED BY <1>8, <2>1 DEF StarInv, Alone
  <1>13. SortInv
    BY DEF SortInv, CInit, Idle
  <1>14. LatestRunsOnce
    <2>1. DOMAIN fns = 1..N /\ Len(fns) = N /\ \A i \in 1..N : fns[i] = [name |-> Defaults[i], id |-> 0]
      BY <1>2, <1>6
    <2>2. ToSet(fns) = {fns[i] : i \in 1..N}
      BY <2>1 DEF ToSet
    <2>3. \A n \in Registered : asked[n].id = 0
      BY <1>4, <1>6, <1>9
    <2>4. ASSUME NEW i \in 1..N PROVE fns[i] \in {[name |-> n, id |-> asked[n].id] : n \in Registered}
      <3>1. Defaults[i] \in Registered /\ asked[Defaults[i]].id = 0
        BY <1>7, <1>9, <2>3
      <3> QED BY <2>1, <3>1
    <2>5. ASSUME NEW n \in Registered PROVE [name |-> n, id |-> asked[n].id] \in {fns[i] : i \in 1..N}
      <3>1. PICK i \in 1..N : n = Defaults[i]
        BY <1>3, <1>9
      <3> QED BY <2>1, <2>3, <3>1
    <2>6. ToSet(fns) = {[name |-> n, id |-> asked[n].id] : n \in Registered}
      BY <2>2, <2>4, <2>5
    <2>7. Cardinality(Registered) = N
      <3>1. Defaults \in Bijection(1..N, Registered)
        BY <1>2, <1>3, <1>9 DEF Bijection, Injection, Surjection, IsInjective
      <3>2. ExistsBijection(1..N, Registered)
        BY <3>1 DEF ExistsBijection
      <3>3. N \in Nat
        BY <1>2
      <3>4. IsFiniteSet(1..N) /\ Cardinality(1..N) = N
        BY ONLY <3>3, FS_Interval
      <3> QED BY <3>2, <3>4, FS_Bijection
    <2> QED BY <2>1, <2>6, <2>7 DEF LatestRunsOnce
  <1> QED BY <1>10, <1>11, <1>12, <1>13, <1>14 DEF OrderInv

------------------------------------------------------------------------------
(***************************************************************************)
(* sortCallback.                                                           *)
(***************************************************************************)
\* The callback that sortCallback is at.
LEMMA TopIs ==
    ASSUME OrderInv, stack # <<>>
    PROVE  /\ Len(stack) \in Nat \ {0} /\ Len(callbacks) \in Nat
           /\ Top.of \in 1..Len(callbacks) /\ Top.at \in {"before", "after"}
           /\ Cur \in Handlers /\ Cur.name \in Registered /\ Cur.name \in CallbackNames
           /\ ~Idle /\ next \in 1..(Len(callbacks) + 1)
  <1>0. RegistryInv /\ ListInv
    BY DEF OrderInv
  <1>1. stack \in Seq([of : 1..Len(callbacks), at : {"before", "after"}])
    BY <1>0 DEF RegistryInv
  <1>2. Len(stack) \in 1..Len(stack) /\ Len(stack) \in Nat \ {0}
    BY <1>1
  <1>3. Top \in [of : 1..Len(callbacks), at : {"before", "after"}]
    <2>1. PICK S : S = [of : 1..Len(callbacks), at : {"before", "after"}]
      OBVIOUS
    <2>2. stack \in Seq(S)
      BY <1>1, <2>1
    <2>3. stack[Len(stack)] \in S
      BY <1>2, <2>2
    <2> QED BY <2>1, <2>3 DEF Top
  <1>4. Top.of \in 1..Len(callbacks) /\ Top.at \in {"before", "after"}
    BY ONLY <1>3
  <1>5. Cur \in Handlers /\ Cur.name \in Registered
    BY SMTT(60), <1>0, <1>4 DEF Cur, RegistryInv, ListInv
  <1>6. Cur.name \in CallbackNames
    BY <1>5 DEF Handlers
  <1>7. ~Idle /\ next \in 1..(Len(callbacks) + 1) /\ Len(callbacks) \in Nat
    BY SMTT(60), <1>0 DEF RegistryInv, Idle
  <1> QED BY <1>2, <1>4, <1>5, <1>6, <1>7

\* A wish is written into a callback: it keeps its name and loses a star at most.
Rewritten(d) ==
    /\ d \in Seq(Handlers) /\ Len(d) = Len(callbacks)
    /\ \A i \in 1..Len(callbacks) :
          d[i].name = callbacks[i].name /\ d[i].id = callbacks[i].id /\ (Starred(d[i]) => Starred(callbacks[i]))

LEMMA WishesAreWritten ==
    ASSUME RegistryInv, NEW n \in CallbackNames, NEW i \in 1..Len(callbacks), NEW d,
           \/ d = callbacks
           \/ d = [callbacks EXCEPT ![i].after = n]
           \/ d = [callbacks EXCEPT ![i].before = n]
    PROVE  Rewritten(d)
  <1>1. callbacks \in Seq(Handlers) /\ callbacks[i] \in Handlers
    BY SMTT(60) DEF RegistryInv
  <1>2. n # Star /\ n \in Wish
    BY NamesAre DEF Wish
  <1>3. CASE d = callbacks
    BY <1>1, <1>3 DEF Rewritten
  <1>4. CASE d = [callbacks EXCEPT ![i].after = n]
    <2>1. PICK c : c = [callbacks[i] EXCEPT !.after = n]
      OBVIOUS
    <2>2. /\ c \in Handlers /\ c.name = callbacks[i].name /\ c.id = callbacks[i].id
          /\ c.before = callbacks[i].before /\ c.after = n
      BY <1>1, <1>2, <2>1 DEF Handlers
    <2>3. Starred(c) => Starred(callbacks[i])
      BY <1>2, <2>2 DEF Starred
    <2>4. d = [callbacks EXCEPT ![i] = c]
      BY <1>4, <2>1
    <2>5. d \in Seq(Handlers) /\ Len(d) = Len(callbacks) /\ d[i] = c
          /\ \A j \in 1..Len(callbacks) : j # i => d[j] = callbacks[j]
      BY <1>1, <2>2, <2>4
    <2> QED BY <2>2, <2>3, <2>5 DEF Rewritten
  <1>5. CASE d = [callbacks EXCEPT ![i].before = n]
    <2>1. PICK c : c = [callbacks[i] EXCEPT !.before = n]
      OBVIOUS
    <2>2. /\ c \in Handlers /\ c.name = callbacks[i].name /\ c.id = callbacks[i].id
          /\ c.after = callbacks[i].after /\ c.before = n
      BY <1>1, <1>2, <2>1 DEF Handlers
    <2>3. Starred(c) => Starred(callbacks[i])
      BY <1>2, <2>2 DEF Starred
    <2>4. d = [callbacks EXCEPT ![i] = c]
      BY <1>5, <2>1
    <2>5. d \in Seq(Handlers) /\ Len(d) = Len(callbacks) /\ d[i] = c
          /\ \A j \in 1..Len(callbacks) : j # i => d[j] = callbacks[j]
      BY <1>1, <2>2, <2>4
    <2> QED BY <2>2, <2>3, <2>5 DEF Rewritten
  <1> QED BY <1>3, <1>4, <1>5

\* With the stack t and the order s, no callback that was under way is forgotten
\* but the last one, which has its place.
NoneForgotten(t, s) ==
    \A k \in 1..Len(stack) :
        \/ \E j \in 1..Len(t) : t[j].of = stack[k].of
        \/ k = Len(stack) /\ \E j \in 1..Len(s) : s[j] = Cur.name

\* What a step of the sort leaves as it is, when it writes no more than wishes,
\* places no more than the callback it is at, and forgets no callback that is
\* not placed.
LEMMA SortsOn ==
    ASSUME OrderInv, stack # <<>>,
           NEW d, d = callbacks', Rewritten(d),
           NEW s, s = sorted',
           s = sorted \/ (~IsPlaced(Cur.name) /\ Put(s, sorted, Cur.name)),
           NEW t, t = stack', t \in Seq([of : 1..Len(callbacks), at : {"before", "after"}]),
           NoneForgotten(t, s),
           UNCHANGED <<fns, failed, next, asked, calls>>
    PROVE  OrderInv'
  <1>0. RegistryInv /\ ListInv /\ StarInv /\ SortInv
    BY DEF OrderInv
  <1>1. /\ d \in Seq(Handlers) /\ Len(d) = Len(callbacks)
        /\ \A i \in 1..Len(callbacks) :
              d[i].name = callbacks[i].name /\ d[i].id = callbacks[i].id /\ (Starred(d[i]) => Starred(callbacks[i]))
    BY DEF Rewritten
  <1>2. ~Idle /\ Cur.name \in Registered /\ Cur.name \in CallbackNames /\ next # 0
    BY TopIs DEF Idle
  <1>3. sorted \in Seq(CallbackNames) /\ OnceEach(sorted) /\ \A k \in 1..Len(sorted) : sorted[k] \in Registered
    BY <1>0, <1>2 DEF RegistryInv, SortInv
  <1>4. /\ s \in Seq(CallbackNames) /\ OnceEach(s)
        /\ \A i \in 1..Len(sorted) : \E j \in 1..Len(s) : s[j] = sorted[i]
        /\ \A j \in 1..Len(s) : s[j] = Cur.name \/ \E i \in 1..Len(sorted) : s[j] = sorted[i]
    <2>1. CASE s = sorted
      BY <1>3, <2>1
    <2>2. CASE s # sorted
      <3>1. PICK n : n = Cur.name
        OBVIOUS
      <3>2. \A i \in 1..Len(sorted) : sorted[i] # n
        BY <1>0, <2>2, <3>1, PlaceIs
      <3>3. n \in CallbackNames
        BY <1>2, <3>1
      <3>4. Put(s, sorted, n)
        BY <2>2, <3>1
      <3>5. /\ s \in Seq(CallbackNames) /\ OnceEach(s)
            /\ \A i \in 1..Len(sorted) : \E j \in 1..Len(s) : s[j] = sorted[i]
            /\ \A j \in 1..Len(s) : s[j] = n \/ \E i \in 1..Len(sorted) : s[j] = sorted[i]
        <4>1. sorted \in Seq(CallbackNames) /\ OnceEach(sorted)
          BY <1>3
        <4> QED BY ONLY <3>2, <3>3, <3>4, <4>1, PutIn
      <3> QED BY <3>1, <3>5
    <2> QED BY <2>1, <2>2
  <1>5. Registered' = Registered /\ asked' = asked
    BY DEF Registered
  <1>6. RegistryInv'
    <2>1. t \in Seq([of : 1..Len(d), at : {"before", "after"}])
      BY <1>1
    <2>2. next' \in 0..(Len(d) + 1)
      BY <1>0, <1>1 DEF RegistryInv
    <2>3. Idle' => t = <<>>
      BY <1>2 DEF Idle
    <2>4. calls' \in Nat /\ failed' \in BOOLEAN
      BY <1>0 DEF RegistryInv
    <2>5. DOMAIN asked' \subseteq CallbackNames /\ asked' \in [DOMAIN asked' -> Handlers]
      BY <1>0 DEF RegistryInv
    <2> QED BY <1>1, <1>4, <2>1, <2>2, <2>3, <2>4, <2>5 DEF RegistryInv
  <1>7. ListInv'
    <2>1. \A i \in 1..Len(d) : d[i].name \in Registered
      BY <1>0, <1>1 DEF ListInv
    <2>2. ASSUME NEW n \in Registered PROVE Latest(d, n, asked[n].id)
      <3>1. Latest(callbacks, n, asked[n].id)
        BY <1>0 DEF ListInv
      <3>2. PICK i \in 1..Len(callbacks) :
               /\ callbacks[i].name = n /\ callbacks[i].id = asked[n].id
               /\ \A j \in 1..Len(callbacks) : j > i => callbacks[j].name # n
        BY <3>1 DEF Latest
      <3>3. d[i].name = n /\ d[i].id = asked[n].id /\ i \in 1..Len(d)
        BY <1>1, <3>2
      <3>4. \A j \in 1..Len(d) : j > i => d[j].name # n
        BY <1>1, <3>2
      <3> QED BY <3>3, <3>4 DEF Latest
    <2> QED BY <1>5, <2>1, <2>2 DEF ListInv
  <1>8. StarInv'
    <2>1. Alone(d)
      BY <1>0, <1>1 DEF StarInv, Alone
    <2>2. \A i \in 1..Len(d) : Starred(d[i]) => \E c \in Calls : c.name = d[i].name /\ Starred(c)
      BY <1>0, <1>1 DEF StarInv
    <2> QED BY <2>1, <2>2 DEF StarInv
  <1>9. SortInv'
    <2>1. ASSUME NEW k \in 1..Len(s) PROVE s[k] \in Registered
      <3>1. CASE s[k] = Cur.name
        BY <1>2, <3>1
      <3>2. CASE \E i \in 1..Len(sorted) : s[k] = sorted[i]
        BY <1>3, <3>2
      <3> QED BY <1>4, <3>1, <3>2
    <2>2. ASSUME NEW i \in 1..(next - 1)
          PROVE  (\E k \in 1..Len(s) : s[k] = d[i].name) \/ \E k \in 1..Len(t) : t[k].of = i
      <3>0. i \in 1..Len(callbacks) /\ d[i].name = callbacks[i].name
        <4>1. next \in 0..(Len(callbacks) + 1) /\ Len(callbacks) \in Nat
          BY <1>0 DEF RegistryInv
        <4>2. i \in 1..Len(callbacks)
          BY <4>1
        <4> QED BY <1>1, <4>2
      <3>1. CASE Placed(i)
        BY <1>4, <3>0, <3>1 DEF Placed
      <3>2. CASE UnderWay(i)
        <4>1. PICK k \in 1..Len(stack) : stack[k].of = i
          BY <3>2 DEF UnderWay
        <4>2. \/ \E j \in 1..Len(t) : t[j].of = stack[k].of
              \/ k = Len(stack) /\ \E j \in 1..Len(s) : s[j] = Cur.name
          BY DEF NoneForgotten
        <4>3. CASE \E j \in 1..Len(t) : t[j].of = stack[k].of
          BY <4>1, <4>3
        <4>4. CASE k = Len(stack) /\ \E j \in 1..Len(s) : s[j] = Cur.name
          <5>1. Cur.name = d[i].name
            BY <3>0, <4>1, <4>4 DEF Cur, Top
          <5> QED BY <4>4, <5>1
        <4> QED BY <4>2, <4>3, <4>4
      <3> QED BY <1>0, <1>2, <3>1, <3>2 DEF SortInv
    <2>3. next' = next
      OBVIOUS
    <2>4. \A i \in 1..(next - 1) : Placed(i)' \/ UnderWay(i)'
      BY <2>2 DEF Placed, UnderWay
    <2> QED BY <1>4, <1>5, <2>1, <2>3, <2>4 DEF SortInv
  <1>10. LatestRunsOnce'
    BY <1>2 DEF LatestRunsOnce, Idle
  <1> QED BY <1>6, <1>7, <1>8, <1>9, <1>10 DEF OrderInv

LEMMA NextCallbacks ==
    ASSUME OrderInv, NextCallback
    PROVE  OrderInv'
  <1>0. RegistryInv /\ ListInv /\ StarInv /\ SortInv /\ LatestRunsOnce
    BY DEF OrderInv
  <1>1. stack = <<>> /\ ~Idle /\ next =< Len(callbacks) /\ next' = next + 1
    BY DEF NextCallback
  <1>2. UNCHANGED <<callbacks, fns, failed, sorted, asked, calls>>
    BY DEF NextCallback
  <1>3. Len(callbacks) \in Nat /\ next \in 1..Len(callbacks)
    BY SMTT(60), <1>0, <1>1 DEF RegistryInv, Idle
  <1>4. PICK frame : frame = [of |-> next, at |-> "before"]
    OBVIOUS
  <1>5. PICK F : F = [of : 1..Len(callbacks), at : {"before", "after"}]
    OBVIOUS
  <1>6. stack' = <<frame>>
    BY <1>4 DEF NextCallback
  <1>7. stack' \in Seq(F) /\ Len(stack') = 1 /\ stack'[1].of = next
    BY <1>3, <1>4, <1>5, <1>6
  <1>8. next' \in 0..(Len(callbacks) + 1) /\ next' # 0
    BY <1>1, <1>3
  <1>9. RegistryInv'
    BY <1>0, <1>2, <1>5, <1>7, <1>8 DEF RegistryInv, Idle
  <1>10. ListInv' /\ StarInv'
    BY <1>0, <1>2 DEF ListInv, StarInv, Registered
  <1>11. SortInv'
    <2>1. ASSUME NEW i \in 1..(next' - 1) PROVE Placed(i)' \/ UnderWay(i)'
      <3>1. CASE i = next
        <4>1. 1 \in 1..Len(stack')
          BY <1>7
        <4> QED BY <1>7, <3>1, <4>1 DEF UnderWay
      <3>2. CASE i # next
        <4>1. i \in 1..(next - 1)
          BY <1>1, <1>3, <3>2
        <4>2. 1..Len(stack) = {}
          BY <1>1
        <4>3. Placed(i)
          BY <1>0, <1>1, <4>1, <4>2 DEF SortInv, UnderWay
        <4> QED BY <1>2, <4>3 DEF Placed
      <3> QED BY <3>1, <3>2
    <2>2. \A k \in 1..Len(sorted) : sorted[k] \in Registered
      BY <1>0, <1>1 DEF SortInv
    <2>3. OnceEach(sorted)
      BY <1>0, <1>1 DEF SortInv
    <2> QED BY <1>2, <2>1, <2>2, <2>3 DEF SortInv, Registered, OnceEach
  <1>12. LatestRunsOnce'
    BY <1>8 DEF LatestRunsOnce, Idle
  <1> QED BY <1>9, <1>10, <1>11, <1>12 DEF OrderInv

\* The frames of a stack whose last one comes to another point.
LEMMA GoesTo ==
    ASSUME OrderInv, stack # <<>>, NEW step \in {"before", "after"},
           NEW t, t = [stack EXCEPT ![Len(stack)].at = step]
    PROVE  /\ t \in Seq([of : 1..Len(callbacks), at : {"before", "after"}]) /\ Len(t) = Len(stack)
           /\ \A k \in 1..Len(stack) : t[k].of = stack[k].of
  <1>1. PICK n : n = Len(stack)
    OBVIOUS
  <1>2. n \in Nat \ {0} /\ Len(callbacks) \in Nat
    BY <1>1, TopIs
  <1>3. PICK F : F = [of : 1..Len(callbacks), at : {"before", "after"}]
    OBVIOUS
  <1>4. stack \in Seq(F) /\ n \in 1..Len(stack)
    BY <1>1, <1>2, <1>3 DEF OrderInv, RegistryInv
  <1>5. PICK e : e = [stack[n] EXCEPT !.at = step]
    OBVIOUS
  <1>6. stack[n] \in F
    BY <1>4
  <1>7. e \in F /\ e.of = stack[n].of
    BY <1>3, <1>5, <1>6
  <1>8. t = [stack EXCEPT ![n] = e]
    BY <1>1, <1>5
  <1>9. t \in Seq(F) /\ Len(t) = Len(stack) /\ \A k \in 1..Len(stack) : t[k] = IF k = n THEN e ELSE stack[k]
    <2>1. e \in F
      BY <1>7
    <2> QED BY ONLY <1>4, <1>8, <2>1
  <1> QED BY <1>3, <1>7, <1>9

LEMMA SortsBefore ==
    ASSUME OrderInv, SortBefore
    PROVE  OrderInv'
  <1>0. RegistryInv
    BY DEF OrderInv
  <1>1. stack # <<>>
    BY DEF SortBefore, Stands
  <1>2. PICK d : d = callbacks'
    OBVIOUS
  <1>3. PICK s : s = sorted'
    OBVIOUS
  <1>4. PICK t : t = stack'
    OBVIOUS
  <1>5. t = [stack EXCEPT ![Len(stack)].at = "after"]
    BY <1>4 DEF SortBefore
  <1>6. /\ t \in Seq([of : 1..Len(callbacks), at : {"before", "after"}])
        /\ \A k \in 1..Len(stack) : \E j \in 1..Len(t) : t[j].of = stack[k].of
    BY <1>1, <1>5, GoesTo
  <1>7. Rewritten(d)
    <2>1. PICK n : n = Cur.name
      OBVIOUS
    <2>2. PICK i : i = Index(Cur.before)
      OBVIOUS
    <2>3. n \in CallbackNames /\ Top.of \in 1..Len(callbacks) /\ i \in 0..Len(callbacks) /\ Len(callbacks) \in Nat
      BY <1>0, <1>1, <2>1, <2>2, TopIs, IndexIs
    <2>4. d = callbacks \/ (i # 0 /\ d = [callbacks EXCEPT ![i].after = n])
      BY <1>2, <2>1, <2>2 DEF SortBefore
    <2>5. CASE d = callbacks
      BY <1>0, <2>3, <2>5, WishesAreWritten
    <2>6. CASE i # 0 /\ d = [callbacks EXCEPT ![i].after = n]
      <3>1. i \in 1..Len(callbacks)
        BY <2>3, <2>6
      <3> QED BY <1>0, <2>3, <2>6, <3>1, WishesAreWritten
    <2> QED BY <2>4, <2>5, <2>6
  <1>8. s = sorted \/ (~IsPlaced(Cur.name) /\ Put(s, sorted, Cur.name))
    <2>1. PICK p : p = Place(Cur.before)
      OBVIOUS
    <2>2. p \in 0..Len(sorted) /\ Len(sorted) \in Nat
      BY SMTT(60), <1>0, <2>1, PlaceIs DEF RegistryInv
    <2>3. IsPlaced(Cur.before) => p \in 1..(Len(sorted) + 1)
      BY <2>1, <2>2 DEF IsPlaced
    <2>4. \/ s = sorted
          \/ ~IsPlaced(Cur.name) /\ s = <<Cur.name>> \o sorted
          \/ IsPlaced(Cur.before) /\ ~IsPlaced(Cur.name) /\ s = InsertAt(sorted, p, Cur.name)
      BY <1>3, <2>1 DEF SortBefore
    <2> QED BY <2>3, <2>4 DEF Put
  <1>9. UNCHANGED <<fns, failed, next, asked, calls>>
    BY DEF SortBefore
  <1>10. NoneForgotten(t, s)
    BY <1>6 DEF NoneForgotten
  <1> QED BY ONLY OrderInv, <1>1, <1>2, <1>3, <1>4, <1>6, <1>7, <1>8, <1>9, <1>10, SortsOn

LEMMA SortsAfter ==
    ASSUME OrderInv, SortAfter
    PROVE  OrderInv'
  <1>0. RegistryInv
    BY DEF OrderInv
  <1>1. stack # <<>>
    BY DEF SortAfter, Stands
  <1>2. PICK d : d = callbacks'
    OBVIOUS
  <1>3. PICK s : s = sorted'
    OBVIOUS
  <1>4. PICK t : t = stack'
    OBVIOUS
  <1>5. t = SubSeq(stack, 1, Len(stack) - 1)
    BY <1>4 DEF SortAfter, Front
  <1>6. PICK F : F = [of : 1..Len(callbacks), at : {"before", "after"}]
    OBVIOUS
  <1>7. stack \in Seq(F) /\ Len(stack) \in Nat \ {0}
    BY <1>0, <1>1, <1>6, TopIs DEF RegistryInv
  <1>8. t \in Seq(F) /\ Len(t) = Len(stack) - 1 /\ \A k \in 1..(Len(stack) - 1) : t[k] = stack[k]
    <2>1. PICK n : n = Len(stack) - 1
      OBVIOUS
    <2>2. n \in 0..Len(stack) /\ t = SubSeq(stack, 1, n) /\ stack \in Seq(F)
      BY <1>5, <1>7, <2>1
    <2>3. t \in Seq(F) /\ Len(t) = n
      BY ONLY <2>2
    <2>4. \A k \in 1..n : t[k] = stack[k]
      BY ONLY <2>2
    <2> QED BY <2>1, <2>3, <2>4
  <1>9. s = IF IsPlaced(Cur.name) THEN sorted ELSE Append(sorted, Cur.name)
    BY <1>3 DEF SortAfter
  <1>10. s = sorted \/ (~IsPlaced(Cur.name) /\ Put(s, sorted, Cur.name))
    BY <1>9 DEF Put
  <1>11. \E j \in 1..Len(s) : s[j] = Cur.name
    <2>1. CASE IsPlaced(Cur.name)
      BY <1>0, <1>9, <2>1, PlaceIs
    <2>2. CASE ~IsPlaced(Cur.name)
      <3>1. PICK n : n = Cur.name
        OBVIOUS
      <3>2. n \in CallbackNames /\ sorted \in Seq(CallbackNames)
        BY <1>0, <1>1, <3>1, TopIs DEF RegistryInv
      <3>3. Len(s) = Len(sorted) + 1 /\ s[Len(sorted) + 1] = n /\ Len(sorted) \in Nat
        BY <1>9, <2>2, <3>1, <3>2
      <3> QED BY <3>1, <3>3
    <2> QED BY <2>1, <2>2
  <1>12. ASSUME NEW k \in 1..Len(stack), k # Len(stack) PROVE \E j \in 1..Len(t) : t[j].of = stack[k].of
    <2>1. k \in 1..(Len(stack) - 1)
      BY <1>7, <1>12
    <2> QED BY <1>7, <1>8, <2>1
  <1>13. Rewritten(d)
    <2>1. d = callbacks
      BY <1>2 DEF SortAfter
    <2> QED BY <1>0, <1>1, <2>1, TopIs, WishesAreWritten
  <1>14. UNCHANGED <<fns, failed, next, asked, calls>>
    BY DEF SortAfter
  <1>15. NoneForgotten(t, s)
    BY <1>11, <1>12 DEF NoneForgotten
  <1>16. t \in Seq([of : 1..Len(callbacks), at : {"before", "after"}])
    BY <1>6, <1>8
  <1> QED BY ONLY OrderInv, <1>1, <1>2, <1>3, <1>4, <1>10, <1>13, <1>14, <1>15, <1>16, SortsOn

LEMMA SortsOtherFirst ==
    ASSUME OrderInv, SortOtherFirst
    PROVE  OrderInv'
  <1>0. RegistryInv
    BY DEF OrderInv
  <1>1. stack # <<>>
    BY DEF SortOtherFirst, Stands
  <1>2. PICK d : d = callbacks'
    OBVIOUS
  <1>3. PICK s : s = sorted'
    OBVIOUS
  <1>4. PICK t : t = stack'
    OBVIOUS
  <1>5. PICK other : other = Index(Cur.after)
    OBVIOUS
  <1>6. other \in 1..Len(callbacks)
    <2>1. other # 0 /\ other \in 0..Len(callbacks) /\ Len(callbacks) \in Nat
      BY <1>0, <1>1, <1>5, IndexIs, TopIs DEF SortOtherFirst
    <2> QED BY <2>1
  <1>7. PICK u : u = [stack EXCEPT ![Len(stack)].at = "before"]
    OBVIOUS
  <1>8. PICK F : F = [of : 1..Len(callbacks), at : {"before", "after"}]
    OBVIOUS
  <1>9. u \in Seq(F) /\ Len(u) = Len(stack) /\ \A k \in 1..Len(stack) : u[k].of = stack[k].of
    BY <1>1, <1>7, <1>8, GoesTo
  <1>10. PICK e : e = [of |-> other, at |-> "before"]
    OBVIOUS
  <1>11. e \in F
    BY <1>6, <1>8, <1>10
  <1>12. t = Append(u, e)
    BY <1>4, <1>5, <1>7, <1>10 DEF SortOtherFirst
  <1>13. t \in Seq(F) /\ Len(t) = Len(u) + 1 /\ \A k \in 1..Len(u) : t[k] = u[k]
    BY ONLY <1>9, <1>11, <1>12
  <1>14. ASSUME NEW k \in 1..Len(stack) PROVE \E j \in 1..Len(t) : t[j].of = stack[k].of
    <2>1. k \in 1..Len(t) /\ t[k] = u[k] /\ u[k].of = stack[k].of
      BY <1>9, <1>13
    <2> QED BY <2>1
  <1>15. NoneForgotten(t, s)
    BY <1>14 DEF NoneForgotten
  <1>16. t \in Seq([of : 1..Len(callbacks), at : {"before", "after"}])
    BY <1>8, <1>13
  <1>17. Rewritten(d)
    <2>1. PICK n : n = Cur.name
      OBVIOUS
    <2>2. n \in CallbackNames
      BY <1>1, <2>1, TopIs
    <2>3. d = callbacks \/ d = [callbacks EXCEPT ![other].before = n]
      BY <1>2, <1>5, <2>1 DEF SortOtherFirst
    <2> QED BY <1>0, <1>6, <2>2, <2>3, WishesAreWritten
  <1>18. s = sorted
    BY <1>3 DEF SortOtherFirst
  <1>19. UNCHANGED <<fns, failed, next, asked, calls>>
    BY DEF SortOtherFirst
  <1> QED BY ONLY OrderInv, <1>1, <1>2, <1>3, <1>4, <1>15, <1>16, <1>17, <1>18, <1>19, SortsOn

LEMMA Conflicts ==
    ASSUME OrderInv, Conflict
    PROVE  OrderInv'
  <1>0. RegistryInv /\ ListInv /\ StarInv
    BY DEF OrderInv
  <1>1. failed' = TRUE /\ next' = 0 /\ stack' = <<>> /\ UNCHANGED <<callbacks, sorted, asked, calls>>
    BY DEF Conflict
  <1>2. <<>> \in Seq([of : 1..Len(callbacks), at : {"before", "after"}])
    OBVIOUS
  <1>3. 0 \in 0..(Len(callbacks) + 1)
    BY <1>0 DEF RegistryInv
  <1>4. RegistryInv'
    BY <1>0, <1>1, <1>2, <1>3 DEF RegistryInv, Idle
  <1>5. ListInv' /\ StarInv'
    BY <1>0, <1>1 DEF ListInv, StarInv, Registered
  <1>6. SortInv' /\ LatestRunsOnce'
    BY <1>1 DEF SortInv, LatestRunsOnce, Idle
  <1> QED BY <1>4, <1>5, <1>6 DEF OrderInv

\* When the loop is through, every registered name has its place, once.
LEMMA CompiledIs ==
    ASSUME OrderInv, Compiled
    PROVE  OrderInv'
  <1>0. RegistryInv /\ ListInv /\ StarInv /\ SortInv
    BY DEF OrderInv
  <1>1. ~Idle /\ stack = <<>> /\ next > Len(callbacks) /\ next' = 0
    BY DEF Compiled
  <1>2. UNCHANGED <<callbacks, failed, sorted, stack, asked, calls>>
    BY DEF Compiled
  <1>3. next - 1 = Len(callbacks) /\ Len(callbacks) \in Nat
    BY SMTT(60), <1>0, <1>1 DEF RegistryInv
  <1>4. PICK N : N = Len(sorted)
    OBVIOUS
  <1>5. N \in Nat /\ DOMAIN sorted = 1..N /\ OnceEach(sorted) /\ \A k \in 1..N : sorted[k] \in Registered
    BY <1>0, <1>1, <1>4 DEF RegistryInv, SortInv
  <1>6. ASSUME NEW n \in Registered PROVE \E k \in 1..N : sorted[k] = n
    <2>1. PICK i \in 1..Len(callbacks) : callbacks[i].name = n
      BY <1>0, <1>6 DEF ListInv, Latest
    <2>2. i \in 1..(next - 1) /\ 1..Len(stack) = {}
      BY <1>1, <1>3, <2>1
    <2>3. Placed(i)
      BY <1>0, <1>1, <2>2 DEF SortInv, UnderWay
    <2> QED BY <1>4, <2>1, <2>3 DEF Placed
  <1>7. PICK f : f = fns'
    OBVIOUS
  <1>8. f = [i \in 1..N |-> [name |-> sorted[i], id |-> callbacks[Index(sorted[i])].id]]
    BY <1>5, <1>7 DEF Compiled
  <1>9. \A i \in 1..N : f[i] = [name |-> sorted[i], id |-> asked[sorted[i]].id]
    <2> SUFFICES ASSUME NEW i \in 1..N PROVE f[i] = [name |-> sorted[i], id |-> asked[sorted[i]].id]
      OBVIOUS
    <2>1. sorted[i] \in Registered
      BY <1>5
    <2>2. callbacks[Index(sorted[i])].id = asked[sorted[i]].id
      BY <1>0, <2>1, IndexedIs
    <2> QED BY <1>8, <2>2
  <1>10. DOMAIN f = 1..N /\ Len(f) = N
    BY <1>5, <1>8
  <1>11. ToSet(f) = {f[i] : i \in 1..N}
    BY <1>10 DEF ToSet
  <1>12. ASSUME NEW i \in 1..N PROVE f[i] \in {[name |-> n, id |-> asked[n].id] : n \in Registered}
    BY <1>5, <1>9
  <1>13. ASSUME NEW n \in Registered PROVE [name |-> n, id |-> asked[n].id] \in {f[i] : i \in 1..N}
    <2>1. PICK k \in 1..N : sorted[k] = n
      BY <1>6
    <2> QED BY <1>9, <2>1
  <1>14. ToSet(f) = {[name |-> n, id |-> asked[n].id] : n \in Registered}
    BY <1>11, <1>12, <1>13
  <1>15. Cardinality(Registered) = N
    <2>1. sorted \in Bijection(1..N, Registered)
      <3>1. sorted \in [1..N -> Registered]
        BY SMTT(60), <1>0, <1>4, <1>5 DEF RegistryInv
      <3>2. \A i, j \in 1..N : sorted[i] = sorted[j] => i = j
        BY <1>4, <1>5 DEF OnceEach
      <3> QED BY <1>6, <3>1, <3>2 DEF Bijection, Injection, Surjection, IsInjective
    <2>2. ExistsBijection(1..N, Registered)
      BY <2>1 DEF ExistsBijection
    <2>3. IsFiniteSet(1..N) /\ Cardinality(1..N) = N
      BY <1>5, FS_Interval
    <2> QED BY <2>2, <2>3, FS_Bijection
  <1>16. LatestRunsOnce'
    <2>1. Registered' = Registered /\ asked' = asked
      BY <1>2 DEF Registered
    <2> QED BY <1>7, <1>10, <1>14, <1>15, <2>1 DEF LatestRunsOnce
  <1>17. RegistryInv'
    <2>1. 0 \in 0..(Len(callbacks) + 1)
      BY <1>3
    <2> QED BY <1>0, <1>1, <1>2, <2>1 DEF RegistryInv, Idle
  <1>18. ListInv' /\ StarInv'
    BY <1>0, <1>2 DEF ListInv, StarInv, Registered
  <1>19. SortInv'
    BY <1>1 DEF SortInv, Idle
  <1> QED BY <1>16, <1>17, <1>18, <1>19 DEF OrderInv

LEMMA RegistryNext ==
    ASSUME StarsAreKept, OrderInv, [CNext]_registry
    PROVE  OrderInv'
  <1>1. ASSUME NEW c \in Calls, Register(c) PROVE OrderInv'
    BY <1>1, Registers
  <1>2. ASSUME NEW c \in Calls, Replace(c) PROVE OrderInv'
    BY <1>2, Replaces
  <1>3. ASSUME NEW c \in Calls, Unregister(c) PROVE OrderInv'
    BY <1>3, Unregisters
  <1>4. CASE Sort
    BY <1>4, NextCallbacks, SortsBefore, SortsAfter, SortsOtherFirst, Conflicts, CompiledIs DEF Sort
  <1>5. CASE UNCHANGED registry
    <2>1. UNCHANGED <<callbacks, fns, failed, next, sorted, stack, asked, calls>>
      BY <1>5 DEF registry
    <2>2. RegistryInv' <=> RegistryInv
      BY <2>1 DEF RegistryInv, Idle
    <2>3. (ListInv' <=> ListInv) /\ (StarInv' <=> StarInv)
      BY <2>1 DEF ListInv, StarInv, Registered
    <2>4. SortInv' <=> SortInv
      BY <2>1 DEF SortInv, Idle, Registered, Placed, UnderWay
    <2>5. LatestRunsOnce' <=> LatestRunsOnce
      BY <2>1 DEF LatestRunsOnce, Idle, Registered
    <2> QED BY <2>2, <2>3, <2>4, <2>5 DEF OrderInv
  <1> QED BY <1>1, <1>2, <1>3, <1>4, <1>5 DEF CNext

(***************************************************************************)
(* Whatever an application registers, replaces and removes, and however    *)
(* the wishes of its callbacks go against each other: a sort that ends     *)
(* without a conflict has each registered callback once among the          *)
(* functions that Execute runs, with the handler registered last, as long  *)
(* as no name with a star is given again (compile, sortCallbacks).         *)
(***************************************************************************)
THEOREM EachRunsOnce ==
    ASSUME StarsAreKept
    PROVE  CSpec => []LatestRunsOnce
  <1>1. CInit => OrderInv
    BY RegistryInit
  <1>2. OrderInv /\ [CNext]_registry => OrderInv'
    BY RegistryNext
  <1>3. OrderInv => LatestRunsOnce
    BY DEF OrderInv
  <1> QED BY <1>1, <1>2, <1>3, PTL DEF CSpec

------------------------------------------------------------------------------
(***************************************************************************)
(* The order, when every wish is about GORM's own callbacks: the sort of   *)
(* stars keeps these in front and in their order, so that each has its     *)
(* place before a wish about it is looked at.                              *)
(***************************************************************************)
\* Neither Before nor After.
Wishless(c) == c.before = NoName /\ c.after = NoName

\* The defaults m and n are in this order.
InOrder(m, n) == \E i, j \in DOMAIN Defaults : i < j /\ Defaults[i] = m /\ Defaults[j] = n

\* The callback d may come after c in the list: GORM's own come first, in their
\* order, and only the first of a name has wishes.
Follows(c, d) ==
    /\ d.how = "default" => c.how = "default" /\ InOrder(c.name, d.name)
    /\ c.name = d.name => Wishless(d)

Ranked(cs) ==
    \A i, j \in 1..Len(cs) : i < j => Follows(cs[i], cs[j]) /\ (Starred(cs[i]) => Starred(cs[j]))

\* A callback of the list has the wishes that were asked for, or none.
EntryIs(c, a) ==
    /\ Wishless(c) \/ (c.before = a[c.name].before /\ c.after = a[c.name].after)
    /\ c.how = "default" => c.name \in Own /\ Wishless(c)

\* What has been asked for under a name is in the list; of GORM's own, the
\* default is there.
AskedIs(n, a, cs) ==
    /\ a.name = n
    /\ a.how = "default" <=> n \in Own
    /\ n \in Own => Wishless(a) /\ \E i \in 1..Len(cs) : cs[i].name = n /\ cs[i].how = "default"
    /\ {a.before, a.after} \subseteq Own \cup {NoName, Star} /\ {a.before, a.after} # {Star}
    /\ \E i \in 1..Len(cs) : cs[i].name = n /\ cs[i].before = a.before /\ cs[i].after = a.after

PlainList ==
    /\ Ranked(callbacks)
    /\ \A i \in 1..Len(callbacks) : EntryIs(callbacks[i], asked)
    /\ \A n \in Registered : AskedIs(n, asked[n], callbacks)
    /\ Own \subseteq DOMAIN asked
    /\ \A n \in Own \ Registered : \E d \in Calls : d.how = "remove" /\ d.name = n

\* The list s has all pairs of W that it has in their order.
Obeys(s, W) == \A k, l \in 1..Len(s) : <<s[k], s[l]>> \in W => k < l

\* Without a place in the list s the callback c has no Before that counts.
AllBehind(c, s) ==
    (\A k \in 1..Len(s) : s[k] # c.name) => c.before \notin Registered /\ (c.before = Star => s = <<>>)

\* The callback the sort is at is the last the loop has come to.
PlainSort ==
    ~Idle =>
        /\ ~failed
        /\ Len(stack) =< 1
        /\ stack # <<>> => stack[1].of = next - 1
        /\ \A k \in 1..Len(sorted) : \E i \in 1..(next - 1) : callbacks[i].name = sorted[k]
        /\ stack # <<>> /\ stack[1].at = "after" => AllBehind(callbacks[next - 1], sorted)
        /\ Possible => Obeys(sorted, Wishes)

PlainInv == PlainList /\ PlainSort /\ OrderAsAsked

LEMMA PlainKeepsStars == PlainWishes => StarsAreKept
  BY DEF PlainWishes, StarsAreKept

\* The callback c may come behind those of q, and in front of those with a star.
MayJoin(c, q) == \A w \in 1..Len(q) : Follows(q[w], c) /\ (Starred(q[w]) => Follows(c, q[w]))

\* The list r is q and c, in an order of stars.
Joined(r, q, c) ==
    /\ r \in Seq(Handlers) /\ Ranked(r)
    /\ \E u \in 1..Len(r) : r[u] = c
    /\ \A w \in 1..Len(q) : \E u \in 1..Len(r) : r[u] = q[w]
    /\ \A u \in 1..Len(r) : r[u] = c \/ \E w \in 1..Len(q) : r[u] = q[w]

\* What the sort of stars keeps of the order.
LEMMA OneMoreRanked ==
    ASSUME NEW q \in Seq(Handlers), Ranked(q), NEW c \in Handlers,
           MayJoin(c, q), NEW r, r = Inserted(q, c)
    PROVE  Joined(r, q, c)
  <1>1. Len(q) \in Nat
    OBVIOUS
  <1>2. PICK p \in 1..(Len(q) + 1) :
           /\ r \in Seq(Handlers) /\ PutAt(r, q, p, c)
           /\ \A w \in p..Len(q) : Starred(q[w])
           /\ p # 1 => ~Less(c, q[p - 1])
    BY InsertedIs
  <1>3. /\ Len(r) = Len(q) + 1 /\ r[p] = c /\ p \in 1..Len(r)
        /\ \A w \in 1..Len(q) : Moved(w, p) \in 1..Len(r) /\ r[Moved(w, p)] = q[w]
        /\ \A u \in 1..Len(r) : u = p \/ \E w \in 1..Len(q) : u = Moved(w, p)
    BY <1>1, <1>2 DEF PutAt
  <1>4. ASSUME NEW w \in 1..Len(q), w < p, Starred(q[w]) PROVE Starred(c)
    <2>1. p # 1 /\ p - 1 \in 1..Len(q) /\ (w = p - 1 \/ w < p - 1)
      BY <1>1, <1>4
    <2>2. Starred(q[p - 1])
      BY <1>4, <2>1 DEF Ranked
    <2>3. ~Less(c, q[p - 1])
      BY <1>2, <2>1
    <2> QED BY <2>2, <2>3 DEF Starred, Less
  <1>5. Ranked(r)
    <2> SUFFICES ASSUME NEW u \in 1..Len(r), NEW v \in 1..Len(r), u < v
                 PROVE  Follows(r[u], r[v]) /\ (Starred(r[u]) => Starred(r[v]))
      BY DEF Ranked
    <2>0. \A w \in 1..Len(q) : Follows(q[w], c) /\ (Starred(q[w]) => Follows(c, q[w]))
      BY DEF MayJoin
    <2>1. CASE u = p
      <3>1. PICK w \in 1..Len(q) : v = Moved(w, p)
        BY <1>1, <1>3, <2>1
      <3>2. w \in p..Len(q)
        BY <1>1, <2>1, <3>1 DEF Moved
      <3>3. Starred(q[w])
        BY <1>2, <3>2
      <3>4. r[u] = c /\ r[v] = q[w]
        BY <1>3, <2>1, <3>1
      <3> QED BY <2>0, <3>3, <3>4
    <2>2. CASE v = p
      <3>1. PICK w \in 1..Len(q) : u = Moved(w, p)
        BY <1>1, <1>3, <2>2
      <3>2. w < p
        BY <1>1, <2>2, <3>1 DEF Moved
      <3>3. Starred(q[w]) => Starred(c)
        BY <1>4, <3>2
      <3>4. r[u] = q[w] /\ r[v] = c
        BY <1>3, <2>2, <3>1
      <3> QED BY <2>0, <3>3, <3>4
    <2>3. CASE u # p /\ v # p
      <3>1. PICK w \in 1..Len(q) : u = Moved(w, p)
        BY <1>3, <2>3
      <3>2. PICK x \in 1..Len(q) : v = Moved(x, p)
        BY <1>3, <2>3
      <3>3. w < x
        BY SMTT(60), <1>1, <3>1, <3>2 DEF Moved
      <3>4. r[u] = q[w] /\ r[v] = q[x]
        BY <1>3, <3>1, <3>2
      <3> QED BY <3>3, <3>4 DEF Ranked
    <2> QED BY <2>1, <2>2, <2>3
  <1>6. \A u \in 1..Len(r) : r[u] = c \/ \E w \in 1..Len(q) : r[u] = q[w]
    BY ZenonT(60), <1>3
  <1>7. r \in Seq(Handlers) /\ \E u \in 1..Len(r) : r[u] = c
    BY <1>2, <1>3
  <1>8. \A w \in 1..Len(q) : \E u \in 1..Len(r) : r[u] = q[w]
    BY <1>3
  <1> QED BY <1>5, <1>6, <1>7, <1>8 DEF Joined

\* The first k callbacks without those of the names G, in the order of stars.
IsRanked(q, cs, G, k) ==
    /\ q \in Seq(Handlers) /\ Ranked(q)
    /\ \A w \in 1..Len(q) : \E i \in 1..k : cs[i].name \notin G /\ q[w] = cs[i]
    /\ \A i \in 1..k : cs[i].name \notin G => \E w \in 1..Len(q) : q[w] = cs[i]

LEMMA StarsLastRanked ==
    ASSUME NEW cs \in Seq(Handlers), NEW G,
           \A i, j \in 1..Len(cs) : Starred(cs[i]) /\ cs[j].name = cs[i].name /\ cs[i].name \notin G => i = j,
           \A i, j \in 1..Len(cs) : i < j => Follows(cs[i], cs[j]),
           \A i \in 1..Len(cs) : cs[i].how = "default" => ~Starred(cs[i])
    PROVE  IsRanked(StarsLast(cs, G), cs, G, Len(cs))
  <1> DEFINE N == Len(cs)
  <1>1. N \in Nat
    OBVIOUS
  <1>2. PICK f : Lists(cs, G, N, f) /\ StarsLast(cs, G) = f[N]
    <2> DEFINE f == CHOOSE g : Lists(cs, G, N, g)
    <2>1. Lists(cs, G, N, f)
      BY <1>1, ListsExist
    <2>2. StarsLast(cs, G) = f[N]
      BY DEF StarsLast, Lists
    <2> QED BY <2>1, <2>2
  <1>3. \A k \in 0..N : f[k] = IF k = 0 THEN <<>>
                               ELSE IF cs[k].name \in G THEN f[k - 1]
                               ELSE Inserted(f[k - 1], cs[k])
    BY <1>2 DEF Lists
  <1> DEFINE P == {k \in Nat : k =< N => IsRanked(f[k], cs, G, k)}
  <1>4. 0 \in P
    <2>1. f[0] = <<>>
      BY <1>1, <1>3
    <2>2. PICK q : q = f[0]
      OBVIOUS
    <2>3. q \in Seq(Handlers) /\ 1..Len(q) = {} /\ 1..0 = {}
      BY <2>1, <2>2
    <2>4. IsRanked(q, cs, G, 0)
      BY <2>3 DEF IsRanked, Ranked
    <2> QED BY <2>2, <2>4
  <1>5. ASSUME NEW k \in Nat, k \in P PROVE k + 1 \in P
    <2> SUFFICES ASSUME k + 1 =< N PROVE IsRanked(f[k + 1], cs, G, k + 1)
      OBVIOUS
    <2>1. PICK q : q = f[k]
      OBVIOUS
    <2>2. IsRanked(q, cs, G, k)
      BY <1>1, <1>5, <2>1
    <2>3. /\ k + 1 \in 0..N /\ k + 1 # 0 /\ (k + 1) - 1 = k /\ k + 1 \in 1..N
          /\ \A i \in 1..k : i \in 1..(k + 1) /\ i \in 1..N /\ i < k + 1
          /\ \A i \in 1..(k + 1) : i = k + 1 \/ i \in 1..k
      BY <1>1
    <2>4. PICK r : r = f[k + 1]
      OBVIOUS
    <2>5. CASE cs[k + 1].name \in G
      <3>1. r = q
        BY <1>3, <2>1, <2>3, <2>4, <2>5
      <3>2. \A w \in 1..Len(q) : \E i \in 1..(k + 1) : cs[i].name \notin G /\ q[w] = cs[i]
        BY <2>2, <2>3 DEF IsRanked
      <3>3. \A i \in 1..(k + 1) : cs[i].name \notin G => \E w \in 1..Len(q) : q[w] = cs[i]
        BY <2>2, <2>3, <2>5 DEF IsRanked
      <3>4. IsRanked(q, cs, G, k + 1)
        BY <2>2, <3>2, <3>3 DEF IsRanked
      <3> QED BY <2>4, <3>1, <3>4
    <2>6. CASE cs[k + 1].name \notin G
      <3>1. PICK c : c = cs[k + 1]
        OBVIOUS
      <3>2. r = Inserted(q, c) /\ c \in Handlers
        BY <1>3, <2>1, <2>3, <2>4, <2>6, <3>1
      <3>3. q \in Seq(Handlers) /\ Ranked(q)
        BY <2>2 DEF IsRanked
      <3>4. ASSUME NEW w \in 1..Len(q)
            PROVE  Follows(q[w], c) /\ (Starred(q[w]) => Follows(c, q[w]))
        <4>1. PICK i \in 1..k : cs[i].name \notin G /\ q[w] = cs[i]
          BY <2>2 DEF IsRanked
        <4>2. i \in 1..N /\ i < k + 1 /\ k + 1 \in 1..N
          BY <2>3
        <4>3. Follows(cs[i], cs[k + 1])
          BY <4>2
        <4>4. ASSUME Starred(cs[i]) PROVE cs[i].how # "default" /\ cs[k + 1].name # cs[i].name
          <5>1. cs[k + 1].name # cs[i].name
            BY SMTT(60), <4>1, <4>2, <4>4
          <5> QED BY <4>2, <4>4, <5>1
        <4>5. Starred(cs[i]) => Follows(cs[k + 1], cs[i])
          BY <4>4 DEF Follows
        <4> QED BY <3>1, <4>1, <4>3, <4>5
      <3>5. /\ r \in Seq(Handlers) /\ Ranked(r)
            /\ \E u \in 1..Len(r) : r[u] = c
            /\ \A w \in 1..Len(q) : \E u \in 1..Len(r) : r[u] = q[w]
            /\ \A u \in 1..Len(r) : r[u] = c \/ \E w \in 1..Len(q) : r[u] = q[w]
        <4>1. MayJoin(c, q)
          BY <3>4 DEF MayJoin
        <4>2. r = Inserted(q, c)
          BY <3>2
        <4>3. c \in Handlers /\ q \in Seq(Handlers) /\ Ranked(q)
          BY <3>2, <3>3
        <4>4. Joined(r, q, c)
          BY ONLY <4>1, <4>2, <4>3, OneMoreRanked
        <4> QED BY <4>4 DEF Joined
      <3>6. \A w \in 1..Len(r) : \E i \in 1..(k + 1) : cs[i].name \notin G /\ r[w] = cs[i]
        <4> SUFFICES ASSUME NEW w \in 1..Len(r) PROVE \E i \in 1..(k + 1) : cs[i].name \notin G /\ r[w] = cs[i]
          OBVIOUS
        <4>1. CASE r[w] = c
          BY <2>3, <2>6, <3>1, <4>1
        <4>2. CASE r[w] # c
          <5>1. PICK x \in 1..Len(q) : r[w] = q[x]
            BY <3>5, <4>2
          <5>2. PICK i \in 1..k : cs[i].name \notin G /\ q[x] = cs[i]
            BY <2>2 DEF IsRanked
          <5> QED BY <2>3, <5>1, <5>2
        <4> QED BY <4>1, <4>2
      <3>7. \A i \in 1..(k + 1) : cs[i].name \notin G => \E w \in 1..Len(r) : r[w] = cs[i]
        <4> SUFFICES ASSUME NEW i \in 1..(k + 1), cs[i].name \notin G PROVE \E w \in 1..Len(r) : r[w] = cs[i]
          OBVIOUS
        <4>1. CASE i = k + 1
          BY <3>1, <3>5, <4>1
        <4>2. CASE i # k + 1
          <5>1. i \in 1..k
            BY <2>3, <4>2
          <5>2. PICK x \in 1..Len(q) : q[x] = cs[i]
            BY <2>2, <5>1 DEF IsRanked
          <5>3. PICK u \in 1..Len(r) : r[u] = q[x]
            BY <3>5
          <5> QED BY <5>2, <5>3
        <4> QED BY <4>1, <4>2
      <3>8. IsRanked(r, cs, G, k + 1)
        BY <3>5, <3>6, <3>7 DEF IsRanked
      <3> QED BY <2>4, <3>8
    <2> QED BY <2>5, <2>6
  <1> HIDE DEF P
  <1>6. N \in P
    BY <1>1, <1>4, <1>5, ByOne
  <1>7. IsRanked(f[N], cs, G, N)
    BY <1>1, <1>6 DEF P
  <1> QED BY <1>2, <1>7

\* What the application asks for under the name of c when it adds c.
AsksFor(c, a) ==
    /\ c.name \in Registered =>
          /\ Wishless(c)
          /\ a.name = asked[c.name].name /\ a.how = asked[c.name].how
          /\ a.before = asked[c.name].before /\ a.after = asked[c.name].after
    /\ c.name \notin Registered =>
          /\ a = c /\ c.name \notin Own
          /\ {c.before, c.after} \subseteq Own \cup {NoName, Star} /\ {c.before, c.after} # {Star}

\* A callback c is added, or takes those of its name with it.
LEMMA CompilesPlain ==
    ASSUME OrderInv, PlainInv, Idle, NEW c \in Handlers, Compile(c), c.how # "default",
           DOMAIN asked \subseteq DOMAIN asked',
           Registered' = IF c.how = "remove" THEN Registered \ {c.name} ELSE Registered \cup {c.name},
           \A n \in Registered \ {c.name} : asked'[n] = asked[n],
           c.how # "remove" => AsksFor(c, asked'[c.name]),
           c.how # "remove" => \A i \in 1..Len(callbacks) :
                callbacks[i].name = c.name => ~Starred(c) /\ ~Starred(callbacks[i]),
           c.how = "remove" => Wishless(c) /\ \E d \in Calls : d.how = "remove" /\ d.name = c.name
    PROVE  PlainInv'
  <1>0. RegistryInv /\ ListInv /\ StarInv /\ PlainList
    BY DEF OrderInv, PlainInv
  <1>1. PICK N : N = Len(callbacks)
    OBVIOUS
  <1>2. callbacks \in Seq(Handlers) /\ N \in Nat
    BY <1>0, <1>1 DEF RegistryInv
  <1>3. PICK all : all = Append(callbacks, c)
    OBVIOUS
  <1>4. all \in Seq(Handlers) /\ Len(all) = N + 1 /\ all[N + 1] = c /\ \A i \in 1..N : all[i] = callbacks[i]
    BY <1>1, <1>2, <1>3
  <1>5. PICK G : G = IF c.how = "remove" THEN {c.name} ELSE {}
    OBVIOUS
  <1>6. PICK q : q = callbacks'
    OBVIOUS
  <1>7. q = StarsLast(all, G)
    BY <1>3, <1>5, <1>6 DEF Compile
  <1>8. \A i \in 1..(N + 1) : i = N + 1 \/ i \in 1..N
    BY <1>2
  <1>9. ASSUME NEW i \in 1..(N + 1), NEW j \in 1..(N + 1), Starred(all[i]), all[j].name = all[i].name,
               all[i].name \notin G
        PROVE  i = j
    <2>1. CASE i \in 1..N /\ j \in 1..N
      BY <1>0, <1>1, <1>4, <1>9, <2>1 DEF StarInv, Alone
    <2>2. CASE i = N + 1 /\ j \in 1..N
      BY <1>1, <1>4, <1>5, <1>9, <2>2
    <2>3. CASE i \in 1..N /\ j = N + 1
      BY <1>1, <1>4, <1>5, <1>9, <2>3
    <2> QED BY <1>8, <2>1, <2>2, <2>3
  \* Who has a callback of the name already adds one without wishes.
  <1>10. ASSUME NEW i \in 1..N, callbacks[i].name = c.name PROVE Wishless(c)
    <2>1. c.name \in Registered
      BY <1>0, <1>1, <1>10 DEF ListInv
    <2> QED BY <2>1 DEF AsksFor
  <1>11. ASSUME NEW i \in 1..(N + 1), NEW j \in 1..(N + 1), i < j PROVE Follows(all[i], all[j])
    <2>1. i \in 1..N
      BY <1>2, <1>11
    <2>2. CASE j \in 1..N
      BY <1>0, <1>1, <1>4, <1>11, <2>1, <2>2 DEF PlainList, Ranked
    <2>3. CASE j = N + 1
      BY <1>4, <1>10, <2>1, <2>3 DEF Follows
    <2> QED BY <1>8, <2>2, <2>3
  <1>12. ASSUME NEW i \in 1..(N + 1), all[i].how = "default" PROVE ~Starred(all[i])
    <2>1. i \in 1..N
      BY <1>4, <1>8, <1>12
    <2>2. Wishless(callbacks[i])
      BY <1>0, <1>1, <1>4, <1>12, <2>1 DEF PlainList, EntryIs
    <2> QED BY <1>4, <2>1, <2>2, NamesAre DEF Wishless, Starred
  <1>13. IsRanked(q, all, G, N + 1)
    <2>1. \A i, j \in 1..(N + 1) : Starred(all[i]) /\ all[j].name = all[i].name /\ all[i].name \notin G => i = j
      BY <1>9
    <2>2. \A i, j \in 1..(N + 1) : i < j => Follows(all[i], all[j])
      BY <1>11
    <2>3. \A i \in 1..(N + 1) : all[i].how = "default" => ~Starred(all[i])
      BY <1>12
    <2> QED BY ONLY <1>4, <1>7, <2>1, <2>2, <2>3, StarsLastRanked
  <1>14. /\ Ranked(q)
         /\ \A w \in 1..Len(q) : \E i \in 1..(N + 1) : all[i].name \notin G /\ q[w] = all[i]
         /\ \A i \in 1..(N + 1) : all[i].name \notin G => \E w \in 1..Len(q) : q[w] = all[i]
    BY <1>13 DEF IsRanked
  <1>15. PICK a : a = asked'
    OBVIOUS
  <1>16. /\ \A n \in Registered \ {c.name} : a[n] = asked[n]
         /\ c.how # "remove" => AsksFor(c, a[c.name])
         /\ c.name \in G <=> c.how = "remove"
         /\ \A n : n \in Registered' <=> n \notin G /\ (n \in Registered \/ n = c.name)
    BY <1>5, <1>15
  <1>17. ASSUME NEW w \in 1..Len(q) PROVE EntryIs(q[w], a)
    <2>1. PICK i \in 1..(N + 1) : all[i].name \notin G /\ q[w] = all[i]
      BY <1>14
    <2>2. CASE i = N + 1
      <3>1. AsksFor(c, a[c.name])
        BY <1>4, <1>16, <2>1, <2>2
      <3>2. Wishless(c) \/ (c.before = a[c.name].before /\ c.after = a[c.name].after)
        BY <3>1 DEF AsksFor
      <3> QED BY <1>4, <2>1, <2>2, <3>2 DEF EntryIs
    <2>3. CASE i \in 1..N
      <3>1. PICK e : e = callbacks[i]
        OBVIOUS
      <3>2. e.name \in Registered /\ EntryIs(e, asked) /\ e.name \notin G /\ q[w] = e
        BY <1>0, <1>1, <1>4, <2>1, <2>3, <3>1 DEF ListInv, PlainList
      <3>3. a[e.name].before = asked[e.name].before /\ a[e.name].after = asked[e.name].after
        <4>1. CASE e.name # c.name
          BY <1>16, <3>2, <4>1
        <4>2. CASE e.name = c.name
          <5>1. AsksFor(c, a[c.name])
            BY <1>16, <3>2, <4>2
          <5> QED BY <3>2, <4>2, <5>1 DEF AsksFor
        <4> QED BY <4>1, <4>2
      <3> QED BY <3>2, <3>3 DEF EntryIs
    <2> QED BY <1>8, <2>2, <2>3
  <1>18. ASSUME NEW n \in Registered, n \notin G PROVE AskedIs(n, a[n], q)
    <2>1. PICK b : b = a[n]
      OBVIOUS
    <2>2. PICK o : o = asked[n]
      OBVIOUS
    <2>3. b.name = o.name /\ b.how = o.how /\ b.before = o.before /\ b.after = o.after
      <3>1. CASE n # c.name
        BY <1>16, <2>1, <2>2, <3>1
      <3>2. CASE n = c.name
        <4>1. AsksFor(c, a[c.name])
          BY <1>16, <1>18, <3>2
        <4> QED BY <2>1, <2>2, <3>2, <4>1 DEF AsksFor
      <3> QED BY <3>1, <3>2
    <2>4. AskedIs(n, o, callbacks)
      BY <1>0, <2>2 DEF PlainList
    <2>5. ASSUME NEW i \in 1..N, callbacks[i].name = n PROVE \E w \in 1..Len(q) : q[w] = callbacks[i]
      <3>1. i \in 1..(N + 1)
        BY <1>2
      <3>2. all[i] = callbacks[i]
        BY <1>4
      <3>3. all[i].name \notin G
        BY <1>18, <2>5, <3>2
      <3>4. \E w \in 1..Len(q) : q[w] = all[i]
        BY <1>14, <3>1, <3>3
      <3> QED BY <3>2, <3>4
    <2>6. n \in Own => \E w \in 1..Len(q) : q[w].name = n /\ q[w].how = "default"
      <3> SUFFICES ASSUME n \in Own PROVE \E w \in 1..Len(q) : q[w].name = n /\ q[w].how = "default"
        OBVIOUS
      <3>1. PICK i \in 1..N : callbacks[i].name = n /\ callbacks[i].how = "default"
        BY <1>1, <2>4 DEF AskedIs
      <3> QED BY <2>5, <3>1
    <2>7. \E w \in 1..Len(q) : q[w].name = n /\ q[w].before = b.before /\ q[w].after = b.after
      <3>1. PICK i \in 1..N : callbacks[i].name = n /\ callbacks[i].before = o.before /\ callbacks[i].after = o.after
        BY <1>1, <2>4 DEF AskedIs
      <3>2. PICK w \in 1..Len(q) : q[w] = callbacks[i]
        BY <2>5, <3>1
      <3>3. q[w].name = n /\ q[w].before = b.before /\ q[w].after = b.after
        BY <2>3, <3>1, <3>2
      <3> QED BY <3>3
    <2>8. AskedIs(n, b, q)
      BY ZenonT(60), <2>3, <2>4, <2>6, <2>7 DEF AskedIs, Wishless
    <2> QED BY <2>1, <2>8
  <1>19. ASSUME c.name \notin Registered, c.how # "remove" PROVE AskedIs(c.name, a[c.name], q)
    <2>1. a[c.name] = c /\ c.name \notin Own
          /\ {c.before, c.after} \subseteq Own \cup {NoName, Star} /\ {c.before, c.after} # {Star}
      BY <1>16, <1>19 DEF AsksFor
    <2>2. PICK w \in 1..Len(q) : q[w] = c
      <3>1. N + 1 \in 1..(N + 1) /\ all[N + 1].name \notin G
        BY <1>2, <1>4, <1>16, <1>19
      <3> QED BY <1>4, <1>14, <3>1
    <2>3. \E u \in 1..Len(q) : q[u].name = c.name /\ q[u].before = c.before /\ q[u].after = c.after
      BY <2>2
    <2>4. AskedIs(c.name, c, q)
      BY <2>1, <2>3 DEF AskedIs
    <2> QED BY <2>1, <2>4
  <1>20. PlainList'
    <2>1. \A n \in Registered' : AskedIs(n, a[n], q)
      BY <1>16, <1>18, <1>19
    <2>2. Own \subseteq DOMAIN a
      BY <1>0, <1>15 DEF PlainList
    <2>3. ASSUME NEW n \in Own, n \notin Registered' PROVE \E d \in Calls : d.how = "remove" /\ d.name = n
      <3>1. CASE n \in Registered
        BY <1>5, <1>16, <2>3, <3>1
      <3>2. CASE n \notin Registered
        BY <1>0, <3>2 DEF PlainList
      <3> QED BY <3>1, <3>2
    <2>4. Own' = Own
      BY DEF Own
    <2>5. \A n \in Own \ Registered' : \E d \in Calls : d.how = "remove" /\ d.name = n
      BY <2>3
    <2> QED BY <1>6, <1>14, <1>15, <1>17, <2>1, <2>2, <2>4, <2>5 DEF PlainList
  <1>21. PlainSort'
    <2>1. sorted' = <<>> /\ next' = 1 /\ failed' = FALSE /\ stack' = <<>>
      BY <1>0 DEF Compile, RegistryInv
    <2>2. 1..Len(sorted') = {} /\ Len(stack') =< 1
      BY <2>1
    <2>3. PICK W : W = Wishes'
      OBVIOUS
    <2>4. Obeys(sorted', W)
      BY <2>2 DEF Obeys
    <2> QED BY <2>1, <2>2, <2>3, <2>4 DEF PlainSort
  <1>22. OrderAsAsked'
    BY DEF OrderAsAsked, Compile, Idle
  <1> QED BY <1>20, <1>21, <1>22 DEF PlainInv

LEMMA RegistersPlain ==
    ASSUME PlainWishes, OrderInv, PlainInv, NEW c \in Calls, Register(c)
    PROVE  PlainInv'
  <1>0. RegistryInv /\ ListInv /\ PlainList
    BY DEF OrderInv, PlainInv
  <1>1. PICK new : new = Callback(c.how, c.name, c.before, c.after, calls + 1)
    OBVIOUS
  <1>2. Idle /\ Compile(new) /\ Ask(c.name, new) /\ c.how = "register" /\ c.name \notin DOMAIN asked
    BY <1>1 DEF Register, PlainWishes
  <1>3. c.name \in CallbackNames /\ {c.before, c.after} \subseteq CallbackNames \cup {NoName, Star}
    BY DEF CallbackNames
  <1>4. /\ new \in Handlers /\ new.name = c.name /\ new.how = "register"
        /\ new.before = c.before /\ new.after = c.after
    BY SMTT(60), <1>0, <1>1, <1>2, <1>3 DEF Callback, Handlers, Wish, RegistryInv
  <1>5. PICK D : D = DOMAIN asked \cup {c.name}
    OBVIOUS
  <1>6. asked' = [m \in D |-> IF m = c.name THEN new ELSE asked[m]]
    BY <1>2, <1>5 DEF Ask
  <1>7. DOMAIN asked' = D /\ asked'[c.name] = new /\ \A n \in DOMAIN asked \ {c.name} : asked'[n] = asked[n]
    BY <1>5, <1>6
  <1>8. c.name \notin Registered /\ Registered' = Registered \cup {c.name}
    BY <1>2, <1>4, <1>5, <1>7 DEF Registered
  <1>9. PICK a : a = asked'[c.name]
    OBVIOUS
  <1>10. AsksFor(new, a)
    <2>1. {c.before, c.after} \subseteq Own \cup {NoName, Star} /\ {c.before, c.after} # {Star}
      BY DEF PlainWishes
    <2>2. c.name \notin Own
      BY <1>0, <1>2 DEF PlainList
    <2>3. a = new /\ new.name \notin Registered /\ new.name \notin Own
      BY <1>4, <1>7, <1>8, <1>9, <2>2
    <2>4. {new.before, new.after} \subseteq Own \cup {NoName, Star} /\ {new.before, new.after} # {Star}
      BY <1>4, <2>1
    <2> QED BY <2>3, <2>4 DEF AsksFor
  <1>11. \A i \in 1..Len(callbacks) : callbacks[i].name # c.name
    BY <1>0, <1>8 DEF ListInv
  <1>12. \A n \in Registered \ {new.name} : asked'[n] = asked[n]
    BY <1>4, <1>7 DEF Registered
  <1>13. AsksFor(new, asked'[new.name])
    BY <1>4, <1>9, <1>10
  <1> QED BY <1>2, <1>4, <1>5, <1>7, <1>8, <1>11, <1>12, <1>13, CompilesPlain

LEMMA ReplacesPlain ==
    ASSUME PlainWishes, OrderInv, PlainInv, NEW c \in Calls, Replace(c)
    PROVE  PlainInv'
  <1>0. RegistryInv /\ ListInv /\ StarInv /\ PlainList
    BY DEF OrderInv, PlainInv
  <1>1. PICK new : new = Callback(c.how, c.name, NoName, NoName, calls + 1)
    OBVIOUS
  <1>2. PICK wish : wish = IF c.name \in Registered THEN [asked[c.name] EXCEPT !.id = new.id] ELSE new
    OBVIOUS
  <1>3. Idle /\ Compile(new) /\ Ask(c.name, wish) /\ c.how = "replace"
    BY <1>1, <1>2 DEF Replace
  <1>4. c.name \in CallbackNames
    BY DEF CallbackNames
  <1>5. /\ new \in Handlers /\ new.name = c.name /\ new.how = "replace"
        /\ new.before = NoName /\ new.after = NoName /\ Wishless(new) /\ ~Starred(new)
    BY SMTT(60), <1>0, <1>1, <1>3, <1>4, NamesAre DEF Callback, Handlers, Wish, Starred, RegistryInv, Wishless
  <1>6. PICK D : D = DOMAIN asked \cup {c.name}
    OBVIOUS
  <1>7. asked' = [m \in D |-> IF m = c.name THEN wish ELSE asked[m]]
    BY <1>3, <1>6 DEF Ask
  <1>8. DOMAIN asked' = D /\ asked'[c.name] = wish /\ \A n \in DOMAIN asked \ {c.name} : asked'[n] = asked[n]
    BY <1>6, <1>7
  <1>9. c.name \in Registered =>
           /\ wish.name = asked[c.name].name /\ wish.how = asked[c.name].how
           /\ wish.before = asked[c.name].before /\ wish.after = asked[c.name].after
    <2> SUFFICES ASSUME c.name \in Registered
                 PROVE  /\ wish.name = asked[c.name].name /\ wish.how = asked[c.name].how
                        /\ wish.before = asked[c.name].before /\ wish.after = asked[c.name].after
      OBVIOUS
    <2>1. PICK a : a = asked[c.name]
      OBVIOUS
    <2>2. a \in Handlers
      BY <1>0, <2>1 DEF RegistryInv, Registered
    <2>3. wish = [a EXCEPT !.id = new.id]
      BY <1>2, <2>1
    <2> QED BY <2>1, <2>2, <2>3 DEF Handlers
  <1>10. wish.how # "remove"
    BY <1>2, <1>5, <1>9 DEF Registered
  <1>11. Registered' = Registered \cup {c.name}
    BY <1>6, <1>8, <1>10 DEF Registered
  <1>12. AsksFor(new, wish)
    <2>1. CASE c.name \in Registered
      BY <1>5, <1>9, <2>1 DEF AsksFor
    <2>2. CASE c.name \notin Registered
      <3>1. c.name \notin Own
        <4>1. SUFFICES ASSUME c.name \in Own PROVE FALSE
          OBVIOUS
        <4>2. PICK d \in Calls : d.how = "remove" /\ d.name = c.name
          BY <1>0, <2>2, <4>1 DEF PlainList
        <4> QED BY <1>3, <4>1, <4>2 DEF PlainWishes
      <3>2. {new.before, new.after} \subseteq Own \cup {NoName, Star} /\ {new.before, new.after} # {Star}
        BY <1>5, NamesAre
      <3> QED BY <1>2, <1>5, <2>2, <3>1, <3>2 DEF AsksFor
    <2> QED BY <2>1, <2>2
  <1>13. ASSUME NEW i \in 1..Len(callbacks), callbacks[i].name = c.name, Starred(callbacks[i])
         PROVE  FALSE
    <2>1. PICK d \in Calls : Starred(d) /\ d.name = c.name
      BY <1>0, <1>13 DEF StarInv
    <2> QED BY <1>3, <2>1 DEF PlainWishes, Starred
  <1>14. \A n \in Registered \ {new.name} : asked'[n] = asked[n]
    BY <1>5, <1>8 DEF Registered
  <1>15. AsksFor(new, asked'[new.name])
    BY <1>5, <1>8, <1>12
  <1> QED BY <1>3, <1>5, <1>6, <1>8, <1>11, <1>13, <1>14, <1>15, CompilesPlain

LEMMA UnregistersPlain ==
    ASSUME OrderInv, PlainInv, NEW c \in Calls, Unregister(c)
    PROVE  PlainInv'
  <1>0. RegistryInv
    BY DEF OrderInv
  <1>1. PICK new : new = Callback(c.how, c.name, NoName, NoName, calls + 1)
    OBVIOUS
  <1>2. Idle /\ Compile(new) /\ Ask(c.name, new) /\ c.how = "remove"
    BY <1>1 DEF Unregister
  <1>3. c.name \in CallbackNames
    BY DEF CallbackNames
  <1>4. new \in Handlers /\ new.name = c.name /\ new.how = "remove" /\ Wishless(new)
    BY SMTT(60), <1>0, <1>1, <1>2, <1>3, NamesAre DEF Callback, Handlers, Wish, Wishless, RegistryInv
  <1>5. PICK D : D = DOMAIN asked \cup {c.name}
    OBVIOUS
  <1>6. asked' = [m \in D |-> IF m = c.name THEN new ELSE asked[m]]
    BY <1>2, <1>5 DEF Ask
  <1>7. DOMAIN asked' = D /\ asked'[c.name] = new /\ \A n \in DOMAIN asked \ {c.name} : asked'[n] = asked[n]
    BY <1>5, <1>6
  <1>8. Registered' = Registered \ {c.name}
    BY <1>4, <1>5, <1>7 DEF Registered
  <1>9. \A n \in Registered \ {new.name} : asked'[n] = asked[n]
    BY <1>4, <1>7 DEF Registered
  <1> QED BY <1>2, <1>4, <1>5, <1>7, <1>8, <1>9, CompilesPlain

LEMMA OrderInit == CInit => PlainInv
  <1> SUFFICES ASSUME CInit PROVE PlainInv
    OBVIOUS
  <1>1. PICK N : N = Len(Defaults)
    OBVIOUS
  <1>2. N \in Nat /\ DOMAIN Defaults = 1..N /\ \A i, j \in 1..N : Defaults[i] = Defaults[j] => i = j
    BY <1>1 DEF IsInjective
  <1>3. \A n : n \in Own <=> \E i \in 1..N : n = Defaults[i]
    BY <1>2 DEF ToSet, Own
  <1>4. callbacks = [i \in 1..N |-> Default(Defaults[i])] /\ fns = [i \in 1..N |-> [name |-> Defaults[i], id |-> 0]]
    BY <1>2 DEF CInit
  <1>5. asked = [n \in Own |-> Default(n)]
    BY DEF CInit, Own
  <1>6. \A n : /\ Default(n).name = n /\ Default(n).how = "default" /\ Wishless(Default(n))
               /\ Default(n).before = NoName /\ Default(n).after = NoName
    BY DEF Default, Callback, Wishless
  <1>7. Registered = Own
    BY <1>5, <1>6 DEF Registered
  <1>8. /\ Len(callbacks) = N /\ Len(fns) = N
        /\ \A i \in 1..N : callbacks[i] = Default(Defaults[i]) /\ fns[i].name = Defaults[i] /\ Defaults[i] \in Own
    BY <1>2, <1>3, <1>4
  <1>9. PlainList
    <2>1. Ranked(callbacks)
      <3> SUFFICES ASSUME NEW i \in 1..N, NEW j \in 1..N, i < j
                   PROVE  Follows(callbacks[i], callbacks[j]) /\ ~Starred(callbacks[i])
        BY <1>8 DEF Ranked
      <3>1. InOrder(Defaults[i], Defaults[j])
        BY <1>2 DEF InOrder
      <3> QED BY <1>6, <1>8, <3>1, NamesAre DEF Follows, Starred
    <2>2. \A i \in 1..N : EntryIs(callbacks[i], asked)
      BY <1>6, <1>8 DEF EntryIs
    <2>3. ASSUME NEW n \in Own PROVE AskedIs(n, asked[n], callbacks)
      <3>1. PICK i \in 1..N : n = Defaults[i]
        BY <1>3
      <3>2. callbacks[i] = Default(n) /\ asked[n] = Default(n)
        BY <1>5, <1>8, <3>1
      <3>3. {NoName, NoName} # {Star}
        BY NamesAre
      <3>4. PICK o : o = asked[n]
        OBVIOUS
      <3>5. o.name = n /\ o.how = "default" /\ Wishless(o) /\ o.before = NoName /\ o.after = NoName
        BY <1>6, <3>2, <3>4
      <3>6. i \in 1..Len(callbacks) /\ callbacks[i] = o
        BY <1>8, <3>2, <3>4
      <3>7. AskedIs(n, o, callbacks)
        BY <3>3, <3>5, <3>6 DEF AskedIs
      <3> QED BY <3>4, <3>7
    <2> QED BY <1>5, <1>7, <1>8, <2>1, <2>2, <2>3 DEF PlainList
  <1>10. PlainSort
    BY DEF PlainSort, CInit, Idle
  <1>11. OrderAsAsked
    <2>1. ~failed
      BY DEF CInit
    <2>2. ASSUME NEW m \in Own, NEW n \in Own, IsBefore(asked[m], asked[n]) PROVE Position(m) < Position(n)
      <3>1. PICK i \in 1..N : m = Defaults[i]
        BY <1>3
      <3>2. PICK j \in 1..N : n = Defaults[j]
        BY <1>3
      <3>3. Position(m) = i /\ Position(n) = j
        BY <1>2, <1>8, <3>1, <3>2 DEF Position
      <3>4. asked[m] = Default(m) /\ asked[n] = Default(n)
        BY <1>5
      <3>5. \E k, l \in 1..N : k < l /\ Defaults[k] = m /\ Defaults[l] = n
        <4>1. m # NoName /\ n # NoName
          BY NamesAre DEF CallbackNames, Own
        <4> QED BY <1>2, <1>6, <2>2, <3>4, <4>1, NamesAre DEF IsBefore
      <3> QED BY <1>2, <3>1, <3>2, <3>3, <3>5
    <2>3. ASSUME NEW w \in Wishes PROVE Position(w[1]) < Position(w[2])
      BY <1>7, <2>2, <2>3 DEF Wishes
    <2> QED BY <2>1, <2>3 DEF OrderAsAsked
  <1> QED BY <1>9, <1>10, <1>11 DEF PlainInv

------------------------------------------------------------------------------
\* The pairs are an order if there is one that has them all.
LEMMA NoCircle ==
    ASSUME Possible, NEW m \in Registered, NEW n \in Registered, NEW o \in Registered,
           <<m, n>> \in Wishes, <<n, o>> \in Wishes
    PROVE  <<o, m>> \notin Wishes /\ <<n, m>> \notin Wishes
  <1>1. ASSUME NEW S \in SUBSET Registered, S # {} PROVE \E y \in S : \A x \in S : <<x, y>> \notin Wishes
    BY <1>1 DEF Possible
  <1>2. {m, n} \in SUBSET Registered /\ {m, n, o} \in SUBSET Registered
    OBVIOUS
  <1>3. <<n, m>> \notin Wishes
    <2>1. PICK y \in {m, n} : \A x \in {m, n} : <<x, y>> \notin Wishes
      BY <1>1, <1>2
    <2> QED BY <2>1
  <1>4. <<o, m>> \notin Wishes
    <2>1. PICK y \in {m, n, o} : \A x \in {m, n, o} : <<x, y>> \notin Wishes
      BY <1>1, <1>2
    <2> QED BY <2>1
  <1> QED BY <1>3, <1>4

LEMMA NotItself == ASSUME Possible, NEW m \in Registered PROVE <<m, m>> \notin Wishes
  <1>1. {m} \in SUBSET Registered /\ {m} # {}
    OBVIOUS
  <1>2. PICK y \in {m} : \A x \in {m} : <<x, y>> \notin Wishes
    BY <1>1 DEF Possible
  <1> QED BY <1>2

LEMMA WishIs ==
    ASSUME NEW m, NEW n
    PROVE  <<m, n>> \in Wishes <=> m \in Registered /\ n \in Registered /\ IsBefore(asked[m], asked[n])
  BY DEF Wishes

\* The callback the sort is at, and those the loop has come to before.
LEMMA AtPlain ==
    ASSUME OrderInv, PlainInv, stack # <<>>
    PROVE  /\ Len(stack) = 1 /\ Top = stack[1] /\ Top.of = next - 1 /\ next - 1 \in 1..Len(callbacks)
           /\ Cur = callbacks[next - 1] /\ Cur.name \in Registered /\ Cur \in Handlers
           /\ \A j \in 1..Len(callbacks) : j < next - 1 => IsPlaced(callbacks[j].name)
           /\ \A n : IsPlaced(n) /\ n # Cur.name =>
                 \E j \in 1..Len(callbacks) : j < next - 1 /\ callbacks[j].name = n
  <1>0. RegistryInv /\ SortInv /\ PlainSort
    BY DEF OrderInv, PlainInv
  <1>1. /\ Len(stack) \in Nat \ {0} /\ Len(callbacks) \in Nat /\ Top.of \in 1..Len(callbacks) /\ ~Idle
        /\ Cur \in Handlers /\ Cur.name \in Registered
    BY TopIs
  <1>2. Len(stack) = 1 /\ Top = stack[1] /\ Top.of = next - 1
    <2>1. Len(stack) =< 1 /\ stack[1].of = next - 1
      BY <1>0, <1>1 DEF PlainSort
    <2>2. Len(stack) = 1
      <3>1. PICK l : l = Len(stack)
        OBVIOUS
      <3>2. l \in Nat /\ l # 0 /\ l =< 1
        BY <1>1, <2>1, <3>1
      <3>3. l = 1
        BY ONLY <3>2
      <3> QED BY <3>1, <3>3
    <2> QED BY <2>1, <2>2 DEF Top
  <1>3. Cur = callbacks[next - 1]
    BY <1>2 DEF Cur
  <1>4. ASSUME NEW j \in 1..Len(callbacks), j < next - 1 PROVE IsPlaced(callbacks[j].name)
    <2>1. j \in 1..(next - 1) /\ next - 1 \in 1..Len(callbacks)
      BY <1>1, <1>2, <1>4
    <2>2. ~UnderWay(j)
      BY <1>2, <1>4 DEF UnderWay
    <2>3. Placed(j)
      BY <1>0, <1>1, <2>1, <2>2 DEF SortInv
    <2> QED BY <1>0, <2>3, PlaceIs DEF Placed
  <1>5. ASSUME NEW n, IsPlaced(n), n # Cur.name
        PROVE  \E j \in 1..Len(callbacks) : j < next - 1 /\ callbacks[j].name = n
    <2>1. PICK k \in 1..Len(sorted) : sorted[k] = n
      BY <1>0, <1>5, PlaceIs
    <2>2. PICK j \in 1..(next - 1) : callbacks[j].name = n
      BY <1>0, <1>1, <2>1 DEF PlainSort
    <2>3. j # next - 1
      BY <1>3, <1>5, <2>2
    <2>4. j \in 1..Len(callbacks) /\ j < next - 1
      BY <1>1, <1>2, <2>3
    <2> QED BY <2>2, <2>4
  <1> QED BY <1>1, <1>2, <1>3, <1>4, <1>5

\* One that has no place yet is the first of its name, and has its wishes.
LEMMA FirstOfName ==
    ASSUME OrderInv, PlainInv, stack # <<>>, ~IsPlaced(Cur.name)
    PROVE  /\ Cur.before = asked[Cur.name].before /\ Cur.after = asked[Cur.name].after
           /\ Cur.name \in Own => Cur.how = "default"
  <1>0. PlainList
    BY DEF PlainInv
  <1>1. PICK i : i = next - 1
    OBVIOUS
  <1>2. i \in 1..Len(callbacks) /\ Cur = callbacks[i] /\ Cur.name \in Registered
        /\ \A j \in 1..Len(callbacks) : j < i => IsPlaced(callbacks[j].name)
    BY <1>1, AtPlain
  <1>3. PICK a : a = asked[Cur.name]
    OBVIOUS
  <1>4. AskedIs(Cur.name, a, callbacks) /\ EntryIs(Cur, asked) /\ Ranked(callbacks)
    BY <1>0, <1>2, <1>3 DEF PlainList
  <1>5. \A j \in 1..Len(callbacks) : callbacks[j].name = Cur.name => j = i \/ j > i
    BY <1>2
  <1>6. \A j \in 1..Len(callbacks) : j > i => Follows(Cur, callbacks[j])
    BY <1>2, <1>4 DEF Ranked
  <1>7. Cur.before = a.before /\ Cur.after = a.after
    <2>1. PICK j \in 1..Len(callbacks) :
             callbacks[j].name = Cur.name /\ callbacks[j].before = a.before /\ callbacks[j].after = a.after
      BY <1>4 DEF AskedIs
    <2>2. CASE j = i
      BY <1>2, <2>1, <2>2
    <2>3. CASE j > i
      <3>1. Wishless(callbacks[j])
        BY <1>6, <2>1, <2>3 DEF Follows
      <3> QED BY <1>3, <1>4, <2>1, <3>1 DEF EntryIs, Wishless
    <2> QED BY <1>5, <2>1, <2>2, <2>3
  <1>8. ASSUME Cur.name \in Own PROVE Cur.how = "default"
    <2>1. PICK j \in 1..Len(callbacks) : callbacks[j].name = Cur.name /\ callbacks[j].how = "default"
      BY <1>4, <1>8 DEF AskedIs
    <2> QED BY <1>2, <1>5, <1>6, <2>1 DEF Follows
  <1> QED BY <1>3, <1>7, <1>8

\* One that has a wish is not GORM's own, and comes behind these.
LEMMA BehindOwn ==
    ASSUME OrderInv, PlainInv, stack # <<>>, ~Wishless(Cur)
    PROVE  /\ Cur.name \notin Own /\ Cur.how # "default"
           /\ Cur.before = asked[Cur.name].before /\ Cur.after = asked[Cur.name].after
           /\ {Cur.before, Cur.after} \subseteq Own \cup {NoName, Star} /\ {Cur.before, Cur.after} # {Star}
           /\ \A d \in Own : d \in Registered => IsPlaced(d) /\ Wishless(asked[d])
  <1>0. PlainList
    BY DEF PlainInv
  <1>1. PICK i : i = next - 1
    OBVIOUS
  <1>2. i \in 1..Len(callbacks) /\ Cur = callbacks[i] /\ Cur.name \in Registered
        /\ \A j \in 1..Len(callbacks) : j < i => IsPlaced(callbacks[j].name)
    BY <1>1, AtPlain
  <1>3. PICK a : a = asked[Cur.name]
    OBVIOUS
  <1>4. AskedIs(Cur.name, a, callbacks) /\ EntryIs(Cur, asked) /\ Ranked(callbacks)
    BY <1>0, <1>2, <1>3 DEF PlainList
  <1>5. Cur.before = a.before /\ Cur.after = a.after /\ Cur.how # "default"
    BY <1>3, <1>4 DEF EntryIs
  <1>6. Cur.name \notin Own /\ {a.before, a.after} \subseteq Own \cup {NoName, Star} /\ {a.before, a.after} # {Star}
    BY <1>4, <1>5 DEF AskedIs, Wishless
  <1>7. ASSUME NEW d \in Own, d \in Registered PROVE IsPlaced(d) /\ Wishless(asked[d])
    <2>1. PICK b : b = asked[d]
      OBVIOUS
    <2>2. AskedIs(d, b, callbacks)
      BY <1>0, <1>7, <2>1 DEF PlainList
    <2>3. PICK j \in 1..Len(callbacks) : callbacks[j].name = d /\ callbacks[j].how = "default"
      BY <2>2 DEF AskedIs
    <2>4. j # i /\ ~(i < j)
      BY <1>2, <1>4, <1>5, <2>3 DEF Ranked, Follows
    <2>5. j < i
      BY <1>2, <2>4
    <2> QED BY <1>2, <2>1, <2>2, <2>3, <2>5 DEF AskedIs
  <1> QED BY <1>3, <1>5, <1>6, <1>7

\* Behind one with a star come only such.
LEMMA BehindStar ==
    ASSUME OrderInv, PlainInv, stack # <<>>, NEW n \in Registered, IsPlaced(n), n # Cur.name,
           Starred(asked[n])
    PROVE  Starred(Cur)
  <1>0. PlainList /\ StarInv
    BY DEF PlainInv, OrderInv
  <1>1. PICK i : i = next - 1
    OBVIOUS
  <1>2. i \in 1..Len(callbacks) /\ Cur = callbacks[i]
    BY <1>1, AtPlain
  <1>3. PICK j \in 1..Len(callbacks) : j < i /\ callbacks[j].name = n
    BY <1>1, AtPlain
  <1>4. PICK a : a = asked[n]
    OBVIOUS
  <1>5. AskedIs(n, a, callbacks) /\ Ranked(callbacks)
    BY <1>0, <1>4 DEF PlainList
  <1>6. PICK l \in 1..Len(callbacks) :
           callbacks[l].name = n /\ callbacks[l].before = a.before /\ callbacks[l].after = a.after
    BY <1>5 DEF AskedIs
  <1>7. Starred(callbacks[l])
    BY <1>4, <1>6 DEF Starred
  <1>8. l = j
    BY <1>0, <1>3, <1>6, <1>7 DEF StarInv, Alone
  <1> QED BY <1>2, <1>3, <1>5, <1>7, <1>8 DEF Ranked

\* The name n comes behind what it has a wish about, at the place p of s, and in
\* front of what has one about it.
Fits(n, s, p, W) ==
    /\ <<n, n>> \notin W
    /\ \A w \in 1..Len(s) : IF w < p THEN <<n, s[w]>> \notin W ELSE <<s[w], n>> \notin W

LEMMA StillObeys ==
    ASSUME NEW W, NEW s, Len(s) \in Nat, NEW p \in 1..(Len(s) + 1), NEW n,
           NEW r, PutAt(r, s, p, n), Obeys(s, W), Fits(n, s, p, W)
    PROVE  Obeys(r, W)
  <1> SUFFICES ASSUME NEW k \in 1..Len(r), NEW l \in 1..Len(r), <<r[k], r[l]>> \in W PROVE k < l
    BY DEF Obeys
  <1>0. /\ Len(r) = Len(s) + 1 /\ r[p] = n
        /\ \A w \in 1..Len(s) : r[Moved(w, p)] = s[w]
        /\ \A u \in 1..Len(r) : u = p \/ \E w \in 1..Len(s) : u = Moved(w, p)
    BY DEF PutAt
  <1>1. CASE k = p /\ l = p
    BY <1>0, <1>1 DEF Fits
  <1>2. CASE k = p /\ l # p
    <2>1. PICK w \in 1..Len(s) : l = Moved(w, p)
      BY <1>0, <1>2
    <2>2. <<n, s[w]>> \in W
      BY <1>0, <1>2, <2>1
    <2>3. ~(w < p)
      BY <2>2 DEF Fits
    <2> QED BY <1>2, <2>1, <2>3 DEF Moved
  <1>3. CASE k # p /\ l = p
    <2>1. PICK w \in 1..Len(s) : k = Moved(w, p)
      BY <1>0, <1>3
    <2>2. <<s[w], n>> \in W
      BY <1>0, <1>3, <2>1
    <2>3. w < p
      BY <2>2 DEF Fits
    <2> QED BY <1>3, <2>1, <2>3 DEF Moved
  <1>4. CASE k # p /\ l # p
    <2>1. PICK w \in 1..Len(s) : k = Moved(w, p)
      BY <1>0, <1>4
    <2>2. PICK x \in 1..Len(s) : l = Moved(x, p)
      BY <1>0, <1>4
    <2>3. <<s[w], s[x]>> \in W
      BY <1>0, <2>1, <2>2
    <2>4. w < x
      BY <2>3 DEF Obeys
    <2> QED BY <2>1, <2>2, <2>4 DEF Moved
  <1> QED BY <1>1, <1>2, <1>3, <1>4

\* What has been asked for under a registered name.
LEMMA AskedFor ==
    ASSUME OrderInv, PlainInv, NEW n \in Registered, NEW a, a = asked[n]
    PROVE  /\ a.name = n /\ (a.how = "default" <=> n \in Own) /\ (n \in Own => Wishless(a))
           /\ {a.before, a.after} \subseteq Own \cup {NoName, Star} /\ {a.before, a.after} # {Star}
           /\ n # NoName /\ n # Star
  <1>1. n \in CallbackNames
    BY DEF OrderInv, RegistryInv, Registered
  <1>2. AskedIs(n, a, callbacks)
    BY DEF PlainInv, PlainList
  <1> QED BY <1>1, <1>2, NamesAre DEF AskedIs

\* GORM's own callbacks have one order.
LEMMA OneOrder ==
    ASSUME NEW m, NEW n
    PROVE  /\ ~(InOrder(m, n) /\ InOrder(n, m))
           /\ m \in Own /\ n \in Own /\ m # n => InOrder(m, n) \/ InOrder(n, m)
  <1>1. PICK N : N = Len(Defaults)
    OBVIOUS
  <1>2. N \in Nat /\ DOMAIN Defaults = 1..N /\ \A i, j \in 1..N : Defaults[i] = Defaults[j] => i = j
    BY <1>1 DEF IsInjective
  <1>3. ASSUME InOrder(m, n), InOrder(n, m) PROVE FALSE
    <2>1. PICK i, j \in 1..N : i < j /\ Defaults[i] = m /\ Defaults[j] = n
      BY <1>2, <1>3 DEF InOrder
    <2>2. PICK k, l \in 1..N : k < l /\ Defaults[k] = n /\ Defaults[l] = m
      BY <1>2, <1>3 DEF InOrder
    <2>3. i = l /\ j = k
      BY <1>2, <2>1, <2>2
    <2> QED BY <1>2, <2>1, <2>2, <2>3
  <1>4. ASSUME m \in Own, n \in Own, m # n PROVE InOrder(m, n) \/ InOrder(n, m)
    <2>1. PICK i \in 1..N : Defaults[i] = m
      BY <1>2, <1>4 DEF Own, ToSet
    <2>2. PICK j \in 1..N : Defaults[j] = n
      BY <1>2, <1>4 DEF Own, ToSet
    <2>3. i < j \/ j < i
      BY <1>2, <1>4, <2>1, <2>2
    <2> QED BY <1>2, <2>1, <2>2, <2>3 DEF InOrder
  <1> QED BY <1>3, <1>4

\* Behind all: a callback whose Before does not count has no wish to come before
\* one that is placed.
LEMMA FitsBehind ==
    ASSUME OrderInv, PlainInv, Possible, stack # <<>>, ~IsPlaced(Cur.name), AllBehind(Cur, sorted),
           NEW n \in Registered, IsPlaced(n)
    PROVE  <<Cur.name, n>> \notin Wishes
  <1>1. PICK c : c = Cur
    OBVIOUS
  <1>2. PICK a : a = asked[c.name]
    OBVIOUS
  <1>3. PICK b : b = asked[n]
    OBVIOUS
  <1>4. /\ c.name \in Registered /\ c.before = a.before /\ c.after = a.after
        /\ c.name \in Own => c.how = "default"
    BY <1>1, <1>2, AtPlain, FirstOfName
  <1>5. /\ a.name = c.name /\ (a.how = "default" <=> c.name \in Own)
        /\ c.name # NoName /\ c.name # Star
    BY <1>2, <1>4, AskedFor
  <1>6. /\ b.name = n /\ (b.how = "default" <=> n \in Own) /\ (n \in Own => Wishless(b))
        /\ {b.before, b.after} \subseteq Own \cup {NoName, Star}
    BY <1>3, AskedFor
  <1>7. n # c.name /\ sorted # <<>>
    <2>1. \E k \in 1..Len(sorted) : sorted[k] = n
      BY PlaceIs DEF OrderInv
    <2>2. 1..Len(<<>>) = {}
      OBVIOUS
    <2> QED BY <1>1, <2>1, <2>2
  <1>8. c.before \notin Registered /\ c.before # Star
    <2>1. \A k \in 1..Len(sorted) : sorted[k] # Cur.name
      BY PlaceIs DEF OrderInv
    <2> QED BY <1>1, <1>7, <2>1 DEF AllBehind
  <1>9. c.name \in Own => n \in Own /\ InOrder(n, c.name)
    <2> SUFFICES ASSUME c.name \in Own PROVE n \in Own /\ InOrder(n, c.name)
      OBVIOUS
    <2>1. PICK i : i = next - 1
      OBVIOUS
    <2>2. PICK j \in 1..Len(callbacks) : j < i /\ callbacks[j].name = n
      BY <1>1, <1>7, <2>1, AtPlain
    <2>3. i \in 1..Len(callbacks) /\ c = callbacks[i]
      BY <1>1, <2>1, AtPlain
    <2>4. Follows(callbacks[j], c) /\ EntryIs(callbacks[j], asked)
      BY <2>2, <2>3 DEF PlainInv, PlainList, Ranked
    <2> QED BY <1>4, <2>2, <2>4 DEF Follows, EntryIs
  <1>10. SUFFICES ASSUME IsBefore(a, b) PROVE FALSE
    BY <1>1, <1>2, <1>3, WishIs
  <1>11. a.before # b.name
    BY <1>4, <1>6, <1>8
  <1>12. b.after # a.name
    <2> SUFFICES ASSUME b.after = c.name PROVE FALSE
      BY <1>5
    <2>1. c.name \in Own
      BY <1>5, <1>6
    <2>2. Wishless(b)
      BY <1>6, <1>9, <2>1
    <2> QED BY <1>5, <2>2 DEF Wishless
  <1>13. a.before # Star
    BY <1>4, <1>8
  <1>14. ~(b.after = Star /\ a.after # Star)
    <2> SUFFICES ASSUME b.after = Star, a.after # Star PROVE FALSE
      OBVIOUS
    <2>1. Starred(c)
      BY <1>1, <1>3, <1>7, BehindStar DEF Starred
    <2> QED BY <1>4, <1>8, <2>1 DEF Starred
  <1>15. ~(a.how = "default" /\ InOrder(c.name, n))
    <2> SUFFICES ASSUME c.name \in Own, InOrder(c.name, n) PROVE FALSE
      BY <1>5
    <2>1. InOrder(n, c.name)
      BY <1>9
    <2> QED BY <2>1, OneOrder
  <1>16. a.how = "default" /\ InOrder(a.name, b.name)
    BY <1>10, <1>11, <1>12, <1>13, <1>14 DEF IsBefore, InOrder
  <1> QED BY <1>5, <1>6, <1>15, <1>16

\* In front of one of GORM's own: what is before that one has no wish to come
\* behind the new one, and the others none to come before it.
LEMMA FitsBefore ==
    ASSUME OrderInv, PlainInv, Possible, stack # <<>>, ~Wishless(Cur), ~IsPlaced(Cur.name),
           Cur.before \in Registered, NEW p, p = Place(Cur.before)
    PROVE  Fits(Cur.name, sorted, p, Wishes)
  <1>0. SortInv /\ RegistryInv /\ PlainSort
    BY DEF OrderInv, PlainInv
  <1>1. PICK c : c = Cur
    OBVIOUS
  <1>2. PICK d : d = c.before
    OBVIOUS
  <1>3. PICK a : a = asked[c.name]
    OBVIOUS
  <1>4. PICK o : o = asked[d]
    OBVIOUS
  <1>5. /\ c.name \in Registered /\ c.name \notin Own /\ a.before = d /\ c.before = a.before /\ c.after = a.after
        /\ {a.before, a.after} \subseteq Own \cup {NoName, Star} /\ {a.before, a.after} # {Star}
    BY SMTT(60), <1>1, <1>2, <1>3, AtPlain, BehindOwn
  <1>6. a.name = c.name /\ a.how # "default" /\ c.name # NoName /\ c.name # Star
    BY <1>3, <1>5, AskedFor
  <1>7. d \in Registered /\ d \in Own /\ d # Star /\ d # NoName
    <2>1. d \in Registered
      BY <1>1, <1>2
    <2>2. d # NoName /\ d # Star
      BY <1>4, <2>1, AskedFor
    <2> QED BY <1>5, <2>1, <2>2
  <1>8. o.name = d /\ o.how = "default" /\ Wishless(o)
    BY <1>4, <1>7, AskedFor
  <1>9. IsPlaced(d) /\ p \in 1..Len(sorted) /\ sorted[p] = d
    <2>1. IsPlaced(d)
      BY <1>1, <1>7, BehindOwn
    <2>2. p # 0 /\ p \in 0..Len(sorted) /\ sorted[p] = d /\ Len(sorted) \in Nat
      BY SMTT(60), <1>0, <1>1, <1>2, <2>1, PlaceIs DEF IsPlaced, RegistryInv
    <2> QED BY <2>1, <2>2
  <1>10. <<c.name, d>> \in Wishes
    BY <1>3, <1>4, <1>5, <1>7, <1>8, WishIs DEF IsBefore
  <1>11. ~Idle /\ OnceEach(sorted) /\ \A w \in 1..Len(sorted) : sorted[w] \in Registered
    BY <1>0, TopIs DEF SortInv
  <1>12. Obeys(sorted, Wishes)
    BY <1>0, <1>11 DEF PlainSort
  <1>13. ASSUME NEW w \in 1..Len(sorted), w < p PROVE <<c.name, sorted[w]>> \notin Wishes
    <2>1. PICK n : n = sorted[w]
      OBVIOUS
    <2>2. n \in Registered /\ n # d
      BY <1>9, <1>11, <1>13, <2>1 DEF OnceEach
    <2>3. PICK b : b = asked[n]
      OBVIOUS
    <2>4. b.name = n /\ {b.before, b.after} \subseteq Own \cup {NoName, Star}
      BY <2>2, <2>3, AskedFor
    <2>5. IsPlaced(n) /\ n # c.name
      BY <1>0, <1>1, <2>1, PlaceIs
    <2>6. SUFFICES ASSUME IsBefore(a, b) PROVE FALSE
      BY <1>3, <2>1, <2>3, WishIs
    <2>7. a.before # b.name /\ a.before # Star /\ b.after # a.name
      BY <1>5, <1>6, <1>7, <2>2, <2>4
    <2>8. ~(b.after = Star /\ a.after # Star)
      <3> SUFFICES ASSUME b.after = Star, a.after # Star PROVE FALSE
        OBVIOUS
      <3>1. Starred(c)
        BY <1>1, <2>2, <2>3, <2>5, BehindStar DEF Starred
      <3> QED BY <1>5, <1>7, <3>1 DEF Starred
    <2> QED BY <1>6, <2>6, <2>7, <2>8 DEF IsBefore
  <1>14. ASSUME NEW w \in 1..Len(sorted), ~(w < p) PROVE <<sorted[w], c.name>> \notin Wishes
    <2>1. PICK n : n = sorted[w]
      OBVIOUS
    <2>2. n \in Registered
      BY <1>11, <2>1
    <2>3. PICK b : b = asked[n]
      OBVIOUS
    <2>4. b.name = n /\ {b.before, b.after} \subseteq Own \cup {NoName, Star} /\ (b.how = "default" <=> n \in Own)
      BY <2>2, <2>3, AskedFor
    <2>5. SUFFICES ASSUME <<n, c.name>> \in Wishes PROVE FALSE
      BY <2>1
    <2>6. <<n, d>> \notin Wishes
      <3> SUFFICES ASSUME <<n, d>> \in Wishes PROVE FALSE
        OBVIOUS
      <3> QED BY <1>9, <1>12, <1>14, <2>1 DEF Obeys
    <2>7. <<d, n>> \notin Wishes /\ <<d, c.name>> \notin Wishes
      BY <1>5, <1>7, <1>10, <2>2, <2>5, NoCircle
    <2>8. IsBefore(b, a)
      BY <1>3, <2>3, <2>5, WishIs
    <2>9. b.before # a.name
      BY <1>5, <1>6, <2>4
    <2>10. a.after # b.name
      <3> SUFFICES ASSUME a.after = n PROVE FALSE
        BY <2>4
      <3>1. n \in Own
        BY <1>5, <2>2, <2>3, AskedFor
      <3>2. n # d
        BY <1>5, <1>7, <1>10, <2>2, <2>5, NoCircle
      <3>3. InOrder(n, d) \/ InOrder(d, n)
        BY <1>7, <3>1, <3>2, OneOrder
      <3>4. IsBefore(b, o) \/ IsBefore(o, b)
        BY <1>8, <2>4, <3>1, <3>3 DEF IsBefore, InOrder
      <3> QED BY <1>4, <1>7, <2>2, <2>3, <2>6, <2>7, <3>4, WishIs
    <2>11. b.before # Star
      <3> SUFFICES ASSUME b.before = Star PROVE FALSE
        OBVIOUS
      <3>1. IsBefore(b, o)
        BY <1>8, NamesAre DEF IsBefore, Wishless
      <3> QED BY <1>4, <1>7, <2>2, <2>3, <2>6, <3>1, WishIs
    <2>12. a.after # Star
      <3> SUFFICES ASSUME a.after = Star PROVE FALSE
        OBVIOUS
      <3>1. IsBefore(o, a)
        BY <1>8, NamesAre DEF IsBefore, Wishless
      <3> QED BY <1>3, <1>4, <1>5, <1>7, <2>7, <3>1, WishIs
    <2> QED BY <1>6, <2>8, <2>9, <2>10, <2>11, <2>12 DEF IsBefore
  <1>15. <<c.name, c.name>> \notin Wishes
    BY <1>5, NotItself
  <1> QED BY <1>1, <1>13, <1>14, <1>15 DEF Fits

\* In front of all.
LEMMA FitsInFront ==
    ASSUME OrderInv, PlainInv, Possible, stack # <<>>, ~IsPlaced(Cur.name), Cur.before = Star
    PROVE  Fits(Cur.name, sorted, 1, Wishes)
  <1>1. PICK c : c = Cur
    OBVIOUS
  <1>2. PICK a : a = asked[c.name]
    OBVIOUS
  <1>3. ~Wishless(c)
    BY <1>1, NamesAre DEF Wishless
  <1>4. /\ c.name \in Registered /\ c.name \notin Own /\ a.before = Star
        /\ {a.before, a.after} \subseteq Own \cup {NoName, Star} /\ {a.before, a.after} # {Star}
    <2>1. Cur.before = Star /\ ~Wishless(Cur)
      BY <1>1, <1>3
    <2>2. c.name \in Registered
      BY <1>1, AtPlain
    <2>3. /\ c.name \notin Own /\ c.before = a.before /\ c.after = a.after
          /\ {c.before, c.after} \subseteq Own \cup {NoName, Star} /\ {c.before, c.after} # {Star}
      BY <1>1, <1>2, <2>1, BehindOwn
    <2> QED BY <1>1, <2>1, <2>2, <2>3
  <1>5. a.name = c.name /\ a.how # "default" /\ c.name # NoName /\ c.name # Star
    BY <1>2, <1>4, AskedFor
  <1>6. ASSUME NEW w \in 1..Len(sorted) PROVE <<sorted[w], c.name>> \notin Wishes
    <2>1. PICK n : n = sorted[w]
      OBVIOUS
    <2>2. n \in Registered
      BY <2>1, TopIs DEF OrderInv, SortInv
    <2>3. PICK b : b = asked[n]
      OBVIOUS
    <2>4. /\ b.name = n /\ {b.before, b.after} \subseteq Own \cup {NoName, Star} /\ (n \in Own => Wishless(b))
          /\ n # NoName /\ n # Star
      BY <2>2, <2>3, AskedFor
    <2>5. SUFFICES ASSUME <<n, c.name>> \in Wishes PROVE FALSE
      BY <2>1
    <2>6. IsBefore(b, a)
      BY <1>2, <2>3, <2>5, WishIs
    <2>7. b.before # a.name /\ a.after # Star
      BY <1>4, <1>5, <2>4
    <2>8. a.after # b.name
      <3> SUFFICES ASSUME a.after = n PROVE FALSE
        BY <2>4
      <3>1. Wishless(b)
        BY <1>4, <2>4
      <3>2. IsBefore(a, b)
        BY <1>4, <3>1, NamesAre DEF IsBefore, Wishless
      <3>3. <<c.name, n>> \in Wishes
        BY <1>2, <1>4, <2>2, <2>3, <3>2, WishIs
      <3> QED BY <1>4, <2>2, <2>5, <3>3, NoCircle
    <2> QED BY <1>4, <1>5, <2>6, <2>7, <2>8 DEF IsBefore
  <1>7. <<c.name, c.name>> \notin Wishes
    BY <1>4, NotItself
  <1>8. \A w \in 1..Len(sorted) : ~(w < 1)
    OBVIOUS
  <1> QED BY <1>1, <1>6, <1>7, <1>8 DEF Fits

\* What a step of the sort leaves as it is, when it writes no wish and no more
\* than places the callback it is at.
LEMMA SortsPlain ==
    ASSUME OrderInv, PlainInv, stack # <<>>,
           NEW s, s = sorted', NEW t, t = stack',
           UNCHANGED <<callbacks, failed, next, asked>>,
           t = <<>> \/ (Len(t) = 1 /\ t[1].of = next - 1),
           \A k \in 1..Len(s) : s[k] = Cur.name \/ \E j \in 1..Len(sorted) : s[k] = sorted[j],
           t # <<>> => AllBehind(Cur, s),
           Possible => Obeys(s, Wishes)
    PROVE  PlainInv'
  <1>0. PlainList /\ PlainSort
    BY DEF PlainInv
  <1>1. ~Idle /\ Len(callbacks) \in Nat
    BY TopIs
  <1>2. Registered' = Registered /\ asked' = asked
    BY DEF Registered
  <1>3. Wishes' = Wishes
    BY <1>2 DEF Wishes, IsBefore
  <1>4. Possible' <=> Possible
    BY <1>2, <1>3 DEF Possible
  <1>5. PlainList'
    BY <1>0, <1>2 DEF PlainList, Own
  <1>6. Len(t) =< 1 /\ (t # <<>> => t[1].of = next - 1)
    <2>1. CASE t = <<>>
      <3>1. Len(t) = 0
        BY ONLY <2>1
      <3> QED BY <2>1, <3>1
    <2>2. CASE Len(t) = 1 /\ t[1].of = next - 1
      BY <2>2
    <2> QED BY <2>1, <2>2
  <1>7. ASSUME NEW k \in 1..Len(s) PROVE \E i \in 1..(next - 1) : callbacks[i].name = s[k]
    <2>1. next - 1 \in 1..(next - 1) /\ Cur = callbacks[next - 1]
      BY <1>1, AtPlain
    <2>2. CASE s[k] = Cur.name
      BY <2>1, <2>2
    <2>3. CASE s[k] # Cur.name
      <3>1. PICK j \in 1..Len(sorted) : s[k] = sorted[j]
        BY <2>3
      <3> QED BY <1>0, <1>1, <3>1 DEF PlainSort
    <2> QED BY <2>2, <2>3
  <1>8. PlainSort'
    <2>1. ~failed
      BY <1>0, <1>1 DEF PlainSort
    <2>2. Cur = callbacks[next - 1]
      BY AtPlain
    <2>3. t # <<>> => AllBehind(callbacks[next - 1], s)
      BY <2>2
    <2>4. AllBehind(callbacks[next - 1], s)' <=> AllBehind(callbacks[next - 1], s)
      BY <1>2 DEF AllBehind
    <2>5. (Possible => Obeys(s, Wishes))'
      BY <1>3, <1>4 DEF Obeys
    <2> QED BY <1>6, <1>7, <2>1, <2>3, <2>4, <2>5 DEF PlainSort
  <1>9. OrderAsAsked'
    BY <1>1 DEF OrderAsAsked, Idle
  <1> QED BY <1>5, <1>8, <1>9 DEF PlainInv

\* The callback that the sort is at gets a place that its wishes allow.
LEMMA PlacesPlain ==
    ASSUME OrderInv, PlainInv, stack # <<>>,
           NEW s, s = sorted', NEW t, t = stack',
           UNCHANGED <<failed, next, asked>>, callbacks' = callbacks,
           t = <<>> \/ (Len(t) = 1 /\ t[1].of = next - 1),
           NEW n, n = Cur.name, NEW S, S = sorted, Len(S) \in Nat,
           NEW p \in 1..(Len(S) + 1), PutAt(s, S, p, n),
           Possible => Obeys(S, Wishes), Possible => Fits(n, S, p, Wishes)
    PROVE  PlainInv'
  <1>1. /\ Len(s) = Len(S) + 1 /\ s[p] = n
        /\ \A k \in 1..Len(s) : s[k] = n \/ \E w \in 1..Len(S) : s[k] = S[w]
    <2>1. /\ Len(s) = Len(S) + 1 /\ s[p] = n
          /\ \A w \in 1..Len(S) : s[Moved(w, p)] = S[w]
          /\ \A k \in 1..Len(s) : k = p \/ \E w \in 1..Len(S) : k = Moved(w, p)
      BY ONLY PutAt(s, S, p, n) DEF PutAt
    <2> QED BY ONLY <2>1
  <1>2. p \in 1..Len(s)
    BY <1>1
  <1>3. AllBehind(Cur, s)
    BY <1>1, <1>2 DEF AllBehind
  <1>4. PICK W : W = Wishes
    OBVIOUS
  <1>5. Possible => Obeys(s, W)
    BY ONLY Len(S) \in Nat, p \in 1..(Len(S) + 1), PutAt(s, S, p, n), Possible => Obeys(S, Wishes),
       Possible => Fits(n, S, p, Wishes), <1>4, StillObeys
  <1>6. UNCHANGED <<callbacks, failed, next, asked>>
    OBVIOUS
  <1> QED BY SMTT(60), <1>1, <1>3, <1>4, <1>5, <1>6, SortsPlain

LEMMA NextPlain ==
    ASSUME OrderInv, PlainInv, NextCallback
    PROVE  PlainInv'
  <1>0. RegistryInv /\ PlainList /\ PlainSort
    BY DEF OrderInv, PlainInv
  <1>1. stack = <<>> /\ ~Idle /\ next =< Len(callbacks) /\ next' = next + 1
    BY DEF NextCallback
  <1>2. UNCHANGED <<callbacks, fns, failed, sorted, asked, calls>>
    BY DEF NextCallback
  <1>3. Len(callbacks) \in Nat /\ next \in 1..Len(callbacks)
    BY SMTT(60), <1>0, <1>1 DEF RegistryInv, Idle
  <1>4. Registered' = Registered /\ asked' = asked
    BY <1>2 DEF Registered
  <1>5. Wishes' = Wishes
    BY <1>4 DEF Wishes, IsBefore
  <1>6. Possible' <=> Possible
    BY <1>4, <1>5 DEF Possible
  <1>7. PlainList'
    BY <1>0, <1>2, <1>4 DEF PlainList, Own
  <1>8. PICK t : t = stack'
    OBVIOUS
  <1>9. Len(t) = 1 /\ t[1].of = next /\ t[1].at = "before" /\ next' - 1 = next
    BY <1>1, <1>3, <1>8 DEF NextCallback
  <1>10. ASSUME NEW k \in 1..Len(sorted) PROVE \E i \in 1..next : callbacks[i].name = sorted[k]
    <2>1. PICK i \in 1..(next - 1) : callbacks[i].name = sorted[k]
      BY <1>0, <1>1 DEF PlainSort
    <2> QED BY <1>3, <2>1
  <1>11. (Possible => Obeys(sorted, Wishes))'
    <2>1. Possible => Obeys(sorted, Wishes)
      BY <1>0, <1>1 DEF PlainSort
    <2> QED BY <1>2, <1>5, <1>6, <2>1 DEF Obeys
  <1>12. PlainSort'
    <2>1. ~failed
      BY <1>0, <1>1 DEF PlainSort
    <2> QED BY <1>2, <1>8, <1>9, <1>10, <1>11, <2>1 DEF PlainSort
  <1>13. OrderAsAsked'
    BY <1>1, <1>3 DEF OrderAsAsked, Idle
  <1> QED BY <1>7, <1>12, <1>13 DEF PlainInv

\* A wish that does not count now was asked for about none that is registered.
LEMMA WishGoes ==
    ASSUME OrderInv, PlainInv, stack # <<>>,
           ~(Cur.before = Star /\ sorted # <<>>), ~IsPlaced(Cur.before)
    PROVE  Cur.before \notin Registered /\ Index(Cur.before) = 0
  <1>0. RegistryInv /\ ListInv
    BY DEF OrderInv
  <1>1. Cur.before \notin Registered
    <2> SUFFICES ASSUME Cur.before \in Registered PROVE FALSE
      OBVIOUS
    <2>1. PICK a : a = asked[Cur.before]
      OBVIOUS
    <2>2. Cur.before # NoName /\ Cur.before # Star
      BY <2>1, AskedFor
    <2>3. ~Wishless(Cur)
      BY <2>2 DEF Wishless
    <2>4. Cur.before \in Own
      BY <2>2, <2>3, BehindOwn
    <2> QED BY <2>3, <2>4, BehindOwn
  <1>2. \A i \in 1..Len(callbacks) : callbacks[i].name # Cur.before
    BY <1>0, <1>1 DEF ListInv
  <1> QED BY <1>0, <1>1, <1>2, IndexIs

LEMMA BeforePlain ==
    ASSUME OrderInv, PlainInv, SortBefore
    PROVE  PlainInv'
  <1>0. RegistryInv /\ PlainSort
    BY DEF OrderInv, PlainInv
  <1>1. stack # <<>>
    BY DEF SortBefore, Stands
  <1>2. PICK s : s = sorted'
    OBVIOUS
  <1>3. PICK t : t = stack'
    OBVIOUS
  <1>4. PICK n : n = Cur.name
    OBVIOUS
  <1>5. PICK S : S = sorted
    OBVIOUS
  <1>6. S \in Seq(CallbackNames) /\ n \in CallbackNames /\ Len(S) \in Nat /\ ~Idle
    BY <1>0, <1>1, <1>4, <1>5, TopIs DEF RegistryInv
  <1>7. Len(t) = 1 /\ t[1].of = next - 1
    <2>1. t = [stack EXCEPT ![Len(stack)].at = "after"]
      BY <1>3 DEF SortBefore
    <2>2. Len(t) = Len(stack) /\ \A k \in 1..Len(stack) : t[k].of = stack[k].of
      BY <1>1, <2>1, GoesTo
    <2>3. Len(stack) = 1 /\ 1 \in 1..Len(stack) /\ stack[1].of = next - 1
      BY <1>1, AtPlain
    <2> QED BY <2>2, <2>3
  <1>8. Possible => Obeys(S, Wishes)
    BY <1>0, <1>5, <1>6 DEF PlainSort
  <1>9. UNCHANGED <<failed, next, asked>>
    BY DEF SortBefore
  <1>10. CASE IsPlaced(n)
    <2>1. s = S
      BY <1>2, <1>4, <1>5, <1>10 DEF SortBefore
    <2>2. \E k \in 1..Len(S) : S[k] = n
      BY <1>0, <1>5, <1>10, PlaceIs
    <2>3. callbacks' = callbacks
      BY <1>1, WishGoes DEF SortBefore
    <2>4. AllBehind(Cur, s)
      BY <1>4, <2>1, <2>2 DEF AllBehind
    <2> QED BY <1>1, <1>2, <1>3, <1>5, <1>7, <1>8, <1>9, <2>1, <2>3, <2>4, SortsPlain
  <1>11. CASE ~IsPlaced(n) /\ Cur.before = Star /\ S # <<>>
    <2>1. s = <<n>> \o S /\ callbacks' = callbacks
      BY <1>2, <1>4, <1>5, <1>11 DEF SortBefore
    <2>2. PutAt(s, S, 1, n) /\ 1 \in 1..(Len(S) + 1)
      BY ZenonT(60), <1>6, <2>1, InFrontIs
    <2>3. Possible => Fits(n, S, 1, Wishes)
      BY <1>1, <1>4, <1>5, <1>11, FitsInFront
    <2>4. PICK p \in 1..(Len(S) + 1) : PutAt(s, S, p, n) /\ (Possible => Fits(n, S, p, Wishes))
      BY <2>2, <2>3
    <2> QED BY ONLY OrderInv, PlainInv, <1>1, <1>2, <1>3, <1>4, <1>5, <1>6, <1>7, <1>8, <1>9, <2>1, <2>4, PlacesPlain
  <1>12. CASE ~IsPlaced(n) /\ ~(Cur.before = Star /\ S # <<>>) /\ IsPlaced(Cur.before)
    <2>1. PICK p : p = Place(Cur.before)
      OBVIOUS
    <2>2. s = InsertAt(S, p, n) /\ callbacks' = callbacks
      BY <1>2, <1>4, <1>5, <1>12, <2>1 DEF SortBefore
    <2>3. p \in 1..(Len(S) + 1) /\ Cur.before \in Registered
      <3>1. p # 0 /\ p \in 0..Len(S) /\ \E k \in 1..Len(S) : S[k] = Cur.before
        BY <1>0, <1>5, <1>12, <2>1, PlaceIs DEF IsPlaced
      <3> QED BY <1>5, <1>6, <3>1 DEF OrderInv, SortInv
    <2>4. ~Wishless(Cur)
      <3>1. PICK a : a = asked[Cur.before]
        OBVIOUS
      <3> QED BY <2>3, <3>1, AskedFor DEF Wishless
    <2>5. PutAt(s, S, p, n)
      BY <1>6, <2>2, <2>3, InsertAtIs
    <2>6. Possible => Fits(n, S, p, Wishes)
      BY <1>1, <1>4, <1>5, <1>12, <2>1, <2>3, <2>4, FitsBefore
    <2> QED BY ONLY OrderInv, PlainInv, <1>1, <1>2, <1>3, <1>4, <1>5, <1>6, <1>7, <1>8, <1>9, <2>2, <2>3, <2>5, <2>6, PlacesPlain
  <1>13. CASE ~IsPlaced(n) /\ ~(Cur.before = Star /\ S # <<>>) /\ ~IsPlaced(Cur.before)
    <2>1. Cur.before \notin Registered /\ Index(Cur.before) = 0
      BY <1>1, <1>5, <1>13, WishGoes
    <2>2. s = S /\ callbacks' = callbacks
      BY <1>2, <1>5, <1>13, <2>1 DEF SortBefore
    <2>3. AllBehind(Cur, s)
      BY <1>13, <2>1, <2>2 DEF AllBehind
    <2> QED BY <1>1, <1>2, <1>3, <1>5, <1>7, <1>8, <1>9, <2>2, <2>3, SortsPlain
  <1> QED BY <1>10, <1>11, <1>12, <1>13

LEMMA AfterPlain ==
    ASSUME OrderInv, PlainInv, SortAfter
    PROVE  PlainInv'
  <1>0. RegistryInv /\ PlainSort /\ SortInv
    BY DEF OrderInv, PlainInv
  <1>1. stack # <<>> /\ Top.at = "after"
    BY DEF SortAfter, Stands
  <1>2. PICK s : s = sorted'
    OBVIOUS
  <1>3. PICK t : t = stack'
    OBVIOUS
  <1>4. PICK n : n = Cur.name
    OBVIOUS
  <1>5. PICK S : S = sorted
    OBVIOUS
  <1>6. /\ S \in Seq(CallbackNames) /\ n \in CallbackNames /\ Len(S) \in Nat /\ ~Idle
        /\ \A w \in 1..Len(S) : S[w] \in Registered
    BY SMTT(60), <1>0, <1>1, <1>4, <1>5, TopIs DEF RegistryInv, SortInv
  <1>7. t = <<>>
    <2>1. PICK l : l = Len(stack) - 1
      OBVIOUS
    <2>2. Len(stack) = 1
      BY <1>1, AtPlain
    <2>3. t = SubSeq(stack, 1, l) /\ l = 0
      BY <1>3, <2>1, <2>2 DEF SortAfter, Front
    <2>4. PICK F : stack \in Seq(F)
      BY <1>0 DEF RegistryInv
    <2> QED BY ONLY <2>3, <2>4
  <1>8. Possible => Obeys(S, Wishes)
    BY <1>0, <1>5, <1>6 DEF PlainSort
  <1>9. UNCHANGED <<failed, next, asked>> /\ callbacks' = callbacks
    BY DEF SortAfter
  <1>10. CASE IsPlaced(n)
    <2>1. s = S
      BY <1>2, <1>4, <1>5, <1>10 DEF SortAfter
    <2> QED BY <1>1, <1>2, <1>3, <1>5, <1>7, <1>8, <1>9, <2>1, SortsPlain
  <1>11. CASE ~IsPlaced(n)
    <2>1. s = Append(S, n)
      BY <1>2, <1>4, <1>5, <1>11 DEF SortAfter
    <2>2. PutAt(s, S, Len(S) + 1, n) /\ Len(S) + 1 \in 1..(Len(S) + 1)
      <3>1. S \in Seq(CallbackNames) /\ n \in CallbackNames
        BY <1>6
      <3> QED BY ONLY <2>1, <3>1, BehindIs
    <2>3. Possible => Fits(n, S, Len(S) + 1, Wishes)
      <3> SUFFICES ASSUME Possible PROVE Fits(n, S, Len(S) + 1, Wishes)
        OBVIOUS
      <3>1. AllBehind(Cur, sorted)
        <4>1. stack[1].at = "after" /\ Cur = callbacks[next - 1]
          BY <1>1, AtPlain
        <4> QED BY <1>0, <1>1, <1>6, <4>1 DEF PlainSort
      <3>2. ASSUME NEW w \in 1..Len(S) PROVE <<n, S[w]>> \notin Wishes /\ w < Len(S) + 1
        <4>1. PICK m : m = S[w]
          OBVIOUS
        <4>2. m \in Registered /\ IsPlaced(m)
          BY <1>0, <1>5, <1>6, <4>1, PlaceIs
        <4> QED BY <1>1, <1>4, <1>6, <1>11, <3>1, <4>1, <4>2, FitsBehind
      <3>3. <<n, n>> \notin Wishes
        BY <1>1, <1>4, AtPlain, NotItself
      <3> QED BY <3>2, <3>3 DEF Fits
    <2>4. PICK p \in 1..(Len(S) + 1) : PutAt(s, S, p, n) /\ (Possible => Fits(n, S, p, Wishes))
      BY <2>2, <2>3
    <2> QED BY ONLY OrderInv, PlainInv, <1>1, <1>2, <1>3, <1>4, <1>5, <1>6, <1>7, <1>8, <1>9, <2>4, PlacesPlain
  <1> QED BY <1>10, <1>11

\* A callback that is sorted before the one that names it: not here, where each
\* names GORM's own, and these come first.
LEMMA NoOtherFirst == ASSUME OrderInv, PlainInv, SortOtherFirst PROVE FALSE
  <1>0. RegistryInv /\ ListInv
    BY DEF OrderInv
  <1>1. stack # <<>> /\ Index(Cur.after) # 0 /\ ~IsPlaced(Cur.after)
    BY DEF SortOtherFirst, Stands
  <1>2. Cur.after \in Registered
    <2>1. Index(Cur.after) \in 1..Len(callbacks) /\ callbacks[Index(Cur.after)].name = Cur.after
      BY <1>0, <1>1, TopIs, IndexIs
    <2> QED BY <1>0, <2>1 DEF ListInv
  <1>3. PICK a : a = asked[Cur.after]
    OBVIOUS
  <1>4. Cur.after # NoName /\ Cur.after # Star
    BY <1>2, <1>3, AskedFor
  <1>5. ~Wishless(Cur)
    BY <1>4 DEF Wishless
  <1>6. Cur.after \in Own
    BY <1>1, <1>4, <1>5, BehindOwn
  <1> QED BY <1>1, <1>2, <1>5, <1>6, BehindOwn

\* The sort gives up only where the wishes go round in a circle.
LEMMA NoConflict == ASSUME OrderInv, PlainInv, Conflict PROVE ~Possible
  <1> SUFFICES ASSUME Possible PROVE FALSE
    OBVIOUS
  <1>0. RegistryInv /\ SortInv /\ PlainSort
    BY DEF OrderInv, PlainInv
  <1>1. PICK d : d = IF Top.at = "before" THEN Cur.before ELSE Cur.after
    OBVIOUS
  <1>2. PICK c : c = Cur
    OBVIOUS
  <1>3. /\ stack # <<>> /\ IsPlaced(d) /\ IsPlaced(c.name)
        /\ \/ d = c.before /\ Place(c.name) > Place(d)
           \/ d = c.after /\ Place(c.name) < Place(d)
    BY <1>1, <1>2 DEF Conflict, Stands
  <1>4. ~Idle /\ c.name \in Registered
    BY <1>2, <1>3, TopIs
  <1>5. d \in Registered
    <2>1. \E k \in 1..Len(sorted) : sorted[k] = d
      BY <1>0, <1>3, PlaceIs
    <2> QED BY <1>0, <1>4, <2>1 DEF SortInv
  <1>6. PICK o : o = asked[d]
    OBVIOUS
  <1>7. o.name = d /\ d # NoName
    BY <1>5, <1>6, AskedFor
  <1>8. PICK a : a = asked[c.name]
    OBVIOUS
  <1>9. a.name = c.name
    BY <1>4, <1>8, AskedFor
  <1>10. c.before = a.before /\ c.after = a.after
    <2>1. ~Wishless(Cur)
      BY <1>2, <1>3, <1>7 DEF Wishless
    <2> QED BY <1>2, <1>3, <1>8, <2>1, BehindOwn
  <1>11. /\ Place(d) \in 1..Len(sorted) /\ sorted[Place(d)] = d
         /\ Place(c.name) \in 1..Len(sorted) /\ sorted[Place(c.name)] = c.name
    <2>1. Len(sorted) \in Nat /\ Place(d) # 0 /\ Place(c.name) # 0
      BY <1>0, <1>3 DEF RegistryInv, IsPlaced
    <2>2. Place(d) \in 0..Len(sorted) /\ sorted[Place(d)] = d
      BY <1>0, <1>3, PlaceIs
    <2>3. Place(c.name) \in 0..Len(sorted) /\ sorted[Place(c.name)] = c.name
      BY <1>0, <1>3, PlaceIs
    <2> QED BY <2>1, <2>2, <2>3
  <1>12. Obeys(sorted, Wishes)
    BY <1>0, <1>4 DEF PlainSort
  <1>13. CASE d = c.before /\ Place(c.name) > Place(d)
    <2>1. <<c.name, d>> \in Wishes
      BY <1>4, <1>5, <1>6, <1>7, <1>8, <1>10, <1>13, WishIs DEF IsBefore
    <2>2. Place(c.name) < Place(d)
      BY <1>11, <1>12, <2>1 DEF Obeys
    <2> QED BY <1>11, <1>13, <2>2
  <1>14. CASE d = c.after /\ Place(c.name) < Place(d)
    <2>1. <<d, c.name>> \in Wishes
      BY <1>4, <1>5, <1>6, <1>7, <1>8, <1>10, <1>14, WishIs DEF IsBefore
    <2>2. Place(d) < Place(c.name)
      BY <1>11, <1>12, <2>1 DEF Obeys
    <2> QED BY <1>11, <1>14, <2>2
  <1> QED BY <1>3, <1>13, <1>14

LEMMA ConflictPlain ==
    ASSUME OrderInv, PlainInv, Conflict
    PROVE  PlainInv'
  <1>1. failed' = TRUE /\ next' = 0 /\ stack' = <<>> /\ UNCHANGED <<callbacks, sorted, asked, calls>>
    BY DEF Conflict
  <1>2. Registered' = Registered /\ asked' = asked
    BY <1>1 DEF Registered
  <1>3. Wishes' = Wishes
    BY <1>2 DEF Wishes, IsBefore
  <1>4. ~Possible'
    <2>1. Possible' <=> Possible
      BY <1>2, <1>3 DEF Possible
    <2> QED BY <2>1, NoConflict
  <1>5. PlainList'
    BY <1>1, <1>2 DEF PlainInv, PlainList, Own
  <1>6. PlainSort' /\ OrderAsAsked'
    BY <1>1, <1>4 DEF PlainSort, OrderAsAsked, Idle
  <1> QED BY <1>5, <1>6 DEF PlainInv

\* The functions are in the order of the names.
LEMMA CompiledPlain ==
    ASSUME OrderInv, PlainInv, Compiled
    PROVE  PlainInv'
  <1>0. RegistryInv /\ ListInv /\ SortInv /\ PlainSort /\ PlainList
    BY DEF OrderInv, PlainInv
  <1>1. ~Idle /\ stack = <<>> /\ next > Len(callbacks) /\ next' = 0
    BY DEF Compiled
  <1>2. UNCHANGED <<callbacks, failed, sorted, stack, asked, calls>>
    BY DEF Compiled
  <1>3. Registered' = Registered /\ asked' = asked
    BY <1>2 DEF Registered
  <1>4. Wishes' = Wishes
    BY <1>3 DEF Wishes, IsBefore
  <1>5. Possible' <=> Possible
    BY <1>3, <1>4 DEF Possible
  <1>6. PlainList' /\ PlainSort'
    BY <1>0, <1>1, <1>2, <1>3 DEF PlainList, PlainSort, Own, Idle
  <1>7. PICK N : N = Len(sorted)
    OBVIOUS
  <1>8. N \in Nat /\ DOMAIN sorted = 1..N /\ OnceEach(sorted)
    BY <1>0, <1>1, <1>7 DEF RegistryInv, SortInv
  <1>9. PICK f : f = fns'
    OBVIOUS
  <1>10. DOMAIN f = 1..N /\ \A i \in 1..N : f[i].name = sorted[i]
    BY <1>8, <1>9 DEF Compiled
  <1>11. ASSUME NEW n \in Registered
         PROVE  \E k \in 1..N : sorted[k] = n /\ (Position(n))' = k
    <2>1. PICK i \in 1..Len(callbacks) : callbacks[i].name = n
      BY <1>0 DEF ListInv, Latest
    <2>2. i \in 1..(next - 1) /\ 1..Len(stack) = {}
      BY SMTT(60), <1>0, <1>1, <2>1 DEF RegistryInv
    <2>3. Placed(i)
      BY <1>0, <1>1, <2>2 DEF SortInv, UnderWay
    <2>4. PICK k \in 1..N : sorted[k] = n
      BY <1>7, <2>1, <2>3 DEF Placed
    <2>5. \A j \in 1..N : sorted[j] = n => j = k
      BY <1>7, <1>8, <2>4 DEF OnceEach
    <2>6. (CHOOSE j \in DOMAIN f : f[j].name = n) = k
      BY <1>10, <2>4, <2>5
    <2> QED BY <1>9, <2>4, <2>6 DEF Position
  <1>12. OrderAsAsked'
    <2> SUFFICES ASSUME Possible
                 PROVE  ~failed /\ \A w \in Wishes : (Position(w[1]) < Position(w[2]))'
      BY <1>2, <1>4, <1>5 DEF OrderAsAsked
    <2>1. ~failed /\ Obeys(sorted, Wishes)
      BY <1>0, <1>1 DEF PlainSort
    <2>2. ASSUME NEW w \in Wishes PROVE (Position(w[1]) < Position(w[2]))'
      <3>1. PICK m \in Registered, n \in Registered : w = <<m, n>>
        BY DEF Wishes
      <3>2. PICK k \in 1..N : sorted[k] = m /\ (Position(m))' = k
        BY <1>11
      <3>3. PICK l \in 1..N : sorted[l] = n /\ (Position(n))' = l
        BY <1>11
      <3>4. k < l
        BY <1>7, <2>1, <3>1, <3>2, <3>3 DEF Obeys
      <3>5. w[1] = m /\ w[2] = n
        BY <3>1
      <3> QED BY ZenonT(60), <3>2, <3>3, <3>4, <3>5 DEF Position
    <2> QED BY <2>1, <2>2
  <1> QED BY <1>6, <1>12 DEF PlainInv

LEMMA PlainNext ==
    ASSUME PlainWishes, OrderInv, PlainInv, [CNext]_registry
    PROVE  PlainInv'
  <1>1. ASSUME NEW c \in Calls, Register(c) PROVE PlainInv'
    BY <1>1, RegistersPlain
  <1>2. ASSUME NEW c \in Calls, Replace(c) PROVE PlainInv'
    BY <1>2, ReplacesPlain
  <1>3. ASSUME NEW c \in Calls, Unregister(c) PROVE PlainInv'
    BY <1>3, UnregistersPlain
  <1>4. CASE Sort
    BY <1>4, NextPlain, BeforePlain, AfterPlain, NoOtherFirst, ConflictPlain, CompiledPlain DEF Sort
  <1>5. CASE UNCHANGED registry
    <2>1. UNCHANGED <<callbacks, fns, failed, next, sorted, stack, asked, calls>>
      BY <1>5 DEF registry
    <2>2. Registered' = Registered /\ asked' = asked
      BY <2>1 DEF Registered
    <2>3. Wishes' = Wishes
      BY <2>2 DEF Wishes, IsBefore
    <2>4. Possible' <=> Possible
      BY <2>2, <2>3 DEF Possible
    <2>5. PlainList' <=> PlainList
      BY <2>1, <2>2 DEF PlainList, Own
    <2>6. PlainSort' <=> PlainSort
      BY <2>1, <2>2, <2>3, <2>4 DEF PlainSort, Idle, AllBehind
    <2>7. OrderAsAsked' <=> OrderAsAsked
      BY <2>1, <2>3, <2>4 DEF OrderAsAsked, Idle, Position
    <2> QED BY <2>5, <2>6, <2>7 DEF PlainInv
  <1> QED BY <1>1, <1>2, <1>3, <1>4, <1>5 DEF CNext

(***************************************************************************)
(* Whatever an application registers, replaces and removes, when Before    *)
(* and After name GORM's own callbacks only, or have one star: if there is *)
(* an order that has all of the wishes and GORM's own callbacks as they    *)
(* were registered, no call fails, and Execute runs the functions in such  *)
(* an order (compile, sortCallbacks).                                      *)
(***************************************************************************)
THEOREM OrderIsFound ==
    ASSUME PlainWishes
    PROVE  CSpec => []OrderAsAsked
  <1>1. CInit => OrderInv /\ PlainInv
    BY RegistryInit, OrderInit
  <1>2. OrderInv /\ PlainInv /\ [CNext]_registry => (OrderInv /\ PlainInv)'
    BY PlainKeepsStars, RegistryNext, PlainNext
  <1>3. PlainInv => OrderAsAsked
    BY DEF PlainInv
  <1> QED BY <1>1, <1>2, <1>3, PTL DEF CSpec
=============================================================================
