---------------------------- MODULE FindInBatches ----------------------------
(***************************************************************************)
(* DB.FindInBatches (finisher_api.go): the rows of a query, batch by       *)
(* batch, each batch the rows after the last primary key of the one        *)
(* before it.  Between two queries, and while the function of the          *)
(* application runs, the rows may change.                                  *)
(*                                                                         *)
(* The condition on the primary key is added to those of the application   *)
(* without a group, so it binds to the last of their alternatives only:    *)
(* Where(a).Or(b) becomes a OR b AND id > last.                            *)
(***************************************************************************)
EXTENDS Integers, FiniteSets

CONSTANTS
    Ids,        \* primary keys
    Rank,       \* what the application orders by: [Ids -> Nat], constant if it does not
    Limits,     \* the limits of the query, -1 for none
    Looses,     \* the sets of rows that an alternative other than the last may match
    MaxOffset,  \* bound on its offset
    MaxSize,    \* bound on the size of a batch
    MaxBatches  \* bound on the number of queries, more than there are keys
                \* (only a query with such alternatives ever needs more)

ASSUME InputAssumption ==
    /\ Ids \subseteq Nat /\ IsFiniteSet(Ids)
    /\ Rank \in [Ids -> Nat]
    /\ Limits \subseteq Nat \cup {-1}
    /\ MaxOffset \in Nat /\ MaxSize \in Nat \ {0}
    /\ MaxBatches \in Nat /\ Cardinality(Ids) < MaxBatches
ASSUME LoosesAssumption == Looses \subseteq SUBSET Ids

VARIABLES
    table,      \* the rows that one of the conditions matches; all if orOnly
    limit, offset,
    loose,      \* what an alternative other than the last matches ...
    orOnly,     \* ... which are all of them when the query has Or and nothing else
    size,       \* batchSize
    pc,         \* "query", "call", "done"
    after,      \* the primary key that the next batch starts behind
    batch,      \* the number of the batch
    affected,   \* rowsAffected
    page,       \* dest: the batch
    error,
    found,      \* the rows given to fc so far
    stable,     \* the rows that have been there all the time
    skipped     \* the rows that the offset leaves out: the first of them all

input == <<limit, offset, loose, orOnly>>
vars == <<table, input, size, pc, after, batch, affected, page, error, found, stable, skipped>>

TypeOK ==
    /\ table \subseteq Ids /\ stable \subseteq table
    /\ limit \in Limits /\ offset \in 0..MaxOffset
    /\ loose \in Looses \cup {{}} /\ orOnly \in BOOLEAN
    /\ size \in 1..MaxSize
    /\ pc \in {"query", "call", "done"}
    /\ after \in Ids \cup {0}
    /\ batch \in Nat /\ affected \in Nat
    /\ page \subseteq Ids /\ found \subseteq Ids /\ skipped \subseteq Ids
    /\ error \in BOOLEAN

\* A batch is never larger than the limit.
Init ==
    /\ table \in SUBSET Ids /\ stable = table
    /\ limit \in Limits /\ offset \in 0..MaxOffset
    /\ loose \in Looses /\ orOnly \in BOOLEAN /\ (orOnly => loose # {})
    /\ size \in 1..MaxSize /\ (limit > 0 => size =< limit)
    /\ pc = "query" /\ after = 0 /\ batch = 0 /\ affected = 0
    /\ page = {} /\ error = FALSE /\ found = {} /\ skipped = {}

------------------------------------------------------------------------------
(***************************************************************************)
(* A query.                                                                *)
(***************************************************************************)

\* ORDER BY what the application orders by, and the primary key.
Before(a, b) == Rank[a] < Rank[b] \/ (Rank[a] = Rank[b] /\ a < b)

\* The first n rows of S.
IsFirst(P, n, S) ==
    /\ P \subseteq S
    /\ Cardinality(P) = IF n < Cardinality(S) THEN n ELSE Cardinality(S)
    /\ \A p \in P, s \in S \ P : Before(p, s)

IsLast(l, P) == l \in P /\ \A p \in P \ {l} : Before(p, l)

\* The first query has the conditions of the application only.
First == IF orOnly THEN table \cap loose ELSE table

\* Mutant: the next batch starts with the last row of this one.
Selected_Again == IF batch = 0 THEN First ELSE {r \in table : r >= after \/ r \in loose}

\* The rows that the next batch is taken from: the last alternative AND id > last,
\* OR the others.  To an Or and nothing else, id > last is the alternative.
Selected == IF batch = 0 THEN First ELSE {r \in table : r > after \/ r \in loose}

\* Mutant: the offset is not reset.
Skip_Always == offset

\* Only the first query has the offset.
Skip == IF batch = 0 THEN offset ELSE 0

\* queryDB.Limit(batchSize).Find(dest).
Query ==
    /\ pc = "query" /\ batch < MaxBatches
    /\ \E left \in SUBSET Selected : \E rows \in SUBSET (Selected \ left) :
          /\ IsFirst(left, Skip, Selected)
          /\ IsFirst(rows, size, Selected \ left)
          /\ page' = rows
          /\ skipped' = IF batch = 0 THEN left ELSE skipped
          /\ affected' = affected + Cardinality(rows)
          /\ pc' = IF rows = {} THEN "done" ELSE "call"
    /\ batch' = batch + 1
    /\ UNCHANGED <<table, input, size, after, error, found, stable>>

QueryFails ==
    /\ pc = "query" /\ batch < MaxBatches
    /\ error' = TRUE /\ pc' = "done" /\ batch' = batch + 1
    /\ UNCHANGED <<table, input, size, after, affected, page, found, stable, skipped>>

------------------------------------------------------------------------------
(***************************************************************************)
(* A batch.                                                                *)
(***************************************************************************)

\* There is nothing more, or it is not asked for.
IsOver == Cardinality(page) < size \/ (limit > 0 /\ limit =< affected)

\* Mutant: the last batch is as large as the others.
NextSize_Same == size

\* The last batch is smaller.
NextSize == IF limit > 0 /\ limit \div size = batch THEN limit % size ELSE size

\* fc runs, and the loop goes on: from the last primary key, which must not be
\* zero.
Call ==
    /\ pc = "call"
    /\ found' = found \cup page
    /\ \/ error' = TRUE /\ pc' = "done" /\ UNCHANGED <<after, size>>
       \/ IsOver /\ pc' = "done" /\ UNCHANGED <<after, size, error>>
       \/ /\ ~IsOver
          /\ size' = NextSize
          /\ \E l \in page :
                /\ IsLast(l, page)
                /\ after' = l
                /\ error' = (l = 0)
                /\ pc' = IF l = 0 THEN "done" ELSE "query"
    /\ UNCHANGED <<table, input, batch, affected, page, stable, skipped>>

------------------------------------------------------------------------------
(***************************************************************************)
(* Others.                                                                 *)
(***************************************************************************)

Insert(r) ==
    /\ r \notin table
    /\ table' = table \cup {r}
    /\ UNCHANGED <<input, size, pc, after, batch, affected, page, error, found, stable, skipped>>

RemoveRow(r) ==
    /\ r \in table
    /\ table' = table \ {r} /\ stable' = stable \ {r}
    /\ UNCHANGED <<input, size, pc, after, batch, affected, page, error, found, skipped>>

------------------------------------------------------------------------------
Loop == Query \/ QueryFails \/ Call

Next == Loop \/ \E r \in Ids : Insert(r) \/ RemoveRow(r)

Spec == Init /\ [][Next]_vars

\* The caller runs, and the database answers.
FairSpec == Spec /\ WF_vars(Loop)

------------------------------------------------------------------------------
(***************************************************************************)
(* Properties.                                                             *)
(***************************************************************************)

\* What the application asks for.
Matched == IF orOnly THEN loose ELSE Ids

\* No row is given to fc twice, whatever happens between the batches ...
EachOnce == pc = "call" => page \cap found = {}

\* ... as long as the primary key is a condition for all of them.
NoneTwice == loose = {} => EachOnce

\* "Limit specify the number of records to be retrieved": fc is never given
\* more rows, over all batches.
LimitKept == limit >= 0 => Cardinality(found) =< limit

\* "FindInBatches finds all records in batches": when it ends without an error
\* and short of the limit, fc has had every row that was asked for, was there
\* all the time and was not left out by the offset, also when alternatives take
\* the search back to rows before the last.
AllFound ==
    pc = "done" /\ ~error /\ affected # limit => (stable \cap Matched) \ skipped \subseteq found

\* It ends, before it has made more queries than there can be rows, also when
\* rows are inserted behind it all the time: the primary key only goes up.
Ends == loose = {} => <>(pc = "done")

\* With alternatives it may read the same batch for ever ...
NoMoreThanRows == pc = "query" => batch < MaxBatches

\* ... and after an Or and nothing else it reads what was not asked for
\* (MCFinishersAlternatives.cfg).
OnlyMatched == found \subseteq Matched
=============================================================================
