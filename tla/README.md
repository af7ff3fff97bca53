# A verification project for GORM

TLA+ modules for the parts of GORM in which the order of steps matters, TLC
runs on small instances, and proofs for every instance. `PROJECT.json` ties
them to the code: for each definition the lines it stands for, for each
property the mutation of the code's behaviour that breaks it, and the hazards
the properties are for.

## 1. The system

GORM is a library. It has no process and no scheduler of its own except one
goroutine per statement cache; everything else runs in the goroutines of the
application, on handles (`*gorm.DB`) that share what hangs from one `Config`.

| component | state | operations | interacts with |
|---|---|---|---|
| **LRU** (`internal/lru`) | map, recency list, expiry buckets, all under one mutex | Add, Get, Remove, RemoveOldest, Purge, Resize; a goroutine that sweeps one bucket per tick | calls `onEvict` under its mutex |
| **Prepared statements** (`prepare_stmt.go`, `internal/stmt_store`) | the LRU of `*Stmt`, an RWMutex, `prepared` channels | prepare, Exec/Query, Close/Reset, BeginTx | the connection pool of `database/sql`; closes evicted statements in goroutines |
| **Schema cache** (`schema/schema.go`, `relationship.go`) | a `sync.Map` of Schemas, an `initialized` channel and a Mux in each | Parse, getOrParse, parseRelation | recursive: a relation parses the type it leads to |
| **Transactions** (`finisher_api.go`) | the connection's transaction, its savepoints, the `Error` of handles | Transaction (nested too), Begin, Commit, Rollback, SavePoint, RollbackTo | `database/sql`, which ends a transaction with its context |
| **FindInBatches** (`finisher_api.go`) | batch size, rows affected, last primary key | a query and a callback in turn | the table changes meanwhile |
| **Create** (`callbacks/*`) | keys and foreign keys in memory, `visitMap`, the transaction | hooks, SaveBeforeAssociations, Create, SaveAfterAssociations, commit | calls `Create` again for the records around |
| **Callback registry** (`callbacks.go`) | callbacks with Before/After/Replace/Remove | Register..., sort, Execute | runs everything above |
| **Handles and chains** (`gorm.go`, `chainable_api.go`, `statement.go`, `clause/where.go`, `soft_delete.go`) | `clone`, `Statement` with its slices, `Error` | Session, getInstance, chain methods, Find, Count | shared between chains |
| **Generics API** (`generics.go`) | a DB and a list of operations | G, chain methods, Raw, apply, Set with associations | runs its operations on a session of its own |
| **Association mode** (`association.go`) | the relation field and the foreign key of structs in memory | Append, Replace, Delete, Clear | several statements each |
| **Preload** (`callbacks/preload.go`) | join rows read, structs in memory | two or three queries | rows change between the queries |
| **Save, FirstOrCreate, CreateInBatches** (`finisher_api.go`) | the struct, the keys given to values | look, then write; several writes | other sessions |
| **Migrator** (`migrator/`) | the tables of the database | AutoMigrate, ReorderModels, DDL | the schema cache, other programs that migrate |
| update and delete callbacks | - | the frame of Create around one statement | - |
| clauses, fields, naming, serializers, scan, logger | - | conversions and text | - |

What is hard: the statement cache (three kinds of waiting at once: an RWMutex,
a channel, a pool of connections; expiry; failures), the schema cache
(goroutines that publish unfinished objects to each other and wait for each
other), nested transactions with errors that stay in handles, the recursion of
Create through pointers that may form circles, and everything that is several
statements against a database that others write to.

What makes each component correct:

- **LRU**: its three views agree, it evicts what was used longest ago and only
  as much as it must, it sweeps what has expired and nothing else.
- **Prepared statements**: nobody is handed a statement that is not ready or
  not its own to use; what is cached is open; what is open is cached or on its
  way out; everybody gets on.
- **Schema cache**: one Schema per type; whoever gets one gets it complete;
  failures leave no trace in the cache; everybody gets on.
- **Transactions**: blocks are atomic, nested ones too; what is begun is ended.
- **FindInBatches**: every row once, none too many.
- **Create**: every record once, under its own key, in an order that keeps
  the references; all of it or nothing.
- **Callback registry**: the order respects every Before and After, and
  impossible requests are reported.
- **Handles, generics**: what is sent is what was asked for on the way to the
  handle; chains that start at one handle do not see each other.
- **Association mode**: what is stored and what is in memory agree at the end;
  an owner is never left bare in between; other owners lose nothing.
- **Preload**: it hands out what was there, and all of it.
- **Save, FirstOrCreate, CreateInBatches**: nil means that it was done; a
  batch is seen whole or not at all.
- **Migrator**: nil means that the tables are as the models say; a migration
  that stopped in the middle, or met another one, is taken up again.

## 2. The modules

| module | models |
|---|---|
| `ExpiringCache` | what an LRU with expiry promises: a map of bounded size from which entries leave by being dropped, displaced or aged, each handed to the callback |
| `LRU` | `internal/lru/lru.go`, one action per method, the sweeper in four |
| `MCLRU`, `LRUProofs` | instance; proofs |
| `PreparedStmt` | `prepare_stmt.go` and `stmt_store.go`, one action per step between two points where a goroutine can be held up |
| `MCPreparedStmt`, `PreparedStmtProofs` | instances; proofs |
| `SchemaCache`, `MCSchemaCache`, `SchemaCacheProofs` | `ParseWithSpecialTableName`, `getOrParse`, `parseRelation`; instances; proofs |
| `AtomicBlocks` | what nested transaction blocks promise |
| `Transaction` | `DB.Transaction` and the methods under it; the transaction of the database |
| `MCTransaction`, `TransactionProofs` | instances; proofs |
| `FindInBatches` | the loop and the table it reads |
| `Finishers`, `MCFinishers`, `FinishersProofs` | extends it with Save, FirstOrCreate and CreateInBatches, statement by statement; instance and proofs of all four |
| `Associations`, `MCAssociations`, `AssociationsProofs` | association mode, Set of the generics API with associations, Preload; instances; proofs |
| `Chains` | handles, Statements and their slices as a heap; chain methods, scopes, soft delete, Find and Count |
| `GenericOps` | `G[T]` values: their slices of operations, and what G, the chain methods and Raw do to the arrays behind them |
| `Generics`, `MCGenerics` | puts both together: calls that make a `G[T]`, and those that run its operations on a DB; instances. The proofs about `GenericOps` are in `AssociationsProofs` |
| `Migrator`, `MigratorProofs` | AutoMigrate of several programs on one database; proofs |
| `ReorderModels`, `MCMigrator` | the order of the tables, computed from the relations; instances |
| `SaveGraph`, `MCSaveGraph`, `SaveGraphProofs` | the create callbacks over graphs of records; instances; proofs |
| `CallbackOrder`, `MCCallbackOrder` | `callbacks.go`: Register, Replace, Remove and the sort of a processor's callbacks; instances; the proofs are in `FinishersProofs` |

**LRU.** `items` is the map, `evictList` the list (front first),
`bucketEntries`/`newestEntry` the buckets, `nextCleanupBucket` the counter,
`now` the clock. Each method holds the mutex throughout, so each is one action;
the sweeper releases it to sleep, so it is `SweepStart`, `SweepWake`,
`SweepRemove` (a turn of the loop) and `SweepDone`. `usedAt` is a history
variable for the property of recency. The bucket arithmetic keeps its uint8, which the code's 100
buckets never fill.

**PreparedStmt.** `pc` says where each goroutine is; the RWMutex is `readers`,
`writer` and the queue of a waiting writer (`Lock`, then `Drain`), as in
`sync.RWMutex`. `store` abstracts the LRU to a map with eviction, expiry
(`Expire` makes an entry miss, `Sweep` removes it) and `closing`, the closes
that run in goroutines of their own. `displaced` is a history variable: what New
has filed another statement over after it had expired. The pool is a number of
connections, one of which a transaction keeps. `Exec` returns, and `ExecBadConn` + `Forget` are
the path on which a statement is deleted.

**SchemaCache.** `cache` is the `sync.Map`, `schemas` the Schemas in the order
of their storing, `stack` the calls of Parse that each goroutine is in. A
relation is of one of four kinds: `has` takes two Muxes and registers itself in
the other Schema, `belongs` takes its own, `other` none, `invalid` fails.

**Transaction.** `frames` are the blocks, each with the `Error` of its handle
and its savepoint; `conn`, `work`, `marks` are the database's transaction. The
application is free: it writes, sets savepoints of its own and goes back to
them, fails, panics, or ignores the error of a nested block. A block under
`DisableNestedTransaction` is part of the block around it, except that its
handle keeps its errors to itself (`HandleFails`). A handle may have an `Error`
before the call: then the outermost block begins a transaction and returns the
error without a Rollback (`BeginErring`, and `erring` until that transaction is
gone), and a nested one returns it at once (`NestedFails`). The refinement
shows what each block sees (`Views`) and the answer of the last.

**FindInBatches.** `Query` and `Call` are the two halves of the loop; others
insert and remove rows at any time between them. The query behind the first is
`First`, that of a later batch `Selected`: the condition on the primary key is
one more member of the list of WHERE, where AND binds before OR, so it binds to
the last alternative only. `loose` are the rows that another alternative may
match, and `orOnly` says that the query has nothing but an Or, of which the
condition on the key then is the alternative. `stable` and `skipped` are history
variables: the rows that were there all the time, and those the offset has left
out.

**Finishers.** A program calls one finisher; `call.at` names its next
statement: `update` and `upsert` of Save, `find`, `create` and `assign` of
FirstOrCreate, `batch` of CreateInBatches. Others change the table between any
two. `rows` maps keys to rows, `pending` is what the transaction of
CreateInBatches has inserted, `db` says what kind of table and database it is
(a unique name, soft delete, an UPDATE that counts the rows it changed rather
than those it found, as MySQL does, SkipDefaultTransaction). `held` is a
history variable: each row that others could see since the call. In `FSpec` the
batches of FindInBatches are one more finisher, with variables of their own.

**Associations.** A program has a struct of each owner; `mem` is what its
relation field holds, `fk` the foreign key in it. A call is a list of
statements (`Plan`), made when it begins as the code makes it from the kind of
the relation and the options; each is one step, with what it leaves in memory.
`links` are foreign keys or join rows, by the kind of relation. `before`,
`alone`, `true`, `ever` and `always` of a call are history, for the properties.

**Chains.** The memory is a heap as in the program: `arrays`, `stmts` and
`dbs`; a slice is an array and a length, and `Extend` is Go's append, in place
when there is room. Which slices a clone copies and which it shares is what the
code does (`Joins` and scopes are copied, the expressions of WHERE are not), as
is what is done in place: the exchange of `Where.Build`, the group that
`BuildCondition` makes of a single alternative. Beside the heap `asked` keeps,
for each handle, what it has been asked for as a value. A query is compared by
what it means: the rows (over all assignments of truth to the conditions, with
AND before OR), the joins (names of associations are numbers, for their order),
columns, order and pool. What `Count` puts back is put back as the deferred
functions do it (`Restored`): by the Statement of the DB it was called on, in
the one that `Execute` returned or in that of the instance. `Liberties` are things that
callers may do and that the package does not keep up with (section 3).

**GenericOps, Generics.** A `G[T]` is a DB and a slice of operations. A chain
method (`With`) copies the list, `Raw` appends in place to the array with room for
five (two in the instance). `gAsked` is a history variable. `Finish` is apply (a session with a context, an
instance of it, the operations) and the query. Two operations are not those of
the chains (`GApply`): `Joins` sorts the list by name each time, and `Scopes`
runs its functions at once, on the Statement, and drops what they return.

**Migrator.** `db` maps tables to their columns with types and their objects
(foreign keys, unique constraints, checks, indexes). Each question to the
database and each statement is a step; `proc[m].at` says which is next. A
statement is executed, refused, or fails before or after the database has
executed it; a question that fails counts as "no" where the code takes it so.
A program may die and start anew, with nothing parsed. `todo` is the set of the
statements decided on for the table at hand: the columns may be changed in any
order, except that a column gets its type before its unique constraint, and
what only asks (foreign keys, then checks, then indexes) goes by `Rank`. The
order of the tables is the constant operator `Orders`, and `Knowns` are the sets
of models that may have been parsed; `ReorderModels` defines the order as the
code does, with every order in which the map of relations may be looped over.

**SaveGraph.** `stack` is the recursion of `Create`: each frame has the records,
the ON CONFLICT and the callback it has come to. A record has a manager
(belongs to), a team (has many) and friends (many to many); `pk` and `fk` are
the fields in memory, `rows` and `joins` the tables.

**CallbackOrder.** `callbacks` is the processor's list as it stands in memory,
with the `before` and `after` that sorts have written into it; `stack` is the
recursion of `sortCallback`, a step for what it does about Before and one for
After; `fns` is the result. `asked` is a history variable: what the application
has asked for under each name. `Match` is left out: its result does not change,
and a callback that does not match is never in the list.

### The environment

Databases, drivers and `database/sql` are not part of the repository; what the
models have of them is marked external in the map: a pool that blocks when it
is empty, statements that fail at any time, savepoints by name, keys in order,
a transaction that ends with its context.

## 3. The runs

Each finishes in about two minutes or less with two workers.

| run | checks | bounds |
|---|---|---|
| `lru` | types, the views agree, only expired entries are swept and all of them, refinement of ExpiringCache (which has the capacity and the order of eviction) | 3 keys, sizes unlimited and 2, 2 buckets, lifetime 1, 3 ticks: every entry can expire, be added again over its expired self, and be swept; an eviction has a choice of entries |
| `stmt_cache` | what is cached is open, no leak, no deadlock | 3 goroutines (one with transactions), 2 statements that may expire, a cache of 1 so that every new statement evicts, 2 connections, 4 calls, 3 statements prepared (so that one may evict another and be evicted or filed over itself) |
| `stmt_expiry` | what prepare returns is ready, every call returns | the same with 1 statement and contexts that may end, 3 calls |
| `stmt_one_connection` | *violated:* no deadlock | the same with 1 connection |
| `schema_parse` | one Schema per type, complete, failures leave nothing, every Parse returns | 2 goroutines, 4 types: a good circle, and a circle that fails and leads to it; one type also under a special table; 3 calls; 10 Schemas stored, more than it needs |
| `generics` | every query sends what was asked for; shared handles and `G[T]` values stand for the same thing for ever | 3 calls in any order on any handle, from `gorm.Open` and from a session that has nothing, alternatives, or lists with room to spare; 2 conditions, 3 scopes (a condition, another scope, a session), up to 3 `G[T]` values; with and without soft delete |
| `callbacks` | the latest handler of each name runs, once; an order that suits all wishes if there is one | 2 callbacks of GORM's and 3 of the application's, which may each be registered once, removed, or After one another; 4 calls |
| `tx` | every transaction ended but those begun on a handle that has an error, an error means that nothing was committed, refinement of AtomicBlocks | 3 blocks deep, 2 writes, 4 savepoints, 2 outermost blocks, on a database where a failed statement blocks the transaction |
| `save_graph` | own keys, references in order, complete, no collision, all or nothing | every graph of up to 3 relations among 3 records, batches of 1 and 2, a record that is in the database already; every statement and hook may fail, hooks may panic |
| `finishers` | FindInBatches: the limit, all found, and without alternatives no row twice and an end; the others: nil means done at some moment, a batch is seen whole or not at all | 5 keys (one of them 0), limits none and 1 to 4, offset 0 and 1, sizes 1 to 3, no alternatives or one that two of the rows match; otherwise a table of at most one row at first, 2 names, 2 data, 2 changes by others (so that a row can come and go, or go and come back, within a call), 3 values in batches of 1 and 2 |
| `associations` | nil means linked as asked, in memory too; no owner bare in between; Preload hands out what was linked; owners a call is not about lose nothing | 2 programs, 2 owners, 2 records, 2 calls, one statement that fails; all links at first, each kind of relation, calls on one owner and on both |
| `migrate` | nil means migrated; a program alone gets no error; in the end every table is migrated | 2 programs, 2 faults (a statement or question that fails, a program that dies), 5 tables with a relation of each kind, on an empty database or one of an earlier version; with and without foreign keys, with indexes in CREATE TABLE and after it |

Deadlock checking is off where a run has a bounded number of calls: the system
stops when they are spent. That nobody is stuck before is a property of its own
where there is anything to wait for (`NoDeadlock`, `EveryCallReturns`,
`EveryParseReturns`, `Ends`).

**Fairness.** A goroutine that can go on does (Go's scheduler), so each
goroutine's steps are weakly fair (`stmt_expiry`, `schema_parse`); an idle
transaction is ended (otherwise the pool would be empty for ever). The sweeper
has a ticker that is never stopped, and time passes (`lru`). The loop of
FindInBatches is sequential code against a database that answers (`finishers`).
A program that migrates goes on, and calls AutoMigrate when it starts and again
after an error or a restart (`migrate`): this is the deployment that starts it, not the package,
and without it a failed migration stays failed. Nothing else is assumed of
callers: they need not call, and a program whose migration returned nil need not
call again (`GoesOn`). The faults of `migrate` are two in all, so there is
a time after which there are none.

### What the violated run shows

`stmt_one_connection`: `prepare` has found an unprepared statement and waits for
its `prepared` with the read lock in its hand (`prepare_stmt.go:69`); the
goroutine that prepares it waits for the connection; the transaction that has
the connection has missed its own statement and waits, for the write lock
(line 77), until the reader leaves. With the retry under the write lock (line 79)
in place of the first lookup it is the same circle. `NoDeadlock` is proved for pools
with more connections than transactions.

### Further instances

These are not among the runs; each checks one property and TLC finds it
violated (`tlc -config X.cfg M`).

| instance | property | what it shows |
|---|---|---|
| `MCSchemaCacheMutual.cfg` of `MCSchemaCache` | `NoDeadlock` | two models that have each other: `guessRelation` takes the two Muxes in the order in which it comes to the Schemas |
| `MCPreparedStmtDisplaced.cfg` of `MCPreparedStmt` | `NothingForgotten` | a statement that has expired and not been swept is prepared again: `Add` puts the new one in its place without the callback, and nobody closes the old one |
| `MCTransactionErring.cfg` of `MCTransaction` | `EndedInAnyCase` | `Transaction` on a handle that has an `Error` begins a transaction, returns the error, and leaves transaction and connection open |
| `MCTransactionSticky.cfg` of `MCTransaction` | `ErrorMeansRolledBack` | the error of a failed `SavePoint` stays in the handle; the outermost block commits and returns that error |
| `MCSaveGraphShared.cfg` of `MCSaveGraph` | `KeysRight` | a record without a key that two of a batch point to is inserted twice, and the keys are handed out as if it had not been |
| `MCGenericsAfterRun.cfg` of `MCGenerics` | `DeletedHidden` | an alternative that comes after a query has run on the chain reaches deleted rows |
| `MCGenericsAfterCount.cfg` of `MCGenerics` | `SentAsAsked` | Count of a chain whose scopes make a session and then a condition: the DB that comes back keeps `count(*)`, and its next Find sends it |
| `MCFinishersAlternatives.cfg` of `MCFinishers`, one invariant at a time | `EachOnce` | `Where(a).Or(b)`: rows of `a` are in every batch |
| the same | `NoMoreThanRows` | the same query with a whole batch of rows of `a`: it is read again and again |
| the same | `OnlyMatched` | `Or(a)` alone: from the second batch on, rows come that `a` does not match |
| `MCAssociationsUnlink.cfg` of `MCAssociations` | `OthersUntouched` | `Set(Unlink)` on a many-to-many takes the join rows of every owner |
| `MCCallbackOrderReplace.cfg` of `MCCallbackOrder` | `LatestRunsOnce` | a callback registered Before all and then replaced: the replacement has no star of its own, the sort moves it in front of what it replaces, `getRIndex` finds the old one as the last of its name, and the old handler goes on running (without a star the new one runs, as `tests/callbacks_test.go:97` has it) |
| `MCMigratorAnyOrder.cfg` of `MCMigrator` | `AloneSucceeds` | with the owned model given first to a new process AutoMigrate is refused |

### Where the runs keep to less than callers may do

The properties hold for the instances above; these are the cases outside of
them that were met while modelling.

**Callbacks.** Not every order that an application may ask for is found. `b`
Before `c`, then `c` Before `gorm:begin_transaction`: the first wish has become
an After of `c`, `c` is placed by its own Before, and the call fails as
conflicting, although `b`, `c`, `gorm:begin_transaction` would do. The
processor then has no callbacks at all, and a Create does nothing. `c` Before
`x`, `x` After `y`, `y`: the wish of `c` overwrites the After of `x`, which runs
before `y` without an error. Two callbacks After each other make `sortCallback`
recurse for ever. `callbacks` keeps to requests without these: Before names
GORM's own only, After makes no circle, what is replaced is GORM's own, and no
name is used again. `LatestRunsOnce` needs no more of them than that a name with
a star is given to one callback only (`StarsAreKept`, section 4). With Before and
After together, both about GORM's own (`PlainWishes`), `OrderAsAsked` holds as
well: `MCCallbackOrderPlain.cfg` of `MCCallbackOrder`, which TLC finishes without an error.

**FindInBatches, schemas, statements.** With an order of the application's own
FindInBatches misses rows, and `Limit(0).FindInBatches` has no limit. The
condition behind which the next batch starts is added without a group
(`finisher_api.go:251`, `clause/where.go:30-45, 92-101`): `Where(a).Or(b)` asks
for `a OR b AND id > last`, so that rows of `a` come again, and a whole batch of
them for ever. `NoneTwice` and `Ends` are about queries without such rows
(`loose`), `EachOnce` and `NoMoreThanRows` are not and are false. `Or(a)` alone
becomes `id > last OR a` and reads what was not asked for, unless soft delete has
made a group of it; `AllFound` holds all the same, as it is about the rows that
the query asks for (`Matched`). A Schema
that fails under a special table name stays in the cache. `Add` over an entry
that has expired but was not swept never closes the statement in it
(`lru.go:124`); without a PrepareStmtTTL entries live for a day, so this can
happen to everybody. `NoLeak` exempts these statements (`displaced`) and no
others; `NothingForgotten`, which does not, is false.

**Transactions.** `Transaction` on a handle that has an `Error` already
(`db.AddError`, or the DB that a failed call returned) begins a transaction, as
`BeginTx` looks at the error of its own call only (`finisher_api.go:701`), and
returns at line 657 because of the other: no Rollback, and the connection stays
out of the pool until the context ends. `AlwaysEnded` exempts this transaction;
`EndedInAnyCase` does not and is false.

**Chains (`Liberties`).** With `Liberties` empty callers keep to five rules,
and to one of the generics API; each can be given up, and then TLC finds what
it was for.
- `begin_with_or`: with soft delete `soft_delete.go:80` makes a group of the
  conditions without the exchange that `Where.Build` (`clause/where.go:30`)
  makes when the first is an alternative: `Or(a).Where(b)` then means something
  else on a model with DeletedAt than on one without.
- `add_after_run`: a chain that has run keeps `soft_delete_enabled`
  (`soft_delete.go:77`), so a later `Or` stands beside the filter instead of in
  the group: `Count().Or(x)`, as in `tests/count_test.go:66`, reaches deleted
  rows. A chain that has run keeps its SELECT too.
- `share_a_group`: `BuildCondition` with a DB (`statement.go:345`) drops what
  its scopes return, takes over the array of its conditions and writes a group
  into it, which a session made of it sees.
- `go_on_after_handing_out`: a chain made into a session shares its Statement
  with it.
- `go_on_after_count`: Count leaves its traces in two cases. When the chain has
  scopes of which one returns a session and a later one starts a clone from it,
  `delete(tx.Statement.Clauses, "SELECT")` (`finisher_api.go:468`) was given the
  map of the instance, and the clone that comes back keeps `count(*)`. And on a
  NewDB session over the Statement of a chain with SELECT or ORDER BY, lines 463
  and 497 look at `db.Statement`, and the clauses of that chain are put into the
  DB that comes back.
- `raw_twice`: two calls of `Raw` on one `G[T]` write to the same place, and
  the first sends the SQL of the second (`generics.go:188`).

In the generics API, `Or` and `Not` of the builders given to Joins and Preload
call Where.

**Finishers.** `Where(cond).Save(&v)`: the UPDATE matches nothing when cond
does not hold, and the INSERT ... ON CONFLICT that follows overwrites the row
all the same; it also brings back a softly deleted row. FirstOrCreate with
Assign returns nil when the row has gone in between (nobody looks at
RowsAffected), which is why `LeftAsAsked` speaks of some moment since the call.
Without a unique index two callers make two rows; with one, a softly deleted
row of that name makes FirstOrCreate fail for ever. After CreateInBatches has
rolled back, the values keep their keys and RowsAffected stays above zero.

**Associations.** The properties leave out: values that are given to two owners
of a call, or are another one's before (`Apart`): a Replace on several owners of
a many-to-many keeps a link whose value goes to another of them; memory that
did not agree with the tables when the call came (`true`): Append saves all
that the field holds, and brings stale records back or moves them; a Delete
with Unscoped on a belongs-to whose UPDATE failed, since the error of the
DELETE overwrites it (`Forgiven`). What the records of a belongs-to themselves
become is not stated: with Unscoped, Delete removes what the owner in memory
belongs to, whatever values it was given (`association.go:239`), Replace with
the same parent deletes it, and Clear always errs. Set(Unlink) on a belongs-to
ignores its conditions, and on a many-to-many it asks for the owners in a new
session without the conditions of the chain (`generics.go:864`), so that even
where no owner matches the join rows go
(`tests/association_generics_test.go:572`, "No owner matched; should be no-op",
has this case for the creating operation only); the run leaves the two
operations on a many-to-many out.
Two Replaces at the same time can take each other's values away (the properties
about results are of calls that were alone).

**Migrator.** `AutoMigrate(&Pet{}, &User{})` in a new process parses pets
before users, whose has-relation brings the foreign key: the order has pets
first, and the key of pets refers to a table that is not there. The call is
refused again and again until the order of the arguments or what has been
parsed changes (`schema/relationship.go:102`; the tests shuffle the models, but
have parsed all of them before). The programs of the run give owners first.
AddColumn leaves out the unique constraint, which only the next AutoMigrate
adds: `NilMeansMigrated` and `EveryTableMigrated` exempt the columns that the
last call has added, for nothing makes a program call again after nil. Foreign keys in a circle are refused in any
order.

## 4. The proofs

Eight modules hold theorems. TLAPS checks them for every value of the constants
that satisfies the named assumptions: any number of goroutines, programs,
owners, rows, batches, records and pointers between them, tables and faults, where a run has two or three. Each
inductive invariant was checked by TLC on the instance of the run before it was
proved.

| module | proved | on condition that |
|---|---|---|
| `LRUProofs` | types, `ViewsAgree`, recency, capacity, `SweepOnlyExpired`, `ImplementsCache` | 2 to 128 buckets |
| `PreparedStmtProofs` | types, `ReturnedIsReady`, `CachedIsOpen`, `NoLeak`, the use of ExpiringCache, the bound on the store | |
| | `NoDeadlock` | fewer goroutines with transactions than connections |
| `TransactionProofs` | types, `AlwaysEnded`, the nesting of savepoints | |
| | `ErrorMeansRolledBack`, `ImplementsAtomicBlocks` | savepoints cannot fail |
| `SchemaCacheProofs` | types, `ReturnedIsComplete` | |
| | `OneSchema`, `FailedIsNotCached` | types under a special table name can be parsed |
| `FinishersProofs` | `LeftAsAsked`, `WholeBatches` | |
| | `AllFound` | the order does not contradict the primary key |
| | `NoneTwice` | the same; it says nothing of queries with alternatives beside the condition on the key |
| | `LimitKept` | no limit of 0 |
| | `LatestRunsOnce` | no other callback is given the name of one with a star (`StarsAreKept`) |
| | `OrderAsAsked` | Before and After name GORM's own callbacks or one of them has a star, no name is registered twice, what is replaced has no star, and none of GORM's own is replaced and removed (`PlainWishes`) |
| `AssociationsProofs` | `DoneAsAsked`, `NeverBare`, `PreloadAgrees` | |
| | `OthersUntouched` | no Set(Unlink) or Set(Delete) on a many-to-many |
| | `GenericIsFrozen` of `GenericOps` | Raw is called once on a `G[T]` |
| `MigratorProofs` | `NilMeansMigrated` | |
| | `AloneSucceeds` | each table comes after those its foreign keys refer to |
| `SaveGraphProofs` | types and the depth of the recursion, `AllOrNothing`, `Integrity` | |
| | `NoCollision` | what is given to Create is not in the database (`RootsAreNew`) |
| | `KeysRight`, `Complete` | no two records point to the same new one, and none does so twice (`NewAreUnshared`) |

The conditions are not conveniences: without each of them the property is false
of the code. Section 3 says how (the pool that is used up, the failed `SavePoint`, the failed Schema of a special name, an order of
the application's own, alternatives beside the condition on the key, `Limit(0)`, the Replace of `MCCallbackOrderReplace.cfg`,
`Set(Unlink)`, the second `Raw` on a `G[T]`, the pets before their users, the duplicate key that a Create of
what is there must get, the shared record of `MCSaveGraphShared.cfg`), and the
runs keep to the same conditions. One is narrower than it need be: `PlainWishes`
has no wish about the application's own callbacks. Before among them does break
`OrderAsAsked`; After, without a circle, does not in `callbacks`, where it is only
model-checked.

- **LRU**. The inductive invariant adds to the properties that `newestEntry` of a
  bucket is no earlier than the expiry of what it holds, except for the one
  bucket that a waking sweeper is at, whose entries expire by `wakeAt`: this is
  what makes it safe that `newestEntry` is not read again after the sleep. It
  is about 2 to 128 buckets, as the bucket after one is computed in a uint8
  (`lru.go:343`); the code has 100, so the wrap is nothing that can happen to it.
- **PreparedStmt**. The invariant says who holds the RWMutex at each point, that
  every Stmt not yet `prepared` has one goroutine on its way to closing the
  channel, and that this goroutine holds no lock; a wait for `prepared` or the
  lock then leads to a wait for the pool, which has a connection to give.
  `NoLeak` needs more (`LInv`): a statement that is new or open is filed in the
  store, in the hands of a closer, or was filed over after it had expired; a
  goroutine with the write lock finds what it looked up still filed until it
  unlocks, so what it files over is a transaction's or has expired; and a Stmt
  of a transaction is open only as long as the transaction is.
  `UsesTheCache` is the other half of `ImplementsCache` of `LRUProofs`: each step
  of a goroutine puts one statement into the cache, takes some out, lets them
  grow old or leaves it alone, which is all that `ExpiringCache` has. The bound
  on the store (`StoreIsBounded`) needs only this and that the keys are
  finite in number at every moment (`Fits`).
- **Transaction**. The savepoint of each block lies above that of the block
  around it, with names that only go up, so a rollback to one never removes
  another that is still needed. `EndInv`: while blocks run their transaction is
  there, and when none runs there is no transaction but one that was begun on a
  handle with an error (`erring`), in which no block runs.
- **SchemaCache**. `IInv` ties each Schema that is not initialized to the one
  call that parses it (`OwnerInv`), and the number of its relations to how far
  that call has come (`FrameInv`), so it is complete when its channel is closed.
  For one Schema per key, `KeyInv(S)` follows a failure through the recursion:
  each call is for the type its caller's relation leads to (`LinkInv`), so only
  types outside of S, a set of types that is closed under relations and has no
  invalid one, ever fail. S holds the types that are parsed under a special
  table name (`CanBeParsed`): a Schema that fails takes its *type* out of the
  map, and that of a special name would stay.
- **FindInBatches**. What has been found lies at or below `after`, and what is
  wanted (there all the time, not left out by the offset) and lies at or below
  it has been found (`BehindInv`, `FoundInv`); without alternatives a batch has
  only rows above `after`, which is `NoneTwice`; for the limit, either every batch
  so far was whole and there is room for another, or this is the last one, which
  takes exactly the rest (`LimitInv`). The theorems are about FindInBatches on
  its own (`Spec`) and as one of the finishers (`FSpec`).
- **Finishers**. `CallInv` says what each statement may rely on: which rows others
  have seen (`held`), that an UPDATE or INSERT meets what the look before it has
  found unless others came in between, and for CreateInBatches that what is
  pending or stored are the first whole batches, under the keys given to the
  values, and nobody has taken them away without leaving a trace in `others`.
- **Callbacks**. `LatestRunsOnce` is about any list of callbacks and any wishes,
  those that are refused and those that make `sortCallback` go round included.
  `ListInv`: the list has the callbacks of the registered names and no others,
  and the last of each name is the one that was asked for last. The sort keeps
  this because a new callback is inserted behind all others but those with a
  star, of which none has its name (`StarsLastIs`, `Alone`). `SortInv` follows
  the recursion by its stack: a name is put in order once, and a callback that
  the loop has come to is in order or on the stack; when the stack is empty and
  the loop is through, every registered name has been put in order.
  `OrderAsAsked` needs to know what the positions of the list and of the result
  are (`PlainInv`). In the list (`Ranked`) GORM's own callbacks come first, in the
  order of their registration, those with a star last, and only the first
  callback of a name has wishes.
  During a sort (`PlainSort`), the recursion is no deeper than one callback: a
  wish is about something that is in order already, or about a star, so none
  is ever written into another callback. `Obeys` says that what is in order
  has all the wishes about what is in order, and a callback is put in behind
  it, before what its Before names, or in front of all (`FitsBehind`,
  `FitsBefore`, `FitsInFront`); when the call fails because one is to run before
  what it is to run after, so does every order (`NoConflict`).
- **Associations**. `ShapeInv` ties the statements that are left to the operation,
  the kind of relation and each other. For a call that is alone, `WorksInv`
  says of each owner which of the two sides of the property it is on: all the
  old links are there until the statement that takes them away, which comes
  after every new one. For Preload (`ReadsInv`), what it has read lies between
  what was linked at some moment and what was linked all the time.
- **GenericOps**. `SoleHolders`: the array of a new `G[T]` on which Raw may still be
  called is held by nobody else, so that its append in place writes where
  nobody looks; a chain method brings an array of its own. `StandForAsked`: each
  slice has what was asked for. The theorems are about `GensNext`, which is
  `G`, `With` and `Raw` for operations of any kind; each step of `GNext` in
  `Generics` is one of these (`NewG`, `NewChain`, `NewRaw`) or leaves `gvars` alone.
- **Migrator**. `StandInv`: what a table still lacks is in `todo` or in `rest`, and
  every table the call is done with is as its model says. This is kept by the
  statements of *other* programs too, because a statement that is decided on
  only ever brings a table nearer to its model (`Forward`), which all programs
  share: a new column has its type, an object that is added is wanted or is a
  wanted unique constraint, and what is dropped is a unique constraint that is
  not wanted (`Keeps`, `StatementKeeps`). A question that failed and
  counted as "no" leads to a statement that is refused, never to a claim. For
  `AloneSucceeds`, `SoleInv` adds that the statements decided on can still be
  executed, one not getting in another's way (`PossibleKept`), and that the
  tables a foreign key refers to have been taken before (`TargetsThere`).
  `ParentsFirst` is what it asks of `Orders`; it holds of `ReorderModels` for
  the models and calls of `migrate`, and does not for those of
  `MCMigratorAnyOrder.cfg`.
- **SaveGraph**. `StackInv`: the first Create lies at the bottom with the roots,
  those above it have an ON CONFLICT, and after an error the stack is the first
  one's end. `DepthInv` counts: a nested Create has visited a record that was not
  visited before, so there are no more of them than records, and the recursion
  over a circle stops. `AllOrNothing` and the fact that each key in memory is
  that of a row (`RefersInv`) are inductive with these.
  `Integrity` needs to know that a Create past its INSERT has given its values
  keys (`Given`), and that the keys its friends lack are those the nested Create
  above it is about to give (`Befriended`): the join rows come after that.
  `NoCollision` follows from `CollisionInv`: until the roots are inserted,
  nothing is saved but what their managers lead to.
  `KeysInv` makes records with keys and rows one to one, and the values of
  each Create different ones. With it, a record that `distinctElems` leaves out
  is the very record it keeps, so all that a phase is to save has been visited
  after it (`SavingVisits`). `CompleteInv` then says what has been saved around
  the values of each running Create, by its phase, and that what has been
  visited is either among these values or finished; at the end the set of the
  visited is closed under the pointers, which is why it has all that the roots
  lead to.
  What the loops over elements return (`Pick`, flattening, distinct elements,
  the places of keys) is proved by induction on the length. The library's
  induction theorems take an operator, so `Induct` states the principle of a set
  of numbers, and gets it from the pigeonhole principle: were a number missing,
  the successor would map a finite set one to one to itself, but not onto it.

The proofs also have properties that no run lists, as what is checked there
implies or outweighs them: recency (`RecencyOrder`),
capacity (`WithinCapacity`), the nesting of savepoints (`SavePointsNested`) and
the types of `PreparedStmt`, `Transaction` and `SchemaCache` (`TypeOK`), and the
use of the cache and the bound on the store (`UsesTheCache`, `StoreIsBounded`),
and that a `G[T]` has the operations that were asked for (`GensHaveAsked`).

The assumptions on constants are in the modules that declare them, and TLC
evaluates them in the runs: sets of processes are finite, bounds are natural
numbers, `Migrator` is given orders that are lists of its tables
(`OrdersAssumption`) and sets of parsed models that hold none and all of them
(`KnownsAssumption`), `Associations` calls that its kinds of relation have.

Only model-checked:
- the liveness properties (`ExpiredAreSwept`, `EveryCallReturns`,
  `EveryParseReturns`, `Ends`, `EveryTableMigrated`), out of the prover's reach;
- `Chains`, what `Generics` adds to it, and `ReorderModels`, which have RECURSIVE
  operators (trees of conditions, scopes that add scopes, dependencies): that
  what is sent is what was asked for (`SentAsAsked`), that a shared handle stands
  for the same query for ever (`SharedIsFrozen`), and that the orders of
  `ReorderModels` satisfy `ParentsFirst`;
- `OrderAsAsked` of `CallbackOrder` with wishes After the application's own
  callbacks: the sort then puts others in order on the way, as deep as the
  wishes lead.

## 5. The plan

The modules of the core, then those of what is built on it, are written and most
are proved: the statement and schema caches, transactions, the finishers,
associations and Preload, the migrator, Create over graphs of records. What is
left:

1. `OrderAsAsked` for After among the application's own callbacks, without a
   circle: the stack is then a path of such wishes.
2. `Chains` without its RECURSIVE operators, with the trees of conditions as
   paths to their leaves, so that `SharedIsFrozen` can be proved from who holds
   which array.

## 6. Not modelled

The text of SQL, reflection on fields and values, naming, serializers, the
logger, scanning and the dialects: they are conversions, with no state that
lasts from one call to the next, and tests reach them well. The update and
delete callbacks: their frame is that of `SaveGraph`.

- `SaveGraph`: SkipDefaultTransaction (without the default transaction what is
  written before an error stays, so `AllOrNothing` is about the default), Select
  and Omit, FullSaveAssociations, RETURNING, composite keys,
  CreateBatchSize.
- `PreparedStmt`: the check-then-act on the statement store in `Session`
  (`gorm.go:303`: of two sessions that switch PrepareStmt on at the same time
  each may make a store) and the re-preparing inside transactions
  (`Tx.StmtContext`).
- `SchemaCache`: which columns a relation uses, and their types, which are
  copied as they are at that moment; the readers of `Relations` that take no
  lock (`schema/relationship.go:104`), a data race.
- `Chains`: DryRun (a `G[T]` then runs its operations on its own DB), Not, Having, Group, Distinct, Table, Attrs, Assign, Set, the options of
  Session but NewDB and Context, Row and Rows.
- `Associations`: polymorphic relations, maps and values that are not records,
  a has-one apart from the has-many, the assignments that Set makes beside its
  operations, OpUpdate (which has the condition on the owners of Set(Unlink)),
  nested preloads.
- `Finishers`: Save with Select or DryRun (an UPDATE that matches no row then
  returns nil and nothing is inserted, `finisher_api.go:109, 119`; `LeftAsAsked`
  is about Save without them), Save of a slice (one statement), FirstOrInit (which writes
  nothing), negative batch sizes (which panic), hooks.
- `Migrator`: DropTable, CreateTable and renaming when called directly, views,
  data types themselves (a type stands for all that MigrateColumn compares), the
  join tables of a model that is only depended on (the code appends them to a
  copy of its dependencies that is thrown away, and `ReorderModels` does as it
  does).
