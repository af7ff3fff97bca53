---------------------------- MODULE PreparedStmt ----------------------------
(***************************************************************************)
(* The prepared statement cache (prepare_stmt.go and internal/stmt_store)  *)
(* shared by the goroutines of one gorm.DB, over the pool of connections   *)
(* of database/sql.                                                        *)
(*                                                                         *)
(* A goroutine that runs a statement looks it up under the read lock of    *)
(* PreparedStmtDB.Mux, again under the write lock when that fails, and     *)
(* then files an unprepared Stmt, gives the lock up and prepares it.  A    *)
(* lookup that finds an unprepared Stmt waits for it with the lock in its  *)
(* hand.  What leaves the cache is closed by a goroutine of its own.       *)
(*                                                                         *)
(* The cache is the one ExpiringCache promises (LRU.tla shows that         *)
(* internal/lru keeps the promise); its values are the Stmts, numbered in  *)
(* the order of their creation.                                            *)
(***************************************************************************)
EXTENDS Integers, FiniteSets, Sequences

CONSTANTS
    Procs,          \* the goroutines
    TxProcs,        \* those that also run transactions
    Closers,        \* those that also call PreparedStmtDB.Close
    TxQueries,      \* the statements run inside transactions ...
    PlainQueries,   \* ... and outside
    Capacity,       \* PrepareStmtMaxSize
    MaxConns,       \* SetMaxOpenConns
    MayExpire,      \* may PrepareStmtTTL elapse?
    CtxMayExpire,   \* may a context end while it waits for a connection?
    MaxCalls,       \* bound on the calls made
    MaxStmts,       \* bound on the Stmts created
    None            \* no goroutine, no query

Queries == TxQueries \cup PlainQueries

ASSUME ProcsAssumption ==
    IsFiniteSet(Procs) /\ TxProcs \cup Closers \subseteq Procs /\ None \notin Procs \cup Queries
ASSUME BoundsAssumption ==
    /\ Capacity \in Nat /\ MaxConns \in Nat /\ MaxCalls \in Nat /\ MaxStmts \in Nat
    /\ MayExpire \in BOOLEAN /\ CtxMayExpire \in BOOLEAN

VARIABLES
    store, evicted, \* the cache, by query, and what its last change evicted
    displaced,      \* history: the Stmts that New filed another over once they had expired
    stmts,          \* every Stmt ever created
    closing,        \* the Stmts with a `go v.Close()` under way
    pc,             \* where each goroutine is
    query,          \* what it runs (None: PreparedStmtDB.Close)
    cur,            \* the Stmt it holds
    inTx,           \* does it have a transaction open?
    readers,        \* Mux: who holds the read lock
    writer,         \* Mux: who has, or waits for the readers to leave, the write lock
    calls           \* how many more calls there may be

cacheVars == <<store, evicted, displaced>>
muxVars   == <<readers, writer>>
vars == <<cacheVars, stmts, closing, pc, query, cur, inTx, muxVars, calls>>

StmtIds == 1..MaxStmts

Cache == INSTANCE ExpiringCache WITH
    Keys <- Queries, Values <- StmtIds, Sizes <- {Capacity}, capacity <- Capacity

Held == DOMAIN store

\* stmt_store.Stmt: "new" until PrepareContext answers, then "open" or "failed"
\* (prepareErr is set and there is no *sql.Stmt); "closed" once *sql.Stmt is.
StmtState == {"new", "open", "failed", "closed"}
Stmt == [transaction : BOOLEAN, owner : Procs, prepared : BOOLEAN, state : StmtState]

\* The points of prepare, New and the Exec and Query methods where a goroutine
\* can be preempted or blocked.
PC == {"idle", "rlock", "rwait", "rget", "rstmt", "lock", "drain", "wget", "wstmt",
       "prepare", "undo", "publish", "exec", "bad"}

TypeOK ==
    /\ Held \subseteq Queries /\ store \in [Held -> Cache!Entries]
    /\ evicted \subseteq Queries \X StmtIds /\ displaced \subseteq StmtIds
    /\ stmts \in Seq(Stmt) /\ Len(stmts) =< MaxStmts
    /\ \A k \in Held : store[k].value \in DOMAIN stmts
    /\ closing \subseteq DOMAIN stmts
    /\ pc \in [Procs -> PC]
    /\ query \in [Procs -> Queries \cup {None}]
    /\ cur \in [Procs -> 0..MaxStmts]
    /\ inTx \in [Procs -> BOOLEAN] /\ (\A p \in Procs \ TxProcs : ~inTx[p])
    /\ readers \subseteq Procs /\ writer \in Procs \cup {None}
    /\ calls \in 0..MaxCalls

------------------------------------------------------------------------------
(***************************************************************************)
(* database/sql's pool.  A transaction keeps its connection to the end;    *)
(* whatever runs outside of one takes a connection for that call only.     *)
(***************************************************************************)
FreeConn == Cardinality({p \in Procs : inTx[p]}) < MaxConns
HasConn(p) == inTx[p] \/ FreeConn

(***************************************************************************)
(* sync.RWMutex.  A writer first keeps new readers out, then waits for     *)
(* those inside; the readers it kept out get in together when it unlocks.  *)
(***************************************************************************)
Goto(p, at) == [pc EXCEPT ![p] = at]

\* Mutant: a reader leaves without unlocking.
RUnlock_Keep(p, next) ==
    /\ pc' = Goto(p, next)
    /\ UNCHANGED muxVars

RUnlock(p, next) ==
    /\ readers' = readers \ {p}
    /\ pc' = Goto(p, next)
    /\ UNCHANGED writer

Unlock(p, next) ==
    /\ writer' = None
    /\ readers' = readers \cup {r \in Procs : pc[r] = "rwait"}
    /\ pc' = [r \in Procs |-> IF r = p THEN next
                              ELSE IF pc[r] = "rwait" THEN "rget" ELSE pc[r]]

------------------------------------------------------------------------------
(***************************************************************************)
(* stmt_store: the callback starts a goroutine for what the cache evicts.  *)
(***************************************************************************)
OnEvicted == closing' = closing \cup {e[2] : e \in evicted'}

\* lruStore.Delete: whatever is filed under the key by now.
Delete(k) ==
    /\ Cache!Drop({k} \cap Held)
    /\ OnEvicted
    /\ UNCHANGED displaced

\* Mutant: a statement of any transaction will do.
Compatible_Any(p, s) == TRUE

\* !stmt.Transaction || isTransaction
Compatible(p, s) == ~stmts[s].transaction \/ inTx[p]

\* What prepare hands back: the Stmt, or the error of its preparation.
Returned(s) == IF stmts[s].state = "failed" THEN "idle" ELSE "exec"

------------------------------------------------------------------------------
Init ==
    /\ store = [k \in {} |-> [value |-> k, age |-> Cache!Fresh]]
    /\ evicted = {} /\ displaced = {}
    /\ stmts = <<>> /\ closing = {}
    /\ pc = [p \in Procs |-> "idle"]
    /\ query = [p \in Procs |-> None]
    /\ cur = [p \in Procs |-> 0]
    /\ inTx = [p \in Procs |-> FALSE]
    /\ readers = {} /\ writer = None
    /\ calls = MaxCalls

\* ExecContext, QueryContext or QueryRowContext of the DB or of the transaction.
Start(p, k) ==
    /\ pc[p] = "idle" /\ calls > 0
    /\ k \in (IF inTx[p] THEN TxQueries ELSE PlainQueries)
    /\ query' = [query EXCEPT ![p] = k]
    /\ pc' = Goto(p, "rlock")
    /\ calls' = calls - 1
    /\ UNCHANGED <<cacheVars, stmts, closing, cur, inTx, muxVars>>

\* PreparedStmtDB.Close
StartClose(p) ==
    /\ pc[p] = "idle" /\ calls > 0 /\ p \in Closers
    /\ query' = [query EXCEPT ![p] = None]
    /\ pc' = Goto(p, "lock")
    /\ calls' = calls - 1
    /\ UNCHANGED <<cacheVars, stmts, closing, cur, inTx, muxVars>>

\* PreparedStmtDB.BeginTx, once there is a connection.
BeginTx(p) ==
    /\ pc[p] = "idle" /\ calls > 0
    /\ p \in TxProcs /\ ~inTx[p] /\ FreeConn
    /\ inTx' = [inTx EXCEPT ![p] = TRUE]
    /\ calls' = calls - 1
    /\ UNCHANGED <<cacheVars, stmts, closing, pc, query, cur, muxVars>>

\* PreparedStmtTX.Commit or Rollback: database/sql closes what the transaction
\* prepared, in the cache or not.
EndTx(p) ==
    /\ pc[p] = "idle" /\ inTx[p]
    /\ inTx' = [inTx EXCEPT ![p] = FALSE]
    /\ stmts' = [s \in DOMAIN stmts |->
                    IF stmts[s].transaction /\ stmts[s].owner = p /\ stmts[s].state = "open"
                       THEN [stmts[s] EXCEPT !.state = "closed"] ELSE stmts[s]]
    /\ UNCHANGED <<cacheVars, closing, pc, query, cur, muxVars, calls>>

------------------------------------------------------------------------------
(***************************************************************************)
(* PreparedStmtDB.prepare                                                  *)
(***************************************************************************)
RLock(p) ==
    /\ pc[p] = "rlock"
    /\ IF writer = None
          THEN readers' = readers \cup {p} /\ pc' = Goto(p, "rget")
          ELSE UNCHANGED readers /\ pc' = Goto(p, "rwait")
    /\ UNCHANGED <<cacheVars, stmts, closing, query, cur, inTx, writer, calls>>

\* lruStore.Get under the read lock; a miss unlocks and goes for the write lock.
RGet(p) ==
    /\ pc[p] = "rget"
    /\ \/ /\ Cache!Hit(query[p])
          /\ cur' = [cur EXCEPT ![p] = Cache!Found(query[p])]
          /\ pc' = Goto(p, "rstmt")
          /\ UNCHANGED muxVars
       \/ /\ ~Cache!Hit(query[p])
          /\ RUnlock(p, "lock")
          /\ UNCHANGED cur
    /\ UNCHANGED <<cacheVars, stmts, closing, query, inTx, calls>>

\* `<-stmt.prepared` in Get, the read lock still held; the caller's context is
\* not looked at.
RStmt(p) ==
    /\ pc[p] = "rstmt" /\ stmts[cur[p]].prepared
    /\ RUnlock(p, IF Compatible(p, cur[p]) THEN Returned(cur[p]) ELSE "lock")
    /\ UNCHANGED <<cacheVars, stmts, closing, query, cur, inTx, calls>>

\* Mux.Lock: queue behind other writers, then keep readers out ...
Lock(p) ==
    /\ pc[p] = "lock" /\ writer = None
    /\ writer' = p
    /\ pc' = Goto(p, "drain")
    /\ UNCHANGED <<cacheVars, stmts, closing, query, cur, inTx, readers, calls>>

\* ... and wait for those inside.
Drain(p) ==
    /\ pc[p] = "drain" /\ readers = {}
    /\ pc' = Goto(p, "wget")
    /\ UNCHANGED <<cacheVars, stmts, closing, query, cur, inTx, muxVars, calls>>

\* The retry: Get under the write lock finds something to wait for.
WGet(p) ==
    /\ pc[p] = "wget" /\ query[p] # None /\ Cache!Hit(query[p])
    /\ cur' = [cur EXCEPT ![p] = Cache!Found(query[p])]
    /\ pc' = Goto(p, "wstmt")
    /\ UNCHANGED <<cacheVars, stmts, closing, query, inTx, muxVars, calls>>

\* `<-stmt.prepared` with the write lock held.
WStmt(p) ==
    /\ pc[p] = "wstmt" /\ stmts[cur[p]].prepared
    /\ Compatible(p, cur[p])
    /\ Unlock(p, Returned(cur[p]))
    /\ UNCHANGED <<cacheVars, stmts, closing, query, cur, inTx, calls>>

\* The Stmt that New makes.
NewStmt == Len(stmts) + 1

\* The Stmt it files that over, if one is there that no lookup finds any more:
\* the LRU's Add gives an entry it holds another value without the callback.
Overwritten(k) == {store[j].value : j \in {j \in Held : j = k /\ ~Cache!Hit(j)}}

\* The retry failed: lruStore.New files an unprepared Stmt and unlocks.  Get,
\* Set and Unlock are one step: what others do to the cache between them
\* without the lock they can as well do before.
New(p) ==
    /\ \/ pc[p] = "wget" /\ query[p] # None /\ ~Cache!Hit(query[p])
       \/ pc[p] = "wstmt" /\ stmts[cur[p]].prepared /\ ~Compatible(p, cur[p])
    /\ Len(stmts) < MaxStmts
    /\ stmts' = Append(stmts, [transaction |-> inTx[p], owner |-> p,
                               prepared |-> FALSE, state |-> "new"])
    /\ Cache!Put(query[p], NewStmt)
    /\ OnEvicted
    /\ displaced' = displaced \cup Overwritten(query[p])
    /\ cur' = [cur EXCEPT ![p] = NewStmt]
    /\ Unlock(p, "prepare")
    /\ UNCHANGED <<query, inTx, calls>>

\* PreparedStmtDB.Close: Keys leaves out what has expired.
CloseAll(p) ==
    /\ pc[p] = "wget" /\ query[p] = None
    /\ Cache!Drop({k \in Held : Cache!Hit(k)})
    /\ OnEvicted
    /\ Unlock(p, "idle")
    /\ UNCHANGED <<displaced, stmts, query, cur, inTx, calls>>

------------------------------------------------------------------------------
(***************************************************************************)
(* lruStore.New after the unlock                                           *)
(***************************************************************************)
PrepareOk(p) ==
    /\ pc[p] = "prepare" /\ HasConn(p)
    /\ stmts' = [stmts EXCEPT ![cur[p]].state = "open"]
    /\ pc' = Goto(p, "publish")
    /\ UNCHANGED <<cacheVars, closing, query, cur, inTx, muxVars, calls>>

\* The driver refuses, or the context ends before there is a connection.
PrepareFail(p) ==
    /\ pc[p] = "prepare" /\ (HasConn(p) \/ CtxMayExpire)
    /\ stmts' = [stmts EXCEPT ![cur[p]].state = "failed"]
    /\ pc' = Goto(p, "undo")
    /\ UNCHANGED <<cacheVars, closing, query, cur, inTx, muxVars, calls>>

\* Mutant: the deferred close(prepared) is not reached.
Undo_Return(p) ==
    /\ pc[p] = "undo"
    /\ Delete(query[p])
    /\ pc' = Goto(p, "idle")
    /\ UNCHANGED <<stmts, query, cur, inTx, muxVars, calls>>

\* The failed Stmt is taken out: by key, whoever's it is by then.
Undo(p) ==
    /\ pc[p] = "undo"
    /\ Delete(query[p])
    /\ pc' = Goto(p, "publish")
    /\ UNCHANGED <<stmts, query, cur, inTx, muxVars, calls>>

\* The deferred close(cacheStmt.prepared).
Publish(p) ==
    /\ pc[p] = "publish"
    /\ stmts' = [stmts EXCEPT ![cur[p]].prepared = TRUE]
    /\ pc' = Goto(p, Returned(cur[p]))
    /\ UNCHANGED <<cacheVars, closing, query, cur, inTx, muxVars, calls>>

------------------------------------------------------------------------------
(***************************************************************************)
(* The Stmt is run.                                                        *)
(***************************************************************************)

\* It ran, or failed for a reason of its own; one that was closed meanwhile
\* answers "sql: statement is closed", and a transaction prepares it afresh.
Exec(p) ==
    /\ pc[p] = "exec" /\ HasConn(p)
    /\ pc' = Goto(p, "idle")
    /\ UNCHANGED <<cacheVars, stmts, closing, query, cur, inTx, muxVars, calls>>

\* driver.ErrBadConn, from ExecContext or QueryContext ...
ExecBadConn(p) ==
    /\ pc[p] = "exec" /\ HasConn(p)
    /\ inTx[p] \/ stmts[cur[p]].state = "open"
    /\ pc' = Goto(p, "bad")
    /\ UNCHANGED <<cacheVars, stmts, closing, query, cur, inTx, muxVars, calls>>

\* Mutant: the statement itself is closed, and stays in the cache.
Forget_Close(p) ==
    /\ pc[p] = "bad"
    /\ stmts' = [stmts EXCEPT ![cur[p]].state = "closed"]
    /\ pc' = Goto(p, "idle")
    /\ UNCHANGED <<cacheVars, closing, query, cur, inTx, muxVars, calls>>

\* ... makes the cache forget the query, without the lock.
Forget(p) ==
    /\ pc[p] = "bad"
    /\ Delete(query[p])
    /\ pc' = Goto(p, "idle")
    /\ UNCHANGED <<stmts, query, cur, inTx, muxVars, calls>>

------------------------------------------------------------------------------
(***************************************************************************)
(* What happens by itself.                                                 *)
(***************************************************************************)

\* Mutant: Close does not wait for the preparation to end.
CloseStmt_NoWait(s) ==
    /\ s \in closing
    /\ closing' = closing \ {s}
    /\ stmts' = [stmts EXCEPT ![s].state = IF @ = "open" THEN "closed" ELSE @]
    /\ UNCHANGED <<cacheVars, pc, query, cur, inTx, muxVars, calls>>

\* Stmt.Close, in the goroutine onEvicted started.
CloseStmt(s) ==
    /\ s \in closing /\ stmts[s].prepared
    /\ closing' = closing \ {s}
    /\ stmts' = [stmts EXCEPT ![s].state = IF @ = "open" THEN "closed" ELSE @]
    /\ UNCHANGED <<cacheVars, pc, query, cur, inTx, muxVars, calls>>

\* The time to live of an entry elapses ...
Expire(k) ==
    /\ MayExpire /\ Cache!Hit(k)
    /\ store' = [store EXCEPT ![k].age = Cache!Past]
    /\ UNCHANGED <<evicted, displaced, stmts, closing, pc, query, cur, inTx, muxVars, calls>>

\* ... and sooner or later the LRU's sweeper takes it.
Sweep(k) ==
    /\ k \in Held /\ ~Cache!Hit(k)
    /\ Delete(k)
    /\ UNCHANGED <<stmts, pc, query, cur, inTx, muxVars, calls>>

------------------------------------------------------------------------------
\* What a goroutine does once it is inside a call.
Step(p) ==
    \/ RLock(p) \/ RGet(p) \/ RStmt(p)
    \/ Lock(p) \/ Drain(p) \/ WGet(p) \/ WStmt(p) \/ New(p) \/ CloseAll(p)
    \/ PrepareOk(p) \/ PrepareFail(p) \/ Undo(p) \/ Publish(p)
    \/ Exec(p) \/ ExecBadConn(p) \/ Forget(p)

Call(p) == BeginTx(p) \/ EndTx(p) \/ StartClose(p) \/ \E k \in Queries : Start(p, k)

Background == \/ \E s \in StmtIds : CloseStmt(s)
              \/ \E k \in Queries : Expire(k) \/ Sweep(k)

Next == (\E p \in Procs : Step(p) \/ Call(p)) \/ Background

Spec == Init /\ [][Next]_vars

\* Go runs every goroutine that can run, and a transaction that is idle ends.
FairSpec == Spec /\ \A p \in Procs : WF_vars(Step(p)) /\ WF_vars(EndTx(p))

------------------------------------------------------------------------------
(***************************************************************************)
(* Properties.                                                             *)
(***************************************************************************)

\* What prepare returns without an error has been prepared, has a *sql.Stmt to
\* run, and belongs to a transaction only if the caller is in one: outside, a
\* statement of a transaction dies when somebody else commits.
ReturnedIsReady ==
    \A p \in Procs : pc[p] = "exec" =>
        /\ stmts[cur[p]].prepared
        /\ stmts[cur[p]].state \in {"open", "closed"}
        /\ stmts[cur[p]].transaction => inTx[p]

\* A statement that a lookup can still find, and that no transaction owns, has
\* neither been closed nor is about to be: what is closed has left the cache
\* before.  (A goroutine that found it earlier may still run it too late.)
CachedIsOpen ==
    \A k \in Held : ~stmts[store[k].value].transaction =>
        stmts[store[k].value].state # "closed" /\ store[k].value \notin closing

\* Every open statement is in the cache, or is being closed, or will be when
\* the transaction that prepared it ends ...
Tracked(s) ==
    \/ \E k \in Held : store[k].value = s
    \/ s \in closing
    \/ stmts[s].transaction /\ inTx[stmts[s].owner]

\* ... or was filed over by New after its time to live and before the sweep:
\* no other order of lookups, evictions, expiry, failed preparations, bad
\* connections and Close makes the program forget one on the server.
NoLeak == \A s \in DOMAIN stmts : stmts[s].state = "open" => Tracked(s) \/ s \in displaced

\* New over an expired entry is an exception: it forgets what was filed there
\* (MCPreparedStmtDisplaced.cfg).
NothingForgotten == \A s \in DOMAIN stmts : stmts[s].state = "open" => Tracked(s)

\* The goroutine can go on (the guards of Step, the bound MaxStmts left out).
CanStep(p) ==
    \/ pc[p] \in {"rlock", "rget", "wget", "undo", "publish", "bad"}
    \/ pc[p] \in {"rstmt", "wstmt"} /\ stmts[cur[p]].prepared
    \/ pc[p] = "lock" /\ writer = None
    \/ pc[p] = "drain" /\ readers = {}
    \/ pc[p] \in {"prepare", "exec"} /\ (HasConn(p) \/ (CtxMayExpire /\ pc[p] = "prepare"))
    \/ pc[p] = "idle" /\ inTx[p]

\* Whenever calls are under way, one of them can go on.
NoDeadlock == (\E p \in Procs : pc[p] # "idle") => \E p \in Procs : CanStep(p)

\* Every call returns.
EveryCallReturns == \A p \in Procs : pc[p] # "idle" ~> pc[p] = "idle"
==============================================================================
