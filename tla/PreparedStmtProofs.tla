------------------------- MODULE PreparedStmtProofs -------------------------
(***************************************************************************)
(* Theorems about PreparedStmt, for every set of goroutines and            *)
(* statements, every capacity and every size of the pool.                  *)
(***************************************************************************)
EXTENDS PreparedStmt, FiniteSetTheorems, TLAPS

------------------------------------------------------------------------------
(***************************************************************************)
(* The inductive invariant.                                                *)
(***************************************************************************)

\* Where a goroutine is says what it holds of the mutex; a writer past "drain"
\* is alone, and a reader kept out has a writer to wait for.
MuxInv ==
    /\ \A p \in Procs : p \in readers <=> pc[p] \in {"rget", "rstmt"}
    /\ \A p \in Procs : pc[p] \in {"drain", "wget", "wstmt"} <=> writer = p
    /\ \A p \in Procs : pc[p] \in {"wget", "wstmt"} => readers = {}
    /\ \A p \in Procs : pc[p] = "rwait" => writer # None

\* A goroutine past Start runs a statement, and past the lookup holds a Stmt.
Running == {"rlock", "rwait", "rget", "rstmt", "wstmt", "prepare", "undo", "publish", "exec", "bad"}
Holding == {"rstmt", "wstmt", "prepare", "undo", "publish", "exec", "bad"}
Making  == {"prepare", "undo", "publish"}

CurAt(p) ==
    /\ pc[p] \in Running => query[p] \in Queries
    /\ pc[p] \in Holding => cur[p] \in DOMAIN stmts
    /\ pc[p] \in Making =>
          /\ stmts[cur[p]].owner = p /\ ~stmts[cur[p]].prepared
          /\ stmts[cur[p]].transaction = inTx[p]
          /\ pc[p] = "undo" => stmts[cur[p]].state = "failed"
          /\ pc[p] = "publish" => stmts[cur[p]].state \in {"open", "failed"}
          /\ pc[p] = "prepare" => stmts[cur[p]].state = "new"
    /\ pc[p] = "exec" =>
          /\ stmts[cur[p]].prepared /\ stmts[cur[p]].state \in {"open", "closed"}
          /\ stmts[cur[p]].transaction => inTx[p]

CurInv == \A p \in Procs : CurAt(p)

\* What is not prepared yet is being made by its owner: whoever waits for it
\* waits for a goroutine that holds no lock.
StmtAt(s) ==
    /\ ~stmts[s].prepared => pc[stmts[s].owner] \in Making /\ cur[stmts[s].owner] = s
    /\ stmts[s].prepared => stmts[s].state # "new"

StmtInv == \A s \in DOMAIN stmts : StmtAt(s)

\* The cache and the Stmts being closed are disjoint, no Stmt is filed twice,
\* and only a transaction closes what is still filed.
CacheInv ==
    /\ \A j, k \in Held : store[j].value = store[k].value => j = k
    /\ \A k \in Held : store[k].value \notin closing
    /\ \A k \in Held : stmts[store[k].value].state = "closed" => stmts[store[k].value].transaction

IInv == TypeOK /\ MuxInv /\ CurInv /\ StmtInv /\ CacheInv

USE ProcsAssumption, BoundsAssumption


------------------------------------------------------------------------------
(***************************************************************************)
(* What the cache's operations do.                                         *)
(***************************************************************************)

\* The cache without the entries of K, and with v filed under k instead; the
\* Stmts that were filed under K, as the callback and its goroutines see them.
Without(K) == [j \in Held \ K |-> store[j]]
With(k, v, K) ==
    [j \in (Held \ K) \cup {k} |-> IF j = k THEN [value |-> v, age |-> Cache!Fresh] ELSE store[j]]
StmtsOf(K) == {store[j].value : j \in K}
PairsOf(K) == {<<j, store[j].value>> : j \in K}

LEMMA PairsStmts == \A K : {e[2] : e \in PairsOf(K)} = StmtsOf(K)
  <1> TAKE K
  <1>1. \A x \in {e[2] : e \in PairsOf(K)} : x \in StmtsOf(K)
    BY DEF PairsOf, StmtsOf
  <1>2. ASSUME NEW j \in K PROVE store[j].value \in {e[2] : e \in PairsOf(K)}
    <2>1. <<j, store[j].value>> \in PairsOf(K)
      BY DEF PairsOf
    <2> QED BY <2>1
  <1>3. \A x \in StmtsOf(K) : x \in {e[2] : e \in PairsOf(K)}
    BY <1>2 DEF StmtsOf
  <1> QED BY <1>1, <1>3

LEMMA DropEffect ==
    ASSUME NEW K \in SUBSET Held, Cache!Drop(K), OnEvicted
    PROVE  /\ Held' = Held \ K /\ store' = Without(K)
           /\ evicted' = PairsOf(K) /\ closing' = closing \cup StmtsOf(K)
  <1>1. store' = Without(K)
    BY DEF Cache!Drop, Cache!Release, Cache!Held, Held, Without
  <1>2. evicted' = PairsOf(K)
    BY DEF Cache!Drop, Cache!Release, PairsOf
  <1> QED BY <1>1, <1>2, PairsStmts DEF OnEvicted, Held, Without

LEMMA DeleteEffect ==
    ASSUME NEW k, Delete(k)
    PROVE  LET K == {k} \cap Held IN
           /\ Held' = Held \ K /\ store' = Without(K)
           /\ evicted' = PairsOf(K) /\ closing' = closing \cup StmtsOf(K)
  BY DropEffect DEF Delete

LEMMA PutEffect ==
    ASSUME NEW k, NEW v, Cache!Put(k, v), OnEvicted
    PROVE  \E K \in SUBSET (Held \ {k}) :
              /\ k \in Held => K = {}
              /\ Held' = (Held \ K) \cup {k} /\ store' = With(k, v, K)
              /\ evicted' = PairsOf(K) /\ closing' = closing \cup StmtsOf(K)
  <1>1. CASE Cache!Renew(k, v)
    <2>1. k \in Held /\ store' = [store EXCEPT ![k] = [value |-> v, age |-> Cache!Fresh]]
      BY <1>1 DEF Cache!Renew, Cache!Held, Held
    <2>2. evicted' = {}
      BY <1>1 DEF Cache!Renew
    <2>3. store' = With(k, v, {})
      <3>1. store' = [j \in Held |-> IF j = k THEN [value |-> v, age |-> Cache!Fresh] ELSE store[j]]
        BY <2>1 DEF Held
      <3>2. (Held \ {}) \cup {k} = Held
        BY <2>1
      <3> QED BY <3>1, <3>2 DEF With
    <2>4. closing' = closing \cup StmtsOf({}) /\ evicted' = PairsOf({})
      BY <2>2 DEF OnEvicted, StmtsOf, PairsOf
    <2>5. Held' = (Held \ {}) \cup {k}
      BY <2>3 DEF Held, With
    <2>6. {} \in SUBSET (Held \ {k})
      OBVIOUS
    <2> QED BY <2>3, <2>4, <2>5, <2>6
  <1>2. CASE Cache!Insert(k, v)
    <2>1. k \notin Held
      BY <1>2 DEF Cache!Insert, Cache!Held, Held
    <2>2. \A K : Cache!Held = Held
             /\ [j \in (Held \ K) \cup {k} |-> IF j = k THEN [value |-> v, age |-> Cache!Fresh]
                                                       ELSE store[j]] = With(k, v, K)
             /\ {<<j, store[j].value>> : j \in K} = PairsOf(K)
      BY DEF Cache!Held, Held, With, PairsOf
    <2>3. PICK K \in SUBSET Held : store' = With(k, v, K) /\ evicted' = PairsOf(K)
      BY <1>2, <2>2 DEF Cache!Insert, With, PairsOf
    <2>4. closing' = closing \cup StmtsOf(K)
      BY <2>3, PairsStmts DEF OnEvicted
    <2>5. Held' = (Held \ K) \cup {k}
      BY <2>3 DEF Held, With
    <2> QED BY <2>1, <2>3, <2>4, <2>5
  <1> QED BY <1>1, <1>2 DEF Cache!Put

LEMMA StmtTyped ==
    ASSUME TypeOK, NEW s \in DOMAIN stmts
    PROVE  /\ stmts[s] \in Stmt /\ stmts[s].owner \in Procs /\ stmts[s].state \in StmtState
           /\ stmts[s].prepared \in BOOLEAN /\ stmts[s].transaction \in BOOLEAN
           /\ s \in 1..Len(stmts) /\ s \in 0..MaxStmts
  <1>1. stmts[s] \in Stmt /\ s \in 1..Len(stmts) /\ s \in 0..MaxStmts
    BY DEF TypeOK
  <1> QED BY <1>1 DEF Stmt

LEMMA HitTyped ==
    ASSUME TypeOK, NEW k, Cache!Hit(k)
    PROVE  k \in Held /\ Cache!Found(k) \in DOMAIN stmts
  BY DEF TypeOK, Held, Cache!Hit, Cache!Held, Cache!Found
------------------------------------------------------------------------------
(***************************************************************************)
(* What a step of one goroutine leaves to the others.                      *)
(***************************************************************************)

\* The others stay where they are, except the readers an Unlock lets in.
Others(p) ==
    \A r \in Procs \ {p} :
        /\ pc'[r] = pc[r] \/ (pc[r] = "rwait" /\ pc'[r] = "rget")
        /\ query'[r] = query[r] /\ cur'[r] = cur[r] /\ inTx'[r] = inTx[r]

\* Only its maker changes an unprepared Stmt; a prepared one can only be closed.
StmtStep(p) ==
    \A s \in DOMAIN stmts :
        /\ s \in DOMAIN stmts'
        /\ stmts'[s].owner = stmts[s].owner
        /\ stmts'[s].transaction = stmts[s].transaction
        /\ \/ /\ stmts'[s].prepared = stmts[s].prepared
              /\ \/ stmts'[s].state = stmts[s].state
                 \/ /\ stmts[s].prepared /\ stmts[s].state = "open"
                    /\ stmts'[s].state = "closed"
           \/ ~stmts[s].prepared /\ stmts[s].owner = p

LEMMA OthersCur ==
    ASSUME IInv, NEW p, Others(p), StmtStep(p)
    PROVE  \A r \in Procs \ {p} : CurAt(r)'
  <1> TAKE r \in Procs \ {p}
  <1> DEFINE s == cur[r]
  <1>1. CurAt(r) /\ r \in Procs /\ r # p
    BY DEF IInv, CurInv
  <1>2. /\ pc'[r] = pc[r] \/ (pc[r] = "rwait" /\ pc'[r] = "rget")
        /\ query'[r] = query[r] /\ cur'[r] = s /\ inTx'[r] = inTx[r]
    BY DEF Others
  <1>3. /\ pc'[r] \in Holding <=> pc[r] \in Holding
        /\ pc'[r] \in Making <=> pc[r] \in Making
        /\ pc'[r] \in Running <=> pc[r] \in Running
        /\ pc'[r] \in Making \cup {"exec"} => pc'[r] = pc[r] /\ pc[r] \in Holding
        /\ pc'[r] = "exec" => pc[r] = "exec"
    BY <1>2 DEF Holding, Making, Running
  <1>4. ASSUME s \in DOMAIN stmts
        PROVE  /\ s \in DOMAIN stmts'
               /\ stmts'[s].owner = stmts[s].owner
               /\ stmts'[s].transaction = stmts[s].transaction
               /\ \/ /\ stmts'[s].prepared = stmts[s].prepared
                     /\ \/ stmts'[s].state = stmts[s].state
                        \/ /\ stmts[s].prepared /\ stmts[s].state = "open"
                           /\ stmts'[s].state = "closed"
                  \/ ~stmts[s].prepared /\ stmts[s].owner = p
    BY <1>4 DEF StmtStep
  <1> HIDE DEF s
  <1>s. s = cur[r]
    BY DEF s
  <1>5. (pc[r] \in Running => query[r] \in Queries)' /\ (pc[r] \in Holding => cur[r] \in DOMAIN stmts)'
    BY <1>1, <1>2, <1>3, <1>4, <1>s DEF CurAt
  <1>6. ASSUME pc'[r] \in Making
        PROVE  (/\ stmts[cur[r]].owner = r /\ ~stmts[cur[r]].prepared
                /\ stmts[cur[r]].transaction = inTx[r]
                /\ pc[r] = "undo" => stmts[cur[r]].state = "failed"
                /\ pc[r] = "publish" => stmts[cur[r]].state \in {"open", "failed"}
                /\ pc[r] = "prepare" => stmts[cur[r]].state = "new")'
    BY <1>1, <1>2, <1>3, <1>4, <1>6, <1>s DEF CurAt
  <1>7. ASSUME pc'[r] = "exec"
        PROVE  (/\ stmts[cur[r]].prepared /\ stmts[cur[r]].state \in {"open", "closed"}
                /\ stmts[cur[r]].transaction => inTx[r])'
    BY <1>1, <1>2, <1>3, <1>4, <1>7, <1>s DEF CurAt
  <1> QED BY <1>5, <1>6, <1>7 DEF CurAt

LEMMA OthersStmt ==
    ASSUME IInv, NEW p, Others(p), StmtStep(p)
    PROVE  \A s \in DOMAIN stmts : stmts[s].owner # p => StmtAt(s)'
  <1> SUFFICES ASSUME NEW s \in DOMAIN stmts, stmts[s].owner # p PROVE StmtAt(s)'
    OBVIOUS
  <1>1. stmts[s].owner \in Procs \ {p} /\ StmtAt(s)
    BY StmtTyped DEF IInv, StmtInv
  <1>2. /\ stmts'[s].owner = stmts[s].owner /\ stmts'[s].prepared = stmts[s].prepared
        /\ stmts'[s].state \in {stmts[s].state, "closed"}
    BY DEF StmtStep
  <1>3. pc[stmts[s].owner] \in Making => pc'[stmts[s].owner] = pc[stmts[s].owner]
    BY <1>1 DEF Others, Making
  <1>4. cur'[stmts[s].owner] = cur[stmts[s].owner]
    BY <1>1 DEF Others
  <1> QED BY <1>1, <1>2, <1>3, <1>4 DEF StmtAt

\* A step that changes no Stmt and neither begins nor ends a preparation.
LEMMA SameStmts ==
    ASSUME IInv, NEW p \in Procs, Others(p), stmts' = stmts, pc[p] \notin Making
    PROVE  StmtInv'
  <1>1. StmtStep(p)
    BY DEF StmtStep
  <1>2. \A s \in DOMAIN stmts : stmts[s].owner = p => StmtAt(s)'
    BY DEF IInv, StmtInv, StmtAt
  <1> QED BY <1>1, <1>2, OthersStmt DEF StmtInv

LEMMA Others1 ==
    ASSUME IInv, NEW p \in Procs, CurAt(p)', Others(p), StmtStep(p)
    PROVE  CurInv'
  BY OthersCur DEF CurInv

------------------------------------------------------------------------------
(***************************************************************************)
(* The invariant is inductive.                                             *)
(***************************************************************************)

LEMMA InitInv == Init => IInv
  <1> SUFFICES ASSUME Init PROVE IInv
    OBVIOUS
  <1>1. TypeOK
    BY DEF Init, TypeOK, Held, PC, Cache!Entries
  <1>2. MuxInv /\ CurInv /\ StmtInv /\ CacheInv
    BY DEF Init, MuxInv, CurInv, CurAt, StmtInv, CacheInv, Held, Running, Holding, Making
  <1> QED BY <1>1, <1>2 DEF IInv

\* The steps that touch neither the cache nor a Stmt.
LEMMA QuietInv ==
    ASSUME IInv, NEW p \in Procs,
           \/ \E k \in Queries : Start(p, k)
           \/ StartClose(p) \/ BeginTx(p)
           \/ RLock(p) \/ RGet(p) \/ RStmt(p) \/ Lock(p) \/ Drain(p) \/ WGet(p) \/ WStmt(p)
           \/ Exec(p) \/ ExecBadConn(p)
    PROVE  IInv'
  <1>1. ASSUME NEW k \in Queries, Start(p, k) PROVE IInv'
    <2>1. TypeOK'
      BY <1>1 DEF Start, Goto, RUnlock, Unlock, Returned, IInv, TypeOK, cacheVars, muxVars, Held, PC
    <2>2. MuxInv'
      BY <1>1 DEF Start, Goto, RUnlock, Unlock, Returned, IInv, TypeOK, MuxInv, cacheVars, muxVars, PC
    <2>3. Others(p) /\ stmts' = stmts /\ pc[p] \notin Making
      BY <1>1 DEF Start, Goto, RUnlock, Unlock, Returned, IInv, TypeOK, Others, Making, cacheVars, muxVars
    <2>4. StmtStep(p)
      BY <2>3 DEF StmtStep
    <2>5. CurAt(p)'
      BY <1>1, <2>3 DEF Start, Goto, RUnlock, Unlock, Returned, Compatible, IInv, TypeOK, CurInv, CurAt, StmtInv, StmtAt, cacheVars, muxVars, PC, Stmt, StmtState, Running, Holding, Making
    <2>6. CacheInv'
      BY <1>1 DEF Start, IInv, CacheInv, cacheVars, Held
    <2> QED BY <2>1, <2>2, <2>3, <2>4, <2>5, <2>6, SameStmts, Others1 DEF IInv
  <1>2. CASE StartClose(p)
    <2>1. TypeOK'
      BY <1>2 DEF StartClose, Goto, RUnlock, Unlock, Returned, IInv, TypeOK, cacheVars, muxVars, Held, PC
    <2>2. MuxInv'
      BY <1>2 DEF StartClose, Goto, RUnlock, Unlock, Returned, IInv, TypeOK, MuxInv, cacheVars, muxVars, PC
    <2>3. Others(p) /\ stmts' = stmts /\ pc[p] \notin Making
      BY <1>2 DEF StartClose, Goto, RUnlock, Unlock, Returned, IInv, TypeOK, Others, Making, cacheVars, muxVars
    <2>4. StmtStep(p)
      BY <2>3 DEF StmtStep
    <2>5. CurAt(p)'
      BY <1>2, <2>3 DEF StartClose, Goto, RUnlock, Unlock, Returned, Compatible, IInv, TypeOK, CurInv, CurAt, StmtInv, StmtAt, cacheVars, muxVars, PC, Stmt, StmtState, Running, Holding, Making
    <2>6. CacheInv'
      BY <1>2 DEF StartClose, IInv, CacheInv, cacheVars, Held
    <2> QED BY <2>1, <2>2, <2>3, <2>4, <2>5, <2>6, SameStmts, Others1 DEF IInv
  <1>3. CASE BeginTx(p)
    <2>1. TypeOK'
      BY <1>3 DEF BeginTx, Goto, RUnlock, Unlock, Returned, IInv, TypeOK, cacheVars, muxVars, Held, PC
    <2>2. MuxInv'
      BY <1>3 DEF BeginTx, Goto, RUnlock, Unlock, Returned, IInv, TypeOK, MuxInv, cacheVars, muxVars, PC
    <2>3. Others(p) /\ stmts' = stmts /\ pc[p] \notin Making
      BY <1>3 DEF BeginTx, Goto, RUnlock, Unlock, Returned, IInv, TypeOK, Others, Making, cacheVars, muxVars
    <2>4. StmtStep(p)
      BY <2>3 DEF StmtStep
    <2>5. CurAt(p)'
      BY <1>3, <2>3 DEF BeginTx, Goto, RUnlock, Unlock, Returned, Compatible, IInv, TypeOK, CurInv, CurAt, StmtInv, StmtAt, cacheVars, muxVars, PC, Stmt, StmtState, Running, Holding, Making
    <2>6. CacheInv'
      BY <1>3 DEF BeginTx, IInv, CacheInv, cacheVars, Held
    <2> QED BY <2>1, <2>2, <2>3, <2>4, <2>5, <2>6, SameStmts, Others1 DEF IInv
  <1>4. CASE RLock(p)
    <2>1. PICK at \in {"rget", "rwait"} :
             /\ pc[p] = "rlock" /\ pc' = [pc EXCEPT ![p] = at]
             /\ at = "rget" => writer = None /\ readers' = readers \cup {p}
             /\ at = "rwait" => writer # None /\ readers' = readers
             /\ writer' = writer
      BY <1>4 DEF RLock, Goto
    <2>t. TypeOK'
      BY ZenonT(60), <1>4 DEF RLock, Goto, IInv, TypeOK, cacheVars, muxVars, Held, PC
    <2>m. MuxInv'
      <3>1. CASE at = "rget"
        BY <2>1, <3>1 DEF IInv, TypeOK, MuxInv
      <3>2. CASE at = "rwait"
        BY <2>1, <3>2 DEF IInv, TypeOK, MuxInv
      <3> QED BY <3>1, <3>2
    <2>o. Others(p) /\ stmts' = stmts /\ pc[p] \notin Making
      BY <1>4, <2>1 DEF RLock, IInv, TypeOK, Others, Making
    <2>c. CurAt(p)'
      BY <1>4, <2>1 DEF RLock, IInv, TypeOK, CurInv, CurAt, Running, Holding, Making
    <2>s. StmtStep(p)
      BY <2>o DEF StmtStep
    <2>k. CacheInv'
      BY <1>4 DEF RLock, IInv, CacheInv, cacheVars, Held
    <2> QED BY <2>t, <2>m, <2>o, <2>s, <2>c, <2>k, SameStmts, Others1 DEF IInv
  <1>5. CASE RGet(p)
    <2>1. /\ pc[p] = "rget" /\ UNCHANGED <<store, evicted, displaced, stmts, closing, query, inTx, calls>>
          /\ query[p] \in Queries
      BY <1>5 DEF RGet, cacheVars, IInv, TypeOK, CurInv, CurAt, Running
    <2>2. CASE Cache!Hit(query[p]) /\ cur' = [cur EXCEPT ![p] = Cache!Found(query[p])]
                 /\ pc' = Goto(p, "rstmt") /\ UNCHANGED <<readers, writer>>
      <3>1. Cache!Found(query[p]) \in DOMAIN stmts
        BY <2>2, HitTyped DEF IInv
      <3> DEFINE s == Cache!Found(query[p])
      <3>2. s \in DOMAIN stmts /\ s \in 0..MaxStmts
        BY <3>1, StmtTyped DEF IInv
      <3>3. cur' = [cur EXCEPT ![p] = s] /\ pc' = [pc EXCEPT ![p] = "rstmt"]
            /\ readers' = readers /\ writer' = writer
        BY <2>2 DEF Goto
      <3> HIDE DEF s
      <3>t. TypeOK'
        <4>1. cur' \in [Procs -> 0..MaxStmts] /\ pc' \in [Procs -> PC]
          BY <3>2, <3>3 DEF IInv, TypeOK, PC
        <4> QED BY <2>1, <3>3, <4>1 DEF IInv, TypeOK, Held
      <3>m. MuxInv'
        BY <2>1, <3>3 DEF IInv, TypeOK, MuxInv
      <3>o. Others(p) /\ stmts' = stmts /\ pc[p] \notin Making
        BY <2>1, <3>3 DEF IInv, TypeOK, Others, Making
      <3>c. CurAt(p)'
        BY <2>1, <3>2, <3>3 DEF IInv, TypeOK, CurAt, Holding, Making
      <3>s. StmtStep(p)
        BY <3>o DEF StmtStep
      <3>k. CacheInv'
        BY <2>1 DEF IInv, CacheInv, Held
      <3> QED BY <3>t, <3>m, <3>o, <3>s, <3>c, <3>k, SameStmts, Others1 DEF IInv
    <2>3. CASE pc' = Goto(p, "lock") /\ readers' = readers \ {p} /\ UNCHANGED <<writer, cur>>
      <3>t. TypeOK'
        BY <2>1, <2>3 DEF Goto, IInv, TypeOK, Held, PC
      <3>m. MuxInv'
        BY <2>1, <2>3 DEF Goto, IInv, TypeOK, MuxInv
      <3>o. Others(p) /\ stmts' = stmts /\ pc[p] \notin Making
        BY <2>1, <2>3 DEF Goto, IInv, TypeOK, Others, Making
      <3>c. CurAt(p)'
        BY <2>1, <2>3 DEF Goto, IInv, TypeOK, CurAt, Holding, Making, Running
      <3>s. StmtStep(p)
        BY <3>o DEF StmtStep
      <3>k. CacheInv'
        BY <2>1 DEF IInv, CacheInv, Held
      <3> QED BY <3>t, <3>m, <3>o, <3>s, <3>c, <3>k, SameStmts, Others1 DEF IInv
    <2> QED BY <1>5, <2>2, <2>3 DEF RGet, RUnlock, muxVars
  <1>6. CASE RStmt(p)
    <2> DEFINE s == cur[p]
    <2>1. /\ pc[p] = "rstmt" /\ s \in DOMAIN stmts /\ stmts[s].prepared
          /\ UNCHANGED <<store, evicted, displaced, stmts, closing, query, cur, inTx, calls>>
      BY <1>6 DEF RStmt, cacheVars, IInv, CurInv, CurAt, Holding
    <2>2. stmts[s].state \in {"open", "failed", "closed"}
      BY <2>1, StmtTyped DEF IInv, StmtInv, StmtAt, StmtState
    <2>3. PICK at \in {"idle", "exec", "lock"} :
             /\ pc' = Goto(p, at)
             /\ at = "exec" => Compatible(p, s) /\ stmts[s].state # "failed"
      BY <1>6 DEF RStmt, RUnlock, Returned
    <2>t. TypeOK'
      BY <1>6, <2>1, <2>3 DEF RStmt, Goto, RUnlock, Unlock, IInv, TypeOK, cacheVars, muxVars, Held, PC
    <2>m. MuxInv'
      BY <1>6, <2>1, <2>3 DEF RStmt, Goto, RUnlock, Unlock, IInv, TypeOK, MuxInv, PC
    <2>o. Others(p) /\ stmts' = stmts /\ pc[p] \notin Making
      BY <2>1, <2>3 DEF Goto, Unlock, IInv, TypeOK, Others, Making
    <2>c. CurAt(p)'
      <3>1. pc'[p] = at /\ query'[p] = query[p] /\ cur'[p] = s /\ inTx'[p] = inTx[p]
        BY <2>1, <2>3 DEF Goto, Unlock, IInv, TypeOK
      <3>2. query[p] \in Queries
        BY <2>1 DEF IInv, CurInv, CurAt, Running
      <3> HIDE DEF s
      <3>3. at = "exec" => (stmts[s].transaction => inTx[p])
        BY <2>3 DEF Compatible
      <3> QED BY <2>1, <2>2, <2>3, <3>1, <3>2, <3>3 DEF CurAt, Holding, Making, Running
    <2>s. StmtStep(p)
      BY <2>o DEF StmtStep
    <2>k. CacheInv'
      BY <1>6 DEF RStmt, IInv, CacheInv, cacheVars, Held
    <2> QED BY <2>t, <2>m, <2>o, <2>s, <2>c, <2>k, SameStmts, Others1 DEF IInv
  <1>7. CASE Lock(p)
    <2>1. TypeOK'
      BY <1>7 DEF Lock, Goto, RUnlock, Unlock, Returned, IInv, TypeOK, cacheVars, muxVars, Held, PC
    <2>2. MuxInv'
      BY <1>7 DEF Lock, Goto, RUnlock, Unlock, Returned, IInv, TypeOK, MuxInv, cacheVars, muxVars, PC
    <2>3. Others(p) /\ stmts' = stmts /\ pc[p] \notin Making
      BY <1>7 DEF Lock, Goto, RUnlock, Unlock, Returned, IInv, TypeOK, Others, Making, cacheVars, muxVars
    <2>4. StmtStep(p)
      BY <2>3 DEF StmtStep
    <2>5. CurAt(p)'
      BY <1>7, <2>3 DEF Lock, Goto, RUnlock, Unlock, Returned, Compatible, IInv, TypeOK, CurInv, CurAt, StmtInv, StmtAt, cacheVars, muxVars, PC, Stmt, StmtState, Running, Holding, Making
    <2>6. CacheInv'
      BY <1>7 DEF Lock, IInv, CacheInv, cacheVars, Held
    <2> QED BY <2>1, <2>2, <2>3, <2>4, <2>5, <2>6, SameStmts, Others1 DEF IInv
  <1>8. CASE Drain(p)
    <2>1. TypeOK'
      BY <1>8 DEF Drain, Goto, RUnlock, Unlock, Returned, IInv, TypeOK, cacheVars, muxVars, Held, PC
    <2>2. MuxInv'
      BY <1>8 DEF Drain, Goto, RUnlock, Unlock, Returned, IInv, TypeOK, MuxInv, cacheVars, muxVars, PC
    <2>3. Others(p) /\ stmts' = stmts /\ pc[p] \notin Making
      BY <1>8 DEF Drain, Goto, RUnlock, Unlock, Returned, IInv, TypeOK, Others, Making, cacheVars, muxVars
    <2>4. StmtStep(p)
      BY <2>3 DEF StmtStep
    <2>5. CurAt(p)'
      BY <1>8, <2>3 DEF Drain, Goto, RUnlock, Unlock, Returned, Compatible, IInv, TypeOK, CurInv, CurAt, StmtInv, StmtAt, cacheVars, muxVars, PC, Stmt, StmtState, Running, Holding, Making
    <2>6. CacheInv'
      BY <1>8 DEF Drain, IInv, CacheInv, cacheVars, Held
    <2> QED BY <2>1, <2>2, <2>3, <2>4, <2>5, <2>6, SameStmts, Others1 DEF IInv
  <1>9. CASE WGet(p)
    <2>1. /\ pc[p] = "wget" /\ UNCHANGED <<store, evicted, displaced, stmts, closing, query, inTx, calls>>
          /\ query[p] \in Queries
      BY <1>9 DEF WGet, cacheVars, IInv, TypeOK, CurInv, CurAt, Running
    <2>2. Cache!Hit(query[p]) /\ cur' = [cur EXCEPT ![p] = Cache!Found(query[p])]
             /\ pc' = Goto(p, "wstmt") /\ UNCHANGED <<readers, writer>>
      BY <1>9 DEF WGet, muxVars
    <2>3. QED
      <3>1. Cache!Found(query[p]) \in DOMAIN stmts
        BY <2>2, HitTyped DEF IInv
      <3> DEFINE s == Cache!Found(query[p])
      <3>2. s \in DOMAIN stmts /\ s \in 0..MaxStmts
        BY <3>1, StmtTyped DEF IInv
      <3>3. cur' = [cur EXCEPT ![p] = s] /\ pc' = [pc EXCEPT ![p] = "wstmt"]
            /\ readers' = readers /\ writer' = writer
        BY <2>2 DEF Goto
      <3> HIDE DEF s
      <3>t. TypeOK'
        <4>1. cur' \in [Procs -> 0..MaxStmts] /\ pc' \in [Procs -> PC]
          BY <3>2, <3>3 DEF IInv, TypeOK, PC
        <4> QED BY <2>1, <3>3, <4>1 DEF IInv, TypeOK, Held
      <3>m. MuxInv'
        BY <2>1, <3>3 DEF IInv, TypeOK, MuxInv
      <3>o. Others(p) /\ stmts' = stmts /\ pc[p] \notin Making
        BY <2>1, <3>3 DEF IInv, TypeOK, Others, Making
      <3>c. CurAt(p)'
        BY <2>1, <3>2, <3>3 DEF IInv, TypeOK, CurAt, Holding, Making
      <3>s. StmtStep(p)
        BY <3>o DEF StmtStep
      <3>k. CacheInv'
        BY <2>1 DEF IInv, CacheInv, Held
      <3> QED BY <3>t, <3>m, <3>o, <3>s, <3>c, <3>k, SameStmts, Others1 DEF IInv
  <1>10. CASE WStmt(p)
    <2> DEFINE s == cur[p]
    <2>1. /\ pc[p] = "wstmt" /\ s \in DOMAIN stmts /\ stmts[s].prepared
          /\ UNCHANGED <<store, evicted, displaced, stmts, closing, query, cur, inTx, calls>>
      BY <1>10 DEF WStmt, cacheVars, IInv, CurInv, CurAt, Holding
    <2>2. stmts[s].state \in {"open", "failed", "closed"}
      BY <2>1, StmtTyped DEF IInv, StmtInv, StmtAt, StmtState
    <2>3. PICK at \in {"idle", "exec"} :
             /\ Unlock(p, at)
             /\ at = "exec" => Compatible(p, s) /\ stmts[s].state # "failed"
      BY <1>10 DEF WStmt, RUnlock, Returned
    <2>t. TypeOK'
      BY <1>10, <2>1, <2>3 DEF WStmt, Goto, RUnlock, Unlock, IInv, TypeOK, cacheVars, muxVars, Held, PC
    <2>m. MuxInv'
      BY <1>10, <2>1, <2>3 DEF WStmt, Goto, RUnlock, Unlock, IInv, TypeOK, MuxInv, PC
    <2>o. Others(p) /\ stmts' = stmts /\ pc[p] \notin Making
      BY <2>1, <2>3 DEF Goto, Unlock, IInv, TypeOK, Others, Making
    <2>c. CurAt(p)'
      <3>1. pc'[p] = at /\ query'[p] = query[p] /\ cur'[p] = s /\ inTx'[p] = inTx[p]
        BY <2>1, <2>3 DEF Goto, Unlock, IInv, TypeOK
      <3>2. query[p] \in Queries
        BY <2>1 DEF IInv, CurInv, CurAt, Running
      <3> HIDE DEF s
      <3>3. at = "exec" => (stmts[s].transaction => inTx[p])
        BY <2>3 DEF Compatible
      <3> QED BY <2>1, <2>2, <2>3, <3>1, <3>2, <3>3 DEF CurAt, Holding, Making, Running
    <2>s. StmtStep(p)
      BY <2>o DEF StmtStep
    <2>k. CacheInv'
      BY <1>10 DEF WStmt, IInv, CacheInv, cacheVars, Held
    <2> QED BY <2>t, <2>m, <2>o, <2>s, <2>c, <2>k, SameStmts, Others1 DEF IInv
  <1>11. CASE Exec(p)
    <2>1. TypeOK'
      BY <1>11 DEF Exec, Goto, RUnlock, Unlock, Returned, IInv, TypeOK, cacheVars, muxVars, Held, PC
    <2>2. MuxInv'
      BY <1>11 DEF Exec, Goto, RUnlock, Unlock, Returned, IInv, TypeOK, MuxInv, cacheVars, muxVars, PC
    <2>3. Others(p) /\ stmts' = stmts /\ pc[p] \notin Making
      BY <1>11 DEF Exec, Goto, RUnlock, Unlock, Returned, IInv, TypeOK, Others, Making, cacheVars, muxVars
    <2>4. StmtStep(p)
      BY <2>3 DEF StmtStep
    <2>5. CurAt(p)'
      BY <1>11, <2>3 DEF Exec, Goto, RUnlock, Unlock, Returned, Compatible, IInv, TypeOK, CurInv, CurAt, StmtInv, StmtAt, cacheVars, muxVars, PC, Stmt, StmtState, Running, Holding, Making
    <2>6. CacheInv'
      BY <1>11 DEF Exec, IInv, CacheInv, cacheVars, Held
    <2> QED BY <2>1, <2>2, <2>3, <2>4, <2>5, <2>6, SameStmts, Others1 DEF IInv
  <1>12. CASE ExecBadConn(p)
    <2>1. TypeOK'
      BY <1>12 DEF ExecBadConn, Goto, RUnlock, Unlock, Returned, IInv, TypeOK, cacheVars, muxVars, Held, PC
    <2>2. MuxInv'
      BY <1>12 DEF ExecBadConn, Goto, RUnlock, Unlock, Returned, IInv, TypeOK, MuxInv, cacheVars, muxVars, PC
    <2>3. Others(p) /\ stmts' = stmts /\ pc[p] \notin Making
      BY <1>12 DEF ExecBadConn, Goto, RUnlock, Unlock, Returned, IInv, TypeOK, Others, Making, cacheVars, muxVars
    <2>4. StmtStep(p)
      BY <2>3 DEF StmtStep
    <2>5. CurAt(p)'
      BY <1>12, <2>3 DEF ExecBadConn, Goto, RUnlock, Unlock, Returned, Compatible, IInv, TypeOK, CurInv, CurAt, StmtInv, StmtAt, cacheVars, muxVars, PC, Stmt, StmtState, Running, Holding, Making
    <2>6. CacheInv'
      BY <1>12 DEF ExecBadConn, IInv, CacheInv, cacheVars, Held
    <2> QED BY <2>1, <2>2, <2>3, <2>4, <2>5, <2>6, SameStmts, Others1 DEF IInv
  <1> QED BY <1>1, <1>2, <1>3, <1>4, <1>5, <1>6, <1>7, <1>8, <1>9, <1>10, <1>11, <1>12

\* Taking entries out, and closing what they held, keeps the cache's invariant.
LEMMA TakeOut ==
    ASSUME IInv, NEW K \in SUBSET Held, stmts' = stmts,
           Held' = Held \ K, store' = Without(K),
           evicted' = PairsOf(K), closing' = closing \cup StmtsOf(K)
    PROVE  /\ CacheInv'
           /\ (Held \subseteq Queries /\ store \in [Held -> Cache!Entries])'
           /\ evicted' \subseteq Queries \X StmtIds
           /\ (\A k \in Held : store[k].value \in DOMAIN stmts)'
           /\ closing' \subseteq DOMAIN stmts'
  <1>1. \A k \in Held' : k \in Held /\ k \notin K /\ store'[k] = store[k]
    BY DEF Without
  <1>2. \A k \in Held : store[k].value \in DOMAIN stmts /\ store[k].value \in StmtIds /\ k \in Queries
    BY StmtTyped DEF IInv, TypeOK, StmtIds
  <1>3. store' \in [Held' -> Cache!Entries]
    BY DEF Without, IInv, TypeOK
  <1>4. evicted' \subseteq Queries \X StmtIds
    BY <1>2 DEF PairsOf
  <1>5. closing' \subseteq DOMAIN stmts'
    BY <1>2 DEF StmtsOf, IInv, TypeOK
  <1>6. \A k \in Held' : store[k].value \notin StmtsOf(K)
    BY <1>1 DEF StmtsOf, IInv, CacheInv
  <1>7. CacheInv'
    BY <1>1, <1>6 DEF IInv, CacheInv
  <1> QED BY <1>1, <1>2, <1>3, <1>4, <1>5, <1>7 DEF IInv, TypeOK

\* The steps that delete from the cache by key and move on, outside the mutex.
LEMMA DeleteInv ==
    ASSUME IInv, NEW p \in Procs, Undo(p) \/ Forget(p)
    PROVE  IInv'
  <1>1. Delete(query[p]) /\ UNCHANGED <<displaced, stmts, query, cur, inTx, readers, writer, calls>>
    BY DEF Undo, Forget, Delete, muxVars
  <1>2. PICK at \in {"publish", "idle"} :
           /\ pc' = [pc EXCEPT ![p] = at]
           /\ at = "publish" => pc[p] = "undo"
           /\ at = "idle" => pc[p] = "bad"
    BY DEF Undo, Forget, Goto
  <1> DEFINE K == {query[p]} \cap Held
  <1>3. /\ K \in SUBSET Held
        /\ Held' = Held \ K /\ store' = Without(K)
        /\ evicted' = PairsOf(K) /\ closing' = closing \cup StmtsOf(K)
    BY <1>1, DeleteEffect
  <1> HIDE DEF K
  <1>k. /\ CacheInv'
        /\ (Held \subseteq Queries /\ store \in [Held -> Cache!Entries])'
        /\ evicted' \subseteq Queries \X StmtIds
        /\ (\A k \in Held : store[k].value \in DOMAIN stmts)'
        /\ closing' \subseteq DOMAIN stmts'
    BY <1>1, <1>3, TakeOut
  <1>t. TypeOK'
    <2>1. pc' \in [Procs -> PC]
      BY <1>2 DEF IInv, TypeOK, PC
    <2> QED BY <1>1, <1>k, <2>1 DEF IInv, TypeOK
  <1>m. MuxInv'
    BY <1>1, <1>2 DEF IInv, TypeOK, MuxInv
  <1>o. Others(p)
    BY <1>1, <1>2 DEF IInv, TypeOK, Others
  <1>s. StmtStep(p)
    BY <1>1 DEF StmtStep
  <1>c. CurAt(p)'
    BY <1>1, <1>2 DEF IInv, TypeOK, CurInv, CurAt, Running, Holding, Making
  <1>i. StmtInv'
    <2>1. \A s \in DOMAIN stmts : stmts[s].owner = p => StmtAt(s)'
      BY SMTT(60), <1>1, <1>2 DEF IInv, TypeOK, StmtInv, StmtAt, Making
    <2> QED BY <1>1, <1>o, <1>s, <2>1, OthersStmt DEF StmtInv
  <1> QED BY <1>k, <1>t, <1>m, <1>o, <1>s, <1>c, <1>i, Others1 DEF IInv

LEMMA CloseAllInv ==
    ASSUME IInv, NEW p \in Procs, CloseAll(p)
    PROVE  IInv'
  <1>1. /\ pc[p] = "wget" /\ UNCHANGED <<displaced, stmts, query, cur, inTx, calls>>
        /\ Unlock(p, "idle")
    BY DEF CloseAll
  <1> DEFINE K == {k \in Held : Cache!Hit(k)}
  <1>3. /\ K \in SUBSET Held
        /\ Held' = Held \ K /\ store' = Without(K)
        /\ evicted' = PairsOf(K) /\ closing' = closing \cup StmtsOf(K)
    BY DropEffect DEF CloseAll
  <1> HIDE DEF K
  <1>k. /\ CacheInv'
        /\ (Held \subseteq Queries /\ store \in [Held -> Cache!Entries])'
        /\ evicted' \subseteq Queries \X StmtIds
        /\ (\A k \in Held : store[k].value \in DOMAIN stmts)'
        /\ closing' \subseteq DOMAIN stmts'
    BY <1>1, <1>3, TakeOut
  <1>t. TypeOK'
    BY <1>1, <1>k DEF Unlock, IInv, TypeOK, PC
  <1>m. MuxInv'
    BY <1>1 DEF Unlock, IInv, TypeOK, MuxInv, PC
  <1>o. Others(p) /\ stmts' = stmts /\ pc[p] \notin Making
    BY <1>1 DEF Unlock, IInv, TypeOK, Others, Making
  <1>s. StmtStep(p)
    BY <1>1 DEF StmtStep
  <1>c. CurAt(p)'
    BY <1>1 DEF Unlock, IInv, TypeOK, CurAt, Running, Holding, Making
  <1> QED BY <1>k, <1>t, <1>m, <1>o, <1>s, <1>c, SameStmts, Others1 DEF IInv

LEMMA SweepInv ==
    ASSUME IInv, NEW k \in Queries, Sweep(k)
    PROVE  IInv'
  <1>1. Delete(k) /\ UNCHANGED <<displaced, stmts, pc, query, cur, inTx, readers, writer, calls>>
    BY DEF Sweep, Delete, muxVars
  <1> DEFINE K == {k} \cap Held
  <1>3. /\ K \in SUBSET Held
        /\ Held' = Held \ K /\ store' = Without(K)
        /\ evicted' = PairsOf(K) /\ closing' = closing \cup StmtsOf(K)
    BY <1>1, DeleteEffect
  <1> HIDE DEF K
  <1>k. /\ CacheInv'
        /\ (Held \subseteq Queries /\ store \in [Held -> Cache!Entries])'
        /\ evicted' \subseteq Queries \X StmtIds
        /\ (\A j \in Held : store[j].value \in DOMAIN stmts)'
        /\ closing' \subseteq DOMAIN stmts'
    BY <1>1, <1>3, TakeOut
  <1>t. TypeOK'
    BY <1>1, <1>k DEF IInv, TypeOK
  <1>r. MuxInv' /\ CurInv' /\ StmtInv'
    BY <1>1 DEF IInv, MuxInv, CurInv, CurAt, StmtInv, StmtAt
  <1> QED BY <1>k, <1>t, <1>r DEF IInv

LEMMA ExpireInv ==
    ASSUME IInv, NEW k \in Queries, Expire(k)
    PROVE  IInv'
  <1>1. /\ UNCHANGED <<evicted, displaced, stmts, closing, pc, query, cur, inTx, readers, writer, calls>>
        /\ store' = [store EXCEPT ![k].age = Cache!Past]
    BY DEF Expire, muxVars
  <1>2. Held' = Held /\ \A j \in Held : store'[j].value = store[j].value
    BY <1>1 DEF Held, IInv, TypeOK, Cache!Entries
  <1>3. store' \in [Held' -> Cache!Entries]
    BY ZenonT(60), <1>1, <1>2 DEF IInv, TypeOK, Cache!Entries, Cache!Ages
  <1>t. TypeOK'
    BY <1>1, <1>2, <1>3 DEF IInv, TypeOK
  <1>k. CacheInv'
    BY <1>1, <1>2 DEF IInv, CacheInv
  <1>r. MuxInv' /\ CurInv' /\ StmtInv'
    BY <1>1 DEF IInv, MuxInv, CurInv, CurAt, StmtInv, StmtAt
  <1> QED BY <1>k, <1>t, <1>r DEF IInv

\* The steps of a preparation, each of which changes the goroutine's own Stmt.
LEMMA MakeInv ==
    ASSUME IInv, NEW p \in Procs, PrepareOk(p) \/ PrepareFail(p) \/ Publish(p)
    PROVE  IInv'
  <1>4. PICK s : s = cur[p]
    OBVIOUS
  <1>1. /\ pc[p] \in Making /\ UNCHANGED <<store, evicted, displaced, closing, query, cur, inTx, readers, writer, calls>>
        /\ query[p] \in Queries
        /\ s \in DOMAIN stmts /\ stmts[s].owner = p /\ ~stmts[s].prepared
        /\ stmts[s].transaction = inTx[p]
        /\ pc[p] = "publish" => stmts[s].state \in {"open", "failed"}
    BY SMTT(60), <1>4 DEF PrepareOk, PrepareFail, Publish, cacheVars, muxVars, Making, IInv, CurInv, CurAt, Holding, Running
  <1>2. PICK at \in {"publish", "undo", "idle", "exec"}, now \in {"open", "failed"}, done \in BOOLEAN :
           /\ pc' = [pc EXCEPT ![p] = at]
           /\ stmts' = [stmts EXCEPT ![s] = [@ EXCEPT !.state = now, !.prepared = done]]
           /\ at \in {"publish", "undo"} <=> ~done
           /\ at = "undo" <=> (~done /\ now = "failed")
           /\ at = "exec" <=> (done /\ now = "open")
    <2>1. stmts[s] \in Stmt
      BY <1>1, StmtTyped DEF IInv
    <2>2. CASE PrepareOk(p)
      <3>1. [stmts[s] EXCEPT !.state = "open"] = [stmts[s] EXCEPT !.state = "open", !.prepared = FALSE]
        BY <1>1, <2>1 DEF Stmt
      <3> QED BY <1>4, <2>2, <3>1 DEF PrepareOk, Goto
    <2>3. CASE PrepareFail(p)
      <3>1. [stmts[s] EXCEPT !.state = "failed"] = [stmts[s] EXCEPT !.state = "failed", !.prepared = FALSE]
        BY <1>1, <2>1 DEF Stmt
      <3> QED BY <1>4, <2>3, <3>1 DEF PrepareFail, Goto
    <2>4. CASE Publish(p)
      <3> DEFINE now == stmts[s].state
      <3>1. now \in {"open", "failed"}
        BY <1>1, <2>4 DEF Publish
      <3>2. [stmts[s] EXCEPT !.prepared = TRUE] = [stmts[s] EXCEPT !.state = now, !.prepared = TRUE]
        BY <2>1 DEF Stmt
      <3>3. stmts' = [stmts EXCEPT ![s] = [@ EXCEPT !.state = now, !.prepared = TRUE]]
        BY <1>4, <2>4, <3>2 DEF Publish
      <3>4. CASE now = "open"
        BY <1>4, <2>4, <3>3, <3>4 DEF Publish, Goto, Returned
      <3>5. CASE now = "failed"
        BY <1>4, <2>4, <3>3, <3>5 DEF Publish, Goto, Returned
      <3> QED BY <3>1, <3>4, <3>5
    <2> QED BY <2>2, <2>3, <2>4
  <1>3. /\ stmts' \in Seq(Stmt) /\ Len(stmts') = Len(stmts) /\ DOMAIN stmts' = DOMAIN stmts
        /\ \A t \in DOMAIN stmts : t # s => stmts'[t] = stmts[t]
        /\ stmts'[s].state = now /\ stmts'[s].prepared = done
        /\ stmts'[s].owner = p /\ stmts'[s].transaction = inTx[p]
    <2>1. stmts[s] \in Stmt
      BY <1>1, StmtTyped DEF IInv
    <2>2. PICK new : new = [stmts[s] EXCEPT !.state = now, !.prepared = done]
      OBVIOUS
    <2>3. /\ new \in Stmt /\ new.state = now /\ new.prepared = done
          /\ new.owner = stmts[s].owner /\ new.transaction = stmts[s].transaction
      BY <2>1, <2>2, <1>2 DEF Stmt, StmtState
    <2>4. stmts' = [stmts EXCEPT ![s] = new]
      BY <1>2, <2>2
    <2> QED BY <1>1, <2>3, <2>4 DEF IInv, TypeOK
  <1>t. TypeOK'
    <2>1. pc' \in [Procs -> PC]
      BY <1>2 DEF IInv, TypeOK, PC
    <2> QED BY <1>1, <1>3, <2>1 DEF IInv, TypeOK, Held
  <1>m. MuxInv'
    BY SMTT(60), <1>1, <1>2 DEF IInv, TypeOK, MuxInv, Making
  <1>o. Others(p)
    BY <1>1, <1>2 DEF IInv, TypeOK, Others
  <1>s. StmtStep(p)
    BY <1>1, <1>3 DEF StmtStep
  <1>c. CurAt(p)'
    BY <1>1, <1>2, <1>3, <1>4 DEF IInv, TypeOK, CurAt, Running, Holding, Making
  <1>i. StmtInv'
    <2>1. \A t \in DOMAIN stmts : stmts[t].owner = p => t = s \/ stmts[t].prepared
      BY <1>4 DEF IInv, StmtInv, StmtAt
    <2>2. StmtAt(s)'
      BY <1>1, <1>2, <1>3, <1>4 DEF StmtAt, IInv, TypeOK, Making
    <2>3. \A t \in DOMAIN stmts : stmts[t].owner = p => StmtAt(t)'
      BY <1>3, <2>1, <2>2 DEF IInv, StmtInv, StmtAt
    <2> QED BY <1>3, <1>o, <1>s, <2>3, OthersStmt DEF StmtInv
  <1>k. CacheInv'
    BY <1>1, <1>2, <1>3 DEF IInv, TypeOK, CacheInv, Held
  <1> QED BY <1>t, <1>m, <1>o, <1>s, <1>c, <1>i, <1>k, Others1 DEF IInv

\* EndTx closes the statements of the transaction, none of which is being made.
LEMMA EndTxInv ==
    ASSUME IInv, NEW p \in Procs, EndTx(p)
    PROVE  IInv'
  <1>1. /\ pc[p] = "idle" /\ inTx' = [inTx EXCEPT ![p] = FALSE]
        /\ UNCHANGED <<store, evicted, displaced, closing, pc, query, cur, readers, writer, calls>>
    BY DEF EndTx, cacheVars, muxVars
  <1>2. \A s \in DOMAIN stmts : stmts[s] \in Stmt /\ (stmts[s].owner = p => stmts[s].prepared)
    BY <1>1, StmtTyped DEF IInv, StmtInv, StmtAt, Making
  <1>3. \A s \in DOMAIN stmts :
           /\ s \in DOMAIN stmts' /\ stmts'[s] \in Stmt
           /\ stmts'[s].owner = stmts[s].owner /\ stmts'[s].prepared = stmts[s].prepared
           /\ stmts'[s].transaction = stmts[s].transaction
           /\ \/ stmts'[s].state = stmts[s].state
              \/ /\ stmts[s].transaction /\ stmts[s].prepared /\ stmts[s].owner = p
                 /\ stmts[s].state = "open" /\ stmts'[s].state = "closed"
    BY <1>2 DEF EndTx, Stmt, StmtState
  <1>4. DOMAIN stmts' = DOMAIN stmts /\ stmts' \in Seq(Stmt) /\ Len(stmts') = Len(stmts)
    <2>1. /\ DOMAIN stmts = 1..Len(stmts) /\ Len(stmts) \in Nat
          /\ DOMAIN stmts' = DOMAIN stmts
      BY DEF EndTx, IInv, TypeOK
    <2>2. stmts' \in [1..Len(stmts) -> Stmt]
      BY <1>3, <2>1 DEF EndTx
    <2> QED BY <2>1, <2>2
  <1>t. TypeOK'
    BY <1>1, <1>4 DEF IInv, TypeOK, Held
  <1>m. MuxInv'
    BY <1>1 DEF IInv, MuxInv
  <1>o. Others(p)
    BY <1>1 DEF IInv, TypeOK, Others
  <1>s. StmtStep(p)
    BY <1>3 DEF StmtStep
  <1>c. CurAt(p)'
    BY <1>1 DEF CurAt, Running, Holding, Making
  <1>i. StmtInv'
    <2>1. \A s \in DOMAIN stmts : stmts[s].owner = p => StmtAt(s)'
      BY <1>2, <1>3 DEF IInv, StmtInv, StmtAt
    <2> QED BY <1>4, <1>o, <1>s, <2>1, OthersStmt DEF StmtInv
  <1>k. CacheInv'
    BY <1>1, <1>3 DEF IInv, TypeOK, CacheInv, Held
  <1> QED BY <1>t, <1>m, <1>o, <1>s, <1>c, <1>i, <1>k, Others1 DEF IInv

\* The goroutine onEvicted started closes a Stmt that has left the cache.
LEMMA CloseStmtInv ==
    ASSUME IInv, NEW s \in StmtIds, CloseStmt(s)
    PROVE  IInv'
  <1>1. /\ s \in closing /\ s \in DOMAIN stmts /\ stmts[s].prepared /\ stmts[s] \in Stmt
        /\ UNCHANGED <<store, evicted, displaced, pc, query, cur, inTx, readers, writer, calls>>
        /\ closing' = closing \ {s}
    BY StmtTyped DEF CloseStmt, cacheVars, muxVars, IInv, TypeOK
  <1>2. PICK new : new = [stmts[s] EXCEPT !.state = IF @ = "open" THEN "closed" ELSE @]
    OBVIOUS
  <1>3. /\ new \in Stmt /\ new.owner = stmts[s].owner /\ new.prepared = stmts[s].prepared
        /\ new.transaction = stmts[s].transaction
        /\ \/ new.state = stmts[s].state
           \/ stmts[s].state = "open" /\ new.state = "closed"
    BY <1>1, <1>2 DEF Stmt, StmtState
  <1>4. stmts' = [stmts EXCEPT ![s] = new]
    BY <1>2 DEF CloseStmt
  <1>5. /\ stmts' \in Seq(Stmt) /\ Len(stmts') = Len(stmts) /\ DOMAIN stmts' = DOMAIN stmts
        /\ stmts'[s] = new /\ \A t \in DOMAIN stmts : t # s => stmts'[t] = stmts[t]
    BY <1>1, <1>3, <1>4 DEF IInv, TypeOK
  <1>t. TypeOK'
    BY <1>1, <1>5 DEF IInv, TypeOK, Held
  <1>m. MuxInv'
    BY <1>1 DEF IInv, MuxInv
  <1>o. Others(None)
    BY <1>1 DEF Others
  <1>s. StmtStep(None)
    BY <1>1, <1>3, <1>5 DEF StmtStep
  <1>c. CurInv'
    BY <1>o, <1>s, OthersCur DEF CurInv
  <1>i. StmtInv'
    <2>1. \A t \in DOMAIN stmts : stmts[t].owner # None
      BY StmtTyped DEF IInv
    <2> QED BY <1>5, <1>o, <1>s, <2>1, OthersStmt DEF StmtInv
  <1>k. CacheInv'
    <2>1. \A k \in Held : store[k].value # s
      BY <1>1 DEF IInv, CacheInv
    <2>2. \A k \in Held : stmts'[store[k].value] = stmts[store[k].value]
      BY <1>5, <2>1 DEF IInv, TypeOK
    <2> QED BY <1>1, <2>2 DEF IInv, CacheInv, Held
  <1> QED BY <1>t, <1>m, <1>c, <1>i, <1>k DEF IInv

\* New files a Stmt of its own, that is in nobody's hands yet.
LEMMA NewInv ==
    ASSUME IInv, NEW p \in Procs, New(p)
    PROVE  IInv'
  <1>1. PICK n : n = Len(stmts) + 1
    OBVIOUS
  <1>2. /\ pc[p] \in {"wget", "wstmt"} /\ query[p] \in Queries
        /\ n \in StmtIds /\ n \in 0..MaxStmts /\ n \notin DOMAIN stmts
        /\ cur' = [cur EXCEPT ![p] = n]
        /\ UNCHANGED <<query, inTx, calls>>
    BY <1>1 DEF New, NewStmt, StmtIds, IInv, TypeOK, CurInv, CurAt, Running
  <1>3. PICK new : new = [transaction |-> inTx[p], owner |-> p, prepared |-> FALSE, state |-> "new"]
    OBVIOUS
  <1>4. /\ new \in Stmt /\ new.owner = p /\ ~new.prepared /\ new.state = "new"
        /\ new.transaction = inTx[p]
    BY <1>3 DEF Stmt, StmtState, IInv, TypeOK
  <1>5. /\ stmts' \in Seq(Stmt) /\ Len(stmts') = n /\ n =< MaxStmts
        /\ DOMAIN stmts' = DOMAIN stmts \cup {n}
        /\ stmts'[n] = new /\ \A t \in DOMAIN stmts : stmts'[t] = stmts[t]
    <2>1. stmts' = Append(stmts, new) /\ stmts \in Seq(Stmt) /\ Len(stmts) < MaxStmts
      BY <1>3 DEF New, IInv, TypeOK
    <2>2. /\ stmts' \in Seq(Stmt) /\ Len(stmts') = Len(stmts) + 1
          /\ stmts'[Len(stmts) + 1] = new
          /\ \A t \in 1..Len(stmts) : stmts'[t] = stmts[t]
      BY <2>1, <1>4
    <2>3. Len(stmts) \in Nat /\ DOMAIN stmts = 1..Len(stmts) /\ DOMAIN stmts' = 1..Len(stmts')
      BY <2>1, <2>2
    <2> QED BY <1>1, <2>1, <2>2, <2>3
  <1>6. Unlock(p, "prepare")
    BY DEF New
  <1>7. PICK K \in SUBSET (Held \ {query[p]}) :
           /\ Held' = (Held \ K) \cup {query[p]} /\ store' = With(query[p], n, K)
           /\ evicted' = PairsOf(K) /\ closing' = closing \cup StmtsOf(K)
    <2>1. Cache!Put(query[p], n) /\ OnEvicted
      BY <1>1 DEF New, NewStmt
    <2> QED BY <2>1, PutEffect
  <1>8. \A k \in Held : store[k].value \in DOMAIN stmts /\ store[k].value \in StmtIds /\ k \in Queries
    BY StmtTyped DEF IInv, TypeOK, StmtIds
  <1>9. /\ query[p] \in Held' /\ store'[query[p]].value = n
        /\ \A k \in Held' : k # query[p] => k \in Held \ K /\ store'[k] = store[k]
    BY <1>7 DEF With
  <1>t. TypeOK'
    <2>1. Held' \subseteq Queries /\ evicted' \subseteq Queries \X StmtIds
      BY <1>2, <1>7, <1>8 DEF PairsOf
    <2>2. store' \in [Held' -> Cache!Entries]
      <3>1. [value |-> n, age |-> Cache!Fresh] \in Cache!Entries
        BY <1>2 DEF Cache!Entries, Cache!Ages
      <3>2. \A k \in Held : store[k] \in Cache!Entries
        BY DEF IInv, TypeOK
      <3> QED BY <1>7, <3>1, <3>2 DEF With
    <2>3. (\A k \in Held : store[k].value \in DOMAIN stmts)'
      BY <1>5, <1>8, <1>9
    <2>4. closing' \subseteq DOMAIN stmts'
      BY <1>5, <1>7, <1>8 DEF StmtsOf, IInv, TypeOK
    <2>5. (pc \in [Procs -> PC] /\ readers \subseteq Procs /\ writer \in Procs \cup {None})'
      BY <1>6 DEF Unlock, IInv, TypeOK, PC
    <2>6. cur' \in [Procs -> 0..MaxStmts]
      BY <1>2 DEF IInv, TypeOK
    <2>7. displaced' \subseteq StmtIds
      BY <1>8 DEF New, Overwritten, IInv, TypeOK
    <2> QED BY <1>2, <1>5, <2>1, <2>2, <2>3, <2>4, <2>5, <2>6, <2>7 DEF IInv, TypeOK
  <1>m. MuxInv'
    BY <1>2, <1>6 DEF Unlock, IInv, TypeOK, MuxInv, PC
  <1>o. Others(p)
    BY <1>2, <1>6 DEF Unlock, IInv, TypeOK, Others
  <1>s. StmtStep(p)
    BY <1>5 DEF StmtStep
  <1>c. CurAt(p)'
    <2>1. pc'[p] = "prepare" /\ cur'[p] = n /\ query'[p] = query[p] /\ inTx'[p] = inTx[p]
      BY <1>2, <1>6 DEF Unlock, IInv, TypeOK
    <2> QED BY <1>2, <1>4, <1>5, <2>1 DEF CurAt, Making
  <1>i. StmtInv'
    <2>1. pc'[p] = "prepare" /\ cur'[p] = n
      BY <1>2, <1>6 DEF Unlock, IInv, TypeOK
    <2>2. \A s \in DOMAIN stmts : stmts[s].owner = p => stmts[s].prepared
      BY <1>2 DEF IInv, StmtInv, StmtAt, Making
    <2>3. \A s \in DOMAIN stmts : stmts[s].owner = p => StmtAt(s)'
      BY <1>5, <2>2 DEF IInv, StmtInv, StmtAt
    <2>4. StmtAt(n)'
      BY <1>4, <1>5, <2>1 DEF StmtAt, Making
    <2> QED BY <1>5, <1>o, <1>s, <2>3, <2>4, OthersStmt DEF StmtInv
  <1>k. CacheInv'
    <2>1. n \notin closing' /\ \A k \in Held : store[k].value # n
      BY <1>2, <1>7, <1>8 DEF StmtsOf, IInv, TypeOK
    <2>2. \A k \in Held \ K : store[k].value \notin StmtsOf(K)
      BY DEF StmtsOf, IInv, CacheInv
    <2>3. (\A j, k \in Held : store[j].value = store[k].value => j = k)'
      BY <1>9, <2>1 DEF IInv, CacheInv
    <2>4. \A k \in Held' : store'[k].value \notin closing'
      BY <1>7, <1>9, <2>1, <2>2 DEF IInv, CacheInv
    <2>5. (\A k \in Held : stmts[store[k].value].state = "closed" => stmts[store[k].value].transaction)'
      BY <1>4, <1>5, <1>8, <1>9 DEF IInv, CacheInv
    <2> QED BY <2>3, <2>4, <2>5 DEF CacheInv
  <1> QED BY <1>t, <1>m, <1>o, <1>s, <1>c, <1>i, <1>k, Others1 DEF IInv

LEMMA NextInv == IInv /\ [Next]_vars => IInv'
  <1> SUFFICES ASSUME IInv, [Next]_vars PROVE IInv'
    OBVIOUS
  <1>1. ASSUME NEW p \in Procs, Step(p) PROVE IInv'
    BY <1>1, QuietInv, NewInv, CloseAllInv, MakeInv, DeleteInv DEF Step
  <1>2. ASSUME NEW p \in Procs, Call(p) PROVE IInv'
    BY <1>2, QuietInv, EndTxInv DEF Call
  <1>3. CASE Background
    BY <1>3, CloseStmtInv, ExpireInv, SweepInv DEF Background
  <1>4. CASE UNCHANGED vars
    BY <1>4 DEF vars, cacheVars, muxVars, IInv, TypeOK, MuxInv, CurInv, CurAt, StmtInv, StmtAt,
                CacheInv, Held
  <1> QED BY <1>1, <1>2, <1>3, <1>4 DEF Next

\* Every reachable state satisfies the invariant: who holds the RWMutex, whose turn it is with
\* each statement, and what the map of prepared statements may still hand out.
THEOREM Invariance == Spec => []IInv
  BY InitInv, NextInv, PTL DEF Spec

------------------------------------------------------------------------------
(***************************************************************************)
(* The theorems.                                                           *)
(***************************************************************************)

\* The cache, the Stmts and the mutex keep their types.
THEOREM Typing == Spec => []TypeOK
  BY Invariance, PTL DEF IInv

\* What PreparedStmtDB.prepare returns without an error is prepared, has a
\* *sql.Stmt, and is a transaction's only for a caller in a transaction.
THEOREM Ready == Spec => []ReturnedIsReady
  <1>1. IInv => ReturnedIsReady
    BY DEF IInv, CurInv, CurAt, ReturnedIsReady
  <1> QED BY <1>1, Invariance, PTL

\* What lookups can still find, and no transaction owns, is neither closed nor
\* about to be by the goroutines onEvicted starts.
THEOREM Open == Spec => []CachedIsOpen
  <1>1. IInv => CachedIsOpen
    BY DEF IInv, CacheInv, CachedIsOpen
  <1> QED BY <1>1, Invariance, PTL

\* The waits on `prepared`, on Mux and on the pool make no cycle as long as
\* transactions cannot take up the whole pool: whatever waits, there is a
\* goroutine at the end of the chain that can go on.
THEOREM DeadlockFree ==
    ASSUME Cardinality(TxProcs) < MaxConns
    PROVE  Spec => []NoDeadlock
  <1>1. IInv => NoDeadlock
    <2> SUFFICES ASSUME IInv, NEW p \in Procs, pc[p] # "idle", \A q \in Procs : ~CanStep(q)
                 PROVE FALSE
      BY DEF NoDeadlock
    <2>1. FreeConn
      <3> DEFINE T == {q \in Procs : inTx[q]}
      <3>1. T \subseteq TxProcs
        BY DEF IInv, TypeOK
      <3>2. IsFiniteSet(TxProcs)
        BY FS_Subset
      <3>3. Cardinality(T) =< Cardinality(TxProcs)
        BY <3>1, <3>2, FS_Subset
      <3>4. IsFiniteSet(T)
        BY <3>1, <3>2, FS_Subset
      <3>5. Cardinality(T) \in Nat /\ Cardinality(TxProcs) \in Nat
        BY <3>2, <3>4, FS_CardinalityType
      <3>6. Cardinality(T) < MaxConns
        BY <3>3, <3>5
      <3> QED BY <3>6 DEF FreeConn
    <2>2. \A q \in Procs : pc[q] \notin Making /\ pc[q] # "exec"
      BY <2>1 DEF CanStep, HasConn, Making
    <2>3. \A s \in DOMAIN stmts : stmts[s].prepared
      BY <2>2, StmtTyped DEF IInv, StmtInv, StmtAt
    <2>4. \A q \in Procs : pc[q] \notin {"rget", "rstmt", "wget", "wstmt"}
      BY <2>3 DEF CanStep, IInv, CurInv, CurAt, Holding
    <2>5. readers = {}
      BY <2>4 DEF IInv, TypeOK, MuxInv
    <2>6. writer = None
      <3> SUFFICES ASSUME writer # None PROVE FALSE
        OBVIOUS
      <3>1. writer \in Procs /\ pc[writer] \in {"drain", "wget", "wstmt"}
        BY DEF IInv, TypeOK, MuxInv
      <3>2. pc[writer] = "drain"
        BY <3>1, <2>4
      <3> QED BY <2>5, <3>1, <3>2 DEF CanStep
    <2>7. pc[p] \notin {"lock", "rwait", "drain"}
      BY <2>5, <2>6 DEF CanStep, IInv, MuxInv
    <2>8. pc[p] \in PC
      BY DEF IInv, TypeOK
    <2> QED BY <2>2, <2>4, <2>7, <2>8 DEF CanStep, PC, Making
  <1> QED BY <1>1, Invariance, PTL

------------------------------------------------------------------------------
(***************************************************************************)
(* Nothing is leaked but what New files over once it has expired.          *)
(*                                                                         *)
(* The rest of the inductive invariant.  What is found under the write     *)
(* lock stays filed, or leaves through the callback, until its finder      *)
(* unlocks: only a transaction's Stmt, or an expired one, is filed over.   *)
(***************************************************************************)

TxInv == \A s \in DOMAIN stmts :
    stmts[s].state = "open" /\ stmts[s].transaction => inTx[stmts[s].owner]

FoundAt(p) == pc[p] = "wstmt" /\ query[p] \in Held => store[query[p]].value = cur[p]
WriterInv  == \A p \in Procs : FoundAt(p)

Kept(s)  == (\E k \in Held : store[k].value = s) \/ s \in closing \/ s \in displaced
FiledInv == \A s \in DOMAIN stmts :
    ~stmts[s].transaction /\ stmts[s].state \in {"new", "open"} => Kept(s)

LInv == TxInv /\ WriterInv /\ FiledInv

\* Entries that leave through the callback are closed, so they stay accounted for.
LEMMA TakenOutKept ==
    ASSUME LInv, NEW K \in SUBSET Held, Held' = Held \ K, store' = Without(K),
           closing' = closing \cup StmtsOf(K), displaced' = displaced
    PROVE  /\ \A s : Kept(s) => Kept(s)'
           /\ \A p \in Procs : (pc'[p] = "wstmt" => pc[p] = "wstmt")
                 /\ query'[p] = query[p] /\ cur'[p] = cur[p] => FoundAt(p)'
  <1>1. \A k \in Held' : k \in Held /\ k \notin K /\ store'[k] = store[k]
    BY DEF Without
  <1>3. ASSUME NEW s, Kept(s) PROVE Kept(s)'
    <2>1. CASE s \in closing \/ s \in displaced
      BY <2>1 DEF Kept
    <2>2. CASE \E k \in Held : store[k].value = s
      <3>1. PICK k \in Held : store[k].value = s
        BY <2>2
      <3>2. CASE k \in K
        BY <3>1, <3>2 DEF Kept, StmtsOf
      <3>3. CASE k \notin K
        BY <1>1, <3>1, <3>3 DEF Kept
      <3> QED BY <3>2, <3>3
    <2> QED BY <1>3, <2>1, <2>2 DEF Kept
  <1>4. ASSUME NEW p \in Procs, pc'[p] = "wstmt" => pc[p] = "wstmt",
               query'[p] = query[p], cur'[p] = cur[p]
        PROVE  FoundAt(p)'
    BY <1>1, <1>4 DEF LInv, WriterInv, FoundAt
  <1> QED BY <1>3, <1>4

\* A step of p with the cache as it was: the others have not lost what they found.
LEMMA FoundKept ==
    ASSUME IInv, LInv, NEW p, Others(p), UNCHANGED store
    PROVE  \A r \in Procs \ {p} : FoundAt(r)'
  <1> TAKE r \in Procs \ {p}
  <1>1. /\ pc'[r] = "wstmt" => pc[r] = "wstmt"
        /\ query'[r] = query[r] /\ cur'[r] = cur[r]
    BY DEF Others
  <1> QED BY <1>1 DEF LInv, WriterInv, FoundAt, Held

LEMMA InitLInv == Init => LInv
  BY DEF Init, LInv, TxInv, WriterInv, FoundAt, FiledInv, Held

\* The steps that touch neither the cache nor a Stmt.
LEMMA QuietLInv ==
    ASSUME IInv, LInv, NEW p \in Procs,
           \/ \E k \in Queries : Start(p, k)
           \/ StartClose(p) \/ BeginTx(p)
           \/ RLock(p) \/ RGet(p) \/ RStmt(p) \/ Lock(p) \/ Drain(p) \/ WGet(p) \/ WStmt(p)
           \/ Exec(p) \/ ExecBadConn(p)
    PROVE  LInv'
  <1>1. UNCHANGED <<store, displaced, stmts, closing>>
    BY DEF Start, StartClose, BeginTx, RLock, RGet, RStmt, Lock, Drain, WGet, WStmt, Exec,
           ExecBadConn, cacheVars, muxVars
  <1>2. \A q \in Procs : inTx[q] => inTx'[q]
    BY DEF Start, StartClose, BeginTx, RLock, RGet, RStmt, Lock, Drain, WGet, WStmt, Exec,
           ExecBadConn, cacheVars, muxVars, IInv, TypeOK
  <1>3. Others(p)
    <2> USE DEF Goto, RUnlock, Unlock, Returned, IInv, TypeOK, Others, cacheVars, muxVars
    <2>1. ASSUME NEW k \in Queries, Start(p, k) PROVE Others(p)
      BY <2>1 DEF Start
    <2>2. CASE StartClose(p)
      BY <2>2 DEF StartClose
    <2>3. CASE BeginTx(p)
      BY <2>3 DEF BeginTx
    <2>4. CASE RLock(p)
      BY <2>4 DEF RLock
    <2>5. CASE RGet(p)
      BY <2>5 DEF RGet
    <2>6. CASE RStmt(p)
      BY <2>6 DEF RStmt
    <2>7. CASE Lock(p) \/ Drain(p) \/ Exec(p) \/ ExecBadConn(p)
      BY <2>7 DEF Lock, Drain, Exec, ExecBadConn
    <2>8. CASE WGet(p)
      BY <2>8 DEF WGet
    <2>9. CASE WStmt(p)
      BY <2>9 DEF WStmt
    <2> QED BY <2>1, <2>2, <2>3, <2>4, <2>5, <2>6, <2>7, <2>8, <2>9
  <1>4. FoundAt(p)'
    <2>1. CASE WGet(p)
      BY <2>1, <1>1 DEF WGet, FoundAt, Cache!Found, IInv, TypeOK
    <2>2. CASE BeginTx(p)
      BY <2>2, <1>1 DEF BeginTx, FoundAt, LInv, WriterInv, Held
    <2>3. ASSUME ~WGet(p), ~BeginTx(p) PROVE pc'[p] # "wstmt"
      <3> USE DEF Goto, RUnlock, Unlock, Returned, IInv, TypeOK
      <3>1. ASSUME NEW k \in Queries, Start(p, k) PROVE pc'[p] # "wstmt"
        BY <3>1 DEF Start
      <3>2. CASE StartClose(p) \/ RLock(p) \/ RGet(p) \/ Lock(p) \/ Drain(p) \/ Exec(p) \/ ExecBadConn(p)
        BY <3>2 DEF StartClose, RLock, RGet, Lock, Drain, Exec, ExecBadConn
      <3>3. CASE RStmt(p)
        BY <3>3 DEF RStmt
      <3>4. CASE WStmt(p)
        BY <3>4 DEF WStmt
      <3> QED BY <2>3, <3>1, <3>2, <3>3, <3>4
    <2> QED BY <2>1, <2>2, <2>3 DEF FoundAt
  <1>5. WriterInv'
    BY <1>1, <1>3, <1>4, FoundKept DEF WriterInv
  <1>6. FiledInv'
    BY <1>1 DEF LInv, FiledInv, Kept, Held
  <1>7. TxInv'
    BY <1>1, <1>2, StmtTyped DEF IInv, LInv, TxInv
  <1> QED BY <1>5, <1>6, <1>7 DEF LInv

\* The steps that take entries out of the cache.
LEMMA DropLInv ==
    ASSUME IInv, LInv,
           \/ \E p \in Procs : Undo(p) \/ Forget(p) \/ CloseAll(p)
           \/ \E k \in Queries : Sweep(k)
    PROVE  LInv'
  <1>1. UNCHANGED <<displaced, stmts, inTx, query, cur>>
    BY DEF Undo, Forget, CloseAll, Sweep, Delete, muxVars
  <1>2. \A p \in Procs : pc'[p] = "wstmt" => pc[p] = "wstmt"
    <2>1. ASSUME NEW p \in Procs, Undo(p) \/ Forget(p) \/ CloseAll(p), NEW r \in Procs
          PROVE  pc'[r] = "wstmt" => pc[r] = "wstmt"
      BY <2>1 DEF Undo, Forget, CloseAll, Goto, Unlock, IInv, TypeOK
    <2>2. ASSUME NEW k \in Queries, Sweep(k) PROVE pc' = pc
      BY <2>2 DEF Sweep
    <2> QED BY <2>1, <2>2
  <1>3. PICK K \in SUBSET Held :
           Held' = Held \ K /\ store' = Without(K) /\ closing' = closing \cup StmtsOf(K)
    <2>1. ASSUME NEW k, Delete(k)
          PROVE  \E K \in SUBSET Held :
                    Held' = Held \ K /\ store' = Without(K) /\ closing' = closing \cup StmtsOf(K)
      <3>1. {k} \cap Held \in SUBSET Held
        OBVIOUS
      <3> QED BY <2>1, <3>1, DeleteEffect
    <2>2. ASSUME NEW p \in Procs, CloseAll(p)
          PROVE  \E K \in SUBSET Held :
                    Held' = Held \ K /\ store' = Without(K) /\ closing' = closing \cup StmtsOf(K)
      <3> DEFINE K == {k \in Held : Cache!Hit(k)}
      <3>1. K \in SUBSET Held
        OBVIOUS
      <3>2. Cache!Drop(K) /\ OnEvicted
        BY <2>2 DEF CloseAll
      <3> HIDE DEF K
      <3> QED BY <3>1, <3>2, DropEffect
    <2> QED BY <2>1, <2>2 DEF Undo, Forget, Sweep
  <1>4. WriterInv' /\ \A s : Kept(s) => Kept(s)'
    BY <1>1, <1>2, <1>3, TakenOutKept DEF WriterInv
  <1>5. FiledInv' /\ TxInv'
    BY <1>1, <1>4 DEF LInv, FiledInv, TxInv
  <1> QED BY <1>4, <1>5 DEF LInv

\* A step that neither touches the cache nor closes anything keeps what is kept.
LEMMA SameKept == UNCHANGED <<store, displaced, closing>> => \A s : Kept(s) => Kept(s)'
  BY DEF Kept, Held

\* The steps of a preparation: a Stmt that opens was new, and is a
\* transaction's only if its maker is in one.
LEMMA MakeLInv ==
    ASSUME IInv, LInv, NEW p \in Procs, PrepareOk(p) \/ PrepareFail(p) \/ Publish(p)
    PROVE  LInv'
  <1>1. PICK s : s = cur[p]
    OBVIOUS
  <1>2. /\ pc[p] \in Making /\ UNCHANGED <<store, displaced, closing, query, cur, inTx>>
        /\ s \in DOMAIN stmts /\ stmts[s].owner = p /\ stmts[s].transaction = inTx[p]
        /\ pc[p] = "prepare" => stmts[s].state = "new"
        /\ stmts[s] \in Stmt
    BY <1>1, StmtTyped DEF PrepareOk, PrepareFail, Publish, cacheVars, muxVars, Making, IInv,
       CurInv, CurAt, Holding
  <1>3. \E new : /\ stmts' = [stmts EXCEPT ![s] = new]
                 /\ new.owner = p /\ new.transaction = inTx[p]
                 /\ new.state \in {"new", "open"} => stmts[s].state \in {"new", "open"}
    <2>1. CASE PrepareOk(p)
      <3> DEFINE new == [stmts[s] EXCEPT !.state = "open"]
      <3>1. new.owner = p /\ new.transaction = inTx[p] /\ stmts[s].state = "new"
        BY <1>2, <2>1 DEF PrepareOk, Stmt
      <3>2. stmts' = [stmts EXCEPT ![s] = new]
        BY <1>1, <2>1 DEF PrepareOk
      <3> QED BY <3>1, <3>2
    <2>2. CASE PrepareFail(p)
      <3> DEFINE new == [stmts[s] EXCEPT !.state = "failed"]
      <3>1. new.owner = p /\ new.transaction = inTx[p] /\ new.state = "failed"
        BY <1>2 DEF Stmt
      <3>2. stmts' = [stmts EXCEPT ![s] = new]
        BY <1>1, <2>2 DEF PrepareFail
      <3> HIDE DEF new
      <3> QED BY <3>1, <3>2
    <2>3. CASE Publish(p)
      <3> DEFINE new == [stmts[s] EXCEPT !.prepared = TRUE]
      <3>1. new.owner = p /\ new.transaction = inTx[p] /\ new.state = stmts[s].state
        BY <1>2 DEF Stmt
      <3>2. stmts' = [stmts EXCEPT ![s] = new]
        BY <1>1, <2>3 DEF Publish
      <3> HIDE DEF new
      <3> QED BY <3>1, <3>2
    <2> QED BY <2>1, <2>2, <2>3
  <1>4. PICK new : /\ stmts' = [stmts EXCEPT ![s] = new]
                   /\ new.owner = p /\ new.transaction = inTx[p]
                   /\ new.state \in {"new", "open"} => stmts[s].state \in {"new", "open"}
    BY <1>3
  <1>5. /\ DOMAIN stmts' = DOMAIN stmts /\ stmts'[s] = new
        /\ \A t \in DOMAIN stmts : t # s => stmts'[t] = stmts[t]
    BY <1>2, <1>4 DEF IInv, TypeOK
  <1>6. WriterInv'
    <2>1. Others(p) /\ pc'[p] # "wstmt"
      BY <1>2 DEF PrepareOk, PrepareFail, Publish, Goto, Returned, Others, IInv, TypeOK
    <2> QED BY <1>2, <2>1, FoundKept DEF WriterInv, FoundAt
  <1>7. TxInv'
    BY <1>2, <1>4, <1>5 DEF LInv, TxInv
  <1>8. FiledInv'
    BY <1>2, <1>4, <1>5, SameKept DEF LInv, FiledInv
  <1> QED BY <1>6, <1>7, <1>8 DEF LInv

\* EndTx closes whatever the transaction has open.
LEMMA EndTxLInv ==
    ASSUME IInv, LInv, NEW p \in Procs, EndTx(p)
    PROVE  LInv'
  <1>1. /\ inTx' = [inTx EXCEPT ![p] = FALSE]
        /\ UNCHANGED <<store, displaced, closing, pc, query, cur>>
    BY DEF EndTx, cacheVars, muxVars
  <1>2. \A s \in DOMAIN stmts : stmts[s] \in Stmt /\ stmts[s].owner \in Procs
    BY StmtTyped DEF IInv
  <1>3. DOMAIN stmts' = DOMAIN stmts
    BY DEF EndTx
  <1>4. \A s \in DOMAIN stmts :
           /\ stmts'[s].owner = stmts[s].owner /\ stmts'[s].transaction = stmts[s].transaction
           /\ stmts'[s].state \in {"new", "open"} =>
                 /\ stmts'[s].state = stmts[s].state
                 /\ stmts[s].state = "open" /\ stmts[s].transaction => stmts[s].owner # p
    BY <1>2 DEF EndTx, Stmt, StmtState
  <1>5. WriterInv'
    BY <1>1 DEF LInv, WriterInv, FoundAt, Held
  <1>6. TxInv'
    <2> SUFFICES ASSUME NEW s \in DOMAIN stmts', stmts'[s].state = "open", stmts'[s].transaction
                 PROVE  inTx'[stmts'[s].owner]
      BY DEF TxInv
    <2>1. stmts[s].owner # p /\ inTx[stmts[s].owner] /\ stmts[s].owner \in Procs
      BY <1>2, <1>3, <1>4 DEF LInv, TxInv
    <2> QED BY <1>1, <1>3, <1>4, <2>1 DEF IInv, TypeOK
  <1>7. FiledInv'
    BY <1>1, <1>3, <1>4, SameKept DEF LInv, FiledInv
  <1> QED BY <1>5, <1>6, <1>7 DEF LInv

\* What a goroutine onEvicted started is done with is no longer open.
LEMMA CloseStmtLInv ==
    ASSUME IInv, LInv, NEW s \in StmtIds, CloseStmt(s)
    PROVE  LInv'
  <1>1. /\ s \in closing /\ s \in DOMAIN stmts /\ stmts[s].state # "new" /\ stmts[s] \in Stmt
        /\ UNCHANGED <<store, displaced, pc, query, cur, inTx>>
        /\ closing' = closing \ {s}
    BY StmtTyped DEF CloseStmt, cacheVars, muxVars, IInv, TypeOK, StmtInv, StmtAt
  <1>2. PICK new : new = [stmts[s] EXCEPT !.state = IF @ = "open" THEN "closed" ELSE @]
    OBVIOUS
  <1>3. new.state \notin {"new", "open"}
    BY <1>1, <1>2 DEF Stmt, StmtState
  <1>4. stmts' = [stmts EXCEPT ![s] = new]
    BY <1>2 DEF CloseStmt
  <1>5. /\ DOMAIN stmts' = DOMAIN stmts /\ stmts'[s] = new
        /\ \A t \in DOMAIN stmts : t # s => stmts'[t] = stmts[t]
    BY <1>1, <1>4 DEF IInv, TypeOK
  <1>6. WriterInv'
    BY <1>1 DEF LInv, WriterInv, FoundAt, Held
  <1>7. TxInv'
    BY <1>1, <1>3, <1>5 DEF LInv, TxInv
  <1>8. FiledInv'
    BY <1>1, <1>3, <1>5 DEF LInv, FiledInv, Kept, Held
  <1> QED BY <1>6, <1>7, <1>8 DEF LInv

\* The age of an entry says nothing of the Stmt in it.
LEMMA ExpireLInv ==
    ASSUME IInv, LInv, NEW k \in Queries, Expire(k)
    PROVE  LInv'
  <1>1. /\ UNCHANGED <<displaced, stmts, closing, pc, query, cur, inTx>>
        /\ k \in Held /\ store' = [store EXCEPT ![k].age = Cache!Past]
    BY DEF Expire, Cache!Hit, Cache!Held, Held
  <1>2. store[k] \in Cache!Entries
    BY <1>1 DEF IInv, TypeOK
  <1>3. PICK e : e = [store[k] EXCEPT !.age = Cache!Past]
    OBVIOUS
  <1>4. store' = [store EXCEPT ![k] = e] /\ e.value = store[k].value
    BY <1>1, <1>2, <1>3 DEF Cache!Entries
  <1>5. Held' = Held /\ \A j \in Held : store'[j].value = store[j].value
    BY <1>1, <1>4 DEF Held, IInv, TypeOK
  <1> QED BY <1>1, <1>5 DEF LInv, TxInv, WriterInv, FoundAt, FiledInv, Kept

\* New files over an entry only when that is a transaction's Stmt, found and
\* rejected under the write lock, or has expired.
LEMMA NewLInv ==
    ASSUME IInv, LInv, NEW p \in Procs, New(p)
    PROVE  LInv'
  <1>1. PICK n : n = Len(stmts) + 1
    OBVIOUS
  <1>2. PICK k : k = query[p]
    OBVIOUS
  <1>3. /\ pc[p] \in {"wget", "wstmt"} /\ UNCHANGED <<query, inTx>>
        /\ cur' = [cur EXCEPT ![p] = n] /\ Unlock(p, "prepare")
    BY <1>1 DEF New, NewStmt
  <1>4. PICK new : new = [transaction |-> inTx[p], owner |-> p, prepared |-> FALSE, state |-> "new"]
    OBVIOUS
  <1>5. /\ DOMAIN stmts' = DOMAIN stmts \cup {n}
        /\ stmts'[n] = new /\ \A t \in DOMAIN stmts : stmts'[t] = stmts[t]
    <2>1. stmts' = Append(stmts, new) /\ stmts \in Seq(Stmt) /\ new \in Stmt
      BY <1>4 DEF New, IInv, TypeOK, Stmt, StmtState
    <2>2. /\ stmts' \in Seq(Stmt) /\ Len(stmts') = Len(stmts) + 1
          /\ stmts'[Len(stmts) + 1] = new
          /\ \A t \in 1..Len(stmts) : stmts'[t] = stmts[t]
      BY <2>1
    <2>3. Len(stmts) \in Nat /\ DOMAIN stmts = 1..Len(stmts) /\ DOMAIN stmts' = 1..Len(stmts')
      BY <2>1, <2>2
    <2> QED BY <1>1, <2>2, <2>3
  <1>6. PICK K \in SUBSET (Held \ {k}) :
           /\ Held' = (Held \ K) \cup {k} /\ store' = With(k, n, K)
           /\ closing' = closing \cup StmtsOf(K)
    <2>1. Cache!Put(k, n) /\ OnEvicted
      BY <1>1, <1>2 DEF New, NewStmt
    <2> QED BY <2>1, PutEffect
  <1>7. /\ k \in Held' /\ store'[k] = [value |-> n, age |-> Cache!Fresh]
        /\ \A j \in Held \ K : j # k => j \in Held' /\ store'[j] = store[j]
        /\ \A j \in Held' : j # k => j \in Held /\ store'[j] = store[j]
    BY <1>6 DEF With
  <1>8. displaced' = displaced \cup Overwritten(k)
    BY <1>2 DEF New
  <1>9. k \in Held => stmts[store[k].value].transaction \/ store[k].value \in displaced'
    <2>1. CASE pc[p] = "wget"
      <3>1. ~Cache!Hit(k)
        BY <1>2, <2>1 DEF New
      <3>2. k \in Held => store[k].value \in Overwritten(k)
        BY <3>1 DEF Overwritten
      <3> QED BY <1>8, <3>2
    <2>2. CASE pc[p] = "wstmt"
      <3>1. stmts[cur[p]].transaction
        BY <2>2 DEF New, Compatible
      <3> QED BY <1>2, <2>2, <3>1 DEF LInv, WriterInv, FoundAt
    <2> QED BY <1>3, <2>1, <2>2
  <1>10. TxInv'
    BY <1>3, <1>4, <1>5 DEF LInv, TxInv
  <1>11. WriterInv'
    <2> SUFFICES ASSUME NEW r \in Procs PROVE pc'[r] # "wstmt"
      BY DEF WriterInv, FoundAt
    <2>1. writer = p
      BY <1>3 DEF IInv, MuxInv
    <2>2. r # p => pc[r] # "wstmt"
      BY <2>1 DEF IInv, MuxInv
    <2> QED BY <1>3, <2>2 DEF Unlock
  <1>12. ASSUME NEW s, Kept(s), s \in DOMAIN stmts, ~stmts[s].transaction PROVE Kept(s)'
    <2>1. CASE s \in closing \/ s \in displaced
      BY <1>6, <1>8, <2>1 DEF Kept
    <2>2. CASE \E j \in Held : store[j].value = s
      <3>1. PICK j \in Held : store[j].value = s
        BY <2>2
      <3>2. CASE j = k
        BY <1>9, <1>12, <3>1, <3>2 DEF Kept
      <3>3. CASE j \in K
        BY <1>6, <3>1, <3>3 DEF Kept, StmtsOf
      <3>4. CASE j # k /\ j \notin K
        BY <1>7, <3>1, <3>4 DEF Kept
      <3> QED BY <3>2, <3>3, <3>4
    <2> QED BY <1>12, <2>1, <2>2 DEF Kept
  <1>13. FiledInv'
    <2>1. Kept(n)'
      BY <1>7 DEF Kept
    <2> QED BY <1>5, <1>12, <2>1 DEF LInv, FiledInv
  <1> QED BY <1>10, <1>11, <1>13 DEF LInv

LEMMA NextLInv == IInv /\ LInv /\ [Next]_vars => LInv'
  <1> SUFFICES ASSUME IInv, LInv, [Next]_vars PROVE LInv'
    OBVIOUS
  <1>1. ASSUME NEW p \in Procs, Step(p) PROVE LInv'
    BY <1>1, QuietLInv, NewLInv, DropLInv, MakeLInv DEF Step
  <1>2. ASSUME NEW p \in Procs, Call(p) PROVE LInv'
    BY <1>2, QuietLInv, EndTxLInv DEF Call
  <1>3. CASE Background
    BY <1>3, CloseStmtLInv, DropLInv, ExpireLInv DEF Background
  <1>4. CASE UNCHANGED vars
    BY <1>4 DEF vars, cacheVars, muxVars, LInv, TxInv, WriterInv, FoundAt, FiledInv, Kept, Held
  <1> QED BY <1>1, <1>2, <1>3, <1>4 DEF Next

\* An open statement is in the cache, or about to be closed, or a transaction's
\* that is still open, or New put another over it after its time to live: no
\* interleaving of lookups, evictions, expiry and sweeps, failed preparations,
\* bad connections and Close loses one in any other way.
THEOREM NothingLeaks == Spec => []NoLeak
  <1>1. IInv /\ LInv => NoLeak
    BY DEF LInv, TxInv, FiledInv, Kept, NoLeak, Tracked, IInv
  <1>2. IInv /\ LInv /\ [Next]_vars => LInv'
    BY NextLInv
  <1> QED BY <1>1, <1>2, InitLInv, Invariance, PTL DEF Spec

------------------------------------------------------------------------------
(***************************************************************************)
(* The cache.                                                              *)
(***************************************************************************)

\* What a goroutine does to the cache is what ExpiringCache allows.
LEMMA DropsMap ==
    ASSUME NEW K \in SUBSET Queries, Cache!Drop(K) PROVE Cache!Next
  BY DEF Cache!Next

LEMMA StepMaps ==
    ASSUME IInv, NEW p \in Procs, Step(p)
    PROVE  [Cache!Next]_(Cache!vars)
  <1>1. CASE UNCHANGED cacheVars
    BY <1>1 DEF cacheVars, Cache!vars
  <1>2. CASE New(p)
    <2>1. query[p] \in Queries
      <3>1. pc[p] = "wstmt" => query[p] \in Queries
        BY DEF IInv, CurInv, CurAt, Running
      <3>2. query[p] \in Queries \cup {None}
        BY DEF IInv, TypeOK
      <3> QED BY <1>2, <3>1, <3>2 DEF New
    <2>2. NewStmt \in StmtIds
      <3>1. Len(stmts) \in Nat /\ Len(stmts) < MaxStmts
        BY <1>2 DEF New, IInv, TypeOK
      <3> QED BY <3>1 DEF NewStmt, StmtIds
    <2>3. Cache!Put(query[p], NewStmt)
      BY <1>2 DEF New
    <2> QED BY <2>1, <2>2, <2>3 DEF Cache!Next
  <1>3. CASE CloseAll(p)
    <2>1. Held \subseteq Queries
      BY DEF IInv, TypeOK
    <2>2. Cache!Drop({k \in Held : Cache!Hit(k)})
      BY <1>3 DEF CloseAll
    <2> QED BY <2>1, <2>2, DropsMap
  <1>4. CASE Undo(p) \/ Forget(p)
    <2>1. {query[p]} \cap Held \subseteq Queries
      BY DEF IInv, TypeOK
    <2>2. Cache!Drop({query[p]} \cap Held)
      BY <1>4 DEF Undo, Forget, Delete
    <2> QED BY <2>1, <2>2, DropsMap
  <1>5. Step(p) => New(p) \/ CloseAll(p) \/ Undo(p) \/ Forget(p) \/ UNCHANGED cacheVars
    BY DEF Step, RLock, RGet, RStmt, Lock, Drain, WGet, WStmt, PrepareOk, PrepareFail, Publish, Exec, ExecBadConn
  <1> QED BY <1>1, <1>2, <1>3, <1>4, <1>5

LEMMA CacheNext == IInv /\ [Next]_vars => [Cache!Next]_(Cache!vars)
  <1> SUFFICES ASSUME IInv, [Next]_vars PROVE [Cache!Next]_(Cache!vars)
    OBVIOUS
  <1>1. ASSUME NEW p \in Procs, Step(p) PROVE [Cache!Next]_(Cache!vars)
    BY <1>1, StepMaps
  <1>2. CASE UNCHANGED cacheVars
    BY <1>2 DEF cacheVars, Cache!vars
  <1>3. ASSUME NEW p \in Procs, Call(p) PROVE UNCHANGED cacheVars
    BY <1>3 DEF Call, BeginTx, EndTx, StartClose, Start
  <1>4. ASSUME NEW k \in Queries, Expire(k) PROVE Cache!Next
    <2>1. k \in Held /\ store' = [store EXCEPT ![k].age = Cache!Past] /\ evicted' = evicted
      BY <1>4 DEF Expire, Cache!Hit, Cache!Held, Held
    <2>2. store \in [Held -> Cache!Entries]
      BY DEF IInv, TypeOK
    <2>3. Cache!Past \in Cache!Ages /\ \A a \in Cache!Ages : Cache!Past >= a /\ a >= a
      BY DEF Cache!Past, Cache!Ages, Cache!Fresh, Cache!Due
    <2>4. \A j \in Held : store[j].age \in Cache!Ages /\ store[j].value \in StmtIds
      BY <2>2 DEF Cache!Entries
    <2>5. PICK e : e = [store[k] EXCEPT !.age = Cache!Past]
      OBVIOUS
    <2>6. store[k] \in Cache!Entries
      BY <2>1, <2>2
    <2>7. e \in Cache!Entries /\ e.value = store[k].value /\ e.age = Cache!Past
      BY <2>3, <2>5, <2>6 DEF Cache!Entries
    <2>8. PICK older : older = [store EXCEPT ![k] = e]
      OBVIOUS
    <2>9. older \in [Held -> Cache!Entries] /\ store' = older
          /\ \A j \in Held : older[j] = IF j = k THEN e ELSE store[j]
      BY <2>1, <2>2, <2>5, <2>7, <2>8
    <2>10. \A j \in Held : older[j].value = store[j].value /\ older[j].age >= store[j].age
      BY <2>3, <2>4, <2>7, <2>9
    <2>11. Cache!Held = Held
      BY DEF Cache!Held, Held
    <2>12. Cache!Age
      BY <2>1, <2>9, <2>10, <2>11 DEF Cache!Age
    <2> QED BY <2>12 DEF Cache!Next
  <1>5. ASSUME NEW k \in Queries, Sweep(k) PROVE Cache!Next
    <2>1. Cache!Drop({k} \cap Held) /\ {k} \cap Held \subseteq Queries
      BY <1>5 DEF Sweep, Delete
    <2> QED BY <2>1, DropsMap
  <1>6. ASSUME NEW s \in StmtIds, CloseStmt(s) PROVE UNCHANGED cacheVars
    BY <1>6 DEF CloseStmt
  <1>7. UNCHANGED vars => UNCHANGED cacheVars
    BY DEF vars
  <1> QED BY <1>1, <1>2, <1>3, <1>4, <1>5, <1>6, <1>7 DEF Next, Background

\* PreparedStmtDB and the statement store use the cache as ExpiringCache has
\* it, which internal/lru implements (LRUProofs): a statement is put under a query
\* or taken out, and grows old, and nothing else ever happens to one.
THEOREM UsesTheCache == Spec => Cache!Spec
  <1>1. Init => Cache!Init
    BY DEF Init, Cache!Init
  <1> QED BY <1>1, CacheNext, Invariance, PTL DEF Spec, Cache!Spec

\* What the cache does keeps it within its capacity.
Fits == IsFiniteSet(Held) /\ Cache!Bounded

LEMMA SameHeld == Cache!Held = Held
  BY DEF Cache!Held, Held

LEMMA SameCount == \A S : Cache!Cardinality(S) = Cardinality(S)
  BY DEF Cache!Cardinality, Cardinality

LEMMA CacheFits ==
    ASSUME Fits, [Cache!Next]_(Cache!vars)
    PROVE  Fits'
  <1>0. IsFiniteSet(Held) /\ Cardinality(Held) \in Nat /\ Cache!Held = Held /\ Capacity \in Nat
        /\ (Capacity > 0 => Cardinality(Held) =< Capacity)
    <2>1. Cache!Held = Held
      BY SameHeld
    <2>2. IsFiniteSet(Held) /\ (Capacity > 0 => Cardinality(Held) =< Capacity)
      BY <2>1, SameCount DEF Fits, Cache!Bounded
    <2> QED BY <2>1, <2>2, FS_CardinalityType
  <1>1. PICK H : H = Held'
    OBVIOUS
  <1>2. SUFFICES IsFiniteSet(H) /\ (Capacity > 0 => Cardinality(H) =< Capacity)
    <2>1. ASSUME IsFiniteSet(H), Capacity > 0 => Cardinality(H) =< Capacity PROVE Fits'
      <3>1. (Cache!Held)' = H
        BY <1>1 DEF Cache!Held, Held
      <3>2. Cache!Bounded' <=> (Capacity > 0 => Cardinality(H) =< Capacity)
        BY <3>1, SameCount DEF Cache!Bounded
      <3> QED BY <1>1, <2>1, <3>2 DEF Fits
    <2> QED BY <2>1
  <1>3. ASSUME H \subseteq Held PROVE IsFiniteSet(H) /\ (Capacity > 0 => Cardinality(H) =< Capacity)
    <2>1. IsFiniteSet(H) /\ Cardinality(H) =< Cardinality(Held)
      BY <1>0, <1>3, FS_Subset
    <2>2. Cardinality(H) \in Nat
      BY <2>1, FS_CardinalityType
    <2> QED BY <1>0, <2>1, <2>2
  <1>4. ASSUME NEW K, Cache!Release(K) PROVE H \subseteq Held
    BY <1>0, <1>1, <1>4 DEF Cache!Release, Held
  <1>5. ASSUME NEW k, NEW v, Cache!Renew(k, v) PROVE H \subseteq Held
    BY <1>1, <1>5 DEF Cache!Renew, Held
  <1>6. ASSUME NEW k, NEW v, Cache!Insert(k, v)
        PROVE  IsFiniteSet(H) /\ (Capacity > 0 => Cardinality(H) =< Capacity)
    <2>1. PICK gone \in SUBSET Held :
             /\ IF Capacity = 0 \/ Cardinality(Held) < Capacity THEN gone = {} ELSE Cardinality(gone) = 1
             /\ H = (Held \ gone) \cup {k}
      <3>1. PICK gone \in SUBSET Held :
               /\ IF Capacity = 0 \/ Cardinality(Held) < Capacity THEN gone = {} ELSE Cardinality(gone) = 1
               /\ store' = [j \in (Held \ gone) \cup {k} |->
                               IF j = k THEN [value |-> v, age |-> Cache!Fresh] ELSE store[j]]
        BY <1>0, <1>6, SameCount DEF Cache!Insert
      <3>2. DOMAIN store' = (Held \ gone) \cup {k}
        BY <3>1
      <3> QED BY <1>1, <3>1, <3>2 DEF Held
    <2>2. PICK R : R = Held \ gone
      OBVIOUS
    <2>3. IsFiniteSet(R) /\ Cardinality(R) = Cardinality(Held) - Cardinality(gone) /\ IsFiniteSet(gone)
      <3>1. Held \cap gone = gone
        OBVIOUS
      <3>2. IsFiniteSet(gone)
        BY <1>0, FS_Subset
      <3> QED BY <1>0, <2>2, <3>1, <3>2, FS_Difference
    <2>4. Cardinality(gone) \in Nat /\ Cardinality(R) \in Nat /\ (gone = {} => Cardinality(gone) = 0)
      BY <2>3, FS_CardinalityType, FS_EmptySet
    <2>5. k \notin R
      BY <1>0, <1>6, <2>2 DEF Cache!Insert
    <2>6. IsFiniteSet(H) /\ Cardinality(H) = Cardinality(R) + 1
      BY <2>1, <2>2, <2>3, <2>5, FS_AddElement
    <2>7. ASSUME Capacity > 0 PROVE Cardinality(H) =< Capacity
      <3>1. CASE Cardinality(Held) < Capacity
        BY <1>0, <2>1, <2>3, <2>4, <2>6, <3>1
      <3>2. CASE ~(Cardinality(Held) < Capacity)
        <4>1. Cardinality(gone) = 1
          BY <2>1, <2>7, <3>2
        <4> QED BY <1>0, <2>3, <2>4, <2>6, <2>7, <4>1
      <3> QED BY <3>1, <3>2
    <2> QED BY <2>6, <2>7
  <1>7. ASSUME NEW K, Cache!Drop(K) PROVE H \subseteq Held
    BY <1>4, <1>7 DEF Cache!Drop
  <1>8. ASSUME NEW n, Cache!SetCapacity(n) PROVE H \subseteq Held
    BY <1>4, <1>8 DEF Cache!SetCapacity
  <1>9. ASSUME Cache!Age PROVE H \subseteq Held
    BY <1>0, <1>1, <1>9 DEF Cache!Age, Held
  <1>10. CASE UNCHANGED Cache!vars
    <2>1. H = Held
      BY <1>1, <1>10 DEF Cache!vars, Held
    <2> QED BY <1>3, <2>1
  <1> QED BY <1>3, <1>5, <1>6, <1>7, <1>8, <1>9, <1>10 DEF Cache!Next, Cache!Put

\* However many goroutines prepare at once, there are never more statements in
\* the store than PrepareStmtMaxSize (which of them goes is the cache's choice).
THEOREM StoreIsBounded == Spec => []Cache!Bounded
  <1>1. Init => Fits
    <2>1. Init => Held = {} /\ Cache!Held = {}
      BY DEF Init, Held, Cache!Held
    <2> SUFFICES ASSUME Init PROVE Fits
      OBVIOUS
    <2>2. IsFiniteSet(Held) /\ Cardinality(Cache!Held) = 0
      BY <2>1, FS_EmptySet
    <2>3. Capacity > 0 => 0 =< Capacity
      OBVIOUS
    <2> QED BY <2>2, <2>3, SameCount DEF Fits, Cache!Bounded
  <1>2. IInv /\ Fits /\ [Next]_vars => Fits'
    BY CacheNext, CacheFits
  <1>3. Fits => Cache!Bounded
    BY DEF Fits
  <1> QED BY <1>1, <1>2, <1>3, Invariance, PTL DEF Spec
=============================================================================
