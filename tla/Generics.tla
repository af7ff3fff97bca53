------------------------------ MODULE Generics ------------------------------
(***************************************************************************)
(* The generic API over the chains (generics.go).                          *)
(*                                                                         *)
(* A G[T] keeps a DB and a list of operations (GenericOps), and makes      *)
(* nothing of them before the call that ends it: only then apply opens a   *)
(* session of the DB, and runs the operations on an instance of it.        *)
(***************************************************************************)
EXTENDS Chains, GenericOps, TLC

Unchanged4DBs == UNCHANGED <<mem, asked, sent>>

\* The calls that come back with a G[T], and touch no DB.
NewG(d, opts) == Tick /\ MayGoOn(d, "session") /\ G(d, opts) /\ Unchanged4DBs
NewChain(i, op) == Tick /\ With(i, op) /\ Unchanged4DBs
NewRaw(i, sql) ==
  /\ Tick
  /\ gens[i].rawed => "raw_twice" \in Liberties
  /\ Raw(i, sql)
  /\ Unchanged4DBs

\* Joins: the list is sorted by the name of the association after each.
SortJoins(m, d) ==
  LET j == StmtOf(m, d).joins
      sorted == SortSeq(Cells(m, j), <)
  IN [m EXCEPT !.arrays[j.arr] = sorted \o SubSeq(@, j.len + 1, Len(@))]

\* An operation on the instance.  Scopes runs its function at once, on the
\* Statement, and what the function returns is dropped.
GApply(m, d, op) ==
  CASE op.op = "join"   -> SortJoins(AddJoin(m, d, op.name), d)
    [] op.op = "scopes" -> ScopeCall(m, d, op.fn).mem
    [] OTHER            -> Apply(m, d, op)

RECURSIVE GAfter(_, _, _)
GAfter(m, d, ops) ==
  IF ops = <<>> THEN m ELSE GAfter(GApply(m, d, Head(ops)), d, Tail(ops))

\* The value that the operations stand for.
ScopeAsked(v, does) ==
  CASE does.does = "where"   -> [v EXCEPT !.conds = Append(@, Lit(does.cond))]
    [] does.does = "scopes"  -> [v EXCEPT !.scopes = Append(@, does.fn)]
    [] does.does = "session" -> v
GAskedOf(v, op) ==
  CASE op.op = "join"   -> [v EXCEPT !.joins = SortSeq(Append(@, op.name), <)]
    [] op.op = "scopes" -> ScopeAsked(v, ScopeDoes[op.fn])
    [] OTHER            -> Asked(v, op)

RECURSIVE GValue(_, _)
GValue(v, ops) == IF ops = <<>> THEN v ELSE GValue(GAskedOf(v, Head(ops)), Tail(ops))

\* apply: a session with a context and without conditions, an instance of it,
\* and the operations one by one.
Applied(m, d, ops) ==
  LET s == SessionOf(m, d, TRUE, TRUE)
      i == GetInstance(s, Len(s.dbs))
  IN [mem |-> GAfter(i.mem, i.tx, ops), tx |-> i.tx]

\* What a call that ended leaves for others to see: what it made for itself
\* nobody holds.
Collected(m) == [m EXCEPT !.dbs = SubSeq(@, 1, Len(mem.dbs)),
                          !.stmts = SubSeq(@, 1, Len(mem.stmts)),
                          !.arrays = SubSeq(@, 1, Len(mem.arrays))]

\* Find, First, Take, Last, Scan, Count, Row, Rows: apply, and the query.
Finish(i, kind) ==
  LET d == gens[i].db
      new == [NewValue EXCEPT !.pool = asked[d].pool, !.error = asked[d].error]
  IN /\ Tick
     /\ \E a \in {Applied(mem, d, OpsIn(opArrays, gens[i]))}, v \in {GValue(new, gAsked[i])} :
          /\ WellFormed(v)
          /\ \E r \in {QueryOn(a.mem, a.tx, kind)} :
               /\ mem' = Collected(r.mem)
               /\ sent' = [got |-> r.got, want |-> Wanted(v, kind)]
     /\ UNCHANGED <<asked, gvars>>

GInit == Init /\ OpsInit

GOps == {op \in Ops : op.op \notin {"group", "raw", "fail"}}
          \cup [op : {"scopes"}, fn : ScopeFns]

GNext ==
  \/ Next /\ UNCHANGED gvars
  \/ \E d \in DBs, opts \in {<<>>, <<[op |-> "unscoped"]>>} : NewG(d, opts)
  \/ \E i \in DOMAIN gens :
       \/ \E op \in GOps : NewChain(i, op)
       \/ \E sql \in {"sql1", "sql2"} : NewRaw(i, sql)
       \/ \E kind \in {"find", "count"} : Finish(i, kind)

GSpec == GInit /\ [][GNext]_<<vars, gvars>>
=============================================================================
