------------------------------- MODULE Chains -------------------------------
(***************************************************************************)
(* Handles and chains: what a *gorm.DB means (gorm.go, chainable_api.go,   *)
(* statement.go, clause/where.go, soft_delete.go, callbacks.go).           *)
(*                                                                         *)
(* A handle is a pointer to a DB, which points to a Statement, whose lists *)
(* are Go slices: an array, which others may hold too, and a length.  A    *)
(* handle with clone > 0 may be shared: each call on it starts a chain of  *)
(* its own.  A handle with clone = 0 is a chain, and a call on it writes   *)
(* into it.  The module keeps the memory as the program does, pointers and *)
(* arrays, and beside it (asked, an auxiliary variable) what each handle   *)
(* has been asked for, as a value: what is sent must be what was asked.    *)
(***************************************************************************)
EXTENDS Naturals, Sequences

CONSTANTS Conds,        \* conditions on a row, each true or false of it
          Calls,        \* the calls made in chains: records with the call's name
          ScopeFns,     \* the functions given to Scopes
          ScopeDoes,    \* what each of them does with the DB it is given
          Preludes,     \* what the sessions at hand were built from
          MaxSteps,     \* bound: calls in a behaviour
          Liberties     \* what callers do that the package does not keep up with

VARIABLES mem,          \* [arrays, stmts, dbs]: the heap
          asked,        \* per DB: the value of what it was asked for
          sent,         \* the last statement: what was sent, what was asked
          softDelete,   \* the model has a DeletedAt
          steps

vars == <<mem, asked, sent, softDelete, steps>>

None    == "none"
Nothing == [nothing |-> TRUE]
NotSent == [got |-> Nothing, want |-> Nothing]

-----------------------------------------------------------------------------
(* Slices. *)

Nil == [arr |-> 0, len |-> 0]

Cells(m, s) == IF s.arr = 0 THEN <<>> ELSE SubSeq(m.arrays[s.arr], 1, s.len)
Room(m, s)  == IF s.arr = 0 THEN 0 ELSE Len(m.arrays[s.arr])

\* A new array with these cells and some to spare, and the slice of it.
Make(m, cells, spare) ==
  IF Len(cells) + spare = 0
  THEN [mem |-> m, slice |-> Nil]
  ELSE [mem   |-> [m EXCEPT !.arrays = Append(@, cells \o [i \in 1..spare |-> None])],
        slice |-> [arr |-> Len(m.arrays) + 1, len |-> Len(cells)]]

\* append(s, x): in place when there is room, which whoever holds a longer
\* slice of the array sees, otherwise in an array of twice the size.
Extend(m, s, x) ==
  IF s.len < Room(m, s)
  THEN [mem   |-> [m EXCEPT !.arrays[s.arr][s.len + 1] = x],
        slice |-> [s EXCEPT !.len = @ + 1]]
  ELSE Make(m, Append(Cells(m, s), x), IF s.len = 0 THEN 0 ELSE s.len - 1)

-----------------------------------------------------------------------------
(* Conditions: literals, alternatives with one member, and groups.  In the *)
(* heap a group holds a slice, in a value the sequence itself.             *)

Lit(c)     == [is |-> "lit", cond |-> c]
Alive      == [is |-> "alive"]
OrCond(e)  == [is |-> "or", expr |-> e]
AndOf(es)  == [is |-> "and", exprs |-> es]
Grouped(s) == [is |-> "slice", of |-> s]

RECURSIVE Resolve(_, _)
Resolve(m, es) ==
  [i \in DOMAIN es |->
     CASE es[i].is = "slice" -> AndOf(Resolve(m, Cells(m, es[i].of)))
       [] es[i].is = "or"    -> OrCond(Resolve(m, <<es[i].expr>>)[1])
       [] OTHER              -> es[i]]

\* The text of a list of conditions is joined by AND, with OR before each
\* alternative but the first; AND binds before OR.
Split(es) == {i \in DOMAIN es : i = 1 \/ es[i].is = "or"}

RECURSIVE Holds(_, _)
HoldsAll(es, row) ==
  \/ es = <<>>
  \/ \E i \in Split(es) :
       LET end == {j \in Split(es) : j > i} IN
       \A j \in {k \in DOMAIN es : k >= i /\ \A n \in end : k < n} : Holds(es[j], row)
Holds(e, row) ==
  CASE e.is = "lit"   -> e.cond \in row.true
    [] e.is = "alive" -> ~row.deleted
    [] e.is = "or"    -> Holds(e.expr, row)
    [] e.is = "and"   -> HoldsAll(e.exprs, row)

Rows == [true : SUBSET Conds, deleted : BOOLEAN]

\* Where.Build moves the first plain condition to the front.
FirstPlain(es) ==
  IF \A i \in DOMAIN es : es[i].is = "or" THEN 0
  ELSE CHOOSE i \in DOMAIN es : es[i].is # "or" /\ \A j \in 1..(i - 1) : es[j].is = "or"
Ordered(es) ==
  LET p == FirstPlain(es) IN
  IF p <= 1 THEN es ELSE [es EXCEPT ![1] = es[p], ![p] = es[1]]

\* ... and a clause that is one group stands for its members.
Selected(es) ==
  LET inner == IF Len(es) = 1 /\ es[1].is = "and" THEN es[1].exprs ELSE es IN
  {row \in Rows : HoldsAll(Ordered(inner), row)}

-----------------------------------------------------------------------------
(* Statements and DBs. *)

NewStatement == [where |-> Nil, joins |-> Nil, scopes |-> Nil, selects |-> None,
                 select |-> None, order |-> <<>>, unscoped |-> FALSE,
                 softOn |-> FALSE, raw |-> None, pool |-> "db"]

StmtOf(m, d) == m.stmts[m.dbs[d].stmt]

PutStmt(m, d, st) == [m EXCEPT !.stmts[m.dbs[d].stmt] = st]

AddDB(m, clone, s, error) ==
  [m EXCEPT !.dbs = Append(@, [clone |-> clone, stmt |-> s, error |-> error])]

\* Mutant: the copy holds the slices of the original.
CloneStmt_SameSlices(m, s) == [m EXCEPT !.stmts = Append(@, m.stmts[s])]

\* Statement.clone: Joins and scopes are copied into arrays of their own, the
\* Clauses entry by entry, so that the copy of WHERE holds the same slice.
CloneStmt(m, s) ==
  LET j == Make(m, Cells(m, m.stmts[s].joins), 0)
      f == Make(j.mem, Cells(m, m.stmts[s].scopes), 0)
  IN [f.mem EXCEPT !.stmts = Append(@, [m.stmts[s] EXCEPT !.joins = j.slice,
                                                          !.scopes = f.slice])]

\* Mutant: an instance of a session keeps the session's Statement.
GetInstance_Shared(m, d) ==
  LET db == m.dbs[d]
      fresh == [m EXCEPT !.stmts = Append(@, [NewStatement EXCEPT !.pool = StmtOf(m, d).pool])]
  IN IF db.clone = 0 THEN [mem |-> m, tx |-> d]
     ELSE [mem |-> IF db.clone = 1 THEN AddDB(fresh, 0, Len(fresh.stmts), db.error)
                   ELSE AddDB(m, 0, db.stmt, db.error),
           tx |-> Len(m.dbs) + 1]

\* getInstance: a chain is its own instance, a shared handle starts one, with
\* a new Statement or with a clone of its own.
GetInstance(m, d) ==
  LET db == m.dbs[d]
      fresh == [m EXCEPT !.stmts = Append(@, [NewStatement EXCEPT !.pool = StmtOf(m, d).pool])]
      with == IF db.clone = 1 THEN fresh ELSE CloneStmt(m, db.stmt)
  IN IF db.clone = 0 THEN [mem |-> m, tx |-> d]
     ELSE [mem |-> AddDB(with, 0, Len(with.stmts), db.error), tx |-> Len(m.dbs) + 1]

\* Session: a shared handle over the same Statement, or over a clone of it
\* when a context comes with it.
SessionOf(m, d, newDB, context) ==
  LET with == IF context THEN CloneStmt(m, m.dbs[d].stmt) ELSE m
  IN AddDB(with, IF newDB THEN 1 ELSE 2,
           IF context THEN Len(with.stmts) ELSE m.dbs[d].stmt, m.dbs[d].error)

\* Begin: an instance, a session with the context, and the pool of the
\* transaction in the clone of the Statement that the session brings.
BeginOf(m, d) ==
  LET i == GetInstance(m, d)
      s == SessionOf(i.mem, i.tx, m.dbs[d].clone = 1, TRUE)
  IN [s EXCEPT !.stmts[Len(s.stmts)].pool = "tx"]

-----------------------------------------------------------------------------
(* The calls of a chain, each on its instance. *)

\* Where.MergeClause: the old and the new conditions in an array of their own;
\* the first ones stay in the array BuildCondition made, with room to spare.
AddWhere(m, d, e) ==
  LET st  == StmtOf(m, d)
      new == IF st.where = Nil THEN Make(m, <<e>>, 1)
             ELSE Make(m, Append(Cells(m, st.where), e), 0)
  IN PutStmt(new.mem, d, [st EXCEPT !.where = new.slice])

AddJoin(m, d, name) ==
  LET j == Extend(m, StmtOf(m, d).joins, name)
  IN PutStmt(j.mem, d, [StmtOf(m, d) EXCEPT !.joins = j.slice])

AddScope(m, d, f) ==
  LET s == Extend(m, StmtOf(m, d).scopes, f)
  IN PutStmt(s.mem, d, [StmtOf(m, d) EXCEPT !.scopes = s.slice])

\* Select: the columns, and no SELECT clause of an earlier query.
SetSelect(m, d, col) ==
  PutStmt(m, d, [StmtOf(m, d) EXCEPT !.selects = col, !.select = None])

\* One function given to Scopes: it returns the DB it leaves.
ScopeCall(m, d, f) ==
  LET i == GetInstance(m, d)
      does == ScopeDoes[f]
  IN CASE does.does = "where"   -> [mem |-> AddWhere(i.mem, i.tx, Lit(does.cond)), tx |-> i.tx]
       [] does.does = "scopes"  -> [mem |-> AddScope(i.mem, i.tx, does.fn), tx |-> i.tx]
       [] does.does = "session" -> [mem |-> SessionOf(m, d, FALSE, FALSE), tx |-> Len(m.dbs) + 1]

RECURSIVE CallEach(_, _, _)
CallEach(m, d, fs) ==
  IF fs = <<>> THEN [mem |-> m, tx |-> d]
  ELSE LET c == ScopeCall(m, d, Head(fs)) IN CallEach(c.mem, c.tx, Tail(fs))

\* executeScopes: the scopes are taken off the Statement before they run.
ExecuteScopes(m, d) ==
  LET fs == Cells(m, StmtOf(m, d).scopes)
  IN CallEach(PutStmt(m, d, [StmtOf(m, d) EXCEPT !.scopes = Nil]), d, fs)

\* Execute goes on until no scope has added another.
RECURSIVE AllScopes(_, _)
AllScopes(m, d) ==
  IF StmtOf(m, d).scopes.len = 0 THEN [mem |-> m, tx |-> d]
  ELSE LET e == ExecuteScopes(m, d) IN AllScopes(e.mem, e.tx)

\* BuildCondition with a DB: its scopes run on it, what they return is dropped,
\* a single alternative becomes a group where it stands, and the conditions
\* are taken over with their array.
TakeOver(m, d, w) ==
  LET es == Cells(m, w) IN
  CASE w.len = 0 -> m
    [] w.len = 1 /\ es[1].is = "or" ->
         LET own == AndOf(<<es[1].expr>>)
         IN AddWhere([m EXCEPT !.arrays[w.arr][1] = own], d, own)
    [] w.len = 1 /\ es[1].is # "or" -> AddWhere(m, d, es[1])
    [] w.len > 1 -> AddWhere(m, d, Grouped(w))
AddConds(m, d, g) == TakeOver(m, d, StmtOf(m, g).where)
AddGroup(m, d, g) == AddConds(ExecuteScopes(m, g).mem, d, g)

Apply(m, d, op) ==
  CASE op.op = "where"    -> AddWhere(m, d, Lit(op.cond))
    [] op.op = "or"       -> AddWhere(m, d, OrCond(Lit(op.cond)))
    [] op.op = "group"    -> AddGroup(m, d, op.db)
    [] op.op = "join"     -> AddJoin(m, d, op.name)
    [] op.op = "scopes"   -> AddScope(m, d, op.fn)
    [] op.op = "select"   -> SetSelect(m, d, op.col)
    [] op.op = "order"    -> PutStmt(m, d, [StmtOf(m, d) EXCEPT !.order = Append(@, op.col)])
    [] op.op = "unscoped" -> PutStmt(m, d, [StmtOf(m, d) EXCEPT !.unscoped = TRUE])
    [] op.op = "raw"      -> PutStmt(m, d, [StmtOf(m, d) EXCEPT !.raw = op.sql])
    [] op.op = "fail"     -> [m EXCEPT !.dbs[d].error = TRUE]

-----------------------------------------------------------------------------
(* Running a query on an instance. *)

\* The soft-delete clause: once per Statement, the conditions so far become a
\* group if there is an alternative among them, and the filter is added.
FilterDeleted(m, d) ==
  LET st == StmtOf(m, d)
      es == Cells(m, st.where)
      g  == Make(m, <<Grouped(st.where)>>, 0)
      m1 == IF \E i \in DOMAIN es : es[i].is = "or"
            THEN PutStmt(g.mem, d, [st EXCEPT !.where = g.slice]) ELSE m
      m2 == AddWhere(m1, d, Alive)
  IN IF ~softDelete \/ st.softOn \/ st.unscoped THEN m
     ELSE PutStmt(m2, d, [StmtOf(m2, d) EXCEPT !.softOn = TRUE])

\* Where.Build orders the conditions in the array they are in.
BuildWhere(m, d) ==
  LET w  == StmtOf(m, d).where
      es == Cells(m, w)
      s  == IF Len(es) = 1 /\ es[1].is = "slice" THEN es[1].of ELSE w
      in == Ordered(Cells(m, s))
  IN IF Len(es) = 1 /\ es[1].is = "and" THEN m
     ELSE [m EXCEPT !.arrays = [a \in DOMAIN @ |->
             IF a = s.arr THEN in \o SubSeq(@[a], s.len + 1, Len(@[a])) ELSE @[a]]]

\* The SELECT clause: one that is there already is kept.
SelectSent(st) == IF st.select # None THEN st.select
                  ELSE IF st.selects # None THEN st.selects ELSE "all"

\* FROM with the joins of the Statement; they are taken out of the clause again
\* when the query is done.
JoinsSent(m, st) == Cells(m, st.joins)

\* BuildQuerySQL: SQL that is there already is sent as it is.
SendBuilt(b, d, st) ==
  [mem |-> b, tx |-> d,
   got |-> [rows   |-> Selected(Resolve(b, Cells(b, st.where))),
            joins  |-> JoinsSent(b, st), select |-> st.select,
            order  |-> st.order, pool |-> st.pool]]
SendRaw(m, d, st) ==
  [mem |-> PutStmt(m, d, [st EXCEPT !.raw = None]), tx |-> d,
   got |-> [raw |-> st.raw, pool |-> st.pool]]
SendStmt(m, d, st) ==
  IF st.raw # None THEN SendRaw(m, d, st)
  ELSE LET built == [st EXCEPT !.select = SelectSent(st)]
       IN SendBuilt(BuildWhere(PutStmt(m, d, built), d), d, built)

\* The query: nothing after an error.
SendFiltered(f, d) == SendStmt(f, d, StmtOf(f, d))
Send(m, d) ==
  IF m.dbs[d].error THEN [mem |-> m, tx |-> d, got |-> Nothing]
  ELSE SendFiltered(FilterDeleted(m, d), d)

\* Find: an instance, its scopes, the query.
FindOn(m, d) ==
  LET i == GetInstance(m, d)
      s == AllScopes(i.mem, i.tx)
  IN Send(s.mem, s.tx)

\* Count: it puts its own SELECT clause in and takes ORDER BY out.  The clauses
\* it puts back when it has run are those of the DB it was called on, and go to
\* the Statement that Execute returned; when that DB had no SELECT clause, its
\* own is deleted from the instance, which a scope may have left for a clone.
Restored(q, had, instance) ==
  LET st == StmtOf(q.mem, q.tx)
      m1 == PutStmt(q.mem, q.tx, [st EXCEPT
              !.select = IF had.select # None THEN had.select ELSE @,
              !.order  = IF had.order # <<>> THEN had.order ELSE @])
  IN [q EXCEPT !.mem = IF had.select # None THEN m1
                       ELSE PutStmt(m1, instance, [StmtOf(m1, instance) EXCEPT !.select = None])]
CountOn(m, d) ==
  LET i   == GetInstance(m, d)
      had == StmtOf(m, d)
      m1  == PutStmt(i.mem, i.tx, [StmtOf(i.mem, i.tx) EXCEPT
               !.select = "count", !.order = IF had.order # <<>> THEN <<>> ELSE @])
      s   == AllScopes(m1, i.tx)
  IN Restored(Send(s.mem, s.tx), had, i.tx)

QueryOn(m, d, kind) == IF kind = "count" THEN CountOn(m, d) ELSE FindOn(m, d)

-----------------------------------------------------------------------------
(* What was asked, as a value. *)

NewValue == [conds |-> <<>>, joins |-> <<>>, scopes |-> <<>>, selects |-> None,
             order |-> <<>>, unscoped |-> FALSE, raw |-> None, pool |-> "db",
             error |-> FALSE, state |-> "open"]

\* The conditions the scopes add, in their order; scopes that scopes add last.
RECURSIVE ScopeConds(_)
ScopeConds(fs) ==
  IF fs = <<>> THEN <<>>
  ELSE LET does == ScopeDoes[Head(fs)] IN
       CASE does.does = "where"   -> <<Lit(does.cond)>> \o ScopeConds(Tail(fs))
         [] does.does = "scopes"  -> ScopeConds(Append(Tail(fs), does.fn))
         [] does.does = "session" -> ScopeConds(Tail(fs))

AllConds(v) == v.conds \o ScopeConds(v.scopes)

GroupOf(es) ==
  CASE Len(es) = 0 -> <<>>
    [] Len(es) = 1 -> <<IF es[1].is = "or" THEN AndOf(<<es[1].expr>>) ELSE es[1]>>
    [] OTHER       -> <<AndOf(es)>>

Asked(v, op) ==
  CASE op.op = "where"    -> [v EXCEPT !.conds = Append(@, Lit(op.cond))]
    [] op.op = "or"       -> [v EXCEPT !.conds = Append(@, OrCond(Lit(op.cond)))]
    [] op.op = "group"    -> [v EXCEPT !.conds = @ \o GroupOf(AllConds(asked[op.db]))]
    [] op.op = "join"     -> [v EXCEPT !.joins = Append(@, op.name)]
    [] op.op = "scopes"   -> [v EXCEPT !.scopes = Append(@, op.fn)]
    [] op.op = "select"   -> [v EXCEPT !.selects = op.col]
    [] op.op = "order"    -> [v EXCEPT !.order = Append(@, op.col)]
    [] op.op = "unscoped" -> [v EXCEPT !.unscoped = TRUE]
    [] op.op = "raw"      -> [v EXCEPT !.raw = op.sql]
    [] op.op = "fail"     -> [v EXCEPT !.error = TRUE]

\* The statement a value stands for.
Wanted(v, kind) ==
  CASE v.error -> Nothing
    [] v.raw # None -> [raw |-> v.raw, pool |-> v.pool]
    [] OTHER ->
         [rows   |-> {row \in Selected(AllConds(v)) :
                        row.deleted => ~softDelete \/ v.unscoped},
          joins  |-> v.joins,
          select |-> IF kind = "count" THEN "count"
                     ELSE IF v.selects # None THEN v.selects ELSE "all",
          order  |-> IF kind = "count" THEN <<>> ELSE v.order,
          pool   |-> v.pool]

\* What Count leaves that is not what the DB was asked for: its SELECT clause,
\* when the scopes returned another Statement than the instance's; and the
\* clauses of the Statement behind a session that is to start without them.
LeavesTraces(d, r) ==
  \/ StmtOf(r.mem, r.tx).select = "count"
  \/ /\ mem.dbs[d].clone = 1
     /\ StmtOf(mem, d).select # None \/ StmtOf(mem, d).order # <<>>

\* What a value is after it has run.
Ran(v, ok) == [v EXCEPT !.conds = AllConds(v), !.scopes = <<>>,
                        !.raw = IF v.error THEN @ ELSE None, !.error = @ \/ ~ok]

\* What an instance of a DB starts from.
InstanceValue(m, d) ==
  CASE m.dbs[d].clone = 1 -> [NewValue EXCEPT !.pool = asked[d].pool, !.error = asked[d].error]
    [] OTHER -> asked[d]

-----------------------------------------------------------------------------
(* The steps of the callers. *)

DBs == DOMAIN mem.dbs

IsChain(d) == mem.dbs[d].clone = 0

HasOr(es) == \E i \in DOMAIN es : es[i].is = "or"

\* Callers keep to five rules, unless they take the liberty:
\* "begin_with_or": with soft delete the conditions become a group, without the
\* exchange that Build makes for a first alternative, so none comes first;
WellFormed(v) ==
  "begin_with_or" \in Liberties \/ ~softDelete \/ Ordered(AllConds(v)) = AllConds(v)

\* "go_on_after_handing_out": a chain made into a session or given to another
\* call is not used again;
\* "add_after_run": a chain that has run gets no alternative, and no condition
\* when it has alternatives, and stays as scoped as it was;
\* "go_on_after_count": a DB that Count has left its traces in is not used again;
MayGoOn(d, op) ==
  /\ asked[d].state = "spent" => "go_on_after_handing_out" \in Liberties
  /\ asked[d].state = "counted" => "go_on_after_count" \in Liberties
  /\ asked[d].state \in {"ran", "counted"} =>
       \/ "add_after_run" \in Liberties
       \/ /\ op \notin {"or", "group", "unscoped"}
          /\ op \in {"where", "scopes"} => ~HasOr(asked[d].conds)

\* "share_a_group": what is given as a group is a chain nobody has run, whose
\* conditions Build would leave in their order, and whose scopes only add
\* conditions.
MayGroup(g) ==
  \/ "share_a_group" \in Liberties
  \/ /\ IsChain(g)
     /\ asked[g].state = "open"
     /\ Ordered(AllConds(asked[g])) = AllConds(asked[g])
     /\ \A i \in DOMAIN asked[g].scopes : ScopeDoes[asked[g].scopes[i]].does = "where"

Tick == /\ steps < MaxSteps
        /\ steps' = steps + 1
        /\ UNCHANGED softDelete

\* The ghost of a step on d that leaves the memory m and the DB tx, whose
\* value is v: values of the DBs that came on the way are copies of it.
Remember(m, old, tx, v) ==
  [d \in DOMAIN m.dbs |->
     IF d = tx THEN v ELSE IF d \in DOMAIN old THEN old[d] ELSE [v EXCEPT !.state = "spent"]]

\* A call that adds to what is asked.
Call(d, op) ==
  LET i == GetInstance(mem, d) IN
  /\ Tick
  /\ MayGoOn(d, op.op)
  /\ WellFormed(Asked(InstanceValue(mem, d), op))
  /\ op.op = "group" => MayGroup(op.db) /\ op.db # i.tx
  /\ mem' = Apply(i.mem, i.tx, op)
  /\ LET v == Remember(mem', asked, i.tx, Asked(InstanceValue(mem, d), op)) IN
     asked' = IF op.op = "group" THEN [v EXCEPT ![op.db].state = "spent"] ELSE v
  /\ UNCHANGED sent

\* Session, with or without NewDB and a context.
Session(d, newDB, context) ==
  /\ Tick
  /\ MayGoOn(d, "session")
  /\ mem' = SessionOf(mem, d, newDB, context)
  /\ asked' = Append(IF IsChain(d) /\ ~newDB /\ ~context
                     THEN [asked EXCEPT ![d].state = "spent"] ELSE asked,
                     [asked[d] EXCEPT !.state = "open"])
  /\ UNCHANGED sent

Begin(d) ==
  /\ Tick
  /\ MayGoOn(d, "begin")
  /\ asked[d].pool = "db"
  /\ mem' = BeginOf(mem, d)
  /\ LET n == Len(mem'.dbs)
         v == [InstanceValue(mem, d) EXCEPT !.pool = "tx", !.state = "open"]
     IN asked' = Remember(mem', asked, n, v)
  /\ UNCHANGED sent

\* A query, which may fail in the database.
Run(d, kind, ok) ==
  LET v == InstanceValue(mem, d) IN
  /\ Tick
  /\ MayGoOn(d, "run")
  /\ \E r \in {QueryOn(mem, d, kind)} :
       /\ ~ok => r.got # Nothing
       /\ mem' = [r.mem EXCEPT !.dbs[r.tx].error = @ \/ ~ok]
       /\ sent' = [got |-> r.got, want |-> Wanted(v, kind)]
       /\ LET after == IF kind = "count" /\ LeavesTraces(d, r) THEN "counted" ELSE "ran"
              a == Remember(mem', asked, r.tx, [Ran(v, ok) EXCEPT !.state = after]) IN
          asked' = IF IsChain(d) /\ r.tx # d THEN [a EXCEPT ![d].state = "spent"] ELSE a

Ops == Calls \cup [op : {"group"}, db : DBs]

\* gorm.Open, and a session made of an instance with some calls.
Opened == [arrays |-> <<>>, stmts |-> <<NewStatement>>,
           dbs |-> <<[clone |-> 1, stmt |-> 1, error |-> FALSE]>>]

RECURSIVE After(_, _, _)
After(m, d, ops) == IF ops = <<>> THEN m ELSE After(Apply(m, d, Head(ops)), d, Tail(ops))

RECURSIVE Value(_, _)
Value(v, ops) == IF ops = <<>> THEN v ELSE Value(Asked(v, Head(ops)), Tail(ops))

Init ==
  \E ops \in Preludes :
    LET i == GetInstance(Opened, 1) IN
    /\ mem = SessionOf(After(i.mem, 2, ops), 2, FALSE, FALSE)
    /\ asked = LET v == Value(NewValue, ops) IN
               <<NewValue, [v EXCEPT !.state = "spent"], v>>
    /\ sent = NotSent
    /\ softDelete \in BOOLEAN
    /\ WellFormed(asked[3])
    /\ steps = 0

Next ==
  \E d \in DBs :
    \/ \E op \in Ops : Call(d, op)
    \/ \E newDB, context \in BOOLEAN : Session(d, newDB, context)
    \/ Begin(d)
    \/ \E kind \in {"find", "count"}, ok \in BOOLEAN : Run(d, kind, ok)

Spec == Init /\ [][Next]_vars

-----------------------------------------------------------------------------
(* Properties. *)

\* What is sent is what was asked for on the way to the handle, and nothing of
\* what other chains asked for: the same rows, joins, columns and order, in the
\* same transaction, and nothing at all on a handle with an error.
SentAsAsked == sent.got = sent.want

\* A handle that may be shared stands for the same query for ever, whatever is
\* done with the chains that were started from it or that it was made of.
SharedIsFrozen ==
  [][\A d \in DBs : mem.dbs[d].clone > 0 =>
       FindOn(mem', d).got = FindOn(mem, d).got]_vars

\* Without Unscoped no query reaches a record that is marked as deleted.
DeletedHidden ==
  LET rows == IF "rows" \in DOMAIN sent.got THEN sent.got.rows ELSE {} IN
  (\E row \in rows : row.deleted) => \E row \in sent.want.rows : row.deleted
=============================================================================
