------------------------------ MODULE Migrator ------------------------------
(***************************************************************************)
(* AutoMigrate of migrator/migrator.go: programs that bring the tables of  *)
(* one database to their models, each when it starts, and again when it    *)
(* is restarted or when the call has failed.  There is no transaction      *)
(* around a migration: it asks the database what there is, statement by    *)
(* statement, and executes what it finds missing, while other programs may *)
(* do the same.                                                            *)
(*                                                                         *)
(* A table is a record of its columns with their types and of its objects: *)
(* foreign keys, unique constraints, checks and indexes.  Types stand for  *)
(* all that MigrateColumn compares (name, size, precision, null, default,  *)
(* comment).  The order in which a call takes the tables comes from        *)
(* ReorderModels and is a constant here: module ReorderModels computes it. *)
(***************************************************************************)
EXTENDS Naturals, Sequences, FiniteSets

CONSTANTS
  Programs,            \* the processes that migrate
  Columns,             \* Columns[t]: the columns of t's model with their types
  Unique,              \* Unique[t]: the columns tagged unique
  Checks, Indexes,     \* Checks[t], Indexes[t]: their names
  Relations,           \* Relations[t]: the relations declared in t's model
  Calls,               \* the values AutoMigrate may be called with
  Configs,             \* the configurations to look at
  Databases,           \* what the database may hold before
  Knowns,              \* the sets of models a process may have parsed
  Orders(_, _, _),     \* Orders(config, known, values): see ReorderModels
  MaxFaults            \* how many statements fail or processes die, at most

Tables == DOMAIN Columns

ASSUME KnownsAssumption == {{}, Tables} \subseteq Knowns /\ Knowns \subseteq SUBSET Tables
\* An order is a list of tables, and the models parsed by then.
ASSUME OrdersAssumption ==
  \A c \in Configs, known \in Knowns, values \in Calls :
    \A plan \in Orders(c, known, values) :
      plan.order \in Seq(Tables) /\ plan.order # <<>> /\ plan.known \in Knowns

VARIABLES
  config,   \* [noForeignKeys, noRelations, indexAfter: BOOLEAN]
  db,       \* the tables there are: name -> [cols, objs]
  proc,     \* what each program is doing
  faults    \* how many faults there were
vars == <<config, db, proc, faults>>

(***************************************************************************)
(* Relations, as far as a migration looks at them.  A relation r is        *)
(*   [of: its model, kind: "belongs_to" | "has" | "many2many", to: the     *)
(*    other model, join: the join table or "", key: its foreign key,       *)
(*    constraint: FALSE when the tag says "constraint:-"]                  *)
(* `known' is the set of models this process has parsed: a has-relation is *)
(* filed in the other model when its own model is parsed, and not before.  *)
(***************************************************************************)
RelationsIn(t, known) ==
  Relations[t] \cup {r \in UNION {Relations[u] : u \in known} : r.kind = "has" /\ r.to = t /\ r.of # t}

\* ParseConstraint: where the foreign key of r stands and what it refers to.
\* A belongs-to gives way to the has-relation of the other side.
HasConstraint(r, known) ==
  /\ r.constraint
  /\ r.kind = "belongs_to" =>
       ~\E s \in RelationsIn(r.to, known) : s # r /\ s.to = r.of /\ s.key = r.key
Holder(r) == CASE r.kind = "belongs_to" -> r.of [] r.kind = "has" -> r.to [] OTHER -> r.join
Referred(r) == IF r.kind = "belongs_to" THEN r.to ELSE r.of

ForeignKeys(t, known) ==
  {[kind |-> "fk", name |-> r.key, to |-> Referred(r)] :
     r \in {s \in RelationsIn(t, known) : HasConstraint(s, known) /\ Holder(s) = t}}

Obj(kind, name) == [kind |-> kind, name |-> name, to |-> ""]
UniqueObjs(t) == {Obj("unique", c) : c \in Unique[t]}
CheckObjs(t) == {Obj("check", c) : c \in Checks[t]}
IndexObjs(t) == {Obj("index", i) : i \in Indexes[t]}
WantedKeys(t, known) == IF config.noForeignKeys \/ config.noRelations THEN {} ELSE ForeignKeys(t, known)

----------------------------------------------------------------------------
(***************************************************************************)
(* The database.  A definition statement is executed as a whole or refused.*)
(***************************************************************************)
TargetsExist(t, objs) == \A o \in objs : o.kind = "fk" => o.to \in DOMAIN db \cup {t}

\* A statement: what it needs and what it leaves.
Create(t, objs) == [ok |-> t \notin DOMAIN db /\ TargetsExist(t, objs),
                    db |-> [u \in DOMAIN db \cup {t} |->
                              IF u = t THEN [cols |-> Columns[t], objs |-> objs] ELSE db[u]]]
SetColumn(t, c, exists) ==
  LET cols == db[t].cols
  IN [ok |-> (c \in DOMAIN cols) = exists,
      db |-> [db EXCEPT ![t] = [cols |-> [x \in DOMAIN cols \cup {c} |->
                                            IF x = c THEN Columns[t][c] ELSE cols[x]],
                                objs |-> db[t].objs]]]
AddObj(t, o) == [ok |-> o \notin db[t].objs /\ TargetsExist(t, {o}),
                 db |-> [db EXCEPT ![t] = [cols |-> db[t].cols, objs |-> db[t].objs \cup {o}]]]
DropObj(t, o) == [ok |-> o \in db[t].objs,
                  db |-> [db EXCEPT ![t] = [cols |-> db[t].cols, objs |-> db[t].objs \ {o}]]]

Statement(t, d) ==
  CASE d.do = "add_column" -> SetColumn(t, d.on.name, FALSE)
    [] d.do = "alter_column" -> SetColumn(t, d.on.name, TRUE)
    [] d.do = "add" -> AddObj(t, d.on)
    [] d.do = "drop" -> DropObj(t, d.on)

----------------------------------------------------------------------------
(***************************************************************************)
(* A program.  at: "idle", or what AutoMigrate does next for the table     *)
(* Head(left): ask HasTable, "create", create an "index" after the table,  *)
(* "look" at ColumnTypes, change "columns", "ask" for an object, or "add"  *)
(* it.  todo are the statements decided on, rest the objects to ask for.   *)
(* result, added (columns added by this call) and alone (no fault and no   *)
(* other program since the call) are kept for the properties.              *)
(***************************************************************************)
Idle(known) == [at |-> "idle", known |-> known, left |-> <<>>, todo |-> {}, rest |-> {},
                result |-> "none", done |-> <<>>, added |-> {}, alone |-> FALSE]

Table(m) == Head(proc[m].left)

\* The next table, or the end of the call.
NextTable(p) ==
  IF Len(p.left) > 1
  THEN [p EXCEPT !.at = "table", !.left = Tail(@), !.todo = {}, !.rest = {}]
  ELSE [p EXCEPT !.at = "idle", !.left = <<>>, !.todo = {}, !.rest = {}, !.result = "nil"]

\* Where to go on in the table at hand.
Proceed(p) ==
  IF p.todo # {} THEN p
  ELSE IF p.rest # {} THEN [p EXCEPT !.at = "ask"]
  ELSE NextTable(p)

Failed(p) == [p EXCEPT !.at = "idle", !.left = <<>>, !.todo = {}, !.rest = {}, !.result = "error"]

Fault == faults < MaxFaults /\ faults' = faults + 1
Step(m, p) == proc' = [proc EXCEPT ![m] = p]
Stay == UNCHANGED <<config, db, faults>>

\* Exec of a statement: done, refused, or failed for a reason outside the
\* model, before or after the database has executed it.
Exec(m, s, p) ==
  /\ UNCHANGED config
  /\ \/ /\ s.ok
        /\ db' = s.db
        /\ Step(m, p)
        /\ UNCHANGED faults
     \/ /\ ~s.ok
        /\ Step(m, Failed(proc[m]))
        /\ UNCHANGED <<db, faults>>
     \/ /\ Fault
        /\ db' \in {db} \cup {d \in {s.db} : s.ok}
        /\ Step(m, [Failed(proc[m]) EXCEPT !.alone = FALSE])

Start(m) ==
  /\ proc[m].at = "idle"
  /\ \E values \in Calls : \E plan \in Orders(config, proc[m].known, values) :
       proc' = [n \in Programs |->
                  IF n = m THEN [Idle(plan.known) EXCEPT
                                   !.at = "table", !.left = plan.order, !.done = plan.order,
                                   !.alone = \A k \in Programs \ {m} : proc[k].at = "idle"]
                  ELSE [proc[n] EXCEPT !.alone = FALSE]]
  /\ Stay

\* HasTable: a query that fails counts as "no".
AskTable(m) ==
  /\ proc[m].at = "table"
  /\ \/ /\ Step(m, [proc[m] EXCEPT !.at = IF Table(m) \in DOMAIN db THEN "look" ELSE "create"])
        /\ Stay
     \/ /\ Fault
        /\ Step(m, [proc[m] EXCEPT !.at = "create", !.alone = FALSE])
        /\ UNCHANGED <<config, db>>

\* CreateTable: one statement with everything, but for the indexes when the
\* dialect makes them after it.
CreateTable(m) ==
  /\ proc[m].at = "create"
  /\ LET t == Table(m)
         inline == WantedKeys(t, proc[m].known) \cup UniqueObjs(t) \cup CheckObjs(t)
                   \cup (IF config.indexAfter THEN {} ELSE IndexObjs(t))
         later == IF config.indexAfter THEN IndexObjs(t) ELSE {}
     IN Exec(m, Create(t, inline),
             Proceed([proc[m] EXCEPT !.at = "index",
                                     !.todo = {[do |-> "add", on |-> o] : o \in later}]))

\* One of the statements decided on, and where to go on.
Execute(m, d) == Exec(m, Statement(Table(m), d), Proceed([proc[m] EXCEPT !.todo = @ \ {d}]))

\* The deferred calls of CreateIndex: the first that fails ends them.
CreateIndexAfter(m) == proc[m].at = "index" /\ \E d \in proc[m].todo : Execute(m, d)

\* Mutant: a unique constraint is dropped when it is not wanted, never added.
ColumnChanges_NeverUnique(t, seen, c) ==
  LET u == Obj("unique", c)
  IN (IF seen.cols[c] = Columns[t][c] THEN {} ELSE {[do |-> "alter_column", on |-> Obj("column", c)]})
     \cup (IF u \in seen.objs /\ c \notin Unique[t] THEN {[do |-> "drop", on |-> u]} ELSE {})

\* What MigrateColumn and MigrateColumnUnique decide for a column found.
ColumnChanges(t, seen, c) ==
  LET u == Obj("unique", c)
  IN (IF seen.cols[c] = Columns[t][c] THEN {} ELSE {[do |-> "alter_column", on |-> Obj("column", c)]})
     \cup (IF u \in seen.objs /\ c \notin Unique[t] THEN {[do |-> "drop", on |-> u]} ELSE {})
     \cup (IF u \notin seen.objs /\ c \in Unique[t] THEN {[do |-> "add", on |-> u]} ELSE {})
TableChanges(t, seen) ==
  UNION {IF c \in DOMAIN seen.cols THEN ColumnChanges(t, seen, c)
         ELSE {[do |-> "add_column", on |-> Obj("column", c)]} : c \in DOMAIN Columns[t]}

\* ColumnTypes: the columns are compared with what they are at this moment.
ReadColumns(m) ==
  /\ proc[m].at = "look"
  /\ LET t == Table(m)
         todo == TableChanges(t, db[t])
         new == {<<t, c>> : c \in DOMAIN Columns[t] \ DOMAIN db[t].cols}
     IN \/ /\ Step(m, Proceed([proc[m] EXCEPT
                        !.at = "columns", !.todo = todo, !.added = @ \cup new,
                        !.rest = WantedKeys(t, proc[m].known) \cup CheckObjs(t) \cup IndexObjs(t)]))
           /\ Stay
        \/ /\ Fault
           /\ Step(m, [Failed(proc[m]) EXCEPT !.alone = FALSE])
           /\ UNCHANGED <<config, db>>

\* The columns one after the other, here in any order: each has its type before
\* its unique constraint.
ChangeColumn(m) ==
  /\ proc[m].at = "columns"
  /\ \E d \in proc[m].todo :
       /\ d.on.kind = "unique" =>
            [do |-> "alter_column", on |-> Obj("column", d.on.name)] \notin proc[m].todo
       /\ Execute(m, d)

\* HasConstraint and HasIndex: the foreign keys, then the checks, then the
\* indexes; a query that fails counts as "no".
Rank(o) == CASE o.kind = "fk" -> 1 [] o.kind = "check" -> 2 [] OTHER -> 3
\* Mutant: a query that fails counts as "yes".
AskObject_FailedIsYes(m) ==
  /\ proc[m].at = "ask"
  /\ \E o \in {x \in proc[m].rest : \A y \in proc[m].rest : Rank(x) <= Rank(y)} :
       LET others == [proc[m] EXCEPT !.rest = @ \ {o}]
           missing == [others EXCEPT !.at = "add", !.todo = {[do |-> "add", on |-> o]}]
       IN \/ /\ Step(m, IF o \in db[Table(m)].objs THEN Proceed(others) ELSE missing)
             /\ Stay
          \/ /\ Fault
             /\ Step(m, Proceed([others EXCEPT !.alone = FALSE]))
             /\ UNCHANGED <<config, db>>
AskObject(m) ==
  /\ proc[m].at = "ask"
  /\ \E o \in {x \in proc[m].rest : \A y \in proc[m].rest : Rank(x) <= Rank(y)} :
       LET others == [proc[m] EXCEPT !.rest = @ \ {o}]
           missing == [others EXCEPT !.at = "add", !.todo = {[do |-> "add", on |-> o]}]
       IN \/ /\ Step(m, IF o \in db[Table(m)].objs THEN Proceed(others) ELSE missing)
             /\ Stay
          \/ /\ Fault
             /\ Step(m, [missing EXCEPT !.alone = FALSE])
             /\ UNCHANGED <<config, db>>

\* CreateConstraint and CreateIndex.
AddObject(m) == proc[m].at = "add" /\ \E d \in proc[m].todo : Execute(m, d)

\* The process dies and is started anew: it has parsed nothing.
Restart(m) ==
  /\ Fault
  /\ Step(m, Idle({}))
  /\ UNCHANGED <<config, db>>

AutoMigrate(m) ==
  \/ Start(m) \/ AskTable(m) \/ CreateTable(m) \/ CreateIndexAfter(m) \/ ReadColumns(m)
  \/ ChangeColumn(m) \/ AskObject(m) \/ AddObject(m)

Init ==
  /\ config \in Configs
  /\ db \in Databases
  /\ proc \in [Programs -> {Idle(known) : known \in {{}, Tables}}]
  /\ faults = 0

Next == \E m \in Programs : AutoMigrate(m) \/ Restart(m)

(***************************************************************************)
(* A call that has begun runs on, and a program calls AutoMigrate when it  *)
(* has been started or restarted, and again when the call has failed.      *)
(* After a call that returned nil it may call again, and need not.         *)
(***************************************************************************)
GoesOn(m) == AutoMigrate(m) /\ (proc[m].at = "idle" => proc[m].result # "nil")

Spec == Init /\ [][Next]_vars /\ \A m \in Programs : WF_vars(GoesOn(m))

----------------------------------------------------------------------------
(***************************************************************************)
(* Properties                                                              *)
(***************************************************************************)
\* What the model of t asks for is there; not the unique constraints of the
\* columns in `new', which AddColumn leaves out.
Migrated(t, known, new) ==
  /\ t \in DOMAIN db
  /\ \A c \in DOMAIN Columns[t] : c \in DOMAIN db[t].cols /\ db[t].cols[c] = Columns[t][c]
  /\ WantedKeys(t, known) \cup CheckObjs(t) \cup IndexObjs(t) \subseteq db[t].objs
  /\ \A c \in DOMAIN Columns[t] : <<t, c>> \notin new =>
       (Obj("unique", c) \in db[t].objs <=> c \in Unique[t])

\* When AutoMigrate has returned nil, every table it took is as its model
\* says, and stays so, whatever failed before, whatever other programs did
\* between its questions and its statements, and though a question that
\* fails counts as answered "no" (migrator.go:122-201, 331-341).
NilMeansMigrated ==
  \A m \in Programs : proc[m].result = "nil" =>
    \A i \in DOMAIN proc[m].done : Migrated(proc[m].done[i], proc[m].known, proc[m].added)

\* A program that migrates alone, with no statement failing, does not get an
\* error: every table comes after the tables its foreign keys refer to, and
\* what an earlier call left half done is taken up (migrator.go:919-1020).
AloneSucceeds == \A m \in Programs : proc[m].alone => proc[m].result # "error"

\* Programs that call AutoMigrate until it returns nil get every table to its
\* model, and it stays there; but for the unique constraint of a column that
\* their last call has added, which only a call after it makes
\* (migrator.go:374-394, 599-616), unless another program has made it.
EveryTableMigrated ==
  <>[](\A m \in Programs :
         /\ proc[m].done # <<>>
         /\ \A i \in DOMAIN proc[m].done :
              Migrated(proc[m].done[i], proc[m].known, proc[m].added))
============================================================================
