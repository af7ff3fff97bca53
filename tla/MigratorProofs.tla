--------------------------- MODULE MigratorProofs ---------------------------
(***************************************************************************)
(* Theorems about Migrator, for all models, databases, programs that       *)
(* migrate and numbers of faults.                                          *)
(***************************************************************************)
EXTENDS Migrator, TLAPS

------------------------------------------------------------------------------
(***************************************************************************)
(* The inductive invariant.                                                *)
(***************************************************************************)

\* The statements a call can decide on.
Change(do, c) == [do |-> do, on |-> Obj("column", c)]
AddOf(o)  == [do |-> "add", on |-> o]
DropOf(o) == [do |-> "drop", on |-> o]

\* What the model of t asks for besides its columns and unique constraints.
WantedObjs(t, known) == WantedKeys(t, known) \cup CheckObjs(t) \cup IndexObjs(t)

\* Migrated, of a database d and the objects W wanted in t.
ColumnIs(d, t, c) == c \in DOMAIN d[t].cols /\ d[t].cols[c] = Columns[t][c]
UniqueIs(d, t, c) == Obj("unique", c) \in d[t].objs <=> c \in Unique[t]
Right(d, W, t, new) ==
    /\ t \in DOMAIN d
    /\ \A c \in DOMAIN Columns[t] : ColumnIs(d, t, c)
    /\ W \subseteq d[t].objs
    /\ \A c \in DOMAIN Columns[t] : <<t, c>> \notin new => UniqueIs(d, t, c)

\* x is a statement that brings t nearer to its model.
Forward(W, t, x) ==
    \/ \E c \in DOMAIN Columns[t] : x \in {Change("add_column", c), Change("alter_column", c)}
    \/ \E o \in W \cup UniqueObjs(t) : x = AddOf(o)
    \/ \E c \in DOMAIN Columns[t] \ Unique[t] : x = DropOf(Obj("unique", c))

\* What is missing in t is still to be done, or to be asked for.
Remaining(d, W, t, todo, rest, new) ==
    /\ t \in DOMAIN d
    /\ \A c \in DOMAIN Columns[t] :
          ColumnIs(d, t, c) \/ Change("add_column", c) \in todo \/ Change("alter_column", c) \in todo
    /\ \A o \in W : o \in d[t].objs \/ o \in rest \/ AddOf(o) \in todo
    /\ \A c \in DOMAIN Columns[t] : <<t, c>> \notin new =>
          \/ UniqueIs(d, t, c)
          \/ c \in Unique[t] /\ AddOf(Obj("unique", c)) \in todo
          \/ c \notin Unique[t] /\ DropOf(Obj("unique", c)) \in todo

\* The tables a call is done with.
Behind(p) == {p.done[i] : i \in 1..(Len(p.done) - Len(p.left))}

Stages == {"idle", "table", "create", "index", "look", "columns", "ask", "add"}
Working == {"index", "columns", "ask", "add"}

Fields == {"at", "known", "left", "todo", "rest", "result", "done", "added", "alone"}

Shape(p) ==
    /\ DOMAIN p = Fields
    /\ p.at \in Stages /\ p.known \in Knowns
    /\ p.left \in Seq(Tables) /\ p.done \in Seq(Tables)
    /\ p.result \in {"none", "nil", "error"} /\ p.alone \in BOOLEAN
    /\ p.at # "idle" => /\ p.left # <<>> /\ Len(p.left) =< Len(p.done)
                        /\ p.result = "none"
                        /\ \A i \in 1..Len(p.left) :
                              p.left[i] = p.done[Len(p.done) - Len(p.left) + i]

\* What a program knows of the database d, W(t) being the objects it wants in t.
Standing(p, W, d) ==
    /\ p.at # "idle" => \A t \in Behind(p) : Right(d, W[t], t, p.added)
    /\ p.result = "nil" => \A i \in DOMAIN p.done : Right(d, W[p.done[i]], p.done[i], p.added)
    /\ p.at \in {"table", "create", "look"} => p.rest = {}
    /\ p.at = "look" => Head(p.left) \in DOMAIN d
    /\ p.at = "ask" => p.todo = {}
    /\ p.at \in Working =>
          /\ Remaining(d, W[Head(p.left)], Head(p.left), p.todo, p.rest, p.added)
          /\ \A x \in p.todo : Forward(W[Head(p.left)], Head(p.left), x)
          /\ p.rest \subseteq W[Head(p.left)]

Wants(known) == [t \in Tables |-> WantedObjs(t, known)]

ShapeInv ==
    /\ config \in Configs
    /\ DOMAIN proc = Programs /\ proc = [m \in Programs |-> proc[m]]
    /\ \A m \in Programs : Shape(proc[m])
StandInv == \A m \in Programs : Standing(proc[m], Wants(proc[m].known), db)

------------------------------------------------------------------------------
(***************************************************************************)
(* Records of programs.                                                    *)
(***************************************************************************)


\* p with other values of some fields.
Is(q, p, at, left, todo, rest, result, alone) ==
    /\ DOMAIN q = Fields /\ q.known = p.known /\ q.done = p.done /\ q.added = p.added
    /\ q.at = at /\ q.left = left /\ q.todo = todo /\ q.rest = rest
    /\ q.result = result /\ q.alone = alone

\* What an update of a program's record leaves of its fields.
LEMMA Records ==
    ASSUME NEW p, DOMAIN p = Fields
    PROVE  /\ Is(Failed(p), p, "idle", <<>>, {}, {}, "error", p.alone)
           /\ Len(p.left) > 1 => Is(NextTable(p), p, "table", Tail(p.left), {}, {}, p.result, p.alone)
           /\ ~(Len(p.left) > 1) => Is(NextTable(p), p, "idle", <<>>, {}, {}, "nil", p.alone)
           /\ \A at : Is([p EXCEPT !.at = at], p, at, p.left, p.todo, p.rest, p.result, p.alone)
           /\ \A alone : Is([p EXCEPT !.alone = alone], p, p.at, p.left, p.todo, p.rest, p.result, alone)
           /\ \A todo : Is([p EXCEPT !.todo = todo], p, p.at, p.left, todo, p.rest, p.result, p.alone)
  <1>2. Is(Failed(p), p, "idle", <<>>, {}, {}, "error", p.alone)
    BY DEF Failed, Is, Fields
  <1>3. ASSUME Len(p.left) > 1
        PROVE  Is(NextTable(p), p, "table", Tail(p.left), {}, {}, p.result, p.alone)
    <2>1. PICK rear : rear = Tail(p.left)
      OBVIOUS
    <2>2. NextTable(p) = [p EXCEPT !.at = "table", !.left = rear, !.todo = {}, !.rest = {}]
      BY <1>3, <2>1 DEF NextTable, Fields
    <2> QED BY <2>1, <2>2 DEF Is, Fields
  <1>4. ASSUME ~(Len(p.left) > 1)
        PROVE  Is(NextTable(p), p, "idle", <<>>, {}, {}, "nil", p.alone)
    BY <1>4 DEF NextTable, Is, Fields
  <1>5. \A at : Is([p EXCEPT !.at = at], p, at, p.left, p.todo, p.rest, p.result, p.alone)
    BY DEF Is, Fields
  <1>6. \A alone : Is([p EXCEPT !.alone = alone], p, p.at, p.left, p.todo, p.rest, p.result, alone)
    BY DEF Is, Fields
  <1>7. \A todo : Is([p EXCEPT !.todo = todo], p, p.at, p.left, todo, p.rest, p.result, p.alone)
    BY DEF Is, Fields
  <1> QED BY <1>2, <1>3, <1>4, <1>5, <1>6, <1>7

\* A call that has failed claims nothing.
LEMMA FailedStands ==
    ASSUME NEW p, Shape(p), NEW W, NEW d
    PROVE  /\ Shape(Failed(p)) /\ Standing(Failed(p), W, d)
           /\ Shape([Failed(p) EXCEPT !.alone = FALSE])
           /\ Standing([Failed(p) EXCEPT !.alone = FALSE], W, d)
  <1>1. PICK f : f = Failed(p)
    OBVIOUS
  <1>2. Is(f, p, "idle", <<>>, {}, {}, "error", p.alone)
    BY <1>1, Records DEF Shape
  <1>3. Shape(f) /\ Standing(f, W, d)
    BY <1>2 DEF Is, Shape, Standing, Stages, Working
  <1>4. PICK g : g = [f EXCEPT !.alone = FALSE]
    OBVIOUS
  <1>5. Is(g, p, "idle", <<>>, {}, {}, "error", FALSE)
    BY <1>2, <1>4, Records DEF Is
  <1>a. g.alone \in BOOLEAN
    BY <1>5 DEF Is
  <1>6. Shape(g)
    BY <1>5, <1>a DEF Is, Shape, Stages
  <1>7. Standing(g, W, d)
    BY <1>5 DEF Is, Standing, Working
  <1> QED BY <1>1, <1>3, <1>4, <1>6, <1>7

------------------------------------------------------------------------------
(***************************************************************************)
(* What the statements do to the database.                                 *)
(***************************************************************************)

\* From d to e no table comes off its model.
Keeps(d, e) ==
    \A t \in DOMAIN d :
        /\ t \in DOMAIN e
        /\ \A c \in DOMAIN Columns[t] : ColumnIs(d, t, c) => ColumnIs(e, t, c)
        /\ \A o \in d[t].objs : (\A c : o # Obj("unique", c)) => o \in e[t].objs
        /\ \A c \in DOMAIN Columns[t] : UniqueIs(d, t, c) => UniqueIs(e, t, c)

\* No unique constraint is among the objects.
Plain(W) == \A o \in W : \A c : o # Obj("unique", c)

LEMMA WantedPlain == \A t, known : Plain(WantedObjs(t, known))
  <1> SUFFICES ASSUME NEW t, NEW known, NEW o \in WantedObjs(t, known), NEW c
               PROVE  o # Obj("unique", c)
    BY DEF Plain
  <1>1. \A kind, name : Obj(kind, name).kind = kind
    BY DEF Obj
  <1>2. \A k \in WantedKeys(t, known) : k.kind = "fk"
    BY DEF WantedKeys, ForeignKeys
  <1>3. o \in CheckObjs(t) \cup IndexObjs(t) => o.kind \in {"check", "index"}
    BY <1>1 DEF CheckObjs, IndexObjs
  <1> QED BY <1>1, <1>2, <1>3 DEF WantedObjs

LEMMA KeepsSame == \A d : Keeps(d, d)
  BY DEF Keeps

LEMMA RightKept ==
    ASSUME NEW d, NEW e, Keeps(d, e), NEW W, Plain(W), NEW t, NEW new, Right(d, W, t, new)
    PROVE  Right(e, W, t, new)
  <1>1. t \in DOMAIN d
    BY DEF Right
  <1> QED BY <1>1 DEF Keeps, Plain, Right

LEMMA RemainingKept ==
    ASSUME NEW d, NEW e, Keeps(d, e), NEW W, Plain(W), NEW t, NEW todo, NEW rest, NEW new,
           Remaining(d, W, t, todo, rest, new)
    PROVE  Remaining(e, W, t, todo, rest, new)
  <1>1. t \in DOMAIN d
    BY DEF Remaining
  <1> QED BY <1>1 DEF Keeps, Plain, Remaining

LEMMA TheTables ==
    ASSUME NEW p, Shape(p), p.at # "idle"
    PROVE  Head(p.left) \in Tables /\ Behind(p) \subseteq Tables
  <1>1. PICK left \in Seq(Tables), done \in Seq(Tables) :
           p.left = left /\ p.done = done /\ left # <<>>
    BY DEF Shape
  <1>2. Head(left) \in Tables
    BY <1>1
  <1>3. PICK n \in Nat, k \in Nat : n = Len(left) /\ k = Len(done)
    BY <1>1
  <1>4. \A i \in 1..(k - n) : done[i] \in Tables
    <2> TAKE i \in 1..(k - n)
    <2>1. i \in 1..k
      OBVIOUS
    <2> QED BY <1>1, <1>3, <2>1
  <1> QED BY <1>1, <1>2, <1>3, <1>4 DEF Behind

LEMMA StandingKept ==
    ASSUME NEW d, NEW e, Keeps(d, e), NEW W, \A t \in Tables : Plain(W[t]),
           NEW p, Shape(p), Standing(p, W, d)
    PROVE  Standing(p, W, e)
  <1>1. \A t \in DOMAIN d : t \in DOMAIN e
    BY DEF Keeps
  <1>2. \A t \in Tables : Right(d, W[t], t, p.added) => Right(e, W[t], t, p.added)
    BY RightKept
  <1>3. \A i \in DOMAIN p.done : p.done[i] \in Tables
    BY DEF Shape
  <1>4. p.at # "idle" => Behind(p) \subseteq Tables /\ Head(p.left) \in Tables
    BY TheTables
  <1>6. p.at \in Working => Remaining(e, W[Head(p.left)], Head(p.left), p.todo, p.rest, p.added)
    BY <1>4, RemainingKept DEF Standing, Working
  <1> QED BY <1>1, <1>2, <1>3, <1>4, <1>6 DEF Standing

\* The columns and the objects x leaves in t.
WithColumn(d, t, c) ==
    [y \in DOMAIN d[t].cols \cup {c} |-> IF y = c THEN Columns[t][c] ELSE d[t].cols[y]]
Effect(d, W, t, x, cols, objs) ==
    \/ \E c \in DOMAIN Columns[t] :
          /\ x \in {Change("add_column", c), Change("alter_column", c)}
          /\ cols = WithColumn(d, t, c)
          /\ objs = d[t].objs
    \/ \E o \in W \cup UniqueObjs(t) :
          x = AddOf(o) /\ cols = d[t].cols /\ objs = d[t].objs \cup {o}
    \/ \E c \in DOMAIN Columns[t] \ Unique[t] :
          /\ x = DropOf(Obj("unique", c))
          /\ cols = d[t].cols /\ objs = d[t].objs \ {Obj("unique", c)}

\* A statement decided on, whenever it is executed, loses nothing, and what it
\* is for is done.
LEMMA StatementKeeps ==
    ASSUME NEW t \in DOMAIN db, NEW W, Plain(W), NEW x, Forward(W, t, x)
    PROVE  /\ Keeps(db, Statement(t, x).db)
           /\ \A todo, rest, new : Remaining(db, W, t, todo, rest, new) =>
                 Remaining(Statement(t, x).db, W, t, todo \ {x}, rest, new)
  <1>1. PICK cols, objs :
           /\ Statement(t, x).db = [db EXCEPT ![t] = [cols |-> cols, objs |-> objs]]
           /\ Effect(db, W, t, x, cols, objs)
    <2>1. ASSUME NEW c \in DOMAIN Columns[t], x \in {Change("add_column", c), Change("alter_column", c)}
          PROVE  Statement(t, x).db =
                   [db EXCEPT ![t] = [cols |-> WithColumn(db, t, c), objs |-> db[t].objs]]
      <3>1. \A do : Change(do, c).do = do /\ Change(do, c).on.name = c
        BY DEF Change, Obj
      <3>2. x.do \in {"add_column", "alter_column"} /\ x.on.name = c
        BY <2>1, <3>1
      <3> QED BY <3>2 DEF Statement, SetColumn, WithColumn
    <2>2. ASSUME NEW o, x = AddOf(o)
          PROVE  Statement(t, x).db =
                   [db EXCEPT ![t] = [cols |-> db[t].cols, objs |-> db[t].objs \cup {o}]]
      BY <2>2 DEF AddOf, Statement, AddObj
    <2>3. ASSUME NEW o, x = DropOf(o)
          PROVE  Statement(t, x).db =
                   [db EXCEPT ![t] = [cols |-> db[t].cols, objs |-> db[t].objs \ {o}]]
      BY <2>3 DEF DropOf, Statement, DropObj
    <2>4. ASSUME NEW c \in DOMAIN Columns[t], x \in {Change("add_column", c), Change("alter_column", c)}
          PROVE  \E cols, objs :
                   /\ Statement(t, x).db = [db EXCEPT ![t] = [cols |-> cols, objs |-> objs]]
                   /\ Effect(db, W, t, x, cols, objs)
      BY <2>1, <2>4 DEF Effect
    <2>5. ASSUME NEW o \in W \cup UniqueObjs(t), x = AddOf(o)
          PROVE  \E cols, objs :
                   /\ Statement(t, x).db = [db EXCEPT ![t] = [cols |-> cols, objs |-> objs]]
                   /\ Effect(db, W, t, x, cols, objs)
      BY ZenonT(60), <2>2, <2>5 DEF Effect
    <2>6. ASSUME NEW c \in DOMAIN Columns[t] \ Unique[t], x = DropOf(Obj("unique", c))
          PROVE  \E cols, objs :
                   /\ Statement(t, x).db = [db EXCEPT ![t] = [cols |-> cols, objs |-> objs]]
                   /\ Effect(db, W, t, x, cols, objs)
      BY ZenonT(60), <2>3, <2>6 DEF Effect
    <2> QED BY <2>4, <2>5, <2>6 DEF Forward
  <1>2. PICK e : e = Statement(t, x).db
    OBVIOUS
  <1>3. /\ DOMAIN e = DOMAIN db /\ e[t] = [cols |-> cols, objs |-> objs]
        /\ \A u \in DOMAIN db : u # t => e[u] = db[u]
    BY <1>1, <1>2
  <1>4. e[t].cols = cols /\ e[t].objs = objs
    BY <1>3
  <1>5. /\ \A c \in DOMAIN Columns[t] : ColumnIs(db, t, c) => ColumnIs(e, t, c)
        /\ \A c \in DOMAIN Columns[t] :
              x \in {Change("add_column", c), Change("alter_column", c)} => ColumnIs(e, t, c)
    <2>1. \A a, b, c, o : /\ Change("add_column", c) # AddOf(o) /\ Change("alter_column", c) # AddOf(o)
                          /\ Change("add_column", c) # DropOf(o) /\ Change("alter_column", c) # DropOf(o)
                          /\ Change(a, c) = Change(b, o) => c = o
      BY DEF Change, AddOf, DropOf, Obj
    <2>2. ASSUME NEW b \in DOMAIN Columns[t], x \in {Change("add_column", b), Change("alter_column", b)},
                 cols = WithColumn(db, t, b)
          PROVE  \A c \in DOMAIN Columns[t] :
                    /\ ColumnIs(db, t, c) => ColumnIs(e, t, c)
                    /\ x \in {Change("add_column", c), Change("alter_column", c)} => ColumnIs(e, t, c)
      <3> TAKE c \in DOMAIN Columns[t]
      <3>1. CASE c = b
        BY <2>2, <3>1, <1>4 DEF ColumnIs, WithColumn
      <3>2. CASE c # b
        <4>1. x \notin {Change("add_column", c), Change("alter_column", c)}
          BY <2>1, <2>2, <3>2
        <4>2. ColumnIs(db, t, c) => ColumnIs(e, t, c)
          BY <2>2, <3>2, <1>4 DEF ColumnIs, WithColumn
        <4> QED BY <4>1, <4>2
      <3> QED BY <3>1, <3>2
    <2>3. ASSUME NEW o, x \in {AddOf(o), DropOf(o)}, cols = db[t].cols
          PROVE  \A c \in DOMAIN Columns[t] :
                    /\ ColumnIs(db, t, c) => ColumnIs(e, t, c)
                    /\ x \notin {Change("add_column", c), Change("alter_column", c)}
      BY <2>1, <2>3, <1>4 DEF ColumnIs
    <2>4. \/ \E b \in DOMAIN Columns[t] :
                /\ x \in {Change("add_column", b), Change("alter_column", b)}
                /\ cols = WithColumn(db, t, b)
          \/ \E o : x \in {AddOf(o), DropOf(o)} /\ cols = db[t].cols
      BY <1>1 DEF Effect
    <2> QED
      <3>1. ASSUME NEW b \in DOMAIN Columns[t], x \in {Change("add_column", b), Change("alter_column", b)},
                   cols = WithColumn(db, t, b)
            PROVE  /\ \A c \in DOMAIN Columns[t] : ColumnIs(db, t, c) => ColumnIs(e, t, c)
                   /\ \A c \in DOMAIN Columns[t] :
                         x \in {Change("add_column", c), Change("alter_column", c)} => ColumnIs(e, t, c)
        BY <2>2, <3>1
      <3>2. ASSUME NEW o, x \in {AddOf(o), DropOf(o)}, cols = db[t].cols
            PROVE  /\ \A c \in DOMAIN Columns[t] : ColumnIs(db, t, c) => ColumnIs(e, t, c)
                   /\ \A c \in DOMAIN Columns[t] :
                         x \in {Change("add_column", c), Change("alter_column", c)} => ColumnIs(e, t, c)
        BY <2>3, <3>2
      <3> QED BY <2>4, <3>1, <3>2
  <1>6. \A o \in W \cup db[t].objs : (\A c : o # Obj("unique", c)) =>
           (o \in db[t].objs \/ x = AddOf(o) => o \in objs)
    <2>1. \A o, q : AddOf(o) = AddOf(q) => o = q
      BY DEF AddOf
    <2>2. \A c, o, q : AddOf(o) # DropOf(q) /\ Change("add_column", c) # AddOf(o) /\ Change("alter_column", c) # AddOf(o)
      BY DEF Change, AddOf, DropOf
    <2> QED BY <1>1, <2>1, <2>2 DEF Effect
  <1>7. /\ \A c \in DOMAIN Columns[t] : UniqueIs(db, t, c) => UniqueIs(e, t, c)
        /\ \A c \in DOMAIN Columns[t] :
              (x = AddOf(Obj("unique", c)) /\ c \in Unique[t]) \/ (x = DropOf(Obj("unique", c)) /\ c \notin Unique[t])
              => UniqueIs(e, t, c)
    <2>1. \A b, c : Obj("unique", b) = Obj("unique", c) => b = c
      BY DEF Obj
    <2>2. \A o, q : (AddOf(o) = AddOf(q) => o = q) /\ (DropOf(o) = DropOf(q) => o = q) /\ AddOf(o) # DropOf(q)
      BY DEF AddOf, DropOf
    <2>3. \A c, o : /\ Change("add_column", c) # AddOf(o) /\ Change("alter_column", c) # AddOf(o)
                    /\ Change("add_column", c) # DropOf(o) /\ Change("alter_column", c) # DropOf(o)
      BY DEF Change, AddOf, DropOf
    <2>4. CASE \E c \in DOMAIN Columns[t] : x \in {Change("add_column", c), Change("alter_column", c)} /\ objs = db[t].objs
      BY <2>4, <2>3, <1>4 DEF UniqueIs
    <2>5. ASSUME NEW o \in W \cup UniqueObjs(t), x = AddOf(o), objs = db[t].objs \cup {o}
          PROVE  \A c \in DOMAIN Columns[t] :
                    /\ UniqueIs(db, t, c) => UniqueIs(e, t, c)
                    /\ x # DropOf(Obj("unique", c))
                    /\ x = AddOf(Obj("unique", c)) /\ c \in Unique[t] => UniqueIs(e, t, c)
      <3>1. \A c : o = Obj("unique", c) => c \in Unique[t]
        BY <2>1 DEF Plain, UniqueObjs
      <3> QED BY <2>5, <2>2, <3>1, <1>4 DEF UniqueIs
    <2>6. ASSUME NEW b \in DOMAIN Columns[t] \ Unique[t], x = DropOf(Obj("unique", b)),
                 objs = db[t].objs \ {Obj("unique", b)}
          PROVE  \A c \in DOMAIN Columns[t] :
                    /\ UniqueIs(db, t, c) => UniqueIs(e, t, c)
                    /\ x # AddOf(Obj("unique", c))
                    /\ x = DropOf(Obj("unique", c)) => UniqueIs(e, t, c)
      BY <2>6, <2>1, <2>2, <1>4 DEF UniqueIs
    <2> QED BY <1>1, <2>4, <2>5, <2>6 DEF Effect
  <1>8. \A u \in DOMAIN db : u # t => \A c : (ColumnIs(db, u, c) => ColumnIs(e, u, c)) /\ (UniqueIs(db, u, c) => UniqueIs(e, u, c))
    BY <1>3 DEF ColumnIs, UniqueIs
  <1>9. Keeps(db, e)
    BY <1>3, <1>4, <1>5, <1>6, <1>7, <1>8 DEF Keeps
  <1>10. ASSUME NEW todo, NEW rest, NEW new, Remaining(db, W, t, todo, rest, new)
         PROVE  Remaining(e, W, t, todo \ {x}, rest, new)
    <2>1. t \in DOMAIN e
      BY <1>3
    <2>2. \A c \in DOMAIN Columns[t] :
             ColumnIs(e, t, c) \/ Change("add_column", c) \in todo \ {x} \/ Change("alter_column", c) \in todo \ {x}
      BY <1>5, <1>10 DEF Remaining
    <2>3. \A o \in W : o \in e[t].objs \/ o \in rest \/ AddOf(o) \in todo \ {x}
      BY <1>4, <1>6, <1>10 DEF Remaining, Plain
    <2>4. \A c \in DOMAIN Columns[t] : <<t, c>> \notin new =>
             \/ UniqueIs(e, t, c)
             \/ c \in Unique[t] /\ AddOf(Obj("unique", c)) \in todo \ {x}
             \/ c \notin Unique[t] /\ DropOf(Obj("unique", c)) \in todo \ {x}
      BY <1>7, <1>10 DEF Remaining
    <2> QED BY <2>1, <2>2, <2>3, <2>4 DEF Remaining
  <1> QED BY <1>2, <1>9, <1>10

\* A table is created in its model's form, the indexes possibly to follow.
LEMMA CreateKeeps ==
    ASSUME NEW t \in Tables, t \notin DOMAIN db, NEW W, Plain(W),
           NEW objs, NEW later, objs \cup later = W \cup UniqueObjs(t), later \subseteq W
    PROVE  /\ Keeps(db, Create(t, objs).db)
           /\ Remaining(Create(t, objs).db, W, t, {AddOf(o) : o \in later}, {}, {})
  <1>1. PICK e : e = Create(t, objs).db
    OBVIOUS
  <1>2. e = [u \in DOMAIN db \cup {t} |->
               IF u = t THEN [cols |-> Columns[t], objs |-> objs] ELSE db[u]]
    BY <1>1 DEF Create
  <1>3. /\ t \in DOMAIN e /\ e[t] = [cols |-> Columns[t], objs |-> objs]
        /\ \A u \in DOMAIN db : u \in DOMAIN e /\ e[u] = db[u]
    BY <1>2
  <1>4. e[t].cols = Columns[t] /\ e[t].objs = objs
    BY <1>3
  <1>5. Keeps(db, e)
    BY <1>3 DEF Keeps, ColumnIs, UniqueIs
  <1>6. \A c \in DOMAIN Columns[t] : ColumnIs(e, t, c)
    BY <1>4 DEF ColumnIs
  <1>7. \A o \in W : o \in e[t].objs \/ AddOf(o) \in {AddOf(q) : q \in later}
    BY <1>4
  <1>8. \A c \in DOMAIN Columns[t] : UniqueIs(e, t, c)
    <2>1. \A b, c : Obj("unique", b) = Obj("unique", c) => b = c
      BY DEF Obj
    <2>2. \A c : Obj("unique", c) \in objs <=> Obj("unique", c) \in UniqueObjs(t)
      BY DEF Plain
    <2>3. \A c : Obj("unique", c) \in UniqueObjs(t) <=> c \in Unique[t]
      BY <2>1 DEF UniqueObjs
    <2> QED BY <1>4, <2>2, <2>3 DEF UniqueIs
  <1> QED BY <1>1, <1>3, <1>5, <1>6, <1>7, <1>8 DEF Remaining

\* ReadColumns decides on what is missing at that moment.
LEMMA DecidedRemains ==
    ASSUME NEW t \in DOMAIN db, NEW W
    PROVE  /\ Remaining(db, W, t, TableChanges(t, db[t]), W,
                        {<<t, c>> : c \in DOMAIN Columns[t] \ DOMAIN db[t].cols})
           /\ \A x \in TableChanges(t, db[t]) : Forward(W, t, x)
  <1> DEFINE todo == TableChanges(t, db[t])
             Of(c) == IF c \in DOMAIN db[t].cols THEN ColumnChanges(t, db[t], c)
                      ELSE {Change("add_column", c)}
  <1>1. \A x : x \in todo <=> \E c \in DOMAIN Columns[t] : x \in Of(c)
    BY DEF TableChanges, Change
  <1>2. \A c \in DOMAIN db[t].cols :
           /\ Change("alter_column", c) \in Of(c) \/ db[t].cols[c] = Columns[t][c]
           /\ \/ UniqueIs(db, t, c)
              \/ c \in Unique[t] /\ AddOf(Obj("unique", c)) \in Of(c)
              \/ c \notin Unique[t] /\ DropOf(Obj("unique", c)) \in Of(c)
    BY DEF ColumnChanges, UniqueIs, Change, AddOf, DropOf
  <1>3. \A c \in DOMAIN Columns[t] : \A x \in Of(c) :
           \/ x \in {Change("add_column", c), Change("alter_column", c)}
           \/ x = DropOf(Obj("unique", c)) /\ c \notin Unique[t]
           \/ x = AddOf(Obj("unique", c)) /\ c \in Unique[t]
    BY DEF ColumnChanges, Change, AddOf, DropOf
  <1>4. \A c : c \notin DOMAIN db[t].cols => Change("add_column", c) \in Of(c)
    OBVIOUS
  <1> HIDE DEF todo, Of
  <1>5. \A x \in todo : Forward(W, t, x)
    BY <1>1, <1>3 DEF Forward, UniqueObjs
  <1>6. Remaining(db, W, t, todo, W, {<<t, c>> : c \in DOMAIN Columns[t] \ DOMAIN db[t].cols})
    BY <1>1, <1>2, <1>4 DEF Remaining, ColumnIs
  <1> QED BY <1>5, <1>6 DEF todo

------------------------------------------------------------------------------
(***************************************************************************)
(* What a call goes on with.                                               *)
(***************************************************************************)

\* Nothing a program stands on has to do with whether it is alone.
LEMMA NotAlone ==
    ASSUME NEW p, NEW W, NEW d, Shape(p), Standing(p, W, d), NEW b \in BOOLEAN
    PROVE  Shape([p EXCEPT !.alone = b]) /\ Standing([p EXCEPT !.alone = b], W, d)
  <1>1. PICK q : q = [p EXCEPT !.alone = b]
    OBVIOUS
  <1>2. Is(q, p, p.at, p.left, p.todo, p.rest, p.result, b)
    BY <1>1, Records DEF Shape
  <1>a. q.alone \in BOOLEAN
    BY <1>2 DEF Is
  <1>3. Shape(q)
    BY <1>2, <1>a DEF Is, Shape
  <1>4. Behind(q) = Behind(p)
    BY <1>2 DEF Is, Behind
  <1>5. Standing(q, W, d)
    BY <1>2, <1>4 DEF Is, Standing
  <1> QED BY <1>1, <1>3, <1>5

\* The table at hand is done: it joins those behind.
LEMMA NextTableStands ==
    ASSUME NEW p, NEW W, NEW d, Shape(p), Standing(p, W, d), p.at # "idle",
           Right(d, W[Head(p.left)], Head(p.left), p.added)
    PROVE  Shape(NextTable(p)) /\ Standing(NextTable(p), W, d)
  <1>1. PICK q : q = NextTable(p)
    OBVIOUS
  <1>2. PICK n : n = Len(p.left)
    OBVIOUS
  <1>3. PICK k : k = Len(p.done)
    OBVIOUS
  <1>4. /\ n \in Nat /\ k \in Nat /\ n >= 1 /\ n =< k
        /\ p.left \in Seq(Tables) /\ p.done \in Seq(Tables)
        /\ \A i \in 1..n : p.left[i] = p.done[k - n + i]
        /\ Head(p.left) = p.done[k - n + 1]
    <2>1. p.left \in Seq(Tables) /\ p.left # <<>> /\ p.done \in Seq(Tables)
      BY DEF Shape
    <2>2. n \in Nat /\ k \in Nat /\ n >= 1 /\ Head(p.left) = p.left[1]
      BY <1>2, <1>3, <2>1
    <2>3. n =< k /\ \A i \in 1..n : p.left[i] = p.done[k - n + i]
      BY <1>2, <1>3 DEF Shape
    <2>4. 1 \in 1..n
      BY <2>2
    <2> QED BY <2>1, <2>2, <2>3, <2>4
  <1>5. \A i \in 1..(k - n) : Right(d, W[p.done[i]], p.done[i], p.added)
    BY <1>2, <1>3 DEF Standing, Behind
  <1>6. \A i \in 1..(k - n + 1) : Right(d, W[p.done[i]], p.done[i], p.added)
    <2> TAKE i \in 1..(k - n + 1)
    <2>1. i \in 1..(k - n) \/ i = k - n + 1
      BY <1>4
    <2> QED BY <1>4, <1>5, <2>1
  <1>7. CASE n > 1
    <2>1. Is(q, p, "table", Tail(p.left), {}, {}, p.result, p.alone)
      BY <1>1, <1>2, <1>7, Records DEF Shape
    <2>2. PICK rear : rear = Tail(p.left)
      OBVIOUS
    <2>3. /\ rear \in Seq(Tables) /\ Len(rear) = n - 1 /\ rear # <<>>
          /\ \A i \in 1..(n - 1) : rear[i] = p.left[i + 1]
      <3>1. PICK left \in Seq(Tables) : left = p.left
        BY <1>4
      <3>2. Len(left) = n /\ left # <<>> /\ n \in Nat
        BY <1>2, <1>4, <3>1
      <3>3. rear = Tail(left)
        BY <2>2, <3>1
      <3>4. rear \in Seq(Tables) /\ Len(rear) = n - 1
        BY <3>2, <3>3
      <3>5. \A i \in 1..(n - 1) : rear[i] = left[i + 1]
        BY <3>2, <3>3
      <3>6. rear # <<>>
        BY <1>7, <3>2, <3>4
      <3> QED BY <3>1, <3>4, <3>5, <3>6
    <2>4. \A i \in 1..(n - 1) : rear[i] = p.done[k - (n - 1) + i]
      BY <1>4, <2>3
    <2>5. Shape(q)
      <3>1. /\ DOMAIN q = Fields /\ q.at = "table" /\ q.left = rear /\ q.done = p.done
            /\ q.known \in Knowns /\ q.result = "none" /\ q.alone = p.alone
        BY <2>1, <2>2 DEF Is, Shape
      <3>2. n - 1 =< k
        BY <1>4
      <3> QED BY <1>3, <1>4, <2>3, <2>4, <3>1, <3>2 DEF Shape, Stages
    <2>6. \A t \in Behind(q) : Right(d, W[t], t, p.added)
      <3>1. Behind(q) = {p.done[i] : i \in 1..(k - (n - 1))}
        BY <1>3, <2>1, <2>2, <2>3 DEF Behind, Is
      <3>2. k - (n - 1) = k - n + 1
        BY <1>4
      <3> QED BY <3>1, <3>2, <1>6
    <2>7. p.result = "none"
      BY DEF Shape
    <2>8. Standing(q, W, d)
      BY <2>1, <2>6, <2>7 DEF Is, Standing, Working
    <2> QED BY <1>1, <2>5, <2>8
  <1>8. CASE n = 1
    <2>1. Is(q, p, "idle", <<>>, {}, {}, "nil", p.alone)
      <3>1. ~(Len(p.left) > 1) /\ DOMAIN p = Fields
        BY <1>2, <1>8 DEF Shape
      <3> QED BY <1>1, <3>1, Records
    <2>2. DOMAIN p.done = 1..(k - n + 1)
      BY <1>3, <1>4, <1>8
    <2>3. Shape(q)
      BY <2>1 DEF Is, Shape, Stages
    <2>4. Standing(q, W, d)
      BY <1>6, <2>1, <2>2 DEF Is, Standing, Working
    <2> QED BY <1>1, <2>3, <2>4
  <1> QED BY <1>4, <1>7, <1>8

LEMMA ProceedStands ==
    ASSUME NEW p, NEW W, NEW d, Shape(p), Standing(p, W, d), p.at \in Working
    PROVE  Shape(Proceed(p)) /\ Standing(Proceed(p), W, d)
  <1>1. CASE p.todo # {}
    BY <1>1 DEF Proceed
  <1>2. CASE p.todo = {} /\ p.rest # {}
    <2>1. PICK q : q = [p EXCEPT !.at = "ask"]
      OBVIOUS
    <2>2. Is(q, p, "ask", p.left, p.todo, p.rest, p.result, p.alone)
      BY <2>1, Records DEF Shape
    <2>3. Behind(q) = Behind(p)
      BY <2>2 DEF Is, Behind
    <2>4. Shape(q)
      BY <2>2 DEF Is, Shape, Stages, Working
    <2>5. Standing(q, W, d)
      BY <1>2, <2>2, <2>3 DEF Is, Standing, Working
    <2> QED BY <1>2, <2>1, <2>4, <2>5 DEF Proceed
  <1>3. CASE p.todo = {} /\ p.rest = {}
    <2>1. Right(d, W[Head(p.left)], Head(p.left), p.added)
      BY <1>3 DEF Standing, Remaining, Right
    <2>2. p.at # "idle"
      BY DEF Working
    <2> QED BY <1>3, <2>1, <2>2, NextTableStands DEF Proceed
  <1> QED BY <1>1, <1>2, <1>3

------------------------------------------------------------------------------
(***************************************************************************)
(* The invariant is inductive.                                             *)
(***************************************************************************)

LEMMA WantsSame == UNCHANGED config => \A known : Wants(known)' = Wants(known)
  BY DEF Wants, WantedObjs, WantedKeys

LEMMA WantsPlain == \A known : \A t \in Tables : Plain(Wants(known)[t])
  BY WantedPlain DEF Wants

\* A step of one program that leaves the tables no further from their models.
LEMMA StepInv ==
    ASSUME ShapeInv, StandInv, NEW m \in Programs, UNCHANGED config, Keeps(db, db'),
           NEW q, proc' = [proc EXCEPT ![m] = q],
           Shape(q), Standing(q, Wants(q.known), db')
    PROVE  ShapeInv' /\ StandInv'
  <1>1. /\ DOMAIN proc = Programs /\ DOMAIN proc' = Programs /\ proc'[m] = q
        /\ \A n \in Programs : n # m => proc'[n] = proc[n]
    BY DEF ShapeInv
  <1>2. \A n \in Programs : Shape(proc'[n])
    BY <1>1 DEF ShapeInv
  <1>3. proc' = [n \in Programs |-> proc'[n]]
    BY <1>1
  <1>4. ShapeInv'
    BY <1>1, <1>2, <1>3 DEF ShapeInv
  <1>5. \A n \in Programs : Standing(proc'[n], Wants(proc'[n].known), db')
    <2> TAKE n \in Programs
    <2>1. CASE n = m
      BY <1>1, <2>1
    <2>2. CASE n # m
      <3>1. Shape(proc[n]) /\ Standing(proc[n], Wants(proc[n].known), db)
        BY DEF ShapeInv, StandInv
      <3>2. Standing(proc[n], Wants(proc[n].known), db')
        BY <3>1, StandingKept, WantsPlain
      <3> QED BY <1>1, <2>2, <3>2
    <2> QED BY <2>1, <2>2
  <1>6. StandInv'
    BY <1>5, WantsSame DEF StandInv
  <1> QED BY <1>4, <1>6

LEMMA ExecInv ==
    ASSUME ShapeInv, StandInv, NEW m \in Programs, NEW s, NEW q, Exec(m, s, q),
           s.ok => Keeps(db, s.db) /\ Shape(q) /\ Standing(q, Wants(q.known), s.db)
    PROVE  ShapeInv' /\ StandInv'
  <1>1. UNCHANGED config /\ Shape(proc[m])
    BY DEF Exec, ShapeInv
  <1>2. CASE s.ok /\ db' = s.db /\ Step(m, q)
    BY <1>1, <1>2, StepInv DEF Step
  <1>3. CASE db' = db /\ Step(m, Failed(proc[m]))
    <2>1. PICK f : f = Failed(proc[m])
      OBVIOUS
    <2>2. Shape(f) /\ Standing(f, Wants(f.known), db') /\ Keeps(db, db')
      BY <1>1, <1>3, <2>1, FailedStands, KeepsSame
    <2>3. proc' = [proc EXCEPT ![m] = f]
      BY <1>3, <2>1 DEF Step
    <2> QED BY <1>1, <2>2, <2>3, StepInv
  <1>4. CASE (db' = db \/ (s.ok /\ db' = s.db)) /\ Step(m, [Failed(proc[m]) EXCEPT !.alone = FALSE])
    <2>1. PICK f : f = [Failed(proc[m]) EXCEPT !.alone = FALSE]
      OBVIOUS
    <2>2. Keeps(db, db')
      BY <1>4, KeepsSame
    <2>3. Shape(f) /\ Standing(f, Wants(f.known), db')
      BY <1>1, <2>1, FailedStands
    <2>4. proc' = [proc EXCEPT ![m] = f]
      BY <1>4, <2>1 DEF Step
    <2> QED BY <1>1, <2>2, <2>3, <2>4, StepInv
  <1> QED BY <1>2, <1>3, <1>4 DEF Exec

\* A statement decided on earlier is executed.
LEMMA ExecuteInv ==
    ASSUME ShapeInv, StandInv, NEW m \in Programs, proc[m].at \in {"index", "columns", "add"},
           NEW x \in proc[m].todo, Execute(m, x)
    PROVE  ShapeInv' /\ StandInv'
  <1>1. PICK p : p = proc[m]
    OBVIOUS
  <1>2. PICK W : W = Wants(p.known)
    OBVIOUS
  <1>3. PICK t : t = Head(p.left)
    OBVIOUS
  <1>4. Shape(p) /\ Standing(p, W, db) /\ p.at \in Working /\ p.at # "ask"
    BY <1>1, <1>2 DEF ShapeInv, StandInv, Working
  <1>5. t \in Tables /\ Plain(W[t])
    BY <1>2, <1>3, <1>4, WantsPlain, TheTables DEF Working
  <1>6. /\ Remaining(db, W[t], t, p.todo, p.rest, p.added)
        /\ \A y \in p.todo : Forward(W[t], t, y)
        /\ p.rest \subseteq W[t]
    BY <1>3, <1>4 DEF Standing
  <1>7. PICK s : s = Statement(t, x)
    OBVIOUS
  <1>8. Keeps(db, s.db) /\ Remaining(s.db, W[t], t, p.todo \ {x}, p.rest, p.added)
    <2>1. t \in DOMAIN db /\ Forward(W[t], t, x)
      BY <1>1, <1>6 DEF Remaining
    <2> QED BY <1>5, <1>6, <1>7, <2>1, StatementKeeps
  <1>9. PICK q : q = [p EXCEPT !.todo = p.todo \ {x}]
    OBVIOUS
  <1>10. Is(q, p, p.at, p.left, p.todo \ {x}, p.rest, p.result, p.alone)
    BY <1>4, <1>9, Records DEF Shape
  <1>11. Standing(p, W, s.db)
    BY <1>2, <1>4, <1>8, StandingKept, WantsPlain
  <1>12. Shape(q)
    BY <1>4, <1>10 DEF Is, Shape
  <1>13. Standing(q, W, s.db)
    <2>1. Behind(q) = Behind(p)
      BY <1>10 DEF Is, Behind
    <2> QED BY <1>3, <1>4, <1>6, <1>8, <1>10, <1>11, <2>1 DEF Is, Standing
  <1>14. PICK r : r = Proceed(q)
    OBVIOUS
  <1>15. Shape(r) /\ Standing(r, W, s.db)
    BY <1>4, <1>10, <1>12, <1>13, <1>14, ProceedStands DEF Is
  <1>16. r.known = p.known
    <2>1. Is([q EXCEPT !.at = "ask"], q, "ask", q.left, q.todo, q.rest, q.result, q.alone)
      BY <1>12, Records DEF Shape
    <2>2. NextTable(q).known = q.known
      BY <1>12, Records DEF Shape, Is
    <2> QED BY <1>10, <1>14, <2>1, <2>2 DEF Proceed, Is
  <1>17. Exec(m, s, r)
    BY <1>1, <1>3, <1>7, <1>9, <1>14 DEF Execute, Table
  <1> QED BY <1>2, <1>8, <1>15, <1>16, <1>17, ExecInv

\* A call starts with every table still to be taken.
LEMMA StartInv ==
    ASSUME ShapeInv, StandInv, NEW m \in Programs, Start(m)
    PROVE  ShapeInv' /\ StandInv'
  <1>1. UNCHANGED <<config, db>> /\ proc[m].known \in Knowns /\ config \in Configs
    BY ZenonT(60) DEF Start, Stay, ShapeInv, Shape
  <1>a. PICK values \in Calls : \E plan \in Orders(config, proc[m].known, values) :
           proc' = [n \in Programs |->
               IF n = m THEN [Idle(plan.known) EXCEPT
                                !.at = "table", !.left = plan.order, !.done = plan.order,
                                !.alone = \A k \in Programs \ {m} : proc[k].at = "idle"]
               ELSE [proc[n] EXCEPT !.alone = FALSE]]
    BY ZenonT(60) DEF Start
  <1>2. PICK plan \in Orders(config, proc[m].known, values) :
           proc' = [n \in Programs |->
               IF n = m THEN [Idle(plan.known) EXCEPT
                                !.at = "table", !.left = plan.order, !.done = plan.order,
                                !.alone = \A k \in Programs \ {m} : proc[k].at = "idle"]
               ELSE [proc[n] EXCEPT !.alone = FALSE]]
    BY <1>a
  <1>b. plan.order \in Seq(Tables) /\ plan.order # <<>> /\ plan.known \in Knowns
    BY <1>1, OrdersAssumption
  <1>c. PICK b : b = (\A k \in Programs \ {m} : proc[k].at = "idle")
    OBVIOUS
  <1>d. b \in BOOLEAN
    BY <1>c
  <1>3. PICK order \in Seq(Tables), known \in Knowns :
           order = plan.order /\ known = plan.known /\ order # <<>>
    BY <1>b
  <1>4. PICK q : q = [Idle(plan.known) EXCEPT
                         !.at = "table", !.left = plan.order, !.done = plan.order,
                         !.alone = \A k \in Programs \ {m} : proc[k].at = "idle"]
    OBVIOUS
  <1>e. q = [Idle(known) EXCEPT !.at = "table", !.left = order, !.done = order, !.alone = b]
    BY <1>3, <1>4, <1>c
  <1>5. /\ DOMAIN q = Fields /\ q.known = known /\ q.done = order /\ q.added = {}
        /\ q.at = "table" /\ q.left = order /\ q.todo = {} /\ q.rest = {}
        /\ q.result = "none" /\ q.alone = b
    BY <1>e DEF Idle, Fields
  <1>6. Shape(q)
    <2>1. Len(order) \in Nat /\ \A i \in 1..Len(order) : Len(order) - Len(order) + i = i
      OBVIOUS
    <2>2. q.alone \in BOOLEAN
      BY <1>5, <1>d
    <2> QED BY <1>3, <1>5, <2>1, <2>2 DEF Shape, Stages
  <1>7. Standing(q, Wants(q.known), db)
    <2>1. Len(order) - Len(order) = 0
      OBVIOUS
    <2>2. Behind(q) = {}
      BY <1>5, <2>1 DEF Behind
    <2> QED BY <1>5, <2>2 DEF Standing, Working
  <1>8. \A n \in Programs : proc'[n] = IF n = m THEN q ELSE [proc[n] EXCEPT !.alone = FALSE]
    BY <1>2, <1>4
  <1>9. \A n \in Programs : Shape(proc'[n]) /\ Standing(proc'[n], Wants(proc'[n].known), db)
    <2> TAKE n \in Programs
    <2>1. CASE n = m
      BY <1>6, <1>7, <1>8, <2>1
    <2>2. CASE n # m
      <3>1. Shape(proc[n]) /\ Standing(proc[n], Wants(proc[n].known), db)
        BY DEF ShapeInv, StandInv
      <3>2. PICK r : r = [proc[n] EXCEPT !.alone = FALSE]
        OBVIOUS
      <3>3. Shape(r) /\ Standing(r, Wants(proc[n].known), db)
        BY <3>1, <3>2, NotAlone
      <3>4. r.known = proc[n].known
        BY <3>1, <3>2, Records DEF Is, Shape
      <3> QED BY <1>8, <2>2, <3>2, <3>3, <3>4
    <2> QED BY <2>1, <2>2
  <1>10. ShapeInv'
    <2>1. DOMAIN proc' = Programs /\ proc' = [n \in Programs |-> proc'[n]]
      BY <1>2
    <2> QED BY <1>1, <1>9, <2>1 DEF ShapeInv
  <1>11. StandInv'
    BY <1>1, <1>9, WantsSame DEF StandInv
  <1> QED BY <1>10, <1>11

\* A program is where it was, at another point of its call.
LEMMA MoveInv ==
    ASSUME ShapeInv, StandInv, NEW m \in Programs, proc[m].at = "table",
           NEW at \in {"look", "create"}, at = "look" => Table(m) \in DOMAIN db
    PROVE  LET q == [proc[m] EXCEPT !.at = at]
           IN  Shape(q) /\ Standing(q, Wants(q.known), db)
  <1>1. PICK q : q = [proc[m] EXCEPT !.at = at]
    OBVIOUS
  <1>2. PICK p : p = proc[m] /\ Shape(p) /\ Standing(p, Wants(p.known), db)
    BY DEF ShapeInv, StandInv
  <1>3. Is(q, p, at, p.left, p.todo, p.rest, p.result, p.alone)
    BY <1>1, <1>2, Records DEF Shape
  <1>4. Behind(q) = Behind(p)
    BY <1>3 DEF Is, Behind
  <1>5. Shape(q)
    BY <1>2, <1>3 DEF Is, Shape, Stages
  <1>6. Standing(q, Wants(q.known), db)
    BY <1>2, <1>3, <1>4 DEF Is, Standing, Working, Table
  <1> QED BY <1>1, <1>5, <1>6

LEMMA AskTableInv ==
    ASSUME ShapeInv, StandInv, NEW m \in Programs, AskTable(m)
    PROVE  ShapeInv' /\ StandInv'
  <1>1. UNCHANGED <<config, db>> /\ proc[m].at = "table" /\ Keeps(db, db')
    BY KeepsSame DEF AskTable, Stay
  <1>2. CASE Step(m, [proc[m] EXCEPT !.at = IF Table(m) \in DOMAIN db THEN "look" ELSE "create"])
    <2>1. PICK at \in {"look", "create"} :
             at = (IF Table(m) \in DOMAIN db THEN "look" ELSE "create")
      OBVIOUS
    <2>2. PICK q : q = [proc[m] EXCEPT !.at = at]
      OBVIOUS
    <2>3. Shape(q) /\ Standing(q, Wants(q.known), db)
      BY <1>1, <2>1, <2>2, MoveInv
    <2>4. proc' = [proc EXCEPT ![m] = q]
      BY <1>2, <2>1, <2>2 DEF Step
    <2> QED BY <1>1, <2>3, <2>4, StepInv
  <1>3. CASE Step(m, [proc[m] EXCEPT !.at = "create", !.alone = FALSE])
    <2>1. PICK q : q = [proc[m] EXCEPT !.at = "create"]
      OBVIOUS
    <2>2. Shape(q) /\ Standing(q, Wants(q.known), db)
      BY <1>1, <2>1, MoveInv
    <2>3. PICK r : r = [q EXCEPT !.alone = FALSE]
      OBVIOUS
    <2>4. Shape(r) /\ Standing(r, Wants(q.known), db)
      BY <2>2, <2>3, NotAlone
    <2>5. r.known = q.known
      BY <2>2, <2>3, Records DEF Is, Shape
    <2>6. proc' = [proc EXCEPT ![m] = r]
      <3>1. r = [proc[m] EXCEPT !.at = "create", !.alone = FALSE]
        BY <2>1, <2>3
      <3> QED BY <1>3, <3>1 DEF Step
    <2> QED BY <1>1, <2>4, <2>5, <2>6, StepInv
  <1> QED BY <1>2, <1>3 DEF AskTable

\* The process dies, and starts with nothing.
LEMMA RestartInv ==
    ASSUME ShapeInv, StandInv, NEW m \in Programs, Restart(m)
    PROVE  ShapeInv' /\ StandInv'
  <1>1. PICK q : q = Idle({})
    OBVIOUS
  <1>2. /\ DOMAIN q = Fields /\ q.known = {} /\ q.done = <<>> /\ q.left = <<>>
        /\ q.at = "idle" /\ q.result = "none" /\ q.alone = FALSE
    BY <1>1 DEF Idle, Fields
  <1>a. q.alone \in BOOLEAN
    BY <1>2
  <1>3. Shape(q) /\ Standing(q, Wants(q.known), db')
    BY <1>2, <1>a, KnownsAssumption DEF Shape, Stages, Standing, Working
  <1> QED BY <1>1, <1>3, KeepsSame, StepInv DEF Restart, Step

\* Proceed keeps the models the program has parsed.
LEMMA ProceedKnown == ASSUME NEW p, Shape(p) PROVE Proceed(p).known = p.known
  <1>1. NextTable(p).known = p.known
    BY Records DEF Shape, Is
  <1>2. [p EXCEPT !.at = "ask"].known = p.known
    BY Records DEF Shape, Is
  <1> QED BY <1>1, <1>2 DEF Proceed

\* What a call knows of the table at hand.
LEMMA AtHand ==
    ASSUME ShapeInv, StandInv, NEW m \in Programs, proc[m].at # "idle"
    PROVE  /\ Shape(proc[m]) /\ Standing(proc[m], Wants(proc[m].known), db)
           /\ Table(m) = Head(proc[m].left) /\ Table(m) \in Tables
           /\ Wants(proc[m].known)[Table(m)] = WantedObjs(Table(m), proc[m].known)
           /\ Plain(WantedObjs(Table(m), proc[m].known))
  <1>1. Shape(proc[m]) /\ Standing(proc[m], Wants(proc[m].known), db)
    BY DEF ShapeInv, StandInv
  <1>2. Table(m) \in Tables
    BY <1>1, TheTables DEF Table
  <1> QED BY <1>1, <1>2, WantedPlain DEF Table, Wants

LEMMA CreateTableInv ==
    ASSUME ShapeInv, StandInv, NEW m \in Programs, CreateTable(m)
    PROVE  ShapeInv' /\ StandInv'
  <1>1. proc[m].at = "create"
    BY DEF CreateTable
  <1>2. PICK p, t : p = proc[m] /\ t = Table(m)
    OBVIOUS
  <1>3. PICK V : V = Wants(p.known)
    OBVIOUS
  <1>4. /\ Shape(p) /\ Standing(p, V, db) /\ p.at = "create" /\ t = Head(p.left)
        /\ t \in Tables /\ V[t] = WantedObjs(t, p.known) /\ Plain(V[t])
    BY <1>1, <1>2, <1>3, AtHand
  <1>5. PICK objs, later :
           /\ objs = WantedKeys(t, p.known) \cup UniqueObjs(t) \cup CheckObjs(t)
                     \cup (IF config.indexAfter THEN {} ELSE IndexObjs(t))
           /\ later = (IF config.indexAfter THEN IndexObjs(t) ELSE {})
    OBVIOUS
  <1>6. objs \cup later = V[t] \cup UniqueObjs(t) /\ later \subseteq V[t]
    BY <1>4, <1>5 DEF WantedObjs
  <1>7. PICK q : q = [p EXCEPT !.at = "index", !.todo = {[do |-> "add", on |-> o] : o \in later}]
    OBVIOUS
  <1>8. Is(q, p, "index", p.left, {AddOf(o) : o \in later}, p.rest, p.result, p.alone)
    BY <1>4, <1>7 DEF Is, Fields, Shape, AddOf
  <1>9. PICK s : s = Create(t, objs)
    OBVIOUS
  <1>10. Exec(m, s, Proceed(q))
    BY <1>2, <1>5, <1>7, <1>9 DEF CreateTable
  <1>11. Shape(q)
    BY <1>4, <1>8 DEF Is, Shape, Stages
  <1>12. ASSUME s.ok PROVE Keeps(db, s.db) /\ Standing(q, V, s.db)
    <2>1. t \notin DOMAIN db
      BY <1>9, <1>12 DEF Create
    <2>2. Keeps(db, s.db) /\ Remaining(s.db, V[t], t, {AddOf(o) : o \in later}, {}, {})
      BY <1>4, <1>6, <1>9, <2>1, CreateKeeps
    <2>3. Standing(p, V, s.db)
      BY <1>3, <1>4, <2>2, StandingKept, WantsPlain
    <2>4. Remaining(s.db, V[t], t, {AddOf(o) : o \in later}, p.rest, p.added)
      BY <2>2 DEF Remaining
    <2>5. p.rest = {}
      BY <1>4 DEF Standing
    <2>6. \A x \in {AddOf(o) : o \in later} : Forward(V[t], t, x)
      BY <1>6 DEF Forward
    <2>7. Behind(q) = Behind(p)
      BY <1>8 DEF Is, Behind
    <2>8. Standing(q, V, s.db)
      BY <1>4, <1>8, <2>3, <2>4, <2>5, <2>6, <2>7 DEF Is, Standing
    <2> QED BY <2>2, <2>8
  <1>13. PICK r : r = Proceed(q)
    OBVIOUS
  <1>14. r.known = p.known
    BY <1>8, <1>11, <1>13, ProceedKnown DEF Is
  <1>15. s.ok => Shape(r) /\ Standing(r, V, s.db)
    BY <1>8, <1>11, <1>12, <1>13, ProceedStands DEF Is, Working
  <1> QED BY <1>3, <1>10, <1>12, <1>13, <1>14, <1>15, ExecInv

\* More columns added by the call, more objects to ask for: nothing less known.
LEMMA RightMore ==
    ASSUME NEW d, NEW W, NEW t, NEW new, NEW more, new \subseteq more, Right(d, W, t, new)
    PROVE  Right(d, W, t, more)
  BY DEF Right

LEMMA ReadColumnsInv ==
    ASSUME ShapeInv, StandInv, NEW m \in Programs, ReadColumns(m)
    PROVE  ShapeInv' /\ StandInv'
  <1>1. proc[m].at = "look" /\ UNCHANGED <<config, db>>
    BY DEF ReadColumns, Stay
  <1>2. PICK p, t : p = proc[m] /\ t = Table(m)
    OBVIOUS
  <1>3. PICK V : V = Wants(p.known)
    OBVIOUS
  <1>4. /\ Shape(p) /\ Standing(p, V, db) /\ p.at = "look" /\ t = Head(p.left)
        /\ t \in Tables /\ V[t] = WantedObjs(t, p.known) /\ Plain(V[t])
    BY <1>1, <1>2, <1>3, AtHand
  <1>5. PICK todo, new : /\ todo = TableChanges(t, db[t])
                         /\ new = {<<t, c>> : c \in DOMAIN Columns[t] \ DOMAIN db[t].cols}
    OBVIOUS
  <1>6. PICK q : q = [p EXCEPT !.at = "columns", !.todo = todo, !.added = @ \cup new,
                              !.rest = WantedKeys(t, p.known) \cup CheckObjs(t) \cup IndexObjs(t)]
    OBVIOUS
  <1>7. CASE Step(m, Proceed(q))
    <2>1. /\ DOMAIN q = Fields /\ q.known = p.known /\ q.done = p.done /\ q.left = p.left
          /\ q.result = p.result /\ q.alone = p.alone
          /\ q.at = "columns" /\ q.todo = todo /\ q.rest = V[t] /\ q.added = p.added \cup new
      BY <1>4, <1>6 DEF Shape, Fields, WantedObjs
    <2>2. Shape(q)
      BY <1>4, <2>1 DEF Shape, Stages
    <2>3. t \in DOMAIN db
      BY <1>4 DEF Standing
    <2>4. Remaining(db, V[t], t, todo, V[t], new) /\ \A x \in todo : Forward(V[t], t, x)
      BY <1>5, <2>3, DecidedRemains
    <2>5. Remaining(db, V[t], t, todo, V[t], p.added \cup new)
      BY <2>4 DEF Remaining
    <2>6. Behind(q) = Behind(p)
      BY <2>1 DEF Behind
    <2>7. \A u \in Behind(p) : Right(db, V[u], u, p.added \cup new)
      BY <1>4, RightMore DEF Standing
    <2>8. q.result = "none"
      BY <1>4, <2>1 DEF Shape
    <2>9. Standing(q, V, db) /\ q.at \in Working
      BY <1>4, <2>1, <2>4, <2>5, <2>6, <2>7, <2>8 DEF Standing, Working
    <2>10. PICK r : r = Proceed(q)
      OBVIOUS
    <2>11. Shape(r) /\ Standing(r, V, db) /\ r.known = p.known
      BY <2>1, <2>2, <2>9, <2>10, ProceedStands, ProceedKnown
    <2>12. proc' = [proc EXCEPT ![m] = r]
      BY <1>7, <2>10 DEF Step
    <2> QED BY <1>1, <1>3, <2>11, <2>12, KeepsSame, StepInv
  <1>8. CASE Step(m, [Failed(proc[m]) EXCEPT !.alone = FALSE])
    <2>1. PICK f : f = [Failed(proc[m]) EXCEPT !.alone = FALSE]
      OBVIOUS
    <2>2. Shape(f) /\ Standing(f, Wants(f.known), db)
      BY <1>2, <1>4, <2>1, FailedStands
    <2>3. proc' = [proc EXCEPT ![m] = f]
      BY <1>8, <2>1 DEF Step
    <2> QED BY <1>1, <2>2, <2>3, KeepsSame, StepInv
  <1> QED BY <1>2, <1>5, <1>6, <1>7, <1>8 DEF ReadColumns

\* An object asked for is there, or will be added, or the question has failed
\* and it will be added all the same.
LEMMA AskObjectInv ==
    ASSUME ShapeInv, StandInv, NEW m \in Programs, AskObject(m)
    PROVE  ShapeInv' /\ StandInv'
  <1>1. proc[m].at = "ask" /\ UNCHANGED <<config, db>>
    BY DEF AskObject, Stay
  <1>2. PICK p, t : p = proc[m] /\ t = Table(m)
    OBVIOUS
  <1>3. PICK V : V = Wants(p.known)
    OBVIOUS
  <1>4. /\ Shape(p) /\ Standing(p, V, db) /\ p.at = "ask" /\ t = Head(p.left)
        /\ t \in Tables /\ V[t] = WantedObjs(t, p.known) /\ Plain(V[t])
    BY <1>1, <1>2, <1>3, AtHand
  <1>5. /\ p.todo = {} /\ p.rest \subseteq V[t] /\ p.result = "none"
        /\ Remaining(db, V[t], t, {}, p.rest, p.added)
    BY <1>4 DEF Standing, Working, Shape
  <1>6. PICK o \in p.rest :
           LET others == [p EXCEPT !.rest = @ \ {o}]
               missing == [others EXCEPT !.at = "add", !.todo = {AddOf(o)}]
           IN \/ Step(m, IF o \in db[t].objs THEN Proceed(others) ELSE missing)
              \/ Step(m, [missing EXCEPT !.alone = FALSE])
    BY <1>2 DEF AskObject, AddOf
  <1>7. PICK a, b : /\ a = [p EXCEPT !.rest = @ \ {o}]
                    /\ b = [a EXCEPT !.at = "add", !.todo = {AddOf(o)}]
    OBVIOUS
  <1>8. Is(a, p, "ask", p.left, {}, p.rest \ {o}, "none", p.alone)
    BY <1>4, <1>5, <1>7 DEF Is, Shape, Fields
  <1>9. Is(b, p, "add", p.left, {AddOf(o)}, p.rest \ {o}, "none", p.alone)
    BY <1>7, <1>8 DEF Is, Fields
  <1>10. Shape(a) /\ Shape(b) /\ a.known = p.known /\ b.known = p.known
    BY <1>4, <1>8, <1>9 DEF Is, Shape, Stages
  <1>11. Behind(a) = Behind(p) /\ Behind(b) = Behind(p)
    BY <1>8, <1>9 DEF Is, Behind
  <1>12. o \in db[t].objs => Standing(a, V, db)
    <2>1. o \in db[t].objs => Remaining(db, V[t], t, {}, p.rest \ {o}, p.added)
      BY <1>5 DEF Remaining
    <2> QED BY <1>4, <1>5, <1>8, <1>11, <2>1 DEF Is, Standing, Working
  <1>13. Standing(b, V, db)
    <2>1. Remaining(db, V[t], t, {AddOf(o)}, p.rest \ {o}, p.added)
      BY <1>5 DEF Remaining
    <2>2. Forward(V[t], t, AddOf(o))
      BY <1>5 DEF Forward
    <2> QED BY <1>4, <1>5, <1>9, <1>11, <2>1, <2>2 DEF Is, Standing, Working
  <1>14. CASE o \in db[t].objs /\ Step(m, Proceed(a))
    <2>1. PICK r : r = Proceed(a)
      OBVIOUS
    <2>2. Shape(r) /\ Standing(r, V, db) /\ r.known = p.known
      BY <1>8, <1>10, <1>12, <1>14, <2>1, ProceedStands, ProceedKnown DEF Is, Working
    <2>3. proc' = [proc EXCEPT ![m] = r]
      BY <1>14, <2>1 DEF Step
    <2> QED BY <1>1, <1>3, <2>2, <2>3, KeepsSame, StepInv
  <1>15. CASE Step(m, b)
    BY <1>1, <1>3, <1>10, <1>13, <1>15, KeepsSame, StepInv DEF Step
  <1>16. CASE Step(m, [b EXCEPT !.alone = FALSE])
    <2>1. PICK r : r = [b EXCEPT !.alone = FALSE]
      OBVIOUS
    <2>2. Shape(r) /\ Standing(r, V, db)
      BY <1>10, <1>13, <2>1, NotAlone
    <2>3. r.known = p.known
      BY <1>10, <2>1, Records DEF Is, Shape
    <2>4. proc' = [proc EXCEPT ![m] = r]
      BY <1>16, <2>1 DEF Step
    <2> QED BY <1>1, <1>3, <2>2, <2>3, <2>4, KeepsSame, StepInv
  <1> QED BY <1>6, <1>7, <1>14, <1>15, <1>16

LEMMA InitInv == Init => ShapeInv /\ StandInv
  <1> SUFFICES ASSUME Init PROVE ShapeInv /\ StandInv
    OBVIOUS
  <1>1. \A m \in Programs : \E known \in Knowns : proc[m] = Idle(known)
    BY KnownsAssumption DEF Init
  <1>2. ASSUME NEW known \in Knowns PROVE Shape(Idle(known)) /\ Standing(Idle(known), Wants(known), db)
    <2>1. PICK q : q = Idle(known)
      OBVIOUS
    <2>2. /\ DOMAIN q = Fields /\ q.known = known /\ q.done = <<>> /\ q.left = <<>>
          /\ q.at = "idle" /\ q.result = "none" /\ q.alone = FALSE
      BY <2>1 DEF Idle, Fields
    <2>3. q.alone \in BOOLEAN
      BY <2>2
    <2> QED BY <2>1, <2>2, <2>3 DEF Shape, Stages, Standing, Working
  <1>3. \A known : Idle(known).known = known
    BY DEF Idle
  <1>4. ShapeInv
    BY <1>1, <1>2 DEF Init, ShapeInv
  <1>5. StandInv
    <2> SUFFICES ASSUME NEW m \in Programs PROVE Standing(proc[m], Wants(proc[m].known), db)
      BY DEF StandInv
    <2>1. PICK known \in Knowns : proc[m] = Idle(known)
      BY <1>1
    <2> QED BY <1>2, <1>3, <2>1
  <1> QED BY <1>4, <1>5

LEMMA NextInv == ShapeInv /\ StandInv /\ [Next]_vars => ShapeInv' /\ StandInv'
  <1> SUFFICES ASSUME ShapeInv, StandInv, [Next]_vars PROVE ShapeInv' /\ StandInv'
    OBVIOUS
  <1>1. ASSUME NEW m \in Programs, AutoMigrate(m) PROVE ShapeInv' /\ StandInv'
    <2>1. CASE CreateIndexAfter(m)
      BY <2>1, ExecuteInv DEF CreateIndexAfter
    <2>2. CASE ChangeColumn(m)
      BY <2>2, ExecuteInv DEF ChangeColumn
    <2>3. CASE AddObject(m)
      BY <2>3, ExecuteInv DEF AddObject
    <2> QED BY <1>1, <2>1, <2>2, <2>3, StartInv, AskTableInv, CreateTableInv, ReadColumnsInv,
               AskObjectInv DEF AutoMigrate
  <1>2. CASE UNCHANGED vars
    <2>1. UNCHANGED <<config, db, proc>>
      BY <1>2 DEF vars
    <2>2. \A known : Wants(known)' = Wants(known)
      BY <2>1, WantsSame
    <2>3. ShapeInv'
      BY <2>1 DEF ShapeInv
    <2>4. StandInv'
      BY <2>1, <2>2 DEF StandInv
    <2> QED BY <2>3, <2>4
  <1> QED BY <1>1, <1>2, RestartInv DEF Next

\* What a call knows of the tables it has taken, and of the one at hand, stays
\* true between its questions and its statements, whatever the others do.
THEOREM Invariance == Spec => [](ShapeInv /\ StandInv)
  BY InitInv, NextInv, PTL DEF Spec

\* AutoMigrate that has returned nil has brought every table it took to its
\* model, and there it stays: whatever failed or died before, whatever other
\* programs migrate meanwhile, and whichever question was answered wrongly.
THEOREM NilIsMigrated == Spec => []NilMeansMigrated
  <1>1. ShapeInv /\ StandInv => NilMeansMigrated
    <2> SUFFICES ASSUME ShapeInv, StandInv, NEW m \in Programs, proc[m].result = "nil",
                        NEW i \in DOMAIN proc[m].done
                 PROVE  Migrated(proc[m].done[i], proc[m].known, proc[m].added)
      BY DEF NilMeansMigrated
    <2>1. PICK p, t : p = proc[m] /\ t = p.done[i]
      OBVIOUS
    <2>2. t \in Tables /\ Right(db, Wants(p.known)[t], t, p.added)
      BY <2>1 DEF ShapeInv, StandInv, Shape, Standing
    <2>3. Wants(p.known)[t] = WantedObjs(t, p.known)
      BY <2>2 DEF Wants
    <2> QED BY <2>1, <2>2, <2>3 DEF Right, Migrated, ColumnIs, UniqueIs, WantedObjs
  <1> QED BY <1>1, Invariance, PTL

------------------------------------------------------------------------------
(***************************************************************************)
(* A program that migrates alone.  Nothing changes between its questions   *)
(* and its statements, and each table comes after those it refers to.      *)
(***************************************************************************)

\* What the proof asks of ReorderModels: a table comes after the tables its
\* foreign keys refer to.
ParentsFirst ==
    \A c \in Configs, known \in Knowns, values \in Calls :
        \A plan \in Orders(c, known, values) :
            ~(c.noForeignKeys \/ c.noRelations) =>
                \A i \in DOMAIN plan.order : \A k \in ForeignKeys(plan.order[i], plan.known) :
                    k.to = plan.order[i] \/ \E j \in 1..(i - 1) : plan.order[j] = k.to

Ordered(done, W) ==
    \A i \in DOMAIN done : \A o \in W[done[i]] : o.kind = "fk" =>
        o.to = done[i] \/ \E j \in 1..(i - 1) : done[j] = o.to

\* The database d executes x on t.
Possible(d, t, x) ==
    /\ x.do = "add_column" => x.on.name \notin DOMAIN d[t].cols
    /\ x.do = "alter_column" => x.on.name \in DOMAIN d[t].cols
    /\ x.do = "add" => /\ x.on \notin d[t].objs
                       /\ x.on.kind = "fk" => x.on.to \in DOMAIN d \cup {t}
    /\ x.do = "drop" => x.on \in d[t].objs

\* What a call stands on besides while it is alone.
Sole(p, W, d) ==
    p.alone =>
        /\ p.result # "error"
        /\ p.at # "idle" => Ordered(p.done, W)
        /\ p.at = "create" => Head(p.left) \notin DOMAIN d
        /\ p.at \in Working => \A x \in p.todo : Possible(d, Head(p.left), x)

Only(m) == proc[m].alone /\ proc[m].at # "idle" => \A n \in Programs \ {m} : proc[n].at = "idle"

SoleInv == \A m \in Programs : Sole(proc[m], Wants(proc[m].known), db) /\ Only(m)

\* What Forward allows, by the fields of the statement.
LEMMA ForwardFields ==
    ASSUME NEW W, NEW t, NEW x, Forward(W, t, x)
    PROVE  /\ x.do \in {"add_column", "alter_column", "add", "drop"}
           /\ x.do \in {"add_column", "alter_column"} => x = Change(x.do, x.on.name)
           /\ x.do = "add" => x = AddOf(x.on)
           /\ x.do = "drop" => x = DropOf(x.on) /\ x.on.kind = "unique"
  <1>1. \A do, c : Change(do, c).do = do /\ Change(do, c).on.name = c
    BY DEF Change, Obj
  <1>2. \A o : /\ AddOf(o).do = "add" /\ AddOf(o).on = o
               /\ DropOf(o).do = "drop" /\ DropOf(o).on = o
    BY DEF AddOf, DropOf
  <1>3. \A c : Obj("unique", c).kind = "unique"
    BY DEF Obj
  <1>4. ASSUME NEW c, x \in {Change("add_column", c), Change("alter_column", c)}
        PROVE  x.do \in {"add_column", "alter_column"} /\ x = Change(x.do, x.on.name)
    BY <1>1, <1>4
  <1>5. ASSUME NEW o, x = AddOf(o) PROVE x.do = "add" /\ x = AddOf(x.on)
    BY <1>2, <1>5
  <1>6. ASSUME NEW c, x = DropOf(Obj("unique", c))
        PROVE  x.do = "drop" /\ x = DropOf(x.on) /\ x.on.kind = "unique"
    BY <1>2, <1>3, <1>6
  <1> QED BY <1>4, <1>5, <1>6 DEF Forward

LEMMA PossibleOk ==
    ASSUME NEW t \in DOMAIN db, NEW W, NEW x, Forward(W, t, x), Possible(db, t, x)
    PROVE  Statement(t, x).ok
  <1>1. CASE x.do = "add_column"
    <2>1. Statement(t, x).ok = ((x.on.name \in DOMAIN db[t].cols) = FALSE)
      BY <1>1 DEF Statement, SetColumn
    <2>2. (x.on.name \in DOMAIN db[t].cols) = FALSE
      BY <1>1 DEF Possible
    <2> QED BY <2>1, <2>2
  <1>2. CASE x.do = "alter_column"
    BY <1>2 DEF Possible, Statement, SetColumn
  <1>3. CASE x.do = "add"
    BY <1>3 DEF Possible, Statement, AddObj, TargetsExist
  <1>4. CASE x.do = "drop"
    BY <1>4 DEF Possible, Statement, DropObj
  <1> QED BY <1>1, <1>2, <1>3, <1>4, ForwardFields

\* The statements decided on do not get in each other's way.
LEMMA PossibleKept ==
    ASSUME NEW t \in DOMAIN db, NEW W, NEW x, NEW y, x # y,
           Forward(W, t, x), Forward(W, t, y), Possible(db, t, x), Possible(db, t, y)
    PROVE  Possible(Statement(t, x).db, t, y)
  <1>1. PICK e : e = Statement(t, x).db
    OBVIOUS
  <1>2. CASE x.do \in {"add_column", "alter_column"}
    <2>1. e = [db EXCEPT ![t] = [cols |-> WithColumn(db, t, x.on.name), objs |-> db[t].objs]]
      BY <1>1, <1>2 DEF Statement, SetColumn, WithColumn
    <2>2. DOMAIN e = DOMAIN db /\ e[t].cols = WithColumn(db, t, x.on.name) /\ e[t].objs = db[t].objs
      BY <2>1
    <2>3. DOMAIN e[t].cols = DOMAIN db[t].cols \cup {x.on.name}
      BY <2>2 DEF WithColumn
    <2>4. y.do = "add_column" => y.on.name # x.on.name
      BY <1>2, ForwardFields DEF Possible
    <2> QED BY <1>1, <2>2, <2>3, <2>4 DEF Possible
  <1>3. CASE x.do = "add"
    <2>1. e = [db EXCEPT ![t] = [cols |-> db[t].cols, objs |-> db[t].objs \cup {x.on}]]
      BY <1>1, <1>3 DEF Statement, AddObj
    <2>2. DOMAIN e = DOMAIN db /\ e[t].cols = db[t].cols /\ e[t].objs = db[t].objs \cup {x.on}
      BY <2>1
    <2>3. y.do = "add" => y.on # x.on
      BY <1>3, ForwardFields
    <2> QED BY <1>1, <2>2, <2>3 DEF Possible
  <1>4. CASE x.do = "drop"
    <2>1. e = [db EXCEPT ![t] = [cols |-> db[t].cols, objs |-> db[t].objs \ {x.on}]]
      BY <1>1, <1>4 DEF Statement, DropObj
    <2>2. DOMAIN e = DOMAIN db /\ e[t].cols = db[t].cols /\ e[t].objs = db[t].objs \ {x.on}
      BY <2>1
    <2>3. y.do = "drop" => y.on # x.on
      BY <1>4, ForwardFields
    <2> QED BY <1>1, <2>2, <2>3 DEF Possible
  <1> QED BY <1>2, <1>3, <1>4, ForwardFields

\* What the foreign keys of the table at hand refer to has been taken before.
LEMMA TargetsThere ==
    ASSUME NEW p, NEW W, NEW d, Shape(p), Standing(p, W, d), p.at # "idle", Ordered(p.done, W),
           NEW o \in W[Head(p.left)], o.kind = "fk"
    PROVE  o.to \in DOMAIN d \cup {Head(p.left)}
  <1>1. PICK left \in Seq(Tables), done \in Seq(Tables) :
           p.left = left /\ p.done = done /\ left # <<>>
    BY DEF Shape
  <1>2. PICK n \in Nat, k \in Nat : n = Len(left) /\ k = Len(done)
    BY <1>1
  <1>3. n =< k /\ n >= 1 /\ left[1] = done[k - n + 1] /\ Head(left) = left[1]
    <2>1. n >= 1 /\ Head(left) = left[1]
      BY <1>1, <1>2
    <2>2. 1 \in 1..n
      BY <2>1
    <2>3. n =< k /\ left[1] = done[k - n + 1]
      BY <1>1, <1>2, <2>2 DEF Shape
    <2> QED BY <2>1, <2>3
  <1>4. PICK i \in 1..k : i = k - n + 1
    BY <1>3
  <1>5. o.to = done[i] \/ \E j \in 1..(i - 1) : done[j] = o.to
    BY SMTT(60), <1>1, <1>2, <1>3, <1>4 DEF Ordered
  <1>6. \A j \in 1..(i - 1) : done[j] \in DOMAIN d
    <2>1. i - 1 = k - n
      BY <1>4
    <2> QED BY <1>1, <1>2, <2>1 DEF Standing, Behind, Right
  <1> QED BY <1>1, <1>3, <1>4, <1>5, <1>6

\* A step of one program, that was in a call or goes into none.
LEMMA SoleStep ==
    ASSUME ShapeInv, SoleInv, NEW m \in Programs, UNCHANGED config,
           NEW q, proc' = [proc EXCEPT ![m] = q], Sole(q, Wants(q.known), db'),
           q.alone /\ q.at # "idle" => proc[m].alone /\ proc[m].at # "idle",
           proc[m].at # "idle" \/ (q.at = "idle" /\ db' = db)
    PROVE  SoleInv'
  <1>1. /\ proc'[m] = q
        /\ \A n \in Programs : n # m => proc'[n] = proc[n]
    BY DEF ShapeInv
  <1>2. \A n \in Programs : Sole(proc'[n], Wants(proc'[n].known), db')
    <2> TAKE n \in Programs
    <2>1. CASE n = m
      BY <1>1, <2>1
    <2>2. CASE n # m /\ proc[n].alone /\ proc[n].at # "idle"
      <3>1. proc[m].at = "idle"
        BY <2>2 DEF SoleInv, Only
      <3> QED BY <1>1, <2>2, <3>1 DEF SoleInv
    <2>3. CASE n # m /\ proc[n].at = "idle"
      BY <1>1, <2>3 DEF SoleInv, Sole, Working
    <2>4. CASE n # m /\ ~proc[n].alone
      BY <1>1, <2>4 DEF Sole
    <2> QED BY <2>1, <2>2, <2>3, <2>4
  <1>3. \A n \in Programs : proc'[n].alone /\ proc'[n].at # "idle" =>
           \A k \in Programs \ {n} : proc'[k].at = "idle"
    <2> SUFFICES ASSUME NEW n \in Programs, proc'[n].alone, proc'[n].at # "idle",
                        NEW k \in Programs \ {n}
                 PROVE  proc'[k].at = "idle"
      OBVIOUS
    <2>1. proc[n].alone /\ proc[n].at # "idle"
      BY <1>1
    <2>2. proc[k].at = "idle"
      BY <2>1 DEF SoleInv, Only
    <2> QED BY <1>1, <2>2
  <1> QED BY <1>2, <1>3, WantsSame DEF SoleInv, Only

\* What does not claim to be alone has nothing to show.
LEMMA NotSole == \A p, W, d : ~p.alone => Sole(p, W, d)
  BY DEF Sole

LEMMA ProceedAlone == ASSUME NEW p, Shape(p), Proceed(p).alone PROVE p.alone
  <1>1. NextTable(p).alone => p.alone
    BY Records DEF Shape, Is
  <1>2. [p EXCEPT !.at = "ask"].alone => p.alone
    BY Records DEF Shape, Is
  <1> QED BY <1>1, <1>2 DEF Proceed

LEMMA ProceedSole ==
    ASSUME NEW p, NEW W, NEW d, Shape(p), Sole(p, W, d), p.at \in Working
    PROVE  Sole(Proceed(p), W, d)
  <1>1. CASE p.todo # {}
    BY <1>1 DEF Proceed
  <1>2. CASE p.todo = {} /\ p.rest # {}
    <2>1. PICK q : q = [p EXCEPT !.at = "ask"]
      OBVIOUS
    <2>2. Is(q, p, "ask", p.left, {}, p.rest, p.result, p.alone)
      BY <1>2, <2>1, Records DEF Shape
    <2>3. Sole(q, W, d)
      BY <2>2 DEF Is, Sole, Working
    <2> QED BY <1>2, <2>1, <2>3 DEF Proceed
  <1>3. CASE p.todo = {} /\ p.rest = {}
    <2>1. PICK q : q = NextTable(p)
      OBVIOUS
    <2>2. \/ Is(q, p, "table", Tail(p.left), {}, {}, p.result, p.alone)
          \/ Is(q, p, "idle", <<>>, {}, {}, "nil", p.alone)
      BY <2>1, Records DEF Shape
    <2>3. Sole(q, W, d)
      BY <2>2 DEF Is, Sole, Working
    <2> QED BY <1>3, <2>1, <2>3 DEF Proceed
  <1> QED BY <1>1, <1>2, <1>3

\* A statement that a program alone has decided on is not refused.
LEMMA ExecSole ==
    ASSUME ShapeInv, SoleInv, NEW m \in Programs, NEW s, NEW q, Exec(m, s, q),
           proc[m].at # "idle",
           proc[m].alone => s.ok /\ Sole(q, Wants(q.known), s.db),
           q.alone => proc[m].alone
    PROVE  SoleInv'
  <1>1. UNCHANGED config /\ DOMAIN proc[m] = Fields
    BY DEF Exec, ShapeInv, Shape
  <1>2. CASE db' = s.db /\ Step(m, q)
    <2>1. Sole(q, Wants(q.known), db')
      BY <1>2, NotSole
    <2> QED BY <1>1, <1>2, <2>1, SoleStep DEF Step
  <1>3. CASE ~s.ok /\ Step(m, Failed(proc[m]))
    <2>1. PICK f : f = Failed(proc[m])
      OBVIOUS
    <2>2. ~f.alone
      BY <1>1, <1>3, <2>1, Records DEF Is
    <2>3. proc' = [proc EXCEPT ![m] = f]
      BY <1>3, <2>1 DEF Step
    <2> QED BY <1>1, <2>2, <2>3, NotSole, SoleStep
  <1>4. CASE Step(m, [Failed(proc[m]) EXCEPT !.alone = FALSE])
    <2>1. PICK f : f = [Failed(proc[m]) EXCEPT !.alone = FALSE]
      OBVIOUS
    <2>2. ~f.alone
      BY <1>1, <2>1, Records DEF Is
    <2>3. proc' = [proc EXCEPT ![m] = f]
      BY <1>4, <2>1 DEF Step
    <2> QED BY <1>1, <2>2, <2>3, NotSole, SoleStep
  <1> QED BY <1>2, <1>3, <1>4 DEF Exec

LEMMA StartSole ==
    ASSUME ParentsFirst, ShapeInv, SoleInv, NEW m \in Programs, Start(m)
    PROVE  SoleInv'
  <1>1. UNCHANGED <<config, db>> /\ proc[m].known \in Knowns /\ config \in Configs
    BY ZenonT(60) DEF Start, Stay, ShapeInv, Shape
  <1>a. PICK values \in Calls : \E plan \in Orders(config, proc[m].known, values) :
           proc' = [n \in Programs |->
               IF n = m THEN [Idle(plan.known) EXCEPT
                                !.at = "table", !.left = plan.order, !.done = plan.order,
                                !.alone = \A k \in Programs \ {m} : proc[k].at = "idle"]
               ELSE [proc[n] EXCEPT !.alone = FALSE]]
    BY ZenonT(60) DEF Start
  <1>2. PICK plan \in Orders(config, proc[m].known, values) :
           proc' = [n \in Programs |->
               IF n = m THEN [Idle(plan.known) EXCEPT
                                !.at = "table", !.left = plan.order, !.done = plan.order,
                                !.alone = \A k \in Programs \ {m} : proc[k].at = "idle"]
               ELSE [proc[n] EXCEPT !.alone = FALSE]]
    BY <1>a
  <1>3. PICK order, known : order = plan.order /\ known = plan.known
    OBVIOUS
  <1>4. PICK q : q = [Idle(plan.known) EXCEPT
                         !.at = "table", !.left = plan.order, !.done = plan.order,
                         !.alone = \A k \in Programs \ {m} : proc[k].at = "idle"]
    OBVIOUS
  <1>5. /\ q.known = known /\ q.done = order /\ q.at = "table" /\ q.result = "none"
    BY <1>3, <1>4 DEF Idle
  <1>6. q.alone => \A k \in Programs \ {m} : proc[k].at = "idle"
    BY <1>4 DEF Idle
  <1>7. /\ proc'[m] = q
        /\ \A n \in Programs : n # m => ~proc'[n].alone /\ proc'[n].at = proc[n].at
    <2>1. proc'[m] = q
      BY <1>2, <1>4
    <2>2. ASSUME NEW n \in Programs, n # m PROVE ~proc'[n].alone /\ proc'[n].at = proc[n].at
      <3>1. PICK r : r = [proc[n] EXCEPT !.alone = FALSE]
        OBVIOUS
      <3>2. ~r.alone /\ r.at = proc[n].at
        BY <3>1, Records DEF Is, ShapeInv, Shape
      <3>3. proc'[n] = r
        BY <1>2, <2>2, <3>1
      <3> QED BY <3>2, <3>3
    <2> QED BY <2>1, <2>2
  <1>8. \A i \in DOMAIN order : order[i] \in Tables
    <2>1. plan.order \in Seq(Tables)
      BY <1>1, OrdersAssumption
    <2>2. PICK tables \in Seq(Tables) : tables = order
      BY <1>3, <2>1
    <2> QED BY <2>2
  <1>9. Ordered(order, Wants(known))
    <2> SUFFICES ASSUME NEW i \in DOMAIN order, NEW o \in Wants(known)[order[i]], o.kind = "fk"
                 PROVE  o.to = order[i] \/ \E j \in 1..(i - 1) : order[j] = o.to
      BY DEF Ordered
    <2>1. o \in WantedObjs(order[i], known)
      BY <1>8 DEF Wants
    <2>2. \A kind, name : Obj(kind, name).kind = kind
      BY DEF Obj
    <2>3. o \in WantedKeys(order[i], known)
      BY <2>1, <2>2 DEF WantedObjs, CheckObjs, IndexObjs
    <2>4. ~(config.noForeignKeys \/ config.noRelations) /\ o \in ForeignKeys(order[i], known)
      BY <2>3 DEF WantedKeys
    <2> QED BY <1>1, <1>3, <2>4 DEF ParentsFirst
  <1>10. Sole(q, Wants(q.known), db')
    BY <1>5, <1>9 DEF Sole, Working
  <1>11. \A n \in Programs : Sole(proc'[n], Wants(proc'[n].known), db')
    BY <1>7, <1>10, NotSole
  <1>12. \A n \in Programs : proc'[n].alone /\ proc'[n].at # "idle" =>
            \A k \in Programs \ {n} : proc'[k].at = "idle"
    BY <1>6, <1>7
  <1> QED BY <1>1, <1>11, <1>12, WantsSame DEF SoleInv, Only

LEMMA AskTableSole ==
    ASSUME ShapeInv, SoleInv, NEW m \in Programs, AskTable(m)
    PROVE  SoleInv'
  <1>1. UNCHANGED <<config, db>> /\ proc[m].at = "table" /\ DOMAIN proc[m] = Fields
    BY DEF AskTable, Stay, ShapeInv, Shape
  <1>2. PICK p : p = proc[m] /\ Sole(p, Wants(p.known), db)
    BY DEF SoleInv
  <1>3. CASE Step(m, [proc[m] EXCEPT !.at = IF Table(m) \in DOMAIN db THEN "look" ELSE "create"])
    <2>1. PICK at \in {"look", "create"} :
             at = (IF Table(m) \in DOMAIN db THEN "look" ELSE "create")
      OBVIOUS
    <2>2. PICK q : q = [p EXCEPT !.at = at]
      OBVIOUS
    <2>3. Is(q, p, at, p.left, p.todo, p.rest, p.result, p.alone)
      BY <1>1, <1>2, <2>2, Records
    <2>4. at = "create" => Head(p.left) \notin DOMAIN db
      BY <1>2, <2>1 DEF Table
    <2>5. Sole(q, Wants(q.known), db) /\ (q.alone => p.alone)
      BY <1>1, <1>2, <2>3, <2>4 DEF Is, Sole, Working
    <2>6. proc' = [proc EXCEPT ![m] = q]
      BY <1>2, <1>3, <2>1, <2>2 DEF Step
    <2> QED BY <1>1, <1>2, <2>5, <2>6, SoleStep
  <1>4. CASE Step(m, [proc[m] EXCEPT !.at = "create", !.alone = FALSE])
    <2>1. PICK q : q = [proc[m] EXCEPT !.at = "create", !.alone = FALSE]
      OBVIOUS
    <2>2. ~q.alone
      BY <1>1, <2>1 DEF Fields
    <2>3. proc' = [proc EXCEPT ![m] = q]
      BY <1>4, <2>1 DEF Step
    <2> QED BY <1>1, <2>2, <2>3, NotSole, SoleStep
  <1> QED BY <1>3, <1>4 DEF AskTable

LEMMA RestartSole ==
    ASSUME ShapeInv, SoleInv, NEW m \in Programs, Restart(m)
    PROVE  SoleInv'
  <1>1. PICK q : q = Idle({})
    OBVIOUS
  <1>2. q.at = "idle" /\ ~q.alone
    BY <1>1 DEF Idle
  <1> QED BY <1>1, <1>2, NotSole, SoleStep DEF Restart, Step

\* A statement decided on is executed, and the others can still be.
LEMMA ExecuteSole ==
    ASSUME ShapeInv, StandInv, SoleInv, NEW m \in Programs,
           proc[m].at \in {"index", "columns", "add"}, NEW x \in proc[m].todo, Execute(m, x)
    PROVE  SoleInv'
  <1>1. PICK p, t : p = proc[m] /\ t = Table(m)
    OBVIOUS
  <1>2. PICK V : V = Wants(p.known)
    OBVIOUS
  <1>3. /\ Shape(p) /\ Standing(p, V, db) /\ Sole(p, V, db) /\ t = Head(p.left)
        /\ p.at \in Working /\ p.at # "idle" /\ p.at # "create"
    BY <1>1, <1>2, AtHand DEF SoleInv, Working
  <1>4. t \in DOMAIN db /\ \A y \in p.todo : Forward(V[t], t, y)
    BY <1>3 DEF Standing, Remaining
  <1>5. PICK s : s = Statement(t, x)
    OBVIOUS
  <1>6. PICK q : q = [p EXCEPT !.todo = p.todo \ {x}]
    OBVIOUS
  <1>7. Is(q, p, p.at, p.left, p.todo \ {x}, p.rest, p.result, p.alone)
    BY <1>3, <1>6, Records DEF Shape
  <1>8. Shape(q)
    BY <1>3, <1>7 DEF Is, Shape
  <1>9. ASSUME p.alone PROVE s.ok /\ Sole(q, V, s.db)
    <2>1. \A y \in p.todo : Possible(db, t, y)
      BY <1>3, <1>9 DEF Sole
    <2>2. s.ok
      BY <1>1, <1>4, <1>5, <2>1, PossibleOk
    <2>3. \A y \in p.todo \ {x} : Possible(s.db, t, y)
      BY <1>1, <1>4, <1>5, <2>1, PossibleKept
    <2> QED BY <1>3, <1>7, <1>9, <2>2, <2>3 DEF Is, Sole
  <1>10. PICK r : r = Proceed(q)
    OBVIOUS
  <1>11. r.known = p.known
    BY <1>7, <1>8, <1>10, ProceedKnown DEF Is
  <1>12. p.alone => s.ok /\ Sole(r, V, s.db)
    BY <1>3, <1>7, <1>8, <1>9, <1>10, ProceedSole DEF Is
  <1>13. r.alone => p.alone
    <2>1. r.alone => q.alone
      BY <1>3, <1>7, <1>8, <1>10, ProceedAlone DEF Is
    <2> QED BY <2>1, <1>7 DEF Is
  <1>14. Exec(m, s, r)
    BY <1>1, <1>5, <1>6, <1>10 DEF Execute
  <1> QED BY <1>1, <1>2, <1>3, <1>11, <1>12, <1>13, <1>14, ExecSole


\* Only the objects wanted for relations are foreign keys.
LEMMA KeysWanted ==
    ASSUME NEW t, NEW known, NEW o, o.kind = "fk",
           o \in WantedObjs(t, known) \cup UniqueObjs(t)
    PROVE  o \in WantedKeys(t, known)
  <1>1. \A kind, name : Obj(kind, name).kind = kind
    BY DEF Obj
  <1>2. o \notin UniqueObjs(t) \cup CheckObjs(t) \cup IndexObjs(t)
    BY <1>1 DEF UniqueObjs, CheckObjs, IndexObjs
  <1> QED BY <1>2 DEF WantedObjs

\* The statement that creates a table is not refused, nor is an index after it.
LEMMA CreateSole ==
    ASSUME NEW t, NEW objs, NEW later, t \notin DOMAIN db, TargetsExist(t, objs),
           later \cap objs = {}, \A o \in later : o.kind # "fk"
    PROVE  /\ Create(t, objs).ok
           /\ \A x \in {AddOf(o) : o \in later} : Possible(Create(t, objs).db, t, x)
  <1>1. Create(t, objs).ok
    BY DEF Create
  <1>2. PICK e : e = Create(t, objs).db
    OBVIOUS
  <1>3. e[t] = [cols |-> Columns[t], objs |-> objs]
    BY <1>2 DEF Create
  <1>4. e[t].objs = objs
    BY <1>3
  <1>5. \A o \in later : Possible(e, t, AddOf(o))
    BY <1>4 DEF Possible, AddOf
  <1> QED BY <1>1, <1>2, <1>5

LEMMA CreateTableSole ==
    ASSUME ShapeInv, StandInv, SoleInv, NEW m \in Programs, CreateTable(m)
    PROVE  SoleInv'
  <1>1. proc[m].at = "create"
    BY DEF CreateTable
  <1>2. PICK p, t : p = proc[m] /\ t = Table(m)
    OBVIOUS
  <1>3. PICK V : V = Wants(p.known)
    OBVIOUS
  <1>4. /\ Shape(p) /\ Standing(p, V, db) /\ Sole(p, V, db) /\ p.at = "create" /\ t = Head(p.left)
        /\ t \in Tables /\ V[t] = WantedObjs(t, p.known)
    BY <1>1, <1>2, <1>3, AtHand DEF SoleInv
  <1>5. PICK objs, later :
           /\ objs = WantedKeys(t, p.known) \cup UniqueObjs(t) \cup CheckObjs(t)
                     \cup (IF config.indexAfter THEN {} ELSE IndexObjs(t))
           /\ later = (IF config.indexAfter THEN IndexObjs(t) ELSE {})
    OBVIOUS
  <1>6. objs \subseteq V[t] \cup UniqueObjs(t)
    BY <1>4, <1>5 DEF WantedObjs
  <1>7. PICK q : q = [p EXCEPT !.at = "index", !.todo = {[do |-> "add", on |-> o] : o \in later}]
    OBVIOUS
  <1>8. Is(q, p, "index", p.left, {AddOf(o) : o \in later}, p.rest, p.result, p.alone)
    BY <1>4, <1>7 DEF Is, Fields, Shape, AddOf
  <1>9. PICK s : s = Create(t, objs)
    OBVIOUS
  <1>10. Exec(m, s, Proceed(q))
    BY <1>2, <1>5, <1>7, <1>9 DEF CreateTable
  <1>11. Shape(q)
    BY <1>4, <1>8 DEF Is, Shape, Stages
  <1>12. ASSUME p.alone PROVE s.ok /\ Sole(q, V, s.db)
    <2>1. t \notin DOMAIN db /\ Ordered(p.done, V) /\ p.result # "error"
      BY <1>4, <1>12 DEF Sole
    <2>2. TargetsExist(t, objs)
      <3> SUFFICES ASSUME NEW o \in objs, o.kind = "fk" PROVE o.to \in DOMAIN db \cup {t}
        BY DEF TargetsExist
      <3>1. o \in V[t]
        BY <1>4, <1>6, KeysWanted DEF WantedObjs
      <3> QED BY <1>4, <2>1, <3>1, TargetsThere
    <2>3. later \cap objs = {} /\ \A o \in later : o.kind # "fk"
      <3>1. \A kind, name : Obj(kind, name).kind = kind
        BY DEF Obj
      <3>2. \A o \in later : o.kind = "index" /\ config.indexAfter
        BY <1>5, <3>1 DEF IndexObjs
      <3>3. \A k \in WantedKeys(t, p.known) : k.kind = "fk"
        BY DEF WantedKeys, ForeignKeys
      <3>4. config.indexAfter => \A o \in objs : o.kind # "index"
        BY <1>5, <3>1, <3>3 DEF UniqueObjs, CheckObjs
      <3> QED BY <3>2, <3>4
    <2>4. s.ok /\ \A x \in {AddOf(o) : o \in later} : Possible(s.db, t, x)
      BY <1>9, <2>1, <2>2, <2>3, CreateSole
    <2>5. Sole(q, V, s.db)
      BY <1>4, <1>8, <2>1, <2>4 DEF Is, Sole
    <2> QED BY <2>4, <2>5
  <1>13. PICK r : r = Proceed(q)
    OBVIOUS
  <1>14. r.known = p.known
    BY <1>8, <1>11, <1>13, ProceedKnown DEF Is
  <1>15. p.alone => s.ok /\ Sole(r, V, s.db)
    BY <1>8, <1>11, <1>12, <1>13, ProceedSole DEF Is, Working
  <1>16. r.alone => p.alone
    BY <1>8, <1>11, <1>13, ProceedAlone DEF Is
  <1> QED BY <1>1, <1>2, <1>3, <1>10, <1>13, <1>14, <1>15, <1>16, ExecSole

\* What is decided from the columns just read can be executed.
LEMMA DecidedPossible ==
    ASSUME NEW d, NEW t, NEW x \in TableChanges(t, d[t])
    PROVE  Possible(d, t, x)
  <1>1. PICK c \in DOMAIN Columns[t] :
           x \in (IF c \in DOMAIN d[t].cols THEN ColumnChanges(t, d[t], c)
                  ELSE {Change("add_column", c)})
    BY DEF TableChanges, Change
  <1>2. /\ Obj("unique", c).kind = "unique"
        /\ \A do : Change(do, c).do = do /\ Change(do, c).on.name = c
    BY DEF Obj, Change
  <1>3. CASE c \notin DOMAIN d[t].cols
    <2>1. x = Change("add_column", c)
      BY <1>1, <1>3
    <2> QED BY <1>2, <1>3, <2>1 DEF Possible
  <1>4. CASE c \in DOMAIN d[t].cols
    <2>1. PICK u : u = Obj("unique", c)
      OBVIOUS
    <2>2. \/ x = Change("alter_column", c)
          \/ x = DropOf(u) /\ u \in d[t].objs
          \/ x = AddOf(u) /\ u \notin d[t].objs
      BY <1>1, <1>4, <2>1 DEF ColumnChanges, Change, DropOf, AddOf
    <2>3. /\ AddOf(u).do = "add" /\ AddOf(u).on = u
          /\ DropOf(u).do = "drop" /\ DropOf(u).on = u
      BY DEF AddOf, DropOf
    <2> QED BY <1>2, <1>4, <2>1, <2>2, <2>3 DEF Possible
  <1> QED BY <1>3, <1>4

LEMMA ReadColumnsSole ==
    ASSUME ShapeInv, StandInv, SoleInv, NEW m \in Programs, ReadColumns(m)
    PROVE  SoleInv'
  <1>1. proc[m].at = "look" /\ UNCHANGED <<config, db>>
    BY DEF ReadColumns, Stay
  <1>2. PICK p, t : p = proc[m] /\ t = Table(m)
    OBVIOUS
  <1>3. PICK V : V = Wants(p.known)
    OBVIOUS
  <1>4. /\ Shape(p) /\ Sole(p, V, db) /\ p.at = "look" /\ t = Head(p.left)
        /\ V[t] = WantedObjs(t, p.known)
    BY <1>1, <1>2, <1>3, AtHand DEF SoleInv
  <1>5. PICK todo, new : /\ todo = TableChanges(t, db[t])
                         /\ new = {<<t, c>> : c \in DOMAIN Columns[t] \ DOMAIN db[t].cols}
    OBVIOUS
  <1>6. PICK q : q = [p EXCEPT !.at = "columns", !.todo = todo, !.added = @ \cup new,
                              !.rest = WantedKeys(t, p.known) \cup CheckObjs(t) \cup IndexObjs(t)]
    OBVIOUS
  <1>7. CASE Step(m, Proceed(q))
    <2>1. /\ DOMAIN q = Fields /\ q.known = p.known /\ q.done = p.done /\ q.left = p.left
          /\ q.result = p.result /\ q.alone = p.alone
          /\ q.at = "columns" /\ q.todo = todo
      BY <1>4, <1>6 DEF Shape, Fields
    <2>2. Shape(q)
      BY <1>4, <2>1 DEF Shape, Stages
    <2>3. Sole(q, V, db) /\ q.at \in Working
      BY <1>4, <1>5, <2>1, DecidedPossible DEF Sole, Working
    <2>4. PICK r : r = Proceed(q)
      OBVIOUS
    <2>5. Sole(r, V, db) /\ r.known = p.known /\ (r.alone => p.alone)
      BY <2>1, <2>2, <2>3, <2>4, ProceedSole, ProceedKnown, ProceedAlone
    <2>6. proc' = [proc EXCEPT ![m] = r]
      BY <1>7, <2>4 DEF Step
    <2> QED BY <1>1, <1>2, <1>3, <2>5, <2>6, SoleStep
  <1>8. CASE Step(m, [Failed(proc[m]) EXCEPT !.alone = FALSE])
    <2>1. PICK f : f = [Failed(proc[m]) EXCEPT !.alone = FALSE]
      OBVIOUS
    <2>2. ~f.alone
      BY <1>2, <1>4, <2>1, Records DEF Is, Shape
    <2>3. proc' = [proc EXCEPT ![m] = f]
      BY <1>8, <2>1 DEF Step
    <2> QED BY <1>1, <2>2, <2>3, NotSole, SoleStep
  <1> QED BY <1>2, <1>5, <1>6, <1>7, <1>8 DEF ReadColumns

LEMMA AskObjectSole ==
    ASSUME ShapeInv, StandInv, SoleInv, NEW m \in Programs, AskObject(m)
    PROVE  SoleInv'
  <1>1. proc[m].at = "ask" /\ UNCHANGED <<config, db>>
    BY DEF AskObject, Stay
  <1>2. PICK p, t : p = proc[m] /\ t = Table(m)
    OBVIOUS
  <1>3. PICK V : V = Wants(p.known)
    OBVIOUS
  <1>4. /\ Shape(p) /\ Standing(p, V, db) /\ Sole(p, V, db) /\ p.at = "ask" /\ t = Head(p.left)
    BY <1>1, <1>2, <1>3, AtHand DEF SoleInv
  <1>5. p.todo = {} /\ p.rest \subseteq V[t] /\ p.result = "none"
    BY <1>4 DEF Standing, Working, Shape
  <1>6. PICK o \in p.rest :
           LET others == [p EXCEPT !.rest = @ \ {o}]
               missing == [others EXCEPT !.at = "add", !.todo = {AddOf(o)}]
           IN \/ Step(m, IF o \in db[t].objs THEN Proceed(others) ELSE missing)
              \/ Step(m, [missing EXCEPT !.alone = FALSE])
    BY <1>2 DEF AskObject, AddOf
  <1>7. PICK a, b : /\ a = [p EXCEPT !.rest = @ \ {o}]
                    /\ b = [a EXCEPT !.at = "add", !.todo = {AddOf(o)}]
    OBVIOUS
  <1>8. Is(a, p, "ask", p.left, {}, p.rest \ {o}, "none", p.alone)
    BY <1>4, <1>5, <1>7 DEF Is, Shape, Fields
  <1>9. Is(b, p, "add", p.left, {AddOf(o)}, p.rest \ {o}, "none", p.alone)
    BY <1>7, <1>8 DEF Is, Fields
  <1>10. Shape(a)
    BY <1>4, <1>8 DEF Is, Shape, Stages
  <1>11. Sole(a, V, db)
    BY <1>4, <1>8 DEF Is, Sole
  <1>12. o \notin db[t].objs => Sole(b, V, db)
    <2> SUFFICES ASSUME o \notin db[t].objs, p.alone PROVE Sole(b, V, db)
      BY <1>9 DEF Is, Sole
    <2>1. Ordered(p.done, V)
      BY <1>4 DEF Sole
    <2>2. o.kind = "fk" => o.to \in DOMAIN db \cup {t}
      BY <1>4, <1>5, <2>1, TargetsThere
    <2>3. Possible(db, t, AddOf(o))
      BY <2>2 DEF Possible, AddOf
    <2> QED BY <1>4, <1>9, <2>1, <2>3 DEF Is, Sole
  <1>13. CASE o \in db[t].objs /\ Step(m, Proceed(a))
    <2>1. PICK r : r = Proceed(a)
      OBVIOUS
    <2>2. Sole(r, V, db) /\ r.known = p.known /\ (r.alone => p.alone)
      BY <1>8, <1>10, <1>11, <2>1, ProceedSole, ProceedKnown, ProceedAlone DEF Is, Working
    <2>3. proc' = [proc EXCEPT ![m] = r]
      BY <1>13, <2>1 DEF Step
    <2> QED BY <1>1, <1>2, <1>3, <2>2, <2>3, SoleStep
  <1>14. CASE o \notin db[t].objs /\ Step(m, b)
    <2>1. Sole(b, V, db) /\ b.known = p.known /\ (b.alone => p.alone)
      BY <1>9, <1>12, <1>14 DEF Is
    <2>2. proc' = [proc EXCEPT ![m] = b]
      BY <1>14 DEF Step
    <2> QED BY <1>1, <1>2, <1>3, <2>1, <2>2, SoleStep
  <1>15. CASE Step(m, [b EXCEPT !.alone = FALSE])
    <2>1. PICK r : r = [b EXCEPT !.alone = FALSE]
      OBVIOUS
    <2>2. ~r.alone
      BY <1>9, <2>1, Records DEF Is
    <2>3. proc' = [proc EXCEPT ![m] = r]
      BY <1>15, <2>1 DEF Step
    <2> QED BY <1>1, <2>2, <2>3, NotSole, SoleStep
  <1> QED BY <1>6, <1>7, <1>13, <1>14, <1>15

LEMMA InitSole == Init => SoleInv
  <1> SUFFICES ASSUME Init PROVE SoleInv
    OBVIOUS
  <1>1. \A m \in Programs : \E known \in Knowns : proc[m] = Idle(known)
    BY KnownsAssumption DEF Init
  <1>2. \A known : ~Idle(known).alone
    BY DEF Idle
  <1>3. \A m \in Programs : ~proc[m].alone
    BY <1>1, <1>2
  <1> QED BY <1>3, NotSole DEF SoleInv, Only

LEMMA NextSole == ParentsFirst /\ ShapeInv /\ StandInv /\ SoleInv /\ [Next]_vars => SoleInv'
  <1> SUFFICES ASSUME ParentsFirst, ShapeInv, StandInv, SoleInv, [Next]_vars PROVE SoleInv'
    OBVIOUS
  <1>1. ASSUME NEW m \in Programs, AutoMigrate(m) PROVE SoleInv'
    <2>1. CASE CreateIndexAfter(m)
      BY <2>1, ExecuteSole DEF CreateIndexAfter
    <2>2. CASE ChangeColumn(m)
      BY <2>2, ExecuteSole DEF ChangeColumn
    <2>3. CASE AddObject(m)
      BY <2>3, ExecuteSole DEF AddObject
    <2> QED BY <1>1, <2>1, <2>2, <2>3, StartSole, AskTableSole, CreateTableSole, ReadColumnsSole,
               AskObjectSole DEF AutoMigrate
  <1>2. CASE UNCHANGED vars
    <2>1. UNCHANGED <<config, db, proc>>
      BY <1>2 DEF vars
    <2>2. \A known : Wants(known)' = Wants(known)
      BY <2>1, WantsSame
    <2> QED BY <2>1, <2>2 DEF SoleInv, Only
  <1> QED BY <1>1, <1>2, RestartSole DEF Next

\* A program that migrates alone and meets no fault gets no error from
\* AutoMigrate, whatever an earlier call has left half done, when the order of
\* ReorderModels has every table after the tables its foreign keys refer to.
THEOREM AloneGetsNoError ==
    ASSUME ParentsFirst
    PROVE  Spec => []AloneSucceeds
  <1>1. SoleInv => AloneSucceeds
    BY DEF SoleInv, Sole, AloneSucceeds
  <1>2. Init => SoleInv
    BY InitSole
  <1>3. ShapeInv /\ StandInv /\ SoleInv /\ [Next]_vars => SoleInv'
    BY NextSole
  <1> QED BY <1>1, <1>2, <1>3, Invariance, PTL DEF Spec
=============================================================================
