----------------------------- MODULE Finishers -----------------------------
(***************************************************************************)
(* The finishers of finisher_api.go that take more than one statement:     *)
(* Save, FirstOrCreate and CreateInBatches (FindInBatches is the module    *)
(* this one extends).  A program calls one of them; between its statements *)
(* others change the table.                                                *)
(*                                                                         *)
(* A statement is atomic, and so is each of these with its default         *)
(* transaction.  Rows have a primary key that counts up, a name that may   *)
(* have a unique index, some data, and perhaps a deleted_at.               *)
(***************************************************************************)
EXTENDS FindInBatches, Sequences

CONSTANTS
  Names, Datas,
  MaxKey,    \* the largest primary key
  MaxRows,   \* how many rows there are at first, at most
  MaxValues, \* how many values CreateInBatches has, at most
  MaxOthers  \* how many changes others make, at most

ASSUME FinishersAssumption ==
  /\ Names # {} /\ Datas # {}
  /\ {MaxKey, MaxRows, MaxValues, MaxOthers} \subseteq Nat

VARIABLES
  finisher, \* the finisher that is called
  db,       \* unique: has the name a unique index?  soft: are rows deleted softly?
            \* changed: does an UPDATE count only the rows it changed?
            \* skip: SkipDefaultTransaction
  rows,     \* the table
  last,     \* the last primary key given out
  pending,  \* what the transaction of CreateInBatches has inserted
  call,     \* the call
  others,   \* the changes others have made
  held      \* <<key, row>>: what others could see since the call
batchVars == vars
fvars == <<finisher, db, rows, last, pending, call, others, held>>

Row == [name : Names, data : Datas, deleted : BOOLEAN]
NewRow(n, d) == [name |-> n, data |-> d, deleted |-> FALSE]
Live(rs) == {k \in DOMAIN rs : ~rs[k].deleted}
Matching(rs, n) == {k \in Live(rs) : rs[k].name = n}
Both(f, g) == [k \in DOMAIN f \cup DOMAIN g |-> IF k \in DOMAIN g THEN g[k] ELSE f[k]]
Nothing == [k \in {} |-> 0]

\* A unique index looks at deleted rows, too.
Collides(rs) == db.unique /\ \E j, k \in DOMAIN rs : j # k /\ rs[j].name = rs[k].name

\* dest: the struct, its key 0 if it has none; for FirstOrCreate, data is what Attrs
\* gives and assign what Assign gives, or {}; values and size are those of
\* CreateInBatches.  Which name and which data there are in the struct makes no
\* difference.
AName == CHOOSE n \in Names : TRUE
AData == CHOOSE d \in Datas : TRUE
Input(k, a, v, s) == [key |-> k, name |-> AName, data |-> AData, assign |-> a, values |-> v, size |-> s]
Inputs ==
  [Save |-> {Input(k, {}, <<>>, 0) : k \in 0..MaxRows + 1},
   FirstOrCreate |-> {Input(0, a, <<>>, 0) : a \in {{}} \cup {{d} : d \in Datas}},
   CreateInBatches |-> {Input(0, {}, v, s) : v \in UNION {[1..n -> Names] : n \in 1..MaxValues},
                                             s \in 1..MaxValues - 1}]

----------------------------------------------------------------------------
\* Mutant: the comparison the wrong way round.
InTx_Reversed == ~db.skip /\ Len(call.values) <= call.size

\* CreateInBatches opens a transaction for more than one batch.
InTx == ~db.skip /\ Len(call.values) > call.size

See(rs) == held' = held \cup {<<k, rs[k]>> : k \in DOMAIN rs}
Done(result) == call' = [call EXCEPT !.at = "done", !.result = result]
Fails == Done("error") /\ pending' = Nothing /\ UNCHANGED <<rows, last, held>>
Goes(at) == call' = [call EXCEPT !.at = at] /\ UNCHANGED <<rows, last, held, pending>>

\* What a statement leaves, unless it breaks the unique index.
Leaves(rs) ==
  /\ ~Collides(rs)
  /\ rows' = rs /\ See(rs) /\ UNCHANGED pending
Inserts(row) ==
  /\ last < MaxKey /\ last' = last + 1
  /\ Leaves(Both(rows, [k \in {last + 1} |-> row]))

\* Any statement may fail, and a commit.
StatementFails ==
  /\ \/ call.at \in {"update", "upsert", "create", "assign"}
     \/ call.at = "batch" /\ (InTx \/ Len(call.keys) < Len(call.values))
  /\ Fails

(* Save, of a struct and without Select: with one, a Save whose UPDATE finds  *)
(* no row returns nil and inserts nothing (selectedUpdate, line 119), and so  *)
(* does a DryRun; neither is modelled.                                        *)

SaveBegins ==
  /\ call.at = "save"
  /\ Goes(IF call.key = 0 THEN "create" ELSE "update")

\* UPDATE ... WHERE id = key AND deleted_at IS NULL
SaveUpdates ==
  /\ call.at = "update"
  /\ LET new == NewRow(call.name, call.data)
     IN IF call.key \in Live(rows) /\ ~(db.changed /\ rows[call.key] = new)
        THEN Leaves([rows EXCEPT ![call.key] = new]) /\ Done("nil") /\ UNCHANGED last
        ELSE Goes("upsert")

\* INSERT ... ON CONFLICT (id) DO UPDATE SET everything, deleted_at too.
SaveInserts ==
  /\ call.at = "upsert"
  /\ last' = IF call.key > last THEN call.key ELSE last
  /\ Leaves(Both(rows, [k \in {call.key} |-> NewRow(call.name, call.data)]))
  /\ Done("nil")

(* FirstOrCreate. *)

\* Mutant: the error of the query is not looked at.
FindFails_Unseen ==
  /\ call.at = "find"
  /\ Goes("create")

FindFails ==
  /\ call.at = "find"
  /\ Fails

\* If there is none, the conditions, Attrs and, over it, Assign make the struct.
Assembled == IF call.assign = {} THEN {call.data} ELSE call.assign

\* The first by primary key.
Finds ==
  /\ call.at = "find"
  /\ UNCHANGED <<rows, last, held, pending>>
  /\ IF Matching(rows, call.name) = {}
     THEN \E d \in Assembled : call' = [call EXCEPT !.data = d, !.at = "create"]
     ELSE \E k \in Matching(rows, call.name) :
            /\ \A j \in Matching(rows, call.name) : k <= j
            /\ call' = [call EXCEPT !.key = k, !.data = rows[k].data,
                          !.at = IF call.assign = {} THEN "done" ELSE "assign",
                          !.result = IF call.assign = {} THEN "nil" ELSE @]

Creates ==
  /\ call.at = "create"
  /\ Inserts(NewRow(call.name, call.data))
  /\ call' = [call EXCEPT !.key = last + 1, !.at = "done", !.result = "nil"]

\* UPDATE ... WHERE id = key AND the conditions: it may find the row gone, and
\* nobody asks how many it changed.
Assigns ==
  /\ call.at = "assign"
  /\ \E d \in call.assign :
       /\ Leaves([k \in DOMAIN rows |-> IF k = call.key /\ k \in Matching(rows, call.name)
                                        THEN [rows[k] EXCEPT !.data = d] ELSE rows[k]])
       /\ call' = [call EXCEPT !.data = d, !.at = "done", !.result = "nil"]
  /\ UNCHANGED last

(* CreateInBatches. *)

\* One batch: an INSERT of the next size values.
Batch ==
  /\ call.at = "batch" /\ Len(call.keys) < Len(call.values)
  /\ LET from == Len(call.keys)
         n == IF from + call.size > Len(call.values) THEN Len(call.values) - from ELSE call.size
         new == [k \in last + 1 .. last + n |-> NewRow(call.values[from + k - last], call.data)]
     IN /\ last + n <= MaxKey /\ last' = last + n
        /\ IF InTx
           THEN /\ ~Collides(Both(Both(rows, pending), new))
                /\ pending' = Both(pending, new) /\ UNCHANGED <<rows, held>>
           ELSE Leaves(Both(rows, new))
        /\ call' = [call EXCEPT !.keys = @ \o [i \in 1..n |-> last + i]]

\* After the last one, COMMIT if there is a transaction.
BatchesEnd ==
  /\ call.at = "batch" /\ Len(call.keys) = Len(call.values)
  /\ rows' = Both(rows, pending) /\ See(rows') /\ pending' = Nothing
  /\ Done("nil") /\ UNCHANGED last

(* Others: they insert, change, delete, softly or not, and restore; what a *)
(* transaction has inserted keeps its names from being inserted again.     *)
Change(rs, l) ==
  /\ call.at # "done" /\ others < MaxOthers /\ others' = others + 1
  /\ rs # rows /\ ~Collides(Both(rs, pending))
  /\ rows' = rs /\ last' = l /\ See(rs) /\ UNCHANGED <<pending, call>>
OtherInserts == \E n \in Names, d \in Datas :
  last < MaxKey /\ Change(Both(rows, [k \in {last + 1} |-> NewRow(n, d)]), last + 1)
OtherUpdates == \E k \in DOMAIN rows, r \in Row :
  (r.deleted => db.soft) /\ Change([rows EXCEPT ![k] = r], last)
OtherDeletes == \E k \in DOMAIN rows : Change([j \in DOMAIN rows \ {k} |-> rows[j]], last)

----------------------------------------------------------------------------
\* One finisher is called: FindInBatches, with its own table, or one of these.
NoBatches ==
  /\ table = {} /\ stable = {} /\ limit = -1 /\ offset = 0 /\ size = 1 /\ loose = {} /\ orOnly = FALSE
  /\ pc = "done" /\ after = 0 /\ batch = 0 /\ affected = 0
  /\ page = {} /\ error = FALSE /\ found = {} /\ skipped = {}
At == [Save |-> "save", FirstOrCreate |-> "find", CreateInBatches |-> "batch"]
Called(at, i) == [at |-> at, key |-> i.key, name |-> i.name, data |-> i.data, assign |-> i.assign,
                  values |-> i.values, size |-> i.size, keys |-> <<>>, result |-> "none",
                  before |-> rows]
FInit ==
  /\ pending = Nothing /\ others = 0
  /\ \/ /\ finisher = "FindInBatches" /\ Init
        /\ db = Nothing /\ rows = Nothing /\ last = 0 /\ call = Nothing /\ held = {}
     \/ /\ finisher \in DOMAIN At /\ NoBatches
        /\ db \in {d \in [unique : BOOLEAN, soft : BOOLEAN, changed : BOOLEAN, skip : BOOLEAN] :
                     /\ d.changed => finisher = "Save"
                     /\ d.skip => finisher = "CreateInBatches"}
        /\ last \in 0..MaxRows
        /\ rows \in {rs \in UNION {[S -> Row] : S \in SUBSET (1..last)} :
                       ~Collides(rs) /\ (~db.soft => Live(rs) = DOMAIN rs)}
        /\ \E i \in Inputs[finisher] : call = Called(At[finisher], i)
        /\ held = {<<k, rows[k]>> : k \in DOMAIN rows}

Statement ==
  \/ StatementFails
  \/ SaveBegins \/ SaveUpdates \/ SaveInserts
  \/ FindFails \/ Finds \/ Creates \/ Assigns
  \/ Batch \/ BatchesEnd
FNext ==
  \/ finisher = "FindInBatches" /\ Next /\ UNCHANGED fvars
  \/ /\ finisher # "FindInBatches" /\ UNCHANGED <<batchVars, finisher, db>>
     /\ \/ Statement /\ UNCHANGED others
        \/ OtherInserts \/ OtherUpdates \/ OtherDeletes
FSpec == FInit /\ [][FNext]_<<vars, fvars>> /\ WF_<<vars, fvars>>(Loop /\ UNCHANGED fvars)

----------------------------------------------------------------------------
(***************************************************************************)
(* Properties.                                                             *)
(***************************************************************************)
WasThere(k, row) == <<k, row>> \in held
Asked == NewRow(call.name, call.data)

\* A call that returned nil has done what it is for, at some moment since it came,
\* whatever others did between its statements; and when they did nothing the
\* table is what it was but for that.  FirstOrCreate makes no second row, and
\* what Assign gives is in the row, found or created.
LeftAsAsked ==
  finisher \in DOMAIN At /\ call.result = "nil" =>
    LET alone == others = 0
        as == [i \in DOMAIN call.keys |-> NewRow(call.values[i], call.data)]
    IN CASE finisher = "Save" ->
              /\ WasThere(call.key, Asked)
              /\ alone => rows = Both(call.before, [k \in {call.key} |-> Asked])
         [] finisher = "FirstOrCreate" ->
              /\ \E d \in Datas : WasThere(call.key, NewRow(call.name, d))
              /\ alone =>
                   /\ rows = Both(call.before, [k \in {call.key} |-> Asked])
                   /\ call.assign \subseteq {call.data}
                   /\ Matching(call.before, call.name) \in {{}, Matching(rows, call.name)}
         [] OTHER ->
              /\ \A i \in DOMAIN call.values : WasThere(call.keys[i], as[i])
              /\ alone => Cardinality(DOMAIN rows) = Cardinality(DOMAIN call.before) + Len(call.values)

\* CreateInBatches in its transaction: others see all of its values or, when it
\* fails, none of them, ever.  Without it a failure leaves whole batches, the
\* first ones, and their values have their keys.
WholeBatches ==
  finisher = "CreateInBatches" =>
    LET shown == {i \in DOMAIN call.keys : \E e \in held : e[1] = call.keys[i]}
    IN IF ~db.skip /\ Len(call.values) > call.size
       THEN /\ shown # {} => shown = DOMAIN call.values
            /\ call.result = "error" => shown = {}
       ELSE /\ shown = DOMAIN call.keys
            /\ call.result = "error" => Len(call.keys) % call.size = 0
=============================================================================
