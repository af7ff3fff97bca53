------------------------------ MODULE SaveGraph ------------------------------
(***************************************************************************)
(* db.Create of records that point to each other: the pipeline of the      *)
(* create callbacks (callbacks/callbacks.go, create.go, transaction.go)    *)
(* and the saving of associations (associations.go), which calls Create    *)
(* again for the records around.  The type of the records is one like User *)
(* of utils/tests/models.go: a user belongs to a Manager, has many in its  *)
(* Team (of pointers) by the same foreign key, and many to many Friends.    *)
(*                                                                         *)
(* A nested Create runs on a session that inherits the error of the outer  *)
(* one and hands its own back, and no callback does anything after an      *)
(* error: there is one error, and the first one leads to the end.          *)
(*                                                                         *)
(* The outermost Create has the default transaction.  With                 *)
(* SkipDefaultTransaction, which is not modelled, what has been written    *)
(* before an error stays (transaction.go:8, 21).                           *)
(***************************************************************************)
EXTENDS Integers, SequencesExt

CONSTANTS
    Objs,       \* the records in memory
    Inputs      \* [roots, manager, team, friends, old]: what Create is called with

\* A manager of 0 is a nil pointer, old are the records that are in the database,
\* with the record's number for its key.
InputType ==
    [roots : Seq(Objs), manager : [Objs -> Objs \cup {0}],
     team : [Objs -> Seq(Objs)], friends : [Objs -> Seq(Objs)], old : SUBSET Objs]

ASSUME InputAssumption ==
    /\ Objs \subseteq Nat \ {0} /\ IsFiniteSet(Objs) /\ Objs # {}
    /\ Inputs \subseteq InputType

VARIABLES
    input,
    pk, fk,     \* the fields ID and ManagerID of the records in memory
    rows,       \* the table, as the transaction sees it: key -> [of, fk]
    joins,      \* the join table of friends
    next,       \* its next key
    stored,     \* what is committed: <<rows, joins>>
    visited,    \* the visitMap
    skipped,    \* the records without a key that have been skipped as visited
    stack,      \* the Creates that are running, the innermost last
    pc,         \* "running", "done", "panicked"
    error

memory == <<pk, fk>>
database == <<rows, joins, next>>
vars == <<input, memory, database, stored, visited, skipped, stack, pc, error>>

Phases == {"before", "parents", "refs", "insert", "children", "friends", "joins", "after", "end"}

\* A running Create: its Dest, its ON CONFLICT and the callback it has come to.
Frame == [values : Seq(Objs), conflict : {"fail", "ignore", "update"}, phase : Phases]

Keys == Nat \ {0}

\* The first Create, and one for each record that is visited.
MaxDepth == Cardinality(Objs) + 1

TypeOK ==
    /\ input \in InputType
    /\ pk \in [Objs -> Nat] /\ fk \in [Objs -> Nat]
    /\ DOMAIN rows \subseteq Keys
    /\ \A k \in DOMAIN rows : rows[k] \in [of : Objs, fk : Nat]
    /\ joins \subseteq Nat \X Nat
    /\ next \in Keys
    /\ visited \subseteq Objs /\ skipped \subseteq Objs
    /\ stack \in Seq(Frame) /\ Len(stack) =< MaxDepth
    /\ pc \in {"running", "done", "panicked"}
    /\ error \in BOOLEAN

Init ==
    /\ input \in Inputs
    /\ pk = [o \in Objs |-> IF o \in input.old THEN o ELSE 0]
    /\ fk = [o \in Objs |-> 0]
    /\ rows = [k \in input.old |-> [of |-> k, fk |-> 0]] /\ joins = {}
    /\ next = 1 + Max(Objs)
    /\ stored = <<rows, joins>>
    /\ visited = {} /\ skipped = {}
    /\ stack = <<[values |-> input.roots, conflict |-> "fail", phase |-> "before"]>>
    /\ pc = "running" /\ error = FALSE

------------------------------------------------------------------------------
(***************************************************************************)
(* The stack.                                                              *)
(***************************************************************************)
frame == Last(stack)

At(phase) == pc = "running" /\ frame.phase = phase

\* The innermost Create goes on to its next callback.
Advance(phase) == stack' = Front(stack) \o <<[frame EXCEPT !.phase = phase]>>

Call(elems, conflict, phase) ==
    stack' = Front(stack) \o
        <<[frame EXCEPT !.phase = phase], [values |-> elems, conflict |-> conflict, phase |-> "before"]>>

\* After an error every callback of every Create is passed over, but for the
\* outermost one's last: the one that has started the transaction.
Failed ==
    /\ error' = TRUE
    /\ stack' = <<[stack[1] EXCEPT !.phase = "end"]>>

\* The elements at the places I, in their order.
Pick(elems, I) ==
    LET picked[i \in 0..Len(elems)] ==
          IF i = 0 THEN <<>>
          ELSE IF i \in I THEN Append(picked[i - 1], elems[i]) ELSE picked[i - 1]
    IN  picked[Len(elems)]

\* Mutant: elements without a key count as the same one.
DistinctByKey_Zero(elems) ==
    Pick(elems, {i \in DOMAIN elems : \A j \in 1..(i - 1) : pk[elems[j]] # pk[elems[i]]})

\* distinctElems: one element per primary key, and all that have none.
DistinctByKey(elems) ==
    Pick(elems, {i \in DOMAIN elems : pk[elems[i]] = 0 \/ \A j \in 1..(i - 1) : pk[elems[j]] # pk[elems[i]]})

\* checkAssociationsSaved, which marks the others.
AllVisited(elems) == ToSet(elems) \subseteq visited

\* saveAssociations, and on to the next phase (the bound is never reached, see
\* TypeOK).
Save(elems, conflict, phase) ==
    \/ /\ elems = <<>>
       /\ Advance(phase) /\ UNCHANGED <<visited, skipped>>
    \/ /\ elems # <<>> /\ AllVisited(elems)
       /\ Advance(phase)
       /\ skipped' = skipped \cup {o \in ToSet(elems) : pk[o] = 0}
       /\ UNCHANGED visited
    \/ /\ elems # <<>> /\ ~AllVisited(elems) /\ Len(stack) =< MaxDepth
       /\ Call(elems, conflict, phase)
       /\ visited' = visited \cup ToSet(elems)
       /\ UNCHANGED skipped

------------------------------------------------------------------------------
(***************************************************************************)
(* The callbacks.                                                          *)
(***************************************************************************)

\* BeforeCreate: the hooks of the records (when one fails, see Fail).
Before ==
    /\ At("before") /\ Advance("parents")
    /\ UNCHANGED <<input, memory, database, stored, visited, skipped, pc, error>>

\* SaveBeforeAssociations: the managers of all values, DO NOTHING on conflict.
Managers(values) ==
    LET withManager == Pick(values, {i \in DOMAIN values : input.manager[values[i]] # 0})
    IN  [i \in DOMAIN withManager |-> input.manager[withManager[i]]]

Parents ==
    /\ At("parents")
    /\ Save(DistinctByKey(Managers(frame.values)), "ignore", "refs")
    /\ UNCHANGED <<input, memory, database, stored, pc, error>>

\* setupReferences: the key of the manager.
Refs(values) ==
    [o \in Objs |-> IF o \in ToSet(values) /\ input.manager[o] # 0
                    THEN pk[input.manager[o]] ELSE fk[o]]

SetRefs ==
    /\ At("refs") /\ Advance("insert")
    /\ fk' = Refs(frame.values)
    /\ UNCHANGED <<input, pk, database, stored, visited, skipped, pc, error>>

\* The values without a key, in order; the database numbers their rows.
Unkeyed(values) == Pick(values, {i \in DOMAIN values : pk[values[i]] = 0})

RowKey(values, i) == next + i - 1

\* The row of a record that is there already.
OnConflict(conflict, row, o) ==
    IF conflict = "update" THEN [row EXCEPT !.fk = fk[o]] ELSE row

RowOf(o) == [of |-> o, fk |-> fk[o]]

\* INSERT, with the keys of the records that have one.
Inserted(values, conflict) ==
    LET new == Unkeyed(values)
        keyed == {o \in ToSet(values) : pk[o] # 0}
    IN  [k \in DOMAIN rows \cup {pk[o] : o \in keyed} \cup {RowKey(values, i) : i \in DOMAIN new} |->
            IF k \in DOMAIN rows
            THEN IF \E o \in keyed : pk[o] = k
                 THEN OnConflict(conflict, rows[k], CHOOSE o \in keyed : pk[o] = k) ELSE rows[k]
            ELSE IF k >= next THEN RowOf(new[k - next + 1])
                 ELSE RowOf(CHOOSE o \in keyed : pk[o] = k)]

\* Mutant: LastInsertIDReversed, for a database that returns the first.
Backfilled_Reversed(values) ==
    LET new == Reverse(Unkeyed(values))
    IN  [o \in Objs |-> IF o \in ToSet(new) THEN RowKey(values, SelectInSeq(new, LAMBDA e : e = o))
                        ELSE pk[o]]

\* The keys of the records, counted up from LastInsertId: a record that is twice
\* among the values has a key when its second turn comes, and is not counted.
Backfilled(values) ==
    LET new == Unkeyed(values)
        distinct == Pick(new, {i \in DOMAIN new : \A j \in 1..(i - 1) : new[j] # new[i]})
    IN  [o \in Objs |-> IF o \in ToSet(new)
                        THEN RowKey(values, SelectInSeq(distinct, LAMBDA e : e = o))
                        ELSE pk[o]]

\* Mutant: ON CONFLICT is forgotten.
IsDuplicate_Always(values, conflict) == \E o \in ToSet(values) : pk[o] \in DOMAIN rows

\* A record with a key that is there already, and no ON CONFLICT.
IsDuplicate(values, conflict) ==
    conflict = "fail" /\ \E o \in ToSet(values) : pk[o] \in DOMAIN rows

Insert ==
    /\ At("insert")
    /\ IF IsDuplicate(frame.values, frame.conflict)
       THEN Failed /\ UNCHANGED <<pk, database>>
       ELSE /\ rows' = Inserted(frame.values, frame.conflict)
            /\ pk' = Backfilled(frame.values)
            /\ next' = next + Len(Unkeyed(frame.values))
            /\ Advance("children") /\ UNCHANGED <<joins, error>>
    /\ UNCHANGED <<input, fk, stored, visited, skipped, pc>>

\* SaveAfterAssociations: the team gets the foreign key, and is saved with it,
\* also where it has been in the database.
TeamOf(values) == FlattenSeq([i \in DOMAIN values |-> input.team[values[i]]])

TeamRefs(values) ==
    [o \in Objs |-> LET leaders == {i \in DOMAIN values : o \in ToSet(input.team[values[i]])}
                    IN  IF leaders = {} THEN fk[o] ELSE pk[values[Max(leaders)]]]

Children ==
    /\ At("children")
    /\ fk' = TeamRefs(frame.values)
    /\ Save(DistinctByKey(TeamOf(frame.values)), "update", "friends")
    /\ UNCHANGED <<input, pk, database, stored, pc, error>>

\* Mutant: the friends are not saved before the join rows.
Friends_Unsaved ==
    /\ At("friends") /\ Advance("joins")
    /\ UNCHANGED <<input, memory, database, stored, visited, skipped, pc, error>>

FriendsOf(values) == FlattenSeq([i \in DOMAIN values |-> input.friends[values[i]]])

Friends ==
    /\ At("friends")
    /\ Save(DistinctByKey(FriendsOf(frame.values)), "ignore", "joins")
    /\ UNCHANGED <<input, memory, database, stored, pc, error>>

\* The rows of the join table, DO NOTHING on conflict.
Joins ==
    /\ At("joins") /\ Advance("after")
    /\ joins' = joins \cup UNION {{<<pk[v], pk[f]>> : f \in ToSet(input.friends[v])} : v \in ToSet(frame.values)}
    /\ UNCHANGED <<input, memory, rows, next, stored, visited, skipped, pc, error>>

\* AfterCreate.
After ==
    /\ At("after") /\ Advance("end")
    /\ UNCHANGED <<input, memory, database, stored, visited, skipped, pc, error>>

\* A nested Create is in the transaction of the outermost one: BeginTransaction
\* gets ErrInvalidTransaction there, and there is nothing to end.
Return ==
    /\ At("end") /\ Len(stack) > 1
    /\ stack' = Front(stack)
    /\ UNCHANGED <<input, memory, database, stored, visited, skipped, pc, error>>

\* Mutant: what has been written is kept.
MayCommit_Always == TRUE

MayCommit == ~error

\* CommitOrRollbackTransaction; the commit may fail.
End ==
    /\ At("end") /\ Len(stack) = 1
    /\ \/ MayCommit /\ stored' = <<rows, joins>> /\ UNCHANGED <<rows, joins, error>>
       \/ rows' = stored[1] /\ joins' = stored[2] /\ error' = TRUE /\ UNCHANGED stored
    /\ pc' = "done" /\ stack' = <<>>
    /\ UNCHANGED <<input, memory, next, visited, skipped>>

\* A hook returns an error, or the database refuses a statement.
Fail ==
    /\ \E phase \in {"before", "insert", "joins", "after"} : At(phase)
    /\ Failed
    /\ UNCHANGED <<input, memory, database, stored, visited, skipped, pc>>

\* A hook panics: nothing recovers, and the transaction stays open.
Panic ==
    /\ At("before") \/ At("after")
    /\ pc' = "panicked" /\ stack' = <<>>
    /\ UNCHANGED <<input, memory, database, stored, visited, skipped, error>>

------------------------------------------------------------------------------
Callback ==
    Before \/ Parents \/ SetRefs \/ Insert \/ Children \/ Friends \/ Joins \/ After \/ Return \/ End

Next == Callback \/ Fail \/ Panic

Spec == Init /\ [][Next]_vars

------------------------------------------------------------------------------
(***************************************************************************)
(* Properties.                                                             *)
(***************************************************************************)
Around(o) == ToSet(<<input.manager[o]>> \o input.team[o] \o input.friends[o]) \ {0}

\* The records that those of R lead to: they are in every set that is closed.
Reached(R) ==
    {o \in Objs : \A S \in SUBSET Objs :
        R \subseteq S /\ (\A s \in S : Around(s) \subseteq S) => o \in S}

Roots == ToSet(input.roots)

Created == pc = "done" /\ ~error

\* While nothing fails, the key that a record has been given is that of its own
\* row: "the @id value is correct" (create.go:153).
KeysRight == ~error => \A o \in Objs : pk[o] # 0 => pk[o] \in DOMAIN rows /\ rows[pk[o]].of = o

\* The statements come in an order in which no row ever refers to one that is not
\* there yet, unless a record without a key has been skipped: a database that
\* checks foreign keys refuses none of them.
Integrity ==
    skipped = {} =>
        /\ \A k \in DOMAIN rows : rows[k].fk \in DOMAIN rows \cup {0}
        /\ joins \subseteq (DOMAIN rows) \X (DOMAIN rows)

\* A Create that succeeds has saved every record that it was led to, in one row,
\* and the friendships, whatever circles the pointers make.
Complete ==
    Created => \A o \in Reached(Roots) :
        /\ Cardinality({k \in DOMAIN rows : rows[k].of = o}) = 1
        /\ skipped = {} => \A f \in ToSet(input.friends[o]) : <<pk[o], pk[f]>> \in joins

\* A Create that fails has stored nothing, of any record; one that panics neither.
AllOrNothing ==
    IF Created THEN stored = <<rows, joins>>
    ELSE stored = <<[k \in input.old |-> [of |-> k, fk |-> 0]], {}>>

\* The statements collide with none that the same Create has made, unless a root
\* is led to by its own manager, and so is saved before its turn.
NoCollision ==
    At("insert") /\ IsDuplicate(frame.values, frame.conflict) =>
        \E r \in Roots : r \in Reached({input.manager[v] : v \in Roots} \ {0})
=============================================================================
