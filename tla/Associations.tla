---------------------------- MODULE Associations ----------------------------
(***************************************************************************)
(* Association mode (association.go), the association operations of Set in *)
(* the generics API (generics.go) and Preload (callbacks/preload.go).      *)
(*                                                                         *)
(* Programs hold structs of the same owners in memory, each with the       *)
(* records its relation field holds, and change or read the tables in      *)
(* several statements with nothing around them, while others do so too.    *)
(* Every statement is atomic: saving an owner with its associations is one *)
(* transaction.  The relation is a belongs-to, a has-many or a             *)
(* many-to-many; a link <<o, x>> is the foreign key of o, that of x, or a  *)
(* join row.  The tables have no foreign key constraints.                  *)
(***************************************************************************)
EXTENDS Naturals, Sequences, FiniteSets, SequencesExt

CONSTANTS
  Programs, Owners, Others,
  Kinds,      \* the kinds of relation to look at
  Calls,      \* Calls[kind]: the operations programs call
  OwnerLists, \* the sequences of owners an operation may be called on
  MaxCalls,   \* how many calls there are, at most
  MaxFaults   \* how many statements fail, at most

Ops == {"append", "replace", "delete", "preload", "set_create", "set_unlink", "set_delete"}

ASSUME InputAssumption ==
  /\ Kinds \subseteq {"belongs_to", "has", "many2many"}
  /\ \A k \in Kinds : Calls[k] \subseteq Ops
  /\ OwnerLists \subseteq Seq(Owners) /\ IsFiniteSet(Others)
  /\ MaxCalls \in Nat /\ MaxFaults \in Nat

VARIABLES
  kind,    \* of the relation
  rows,    \* the records of the other table
  links,   \* the foreign keys or join rows
  mem,     \* mem[p][o]: what the relation field of p's struct of o holds
  fk,      \* fk[p][o]: the foreign key in it, as a set (of a belongs-to)
  call,    \* the operation of each program
  joins,   \* the join rows a Preload of p has read
  calls, faults
tables == <<rows, links>>
vars == <<kind, rows, links, mem, fk, call, joins, calls, faults>>

Linked(o) == {x \in Others : <<o, x>> \in links}
All(f, os) == UNION {f[o] : o \in os}
IsLinks(k, ls) ==
  \A a, b \in ls : /\ k = "has" /\ a[2] = b[2] => a = b
                   /\ k = "belongs_to" /\ a[1] = b[1] => a = b

(***************************************************************************)
(* A call: op on `owners', with vals[o] for each of them, all {} for Clear;*)
(* cond are the records a condition of a generics operation lets through.  *)
(* old are the foreign keys in memory, todo the statements left.  For the  *)
(* properties: before, the links when the call came; true, memory agreed   *)
(* with them; alone, nobody else was calling since; ever and always, what  *)
(* was linked at some moment since a Preload came, and all the time.       *)
(***************************************************************************)
NoCall == [op |-> "none", owners |-> <<>>, vals |-> <<>>, unscoped |-> FALSE, old |-> {},
           todo |-> <<>>, result |-> "none", before |-> {}, true |-> FALSE, alone |-> FALSE,
           ever |-> {}, always |-> {}]
Holds(p) == Range(call[p].owners)
Given(p) == All(call[p].vals, Holds(p))
Busy(p) == call[p].todo # <<>>

Saves(owners) == [i \in DOMAIN owners |-> <<"save", owners[i]>>]

\* Mutant: the old ones are taken away before the new ones are saved.
ReplacePlan_RestFirst(owners, clear, drop) ==
  CASE kind = "belongs_to" -> <<<<"null_keys">>>> \o (IF clear THEN <<>> ELSE Saves(owners))
    [] OTHER -> <<<<"unlink_rest">>>> \o (IF clear THEN <<>> ELSE Saves(owners))

\* The statements of each operation, in their order.  Clear is Replace with
\* no values; Append to a belongs-to is Replace.  The old records of a belongs-to
\* go with Unscoped, but for Clear, whose DELETE still names the owner's table
\* and is refused.
ReplacePlan(owners, clear, drop) ==
  CASE kind = "belongs_to" /\ clear -> <<<<"null_keys">>>> \o (IF drop THEN <<<<"refused">>>> ELSE <<>>)
    [] kind = "belongs_to" /\ ~clear -> Saves(owners) \o (IF drop THEN <<<<"delete_old">>>> ELSE <<>>)
    [] OTHER -> (IF clear THEN <<>> ELSE Saves(owners)) \o <<<<"unlink_rest">>>>
Plan(op, owners, clear, drop) ==
  CASE op = "append" -> IF kind = "belongs_to" THEN ReplacePlan(owners, FALSE, drop) ELSE Saves(owners)
    [] op = "replace" -> ReplacePlan(owners, clear, drop)
    [] op = "delete" -> <<<<"unlink">>>>
                        \o (IF kind = "belongs_to" /\ drop THEN <<<<"delete_old">>>> ELSE <<>>)
    [] op = "preload" -> <<<<"find">>>> \o (IF kind = "many2many" THEN <<<<"joins">>>> ELSE <<>>)
                         \o <<<<"targets">>>>
    [] op = "set_create" -> <<<<"find">>>> \o Saves(owners)
    [] op \in {"set_unlink", "set_delete"} -> <<<<op>>>>

Unscopes(op) == IF kind # "many2many" /\ op \in {"append", "replace", "delete"} THEN BOOLEAN ELSE {FALSE}

\* The values go with the owners one by one; a belongs-to takes one value.
Values(op, owners) ==
  LET vs == [Range(owners) -> SUBSET Others]
      one == {v \in vs : kind = "belongs_to" => \A o \in DOMAIN v : Cardinality(v[o]) <= 1}
      same == {v \in vs : \A o, u \in DOMAIN v : v[o] = v[u]}
      none == {[o \in Range(owners) |-> {}]}
  IN CASE op = "append" -> {v \in one : \A o \in DOMAIN v : v[o] # {}}
       [] op = "replace" -> {v \in one : \A o \in DOMAIN v : v[o] # {}} \cup none
       [] op = "set_create" -> {v \in one \cap same : \A o \in DOMAIN v : v[o] # {}}
       [] op \in {"delete", "set_unlink", "set_delete"} -> same
       [] op = "preload" -> none

Sound(rs, ls) == {l \in ls : l[2] \in rs}
Agrees(p, o) == mem[p][o] = Linked(o) /\ (kind = "belongs_to" => fk[p][o] = Linked(o))

\* What a program's memory is when the call has been prepared: Replace clears
\* the field; Clear sets it and the foreign key of a belongs-to to zero.
Cleared(p, op, owners, vals) ==
  IF op = "replace" /\ \A o \in Range(owners) : vals[o] = {}
  THEN [mem |-> [o \in Owners |-> IF o \in Range(owners) THEN {} ELSE mem[p][o]],
        fk |-> [o \in Owners |-> IF o \in Range(owners) THEN {} ELSE fk[p][o]]]
  ELSE [mem |-> mem[p], fk |-> fk[p]]

Start(p) ==
  /\ ~Busy(p) /\ calls < MaxCalls
  /\ calls' = calls + 1
  /\ \E op \in Calls[kind], owners \in OwnerLists :
       \E vals \in Values(op, owners),
          unscoped \in Unscopes(op) :
         /\ call' = [q \in Programs |->
              IF q = p
              THEN [op |-> op, owners |-> owners, vals |-> vals, unscoped |-> unscoped,
                    old |-> All(fk[p], Range(owners)),
                    todo |-> Plan(op, owners, All(vals, Range(owners)) = {},
                                  unscoped /\ All(fk[p], Range(owners)) # {}),
                    result |-> "none", before |-> links,
                    true |-> \A o \in Range(owners) : Agrees(p, o),
                    alone |-> \A r \in Programs \ {p} : ~Busy(r),
                    ever |-> IF op = "preload" THEN links ELSE {},
                    always |-> IF op = "preload" THEN Sound(rows, links) ELSE {}]
              ELSE IF Busy(q) THEN [call[q] EXCEPT !.alone = FALSE] ELSE NoCall]
         /\ mem' = [mem EXCEPT ![p] = Cleared(p, op, owners, vals).mem]
         /\ fk' = [fk EXCEPT ![p] = Cleared(p, op, owners, vals).fk]
  /\ UNCHANGED <<kind, rows, links, joins, faults>>

----------------------------------------------------------------------------
(***************************************************************************)
(* The statements.  Each gives the tables and the memory after it.         *)
(***************************************************************************)
After(p, newRows, newLinks) == [rows |-> newRows, links |-> newLinks, mem |-> mem[p], fk |-> fk[p]]

\* saveAssociation for one owner: the values go into its field, after what the
\* field held unless it is to be cleared, and the whole field is saved.
InField(p, o) ==
  IF call[p].op = "replace" \/ kind = "belongs_to" THEN call[p].vals[o] ELSE mem[p][o] \cup call[p].vals[o]
Save(p, o) ==
  LET field == InField(p, o)
      taken == CASE kind = "belongs_to" -> {o} \X Others
                 [] kind = "has" -> Owners \X field
                 [] OTHER -> {}
  IN [rows |-> rows \cup field,
      links |-> (links \ taken) \cup ({o} \X field),
      mem |-> [mem[p] EXCEPT ![o] = field],
      fk |-> [fk[p] EXCEPT ![o] = IF kind = "belongs_to" THEN field ELSE @]]

\* Mutant: without the condition on the owners.
UnlinkRest_AnyOwner(p) ==
  LET kept == IF kind = "has" THEN All(mem[p], Holds(p)) ELSE Given(p)
  IN After(p, rows, {l \in links : l[2] \in kept})

\* Replace takes the rest away: by what is in the fields now for a has-many,
\* by the values of all owners together for a many-to-many.
UnlinkRest(p) ==
  LET kept == IF kind = "has" THEN All(mem[p], Holds(p)) ELSE Given(p)
      gone == {l \in links : l[1] \in Holds(p) /\ l[2] \notin kept}
  IN After(p, IF kind = "has" /\ call[p].unscoped THEN rows \ {l[2] : l \in gone} ELSE rows, links \ gone)

NullKeys(p) == After(p, rows, {l \in links : l[1] \notin Holds(p)})

\* With Unscoped, what the owners in memory belonged to when the call came is
\* deleted, whatever the values are.
DeleteOld(p) == After(p, rows \ call[p].old, links)

\* Delete: the links of the owners to the values.
Unlink(p) ==
  LET gone == {l \in links : l[1] \in Holds(p) /\ l[2] \in Given(p)}
  IN After(p, IF kind = "has" /\ call[p].unscoped THEN rows \ {l[2] : l \in gone} ELSE rows, links \ gone)

\* Mutant: the field keeps the values.
CleanUp_Not(p, e) == e

\* When all has gone well the values leave the fields; the foreign key goes only
\* with its field.
CleanUp(p, e) ==
  [rows |-> e.rows, links |-> e.links,
   mem |-> [o \in Owners |-> IF o \in Holds(p) THEN mem[p][o] \ Given(p) ELSE mem[p][o]],
   fk |-> [o \in Owners |-> IF o \in Holds(p) /\ mem[p][o] \cap Given(p) # {} THEN {} ELSE fk[p][o]]]

\* The owners are read anew: their fields are empty.
FindOwners(p) ==
  [rows |-> rows, links |-> links,
   mem |-> [o \in Owners |-> IF o \in Holds(p) THEN {} ELSE mem[p][o]],
   fk |-> [o \in Owners |-> IF o \in Holds(p) THEN Linked(o) ELSE fk[p][o]]]

\* preload: the records the join rows, the foreign keys in memory or their own
\* foreign keys lead to are read and given to every owner they belong to.
Attached(p, o) ==
  CASE kind = "belongs_to" -> fk[p][o]
    [] kind = "has" -> Linked(o)
    [] OTHER -> {x \in Others : <<o, x>> \in joins[p]}
\* Mutant: a record goes to one of its owners only.
Targets_OneOwner(p) ==
  [rows |-> rows, links |-> links, fk |-> fk[p],
   mem |-> [o \in Owners |->
     IF o \notin Holds(p) THEN mem[p][o]
     ELSE {x \in Attached(p, o) \cap rows :
             o = CHOOSE u \in Holds(p) : x \in Attached(p, u)}]]

Targets(p) ==
  [rows |-> rows, links |-> links, fk |-> fk[p],
   mem |-> [o \in Owners |-> IF o \in Holds(p) THEN Attached(p, o) \cap rows ELSE mem[p][o]]]

\* handleAssociation of the generics API, with a condition on the records or none
\* (Others): a belongs-to loses its key whatever the condition says, and of a
\* many-to-many the join rows of every owner go.
SetUnlink(p) ==
  LET cond == Given(p)
      gone == CASE kind = "has" -> {l \in links : l[1] \in Holds(p) /\ l[2] \in cond}
                [] kind = "belongs_to" -> {l \in links : l[1] \in Holds(p)}
                [] OTHER -> {l \in links : l[2] \in cond /\ (cond # Others => l[2] \in rows)}
  IN After(p, rows, links \ gone)
SetDelete(p) ==
  LET found == {l[2] : l \in {k \in links : k[1] \in Holds(p) /\ k[2] \in Given(p)}}
  IN CASE kind = "many2many" -> SetUnlink(p)
       [] kind = "has" -> After(p, rows \ found, {l \in links : l[2] \notin found})
       [] OTHER -> After(p, rows \ found, {l \in links : l[1] \notin Holds(p)})

Effect(p, s) ==
  CASE s[1] = "save" -> Save(p, s[2])
    [] s[1] = "unlink_rest" -> UnlinkRest(p)
    [] s[1] = "null_keys" -> NullKeys(p)
    [] s[1] = "delete_old" -> DeleteOld(p)
    [] s[1] = "unlink" -> Unlink(p)
    [] s[1] = "find" -> FindOwners(p)
    [] s[1] = "joins" -> After(p, rows, links)
    [] s[1] = "targets" -> Targets(p)
    [] s[1] = "set_unlink" -> SetUnlink(p)
    [] s[1] = "set_delete" -> SetDelete(p)

\* What call c of q becomes when the tables have changed.
Observed(c) ==
  IF c.op = "preload" /\ c.todo # <<>>
  THEN [c EXCEPT !.ever = @ \cup links', !.always = @ \cap Sound(rows', links')]
  ELSE c

Exec(p) ==
  /\ Busy(p)
  /\ LET s == Head(call[p].todo)
         rest == Tail(call[p].todo)
         e == IF call[p].op = "delete" /\ rest = <<>> THEN CleanUp(p, Effect(p, s)) ELSE Effect(p, s)
     IN /\ s[1] # "refused"
        /\ rows' = e.rows /\ links' = e.links
        /\ mem' = [mem EXCEPT ![p] = e.mem]
        /\ fk' = [fk EXCEPT ![p] = e.fk]
        /\ joins' = [joins EXCEPT ![p] = IF s[1] = "joins" THEN links ELSE {}]
        /\ call' = [q \in Programs |->
              IF q # p THEN Observed(call[q])
              ELSE IF rest # <<>> THEN [Observed(call[p]) EXCEPT !.todo = rest]
              ELSE [Observed(call[p]) EXCEPT !.todo = rest, !.old = {}, !.result = "nil"]]
  /\ UNCHANGED <<kind, calls, faults>>

\* A statement that fails ends the call; not the UPDATE of Delete on a
\* belongs-to with Unscoped, whose error that of the DELETE replaces.  What
\* was set in memory before it stays.
Ends(p, s) == ~(call[p].op = "delete" /\ s[1] = "unlink" /\ Len(call[p].todo) > 1)
Fail(p) ==
  /\ Busy(p)
  /\ LET s == Head(call[p].todo)
     IN /\ IF s[1] = "refused" THEN UNCHANGED faults ELSE faults < MaxFaults /\ faults' = faults + 1
        /\ IF s[1] = "save"
           THEN /\ mem' = [mem EXCEPT ![p] = Save(p, s[2]).mem]
                /\ fk' \in {fk, [fk EXCEPT ![p] = Save(p, s[2]).fk]}
           ELSE UNCHANGED <<mem, fk>>
        /\ call' = [q \in Programs |->
              IF q # p THEN call[q]
              ELSE IF Ends(p, s) THEN [call[p] EXCEPT !.todo = <<>>, !.old = {}, !.result = "error"]
              ELSE [call[p] EXCEPT !.todo = Tail(call[p].todo)]]
        /\ joins' = [joins EXCEPT ![p] = {}]
  /\ UNCHANGED <<kind, rows, links, calls>>

Init ==
  /\ kind \in Kinds
  /\ rows = Others
  /\ links \in {ls \in SUBSET (Owners \X Others) : IsLinks(kind, ls)}
  /\ mem = [p \in Programs |-> [o \in Owners |-> {}]]
  /\ fk = [p \in Programs |-> [o \in Owners |-> IF kind = "belongs_to" THEN Linked(o) ELSE {}]]
  /\ call = [p \in Programs |-> NoCall]
  /\ joins = [p \in Programs |-> {}]
  /\ calls = 0 /\ faults = 0

Next == \E p \in Programs : Start(p) \/ Exec(p) \/ Fail(p)
Spec == Init /\ [][Next]_vars

----------------------------------------------------------------------------
(***************************************************************************)
(* Properties                                                              *)
(***************************************************************************)
Before(p, o) == {x \in Others : <<o, x>> \in call[p].before}

\* No value of one owner of the call is, or was, another one's: saving the
\* owners one after the other would move it (a has-many), and Replace would
\* not take it from the other (a many-to-many).
Apart(p) ==
  \A o, u \in Holds(p) : o # u /\ kind # "belongs_to" =>
    call[p].vals[o] \cap (call[p].vals[u] \cup Before(p, u)) = {}

Asked(p, o) ==
  LET v == call[p].vals[o]
  IN CASE call[p].op = "replace" \/ (kind = "belongs_to" /\ call[p].op \in {"append", "set_create"}) -> v
       [] kind # "belongs_to" /\ call[p].op \in {"append", "set_create"} -> Before(p, o) \cup v
       [] call[p].op = "delete" -> Before(p, o) \ v
       [] OTHER -> Linked(o)

\* The UPDATE of an Unscoped Delete on a belongs-to may have failed unsaid.
Forgiven(p) == kind = "belongs_to" /\ call[p].op = "delete" /\ call[p].unscoped /\ faults > 0

\* A call that had the tables for itself and returned nil has left every owner
\* with the links it was asked for, and the struct in memory, if it agreed with
\* the tables before, agrees with them still (association.go:59-400).
DoneAsAsked ==
  \A p \in Programs : call[p].alone /\ call[p].true /\ call[p].result = "nil" /\ Apart(p) /\ ~Forgiven(p) =>
    \A o \in Holds(p) :
      /\ Linked(o) = Asked(p, o)
      /\ call[p].op \in {"append", "replace", "delete"} => Agrees(p, o)

\* Replace saves the new associations and then takes the old ones away, in
\* statements of their own (association.go:98-194): wherever it is, and
\* whichever of them has failed, an owner has all its old ones or all its new
\* ones, never less.
NeverBare ==
  \A p \in Programs : call[p].alone /\ call[p].true /\ call[p].op \in {"append", "replace"} /\ Apart(p) =>
    \A o \in Holds(p) : Before(p, o) \subseteq Linked(o) \/ call[p].vals[o] \subseteq Linked(o)

\* An operation takes away no link of an owner it was not called on, but that
\* of a record of a has-many it gives to one of its owners, whatever the others
\* do (the WHERE of association.go:128-194, 250-307, generics.go:811-845).
OthersUntouched ==
  [][\A l \in links \ links' : \E p \in Programs :
       /\ call'[p] # call[p]
       /\ \/ l[1] \in Holds(p)
          \/ kind = "has" /\ l[2] \in All(mem'[p], Holds(p))]_vars

\* Preload asks in two or three statements (preload.go:148-358).  It gives an
\* owner nothing that was never linked to it since the call came, and all that
\* was linked to it, and there, all the time.
PreloadAgrees ==
  \A p \in Programs : call[p].op = "preload" /\ call[p].result = "nil" =>
    \A o \in Holds(p), x \in Others :
      /\ x \in mem[p][o] => <<o, x>> \in call[p].ever
      /\ <<o, x>> \in call[p].always => x \in mem[p][o]
============================================================================
