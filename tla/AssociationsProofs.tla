-------------------------- MODULE AssociationsProofs --------------------------
(***************************************************************************)
(* Theorems about Associations, for every number of programs, owners,      *)
(* records, calls and faults.                                              *)
(***************************************************************************)
EXTENDS Associations, GenericOps, SequenceTheorems, FiniteSetTheorems, TLAPS

\* The WHERE of Set's unlinking of a many-to-many names no owner: it is left out
\* where a property is about the owners.
SetKeepsOwners == "many2many" \in Kinds => Calls["many2many"] \cap {"set_unlink", "set_delete"} = {}

------------------------------------------------------------------------------
(***************************************************************************)
(* What the state and a call look like.                                    *)
(***************************************************************************)
Tags == {"unlink_rest", "null_keys", "delete_old", "refused", "unlink", "find", "joins",
         "targets", "set_unlink", "set_delete"}
Statements == {<<"save", o>> : o \in Owners} \cup {<<t>> : t \in Tags}
Links == SUBSET (Owners \X Others)
Fields == [Owners -> SUBSET Others]
CallType ==
    [op : Ops \cup {"none"}, owners : Seq(Owners), vals : UNION {[S -> SUBSET Others] : S \in SUBSET Owners},
     unscoped : BOOLEAN, old : SUBSET Others, todo : Seq(Statements),
     result : {"none", "nil", "error"}, before : Links, true : BOOLEAN, alone : BOOLEAN,
     ever : Links, always : Links]

TypeOK ==
    /\ kind \in Kinds /\ rows \subseteq Others /\ links \in Links /\ faults \in Nat
    /\ mem \in [Programs -> Fields] /\ fk \in [Programs -> Fields]
    /\ joins \in [Programs -> Links]
    /\ call \in [Programs -> CallType]

\* A record of a has-many has one owner, an owner of a belongs-to one record.
LinksInv == IsLinks(kind, links)

Ahead(p) == Range(call[p].todo)
IsLast(t, s) == \A i \in DOMAIN s : s[i] = <<t>> => i = Len(s)
IsFirst(t, s) == \A i \in DOMAIN s : s[i] = <<t>> => i = 1

\* The statements that are left are some of the operation.
IsOf(k, c, s) ==
    CASE s[1] = "save" -> s[2] \in Range(c.owners) /\ c.op \in {"append", "replace", "set_create"}
      [] s[1] \in {"set_unlink", "set_delete"} -> c.op = s[1]
      [] s[1] = "unlink_rest" -> c.op = "replace" /\ k # "belongs_to"
      [] s[1] = "null_keys" -> c.op = "replace" /\ k = "belongs_to"
                               /\ \A o \in Range(c.owners) : c.vals[o] = {}
      [] s[1] \in {"delete_old", "refused"} -> k = "belongs_to"
                                               /\ c.op \in {"append", "replace", "delete"}
      [] s[1] = "unlink" -> c.op = "delete"
      [] s[1] \in {"joins", "targets"} -> c.op = "preload"
      [] s[1] = "find" -> c.op \in {"preload", "set_create"}

Fits(k, c) ==
    /\ \A s \in Range(c.todo) : IsOf(k, c, s)
    /\ IsLast("unlink_rest", c.todo)
    /\ IsFirst("find", c.todo) /\ IsFirst("null_keys", c.todo) /\ IsFirst("unlink", c.todo)
    /\ c.op = "delete" /\ Len(c.todo) > 1 => k = "belongs_to" /\ c.unscoped
    /\ c.op = "replace" /\ k # "belongs_to" /\ c.todo # <<>> => <<"unlink_rest">> \in Range(c.todo)

WellFormed(k, c) ==
    /\ c.op \in Calls[k] \cup {"none"}
    /\ DOMAIN c.vals = Range(c.owners)
    /\ c.op = "none" => c.todo = <<>> /\ c.result = "none"
    /\ c.todo # <<>> => c.result = "none"
    /\ IsLinks(k, c.before)
    /\ c.op = "delete" => \A o, u \in Range(c.owners) : c.vals[o] = c.vals[u]
    /\ k = "belongs_to" /\ c.op \in {"append", "replace", "set_create"} =>
         \A o \in Range(c.owners) : \A x, y \in c.vals[o] : x = y
    /\ Fits(k, c)
Planned(p) == WellFormed(kind, call[p])

ShapeInv == TypeOK /\ LinksInv /\ \A p \in Programs : Planned(p)

\* Nobody else is in a call while one is alone.
AloneInv == \A p \in Programs : call[p].alone => \A q \in Programs \ {p} : ~Busy(q)

------------------------------------------------------------------------------
(***************************************************************************)
(* Preload.                                                                *)
(***************************************************************************)
\* What is left of a Preload, and what is known of what it has read: f, j and m are
\* the foreign keys in its memory, the join rows it has read, and its fields.
ReadsAs(k, rs, ls, c, f, j, m) ==
    c.op = "preload" =>
      /\ c.todo \in IF k = "many2many"
                   THEN {<<<<"find">>, <<"joins">>, <<"targets">>>>, <<<<"joins">>, <<"targets">>>>, <<<<"targets">>>>, <<>>}
                   ELSE {<<<<"find">>, <<"targets">>>>, <<<<"targets">>>>, <<>>}
      /\ c.todo # <<>> => ls \subseteq c.ever /\ c.always \subseteq Sound(rs, ls)
      /\ c.todo = <<<<"targets">>>> =>
           \A o \in Range(c.owners), x \in Others :
             /\ k = "belongs_to" => /\ x \in f[o] => <<o, x>> \in c.ever
                                    /\ <<o, x>> \in c.always => x \in f[o]
             /\ k = "many2many" => /\ <<o, x>> \in j => <<o, x>> \in c.ever
                                   /\ <<o, x>> \in c.always => <<o, x>> \in j
      /\ c.result = "nil" =>
           \A o \in Range(c.owners), x \in Others :
             /\ x \in m[o] => <<o, x>> \in c.ever
             /\ <<o, x>> \in c.always => x \in m[o]
Reads(p) == ReadsAs(kind, rows, links, call[p], fk[p], joins[p], mem[p])

------------------------------------------------------------------------------
(***************************************************************************)
(* A call that has the tables to itself.                                   *)
(***************************************************************************)
\* c is its call, ls the links, L those of the owner o, m and f what is in memory.
Of(ls, o) == {x \in Others : <<o, x>> \in ls}
Undisturbed(k, c) ==
    /\ c.alone /\ c.true
    /\ \A o, u \in Range(c.owners) : o # u /\ k # "belongs_to" =>
         c.vals[o] \cap (c.vals[u] \cup Of(c.before, u)) = {}
Saved(c, o) == <<"save", o>> \notin Range(c.todo)

\* A has-many or a many-to-many: the links grow, owner by owner, until the rest goes.
Grows(c, o, L, m) ==
    LET v == c.vals[o]
        before == Of(c.before, o)
        failed == c.result = "error"
    IN /\ c.op # "replace" \/ c.result # "nil" => before \subseteq L /\ L \subseteq before \cup v
       /\ c.op = "replace" /\ c.result = "nil" => L = v
       /\ ~failed /\ Saved(c, o) => v \subseteq L
       /\ ~failed /\ c.op = "append" => /\ before \subseteq m /\ m \subseteq before \cup v
                                        /\ Saved(c, o) => v \subseteq m
       /\ ~failed /\ c.op = "replace" /\ Saved(c, o) => m = v
       /\ ~failed /\ c.op = "set_create" => m \subseteq v \/ <<"find">> \in Range(c.todo)

\* A belongs-to: the old one, then the new one.
Turns(c, o, L, m, f) ==
    LET v == c.vals[o]
        asked == c.op # "set_create" => m = v /\ f = v
        clears == <<"null_keys">> \in Range(c.todo)
    IN /\ L = Of(c.before, o) \/ L = v
       /\ clears => asked
       /\ c.result # "error" /\ Saved(c, o) /\ ~clears => L = v /\ asked

\* Delete: the links, and then the fields.
Shrinks(k, c, o, L, m, f) ==
    LET v == c.vals[o]
        before == Of(c.before, o)
    IN c.result # "error" =>
         /\ L = IF <<"unlink">> \in Range(c.todo) THEN before ELSE before \ v
         /\ c.todo # <<>> => m = before /\ (k = "belongs_to" => f = before)
         /\ c.todo = <<>> => m = L /\ (k = "belongs_to" => f = L)

\* n faults have happened.
WorksAs(k, n, c, ls, m, f) ==
    Undisturbed(k, c) =>
      \A o \in Range(c.owners) :
        /\ c.op \in {"append", "replace", "set_create"} =>
             IF k = "belongs_to" THEN Turns(c, o, Of(ls, o), m[o], f[o]) ELSE Grows(c, o, Of(ls, o), m[o])
        /\ c.op = "delete" /\ ~(k = "belongs_to" /\ c.unscoped /\ n > 0) =>
             Shrinks(k, c, o, Of(ls, o), m[o], f[o])
Works(p) == WorksAs(kind, faults, call[p], links, mem[p], fk[p])

ReadsInv == \A p \in Programs : Reads(p)
WorksInv == \A p \in Programs : Works(p)

------------------------------------------------------------------------------
USE InputAssumption

(***************************************************************************)
(* Sequences.                                                              *)
(***************************************************************************)
LEMMA Empty == \A S : \A s \in Seq(S) : s = <<>> <=> Len(s) = 0
  OBVIOUS

LEMMA NothingIn == Range(<<>>) = {}
  <1>1. DOMAIN <<>> = {}
    BY SMTT(60)
  <1> QED BY <1>1, Zenon DEF Range

LEMMA HeadTail ==
    ASSUME NEW S, NEW s \in Seq(S), s # <<>>
    PROVE  /\ Head(s) \in S /\ Head(s) \in Range(s)
           /\ Tail(s) \in Seq(S) /\ Range(Tail(s)) \subseteq Range(s) /\ Tail(s) # s
           /\ Len(s) \in Nat \ {0} /\ Len(Tail(s)) = Len(s) - 1
           /\ \A x \in Range(s) : x = Head(s) \/ x \in Range(Tail(s))
           /\ Tail(s) = <<>> <=> Len(s) = 1
  <1>1. /\ Len(s) \in Nat \ {0} /\ DOMAIN s = 1..Len(s) /\ Head(s) = s[1]
        /\ Tail(s) \in Seq(S) /\ Len(Tail(s)) = Len(s) - 1 /\ DOMAIN Tail(s) = 1..(Len(s) - 1)
        /\ \A i \in 1..(Len(s) - 1) : Tail(s)[i] = s[i + 1]
    OBVIOUS
  <1>2. \A i \in 1..Len(s) : i = 1 \/ (i - 1 \in 1..(Len(s) - 1) /\ (i - 1) + 1 = i)
    BY <1>1
  <1>3. \A x \in Range(s) : x = Head(s) \/ x \in Range(Tail(s))
    <2> SUFFICES ASSUME NEW i \in 1..Len(s), i # 1 PROVE s[i] \in Range(Tail(s))
      BY <1>1 DEF Range
    <2>1. s[i] = Tail(s)[i - 1] /\ i - 1 \in DOMAIN Tail(s)
      BY <1>1, <1>2
    <2> QED BY <2>1 DEF Range
  <1>4. Range(Tail(s)) \subseteq Range(s) /\ Head(s) \in Range(s)
    BY <1>1 DEF Range
  <1>5. Head(s) \in S /\ Tail(s) # s /\ (Tail(s) = <<>> <=> Len(s) = 1)
    <2>1. Tail(s) # s
      <3> DEFINE t == Tail(s)
      <3>1. Len(t) = Len(s) - 1 /\ Len(s) \in Nat
        BY <1>1
      <3> HIDE DEF t
      <3>2. t # s
        BY <3>1
      <3> QED BY <3>2 DEF t
    <2>2. 1 \in 1..Len(s)
      BY <1>1
    <2>3. Head(s) \in S
      BY <1>1, <2>2
    <2>4. Tail(s) = <<>> <=> Len(Tail(s)) = 0
      BY <1>1, Empty
    <2>5. Len(Tail(s)) = 0 <=> Len(s) = 1
      BY <1>1
    <2> QED BY <2>1, <2>3, <2>4, <2>5
  <1> QED BY <1>1, <1>3, <1>4, <1>5

LEMMA TailPlaces ==
    ASSUME NEW S, NEW s \in Seq(S), s # <<>>, NEW t
    PROVE  /\ IsLast(t, s) => IsLast(t, Tail(s)) /\ (Head(s) = <<t>> => Tail(s) = <<>>)
           /\ IsFirst(t, s) => <<t>> \notin Range(Tail(s)) /\ IsFirst(t, Tail(s))
  <1>1. /\ Len(s) \in Nat \ {0} /\ DOMAIN s = 1..Len(s) /\ Head(s) = s[1]
        /\ Tail(s) \in Seq(S) /\ Len(Tail(s)) = Len(s) - 1 /\ DOMAIN Tail(s) = 1..(Len(s) - 1)
        /\ \A i \in 1..(Len(s) - 1) : Tail(s)[i] = s[i + 1]
    OBVIOUS
  <1>2. \A i \in 1..(Len(s) - 1) : i + 1 \in 1..Len(s) /\ i + 1 # 1
    BY <1>1
  <1>3. Len(s) = 1 => Tail(s) = <<>>
    BY <1>1, Empty
  <1> QED BY <1>1, <1>2, <1>3 DEF IsLast, IsFirst, Range

LEMMA Then ==
    ASSUME NEW S, NEW s \in Seq(S), NEW x \in S
    PROVE  /\ s \o <<x>> \in Seq(S) /\ Len(s \o <<x>>) = Len(s) + 1
           /\ DOMAIN (s \o <<x>>) = 1..(Len(s) + 1) /\ DOMAIN s = 1..Len(s) /\ Len(s) \in Nat
           /\ \A i \in 1..Len(s) : (s \o <<x>>)[i] = s[i]
           /\ (s \o <<x>>)[Len(s) + 1] = x
           /\ \A i \in 1..(Len(s) + 1) : i \in 1..Len(s) \/ i = Len(s) + 1
           /\ Range(s \o <<x>>) = Range(s) \cup {x}
           /\ s \o <<>> = s
  <1>1. /\ s \o <<x>> \in Seq(S) /\ Len(s \o <<x>>) = Len(s) + 1
        /\ DOMAIN (s \o <<x>>) = 1..(Len(s) + 1) /\ DOMAIN s = 1..Len(s) /\ Len(s) \in Nat
        /\ \A i \in 1..Len(s) : (s \o <<x>>)[i] = s[i]
        /\ (s \o <<x>>)[Len(s) + 1] = x
        /\ s \o <<>> = s
    OBVIOUS
  <1>2. \A i \in 1..(Len(s) + 1) : i \in 1..Len(s) \/ i = Len(s) + 1
    BY <1>1
  <1>3. \A i \in 1..Len(s) : i \in 1..(Len(s) + 1)
    BY <1>1
  <1>4. Len(s) + 1 \in 1..(Len(s) + 1)
    BY <1>1
  <1>5. Range(s \o <<x>>) = Range(s) \cup {x}
    BY <1>1, <1>2, <1>3, <1>4 DEF Range
  <1> QED BY <1>1, <1>2, <1>5

LEMMA First ==
    ASSUME NEW S, NEW s \in Seq(S), NEW x \in S
    PROVE  /\ <<x>> \o s \in Seq(S) /\ Len(<<x>> \o s) = Len(s) + 1
           /\ DOMAIN (<<x>> \o s) = 1..(Len(s) + 1) /\ DOMAIN s = 1..Len(s) /\ Len(s) \in Nat
           /\ \A i \in 1..(Len(s) + 1) : i = 1 \/ (i - 1 \in 1..Len(s) /\ (<<x>> \o s)[i] = s[i - 1])
           /\ Range(<<x>> \o s) = Range(s) \cup {x}
  <1>1. /\ <<x>> \o s \in Seq(S) /\ Len(<<x>> \o s) = Len(s) + 1
        /\ DOMAIN (<<x>> \o s) = 1..(Len(s) + 1) /\ DOMAIN s = 1..Len(s) /\ Len(s) \in Nat
        /\ (<<x>> \o s)[1] = x
        /\ \A i \in 1..Len(s) : (<<x>> \o s)[i + 1] = s[i]
    OBVIOUS
  <1>2. \A i \in 1..(Len(s) + 1) : i = 1 \/ (i - 1 \in 1..Len(s) /\ (i - 1) + 1 = i)
    BY <1>1
  <1>3. \A i \in 1..Len(s) : i + 1 \in 1..(Len(s) + 1)
    BY <1>1
  <1>4. \A i \in 1..(Len(s) + 1) : i = 1 \/ (i - 1 \in 1..Len(s) /\ (<<x>> \o s)[i] = s[i - 1])
    BY <1>1, <1>2
  <1>5. 1 \in 1..(Len(s) + 1)
    BY <1>1
  <1>6. Range(<<x>> \o s) = Range(s) \cup {x}
    <2>1. ASSUME NEW y \in Range(<<x>> \o s) PROVE y \in Range(s) \cup {x}
      <3>1. PICK i \in 1..(Len(s) + 1) : y = (<<x>> \o s)[i]
        BY <1>1 DEF Range
      <3> QED BY <1>1, <1>4, <3>1 DEF Range
    <2>2. ASSUME NEW y \in Range(s) PROVE y \in Range(<<x>> \o s)
      <3>1. PICK i \in 1..Len(s) : y = s[i]
        BY <1>1 DEF Range
      <3>2. y = (<<x>> \o s)[i + 1] /\ i + 1 \in 1..(Len(s) + 1)
        BY <1>1, <1>3, <3>1
      <3> QED BY <1>1, <3>2 DEF Range
    <2>3. x \in Range(<<x>> \o s)
      BY <1>1, <1>5 DEF Range
    <2> QED BY <2>1, <2>2, <2>3
  <1> QED BY <1>1, <1>4, <1>6

LEMMA SavesAre ==
    ASSUME NEW owners \in Seq(Owners)
    PROVE  /\ Saves(owners) \in Seq(Statements) /\ Len(Saves(owners)) = Len(owners)
           /\ \A i \in DOMAIN Saves(owners) : Saves(owners)[i] = <<"save", owners[i]>>
           /\ Range(Saves(owners)) = {<<"save", o>> : o \in Range(owners)}
           /\ Range(owners) \subseteq Owners
  <1>1. DOMAIN owners = 1..Len(owners) /\ Len(owners) \in Nat /\ \A i \in DOMAIN owners : owners[i] \in Owners
    OBVIOUS
  <1>2. \A i \in DOMAIN owners : <<"save", owners[i]>> \in Statements
    BY <1>1 DEF Statements
  <1> QED BY <1>1, <1>2 DEF Saves, Range

LEMMA Pairs ==
    ASSUME NEW S, NEW a \in S, NEW b \in S, NEW c \in S
    PROVE  <<a>> \o <<b>> = <<a, b>> /\ <<a, b>> \o <<c>> = <<a, b, c>>
  <1>1. \A s, t \in Seq(S) : s \o t \in Seq(S)
    OBVIOUS
  <1>2. <<a>> \in Seq(S) /\ <<b>> \in Seq(S) /\ <<a, b>> \in Seq(S) /\ <<c>> \in Seq(S)
        /\ <<a, b, c>> \in Seq(S)
    OBVIOUS
  <1>3. Len(<<a>> \o <<b>>) = Len(<<a, b>>) /\ \A i \in 1..Len(<<a>> \o <<b>>) : (<<a>> \o <<b>>)[i] = <<a, b>>[i]
    BY <1>2
  <1>4. /\ Len(<<a, b>> \o <<c>>) = Len(<<a, b, c>>)
        /\ \A i \in 1..Len(<<a, b>> \o <<c>>) : (<<a, b>> \o <<c>>)[i] = <<a, b, c>>[i]
    BY <1>2
  <1>5. <<a>> \o <<b>> \in Seq(S) /\ <<a, b>> \o <<c>> \in Seq(S)
    BY <1>1, <1>2
  <1>6. <<a>> \o <<b>> = <<a, b>>
    BY <1>2, <1>3, <1>5, SeqEqual
  <1>7. <<a, b>> \o <<c>> = <<a, b, c>>
    BY <1>2, <1>4, <1>5, SeqEqual
  <1> QED BY <1>6, <1>7

LEMMA Distinct == /\ \A o, t : <<"save", o>> # <<t>>
                  /\ \A t, u : <<t>> = <<u>> => t = u
                  /\ \A o, u : <<"save", o>> = <<"save", u>> => o = u
  OBVIOUS

\* All of a plan fits, and has what it must have.
LEMMA PlanFits ==
    ASSUME NEW c, c.op \in Ops, c.owners \in Seq(Owners), kind \in Kinds,
           NEW clear \in BOOLEAN, NEW drop \in BOOLEAN,
           clear => \A o \in Range(c.owners) : c.vals[o] = {},
           drop => c.unscoped,
           c.todo = Plan(c.op, c.owners, clear, drop)
    PROVE  /\ c.todo \in Seq(Statements) /\ Fits(kind, c)
           /\ c.op \in {"append", "set_create"} \/ (c.op = "replace" /\ ~clear) =>
                \A o \in Range(c.owners) : <<"save", o>> \in Range(c.todo)
           /\ c.op = "set_create" => <<"find">> \in Range(c.todo)
           /\ c.op = "replace" /\ clear /\ kind = "belongs_to" => <<"null_keys">> \in Range(c.todo)
           /\ c.op = "delete" => <<"unlink">> \in Range(c.todo)
           /\ c.op = "preload" =>
                c.todo = IF kind = "many2many" THEN <<<<"find">>, <<"joins">>, <<"targets">>>>
                                               ELSE <<<<"find">>, <<"targets">>>>
  <1> DEFINE sv == Saves(c.owners)
  <1>1. /\ sv \in Seq(Statements) /\ Range(sv) = {<<"save", o>> : o \in Range(c.owners)}
        /\ \A i \in DOMAIN sv : sv[i] = <<"save", c.owners[i]>>
    BY SavesAre
  <1>2. \A t \in Tags : <<t>> \in Statements
    BY DEF Statements
  <1>3. \A x : \A i \in DOMAIN sv : sv[i] # <<x>>
    BY <1>1, Distinct
  <1> HIDE DEF sv
  <1>0. c.op \in {"append", "replace", "set_create"} => \A s \in Range(sv) : IsOf(kind, c, s)
    <2> SUFFICES ASSUME c.op \in {"append", "replace", "set_create"}, NEW o \in Range(c.owners)
                 PROVE  IsOf(kind, c, <<"save", o>>)
      BY <1>1
    <2> QED BY DEF IsOf
  <1>4. ASSUME c.todo = sv, c.op \in {"append", "set_create", "replace"}, c.op = "replace" => kind = "belongs_to"
        PROVE  Fits(kind, c) /\ c.todo \in Seq(Statements) /\ \A o \in Range(c.owners) : <<"save", o>> \in Range(c.todo)
    BY <1>0, <1>1, <1>3, <1>4 DEF Fits, IsLast, IsFirst
  <1>5. ASSUME NEW t \in {"unlink_rest", "delete_old"}, c.todo = sv \o <<<<t>>>>,
               c.op \in {"append", "replace"}, t = "unlink_rest" => c.op = "replace" /\ kind # "belongs_to",
               t = "delete_old" => kind = "belongs_to"
        PROVE  Fits(kind, c) /\ c.todo \in Seq(Statements) /\ \A o \in Range(c.owners) : <<"save", o>> \in Range(c.todo)
    <2>1. <<t>> \in Statements
      BY <1>2 DEF Tags
    <2>2. /\ c.todo \in Seq(Statements) /\ Len(c.todo) = Len(sv) + 1
          /\ DOMAIN c.todo = 1..(Len(sv) + 1) /\ DOMAIN sv = 1..Len(sv)
          /\ \A i \in 1..Len(sv) : c.todo[i] = sv[i]
          /\ c.todo[Len(sv) + 1] = <<t>>
          /\ \A i \in 1..(Len(sv) + 1) : i \in 1..Len(sv) \/ i = Len(sv) + 1
          /\ Range(c.todo) = Range(sv) \cup {<<t>>}
      BY <1>1, <1>5, <2>1, Then
    <2>3. \A s \in Range(c.todo) : IsOf(kind, c, s)
      <3>1. IsOf(kind, c, <<t>>)
        BY <1>5 DEF IsOf
      <3> QED BY <1>0, <1>5, <2>2, <3>1
    <2>4. IsLast("unlink_rest", c.todo)
      BY <1>3, <2>2 DEF IsLast, Tags
    <2>5. IsFirst("find", c.todo) /\ IsFirst("null_keys", c.todo) /\ IsFirst("unlink", c.todo)
      <3>1. <<t>> # <<"find">> /\ <<t>> # <<"null_keys">> /\ <<t>> # <<"unlink">>
        BY <1>5
      <3> QED BY <1>3, <2>2, <3>1 DEF IsFirst
    <2>6. \A o \in Range(c.owners) : <<"save", o>> \in Range(c.todo)
      BY <1>1, <2>2
    <2> QED BY <1>5, <2>2, <2>3, <2>4, <2>5, <2>6 DEF Fits
  <1>6. ASSUME c.todo = <<<<"find">>>> \o sv, c.op = "set_create"
        PROVE  /\ Fits(kind, c) /\ c.todo \in Seq(Statements) /\ <<"find">> \in Range(c.todo)
               /\ \A o \in Range(c.owners) : <<"save", o>> \in Range(c.todo)
    <2>1. <<"find">> \in Statements
      BY <1>2 DEF Tags
    <2>2. /\ c.todo \in Seq(Statements) /\ DOMAIN c.todo = 1..(Len(sv) + 1) /\ DOMAIN sv = 1..Len(sv)
          /\ \A i \in 1..(Len(sv) + 1) : i = 1 \/ (i - 1 \in 1..Len(sv) /\ c.todo[i] = sv[i - 1])
          /\ Range(c.todo) = Range(sv) \cup {<<"find">>}
      BY <1>1, <1>6, <2>1, First
    <2>3. \A s \in Range(c.todo) : IsOf(kind, c, s)
      <3>1. IsOf(kind, c, <<"find">>)
        BY <1>6 DEF IsOf
      <3> QED BY <1>0, <1>6, <2>2, <3>1
    <2>4. /\ IsLast("unlink_rest", c.todo)
          /\ IsFirst("find", c.todo) /\ IsFirst("null_keys", c.todo) /\ IsFirst("unlink", c.todo)
      <3>1. c.todo[1] = <<"find">>
        BY <1>1, <1>6
      <3>2. \A i \in 1..(Len(sv) + 1) : i = 1 \/ \A x : c.todo[i] # <<x>>
        BY <1>3, <2>2
      <3>3. <<"find">> # <<"unlink_rest">>
        OBVIOUS
      <3> QED BY <2>2, <3>1, <3>2, <3>3 DEF IsLast, IsFirst
    <2> QED BY <1>1, <1>6, <2>2, <2>3, <2>4 DEF Fits
  <1>7. ASSUME NEW t \in Tags, c.todo = <<<<t>>>>, IsOf(kind, c, <<t>>),
               c.op = "replace" /\ kind # "belongs_to" => t = "unlink_rest"
        PROVE  Fits(kind, c) /\ c.todo \in Seq(Statements) /\ <<t>> \in Range(c.todo)
    BY <1>2, <1>7 DEF Fits, IsLast, IsFirst, Range
  <1>8. ASSUME NEW t \in Tags \ {"unlink_rest"}, NEW u \in {"joins", "targets", "delete_old", "refused"},
               c.todo = <<<<t>>, <<u>>>>, IsOf(kind, c, <<t>>), IsOf(kind, c, <<u>>),
               c.op = "delete" => kind = "belongs_to" /\ c.unscoped, c.op = "replace" => kind = "belongs_to"
        PROVE  Fits(kind, c) /\ c.todo \in Seq(Statements) /\ <<t>> \in Range(c.todo)
    <2>1. <<t>> \in Statements /\ <<u>> \in Statements
      BY <1>2, <1>8 DEF Tags
    <2> QED BY <1>8, <2>1 DEF Fits, IsLast, IsFirst, Range
  <1>9. CASE c.op = "append" \/ (c.op = "replace" /\ ~clear)
    <2>1. CASE kind = "belongs_to"
      <3>1. c.todo = IF drop THEN sv \o <<<<"delete_old">>>> ELSE sv \o <<>>
        BY <1>9, <2>1 DEF Plan, ReplacePlan, sv
      <3>2. sv \o <<>> = sv
        BY <1>1
      <3> QED BY <1>4, <1>5, <1>9, <2>1, <3>1, <3>2
    <2>2. CASE kind # "belongs_to"
      <3>1. c.todo = IF c.op = "append" THEN sv ELSE sv \o <<<<"unlink_rest">>>>
        BY <1>9, <2>2 DEF Plan, ReplacePlan, sv
      <3> QED BY <1>4, <1>5, <1>9, <2>2, <3>1
    <2> QED BY <2>1, <2>2
  <1>10. CASE c.op = "replace" /\ clear
    <2>1. CASE kind = "belongs_to"
      <3>1. c.todo = IF drop THEN <<<<"null_keys">>, <<"refused">>>> ELSE <<<<"null_keys">>>>
        BY <1>10, <2>1 DEF Plan, ReplacePlan
      <3>2. IsOf(kind, c, <<"null_keys">>) /\ IsOf(kind, c, <<"refused">>)
        BY <1>10, <2>1 DEF IsOf
      <3> QED BY <1>7, <1>8, <1>10, <2>1, <3>1, <3>2 DEF Tags
    <2>2. CASE kind # "belongs_to"
      <3>1. c.todo = <<<<"unlink_rest">>>>
        BY <1>10, <2>2 DEF Plan, ReplacePlan
      <3>2. IsOf(kind, c, <<"unlink_rest">>)
        BY <1>10, <2>2 DEF IsOf
      <3> QED BY <1>7, <1>10, <2>2, <3>1, <3>2 DEF Tags
    <2> QED BY <2>1, <2>2
  <1>11. CASE c.op = "delete"
    <2>1. c.todo = IF kind = "belongs_to" /\ drop THEN <<<<"unlink">>, <<"delete_old">>>> ELSE <<<<"unlink">>>>
      BY <1>11 DEF Plan
    <2>2. IsOf(kind, c, <<"unlink">>) /\ (kind = "belongs_to" => IsOf(kind, c, <<"delete_old">>))
      BY <1>11 DEF IsOf
    <2> QED BY <1>7, <1>8, <1>11, <2>1, <2>2 DEF Tags
  <1>12. CASE c.op = "preload"
    <2>1. c.todo = IF kind = "many2many" THEN <<<<"find">>, <<"joins">>, <<"targets">>>>
                                         ELSE <<<<"find">>, <<"targets">>>>
      <3>1. /\ <<<<"find">>>> \o <<<<"joins">>>> = <<<<"find">>, <<"joins">>>>
            /\ <<<<"find">>, <<"joins">>>> \o <<<<"targets">>>> = <<<<"find">>, <<"joins">>, <<"targets">>>>
            /\ <<<<"find">>>> \o <<>> = <<<<"find">>>>
            /\ <<<<"find">>>> \o <<<<"targets">>>> = <<<<"find">>, <<"targets">>>>
        <4>1. <<"find">> \in Statements /\ <<"joins">> \in Statements /\ <<"targets">> \in Statements
          BY <1>2 DEF Tags
        <4>2. <<<<"find">>>> \o <<>> = <<<<"find">>>>
          OBVIOUS
        <4> QED BY ZenonT(60), <4>1, <4>2, Pairs
      <3>2. c.todo = <<<<"find">>>> \o (IF kind = "many2many" THEN <<<<"joins">>>> ELSE <<>>) \o <<<<"targets">>>>
        BY <1>12 DEF Plan
      <3>3. CASE kind = "many2many"
        BY <3>1, <3>2, <3>3, Zenon
      <3>4. CASE kind # "many2many"
        BY <3>1, <3>2, <3>4, Zenon
      <3> QED BY <3>3, <3>4
    <2>2. IsOf(kind, c, <<"find">>) /\ IsOf(kind, c, <<"joins">>) /\ IsOf(kind, c, <<"targets">>)
      BY <1>12 DEF IsOf
    <2>3. <<"find">> \in Statements /\ <<"joins">> \in Statements /\ <<"targets">> \in Statements
      BY <1>2 DEF Tags
    <2>4. CASE kind = "many2many"
      <3>1. c.todo = <<<<"find">>, <<"joins">>, <<"targets">>>>
        BY <2>1, <2>4
      <3>2. c.todo \in Seq(Statements) /\ DOMAIN c.todo = 1..3
            /\ c.todo[1] = <<"find">> /\ c.todo[2] = <<"joins">> /\ c.todo[3] = <<"targets">>
        BY <2>3, <3>1
      <3>3. Fits(kind, c)
        <4>1. \A s \in Range(c.todo) : IsOf(kind, c, s)
          BY <2>2, <3>2 DEF Range
        <4>2. /\ <<"find">> # <<"unlink_rest">> /\ <<"joins">> # <<"unlink_rest">> /\ <<"targets">> # <<"unlink_rest">>
              /\ \A t \in {"find", "null_keys", "unlink"} : <<"joins">> # <<t>> /\ <<"targets">> # <<t>>
          OBVIOUS
        <4>3. \A i \in DOMAIN c.todo : i = 1 \/ c.todo[i] = <<"joins">> \/ c.todo[i] = <<"targets">>
          BY <3>2
        <4>4. IsLast("unlink_rest", c.todo)
          BY <3>2, <4>2, <4>3 DEF IsLast
        <4>5. IsFirst("find", c.todo) /\ IsFirst("null_keys", c.todo) /\ IsFirst("unlink", c.todo)
          BY <4>2, <4>3 DEF IsFirst
        <4> QED BY <1>12, <4>1, <4>4, <4>5 DEF Fits
      <3> QED BY <1>12, <2>4, <3>1, <3>2, <3>3
    <2>5. CASE kind # "many2many"
      BY <1>8, <1>12, <2>1, <2>2, <2>5 DEF Tags
    <2> QED BY <2>4, <2>5
  <1>13. CASE c.op = "set_create"
    <2>1. c.todo = <<<<"find">>>> \o sv
      BY <1>13 DEF Plan, sv
    <2> QED BY <1>6, <1>13, <2>1
  <1>14. CASE c.op \in {"set_unlink", "set_delete"}
    <2>1. c.todo = <<<<c.op>>>> /\ IsOf(kind, c, <<c.op>>) /\ c.op \in Tags
      BY <1>14 DEF Plan, IsOf, Tags
    <2> QED BY <1>7, <1>14, <2>1
  <1> QED BY <1>9, <1>10, <1>11, <1>12, <1>13, <1>14 DEF Ops

------------------------------------------------------------------------------
(***************************************************************************)
(* What the three actions do.                                              *)
(***************************************************************************)
LEMMA AtMostOne ==
    ASSUME NEW S \in SUBSET Others, Cardinality(S) <= 1, NEW x \in S, NEW y \in S
    PROVE  x = y
  <1> SUFFICES ASSUME x # y PROVE FALSE
    OBVIOUS
  <1>1. IsFiniteSet(S)
    BY FS_Subset
  <1>2. IsFiniteSet({x}) /\ Cardinality({x}) = 1
    BY FS_Singleton
  <1>3. {x} \subseteq S /\ {x} # S
    OBVIOUS
  <1>4. Cardinality({x}) < Cardinality(S) /\ Cardinality(S) \in Nat
    BY <1>1, <1>3, FS_Subset, FS_CardinalityType
  <1> QED BY <1>2, <1>4

LEMMA ValuesAre ==
    ASSUME NEW op \in Ops, NEW owners \in Seq(Owners), NEW vals \in Values(op, owners)
    PROVE  /\ vals \in [Range(owners) -> SUBSET Others]
           /\ op = "delete" => \A o, u \in Range(owners) : vals[o] = vals[u]
           /\ op = "replace" => (\A o \in Range(owners) : vals[o] # {}) \/ (\A o \in Range(owners) : vals[o] = {})
           /\ kind = "belongs_to" /\ op \in {"append", "replace", "set_create"} =>
                \A o \in Range(owners) : \A x, y \in vals[o] : x = y
  <1> DEFINE vs == [Range(owners) -> SUBSET Others]
             one == {v \in vs : kind = "belongs_to" => \A o \in DOMAIN v : Cardinality(v[o]) <= 1}
             same == {v \in vs : \A o, u \in DOMAIN v : v[o] = v[u]}
             none == {[o \in Range(owners) |-> {}]}
  <1>1. /\ op = "append" => vals \in one
        /\ op = "replace" => vals \in none \/ (vals \in one /\ \A o \in Range(owners) : vals[o] # {})
        /\ op = "set_create" => vals \in one
        /\ op \in {"delete", "set_unlink", "set_delete"} => vals \in same
        /\ op = "preload" => vals \in none
    BY DEF Values
  <1>2. \A v \in none : v \in vs /\ \A o \in Range(owners) : v[o] = {}
    OBVIOUS
  <1>3. \A v \in one : v \in vs /\ (kind = "belongs_to" => \A o \in Range(owners) : \A x, y \in v[o] : x = y)
    <2> SUFFICES ASSUME NEW v \in one, kind = "belongs_to", NEW o \in Range(owners), NEW x \in v[o], NEW y \in v[o]
                 PROVE  x = y
      OBVIOUS
    <2>1. Cardinality(v[o]) <= 1 /\ v[o] \in SUBSET Others
      OBVIOUS
    <2> QED BY <2>1, AtMostOne
  <1>4. \A v \in same : v \in vs /\ \A o, u \in Range(owners) : v[o] = v[u]
    OBVIOUS
  <1> HIDE DEF one, same, none
  <1> QED BY <1>1, <1>2, <1>3, <1>4 DEF Ops

\* What a call keeps from its start to its end.
Keeps(c, d) ==
    /\ d.op = c.op /\ d.owners = c.owners /\ d.vals = c.vals /\ d.unscoped = c.unscoped
    /\ d.before = c.before /\ d.true = c.true /\ d.alone = c.alone

LEMMA EmptyCall ==
    /\ NoCall \in CallType /\ NoCall.op = "none" /\ NoCall.todo = <<>> /\ NoCall.result = "none"
    /\ NoCall.before = {} /\ NoCall.alone = FALSE /\ NoCall.owners = <<>> /\ DOMAIN NoCall.vals = {}
    /\ Range(NoCall.owners) = {}
  <1>1. <<>> \in [{} -> SUBSET Others] /\ {} \in SUBSET Owners
    OBVIOUS
  <1>2. <<>> \in UNION {[S -> SUBSET Others] : S \in SUBSET Owners}
    BY <1>1
  <1>3. <<>> \in Seq(Owners) /\ <<>> \in Seq(Statements) /\ {} \in Links
    BY DEF Links
  <1>4. NoCall.todo = <<>> /\ NoCall.owners = <<>> /\ NoCall.vals = <<>> /\ DOMAIN NoCall.vals = {}
    BY DEF NoCall
  <1>5. Range(NoCall.owners) = {}
    BY <1>4, NothingIn
  <1>6. NoCall \in CallType
    BY <1>2, <1>3 DEF NoCall, CallType
  <1>7. NoCall.op = "none" /\ NoCall.result = "none" /\ NoCall.before = {} /\ NoCall.alone = FALSE
    BY DEF NoCall
  <1> QED BY <1>4, <1>5, <1>6, <1>7

\* Start: a new call of p; nobody else's.
Begun(p, c) ==
    /\ c \in CallType /\ call'[p] = c /\ c.op \in Calls[kind] /\ c.op \in Ops /\ c.result = "none"
    /\ c.vals \in [Range(c.owners) -> SUBSET Others]
    /\ c.op = "delete" => \A o, u \in Range(c.owners) : c.vals[o] = c.vals[u]
    /\ kind = "belongs_to" /\ c.op \in {"append", "replace", "set_create"} =>
         \A o \in Range(c.owners) : \A x, y \in c.vals[o] : x = y
    /\ c.before = links
    /\ c.true => \A o \in Range(c.owners) : Agrees(p, o)
    /\ c.alone => \A r \in Programs \ {p} : ~Busy(r)
    /\ c.op = "preload" => c.ever = links /\ c.always = Sound(rows, links)
    /\ \E clear, drop \in BOOLEAN :
         /\ c.todo = Plan(c.op, c.owners, clear, drop)
         /\ drop => c.unscoped
         /\ clear => \A o \in Range(c.owners) : c.vals[o] = {}
         /\ c.op = "replace" /\ ~clear => \A o \in Range(c.owners) : c.vals[o] # {}
         /\ c.op = "replace" /\ clear => \A o \in Range(c.owners) : mem'[p][o] = {} /\ fk'[p][o] = {}
         /\ ~(c.op = "replace" /\ clear) => \A o \in Range(c.owners) : mem'[p][o] = mem[p][o] /\ fk'[p][o] = fk[p][o]

Makes(p, op, owners, vals, unscoped) ==
    /\ call' = [q \in Programs |->
         IF q = p
         THEN [op |-> op, owners |-> owners, vals |-> vals, unscoped |-> unscoped,
               old |-> All(fk[p], Range(owners)),
               todo |-> Plan(op, owners, All(vals, Range(owners)) = {},
                             unscoped /\ All(fk[p], Range(owners)) # {}),
               result |-> "none", before |-> links,
               true |-> \A o \in Range(owners) : Agrees(p, o),
               alone |-> \A r \in Programs \ {p} : ~Busy(r),
               ever |-> IF op = "preload" THEN links ELSE {},
               always |-> IF op = "preload" THEN Sound(rows, links) ELSE {}]
         ELSE IF Busy(q) THEN [call[q] EXCEPT !.alone = FALSE] ELSE NoCall]
    /\ mem' = [mem EXCEPT ![p] = Cleared(p, op, owners, vals).mem]
    /\ fk' = [fk EXCEPT ![p] = Cleared(p, op, owners, vals).fk]

LEMMA StartDoes ==
    ASSUME TypeOK, NEW p \in Programs, Start(p)
    PROVE  /\ \E c \in CallType : Begun(p, c)
           /\ UNCHANGED <<kind, rows, links, joins, faults>>
           /\ mem' \in [Programs -> Fields] /\ fk' \in [Programs -> Fields]
           /\ call' \in [Programs -> CallType]
           /\ \A q \in Programs \ {p} :
                /\ mem'[q] = mem[q] /\ fk'[q] = fk[q]
                /\ call'[q] = IF Busy(q) THEN [call[q] EXCEPT !.alone = FALSE] ELSE NoCall
  <1>1. PICK op \in Calls[kind], owners \in OwnerLists :
          \E vals \in Values(op, owners), unscoped \in Unscopes(op) : Makes(p, op, owners, vals, unscoped)
    BY DEF Start, Makes
  <1>2. PICK vals \in Values(op, owners), unscoped \in Unscopes(op) : Makes(p, op, owners, vals, unscoped)
    BY <1>1
  <1> DEFINE clear == All(vals, Range(owners)) = {}
             drop == unscoped /\ All(fk[p], Range(owners)) # {}
             ok == \A o \in Range(owners) : Agrees(p, o)
             single == \A r \in Programs \ {p} : ~Busy(r)
             c == [op |-> op, owners |-> owners, vals |-> vals, unscoped |-> unscoped,
                   old |-> All(fk[p], Range(owners)), todo |-> Plan(op, owners, clear, drop),
                   result |-> "none", before |-> links, true |-> ok, alone |-> single,
                   ever |-> IF op = "preload" THEN links ELSE {},
                   always |-> IF op = "preload" THEN Sound(rows, links) ELSE {}]
  <1>3. /\ op \in Ops /\ owners \in Seq(Owners) /\ kind \in Kinds /\ links \in Links
        /\ mem \in [Programs -> Fields] /\ fk \in [Programs -> Fields]
        /\ Range(owners) \subseteq Owners
    BY SavesAre DEF TypeOK
  <1>4. /\ vals \in [Range(owners) -> SUBSET Others]
        /\ op = "delete" => \A o, u \in Range(owners) : vals[o] = vals[u]
        /\ op = "replace" => (\A o \in Range(owners) : vals[o] # {}) \/ (\A o \in Range(owners) : vals[o] = {})
        /\ kind = "belongs_to" /\ op \in {"append", "replace", "set_create"} =>
             \A o \in Range(owners) : \A x, y \in vals[o] : x = y
    BY <1>3, ValuesAre
  <1>5. unscoped \in BOOLEAN
    BY DEF Unscopes
  <1>6. clear <=> \A o \in Range(owners) : vals[o] = {}
    BY <1>4 DEF All
  <1>7. All(fk[p], Range(owners)) \subseteq Others
    <2>1. fk[p] \in Fields
      BY <1>3
    <2> QED BY <1>3, <2>1 DEF All, Fields
  <1>8. call' = [q \in Programs |-> IF q = p THEN c
                                    ELSE IF Busy(q) THEN [call[q] EXCEPT !.alone = FALSE] ELSE NoCall]
    BY <1>2 DEF Makes
  <1>9. /\ clear \in BOOLEAN /\ drop \in BOOLEAN /\ ok \in BOOLEAN /\ single \in BOOLEAN
        /\ (IF op = "preload" THEN links ELSE {}) \in Links
        /\ (IF op = "preload" THEN Sound(rows, links) ELSE {}) \in Links
    BY <1>3, <1>5 DEF Links, Sound
  <1>10. /\ c.op = op /\ c.owners = owners /\ c.vals = vals /\ c.unscoped = unscoped
         /\ c.todo = Plan(op, owners, clear, drop) /\ c.result = "none" /\ c.before = links
         /\ c.true = ok /\ c.alone = single
         /\ c.ever = (IF op = "preload" THEN links ELSE {})
         /\ c.always = (IF op = "preload" THEN Sound(rows, links) ELSE {})
    OBVIOUS
  <1> HIDE DEF clear, drop, ok, single
  <1>11. Plan(op, owners, clear, drop) \in Seq(Statements)
    <2>1. (clear => \A o \in Range(owners) : vals[o] = {}) /\ (drop => unscoped)
      BY <1>6 DEF drop
    <2> QED BY ZenonT(60), <1>3, <1>9, <1>10, <2>1, PlanFits
  <1>12. c \in CallType
    <2>1. vals \in UNION {[S -> SUBSET Others] : S \in SUBSET Owners}
      BY <1>3, <1>4
    <2> QED BY <1>3, <1>5, <1>7, <1>9, <1>11, <2>1 DEF CallType
  <1> HIDE DEF c
  <1>13. call' \in [Programs -> CallType]
    <2>1. \A q \in Programs : [call[q] EXCEPT !.alone = FALSE] \in CallType
      BY ZenonT(60) DEF TypeOK, CallType
    <2> QED BY <1>8, <1>12, <2>1, EmptyCall
  <1>14. /\ Cleared(p, op, owners, vals).mem
              = [o \in Owners |-> IF op = "replace" /\ clear /\ o \in Range(owners) THEN {} ELSE mem[p][o]]
         /\ Cleared(p, op, owners, vals).fk
              = [o \in Owners |-> IF op = "replace" /\ clear /\ o \in Range(owners) THEN {} ELSE fk[p][o]]
    <2>1. mem[p] \in Fields /\ fk[p] \in Fields
      BY <1>3
    <2>2. CASE op = "replace" /\ clear
      BY <1>6, <2>2 DEF Cleared
    <2>3. CASE ~(op = "replace" /\ clear)
      <3>1. /\ mem[p] = [o \in Owners |-> mem[p][o]]
            /\ fk[p] = [o \in Owners |-> fk[p][o]]
        BY <2>1 DEF Fields
      <3> QED BY <1>6, <2>3, <3>1 DEF Cleared
    <2> QED BY <2>2, <2>3
  <1>15. /\ mem' \in [Programs -> Fields] /\ fk' \in [Programs -> Fields]
         /\ mem'[p] = [o \in Owners |-> IF op = "replace" /\ clear /\ o \in Range(owners) THEN {} ELSE mem[p][o]]
         /\ fk'[p] = [o \in Owners |-> IF op = "replace" /\ clear /\ o \in Range(owners) THEN {} ELSE fk[p][o]]
         /\ \A q \in Programs \ {p} : mem'[q] = mem[q] /\ fk'[q] = fk[q]
    <2>1. Cleared(p, op, owners, vals).mem \in Fields /\ Cleared(p, op, owners, vals).fk \in Fields
      <3>1. mem[p] \in Fields /\ fk[p] \in Fields
        BY <1>3
      <3> QED BY <1>14, <3>1 DEF Fields
    <2> QED BY <1>2, <1>3, <1>14, <2>1 DEF Makes
  <1>16. \E cl, dr \in BOOLEAN :
            /\ c.todo = Plan(c.op, c.owners, cl, dr)
            /\ dr => c.unscoped
            /\ cl => \A o \in Range(c.owners) : c.vals[o] = {}
            /\ c.op = "replace" /\ ~cl => \A o \in Range(c.owners) : c.vals[o] # {}
            /\ c.op = "replace" /\ cl => \A o \in Range(c.owners) : mem'[p][o] = {} /\ fk'[p][o] = {}
            /\ ~(c.op = "replace" /\ cl) => \A o \in Range(c.owners) : mem'[p][o] = mem[p][o] /\ fk'[p][o] = fk[p][o]
    <2>1. drop => unscoped
      BY DEF drop
    <2> QED BY <1>3, <1>4, <1>6, <1>9, <1>10, <1>15, <2>1
  <1>17. Begun(p, c)
    <2>1. call'[p] = c
      BY <1>8
    <2>2. (ok => \A o \in Range(owners) : Agrees(p, o)) /\ (single => \A r \in Programs \ {p} : ~Busy(r))
      BY DEF ok, single
    <2> QED BY <1>3, <1>4, <1>10, <1>12, <1>16, <2>1, <2>2 DEF Begun
  <1>18. UNCHANGED <<kind, rows, links, joins, faults>>
    BY DEF Start
  <1> QED BY <1>8, <1>12, <1>13, <1>15, <1>17, <1>18

\* What a statement leaves is tables and fields.
LEMMA EffectType ==
    ASSUME ShapeInv, NEW p \in Programs, NEW s \in Ahead(p), s \in Statements, s[1] # "refused"
    PROVE  /\ Effect(p, s).rows \subseteq Others /\ Effect(p, s).links \in Links
           /\ Effect(p, s).mem \in Fields /\ Effect(p, s).fk \in Fields
  <1>1. /\ rows \subseteq Others /\ links \in Links /\ mem[p] \in Fields /\ fk[p] \in Fields
        /\ \A o \in Owners : Linked(o) \subseteq Others
    BY DEF ShapeInv, TypeOK, Linked
  <1>2. \A a \in SUBSET Others, b \in Links : /\ After(p, a, b).rows \subseteq Others /\ After(p, a, b).links \in Links
                                              /\ After(p, a, b).mem \in Fields /\ After(p, a, b).fk \in Fields
    BY <1>1 DEF After
  <1>3. \A a, b : links \ b \in Links /\ rows \ a \subseteq Others
    BY <1>1 DEF Links
  <1>4. IsOf(kind, call[p], s)
    BY DEF ShapeInv, Planned, WellFormed, Fits, Ahead
  <1>5. CASE s[1] = "save"
    <2>1. s[2] \in Holds(p) /\ s[2] \in Owners
      <3>1. s[2] \in Range(call[p].owners) /\ call[p].owners \in Seq(Owners)
        BY <1>4, <1>5 DEF IsOf, ShapeInv, TypeOK, CallType
      <3> QED BY <3>1, SavesAre DEF Holds
    <2>2. InField(p, s[2]) \subseteq Others
      <3>1. DOMAIN call[p].vals = Holds(p) /\ call[p] \in CallType
        BY DEF ShapeInv, TypeOK, Planned, WellFormed, Holds
      <3>2. call[p].vals[s[2]] \subseteq Others
        <4>1. PICK S \in SUBSET Owners : call[p].vals \in [S -> SUBSET Others]
          BY <3>1 DEF CallType
        <4> QED BY <2>1, <3>1, <4>1
      <3>3. mem[p][s[2]] \subseteq Others
        BY <1>1, <2>1 DEF Fields
      <3> QED BY <3>2, <3>3 DEF InField
    <2>3. /\ Save(p, s[2]).rows \subseteq Others /\ Save(p, s[2]).links \in Links
          /\ Save(p, s[2]).mem \in Fields /\ Save(p, s[2]).fk \in Fields
      BY <1>1, <2>1, <2>2 DEF Save, Links, Fields
    <2> QED BY <1>5, <2>3 DEF Effect
  <1>6. CASE s[1] = "unlink_rest"
    BY <1>1, <1>2, <1>3, <1>6 DEF Effect, UnlinkRest
  <1>7. CASE s[1] = "null_keys"
    <2>1. {l \in links : l[1] \notin Holds(p)} \in Links
      BY <1>1 DEF Links
    <2> QED BY <1>1, <1>2, <1>7, <2>1 DEF Effect, NullKeys
  <1>8. CASE s[1] = "delete_old"
    BY <1>1, <1>2, <1>3, <1>8 DEF Effect, DeleteOld
  <1>9. CASE s[1] = "unlink"
    BY <1>1, <1>2, <1>3, <1>9 DEF Effect, Unlink
  <1>10. CASE s[1] = "find"
    BY <1>1, <1>10 DEF Effect, FindOwners, Fields
  <1>11. CASE s[1] = "joins"
    BY <1>1, <1>2, <1>11 DEF Effect
  <1>12. CASE s[1] = "targets"
    BY <1>1, <1>12 DEF Effect, Targets, Fields
  <1>13. CASE s[1] = "set_unlink"
    BY <1>1, <1>2, <1>3, <1>13 DEF Effect, SetUnlink
  <1>14. CASE s[1] = "set_delete"
    <2>1. \A P : {l \in links : l[1] \notin P} \in Links /\ {l \in links : l[2] \notin P} \in Links
      BY <1>1 DEF Links
    <2> QED BY <1>1, <1>2, <1>3, <1>14, <2>1 DEF Effect, SetDelete, SetUnlink
  <1>15. s[1] \in {"save", "unlink_rest", "null_keys", "delete_old", "unlink", "find",
                     "joins", "targets", "set_unlink", "set_delete"}
    BY DEF Statements, Tags
  <1> QED BY <1>5, <1>6, <1>7, <1>8, <1>9, <1>10, <1>11, <1>12, <1>13, <1>14, <1>15

\* What the statement at the head of p's call leaves.
Outcome(p) ==
    LET e == Effect(p, Head(call[p].todo))
    IN IF call[p].op = "delete" /\ Tail(call[p].todo) = <<>> THEN CleanUp(p, e) ELSE e

\* Of a Preload's ghosts: d is c after the tables were seen as rs and ls.
Looks(c, d, rs, ls) ==
    /\ d.ever = IF c.op = "preload" /\ c.todo # <<>> THEN c.ever \cup ls ELSE c.ever
    /\ d.always = IF c.op = "preload" /\ c.todo # <<>> THEN c.always \cap Sound(rs, ls) ELSE c.always

LEMMA HeadIs ==
    ASSUME ShapeInv, NEW p \in Programs, Busy(p)
    PROVE  LET s == Head(call[p].todo) rest == Tail(call[p].todo)
           IN /\ s \in Ahead(p) /\ s \in Statements /\ IsOf(kind, call[p], s)
              /\ rest \in Seq(Statements) /\ Range(rest) \subseteq Ahead(p) /\ rest # call[p].todo
              /\ \A x \in Ahead(p) : x = s \/ x \in Range(rest)
              /\ rest = <<>> <=> Len(call[p].todo) = 1
              /\ call[p].result = "none" /\ call[p].op \in Ops
              /\ call[p].todo \in Seq(Statements)
  <1>1. call[p].todo \in Seq(Statements) /\ call[p].todo # <<>> /\ call[p].op \in Ops \cup {"none"}
    BY DEF ShapeInv, TypeOK, CallType, Busy
  <1>2. Head(call[p].todo) \in Ahead(p) => IsOf(kind, call[p], Head(call[p].todo))
    BY DEF ShapeInv, Planned, WellFormed, Fits, Ahead
  <1>3. call[p].result = "none" /\ call[p].op # "none"
    BY DEF ShapeInv, Planned, WellFormed, Busy
  <1> QED BY <1>1, <1>2, <1>3, HeadTail DEF Ahead

LEMMA ObservedIs ==
    ASSUME NEW c \in CallType, rows' \subseteq Others, links' \in Links
    PROVE  /\ Observed(c) \in CallType /\ Keeps(c, Observed(c)) /\ Looks(c, Observed(c), rows', links')
           /\ Observed(c).todo = c.todo /\ Observed(c).result = c.result /\ Observed(c).old = c.old
  <1>1. Sound(rows', links') \in Links
    BY DEF Sound, Links
  <1> DEFINE s == Sound(rows', links')
             d == [c EXCEPT !.ever = @ \cup links', !.always = @ \cap s]
  <1>2. /\ d.op = c.op /\ d.owners = c.owners /\ d.vals = c.vals /\ d.unscoped = c.unscoped
        /\ d.before = c.before /\ d.true = c.true /\ d.alone = c.alone /\ d.todo = c.todo
        /\ d.result = c.result /\ d.old = c.old
        /\ d.ever = c.ever \cup links' /\ d.always = c.always \cap s
    BY DEF CallType
  <1>3. d \in CallType
    <2>1. c.ever \cup links' \in Links /\ c.always \cap s \in Links
      BY <1>1 DEF CallType, Links
    <2> HIDE DEF s
    <2> QED BY <2>1 DEF CallType
  <1>4. Observed(c) = IF c.op = "preload" /\ c.todo # <<>> THEN d ELSE c
    BY DEF Observed
  <1> HIDE DEF d
  <1> QED BY <1>2, <1>3, <1>4 DEF Keeps, Looks

LEMMA ExecDoes ==
    ASSUME ShapeInv, NEW p \in Programs, Exec(p)
    PROVE  /\ Busy(p) /\ Head(call[p].todo)[1] # "refused"
           /\ rows' = Outcome(p).rows /\ links' = Outcome(p).links /\ rows' \subseteq Others /\ links' \in Links
           /\ mem'[p] = Outcome(p).mem /\ fk'[p] = Outcome(p).fk
           /\ joins'[p] = IF Head(call[p].todo)[1] = "joins" THEN links ELSE {}
           /\ mem' \in [Programs -> Fields] /\ fk' \in [Programs -> Fields] /\ joins' \in [Programs -> Links]
           /\ call' \in [Programs -> CallType]
           /\ kind' = kind /\ faults' = faults
           /\ Keeps(call[p], call'[p]) /\ Looks(call[p], call'[p], rows', links')
           /\ call'[p].todo = Tail(call[p].todo)
           /\ call'[p].result = IF Tail(call[p].todo) = <<>> THEN "nil" ELSE "none"
           /\ \A q \in Programs \ {p} :
                /\ mem'[q] = mem[q] /\ fk'[q] = fk[q] /\ joins'[q] = joins[q]
                /\ Keeps(call[q], call'[q]) /\ Looks(call[q], call'[q], rows', links')
                /\ call'[q].todo = call[q].todo /\ call'[q].result = call[q].result
  <1> DEFINE s == Head(call[p].todo)
             rest == Tail(call[p].todo)
             e == Outcome(p)
  <1>1. /\ Busy(p) /\ s[1] # "refused" /\ rows' = e.rows /\ links' = e.links
        /\ mem' = [mem EXCEPT ![p] = e.mem] /\ fk' = [fk EXCEPT ![p] = e.fk]
        /\ joins' = [joins EXCEPT ![p] = IF s[1] = "joins" THEN links ELSE {}]
        /\ call' = [q \in Programs |->
              IF q # p THEN Observed(call[q])
              ELSE IF rest # <<>> THEN [Observed(call[p]) EXCEPT !.todo = rest]
              ELSE [Observed(call[p]) EXCEPT !.todo = rest, !.old = {}, !.result = "nil"]]
        /\ UNCHANGED <<kind, calls, faults>>
    BY DEF Exec, Outcome
  <1>2. /\ s \in Ahead(p) /\ s \in Statements /\ rest \in Seq(Statements) /\ call[p].result = "none"
    BY <1>1, HeadIs
  <1>3. e.rows \subseteq Others /\ e.links \in Links /\ e.mem \in Fields /\ e.fk \in Fields
    <2>1. /\ Effect(p, s).rows \subseteq Others /\ Effect(p, s).links \in Links
          /\ Effect(p, s).mem \in Fields /\ Effect(p, s).fk \in Fields
      BY <1>1, <1>2, EffectType
    <2>2. mem[p] \in Fields /\ fk[p] \in Fields
      BY DEF ShapeInv, TypeOK
    <2>3. CASE e = Effect(p, s)
      BY <2>1, <2>3
    <2>4. CASE e = CleanUp(p, Effect(p, s))
      BY <2>1, <2>2, <2>4 DEF CleanUp, Fields
    <2> QED BY <2>3, <2>4 DEF Outcome
  <1>4. /\ mem \in [Programs -> Fields] /\ fk \in [Programs -> Fields] /\ joins \in [Programs -> Links]
        /\ call \in [Programs -> CallType] /\ links \in Links
    BY DEF ShapeInv, TypeOK
  <1> HIDE DEF e, s, rest
  <1>5. \A q \in Programs :
          /\ Observed(call[q]) \in CallType /\ Keeps(call[q], Observed(call[q]))
          /\ Looks(call[q], Observed(call[q]), rows', links')
          /\ Observed(call[q]).todo = call[q].todo /\ Observed(call[q]).result = call[q].result
    BY <1>1, <1>3, <1>4, ObservedIs
  <1>6. /\ mem' \in [Programs -> Fields] /\ fk' \in [Programs -> Fields] /\ joins' \in [Programs -> Links]
        /\ mem'[p] = e.mem /\ fk'[p] = e.fk /\ joins'[p] = IF s[1] = "joins" THEN links ELSE {}
        /\ \A q \in Programs \ {p} : mem'[q] = mem[q] /\ fk'[q] = fk[q] /\ joins'[q] = joins[q]
    <2>1. (IF s[1] = "joins" THEN links ELSE {}) \in Links
      BY <1>4 DEF Links
    <2> QED BY <1>1, <1>3, <1>4, <2>1
  <1> DEFINE c == Observed(call[p])
             d == IF rest # <<>> THEN [c EXCEPT !.todo = rest]
                  ELSE [c EXCEPT !.todo = rest, !.old = {}, !.result = "nil"]
  <1>7. /\ d \in CallType /\ Keeps(c, d) /\ d.ever = c.ever /\ d.always = c.always
        /\ d.todo = rest /\ d.result = IF rest = <<>> THEN "nil" ELSE c.result
    <2>1. c \in CallType
      BY <1>5
    <2> HIDE DEF c
    <2> QED BY <1>2, <2>1 DEF CallType, Keeps
  <1>8. call'[p] = d /\ \A q \in Programs \ {p} : call'[q] = Observed(call[q])
    BY <1>1
  <1>9. call' \in [Programs -> CallType]
    BY <1>1, <1>5, <1>7
  <1> HIDE DEF d
  <1>10. Keeps(call[p], d) /\ Looks(call[p], d, rows', links')
    BY <1>5, <1>7 DEF Keeps, Looks
  <1>11. d.result = IF rest = <<>> THEN "nil" ELSE "none"
    BY <1>2, <1>5, <1>7
  <1>12. rows' \subseteq Others /\ links' \in Links
    BY <1>1, <1>3
  <1> QED BY <1>1, <1>5, <1>6, <1>7, <1>8, <1>9, <1>10, <1>11, <1>12 DEF s, rest, e

LEMMA FailDoes ==
    ASSUME ShapeInv, NEW p \in Programs, Fail(p)
    PROVE  LET s == Head(call[p].todo)
           IN /\ Busy(p) /\ UNCHANGED <<kind, rows, links>>
              /\ faults' \in Nat /\ faults <= faults' /\ (s[1] # "refused" => faults' > 0)
              /\ mem' \in [Programs -> Fields] /\ fk' \in [Programs -> Fields] /\ joins' \in [Programs -> Links]
              /\ call' \in [Programs -> CallType]
              /\ Keeps(call[p], call'[p])
              /\ call'[p].ever = call[p].ever /\ call'[p].always = call[p].always
              /\ IF Ends(p, s) THEN call'[p].todo = <<>> /\ call'[p].result = "error"
                 ELSE call'[p].todo = Tail(call[p].todo) /\ call'[p].result = "none"
              /\ s[1] # "save" => mem'[p] = mem[p] /\ fk'[p] = fk[p]
              /\ \A q \in Programs \ {p} :
                   mem'[q] = mem[q] /\ fk'[q] = fk[q] /\ joins'[q] = joins[q] /\ call'[q] = call[q]
  <1> DEFINE s == Head(call[p].todo)
             rest == Tail(call[p].todo)
  <1>1. /\ Busy(p) /\ UNCHANGED <<kind, rows, links>>
        /\ IF s[1] = "refused" THEN UNCHANGED faults ELSE faults < MaxFaults /\ faults' = faults + 1
        /\ IF s[1] = "save"
           THEN /\ mem' = [mem EXCEPT ![p] = Save(p, s[2]).mem]
                /\ fk' \in {fk, [fk EXCEPT ![p] = Save(p, s[2]).fk]}
           ELSE UNCHANGED <<mem, fk>>
        /\ joins' = [joins EXCEPT ![p] = {}]
    BY Zenon DEF Fail
  <1>10. call' = [q \in Programs |->
              IF q # p THEN call[q]
              ELSE IF Ends(p, s) THEN [call[p] EXCEPT !.todo = <<>>, !.old = {}, !.result = "error"]
              ELSE [call[p] EXCEPT !.todo = rest]]
    BY DEF Fail
  <1>2. s \in Ahead(p) /\ s \in Statements /\ rest \in Seq(Statements) /\ call[p].result = "none"
    BY <1>1, HeadIs
  <1>3. s[1] = "save" => Save(p, s[2]).mem \in Fields /\ Save(p, s[2]).fk \in Fields
    BY <1>2, EffectType DEF Effect
  <1>4. /\ mem \in [Programs -> Fields] /\ fk \in [Programs -> Fields] /\ joins \in [Programs -> Links]
        /\ call \in [Programs -> CallType] /\ {} \in Links /\ faults \in Nat
    BY DEF ShapeInv, TypeOK, Links
  <1> HIDE DEF s, rest
  <1>5. /\ mem' \in [Programs -> Fields] /\ fk' \in [Programs -> Fields] /\ joins' \in [Programs -> Links]
        /\ s[1] # "save" => mem'[p] = mem[p] /\ fk'[p] = fk[p]
        /\ \A q \in Programs \ {p} : mem'[q] = mem[q] /\ fk'[q] = fk[q] /\ joins'[q] = joins[q]
    BY <1>1, <1>3, <1>4
  <1> DEFINE c == call[p]
             d == IF Ends(p, s) THEN [c EXCEPT !.todo = <<>>, !.old = {}, !.result = "error"]
                  ELSE [c EXCEPT !.todo = rest]
  <1>6. /\ d \in CallType /\ Keeps(c, d) /\ d.ever = c.ever /\ d.always = c.always
        /\ IF Ends(p, s) THEN d.todo = <<>> /\ d.result = "error" ELSE d.todo = rest /\ d.result = c.result
    <2>1. c \in CallType
      BY <1>4
    <2> HIDE DEF c
    <2>2. <<>> \in Seq(Statements) /\ {} \in SUBSET Others
      OBVIOUS
    <2>3. CASE Ends(p, s)
      <3>1. d = [c EXCEPT !.todo = <<>>, !.old = {}, !.result = "error"]
        BY <2>3
      <3> HIDE DEF d
      <3> DEFINE empty == <<>>
      <3>2. d = [c EXCEPT !.todo = empty, !.old = {}, !.result = "error"] /\ empty \in Seq(Statements)
        BY <2>2, <3>1
      <3> HIDE DEF empty
      <3>3. d \in CallType /\ Keeps(c, d) /\ d.ever = c.ever /\ d.always = c.always /\ d.todo = empty /\ d.result = "error"
        BY <2>1, <3>2 DEF CallType, Keeps
      <3> QED BY <2>3, <3>3 DEF empty
    <2>4. CASE ~Ends(p, s)
      BY <1>2, <2>1, <2>4 DEF CallType, Keeps
    <2> QED BY <2>3, <2>4
  <1>7. call'[p] = d /\ \A q \in Programs \ {p} : call'[q] = call[q]
    BY <1>10, <1>4
  <1>8. call' \in [Programs -> CallType]
    BY <1>10, <1>4, <1>6
  <1>9. faults' \in Nat /\ faults <= faults' /\ (s[1] # "refused" => faults' > 0)
    BY <1>1, <1>4
  <1> HIDE DEF d
  <1> QED BY <1>1, <1>2, <1>5, <1>6, <1>7, <1>8, <1>9 DEF s, rest, c

------------------------------------------------------------------------------
(***************************************************************************)
(* The shape of the state is kept.                                         *)
(***************************************************************************)
LEMMA FitsRest ==
    ASSUME NEW k, NEW c, NEW d, Fits(k, c), Keeps(c, d), c.todo \in Seq(Statements),
           d.todo = c.todo \/ d.todo = <<>> \/ (c.todo # <<>> /\ d.todo = Tail(c.todo))
    PROVE  Fits(k, d)
  <1>1. \A s : IsOf(k, c, s) <=> IsOf(k, d, s)
    BY DEF IsOf, Keeps
  <1>2. CASE d.todo = c.todo
    BY <1>1, <1>2 DEF Fits, Keeps
  <1>3. CASE d.todo = <<>>
    BY <1>3 DEF Fits, IsLast, IsFirst, Range
  <1>4. CASE c.todo # <<>> /\ d.todo = Tail(c.todo)
    <2>1. /\ Range(d.todo) \subseteq Range(c.todo)
          /\ Len(c.todo) \in Nat \ {0} /\ Len(d.todo) = Len(c.todo) - 1
      BY <1>4, HeadTail
    <2>2. \A t : (IsLast(t, c.todo) => IsLast(t, d.todo)) /\ (IsFirst(t, c.todo) => IsFirst(t, d.todo))
      BY <1>4, TailPlaces
    <2>3. d.op = "delete" /\ Len(d.todo) > 1 => Len(c.todo) > 1
      BY <2>1
    <2>4. <<"unlink_rest">> \in Range(c.todo) /\ d.todo # <<>> => <<"unlink_rest">> \in Range(d.todo)
      <3>1. \A x \in Range(c.todo) : x = Head(c.todo) \/ x \in Range(d.todo)
        BY <1>4, HeadTail
      <3>2. IsLast("unlink_rest", c.todo) /\ Head(c.todo) = <<"unlink_rest">> => d.todo = <<>>
        BY <1>4, TailPlaces
      <3> QED BY <3>1, <3>2 DEF Fits
    <2> QED BY <1>1, <1>4, <2>1, <2>2, <2>3, <2>4 DEF Fits, Keeps
  <1> QED BY <1>2, <1>3, <1>4

LEMMA WellFormedRest ==
    ASSUME NEW k, NEW c, NEW d, WellFormed(k, c), Keeps(c, d), c.todo \in Seq(Statements),
           d.todo = c.todo \/ d.todo = <<>> \/ (c.todo # <<>> /\ d.todo = Tail(c.todo)),
           d.todo # <<>> => d.result = "none", c.op = "none" => d.todo = c.todo /\ d.result = c.result
    PROVE  WellFormed(k, d)
  <1>1. Fits(k, d)
    BY FitsRest DEF WellFormed
  <1> QED BY <1>1 DEF WellFormed, Keeps

LEMMA EffectLinks ==
    ASSUME ShapeInv, NEW p \in Programs, NEW s \in Ahead(p), s \in Statements, s[1] # "refused"
    PROVE  /\ IsLinks(kind, Effect(p, s).links)
           /\ s[1] # "save" => Effect(p, s).links \subseteq links
  <1>1. IsLinks(kind, links) /\ links \in Links
    BY DEF ShapeInv, LinksInv, TypeOK
  <1>2. CASE s[1] = "save"
    <2> DEFINE o == s[2]
               field == InField(p, o)
               ls == Effect(p, s).links
    <2> SUFFICES IsLinks(kind, ls)
      BY <1>2
    <2>1. ls = Save(p, o).links
      BY <1>2 DEF Effect
    <2> HIDE DEF ls
    <2>2. CASE kind = "belongs_to"
      <3>1. IsOf(kind, call[p], s) /\ WellFormed(kind, call[p])
        BY DEF ShapeInv, Planned, WellFormed, Fits, Ahead
      <3>2. o \in Range(call[p].owners) /\ call[p].op \in {"append", "replace", "set_create"}
        BY <1>2, <3>1 DEF IsOf
      <3>3. \A x, y \in field : x = y
        BY <2>2, <3>1, <3>2 DEF WellFormed, InField
      <3>4. Save(p, o).links = (links \ ({o} \X Others)) \cup ({o} \X field)
        BY <2>2 DEF Save
      <3> HIDE DEF field
      <3>5. \A l \in ls : \/ l \in links /\ l[1] # o
                      \/ \E x \in field : l = <<o, x>>
        BY <1>1, <2>1, <3>4 DEF Links
      <3> QED BY <1>1, <2>2, <3>3, <3>5 DEF IsLinks
    <2>3. CASE kind = "has"
      <3>1. Save(p, o).links = (links \ (Owners \X field)) \cup ({o} \X field)
        BY <2>3 DEF Save
      <3> HIDE DEF field
      <3>2. \A l \in ls : \/ l \in links /\ l[2] \notin field
                      \/ \E x \in field : l = <<o, x>>
        BY <1>1, <2>1, <3>1 DEF Links
      <3> QED BY <1>1, <2>3, <3>2 DEF IsLinks
    <2>4. CASE kind = "many2many"
      BY <2>4 DEF IsLinks
    <2>5. kind \in {"belongs_to", "has", "many2many"}
      BY DEF ShapeInv, TypeOK
    <2> QED BY <1>2, <2>2, <2>3, <2>4, <2>5
  <1>3. CASE s[1] # "save"
    <2>1. Effect(p, s).links \subseteq links
      <3>1. s[1] \in {"unlink_rest", "null_keys", "delete_old", "unlink", "find",
                      "joins", "targets", "set_unlink", "set_delete"}
        BY <1>3 DEF Statements, Tags
      <3>2. CASE s[1] \in {"unlink_rest", "null_keys"}
        BY <3>2 DEF Effect, UnlinkRest, NullKeys, After
      <3>3. CASE s[1] \in {"delete_old", "unlink"}
        BY <3>3 DEF Effect, DeleteOld, Unlink, After
      <3>4. CASE s[1] \in {"find", "joins", "targets"}
        BY <3>4 DEF Effect, FindOwners, Targets, After
      <3>5. CASE s[1] \in {"set_unlink", "set_delete"}
        BY <3>5 DEF Effect, SetUnlink, SetDelete, After
      <3> QED BY <3>1, <3>2, <3>3, <3>4, <3>5
    <2> QED BY <1>1, <1>3, <2>1 DEF IsLinks
  <1> QED BY <1>2, <1>3

LEMMA OutcomeTables ==
    ASSUME NEW p \in Programs
    PROVE  Outcome(p).rows = Effect(p, Head(call[p].todo)).rows /\ Outcome(p).links = Effect(p, Head(call[p].todo)).links
  BY DEF Outcome, CleanUp

LEMMA ShapeInit == Init => ShapeInv
  <1> SUFFICES ASSUME Init PROVE ShapeInv
    OBVIOUS
  <1>1. TypeOK
    <2>1. [o \in Owners |-> {}] \in Fields /\ [o \in Owners |-> IF kind = "belongs_to" THEN Linked(o) ELSE {}] \in Fields
      BY DEF Fields, Linked
    <2> QED BY <2>1, EmptyCall DEF Init, TypeOK, Links
  <1>2. LinksInv
    BY DEF Init, LinksInv
  <1>3. WellFormed(kind, NoCall)
    BY EmptyCall DEF WellFormed, Fits, IsLast, IsFirst, IsLinks, Range
  <1> QED BY <1>1, <1>2, <1>3 DEF Init, ShapeInv, Planned

LEMMA StartShape ==
    ASSUME ShapeInv, NEW p \in Programs, Start(p)
    PROVE  ShapeInv'
  <1>1. PICK c \in CallType : Begun(p, c)
    BY StartDoes DEF ShapeInv
  <1>2. /\ UNCHANGED <<kind, rows, links, joins, faults>>
        /\ mem' \in [Programs -> Fields] /\ fk' \in [Programs -> Fields]
        /\ call' \in [Programs -> CallType]
        /\ \A q \in Programs \ {p} :
             call'[q] = IF Busy(q) THEN [call[q] EXCEPT !.alone = FALSE] ELSE NoCall
    BY StartDoes DEF ShapeInv
  <1>3. TypeOK' /\ LinksInv'
    BY <1>2 DEF ShapeInv, TypeOK, LinksInv
  <1>4. WellFormed(kind, c)
    <2>1. PICK clear, drop \in BOOLEAN : /\ c.todo = Plan(c.op, c.owners, clear, drop)
                                         /\ drop => c.unscoped
                                         /\ clear => \A o \in Range(c.owners) : c.vals[o] = {}
      BY <1>1 DEF Begun
    <2>2. c.owners \in Seq(Owners) /\ kind \in Kinds /\ c.op \in Ops
      BY <1>1 DEF Begun, CallType, ShapeInv, TypeOK
    <2>3. Fits(kind, c)
      BY <2>1, <2>2, PlanFits
    <2>4. /\ c.op \in Calls[kind] /\ c.op # "none" /\ c.result = "none" /\ DOMAIN c.vals = Range(c.owners)
          /\ c.before = links
          /\ c.op = "delete" => \A o, u \in Range(c.owners) : c.vals[o] = c.vals[u]
          /\ kind = "belongs_to" /\ c.op \in {"append", "replace", "set_create"} =>
               \A o \in Range(c.owners) : \A x, y \in c.vals[o] : x = y
      BY <1>1 DEF Begun, Ops
    <2> QED BY <2>3, <2>4 DEF WellFormed, ShapeInv, LinksInv
  <1>5. ASSUME NEW q \in Programs \ {p} PROVE WellFormed(kind, call'[q])
    <2>1. CASE Busy(q)
      <3>1. call'[q] = [call[q] EXCEPT !.alone = FALSE] /\ call[q] \in CallType
        BY <1>2, <2>1 DEF ShapeInv, TypeOK
      <3> DEFINE c0 == call[q]
                 d == call'[q]
      <3> HIDE DEF c0, d
      <3>2. d = [c0 EXCEPT !.alone = FALSE] /\ c0 \in CallType
        BY <3>1 DEF c0, d
      <3>3. /\ d.op = c0.op /\ d.owners = c0.owners /\ d.vals = c0.vals /\ d.unscoped = c0.unscoped
            /\ d.before = c0.before /\ d.todo = c0.todo /\ d.result = c0.result
        BY <3>2 DEF CallType
      <3>4. WellFormed(kind, c0)
        BY DEF ShapeInv, Planned, c0
      <3>5. \A s : IsOf(kind, c0, s) <=> IsOf(kind, d, s)
        BY <3>3 DEF IsOf
      <3>6. Fits(kind, d)
        BY <3>3, <3>4, <3>5 DEF WellFormed, Fits
      <3>7. WellFormed(kind, d)
        BY <3>3, <3>4, <3>6 DEF WellFormed
      <3> QED BY <3>7 DEF d
    <2>2. CASE ~Busy(q)
      <3>1. call'[q] = NoCall
        BY <1>2, <2>2
      <3>2. WellFormed(kind, NoCall)
        BY EmptyCall DEF WellFormed, Fits, IsLast, IsFirst, IsLinks, Range
      <3> QED BY <3>1, <3>2
    <2> QED BY <2>1, <2>2
  <1>6. \A q \in Programs : WellFormed(kind', call'[q])
    BY <1>1, <1>2, <1>4, <1>5 DEF Begun
  <1> QED BY <1>3, <1>6 DEF ShapeInv, Planned

LEMMA ExecShape ==
    ASSUME ShapeInv, NEW p \in Programs, Exec(p)
    PROVE  ShapeInv'
  <1>1. /\ Head(call[p].todo) \in Ahead(p) /\ Head(call[p].todo) \in Statements /\ Head(call[p].todo)[1] # "refused"
        /\ Busy(p) /\ call[p].op \in Ops
    BY HeadIs, ExecDoes
  <1>2. TypeOK'
    BY ExecDoes DEF ShapeInv, TypeOK
  <1>3. LinksInv'
    <2>1. IsLinks(kind, Outcome(p).links)
      BY <1>1, EffectLinks, OutcomeTables
    <2>2. links' = Outcome(p).links /\ kind' = kind
      BY ExecDoes
    <2> QED BY <2>1, <2>2 DEF LinksInv
  <1>4. \A q \in Programs : WellFormed(kind, call[q]) /\ call[q].todo \in Seq(Statements)
    BY DEF ShapeInv, Planned, TypeOK, CallType
  <1>5. WellFormed(kind, call'[p])
    <2>1. /\ Keeps(call[p], call'[p]) /\ call'[p].todo = Tail(call[p].todo)
          /\ call'[p].result = IF Tail(call[p].todo) = <<>> THEN "nil" ELSE "none"
      BY ExecDoes
    <2>2. call[p].todo # <<>> /\ call[p].op # "none"
      BY <1>1 DEF Busy, Ops
    <2> QED BY <1>4, <2>1, <2>2, WellFormedRest
  <1>6. ASSUME NEW q \in Programs \ {p} PROVE WellFormed(kind, call'[q])
    <2>1. Keeps(call[q], call'[q]) /\ call'[q].todo = call[q].todo /\ call'[q].result = call[q].result
      BY ExecDoes
    <2>2. call[q].todo # <<>> => call[q].result = "none"
      BY <1>4 DEF WellFormed
    <2> QED BY <1>4, <2>1, <2>2, WellFormedRest
  <1>7. \A q \in Programs : WellFormed(kind', call'[q])
    BY <1>5, <1>6, ExecDoes
  <1> QED BY <1>2, <1>3, <1>7 DEF ShapeInv, Planned

LEMMA FailShape ==
    ASSUME ShapeInv, NEW p \in Programs, Fail(p)
    PROVE  ShapeInv'
  <1>1. Busy(p) /\ call[p].op \in Ops
    BY HeadIs, FailDoes
  <1>2. TypeOK' /\ LinksInv'
    BY FailDoes DEF ShapeInv, TypeOK, LinksInv
  <1>3. WellFormed(kind, call'[p])
    <2>1. WellFormed(kind, call[p]) /\ call[p].todo \in Seq(Statements)
      BY DEF ShapeInv, Planned, TypeOK, CallType
    <2>2. call[p].todo # <<>> /\ call[p].op # "none"
      BY <1>1 DEF Busy, Ops
    <2>3. Keeps(call[p], call'[p])
      BY FailDoes
    <2>4. \/ call'[p].todo = <<>>
          \/ call'[p].todo = Tail(call[p].todo) /\ call'[p].result = "none"
      BY FailDoes
    <2> QED BY <2>1, <2>2, <2>3, <2>4, WellFormedRest
  <1>4. \A q \in Programs : WellFormed(kind', call'[q])
    BY <1>3, FailDoes DEF ShapeInv, Planned
  <1> QED BY <1>2, <1>4 DEF ShapeInv, Planned

LEMMA ShapeNext == ShapeInv /\ [Next]_vars => ShapeInv'
  <1> SUFFICES ASSUME ShapeInv, [Next]_vars PROVE ShapeInv'
    OBVIOUS
  <1>1. CASE Next
    BY <1>1, StartShape, ExecShape, FailShape DEF Next
  <1>2. CASE UNCHANGED vars
    <2>1. UNCHANGED <<kind, rows, links, mem, fk, call, joins, faults>>
      BY <1>2 DEF vars
    <2>2. TypeOK' /\ LinksInv'
      BY <2>1 DEF ShapeInv, TypeOK, LinksInv
    <2> QED BY <2>1, <2>2 DEF ShapeInv, Planned
  <1> QED BY <1>1, <1>2

------------------------------------------------------------------------------
(***************************************************************************)
(* Whose links an operation takes away.                                    *)
(***************************************************************************)
LEMMA TakesFrom ==
    ASSUME SetKeepsOwners, ShapeInv, NEW p \in Programs, NEW s \in Ahead(p), s \in Statements, s[1] # "refused",
           NEW l \in links, l \notin Effect(p, s).links
    PROVE  \/ l[1] \in Holds(p)
           \/ s[1] = "save" /\ kind = "has" /\ l[2] \in All(Effect(p, s).mem, Holds(p))
  <1>1. IsOf(kind, call[p], s) /\ links \in Links /\ kind \in Kinds /\ IsLinks(kind, links)
        /\ call[p].op \in Calls[kind] \cup {"none"} /\ mem[p] \in Fields /\ call[p].owners \in Seq(Owners)
    BY DEF ShapeInv, LinksInv, Planned, WellFormed, Fits, Ahead, TypeOK, CallType
  <1>2. Holds(p) \subseteq Owners
    BY <1>1, SavesAre DEF Holds
  <1>3. s[1] \in {"save", "unlink_rest", "null_keys", "delete_old", "unlink", "find",
                  "joins", "targets", "set_unlink", "set_delete"}
    BY DEF Statements, Tags
  <1>4. CASE s[1] = "save"
    <2> DEFINE o == s[2]
               field == InField(p, o)
    <2>1. o \in Holds(p) /\ o \in Owners
      BY <1>1, <1>2, <1>4 DEF IsOf, Holds
    <2>2. /\ Effect(p, s).links = Save(p, o).links
          /\ Effect(p, s).mem = [mem[p] EXCEPT ![o] = field]
      BY <1>4 DEF Effect, Save
    <2> HIDE DEF field
    <2>3. CASE kind = "belongs_to"
      <3>1. Save(p, o).links = (links \ ({o} \X Others)) \cup ({o} \X field)
        BY <2>3 DEF Save, field
      <3>2. l \in {o} \X Others
        BY <2>2, <3>1
      <3> QED BY <2>1, <3>2
    <2>4. CASE kind = "has"
      <3>1. Save(p, o).links = (links \ (Owners \X field)) \cup ({o} \X field)
        BY <2>4 DEF Save, field
      <3>2. l[2] \in field
        BY <2>2, <3>1
      <3>3. Effect(p, s).mem[o] = field
        BY <1>1, <2>1, <2>2 DEF Fields
      <3> QED BY <1>4, <2>1, <2>4, <3>2, <3>3 DEF All
    <2>5. CASE kind \notin {"belongs_to", "has"}
      <3>1. Save(p, o).links = (links \ {}) \cup ({o} \X field)
        BY <2>5 DEF Save, field
      <3> QED BY <2>2, <3>1
    <2> QED BY <2>3, <2>4, <2>5
  <1>5. CASE s[1] \in {"unlink_rest", "null_keys"}
    BY <1>5 DEF Effect, UnlinkRest, NullKeys, After
  <1>6. CASE s[1] \in {"delete_old", "unlink"}
    BY <1>6 DEF Effect, DeleteOld, Unlink, After
  <1>7. CASE s[1] \in {"find", "joins", "targets"}
    BY <1>7 DEF Effect, FindOwners, Targets, After
  <1>8. CASE s[1] \in {"set_unlink", "set_delete"}
    <2>1. call[p].op = s[1]
      BY <1>1, <1>8 DEF IsOf
    <2>2. kind # "many2many"
      BY <1>1, <1>8, <2>1 DEF SetKeepsOwners
    <2>3. kind = "has" \/ kind = "belongs_to"
      BY <1>1, <2>2
    <2>4. CASE s[1] = "set_unlink"
      BY <2>3, <2>4 DEF Effect, SetUnlink, After
    <2>5. CASE s[1] = "set_delete"
      <3>1. CASE kind = "belongs_to"
        BY <2>5, <3>1 DEF Effect, SetDelete, After
      <3>2. CASE kind = "has"
        <4>1. \E k \in links : k[1] \in Holds(p) /\ k[2] = l[2]
          BY <2>5, <3>2 DEF Effect, SetDelete, After
        <4> QED BY <1>1, <3>2, <4>1 DEF IsLinks
      <3> QED BY <2>3, <3>1, <3>2
    <2> QED BY <1>8, <2>4, <2>5
  <1> QED BY <1>3, <1>4, <1>5, <1>6, <1>7, <1>8

\* An operation takes away no link of an owner it was not called on, but that of a
\* record of a has-many it gives to one of its own: the WHERE of association.go:128-194
\* and 250-307 and of generics.go:811-845 names the owners, for any number of programs.
THEOREM OwnersOnly == ASSUME SetKeepsOwners PROVE Spec => OthersUntouched
  <1> DEFINE A == \A l \in links \ links' : \E p \in Programs :
                    /\ call'[p] # call[p]
                    /\ \/ l[1] \in Holds(p)
                       \/ kind = "has" /\ l[2] \in All(mem'[p], Holds(p))
  <1>1. ShapeInv /\ [Next]_vars => [A]_vars
    <2> SUFFICES ASSUME ShapeInv, Next PROVE A
      BY Zenon
    <2>1. PICK p \in Programs : Start(p) \/ Exec(p) \/ Fail(p)
      BY DEF Next
    <2>2. CASE Start(p) \/ Fail(p)
      <3>1. links' = links
        BY <2>2 DEF Start, Fail
      <3> QED BY <3>1
    <2>3. CASE Exec(p)
      <3> DEFINE s == Head(call[p].todo)
      <3>1. /\ Busy(p) /\ s[1] # "refused" /\ links' = Outcome(p).links /\ mem'[p] = Outcome(p).mem
            /\ call'[p].todo = Tail(call[p].todo)
        BY <2>3, ExecDoes
      <3>2. /\ s \in Ahead(p) /\ s \in Statements /\ IsOf(kind, call[p], s)
            /\ Tail(call[p].todo) # call[p].todo
        BY <3>1, HeadIs
      <3> HIDE DEF s
      <3>3. call'[p] # call[p]
        BY <3>1, <3>2
      <3>4. Outcome(p).links = Effect(p, s).links
        BY OutcomeTables DEF s
      <3>5. s[1] = "save" => Outcome(p).mem = Effect(p, s).mem
        <4>1. s[1] = "save" => call[p].op # "delete"
          BY <3>2 DEF IsOf
        <4> QED BY <4>1 DEF Outcome, s
      <3>6. \A l \in links \ links' : \/ l[1] \in Holds(p)
                                      \/ kind = "has" /\ l[2] \in All(mem'[p], Holds(p))
        <4> SUFFICES ASSUME NEW l \in links, l \notin links'
                     PROVE  l[1] \in Holds(p) \/ (kind = "has" /\ l[2] \in All(mem'[p], Holds(p)))
          OBVIOUS
        <4>1. l \notin Effect(p, s).links
          BY <3>1, <3>4
        <4>2. \/ l[1] \in Holds(p)
              \/ s[1] = "save" /\ kind = "has" /\ l[2] \in All(Effect(p, s).mem, Holds(p))
          BY <3>1, <3>2, <4>1, TakesFrom
        <4> QED BY <3>1, <3>5, <4>2
      <3> QED BY <3>3, <3>6
    <2> QED BY <2>1, <2>2, <2>3
  <1> QED BY <1>1, ShapeInit, ShapeNext, PTL DEF Spec, OthersUntouched

------------------------------------------------------------------------------
(***************************************************************************)
(* Preload reads what was there.                                           *)
(***************************************************************************)
\* The other programs' Preloads see the tables change.
LEMMA ReadsLater ==
    ASSUME NEW k, NEW rs, NEW ls, NEW c, NEW f, NEW j, NEW m, ReadsAs(k, rs, ls, c, f, j, m),
           NEW rs2, NEW ls2, NEW d, Keeps(c, d), Looks(c, d, rs2, ls2), d.todo = c.todo, d.result = c.result
    PROVE  ReadsAs(k, rs2, ls2, d, f, j, m)
  <1> SUFFICES ASSUME d.op = "preload" PROVE ReadsAs(k, rs2, ls2, d, f, j, m)
    BY DEF ReadsAs
  <1>1. c.op = "preload" /\ d.owners = c.owners
    BY DEF Keeps
  <1>2. CASE c.todo = <<>>
    <2>1. d.ever = c.ever /\ d.always = c.always
      BY <1>1, <1>2 DEF Looks
    <2> QED BY <1>1, <1>2, <2>1 DEF ReadsAs
  <1>3. CASE c.todo # <<>>
    <2>1. d.ever = c.ever \cup ls2 /\ d.always = c.always \cap Sound(rs2, ls2)
      BY <1>1, <1>3 DEF Looks
    <2> QED BY <1>1, <1>3, <2>1 DEF ReadsAs
  <1> QED BY <1>2, <1>3

LEMMA Steps3 ==
    LET a == <<"find">> b == <<"joins">> c == <<"targets">>
    IN /\ Head(<<a, b, c>>) = a /\ Tail(<<a, b, c>>) = <<b, c>>
       /\ Head(<<b, c>>) = b /\ Tail(<<b, c>>) = <<c>>
       /\ Head(<<a, c>>) = a /\ Tail(<<a, c>>) = <<c>>
       /\ Head(<<c>>) = c /\ Tail(<<c>>) = <<>>
       /\ a[1] = "find" /\ b[1] = "joins" /\ c[1] = "targets"
       /\ <<a, b, c>> # <<c>> /\ <<b, c>> # <<c>> /\ <<a, c>> # <<c>>
       /\ <<a, b, c>> # <<>> /\ <<b, c>> # <<>> /\ <<a, c>> # <<>> /\ <<c>> # <<>>
  <1> DEFINE a == <<"find">>
             b == <<"joins">>
             c == <<"targets">>
             S == {a, b, c}
  <1>1. a[1] = "find" /\ b[1] = "joins" /\ c[1] = "targets"
    OBVIOUS
  <1> HIDE DEF a, b, c
  <1>2. <<a, b, c>> \in Seq(S) /\ <<b, c>> \in Seq(S) /\ <<a, c>> \in Seq(S) /\ <<c>> \in Seq(S)
    OBVIOUS
  <1>3. /\ Len(<<a, b, c>>) = 3 /\ Len(<<b, c>>) = 2 /\ Len(<<a, c>>) = 2 /\ Len(<<c>>) = 1 /\ Len(<<>>) = 0
    OBVIOUS
  <1>4. <<a, b, c>> # <<c>> /\ <<b, c>> # <<c>> /\ <<a, c>> # <<c>>
    BY <1>3
  <1>5. <<a, b, c>> # <<>> /\ <<b, c>> # <<>> /\ <<a, c>> # <<>> /\ <<c>> # <<>>
    BY <1>3
  <1>6. Head(<<a, b, c>>) = a /\ Head(<<b, c>>) = b /\ Head(<<a, c>>) = a /\ Head(<<c>>) = c
    OBVIOUS
  <1>7. Tail(<<a, b, c>>) = <<b, c>>
    <2>1. /\ Tail(<<a, b, c>>) \in Seq(S) /\ Len(Tail(<<a, b, c>>)) = 2
          /\ Tail(<<a, b, c>>)[1] = b /\ Tail(<<a, b, c>>)[2] = c
      BY <1>2, <1>3
    <2>2. Len(Tail(<<a, b, c>>)) = Len(<<b, c>>)
          /\ \A i \in 1..Len(Tail(<<a, b, c>>)) : Tail(<<a, b, c>>)[i] = <<b, c>>[i]
      BY <2>1
    <2> QED BY <1>2, <2>1, <2>2, SeqEqual
  <1>8. Tail(<<b, c>>) = <<c>> /\ Tail(<<a, c>>) = <<c>>
    <2>1. /\ Tail(<<b, c>>) \in Seq(S) /\ Len(Tail(<<b, c>>)) = 1 /\ Tail(<<b, c>>)[1] = c
          /\ Tail(<<a, c>>) \in Seq(S) /\ Len(Tail(<<a, c>>)) = 1 /\ Tail(<<a, c>>)[1] = c
      BY <1>2, <1>3
    <2>2. /\ Len(Tail(<<b, c>>)) = Len(<<c>>) /\ \A i \in 1..Len(Tail(<<b, c>>)) : Tail(<<b, c>>)[i] = <<c>>[i]
          /\ Len(Tail(<<a, c>>)) = Len(<<c>>) /\ \A i \in 1..Len(Tail(<<a, c>>)) : Tail(<<a, c>>)[i] = <<c>>[i]
      BY <2>1
    <2> QED BY <1>2, <2>1, <2>2, SeqEqual
  <1>9. Tail(<<c>>) = <<>>
    BY <1>2, <1>3, HeadTail
  <1> QED BY <1>1, <1>4, <1>5, <1>6, <1>7, <1>8, <1>9 DEF a, b, c

LEMMA ReadsStart ==
    ASSUME ShapeInv, ReadsInv, NEW p \in Programs, Start(p)
    PROVE  ReadsInv'
  <1>1. PICK c \in CallType : Begun(p, c)
    BY StartDoes DEF ShapeInv
  <1>2. /\ UNCHANGED <<kind, rows, links, joins>>
        /\ \A q \in Programs \ {p} :
             /\ mem'[q] = mem[q] /\ fk'[q] = fk[q]
             /\ call'[q] = IF Busy(q) THEN [call[q] EXCEPT !.alone = FALSE] ELSE NoCall
    BY StartDoes DEF ShapeInv
  <1>3. \A f, j, m : ReadsAs(kind, rows, links, c, f, j, m)
    <2> SUFFICES ASSUME c.op = "preload", NEW f, NEW j, NEW m PROVE ReadsAs(kind, rows, links, c, f, j, m)
      BY DEF ReadsAs
    <2>1. PICK clear, drop \in BOOLEAN : /\ c.todo = Plan(c.op, c.owners, clear, drop)
                                         /\ drop => c.unscoped
                                         /\ clear => \A o \in Range(c.owners) : c.vals[o] = {}
      BY <1>1 DEF Begun
    <2>2. c.owners \in Seq(Owners) /\ kind \in Kinds /\ c.op \in Ops
      BY <1>1 DEF Begun, CallType, ShapeInv, TypeOK
    <2>3. c.todo = IF kind = "many2many" THEN <<<<"find">>, <<"joins">>, <<"targets">>>>
                                         ELSE <<<<"find">>, <<"targets">>>>
      BY <2>1, <2>2, PlanFits
    <2>4. c.ever = links /\ c.always = Sound(rows, links) /\ c.result = "none"
      BY <1>1 DEF Begun
    <2>5. c.todo # <<<<"targets">>>>
      BY <2>3, Steps3
    <2> QED BY <2>3, <2>4, <2>5 DEF ReadsAs
  <1>4. ASSUME NEW q \in Programs \ {p}
        PROVE  ReadsAs(kind, rows, links, call'[q], fk[q], joins[q], mem[q])
    <2>1. CASE Busy(q)
      <3> DEFINE c0 == call[q]
                 d == call'[q]
      <3>1. d = [c0 EXCEPT !.alone = FALSE] /\ c0 \in CallType /\ ReadsAs(kind, rows, links, c0, fk[q], joins[q], mem[q])
        BY <1>2, <2>1 DEF ShapeInv, TypeOK, ReadsInv, Reads
      <3> HIDE DEF c0, d
      <3>2. /\ d.op = c0.op /\ d.owners = c0.owners /\ d.todo = c0.todo /\ d.result = c0.result
            /\ d.ever = c0.ever /\ d.always = c0.always
        BY <3>1 DEF CallType
      <3>3. ReadsAs(kind, rows, links, d, fk[q], joins[q], mem[q])
        BY <3>1, <3>2 DEF ReadsAs
      <3> QED BY <3>3 DEF d
    <2>2. CASE ~Busy(q)
      BY <1>2, <2>2, EmptyCall DEF ReadsAs
    <2> QED BY <2>1, <2>2
  <1>5. \A q \in Programs : ReadsAs(kind', rows', links', call'[q], fk'[q], joins'[q], mem'[q])
    BY ZenonT(60), <1>1, <1>2, <1>3, <1>4 DEF Begun
  <1> QED BY <1>5 DEF ReadsInv, Reads

LEMMA ReadsExec ==
    ASSUME ShapeInv, ReadsInv, NEW p \in Programs, Exec(p)
    PROVE  ReadsInv'
  <1> DEFINE c == call[p]
             d == call'[p]
             s == Head(c.todo)
  <1>1. ASSUME NEW q \in Programs \ {p}
        PROVE  ReadsAs(kind', rows', links', call'[q], fk'[q], joins'[q], mem'[q])
    <2>1. /\ mem'[q] = mem[q] /\ fk'[q] = fk[q] /\ joins'[q] = joins[q] /\ kind' = kind
          /\ Keeps(call[q], call'[q]) /\ Looks(call[q], call'[q], rows', links')
          /\ call'[q].todo = call[q].todo /\ call'[q].result = call[q].result
      BY ExecDoes
    <2>2. ReadsAs(kind, rows, links, call[q], fk[q], joins[q], mem[q])
      BY DEF ReadsInv, Reads
    <2>3. ReadsAs(kind, rows', links', call'[q], fk[q], joins[q], mem[q])
      BY <2>1, <2>2, ReadsLater
    <2> QED BY <2>1, <2>3
  <1>2. /\ Busy(p) /\ Keeps(c, d) /\ Looks(c, d, rows', links') /\ d.todo = Tail(c.todo) /\ kind' = kind
        /\ d.result = IF Tail(c.todo) = <<>> THEN "nil" ELSE "none"
        /\ rows' = Outcome(p).rows /\ links' = Outcome(p).links
        /\ mem'[p] = Outcome(p).mem /\ fk'[p] = Outcome(p).fk
        /\ joins'[p] = IF s[1] = "joins" THEN links ELSE {}
    BY ExecDoes
  <1>3. /\ ReadsAs(kind, rows, links, c, fk[p], joins[p], mem[p])
        /\ links \in Links /\ mem[p] \in Fields /\ fk[p] \in Fields /\ c.owners \in Seq(Owners) /\ kind \in Kinds
    BY DEF ReadsInv, Reads, ShapeInv, TypeOK, CallType
  <1>4. ASSUME c.op = "preload"
        PROVE  ReadsAs(kind', rows', links', d, fk'[p], joins'[p], mem'[p])
    <2>1. /\ c.todo \in IF kind = "many2many"
                   THEN {<<<<"find">>, <<"joins">>, <<"targets">>>>, <<<<"joins">>, <<"targets">>>>, <<<<"targets">>>>}
                   ELSE {<<<<"find">>, <<"targets">>>>, <<<<"targets">>>>}
          /\ links \subseteq c.ever /\ c.always \subseteq Sound(rows, links)
      BY <1>2, <1>3, <1>4 DEF ReadsAs, Busy
    <2>2. Holds(p) \subseteq Owners /\ d.owners = c.owners /\ Holds(p) = Range(c.owners) /\ d.op = "preload"
      BY <1>2, <1>3, <1>4, SavesAre DEF Holds, Keeps
    <2>3. /\ s[1] \in {"find", "joins", "targets"}
          /\ s[1] = "find" => d.todo = IF kind = "many2many" THEN <<<<"joins">>, <<"targets">>>> ELSE <<<<"targets">>>>
          /\ s[1] = "joins" => d.todo = <<<<"targets">>>> /\ kind = "many2many"
          /\ s[1] = "targets" => d.todo = <<>> /\ c.todo = <<<<"targets">>>>
      BY <1>2, <2>1, Steps3
    <2>4. Outcome(p) = Effect(p, s)
      BY <1>4 DEF Outcome
    <2>5. rows' = rows /\ links' = links
      <3>1. Effect(p, s).rows = rows /\ Effect(p, s).links = links
        <4>1. CASE s[1] = "find"
          BY <4>1 DEF Effect, FindOwners
        <4>2. CASE s[1] = "joins"
          BY <4>2 DEF Effect, After
        <4>3. CASE s[1] = "targets"
          BY <4>3 DEF Effect, Targets
        <4> QED BY <2>3, <4>1, <4>2, <4>3
      <3> QED BY <1>2, <2>4, <3>1
    <2>6. d.ever = c.ever \cup links /\ d.always = c.always \cap Sound(rows, links)
      BY <1>2, <1>4, <2>5 DEF Looks, Busy
    <2>7. links \subseteq d.ever /\ d.always \subseteq Sound(rows, links) /\ Sound(rows, links) \subseteq links
      BY <2>6 DEF Sound
    <2> HIDE DEF c, d, s
    <2>8. CASE s[1] = "find"
      <3>1. \A o \in Holds(p) : fk'[p][o] = Linked(o)
        BY <1>2, <2>2, <2>4, <2>8 DEF Effect, FindOwners
      <3>2. \A o \in Holds(p), x \in Others : x \in fk'[p][o] <=> <<o, x>> \in links
        BY <3>1 DEF Linked
      <3>3. kind = "many2many" => d.todo # <<<<"targets">>>>
        BY <2>3, <2>8, Steps3
      <3>4. d.result = "none"
        BY <1>2, <2>3, <2>8, Steps3
      <3> QED BY <1>2, <2>2, <2>3, <2>5, <2>7, <2>8, <3>2, <3>3, <3>4 DEF ReadsAs
    <2>9. CASE s[1] = "joins"
      <3>1. joins'[p] = links /\ kind = "many2many" /\ d.todo = <<<<"targets">>>> /\ d.result = "none"
        BY <1>2, <2>3, <2>9, Steps3
      <3> QED BY <1>2, <2>2, <2>5, <2>7, <3>1 DEF ReadsAs
    <2>10. CASE s[1] = "targets"
      <3>1. d.todo = <<>> /\ c.todo = <<<<"targets">>>>
        BY <2>3, <2>10
      <3>2. \A o \in Holds(p) : mem'[p][o] = Attached(p, o) \cap rows
        BY <1>2, <2>2, <2>4, <2>10 DEF Effect, Targets
      <3>3. ASSUME NEW o \in Holds(p), NEW x \in Others
            PROVE  /\ x \in Attached(p, o) => <<o, x>> \in c.ever
                   /\ <<o, x>> \in c.always => x \in Attached(p, o) /\ x \in rows
        <4>1. <<o, x>> \in c.always => <<o, x>> \in links /\ x \in rows
          BY <2>1 DEF Sound
        <4>2. CASE kind = "belongs_to"
          BY <1>3, <1>4, <2>2, <3>1, <4>1, <4>2 DEF ReadsAs, Attached, c
        <4>3. CASE kind = "has"
          BY <2>1, <4>1, <4>3 DEF Attached, Linked
        <4>4. CASE kind = "many2many"
          BY <1>3, <1>4, <2>2, <3>1, <4>1, <4>4 DEF ReadsAs, Attached, c
        <4> QED BY <1>3, <4>2, <4>3, <4>4
      <3>4. \A o \in Holds(p), x \in Others :
              /\ x \in mem'[p][o] => <<o, x>> \in d.ever
              /\ <<o, x>> \in d.always => x \in mem'[p][o]
        BY <2>6, <3>2, <3>3
      <3>5. d.todo # <<<<"targets">>>>
        BY <3>1, Steps3
      <3> QED BY <2>2, <3>1, <3>4, <3>5 DEF ReadsAs
    <2> QED BY <2>3, <2>8, <2>9, <2>10 DEF d
  <1>5. ASSUME c.op # "preload"
        PROVE  ReadsAs(kind', rows', links', d, fk'[p], joins'[p], mem'[p])
    BY <1>2, <1>5 DEF ReadsAs, Keeps
  <1>6. \A q \in Programs : ReadsAs(kind', rows', links', call'[q], fk'[q], joins'[q], mem'[q])
    BY <1>1, <1>4, <1>5
  <1> QED BY <1>6 DEF ReadsInv, Reads

LEMMA ReadsFail ==
    ASSUME ShapeInv, ReadsInv, NEW p \in Programs, Fail(p)
    PROVE  ReadsInv'
  <1>1. UNCHANGED <<kind, rows, links>> /\ Busy(p) /\ Keeps(call[p], call'[p])
    BY FailDoes
  <1>2. ASSUME NEW q \in Programs \ {p}
        PROVE  ReadsAs(kind, rows, links, call'[q], fk'[q], joins'[q], mem'[q])
    <2>1. mem'[q] = mem[q] /\ fk'[q] = fk[q] /\ joins'[q] = joins[q] /\ call'[q] = call[q]
      BY FailDoes
    <2> QED BY <2>1 DEF ReadsInv, Reads
  <1>3. ASSUME call[p].op = "preload"
        PROVE  ReadsAs(kind, rows, links, call'[p], fk'[p], joins'[p], mem'[p])
    <2>1. Ends(p, Head(call[p].todo))
      BY <1>3 DEF Ends
    <2>2. call'[p].todo = <<>> /\ call'[p].result = "error"
      BY <2>1, FailDoes
    <2>3. <<>> # <<<<"targets">>>>
      OBVIOUS
    <2> QED BY <2>2, <2>3 DEF ReadsAs
  <1>4. ASSUME call[p].op # "preload"
        PROVE  ReadsAs(kind, rows, links, call'[p], fk'[p], joins'[p], mem'[p])
    BY <1>1, <1>4 DEF ReadsAs, Keeps
  <1>5. \A q \in Programs : ReadsAs(kind', rows', links', call'[q], fk'[q], joins'[q], mem'[q])
    BY <1>1, <1>2, <1>3, <1>4
  <1> QED BY <1>5 DEF ReadsInv, Reads

\* Preload gives an owner nothing that was never linked to it since the call came, and
\* all that was linked to it, and there, all the time (preload.go:148-358), whatever any
\* number of other programs write between its statements.
THEOREM PreloadReadsWhatWasThere == Spec => []PreloadAgrees
  <1>1. Init => ReadsInv
    <2>1. ASSUME Init PROVE \A p \in Programs : call[p] = NoCall
      BY <2>1 DEF Init
    <2> QED BY <2>1, EmptyCall DEF ReadsInv, Reads, ReadsAs
  <1>2. ShapeInv /\ ReadsInv /\ [Next]_vars => ReadsInv'
    <2> SUFFICES ASSUME ShapeInv, ReadsInv, [Next]_vars PROVE ReadsInv'
      OBVIOUS
    <2>1. CASE Next
      BY <2>1, ReadsStart, ReadsExec, ReadsFail DEF Next
    <2>2. CASE UNCHANGED vars
      BY <2>2 DEF vars, ReadsInv, Reads
    <2> QED BY <2>1, <2>2
  <1>3. ReadsInv => PreloadAgrees
    BY DEF ReadsInv, Reads, ReadsAs, PreloadAgrees, Holds
  <1> QED BY <1>1, <1>2, <1>3, ShapeInit, ShapeNext, PTL DEF Spec

------------------------------------------------------------------------------
(***************************************************************************)
(* A call that has the tables to itself does what it is asked.             *)
(***************************************************************************)
LEMMA AloneNext ==
    ASSUME ShapeInv, AloneInv, [Next]_vars
    PROVE  /\ AloneInv'
           /\ \A p \in Programs : \A q \in Programs \ {p} :
                Start(q) \/ Exec(q) \/ Fail(q) => ~call'[p].alone
  <1>1. \A p \in Programs : call[p] \in CallType
    BY DEF ShapeInv, TypeOK
  <1>2. ASSUME NEW q \in Programs, Start(q)
        PROVE  /\ AloneInv'
               /\ \A p \in Programs \ {q} : ~call'[p].alone
    <2>1. PICK c \in CallType : Begun(q, c)
      BY <1>2, StartDoes DEF ShapeInv
    <2>2. \A p \in Programs \ {q} : call'[p] = IF Busy(p) THEN [call[p] EXCEPT !.alone = FALSE] ELSE NoCall
      BY <1>2, StartDoes DEF ShapeInv
    <2>3. ASSUME NEW p \in Programs \ {q}
          PROVE  ~call'[p].alone /\ (~Busy(p) => call'[p].todo = <<>>)
      <3>1. CASE Busy(p)
        <4> DEFINE c0 == call[p]
        <4>1. call'[p] = [c0 EXCEPT !.alone = FALSE] /\ c0 \in CallType
          BY <1>1, <2>2, <3>1
        <4> HIDE DEF c0
        <4>2. ~call'[p].alone
          BY <4>1 DEF CallType
        <4> QED BY <3>1, <4>2
      <3>2. CASE ~Busy(p)
        BY <2>2, <3>2, EmptyCall
      <3> QED BY <3>1, <3>2
    <2>4. call'[q] = c /\ (c.alone => \A r \in Programs \ {q} : ~Busy(r))
      BY <2>1 DEF Begun
    <2>5. \A p \in Programs : call'[p].alone => \A r \in Programs \ {p} : call'[r].todo = <<>>
      BY <2>3, <2>4
    <2> QED BY <2>3, <2>5 DEF AloneInv, Busy
  <1>3. ASSUME NEW q \in Programs, Exec(q) \/ Fail(q)
        PROVE  /\ AloneInv'
               /\ \A p \in Programs \ {q} : ~call'[p].alone
    <2>1. Busy(q) /\ Keeps(call[q], call'[q])
      BY <1>3, ExecDoes, FailDoes
    <2>2. \A p \in Programs \ {q} : Keeps(call[p], call'[p]) /\ call'[p].todo = call[p].todo
      BY <1>3, ExecDoes, FailDoes DEF Keeps
    <2>3. \A p \in Programs \ {q} : ~call'[p].alone
      BY <2>1, <2>2 DEF AloneInv, Keeps
    <2>4. call'[q].alone => \A r \in Programs \ {q} : call'[r].todo = <<>>
      BY <2>1, <2>2 DEF AloneInv, Keeps, Busy
    <2> QED BY <2>3, <2>4 DEF AloneInv, Busy
  <1>4. CASE Next
    BY <1>2, <1>3, <1>4 DEF Next
  <1>5. CASE UNCHANGED vars
    <2>1. call' = call
      BY <1>5 DEF vars
    <2> QED BY <1>2, <1>3, <2>1 DEF AloneInv, Busy
  <1> QED BY <1>4, <1>5

\* What saving one owner does to the links of each.
LEMMA SaveLinks ==
    ASSUME ShapeInv, NEW p \in Programs, NEW u \in Holds(p)
    PROVE  /\ u \in Owners /\ InField(p, u) \subseteq Others
           /\ Of(Save(p, u).links, u) = IF kind = "belongs_to" THEN InField(p, u) ELSE Linked(u) \cup InField(p, u)
           /\ \A o \in Owners \ {u} :
                Of(Save(p, u).links, o) = IF kind = "has" THEN Linked(o) \ InField(p, u) ELSE Linked(o)
           /\ Save(p, u).mem[u] = InField(p, u)
           /\ kind = "belongs_to" => Save(p, u).fk[u] = InField(p, u)
           /\ \A o \in Owners \ {u} : Save(p, u).mem[o] = mem[p][o] /\ Save(p, u).fk[o] = fk[p][o]
  <1>1. /\ call[p] \in CallType /\ DOMAIN call[p].vals = Holds(p) /\ Holds(p) \subseteq Owners
        /\ links \in Links /\ mem[p] \in Fields /\ fk[p] \in Fields
    <2>1. call[p].owners \in Seq(Owners)
      BY DEF ShapeInv, TypeOK, CallType
    <2> QED BY <2>1, SavesAre DEF ShapeInv, TypeOK, Planned, WellFormed, Holds
  <1>2. InField(p, u) \subseteq Others
    <2>1. PICK S \in SUBSET Owners : call[p].vals \in [S -> SUBSET Others]
      BY <1>1 DEF CallType
    <2>2. call[p].vals[u] \subseteq Others /\ mem[p][u] \subseteq Others
      BY <1>1, <2>1 DEF Fields
    <2> QED BY <2>2 DEF InField
  <1> DEFINE field == InField(p, u)
             taken == CASE kind = "belongs_to" -> {u} \X Others
                        [] kind = "has" -> Owners \X field
                        [] OTHER -> {}
  <1>3. /\ Save(p, u).links = (links \ taken) \cup ({u} \X field)
        /\ Save(p, u).mem = [mem[p] EXCEPT ![u] = field]
        /\ Save(p, u).fk = [fk[p] EXCEPT ![u] = IF kind = "belongs_to" THEN field ELSE @]
    BY DEF Save
  <1> HIDE DEF field, taken
  <1>4. \A o \in Owners, x \in Others :
          <<o, x>> \in Save(p, u).links <=> (<<o, x>> \in links /\ <<o, x>> \notin taken) \/ (o = u /\ x \in field)
    BY <1>3
  <1>5. \A o \in Owners, x \in Others :
          <<o, x>> \in taken <=> \/ kind = "belongs_to" /\ o = u
                                 \/ kind = "has" /\ x \in field
    BY DEF taken
  <1>6. Of(Save(p, u).links, u) = IF kind = "belongs_to" THEN field ELSE Linked(u) \cup field
    BY <1>1, <1>2, <1>4, <1>5 DEF Of, Linked, field
  <1>7. \A o \in Owners \ {u} : Of(Save(p, u).links, o) = IF kind = "has" THEN Linked(o) \ field ELSE Linked(o)
    BY <1>4, <1>5 DEF Of, Linked
  <1>8. /\ Save(p, u).mem[u] = field /\ (kind = "belongs_to" => Save(p, u).fk[u] = field)
        /\ \A o \in Owners \ {u} : Save(p, u).mem[o] = mem[p][o] /\ Save(p, u).fk[o] = fk[p][o]
    BY <1>1, <1>3 DEF Fields
  <1> QED BY <1>1, <1>2, <1>6, <1>7, <1>8 DEF field

LEMMA WorksStart ==
    ASSUME ShapeInv, NEW p \in Programs, Start(p)
    PROVE  Works(p)'
  <1>1. PICK c \in CallType : Begun(p, c)
    BY StartDoes DEF ShapeInv
  <1>2. UNCHANGED <<kind, rows, links>>
    BY StartDoes DEF ShapeInv
  <1>3. PICK clear, drop \in BOOLEAN :
          /\ c.todo = Plan(c.op, c.owners, clear, drop)
          /\ drop => c.unscoped
          /\ clear => \A o \in Range(c.owners) : c.vals[o] = {}
          /\ c.op = "replace" /\ ~clear => \A o \in Range(c.owners) : c.vals[o] # {}
          /\ c.op = "replace" /\ clear => \A o \in Range(c.owners) : mem'[p][o] = {} /\ fk'[p][o] = {}
          /\ ~(c.op = "replace" /\ clear) => \A o \in Range(c.owners) : mem'[p][o] = mem[p][o] /\ fk'[p][o] = fk[p][o]
    BY <1>1 DEF Begun
  <1>4. c.op \in Ops /\ c.owners \in Seq(Owners) /\ kind \in Kinds /\ c.result = "none" /\ c.before = links
        /\ call'[p] = c
    BY <1>1 DEF Begun, CallType, ShapeInv, TypeOK
  <1>5. /\ c.op \in {"append", "set_create"} \/ (c.op = "replace" /\ ~clear) =>
             \A o \in Range(c.owners) : <<"save", o>> \in Range(c.todo)
        /\ c.op = "set_create" => <<"find">> \in Range(c.todo)
        /\ c.op = "replace" /\ clear /\ kind = "belongs_to" => <<"null_keys">> \in Range(c.todo)
        /\ c.op = "delete" => <<"unlink">> \in Range(c.todo)
        /\ Fits(kind, c)
    BY <1>3, <1>4, PlanFits
  <1>6. <<"null_keys">> \in Range(c.todo) => c.op = "replace" /\ \A o \in Range(c.owners) : c.vals[o] = {}
    BY <1>5 DEF Fits, IsOf
  <1>7. ASSUME c.true, NEW o \in Range(c.owners)
        PROVE  /\ c.op \in {"append", "replace", "set_create"} =>
                    IF kind = "belongs_to" THEN Turns(c, o, Of(links, o), mem'[p][o], fk'[p][o])
                                           ELSE Grows(c, o, Of(links, o), mem'[p][o])
               /\ c.op = "delete" => Shrinks(kind, c, o, Of(links, o), mem'[p][o], fk'[p][o])
    <2>1. mem[p][o] = Of(links, o) /\ (kind = "belongs_to" => fk[p][o] = Of(links, o)) /\ Of(c.before, o) = Of(links, o)
      BY <1>1, <1>4, <1>7 DEF Begun, Agrees, Linked, Of
    <2>2. /\ c.op \in {"append", "set_create"} \/ (c.op = "replace" /\ ~clear) => ~Saved(c, o)
      BY <1>5 DEF Saved
    <2>3. CASE c.op \in {"append", "replace", "set_create"} /\ kind = "belongs_to"
      <3>1. <<"null_keys">> \in Range(c.todo) => c.vals[o] = {} /\ mem'[p][o] = {} /\ fk'[p][o] = {}
        BY <1>3, <1>6
      <3>2. Saved(c, o) => <<"null_keys">> \in Range(c.todo)
        BY <1>5, <2>2, <2>3
      <3> QED BY <2>1, <2>3, <3>1, <3>2 DEF Turns
    <2>4. CASE c.op \in {"append", "replace", "set_create"} /\ kind # "belongs_to"
      <3>1. Saved(c, o) => c.op = "replace" /\ c.vals[o] = {} /\ mem'[p][o] = {}
        BY <1>3, <2>2, <2>4
      <3>2. c.op = "append" => mem'[p][o] = Of(links, o)
        BY <1>3, <2>1
      <3> QED BY <1>4, <1>5, <2>1, <2>4, <3>1, <3>2 DEF Grows
    <2>5. CASE c.op = "delete"
      <3>1. mem'[p][o] = mem[p][o] /\ fk'[p][o] = fk[p][o] /\ <<"unlink">> \in Range(c.todo) /\ c.todo # <<>>
        BY <1>3, <1>5, <2>5 DEF Range
      <3> QED BY <2>1, <2>5, <3>1 DEF Shrinks
    <2> QED BY <2>3, <2>4, <2>5
  <1>8. \A n : WorksAs(kind, n, c, links, mem'[p], fk'[p])
    BY <1>7 DEF WorksAs, Undisturbed
  <1> QED BY <1>2, <1>4, <1>8 DEF Works

\* What the statements of the changing operations do to the links and the fields of
\* the owners of the call; field stands for what Save puts in.
LEMMA OthersDo ==
    ASSUME ShapeInv, NEW p \in Programs, Busy(p), NEW o \in Holds(p),
           Head(call[p].todo)[1] # "save", Head(call[p].todo)[1] # "refused",
           call[p].op \in {"append", "replace", "set_create", "delete"}
    PROVE  LET s == Head(call[p].todo)
               e == Effect(p, s)
           IN /\ s \in {<<"unlink_rest">>, <<"null_keys">>, <<"delete_old">>, <<"unlink">>, <<"find">>}
              /\ s = <<"unlink_rest">> =>
                   Of(e.links, o) = {x \in Linked(o) : x \in IF kind = "has" THEN All(mem[p], Holds(p)) ELSE Given(p)}
              /\ s = <<"null_keys">> => Of(e.links, o) = {}
              /\ s = <<"unlink">> => Of(e.links, o) = Linked(o) \ Given(p)
              /\ s \in {<<"delete_old">>, <<"find">>} => Of(e.links, o) = Linked(o)
              /\ IF s = <<"find">> THEN e.mem[o] = {} ELSE e.mem = mem[p] /\ e.fk = fk[p]
  <1> DEFINE s == Head(call[p].todo)
  <1>1. s \in Statements /\ IsOf(kind, call[p], s) /\ s[1] # "save" /\ s[1] # "refused"
    BY HeadIs
  <1>2. Holds(p) \subseteq Owners
    <2>1. call[p].owners \in Seq(Owners)
      BY DEF ShapeInv, TypeOK, CallType
    <2> QED BY <2>1, SavesAre DEF Holds
  <1> HIDE DEF s
  <1>3. PICK t \in Tags : s = <<t>>
    BY <1>1 DEF Statements
  <1>4. s[1] = t
    BY <1>3
  <1>5. t \in {"unlink_rest", "null_keys", "delete_old", "unlink", "find"}
    BY <1>1, <1>4 DEF IsOf, Tags
  <1>6. CASE t = "unlink_rest"
    <2> DEFINE kept == IF kind = "has" THEN All(mem[p], Holds(p)) ELSE Given(p)
               gone == {l \in links : l[1] \in Holds(p) /\ l[2] \notin kept}
    <2>1. Effect(p, s).links = links \ gone /\ Effect(p, s).mem = mem[p] /\ Effect(p, s).fk = fk[p]
      BY <1>4, <1>6 DEF Effect, UnlinkRest, After
    <2>2. Of(links \ gone, o) = {x \in Linked(o) : x \in kept}
      BY DEF Of, Linked
    <2>3. <<"unlink_rest">> # <<"null_keys">> /\ <<"unlink_rest">> # <<"delete_old">>
          /\ <<"unlink_rest">> # <<"unlink">> /\ <<"unlink_rest">> # <<"find">>
      OBVIOUS
    <2> HIDE DEF gone
    <2> QED BY <1>3, <1>6, <2>1, <2>2, <2>3 DEF s, kept
  <1>7. CASE t = "null_keys"
    <2>1. Effect(p, s).links = {l \in links : l[1] \notin Holds(p)} /\ Effect(p, s).mem = mem[p] /\ Effect(p, s).fk = fk[p]
      BY <1>4, <1>7 DEF Effect, NullKeys, After
    <2>2. Of(Effect(p, s).links, o) = {}
      BY <2>1 DEF Of
    <2>3. <<"null_keys">> # <<"unlink_rest">> /\ <<"null_keys">> # <<"delete_old">>
          /\ <<"null_keys">> # <<"unlink">> /\ <<"null_keys">> # <<"find">>
      OBVIOUS
    <2> QED BY <1>3, <1>7, <2>1, <2>2, <2>3 DEF s
  <1>8. CASE t = "delete_old"
    <2>1. Effect(p, s).links = links /\ Effect(p, s).mem = mem[p] /\ Effect(p, s).fk = fk[p]
      BY <1>4, <1>8 DEF Effect, DeleteOld, After
    <2>2. Of(links, o) = Linked(o)
      BY DEF Of, Linked
    <2>3. <<"delete_old">> # <<"unlink_rest">> /\ <<"delete_old">> # <<"null_keys">>
          /\ <<"delete_old">> # <<"unlink">> /\ <<"delete_old">> # <<"find">>
      OBVIOUS
    <2> QED BY <1>3, <1>8, <2>1, <2>2, <2>3 DEF s
  <1>9. CASE t = "unlink"
    <2> DEFINE gone == {l \in links : l[1] \in Holds(p) /\ l[2] \in Given(p)}
    <2>1. Effect(p, s).links = links \ gone /\ Effect(p, s).mem = mem[p] /\ Effect(p, s).fk = fk[p]
      BY <1>4, <1>9 DEF Effect, Unlink, After
    <2>2. Of(links \ gone, o) = Linked(o) \ Given(p)
      BY DEF Of, Linked
    <2>3. <<"unlink">> # <<"unlink_rest">> /\ <<"unlink">> # <<"null_keys">>
          /\ <<"unlink">> # <<"delete_old">> /\ <<"unlink">> # <<"find">>
      OBVIOUS
    <2> HIDE DEF gone
    <2> QED BY <1>3, <1>9, <2>1, <2>2, <2>3 DEF s
  <1>10. CASE t = "find"
    <2>1. Effect(p, s).links = links /\ Effect(p, s).mem[o] = {}
      BY <1>2, <1>4, <1>10 DEF Effect, FindOwners
    <2>2. Of(links, o) = Linked(o)
      BY DEF Of, Linked
    <2>3. <<"find">> # <<"unlink_rest">> /\ <<"find">> # <<"null_keys">>
          /\ <<"find">> # <<"delete_old">> /\ <<"find">> # <<"unlink">>
      OBVIOUS
    <2> QED BY <1>3, <1>10, <2>1, <2>2, <2>3 DEF s
  <1> QED BY <1>5, <1>6, <1>7, <1>8, <1>9, <1>10

\* Where p's call is, before and after a statement of its own.
LEMMA OwnStep ==
    ASSUME ShapeInv, NEW p \in Programs, Exec(p)
    PROVE  LET c == call[p]
               d == call'[p]
               s == Head(c.todo)
               e == Effect(p, s)
           IN /\ Keeps(c, d) /\ c.result = "none" /\ d.todo = Tail(c.todo) /\ c.todo # <<>>
              /\ d.result = IF d.todo = <<>> THEN "nil" ELSE "none"
              /\ s[1] # "refused" /\ IsOf(kind, c, s) /\ s \in Statements
              /\ links' = e.links /\ kind' = kind /\ faults' = faults
              /\ c.op # "delete" \/ d.todo # <<>> => mem'[p] = e.mem /\ fk'[p] = e.fk
              /\ c.op = "delete" /\ d.todo = <<>> => mem'[p] = CleanUp(p, e).mem /\ fk'[p] = CleanUp(p, e).fk
              /\ \A x \in Range(c.todo) : x = s \/ x \in Range(d.todo)
              /\ Range(d.todo) \subseteq Range(c.todo)
              /\ \A t \in {"find", "null_keys", "unlink"} :
                   <<t>> \notin Range(d.todo) /\ (s # <<t>> => <<t>> \notin Range(c.todo))
              /\ s = <<"unlink_rest">> => d.todo = <<>>
  <1> DEFINE c == call[p]
             d == call'[p]
             s == Head(c.todo)
             e == Effect(p, s)
  <1>1. /\ Busy(p) /\ Keeps(c, d) /\ d.todo = Tail(c.todo) /\ s[1] # "refused" /\ kind' = kind /\ faults' = faults
        /\ d.result = IF Tail(c.todo) = <<>> THEN "nil" ELSE "none"
        /\ links' = Outcome(p).links /\ mem'[p] = Outcome(p).mem /\ fk'[p] = Outcome(p).fk
    BY ExecDoes
  <1>2. IsOf(kind, c, s) /\ s \in Statements /\ c.result = "none" /\ c.todo \in Seq(Statements)
    BY <1>1, HeadIs
  <1>3. Outcome(p).links = e.links
    BY OutcomeTables
  <1>4. c.op # "delete" \/ Tail(c.todo) # <<>> => Outcome(p) = e
    BY DEF Outcome
  <1>5. c.op = "delete" /\ Tail(c.todo) = <<>> => Outcome(p) = CleanUp(p, e)
    BY DEF Outcome
  <1>6. c.todo # <<>>
    BY <1>1 DEF Busy
  <1>7. /\ IsFirst("find", c.todo) /\ IsFirst("null_keys", c.todo) /\ IsFirst("unlink", c.todo)
        /\ IsLast("unlink_rest", c.todo)
    BY DEF ShapeInv, Planned, WellFormed, Fits
  <1>8. Range(d.todo) \subseteq Range(c.todo) /\ \A x \in Range(c.todo) : x = s \/ x \in Range(d.todo)
    BY <1>1, <1>2, <1>6, HeadTail
  <1>9. \A t : IsFirst(t, c.todo) => <<t>> \notin Range(d.todo)
    BY <1>1, <1>2, <1>6, TailPlaces
  <1>10. s = <<"unlink_rest">> => d.todo = <<>>
    BY <1>1, <1>2, <1>6, <1>7, TailPlaces
  <1> HIDE DEF c, d, s, e
  <1>11. \A t \in {"find", "null_keys", "unlink"} :
            <<t>> \notin Range(d.todo) /\ (s # <<t>> => <<t>> \notin Range(c.todo))
    BY <1>7, <1>8, <1>9
  <1> QED BY <1>1, <1>2, <1>3, <1>4, <1>5, <1>6, <1>8, <1>10, <1>11 DEF c, d, s, e

LEMMA GrowsExec ==
    ASSUME ShapeInv, NEW p \in Programs, Exec(p), kind # "belongs_to", Undisturbed(kind, call[p]),
           call[p].op \in {"append", "replace", "set_create"},
           \A u \in Holds(p) : Grows(call[p], u, Linked(u), mem[p][u]),
           NEW o \in Holds(p)
    PROVE  Grows(call'[p], o, Of(links', o), mem'[p][o])
  <1> DEFINE c == call[p]
             d == call'[p]
             s == Head(c.todo)
             e == Effect(p, s)
             v == c.vals[o]
  <1> SUFFICES Grows(d, o, Of(links', o), mem'[p][o])
    OBVIOUS
  <1>1. /\ Keeps(c, d) /\ c.result = "none" /\ d.todo = Tail(c.todo) /\ c.todo # <<>>
        /\ d.result = IF d.todo = <<>> THEN "nil" ELSE "none"
        /\ s[1] # "refused" /\ IsOf(kind, c, s) /\ s \in Statements
        /\ links' = e.links /\ mem'[p] = e.mem
        /\ \A x \in Range(c.todo) : x = s \/ x \in Range(d.todo)
        /\ \A t \in {"find", "null_keys", "unlink"} :
             <<t>> \notin Range(d.todo) /\ (s # <<t>> => <<t>> \notin Range(c.todo))
        /\ s = <<"unlink_rest">> => d.todo = <<>>
    BY OwnStep
  <1>2. Holds(p) = Range(c.owners) /\ Holds(p) \subseteq Owners
    <2>1. call[p].owners \in Seq(Owners)
      BY DEF ShapeInv, TypeOK, CallType
    <2> QED BY <2>1, SavesAre DEF Holds
  <1>3. \A u, w \in Holds(p) : u # w => c.vals[u] \cap (c.vals[w] \cup Of(c.before, w)) = {}
    BY <1>2 DEF Undisturbed
  <1>4. ASSUME NEW u \in Holds(p)
        PROVE  /\ Of(c.before, u) \subseteq Linked(u) /\ Linked(u) \subseteq Of(c.before, u) \cup c.vals[u]
               /\ Saved(c, u) => c.vals[u] \subseteq Linked(u)
               /\ c.op = "append" => /\ Of(c.before, u) \subseteq mem[p][u]
                                     /\ mem[p][u] \subseteq Of(c.before, u) \cup c.vals[u]
                                     /\ Saved(c, u) => c.vals[u] \subseteq mem[p][u]
               /\ c.op = "replace" /\ Saved(c, u) => mem[p][u] = c.vals[u]
               /\ c.op = "set_create" => mem[p][u] \subseteq c.vals[u] \/ <<"find">> \in Range(c.todo)
    BY <1>1, <1>4 DEF Grows
  <1>5. c.op = "replace" => <<"unlink_rest">> \in Range(c.todo)
    BY <1>1 DEF ShapeInv, Planned, WellFormed, Fits
  <1>6. CASE s[1] = "save"
    <2> DEFINE u == s[2]
               field == InField(p, u)
    <2>1. u \in Holds(p) /\ s = <<"save", u>>
      <3>1. u \in Holds(p)
        BY <1>1, <1>2, <1>6 DEF IsOf
      <3>2. s \in {<<"save", x>> : x \in Owners}
        BY SMTT(60), <1>1, <1>6 DEF Statements, Tags
      <3> QED BY <3>1, <3>2
    <2>2. /\ e.links = Save(p, u).links /\ e.mem = Save(p, u).mem
      BY <1>6 DEF Effect
    <2>3. /\ u \in Owners /\ field \subseteq Others
          /\ Of(links', u) = Linked(u) \cup field
          /\ \A w \in Owners \ {u} : Of(links', w) = IF kind = "has" THEN Linked(w) \ field ELSE Linked(w)
          /\ mem'[p][u] = field
          /\ \A w \in Owners \ {u} : mem'[p][w] = mem[p][w]
      <3>1. u \in Owners /\ InField(p, u) \subseteq Others
        BY <2>1, SaveLinks
      <3>2. Of(Save(p, u).links, u) = Linked(u) \cup InField(p, u)
        BY <2>1, SaveLinks
      <3>3. \A w \in Owners \ {u} :
              Of(Save(p, u).links, w) = IF kind = "has" THEN Linked(w) \ InField(p, u) ELSE Linked(w)
        BY ZenonT(60), <2>1, SaveLinks
      <3>4. Save(p, u).mem[u] = InField(p, u) /\ \A w \in Owners \ {u} : Save(p, u).mem[w] = mem[p][w]
        BY <2>1, SaveLinks
      <3>5. links' = Save(p, u).links /\ mem'[p] = Save(p, u).mem
        BY <1>1, <2>2
      <3> HIDE DEF u
      <3> QED BY <3>1, <3>2, <3>3, <3>4, <3>5
    <2>4. <<"find">> \notin Range(c.todo) /\ <<"find">> \notin Range(d.todo)
      <3>1. s # <<"find">>
        BY <1>6
      <3> QED BY <1>1, <3>1
    <2>5. field = IF c.op = "replace" THEN c.vals[u] ELSE mem[p][u] \cup c.vals[u]
      BY SMTT(60) DEF InField
    <2>6. /\ c.vals[u] \subseteq field /\ field \subseteq Of(c.before, u) \cup c.vals[u]
          /\ c.op = "append" => Of(c.before, u) \subseteq field
          /\ c.op # "append" => field = c.vals[u]
      BY <1>4, <2>1, <2>4, <2>5
    <2>7. c.op = "replace" => d.result = "none"
      <3>1. s # <<"unlink_rest">>
        BY <1>6
      <3>2. c.op = "replace" => d.todo # <<>>
        <4>1. c.op = "replace" => <<"unlink_rest">> \in Range(d.todo)
          BY <1>1, <1>5, <3>1
        <4> QED BY <4>1, NothingIn
      <3> QED BY <1>1, <3>2
    <2>8. d.result # "error" /\ d.op = c.op /\ d.vals = c.vals /\ d.before = c.before
      BY <1>1 DEF Keeps
    <2> HIDE DEF c, d, s, e, u, field
    <2>9. CASE o = u
      <3>1. Of(links', o) = Linked(o) \cup field /\ mem'[p][o] = field
        BY <2>3, <2>9
      <3> QED BY <1>4, <2>6, <2>7, <2>8, <2>9, <3>1 DEF Grows
    <2>10. CASE o # u
      <3>1. Of(links', o) = Linked(o)
        <4>1. CASE kind = "has"
          <5>1. IsLinks(kind, c.before) /\ c.before \in Links
            BY DEF ShapeInv, TypeOK, CallType, Planned, WellFormed, c
          <5>2. ASSUME NEW x \in Linked(o) \cap field PROVE FALSE
            <6>1. /\ x \in Of(c.before, o) \/ x \in c.vals[o]
                  /\ x \in Of(c.before, u) \/ x \in c.vals[u]
              BY <1>4, <2>6
            <6>2. x \in Of(c.before, o) /\ x \in Of(c.before, u) => <<o, x>> = <<u, x>>
              BY <4>1, <5>1 DEF Of, IsLinks
            <6>3. ~(x \in Of(c.before, o) /\ x \in Of(c.before, u))
              BY <2>10, <6>2
            <6> QED BY <1>3, <2>1, <2>10, <6>1, <6>3
          <5> QED BY <1>2, <2>3, <2>10, <4>1, <5>2
        <4>2. CASE kind # "has"
          BY <1>2, <2>3, <2>10, <4>2
        <4> QED BY <4>1, <4>2
      <3>2. mem'[p][o] = mem[p][o]
        BY <1>2, <2>3, <2>10
      <3>3. Saved(d, o) => Saved(c, o)
        BY <1>1, <2>1, <2>10 DEF Saved
      <3> QED BY <1>4, <2>4, <2>7, <2>8, <3>1, <3>2, <3>3 DEF Grows
    <2> QED BY <2>9, <2>10
  <1>7. CASE s[1] # "save"
    <2>1. /\ s \in {<<"unlink_rest">>, <<"null_keys">>, <<"delete_old">>, <<"unlink">>, <<"find">>}
          /\ s = <<"unlink_rest">> =>
               Of(links', o) = {x \in Linked(o) : x \in IF kind = "has" THEN All(mem[p], Holds(p)) ELSE Given(p)}
          /\ s = <<"find">> => Of(links', o) = Linked(o)
          /\ IF s = <<"find">> THEN mem'[p][o] = {} ELSE mem'[p] = mem[p]
      <3>1. Busy(p)
        BY <1>1 DEF Busy
      <3> QED BY <1>1, <1>7, <3>1, OthersDo
    <2>2. (s = <<"unlink_rest">> /\ c.op = "replace") \/ (s = <<"find">> /\ c.op = "set_create")
      <3>1. s[1] \in {"unlink_rest", "null_keys", "delete_old", "unlink", "find"} /\ s = <<s[1]>>
        BY <2>1
      <3> QED BY <1>1, <3>1 DEF IsOf
    <2>3. d.result # "error" /\ d.op = c.op /\ d.vals = c.vals /\ d.before = c.before
      BY <1>1 DEF Keeps
    <2>4. CASE s = <<"unlink_rest">>
      <3>1. d.todo = <<>> /\ d.result = "nil" /\ c.op = "replace"
        BY SMTT(60), <1>1, <2>2, <2>4
      <3>2. ASSUME NEW u \in Holds(p) PROVE Saved(c, u)
        <4>1. Range(d.todo) = {}
          BY <3>1, NothingIn
        <4>2. \A x \in Range(c.todo) : x = s
          BY <1>1, <4>1
        <4>3. s # <<"save", u>>
          <5>1. s[1] = "unlink_rest"
            BY <2>4
          <5>2. <<"save", u>>[1] = "save"
            OBVIOUS
          <5> QED BY <5>1, <5>2
        <4> QED BY <4>2, <4>3 DEF Saved
      <3>3. \A u \in Holds(p) : mem[p][u] = c.vals[u] /\ c.vals[u] \subseteq Linked(u)
        BY <1>4, <3>1, <3>2
      <3>4. (IF kind = "has" THEN All(mem[p], Holds(p)) ELSE Given(p)) = UNION {c.vals[u] : u \in Holds(p)}
        BY <3>3 DEF All, Given
      <3>5. Of(links', o) = {x \in Linked(o) : \E u \in Holds(p) : x \in c.vals[u]}
        BY <2>1, <2>4, <3>4
      <3> HIDE DEF c, d, s, e
      <3>6. ASSUME NEW x \in Linked(o), NEW u \in Holds(p), x \in c.vals[u] PROVE x \in c.vals[o]
        <4>1. x \in Of(c.before, o) \/ x \in c.vals[o]
          BY <1>4
        <4> QED BY <1>3, <3>6, <4>1
      <3>7. Of(links', o) = v
        BY <3>3, <3>5, <3>6
      <3>8. mem'[p][o] = v
        BY <2>1, <2>4, <3>3
      <3> QED BY <2>3, <3>1, <3>7, <3>8 DEF Grows
    <2>5. CASE s = <<"find">>
      <3>1. Of(links', o) = Linked(o) /\ mem'[p][o] = {} /\ c.op = "set_create"
        BY <2>1, <2>2, <2>5
      <3>2. Saved(d, o) => Saved(c, o)
        <4>1. <<"save", o>> # s
          BY <2>5
        <4> QED BY <1>1, <4>1 DEF Saved
      <3> HIDE DEF c, d, s, e
      <3> QED BY <1>4, <2>3, <3>1, <3>2 DEF Grows
    <2> QED BY SMTT(60), <2>2, <2>4, <2>5
  <1> QED BY <1>6, <1>7

LEMMA TurnsExec ==
    ASSUME ShapeInv, NEW p \in Programs, Exec(p), kind = "belongs_to",
           call[p].op \in {"append", "replace", "set_create"},
           NEW o \in Holds(p), Turns(call[p], o, Linked(o), mem[p][o], fk[p][o])
    PROVE  Turns(call'[p], o, Of(links', o), mem'[p][o], fk'[p][o])
  <1> DEFINE c == call[p]
             d == call'[p]
             s == Head(c.todo)
             e == Effect(p, s)
             v == c.vals[o]
  <1> SUFFICES Turns(d, o, Of(links', o), mem'[p][o], fk'[p][o])
    OBVIOUS
  <1>1. /\ Keeps(c, d) /\ c.result = "none" /\ d.todo = Tail(c.todo) /\ c.todo # <<>>
        /\ d.result = IF d.todo = <<>> THEN "nil" ELSE "none"
        /\ s[1] # "refused" /\ IsOf(kind, c, s) /\ s \in Statements
        /\ links' = e.links /\ mem'[p] = e.mem /\ fk'[p] = e.fk
        /\ \A x \in Range(c.todo) : x = s \/ x \in Range(d.todo)
        /\ \A t \in {"find", "null_keys", "unlink"} :
             <<t>> \notin Range(d.todo) /\ (s # <<t>> => <<t>> \notin Range(c.todo))
    BY OwnStep
  <1>2. Holds(p) = Range(c.owners) /\ Holds(p) \subseteq Owners
    <2>1. call[p].owners \in Seq(Owners)
      BY DEF ShapeInv, TypeOK, CallType
    <2> QED BY <2>1, SavesAre DEF Holds
  <1>3. /\ Linked(o) = Of(c.before, o) \/ Linked(o) = v
        /\ <<"null_keys">> \in Range(c.todo) => (c.op # "set_create" => mem[p][o] = v /\ fk[p][o] = v)
        /\ Saved(c, o) /\ <<"null_keys">> \notin Range(c.todo) =>
             Linked(o) = v /\ (c.op # "set_create" => mem[p][o] = v /\ fk[p][o] = v)
    BY <1>1 DEF Turns
  <1>4. <<"null_keys">> \notin Range(d.todo)
    BY <1>1
  <1>5. d.result # "error" /\ d.op = c.op /\ d.vals = c.vals /\ d.before = c.before
    BY <1>1 DEF Keeps
  <1>6. CASE s[1] = "save"
    <2> DEFINE u == s[2]
    <2>1. u \in Holds(p) /\ s = <<"save", u>>
      <3>1. u \in Holds(p)
        BY <1>1, <1>2, <1>6 DEF IsOf
      <3>2. s \in {<<"save", x>> : x \in Owners}
        BY SMTT(60), <1>1, <1>6 DEF Statements, Tags
      <3> QED BY <3>1, <3>2
    <2>2. links' = Save(p, u).links /\ mem'[p] = Save(p, u).mem /\ fk'[p] = Save(p, u).fk
      BY <1>1, <1>6 DEF Effect
    <2>3. <<"null_keys">> \notin Range(c.todo)
      <3>1. s # <<"null_keys">>
        BY <1>6
      <3> QED BY <1>1, <3>1
    <2> HIDE DEF c, d, s, e, u
    <2>4. InField(p, u) = c.vals[u]
      BY DEF InField, c
    <2>5. CASE o = u
      <3>1. Of(Save(p, u).links, u) = InField(p, u)
        BY <2>1, SaveLinks
      <3>2. Save(p, u).mem[u] = InField(p, u) /\ Save(p, u).fk[u] = InField(p, u)
        BY <2>1, SaveLinks
      <3> QED BY <1>4, <1>5, <2>2, <2>4, <2>5, <3>1, <3>2 DEF Turns
    <2>6. CASE o # u
      <3>1. \A w \in Owners \ {u} : Of(Save(p, u).links, w) = IF kind = "has" THEN Linked(w) \ InField(p, u) ELSE Linked(w)
        BY <2>1, SaveLinks
      <3>2. \A w \in Owners \ {u} : Save(p, u).mem[w] = mem[p][w] /\ Save(p, u).fk[w] = fk[p][w]
        BY <2>1, SaveLinks
      <3>3. Of(links', o) = Linked(o) /\ mem'[p][o] = mem[p][o] /\ fk'[p][o] = fk[p][o]
        BY <1>2, <2>2, <2>6, <3>1, <3>2
      <3>4. Saved(d, o) => Saved(c, o)
        BY <1>1, <2>1, <2>6 DEF Saved
      <3> QED BY <1>3, <1>4, <1>5, <2>3, <3>3, <3>4 DEF Turns
    <2> QED BY <2>5, <2>6
  <1>7. CASE s[1] # "save"
    <2>1. /\ s \in {<<"unlink_rest">>, <<"null_keys">>, <<"delete_old">>, <<"unlink">>, <<"find">>}
          /\ s = <<"null_keys">> => Of(links', o) = {}
          /\ s \in {<<"delete_old">>, <<"find">>} => Of(links', o) = Linked(o)
          /\ IF s = <<"find">> THEN TRUE ELSE mem'[p] = mem[p] /\ fk'[p] = fk[p]
      <3>1. Busy(p)
        BY <1>1 DEF Busy
      <3> QED BY <1>1, <1>7, <3>1, OthersDo
    <2>2. /\ s \in {<<"null_keys">>, <<"delete_old">>, <<"find">>}
          /\ s = <<"find">> => c.op = "set_create"
          /\ s = <<"null_keys">> => v = {}
      <3>1. s[1] \in {"unlink_rest", "null_keys", "delete_old", "unlink", "find"} /\ s = <<s[1]>>
        BY <2>1
      <3>2. s[1] \in {"null_keys", "delete_old", "find"}
        BY <1>1, <3>1 DEF IsOf
      <3>3. s[1] = "find" => c.op = "set_create"
        BY <1>1 DEF IsOf
      <3>4. s[1] = "null_keys" => v = {}
        BY <1>1, <1>2 DEF IsOf
      <3>5. s = <<"find">> => s[1] = "find"
        OBVIOUS
      <3>6. s = <<"null_keys">> => s[1] = "null_keys"
        OBVIOUS
      <3> HIDE DEF s, v
      <3> QED BY <3>1, <3>2, <3>3, <3>4, <3>5, <3>6
    <2>3. Saved(d, o) => Saved(c, o)
      <3>1. <<"save", o>> # s
        BY <1>7
      <3> QED BY <1>1, <3>1 DEF Saved
    <2>4. <<"null_keys">> # <<"delete_old">> /\ <<"null_keys">> # <<"find">> /\ <<"find">> # <<"delete_old">>
      OBVIOUS
    <2> HIDE DEF c, d, s, e
    <2>5. CASE s = <<"null_keys">>
      <3>1. s \in Range(c.todo)
        <4>1. s \in Ahead(p)
          BY <1>1, HeadIs DEF Busy, c, s
        <4> QED BY <4>1 DEF Ahead, c
      <3>2. Of(links', o) = v /\ mem'[p][o] = mem[p][o] /\ fk'[p][o] = fk[p][o]
        BY <2>1, <2>2, <2>4, <2>5
      <3> QED BY <1>3, <1>4, <1>5, <2>5, <3>1, <3>2 DEF Turns
    <2>6. CASE s = <<"delete_old">>
      <3>1. Of(links', o) = Linked(o) /\ mem'[p][o] = mem[p][o] /\ fk'[p][o] = fk[p][o]
        BY <2>1, <2>4, <2>6
      <3>2. <<"null_keys">> \notin Range(c.todo)
        BY <1>1, <2>4, <2>6
      <3> QED BY <1>3, <1>4, <1>5, <2>3, <3>1, <3>2 DEF Turns
    <2>7. CASE s = <<"find">>
      <3>1. <<"null_keys">> \notin Range(c.todo)
        BY <1>1, <2>4, <2>7
      <3>2. Of(links', o) = Linked(o) /\ c.op = "set_create"
        BY <2>1, <2>2, <2>7
      <3> QED BY <1>3, <1>4, <1>5, <2>3, <3>1, <3>2 DEF Turns
    <2> QED BY SMTT(60), <2>2, <2>5, <2>6, <2>7
  <1> QED BY <1>6, <1>7

LEMMA ShrinksExec ==
    ASSUME ShapeInv, NEW p \in Programs, Exec(p), call[p].op = "delete",
           NEW o \in Holds(p), Shrinks(kind, call[p], o, Linked(o), mem[p][o], fk[p][o])
    PROVE  Shrinks(kind, call'[p], o, Of(links', o), mem'[p][o], fk'[p][o])
  <1> DEFINE c == call[p]
             d == call'[p]
             s == Head(c.todo)
             e == Effect(p, s)
             v == c.vals[o]
             before == Of(c.before, o)
  <1> SUFFICES Shrinks(kind, d, o, Of(links', o), mem'[p][o], fk'[p][o])
    OBVIOUS
  <1>1. /\ Keeps(c, d) /\ c.result = "none" /\ d.todo = Tail(c.todo) /\ c.todo # <<>>
        /\ s[1] # "refused" /\ IsOf(kind, c, s) /\ s \in Statements
        /\ links' = e.links
        /\ d.todo # <<>> => mem'[p] = e.mem /\ fk'[p] = e.fk
        /\ d.todo = <<>> => mem'[p] = CleanUp(p, e).mem /\ fk'[p] = CleanUp(p, e).fk
        /\ \A x \in Range(c.todo) : x = s \/ x \in Range(d.todo)
        /\ \A t \in {"find", "null_keys", "unlink"} :
             <<t>> \notin Range(d.todo) /\ (s # <<t>> => <<t>> \notin Range(c.todo))
    BY OwnStep
  <1>2. Holds(p) = Range(c.owners) /\ Holds(p) \subseteq Owners
    <2>1. call[p].owners \in Seq(Owners)
      BY DEF ShapeInv, TypeOK, CallType
    <2> QED BY <2>1, SavesAre DEF Holds
  <1>3. /\ Linked(o) = IF <<"unlink">> \in Range(c.todo) THEN before ELSE before \ v
        /\ mem[p][o] = before /\ (kind = "belongs_to" => fk[p][o] = before)
    BY <1>1 DEF Shrinks
  <1>4. Given(p) = v
    <2>1. \A u \in Holds(p) : c.vals[u] = v
      BY <1>2 DEF ShapeInv, Planned, WellFormed
    <2> QED BY <2>1 DEF Given, All
  <1>5. s[1] # "save"
    BY <1>1 DEF IsOf
  <1>6. /\ s \in {<<"unlink_rest">>, <<"null_keys">>, <<"delete_old">>, <<"unlink">>, <<"find">>}
        /\ s = <<"unlink">> => Of(links', o) = Linked(o) \ v
        /\ s \in {<<"delete_old">>, <<"find">>} => Of(links', o) = Linked(o)
        /\ IF s = <<"find">> THEN TRUE ELSE e.mem = mem[p] /\ e.fk = fk[p]
    <2>1. Busy(p)
      BY <1>1 DEF Busy
    <2> QED BY <1>1, <1>4, <1>5, <2>1, OthersDo
  <1>7. s = <<"unlink">> \/ s = <<"delete_old">>
    <2>1. s[1] \in {"unlink_rest", "null_keys", "delete_old", "unlink", "find"} /\ s = <<s[1]>>
      BY <1>6
    <2>2. s[1] \in {"unlink", "delete_old"}
      BY <1>1, <2>1 DEF IsOf
    <2> QED BY <2>1, <2>2
  <1>8. <<"unlink">> # <<"delete_old">> /\ <<"unlink">> # <<"find">> /\ <<"delete_old">> # <<"find">>
    OBVIOUS
  <1>9. d.result # "error" /\ d.op = c.op /\ d.vals = c.vals /\ d.before = c.before /\ <<"unlink">> \notin Range(d.todo)
    <2>1. d.result # "error"
      BY OwnStep
    <2> QED BY <1>1, <2>1 DEF Keeps
  <1>10. s \in Range(c.todo)
    <2>1. s \in Ahead(p)
      BY <1>1, HeadIs DEF Busy
    <2> QED BY <2>1 DEF Ahead
  <1>11. /\ CleanUp(p, e).mem[o] = before \ v
         /\ kind = "belongs_to" => CleanUp(p, e).fk[o] = IF before \cap v # {} THEN {} ELSE before
    BY <1>2, <1>3, <1>4 DEF CleanUp
  <1>12. kind = "belongs_to" => \A x, y \in before : x = y
    <2>1. IsLinks(kind, c.before)
      BY DEF ShapeInv, Planned, WellFormed
    <2>2. ASSUME kind = "belongs_to", NEW x \in before, NEW y \in before PROVE x = y
      <3>1. <<o, x>> \in c.before /\ <<o, y>> \in c.before /\ <<o, x>>[1] = <<o, y>>[1]
        BY <2>2 DEF Of
      <3>2. <<o, x>> = <<o, y>>
        BY <2>1, <2>2, <3>1 DEF IsLinks
      <3> QED BY <3>2
    <2> QED BY <2>2
  <1> HIDE DEF c, d, s, e, before, v
  <1>13. Of(links', o) = before \ v
    <2>1. CASE s = <<"unlink">>
      BY <1>3, <1>6, <1>10, <2>1
    <2>2. CASE s = <<"delete_old">>
      BY <1>1, <1>3, <1>6, <1>8, <2>2
    <2> QED BY <1>7, <2>1, <2>2
  <1>14. d.todo # <<>> => mem'[p][o] = before /\ (kind = "belongs_to" => fk'[p][o] = before)
    BY <1>1, <1>3, <1>6, <1>7, <1>8
  <1>15. d.todo = <<>> => mem'[p][o] = before \ v /\ (kind = "belongs_to" => fk'[p][o] = before \ v)
    BY ZenonT(60), <1>1, <1>11, <1>12
  <1> QED BY <1>9, <1>13, <1>14, <1>15 DEF Shrinks, before, v

LEMMA WorksExec ==
    ASSUME ShapeInv, NEW p \in Programs, Works(p), Exec(p)
    PROVE  Works(p)'
  <1> DEFINE c == call[p]
             d == call'[p]
  <1>1. Keeps(c, d) /\ kind' = kind /\ faults' = faults /\ Holds(p) = Range(c.owners)
    BY OwnStep DEF Holds
  <1>2. \A o : Of(links, o) = Linked(o)
    BY DEF Of, Linked
  <1>3. Undisturbed(kind, d) => Undisturbed(kind, c)
    BY <1>1 DEF Undisturbed, Keeps
  <1>4. ASSUME Undisturbed(kind, c), NEW o \in Holds(p)
        PROVE  /\ c.op \in {"append", "replace", "set_create"} =>
                    IF kind = "belongs_to" THEN Turns(d, o, Of(links', o), mem'[p][o], fk'[p][o])
                                           ELSE Grows(d, o, Of(links', o), mem'[p][o])
               /\ c.op = "delete" /\ ~(kind = "belongs_to" /\ c.unscoped /\ faults > 0) =>
                    Shrinks(kind, d, o, Of(links', o), mem'[p][o], fk'[p][o])
    <2>1. \A u \in Holds(p) :
            /\ c.op \in {"append", "replace", "set_create"} =>
                 IF kind = "belongs_to" THEN Turns(c, u, Linked(u), mem[p][u], fk[p][u]) ELSE Grows(c, u, Linked(u), mem[p][u])
            /\ c.op = "delete" /\ ~(kind = "belongs_to" /\ c.unscoped /\ faults > 0) =>
                 Shrinks(kind, c, u, Linked(u), mem[p][u], fk[p][u])
      BY <1>1, <1>2, <1>4 DEF Works, WorksAs
    <2>2. CASE c.op \in {"append", "replace", "set_create"} /\ kind = "belongs_to"
      BY <2>1, <2>2, TurnsExec
    <2>3. CASE c.op \in {"append", "replace", "set_create"} /\ kind # "belongs_to"
      BY <1>4, <2>1, <2>3, GrowsExec
    <2>4. CASE c.op = "delete"
      BY <2>1, <2>4, ShrinksExec
    <2> QED BY <2>2, <2>3, <2>4
  <1>5. WorksAs(kind, faults, d, links', mem'[p], fk'[p])
    <2> HIDE DEF c, d
    <2> QED BY <1>1, <1>3, <1>4 DEF WorksAs, Keeps
  <1> QED BY <1>1, <1>5 DEF Works

LEMMA WorksFail ==
    ASSUME ShapeInv, NEW p \in Programs, Works(p), Fail(p)
    PROVE  Works(p)'
  <1> DEFINE c == call[p]
             d == call'[p]
             s == Head(c.todo)
  <1>1. /\ Keeps(c, d) /\ kind' = kind /\ links' = links /\ Busy(p)
        /\ s[1] # "refused" => faults' > 0
        /\ IF Ends(p, s) THEN d.todo = <<>> /\ d.result = "error"
           ELSE d.todo = Tail(c.todo) /\ d.result = "none"
    BY FailDoes
  <1>2. c.result = "none"
    BY <1>1, HeadIs
  <1>3. ASSUME Ends(p, s)
        PROVE  WorksAs(kind, faults', d, links, mem'[p], fk'[p])
    <2> SUFFICES ASSUME Undisturbed(kind, d), NEW o \in Range(d.owners)
                 PROVE  /\ d.op \in {"append", "replace", "set_create"} =>
                             IF kind = "belongs_to" THEN Turns(d, o, Of(links, o), mem'[p][o], fk'[p][o])
                                                    ELSE Grows(d, o, Of(links, o), mem'[p][o])
                        /\ d.op = "delete" => Shrinks(kind, d, o, Of(links, o), mem'[p][o], fk'[p][o])
      BY DEF WorksAs
    <2>1. d.todo = <<>> /\ d.result = "error" /\ Range(d.todo) = {}
      BY <1>1, <1>3 DEF Range
    <2>2. Undisturbed(kind, c) /\ o \in Range(c.owners)
      BY <1>1 DEF Undisturbed, Keeps
    <2>3. c.op \in {"append", "replace", "set_create"} =>
            IF kind = "belongs_to" THEN Turns(c, o, Of(links, o), mem[p][o], fk[p][o])
                                   ELSE Grows(c, o, Of(links, o), mem[p][o])
      BY <2>2 DEF Works, WorksAs
    <2> HIDE DEF c, d, s
    <2>4. Shrinks(kind, d, o, Of(links, o), mem'[p][o], fk'[p][o])
      BY <2>1 DEF Shrinks
    <2>5. CASE d.op \in {"append", "replace", "set_create"} /\ kind = "belongs_to"
      BY <1>1, <2>1, <2>3, <2>5 DEF Turns, Keeps
    <2>6. CASE d.op \in {"append", "replace", "set_create"} /\ kind # "belongs_to"
      BY <1>1, <1>2, <2>1, <2>3, <2>6 DEF Grows, Keeps
    <2> QED BY <2>4, <2>5, <2>6
  <1>4. ASSUME ~Ends(p, s)
        PROVE  WorksAs(kind, faults', d, links, mem'[p], fk'[p])
    <2>1. c.op = "delete" /\ s[1] = "unlink" /\ Len(c.todo) > 1
      BY <1>4 DEF Ends
    <2>2. kind = "belongs_to" /\ c.unscoped
      BY <2>1 DEF ShapeInv, Planned, WellFormed, Fits
    <2>3. faults' > 0 /\ d.op = "delete" /\ d.unscoped
      BY <1>1, <2>1, <2>2 DEF Keeps
    <2> QED BY <2>2, <2>3 DEF WorksAs
  <1> QED BY <1>1, <1>3, <1>4 DEF Works

LEMMA WorksNext ==
    ASSUME ShapeInv, AloneInv, WorksInv, [Next]_vars
    PROVE  WorksInv'
  <1>1. CASE UNCHANGED vars
    BY <1>1 DEF vars, WorksInv, Works
  <1>2. ASSUME Next, NEW p \in Programs PROVE Works(p)'
    <2>1. PICK q \in Programs : Start(q) \/ Exec(q) \/ Fail(q)
      BY <1>2 DEF Next
    <2>2. CASE q = p
      BY <2>1, <2>2, WorksStart, WorksExec, WorksFail DEF WorksInv
    <2>3. CASE q # p
      <3>1. ~call'[p].alone
        BY <2>1, <2>3, AloneNext
      <3> QED BY <3>1 DEF Works, WorksAs, Undisturbed
    <2> QED BY <2>2, <2>3
  <1> QED BY <1>1, <1>2 DEF WorksInv

LEMMA WorksAlways == Spec => [](ShapeInv /\ WorksInv)
  <1>1. Init => AloneInv /\ WorksInv
    <2>1. ASSUME Init PROVE \A p \in Programs : call[p] = NoCall
      BY <2>1 DEF Init
    <2> QED BY <2>1, EmptyCall DEF AloneInv, WorksInv, Works, WorksAs, Undisturbed
  <1>2. ShapeInv /\ AloneInv /\ WorksInv /\ [Next]_vars => AloneInv' /\ WorksInv'
    BY AloneNext, WorksNext
  <1> QED BY <1>1, <1>2, ShapeInit, ShapeNext, PTL DEF Spec

LEMMA UndisturbedIs ==
    ASSUME NEW p \in Programs, call[p].alone, call[p].true, Apart(p)
    PROVE  Undisturbed(kind, call[p]) /\ Holds(p) = Range(call[p].owners)
           /\ \A o : Before(p, o) = Of(call[p].before, o) /\ Linked(o) = Of(links, o)
  BY DEF Undisturbed, Apart, Holds, Before, Linked, Of

\* Replace saves the new associations before it takes the old ones away (association.go:98-194):
\* wherever it is, and whichever of its statements has failed, an owner has all its old ones or
\* all its new ones, however many owners, records and faults there are.
THEOREM OldOnesOrNewOnes == Spec => []NeverBare
  <1>1. ShapeInv /\ WorksInv => NeverBare
    <2> SUFFICES ASSUME WorksInv, NEW p \in Programs, call[p].alone, call[p].true, Apart(p),
                        call[p].op \in {"append", "replace"}, NEW o \in Holds(p)
                 PROVE  Before(p, o) \subseteq Linked(o) \/ call[p].vals[o] \subseteq Linked(o)
      BY DEF NeverBare
    <2>1. IF kind = "belongs_to" THEN Turns(call[p], o, Linked(o), mem[p][o], fk[p][o])
                                 ELSE Grows(call[p], o, Linked(o), mem[p][o])
      BY UndisturbedIs DEF WorksInv, Works, WorksAs
    <2>2. Before(p, o) = Of(call[p].before, o)
      BY UndisturbedIs
    <2>3. CASE kind = "belongs_to"
      BY <2>1, <2>2, <2>3 DEF Turns
    <2>4. CASE kind # "belongs_to"
      BY <2>1, <2>2, <2>4 DEF Grows
    <2> QED BY <2>3, <2>4
  <1> QED BY <1>1, WorksAlways, PTL

\* A call that had the tables for itself and returned nil has left every owner with the links
\* it was asked for, and the struct in memory agreeing with them (association.go:59-400), for
\* every relation, every list of owners and every values of theirs.
THEOREM DoesAsAsked == Spec => []DoneAsAsked
  <1>1. ShapeInv /\ WorksInv => DoneAsAsked
    <2> SUFFICES ASSUME ShapeInv, WorksInv, NEW p \in Programs, call[p].alone, call[p].true, Apart(p),
                        call[p].result = "nil", ~Forgiven(p), NEW o \in Holds(p)
                 PROVE  /\ Linked(o) = Asked(p, o)
                        /\ call[p].op \in {"append", "replace", "delete"} => Agrees(p, o)
      BY DEF DoneAsAsked
    <2> DEFINE c == call[p]
               v == c.vals[o]
    <2>1. c.todo = <<>> /\ c.op \in Ops \cup {"none"}
      BY DEF ShapeInv, Planned, WellFormed, TypeOK, CallType
    <2>2. \A x : x \notin Range(c.todo)
      BY <2>1 DEF Range
    <2>3. Before(p, o) = Of(c.before, o) /\ Linked(o) = Of(links, o) /\ Undisturbed(kind, c) /\ o \in Range(c.owners)
      BY UndisturbedIs
    <2>4. WorksAs(kind, faults, c, links, mem[p], fk[p])
      BY DEF WorksInv, Works
    <2>5. CASE c.op \in {"append", "replace", "set_create"} /\ kind = "belongs_to"
      <3>1. Turns(c, o, Linked(o), mem[p][o], fk[p][o])
        BY <2>3, <2>4, <2>5 DEF WorksAs
      <3>2. Linked(o) = v /\ (c.op # "set_create" => mem[p][o] = v /\ fk[p][o] = v)
        BY <2>2, <3>1 DEF Turns, Saved
      <3>3. Asked(p, o) = v
        BY <2>5 DEF Asked
      <3>4. c.op \in {"append", "replace", "delete"} => c.op # "set_create"
        OBVIOUS
      <3> HIDE DEF v
      <3> QED BY <2>5, <3>2, <3>3, <3>4 DEF Agrees
    <2>6. CASE c.op \in {"append", "replace", "set_create"} /\ kind # "belongs_to"
      <3>1. Grows(c, o, Linked(o), mem[p][o])
        BY <2>3, <2>4, <2>6 DEF WorksAs
      <3>2. Saved(c, o) /\ c.result # "error"
        BY <2>2 DEF Saved
      <3>3. CASE c.op = "replace"
        BY <2>6, <3>1, <3>2, <3>3 DEF Grows, Asked, Agrees
      <3>4. CASE c.op \in {"append", "set_create"}
        <4>1. /\ Linked(o) = Before(p, o) \cup v
              /\ c.op = "append" => mem[p][o] = Before(p, o) \cup v
          BY <2>3, <3>1, <3>2, <3>4 DEF Grows
        <4>2. Asked(p, o) = Before(p, o) \cup v
          BY <2>6, <3>4 DEF Asked
        <4> QED BY <2>6, <3>4, <4>1, <4>2 DEF Agrees
      <3> QED BY <2>6, <3>3, <3>4
    <2>7. CASE c.op = "delete"
      <3>1. Shrinks(kind, c, o, Linked(o), mem[p][o], fk[p][o])
        BY <2>3, <2>4, <2>7 DEF WorksAs, Forgiven
      <3>2. Linked(o) = Before(p, o) \ v /\ mem[p][o] = Linked(o) /\ (kind = "belongs_to" => fk[p][o] = Linked(o))
        BY <2>1, <2>2, <2>3, <3>1 DEF Shrinks
      <3> QED BY <2>7, <3>2 DEF Asked, Agrees
    <2>8. CASE c.op \in {"preload", "set_unlink", "set_delete", "none"}
      BY <2>8 DEF Asked
    <2> QED BY <2>1, <2>5, <2>6, <2>7, <2>8 DEF Ops
  <1> QED BY <1>1, WorksAlways, PTL

------------------------------------------------------------------------------
(***************************************************************************)
(* The G[T] values of the generic API, for every way to make one of        *)
(* another (Op are the operations there are, in an order of any length).   *)
(***************************************************************************)
GensNext(Op) ==
    \/ \E d \in Nat, opts \in Seq(Op) : G(d, opts)
    \/ \E i \in DOMAIN gens :
          \/ \E op \in Op : With(i, op)
          \/ \E sql : [op |-> "raw", sql |-> sql] \in Op /\ ~gens[i].rawed /\ Raw(i, sql)

Gen == [db : Nat, ops : [arr : Nat, len : Nat], kind : {"g", "chain", "exec"}, rawed : BOOLEAN]

GenTypes(Op) ==
    /\ gens \in Seq(Gen) /\ opArrays \in Seq(Seq(Op \cup {NoOp})) /\ gAsked \in Seq(Seq(Op))
    /\ Len(gAsked) = Len(gens)

\* The slice of g lies in its array, and has what was asked for.
HasAsked(g, arrays, ops) ==
    /\ g.ops.arr \in DOMAIN arrays /\ g.ops.len = Len(ops) /\ Len(ops) =< Len(arrays[g.ops.arr])
    /\ \A k \in 1..Len(ops) : arrays[g.ops.arr][k] = ops[k]

StandForAsked == \A i \in DOMAIN gens : HasAsked(gens[i], opArrays, gAsked[i])

\* Who may still call Raw on a new G[T] is the only one to hold its array.
SoleHolders ==
    \A i, j \in DOMAIN gens :
        i # j /\ gens[i].ops.arr = gens[j].ops.arr /\ gens[i].kind = "g" => gens[i].rawed

GensInv(Op) == GenTypes(Op) /\ StandForAsked /\ SoleHolders

LEMMA AsAsked ==
    ASSUME NEW S, NEW arrays \in Seq(Seq(S)), NEW ops \in Seq(S), NEW g \in Gen,
           HasAsked(g, arrays, ops)
    PROVE  OpsIn(arrays, g) = ops
  <1> DEFINE a == arrays[g.ops.arr]
  <1>1. a \in Seq(S) /\ g.ops.len \in 0..Len(a) /\ g.ops.len = Len(ops)
    BY DEF HasAsked
  <1>2. SubSeq(a, 1, g.ops.len) = [k \in 1..Len(ops) |-> a[k]]
    BY <1>1
  <1>3. \A k \in 1..Len(ops) : a[k] = ops[k]
    BY DEF HasAsked
  <1>4. ops = [k \in 1..Len(ops) |-> ops[k]]
    OBVIOUS
  <1> QED BY <1>2, <1>3, <1>4 DEF OpsIn

\* The same values, of which more may have been given to Raw.
Marked(gs) ==
    /\ gs \in Seq(Gen) /\ Len(gs) = Len(gens)
    /\ \A i \in DOMAIN gens : /\ gs[i].ops = gens[i].ops /\ gs[i].kind = gens[i].kind
                              /\ gens[i].rawed => gs[i].rawed

\* A new value after the others, whose operations are its list.
Added(gs, g, ops) == gens' = Append(gs, g) /\ gAsked' = Append(gAsked, ops)

\* With an array of its own.
LEMMA OwnArray ==
    ASSUME NEW Op, GensInv(Op), NEW gs, Marked(gs), NEW a \in Seq(Op \cup {NoOp}),
           NEW g \in Gen, NEW ops \in Seq(Op), Added(gs, g, ops),
           opArrays' = Append(opArrays, a),
           g.ops.arr = Len(opArrays) + 1, HasAsked(g, opArrays', ops)
    PROVE  GensInv(Op)'
  <1>1. GenTypes(Op)'
    BY DEF GensInv, GenTypes, Added, Marked
  <1>2. Len(gens') = Len(gens) + 1 /\ DOMAIN gens = 1..Len(gens) /\ DOMAIN gens' = 1..Len(gens')
        /\ Len(gens) \in Nat /\ gens'[Len(gens) + 1] = g /\ gAsked'[Len(gens) + 1] = ops
        /\ DOMAIN opArrays = 1..Len(opArrays) /\ Len(opArrays) \in Nat
    BY DEF GensInv, GenTypes, Added, Marked
  <1>3. ASSUME NEW i \in DOMAIN gens
        PROVE  /\ gens'[i] = gs[i] /\ gAsked'[i] = gAsked[i]
               /\ gens[i].ops.arr \in DOMAIN opArrays /\ HasAsked(gens[i], opArrays, gAsked[i])
               /\ gens'[i].ops = gens[i].ops /\ gens'[i].kind = gens[i].kind
               /\ gens[i].rawed => gens'[i].rawed
    BY SMTT(60), <1>2 DEF GensInv, GenTypes, StandForAsked, HasAsked, Added, Marked
  <1>4. \A n \in DOMAIN opArrays : n \in DOMAIN opArrays' /\ opArrays'[n] = opArrays[n]
    BY <1>2 DEF GensInv, GenTypes
  <1>5. StandForAsked'
    <2> SUFFICES ASSUME NEW i \in DOMAIN gens' PROVE HasAsked(gens'[i], opArrays', gAsked'[i])
      BY DEF StandForAsked
    <2>1. CASE i \in DOMAIN gens
      <3>1. HasAsked(gens[i], opArrays, gAsked[i])
        BY <1>3, <2>1
      <3>2. gens'[i].ops = gens[i].ops /\ gAsked'[i] = gAsked[i]
        BY <1>3, <2>1
      <3>3. gens[i].ops.arr \in DOMAIN opArrays'
            /\ opArrays'[gens[i].ops.arr] = opArrays[gens[i].ops.arr]
        BY <1>3, <1>4, <2>1
      <3> QED BY ONLY <3>1, <3>2, <3>3 DEF HasAsked
    <2>2. CASE i = Len(gens) + 1
      BY <1>2, <2>2
    <2> QED BY <1>2, <2>1, <2>2
  <1>6. SoleHolders'
    <2> SUFFICES ASSUME NEW i \in DOMAIN gens', NEW j \in DOMAIN gens', i # j,
                        gens'[i].ops.arr = gens'[j].ops.arr, gens'[i].kind = "g"
                 PROVE  gens'[i].rawed
      BY DEF SoleHolders
    <2>1. i \in DOMAIN gens /\ j \in DOMAIN gens
      BY SMTT(60), <1>2, <1>3
    <2> QED BY <1>3, <2>1 DEF GensInv, SoleHolders
  <1> QED BY <1>1, <1>5, <1>6 DEF GensInv

\* The value at i has been given to Raw.
LEMMA MarkOne ==
    ASSUME gens \in Seq(Gen), NEW i \in DOMAIN gens, NEW gs, gs = [gens EXCEPT ![i].rawed = TRUE]
    PROVE  Marked(gs) /\ gs[i].rawed
  <1>1. ASSUME NEW x \in Gen, NEW y, y = [x EXCEPT !.rawed = TRUE]
        PROVE  y \in Gen /\ y.ops = x.ops /\ y.kind = x.kind /\ y.rawed
    BY <1>1 DEF Gen
  <1>2. PICK y : y = [gens[i] EXCEPT !.rawed = TRUE]
    OBVIOUS
  <1>3. gens[i] \in Gen
    OBVIOUS
  <1>4. y \in Gen /\ y.ops = gens[i].ops /\ y.kind = gens[i].kind /\ y.rawed
    BY <1>1, <1>2, <1>3
  <1>5. gs = [gens EXCEPT ![i] = y]
    BY <1>2
  <1>6. gs \in Seq(Gen) /\ Len(gs) = Len(gens) /\ gs[i] = y /\ \A j \in DOMAIN gens : j # i => gs[j] = gens[j]
    BY ONLY gens \in Seq(Gen), i \in DOMAIN gens, <1>4, <1>5
  <1> QED BY ONLY <1>4, <1>6 DEF Marked

\* The array ar with op behind its first m cells.
LEMMA WrittenBehind ==
    ASSUME NEW S, NEW ar \in Seq(S), NEW op \in S, NEW m \in Nat, m < Len(ar),
           NEW r, r = [ar EXCEPT ![m + 1] = op]
    PROVE  r \in Seq(S) /\ Len(r) = Len(ar) /\ r[m + 1] = op /\ \A k \in 1..m : r[k] = ar[k]
  OBVIOUS

\* In the array of a G[T] which nobody has called Raw on, behind its operations.
LEMMA InPlace ==
    ASSUME NEW Op, GensInv(Op), NEW i \in DOMAIN gens, NEW op \in Op, NEW gs, Marked(gs), gs[i].rawed,
           ~gens[i].rawed, gens[i].kind = "g", NEW g \in Gen, g.kind = "exec",
           g.ops.arr = gens[i].ops.arr, g.ops.len = gens[i].ops.len + 1,
           gens[i].ops.len < Len(opArrays[gens[i].ops.arr]),
           opArrays' = [opArrays EXCEPT ![gens[i].ops.arr][gens[i].ops.len + 1] = op],
           Added(gs, g, Append(gAsked[i], op))
    PROVE  GensInv(Op)'
  <1>1. PICK n, m, ops : n = gens[i].ops.arr /\ m = gens[i].ops.len /\ ops = Append(gAsked[i], op)
    OBVIOUS
  <1>2. /\ HasAsked(gens[i], opArrays, gAsked[i])
        /\ gens \in Seq(Gen) /\ opArrays \in Seq(Seq(Op \cup {NoOp})) /\ gAsked \in Seq(Seq(Op))
        /\ Len(gAsked) = Len(gens)
    BY ONLY GensInv(Op), i \in DOMAIN gens DEF GensInv, GenTypes, StandForAsked
  <1>3. n \in DOMAIN opArrays /\ m = Len(gAsked[i]) /\ \A k \in 1..m : opArrays[n][k] = gAsked[i][k]
    BY ONLY <1>1, <1>2 DEF HasAsked
  <1>4. DOMAIN gens = 1..Len(gens) /\ Len(gens) \in Nat /\ gAsked[i] \in Seq(Op) /\ m \in Nat
        /\ opArrays[n] \in Seq(Op \cup {NoOp})
    BY ONLY <1>2, <1>3, i \in DOMAIN gens
  <1>5. ops \in Seq(Op) /\ Len(ops) = m + 1 /\ ops[m + 1] = op /\ \A k \in 1..m : ops[k] = gAsked[i][k]
    BY ONLY <1>1, <1>3, <1>4, op \in Op
  <1>6. PICK r : r = [opArrays[n] EXCEPT ![m + 1] = op]
    OBVIOUS
  <1>7. r \in Seq(Op \cup {NoOp}) /\ Len(r) = Len(opArrays[n]) /\ r[m + 1] = op
        /\ \A k \in 1..m : r[k] = opArrays[n][k]
    <2>1. m < Len(opArrays[n]) /\ op \in Op \cup {NoOp}
      BY <1>1
    <2> QED BY ONLY <1>4, <1>6, <2>1, WrittenBehind
  <1>8. opArrays' = [opArrays EXCEPT ![n] = r]
    BY <1>1, <1>6
  <1>9. /\ opArrays' \in Seq(Seq(Op \cup {NoOp})) /\ DOMAIN opArrays' = DOMAIN opArrays
        /\ \A k \in DOMAIN opArrays : k # n => opArrays'[k] = opArrays[k]
        /\ opArrays'[n] = r
    BY ONLY <1>2, <1>3, <1>7, <1>8
  <1>10. gs \in Seq(Gen) /\ Len(gs) = Len(gens) /\ gens' = Append(gs, g) /\ gAsked' = Append(gAsked, ops)
    BY <1>1 DEF Added, Marked
  <1>11. /\ gens' \in Seq(Gen) /\ gAsked' \in Seq(Seq(Op)) /\ Len(gAsked') = Len(gens')
         /\ DOMAIN gens' = 1..(Len(gens) + 1)
         /\ gens'[Len(gens) + 1] = g /\ gAsked'[Len(gens) + 1] = ops
         /\ \A j \in DOMAIN gens : gens'[j] = gs[j] /\ gAsked'[j] = gAsked[j]
    <2>1. /\ gens' \in Seq(Gen) /\ Len(gens') = Len(gens) + 1 /\ DOMAIN gens' = 1..(Len(gens) + 1)
          /\ gens'[Len(gens) + 1] = g /\ \A j \in DOMAIN gens : gens'[j] = gs[j]
      <3>1. gs \in Seq(Gen) /\ gens' = Append(gs, g)
        BY ONLY <1>10
      <3>2. /\ gens' \in Seq(Gen) /\ Len(gens') = Len(gs) + 1 /\ DOMAIN gens' = 1..(Len(gs) + 1)
            /\ gens'[Len(gs) + 1] = g /\ \A j \in 1..Len(gs) : gens'[j] = gs[j]
        BY ONLY <3>1, g \in Gen
      <3> QED BY ONLY <1>4, <1>10, <3>2
    <2>2. /\ gAsked' \in Seq(Seq(Op)) /\ Len(gAsked') = Len(gAsked) + 1
          /\ gAsked'[Len(gAsked) + 1] = ops /\ \A j \in 1..Len(gAsked) : gAsked'[j] = gAsked[j]
      <3>1. gAsked \in Seq(Seq(Op)) /\ ops \in Seq(Op) /\ gAsked' = Append(gAsked, ops)
        BY ONLY <1>2, <1>5, <1>10
      <3> QED BY ONLY <3>1
    <2> QED BY ONLY <1>2, <1>4, <2>1, <2>2
  <1>12. GenTypes(Op)'
    BY ONLY <1>9, <1>11 DEF GenTypes
  <1>13. \A j \in DOMAIN gens : /\ gens'[j].ops = gens[j].ops /\ gens'[j].kind = gens[j].kind
                                /\ gens[j].rawed => gens'[j].rawed
                                /\ j = i => gens'[j].rawed
    BY SMTT(60), <1>11 DEF Marked
  <1>14. \A j \in DOMAIN gens : j # i => gens[j].ops.arr # n
    BY <1>1 DEF GensInv, SoleHolders
  <1>15. StandForAsked'
    <2> SUFFICES ASSUME NEW j \in DOMAIN gens' PROVE HasAsked(gens'[j], opArrays', gAsked'[j])
      BY DEF StandForAsked
    <2>1. CASE j \in DOMAIN gens /\ j # i
      <3>1. HasAsked(gens[j], opArrays, gAsked[j])
        BY <2>1 DEF GensInv, StandForAsked
      <3>2. gens'[j].ops = gens[j].ops /\ gAsked'[j] = gAsked[j] /\ gens[j].ops.arr # n
        BY <1>11, <1>13, <1>14, <2>1
      <3>3. gens[j].ops.arr \in DOMAIN opArrays
        BY ONLY <3>1 DEF HasAsked
      <3>4. opArrays'[gens[j].ops.arr] = opArrays[gens[j].ops.arr]
        BY ONLY <1>9, <3>2, <3>3
      <3> QED BY ONLY <1>9, <3>1, <3>2, <3>4 DEF HasAsked
    <2>2. CASE j = i
      <3>1. gens'[j].ops = gens[i].ops /\ gAsked'[j] = gAsked[i]
        BY <1>11, <1>13, <2>2
      <3>2. n \in DOMAIN opArrays' /\ opArrays'[n] = r /\ Len(r) = Len(opArrays[n])
            /\ \A k \in 1..m : r[k] = gAsked[i][k]
        BY ONLY <1>3, <1>7, <1>9
      <3>3. m =< Len(opArrays[n])
        BY ONLY <1>1, <1>2, <1>3 DEF HasAsked
      <3> QED BY ONLY <1>1, <1>3, <3>1, <3>2, <3>3 DEF HasAsked
    <2>3. CASE j = Len(gens) + 1
      <3>1. gens'[j] = g /\ gAsked'[j] = ops /\ g.ops.arr = n /\ g.ops.len = m + 1
        BY <1>1, <1>11, <2>3
      <3>2. \A k \in 1..(m + 1) : r[k] = ops[k]
        BY ONLY SMTT(60), <1>3, <1>4, <1>5, <1>7
      <3>3. m + 1 =< Len(r)
        BY <1>1, <1>4, <1>7
      <3> QED BY ONLY <1>3, <1>5, <1>9, <3>1, <3>2, <3>3 DEF HasAsked
    <2> QED BY ONLY <1>4, <1>11, <2>1, <2>2, <2>3, j \in DOMAIN gens'
  <1>16. SoleHolders'
    <2> SUFFICES ASSUME NEW j \in DOMAIN gens', NEW l \in DOMAIN gens', j # l,
                        gens'[j].ops.arr = gens'[l].ops.arr, gens'[j].kind = "g"
                 PROVE  gens'[j].rawed
      BY DEF SoleHolders
    <2>1. gens'[Len(gens) + 1].kind = "exec" /\ gens'[Len(gens) + 1].ops.arr = n
      BY <1>1, <1>11
    <2>2. j \in DOMAIN gens
      BY ONLY <1>4, <1>11, <2>1, j \in DOMAIN gens', gens'[j].kind = "g"
    <2>3. CASE j = i
      BY ONLY <1>13, <2>2, <2>3
    <2>4. CASE j # i
      <3>1. gens'[j].ops.arr = gens[j].ops.arr /\ gens[j].ops.arr # n /\ gens'[j].kind = gens[j].kind
        BY ONLY <1>13, <1>14, <2>2, <2>4
      <3>2. l \in DOMAIN gens
        BY ONLY <1>4, <1>11, <2>1, <3>1, l \in DOMAIN gens', gens'[j].ops.arr = gens'[l].ops.arr
      <3>3. gens[l].ops.arr = gens[j].ops.arr
        BY ONLY <1>13, <3>1, <3>2, gens'[j].ops.arr = gens'[l].ops.arr
      <3>4. gens[j].rawed
        BY <2>2, <3>1, <3>2, <3>3 DEF GensInv, SoleHolders
      <3> QED BY ONLY <1>13, <2>2, <3>4
    <2> QED BY <2>3, <2>4
  <1> QED BY ONLY <1>12, <1>15, <1>16 DEF GensInv

LEMMA GensStart == ASSUME NEW Op, OpsInit PROVE GensInv(Op)
  <1> DEFINE a == [i \in 1..Room4Ops |-> NoOp]
  <1>1. a \in Seq(Op \cup {NoOp}) /\ Len(a) \in Nat
    BY RoomAssumption
  <1>2. gens \in Seq(Gen) /\ opArrays \in Seq(Seq(Op \cup {NoOp})) /\ gAsked \in Seq(Seq(Op))
        /\ Len(gAsked) = Len(gens)
    <2>1. gens[1] \in Gen
      BY DEF OpsInit, Gen
    <2> QED BY <1>1, <2>1 DEF OpsInit
  <1>3. DOMAIN gens = {1} /\ gens[1].ops.arr = 1 /\ gens[1].ops.len = 0
        /\ gAsked[1] = <<>> /\ 1 \in DOMAIN opArrays /\ opArrays[1] = a
    BY DEF OpsInit
  <1> QED BY <1>1, <1>2, <1>3 DEF GensInv, GenTypes, StandForAsked, HasAsked, SoleHolders

LEMMA NewKeeps ==
    ASSUME NEW Op, GensInv(Op), NEW d \in Nat, NEW opts \in Seq(Op), G(d, opts)
    PROVE  GensInv(Op)'
  <1> DEFINE spare == [i \in 1..(Room4Ops - Len(opts)) |-> NoOp]
             a == opts \o spare
             g == [db |-> d, ops |-> [arr |-> Len(opArrays) + 1, len |-> Len(opts)],
                   kind |-> "g", rawed |-> FALSE]
  <1>1. spare \in Seq({NoOp})
    <2>1. CASE Room4Ops - Len(opts) \in Nat
      BY <2>1
    <2>2. CASE Room4Ops - Len(opts) \notin Nat
      <3>1. 1..(Room4Ops - Len(opts)) = 1..0
        BY <2>2, RoomAssumption
      <3>2. spare = [i \in 1..0 |-> NoOp]
        BY <3>1
      <3>3. [i \in 1..0 |-> NoOp] \in Seq({NoOp})
        OBVIOUS
      <3> QED BY <3>2, <3>3
    <2> QED BY <2>1, <2>2
  <1>2. a \in Seq(Op \cup {NoOp}) /\ Len(opts) =< Len(a) /\ \A k \in 1..Len(opts) : a[k] = opts[k]
    <2>1. opts \in Seq(Op \cup {NoOp}) /\ spare \in Seq(Op \cup {NoOp})
      BY <1>1
    <2> HIDE DEF spare
    <2> QED BY <2>1
  <1>3. g \in Gen /\ g.ops.arr = Len(opArrays) + 1 /\ g.ops.len = Len(opts)
    BY DEF Gen, GensInv, GenTypes
  <1>4. opArrays' = Append(opArrays, a) /\ Added(gens, g, opts)
    BY DEF G, Added
  <1>5. HasAsked(g, opArrays', opts)
    <2> HIDE DEF a, g
    <2>1. opArrays'[Len(opArrays) + 1] = a /\ Len(opArrays) + 1 \in DOMAIN opArrays'
      BY <1>2, <1>4 DEF GensInv, GenTypes
    <2> QED BY <1>2, <1>3, <2>1 DEF HasAsked
  <1>6. Marked(gens)
    BY DEF Marked, GensInv, GenTypes
  <1> HIDE DEF a, g
  <1> QED BY <1>2, <1>3, <1>4, <1>5, <1>6, OwnArray

\* Both With and Raw, where there is no room, copy the operations.
LEMMA CopyKeeps ==
    ASSUME NEW Op, GensInv(Op), NEW i \in DOMAIN gens, NEW op \in Op, NEW gs, Marked(gs),
           NEW g \in Gen, g.ops.arr = Len(opArrays) + 1, g.ops.len = gens[i].ops.len + 1,
           opArrays' = Append(opArrays, Append(OpsIn(opArrays, gens[i]), op)),
           Added(gs, g, Append(gAsked[i], op))
    PROVE  GensInv(Op)'
  <1> DEFINE a == Append(gAsked[i], op)
  <1>1. gens[i] \in Gen /\ gAsked[i] \in Seq(Op) /\ HasAsked(gens[i], opArrays, gAsked[i])
        /\ opArrays \in Seq(Seq(Op \cup {NoOp})) /\ gens[i].ops.len = Len(gAsked[i])
    BY DEF GensInv, GenTypes, StandForAsked, HasAsked
  <1>2. gAsked[i] \in Seq(Op \cup {NoOp})
    BY <1>1
  <1>3. OpsIn(opArrays, gens[i]) = gAsked[i]
    BY <1>1, <1>2, AsAsked
  <1>4. a \in Seq(Op) /\ a \in Seq(Op \cup {NoOp}) /\ Len(a) = g.ops.len
    BY <1>1, <1>2
  <1>5. opArrays' = Append(opArrays, a)
    BY <1>3
  <1>6. HasAsked(g, opArrays', a)
    <2> HIDE DEF a
    <2>1. opArrays'[Len(opArrays) + 1] = a /\ Len(opArrays) + 1 \in DOMAIN opArrays'
      BY <1>1, <1>4, <1>5
    <2> QED BY <1>4, <2>1 DEF HasAsked
  <1> HIDE DEF a
  <1> QED BY <1>4, <1>5, <1>6, OwnArray DEF a

LEMMA WithKeeps ==
    ASSUME NEW Op, GensInv(Op), NEW i \in DOMAIN gens, NEW op \in Op, With(i, op)
    PROVE  GensInv(Op)'
  <1> DEFINE ops == Append(OpsIn(opArrays, gens[i]), op)
             g == [db |-> gens[i].db, ops |-> [arr |-> Len(opArrays) + 1, len |-> Len(ops)],
                   kind |-> "chain", rawed |-> FALSE]
  <1>1. gens[i] \in Gen /\ gAsked[i] \in Seq(Op) /\ HasAsked(gens[i], opArrays, gAsked[i])
        /\ opArrays \in Seq(Seq(Op \cup {NoOp})) /\ gens[i].ops.len = Len(gAsked[i])
    BY DEF GensInv, GenTypes, StandForAsked, HasAsked
  <1>2. OpsIn(opArrays, gens[i]) = gAsked[i]
    <2>1. gAsked[i] \in Seq(Op \cup {NoOp})
      BY <1>1
    <2> QED BY <1>1, <2>1, AsAsked
  <1>3. Len(ops) = gens[i].ops.len + 1 /\ Len(ops) \in Nat
    BY <1>1, <1>2
  <1>4. g \in Gen /\ g.ops.arr = Len(opArrays) + 1 /\ g.ops.len = gens[i].ops.len + 1
    <2> HIDE DEF ops
    <2> QED BY <1>1, <1>3 DEF Gen
  <1>5. Marked(gens)
    BY DEF Marked, GensInv, GenTypes
  <1>6. opArrays' = Append(opArrays, ops) /\ Added(gens, g, Append(gAsked[i], op))
    BY DEF With, Added
  <1> HIDE DEF g
  <1> QED BY <1>4, <1>5, <1>6, CopyKeeps

LEMMA RawKeeps ==
    ASSUME NEW Op, GensInv(Op), NEW i \in DOMAIN gens, NEW sql,
           [op |-> "raw", sql |-> sql] \in Op, ~gens[i].rawed, Raw(i, sql)
    PROVE  GensInv(Op)'
  <1>1. PICK op : op = [op |-> "raw", sql |-> sql]
    OBVIOUS
  <1>2. PICK a : a = AppendOp(gens[i], op)
    OBVIOUS
  <1>3. PICK g, gs : /\ g = [db |-> gens[i].db, ops |-> a.slice, kind |-> "exec", rawed |-> TRUE]
                     /\ gs = [gens EXCEPT ![i].rawed = TRUE]
    OBVIOUS
  <1>4. op \in Op
    BY <1>1
  <1>5. gens[i] \in Gen /\ gens \in Seq(Gen) /\ opArrays \in Seq(Seq(Op \cup {NoOp}))
    BY DEF GensInv, GenTypes
  <1>6. Marked(gs) /\ gs[i].rawed
    BY <1>3, <1>5, MarkOne
  <1>7. gens[i].kind = "g" /\ opArrays' = a.arrays /\ Added(gs, g, Append(gAsked[i], op))
    BY <1>1, <1>2, <1>3 DEF Raw, Added
  <1>8. g.ops = a.slice /\ g.kind = "exec"
    BY ONLY <1>3
  <1>9. gens[i].ops = [arr |-> gens[i].ops.arr, len |-> gens[i].ops.len]
        /\ gens[i].ops.arr \in Nat /\ gens[i].ops.len \in Nat /\ gens[i].db \in Nat
    BY ONLY <1>5 DEF Gen
  <1>10. ASSUME NEW k \in Nat, a.slice = [arr |-> k, len |-> gens[i].ops.len + 1]
         PROVE  g \in Gen /\ g.ops.arr = k /\ g.ops.len = gens[i].ops.len + 1
    BY ONLY <1>3, <1>9, <1>10 DEF Gen
  <1>11. CASE gens[i].ops.len < Len(opArrays[gens[i].ops.arr])
    <2>1. a = [arrays |-> [opArrays EXCEPT ![gens[i].ops.arr][gens[i].ops.len + 1] = op],
               slice  |-> [gens[i].ops EXCEPT !.len = @ + 1]]
      BY ONLY <1>2, <1>11 DEF AppendOp
    <2>2. a.slice = [arr |-> gens[i].ops.arr, len |-> gens[i].ops.len + 1]
      BY ONLY <1>9, <2>1
    <2>3. opArrays' = [opArrays EXCEPT ![gens[i].ops.arr][gens[i].ops.len + 1] = op]
      BY ONLY <1>7, <2>1
    <2>4. g \in Gen /\ g.ops.arr = gens[i].ops.arr /\ g.ops.len = gens[i].ops.len + 1
      BY <1>9, <1>10, <2>2
    <2> QED BY <1>4, <1>6, <1>7, <1>8, <1>11, <2>3, <2>4, InPlace
  <1>12. CASE ~(gens[i].ops.len < Len(opArrays[gens[i].ops.arr]))
    <2>1. a = [arrays |-> Append(opArrays, Append(OpsIn(opArrays, gens[i]), op)),
               slice  |-> [arr |-> Len(opArrays) + 1, len |-> gens[i].ops.len + 1]]
      BY ONLY <1>2, <1>12 DEF AppendOp
    <2>2. opArrays' = Append(opArrays, Append(OpsIn(opArrays, gens[i]), op))
      BY ONLY <1>7, <2>1
    <2>3. Len(opArrays) + 1 \in Nat
      BY <1>5
    <2>4. g \in Gen /\ g.ops.arr = Len(opArrays) + 1 /\ g.ops.len = gens[i].ops.len + 1
      BY <1>10, <2>1, <2>3
    <2> QED BY <1>4, <1>6, <1>7, <2>2, <2>4, CopyKeeps
  <1> QED BY <1>11, <1>12

\* What was asked for on the way to a value stays as it is.
LEMMA AskedStays ==
    ASSUME NEW Op, GensInv(Op), [GensNext(Op)]_gvars, NEW i \in DOMAIN gens
    PROVE  i \in DOMAIN gens' /\ gAsked'[i] = gAsked[i]
  <1>1. gens \in Seq(Gen) /\ Len(gAsked) = Len(gens) /\ gAsked \in Seq(Seq(Op)) /\ i \in 1..Len(gens)
    BY DEF GensInv, GenTypes
  <1>2. ASSUME NEW gs, gs \in Seq(Gen), Len(gs) = Len(gens), NEW g, NEW ops, Added(gs, g, ops)
        PROVE  i \in DOMAIN gens' /\ gAsked'[i] = gAsked[i]
    BY <1>1, <1>2 DEF Added
  <1>3. ASSUME NEW d \in Nat, NEW opts \in Seq(Op), G(d, opts)
        PROVE  \E g, ops : Added(gens, g, ops)
    BY <1>3 DEF G, Added
  <1>4. ASSUME NEW j \in DOMAIN gens, NEW op \in Op, With(j, op)
        PROVE  \E g, ops : Added(gens, g, ops)
    BY <1>4 DEF With, Added
  <1>5. ASSUME NEW j \in DOMAIN gens, NEW sql, Raw(j, sql)
        PROVE  \E g, ops : Added([gens EXCEPT ![j].rawed = TRUE], g, ops)
    BY <1>5 DEF Raw, Added
  <1>6. \A j \in DOMAIN gens : [gens EXCEPT ![j].rawed = TRUE] \in Seq(Gen)
                               /\ Len([gens EXCEPT ![j].rawed = TRUE]) = Len(gens)
    BY <1>1, MarkOne DEF Marked
  <1>7. CASE UNCHANGED gvars
    BY <1>7 DEF gvars
  <1>8. CASE \E d \in Nat, opts \in Seq(Op) : G(d, opts)
    BY <1>1, <1>2, <1>3, <1>8
  <1>9. CASE \E j \in DOMAIN gens : \E op \in Op : With(j, op)
    BY <1>1, <1>2, <1>4, <1>9
  <1>10. CASE \E j \in DOMAIN gens : \E sql : Raw(j, sql)
    BY <1>2, <1>5, <1>6, <1>10
  <1> QED BY <1>7, <1>8, <1>9, <1>10 DEF GensNext

LEMMA GensStep ==
    ASSUME NEW Op, GensInv(Op), [GensNext(Op)]_gvars
    PROVE  GensInv(Op)' /\ \A i \in DOMAIN gens : OpsIn(opArrays', gens'[i]) = OpsIn(opArrays, gens[i])
  <1>1. GensInv(Op)'
    <2>1. CASE UNCHANGED gvars
      BY <2>1 DEF gvars, GensInv, GenTypes, StandForAsked, SoleHolders
    <2> QED BY <2>1, NewKeeps, WithKeeps, RawKeeps DEF GensNext
  <1>2. ASSUME NEW i \in DOMAIN gens
        PROVE  /\ OpsIn(opArrays, gens[i]) = gAsked[i]
    <2>1. /\ gens[i] \in Gen /\ gAsked[i] \in Seq(Op \cup {NoOp})
          /\ opArrays \in Seq(Seq(Op \cup {NoOp})) /\ HasAsked(gens[i], opArrays, gAsked[i])
      BY DEF GensInv, GenTypes, StandForAsked
    <2> QED BY <2>1, AsAsked
  <1>3. ASSUME NEW i \in DOMAIN gens'
        PROVE  OpsIn(opArrays', gens'[i]) = gAsked'[i]
    <2>1. /\ gens'[i] \in Gen /\ gAsked'[i] \in Seq(Op \cup {NoOp})
          /\ opArrays' \in Seq(Seq(Op \cup {NoOp})) /\ HasAsked(gens'[i], opArrays', gAsked'[i])
      BY <1>1 DEF GensInv, GenTypes, StandForAsked
    <2> QED BY <2>1, AsAsked
  <1> QED BY <1>1, <1>2, <1>3, AskedStays

(***************************************************************************)
(* However G[T] values are made of each other, a G[T] has the same         *)
(* operations as long as it lives (chainG.with, g.Raw), if Raw is called   *)
(* once on each: the second would write where the first has written.       *)
(***************************************************************************)
THEOREM GensAreFrozen ==
    ASSUME NEW Op
    PROVE  OpsInit /\ [][GensNext(Op)]_gvars => GenericIsFrozen
  <1>1. OpsInit => GensInv(Op)
    BY GensStart
  <1>2. GensInv(Op) /\ [GensNext(Op)]_gvars => GensInv(Op)'
    BY GensStep
  <1>3. GensInv(Op) /\ [GensNext(Op)]_gvars
        => [\A i \in DOMAIN gens : OpsIn(opArrays', gens'[i]) = OpsIn(opArrays, gens[i])]_gvars
    BY GensStep
  <1> QED BY <1>1, <1>2, <1>3, PTL DEF GenericIsFrozen

\* Every G[T] has the operations that were asked for on the way to it.
HaveAsked == \A i \in DOMAIN gens : OpsIn(opArrays, gens[i]) = gAsked[i]

\* These are the operations asked for in the chain that led to it, in their
\* order, and none of another chain's: what g.apply runs in the end.
THEOREM GensHaveAsked ==
    ASSUME NEW Op
    PROVE  OpsInit /\ [][GensNext(Op)]_gvars => []HaveAsked
  <1>1. OpsInit => GensInv(Op)
    BY GensStart
  <1>2. GensInv(Op) /\ [GensNext(Op)]_gvars => GensInv(Op)'
    BY GensStep
  <1>3. GensInv(Op) => HaveAsked
    <2> SUFFICES ASSUME GensInv(Op), NEW i \in DOMAIN gens
                 PROVE  OpsIn(opArrays, gens[i]) = gAsked[i]
      BY DEF HaveAsked
    <2>1. /\ gens[i] \in Gen /\ gAsked[i] \in Seq(Op \cup {NoOp})
          /\ opArrays \in Seq(Seq(Op \cup {NoOp})) /\ HasAsked(gens[i], opArrays, gAsked[i])
      BY DEF GensInv, GenTypes, StandForAsked
    <2> QED BY <2>1, AsAsked
  <1> QED BY <1>1, <1>2, <1>3, PTL
=============================================================================
