--------------------------- MODULE SaveGraphProofs ---------------------------
(***************************************************************************)
(* What SaveGraph promises, proved for every graph of records.             *)
(***************************************************************************)
EXTENDS SaveGraph, FiniteSetTheorems, TLAPS

------------------------------------------------------------------------------
(***************************************************************************)
(* The graphs.  Two theorems ask that no record without a key is pointed   *)
(* to twice, or a batch has it twice among its values; another, that what  *)
(* is given to Create is not in the database.                              *)
(***************************************************************************)
\* An element of U is in s once at most.
Once(s, U) == \A i, j \in 1..Len(s) : s[i] = s[j] /\ s[i] \in U => i = j

\* No two records point to the same new one, and none does so twice.
New(i) == Objs \ i.old
Unshared(i) ==
    /\ IsInjective(i.roots)
    /\ \A v \in Objs : Once(i.team[v], New(i)) /\ Once(i.friends[v], New(i))
    /\ \A v, w \in Objs : v # w =>
         /\ i.manager[v] = i.manager[w] => i.manager[v] \notin New(i)
         /\ ToSet(i.team[v]) \cap ToSet(i.team[w]) \cap New(i) = {}
         /\ ToSet(i.friends[v]) \cap ToSet(i.friends[w]) \cap New(i) = {}

NewAreUnshared == \A i \in Inputs : Unshared(i)

RootsAreNew == \A i \in Inputs : ToSet(i.roots) \cap i.old = {}

------------------------------------------------------------------------------
(***************************************************************************)
(* The invariants.                                                         *)
(***************************************************************************)
\* What is in the database before.
FirstRows == [k \in input.old |-> [of |-> k, fk |-> 0]]

Waits == {"refs", "friends", "joins"}
Unsaved == {"before", "parents", "refs", "insert"}

\* The stack: the first Create at the bottom, those that wait for a nested one
\* below it, and after an error nothing but the first one's end.
StackInv ==
    /\ IF pc = "running" THEN stack # <<>> ELSE stack = <<>>
    /\ stack # <<>> => stack[1].values = input.roots /\ stack[1].conflict = "fail"
    /\ \A k \in 2..Len(stack) : stack[k].conflict # "fail"
    /\ \A k \in 1..(Len(stack) - 1) : stack[k].phase \in Waits
    /\ pc = "running" /\ error => Len(stack) = 1 /\ stack[1].phase = "end"

\* Every Create but the first has visited a record that no other one has.
DepthInv == Len(stack) =< Cardinality(visited) + 1

IsRows(r) == DOMAIN r \subseteq Keys /\ \A k \in DOMAIN r : r[k] \in [of : Objs, fk : Nat]

TypeInv ==
    /\ input \in InputType /\ input \in Inputs
    /\ pk \in [Objs -> Nat] /\ fk \in [Objs -> Nat]
    /\ IsRows(rows)
    /\ joins \subseteq Nat \X Nat
    /\ next \in Keys
    /\ visited \subseteq Objs /\ skipped \subseteq Objs
    /\ stack \in Seq(Frame)
    /\ pc \in {"running", "done", "panicked"}
    /\ error \in BOOLEAN

\* Keys and foreign keys are those of rows.
RefersInv ==
    /\ \A k \in DOMAIN rows : rows[k].fk \in DOMAIN rows \cup {0}
    /\ pc = "running" => \A o \in Objs : pk[o] \in DOMAIN rows \cup {0} /\ fk[o] \in DOMAIN rows \cup {0}

ShapeInv == TypeInv /\ StackInv /\ DepthInv /\ RefersInv /\ AllOrNothing

\* While there is no error: a Create past its INSERT has given every value a key;
\* one that waits for the friends to be saved, or has them saved, lacks the keys of
\* those only that the nested one is about to insert.
Given(k) == stack[k].phase \notin Unsaved => \A v \in ToSet(stack[k].values) : pk[v] # 0
Befriended(k) ==
    stack[k].phase = "joins" => \A v \in ToSet(stack[k].values) : \A f \in ToSet(input.friends[v]) :
        pk[f] # 0 \/ (k < Len(stack) /\ f \in ToSet(stack[k + 1].values))

IntegrityInv ==
    /\ ~error => \A k \in 1..Len(stack) : Given(k)
    /\ ~error /\ skipped = {} => \A k \in 1..Len(stack) : Befriended(k)
    /\ skipped = {} => joins \subseteq (DOMAIN rows) \X (DOMAIN rows)

\* The records with a key and the rows are one to one.
KeysInv ==
    ~error =>
        /\ \A o \in Objs : pk[o] # 0 => pk[o] \in DOMAIN rows /\ rows[pk[o]].of = o
        /\ \A k \in DOMAIN rows : pk[rows[k].of] = k /\ k < next
        /\ \A o \in input.old : pk[o] # 0
        /\ \A k \in 1..Len(stack) : IsInjective(stack[k].values)

\* The records that o points to, those that the records R lead to, and those that
\* the managers of the roots do, in the graph i.
Near(i, o) == ({i.manager[o]} \cup ToSet(i.team[o]) \cup ToSet(i.friends[o])) \ {0}
ReachedIn(i, R) ==
    {o \in Objs : \A S \in SUBSET Objs : R \subseteq S /\ (\A s \in S : Near(i, s) \subseteq S) => o \in S}
ManagersOf(i, V) == {i.manager[v] : v \in V} \ {0}
Above(i) == ReachedIn(i, ManagersOf(i, ToSet(i.roots)))

\* Until the roots are inserted, only what their managers lead to is.
CollisionInv ==
    stack # <<>> /\ stack[1].phase \in Unsaved =>
        /\ \A o \in Objs : pk[o] # 0 => o \in input.old \cup Above(input)
        /\ \A k \in 2..Len(stack) : ToSet(stack[k].values) \subseteq Above(input)

\* What a Create has saved around its values.
SavedAround(k) ==
    \A v \in ToSet(stack[k].values) :
        /\ stack[k].phase \notin {"before", "parents"} => input.manager[v] \in visited \cup {0}
        /\ stack[k].phase \notin Unsaved \cup {"children"} => ToSet(input.team[v]) \subseteq visited
        /\ stack[k].phase \notin Unsaved \cup {"children", "friends"} => ToSet(input.friends[v]) \subseteq visited
        /\ stack[k].phase \in {"after", "end"} /\ skipped = {} =>
             \A f \in ToSet(input.friends[v]) : <<pk[v], pk[f]>> \in joins

Finished(o) ==
    /\ pk[o] # 0
    /\ Near(input, o) \subseteq visited
    /\ skipped = {} => \A f \in ToSet(input.friends[o]) : <<pk[o], pk[f]>> \in joins

CompleteInv ==
    pc # "panicked" /\ ~error =>
        /\ \A k \in 1..Len(stack) : SavedAround(k)
        /\ \A o \in visited \cup Roots : Finished(o) \/ \E k \in 1..Len(stack) : o \in ToSet(stack[k].values)

------------------------------------------------------------------------------
USE InputAssumption

(***************************************************************************)
(* Induction over the lengths of sequences, stated of a set of numbers:    *)
(* were k the number that is not in P, those below it would have as many   *)
(* successors among them, and 0 is none.                                   *)
(***************************************************************************)
LEMMA Induct ==
    ASSUME NEW P, 0 \in P, \A n \in Nat : n \in P => n + 1 \in P
    PROVE  Nat \subseteq P
  <1> SUFFICES ASSUME NEW k \in Nat, k \notin P PROVE FALSE
    OBVIOUS
  <1>1. PICK A : A = {n \in Nat : n \in P /\ n =< k}
    OBVIOUS
  <1>2. IsFiniteSet(A)
    BY <1>1, FS_BoundedSetOfNaturals
  <1>3. PICK f : f = [n \in A |-> n + 1]
    OBVIOUS
  <1>4. f \in Injection(A, A)
    BY <1>1, <1>3 DEF Injection, IsInjective
  <1>5. f \in Surjection(A, A)
    BY <1>2, <1>4, FS_Injection
  <1>6. 0 \in A
    BY <1>1
  <1> QED BY <1>1, <1>3, <1>5, <1>6 DEF Surjection

(***************************************************************************)
(* Sequences.                                                              *)
(***************************************************************************)
\* The picks among the first n elements.
Picks(s, I, n, f) ==
    f = [i \in 0..n |-> IF i = 0 THEN <<>>
                        ELSE IF i \in I THEN Append(f[i - 1], s[i]) ELSE f[i - 1]]

LEMMA PicksExist ==
    ASSUME NEW s, NEW I, NEW n \in Nat
    PROVE  \E f : Picks(s, I, n, f)
  <1> DEFINE P == {m \in Nat : \E f : Picks(s, I, m, f)}
  <1>1. 0 \in P
    <2>1. Picks(s, I, 0, [i \in 0..0 |-> <<>>])
      BY DEF Picks
    <2> QED BY <2>1
  <1>2. ASSUME NEW m \in Nat, m \in P PROVE m + 1 \in P
    <2>1. PICK f : Picks(s, I, m, f)
      BY <1>2
    <2>2. f = [i \in 0..m |-> IF i = 0 THEN <<>>
                              ELSE IF i \in I THEN Append(f[i - 1], s[i]) ELSE f[i - 1]]
      BY <2>1 DEF Picks
    <2>3. PICK g : g = [i \in 0..(m + 1) |->
                          IF i = m + 1 THEN IF m + 1 \in I THEN Append(f[m], s[m + 1]) ELSE f[m]
                          ELSE f[i]]
      OBVIOUS
    <2>4. \A i \in 0..m : g[i] = f[i]
      BY <2>3
    <2>5. ASSUME NEW i \in 0..(m + 1)
          PROVE  g[i] = IF i = 0 THEN <<>> ELSE IF i \in I THEN Append(g[i - 1], s[i]) ELSE g[i - 1]
      <3>1. CASE i = m + 1
        BY <2>3, <2>4, <3>1
      <3>2. CASE i # m + 1
        <4>1. i \in 0..m /\ (i # 0 => i - 1 \in 0..m)
          BY <3>2
        <4>2. g[i] = f[i] /\ (i # 0 => g[i - 1] = f[i - 1])
          BY <2>4, <4>1
        <4> QED BY <2>2, <4>1, <4>2
      <3> QED BY <3>1, <3>2
    <2>6. Picks(s, I, m + 1, g)
      BY <2>3, <2>5 DEF Picks
    <2> QED BY <2>6
  <1> HIDE DEF P
  <1>3. Nat \subseteq P
    BY <1>1, <1>2, Induct
  <1> QED BY <1>3 DEF P

\* Pick takes the elements at I, each once, in order.
LEMMA PickIs ==
    ASSUME NEW S, NEW s \in Seq(S), NEW I, I \subseteq DOMAIN s
    PROVE  /\ Pick(s, I) \in Seq(S)
           /\ ToSet(Pick(s, I)) = {s[i] : i \in I}
           /\ (\A i, j \in I : s[i] = s[j] => i = j) => IsInjective(Pick(s, I))
           /\ I = DOMAIN s => Pick(s, I) = s
           /\ Len(Pick(s, I)) =< Len(s)
  <1> DEFINE N == Len(s)
  <1>1. N \in Nat /\ DOMAIN s = 1..N
    OBVIOUS
  <1>2. PICK f : Picks(s, I, N, f) /\ Pick(s, I) = f[N]
    <2> DEFINE f == CHOOSE g : Picks(s, I, N, g)
    <2>1. Picks(s, I, N, f)
      BY <1>1, PicksExist
    <2>2. Pick(s, I) = f[N]
      BY DEF Pick, Picks
    <2> QED BY <2>1, <2>2
  <1>3. \A i \in 0..N : f[i] = IF i = 0 THEN <<>>
                               ELSE IF i \in I THEN Append(f[i - 1], s[i]) ELSE f[i - 1]
    BY <1>2 DEF Picks
  <1> DEFINE Good(n) ==
        /\ f[n] \in Seq(S) /\ Len(f[n]) =< n
        /\ \A j \in 1..Len(f[n]) : \E i \in I : i =< n /\ f[n][j] = s[i]
        /\ \A i \in I : i =< n => \E j \in 1..Len(f[n]) : f[n][j] = s[i]
        /\ (\A i, j \in I : s[i] = s[j] => i = j) =>
             \A j, k \in 1..Len(f[n]) : f[n][j] = f[n][k] => j = k
        /\ I = 1..N => Len(f[n]) = n /\ \A j \in 1..n : f[n][j] = s[j]
      P == {n \in Nat : n =< N => Good(n)}
  <1>4. 0 \in P
    <2>1. f[0] = <<>>
      BY <1>1, <1>3
    <2>2. f[0] \in Seq(S) /\ Len(f[0]) = 0 /\ 1..Len(f[0]) = {}
      BY <2>1
    <2>3. \A i \in I : ~(i =< 0)
      BY <1>1
    <2>4. Good(0)
      BY <2>2, <2>3
    <2> QED BY <2>4
  <1>5. ASSUME NEW n \in Nat, n \in P PROVE n + 1 \in P
    <2> SUFFICES ASSUME n + 1 =< N PROVE Good(n + 1)
      OBVIOUS
    <2>1. Good(n)
      BY <1>1, <1>5
    <2>2. CASE n + 1 \notin I
      <3>1. f[n + 1] = f[n]
        BY <1>1, <1>3, <2>2
      <3>2. \A i \in I : i =< n + 1 <=> i =< n
        BY <1>1, <2>2
      <3>3. I # 1..N
        BY <1>1, <2>2
      <3>4. Len(f[n + 1]) \in Nat /\ Len(f[n + 1]) =< n + 1
        BY <2>1, <3>1
      <3> QED BY <2>1, <3>1, <3>2, <3>3, <3>4
    <2>3. CASE n + 1 \in I
      <3>0. n + 1 \in 0..N /\ n + 1 # 0 /\ (n + 1) - 1 = n
        BY <1>1
      <3>1. PICK q : q = f[n] /\ f[n + 1] = Append(q, s[n + 1])
        <4>1. f[n + 1] = Append(f[(n + 1) - 1], s[n + 1])
          BY <1>3, <2>3, <3>0
        <4> QED BY <3>0, <4>1
      <3>2. q \in Seq(S) /\ s[n + 1] \in S /\ Len(q) \in Nat /\ Len(q) =< n
        BY <1>1, <2>1, <3>1
      <3>3. PICK r : r = f[n + 1]
        OBVIOUS
      <3>4. /\ r \in Seq(S) /\ Len(r) = Len(q) + 1 /\ r[Len(q) + 1] = s[n + 1]
            /\ \A j \in 1..Len(q) : r[j] = q[j]
        BY <3>1, <3>2, <3>3
      <3>5. \A j \in 1..Len(r) : \E i \in I : i =< n + 1 /\ r[j] = s[i]
        <4> SUFFICES ASSUME NEW j \in 1..Len(r) PROVE \E i \in I : i =< n + 1 /\ r[j] = s[i]
          OBVIOUS
        <4>1. CASE j = Len(q) + 1
          BY <2>3, <3>4, <4>1
        <4>2. CASE j \in 1..Len(q)
          BY <1>1, <2>1, <3>1, <3>4, <4>2
        <4> QED BY <3>2, <3>4, <4>1, <4>2
      <3>6. \A i \in I : i =< n + 1 => \E j \in 1..Len(r) : r[j] = s[i]
        <4> SUFFICES ASSUME NEW i \in I, i =< n + 1 PROVE \E j \in 1..Len(r) : r[j] = s[i]
          OBVIOUS
        <4>1. CASE i = n + 1
          BY <3>2, <3>4, <4>1
        <4>2. CASE i =< n
          <5>1. PICK j \in 1..Len(q) : q[j] = s[i]
            BY <2>1, <3>1, <4>2
          <5> QED BY <3>2, <3>4, <5>1
        <4> QED BY <1>1, <4>1, <4>2
      <3>7. ASSUME \A i, j \in I : s[i] = s[j] => i = j, NEW j \in 1..Len(r), NEW k \in 1..Len(r), r[j] = r[k]
            PROVE  j = k
        <4>1. \A u, w \in 1..Len(q) : q[u] = q[w] => u = w
          BY <2>1, <3>1, <3>7
        <4>2. ASSUME NEW u \in 1..Len(q) PROVE r[u] # s[n + 1]
          <5>1. PICK i \in I : i =< n /\ q[u] = s[i]
            BY <2>1, <3>1, <4>2
          <5> QED BY <1>1, <2>3, <3>4, <3>7, <5>1
        <4>3. j \in 1..Len(q) \/ j = Len(q) + 1
          BY <3>2, <3>4
        <4>4. k \in 1..Len(q) \/ k = Len(q) + 1
          BY <3>2, <3>4
        <4> QED BY <3>4, <3>7, <4>1, <4>2, <4>3, <4>4
      <3>8. I = 1..N => Len(r) = n + 1 /\ \A j \in 1..(n + 1) : r[j] = s[j]
        <4> SUFFICES ASSUME I = 1..N PROVE Len(r) = n + 1 /\ \A j \in 1..(n + 1) : r[j] = s[j]
          OBVIOUS
        <4>1. Len(q) = n /\ \A j \in 1..n : q[j] = s[j]
          BY <2>1, <3>1
        <4>2. \A j \in 1..(n + 1) : j \in 1..n \/ j = n + 1
          OBVIOUS
        <4> QED BY <3>4, <4>1, <4>2
      <3>9. Len(r) =< n + 1
        BY <3>2, <3>4
      <3> QED BY ZenonT(60), <3>3, <3>4, <3>5, <3>6, <3>7, <3>8, <3>9
    <2> QED BY <2>2, <2>3
  <1> HIDE DEF P
  <1>6. N \in P
    BY <1>1, <1>4, <1>5, Induct
  <1>7. Good(N)
    BY <1>1, <1>6 DEF P
  <1> HIDE DEF Good
  <1>8. PICK t : t = Pick(s, I) /\ t = f[N]
    BY <1>2
  <1>9. /\ t \in Seq(S) /\ Len(t) =< N
        /\ \A j \in 1..Len(t) : \E i \in I : t[j] = s[i]
        /\ \A i \in I : \E j \in 1..Len(t) : t[j] = s[i]
        /\ (\A i, j \in I : s[i] = s[j] => i = j) => \A j, k \in 1..Len(t) : t[j] = t[k] => j = k
        /\ I = 1..N => Len(t) = N /\ \A j \in 1..N : t[j] = s[j]
    BY <1>1, <1>7, <1>8 DEF Good
  <1>10. DOMAIN t = 1..Len(t)
    BY <1>9
  <1>11. ToSet(t) = {s[i] : i \in I}
    <2>1. ToSet(t) = {t[j] : j \in 1..Len(t)}
      BY <1>10 DEF ToSet
    <2>2. \A j \in 1..Len(t) : \E i \in I : t[j] = s[i]
      BY <1>9
    <2>3. \A i \in I : \E j \in 1..Len(t) : t[j] = s[i]
      BY <1>9
    <2> QED BY ONLY <2>1, <2>2, <2>3
  <1>12. (\A i, j \in I : s[i] = s[j] => i = j) => IsInjective(t)
    BY <1>9, <1>10 DEF IsInjective
  <1>13. I = DOMAIN s => t = s
    BY <1>1, <1>9
  <1> QED BY <1>8, <1>9, <1>11, <1>12, <1>13

\* The first n sequences, one after the other.
Flats(ss, n, f) == f = [i \in 1..n |-> IF i = 1 THEN ss[i] ELSE f[i - 1] \o ss[i]]

LEMMA FlatsExist ==
    ASSUME NEW ss, NEW n \in Nat
    PROVE  \E f : Flats(ss, n, f)
  <1> DEFINE P == {m \in Nat : \E f : Flats(ss, m, f)}
  <1>1. 0 \in P
    <2>1. Flats(ss, 0, [i \in 1..0 |-> <<>>])
      BY DEF Flats
    <2> QED BY <2>1
  <1>2. ASSUME NEW m \in Nat, m \in P PROVE m + 1 \in P
    <2>1. PICK f : Flats(ss, m, f)
      BY <1>2
    <2>2. f = [i \in 1..m |-> IF i = 1 THEN ss[i] ELSE f[i - 1] \o ss[i]]
      BY <2>1 DEF Flats
    <2>3. PICK g : g = [i \in 1..(m + 1) |->
                          IF i = m + 1 THEN IF i = 1 THEN ss[i] ELSE f[m] \o ss[i] ELSE f[i]]
      OBVIOUS
    <2>4. \A i \in 1..m : g[i] = f[i]
      BY <2>3
    <2>5. ASSUME NEW i \in 1..(m + 1)
          PROVE  g[i] = IF i = 1 THEN ss[i] ELSE g[i - 1] \o ss[i]
      <3>1. CASE i = m + 1
        <4>1. g[i] = IF i = 1 THEN ss[i] ELSE f[m] \o ss[i]
          BY <2>3, <3>1
        <4>2. i # 1 => m \in 1..m /\ i - 1 = m
          BY <3>1
        <4>3. i # 1 => g[m] = f[m]
          BY <2>4, <4>2
        <4> QED BY <4>1, <4>2, <4>3
      <3>2. CASE i # m + 1
        <4>1. i \in 1..m /\ (i # 1 => i - 1 \in 1..m)
          BY <3>2
        <4>2. g[i] = f[i] /\ (i # 1 => g[i - 1] = f[i - 1])
          BY <2>4, <4>1
        <4> QED BY <2>2, <4>1, <4>2
      <3> QED BY <3>1, <3>2
    <2>6. Flats(ss, m + 1, g)
      BY <2>3, <2>5 DEF Flats
    <2> QED BY <2>6
  <1> HIDE DEF P
  <1>3. Nat \subseteq P
    BY <1>1, <1>2, Induct
  <1> QED BY <1>3 DEF P

\* No sequence has an element of U twice, and no two have the same one.
Apart(ss, U) ==
    /\ \A i \in 1..Len(ss) : Once(ss[i], U)
    /\ \A i, j \in 1..Len(ss) : i # j => ToSet(ss[i]) \cap ToSet(ss[j]) \cap U = {}

LEMMA ToSetIs ==
    ASSUME NEW S, NEW s \in Seq(S)
    PROVE  /\ ToSet(s) = {s[i] : i \in 1..Len(s)} /\ ToSet(s) \subseteq S /\ Len(s) \in Nat
           /\ (ToSet(s) = {} <=> s = <<>>)
  <1>1. DOMAIN s = 1..Len(s) /\ Len(s) \in Nat
    OBVIOUS
  <1>2. ToSet(s) = {s[i] : i \in 1..Len(s)}
    BY <1>1 DEF ToSet
  <1>3. ASSUME s # <<>> PROVE s[1] \in ToSet(s)
    BY <1>1, <1>2, <1>3
  <1>4. ASSUME s = <<>> PROVE ToSet(s) = {}
    <2>1. 1..Len(s) = {}
      BY <1>4
    <2> QED BY <1>2, <2>1
  <1> QED BY <1>1, <1>2, <1>3, <1>4

LEMMA Places ==
    ASSUME NEW S, NEW s \in Seq(S), NEW t \in Seq(S)
    PROVE  \A i \in 1..Len(t) : (s \o t)[Len(s) + i] = t[i]
  OBVIOUS

LEMMA OneAfterTheOther ==
    ASSUME NEW S, NEW s \in Seq(S), NEW t \in Seq(S)
    PROVE  /\ s \o t \in Seq(S)
           /\ ToSet(s \o t) = ToSet(s) \cup ToSet(t)
           /\ \A U : Once(s, U) /\ Once(t, U) /\ ToSet(s) \cap ToSet(t) \cap U = {} => Once(s \o t, U)
  <1>1. PICK r : r = s \o t
    OBVIOUS
  <1>2. r \in Seq(S) /\ Len(r) = Len(s) + Len(t) /\ Len(s) \in Nat /\ Len(t) \in Nat
    BY <1>1
  <1>3. \A i \in 1..Len(s) : i \in 1..Len(r) /\ r[i] = s[i]
    BY <1>1, <1>2
  <1>4. \A i \in 1..Len(t) : Len(s) + i \in 1..Len(r) /\ r[Len(s) + i] = t[i]
    BY <1>1, <1>2
  <1>5. \A i \in 1..Len(r) : i \in 1..Len(s) \/ (i - Len(s) \in 1..Len(t) /\ Len(s) + (i - Len(s)) = i)
    BY <1>2
  <1>6. /\ ToSet(r) = {r[i] : i \in 1..Len(r)}
        /\ ToSet(s) = {s[i] : i \in 1..Len(s)} /\ ToSet(t) = {t[i] : i \in 1..Len(t)}
    BY <1>2, ToSetIs
  <1>7. ToSet(r) = ToSet(s) \cup ToSet(t)
    <2>1. ASSUME NEW i \in 1..Len(r) PROVE r[i] \in ToSet(s) \cup ToSet(t)
      BY <1>3, <1>4, <1>5, <1>6
    <2>2. \A i \in 1..Len(s) : s[i] \in ToSet(r)
      BY <1>3, <1>6
    <2>3. \A i \in 1..Len(t) : t[i] \in ToSet(r)
      BY <1>4, <1>6
    <2> QED BY <1>6, <2>1, <2>2, <2>3
  <1>8. ASSUME NEW U, Once(s, U), Once(t, U), ToSet(s) \cap ToSet(t) \cap U = {} PROVE Once(r, U)
    <2> SUFFICES ASSUME NEW i \in 1..Len(r), NEW j \in 1..Len(r), r[i] = r[j], r[i] \in U PROVE i = j
      BY DEF Once
    <2>1. CASE i \in 1..Len(s) /\ j \in 1..Len(s)
      BY <1>3, <1>8, <2>1 DEF Once
    <2>2. CASE i \in 1..Len(s) /\ j \notin 1..Len(s)
      BY ZenonT(60), <1>3, <1>4, <1>5, <1>6, <1>8, <2>2
    <2>3. CASE i \notin 1..Len(s) /\ j \in 1..Len(s)
      BY ZenonT(60), <1>3, <1>4, <1>5, <1>6, <1>8, <2>3
    <2>4. CASE i \notin 1..Len(s) /\ j \notin 1..Len(s)
      <3>1. t[i - Len(s)] = t[j - Len(s)] /\ t[i - Len(s)] \in U
        BY <1>4, <1>5, <2>4
      <3>2. i - Len(s) = j - Len(s)
        BY <1>5, <1>8, <2>4, <3>1 DEF Once
      <3> QED BY <1>2, <3>2
    <2> QED BY <2>1, <2>2, <2>3, <2>4
  <1> QED BY <1>1, <1>2, <1>7, <1>8

\* FlattenSeq has what the sequences have.
LEMMA FlattenIs ==
    ASSUME NEW S, NEW ss \in Seq(Seq(S))
    PROVE  /\ FlattenSeq(ss) \in Seq(S)
           /\ ToSet(FlattenSeq(ss)) = UNION {ToSet(ss[i]) : i \in 1..Len(ss)}
           /\ \A U : Apart(ss, U) => Once(FlattenSeq(ss), U)
  <1> DEFINE N == Len(ss)
  <1>1. N \in Nat /\ \A i \in 1..N : ss[i] \in Seq(S)
    OBVIOUS
  <1>2. CASE N = 0
    <2>1. FlattenSeq(ss) = ss /\ ss = <<>>
      BY <1>2 DEF FlattenSeq
    <2>2. <<>> \in Seq(S) /\ Len(<<>>) = 0 /\ 1..N = {}
      BY <1>2
    <2>3. ToSet(<<>>) = {}
      BY <2>2, ToSetIs
    <2>4. \A U : Once(<<>>, U)
      BY DEF Once
    <2> QED BY <2>1, <2>2, <2>3, <2>4
  <1>3. CASE N # 0
    <2>1. PICK f : Flats(ss, N, f) /\ FlattenSeq(ss) = f[N]
      <3> DEFINE f == CHOOSE g : Flats(ss, N, g)
      <3>1. Flats(ss, N, f)
        BY <1>1, FlatsExist
      <3>2. FlattenSeq(ss) = f[N]
        BY <1>3 DEF FlattenSeq, Flats
      <3> QED BY <3>1, <3>2
    <2>2. \A i \in 1..N : f[i] = IF i = 1 THEN ss[i] ELSE f[i - 1] \o ss[i]
      BY <2>1 DEF Flats
    <2> DEFINE Good(n) ==
          /\ f[n] \in Seq(S)
          /\ ToSet(f[n]) = UNION {ToSet(ss[i]) : i \in 1..n}
          /\ \A U : Apart(ss, U) => Once(f[n], U)
        P == {n \in Nat : n \in 1..N => Good(n)}
    <2> HIDE DEF Good
    <2>3. 0 \in P
      BY <1>1
    <2>4. ASSUME NEW n \in Nat, n \in P PROVE n + 1 \in P
      <3> SUFFICES ASSUME n + 1 \in 1..N PROVE Good(n + 1)
        BY <2>4
      <3>1. CASE n = 0
        <4>1. f[1] = ss[1] /\ 1..1 = {1} /\ 1 \in 1..N
          BY <2>2, <3>1
        <4>2. ToSet(f[1]) = UNION {ToSet(ss[i]) : i \in 1..1}
          BY <4>1
        <4>3. f[1] \in Seq(S)
          BY <1>1, <4>1
        <4>4. \A U : Apart(ss, U) => Once(ss[1], U)
          BY <4>1 DEF Apart
        <4> QED BY <3>1, <4>1, <4>2, <4>3, <4>4 DEF Good
      <3>2. CASE n # 0
        <4>1. Good(n) /\ n \in 1..N
          BY <1>1, <2>4, <3>2
        <4>2. PICK q : q = f[n] /\ f[n + 1] = q \o ss[n + 1]
          <5>1. n + 1 # 1 /\ (n + 1) - 1 = n
            BY <3>2
          <5>2. f[n + 1] = f[(n + 1) - 1] \o ss[n + 1]
            BY <2>2, <5>1
          <5> QED BY <5>1, <5>2
        <4>3. q \in Seq(S) /\ ss[n + 1] \in Seq(S) /\ ToSet(q) = UNION {ToSet(ss[i]) : i \in 1..n}
          BY <1>1, <4>1, <4>2 DEF Good
        <4>4. 1..(n + 1) = (1..n) \cup {n + 1}
          OBVIOUS
        <4>5. f[n + 1] \in Seq(S) /\ ToSet(f[n + 1]) = ToSet(q) \cup ToSet(ss[n + 1])
          BY <4>2, <4>3, OneAfterTheOther
        <4>6. ToSet(f[n + 1]) = UNION {ToSet(ss[i]) : i \in 1..(n + 1)}
          BY <4>3, <4>4, <4>5
        <4>7. ASSUME NEW U, Apart(ss, U)
              PROVE  Once(f[n + 1], U)
          <5>1. Once(q, U) /\ Once(ss[n + 1], U)
            BY <4>1, <4>2, <4>7 DEF Good, Apart
          <5>2. \A i \in 1..n : ToSet(ss[i]) \cap ToSet(ss[n + 1]) \cap U = {}
            BY <1>1, <4>7 DEF Apart
          <5>3. ToSet(q) \cap ToSet(ss[n + 1]) \cap U = {}
            BY <4>3, <5>2
          <5>4. Once(q \o ss[n + 1], U)
            BY <4>3, <5>1, <5>3, OneAfterTheOther
          <5> QED BY <4>2, <5>4
        <4> QED BY <4>5, <4>6, <4>7 DEF Good
      <3> QED BY <3>1, <3>2
    <2> HIDE DEF P
    <2>5. N \in P
      BY <1>1, <2>3, <2>4, Induct
    <2>6. Good(N)
      BY <1>1, <1>3, <2>5 DEF P
    <2> QED BY <2>1, <2>6 DEF Good
  <1> QED BY <1>2, <1>3

(***************************************************************************)
(* The first and the last of some numbers.                                 *)
(***************************************************************************)
LEMMA Ends2 ==
    ASSUME NEW A, A \subseteq Nat, IsFiniteSet(A), A # {}
    PROVE  /\ Max(A) \in A /\ \A x \in A : x =< Max(A)
           /\ Min(A) \in A /\ \A x \in A : Min(A) =< x
  <1> DEFINE HasEnds(S) == (\E m \in S : \A x \in S : m >= x) /\ (\E m \in S : \A x \in S : m =< x)
             P == {n \in Nat : \A S \in SUBSET Nat :
                     IsFiniteSet(S) /\ Cardinality(S) = n /\ S # {} => HasEnds(S)}
  <1>1. 0 \in P
    BY FS_EmptySet
  <1>2. ASSUME NEW n \in Nat, n \in P PROVE n + 1 \in P
    <2> SUFFICES ASSUME NEW S \in SUBSET Nat, IsFiniteSet(S), Cardinality(S) = n + 1, S # {} PROVE HasEnds(S)
      OBVIOUS
    <2>1. PICK x \in S : TRUE
      OBVIOUS
    <2>2. PICK T : T = S \ {x}
      OBVIOUS
    <2>3. IsFiniteSet(T) /\ Cardinality(T) = n /\ T \in SUBSET Nat
      BY <2>1, <2>2, FS_RemoveElement
    <2>4. CASE T = {}
      BY <2>1, <2>2, <2>4
    <2>5. CASE T # {}
      <3>1. HasEnds(T)
        BY <1>2, <2>3, <2>5
      <3>2. PICK m \in T : \A y \in T : m >= y
        BY <3>1
      <3>3. PICK l \in T : \A y \in T : l =< y
        BY <3>1
      <3>4. m \in S /\ l \in S /\ m \in Nat /\ l \in Nat /\ x \in Nat /\ \A y \in S : y \in Nat /\ (y = x \/ y \in T)
        BY <2>1, <2>2
      <3>5. \E u \in S : \A y \in S : u >= y
        <4>1. CASE x >= m
          BY <2>1, <3>2, <3>4, <4>1
        <4>2. CASE m >= x
          BY <3>2, <3>4, <4>2
        <4> QED BY <3>4, <4>1, <4>2
      <3>6. \E u \in S : \A y \in S : u =< y
        <4>1. CASE x =< l
          BY <2>1, <3>3, <3>4, <4>1
        <4>2. CASE l =< x
          BY <3>3, <3>4, <4>2
        <4> QED BY <3>4, <4>1, <4>2
      <3> QED BY <3>5, <3>6
    <2> QED BY <2>4, <2>5
  <1> HIDE DEF P, HasEnds
  <1>3. Cardinality(A) \in P
    BY <1>1, <1>2, Induct, FS_CardinalityType
  <1>4. HasEnds(A)
    BY <1>3 DEF P
  <1>5. PICK m \in A : \A x \in A : m >= x
    BY <1>4 DEF HasEnds
  <1>6. PICK l \in A : \A x \in A : l =< x
    BY <1>4 DEF HasEnds
  <1>7. Max(A) \in A /\ \A x \in A : Max(A) >= x
    BY <1>5 DEF Max
  <1>8. Min(A) \in A /\ \A x \in A : Min(A) =< x
    BY <1>6 DEF Min
  <1> QED BY <1>7, <1>8

LEMMA PlacesHaveEnds ==
    ASSUME NEW n \in Nat, NEW A, A \subseteq 1..n, A # {}
    PROVE  /\ Max(A) \in A /\ \A x \in A : x =< Max(A)
           /\ Min(A) \in A /\ \A x \in A : Min(A) =< x
  <1>1. IsFiniteSet(1..n)
    BY FS_Interval
  <1>2. A \subseteq Nat
    OBVIOUS
  <1>3. IsFiniteSet(A)
    BY <1>1, FS_Subset
  <1> QED BY <1>2, <1>3, Ends2

------------------------------------------------------------------------------
(***************************************************************************)
(* The records that a Create saves.                                        *)
(***************************************************************************)
\* distinctElems leaves out no record but those with the key of another.
LEMMA DistinctIs ==
    ASSUME pk \in [Objs -> Nat], NEW elems \in Seq(Objs)
    PROVE  /\ DistinctByKey(elems) \in Seq(Objs)
           /\ ToSet(DistinctByKey(elems)) \subseteq ToSet(elems)
           /\ \A o \in ToSet(elems) : pk[o] = 0 => o \in ToSet(DistinctByKey(elems))
           /\ \A o \in ToSet(elems) : \E u \in ToSet(DistinctByKey(elems)) : u = o \/ (pk[u] = pk[o] /\ pk[o] # 0)
           /\ Once(elems, {o \in Objs : pk[o] = 0}) => IsInjective(DistinctByKey(elems))
  <1> DEFINE I == {i \in DOMAIN elems : pk[elems[i]] = 0 \/ \A j \in 1..(i - 1) : pk[elems[j]] # pk[elems[i]]}
  <1>1. DistinctByKey(elems) = Pick(elems, I)
    BY DEF DistinctByKey
  <1>2. DOMAIN elems = 1..Len(elems) /\ Len(elems) \in Nat /\ \A i \in 1..Len(elems) : elems[i] \in Objs
    OBVIOUS
  <1>3. I \subseteq DOMAIN elems
    OBVIOUS
  <1>4. /\ Pick(elems, I) \in Seq(Objs) /\ ToSet(Pick(elems, I)) = {elems[i] : i \in I}
        /\ (\A i, j \in I : elems[i] = elems[j] => i = j) => IsInjective(Pick(elems, I))
    BY <1>3, PickIs
  <1>5. ToSet(elems) = {elems[i] : i \in 1..Len(elems)}
    BY ToSetIs
  <1>6. ASSUME NEW o \in ToSet(elems) PROVE \E i \in I : elems[i] = o \/ (pk[elems[i]] = pk[o] /\ pk[o] # 0)
    <2> DEFINE A == {i \in 1..Len(elems) : pk[elems[i]] = pk[o]}
    <2>1. PICK n \in 1..Len(elems) : elems[n] = o
      BY <1>5, <1>6
    <2>2. CASE pk[o] = 0
      BY <1>2, <2>1, <2>2
    <2>3. CASE pk[o] # 0
      <3>1. n \in A /\ A \subseteq 1..Len(elems)
        BY <2>1
      <3>2. Min(A) \in A /\ \A i \in A : Min(A) =< i
        BY <1>2, <3>1, PlacesHaveEnds
      <3>3. PICK i \in A : \A j \in A : i =< j
        BY <3>2
      <3>4. \A j \in 1..(i - 1) : j \in 1..Len(elems) /\ j \notin A
        BY <1>2, <3>3
      <3>5. i \in I
        BY <1>2, <3>4
      <3> QED BY <2>3, <3>5
    <2> QED BY <2>2, <2>3
  <1>7. \A o \in ToSet(elems) : pk[o] = 0 => \E i \in I : elems[i] = o
    BY <1>2, <1>5
  <1>8. ASSUME Once(elems, {o \in Objs : pk[o] = 0}), NEW i \in I, NEW j \in I, elems[i] = elems[j]
        PROVE  i = j
    <2>1. CASE pk[elems[i]] = 0
      BY <1>2, <1>8, <2>1 DEF Once
    <2>2. CASE pk[elems[i]] # 0
      <3>1. ~(i \in 1..(j - 1)) /\ ~(j \in 1..(i - 1))
        BY <1>8, <2>2
      <3> QED BY <1>2, <3>1
    <2> QED BY <2>1, <2>2
  <1> HIDE DEF I
  <1>9. ToSet(Pick(elems, I)) \subseteq ToSet(elems)
    BY <1>2, <1>3, <1>4, <1>5
  <1> QED BY <1>1, <1>4, <1>6, <1>7, <1>8, <1>9

LEMMA ManagersAre ==
    ASSUME input \in InputType, NEW values \in Seq(Objs)
    PROVE  /\ Managers(values) \in Seq(Objs)
           /\ ToSet(Managers(values)) = {input.manager[v] : v \in ToSet(values)} \ {0}
           /\ \A U : /\ IsInjective(values)
                     /\ \A v, w \in Objs : v # w /\ input.manager[v] = input.manager[w] => input.manager[v] \notin U
                     => Once(Managers(values), U)
  <1> DEFINE I == {i \in DOMAIN values : input.manager[values[i]] # 0}
  <1>1. PICK t : t = Pick(values, I)
    OBVIOUS
  <1>2. Managers(values) = [i \in DOMAIN t |-> input.manager[t[i]]]
    BY <1>1 DEF Managers
  <1>3. /\ input.manager \in [Objs -> Objs \cup {0}] /\ DOMAIN values = 1..Len(values) /\ Len(values) \in Nat
        /\ \A i \in 1..Len(values) : values[i] \in Objs
    BY DEF InputType
  <1>4. I \subseteq DOMAIN values
    OBVIOUS
  <1>5. /\ t \in Seq(Objs) /\ ToSet(t) = {values[i] : i \in I}
        /\ (\A i, j \in I : values[i] = values[j] => i = j) => IsInjective(t)
    BY <1>1, <1>4, PickIs
  <1>6. DOMAIN t = 1..Len(t) /\ Len(t) \in Nat /\ ToSet(t) = {t[i] : i \in 1..Len(t)}
    <2>1. DOMAIN t = 1..Len(t)
      BY <1>5
    <2> QED BY <1>5, <2>1, ToSetIs
  <1>7. \A i \in 1..Len(t) : t[i] \in Objs /\ input.manager[t[i]] \in Objs
    BY ZenonT(60), <1>3, <1>5, <1>6
  <1>8. PICK m : m = Managers(values)
    OBVIOUS
  <1>9. /\ m \in Seq(Objs) /\ Len(m) = Len(t) /\ \A i \in 1..Len(t) : m[i] = input.manager[t[i]]
    BY <1>2, <1>6, <1>7, <1>8
  <1>10. ToSet(m) = {m[i] : i \in 1..Len(m)} /\ ToSet(values) = {values[i] : i \in 1..Len(values)}
    BY <1>9, ToSetIs
  <1>11. ToSet(m) = {input.manager[v] : v \in ToSet(values)} \ {0}
    <2>1. ASSUME NEW i \in 1..Len(t) PROVE m[i] \in {input.manager[v] : v \in ToSet(values)} \ {0}
      <3>1. t[i] \in {values[j] : j \in I}
        BY <1>5, <1>6
      <3>2. PICK j \in I : t[i] = values[j]
        BY <3>1
      <3>3. values[j] \in ToSet(values) /\ input.manager[values[j]] # 0
        BY <1>3, <1>10, <3>2
      <3> QED BY <1>9, <3>2, <3>3
    <2>2. ASSUME NEW v \in ToSet(values), input.manager[v] # 0 PROVE \E i \in 1..Len(t) : m[i] = input.manager[v]
      <3>1. PICK j \in 1..Len(values) : values[j] = v
        BY <1>10, <2>2
      <3>2. v \in ToSet(t)
        BY <1>3, <1>5, <2>2, <3>1
      <3> QED BY <1>6, <1>9, <3>2
    <2> QED BY <1>9, <1>10, <2>1, <2>2
  <1>12. ASSUME NEW U, IsInjective(values),
                \A v, w \in Objs : v # w /\ input.manager[v] = input.manager[w] => input.manager[v] \notin U
         PROVE  Once(m, U)
    <2>1. IsInjective(t)
      BY <1>3, <1>5, <1>12 DEF IsInjective
    <2> SUFFICES ASSUME NEW i \in 1..Len(m), NEW j \in 1..Len(m), m[i] = m[j], m[i] \in U PROVE i = j
      BY DEF Once
    <2>2. t[i] = t[j]
      BY <1>7, <1>9, <1>12
    <2> QED BY <1>6, <1>9, <2>1, <2>2 DEF IsInjective
  <1> QED BY <1>8, <1>9, <1>11, <1>12

\* What the values of a Create have together, of a relation to many.
LEMMA ManyAre ==
    ASSUME NEW r \in [Objs -> Seq(Objs)], NEW values \in Seq(Objs), NEW all,
           all = FlattenSeq([i \in DOMAIN values |-> r[values[i]]])
    PROVE  /\ all \in Seq(Objs)
           /\ ToSet(all) = UNION {ToSet(r[v]) : v \in ToSet(values)}
           /\ \A U : /\ IsInjective(values)
                     /\ \A v \in Objs : Once(r[v], U)
                     /\ \A v, w \in Objs : v # w => ToSet(r[v]) \cap ToSet(r[w]) \cap U = {}
                     => Once(all, U)
  <1>1. PICK ss : ss = [i \in DOMAIN values |-> r[values[i]]]
    OBVIOUS
  <1>2. /\ DOMAIN values = 1..Len(values) /\ Len(values) \in Nat
        /\ \A i \in 1..Len(values) : values[i] \in Objs
        /\ ToSet(values) = {values[i] : i \in 1..Len(values)}
    BY ToSetIs
  <1>3. /\ ss \in Seq(Seq(Objs)) /\ Len(ss) = Len(values)
        /\ \A i \in 1..Len(values) : ss[i] = r[values[i]]
    BY <1>1, <1>2
  <1>4. /\ all \in Seq(Objs)
        /\ ToSet(all) = UNION {ToSet(ss[i]) : i \in 1..Len(ss)}
        /\ \A U : Apart(ss, U) => Once(all, U)
    <2>1. all = FlattenSeq(ss)
      BY <1>1
    <2> QED BY ZenonT(60), <1>3, <2>1, FlattenIs
  <1>5. ToSet(all) = UNION {ToSet(r[v]) : v \in ToSet(values)}
    <2>1. \A x : x \in ToSet(all) <=> \E i \in 1..Len(values) : x \in ToSet(r[values[i]])
      <3>1. \A x : x \in ToSet(all) <=> \E i \in 1..Len(ss) : x \in ToSet(ss[i])
        BY <1>4
      <3> QED BY <1>3, <3>1
    <2>2. \A x : (\E i \in 1..Len(values) : x \in ToSet(r[values[i]])) <=> \E v \in ToSet(values) : x \in ToSet(r[v])
      BY <1>2
    <2> QED BY <2>1, <2>2
  <1>6. ASSUME NEW U, IsInjective(values), \A v \in Objs : Once(r[v], U),
               \A v, w \in Objs : v # w => ToSet(r[v]) \cap ToSet(r[w]) \cap U = {}
        PROVE  Once(all, U)
    <2>1. \A i \in 1..Len(ss) : Once(ss[i], U)
      BY <1>2, <1>3, <1>6
    <2>2. \A i, j \in 1..Len(ss) : i # j => ToSet(ss[i]) \cap ToSet(ss[j]) \cap U = {}
      <3> SUFFICES ASSUME NEW i \in 1..Len(ss), NEW j \in 1..Len(ss), i # j
                   PROVE  ToSet(ss[i]) \cap ToSet(ss[j]) \cap U = {}
        OBVIOUS
      <3>1. values[i] # values[j]
        BY <1>2, <1>3, <1>6 DEF IsInjective
      <3>2. values[i] \in Objs /\ values[j] \in Objs /\ ss[i] = r[values[i]] /\ ss[j] = r[values[j]]
        BY <1>2, <1>3
      <3> QED BY <1>6, <3>1, <3>2
    <2> QED BY <1>4, <2>1, <2>2 DEF Apart
  <1> QED BY <1>4, <1>5, <1>6

------------------------------------------------------------------------------
(***************************************************************************)
(* What the steps do to the stack.                                         *)
(***************************************************************************)
Goes(phase) ==
    /\ stack' \in Seq(Frame) /\ Len(stack') = Len(stack)
    /\ \A k \in 1..(Len(stack) - 1) : stack'[k] = stack[k]
    /\ stack'[Len(stack)].values = frame.values /\ stack'[Len(stack)].conflict = frame.conflict
    /\ stack'[Len(stack)].phase = phase

Calls(elems, conflict, phase) ==
    /\ stack' \in Seq(Frame) /\ Len(stack') = Len(stack) + 1
    /\ \A k \in 1..(Len(stack) - 1) : stack'[k] = stack[k]
    /\ stack'[Len(stack)].values = frame.values /\ stack'[Len(stack)].conflict = frame.conflict
    /\ stack'[Len(stack)].phase = phase
    /\ stack'[Len(stack) + 1].values = elems /\ stack'[Len(stack) + 1].conflict = conflict
    /\ stack'[Len(stack) + 1].phase = "before"

Returns ==
    /\ stack' \in Seq(Frame) /\ Len(stack') = Len(stack) - 1
    /\ \A k \in 1..(Len(stack) - 1) : stack'[k] = stack[k]

LEMMA Innermost ==
    ASSUME stack \in Seq(Frame), stack # <<>>
    PROVE  /\ Len(stack) \in Nat /\ Len(stack) >= 1 /\ frame = stack[Len(stack)] /\ frame \in Frame
           /\ \A k \in 1..Len(stack) : stack[k] \in Frame
  BY DEF frame, Last

LEMMA FrontIs ==
    ASSUME stack \in Seq(Frame), stack # <<>>
    PROVE  /\ Front(stack) \in Seq(Frame) /\ Len(Front(stack)) = Len(stack) - 1
           /\ \A k \in 1..(Len(stack) - 1) : Front(stack)[k] = stack[k]
  <1>1. PICK n : n = Len(stack) - 1 /\ n \in Nat /\ n =< Len(stack)
    BY Innermost
  <1>2. PICK f : f = [k \in 1..n |-> stack[k]]
    OBVIOUS
  <1>3. Front(stack) = f
    <2>1. Front(stack) = SubSeq(stack, 1, n)
      BY <1>1 DEF Front
    <2>2. SubSeq(stack, 1, n) = [k \in 1..n |-> stack[k]]
      BY <1>1
    <2> QED BY <1>2, <2>1, <2>2
  <1>4. \A k \in 1..n : stack[k] \in Frame
    BY <1>1
  <1>5. f \in Seq(Frame) /\ Len(f) = n
    BY <1>1, <1>2, <1>4
  <1> QED BY <1>1, <1>2, <1>3, <1>5

LEMMA AdvanceGoes ==
    ASSUME stack \in Seq(Frame), stack # <<>>, NEW phase \in Phases, Advance(phase)
    PROVE  Goes(phase)
  <1>1. PICK r : r = [frame EXCEPT !.phase = phase]
    OBVIOUS
  <1>2. r \in Frame /\ r.values = frame.values /\ r.conflict = frame.conflict /\ r.phase = phase
    BY <1>1, Innermost DEF Frame
  <1>3. PICK f : f = Front(stack)
    OBVIOUS
  <1>4. f \in Seq(Frame) /\ Len(f) = Len(stack) - 1 /\ \A k \in 1..(Len(stack) - 1) : f[k] = stack[k]
    BY <1>3, FrontIs
  <1>5. stack' = f \o <<r>>
    BY <1>1, <1>3 DEF Advance
  <1>6. stack' \in Seq(Frame) /\ Len(stack') = Len(stack) /\ stack'[Len(stack)] = r
    BY <1>2, <1>4, <1>5, Innermost
  <1>7. \A k \in 1..(Len(stack) - 1) : stack'[k] = f[k]
    BY <1>4, <1>5, Innermost
  <1> QED BY <1>2, <1>4, <1>6, <1>7 DEF Goes

LEMMA CallCalls ==
    ASSUME stack \in Seq(Frame), stack # <<>>, NEW phase \in Phases, NEW elems \in Seq(Objs),
           NEW conflict \in {"fail", "ignore", "update"}, Call(elems, conflict, phase)
    PROVE  Calls(elems, conflict, phase)
  <1>1. PICK r : r = [frame EXCEPT !.phase = phase]
    OBVIOUS
  <1>2. r \in Frame /\ r.values = frame.values /\ r.conflict = frame.conflict /\ r.phase = phase
    BY <1>1, Innermost DEF Frame
  <1>3. PICK q : q = [values |-> elems, conflict |-> conflict, phase |-> "before"]
    OBVIOUS
  <1>4. q \in Frame /\ q.values = elems /\ q.conflict = conflict /\ q.phase = "before"
    BY <1>3 DEF Frame, Phases
  <1>5. PICK f : f = Front(stack)
    OBVIOUS
  <1>6. f \in Seq(Frame) /\ Len(f) = Len(stack) - 1 /\ \A k \in 1..(Len(stack) - 1) : f[k] = stack[k]
    BY <1>5, FrontIs
  <1>7. stack' = f \o <<r, q>>
    BY <1>1, <1>3, <1>5 DEF Call
  <1>8. stack' \in Seq(Frame) /\ Len(stack') = Len(stack) + 1
    BY <1>2, <1>4, <1>6, <1>7, Innermost
  <1>9. stack'[Len(stack)] = r /\ stack'[Len(stack) + 1] = q
    <2>1. PICK t : t = <<r, q>>
      OBVIOUS
    <2>2. t \in Seq(Frame) /\ Len(t) = 2 /\ t[1] = r /\ t[2] = q
      BY <1>2, <1>4, <2>1
    <2>3. stack' = f \o t /\ Len(f) + 1 = Len(stack) /\ Len(f) + 2 = Len(stack) + 1 /\ Len(f) \in Nat
      BY <1>6, <1>7, <2>1, Innermost
    <2>4. \A i \in 1..Len(t) : (f \o t)[Len(f) + i] = t[i]
      <3>1. f \in Seq(Frame) /\ t \in Seq(Frame)
        BY <1>6, <2>2
      <3> QED BY ONLY <3>1, Places
    <2>5. 1 \in 1..Len(t) /\ 2 \in 1..Len(t)
      BY <2>2
    <2>6. (f \o t)[Len(f) + 1] = r /\ (f \o t)[Len(f) + 2] = q
      BY <2>2, <2>4, <2>5
    <2>7. PICK l : l = Len(f)
      OBVIOUS
    <2>8. stack'[l + 1] = r /\ stack'[l + 2] = q
      BY <2>3, <2>6, <2>7, Zenon
    <2>9. l + 1 = Len(stack) /\ l + 2 = Len(stack) + 1
      BY <2>3, <2>7
    <2> QED BY <2>8, <2>9, Zenon
  <1>10. \A k \in 1..(Len(stack) - 1) : stack'[k] = f[k]
    BY <1>6, <1>7, Innermost
  <1> QED BY <1>2, <1>4, <1>6, <1>8, <1>9, <1>10 DEF Calls

LEMMA FailedIs ==
    ASSUME stack \in Seq(Frame), stack # <<>>, Failed
    PROVE  /\ error' = TRUE /\ stack' \in Seq(Frame) /\ Len(stack') = 1
           /\ stack'[1].values = stack[1].values /\ stack'[1].conflict = stack[1].conflict
           /\ stack'[1].phase = "end"
  <1>1. PICK r : r = [stack[1] EXCEPT !.phase = "end"]
    OBVIOUS
  <1>2. stack[1] \in Frame
    BY Innermost
  <1>3. r \in Frame /\ r.values = stack[1].values /\ r.conflict = stack[1].conflict /\ r.phase = "end"
    BY <1>1, <1>2 DEF Frame, Phases
  <1>4. stack' = <<r>>
    BY <1>1 DEF Failed
  <1> QED BY <1>3, <1>4 DEF Failed

\* Saving elems: they are visited then, whether or not a Create is called for them.
LEMMA SaveIs ==
    ASSUME TypeInv, stack # <<>>, NEW phase \in Phases, NEW elems \in Seq(Objs),
           NEW conflict \in {"ignore", "update"}, Save(elems, conflict, phase)
    PROVE  /\ ToSet(elems) \subseteq visited' /\ visited \subseteq visited' /\ visited' \subseteq Objs
           /\ skipped \subseteq skipped' /\ skipped' \subseteq Objs
           /\ \/ /\ Goes(phase) /\ visited' = visited
                 /\ skipped' = {} => \A o \in ToSet(elems) : pk[o] # 0
              \/ /\ Calls(elems, conflict, phase)
                 /\ visited' = visited \cup ToSet(elems) /\ ~(ToSet(elems) \subseteq visited)
                 /\ skipped' = skipped
  <1>1. ToSet(elems) \subseteq Objs /\ (elems = <<>> => ToSet(elems) = {})
    BY ToSetIs
  <1>2. stack \in Seq(Frame) /\ visited \subseteq Objs /\ skipped \subseteq Objs
    BY DEF TypeInv
  <1>3. CASE elems = <<>> /\ Advance(phase) /\ UNCHANGED <<visited, skipped>>
    BY <1>1, <1>2, <1>3, AdvanceGoes
  <1>4. CASE elems # <<>> /\ AllVisited(elems) /\ Advance(phase)
             /\ skipped' = skipped \cup {o \in ToSet(elems) : pk[o] = 0} /\ UNCHANGED visited
    <2>1. Goes(phase)
      BY <1>2, <1>4, AdvanceGoes
    <2> QED BY <1>1, <1>2, <1>4, <2>1 DEF AllVisited
  <1>5. CASE elems # <<>> /\ ~AllVisited(elems) /\ Call(elems, conflict, phase)
             /\ visited' = visited \cup ToSet(elems) /\ UNCHANGED skipped
    <2>1. Calls(elems, conflict, phase)
      BY <1>2, <1>5, CallCalls
    <2> QED BY <1>1, <1>2, <1>5, <2>1 DEF AllVisited
  <1> QED BY <1>3, <1>4, <1>5 DEF Save

------------------------------------------------------------------------------
(***************************************************************************)
(* INSERT.                                                                 *)
(***************************************************************************)
LEMMA UnkeyedAre ==
    ASSUME pk \in [Objs -> Nat], NEW values \in Seq(Objs)
    PROVE  /\ Unkeyed(values) \in Seq(Objs) /\ Len(Unkeyed(values)) \in Nat
           /\ ToSet(Unkeyed(values)) = {o \in ToSet(values) : pk[o] = 0}
           /\ IsInjective(values) => IsInjective(Unkeyed(values))
  <1> DEFINE I == {i \in DOMAIN values : pk[values[i]] = 0}
  <1>1. Unkeyed(values) = Pick(values, I)
    BY DEF Unkeyed
  <1>2. DOMAIN values = 1..Len(values) /\ ToSet(values) = {values[i] : i \in 1..Len(values)}
    <2>1. DOMAIN values = 1..Len(values)
      OBVIOUS
    <2> QED BY <2>1, ToSetIs
  <1>3. I \subseteq DOMAIN values
    OBVIOUS
  <1>4. /\ Pick(values, I) \in Seq(Objs) /\ ToSet(Pick(values, I)) = {values[i] : i \in I}
        /\ (\A i, j \in I : values[i] = values[j] => i = j) => IsInjective(Pick(values, I))
    BY <1>3, PickIs
  <1>5. {values[i] : i \in I} = {o \in ToSet(values) : pk[o] = 0}
    BY <1>2
  <1>6. IsInjective(values) => \A i, j \in I : values[i] = values[j] => i = j
    BY <1>3 DEF IsInjective
  <1>7. Len(Pick(values, I)) \in Nat
    BY <1>4
  <1> QED BY <1>1, <1>4, <1>5, <1>6, <1>7

LEMMA BackfilledIs ==
    ASSUME pk \in [Objs -> Nat], next \in Keys, NEW values \in Seq(Objs)
    PROVE  /\ Backfilled(values) \in [Objs -> Nat]
           /\ \A o \in ToSet(values) : pk[o] = 0 =>
                \E i \in 1..Len(Unkeyed(values)) :
                  /\ Backfilled(values)[o] = next + i - 1
                  /\ IsInjective(values) => Unkeyed(values)[i] = o
           /\ \A o \in Objs : o \notin ToSet(values) \/ pk[o] # 0 => Backfilled(values)[o] = pk[o]
  <1>1. PICK new : new = Unkeyed(values)
    OBVIOUS
  <1>2. /\ new \in Seq(Objs) /\ Len(new) \in Nat /\ ToSet(new) = {o \in ToSet(values) : pk[o] = 0}
        /\ IsInjective(values) => IsInjective(new)
    BY <1>1, UnkeyedAre
  <1>3. DOMAIN new = 1..Len(new) /\ ToSet(new) = {new[i] : i \in 1..Len(new)} /\ ToSet(new) \subseteq Objs
    <2>1. DOMAIN new = 1..Len(new)
      BY <1>2
    <2> QED BY <1>2, <2>1, ToSetIs
  <1> DEFINE I == {i \in DOMAIN new : \A j \in 1..(i - 1) : new[j] # new[i]}
  <1>4. PICK distinct : distinct = Pick(new, I)
    OBVIOUS
  <1>5. /\ distinct \in Seq(Objs) /\ Len(distinct) =< Len(new)
        /\ ToSet(distinct) = {new[i] : i \in I}
        /\ I = DOMAIN new => distinct = new
    BY <1>2, <1>4, PickIs
  <1>6. IsInjective(new) => distinct = new
    <2> SUFFICES ASSUME IsInjective(new) PROVE I = DOMAIN new
      BY <1>5
    <2>1. ASSUME NEW i \in 1..Len(new), NEW j \in 1..(i - 1) PROVE new[j] # new[i]
      BY SMTT(60), <1>2, <1>3 DEF IsInjective
    <2> QED BY <1>3, <2>1
  <1>7. ASSUME NEW o \in ToSet(new) PROVE o \in ToSet(distinct)
    <2>1. PICK n \in 1..Len(new) : new[n] = o
      BY <1>3, <1>7
    <2> DEFINE A == {i \in 1..Len(new) : new[i] = o}
    <2>2. Min(A) \in A /\ \A i \in A : Min(A) =< i
      BY ZenonT(60), <1>2, <2>1, PlacesHaveEnds
    <2>3. PICK i \in A : \A j \in A : i =< j
      BY <2>2
    <2>4. \A j \in 1..(i - 1) : j \in 1..Len(new) /\ j \notin A
      BY <1>2, <2>3
    <2>5. i \in I
      BY <1>3, <2>4
    <2> QED BY <1>5, <2>5
  <1>8. DOMAIN distinct = 1..Len(distinct) /\ Len(distinct) \in Nat /\ ToSet(distinct) = {distinct[i] : i \in 1..Len(distinct)}
    <2>1. DOMAIN distinct = 1..Len(distinct)
      BY <1>5
    <2> QED BY <1>5, <2>1, ToSetIs
  <1>9. ASSUME NEW o \in ToSet(new)
        PROVE  \E i \in 1..Len(new) : /\ SelectInSeq(distinct, LAMBDA e : e = o) = i
                                      /\ distinct[i] = o
    <2> DEFINE A == {i \in 1..Len(distinct) : distinct[i] = o}
    <2>1. A # {}
      BY <1>7, <1>8, <1>9
    <2>2. Min(A) \in A
      BY <1>8, <2>1, PlacesHaveEnds
    <2>3. SelectInSeq(distinct, LAMBDA e : e = o) = Min(A)
      BY <2>1 DEF SelectInSeq
    <2>4. PICK i \in A : i = Min(A)
      BY <2>2
    <2>5. i \in 1..Len(new) /\ distinct[i] = o
      BY <1>2, <1>5, <1>8
    <2> QED BY <2>3, <2>4, <2>5, Zenon
  <1>10. ASSUME NEW o \in Objs
         PROVE  Backfilled(values)[o] = IF o \in ToSet(new) THEN next + SelectInSeq(distinct, LAMBDA e : e = o) - 1 ELSE pk[o]
    BY <1>1, <1>4 DEF Backfilled, RowKey
  <1>11. Backfilled(values) = [o \in Objs |-> Backfilled(values)[o]]
    BY DEF Backfilled
  <1> HIDE DEF I
  <1>12. ASSUME NEW o \in ToSet(new)
         PROVE  \E i \in 1..Len(new) : /\ Backfilled(values)[o] = next + i - 1
                                       /\ IsInjective(values) => new[i] = o
    <2>1. PICK i \in 1..Len(new) : SelectInSeq(distinct, LAMBDA e : e = o) = i /\ distinct[i] = o
      BY <1>9, <1>12
    <2>2. Backfilled(values)[o] = next + i - 1
      BY <1>3, <1>10, <1>12, <2>1
    <2> QED BY <1>2, <1>6, <2>1, <2>2
  <1>13. ASSUME NEW o \in Objs PROVE Backfilled(values)[o] \in Nat
    <2>1. CASE o \in ToSet(new)
      <3>1. PICK i \in 1..Len(new) : Backfilled(values)[o] = next + i - 1
        BY <1>12, <2>1
      <3>2. next \in Nat /\ i \in Nat /\ i >= 1
        BY <1>2 DEF Keys
      <3> QED BY <3>1, <3>2
    <2>2. CASE o \notin ToSet(new)
      <3>1. Backfilled(values)[o] = pk[o]
        BY <1>10, <2>2, Zenon
      <3> QED BY <3>1
    <2> QED BY <2>1, <2>2
  <1>14. Backfilled(values) \in [Objs -> Nat]
    BY <1>11, <1>13
  <1>15. \A o \in Objs : o \notin ToSet(values) \/ pk[o] # 0 => Backfilled(values)[o] = pk[o]
    BY <1>2, <1>10
  <1> QED BY <1>1, <1>2, <1>12, <1>14, <1>15

NewKeys(values) == {next + i - 1 : i \in 1..Len(Unkeyed(values))}

\* Where every key is that of a row, INSERT adds rows for the records without one.
LEMMA InsertedIs ==
    ASSUME TypeInv, RefersInv, pc = "running", NEW values \in Seq(Objs), NEW conflict
    PROVE  LET r == Inserted(values, conflict)
           IN  /\ DOMAIN r = DOMAIN rows \cup NewKeys(values) /\ IsRows(r)
               /\ \A k \in DOMAIN r : r[k].fk \in DOMAIN rows \cup {0}
               /\ \A k \in DOMAIN rows : r[k].of = rows[k].of
               /\ \A i \in 1..Len(Unkeyed(values)) :
                    next + i - 1 \notin DOMAIN rows => r[next + i - 1].of = Unkeyed(values)[i]
  <1>1. PICK new : new = Unkeyed(values)
    OBVIOUS
  <1>2. new \in Seq(Objs) /\ Len(new) \in Nat /\ \A i \in 1..Len(new) : new[i] \in Objs
    BY <1>1, UnkeyedAre DEF TypeInv
  <1>3. PICK keyed : keyed = {o \in ToSet(values) : pk[o] # 0}
    OBVIOUS
  <1>4. keyed \subseteq Objs /\ \A o \in keyed : pk[o] \in DOMAIN rows
    BY <1>3, ToSetIs DEF RefersInv
  <1>5. PICK r : r = Inserted(values, conflict)
    OBVIOUS
  <1>6. PICK D : D = DOMAIN rows \cup {pk[o] : o \in keyed} \cup {RowKey(values, i) : i \in DOMAIN new}
    OBVIOUS
  <1>7. D = DOMAIN rows \cup NewKeys(values)
    <2>1. DOMAIN new = 1..Len(new)
      BY <1>2
    <2> QED BY <1>1, <1>4, <1>6, <2>1 DEF NewKeys, RowKey
  <1>8. r = [k \in D |->
            IF k \in DOMAIN rows
            THEN IF \E o \in keyed : pk[o] = k
                 THEN OnConflict(conflict, rows[k], CHOOSE o \in keyed : pk[o] = k) ELSE rows[k]
            ELSE IF k >= next THEN RowOf(new[k - next + 1])
                 ELSE RowOf(CHOOSE o \in keyed : pk[o] = k)]
    BY <1>1, <1>3, <1>5, <1>6 DEF Inserted
  <1>9. fk \in [Objs -> Nat] /\ next \in Nat /\ DOMAIN rows \subseteq Nat /\ \A k \in DOMAIN rows : rows[k] \in [of : Objs, fk : Nat]
    BY DEF TypeInv, IsRows, Keys
  <1>10. ASSUME NEW k \in DOMAIN rows
         PROVE  /\ r[k] \in [of : Objs, fk : Nat] /\ r[k].of = rows[k].of
                /\ r[k].fk \in DOMAIN rows \cup {0}
    <2>1. rows[k].fk \in DOMAIN rows \cup {0}
      BY DEF RefersInv
    <2>2. CASE \E o \in keyed : pk[o] = k
      <3>1. PICK o \in keyed : r[k] = OnConflict(conflict, rows[k], o)
        <4>1. (CHOOSE o \in keyed : pk[o] = k) \in keyed
          BY <2>2
        <4> QED BY <1>6, <1>8, <2>2, <4>1
      <3>2. fk[o] \in DOMAIN rows \cup {0} /\ fk[o] \in Nat
        BY <1>4, <1>9 DEF RefersInv
      <3>3. r[k] = rows[k] \/ r[k] = [rows[k] EXCEPT !.fk = fk[o]]
        BY <3>1 DEF OnConflict
      <3> QED BY <1>9, <2>1, <3>2, <3>3
    <2>3. CASE ~\E o \in keyed : pk[o] = k
      <3>1. r[k] = rows[k]
        BY <1>6, <1>8, <2>3
      <3> QED BY <1>9, <2>1, <3>1
    <2> QED BY <2>2, <2>3
  <1>11. ASSUME NEW i \in 1..Len(new), next + i - 1 \notin DOMAIN rows
         PROVE  /\ r[next + i - 1] \in [of : Objs, fk : Nat] /\ r[next + i - 1].of = new[i]
                /\ r[next + i - 1].fk \in DOMAIN rows \cup {0}
    <2>1. PICK k : k = next + i - 1 /\ k \in D /\ k >= next /\ k - next + 1 = i
      BY <1>1, <1>2, <1>7, <1>9 DEF NewKeys
    <2>2. r[k] = RowOf(new[i])
      <3>1. r[k] = RowOf(new[k - next + 1])
        BY <1>8, <1>11, <2>1
      <3> QED BY <2>1, <3>1
    <2>3. new[i] \in Objs /\ fk[new[i]] \in DOMAIN rows \cup {0} /\ fk[new[i]] \in Nat
      BY <1>2, <1>9 DEF RefersInv
    <2> QED BY <2>1, <2>2, <2>3 DEF RowOf
  <1>12. DOMAIN r = D
    BY <1>8
  <1>13. \A k \in D : k \in DOMAIN rows \/ \E i \in 1..Len(new) : k = next + i - 1 /\ next + i - 1 \notin DOMAIN rows
    BY <1>1, <1>7 DEF NewKeys
  <1>14. D \subseteq Keys
    BY <1>1, <1>2, <1>7, <1>9 DEF NewKeys, TypeInv, IsRows, Keys
  <1>15. IsRows(r)
    BY <1>10, <1>11, <1>12, <1>13, <1>14 DEF IsRows
  <1>16. \A k \in DOMAIN r : r[k].fk \in DOMAIN rows \cup {0}
    BY <1>10, <1>11, <1>12, <1>13
  <1> QED BY <1>1, <1>5, <1>7, <1>10, <1>11, <1>12, <1>15, <1>16

------------------------------------------------------------------------------
(***************************************************************************)
(* The shape of the states, and AllOrNothing.                              *)
(***************************************************************************)
LEMMA Running ==
    ASSUME ShapeInv, NEW phase, At(phase)
    PROVE  /\ pc = "running" /\ stack \in Seq(Frame) /\ stack # <<>>
           /\ Len(stack) \in Nat /\ Len(stack) >= 1
           /\ frame = stack[Len(stack)] /\ frame.phase = phase
           /\ frame.values \in Seq(Objs) /\ ToSet(frame.values) \subseteq Objs
           /\ frame.conflict \in {"fail", "ignore", "update"}
           /\ phase # "end" => ~error
  <1>1. pc = "running" /\ frame.phase = phase /\ stack \in Seq(Frame) /\ stack # <<>>
    BY DEF At, ShapeInv, TypeInv, StackInv
  <1>2. Len(stack) \in Nat /\ Len(stack) >= 1 /\ frame = stack[Len(stack)] /\ frame \in Frame
    BY <1>1, Innermost
  <1>3. frame.values \in Seq(Objs) /\ frame.conflict \in {"fail", "ignore", "update"}
    BY <1>2 DEF Frame
  <1>4. phase # "end" => ~error
    BY <1>1, <1>2 DEF ShapeInv, StackInv
  <1> QED BY <1>1, <1>2, <1>3, <1>4, ToSetIs

LEMMA Sizes ==
    ASSUME NEW A \in SUBSET Objs, NEW B \in SUBSET Objs, A \subseteq B
    PROVE  /\ Cardinality(A) \in Nat /\ Cardinality(B) \in Nat /\ Cardinality(A) =< Cardinality(B)
           /\ A # B => Cardinality(A) + 1 =< Cardinality(B)
           /\ Cardinality(B) =< Cardinality(Objs) /\ Cardinality(Objs) \in Nat
  <1>1. IsFiniteSet(Objs) /\ IsFiniteSet(B) /\ Cardinality(B) =< Cardinality(Objs)
    BY FS_Subset
  <1>2. IsFiniteSet(A) /\ Cardinality(A) =< Cardinality(B) /\ (Cardinality(A) = Cardinality(B) => A = B)
    BY <1>1, FS_Subset
  <1> QED BY <1>1, <1>2, FS_CardinalityType

\* A step of the innermost Create.
LEMMA GoesOn ==
    ASSUME ShapeInv, pc = "running", ~error, NEW phase \in Phases, Goes(phase),
           visited \subseteq visited', visited' \subseteq Objs, UNCHANGED <<input, pc, error>>
    PROVE  StackInv' /\ DepthInv'
  <1>1. stack \in Seq(Frame) /\ stack # <<>> /\ visited \subseteq Objs
    BY DEF ShapeInv, TypeInv, StackInv
  <1>2. Len(stack) \in Nat /\ Len(stack) >= 1 /\ frame = stack[Len(stack)]
    BY <1>1, Innermost
  <1>3. \A k \in 1..Len(stack) : stack'[k].values = stack[k].values /\ stack'[k].conflict = stack[k].conflict
    BY <1>2 DEF Goes
  <1>4. stack' # <<>>
    BY <1>2 DEF Goes
  <1>5. StackInv'
    <2>1. stack'[1].values = input'.roots /\ stack'[1].conflict = "fail"
      BY <1>1, <1>2, <1>3 DEF ShapeInv, StackInv
    <2>2. \A k \in 2..Len(stack') : stack'[k].conflict # "fail"
      BY <1>2, <1>3 DEF ShapeInv, StackInv, Goes
    <2>3. \A k \in 1..(Len(stack') - 1) : stack'[k].phase \in Waits
      BY <1>2 DEF ShapeInv, StackInv, Goes
    <2> QED BY <1>4, <2>1, <2>2, <2>3 DEF StackInv
  <1>6. DepthInv'
    <2>1. Cardinality(visited) \in Nat /\ Cardinality(visited') \in Nat /\ Cardinality(visited) =< Cardinality(visited')
      BY <1>1, Sizes
    <2>2. Len(stack) =< Cardinality(visited) + 1 /\ Len(stack') = Len(stack)
      BY DEF ShapeInv, DepthInv, Goes
    <2>3. Len(stack') =< Cardinality(visited') + 1
      BY <1>2, <2>1, <2>2
    <2> QED BY <2>3 DEF DepthInv
  <1> QED BY <1>5, <1>6

\* It calls Create for others.
LEMMA CallsDown ==
    ASSUME ShapeInv, pc = "running", ~error, NEW phase \in Waits, NEW elems, NEW conflict,
           conflict # "fail", Calls(elems, conflict, phase),
           visited \subseteq visited', visited' \subseteq Objs, visited' # visited, UNCHANGED <<input, pc, error>>
    PROVE  StackInv' /\ DepthInv'
  <1>1. stack \in Seq(Frame) /\ stack # <<>> /\ visited \subseteq Objs
    BY DEF ShapeInv, TypeInv, StackInv
  <1>2. Len(stack) \in Nat /\ Len(stack) >= 1 /\ frame = stack[Len(stack)]
    BY <1>1, Innermost
  <1>3. \A k \in 1..Len(stack) : stack'[k].values = stack[k].values /\ stack'[k].conflict = stack[k].conflict
    BY <1>2 DEF Calls
  <1>4. stack' # <<>> /\ Len(stack') = Len(stack) + 1
    BY <1>2 DEF Calls
  <1>5. StackInv'
    <2>1. stack'[1].values = input'.roots /\ stack'[1].conflict = "fail"
      BY <1>1, <1>2, <1>3 DEF ShapeInv, StackInv
    <2>2. ASSUME NEW k \in 2..Len(stack') PROVE stack'[k].conflict # "fail"
      <3>1. CASE k = Len(stack) + 1
        BY <3>1 DEF Calls
      <3>2. CASE k \in 2..Len(stack)
        BY <1>3, <3>2 DEF ShapeInv, StackInv
      <3> QED BY <1>2, <1>4, <3>1, <3>2
    <2>3. ASSUME NEW k \in 1..(Len(stack') - 1) PROVE stack'[k].phase \in Waits
      <3>1. CASE k = Len(stack)
        BY <3>1 DEF Calls
      <3>2. CASE k \in 1..(Len(stack) - 1)
        BY <3>2 DEF ShapeInv, StackInv, Calls
      <3> QED BY <1>2, <1>4, <3>1, <3>2
    <2> QED BY <1>4, <2>1, <2>2, <2>3 DEF StackInv
  <1>6. DepthInv'
    <2>1. Cardinality(visited) \in Nat /\ Cardinality(visited') \in Nat /\ Cardinality(visited) + 1 =< Cardinality(visited')
      BY <1>1, Sizes
    <2>2. Len(stack) =< Cardinality(visited) + 1
      BY DEF ShapeInv, DepthInv
    <2>3. Len(stack') =< Cardinality(visited') + 1
      BY <1>2, <1>4, <2>1, <2>2
    <2> QED BY <2>3 DEF DepthInv
  <1> QED BY <1>5, <1>6

LEMMA SavesShape ==
    ASSUME ShapeInv, pc = "running", ~error, NEW phase \in Waits, NEW elems \in Seq(Objs),
           NEW conflict \in {"ignore", "update"}, Save(elems, conflict, phase), UNCHANGED <<input, pc, error>>
    PROVE  /\ StackInv' /\ DepthInv' /\ stack' \in Seq(Frame)
           /\ visited' \subseteq Objs /\ skipped' \subseteq Objs
  <1>1. TypeInv /\ stack # <<>> /\ phase \in Phases
    BY DEF ShapeInv, StackInv, Waits, Phases
  <1>2. /\ ToSet(elems) \subseteq visited' /\ visited \subseteq visited' /\ visited' \subseteq Objs
        /\ skipped' \subseteq Objs
        /\ \/ Goes(phase)
           \/ Calls(elems, conflict, phase) /\ visited' # visited
    BY <1>1, SaveIs
  <1>3. CASE Goes(phase)
    BY <1>1, <1>2, <1>3, GoesOn DEF Goes
  <1>4. CASE Calls(elems, conflict, phase) /\ visited' # visited
    BY <1>1, <1>2, <1>4, CallsDown DEF Calls
  <1> QED BY <1>2, <1>3, <1>4

LEMMA ManagersType ==
    ASSUME TypeInv, NEW values \in Seq(Objs)
    PROVE  /\ DistinctByKey(Managers(values)) \in Seq(Objs)
           /\ DistinctByKey(TeamOf(values)) \in Seq(Objs)
           /\ DistinctByKey(FriendsOf(values)) \in Seq(Objs)
  <1>1. /\ input \in InputType /\ pk \in [Objs -> Nat]
        /\ input.team \in [Objs -> Seq(Objs)] /\ input.friends \in [Objs -> Seq(Objs)]
    BY DEF TypeInv, InputType
  <1>2. Managers(values) \in Seq(Objs)
    BY <1>1, ManagersAre
  <1>3. TeamOf(values) \in Seq(Objs) /\ FriendsOf(values) \in Seq(Objs)
    BY ZenonT(60), <1>1, ManyAre DEF TeamOf, FriendsOf
  <1> QED BY <1>1, <1>2, <1>3, DistinctIs

\* A foreign key is set to the key of a record.
LEMMA RefsAre ==
    ASSUME TypeInv, RefersInv, pc = "running", NEW values \in Seq(Objs)
    PROVE  /\ Refs(values) \in [Objs -> Nat] /\ TeamRefs(values) \in [Objs -> Nat]
           /\ \A o \in Objs : Refs(values)[o] \in DOMAIN rows \cup {0} /\ TeamRefs(values)[o] \in DOMAIN rows \cup {0}
  <1>1. /\ pk \in [Objs -> Nat] /\ fk \in [Objs -> Nat] /\ input.manager \in [Objs -> Objs \cup {0}]
        /\ DOMAIN values = 1..Len(values) /\ Len(values) \in Nat /\ \A i \in 1..Len(values) : values[i] \in Objs
    BY DEF TypeInv, InputType
  <1>2. ASSUME NEW o \in Objs PROVE \E u \in Objs : Refs(values)[o] \in {pk[u], fk[o]}
    BY <1>1 DEF Refs
  <1>3. ASSUME NEW o \in Objs PROVE \E u \in Objs : TeamRefs(values)[o] \in {pk[u], fk[o]}
    <2>1. PICK leaders : leaders = {i \in DOMAIN values : o \in ToSet(input.team[values[i]])}
      OBVIOUS
    <2>2. TeamRefs(values)[o] = IF leaders = {} THEN fk[o] ELSE pk[values[Max(leaders)]]
      BY <2>1 DEF TeamRefs
    <2>3. leaders # {} => Max(leaders) \in 1..Len(values)
      BY <1>1, <2>1, PlacesHaveEnds
    <2> QED BY <1>1, <2>2, <2>3
  <1>4. Refs(values) = [o \in Objs |-> Refs(values)[o]] /\ TeamRefs(values) = [o \in Objs |-> TeamRefs(values)[o]]
    BY DEF Refs, TeamRefs
  <1>5. \A o \in Objs : Refs(values)[o] \in Nat /\ TeamRefs(values)[o] \in Nat
    BY <1>1, <1>2, <1>3
  <1>6. \A o \in Objs : pk[o] \in DOMAIN rows \cup {0} /\ fk[o] \in DOMAIN rows \cup {0}
    BY DEF RefersInv
  <1>7. \A o \in Objs : Refs(values)[o] \in DOMAIN rows \cup {0} /\ TeamRefs(values)[o] \in DOMAIN rows \cup {0}
    BY <1>2, <1>3, <1>6
  <1> QED BY <1>4, <1>5, <1>7

LEMMA ShapeInit == Init => ShapeInv
  <1> SUFFICES ASSUME Init PROVE ShapeInv
    OBVIOUS
  <1>1. input \in Inputs /\ input \in InputType
    BY DEF Init
  <1>2. input.old \subseteq Objs /\ input.roots \in Seq(Objs)
    BY <1>1 DEF InputType
  <1>3. Max(Objs) \in Objs
    BY Ends2
  <1>4. next \in Keys
    <2>1. next = 1 + Max(Objs) /\ Max(Objs) \in Nat
      BY <1>3 DEF Init
    <2> QED BY <2>1 DEF Keys
  <1>5. pk \in [Objs -> Nat] /\ fk \in [Objs -> Nat]
    BY DEF Init
  <1>6. DOMAIN rows = input.old /\ \A k \in DOMAIN rows : rows[k].of = k /\ rows[k].fk = 0 /\ rows[k] \in [of : Objs, fk : Nat]
    BY <1>2 DEF Init
  <1>7. IsRows(rows)
    BY <1>2, <1>6 DEF IsRows, Keys
  <1>8. PICK r : r = [values |-> input.roots, conflict |-> "fail", phase |-> "before"] /\ stack = <<r>>
    BY DEF Init
  <1>9. r \in Frame /\ r.values = input.roots /\ r.conflict = "fail"
    BY <1>2, <1>8 DEF Frame, Phases
  <1>10. stack \in Seq(Frame) /\ Len(stack) = 1 /\ stack[1] = r /\ stack # <<>>
    BY <1>8, <1>9
  <1>11. joins = {} /\ visited = {} /\ skipped = {} /\ pc = "running" /\ error = FALSE
    BY DEF Init
  <1>12. TypeInv
    BY <1>1, <1>4, <1>5, <1>7, <1>10, <1>11 DEF TypeInv
  <1>13. StackInv
    BY <1>9, <1>10, <1>11 DEF StackInv
  <1>14. DepthInv
    BY <1>10, <1>11, FS_EmptySet DEF DepthInv
  <1>15. RefersInv
    <2>1. \A o \in Objs : pk[o] \in DOMAIN rows \cup {0} /\ fk[o] \in DOMAIN rows \cup {0}
      BY <1>6 DEF Init
    <2> QED BY <1>6, <2>1 DEF RefersInv
  <1>16. AllOrNothing
    BY <1>11 DEF Init, AllOrNothing, Created
  <1> QED BY <1>12, <1>13, <1>14, <1>15, <1>16 DEF ShapeInv

\* A callback that neither fails nor ends anything leaves what is stored alone.
LEMMA NotYet ==
    ASSUME ShapeInv, pc = "running", UNCHANGED <<input, stored, pc>>
    PROVE  AllOrNothing'
  BY DEF ShapeInv, AllOrNothing, Created

LEMMA QuietShape ==
    ASSUME ShapeInv, Before \/ After
    PROVE  ShapeInv'
  <1>1. PICK at, to \in Phases : At(at) /\ Advance(to) /\ at # "end"
    BY DEF Before, After, Phases
  <1>2. UNCHANGED <<input, pk, fk, rows, joins, next, stored, visited, skipped, pc, error>>
    BY DEF Before, After, memory, database
  <1>3. pc = "running" /\ stack \in Seq(Frame) /\ stack # <<>> /\ ~error /\ TypeInv
    BY <1>1, Running DEF ShapeInv
  <1>4. Goes(to)
    BY <1>1, <1>3, AdvanceGoes
  <1>5. StackInv' /\ DepthInv'
    BY <1>2, <1>3, <1>4, GoesOn DEF TypeInv
  <1>6. TypeInv'
    BY <1>2, <1>3, <1>4 DEF TypeInv, Goes, IsRows
  <1>7. RefersInv'
    BY <1>2 DEF ShapeInv, RefersInv
  <1> QED BY <1>2, <1>3, <1>5, <1>6, <1>7, NotYet DEF ShapeInv

LEMMA SavesAroundShape ==
    ASSUME ShapeInv, Parents \/ Children \/ Friends
    PROVE  ShapeInv'
  <1>1. PICK at \in Phases : At(at) /\ at # "end"
    BY DEF Parents, Children, Friends, Phases
  <1>2. UNCHANGED <<input, pk, rows, joins, next, stored, pc, error>>
    BY DEF Parents, Children, Friends, memory, database
  <1>3. pc = "running" /\ ~error /\ TypeInv /\ RefersInv /\ frame.values \in Seq(Objs)
    BY <1>1, Running DEF ShapeInv
  <1>4. fk' = fk \/ fk' = TeamRefs(frame.values)
    BY DEF Parents, Children, Friends, memory
  <1>5. fk' \in [Objs -> Nat] /\ \A o \in Objs : fk'[o] \in DOMAIN rows \cup {0}
    BY <1>3, <1>4, RefsAre DEF TypeInv, RefersInv
  <1>6. PICK elems \in Seq(Objs), conflict \in {"ignore", "update"}, phase \in Waits :
          Save(elems, conflict, phase)
    BY <1>3, ManagersType DEF Parents, Children, Friends, Waits
  <1>7. StackInv' /\ DepthInv' /\ stack' \in Seq(Frame) /\ visited' \subseteq Objs /\ skipped' \subseteq Objs
    BY <1>2, <1>3, <1>6, SavesShape
  <1>8. TypeInv'
    BY <1>2, <1>3, <1>5, <1>7 DEF TypeInv, IsRows
  <1>9. RefersInv'
    BY <1>2, <1>3, <1>5 DEF RefersInv
  <1> QED BY <1>2, <1>3, <1>7, <1>8, <1>9, NotYet DEF ShapeInv

LEMMA SetRefsShape ==
    ASSUME ShapeInv, SetRefs
    PROVE  ShapeInv'
  <1>1. At("refs") /\ Advance("insert") /\ fk' = Refs(frame.values)
        /\ UNCHANGED <<input, pk, rows, joins, next, stored, visited, skipped, pc, error>>
    BY DEF SetRefs, database
  <1>2. pc = "running" /\ ~error /\ TypeInv /\ RefersInv /\ frame.values \in Seq(Objs)
        /\ stack \in Seq(Frame) /\ stack # <<>> /\ "insert" \in Phases
    BY <1>1, Running DEF ShapeInv, Phases
  <1>3. fk' \in [Objs -> Nat] /\ \A o \in Objs : fk'[o] \in DOMAIN rows \cup {0}
    BY <1>1, <1>2, RefsAre
  <1>4. Goes("insert")
    BY <1>1, <1>2, AdvanceGoes
  <1>5. StackInv' /\ DepthInv'
    BY <1>1, <1>2, <1>4, GoesOn DEF TypeInv
  <1>6. TypeInv'
    BY <1>1, <1>2, <1>3, <1>4 DEF TypeInv, Goes, IsRows
  <1>7. RefersInv'
    BY <1>1, <1>2, <1>3 DEF RefersInv
  <1> QED BY <1>1, <1>2, <1>5, <1>6, <1>7, NotYet DEF ShapeInv

\* After an error, what is left is the first Create's end.
LEMMA FailedShape ==
    ASSUME ShapeInv, pc = "running", Failed,
           UNCHANGED <<input, pk, fk, rows, joins, next, stored, visited, skipped, pc>>
    PROVE  ShapeInv'
  <1>1. TypeInv /\ stack \in Seq(Frame) /\ stack # <<>>
    BY DEF ShapeInv, TypeInv, StackInv
  <1>2. /\ error' = TRUE /\ stack' \in Seq(Frame) /\ Len(stack') = 1
        /\ stack'[1].values = stack[1].values /\ stack'[1].conflict = stack[1].conflict
        /\ stack'[1].phase = "end"
    BY <1>1, FailedIs
  <1>3. stack' # <<>>
    <2>1. Len(<<>>) = 0
      OBVIOUS
    <2>2. Len(stack') # 0
      BY <1>2
    <2> QED BY <2>1, <2>2, Zenon
  <1>4. StackInv'
    BY <1>1, <1>2, <1>3 DEF ShapeInv, StackInv
  <1>5. DepthInv'
    <2>1. Cardinality(visited) \in Nat
      BY <1>1, Sizes DEF TypeInv
    <2> QED BY <1>2, <2>1 DEF DepthInv
  <1>6. TypeInv'
    BY <1>1, <1>2 DEF TypeInv, IsRows
  <1>7. RefersInv'
    BY DEF ShapeInv, RefersInv
  <1> QED BY <1>4, <1>5, <1>6, <1>7, NotYet DEF ShapeInv

LEMMA FailShape ==
    ASSUME ShapeInv, Fail
    PROVE  ShapeInv'
  <1>1. pc = "running" /\ Failed /\ UNCHANGED <<input, pk, fk, rows, joins, next, stored, visited, skipped, pc>>
    BY DEF Fail, At, memory, database
  <1> QED BY <1>1, FailedShape

\* What INSERT does when it does not fail.
Inserts ==
    /\ At("insert") /\ Goes("children")
    /\ ~IsDuplicate(frame.values, frame.conflict)
    /\ rows' = Inserted(frame.values, frame.conflict) /\ pk' = Backfilled(frame.values)
    /\ next' = next + Len(Unkeyed(frame.values))
    /\ UNCHANGED <<input, fk, joins, stored, visited, skipped, pc, error>>

Fails == Failed /\ UNCHANGED <<input, pk, fk, rows, joins, next, stored, visited, skipped, pc>>

LEMMA InsertDoes ==
    ASSUME ShapeInv, Insert
    PROVE  pc = "running" /\ (Inserts \/ Fails)
  <1>1. At("insert") /\ UNCHANGED <<input, fk, stored, visited, skipped, pc>>
    BY DEF Insert
  <1>2. pc = "running" /\ stack \in Seq(Frame) /\ stack # <<>> /\ "children" \in Phases
    BY <1>1, Running DEF Phases
  <1>3. CASE IsDuplicate(frame.values, frame.conflict)
    BY <1>1, <1>2, <1>3 DEF Insert, Fails, database
  <1>4. CASE ~IsDuplicate(frame.values, frame.conflict)
    <2>1. /\ rows' = Inserted(frame.values, frame.conflict) /\ pk' = Backfilled(frame.values)
          /\ next' = next + Len(Unkeyed(frame.values)) /\ Advance("children") /\ UNCHANGED <<joins, error>>
      BY <1>4 DEF Insert
    <2>2. Goes("children")
      BY <1>2, <2>1, AdvanceGoes
    <2> QED BY <1>1, <1>2, <1>4, <2>1, <2>2 DEF Inserts
  <1> QED BY <1>3, <1>4

\* The rows and the keys after an INSERT.
LEMMA InsertsAre ==
    ASSUME ShapeInv, Inserts
    PROVE  LET new == Unkeyed(frame.values)
           IN  /\ new \in Seq(Objs) /\ Len(new) \in Nat /\ next' = next + Len(new) /\ next \in Keys
               /\ ToSet(new) = {o \in ToSet(frame.values) : pk[o] = 0}
               /\ IsInjective(frame.values) => IsInjective(new)
               /\ IsRows(rows') /\ DOMAIN rows' = DOMAIN rows \cup {next + i - 1 : i \in 1..Len(new)}
               /\ \A k \in DOMAIN rows' : rows'[k].fk \in DOMAIN rows \cup {0}
               /\ \A k \in DOMAIN rows : rows'[k].of = rows[k].of
               /\ \A i \in 1..Len(new) : next + i - 1 \notin DOMAIN rows => rows'[next + i - 1].of = new[i]
               /\ pk' \in [Objs -> Nat]
               /\ \A o \in ToSet(frame.values) : pk[o] = 0 =>
                    \E i \in 1..Len(new) : pk'[o] = next + i - 1 /\ (IsInjective(frame.values) => new[i] = o)
               /\ \A o \in Objs : o \notin ToSet(frame.values) \/ pk[o] # 0 => pk'[o] = pk[o]
  <1>1. At("insert") /\ rows' = Inserted(frame.values, frame.conflict) /\ pk' = Backfilled(frame.values)
        /\ next' = next + Len(Unkeyed(frame.values))
    BY DEF Inserts
  <1>2. pc = "running" /\ frame.values \in Seq(Objs)
    BY <1>1, Running
  <1>3. TypeInv /\ RefersInv /\ pk \in [Objs -> Nat] /\ next \in Keys
    BY DEF ShapeInv, TypeInv
  <1>4. PICK values \in Seq(Objs), conflict \in {frame.conflict} : values = frame.values /\ conflict = frame.conflict
    BY <1>2
  <1>5. PICK r : r = Inserted(values, conflict) /\ rows' = r
    BY <1>1, <1>4
  <1>6. PICK new : new = Unkeyed(values)
    OBVIOUS
  <1>7. /\ DOMAIN r = DOMAIN rows \cup {next + i - 1 : i \in 1..Len(new)} /\ IsRows(r)
        /\ \A k \in DOMAIN r : r[k].fk \in DOMAIN rows \cup {0}
        /\ \A k \in DOMAIN rows : r[k].of = rows[k].of
        /\ \A i \in 1..Len(new) : next + i - 1 \notin DOMAIN rows => r[next + i - 1].of = new[i]
    <2>1. NewKeys(values) = {next + i - 1 : i \in 1..Len(new)}
      BY <1>6 DEF NewKeys
    <2>2. /\ DOMAIN r = DOMAIN rows \cup NewKeys(values) /\ IsRows(r)
          /\ \A k \in DOMAIN r : r[k].fk \in DOMAIN rows \cup {0}
          /\ \A k \in DOMAIN rows : r[k].of = rows[k].of
          /\ \A i \in 1..Len(Unkeyed(values)) :
               next + i - 1 \notin DOMAIN rows => r[next + i - 1].of = Unkeyed(values)[i]
      <3>1. TypeInv /\ RefersInv /\ pc = "running"
        BY <1>2, <1>3
      <3> QED BY ONLY <1>5, <3>1, InsertedIs
    <2> QED BY <1>6, <2>1, <2>2
  <1>8. /\ new \in Seq(Objs) /\ Len(new) \in Nat /\ ToSet(new) = {o \in ToSet(values) : pk[o] = 0}
        /\ IsInjective(values) => IsInjective(new)
    BY <1>3, <1>6, UnkeyedAre
  <1>9. PICK b : b = Backfilled(values) /\ pk' = b
    BY <1>1, <1>4
  <1>10. /\ b \in [Objs -> Nat]
         /\ \A o \in ToSet(values) : pk[o] = 0 =>
              \E i \in 1..Len(new) : b[o] = next + i - 1 /\ (IsInjective(values) => new[i] = o)
         /\ \A o \in Objs : o \notin ToSet(values) \/ pk[o] # 0 => b[o] = pk[o]
    BY <1>3, <1>6, <1>9, BackfilledIs
  <1>11. IsRows(rows') <=> IsRows(r)
    BY <1>5
  <1> QED BY <1>1, <1>3, <1>4, <1>5, <1>6, <1>7, <1>8, <1>9, <1>10, <1>11

LEMMA InsertShape ==
    ASSUME ShapeInv, Insert
    PROVE  ShapeInv'
  <1>1. pc = "running" /\ (Inserts \/ Fails)
    BY InsertDoes
  <1>2. CASE Fails
    BY <1>1, <1>2, FailedShape DEF Fails
  <1>3. CASE Inserts
    <2>1. At("insert") /\ Goes("children") /\ UNCHANGED <<input, fk, joins, stored, visited, skipped, pc, error>>
      BY <1>3 DEF Inserts
    <2>2. ~error /\ TypeInv /\ RefersInv /\ frame.values \in Seq(Objs) /\ "children" \in Phases
      BY <2>1, Running DEF ShapeInv, Phases
    <2>3. StackInv' /\ DepthInv'
      BY <1>1, <2>1, <2>2, GoesOn DEF TypeInv
    <2>4. PICK n \in Nat : /\ next' = next + n /\ next \in Keys /\ IsRows(rows') /\ pk' \in [Objs -> Nat]
                           /\ DOMAIN rows' = DOMAIN rows \cup {next + i - 1 : i \in 1..n}
                           /\ \A k \in DOMAIN rows' : rows'[k].fk \in DOMAIN rows \cup {0}
                           /\ \A o \in ToSet(frame.values) : pk[o] = 0 => \E i \in 1..n : pk'[o] = next + i - 1
                           /\ \A o \in Objs : o \notin ToSet(frame.values) \/ pk[o] # 0 => pk'[o] = pk[o]
      BY <1>3, InsertsAre
    <2>5. next' \in Keys
      BY <2>4 DEF Keys
    <2>6. TypeInv'
      BY <2>1, <2>2, <2>4, <2>5 DEF TypeInv, Goes
    <2>7. \A o \in Objs : pk'[o] \in DOMAIN rows' \cup {0}
      BY <1>1, <2>2, <2>4 DEF RefersInv
    <2>8. RefersInv'
      BY <1>1, <2>1, <2>2, <2>4, <2>7 DEF RefersInv
    <2> QED BY <1>1, <2>1, <2>3, <2>6, <2>8, NotYet DEF ShapeInv
  <1> QED BY <1>1, <1>2, <1>3

\* Joins, past its guard.
JoinRows == UNION {{<<pk[v], pk[f]>> : f \in ToSet(input.friends[v])} : v \in ToSet(frame.values)}

LEMMA JoinsDoes ==
    ASSUME ShapeInv, Joins
    PROVE  /\ pc = "running" /\ ~error /\ At("joins") /\ Goes("after") /\ joins' = joins \cup JoinRows
           /\ UNCHANGED <<input, pk, fk, rows, next, stored, visited, skipped, pc, error>>
  <1>1. At("joins") /\ Advance("after") /\ joins' = joins \cup JoinRows
        /\ UNCHANGED <<input, pk, fk, rows, next, stored, visited, skipped, pc, error>>
    BY DEF Joins, JoinRows, memory
  <1>2. pc = "running" /\ ~error /\ stack \in Seq(Frame) /\ stack # <<>> /\ "after" \in Phases
    BY <1>1, Running DEF Phases
  <1>3. Goes("after")
    BY <1>1, <1>2, AdvanceGoes
  <1> QED BY <1>1, <1>2, <1>3

LEMMA JoinsShape ==
    ASSUME ShapeInv, Joins
    PROVE  ShapeInv'
  <1>1. /\ pc = "running" /\ ~error /\ At("joins") /\ Goes("after") /\ joins' = joins \cup JoinRows
        /\ UNCHANGED <<input, pk, fk, rows, next, stored, visited, skipped, pc, error>>
    BY JoinsDoes
  <1>2. TypeInv /\ RefersInv /\ "after" \in Phases /\ ToSet(frame.values) \subseteq Objs
    BY <1>1, Running DEF ShapeInv, Phases
  <1>3. JoinRows \subseteq Nat \X Nat
    <2>1. pk \in [Objs -> Nat] /\ input.friends \in [Objs -> Seq(Objs)]
      BY <1>2 DEF TypeInv, InputType
    <2>2. ASSUME NEW v \in ToSet(frame.values), NEW f \in ToSet(input.friends[v]) PROVE <<pk[v], pk[f]>> \in Nat \X Nat
      <3>1. v \in Objs /\ f \in Objs
        BY <1>2, <2>1, ToSetIs
      <3> QED BY <2>1, <3>1
    <2> QED BY <2>2 DEF JoinRows
  <1>4. StackInv' /\ DepthInv'
    BY <1>1, <1>2, GoesOn DEF TypeInv
  <1>5. TypeInv'
    BY <1>1, <1>2, <1>3 DEF TypeInv, Goes, IsRows
  <1>6. RefersInv'
    BY <1>1, <1>2 DEF RefersInv
  <1> QED BY <1>1, <1>4, <1>5, <1>6, NotYet DEF ShapeInv

LEMMA ReturnDoes ==
    ASSUME ShapeInv, Return
    PROVE  /\ pc = "running" /\ ~error /\ At("end") /\ Len(stack) > 1 /\ Returns
           /\ UNCHANGED <<input, pk, fk, rows, joins, next, stored, visited, skipped, pc, error>>
  <1>1. At("end") /\ Len(stack) > 1 /\ stack' = Front(stack)
        /\ UNCHANGED <<input, pk, fk, rows, joins, next, stored, visited, skipped, pc, error>>
    BY DEF Return, memory, database
  <1>2. pc = "running" /\ stack \in Seq(Frame) /\ stack # <<>>
    BY <1>1, Running
  <1>3. Returns
    BY <1>1, <1>2, FrontIs DEF Returns
  <1>4. ~error
    BY <1>1, <1>2, Innermost DEF ShapeInv, StackInv
  <1> QED BY <1>1, <1>2, <1>3, <1>4

LEMMA ReturnShape ==
    ASSUME ShapeInv, Return
    PROVE  ShapeInv'
  <1>1. /\ pc = "running" /\ ~error /\ At("end") /\ Len(stack) > 1 /\ Returns
        /\ UNCHANGED <<input, pk, fk, rows, joins, next, stored, visited, skipped, pc, error>>
    BY ReturnDoes
  <1>2. TypeInv /\ RefersInv /\ Len(stack) \in Nat
    BY <1>1, Running DEF ShapeInv
  <1>3. stack' # <<>>
    <2>1. Len(<<>>) = 0
      OBVIOUS
    <2>2. Len(stack') # 0
      BY <1>1, <1>2 DEF Returns
    <2> QED BY <2>1, <2>2, Zenon
  <1>4. stack # <<>>
    BY <1>1 DEF ShapeInv, StackInv
  <1>5. StackInv'
    <2>1. \A k \in 1..Len(stack') : stack'[k] = stack[k] /\ k \in 1..(Len(stack) - 1)
      BY <1>1, <1>2 DEF Returns
    <2>2. stack'[1].values = input'.roots /\ stack'[1].conflict = "fail"
      BY <1>1, <1>2, <1>4, <2>1 DEF ShapeInv, StackInv, Returns
    <2>3. \A k \in 2..Len(stack') : stack'[k].conflict # "fail"
      BY <1>1, <1>2, <2>1 DEF ShapeInv, StackInv, Returns
    <2>4. \A k \in 1..(Len(stack') - 1) : stack'[k].phase \in Waits
      BY <1>1, <1>2, <2>1 DEF ShapeInv, StackInv, Returns
    <2> QED BY <1>1, <1>3, <2>2, <2>3, <2>4 DEF StackInv
  <1>6. DepthInv'
    <2>1. Cardinality(visited) \in Nat
      BY <1>2, Sizes DEF TypeInv
    <2> QED BY <1>1, <1>2, <2>1 DEF ShapeInv, DepthInv, Returns
  <1>7. TypeInv'
    BY <1>1, <1>2 DEF TypeInv, Returns, IsRows
  <1>8. RefersInv'
    BY <1>1, <1>2 DEF RefersInv
  <1> QED BY <1>1, <1>5, <1>6, <1>7, <1>8, NotYet DEF ShapeInv

\* The transaction commits, or goes back to what was stored.
LEMMA EndDoes ==
    ASSUME ShapeInv, End
    PROVE  /\ pc = "running" /\ At("end") /\ Len(stack) = 1 /\ pc' = "done" /\ stack' = <<>>
           /\ UNCHANGED <<input, pk, fk, next, visited, skipped>>
           /\ \/ ~error /\ stored' = <<rows, joins>> /\ UNCHANGED <<rows, joins, error>>
              \/ rows' = FirstRows /\ joins' = {} /\ error' = TRUE /\ UNCHANGED stored
  <1>1. pc = "running"
    BY DEF End, At
  <1>2. stored = <<FirstRows, {}>>
    BY <1>1 DEF ShapeInv, AllOrNothing, Created, FirstRows
  <1>3. stored[1] = FirstRows /\ stored[2] = {}
    BY <1>2
  <1> QED BY <1>1, <1>3 DEF End, MayCommit, memory

\* Nothing runs any more.
LEMMA StopsShape ==
    ASSUME ShapeInv, stack' = <<>>, pc' \in {"done", "panicked"}, UNCHANGED <<input, visited>>
    PROVE  StackInv' /\ DepthInv' /\ stack' \in Seq(Frame)
  <1>1. Len(stack') = 0 /\ stack' \in Seq(Frame)
    OBVIOUS
  <1>2. StackInv'
    BY <1>1 DEF StackInv
  <1>3. DepthInv'
    <2>1. Cardinality(visited) \in Nat
      BY Sizes DEF ShapeInv, TypeInv
    <2> QED BY <1>1, <2>1 DEF DepthInv
  <1> QED BY <1>1, <1>2, <1>3

LEMMA EndShape ==
    ASSUME ShapeInv, End
    PROVE  ShapeInv'
  <1>1. /\ pc = "running" /\ pc' = "done" /\ stack' = <<>>
        /\ UNCHANGED <<input, pk, fk, next, visited, skipped>>
        /\ \/ ~error /\ stored' = <<rows, joins>> /\ UNCHANGED <<rows, joins, error>>
           \/ rows' = FirstRows /\ joins' = {} /\ error' = TRUE /\ UNCHANGED stored
    BY EndDoes
  <1>2. StackInv' /\ DepthInv' /\ stack' \in Seq(Frame)
    BY <1>1, StopsShape
  <1>3. TypeInv /\ RefersInv
    BY DEF ShapeInv
  <1>4. CASE ~error /\ stored' = <<rows, joins>> /\ UNCHANGED <<rows, joins, error>>
    <2>1. TypeInv'
      BY <1>1, <1>2, <1>3, <1>4 DEF TypeInv, IsRows
    <2>2. RefersInv'
      BY <1>1, <1>3, <1>4 DEF RefersInv
    <2>3. AllOrNothing'
      BY <1>1, <1>4 DEF AllOrNothing, Created
    <2> QED BY <1>2, <2>1, <2>2, <2>3 DEF ShapeInv
  <1>5. CASE rows' = FirstRows /\ joins' = {} /\ error' = TRUE /\ UNCHANGED stored
    <2>1. input.old \subseteq Objs
      BY <1>3 DEF TypeInv, InputType
    <2>2. DOMAIN FirstRows = input.old /\ \A k \in input.old : FirstRows[k].fk = 0 /\ FirstRows[k] \in [of : Objs, fk : Nat]
      BY <2>1 DEF FirstRows
    <2>3. IsRows(FirstRows)
      BY <2>1, <2>2 DEF IsRows, Keys
    <2>4. IsRows(rows')
      BY <1>5, <2>3
    <2>5. TypeInv'
      BY <1>1, <1>2, <1>3, <1>5, <2>4 DEF TypeInv
    <2>6. RefersInv'
      BY <1>1, <1>5, <2>2 DEF RefersInv
    <2>7. AllOrNothing'
      BY <1>1, <1>5 DEF ShapeInv, AllOrNothing, Created
    <2> QED BY <1>2, <2>5, <2>6, <2>7 DEF ShapeInv
  <1> QED BY <1>1, <1>4, <1>5

LEMMA PanicShape ==
    ASSUME ShapeInv, Panic
    PROVE  ShapeInv'
  <1>1. /\ pc = "running" /\ pc' = "panicked" /\ stack' = <<>>
        /\ UNCHANGED <<input, pk, fk, rows, joins, next, stored, visited, skipped, error>>
    BY DEF Panic, At, memory, database
  <1>2. StackInv' /\ DepthInv' /\ stack' \in Seq(Frame)
    BY <1>1, StopsShape
  <1>3. TypeInv'
    BY <1>1, <1>2 DEF ShapeInv, TypeInv, IsRows
  <1>4. RefersInv'
    BY <1>1 DEF ShapeInv, RefersInv
  <1>5. AllOrNothing'
    BY <1>1 DEF ShapeInv, AllOrNothing, Created
  <1> QED BY <1>2, <1>3, <1>4, <1>5 DEF ShapeInv

LEMMA ShapeNext == ShapeInv /\ [Next]_vars => ShapeInv'
  <1> SUFFICES ASSUME ShapeInv, [Next]_vars PROVE ShapeInv'
    OBVIOUS
  <1>1. CASE Before \/ After
    BY <1>1, QuietShape
  <1>2. CASE Parents \/ Children \/ Friends
    BY <1>2, SavesAroundShape
  <1>3. CASE SetRefs
    BY <1>3, SetRefsShape
  <1>4. CASE Insert
    BY <1>4, InsertShape
  <1>5. CASE Joins
    BY <1>5, JoinsShape
  <1>6. CASE Return
    BY <1>6, ReturnShape
  <1>7. CASE End
    BY <1>7, EndShape
  <1>8. CASE Fail
    BY <1>8, FailShape
  <1>9. CASE Panic
    BY <1>9, PanicShape
  <1>10. CASE UNCHANGED vars
    BY <1>10 DEF vars, memory, database, ShapeInv, TypeInv, IsRows, StackInv, DepthInv, RefersInv, AllOrNothing, Created
  <1> QED BY <1>1, <1>2, <1>3, <1>4, <1>5, <1>6, <1>7, <1>8, <1>9, <1>10 DEF Next, Callback

LEMMA ShapeAlways == Spec => []ShapeInv
  BY ShapeInit, ShapeNext, PTL DEF Spec

\* The state is what the types say: above all, no circle of pointers makes Create
\* call itself more often than there are records, so that its recursion ends.
THEOREM DepthIsBounded == Spec => []TypeOK
  <1>1. ShapeInv => TypeOK
    <2> SUFFICES ASSUME ShapeInv PROVE TypeOK
      OBVIOUS
    <2>1. Len(stack) =< MaxDepth
      <3>1. stack \in Seq(Frame) /\ Len(stack) \in Nat
        BY DEF ShapeInv, TypeInv
      <3>2. Cardinality(visited) \in Nat /\ Cardinality(visited) =< Cardinality(Objs) /\ Cardinality(Objs) \in Nat
        BY Sizes DEF ShapeInv, TypeInv
      <3> QED BY <3>1, <3>2 DEF ShapeInv, DepthInv, MaxDepth
    <2> QED BY <2>1 DEF ShapeInv, TypeInv, IsRows, TypeOK
  <1> QED BY <1>1, ShapeAlways, PTL

\* A Create that fails, at whatever record and after however many nested ones, has
\* stored nothing: there is one transaction, the outermost Create's, and it is
\* committed only without an error.
THEOREM StoresAllOrNothing == Spec => []AllOrNothing
  <1>1. ShapeInv => AllOrNothing
    BY DEF ShapeInv
  <1> QED BY <1>1, ShapeAlways, PTL

------------------------------------------------------------------------------
(***************************************************************************)
(* What is saved around the values of a Create.                            *)
(***************************************************************************)
TeamsOf(i, V) == UNION {ToSet(i.team[v]) : v \in V}
AllFriendsOf(i, V) == UNION {ToSet(i.friends[v]) : v \in V}

\* elems are those of all, but for some that have the key of one of them.
Represents(elems, all) ==
    /\ ToSet(elems) \subseteq all
    /\ \A o \in all : pk[o] = 0 => o \in ToSet(elems)
    /\ \A o \in all : \E u \in ToSet(elems) : u = o \/ (pk[u] = pk[o] /\ pk[o] # 0)

\* From the phase at, all are saved, and the Create goes on to next.
Saving(at, phase, all) ==
    /\ pc = "running" /\ ~error /\ At(at)
    /\ UNCHANGED <<input, pk, rows, joins, next, stored, pc, error>>
    /\ visited \subseteq visited' /\ visited' \subseteq Objs /\ skipped \subseteq skipped'
    /\ \E elems \in Seq(Objs), conflict \in {"ignore", "update"} :
        /\ Represents(elems, all) /\ ToSet(elems) \subseteq visited'
        /\ IsInjective(frame.values) /\ Unshared(input) /\ (\A o \in input.old : pk[o] # 0) => IsInjective(elems)
        /\ \/ /\ Goes(phase) /\ visited' = visited
              /\ skipped' = {} => \A o \in ToSet(elems) : pk[o] # 0
           \/ /\ Calls(elems, conflict, phase)
              /\ visited' = visited \cup ToSet(elems) /\ skipped' = skipped

LEMMA SavingIs ==
    ASSUME ShapeInv, NEW at \in Phases \ {"end"}, NEW phase \in Waits, At(at), NEW elems \in Seq(Objs),
           NEW conflict \in {"ignore", "update"}, Save(DistinctByKey(elems), conflict, phase),
           UNCHANGED <<input, pk, rows, joins, next, stored, pc, error>>,
           IsInjective(frame.values) /\ Unshared(input) => Once(elems, New(input))
    PROVE  Saving(at, phase, ToSet(elems))
  <1>1. pc = "running" /\ ~error /\ TypeInv /\ stack # <<>> /\ phase \in Phases /\ pk \in [Objs -> Nat]
    BY Running DEF ShapeInv, TypeInv, Waits, Phases
  <1>2. PICK d : d = DistinctByKey(elems)
    OBVIOUS
  <1>3. /\ d \in Seq(Objs) /\ Represents(d, ToSet(elems))
        /\ Once(elems, {o \in Objs : pk[o] = 0}) => IsInjective(d)
    BY <1>1, <1>2, DistinctIs DEF Represents
  <1>4. Save(d, conflict, phase)
    BY <1>2
  <1>5. /\ ToSet(d) \subseteq visited' /\ visited \subseteq visited' /\ visited' \subseteq Objs
        /\ skipped \subseteq skipped'
        /\ \/ /\ Goes(phase) /\ visited' = visited
              /\ skipped' = {} => \A o \in ToSet(d) : pk[o] # 0
           \/ /\ Calls(d, conflict, phase)
              /\ visited' = visited \cup ToSet(d) /\ skipped' = skipped
    BY <1>1, <1>3, <1>4, SaveIs
  <1>6. IsInjective(frame.values) /\ Unshared(input) /\ (\A o \in input.old : pk[o] # 0) => IsInjective(d)
    <2> SUFFICES ASSUME Once(elems, New(input)), \A o \in input.old : pk[o] # 0
                 PROVE  Once(elems, {o \in Objs : pk[o] = 0})
      BY <1>3
    <2>1. {o \in Objs : pk[o] = 0} \subseteq New(input)
      BY DEF New
    <2> QED BY <2>1 DEF Once
  <1> QED BY <1>1, <1>3, <1>5, <1>6 DEF Saving

LEMMA ParentsDo ==
    ASSUME ShapeInv, Parents
    PROVE  Saving("parents", "refs", ManagersOf(input, ToSet(frame.values))) /\ fk' = fk
  <1>1. /\ At("parents") /\ Save(DistinctByKey(Managers(frame.values)), "ignore", "refs")
        /\ UNCHANGED <<input, pk, fk, rows, joins, next, stored, pc, error>>
    BY DEF Parents, memory, database
  <1>2. frame.values \in Seq(Objs) /\ input \in InputType
    BY <1>1, Running DEF ShapeInv, TypeInv
  <1>3. PICK elems : elems = Managers(frame.values)
    OBVIOUS
  <1>4. elems \in Seq(Objs) /\ ToSet(elems) = ManagersOf(input, ToSet(frame.values))
    BY <1>2, <1>3, ManagersAre DEF ManagersOf
  <1>5. IsInjective(frame.values) /\ Unshared(input) => Once(elems, New(input))
    BY <1>2, <1>3, ManagersAre DEF Unshared
  <1>6. "parents" \in Phases \ {"end"} /\ "refs" \in Waits
    BY DEF Phases, Waits
  <1> QED BY <1>1, <1>3, <1>4, <1>5, <1>6, SavingIs

LEMMA ChildrenDo ==
    ASSUME ShapeInv, Children
    PROVE  Saving("children", "friends", TeamsOf(input, ToSet(frame.values))) /\ fk' = TeamRefs(frame.values)
  <1>1. /\ At("children") /\ Save(DistinctByKey(TeamOf(frame.values)), "update", "friends")
        /\ fk' = TeamRefs(frame.values)
        /\ UNCHANGED <<input, pk, rows, joins, next, stored, pc, error>>
    BY DEF Children, database
  <1>2. frame.values \in Seq(Objs) /\ input.team \in [Objs -> Seq(Objs)]
    BY <1>1, Running DEF ShapeInv, TypeInv, InputType
  <1>3. PICK elems : elems = TeamOf(frame.values)
    OBVIOUS
  <1>4. elems \in Seq(Objs) /\ ToSet(elems) = TeamsOf(input, ToSet(frame.values))
    BY <1>2, <1>3, ManyAre DEF TeamsOf, TeamOf
  <1>5. IsInjective(frame.values) /\ Unshared(input) => Once(elems, New(input))
    <2> SUFFICES ASSUME IsInjective(frame.values), Unshared(input) PROVE Once(elems, New(input))
      OBVIOUS
    <2>1. PICK U \in {New(input)}, r \in [Objs -> Seq(Objs)] : r = input.team
      BY <1>2
    <2>2. /\ \A v \in Objs : Once(r[v], U)
          /\ \A v, w \in Objs : v # w => ToSet(r[v]) \cap ToSet(r[w]) \cap U = {}
      BY <2>1 DEF Unshared
    <2>3. elems = FlattenSeq([i \in DOMAIN frame.values |-> r[frame.values[i]]])
      BY <1>3, <2>1 DEF TeamOf
    <2>4. Once(elems, U)
      BY <1>2, <2>2, <2>3, ManyAre
    <2> QED BY <2>1, <2>4
  <1>6. "children" \in Phases \ {"end"} /\ "friends" \in Waits
    BY DEF Phases, Waits
  <1> QED BY <1>1, <1>3, <1>4, <1>5, <1>6, SavingIs

LEMMA FriendsDo ==
    ASSUME ShapeInv, Friends
    PROVE  Saving("friends", "joins", AllFriendsOf(input, ToSet(frame.values))) /\ fk' = fk
  <1>1. /\ At("friends") /\ Save(DistinctByKey(FriendsOf(frame.values)), "ignore", "joins")
        /\ UNCHANGED <<input, pk, fk, rows, joins, next, stored, pc, error>>
    BY DEF Friends, memory, database
  <1>2. frame.values \in Seq(Objs) /\ input.friends \in [Objs -> Seq(Objs)]
    BY <1>1, Running DEF ShapeInv, TypeInv, InputType
  <1>3. PICK elems : elems = FriendsOf(frame.values)
    OBVIOUS
  <1>4. elems \in Seq(Objs) /\ ToSet(elems) = AllFriendsOf(input, ToSet(frame.values))
    BY <1>2, <1>3, ManyAre DEF AllFriendsOf, FriendsOf
  <1>5. IsInjective(frame.values) /\ Unshared(input) => Once(elems, New(input))
    <2> SUFFICES ASSUME IsInjective(frame.values), Unshared(input) PROVE Once(elems, New(input))
      OBVIOUS
    <2>1. PICK U \in {New(input)}, r \in [Objs -> Seq(Objs)] : r = input.friends
      BY <1>2
    <2>2. /\ \A v \in Objs : Once(r[v], U)
          /\ \A v, w \in Objs : v # w => ToSet(r[v]) \cap ToSet(r[w]) \cap U = {}
      BY <2>1 DEF Unshared
    <2>3. elems = FlattenSeq([i \in DOMAIN frame.values |-> r[frame.values[i]]])
      BY <1>3, <2>1 DEF FriendsOf
    <2>4. Once(elems, U)
      BY <1>2, <2>2, <2>3, ManyAre
    <2> QED BY <2>1, <2>4
  <1>6. "friends" \in Phases \ {"end"} /\ "joins" \in Waits
    BY DEF Phases, Waits
  <1> QED BY <1>1, <1>3, <1>4, <1>5, <1>6, SavingIs

\* A callback that only goes on to the next.
Quiet(at, phase) ==
    /\ pc = "running" /\ ~error /\ At(at) /\ Goes(phase)
    /\ UNCHANGED <<input, pk, rows, joins, next, stored, visited, skipped, pc, error>>

LEMMA QuietDo ==
    ASSUME ShapeInv
    PROVE  /\ Before => Quiet("before", "parents") /\ fk' = fk
           /\ SetRefs => Quiet("refs", "insert")
           /\ After => Quiet("after", "end") /\ fk' = fk
  <1>1. {"before", "parents", "refs", "insert", "after", "end"} \subseteq Phases
    BY DEF Phases
  <1>2. ASSUME Before PROVE Quiet("before", "parents") /\ fk' = fk
    <2>1. At("before") /\ Advance("parents")
          /\ UNCHANGED <<input, pk, fk, rows, joins, next, stored, visited, skipped, pc, error>>
      BY <1>2 DEF Before, memory, database
    <2>2. pc = "running" /\ ~error /\ stack \in Seq(Frame) /\ stack # <<>>
      BY <2>1, Running
    <2>3. Goes("parents")
      BY <1>1, <2>1, <2>2, AdvanceGoes
    <2> QED BY <2>1, <2>2, <2>3 DEF Quiet
  <1>3. ASSUME SetRefs PROVE Quiet("refs", "insert")
    <2>1. At("refs") /\ Advance("insert")
          /\ UNCHANGED <<input, pk, rows, joins, next, stored, visited, skipped, pc, error>>
      BY <1>3 DEF SetRefs, database
    <2>2. pc = "running" /\ ~error /\ stack \in Seq(Frame) /\ stack # <<>>
      BY <2>1, Running
    <2>3. Goes("insert")
      BY <1>1, <2>1, <2>2, AdvanceGoes
    <2> QED BY <2>1, <2>2, <2>3 DEF Quiet
  <1>4. ASSUME After PROVE Quiet("after", "end") /\ fk' = fk
    <2>1. At("after") /\ Advance("end")
          /\ UNCHANGED <<input, pk, fk, rows, joins, next, stored, visited, skipped, pc, error>>
      BY <1>4 DEF After, memory, database
    <2>2. pc = "running" /\ ~error /\ stack \in Seq(Frame) /\ stack # <<>>
      BY <2>1, Running
    <2>3. Goes("end")
      BY <1>1, <2>1, <2>2, AdvanceGoes
    <2> QED BY <2>1, <2>2, <2>3 DEF Quiet
  <1> QED BY <1>2, <1>3, <1>4

LEMMA FailDoes ==
    ASSUME ShapeInv, Fail
    PROVE  pc = "running" /\ Fails
  BY DEF Fail, At, Fails, memory, database

LEMMA FailsAre ==
    ASSUME ShapeInv, pc = "running", Fails
    PROVE  error' = TRUE /\ Len(stack') = 1 /\ stack'[1].phase = "end"
  <1>1. stack \in Seq(Frame) /\ stack # <<>>
    BY DEF ShapeInv, TypeInv, StackInv
  <1> QED BY <1>1, FailedIs DEF Fails

------------------------------------------------------------------------------
(***************************************************************************)
(* NoCollision.                                                            *)
(***************************************************************************)
LEMMA ReachedGrows ==
    ASSUME NEW i \in InputType, NEW R
    PROVE  /\ ReachedIn(i, R) \subseteq Objs
           /\ \A o \in R : o \in Objs => o \in ReachedIn(i, R)
           /\ \A o \in ReachedIn(i, R) : Near(i, o) \subseteq ReachedIn(i, R)
           /\ \A S \in SUBSET Objs : R \subseteq S /\ (\A s \in S : Near(i, s) \subseteq S) => ReachedIn(i, R) \subseteq S
  <1>1. ReachedIn(i, R) \subseteq Objs
    BY DEF ReachedIn
  <1>2. \A o \in R : o \in Objs => o \in ReachedIn(i, R)
    BY DEF ReachedIn
  <1>3. ASSUME NEW o \in ReachedIn(i, R), NEW x \in Near(i, o) PROVE x \in ReachedIn(i, R)
    <2>1. o \in Objs
      BY <1>1
    <2>2. x \in Objs
      <3>1. i.manager \in [Objs -> Objs \cup {0}] /\ i.team[o] \in Seq(Objs) /\ i.friends[o] \in Seq(Objs)
        BY <2>1 DEF InputType
      <3>2. ToSet(i.team[o]) \subseteq Objs /\ ToSet(i.friends[o]) \subseteq Objs
        BY <3>1, ToSetIs
      <3> QED BY <1>3, <2>1, <3>1, <3>2 DEF Near
    <2> SUFFICES ASSUME NEW S \in SUBSET Objs, R \subseteq S, \A s \in S : Near(i, s) \subseteq S PROVE x \in S
      BY <2>2 DEF ReachedIn
    <2>3. o \in S
      BY <1>3 DEF ReachedIn
    <2> QED BY <1>3, <2>3
  <1>4. ASSUME NEW S \in SUBSET Objs, R \subseteq S, \A s \in S : Near(i, s) \subseteq S, NEW o \in ReachedIn(i, R)
        PROVE  o \in S
    BY <1>4 DEF ReachedIn
  <1> QED BY <1>1, <1>2, <1>3, <1>4

LEMMA Above1 == \A n \in Nat : n >= 1 => (n # 1 <=> n \in 2..n)
  OBVIOUS

LEMMA AroundIs ==
    ASSUME TypeInv, NEW o \in Objs
    PROVE  Around(o) = Near(input, o)
  <1>1. input.team[o] \in Seq(Objs) /\ input.friends[o] \in Seq(Objs) /\ input.manager[o] \in Objs \cup {0}
    BY DEF TypeInv, InputType
  <1>2. PICK S : S = Objs \cup {0}
    OBVIOUS
  <1>3. /\ <<input.manager[o]>> \in Seq(S) /\ input.team[o] \in Seq(S) /\ input.friends[o] \in Seq(S)
        /\ ToSet(<<input.manager[o]>>) = {input.manager[o]}
    <2>1. PICK p \in S : p = input.manager[o]
      BY <1>1, <1>2
    <2>2. <<p>> \in Seq(S) /\ Len(<<p>>) = 1 /\ <<p>>[1] = p
      OBVIOUS
    <2>3. ToSet(<<p>>) = {<<p>>[i] : i \in 1..1}
      BY <2>2, ToSetIs
    <2>4. ToSet(<<p>>) = {p}
      BY <2>2, <2>3
    <2>5. Objs \subseteq S
      BY <1>2
    <2>6. ASSUME NEW s \in Seq(Objs) PROVE s \in Seq(S)
      <3>1. s \in [1..Len(s) -> Objs] /\ Len(s) \in Nat
        OBVIOUS
      <3>2. s \in [1..Len(s) -> S]
        BY <2>5, <3>1
      <3> QED BY <3>1, <3>2
    <2> QED BY <1>1, <2>1, <2>2, <2>4, <2>6
  <1>4. PICK m \in Seq(S), t \in Seq(S), f \in Seq(S) :
          /\ m = <<input.manager[o]>> /\ t = input.team[o] /\ f = input.friends[o]
          /\ ToSet(m) = {input.manager[o]}
    BY <1>3
  <1>5. m \o t \in Seq(S) /\ ToSet(m \o t) = ToSet(m) \cup ToSet(t)
    BY ZenonT(60), <1>4, OneAfterTheOther
  <1>6. ToSet((m \o t) \o f) = ToSet(m \o t) \cup ToSet(f)
    <2>1. PICK r \in Seq(S) : r = m \o t
      BY <1>5
    <2>2. ToSet(r \o f) = ToSet(r) \cup ToSet(f)
      BY <1>4, OneAfterTheOther
    <2> QED BY <2>1, <2>2
  <1>7. Around(o) = ToSet((m \o t) \o f) \ {0}
    BY <1>4 DEF Around
  <1> QED BY <1>4, <1>5, <1>6, <1>7 DEF Near

LEMMA ReachedIs ==
    ASSUME TypeInv, NEW R
    PROVE  Reached(R) = ReachedIn(input, R)
  <1>1. \A S \in SUBSET Objs : (\A s \in S : Around(s) \subseteq S) <=> (\A s \in S : Near(input, s) \subseteq S)
    BY AroundIs
  <1> QED BY <1>1 DEF Reached, ReachedIn

LEMMA CollisionInit == Init /\ ShapeInv => CollisionInv
  <1> SUFFICES ASSUME Init, ShapeInv PROVE CollisionInv
    OBVIOUS
  <1>1. Len(stack) = 1 /\ \A o \in Objs : pk[o] # 0 => o \in input.old
    BY DEF Init
  <1> QED BY <1>1 DEF CollisionInv

\* Where no record gets a key.
LEMMA CollisionGoes ==
    ASSUME ShapeInv, CollisionInv, pc = "running", NEW phase, Goes(phase), UNCHANGED <<input, pk>>,
           frame.phase \in Unsaved \/ phase \notin Unsaved
    PROVE  CollisionInv'
  <1>1. stack \in Seq(Frame) /\ stack # <<>> /\ Len(stack) \in Nat /\ Len(stack) >= 1 /\ frame = stack[Len(stack)]
    BY Innermost DEF ShapeInv, TypeInv, StackInv
  <1>2. \A k \in 1..Len(stack) : stack'[k].values = stack[k].values
    BY <1>1 DEF Goes
  <1>3. stack'[1].phase \in Unsaved => stack[1].phase \in Unsaved
    BY <1>1 DEF Goes
  <1>4. Above(input') = Above(input) /\ input'.old = input.old
    OBVIOUS
  <1> QED BY <1>1, <1>2, <1>3, <1>4 DEF CollisionInv, Goes

LEMMA CollisionSaving ==
    ASSUME ShapeInv, CollisionInv, NEW at, NEW phase, NEW all, Saving(at, phase, all),
           at \in Unsaved \/ phase \notin Unsaved,
           all \subseteq UNION {Near(input, v) : v \in ToSet(frame.values)},
           at = "parents" => all = ManagersOf(input, ToSet(frame.values)),
           at # "parents" => at \notin Unsaved
    PROVE  CollisionInv'
  <1>1. pc = "running" /\ At(at) /\ UNCHANGED <<input, pk>>
    BY DEF Saving
  <1>2. /\ stack # <<>> /\ Len(stack) \in Nat /\ Len(stack) >= 1 /\ frame = stack[Len(stack)] /\ frame.phase = at
        /\ input \in InputType
    BY <1>1, Running DEF ShapeInv, TypeInv
  <1>3. PICK elems \in Seq(Objs), conflict \in {"ignore", "update"} :
          Represents(elems, all) /\ (Goes(phase) \/ Calls(elems, conflict, phase))
    BY DEF Saving
  <1>4. CASE Goes(phase)
    BY <1>1, <1>2, <1>4, CollisionGoes
  <1>5. CASE Calls(elems, conflict, phase)
    <2>1. \A k \in 1..Len(stack) : stack'[k].values = stack[k].values
      BY <1>2, <1>5 DEF Calls
    <2>2. stack'[1].phase \in Unsaved => stack[1].phase \in Unsaved
      BY <1>2, <1>5 DEF Calls
    <2>3. Above(input') = Above(input) /\ input'.old = input.old
      BY <1>1
    <2>4. Len(stack') = Len(stack) + 1 /\ stack'[Len(stack) + 1].values = elems
      BY <1>5 DEF Calls
    <2>5. ToSet(elems) \subseteq all /\ ToSet(elems) \subseteq Objs
      BY <1>3, ToSetIs DEF Represents
    <2>6. ASSUME stack'[1].phase \in Unsaved PROVE ToSet(elems) \subseteq Above(input)
      <3>1. CASE Len(stack) = 1
        <4>1. at = "parents" /\ frame.values = input.roots
          BY <1>2, <2>2, <2>6, <3>1 DEF ShapeInv, StackInv
        <4>2. ToSet(elems) \subseteq ManagersOf(input, ToSet(input.roots))
          BY <2>5, <4>1
        <4> QED BY <1>2, <2>5, <4>2, ReachedGrows DEF Above
      <3>2. CASE Len(stack) # 1
        <4>0. Len(stack) \in 2..Len(stack)
          BY <1>2, <3>2, Above1
        <4>1. ToSet(frame.values) \subseteq Above(input)
          BY <1>2, <2>2, <2>6, <4>0 DEF CollisionInv
        <4>2. \A v \in ToSet(frame.values) : Near(input, v) \subseteq Above(input)
          BY <1>2, <4>1, ReachedGrows DEF Above
        <4> QED BY <2>5, <4>2
      <3> QED BY <3>1, <3>2
    <2>7. ASSUME stack'[1].phase \in Unsaved, NEW k \in 2..Len(stack') PROVE ToSet(stack'[k].values) \subseteq Above(input)
      <3>1. CASE k = Len(stack) + 1
        BY <2>4, <2>6, <2>7, <3>1
      <3>2. CASE k \in 2..Len(stack)
        BY <1>2, <2>1, <2>2, <2>7, <3>2 DEF CollisionInv
      <3> QED BY <1>2, <2>4, <3>1, <3>2
    <2>8. ASSUME stack'[1].phase \in Unsaved, NEW o \in Objs, pk'[o] # 0 PROVE o \in input.old \cup Above(input)
      BY <1>1, <1>2, <2>2, <2>8 DEF CollisionInv
    <2> QED BY <2>3, <2>7, <2>8 DEF CollisionInv
  <1> QED BY <1>3, <1>4, <1>5

LEMMA CollisionInsert ==
    ASSUME ShapeInv, CollisionInv, Inserts
    PROVE  CollisionInv'
  <1>1. At("insert") /\ Goes("children") /\ UNCHANGED input
    BY DEF Inserts
  <1>2. /\ stack # <<>> /\ Len(stack) \in Nat /\ Len(stack) >= 1 /\ frame = stack[Len(stack)] /\ frame.phase = "insert"
        /\ pc = "running"
    BY <1>1, Running
  <1>3. \A o \in Objs : o \notin ToSet(frame.values) \/ pk[o] # 0 => pk'[o] = pk[o]
    BY InsertsAre
  <1>4. \A k \in 1..Len(stack) : stack'[k].values = stack[k].values
    BY <1>1, <1>2 DEF Goes
  <1>5. Above(input') = Above(input) /\ input'.old = input.old /\ Len(stack') = Len(stack)
    BY <1>1 DEF Goes
  <1>6. stack'[1].phase \in Unsaved => Len(stack) # 1 /\ stack[1].phase \in Unsaved
    BY <1>1, <1>2 DEF Goes, Unsaved
  <1>7. ASSUME stack'[1].phase \in Unsaved
        PROVE  /\ \A o \in Objs : pk'[o] # 0 => o \in input.old \cup Above(input)
               /\ \A k \in 2..Len(stack) : ToSet(stack'[k].values) \subseteq Above(input)
    <2>1. /\ \A o \in Objs : pk[o] # 0 => o \in input.old \cup Above(input)
          /\ \A k \in 2..Len(stack) : ToSet(stack[k].values) \subseteq Above(input)
      BY <1>2, <1>6, <1>7 DEF CollisionInv
    <2>2. Len(stack) \in 2..Len(stack)
      BY <1>2, <1>6, <1>7, Above1
    <2>3. ToSet(frame.values) \subseteq Above(input)
      BY <1>2, <2>1, <2>2
    <2> QED BY <1>2, <2>3, <1>3, <1>4, <2>1, <2>2
  <1> QED BY <1>5, <1>7 DEF CollisionInv

LEMMA CollisionNext == ShapeInv /\ CollisionInv /\ [Next]_vars => CollisionInv'
  <1> SUFFICES ASSUME ShapeInv, CollisionInv, [Next]_vars PROVE CollisionInv'
    OBVIOUS
  <1>1. ASSUME pc = "running", Fails PROVE CollisionInv'
    BY <1>1, FailsAre DEF CollisionInv, Unsaved
  <1>2. ASSUME stack' = <<>> PROVE CollisionInv'
    BY <1>2 DEF CollisionInv
  <1>3. ASSUME NEW at, NEW phase, Quiet(at, phase), at \in Unsaved \/ phase \notin Unsaved PROVE CollisionInv'
    <2>1. frame.phase = at
      BY <1>3 DEF Quiet, At
    <2> QED BY <1>3, <2>1, CollisionGoes DEF Quiet
  <1>4. CASE Before
    BY <1>3, <1>4, QuietDo DEF Unsaved
  <1>5. CASE SetRefs
    BY <1>3, <1>5, QuietDo DEF Unsaved
  <1>6. CASE After
    BY <1>3, <1>6, QuietDo DEF Unsaved
  <1>7. CASE Parents
    <2>1. 0 \notin ManagersOf(input, ToSet(frame.values))
      BY DEF ManagersOf
    <2>2. ManagersOf(input, ToSet(frame.values)) \subseteq UNION {Near(input, v) : v \in ToSet(frame.values)}
      BY DEF ManagersOf, Near
    <2> QED BY <1>7, <2>2, ParentsDo, CollisionSaving DEF Unsaved
  <1>8. CASE Children
    <2>1. frame.values \in Seq(Objs) /\ input \in InputType
      BY <1>8, Running DEF ShapeInv, TypeInv, Children
    <2>2. \A v \in ToSet(frame.values) : ToSet(input.team[v]) \subseteq Objs
      BY <2>1, ToSetIs DEF InputType
    <2>3. TeamsOf(input, ToSet(frame.values)) \subseteq UNION {Near(input, v) : v \in ToSet(frame.values)}
      BY <2>2 DEF TeamsOf, Near
    <2> QED BY <1>8, <2>3, ChildrenDo, CollisionSaving DEF Unsaved
  <1>9. CASE Friends
    <2>1. frame.values \in Seq(Objs) /\ input \in InputType
      BY <1>9, Running DEF ShapeInv, TypeInv, Friends
    <2>2. \A v \in ToSet(frame.values) : ToSet(input.friends[v]) \subseteq Objs
      BY <2>1, ToSetIs DEF InputType
    <2>3. AllFriendsOf(input, ToSet(frame.values)) \subseteq UNION {Near(input, v) : v \in ToSet(frame.values)}
      BY <2>2 DEF AllFriendsOf, Near
    <2> QED BY <1>9, <2>3, FriendsDo, CollisionSaving DEF Unsaved
  <1>10. CASE Insert
    BY <1>1, <1>10, InsertDoes, CollisionInsert
  <1>11. CASE Joins
    BY <1>11, JoinsDoes, CollisionGoes DEF Unsaved
  <1>12. CASE Return
    <2>1. /\ pc = "running" /\ Len(stack) > 1 /\ Returns /\ UNCHANGED <<input, pk>>
      BY <1>12, ReturnDoes
    <2>2. Len(stack) \in Nat
      BY DEF ShapeInv, TypeInv
    <2>3. Above(input') = Above(input) /\ input'.old = input.old /\ stack # <<>>
      BY <2>1 DEF ShapeInv, StackInv
    <2> QED BY <2>1, <2>2, <2>3 DEF CollisionInv, Returns
  <1>13. CASE End
    BY <1>2, <1>13, EndDoes
  <1>14. CASE Fail
    BY <1>1, <1>14, FailDoes
  <1>15. CASE Panic
    BY <1>2, <1>15 DEF Panic
  <1>16. CASE UNCHANGED vars
    <2>1. UNCHANGED <<input, pk, stack>>
      BY <1>16 DEF vars, memory
    <2>2. Above(input') = Above(input)
      BY <2>1
    <2> QED BY <2>1, <2>2 DEF CollisionInv
  <1> QED BY <1>4, <1>5, <1>6, <1>7, <1>8, <1>9, <1>10, <1>11, <1>12, <1>13, <1>14, <1>15, <1>16 DEF Next, Callback

\* The statements of a Create of new records collide with no row of its own, unless a
\* root is led to by the managers, whose Creates come before its turn.
THEOREM InsertsCollideWithNone == ASSUME RootsAreNew PROVE Spec => []NoCollision
  <1>1. ShapeInv /\ CollisionInv => NoCollision
    <2> SUFFICES ASSUME ShapeInv, CollisionInv, At("insert"), IsDuplicate(frame.values, frame.conflict)
                 PROVE  \E r \in Roots : r \in Reached({input.manager[v] : v \in Roots} \ {0})
      BY DEF NoCollision
    <2>1. /\ stack # <<>> /\ Len(stack) \in Nat /\ Len(stack) >= 1 /\ frame = stack[Len(stack)] /\ frame.phase = "insert"
          /\ TypeInv
      BY Running DEF ShapeInv
    <2>2. PICK o \in ToSet(frame.values) : pk[o] \in DOMAIN rows
      BY DEF IsDuplicate
    <2>3. frame.conflict = "fail"
      BY DEF IsDuplicate
    <2>4. Len(stack) = 1
      <3>1. \A k \in 2..Len(stack) : stack[k].conflict # "fail"
        BY DEF ShapeInv, StackInv
      <3>2. Len(stack) \notin 2..Len(stack)
        BY <2>1, <2>3, <3>1
      <3> QED BY <2>1, <3>2, Above1
    <2>5. frame.values = input.roots
      BY <2>1, <2>4 DEF ShapeInv, StackInv
    <2>6. o \in Roots /\ o \in Objs /\ o \notin input.old
      <3>1. input \in Inputs /\ input.roots \in Seq(Objs)
        BY <2>1 DEF TypeInv, InputType
      <3> QED BY <2>2, <2>5, <3>1, ToSetIs DEF RootsAreNew, Roots
    <2>7. pk[o] # 0
      BY <2>1, <2>2 DEF TypeInv, IsRows, Keys
    <2>8. o \in Above(input)
      BY <2>1, <2>4, <2>6, <2>7 DEF CollisionInv, Unsaved
    <2>9. Above(input) = Reached({input.manager[v] : v \in Roots} \ {0})
      BY <2>1, ReachedIs DEF Above, ManagersOf, Roots
    <2> QED BY <2>6, <2>8, <2>9
  <1>2. Spec => []CollisionInv
    BY ShapeInit, CollisionInit, CollisionNext, ShapeAlways, PTL DEF Spec
  <1> QED BY <1>1, <1>2, ShapeAlways, PTL

------------------------------------------------------------------------------
(***************************************************************************)
(* Integrity.                                                              *)
(***************************************************************************)
LEMMA IntegrityInit == Init => IntegrityInv
  <1> SUFFICES ASSUME Init PROVE IntegrityInv
    OBVIOUS
  <1>1. Len(stack) = 1 /\ stack[1].phase = "before" /\ joins = {}
    BY DEF Init
  <1> QED BY <1>1 DEF IntegrityInv, Given, Befriended, Unsaved

\* A step that keeps the keys and does not come to the joins.
LEMMA IntegrityGoes ==
    ASSUME ShapeInv, IntegrityInv, pc = "running", ~error, NEW phase, Goes(phase),
           UNCHANGED <<input, pk, rows, joins, error>>, skipped \subseteq skipped',
           frame.phase \notin Unsaved \/ phase \in Unsaved, phase # "joins"
    PROVE  IntegrityInv'
  <1>1. stack \in Seq(Frame) /\ stack # <<>> /\ Len(stack) \in Nat /\ Len(stack) >= 1 /\ frame = stack[Len(stack)]
    BY Innermost DEF ShapeInv, TypeInv, StackInv
  <1>2. \A k \in 1..Len(stack) : stack'[k].values = stack[k].values
    BY <1>1 DEF Goes
  <1>3. ASSUME NEW k \in 1..Len(stack) PROVE Given(k)'
    <2>1. Given(k) /\ (stack'[k].phase \in Unsaved \/ stack[k].phase \notin Unsaved)
      BY <1>1 DEF IntegrityInv, Goes
    <2> QED BY <1>2, <2>1 DEF Given
  <1>4. ASSUME skipped' = {}, NEW k \in 1..Len(stack) PROVE Befriended(k)'
    <2>1. CASE k = Len(stack)
      BY <2>1 DEF Befriended, Goes
    <2>2. CASE k # Len(stack)
      <3>1. k \in 1..(Len(stack) - 1) /\ k + 1 \in 1..Len(stack)
        BY <1>1, <2>2
      <3>2. Befriended(k)
        BY <1>4 DEF IntegrityInv
      <3>3. stack'[k] = stack[k] /\ stack'[k + 1].values = stack[k + 1].values /\ Len(stack') = Len(stack)
        BY <1>2, <3>1 DEF Goes
      <3> QED BY <3>2, <3>3 DEF Befriended
    <2> QED BY <2>1, <2>2
  <1>5. skipped' = {} => joins' \subseteq (DOMAIN rows') \X (DOMAIN rows')
    BY DEF IntegrityInv
  <1> QED BY <1>3, <1>4, <1>5 DEF IntegrityInv, Goes

LEMMA IntegritySaving ==
    ASSUME ShapeInv, IntegrityInv, NEW at, NEW phase, NEW all, Saving(at, phase, all),
           at \notin Unsaved \/ phase \in Unsaved,
           phase = "joins" => all = AllFriendsOf(input, ToSet(frame.values))
    PROVE  IntegrityInv'
  <1>1. pc = "running" /\ ~error /\ At(at) /\ UNCHANGED <<input, pk, rows, joins, error>> /\ skipped \subseteq skipped'
    BY DEF Saving
  <1>2. /\ stack # <<>> /\ Len(stack) \in Nat /\ Len(stack) >= 1 /\ frame = stack[Len(stack)] /\ frame.phase = at
    BY <1>1, Running
  <1>3. PICK elems \in Seq(Objs), conflict \in {"ignore", "update"} :
          /\ Represents(elems, all)
          /\ \/ Goes(phase) /\ (skipped' = {} => \A o \in ToSet(elems) : pk[o] # 0)
             \/ Calls(elems, conflict, phase)
    BY DEF Saving
  <1>4. CASE Goes(phase) /\ phase # "joins"
    BY <1>1, <1>2, <1>4, IntegrityGoes
  <1>5. CASE Goes(phase) /\ phase = "joins" /\ (skipped' = {} => \A o \in ToSet(elems) : pk[o] # 0)
    <2>0. Goes(phase)
      BY <1>5
    <2>1. \A k \in 1..Len(stack) : stack'[k].values = stack[k].values
      BY ONLY <1>2, <2>0 DEF Goes
    <2>2. ASSUME NEW k \in 1..Len(stack) PROVE Given(k)'
      <3>1. Given(k) /\ (stack'[k].phase \in Unsaved \/ stack[k].phase \notin Unsaved)
        BY <1>1, <1>2, <1>5 DEF IntegrityInv, Goes
      <3> QED BY <1>1, <2>1, <3>1 DEF Given
    <2>3. ASSUME skipped' = {}, NEW k \in 1..Len(stack) PROVE Befriended(k)'
      <3>1. CASE k = Len(stack)
        <4>1. \A o \in all : pk[o] # 0
          BY <1>3, <1>5, <2>3 DEF Represents
        <4> QED BY <1>1, <1>2, <1>5, <2>1, <3>1, <4>1 DEF Befriended, AllFriendsOf
      <3>2. CASE k # Len(stack)
        <4>1. k \in 1..(Len(stack) - 1) /\ k + 1 \in 1..Len(stack)
          BY <1>2, <3>2
        <4>2. Befriended(k)
          BY <1>1, <2>3 DEF IntegrityInv
        <4>3. stack'[k] = stack[k] /\ stack'[k + 1].values = stack[k + 1].values /\ Len(stack') = Len(stack)
          BY <1>5, <2>1, <4>1 DEF Goes
        <4> QED BY <1>1, <4>2, <4>3 DEF Befriended
      <3> QED BY <3>1, <3>2
    <2> QED BY <1>1, <1>5, <2>2, <2>3 DEF IntegrityInv, Goes
  <1>6. CASE Calls(elems, conflict, phase)
    <2>1. \A k \in 1..Len(stack) : stack'[k].values = stack[k].values
      BY <1>2, <1>6 DEF Calls
    <2>2. Len(stack') = Len(stack) + 1 /\ stack'[Len(stack) + 1].values = elems /\ stack'[Len(stack) + 1].phase = "before"
          /\ stack'[Len(stack)].phase = phase /\ \A k \in 1..(Len(stack) - 1) : stack'[k] = stack[k]
      BY <1>6 DEF Calls
    <2>3. ASSUME NEW k \in 1..Len(stack') PROVE Given(k)'
      <3>1. CASE k = Len(stack) + 1
        BY <2>2, <3>1 DEF Given, Unsaved
      <3>2. CASE k \in 1..Len(stack)
        <4>1. Given(k) /\ (stack'[k].phase \in Unsaved \/ stack[k].phase \notin Unsaved)
          BY <1>1, <1>2, <2>2, <3>2 DEF IntegrityInv
        <4> QED BY <1>1, <2>1, <3>2, <4>1 DEF Given
      <3> QED BY <1>2, <2>2, <3>1, <3>2
    <2>4. ASSUME skipped' = {}, NEW k \in 1..Len(stack') PROVE Befriended(k)'
      <3>1. CASE k = Len(stack) + 1
        BY <2>2, <3>1 DEF Befriended
      <3>2. CASE k = Len(stack)
        <4>1. \A o \in all : pk[o] # 0 \/ o \in ToSet(elems)
          BY <1>3 DEF Represents
        <4>2. k < Len(stack') /\ stack'[k + 1].values = elems /\ stack'[k].values = frame.values /\ stack'[k].phase = phase
          BY <1>2, <2>1, <2>2, <3>2
        <4> QED BY <1>1, <4>1, <4>2 DEF Befriended, AllFriendsOf
      <3>3. CASE k \in 1..(Len(stack) - 1)
        <4>1. k + 1 \in 1..Len(stack) /\ k \in 1..Len(stack) /\ k < Len(stack) /\ k < Len(stack')
          BY <1>2, <2>2, <3>3
        <4>2. Befriended(k)
          BY <1>1, <2>4, <4>1 DEF IntegrityInv
        <4>3. stack'[k] = stack[k] /\ stack'[k + 1].values = stack[k + 1].values
          BY <2>1, <2>2, <3>3, <4>1
        <4> QED BY <1>1, <4>1, <4>2, <4>3 DEF Befriended
      <3> QED BY <1>2, <2>2, <3>1, <3>2, <3>3
    <2> QED BY <1>1, <2>3, <2>4 DEF IntegrityInv
  <1> QED BY <1>3, <1>4, <1>5, <1>6

LEMMA IntegrityInsert ==
    ASSUME ShapeInv, IntegrityInv, Inserts
    PROVE  IntegrityInv'
  <1>1. At("insert") /\ Goes("children") /\ UNCHANGED <<input, joins, skipped, error>>
    BY DEF Inserts
  <1>2. /\ stack # <<>> /\ Len(stack) \in Nat /\ Len(stack) >= 1 /\ frame = stack[Len(stack)] /\ frame.phase = "insert"
        /\ pc = "running" /\ ~error /\ frame.values \in Seq(Objs) /\ ToSet(frame.values) \subseteq Objs
    BY <1>1, Running
  <1>3. /\ \A o \in ToSet(frame.values) : pk[o] = 0 => pk'[o] # 0
        /\ \A o \in Objs : o \notin ToSet(frame.values) \/ pk[o] # 0 => pk'[o] = pk[o]
        /\ DOMAIN rows \subseteq DOMAIN rows'
    <2>1. ASSUME NEW o \in ToSet(frame.values), pk[o] = 0 PROVE pk'[o] # 0
      <3>1. PICK n \in Nat : \E i \in 1..n : pk'[o] = next + i - 1
        BY <2>1, InsertsAre
      <3>2. next \in Nat /\ next >= 1
        BY DEF ShapeInv, TypeInv, Keys
      <3> QED BY <3>1, <3>2
    <2>2. /\ \A o \in Objs : o \notin ToSet(frame.values) \/ pk[o] # 0 => pk'[o] = pk[o]
          /\ DOMAIN rows \subseteq DOMAIN rows'
      BY InsertsAre
    <2> QED BY <2>1, <2>2
  <1>4. \A o \in Objs : pk[o] # 0 => pk'[o] # 0
    BY <1>3
  <1>5. \A k \in 1..Len(stack) : stack'[k].values = stack[k].values
    BY <1>1, <1>2 DEF Goes
  <1>6. \A k \in 1..Len(stack) : ToSet(stack[k].values) \subseteq Objs
    <2>1. ASSUME NEW k \in 1..Len(stack) PROVE stack[k].values \in Seq(Objs)
      <3>1. stack[k] \in Frame
        BY DEF ShapeInv, TypeInv
      <3> QED BY <3>1 DEF Frame
    <2> QED BY <2>1, ToSetIs
  <1>7. ASSUME NEW k \in 1..Len(stack) PROVE Given(k)'
    <2>1. CASE k = Len(stack)
      BY <1>2, <1>3, <1>4, <1>5, <2>1 DEF Given
    <2>2. CASE k # Len(stack)
      <3>1. stack'[k] = stack[k] /\ Given(k)
        BY <1>1, <1>2, <2>2 DEF Goes, IntegrityInv
      <3> QED BY <1>4, <1>6, <3>1 DEF Given
    <2> QED BY <2>1, <2>2
  <1>8. ASSUME skipped' = {}, NEW k \in 1..Len(stack) PROVE Befriended(k)'
    <2>1. CASE k = Len(stack)
      BY <1>1, <2>1 DEF Befriended, Goes
    <2>2. CASE k # Len(stack)
      <3>1. k \in 1..(Len(stack) - 1) /\ k + 1 \in 1..Len(stack)
        BY <1>2, <2>2
      <3>2. Befriended(k)
        BY <1>1, <1>2, <1>8 DEF IntegrityInv
      <3>3. stack'[k] = stack[k] /\ stack'[k + 1].values = stack[k + 1].values /\ Len(stack') = Len(stack)
        BY <1>1, <1>5, <3>1 DEF Goes
      <3>4. ASSUME NEW v \in ToSet(stack[k].values), NEW f \in ToSet(input.friends[v]) PROVE f \in Objs
        <4>1. v \in Objs
          BY <1>6, <3>4
        <4>2. input.friends[v] \in Seq(Objs)
          BY <4>1 DEF ShapeInv, TypeInv, InputType
        <4> QED BY <3>4, <4>2, ToSetIs
      <3> QED BY <1>1, <1>4, <3>2, <3>3, <3>4 DEF Befriended
    <2> QED BY <2>1, <2>2
  <1>9. skipped' = {} => joins' \subseteq (DOMAIN rows') \X (DOMAIN rows')
    BY <1>1, <1>3 DEF IntegrityInv
  <1> QED BY <1>1, <1>7, <1>8, <1>9 DEF IntegrityInv, Goes

LEMMA IntegrityJoins ==
    ASSUME ShapeInv, IntegrityInv, Joins
    PROVE  IntegrityInv'
  <1>1. /\ pc = "running" /\ ~error /\ At("joins") /\ Goes("after") /\ joins' = joins \cup JoinRows
        /\ UNCHANGED <<input, pk, fk, rows, next, stored, visited, skipped, pc, error>>
    BY JoinsDoes
  <1>2. stack # <<>> /\ Len(stack) \in Nat /\ Len(stack) >= 1 /\ frame = stack[Len(stack)] /\ frame.phase = "joins"
        /\ ToSet(frame.values) \subseteq Objs
    BY <1>1, Running
  <1>3. ASSUME skipped = {}, NEW v \in ToSet(frame.values), NEW f \in ToSet(input.friends[v])
        PROVE  pk[v] \in DOMAIN rows /\ pk[f] \in DOMAIN rows
    <2>1. Given(Len(stack)) /\ Befriended(Len(stack))
      BY <1>1, <1>2, <1>3 DEF IntegrityInv
    <2>2. pk[v] # 0 /\ pk[f] # 0
      BY <1>2, <1>3, <2>1 DEF Given, Befriended, Unsaved
    <2>3. v \in Objs /\ f \in Objs
      <3>1. v \in Objs
        BY <1>2
      <3>2. input.friends[v] \in Seq(Objs)
        BY <3>1 DEF ShapeInv, TypeInv, InputType
      <3> QED BY <1>3, <3>1, <3>2, ToSetIs
    <2> QED BY <1>1, <2>2, <2>3 DEF ShapeInv, RefersInv
  <1>4. skipped' = {} => joins' \subseteq (DOMAIN rows') \X (DOMAIN rows')
    BY <1>1, <1>3 DEF IntegrityInv, JoinRows
  <1>5. \A k \in 1..Len(stack) : stack'[k].values = stack[k].values
    BY <1>1, <1>2 DEF Goes
  <1>6. ASSUME NEW k \in 1..Len(stack) PROVE Given(k)'
    <2>1. Given(k) /\ (stack'[k].phase \in Unsaved \/ stack[k].phase \notin Unsaved)
      BY <1>1, <1>2 DEF IntegrityInv, Goes, Unsaved
    <2> QED BY <1>1, <1>5, <2>1 DEF Given
  <1>7. ASSUME skipped' = {}, NEW k \in 1..Len(stack) PROVE Befriended(k)'
    <2>1. CASE k = Len(stack)
      BY <1>1, <2>1 DEF Befriended, Goes
    <2>2. CASE k # Len(stack)
      <3>1. k \in 1..(Len(stack) - 1) /\ k + 1 \in 1..Len(stack)
        BY <1>2, <2>2
      <3>2. Befriended(k)
        BY <1>1, <1>7 DEF IntegrityInv
      <3>3. stack'[k] = stack[k] /\ stack'[k + 1].values = stack[k + 1].values /\ Len(stack') = Len(stack)
        BY <1>1, <1>5, <3>1 DEF Goes
      <3> QED BY <1>1, <3>2, <3>3 DEF Befriended
    <2> QED BY <2>1, <2>2
  <1> QED BY <1>1, <1>4, <1>6, <1>7 DEF IntegrityInv, Goes

LEMMA IntegrityReturn ==
    ASSUME ShapeInv, IntegrityInv, Return
    PROVE  IntegrityInv'
  <1>1. /\ pc = "running" /\ ~error /\ At("end") /\ Len(stack) > 1 /\ Returns
        /\ UNCHANGED <<input, pk, fk, rows, joins, next, stored, visited, skipped, pc, error>>
    BY ReturnDoes
  <1>2. Len(stack) \in Nat /\ frame = stack[Len(stack)] /\ frame.phase = "end"
    BY <1>1, Running
  <1>3. ASSUME NEW k \in 1..(Len(stack) - 1) PROVE stack'[k] = stack[k] /\ Given(k) /\ Len(stack') = Len(stack) - 1
    BY <1>1, <1>2 DEF Returns, IntegrityInv
  <1>4. \A v \in ToSet(stack[Len(stack)].values) : pk[v] # 0
    BY <1>1, <1>2 DEF IntegrityInv, Given, Unsaved
  <1>5. \A k \in 1..(Len(stack) - 1) : Given(k)'
    BY <1>1, <1>3 DEF Given
  <1>6. ASSUME skipped' = {}, NEW k \in 1..(Len(stack) - 1) PROVE Befriended(k)'
    <2>1. Befriended(k)
      BY <1>1, <1>2, <1>6 DEF IntegrityInv
    <2>2. CASE k = Len(stack) - 1
      <3>1. k + 1 = Len(stack)
        BY <1>2, <2>2
      <3> QED BY <1>1, <1>3, <1>4, <2>1, <3>1 DEF Befriended
    <2>3. CASE k # Len(stack) - 1
      <3>1. k + 1 \in 1..(Len(stack) - 1) /\ k < Len(stack')
        BY <1>2, <1>3, <2>3
      <3>2. stack'[k + 1] = stack[k + 1] /\ stack'[k] = stack[k]
        BY <1>3, <3>1
      <3> QED BY <1>1, <2>1, <3>1, <3>2 DEF Befriended
    <2> QED BY <2>2, <2>3
  <1> QED BY <1>1, <1>5, <1>6 DEF IntegrityInv, Returns

LEMMA IntegrityNext == ShapeInv /\ IntegrityInv /\ [Next]_vars => IntegrityInv'
  <1> SUFFICES ASSUME ShapeInv, IntegrityInv, [Next]_vars PROVE IntegrityInv'
    OBVIOUS
  <1>1. ASSUME pc = "running", Fails PROVE IntegrityInv'
    BY <1>1, FailsAre DEF IntegrityInv, Fails
  <1>2. ASSUME NEW at, NEW phase, Quiet(at, phase), at \notin Unsaved \/ phase \in Unsaved, phase # "joins"
        PROVE  IntegrityInv'
    <2>1. frame.phase = at
      BY <1>2 DEF Quiet, At
    <2> QED BY <1>2, <2>1, IntegrityGoes DEF Quiet
  <1>3. CASE Before
    BY <1>2, <1>3, QuietDo DEF Unsaved
  <1>4. CASE SetRefs
    BY <1>2, <1>4, QuietDo DEF Unsaved
  <1>5. CASE After
    BY <1>2, <1>5, QuietDo DEF Unsaved
  <1>6. CASE Parents
    BY <1>6, ParentsDo, IntegritySaving DEF Unsaved
  <1>7. CASE Children
    BY <1>7, ChildrenDo, IntegritySaving DEF Unsaved
  <1>8. CASE Friends
    BY <1>8, FriendsDo, IntegritySaving DEF Unsaved
  <1>9. CASE Insert
    BY <1>1, <1>9, InsertDoes, IntegrityInsert
  <1>10. CASE Joins
    BY <1>10, IntegrityJoins
  <1>11. CASE Return
    BY <1>11, IntegrityReturn
  <1>12. ASSUME stack' = <<>>, joins' = {} \/ UNCHANGED <<rows, joins, skipped>> PROVE IntegrityInv'
    <2>1. 1..Len(stack') = {}
      BY <1>12
    <2> QED BY <1>12, <2>1 DEF IntegrityInv
  <1>13. CASE End
    BY <1>12, <1>13, EndDoes
  <1>14. CASE Fail
    BY <1>1, <1>14, FailDoes
  <1>15. CASE Panic
    BY <1>12, <1>15 DEF Panic, database
  <1>16. CASE UNCHANGED vars
    BY <1>16 DEF vars, memory, database, IntegrityInv, Given, Befriended
  <1> QED BY <1>3, <1>4, <1>5, <1>6, <1>7, <1>8, <1>9, <1>10, <1>11, <1>13, <1>14, <1>15, <1>16 DEF Next, Callback

\* No row ever refers to one that is not there yet, at any moment of a Create and of
\* those nested in it, whatever fails, unless a record without a key has been skipped
\* as visited; it needs no assumption on the graph of records.
THEOREM RefersToRowsOnly == Spec => []Integrity
  <1>1. ShapeInv /\ IntegrityInv => Integrity
    BY DEF ShapeInv, RefersInv, IntegrityInv, Integrity
  <1>2. Spec => []IntegrityInv
    BY ShapeInit, IntegrityInit, IntegrityNext, ShapeAlways, PTL DEF Spec
  <1> QED BY <1>1, <1>2, ShapeAlways, PTL

------------------------------------------------------------------------------
(***************************************************************************)
(* KeysRight.                                                              *)
(***************************************************************************)
Injective == \A k \in 1..Len(stack) : IsInjective(stack[k].values)

LEMMA KeysInit == Init /\ ShapeInv /\ Unshared(input) => KeysInv
  <1> SUFFICES ASSUME Init, ShapeInv, Unshared(input) PROVE KeysInv
    OBVIOUS
  <1>1. input.old \subseteq Objs
    BY DEF ShapeInv, TypeInv, InputType
  <1>2. /\ DOMAIN rows = input.old /\ \A k \in input.old : rows[k].of = k /\ pk[k] = k /\ k # 0
        /\ \A o \in Objs : o \notin input.old => pk[o] = 0
    BY <1>1 DEF Init
  <1>3. \A k \in DOMAIN rows : k < next
    <2>1. Max(Objs) \in Nat /\ \A o \in Objs : o =< Max(Objs)
      BY Ends2
    <2>2. next = 1 + Max(Objs) /\ \A k \in input.old : k \in Nat
      BY <1>1 DEF Init
    <2> QED BY <1>1, <1>2, <2>1, <2>2
  <1>4. Len(stack) = 1 /\ stack[1].values = input.roots
    BY DEF Init
  <1>5. \A k \in 1..Len(stack) : IsInjective(stack[k].values)
    BY <1>4 DEF Unshared
  <1> QED BY <1>1, <1>2, <1>3, <1>5 DEF KeysInv

\* A step that leaves the keys and the rows alone.
LEMMA KeysKept ==
    ASSUME KeysInv, UNCHANGED <<input, pk, rows, next, error>>, ~error => Injective'
    PROVE  KeysInv'
  BY DEF KeysInv, Injective

LEMMA KeysGoes ==
    ASSUME ShapeInv, pc = "running", ~error, KeysInv, NEW phase, Goes(phase)
    PROVE  Injective'
  <1>1. Len(stack) \in Nat /\ frame = stack[Len(stack)]
    BY Innermost DEF ShapeInv, TypeInv, StackInv
  <1>2. \A k \in 1..Len(stack) : stack'[k].values = stack[k].values
    BY ONLY <1>1, Goes(phase) DEF Goes
  <1> QED BY <1>2 DEF KeysInv, Injective, Goes

LEMMA KeysSaving ==
    ASSUME ShapeInv, Unshared(input), KeysInv, NEW at, NEW phase, NEW all, Saving(at, phase, all)
    PROVE  KeysInv'
  <1>1. pc = "running" /\ ~error /\ At(at) /\ UNCHANGED <<input, pk, rows, next, error>>
    BY DEF Saving
  <1>2. Len(stack) \in Nat /\ Len(stack) >= 1 /\ frame = stack[Len(stack)]
    BY <1>1, Running
  <1>3. IsInjective(frame.values) /\ \A o \in input.old : pk[o] # 0
    BY <1>1, <1>2 DEF KeysInv
  <1>4. PICK elems \in Seq(Objs), conflict \in {"ignore", "update"} : IsInjective(elems) /\ (Goes(phase) \/ Calls(elems, conflict, phase))
    BY <1>3 DEF Saving
  <1>5. CASE Goes(phase)
    BY <1>1, <1>5, KeysGoes, KeysKept
  <1>6. CASE Calls(elems, conflict, phase)
    <2>1. ASSUME NEW k \in 1..Len(stack') PROVE IsInjective(stack'[k].values)
      <3>1. CASE k = Len(stack) + 1
        BY <1>4, <1>6, <3>1 DEF Calls
      <3>2. CASE k \in 1..Len(stack)
        <4>1. stack'[k].values = stack[k].values
          BY ONLY <1>2, <1>6, <3>2 DEF Calls
        <4> QED BY <1>1, <3>2, <4>1 DEF KeysInv
      <3>3. Len(stack') = Len(stack) + 1
        BY <1>6 DEF Calls
      <3> QED BY <1>2, <3>1, <3>2, <3>3
    <2> QED BY <1>1, <2>1, KeysKept DEF Injective
  <1> QED BY <1>4, <1>5, <1>6

LEMMA KeysInsert ==
    ASSUME ShapeInv, KeysInv, Inserts
    PROVE  KeysInv'
  <1>1. At("insert") /\ Goes("children") /\ UNCHANGED <<input, error>> /\ next \in Nat
    BY DEF Inserts, ShapeInv, TypeInv, Keys
  <1>2. pc = "running" /\ ~error /\ Len(stack) \in Nat /\ Len(stack) >= 1 /\ frame = stack[Len(stack)]
        /\ ToSet(frame.values) \subseteq Objs
    BY <1>1, Running
  <1>3. /\ \A o \in Objs : pk[o] # 0 => pk[o] \in DOMAIN rows /\ rows[pk[o]].of = o
        /\ \A k \in DOMAIN rows : pk[rows[k].of] = k /\ k < next
        /\ \A o \in input.old : pk[o] # 0
        /\ IsInjective(frame.values)
    BY <1>2 DEF KeysInv
  <1>4. PICK new :
          /\ new \in Seq(Objs) /\ Len(new) \in Nat /\ next' = next + Len(new)
          /\ ToSet(new) = {o \in ToSet(frame.values) : pk[o] = 0} /\ IsInjective(new)
          /\ DOMAIN rows' = DOMAIN rows \cup {next + i - 1 : i \in 1..Len(new)}
          /\ \A k \in DOMAIN rows : rows'[k].of = rows[k].of
          /\ \A i \in 1..Len(new) : next + i - 1 \notin DOMAIN rows => rows'[next + i - 1].of = new[i]
          /\ \A o \in ToSet(frame.values) : pk[o] = 0 => \E i \in 1..Len(new) : pk'[o] = next + i - 1 /\ new[i] = o
          /\ \A o \in Objs : o \notin ToSet(frame.values) \/ pk[o] # 0 => pk'[o] = pk[o]
    <2>1. PICK new : new = Unkeyed(frame.values)
      OBVIOUS
    <2> QED BY SMTT(60), <1>3, <2>1, InsertsAre
  <1>5. \A i \in 1..Len(new) : /\ next + i - 1 \notin DOMAIN rows /\ rows'[next + i - 1].of = new[i]
                               /\ next + i - 1 < next'
    <2> SUFFICES ASSUME NEW i \in 1..Len(new)
                 PROVE  /\ next + i - 1 \notin DOMAIN rows /\ rows'[next + i - 1].of = new[i]
                        /\ next + i - 1 < next'
      OBVIOUS
    <2>1. next + i - 1 >= next /\ next + i - 1 < next' /\ next + i - 1 \in Nat
      BY <1>1, <1>4
    <2>2. next + i - 1 \notin DOMAIN rows
      BY <1>1, <1>3, <2>1
    <2> QED BY <1>4, <2>1, <2>2
  <1>6. \A i \in 1..Len(new) : pk'[new[i]] = next + i - 1
    <2> SUFFICES ASSUME NEW i \in 1..Len(new) PROVE pk'[new[i]] = next + i - 1
      OBVIOUS
    <2>1. new[i] \in ToSet(new) /\ DOMAIN new = 1..Len(new)
      BY SMTT(60), <1>4, ToSetIs
    <2>2. PICK j \in 1..Len(new) : pk'[new[i]] = next + j - 1 /\ new[j] = new[i]
      BY <1>4, <2>1
    <2>3. i = j
      BY <1>4, <2>1, <2>2 DEF IsInjective
    <2> QED BY <2>2, <2>3
  <1>7. ASSUME NEW o \in Objs, pk'[o] # 0 PROVE pk'[o] \in DOMAIN rows' /\ rows'[pk'[o]].of = o
    <2>1. CASE o \in ToSet(frame.values) /\ pk[o] = 0
      BY <1>4, <1>5, <2>1
    <2>2. CASE o \notin ToSet(frame.values) \/ pk[o] # 0
      BY <1>3, <1>4, <1>7, <2>2
    <2> QED BY <2>1, <2>2
  <1>8. ASSUME NEW k \in DOMAIN rows' PROVE pk'[rows'[k].of] = k /\ k < next'
    <2>1. CASE k \in DOMAIN rows
      <3>1. rows[k].of \in Objs /\ k \in Nat /\ k # 0
        BY <2>1 DEF ShapeInv, TypeInv, IsRows, Keys
      <3>2. pk[rows[k].of] = k /\ k < next /\ rows'[k].of = rows[k].of
        BY <1>3, <1>4, <2>1
      <3>3. pk'[rows[k].of] = k
        BY <1>4, <3>1, <3>2
      <3> QED BY <1>1, <1>4, <3>1, <3>2, <3>3
    <2>2. CASE k \notin DOMAIN rows
      <3>1. PICK i \in 1..Len(new) : k = next + i - 1
        BY <1>4, <2>2
      <3> QED BY <1>5, <1>6, <3>1
    <2> QED BY <2>1, <2>2
  <1>9. \A o \in input.old : pk'[o] # 0
    <2>1. input.old \subseteq Objs
      BY DEF ShapeInv, TypeInv, InputType
    <2> QED BY <1>3, <1>4, <2>1
  <1>10. Injective'
    BY <1>1, <1>2, KeysGoes
  <1> QED BY <1>1, <1>7, <1>8, <1>9, <1>10 DEF KeysInv, Injective

LEMMA KeysNext == ShapeInv /\ KeysInv /\ Unshared(input) /\ [Next]_vars => KeysInv'
  <1> SUFFICES ASSUME ShapeInv, KeysInv, Unshared(input), [Next]_vars PROVE KeysInv'
    OBVIOUS
  <1>1. ASSUME error' = TRUE PROVE KeysInv'
    BY <1>1 DEF KeysInv
  <1>2. ASSUME stack' = <<>>, UNCHANGED <<input, pk, rows, next, error>> PROVE KeysInv'
    <2>1. 1..Len(stack') = {}
      BY <1>2
    <2> QED BY <1>2, <2>1, KeysKept DEF Injective
  <1>3. ASSUME NEW at, NEW phase, Quiet(at, phase) PROVE KeysInv'
    BY <1>3, KeysGoes, KeysKept DEF Quiet
  <1>4. CASE Before
    BY <1>3, <1>4, QuietDo
  <1>5. CASE SetRefs
    BY <1>3, <1>5, QuietDo
  <1>6. CASE After
    BY <1>3, <1>6, QuietDo
  <1>7. CASE Parents
    BY <1>7, ParentsDo, KeysSaving
  <1>8. CASE Children
    BY <1>8, ChildrenDo, KeysSaving
  <1>9. CASE Friends
    BY <1>9, FriendsDo, KeysSaving
  <1>10. CASE Insert
    BY <1>1, <1>10, InsertDoes, KeysInsert, FailsAre
  <1>11. CASE Joins
    <2>1. pc = "running" /\ ~error /\ Goes("after") /\ UNCHANGED <<input, pk, rows, next, error>>
      BY <1>11, JoinsDoes
    <2> QED BY <2>1, KeysGoes, KeysKept
  <1>12. CASE Return
    <2>1. pc = "running" /\ ~error /\ Returns /\ UNCHANGED <<input, pk, rows, next, error>> /\ Len(stack) \in Nat
      BY <1>12, ReturnDoes, Running
    <2> QED BY <2>1, KeysKept DEF KeysInv, Injective, Returns
  <1>13. CASE End
    BY <1>1, <1>2, <1>13, EndDoes
  <1>14. CASE Fail
    BY <1>1, <1>14, FailDoes, FailsAre
  <1>15. CASE Panic
    BY <1>2, <1>15 DEF Panic, database, memory
  <1>16. CASE UNCHANGED vars
    BY <1>16 DEF vars, memory, database, KeysInv
  <1> QED BY <1>4, <1>5, <1>6, <1>7, <1>8, <1>9, <1>10, <1>11, <1>12, <1>13, <1>14, <1>15, <1>16 DEF Next, Callback

LEMMA KeysAlways == ASSUME NewAreUnshared PROVE Spec => []KeysInv
  <1>1. ShapeInv => Unshared(input)
    BY NewAreUnshared DEF ShapeInv, TypeInv, NewAreUnshared
  <1> QED BY <1>1, ShapeInit, KeysInit, KeysNext, ShapeAlways, PTL DEF Spec

\* While nothing fails, a record that has a key has that of its own row, however the
\* records are nested and whatever the order of the statements, in the graphs where
\* no two records of a batch point to the same new one.  (Where they do, LastInsertId
\* is counted wrong: the run save_graph_shared.)
THEOREM KeysAreRight == ASSUME NewAreUnshared PROVE Spec => []KeysRight
  <1>1. KeysInv => KeysRight
    BY DEF KeysInv, KeysRight
  <1> QED BY <1>1, KeysAlways, PTL

------------------------------------------------------------------------------
(***************************************************************************)
(* Complete.                                                               *)
(***************************************************************************)
Grows ==
    /\ input' = input
    /\ visited \subseteq visited' /\ skipped \subseteq skipped' /\ joins \subseteq joins'
    /\ \A o \in Objs : pk[o] # 0 => pk'[o] = pk[o]

Joined(o) == \A f \in ToSet(input.friends[o]) : <<pk[o], pk[f]>> \in joins

LEMMA PointedTo ==
    ASSUME ShapeInv
    PROVE  /\ Roots \subseteq Objs
           /\ \A k \in 1..Len(stack) : ToSet(stack[k].values) \subseteq Objs
           /\ \A o \in Objs : /\ input.manager[o] \in Objs \cup {0}
                              /\ ToSet(input.team[o]) \subseteq Objs /\ ToSet(input.friends[o]) \subseteq Objs
  <1>1. /\ input.roots \in Seq(Objs)
        /\ \A o \in Objs : /\ input.manager[o] \in Objs \cup {0}
                           /\ input.team[o] \in Seq(Objs) /\ input.friends[o] \in Seq(Objs)
    BY DEF ShapeInv, TypeInv, InputType
  <1>2. ASSUME NEW k \in 1..Len(stack) PROVE stack[k].values \in Seq(Objs)
    <2>1. stack[k] \in Frame
      BY DEF ShapeInv, TypeInv
    <2> QED BY <2>1 DEF Frame
  <1> QED BY <1>1, <1>2, ToSetIs DEF Roots

\* A key that is in the join table is no 0, and so is never changed.
LEMMA JoinedStays ==
    ASSUME ShapeInv, IntegrityInv, Grows, skipped' = {}, NEW o \in Objs, pk[o] # 0, Joined(o)
    PROVE  Joined(o)'
  <1>1. joins \subseteq (DOMAIN rows) \X (DOMAIN rows) /\ 0 \notin DOMAIN rows
    BY DEF Grows, IntegrityInv, ShapeInv, TypeInv, IsRows, Keys
  <1>2. ASSUME NEW f \in ToSet(input.friends[o]) PROVE <<pk'[o], pk'[f]>> \in joins'
    <2>1. f \in Objs /\ <<pk[o], pk[f]>> \in joins
      BY <1>2, PointedTo DEF Joined
    <2>2. pk[f] # 0
      BY <1>1, <2>1
    <2> QED BY <2>1, <2>2 DEF Grows
  <1> QED BY <1>2 DEF Joined, Grows

LEMMA FinishedStays ==
    ASSUME ShapeInv, IntegrityInv, Grows, NEW o \in Objs, Finished(o)
    PROVE  Finished(o)'
  <1>1. pk[o] # 0 /\ pk'[o] # 0 /\ Near(input, o) \subseteq visited'
    BY DEF Finished, Grows
  <1>2. ASSUME skipped' = {} PROVE Joined(o)'
    <2>1. Joined(o)
      BY <1>2 DEF Grows, Finished, Joined
    <2> QED BY <1>1, <1>2, <2>1, JoinedStays
  <1> QED BY <1>1, <1>2 DEF Finished, Joined, Grows

\* What a phase asks for, the one before has asked for already.
Covers(at, phase) ==
    /\ phase \notin {"before", "parents"} => at \notin {"before", "parents"}
    /\ phase \notin Unsaved \cup {"children"} => at \notin Unsaved \cup {"children"}
    /\ phase \notin Unsaved \cup {"children", "friends"} => at \notin Unsaved \cup {"children", "friends"}
    /\ phase \in {"after", "end"} => at \in {"after", "end"}

LEMMA AroundStays ==
    ASSUME ShapeInv, IntegrityInv, ~error, Grows, NEW k \in 1..Len(stack), SavedAround(k),
           stack'[k].values = stack[k].values, Covers(stack[k].phase, stack'[k].phase)
    PROVE  SavedAround(k)'
  <1>1. ASSUME NEW v \in ToSet(stack[k].values)
        PROVE  /\ stack'[k].phase \notin {"before", "parents"} => input.manager[v] \in visited' \cup {0}
               /\ stack'[k].phase \notin Unsaved \cup {"children"} => ToSet(input.team[v]) \subseteq visited'
               /\ stack'[k].phase \notin Unsaved \cup {"children", "friends"} => ToSet(input.friends[v]) \subseteq visited'
    BY DEF SavedAround, Covers, Grows
  <1>2. ASSUME NEW v \in ToSet(stack[k].values), stack'[k].phase \in {"after", "end"}, skipped' = {}
        PROVE  Joined(v)'
    <2>1. stack[k].phase \in {"after", "end"} /\ skipped = {}
      BY <1>2 DEF Covers, Grows
    <2>2. Joined(v)
      BY <2>1 DEF SavedAround, Joined
    <2>3. v \in Objs /\ pk[v] # 0
      BY <2>1, PointedTo DEF IntegrityInv, Given, Unsaved
    <2> QED BY <1>2, <2>2, <2>3, JoinedStays
  <1> QED BY <1>1, <1>2 DEF SavedAround, Joined, Grows

\* Every record that has been visited is that of a Create that is running, or of
\* one that has returned.
Tracked == \A o \in visited \cup Roots : Finished(o) \/ \E k \in 1..Len(stack) : o \in ToSet(stack[k].values)

LEMMA TrackedStays ==
    ASSUME ShapeInv, IntegrityInv, Grows, Tracked, NEW o \in visited \cup Roots
    PROVE  Finished(o)' \/ \E k \in 1..Len(stack) : o \in ToSet(stack[k].values)
  <1>1. o \in Objs
    BY PointedTo DEF ShapeInv, TypeInv
  <1> QED BY <1>1, FinishedStays DEF Tracked

LEMMA CompleteGoes ==
    ASSUME ShapeInv, IntegrityInv, CompleteInv, pc = "running", ~error, Grows, visited' = visited,
           NEW phase, Goes(phase), NEW n, n = Len(stack), SavedAround(n)'
    PROVE  CompleteInv'
  <1>1. Len(stack) \in Nat /\ frame = stack[Len(stack)] /\ Len(stack') = Len(stack)
    BY Innermost DEF ShapeInv, TypeInv, StackInv, Goes
  <1>2. \A k \in 1..Len(stack) : stack'[k].values = stack[k].values
    BY ONLY <1>1, Goes(phase) DEF Goes
  <1>3. ASSUME NEW k \in 1..Len(stack) PROVE SavedAround(k)'
    <2>1. CASE k = n
      BY <2>1
    <2>2. CASE k # n
      <3>1. stack'[k] = stack[k] /\ SavedAround(k)
        BY <1>1, <2>2 DEF Goes, CompleteInv
      <3> QED BY <3>1, AroundStays DEF Covers
    <2> QED BY <2>1, <2>2
  <1>4. ASSUME NEW o \in visited' \cup Roots' PROVE Finished(o)' \/ \E k \in 1..Len(stack') : o \in ToSet(stack'[k].values)
    <2>1. o \in visited \cup Roots
      BY DEF Grows, Roots
    <2>2. Finished(o)' \/ \E k \in 1..Len(stack) : o \in ToSet(stack[k].values)
      BY <2>1, TrackedStays DEF CompleteInv, Tracked
    <2> QED BY <1>1, <1>2, <2>2
  <1> QED BY <1>1, <1>3, <1>4 DEF CompleteInv

LEMMA CompleteCalls ==
    ASSUME ShapeInv, IntegrityInv, CompleteInv, pc = "running", ~error, Grows,
           NEW elems, visited' = visited \cup ToSet(elems),
           NEW conflict, NEW phase, Calls(elems, conflict, phase), NEW n, n = Len(stack), SavedAround(n)'
    PROVE  CompleteInv'
  <1>1. Len(stack) \in Nat /\ frame = stack[Len(stack)] /\ Len(stack') = Len(stack) + 1
    BY Innermost DEF ShapeInv, TypeInv, StackInv, Calls
  <1>2. \A k \in 1..Len(stack) : stack'[k].values = stack[k].values
    BY ONLY <1>1, Calls(elems, conflict, phase) DEF Calls
  <1>3. ASSUME NEW k \in 1..Len(stack') PROVE SavedAround(k)'
    <2>1. CASE k = n
      BY <2>1
    <2>2. CASE k = Len(stack) + 1
      <3>1. stack'[k].phase = "before"
        BY <2>2 DEF Calls
      <3> QED BY <3>1 DEF SavedAround, Unsaved
    <2>3. CASE k \in 1..(Len(stack) - 1)
      <3>1. stack'[k] = stack[k] /\ k \in 1..Len(stack)
        BY <1>1, <2>3 DEF Calls
      <3>2. SavedAround(k)
        BY <3>1 DEF CompleteInv
      <3> QED BY <3>1, <3>2, AroundStays DEF Covers
    <2> QED BY <1>1, <2>1, <2>2, <2>3
  <1>4. ASSUME NEW o \in visited' \cup Roots' PROVE Finished(o)' \/ \E k \in 1..Len(stack') : o \in ToSet(stack'[k].values)
    <2>1. CASE o \in ToSet(elems)
      <3>1. stack'[Len(stack) + 1].values = elems /\ Len(stack) + 1 \in 1..Len(stack')
        BY <1>1 DEF Calls
      <3> QED BY <2>1, <3>1
    <2>2. CASE o \in visited \cup Roots
      <3>1. Finished(o)' \/ \E k \in 1..Len(stack) : o \in ToSet(stack[k].values)
        BY <2>2, TrackedStays DEF CompleteInv, Tracked
      <3>2. \A k \in 1..Len(stack) : k \in 1..Len(stack')
        BY <1>1
      <3> QED BY <1>2, <3>1, <3>2
    <2> QED BY <2>1, <2>2 DEF Grows, Roots
  <1> QED BY <1>3, <1>4 DEF CompleteInv

\* What is to be saved is visited after it: one that distinctElems leaves out has the
\* key of another, and is that one.
LEMMA SavingVisits ==
    ASSUME ShapeInv, KeysInv, NEW at, NEW phase, NEW all, all \subseteq Objs, Saving(at, phase, all)
    PROVE  all \subseteq visited'
  <1>1. ~error
    BY DEF Saving
  <1>2. PICK elems \in Seq(Objs) : Represents(elems, all) /\ ToSet(elems) \subseteq visited'
    BY DEF Saving
  <1>3. ASSUME NEW o \in all PROVE o \in ToSet(elems)
    <2>1. PICK u \in ToSet(elems) : u = o \/ (pk[u] = pk[o] /\ pk[o] # 0)
      BY <1>2, <1>3 DEF Represents
    <2>2. u \in Objs
      BY <1>2, ToSetIs
    <2>3. CASE pk[u] = pk[o] /\ pk[o] # 0
      <3>1. rows[pk[o]].of = o /\ rows[pk[u]].of = u
        BY <1>1, <1>3, <2>2, <2>3 DEF KeysInv
      <3> QED BY <2>1, <2>3, <3>1
    <2> QED BY <2>1, <2>3
  <1> QED BY <1>2, <1>3

LEMMA CompleteSaving ==
    ASSUME ShapeInv, IntegrityInv, CompleteInv, NEW at, NEW phase, NEW all, Saving(at, phase, all),
           NEW n, n = Len(stack), SavedAround(n)'
    PROVE  CompleteInv'
  <1>1. pc = "running" /\ ~error /\ Grows
    BY DEF Saving, Grows
  <1>2. PICK elems \in Seq(Objs), conflict \in {"ignore", "update"} :
          \/ Goes(phase) /\ visited' = visited
          \/ Calls(elems, conflict, phase) /\ visited' = visited \cup ToSet(elems)
    BY DEF Saving
  <1> QED BY <1>1, <1>2, CompleteGoes, CompleteCalls

\* The frame of a Create that saves what is around its values.
LEMMA SavingFrame ==
    ASSUME ShapeInv, CompleteInv, NEW at, NEW phase, NEW all, Saving(at, phase, all), NEW n, n = Len(stack)
    PROVE  /\ stack[n].phase = at /\ stack'[n].phase = phase
           /\ stack[n].values = frame.values /\ stack'[n].values = frame.values
           /\ SavedAround(n) /\ Grows /\ ToSet(frame.values) \subseteq Objs
  <1>1. pc = "running" /\ ~error /\ Grows /\ At(at)
    BY DEF Saving, Grows
  <1>2. /\ Len(stack) \in Nat /\ Len(stack) >= 1 /\ frame = stack[Len(stack)] /\ frame.phase = at
        /\ ToSet(frame.values) \subseteq Objs
    BY <1>1, Running
  <1>3. stack'[Len(stack)].values = frame.values /\ stack'[Len(stack)].phase = phase
    BY DEF Saving, Goes, Calls
  <1>4. SavedAround(n)
    BY <1>1, <1>2 DEF CompleteInv
  <1> QED BY <1>1, <1>2, <1>3, <1>4

LEMMA CompleteParents ==
    ASSUME ShapeInv, IntegrityInv, KeysInv, CompleteInv, Parents
    PROVE  CompleteInv'
  <1>1. PICK n, all : n = Len(stack) /\ all = ManagersOf(input, ToSet(frame.values)) /\ Saving("parents", "refs", all)
    BY ParentsDo
  <1>2. /\ stack'[n].phase = "refs" /\ stack'[n].values = frame.values /\ Grows
        /\ ToSet(frame.values) \subseteq Objs
    BY <1>1, SavingFrame
  <1>3. all \subseteq visited'
    <2>1. all \subseteq Objs
      BY <1>1, <1>2, PointedTo DEF ManagersOf
    <2> QED BY <1>1, <2>1, SavingVisits
  <1>4. \A v \in ToSet(frame.values) : input.manager[v] \in visited' \cup {0}
    BY <1>1, <1>3 DEF ManagersOf
  <1>5. SavedAround(n)'
    BY <1>2, <1>4 DEF SavedAround, Unsaved, Grows
  <1> QED BY <1>1, <1>5, CompleteSaving

LEMMA CompleteChildren ==
    ASSUME ShapeInv, IntegrityInv, KeysInv, CompleteInv, Children
    PROVE  CompleteInv'
  <1>1. PICK n, all : n = Len(stack) /\ all = TeamsOf(input, ToSet(frame.values)) /\ Saving("children", "friends", all)
    BY ChildrenDo
  <1>2. /\ stack[n].phase = "children" /\ stack'[n].phase = "friends"
        /\ stack[n].values = frame.values /\ stack'[n].values = frame.values
        /\ SavedAround(n) /\ Grows /\ ToSet(frame.values) \subseteq Objs
    BY <1>1, SavingFrame
  <1>3. all \subseteq visited'
    <2>1. all \subseteq Objs
      BY ZenonT(60), <1>1, <1>2, PointedTo DEF TeamsOf
    <2> QED BY <1>1, <2>1, SavingVisits
  <1>4. ASSUME NEW v \in ToSet(frame.values)
        PROVE  input.manager[v] \in visited' \cup {0} /\ ToSet(input.team[v]) \subseteq visited'
    <2>1. input.manager[v] \in visited \cup {0}
      BY <1>2 DEF SavedAround
    <2> QED BY <1>1, <1>2, <1>3, <2>1 DEF TeamsOf, Grows
  <1>5. SavedAround(n)'
    BY <1>2, <1>4 DEF SavedAround, Unsaved, Grows
  <1> QED BY <1>1, <1>5, CompleteSaving

LEMMA CompleteFriends ==
    ASSUME ShapeInv, IntegrityInv, KeysInv, CompleteInv, Friends
    PROVE  CompleteInv'
  <1>1. PICK n, all : n = Len(stack) /\ all = AllFriendsOf(input, ToSet(frame.values)) /\ Saving("friends", "joins", all)
    BY FriendsDo
  <1>2. /\ stack[n].phase = "friends" /\ stack'[n].phase = "joins"
        /\ stack[n].values = frame.values /\ stack'[n].values = frame.values
        /\ SavedAround(n) /\ Grows /\ ToSet(frame.values) \subseteq Objs
    BY <1>1, SavingFrame
  <1>3. all \subseteq visited'
    <2>1. all \subseteq Objs
      BY ZenonT(60), <1>1, <1>2, PointedTo DEF AllFriendsOf
    <2> QED BY <1>1, <2>1, SavingVisits
  <1>4. ASSUME NEW v \in ToSet(frame.values)
        PROVE  /\ input.manager[v] \in visited' \cup {0} /\ ToSet(input.team[v]) \subseteq visited'
               /\ ToSet(input.friends[v]) \subseteq visited'
    <2>1. input.manager[v] \in visited \cup {0} /\ ToSet(input.team[v]) \subseteq visited
      BY <1>2 DEF SavedAround, Unsaved
    <2> QED BY <1>1, <1>2, <1>3, <2>1 DEF AllFriendsOf, Grows
  <1>5. SavedAround(n)'
    BY <1>2, <1>4 DEF SavedAround, Grows
  <1> QED BY <1>1, <1>5, CompleteSaving

LEMMA CompleteQuiet ==
    ASSUME ShapeInv, IntegrityInv, CompleteInv, NEW at, NEW phase, Quiet(at, phase), Covers(at, phase)
    PROVE  CompleteInv'
  <1>1. pc = "running" /\ ~error /\ Grows /\ At(at) /\ Goes(phase) /\ visited' = visited
    BY DEF Quiet, Grows
  <1>2. PICK n \in Nat : n = Len(stack) /\ n >= 1 /\ frame = stack[n] /\ frame.phase = at
    BY <1>1, Running
  <1>3. SavedAround(n) /\ stack'[n].values = stack[n].values /\ Covers(stack[n].phase, stack'[n].phase)
    BY <1>1, <1>2 DEF CompleteInv, Goes
  <1>4. SavedAround(n)'
    BY <1>1, <1>2, <1>3, AroundStays
  <1> QED BY <1>1, <1>2, <1>4, CompleteGoes

LEMMA CompleteInsert ==
    ASSUME ShapeInv, IntegrityInv, CompleteInv, Inserts
    PROVE  CompleteInv'
  <1>1. At("insert") /\ Goes("children") /\ UNCHANGED <<input, visited, skipped, joins, error>>
    BY DEF Inserts
  <1>2. pc = "running" /\ ~error
    BY <1>1, Running
  <1>3. Grows
    BY <1>1, InsertsAre DEF Grows
  <1>4. PICK n \in Nat : n = Len(stack) /\ n >= 1 /\ frame = stack[n] /\ frame.phase = "insert"
    BY <1>1, Running
  <1>5. SavedAround(n) /\ stack'[n].values = stack[n].values /\ Covers(stack[n].phase, stack'[n].phase)
    BY <1>1, <1>2, <1>4 DEF CompleteInv, Goes, Covers, Unsaved
  <1>6. SavedAround(n)'
    BY <1>2, <1>3, <1>4, <1>5, AroundStays
  <1> QED BY <1>1, <1>2, <1>3, <1>4, <1>6, CompleteGoes

LEMMA CompleteJoins ==
    ASSUME ShapeInv, IntegrityInv, CompleteInv, Joins
    PROVE  CompleteInv'
  <1>1. /\ pc = "running" /\ ~error /\ At("joins") /\ Goes("after") /\ joins' = joins \cup JoinRows
        /\ UNCHANGED <<input, pk, fk, rows, next, stored, visited, skipped, pc, error>>
    BY JoinsDoes
  <1>2. Grows
    BY <1>1 DEF Grows
  <1>3. PICK n \in Nat : n = Len(stack) /\ n >= 1 /\ frame = stack[n] /\ frame.phase = "joins"
    BY <1>1, Running
  <1>4. SavedAround(n) /\ stack'[n].values = stack[n].values /\ stack'[n].phase = "after"
    BY <1>1, <1>3 DEF CompleteInv, Goes
  <1>5. ASSUME NEW v \in ToSet(stack[n].values)
        PROVE  /\ input.manager[v] \in visited \cup {0} /\ ToSet(input.team[v]) \subseteq visited
               /\ ToSet(input.friends[v]) \subseteq visited
               /\ \A f \in ToSet(input.friends[v]) : <<pk[v], pk[f]>> \in joins'
    <2>1. /\ input.manager[v] \in visited \cup {0} /\ ToSet(input.team[v]) \subseteq visited
          /\ ToSet(input.friends[v]) \subseteq visited
      BY <1>3, <1>4 DEF SavedAround, Unsaved
    <2>2. \A f \in ToSet(input.friends[v]) : <<pk[v], pk[f]>> \in JoinRows
      BY <1>3 DEF JoinRows
    <2> QED BY <1>1, <2>1, <2>2
  <1>6. SavedAround(n)'
    BY <1>1, <1>4, <1>5 DEF SavedAround
  <1> QED BY <1>1, <1>2, <1>3, <1>6, CompleteGoes

\* The values of a Create that comes to its end are finished.
LEMMA FinishedAtTheEnd ==
    ASSUME ShapeInv, IntegrityInv, CompleteInv, At("end"), ~error, NEW o \in ToSet(stack[Len(stack)].values)
    PROVE  Finished(o)
  <1>1. pc = "running" /\ Len(stack) \in 1..Len(stack) /\ stack[Len(stack)].phase = "end"
    <2>1. pc = "running" /\ Len(stack) \in Nat /\ Len(stack) >= 1 /\ frame = stack[Len(stack)] /\ frame.phase = "end"
      BY Running
    <2> QED BY <2>1
  <1>2. SavedAround(Len(stack)) /\ Given(Len(stack))
    BY <1>1 DEF CompleteInv, IntegrityInv
  <1> QED BY <1>1, <1>2 DEF SavedAround, Given, Finished, Near, Unsaved

LEMMA CompleteReturn ==
    ASSUME ShapeInv, IntegrityInv, CompleteInv, Return
    PROVE  CompleteInv'
  <1>1. /\ pc = "running" /\ ~error /\ At("end") /\ Returns
        /\ UNCHANGED <<input, pk, fk, rows, joins, next, stored, visited, skipped, pc, error>>
    BY ReturnDoes
  <1>2. Len(stack) \in Nat /\ Len(stack') = Len(stack) - 1 /\ Grows
    BY <1>1, Running DEF Returns, Grows
  <1>3. ASSUME NEW k \in 1..Len(stack') PROVE SavedAround(k)'
    <2>1. stack'[k] = stack[k] /\ k \in 1..Len(stack)
      BY <1>1, <1>2, <1>3 DEF Returns
    <2>2. SavedAround(k)
      BY <1>1, <2>1 DEF CompleteInv
    <2> QED BY <1>1, <1>2, <2>1, <2>2, AroundStays DEF Covers
  <1>4. ASSUME NEW o \in visited' \cup Roots' PROVE Finished(o)' \/ \E k \in 1..Len(stack') : o \in ToSet(stack'[k].values)
    <2>1. o \in visited \cup Roots
      BY <1>1 DEF Roots
    <2>2. Finished(o)' \/ \E k \in 1..Len(stack) : o \in ToSet(stack[k].values)
      BY <1>1, <1>2, <2>1, TrackedStays DEF CompleteInv, Tracked
    <2>3. ASSUME o \in ToSet(stack[Len(stack)].values) PROVE Finished(o)'
      <3>1. Finished(o) /\ o \in Objs
        BY <1>1, <2>1, <2>3, FinishedAtTheEnd, PointedTo DEF ShapeInv, TypeInv
      <3> QED BY <1>2, <3>1, FinishedStays
    <2>4. \A k \in 1..Len(stack) : k # Len(stack) => k \in 1..Len(stack') /\ stack'[k] = stack[k]
      BY <1>1, <1>2 DEF Returns
    <2> QED BY <2>2, <2>3, <2>4
  <1> QED BY <1>3, <1>4 DEF CompleteInv

LEMMA CompleteEnd ==
    ASSUME ShapeInv, IntegrityInv, CompleteInv, End
    PROVE  CompleteInv'
  <1>1. /\ pc = "running" /\ At("end") /\ Len(stack) = 1 /\ stack' = <<>>
        /\ UNCHANGED <<input, pk, fk, next, visited, skipped>>
        /\ (~error /\ UNCHANGED <<rows, joins, error>>) \/ error' = TRUE
    BY EndDoes
  <1>2. CASE error' = TRUE
    BY <1>2 DEF CompleteInv
  <1>3. CASE ~error /\ UNCHANGED <<rows, joins, error>>
    <2>1. Grows
      BY <1>1, <1>3 DEF Grows
    <2>2. 1..Len(stack') = {}
      BY <1>1
    <2>3. ASSUME NEW o \in visited' \cup Roots' PROVE Finished(o)'
      <3>1. o \in visited \cup Roots /\ o \in Objs
        BY <1>1, PointedTo DEF Roots, ShapeInv, TypeInv
      <3>2. Finished(o)' \/ o \in ToSet(stack[1].values)
        BY <1>1, <1>3, <2>1, <3>1, TrackedStays DEF CompleteInv, Tracked
      <3>3. ASSUME o \in ToSet(stack[1].values) PROVE Finished(o)'
        <4>1. Finished(o)
          BY <1>1, <1>3, <3>3, FinishedAtTheEnd
        <4> QED BY <2>1, <3>1, <4>1, FinishedStays
      <3> QED BY <3>2, <3>3
    <2> QED BY <2>2, <2>3 DEF CompleteInv
  <1> QED BY <1>1, <1>2, <1>3

LEMMA CompleteInit == Init /\ ShapeInv => CompleteInv
  <1> SUFFICES ASSUME Init, ShapeInv PROVE CompleteInv
    OBVIOUS
  <1>1. Len(stack) = 1 /\ stack[1].values = input.roots /\ stack[1].phase = "before" /\ visited = {}
    BY DEF Init
  <1>2. SavedAround(1)
    BY <1>1 DEF SavedAround, Unsaved
  <1> QED BY <1>1, <1>2 DEF CompleteInv, Roots

LEMMA CompleteNext == ShapeInv /\ IntegrityInv /\ KeysInv /\ CompleteInv /\ [Next]_vars => CompleteInv'
  <1> SUFFICES ASSUME ShapeInv, IntegrityInv, KeysInv, CompleteInv, [Next]_vars PROVE CompleteInv'
    OBVIOUS
  <1>1. ASSUME error' = TRUE PROVE CompleteInv'
    BY <1>1 DEF CompleteInv
  <1>2. CASE Before
    BY <1>2, QuietDo, CompleteQuiet DEF Covers, Unsaved
  <1>3. CASE SetRefs
    BY <1>3, QuietDo, CompleteQuiet DEF Covers, Unsaved
  <1>4. CASE After
    BY <1>4, QuietDo, CompleteQuiet DEF Covers, Unsaved
  <1>5. CASE Parents
    BY <1>5, CompleteParents
  <1>6. CASE Children
    BY <1>6, CompleteChildren
  <1>7. CASE Friends
    BY <1>7, CompleteFriends
  <1>8. CASE Insert
    BY <1>1, <1>8, InsertDoes, CompleteInsert, FailsAre
  <1>9. CASE Joins
    BY <1>9, CompleteJoins
  <1>10. CASE Return
    BY <1>10, CompleteReturn
  <1>11. CASE End
    BY <1>11, CompleteEnd
  <1>12. CASE Fail
    BY <1>1, <1>12, FailDoes, FailsAre
  <1>13. CASE Panic
    BY <1>13 DEF Panic, CompleteInv
  <1>14. CASE UNCHANGED vars
    BY <1>14 DEF vars, memory, database, CompleteInv, SavedAround, Finished, Roots
  <1> QED BY <1>2, <1>3, <1>4, <1>5, <1>6, <1>7, <1>8, <1>9, <1>10, <1>11, <1>12, <1>13, <1>14 DEF Next, Callback

\* A Create that succeeds has saved every record it was led to, in one row, and the
\* friendships, whatever circles the pointers make: what has been visited and the
\* roots is closed under the pointers, and each of it has the row of its key only.
THEOREM CreatesAll == ASSUME NewAreUnshared PROVE Spec => []Complete
  <1>1. ShapeInv /\ KeysInv /\ CompleteInv => Complete
    <2> SUFFICES ASSUME ShapeInv, KeysInv, CompleteInv, Created, NEW o \in Reached(Roots)
                 PROVE  /\ Cardinality({k \in DOMAIN rows : rows[k].of = o}) = 1
                        /\ skipped = {} => \A f \in ToSet(input.friends[o]) : <<pk[o], pk[f]>> \in joins
      BY DEF Complete
    <2>1. ~error /\ pc = "done" /\ 1..Len(stack) = {}
      BY DEF Created, ShapeInv, StackInv
    <2>2. PICK S : S = visited \cup Roots
      OBVIOUS
    <2>3. S \in SUBSET Objs /\ Roots \subseteq S /\ \A s \in S : Finished(s) /\ Near(input, s) \subseteq S
      BY <2>1, <2>2, PointedTo DEF CompleteInv, Finished, ShapeInv, TypeInv
    <2>4. o \in S
      <3>1. Reached(Roots) = ReachedIn(input, Roots) /\ input \in InputType
        BY ReachedIs DEF ShapeInv, TypeInv
      <3>2. ReachedIn(input, Roots) \subseteq S
        BY ONLY <2>3, <3>1, ReachedGrows
      <3> QED BY <3>1, <3>2
    <2>5. Finished(o) /\ o \in Objs
      BY <2>3, <2>4
    <2>6. {k \in DOMAIN rows : rows[k].of = o} = {pk[o]}
      BY <2>1, <2>5 DEF KeysInv, Finished
    <2>7. Cardinality({k \in DOMAIN rows : rows[k].of = o}) = 1
      BY <2>6, FS_Singleton
    <2> QED BY <2>5, <2>7 DEF Finished
  <1>2. Spec => []IntegrityInv
    BY ShapeInit, IntegrityInit, IntegrityNext, ShapeAlways, PTL DEF Spec
  <1>3. Spec => []CompleteInv
    BY <1>2, KeysAlways, ShapeInit, CompleteInit, CompleteNext, ShapeAlways, PTL DEF Spec
  <1> QED BY <1>1, <1>3, KeysAlways, ShapeAlways, PTL
=============================================================================
