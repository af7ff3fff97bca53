----------------------------- MODULE MCSaveGraph -----------------------------
(* Small instances of SaveGraph. *)
EXTENDS SaveGraph

Kinds == {"manager", "team", "friends"}

Pointers == Kinds \X (1..3) \X (1..3)

\* A record has a manager at most.
IsGraph(E) == \A d, e \in E : d[1] = "manager" /\ e[1] = "manager" /\ d[2] = e[2] => d = e

UpTo3 == {E \in {{d, e, f} : d, e, f \in Pointers} : IsGraph(E)}

Graph(E, roots, old) ==
    LET of(kind, o) == {p \in Objs : <<kind, o, p>> \in E}
    IN  [roots |-> roots, old |-> old,
         manager |-> [o \in Objs |-> IF of("manager", o) = {} THEN 0 ELSE CHOOSE p \in of("manager", o) : TRUE],
         team |-> [o \in Objs |-> SetToSortSeq(of("team", o), <)],
         friends |-> [o \in Objs |-> SetToSortSeq(of("friends", o), <)]]

\* No two of a batch point to the same new record.
NoneShared(g) ==
    \A v, w \in Objs : v # w =>
        /\ g.manager[v] # 0 /\ g.manager[v] = g.manager[w] => g.manager[v] \in g.old
        /\ ToSet(g.team[v]) \cap ToSet(g.team[w]) \subseteq g.old
        /\ ToSet(g.friends[v]) \cap ToSet(g.friends[w]) \subseteq g.old

GraphsOf(sets) == {Graph(E, roots, old) : E \in sets, roots \in {<<1>>, <<1, 2>>}, old \in {{}, {3}}}

Graphs3 == {g \in GraphsOf(UpTo3) : NoneShared(g)}

\* Three records, and the managers that they may share.
Teams ==
    {[roots |-> <<1, 2, 3>>, old |-> {}, team |-> [o \in Objs |-> <<>>], friends |-> [o \in Objs |-> <<>>],
      manager |-> [o \in Objs |-> IF o > 3 THEN 0 ELSE m[o]]] : m \in [1..3 -> Objs \ (1..3)]}
=============================================================================
