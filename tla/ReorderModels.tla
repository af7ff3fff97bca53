---------------------------- MODULE ReorderModels ---------------------------
(***************************************************************************)
(* ReorderModels of migrator/migrator.go: the order in which AutoMigrate   *)
(* takes the models it was given and those they depend on.  The loops over *)
(* Relationships.Relations go through a Go map: `order', a sequence of all *)
(* relations, says in which order they come, and every one is possible;    *)
(* it is empty when relations are to be ignored.                           *)
(***************************************************************************)
EXTENDS Migrator, SequencesExt, TLC

\* Parsing a model parses the models its relations lead to.
RECURSIVE Reached(_)
Reached(ts) ==
  LET more == ts \cup {r.to : r \in UNION {Relations[t] : t \in ts}}
                 \cup {r.join : r \in {s \in UNION {Relations[t] : t \in ts} : s.join # ""}}
  IN IF more = ts THEN ts ELSE Reached(more)

\* What ReorderModels keeps: known, the models parsed by the process; depends,
\* its valuesMap; names, its modelNames; seen and ordered, the list it makes.
Nothing(known) == [known |-> known, depends |-> <<>>, names |-> <<>>, seen |-> {}, ordered |-> <<>>]

\* parseDependence: the relations of t are those filed by now; the models of
\* its join tables are parsed when it returns, the last relation first, and
\* the other side only when t has one of it too (otherwise the code adds it to
\* a copy of t's dependencies that is thrown away).
RECURSIVE ParseDependence(_, _, _, _, _)
ParseDependence(st, t, add, auto, order) ==
  LET known == st.known \cup Reached({t})
      rels == SelectSeq(order, LAMBDA r : r \in RelationsIn(t, known))
      keys == SelectSeq(rels, LAMBDA r : HasConstraint(r, known) /\ Holder(r) = t /\ Referred(r) # t)
      beDependedOn == {r.to : r \in {s \in Range(rels) : s.kind = "has"}}
      parsed == [st EXCEPT !.known = known,
                           !.depends = (t :> [i \in DOMAIN keys |-> Referred(keys[i])]) @@ @,
                           !.names = IF add THEN Append(@, t) ELSE @]
      Deferred(s, r) ==
        LET both == IF r.to \in beDependedOn THEN ParseDependence(s, r.to, auto, auto, order) ELSE s
        IN ParseDependence(both, r.join, auto, auto, order)
  IN IF t \in DOMAIN st.depends THEN [st EXCEPT !.known = known]
     ELSE FoldLeft(Deferred, parsed, Reverse(SelectSeq(rels, LAMBDA r : r.join # "")))

\* insertIntoOrderedList: first what the model depends on, unless it is being
\* inserted already; only when models may be added.
RECURSIVE InsertIntoOrderedList(_, _, _, _)
InsertIntoOrderedList(st, t, auto, order) ==
  IF t \in st.seen THEN st
  ELSE LET Insert(s, d) ==
             InsertIntoOrderedList(IF d \in DOMAIN s.depends THEN s
                                   ELSE ParseDependence(s, d, auto, auto, order), d, auto, order)
           marked == [st EXCEPT !.seen = @ \cup {t}]
           before == IF auto THEN FoldLeft(Insert, marked, st.depends[t]) ELSE marked
       IN [before EXCEPT !.ordered = Append(@, t)]

\* Mutant: the models in the order they were found.
Reordered_AsFound(known, values, auto, order) ==
  LET Parse(s, t) == ParseDependence(s, t, TRUE, auto, order)
      Insert(s, t) == InsertIntoOrderedList(s, t, FALSE, order)
      parsed == FoldLeft(Parse, Nothing(known), values)
  IN FoldLeft(Insert, parsed, parsed.names)
Reordered(known, values, auto, order) ==
  LET Parse(s, t) == ParseDependence(s, t, TRUE, auto, order)
      Insert(s, t) == InsertIntoOrderedList(s, t, auto, order)
      parsed == FoldLeft(Parse, Nothing(known), values)
  IN FoldLeft(Insert, parsed, parsed.names)

AllRelations == UNION {Relations[t] : t \in Tables}

\* What Orders of Migrator stands for.
AllOrders(c, known, values) ==
  {[order |-> st.ordered, known |-> st.known] :
     st \in {Reordered(known, values, TRUE, order) :
               order \in IF c.noRelations THEN {<<>>} ELSE SetToSeqs(AllRelations)}}
============================================================================
