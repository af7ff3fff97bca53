---------------------------- MODULE SchemaCache ----------------------------
(***************************************************************************)
(* The schema cache (schema.go, relationship.go): goroutines parse types   *)
(* into Schemas that they share through a sync.Map.                        *)
(*                                                                         *)
(* A Schema is put into the map as soon as its columns are known, and its  *)
(* relations are parsed after that.  They lead to further types, and so to *)
(* further Parse calls of the same goroutine, and back: a relation takes a *)
(* Schema of the map as it is (getOrParse), while Parse waits until the    *)
(* goroutine that stored it closes its `initialized`.  To settle a foreign *)
(* key a has-relation holds the Mux of two Schemas.                        *)
(***************************************************************************)
EXTENDS Integers, FiniteSets, Sequences

CONSTANTS
    Procs,          \* the goroutines
    Types,          \* the model types
    Fields,         \* the relation fields of each type, in their order
    Specials,       \* the types also parsed under a special table name
    MaxCalls,       \* bound on the calls of Parse
    MaxSchemas      \* bound on the Schemas stored

\* What parseRelation makes of a field: it is of the kind of has-one and
\* has-many, of belongs-to, of a polymorphic or many-to-many relation (for
\* which no Mux is taken), or there is no foreign key to be found for it.
Kinds == {"has", "belongs", "other", "invalid"}
Field == [to : Types, kind : Kinds]

ASSUME FieldsAssumption ==
    IsFiniteSet(Procs) /\ Fields \in [Types -> Seq(Field)] /\ Specials \subseteq Types
ASSUME BoundsAssumption == MaxCalls \in Nat /\ MaxSchemas \in Nat

VARIABLES
    cache,      \* the sync.Map
    schemas,    \* the Schemas stored, in their order; the map holds their numbers
    locked,     \* those whose Mux is held between two steps
    stack,      \* the Parse calls each goroutine is in
    result,     \* the Schema its last Parse returned, 0 with an error
    calls       \* how many more calls there may be

vars == <<cache, schemas, locked, stack, result, calls>>

\* The key is the type, or the type and the special table name.
Key == [type : Types, special : BOOLEAN]
Plain(t) == [type |-> t, special |-> FALSE]

Ids == 1..MaxSchemas

\* `relations` is the FieldSchema of each field done, `back` what has-relations
\* of other Schemas have registered in Relationships.Relations.
Schema == [key : Key, initialized : BOOLEAN, err : BOOLEAN,
           relations : Seq(Ids), back : SUBSET Ids]

\* The points of Parse where a goroutine can be preempted or blocked.
Own  == {"relation", "call", "guess", "other", "back", "set", "fail", "close"}
At   == {"load", "store", "wait"} \cup Own

\* `id` is the Schema it stored, or waits for; `field` the FieldSchema of the
\* relation being parsed.
Frame == [at : At, key : Key, id : 0..MaxSchemas, field : 0..MaxSchemas]

TypeOK ==
    /\ cache \in [Key -> 0..MaxSchemas]
    /\ schemas \in Seq(Schema) /\ Len(schemas) =< MaxSchemas
    /\ locked \subseteq DOMAIN schemas
    /\ stack \in [Procs -> Seq(Frame)]
    /\ result \in [Procs -> 0..MaxSchemas]
    /\ calls \in 0..MaxCalls

Init ==
    /\ cache = [k \in Key |-> 0]
    /\ schemas = <<>> /\ locked = {}
    /\ stack = [p \in Procs |-> <<>>]
    /\ result = [p \in Procs |-> 0]
    /\ calls = MaxCalls

------------------------------------------------------------------------------
Depth(p) == Len(stack[p])
Top(p) == stack[p][Depth(p)]
In(p, at) == Depth(p) > 0 /\ Top(p).at = at

\* The field whose relation is parsed.
NextField(s) == Len(schemas[s].relations) + 1
Current(p) == Fields[Top(p).key.type][NextField(Top(p).id)]

Goto(p, at) == stack' = [stack EXCEPT ![p][Depth(p)].at = at]

Await(p, s) == stack' = [stack EXCEPT ![p][Depth(p)].at = "wait", ![p][Depth(p)].id = s]

Call(k) == [at |-> "load", key |-> k, id |-> 0, field |-> 0]

\* Parse returns Schema s, or an error: to getOrParse, in a relation of the
\* caller's Schema, or to the application.
Return(p, s, ok) ==
    LET rest == SubSeq(stack[p], 1, Depth(p) - 1)
        back == Depth(p) - 1
    IN IF back = 0
          THEN /\ stack' = [stack EXCEPT ![p] = rest]
               /\ result' = [result EXCEPT ![p] = IF ok THEN s ELSE 0]
          ELSE /\ stack' = [stack EXCEPT ![p] =
                               [rest EXCEPT ![back] = IF ok
                                   THEN [@ EXCEPT !.at = "guess", !.field = s]
                                   ELSE [@ EXCEPT !.at = "fail"]]]
               /\ UNCHANGED result

------------------------------------------------------------------------------
\* The application calls Parse, or the migrator ParseWithSpecialTableName.
Parse(p, k) ==
    /\ Depth(p) = 0 /\ calls > 0
    /\ k.special => k.type \in Specials
    /\ stack' = [stack EXCEPT ![p] = <<Call(k)>>]
    /\ calls' = calls - 1
    /\ UNCHANGED <<cache, schemas, locked, result>>

\* The Schema is there, complete or not (both Loads, before and after the
\* Schema is allocated; a miss of the second is a miss of the first that came
\* later, or a hit of LoadOrStore).
Load(p) ==
    /\ In(p, "load")
    /\ IF cache[Top(p).key] = 0 THEN Goto(p, "store") ELSE Await(p, cache[Top(p).key])
    /\ UNCHANGED <<cache, schemas, locked, result, calls>>

\* LoadOrStore, the columns parsed: another goroutine's Schema, or its own.
Store(p) ==
    /\ In(p, "store")
    /\ LET k == Top(p).key s == Len(schemas) + 1
       IN \/ /\ cache[k] # 0
             /\ Await(p, cache[k])
             /\ UNCHANGED <<cache, schemas>>
          \/ /\ cache[k] = 0 /\ Len(schemas) < MaxSchemas
             /\ cache' = [cache EXCEPT ![k] = s]
             /\ schemas' = Append(schemas, [key |-> k, initialized |-> FALSE, err |-> FALSE,
                                            relations |-> <<>>, back |-> {}])
             /\ stack' = [stack EXCEPT ![p][Depth(p)].at = "relation", ![p][Depth(p)].id = s]
    /\ UNCHANGED <<locked, result, calls>>

\* Mutant: what was found is taken as it is.
Wait_Not(p) ==
    /\ In(p, "wait")
    /\ Return(p, Top(p).id, ~schemas[Top(p).id].err)
    /\ UNCHANGED <<cache, schemas, locked, calls>>

\* `<-s.initialized`
Wait(p) ==
    /\ In(p, "wait") /\ schemas[Top(p).id].initialized
    /\ Return(p, Top(p).id, ~schemas[Top(p).id].err)
    /\ UNCHANGED <<cache, schemas, locked, calls>>

\* parseRelation of the next field: a Schema in the map will do, even one that
\* is being parsed; otherwise Parse is called.
GetOrParse(p) ==
    /\ In(p, "relation") /\ NextField(Top(p).id) =< Len(Fields[Top(p).key.type])
    /\ LET k == Plain(Current(p).to)
       IN IF cache[k] # 0
             THEN stack' = [stack EXCEPT ![p][Depth(p)].at = "guess",
                                         ![p][Depth(p)].field = cache[k]]
             ELSE stack' = [stack EXCEPT ![p] =
                               Append([@ EXCEPT ![Depth(p)].at = "call"], Call(k))]
    /\ UNCHANGED <<cache, schemas, locked, result, calls>>

\* guessRelation settles a foreign key of the own Schema under the own Mux; for
\* one of another Schema it takes the own Mux first ...
Guess(p) ==
    /\ In(p, "guess")
    /\ LET f == Top(p) kind == Current(p).kind
       IN \/ /\ kind = "invalid"
             /\ Goto(p, "fail")
             /\ UNCHANGED locked
          \/ /\ kind = "other" \/ (kind = "belongs" /\ f.id \notin locked)
             /\ Goto(p, "set")
             /\ UNCHANGED locked
          \/ /\ kind = "has" /\ f.id \notin locked
             /\ IF f.field = f.id
                   THEN Goto(p, "set") /\ UNCHANGED locked
                   ELSE Goto(p, "other") /\ locked' = locked \cup {f.id}
    /\ UNCHANGED <<cache, schemas, result, calls>>

\* ... and then the other's, and gives both up once the key is settled.
Other(p) ==
    /\ In(p, "other") /\ Top(p).field \notin locked
    /\ locked' = locked \ {Top(p).id}
    /\ Goto(p, "back")
    /\ UNCHANGED <<cache, schemas, result, calls>>

\* A has-relation is registered with the other Schema, under its Mux.
Back(p) ==
    /\ In(p, "back") /\ Top(p).field \notin locked
    /\ schemas' = [schemas EXCEPT ![Top(p).field].back = @ \cup {Top(p).id}]
    /\ Goto(p, "set")
    /\ UNCHANGED <<cache, locked, result, calls>>

\* setRelation, under the own Mux.
Set(p) ==
    /\ In(p, "set") /\ Top(p).id \notin locked
    /\ schemas' = [schemas EXCEPT ![Top(p).id].relations = Append(@, Top(p).field)]
    /\ Goto(p, "relation")
    /\ UNCHANGED <<cache, locked, result, calls>>

\* Mutant: a failed Schema stays in the map.
Fail_Keep(p) ==
    /\ In(p, "fail")
    /\ schemas' = [schemas EXCEPT ![Top(p).id].err = TRUE]
    /\ Goto(p, "close")
    /\ UNCHANGED <<cache, locked, result, calls>>

\* Mutant: the Delete takes out the Schema the relation led to.
Fail_Field(p) ==
    /\ In(p, "fail")
    /\ schemas' = [schemas EXCEPT ![Top(p).id].err = TRUE]
    /\ cache' = [cache EXCEPT ![Plain(Current(p).to)] = 0]
    /\ Goto(p, "close")
    /\ UNCHANGED <<locked, result, calls>>

\* schema.err is set, and the deferred Delete takes the *type* out of the map.
Fail(p) ==
    /\ In(p, "fail")
    /\ schemas' = [schemas EXCEPT ![Top(p).id].err = TRUE]
    /\ cache' = [cache EXCEPT ![Plain(Top(p).key.type)] = 0]
    /\ Goto(p, "close")
    /\ UNCHANGED <<locked, result, calls>>

\* Mutant: the deferred close is not reached after an error.
Close_NotOnError(p) ==
    /\ In(p, "close") \/ (In(p, "relation") /\ NextField(Top(p).id) > Len(Fields[Top(p).key.type]))
    /\ LET s == Top(p).id
       IN /\ schemas' = [schemas EXCEPT ![s].initialized = ~schemas[s].err]
          /\ Return(p, s, ~schemas[s].err)
    /\ UNCHANGED <<cache, locked, calls>>

\* The deferred close(initialized), after an error or the last relation.
Close(p) ==
    /\ In(p, "close") \/ (In(p, "relation") /\ NextField(Top(p).id) > Len(Fields[Top(p).key.type]))
    /\ LET s == Top(p).id
       IN /\ schemas' = [schemas EXCEPT ![s].initialized = TRUE]
          /\ Return(p, s, ~schemas[s].err)
    /\ UNCHANGED <<cache, locked, calls>>

------------------------------------------------------------------------------
Step(p) ==
    \/ Load(p) \/ Store(p) \/ Wait(p) \/ GetOrParse(p)
    \/ Guess(p) \/ Other(p) \/ Back(p) \/ Set(p) \/ Fail(p) \/ Close(p)

Next == \E p \in Procs : Step(p) \/ \E k \in Key : Parse(p, k)

Spec == Init /\ [][Next]_vars

\* Go runs every goroutine that can run.
FairSpec == Spec /\ \A p \in Procs : WF_vars(Step(p))

------------------------------------------------------------------------------
(***************************************************************************)
(* Properties.                                                             *)
(***************************************************************************)

\* The Schema that Parse returns without an error is complete: all its
\* relations are set, however many goroutines parse it at the same time.
ReturnedIsComplete ==
    \A p \in Procs : result[p] # 0 =>
        LET s == schemas[result[p]]
        IN s.initialized /\ ~s.err /\ Len(s.relations) = Len(Fields[s.key.type])

\* There is one Schema of a key, however many goroutines come for it at the same
\* time: every Schema that was ever handed out is the one in the map, unless its
\* parsing has failed.  So a failure takes nothing out of the map but itself.
OneSchema == \A s \in DOMAIN schemas : ~schemas[s].err => cache[schemas[s].key] = s

\* A Schema that failed is not in the map when the others hear of it: the next
\* Parse of the type starts afresh.
FailedIsNotCached ==
    \A k \in Key : cache[k] # 0 =>
        ~(schemas[cache[k]].initialized /\ schemas[cache[k]].err)

\* The goroutine can go on (the guards of Step, the bound MaxSchemas left out).
CanStep(p) ==
    /\ Depth(p) > 0
    /\ Top(p).at = "wait" => schemas[Top(p).id].initialized
    /\ Top(p).at = "set" \/ (Top(p).at = "guess" /\ Current(p).kind \in {"has", "belongs"})
          => Top(p).id \notin locked
    /\ Top(p).at \in {"other", "back"} => Top(p).field \notin locked

\* Whenever types are being parsed, some goroutine can go on: neither the waits
\* for `initialized` nor those for a Mux make a cycle.
NoDeadlock == (\E p \in Procs : Depth(p) > 0) => \E p \in Procs : CanStep(p)

\* Every Parse returns.
EveryParseReturns == \A p \in Procs : Depth(p) > 0 ~> Depth(p) = 0
==============================================================================
