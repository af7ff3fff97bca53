--------------------------- MODULE CallbackOrder ---------------------------
(***************************************************************************)
(* The registry of callbacks (callbacks.go): Register, Replace and Remove, *)
(* with Before and After, and sortCallbacks, which brings the callbacks of *)
(* a processor into the order in which Execute runs them.                  *)
(*                                                                         *)
(* A wish about a callback that has not been sorted yet is written into    *)
(* that callback, over what it had asked for itself, and stays there for   *)
(* all sorts to come.                                                      *)
(***************************************************************************)
EXTENDS Integers, Sequences, FiniteSets, SequencesExt

CONSTANTS
    Defaults,   \* the names of GORM's own callbacks, in their order
    Calls,      \* what the application may call: [how, name, before, after]
    Reuse,      \* does it register names that it has registered before?
    MaxCalls    \* bound on the calls

NoName == ""
Star == "*"     \* Before("*"), After("*")

Own == ToSet(Defaults)
CallbackNames == Own \cup {c.name : c \in Calls}

\* Replace and Remove come without Before and After.
ASSUME CallsAssumption ==
    /\ Reuse \in BOOLEAN /\ MaxCalls \in Nat
    /\ Defaults \in Seq(STRING) /\ IsInjective(Defaults)
    /\ CallbackNames \subseteq STRING /\ CallbackNames \cap {NoName, Star} = {}
    /\ \A c \in Calls :
          /\ c.how \in {"register", "replace", "remove"}
          /\ {c.before, c.after} \subseteq CallbackNames \cup {NoName, Star}
          /\ c.how # "register" => {c.before, c.after} = {NoName}

\* A name that is registered with Before("*") or After("*") is given to one
\* callback only, which is not replaced: a later one would be moved in front of
\* it with all that have no star, and the earlier one would run.
StarsAreKept ==
    \A c \in Calls :
        Star \in {c.before, c.after} => ~Reuse /\ \A d \in Calls : d.name = c.name => d.how # "replace"

\* Before and After name GORM's own callbacks, or one of them has a star, and no
\* name is registered twice.  What is replaced has no star, and if it is GORM's own
\* it is not also removed: replaced after that, it would be behind the others.
PlainWishes ==
    /\ ~Reuse
    /\ \A c \in Calls :
          /\ {c.before, c.after} \subseteq Own \cup {NoName, Star} /\ {c.before, c.after} # {Star}
          /\ \A d \in Calls : d.how = "replace" /\ d.name = c.name =>
                Star \notin {c.before, c.after} /\ (c.name \in Own => c.how # "remove")

VARIABLES
    callbacks,  \* p.callbacks
    fns,        \* what Execute runs, in this order: a name, and which of its handlers
    failed,     \* the last call returned an error
    next,       \* the callback that the loop of sortCallbacks is at, 0 outside of it
    sorted,     \* the names it has put in order
    stack,      \* the calls of sortCallback under way: a callback, and how far it has come
    asked,      \* what the application asked for last, under each name
    calls       \* how many calls there have been

registry == <<callbacks, fns, failed, next, sorted, stack, asked, calls>>

Callback(how, name, before, after, id) ==
    [how |-> how, name |-> name, before |-> before, after |-> after, id |-> id]

Default(name) == Callback("default", name, NoName, NoName, 0)

CInit ==
    /\ callbacks = [i \in DOMAIN Defaults |-> Default(Defaults[i])]
    /\ fns = [i \in DOMAIN Defaults |-> [name |-> Defaults[i], id |-> 0]]
    /\ failed = FALSE
    /\ next = 0 /\ sorted = <<>> /\ stack = <<>>
    /\ asked = [n \in Own |-> Default(n)]
    /\ calls = 0

Idle == next = 0

Registered == {n \in DOMAIN asked : asked[n].how # "remove"}

Ask(n, c) == asked' = [m \in DOMAIN asked \cup {n} |-> IF m = n THEN c ELSE asked[m]]

------------------------------------------------------------------------------
(***************************************************************************)
(* Register, Replace and Remove, and compile up to the loop.               *)
(***************************************************************************)

\* less of sort.SliceStable, which sorts so few by insertion.
Less(c, d) ==
    \/ d.before = Star /\ c.before # Star
    \/ d.after = Star /\ c.after # Star

Inserted(cs, c) == InsertAt(cs, SelectLastInSeq(cs, LAMBDA d : ~Less(c, d)) + 1, c)

\* Those whose names a Remove had are left out (removeCallbacks).
StarsLast(cs, removed) ==
    LET upTo[k \in 0..Len(cs)] ==
            IF k = 0 THEN <<>>
            ELSE IF cs[k].name \in removed THEN upTo[k - 1]
            ELSE Inserted(upTo[k - 1], cs[k])
    IN  upTo[Len(cs)]

\* A callback is added, and those of its name with it dropped if it removes.
Compile(c) ==
    /\ callbacks' = StarsLast(Append(callbacks, c), IF c.how = "remove" THEN {c.name} ELSE {})
    /\ next' = 1 /\ sorted' = <<>> /\ failed' = FALSE
    /\ calls' = calls + 1
    /\ UNCHANGED <<fns, stack>>

Register(c) ==
    /\ Idle /\ calls < MaxCalls
    /\ c.how = "register" /\ (c.name \in DOMAIN asked => Reuse)
    /\ LET new == Callback(c.how, c.name, c.before, c.after, calls + 1)
       IN  Compile(new) /\ Ask(c.name, new)

\* A replacement takes the place of what it replaces.
Replace(c) ==
    /\ Idle /\ calls < MaxCalls
    /\ c.how = "replace"
    /\ LET new == Callback(c.how, c.name, NoName, NoName, calls + 1)
       IN  /\ Compile(new)
           /\ Ask(c.name, IF c.name \in Registered THEN [asked[c.name] EXCEPT !.id = new.id] ELSE new)

Unregister(c) ==
    /\ Idle /\ calls < MaxCalls
    /\ c.how = "remove"
    /\ LET new == Callback(c.how, c.name, NoName, NoName, calls + 1)
       IN  Compile(new) /\ Ask(c.name, new)

------------------------------------------------------------------------------
(***************************************************************************)
(* sortCallback.                                                           *)
(***************************************************************************)

Top == stack[Len(stack)]
Cur == callbacks[Top.of]

Stands(step) == stack # <<>> /\ Top.at = step

\* Mutant: the first of a name, not the last.
Index_First(name) == SelectInSeq(callbacks, LAMBDA c : c.name = name)

\* getRIndex, 0 where the code has -1.
Index(name) == SelectLastInSeq(callbacks, LAMBDA c : c.name = name)
Place(name) == SelectLastInSeq(sorted, LAMBDA n : n = name)

IsPlaced(name) == Place(name) # 0

\* The loop comes to the next callback.
NextCallback ==
    /\ ~Idle /\ stack = <<>> /\ next =< Len(callbacks)
    /\ stack' = <<[of |-> next, at |-> "before"]>>
    /\ next' = next + 1
    /\ UNCHANGED <<callbacks, fns, failed, sorted, asked, calls>>

\* Mutant: "append current callback just after it", as the comment has it.
SortBefore_After ==
    /\ Stands("before")
    /\ IF Cur.before = Star /\ sorted # <<>>
       THEN /\ sorted' = IF IsPlaced(Cur.name) THEN sorted ELSE <<Cur.name>> \o sorted
            /\ UNCHANGED callbacks
       ELSE IF IsPlaced(Cur.before)
       THEN /\ IsPlaced(Cur.name) => Place(Cur.name) =< Place(Cur.before)
            /\ sorted' = IF IsPlaced(Cur.name) THEN sorted
                         ELSE InsertAt(sorted, Place(Cur.before) + 1, Cur.name)
            /\ UNCHANGED callbacks
       ELSE /\ callbacks' = IF Index(Cur.before) = 0 THEN callbacks
                            ELSE [callbacks EXCEPT ![Index(Cur.before)].after = Cur.name]
            /\ UNCHANGED sorted
    /\ stack' = [stack EXCEPT ![Len(stack)].at = "after"]
    /\ UNCHANGED <<fns, failed, next, asked, calls>>

\* In front of all; in front of the one it names; or that one shall come after.
SortBefore ==
    /\ Stands("before")
    /\ IF Cur.before = Star /\ sorted # <<>>
       THEN /\ sorted' = IF IsPlaced(Cur.name) THEN sorted ELSE <<Cur.name>> \o sorted
            /\ UNCHANGED callbacks
       ELSE IF IsPlaced(Cur.before)
       THEN /\ IsPlaced(Cur.name) => Place(Cur.name) =< Place(Cur.before)
            /\ sorted' = IF IsPlaced(Cur.name) THEN sorted
                         ELSE InsertAt(sorted, Place(Cur.before), Cur.name)
            /\ UNCHANGED callbacks
       ELSE /\ callbacks' = IF Index(Cur.before) = 0 THEN callbacks
                            ELSE [callbacks EXCEPT ![Index(Cur.before)].after = Cur.name]
            /\ UNCHANGED sorted
    /\ stack' = [stack EXCEPT ![Len(stack)].at = "after"]
    /\ UNCHANGED <<fns, failed, next, asked, calls>>

\* Behind all, also when it has no wish, or behind the one it names.
SortAfter ==
    /\ Stands("after")
    /\ \/ Cur.after = Star
       \/ Index(Cur.after) = 0
       \/ IsPlaced(Cur.after) /\ (IsPlaced(Cur.name) => Place(Cur.name) >= Place(Cur.after))
    /\ sorted' = IF IsPlaced(Cur.name) THEN sorted ELSE Append(sorted, Cur.name)
    /\ stack' = Front(stack)
    /\ UNCHANGED <<callbacks, fns, failed, next, asked, calls>>

\* The one it names has not been placed: that one first, in front of this if it
\* has no wish of its own; then this one again.
SortOtherFirst ==
    /\ Stands("after")
    /\ Index(Cur.after) # 0 /\ ~IsPlaced(Cur.after)
    /\ LET other == Index(Cur.after)
       IN  /\ callbacks' = IF callbacks[other].before # NoName THEN callbacks
                           ELSE [callbacks EXCEPT ![other].before = Cur.name]
           /\ stack' = Append([stack EXCEPT ![Len(stack)].at = "before"],
                              [of |-> other, at |-> "before"])
    /\ UNCHANGED <<fns, failed, next, sorted, asked, calls>>

\* "conflicting callback": the error goes up through all calls, and the
\* processor is left without functions.
Conflict ==
    /\ \/ /\ Stands("before")
          /\ IsPlaced(Cur.before) /\ IsPlaced(Cur.name) /\ Place(Cur.name) > Place(Cur.before)
       \/ /\ Stands("after")
          /\ IsPlaced(Cur.after) /\ IsPlaced(Cur.name) /\ Place(Cur.name) < Place(Cur.after)
    /\ failed' = TRUE /\ fns' = <<>>
    /\ next' = 0 /\ stack' = <<>>
    /\ UNCHANGED <<callbacks, sorted, asked, calls>>

\* The functions in the order of the names: of each, that of the last callback.
Compiled ==
    /\ ~Idle /\ stack = <<>> /\ next > Len(callbacks)
    /\ fns' = [i \in DOMAIN sorted |-> [name |-> sorted[i], id |-> callbacks[Index(sorted[i])].id]]
    /\ next' = 0
    /\ UNCHANGED <<callbacks, failed, sorted, stack, asked, calls>>

------------------------------------------------------------------------------
Sort == NextCallback \/ SortBefore \/ SortAfter \/ SortOtherFirst \/ Conflict \/ Compiled

CNext ==
    \/ \E c \in Calls : Register(c) \/ Replace(c) \/ Unregister(c)
    \/ Sort

CSpec == CInit /\ [][CNext]_registry

------------------------------------------------------------------------------
(***************************************************************************)
(* Properties.                                                             *)
(***************************************************************************)

\* Unless a call has failed, Execute runs each registered callback once, with
\* the handler registered last (Register, Replace).
LatestRunsOnce ==
    Idle /\ ~failed =>
        /\ ToSet(fns) = {[name |-> n, id |-> asked[n].id] : n \in Registered}
        /\ Len(fns) = Cardinality(Registered)

IsBefore(c, d) ==
    \/ c.before = d.name \/ d.after = c.name
    \/ c.before = Star /\ d.before # Star
    \/ d.after = Star /\ c.after # Star
    \/ /\ c.how = "default" /\ d.how = "default"
       /\ \E i, j \in DOMAIN Defaults : i < j /\ Defaults[i] = c.name /\ Defaults[j] = d.name

\* The pairs of which one must run before the other: as Before and After have
\* it, and GORM's own as they were registered.
Wishes == {p \in Registered \X Registered : IsBefore(asked[p[1]], asked[p[2]])}

\* There is an order that has them all.
Possible ==
    \A S \in SUBSET Registered :
        S # {} => \E n \in S : \A m \in S : <<m, n>> \notin Wishes

Position(name) == CHOOSE i \in DOMAIN fns : fns[i].name = name

\* If there is an order that suits all, the callbacks have one (Before and
\* After of sortCallbacks), and no call fails.
OrderAsAsked ==
    Idle /\ Possible =>
        /\ ~failed
        /\ \A w \in Wishes : Position(w[1]) < Position(w[2])
==============================================================================
