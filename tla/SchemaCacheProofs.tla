-------------------------- MODULE SchemaCacheProofs --------------------------
(***************************************************************************)
(* Theorems about SchemaCache, for every set of goroutines, every graph of *)
(* models and every number of calls.                                       *)
(***************************************************************************)
EXTENDS SchemaCache, SequenceTheorems, TLAPS

------------------------------------------------------------------------------
(***************************************************************************)
(* The inductive invariant.                                                *)
(***************************************************************************)

\* The Schema of a type that has been parsed so far; `at` says how far.
Resolving == {"guess", "other", "back", "set"}

Progress(f, sch) ==
    /\ f.id \in DOMAIN sch
    /\ sch[f.id].key = f.key
    /\ ~sch[f.id].initialized
    /\ sch[f.id].err <=> f.at = "close"
    /\ Len(sch[f.id].relations) =< Len(Fields[f.key.type])
    /\ f.at = "call" \/ f.at \in Resolving => Len(sch[f.id].relations) + 1 =< Len(Fields[f.key.type])
    /\ f.at \in Resolving => f.field \in DOMAIN sch

\* Only the last call of a goroutine is not waiting for another of its own.
FrameInv ==
    \A p \in Procs : \A i \in DOMAIN stack[p] :
        /\ stack[p][i].at = "wait" => stack[p][i].id \in DOMAIN schemas
        /\ stack[p][i].at \in Own => Progress(stack[p][i], schemas)
        /\ stack[p][i].at = "call" <=> i # Depth(p)

\* A Schema is parsed by one call of one goroutine.
OwnerInv ==
    \A p, q \in Procs : \A i \in DOMAIN stack[p], j \in DOMAIN stack[q] :
        /\ stack[p][i].at \in Own
        /\ stack[q][j].at \in Own
        /\ stack[p][i].id = stack[q][j].id
        => p = q /\ i = j

\* A Schema that is initialized without an error has all its relations.
Complete(s, sch) == Len(sch[s].relations) = Len(Fields[sch[s].key.type])

SchemaInv ==
    \A s \in DOMAIN schemas : schemas[s].initialized /\ ~schemas[s].err => Complete(s, schemas)

CacheIds == \A k \in Key : cache[k] # 0 => cache[k] \in DOMAIN schemas

ResultInv ==
    \A p \in Procs : result[p] # 0 =>
        /\ result[p] \in DOMAIN schemas
        /\ schemas[result[p]].initialized /\ ~schemas[result[p]].err

IInv == TypeOK /\ FrameInv /\ OwnerInv /\ SchemaInv /\ CacheIds /\ ResultInv

USE FieldsAssumption, BoundsAssumption

------------------------------------------------------------------------------
(***************************************************************************)
(* What the steps do to the stack of a goroutine.                          *)
(***************************************************************************)

LEMMA TopTyped ==
    ASSUME TypeOK, NEW p \in Procs, Depth(p) > 0
    PROVE  /\ Depth(p) \in Nat /\ Depth(p) \in DOMAIN stack[p]
           /\ DOMAIN stack[p] = 1..Depth(p)
           /\ Top(p) \in Frame
  BY DEF TypeOK, Depth, Top

\* The calls of p are those before the nth and, if there is an nth, f.
NewTop(p, n, f) ==
    /\ stack' \in [Procs -> Seq(Frame)]
    /\ Len(stack'[p]) = n /\ DOMAIN stack'[p] = 1..n
    /\ n > 0 => stack'[p][n] = f
    /\ \A i \in 1..n : i # n => stack'[p][i] = stack[p][i]
    /\ \A q \in Procs : q # p => stack'[q] = stack[q]

\* A frame of which the point and at most one number changes.
LEMMA FrameFields ==
    ASSUME NEW f \in Frame, NEW at \in At, NEW s \in 0..MaxSchemas
    PROVE  /\ LET g == [f EXCEPT !.at = at]
              IN g \in Frame /\ g.at = at /\ g.key = f.key /\ g.id = f.id /\ g.field = f.field
           /\ LET g == [f EXCEPT !.at = at, !.id = s]
              IN g \in Frame /\ g.at = at /\ g.key = f.key /\ g.id = s /\ g.field = f.field
           /\ LET g == [f EXCEPT !.at = at, !.field = s]
              IN g \in Frame /\ g.at = at /\ g.key = f.key /\ g.id = f.id /\ g.field = s
  BY DEF Frame

LEMMA TopChanged ==
    ASSUME TypeOK, NEW p \in Procs, Depth(p) > 0, NEW f \in Frame,
           stack' = [stack EXCEPT ![p] = [@ EXCEPT ![Depth(p)] = f]]
    PROVE  NewTop(p, Depth(p), f)
  BY DEF TypeOK, Depth, NewTop

LEMMA GotoTop ==
    ASSUME TypeOK, NEW p \in Procs, Depth(p) > 0, NEW at \in At, Goto(p, at)
    PROVE  NewTop(p, Depth(p), [Top(p) EXCEPT !.at = at]) /\ [Top(p) EXCEPT !.at = at] \in Frame
  <1>1. [Top(p) EXCEPT !.at = at] \in Frame
    BY TopTyped DEF Frame
  <1>2. stack' = [stack EXCEPT ![p] = [@ EXCEPT ![Depth(p)] = [Top(p) EXCEPT !.at = at]]]
    BY TopTyped DEF Goto, TypeOK, Depth, Top
  <1> QED BY <1>1, <1>2, TopChanged

LEMMA AwaitTop ==
    ASSUME TypeOK, NEW p \in Procs, Depth(p) > 0, NEW s \in Ids, Await(p, s)
    PROVE  \E f \in Frame : /\ NewTop(p, Depth(p), f)
                            /\ f.at = "wait" /\ f.id = s /\ f.key = Top(p).key
  <1>1. PICK f \in Frame : /\ f = [Top(p) EXCEPT !.at = "wait", !.id = s]
                           /\ f.at = "wait" /\ f.id = s /\ f.key = Top(p).key
    <2>1. Top(p) \in Frame /\ "wait" \in At /\ s \in 0..MaxSchemas
      BY TopTyped DEF At, Ids
    <2> DEFINE f == [Top(p) EXCEPT !.at = "wait", !.id = s]
    <2>2. f \in Frame /\ f.at = "wait" /\ f.id = s /\ f.key = Top(p).key
      BY <2>1 DEF Frame
    <2> QED BY <2>2
  <1>2. stack' = [stack EXCEPT ![p] = [@ EXCEPT ![Depth(p)] = f]]
    BY <1>1, TopTyped DEF Await, TypeOK, Depth, Top
  <1> QED BY <1>1, <1>2, TopChanged

\* Return takes the last call away, and tells the one before it.
Told(f, s, ok) == IF ok THEN [f EXCEPT !.at = "guess", !.field = s] ELSE [f EXCEPT !.at = "fail"]

LEMMA ReturnTop ==
    ASSUME TypeOK, NEW p \in Procs, NEW n \in Nat, Depth(p) = n + 1,
           NEW s \in Ids, NEW ok \in BOOLEAN, Return(p, s, ok)
    PROVE  /\ NewTop(p, n, Told(stack[p][n], s, ok))
           /\ n > 0 => stack[p][n] \in Frame /\ Told(stack[p][n], s, ok) \in Frame
           /\ n > 0 => UNCHANGED result
           /\ n = 0 => result' = [result EXCEPT ![p] = IF ok THEN s ELSE 0]
  <1> DEFINE rest == SubSeq(stack[p], 1, n)
  <1>1. stack[p] \in Seq(Frame) /\ Len(stack[p]) = n + 1 /\ Depth(p) - 1 = n
    BY DEF TypeOK, Depth
  <1>2. \A i \in 1..n : stack[p][i] \in Frame
    BY <1>1
  <1>3. /\ rest \in Seq(Frame) /\ Len(rest) = n
        /\ \A i \in 1..n : rest[i] = stack[p][i]
    <2>1. n - 1 + 1 = n /\ (IF 1 <= n THEN n - 1 + 1 ELSE 0) = n
      OBVIOUS
    <2>2. /\ rest \in Seq(Frame) /\ Len(rest) = IF 1 <= n THEN n - 1 + 1 ELSE 0
          /\ \A i \in 1..(n - 1 + 1) : rest[i] = stack[p][1 + i - 1]
      BY <1>2, SubSeqProperties
    <2>3. \A i \in 1..n : 1 + i - 1 = i
      OBVIOUS
    <2> QED BY <2>1, <2>2, <2>3
  <1>4. IF n = 0
           THEN /\ stack' = [stack EXCEPT ![p] = rest]
                /\ result' = [result EXCEPT ![p] = IF ok THEN s ELSE 0]
           ELSE /\ stack' = [stack EXCEPT ![p] = [rest EXCEPT ![n] = Told(@, s, ok)]]
                /\ UNCHANGED result
    BY <1>1, Zenon DEF Return, Told
  <1>5. CASE n = 0
    <2> HIDE DEF rest
    <2>1. stack' = [stack EXCEPT ![p] = rest] /\ ~(n > 0) /\ \A i \in 1..n : FALSE
      BY <1>4, <1>5
    <2>2. NewTop(p, n, Told(stack[p][n], s, ok))
      BY <1>3, <2>1 DEF NewTop, TypeOK
    <2> QED BY <1>4, <1>5, <2>2
  <1>6. CASE n > 0
    <2>1. n \in 1..n
      BY <1>6
    <2>2. stack[p][n] \in Frame /\ rest[n] = stack[p][n]
      BY <1>2, <1>3, <2>1
    <2>3. Told(stack[p][n], s, ok) \in Frame
      <3>1. "guess" \in At /\ "fail" \in At /\ s \in 0..MaxSchemas
        BY DEF At, Own, Ids
      <3> QED BY <2>2, <3>1 DEF Frame, Told
    <2>4. stack' = [stack EXCEPT ![p] = [rest EXCEPT ![n] = Told(stack[p][n], s, ok)]]
      BY <1>4, <1>6, <2>2
    <2>5. NewTop(p, n, Told(stack[p][n], s, ok))
      <3> HIDE DEF rest
      <3> QED BY <1>3, <1>6, <2>1, <2>3, <2>4 DEF NewTop, TypeOK
    <2> QED BY <1>4, <1>6, <2>2, <2>3, <2>5
  <1> QED BY <1>5, <1>6

LEMMA ReturnTyped ==
    ASSUME TypeOK, NEW p \in Procs, Depth(p) > 0, NEW s \in Ids, NEW ok \in BOOLEAN,
           Return(p, s, ok)
    PROVE  /\ stack' \in [Procs -> Seq(Frame)]
           /\ result' = result \/ result' = [result EXCEPT ![p] = IF ok THEN s ELSE 0]
  <1>1. PICK n \in Nat : Depth(p) = n + 1
    <2>1. Depth(p) \in Nat
      BY TopTyped
    <2> QED BY <2>1
  <1>2. /\ NewTop(p, n, Told(stack[p][n], s, ok))
        /\ n > 0 => UNCHANGED result
        /\ n = 0 => result' = [result EXCEPT ![p] = IF ok THEN s ELSE 0]
    BY <1>1, ReturnTop
  <1>3. n = 0 \/ n > 0
    OBVIOUS
  <1> QED BY <1>2, <1>3 DEF NewTop

------------------------------------------------------------------------------
(***************************************************************************)
(* Steps that change what one call, that of p, is at, and no Schema but    *)
(* the one it owns.                                                        *)
(***************************************************************************)

\* What the invariants of the others look at in a Schema.
Kept(s) ==
    /\ s \in DOMAIN schemas'
    /\ schemas'[s].key = schemas[s].key
    /\ schemas'[s].initialized = schemas[s].initialized
    /\ schemas'[s].err = schemas[s].err
    /\ schemas'[s].relations = schemas[s].relations

LEMMA ProgressKept ==
    ASSUME NEW f, Progress(f, schemas), Kept(f.id), DOMAIN schemas \subseteq DOMAIN schemas'
    PROVE  Progress(f, schemas')
  BY DEF Progress, Kept, NextField

LEMMA FramesKept ==
    ASSUME IInv, NEW p \in Procs, NEW n \in Nat, n =< Depth(p), NEW f, NEW own,
           NewTop(p, n, f),
           DOMAIN schemas \subseteq DOMAIN schemas',
           \A s \in DOMAIN schemas : s # own => Kept(s),
           own \in DOMAIN schemas => Depth(p) > 0 /\ Top(p).at \in Own /\ Top(p).id = own,
           n > 0 => /\ f.at # "call"
                    /\ f.at = "wait" => f.id \in DOMAIN schemas'
                    /\ f.at \in Own => Progress(f, schemas')
                    /\ f.at \in Own => \/ f.id \notin DOMAIN schemas
                                       \/ stack[p][n].at \in Own /\ stack[p][n].id = f.id
    PROVE  FrameInv' /\ OwnerInv'
  <1>1. Depth(p) \in Nat /\ DOMAIN stack[p] = 1..Depth(p)
    BY DEF IInv, TypeOK, Depth
  <1>2. ASSUME NEW q \in Procs, NEW i \in DOMAIN stack'[q], ~(q = p /\ i = n)
        PROVE  /\ i \in DOMAIN stack[q] /\ stack'[q][i] = stack[q][i]
               /\ ~(q = p /\ i = Depth(p))
    BY <1>1, <1>2 DEF NewTop
  <1>3. ASSUME NEW q \in Procs, NEW i \in DOMAIN stack'[q], ~(q = p /\ i = n), stack[q][i].at \in Own
        PROVE  stack[q][i].id \in DOMAIN schemas /\ stack[q][i].id # own
    <2>1. i \in DOMAIN stack[q] /\ ~(q = p /\ i = Depth(p))
      BY <1>2, <1>3
    <2>2. stack[q][i].id \in DOMAIN schemas
      BY <2>1, <1>3 DEF IInv, FrameInv, Progress
    <2>3. stack[q][i].id # own
      <3> SUFFICES ASSUME stack[q][i].id = own PROVE FALSE
        OBVIOUS
      <3>1. Depth(p) \in DOMAIN stack[p] /\ stack[p][Depth(p)].at \in Own /\ stack[p][Depth(p)].id = own
        BY <1>1, <2>2 DEF Top
      <3> QED BY <2>1, <3>1, <1>3 DEF IInv, OwnerInv
    <2> QED BY <2>2, <2>3
  <1>4. FrameInv'
    <2> SUFFICES ASSUME NEW q \in Procs, NEW i \in DOMAIN stack'[q]
                 PROVE  /\ stack'[q][i].at = "wait" => stack'[q][i].id \in DOMAIN schemas'
                        /\ stack'[q][i].at \in Own => Progress(stack'[q][i], schemas')
                        /\ stack'[q][i].at = "call" <=> i # Len(stack'[q])
      BY DEF FrameInv, Depth
    <2>1. CASE q = p /\ i = n
      <3>1. n > 0 /\ stack'[q][i] = f /\ Len(stack'[q]) = n
        BY <2>1 DEF NewTop
      <3> QED BY <3>1, <2>1
    <2>2. CASE ~(q = p /\ i = n)
      <3>1. /\ i \in DOMAIN stack[q] /\ stack'[q][i] = stack[q][i] /\ ~(q = p /\ i = Depth(p))
        BY <1>2, <2>2
      <3>2. stack[q][i].at = "call" <=> i # Len(stack'[q])
        <4>1. stack[q][i].at = "call" <=> i # Len(stack[q])
          BY <3>1 DEF IInv, FrameInv, Depth
        <4> QED BY <4>1, <3>1, <2>2 DEF NewTop, Depth
      <3>3. stack[q][i].at \in Own => Progress(stack[q][i], schemas')
        <4> SUFFICES ASSUME stack[q][i].at \in Own PROVE Progress(stack[q][i], schemas')
          OBVIOUS
        <4>1. Progress(stack[q][i], schemas)
          BY <3>1 DEF IInv, FrameInv
        <4>2. Kept(stack[q][i].id)
          BY <1>3, <2>2
        <4> QED BY <4>1, <4>2, ProgressKept
      <3>4. stack[q][i].at = "wait" => stack[q][i].id \in DOMAIN schemas'
        BY <3>1 DEF IInv, FrameInv
      <3> QED BY <3>1, <3>2, <3>3, <3>4
    <2> QED BY <2>1, <2>2
  <1>5. OwnerInv'
    <2> SUFFICES ASSUME NEW q \in Procs, NEW r \in Procs,
                        NEW i \in DOMAIN stack'[q], NEW j \in DOMAIN stack'[r],
                        stack'[q][i].at \in Own, stack'[r][j].at \in Own,
                        stack'[q][i].id = stack'[r][j].id
                 PROVE  q = r /\ i = j
      BY DEF OwnerInv
    <2>1. ASSUME NEW t \in Procs, NEW k \in DOMAIN stack'[t], ~(t = p /\ k = n), stack'[t][k].at \in Own
          PROVE  /\ k \in DOMAIN stack[t] /\ stack[t][k] = stack'[t][k]
                 /\ stack[t][k].id \in DOMAIN schemas
      BY <1>2, <1>3, <2>1
    <2>2. ASSUME NEW t \in Procs, NEW k \in DOMAIN stack'[t], ~(t = p /\ k = n), stack'[t][k].at \in Own,
                 n \in DOMAIN stack'[p], f.at \in Own, f.id = stack'[t][k].id
          PROVE  FALSE
      <3>1. n > 0 /\ n \in DOMAIN stack[p]
        BY <1>1, <2>2 DEF NewTop
      <3>2. stack[p][n].at \in Own /\ stack[p][n].id = f.id
        BY <3>1, <2>1, <2>2
      <3> QED BY <3>1, <3>2, <2>1, <2>2 DEF IInv, OwnerInv
    <2>3. n \in DOMAIN stack'[p] => stack'[p][n] = f
      BY DEF NewTop
    <2>4. CASE ~(q = p /\ i = n) /\ ~(r = p /\ j = n)
      BY <2>1, <2>4 DEF IInv, OwnerInv
    <2>5. CASE (q = p /\ i = n) /\ ~(r = p /\ j = n)
      BY <2>2, <2>3, <2>5
    <2>6. CASE ~(q = p /\ i = n) /\ (r = p /\ j = n)
      BY <2>2, <2>3, <2>6
    <2> QED BY <2>4, <2>5, <2>6
  <1> QED BY <1>4, <1>5

\* A call that has not stored a Schema goes on, or waits for one.
LEMMA FramesWaiting ==
    ASSUME IInv, NEW p \in Procs, Depth(p) > 0, UNCHANGED schemas,
           NEW f, NewTop(p, Depth(p), f), f.at \in {"store", "wait"},
           f.at = "wait" => f.id \in DOMAIN schemas
    PROVE  FrameInv' /\ OwnerInv'
  <1>1. Depth(p) \in Nat /\ Depth(p) =< Depth(p) /\ 0 \notin DOMAIN schemas
    BY TopTyped DEF IInv, TypeOK
  <1>2. /\ DOMAIN schemas \subseteq DOMAIN schemas'
        /\ \A s \in DOMAIN schemas : s # 0 => Kept(s)
    BY DEF Kept
  <1>3. f.at # "call" /\ f.at \notin Own /\ (f.at = "wait" => f.id \in DOMAIN schemas')
    BY DEF Own
  <1> QED BY <1>1, <1>2, <1>3, FramesKept

\* A call leads to another: p's last call becomes a "call", and k is called.
Pushed(p, k) ==
    LET n == Depth(p)
    IN /\ stack' \in [Procs -> Seq(Frame)]
       /\ Len(stack'[p]) = n + 1 /\ DOMAIN stack'[p] = 1..(n + 1)
       /\ stack'[p][n + 1] = Call(k)
       /\ n > 0 => stack'[p][n] = [Top(p) EXCEPT !.at = "call"]
       /\ \A i \in 1..n : i # n => stack'[p][i] = stack[p][i]
       /\ \A q \in Procs : q # p => stack'[q] = stack[q]

LEMMA PushedKept ==
    ASSUME IInv, NEW p \in Procs, NEW k \in Key, Pushed(p, k), UNCHANGED schemas,
           Depth(p) > 0 => /\ Top(p).at = "relation"
                           /\ NextField(Top(p).id) =< Len(Fields[Top(p).key.type])
    PROVE  FrameInv' /\ OwnerInv'
  <1> DEFINE n == Depth(p)
  <1>1. n \in Nat /\ DOMAIN stack[p] = 1..n
    BY DEF IInv, TypeOK, Depth
  <1>2. ASSUME NEW q \in Procs, NEW i \in DOMAIN stack'[q], ~(q = p /\ i \in {n, n + 1})
        PROVE  i \in DOMAIN stack[q] /\ stack'[q][i] = stack[q][i]
    BY <1>1, <1>2 DEF Pushed
  <1>3. n > 0 => /\ n \in DOMAIN stack[p] /\ stack[p][n].at = "relation"
                 /\ stack[p][n] \in Frame
                 /\ stack'[p][n] = [stack[p][n] EXCEPT !.at = "call"]
    BY <1>1, TopTyped DEF IInv, Pushed, Top
  <1>4. FrameInv'
    <2> SUFFICES ASSUME NEW q \in Procs, NEW i \in DOMAIN stack'[q]
                 PROVE  /\ stack'[q][i].at = "wait" => stack'[q][i].id \in DOMAIN schemas'
                        /\ stack'[q][i].at \in Own => Progress(stack'[q][i], schemas')
                        /\ stack'[q][i].at = "call" <=> i # Len(stack'[q])
      BY DEF FrameInv, Depth
    <2>1. CASE q = p /\ i = n + 1
      BY <1>1, <2>1 DEF Pushed, Call, Own
    <2>2. CASE q = p /\ i = n
      <3>1. n > 0
        BY <1>1, <2>2 DEF Pushed
      <3>2. Progress(stack[p][n], schemas)
        BY <1>3, <3>1 DEF IInv, FrameInv, Own
      <3>3. NextField(stack[p][n].id) =< Len(Fields[stack[p][n].key.type])
        BY <3>1 DEF Top
      <3>4. Progress(stack'[p][n], schemas')
        BY <1>3, <3>1, <3>2, <3>3 DEF Progress, Resolving, Frame, NextField
      <3> QED BY <1>1, <1>3, <2>2, <3>1, <3>4 DEF Pushed, Frame
    <2>3. CASE ~(q = p /\ i \in {n, n + 1})
      <3>1. i \in DOMAIN stack[q] /\ stack'[q][i] = stack[q][i]
        BY <1>2, <2>3
      <3>2. /\ stack[q][i].at = "wait" => stack[q][i].id \in DOMAIN schemas
            /\ stack[q][i].at \in Own => Progress(stack[q][i], schemas)
            /\ stack[q][i].at = "call" <=> i # Len(stack[q])
        BY <3>1 DEF IInv, FrameInv, Depth
      <3>3. i # Len(stack[q]) <=> i # Len(stack'[q])
        BY <1>1, <2>3, <3>1 DEF Pushed, Depth
      <3>4. Progress(stack[q][i], schemas) => Progress(stack[q][i], schemas')
        BY DEF Progress, NextField
      <3> QED BY <3>1, <3>2, <3>3, <3>4
    <2> QED BY <2>1, <2>2, <2>3
  <1>5. OwnerInv'
    <2>1. ASSUME NEW q \in Procs, NEW i \in DOMAIN stack'[q], stack'[q][i].at \in Own
          PROVE  /\ i \in DOMAIN stack[q] /\ stack[q][i].at \in Own
                 /\ stack[q][i].id = stack'[q][i].id
      <3>1. CASE q = p /\ i = n + 1
        BY <3>1, <2>1 DEF Pushed, Call, Own
      <3>2. CASE q = p /\ i = n
        <4>1. n > 0
          BY <1>1, <3>2 DEF Pushed
        <4> QED BY <1>3, <3>2, <4>1 DEF Own, Frame
      <3>3. CASE ~(q = p /\ i \in {n, n + 1})
        BY <1>2, <2>1, <3>3
      <3> QED BY <3>1, <3>2, <3>3
    <2> QED BY <2>1 DEF IInv, OwnerInv
  <1> QED BY <1>4, <1>5

\* A return, of a Schema s that is there: the caller has made the call.
LEMMA ReturnKept ==
    ASSUME IInv, NEW p \in Procs, Depth(p) > 0, NEW s \in DOMAIN schemas, NEW ok \in BOOLEAN,
           Return(p, s, ok), NEW own,
           DOMAIN schemas \subseteq DOMAIN schemas',
           \A t \in DOMAIN schemas : t # own => Kept(t),
           own \in DOMAIN schemas => Top(p).at \in Own /\ Top(p).id = own
    PROVE  FrameInv' /\ OwnerInv'
  <1>0. PICK n \in Nat : Depth(p) = n + 1
    <2>1. Depth(p) \in Nat
      BY TopTyped DEF IInv
    <2> QED BY <2>1
  <1> DEFINE f == Told(stack[p][n], s, ok)
  <1>1. s \in Ids
    BY DEF IInv, TypeOK, Ids
  <1>2. /\ NewTop(p, n, f)
        /\ n > 0 => stack[p][n] \in Frame /\ f \in Frame
    BY <1>0, <1>1, ReturnTop DEF IInv
  <1>3. n \in Nat /\ n =< Depth(p) /\ n # Depth(p) /\ Depth(p) \in DOMAIN stack[p]
    BY <1>0, TopTyped DEF IInv
  <1>4. ASSUME n > 0
        PROVE  /\ n \in DOMAIN stack[p] /\ stack[p][n].at = "call"
               /\ f.at \in {"guess", "fail"} /\ f.id = stack[p][n].id
               /\ Progress(f, schemas')
    <2>1. n \in DOMAIN stack[p]
      BY <1>3, <1>4, TopTyped DEF IInv
    <2>2. stack[p][n].at = "call"
      BY <2>1, <1>3 DEF IInv, FrameInv
    <2>3. Progress(stack[p][n], schemas)
      BY <2>1, <2>2 DEF IInv, FrameInv, Own
    <2>4. stack[p][n].id # own
      <3> SUFFICES ASSUME stack[p][n].id = own PROVE FALSE
        OBVIOUS
      <3>1. stack[p][Depth(p)].at \in Own /\ stack[p][Depth(p)].id = own
        BY <2>3 DEF Progress, Top
      <3> QED BY <2>1, <2>2, <3>1, <1>3 DEF IInv, OwnerInv, Own
    <2>5. /\ f.at \in {"guess", "fail"} /\ f.id = stack[p][n].id /\ f.key = stack[p][n].key
          /\ f.at = "guess" => f.field = s
      BY <1>2, <1>4 DEF Told, Frame
    <2>6. Kept(f.id)
      BY <2>3, <2>4, <2>5 DEF Progress
    <2>7. Progress(f, schemas)
      BY <2>2, <2>3, <2>5 DEF Progress, Resolving
    <2>8. Progress(f, schemas')
      BY <2>6, <2>7, ProgressKept
    <2> QED BY <2>1, <2>2, <2>5, <2>8
  <1>5. n > 0 => /\ f.at # "call"
                 /\ f.at = "wait" => f.id \in DOMAIN schemas'
                 /\ f.at \in Own => Progress(f, schemas')
                 /\ f.at \in Own => \/ f.id \notin DOMAIN schemas
                                    \/ stack[p][n].at \in Own /\ stack[p][n].id = f.id
    BY <1>4 DEF Own
  <1> HIDE DEF f
  <1> QED BY <1>2, <1>3, <1>5, FramesKept

\* Steps that leave the Schemas alone.
LEMMA SchemasUnchanged ==
    ASSUME IInv, UNCHANGED schemas
    PROVE  /\ SchemaInv'
           /\ UNCHANGED cache => CacheIds'
           /\ UNCHANGED result => ResultInv'
           /\ \A own : \A s \in DOMAIN schemas : s # own => Kept(s)
  BY DEF IInv, SchemaInv, Complete, CacheIds, ResultInv, Kept

\* Steps that change no Schema but own, which is not initialized.
LEMMA OthersUnchanged ==
    ASSUME IInv, NEW own, DOMAIN schemas \subseteq DOMAIN schemas',
           \A s \in DOMAIN schemas : s # own => Kept(s),
           own \in DOMAIN schemas => ~schemas[own].initialized
    PROVE  /\ UNCHANGED result => ResultInv'
           /\ \A s \in DOMAIN schemas :
                 s # own /\ schemas'[s].initialized /\ ~schemas'[s].err => Complete(s, schemas')
  BY DEF IInv, SchemaInv, Complete, ResultInv, Kept

------------------------------------------------------------------------------
(***************************************************************************)
(* The steps, one by one.                                                  *)
(***************************************************************************)

LEMMA ParseStep ==
    ASSUME IInv, NEW p \in Procs, NEW k \in Key, Parse(p, k)
    PROVE  IInv'
  <1>1. Call(k) \in Frame
    BY DEF Call, Frame, At
  <1>2. Pushed(p, k)
    BY <1>1 DEF IInv, TypeOK, Parse, Depth, Pushed
  <1>3. FrameInv' /\ OwnerInv'
    BY <1>2, PushedKept DEF Parse
  <1>4. TypeOK'
    BY <1>2 DEF IInv, TypeOK, Parse, Pushed
  <1> QED BY <1>3, <1>4, SchemasUnchanged DEF IInv, Parse

LEMMA LoadStep ==
    ASSUME IInv, NEW p \in Procs, Load(p)
    PROVE  IInv'
  <1> DEFINE k == Top(p).key
  <1>1. Depth(p) > 0 /\ Depth(p) \in Nat /\ k \in Key /\ TypeOK
    BY TopTyped DEF IInv, Load, In, Frame
  <1>2. PICK f : /\ NewTop(p, Depth(p), f) /\ f.at \in {"store", "wait"}
                 /\ f.at = "wait" => f.id \in DOMAIN schemas
    <2>1. CASE cache[k] = 0
      <3>1. Goto(p, "store") /\ "store" \in At
        BY <2>1 DEF Load, At
      <3>2. [Top(p) EXCEPT !.at = "store"].at = "store"
        BY <1>1, TopTyped DEF Frame
      <3> QED BY <1>1, <3>1, <3>2, GotoTop
    <2>2. CASE cache[k] # 0
      <3>1. Await(p, cache[k]) /\ cache[k] \in Ids /\ cache[k] \in DOMAIN schemas
        BY <1>1, <2>2 DEF Load, IInv, CacheIds, TypeOK, Ids
      <3> QED BY <1>1, <3>1, AwaitTop
    <2> QED BY <2>1, <2>2
  <1>3. UNCHANGED <<cache, schemas, locked, result, calls>>
    BY DEF Load
  <1>5. FrameInv' /\ OwnerInv'
    BY <1>1, <1>2, <1>3, FramesWaiting
  <1>6. TypeOK'
    BY <1>1, <1>2, <1>3 DEF TypeOK, NewTop
  <1> QED BY <1>3, <1>5, <1>6, SchemasUnchanged DEF IInv

LEMMA StoreStep ==
    ASSUME IInv, NEW p \in Procs, Store(p)
    PROVE  IInv'
  <1> DEFINE k == Top(p).key
             s == Len(schemas) + 1
  <1>1. /\ Depth(p) > 0 /\ Depth(p) \in Nat /\ k \in Key /\ TypeOK
        /\ 0 \notin DOMAIN schemas
        /\ UNCHANGED <<locked, result, calls>>
    <2>1. Depth(p) > 0 /\ TypeOK /\ UNCHANGED <<locked, result, calls>>
      BY DEF Store, In, IInv
    <2>2. Depth(p) \in Nat /\ k \in Key
      BY <2>1, TopTyped DEF Frame
    <2>3. 0 \notin DOMAIN schemas
      BY <2>1 DEF TypeOK
    <2> QED BY <2>1, <2>2, <2>3
  <1>2. CASE cache[k] # 0 /\ Await(p, cache[k]) /\ UNCHANGED <<cache, schemas>>
    <2>1. cache[k] \in Ids /\ cache[k] \in DOMAIN schemas
      BY <1>1, <1>2 DEF IInv, CacheIds, TypeOK, Ids
    <2>2. PICK f \in Frame : NewTop(p, Depth(p), f) /\ f.at = "wait" /\ f.id = cache[k]
      BY <1>1, <1>2, <2>1, AwaitTop
    <2>3. FrameInv' /\ OwnerInv'
      BY <1>1, <1>2, <2>1, <2>2, FramesWaiting
    <2>4. TypeOK'
      BY <1>1, <1>2, <2>2 DEF TypeOK, NewTop
    <2> QED BY <1>1, <1>2, <2>3, <2>4, SchemasUnchanged DEF IInv
  <1>3. CASE /\ cache[k] = 0 /\ Len(schemas) < MaxSchemas
             /\ cache' = [cache EXCEPT ![k] = s]
             /\ schemas' = Append(schemas, [key |-> k, initialized |-> FALSE, err |-> FALSE,
                                            relations |-> <<>>, back |-> {}])
             /\ stack' = [stack EXCEPT ![p][Depth(p)].at = "relation", ![p][Depth(p)].id = s]
    <2> DEFINE new == [key |-> k, initialized |-> FALSE, err |-> FALSE,
                       relations |-> <<>>, back |-> {}]
               f == [Top(p) EXCEPT !.at = "relation", !.id = s]
    <2>1. new \in Schema /\ s \in Ids
      BY <1>1, <1>3 DEF Schema, TypeOK, Ids
    <2>2. f \in Frame /\ f.at = "relation" /\ f.id = s /\ f.key = k
      <3>1. Top(p) \in Frame /\ "relation" \in At /\ s \in 0..MaxSchemas
        BY <1>1, <2>1, TopTyped DEF At, Own, Ids
      <3> HIDE DEF s
      <3> QED BY <3>1 DEF Frame
    <2>3. stack' = [stack EXCEPT ![p] = [@ EXCEPT ![Depth(p)] = f]]
      BY <1>1, <1>3, TopTyped DEF TypeOK, Depth, Top
    <2>4. NewTop(p, Depth(p), f)
      BY <1>1, <2>2, <2>3, TopChanged
    <2>5. /\ schemas' \in Seq(Schema) /\ Len(schemas') = s /\ DOMAIN schemas' = 1..s
          /\ s \in DOMAIN schemas' /\ schemas'[s] = new
          /\ s \notin DOMAIN schemas /\ DOMAIN schemas \subseteq DOMAIN schemas'
          /\ \A t \in DOMAIN schemas : schemas'[t] = schemas[t]
      BY <1>1, <1>3, <2>1 DEF TypeOK
    <2>6. \A t \in DOMAIN schemas : Kept(t)
      BY <2>5 DEF Kept
    <2>7. Progress(f, schemas')
      <3>1. Len(Fields[k.type]) \in Nat
        BY <1>1 DEF Key
      <3> QED BY <2>2, <2>5, <3>1 DEF Progress, Resolving
    <2>8. FrameInv' /\ OwnerInv'
      <3> HIDE DEF f
      <3> QED BY <1>1, <2>2, <2>4, <2>5, <2>6, <2>7, FramesKept DEF Own
    <2>9. TypeOK'
      BY <1>1, <1>3, <2>1, <2>4, <2>5 DEF TypeOK, NewTop, Ids
    <2>10. SchemaInv'
      <3>1. \A t \in DOMAIN schemas :
               t # 0 /\ schemas'[t].initialized /\ ~schemas'[t].err => Complete(t, schemas')
        BY <1>1, <2>5, <2>6, OthersUnchanged
      <3>2. \A t \in DOMAIN schemas' : t \in DOMAIN schemas \/ t = s
        BY <1>1, <2>5 DEF TypeOK
      <3>3. ~schemas'[s].initialized
        BY <2>5
      <3> QED BY <1>1, <3>1, <3>2, <3>3 DEF SchemaInv
    <2>11. CacheIds'
      BY <1>1, <1>3, <2>5 DEF IInv, CacheIds, TypeOK
    <2>12. ResultInv'
      BY <2>5, OthersUnchanged, <2>6, <1>1
    <2> QED BY <2>8, <2>9, <2>10, <2>11, <2>12 DEF IInv
  <1> QED BY <1>2, <1>3 DEF Store

LEMMA WaitStep ==
    ASSUME IInv, NEW p \in Procs, Wait(p)
    PROVE  IInv'
  <1> DEFINE s == Top(p).id
             ok == ~schemas[s].err
  <1>1. /\ Depth(p) > 0 /\ Depth(p) \in Nat /\ TypeOK /\ Top(p).at = "wait"
        /\ UNCHANGED <<cache, schemas, locked, calls>>
        /\ Return(p, s, ok)
    BY TopTyped DEF IInv, Wait, In
  <1>2. s \in DOMAIN schemas /\ s \in Ids /\ ok \in BOOLEAN /\ schemas[s].initialized
    <2>1. s \in DOMAIN schemas
      BY <1>1, TopTyped DEF IInv, FrameInv, Top
    <2> QED BY <1>1, <2>1 DEF TypeOK, Ids, Schema, Wait
  <1>3. FrameInv' /\ OwnerInv'
    <2>1. 0 \notin DOMAIN schemas
      BY <1>1 DEF TypeOK
    <2> HIDE DEF s, ok
    <2> QED BY <1>1, <1>2, <2>1, ReturnKept, SchemasUnchanged
  <1>4. /\ stack' \in [Procs -> Seq(Frame)]
        /\ result' = result \/ result' = [result EXCEPT ![p] = IF ok THEN s ELSE 0]
    BY <1>1, <1>2, ReturnTyped
  <1>5. TypeOK'
    <2>1. result' \in [Procs -> 0..MaxSchemas]
      <3>1. result \in [Procs -> 0..MaxSchemas] /\ (IF ok THEN s ELSE 0) \in 0..MaxSchemas
        BY <1>1, <1>2 DEF TypeOK, Ids
      <3> HIDE DEF s, ok
      <3> QED BY <1>4, <3>1
    <2> QED BY <1>1, <1>4, <2>1 DEF TypeOK
  <1>6. ResultInv'
    <2>1. \A q \in Procs : result'[q] # 0 => result'[q] = result[q] \/ (result'[q] = s /\ ok)
      BY <1>1, <1>4 DEF TypeOK
    <2> QED BY <1>1, <1>2, <2>1 DEF IInv, ResultInv
  <1> QED BY <1>1, <1>3, <1>5, <1>6, SchemasUnchanged DEF IInv

\* What is known of the own Schema of a call that is past Store.
LEMMA OwnSchema ==
    ASSUME IInv, NEW p \in Procs, Depth(p) > 0, Top(p).at \in Own
    PROVE  /\ Progress(Top(p), schemas) /\ TypeOK /\ Top(p).at # "call"
           /\ Depth(p) \in Nat /\ Depth(p) \in DOMAIN stack[p]
           /\ Top(p) \in Frame /\ Top(p).id \in Ids /\ Top(p).id # 0
           /\ ~schemas[Top(p).id].initialized
           /\ schemas[Top(p).id] \in Schema
           /\ Len(Fields[Top(p).key.type]) \in Nat
  <1>1. Depth(p) \in DOMAIN stack[p] /\ Top(p) \in Frame /\ TypeOK /\ Depth(p) \in Nat
    BY TopTyped DEF IInv
  <1>2. Progress(Top(p), schemas) /\ Top(p).at # "call"
    BY <1>1 DEF IInv, FrameInv, Top
  <1>3. Top(p).id \in DOMAIN schemas /\ ~schemas[Top(p).id].initialized
    BY <1>2 DEF Progress
  <1>4. Top(p).id \in Ids /\ Top(p).id # 0 /\ schemas[Top(p).id] \in Schema
    BY <1>1, <1>3 DEF TypeOK, Ids
  <1>5. Len(Fields[Top(p).key.type]) \in Nat
    BY <1>1 DEF Frame, Key
  <1> QED BY <1>1, <1>2, <1>3, <1>4, <1>5

\* A call goes on with its own Schema, the only one it changes, if any.
LEMMA MovedTo ==
    ASSUME IInv, NEW p \in Procs, Depth(p) > 0, Top(p).at \in Own,
           NEW f, NewTop(p, Depth(p), f), f.at \in Own \ {"call"}, f.id = Top(p).id,
           DOMAIN schemas \subseteq DOMAIN schemas',
           \A s \in DOMAIN schemas : s # Top(p).id => Kept(s),
           Progress(f, schemas')
    PROVE  FrameInv' /\ OwnerInv'
  <1> DEFINE own == Top(p).id
  <1>1. Depth(p) \in Nat /\ Depth(p) =< Depth(p) /\ stack[p][Depth(p)] = Top(p)
    BY TopTyped DEF IInv, Top
  <1>2. /\ f.at # "call" /\ f.at # "wait" /\ f.at \in Own
        /\ stack[p][Depth(p)].at \in Own /\ stack[p][Depth(p)].id = f.id
        /\ \A s \in DOMAIN schemas : s # own => Kept(s)
        /\ own \in DOMAIN schemas => Depth(p) > 0 /\ Top(p).at \in Own /\ Top(p).id = own
    BY <1>1 DEF Own
  <1> HIDE DEF own
  <1> QED BY <1>1, <1>2, FramesKept

\* getOrParse takes the Schema that is there, or has the type parsed.
LEMMA GetOrParseCases ==
    ASSUME IInv, NEW p \in Procs, GetOrParse(p)
    PROVE  LET k == Plain(Current(p).to)
           IN /\ k \in Key
              /\ \/ /\ cache[k] \in DOMAIN schemas
                    /\ \E f \in Frame : /\ NewTop(p, Depth(p), f)
                                        /\ f.at = "guess" /\ f.id = Top(p).id
                                        /\ f.key = Top(p).key /\ f.field = cache[k]
                 \/ Pushed(p, k)
  <1> DEFINE k == Plain(Current(p).to)
             g == [Top(p) EXCEPT !.at = "call"]
  <1>1. /\ Depth(p) > 0 /\ Top(p).at = "relation" /\ Top(p).at \in Own
        /\ NextField(Top(p).id) =< Len(Fields[Top(p).key.type])
    BY DEF GetOrParse, In, Own
  <1>2. /\ Progress(Top(p), schemas) /\ TypeOK /\ Depth(p) \in Nat /\ Top(p) \in Frame
    BY <1>1, OwnSchema DEF TypeOK
  <1>3. k \in Key
    <2>1. NextField(Top(p).id) \in DOMAIN Fields[Top(p).key.type] /\ Top(p).key.type \in Types
      BY SMTT(60), <1>1, <1>2 DEF NextField, Progress, TypeOK, Schema, Frame, Key
    <2>2. Current(p) \in Field
      BY <2>1 DEF Current
    <2> QED BY <2>2 DEF Plain, Key, Field
  <1>4. CASE cache[k] # 0
    <2>1. cache[k] \in DOMAIN schemas /\ cache[k] \in 0..MaxSchemas
      BY <1>2, <1>3, <1>4 DEF IInv, CacheIds, TypeOK
    <2>2. PICK f \in Frame : /\ f = [Top(p) EXCEPT !.at = "guess", !.field = cache[k]]
                             /\ f.at = "guess" /\ f.id = Top(p).id
                             /\ f.key = Top(p).key /\ f.field = cache[k]
      <3>1. "guess" \in At
        BY DEF At, Own
      <3> HIDE DEF k
      <3> DEFINE f == [Top(p) EXCEPT !.at = "guess", !.field = cache[k]]
      <3>2. /\ f \in Frame /\ f.at = "guess" /\ f.id = Top(p).id
            /\ f.key = Top(p).key /\ f.field = cache[k]
        BY <1>2, <2>1, <3>1 DEF Frame
      <3> QED BY <3>2
    <2>3. stack' = [stack EXCEPT ![p] = [@ EXCEPT ![Depth(p)] = f]]
      <3>1. stack' = [stack EXCEPT ![p][Depth(p)].at = "guess", ![p][Depth(p)].field = cache[k]]
        BY <1>4 DEF GetOrParse
      <3> QED BY <1>1, <1>2, <2>2, <3>1, TopTyped DEF TypeOK, Depth, Top
    <2>4. NewTop(p, Depth(p), f)
      BY <1>1, <1>2, <2>3, TopChanged
    <2> QED BY <1>3, <2>1, <2>2, <2>4
  <1>5. CASE cache[k] = 0
    <2>1. stack' = [stack EXCEPT ![p] = Append([@ EXCEPT ![Depth(p)].at = "call"], Call(k))]
      BY <1>5 DEF GetOrParse
    <2>2. Call(k) \in Frame /\ g \in Frame
      BY <1>2, <1>3 DEF Call, Frame, At, Own
    <2>3. stack' = [stack EXCEPT ![p] = Append([stack[p] EXCEPT ![Depth(p)] = g], Call(k))]
      BY <1>1, <1>2, <2>1, TopTyped DEF TypeOK, Depth, Top
    <2> DEFINE old == [stack[p] EXCEPT ![Depth(p)] = g]
    <2>4. /\ old \in Seq(Frame) /\ Len(old) = Depth(p) /\ old[Depth(p)] = g
          /\ \A i \in 1..Depth(p) : i # Depth(p) => old[i] = stack[p][i]
      BY <1>1, <1>2, <2>2 DEF TypeOK, Depth
    <2>5. Pushed(p, k)
      <3> HIDE DEF old
      <3>1. /\ Append(old, Call(k)) \in Seq(Frame) /\ Len(Append(old, Call(k))) = Depth(p) + 1
            /\ DOMAIN Append(old, Call(k)) = 1..(Depth(p) + 1)
            /\ Append(old, Call(k))[Depth(p) + 1] = Call(k)
            /\ \A i \in 1..Depth(p) : Append(old, Call(k))[i] = old[i]
        BY <1>2, <2>2, <2>4
      <3> QED BY <1>1, <1>2, <2>3, <2>4, <3>1 DEF TypeOK, Pushed, old
    <2> QED BY <1>3, <2>5
  <1> QED BY <1>4, <1>5

LEMMA GetOrParseStep ==
    ASSUME IInv, NEW p \in Procs, GetOrParse(p)
    PROVE  IInv'
  <1>1. /\ Depth(p) > 0 /\ Top(p).at = "relation" /\ Top(p).at \in Own
        /\ NextField(Top(p).id) =< Len(Fields[Top(p).key.type])
        /\ UNCHANGED <<cache, schemas, locked, result, calls>>
    BY DEF GetOrParse, In, Own
  <1>2. Progress(Top(p), schemas) /\ TypeOK
    BY <1>1, OwnSchema
  <1>3. PICK k \in Key : \/ /\ cache[k] \in DOMAIN schemas
                            /\ \E f \in Frame : /\ NewTop(p, Depth(p), f)
                                                /\ f.at = "guess" /\ f.id = Top(p).id
                                                /\ f.key = Top(p).key /\ f.field = cache[k]
                         \/ Pushed(p, k)
    BY GetOrParseCases
  <1>4. ASSUME cache[k] \in DOMAIN schemas,
               NEW f \in Frame, NewTop(p, Depth(p), f), f.at = "guess", f.id = Top(p).id,
               f.key = Top(p).key, f.field = cache[k]
        PROVE  IInv'
    <2>1. Progress(f, schemas')
      BY <1>1, <1>2, <1>4 DEF Progress, Resolving, NextField
    <2>2. FrameInv' /\ OwnerInv'
      <3>1. \A s \in DOMAIN schemas : s # Top(p).id => Kept(s)
        BY <1>1, SchemasUnchanged
      <3>2. f.at \in Own \ {"call"} /\ DOMAIN schemas \subseteq DOMAIN schemas'
        BY <1>1, <1>4 DEF Own
      <3> QED BY <1>1, <1>4, <2>1, <3>1, <3>2, MovedTo
    <2>3. TypeOK'
      BY <1>1, <1>2, <1>4 DEF TypeOK, NewTop
    <2> QED BY <1>1, <2>2, <2>3, SchemasUnchanged DEF IInv
  <1>5. CASE Pushed(p, k)
    <2>1. FrameInv' /\ OwnerInv'
      BY <1>1, <1>5, PushedKept
    <2>2. TypeOK'
      BY <1>1, <1>2, <1>5 DEF TypeOK, Pushed
    <2> QED BY <1>1, <2>1, <2>2, SchemasUnchanged DEF IInv
  <1> QED BY <1>3, <1>4, <1>5

\* A step of p that moves it on, and no Schema but its own, if that.
LEMMA MovedOn ==
    ASSUME IInv, NEW p \in Procs, Depth(p) > 0, Top(p).at \in Own,
           NEW at \in Own \ {"call"}, Goto(p, at),
           DOMAIN schemas \subseteq DOMAIN schemas',
           \A s \in DOMAIN schemas : s # Top(p).id => Kept(s),
           Progress([Top(p) EXCEPT !.at = at], schemas')
    PROVE  FrameInv' /\ OwnerInv' /\ stack' \in [Procs -> Seq(Frame)]
  <1> DEFINE f == [Top(p) EXCEPT !.at = at]
  <1>1. /\ NewTop(p, Depth(p), f) /\ f.at = at /\ f.id = Top(p).id
        /\ at \in Own /\ at # "call" /\ at # "wait"
    BY OwnSchema, GotoTop DEF At, Own, Frame
  <1>2. Progress(f, schemas') /\ Depth(p) \in Nat
    BY OwnSchema
  <1>3. FrameInv' /\ OwnerInv'
    <2> HIDE DEF f
    <2> QED BY <1>1, <1>2, MovedTo
  <1> QED BY <1>1, <1>3 DEF NewTop

LEMMA SchemaChanged ==
    ASSUME TypeOK, NEW s \in DOMAIN schemas, NEW c \in Schema,
           schemas' = [schemas EXCEPT ![s] = c]
    PROVE  /\ schemas' \in Seq(Schema) /\ DOMAIN schemas' = DOMAIN schemas
           /\ Len(schemas') = Len(schemas)
           /\ schemas'[s] = c
           /\ \A u \in DOMAIN schemas : u # s => Kept(u)
  BY DEF TypeOK, Kept

LEMMA GuessStep ==
    ASSUME IInv, NEW p \in Procs, Guess(p)
    PROVE  IInv'
  <1>1. /\ Depth(p) > 0 /\ Top(p).at = "guess" /\ Top(p).at \in Own
        /\ UNCHANGED <<cache, schemas, result, calls>>
    BY DEF Guess, In, Own
  <1>2. Progress(Top(p), schemas) /\ TypeOK /\ Top(p) \in Frame
    BY <1>1, OwnSchema
  <1>3. PICK at \in {"fail", "set", "other"} :
           Goto(p, at) /\ (locked' = locked \/ locked' = locked \cup {Top(p).id})
    BY DEF Guess
  <1>4. Progress([Top(p) EXCEPT !.at = at], schemas')
    BY <1>1, <1>2, <1>3 DEF Progress, Resolving, NextField, Frame
  <1>5. FrameInv' /\ OwnerInv' /\ stack' \in [Procs -> Seq(Frame)]
    <2>1. at \in Own \ {"call"}
      BY <1>3 DEF Own
    <2> QED BY <1>1, <1>3, <1>4, <2>1, MovedOn, SchemasUnchanged
  <1>6. TypeOK'
    BY <1>1, <1>2, <1>3, <1>5 DEF TypeOK, Progress
  <1> QED BY <1>1, <1>5, <1>6, SchemasUnchanged DEF IInv

LEMMA OtherStep ==
    ASSUME IInv, NEW p \in Procs, Other(p)
    PROVE  IInv'
  <1>1. /\ Depth(p) > 0 /\ Top(p).at = "other" /\ Top(p).at \in Own
        /\ Goto(p, "back") /\ locked' = locked \ {Top(p).id}
        /\ UNCHANGED <<cache, schemas, result, calls>>
    BY DEF Other, In, Own
  <1>2. Progress(Top(p), schemas) /\ TypeOK /\ Top(p) \in Frame
    BY <1>1, OwnSchema
  <1>3. Progress([Top(p) EXCEPT !.at = "back"], schemas')
    BY <1>1, <1>2 DEF Progress, Resolving, NextField, Frame
  <1>4. FrameInv' /\ OwnerInv' /\ stack' \in [Procs -> Seq(Frame)]
    <2>1. "back" \in Own \ {"call"}
      BY DEF Own
    <2> QED BY <1>1, <1>3, <2>1, MovedOn, SchemasUnchanged
  <1>5. TypeOK'
    BY <1>1, <1>2, <1>4 DEF TypeOK
  <1> QED BY <1>1, <1>4, <1>5, SchemasUnchanged DEF IInv

LEMMA BackStep ==
    ASSUME IInv, NEW p \in Procs, Back(p)
    PROVE  IInv'
  <1> DEFINE s == Top(p).id
             t == Top(p).field
  <1>1. /\ Depth(p) > 0 /\ Top(p).at = "back" /\ Top(p).at \in Own
        /\ Goto(p, "set") /\ schemas' = [schemas EXCEPT ![t].back = @ \cup {s}]
        /\ UNCHANGED <<cache, locked, result, calls>>
    BY DEF Back, In, Own
  <1>2. Progress(Top(p), schemas) /\ TypeOK /\ Top(p) \in Frame /\ s \in Ids /\ t \in DOMAIN schemas
    BY <1>1, OwnSchema DEF Progress, Resolving
  <1>3. /\ schemas' \in Seq(Schema) /\ DOMAIN schemas' = DOMAIN schemas
        /\ Len(schemas') = Len(schemas)
        /\ \A u \in DOMAIN schemas : Kept(u)
    <2> DEFINE c == [schemas[t] EXCEPT !.back = @ \cup {s}]
    <2>1. schemas[t] \in Schema
      BY <1>2 DEF TypeOK
    <2>2. /\ c \in Schema /\ c.key = schemas[t].key /\ c.initialized = schemas[t].initialized
          /\ c.err = schemas[t].err /\ c.relations = schemas[t].relations
      BY <1>2, <2>1 DEF Schema
    <2>3. schemas' = [schemas EXCEPT ![t] = c]
      BY <1>1, <1>2
    <2>4. /\ schemas' \in Seq(Schema) /\ DOMAIN schemas' = DOMAIN schemas
          /\ Len(schemas') = Len(schemas)
          /\ schemas'[t] = c
          /\ \A u \in DOMAIN schemas : u # t => Kept(u)
      <3> HIDE DEF c
      <3> QED BY <1>2, <2>2, <2>3, SchemaChanged
    <2> QED BY <1>2, <2>2, <2>4 DEF Kept
  <1>4. Progress([Top(p) EXCEPT !.at = "set"], schemas')
    <2>1. Progress([Top(p) EXCEPT !.at = "set"], schemas)
      BY <1>1, <1>2 DEF Progress, Resolving, Frame
    <2>2. [Top(p) EXCEPT !.at = "set"].id = s
      BY <1>2 DEF Frame
    <2>3. Kept([Top(p) EXCEPT !.at = "set"].id)
      BY <1>2, <1>3, <2>2 DEF Progress
    <2> QED BY <1>3, <2>1, <2>3, ProgressKept
  <1>5. FrameInv' /\ OwnerInv' /\ stack' \in [Procs -> Seq(Frame)]
    <2>1. "set" \in Own \ {"call"}
      BY DEF Own
    <2> QED BY <1>1, <1>3, <1>4, <2>1, MovedOn
  <1>6. TypeOK'
    BY <1>1, <1>2, <1>3, <1>5 DEF TypeOK
  <1>7. SchemaInv' /\ CacheIds' /\ ResultInv'
    <2>1. 0 \notin DOMAIN schemas
      BY <1>2 DEF TypeOK
    <2>2. SchemaInv'
      BY <1>3, <2>1, OthersUnchanged DEF SchemaInv
    <2>3. ResultInv'
      BY <1>1, <1>3, <2>1, OthersUnchanged
    <2> QED BY <1>1, <1>3, <2>2, <2>3 DEF IInv, CacheIds
  <1> QED BY <1>5, <1>6, <1>7 DEF IInv

LEMMA SetStep ==
    ASSUME IInv, NEW p \in Procs, Set(p)
    PROVE  IInv'
  <1> DEFINE s == Top(p).id
  <1>1. /\ Depth(p) > 0 /\ Top(p).at = "set" /\ Top(p).at \in Own
        /\ Goto(p, "relation")
        /\ schemas' = [schemas EXCEPT ![s].relations = Append(@, Top(p).field)]
        /\ UNCHANGED <<cache, locked, result, calls>>
    BY DEF Set, In, Own
  <1>2. /\ Progress(Top(p), schemas) /\ TypeOK /\ Top(p) \in Frame /\ s \in DOMAIN schemas
        /\ ~schemas[s].initialized /\ schemas[s] \in Schema
        /\ Top(p).field \in Ids
    <2>1. Progress(Top(p), schemas) /\ TypeOK /\ Top(p) \in Frame /\ ~schemas[s].initialized
          /\ schemas[s] \in Schema
      BY <1>1, OwnSchema
    <2> QED BY SMTT(60), <1>1, <2>1 DEF Progress, Resolving, TypeOK, Ids
  <1>3. /\ schemas' \in Seq(Schema) /\ DOMAIN schemas' = DOMAIN schemas
        /\ Len(schemas') = Len(schemas)
        /\ \A u \in DOMAIN schemas : u # s => Kept(u)
        /\ schemas'[s] = [schemas[s] EXCEPT !.relations = Append(@, Top(p).field)]
    <2>1. [schemas[s] EXCEPT !.relations = Append(@, Top(p).field)] \in Schema
      <3>1. schemas[s].relations \in Seq(Ids)
        BY <1>2 DEF Schema
      <3>2. Append(schemas[s].relations, Top(p).field) \in Seq(Ids)
        BY <1>2, <3>1
      <3> QED BY <1>2, <3>2 DEF Schema
    <2>2. schemas' = [schemas EXCEPT ![s] = [schemas[s] EXCEPT !.relations = Append(@, Top(p).field)]]
      BY <1>1, <1>2 DEF TypeOK
    <2> QED BY <1>2, <2>1, <2>2 DEF TypeOK, Kept
  <1>4. /\ schemas'[s].key = schemas[s].key /\ ~schemas'[s].initialized
        /\ schemas'[s].err = schemas[s].err
        /\ Len(schemas'[s].relations) = Len(schemas[s].relations) + 1
    BY <1>2, <1>3 DEF Schema
  <1>5. Progress([Top(p) EXCEPT !.at = "relation"], schemas')
    <2>1. Len(schemas[s].relations) + 1 =< Len(Fields[Top(p).key.type])
      BY <1>1, <1>2 DEF Progress, Resolving
    <2> QED BY <1>1, <1>2, <1>3, <1>4, <2>1 DEF Progress, Resolving, NextField, Frame
  <1>6. FrameInv' /\ OwnerInv' /\ stack' \in [Procs -> Seq(Frame)]
    <2>1. "relation" \in Own \ {"call"}
      BY DEF Own
    <2> QED BY <1>1, <1>3, <1>5, <2>1, MovedOn
  <1>7. TypeOK'
    BY <1>1, <1>2, <1>3, <1>6 DEF TypeOK
  <1>8. SchemaInv' /\ CacheIds' /\ ResultInv'
    <2>1. SchemaInv'
      BY <1>2, <1>3, <1>4, OthersUnchanged DEF SchemaInv
    <2>2. ResultInv'
      BY <1>1, <1>2, <1>3, OthersUnchanged
    <2> QED BY <1>1, <1>3, <2>1, <2>2 DEF IInv, CacheIds
  <1> QED BY <1>6, <1>7, <1>8 DEF IInv

LEMMA FailStep ==
    ASSUME IInv, NEW p \in Procs, Fail(p)
    PROVE  IInv'
  <1> DEFINE s == Top(p).id
             k == Plain(Top(p).key.type)
  <1>1. /\ Depth(p) > 0 /\ Top(p).at = "fail" /\ Top(p).at \in Own
        /\ Goto(p, "close")
        /\ schemas' = [schemas EXCEPT ![s].err = TRUE]
        /\ cache' = [cache EXCEPT ![k] = 0]
        /\ UNCHANGED <<locked, result, calls>>
    BY DEF Fail, In, Own
  <1>2. /\ Progress(Top(p), schemas) /\ TypeOK /\ Top(p) \in Frame /\ s \in DOMAIN schemas
        /\ ~schemas[s].initialized /\ schemas[s] \in Schema
    BY <1>1, OwnSchema DEF Progress
  <1>3. /\ schemas' \in Seq(Schema) /\ DOMAIN schemas' = DOMAIN schemas
        /\ Len(schemas') = Len(schemas)
        /\ \A u \in DOMAIN schemas : u # s => Kept(u)
        /\ schemas'[s] = [schemas[s] EXCEPT !.err = TRUE]
    <2>1. [schemas[s] EXCEPT !.err = TRUE] \in Schema
      BY <1>2 DEF Schema
    <2> QED BY <1>1, <1>2, <2>1 DEF TypeOK, Kept
  <1>4. /\ schemas'[s].key = schemas[s].key /\ ~schemas'[s].initialized
        /\ schemas'[s].err /\ schemas'[s].relations = schemas[s].relations
    BY <1>2, <1>3 DEF Schema
  <1>5. Progress([Top(p) EXCEPT !.at = "close"], schemas')
    BY <1>1, <1>2, <1>3, <1>4 DEF Progress, Resolving, NextField, Frame
  <1>6. FrameInv' /\ OwnerInv' /\ stack' \in [Procs -> Seq(Frame)]
    <2>1. "close" \in Own \ {"call"}
      BY DEF Own
    <2> QED BY <1>1, <1>3, <1>5, <2>1, MovedOn
  <1>7. TypeOK'
    <2>1. cache' \in [Key -> 0..MaxSchemas]
      <3>1. cache \in [Key -> 0..MaxSchemas] /\ 0 \in 0..MaxSchemas
        BY <1>2 DEF TypeOK
      <3> HIDE DEF k
      <3> QED BY <1>1, <3>1
    <2> QED BY <1>1, <1>2, <1>3, <1>6, <2>1 DEF TypeOK
  <1>8. SchemaInv' /\ ResultInv'
    <2>1. SchemaInv'
      BY <1>2, <1>3, <1>4, OthersUnchanged DEF SchemaInv
    <2>2. ResultInv'
      BY <1>1, <1>2, <1>3, OthersUnchanged
    <2> QED BY <2>1, <2>2
  <1>9. CacheIds'
    BY <1>1, <1>2, <1>3 DEF IInv, CacheIds, TypeOK
  <1> QED BY <1>6, <1>7, <1>8, <1>9 DEF IInv

LEMMA CloseStep ==
    ASSUME IInv, NEW p \in Procs, Close(p)
    PROVE  IInv'
  <1> DEFINE s == Top(p).id
             ok == ~schemas[s].err
  <1>1. /\ Depth(p) > 0 /\ Top(p).at \in {"close", "relation"} /\ Top(p).at \in Own
        /\ Top(p).at = "relation" => NextField(s) > Len(Fields[Top(p).key.type])
        /\ schemas' = [schemas EXCEPT ![s].initialized = TRUE]
        /\ Return(p, s, ok)
        /\ UNCHANGED <<cache, locked, calls>>
    BY DEF Close, In, Own
  <1>2. /\ Progress(Top(p), schemas) /\ TypeOK /\ Top(p) \in Frame
        /\ s \in DOMAIN schemas /\ s \in Ids /\ ok \in BOOLEAN
        /\ ~schemas[s].initialized /\ schemas[s] \in Schema
        /\ Len(Fields[Top(p).key.type]) \in Nat
    BY <1>1, OwnSchema DEF Progress, Schema
  <1>3. /\ schemas' \in Seq(Schema) /\ DOMAIN schemas' = DOMAIN schemas
        /\ Len(schemas') = Len(schemas)
        /\ \A u \in DOMAIN schemas : u # s => Kept(u)
        /\ schemas'[s] = [schemas[s] EXCEPT !.initialized = TRUE]
    <2>1. [schemas[s] EXCEPT !.initialized = TRUE] \in Schema
      BY <1>2 DEF Schema
    <2> QED BY <1>1, <1>2, <2>1 DEF TypeOK, Kept
  <1>4. /\ schemas'[s].key = schemas[s].key /\ schemas'[s].initialized
        /\ schemas'[s].err = schemas[s].err /\ schemas'[s].relations = schemas[s].relations
    BY <1>2, <1>3 DEF Schema
  <1>5. FrameInv' /\ OwnerInv'
    <2> HIDE DEF s, ok
    <2> QED BY <1>1, <1>2, <1>3, ReturnKept DEF s
  <1>6. /\ stack' \in [Procs -> Seq(Frame)]
        /\ result' = result \/ result' = [result EXCEPT ![p] = IF ok THEN s ELSE 0]
    BY <1>1, <1>2, ReturnTyped
  <1>7. TypeOK'
    BY <1>1, <1>2, <1>3, <1>6 DEF TypeOK, Ids
  <1>8. ~schemas[s].err => Complete(s, schemas)
    BY <1>1, <1>2 DEF Progress, Complete, NextField, Schema
  <1>9. SchemaInv'
    <2>1. \A u \in DOMAIN schemas :
             u # s /\ schemas'[u].initialized /\ ~schemas'[u].err => Complete(u, schemas')
      BY <1>2, <1>3, OthersUnchanged
    <2>2. ~schemas'[s].err => Complete(s, schemas')
      BY <1>4, <1>8 DEF Complete
    <2> QED BY <1>3, <2>1, <2>2 DEF SchemaInv
  <1>10. CacheIds'
    BY <1>1, <1>3 DEF IInv, CacheIds
  <1>11. ResultInv'
    <2>1. \A q \in Procs : result'[q] # 0 => result'[q] = result[q] \/ (result'[q] = s /\ ok)
      BY <1>2, <1>6 DEF TypeOK
    <2>2. \A u \in DOMAIN schemas : u # s => Kept(u)
      BY <1>3
    <2> QED BY ZenonT(60), <1>2, <1>3, <1>4, <2>1, <2>2 DEF IInv, ResultInv, Kept
  <1> QED BY <1>5, <1>7, <1>9, <1>10, <1>11 DEF IInv

------------------------------------------------------------------------------
LEMMA Initially == Init => IInv
  BY DEF Init, IInv, TypeOK, FrameInv, OwnerInv, SchemaInv, CacheIds, ResultInv

LEMMA Inductive == IInv /\ [Next]_vars => IInv'
  <1> SUFFICES ASSUME IInv, [Next]_vars PROVE IInv'
    OBVIOUS
  <1>1. CASE Next
    <2> SUFFICES ASSUME NEW p \in Procs, Step(p) \/ \E k \in Key : Parse(p, k)
                 PROVE  IInv'
      BY <1>1 DEF Next
    <2> QED BY ParseStep, LoadStep, StoreStep, WaitStep, GetOrParseStep, GuessStep,
               OtherStep, BackStep, SetStep, FailStep, CloseStep DEF Step
  <1>2. CASE UNCHANGED vars
    BY <1>2 DEF vars, IInv, TypeOK, FrameInv, OwnerInv, SchemaInv, CacheIds, ResultInv,
                Progress, Complete, NextField, Depth
  <1> QED BY <1>1, <1>2

LEMMA Invariance == Spec => []IInv
  BY Initially, Inductive, PTL DEF Spec

\* The variables keep their types: the numbers in the map and in the frames are
\* those of Schemas, and a Mux that is held is that of a stored Schema.
THEOREM TypeCorrect == Spec => []TypeOK
  <1>1. IInv => TypeOK
    BY DEF IInv
  <1> QED BY <1>1, Invariance, PTL

\* A Schema that Parse returns without an error has all its relations set: it
\* was initialized by the one call that owned it, which had come to its last
\* field, and no other goroutine changes what was set.
THEOREM ReturnsComplete == Spec => []ReturnedIsComplete
  <1>1. IInv => ReturnedIsComplete
    BY DEF IInv, ResultInv, SchemaInv, Complete, ReturnedIsComplete
  <1> QED BY <1>1, Invariance, PTL

------------------------------------------------------------------------------
(***************************************************************************)
(* One Schema per key.  A failing Schema takes the *type* out of the map,  *)
(* whatever name it was parsed under, so this needs that the types parsed  *)
(* under a special table name can be parsed: S is a set of types that      *)
(* holds them, and that no relation without a foreign key is reached from. *)
(***************************************************************************)
CanBeParsed(S) ==
    /\ Specials \subseteq S /\ S \subseteq Types
    /\ \A t \in S : \A i \in DOMAIN Fields[t] :
          Fields[t][i].kind # "invalid" /\ Fields[t][i].to \in S

\* What is in the map is there under its own key, and has not failed.
CacheInv ==
    \A k \in Key : cache[k] # 0 => schemas[cache[k]].key = k /\ ~schemas[cache[k]].err

\* Only types outside of S fail.
ErrInv(S) == \A s \in DOMAIN schemas : schemas[s].err => schemas[s].key.type \notin S

CallOf(f, S, sch) ==
    /\ f.key.special => f.key.type \in Specials
    /\ f.at = "fail" => f.key.type \notin S
    /\ f.at = "wait" => sch[f.id].key = f.key

CallInv(S) == \A p \in Procs : \A i \in DOMAIN stack[p] : CallOf(stack[p][i], S, schemas)

\* A call of Parse is for the type that the relation of the caller leads to.
LedTo(f, sch) == Plain(Fields[f.key.type][Len(sch[f.id].relations) + 1].to)

LinkInv ==
    \A p \in Procs : \A i \in DOMAIN stack[p] :
        i # Depth(p) => stack[p][i + 1].key = LedTo(stack[p][i], schemas)

KeyInv(S) ==
    IInv /\ CacheInv /\ OneSchema /\ ErrInv(S) /\ CallInv(S) /\ LinkInv

\* Steps that change one call, as in FramesKept, and its Schema's state.
LEMMA CallsKept ==
    ASSUME NEW S, KeyInv(S), NEW p \in Procs, NEW n \in Nat, n =< Depth(p), NEW f, NEW own,
           NewTop(p, n, f),
           \A s \in DOMAIN schemas : s \in DOMAIN schemas' /\ schemas'[s].key = schemas[s].key,
           \A s \in DOMAIN schemas : s # own => Kept(s),
           own \in DOMAIN schemas => Depth(p) > 0 /\ Top(p).at \in Own /\ Top(p).id = own,
           n > 0 => f.key = stack[p][n].key /\ CallOf(f, S, schemas')
    PROVE  CallInv(S)' /\ LinkInv'
  <1>1. Depth(p) \in Nat /\ DOMAIN stack[p] = 1..Depth(p) /\ Len(stack'[p]) = n /\ IInv
    BY DEF KeyInv, IInv, TypeOK, Depth, NewTop
  <1>2. ASSUME NEW q \in Procs, NEW i \in DOMAIN stack'[q]
        PROVE  /\ i \in DOMAIN stack[q]
               /\ stack'[q][i].key = stack[q][i].key
               /\ ~(q = p /\ i = n) => stack'[q][i] = stack[q][i]
    BY <1>1, <1>2 DEF NewTop
  <1>3. CallInv(S)'
    <2> SUFFICES ASSUME NEW q \in Procs, NEW i \in DOMAIN stack'[q]
                 PROVE  CallOf(stack'[q][i], S, schemas')
      BY DEF CallInv
    <2>1. CASE q = p /\ i = n
      BY <1>1, <2>1 DEF NewTop
    <2>2. CASE ~(q = p /\ i = n)
      <3>1. i \in DOMAIN stack[q] /\ stack'[q][i] = stack[q][i]
        BY <1>2, <2>2
      <3>2. stack[q][i].at = "wait" => stack[q][i].id \in DOMAIN schemas
        BY <1>1, <3>1 DEF IInv, FrameInv
      <3>3. CallOf(stack[q][i], S, schemas)
        BY SMTT(60), <3>1 DEF KeyInv, CallInv
      <3> QED BY <3>1, <3>2, <3>3 DEF CallOf
    <2> QED BY <2>1, <2>2
  <1>4. LinkInv'
    <2> SUFFICES ASSUME NEW q \in Procs, NEW i \in DOMAIN stack'[q], i # Len(stack'[q])
                 PROVE  stack'[q][i + 1].key = LedTo(stack'[q][i], schemas')
      BY DEF LinkInv, Depth
    <2>1. i + 1 \in DOMAIN stack'[q] /\ i \in DOMAIN stack[q] /\ i # Depth(q)
      <3>1. stack'[q] \in Seq(Frame) /\ i \in 1..Len(stack'[q])
        BY DEF NewTop
      <3>2. i \in DOMAIN stack[q] /\ (q # p => stack'[q] = stack[q])
        BY <1>2 DEF NewTop
      <3> QED BY <1>1, <3>1, <3>2 DEF Depth
    <2>2. /\ i \in DOMAIN stack[q] /\ i # Depth(q)
          /\ stack'[q][i] = stack[q][i]
          /\ stack'[q][i + 1].key = stack[q][i + 1].key
      BY <1>1, <1>2, <2>1
    <2>3. stack[q][i].at = "call" /\ Progress(stack[q][i], schemas)
      BY <1>1, <2>2 DEF IInv, FrameInv, Own
    <2>4. stack[q][i].id # own
      <3> SUFFICES ASSUME stack[q][i].id = own PROVE FALSE
        OBVIOUS
      <3>1. /\ Depth(p) \in DOMAIN stack[p] /\ stack[p][Depth(p)].at \in Own
            /\ stack[p][Depth(p)].id = own
        BY <1>1, <2>3 DEF Progress, Top
      <3> QED BY <1>1, <2>2, <2>3, <3>1 DEF IInv, OwnerInv, Own
    <2>5. schemas'[stack[q][i].id].relations = schemas[stack[q][i].id].relations
      BY <2>3, <2>4 DEF Progress, Kept
    <2>6. stack[q][i + 1].key = LedTo(stack[q][i], schemas)
      BY <2>2 DEF KeyInv, LinkInv
    <2> QED BY <2>2, <2>5, <2>6 DEF LedTo, NextField
  <1> QED BY <1>3, <1>4

\* Steps that keep the map, and the key and the error of every Schema.
LEMMA KeysUnchanged ==
    ASSUME NEW S, KeyInv(S), UNCHANGED cache, DOMAIN schemas' = DOMAIN schemas,
           \A s \in DOMAIN schemas :
              schemas'[s].key = schemas[s].key /\ schemas'[s].err = schemas[s].err
    PROVE  CacheInv' /\ OneSchema' /\ ErrInv(S)'
  <1>1. \A k \in Key : cache[k] # 0 => cache[k] \in DOMAIN schemas
    BY DEF KeyInv, IInv, CacheIds
  <1> QED BY <1>1 DEF KeyInv, CacheInv, OneSchema, ErrInv

\* What a step needs to know of the last call.
LEMMA LastCall ==
    ASSUME NEW S, KeyInv(S), NEW p \in Procs, Depth(p) > 0
    PROVE  /\ IInv /\ TypeOK /\ Depth(p) \in Nat /\ Depth(p) \in DOMAIN stack[p]
           /\ Top(p) = stack[p][Depth(p)] /\ Top(p) \in Frame /\ Top(p).key \in Key
           /\ CallOf(Top(p), S, schemas)
           /\ 0 \notin DOMAIN schemas
  <1>1. /\ IInv /\ TypeOK /\ Depth(p) \in Nat /\ Depth(p) \in DOMAIN stack[p]
        /\ Top(p) = stack[p][Depth(p)] /\ Top(p) \in Frame
    BY TopTyped DEF KeyInv, IInv, Top
  <1>2. Top(p).key \in Key /\ CallOf(Top(p), S, schemas)
    BY <1>1 DEF KeyInv, CallInv, Frame
  <1>3. 0 \notin DOMAIN schemas
    BY <1>1 DEF TypeOK
  <1> QED BY <1>1, <1>2, <1>3

\* CallsKept for steps that take no call away.
LEMMA TopKept ==
    ASSUME NEW S, KeyInv(S), NEW p \in Procs, Depth(p) > 0, NEW f, NEW own,
           NewTop(p, Depth(p), f), f.key = Top(p).key, CallOf(f, S, schemas'),
           \A s \in DOMAIN schemas : s \in DOMAIN schemas' /\ schemas'[s].key = schemas[s].key,
           \A s \in DOMAIN schemas : s # own => Kept(s),
           own \in DOMAIN schemas => Top(p).at \in Own /\ Top(p).id = own
    PROVE  CallInv(S)' /\ LinkInv'
  <1>1. Depth(p) \in Nat /\ Depth(p) =< Depth(p) /\ Top(p) = stack[p][Depth(p)]
    BY LastCall
  <1> QED BY <1>1, CallsKept

LEMMA TopOnly ==
    ASSUME NEW S, KeyInv(S), NEW p \in Procs, Depth(p) > 0, NEW f, UNCHANGED schemas,
           NewTop(p, Depth(p), f), f.key = Top(p).key, CallOf(f, S, schemas')
    PROVE  CallInv(S)' /\ LinkInv'
  <1>1. /\ \A s \in DOMAIN schemas : s \in DOMAIN schemas' /\ schemas'[s].key = schemas[s].key
        /\ \A s \in DOMAIN schemas : s # 0 => Kept(s)
        /\ 0 \notin DOMAIN schemas
    BY LastCall DEF Kept
  <1> QED BY <1>1, TopKept

\* A type whose relation leads outside of S is outside of S.
LEMMA LeadsOutside ==
    ASSUME NEW S, CanBeParsed(S), KeyInv(S), NEW p \in Procs, NEW n \in Nat, n > 0,
           Depth(p) = n + 1, Top(p).key.type \notin S
    PROVE  stack[p][n].key.type \notin S
  <1>1. n \in DOMAIN stack[p] /\ n # Depth(p) /\ Top(p) = stack[p][n + 1] /\ IInv
    <2>1. Depth(p) > 0 /\ TypeOK /\ IInv
      BY DEF KeyInv, IInv
    <2>2. DOMAIN stack[p] = 1..Depth(p)
      BY <2>1, TopTyped
    <2> QED BY <2>1, <2>2 DEF Top
  <1>2. stack[p][n].at = "call" /\ Progress(stack[p][n], schemas) /\ stack[p][n] \in Frame
    BY <1>1 DEF IInv, FrameInv, Own, TypeOK
  <1> DEFINE t == stack[p][n].key.type
             i == Len(schemas[stack[p][n].id].relations) + 1
  <1>3. i \in DOMAIN Fields[t] /\ t \in Types
    <2>1. stack[p][n].id \in DOMAIN schemas /\ i =< Len(Fields[t])
      BY <1>2 DEF Progress
    <2>2. schemas[stack[p][n].id] \in Schema
      BY <1>1, <2>1 DEF IInv, TypeOK
    <2>3. i \in Nat /\ i > 0
      BY SMTT(60), <2>2 DEF Schema
    <2>4. t \in Types /\ Fields[t] \in Seq(Field)
      BY <1>2 DEF Frame, Key
    <2> HIDE DEF i, t
    <2> QED BY <2>1, <2>3, <2>4
  <1>4. Top(p).key = Plain(Fields[t][i].to)
    BY SMTT(60), <1>1 DEF KeyInv, LinkInv, LedTo
  <1>5. Top(p).key.type = Fields[t][i].to
    <2>1. \A x : Plain(x).type = x
      BY DEF Plain
    <2> QED BY <1>4, <2>1
  <1> HIDE DEF t, i
  <1>6. t \notin S
    BY <1>3, <1>5 DEF CanBeParsed
  <1> QED BY <1>6 DEF t

------------------------------------------------------------------------------
LEMMA ParseKeys ==
    ASSUME NEW S, CanBeParsed(S), KeyInv(S), NEW p \in Procs, NEW k \in Key, Parse(p, k)
    PROVE  KeyInv(S)'
  <1>1. /\ Depth(p) = 0 /\ stack' = [stack EXCEPT ![p] = <<Call(k)>>]
        /\ UNCHANGED <<cache, schemas>> /\ IInv' /\ IInv
        /\ k.special => k.type \in Specials
    BY ParseStep DEF Parse, KeyInv
  <1>2. /\ stack'[p] = <<Call(k)>> /\ DOMAIN stack'[p] = {1} /\ Len(stack'[p]) = 1
        /\ \A q \in Procs : q # p => stack'[q] = stack[q]
    BY <1>1 DEF IInv, TypeOK
  <1>3. CallInv(S)'
    <2>1. CallOf(Call(k), S, schemas')
      BY <1>1 DEF CallOf, Call
    <2> QED BY <1>1, <1>2, <2>1 DEF KeyInv, CallInv, CallOf
  <1>4. LinkInv'
    <2>1. \A q \in Procs : \A i \in DOMAIN stack[q] :
             i # Len(stack[q]) => stack[q][i + 1].key = LedTo(stack[q][i], schemas)
      BY DEF KeyInv, LinkInv, Depth
    <2> SUFFICES ASSUME NEW q \in Procs, NEW i \in DOMAIN stack'[q], i # Len(stack'[q])
                 PROVE  stack'[q][i + 1].key = LedTo(stack'[q][i], schemas')
      BY DEF LinkInv, Depth
    <2>3. q # p
      BY <1>2
    <2> QED BY <1>1, <1>2, <2>1, <2>3
  <1> QED BY <1>1, <1>3, <1>4, KeysUnchanged DEF KeyInv

LEMMA LoadKeys ==
    ASSUME NEW S, CanBeParsed(S), KeyInv(S), NEW p \in Procs, Load(p)
    PROVE  KeyInv(S)'
  <1> DEFINE k == Top(p).key
  <1>1. /\ Depth(p) > 0 /\ UNCHANGED <<cache, schemas>> /\ IInv'
    BY LoadStep DEF Load, In, KeyInv
  <1>2. /\ IInv /\ TypeOK /\ Depth(p) \in Nat /\ k \in Key /\ Top(p) \in Frame
        /\ CallOf(Top(p), S, schemas) /\ Top(p) = stack[p][Depth(p)] /\ 0 \notin DOMAIN schemas
    BY <1>1, LastCall
  <1>3. PICK f : NewTop(p, Depth(p), f) /\ f.key = k /\ CallOf(f, S, schemas)
    <2>1. CASE cache[k] = 0
      <3> DEFINE f == [Top(p) EXCEPT !.at = "store"]
      <3>1. NewTop(p, Depth(p), f)
        BY <1>1, <1>2, <2>1, GotoTop DEF Load, At
      <3>2. f.key = k /\ CallOf(f, S, schemas)
        BY <1>2 DEF CallOf, Frame
      <3> QED BY <3>1, <3>2
    <2>2. CASE cache[k] # 0
      <3>1. cache[k] \in Ids /\ schemas[cache[k]].key = k
        BY <1>2, <2>2 DEF KeyInv, CacheInv, TypeOK, Ids
      <3>2. Await(p, cache[k])
        BY <2>2 DEF Load
      <3>3. PICK f \in Frame : /\ NewTop(p, Depth(p), f)
                               /\ f.at = "wait" /\ f.id = cache[k] /\ f.key = k
        BY <1>1, <1>2, <3>1, <3>2, AwaitTop
      <3>4. CallOf(f, S, schemas)
        BY <1>2, <3>1, <3>3 DEF CallOf
      <3> QED BY <3>3, <3>4
    <2> QED BY <2>1, <2>2
  <1>4. CallInv(S)' /\ LinkInv'
    <2>1. CallOf(f, S, schemas')
      BY <1>1, <1>3 DEF CallOf
    <2> QED BY <1>1, <1>3, <2>1, TopOnly
  <1> QED BY <1>1, <1>4, KeysUnchanged DEF KeyInv

LEMMA StoreKeys ==
    ASSUME NEW S, CanBeParsed(S), KeyInv(S), NEW p \in Procs, Store(p)
    PROVE  KeyInv(S)'
  <1> DEFINE k == Top(p).key
             s == Len(schemas) + 1
  <1>1. Depth(p) > 0 /\ IInv'
    BY StoreStep DEF Store, In, KeyInv
  <1>2. /\ IInv /\ TypeOK /\ Depth(p) \in Nat /\ k \in Key /\ Top(p) \in Frame
        /\ CallOf(Top(p), S, schemas) /\ Top(p) = stack[p][Depth(p)] /\ 0 \notin DOMAIN schemas
    BY <1>1, LastCall
  <1>3. CASE cache[k] # 0 /\ Await(p, cache[k]) /\ UNCHANGED <<cache, schemas>>
    <2>1. cache[k] \in Ids /\ schemas[cache[k]].key = k
      BY <1>2, <1>3 DEF KeyInv, CacheInv, TypeOK, Ids
    <2>2. PICK f \in Frame : /\ NewTop(p, Depth(p), f)
                             /\ f.at = "wait" /\ f.id = cache[k] /\ f.key = k
      BY <1>1, <1>2, <1>3, <2>1, AwaitTop
    <2>3. CallOf(f, S, schemas')
      BY <1>2, <1>3, <2>1, <2>2 DEF CallOf
    <2>4. CallInv(S)' /\ LinkInv'
      BY <1>1, <1>3, <2>2, <2>3, TopOnly
    <2> QED BY <1>1, <1>3, <2>4, KeysUnchanged DEF KeyInv
  <1>4. CASE /\ cache[k] = 0 /\ Len(schemas) < MaxSchemas
             /\ cache' = [cache EXCEPT ![k] = s]
             /\ schemas' = Append(schemas, [key |-> k, initialized |-> FALSE, err |-> FALSE,
                                            relations |-> <<>>, back |-> {}])
             /\ stack' = [stack EXCEPT ![p][Depth(p)].at = "relation", ![p][Depth(p)].id = s]
    <2> DEFINE f == [Top(p) EXCEPT !.at = "relation", !.id = s]
    <2>1. f \in Frame /\ f.at = "relation" /\ f.key = k
      <3>1. "relation" \in At /\ s \in 0..MaxSchemas
        BY <1>2, <1>4 DEF At, Own, TypeOK
      <3> HIDE DEF s
      <3> QED BY <1>2, <3>1 DEF Frame
    <2>2. NewTop(p, Depth(p), f)
      <3>1. stack' = [stack EXCEPT ![p] = [@ EXCEPT ![Depth(p)] = f]]
        BY <1>1, <1>2, <1>4 DEF TypeOK
      <3> HIDE DEF f
      <3> QED BY <1>1, <1>2, <2>1, <3>1, TopChanged
    <2>3. /\ DOMAIN schemas' = DOMAIN schemas \cup {s} /\ s \notin DOMAIN schemas
          /\ schemas'[s].key = k /\ ~schemas'[s].err
          /\ \A t \in DOMAIN schemas : schemas'[t] = schemas[t]
      BY <1>2, <1>4 DEF TypeOK
    <2>4. CallInv(S)' /\ LinkInv'
      <3>1. CallOf(f, S, schemas')
        BY <1>2, <2>1 DEF CallOf
      <3>2. \A t \in DOMAIN schemas : Kept(t)
        BY <2>3 DEF Kept
      <3> HIDE DEF f
      <3> QED BY <1>2, <2>1, <2>2, <2>3, <3>1, <3>2, CallsKept
    <2>5. CacheInv'
      <3> SUFFICES ASSUME NEW l \in Key, cache'[l] # 0
                   PROVE  schemas'[cache'[l]].key = l /\ ~schemas'[cache'[l]].err
        BY DEF CacheInv
      <3>1. CASE l = k
        BY <1>2, <1>4, <2>3, <3>1 DEF TypeOK
      <3>2. CASE l # k
        <4>1. cache'[l] = cache[l] /\ cache[l] \in DOMAIN schemas
          BY <1>2, <1>4, <3>2 DEF TypeOK, IInv, CacheIds
        <4> QED BY <2>3, <4>1 DEF KeyInv, CacheInv
      <3> QED BY <3>1, <3>2
    <2>6. OneSchema'
      <3> SUFFICES ASSUME NEW t \in DOMAIN schemas', ~schemas'[t].err
                   PROVE  cache'[schemas'[t].key] = t
        BY DEF OneSchema
      <3>1. CASE t = s
        BY <1>2, <1>4, <2>3, <3>1 DEF TypeOK
      <3>2. CASE t # s
        <4>1. t \in DOMAIN schemas /\ schemas'[t] = schemas[t] /\ schemas[t].key \in Key
          <5>1. t \in DOMAIN schemas /\ schemas'[t] = schemas[t]
            BY <2>3, <3>2
          <5>2. schemas[t] \in Schema
            BY <1>2, <5>1 DEF TypeOK
          <5> QED BY <5>1, <5>2 DEF Schema
        <4>2. cache[schemas[t].key] = t /\ t # 0
          BY <1>2, <4>1 DEF KeyInv, OneSchema
        <4>3. schemas[t].key # k
          BY <1>4, <4>2
        <4> QED BY <1>2, <1>4, <4>1, <4>2, <4>3 DEF TypeOK
      <3> QED BY <3>1, <3>2
    <2>7. ErrInv(S)'
      BY <2>3 DEF KeyInv, ErrInv
    <2> QED BY <1>1, <2>4, <2>5, <2>6, <2>7 DEF KeyInv
  <1> QED BY <1>3, <1>4 DEF Store

\* A return of a Schema of the key that was called for, in error if that Schema
\* has failed: the caller then fails as well, and its type is outside of S too.
LEMMA ReturnKeys ==
    ASSUME NEW S, CanBeParsed(S), KeyInv(S), NEW p \in Procs, Depth(p) > 0,
           NEW s \in DOMAIN schemas, schemas[s].key = Top(p).key,
           Return(p, s, ~schemas[s].err), NEW own,
           DOMAIN schemas' = DOMAIN schemas,
           \A t \in DOMAIN schemas : schemas'[t].key = schemas[t].key,
           \A t \in DOMAIN schemas : t # own => Kept(t),
           own \in DOMAIN schemas => Top(p).at \in Own /\ Top(p).id = own
    PROVE  CallInv(S)' /\ LinkInv'
  <1>0. PICK n \in Nat : Depth(p) = n + 1
    <2>1. Depth(p) \in Nat
      BY LastCall
    <2>2. Depth(p) - 1 \in Nat /\ Depth(p) = (Depth(p) - 1) + 1
      BY <2>1
    <2> QED BY <2>2
  <1> DEFINE ok == ~schemas[s].err
             f == Told(stack[p][n], s, ok)
  <1>1. IInv /\ TypeOK /\ Depth(p) \in Nat /\ n =< Depth(p) /\ s \in Ids /\ ok \in BOOLEAN
    <2>1. IInv /\ TypeOK /\ Depth(p) \in Nat
      BY LastCall
    <2>2. s \in Ids
      BY <2>1 DEF TypeOK, Ids
    <2> QED BY <1>0, <2>1, <2>2
  <1>2. /\ NewTop(p, n, f)
        /\ n > 0 => stack[p][n] \in Frame
    <2> HIDE DEF ok
    <2> QED BY <1>0, <1>1, ReturnTop DEF ok
  <1>3. ASSUME n > 0
        PROVE  f.key = stack[p][n].key /\ CallOf(f, S, schemas')
    <2>1. /\ stack[p][n] \in Frame /\ n \in DOMAIN stack[p] /\ CallOf(stack[p][n], S, schemas)
      BY <1>0, <1>1, <1>2, <1>3 DEF KeyInv, CallInv, TypeOK, Depth
    <2>2. ~ok => stack[p][n].key.type \notin S
      <3> SUFFICES ASSUME ~ok PROVE stack[p][n].key.type \notin S
        OBVIOUS
      <3>1. Top(p).key.type \notin S
        BY DEF KeyInv, ErrInv
      <3> QED BY <1>0, <1>3, <3>1, LeadsOutside
    <2>3. f.key = stack[p][n].key /\ f.at \in {"guess", "fail"} /\ (f.at = "fail" => ~ok)
      BY <2>1 DEF Told, Frame
    <2> QED BY <2>1, <2>2, <2>3 DEF CallOf
  <1>4. \A t \in DOMAIN schemas : t \in DOMAIN schemas' /\ schemas'[t].key = schemas[t].key
    OBVIOUS
  <1>5. own \in DOMAIN schemas => Depth(p) > 0 /\ Top(p).at \in Own /\ Top(p).id = own
    OBVIOUS
  <1> HIDE DEF f, ok
  <1> QED BY <1>1, <1>2, <1>3, <1>4, <1>5, CallsKept

LEMMA WaitKeys ==
    ASSUME NEW S, CanBeParsed(S), KeyInv(S), NEW p \in Procs, Wait(p)
    PROVE  KeyInv(S)'
  <1> DEFINE s == Top(p).id
  <1>1. /\ Depth(p) > 0 /\ Top(p).at = "wait" /\ UNCHANGED <<cache, schemas>> /\ IInv'
        /\ Return(p, s, ~schemas[s].err)
    BY WaitStep DEF Wait, In, KeyInv
  <1>2. s \in DOMAIN schemas /\ schemas[s].key = Top(p).key /\ 0 \notin DOMAIN schemas
    BY <1>1, LastCall DEF IInv, FrameInv, CallOf
  <1>3. CallInv(S)' /\ LinkInv'
    <2>1. \A t \in DOMAIN schemas : t # 0 => Kept(t)
      BY <1>1 DEF Kept
    <2> HIDE DEF s
    <2> QED BY <1>1, <1>2, <2>1, ReturnKeys
  <1> QED BY <1>1, <1>3, KeysUnchanged DEF KeyInv

LEMMA CloseKeys ==
    ASSUME NEW S, CanBeParsed(S), KeyInv(S), NEW p \in Procs, Close(p)
    PROVE  KeyInv(S)'
  <1> DEFINE s == Top(p).id
  <1>1. /\ Depth(p) > 0 /\ Top(p).at \in Own /\ UNCHANGED cache /\ IInv'
        /\ schemas' = [schemas EXCEPT ![s].initialized = TRUE]
        /\ Return(p, s, ~schemas[s].err)
    BY CloseStep DEF Close, In, Own, KeyInv
  <1>2. /\ s \in DOMAIN schemas /\ schemas[s].key = Top(p).key /\ TypeOK
    BY <1>1, OwnSchema DEF KeyInv, Progress
  <1>3. /\ DOMAIN schemas' = DOMAIN schemas
        /\ \A t \in DOMAIN schemas :
              schemas'[t].key = schemas[t].key /\ schemas'[t].err = schemas[t].err
        /\ \A t \in DOMAIN schemas : t # s => Kept(t)
    BY SMTT(60), <1>1, <1>2 DEF TypeOK, Schema, Kept
  <1>4. CallInv(S)' /\ LinkInv'
    <2> HIDE DEF s
    <2> QED BY <1>1, <1>2, <1>3, ReturnKeys DEF s
  <1> QED BY <1>1, <1>3, <1>4, KeysUnchanged DEF KeyInv

\* As MovedOn.
LEMMA MovedOnKeys ==
    ASSUME NEW S, KeyInv(S), NEW p \in Procs, Depth(p) > 0, Top(p).at \in Own,
           NEW at \in Own \ {"call"}, Goto(p, at),
           at = "fail" => Top(p).key.type \notin S,
           DOMAIN schemas' = DOMAIN schemas,
           \A s \in DOMAIN schemas : schemas'[s].key = schemas[s].key,
           \A s \in DOMAIN schemas : s # Top(p).id => Kept(s)
    PROVE  CallInv(S)' /\ LinkInv'
  <1> DEFINE f == [Top(p) EXCEPT !.at = at]
  <1>1. /\ IInv /\ TypeOK /\ Depth(p) \in Nat /\ Top(p) \in Frame /\ CallOf(Top(p), S, schemas)
        /\ Top(p) = stack[p][Depth(p)]
    BY LastCall
  <1>2. NewTop(p, Depth(p), f)
    BY <1>1, GotoTop DEF At, Own
  <1>3. f.key = Top(p).key /\ CallOf(f, S, schemas')
    BY <1>1 DEF CallOf, Frame, Own
  <1>4. /\ Top(p).id \in DOMAIN schemas => Top(p).at \in Own
        /\ \A s \in DOMAIN schemas : s \in DOMAIN schemas' /\ schemas'[s].key = schemas[s].key
    OBVIOUS
  <1> DEFINE own == Top(p).id
  <1>5. own \in DOMAIN schemas => Top(p).at \in Own /\ Top(p).id = own
    OBVIOUS
  <1>6. \A s \in DOMAIN schemas : s # own => Kept(s)
    OBVIOUS
  <1> HIDE DEF f, own
  <1> QED BY <1>2, <1>3, <1>4, <1>5, <1>6, TopKept

LEMMA GetOrParseKeys ==
    ASSUME NEW S, CanBeParsed(S), KeyInv(S), NEW p \in Procs, GetOrParse(p)
    PROVE  KeyInv(S)'
  <1>1. /\ Depth(p) > 0 /\ Top(p).at = "relation" /\ UNCHANGED <<cache, schemas>> /\ IInv' /\ IInv
    BY GetOrParseStep DEF GetOrParse, In, KeyInv
  <1>2. /\ TypeOK /\ Depth(p) \in Nat /\ CallOf(Top(p), S, schemas)
        /\ Top(p) = stack[p][Depth(p)] /\ Top(p) \in Frame
    BY <1>1, LastCall
  <1>3. PICK k \in Key : /\ k = Plain(Current(p).to)
                         /\ \/ /\ cache[k] \in DOMAIN schemas
                               /\ \E f \in Frame : /\ NewTop(p, Depth(p), f)
                                                   /\ f.at = "guess" /\ f.id = Top(p).id
                                                   /\ f.key = Top(p).key /\ f.field = cache[k]
                            \/ Pushed(p, k)
    BY <1>1, GetOrParseCases
  <1>4. ASSUME NEW f \in Frame, NewTop(p, Depth(p), f), f.at = "guess", f.key = Top(p).key
        PROVE  KeyInv(S)'
    <2>1. CallOf(f, S, schemas')
      BY <1>2, <1>4 DEF CallOf
    <2>2. CallInv(S)' /\ LinkInv'
      BY <1>1, <1>4, <2>1, TopOnly
    <2> QED BY <1>1, <2>2, KeysUnchanged DEF KeyInv
  <1>5. CASE Pushed(p, k)
    <2> DEFINE n == Depth(p)
    <2>1. /\ n \in Nat /\ n > 0 /\ DOMAIN stack[p] = 1..n
          /\ DOMAIN stack'[p] = 1..(n + 1) /\ Len(stack'[p]) = n + 1
          /\ stack'[p][n + 1] = Call(k)
          /\ \A q \in Procs : q # p => stack'[q] = stack[q]
      BY <1>1, <1>2, <1>5, TopTyped DEF Pushed
    <2>2. \A i \in 1..n : /\ stack'[p][i].key = stack[p][i].key
                          /\ stack'[p][i].id = stack[p][i].id
                          /\ stack'[p][i].at \in {stack[p][i].at, "call"}
      <3>1. stack'[p][n] = [stack[p][n] EXCEPT !.at = "call"] /\ stack[p][n] \in Frame
        BY <1>2, <1>5, <2>1 DEF Pushed
      <3>2. /\ stack'[p][n].key = stack[p][n].key /\ stack'[p][n].id = stack[p][n].id
            /\ stack'[p][n].at = "call"
        BY <3>1 DEF Frame
      <3>3. \A i \in 1..n : i # n => stack'[p][i] = stack[p][i]
        BY <1>5 DEF Pushed
      <3> QED BY <3>2, <3>3
    <2>3. Call(k).key = k /\ k = LedTo(stack[p][n], schemas) /\ ~k.special
          /\ Call(k).at = "load"
      <3>1. k = LedTo(Top(p), schemas)
        <4>1. k = Plain(Current(p).to)
          BY <1>3
        <4> QED BY <4>1, Zenon DEF LedTo, Current, NextField
      <3>2. k = Plain(Current(p).to)
        BY <1>3
      <3> QED BY <1>2, <3>1, <3>2 DEF Call, Plain
    <2>4. CallInv(S)'
      <3> SUFFICES ASSUME NEW q \in Procs, NEW i \in DOMAIN stack'[q]
                   PROVE  CallOf(stack'[q][i], S, schemas')
        BY DEF CallInv
      <3>1. \A r \in Procs : \A j \in DOMAIN stack[r] : CallOf(stack[r][j], S, schemas)
        BY DEF KeyInv, CallInv
      <3>2. CASE q = p /\ i = n + 1
        BY <2>1, <2>3, <3>2 DEF CallOf
      <3>3. CASE q = p /\ i \in 1..n
        <4>1. CallOf(stack[p][i], S, schemas)
          BY <2>1, <3>1, <3>3
        <4>2. /\ stack'[p][i].key = stack[p][i].key /\ stack'[p][i].id = stack[p][i].id
              /\ stack'[p][i].at \in {stack[p][i].at, "call"}
          BY <2>2, <3>3
        <4> QED BY <1>1, <3>3, <4>1, <4>2 DEF CallOf
      <3>4. CASE q # p
        BY <1>1, <2>1, <3>1, <3>4
      <3> QED BY <2>1, <3>2, <3>3, <3>4
    <2>5. LinkInv'
      <3> SUFFICES ASSUME NEW q \in Procs, NEW i \in DOMAIN stack'[q], i # Len(stack'[q])
                   PROVE  stack'[q][i + 1].key = LedTo(stack'[q][i], schemas')
        BY DEF LinkInv, Depth
      <3>1. \A r \in Procs : \A j \in DOMAIN stack[r] :
               j # Len(stack[r]) => stack[r][j + 1].key = LedTo(stack[r][j], schemas)
        BY DEF KeyInv, LinkInv, Depth
      <3>2. CASE q = p
        <4>1. i \in 1..n
          BY SMTT(60), <2>1, <3>2
        <4>2. LedTo(stack'[p][i], schemas') = LedTo(stack[p][i], schemas)
          BY <1>1, <2>2, <4>1 DEF LedTo
        <4>3. CASE i = n
          BY <2>1, <2>3, <3>2, <4>2, <4>3
        <4>4. CASE i # n
          <5>1. i + 1 \in 1..n /\ i \in DOMAIN stack[p] /\ i # Len(stack[p])
            BY <2>1, <4>1, <4>4 DEF Depth
          <5>2. stack[p][i + 1].key = LedTo(stack[p][i], schemas)
            BY <3>1, <5>1
          <5> QED BY <2>2, <3>2, <4>2, <5>1, <5>2
        <4> QED BY <4>3, <4>4
      <3>3. CASE q # p
        BY <1>1, <2>1, <3>1, <3>3
      <3> QED BY <3>2, <3>3
    <2> QED BY <1>1, <2>4, <2>5, KeysUnchanged DEF KeyInv
  <1> QED BY <1>3, <1>4, <1>5

LEMMA GuessKeys ==
    ASSUME NEW S, CanBeParsed(S), KeyInv(S), NEW p \in Procs, Guess(p)
    PROVE  KeyInv(S)'
  <1>1. /\ Depth(p) > 0 /\ Top(p).at = "guess" /\ Top(p).at \in Own
        /\ UNCHANGED <<cache, schemas>> /\ IInv'
    BY GuessStep DEF Guess, In, Own, KeyInv
  <1>2. PICK at \in {"fail", "set", "other"} :
           Goto(p, at) /\ (at = "fail" => Current(p).kind = "invalid")
    BY DEF Guess
  <1>3. at = "fail" => Top(p).key.type \notin S
    <2>1. Progress(Top(p), schemas) /\ TypeOK /\ Top(p) \in Frame
      BY <1>1, OwnSchema DEF KeyInv
    <2>2. NextField(Top(p).id) \in DOMAIN Fields[Top(p).key.type]
      BY SMTT(60), <1>1, <2>1 DEF Progress, Resolving, NextField, TypeOK, Schema, Frame, Key
    <2> QED BY <1>2, <2>2 DEF CanBeParsed, Current
  <1>4. CallInv(S)' /\ LinkInv'
    <2>1. at \in Own \ {"call"}
      BY <1>2 DEF Own
    <2> QED BY <1>1, <1>2, <1>3, <2>1, MovedOnKeys, SchemasUnchanged DEF KeyInv
  <1> QED BY <1>1, <1>4, KeysUnchanged DEF KeyInv

LEMMA OtherKeys ==
    ASSUME NEW S, CanBeParsed(S), KeyInv(S), NEW p \in Procs, Other(p)
    PROVE  KeyInv(S)'
  <1>1. /\ Depth(p) > 0 /\ Top(p).at \in Own /\ "back" \in Own \ {"call"}
        /\ Goto(p, "back") /\ UNCHANGED <<cache, schemas>> /\ IInv'
    BY OtherStep DEF Other, In, Own, KeyInv
  <1>2. CallInv(S)' /\ LinkInv'
    BY <1>1, MovedOnKeys, SchemasUnchanged DEF KeyInv
  <1> QED BY <1>1, <1>2, KeysUnchanged DEF KeyInv

LEMMA BackKeys ==
    ASSUME NEW S, CanBeParsed(S), KeyInv(S), NEW p \in Procs, Back(p)
    PROVE  KeyInv(S)'
  <1> DEFINE s == Top(p).id
             t == Top(p).field
  <1>1. /\ Depth(p) > 0 /\ Top(p).at = "back" /\ Top(p).at \in Own /\ "set" \in Own \ {"call"}
        /\ Goto(p, "set") /\ UNCHANGED cache /\ IInv'
        /\ schemas' = [schemas EXCEPT ![t].back = @ \cup {s}]
    BY BackStep DEF Back, In, Own, KeyInv
  <1>2. TypeOK /\ t \in DOMAIN schemas
    BY <1>1, OwnSchema DEF Progress, Resolving, KeyInv
  <1>3. /\ DOMAIN schemas' = DOMAIN schemas
        /\ \A u \in DOMAIN schemas : Kept(u)
    BY SMTT(60), <1>1, <1>2 DEF TypeOK, Schema, Kept
  <1>4. CallInv(S)' /\ LinkInv'
    BY ZenonT(60), <1>1, <1>3, MovedOnKeys DEF Kept
  <1> QED BY <1>1, <1>3, <1>4, KeysUnchanged DEF KeyInv, Kept

LEMMA SetKeys ==
    ASSUME NEW S, CanBeParsed(S), KeyInv(S), NEW p \in Procs, Set(p)
    PROVE  KeyInv(S)'
  <1> DEFINE s == Top(p).id
  <1>1. /\ Depth(p) > 0 /\ Top(p).at \in Own /\ "relation" \in Own \ {"call"}
        /\ Goto(p, "relation") /\ UNCHANGED cache /\ IInv'
        /\ schemas' = [schemas EXCEPT ![s].relations = Append(@, Top(p).field)]
    BY SetStep DEF Set, In, Own, KeyInv
  <1>2. TypeOK /\ s \in DOMAIN schemas
    BY <1>1, OwnSchema DEF Progress, KeyInv
  <1>3. /\ DOMAIN schemas' = DOMAIN schemas
        /\ \A u \in DOMAIN schemas : u # s => Kept(u)
        /\ \A u \in DOMAIN schemas :
              schemas'[u].key = schemas[u].key /\ schemas'[u].err = schemas[u].err
    BY SMTT(60), <1>1, <1>2 DEF TypeOK, Schema, Kept
  <1>4. CallInv(S)' /\ LinkInv'
    BY <1>1, <1>3, MovedOnKeys
  <1> QED BY <1>1, <1>3, <1>4, KeysUnchanged DEF KeyInv

\* The type that is taken out of the map is the key of the Schema that failed,
\* which has no special name.
LEMMA FailKeys ==
    ASSUME NEW S, CanBeParsed(S), KeyInv(S), NEW p \in Procs, Fail(p)
    PROVE  KeyInv(S)'
  <1> DEFINE s == Top(p).id
             k == Plain(Top(p).key.type)
  <1>1. /\ Depth(p) > 0 /\ Top(p).at = "fail" /\ Top(p).at \in Own /\ "close" \in Own \ {"call"}
        /\ Goto(p, "close") /\ IInv'
        /\ schemas' = [schemas EXCEPT ![s].err = TRUE]
        /\ cache' = [cache EXCEPT ![k] = 0]
    BY FailStep DEF Fail, In, Own, KeyInv
  <1>2. /\ IInv /\ TypeOK /\ s \in DOMAIN schemas /\ s # 0
        /\ schemas[s].key = Top(p).key /\ ~schemas[s].err
    BY <1>1, OwnSchema DEF KeyInv, Progress
  <1>3. /\ Top(p).key.type \notin S /\ Top(p).key = k /\ k \in Key
    BY <1>1, LastCall DEF CallOf, CanBeParsed, Plain, Key
  <1>4. /\ DOMAIN schemas' = DOMAIN schemas /\ schemas'[s].err
        /\ \A u \in DOMAIN schemas : schemas'[u].key = schemas[u].key
        /\ \A u \in DOMAIN schemas : u # s => Kept(u)
    <2> DEFINE c == [schemas[s] EXCEPT !.err = TRUE]
    <2>1. schemas[s] \in Schema
      BY <1>2 DEF TypeOK
    <2>2. c \in Schema /\ c.key = schemas[s].key /\ c.err
      BY <2>1 DEF Schema
    <2>3. schemas' = [schemas EXCEPT ![s] = c]
      BY <1>1, <1>2
    <2>4. /\ DOMAIN schemas' = DOMAIN schemas /\ schemas'[s] = c
          /\ \A u \in DOMAIN schemas : u # s => Kept(u)
      <3> HIDE DEF c, s
      <3> QED BY <1>2, <2>2, <2>3, SchemaChanged
    <2> HIDE DEF c, s
    <2> QED BY <2>2, <2>4 DEF Kept
  <1>5. cache'[k] = 0 /\ \A l \in Key : l # k => cache'[l] = cache[l]
    BY <1>1, <1>2, <1>3 DEF TypeOK
  <1>6. CallInv(S)' /\ LinkInv'
    BY <1>1, <1>4, MovedOnKeys
  <1>7. CacheInv'
    <2> SUFFICES ASSUME NEW l \in Key, cache'[l] # 0
                 PROVE  schemas'[cache'[l]].key = l /\ ~schemas'[cache'[l]].err
      BY DEF CacheInv
    <2>1. l # k /\ cache'[l] = cache[l] /\ cache[l] \in DOMAIN schemas
      BY <1>2, <1>5 DEF IInv, CacheIds
    <2>2. schemas[cache[l]].key = l /\ ~schemas[cache[l]].err
      BY <2>1 DEF KeyInv, CacheInv
    <2>3. cache[l] # s
      BY <1>2, <1>3, <2>1, <2>2
    <2> QED BY <1>4, <2>1, <2>2, <2>3 DEF Kept
  <1>8. OneSchema'
    <2> SUFFICES ASSUME NEW t \in DOMAIN schemas, ~schemas'[t].err
                 PROVE  cache'[schemas[t].key] = t
      BY <1>4 DEF OneSchema
    <2>1. t # s /\ ~schemas[t].err /\ schemas[t].key \in Key
      <3>1. t # s
        BY <1>4
      <3>2. ~schemas[t].err
        BY <1>4, <3>1 DEF Kept
      <3>3. schemas[t] \in Schema
        BY <1>2 DEF TypeOK
      <3> QED BY <3>1, <3>2, <3>3 DEF Schema
    <2>2. cache[schemas[t].key] = t /\ cache[k] = s
      BY <1>2, <1>3, <2>1 DEF KeyInv, OneSchema
    <2> QED BY <1>5, <2>1, <2>2
  <1>9. ErrInv(S)'
    BY <1>2, <1>3, <1>4 DEF KeyInv, ErrInv, Kept
  <1> QED BY <1>1, <1>6, <1>7, <1>8, <1>9 DEF KeyInv

LEMMA InitKeys == ASSUME NEW S PROVE Init => KeyInv(S)
  BY Initially DEF Init, KeyInv, CacheInv, OneSchema, ErrInv, CallInv, LinkInv

LEMMA NextKeys ==
    ASSUME NEW S, CanBeParsed(S)
    PROVE  KeyInv(S) /\ [Next]_vars => KeyInv(S)'
  <1> SUFFICES ASSUME KeyInv(S), [Next]_vars PROVE KeyInv(S)'
    OBVIOUS
  <1>1. CASE Next
    <2> SUFFICES ASSUME NEW p \in Procs, Step(p) \/ \E k \in Key : Parse(p, k)
                 PROVE  KeyInv(S)'
      BY <1>1 DEF Next
    <2> QED BY ParseKeys, LoadKeys, StoreKeys, WaitKeys, GetOrParseKeys, GuessKeys,
               OtherKeys, BackKeys, SetKeys, FailKeys, CloseKeys DEF Step
  <1>2. CASE UNCHANGED vars
    <2>1. IInv'
      BY SMTT(60), <1>2, Inductive DEF KeyInv
    <2>2. CallInv(S)' /\ LinkInv'
      BY <1>2 DEF vars, KeyInv, CallInv, LinkInv, CallOf, LedTo, NextField, Depth
    <2> QED BY <1>2, <2>1, <2>2, KeysUnchanged DEF vars, KeyInv
  <1> QED BY <1>1, <1>2

LEMMA KeyInvariance == ASSUME NEW S, CanBeParsed(S) PROVE Spec => []KeyInv(S)
  BY InitKeys, NextKeys, PTL DEF Spec

\* However many goroutines come for a type at the same time, there is one Schema
\* of it that has not failed, and it is the one in the map: LoadOrStore keeps
\* the first, and a failure takes out of the map no Schema but its own.  That
\* needs that the types parsed under a special name can be parsed.
THEOREM OneSchemaOfAKey ==
    ASSUME NEW S, CanBeParsed(S)
    PROVE  Spec => []OneSchema
  <1>1. KeyInv(S) => OneSchema
    BY DEF KeyInv
  <1> QED BY <1>1, KeyInvariance, PTL

\* Nobody finds in the map a Schema that has failed, under the same condition:
\* the deferred Delete comes before close(initialized).
THEOREM FailedIsTakenOut ==
    ASSUME NEW S, CanBeParsed(S)
    PROVE  Spec => []FailedIsNotCached
  <1>1. KeyInv(S) => FailedIsNotCached
    BY DEF KeyInv, CacheInv, FailedIsNotCached
  <1> QED BY <1>1, KeyInvariance, PTL
=============================================================================
