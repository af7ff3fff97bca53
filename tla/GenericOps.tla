----------------------------- MODULE GenericOps -----------------------------
(***************************************************************************)
(* The values of the generic API, G[T], and what their chain methods leave *)
(* in memory (generics.go): a DB and a slice of operations, which nothing  *)
(* is made of before a call ends the chain (Generics).  G[T] values may be *)
(* used again and from several goroutines, so that what one chain appends  *)
(* must not show in another: a chain method copies the list, Raw appends   *)
(* to it where it stands, in the array that G made with room to spare.     *)
(***************************************************************************)
EXTENDS Naturals, Sequences

CONSTANTS Room4Ops,  \* room in the array of a new G[T]; five in the code
          MaxGens    \* bound: G[T] values of a behaviour

ASSUME RoomAssumption == Room4Ops \in Nat

VARIABLES gens,      \* G[T] values: [db, ops, kind, rawed], ops a slice
          opArrays,  \* the arrays behind the slices
          gAsked     \* per G[T]: the operations asked for on the way to it

gvars == <<gens, opArrays, gAsked>>

OpsIn(arrays, g) == SubSeq(arrays[g.ops.arr], 1, g.ops.len)

NoOp == [op |-> "nil"]

OpsInit ==
  /\ gens = <<[db |-> 1, ops |-> [arr |-> 1, len |-> 0], kind |-> "g", rawed |-> FALSE]>>
  /\ opArrays = <<[i \in 1..Room4Ops |-> NoOp]>>
  /\ gAsked = << <<>> >>

\* G: an array with room, and the options as a first operation.
G(d, opts) ==
  /\ Len(gens) < MaxGens
  /\ opArrays' = Append(opArrays, opts \o [i \in 1..(Room4Ops - Len(opts)) |-> NoOp])
  /\ gens' = Append(gens, [db |-> d, ops |-> [arr |-> Len(opArrays) + 1, len |-> Len(opts)],
                           kind |-> "g", rawed |-> FALSE])
  /\ gAsked' = Append(gAsked, opts)

\* Go's append to the operations of g: in place when there is room, in a
\* new array otherwise, and the slice of the result.
AppendOp(g, op) ==
  IF g.ops.len < Len(opArrays[g.ops.arr])
  THEN [arrays |-> [opArrays EXCEPT ![g.ops.arr][g.ops.len + 1] = op],
        slice  |-> [g.ops EXCEPT !.len = @ + 1]]
  ELSE [arrays |-> Append(opArrays, Append(OpsIn(opArrays, g), op)),
        slice  |-> [arr |-> Len(opArrays) + 1, len |-> g.ops.len + 1]]

\* Mutant: append(c.g.ops, v), in place when there is room.
With_InPlace(i, op) ==
  LET a == AppendOp(gens[i], op) IN
  /\ Len(gens) < MaxGens
  /\ gens[i].kind # "exec"
  /\ opArrays' = a.arrays
  /\ gens' = Append(gens, [db |-> gens[i].db, ops |-> a.slice, kind |-> "chain", rawed |-> FALSE])
  /\ gAsked' = Append(gAsked, Append(gAsked[i], op))

\* with: the operations so far and one more, in an array of their own.
With(i, op) ==
  LET ops == Append(OpsIn(opArrays, gens[i]), op) IN
  /\ Len(gens) < MaxGens
  /\ gens[i].kind # "exec"
  /\ opArrays' = Append(opArrays, ops)
  /\ gens' = Append(gens, [db |-> gens[i].db, ops |-> [arr |-> Len(opArrays) + 1, len |-> Len(ops)],
                           kind |-> "chain", rawed |-> FALSE])
  /\ gAsked' = Append(gAsked, Append(gAsked[i], op))

\* Raw, which only a new G[T] has: append(c.ops, ...).
Raw(i, sql) ==
  LET op == [op |-> "raw", sql |-> sql]
      a  == AppendOp(gens[i], op)
  IN
  /\ Len(gens) < MaxGens
  /\ gens[i].kind = "g"
  /\ opArrays' = a.arrays
  /\ gens' = Append([gens EXCEPT ![i].rawed = TRUE],
                    [db |-> gens[i].db, ops |-> a.slice, kind |-> "exec", rawed |-> TRUE])
  /\ gAsked' = Append(gAsked, Append(gAsked[i], op))

-----------------------------------------------------------------------------
(* Properties. *)

\* A G[T] value stands for the same operations as long as it lives, whatever
\* is appended to it or to others made of it (chainG.with, g.Raw).
GenericIsFrozen ==
  [][\A i \in DOMAIN gens : OpsIn(opArrays', gens'[i]) = OpsIn(opArrays, gens[i])]_gvars
=============================================================================
