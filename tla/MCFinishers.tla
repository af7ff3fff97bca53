---------------------------- MODULE MCFinishers ----------------------------
(* Small instances of Finishers, and of FindInBatches with it. *)
EXTENDS Finishers

\* No order but that of the primary key.
Unordered == [i \in Ids |-> 0]

\* None, and rows before and behind others.
SomeLooses == {{}, {1, 3}}

SomeLimits == {-1} \cup 1..4
=============================================================================
