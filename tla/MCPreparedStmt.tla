--------------------------- MODULE MCPreparedStmt ---------------------------
(***************************************************************************)
(* Instances of PreparedStmt for TLC.                                      *)
(***************************************************************************)
EXTENDS PreparedStmt, TLC

\* The goroutines that run no transaction are interchangeable.
PlainSymmetry == Permutations(Procs \ TxProcs)

==============================================================================
