--------------------------- MODULE MCTransaction ---------------------------
(* Small instances of Transaction; the writes are model values of the cfg. *)
EXTENDS Transaction
=============================================================================
