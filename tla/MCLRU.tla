------------------------------- MODULE MCLRU -------------------------------
(* Small instances of LRU; the keys and values are model values of the cfg. *)
EXTENDS LRU
==============================================================================
