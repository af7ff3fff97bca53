--------------------------- MODULE MCAssociations ---------------------------
EXTENDS Associations, TLC

Mode == {"append", "replace", "delete", "preload", "set_create"}
\* The unlinking of the generics API on a many-to-many goes beyond its owners:
\* it is looked at on its own.
MCCalls == [k \in Kinds |-> IF k = "many2many" THEN Mode ELSE Mode \cup {"set_unlink", "set_delete"}]
SetCalls == [k \in Kinds |-> {"append", "set_unlink"}]

u1 == "u1"
u2 == "u2"
MCOwners == {u1, u2}
MCOwnerLists == {<<u1>>, <<u1, u2>>}
Symmetric == Permutations(Others) \cup Permutations(Programs)
============================================================================
