SPECIFICATION Spec
CONSTANTS
  Programs = {p, q}
  Owners <- MCOwners
  Others = {x, y}
  Kinds = {"belongs_to", "has", "many2many"}
  Calls <- MCCalls
  OwnerLists <- MCOwnerLists
  MaxCalls = 2
  MaxFaults = 1
INVARIANTS DoneAsAsked NeverBare PreloadAgrees
PROPERTY OthersUntouched
SYMMETRY Symmetric
CHECK_DEADLOCK FALSE
