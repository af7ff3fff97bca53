SPECIFICATION Spec
CONSTANTS
  Programs = {p, q}
  Owners <- MCOwners
  Others = {x, y}
  Kinds = {"many2many"}
  Calls <- SetCalls
  OwnerLists <- MCOwnerLists
  MaxCalls = 2
  MaxFaults = 0
PROPERTY OthersUntouched
CHECK_DEADLOCK FALSE
