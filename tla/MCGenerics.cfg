CONSTANTS
  Conds = {"a", "b"}
  Calls <- MCCalls
  ScopeFns = {"s1", "s2", "s3"}
  ScopeDoes <- MCScopes
  Preludes <- MCPreludes
  MaxSteps = 3
  Room4Ops = 2
  MaxGens = 3
  Liberties = {}
SPECIFICATION GSpec
CHECK_DEADLOCK FALSE
INVARIANT SentAsAsked
PROPERTIES SharedIsFrozen GenericIsFrozen
