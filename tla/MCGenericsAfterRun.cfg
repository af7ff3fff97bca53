CONSTANTS
  Conds = {"a", "b"}
  Calls <- MCCalls
  ScopeFns = {"s1", "s2", "s3"}
  ScopeDoes <- MCScopes
  Preludes <- MCPreludes
  MaxSteps = 3
  Room4Ops = 2
  MaxGens = 1
  Liberties = {"add_after_run"}
SPECIFICATION GSpec
CHECK_DEADLOCK FALSE
INVARIANT DeletedHidden
