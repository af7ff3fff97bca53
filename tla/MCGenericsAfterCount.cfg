CONSTANTS
  Conds = {"a", "b"}
  Calls <- MCCalls
  ScopeFns = {"s1", "s2", "s3"}
  ScopeDoes <- MCScopes
  Preludes <- MCPreludes
  MaxSteps = 3
  Room4Ops = 2
  MaxGens = 1
  Liberties = {"go_on_after_count"}
SPECIFICATION GSpec
CHECK_DEADLOCK FALSE
INVARIANT SentAsAsked
