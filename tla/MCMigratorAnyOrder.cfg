SPECIFICATION Spec
CONSTANTS
  Programs = {m1}
  Columns <- MCColumns
  Unique <- MCUnique
  Checks <- MCChecks
  Indexes <- MCIndexes
  Relations <- MCRelations
  Calls <- AnyOrderCalls
  Configs <- MCConfigs
  Databases <- MCDatabases
  Knowns <- MCKnowns
  Orders <- MCOrders
  MaxFaults = 0
INVARIANT AloneSucceeds
