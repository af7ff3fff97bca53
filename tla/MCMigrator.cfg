SPECIFICATION Spec
CONSTANTS
  Programs = {m1, m2}
  Columns <- MCColumns
  Unique <- MCUnique
  Checks <- MCChecks
  Indexes <- MCIndexes
  Relations <- MCRelations
  Calls <- MCCalls
  Configs <- MCConfigs
  Databases <- MCDatabases
  Knowns <- MCKnowns
  Orders <- MCOrders
  MaxFaults = 2
INVARIANTS NilMeansMigrated AloneSucceeds
PROPERTIES EveryTableMigrated
