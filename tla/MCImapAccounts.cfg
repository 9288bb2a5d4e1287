SPECIFICATION FairSpec
CONSTANTS
  MaxLoads = 2
  MaxOutages = 1
INVARIANTS TypeOK ConnectedAccountsSync NilOnlyAfterCancel
PROPERTIES SyncEndsWithClient
CHECK_DEADLOCK FALSE
