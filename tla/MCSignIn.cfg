SPECIFICATION FairSpec
CONSTANTS
  MaxLogins = 2
  OAuthConfigured = TRUE
INVARIANTS TypeOK NothingLeftBehind
PROPERTIES EntryKept PortReleased WaitReturns
CHECK_DEADLOCK FALSE
