SPECIFICATION Spec
CONSTANTS
  Loops = {l1}
  Watchdogs = {dog}
  Starters = {s1}
  MaxAttempts = 2
  MaxMishaps = 2
  MaxFailures = 2
  MaxHalfOpenRequests = 1
INVARIANTS TypeOK BreakerNotWedged OneReconnectAtATime
PROPERTIES ConnectingReleased ReconnectsWhileClosed DownIsReported
CHECK_DEADLOCK FALSE
