SPECIFICATION Spec
CONSTANTS
  Loops = {l1}
  Watchdogs = {}
  Starters = {s1}
  MaxAttempts = 2
  MaxMishaps = 1
  MaxFailures = 2
  MaxHalfOpenRequests = 1
PROPERTY LoopReconnects
CHECK_DEADLOCK FALSE
