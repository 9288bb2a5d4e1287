SPECIFICATION FairSpec
CONSTANTS
  Callers = {c1, c2, c3}
  MaxFailures = 2
  MaxHalfOpenRequests = 1
INVARIANTS TypeOK ClosedIffBelowLimit CounterTracksHolders HalfOpenAdmits
PROPERTY AutoRecovery
