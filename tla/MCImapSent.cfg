SPECIFICATION FairSpec
CONSTANTS
  s1 = s1
  Starters = {s1}
  MaxDials = 3
  MaxPending = 2
INVARIANTS TypeOK CurrentHearsDisconnect SentNotForgotten LiveSentReported
PROPERTIES LostIsRetried
CHECK_DEADLOCK FALSE
