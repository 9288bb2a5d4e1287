SPECIFICATION Spec
CONSTANTS
  Receivers = {a}
  GmailAccounts = {a}
  Workers = {w1}
  Senders = {s1}
  Objects = {o1, o2, o3}
  MaxMails = 3
  MaxDrafts = 1
  MaxMishaps = 1
  ForwardsKeepReferences = FALSE
SYMMETRY Symmetry
VIEW LiveView
INVARIANTS TypeOK RoomsUnmixed RepliesUnmixed RepliesThreaded ThreadingNotLost
CHECK_DEADLOCK FALSE
