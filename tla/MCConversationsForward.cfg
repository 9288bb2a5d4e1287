SPECIFICATION Spec
CONSTANTS
  Receivers = {a}
  GmailAccounts = {}
  Workers = {w1}
  Senders = {s1}
  Objects = {o1, o2, o3}
  MaxMails = 4
  MaxDrafts = 0
  MaxMishaps = 0
  ForwardsKeepReferences = TRUE
SYMMETRY Symmetry
VIEW LiveView
INVARIANTS RoomsUnmixed
CHECK_DEADLOCK FALSE
