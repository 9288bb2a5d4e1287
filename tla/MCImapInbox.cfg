SPECIFICATION Spec
CONSTANTS
  Loops = {l1, l2}
  Commands = {c1}
  MaxUID = 3
  BackfillMax = 1
SYMMETRY Symmetry
VIEW LiveView
INVARIANTS TypeOK MailAccounted InFlightExclusive IdlingCanBeStopped
CHECK_DEADLOCK FALSE
PROPERTY DeliversAsPromised
