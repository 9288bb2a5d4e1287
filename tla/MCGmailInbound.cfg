SPECIFICATION Spec
CONSTANTS
  Pollers = {p1, p2}
  Kinds = {"wanted"}
  MaxRecords = 2
  MaxGrants = 2
SYMMETRY Symmetry
VIEW LiveView
INVARIANTS TypeOK CursorCoversOnlySettled OnlyRegisteredActive
PROPERTIES CursorOnlyAdvances DeliversAsPromised
CHECK_DEADLOCK FALSE
