SPECIFICATION Spec
CONSTANTS
  Pollers = {p1, p2}
  Kinds = {"wanted", "filtered"}
  MaxRecords = 2
  MaxGrants = 2
PROPERTY SignInSticks
CHECK_DEADLOCK FALSE
