SPECIFICATION Spec
CONSTANTS
  MaxLoads = 1
  MaxOutages = 0
PROPERTIES LogoutSticks
CHECK_DEADLOCK FALSE
