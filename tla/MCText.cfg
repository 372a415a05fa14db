SPECIFICATION Spec
CONSTANTS
  MaxMessage = 6
  MaxMore = 4
INVARIANTS
  ErrorsRight
  EndpointsRight
  DialsRight
CHECK_DEADLOCK FALSE
