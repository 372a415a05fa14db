SPECIFICATION Spec
CONSTANTS
  c1 = c1
  c2 = c2
  Opener = Opener
  None = None
  Calls <- TwoCalls
  MaxConns = 5
  MaxInFlight = 2
  Configs <- OneConfig
  Timed = {}
  Cancellable = {}
INVARIANTS
  CloseShutsSocket
CHECK_DEADLOCK FALSE
