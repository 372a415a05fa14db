SPECIFICATION FairSpec
CONSTANTS
  c1 = c1
  c2 = c2
  Opener = Opener
  None = None
  Calls <- TwoCalls
  MaxConns = 5
  MaxInFlight = 1
  Configs <- OneConfig
  Timed = {c1}
  Cancellable = {}
PROPERTIES
  TimeoutBoundsCall
CHECK_DEADLOCK FALSE
