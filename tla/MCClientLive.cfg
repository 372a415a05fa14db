SPECIFICATION FairSpec
CONSTANTS
  c1 = c1
  c2 = c2
  Opener = Opener
  None = None
  Calls <- TwoCalls
  MaxConns = 4
  MaxInFlight = 2
  Configs <- LiveConfigs
  Timed = {c1}
  Cancellable = {c2}
INVARIANTS
  RedialBudget
PROPERTIES
  AdmittedReturns
CHECK_DEADLOCK FALSE
