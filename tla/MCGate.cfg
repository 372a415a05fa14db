SPECIFICATION FairSpec
CONSTANTS
  c1 = c1
  c2 = c2
  c3 = c3
  Callers <- MCCallers
  Limit = 2
INVARIANTS
  TypeOK
  PermitAccounting
PROPERTIES
  ImplementsInFlight
  AcquireReturns
