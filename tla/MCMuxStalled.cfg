SPECIFICATION FairSpec
CONSTANTS
  c1 = c1
  c2 = c2
  c3 = c3
  c4 = c4
  Reader = Reader
  Closer = Closer
  None = None
  Calls <- TwoCalls
  IdSpace = 4
  FirstIDs = {1}
  PushPolicies = {"reserved"}
  BadFrames = {}
  MaxDup = 0
  MayStall = TRUE
  Timed = {c1, c2}
  Hooked = {}
PROPERTIES
  ContextBoundsCall
CHECK_DEADLOCK FALSE
