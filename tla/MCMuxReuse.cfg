SPECIFICATION Spec
CONSTANTS
  c1 = c1
  c2 = c2
  c3 = c3
  c4 = c4
  Reader = Reader
  Closer = Closer
  None = None
  Calls <- FourCalls
  IdSpace = 4
  FirstIDs = {1}
  PushPolicies = {"reserved"}
  BadFrames = {}
  MaxDup = 0
  MayStall = FALSE
  Timed = {}
  Hooked = {}
INVARIANTS
  NoLostWaiter
CHECK_DEADLOCK FALSE
