SPECIFICATION Spec
CONSTANTS
  c1 = c1
  c2 = c2
  c3 = c3
  c4 = c4
  Reader = Reader
  Closer = Closer
  None = None
  Calls <- TwoCalls
  IdSpace = 4
  FirstIDs = {2}
  PushPolicies = {"enabled", "reserved"}
  BadFrames = {"too_large", "decode"}
  MaxDup = 1
  MayStall = TRUE
  Timed = {c1, c2}
  Hooked = {c1, c2}
SYMMETRY Symmetry
INVARIANTS
  TypeOK
  SendsOnce
  NoLostWaiter
  RightAnswer
  SameTypedError
  NoPendingLeak
  LostOnlyIfGone
  HookCallUnanswered
PROPERTIES
  ImplementsDispatch
CHECK_DEADLOCK FALSE
