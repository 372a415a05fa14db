SPECIFICATION TrackSpec
CONSTANTS
  c1 = c1
  c2 = c2
  Opener = Opener
  None = None
  Calls <- TwoCalls
  MaxConns = 3
  MaxInFlight = 2
  Configs <- SafetyConfigs
  Timed = {}
  Cancellable = {c1, c2}
SYMMETRY Symmetry
INVARIANTS
  TypeOK
  NoReplay
  HandshakeFirst
  OneLiveConn
  InfoOfLiveConn
PROPERTIES
  UsesDispatch
CHECK_DEADLOCK FALSE
