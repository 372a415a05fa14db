SPECIFICATION FairSpec
CONSTANTS
  Base = 2
  HeaderLen = 2
  Cap = 2
  Bodies <- MCBodies
  Undecodable <- MCUndecodable
  MaxSent = 2
INVARIANTS
  TypeOK
  FramesSurvive
  SplitsAlike
PROPERTIES
  AllArrive
CHECK_DEADLOCK FALSE
