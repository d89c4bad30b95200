SPECIFICATION VideoSpec
CONSTANTS
  MaxVideoLevel = 4
  InitialLevel = 4
  FrameRate = 1
  PacketsPerFrame = 2
  PriorityUplink = FALSE
  PriorityDownlink = FALSE
  LastFrame = 8
  MaxInFlight = 4
INVARIANTS
  VideoTypeOK
  LevelsAgree
  OldCountTakesBackOneRaise
PROPERTIES
  FramesCountedOnce
  FollowsClient
