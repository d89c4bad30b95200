SPECIFICATION CompositionSpec
CONSTANTS
  NoTag = NoTag
  Packets <- MCPackets
  WeightVectors = {}
  CycleBudgets = {}
  DefaultCycleBudget = 20
  UintMod = 1024
  MaxQueued = 2
  Sources = {0, 1, 2, 3}
  PacketSize <- OtherSizes
  SetupWeights <- LowBandwidthWeights
  SetupMode = "LOW_BANDWIDTH"
  SharesFrom = 20
  CycleInForce = 20
  MaxSwitches = 0
  MaxVideoLevel = 4
  InitialLevel = 3
  FrameRate = 1
  PacketsPerFrame = 1
  LastFrame = 6
  MaxInFlight = 1
  LevelSize = 2
  MaxOthers = 1
INVARIANTS
  LevelsAgree
CHECK_DEADLOCK FALSE
