SPECIFICATION LinkSpec
CONSTANTS
  NoTag = NoTag
  Packets <- MCPackets
  WeightVectors <- MCWeightVectors
  CycleBudgets = {12500}
  DefaultCycleBudget = 12500
  UintMod = 2147483647
  MaxQueued = 1
  Sources = {0, 1, 2}
  PacketSize <- EvenSizes
  SetupWeights <- DefaultWeights
  SetupMode = "NORMAL"
  SharesFrom = 12500
  CycleInForce = 12500
  MaxSwitches = 0
INVARIANTS
  RefusedOnlyForOthers
CHECK_DEADLOCK FALSE
