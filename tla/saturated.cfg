SPECIFICATION LinkSpec
CONSTANTS
  NoTag = NoTag
  Packets <- MCPackets
  WeightVectors = {}
  CycleBudgets = {12500}
  DefaultCycleBudget = 12500
  UintMod = 2147483647
  MaxQueued = 1
  Sources = {0, 1, 2, 3}
  PacketSize <- EvenSizes
  SetupWeights <- EmergencyWeights
  SetupMode = "EMERGENCY"
  SharesFrom = 12500
  CycleInForce = 12500
  MaxSwitches = 1
INVARIANTS
  RefusedOnlyForOthers
  CycleEndsOnCompletion
PROPERTIES
  ServedUnlessCrashed
CHECK_DEADLOCK FALSE
