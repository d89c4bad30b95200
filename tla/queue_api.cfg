SPECIFICATION Spec
CONSTANTS
  NoTag = NoTag
  Packets <- MCPackets
  WeightVectors <- MCWeightVectors
  CycleBudgets = {10, 20}
  DefaultCycleBudget = 10
  UintMod = 1024
  MaxQueued = 2
INVARIANTS
  TypeOK
  SentWithinBudget
  CycleNotOversubscribed
PROPERTIES
  CycleEndsWhenSharesSpent
  ImplementsShareScheduler
