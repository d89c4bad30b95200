SPECIFICATION MetricsSpec
CONSTANTS
  Delays = {1, 2, 5}
  MaxPackets = 6
INVARIANTS
  MeansWithinSamples
  IntervalDelayWithinSamples
  IntervalJitterAtMostDoubled
