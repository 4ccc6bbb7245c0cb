CONSTANTS
  Pools <- TwoPools
  Lag = 1
  WARMUP = 1
  Signals <- ThreeSignals
  MaxJobs = 1
  Configs <- PollingOrStreaming
  MaxBlocks = 1
  Loads <- OneTimer
  MaxBoots = 1
  MaxPaper = 1
SPECIFICATION Spec
INVARIANT DegradesToRedisOnly
CHECK_DEADLOCK FALSE
