CONSTANTS
  Pools <- TwoPools
  Lag = 1
  WARMUP = 1
  Signals <- ThreeSignals
  MaxJobs = 2
  Configs <- PollingOrStreaming
  MaxBlocks = 2
  Loads <- SomeLoads
  MaxBoots = 2
  MaxPaper = 1
SPECIFICATION FairSpec
INVARIANTS IngestionTypeOK PoolExplained RegimeEventsChain PairMirrorsMemory
PROPERTIES EveryJobEnds
CHECK_DEADLOCK FALSE
