CONSTANTS
  c1 = c1
  c2 = c2
  d1 = d1
  Trades <- TwoCycles
  Directional <- NoDirectional
  MaxConcurrent = 1
  FailThreshold = 2
  ReadCount = 2
  ExecReadCount = 1
  ExecModes = {"off"}
  Divergences = {TRUE, FALSE}
  MaxFaults = 1
SPECIFICATION FairSpec
INVARIANTS PipelineOrder UnknownStrategyNeedsRestart FilledTradesForgotten StreakMatchesStream
PROPERTIES EveryProposalSettles PositionsDrain BreakerCools
