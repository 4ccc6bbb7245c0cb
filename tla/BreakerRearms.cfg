CONSTANTS
  c1 = c1
  c2 = c2
  d1 = d1
  Trades <- OneOfEach
  Directional <- DirectionalOnly
  MaxConcurrent = 1
  FailThreshold = 1
  ReadCount = 2
  ExecReadCount = 2
  ExecModes = {"off"}
  Divergences = {TRUE, FALSE}
  MaxFaults = 1
SPECIFICATION FairSpec
PROPERTY BreakerRearms
