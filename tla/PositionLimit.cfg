CONSTANTS
  c1 = c1
  c2 = c2
  d1 = d1
  Trades <- OneOfEach
  Directional <- DirectionalOnly
  MaxConcurrent = 1
  FailThreshold = 3
  ReadCount = 2
  ExecReadCount = 1
  ExecModes = {"paper"}
  Divergences = {FALSE}
  MaxFaults = 0
SPECIFICATION Spec
INVARIANT PositionsWithinLimit
