CONSTANTS
  c1 = c1
  c2 = c2
  d1 = d1
  Trades <- OneOfEach
  Directional <- DirectionalOnly
  MaxConcurrent = 2
  FailThreshold = 3
  ReadCount = 2
  ExecReadCount = 1
  ExecModes = {"paper"}
  Divergences = {FALSE}
  MaxFaults = 1
SPECIFICATION Spec
INVARIANTS TypeOK PublishedOnce PositionsExplained LedgerMatchesStream
PROPERTY ImplementsProtocol
