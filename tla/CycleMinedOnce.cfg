CONSTANTS
  c1 = c1
  d1 = d1
  p1 = p1
  Trades <- OneCycle
  Directional = {}
  Trips <- OneTrip
  Configs <- OnTestnet
  MaxRetries = 1
  MaxCrashes = 0
SPECIFICATION FairSpec
INVARIANT CycleMinedOnce
CHECK_DEADLOCK FALSE
