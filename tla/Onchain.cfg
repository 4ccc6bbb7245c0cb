CONSTANTS
  c1 = c1
  d1 = d1
  p1 = p1
  Trades <- CycleAndDirectional
  Directional <- OnlyDirectional
  Trips <- OneTrip
  Configs <- AnyConfig
  MaxRetries = 2
  MaxCrashes = 1
SPECIFICATION FairSpec
INVARIANTS OnchainTypeOK NonceGivenOnce GapNeedsException
PROPERTIES EveryTradeReturns ImplementsSettlement
CHECK_DEADLOCK FALSE
