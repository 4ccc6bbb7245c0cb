CONSTANTS
  Mounts = 2
  FeedCap = 2
  EquityCap = 2
  LogCap = 2
  MaxRefresh = 2
  MaxAsks = 2
  MaxLog = 3
  Pnls <- TwoFigures
  Regimes <- TwoRegimes
  MaxLoads = 2
  Timelines <- ShortTimelines
  MarketStates <- BothStates
  Scenes <- SomeScenes
SPECIFICATION FairSpec
INVARIANTS WebTypeOK AtMostOneLeak EquityCurve BusyMeansAsking UnreachableTold TimelineGraph
PROPERTIES FeedKeepsTrying BannerFollowsTrip FiguresCatchUp LoadingEnds
CHECK_DEADLOCK FALSE
