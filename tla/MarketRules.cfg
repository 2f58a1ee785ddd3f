SPECIFICATION Spec
CONSTANTS
  None = None
  CacheSize = 2
  PushdownK = 1
  MaxExpsPerSubchunk = 1
  BusinessDay <- MCBusinessDay
  LastTradingDay <- MCLastTradingDay
  Worlds <- MCWorlds
  Listing <- MCListing
  TradingDays <- MCTradingDays
  Day <- MCDay
  Configs <- MCConfigs
  Instruments <- MCInstruments
  Legs <- MCLegs
  HeldLegs <- MCHeldLegs
  Asks <- MCAsks
INVARIANTS
  HoldsTheRankth
  ReturnsAreReal
  ServedIsOwn
  LegsAreExact
PROPERTY PastStands
\* The days of a world end.
CHECK_DEADLOCK FALSE
