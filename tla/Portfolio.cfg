SPECIFICATION FairSpec
CONSTANTS
  hype = hype
  ondo = ondo
  Symbols <- TwoSymbols
  MaxLevel = 1
  Cost <- GrowingCost
  MaxQuotes <- OneRequoted
  Slippage <- OneSlips
  Leverage <- MixedLeverage
  MarginLimit = 4
  NotionalLimit = 6
  Equity = 6
  Floor = 1
  DeepLevel = 1
  MaxDeep = 1
  MaxFaults = 1
  MaxRestarts = 1
  MaxOutside = 1
INVARIANTS TypeOK EveryOrderCounted WithinLimits ReserveKept
PROPERTIES NoPhantomBlocks
CHECK_DEADLOCK FALSE
