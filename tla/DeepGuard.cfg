SPECIFICATION Spec
CONSTANTS
  hype = hype
  ondo = ondo
  Symbols <- TwoSymbols
  MaxLevel = 1
  Cost <- GrowingCost
  MaxQuotes <- OneQuote
  Slippage <- NoSlippage
  Leverage <- MixedLeverage
  MarginLimit = 6
  NotionalLimit = 20
  Equity = 20
  Floor = 1
  DeepLevel = 1
  MaxDeep = 1
  MaxFaults = 0
  MaxRestarts = 0
  MaxOutside = 0
INVARIANTS DeepBounded
CHECK_DEADLOCK FALSE
