SPECIFICATION Spec
CONSTANTS
  Whole = 10
  Steps <- MCSteps
  MaxLive = 2
  TpPercent = 1
  MaxMargin = 3500
  MinAvailable = 50
  ReservePercent = 20
  Accounts <- MCAccounts
  Grain = 200
  Lot = 5
  MinQty = 1
  MaxQty = 10
  MinNotional = 130
  UniformLevels = {1, 2, 3}
  StressDrops = {5, 10, 20}
  Maintenance = 5
  Tracked = {"HYPEUSDT"}
  Candles <- MCCandles
  Configs <- MCConfigs
  EntryQty = 10
  Scale = 100
  FeeRate = 1
  Payments = {0, 3}
  ForeignExecutions <- MCForeign
  LogRows <- MCLog
  MaxCandles = 3
  MaxRows = 1
INVARIANTS LedgerAgrees NothingLost NothingLeftBehind EquityMeasured
  ForecastBounds LiveWithinForecast
  EveryBasketCovered
PROPERTIES ReentryWaits
CHECK_DEADLOCK FALSE
