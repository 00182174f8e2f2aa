SPECIFICATION Spec
CHECK_DEADLOCK FALSE
CONSTANTS
  Symbols = {"BNB", "ETH", "SOL"}
  Streams <- ThreeSymbols
  Supported <- Every
  Horizon = 3
  Prices = {1, 2}
  Allocation = 2
  MaxSymbolExposure = 4
  MaxTotalExposure = 5
  MaxDailyLoss = 1
  MaxDrawdown = 2
  Cooldown = 2
  MaxOpenPositions = 2
  MaxPerSymbol = 1
  KillSwitch = FALSE
  Scale = 10
  Slippage = 1
  Fee = 1
  FillDiv = 1
INVARIANTS
  ReplayTypeOK
  PositionsWithinLimits
  EntriesSpaced
  NoPriceFromTheFuture
PROPERTIES
  ExposureWithinLimits
