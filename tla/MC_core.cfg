SPECIFICATION FairSpec
CONSTANTS
  bnb = bnb
  eth = eth
  Symbols = {bnb}
  TradedSymbols = {bnb}
  Candles = {1, 2}
  Lots = 1
  MaxOpenPositions = 3
  MaxPerSymbol = 1
  RecentLimit = 3
  RawUsed = {"NEW", "FILLED", "CANCELED", "OTHER"}
  SharedSymbols = {}
  MaxDeposits = 1
INVARIANTS
  TypeOK
  UnknownBlocksSubmission
  NoOrphanOrder
  PlacedAtMostOnce
PROPERTIES
  NeverStuck
  TradingStartsSettled
  KeepsPromise
