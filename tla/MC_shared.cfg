SPECIFICATION Spec
CONSTANTS
  bnb = bnb
  eth = eth
  Symbols = {bnb, eth}
  TradedSymbols = {bnb}
  Candles = {1}
  Lots = 2
  MaxOpenPositions = 3
  MaxPerSymbol = 1
  RecentLimit = 3
  RawUsed = {"NEW", "FILLED", "OTHER"}
  SharedSymbols = {eth}
  MaxDeposits = 0
INVARIANTS
  UnknownBlocksSubmission
  PositionsExplained
PROPERTIES
  KeepsPromise
