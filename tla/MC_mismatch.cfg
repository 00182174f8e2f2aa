SPECIFICATION Spec
CONSTANTS
  bnb = bnb
  eth = eth
  Symbols = {bnb}
  TradedSymbols = {bnb}
  Candles = {1}
  Lots = 1
  MaxOpenPositions = 3
  MaxPerSymbol = 1
  RecentLimit = 3
  RawUsed = {"FILLED"}
  SharedSymbols = {}
  MaxDeposits = 0
INVARIANTS
  MismatchRepaired
