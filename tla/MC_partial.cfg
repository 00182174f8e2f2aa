SPECIFICATION Spec
CONSTANTS
  testnet = testnet
  shadow = shadow
  LastCandle = 3
  Limit = 2
  MinHistory = 1
  Lookback = 2
  MaxRetries = 1
  Modes = {testnet}
  Written = "/"
  Served = {"", "-"}
  Thresholds <- Defaults
  Streams <- CalmMarket
INVARIANTS
  OnlyFinalCandles
