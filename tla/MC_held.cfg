SPECIFICATION Spec
CONSTANTS
  testnet = testnet
  shadow = shadow
  LastCandle = 4
  Limit = 4
  MinHistory = 1
  Lookback = 3
  MaxRetries = 0
  Modes = {testnet}
  Written = "/"
  Served = {"", "-"}
  Thresholds <- Defaults
  Streams <- ChangingMarket
INVARIANTS
  HeldMeansHalf
