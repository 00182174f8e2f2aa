SPECIFICATION Spec
CONSTANTS
  testnet = testnet
  shadow = shadow
  LastCandle = 3
  Limit = 3
  MinHistory = 1
  Lookback = 2
  MaxRetries = 0
  Modes = {testnet}
  Written = "/"
  Served = {"", "-"}
  Thresholds <- Defaults
  Streams <- CalmMarket
PROPERTIES
  NoCandleSkipped
