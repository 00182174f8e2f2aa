SPECIFICATION FairSpec
CONSTANTS
  testnet = testnet
  shadow = shadow
  LastCandle = 3
  Limit = 2
  MinHistory = 2
  Lookback = 1
  MaxRetries = 1
  Modes = {testnet, shadow}
  Written = "/"
  Served = {"", "-"}
  Thresholds <- Defaults
  Streams <- TwoMarkets
INVARIANTS
  CandleTypeOK
  NotAgain
  RecentHistoryComplete
  ApprovedAtMostOnce
  ApprovedInQuietRange
PROPERTIES
  CatchesUp
  
  StopEnds
