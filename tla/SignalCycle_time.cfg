SPECIFICATION FairSpec
CONSTANTS
  m1 = m1
  m2 = m2
  BTC = BTC
  Markets = {m1}
  Directions = {"buy_merge"}
  Sizes = {1}
  MaxPerCycle = 2
  MaxPerMarket = 9
  MaxPerUnderlying = 9
  MaxAggregate = 9
  Rate = 2
  Window = 2
  MaxBookAge = 0
  Day = 1
  DailyLossLimit = 1
  ListLimit = 3
  AnswersLost = TRUE
  MaxCrashes = 0
  MaxTime = 2
  MaxExecutions = 3
  UnderlyingOf <- SameUnderlying
  Losses <- ProfitOrLoss
INVARIANTS
  OneOpenCycle
  RateWindow
  LossStopsSubmissions
PROPERTIES
  ActivePairReleased
  BlockLifts
CHECK_DEADLOCK FALSE
