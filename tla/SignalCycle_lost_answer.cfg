SPECIFICATION Spec
CONSTANTS
  m1 = m1
  m2 = m2
  BTC = BTC
  Markets = {m1}
  Directions = {"buy_merge", "split_sell"}
  Sizes = {1}
  MaxPerCycle = 2
  MaxPerMarket = 2
  MaxPerUnderlying = 3
  MaxAggregate = 3
  Rate = 3
  Window = 1
  MaxBookAge = 1
  Day = 1
  DailyLossLimit = 1
  Losses = {0}
  ListLimit = 3
  AnswersLost = TRUE
  MaxCrashes = 0
  MaxTime = 1
  MaxExecutions = 2
  UnderlyingOf <- SameUnderlying
INVARIANTS
  NoSecondCycle
CHECK_DEADLOCK FALSE
