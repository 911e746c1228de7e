SPECIFICATION Spec
CONSTANTS
  m1 = m1
  m2 = m2
  BTC = BTC
  Markets = {m1, m2}
  Directions = {"buy_merge", "split_sell"}
  Sizes = {2}
  MaxPerCycle = 2
  MaxPerMarket = 2
  MaxPerUnderlying = 3
  MaxAggregate = 3
  Rate = 9
  Window = 1
  MaxBookAge = 0
  Day = 1
  DailyLossLimit = 1
  Losses = {0}
  ListLimit = 3
  AnswersLost = FALSE
  MaxCrashes = 1
  MaxTime = 0
  MaxExecutions = 2
  UnderlyingOf <- SameUnderlying
INVARIANTS
  AggregateAtEngine
CHECK_DEADLOCK FALSE
