SPECIFICATION Spec
CONSTANTS
  m1 = m1
  Markets = {m1}
  Rejections = {"no_profitable_depth", "market_not_subscribable"}
  Heartbeat = 2
  StoreFails = TRUE
  MaxRestarts = 1
  MaxTime = 3
  MaxDecisions = 4
INVARIANTS
  TypeOK
  RepeatsAreSpaced
PROPERTIES
  SilenceIsExplained
CHECK_DEADLOCK FALSE
