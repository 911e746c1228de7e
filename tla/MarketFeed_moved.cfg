SPECIFICATION FairFeedSpec
CONSTANTS
  Markets = {1, 2}
  Outcomes = 1
  MaxPerShard = 1
  MaxTotal = 2
  MaxLists = 3
  MaxDrops = 0
  MaxVersion = 0
PROPERTIES
  MaintainsBooks
CHECK_DEADLOCK FALSE
