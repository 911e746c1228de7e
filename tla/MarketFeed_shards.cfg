SPECIFICATION FairFeedSpec
CONSTANTS
  Markets = {1, 2}
  Outcomes = 1
  MaxPerShard = 1
  MaxTotal = 2
  MaxLists = 3
  MaxDrops = 2
  MaxVersion = 2
INVARIANTS
  FeedTypeOK
  BookIsReal
  BooksAreSubscribed
PROPERTIES
  MaintainsUnshared
CHECK_DEADLOCK FALSE
