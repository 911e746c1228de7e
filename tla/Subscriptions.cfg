SPECIFICATION FairSpec
CONSTANTS
  Items = {1, 2, 3, 4}
  PageLimit = 1
  MaxPages = 3
  MaxFaults = 2
  Outcomes = 2
  MaxPerShard = 5
  MaxTotal = 10
  Markets <- MCMarkets
  MarketsOf <- MCMarketsOf
  Eligible <- MCEligible
  Tradable <- MCTradable
INVARIANTS
  TypeOK
  OutagesBoundedByClosings
  WithinCapacity
  PairsTogether
  PlacedIfTheyFit
PROPERTIES
  ListingIsServed
