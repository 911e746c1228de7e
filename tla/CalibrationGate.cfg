SPECIFICATION Spec
CONSTANTS
  m1 = m1
  buy_merge = buy_merge
  split_sell = split_sell
  Markets = {m1}
  Directions = {buy_merge, split_sell}
  MinAge = 1
  MinCycles = 1
  Profits = {1}
  WritesFail = TRUE
  MaxCrashes = 1
  MaxTime = 3
  MaxEpisodes = 2
  EndTime <- MCEndTime
  Edges <- MCEdges
SYMMETRY Symmetric
INVARIANTS
  TypeOK
  OneOpenEpisode
  EpisodesCounted
  OpenGateIsMature
PROPERTIES
  SavedOnlyGrows
CHECK_DEADLOCK FALSE
