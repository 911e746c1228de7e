SPECIFICATION Spec
CONSTANTS
  Candidates = 2
  Gap = 1
  MinCoverage = 5000
  MinTrain <- OneEpisode
  MinValidation <- OneEpisode
  MinHoldout <- OneEpisode
  Markets = {1, 2}
  Quotes <- MCQuotes
  Best <- MCBest
  MaxAge = 1
  MaxSkew = 0
  BatchSize = 2
  Worlds <- MCWorlds
  MaxTime = 10
INVARIANTS
  TypeOK
  CalibrationIsExact
  ReplayIsExact
  EpisodesBelongTogether
  HoldoutIsUntouched
CHECK_DEADLOCK FALSE
