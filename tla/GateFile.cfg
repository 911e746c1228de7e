SPECIFICATION FairSpec
CONSTANTS
  Services = {"serve"}
  Diagnostics = {"manual-signal"}
  MaxFailures = 1
  MaxSamples = 2
  MaxStarts = 3
INVARIANTS
  TypeOK
PROPERTIES
  ImplementsAtomicFile
  OneByOneKeepsSamples
  RepairedWhileUp
CHECK_DEADLOCK FALSE
