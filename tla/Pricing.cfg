SPECIFICATION Spec
CONSTANTS
  One = 10
  Directions = {"buy_merge", "split_sell"}
  FeeRate = 1
  SlippageBps = 100
  Latency = 7
  Orphan = 5
  Grain = 10
  MinProfit = 10
  MinReturnBps = 1
  DepthNum = 1
  DepthDen = 2
  BandLow = 4
  BandHigh = 6
  MaxPerCycle = 2500
  TickTolerance = 1
  Books <- AllBooks
INVARIANTS
  TypeOK
  FinalIsExecutable
  NothingBetterLeft
CHECK_DEADLOCK FALSE
