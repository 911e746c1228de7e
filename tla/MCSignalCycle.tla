--------------------------- MODULE MCSignalCycle ---------------------------
EXTENDS SignalCycle, TLC
CONSTANTS m1, m2, BTC
SameUnderlying == [m \in Markets |-> BTC]
ProfitOrLoss == {-1, 1}
Symmetric == Permutations(Markets)
=============================================================================
