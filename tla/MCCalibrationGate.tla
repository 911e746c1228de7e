------------------------- MODULE MCCalibrationGate -------------------------
EXTENDS CalibrationGate, TLC
CONSTANTS m1, buy_merge, split_sell
\* The markets are in the longer bucket at 1 and 2 and in the shorter one at 3.
MCEndTime == [m \in Markets |-> 4]
MCEdges == <<2, 4>>
Symmetric == Permutations(Directions)
=============================================================================
