---------------------------- MODULE MCDecisionLog ----------------------------
EXTENDS DecisionLog
CONSTANTS m1
=============================================================================
