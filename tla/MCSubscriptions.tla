--------------------------- MODULE MCSubscriptions ---------------------------
EXTENDS Subscriptions
\* Events of several markets; one market of item 2 does not take orders yet, and the
\* market of item 3 is not eligible.  Ids do not follow the end dates.
MCMarketsOf == <<<<13, 15>>, <<11, 16>>, <<12>>, <<10, 14, 17>>>>
MCMarkets == 10 .. 17
MCEligible == {10, 11, 13, 14, 15, 16, 17}
MCTradable == {10, 11, 13, 14, 15, 17}
=============================================================================
