---------------------------- MODULE MCFyersFeed ----------------------------
\* A small instance of FyersFeed for TLC.
EXTENDS FyersFeed, TLC

CONSTANTS k1, k2, c1, l1

\* The first tick of k1 is one the normalizer refuses.
RefusedTick == {<<k1, 1>>}
=============================================================================
