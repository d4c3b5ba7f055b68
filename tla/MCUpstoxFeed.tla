---------------------------- MODULE MCUpstoxFeed ----------------------------
\* A small instance of UpstoxFeed for TLC.
EXTENDS UpstoxFeed, TLC

CONSTANTS k1, k2, c1, c2, l1

=============================================================================
