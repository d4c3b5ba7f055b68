----------------------------- MODULE MCTbtFeed -----------------------------
\* A small instance of TbtFeed for TLC.
EXTENDS TbtFeed, TLC

CONSTANTS s1, c1, c2

=============================================================================
