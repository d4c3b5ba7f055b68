------------------------------ MODULE MCReplay ------------------------------
\* A small instance of ReplayService for TLC: one consumer pages, and another
\* one holds events back from pruning.
EXTENDS ReplayService

CONSTANTS c1, c2
=============================================================================
