-------------------------- MODULE MCChainAnalytics --------------------------
\* A small instance of ChainAnalytics for TLC: an alert on a chain and a quote,
\* and one on two chains, of which one is shared.
EXTENDS ChainAnalytics

CONSTANTS a1, a2, k1, k2, q1, c1, c2

MCDependsOn == [a \in Alert |-> IF a = a1 THEN {k1, q1} ELSE {k1, k2}]
=============================================================================
