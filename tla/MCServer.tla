------------------------------ MODULE MCServer ------------------------------
\* A small instance of Server for TLC.
EXTENDS Server

CONSTANTS v1, n1, n2, i1, r1, r2, h1, h2, s1, s2, fo, cm

MCToken == [i \in Instrument |-> i]

MCFirstLists == {List(1, n1), List(2, n2)}
MCFirstItems == {Item(1, 1, i1), Item(2, 2, i1)}
=============================================================================
