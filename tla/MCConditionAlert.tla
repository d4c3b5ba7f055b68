-------------------------- MODULE MCConditionAlert --------------------------
\* A small instance of ConditionAlert for TLC: leaves on quotes of two
\* instruments and on an option chain.
EXTENDS ConditionAlert, TLC

CONSTANTS f1, f2, i1, i2, cross, level, metric

MCInstrumentOf == [l \in Leaf \ Analytics |-> IF l = cross THEN i1 ELSE i2]

\* The properties say nothing of a disturbed alert until it is re-armed, so what
\* waits for the lock of one is not followed further.
Undisturbed == disturbed => \A f \in Feed : feed[f].pc # "queued"

Symmetry == Permutations(Feed)
=============================================================================
