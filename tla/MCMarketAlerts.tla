-------------------------- MODULE MCMarketAlerts ---------------------------
\* Small instances of MarketAlerts for TLC.
EXTENDS MarketAlerts, TLC

CONSTANTS ltp, t1, t2

\* A high price fires both level rules, a low one the last.  The crossing rule
\* between them shares their instrument, and so its previous value.
Operators == <<"gt", "crosses_above", "lt">>

Thresholds == <<1, 1, 3>>

SameField == <<ltp, ltp, ltp>>

Ltp(value, exchange_ts) ==
    [fields |-> [f \in Field |-> value], exchange_ts |-> exchange_ts]

\* A low and a high price at two exchange times, a cleared price, and a patch
\* that reports neither the price nor a time.
Patches == {Ltp(0, 1), Ltp(2, 2), Ltp(None, 1), Ltp(Absent, None)}

Symmetry == Permutations(Task)
=============================================================================
