---------------------------- MODULE MCHttpPoller ----------------------------
\* A small instance of HttpPoller for TLC.
EXTENDS HttpPoller

\* Every kind of upstream but the one that lists its newest items first and
\* answers with what is newer than the cursor.
AllButNewestSince ==
    [newestFirst : BOOLEAN, honoursCursor : BOOLEAN]
        \ {[newestFirst |-> TRUE, honoursCursor |-> TRUE]}
=============================================================================
