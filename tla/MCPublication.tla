--------------------------- MODULE MCPublication ----------------------------
\* A small instance of Publication for TLC.
EXTENDS Publication

CONSTANTS c1, a1, a2, p1, p2, s1

Owners == [a \in {a1, a2} |-> c1]

Number(n) == [kind |-> "number", value |-> n]

\* A threshold on the ticks of a price, and a watcher of everything the alert
\* engine itself says.
Conditions ==
    (a1 :> [event_type |-> "tick", operator |-> "gte", value |-> Number(1)])
    @@ (a2 :> [event_type |-> None, operator |-> "ne", value |-> Number(1)])

\* A persistent event for the followers of a topic, without the price, and a
\* fleeting broadcast, a tick of a price that reaches the threshold.
Feed == {[persistent |-> TRUE, routing |-> [targets |-> {}, topics |-> {"t"}],
          type |-> "news", data |-> [kind |-> "missing", value |-> 0]],
         [persistent |-> FALSE, routing |-> Broadcast, type |-> "tick", data |-> Number(1)]}

Symmetry == Permutations(Task)
=============================================================================
