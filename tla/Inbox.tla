-------------------------------- MODULE Inbox --------------------------------
(***************************************************************************)
(* What durable delivery promises a consumer, with none of the tables,     *)
(* checkpoints, pages or pruning that provide it: every published event is *)
(* owed to its audience, the audience is fixed when the event is           *)
(* published, and a debt is settled by that consumer's acknowledgement and *)
(* by nothing else.  EventStore implements this specification.             *)
(***************************************************************************)
EXTENDS Naturals

CONSTANTS Consumer, Topic, Broadcast

VARIABLES registered,   \* the consumers that exist
          subscribed,   \* the topics each consumer follows
          published,    \* how many events were ever published
          owed          \* pairs <<consumer, number of an event it still has to settle>>

vars == <<registered, subscribed, published, owed>>

Routing == {Broadcast} \cup [targets : SUBSET Consumer, topics : SUBSET Topic]

Followers(topics) == {c \in Consumer : subscribed[c] \cap topics # {}}

Audience(routing) ==
    IF routing = Broadcast
    THEN registered
    ELSE registered \cap (routing.targets \cup Followers(routing.topics))

Init ==
    /\ registered = {}
    /\ subscribed = [c \in Consumer |-> {}]
    /\ published = 0
    /\ owed = {}

Register(c) ==
    /\ registered' = registered \cup {c}
    /\ UNCHANGED <<subscribed, published, owed>>

Subscribe(c, t) ==
    /\ c \in registered
    /\ subscribed' = [subscribed EXCEPT ![c] = @ \cup {t}]
    /\ UNCHANGED <<registered, published, owed>>

Publish(routing) ==
    /\ published' = published + 1
    /\ owed' = owed \cup (Audience(routing) \X {published + 1})
    /\ UNCHANGED <<registered, subscribed>>

Settle(c, n) ==
    /\ <<c, n>> \in owed
    /\ owed' = owed \ {<<c, n>>}
    /\ UNCHANGED <<registered, subscribed, published>>

Next ==
    \/ \E c \in Consumer : Register(c)
    \/ \E c \in Consumer, t \in Topic : Subscribe(c, t)
    \/ \E routing \in Routing : Publish(routing)
    \/ \E c \in Consumer, n \in 1..published : Settle(c, n)

Spec == Init /\ [][Next]_vars
=============================================================================
