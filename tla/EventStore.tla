----------------------------- MODULE EventStore -----------------------------
(***************************************************************************)
(* The durable event store: the tables of core/persistence and one action  *)
(* per EventStore method that writes them.  Every method opens its own     *)
(* SQLite connection and runs one transaction under the write lock, so     *)
(* each action is one atomic step; what the callers do between two         *)
(* transactions is ReplayService's subject.                                *)
(*                                                                         *)
(* An event is its sequence number: the id is a fresh UUID per event, and  *)
(* type, source, payload and timestamps decide nothing here but age, which *)
(* Prune chooses (created_at is the publisher's clock and need not follow  *)
(* the sequence).  A row of consumer_event_state is a pair                 *)
(* <<consumer, sequence>>; its two nullable timestamp columns are the sets *)
(* of pairs for which they are not NULL.                                   *)
(***************************************************************************)
EXTENDS Integers, FiniteSets

CONSTANTS
    Consumer,    \* the consumer ids that may register
    Topic,       \* the topics that may be followed
    Broadcast,   \* the routing NULL: relevant to every registered consumer
    MaxEvents,   \* bound: how many events are ever published
    MaxRows,     \* retention.max_rows (0 disables the criterion)
    AgeLimit     \* whether retention.max_age_days is set

Targeted == [targets : SUBSET Consumer, topics : SUBSET Topic]
Routing == {Broadcast} \cup Targeted

ASSUME EventStoreAssumption ==
    /\ Broadcast \notin Targeted
    /\ MaxEvents \in Nat
    /\ MaxRows \in Nat
    /\ AgeLimit \in BOOLEAN

VARIABLES
    nextSequence,          \* sqlite_sequence of persistent_events (AUTOINCREMENT)
    persistent_events,     \* the sequences of the stored events
    consumers,             \* the registered consumers
    consumer_topics,       \* the topics of each consumer
    consumer_event_state,  \* the rows <<consumer, sequence>>
    delivered_at,          \* the rows whose delivered_at is set
    acknowledged_at,       \* the rows whose acknowledged_at is set
    consumer_checkpoints   \* last_sequence of each consumer, 0 without a row

registryVars == <<consumers, consumer_topics>>
deliveryVars == <<consumer_event_state, delivered_at, acknowledged_at>>
storeVars == <<nextSequence, persistent_events, registryVars, deliveryVars,
               consumer_checkpoints>>

StoreTypeOK ==
    /\ nextSequence \in 1..(MaxEvents + 1)
    /\ persistent_events \subseteq 1..MaxEvents
    /\ consumers \subseteq Consumer
    /\ consumer_topics \in [Consumer -> SUBSET Topic]
    /\ consumer_event_state \subseteq consumers \X persistent_events  \* foreign keys
    /\ delivered_at \subseteq consumer_event_state
    /\ acknowledged_at \subseteq consumer_event_state
    /\ consumer_checkpoints \in [Consumer -> Nat]

StoreInit ==
    /\ nextSequence = 1
    /\ persistent_events = {}
    /\ consumers = {}
    /\ consumer_topics = [c \in Consumer |-> {}]
    /\ consumer_event_state = {}
    /\ delivered_at = {}
    /\ acknowledged_at = {}
    /\ consumer_checkpoints = [c \in Consumer |-> 0]

-----------------------------------------------------------------------------
(* Consumers and topics.  Neither is ever removed. *)

RegisterConsumer(c) ==
    /\ consumers' = consumers \cup {c}
    /\ UNCHANGED <<nextSequence, persistent_events, consumer_topics, deliveryVars,
                   consumer_checkpoints>>

AddTopic(c, t) ==
    /\ c \in consumers
    /\ consumer_topics' = [consumer_topics EXCEPT ![c] = @ \cup {t}]
    /\ UNCHANGED <<nextSequence, persistent_events, consumers, deliveryVars,
                   consumer_checkpoints>>

-----------------------------------------------------------------------------
(* Publication: the event and the rows of its audience in one transaction. *)

IsEventRelevant(routing, c) ==
    \/ routing = Broadcast
    \/ /\ routing # Broadcast
       /\ \/ c \in routing.targets
          \/ routing.topics \cap consumer_topics[c] # {}

Save(routing) ==
    /\ nextSequence <= MaxEvents
    /\ nextSequence' = nextSequence + 1
    /\ persistent_events' = persistent_events \cup {nextSequence}
    /\ consumer_event_state' = consumer_event_state \cup
           ({c \in consumers : IsEventRelevant(routing, c)} \X {nextSequence})
    /\ UNCHANGED <<registryVars, delivered_at, acknowledged_at, consumer_checkpoints>>

-----------------------------------------------------------------------------
(* Delivery, acknowledgement and the checkpoint. *)

\* The query shared by replay_events and advance_checkpoint.
Unacknowledged(c, after) ==
    {s \in persistent_events : /\ <<c, s>> \in consumer_event_state \ acknowledged_at
                               /\ s > after}

\* The upsert of replay_events on the events it returns: it needs every event
\* to exist still (foreign key), and never touches an acknowledgement.
MarkReturned(c, page) ==
    /\ page \subseteq persistent_events
    /\ consumer_event_state' = consumer_event_state \cup ({c} \X page)
    /\ delivered_at' = delivered_at \cup ({c} \X page)
    /\ UNCHANGED <<nextSequence, persistent_events, registryVars, acknowledged_at,
                   consumer_checkpoints>>

AcknowledgeEvent(c, s) ==
    /\ c \in consumers
    /\ s \in persistent_events
    /\ <<c, s>> \in consumer_event_state
    /\ acknowledged_at' = acknowledged_at \cup {<<c, s>>}
    /\ UNCHANGED <<nextSequence, persistent_events, registryVars, consumer_event_state,
                   delivered_at, consumer_checkpoints>>

\* Mutant of IsCandidate: up to and including the first unacknowledged event.
IsCandidatePastFirst(c, n) ==
    LET unacked == Unacknowledged(c, consumer_checkpoints[c])
        own == {s \in persistent_events : <<c, s>> \in consumer_event_state}
    IN  \/ n \in unacked /\ \A s \in unacked : n <= s
        \/ unacked = {} /\ n \in own /\ \A s \in own : s <= n
        \/ unacked = {} /\ own = {} /\ n = consumer_checkpoints[c]

\* n is the candidate of advance_checkpoint: just before the first
\* unacknowledged event, or the consumer's last event, or where it stands.
IsCandidate(c, n) ==
    LET unacked == Unacknowledged(c, consumer_checkpoints[c])
        own == {s \in persistent_events : <<c, s>> \in consumer_event_state}
    IN  \/ n + 1 \in unacked /\ \A s \in unacked : n < s
        \/ unacked = {} /\ n \in own /\ \A s \in own : s <= n
        \/ unacked = {} /\ own = {} /\ n = consumer_checkpoints[c]

\* Mutant of NewCheckpoint: the candidate is written as it is.
Unguarded(current, candidate) == candidate

NewCheckpoint(current, candidate) ==
    IF candidate > current THEN candidate ELSE current

AdvanceCheckpoint(c) ==
    /\ c \in consumers
    /\ \E n \in 0..MaxEvents :
          /\ IsCandidate(c, n)
          /\ consumer_checkpoints' =
                 [consumer_checkpoints EXCEPT ![c] = NewCheckpoint(@, n)]
    /\ UNCHANGED <<nextSequence, persistent_events, registryVars, deliveryVars>>

-----------------------------------------------------------------------------
(* Retention. *)

\* Mutant of IsRequired: an event is required until it was delivered.
IsRequiredUntilDelivered(s) ==
    \E c \in Consumer : /\ <<c, s>> \in consumer_event_state \ delivered_at
                        /\ s > consumer_checkpoints[c]

IsRequired(s) ==
    \E c \in Consumer : /\ <<c, s>> \in consumer_event_state \ acknowledged_at
                        /\ s > consumer_checkpoints[c]

Newest(n) ==
    {s \in persistent_events :
        Cardinality({t \in persistent_events : t > s}) < n}

\* What the limits allow to go, when "aged" are the events past max_age_days.
MayPrune(aged) ==
    (IF AgeLimit THEN aged ELSE {})
        \cup (IF MaxRows > 0 THEN persistent_events \ Newest(MaxRows) ELSE {})

Without(rows, gone) == {row \in rows : row[2] \notin gone}

Prune(aged) ==
    LET gone == {s \in MayPrune(aged) : ~IsRequired(s)}
    IN  /\ persistent_events' = persistent_events \ gone
        /\ consumer_event_state' = Without(consumer_event_state, gone)
        /\ delivered_at' = Without(delivered_at, gone)
        /\ acknowledged_at' = Without(acknowledged_at, gone)
        /\ UNCHANGED <<nextSequence, registryVars, consumer_checkpoints>>

-----------------------------------------------------------------------------
StoreNext ==
    \/ \E c \in Consumer : RegisterConsumer(c)
    \/ \E c \in Consumer, t \in Topic : AddTopic(c, t)
    \/ \E routing \in Routing : Save(routing)
    \/ \E c \in Consumer, page \in SUBSET persistent_events :
          {c} \X page \subseteq consumer_event_state /\ MarkReturned(c, page)
    \/ \E c \in Consumer, s \in persistent_events : AcknowledgeEvent(c, s)
    \/ \E c \in Consumer : AdvanceCheckpoint(c)
    \/ \E aged \in SUBSET persistent_events : Prune(aged)

StoreSpec == StoreInit /\ [][StoreNext]_storeVars

-----------------------------------------------------------------------------
(***************************************************************************)
(* Properties.                                                             *)
(***************************************************************************)

\* What consumer c still has to settle and would be handed by a replay from
\* its durable checkpoint.
Pending(c) == Unacknowledged(c, consumer_checkpoints[c])

\* No unacknowledged relevant event lies at or below a consumer's checkpoint:
\* replay starts there, so such an event would never be handed out again.
CheckpointSafe == \A c \in Consumer : Unacknowledged(c, 0) = Pending(c)

\* The durable position of a consumer never goes back, whatever is pruned.
CheckpointMonotone ==
    [][\A c \in Consumer : consumer_checkpoints'[c] >= consumer_checkpoints[c]]_storeVars

\* The store implements the inbox promise: no interleaving of publication,
\* replay, acknowledgement, checkpoint advance and pruning adds or drops a debt.
Promise == INSTANCE Inbox WITH
    registered <- consumers,
    subscribed <- consumer_topics,
    published <- nextSequence - 1,
    owed <- {row \in Consumer \X (1..MaxEvents) : row[2] \in Pending(row[1])}

KeepsPromise == Promise!Spec
=============================================================================
