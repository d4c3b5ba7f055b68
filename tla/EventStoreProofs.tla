-------------------------- MODULE EventStoreProofs --------------------------
(***************************************************************************)
(* Proofs about the event store for every set of consumers and topics and  *)
(* every retention setting: its checkpoints are safe and monotone, and it  *)
(* implements the inbox promise.                                           *)
(***************************************************************************)
EXTENDS EventStore, TLAPS

\* Every debt lies above its consumer's checkpoint, and everything recorded so
\* far lies below the sequence the next event gets.
IInv ==
    /\ StoreTypeOK
    /\ \A s \in persistent_events : s < nextSequence
    /\ \A c \in Consumer : consumer_checkpoints[c] < nextSequence
    /\ \A c \in Consumer, s \in persistent_events :
          <<c, s>> \in consumer_event_state \ acknowledged_at
              => s > consumer_checkpoints[c]

\* The initial tables satisfy the inductive invariant.
LEMMA InitInvariant == StoreInit => IInv
BY EventStoreAssumption DEF StoreInit, IInv, StoreTypeOK

\* A candidate of advance_checkpoint lies below everything its consumer has left
\* to acknowledge.
LEMMA CandidateBelow ==
    ASSUME IInv, NEW c \in Consumer, NEW n \in 0..MaxEvents, IsCandidate(c, n)
    PROVE  /\ n < nextSequence
           /\ \A s \in persistent_events :
                 <<c, s>> \in consumer_event_state \ acknowledged_at => s > n
BY EventStoreAssumption DEF IsCandidate, Unacknowledged, IInv, StoreTypeOK

\* Every transaction of the store keeps the inductive invariant.
LEMMA StepInvariant == IInv /\ [StoreNext]_storeVars => IInv'
<1> SUFFICES ASSUME IInv, [StoreNext]_storeVars
             PROVE  IInv'
  OBVIOUS
<1> USE EventStoreAssumption DEF IInv, StoreTypeOK, registryVars, deliveryVars
<1>1. CASE \E c \in Consumer : RegisterConsumer(c)
  BY <1>1 DEF RegisterConsumer
<1>2. CASE \E c \in Consumer, t \in Topic : AddTopic(c, t)
  BY <1>2 DEF AddTopic
<1>3. CASE \E routing \in Routing : Save(routing)
  BY <1>3 DEF Save
<1>4. CASE \E c \in Consumer, page \in SUBSET persistent_events :
              {c} \X page \subseteq consumer_event_state /\ MarkReturned(c, page)
  BY <1>4 DEF MarkReturned
<1>5. CASE \E c \in Consumer, s \in persistent_events : AcknowledgeEvent(c, s)
  BY <1>5 DEF AcknowledgeEvent
<1>6. CASE \E c \in Consumer : AdvanceCheckpoint(c)
  <2>1. PICK c \in Consumer : AdvanceCheckpoint(c)
    BY <1>6
  <2>2. PICK n \in 0..MaxEvents :
           /\ IsCandidate(c, n)
           /\ consumer_checkpoints' =
                 [consumer_checkpoints EXCEPT ![c] = NewCheckpoint(@, n)]
    BY <2>1 DEF AdvanceCheckpoint
  <2> QED
    BY <2>1, <2>2, CandidateBelow DEF AdvanceCheckpoint, NewCheckpoint
<1>7. CASE \E aged \in SUBSET persistent_events : Prune(aged)
  BY <1>7 DEF Prune, Without
<1>8. CASE UNCHANGED storeVars
  BY <1>8 DEF storeVars
<1> QED
  BY <1>1, <1>2, <1>3, <1>4, <1>5, <1>6, <1>7, <1>8 DEF StoreNext

\* The inductive invariant holds of every reachable state.
THEOREM Invariance == StoreSpec => []IInv
BY InitInvariant, StepInvariant, PTL DEF StoreSpec

\* Type correctness, foreign keys included, for every instance.
THEOREM TypeCorrectness == StoreSpec => []StoreTypeOK
<1>1. IInv => StoreTypeOK
  BY DEF IInv
<1> QED
  BY <1>1, Invariance, PTL

\* What the invariant says about the two ways to read a consumer's debts.
LEMMA PendingIsUnacknowledged ==
    ASSUME IInv, NEW c \in Consumer
    PROVE  Unacknowledged(c, 0) = Pending(c)
<1>1. consumer_checkpoints[c] \in Nat /\ persistent_events \subseteq 1..MaxEvents
  BY DEF IInv, StoreTypeOK
<1>2. \A s \in persistent_events :
         <<c, s>> \in consumer_event_state \ acknowledged_at
             => (s > 0 <=> s > consumer_checkpoints[c])
  BY <1>1, EventStoreAssumption DEF IInv
<1> QED
  BY <1>2 DEF Unacknowledged, Pending

\* No checkpoint passes an event its consumer has not acknowledged.
THEOREM Safety == StoreSpec => []CheckpointSafe
<1>1. IInv => CheckpointSafe
  BY PendingIsUnacknowledged DEF CheckpointSafe
<1> QED
  BY <1>1, Invariance, PTL

\* No transaction moves a checkpoint back.
THEOREM Monotonicity == StoreSpec => CheckpointMonotone
<1>1. IInv /\ [StoreNext]_storeVars =>
          [\A c \in Consumer : consumer_checkpoints'[c] >= consumer_checkpoints[c]]_storeVars
  <2> SUFFICES ASSUME IInv, StoreNext, NEW c \in Consumer
               PROVE  consumer_checkpoints'[c] >= consumer_checkpoints[c]
    OBVIOUS
  <2>1. consumer_checkpoints \in [Consumer -> Nat]
    BY DEF IInv, StoreTypeOK
  <2>2. CASE UNCHANGED consumer_checkpoints
    BY <2>1, <2>2
  <2>3. CASE \E d \in Consumer : AdvanceCheckpoint(d)
    BY <2>1, <2>3, EventStoreAssumption DEF AdvanceCheckpoint, NewCheckpoint
  <2> QED
    BY <2>2, <2>3 DEF StoreNext, RegisterConsumer, AddTopic, Save, MarkReturned,
                      AcknowledgeEvent, Prune
<1> QED
  BY <1>1, Invariance, PTL DEF StoreSpec, CheckpointMonotone

-----------------------------------------------------------------------------
(* Refinement: the debts of the promise, read off the tables. *)

Owed == {row \in Consumer \X (1..MaxEvents) : row[2] \in Pending(row[1])}

\* The debts are the rows without an acknowledgement: the checkpoint hides none.
LEMMA OwedIsUnacknowledged ==
    ASSUME IInv
    PROVE  Owed = consumer_event_state \ acknowledged_at
<1>1. consumer_event_state \subseteq Consumer \X (1..MaxEvents)
  BY DEF IInv, StoreTypeOK
<1>2. ASSUME NEW c \in Consumer, NEW s \in 1..MaxEvents
      PROVE  <<c, s>> \in Owed
                 <=> <<c, s>> \in consumer_event_state \ acknowledged_at
  <2>1. <<c, s>> \in consumer_event_state => s \in persistent_events
    BY DEF IInv, StoreTypeOK
  <2>2. <<c, s>> \in Owed <=> s \in Pending(c)
    BY DEF Owed
  <2> QED
    BY <2>1, <2>2 DEF Pending, Unacknowledged, IInv
<1> QED
  BY <1>1, <1>2 DEF Owed

\* The same fact of the state after a step.
LEMMA OwedIsUnacknowledgedNext ==
    ASSUME IInv'
    PROVE  Owed' = consumer_event_state' \ acknowledged_at'
<1>1. consumer_event_state' \subseteq Consumer \X (1..MaxEvents)
  BY DEF IInv, StoreTypeOK
<1>2. ASSUME NEW c \in Consumer, NEW s \in 1..MaxEvents
      PROVE  <<c, s>> \in Owed'
                 <=> <<c, s>> \in consumer_event_state' \ acknowledged_at'
  <2>1. <<c, s>> \in consumer_event_state' => s \in persistent_events'
    BY DEF IInv, StoreTypeOK
  <2>2. <<c, s>> \in Owed' <=> s \in Pending(c)'
    BY DEF Owed
  <2> QED
    BY <2>1, <2>2 DEF Pending, Unacknowledged, IInv
<1> QED
  BY <1>1, <1>2 DEF Owed

\* Saving an event owes it to its audience and to nobody else.
LEMMA PublishImplements ==
    ASSUME IInv, IInv', NEW routing \in Routing, Save(routing)
    PROVE  Promise!Publish(routing)
<1>1. Promise!Audience(routing) = {c \in consumers : IsEventRelevant(routing, c)}
  BY EventStoreAssumption
  DEF Promise!Audience, Promise!Followers, IsEventRelevant, Routing, Targeted,
      IInv, StoreTypeOK
<1>2. (nextSequence - 1) + 1 = nextSequence /\ nextSequence' - 1 = (nextSequence - 1) + 1
  BY EventStoreAssumption DEF Save, IInv, StoreTypeOK
<1>3. Owed' = Owed \cup (Promise!Audience(routing) \X {nextSequence})
  BY <1>1, OwedIsUnacknowledged, OwedIsUnacknowledgedNext, EventStoreAssumption
  DEF Save, IInv, StoreTypeOK, registryVars
<1> QED
  BY <1>2, <1>3 DEF Promise!Publish, Save, Owed, registryVars

\* An acknowledgement settles one debt, or repeats a settled one and does nothing.
LEMMA SettleImplements ==
    ASSUME IInv, IInv', NEW c \in Consumer, NEW s \in persistent_events,
           AcknowledgeEvent(c, s)
    PROVE  Promise!Next \/ UNCHANGED Promise!vars
<1>1. Owed' = Owed \ {<<c, s>>}
  BY OwedIsUnacknowledged, OwedIsUnacknowledgedNext
  DEF AcknowledgeEvent
<1>2. CASE <<c, s>> \in Owed
  <2>1. s \in 1..(nextSequence - 1)
    BY EventStoreAssumption DEF IInv, StoreTypeOK
  <2>2. Promise!Settle(c, s)
    BY <1>1, <1>2 DEF Promise!Settle, AcknowledgeEvent, Owed, registryVars
  <2> QED
    BY <2>1, <2>2 DEF Promise!Next
<1>3. CASE <<c, s>> \notin Owed
  BY <1>1, <1>3 DEF Promise!vars, AcknowledgeEvent, Owed, registryVars
<1> QED
  BY <1>2, <1>3

\* Retention leaves every debt as it is.
LEMMA PruneImplements ==
    ASSUME IInv, IInv', NEW aged \in SUBSET persistent_events, Prune(aged)
    PROVE  UNCHANGED Promise!vars
<1> DEFINE gone == {s \in MayPrune(aged) : ~IsRequired(s)}
           rows == consumer_event_state \ acknowledged_at
<1>1. \A row \in rows : row[2] \notin gone
  <2> SUFFICES ASSUME NEW row \in rows
               PROVE  IsRequired(row[2])
    OBVIOUS
  <2>1. /\ row[1] \in Consumer
        /\ row[2] \in persistent_events
        /\ row = <<row[1], row[2]>>
    BY DEF IInv, StoreTypeOK
  <2> QED
    BY <2>1 DEF IsRequired, IInv
<1>2. consumer_event_state' \ acknowledged_at' = rows
  BY <1>1 DEF Prune, Without
<1>3. Owed' = Owed
  BY <1>2, OwedIsUnacknowledged, OwedIsUnacknowledgedNext
<1> QED
  BY <1>3 DEF Promise!vars, Prune, Owed, registryVars

\* Every transaction of the store is a step of the promise or changes no debt.
LEMMA StepImplements ==
    ASSUME IInv, IInv', [StoreNext]_storeVars
    PROVE  [Promise!Next]_(Promise!vars)
<1>1. CASE \E c \in Consumer : RegisterConsumer(c)
  BY <1>1 DEF RegisterConsumer, Promise!Next, Promise!Register, Pending, Unacknowledged,
              deliveryVars
<1>2. CASE \E c \in Consumer, t \in Topic : AddTopic(c, t)
  BY <1>2 DEF AddTopic, Promise!Next, Promise!Subscribe, Pending, Unacknowledged,
              deliveryVars
<1>3. CASE \E routing \in Routing : Save(routing)
  BY <1>3, PublishImplements
  DEF Promise!Next, Routing, Targeted, Promise!Routing
<1>4. CASE \E c \in Consumer, page \in SUBSET persistent_events :
              {c} \X page \subseteq consumer_event_state /\ MarkReturned(c, page)
  <2>1. Owed' = Owed
    BY <1>4, OwedIsUnacknowledged, OwedIsUnacknowledgedNext DEF MarkReturned
  <2> QED
    BY <1>4, <2>1 DEF MarkReturned, Promise!vars, Owed, registryVars
<1>5. CASE \E c \in Consumer, s \in persistent_events : AcknowledgeEvent(c, s)
  BY <1>5, SettleImplements
<1>6. CASE \E c \in Consumer : AdvanceCheckpoint(c)
  <2>1. Owed' = Owed
    BY <1>6, OwedIsUnacknowledged, OwedIsUnacknowledgedNext
    DEF AdvanceCheckpoint, deliveryVars
  <2> QED
    BY <1>6, <2>1 DEF AdvanceCheckpoint, Promise!vars, Owed, registryVars
<1>7. CASE \E aged \in SUBSET persistent_events : Prune(aged)
  BY <1>7, PruneImplements
<1>8. CASE UNCHANGED storeVars
  BY <1>8 DEF storeVars, Promise!vars, Pending, Unacknowledged, registryVars, deliveryVars
<1> QED
  BY <1>1, <1>2, <1>3, <1>4, <1>5, <1>6, <1>7, <1>8 DEF StoreNext

\* The store implements the inbox promise: a debt appears only when its event
\* is published and disappears only when its consumer acknowledges it.
THEOREM Refinement == StoreSpec => KeepsPromise
<1>1. StoreInit => Promise!Init
  BY DEF StoreInit, Promise!Init, Pending, Unacknowledged
<1>2. IInv /\ IInv' /\ [StoreNext]_storeVars => [Promise!Next]_(Promise!vars)
  BY StepImplements
<1> QED
  BY <1>1, <1>2, Invariance, PTL DEF StoreSpec, KeepsPromise, Promise!Spec
=============================================================================
