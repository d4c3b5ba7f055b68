------------------------- MODULE ReplayServiceProofs -------------------------
(***************************************************************************)
(* Proofs about the replay tools for every set of consumers, page limit    *)
(* and retention setting, with any number of calls and other writers       *)
(* interleaved between transactions: every step is one transaction of the  *)
(* store, so what is proved of the store holds of the tools, and a client  *)
(* that pages to the end misses nothing.                                   *)
(***************************************************************************)
EXTENDS ReplayService, EventStoreProofs, FiniteSetTheorems, WellFoundedInduction

-----------------------------------------------------------------------------
(* Pages. *)

\* A nonempty set of naturals has a least element, by well-foundedness of strict
\* inclusion on the intervals below its members.
LEMMA HasMinimum ==
    ASSUME NEW S \in SUBSET Nat, S # {}
    PROVE  \E m \in S : \A s \in S : m <= s
<1> DEFINE below == {1..n : n \in S}
<1>1. below \subseteq FiniteSubsetsOf(Nat) /\ below # {}
  <2>1. \A n \in S : IsFiniteSet(1..n) /\ 1..n \subseteq Nat
    BY FS_Interval
  <2> QED BY <2>1 DEF FiniteSubsetsOf
<1>2. PICK least \in below : \A b \in below : <<b, least>> \notin StrictSubsetOrdering(Nat)
  <2> HIDE DEF below
  <2> QED BY <1>1, FS_StrictSubsetOrderingWellFounded, WFMin
<1>3. PICK m \in S : least = 1..m
  OBVIOUS
<1>4. ASSUME NEW s \in S PROVE m <= s
  <2> SUFFICES ASSUME s < m PROVE FALSE
    OBVIOUS
  <2>1. 1..s \subseteq 1..m /\ m \in 1..m /\ m \notin 1..s
    OBVIOUS
  <2>2. 1..s \subseteq Nat /\ 1..m \subseteq Nat /\ 1..s # 1..m /\ 1..s \in below
    BY <2>1
  <2>3. <<1..s, 1..m>> \in StrictSubsetOrdering(Nat)
    <3> DEFINE A == 1..s  B == 1..m
    <3>1. A \subseteq Nat /\ B \subseteq Nat /\ A \subseteq B /\ A # B
      BY <2>1, <2>2
    <3> HIDE DEF A, B
    <3> QED BY <3>1 DEF StrictSubsetOrdering
  <2> HIDE DEF below
  <2> QED BY <1>2, <1>3, <2>2, <2>3
<1> QED BY <1>4

\* A nonempty bounded set of naturals has a greatest element: its least upper bound.
LEMMA HasMaximum ==
    ASSUME NEW N \in Nat, NEW S \in SUBSET (0..N), S # {}
    PROVE  \E m \in S : \A s \in S : s <= m
<1> DEFINE bounds == {k \in Nat : \A s \in S : s <= k}
<1>1. bounds \in SUBSET Nat /\ N \in bounds
  OBVIOUS
<1>2. PICK k \in bounds : \A j \in bounds : k <= j
  <2> HIDE DEF bounds
  <2> QED BY <1>1, HasMinimum
<1>3. k \in S
  <2> SUFFICES ASSUME k \notin S PROVE FALSE
    OBVIOUS
  <2>0. k \in Nat
    OBVIOUS
  <2>1. \A s \in S : s \in Nat /\ s <= k /\ s # k
    OBVIOUS
  <2>2. \A s \in S : s <= k - 1
    BY <2>0, <2>1
  <2>3. k - 1 \in Nat
    <3>1. PICK s \in S : s \in Nat /\ s <= k - 1
      BY <2>1, <2>2
    <3> QED BY <2>0, <3>1
  <2>4. k - 1 \in bounds
    BY <2>2, <2>3
  <2> HIDE DEF bounds
  <2>5. k <= k - 1
    BY <2>4, <1>2
  <2> QED BY <2>0, <2>5
<1> QED BY <1>2, <1>3

\* ORDER BY sequence LIMIT n: what a page leaves out comes after all of it, and only
\* when the page is full.
LEMMA FirstOfIsPrefix ==
    ASSUME NEW U \in SUBSET (1..MaxEvents), NEW s \in U,
           s \notin FirstOf(U, PageLimit)
    PROVE  /\ Cardinality(FirstOf(U, PageLimit)) = PageLimit
           /\ \A t \in FirstOf(U, PageLimit) : t < s
<1> DEFINE Below(t) == {u \in U : u < t}
           rest == {t \in U : Cardinality(Below(t)) >= PageLimit}
<1>0. /\ MaxEvents \in Nat /\ PageLimit \in Nat \ {0}
      /\ \A t \in U : t \in Nat /\ 1 <= t /\ t <= MaxEvents
  BY EventStoreAssumption, ReplayAssumption
<1>1. \A t \in U : IsFiniteSet(Below(t)) /\ Cardinality(Below(t)) \in Nat
  <2>1. IsFiniteSet(1..MaxEvents)
    BY <1>0, FS_Interval
  <2>2. \A t \in U : Below(t) \subseteq 1..MaxEvents
    BY <1>0
  <2> HIDE DEF Below
  <2> QED BY <2>1, <2>2, FS_Subset, FS_CardinalityType
<1>2. FirstOf(U, PageLimit) = U \ rest /\ s \in rest
  <2>1. \A t \in U : t \in FirstOf(U, PageLimit) <=> Cardinality(Below(t)) < PageLimit
    BY DEF FirstOf
  <2>2. FirstOf(U, PageLimit) \subseteq U
    BY DEF FirstOf
  <2>3. \A t \in U : t \in rest <=> ~(Cardinality(Below(t)) < PageLimit)
    <3> HIDE DEF Below
    <3> QED BY <1>0, <1>1
  <2> HIDE DEF Below, rest
  <2>4. rest \subseteq U
    BY DEF rest
  <2> QED BY <2>1, <2>2, <2>3, <2>4
<1>3. PICK least \in rest : \A t \in rest : least <= t
  <2>1. rest \subseteq U
    OBVIOUS
  <2>2. rest \in SUBSET Nat /\ rest # {}
    BY <1>0, <1>2, <2>1
  <2> HIDE DEF rest
  <2> QED BY <2>2, HasMinimum
<1>4. /\ least \in U /\ Cardinality(Below(least)) >= PageLimit
      /\ \A t \in U : t \in rest <=> Cardinality(Below(t)) >= PageLimit
  <2>1. \A t \in U : t \in rest <=> Cardinality(Below(t)) >= PageLimit
    <3> HIDE DEF Below
    <3> QED OBVIOUS
  <2>2. rest \subseteq U
    OBVIOUS
  <2> HIDE DEF Below, rest
  <2> QED BY <1>3, <2>1, <2>2
<1>5. \A t \in U : Below(t) \subseteq U /\ \A u \in U : u \in Below(t) <=> u < t
  OBVIOUS
<1> HIDE DEF Below, rest
<1>6. \A t \in U : t >= least => t \in rest
  <2> SUFFICES ASSUME NEW t \in U, t >= least PROVE t \in rest
    OBVIOUS
  <2>1. Below(least) \subseteq Below(t)
    <3>1. \A u \in U : u < least => u < t
      BY <1>0, <1>4
    <3> QED BY <1>4, <1>5, <3>1
  <2>2. Cardinality(Below(least)) <= Cardinality(Below(t))
    BY <1>1, <2>1, FS_Subset
  <2> QED BY <2>2, <1>0, <1>1, <1>4
<1>7. FirstOf(U, PageLimit) = Below(least)
  <2>1. \A t \in U : t \in rest <=> t >= least
    BY <1>3, <1>6
  <2>2. \A t \in U : t \in Below(least) <=> ~(t >= least)
    BY <1>0, <1>4, <1>5
  <2>3. Below(least) \subseteq U
    BY <1>4, <1>5
  <2> QED BY <1>2, <2>1, <2>2, <2>3
<1>8. PICK last \in Below(least) : \A t \in Below(least) : t <= last
  <2>1. Below(least) # {}
    BY <1>0, <1>4, FS_EmptySet
  <2>2. Below(least) \in SUBSET (0..MaxEvents)
    <3>1. Below(least) \subseteq U /\ \A t \in U : t \in 0..MaxEvents
      BY <1>0, <1>4, <1>5
    <3> QED BY <3>1
  <2> QED BY <1>0, <2>1, <2>2, HasMaximum
<1>9. last \in U /\ last < least
  BY <1>4, <1>5, <1>8
<1>10. Below(least) = Below(last) \cup {last} /\ last \notin Below(last)
  <2>1. \A t \in U : t \in Below(least) <=> t \in Below(last) \cup {last}
    BY <1>0, <1>4, <1>5, <1>8, <1>9
  <2>2. Below(least) \subseteq U /\ Below(last) \subseteq U
    BY <1>4, <1>5, <1>9
  <2>3. Below(last) \cup {last} \subseteq U
    BY <2>2, <1>9
  <2>4. last \notin Below(last)
    BY <1>0, <1>5, <1>9
  <2>5. Below(least) = Below(last) \cup {last}
    BY <2>1, <2>2, <2>3
  <2> QED BY <2>4, <2>5
<1>11. Cardinality(Below(last)) < PageLimit
  <2>1. last \notin rest
    BY <1>2, <1>7, <1>8
  <2> QED BY <2>1, <1>9, <1>0, <1>1, <1>4
<1>12. Cardinality(Below(least)) = Cardinality(Below(last)) + 1
  BY <1>1, <1>9, <1>10, FS_AddElement
<1>13. \A t \in FirstOf(U, PageLimit) : t < s
  <2>1. least <= s
    BY <1>2, <1>3
  <2>2. \A t \in Below(least) : t \in U /\ t < least
    BY <1>4, <1>5
  <2>3. \A t \in U : t < least => t < s
    BY <1>0, <1>4, <2>1
  <2> QED BY <1>7, <2>2, <2>3
<1> QED BY <1>0, <1>1, <1>4, <1>7, <1>9, <1>11, <1>12, <1>13

\* The position a page leaves is a natural number, below whatever comes after a
\* full page.
LEMMA NextAfterBelow ==
    ASSUME NEW after \in Nat, NEW page \in SUBSET (1..MaxEvents)
    PROVE  /\ NextAfter(after, page) \in Nat
           /\ \A s \in Nat :
                 HasMore(page) /\ (\A t \in page : t < s) => NextAfter(after, page) < s
<1>1. CASE page = {}
  <2>1. ~HasMore(page)
    BY <1>1, FS_EmptySet, ReplayAssumption DEF HasMore
  <2> QED
    BY <1>1, <2>1 DEF NextAfter
<1>2. CASE page # {}
  <2>1. MaxEvents \in Nat /\ page \in SUBSET (0..MaxEvents)
    BY EventStoreAssumption
  <2>2. \E m \in page : \A t \in page : t <= m
    BY <1>2, <2>1, HasMaximum
  <2>3. NextAfter(after, page) \in page
    BY <1>2, <2>2 DEF NextAfter
  <2>4. \A s \in Nat : (\A t \in page : t < s) => NextAfter(after, page) < s
    BY <2>3
  <2>5. \A t \in page : t \in Nat
    BY <2>1
  <2>6. NextAfter(after, page) \in Nat
    BY <2>3, <2>5
  <2> QED
    BY <2>4, <2>6
<1> QED
  BY <1>1, <1>2

-----------------------------------------------------------------------------
(* The inductive invariant. *)

SessionTypeOK ==
    /\ session \in [Consumer -> Session]
    /\ advancing \subseteq Consumer
    /\ lost \in 0..MaxLost

\* A page was selected from rows that existed; a row goes only with its event.
PageHasRows(c) ==
    /\ session[c].pc # "mark" => session[c].page = {}
    /\ \A s \in session[c].page \cap persistent_events : <<c, s>> \in consumer_event_state

\* What was due or selected has a number that no later event gets.
NumbersAreOld(c) == \A s \in session[c].due \cup session[c].page : s < nextSequence

\* Where a due event is that is still pending: handed out, in the page being
\* handed out, or above the position the next page starts from.
InSight(c, s) ==
    LET call == session[c] IN
    /\ call.pc = "select" => s \in call.got \/ s > call.after
    /\ call.pc = "mark" =>
          \/ s \in call.got \cup call.page
          \/ HasMore(call.page) /\ \A t \in call.page : t < s
    /\ call.pc = "done" => s \in call.got

NothingMissed(c) == \A s \in session[c].due \cap Pending(c) : InSight(c, s)

RInv ==
    /\ IInv
    /\ SessionTypeOK
    /\ \A c \in Consumer : PageHasRows(c) /\ NumbersAreOld(c) /\ NothingMissed(c)

\* Nobody pages yet: the initial state satisfies the invariant.
LEMMA RInvInit == Init => RInv
<1> SUFFICES ASSUME Init
             PROVE  RInv
  OBVIOUS
<1>1. IInv
  BY InitInvariant DEF Init
<1>2. SessionTypeOK
  BY ReplayAssumption DEF Init, SessionTypeOK, Session, Idle
<1>3. \A c \in Consumer : PageHasRows(c) /\ NumbersAreOld(c) /\ NothingMissed(c)
  BY DEF Init, Idle, PageHasRows, NumbersAreOld, NothingMissed
<1> QED
  BY <1>1, <1>2, <1>3 DEF RInv

\* A call that marks its page only touches rows that exist: it is a transaction of
\* the store.
LEMMA MarkImplements ==
    ASSUME RInv, NEW c \in Consumer, MarkReturned(c, session[c].page)
    PROVE  StoreNext
<1>1. session[c].page \in SUBSET persistent_events
  BY DEF MarkReturned
<1>2. {c} \X session[c].page \subseteq consumer_event_state
  BY <1>1 DEF RInv, PageHasRows
<1> QED
  BY <1>1, <1>2 DEF StoreNext

\* Every step of the tools and of the writers around them is one transaction of
\* the store, or leaves the store alone.
LEMMA StepIsTransaction == RInv /\ [Next]_vars => [StoreNext]_storeVars
<1> SUFFICES ASSUME RInv, [Next]_vars
             PROVE  [StoreNext]_storeVars
  OBVIOUS
<1>1. CASE OtherWriters
  BY <1>1 DEF OtherWriters, RetentionLoop, StoreNext
<1>2. ASSUME NEW c \in Client, Paging(c)
      PROVE  [StoreNext]_storeVars
  <2>1. c \in Consumer
    BY ReplayAssumption
  <2> QED
    BY <1>2, <2>1, MarkImplements
    DEF Paging, BeginReplay, SelectPage, ReturnPage, ReturnPageFails, LoseReplay
<1>3. ASSUME NEW c \in Consumer, Acknowledging(c)
      PROVE  [StoreNext]_storeVars
  BY <1>3 DEF Acknowledging, Advance, LoseAdvance, Acknowledge, StoreNext
<1>4. CASE UNCHANGED vars
  BY <1>4 DEF vars
<1> QED
  BY <1>1, <1>2, <1>3, <1>4 DEF Next

-----------------------------------------------------------------------------
(* What the transactions of the store do to a paging client. *)

\* No transaction turns an old event into a debt: a row without an acknowledgement
\* and with an old number was there before.
LEMMA OldDebts ==
    ASSUME RInv, [StoreNext]_storeVars, NEW c \in Consumer, NEW s \in Pending(c)',
           s < nextSequence
    PROVE  s \in Pending(c)
<1>1. IInv'
  BY StepInvariant DEF RInv
<1>2. /\ s \in persistent_events'
      /\ <<c, s>> \in consumer_event_state' \ acknowledged_at'
  BY DEF Pending, Unacknowledged
<1> USE EventStoreAssumption DEF registryVars, deliveryVars
<1>3. s \in persistent_events /\ <<c, s>> \in consumer_event_state \ acknowledged_at
  <2>1. nextSequence \in Nat
    BY DEF RInv, IInv, StoreTypeOK
  <2>2. CASE \E routing \in Routing : Save(routing)
    BY <1>2, <2>1, <2>2 DEF Save
  <2>3. CASE \E d \in Consumer, page \in SUBSET persistent_events :
               {d} \X page \subseteq consumer_event_state /\ MarkReturned(d, page)
    BY <1>2, <2>3 DEF MarkReturned
  <2>4. CASE \E d \in Consumer, t \in persistent_events : AcknowledgeEvent(d, t)
    BY <1>2, <2>4 DEF AcknowledgeEvent
  <2>5. CASE \E aged \in SUBSET persistent_events : Prune(aged)
    BY <1>2, <2>5 DEF Prune, Without
  <2> QED
    BY <1>2, <2>2, <2>3, <2>4, <2>5
    DEF StoreNext, storeVars, RegisterConsumer, AddTopic, AdvanceCheckpoint
<1> QED
  BY <1>3 DEF Pending, Unacknowledged, RInv, IInv

\* No transaction gives a number again, and none adds a row of an old event.
LEMMA OldNumbers ==
    ASSUME RInv, [StoreNext]_storeVars
    PROVE  /\ nextSequence' >= nextSequence
           /\ \A c \in Consumer : \A s \in persistent_events' :
                 s < nextSequence =>
                    /\ s \in persistent_events
                    /\ <<c, s>> \in consumer_event_state => <<c, s>> \in consumer_event_state'
<1> USE EventStoreAssumption DEF registryVars, deliveryVars
<1>1. nextSequence \in Nat
  BY DEF RInv, IInv, StoreTypeOK
<1>2. CASE \E routing \in Routing : Save(routing)
  BY <1>1, <1>2 DEF Save
<1>3. CASE \E d \in Consumer, page \in SUBSET persistent_events :
             {d} \X page \subseteq consumer_event_state /\ MarkReturned(d, page)
  BY <1>1, <1>3 DEF MarkReturned
<1>4. CASE \E d \in Consumer, t \in persistent_events : AcknowledgeEvent(d, t)
  BY <1>1, <1>4 DEF AcknowledgeEvent
<1>5. CASE \E aged \in SUBSET persistent_events : Prune(aged)
  BY <1>1, <1>5 DEF Prune, Without
<1> QED
  BY <1>1, <1>2, <1>3, <1>4, <1>5
  DEF StoreNext, storeVars, RegisterConsumer, AddTopic, AdvanceCheckpoint

\* A consumer whose paging client does nothing stays where it is, whichever
\* transaction runs.
LEMMA Bystander ==
    ASSUME RInv, [StoreNext]_storeVars, NEW c \in Consumer, session'[c] = session[c]
    PROVE  PageHasRows(c)' /\ NumbersAreOld(c)' /\ NothingMissed(c)'
<1>1. PageHasRows(c) /\ NumbersAreOld(c) /\ NothingMissed(c)
  BY DEF RInv
<1>2. NumbersAreOld(c)'
  <2>1. nextSequence \in Nat /\ nextSequence' \in Nat /\ nextSequence' >= nextSequence
    BY OldNumbers, StepInvariant, EventStoreAssumption DEF RInv, IInv, StoreTypeOK
  <2>2. session[c].due \cup session[c].page \subseteq 1..MaxEvents
    BY DEF RInv, SessionTypeOK, Session
  <2>3. \A s \in 1..MaxEvents : s < nextSequence => s < nextSequence'
    BY <2>1, EventStoreAssumption
  <2> QED
    BY <1>1, <2>2, <2>3 DEF NumbersAreOld
<1>3. PageHasRows(c)'
  BY <1>1, OldNumbers DEF PageHasRows, NumbersAreOld
<1>4. NothingMissed(c)'
  <2> SUFFICES ASSUME NEW s \in session[c].due, s \in Pending(c)'
               PROVE  InSight(c, s)'
    BY DEF NothingMissed
  <2>1. s \in Pending(c)
    BY <1>1, OldDebts DEF NumbersAreOld
  <2>2. InSight(c, s)
    BY <1>1, <2>1 DEF NothingMissed
  <2> QED
    BY <2>2 DEF InSight
<1> QED
  BY <1>2, <1>3, <1>4

-----------------------------------------------------------------------------
(* What the steps of a paging client do to it. *)

\* BeginReplay starts at the durable checkpoint, and everything due lies above it.
LEMMA BeginReplayKeeps ==
    ASSUME RInv, NEW c \in Client, BeginReplay(c)
    PROVE  RInv'
<1> USE ReplayAssumption DEF RInv, SessionTypeOK, Session
<1>1. /\ c \in Consumer
      /\ \A d \in Consumer \ {c} : session'[d] = session[d]
      /\ session'[c] = [pc |-> "select", after |-> consumer_checkpoints[c], page |-> {},
                        got |-> {}, due |-> Pending(c)]
  BY DEF BeginReplay, Idle, StartAfter
<1>2. Pending(c) \subseteq persistent_events /\ \A s \in Pending(c) : s > consumer_checkpoints[c]
  BY DEF Pending, Unacknowledged
<1>3. IInv' /\ UNCHANGED storeVars
  BY StepInvariant DEF BeginReplay
<1>4. SessionTypeOK'
  <2>1. consumer_checkpoints[c] \in Nat /\ Pending(c) \subseteq 1..MaxEvents
    BY <1>1, <1>2 DEF IInv, StoreTypeOK
  <2>2. session'[c] \in Session
    BY <1>1, <2>1
  <2> QED
    BY <1>1, <2>2 DEF BeginReplay
<1>5. PageHasRows(c)' /\ NumbersAreOld(c)'
  BY <1>1, <1>2, <1>3 DEF PageHasRows, NumbersAreOld, IInv, storeVars
<1>6. NothingMissed(c)'
  BY <1>1, <1>2 DEF NothingMissed, InSight
<1>7. \A d \in Consumer \ {c} : PageHasRows(d)' /\ NumbersAreOld(d)' /\ NothingMissed(d)'
  BY <1>1, <1>3, Bystander
<1> QED
  BY <1>3, <1>4, <1>5, <1>6, <1>7

\* SelectPage takes the first rows above the position: what it leaves out comes
\* after a full page.
LEMMA SelectPageKeeps ==
    ASSUME RInv, NEW c \in Client, SelectPage(c)
    PROVE  RInv'
<1> USE ReplayAssumption DEF RInv, SessionTypeOK, Session
<1> DEFINE U == Unacknowledged(c, session[c].after)
<1>1. /\ c \in Consumer
      /\ \A d \in Consumer \ {c} : session'[d] = session[d]
      /\ session'[c] = [pc |-> "mark", after |-> session[c].after, page |-> FirstOf(U, PageLimit),
                        got |-> session[c].got, due |-> session[c].due]
      /\ session[c].pc = "select"
  BY DEF SelectPage
<1>2. FirstOf(U, PageLimit) \subseteq U /\ U \subseteq persistent_events
      /\ \A s \in U : <<c, s>> \in consumer_event_state
  BY DEF FirstOf, Unacknowledged
<1>3. IInv' /\ UNCHANGED storeVars
  BY StepInvariant DEF SelectPage
<1>4. SessionTypeOK'
  <2>1. session[c] \in Session
    BY <1>1
  <2>2. FirstOf(U, PageLimit) \subseteq 1..MaxEvents
    BY <1>2 DEF IInv, StoreTypeOK
  <2> HIDE DEF U
  <2>3. session'[c] \in Session
    BY <1>1, <2>1, <2>2
  <2> QED
    BY <1>1, <2>3 DEF SelectPage
<1>5. PageHasRows(c)' /\ NumbersAreOld(c)'
  BY <1>1, <1>2, <1>3 DEF PageHasRows, NumbersAreOld, IInv, storeVars, registryVars, deliveryVars
<1>6. NothingMissed(c)'
  <2> SUFFICES ASSUME NEW s \in session[c].due, s \in Pending(c)'
               PROVE  InSight(c, s)'
    BY <1>1 DEF NothingMissed
  <2>1. s \in Pending(c)
    BY <1>3 DEF Pending, Unacknowledged, storeVars, deliveryVars
  <2>2. s \in session[c].got \/ s > session[c].after
    BY <1>1, <2>1 DEF NothingMissed, InSight
  <2>3. CASE s \in session[c].got
    BY <1>1, <2>3 DEF InSight
  <2>4. CASE s > session[c].after
    <3>1. s \in U /\ U \in SUBSET (1..MaxEvents)
      BY <1>2, <2>1, <2>4 DEF Pending, Unacknowledged, IInv, StoreTypeOK
    <3> HIDE DEF U
    <3>2. s \in FirstOf(U, PageLimit)
             \/ /\ HasMore(FirstOf(U, PageLimit))
                /\ \A t \in FirstOf(U, PageLimit) : t < s
      BY <3>1, FirstOfIsPrefix DEF HasMore
    <3> QED
      BY <1>1, <3>2 DEF InSight, HasMore
  <2> QED
    BY <2>2, <2>3, <2>4
<1>7. \A d \in Consumer \ {c} : PageHasRows(d)' /\ NumbersAreOld(d)' /\ NothingMissed(d)'
  BY <1>1, <1>3, Bystander
<1> QED
  BY <1>3, <1>4, <1>5, <1>6, <1>7

\* ReturnPage hands the page out: a due event it did not hold comes after it, and
\* then has_more is true and the next page starts below the event.
LEMMA ReturnPageKeeps ==
    ASSUME RInv, NEW c \in Client, ReturnPage(c)
    PROVE  RInv'
<1> USE ReplayAssumption DEF RInv, SessionTypeOK, Session
<1> DEFINE page == session[c].page
           after == NextAfter(session[c].after, page)
<1>1. /\ c \in Consumer
      /\ \A d \in Consumer \ {c} : session'[d] = session[d]
      /\ session'[c] = [pc |-> IF HasMore(page) THEN "select" ELSE "done", after |-> after,
                        page |-> {}, got |-> session[c].got \cup page,
                        due |-> session[c].due]
      /\ session[c].pc = "mark"
      /\ MarkReturned(c, page)
  BY DEF ReturnPage
<1>2. page \in SUBSET (1..MaxEvents) /\ session[c].after \in Nat
      /\ session[c].due \in SUBSET (1..MaxEvents)
  BY <1>1
<1>3. [StoreNext]_storeVars /\ IInv'
  BY <1>1, MarkImplements, StepInvariant
<1>4. SessionTypeOK'
  <2>1. after \in Nat
    BY <1>2, NextAfterBelow
  <2> HIDE DEF after
  <2>2. session'[c] \in Session
    BY <1>1, <2>1
  <2> QED
    BY <1>1, <2>2 DEF ReturnPage
<1>5. PageHasRows(c)' /\ NumbersAreOld(c)'
  <2>1. nextSequence' = nextSequence
    BY <1>1 DEF MarkReturned
  <2> QED
    BY <1>1, <2>1 DEF PageHasRows, NumbersAreOld
<1>6. NothingMissed(c)'
  <2> SUFFICES ASSUME NEW s \in session[c].due, s \in Pending(c)'
               PROVE  InSight(c, s)'
    BY <1>1 DEF NothingMissed
  <2>1. s \in Pending(c)
    BY <1>1, <1>3, OldDebts DEF NumbersAreOld
  <2>2. \/ s \in session[c].got \cup page
        \/ HasMore(page) /\ \A t \in page : t < s
    BY <1>1, <2>1 DEF NothingMissed, InSight
  <2>3. CASE s \in session[c].got \cup page
    BY <1>1, <2>3 DEF InSight
  <2>4. CASE HasMore(page) /\ \A t \in page : t < s
    <3>1. s \in Nat /\ after \in Nat
      BY <1>2, EventStoreAssumption, NextAfterBelow
    <3>2. after < s
      BY <1>2, <2>4, <3>1, NextAfterBelow
    <3> HIDE DEF after
    <3>3. s > after
      BY <3>1, <3>2
    <3> QED
      BY <1>1, <2>4, <3>3 DEF InSight
  <2> QED
    BY <2>2, <2>3, <2>4
<1>7. \A d \in Consumer \ {c} : PageHasRows(d)' /\ NumbersAreOld(d)' /\ NothingMissed(d)'
  BY <1>1, <1>3, Bystander
<1> QED
  BY <1>3, <1>4, <1>5, <1>6, <1>7

\* A call that fails or is lost forgets where it was, whether or not its thread
\* still marks the page.
LEMMA AbandonKeeps ==
    ASSUME RInv, NEW c \in Client, ReturnPageFails(c) \/ LoseReplay(c)
    PROVE  RInv'
<1> USE ReplayAssumption DEF RInv, SessionTypeOK, Session
<1>1. /\ c \in Consumer
      /\ \A d \in Consumer \ {c} : session'[d] = session[d]
      /\ session'[c] = [pc |-> "idle", after |-> 0, page |-> {}, got |-> {}, due |-> {}]
      /\ advancing' = advancing
  BY DEF ReturnPageFails, LoseReplay, Idle
<1>2. [StoreNext]_storeVars /\ IInv'
  BY MarkImplements, StepInvariant, <1>1 DEF ReturnPageFails, LoseReplay
<1>3. SessionTypeOK'
  <2>1. session'[c] \in Session
    BY <1>1
  <2>2. session' = [session EXCEPT ![c] = Idle]
    BY DEF ReturnPageFails, LoseReplay
  <2>3. lost' \in 0..MaxLost
    BY DEF ReturnPageFails, LoseReplay
  <2> QED
    BY <1>1, <2>1, <2>2, <2>3
<1>4. PageHasRows(c)' /\ NumbersAreOld(c)' /\ NothingMissed(c)'
  BY <1>1 DEF PageHasRows, NumbersAreOld, NothingMissed
<1>5. \A d \in Consumer \ {c} : PageHasRows(d)' /\ NumbersAreOld(d)' /\ NothingMissed(d)'
  BY <1>1, <1>2, Bystander
<1> QED
  BY <1>2, <1>3, <1>4, <1>5

\* Every step keeps the invariant.
LEMMA RInvStep == RInv /\ [Next]_vars => RInv'
<1> SUFFICES ASSUME RInv, [Next]_vars
             PROVE  RInv'
  OBVIOUS
<1>1. [StoreNext]_storeVars /\ IInv'
  BY StepIsTransaction, StepInvariant DEF RInv
<1>2. ASSUME session' = session, SessionTypeOK'
      PROVE  RInv'
  BY <1>1, <1>2, Bystander DEF RInv
<1>3. CASE OtherWriters
  BY <1>2, <1>3 DEF OtherWriters, RInv, SessionTypeOK
<1>4. ASSUME NEW c \in Client, Paging(c)
      PROVE  RInv'
  BY <1>4, BeginReplayKeeps, SelectPageKeeps, ReturnPageKeeps, AbandonKeeps DEF Paging
<1>5. ASSUME NEW c \in Consumer, Acknowledging(c)
      PROVE  RInv'
  <2>1. session' = session
    BY <1>5 DEF Acknowledging, Advance, LoseAdvance, Acknowledge
  <2>2. SessionTypeOK'
    BY <1>5, ReplayAssumption
    DEF Acknowledging, Advance, LoseAdvance, Acknowledge, RInv, SessionTypeOK
  <2> QED
    BY <1>2, <2>1, <2>2
<1>6. CASE UNCHANGED vars
  BY <1>2, <1>6 DEF vars, RInv, SessionTypeOK
<1> QED
  BY <1>3, <1>4, <1>5, <1>6 DEF Next

\* The invariant holds of every reachable state of the tools.
THEOREM ReplayInvariance == Spec => []RInv
BY RInvInit, RInvStep, PTL DEF Spec

\* A client of consumer_event_pending_list that pages until has_more is false was
\* handed everything that was pending when it started and still is.
THEOREM PagesToTheEnd == Spec => []PagingComplete
<1>1. RInv => PagingComplete
  <2> SUFFICES ASSUME RInv
               PROVE  PagingComplete
    OBVIOUS
  <2>1. TypeOK
    BY DEF RInv, IInv, SessionTypeOK, TypeOK
  <2>2. \A c \in Consumer :
           session[c].pc = "done" => session[c].due \cap Pending(c) \subseteq session[c].got
    BY DEF RInv, NothingMissed, InSight
  <2> QED
    BY <2>1, <2>2 DEF PagingComplete
<1> QED
  BY <1>1, ReplayInvariance, PTL

-----------------------------------------------------------------------------
(* The tools implement the store. *)

\* The replay and acknowledge tools, the publishers and the retention loop, however
\* interleaved and wherever cut short, only ever run transactions of the store.
THEOREM ToolsImplementStore == Spec => StoreSpec
<1>1. Init => StoreInit
  BY DEF Init
<1> QED
  BY <1>1, StepIsTransaction, ReplayInvariance, PTL DEF Spec, StoreSpec

\* With the tools in play, no checkpoint passes an unacknowledged event.
THEOREM ToolsCheckpointSafe == Spec => []CheckpointSafe
BY ToolsImplementStore, Safety, PTL

\* With the tools in play, no checkpoint moves back.
THEOREM ToolsCheckpointMonotone == Spec => CheckpointMonotone
BY ToolsImplementStore, Monotonicity, PTL

\* With the tools in play, the store keeps the inbox promise.
THEOREM ToolsKeepPromise == Spec => KeepsPromise
BY ToolsImplementStore, Refinement, PTL
=============================================================================
