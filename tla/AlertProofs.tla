---------------------------- MODULE AlertProofs ----------------------------
(***************************************************************************)
(* Proofs about condition alerts.  First the market_condition engine, for  *)
(* every tree of leaves, every set of feeds and instruments: its memory is *)
(* what the store would give back, a trigger is persisted exactly when the *)
(* stored root becomes TRUE, and the leaves remember what was observed.    *)
(* Then the service that refreshes their option chains.                    *)
(***************************************************************************)
EXTENDS ConditionAlert, ChainAnalytics, TLAPS

Evaluation_ == [pc : HolderPc \cup DetachedPc, updates : AlertState,
                values : [QuoteLeaf -> Value]]
FeedState == {Idle} \cup [pc : {"queued"}, quote : Quote] \cup Evaluation_

EngineTypes ==
    /\ once \in BOOLEAN /\ enabled \in BOOLEAN /\ loaded \in BOOLEAN /\ indexed \in BOOLEAN
    /\ disturbed \in BOOLEAN
    /\ stored \in AlertState /\ state \in AlertState
    /\ triggers \in Nat /\ faults \in Nat
    /\ last_value \in [Rereading -> Value] /\ observed \in [QuoteLeaf -> Value]
    /\ chain \in [Analytics -> Value]
    /\ unread \subseteq {l \in Analytics : chain[l] # "none"}
    /\ chain_seen \subseteq Analytics
    /\ feed \in [Feed -> FeedState]
    /\ tool \in {"idle", "reset", "reload"}
    /\ indexed => loaded

\* Those in the transaction, between it and the end, and just after a trigger.
Working == {"trigger", "save"}
Committed == {"triggered", "announcing", "saved"}
Triggered == \E f \in Feed : feed[f].pc = "triggered"

\* Leaves outside the nested group stand for these observations.
Remembers(alert, values) ==
    \A l \in QuoteLeaf \ Nested :
        IF l \in Crossing
        THEN alert.leaves[l].crossing_side =
                 (IF values[l] = "none" THEN "unknown" ELSE values[l])
        ELSE values[l] = "none" \/ alert.leaves[l].last_result = Compare(values[l])

OneHolder ==
    \A f, g \in Feed : (feed[f].pc \in HolderPc /\ feed[g].pc \in HolderPc) => f = g

\* What memory, store and index have to do with each other while no call interferes.
Coherent ==
    /\ (\A f \in Feed : feed[f].pc \notin Committed) /\ loaded => state = stored
    /\ IF Triggered THEN enabled = ~once /\ (~once => indexed) ELSE indexed = enabled
    /\ ~once => loaded = enabled

\* What an evaluation in flight is going to do, or has done, to the store.
Pending(f) ==
    /\ feed[f].pc \in Committed => stored = feed[f].updates
    /\ feed[f].pc = "trigger" => feed[f].updates.root = "true" /\ stored.root # "true"
    /\ feed[f].pc = "save" => (feed[f].updates.root = "true" => stored.root = "true")
    /\ feed[f].pc \in Working => Remembers(feed[f].updates, feed[f].values)

Calm ==
    /\ \A f \in Feed : feed[f].pc \notin DetachedPc /\ Pending(f)
    /\ InFlight => tool = "idle" /\ loaded
    /\ tool = "idle" => Coherent
    /\ Remembers(stored, observed)

AInv == EngineTypes /\ OneHolder /\ (~disturbed => Calm)

-----------------------------------------------------------------------------
(* Evaluating the tree.                                                    *)

\* What a feed is doing is told by its pc.
LEMMA FeedShape ==
    ASSUME EngineTypes, NEW f \in Feed
    PROVE  /\ feed[f].pc = "idle" <=> feed[f] = Idle
           /\ feed[f].pc = "queued" => feed[f].quote \in Quote
           /\ feed[f].pc \in HolderPc \cup DetachedPc => feed[f] \in Evaluation_
           /\ feed[f].pc \in {"idle", "queued"} \cup HolderPc \cup DetachedPc
<1>1. feed[f] \in FeedState
  BY DEF EngineTypes
<1>2. Idle.pc = "idle"
  BY DEF Idle
<1>3. CASE feed[f] = Idle
  BY <1>2, <1>3 DEF HolderPc, DetachedPc
<1>4. CASE feed[f] \in [pc : {"queued"}, quote : Quote]
  <2>1. feed[f].pc = "queued" /\ feed[f].quote \in Quote
    BY <1>4
  <2>2. feed[f] # Idle
    BY <1>2, <2>1
  <2> QED
    BY <2>1, <2>2 DEF HolderPc, DetachedPc
<1>5. CASE feed[f] \in Evaluation_
  <2>1. feed[f].pc \in HolderPc \cup DetachedPc
    BY <1>5 DEF Evaluation_
  <2>2. feed[f].pc \notin {"idle", "queued"}
    BY <2>1 DEF HolderPc, DetachedPc
  <2>3. feed[f] # Idle
    BY <1>2, <2>2
  <2> QED
    BY <1>5, <2>1, <2>2, <2>3
<1> QED
  BY <1>1, <1>3, <1>4, <1>5 DEF FeedState

\* Every leaf has a value, and only chain leaves were ever seen in a chain.
LEMMA ValuesAreValues ==
    ASSUME EngineTypes, NEW quote \in Quote
    PROVE  /\ \A l \in Leaf : ValueOf(l, quote) \in Value
           /\ ChainSeen \subseteq Analytics
<1>1. PICK i \in Instrument : quote \in [instrument : {i}, value : [LeavesOn(i) -> Value]]
  BY DEF Quote
<1>2. quote.instrument = i /\ quote.value \in [LeavesOn(i) -> Value]
  BY <1>1
<1>3. \A l \in Leaf : ValueOf(l, quote) \in Value
  <2> TAKE l \in Leaf
  <2>1. CASE l \in Analytics
    BY <2>1 DEF ValueOf, EngineTypes
  <2>2. CASE l \notin Analytics /\ Fresh(l, quote)
    <3>1. l \in LeavesOn(i)
      BY <1>2, <2>2 DEF Fresh, LeavesOn, QuoteLeaf
    <3> QED
      BY <1>2, <2>2, <3>1 DEF ValueOf
  <2>3. CASE l \notin Analytics /\ ~Fresh(l, quote)
    BY <2>3 DEF ValueOf, EngineTypes, Value
  <2> QED
    BY <2>1, <2>2, <2>3
<1> QED
  BY <1>3 DEF ChainSeen, EngineTypes

\* An evaluated leaf has a state and a tick.
LEMMA LeavesAreLeaves ==
    ASSUME EngineTypes, NEW quote \in Quote
    PROVE  \A l \in Leaf :
              /\ Evaluated(quote)[l].last_result \in Result
              /\ Evaluated(quote)[l].crossing_side \in {"above", "below", "unknown"}
              /\ Evaluated(quote)[l].tick \in Result
<1> TAKE l \in Leaf
<1> DEFINE prev == state.leaves[l]
           value == ValueOf(l, quote)
<1>1. prev \in LeafState
  BY DEF EngineTypes, AlertState
<1>2. value \in Value
  BY ValuesAreValues
<1>3. prev.last_result \in Result /\ prev.crossing_side \in {"above", "below", "unknown"}
  BY <1>1 DEF LeafState
<1>4. value = "none" \/ value \in {"above", "below"}
  BY <1>2 DEF Value
<1>5. CASE l \in Crossing
  <2>1. Evaluated(quote)[l] = EvaluateCrossing(prev, value, Fresh(l, quote))
    BY <1>5 DEF Evaluated
  <2> HIDE DEF prev, value
  <2> QED
    BY <1>3, <1>4, <2>1 DEF EvaluateCrossing, NewLeaf, Result
<1>6. CASE l \notin Crossing
  <2>1. Evaluated(quote)[l] = EvaluateLevel(prev, value, l \in ChainSeen)
    BY <1>6 DEF Evaluated
  <2> HIDE DEF prev, value
  <2> QED
    BY <1>3, <1>4, <2>1 DEF EvaluateLevel, NewLeaf, Compare, Result
<1> QED
  BY <1>5, <1>6

\* An evaluated tree has states.
LEMMA KeptIsAState ==
    ASSUME EngineTypes, NEW quote \in Quote
    PROVE  Kept(Evaluated(quote)) \in AlertState
<1> DEFINE e == Evaluated(quote)
<1>1. \A l \in Leaf : /\ e[l].last_result \in Result
                      /\ e[l].crossing_side \in {"above", "below", "unknown"}
                      /\ e[l].tick \in Result
  BY LeavesAreLeaves
<1> HIDE DEF e
<1>2. RootResult(e) \in Result
  <2>1. \A logic, results : Group(logic, results) \in Result
    BY DEF Group, AllOf, AnyOf, Result
  <2>2. CASE Grouped
    BY <2>1, <2>2 DEF RootResult
  <2>3. CASE ~Grouped
    <3>1. PICK l \in Leaf : Leaf = {l}
      BY <2>3, ConditionAlertAssumption
    <3>2. {e[k].tick : k \in Leaf} = {e[l].tick}
      BY <3>1
    <3>3. (CHOOSE r \in {e[k].tick : k \in Leaf} : TRUE) = e[l].tick
      BY <3>2
    <3> QED
      BY <1>1, <2>3, <3>3 DEF RootResult
  <2> QED
    BY <2>2, <2>3
<1>3. [l \in Leaf |-> [last_result |-> e[l].last_result, crossing_side |-> e[l].crossing_side]]
         \in [Leaf -> LeafState]
  BY <1>1 DEF LeafState
<1> QED
  BY <1>2, <1>3 DEF Kept, AlertState, e

\* The leaves evaluated stand for the observations with this quote, if they stood for
\* those before it; and those that keep their state do so already.
LEMMA KeptRemembers ==
    ASSUME EngineTypes, NEW quote \in Quote, Remembers(state, observed)
    PROVE  /\ Observations(quote) \in [QuoteLeaf -> Value]
           /\ Remembers(Kept(Evaluated(quote)), Observations(quote))
<1> DEFINE new == Kept(Evaluated(quote))
           obs == Observations(quote)
<1>1. obs \in [QuoteLeaf -> Value]
  BY ValuesAreValues DEF Observations, EngineTypes, QuoteLeaf
<1>2. Remembers(new, obs)
  <2> SUFFICES ASSUME NEW l \in QuoteLeaf \ Nested
               PROVE  IF l \in Crossing
                      THEN new.leaves[l].crossing_side
                              = (IF obs[l] = "none" THEN "unknown" ELSE obs[l])
                      ELSE obs[l] = "none" \/ new.leaves[l].last_result = Compare(obs[l])
    BY DEF Remembers
  <2> DEFINE prev == state.leaves[l]
             value == ValueOf(l, quote)
  <2>1. l \in Leaf /\ l \notin Analytics
    BY DEF QuoteLeaf
  <2>2. new.leaves[l].crossing_side = Evaluated(quote)[l].crossing_side
        /\ new.leaves[l].last_result = Evaluated(quote)[l].last_result
    BY <2>1 DEF Kept
  <2>3. obs[l] = IF (l \in Crossing => Fresh(l, quote)) /\ value # "none"
                 THEN value ELSE observed[l]
    BY DEF Observations
  <2>4. CASE l \in Crossing
    <3>1. Evaluated(quote)[l] = EvaluateCrossing(prev, value, Fresh(l, quote))
      BY <2>1, <2>4 DEF Evaluated
    <3>2. prev.crossing_side = (IF observed[l] = "none" THEN "unknown" ELSE observed[l])
      BY <2>4 DEF Remembers
    <3>3. CASE Fresh(l, quote) /\ value # "none"
      <4>1. Evaluated(quote)[l].crossing_side = value
        BY <3>1, <3>3 DEF EvaluateCrossing, NewLeaf
      <4> QED
        BY <2>2, <2>3, <2>4, <3>3, <4>1
    <3>4. CASE ~(Fresh(l, quote) /\ value # "none")
      <4>1. Evaluated(quote)[l].crossing_side = prev.crossing_side
        BY <3>1, <3>4 DEF EvaluateCrossing, NewLeaf
      <4>2. obs[l] = observed[l]
        BY <2>3, <2>4, <3>4
      <4> HIDE DEF obs, prev, value, new
      <4> QED
        BY <2>2, <2>4, <3>2, <4>1, <4>2
    <3> QED
      BY <3>3, <3>4
  <2>5. CASE l \notin Crossing
    <3>1. Evaluated(quote)[l] = EvaluateLevel(prev, value, l \in ChainSeen)
      BY <2>1, <2>5 DEF Evaluated
    <3>2. l \notin ChainSeen
      BY <2>1, ValuesAreValues
    <3>3. observed[l] = "none" \/ prev.last_result = Compare(observed[l])
      BY <2>5 DEF Remembers
    <3>4. CASE value # "none"
      <4>1. Evaluated(quote)[l].last_result = Compare(value)
        BY <3>1, <3>4 DEF EvaluateLevel, NewLeaf
      <4> QED
        BY <2>2, <2>3, <2>5, <3>4, <4>1
    <3>5. CASE value = "none"
      <4>1. Evaluated(quote)[l].last_result = prev.last_result
        BY <3>1, <3>2, <3>5 DEF EvaluateLevel, NewLeaf
      <4>2. obs[l] = observed[l]
        BY <2>3, <3>5
      <4> HIDE DEF obs, prev, value, new
      <4> QED
        BY <2>2, <2>5, <3>3, <4>1, <4>2
    <3> QED
      BY <3>4, <3>5
  <2> QED
    BY <2>4, <2>5
<1> QED
  BY <1>1, <1>2

-----------------------------------------------------------------------------
(* The evaluations.                                                        *)

\* A feed's evaluation moves on; the lock passes only from no one.
LEMMA HoldersStayOne ==
    ASSUME EngineTypes, OneHolder, NEW f \in Feed, NEW x \in FeedState,
           feed' = [feed EXCEPT ![f] = x],
           x.pc \in HolderPc => feed[f].pc \in HolderPc \/ ~Locked
    PROVE  /\ feed' \in [Feed -> FeedState] /\ feed'[f] = x
           /\ \A g \in Feed : g # f => feed'[g] = feed[g]
           /\ OneHolder'
<1>1. /\ feed' \in [Feed -> FeedState] /\ feed'[f] = x
      /\ \A g \in Feed : g # f => feed'[g] = feed[g]
  BY DEF EngineTypes
<1>2. SUFFICES ASSUME NEW g \in Feed, NEW h \in Feed, g # h,
                      feed'[g].pc \in HolderPc, feed'[h].pc \in HolderPc
               PROVE  FALSE
  BY <1>1 DEF OneHolder
<1>3. CASE g # f /\ h # f
  BY <1>1, <1>2, <1>3 DEF OneHolder
<1>4. ASSUME NEW k \in Feed, k # f, feed'[k].pc \in HolderPc, x.pc \in HolderPc
      PROVE  FALSE
  <2>1. feed[k].pc \in HolderPc /\ feed[f].pc \in HolderPc
    BY <1>1, <1>4 DEF Locked
  <2> QED
    BY <1>4, <2>1 DEF OneHolder
<1> QED
  BY <1>1, <1>2, <1>3, <1>4

\* An evaluation that has changed nothing yet begins to wait, or ends.
LEMMA RestKeeps ==
    ASSUME AInv, NEW f \in Feed, NEW x \in FeedState, x.pc \in {"idle", "queued"},
           feed' = [feed EXCEPT ![f] = x], feed[f].pc \notin Committed,
           UNCHANGED <<once, storeVars, engineVars, chainVars, tool, observed>>,
           disturbed => disturbed', disturbed' \in BOOLEAN, faults' \in Nat
    PROVE  AInv'
<1> USE DEF AInv
<1>1. x.pc \notin HolderPc \cup DetachedPc
  BY DEF HolderPc, DetachedPc
<1>2. /\ feed' \in [Feed -> FeedState] /\ feed'[f] = x
      /\ \A g \in Feed : g # f => feed'[g] = feed[g]
      /\ OneHolder'
  BY <1>1, HoldersStayOne
<1>3. EngineTypes'
  BY <1>2 DEF EngineTypes, storeVars, engineVars, chainVars
<1>4. ASSUME ~disturbed'
      PROVE  Calm'
  <2>1. Calm /\ ~disturbed
    BY <1>4
  <2>2. \A g \in Feed :
           feed'[g].pc \in HolderPc \cup DetachedPc => g # f /\ feed'[g] = feed[g]
    BY <1>1, <1>2
  <2>3. UNCHANGED <<once, enabled, stored, loaded, indexed, state, tool, observed>>
    BY DEF storeVars, engineVars
  <2>4. \A g \in Feed : feed'[g].pc \notin DetachedPc /\ Pending(g)'
    <3> TAKE g \in Feed
    <3>1. CASE g = f
      BY <1>2, <3>1 DEF Pending, Committed, Working, DetachedPc
    <3>2. CASE g # f
      <4>1. feed'[g] = feed[g]
        BY <1>2, <3>2
      <4> QED
        BY <2>1, <2>3, <4>1 DEF Calm, Pending, Remembers
    <3> QED
      BY <3>1, <3>2
  <2>5. InFlight' => InFlight
    BY <2>2 DEF InFlight
  <2>6. \A g \in Feed : feed'[g].pc \in Committed <=> feed[g].pc \in Committed
    BY <1>2 DEF Committed
  <2>7. Triggered' <=> Triggered
    BY <1>2 DEF Triggered, Committed
  <2>8. Coherent => Coherent'
    BY <2>3, <2>6, <2>7 DEF Coherent
  <2>9. Remembers(stored, observed)'
    BY <2>1, <2>3 DEF Calm, Remembers
  <2> QED
    BY <2>1, <2>3, <2>4, <2>5, <2>8, <2>9 DEF Calm
<1> QED
  BY <1>2, <1>3, <1>4

\* A quote is delivered, or finds the alert gone, or its transaction fails.
LEMMA WaitingKeeps ==
    ASSUME AInv, NEW f \in Feed,
           \/ \E quote \in Quote : Deliver(f, quote)
           \/ NotLoaded(f)
           \/ CommitFails(f)
    PROVE  AInv'
<1>1. faults \in Nat /\ disturbed \in BOOLEAN
  BY DEF AInv, EngineTypes
<1>2. ASSUME NEW quote \in Quote, Deliver(f, quote)
      PROVE  AInv'
  <2> DEFINE x == [pc |-> "queued", quote |-> quote]
  <2>1. x \in FeedState /\ x.pc = "queued"
    BY DEF FeedState
  <2>2. feed' = [feed EXCEPT ![f] = x] /\ feed[f].pc = "idle"
    BY <1>2 DEF Deliver, Idle
  <2>3. UNCHANGED <<once, storeVars, engineVars, chainVars, tool, observed>>
        /\ disturbed' = disturbed /\ faults' = faults
    BY <1>2 DEF Deliver
  <2>4. feed[f].pc \notin Committed
    BY <2>2 DEF Committed
  <2> HIDE DEF x
  <2> QED
    BY <1>1, <2>1, <2>2, <2>3, <2>4, RestKeeps
<1>3. CASE NotLoaded(f) \/ CommitFails(f)
  <2>1. Idle \in FeedState /\ Idle.pc = "idle"
    BY DEF FeedState, Idle
  <2>2. /\ feed' = [feed EXCEPT ![f] = Idle]
        /\ UNCHANGED <<once, storeVars, engineVars, chainVars, tool, observed>>
        /\ disturbed' = disturbed /\ faults' \in {faults, faults + 1}
        /\ feed[f].pc \in {"queued", "trigger", "save"}
    BY <1>3 DEF NotLoaded, CommitFails
  <2>3. feed[f].pc \notin Committed
    BY <2>2 DEF Committed
  <2>4. faults' \in Nat
    BY <1>1, <2>2
  <2>5. (disturbed => disturbed') /\ disturbed' \in BOOLEAN
    BY <1>1, <2>2, Zenon
  <2>6. UNCHANGED <<once, storeVars, engineVars, chainVars, tool, observed>>
    BY <2>2
  <2>7. feed' = [feed EXCEPT ![f] = Idle]
    BY <2>2
  <2> QED
    BY <2>1, <2>3, <2>4, <2>5, <2>6, <2>7, RestKeeps
<1> QED
  BY <1>2, <1>3

\* The tree is evaluated: what it found is in flight, or was not worth saving.
LEMMA EvaluateKeeps ==
    ASSUME AInv, NEW f \in Feed, Evaluate(f)
    PROVE  AInv'
<1> USE DEF AInv
<1> DEFINE quote == feed[f].quote
           new == Kept(Evaluated(quote))
           obs == Observations(quote)
           work(pc) == [pc |-> pc, updates |-> new, values |-> obs]
<1>1. /\ feed[f].pc = "queued" /\ ~Locked /\ loaded
      /\ last_value' = [l \in Rereading |-> ValueOf(l, quote)]
      /\ unread' = {} /\ chain_seen' = ChainSeen
      /\ disturbed' = (disturbed \/ tool # "idle")
      /\ UNCHANGED <<once, storeVars, loaded, indexed, state, chain, tool, faults>>
  BY DEF Evaluate
<1>2. quote \in Quote
  BY <1>1, FeedShape
<1>3. /\ new \in AlertState
      /\ \A l \in Leaf : ValueOf(l, quote) \in Value
      /\ ChainSeen \subseteq Analytics
  BY <1>2, KeptIsAState, ValuesAreValues
<1>4. obs \in [QuoteLeaf -> Value]
  <2>1. \A l \in QuoteLeaf : ValueOf(l, quote) \in Value /\ observed[l] \in Value
    BY <1>3 DEF QuoteLeaf, EngineTypes
  <2> QED
    BY <2>1 DEF Observations
<1>5. \/ /\ RootFires(state.root, new.root)
         /\ feed' = [feed EXCEPT ![f] = work("trigger")] /\ UNCHANGED observed
      \/ /\ ~RootFires(state.root, new.root) /\ HasChanges(new)
         /\ feed' = [feed EXCEPT ![f] = work("save")] /\ UNCHANGED observed
      \/ /\ ~RootFires(state.root, new.root) /\ ~HasChanges(new)
         /\ feed' = [feed EXCEPT ![f] = Idle] /\ observed' = obs
  BY DEF Evaluate
<1>6. work("trigger") \in FeedState /\ work("save") \in FeedState /\ Idle \in FeedState
      /\ Idle.pc = "idle"
  BY <1>3, <1>4 DEF FeedState, Evaluation_, HolderPc, Idle
<1>7. PICK x \in FeedState : x \in {work("trigger"), work("save"), Idle}
                             /\ feed' = [feed EXCEPT ![f] = x]
  BY <1>5, <1>6
<1>8. /\ feed' \in [Feed -> FeedState] /\ feed'[f] = x
      /\ \A g \in Feed : g # f => feed'[g] = feed[g]
      /\ OneHolder'
  BY <1>1, <1>7, HoldersStayOne
<1> HIDE DEF new, obs, quote
<1>9. EngineTypes'
  <2>1. disturbed' \in BOOLEAN
    BY <1>1 DEF EngineTypes
  <2>2. last_value' \in [Rereading -> Value]
    BY <1>1, <1>3 DEF Rereading
  <2>3. observed' \in [QuoteLeaf -> Value]
    BY <1>4, <1>5 DEF EngineTypes
  <2> QED
    BY <1>1, <1>3, <1>8, <2>1, <2>2, <2>3 DEF EngineTypes, storeVars
<1>10. ASSUME ~disturbed'
       PROVE  Calm'
  <2>1. ~disturbed /\ tool = "idle" /\ Calm /\ Coherent
    BY <1>1, <1>10 DEF Calm
  <2>2. UNCHANGED <<once, enabled, stored, loaded, indexed, state, tool>>
    BY <1>1 DEF storeVars
  <2>3. \A g \in Feed : feed[g].pc \notin HolderPc \cup DetachedPc
    BY <1>1, <2>1 DEF Locked, Calm
  <2>4. state = stored
    BY <1>1, <2>1, <2>3 DEF Coherent, Committed, HolderPc
  <2>5. Remembers(state, observed)
    BY <2>1, <2>4 DEF Calm
  <2>6. Remembers(new, obs)
    BY <1>2, <2>5, KeptRemembers DEF new, obs
  <2>7. indexed = enabled /\ (~once => loaded = enabled)
    BY <2>1, <2>3 DEF Coherent, Triggered, HolderPc
  <2>8. /\ \A g \in Feed : feed'[g].pc \notin Committed
        /\ \A g \in Feed : feed'[g].pc \notin DetachedPc
        /\ \A g \in Feed : g # f => feed'[g].pc \notin HolderPc
    <3>1. x.pc \in {"trigger", "save", "idle"}
      BY <1>6, <1>7
    <3> QED
      BY <1>8, <2>3, <3>1 DEF Committed, HolderPc, DetachedPc
  <2>9. Coherent'
    <3>1. ~Triggered'
      BY <2>8 DEF Triggered, Committed
    <3> QED
      BY <2>2, <2>4, <2>7, <3>1 DEF Coherent
  <2>10. Remembers(stored, observed)'
    <3>1. CASE UNCHANGED observed
      BY <2>1, <2>2, <3>1 DEF Calm, Remembers
    <3>2. CASE ~HasChanges(new) /\ observed' = obs
      <4>1. \A l \in QuoteLeaf \ Nested : stored.leaves[l] = new.leaves[l]
        BY <2>4, <3>2 DEF HasChanges, QuoteLeaf
      <4> QED
        BY <2>2, <2>6, <3>2, <4>1 DEF Remembers
    <3> QED
      BY <1>5, <3>1, <3>2
  <2>11. \A g \in Feed : Pending(g)'
    <3> TAKE g \in Feed
    <3>1. CASE g # f
      BY <2>8, <3>1 DEF Pending, Committed, Working, HolderPc
    <3>2. CASE g = f /\ RootFires(state.root, new.root)
      <4>1. feed'[g] = work("trigger")
        BY <1>5, <1>8, <3>2 DEF EngineTypes
      <4>2. new.root = "true" /\ stored.root # "true"
        BY <2>4, <3>2 DEF RootFires
      <4> QED
        BY <2>2, <2>6, <4>1, <4>2 DEF Pending, Committed, Working, Remembers
    <3>3. CASE g = f /\ ~RootFires(state.root, new.root)
      <4>1. feed'[g] = work("save") \/ feed'[g] = Idle
        BY <1>5, <1>8, <3>3 DEF EngineTypes
      <4>2. new.root = "true" => stored.root = "true"
        BY <2>4, <3>3 DEF RootFires
      <4> QED
        BY <1>6, <2>2, <2>6, <4>1, <4>2 DEF Pending, Committed, Working, Remembers
    <3> QED
      BY <3>1, <3>2, <3>3
  <2> QED
    BY <1>1, <2>1, <2>2, <2>8, <2>9, <2>10, <2>11 DEF Calm
<1> QED
  BY <1>8, <1>9, <1>10

\* The transaction commits: the store has what the evaluation found, and what was
\* pending is done.
LEMMA CommitKeeps ==
    ASSUME AInv, NEW f \in Feed, CommitTrigger(f) \/ CommitStates(f)
    PROVE  AInv'
<1> USE DEF AInv
<1> DEFINE updates == feed[f].updates
           values == feed[f].values
           next == IF feed[f].pc = "trigger" THEN "triggered" ELSE "saved"
           x == [feed[f] EXCEPT !.pc = next]
<1>1. /\ feed[f].pc \in Working
      /\ stored' = updates /\ observed' = values
      /\ feed' = [feed EXCEPT ![f] = x]
      /\ UNCHANGED <<once, engineVars, chainVars, tool, disturbed, faults>>
      /\ IF feed[f].pc = "trigger"
         THEN enabled' = ~once /\ triggers' = triggers + 1
         ELSE UNCHANGED <<enabled, triggers>>
  BY DEF CommitTrigger, CommitStates, SaveTrigger, SaveStates, Working
<1>2. feed[f] \in Evaluation_ /\ feed[f].pc \in HolderPc
  BY <1>1, FeedShape DEF Working, HolderPc
<1>3. updates \in AlertState /\ values \in [QuoteLeaf -> Value]
  BY <1>2 DEF Evaluation_
<1>4. next \in {"triggered", "saved"} /\ next \in HolderPc
  BY DEF HolderPc
<1>5. x \in FeedState /\ x.pc = next /\ x.updates = updates
  <2> HIDE DEF next
  <2>1. x \in Evaluation_ /\ x.pc = next /\ x.updates = updates
    BY <1>2, <1>4 DEF Evaluation_
  <2> QED
    BY <2>1 DEF FeedState
<1> HIDE DEF x, updates, values
<1>6. /\ feed' \in [Feed -> FeedState] /\ feed'[f] = x
      /\ \A g \in Feed : g # f => feed'[g] = feed[g]
      /\ OneHolder'
  BY <1>1, <1>2, <1>5, HoldersStayOne
<1>7. EngineTypes'
  <2>1. triggers' \in Nat
    BY <1>1 DEF EngineTypes
  <2>2. enabled' \in BOOLEAN
    <3>1. enabled' = ~once \/ enabled' = enabled
      BY <1>1
    <3> QED
      BY <3>1, Zenon DEF EngineTypes
  <2> QED
    BY <1>1, <1>3, <1>6, <2>1, <2>2 DEF EngineTypes, engineVars, chainVars
<1>8. ASSUME ~disturbed'
      PROVE  Calm'
  <2>1. ~disturbed /\ Calm
    BY <1>1, <1>8
  <2>2. tool = "idle" /\ loaded /\ Coherent /\ Pending(f)
    BY <1>2, <2>1 DEF Calm, InFlight
  <2>3. UNCHANGED <<once, loaded, indexed, state, tool>>
    BY <1>1 DEF engineVars
  <2>4. \A g \in Feed : g # f => feed[g].pc \notin HolderPc \cup DetachedPc
    BY <1>2, <2>1 DEF OneHolder, Calm
  <2>5. \A g \in Feed : g # f => feed'[g].pc \notin HolderPc \cup DetachedPc
    BY <1>6, <2>4
  <2>6. Remembers(updates, values)
    BY <1>1, <2>2 DEF Pending, updates, values
  <2>7. Remembers(stored, observed)'
    BY <1>1, <2>6 DEF Remembers
  <2>8. ~Triggered /\ indexed = enabled /\ (~once => loaded = enabled)
    <3>1. ~Triggered
      BY <1>1, <2>4 DEF Triggered, Working, HolderPc
    <3> QED
      BY <2>2, <3>1 DEF Coherent
  <2>9. Coherent'
    <3>1. feed'[f].pc \in Committed
      BY <1>4, <1>5, <1>6 DEF Committed
    <3>2. CASE feed[f].pc = "trigger"
      <4>1. Triggered'
        BY <1>5, <1>6, <3>2 DEF Triggered
      <4>2. enabled' = ~once
        BY <1>1, <3>2
      <4>3. ~once => indexed
        BY <2>2, <2>8
      <4> QED
        BY <2>2, <2>3, <3>1, <4>1, <4>2, <4>3 DEF Coherent
    <3>3. CASE feed[f].pc # "trigger"
      <4>1. ~Triggered'
        BY <1>5, <1>6, <2>5, <3>3 DEF Triggered, HolderPc
      <4>2. enabled' = enabled
        BY <1>1, <3>3
      <4> QED
        BY <2>3, <2>8, <3>1, <4>1, <4>2 DEF Coherent
    <3> QED
      BY <3>2, <3>3
  <2>10. \A g \in Feed : feed'[g].pc \notin DetachedPc /\ Pending(g)'
    <3> TAKE g \in Feed
    <3>1. CASE g = f
      <4>1. feed'[g] = x /\ x.pc \in {"triggered", "saved"} /\ stored' = x.updates
        BY <1>1, <1>4, <1>5, <1>6, <3>1
      <4> QED
        BY <4>1 DEF Pending, Committed, Working, DetachedPc
    <3>2. CASE g # f
      BY <2>5, <3>2 DEF Pending, Committed, Working, HolderPc
    <3> QED
      BY <3>1, <3>2
  <2> QED
    BY <2>2, <2>3, <2>7, <2>9, <2>10 DEF Calm
<1> QED
  BY <1>6, <1>7, <1>8

\* A once alert leaves the index.
LEMMA LeaveIndexKeeps ==
    ASSUME AInv, NEW f \in Feed, LeaveIndex(f)
    PROVE  AInv'
<1> USE DEF AInv
<1> DEFINE x == [feed[f] EXCEPT !.pc = "announcing"]
<1>1. /\ feed[f].pc = "triggered"
      /\ indexed' = (indexed /\ ~once)
      /\ feed' = [feed EXCEPT ![f] = x]
      /\ UNCHANGED <<once, storeVars, loaded, state, last_value, chainVars, tool, observed,
                     disturbed, faults>>
  BY DEF LeaveIndex
<1>2. feed[f] \in Evaluation_ /\ feed[f].pc \in HolderPc
  BY <1>1, FeedShape DEF HolderPc
<1>3. x \in FeedState /\ x.pc = "announcing" /\ x.updates = feed[f].updates
  BY <1>2 DEF Evaluation_, FeedState, HolderPc
<1> HIDE DEF x
<1>4. /\ feed' \in [Feed -> FeedState] /\ feed'[f] = x
      /\ \A g \in Feed : g # f => feed'[g] = feed[g]
      /\ OneHolder'
  BY <1>1, <1>2, <1>3, HoldersStayOne
<1>5. EngineTypes'
  <2>1. indexed' \in BOOLEAN /\ (indexed' => loaded')
    BY <1>1 DEF EngineTypes
  <2> QED
    BY <1>1, <1>4, <2>1 DEF EngineTypes, storeVars, chainVars
<1>6. ASSUME ~disturbed'
      PROVE  Calm'
  <2>1. ~disturbed /\ Calm
    BY <1>1, <1>6
  <2>2. tool = "idle" /\ loaded /\ Coherent /\ Pending(f)
    BY <1>2, <2>1 DEF Calm, InFlight
  <2>3. UNCHANGED <<once, enabled, stored, loaded, state, tool, observed>>
    BY <1>1 DEF storeVars
  <2>4. \A g \in Feed : g # f => feed'[g].pc \notin HolderPc \cup DetachedPc
    BY <1>2, <1>4, <2>1 DEF OneHolder, Calm
  <2>5. enabled = ~once /\ (~once => indexed) /\ (~once => loaded = enabled)
    BY <1>1, <2>2 DEF Coherent, Triggered
  <2>6. Coherent'
    <3>1. ~Triggered'
      BY <1>3, <1>4, <2>4 DEF Triggered, HolderPc
    <3>2. feed'[f].pc \in Committed
      BY <1>3, <1>4 DEF Committed
    <3>3. indexed' = enabled'
      BY <1>1, <2>3, <2>5
    <3>4. ~once' => loaded' = enabled'
      BY <2>3, <2>5
    <3> QED
      BY <3>1, <3>2, <3>3, <3>4 DEF Coherent
  <2>7. \A g \in Feed : feed'[g].pc \notin DetachedPc /\ Pending(g)'
    <3> TAKE g \in Feed
    <3>1. CASE g = f
      <4>1. stored = feed[f].updates
        BY <1>1, <2>2 DEF Pending, Committed
      <4>2. feed'[g] = x /\ x.pc = "announcing" /\ stored' = x.updates
        BY <1>3, <1>4, <2>3, <3>1, <4>1
      <4> QED
        BY <4>2 DEF Pending, Working, DetachedPc
    <3>2. CASE g # f
      BY <2>4, <3>2 DEF Pending, Committed, Working, HolderPc
    <3> QED
      BY <3>1, <3>2
  <2>8. Remembers(stored, observed)'
    BY <2>1, <2>3 DEF Calm, Remembers
  <2> QED
    BY <2>2, <2>3, <2>6, <2>7, <2>8 DEF Calm
<1> QED
  BY <1>4, <1>5, <1>6

\* The memory takes over what the store has.
LEMMA FinishKeeps ==
    ASSUME AInv, NEW f \in Feed, Finish(f)
    PROVE  AInv'
<1> USE DEF AInv
<1>1. /\ feed[f].pc \in {"announcing", "saved"}
      /\ \/ loaded /\ state' = feed[f].updates
         \/ ~loaded /\ UNCHANGED state
      /\ feed' = [feed EXCEPT ![f] = Idle]
      /\ UNCHANGED <<once, storeVars, loaded, indexed, last_value, chainVars, tool, observed,
                     disturbed, faults>>
  BY DEF Finish, Remember
<1>2. feed[f] \in Evaluation_ /\ feed[f].pc \in HolderPc
  BY <1>1, FeedShape DEF HolderPc
<1>3. Idle \in FeedState /\ Idle.pc = "idle"
  BY DEF FeedState, Idle
<1>4. /\ feed' \in [Feed -> FeedState] /\ feed'[f] = Idle
      /\ \A g \in Feed : g # f => feed'[g] = feed[g]
      /\ OneHolder'
  BY <1>1, <1>2, <1>3, HoldersStayOne
<1>5. EngineTypes'
  <2>1. state' \in AlertState
    BY <1>1, <1>2 DEF EngineTypes, Evaluation_
  <2> QED
    BY <1>1, <1>4, <2>1 DEF EngineTypes, storeVars, chainVars
<1>6. ASSUME ~disturbed'
      PROVE  Calm'
  <2>1. ~disturbed /\ Calm
    BY <1>1, <1>6
  <2>2. tool = "idle" /\ loaded /\ Coherent /\ Pending(f)
    BY <1>2, <2>1 DEF Calm, InFlight
  <2>3. UNCHANGED <<once, enabled, stored, loaded, indexed, tool, observed>>
    BY <1>1 DEF storeVars
  <2>4. \A g \in Feed : g # f => /\ feed[g].pc \notin HolderPc \cup DetachedPc
                                 /\ feed'[g].pc \notin HolderPc \cup DetachedPc
    BY <1>2, <1>4, <2>1 DEF OneHolder, Calm
  <2>5. state' = stored'
    BY <1>1, <2>2, <2>3 DEF Pending, Committed
  <2>6. ~Triggered /\ ~Triggered'
    BY <1>1, <1>3, <1>4, <2>4 DEF Triggered, HolderPc
  <2>7. Coherent'
    BY <2>2, <2>3, <2>5, <2>6 DEF Coherent
  <2>8. \A g \in Feed : feed'[g].pc \notin DetachedPc /\ Pending(g)'
    <3> TAKE g \in Feed
    <3>1. CASE g = f
      BY <1>3, <1>4, <3>1 DEF Pending, Committed, Working, DetachedPc
    <3>2. CASE g # f
      BY <2>4, <3>2 DEF Pending, Committed, Working, HolderPc
    <3> QED
      BY <3>1, <3>2
  <2>9. Remembers(stored, observed)'
    BY <2>1, <2>3 DEF Calm, Remembers
  <2> QED
    BY <2>2, <2>3, <2>7, <2>8, <2>9 DEF Calm
<1> QED
  BY <1>4, <1>5, <1>6

\* A cancellation disturbs what it meets, unless that only waited for the lock.
LEMMA CancelKeeps ==
    ASSUME AInv, NEW f \in Feed, Cancel(f)
    PROVE  AInv'
<1> USE DEF AInv
<1>1. /\ feed[f] # Idle /\ feed[f].pc \notin DetachedPc
      /\ faults' = faults + 1
      /\ disturbed' = (disturbed \/ feed[f].pc # "queued")
      /\ UNCHANGED <<once, storeVars, engineVars, chainVars, tool, observed>>
      /\ feed' = [feed EXCEPT ![f] =
             IF feed[f].pc = "trigger" THEN [feed[f] EXCEPT !.pc = "detached trigger"]
             ELSE IF feed[f].pc = "save" THEN [feed[f] EXCEPT !.pc = "detached save"]
             ELSE Idle]
  BY DEF Cancel
<1>2. Idle \in FeedState /\ Idle.pc = "idle"
  BY DEF FeedState, Idle
<1>3. faults' \in Nat /\ disturbed' \in BOOLEAN /\ (disturbed => disturbed')
  <2>1. faults' \in Nat
    <3>1. faults \in Nat /\ faults' = faults + 1
      BY <1>1 DEF EngineTypes
    <3> QED
      BY <3>1
  <2>2. disturbed' = (disturbed \/ feed[f].pc # "queued")
    BY <1>1
  <2>3. disturbed' \in BOOLEAN /\ (disturbed => disturbed')
    BY <2>2, Zenon
  <2> QED
    BY <2>1, <2>3
<1>4. CASE feed[f].pc = "queued"
  <2>1. feed' = [feed EXCEPT ![f] = Idle] /\ disturbed' = disturbed
        /\ feed[f].pc \notin Committed
    BY <1>1, <1>4 DEF Committed, EngineTypes
  <2> QED
    BY <1>1, <1>2, <1>3, <2>1, RestKeeps
<1>5. CASE feed[f].pc # "queued"
  <2>1. disturbed'
    BY <1>1, <1>5
  <2>2. PICK x \in FeedState : x.pc \notin HolderPc /\ feed' = [feed EXCEPT ![f] = x]
    <3>1. CASE feed[f].pc \in Working
      <4>1. feed[f] \in Evaluation_
        BY <3>1, FeedShape DEF Working, HolderPc
      <4> DEFINE pc == IF feed[f].pc = "trigger" THEN "detached trigger" ELSE "detached save"
                 x == [feed[f] EXCEPT !.pc = pc]
      <4>2. pc \in DetachedPc /\ pc \notin HolderPc
        BY DEF DetachedPc, HolderPc
      <4>3. feed' = [feed EXCEPT ![f] = x]
        BY <1>1, <3>1 DEF Working
      <4> HIDE DEF pc
      <4>4. x \in FeedState /\ x.pc = pc
        BY <4>1, <4>2 DEF Evaluation_, FeedState
      <4> HIDE DEF x
      <4> QED
        BY <4>2, <4>3, <4>4
    <3>2. CASE feed[f].pc \notin Working
      <4>1. feed' = [feed EXCEPT ![f] = Idle]
        BY <1>1, <3>2 DEF Working
      <4> QED
        BY <1>2, <4>1 DEF HolderPc
    <3> QED
      BY <3>1, <3>2
  <2>3. feed' \in [Feed -> FeedState] /\ OneHolder'
    BY <2>2, HoldersStayOne
  <2>4. EngineTypes'
    BY <1>1, <1>3, <2>3 DEF EngineTypes, storeVars, engineVars, chainVars
  <2> QED
    BY <2>1, <2>3, <2>4
<1> QED
  BY <1>4, <1>5

\* What a cancelled evaluation left behind ends; the alert is disturbed already.
LEMMA DetachedKeeps ==
    ASSUME AInv, NEW f \in Feed, EndDetached(f)
    PROVE  AInv'
<1> USE DEF AInv
<1>1. /\ feed[f].pc \in DetachedPc
      /\ feed' = [feed EXCEPT ![f] = Idle]
      /\ UNCHANGED <<once, engineVars, chainVars, tool, disturbed, faults>>
      /\ \/ SaveTrigger(f) \/ SaveStates(f)
         \/ UNCHANGED <<storeVars, observed>>
  BY DEF EndDetached, DetachedPc
<1>2. feed[f] \in Evaluation_
  BY <1>1, FeedShape
<1>3. Idle \in FeedState /\ Idle.pc \notin HolderPc
  BY DEF FeedState, Idle, HolderPc
<1>4. feed' \in [Feed -> FeedState] /\ OneHolder'
  BY <1>1, <1>3, HoldersStayOne
<1>5. disturbed /\ disturbed'
  BY <1>1 DEF Calm
<1>6. /\ stored' \in AlertState /\ observed' \in [QuoteLeaf -> Value]
      /\ enabled' \in BOOLEAN /\ triggers' \in Nat
  <2>1. feed[f].updates \in AlertState /\ feed[f].values \in [QuoteLeaf -> Value]
    BY <1>2 DEF Evaluation_
  <2>2. CASE SaveTrigger(f)
    <3>1. triggers' \in Nat
      BY <2>2 DEF SaveTrigger, EngineTypes
    <3>2. enabled' \in BOOLEAN
      BY <2>2, Zenon DEF SaveTrigger
    <3> QED
      BY <2>1, <2>2, <3>1, <3>2 DEF SaveTrigger
  <2>3. CASE SaveStates(f)
    BY <2>1, <2>3 DEF SaveStates, EngineTypes
  <2>4. CASE UNCHANGED <<storeVars, observed>>
    BY <2>4 DEF storeVars, EngineTypes
  <2> QED
    BY <1>1, <2>2, <2>3, <2>4
<1>7. EngineTypes'
  BY <1>1, <1>4, <1>6 DEF EngineTypes, engineVars, chainVars
<1> QED
  BY <1>4, <1>5, <1>7

-----------------------------------------------------------------------------
(* The tools, the reload and the restart.                                  *)

\* A step that leaves every evaluation where it is, or ends them all.
LEMMA CallKeeps ==
    ASSUME AInv, EngineTypes',
           feed' = feed \/ feed' = [f \in Feed |-> Idle],
           ~disturbed' => /\ ~InFlight'
                          /\ tool' = "idle" => Coherent'
                          /\ Remembers(stored, observed)'
    PROVE  AInv'
<1>1. Idle.pc = "idle"
  BY DEF Idle
<1>2. OneHolder'
  BY <1>1 DEF AInv, OneHolder, HolderPc
<1>3. ASSUME ~disturbed'
      PROVE  Calm'
  <2>1. \A f \in Feed : feed'[f].pc \notin HolderPc \cup DetachedPc
    BY <1>3 DEF InFlight
  <2>2. \A f \in Feed : feed'[f].pc \notin DetachedPc /\ Pending(f)'
    BY <2>1 DEF Pending, Committed, Working, HolderPc
  <2> QED
    BY <1>3, <2>2 DEF Calm
<1> QED
  BY <1>2, <1>3 DEF AInv

\* What was loaded is what is stored.
LEMMA LoadIsCoherent ==
    ASSUME EngineTypes, LoadAlert, UNCHANGED <<once, enabled, stored>>
    PROVE  /\ state' \in AlertState
           /\ loaded' \in BOOLEAN /\ indexed' \in BOOLEAN /\ (indexed' => loaded')
           /\ last_value' \in [Rereading -> Value]
           /\ ~InFlight' => Coherent'
<1>1. UnknownState \in AlertState
  BY DEF UnknownState, AlertState, LeafState, Result
<1>2. state' \in AlertState
  BY <1>1 DEF LoadAlert, EngineTypes
<1>3. last_value' \in [Rereading -> Value]
  BY DEF LoadAlert, Value
<1>4. loaded' = enabled' /\ indexed' = enabled' /\ enabled' \in BOOLEAN
  BY DEF LoadAlert, EngineTypes
<1>5. loaded' => state' = stored'
  BY DEF LoadAlert
<1>6. ~InFlight' => ~Triggered'
  BY DEF InFlight, Triggered, HolderPc
<1> QED
  BY <1>2, <1>3, <1>4, <1>5, <1>6 DEF Coherent

\* A snapshot is refreshed or ages: nothing is evaluated.
LEMMA RefreshKeeps ==
    ASSUME AInv, NEW l \in Analytics, NEW value \in Value, Refresh(l, value)
    PROVE  AInv'
<1> USE DEF AInv
<1>1. /\ chain' = [chain EXCEPT ![l] = value]
      /\ unread' = IF value = "none" THEN unread \ {l} ELSE unread \cup {l}
      /\ UNCHANGED <<once, storeVars, engineVars, chain_seen, feed, tool, observed,
                     disturbed, faults>>
  BY DEF Refresh
<1>2. UNCHANGED <<once, enabled, stored, loaded, indexed, state, tool, observed, feed>>
  BY <1>1 DEF storeVars, engineVars
<1>3. EngineTypes'
  <2>1. chain' \in [Analytics -> Value] /\ chain'[l] = value
        /\ \A k \in Analytics : k # l => chain'[k] = chain[k]
    BY <1>1 DEF EngineTypes
  <2>2. unread' \subseteq {k \in Analytics : chain'[k] # "none"}
    BY <1>1, <2>1 DEF EngineTypes
  <2> QED
    BY <1>1, <2>1, <2>2 DEF EngineTypes, storeVars, engineVars
<1>4. OneHolder'
  BY <1>2 DEF OneHolder
<1>5. ASSUME ~disturbed'
      PROVE  Calm'
  <2>1. Calm
    BY <1>1, <1>5
  <2>2. \A f \in Feed : feed'[f].pc \notin DetachedPc /\ Pending(f)'
    BY <1>2, <2>1 DEF Calm, Pending, Remembers
  <2>3. (InFlight' <=> InFlight) /\ (Triggered' <=> Triggered)
    BY <1>2 DEF InFlight, Triggered
  <2>4. Coherent => Coherent'
    BY <1>2, <2>3 DEF Coherent
  <2>5. Remembers(stored, observed)'
    BY <1>2, <2>1 DEF Calm, Remembers
  <2> QED
    BY <1>2, <2>1, <2>2, <2>3, <2>4, <2>5 DEF Calm
<1> QED
  BY <1>3, <1>4, <1>5

\* A reload, of its own or at the end of a tool, gives memory what is stored.
LEMMA ReloadKeeps ==
    ASSUME AInv, Reload \/ ReloadAfterTool
    PROVE  AInv'
<1> USE DEF AInv
<1>1. /\ LoadAlert
      /\ unread' = {l \in Analytics : chain[l] # "none"}
      /\ disturbed' = (disturbed \/ InFlight)
      /\ UNCHANGED <<once, storeVars, chain, feed, observed, faults>>
      /\ tool' \in {tool, "idle"}
  BY DEF Reload, ReloadAfterTool
<1>2. UNCHANGED <<once, enabled, stored, feed, observed>>
  BY <1>1 DEF storeVars
<1>3. disturbed' \in BOOLEAN
  BY <1>1, Zenon
<1>4. chain_seen' = {}
  BY <1>1 DEF LoadAlert
<1>5. EngineTypes'
  BY <1>1, <1>2, <1>3, <1>4, LoadIsCoherent DEF EngineTypes, storeVars
<1>6. InFlight' <=> InFlight
  BY <1>2 DEF InFlight
<1>7. ~disturbed' => ~InFlight' /\ Coherent' /\ Remembers(stored, observed)'
  <2> SUFFICES ASSUME ~disturbed' PROVE ~InFlight' /\ Coherent' /\ Remembers(stored, observed)'
    OBVIOUS
  <2>1. ~InFlight' /\ Calm
    BY <1>1, <1>6
  <2>2. Coherent'
    BY <1>1, <1>2, <2>1, LoadIsCoherent
  <2>3. Remembers(stored, observed)'
    BY <1>2, <2>1 DEF Calm, Remembers
  <2> QED
    BY <2>1, <2>2, <2>3
<1> QED
  BY <1>2, <1>5, <1>7, CallKeeps

\* A restart ends every evaluation and loads what is stored.
LEMMA RestartKeeps ==
    ASSUME AInv, Restart
    PROVE  AInv'
<1> USE DEF AInv
<1>1. /\ LoadAlert
      /\ feed' = [f \in Feed |-> Idle] /\ tool' = "idle"
      /\ chain' = [l \in Analytics |-> "none"] /\ unread' = {}
      /\ UNCHANGED <<once, storeVars, observed, disturbed, faults>>
  BY DEF Restart
<1>2. UNCHANGED <<once, enabled, stored, observed>>
  BY <1>1 DEF storeVars
<1>3. chain_seen' = {} /\ chain' \in [Analytics -> Value]
  BY <1>1 DEF LoadAlert, Value
<1>4. Idle \in FeedState /\ Idle.pc = "idle"
  BY DEF FeedState, Idle
<1>5. feed' \in [Feed -> FeedState]
  BY <1>1, <1>4
<1>6. EngineTypes'
  BY <1>1, <1>2, <1>3, <1>5, LoadIsCoherent DEF EngineTypes, storeVars
<1>7. ~InFlight'
  BY <1>1, <1>4 DEF InFlight, HolderPc, DetachedPc
<1>8. ~disturbed' => Remembers(stored, observed)'
  BY <1>1, <1>2 DEF Calm, Remembers
<1> QED
  BY <1>1, <1>2, <1>6, <1>7, <1>8, CallKeeps, LoadIsCoherent

\* The tool starts an alert over: nothing is known, and nothing was observed.
LEMMA ResetKeeps ==
    ASSUME AInv, ResetStates
    PROVE  AInv'
<1> USE DEF AInv
<1>1. /\ tool' = "reset"
      /\ stored' = UnknownState /\ observed' = NoValues
      /\ disturbed' = InFlight
      /\ UNCHANGED <<once, enabled, triggers, engineVars, chainVars, feed, faults>>
  BY DEF ResetStates
<1>2. UnknownState \in AlertState
  BY DEF UnknownState, AlertState, LeafState, Result
<1>3. NoValues \in [QuoteLeaf -> Value]
  BY DEF NoValues, Value
<1>4. disturbed' \in BOOLEAN
  BY <1>1, Zenon DEF InFlight
<1>5. EngineTypes'
  BY <1>1, <1>2, <1>3, <1>4 DEF EngineTypes, engineVars, chainVars
<1>6. InFlight' <=> InFlight
  BY <1>1 DEF InFlight
<1>7. Remembers(UnknownState, NoValues)
  BY DEF Remembers, UnknownState, NoValues, QuoteLeaf
<1>8. Remembers(stored, observed)'
  BY <1>1, <1>7 DEF Remembers
<1> QED
  BY <1>1, <1>5, <1>6, <1>8, CallKeeps

\* The tool enables or disables the alert, and has to reload it.
LEMMA SetEnabledKeeps ==
    ASSUME AInv, SetEnabled
    PROVE  AInv'
<1> USE DEF AInv
<1>1. /\ tool' = "reload"
      /\ disturbed' = (disturbed \/ InFlight)
      /\ UNCHANGED <<once, stored, engineVars, chainVars, feed, observed, faults>>
  BY DEF SetEnabled
<1>2. enabled' \in BOOLEAN /\ triggers' \in Nat
  <2>1. triggers \in Nat
    BY DEF EngineTypes
  <2>2. enabled' \in {TRUE, FALSE} /\ triggers' \in {0, triggers}
    BY DEF SetEnabled
  <2>3. triggers' \in Nat
    BY <2>1, <2>2
  <2>4. enabled' \in BOOLEAN
    BY <2>2
  <2> QED
    BY <2>3, <2>4
<1>3. disturbed' \in BOOLEAN
  BY <1>1, Zenon
<1>4. EngineTypes'
  BY <1>1, <1>2, <1>3 DEF EngineTypes, engineVars, chainVars
<1>5. InFlight' <=> InFlight
  BY <1>1 DEF InFlight
<1>6. ~disturbed' => ~InFlight' /\ Remembers(stored, observed)'
  BY <1>1, <1>5 DEF Calm, Remembers
<1> QED
  BY <1>1, <1>4, <1>6, CallKeeps

\* The tool breaks off: the alert is disturbed.
LEMMA BreakOffKeeps ==
    ASSUME AInv, ToolBreaksOff
    PROVE  AInv'
<1> USE DEF AInv
<1>1. /\ tool' = "idle" /\ disturbed' = TRUE /\ faults' = faults + 1
      /\ UNCHANGED <<once, storeVars, engineVars, chainVars, feed, observed>>
  BY DEF ToolBreaksOff
<1>2. faults' \in Nat
  BY <1>1 DEF EngineTypes
<1>3. EngineTypes'
  BY <1>1, <1>2 DEF EngineTypes, storeVars, engineVars, chainVars
<1> QED
  BY <1>1, <1>3, CallKeeps

-----------------------------------------------------------------------------
(* The theorems.                                                           *)

\* Nothing is known of a new alert, and it is loaded.
LEMMA InitCalm == Init => AInv
<1> SUFFICES ASSUME Init PROVE AInv
  OBVIOUS
<1>1. UnknownState \in AlertState
  BY DEF UnknownState, AlertState, LeafState, Result
<1>2. Idle \in FeedState /\ Idle.pc = "idle"
  BY DEF FeedState, Idle
<1>3. \A f \in Feed : feed[f].pc = "idle"
  BY <1>2 DEF Init
<1>4. EngineTypes
  <2>1. feed \in [Feed -> FeedState]
    BY <1>2 DEF Init
  <2>2. /\ last_value \in [Rereading -> Value] /\ observed \in [QuoteLeaf -> Value]
        /\ chain \in [Analytics -> Value]
    BY DEF Init, NoValues, Value
  <2> QED
    BY <1>1, <2>1, <2>2 DEF Init, EngineTypes
<1>5. OneHolder
  BY <1>3 DEF OneHolder, HolderPc
<1>6. Calm
  <2>1. Coherent
    BY <1>3 DEF Init, Coherent, Triggered
  <2>2. \A f \in Feed : feed[f].pc \notin DetachedPc /\ Pending(f)
    BY <1>3 DEF DetachedPc, Pending, Committed, Working
  <2>3. ~InFlight
    BY <1>3 DEF InFlight, HolderPc, DetachedPc
  <2>4. Remembers(stored, observed)
    BY DEF Init, Remembers, UnknownState, NoValues, QuoteLeaf
  <2> QED
    BY <2>1, <2>2, <2>3, <2>4 DEF Calm
<1> QED
  BY <1>4, <1>5, <1>6 DEF AInv

\* A step that changes nothing.
LEMMA StutterKeeps ==
    ASSUME AInv, UNCHANGED vars
    PROVE  AInv'
<1>1. /\ UNCHANGED <<once, enabled, stored, triggers, loaded, indexed, state, last_value>>
      /\ UNCHANGED <<chain, unread, chain_seen, feed, tool, observed, disturbed, faults>>
  BY DEF vars, storeVars, engineVars, chainVars
<1>2. EngineTypes' /\ OneHolder'
  BY <1>1 DEF AInv, EngineTypes, OneHolder
<1>3. Calm => Calm'
  <2>1. (InFlight' <=> InFlight) /\ (Triggered' <=> Triggered)
    BY <1>1 DEF InFlight, Triggered
  <2>2. Coherent => Coherent'
    BY <1>1, <2>1 DEF Coherent
  <2>3. Remembers(stored, observed) => Remembers(stored, observed)'
    BY <1>1 DEF Remembers
  <2>4. \A f \in Feed : Pending(f) => Pending(f)'
    BY <1>1 DEF Pending, Remembers
  <2> QED
    BY <1>1, <2>1, <2>2, <2>3, <2>4 DEF Calm
<1> QED
  BY <1>1, <1>2, <1>3 DEF AInv

\* The types hold, the alert's lock has one holder, and until something disturbs the
\* alert an evaluation in flight has told the store what memory will become.
THEOREM AlertInvariance == Spec => []AInv
<1>1. AInv /\ [Next]_vars => AInv'
  <2> SUFFICES ASSUME AInv, [Next]_vars PROVE AInv'
    OBVIOUS
  <2>1. ASSUME NEW f \in Feed, Evaluation(f) PROVE AInv'
    BY <2>1, WaitingKeeps, EvaluateKeeps, CommitKeeps, LeaveIndexKeeps, FinishKeeps,
       CancelKeeps, DetachedKeeps DEF Evaluation
  <2>2. ASSUME NEW l \in Analytics, NEW value \in Value, Refresh(l, value) PROVE AInv'
    BY <2>2, RefreshKeeps
  <2>3. CASE Reload \/ ReloadAfterTool
    BY <2>3, ReloadKeeps
  <2>4. CASE ResetStates
    BY <2>4, ResetKeeps
  <2>5. CASE SetEnabled
    BY <2>5, SetEnabledKeeps
  <2>6. CASE ToolBreaksOff
    BY <2>6, BreakOffKeeps
  <2>7. CASE Restart
    BY <2>7, RestartKeeps
  <2>8. CASE UNCHANGED vars
    BY <2>8, StutterKeeps
  <2> QED
    BY <2>1, <2>2, <2>3, <2>4, <2>5, <2>6, <2>7, <2>8 DEF Next
<1> QED
  BY <1>1, InitCalm, PTL DEF Spec

\* Between evaluations the engine's memory is what the store would give back, so a
\* restart changes nothing, and an alert is evaluated exactly when it is enabled.
THEOREM MemoryIsTheStore == Spec => []MemoryMatchesStore
<1>1. AInv => MemoryMatchesStore
  <2> SUFFICES ASSUME AInv PROVE MemoryMatchesStore
    OBVIOUS
  <2>1. TypeOK
    <3>1. \A f \in Feed :
             \/ feed[f] = Idle
             \/ feed[f].pc = "queued" /\ feed[f].quote \in Quote
             \/ /\ feed[f].pc \in HolderPc \cup DetachedPc
                /\ feed[f].updates \in AlertState
                /\ feed[f].values \in [QuoteLeaf -> Value]
      BY FeedShape DEF AInv, Evaluation_
    <3> QED
      BY <3>1 DEF AInv, EngineTypes, TypeOK
  <2>2. ASSUME Quiet
        PROVE  indexed = enabled /\ (enabled => state = stored)
    <3>1. Coherent /\ ~InFlight
      BY <2>2 DEF AInv, Calm, Quiet
    <3>2. ~Triggered /\ \A f \in Feed : feed[f].pc \notin Committed
      BY <3>1 DEF InFlight, Triggered, Committed, HolderPc
    <3> QED
      BY <3>1, <3>2 DEF Coherent, AInv, EngineTypes
  <2> QED
    BY <2>1, <2>2 DEF MemoryMatchesStore
<1> QED
  BY <1>1, AlertInvariance, PTL

\* Each leaf of an enabled alert stands for the last observation made of it, outside
\* the nested group.
THEOREM LeavesKeepUp == Spec => []LeavesRememberObservations
<1>1. AInv => LeavesRememberObservations
  <2> SUFFICES ASSUME AInv, Quiet, enabled PROVE Remembers(state, observed)
    BY DEF LeavesRememberObservations, Remembers
  <2>1. Coherent /\ ~InFlight /\ Remembers(stored, observed)
    BY DEF AInv, Calm, Quiet
  <2>2. ~Triggered /\ \A f \in Feed : feed[f].pc \notin Committed
    BY <2>1 DEF InFlight, Triggered, Committed, HolderPc
  <2>3. state = stored
    BY <2>1, <2>2 DEF Coherent, AInv, EngineTypes
  <2> QED
    BY <2>1, <2>3
<1> QED
  BY <1>1, AlertInvariance, PTL

\* An event is persisted exactly when the stored root becomes TRUE: no trigger is
\* lost, and no restart or failed transaction makes one fire twice.
THEOREM TriggersFollowTheRoot == Spec => TriggersAreTransitions
<1> DEFINE Transition == stored.root # "true" /\ stored'.root = "true"
           Shot == triggers' = triggers + 1
<1>1. AInv /\ [Next]_vars => (~disturbed => (Shot <=> Transition))
  <2> SUFFICES ASSUME AInv, [Next]_vars, ~disturbed PROVE Shot <=> Transition
    OBVIOUS
  <2>2. Calm /\ triggers \in Nat
    BY DEF AInv, EngineTypes
  <2>3. CASE UNCHANGED storeVars
    <3>1. triggers' = triggers /\ stored' = stored
      BY <2>3 DEF storeVars
    <3> QED
      BY <2>2, <3>1
  <2>4. ASSUME NEW f \in Feed, CommitTrigger(f)
        PROVE  Shot <=> Transition
    <3>1. feed[f].pc = "trigger" /\ stored' = feed[f].updates /\ triggers' = triggers + 1
      BY <2>4 DEF CommitTrigger, SaveTrigger
    <3>2. feed[f].updates.root = "true" /\ stored.root # "true"
      BY <2>2, <3>1 DEF Calm, Pending
    <3> QED
      BY <3>1, <3>2
  <2>5. ASSUME NEW f \in Feed, CommitStates(f)
        PROVE  Shot <=> Transition
    <3>1. feed[f].pc = "save" /\ stored' = feed[f].updates /\ triggers' = triggers
      BY <2>5 DEF CommitStates, SaveStates
    <3>2. feed[f].updates.root = "true" => stored.root = "true"
      BY <2>2, <3>1 DEF Calm, Pending
    <3>3. triggers' # triggers + 1
      BY <2>2, <3>1
    <3> QED
      BY <3>1, <3>2, <3>3
  <2>6. ASSUME NEW f \in Feed, EndDetached(f)
        PROVE  Shot <=> Transition
    <3>1. feed[f].pc \in DetachedPc
      BY <2>6 DEF EndDetached, DetachedPc
    <3> QED
      BY <2>2, <3>1 DEF Calm
  <2>7. CASE ResetStates
    <3>1. stored'.root = "unknown" /\ triggers' = triggers
      BY <2>7 DEF ResetStates, UnknownState
    <3> QED
      BY <2>2, <3>1
  <2>8. CASE SetEnabled
    <3>1. stored' = stored /\ triggers' \in {0, triggers}
      BY <2>8 DEF SetEnabled
    <3> QED
      BY <2>2, <3>1
  <2>9. ASSUME NEW f \in Feed, Evaluation(f)
        PROVE  Shot <=> Transition
    <3>1. ASSUME \/ \E quote \in Quote : Deliver(f, quote)
                 \/ NotLoaded(f) \/ Evaluate(f) \/ CommitFails(f)
                 \/ LeaveIndex(f) \/ Finish(f) \/ Cancel(f)
          PROVE  UNCHANGED storeVars
      BY <3>1 DEF Deliver, NotLoaded, Evaluate, CommitFails, LeaveIndex, Finish, Cancel
    <3> HIDE DEF Shot, Transition
    <3> QED
      BY <2>3, <2>4, <2>5, <2>6, <2>9, <3>1 DEF Evaluation
  <2>10. ASSUME \/ \E l \in Analytics, value \in Value : Refresh(l, value)
                \/ Reload \/ ReloadAfterTool \/ ToolBreaksOff \/ Restart
                \/ UNCHANGED vars
         PROVE  UNCHANGED storeVars
    BY <2>10 DEF Refresh, Reload, ReloadAfterTool, ToolBreaksOff, Restart, vars
  <2> HIDE DEF Shot, Transition
  <2> QED
    BY <2>3, <2>7, <2>8, <2>9, <2>10 DEF Next
<1> QED
  BY <1>1, AlertInvariance, PTL DEF Spec, TriggersAreTransitions

-----------------------------------------------------------------------------
(* The option-chain analytics service, for every set of alerts, chains and *)
(* concurrent tool calls: an enabled alert is evaluated and its chains are *)
(* refreshed, unless a call that enabled it has still to finish.           *)

Call == [pc : {"owned", "thread", "committed", "detached"}, op : Operation, alert : Alert]

MemoryTypeOK ==
    /\ alerts \in [Alert -> RowState] /\ engine \subseteq Alert
    /\ dependents \in [Key -> SUBSET Alert]
    /\ cache \subseteq Chain
    /\ sweep \subseteq Key /\ scheduler \in {"asleep", "sweeping"} \cup Chain
    /\ calls \in [Caller -> {NoCall} \cup Call]
    /\ running \in BOOLEAN /\ broken \in BOOLEAN
    /\ breakages \in 0..MaxBreakages

\* The call has committed that a is enabled, and has still to reload the engine and
\* to register a's chains.
WillServe(c, a) ==
    /\ calls[c].pc = "committed"
    /\ calls[c].op \in {"create", "enable"}
    /\ calls[c].alert = a

Served(a) ==
    /\ a \in engine
    /\ \A k \in DependsOn[a] \cap Chain : a \in dependents[k]

CInv ==
    /\ MemoryTypeOK
    /\ \A c \in Caller : calls[c].pc = "detached" => broken
    /\ running /\ ~broken =>
           \A a \in Enabled : Served(a) \/ \E c \in Caller : WillServe(c, a)

\* Nothing is stored before the first start.
LEMMA CInvInit == ServiceInit => CInv
<1> SUFFICES ASSUME ServiceInit
             PROVE  CInv
  OBVIOUS
<1>1. MemoryTypeOK
  <2>1. alerts \in [Alert -> RowState]
    BY DEF ServiceInit, RowState
  <2>2. dependents \in [Key -> SUBSET Alert] /\ calls \in [Caller -> {NoCall} \cup Call]
    BY DEF ServiceInit
  <2>3. breakages \in 0..MaxBreakages
    BY ChainAssumption DEF ServiceInit
  <2> QED
    BY <2>1, <2>2, <2>3 DEF ServiceInit, MemoryTypeOK
<1>2. \A c \in Caller : calls[c].pc # "detached"
  BY DEF ServiceInit, NoCall
<1> QED
  BY <1>1, <1>2 DEF ServiceInit, CInv

\* What a call in progress is: its operation and alert stay those it was asked for.
LEMMA CallShape ==
    ASSUME CInv, NEW c \in Caller, calls[c].pc # "idle"
    PROVE  calls[c] \in Call
BY DEF CInv, MemoryTypeOK, NoCall

\* A step of a tool call keeps the invariant: a commit that enables an alert leaves
\* its own call responsible for it, and only that call's end takes that away.
LEMMA ToolKeeps ==
    ASSUME CInv, NEW c \in Caller, Tools(c)
    PROVE  CInv'
<1> USE ChainAssumption DEF CInv, MemoryTypeOK
<1>1. ASSUME NEW op \in Operation, NEW a \in Alert, Ask(c, op, a)
      PROVE  CInv'
  <2>1. calls[c] = NoCall
    BY <1>1 DEF Ask, FreeCaller
  <2>2. PICK pc \in {"owned", "thread"} :
           calls' = [calls EXCEPT ![c] = [pc |-> pc, op |-> op, alert |-> a]]
    BY <1>1 DEF Ask, Becomes
  <2>3. calls' \in [Caller -> {NoCall} \cup Call]
    BY <2>2 DEF Call
  <2>4. \A d \in Caller : d # c => calls'[d] = calls[d]
    BY <2>2
  <2>5. \A d \in Caller, b \in Alert : WillServe(d, b) => WillServe(d, b)'
    BY <2>1, <2>4 DEF WillServe, NoCall
  <2>6. calls'[c].pc # "detached"
    BY <2>2
  <2> QED
    BY <1>1, <2>3, <2>4, <2>5, <2>6 DEF Ask, memory, refreshing, Enabled, Served
<1>2. CASE _get_owned(c)
  <2>1. calls[c] \in Call
    BY <1>2, CallShape DEF _get_owned
  <2>2. calls'[c].pc \in {"idle", "thread"} /\ \A d \in Caller : d # c => calls'[d] = calls[d]
    BY <1>2, <2>1 DEF _get_owned, Moves, Ends, Becomes, NoCall, Call
  <2>3. calls' \in [Caller -> {NoCall} \cup Call]
    BY <1>2, <2>1 DEF _get_owned, Moves, Ends, Becomes, Call
  <2>4. \A d \in Caller, b \in Alert : WillServe(d, b) => WillServe(d, b)'
    BY <1>2, <2>2 DEF WillServe, _get_owned
  <2> QED
    BY <1>2, <2>2, <2>3, <2>4 DEF _get_owned, memory, refreshing, Enabled, Served
<1>3. CASE ThreadCommits(c)
  <2>1. calls[c] \in Call /\ calls[c].pc = "thread"
    BY <1>3, CallShape DEF ThreadCommits
  <2>2. \A d \in Caller : d # c => calls'[d] = calls[d]
    BY <1>3 DEF ThreadCommits, Moves, Ends, Becomes
  <2>3. CASE Commits(c) /\ Moves(c, "committed")
    <3>1. calls' \in [Caller -> {NoCall} \cup Call]
      BY <2>1, <2>3 DEF Moves, Becomes, Call
    <3>2. /\ calls'[c].pc = "committed"
          /\ calls'[c].op = calls[c].op
          /\ calls'[c].alert = calls[c].alert
      BY <2>1, <2>3 DEF Moves, Becomes, Call
    <3>3. alerts' = [alerts EXCEPT ![calls[c].alert] = RowAfter(calls[c].op)]
      BY <2>3 DEF Commits
    <3>4. /\ RowAfter(calls[c].op) \in RowState
          /\ RowAfter(calls[c].op) = "enabled" => calls[c].op \in {"create", "enable"}
      BY <2>1 DEF RowAfter, RowState, Call, Operation
    <3>5. alerts' \in [Alert -> RowState]
      BY <3>3, <3>4
    <3>6. \A a \in Enabled' : a \in Enabled \/ WillServe(c, a)'
      BY <2>1, <3>2, <3>3, <3>4 DEF Enabled, WillServe, Call
    <3>7. \A d \in Caller, a \in Alert : WillServe(d, a) => WillServe(d, a)'
      BY <2>1, <2>2 DEF WillServe
    <3>8. \A a \in Alert : Served(a) => Served(a)'
      BY <1>3 DEF ThreadCommits, memory, Served
    <3> QED
      BY <1>3, <2>2, <3>1, <3>2, <3>5, <3>6, <3>7, <3>8
      DEF ThreadCommits, memory, refreshing, Enabled
  <2>4. CASE Ends(c) /\ UNCHANGED alerts
    <3>1. calls' \in [Caller -> {NoCall} \cup Call] /\ calls'[c] = NoCall
      BY <2>4 DEF Ends, Becomes
    <3>2. \A d \in Caller, a \in Alert : WillServe(d, a) => WillServe(d, a)'
      BY <2>1, <2>2 DEF WillServe
    <3>3. \A a \in Alert : Served(a) => Served(a)'
      BY <1>3 DEF ThreadCommits, memory, Served
    <3> QED
      BY <1>3, <2>2, <2>4, <3>1, <3>2, <3>3
      DEF ThreadCommits, memory, refreshing, Enabled, NoCall
  <2> QED
    BY <1>3, <2>3, <2>4 DEF ThreadCommits
<1>4. CASE FinishCall(c)
  <2>1. calls[c] \in Call /\ calls[c].pc = "committed"
    BY <1>4, CallShape DEF FinishCall
  <2>2. /\ calls' \in [Caller -> {NoCall} \cup Call]
        /\ calls'[c] = NoCall
        /\ \A d \in Caller : d # c => calls'[d] = calls[d]
    BY <1>4 DEF FinishCall, Ends, Becomes
  <2>3. /\ dependents' \in [Key -> SUBSET Alert]
        /\ cache' \subseteq Chain
        /\ \A k \in Key : dependents[k] \subseteq dependents'[k]
    BY <1>4, <2>1
    DEF FinishCall, register_chain, unregister_chain, DeletedConditionKeys, Call
  <2>4. engine' = Enabled /\ Enabled' = Enabled
    BY <1>4 DEF FinishCall, ReloadEngine, Enabled
  <2>5. Chain \subseteq Key
    BY ChainAssumption
  <2>6. ASSUME NEW a \in Enabled, WillServe(c, a)
        PROVE  Served(a)'
    <3>1. Registers(c) = DependsOn[a]
      BY <2>6 DEF WillServe, Registers, Stored, Enabled, _extract_analytics_chains
    <3>2. register_chain(DependsOn[a], a)
      BY <1>4, <2>6, <3>1 DEF FinishCall, WillServe
    <3> QED
      BY <2>4, <2>5, <3>2 DEF register_chain, Served
  <2>7. ASSUME NEW a \in Enabled, Served(a)
        PROVE  Served(a)'
    BY <2>3, <2>4, <2>5, <2>7 DEF Served
  <2>8. ASSUME NEW a \in Enabled, NEW d \in Caller, d # c, WillServe(d, a)
        PROVE  WillServe(d, a)'
    BY <2>2, <2>8 DEF WillServe
  <2>9. running /\ ~broken =>
            \A a \in Enabled : Served(a)' \/ \E d \in Caller : WillServe(d, a)'
    BY <2>6, <2>7, <2>8
  <2> QED
    BY <1>4, <2>2, <2>3, <2>4, <2>9 DEF FinishCall, NoCall, Enabled
<1>5. CASE CancelCall(c)
  <2>1. calls' \in [Caller -> {NoCall} \cup Call]
    <3>1. CASE calls[c].pc = "thread"
      BY <1>5, <3>1, CallShape DEF CancelCall, Moves, Becomes, Call
    <3>2. CASE calls[c].pc # "thread"
      BY <1>5, <3>2 DEF CancelCall, Ends, Becomes
    <3> QED
      BY <3>1, <3>2
  <2> QED
    BY <1>5, <2>1, ChainAssumption
    DEF CancelCall, memory, refreshing, Breakage
<1>6. CASE DetachedCommits(c)
  <2>1. calls[c] \in Call /\ broken /\ broken'
    BY <1>6, CallShape DEF DetachedCommits
  <2>2. alerts' \in [Alert -> RowState]
    <3>1. RowAfter(calls[c].op) \in RowState
      BY <2>1 DEF RowAfter, RowState, Call, Operation
    <3> QED
      BY <1>6, <3>1 DEF DetachedCommits, Commits
  <2>3. calls' \in [Caller -> {NoCall} \cup Call]
    BY <1>6 DEF DetachedCommits, Ends, Becomes
  <2> QED
    BY <1>6, <2>1, <2>2, <2>3 DEF DetachedCommits, memory, refreshing
<1> QED
  BY <1>1, <1>2, <1>3, <1>4, <1>5, <1>6 DEF Tools

\* The scheduler and the broker's answers touch neither rows nor registry.
LEMMA SchedulerKeeps ==
    ASSUME CInv, Round \/ \E answer \in Answer : Fetched(answer)
    PROVE  CInv'
<1>1. UNCHANGED <<alerts, running, memory, calls, broken, breakages>>
  BY DEF Round, Tick, Sleep, RefreshOne, Fetched
<1>2. /\ cache' \subseteq Chain /\ sweep' \subseteq Key
      /\ scheduler' \in {"asleep", "sweeping"} \cup Chain
  BY ChainAssumption DEF CInv, MemoryTypeOK, Round, Tick, Sleep, RefreshOne,
         Fetched, Registered, RemainingAfter
<1>3. \A a \in Alert : /\ Served(a) <=> Served(a)'
                       /\ \A c \in Caller : WillServe(c, a) <=> WillServe(c, a)'
  BY <1>1 DEF Served, WillServe, memory
<1> QED
  BY <1>1, <1>2, <1>3 DEF CInv, MemoryTypeOK, memory, Enabled

\* A once alert that fires is no longer enabled; a start serves what the rows
\* enable, or is disturbed; a stop forgets everything.
LEMMA ProcessKeeps ==
    ASSUME CInv, (\E a \in Alert : OnceFires(a)) \/ Start \/ Stop
    PROVE  CInv'
<1> USE ChainAssumption DEF CInv, MemoryTypeOK
<1>1. CASE \E a \in Alert : OnceFires(a)
  <2>1. Enabled' \subseteq Enabled /\ alerts' \in [Alert -> RowState]
    BY <1>1 DEF OnceFires, Enabled, RowState
  <2>2. UNCHANGED <<running, memory, refreshing, calls, broken, breakages>>
    BY <1>1 DEF OnceFires
  <2>3. \A a \in Alert : /\ Served(a) <=> Served(a)'
                         /\ \A c \in Caller : WillServe(c, a) <=> WillServe(c, a)'
    BY <2>2 DEF Served, WillServe, memory
  <2> QED
    BY <2>1, <2>2, <2>3 DEF memory, refreshing, Enabled
<1>2. CASE Start
  <2>1. engine' = Enabled /\ Enabled' = Enabled /\ Enabled \subseteq Alert
    BY <1>2 DEF Start, ReloadEngine, Enabled
  <2>2. CASE reconstruct_from_alerts /\ UNCHANGED <<broken, breakages>>
    <3>1. \A a \in Enabled : Served(a)'
      BY <2>1, <2>2 DEF Served, reconstruct_from_alerts
    <3>2. dependents' \in [Key -> SUBSET Alert]
      BY <2>1, <2>2 DEF reconstruct_from_alerts
    <3> QED
      BY <1>2, <2>1, <2>2, <3>1, <3>2 DEF Start, refreshing
  <2>3. CASE dependents' = [k \in Key |-> {}] /\ broken' = TRUE /\ Breakage
    BY <1>2, <2>1, <2>3, ChainAssumption DEF Start, refreshing, Breakage
  <2> QED
    BY <1>2, <2>2, <2>3 DEF Start
<1>3. CASE Stop
  <2>1. /\ calls' \in [Caller -> {NoCall} \cup Call]
        /\ \A c \in Caller : calls'[c].pc # "detached"
    BY <1>3 DEF Stop, NoCall
  <2>2. dependents' \in [Key -> SUBSET Alert]
    BY <1>3 DEF Stop
  <2>3. breakages' \in 0..MaxBreakages
    BY <1>3, ChainAssumption DEF Stop, Breakage
  <2> QED
    BY <1>3, <2>1, <2>2, <2>3 DEF Stop
<1> QED
  BY <1>1, <1>2, <1>3

\* Every step keeps the invariant.
LEMMA CInvStep == CInv /\ [ServiceNext]_serviceVars => CInv'
<1> SUFFICES ASSUME CInv, [ServiceNext]_serviceVars
             PROVE  CInv'
  OBVIOUS
<1>1. CASE \E c \in Caller : Tools(c)
  BY <1>1, ToolKeeps
<1>2. CASE Round \/ \E answer \in Answer : Fetched(answer)
  BY <1>2, SchedulerKeeps
<1>3. CASE (\E a \in Alert : OnceFires(a)) \/ Start \/ Stop
  BY <1>3, ProcessKeeps
<1>4. CASE UNCHANGED serviceVars
  BY <1>4 DEF serviceVars, memory, refreshing, CInv, MemoryTypeOK, Enabled, Served, WillServe
<1> QED
  BY <1>1, <1>2, <1>3, <1>4 DEF ServiceNext

\* The invariant holds of every reachable state.
THEOREM ChainInvariance == ServiceSpec => []CInv
BY CInvInit, CInvStep, PTL DEF ServiceSpec

\* Between undisturbed calls every enabled alert is evaluated and all its chains
\* are registered for refreshing, however calls interleaved.
THEOREM ServesEnabled == ServiceSpec => []EnabledAreServed
<1>1. CInv => EnabledAreServed
  <2> SUFFICES ASSUME CInv
               PROVE  EnabledAreServed
    OBVIOUS
  <2>1. ServiceTypeOK
    BY DEF CInv, MemoryTypeOK, ServiceTypeOK, Call
  <2>2. ASSUME AtRest, NEW a \in Enabled
        PROVE  Served(a)
    BY <2>2 DEF CInv, AtRest, WillServe, NoCall
  <2> QED
    BY <2>1, <2>2 DEF EnabledAreServed, Served
<1> QED
  BY <1>1, ChainInvariance, PTL
=============================================================================
