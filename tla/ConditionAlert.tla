--------------------------- MODULE ConditionAlert ---------------------------
(***************************************************************************)
(* The market_condition alert engine, seen from one alert: its condition   *)
(* tree, the three-valued state of its leaves and of its root, in memory   *)
(* and in condition_runtime_state, the trigger transaction, and the tools  *)
(* that reset, enable, disable and reload it.  Alerts share no state but   *)
(* reload(), which any change to any alert runs.                           *)
(*                                                                         *)
(* A tree is a group of leaves with at most one nested group in it         *)
(* (Nested); a version 1 alert is a single leaf.  A value is only compared *)
(* with its leaf's threshold, so an observation is "above", "below" (below *)
(* or equal) or "none" (not reported): a level leaf stands for value >     *)
(* threshold and a crossing leaf for crosses_above.                        *)
(*                                                                         *)
(* A quote is evaluated inside the task that applied it, under the alert's *)
(* lock; it suspends at the lock, while a worker thread runs the           *)
(* transaction, and while a committed trigger is announced.                *)
(***************************************************************************)
EXTENDS Integers

CONSTANTS
    Feed,          \* the tasks that apply quotes
    Instrument,    \* the instruments quotes are about
    Leaf,          \* the leaves of the tree
    Crossing,      \* the leaves with a crossing operator
    Analytics,     \* the leaves on an option-chain metric
    Nested,        \* the leaves in the nested group
    InstrumentOf,  \* the instrument a quote leaf depends on
    Logic,         \* "all" or "any", of the root group
    NestedLogic,   \* the same of the nested group
    Grouped,       \* condition_version is 2
    MaxTriggers,   \* bound: no new quotes after so many triggers since enabled
    MaxFaults      \* bound: transactions that fail, and tasks that are cancelled

ASSUME ConditionAlertAssumption ==
    /\ Crossing \subseteq Leaf /\ Analytics \subseteq Leaf /\ Nested \subseteq Leaf
    /\ InstrumentOf \in [Leaf \ Analytics -> Instrument]
    /\ {Logic, NestedLogic} \subseteq {"all", "any"}
    /\ Grouped \in BOOLEAN /\ (~Grouped => Nested = {} /\ \E l \in Leaf : Leaf = {l})
    /\ {MaxTriggers, MaxFaults} \subseteq Nat

VARIABLES
    once,          \* trigger_mode is once
    \* the store
    enabled,       \* condition_alerts.enabled
    stored,        \* the alert's rows of condition_runtime_state
    triggers,      \* the alert.triggered events persisted since it was enabled
    \* the engine
    loaded,        \* the alert is in _alerts
    indexed,       \* the alert is in _dep_index
    state,         \* _state of the alert
    last_value,    \* _dep_last_values, of the leaves that read it
    \* the analytics service: the chain snapshot of each analytics leaf
    chain,         \* its metric, "none" without a usable snapshot
    unread,        \* the leaves whose snapshot was not evaluated yet
    chain_seen,    \* _analytics_seen
    \* the processes
    feed,          \* the evaluation of each feed
    tool,          \* where the set_enabled call in progress is
    \* history
    observed,      \* the last observation of each quote leaf whose evaluation was kept
    disturbed,     \* a call or a cancellation met an evaluation, or a call broke off
    faults         \* how many faults there were

storeVars == <<enabled, stored, triggers>>
engineVars == <<loaded, indexed, state, last_value>>
chainVars == <<chain, unread, chain_seen>>
vars == <<once, storeVars, engineVars, chainVars, feed, tool, observed, disturbed, faults>>

Result == {"true", "false", "unknown"}
Value == {"above", "below", "none"}
LeafState == [last_result : Result, crossing_side : {"above", "below", "unknown"}]
AlertState == [leaves : [Leaf -> LeafState], root : Result]

UnknownState ==
    [leaves |-> [l \in Leaf |-> [last_result |-> "unknown", crossing_side |-> "unknown"]],
     root |-> "unknown"]
QuoteLeaf == Leaf \ Analytics
NoValues == [l \in QuoteLeaf |-> "none"]

\* The leaves that are evaluated again from their last value.
Rereading == Leaf \ (Crossing \cup Analytics)

LeavesOn(i) == {l \in QuoteLeaf : InstrumentOf[l] = i}
Quote == UNION {[instrument : {i}, value : [LeavesOn(i) -> Value]] : i \in Instrument}

\* An evaluation is at the lock, in a worker thread's transaction, committed,
\* announcing its trigger, or detached: cancelled while the thread went on.
Idle == [pc |-> "idle"]
HolderPc == {"trigger", "save", "triggered", "announcing", "saved"}
DetachedPc == {"detached trigger", "detached save"}

TypeOK ==
    /\ {once, enabled, loaded, indexed, disturbed} \subseteq BOOLEAN
    /\ stored \in AlertState /\ state \in AlertState
    /\ {triggers, faults} \subseteq Nat
    /\ last_value \in [Rereading -> Value] /\ observed \in [QuoteLeaf -> Value]
    /\ chain \in [Analytics -> Value]
    /\ unread \subseteq {l \in Analytics : chain[l] # "none"}
    /\ chain_seen \subseteq Analytics
    /\ \A f \in Feed :
          \/ feed[f] = Idle
          \/ feed[f].pc = "queued" /\ feed[f].quote \in Quote
          \/ /\ feed[f].pc \in HolderPc \cup DetachedPc
             /\ feed[f].updates \in AlertState
             /\ feed[f].values \in [QuoteLeaf -> Value]
    /\ tool \in {"idle", "reset", "reload"}
    /\ indexed => loaded

Init ==
    /\ once \in BOOLEAN
    /\ enabled = TRUE /\ stored = UnknownState /\ triggers = 0
    /\ loaded = TRUE /\ indexed = TRUE /\ state = UnknownState
    /\ last_value = [l \in Rereading |-> "none"]
    /\ chain = [l \in Analytics |-> "none"] /\ unread = {} /\ chain_seen = {}
    /\ feed = [f \in Feed |-> Idle]
    /\ tool = "idle"
    /\ observed = NoValues /\ disturbed = FALSE /\ faults = 0

\* The alert's lock is held, and work that may still change the store or memory.
Locked == \E f \in Feed : feed[f].pc \in HolderPc
InFlight == \E f \in Feed : feed[f].pc \in HolderPc \cup DetachedPc

-----------------------------------------------------------------------------
(* Evaluating the tree. *)

Compare(value) == IF value = "above" THEN "true" ELSE "false"

AllOf(results) ==
    IF "false" \in results THEN "false"
    ELSE IF results \subseteq {"true"} THEN "true" ELSE "unknown"

AnyOf(results) ==
    IF "true" \in results THEN "true"
    ELSE IF results \subseteq {"false"} THEN "false" ELSE "unknown"

Group(logic, results) == IF logic = "all" THEN AllOf(results) ELSE AnyOf(results)

\* A leaf's new state and its tick, what it contributes to its group now.
NewLeaf(result, side, tick) == [last_result |-> result, crossing_side |-> side, tick |-> tick]

\* TRUE on the crossing observation only; what is kept is the side.
EvaluateCrossing(prev, value, fresh) ==
    IF ~fresh \/ value = "none"
    THEN NewLeaf(prev.last_result, prev.crossing_side, prev.last_result)
    ELSE NewLeaf("false", value,
                 IF prev.crossing_side = "below" /\ value = "above" THEN "true" ELSE "false")

EvaluateLevel(prev, value, seen) ==
    LET result == IF value # "none" THEN Compare(value)
                  ELSE IF seen THEN "unknown" ELSE prev.last_result
    IN  NewLeaf(result, prev.crossing_side, result)

Fresh(l, quote) ==
    IF l \in Analytics THEN l \in unread ELSE InstrumentOf[l] = quote.instrument

ValueOf(l, quote) ==
    IF l \in Analytics THEN chain[l]
    ELSE IF Fresh(l, quote) THEN quote.value[l]
    ELSE IF l \in Rereading THEN last_value[l] ELSE "none"

\* The analytics leaves whose metric was available, now or before.
ChainSeen == chain_seen \cup {l \in Analytics : chain[l] # "none"}

Evaluated(quote) ==
    [l \in Leaf |->
        IF l \in Crossing
        THEN EvaluateCrossing(state.leaves[l], ValueOf(l, quote), Fresh(l, quote))
        ELSE EvaluateLevel(state.leaves[l], ValueOf(l, quote), l \in ChainSeen)]

RootResult(evaluated) ==
    LET ticks(leaves) == {evaluated[l].tick : l \in leaves}
        nested == IF Nested = {} THEN {} ELSE {Group(NestedLogic, ticks(Nested))}
    IN  IF Grouped THEN Group(Logic, ticks(Leaf \ Nested) \cup nested)
        ELSE CHOOSE r \in ticks(Leaf) : TRUE

Kept(evaluated) ==
    [leaves |-> [l \in Leaf |-> [last_result |-> evaluated[l].last_result,
                                 crossing_side |-> evaluated[l].crossing_side]],
     root |-> RootResult(evaluated)]

\* Mutant of RootFires: a root that stays TRUE fires again.
RootFiresAgain(prev, new) == new = "true"

RootFires(prev, new) == prev # "true" /\ new = "true"

\* Mutant of HasChanges: only a change of the root's result is saved.
HasRootChange(new) == new.root # state.root

\* What an evaluation that does not fire must have changed for its states to be
\* saved: a leaf outside the nested group or, in a group, the root's result.
HasChanges(new) ==
    \/ \E l \in Leaf \ Nested : new.leaves[l] # state.leaves[l]
    \/ Grouped /\ new.root # state.root

\* The observations the leaves stand for once this evaluation is kept.  A level
\* leaf re-reads its last value, whose own evaluation may not have been kept.
Observations(quote) ==
    [l \in QuoteLeaf |-> IF /\ l \in Crossing => Fresh(l, quote)
                            /\ ValueOf(l, quote) # "none"
                         THEN ValueOf(l, quote) ELSE observed[l]]

-----------------------------------------------------------------------------
(* A quote, from the hook of MarketService to the end of its evaluation. *)

Deliver(f, quote) ==
    /\ feed[f] = Idle
    /\ indexed /\ LeavesOn(quote.instrument) # {}
    /\ triggers < MaxTriggers
    /\ feed' = [feed EXCEPT ![f] = [pc |-> "queued", quote |-> quote]]
    /\ UNCHANGED <<once, storeVars, engineVars, chainVars, tool, observed,
                   disturbed, faults>>

\* reload() took the alert out of _alerts while the quote waited.
NotLoaded(f) ==
    /\ feed[f].pc = "queued" /\ ~Locked
    /\ ~loaded
    /\ feed' = [feed EXCEPT ![f] = Idle]
    /\ UNCHANGED <<once, storeVars, engineVars, chainVars, tool, observed,
                   disturbed, faults>>

\* The lock is free: the tree is evaluated without suspending.
Evaluate(f) ==
    LET quote == feed[f].quote
        new == Kept(Evaluated(quote))
        work(pc) == [feed EXCEPT ![f] =
                        [pc |-> pc, updates |-> new, values |-> Observations(quote)]]
    IN
    /\ feed[f].pc = "queued" /\ ~Locked
    /\ loaded
    /\ last_value' = [l \in Rereading |-> ValueOf(l, quote)]
    /\ unread' = {} /\ chain_seen' = ChainSeen
    /\ disturbed' = (disturbed \/ tool # "idle")
    /\ \/ /\ RootFires(state.root, new.root)
          /\ feed' = work("trigger")
          /\ UNCHANGED observed
       \/ /\ ~RootFires(state.root, new.root) /\ HasChanges(new)
          /\ feed' = work("save")
          /\ UNCHANGED observed
       \/ /\ ~RootFires(state.root, new.root) /\ ~HasChanges(new)
          /\ feed' = [feed EXCEPT ![f] = Idle]
          /\ observed' = Observations(quote)
    /\ UNCHANGED <<once, storeVars, loaded, indexed, state, chain, tool, faults>>

\* save_condition_trigger: states, alert row and event in one transaction.
SaveTrigger(f) ==
    /\ stored' = feed[f].updates
    /\ observed' = feed[f].values
    /\ enabled' = ~once
    /\ triggers' = triggers + 1

\* save_condition_runtime_states.
SaveStates(f) ==
    /\ stored' = feed[f].updates
    /\ observed' = feed[f].values
    /\ UNCHANGED <<enabled, triggers>>

CommitTrigger(f) ==
    /\ feed[f].pc = "trigger"
    /\ SaveTrigger(f)
    /\ feed' = [feed EXCEPT ![f].pc = "triggered"]
    /\ UNCHANGED <<once, engineVars, chainVars, tool, disturbed, faults>>

CommitStates(f) ==
    /\ feed[f].pc = "save"
    /\ SaveStates(f)
    /\ feed' = [feed EXCEPT ![f].pc = "saved"]
    /\ UNCHANGED <<once, engineVars, chainVars, tool, disturbed, faults>>

\* The transaction fails: nothing is stored and the memory stays as it was.
CommitFails(f) ==
    /\ feed[f].pc \in {"trigger", "save"}
    /\ faults < MaxFaults
    /\ faults' = faults + 1
    /\ feed' = [feed EXCEPT ![f] = Idle]
    /\ UNCHANGED <<once, storeVars, engineVars, chainVars, tool, observed,
                   disturbed>>

\* The task resumes: a once alert leaves the index, and the announcement begins.
LeaveIndex(f) ==
    /\ feed[f].pc = "triggered"
    /\ indexed' = (indexed /\ ~once)
    /\ feed' = [feed EXCEPT ![f].pc = "announcing"]
    /\ UNCHANGED <<once, storeVars, loaded, state, last_value, chainVars, tool, observed,
                   disturbed, faults>>

\* Mutant of Remember: the root's state is left behind.
RememberLeaves(f) == state' = [state EXCEPT !.leaves = feed[f].updates.leaves]

Remember(f) == state' = feed[f].updates

\* The memory follows the store; a KeyError when the alert is gone meanwhile.
Finish(f) ==
    /\ feed[f].pc \in {"announcing", "saved"}
    /\ \/ loaded /\ Remember(f)
       \/ ~loaded /\ UNCHANGED state
    /\ feed' = [feed EXCEPT ![f] = Idle]
    /\ UNCHANGED <<once, storeVars, loaded, indexed, last_value, chainVars, tool, observed,
                   disturbed, faults>>

\* The feed's task is cancelled (stop, restart): a thread that runs the
\* transaction is not, and whoever waited for the lock goes on.
Cancel(f) ==
    /\ feed[f] # Idle /\ feed[f].pc \notin DetachedPc
    /\ faults < MaxFaults
    /\ faults' = faults + 1
    /\ disturbed' = (disturbed \/ feed[f].pc # "queued")
    /\ feed' = [feed EXCEPT ![f] =
           IF feed[f].pc = "trigger" THEN [feed[f] EXCEPT !.pc = "detached trigger"]
           ELSE IF feed[f].pc = "save" THEN [feed[f] EXCEPT !.pc = "detached save"]
           ELSE Idle]
    /\ UNCHANGED <<once, storeVars, engineVars, chainVars, tool, observed>>

\* The thread commits with nobody to take the result, or was never started.
EndDetached(f) ==
    /\ \/ feed[f].pc = "detached trigger" /\ SaveTrigger(f)
       \/ feed[f].pc = "detached save" /\ SaveStates(f)
       \/ feed[f].pc \in DetachedPc /\ UNCHANGED <<storeVars, observed>>
    /\ feed' = [feed EXCEPT ![f] = Idle]
    /\ UNCHANGED <<once, engineVars, chainVars, tool, disturbed, faults>>

-----------------------------------------------------------------------------
(* The analytics service: its scheduler refreshes a chain, or the snapshot ages *)
(* past stale_after.  No evaluation follows from either.                       *)

Refresh(l, value) ==
    /\ chain' = [chain EXCEPT ![l] = value]
    /\ unread' = IF value = "none" THEN unread \ {l} ELSE unread \cup {l}
    /\ UNCHANGED <<once, storeVars, engineVars, chain_seen, feed, tool, observed,
                   disturbed, faults>>

-----------------------------------------------------------------------------
(* reload(), the set_enabled tool and a restart. *)

\* reload() from the store, which forgets the last values and snapshots too.
LoadAlert ==
    /\ loaded' = enabled /\ indexed' = enabled
    /\ state' = IF enabled THEN stored ELSE UnknownState
    /\ last_value' = [l \in Rereading |-> "none"]
    /\ chain_seen' = {}

\* Another alert was created, changed or deleted.
Reload ==
    /\ LoadAlert
    /\ unread' = {l \in Analytics : chain[l] # "none"}
    /\ disturbed' = (disturbed \/ InFlight)
    /\ UNCHANGED <<once, storeVars, chain, feed, tool, observed, faults>>

\* set_enabled starts an alert over before it enables it.  What disturbed its
\* states before is over then, unless work is still in flight.
ResetStates ==
    /\ tool = "idle"
    /\ tool' = "reset"
    /\ stored' = UnknownState /\ observed' = NoValues
    /\ disturbed' = InFlight
    /\ UNCHANGED <<once, enabled, triggers, engineVars, chainVars, feed, faults>>

SetEnabled ==
    /\ \/ tool = "reset" /\ enabled' = TRUE /\ triggers' = 0
       \/ tool = "idle" /\ enabled' = FALSE /\ UNCHANGED triggers
    /\ tool' = "reload"
    /\ disturbed' = (disturbed \/ InFlight)
    /\ UNCHANGED <<once, stored, engineVars, chainVars, feed, observed, faults>>

\* The tool ends with a reload of its own.
ReloadAfterTool ==
    /\ tool = "reload"
    /\ tool' = "idle"
    /\ LoadAlert
    /\ unread' = {l \in Analytics : chain[l] # "none"}
    /\ disturbed' = (disturbed \/ InFlight)
    /\ UNCHANGED <<once, storeVars, chain, feed, observed, faults>>

\* The second update fails, or the call's task is cancelled while the thread
\* updates: either way the engine is not reloaded.
ToolBreaksOff ==
    /\ tool \in {"reset", "reload"}
    /\ faults < MaxFaults
    /\ faults' = faults + 1
    /\ tool' = "idle"
    /\ disturbed' = TRUE
    /\ UNCHANGED <<once, storeVars, engineVars, chainVars, feed, observed>>

\* The process ends at any point and starts again, with an empty chain cache.
Restart ==
    /\ feed' = [f \in Feed |-> Idle]
    /\ tool' = "idle"
    /\ LoadAlert
    /\ chain' = [l \in Analytics |-> "none"] /\ unread' = {}
    /\ UNCHANGED <<once, storeVars, observed,
                   disturbed, faults>>

-----------------------------------------------------------------------------
Evaluation(f) ==
    \/ \E quote \in Quote : Deliver(f, quote)
    \/ NotLoaded(f)
    \/ Evaluate(f)
    \/ CommitTrigger(f) \/ CommitStates(f) \/ CommitFails(f)
    \/ LeaveIndex(f) \/ Finish(f)
    \/ Cancel(f) \/ EndDetached(f)

Next ==
    \/ \E f \in Feed : Evaluation(f)
    \/ \E l \in Analytics, value \in Value : Refresh(l, value)
    \/ Reload
    \/ ResetStates \/ SetEnabled \/ ReloadAfterTool \/ ToolBreaksOff
    \/ Restart

Spec == Init /\ [][Next]_vars

-----------------------------------------------------------------------------
(***************************************************************************)
(* Properties.  An evaluation that meets a tool, a reload or a cancellation, *)
(* and a tool call that breaks off, really do break them: they are stated for *)
(* the histories in which none did since the alert was last re-armed.      *)
(***************************************************************************)

Quiet == ~InFlight /\ tool = "idle" /\ ~disturbed

\* Between evaluations the engine's memory is what the store would give back, so
\* a restart changes nothing, and an alert is evaluated exactly when it is enabled.
MemoryMatchesStore ==
    /\ TypeOK
    /\ Quiet => indexed = enabled /\ (enabled => state = stored)

\* An event is persisted exactly when the stored root becomes TRUE: no trigger is
\* lost, and no restart or failed transaction makes one fire twice.
TriggersAreTransitions ==
    [][~disturbed =>
          (triggers' = triggers + 1 <=> stored.root # "true" /\ stored'.root = "true")]_vars

\* Each leaf of an alert stands for the last observation made of it: the side of
\* a crossing leaf, and the result of a level leaf on a quote; but for the leaves of
\* the nested group, whose new state alone is not worth saving (HasChanges).
LeavesRememberObservations ==
    Quiet /\ enabled =>
        \A l \in QuoteLeaf \ Nested :
            IF l \in Crossing
            THEN state.leaves[l].crossing_side =
                     (IF observed[l] = "none" THEN "unknown" ELSE observed[l])
            ELSE \/ observed[l] = "none"
                 \/ state.leaves[l].last_result = Compare(observed[l])
=============================================================================
