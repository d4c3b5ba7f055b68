---------------------------- MODULE MarketAlerts ----------------------------
(***************************************************************************)
(* The market state of one instrument and the market alert rules on it.    *)
(* A delivery task (a feed's receive loop, or the task a feed starts per   *)
(* tick) applies its patch to the shared quote and, without letting go,    *)
(* broadcasts the result and evaluates the rules, until a rule fires and   *)
(* its publication has to be awaited: then other deliveries, tool calls    *)
(* and reloads of the rules get in.                                        *)
(*                                                                         *)
(* Reloading replaces the rule objects, so an evaluation that was waiting  *)
(* goes on with the old ones: "held" is what such a task still sees.       *)
(***************************************************************************)
EXTENDS Integers, FiniteSets, FiniteSetsExt

CONSTANTS
    Task,        \* the deliveries that may be in flight at once
    Field,       \* the quote fields rules look at
    Value,       \* their values
    MaxRules,    \* bound: the rule ids are 1..MaxRules, in order of creation
    FieldOf,     \* the field of each rule
    Operator,    \* the operator of each rule
    Threshold,   \* the threshold of each rule
    ExchangeTs,  \* the provider timestamps
    FeedPatches, \* what a feed reports: fields and timestamp
    MaxPatches,  \* bound: patches received (the receive clock counts them)
    MaxTools,    \* bound: calls that change a rule
    MaxFaults,   \* bound: failed store calls, cancellations and restarts
    None,        \* no value, no quote, no timestamp; in a patch: null
    Absent       \* in a patch: not reported

Rule == 1..MaxRules

ASSUME MarketAlertsAssumption ==
    /\ Value \subseteq Int /\ ExchangeTs \subseteq Int
    /\ FieldOf \in [Rule -> Field]
    /\ Operator \in [Rule -> {"gt", "lt", "crosses_above", "crosses_below"}]
    /\ Threshold \in [Rule -> Int]
    /\ {MaxRules, MaxPatches, MaxTools, MaxFaults} \subseteq Nat
    /\ {None, Absent} \cap (Value \cup ExchangeTs) = {}
    /\ FeedPatches \subseteq [fields : [Field -> Value \cup {None, Absent}],
                             exchange_ts : ExchangeTs \cup {None}]

VARIABLES
    quote,         \* MarketService's quote of the instrument
    market_alerts, \* the table: per rule [enabled, state]
    _rules,        \* the engine's rules: the state of each, "none" when not loaded
    _last_values,  \* the engine's previous value of the instrument
    task,          \* the deliveries
    reloading,     \* calls that wrote the table and have still to reload the engine
    received,      \* the receive clock
    tools, faults,
    forgotten,     \* rules whose announcement was cancelled since the last reload
    excused        \* rules the newest quote has not been compared with, or in vain

vars == <<quote, market_alerts, _rules, _last_values, task, reloading, received, tools,
          faults, forgotten, excused>>

Quote == [fields : [Field -> Value \cup {None}], exchange_ts : ExchangeTs \cup {None},
          received_ts : Nat]

\* A patch reports a field with its value or with null, or does not report it.
Patch == [fields : [Field -> Value \cup {None, Absent}],
          exchange_ts : ExchangeTs \cup {None}, received_ts : Nat]

\* pc; the patch or, once applied, the quote evaluated; the rule being announced;
\* the rule states it sees when they are not the engine's any more.
Idle == [pc |-> "idle", patch |-> None, quote |-> None, rule |-> 0, held |-> None]

Loadable == {"none", "inactive", "triggered"}

TypeOK ==
    /\ quote \in Quote \cup {None}
    /\ market_alerts \in [Rule -> [enabled : BOOLEAN,
                                   state : Loadable \cup {"disabled", "deleted"}]]
    /\ _rules \in [Rule -> Loadable]
    /\ _last_values \in Value \cup {None}
    /\ task \in [Task -> [pc : {"idle", "apply", "publish"}, patch : Patch \cup {None},
                          quote : Quote \cup {None}, rule : 0..MaxRules,
                          held : [Rule -> Loadable] \cup {None}]]
    /\ reloading \in 0..MaxTools
    /\ received \in 0..MaxPatches /\ tools \in 0..MaxTools /\ faults \in 0..MaxFaults
    /\ forgotten \subseteq Rule /\ excused \subseteq Rule

\* Mutant of Loaded: whatever its row says, a rule is loaded as armed.
LoadedArmed(rows) == [r \in Rule |-> IF rows[r].enabled THEN "inactive" ELSE "none"]

\* load_enabled_alerts.
Loaded(rows) == [r \in Rule |-> IF rows[r].enabled THEN rows[r].state ELSE "none"]

Armed(states) == {r \in Rule : states[r] = "inactive"}

Init ==
    /\ quote = None
    /\ \E stored \in 0..MaxRules :
          market_alerts = [r \in Rule |->
              IF r <= stored THEN [enabled |-> TRUE, state |-> "inactive"]
                             ELSE [enabled |-> FALSE, state |-> "none"]]
    /\ _rules = Loaded(market_alerts)
    /\ _last_values = None
    /\ task = [t \in Task |-> Idle]
    /\ reloading = 0 /\ received = 0 /\ tools = 0 /\ faults = 0
    /\ forgotten = {} /\ excused = Rule

Fault == faults < MaxFaults /\ faults' = faults + 1

-----------------------------------------------------------------------------
(* MarketService.apply_quote.  A feed stamps a patch when it arrives and    *)
(* applies it later: the instruments of one message are applied in turn.   *)

\* The reported fields, null or not, with the feed's clock and the receiver's.
_build_patch(reported, received_ts) ==
    [fields |-> reported.fields, exchange_ts |-> reported.exchange_ts,
     received_ts |-> received_ts]

Receive(t, reported) ==
    /\ task[t].pc = "idle"
    /\ received < MaxPatches
    /\ received' = received + 1
    /\ task' = [task EXCEPT ![t] =
           [Idle EXCEPT !.pc = "apply",
                        !.patch = _build_patch(reported, received + 1)]]
    /\ UNCHANGED <<quote, market_alerts, _rules, _last_values, reloading, tools, faults, forgotten, excused>>

\* Both sides in the exchange's clock, or both in the receiver's.
IsStale(patch) ==
    /\ quote # None
    /\ IF patch.exchange_ts # None /\ quote.exchange_ts # None
       THEN patch.exchange_ts < quote.exchange_ts
       ELSE patch.received_ts < quote.received_ts

\* Mutant of MergedTs: the patch's timestamp, given or not.
PatchTs(patch) == patch.exchange_ts

MergedTs(patch) ==
    IF patch.exchange_ts = None /\ quote # None THEN quote.exchange_ts
    ELSE patch.exchange_ts

Reported(patch, f) ==
    IF patch.fields[f] # Absent THEN patch.fields[f]
    ELSE IF quote = None THEN None ELSE quote.fields[f]

Merged(patch) ==
    [fields |-> [f \in Field |-> Reported(patch, f)],
     exchange_ts |-> MergedTs(patch),
     received_ts |-> patch.received_ts]

-----------------------------------------------------------------------------
(* AlertEngine.evaluate, from one rule that fires to the next.             *)

Hits(r, prev, value) ==
    CASE Operator[r] = "crosses_above" ->
             prev # None /\ prev <= Threshold[r] /\ Threshold[r] < value
      [] Operator[r] = "crosses_below" ->
             prev # None /\ prev >= Threshold[r] /\ Threshold[r] > value
      [] Operator[r] = "gt" -> value > Threshold[r]
      [] Operator[r] = "lt" -> value < Threshold[r]

ValueFor(q, r) == q.fields[FieldOf[r]]

\* The rules from "first" on that are compared at all.
Compared(q, states, first) ==
    {r \in first..MaxRules : states[r] = "inactive" /\ ValueFor(q, r) # None}

\* Each of them leaves its value behind as the instrument's previous one.
Previous(q, looked) ==
    IF looked = {} THEN _last_values ELSE ValueFor(q, Max(looked))

HitAmong(q, compared) ==
    {r \in compared : Hits(r, Previous(q, {k \in compared : k < r}), ValueFor(q, r))}

\* record_trigger: no row, nothing to write.
RecordTrigger(r) ==
    market_alerts' = [market_alerts EXCEPT ![r].state =
                          IF @ = "deleted" THEN @ ELSE "triggered"]

\* Mutant of Continue: the evaluation ends with the first rule that fires.
StopAtFirst(first) == IF first = 1 THEN 1..MaxRules ELSE {}

\* The rules an evaluation still looks at.
Continue(first) == first..MaxRules

\* Task t goes on with the rules from "first" on, up to the next one whose
\* trigger it records and has to announce.  A trigger that cannot be recorded
\* is given up and its rule stays armed.
EvaluateFrom(t, q, states, held, first) ==
    LET compared == Compared(q, states, first) \cap Continue(first)
        hit == HitAmong(q, compared)
    IN  \E stop \in hit \cup {MaxRules + 1} :
           LET failed == {r \in hit : r < stop}
               looked == {r \in compared : r <= stop}
           IN  /\ faults' = faults + Cardinality(failed) /\ faults' <= MaxFaults
               /\ _last_values' = Previous(q, looked)
               /\ excused' = (IF first = 1 THEN {} ELSE excused) \cup failed
               /\ IF stop \in hit
                  THEN /\ RecordTrigger(stop)
                       /\ task' = [task EXCEPT ![t] =
                              [Idle EXCEPT !.pc = "publish", !.quote = q,
                                           !.rule = stop, !.held = held]]
                  ELSE /\ task' = [task EXCEPT ![t] = Idle]
                       /\ UNCHANGED market_alerts

\* The quote carries the patch's receive time, so an accepted patch changes it
\* and is always notified.
ApplyQuote(t) ==
    /\ task[t].pc = "apply"
    /\ IF IsStale(task[t].patch)
       THEN /\ task' = [task EXCEPT ![t] = Idle]
            /\ UNCHANGED <<quote, market_alerts, _last_values, faults, excused>>
       ELSE /\ quote' = Merged(task[t].patch)
            /\ EvaluateFrom(t, quote', _rules, None, 1)
    /\ UNCHANGED <<_rules, reloading, received, tools, forgotten>>

MarkTriggered(t) ==
    [_rules EXCEPT ![task[t].rule] = IF @ = "none" THEN @ ELSE "triggered"]

\* The publication returned, or raised: either way the rule is marked and the
\* evaluation goes on.
Announced(t) ==
    /\ task[t].pc = "publish"
    /\ _rules' = MarkTriggered(t)
    /\ EvaluateFrom(t, task[t].quote,
                    IF task[t].held = None THEN _rules' ELSE task[t].held,
                    task[t].held, task[t].rule + 1)
    /\ UNCHANGED <<quote, reloading, received, tools, forgotten>>

\* The feed is stopped while its tick awaits the publication.
Cancel(t) ==
    /\ task[t].pc = "publish"
    /\ Fault
    /\ task' = [task EXCEPT ![t] = Idle]
    /\ forgotten' = forgotten \cup {task[t].rule}
    /\ excused' = excused \cup task[t].rule..MaxRules
    /\ UNCHANGED <<quote, market_alerts, _rules, _last_values, reloading, received,
                   tools>>

-----------------------------------------------------------------------------
(* The alert routes and tools: a write in a worker thread, then the reload. *)

Exists(r) == market_alerts[r].state \notin {"none", "deleted"}

Write(r, row) ==
    /\ tools < MaxTools /\ tools' = tools + 1
    /\ market_alerts' = [market_alerts EXCEPT ![r] = row]
    /\ UNCHANGED <<quote, _rules, _last_values, task, received, faults, forgotten,
                   excused>>

CreateAlert(r) ==
    /\ market_alerts[r].state = "none"
    /\ \A k \in 1..(r - 1) : market_alerts[k].state # "none"
    /\ Write(r, [enabled |-> TRUE, state |-> "inactive"])
    /\ reloading' = reloading + 1

SetAlertEnabled(r, enabled) ==
    /\ Exists(r)
    /\ Write(r, [enabled |-> enabled, state |-> IF enabled THEN "inactive" ELSE "disabled"])
    /\ reloading' = reloading + 1

DeleteAlert(r) ==
    /\ Exists(r)
    /\ Write(r, [enabled |-> FALSE, state |-> "deleted"])
    /\ reloading' = reloading + 1

\* The route clears the notification list and does not reload the engine.
RearmAlert(r) ==
    /\ Exists(r)
    /\ Write(r, [market_alerts[r] EXCEPT !.state = "inactive"])
    /\ UNCHANGED reloading

\* Evaluations in flight keep the rules they began with.
Hold(t) ==
    IF task[t].pc = "publish" /\ task[t].held = None
    THEN [task[t] EXCEPT !.held = _rules] ELSE task[t]

Reload ==
    /\ reloading > 0
    /\ reloading' = reloading - 1
    /\ _rules' = Loaded(market_alerts)
    /\ task' = [t \in Task |-> Hold(t)]
    /\ forgotten' = {}
    /\ excused' = excused \cup Armed(_rules')
    /\ UNCHANGED <<quote, market_alerts, _last_values, received, tools, faults>>

\* The rules cannot be read: the engine goes on with those it has.
ReloadFails ==
    /\ reloading > 0
    /\ Fault
    /\ reloading' = reloading - 1
    /\ UNCHANGED <<quote, market_alerts, _rules, _last_values, task, received, tools, forgotten, excused>>

Restart ==
    /\ Fault
    /\ quote' = None
    /\ _rules' = Loaded(market_alerts)
    /\ _last_values' = None
    /\ task' = [t \in Task |-> Idle]
    /\ reloading' = 0
    /\ forgotten' = {} /\ excused' = Rule
    /\ UNCHANGED <<market_alerts, received, tools>>

Next ==
    \/ \E t \in Task :
          \/ \E reported \in FeedPatches : Receive(t, reported)
          \/ ApplyQuote(t)
          \/ Announced(t)
          \/ Cancel(t)
    \/ \E r \in Rule :
          \/ CreateAlert(r)
          \/ \E enabled \in BOOLEAN : SetAlertEnabled(r, enabled)
          \/ DeleteAlert(r)
          \/ RearmAlert(r)
    \/ Reload
    \/ ReloadFails
    \/ Restart

Spec == Init /\ [][Next]_vars

-----------------------------------------------------------------------------
(* Properties.                                                             *)

\* While the process lives, the exchange time of the quote never goes back and
\* is never lost, whichever of the two clocks each patch was compared in
\* (MarketService._orders and _merge_quote).
ExchangeTimeMonotone ==
    [][(quote # None /\ quote' # None /\ quote.exchange_ts # None)
          => (quote'.exchange_ts # None /\ quote'.exchange_ts >= quote.exchange_ts)]_vars

Announcing(r) == \E t \in Task : task[t].pc = "publish" /\ task[t].rule = r

\* An enabled rule the table says has triggered is not armed in the engine, so
\* the next tick does not trigger it again, except while its announcement is
\* still awaited or after the feed that awaited it was cancelled
\* (AlertEngine.evaluate and reload).
TriggeredIsKnown ==
    /\ TypeOK
    /\ \A r \in Rule \ forgotten :
          (market_alerts[r].enabled /\ market_alerts[r].state = "triggered" /\ ~Announcing(r))
              => _rules[r] # "inactive"

\* Once no tick is in flight, an armed gt or lt rule does not hold of the stored
\* quote, whatever order ticks waited, rules were reloaded and triggers marked
\* in: unless its trigger could not be recorded, its tick was cancelled, or it
\* was loaded after the quote (AlertEngine.evaluate).
NoMissedLevel ==
    (quote # None /\ \A t \in Task : task[t].pc # "publish") =>
        \A r \in Armed(_rules) \ excused :
            Operator[r] \in {"gt", "lt"} /\ ValueFor(quote, r) # None
                => ~Hits(r, None, ValueFor(quote, r))
=============================================================================
