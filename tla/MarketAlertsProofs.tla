------------------------- MODULE MarketAlertsProofs -------------------------
(***************************************************************************)
(* Proofs about the market state of one instrument and the alert rules on  *)
(* it, for every set of deliveries, fields, values, rules and patches: the *)
(* quote's exchange time never goes back, a rule that has triggered is not *)
(* armed any more, and an armed level rule does not hold of the quote.     *)
(***************************************************************************)
EXTENDS MarketAlerts, FiniteSetTheorems, WellFoundedInduction, TLAPS

Rows == [Rule -> [enabled : BOOLEAN, state : Loadable \cup {"disabled", "deleted"}]]
Rules == [Rule -> Loadable]
TaskState == [pc : {"idle", "apply", "publish"}, patch : Patch \cup {None},
              quote : Quote \cup {None}, rule : 0..MaxRules, held : Rules \cup {None}]

\* What the deliveries carry, what the table can hold of an enabled rule, and that
\* every reload is owed to a call.
Shape ==
    /\ \A t \in Task :
          /\ task[t].pc = "apply" => task[t].patch \in Patch
          /\ task[t].pc = "publish" => task[t].quote \in Quote /\ task[t].rule \in Rule
    /\ \A r \in Rule : market_alerts[r].enabled => market_alerts[r].state \in Loadable
    /\ reloading <= tools

\* The rule is one of those NoMissedLevel is about, and holds of the quote q.
HoldsOf(q, r) ==
    /\ Operator[r] \in {"gt", "lt"}
    /\ ValueFor(q, r) # None
    /\ Hits(r, None, ValueFor(q, r))

\* The delivery t, which waits for a publication, evaluates the stored quote and
\* has still to look at the rule, which it sees armed, or is announcing it.
WillLookAt(t, r) ==
    /\ task[t].pc = "publish"
    /\ task[t].quote = quote
    /\ task[t].rule <= r
    /\ task[t].held = None \/ task[t].held[r] = "inactive"

\* An armed level rule that holds of the stored quote is still ahead of a delivery.
Ahead ==
    quote # None =>
        \A r \in Armed(_rules) \ excused :
            HoldsOf(quote, r) => \E t \in Task : WillLookAt(t, r)

MInv == TypeOK /\ Shape /\ TriggeredIsKnown /\ Ahead

-----------------------------------------------------------------------------
(* What an evaluation does.                                                *)

\* A set of rules has a greatest one.
LEMMA LastRule ==
    ASSUME NEW S \in SUBSET Rule, S # {}
    PROVE  Max(S) \in S
<1> DEFINE T == {MaxRules - r : r \in S}
<1>1. MaxRules \in Nat
  BY MarketAlertsAssumption
<1>2. \A r \in S : r \in Nat /\ MaxRules - r \in Nat
  BY <1>1 DEF Rule
<1>3. T \subseteq Nat /\ T # {}
  BY <1>2
<1>4. PICK n \in T : \A m \in T : ~(<<m, n>> \in OpToRel(<, Nat))
  <2> HIDE DEF T
  <2> QED
    BY <1>3, WFMin, NatLessThanWellFounded
<1>5. \A m \in T : ~(m < n)
  BY <1>3, <1>4 DEF OpToRel
<1>6. PICK x \in S : n = MaxRules - x
  OBVIOUS
<1>7. \A y \in S : x >= y
  <2> TAKE y \in S
  <2>1. MaxRules - y \in T
    OBVIOUS
  <2>2. ~(MaxRules - y < MaxRules - x)
    BY <2>1, <1>5, <1>6
  <2> QED
    BY <2>2, <1>1, <1>2
<1> QED
  BY <1>7 DEF Max

\* The previous value of the instrument is a value of the quote, or what it was.
LEMMA PreviousIsAValue ==
    ASSUME TypeOK, NEW q \in Quote, NEW S \in SUBSET Rule
    PROVE  Previous(q, S) \in Value \cup {None}
<1>1. CASE S = {}
  BY <1>1 DEF Previous, TypeOK
<1>2. CASE S # {}
  <2>1. Max(S) \in Rule
    BY <1>2, LastRule
  <2>2. FieldOf[Max(S)] \in Field
    BY <2>1, MarketAlertsAssumption
  <2>3. ValueFor(q, Max(S)) \in Value \cup {None}
    BY <2>2 DEF ValueFor, Quote
  <2> QED
    BY <2>3, <1>2 DEF Previous
<1> QED
  BY <1>1, <1>2

\* The evaluation of the rules from the first on gives some up and ends, or waits at
\* the rule "stop" it announces.
EvaluatesTo(t, q, states, held, first, stop, failed) ==
    /\ \A r \in first..MaxRules :
          (states[r] = "inactive" /\ HoldsOf(q, r))
              => r \in failed \/ (stop \in Rule /\ stop <= r)
    /\ _last_values' \in Value \cup {None}
    /\ faults' \in 0..MaxFaults
    /\ excused' = (IF first = 1 THEN {} ELSE excused) \cup failed
    /\ \/ /\ stop \in Rule /\ states[stop] = "inactive"
          /\ RecordTrigger(stop)
          /\ task' = [task EXCEPT ![t] =
                 [Idle EXCEPT !.pc = "publish", !.quote = q, !.rule = stop, !.held = held]]
       \/ /\ stop = MaxRules + 1
          /\ task' = [task EXCEPT ![t] = Idle]
          /\ UNCHANGED market_alerts

\* An evaluation ends with the rules, or waits at the next rule that fires; every
\* rule from the first on that holds was given up, or is still ahead of it.
LEMMA EvaluationStops ==
    ASSUME TypeOK, NEW t \in Task, NEW q \in Quote, NEW states \in Rules,
           NEW held \in Rules \cup {None}, NEW first \in Nat, first >= 1,
           EvaluateFrom(t, q, states, held, first)
    PROVE  \E stop \in Rule \cup {MaxRules + 1}, failed \in SUBSET Rule :
              EvaluatesTo(t, q, states, held, first, stop, failed)
<1> DEFINE compared == Compared(q, states, first) \cap Continue(first)
           hit == HitAmong(q, compared)
<1>0. MaxRules \in Nat
  BY MarketAlertsAssumption
<1>1. compared \subseteq Rule /\ hit \subseteq compared
  BY <1>0 DEF Compared, HitAmong, Rule
<1>2. \A r \in compared : states[r] = "inactive"
  BY DEF Compared
<1>3. \A r \in first..MaxRules :
          states[r] = "inactive" /\ HoldsOf(q, r) => r \in hit
  <2> SUFFICES ASSUME NEW r \in first..MaxRules, states[r] = "inactive", HoldsOf(q, r)
               PROVE  r \in hit
    OBVIOUS
  <2>1. r \in compared
    BY DEF Compared, Continue, HoldsOf
  <2>2. \A prev : Hits(r, prev, ValueFor(q, r))
    BY DEF HoldsOf, Hits
  <2> QED
    BY <2>1, <2>2 DEF HitAmong
<1>4. PICK stop \in hit \cup {MaxRules + 1} :
         LET failed == {r \in hit : r < stop}
             looked == {r \in compared : r <= stop}
         IN  /\ faults' = faults + Cardinality(failed) /\ faults' <= MaxFaults
             /\ _last_values' = Previous(q, looked)
             /\ excused' = (IF first = 1 THEN {} ELSE excused) \cup failed
             /\ IF stop \in hit
                THEN /\ RecordTrigger(stop)
                     /\ task' = [task EXCEPT ![t] =
                            [Idle EXCEPT !.pc = "publish", !.quote = q,
                                         !.rule = stop, !.held = held]]
                ELSE /\ task' = [task EXCEPT ![t] = Idle]
                     /\ UNCHANGED market_alerts
  <2> HIDE DEF compared, hit
  <2>1. EvaluateFrom(t, q, states, held, first)
    OBVIOUS
  <2> QED
    BY <2>1 DEF EvaluateFrom, compared, hit
<1> DEFINE failed == {r \in hit : r < stop}
           looked == {r \in compared : r <= stop}
<1>5. failed \in SUBSET Rule /\ looked \in SUBSET Rule /\ stop \in Rule \cup {MaxRules + 1}
  BY <1>1
<1>6. _last_values' \in Value \cup {None}
  <2>1. _last_values' = Previous(q, looked)
    BY <1>4
  <2> HIDE DEF looked
  <2> QED
    BY <2>1, <1>5, PreviousIsAValue
<1>7. faults' \in 0..MaxFaults
  <2>1. faults' = faults + Cardinality(failed) /\ faults' <= MaxFaults
    BY <1>4
  <2> HIDE DEF failed
  <2>2. IsFiniteSet(Rule)
    BY <1>0, FS_Interval DEF Rule
  <2>3. IsFiniteSet(failed)
    BY <2>2, <1>5, FS_Subset
  <2>4. Cardinality(failed) \in Nat
    BY <2>3, FS_CardinalityType
  <2>5. faults \in Nat /\ MaxFaults \in Nat
    BY MarketAlertsAssumption DEF TypeOK
  <2> QED
    BY <2>1, <2>4, <2>5
<1>8. \A r \in first..MaxRules :
          (states[r] = "inactive" /\ HoldsOf(q, r))
              => r \in failed \/ (stop \in Rule /\ stop <= r)
  <2> SUFFICES ASSUME NEW r \in first..MaxRules, states[r] = "inactive", HoldsOf(q, r)
               PROVE  r \in failed \/ (stop \in Rule /\ stop <= r)
    OBVIOUS
  <2>1. r \in hit
    BY <1>3
  <2> HIDE DEF hit
  <2>2. r \in Int /\ stop \in Int /\ r <= MaxRules
    BY <1>0, <1>5 DEF Rule
  <2>3. CASE r < stop
    BY <2>1, <2>3
  <2>4. CASE stop <= r
    <3>1. stop # MaxRules + 1
      BY <2>2, <2>4, <1>0
    <3> QED
      BY <3>1, <2>4, <1>5
  <2> QED
    BY <2>2, <2>3, <2>4
<1>9. excused' = (IF first = 1 THEN {} ELSE excused) \cup failed
  BY <1>4
<1>10. CASE stop \in hit
  <2>1. stop \in Rule /\ states[stop] = "inactive"
    BY <1>10, <1>1, <1>2
  <2>2. RecordTrigger(stop)
        /\ task' = [task EXCEPT ![t] = [Idle EXCEPT !.pc = "publish", !.quote = q,
                                                    !.rule = stop, !.held = held]]
    BY <1>10, <1>4
  <2> HIDE DEF failed, hit, compared, looked
  <2> QED
    BY <1>5, <1>6, <1>7, <1>8, <1>9, <2>1, <2>2 DEF EvaluatesTo
<1>11. CASE stop \notin hit
  <2>1. stop = MaxRules + 1
    BY <1>11
  <2>2. task' = [task EXCEPT ![t] = Idle] /\ UNCHANGED market_alerts
    BY <1>11, <1>4
  <2> HIDE DEF failed, hit, compared, looked
  <2> QED
    BY <1>5, <1>6, <1>7, <1>8, <1>9, <2>1, <2>2 DEF EvaluatesTo
<1> QED
  BY <1>10, <1>11

\* Where an evaluation stops: the outcome EvaluationStops names.
StopsAt(t, q, held, stop) ==
    \/ /\ stop \in Rule
       /\ RecordTrigger(stop)
       /\ task' = [task EXCEPT ![t] =
              [Idle EXCEPT !.pc = "publish", !.quote = q, !.rule = stop, !.held = held]]
    \/ /\ task' = [task EXCEPT ![t] = Idle]
       /\ UNCHANGED market_alerts

\* Wherever an evaluation stops, rows, deliveries and the table keep their shape.
LEMMA StoppingKeepsShape ==
    ASSUME TypeOK, Shape, NEW t \in Task, NEW q \in Quote,
           NEW held \in Rules \cup {None}, NEW stop \in Rule \cup {MaxRules + 1},
           StopsAt(t, q, held, stop)
    PROVE  /\ market_alerts' \in Rows
           /\ task' \in [Task -> TaskState]
           /\ \A d \in Task :
                 /\ task'[d].pc = "apply" => task'[d].patch \in Patch
                 /\ task'[d].pc = "publish" => task'[d].quote \in Quote /\ task'[d].rule \in Rule
           /\ \A r \in Rule : market_alerts'[r].enabled => market_alerts'[r].state \in Loadable
<1>0. MaxRules \in Nat
  BY MarketAlertsAssumption
<1>1. market_alerts \in Rows /\ task \in [Task -> TaskState]
  BY DEF TypeOK, Rows, TaskState, Rules
<1>2. Idle \in TaskState
  BY <1>0 DEF Idle, TaskState
<1>3. CASE /\ stop \in Rule
           /\ RecordTrigger(stop)
           /\ task' = [task EXCEPT ![t] =
                  [Idle EXCEPT !.pc = "publish", !.quote = q, !.rule = stop, !.held = held]]
  <2> DEFINE new == [Idle EXCEPT !.pc = "publish", !.quote = q, !.rule = stop, !.held = held]
  <2>1. new \in TaskState /\ new.pc = "publish" /\ new.quote = q /\ new.rule = stop
    <3>1. stop \in 0..MaxRules
      BY <1>0, <1>3 DEF Rule
    <3> QED
      BY <1>2, <3>1 DEF TaskState
  <2>2. task' = [task EXCEPT ![t] = new]
    BY <1>3
  <2> HIDE DEF new
  <2>3. task' \in [Task -> TaskState]
    BY <1>1, <2>1, <2>2
  <2>4. \A d \in Task :
           /\ task'[d].pc = "apply" => task'[d].patch \in Patch
           /\ task'[d].pc = "publish" => task'[d].quote \in Quote /\ task'[d].rule \in Rule
    <3> TAKE d \in Task
    <3>1. CASE d = t
      BY <3>1, <1>1, <1>3, <2>1, <2>2
    <3>2. CASE d # t
      BY <3>2, <1>1, <2>2 DEF Shape
    <3> QED
      BY <3>1, <3>2
  <2> DEFINE state == IF market_alerts[stop].state = "deleted" THEN "deleted" ELSE "triggered"
  <2>5. market_alerts' = [market_alerts EXCEPT ![stop].state = state]
    BY <1>3, <1>1 DEF RecordTrigger
  <2>6. state \in {"deleted", "triggered"}
        /\ (state = "deleted" => market_alerts[stop].state = "deleted")
    OBVIOUS
  <2> HIDE DEF state
  <2>7. market_alerts' \in Rows
    BY <1>1, <1>3, <2>5, <2>6 DEF Rows, Loadable
  <2>8. \A r \in Rule : market_alerts'[r].enabled => market_alerts'[r].state \in Loadable
    <3> TAKE r \in Rule
    <3>1. CASE r = stop
      <4>1. market_alerts'[r].enabled = market_alerts[r].enabled /\ market_alerts'[r].state = state
        BY <3>1, <1>1, <1>3, <2>5 DEF Rows
      <4> QED
        BY <3>1, <4>1, <2>6 DEF Shape, Loadable
    <3>2. CASE r # stop
      BY <3>2, <1>1, <2>5 DEF Shape, Rows
    <3> QED
      BY <3>1, <3>2
  <2> QED
    BY <2>3, <2>4, <2>7, <2>8
<1>4. CASE task' = [task EXCEPT ![t] = Idle] /\ UNCHANGED market_alerts
  <2>1. task' \in [Task -> TaskState]
    BY <1>1, <1>2, <1>4
  <2>2. \A d \in Task :
           /\ task'[d].pc = "apply" => task'[d].patch \in Patch
           /\ task'[d].pc = "publish" => task'[d].quote \in Quote /\ task'[d].rule \in Rule
    <3> TAKE d \in Task
    <3>1. CASE d = t
      BY <3>1, <1>1, <1>4 DEF Idle
    <3>2. CASE d # t
      BY <3>2, <1>1, <1>4 DEF Shape
    <3> QED
      BY <3>1, <3>2
  <2> QED
    BY <2>1, <2>2, <1>1, <1>4 DEF Shape
<1> QED
  BY <1>3, <1>4 DEF StopsAt

\* A rule that an evaluation records as triggered is being announced by it.
LEMMA StoppingAnnounces ==
    ASSUME TypeOK, Shape, NEW t \in Task, NEW q \in Quote,
           NEW held \in Rules \cup {None}, NEW stop \in Rule \cup {MaxRules + 1},
           StopsAt(t, q, held, stop),
           NEW r \in Rule,
           market_alerts'[r].enabled, market_alerts'[r].state = "triggered", ~Announcing(r)'
    PROVE  /\ market_alerts[r].enabled /\ market_alerts[r].state = "triggered"
           /\ \A d \in Task : (task[d].pc = "publish" /\ task[d].rule = r) => d = t
<1>1. market_alerts \in Rows /\ task \in [Task -> TaskState]
  BY DEF TypeOK, Rows, TaskState, Rules
<1>2. \A d \in Task : ~(task'[d].pc = "publish" /\ task'[d].rule = r)
  BY DEF Announcing
<1>3. \A d \in Task : d # t => task'[d] = task[d]
  BY <1>1 DEF StopsAt
<1>4. ASSUME stop \in Rule, RecordTrigger(stop),
             task' = [task EXCEPT ![t] = [Idle EXCEPT !.pc = "publish", !.quote = q,
                                                      !.rule = stop, !.held = held]]
      PROVE  stop # r
  <2>1. task'[t].pc = "publish" /\ task'[t].rule = stop
    BY <1>1, <1>4 DEF Idle
  <2> QED
    BY <1>2, <2>1
<1>5. market_alerts'[r] = market_alerts[r]
  <2>1. CASE UNCHANGED market_alerts
    BY <2>1
  <2>2. CASE stop \in Rule /\ stop # r /\ RecordTrigger(stop)
    BY <2>2, <1>1 DEF RecordTrigger, Rows
  <2> QED
    BY <2>1, <2>2, <1>4 DEF StopsAt
<1> QED
  BY <1>2, <1>3, <1>5

-----------------------------------------------------------------------------
(* The deliveries.                                                         *)

\* A patch that arrives waits to be applied.
LEMMA ReceiveKeeps ==
    ASSUME MInv, NEW t \in Task, NEW reported \in FeedPatches, Receive(t, reported)
    PROVE  MInv'
<1> USE DEF MInv
<1> DEFINE patch == _build_patch(reported, received + 1)
           new == [Idle EXCEPT !.pc = "apply", !.patch = patch]
<1>0. MaxRules \in Nat /\ MaxPatches \in Nat
  BY MarketAlertsAssumption
<1>1. task \in [Task -> TaskState]
  BY DEF TypeOK, TaskState, Rules
<1>2. received' \in 0..MaxPatches
  BY <1>0 DEF TypeOK, Receive
<1>3. patch \in Patch
  <2>1. reported \in [fields : [Field -> Value \cup {None, Absent}],
                      exchange_ts : ExchangeTs \cup {None}]
    BY MarketAlertsAssumption
  <2>2. received + 1 \in Nat
    BY <1>0 DEF TypeOK
  <2> QED
    BY <2>1, <2>2 DEF _build_patch, Patch
<1> HIDE DEF patch
<1>4. new \in TaskState /\ new.pc = "apply" /\ new.patch = patch
  <2>1. Idle \in TaskState
    BY <1>0 DEF Idle, TaskState
  <2> QED
    BY <2>1, <1>3 DEF TaskState
<1>5. task' = [task EXCEPT ![t] = new]
  BY DEF Receive, patch
<1> HIDE DEF new
<1>6. task' \in [Task -> TaskState] /\ task'[t] = new
      /\ \A d \in Task : d # t => task'[d] = task[d]
  BY <1>1, <1>4, <1>5
<1>7. UNCHANGED <<quote, market_alerts, _rules, _last_values, reloading, tools, faults,
                  forgotten, excused>> /\ task[t].pc = "idle"
  BY DEF Receive
<1>8. TypeOK'
  BY <1>2, <1>6, <1>7 DEF TypeOK, TaskState, Rules
<1>9. Shape'
  BY <1>3, <1>4, <1>6, <1>7 DEF Shape
<1>10. \A r \in Rule : Announcing(r)' <=> Announcing(r)
  BY <1>4, <1>6, <1>7 DEF Announcing
<1>11. TriggeredIsKnown'
  BY <1>7, <1>8, <1>10 DEF TriggeredIsKnown
<1>12. Ahead'
  <2>1. \A d \in Task, r \in Rule : WillLookAt(d, r) => WillLookAt(d, r)'
    BY <1>6, <1>7 DEF WillLookAt
  <2>2. \A r \in Rule : HoldsOf(quote, r)' <=> HoldsOf(quote, r)
    BY <1>7 DEF HoldsOf, ValueFor, Hits
  <2> QED
    BY <2>1, <2>2, <1>7 DEF Ahead, Armed
<1> QED
  BY <1>8, <1>9, <1>11, <1>12

\* What an accepted patch makes of the quote is a quote, and its exchange time is
\* not before that of the quote.
LEMMA MergingAdvances ==
    ASSUME TypeOK, NEW patch \in Patch, ~IsStale(patch)
    PROVE  /\ Merged(patch) \in Quote
           /\ (quote # None /\ quote.exchange_ts # None)
                 => /\ Merged(patch).exchange_ts # None
                    /\ Merged(patch).exchange_ts >= quote.exchange_ts
<1>1. quote # None => quote \in Quote
  BY DEF TypeOK
<1>2. \A f \in Field : Reported(patch, f) \in Value \cup {None}
  <2> TAKE f \in Field
  <2>1. CASE patch.fields[f] # Absent
    BY <2>1 DEF Reported, Patch
  <2>2. CASE patch.fields[f] = Absent
    BY <2>2, <1>1 DEF Reported, Quote
  <2> QED
    BY <2>1, <2>2
<1>3. MergedTs(patch) \in ExchangeTs \cup {None}
  BY <1>1 DEF MergedTs, Patch, Quote
<1>4. patch.received_ts \in Nat
  BY DEF Patch
<1>5. Merged(patch) \in Quote
  BY <1>2, <1>3, <1>4 DEF Merged, Quote
<1>6. ASSUME quote # None, quote.exchange_ts # None
      PROVE  MergedTs(patch) # None /\ MergedTs(patch) >= quote.exchange_ts
  <2>1. quote.exchange_ts \in ExchangeTs /\ ExchangeTs \subseteq Int
    BY <1>1, <1>6, MarketAlertsAssumption DEF Quote
  <2>2. CASE patch.exchange_ts = None
    <3>1. MergedTs(patch) = quote.exchange_ts
      BY <2>2, <1>6 DEF MergedTs
    <3>2. quote.exchange_ts \in Int
      BY <2>1
    <3>3. quote.exchange_ts >= quote.exchange_ts
      BY <3>2
    <3> QED
      BY <3>1, <3>3, <1>6
  <2>3. CASE patch.exchange_ts # None
    <3>1. patch.exchange_ts \in Int
      BY <2>3, <2>1 DEF Patch
    <3>2. ~(patch.exchange_ts < quote.exchange_ts)
      BY <2>3, <1>6 DEF IsStale
    <3>3. quote.exchange_ts \in Int
      BY <2>1
    <3>4. patch.exchange_ts >= quote.exchange_ts
      BY <3>1, <3>2, <3>3
    <3>5. MergedTs(patch) = patch.exchange_ts
      BY <2>3 DEF MergedTs
    <3> QED
      BY <2>3, <3>4, <3>5
  <2> QED
    BY <2>2, <2>3
<1> QED
  BY <1>5, <1>6 DEF Merged

\* A patch is dropped, or becomes the quote and is evaluated: every armed rule that
\* holds of the new quote was given up, or is ahead of the evaluation.
LEMMA ApplyKeeps ==
    ASSUME MInv, NEW t \in Task, ApplyQuote(t)
    PROVE  MInv'
<1> USE DEF MInv
<1>0. MaxRules \in Nat
  BY MarketAlertsAssumption
<1>1. task \in [Task -> TaskState] /\ market_alerts \in Rows /\ _rules \in Rules
  BY DEF TypeOK, TaskState, Rules, Rows
<1>2. UNCHANGED <<_rules, reloading, received, tools, forgotten>>
      /\ task[t].pc = "apply" /\ task[t].patch \in Patch
  BY DEF ApplyQuote, Shape
<1>3. CASE IsStale(task[t].patch)
  <2>1. task' = [task EXCEPT ![t] = Idle]
        /\ UNCHANGED <<quote, market_alerts, _last_values, faults, excused>>
    BY <1>3 DEF ApplyQuote
  <2>2. Idle \in TaskState /\ Idle.pc = "idle"
    BY <1>0 DEF Idle, TaskState
  <2>3. task' \in [Task -> TaskState] /\ task'[t].pc = "idle"
        /\ \A d \in Task : d # t => task'[d] = task[d]
    BY <1>1, <2>1, <2>2
  <2>4. TypeOK'
    BY <1>2, <2>1, <2>3 DEF TypeOK, TaskState, Rules
  <2>5. Shape'
    BY <1>2, <2>1, <2>3 DEF Shape
  <2>6. \A r \in Rule : Announcing(r) => Announcing(r)'
    BY <1>2, <2>3 DEF Announcing
  <2>7. TriggeredIsKnown'
    BY <1>2, <2>1, <2>4, <2>6 DEF TriggeredIsKnown
  <2>8. \A d \in Task, r \in Rule : WillLookAt(d, r) => WillLookAt(d, r)'
    BY <1>2, <2>1, <2>3 DEF WillLookAt
  <2>9. \A r \in Rule : HoldsOf(quote, r)' <=> HoldsOf(quote, r)
    BY <2>1 DEF HoldsOf, ValueFor, Hits
  <2>10. Ahead'
    BY <1>2, <2>1, <2>8, <2>9 DEF Ahead, Armed
  <2> QED
    BY <2>4, <2>5, <2>7, <2>10
<1>4. CASE ~IsStale(task[t].patch)
  <2>1. PICK q \in Quote : q = quote' /\ EvaluateFrom(t, q, _rules, None, 1)
    <3>1. quote' = Merged(task[t].patch) /\ EvaluateFrom(t, quote', _rules, None, 1)
      BY <1>4 DEF ApplyQuote
    <3>2. Merged(task[t].patch) \in Quote
      BY <1>2, <1>4, MergingAdvances
    <3> QED
      BY <3>1, <3>2
  <2>2. PICK stop \in Rule \cup {MaxRules + 1}, failed \in SUBSET Rule :
           EvaluatesTo(t, q, _rules, None, 1, stop, failed)
    BY <1>1, <2>1, EvaluationStops
  <2> USE DEF EvaluatesTo
  <2>3. StopsAt(t, q, None, stop)
    BY <2>2 DEF StopsAt
  <2>4. /\ market_alerts' \in Rows
        /\ task' \in [Task -> TaskState]
        /\ \A d \in Task :
              /\ task'[d].pc = "apply" => task'[d].patch \in Patch
              /\ task'[d].pc = "publish" => task'[d].quote \in Quote /\ task'[d].rule \in Rule
        /\ \A r \in Rule : market_alerts'[r].enabled => market_alerts'[r].state \in Loadable
    BY <2>3, StoppingKeepsShape
  <2>5. excused' = failed
    BY <2>2
  <2>6. TypeOK'
    <3>1. quote' \in Quote
      BY <2>1
    <3> QED
      BY <1>2, <2>2, <2>4, <2>5, <3>1 DEF TypeOK, TaskState, Rules, Rows
  <2>7. Shape'
    BY <1>2, <2>4 DEF Shape
  <2>8. TriggeredIsKnown'
    <3>1. SUFFICES ASSUME NEW r \in Rule \ forgotten',
                          market_alerts'[r].enabled, market_alerts'[r].state = "triggered",
                          ~Announcing(r)'
                   PROVE  _rules'[r] # "inactive"
      BY <2>6 DEF TriggeredIsKnown
    <3>2. /\ market_alerts[r].enabled /\ market_alerts[r].state = "triggered"
          /\ \A d \in Task : (task[d].pc = "publish" /\ task[d].rule = r) => d = t
      BY <2>3, <3>1, StoppingAnnounces
    <3>3. ~Announcing(r)
      BY <1>2, <3>2 DEF Announcing
    <3> QED
      BY <1>2, <3>1, <3>2, <3>3 DEF TriggeredIsKnown
  <2>9. Ahead'
    <3>1. SUFFICES ASSUME NEW r \in Rule, _rules[r] = "inactive", r \notin excused',
                          HoldsOf(q, r)
                   PROVE  WillLookAt(t, r)'
      <4>1. \A r \in Rule : HoldsOf(quote, r)' <=> HoldsOf(q, r)
        BY <2>1 DEF HoldsOf, ValueFor, Hits
      <4> QED
        BY <1>2, <4>1 DEF Ahead, Armed
    <3>2. stop \in Rule /\ stop <= r
      BY <2>2, <2>5, <3>1 DEF Rule
    <3>3. task' = [task EXCEPT ![t] = [Idle EXCEPT !.pc = "publish", !.quote = q,
                                                   !.rule = stop, !.held = None]]
      BY <2>2, <3>2, <1>0 DEF Rule
    <3>4. task'[t].pc = "publish" /\ task'[t].quote = q /\ task'[t].rule = stop
          /\ task'[t].held = None
      BY <1>1, <3>3 DEF Idle
    <3> QED
      BY <2>1, <3>2, <3>4 DEF WillLookAt
  <2> QED
    BY <2>6, <2>7, <2>8, <2>9
<1> QED
  BY <1>3, <1>4

\* The rule that was announced is not armed any more, and the evaluation goes on with
\* the rules it sees; those it saw armed are the rules it was expected to look at.
LEMMA AnnouncedKeeps ==
    ASSUME MInv, NEW t \in Task, Announced(t)
    PROVE  MInv'
<1> USE DEF MInv
<1>0. MaxRules \in Nat
  BY MarketAlertsAssumption
<1>1. task \in [Task -> TaskState] /\ market_alerts \in Rows /\ _rules \in Rules
  BY DEF TypeOK, TaskState, Rules, Rows
<1>2. UNCHANGED <<quote, reloading, received, tools, forgotten>>
      /\ task[t].pc = "publish" /\ task[t].quote \in Quote /\ task[t].rule \in Rule
  BY DEF Announced, Shape
<1> DEFINE k == task[t].rule
           q == task[t].quote
           held == task[t].held
           marked == IF _rules[k] = "none" THEN "none" ELSE "triggered"
<1>3. held \in Rules \cup {None}
  BY <1>1 DEF TaskState
<1>4. _rules' = [_rules EXCEPT ![k] = marked]
  BY <1>1, <1>2 DEF Announced, MarkTriggered
<1>5. _rules' \in Rules /\ _rules'[k] # "inactive"
      /\ \A r \in Rule : r # k => _rules'[r] = _rules[r]
  BY <1>1, <1>2, <1>4 DEF Rules, Loadable
<1>6. PICK states \in Rules :
         /\ states = IF held = None THEN _rules' ELSE held
         /\ EvaluateFrom(t, q, states, held, k + 1)
  <2>1. EvaluateFrom(t, q, IF held = None THEN _rules' ELSE held, held, k + 1)
    BY DEF Announced
  <2>2. (IF held = None THEN _rules' ELSE held) \in Rules
    BY <1>3, <1>5
  <2> QED
    BY <2>1, <2>2
<1>7. k \in 1..MaxRules /\ k + 1 \in Nat /\ k + 1 >= 1 /\ k + 1 # 1
  BY <1>0, <1>2 DEF Rule
<1>8. PICK stop \in Rule \cup {MaxRules + 1}, failed \in SUBSET Rule :
         EvaluatesTo(t, q, states, held, k + 1, stop, failed)
  <2>1. q \in Quote
    BY <1>2
  <2> HIDE DEF k, q, held
  <2> QED
    BY <1>3, <1>6, <1>7, <2>1, EvaluationStops
<1> USE DEF EvaluatesTo
<1>9. StopsAt(t, q, held, stop)
  BY <1>8 DEF StopsAt
<1>10. q \in Quote
  BY <1>2
<1> HIDE DEF q, held, k, marked
<1>11. /\ market_alerts' \in Rows
       /\ task' \in [Task -> TaskState]
       /\ \A d \in Task :
             /\ task'[d].pc = "apply" => task'[d].patch \in Patch
             /\ task'[d].pc = "publish" => task'[d].quote \in Quote /\ task'[d].rule \in Rule
       /\ \A r \in Rule : market_alerts'[r].enabled => market_alerts'[r].state \in Loadable
  BY <1>3, <1>9, <1>10, StoppingKeepsShape
<1>12. excused' = excused \cup failed
  BY <1>7, <1>8
<1>13. TypeOK'
  BY <1>2, <1>5, <1>8, <1>11, <1>12 DEF TypeOK, TaskState, Rules, Rows
<1>14. Shape'
  BY <1>2, <1>11 DEF Shape
<1>15. TriggeredIsKnown'
  <2>1. SUFFICES ASSUME NEW r \in Rule \ forgotten',
                        market_alerts'[r].enabled, market_alerts'[r].state = "triggered",
                        ~Announcing(r)'
                 PROVE  _rules'[r] # "inactive"
    BY <1>13 DEF TriggeredIsKnown
  <2>2. CASE r = k
    BY <2>2, <1>5
  <2>3. CASE r # k
    <3>1. /\ market_alerts[r].enabled /\ market_alerts[r].state = "triggered"
          /\ \A d \in Task : (task[d].pc = "publish" /\ task[d].rule = r) => d = t
      BY <1>3, <1>9, <1>10, <2>1, StoppingAnnounces
    <3>2. ~Announcing(r)
      BY <2>3, <3>1 DEF Announcing, k
    <3> QED
      BY <1>2, <1>5, <2>1, <2>3, <3>1, <3>2 DEF TriggeredIsKnown
  <2> QED
    BY <2>2, <2>3
<1>16. Ahead'
  <2>1. SUFFICES ASSUME quote # None, NEW r \in Rule, _rules'[r] = "inactive",
                        r \notin excused', HoldsOf(quote, r)
                 PROVE  \E d \in Task : WillLookAt(d, r)'
    <3>1. \A r \in Rule : HoldsOf(quote, r)' <=> HoldsOf(quote, r)
      BY <1>2 DEF HoldsOf, ValueFor, Hits
    <3> QED
      BY <1>2, <3>1 DEF Ahead, Armed
  <2>2. r # k /\ _rules[r] = "inactive" /\ r \notin excused /\ r \notin failed
    BY <1>5, <1>12, <2>1
  <2>3. PICK d \in Task : WillLookAt(d, r)
    BY <2>1, <2>2 DEF Ahead, Armed
  <2>4. CASE d # t
    <3>1. task'[d] = task[d]
      BY <1>1, <1>9, <2>4 DEF StopsAt
    <3> QED
      BY <1>2, <2>3, <3>1 DEF WillLookAt
  <2>5. CASE d = t
    <3>1. q = quote /\ k <= r /\ (held = None \/ held[r] = "inactive")
      BY <2>3, <2>5 DEF WillLookAt, q, k, held
    <3>2. states[r] = "inactive"
      BY <1>6, <2>1, <3>1 DEF held
    <3>3. r \in (k + 1)..MaxRules
      BY <1>0, <1>7, <2>2, <3>1 DEF Rule
    <3>4. HoldsOf(q, r)
      BY <2>1, <3>1
    <3>5. stop \in Rule /\ stop <= r
      BY <1>8, <2>2, <3>2, <3>3, <3>4
    <3>6. task' = [task EXCEPT ![t] = [Idle EXCEPT !.pc = "publish", !.quote = q,
                                                   !.rule = stop, !.held = held]]
      BY <1>0, <1>8, <3>5 DEF Rule, q, held
    <3>7. task'[t].pc = "publish" /\ task'[t].quote = q /\ task'[t].rule = stop
          /\ task'[t].held = held
      BY <1>1, <3>6 DEF Idle
    <3>8. WillLookAt(t, r)'
      BY <1>2, <3>1, <3>5, <3>7 DEF WillLookAt
    <3> QED
      BY <3>8
  <2> QED
    BY <2>4, <2>5
<1> QED
  BY <1>13, <1>14, <1>15, <1>16

\* The rules from the cancelled delivery's on are excused, and its own is forgotten.
LEMMA CancelKeeps ==
    ASSUME MInv, NEW t \in Task, Cancel(t)
    PROVE  MInv'
<1> USE DEF MInv
<1>0. MaxRules \in Nat /\ MaxFaults \in Nat
  BY MarketAlertsAssumption
<1>1. task \in [Task -> TaskState]
  BY DEF TypeOK, TaskState, Rules
<1>2. /\ UNCHANGED <<quote, market_alerts, _rules, _last_values, reloading, received, tools>>
      /\ task[t].pc = "publish" /\ task[t].rule \in Rule
      /\ task' = [task EXCEPT ![t] = Idle]
      /\ forgotten' = forgotten \cup {task[t].rule}
      /\ excused' = excused \cup task[t].rule..MaxRules
  BY DEF Cancel, Shape
<1>3. Idle \in TaskState /\ Idle.pc = "idle"
  BY <1>0 DEF Idle, TaskState
<1>4. task' \in [Task -> TaskState] /\ task'[t].pc = "idle"
      /\ \A d \in Task : d # t => task'[d] = task[d]
  BY <1>1, <1>2, <1>3
<1>5. task[t].rule..MaxRules \subseteq Rule
  BY <1>0, <1>2 DEF Rule
<1>6. faults' \in 0..MaxFaults
  BY <1>0 DEF TypeOK, Cancel, Fault
<1>7. TypeOK'
  BY <1>2, <1>4, <1>5, <1>6 DEF TypeOK, TaskState, Rules
<1>8. Shape'
  BY <1>2, <1>4 DEF Shape
<1>9. \A r \in Rule \ forgotten' : Announcing(r) => Announcing(r)'
  BY <1>2, <1>4 DEF Announcing
<1>10. TriggeredIsKnown'
  BY <1>2, <1>7, <1>9 DEF TriggeredIsKnown
<1>11. Ahead'
  <2>1. SUFFICES ASSUME quote # None, NEW r \in Rule, _rules[r] = "inactive",
                        r \notin excused', HoldsOf(quote, r)
                 PROVE  \E d \in Task : WillLookAt(d, r)'
    <3>1. \A r \in Rule : HoldsOf(quote, r)' <=> HoldsOf(quote, r)
      BY <1>2 DEF HoldsOf, ValueFor, Hits
    <3> QED
      BY <1>2, <3>1 DEF Ahead, Armed
  <2>2. PICK d \in Task : WillLookAt(d, r)
    BY <1>2, <2>1 DEF Ahead, Armed
  <2>3. d # t
    <3> SUFFICES ASSUME d = t
                 PROVE  FALSE
      OBVIOUS
    <3>1. task[t].rule <= r
      BY <2>2 DEF WillLookAt
    <3>2. r \in task[t].rule..MaxRules
      BY <1>0, <1>2, <3>1 DEF Rule
    <3> QED
      BY <1>2, <2>1, <3>2
  <2> QED
    BY <1>2, <1>4, <2>2, <2>3 DEF WillLookAt
<1> QED
  BY <1>7, <1>8, <1>10, <1>11

-----------------------------------------------------------------------------
(* The calls that change rules, the reload and the restart.                *)

\* A row that does not say "triggered" of an enabled rule may be written at any time.
LEMMA WriteKeeps ==
    ASSUME MInv, NEW r \in Rule,
           NEW row \in [enabled : BOOLEAN, state : Loadable \cup {"disabled", "deleted"}],
           Write(r, row), reloading' \in {reloading, reloading + 1},
           row.enabled => row.state \in {"none", "inactive"}
    PROVE  MInv'
<1> USE DEF MInv
<1>0. MaxTools \in Nat
  BY MarketAlertsAssumption
<1>1. market_alerts \in Rows
  BY DEF TypeOK, Rows
<1>2. UNCHANGED <<quote, _rules, _last_values, task, received, faults, forgotten, excused>>
      /\ market_alerts' = [market_alerts EXCEPT ![r] = row]
  BY DEF Write
<1>3. market_alerts' \in Rows /\ market_alerts'[r] = row
      /\ \A k \in Rule : k # r => market_alerts'[k] = market_alerts[k]
  BY <1>1, <1>2 DEF Rows
<1>4. tools' \in 0..MaxTools /\ reloading' \in 0..MaxTools /\ reloading' <= tools'
  <2>1. tools \in Nat /\ reloading \in Nat /\ reloading <= tools
    BY <1>0 DEF TypeOK, Shape
  <2>2. tools' = tools + 1 /\ tools < MaxTools
    BY DEF Write
  <2> QED
    BY <1>0, <2>1, <2>2
<1>5. TypeOK'
  BY <1>2, <1>3, <1>4 DEF TypeOK, Rows
<1>6. Shape'
  BY <1>2, <1>3, <1>4 DEF Shape, Loadable
<1>7. \A k \in Rule : Announcing(k)' <=> Announcing(k)
  BY <1>2 DEF Announcing
<1>8. TriggeredIsKnown'
  <2>1. \A k \in Rule :
           (market_alerts'[k].enabled /\ market_alerts'[k].state = "triggered")
               => market_alerts'[k] = market_alerts[k]
    BY <1>3
  <2> QED
    BY <1>2, <1>5, <1>7, <2>1 DEF TriggeredIsKnown
<1>9. Ahead'
  <2>1. \A k \in Rule : HoldsOf(quote, k)' <=> HoldsOf(quote, k)
    BY <1>2 DEF HoldsOf, ValueFor, Hits
  <2>2. \A d \in Task, k \in Rule : WillLookAt(d, k)' <=> WillLookAt(d, k)
    BY <1>2 DEF WillLookAt
  <2> QED
    BY <1>2, <2>1, <2>2 DEF Ahead, Armed
<1> QED
  BY <1>5, <1>6, <1>8, <1>9

\* Every route and tool writes such a row; a rearmed rule is inactive.
LEMMA ToolsKeep ==
    ASSUME MInv, NEW r \in Rule,
           \/ CreateAlert(r)
           \/ \E enabled \in BOOLEAN : SetAlertEnabled(r, enabled)
           \/ DeleteAlert(r)
           \/ RearmAlert(r)
    PROVE  MInv'
<1> DEFINE Row == [enabled : BOOLEAN, state : Loadable \cup {"disabled", "deleted"}]
<1>1. CASE CreateAlert(r)
  <2> DEFINE row == [enabled |-> TRUE, state |-> "inactive"]
  <2>1. row \in Row /\ row.state \in {"none", "inactive"}
    BY DEF Loadable
  <2>2. Write(r, row) /\ reloading' = reloading + 1
    BY <1>1 DEF CreateAlert
  <2> HIDE DEF row
  <2> QED
    BY <2>1, <2>2, WriteKeeps
<1>2. ASSUME NEW enabled \in BOOLEAN, SetAlertEnabled(r, enabled)
      PROVE  MInv'
  <2> DEFINE row == [enabled |-> enabled,
                     state |-> IF enabled THEN "inactive" ELSE "disabled"]
  <2>1. row \in Row /\ (row.enabled => row.state \in {"none", "inactive"})
    BY DEF Loadable
  <2>2. Write(r, row) /\ reloading' = reloading + 1
    BY <1>2 DEF SetAlertEnabled
  <2> HIDE DEF row
  <2> QED
    BY <2>1, <2>2, WriteKeeps
<1>3. CASE DeleteAlert(r)
  <2> DEFINE row == [enabled |-> FALSE, state |-> "deleted"]
  <2>1. row \in Row /\ ~row.enabled
    BY DEF Loadable
  <2>2. Write(r, row) /\ reloading' = reloading + 1
    BY <1>3 DEF DeleteAlert
  <2> HIDE DEF row
  <2> QED
    BY <2>1, <2>2, WriteKeeps
<1>4. CASE RearmAlert(r)
  <2> DEFINE row == [market_alerts[r] EXCEPT !.state = "inactive"]
  <2>1. market_alerts[r] \in Row
    BY DEF MInv, TypeOK
  <2>2. row \in Row /\ row.state = "inactive"
    BY <2>1 DEF Loadable
  <2>3. Write(r, row) /\ reloading' = reloading
    BY <1>4 DEF RearmAlert
  <2> HIDE DEF row
  <2> QED
    BY <2>2, <2>3, WriteKeeps
<1> QED
  BY <1>1, <1>2, <1>3, <1>4

\* What is loaded of the table is armed where an enabled row says so.
LEMMA LoadedStates ==
    ASSUME TypeOK, Shape
    PROVE  /\ Loaded(market_alerts) \in Rules
           /\ \A r \in Rule :
                 (market_alerts[r].enabled /\ market_alerts[r].state = "triggered")
                     => Loaded(market_alerts)[r] # "inactive"
<1>1. \A r \in Rule :
         (IF market_alerts[r].enabled THEN market_alerts[r].state ELSE "none") \in Loadable
  BY DEF Shape, Loadable
<1> QED
  BY <1>1 DEF Loaded, Rules

\* Rules that are loaded have not been compared with the stored quote: they are
\* excused until the next one.
LEMMA ReloadKeeps ==
    ASSUME MInv, Reload
    PROVE  MInv'
<1> USE DEF MInv
<1>0. MaxTools \in Nat
  BY MarketAlertsAssumption
<1>1. task \in [Task -> TaskState] /\ _rules \in Rules
  BY DEF TypeOK, TaskState, Rules
<1>2. /\ UNCHANGED <<quote, market_alerts, _last_values, received, tools, faults>>
      /\ reloading > 0 /\ reloading' = reloading - 1
      /\ _rules' = Loaded(market_alerts)
      /\ task' = [t \in Task |-> Hold(t)]
      /\ excused' = excused \cup Armed(_rules') /\ forgotten' = {}
  BY DEF Reload
<1>3. \A t \in Task :
         /\ Hold(t) \in TaskState
         /\ Hold(t).pc = task[t].pc /\ Hold(t).patch = task[t].patch
         /\ Hold(t).quote = task[t].quote /\ Hold(t).rule = task[t].rule
  <2> TAKE t \in Task
  <2>1. task[t] \in TaskState
    BY <1>1
  <2>2. CASE task[t].pc = "publish" /\ task[t].held = None
    BY <1>1, <2>1, <2>2 DEF Hold, TaskState
  <2>3. CASE ~(task[t].pc = "publish" /\ task[t].held = None)
    BY <2>1, <2>3 DEF Hold
  <2> QED
    BY <2>2, <2>3
<1>4. task' \in [Task -> TaskState]
      /\ \A t \in Task :
            /\ task'[t].pc = task[t].pc /\ task'[t].patch = task[t].patch
            /\ task'[t].quote = task[t].quote /\ task'[t].rule = task[t].rule
  BY <1>2, <1>3
<1>5. reloading' \in 0..MaxTools /\ reloading' <= tools'
  <2>1. tools \in Nat /\ reloading \in Nat /\ reloading <= tools /\ tools <= MaxTools
    BY <1>0 DEF TypeOK, Shape
  <2> QED
    BY <1>0, <1>2, <2>1
<1>6. _rules' \in Rules
  BY <1>2, LoadedStates
<1>7. excused' \subseteq Rule
  BY <1>2 DEF TypeOK, Armed
<1>8. TypeOK'
  BY <1>2, <1>4, <1>5, <1>6, <1>7 DEF TypeOK, TaskState, Rules
<1>9. Shape'
  BY <1>2, <1>4, <1>5 DEF Shape
<1>10. TriggeredIsKnown'
  BY <1>2, <1>8, LoadedStates DEF TriggeredIsKnown
<1>11. Ahead'
  BY <1>2 DEF Ahead
<1> QED
  BY <1>8, <1>9, <1>10, <1>11

\* The engine keeps the rules it has.
LEMMA ReloadFailsKeeps ==
    ASSUME MInv, ReloadFails
    PROVE  MInv'
<1> USE DEF MInv
<1>0. MaxTools \in Nat /\ MaxFaults \in Nat
  BY MarketAlertsAssumption
<1>1. UNCHANGED <<quote, market_alerts, _rules, _last_values, task, received, tools,
                  forgotten, excused>>
      /\ reloading > 0 /\ reloading' = reloading - 1
  BY DEF ReloadFails
<1>2. faults' \in 0..MaxFaults
  BY <1>0 DEF ReloadFails, Fault, TypeOK
<1>3. reloading' \in 0..MaxTools /\ reloading' <= tools'
  <2>1. tools \in Nat /\ reloading \in Nat /\ reloading <= tools /\ tools <= MaxTools
    BY <1>0 DEF TypeOK, Shape
  <2> QED
    BY <1>0, <1>1, <2>1
<1>4. TypeOK'
  BY <1>1, <1>2, <1>3 DEF TypeOK
<1>5. Shape'
  BY <1>1, <1>3 DEF Shape
<1>6. \A k \in Rule : Announcing(k)' <=> Announcing(k)
  BY <1>1 DEF Announcing
<1>7. TriggeredIsKnown'
  BY <1>1, <1>4, <1>6 DEF TriggeredIsKnown
<1>8. Ahead'
  <2>1. \A k \in Rule : HoldsOf(quote, k)' <=> HoldsOf(quote, k)
    BY <1>1 DEF HoldsOf, ValueFor, Hits
  <2>2. \A d \in Task, k \in Rule : WillLookAt(d, k)' <=> WillLookAt(d, k)
    BY <1>1 DEF WillLookAt
  <2> QED
    BY <1>1, <2>1, <2>2 DEF Ahead, Armed
<1> QED
  BY <1>4, <1>5, <1>7, <1>8

\* A restart begins without a quote, with the rules the table gives.
LEMMA RestartKeeps ==
    ASSUME MInv, Restart
    PROVE  MInv'
<1> USE DEF MInv
<1>0. {MaxRules, MaxTools, MaxFaults} \subseteq Nat
  BY MarketAlertsAssumption
<1>1. /\ UNCHANGED <<market_alerts, received, tools>>
      /\ quote' = None /\ _rules' = Loaded(market_alerts) /\ _last_values' = None
      /\ task' = [t \in Task |-> Idle] /\ reloading' = 0
      /\ forgotten' = {} /\ excused' = Rule
  BY DEF Restart
<1>2. Idle \in TaskState /\ Idle.pc = "idle"
  BY <1>0 DEF Idle, TaskState
<1>3. task' \in [Task -> TaskState] /\ \A t \in Task : task'[t].pc = "idle"
  BY <1>1, <1>2
<1>4. faults' \in 0..MaxFaults
  BY <1>0 DEF Restart, Fault, TypeOK
<1>5. reloading' \in 0..MaxTools /\ reloading' <= tools'
  BY <1>0, <1>1 DEF TypeOK
<1>6. _rules' \in Rules
  BY <1>1, LoadedStates
<1>7. TypeOK'
  BY <1>1, <1>3, <1>4, <1>5, <1>6 DEF TypeOK, TaskState, Rules
<1>8. Shape'
  BY <1>1, <1>3, <1>5 DEF Shape
<1>9. TriggeredIsKnown'
  BY <1>1, <1>7, LoadedStates DEF TriggeredIsKnown
<1>10. Ahead'
  BY <1>1 DEF Ahead
<1> QED
  BY <1>7, <1>8, <1>9, <1>10

\* Some rules are stored, and loaded, and there is no quote.
LEMMA MInvInit == Init => MInv
<1> SUFFICES ASSUME Init
             PROVE  MInv
  OBVIOUS
<1>0. {MaxRules, MaxPatches, MaxTools, MaxFaults} \subseteq Nat
  BY MarketAlertsAssumption
<1>1. PICK stored \in 0..MaxRules :
         market_alerts = [r \in Rule |->
             IF r <= stored THEN [enabled |-> TRUE, state |-> "inactive"]
                            ELSE [enabled |-> FALSE, state |-> "none"]]
  BY DEF Init
<1>2. \A r \in Rule : market_alerts[r] \in {[enabled |-> TRUE, state |-> "inactive"],
                                            [enabled |-> FALSE, state |-> "none"]}
  BY <1>1
<1>3. market_alerts \in Rows
  BY <1>1 DEF Rows, Loadable
<1>4. \A r \in Rule : /\ market_alerts[r].enabled => market_alerts[r].state \in Loadable
                      /\ market_alerts[r].state # "triggered"
  BY <1>2 DEF Loadable
<1>5. _rules = [r \in Rule |-> IF market_alerts[r].enabled THEN market_alerts[r].state
                               ELSE "none"]
  BY DEF Init, Loaded
<1>6. _rules \in Rules
  BY <1>4, <1>5 DEF Rules, Loadable
<1>7. Idle \in TaskState /\ Idle.pc = "idle"
  BY <1>0 DEF Idle, TaskState
<1>8. task \in [Task -> TaskState] /\ \A t \in Task : task[t].pc = "idle"
  BY <1>7 DEF Init
<1>9. TypeOK
  BY <1>0, <1>3, <1>6, <1>8 DEF Init, TypeOK, Rows, Rules, TaskState
<1>10. Shape
  BY <1>4, <1>8 DEF Init, Shape
<1>11. TriggeredIsKnown
  BY <1>4, <1>9 DEF TriggeredIsKnown
<1>12. Ahead
  BY DEF Init, Ahead
<1> QED
  BY <1>9, <1>10, <1>11, <1>12 DEF MInv

\* Nothing happens.
LEMMA StutterKeeps ==
    ASSUME MInv, UNCHANGED vars
    PROVE  MInv'
<1> USE DEF MInv, vars
<1>1. TypeOK'
  BY DEF TypeOK
<1>2. Shape'
  BY DEF Shape
<1>3. TriggeredIsKnown'
  BY <1>1 DEF TriggeredIsKnown, Announcing
<1>4. \A k \in Rule : HoldsOf(quote, k)' <=> HoldsOf(quote, k)
  BY DEF HoldsOf, ValueFor, Hits
<1>5. \A d \in Task, k \in Rule : WillLookAt(d, k)' <=> WillLookAt(d, k)
  BY DEF WillLookAt
<1>6. Ahead'
  BY <1>4, <1>5 DEF Ahead, Armed
<1> QED
  BY <1>1, <1>2, <1>3, <1>6

-----------------------------------------------------------------------------
(* Theorems.                                                               *)

\* The invariant holds for every set of deliveries, rules and patches: what the
\* deliveries carry is well formed, and an armed rule that holds of the stored
\* quote is one a waiting delivery has still to look at (AlertEngine.evaluate).
THEOREM MarketAlertsInvariance == Spec => []MInv
<1>1. MInv /\ [Next]_vars => MInv'
  <2> SUFFICES ASSUME MInv, [Next]_vars
               PROVE  MInv'
    OBVIOUS
  <2>1. ASSUME NEW t \in Task, NEW reported \in FeedPatches, Receive(t, reported)
        PROVE  MInv'
    BY <2>1, ReceiveKeeps
  <2>2. ASSUME NEW t \in Task, ApplyQuote(t)
        PROVE  MInv'
    BY <2>2, ApplyKeeps
  <2>3. ASSUME NEW t \in Task, Announced(t)
        PROVE  MInv'
    BY <2>3, AnnouncedKeeps
  <2>4. ASSUME NEW t \in Task, Cancel(t)
        PROVE  MInv'
    BY <2>4, CancelKeeps
  <2>5. ASSUME NEW r \in Rule,
               \/ CreateAlert(r)
               \/ \E enabled \in BOOLEAN : SetAlertEnabled(r, enabled)
               \/ DeleteAlert(r)
               \/ RearmAlert(r)
        PROVE  MInv'
    BY <2>5, ToolsKeep
  <2>6. CASE Reload
    BY <2>6, ReloadKeeps
  <2>7. CASE ReloadFails
    BY <2>7, ReloadFailsKeeps
  <2>8. CASE Restart
    BY <2>8, RestartKeeps
  <2>9. CASE UNCHANGED vars
    BY <2>9, StutterKeeps
  <2> QED
    BY <2>1, <2>2, <2>3, <2>4, <2>5, <2>6, <2>7, <2>8, <2>9 DEF Next
<1> QED
  BY MInvInit, <1>1, PTL DEF Spec

\* Whatever order ticks waited, rules were reloaded and announcements failed in, an
\* enabled rule the table says has triggered is not armed in the engine, except
\* while it is announced or after its delivery was cancelled (AlertEngine.reload).
THEOREM TriggersAreKnown == Spec => []TriggeredIsKnown
<1>1. MInv => TriggeredIsKnown
  BY DEF MInv
<1> QED
  BY <1>1, MarketAlertsInvariance, PTL

\* Once nothing waits, no armed level rule holds of the stored quote unless it is
\* excused: no delivery drops the rules behind the one it announces
\* (AlertEngine.evaluate).
THEOREM LevelsAreNotMissed == Spec => []NoMissedLevel
<1>1. MInv => NoMissedLevel
  <2> SUFFICES ASSUME MInv, quote # None, \A t \in Task : task[t].pc # "publish",
                      NEW r \in Armed(_rules) \ excused,
                      Operator[r] \in {"gt", "lt"}, ValueFor(quote, r) # None
               PROVE  ~Hits(r, None, ValueFor(quote, r))
    BY DEF NoMissedLevel
  <2>1. \A t \in Task : ~WillLookAt(t, r)
    BY DEF WillLookAt
  <2> QED
    BY <2>1 DEF MInv, Ahead, HoldsOf
<1> QED
  BY <1>1, MarketAlertsInvariance, PTL

\* No step of any delivery takes the quote's exchange time back or loses it, although
\* a patch without an exchange time is compared in the receiver's clock
\* (MarketService._orders and _merge_quote).
THEOREM ExchangeTimeNeverGoesBack == Spec => ExchangeTimeMonotone
<1> DEFINE Later == (quote # None /\ quote' # None /\ quote.exchange_ts # None)
                       => (quote'.exchange_ts # None
                           /\ quote'.exchange_ts >= quote.exchange_ts)
<1>1. MInv /\ [Next]_vars => [Later]_vars
  <2> SUFFICES ASSUME MInv, Next
               PROVE  Later
    OBVIOUS
  <2>1. CASE UNCHANGED quote
    <3> SUFFICES ASSUME quote # None, quote.exchange_ts # None
                 PROVE  quote.exchange_ts >= quote.exchange_ts
      BY <2>1
    <3>1. quote.exchange_ts \in ExchangeTs /\ ExchangeTs \subseteq Int
      BY MarketAlertsAssumption DEF MInv, TypeOK, Quote
    <3>2. quote.exchange_ts \in Int
      BY <3>1
    <3> QED
      BY <3>2
  <2>2. ASSUME NEW t \in Task, ApplyQuote(t), ~UNCHANGED quote
        PROVE  Later
    <3>1. ~IsStale(task[t].patch) /\ quote' = Merged(task[t].patch)
      BY <2>2 DEF ApplyQuote
    <3>2. task[t].patch \in Patch
      BY <2>2 DEF ApplyQuote, MInv, Shape
    <3> QED
      BY <3>1, <3>2, MergingAdvances DEF MInv
  <2>3. CASE Restart
    BY <2>3 DEF Restart
  <2>4. \/ UNCHANGED quote \/ Restart \/ \E t \in Task : ApplyQuote(t)
    BY DEF Next, Receive, Announced, Cancel, CreateAlert, SetAlertEnabled, DeleteAlert,
           RearmAlert, Write, Reload, ReloadFails
  <2> QED
    BY <2>1, <2>2, <2>3, <2>4
<1> QED
  BY <1>1, MarketAlertsInvariance, PTL DEF Spec, ExchangeTimeMonotone
=============================================================================
