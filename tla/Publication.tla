---------------------------- MODULE Publication -----------------------------
(***************************************************************************)
(* Publication: from publish_event to the last of its side effects, by     *)
(* several tasks at once over the EventStore.  A task saves the event,     *)
(* takes it into memory, appends it to the recent journal, wakes the       *)
(* inboxes it is relevant to, broadcasts it to the SSE streams and lets    *)
(* the alert evaluator see it, which may publish an alert.triggered of its *)
(* own from within.  A task is a stack of such publications.               *)
(*                                                                         *)
(* A step reaches to the next worker-thread call: publishing on the        *)
(* subscription bus and broadcasting do not wait for anybody.              *)
(***************************************************************************)
EXTENDS EventStore, SequencesExt

CONSTANTS
    Task,         \* the tasks that publish: sources, tool calls
    Alert,        \* the generic alerts that may be created
    Owner,        \* the consumer of each alert
    OneShot,      \* the alerts created with one_shot
    Watchers,     \* the alerts whose source is the alert engine itself
    Subscriber,   \* the SSE connections
    QueueSize,    \* the length of a subscriber's queue
    Capacity,     \* RECENT_HISTORY_CAPACITY
    Condition,    \* the condition of each alert, on the one field alerts look at
    FeedEvents,   \* what the tasks publish
    MaxFeed,      \* bound: how many events the tasks publish
    MaxEnabled,   \* bound: how often alerts are created or enabled, together
    MaxFaults,    \* bound: failed calls, cancellations and crashes
    None

\* What a field of an event holds; its kind matters to comparisons.
Data == [kind : {"missing", "null", "boolean", "string", "number"}, value : Int]

Ordering == {"gt", "gte", "lt", "lte"}

ASSUME PublicationAssumption ==
    /\ Condition \in [Alert -> [event_type : STRING \cup {None},
                               operator : {"eq", "ne"} \cup Ordering, value : Data]]
    /\ Owner \in [Alert -> Consumer]
    /\ OneShot \subseteq Alert /\ Watchers \subseteq Alert
    /\ FeedEvents \subseteq [persistent : BOOLEAN, routing : Routing, type : STRING, data : Data]
    /\ {QueueSize, Capacity} \subseteq Nat \ {0}
    /\ {MaxFeed, MaxEnabled, MaxFaults} \subseteq Nat
    /\ None \notin Task \cup Alert

VARIABLES
    events,          \* every event made, its position is its id
    task,            \* per task, the stack of its publications, the current one first
    lock,            \* AlertEvaluator._locks: the task in each alert's lock
    _event_history,  \* the recent events in memory
    recent_events,   \* the journal of recent events
    woken,           \* pairs <<consumer, id>>: inbox wake-ups
    struck,          \* the ids whose publication a fault cut short
    alerts,          \* the alerts created
    enabled,         \* those of them that are enabled
    enablings,       \* how often each alert was created or enabled
    broadcasts,      \* what was broadcast, in order
    subscriber,      \* per SSE connection, its queue and what it sent
    _subscribers,    \* the broker's registry
    faults

streamVars == <<broadcasts, subscriber, _subscribers>>
alertVars == <<alerts, enabled, enablings>>
memoryVars == <<_event_history, recent_events>>
vars == <<storeVars, events, task, lock, memoryVars, woken, struck, alertVars,
          streamVars, faults>>

Id == 1..Len(events)

Event ==
    [sequence : Nat, persistent : BOOLEAN, routing : Routing,
     type : {"alert.triggered"} \cup {e.type : e \in FeedEvents}, data : Data,
     alert : Alert \cup {None}, cause : Nat]  \* of an alert.triggered

Frame ==
    [pc : {"save", "journal", "wake", "candidates", "lock", "fresh", "record"},
     id : Nat, todo : SUBSET Alert, alert : Alert \cup {None}]

TypeOK ==
    /\ StoreTypeOK
    /\ events \in Seq(Event)
    /\ task \in [Task -> Seq(Frame)]
    /\ \A p \in Task : Len(task[p]) <= 2
    /\ lock \in [Alert -> Task \cup {None}]
    /\ \A a \in Alert : lock[a] # None => \E k \in DOMAIN task[lock[a]] :
           task[lock[a]][k].alert = a /\ task[lock[a]][k].pc \in {"fresh", "record"}
    /\ {_event_history, recent_events} \subseteq Seq(Id)
    /\ Len(_event_history) <= Capacity /\ Len(recent_events) <= Capacity
    /\ woken \subseteq Consumer \X Id
    /\ struck \subseteq Id
    /\ enabled \subseteq alerts /\ alerts \subseteq Alert
    /\ enablings \in [Alert -> 0..MaxEnabled]
    /\ broadcasts \in Seq(Id)
    /\ subscriber \in [Subscriber ->
           [open : BOOLEAN, start : Nat, queue : Seq(Id), sent : Seq(Id)]]
    /\ \A s \in Subscriber : Len(subscriber[s].queue) <= QueueSize
    /\ _subscribers \subseteq {s \in Subscriber : subscriber[s].open}
    /\ faults \in 0..MaxFaults

Closed == [open |-> FALSE, start |-> 0, queue |-> <<>>, sent |-> <<>>]

Init ==
    /\ StoreInit
    /\ events = <<>>
    /\ task = [p \in Task |-> <<>>]
    /\ lock = [a \in Alert |-> None]
    /\ _event_history = <<>>
    /\ recent_events = <<>>
    /\ woken = {}
    /\ struck = {}
    /\ alerts = {}
    /\ enabled = {}
    /\ enablings = [a \in Alert |-> 0]
    /\ broadcasts = <<>>
    /\ subscriber = [s \in Subscriber |-> Closed]
    /\ _subscribers = {}
    /\ faults = 0

Fault == faults < MaxFaults /\ faults' = faults + 1

-----------------------------------------------------------------------------
(* publish_event. *)

At(p, pc) == task[p] # <<>> /\ Head(task[p]).pc = pc

Current(p) == Head(task[p]).id

Go(p, pc) == task' = [task EXCEPT ![p][1].pc = pc]

NewFrame(pc) == [pc |-> pc, id |-> Len(events) + 1, todo |-> {}, alert |-> None]

Bounded(ids) == IF Len(ids) <= Capacity THEN ids ELSE Tail(ids)

\* The synchronous head of finalize_persisted_event.
TakeIn(id) == _event_history' = Bounded(Append(_event_history, id))

\* A task publishes: a persistent event waits for its save, any other is
\* taken in at once.
PublishEvent(p, e) ==
    /\ task[p] = <<>>
    /\ Cardinality({n \in Id : events[n].alert = None}) < MaxFeed
    /\ events' = Append(events,
           [sequence |-> 0, persistent |-> e.persistent, routing |-> e.routing,
            type |-> e.type, data |-> e.data, alert |-> None, cause |-> 0])
    /\ task' = [task EXCEPT ![p] = <<NewFrame(IF e.persistent THEN "save" ELSE "journal")>>]
    /\ IF e.persistent
       THEN UNCHANGED _event_history
       ELSE TakeIn(Len(events) + 1)
    /\ UNCHANGED <<storeVars, lock, recent_events, woken, struck, alertVars, streamVars,
                   faults>>

SaveEvent(id) ==
    /\ Save(events[id].routing)
    /\ events' = [events EXCEPT ![id].sequence = nextSequence]

SaveAndTakeIn(p) ==
    /\ At(p, "save")
    /\ SaveEvent(Current(p))
    /\ TakeIn(Current(p))
    /\ Go(p, "journal")
    /\ UNCHANGED <<lock, recent_events, woken, struck, alertVars, streamVars, faults>>

\* The locks when a task has left its own (async with).
Released(p) == [a \in Alert |-> IF lock[a] = p THEN None ELSE lock[a]]

\* A failed save raises: out of publish_event, and out of an evaluation, whose
\* own event is published all the same.
SaveFails(p) ==
    /\ At(p, "save")
    /\ Fault
    /\ task' = [task EXCEPT ![p] = <<>>]
    /\ lock' = Released(p)
    /\ struck' = struck \cup {Current(p)}
    /\ UNCHANGED <<storeVars, events, memoryVars, woken, alertVars, streamVars>>

AppendRecentEvent(p) ==
    /\ At(p, "journal")
    /\ \/ /\ recent_events' = Bounded(Append(recent_events, Current(p)))
          /\ UNCHANGED faults
       \/ Fault /\ UNCHANGED recent_events
    /\ Go(p, "wake")
    /\ UNCHANGED <<storeVars, events, lock, _event_history, woken, struck, alertVars, streamVars>>

-----------------------------------------------------------------------------
(* Live notification. *)

\* Mutant of RelevantConsumers: only the targets are woken.
RelevantTargets(routing) ==
    IF routing = Broadcast THEN consumers ELSE consumers \cap routing.targets

RelevantConsumers(routing) == {c \in consumers : IsEventRelevant(routing, c)}

Full(s) == Len(subscriber[s].queue) = QueueSize

\* Mutant of BroadcastEvent: a full queue loses the event, its subscriber stays.
BroadcastOrDrop(id) ==
    /\ broadcasts' = Append(broadcasts, id)
    /\ subscriber' = [s \in Subscriber |->
           IF s \in _subscribers /\ ~Full(s)
           THEN [subscriber[s] EXCEPT !.queue = Append(@, id)]
           ELSE subscriber[s]]
    /\ UNCHANGED _subscribers

BroadcastEvent(id) ==
    /\ broadcasts' = Append(broadcasts, id)
    /\ subscriber' = [s \in Subscriber |->
           IF s \in _subscribers /\ ~Full(s)
           THEN [subscriber[s] EXCEPT !.queue = Append(@, id)]
           ELSE subscriber[s]]
    /\ _subscribers' = {s \in _subscribers : ~Full(s)}

\* Mutant of AfterBroadcast: alert.triggered events are evaluated as well.
AfterBroadcastAlways(p) == "candidates"

\* alert.triggered events are never evaluated.
AfterBroadcast(p) == IF events[Current(p)].alert = None THEN "candidates" ELSE "done"

\* The end of a publication: a task is done, an evaluation goes on to record.
Proceed(p, pc) ==
    task' = [task EXCEPT ![p] =
        IF pc # "done" THEN <<[Head(@) EXCEPT !.pc = pc]>> \o Tail(@)
        ELSE Tail(@)]

Wake(p) ==
    LET id == Current(p) IN
    /\ At(p, "wake")
    /\ \/ /\ woken' = woken \cup
                 (IF events[id].persistent
                  THEN RelevantConsumers(events[id].routing) \X {id}
                  ELSE {})
          /\ UNCHANGED <<struck, faults>>
       \/ /\ events[id].persistent
          /\ Fault
          /\ struck' = struck \cup {id}
          /\ UNCHANGED woken
    /\ BroadcastEvent(id)
    /\ Proceed(p, AfterBroadcast(p))
    /\ UNCHANGED <<storeVars, events, lock, memoryVars, alertVars>>

-----------------------------------------------------------------------------
(* AlertEvaluator.evaluate. *)

\* The next of the candidates, or the end of the publication.
Evaluate(p, todo) ==
    IF todo = {}
    THEN task' = [task EXCEPT ![p] = Tail(@)]
    ELSE \E a \in todo :
            task' = [task EXCEPT ![p][1] =
                [@ EXCEPT !.pc = "lock", !.todo = todo \ {a}, !.alert = a]]

\* An exception of a store call ends the evaluation, not the publication.
EvaluationFails(p) ==
    /\ At(p, "candidates") \/ At(p, "fresh") \/ At(p, "record")
    /\ Fault
    /\ task' = [task EXCEPT ![p] = Tail(@)]
    /\ lock' = Released(p)
    /\ UNCHANGED <<storeVars, events, memoryVars, woken, struck, alertVars, streamVars>>

Numeric(v) == v.kind = "number"

\* Equality is that of values of one kind; ordering is for numbers.
compare_values(observed, operator, expected) ==
    \/ operator = "eq" /\ observed = expected
    \/ operator = "ne" /\ observed # expected
    \/ /\ operator \in Ordering /\ Numeric(observed) /\ Numeric(expected)
       /\ \/ operator \in {"gt", "gte"} /\ observed.value > expected.value
          \/ operator \in {"lt", "lte"} /\ observed.value < expected.value
          \/ operator \in {"gte", "lte"} /\ observed.value = expected.value

\* A field that is not there meets no condition, not even "ne".
alert_matches(a, e) ==
    /\ Condition[a].event_type \in {None, e.type}
    /\ e.data.kind # "missing"
    /\ compare_values(e.data, Condition[a].operator, Condition[a].value)

\* The field as an alert.triggered event has it: the operator of the alert.
AlertTriggeredData == [kind |-> "string", value |-> 0]

Sourced(id) == IF events[id].alert = None THEN Alert \ Watchers ELSE Watchers

ListAlerts(p) ==
    /\ At(p, "candidates")
    /\ Evaluate(p, {a \in enabled \cap Sourced(Current(p)) :
                       alert_matches(a, events[Current(p)])})
    /\ UNCHANGED <<storeVars, events, lock, memoryVars, woken, struck, alertVars,
                   streamVars, faults>>

AcquireLock(p) ==
    LET a == Head(task[p]).alert IN
    /\ At(p, "lock")
    /\ lock[a] = None
    /\ lock' = [lock EXCEPT ![a] = p]
    /\ Go(p, "fresh")
    /\ UNCHANGED <<storeVars, events, memoryVars, woken, struck, alertVars, streamVars,
                   faults>>

\* Mutant of StillEnabled: the candidate is trusted.
StillListed(a) == a \in alerts

StillEnabled(a) == a \in enabled

\* The alert.triggered event is published from here, and the alert's lock kept.
GetAlert(p) ==
    LET a == Head(task[p]).alert IN
    /\ At(p, "fresh")
    /\ IF StillEnabled(a)
       THEN /\ events' = Append(events,
                   [sequence |-> 0, persistent |-> TRUE,
                    routing |-> [targets |-> {Owner[a]}, topics |-> {}],
                    type |-> "alert.triggered", data |-> AlertTriggeredData, alert |-> a, cause |-> Current(p)])
            /\ task' = [task EXCEPT ![p] =
                   <<NewFrame("save"), [Head(@) EXCEPT !.pc = "record"]>>]
            /\ UNCHANGED lock
       ELSE /\ Evaluate(p, Head(task[p]).todo)
            /\ lock' = Released(p)
            /\ UNCHANGED events
    /\ UNCHANGED <<storeVars, memoryVars, woken, struck, alertVars, streamVars, faults>>

RecordTrigger(a) ==
    /\ enabled' = IF a \in OneShot THEN enabled \ {a} ELSE enabled
    /\ UNCHANGED <<alerts, enablings>>

RecordAlertTrigger(p) ==
    /\ At(p, "record")
    /\ RecordTrigger(Head(task[p]).alert)
    /\ Evaluate(p, Head(task[p]).todo)
    /\ lock' = Released(p)
    /\ UNCHANGED <<storeVars, events, memoryVars, woken, struck, streamVars, faults>>

-----------------------------------------------------------------------------
(* Alert tools. *)

\* The bound on creations and enablings, over all alerts.
MayEnable ==
    Cardinality({e \in Alert \X (1..MaxEnabled) : e[2] <= enablings[e[1]]}) < MaxEnabled

\* What validate_alert_definition lets through: an ordering needs a number.
Valid(c) == c.value.kind # "missing" /\ (c.operator \in Ordering => Numeric(c.value))

CreateAlert(a) ==
    /\ a \notin alerts
    /\ Valid(Condition[a])
    /\ Owner[a] \in consumers
    /\ MayEnable
    /\ alerts' = alerts \cup {a}
    /\ enabled' = enabled \cup {a}
    /\ enablings' = [enablings EXCEPT ![a] = @ + 1]
    /\ UNCHANGED <<storeVars, events, task, lock, memoryVars, woken, struck, streamVars,
                   faults>>

EnableAlert(a) ==
    /\ a \in alerts \ enabled
    /\ MayEnable
    /\ enabled' = enabled \cup {a}
    /\ enablings' = [enablings EXCEPT ![a] = @ + 1]
    /\ UNCHANGED <<storeVars, events, task, lock, memoryVars, woken, struck, alerts,
                   streamVars, faults>>

DisableAlert(a) ==
    /\ a \in enabled
    /\ enabled' = enabled \ {a}
    /\ UNCHANGED <<storeVars, events, task, lock, memoryVars, woken, struck, alerts,
                   enablings, streamVars, faults>>

-----------------------------------------------------------------------------
(* SSE connections. *)

Subscribe(s) ==
    /\ ~subscriber[s].open
    /\ subscriber' = [subscriber EXCEPT ![s].open = TRUE, ![s].start = Len(broadcasts)]
    /\ _subscribers' = _subscribers \cup {s}
    /\ UNCHANGED <<storeVars, events, task, lock, memoryVars, woken, struck, alertVars,
                   broadcasts, faults>>

SendLine(s) ==
    /\ subscriber[s].open
    /\ subscriber[s].queue # <<>>
    /\ subscriber' = [subscriber EXCEPT ![s].queue = Tail(@),
                                        ![s].sent = Append(@, Head(subscriber[s].queue))]
    /\ UNCHANGED <<storeVars, events, task, lock, memoryVars, woken, struck, alertVars,
                   broadcasts, _subscribers, faults>>

Disconnect(s) ==
    /\ subscriber[s].open
    /\ subscriber' = [subscriber EXCEPT ![s] = Closed]
    /\ _subscribers' = _subscribers \ {s}
    /\ UNCHANGED <<storeVars, events, task, lock, memoryVars, woken, struck, alertVars,
                   broadcasts, faults>>

-----------------------------------------------------------------------------
(* Faults. *)

\* The task is cancelled while it waits; the worker thread may still commit.
Cancel(p) ==
    /\ task[p] # <<>>
    /\ Fault
    /\ \/ /\ At(p, "save")
          /\ SaveEvent(Current(p))
          /\ UNCHANGED <<recent_events, alertVars>>
       \/ /\ At(p, "journal")
          /\ recent_events' = Bounded(Append(recent_events, Current(p)))
          /\ UNCHANGED <<storeVars, events, alertVars>>
       \/ /\ At(p, "record")
          /\ RecordTrigger(Head(task[p]).alert)
          /\ UNCHANGED <<storeVars, events, recent_events>>
       \/ UNCHANGED <<storeVars, events, recent_events, alertVars>>
    /\ task' = [task EXCEPT ![p] = <<>>]
    /\ lock' = Released(p)
    /\ struck' = struck \cup {Current(p)}
    /\ UNCHANGED <<_event_history, woken, streamVars>>

\* Mutant of Restored: the newest first.
RestoredReversed == Reverse(recent_events)

Restored == recent_events

\* The process ends and starts again: the tables stay, the history is read back
\* from the journal, the connections are gone.
Restart ==
    /\ Fault
    /\ struck' = struck \cup {Current(p) : p \in {q \in Task : task[q] # <<>>}}
    /\ task' = [p \in Task |-> <<>>]
    /\ lock' = [a \in Alert |-> None]
    /\ _event_history' = Restored
    /\ subscriber' = [s \in Subscriber |-> Closed]
    /\ _subscribers' = {}
    /\ UNCHANGED <<storeVars, events, recent_events, woken, alertVars, broadcasts>>

-----------------------------------------------------------------------------
Step(p) ==
    \/ SaveAndTakeIn(p)
    \/ SaveFails(p)
    \/ AppendRecentEvent(p)
    \/ Wake(p)
    \/ ListAlerts(p)
    \/ AcquireLock(p)
    \/ GetAlert(p)
    \/ RecordAlertTrigger(p)
    \/ EvaluationFails(p)

Tools ==
    \/ \E a \in Alert : CreateAlert(a) \/ EnableAlert(a) \/ DisableAlert(a)
    \/ \E s \in Subscriber : Subscribe(s) \/ SendLine(s) \/ Disconnect(s)

Registration ==
    /\ \/ \E c \in Consumer : c \notin consumers /\ RegisterConsumer(c)
       \/ \E c \in Consumer, t \in Topic : t \notin consumer_topics[c] /\ AddTopic(c, t)
    /\ UNCHANGED <<events, task, lock, memoryVars, woken, struck, alertVars, streamVars,
                   faults>>

Next ==
    \/ \E p \in Task, e \in FeedEvents : PublishEvent(p, e)
    \/ \E p \in Task : Step(p) \/ Cancel(p)
    \/ Tools
    \/ Registration
    \/ Restart

Spec == Init /\ [][Next]_vars

-----------------------------------------------------------------------------
(***************************************************************************)
(* Properties.                                                             *)
(***************************************************************************)

\* Every consumer that is owed an event was woken for it, once the publication
\* is past that step and no fault cut it short: the relevance computed after
\* the commit covers the rows written in it.
OwedAreWoken ==
    /\ TypeOK
    /\ \A row \in consumer_event_state, n \in Id :
           \/ events[n].sequence # row[2]
           \/ n \in struck
           \/ \E p \in Task, k \in 1..2 :
                 /\ k <= Len(task[p])
                 /\ task[p][k].id = n
                 /\ task[p][k].pc \in {"save", "journal", "wake"}
           \/ <<row[1], n>> \in woken

Triggered(a) == Cardinality({n \in Id : events[n].alert = a /\ events[n].sequence > 0})

\* A one-shot alert fires once for each time it was enabled, however many tasks
\* publish matching events at once, unless a fault parts trigger and record.
OneTriggerPerEnabling ==
    \A a \in OneShot : Triggered(a) <= enablings[a] + faults

\* A stream has no gaps: what a connection sent and still holds is what was
\* broadcast since it subscribed, all of it while it is registered.
StreamsAreGapless ==
    \A s \in Subscriber :
        LET line == subscriber[s].sent \o subscriber[s].queue
            since == SubSeq(broadcasts, subscriber[s].start + 1, Len(broadcasts))
        IN  /\ IsPrefix(line, since)
            /\ s \in _subscribers => line = since

\* The connections implement the stream promise: over queues that fill up, dropped
\* registrations, reconnects and restarts, each line a client is sent is the next one
\* that was broadcast since it connected, and nothing it was sent is taken back.
Live == INSTANCE LiveStream WITH
    Listener <- Subscriber,
    said <- broadcasts,
    listening <- {s \in Subscriber : subscriber[s].open},
    from <- [s \in Subscriber |-> subscriber[s].start],
    heard <- [s \in Subscriber |-> subscriber[s].sent]

StreamsKeepPromise == Live!Spec

\* In the history, before and after a restart, in the journal and on the streams
\* an alert.triggered event follows the event that caused it.
CausesComeFirst ==
    \A order \in {_event_history, recent_events, broadcasts} :
        \A j \in DOMAIN order : \A i \in 1..(j - 1) : events[order[i]].cause # order[j]

\* Who holds an alert's lock never waits for a lock, its own included: a trigger
\* published from inside an evaluation is not evaluated in turn.
HoldersNeverWait == \A a \in Alert : lock[a] # None => ~At(lock[a], "lock")
=============================================================================
