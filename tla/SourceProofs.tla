------------------------------ MODULE SourceProofs ------------------------------
(***************************************************************************)
(* Proofs about the sources of data.  The lifecycle of a source, for any   *)
(* number of concurrent control calls and of tasks: no task is left alive  *)
(* out of everybody's reach, and what a stop or a restart answers is true. *)
(* The HTTP poller, for any number of items and faults: what is recorded   *)
(* as seen was published, and each repeated publication has its fault.     *)
(* The Fyers market data feed, for any number of instruments, sessions,    *)
(* calls and faults: a quote is its instrument's own, and the market       *)
(* service catches up with the exchange.                                   *)
(***************************************************************************)
EXTENDS SourceManager, HttpPoller, FyersFeed, FiniteSetTheorems, SequenceTheorems, TLAPS

\* The restarts that wait for a task: each will create a stop event when it ends.
WaitingRestarts == {c \in Call : call[c].pc = "awaiting" /\ call[c].op = "restart"}

EventsSuffice == stop_event + Cardinality(WaitingRestarts) <= MaxEvents

Reachable == \A r \in Run : Alive(r) => r = task \/ r \in cancelled

\* A call names the task it took down, which exists, and once the call answers is
\* done; before that it names none.
WaitsTruly(c) ==
    /\ call[c].pc \in {"idle", "window"} => call[c].waits = None
    /\ call[c].pc = "awaiting" => call[c].waits # None
    /\ call[c].waits # None => phase[call[c].waits] # "none"
    /\ call[c].pc = "answered" /\ call[c].waits # None => phase[call[c].waits] = "done"

StopIsNoted == operator_stopped => intent \in {"operator_stop", "application_shutdown"}

MInv ==
    /\ TypeOK
    /\ EventsSuffice
    /\ Reachable
    /\ \A c \in Call : WaitsTruly(c)
    /\ StopIsNoted

\* Nothing runs and nobody waits at first.
LEMMA MInvInit == Init => MInv
<1> SUFFICES ASSUME Init
             PROVE  MInv
  OBVIOUS
<1>1. TypeOK
  <2>1. IdleCall \in CallState
    BY DEF IdleCall, CallState
  <2>2. call \in [Call -> CallState]
    BY <2>1 DEF Init
  <2>3. /\ stop_event \in 1..MaxEvents
        /\ listens \in [Run -> 0..MaxEvents]
    BY SourceManagerAssumption DEF Init, Run
  <2> QED
    BY <2>2, <2>3 DEF Init, TypeOK, Phase, None
<1>2. EventsSuffice
  <2>1. WaitingRestarts = {}
    BY DEF Init, WaitingRestarts, IdleCall
  <2> QED
    BY <2>1, FS_EmptySet, SourceManagerAssumption DEF Init, EventsSuffice
<1>3. Reachable /\ StopIsNoted
  BY DEF Init, Reachable, Alive, StopIsNoted
<1>4. \A c \in Call : WaitsTruly(c)
  BY DEF Init, WaitsTruly, IdleCall
<1> QED
  BY <1>1, <1>2, <1>3, <1>4 DEF MInv

\* What start() of the task manager does: the task it may create is a new one, and
\* every other stays what it was.
LEMMA StartTaskFacts ==
    ASSUME MInv, NEW registered \in Run \cup {None}, NEW event \in 1..MaxEvents,
           StartTask(registered, event)
    PROVE  /\ task' \in Run \cup {None}
           /\ phase' \in [Run -> Phase]
           /\ listens' \in [Run -> 0..MaxEvents]
           /\ \A r \in Run : phase[r] # "none" => phase'[r] = phase[r]
           /\ registered # None => task' = registered
           /\ \A r \in Run : phase'[r] # phase[r] => r = task'
<1> USE DEF MInv, TypeOK, Phase
<1>1. CASE registered # None /\ task' = registered /\ UNCHANGED <<phase, listens>>
  BY <1>1
<1>2. CASE /\ registered = None
           /\ \E r \in Run :
                 /\ \A q \in Run : phase[q] = "none" <=> q >= r
                 /\ task' = r
                 /\ phase' = [phase EXCEPT ![r] = "created"]
                 /\ listens' = [listens EXCEPT ![r] = event]
  <2>1. PICK r \in Run :
           /\ \A q \in Run : phase[q] = "none" <=> q >= r
           /\ task' = r
           /\ phase' = [phase EXCEPT ![r] = "created"]
           /\ listens' = [listens EXCEPT ![r] = event]
    BY <1>2
  <2>2. phase[r] = "none"
    BY <2>1, SourceManagerAssumption DEF Run
  <2>3. event \in 0..MaxEvents
    BY SourceManagerAssumption
  <2> QED
    BY <1>2, <2>1, <2>2, <2>3
<1> QED
  BY <1>1, <1>2 DEF StartTask

\* A call that changes alone keeps the others' words, as long as no phase goes back.
LEMMA OthersKeepTheirWord ==
    ASSUME MInv, NEW c \in Call,
           \A d \in Call : d # c => call'[d] = call[d],
           \A r \in Run : /\ phase[r] # "none" => phase'[r] # "none"
                          /\ phase[r] = "done" => phase'[r] = "done"
    PROVE  \A d \in Call : d # c => WaitsTruly(d)'
BY DEF MInv, TypeOK, CallState, WaitsTruly

\* The number of events a step leaves to the restarts that wait.
LEMMA EventsKept ==
    ASSUME MInv, NEW c \in Call, call' \in [Call -> CallState],
           \A d \in Call : d # c => call'[d] = call[d],
           \/ stop_event' = stop_event /\ c \notin WaitingRestarts'
           \/ stop_event' = stop_event /\ MayUseEvent
           \/ stop_event' = stop_event + 1 /\ MayUseEvent /\ c \notin WaitingRestarts'
           \/ stop_event' = stop_event + 1 /\ c \in WaitingRestarts \ WaitingRestarts'
    PROVE  EventsSuffice' /\ stop_event' \in 1..MaxEvents /\ stop_event' >= stop_event
<1>1. IsFiniteSet(WaitingRestarts) /\ IsFiniteSet(WaitingRestarts')
  <2>1. WaitingRestarts \subseteq Call /\ WaitingRestarts' \subseteq Call
    BY DEF WaitingRestarts
  <2> QED
    BY <2>1, SourceManagerAssumption, FS_Subset
<1>2. /\ WaitingRestarts' \ {c} = WaitingRestarts \ {c}
  BY DEF WaitingRestarts
<1> DEFINE n == Cardinality(WaitingRestarts)
           m == Cardinality(WaitingRestarts')
<1>3. n \in Nat /\ m \in Nat
  BY <1>1, FS_CardinalityType
<1>4. /\ WaitingRestarts' \subseteq WaitingRestarts \cup {c}
      /\ c \notin WaitingRestarts' => WaitingRestarts' \subseteq WaitingRestarts
      /\ c \in WaitingRestarts \ WaitingRestarts' => WaitingRestarts' = WaitingRestarts \ {c}
  BY <1>2
<1>5. m <= n + 1
  <2>1. IsFiniteSet(WaitingRestarts \cup {c}) /\ Cardinality(WaitingRestarts \cup {c}) <= n + 1
    <3>1. IsFiniteSet(WaitingRestarts \cup {c})
      BY <1>1, FS_AddElement
    <3>2. CASE c \in WaitingRestarts
      <4>1. WaitingRestarts \cup {c} = WaitingRestarts
        BY <3>2
      <4> QED
        BY <1>3, <3>1, <4>1
    <3>3. CASE c \notin WaitingRestarts
      BY <1>1, <1>3, <3>1, <3>3, FS_AddElement
    <3> QED
      BY <3>2, <3>3
  <2>2. m <= Cardinality(WaitingRestarts \cup {c})
    BY <1>4, <2>1, FS_Subset
  <2>3. Cardinality(WaitingRestarts \cup {c}) \in Nat
    BY <2>1, FS_CardinalityType
  <2> QED
    BY <1>3, <2>1, <2>2, <2>3
<1>6. c \notin WaitingRestarts' => m <= n
  BY <1>1, <1>4, FS_Subset
<1>7. c \in WaitingRestarts \ WaitingRestarts' => m = n - 1
  BY <1>1, <1>4, FS_RemoveElement
<1>8. stop_event \in 1..MaxEvents /\ MaxEvents \in Nat /\ stop_event + n <= MaxEvents
  BY SourceManagerAssumption DEF MInv, TypeOK, EventsSuffice
<1>9. MayUseEvent => stop_event + n < MaxEvents
  BY DEF MayUseEvent, WaitingRestarts
<1> HIDE DEF n, m
<1>10. stop_event' + m <= MaxEvents /\ stop_event' >= stop_event
  BY <1>3, <1>5, <1>6, <1>7, <1>8, <1>9
<1>11. stop_event' \in 1..MaxEvents
  BY <1>3, <1>8, <1>10
<1> QED
  BY <1>10, <1>11 DEF EventsSuffice, m

-----------------------------------------------------------------------------
(* The handlers. *)

\* An answer keeps what its call waited for.
LEMMA AnswerFacts ==
    ASSUME MInv, NEW c \in Call, NEW op \in {"start", "stop", "restart"},
           NEW result \in {"started", "already_running", "not_ready", "unknown",
                           "stopped", "restarted"},
           Answer(c, op, result)
    PROVE  /\ call' \in [Call -> CallState]
           /\ call'[c].pc = "answered" /\ call'[c].waits = call[c].waits
           /\ \A d \in Call : d # c => call'[d] = call[d]
           /\ c \notin WaitingRestarts'
<1>1. call \in [Call -> CallState]
  BY DEF MInv, TypeOK
<1>2. /\ call'[c].pc = "answered" /\ call'[c].waits = call[c].waits
      /\ \A d \in Call : d # c => call'[d] = call[d]
  BY <1>1 DEF CallState, Answer
<1>3. call'[c] \in CallState
  BY <1>1 DEF CallState, Answer
<1>4. call' \in [Call -> CallState]
  <2>1. call' = [d \in Call |-> call'[d]]
    BY <1>1 DEF Answer
  <2>2. \A d \in Call : call'[d] \in CallState
    BY <1>1, <1>2, <1>3
  <2> QED
    BY <2>1, <2>2
<1> QED
  BY <1>1, <1>2, <1>4 DEF WaitingRestarts

\* A call that takes the live task down names it.
LEMMA AwaitFacts ==
    ASSUME MInv, NEW c \in Call, NEW op \in {"stop", "restart"}, AwaitTask(c, op)
    PROVE  /\ call' \in [Call -> CallState]
           /\ call'[c].pc = "awaiting" /\ call'[c].waits = task /\ call'[c].op = op
           /\ \A d \in Call : d # c => call'[d] = call[d]
           /\ task \in Run /\ Alive(task) /\ task' = None
           /\ cancelled' = cancelled \cup {task}
           /\ UNCHANGED <<phase, listens, stop_event>>
<1>1. task \in Run
  BY DEF MInv, TypeOK, AwaitTask, TaskRunning
<1> DEFINE waiting == [IdleCall EXCEPT !.pc = "awaiting", !.op = op, !.waits = task]
<1>2. IdleCall \in CallState
  BY DEF IdleCall, CallState
<1>3. /\ waiting \in CallState
      /\ waiting.pc = "awaiting" /\ waiting.waits = task /\ waiting.op = op
  BY <1>1, <1>2 DEF CallState
<1>4. call' = [call EXCEPT ![c] = waiting]
  BY DEF AwaitTask
<1> HIDE DEF waiting
<1> QED
  BY <1>1, <1>3, <1>4 DEF MInv, TypeOK, AwaitTask, TaskRunning

\* A handler that starts a task with a fresh event, once what was registered has
\* ended or was forgotten, leaves the invariant.
LEMMA StartKeeps ==
    ASSUME MInv, NEW c \in Call, NEW registered \in {task, None},
           StartTask(registered, stop_event'), FreshEvent,
           registered = task \/ ~TaskRunning,
           NEW op \in {"start", "restart"}, NEW result \in {"started", "restarted"},
           Answer(c, op, result),
           call[c].pc = "awaiting" => call[c].op = "restart" /\ ~Alive(call[c].waits),
           call[c].pc \in {"idle", "awaiting"},
           call[c].pc = "idle" => MayUseEvent,
           operator_stopped' \in {FALSE, operator_stopped},
           intent' = "restart" => operator_stopped' = FALSE,
           intent' \in {"restart", intent},
           signalled' \subseteq signalled \cup {stop_event},
           UNCHANGED <<sourceVars, ownVars, cancelled>>
    PROVE  MInv'
<1> USE DEF MInv, TypeOK
<1>1. /\ call' \in [Call -> CallState]
      /\ call'[c].pc = "answered" /\ call'[c].waits = call[c].waits
      /\ \A d \in Call : d # c => call'[d] = call[d]
      /\ c \notin WaitingRestarts'
  BY AnswerFacts
<1>2. EventsSuffice' /\ stop_event' \in 1..MaxEvents /\ stop_event' >= stop_event
  <2>1. stop_event' = stop_event + 1
    BY DEF FreshEvent
  <2>2. MayUseEvent \/ c \in WaitingRestarts \ WaitingRestarts'
    BY <1>1 DEF WaitingRestarts
  <2> QED
    BY <1>1, <2>1, <2>2, EventsKept
<1>3. /\ task' \in Run \cup {None}
      /\ phase' \in [Run -> Phase]
      /\ listens' \in [Run -> 0..MaxEvents]
      /\ \A r \in Run : phase[r] # "none" => phase'[r] = phase[r]
      /\ registered # None => task' = registered
      /\ \A r \in Run : phase'[r] # phase[r] => r = task'
  <2>1. registered \in Run \cup {None} /\ stop_event' \in 1..MaxEvents
    BY <1>2
  <2> QED
    BY <2>1, StartTaskFacts
<1>4. TypeOK'
  <2>1. signalled' \subseteq 1..stop_event'
    BY <1>2, SourceManagerAssumption
  <2> QED
    BY <1>1, <1>2, <1>3, <2>1 DEF sourceVars, ownVars
<1>5. Reachable'
  <2> SUFFICES ASSUME NEW r \in Run, Alive(r)', r # task'
               PROVE  r \in cancelled
    BY DEF Reachable
  <2>1. Alive(r)
    BY <1>3 DEF Alive
  <2>2. r = task \/ r \in cancelled
    BY <2>1 DEF Reachable
  <2>3. r # task
    BY <1>3, <2>1 DEF TaskRunning, None, Run
  <2> QED
    BY <2>2, <2>3
<1>6. \A d \in Call : d # c => WaitsTruly(d)'
  BY <1>1, <1>3, OthersKeepTheirWord
<1>7. WaitsTruly(c)'
  <2>1. WaitsTruly(c) /\ call[c].waits \in Run \cup {None}
    BY DEF CallState
  <2>2. call[c].waits # None => phase[call[c].waits] = "done"
    BY <2>1 DEF WaitsTruly, Alive, Phase
  <2> QED
    BY <1>1, <1>3, <2>1, <2>2 DEF WaitsTruly
<1>8. StopIsNoted'
  BY DEF StopIsNoted
<1> QED
  BY <1>2, <1>4, <1>5, <1>6, <1>7, <1>8

\* A handler that starts nothing and takes nothing down only answers.
LEMMA AnswerKeeps ==
    ASSUME MInv, NEW c \in Call, NEW op \in {"start", "stop"},
           NEW result \in {"already_running", "not_ready", "unknown", "stopped"},
           Answer(c, op, result),
           call[c].pc = "awaiting" => ~Alive(call[c].waits),
           task' = task \/ (task' = None /\ ~TaskRunning),
           StopIsNoted', operator_stopped' \in BOOLEAN,
           intent' \in {"none", "operator_stop", "restart", "application_shutdown"},
           signalled' \subseteq signalled \cup {stop_event},
           UNCHANGED <<sourceVars, ownVars, stop_event, phase, listens, cancelled>>
    PROVE  MInv'
<1> USE DEF MInv, TypeOK
<1>1. /\ call' \in [Call -> CallState]
      /\ call'[c].pc = "answered" /\ call'[c].waits = call[c].waits
      /\ \A d \in Call : d # c => call'[d] = call[d]
      /\ c \notin WaitingRestarts'
  BY AnswerFacts
<1>2. EventsSuffice'
  BY <1>1, EventsKept
<1>3. TypeOK'
  BY <1>1, SourceManagerAssumption DEF sourceVars, ownVars
<1>4. Reachable'
  BY DEF Reachable, Alive, TaskRunning, None, Run
<1>5. \A d \in Call : d # c => WaitsTruly(d)'
  BY <1>1, OthersKeepTheirWord
<1>6. WaitsTruly(c)'
  <2>1. /\ WaitsTruly(c) /\ call[c].waits \in Run \cup {None}
        /\ call[c].pc \in {"idle", "window", "awaiting", "answered"}
    BY DEF CallState
  <2> QED
    BY <1>1, <2>1 DEF WaitsTruly, Alive, Phase
<1> QED
  BY <1>2, <1>3, <1>4, <1>5, <1>6

\* A handler that takes the live task down has it cancelled, so it stays within reach.
LEMMA AwaitKeeps ==
    ASSUME MInv, NEW c \in Call, NEW op \in {"stop", "restart"}, AwaitTask(c, op),
           op = "restart" => MayUseEvent,
           StopIsNoted', operator_stopped' \in BOOLEAN,
           intent' \in {"none", "operator_stop", "restart", "application_shutdown"},
           signalled' \subseteq signalled \cup {stop_event},
           UNCHANGED <<sourceVars, ownVars>>
    PROVE  MInv'
<1> USE DEF MInv, TypeOK
<1>1. /\ call' \in [Call -> CallState]
      /\ call'[c].pc = "awaiting" /\ call'[c].waits = task /\ call'[c].op = op
      /\ \A d \in Call : d # c => call'[d] = call[d]
      /\ task \in Run /\ Alive(task) /\ task' = None
      /\ cancelled' = cancelled \cup {task}
      /\ UNCHANGED <<phase, listens, stop_event>>
  BY AwaitFacts
<1>2. EventsSuffice'
  <2>1. MayUseEvent \/ c \notin WaitingRestarts'
    BY <1>1 DEF WaitingRestarts
  <2> QED
    BY <1>1, <2>1, EventsKept
<1>3. TypeOK'
  <2>1. cancelled' \subseteq {r \in Run : phase'[r] # "none"}
    BY <1>1 DEF Alive
  <2>2. signalled' \subseteq 1..stop_event'
    BY <1>1, SourceManagerAssumption
  <2> QED
    BY <1>1, <2>1, <2>2 DEF sourceVars, ownVars
<1>4. Reachable'
  BY <1>1 DEF Reachable, Alive
<1>5. \A d \in Call : d # c => WaitsTruly(d)'
  BY <1>1, OthersKeepTheirWord
<1>6. WaitsTruly(c)'
  BY <1>1 DEF WaitsTruly, Alive, None, Run
<1> QED
  BY <1>2, <1>3, <1>4, <1>5, <1>6

\* Every step of a handler keeps the invariant.
LEMMA HandlerKeeps ==
    ASSUME MInv, NEW c \in Call, Handler(c)
    PROVE  MInv'
<1> USE DEF MInv, TypeOK
<1>1. CASE StartSource(c)
  <2>1. CASE /\ ready /\ ~TaskRunning
             /\ MayUseEvent
             /\ FreshEvent
             /\ operator_stopped' = FALSE
             /\ StartTask(task, stop_event')
             /\ Answer(c, "start", "started")
             /\ UNCHANGED cancelled
    BY <1>1, <2>1, StartKeeps DEF StartSource
  <2>2. ASSUME NEW result \in {"already_running", "not_ready", "unknown"},
               Answer(c, "start", result),
               UNCHANGED <<stop_event, operator_stopped, taskVars>>
        PROVE  MInv'
    BY <1>1, <2>2, AnswerKeeps DEF StartSource, taskVars, StopIsNoted
  <2> QED
    BY <1>1, <2>1, <2>2 DEF StartSource
<1>2. CASE StopSource(c)
  <2>1. StopIsNoted' /\ signalled' = signalled \cup {stop_event}
    BY <1>2 DEF StopSource, StopIsNoted
  <2>2. CASE call' = [call EXCEPT ![c].pc = "window", ![c].op = "stop"] /\ UNCHANGED taskVars
    <3>1. /\ call' \in [Call -> CallState]
          /\ call'[c].pc = "window" /\ call'[c].waits = call[c].waits
          /\ \A d \in Call : d # c => call'[d] = call[d]
          /\ c \notin WaitingRestarts'
      BY <2>2 DEF CallState, WaitingRestarts
    <3>2. EventsSuffice'
      BY <1>2, <3>1, EventsKept DEF StopSource
    <3>3. TypeOK'
      BY <1>2, <2>2, <3>1, SourceManagerAssumption DEF StopSource, sourceVars, ownVars, taskVars
    <3>4. Reachable'
      BY <2>2 DEF Reachable, Alive, taskVars
    <3>5. \A d \in Call : d # c => WaitsTruly(d)'
      BY <2>2, <3>1, OthersKeepTheirWord DEF taskVars
    <3>6. WaitsTruly(c)'
      BY <1>2, <2>2, <3>1 DEF StopSource, WaitsTruly, taskVars
    <3> QED
      BY <2>1, <3>2, <3>3, <3>4, <3>5, <3>6
  <2>3. CASE ~TaskRunning /\ task' = None /\ Answer(c, "stop", "stopped")
             /\ UNCHANGED <<phase, listens, cancelled>>
    BY <1>2, <2>1, <2>3, AnswerKeeps DEF StopSource
  <2> QED
    BY <1>2, <2>2, <2>3 DEF StopSource
<1>3. CASE CloseWindow(c)
  BY <1>3, AwaitKeeps, AnswerKeeps DEF CloseWindow, stopVars, StopIsNoted
<1>4. CASE RestartSource(c)
  <2>1. StopIsNoted'
    BY <1>4 DEF RestartSource, StopIsNoted
  <2>2. CASE AwaitTask(c, "restart")
    BY <1>4, <2>1, <2>2, AwaitKeeps DEF RestartSource
  <2>3. CASE ~TaskRunning /\ FreshEvent /\ StartTask(None, stop_event')
             /\ Answer(c, "restart", "restarted") /\ UNCHANGED cancelled
    BY <1>4, <2>3, StartKeeps DEF RestartSource
  <2> QED
    BY <1>4, <2>2, <2>3 DEF RestartSource
<1>5. CASE TaskAwaited(c)
  <2>1. CASE call[c].op = "stop"
    BY <1>5, <2>1, AnswerKeeps DEF TaskAwaited, stopVars, StopIsNoted
  <2>2. CASE call[c].op = "restart"
    BY <1>5, <2>2, StartKeeps DEF TaskAwaited, stopVars, StopIsNoted
  <2> QED
    BY <1>5, <2>1, <2>2 DEF TaskAwaited
<1>6. CASE Return(c)
  <2>1. /\ call' \in [Call -> CallState]
        /\ call'[c] = IdleCall
        /\ \A d \in Call : d # c => call'[d] = call[d]
    BY <1>6 DEF Return, IdleCall, CallState
  <2>2. c \notin WaitingRestarts'
    BY <2>1 DEF WaitingRestarts, IdleCall
  <2>3. UNCHANGED <<sourceVars, ownVars, stop_event, stopVars, taskVars>>
    BY <1>6 DEF Return
  <2>4. EventsSuffice'
    BY <2>1, <2>2, <2>3, EventsKept
  <2>5. \A d \in Call : d # c => WaitsTruly(d)'
    BY <2>1, <2>3, OthersKeepTheirWord DEF taskVars
  <2>6. WaitsTruly(c)'
    BY <2>1 DEF WaitsTruly, IdleCall
  <2> QED
    BY <2>1, <2>3, <2>4, <2>5, <2>6
    DEF sourceVars, ownVars, stopVars, taskVars, Reachable, Alive, StopIsNoted
<1> QED
  BY <1>1, <1>2, <1>3, <1>4, <1>5, <1>6 DEF Handler

-----------------------------------------------------------------------------
(* The lifespan and the tasks themselves. *)

\* start_all starts a task only where none is registered.
LEMMA StartAllKeeps ==
    ASSUME MInv, StartAll
    PROVE  MInv'
<1> USE DEF MInv, TypeOK
<1>1. UNCHANGED <<ready, lifespan, stop_event, stopVars, cancelled, ownVars, call>>
      /\ configured' = TRUE
  BY DEF StartAll
<1>2. EventsSuffice'
  BY <1>1 DEF EventsSuffice, WaitingRestarts
<1>3. StopIsNoted'
  BY <1>1 DEF StopIsNoted, stopVars
<1>4. CASE StartTask(task, stop_event)
  <2>1. /\ task' \in Run \cup {None}
        /\ phase' \in [Run -> Phase]
        /\ listens' \in [Run -> 0..MaxEvents]
        /\ \A r \in Run : phase[r] # "none" => phase'[r] = phase[r]
        /\ task # None => task' = task
        /\ \A r \in Run : phase'[r] # phase[r] => r = task'
    BY <1>4, StartTaskFacts
  <2>2. TypeOK'
    BY <1>1, <2>1 DEF stopVars, ownVars
  <2>3. Reachable'
    BY <1>1, <2>1 DEF Reachable, Alive, Run, None
  <2>4. \A c \in Call : WaitsTruly(c)'
    BY <1>1, <2>1 DEF WaitsTruly, CallState
  <2> QED
    BY <1>2, <1>3, <2>2, <2>3, <2>4
<1>5. CASE UNCHANGED <<task, phase, listens>>
  BY <1>1, <1>2, <1>3, <1>5 DEF stopVars, ownVars, Reachable, Alive, WaitsTruly
<1> QED
  BY <1>4, <1>5 DEF StartAll

\* Teardown forgets the task only after it cancelled it.
LEMMA ShutdownKeeps ==
    ASSUME MInv, Shutdown
    PROVE  MInv'
<1> USE DEF MInv, TypeOK
<1>1. /\ signalled' = signalled \cup {stop_event} /\ intent' = "application_shutdown"
      /\ task' = None /\ lifespan' = "closing"
      /\ UNCHANGED <<ready, configured, stop_event, operator_stopped, ownVars, call, phase, listens>>
  BY DEF Shutdown, SignalAll, CancelAll
<1>2. cancelled' = IF TaskRunning THEN cancelled \cup {task} ELSE cancelled
  BY DEF Shutdown, CancelAll
<1>3. EventsSuffice' /\ StopIsNoted'
  BY <1>1 DEF EventsSuffice, WaitingRestarts, StopIsNoted
<1>4. TypeOK'
  <2>1. cancelled' \subseteq {r \in Run : phase[r] # "none"}
    BY <1>2 DEF TaskRunning, Alive
  <2> QED
    BY <1>1, <2>1, SourceManagerAssumption DEF ownVars
<1>5. Reachable'
  BY <1>1, <1>2 DEF Reachable, TaskRunning, Alive, Run, None
<1>6. \A c \in Call : WaitsTruly(c)'
  BY <1>1 DEF WaitsTruly
<1> QED
  BY <1>3, <1>4, <1>5, <1>6

\* A task only moves on: it never comes back to life.
LEMMA TaskKeeps ==
    ASSUME MInv, NEW r \in Run, TaskStep(r)
    PROVE  MInv'
<1> USE DEF MInv, TypeOK
<1>1. UNCHANGED <<sourceVars, stop_event, stopVars, task, listens, cancelled, call>>
  BY DEF TaskStep, Begins, NeverBegins, HonoursEvent, IsCancelled, EndsByItself, CleansUp, Moves
<1>2. PICK from \in {"created", "running", "cleanup"}, to \in {"running", "cleanup", "done"} :
         phase[r] = from /\ phase' = [phase EXCEPT ![r] = to]
  BY DEF TaskStep, Begins, NeverBegins, HonoursEvent, IsCancelled, EndsByItself, CleansUp, Moves
<1>3. EventsSuffice' /\ StopIsNoted'
  BY <1>1 DEF EventsSuffice, WaitingRestarts, StopIsNoted, stopVars
<1>4. TypeOK'
  <2>1. auth_required' \in BOOLEAN /\ last_exit' \in {"plain", "terminal", "error"}
    BY DEF TaskStep, Begins, NeverBegins, HonoursEvent, IsCancelled, EndsByItself, CleansUp,
           NotesExit, ownVars
  <2> QED
    BY <1>1, <1>2, <2>1 DEF sourceVars, stopVars, Phase
<1>5. Reachable'
  BY <1>1, <1>2 DEF Reachable, Alive
<1>6. \A c \in Call : WaitsTruly(c)'
  BY <1>1, <1>2 DEF WaitsTruly, CallState
<1> QED
  BY <1>3, <1>4, <1>5, <1>6

\* Every step keeps the invariant.
LEMMA MInvStep == MInv /\ [Next]_vars => MInv'
<1> SUFFICES ASSUME MInv, [Next]_vars
             PROVE  MInv'
  OBVIOUS
<1>1. CASE \E c \in Call : Handler(c)
  BY <1>1, HandlerKeeps
<1>2. CASE \E r \in Run : TaskStep(r)
  BY <1>2, TaskKeeps
<1>3. CASE TeardownOver \/ ChangeReady \/ UpdateCredentials
  <2>1. UNCHANGED <<configured, stop_event, stopVars, taskVars, last_exit, call>>
    BY <1>3 DEF TeardownOver, ChangeReady, UpdateCredentials, ownVars
  <2>2. /\ {ready', auth_required'} \subseteq BOOLEAN
        /\ lifespan' \in {"serving", "closing", "closed"}
    <3>1. CASE TeardownOver
      BY <3>1 DEF TeardownOver, MInv, TypeOK, ownVars
    <3>2. CASE ChangeReady
      BY <3>2 DEF ChangeReady, MInv, TypeOK, ownVars
    <3>3. CASE UpdateCredentials
      BY <3>3 DEF UpdateCredentials, MInv, TypeOK
    <3> QED
      BY <1>3, <3>1, <3>2, <3>3
  <2>3. TypeOK'
    BY <2>1, <2>2 DEF MInv, TypeOK, stopVars, taskVars
  <2> QED
    BY <2>1, <2>3
    DEF MInv, EventsSuffice, WaitingRestarts, Reachable, Alive, WaitsTruly, StopIsNoted,
        stopVars, taskVars
<1>4. CASE UNCHANGED vars
  BY <1>4
  DEF vars, MInv, TypeOK, EventsSuffice, WaitingRestarts, Reachable, Alive, WaitsTruly,
      StopIsNoted, sourceVars, ownVars, stopVars, taskVars
<1> QED
  BY <1>1, <1>2, <1>3, <1>4, StartAllKeeps, ShutdownKeeps DEF Next

\* The invariant holds of every reachable state.
THEOREM LifecycleInvariance == Spec => []MInv
BY MInvInit, MInvStep, PTL DEF Spec

\* A live task of the source is the registered one or was cancelled: no sequence of
\* starts, stops and restarts leaves one running that nothing reaches.
THEOREM NoTaskIsOrphaned == Spec => []NoOrphan
<1>1. MInv => NoOrphan
  BY DEF MInv, Reachable, NoOrphan
<1> QED
  BY <1>1, LifecycleInvariance, PTL

\* stop_source and restart_source answer only when the task they took down is over,
\* and get_status shows a source whose last command was a stop as stopped, unless it
\* waits for a login or a failed run was the last to note its end.
THEOREM AnswersAreTrue == Spec => []AnswersAfterCleanup
<1>1. MInv => AnswersAfterCleanup
  <2> SUFFICES ASSUME MInv
               PROVE  AnswersAfterCleanup
    OBVIOUS
  <2>1. \A c \in Call : call[c].pc = "answered" /\ call[c].waits # None => ~Alive(call[c].waits)
    BY DEF MInv, WaitsTruly, Alive
  <2>2. ASSUME operator_stopped, ~TaskRunning, ~auth_required,
               last_exit \notin {"terminal", "error"}
        PROVE  StopReason \in {"operator_stop", "application_shutdown"}
    BY <2>2 DEF MInv, StopIsNoted, StopReason
  <2> QED
    BY <2>1, <2>2 DEF AnswersAfterCleanup
<1> QED
  BY <1>1, LifecycleInvariance, PTL

-----------------------------------------------------------------------------
(***************************************************************************)
(* The poller.                                                             *)
(***************************************************************************)

\* Item i can come to a publication: it is in the page in hand or in one to come.
Relevant(i) == i > created - Window \/ i \in ToSet(batch)

\* The call that records it is under way.
Recording(i) == awaits = "mark_seen" /\ i = Head(batch)

\* Published, and what comes next can publish it again without a fault.
Risk ==
    {i \in Item : /\ published[i] > 0
                  /\ \/ Relevant(i) /\ i \notin ToSet(seen_items) /\ ~Recording(i)
                     \/ awaits = "publish" /\ i = Head(batch)}

\* What a page holds lies within a window, and no item of the table is further on
\* than a window from one of the page.
WithinWindow ==
    \A i \in ToSet(batch) \cup ToSet(seen_items), k \in ToSet(batch) : i < k + Window

\* The table has no item twice, and an item that comes after another in it is not
\* older by a window.
InOrder(ids) ==
    \A a, b \in DOMAIN ids : a < b => ids[a] # ids[b] /\ ids[b] > ids[a] - Window

TableInOrder == InOrder(seen_items)

NothingUncreated ==
    /\ \A i \in Item : published[i] > 0 => i <= created
    /\ \A i \in ToSet(seen_items) \cup ToSet(batch) : i <= created

\* Who is past the publication of an item has published it.
CallsFollow == awaits \in {"mark_seen", "prune", "set_cursor"} => published[Head(batch)] > 0

PaidFor ==
    /\ IsFiniteSet(Repeats)
    /\ Cardinality(Repeats) + Cardinality(Risk) <= mishaps

PublishedInv == SeenWasPublished /\ CallsFollow

PollerInv ==
    /\ PublishedInv
    /\ WithinWindow
    /\ TableInOrder
    /\ NothingUncreated
    /\ PaidFor

\* A non-empty set of numbers has a least one.
LEMMA LeastOne ==
  ASSUME NEW S \in SUBSET Nat, S # {}
  PROVE  \E x \in S : \A y \in S : x <= y
<1>1. PICK x \in S : \A y \in S : ~(<<y, x>> \in OpToRel(<, Nat))
  BY NatLessThanWellFounded, WFMin
<1>2. \A y \in S : ~(y < x)
  BY <1>1 DEF OpToRel
<1>3. \A y \in S : x <= y
  BY <1>2
<1> QED
  BY <1>3

\* It is the one that Min picks.
LEMMA MinFacts ==
  ASSUME NEW S \in SUBSET Nat, S # {}
  PROVE  Min(S) \in S
BY LeastOne DEF Min

\* A part of a sequence holds nothing else.
LEMMA SuffixFacts ==
  ASSUME NEW S, NEW s \in Seq(S), NEW n \in 1..(Len(s) + 1)
  PROVE  /\ SubSeq(s, n, Len(s)) \in Seq(S)
         /\ Len(SubSeq(s, n, Len(s))) = Len(s) - n + 1
         /\ \A m \in 1..(Len(s) - n + 1) : SubSeq(s, n, Len(s))[m] = s[n + m - 1]
         /\ ToSet(SubSeq(s, n, Len(s))) \subseteq ToSet(s)
<1>1. /\ SubSeq(s, n, Len(s)) \in Seq(S)
      /\ Len(SubSeq(s, n, Len(s))) = Len(s) - n + 1
      /\ \A m \in 1..(Len(s) - n + 1) : SubSeq(s, n, Len(s))[m] = s[n + m - 1]
  BY SubSeqProperties
<1>2. ToSet(SubSeq(s, n, Len(s))) \subseteq ToSet(s)
  BY <1>1 DEF ToSet
<1> QED
  BY <1>1, <1>2

\* Skipping leaves a part of the page.
LEMMA SkipSeenFacts ==
  ASSUME NEW items \in Seq(Item), NEW ids
  PROVE  /\ SkipSeen(items, ids) \in Seq(Item)
         /\ ToSet(SkipSeen(items, ids)) \subseteq ToSet(items)
<1> DEFINE unseen == {n \in 1..Len(items) : items[n] \notin ToSet(ids)}
<1>1. CASE unseen = {}
  <2>1. SkipSeen(items, ids) = <<>>
    BY <1>1 DEF SkipSeen
  <2> QED
    BY <2>1 DEF ToSet
<1>2. CASE unseen # {}
  <2>1. Min(unseen) \in unseen
    <3>1. unseen \in SUBSET Nat
      OBVIOUS
    <3> HIDE DEF unseen
    <3> QED
      BY <1>2, <3>1, MinFacts
  <2>3. Min(unseen) \in 1..(Len(items) + 1)
    BY <2>1
  <2>2. SkipSeen(items, ids) = SubSeq(items, Min(unseen), Len(items))
    BY <1>2 DEF SkipSeen
  <2> HIDE DEF unseen
  <2> QED
    BY <2>2, <2>3, SuffixFacts
<1> QED
  BY <1>1, <1>2

\* The in-memory list keeps its length and gets nothing but the item.
LEMMA RememberFacts ==
  ASSUME NEW ids \in Seq(Item), Len(ids) <= SeenMax, NEW i \in Item
  PROVE  /\ Remember(ids, i) \in Seq(Item)
         /\ Len(Remember(ids, i)) <= SeenMax
         /\ ToSet(Remember(ids, i)) \subseteq ToSet(ids) \cup {i}
<1>1. SeenMax \in Nat \ {0}
  BY HttpPollerAssumption
<1>2. /\ Append(ids, i) \in Seq(Item)
      /\ Len(Append(ids, i)) = Len(ids) + 1
      /\ \A m \in 1..Len(ids) : Append(ids, i)[m] = ids[m]
      /\ Append(ids, i)[Len(ids) + 1] = i
  BY AppendProperties
<1>3. ToSet(Append(ids, i)) \subseteq ToSet(ids) \cup {i}
  BY <1>2 DEF ToSet
<1>4. CASE Len(ids) < SeenMax
  BY <1>1, <1>2, <1>3, <1>4 DEF Remember
<1>5. CASE ~(Len(ids) < SeenMax)
  <2> DEFINE s == Append(ids, i)
  <2>1. Len(s) - SeenMax + 1 \in 1..(Len(s) + 1)
    BY <1>1, <1>2, <1>5
  <2>2. Remember(ids, i) = SubSeq(s, Len(s) - SeenMax + 1, Len(s))
    BY <1>5 DEF Remember, LastOf
  <2>3. s \in Seq(Item)
    BY <1>2
  <2> HIDE DEF s
  <2>4. /\ Remember(ids, i) \in Seq(Item)
        /\ Len(Remember(ids, i)) = Len(s) - (Len(s) - SeenMax + 1) + 1
        /\ ToSet(Remember(ids, i)) \subseteq ToSet(s)
    BY <2>1, <2>2, <2>3, SuffixFacts
  <2>5. Len(Remember(ids, i)) <= SeenMax
    BY <1>1, <2>3, <2>4
  <2> QED
    BY <1>3, <2>4, <2>5 DEF s
<1> QED
  BY <1>4, <1>5

\* The page is of what the upstream lists.
LEMMA PageFacts ==
  ASSUME PollerTypeOK
  PROVE  /\ Page \in Seq(Item)
         /\ ToSet(Page) \subseteq Listed
<1>1. /\ created \in 0..MaxItems /\ Window \in Nat \ {0} /\ MaxItems \in Nat
      /\ _cursor_value \in 0..MaxItems
  BY HttpPollerAssumption DEF PollerTypeOK
<1> DEFINE a == created - Window + 1
           b == IF upstream.honoursCursor THEN _cursor_value + 1 ELSE 1
<1>2. a \in Int /\ b \in Int
  BY <1>1
<1>3. PageStart = Max({1, a, b})
  BY DEF PageStart
<1> HIDE DEF a, b
<1>4. \E x \in {1, a, b} : \A y \in {1, a, b} : x >= y
  BY <1>2
<1>5. PageStart \in {1, a, b} /\ PageStart >= 1 /\ PageStart >= a
  BY <1>3, <1>4 DEF Max
<1>6. PageStart \in Int /\ PageStart >= created - Window + 1
  BY <1>2, <1>5 DEF a
<1>7. created - PageStart + 1 \in Int
  BY <1>1, <1>6
<1>8. \A n \in 1..(created - PageStart + 1) :
         Page[n] \in Item /\ Page[n] <= created /\ Page[n] > created - Window
  <2> SUFFICES ASSUME NEW n \in 1..(created - PageStart + 1)
               PROVE  Page[n] \in Item /\ Page[n] <= created /\ Page[n] > created - Window
    OBVIOUS
  <2>1. Page[n] = IF upstream.newestFirst THEN created - n + 1 ELSE PageStart + n - 1
    BY DEF Page
  <2>2. CASE upstream.newestFirst
    BY <2>1, <2>2, <1>1, <1>5, <1>6 DEF Item
  <2>3. CASE ~upstream.newestFirst
    BY <2>1, <2>3, <1>1, <1>5, <1>6 DEF Item
  <2> QED
    BY <2>2, <2>3
<1>9. DOMAIN Page = 1..(created - PageStart + 1)
  BY DEF Page
<1>10. Page = [n \in 1..(created - PageStart + 1) |-> Page[n]]
  BY DEF Page
<1>11. Page \in Seq(Item)
  <2>1. CASE created - PageStart + 1 \in Nat
    BY <1>8, <1>10, <2>1, IsASeq
  <2>2. CASE created - PageStart + 1 < 0
    <3>1. 1..(created - PageStart + 1) = {}
      BY <2>2, <1>7
    <3>2. Page = <<>>
      BY <3>1, <1>9, <1>10
    <3> QED
      BY <3>2
  <2> QED
    BY <2>1, <2>2, <1>7
<1>12. ToSet(Page) \subseteq Listed
  BY <1>8, <1>9 DEF ToSet, Listed
<1> QED
  BY <1>11, <1>12

\* Recording an item adds it to the table and nothing else.
LEMMA MarkedFacts ==
  ASSUME NEW ids \in Seq(Item), NEW i \in Item
  PROVE  /\ Marked(ids, i) \in Seq(Item)
         /\ ToSet(Marked(ids, i)) = ToSet(ids) \cup {i}
         /\ InOrder(ids) /\ (\A k \in ToSet(ids) : k < i + Window) => InOrder(Marked(ids, i))
<1>1. CASE i \in ToSet(ids)
  BY <1>1 DEF Marked
<1>2. CASE i \notin ToSet(ids)
  <2>1. Marked(ids, i) = Append(ids, i)
    BY <1>2 DEF Marked
  <2>2. /\ Append(ids, i) \in Seq(Item)
        /\ Len(Append(ids, i)) = Len(ids) + 1
        /\ \A m \in 1..Len(ids) : Append(ids, i)[m] = ids[m]
        /\ Append(ids, i)[Len(ids) + 1] = i
    BY AppendProperties
  <2> DEFINE t == Append(ids, i)
  <2> HIDE DEF t
  <2>3. /\ t \in Seq(Item) /\ Len(t) = Len(ids) + 1
        /\ \A m \in 1..Len(ids) : t[m] = ids[m]
        /\ t[Len(ids) + 1] = i /\ t = Marked(ids, i)
    BY <2>1, <2>2 DEF t
  <2>4. DOMAIN t = 1..(Len(ids) + 1) /\ DOMAIN ids = 1..Len(ids) /\ Len(ids) \in Nat
    BY <2>3
  <2>5. ToSet(t) = ToSet(ids) \cup {i}
    <3>1. ASSUME NEW k \in ToSet(t) PROVE k \in ToSet(ids) \cup {i}
      <4>1. PICK m \in 1..(Len(ids) + 1) : k = t[m]
        BY <2>4 DEF ToSet
      <4>2. CASE m = Len(ids) + 1
        BY <4>1, <4>2, <2>3
      <4>3. CASE m # Len(ids) + 1
        <5>1. m \in 1..Len(ids)
          BY <4>3, <2>4
        <5> QED
          BY <5>1, <4>1, <2>3, <2>4 DEF ToSet
      <4> QED
        BY <4>2, <4>3
    <3>2. ASSUME NEW k \in ToSet(ids) PROVE k \in ToSet(t)
      <4>1. PICK m \in 1..Len(ids) : k = ids[m]
        BY <2>4 DEF ToSet
      <4>2. m \in 1..(Len(ids) + 1) /\ t[m] = k
        BY <4>1, <2>3, <2>4
      <4> QED
        BY <4>2, <2>4 DEF ToSet
    <3>3. i \in ToSet(t)
      <4>1. Len(ids) + 1 \in DOMAIN t
        BY <2>4
      <4> QED
        BY <4>1, <2>3 DEF ToSet
    <3> QED
      BY <3>1, <3>2, <3>3
  <2>6. ASSUME InOrder(ids), \A k \in ToSet(ids) : k < i + Window
        PROVE  InOrder(t)
    <3> SUFFICES ASSUME NEW a \in DOMAIN t, NEW b \in DOMAIN t, a < b
                 PROVE  t[a] # t[b] /\ t[b] > t[a] - Window
      BY DEF InOrder
    <3>1. a \in 1..Len(ids) /\ t[a] = ids[a] /\ ids[a] \in ToSet(ids) /\ ids[a] \in Item
      <4>1. a \in 1..Len(ids)
        BY <2>4
      <4> QED
        BY <4>1, <2>3, <2>4 DEF ToSet
    <3>2. CASE b \in 1..Len(ids)
      BY <3>1, <3>2, <2>3, <2>4, <2>6 DEF InOrder
    <3>3. CASE b \notin 1..Len(ids)
      <4>1. b = Len(ids) + 1 /\ t[b] = i
        BY <3>3, <2>3, <2>4
      <4>2. ids[a] # i /\ ids[a] < i + Window
        BY <3>1, <1>2, <2>6
      <4>3. i > ids[a] - Window
        BY <4>2, <3>1, HttpPollerAssumption DEF Item
      <4> QED
        BY <3>1, <4>1, <4>2, <4>3
    <3> QED
      BY <3>2, <3>3
  <2> QED
    BY <2>3, <2>5, <2>6
<1> QED
  BY <1>1, <1>2

\* Pruning keeps the newest rows of the table, as many as it may have.
LEMMA PrunedFacts ==
  ASSUME NEW ids \in Seq(Item)
  PROVE  /\ Pruned(ids) \in Seq(Item)
         /\ ToSet(Pruned(ids)) \subseteq ToSet(ids)
         /\ InOrder(ids) => InOrder(Pruned(ids))
         /\ \A m \in 1..Len(ids) : m > Len(ids) - DedupMax => ids[m] \in ToSet(Pruned(ids))
<1>1. DedupMax \in Nat \ {0} /\ Len(ids) \in Nat /\ DOMAIN ids = 1..Len(ids)
  BY HttpPollerAssumption
<1>2. CASE Len(ids) <= DedupMax
  <2>1. Pruned(ids) = ids
    BY <1>2 DEF Pruned
  <2> QED
    BY <2>1, <1>1 DEF ToSet
<1>3. CASE ~(Len(ids) <= DedupMax)
  <2> DEFINE n == Len(ids) - DedupMax + 1
             t == SubSeq(ids, n, Len(ids))
  <2>1. n \in 1..(Len(ids) + 1) /\ n \in Nat
    BY <1>1, <1>3
  <2>2. Pruned(ids) = t
    BY <1>3 DEF Pruned, LastOf
  <2> HIDE DEF n
  <2>3. /\ t \in Seq(Item)
        /\ Len(t) = Len(ids) - n + 1
        /\ \A m \in 1..(Len(ids) - n + 1) : t[m] = ids[n + m - 1]
        /\ ToSet(t) \subseteq ToSet(ids)
    BY <2>1, SuffixFacts
  <2> HIDE DEF t
  <2>4. DOMAIN t = 1..(Len(ids) - n + 1)
    BY <2>3
  <2>5. ASSUME InOrder(ids) PROVE InOrder(t)
    <3> SUFFICES ASSUME NEW a \in DOMAIN t, NEW b \in DOMAIN t, a < b
                 PROVE  t[a] # t[b] /\ t[b] > t[a] - Window
      BY DEF InOrder
    <3>1. n + a - 1 \in DOMAIN ids /\ n + b - 1 \in DOMAIN ids /\ n + a - 1 < n + b - 1
      BY <1>1, <2>1, <2>4
    <3>2. t[a] = ids[n + a - 1] /\ t[b] = ids[n + b - 1]
      BY <2>3, <2>4
    <3> QED
      BY <3>1, <3>2, <2>5 DEF InOrder
  <2>6. ASSUME NEW m \in 1..Len(ids), m > Len(ids) - DedupMax
        PROVE  ids[m] \in ToSet(t)
    <3>1. m - n + 1 \in 1..(Len(ids) - n + 1) /\ n + (m - n + 1) - 1 = m
      BY <2>6, <2>1, <1>1 DEF n
    <3>2. t[m - n + 1] = ids[m]
      BY <3>1, <2>3
    <3> QED
      BY <3>1, <3>2, <2>4 DEF ToSet
  <2> QED
    BY <2>2, <2>3, <2>5, <2>6
<1> QED
  BY <1>2, <1>3

\* The rows after one that may be needed again are of items less than a window away
\* from it, so it is among the newest 2 * Window - 1 rows.
LEMMA NeededIsRecent ==
  ASSUME PollerTypeOK, WithinWindow, TableInOrder, NothingUncreated,
         NEW m \in 1..Len(seen_items), Relevant(seen_items[m])
  PROVE  Len(seen_items) - m <= 2 * Window - 2
<1> DEFINE x == seen_items[m]
           n == Len(seen_items)
           later == (m + 1)..n
           near == (x - Window + 1)..(x + Window - 1)
           f == [p \in later |-> seen_items[p]]
<1>1. /\ Window \in Nat \ {0} /\ n \in Nat /\ DOMAIN seen_items = 1..n
      /\ \A p \in 1..n : seen_items[p] \in Item
      /\ created \in Nat
  BY HttpPollerAssumption DEF PollerTypeOK
<1>2. x \in Item /\ x \in Int
  BY <1>1 DEF Item
<1>3. ASSUME NEW p \in later
      PROVE  seen_items[p] \in near \ {x}
  <2>1. p \in 1..n /\ m < p
    BY <1>1
  <2>2. x # seen_items[p] /\ seen_items[p] > x - Window
    BY <2>1, <1>1 DEF TableInOrder, InOrder
  <2>3. seen_items[p] \in ToSet(seen_items) /\ seen_items[p] \in Int
    BY <2>1, <1>1 DEF ToSet, Item
  <2>4. seen_items[p] < x + Window
    <3>1. CASE x > created - Window
      <4>1. seen_items[p] <= created
        BY <2>3 DEF NothingUncreated
      <4> QED
        BY <4>1, <3>1, <2>3, <1>1, <1>2
    <3>2. CASE x \in ToSet(batch)
      BY <2>3, <3>2 DEF WithinWindow
    <3> QED
      BY <3>1, <3>2 DEF Relevant
  <2> QED
    BY <2>2, <2>3, <2>4, <1>1, <1>2
<1>4. f \in Injection(later, near \ {x})
  <2>1. f \in [later -> near \ {x}]
    BY <1>3
  <2>2. \A p, q \in later : f[p] = f[q] => p = q
    <3> SUFFICES ASSUME NEW p \in later, NEW q \in later, p # q
                 PROVE  seen_items[p] # seen_items[q]
      OBVIOUS
    <3>1. p \in 1..n /\ q \in 1..n /\ (p < q \/ q < p)
      BY <1>1
    <3> QED
      BY <3>1, <1>1 DEF TableInOrder, InOrder
  <2> QED
    BY <2>1, <2>2 DEF Injection, IsInjective
<1>5. IsFiniteSet(near \ {x}) /\ Cardinality(near \ {x}) = 2 * Window - 2
  <2>1. x - Window + 1 \in Int /\ x + Window - 1 \in Int /\ x \in near
        /\ ~(x - Window + 1 > x + Window - 1)
        /\ (x + Window - 1) - (x - Window + 1) + 1 = 2 * Window - 1
    BY <1>1, <1>2
  <2>2. IsFiniteSet(near) /\ Cardinality(near) = 2 * Window - 1
    BY <2>1, FS_Interval
  <2> HIDE DEF near
  <2>3. IsFiniteSet(near \ {x}) /\ Cardinality(near \ {x}) = (2 * Window - 1) - 1
    BY <2>1, <2>2, FS_RemoveElement
  <2> QED
    BY <2>3, <1>1
<1>6. Cardinality(later) \in Int /\ Cardinality(later) >= n - m
  <2>1. m + 1 \in Int /\ n \in Int
    BY <1>1
  <2>2. Cardinality(later) = IF m + 1 > n THEN 0 ELSE n - (m + 1) + 1
    BY <2>1, FS_Interval
  <2> QED
    BY <2>2, <1>1
<1>7. Cardinality(later) <= 2 * Window - 2
  BY <1>4, <1>5, FS_Injection
<1> HIDE DEF later
<1> QED
  BY <1>1, <1>6, <1>7

\* What may be needed again stays in the table.
LEMMA PruneKeepsNeeded ==
  ASSUME PollerTypeOK, WithinWindow, TableInOrder, NothingUncreated,
         DedupMax >= 2 * Window - 1,
         NEW i \in ToSet(seen_items), Relevant(i)
  PROVE  i \in ToSet(Pruned(seen_items))
<1>1. PICK m \in 1..Len(seen_items) : i = seen_items[m]
  BY DEF ToSet, PollerTypeOK
<1>2. Len(seen_items) - m <= 2 * Window - 2
  BY <1>1, NeededIsRecent
<1>3. Window \in Nat /\ DedupMax \in Nat /\ Len(seen_items) \in Nat
      /\ seen_items \in Seq(Item)
  BY HttpPollerAssumption DEF PollerTypeOK
<1>4. m > Len(seen_items) - DedupMax
  BY <1>2, <1>3
<1> QED
  BY <1>1, <1>3, <1>4, PrunedFacts

\* The item in hand and the rest of the page.
LEMMA BatchFacts ==
  ASSUME PollerTypeOK, batch # <<>>
  PROVE  /\ Head(batch) \in Item /\ Head(batch) \in ToSet(batch)
         /\ Tail(batch) \in Seq(Item) /\ ToSet(Tail(batch)) \subseteq ToSet(batch)
<1>1. batch \in Seq(Item) /\ Len(batch) \in Nat /\ 1 \in DOMAIN batch /\ Head(batch) = batch[1]
  BY DEF PollerTypeOK
<1>2. /\ Tail(batch) \in Seq(Item)
      /\ Len(Tail(batch)) = Len(batch) - 1
      /\ \A i \in 1..Len(Tail(batch)) : Tail(batch)[i] = batch[i + 1]
  BY <1>1, HeadTailProperties
<1>3. Head(batch) \in Item /\ Head(batch) \in ToSet(batch)
  BY <1>1 DEF ToSet
<1>4. ToSet(Tail(batch)) \subseteq ToSet(batch)
  BY <1>1, <1>2 DEF ToSet
<1> QED
  BY <1>2, <1>3, <1>4

\* Going on with some items.
LEMMA ContinueFacts ==
  ASSUME NEW items \in Seq(Item), ContinueWith(items)
  PROVE  /\ batch' \in Seq(Item) /\ ToSet(batch') \subseteq ToSet(items)
         /\ awaits' \in {"fetch", "is_seen"} /\ (batch' = <<>> <=> awaits' = "fetch")
<1>1. batch' = SkipSeen(items, _seen_ids')
  BY DEF ContinueWith
<1>2. batch' \in Seq(Item) /\ ToSet(batch') \subseteq ToSet(items)
  BY <1>1, SkipSeenFacts
<1> QED
  BY <1>2 DEF ContinueWith

\* An empty sequence holds nothing.
LEMMA EmptyFacts == <<>> \in Seq(Item) /\ ToSet(<<>>) = {}
BY DEF ToSet

\* What a step makes of the page in hand.
LEMMA BatchStep ==
  ASSUME PollerTypeOK, PollerNext
  PROVE  /\ batch' \in Seq(Item)
         /\ awaits' \in {"get_cursor", "fetch", "is_seen", "publish", "mark_seen", "prune",
                         "set_cursor"}
         /\ batch' = <<>> <=> awaits' \in {"get_cursor", "fetch"}
         /\ \/ ToSet(batch') \subseteq ToSet(batch) /\ UNCHANGED created
            \/ ToSet(batch') \subseteq Listed /\ UNCHANGED <<created, seen_items, published>>
            \/ Create
<1>1. CASE Create
  BY <1>1 DEF Create, instanceVars, PollerTypeOK
<1>2. CASE GetCursor
  BY <1>2 DEF GetCursor, PollerTypeOK
<1>3. CASE FetchJson
  <2>1. CASE ContinueWith(Page)
    BY <1>3, <2>1, PageFacts, ContinueFacts DEF FetchJson, durableVars
  <2>2. CASE UNCHANGED <<awaits, batch>>
    BY <1>3, <2>2 DEF FetchJson, PollerTypeOK
  <2> QED
    BY <1>3, <2>1, <2>2 DEF FetchJson
<1>4. CASE IsSeen
  <2>1. batch # <<>> /\ UNCHANGED created
    BY <1>4 DEF IsSeen, PollerTypeOK
  <2>2. CASE ContinueWith(Tail(batch))
    BY <2>1, <2>2, BatchFacts, ContinueFacts
  <2>3. CASE awaits' = "publish" /\ UNCHANGED batch
    BY <2>1, <2>3 DEF PollerTypeOK
  <2> QED
    BY <1>4, <2>2, <2>3 DEF IsSeen
<1>5. CASE Publish
  BY <1>5, EmptyFacts DEF Publish, BreakBatch, PollerTypeOK
<1>6. CASE MarkSeen
  BY <1>6, EmptyFacts DEF MarkSeen, BreakBatch, PollerTypeOK
<1>7. CASE Prune
  BY <1>7, EmptyFacts DEF Prune, BreakBatch, PollerTypeOK
<1>8. CASE SetCursor
  <2>1. batch # <<>> /\ UNCHANGED created /\ ContinueWith(Tail(batch))
    BY <1>8 DEF SetCursor, PollerTypeOK
  <2> QED
    BY <2>1, BatchFacts, ContinueFacts
<1>9. CASE Interrupt
  BY <1>9, EmptyFacts DEF Interrupt
<1> QED
  BY <1>1, <1>2, <1>3, <1>4, <1>5, <1>6, <1>7, <1>8, <1>9 DEF PollerNext, Poll

\* What a step makes of the table and of the publications.
LEMMA DurableStep ==
  ASSUME PollerTypeOK, PollerNext
  PROVE  /\ \/ UNCHANGED seen_items
            \/ awaits = "mark_seen" /\ seen_items' = Marked(seen_items, Head(batch))
            \/ awaits = "prune" /\ seen_items' = Pruned(seen_items)
         /\ \/ UNCHANGED published
            \/ awaits = "publish" /\ published' = [published EXCEPT ![Head(batch)] = @ + 1]
         /\ \/ UNCHANGED source_state
            \/ source_state' = _cursor_value
<1>1. CASE Create
  BY <1>1 DEF Create, durableVars
<1>2. CASE GetCursor
  BY <1>2 DEF GetCursor, durableVars
<1>3. CASE FetchJson
  BY <1>3 DEF FetchJson, durableVars
<1>4. CASE IsSeen
  BY <1>4 DEF IsSeen, durableVars
<1>5. CASE Publish
  BY <1>5 DEF Publish
<1>6. CASE MarkSeen
  BY <1>6 DEF MarkSeen
<1>7. CASE Prune
  BY <1>7 DEF Prune
<1>8. CASE SetCursor
  BY <1>8 DEF SetCursor
<1>9. CASE Interrupt
  BY <1>9 DEF Interrupt, ThreadCommits, durableVars
<1> QED
  BY <1>1, <1>2, <1>3, <1>4, <1>5, <1>6, <1>7, <1>8, <1>9 DEF PollerNext, Poll

\* What a step makes of the in-memory list: it gets items that were published.
LEMMA MemoryStep ==
  ASSUME PublishedInv, PollerNext
  PROVE  /\ _seen_ids' \in Seq(Item) /\ Len(_seen_ids') <= SeenMax
         /\ \A i \in ToSet(_seen_ids') : published'[i] > 0
<1> USE DEF PublishedInv, SeenWasPublished
<1>1. _seen_ids \in Seq(Item) /\ Len(_seen_ids) <= SeenMax /\ published \in [Item -> Nat]
  BY DEF PollerTypeOK
<1>2. \A i \in Item : published[i] > 0 => published'[i] > 0
  <2>1. CASE UNCHANGED published
    BY <2>1
  <2>2. CASE awaits = "publish" /\ published' = [published EXCEPT ![Head(batch)] = @ + 1]
    BY <2>2, <1>1
  <2> QED
    BY <2>1, <2>2, DurableStep
<1>3. \A i \in ToSet(_seen_ids) : i \in Item /\ published'[i] > 0
  BY <1>1, <1>2 DEF ToSet
<1>4. CASE UNCHANGED _seen_ids
  BY <1>1, <1>3, <1>4
<1>5. CASE _seen_ids' = <<>>
  <2>1. 0 <= SeenMax
    BY HttpPollerAssumption
  <2> QED
    BY <1>5, <2>1, EmptyFacts
<1>6. CASE /\ batch # <<>> /\ published'[Head(batch)] > 0
           /\ _seen_ids' = Remember(_seen_ids, Head(batch))
  <2>1. Head(batch) \in Item
    BY <1>6, BatchFacts
  <2>2. /\ _seen_ids' \in Seq(Item) /\ Len(_seen_ids') <= SeenMax
        /\ ToSet(_seen_ids') \subseteq ToSet(_seen_ids) \cup {Head(batch)}
    BY <1>1, <1>6, <2>1, RememberFacts
  <2> QED
    BY <1>3, <1>6, <2>2
<1>7. CASE IsSeen
  <2>1. batch # <<>>
    BY <1>7 DEF IsSeen, PollerTypeOK
  <2>2. CASE Head(batch) \in ToSet(seen_items) /\ _seen_ids' = Remember(_seen_ids, Head(batch))
    BY <2>1, <2>2, <1>6, <1>2, BatchFacts
  <2> QED
    BY <1>4, <1>7, <2>2 DEF IsSeen
<1>8. CASE Publish
  <2>1. batch # <<>>
    BY <1>8 DEF Publish, PollerTypeOK
  <2>2. CASE /\ published' = [published EXCEPT ![Head(batch)] = @ + 1]
             /\ _seen_ids' = Remember(_seen_ids, Head(batch))
    BY <2>1, <2>2, <1>1, <1>6, BatchFacts
  <2> QED
    BY <1>4, <1>8, <2>2 DEF Publish
<1>9. CASE Interrupt
  BY <1>4, <1>5, <1>9 DEF Interrupt
<1>10. CASE Create \/ GetCursor \/ FetchJson \/ MarkSeen \/ Prune \/ SetCursor
  BY <1>4, <1>10 DEF Create, GetCursor, FetchJson, MarkSeen, Prune, SetCursor, instanceVars
<1> QED
  BY <1>7, <1>8, <1>9, <1>10 DEF PollerNext, Poll

\* At first nothing was published and nothing recorded.
LEMMA PublishedInit == PollerInit => PublishedInv
<1> SUFFICES ASSUME PollerInit
             PROVE  PublishedInv
  OBVIOUS
<1>1. /\ MaxItems \in Nat /\ SeenMax \in Nat /\ MaxMishaps \in Nat
  BY HttpPollerAssumption
<1>2. PollerTypeOK
  BY <1>1 DEF PollerInit, PollerTypeOK
<1>3. CallsFollow
  BY DEF PollerInit, CallsFollow
<1> QED
  BY <1>2, <1>3, EmptyFacts DEF PollerInit, PublishedInv, SeenWasPublished

\* What was recorded as seen stays published.
LEMMA PublishedStep == PublishedInv /\ [PollerNext]_pollerVars => PublishedInv'
<1> SUFFICES ASSUME PublishedInv, [PollerNext]_pollerVars
             PROVE  PublishedInv'
  OBVIOUS
<1>1. CASE UNCHANGED pollerVars
  BY <1>1 DEF PublishedInv, SeenWasPublished, CallsFollow, PollerTypeOK, pollerVars,
              instanceVars, durableVars
<1>2. CASE PollerNext
  <2>1. /\ PollerTypeOK /\ published \in [Item -> Nat] /\ seen_items \in Seq(Item)
        /\ \A i \in ToSet(seen_items) : published[i] > 0
    BY DEF PublishedInv, SeenWasPublished, PollerTypeOK
  <2>2. published' \in [Item -> Nat] /\ \A i \in Item : published'[i] >= published[i]
    <3>1. CASE UNCHANGED published
      BY <2>1, <3>1
    <3>2. CASE awaits = "publish" /\ published' = [published EXCEPT ![Head(batch)] = @ + 1]
      <4>1. batch # <<>>
        BY <2>1, <3>2 DEF PollerTypeOK
      <4>2. Head(batch) \in Item
        BY <2>1, <4>1, BatchFacts
      <4> QED
        BY <2>1, <3>2, <4>2
    <3> QED
      BY <1>2, <2>1, <3>1, <3>2, DurableStep
  <2>3. seen_items' \in Seq(Item) /\ \A i \in ToSet(seen_items') : published'[i] > 0
    <3>1. \A i \in ToSet(seen_items) : i \in Item /\ published'[i] > 0
      BY <2>1, <2>2 DEF ToSet
    <3>2. CASE UNCHANGED seen_items
      BY <2>1, <3>1, <3>2
    <3>3. CASE awaits = "mark_seen" /\ seen_items' = Marked(seen_items, Head(batch))
      <4>1. batch # <<>> /\ published[Head(batch)] > 0
        BY <2>1, <3>3 DEF PollerTypeOK, PublishedInv, CallsFollow
      <4>2. Head(batch) \in Item
        BY <2>1, <4>1, BatchFacts
      <4>3. published'[Head(batch)] > 0
        BY <2>1, <2>2, <4>1, <4>2
      <4> QED
        BY <2>1, <3>1, <3>3, <4>2, <4>3, MarkedFacts
    <3>4. CASE seen_items' = Pruned(seen_items)
      BY <2>1, <3>1, <3>4, PrunedFacts
    <3> QED
      BY <1>2, <2>1, <3>2, <3>3, <3>4, DurableStep
  <2>4. upstream' \in Upstream /\ created' \in 0..MaxItems /\ mishaps' \in 0..MaxMishaps
        /\ _cursor_value' \in 0..MaxItems /\ source_state' \in 0..MaxItems
    <3>1. /\ upstream \in Upstream /\ created \in 0..MaxItems /\ mishaps \in 0..MaxMishaps
          /\ _cursor_value \in 0..MaxItems /\ source_state \in 0..MaxItems
          /\ MaxItems \in Nat /\ MaxMishaps \in Nat
      BY <2>1, HttpPollerAssumption DEF PollerTypeOK
    <3>2. upstream' \in Upstream
      BY <1>2, <3>1 DEF PollerNext, Poll, Create, GetCursor, FetchJson, IsSeen, Publish, MarkSeen,
                        Prune, SetCursor, Interrupt
    <3>3. created' \in 0..MaxItems
      BY <1>2, <3>1 DEF PollerNext, Poll, Create, GetCursor, FetchJson, IsSeen, Publish, MarkSeen,
                        Prune, SetCursor, Interrupt
    <3>4. mishaps' \in 0..MaxMishaps
      BY <1>2, <3>1 DEF PollerNext, Poll, Create, GetCursor, FetchJson, IsSeen, Publish, MarkSeen,
                        Prune, SetCursor, Interrupt, Mishap
    <3>5. source_state' \in 0..MaxItems
      BY <1>2, <2>1, <3>1, DurableStep
    <3>6. _cursor_value' \in 0..MaxItems
      <4>1. CASE Prune
        <5>1. batch # <<>>
          BY <2>1, <4>1 DEF Prune, PollerTypeOK
        <5>2. Head(batch) \in 0..MaxItems
          BY <2>1, <3>1, <5>1, BatchFacts DEF Item
        <5> QED
          BY <3>1, <4>1, <5>2 DEF Prune
      <4>2. CASE ~Prune
        BY <1>2, <3>1, <4>2 DEF PollerNext, Poll, Create, GetCursor, FetchJson, IsSeen, Publish,
                                MarkSeen, SetCursor, Interrupt, instanceVars
      <4> QED
        BY <4>1, <4>2
    <3> QED
      BY <3>2, <3>3, <3>4, <3>5, <3>6
  <2>5. PollerTypeOK'
    BY <1>2, <2>1, <2>2, <2>3, <2>4, BatchStep, MemoryStep DEF PollerTypeOK
  <2>6. CallsFollow'
    <3>1. \A i \in Item : published[i] > 0 => published'[i] > 0
      BY <2>1, <2>2
    <3>2. CASE batch # <<>> /\ UNCHANGED batch /\ published'[Head(batch)] > 0
      BY <3>2 DEF CallsFollow
    <3>3. CASE awaits' \notin {"mark_seen", "prune", "set_cursor"}
      BY <3>3 DEF CallsFollow
    <3>4. ASSUME awaits' \in {"mark_seen", "prune", "set_cursor"}
          PROVE  /\ UNCHANGED batch /\ batch # <<>>
                 /\ \/ published[Head(batch)] > 0
                    \/ published' = [published EXCEPT ![Head(batch)] = @ + 1]
      <4>1. CASE Create
        BY <4>1, <3>4, <2>1 DEF Create, instanceVars, PublishedInv, CallsFollow, PollerTypeOK
      <4>2. CASE Publish
        BY <4>2, <3>4, <2>1 DEF Publish, BreakBatch, PollerTypeOK
      <4>3. CASE MarkSeen
        BY <4>3, <3>4, <2>1 DEF MarkSeen, BreakBatch, PublishedInv, CallsFollow, PollerTypeOK
      <4>4. CASE Prune
        BY <4>4, <3>4, <2>1 DEF Prune, BreakBatch, PublishedInv, CallsFollow, PollerTypeOK
      <4>5. CASE IsSeen
        BY <4>5, <3>4 DEF IsSeen, ContinueWith
      <4>6. CASE FetchJson
        BY <4>6, <3>4 DEF FetchJson, ContinueWith
      <4>7. CASE GetCursor \/ SetCursor \/ Interrupt
        BY <4>7, <3>4 DEF GetCursor, SetCursor, ContinueWith, Interrupt
      <4> QED
        BY <1>2, <4>1, <4>2, <4>3, <4>4, <4>5, <4>6, <4>7 DEF PollerNext, Poll
    <3>5. ASSUME awaits' \in {"mark_seen", "prune", "set_cursor"}
          PROVE  published'[Head(batch)] > 0
      <4>1. Head(batch) \in Item
        BY <2>1, <3>4, <3>5, BatchFacts
      <4> QED
        BY <2>1, <3>1, <3>4, <3>5, <4>1
    <3> QED
      BY <3>2, <3>3, <3>4, <3>5
  <2> QED
    BY <2>3, <2>5, <2>6, <1>2, MemoryStep DEF PublishedInv, SeenWasPublished
<1> QED
  BY <1>1, <1>2

\* What is recorded as seen was published.
THEOREM NothingIsSkippedUnpublished == PollerSpec => []SeenWasPublished
<1>1. PublishedInv => SeenWasPublished
  BY DEF PublishedInv
<1> QED
  BY <1>1, PublishedInit, PublishedStep, PTL DEF PollerSpec

-----------------------------------------------------------------------------
(***************************************************************************)
(* Each repetition is paid for by a fault.                                 *)
(***************************************************************************)

\* What a step makes of the order in the table and of the page in hand.
LEMMA OrderStep ==
  ASSUME PollerInv, PollerNext, PollerTypeOK', DedupMax >= 2 * Window - 1
  PROVE  WithinWindow' /\ TableInOrder' /\ NothingUncreated'
<1>1. /\ PollerTypeOK /\ WithinWindow /\ TableInOrder /\ NothingUncreated
      /\ seen_items \in Seq(Item) /\ batch \in Seq(Item) /\ created \in Nat
      /\ created' \in Nat /\ Window \in Nat /\ published \in [Item -> Nat]
  <2>1. PollerTypeOK /\ WithinWindow /\ TableInOrder /\ NothingUncreated
    BY DEF PollerInv, PublishedInv, SeenWasPublished
  <2>2. MaxItems \in Nat /\ Window \in Nat
    BY HttpPollerAssumption
  <2>3. created \in Nat /\ created' \in Nat
    BY <2>1, <2>2 DEF PollerTypeOK
  <2> QED
    BY <2>1, <2>2, <2>3 DEF PollerTypeOK
<1>2. \A i \in Item : i \in Nat
  BY DEF Item
<1>3. /\ \A i \in ToSet(batch) : i \in Item /\ i <= created
      /\ \A i \in ToSet(seen_items) : i \in Item /\ i <= created
  BY <1>1 DEF ToSet, NothingUncreated
<1>4. /\ seen_items' \in Seq(Item) /\ InOrder(seen_items')
      /\ ToSet(seen_items') \subseteq ToSet(seen_items) \cup ToSet(batch)
  <2>1. CASE UNCHANGED seen_items
    BY <1>1, <2>1 DEF TableInOrder
  <2>2. CASE awaits = "mark_seen" /\ seen_items' = Marked(seen_items, Head(batch))
    <3>1. batch # <<>>
      BY <1>1, <2>2 DEF PollerTypeOK
    <3>2. Head(batch) \in Item /\ Head(batch) \in ToSet(batch)
      BY <1>1, <3>1, BatchFacts
    <3>3. \A k \in ToSet(seen_items) : k < Head(batch) + Window
      BY <1>1, <3>2 DEF WithinWindow
    <3>4. /\ Marked(seen_items, Head(batch)) \in Seq(Item)
          /\ ToSet(Marked(seen_items, Head(batch))) = ToSet(seen_items) \cup {Head(batch)}
          /\ InOrder(Marked(seen_items, Head(batch)))
      BY <1>1, <3>2, <3>3, MarkedFacts DEF TableInOrder
    <3> QED
      BY <2>2, <3>2, <3>4
  <2>3. CASE seen_items' = Pruned(seen_items)
    BY <1>1, <2>3, PrunedFacts DEF TableInOrder
  <2> QED
    BY <1>1, <2>1, <2>2, <2>3, DurableStep
<1>5. CASE ToSet(batch') \subseteq ToSet(batch) /\ UNCHANGED created
  <2>1. WithinWindow'
    BY <1>1, <1>4, <1>5 DEF WithinWindow
  <2>2. \A i \in ToSet(seen_items') \cup ToSet(batch') : i <= created'
    BY <1>3, <1>4, <1>5
  <2>3. ASSUME NEW i \in Item, published'[i] > 0
        PROVE  i <= created'
    <3>1. CASE UNCHANGED published
      BY <1>1, <1>5, <2>3, <3>1 DEF NothingUncreated
    <3>2. CASE awaits = "publish" /\ published' = [published EXCEPT ![Head(batch)] = @ + 1]
      <4>1. batch # <<>>
        BY <1>1, <3>2 DEF PollerTypeOK
      <4>2. Head(batch) <= created
        BY <1>1, <1>3, <4>1, BatchFacts
      <4>3. CASE i = Head(batch)
        BY <1>5, <4>2, <4>3
      <4>4. CASE i # Head(batch)
        BY <1>1, <1>5, <2>3, <3>2, <4>4 DEF NothingUncreated
      <4> QED
        BY <4>3, <4>4
    <3> QED
      BY <1>1, <3>1, <3>2, DurableStep
  <2> QED
    BY <1>4, <2>1, <2>2, <2>3 DEF TableInOrder, NothingUncreated
<1>6. CASE ToSet(batch') \subseteq Listed /\ UNCHANGED <<created, seen_items, published>>
  <2>1. \A i \in ToSet(batch') : i \in Item /\ i <= created /\ i > created - Window
    BY <1>6 DEF Listed
  <2>2. WithinWindow'
    <3> SUFFICES ASSUME NEW i \in ToSet(batch') \cup ToSet(seen_items'), NEW k \in ToSet(batch')
                 PROVE  i < k + Window
      BY DEF WithinWindow
    <3>1. i \in Nat /\ i <= created
      BY <1>2, <1>3, <1>6, <2>1
    <3>2. k \in Nat /\ k > created - Window
      BY <1>2, <2>1
    <3> QED
      BY <1>1, <3>1, <3>2
  <2>3. NothingUncreated'
    BY <1>1, <1>3, <1>6, <2>1 DEF NothingUncreated
  <2> QED
    BY <1>4, <2>2, <2>3 DEF TableInOrder
<1>7. CASE Create
  <2>1. UNCHANGED <<batch, seen_items, published>> /\ created' = created + 1
    BY <1>7 DEF Create, instanceVars, durableVars
  <2>2. WithinWindow'
    BY <1>1, <2>1 DEF WithinWindow
  <2>3. \A i \in ToSet(seen_items') \cup ToSet(batch') : i <= created'
    <3>1. \A i \in ToSet(seen_items) \cup ToSet(batch) : i \in Nat /\ i <= created
      BY <1>2, <1>3
    <3> QED
      BY <1>1, <2>1, <3>1
  <2>4. \A i \in Item : published'[i] > 0 => i <= created'
    BY <1>1, <1>2, <2>1 DEF NothingUncreated
  <2> QED
    BY <1>4, <2>2, <2>3, <2>4 DEF TableInOrder, NothingUncreated
<1> QED
  BY <1>1, <1>5, <1>6, <1>7, BatchStep

\* Publishing an item again is one more repetition.
LEMMA RepeatsGrow ==
  ASSUME published \in [Item -> Nat], IsFiniteSet(Repeats), NEW h \in Item,
         published' = [published EXCEPT ![h] = @ + 1]
  PROVE  /\ published[h] = 0 => Repeats' = Repeats
         /\ published[h] > 0 => /\ IsFiniteSet(Repeats')
                                /\ Cardinality(Repeats') = Cardinality(Repeats) + 1
<1>1. published[h] \in Nat /\ published'[h] = published[h] + 1
  OBVIOUS
<1>2. \A i \in Item : i # h => published'[i] = published[i]
  OBVIOUS
<1>3. CASE published[h] = 0
  <2>1. \A i \in Item : 2..published'[i] = 2..published[i]
    <3>1. 2..published'[h] = {} /\ 2..published[h] = {}
      BY <1>1, <1>3
    <3> QED
      BY <1>2, <3>1
  <2>2. Repeats' = Repeats
    BY <2>1 DEF Repeats
  <2> QED
    BY <1>3, <2>2
<1>4. CASE published[h] > 0
  <2> DEFINE new == <<h, published[h] + 1>>
  <2>1. \A i, n : <<i, n>> \in Repeats <=> i \in Item /\ n \in 2..published[i]
    BY DEF Repeats
  <2>2. \A i, n : <<i, n>> \in Repeats' <=> i \in Item /\ n \in 2..published'[i]
    BY DEF Repeats
  <2>3. 2..published'[h] = (2..published[h]) \cup {published[h] + 1}
    BY <1>1, <1>4
  <2>4. \A p \in Repeats : p = <<p[1], p[2]>>
    BY DEF Repeats
  <2>5. \A p \in Repeats' : p = <<p[1], p[2]>>
    BY DEF Repeats
  <2>6. Repeats' \subseteq Repeats \cup {new}
    <3> SUFFICES ASSUME NEW p \in Repeats'
                 PROVE  p \in Repeats \cup {new}
      OBVIOUS
    <3>1. p = <<p[1], p[2]>> /\ p[1] \in Item /\ p[2] \in 2..published'[p[1]]
      BY <2>2, <2>5
    <3>2. CASE p[1] # h
      BY <1>2, <2>1, <3>1, <3>2
    <3>3. CASE p[1] = h /\ p[2] # published[h] + 1
      BY <2>1, <2>3, <3>1, <3>3
    <3>4. CASE p[1] = h /\ p[2] = published[h] + 1
      BY <3>1, <3>4
    <3> QED
      BY <3>2, <3>3, <3>4
  <2>7. Repeats \cup {new} \subseteq Repeats'
    <3>1. new \in Repeats'
      BY <2>2, <2>3
    <3>2. ASSUME NEW p \in Repeats PROVE p \in Repeats'
      <4>1. p = <<p[1], p[2]>> /\ p[1] \in Item /\ p[2] \in 2..published[p[1]]
        BY <2>1, <2>4
      <4>2. p[2] \in 2..published'[p[1]]
        BY <1>2, <2>3, <4>1
      <4> QED
        BY <2>2, <4>1, <4>2
    <3> QED
      BY <3>1, <3>2
  <2>8. Repeats' = Repeats \cup {new}
    BY <2>6, <2>7
  <2>9. new \notin Repeats
    <3>1. published[h] + 1 \notin 2..published[h]
      BY <1>1
    <3> QED
      BY <2>1, <3>1
  <2> HIDE DEF new
  <2>10. IsFiniteSet(Repeats') /\ Cardinality(Repeats') = Cardinality(Repeats) + 1
    BY <2>8, <2>9, FS_AddElement
  <2> QED
    BY <1>4, <2>10
<1> QED
  BY <1>1, <1>3, <1>4

\* The three ways in which the accounts stay balanced.
LEMMA Balanced ==
  ASSUME PaidFor, mishaps \in Nat, mishaps' \in Nat, mishaps' >= mishaps, NEW h \in Item
  PROVE  /\ Repeats' = Repeats /\ Risk' \subseteq Risk => PaidFor'
         /\ Repeats' = Repeats /\ Risk' \subseteq Risk \cup {h} /\ mishaps' = mishaps + 1 => PaidFor'
         /\ (/\ IsFiniteSet(Repeats') /\ Cardinality(Repeats') = Cardinality(Repeats) + 1
             /\ \/ h \in Risk /\ Risk' \subseteq Risk \ {h}
                \/ Risk' \subseteq Risk /\ mishaps' = mishaps + 1) => PaidFor'
<1>1. IsFiniteSet(Item)
  BY FS_Interval, HttpPollerAssumption DEF Item
<1>2. Risk \subseteq Item
  BY DEF Risk
<1>3. IsFiniteSet(Risk) /\ Cardinality(Risk) \in Nat
  BY <1>1, <1>2, FS_Subset, FS_CardinalityType
<1>4. IsFiniteSet(Repeats) /\ Cardinality(Repeats) \in Nat
      /\ Cardinality(Repeats) + Cardinality(Risk) <= mishaps
  BY FS_CardinalityType DEF PaidFor
<1>5. ASSUME Risk' \subseteq Risk
      PROVE  Cardinality(Risk') \in Nat /\ Cardinality(Risk') <= Cardinality(Risk)
  BY <1>3, <1>5, FS_Subset, FS_CardinalityType
<1>6. ASSUME Risk' \subseteq Risk \cup {h}
      PROVE  Cardinality(Risk') \in Nat /\ Cardinality(Risk') <= Cardinality(Risk) + 1
  <2>1. /\ IsFiniteSet(Risk \cup {h})
        /\ Cardinality(Risk \cup {h}) = IF h \in Risk THEN Cardinality(Risk) ELSE Cardinality(Risk) + 1
    BY <1>3, FS_AddElement
  <2>2. Cardinality(Risk') \in Nat /\ Cardinality(Risk') <= Cardinality(Risk \cup {h})
    BY <2>1, <1>6, FS_Subset, FS_CardinalityType
  <2> QED
    BY <1>3, <2>1, <2>2
<1>7. ASSUME h \in Risk, Risk' \subseteq Risk \ {h}
      PROVE  Cardinality(Risk') \in Nat /\ Cardinality(Risk') <= Cardinality(Risk) - 1
  <2>1. /\ IsFiniteSet(Risk \ {h})
        /\ Cardinality(Risk \ {h}) = Cardinality(Risk) - 1
    BY <1>3, <1>7, FS_RemoveElement
  <2>2. Cardinality(Risk') \in Nat /\ Cardinality(Risk') <= Cardinality(Risk \ {h})
    BY <2>1, <1>7, FS_Subset, FS_CardinalityType
  <2> QED
    BY <1>3, <2>1, <2>2
<1>8. ASSUME Repeats' = Repeats, Risk' \subseteq Risk PROVE PaidFor'
  BY <1>3, <1>4, <1>5, <1>8 DEF PaidFor
<1>9. ASSUME Repeats' = Repeats, Risk' \subseteq Risk \cup {h}, mishaps' = mishaps + 1 PROVE PaidFor'
  BY <1>3, <1>4, <1>6, <1>9 DEF PaidFor
<1>10. ASSUME IsFiniteSet(Repeats'), Cardinality(Repeats') = Cardinality(Repeats) + 1,
              h \in Risk, Risk' \subseteq Risk \ {h}
       PROVE  PaidFor'
  BY <1>3, <1>4, <1>7, <1>10 DEF PaidFor
<1>11. ASSUME IsFiniteSet(Repeats'), Cardinality(Repeats') = Cardinality(Repeats) + 1,
              Risk' \subseteq Risk, mishaps' = mishaps + 1
       PROVE  PaidFor'
  BY <1>3, <1>4, <1>5, <1>11 DEF PaidFor
<1> QED
  BY <1>8, <1>9, <1>10, <1>11

\* A row that may be needed again is not pruned, so pruning puts nothing at risk.
LEMMA PruningRisksNothing ==
  ASSUME PollerInv, DedupMax >= 2 * Window - 1, NEW i \in Item, Relevant(i),
         i \notin ToSet(Pruned(seen_items))
  PROVE  i \notin ToSet(seen_items)
BY PruneKeepsNeeded DEF PollerInv, PublishedInv, SeenWasPublished

\* Every step of the poller keeps each repetition paid for.
LEMMA PaidStep ==
  ASSUME PollerInv, PollerNext, PollerTypeOK', DedupMax >= 2 * Window - 1
  PROVE  PaidFor'
<1>1. /\ PollerTypeOK /\ PaidFor /\ NothingUncreated
      /\ published \in [Item -> Nat] /\ mishaps \in Nat /\ mishaps' \in Nat
      /\ seen_items \in Seq(Item)
  <2>1. PollerTypeOK /\ PaidFor /\ NothingUncreated
    BY DEF PollerInv, PublishedInv, SeenWasPublished
  <2>2. mishaps \in Nat /\ mishaps' \in Nat
    BY <2>1 DEF PollerTypeOK
  <2> QED
    BY <2>1, <2>2 DEF PollerTypeOK
<1> DEFINE h == Head(batch)
<1>2. batch # <<>> => h \in Item /\ h \in ToSet(batch)
  BY <1>1, BatchFacts
<1>3. PICK some \in Item : batch # <<>> => some = h
  <2>1. 1 \in Item
    BY HttpPollerAssumption DEF Item
  <2> QED
    BY <1>2, <2>1
<1>4. UNCHANGED published => Repeats' = Repeats
  BY DEF Repeats
<1>5. mishaps' = mishaps \/ mishaps' = mishaps + 1
  BY DEF PollerNext, Poll, Create, GetCursor, FetchJson, IsSeen, Publish, MarkSeen, Prune,
         SetCursor, Interrupt, Mishap
<1>6. mishaps' >= mishaps
  BY <1>1, <1>5
<1>7. ASSUME UNCHANGED published, Risk' \subseteq Risk
      PROVE  PaidFor'
  BY <1>1, <1>3, <1>4, <1>6, <1>7, Balanced
<1>8. ASSUME UNCHANGED published, batch # <<>>, Risk' \subseteq Risk \cup {h}, mishaps' = mishaps + 1
      PROVE  PaidFor'
  BY <1>1, <1>3, <1>4, <1>6, <1>8, Balanced
<1>9. ASSUME batch # <<>>, awaits = "publish", published' = [published EXCEPT ![h] = @ + 1],
             \/ Risk' \subseteq Risk \ {h}
             \/ Risk' \subseteq Risk \cup {h} /\ mishaps' = mishaps + 1
      PROVE  PaidFor'
  <2>1. IsFiniteSet(Repeats) /\ h \in Item /\ published[h] \in Nat
    BY <1>1, <1>2, <1>9 DEF PaidFor
  <2>2. CASE published[h] = 0
    <3>1. Repeats' = Repeats
      BY <1>1, <1>9, <2>1, <2>2, RepeatsGrow
    <3>2. \/ Risk' \subseteq Risk
          \/ Risk' \subseteq Risk \cup {h} /\ mishaps' = mishaps + 1
      BY <1>9
    <3> HIDE DEF h
    <3> QED
      BY <1>1, <1>6, <2>1, <3>1, <3>2, Balanced
  <2>3. CASE published[h] > 0
    <3>1. IsFiniteSet(Repeats') /\ Cardinality(Repeats') = Cardinality(Repeats) + 1
      BY <1>1, <1>9, <2>1, <2>3, RepeatsGrow
    <3>2. h \in Risk
      BY <1>9, <2>1, <2>3 DEF Risk
    <3>3. \/ Risk' \subseteq Risk \ {h}
          \/ Risk' \subseteq Risk /\ mishaps' = mishaps + 1
      BY <1>9, <3>2
    <3> HIDE DEF h
    <3> QED
      BY <1>1, <1>6, <2>1, <3>1, <3>2, <3>3, Balanced
  <2> QED
    BY <2>1, <2>2, <2>3
<1>10. CASE Create
  <2>1. /\ UNCHANGED <<awaits, batch, seen_items, published>>
        /\ created' = created + 1
    BY <1>10 DEF Create, instanceVars, durableVars
  <2>2. \A i \in Item : published[i] > 0 /\ i > created' - Window => i > created - Window
    <3>1. created \in Int /\ Window \in Int /\ \A i \in Item : i \in Int
      BY <1>1, HttpPollerAssumption DEF PollerTypeOK, Item
    <3> QED
      BY <2>1, <3>1
  <2>3. Risk' \subseteq Risk
    BY <2>1, <2>2 DEF Risk, Relevant, Recording
  <2> QED
    BY <1>7, <2>1, <2>3
<1>11. CASE GetCursor
  <2>1. /\ awaits = "get_cursor" /\ awaits' = "fetch"
        /\ UNCHANGED <<created, batch, seen_items, published>>
    BY <1>11 DEF GetCursor, durableVars
  <2>2. Risk' \subseteq Risk
    BY <2>1 DEF Risk, Relevant, Recording
  <2> QED
    BY <1>7, <2>1, <2>2
<1>12. CASE FetchJson
  <2>1. /\ awaits = "fetch" /\ awaits' \in {"fetch", "is_seen"}
        /\ UNCHANGED <<created, seen_items, published>>
    BY <1>12 DEF FetchJson, durableVars, ContinueWith
  <2>2. ToSet(batch') \subseteq ToSet(batch) \cup Listed
    <3>1. CASE ContinueWith(Page)
      BY <1>1, <3>1, PageFacts, ContinueFacts
    <3>2. CASE UNCHANGED batch
      BY <3>2
    <3> QED
      BY <1>12, <3>1, <3>2 DEF FetchJson
  <2>3. Risk' \subseteq Risk
    BY <2>1, <2>2 DEF Risk, Relevant, Recording, Listed
  <2> QED
    BY <1>7, <2>1, <2>3
<1>13. CASE IsSeen
  <2>1. /\ awaits = "is_seen" /\ batch # <<>> /\ UNCHANGED <<created, seen_items, published>>
    BY <1>1, <1>13 DEF IsSeen, durableVars, PollerTypeOK
  <2>2. CASE ContinueWith(Tail(batch))
    <3>1. ToSet(batch') \subseteq ToSet(batch) /\ awaits' \in {"fetch", "is_seen"}
      BY <1>1, <2>1, <2>2, BatchFacts, ContinueFacts
    <3>2. Risk' \subseteq Risk
      BY <2>1, <3>1 DEF Risk, Relevant, Recording
    <3> QED
      BY <1>7, <2>1, <3>2
  <2>3. CASE awaits' = "publish" /\ UNCHANGED batch /\ h \notin ToSet(seen_items)
    <3>1. Risk' \subseteq Risk
      BY <1>2, <2>1, <2>3 DEF Risk, Relevant, Recording
    <3> QED
      BY <1>7, <2>1, <3>1
  <2>4. CASE awaits' = "publish" /\ UNCHANGED batch /\ Mishap
    <3>1. Risk' \subseteq Risk \cup {h}
      BY <2>1, <2>4 DEF Risk, Relevant, Recording
    <3>2. mishaps' = mishaps + 1
      BY <2>4 DEF Mishap
    <3> QED
      BY <1>8, <2>1, <3>1, <3>2
  <2> QED
    BY <1>13, <2>2, <2>3, <2>4 DEF IsSeen
<1>14. CASE Publish
  <2>1. /\ awaits = "publish" /\ batch # <<>> /\ UNCHANGED <<created, seen_items>>
    BY <1>1, <1>14 DEF Publish, PollerTypeOK
  <2>2. CASE /\ published' = [published EXCEPT ![h] = @ + 1]
             /\ awaits' = "mark_seen" /\ UNCHANGED batch
    <3>1. \A i \in Item : i # h => published'[i] = published[i]
      BY <1>1, <2>2
    <3>2. Risk' \subseteq Risk \ {h}
      BY <2>1, <2>2, <3>1 DEF Risk, Relevant, Recording
    <3> QED
      BY <1>9, <2>1, <2>2, <3>2
  <2>3. CASE UNCHANGED published /\ BreakBatch
    <3>1. Risk' \subseteq Risk
      BY <2>1, <2>3, EmptyFacts DEF Risk, Relevant, Recording, BreakBatch
    <3> QED
      BY <1>7, <2>3, <3>1
  <2> QED
    BY <1>14, <2>2, <2>3 DEF Publish
<1>15. CASE MarkSeen
  <2>1. /\ awaits = "mark_seen" /\ batch # <<>> /\ UNCHANGED <<created, published>>
    BY <1>1, <1>15 DEF MarkSeen, PollerTypeOK
  <2>2. CASE seen_items' = Marked(seen_items, h) /\ awaits' = "prune" /\ UNCHANGED batch
    <3>1. ToSet(seen_items') = ToSet(seen_items) \cup {h}
      BY <1>1, <1>2, <2>1, <2>2, MarkedFacts
    <3>2. Risk' \subseteq Risk
      BY <2>1, <2>2, <3>1 DEF Risk, Relevant, Recording
    <3> QED
      BY <1>7, <2>1, <3>2
  <2>3. CASE Mishap /\ BreakBatch /\ UNCHANGED seen_items
    <3>1. Risk' \subseteq Risk \cup {h}
      BY <2>1, <2>3, EmptyFacts DEF Risk, Relevant, Recording, BreakBatch
    <3>2. mishaps' = mishaps + 1
      BY <2>3 DEF Mishap
    <3> QED
      BY <1>8, <2>1, <3>1, <3>2
  <2> QED
    BY <1>15, <2>2, <2>3 DEF MarkSeen
<1>16. CASE Prune
  <2>1. /\ awaits = "prune" /\ batch # <<>> /\ UNCHANGED <<created, published>>
    BY <1>1, <1>16 DEF Prune, PollerTypeOK
  <2>2. CASE seen_items' = Pruned(seen_items) /\ awaits' = "set_cursor" /\ UNCHANGED batch
    <3>1. Risk' \subseteq Risk
      BY <2>1, <2>2, PruningRisksNothing DEF Risk, Relevant, Recording
    <3> QED
      BY <1>7, <2>1, <3>1
  <2>3. CASE BreakBatch /\ UNCHANGED seen_items
    <3>1. Risk' \subseteq Risk
      BY <2>1, <2>3, EmptyFacts DEF Risk, Relevant, Recording, BreakBatch
    <3> QED
      BY <1>7, <2>1, <3>1
  <2> QED
    BY <1>16, <2>2, <2>3 DEF Prune
<1>17. CASE SetCursor
  <2>1. /\ awaits = "set_cursor" /\ batch # <<>> /\ UNCHANGED <<created, seen_items, published>>
        /\ ContinueWith(Tail(batch))
    BY <1>1, <1>17 DEF SetCursor, PollerTypeOK
  <2>2. ToSet(batch') \subseteq ToSet(batch) /\ awaits' \in {"fetch", "is_seen"}
    BY <1>1, <2>1, BatchFacts, ContinueFacts
  <2>3. Risk' \subseteq Risk
    BY <2>1, <2>2 DEF Risk, Relevant, Recording
  <2> QED
    BY <1>7, <2>1, <2>3
<1>18. CASE Interrupt
  <2>1. /\ awaits' = "get_cursor" /\ batch' = <<>> /\ UNCHANGED created /\ mishaps' = mishaps + 1
        /\ ThreadCommits \/ UNCHANGED durableVars
    BY <1>18 DEF Interrupt, Mishap
  <2>2. ToSet(batch') = {}
    BY <2>1, EmptyFacts
  <2>3. awaits = "mark_seen" => batch # <<>>
    BY <1>1 DEF PollerTypeOK
  <2>4. CASE UNCHANGED <<seen_items, published>>
    <3>1. CASE awaits = "mark_seen"
      <4>1. Risk' \subseteq Risk \cup {h}
        BY <2>1, <2>2, <2>4, <3>1 DEF Risk, Relevant, Recording
      <4> QED
        BY <1>8, <2>1, <2>3, <2>4, <3>1, <4>1
    <3>2. CASE awaits # "mark_seen"
      <4>1. Risk' \subseteq Risk
        BY <2>1, <2>2, <2>4, <3>2 DEF Risk, Relevant, Recording
      <4> QED
        BY <1>7, <2>4, <4>1
    <3> QED
      BY <3>1, <3>2
  <2>5. CASE /\ awaits = "publish" /\ published' = [published EXCEPT ![h] = @ + 1]
             /\ UNCHANGED seen_items
    <3>1. batch # <<>>
      BY <1>1, <2>5 DEF PollerTypeOK
    <3>2. \A i \in Item : i # h => published'[i] = published[i]
      BY <1>1, <2>5
    <3>3. Risk' \subseteq Risk \cup {h}
      BY <2>1, <2>2, <2>5, <3>2 DEF Risk, Relevant, Recording
    <3> QED
      BY <1>9, <2>1, <2>5, <3>1, <3>3
  <2>6. CASE /\ awaits = "mark_seen" /\ seen_items' = Marked(seen_items, h)
             /\ UNCHANGED published
    <3>1. ToSet(seen_items') = ToSet(seen_items) \cup {h}
      BY <1>1, <1>2, <2>3, <2>6, MarkedFacts
    <3>2. Risk' \subseteq Risk
      BY <2>1, <2>2, <2>6, <3>1 DEF Risk, Relevant, Recording
    <3> QED
      BY <1>7, <2>6, <3>2
  <2>7. CASE /\ awaits = "prune" /\ seen_items' = Pruned(seen_items)
             /\ UNCHANGED published
    <3>1. Risk' \subseteq Risk
      BY <2>1, <2>2, <2>7, PruningRisksNothing DEF Risk, Relevant, Recording
    <3> QED
      BY <1>7, <2>7, <3>1
  <2> QED
    BY <2>1, <2>4, <2>5, <2>6, <2>7 DEF ThreadCommits, durableVars
<1> QED
  BY <1>10, <1>11, <1>12, <1>13, <1>14, <1>15, <1>16, <1>17, <1>18 DEF PollerNext, Poll

\* The poller's invariant holds at the start
LEMMA PollerInvInit == PollerInit => PollerInv
<1> SUFFICES ASSUME PollerInit
             PROVE  PollerInv
  OBVIOUS
<1>1. PublishedInv
  BY PublishedInit
<1>2. WithinWindow /\ TableInOrder
  BY EmptyFacts DEF PollerInit, WithinWindow, TableInOrder, InOrder
<1>3. \A i \in Item : ~(published[i] > 0) /\ 2..published[i] = {}
  BY DEF PollerInit
<1>4. NothingUncreated
  BY <1>3, EmptyFacts DEF PollerInit, NothingUncreated
<1>5. Repeats = {} /\ Risk = {}
  BY <1>3 DEF Repeats, Risk
<1>6. PaidFor
  BY <1>5, FS_EmptySet DEF PaidFor, PollerInit
<1> QED
  BY <1>1, <1>2, <1>4, <1>6 DEF PollerInv

\* and after every step.
LEMMA PollerInvStep ==
  ASSUME DedupMax >= 2 * Window - 1
  PROVE  PollerInv /\ [PollerNext]_pollerVars => PollerInv'
<1> SUFFICES ASSUME PollerInv, [PollerNext]_pollerVars
             PROVE  PollerInv'
  OBVIOUS
<1>1. PublishedInv'
  BY PublishedStep DEF PollerInv
<1>2. CASE PollerNext
  <2>1. PollerTypeOK'
    BY <1>1 DEF PublishedInv, SeenWasPublished
  <2> QED
    BY <1>1, <1>2, <2>1, OrderStep, PaidStep DEF PollerInv
<1>3. CASE UNCHANGED pollerVars
  <2>1. /\ Repeats' = Repeats /\ Risk' = Risk
    BY <1>3 DEF pollerVars, instanceVars, durableVars, Repeats, Risk, Relevant, Recording
  <2>2. PaidFor'
    BY <1>3, <2>1 DEF PaidFor, PollerInv, pollerVars
  <2> QED
    BY <1>1, <1>3, <2>2 DEF PollerInv, pollerVars, instanceVars, durableVars, WithinWindow,
                            TableInOrder, NothingUncreated
<1> QED
  BY <1>2, <1>3

\* Every repeated publication of an item is paid for by a fault of its own, if the
\* table is nearly twice as long as the page.
THEOREM RepetitionsArePaidFor ==
  ASSUME DedupMax >= 2 * Window - 1
  PROVE  PollerSpec => []OneDuplicatePerFault
<1>1. PollerInv => OneDuplicatePerFault
  <2> SUFFICES ASSUME PollerInv
               PROVE  OneDuplicatePerFault
    OBVIOUS
  <2>1. IsFiniteSet(Item)
    BY FS_Interval, HttpPollerAssumption DEF Item
  <2>2. Cardinality(Risk) \in Nat
    BY <2>1, FS_Subset, FS_CardinalityType DEF Risk
  <2>3. Cardinality(Repeats) \in Nat
    BY FS_CardinalityType DEF PollerInv, PaidFor
  <2>4. mishaps \in Nat
    BY DEF PollerInv, PublishedInv, SeenWasPublished, PollerTypeOK
  <2> QED
    BY <2>2, <2>3, <2>4 DEF PollerInv, PaidFor, OneDuplicatePerFault
<1> QED
  BY <1>1, PollerInvInit, PollerInvStep, PTL DEF PollerSpec

-----------------------------------------------------------------------------
(***************************************************************************)
(* The Fyers feed.                                                         *)
(***************************************************************************)

\* The state's functions and sequences, of which FyersTypeOK names the values.
Shapes ==
    /\ _sym_data \in [Id -> Snapshot \cup {Nothing}]
    /\ number \in [Key -> Id \cup {0}]
    /\ value \in [Key -> 0..MaxTicks]
    /\ market \in [Key -> Value \cup {Nothing}]
    /\ wire \in Seq(Seq(Record))
    /\ pending \in Seq(Snapshot)

\* A session that has not subscribed yet, or has closed its socket, has nothing at the
\* broker, and no handler changes that.
NotYetSubscribed ==
    /\ pc \in {"token", "connect", "auth", "resolve", "subscribe"} => _state # "streaming"
    /\ pc \in {"token", "connect", "auth", "resolve", "hangup", "close", "backoff", "ended"}
          => subs = {} /\ wire = <<>>
    /\ pc \in {"token", "connect", "hangup", "close", "backoff", "ended"} => socket = "none"
    /\ pc \in {"token", "connect", "close", "backoff", "ended"} => _live_ws # "current"
    /\ socket = "none" => subs = {} /\ wire = <<>>
    /\ \A k \in Key : number[k] = 0 <=> k \notin subs

\* The records of a frame are of different keys and numbers, and tell true values.
WellFormed(frame) ==
    /\ \A m, n \in DOMAIN frame :
          m # n => frame[m].key # frame[n].key /\ frame[m].id # frame[n].id
    /\ \A m \in DOMAIN frame :
          frame[m].value[1] = frame[m].key /\ frame[m].value[2] <= value[frame[m].key]

\* A value an instrument may be shown with: its own, or that of one with a dropped
\* record.
May(k, v) == (v[1] = k \/ v[1] \in skipped) /\ v[2] <= value[v[1]]

Owned ==
    /\ \A i \in Id : _sym_data[i] # Nothing => May(_sym_data[i].key, _sym_data[i].value)
    /\ \A p \in DOMAIN pending : May(pending[p].key, pending[p].value)
    /\ \A k \in Key : market[k] # Nothing => May(k, market[k])

\* The frame has a snapshot with this number, or one of this number and key.
Names(frame, i) == \E m \in DOMAIN frame : frame[m].kind = "snapshot" /\ frame[m].id = i
Gives(frame, i, k) ==
    \E m \in DOMAIN frame : frame[m].kind = "snapshot" /\ frame[m].id = i /\ frame[m].key = k

\* Once the first n frames of the wire are read, number i stands for k.
Stands(i, k, n) ==
    \/ \E a \in 1..n : /\ Gives(wire[a], i, k)
                       /\ \A b \in (a + 1)..n : ~Names(wire[b], i)
    \/ /\ _sym_data[i] # Nothing /\ _sym_data[i].key = k
       /\ \A b \in 1..n : ~Names(wire[b], i)

\* An update is of the key that its number will stand for when it is read, and so is
\* the next one the broker may send.
UpdatesFindTheirs ==
    /\ \A a \in DOMAIN wire : \A m \in DOMAIN wire[a] :
          wire[a][m].kind = "update"
              => Stands(wire[a][m].id, wire[a][m].key, a - 1) \/ wire[a][m].key \in skipped
    /\ socket = "ok" => \A k \in subs : Stands(number[k], k, Len(wire)) \/ k \in skipped

Typed == FyersTypeOK /\ Shapes /\ NotYetSubscribed
Content == (\A a \in DOMAIN wire : WellFormed(wire[a])) /\ Owned /\ UpdatesFindTheirs

QuotesInv == Typed /\ Content

\* The frame has a record of this key, or a snapshot.
Of(frame, k) == \E m \in DOMAIN frame : frame[m].key = k
Snaps(frame, k) == \E m \in DOMAIN frame : frame[m].kind = "snapshot" /\ frame[m].key = k

\* From the last snapshot of a key on, its number is its alone.
NumberIsItsOwn(k) ==
    \A a \in DOMAIN wire :
        (\A b \in DOMAIN wire : b > a => ~Snaps(wire[b], k))
            => \A m \in DOMAIN wire[a] : wire[a][m].key = k <=> wire[a][m].id = number[k]

OwnTick(p, k) == pending[p].key = k /\ pending[p].value[1] = k

\* The last of its own values that the market service had of k or will have is v.
Told(k, v) ==
    \/ \E p \in DOMAIN pending :
          /\ OwnTick(p, k) /\ pending[p].value = v
          /\ \A q \in DOMAIN pending : q > p /\ OwnTick(q, k) => pending[q].value = v
    \/ /\ \A q \in DOMAIN pending : ~OwnTick(q, k)
       /\ market[k] = v \/ (market[k] # Nothing /\ market[k][1] # k)

\* Without a snapshot of k on its way, the feed knows its number and has told its value.
KnownIsTold(k) ==
    (\A a \in DOMAIN wire : ~Snaps(wire[a], k)) =>
        LET known == _sym_data[number[k]]
        IN  known # Nothing /\ known.key = k /\ known.value[1] = k /\ Told(k, known.value)

\* The last record of k on its way has its value; without one the feed has it.
LastIsCurrent(k) ==
    /\ \A a \in DOMAIN wire : \A m \in DOMAIN wire[a] :
          (wire[a][m].key = k /\ \A b \in DOMAIN wire : b > a => ~Of(wire[b], k))
              => wire[a][m].value = <<k, value[k]>>
    /\ (\A a \in DOMAIN wire : ~Of(wire[a], k)) => _sym_data[number[k]].value = <<k, value[k]>>

Catching ==
    socket = "ok" => /\ \A k \in subs : NumberIsItsOwn(k)
                     /\ \A k \in subs \ skipped : KnownIsTold(k) /\ LastIsCurrent(k)

CurrentInv == QuotesInv /\ Catching

-----------------------------------------------------------------------------
(***************************************************************************)
(* What _parse_datafeed makes of a frame.                                  *)
(***************************************************************************)

Account == [data : [Id -> Snapshot \cup {Nothing}], out : Seq(Snapshot), ok : BOOLEAN,
            behind : SUBSET Key]

Opened(data) == [data |-> data, out |-> <<>>, ok |-> TRUE, behind |-> {}]

\* f is what the decoder has after each of the first n records.
Decoding(data, frame, n, f) ==
    f = [m \in 0..n |-> IF m = 0 THEN Opened(data) ELSE Decoded(f[m - 1], frame[m])]

\* The decoder gets through the frame.
LEMMA DecodingExists ==
  ASSUME NEW data, NEW frame \in Seq(Record)
  PROVE  \E f : Decoding(data, frame, Len(frame), f)
<1> DEFINE stuck == {n \in 0..Len(frame) : ~\E f : Decoding(data, frame, n, f)}
<1>1. Len(frame) \in Nat
  OBVIOUS
<1>2. SUFFICES ASSUME stuck # {}
               PROVE  FALSE
  BY <1>1
<1>3. PICK x \in stuck : \A y \in stuck : x <= y
  <2>1. stuck \in SUBSET Nat
    BY <1>1
  <2> HIDE DEF stuck
  <2> QED
    BY <1>2, <2>1, LeastOne
<1>4. x \in 0..Len(frame) /\ ~\E f : Decoding(data, frame, x, f)
  OBVIOUS
<1>5. CASE x = 0
  <2>1. Decoding(data, frame, 0, [m \in 0..0 |-> Opened(data)])
    BY DEF Decoding
  <2> QED
    BY <1>4, <1>5, <2>1
<1>6. CASE x # 0
  <2>1. x - 1 \in 0..Len(frame) /\ x - 1 \notin stuck
    BY <1>1, <1>3, <1>4, <1>6
  <2>2. PICK f : Decoding(data, frame, x - 1, f)
    BY <2>1
  <2> DEFINE g == [m \in 0..x |-> IF m = x THEN Decoded(f[x - 1], frame[x]) ELSE f[m]]
  <2>3. \A m \in 0..(x - 1) : f[m] = IF m = 0 THEN Opened(data) ELSE Decoded(f[m - 1], frame[m])
    BY <2>2 DEF Decoding
  <2>4. ASSUME NEW m \in 0..x
        PROVE  g[m] = IF m = 0 THEN Opened(data) ELSE Decoded(g[m - 1], frame[m])
    <3>1. CASE m = x
      <4>1. g[m - 1] = f[x - 1] /\ m # 0
        BY <1>4, <1>6, <3>1
      <4> QED
        BY <3>1, <4>1
    <3>2. CASE m # x
      <4>1. m \in 0..(x - 1) /\ g[m] = f[m]
        BY <1>4, <3>2
      <4>2. m # 0 => m - 1 \in 0..x /\ m - 1 # x /\ g[m - 1] = f[m - 1]
        BY <1>4, <4>1
      <4> HIDE DEF g
      <4> QED
        BY <2>3, <4>1, <4>2
    <3> QED
      BY <3>1, <3>2
  <2>5. DOMAIN g = 0..x /\ g = [m \in 0..x |-> g[m]]
    OBVIOUS
  <2> HIDE DEF g
  <2>6. Decoding(data, frame, x, g)
    BY <2>4, <2>5 DEF Decoding
  <2> QED
    BY <1>4, <2>6
<1> QED
  BY <1>5, <1>6

\* f holds the accounts before the first record and after each one.
Accounts(data, frame, f) ==
    /\ f[0] = Opened(data)
    /\ \A n \in 1..Len(frame) : f[n] = Decoded(f[n - 1], frame[n])
    /\ Parsed(data, frame) = f[Len(frame)]

\* The decoder takes the records one after the other.
LEMMA ParsedInSteps ==
  ASSUME NEW data, NEW frame \in Seq(Record)
  PROVE  \E f : Accounts(data, frame, f)
<1> DEFINE f == CHOOSE f : Decoding(data, frame, Len(frame), f)
<1>1. Decoding(data, frame, Len(frame), f)
  BY DecodingExists
<1>2. Parsed(data, frame) = f[Len(frame)]
  BY DEF Parsed, Decoding, Opened
<1> HIDE DEF f
<1>3. Len(frame) \in Nat
  OBVIOUS
<1>4. \A m \in 0..Len(frame) : f[m] = IF m = 0 THEN Opened(data) ELSE Decoded(f[m - 1], frame[m])
  BY <1>1 DEF Decoding
<1>5. f[0] = Opened(data) /\ \A n \in 1..Len(frame) : f[n] = Decoded(f[n - 1], frame[n])
  BY <1>3, <1>4
<1>6. Accounts(data, frame, f)
  BY <1>2, <1>5 DEF Accounts
<1> QED
  BY <1>6

\* The instrument that a record's tick is told for, and whether one is due.
Addressee(data, r) == IF r.kind = "snapshot" THEN r.key ELSE data[r.id].key
IsNews(data, r) ==
    r.kind = "snapshot" \/ (data[r.id] # Nothing /\ data[r.id].value # r.value)

TickOf(data, r) == [key |-> Addressee(data, r), value |-> r.value]

\* What a record did to the data it found, unless it was dropped.
Applied(data, acc, r) ==
    /\ r.kind = "snapshot" =>
          \/ acc.data[r.id] = [key |-> r.key, value |-> r.value]
          \/ acc.data[r.id] = data[r.id] /\ r.key \in acc.behind
    /\ r.kind = "update" =>
          \/ data[r.id] # Nothing /\ acc.data[r.id] = [key |-> data[r.id].key, value |-> r.value]
          \/ acc.data[r.id] = data[r.id] /\ (data[r.id] = Nothing \/ r.key \in acc.behind)

\* A record that is news is told, unless somebody's record was dropped.
Announced(data, acc, r) ==
    (/\ IsNews(data, r) /\ HasTopic(Addressee(data, r))
     /\ Addressee(data, r) \notin acc.behind /\ r.key \notin acc.behind)
        => \E p \in DOMAIN acc.out : acc.out[p] = TickOf(data, r)

\* What has been told of the records so far.
Accounted(data, frame, acc, n) ==
    /\ acc \in Account
    /\ \A i \in Id : (\A m \in 1..n : frame[m].id # i) => acc.data[i] = data[i]
    /\ \A m \in 1..n : Applied(data, acc, frame[m]) /\ Announced(data, acc, frame[m])
    /\ \A p \in DOMAIN acc.out :
          \E m \in 1..n : IsNews(data, frame[m]) /\ acc.out[p] = TickOf(data, frame[m])

\* An account may change one part at a time.
LEMMA AccountParts ==
  ASSUME NEW acc \in Account, NEW r \in Record
  PROVE  /\ acc.data \in [Id -> Snapshot \cup {Nothing}]
         /\ acc.out \in Seq(Snapshot)
         /\ acc.ok \in BOOLEAN
         /\ acc.behind \in SUBSET Key
         /\ r.id \in Id /\ r.key \in Key /\ r.value \in Value
         /\ r.kind \in {"snapshot", "update"}
BY DEF Account, Record

\* A tick as the data has it.
LEMMA SnapshotParts ==
  ASSUME NEW t \in Snapshot
  PROVE  t.key \in Key /\ t.value \in Value /\ t = [key |-> t.key, value |-> t.value] /\ t # Nothing
<1>1. t.key \in Key /\ t.value \in Value /\ t = [key |-> t.key, value |-> t.value]
  BY DEF Snapshot
<1>2. t.value \in Key \X Nat
  BY <1>1, FyersFeedAssumption DEF Value
<1>3. t \in [key : Key, value : Key \X Nat]
  BY <1>1, <1>2
<1> QED
  BY <1>1, <1>3, FyersFeedAssumption

\* What _emit_tick does to the account.
LEMMA EmittedFacts ==
  ASSUME NEW acc \in Account, NEW i \in Id, acc.data[i] \in Snapshot
  PROVE  /\ Emitted(acc, i) \in Account
         /\ Emitted(acc, i).data = acc.data
         /\ acc.behind \subseteq Emitted(acc, i).behind
         /\ \/ Emitted(acc, i).out = Append(acc.out, acc.data[i])
            \/ /\ Emitted(acc, i).out = acc.out
               /\ HasTopic(acc.data[i].key) => acc.data[i].key \in Emitted(acc, i).behind
<1> DEFINE t == acc.data[i]
           e == Emitted(acc, i)
<1>1. /\ acc.data \in [Id -> Snapshot \cup {Nothing}] /\ acc.out \in Seq(Snapshot)
      /\ acc.ok \in BOOLEAN /\ acc.behind \in SUBSET Key
  BY DEF Account
<1>2. t.key \in Key
  BY SnapshotParts
<1>3. CASE ~HasTopic(t.key)
  BY <1>3 DEF Emitted
<1>4. CASE HasTopic(t.key) /\ t.value \in Refused
  <2>1. e = [acc EXCEPT !.ok = FALSE, !.behind = @ \cup {t.key}]
    BY <1>4 DEF Emitted
  <2>2. e \in Account /\ e.data = acc.data /\ e.out = acc.out /\ e.behind = acc.behind \cup {t.key}
    BY <2>1, <1>1, <1>2 DEF Account
  <2> QED
    BY <2>2
<1>5. CASE HasTopic(t.key) /\ t.value \notin Refused
  <2>1. e = [acc EXCEPT !.out = Append(@, t)]
    BY <1>5 DEF Emitted
  <2>2. Append(acc.out, t) \in Seq(Snapshot)
    BY <1>1
  <2>3. /\ e \in Account /\ e.data = acc.data /\ e.out = Append(acc.out, t)
        /\ e.behind = acc.behind
    BY <2>1, <2>2, <1>1 DEF Account
  <2> QED
    BY <2>3
<1> QED
  BY <1>3, <1>4, <1>5

\* What one record does to the account.
LEMMA DecodedFacts ==
  ASSUME NEW acc \in Account, NEW r \in Record
  PROVE  LET new == Decoded(acc, r)
         IN  /\ new \in Account
             /\ \A i \in Id : i # r.id => new.data[i] = acc.data[i]
             /\ acc.behind \subseteq new.behind
             /\ Applied(acc.data, new, r)
             /\ \/ IsNews(acc.data, r) /\ new.out = Append(acc.out, TickOf(acc.data, r))
                \/ /\ new.out = acc.out
                   /\ (IsNews(acc.data, r) /\ HasTopic(Addressee(acc.data, r)))
                         => Addressee(acc.data, r) \in new.behind \/ r.key \in new.behind
<1> DEFINE new == Decoded(acc, r)
<1>1. /\ acc.data \in [Id -> Snapshot \cup {Nothing}] /\ acc.out \in Seq(Snapshot)
      /\ acc.ok \in BOOLEAN /\ acc.behind \in SUBSET Key
      /\ r.id \in Id /\ r.key \in Key /\ r.value \in Value
      /\ r.kind \in {"snapshot", "update"}
  BY AccountParts
<1>2. CASE ~acc.ok
  <2>1. new = [acc EXCEPT !.behind = @ \cup {r.key}]
    BY <1>2 DEF Decoded
  <2>2. /\ new \in Account /\ new.data = acc.data /\ new.out = acc.out
        /\ new.behind = acc.behind \cup {r.key}
    BY <2>1, <1>1 DEF Account
  <2> QED
    BY <2>2 DEF Applied
<1>3. CASE acc.ok /\ r.kind = "snapshot"
  <2> DEFINE t == [key |-> r.key, value |-> r.value]
             mid == [acc EXCEPT !.data = Numbered(@, r)]
  <2>1. t \in Snapshot
    BY <1>1 DEF Snapshot
  <2>2. Numbered(acc.data, r) = [acc.data EXCEPT ![r.id] = t]
    BY DEF Numbered
  <2>3. /\ mid \in Account /\ mid.out = acc.out /\ mid.behind = acc.behind
        /\ mid.data = [acc.data EXCEPT ![r.id] = t]
    <3>1. Numbered(acc.data, r) \in [Id -> Snapshot \cup {Nothing}]
      BY <1>1, <2>1, <2>2
    <3> QED
      BY <3>1, <2>2, <1>1 DEF Account
  <2>4. new = Emitted(mid, r.id)
    BY <1>3 DEF Decoded
  <2>5. mid.data[r.id] = t /\ \A i \in Id : i # r.id => mid.data[i] = acc.data[i]
    BY <1>1, <2>3
  <2>6. IsNews(acc.data, r) /\ Addressee(acc.data, r) = r.key /\ TickOf(acc.data, r) = t
        /\ t.key = r.key
    BY <1>3 DEF IsNews, Addressee, TickOf
  <2> HIDE DEF mid, t, new
  <2>7. /\ new \in Account /\ new.data = mid.data /\ mid.behind \subseteq new.behind
        /\ \/ new.out = Append(mid.out, mid.data[r.id])
           \/ /\ new.out = mid.out
              /\ HasTopic(mid.data[r.id].key) => mid.data[r.id].key \in new.behind
    BY <1>1, <2>1, <2>3, <2>4, <2>5, EmittedFacts
  <2>8. Applied(acc.data, new, r)
    BY <1>3, <2>5, <2>7 DEF Applied, t
  <2> QED
    BY <2>3, <2>5, <2>6, <2>7, <2>8 DEF new
<1>4. CASE acc.ok /\ r.kind = "update" /\ (acc.data[r.id] = Nothing \/ acc.data[r.id].value = r.value)
  <2>1. new = acc
    BY <1>4 DEF Decoded
  <2>2. ~IsNews(acc.data, r)
    BY <1>4 DEF IsNews
  <2>3. Applied(acc.data, acc, r)
    <3>1. CASE acc.data[r.id] = Nothing
      BY <1>4, <3>1 DEF Applied
    <3>2. CASE acc.data[r.id] # Nothing
      <4>1. acc.data[r.id] \in Snapshot /\ acc.data[r.id].value = r.value
        BY <1>1, <1>4, <3>2
      <4>2. acc.data[r.id] = [key |-> acc.data[r.id].key, value |-> r.value]
        BY <4>1, SnapshotParts
      <4> QED
        BY <1>4, <3>2, <4>2 DEF Applied
    <3> QED
      BY <3>1, <3>2
  <2> QED
    BY <2>1, <2>2, <2>3
<1>5. CASE acc.ok /\ r.kind = "update" /\ ~(acc.data[r.id] = Nothing \/ acc.data[r.id].value = r.value)
  <2> DEFINE t == [key |-> acc.data[r.id].key, value |-> r.value]
             mid == [acc EXCEPT !.data[r.id].value = r.value]
  <2>1. acc.data[r.id] \in Snapshot
    BY <1>1, <1>5
  <2>2. acc.data[r.id].key \in Key
        /\ acc.data[r.id] = [key |-> acc.data[r.id].key, value |-> acc.data[r.id].value]
    BY <2>1, SnapshotParts
  <2>3. t \in Snapshot /\ [acc.data[r.id] EXCEPT !.value = r.value] = t
    <3>1. t \in Snapshot
      BY <1>1, <2>2 DEF Snapshot
    <3>2. [acc.data[r.id] EXCEPT !.value = r.value] = t
      BY <2>2
    <3> QED
      BY <3>1, <3>2
  <2>4. mid = [acc EXCEPT !.data = [acc.data EXCEPT ![r.id] = t]]
    BY <2>3
  <2>5. [acc.data EXCEPT ![r.id] = t] \in [Id -> Snapshot \cup {Nothing}]
    BY <1>1, <2>3
  <2>6. /\ mid \in Account /\ mid.out = acc.out /\ mid.behind = acc.behind
        /\ mid.data = [acc.data EXCEPT ![r.id] = t]
    <3> HIDE DEF t, mid
    <3> QED
      BY <1>1, <2>4, <2>5 DEF Account
  <2>7. new = Emitted(mid, r.id)
    BY <1>5 DEF Decoded
  <2>8. mid.data[r.id] = t /\ \A i \in Id : i # r.id => mid.data[i] = acc.data[i]
    BY <1>1, <2>6
  <2>9. /\ IsNews(acc.data, r) /\ Addressee(acc.data, r) = acc.data[r.id].key
        /\ TickOf(acc.data, r) = t /\ t.key = acc.data[r.id].key
    BY <1>5 DEF IsNews, Addressee, TickOf
  <2>10. acc.data[r.id] # Nothing
    BY <1>5
  <2> HIDE DEF mid, t, new
  <2>11. /\ new \in Account /\ new.data = mid.data /\ mid.behind \subseteq new.behind
         /\ \/ new.out = Append(mid.out, mid.data[r.id])
            \/ /\ new.out = mid.out
               /\ HasTopic(mid.data[r.id].key) => mid.data[r.id].key \in new.behind
    BY <1>1, <2>3, <2>6, <2>7, <2>8, EmittedFacts
  <2>12. Applied(acc.data, new, r)
    BY <1>5, <2>8, <2>10, <2>11 DEF Applied, t
  <2> QED
    BY <2>6, <2>8, <2>9, <2>11, <2>12 DEF new
<1> QED
  BY <1>1, <1>2, <1>3, <1>4, <1>5

\* Before the first record nothing is told.
LEMMA AccountedStart ==
  ASSUME NEW data \in [Id -> Snapshot \cup {Nothing}], NEW frame \in Seq(Record)
  PROVE  Accounted(data, frame, Opened(data), 0)
<1>1. Opened(data) \in Account /\ Opened(data).data = data /\ DOMAIN Opened(data).out = {}
  BY DEF Opened, Account
<1> QED
  BY <1>1 DEF Accounted

\* The next record is accounted for.
LEMMA AccountedStep ==
  ASSUME NEW data \in [Id -> Snapshot \cup {Nothing}], NEW frame \in Seq(Record),
         \A m, n \in DOMAIN frame : m # n => frame[m].id # frame[n].id,
         NEW n \in 1..Len(frame), NEW acc, Accounted(data, frame, acc, n - 1)
  PROVE  Accounted(data, frame, Decoded(acc, frame[n]), n)
<1> DEFINE r == frame[n]
           new == Decoded(acc, r)
<1>1. n \in Nat /\ DOMAIN frame = 1..Len(frame) /\ Len(frame) \in Nat
      /\ r \in Record /\ acc \in Account /\ \A m \in 1..n : m \in 1..Len(frame) /\ frame[m] \in Record
  BY DEF Accounted
<1>2. \A m \in 1..(n - 1) : m \in 1..n /\ m # n /\ frame[m].id # r.id
  BY <1>1
<1>3. r.id \in Id /\ \A m \in 1..n : frame[m].id \in Id
  BY <1>1, AccountParts
<1>4. acc.data[r.id] = data[r.id]
  BY <1>2, <1>3 DEF Accounted
<1> HIDE DEF r, new
<1>5. /\ new \in Account
      /\ \A i \in Id : i # r.id => new.data[i] = acc.data[i]
      /\ acc.behind \subseteq new.behind
      /\ Applied(acc.data, new, r)
      /\ \/ IsNews(acc.data, r) /\ new.out = Append(acc.out, TickOf(acc.data, r))
         \/ /\ new.out = acc.out
            /\ (IsNews(acc.data, r) /\ HasTopic(Addressee(acc.data, r)))
                  => Addressee(acc.data, r) \in new.behind \/ r.key \in new.behind
  BY <1>1, DecodedFacts DEF new
<1>6. /\ Addressee(acc.data, r) = Addressee(data, r) /\ TickOf(acc.data, r) = TickOf(data, r)
      /\ IsNews(acc.data, r) <=> IsNews(data, r)
  BY <1>4 DEF Addressee, TickOf, IsNews
<1>7. Applied(data, new, r)
  BY <1>4, <1>5 DEF Applied
<1>8. acc.out \in Seq(Snapshot) /\ new.out \in Seq(Snapshot) /\ Len(acc.out) \in Nat
      /\ DOMAIN acc.out = 1..Len(acc.out)
  BY <1>1, <1>5 DEF Account
<1>9. /\ DOMAIN acc.out \subseteq DOMAIN new.out
      /\ \A p \in DOMAIN acc.out : new.out[p] = acc.out[p]
      /\ new.out # acc.out =>
            /\ DOMAIN new.out = DOMAIN acc.out \cup {Len(acc.out) + 1}
            /\ new.out[Len(acc.out) + 1] = TickOf(data, r)
            /\ IsNews(data, r)
  <2>1. CASE new.out = acc.out
    BY <2>1
  <2>2. CASE IsNews(data, r) /\ new.out = Append(acc.out, TickOf(data, r))
    <3> DEFINE t == TickOf(data, r)
    <3> HIDE DEF t
    <3>1. /\ DOMAIN Append(acc.out, t) = 1..(Len(acc.out) + 1)
          /\ Append(acc.out, t)[Len(acc.out) + 1] = t
          /\ \A p \in 1..Len(acc.out) : Append(acc.out, t)[p] = acc.out[p]
      BY <1>8
    <3>2. 1..(Len(acc.out) + 1) = (1..Len(acc.out)) \cup {Len(acc.out) + 1}
      BY <1>8
    <3> QED
      BY <2>2, <3>1, <3>2, <1>8 DEF t
  <2> QED
    BY <1>5, <1>6, <2>1, <2>2
<1>10. Announced(data, new, r)
  <2>1. CASE new.out = acc.out
    BY <2>1, <1>5, <1>6, <1>8 DEF Announced
  <2>2. CASE new.out # acc.out
    BY <1>9, <2>2 DEF Announced
  <2> QED
    BY <2>1, <2>2
<1>11. ASSUME NEW i \in Id, \A m \in 1..n : frame[m].id # i
       PROVE  new.data[i] = data[i]
  <2>1. i # r.id /\ \A m \in 1..(n - 1) : frame[m].id # i
    BY <1>1, <1>2, <1>11 DEF r
  <2> QED
    BY <2>1, <1>5 DEF Accounted
<1>12. ASSUME NEW m \in 1..n
       PROVE  Applied(data, new, frame[m]) /\ Announced(data, new, frame[m])
  <2>1. CASE m = n
    BY <2>1, <1>7, <1>10 DEF r
  <2>2. CASE m # n
    <3>1. m \in 1..(n - 1)
      BY <1>1, <2>2
    <3>2. Applied(data, acc, frame[m]) /\ Announced(data, acc, frame[m])
      BY <3>1 DEF Accounted
    <3>3. new.data[frame[m].id] = acc.data[frame[m].id]
      BY <1>2, <1>3, <1>5, <3>1
    <3>4. Applied(data, new, frame[m])
      BY <1>5, <3>2, <3>3 DEF Applied
    <3>5. Announced(data, new, frame[m])
      BY <1>5, <1>9, <3>2 DEF Announced
    <3> QED
      BY <3>4, <3>5
  <2> QED
    BY <2>1, <2>2
<1>13. ASSUME NEW p \in DOMAIN new.out
       PROVE  \E m \in 1..n : IsNews(data, frame[m]) /\ new.out[p] = TickOf(data, frame[m])
  <2>1. CASE p \in DOMAIN acc.out
    <3>1. PICK m \in 1..(n - 1) : IsNews(data, frame[m]) /\ acc.out[p] = TickOf(data, frame[m])
      BY <2>1 DEF Accounted
    <3> QED
      BY <1>2, <1>9, <2>1, <3>1
  <2>2. CASE p \notin DOMAIN acc.out
    <3>1. p = Len(acc.out) + 1 /\ new.out # acc.out
      BY <1>9, <1>13, <2>2
    <3>2. n \in 1..n
      BY <1>1
    <3> QED
      BY <1>9, <3>1, <3>2 DEF r
  <2> QED
    BY <2>1, <2>2
<1>14. Accounted(data, frame, new, n)
  BY <1>5, <1>11, <1>12, <1>13 DEF Accounted
<1> QED
  BY <1>14 DEF new, r

\* What the whole frame does.
LEMMA ParsedFacts ==
  ASSUME NEW data \in [Id -> Snapshot \cup {Nothing}], NEW frame \in Seq(Record),
         \A m, n \in DOMAIN frame : m # n => frame[m].id # frame[n].id
  PROVE  Accounted(data, frame, Parsed(data, frame), Len(frame))
<1>0. PICK f : Accounts(data, frame, f)
  BY ParsedInSteps
<1>1. /\ f[0] = Opened(data)
      /\ \A n \in 1..Len(frame) : f[n] = Decoded(f[n - 1], frame[n])
      /\ Parsed(data, frame) = f[Len(frame)]
  BY <1>0 DEF Accounts
<1>2. Len(frame) \in Nat
  OBVIOUS
<1> DEFINE wrong == {n \in 0..Len(frame) : ~Accounted(data, frame, f[n], n)}
<1>3. ASSUME wrong # {}
      PROVE  FALSE
  <2>1. wrong \in SUBSET Nat
    BY <1>2
  <2>2. PICK x \in wrong : \A y \in wrong : x <= y
    <3> HIDE DEF wrong
    <3> QED
      BY <1>3, <2>1, LeastOne
  <2>3. x \in 0..Len(frame) /\ ~Accounted(data, frame, f[x], x)
    OBVIOUS
  <2>4. x # 0
    BY <1>1, <2>3, AccountedStart
  <2>5. x \in 1..Len(frame) /\ x - 1 \in 0..Len(frame) /\ ~(x <= x - 1)
    BY <1>2, <2>3, <2>4
  <2>6. Accounted(data, frame, f[x - 1], x - 1)
    BY <2>2, <2>5
  <2> HIDE DEF wrong
  <2>7. Accounted(data, frame, Decoded(f[x - 1], frame[x]), x)
    BY <2>5, <2>6, AccountedStep
  <2> QED
    BY <1>1, <2>3, <2>5, <2>7
<1>4. Len(frame) \in 0..Len(frame)
  BY <1>2
<1> QED
  BY <1>1, <1>3, <1>4

-----------------------------------------------------------------------------
(***************************************************************************)
(* What the broker sends.                                                  *)
(***************************************************************************)

RecordOf(kind, k, num, val) == [kind |-> kind, id |-> num[k], key |-> k, value |-> <<k, val[k]>>]

\* The frame has one record of each instrument of K.
Lists(frame, kind, K, num, val) ==
    /\ frame \in Seq(Record)
    /\ \A m \in DOMAIN frame : \E k \in K : frame[m] = RecordOf(kind, k, num, val)
    /\ \A k \in K : \E m \in DOMAIN frame : frame[m] = RecordOf(kind, k, num, val)
    /\ \A m, n \in DOMAIN frame : m # n => frame[m] # frame[n]

\* The broker's frame does.
LEMMA RecordsFacts ==
  ASSUME NEW kind \in {"snapshot", "update"}, NEW K \in SUBSET Key, NEW num, NEW val,
         \A k \in K : num[k] \in Id /\ val[k] \in 0..MaxTicks
  PROVE  Lists(Records(kind, K, num, val), kind, K, num, val)
<1> DEFINE S == {RecordOf(kind, k, num, val) : k \in K}
           frame == Records(kind, K, num, val)
           g == [k \in K |-> RecordOf(kind, k, num, val)]
<1>1. IsFiniteSet(K)
  BY FyersFeedAssumption, FS_Subset
<1>2. g \in Surjection(K, S)
  <2>1. g \in [K -> S]
    OBVIOUS
  <2>2. \A t \in S : \E k \in K : g[k] = t
    OBVIOUS
  <2> HIDE DEF g, S
  <2> QED
    BY <2>1, <2>2 DEF Surjection
<1>3. IsFiniteSet(S)
  <2> HIDE DEF g, S
  <2> QED
    BY <1>1, <1>2, FS_Surjection
<1>4. S \subseteq Record
  <2> SUFFICES ASSUME NEW k \in K
               PROVE  RecordOf(kind, k, num, val) \in Record
    OBVIOUS
  <2>1. num[k] \in Id /\ k \in Key /\ <<k, val[k]>> \in Value
    BY DEF Value
  <2> QED
    BY <2>1 DEF RecordOf, Record
<1>5. frame = CHOOSE f \in [1..Cardinality(S) -> S] : IsInjective(f)
  BY DEF Records, RecordOf, SetToSeq
<1> HIDE DEF g, frame
<1>6. Cardinality(S) \in Nat /\ ExistsBijection(1..Cardinality(S), S)
  <2> HIDE DEF S
  <2> QED
    BY <1>3, FS_CardinalityType
<1>7. \E f \in [1..Cardinality(S) -> S] : IsInjective(f)
  <2> HIDE DEF S
  <2> QED
    BY <1>6 DEF ExistsBijection, Bijection, Injection
<1>8. frame \in [1..Cardinality(S) -> S] /\ IsInjective(frame)
  <2> HIDE DEF S
  <2> QED
    BY <1>5, <1>7
<1>9. frame \in Surjection(1..Cardinality(S), S)
  <2> DEFINE D == 1..Cardinality(S)
  <2>1. frame \in Injection(D, S)
    BY <1>8 DEF Injection
  <2>2. Cardinality(D) = Cardinality(S)
    BY <1>6, FS_Interval
  <2> HIDE DEF S, D
  <2>3. frame \in Surjection(D, S)
    BY <1>3, <2>1, <2>2, FS_Injection
  <2> QED
    BY <2>3 DEF D
<1>10. frame \in Seq(Record)
  <2> HIDE DEF S
  <2>1. frame \in Seq(S)
    BY <1>6, <1>8
  <2> QED
    BY <1>4, <2>1, SeqMonotonic
<1>11. DOMAIN frame = 1..Cardinality(S)
  <2> HIDE DEF S
  <2> QED
    BY <1>8
<1>12. \A m \in DOMAIN frame : frame[m] \in S
  <2> HIDE DEF S
  <2> QED
    BY <1>8, <1>11
<1>13. \A t \in S : \E m \in DOMAIN frame : frame[m] = t
  <2> HIDE DEF S
  <2> QED
    BY <1>9, <1>11 DEF Surjection
<1>14. \A m, n \in DOMAIN frame : m # n => frame[m] # frame[n]
  BY <1>8 DEF IsInjective
<1>15. \A m \in DOMAIN frame : \E k \in K : frame[m] = RecordOf(kind, k, num, val)
  BY <1>12
<1>16. \A k \in K : \E m \in DOMAIN frame : frame[m] = RecordOf(kind, k, num, val)
  BY <1>13
<1> HIDE DEF S
<1> QED
  BY <1>10, <1>14, <1>15, <1>16 DEF frame, Lists

-----------------------------------------------------------------------------
(***************************************************************************)
(* The state's types, and what a session has before it subscribes.         *)
(***************************************************************************)

\* What the assumption says of single constants.
LEMMA FyersBounds ==
  /\ Configured \in (SUBSET Key) \ {{}} /\ IsFiniteSet(Key) /\ Nobody \notin Caller
  /\ Index \subseteq Key
  /\ MaxStarts \in Nat /\ MaxCalls \in Nat /\ MaxTicks \in Nat /\ MaxFaults \in Nat
  /\ Cardinality(Key) \in Nat
BY FyersFeedAssumption, FS_CardinalityType

\* The initial state has its types.
LEMMA TypedInit == FyersInit => Typed
<1> SUFFICES ASSUME FyersInit
             PROVE  Typed
  OBVIOUS
<1>1. FyersTypeOK
  <2>1. DOMAIN _hsm_symbols = {} /\ DOMAIN wire = {} /\ DOMAIN pending = {}
    BY DEF FyersInit
  <2>2. /\ {stop_set, barren} \subseteq BOOLEAN /\ _live_ws = "none"
        /\ leaving \in [Leaver -> {"none", "hangup", "release", "abort", "farewell"}]
    BY DEF FyersInit
  <2>3. /\ _state \in {"stopped", "connecting", "streaming", "reconnecting", "auth_required"}
        /\ pc \in {"token", "connect", "auth", "resolve", "subscribe", "recv", "hangup", "release",
                   "close", "backoff", "ended"}
        /\ outcome \in {"none", "stopped", "retry"}
        /\ socket \in {"none", "ok", "broken"}
    BY DEF FyersInit
  <2>4. \A k \in Key : value[k] \in 0..MaxTicks /\ market[k] \in Value \cup {Nothing}
    BY FyersBounds DEF FyersInit
  <2>5. starts \in 0..MaxStarts /\ calls \in 0..MaxCalls /\ faults \in 0..MaxFaults
    BY FyersBounds DEF FyersInit
  <2> QED
    BY <2>1, <2>2, <2>3, <2>4, <2>5, FyersBounds DEF FyersInit, FyersTypeOK
<1>2. Shapes
  BY FyersBounds DEF FyersInit, Shapes, Value
<1>3. NotYetSubscribed
  BY DEF FyersInit, NotYetSubscribed
<1> QED
  BY <1>1, <1>2, <1>3 DEF Typed

\* What the steps of the run, the leavers and the handlers change that is neither data nor
\* the broker's: a subscription that is sent is not among them.
LocalStep ==
    \/ HasToken \/ TokenMissing \/ Connected \/ ConnectFails \/ AuthEnds \/ LookupFails \/ Subscribed
    \/ ReceiveEnds \/ HungUp \/ Release \/ Closed \/ BackoffEnds \/ Stop \/ Start
    \/ \E valid \in SUBSET asked : Resolved(valid) /\ socket # "ok"
    \/ \E l \in Leaver : \/ Cancel(l) \/ LeaverHungUp(l) \/ LeaverReleases(l) \/ LeaverEnds(l)
                         \/ \E n \in 0..Len(wire) : LeaverAborts(l, n)
    \/ \E n \in 0..Len(wire) : SocketBreaks(n)
    \/ \E c \in Caller : Drained(c)

\* They leave the broker alone, or close the socket, or break it.
LetsBe == UNCHANGED brokerVars /\ (socket' = socket \/ subs = {})
Cuts(n) == wire' = SubSeq(wire, 1, n) /\ socket = "ok" /\ socket' = "broken" /\ UNCHANGED <<subs, number>>

LEMMA LocalFacts ==
  ASSUME Typed, LocalStep
  PROVE  /\ UNCHANGED <<value, _sym_data, pending, market, skipped>>
         /\ LetsBe \/ CloseSocket \/ \E n \in 0..Len(wire) : Cuts(n)
<1> USE DEF RunOnly, LeaverOnly, feedVars, runVars, brokerVars, tickVars, countVars, LetsBe
<1>1. CASE Connected
  BY <1>1 DEF Connected, Typed, NotYetSubscribed
<1>2. CASE AuthEnds \/ LookupFails \/ Subscribed
  BY <1>2 DEF AuthEnds, LookupFails, Subscribed, AfterFailedLookup, HangUp
<1>3. CASE HasToken \/ TokenMissing \/ ConnectFails
  BY <1>3 DEF HasToken, TokenMissing, ConnectFails
<1>4. CASE ReceiveEnds \/ HungUp \/ Closed \/ BackoffEnds \/ Stop \/ Start
  BY <1>4 DEF ReceiveEnds, HungUp, Closed, BackoffEnds, Stop, Start
<1>5. CASE Release
  BY <1>5 DEF Release
<1>6. CASE \E valid \in SUBSET asked : Resolved(valid) /\ socket # "ok"
  BY <1>6 DEF Resolved, HangUp
<1>7. CASE \E l \in Leaver : Cancel(l) \/ LeaverHungUp(l) \/ LeaverReleases(l) \/ LeaverEnds(l)
  BY <1>7 DEF Cancel, LeaverHungUp, LeaverReleases, LeaverEnds
<1>8. CASE \E l \in Leaver : \E n \in 0..Len(wire) : LeaverAborts(l, n)
  BY <1>8 DEF LeaverAborts, Cuts
<1>9. CASE \E n \in 0..Len(wire) : SocketBreaks(n)
  BY <1>9 DEF SocketBreaks, Cuts
<1>10. CASE \E c \in Caller : Drained(c)
  BY <1>10 DEF Drained
<1> QED
  BY <1>1, <1>2, <1>3, <1>4, <1>5, <1>6, <1>7, <1>8, <1>9, <1>10 DEF LocalStep

\* A broken socket leaves a part of what was on its way.
LEMMA CutFacts ==
  ASSUME Typed, NEW n \in 0..Len(wire), wire' = SubSeq(wire, 1, n)
  PROVE  /\ wire' \in Seq(Seq(Record)) /\ (wire = <<>> => wire' = <<>>)
         /\ \A i \in DOMAIN wire' : \A j \in DOMAIN wire'[i] : wire'[i][j] \in Record
<1>1. wire \in Seq(Seq(Record)) /\ Len(wire) \in Nat /\ n \in Int
  BY DEF Typed, Shapes
<1>2. wire' \in Seq(Seq(Record)) /\ Len(wire') = n
  BY <1>1
<1>3. wire = <<>> => n = 0
  OBVIOUS
<1> QED
  BY <1>2, <1>3

\* They keep the shapes,
LEMMA ShapesLocal ==
  ASSUME Typed, LocalStep
  PROVE  /\ Shapes'
         /\ \A i \in DOMAIN wire' : \A j \in DOMAIN wire'[i] : wire'[i][j] \in Record
<1>1. CASE LetsBe
  BY <1>1, LocalFacts DEF LetsBe, brokerVars, Typed, FyersTypeOK, Shapes
<1>2. CASE CloseSocket
  BY <1>2, LocalFacts DEF CloseSocket, Typed, FyersTypeOK, Shapes
<1>3. CASE \E n \in 0..Len(wire) : Cuts(n)
  BY <1>3, LocalFacts, CutFacts DEF Cuts, Typed, Shapes
<1> QED
  BY <1>1, <1>2, <1>3, LocalFacts

\* and the types.
LEMMA TypedRun ==
  ASSUME Typed, LocalStep
  PROVE  Typed'
<1>0. Shapes' /\ \A i \in DOMAIN wire' : \A j \in DOMAIN wire'[i] : wire'[i][j] \in Record
  BY ShapesLocal
<1> SUFFICES FyersTypeOK' /\ NotYetSubscribed'
  BY <1>0 DEF Typed
<1> USE FyersBounds, <1>0 DEF Typed, FyersTypeOK, NotYetSubscribed, RunOnly, LeaverOnly, Fault, End,
        Leave, HangUp, CloseSocket, EnterSession, feedVars, runVars, brokerVars, tickVars, countVars
<1>1. CASE HasToken
  BY <1>1 DEF HasToken
<1>2. CASE TokenMissing
  BY <1>2 DEF TokenMissing
<1>3. CASE Connected
  BY <1>3 DEF Connected
<1>4. CASE ConnectFails
  BY <1>4 DEF ConnectFails
<1>5. CASE AuthEnds
  BY <1>5 DEF AuthEnds
<1>6. CASE LookupFails
  BY <1>6 DEF LookupFails, AfterFailedLookup
<1>7. CASE Subscribed
  BY <1>7 DEF Subscribed
<1>8. CASE ReceiveEnds
  BY <1>8 DEF ReceiveEnds
<1>9. CASE Closed
  BY <1>9 DEF Closed
<1>10. CASE BackoffEnds
  BY <1>10 DEF BackoffEnds
<1>11. CASE Stop
  BY <1>11 DEF Stop
<1>12. CASE HungUp
  BY <1>12 DEF HungUp
<1>13. CASE Start
  <2>1. starts' \in 0..MaxStarts
    BY <1>13 DEF Start
  <2>2. {stop_set, barren}' \subseteq BOOLEAN
    BY <1>13 DEF Start
  <2>3. FyersTypeOK'
    BY <1>13, <2>1, <2>2 DEF Start
  <2>4. NotYetSubscribed'
    BY <1>13 DEF Start
  <2> QED
    BY <2>3, <2>4
<1>14. CASE \E c \in Caller : Drained(c)
  <2>1. PICK c \in Caller : Drained(c)
    BY <1>14
  <2> QED
    BY <2>1 DEF Drained
<1>15. CASE Release
  BY <1>15 DEF Release
<1>16. CASE \E valid \in SUBSET asked : Resolved(valid) /\ socket # "ok"
  BY <1>16 DEF Resolved, Translation
<1>17. ASSUME NEW l \in Leaver, Cancel(l)
       PROVE  FyersTypeOK' /\ NotYetSubscribed'
  BY <1>17 DEF Cancel
<1>18. ASSUME NEW l \in Leaver, LeaverHungUp(l) \/ LeaverReleases(l) \/ LeaverEnds(l)
       PROVE  FyersTypeOK' /\ NotYetSubscribed'
  BY <1>18 DEF LeaverHungUp, LeaverReleases, LeaverEnds
<1>19. ASSUME NEW l \in Leaver, NEW n \in 0..Len(wire), LeaverAborts(l, n)
       PROVE  FyersTypeOK' /\ NotYetSubscribed'
  <2>1. wire = <<>> => wire' = <<>>
    BY <1>19, CutFacts DEF LeaverAborts
  <2>2. CASE _live_ws = "none"
    BY <1>19, <2>1, <2>2 DEF LeaverAborts
  <2>3. CASE _live_ws # "none" /\ ~(_live_ws = "current" /\ socket = "ok")
    BY <1>19, <2>1, <2>3 DEF LeaverAborts
  <2>4. CASE _live_ws = "current" /\ socket = "ok"
    BY <1>19, <2>1, <2>4 DEF LeaverAborts
  <2> QED
    BY <2>2, <2>3, <2>4
<1>20. ASSUME NEW n \in 0..Len(wire), SocketBreaks(n)
       PROVE  FyersTypeOK' /\ NotYetSubscribed'
  <2>1. wire = <<>> => wire' = <<>>
    BY <1>20, CutFacts DEF SocketBreaks
  <2> QED
    BY <1>20, <2>1 DEF SocketBreaks
<1> QED
  BY <1>1, <1>2, <1>3, <1>4, <1>5, <1>6, <1>7, <1>8, <1>9, <1>10, <1>11, <1>12, <1>13, <1>14,
     <1>15, <1>16, <1>17, <1>18, <1>19, <1>20 DEF LocalStep

-----------------------------------------------------------------------------
\* Which frames the broker sends when it is asked for the topics of K.
LEMMA SubscribeFacts ==
  ASSUME Typed, NEW K \in SUBSET Key, Subscribe(K)
  PROVE  /\ subs' \subseteq Key /\ K \subseteq subs' /\ subs' = subs \cup K
         /\ number' \in [Key -> Id \cup {0}]
         /\ \A k \in Key : number'[k] = 0 <=> k \notin subs'
         /\ \A k \in subs : number'[k] = number[k]
         /\ \A k \in subs' : number'[k] \in Id
         /\ \A k, l \in subs' : number'[k] = number'[l] => k = l
         /\ K # {} => /\ Records("snapshot", K, number', value) \in Seq(Record)
                      /\ wire' = Append(wire, Records("snapshot", K, number', value))
         /\ K = {} => wire' = wire
         /\ wire' \in Seq(Seq(Record))
<1>1. subs \subseteq Key
  BY DEF Typed, FyersTypeOK
<1>2. /\ subs' = subs \cup K
      /\ number' \in [Key -> Id \cup {0}]
      /\ \A k \in Key : number'[k] = 0 <=> k \notin subs'
      /\ \A k \in subs : number'[k] = number[k]
      /\ \A k, l \in subs' : number'[k] = number'[l] => k = l
  BY DEF Subscribe
<1>3. \A k \in subs' : number'[k] \in Id
  BY <1>1, <1>2
<1>4. Records("snapshot", K, number', value) \in Seq(Record)
  <2>1. \A k \in K : number'[k] \in Id /\ value[k] \in 0..MaxTicks
    BY <1>2, <1>3 DEF Typed, Shapes
  <2> QED
    BY <2>1, RecordsFacts DEF Lists
<1>5. wire \in Seq(Seq(Record))
  BY DEF Typed, Shapes
<1>6. /\ K # {} => wire' = Append(wire, Records("snapshot", K, number', value))
      /\ K = {} => wire' = wire
  BY DEF Subscribe
<1>7. wire' \in Seq(Seq(Record))
  BY <1>4, <1>5, <1>6
<1> QED
  BY <1>1, <1>2, <1>3, <1>4, <1>6, <1>7

\* A subscription keeps the types when its keys have topics in the new translation.
LEMMA TypedSend ==
  ASSUME Typed, AuthAccepted \/ \E valid \in SUBSET asked : Resolved(valid) /\ socket = "ok"
  PROVE  Typed'
<1> USE FyersBounds
<1> DEFINE Rest == /\ pc' \in {"subscribe", "resolve"} /\ outcome' = outcome
                   /\ asked' \in {{}, _desired} /\ _state' = _state
                   /\ UNCHANGED <<stop_set, leaving, socket, _live_ws, _sub_lock, _desired,
                                  _sym_data, value, pending, market, starts, calls, faults, skipped>>
                   /\ barren' \in BOOLEAN
                   /\ DOMAIN _hsm_symbols' \subseteq Key
                   /\ \A k \in DOMAIN _hsm_symbols' : _hsm_symbols'[k] \in {"topic", "identity"}
                   /\ socket = "ok"
                   /\ pc \in {"auth", "resolve"}
           Broker == /\ subs' \subseteq Key /\ number' \in [Key -> Id \cup {0}]
                     /\ \A k \in Key : number'[k] = 0 <=> k \notin subs'
                     /\ subs' \subseteq {k \in DOMAIN _hsm_symbols' : _hsm_symbols'[k] = "topic"}
                     /\ \A k, l \in subs' : number'[k] = number'[l] => k = l
                     /\ wire' \in Seq(Seq(Record))
                     /\ pc' # "subscribe" => subs' = {} /\ wire' = <<>>
<1>1. Rest
  <2>1. CASE AuthAccepted
    <3>1. CASE _hsm_symbols # <<>>
      BY <2>1, <3>1 DEF AuthAccepted, SendSubscription, RunOnly, Typed, FyersTypeOK, tickVars
    <3>2. CASE _hsm_symbols = <<>>
      BY <2>1, <3>2 DEF AuthAccepted, RunOnly, Typed, FyersTypeOK, tickVars
    <3> QED
      BY <3>1, <3>2
  <2>2. ASSUME NEW valid \in SUBSET asked, Resolved(valid), socket = "ok"
        PROVE  Rest
    <3>1. barren' \in BOOLEAN
      BY <2>2 DEF Resolved, Typed, FyersTypeOK
    <3>2. /\ DOMAIN Translation(valid) \subseteq Key
          /\ \A k \in DOMAIN Translation(valid) : Translation(valid)[k] \in {"topic", "identity"}
      BY DEF Translation, Typed, FyersTypeOK
    <3> QED
      BY <2>2, <3>1, <3>2 DEF Resolved, SendSubscription, RunOnly, tickVars
  <2> QED
    BY <2>1, <2>2
<1>2. subs = {} /\ wire = <<>>
  BY <1>1 DEF Typed, NotYetSubscribed
<1>3. Broker
  <2>1. ASSUME NEW K \in SUBSET Key, Subscribe(K), pc' = "subscribe",
               K \subseteq {k \in DOMAIN _hsm_symbols' : _hsm_symbols'[k] = "topic"}
        PROVE  Broker
    <3>1. subs' = K
      BY <1>2, <2>1, SubscribeFacts
    <3> QED
      BY <3>1, <2>1, SubscribeFacts
  <2>2. ASSUME UNCHANGED brokerVars
        PROVE  Broker
    BY <1>2, <2>2 DEF brokerVars, Typed, FyersTypeOK, Shapes, NotYetSubscribed
  <2>3. CASE AuthAccepted /\ _hsm_symbols # <<>>
    <3>1. Subscribe(Topics(_hsm_symbols)) /\ pc' = "subscribe" /\ _hsm_symbols' = _hsm_symbols
      BY <2>3 DEF AuthAccepted, SendSubscription
    <3>2. Topics(_hsm_symbols) \in SUBSET Key
      BY DEF Topics, Typed, FyersTypeOK
    <3> HIDE DEF Broker
    <3> QED
      BY <2>1, <3>1, <3>2 DEF Topics
  <2>4. CASE AuthAccepted /\ _hsm_symbols = <<>>
    <3>1. UNCHANGED brokerVars
      BY <2>4 DEF AuthAccepted
    <3> HIDE DEF Broker
    <3> QED
      BY <2>2, <3>1
  <2>5. ASSUME NEW valid \in SUBSET asked, Resolved(valid), socket = "ok"
        PROVE  Broker
    <3>1. /\ Subscribe(Topics(Translation(valid))) /\ pc' = "subscribe"
          /\ _hsm_symbols' = Translation(valid)
      BY <2>5 DEF Resolved, SendSubscription
    <3>2. Topics(Translation(valid)) \in SUBSET Key
      BY <1>1, <3>1 DEF Topics
    <3> HIDE DEF Broker
    <3> QED
      BY <2>1, <3>1, <3>2 DEF Topics
  <2> HIDE DEF Broker
  <2> QED
    BY <2>3, <2>4, <2>5
<1>4. FyersTypeOK'
  <2>1. \A i \in DOMAIN wire' : \A j \in DOMAIN wire'[i] : wire'[i][j] \in Record
    BY <1>3
  <2>2. {stop_set, barren}' \subseteq BOOLEAN
    BY <1>1 DEF Typed, FyersTypeOK
  <2>3. \A k \in Key : number'[k] \in Id \cup {0}
    BY <1>3
  <2>4. \A i \in Id : _sym_data'[i] = Nothing \/ _sym_data'[i] \in Snapshot
    BY <1>1 DEF Typed, FyersTypeOK
  <2> QED
    BY <1>1, <1>3, <2>1, <2>2, <2>3, <2>4 DEF Typed, FyersTypeOK, NotYetSubscribed
<1>5. Shapes'
  BY <1>1, <1>3 DEF Typed, Shapes
<1>6. NotYetSubscribed'
  BY <1>1, <1>3 DEF Typed, NotYetSubscribed
<1> QED
  BY <1>4, <1>5, <1>6 DEF Typed

\* Instruments trade.
LEMMA TickFacts ==
  ASSUME Typed, NEW K \in SUBSET Key, Tick(K)
  PROVE  /\ value' \in [Key -> 0..MaxTicks]
         /\ \A k \in Key : value[k] <= value'[k]
         /\ (socket = "ok" /\ K \cap subs # {}) =>
                /\ Records("update", K \cap subs, number, value') \in Seq(Record)
                /\ wire' = Append(wire, Records("update", K \cap subs, number, value'))
         /\ ~(socket = "ok" /\ K \cap subs # {}) => wire' = wire
         /\ wire' \in Seq(Seq(Record))
<1>1. value \in [Key -> 0..MaxTicks] /\ MaxTicks \in Nat
  BY FyersBounds DEF Typed, Shapes
<1>2. value' = [k \in Key |-> IF k \in K THEN value[k] + 1 ELSE value[k]]
      /\ \A k \in K : value[k] < MaxTicks
  BY DEF Tick
<1>3. \A k \in Key : value'[k] \in 0..MaxTicks /\ value[k] <= value'[k]
  BY <1>1, <1>2
<1>4. Records("update", K \cap subs, number, value') \in Seq(Record)
  <2>1. \A k \in K \cap subs : number[k] \in Id
    BY DEF Typed, FyersTypeOK, NotYetSubscribed
  <2> QED
    BY <1>3, <2>1, RecordsFacts DEF Lists
<1>5. wire \in Seq(Seq(Record))
  BY DEF Typed, Shapes
<1>6. wire' = IF socket = "ok" /\ K \cap subs # {}
              THEN Append(wire, Records("update", K \cap subs, number, value')) ELSE wire
  BY DEF Tick
<1>7. wire' \in Seq(Seq(Record))
  BY <1>4, <1>5, <1>6
<1> QED
  BY <1>2, <1>3, <1>4, <1>6, <1>7

\* A trade keeps the types.
LEMMA TypedTick ==
  ASSUME Typed, NEW K \in SUBSET Key, Tick(K)
  PROVE  Typed'
<1>1. /\ value' \in [Key -> 0..MaxTicks] /\ wire' \in Seq(Seq(Record))
      /\ subs = {} => wire' = wire
  BY TickFacts
<1>2. UNCHANGED <<_desired, _hsm_symbols, _sym_data, _state, pc, outcome, asked, stop_set, leaving,
                  socket, _live_ws, _sub_lock, subs, number, pending, market, starts, calls, faults,
                  barren, skipped>>
  BY DEF Tick, feedVars, runVars, tickVars, countVars
<1>3. \A i \in DOMAIN wire' : \A j \in DOMAIN wire'[i] : wire'[i][j] \in Record
  BY <1>1
<1>4. FyersTypeOK'
  BY <1>1, <1>2, <1>3 DEF Typed, FyersTypeOK
<1>5. Shapes'
  BY <1>1, <1>2 DEF Typed, Shapes
<1>6. NotYetSubscribed'
  BY <1>1, <1>2 DEF Typed, NotYetSubscribed
<1> QED
  BY <1>4, <1>5, <1>6 DEF Typed

\* A call of a handler subscribes or unsubscribes one topic, or leaves the broker alone.
LEMMA ChangeFacts ==
  ASSUME Typed, NEW c \in Caller, NEW op \in {"sub", "unsub"}, NEW k \in Key,
         ChangeSubscription(c, op, k)
  PROVE  /\ UNCHANGED <<_hsm_symbols, _sym_data, _state, pc, outcome, asked, stop_set, leaving,
                        socket, _live_ws, value, pending, market, starts, faults, barren, skipped>>
         /\ \/ UNCHANGED brokerVars
            \/ socket = "ok" /\ _state = "streaming" /\ _live_ws = "current" /\ HasTopic(k) /\ Subscribe({k})
            \/ socket = "ok" /\ _state = "streaming" /\ _live_ws = "current" /\ Unsubscribe(k)
<1>1. UNCHANGED <<_hsm_symbols, _sym_data, _state, pc, outcome, asked, stop_set, leaving,
                  socket, _live_ws, value, pending, market, starts, faults, barren, skipped>>
  BY DEF ChangeSubscription, runVars, tickVars
<1>2. CASE _desired' # _desired /\ _state = "streaming" /\ _live_ws # "none"
  <2>1. IF _live_ws = "current" /\ socket = "ok" /\ HasTopic(k)
        THEN (op = "sub" /\ Subscribe({k})) \/ (op = "unsub" /\ Unsubscribe(k))
        ELSE UNCHANGED brokerVars
    BY <1>2 DEF ChangeSubscription
  <2> QED
    BY <1>1, <1>2, <2>1
<1>3. CASE ~(_desired' # _desired /\ _state = "streaming" /\ _live_ws # "none")
  BY <1>1, <1>3 DEF ChangeSubscription
<1> QED
  BY <1>2, <1>3

\* So does a call of a handler.
LEMMA TypedChange ==
  ASSUME Typed, NEW c \in Caller, NEW op \in {"sub", "unsub"}, NEW k \in Key,
         ChangeSubscription(c, op, k)
  PROVE  Typed'
<1>1. UNCHANGED <<_hsm_symbols, _sym_data, _state, pc, outcome, asked, stop_set, leaving,
                  socket, _live_ws, value, pending, market, starts, faults, barren, skipped>>
  BY ChangeFacts
<1> DEFINE Broker == /\ number' \in [Key -> Id \cup {0}]
                     /\ \A l \in Key : number'[l] = 0 <=> l \notin subs'
                     /\ subs' \subseteq {l \in DOMAIN _hsm_symbols : _hsm_symbols[l] = "topic"}
                     /\ \A l, m \in subs' : number'[l] = number'[m] => l = m
                     /\ wire' \in Seq(Seq(Record))
                     /\ \/ UNCHANGED brokerVars
                        \/ socket = "ok" /\ _state = "streaming" /\ _live_ws = "current"
<1>2. Broker
  <2>1. CASE UNCHANGED brokerVars
    BY <2>1 DEF brokerVars, Typed, FyersTypeOK, Shapes, NotYetSubscribed
  <2>2. CASE socket = "ok" /\ _state = "streaming" /\ _live_ws = "current" /\ HasTopic(k) /\ Subscribe({k})
    <3>1. subs' \subseteq {l \in DOMAIN _hsm_symbols : _hsm_symbols[l] = "topic"}
      BY <2>2, SubscribeFacts DEF HasTopic, Typed, FyersTypeOK
    <3>2. {k} \in SUBSET Key
      OBVIOUS
    <3> QED
      BY <2>2, <3>1, <3>2, SubscribeFacts
  <2>3. CASE socket = "ok" /\ _state = "streaming" /\ _live_ws = "current" /\ Unsubscribe(k)
    BY <2>3 DEF Unsubscribe, Typed, FyersTypeOK, Shapes, NotYetSubscribed
  <2> QED
    BY <2>1, <2>2, <2>3, ChangeFacts
<1>3. FyersTypeOK'
  <2>1. \A i \in DOMAIN wire' : \A j \in DOMAIN wire'[i] : wire'[i][j] \in Record
    BY <1>2
  <2>2. calls' \in 0..MaxCalls
    BY FyersBounds DEF ChangeSubscription, Typed, FyersTypeOK
  <2>3. _desired' \in (SUBSET Key) \ {{}}
    BY DEF ChangeSubscription, Changed, Typed, FyersTypeOK
  <2>4. _sub_lock' \in Caller \cup {Nobody}
    BY DEF ChangeSubscription, Typed, FyersTypeOK
  <2> QED
    BY <1>1, <1>2, <2>1, <2>2, <2>3, <2>4 DEF Typed, FyersTypeOK
<1>4. Shapes'
  BY <1>1, <1>2 DEF Typed, Shapes
<1>5. NotYetSubscribed'
  BY <1>1, <1>2 DEF brokerVars, Typed, NotYetSubscribed
<1> QED
  BY <1>3, <1>4, <1>5 DEF Typed

\* What the market service gets.
LEMMA DeliverFacts ==
  ASSUME Typed, Deliver
  PROVE  /\ UNCHANGED <<_desired, _hsm_symbols, _sym_data, _state, pc, outcome, asked, stop_set,
                        leaving, socket, _live_ws, _sub_lock, subs, number, wire, value, starts,
                        calls, faults, barren, skipped>>
         /\ pending # <<>> /\ Len(pending) \in Nat /\ Len(pending) > 0
         /\ pending[1] \in Snapshot
         /\ pending' = Tail(pending) /\ pending' \in Seq(Snapshot)
         /\ Len(pending') = Len(pending) - 1
         /\ \A p \in 1..Len(pending') : pending'[p] = pending[p + 1]
         /\ market' = [market EXCEPT ![pending[1].key] = pending[1].value]
<1>1. UNCHANGED <<_desired, _hsm_symbols, _sym_data, _state, pc, outcome, asked, stop_set,
                  leaving, socket, _live_ws, _sub_lock, subs, number, wire, value, starts,
                  calls, faults, barren, skipped>>
  BY DEF Deliver, feedVars, runVars, brokerVars, countVars
<1>2. pending \in Seq(Snapshot) /\ pending # <<>>
  BY DEF Deliver, Typed, Shapes
<1>3. pending' = RemoveAt(pending, 1) /\ market' = [market EXCEPT ![pending[1].key] = pending[1].value]
  BY DEF Deliver, NextTick
<1>4. Len(pending) \in Nat /\ Len(pending) > 0 /\ pending[1] \in Snapshot
  BY <1>2
<1>5. RemoveAt(pending, 1) = Tail(pending)
  <2>1. RemoveAt(pending, 1) = SubSeq(pending, 1, 0) \o SubSeq(pending, 2, Len(pending))
    BY DEF RemoveAt
  <2>2. SubSeq(pending, 1, 0) = <<>>
    BY <1>2
  <2>3. SubSeq(pending, 2, Len(pending)) = Tail(pending)
    BY <1>2, <1>4
  <2>4. Tail(pending) \in Seq(Snapshot)
    BY <1>2
  <2> QED
    BY <2>1, <2>2, <2>3, <2>4
<1>6. /\ Tail(pending) \in Seq(Snapshot) /\ Len(Tail(pending)) = Len(pending) - 1
      /\ \A p \in 1..Len(Tail(pending)) : Tail(pending)[p] = pending[p + 1]
  BY <1>2
<1> QED
  BY <1>1, <1>2, <1>3, <1>4, <1>5, <1>6

\* A delivery keeps the types.
LEMMA TypedDeliver ==
  ASSUME Typed, Deliver
  PROVE  Typed'
<1>1. market' \in [Key -> Value \cup {Nothing}]
  BY DeliverFacts, SnapshotParts DEF Typed, Shapes
<1>2. \A i \in DOMAIN pending' : pending'[i] \in Snapshot
  BY DeliverFacts
<1>3. FyersTypeOK'
  BY <1>1, <1>2, DeliverFacts DEF Typed, FyersTypeOK
<1>4. Shapes'
  BY <1>1, DeliverFacts DEF Typed, Shapes
<1>5. NotYetSubscribed'
  BY DeliverFacts DEF Typed, NotYetSubscribed
<1> QED
  BY <1>3, <1>4, <1>5 DEF Typed

\* The frame that is read, and what comes of it.
LEMMA ReceiveFacts ==
  ASSUME Typed, Receive, \A a \in DOMAIN wire : WellFormed(wire[a])
  PROVE  /\ UNCHANGED <<_desired, _hsm_symbols, _state, pc, outcome, asked, stop_set, leaving,
                        socket, _live_ws, _sub_lock, subs, number, value, market, starts, calls,
                        faults, barren>>
         /\ Len(wire) \in Nat /\ Len(wire) > 0 /\ DOMAIN wire = 1..Len(wire)
         /\ wire[1] \in Seq(Record) /\ WellFormed(wire[1])
         /\ Len(wire') = Len(wire) - 1 /\ DOMAIN wire' = 1..(Len(wire) - 1)
         /\ wire' \in Seq(Seq(Record))
         /\ \A a \in 1..(Len(wire) - 1) : wire'[a] = wire[a + 1]
         /\ pc = "recv"
         /\ \E acc : /\ Accounted(_sym_data, wire[1], acc, Len(wire[1]))
                     /\ acc \in Account
                     /\ _sym_data' = acc.data /\ skipped' = skipped \cup acc.behind
                     /\ pending' = pending \o acc.out
<1>1. UNCHANGED <<_desired, _hsm_symbols, _state, pc, outcome, asked, stop_set, leaving,
                  socket, _live_ws, _sub_lock, subs, number, value, market, starts, calls,
                  faults, barren>> /\ pc = "recv"
  BY DEF Receive, runVars, countVars
<1>2. wire \in Seq(Seq(Record)) /\ wire # <<>> /\ wire' = Tail(wire) /\ Head(wire) = wire[1]
  BY DEF Receive, Typed, Shapes
<1>3. Len(wire) \in Nat /\ Len(wire) > 0 /\ DOMAIN wire = 1..Len(wire) /\ wire[1] \in Seq(Record)
  BY <1>2
<1>4. /\ Len(wire') = Len(wire) - 1 /\ DOMAIN wire' = 1..(Len(wire) - 1)
      /\ wire' \in Seq(Seq(Record))
      /\ \A a \in 1..(Len(wire) - 1) : wire'[a] = wire[a + 1]
  BY <1>2, <1>3
<1>5. WellFormed(wire[1])
  BY <1>3
<1>6. Accounted(_sym_data, wire[1], Parsed(_sym_data, wire[1]), Len(wire[1]))
  <2>1. \A m, n \in DOMAIN wire[1] : m # n => wire[1][m].id # wire[1][n].id
    BY <1>5 DEF WellFormed
  <2>2. _sym_data \in [Id -> Snapshot \cup {Nothing}]
    BY DEF Typed, Shapes
  <2> QED
    BY <1>3, <2>1, <2>2, ParsedFacts
<1>7. /\ _sym_data' = Parsed(_sym_data, wire[1]).data
      /\ skipped' = skipped \cup Parsed(_sym_data, wire[1]).behind
      /\ pending' = pending \o Parsed(_sym_data, wire[1]).out
  BY <1>2 DEF Receive
<1>8. Parsed(_sym_data, wire[1]) \in Account
  BY <1>6 DEF Accounted
<1> QED
  BY <1>1, <1>3, <1>4, <1>5, <1>6, <1>7, <1>8

\* So does a frame that is read.
LEMMA TypedReceive ==
  ASSUME Typed, Receive, \A a \in DOMAIN wire : WellFormed(wire[a])
  PROVE  Typed'
<1>1. PICK acc \in Account : /\ _sym_data' = acc.data /\ skipped' = skipped \cup acc.behind
                             /\ pending' = pending \o acc.out
  BY ReceiveFacts
<1>2. /\ acc.data \in [Id -> Snapshot \cup {Nothing}] /\ acc.out \in Seq(Snapshot)
      /\ acc.behind \in SUBSET Key
  BY DEF Account
<1>3. pending' \in Seq(Snapshot)
  BY <1>1, <1>2 DEF Typed, Shapes
<1>4. \A i \in DOMAIN pending' : pending'[i] \in Snapshot
  BY <1>3
<1>5. \A i \in DOMAIN wire' : \A j \in DOMAIN wire'[i] : wire'[i][j] \in Record
  BY ReceiveFacts
<1>6. FyersTypeOK'
  <2>1. UNCHANGED <<_desired, _hsm_symbols, _state, pc, outcome, asked, stop_set, leaving, socket,
                    _live_ws, _sub_lock, subs, number, value, market, starts, calls, faults, barren>>
    BY ReceiveFacts
  <2>2. skipped' \subseteq Key /\ \A i \in Id : _sym_data'[i] = Nothing \/ _sym_data'[i] \in Snapshot
    BY <1>1, <1>2 DEF Typed, FyersTypeOK
  <2> QED
    BY <1>4, <1>5, <2>1, <2>2 DEF Typed, FyersTypeOK
<1>7. Shapes'
  BY <1>1, <1>2, <1>3, ReceiveFacts DEF Typed, Shapes
<1>8. NotYetSubscribed'
  <2>1. wire # <<>>
    BY DEF Receive
  <2> QED
    BY <2>1, ReceiveFacts DEF Typed, NotYetSubscribed
<1> QED
  BY <1>6, <1>7, <1>8 DEF Typed

\* Every step keeps the types.
LEMMA TypedStep ==
  ASSUME Typed, \A a \in DOMAIN wire : WellFormed(wire[a]), [FyersNext]_fyersVars
  PROVE  Typed'
<1>1. CASE UNCHANGED fyersVars
  <2>1. UNCHANGED <<_desired, _hsm_symbols, _sym_data, _state, pc, outcome, asked, stop_set,
                    leaving, socket, _live_ws, _sub_lock, subs, number, wire, value, pending,
                    market, starts, calls, faults, barren, skipped>>
    BY <1>1 DEF fyersVars, feedVars, runVars, brokerVars, tickVars, countVars
  <2>2. FyersTypeOK'
    BY <2>1 DEF Typed, FyersTypeOK
  <2>3. Shapes'
    BY <2>1 DEF Typed, Shapes
  <2>4. NotYetSubscribed'
    BY <2>1 DEF Typed, NotYetSubscribed
  <2> QED
    BY <2>2, <2>3, <2>4 DEF Typed
<1>2. CASE FyersNext
  BY <1>2, TypedRun, TypedSend, TypedTick, TypedChange, TypedDeliver, TypedReceive
     DEF FyersNext, RunStep, LeaverStep, LocalStep
<1> QED
  BY <1>1, <1>2

-----------------------------------------------------------------------------
(***************************************************************************)
(* Every quote is its instrument's own.                                    *)
(***************************************************************************)

\* The market service, the frames and the feed's numbers stay as they are, and the
\* broker has nothing more to send.
LEMMA ContentKept ==
  ASSUME QuotesInv, UNCHANGED <<wire, value, _sym_data, pending, market, skipped>>,
         socket' = "ok" => \A k \in subs' : k \in subs /\ socket = "ok" /\ number'[k] = number[k]
  PROVE  Content'
<1>1. \A a \in DOMAIN wire' : WellFormed(wire[a])'
  BY DEF QuotesInv, Content, WellFormed
<1>2. Owned'
  BY DEF QuotesInv, Content, Owned, May
<1>3. \A i, k, n : Stands(i, k, n) <=> Stands(i, k, n)'
  BY DEF Stands
<1>4. UpdatesFindTheirs'
  BY <1>3 DEF QuotesInv, Content, UpdatesFindTheirs
<1> QED
  BY <1>1, <1>2, <1>4 DEF Content

\* The socket ends or breaks, and takes the last frames with it.
LEMMA ContentCut ==
  ASSUME QuotesInv, UNCHANGED <<value, _sym_data, pending, market, skipped>>,
         CloseSocket \/ \E n \in 0..Len(wire) : Cuts(n)
  PROVE  Content'
<1>1. UNCHANGED <<value, _sym_data, pending, market, skipped>> /\ socket' # "ok"
  BY DEF CloseSocket, Cuts
<1>2. PICK n \in 0..Len(wire) : wire' = SubSeq(wire, 1, n)
  <2>1. wire \in Seq(Seq(Record)) /\ Len(wire) \in Nat
    BY DEF QuotesInv, Typed, Shapes
  <2>2. 0 \in 0..Len(wire) /\ SubSeq(wire, 1, 0) = <<>>
    BY <2>1
  <2> QED
    BY <2>2 DEF CloseSocket, Cuts
<1>3. /\ wire \in Seq(Seq(Record)) /\ Len(wire) \in Nat /\ DOMAIN wire = 1..Len(wire) /\ n \in Nat
      /\ DOMAIN wire' = 1..n /\ \A a \in 1..n : wire'[a] = wire[a] /\ a \in DOMAIN wire
  <2>1. wire \in Seq(Seq(Record)) /\ Len(wire) \in Nat /\ n \in Nat
    BY DEF QuotesInv, Typed, Shapes
  <2> QED
    BY <1>2, <2>1
<1>4. \A a \in DOMAIN wire' : WellFormed(wire[a])'
  BY <1>1, <1>3 DEF QuotesInv, Content, WellFormed
<1>5. Owned'
  BY <1>1 DEF QuotesInv, Content, Owned, May
<1>6. ASSUME NEW a \in 1..n, NEW i, NEW k, Stands(i, k, a - 1)
      PROVE  Stands(i, k, a - 1)'
  <2>1. \A b \in 1..(a - 1) : wire'[b] = wire[b]
    BY <1>3
  <2>2. \A d \in 1..(a - 1) : \A b \in (d + 1)..(a - 1) : wire'[b] = wire[b]
    BY <1>3
  <2> QED
    BY <1>1, <1>6, <2>1, <2>2 DEF Stands
<1>7. UpdatesFindTheirs'
  BY <1>1, <1>3, <1>6 DEF QuotesInv, Content, UpdatesFindTheirs
<1> QED
  BY <1>4, <1>5, <1>7 DEF Content

\* A frame of true records is sent: instruments have traded, or topics were asked for.
Sent(frame) ==
    /\ UNCHANGED <<_sym_data, pending, market, skipped, socket>>
    /\ socket = "ok"
    /\ wire' = Append(wire, frame)
    /\ \A k \in Key : value[k] <= value'[k]
    /\ \A m \in DOMAIN frame :
          /\ frame[m].key \in subs' /\ frame[m].id = number'[frame[m].key]
          /\ frame[m].value = <<frame[m].key, value'[frame[m].key]>>
    /\ \A m, n \in DOMAIN frame : m # n => frame[m] # frame[n]
    /\ \A k \in subs' : value'[k] = value[k] \/ \E m \in DOMAIN frame : frame[m].key = k
    /\ \/ UNCHANGED <<subs, number>> /\ \A m \in DOMAIN frame : frame[m].kind = "update"
       \/ /\ \A m \in DOMAIN frame : frame[m].kind = "snapshot"
          /\ \A k \in subs' : \/ k \in subs /\ number'[k] = number[k]
                              \/ \E m \in DOMAIN frame : frame[m].key = k

\* A frame of true records finds its topics, and takes none from another frame.
LEMMA ContentSent ==
  ASSUME QuotesInv, Typed', NEW frame \in Seq(Record), Sent(frame)
  PROVE  Content'
<1>1. /\ UNCHANGED <<_sym_data, pending, market, skipped, socket>>
      /\ socket = "ok" /\ wire' = Append(wire, frame)
  BY DEF Sent
<1>2. /\ wire \in Seq(Seq(Record)) /\ Len(wire) \in Nat /\ DOMAIN wire = 1..Len(wire)
      /\ value \in [Key -> 0..MaxTicks] /\ value' \in [Key -> 0..MaxTicks] /\ MaxTicks \in Nat
  BY FyersBounds DEF QuotesInv, Typed, Shapes
<1>3. /\ DOMAIN wire' = 1..(Len(wire) + 1) /\ wire'[Len(wire) + 1] = frame
      /\ Len(wire') = Len(wire) + 1
      /\ \A a \in 1..Len(wire) : wire'[a] = wire[a]
  BY <1>1, <1>2
<1>4. \A k \in Key : value[k] <= value'[k] /\ value[k] \in Int /\ value'[k] \in Int
  BY <1>2 DEF Sent
<1>5. \A k, l \in subs' : number'[k] = number'[l] => k = l
  BY DEF Typed, FyersTypeOK
<1>6. subs' \subseteq Key
  BY DEF Typed, FyersTypeOK
<1>7. WellFormed(frame)'
  <2>1. \A m, n \in DOMAIN frame : frame[m].key = frame[n].key => frame[m] = frame[n]
    <3> SUFFICES ASSUME NEW m \in DOMAIN frame, NEW n \in DOMAIN frame,
                        frame[m].key = frame[n].key
                 PROVE  frame[m] = frame[n]
      OBVIOUS
    <3>1. frame[m] \in Record /\ frame[n] \in Record
      OBVIOUS
    <3>2. frame[m].id = frame[n].id /\ frame[m].value = frame[n].value
      <4>1. \A l \in DOMAIN frame : /\ frame[l].id = number'[frame[l].key]
                                    /\ frame[l].value = <<frame[l].key, value'[frame[l].key]>>
        BY DEF Sent
      <4>2. /\ frame[m].id = number'[frame[m].key] /\ frame[n].id = number'[frame[n].key]
            /\ frame[m].value = <<frame[m].key, value'[frame[m].key]>>
            /\ frame[n].value = <<frame[n].key, value'[frame[n].key]>>
        BY <4>1
      <4> QED
        BY <4>2
    <3>4. frame[m].kind = frame[n].kind
      <4>1. \/ \A l \in DOMAIN frame : frame[l].kind = "update"
            \/ \A l \in DOMAIN frame : frame[l].kind = "snapshot"
        BY DEF Sent
      <4> QED
        BY <4>1
    <3> DEFINE r == frame[m]
               t == frame[n]
    <3>3. /\ r = [kind |-> r.kind, id |-> r.id, key |-> r.key, value |-> r.value]
          /\ t = [kind |-> t.kind, id |-> t.id, key |-> t.key, value |-> t.value]
      BY <3>1 DEF Record
    <3> HIDE DEF r, t
    <3> QED
      BY <3>2, <3>3, <3>4 DEF r, t
  <2>2. \A m, n \in DOMAIN frame : frame[m].id = frame[n].id => frame[m].key = frame[n].key
    BY <1>5 DEF Sent
  <2>3. ASSUME NEW m \in DOMAIN frame
        PROVE  frame[m].value[1] = frame[m].key /\ frame[m].value[2] <= value'[frame[m].key]
    <3>1. frame[m].value = <<frame[m].key, value'[frame[m].key]>> /\ frame[m].key \in Key
      BY <1>6 DEF Sent
    <3> QED
      BY <1>4, <3>1
  <2>4. \A m, n \in DOMAIN frame : m # n => frame[m] # frame[n]
    BY DEF Sent
  <2> QED
    BY <2>1, <2>2, <2>3, <2>4 DEF WellFormed
<1>8. ASSUME NEW a \in DOMAIN wire
      PROVE  WellFormed(wire[a])'
  <2>1. WellFormed(wire[a]) /\ wire'[a] = wire[a]
    BY <1>2, <1>3 DEF QuotesInv, Content
  <2>2. wire[a] \in Seq(Record)
    BY <1>2
  <2>3. ASSUME NEW m \in DOMAIN wire[a]
        PROVE  wire[a][m].value[2] <= value'[wire[a][m].key]
    <3>1. wire[a][m].value[2] <= value[wire[a][m].key] /\ wire[a][m] \in Record
      BY <2>1, <2>2 DEF WellFormed
    <3>2. wire[a][m].key \in Key /\ wire[a][m].value[2] \in 0..MaxTicks
      BY <3>1 DEF Record, Value
    <3>3. wire[a][m].value[2] \in Int
      BY <1>2, <3>2
    <3> QED
      BY <1>4, <3>1, <3>2, <3>3
  <2> QED
    BY <2>1, <2>3 DEF WellFormed
<1>9. \A a \in DOMAIN wire' : WellFormed(wire[a])'
  <2> SUFFICES ASSUME NEW a \in DOMAIN wire'
               PROVE  WellFormed(wire[a])'
    OBVIOUS
  <2>1. CASE a \in DOMAIN wire
    BY <1>8, <2>1
  <2>2. CASE a \notin DOMAIN wire
    <3>1. wire'[a] = frame
      BY <1>2, <1>3, <2>2
    <3> QED
      BY <1>7, <3>1 DEF WellFormed
  <2> QED
    BY <2>1, <2>2
<1>10. Owned'
  <2>1. ASSUME NEW k, NEW v \in Value, May(k, v)
        PROVE  May(k, v)'
    <3>1. v[1] \in Key /\ v[2] \in 0..MaxTicks
      BY DEF Value
    <3>2. v[2] \in Int
      BY <1>2, <3>1
    <3> QED
      BY <1>1, <1>4, <2>1, <3>1, <3>2 DEF May
  <2>2. \A i \in Id : _sym_data[i] # Nothing => _sym_data[i].value \in Value
    BY DEF QuotesInv, Typed, FyersTypeOK, Snapshot
  <2>3. \A p \in DOMAIN pending : pending[p].value \in Value
    BY DEF QuotesInv, Typed, FyersTypeOK, Snapshot
  <2>4. \A k \in Key : market[k] # Nothing => market[k] \in Value
    BY DEF QuotesInv, Typed, FyersTypeOK
  <2> QED
    BY <1>1, <2>1, <2>2, <2>3, <2>4 DEF QuotesInv, Content, Owned
<1>11. ASSUME NEW n \in 0..Len(wire), NEW i, NEW k, Stands(i, k, n)
       PROVE  Stands(i, k, n)'
  <2>1. n \in Int /\ \A b \in 1..n : wire'[b] = wire[b]
    <3>1. n \in Int /\ \A b \in 1..n : b \in 1..Len(wire)
      BY <1>2
    <3> QED
      BY <1>3, <3>1
  <2>2. \A d \in 1..n : \A b \in (d + 1)..n : b \in 1..n
    BY <2>1
  <2> QED
    BY <1>1, <1>11, <2>1, <2>2 DEF Stands
<1>12. ASSUME NEW n, n = Len(wire), NEW i, NEW k, Stands(i, k, n), ~Names(frame, i)
       PROVE  Stands(i, k, n + 1)'
  <2>1. n \in 0..Len(wire)
    BY <1>2, <1>12
  <2>2. Stands(i, k, n)'
    BY <1>11, <1>12, <2>1
  <2>3. /\ \A a \in 1..n : a \in 1..(n + 1)
        /\ \A a \in 1..(n + 1) : wire'[a] = frame \/ a \in 1..n
        /\ \A a \in 1..n : \A b \in (a + 1)..(n + 1) : wire'[b] = frame \/ b \in (a + 1)..n
    BY <1>2, <1>3, <1>12
  <2> QED
    BY <1>1, <1>12, <2>2, <2>3 DEF Stands
<1>13. ASSUME NEW n, n = Len(wire), NEW i, NEW k, Gives(frame, i, k)
       PROVE  Stands(i, k, n + 1)'
  <2>1. n + 1 \in 1..(n + 1) /\ wire'[n + 1] = frame /\ (n + 1 + 1)..(n + 1) = {}
    BY <1>2, <1>3, <1>13
  <2> QED
    BY <1>13, <2>1 DEF Stands
<1>14. ASSUME NEW a \in DOMAIN wire', NEW m \in DOMAIN wire'[a], wire'[a][m].kind = "update"
       PROVE  Stands(wire[a][m].id, wire[a][m].key, a - 1)' \/ wire'[a][m].key \in skipped'
  <2>1. CASE a \in DOMAIN wire
    <3>1. wire'[a] = wire[a] /\ a - 1 \in 0..Len(wire)
      BY <1>2, <1>3, <2>1
    <3>2. Stands(wire[a][m].id, wire[a][m].key, a - 1) \/ wire[a][m].key \in skipped
      BY <1>14, <2>1, <3>1 DEF QuotesInv, Content, UpdatesFindTheirs
    <3> QED
      BY <1>1, <1>11, <3>1, <3>2
  <2>2. CASE a \notin DOMAIN wire
    <3>1. wire'[a] = frame /\ a - 1 = Len(wire) /\ a - 1 \in 0..Len(wire)
      BY <1>2, <1>3, <2>2
    <3>2. frame[m].kind = "update" /\ m \in DOMAIN frame
      BY <1>14, <3>1
    <3>3. frame[m].key \in subs /\ frame[m].id = number[frame[m].key]
      BY <3>2 DEF Sent
    <3>4. Stands(frame[m].id, frame[m].key, a - 1) \/ frame[m].key \in skipped
      BY <1>1, <3>1, <3>3 DEF QuotesInv, Content, UpdatesFindTheirs
    <3> QED
      BY <1>1, <1>11, <3>1, <3>4
  <2> QED
    BY <2>1, <2>2
<1>15. ASSUME NEW n, n = Len(wire), NEW k \in subs'
       PROVE  Stands(number[k], k, n + 1)' \/ k \in skipped'
  <2>1. CASE \E m \in DOMAIN frame : frame[m].key = k /\ frame[m].kind = "snapshot"
    <3>1. Gives(frame, number'[k], k)
      BY <2>1 DEF Gives, Sent
    <3> QED
      BY <1>13, <1>15, <3>1
  <2>2. CASE ~\E m \in DOMAIN frame : frame[m].key = k /\ frame[m].kind = "snapshot"
    <3>1. k \in subs /\ number'[k] = number[k]
      BY <2>2 DEF Sent
    <3>2. ~Names(frame, number'[k])
      BY <1>5, <2>2 DEF Names, Sent
    <3>3. Stands(number'[k], k, n) \/ k \in skipped
      BY <1>1, <1>15, <3>1 DEF QuotesInv, Content, UpdatesFindTheirs
    <3> QED
      BY <1>1, <1>12, <1>15, <3>2, <3>3
  <2> QED
    BY <2>1, <2>2
<1>16. UpdatesFindTheirs'
  <2>1. \A k \in subs' : Stands(number[k], k, Len(wire))' \/ k \in skipped'
    BY <1>3, <1>15
  <2> QED
    BY <1>14, <2>1 DEF UpdatesFindTheirs
<1> QED
  BY <1>9, <1>10, <1>16 DEF Content

\* A record's parts, as RecordsFacts has it.
LEMMA RecordOfParts ==
  ASSUME NEW kind, NEW k, NEW num, NEW val, NEW r, r = RecordOf(kind, k, num, val)
  PROVE  r.kind = kind /\ r.id = num[k] /\ r.key = k /\ r.value = <<k, val[k]>>
BY DEF RecordOf

\* What the broker sends of a trade are true records.
LEMMA SentByTick ==
  ASSUME QuotesInv, NEW K \in SUBSET Key, Tick(K), socket = "ok", K \cap subs # {}
  PROVE  \E frame \in Seq(Record) :
            frame = Records("update", K \cap subs, number, value') /\ Sent(frame)
<1> DEFINE frame == Records("update", K \cap subs, number, value')
<1>1. Typed
  BY DEF QuotesInv
<1>2. /\ value' \in [Key -> 0..MaxTicks] /\ \A k \in Key : value[k] <= value'[k]
      /\ frame \in Seq(Record) /\ wire' = Append(wire, frame)
  BY <1>1, TickFacts
<1>3. UNCHANGED <<_sym_data, pending, market, skipped, socket, subs, number>>
  BY DEF Tick, feedVars, tickVars
<1>4. \A k \in K \cap subs : number[k] \in Id /\ value'[k] \in 0..MaxTicks
  BY <1>1, <1>2 DEF Typed, FyersTypeOK, NotYetSubscribed
<1>5. /\ \A m \in DOMAIN frame : \E k \in K \cap subs :
             frame[m] = RecordOf("update", k, number, value')
      /\ \A k \in K \cap subs : \E m \in DOMAIN frame :
             frame[m] = RecordOf("update", k, number, value')
      /\ \A m, n \in DOMAIN frame : m # n => frame[m] # frame[n]
  <2>1. K \cap subs \in SUBSET Key /\ "update" \in {"snapshot", "update"}
    OBVIOUS
  <2>2. Lists(frame, "update", K \cap subs, number, value')
    BY <1>4, <2>1, RecordsFacts
  <2> HIDE DEF frame
  <2> QED
    BY <2>2 DEF Lists
<1> HIDE DEF frame
<1>6. \A m \in DOMAIN frame :
          /\ frame[m].key \in subs' /\ frame[m].id = number'[frame[m].key]
          /\ frame[m].value = <<frame[m].key, value'[frame[m].key]>>
          /\ frame[m].kind = "update"
  BY <1>3, <1>5, RecordOfParts
<1>7. \A k \in subs' : value'[k] = value[k] \/ \E m \in DOMAIN frame : frame[m].key = k
  <2>1. \A k \in K \cap subs : \E m \in DOMAIN frame : frame[m].key = k
    BY <1>5, RecordOfParts
  <2>2. \A k \in Key : k \notin K => value'[k] = value[k]
    BY DEF Tick
  <2>3. subs' = subs /\ subs \subseteq Key
    BY <1>1, <1>3 DEF Typed, FyersTypeOK
  <2> QED
    BY <2>1, <2>2, <2>3
<1>8. Sent(frame)
  BY <1>2, <1>3, <1>5, <1>6, <1>7 DEF Sent
<1> QED
  BY <1>2, <1>8 DEF frame

\* So are the snapshots of a subscription.
LEMMA SentBySubscribe ==
  ASSUME QuotesInv, NEW K \in SUBSET Key, Subscribe(K), K # {}, socket = "ok",
         UNCHANGED <<_sym_data, pending, market, skipped, socket, value>>
  PROVE  \E frame \in Seq(Record) :
            frame = Records("snapshot", K, number', value) /\ Sent(frame)
<1> DEFINE frame == Records("snapshot", K, number', value)
<1>1. Typed
  BY DEF QuotesInv
<1>2. /\ subs' \subseteq Key /\ K \subseteq subs' /\ subs' = subs \cup K
      /\ \A k \in subs : number'[k] = number[k]
      /\ \A k \in subs' : number'[k] \in Id
      /\ frame \in Seq(Record) /\ wire' = Append(wire, frame)
  BY <1>1, SubscribeFacts
<1>3. value \in [Key -> 0..MaxTicks] /\ MaxTicks \in Nat
  BY <1>1, FyersBounds DEF Typed, Shapes
<1>4. \A k \in K : number'[k] \in Id /\ value[k] \in 0..MaxTicks
  BY <1>2, <1>3
<1>5. /\ \A m \in DOMAIN frame : \E k \in K : frame[m] = RecordOf("snapshot", k, number', value)
      /\ \A k \in K : \E m \in DOMAIN frame : frame[m] = RecordOf("snapshot", k, number', value)
      /\ \A m, n \in DOMAIN frame : m # n => frame[m] # frame[n]
  <2>1. "snapshot" \in {"snapshot", "update"}
    OBVIOUS
  <2>2. Lists(frame, "snapshot", K, number', value)
    BY <1>4, <2>1, RecordsFacts
  <2> HIDE DEF frame
  <2> QED
    BY <2>2 DEF Lists
<1> HIDE DEF frame
<1>6. \A m \in DOMAIN frame :
          /\ frame[m].key \in subs' /\ frame[m].id = number'[frame[m].key]
          /\ frame[m].value = <<frame[m].key, value'[frame[m].key]>>
          /\ frame[m].kind = "snapshot"
  BY <1>2, <1>5, RecordOfParts
<1>7. \A k \in K : \E m \in DOMAIN frame : frame[m].key = k
  BY <1>5, RecordOfParts
<1>8. \A k \in Key : value[k] <= value'[k]
  BY <1>3
<1>9. \A k \in subs' : \/ k \in subs /\ number'[k] = number[k]
                       \/ \E m \in DOMAIN frame : frame[m].key = k
  BY <1>2, <1>7
<1>10. Sent(frame)
  BY <1>2, <1>5, <1>6, <1>8, <1>9 DEF Sent
<1> QED
  BY <1>2, <1>10 DEF frame

\* A delivery brings a quote that the tick had.
LEMMA ContentDeliver ==
  ASSUME QuotesInv, Deliver
  PROVE  Content'
<1>1. Typed
  BY DEF QuotesInv
<1>2. \A a \in DOMAIN wire' : WellFormed(wire[a])'
  BY <1>1, DeliverFacts DEF QuotesInv, Content, WellFormed
<1>3. UNCHANGED <<wire, value, _sym_data, skipped, subs, number, socket>>
  BY <1>1, DeliverFacts
<1>4. UpdatesFindTheirs'
  <2>1. \A i, k, n : Stands(i, k, n) <=> Stands(i, k, n)'
    BY <1>3 DEF Stands
  <2> QED
    BY <1>3, <2>1 DEF QuotesInv, Content, UpdatesFindTheirs
<1>5. \A k, v : May(k, v) <=> May(k, v)'
  BY <1>3 DEF May
<1>6. ASSUME NEW p \in DOMAIN pending'
      PROVE  May(pending'[p].key, pending'[p].value)
  <2>1. p + 1 \in DOMAIN pending /\ pending'[p] = pending[p + 1]
    BY <1>1, DeliverFacts
  <2> QED
    BY <2>1 DEF QuotesInv, Content, Owned
<1>7. ASSUME NEW k \in Key, market'[k] # Nothing
      PROVE  May(k, market'[k])
  <2>1. market' = [market EXCEPT ![pending[1].key] = pending[1].value] /\ 1 \in DOMAIN pending
    BY <1>1, DeliverFacts
  <2>2. May(pending[1].key, pending[1].value)
    BY <2>1 DEF QuotesInv, Content, Owned
  <2>3. market \in [Key -> Value \cup {Nothing}]
    BY <1>1 DEF Typed, Shapes
  <2>4. CASE k = pending[1].key
    BY <2>1, <2>2, <2>3, <2>4
  <2>5. CASE k # pending[1].key
    <3>1. market'[k] = market[k]
      BY <2>1, <2>3, <2>5
    <3> QED
      BY <1>7, <3>1 DEF QuotesInv, Content, Owned
  <2> QED
    BY <2>4, <2>5
<1>8. Owned'
  <2>1. \A i \in Id : _sym_data'[i] # Nothing => May(_sym_data'[i].key, _sym_data'[i].value)
    BY <1>3 DEF QuotesInv, Content, Owned
  <2> QED
    BY <1>5, <1>6, <1>7, <2>1 DEF Owned
<1> QED
  BY <1>2, <1>4, <1>8 DEF Content

\* What the record of a frame that is read first finds: the topic of its number is its
\* own, or its instrument had a record dropped.
LEMMA FindsItsTopic ==
  ASSUME QuotesInv, NEW m \in DOMAIN wire[1], 1 \in DOMAIN wire, wire[1][m].kind = "update"
  PROVE  \/ wire[1][m].key \in skipped
         \/ /\ _sym_data[wire[1][m].id] # Nothing
            /\ _sym_data[wire[1][m].id].key = wire[1][m].key
<1>1. Stands(wire[1][m].id, wire[1][m].key, 1 - 1) \/ wire[1][m].key \in skipped
  BY DEF QuotesInv, Content, UpdatesFindTheirs
<1>2. 1..(1 - 1) = {}
  OBVIOUS
<1> QED
  BY <1>1, <1>2 DEF Stands

\* What is read of a frame is true, and the frames behind it still find their topics.
LEMMA ContentReceive ==
  ASSUME QuotesInv, Receive
  PROVE  Content'
<1>1. Typed /\ \A a \in DOMAIN wire : WellFormed(wire[a])
  BY DEF QuotesInv, Content
<1>2. PICK acc : /\ Accounted(_sym_data, wire[1], acc, Len(wire[1]))
                 /\ acc \in Account
                 /\ _sym_data' = acc.data /\ skipped' = skipped \cup acc.behind
                 /\ pending' = pending \o acc.out
  BY <1>1, ReceiveFacts
<1>3. /\ UNCHANGED <<subs, number, value, market, socket>>
      /\ Len(wire) \in Nat /\ Len(wire) > 0 /\ DOMAIN wire = 1..Len(wire)
      /\ wire[1] \in Seq(Record) /\ WellFormed(wire[1])
      /\ Len(wire') = Len(wire) - 1 /\ DOMAIN wire' = 1..(Len(wire) - 1)
      /\ \A a \in 1..(Len(wire) - 1) : wire'[a] = wire[a + 1] /\ a + 1 \in DOMAIN wire
  BY <1>1, ReceiveFacts
<1> DEFINE first == wire[1]
<1>4. /\ acc.data \in [Id -> Snapshot \cup {Nothing}] /\ acc.out \in Seq(Snapshot)
      /\ acc.behind \in SUBSET Key
  BY <1>2 DEF Account
<1>5. /\ \A m \in DOMAIN first : first[m] \in Record /\ first[m].id \in Id
      /\ DOMAIN first = 1..Len(first)
  <2>1. DOMAIN first = 1..Len(first) /\ \A m \in DOMAIN first : first[m] \in Record
    BY <1>3
  <2> QED
    BY <2>1 DEF Record
<1>6. \A a \in DOMAIN wire' : WellFormed(wire[a])'
  BY <1>1, <1>3 DEF WellFormed
<1>7. \A k, v : May(k, v) => May(k, v)'
  BY <1>2, <1>3 DEF May
<1>8. \A i \in Id : (\A m \in DOMAIN first : first[m].id # i) => acc.data[i] = _sym_data[i]
  BY <1>2, <1>5 DEF Accounted
<1>9. \A m \in DOMAIN first : Applied(_sym_data, acc, first[m])
  BY <1>2, <1>5 DEF Accounted
<1>10. ASSUME NEW m \in DOMAIN first, IsNews(_sym_data, first[m])
       PROVE  May(Addressee(_sym_data, first[m]), first[m].value)
  <2>1. first[m].value[1] = first[m].key /\ first[m].value[2] <= value[first[m].key]
    BY <1>3 DEF WellFormed
  <2>2. CASE first[m].kind = "snapshot"
    BY <2>1, <2>2 DEF May, Addressee
  <2>3. CASE first[m].kind # "snapshot"
    <3>1. first[m].kind = "update" /\ 1 \in DOMAIN wire
      BY <1>3, <1>5, <2>3 DEF Record
    <3>2. first[m].key \in skipped \/ _sym_data[first[m].id].key = first[m].key
      BY <3>1, FindsItsTopic
    <3> QED
      BY <2>1, <2>3, <3>2 DEF May, Addressee
  <2> QED
    BY <2>2, <2>3
<1>11. Owned'
  <2>1. ASSUME NEW i \in Id, acc.data[i] # Nothing
        PROVE  May(acc.data[i].key, acc.data[i].value)'
    <3>1. CASE acc.data[i] = _sym_data[i]
      BY <1>7, <2>1, <3>1 DEF QuotesInv, Content, Owned
    <3>2. CASE acc.data[i] # _sym_data[i]
      <4>1. PICK m \in DOMAIN first : first[m].id = i
        BY <1>8, <3>2
      <4>2. /\ acc.data[i] = [key |-> Addressee(_sym_data, first[m]), value |-> first[m].value]
            /\ first[m].kind = "update" => _sym_data[i] # Nothing
        BY <1>5, <1>9, <3>2, <4>1 DEF Applied, Addressee, Record
      <4>3. IsNews(_sym_data, first[m])
        <5>1. CASE first[m].kind = "snapshot"
          BY <5>1 DEF IsNews
        <5>2. CASE first[m].kind # "snapshot"
          <6>1. _sym_data[i] \in Snapshot
            BY <1>1, <1>5, <4>1, <4>2, <5>2 DEF Typed, Shapes, Record
          <6>2. _sym_data[i] = [key |-> _sym_data[i].key, value |-> _sym_data[i].value]
            BY <6>1, SnapshotParts
          <6>3. Addressee(_sym_data, first[m]) = _sym_data[i].key
            BY <4>1, <5>2 DEF Addressee
          <6>4. _sym_data[i].value # first[m].value
            BY <3>2, <4>2, <6>2, <6>3
          <6> QED
            BY <1>5, <4>1, <4>2, <5>2, <6>4 DEF IsNews, Record
        <5> QED
          BY <5>1, <5>2
      <4> QED
        BY <1>7, <1>10, <4>2, <4>3
    <3> QED
      BY <3>1, <3>2
  <2>2. ASSUME NEW p \in DOMAIN pending'
        PROVE  May(pending[p].key, pending[p].value)'
    <3>1. pending \in Seq(Snapshot)
      BY <1>1 DEF Typed, Shapes
    <3>2. CASE p \in DOMAIN pending
      <4>1. pending'[p] = pending[p]
        BY <1>2, <1>4, <3>1, <3>2
      <4> QED
        BY <1>7, <3>2, <4>1 DEF QuotesInv, Content, Owned
    <3>3. CASE p \notin DOMAIN pending
      <4>1. PICK q \in DOMAIN acc.out : pending'[p] = acc.out[q]
        <5>1. p - Len(pending) \in DOMAIN acc.out /\ pending'[p] = acc.out[p - Len(pending)]
          BY <1>2, <1>4, <2>2, <3>1, <3>3
        <5> QED
          BY <5>1
      <4>2. PICK m \in 1..Len(first) : /\ IsNews(_sym_data, first[m])
                                       /\ acc.out[q] = TickOf(_sym_data, first[m])
        BY <1>2 DEF Accounted
      <4> QED
        BY <1>5, <1>7, <1>10, <4>1, <4>2 DEF TickOf
    <3> QED
      BY <3>2, <3>3
  <2>3. \A k \in Key : market'[k] # Nothing => May(k, market[k])'
    BY <1>3, <1>7 DEF QuotesInv, Content, Owned
  <2> QED
    BY <1>2, <2>1, <2>2, <2>3 DEF Owned
<1>12. ASSUME NEW n \in 1..Len(wire), NEW i \in Id, NEW k, Stands(i, k, n)
       PROVE  Stands(i, k, n - 1)' \/ k \in skipped'
  <2> DEFINE After(a) == \A b \in (a + 1)..n : ~Names(wire[b], i)
  <2>1. n \in Int /\ 1 \in 1..n
    BY <1>3
  <2>2. ASSUME acc.data[i] # Nothing, acc.data[i].key = k, After(1)
        PROVE  Stands(i, k, n - 1)'
    <3>1. \A b \in 1..(n - 1) : wire'[b] = wire[b + 1] /\ b + 1 \in (1 + 1)..n
      BY <1>3, <2>1
    <3>2. \A b \in 1..(n - 1) : ~Names(wire'[b], i)
      BY <2>2, <3>1
    <3> QED
      BY <1>2, <2>2, <3>2 DEF Stands
  <2>3. ASSUME NEW a \in 1..n, Gives(wire[a], i, k), After(a)
        PROVE  Stands(i, k, n - 1)' \/ k \in skipped'
    <3>1. CASE a = 1
      <4>1. PICK m \in DOMAIN first : first[m].kind = "snapshot" /\ first[m].id = i /\ first[m].key = k
        BY <2>3, <3>1 DEF Gives
      <4>2. acc.data[i] = [key |-> k, value |-> first[m].value] \/ k \in acc.behind
        BY <1>9, <4>1 DEF Applied
      <4>3. CASE k \in acc.behind
        BY <1>2, <4>3
      <4>4. CASE acc.data[i] = [key |-> k, value |-> first[m].value]
        <5>1. acc.data[i].key = k /\ first[m].key \in Key /\ first[m].value \in Value
          BY <1>5, <4>4 DEF Record
        <5>2. acc.data[i] \in Snapshot
          BY <4>1, <4>4, <5>1 DEF Snapshot
        <5>3. acc.data[i] # Nothing
          BY <5>2, SnapshotParts
        <5> QED
          BY <2>2, <2>3, <3>1, <5>1, <5>3
      <4> QED
        BY <4>2, <4>3, <4>4
    <3>2. CASE a # 1
      <4>1. a - 1 \in 1..(n - 1) /\ wire'[a - 1] = wire[a]
        BY <1>3, <2>1, <3>2
      <4>2. \A b \in (a - 1 + 1)..(n - 1) : wire'[b] = wire[b + 1] /\ b + 1 \in (a + 1)..n
        BY <1>3, <2>1, <3>2
      <4>3. Gives(wire'[a - 1], i, k) /\ \A b \in (a - 1 + 1)..(n - 1) : ~Names(wire'[b], i)
        BY <2>3, <4>1, <4>2
      <4> QED
        BY <4>1, <4>3 DEF Stands
    <3> QED
      BY <3>1, <3>2
  <2>4. ASSUME _sym_data[i] # Nothing, _sym_data[i].key = k, \A b \in 1..n : ~Names(wire[b], i)
        PROVE  Stands(i, k, n - 1)'
    <3>1. ~Names(first, i) /\ After(1)
      BY <2>1, <2>4
    <3>2. acc.data[i] = _sym_data[i]
          \/ \E m \in DOMAIN first : acc.data[i] = [key |-> _sym_data[i].key, value |-> first[m].value]
      <4>1. CASE \E m \in DOMAIN first : first[m].id = i
        <5>1. PICK m \in DOMAIN first : first[m].id = i
          BY <4>1
        <5>2. first[m].kind = "update"
          BY <1>5, <3>1, <5>1 DEF Names, Record
        <5> QED
          BY <1>9, <5>1, <5>2 DEF Applied
      <4>2. CASE ~\E m \in DOMAIN first : first[m].id = i
        BY <1>8, <4>2
      <4> QED
        BY <4>1, <4>2
    <3>3. acc.data[i] # Nothing /\ acc.data[i].key = k
      <4>1. CASE acc.data[i] = _sym_data[i]
        BY <2>4, <4>1
      <4>2. ASSUME NEW m \in DOMAIN first,
                   acc.data[i] = [key |-> _sym_data[i].key, value |-> first[m].value]
            PROVE  acc.data[i] # Nothing /\ acc.data[i].key = k
        <5>1. _sym_data[i] \in Snapshot
          BY <1>1, <2>4 DEF Typed, Shapes
        <5>2. _sym_data[i].key \in Key /\ first[m].value \in Value
          BY <1>5, <5>1 DEF Record, Snapshot
        <5>3. acc.data[i] \in Snapshot /\ acc.data[i].key = k
          BY <2>4, <4>2, <5>2 DEF Snapshot
        <5> QED
          BY <5>3, SnapshotParts
      <4> QED
        BY <3>2, <4>1, <4>2
    <3> HIDE DEF After
    <3> QED
      BY <2>2, <3>1, <3>3
  <2> QED
    BY <1>12, <2>3, <2>4 DEF Stands
<1>13. ASSUME NEW a \in DOMAIN wire', NEW m \in DOMAIN wire'[a], wire'[a][m].kind = "update"
       PROVE  Stands(wire[a][m].id, wire[a][m].key, a - 1)' \/ wire'[a][m].key \in skipped'
  <2>1. /\ wire'[a] = wire[a + 1] /\ a + 1 \in DOMAIN wire /\ a \in 1..Len(wire) /\ a + 1 - 1 = a
        /\ a \in Int
    BY <1>3
  <2>2. wire \in Seq(Seq(Record))
    BY <1>1 DEF Typed, Shapes
  <2>3. wire[a + 1][m] \in Record
    BY <1>13, <2>1, <2>2
  <2>4. wire[a + 1][m].id \in Id
    BY <2>3 DEF Record
  <2>5. Stands(wire[a + 1][m].id, wire[a + 1][m].key, a) \/ wire[a + 1][m].key \in skipped
    BY <1>13, <2>1 DEF QuotesInv, Content, UpdatesFindTheirs
  <2> QED
    BY <1>2, <1>12, <2>1, <2>4, <2>5
<1>14. ASSUME socket' = "ok", NEW n, n = Len(wire) - 1, NEW k \in subs'
       PROVE  Stands(number[k], k, n)' \/ k \in skipped'
  <2>1. k \in subs /\ number'[k] = number[k] /\ number[k] \in Id /\ socket = "ok"
    BY <1>1, <1>3, <1>14 DEF Typed, FyersTypeOK, NotYetSubscribed
  <2>2. Stands(number[k], k, Len(wire)) \/ k \in skipped
    BY <2>1 DEF QuotesInv, Content, UpdatesFindTheirs
  <2>3. Len(wire) \in 1..Len(wire)
    BY <1>3
  <2> QED
    BY <1>2, <1>12, <1>14, <2>1, <2>2, <2>3
<1>15. UpdatesFindTheirs'
  <2>1. socket' = "ok" => \A k \in subs' : Stands(number[k], k, Len(wire))' \/ k \in skipped'
    BY <1>3, <1>14
  <2> QED
    BY <1>13, <2>1 DEF UpdatesFindTheirs
<1> QED
  BY <1>6, <1>11, <1>15 DEF Content

\* The steps of the run, the leavers and the handlers that send nothing.
LEMMA ContentRun ==
  ASSUME QuotesInv, LocalStep
  PROVE  Content'
<1>1. /\ UNCHANGED <<value, _sym_data, pending, market, skipped>>
      /\ LetsBe \/ CloseSocket \/ \E n \in 0..Len(wire) : Cuts(n)
  BY LocalFacts DEF QuotesInv
<1>2. CASE LetsBe
  BY <1>1, <1>2, ContentKept DEF LetsBe, brokerVars
<1>3. CASE ~LetsBe
  BY <1>1, <1>3, ContentCut
<1> QED
  BY <1>2, <1>3

\* A subscription, in whichever state the broker is.
LEMMA ContentSubscribe ==
  ASSUME QuotesInv, Typed', NEW K \in SUBSET Key, Subscribe(K), socket = "ok",
         UNCHANGED <<_sym_data, pending, market, skipped, socket, value>>
  PROVE  Content'
<1>1. CASE K = {}
  <2>1. Typed
    BY DEF QuotesInv
  <2>2. wire' = wire /\ subs' = subs /\ \A k \in subs : number'[k] = number[k]
    BY <1>1, <2>1, SubscribeFacts
  <2> QED
    BY <2>2, ContentKept
<1>2. CASE K # {}
  <2>1. PICK frame \in Seq(Record) : Sent(frame)
    BY <1>2, SentBySubscribe
  <2> QED
    BY <2>1, ContentSent
<1> QED
  BY <1>1, <1>2

\* A session subscribes to the topics of its translation, or goes on without.
LEMMA SendFacts ==
  ASSUME QuotesInv, Typed',
         AuthAccepted \/ \E valid \in SUBSET asked : Resolved(valid) /\ socket = "ok"
  PROVE  /\ UNCHANGED <<_sym_data, pending, market, skipped, socket, value>>
         /\ \/ UNCHANGED brokerVars
            \/ socket = "ok" /\ \E K \in SUBSET Key : Subscribe(K)
<1>1. UNCHANGED <<_sym_data, pending, market, skipped, socket, value>>
  BY DEF AuthAccepted, Resolved, RunOnly, tickVars
<1>2. ASSUME socket = "ok", Subscribe(Topics(_hsm_symbols'))
      PROVE  \E K \in SUBSET Key : Subscribe(K)
  <2>1. Topics(_hsm_symbols') \in SUBSET Key
    BY DEF Topics, Typed, FyersTypeOK
  <2> QED
    BY <1>2, <2>1
<1>3. UNCHANGED brokerVars \/ (socket = "ok" /\ Subscribe(Topics(_hsm_symbols')))
  <2>1. CASE AuthAccepted
    BY <2>1 DEF AuthAccepted, SendSubscription
  <2>2. CASE \E valid \in SUBSET asked : Resolved(valid) /\ socket = "ok"
    BY <2>2 DEF Resolved, SendSubscription
  <2> QED
    BY <2>1, <2>2
<1> QED
  BY <1>1, <1>2, <1>3

\* A session's subscription renumbers the topics.
LEMMA ContentSend ==
  ASSUME QuotesInv, Typed',
         AuthAccepted \/ \E valid \in SUBSET asked : Resolved(valid) /\ socket = "ok"
  PROVE  Content'
<1>1. CASE UNCHANGED brokerVars
  BY <1>1, SendFacts, ContentKept DEF brokerVars
<1>2. CASE socket = "ok" /\ \E K \in SUBSET Key : Subscribe(K)
  BY <1>2, SendFacts, ContentSubscribe
<1> QED
  BY <1>1, <1>2, SendFacts

\* A handler subscribes or unsubscribes one topic.
LEMMA ContentChange ==
  ASSUME QuotesInv, Typed', NEW c \in Caller, NEW op \in {"sub", "unsub"}, NEW k \in Key,
         ChangeSubscription(c, op, k)
  PROVE  Content'
<1>1. Typed
  BY DEF QuotesInv
<1>2. UNCHANGED <<_sym_data, pending, market, skipped, socket, value>>
  BY <1>1, ChangeFacts
<1>3. CASE UNCHANGED brokerVars
  BY <1>2, <1>3, ContentKept DEF brokerVars
<1>4. CASE socket = "ok" /\ Subscribe({k})
  <2>1. {k} \in SUBSET Key
    OBVIOUS
  <2> QED
    BY <1>2, <1>4, <2>1, ContentSubscribe
<1>5. CASE socket = "ok" /\ Unsubscribe(k)
  <2>1. wire' = wire /\ \A l \in subs' : l \in subs /\ number'[l] = number[l]
    BY <1>1, <1>5 DEF Unsubscribe, Typed, FyersTypeOK, Shapes
  <2> QED
    BY <1>2, <1>5, <2>1, ContentKept
<1> QED
  BY <1>1, <1>3, <1>4, <1>5, ChangeFacts

\* Instruments trade, and the broker may have nothing to send of it.
LEMMA ContentTick ==
  ASSUME QuotesInv, Typed', NEW K \in SUBSET Key, Tick(K)
  PROVE  Content'
<1>1. CASE socket = "ok" /\ K \cap subs # {}
  <2>1. PICK frame \in Seq(Record) : Sent(frame)
    BY <1>1, SentByTick
  <2> QED
    BY <2>1, ContentSent
<1>2. CASE ~(socket = "ok" /\ K \cap subs # {})
  <2>1. Typed
    BY DEF QuotesInv
  <2>2. /\ UNCHANGED <<wire, _sym_data, pending, market, skipped, socket, subs, number>>
        /\ value' \in [Key -> 0..MaxTicks] /\ \A k \in Key : value[k] <= value'[k]
    BY <1>2, <2>1, TickFacts DEF Tick, feedVars, tickVars
  <2>3. value \in [Key -> 0..MaxTicks] /\ MaxTicks \in Nat
    BY <2>1, FyersBounds DEF Typed, Shapes
  <2>4. ASSUME NEW v \in Value, NEW k \in Key, v[2] <= value[k]
        PROVE  v[2] <= value'[k]
    <3>1. v[2] \in 0..MaxTicks
      BY DEF Value
    <3>2. v[2] \in Int /\ value[k] \in Int /\ value'[k] \in Int /\ value[k] <= value'[k]
      BY <2>2, <2>3, <3>1
    <3> QED
      BY <2>4, <3>2
  <2>5. ASSUME NEW a \in DOMAIN wire'
        PROVE  WellFormed(wire[a])'
    <3>1. WellFormed(wire[a]) /\ \A m \in DOMAIN wire[a] : wire[a][m] \in Record
      BY <2>1, <2>2 DEF QuotesInv, Content, Typed, FyersTypeOK
    <3>2. \A m \in DOMAIN wire[a] : wire[a][m].key \in Key /\ wire[a][m].value \in Value
      BY <3>1 DEF Record
    <3> QED
      BY <2>2, <2>4, <3>1, <3>2 DEF WellFormed
  <2>6. \A k, v : v \in Value /\ May(k, v) => May(k, v)'
    <3>1. \A v \in Value : v[1] \in Key
      BY DEF Value
    <3> QED
      BY <2>2, <2>4, <3>1 DEF May
  <2>7. Owned'
    <3>1. \A i \in Id : _sym_data[i] # Nothing => _sym_data[i].value \in Value
      BY DEF QuotesInv, Typed, FyersTypeOK, Snapshot
    <3>2. \A p \in DOMAIN pending : pending[p].value \in Value
      BY DEF QuotesInv, Typed, FyersTypeOK, Snapshot
    <3>3. \A k \in Key : market[k] # Nothing => market[k] \in Value
      BY DEF QuotesInv, Typed, FyersTypeOK
    <3> QED
      BY <2>2, <2>6, <3>1, <3>2, <3>3 DEF QuotesInv, Content, Owned
  <2>8. UpdatesFindTheirs'
    <3>1. \A i, k, n : Stands(i, k, n) <=> Stands(i, k, n)'
      BY <2>2 DEF Stands
    <3> QED
      BY <2>2, <3>1 DEF QuotesInv, Content, UpdatesFindTheirs
  <2> QED
    BY <2>5, <2>7, <2>8 DEF Content
<1> QED
  BY <1>1, <1>2

\* The invariant of the quotes holds after every step
LEMMA QuotesStep == QuotesInv /\ [FyersNext]_fyersVars => QuotesInv'
<1> SUFFICES ASSUME QuotesInv, [FyersNext]_fyersVars
             PROVE  QuotesInv'
  OBVIOUS
<1>1. Typed'
  BY TypedStep DEF QuotesInv, Content
<1>2. CASE UNCHANGED fyersVars
  <2>1. UNCHANGED <<wire, value, _sym_data, pending, market, skipped, socket, subs, number>>
    BY <1>2 DEF fyersVars, feedVars, brokerVars, tickVars
  <2>2. Content'
    BY <2>1, ContentKept
  <2> QED
    BY <1>1, <2>2 DEF QuotesInv, Typed, Content
<1>3. CASE FyersNext
  <2>1. Content'
    BY <1>1, <1>3, ContentRun, ContentSend, ContentTick, ContentChange, ContentDeliver,
       ContentReceive DEF FyersNext, RunStep, LeaverStep, LocalStep
  <2> QED
    BY <1>1, <2>1 DEF QuotesInv, Typed, Content
<1> QED
  BY <1>2, <1>3

\* and before the first.
LEMMA QuotesStart == FyersInit => QuotesInv
<1> SUFFICES ASSUME FyersInit
             PROVE  QuotesInv
  OBVIOUS
<1>1. Typed
  BY TypedInit
<1>2. /\ DOMAIN wire = {} /\ DOMAIN pending = {} /\ \A i \in Id : _sym_data[i] = Nothing
      /\ \A k \in Key : market[k] = Nothing
      /\ socket = "none"
  BY DEF FyersInit
<1>3. Content
  BY <1>2 DEF Content, Owned, UpdatesFindTheirs
<1> QED
  BY <1>1, <1>3 DEF QuotesInv

\* What the market service has of an instrument is a value the exchange published of it,
\* or of one that had a record dropped: however the broker renumbers its topics from
\* session to session and whatever ticks are in flight, no update is taken for that of
\* another instrument (_parse_datafeed, _emit_tick, _resolve_hsm_symbols).
THEOREM QuotesAreNeverMixedUp == FyersSpec => []QuotesAreTheirOwn
<1>1. QuotesInv => QuotesAreTheirOwn
  BY DEF QuotesInv, Typed, Content, Owned, May, QuotesAreTheirOwn
<1> QED
  BY <1>1, QuotesStart, QuotesStep, PTL DEF FyersSpec

-----------------------------------------------------------------------------
(***************************************************************************)
(* The feed catches up.                                                    *)
(***************************************************************************)

\* Nothing that the feed knows of the broker's instruments changes.
LEMMA CatchingKept ==
  ASSUME CurrentInv, UNCHANGED <<wire, _sym_data, pending, market, skipped>>,
         socket' = "ok" => \A k \in subs' : /\ k \in subs /\ socket = "ok"
                                            /\ number'[k] = number[k] /\ value'[k] = value[k]
  PROVE  Catching'
<1>1. SUFFICES ASSUME socket' = "ok"
               PROVE  Catching'
  BY DEF Catching
<1>2. ASSUME NEW k \in subs'
      PROVE  NumberIsItsOwn(k)'
  <2>1. NumberIsItsOwn(k)
    BY <1>1, <1>2 DEF CurrentInv, Catching
  <2> QED
    BY <1>1, <1>2, <2>1 DEF NumberIsItsOwn, Snaps
<1>3. ASSUME NEW k \in subs' \ skipped'
      PROVE  KnownIsTold(k)' /\ LastIsCurrent(k)'
  <2>1. KnownIsTold(k) /\ LastIsCurrent(k) /\ number'[k] = number[k] /\ value'[k] = value[k]
    BY <1>1, <1>3 DEF CurrentInv, Catching
  <2>2. KnownIsTold(k)'
    BY <2>1 DEF KnownIsTold, Snaps, Told, OwnTick
  <2>3. LastIsCurrent(k)'
    BY <2>1 DEF LastIsCurrent, Of
  <2> QED
    BY <2>2, <2>3
<1> QED
  BY <1>2, <1>3 DEF Catching

\* A new frame is the last of its instruments.
LEMMA CatchingSent ==
  ASSUME CurrentInv, Typed', NEW frame \in Seq(Record), Sent(frame)
  PROVE  Catching'
<1>1. /\ UNCHANGED <<_sym_data, pending, market, skipped, socket>>
      /\ socket = "ok" /\ wire' = Append(wire, frame)
  BY DEF Sent
<1>2. wire \in Seq(Seq(Record)) /\ Len(wire) \in Nat /\ DOMAIN wire = 1..Len(wire)
  BY DEF CurrentInv, QuotesInv, Typed, Shapes
<1>3. /\ DOMAIN wire' = DOMAIN wire \cup {Len(wire) + 1} /\ wire'[Len(wire) + 1] = frame
      /\ \A a \in DOMAIN wire : wire'[a] = wire[a] /\ Len(wire) + 1 > a
      /\ Len(wire) + 1 \in DOMAIN wire' /\ Len(wire) + 1 \notin DOMAIN wire
  BY <1>1, <1>2
<1> DEFINE last == Len(wire) + 1
<1> HIDE DEF last
<1>4. \A k, l \in subs' : number'[k] = number'[l] => k = l
  BY DEF Typed, FyersTypeOK
<1>5. \A m \in DOMAIN frame : frame[m].key \in subs' /\ frame[m].id = number'[frame[m].key]
  BY DEF Sent
<1>6. ASSUME NEW k \in subs', ~Snaps(frame, k)
      PROVE  k \in subs /\ number'[k] = number[k]
  BY <1>6 DEF Sent, Snaps
<1>7. ASSUME NEW k \in subs', ~Of(frame, k)
      PROVE  value'[k] = value[k] /\ ~Snaps(frame, k)
  BY <1>7 DEF Sent, Of, Snaps
<1>8. ASSUME NEW k \in subs'
      PROVE  NumberIsItsOwn(k)'
  <2> SUFFICES ASSUME NEW a \in DOMAIN wire', \A b \in DOMAIN wire' : b > a => ~Snaps(wire'[b], k),
                      NEW m \in DOMAIN wire'[a]
               PROVE  wire'[a][m].key = k <=> wire'[a][m].id = number'[k]
    BY DEF NumberIsItsOwn, Snaps
  <2>1. CASE a \in DOMAIN wire
    <3>1. ~Snaps(frame, k) /\ wire'[a] = wire[a] /\ \A b \in DOMAIN wire : b > a => ~Snaps(wire[b], k)
      BY <1>3, <2>1
    <3>2. NumberIsItsOwn(k) /\ number'[k] = number[k]
      BY <1>1, <1>6, <3>1 DEF CurrentInv, Catching
    <3> QED
      BY <2>1, <3>1, <3>2 DEF NumberIsItsOwn
  <2>2. CASE a \notin DOMAIN wire
    <3>1. wire'[a] = frame /\ m \in DOMAIN frame
      BY <1>3, <2>2
    <3> QED
      BY <1>4, <1>5, <3>1
  <2> QED
    BY <2>1, <2>2
<1>9. ASSUME NEW k \in subs' \ skipped'
      PROVE  KnownIsTold(k)'
  <2>1. SUFFICES ASSUME \A a \in DOMAIN wire' : ~Snaps(wire'[a], k)
                 PROVE  KnownIsTold(k)'
    BY DEF KnownIsTold, Snaps
  <2>2. ~Snaps(frame, k) /\ \A a \in DOMAIN wire : ~Snaps(wire[a], k)
    BY <1>3, <2>1
  <2>3. KnownIsTold(k) /\ number'[k] = number[k]
    BY <1>1, <1>6, <1>9, <2>2 DEF CurrentInv, Catching
  <2> QED
    BY <1>1, <2>2, <2>3 DEF KnownIsTold, Told, OwnTick
<1>10. ASSUME NEW k \in subs' \ skipped'
       PROVE  LastIsCurrent(k)'
  <2>1. ASSUME ~Of(frame, k)
        PROVE  LastIsCurrent(k) /\ number'[k] = number[k] /\ value'[k] = value[k]
    BY <1>1, <1>6, <1>7, <1>10, <2>1 DEF CurrentInv, Catching
  <2>2. ASSUME NEW a \in DOMAIN wire', NEW m \in DOMAIN wire'[a], wire'[a][m].key = k,
               \A b \in DOMAIN wire' : b > a => ~Of(wire'[b], k)
        PROVE  wire'[a][m].value = <<k, value'[k]>>
    <3>1. CASE a \in DOMAIN wire
      <4>1. ~Of(frame, k) /\ wire'[a] = wire[a] /\ \A b \in DOMAIN wire : b > a => ~Of(wire[b], k)
        BY <1>3, <2>2, <3>1
      <4> QED
        BY <2>1, <2>2, <3>1, <4>1 DEF LastIsCurrent
    <3>2. CASE a \notin DOMAIN wire
      <4>1. wire'[a] = frame /\ m \in DOMAIN frame
        BY <1>3, <2>2, <3>2
      <4>2. frame[m].value = <<frame[m].key, value'[frame[m].key]>>
        BY <4>1 DEF Sent
      <4> QED
        BY <2>2, <4>1, <4>2
    <3> QED
      BY <3>1, <3>2
  <2>3. ASSUME \A a \in DOMAIN wire' : ~Of(wire'[a], k)
        PROVE  _sym_data'[number'[k]].value = <<k, value'[k]>>
    <3>1. ~Of(frame, k) /\ \A a \in DOMAIN wire : ~Of(wire[a], k)
      BY <1>3, <2>3
    <3> QED
      BY <1>1, <2>1, <3>1 DEF LastIsCurrent
  <2> QED
    BY <2>2, <2>3 DEF LastIsCurrent, Of
<1> QED
  BY <1>8, <1>9, <1>10 DEF Catching

\* A delivery, in the order of the ticks.
LEMMA CatchingDeliver ==
  ASSUME CurrentInv, Deliver
  PROVE  Catching'
<1>1. Typed
  BY DEF CurrentInv, QuotesInv
<1>2. /\ UNCHANGED <<subs, number, wire, value, _sym_data, skipped, socket>>
      /\ Len(pending) \in Nat /\ Len(pending) > 0 /\ pending[1] \in Snapshot
      /\ pending \in Seq(Snapshot) /\ pending' \in Seq(Snapshot)
      /\ Len(pending') = Len(pending) - 1
      /\ DOMAIN pending = 1..Len(pending) /\ DOMAIN pending' = 1..(Len(pending) - 1)
      /\ \A p \in 1..(Len(pending) - 1) : pending'[p] = pending[p + 1]
      /\ market' = [market EXCEPT ![pending[1].key] = pending[1].value]
      /\ market \in [Key -> Value \cup {Nothing}]
  BY <1>1, DeliverFacts DEF Typed, Shapes
<1>3. ASSUME NEW k \in Key, NEW v, Told(k, v)
      PROVE  Told(k, v)'
  <2>1. /\ \A p \in DOMAIN pending' : p + 1 \in DOMAIN pending /\ (OwnTick(p, k)' <=> OwnTick(p + 1, k))
        /\ \A p \in DOMAIN pending : p # 1 => p - 1 \in DOMAIN pending' /\ pending'[p - 1] = pending[p]
    BY <1>2 DEF OwnTick
  <2>2. ASSUME NEW p \in DOMAIN pending, p # 1, OwnTick(p, k), pending[p].value = v,
               \A q \in DOMAIN pending : q > p /\ OwnTick(q, k) => pending[q].value = v
        PROVE  Told(k, v)'
    <3>1. p - 1 \in DOMAIN pending' /\ pending'[p - 1] = pending[p] /\ OwnTick(p - 1, k)'
      BY <2>1, <2>2 DEF OwnTick
    <3>2. \A q \in DOMAIN pending' : q > p - 1 /\ OwnTick(q, k)' => pending'[q].value = v
      <4> SUFFICES ASSUME NEW q \in DOMAIN pending', q > p - 1, OwnTick(q, k)'
                   PROVE  pending'[q].value = v
        OBVIOUS
      <4>1. q + 1 \in DOMAIN pending /\ OwnTick(q + 1, k) /\ pending'[q] = pending[q + 1] /\ q + 1 > p
        BY <1>2, <2>1
      <4> QED
        BY <2>2, <4>1
    <3> QED
      BY <2>2, <3>1, <3>2 DEF Told, OwnTick
  <2>3. ASSUME \A q \in DOMAIN pending : q # 1 => ~OwnTick(q, k),
               OwnTick(1, k) => pending[1].value = v,
               ~OwnTick(1, k) => market[k] = v \/ (market[k] # Nothing /\ market[k][1] # k)
        PROVE  Told(k, v)'
    <3>1. \A q \in DOMAIN pending' : ~OwnTick(q, k)'
      BY <1>2, <2>1, <2>3
    <3>2. market'[k] = v \/ (market'[k] # Nothing /\ market'[k][1] # k)
      <4>1. CASE pending[1].key # k
        <5>1. market'[k] = market[k]
          BY <1>2, <4>1
        <5> QED
          BY <2>3, <4>1, <5>1 DEF OwnTick
      <4>2. CASE pending[1].key = k
        <5>1. market'[k] = pending[1].value
          BY <1>2, <4>2
        <5>2. pending[1].value \in Value
          BY <1>2, SnapshotParts
        <5>3. pending[1].value \in Key \X Nat
          BY <5>2, FyersBounds DEF Value
        <5>4. pending[1].value # Nothing
          BY <5>3, FyersFeedAssumption
        <5> QED
          BY <2>3, <4>2, <5>1, <5>4 DEF OwnTick
      <4> QED
        BY <4>1, <4>2
    <3> QED
      BY <3>1, <3>2 DEF Told, OwnTick
  <2>4. CASE \A q \in DOMAIN pending : ~OwnTick(q, k)
    <3>1. market[k] = v \/ (market[k] # Nothing /\ market[k][1] # k)
      BY <1>3, <2>4 DEF Told
    <3>2. 1 \in DOMAIN pending
      BY <1>2
    <3> QED
      BY <2>3, <2>4, <3>1, <3>2
  <2>5. CASE \E q \in DOMAIN pending : OwnTick(q, k)
    <3>1. PICK p \in DOMAIN pending :
             /\ OwnTick(p, k) /\ pending[p].value = v
             /\ \A q \in DOMAIN pending : q > p /\ OwnTick(q, k) => pending[q].value = v
      BY <1>3, <2>5 DEF Told
    <3>2. CASE p # 1
      BY <2>2, <3>1, <3>2
    <3>3. CASE p = 1 /\ \E q \in DOMAIN pending : q # 1 /\ OwnTick(q, k)
      <4>1. PICK q \in DOMAIN pending : q # 1 /\ OwnTick(q, k)
        BY <3>3
      <4>2. q > 1 /\ \A o \in DOMAIN pending : o > q => o > 1
        BY <1>2, <4>1
      <4>3. /\ pending[q].value = v
            /\ \A o \in DOMAIN pending : o > q /\ OwnTick(o, k) => pending[o].value = v
        BY <3>1, <3>3, <4>1, <4>2
      <4> QED
        BY <2>2, <4>1, <4>3
    <3>4. CASE p = 1 /\ \A q \in DOMAIN pending : q # 1 => ~OwnTick(q, k)
      BY <2>3, <3>1, <3>4
    <3> QED
      BY <3>2, <3>3, <3>4
  <2> QED
    BY <2>4, <2>5
<1>4. \A k : NumberIsItsOwn(k) => NumberIsItsOwn(k)'
  BY <1>2 DEF NumberIsItsOwn, Snaps
<1>5. \A k : LastIsCurrent(k) => LastIsCurrent(k)'
  BY <1>2 DEF LastIsCurrent, Of
<1>6. \A k \in Key : KnownIsTold(k) => KnownIsTold(k)'
  <2>1. \A k : (\A a \in DOMAIN wire : ~Snaps(wire[a], k))
                  <=> (\A a \in DOMAIN wire : ~Snaps(wire[a], k))'
    BY <1>2 DEF Snaps
  <2> QED
    BY <1>2, <1>3, <2>1 DEF KnownIsTold
<1>7. subs \subseteq Key
  BY <1>1 DEF Typed, FyersTypeOK
<1> QED
  BY <1>2, <1>4, <1>5, <1>6, <1>7 DEF Catching, CurrentInv

\* What the frame that is read first makes known of an instrument that has no
\* snapshot behind it.
LEMMA ReadIsTold ==
  ASSUME CurrentInv, Receive, socket = "ok", NEW k \in subs, k \notin skipped',
         \A b \in DOMAIN wire : b > 1 => ~Snaps(wire[b], k)
  PROVE  LET known == _sym_data'[number[k]]
         IN  /\ known # Nothing /\ known.key = k /\ known.value[1] = k
             /\ \E v : v = known.value /\ Told(k, v)'
             /\ \A m \in DOMAIN wire[1] : wire[1][m].key = k => known.value = wire[1][m].value
             /\ ~Of(wire[1], k) => known = _sym_data[number[k]]
<1>1. Typed /\ (\A a \in DOMAIN wire : WellFormed(wire[a])) /\ QuotesInv
  BY DEF CurrentInv, QuotesInv, Content
<1>2. PICK acc : /\ Accounted(_sym_data, wire[1], acc, Len(wire[1]))
                 /\ acc \in Account
                 /\ _sym_data' = acc.data /\ skipped' = skipped \cup acc.behind
                 /\ pending' = pending \o acc.out
  BY <1>1, ReceiveFacts
<1>3. /\ market' = market
      /\ Len(wire) \in Nat /\ Len(wire) > 0 /\ DOMAIN wire = 1..Len(wire)
      /\ wire[1] \in Seq(Record) /\ WellFormed(wire[1])
  BY <1>1, ReceiveFacts
<1> DEFINE first == wire[1]
           i == number[k]
           known == acc.data[i]
<1>4. /\ acc.data \in [Id -> Snapshot \cup {Nothing}] /\ acc.out \in Seq(Snapshot)
      /\ acc.behind \in SUBSET Key
      /\ pending \in Seq(Snapshot)
  BY <1>1, <1>2 DEF Account, Typed, Shapes
<1>5. /\ \A m \in DOMAIN first : first[m] \in Record
      /\ DOMAIN first = 1..Len(first)
  BY <1>3
<1>6. k \in Key /\ i \in Id /\ HasTopic(k) /\ k \notin skipped /\ k \notin acc.behind
  BY <1>1, <1>2 DEF Typed, FyersTypeOK, NotYetSubscribed, HasTopic
<1>7. \A m \in DOMAIN first : first[m].key = k <=> first[m].id = i
  <2>1. NumberIsItsOwn(k) /\ 1 \in DOMAIN wire
    BY <1>3 DEF CurrentInv, Catching
  <2> QED
    BY <2>1 DEF NumberIsItsOwn
<1>8. \A m \in DOMAIN first : first[m].value[1] = first[m].key /\ first[m].value \in Value
                             /\ first[m].kind \in {"snapshot", "update"}
  BY <1>3, <1>5 DEF WellFormed, Record
<1>9. ASSUME NEW p \in DOMAIN acc.out, acc.out[p].value[1] = k
      PROVE  \E m \in DOMAIN first :
                /\ first[m].key = k /\ IsNews(_sym_data, first[m])
                /\ acc.out[p].value = first[m].value
  <2>1. PICK m \in 1..Len(first) : /\ IsNews(_sym_data, first[m])
                                   /\ acc.out[p] = TickOf(_sym_data, first[m])
    BY <1>2 DEF Accounted
  <2>2. acc.out[p].value = first[m].value
    BY <2>1 DEF TickOf
  <2> QED
    BY <1>5, <1>8, <1>9, <2>1, <2>2
<1>10. /\ DOMAIN pending \subseteq DOMAIN pending'
       /\ \A p \in DOMAIN pending : pending'[p] = pending[p]
       /\ \A p \in DOMAIN acc.out : /\ Len(pending) + p \in DOMAIN pending'
                                    /\ pending'[Len(pending) + p] = acc.out[p]
       /\ \A p \in DOMAIN pending' : p \notin DOMAIN pending =>
             p - Len(pending) \in DOMAIN acc.out /\ pending'[p] = acc.out[p - Len(pending)]
       /\ DOMAIN pending = 1..Len(pending) /\ Len(pending) \in Nat
       /\ DOMAIN acc.out \subseteq Nat \ {0} /\ DOMAIN pending' \subseteq Nat
  BY <1>2, <1>4
<1>11. ASSUME NEW m \in DOMAIN first, first[m].key = k, IsNews(_sym_data, first[m]),
              Addressee(_sym_data, first[m]) = k, NEW v, v = first[m].value
       PROVE  Told(k, v)'
  <2>1. Announced(_sym_data, acc, first[m])
    BY <1>2, <1>5 DEF Accounted
  <2>2. PICK p \in DOMAIN acc.out : acc.out[p] = TickOf(_sym_data, first[m])
    BY <1>6, <1>11, <2>1 DEF Announced
  <2>3. acc.out[p].key = k /\ acc.out[p].value = v
    BY <1>11, <2>2 DEF TickOf
  <2>4. \A n \in DOMAIN first : first[n].key = k => n = m
    BY <1>3, <1>11 DEF WellFormed
  <2>5. Len(pending) + p \in DOMAIN pending' /\ pending'[Len(pending) + p] = acc.out[p]
    BY <1>10
  <2>6. ASSUME NEW q \in DOMAIN pending', q > Len(pending) + p, pending'[q].value[1] = k
        PROVE  pending'[q].value = v
    <3>1. q - Len(pending) \in DOMAIN acc.out /\ pending'[q] = acc.out[q - Len(pending)]
      BY <1>10, <2>6
    <3>2. PICK n \in DOMAIN first : /\ first[n].key = k
                                    /\ acc.out[q - Len(pending)].value = first[n].value
      BY <1>9, <2>6, <3>1
    <3> QED
      BY <1>11, <2>4, <3>1, <3>2
  <2>7. v[1] = k
    BY <1>8, <1>11
  <2>8. \E o \in DOMAIN pending' :
          /\ pending'[o].key = k /\ pending'[o].value[1] = k /\ pending'[o].value = v
          /\ \A q \in DOMAIN pending' : q > o /\ pending'[q].value[1] = k => pending'[q].value = v
    BY <2>3, <2>5, <2>6, <2>7
  <2> QED
    BY <2>8 DEF Told, OwnTick
<1>12. ASSUME NEW v, Told(k, v),
              \A m \in DOMAIN first : first[m].key = k => ~IsNews(_sym_data, first[m])
       PROVE  Told(k, v)'
  <2>1. \A q \in DOMAIN pending' : q \notin DOMAIN pending => ~OwnTick(q, k)'
    BY <1>9, <1>10, <1>12 DEF OwnTick
  <2>2. \A q \in DOMAIN pending : OwnTick(q, k)' <=> OwnTick(q, k)
    BY <1>10 DEF OwnTick
  <2> QED
    BY <1>3, <1>10, <1>12, <2>1, <2>2 DEF Told, OwnTick
<1>13. CASE Snaps(first, k)
  <2>1. PICK m \in DOMAIN first : first[m].kind = "snapshot" /\ first[m].key = k
    BY <1>13 DEF Snaps
  <2>2. Applied(_sym_data, acc, first[m]) /\ first[m].id = i
    BY <1>2, <1>5, <1>7, <2>1 DEF Accounted
  <2>3. known = [key |-> k, value |-> first[m].value]
    <3>1. known = [key |-> k, value |-> first[m].value] \/ k \in acc.behind
      BY <2>1, <2>2 DEF Applied
    <3> QED
      BY <1>6, <3>1
  <2>4. IsNews(_sym_data, first[m]) /\ Addressee(_sym_data, first[m]) = k
    BY <2>1 DEF IsNews, Addressee
  <2>5. \E v : v = first[m].value /\ Told(k, v)'
    BY <1>11, <2>1, <2>4
  <2>6. \A n \in DOMAIN first : first[n].key = k => n = m
    BY <1>3, <2>1 DEF WellFormed
  <2>7. known # Nothing
    <3>1. known \in Snapshot
      BY <1>6, <1>8, <2>3 DEF Snapshot
    <3> QED
      BY <3>1, SnapshotParts
  <2>8. known.key = k /\ known.value = first[m].value /\ known.value[1] = k
    BY <1>8, <2>1, <2>3
  <2>9. Of(first, k)
    BY <2>1 DEF Of
  <2> HIDE DEF known
  <2>10. /\ known # Nothing /\ known.key = k /\ known.value[1] = k
         /\ \E v : v = known.value /\ Told(k, v)'
         /\ \A n \in DOMAIN first : first[n].key = k => known.value = first[n].value
    BY <2>5, <2>6, <2>7, <2>8
  <2> QED
    BY <1>2, <2>8, <2>9, <2>10 DEF known
<1>14. CASE ~Snaps(first, k)
  <2> DEFINE old == _sym_data[i]
  <2>1. old # Nothing /\ old.key = k /\ old.value[1] = k /\ Told(k, old.value)
    <3>1. KnownIsTold(k) /\ \A a \in DOMAIN wire : ~Snaps(wire[a], k)
      BY <1>3, <1>6, <1>14 DEF CurrentInv, Catching
    <3> QED
      BY <3>1 DEF KnownIsTold
  <2>2. CASE ~Of(first, k)
    <3>1. \A m \in DOMAIN first : first[m].key # k
      BY <2>2 DEF Of
    <3>2. known = old
      BY <1>2, <1>5, <1>6, <1>7, <3>1 DEF Accounted
    <3>3. \E v : v = old.value /\ Told(k, v)'
      <4> HIDE DEF old
      <4> QED
        BY <1>12, <2>1, <3>1
    <3> QED
      BY <1>2, <2>1, <3>1, <3>2, <3>3
  <2>3. CASE Of(first, k)
    <3>1. PICK m \in DOMAIN first : first[m].key = k
      BY <2>3 DEF Of
    <3>2. first[m].kind = "update" /\ first[m].id = i
      BY <1>7, <1>8, <1>14, <3>1 DEF Snaps
    <3>3. known = [key |-> k, value |-> first[m].value]
      <4>1. Applied(_sym_data, acc, first[m])
        BY <1>2, <1>5 DEF Accounted
      <4>2. \/ known = [key |-> old.key, value |-> first[m].value]
            \/ old = Nothing \/ k \in acc.behind
        BY <3>1, <3>2, <4>1 DEF Applied
      <4> QED
        BY <1>6, <2>1, <4>2
    <3>4. \A n \in DOMAIN first : first[n].key = k => n = m
      BY <1>3, <3>1 DEF WellFormed
    <3>5. \E v : v = first[m].value /\ Told(k, v)'
      <4>1. CASE old.value # first[m].value
        <5>1. IsNews(_sym_data, first[m]) /\ Addressee(_sym_data, first[m]) = k
          BY <2>1, <3>2, <4>1 DEF IsNews, Addressee
        <5> QED
          BY <1>11, <3>1, <5>1
      <4>2. CASE old.value = first[m].value
        <5>1. ~IsNews(_sym_data, first[m])
          BY <3>2, <4>2 DEF IsNews
        <5>2. \E v : v = first[m].value /\ Told(k, v)
          BY <2>1, <4>2
        <5> QED
          BY <1>12, <3>4, <5>1, <5>2
      <4> QED
        BY <4>1, <4>2
    <3>6. known # Nothing
      <4>1. known \in Snapshot
        BY <1>6, <1>8, <3>3 DEF Snapshot
      <4> QED
        BY <4>1, SnapshotParts
    <3>7. known.key = k /\ known.value = first[m].value /\ known.value[1] = k
      BY <1>8, <3>1, <3>3
    <3> HIDE DEF known
    <3> QED
      BY <1>2, <2>3, <3>4, <3>5, <3>6, <3>7 DEF known
  <2> QED
    BY <2>2, <2>3
<1> QED
  BY <1>13, <1>14

\* The frame that is read leaves the later ones the last word.
LEMMA CatchingReceive ==
  ASSUME CurrentInv, Receive
  PROVE  Catching'
<1>1. Typed /\ (\A a \in DOMAIN wire : WellFormed(wire[a])) /\ QuotesInv
  BY DEF CurrentInv, QuotesInv, Content
<1>2. /\ UNCHANGED <<subs, number, value, socket>> /\ skipped \subseteq skipped'
      /\ Len(wire) \in Nat /\ Len(wire) > 0 /\ DOMAIN wire = 1..Len(wire)
      /\ DOMAIN wire' = 1..(Len(wire) - 1)
      /\ \A a \in 1..(Len(wire) - 1) : wire'[a] = wire[a + 1]
  BY <1>1, ReceiveFacts
<1>3. /\ \A a \in DOMAIN wire' : a + 1 \in DOMAIN wire /\ wire'[a] = wire[a + 1]
      /\ \A b \in DOMAIN wire : b # 1 => b - 1 \in DOMAIN wire' /\ wire'[b - 1] = wire[b]
      /\ 1 \in DOMAIN wire
      /\ \A a \in DOMAIN wire' : a \in Int /\ \A b \in DOMAIN wire : b > a + 1 => b - 1 > a /\ b # 1
  BY <1>2
<1>4. SUFFICES ASSUME socket = "ok"
               PROVE  Catching'
  BY <1>2 DEF Catching
<1>5. ASSUME NEW k \in subs
      PROVE  NumberIsItsOwn(k)'
  <2>1. NumberIsItsOwn(k)
    BY <1>4 DEF CurrentInv, Catching
  <2> SUFFICES ASSUME NEW a \in DOMAIN wire', \A b \in DOMAIN wire' : b > a => ~Snaps(wire'[b], k),
                      NEW m \in DOMAIN wire'[a]
               PROVE  wire'[a][m].key = k <=> wire'[a][m].id = number'[k]
    BY DEF NumberIsItsOwn, Snaps
  <2>2. \A b \in DOMAIN wire : b > a + 1 => ~Snaps(wire[b], k)
    BY <1>3
  <2> QED
    BY <1>2, <1>3, <2>1, <2>2 DEF NumberIsItsOwn
<1>6. ASSUME NEW k \in subs, k \notin skipped'
      PROVE  KnownIsTold(k)'
  <2> SUFFICES ASSUME \A a \in DOMAIN wire' : ~Snaps(wire'[a], k)
               PROVE  KnownIsTold(k)'
    BY DEF KnownIsTold, Snaps
  <2>1. \A b \in DOMAIN wire : b > 1 => ~Snaps(wire[b], k)
    BY <1>3
  <2>2. LET known == _sym_data'[number[k]]
        IN  known # Nothing /\ known.key = k /\ known.value[1] = k
            /\ \E v : v = known.value /\ Told(k, v)'
    BY <1>4, <1>6, <2>1, ReadIsTold
  <2> QED
    BY <1>2, <2>2 DEF KnownIsTold
<1>7. ASSUME NEW k \in subs, k \notin skipped'
      PROVE  LastIsCurrent(k)'
  <2>1. LastIsCurrent(k)
    BY <1>2, <1>4, <1>7 DEF CurrentInv, Catching
  <2>2. ASSUME NEW a \in DOMAIN wire', NEW m \in DOMAIN wire'[a], wire'[a][m].key = k,
               \A b \in DOMAIN wire' : b > a => ~Of(wire'[b], k)
        PROVE  wire'[a][m].value = <<k, value'[k]>>
    <3>1. \A b \in DOMAIN wire : b > a + 1 => ~Of(wire[b], k)
      BY <1>3, <2>2
    <3> QED
      BY <1>2, <1>3, <2>1, <2>2, <3>1 DEF LastIsCurrent
  <2>3. ASSUME \A a \in DOMAIN wire' : ~Of(wire'[a], k)
        PROVE  _sym_data'[number'[k]].value = <<k, value'[k]>>
    <3>1. \A b \in DOMAIN wire : b > 1 => ~Of(wire[b], k)
      BY <1>3, <2>3
    <3>2. \A b \in DOMAIN wire : b > 1 => ~Snaps(wire[b], k)
      BY <3>1 DEF Of, Snaps
    <3>3. LET known == _sym_data'[number[k]]
          IN  /\ \A m \in DOMAIN wire[1] : wire[1][m].key = k => known.value = wire[1][m].value
              /\ ~Of(wire[1], k) => known = _sym_data[number[k]]
      BY <1>4, <1>7, <3>2, ReadIsTold
    <3>4. CASE Of(wire[1], k)
      <4>1. PICK m \in DOMAIN wire[1] : wire[1][m].key = k
        BY <3>4 DEF Of
      <4>2. wire[1][m].value = <<k, value[k]>>
        BY <1>3, <2>1, <3>1, <4>1 DEF LastIsCurrent
      <4> QED
        BY <1>2, <3>3, <4>1, <4>2
    <3>5. CASE ~Of(wire[1], k)
      <4>1. \A b \in DOMAIN wire : ~Of(wire[b], k)
        BY <1>2, <3>1, <3>5
      <4> QED
        BY <1>2, <2>1, <3>3, <3>5, <4>1 DEF LastIsCurrent
    <3> QED
      BY <3>4, <3>5
  <2> QED
    BY <2>2, <2>3 DEF LastIsCurrent, Of
<1> QED
  BY <1>2, <1>5, <1>6, <1>7 DEF Catching

\* The steps that send nothing; without a socket nothing is promised.
LEMMA CatchingRun ==
  ASSUME CurrentInv, LocalStep
  PROVE  Catching'
<1>1. /\ UNCHANGED <<value, _sym_data, pending, market, skipped>>
      /\ LetsBe \/ CloseSocket \/ \E n \in 0..Len(wire) : Cuts(n)
  BY LocalFacts DEF CurrentInv, QuotesInv
<1>2. CASE LetsBe
  BY <1>1, <1>2, CatchingKept DEF LetsBe, brokerVars
<1>3. CASE ~LetsBe
  BY <1>1, <1>3 DEF CloseSocket, Cuts, Catching
<1> QED
  BY <1>2, <1>3

\* A subscription sends the current values.
LEMMA CatchingSubscribe ==
  ASSUME CurrentInv, Typed', NEW K \in SUBSET Key, Subscribe(K), socket = "ok",
         UNCHANGED <<_sym_data, pending, market, skipped, socket, value>>
  PROVE  Catching'
<1>1. QuotesInv
  BY DEF CurrentInv
<1>2. CASE K = {}
  <2>1. Typed
    BY <1>1 DEF QuotesInv
  <2>2. wire' = wire /\ subs' = subs /\ \A k \in subs : number'[k] = number[k]
    BY <1>2, <2>1, SubscribeFacts
  <2> QED
    BY <2>2, CatchingKept
<1>3. CASE K # {}
  <2>1. PICK frame \in Seq(Record) : Sent(frame)
    BY <1>1, <1>3, SentBySubscribe
  <2> QED
    BY <2>1, CatchingSent
<1> QED
  BY <1>2, <1>3

\* The subscription of a session.
LEMMA CatchingSend ==
  ASSUME CurrentInv, Typed',
         AuthAccepted \/ \E valid \in SUBSET asked : Resolved(valid) /\ socket = "ok"
  PROVE  Catching'
<1>1. QuotesInv
  BY DEF CurrentInv
<1>2. /\ UNCHANGED <<_sym_data, pending, market, skipped, socket, value>>
      /\ \/ UNCHANGED brokerVars
         \/ socket = "ok" /\ \E K \in SUBSET Key : Subscribe(K)
  BY <1>1, SendFacts
<1>3. CASE UNCHANGED brokerVars
  BY <1>2, <1>3, CatchingKept DEF brokerVars
<1>4. CASE socket = "ok" /\ \E K \in SUBSET Key : Subscribe(K)
  BY <1>2, <1>4, CatchingSubscribe
<1> QED
  BY <1>2, <1>3, <1>4

\* One of a handler.
LEMMA CatchingChange ==
  ASSUME CurrentInv, Typed', NEW c \in Caller, NEW op \in {"sub", "unsub"}, NEW k \in Key,
         ChangeSubscription(c, op, k)
  PROVE  Catching'
<1>1. Typed
  BY DEF CurrentInv, QuotesInv
<1>2. UNCHANGED <<_sym_data, pending, market, skipped, socket, value>>
  BY <1>1, ChangeFacts
<1>3. CASE UNCHANGED brokerVars
  BY <1>2, <1>3, CatchingKept DEF brokerVars
<1>4. CASE socket = "ok" /\ Subscribe({k})
  <2>1. {k} \in SUBSET Key
    OBVIOUS
  <2> QED
    BY <1>2, <1>4, <2>1, CatchingSubscribe
<1>5. CASE socket = "ok" /\ Unsubscribe(k)
  <2>1. wire' = wire /\ \A l \in subs' : l \in subs /\ number'[l] = number[l]
    BY <1>1, <1>5 DEF Unsubscribe, Typed, FyersTypeOK, Shapes
  <2> QED
    BY <1>2, <1>5, <2>1, CatchingKept
<1> QED
  BY <1>1, <1>3, <1>4, <1>5, ChangeFacts

\* Every trade of a topic the broker sends is sent.
LEMMA CatchingTick ==
  ASSUME CurrentInv, Typed', NEW K \in SUBSET Key, Tick(K)
  PROVE  Catching'
<1>1. QuotesInv
  BY DEF CurrentInv
<1>2. CASE socket = "ok" /\ K \cap subs # {}
  <2>1. PICK frame \in Seq(Record) : Sent(frame)
    BY <1>1, <1>2, SentByTick
  <2> QED
    BY <2>1, CatchingSent
<1>3. CASE ~(socket = "ok" /\ K \cap subs # {})
  <2>1. Typed
    BY <1>1 DEF QuotesInv
  <2>2. UNCHANGED <<wire, _sym_data, pending, market, skipped, socket, subs, number>>
    BY <1>3, <2>1, TickFacts DEF Tick, feedVars, tickVars
  <2>3. socket = "ok" => \A k \in subs : value'[k] = value[k]
    <3>1. \A k \in Key : k \notin K => value'[k] = value[k]
      BY DEF Tick
    <3> QED
      BY <1>3, <2>1, <3>1 DEF Typed, FyersTypeOK
  <2> QED
    BY <2>2, <2>3, CatchingKept
<1> QED
  BY <1>2, <1>3

\* The invariant of catching up holds after every step
LEMMA CurrentStep == CurrentInv /\ [FyersNext]_fyersVars => CurrentInv'
<1> SUFFICES ASSUME CurrentInv, [FyersNext]_fyersVars
             PROVE  CurrentInv'
  OBVIOUS
<1>1. QuotesInv /\ QuotesInv'
  BY QuotesStep DEF CurrentInv
<1>2. Typed'
  BY <1>1 DEF QuotesInv, Typed
<1>3. CASE UNCHANGED fyersVars
  <2>1. UNCHANGED <<wire, value, _sym_data, pending, market, skipped, socket, subs, number>>
    BY <1>3 DEF fyersVars, feedVars, brokerVars, tickVars
  <2>2. Catching'
    BY <2>1, CatchingKept
  <2> QED
    BY <1>1, <2>2 DEF CurrentInv, Catching
<1>4. CASE FyersNext
  <2>1. Catching'
    BY <1>2, <1>4, CatchingRun, CatchingSend, CatchingTick, CatchingChange,
       CatchingDeliver, CatchingReceive DEF FyersNext, RunStep, LeaverStep, LocalStep
  <2> QED
    BY <1>1, <2>1 DEF CurrentInv, Catching
<1> QED
  BY <1>3, <1>4

\* and before the first.
LEMMA CurrentStart == FyersInit => CurrentInv
<1> SUFFICES ASSUME FyersInit
             PROVE  CurrentInv
  OBVIOUS
<1>1. socket # "ok"
  BY DEF FyersInit
<1> QED
  BY <1>1, QuotesStart DEF CurrentInv, Catching

\* When nothing is on its way, the market service has the exchange's value of every
\* instrument the broker sends; unless one of its records was dropped, or what it has is
\* the value of an instrument of which that is true: through any number of sessions,
\* renumberings and subscription changes no task overtakes another and no tick that
\* matters is left out (_parse_datafeed, _deliver).
THEOREM TheFeedCatchesUp == FyersSpec => []CaughtUp
<1>1. CurrentInv => CaughtUp
  <2> SUFFICES ASSUME CurrentInv, socket = "ok", wire = <<>>, pending = <<>>, NEW k \in subs \ skipped
               PROVE  \/ market[k] = <<k, value[k]>>
                      \/ market[k] # Nothing /\ market[k][1] \in skipped
    BY DEF CaughtUp
  <2>1. KnownIsTold(k) /\ LastIsCurrent(k) /\ k \in Key /\ DOMAIN wire = {} /\ DOMAIN pending = {}
    BY DEF CurrentInv, Catching, QuotesInv, Typed, FyersTypeOK
  <2>2. Told(k, <<k, value[k]>>)
    BY <2>1 DEF KnownIsTold, LastIsCurrent
  <2>3. market[k] = <<k, value[k]>> \/ (market[k] # Nothing /\ market[k][1] # k)
    BY <2>1, <2>2 DEF Told
  <2>4. market[k] # Nothing => market[k][1] = k \/ market[k][1] \in skipped
    BY <2>1 DEF CurrentInv, QuotesInv, Content, Owned, May
  <2> QED
    BY <2>3, <2>4
<1> QED
  BY <1>1, CurrentStart, CurrentStep, PTL DEF FyersSpec
=============================================================================
