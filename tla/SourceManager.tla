---------------------------- MODULE SourceManager ----------------------------
(***************************************************************************)
(* The lifecycle of one source: SourceManager's start / stop / restart and *)
(* the BackgroundTaskManager under it, driven by concurrent HTTP handlers. *)
(* Sources do not share any of this state, so one source stands for each.  *)
(*                                                                         *)
(* Everything runs on one asyncio loop, and a step is what runs between    *)
(* two points where the code really suspends.  There are two such points:  *)
(* the polling window of stop_source and the await of a cancelled task in  *)
(* cancel_and_wait.  The manager's asyncio.Lock is never held across a     *)
(* suspension, so taking it is not a step; awaiting a task that is already *)
(* done does not suspend either.                                           *)
(***************************************************************************)
EXTENDS Integers, FiniteSets

CONSTANTS
    Call,      \* the handlers that may be in flight at once
    MaxEvents  \* bound: stop events ever created, and so tasks ever created

ASSUME SourceManagerAssumption == MaxEvents \in Nat \ {0} /\ IsFiniteSet(Call)

VARIABLES
    ready,             \* is_ready_to_start() of the source
    configured,        \* whether _configs holds the source (start_all ran)
    stop_event,        \* _stop_events[name]: the number of the current event
    signalled,         \* the events that were set
    operator_stopped,  \* name \in _operator_stopped
    task,              \* _tasks["source:name"], 0 when there is none
    phase,             \* what each background task is doing
    listens,           \* the stop event each task was started with
    cancelled,         \* the tasks whose cancel() was called
    intent,            \* _stop_intents[name]: why the manager last asked for a stop
    auth_required,     \* the source's own state is "auth_required"
    last_exit,         \* last_exit_reason of its status: how its last run ended
    call,              \* the control calls
    lifespan           \* serving, tearing down ("closing"), or over ("closed")

sourceVars == <<ready, configured, lifespan>>
taskVars == <<task, phase, listens, cancelled>>
stopVars == <<signalled, operator_stopped, intent>>
ownVars == <<auth_required, last_exit>>
vars == <<sourceVars, stop_event, stopVars, taskVars, ownVars, call>>

\* Each stop event is given to one attempt to start a task, so events bound runs.
Run == 1..MaxEvents
None == 0

Phase == {"none", "created", "running", "cleanup", "done"}
IdleCall == [pc |-> "idle", op |-> "none", waits |-> None, answer |-> "none"]
CallState ==
    [pc : {"idle", "window", "awaiting", "answered"}, op : {"none", "start", "stop", "restart"},
     waits : Run \cup {None},
     answer : {"none", "started", "already_running", "not_ready", "unknown",
               "stopped", "restarted"}]

TypeOK ==
    /\ ready \in BOOLEAN
    /\ configured \in BOOLEAN
    /\ lifespan \in {"serving", "closing", "closed"}
    /\ intent \in {"none", "operator_stop", "restart", "application_shutdown"}
    /\ stop_event \in 1..MaxEvents
    /\ signalled \subseteq 1..stop_event
    /\ operator_stopped \in BOOLEAN
    /\ task \in Run \cup {None}
    /\ phase \in [Run -> Phase]
    /\ listens \in [Run -> 0..MaxEvents]
    /\ cancelled \subseteq {r \in Run : phase[r] # "none"}
    /\ auth_required \in BOOLEAN
    /\ last_exit \in {"plain", "terminal", "error"}
    /\ call \in [Call -> CallState]

Init ==
    /\ ready \in BOOLEAN
    /\ configured = FALSE
    /\ lifespan = "serving"
    /\ intent = "none"
    /\ stop_event = 1
    /\ signalled = {}
    /\ operator_stopped = FALSE
    /\ task = None
    /\ phase = [r \in Run |-> "none"]
    /\ listens = [r \in Run |-> 0]
    /\ cancelled = {}
    /\ auth_required = FALSE
    /\ last_exit = "plain"
    /\ call = [c \in Call |-> IdleCall]

Alive(r) == phase[r] \in {"created", "running", "cleanup"}
TaskRunning == task # None /\ Alive(task)
Serving == lifespan = "serving"

-----------------------------------------------------------------------------
(* BackgroundTaskManager. *)

\* Mutant of StartTask: a registered name is overwritten instead of refused.
StartTaskReplaces(registered, event) ==
    \E r \in Run :
        /\ \A q \in Run : phase[q] = "none" <=> q >= r
        /\ task' = r
        /\ phase' = [phase EXCEPT ![r] = "created"]
        /\ listens' = [listens EXCEPT ![r] = event]

\* start(), when "registered" is what _tasks holds for the name: any entry, of a
\* live task or of one that is done, refuses the new one.
StartTask(registered, event) ==
    \/ /\ registered # None
       /\ task' = registered
       /\ UNCHANGED <<phase, listens>>
    \/ /\ registered = None
       /\ \E r \in Run :
             /\ \A q \in Run : phase[q] = "none" <=> q >= r
             /\ task' = r
             /\ phase' = [phase EXCEPT ![r] = "created"]
             /\ listens' = [listens EXCEPT ![r] = event]

\* Mutant of AwaitTask: the task is forgotten and awaited, but not cancelled.
AwaitUncancelled(c, op) ==
    /\ TaskRunning
    /\ task' = None
    /\ call' = [call EXCEPT ![c] = [IdleCall EXCEPT !.pc = "awaiting", !.op = op,
                                                    !.waits = task]]
    /\ UNCHANGED <<phase, listens, cancelled, stop_event>>

\* Mutant of AwaitTask: cancel() of the manager, which does not wait.
CancelOnly(c, op) ==
    /\ TaskRunning
    /\ task' = None
    /\ cancelled' = cancelled \cup {task}
    /\ call' = [call EXCEPT ![c] = [IdleCall EXCEPT !.pc = "answered", !.op = op,
                                                    !.waits = task]]
    /\ UNCHANGED <<phase, listens, stop_event>>

\* cancel_and_wait() of a live task: the call suspends until the task is done.
AwaitTask(c, op) ==
    /\ TaskRunning
    /\ task' = None
    /\ cancelled' = cancelled \cup {task}
    /\ call' = [call EXCEPT ![c] = [IdleCall EXCEPT !.pc = "awaiting", !.op = op,
                                                    !.waits = task]]
    /\ UNCHANGED <<phase, listens, stop_event>>

-----------------------------------------------------------------------------
(* SourceManager, called from the handlers. *)

Answer(c, op, result) ==
    call' = [call EXCEPT ![c].pc = "answered", ![c].op = op, ![c].answer = result]

\* start_all() of the lifespan: it uses the event made by register().
StartAll ==
    /\ ~configured /\ Serving
    /\ configured' = TRUE
    /\ \/ ready /\ ~operator_stopped /\ StartTask(task, stop_event)
       \/ UNCHANGED <<task, phase, listens>>  \* disabled, stopped or not ready
    /\ UNCHANGED <<ready, lifespan, stop_event, stopVars, cancelled, ownVars, call>>

FreshEvent == stop_event' = stop_event + 1

\* The bound is met when a call comes in and not when it ends: every restart
\* that is waiting keeps the event it will create.
MayUseEvent ==
    stop_event + Cardinality({c \in Call : call[c].pc = "awaiting" /\ call[c].op = "restart"})
        < MaxEvents

StartSource(c) ==
    /\ call[c].pc = "idle" /\ Serving
    /\ \/ /\ ~configured
          /\ Answer(c, "start", "unknown")
          /\ UNCHANGED <<stop_event, operator_stopped, taskVars>>
       \/ /\ configured /\ ~ready
          /\ Answer(c, "start", "not_ready")
          /\ UNCHANGED <<stop_event, operator_stopped, taskVars>>
       \/ /\ configured /\ ready /\ TaskRunning
          /\ Answer(c, "start", "already_running")
          /\ UNCHANGED <<stop_event, operator_stopped, taskVars>>
       \/ /\ configured /\ ready /\ ~TaskRunning
          /\ MayUseEvent
          /\ FreshEvent
          /\ operator_stopped' = FALSE
          /\ StartTask(task, stop_event')
          /\ Answer(c, "start", "started")
          /\ UNCHANGED cancelled
    /\ UNCHANGED <<sourceVars, ownVars, signalled, intent>>

\* stop_source, up to its cooperative window (skipped when nothing runs).
StopSource(c) ==
    /\ call[c].pc = "idle" /\ Serving
    /\ signalled' = signalled \cup {stop_event}
    /\ operator_stopped' = TRUE
    /\ intent' = "operator_stop"
    /\ \/ /\ TaskRunning
          /\ call' = [call EXCEPT ![c].pc = "window", ![c].op = "stop"]
          /\ UNCHANGED taskVars
       \/ /\ ~TaskRunning
          /\ task' = None
          /\ Answer(c, "stop", "stopped")
          /\ UNCHANGED <<phase, listens, cancelled>>
    /\ UNCHANGED <<sourceVars, ownVars, stop_event>>

\* The window is over, by its deadline or because nothing runs any more.
CloseWindow(c) ==
    /\ call[c].pc = "window"
    /\ \/ AwaitTask(c, "stop")
       \/ /\ ~TaskRunning
          /\ task' = None
          /\ Answer(c, "stop", "stopped")
          /\ UNCHANGED <<phase, listens, cancelled, stop_event>>
    /\ UNCHANGED <<sourceVars, ownVars, stopVars>>

\* restart_source behind its route: a stopped source must be ready.
RestartSource(c) ==
    /\ call[c].pc = "idle" /\ Serving
    /\ configured
    /\ TaskRunning \/ ready
    /\ MayUseEvent
    /\ signalled' = signalled \cup {stop_event}
    /\ operator_stopped' = FALSE
    /\ intent' = "restart"
    /\ \/ AwaitTask(c, "restart")
       \/ /\ ~TaskRunning
          /\ FreshEvent
          /\ StartTask(None, stop_event')
          /\ Answer(c, "restart", "restarted")
          /\ UNCHANGED cancelled
    /\ UNCHANGED <<sourceVars, ownVars>>

\* The awaited task is done: a stop returns, a restart starts the next task.
TaskAwaited(c) ==
    /\ call[c].pc = "awaiting"
    /\ ~Alive(call[c].waits)
    /\ \/ /\ call[c].op = "stop"
          /\ Answer(c, "stop", "stopped")
          /\ UNCHANGED <<stop_event, task, phase, listens>>
       \/ /\ call[c].op = "restart"
          /\ FreshEvent
          /\ StartTask(task, stop_event')
          /\ Answer(c, "restart", "restarted")
    /\ UNCHANGED <<sourceVars, ownVars, stopVars, cancelled>>

Return(c) ==
    /\ call[c].pc = "answered"
    /\ call' = [call EXCEPT ![c] = IdleCall]
    /\ UNCHANGED <<sourceVars, ownVars, stop_event, stopVars, taskVars>>

-----------------------------------------------------------------------------
(* The lifespan's teardown, once the handlers have returned. *)

\* shutdown_all(), up to its wait: every task is forgotten, the live are cancelled.
CancelAll ==
    /\ task' = None
    /\ cancelled' = IF TaskRunning THEN cancelled \cup {task} ELSE cancelled
    /\ UNCHANGED <<phase, listens>>

\* shutdown(): every stop event is set, and why is noted.
SignalAll ==
    /\ signalled' = signalled \cup {stop_event}
    /\ intent' = "application_shutdown"

Shutdown ==
    /\ Serving
    /\ \A c \in Call : call[c].pc = "idle"
    /\ lifespan' = "closing"
    /\ SignalAll
    /\ CancelAll
    /\ UNCHANGED <<ready, configured, ownVars, stop_event, operator_stopped, call>>

\* The bounded wait is over: the tasks are done, or its deadline passed before.
\* What is cancelled then ends with the event loop.
TeardownOver ==
    /\ lifespan = "closing"
    /\ lifespan' = "closed"
    /\ UNCHANGED <<ready, configured, ownVars, stop_event, stopVars, taskVars, call>>

-----------------------------------------------------------------------------
(* get_status(), which every page of the UI polls. *)

\* The reason shown for a source: its own state and the words of a run that failed
\* come first, whether or not a task runs by now; then why the manager asked it to
\* stop; then the words of its last run.  Nothing clears an intent.
StopReason ==
    CASE auth_required -> "auth_required"
      [] ~auth_required /\ last_exit = "terminal" -> "terminal"
      [] ~auth_required /\ last_exit = "error" -> "internal_error"
      [] ~auth_required /\ last_exit \notin {"terminal", "error"} /\ TaskRunning -> "none"
      [] OTHER -> IF intent # "none" THEN intent ELSE last_exit

-----------------------------------------------------------------------------
(* The source: its prerequisites change (a login, an expiry) and its run() *)
(* begins, notices its event or a cancellation, may end by itself, and     *)
(* takes time to clean up.                                                 *)

ChangeReady ==
    /\ ready' = ~ready
    /\ UNCHANGED <<configured, lifespan, stop_event, stopVars, taskVars, ownVars, call>>

\* update_credentials(): a source that asked for a login looks stopped again.
UpdateCredentials ==
    /\ auth_required
    /\ auth_required' = FALSE
    /\ ready' = TRUE
    /\ UNCHANGED <<configured, lifespan, stop_event, stopVars, taskVars, last_exit, call>>

Moves(r, from, to) ==
    /\ phase[r] = from
    /\ phase' = [phase EXCEPT ![r] = to]
    /\ UNCHANGED <<sourceVars, stop_event, stopVars, task, listens, cancelled, call>>

\* A run that finds its stop event set opens no session and keeps the state.
Begins(r) ==
    /\ r \notin cancelled /\ Moves(r, "created", "running")
    /\ auth_required' = (auth_required /\ listens[r] \in signalled)
    /\ UNCHANGED last_exit

\* Cancelled before its first step: run() is never entered.
NeverBegins(r) == r \in cancelled /\ Moves(r, "created", "done") /\ UNCHANGED ownVars
HonoursEvent(r) == listens[r] \in signalled /\ Moves(r, "running", "cleanup") /\ UNCHANGED ownVars
IsCancelled(r) == r \in cancelled /\ Moves(r, "running", "cleanup") /\ UNCHANGED ownVars
EndsByItself(r) == r \notin cancelled /\ Moves(r, "running", "cleanup") /\ UNCHANGED ownVars

\* How a run ends is noted last, by the source or, for a source that notes
\* nothing, by the wrapper around it.  "plain" stands for the reasons get_status
\* does not prefer, and for none yet.  A run that is told to stop is never
\* terminal; one that raised, or opened no session, may have noted nothing.
NotesExit(r) ==
    \/ last_exit' = "plain" /\ auth_required' = FALSE
    \/ /\ r \notin cancelled
       /\ \/ last_exit' = "plain" /\ auth_required' = TRUE
          \/ listens[r] \notin signalled /\ last_exit' = "terminal" /\ auth_required' = FALSE
          \/ last_exit' = "error" /\ auth_required' = FALSE
          \/ UNCHANGED last_exit /\ auth_required' \in {FALSE, auth_required}

CleansUp(r) == Moves(r, "cleanup", "done") /\ NotesExit(r)

TaskStep(r) ==
    \/ Begins(r) \/ NeverBegins(r) \/ HonoursEvent(r)
    \/ IsCancelled(r) \/ EndsByItself(r) \/ CleansUp(r)

Handler(c) ==
    \/ StartSource(c) \/ StopSource(c) \/ CloseWindow(c)
    \/ RestartSource(c) \/ TaskAwaited(c) \/ Return(c)

Next ==
    \/ StartAll \/ Shutdown \/ TeardownOver \/ ChangeReady \/ UpdateCredentials
    \/ \E c \in Call : Handler(c)
    \/ \E r \in Run : TaskStep(r)

Spec == Init /\ [][Next]_vars

\* The event loop runs what is ready to run.  Nothing forces a source to look
\* at its stop event, and nothing forces anybody to press a button.
Fairness ==
    /\ \A r \in Run : WF_vars(Begins(r) \/ NeverBegins(r) \/ IsCancelled(r) \/ CleansUp(r))
    /\ \A c \in Call : WF_vars(CloseWindow(c) \/ TaskAwaited(c) \/ Return(c))
    /\ WF_vars(TeardownOver)

FairSpec == Spec /\ Fairness

-----------------------------------------------------------------------------
(***************************************************************************)
(* Properties.                                                             *)
(***************************************************************************)

\* No task is left running that nothing can reach: a live task is the one the
\* manager has registered, or somebody has cancelled it.
NoOrphan ==
    /\ TypeOK
    /\ \A r \in Run : Alive(r) => r = task \/ r \in cancelled

\* What a stop says is true: a stop or restart that took a task down answers only
\* when that task, its cleanup included, is over; and a source whose last command
\* was a stop is shown as stopped by the operator, until the server itself goes
\* down, unless it waits for a login or the last run to note its end had failed:
\* get_status prefers these to what the manager noted.
AnswersAfterCleanup ==
    /\ \A c \in Call : call[c].pc = "answered" /\ call[c].waits # None => ~Alive(call[c].waits)
    /\ operator_stopped /\ ~TaskRunning
           => \/ StopReason \in {"operator_stop", "application_shutdown"}
              \/ auth_required \/ last_exit \in {"terminal", "error"}

\* Every handler returns: no stop or restart waits for ever for a task, even one
\* that ignores its stop event or that listens to an event nobody sets.
CallsReturn == \A c \in Call : call[c].pc # "idle" ~> call[c].pc = "idle"

\* Teardown comes to its end, and no task outlives it for ever or is started again.
ShutdownEndsTasks ==
    ~Serving ~> [](lifespan = "closed" /\ \A r \in Run : ~Alive(r))
=============================================================================
