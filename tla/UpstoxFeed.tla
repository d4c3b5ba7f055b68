----------------------------- MODULE UpstoxFeed -----------------------------
(***************************************************************************)
(* The Upstox market data feed: one run of the source is a loop of         *)
(* sessions (authorize, connect, subscribe, receive, close, back off) over *)
(* one web socket at a time.  Meanwhile HTTP handlers add and remove       *)
(* instruments: they change the desired set and, when the feed streams,    *)
(* tell the broker, both under the subscription lock, which is fair.       *)
(* The run itself takes that lock only to let go of its socket.            *)
(*                                                                         *)
(* A cancelled run leaves through its handlers and "finally"; nothing      *)
(* keeps the source from being started again meanwhile, so that several    *)
(* runs of one feed share its state: one in progress, the others leaving.  *)
(*                                                                         *)
(* A step reaches to the next call that waits: for the lock, the broker,   *)
(* the socket's buffer, or the market service.                             *)
(***************************************************************************)
EXTENDS Integers, SequencesExt

CONSTANTS
    Key,          \* instrument keys
    Configured,   \* those the source was configured with, and has metadata for
    Caller,       \* the handlers that change subscriptions
    Run,          \* the run in progress, as a party to the lock
    Leaver,       \* cancelled runs that still clean up
    MaxSockets,   \* bound: connections made
    MaxCalls,     \* bound: calls that add or remove an instrument
    MaxFrames,    \* bound: frames received
    MaxFaults     \* bound: failures of the broker, the sockets, and cancellations

ASSUME UpstoxFeedAssumption ==
    /\ Configured # {} /\ Configured \subseteq Key
    /\ Run \notin Caller \cup Leaver
    /\ Caller \cap Leaver = {}
    /\ {MaxSockets, MaxCalls, MaxFrames, MaxFaults} \subseteq Nat

VARIABLES
    _instrument_keys, \* the desired set
    _state,           \* the label the status shows
    pc,               \* where the run in progress is
    outcome,          \* of a session that is being left
    stop_event,
    todo,             \* instruments of the frame being applied
    socket,           \* per connection made: is it open, is it alive, what was it sent
    ws,               \* the session's socket, 0 for none
    _live_ws,         \* the socket the handlers use, 0 for none
    leaving,          \* per leaver: where it is, and the socket that only _live_ws
                      \* leads to once its run has let go of it, 0 for none
    _sub_lock,        \* the lock: its holder, then its waiters
    call,             \* the handlers
    calls, frames, faults,
    missed,           \* keys whose last change the broker was not told of, or too early
    lost,             \* history: open sockets that nothing leads to any more
    overlapped        \* history: a run was started while another was leaving

runVars == <<_state, pc, outcome, todo, ws>>
countVars == <<calls, frames>>
leaverVars == <<leaving, lost, overlapped>>
vars == <<_instrument_keys, runVars, stop_event, leaverVars, socket, _live_ws, _sub_lock,
          call, countVars, faults, missed>>

Idle == [pc |-> "idle", op |-> "sub", key |-> CHOOSE k \in Configured : TRUE]

Gone == [pc |-> "none", keeps |-> 0]

Waits == {"authorize", "connect", "subscribe", "recv", "apply", "hangup", "release",
          "close", "backoff"}

Party == Caller \cup {Run} \cup Leaver

\* Those who have asked for the lock and not left it.
Waiting == {c \in Caller : call[c].pc # "idle"}
              \cup {r \in {Run} : pc = "release"}
              \cup {l \in Leaver : leaving[l].pc \in {"release", "abort"}}

TypeOK ==
    /\ _instrument_keys \in (SUBSET Key) \ {{}}
    /\ _state \in {"stopped", "authorizing", "connecting", "streaming", "reconnecting",
                   "failed", "auth_required"}
    /\ pc \in Waits \cup {"ended"}
    /\ outcome \in {"none", "stopped", "retry", "raised"}
    /\ stop_event \in BOOLEAN /\ overlapped \in BOOLEAN
    /\ todo \subseteq Key
    /\ socket \in Seq([open : BOOLEAN, alive : BOOLEAN, granted : SUBSET Key])
    /\ {ws, _live_ws} \subseteq 0..Len(socket)
    /\ _live_ws \in {0, Len(socket)}
    /\ leaving \in [Leaver -> [pc : {"none", "hangup", "release", "abort", "farewell"},
                               keeps : 0..Len(socket)]]
    /\ \A i \in DOMAIN _sub_lock : _sub_lock[i] \in Party
    /\ call \in [Caller -> [pc : {"idle", "change", "send", "drain"},
                            op : {"sub", "unsub"}, key : Key]]
    /\ \A p \in Party :
          Cardinality({i \in DOMAIN _sub_lock : _sub_lock[i] = p})
              = IF p \in Waiting THEN 1 ELSE 0
    /\ calls \in 0..MaxCalls /\ frames \in 0..MaxFrames /\ faults \in 0..MaxFaults
    /\ missed \subseteq Key
    /\ lost \subseteq 1..Len(socket)

Init ==
    /\ _instrument_keys = Configured
    /\ _state = "stopped"
    /\ pc = "ended"
    /\ outcome = "none"
    /\ stop_event = FALSE
    /\ todo = {}
    /\ socket = <<>>
    /\ ws = 0 /\ _live_ws = 0
    /\ leaving = [l \in Leaver |-> Gone]
    /\ _sub_lock = <<>>
    /\ call = [c \in Caller |-> Idle]
    /\ calls = 0 /\ frames = 0 /\ faults = 0
    /\ missed = {}
    /\ lost = {} /\ overlapped = FALSE

Fault == faults < MaxFaults /\ faults' = faults + 1

Holds(p) == _sub_lock # <<>> /\ Head(_sub_lock) = p

\* Passing the lock on takes a turn of the event loop; an answer of the broker and
\* a back-off take longer.
LockSettled == \A p \in Party : Holds(p) => p \in Caller /\ call[p].pc = "drain"

Without(p) == RemoveFirst(_sub_lock, p)

Unlocked == Tail(_sub_lock)

\* A leaver has yet to close this socket, which it can reach as the live one only.
Reclaims(n) == \E l \in Leaver : leaving[l].keeps = n

\* What is lost when the reference to the live socket is dropped.
LostWithLive == IF _live_ws # 0 /\ Reclaims(_live_ws) THEN lost \cup {_live_ws} ELSE lost

\* The sockets once this one is closed: what it was told matters no more.
Close(n) == [socket EXCEPT ![n] = [open |-> FALSE, alive |-> FALSE, granted |-> {}]]

-----------------------------------------------------------------------------
(* add_instruments and remove_instruments.                                 *)

RequestChange(c, op, k) ==
    /\ call[c].pc = "idle"
    /\ calls < MaxCalls /\ calls' = calls + 1
    /\ call' = [call EXCEPT ![c] = [pc |-> "change", op |-> op, key |-> k]]
    /\ _sub_lock' = Append(_sub_lock, c)
    /\ UNCHANGED <<_instrument_keys, runVars, stop_event, leaverVars, socket, _live_ws,
                   frames, faults, missed>>

\* The last key is never removed.
Changed(op, k) ==
    IF op = "sub" THEN _instrument_keys \cup {k}
    ELSE IF _instrument_keys = {k} THEN _instrument_keys ELSE _instrument_keys \ {k}

\* The lock is given up and asked for again: behind those who wait for it.
SendLast(c) == Append(Tail(_sub_lock), c)

\* A handler has decided to send a frame for this key, and waits for the lock.
FrameWaits(k) == \E c \in Caller : call[c].pc = "send" /\ call[c].key = k

\* The change, and the decision to tell the broker.  A change that is not told is missed
\* if a live socket was told otherwise, or a frame decided before will be.
ChangeKeys(c) ==
    LET k == call[c].key
        changed == Changed(call[c].op, k)
    IN  /\ call[c].pc = "change"
        /\ Holds(c)
        /\ _instrument_keys' = changed
        /\ IF changed # _instrument_keys /\ _state = "streaming"
           THEN /\ call' = [call EXCEPT ![c].pc = "send"]
                /\ _sub_lock' = SendLast(c)
                /\ missed' = missed \ {k}
           ELSE /\ call' = [call EXCEPT ![c] = Idle]
                /\ _sub_lock' = Tail(_sub_lock)
                /\ missed' = missed \cup
                       {x \in {k} : changed # _instrument_keys
                                    /\ (_live_ws # 0 \/ FrameWaits(k))}
        /\ UNCHANGED <<runVars, stop_event, leaverVars, socket, _live_ws, countVars,
                       faults>>

Granted(granted, op, k) == IF op = "sub" THEN granted \cup {k} ELSE granted \ {k}

\* With no live socket nothing is sent, a broken one raises; otherwise the
\* frame is on its way and the handler waits for the buffer, with the lock.
SendMutation(c) ==
    /\ call[c].pc = "send"
    /\ Holds(c)
    /\ IF _live_ws # 0 /\ socket[_live_ws].alive /\ socket[_live_ws].open
       THEN /\ socket' = [socket EXCEPT ![_live_ws].granted =
                              Granted(@, call[c].op, call[c].key)]
            /\ call' = [call EXCEPT ![c].pc = "drain"]
            /\ UNCHANGED _sub_lock
       ELSE /\ call' = [call EXCEPT ![c] = Idle]
            /\ _sub_lock' = Tail(_sub_lock)
            /\ UNCHANGED socket
    /\ UNCHANGED <<_instrument_keys, runVars, stop_event, leaverVars, _live_ws, countVars,
                   faults, missed>>

\* The buffer has room again, or the socket broke and the send raised.
Drained(c) ==
    /\ call[c].pc = "drain"
    /\ call' = [call EXCEPT ![c] = Idle]
    /\ _sub_lock' = Tail(_sub_lock)
    /\ UNCHANGED <<_instrument_keys, runVars, stop_event, leaverVars, socket, _live_ws,
                   countVars, faults, missed>>

-----------------------------------------------------------------------------
(* run and _run_session.                                                   *)

\* The end of a session in which no socket is held: the loop goes on to back
\* off, or ends.
Leave(state) ==
    /\ outcome' = "none"
    /\ ws' = 0
    /\ todo' = {}
    /\ IF stop_event
       THEN pc' = "ended" /\ _state' = "stopped"
       ELSE pc' = "backoff" /\ _state' = state

End(state) ==
    /\ outcome' = "none" /\ ws' = 0 /\ todo' = {}
    /\ pc' = "ended" /\ _state' = state

EnterSession == pc' = "authorize" /\ _state' = "authorizing"

\* The source is started, a fresh task with a fresh stop event, whoever is leaving.
Start ==
    /\ pc = "ended"
    /\ stop_event' = FALSE
    /\ EnterSession
    /\ overlapped' = (overlapped \/ \E l \in Leaver : leaving[l].pc # "none")
    /\ UNCHANGED <<_instrument_keys, outcome, todo, ws, leaving, lost, socket, _live_ws,
                   _sub_lock, call, countVars, faults, missed>>

Authorized ==
    /\ pc = "authorize"
    /\ LockSettled
    /\ IF stop_event
       THEN End("stopped")
       ELSE pc' = "connect" /\ _state' = "connecting" /\ UNCHANGED <<outcome, todo, ws>>
    /\ UNCHANGED <<_instrument_keys, stop_event, leaverVars, socket, _live_ws, _sub_lock,
                   call, countVars, faults, missed>>

\* The token was rejected, the request is wrong, or it may be tried again.
AuthorizeFails ==
    /\ pc = "authorize"
    /\ Fault
    /\ \/ End("auth_required")
       \/ IF stop_event THEN End("stopped") ELSE End("failed")
       \/ Leave("reconnecting")
    /\ UNCHANGED <<_instrument_keys, stop_event, leaverVars, socket, _live_ws, _sub_lock,
                   call, countVars, missed>>

\* Mutant of SubscriptionFrame: a new connection subscribes to what was configured.
ConfiguredFrame == Configured

SubscriptionFrame == _instrument_keys

\* Connected: the socket is live and the subscription frame, with the keys of
\* this moment, is on its way.
Connected ==
    /\ pc = "connect"
    /\ Len(socket) < MaxSockets
    /\ socket' = Append(socket, [open |-> TRUE, alive |-> TRUE,
                                 granted |-> SubscriptionFrame])
    /\ ws' = Len(socket) + 1
    /\ _live_ws' = Len(socket) + 1
    /\ lost' = LostWithLive
    /\ missed' = {k \in missed : FrameWaits(k)}
    /\ pc' = "subscribe"
    /\ UNCHANGED <<_instrument_keys, _state, outcome, todo, stop_event, leaving, overlapped,
                   _sub_lock, call, countVars, faults>>

\* At the bound on connections every further one fails.
ConnectFails ==
    /\ pc = "connect"
    /\ IF Len(socket) < MaxSockets THEN Fault ELSE UNCHANGED faults
    /\ Leave("reconnecting")
    /\ UNCHANGED <<_instrument_keys, stop_event, leaverVars, socket, _live_ws, _sub_lock,
                   call, countVars, missed>>

SocketBreaks ==
    /\ ws # 0
    /\ socket[ws].alive
    /\ Fault
    /\ socket' = [socket EXCEPT ![ws].alive = FALSE]
    /\ UNCHANGED <<_instrument_keys, runVars, stop_event, leaverVars, _live_ws, _sub_lock,
                   call, countVars, missed>>

\* Leaving a session that holds a socket: "finally" asks for the lock.
GiveUp(how) ==
    /\ pc' = "release"
    /\ outcome' = how
    /\ _sub_lock' = Append(_sub_lock, Run)
    /\ todo' = {}

\* Leaving it with an error: the handler closes the socket first.
HangUp(how) ==
    /\ pc' = "hangup"
    /\ outcome' = how
    /\ socket' = Close(ws)
    /\ todo' = {}

Subscribed ==
    /\ pc = "subscribe"
    /\ IF socket[ws].alive
       THEN /\ pc' = "recv" /\ _state' = "streaming"
            /\ UNCHANGED <<outcome, todo, socket>>
       ELSE HangUp("retry") /\ UNCHANGED _state
    /\ UNCHANGED <<_instrument_keys, ws, stop_event, leaverVars, _live_ws, _sub_lock, call,
                   countVars, faults, missed>>

HungUp ==
    /\ pc = "hangup"
    /\ _state' = IF outcome = "retry" THEN "reconnecting" ELSE _state
    /\ GiveUp(outcome)
    /\ UNCHANGED <<_instrument_keys, ws, stop_event, leaverVars, socket, _live_ws, call,
                   countVars, faults, missed>>

\* process_binary_frame, of instruments that are on the socket: those without
\* metadata are dropped, the others applied in turn.
ReceiveFrame(K) ==
    /\ pc = "recv"
    /\ socket[ws].alive
    /\ frames < MaxFrames /\ frames' = frames + 1
    /\ K \subseteq socket[ws].granted
    /\ todo' = K \cap Configured
    /\ pc' = IF todo' = {} THEN "recv" ELSE "apply"
    /\ UNCHANGED <<_instrument_keys, _state, outcome, ws, stop_event, leaverVars, socket,
                   _live_ws, _sub_lock, call, calls, faults, missed>>

\* The market service has taken one; that it raised is only counted.
Applied(k) ==
    /\ pc = "apply"
    /\ k \in todo
    /\ todo' = todo \ {k}
    /\ pc' = IF todo' = {} THEN "recv" ELSE "apply"
    /\ UNCHANGED <<_instrument_keys, _state, outcome, ws, stop_event, leaverVars, socket,
                   _live_ws, _sub_lock, call, countVars, faults, missed>>

\* Mutant of MayStopReceiving: a frame that never comes is waited for.
WaitsForFrame == ~socket[ws].alive

\* The receive loop ends with the stop event or the socket.
MayStopReceiving == stop_event \/ ~socket[ws].alive

ReceiveEnds ==
    /\ pc = "recv"
    /\ MayStopReceiving
    /\ GiveUp(IF stop_event THEN "stopped" ELSE "retry")
    /\ UNCHANGED <<_instrument_keys, _state, ws, stop_event, leaverVars, socket, _live_ws,
                   call, countVars, faults, missed>>

\* A frame the decoder fails on in a way nobody expects: the run dies of it.
SessionRaises ==
    /\ pc = "recv"
    /\ socket[ws].alive
    /\ Fault
    /\ HangUp("raised")
    /\ UNCHANGED <<_instrument_keys, _state, ws, stop_event, leaverVars, _live_ws,
                   _sub_lock, call, countVars, missed>>

\* The run has the lock and lets go of the live socket; it closes its own if the session
\* ended without an error.
Release ==
    /\ pc = "release"
    /\ Holds(Run)
    /\ _live_ws' = 0
    /\ lost' = LostWithLive
    /\ _sub_lock' = Unlocked
    /\ IF outcome = "raised"
       THEN End(_state)
       ELSE pc' = "close" /\ UNCHANGED <<_state, outcome, ws, todo>>
    /\ socket' = IF outcome = "raised" THEN socket ELSE Close(ws)
    /\ UNCHANGED <<_instrument_keys, stop_event, leaving, overlapped, call, countVars,
                   faults, missed>>

\* The socket was closed.
Closed ==
    /\ pc = "close"
    /\ IF outcome = "stopped" THEN End("stopped") ELSE Leave("reconnecting")
    /\ UNCHANGED <<_instrument_keys, stop_event, leaverVars, socket, _live_ws, _sub_lock,
                   call, countVars, faults, missed>>

\* _wait_or_stop ends with the delay or the stop event.
BackoffEnds ==
    /\ pc = "backoff"
    /\ LockSettled
    /\ IF stop_event THEN End("stopped")
       ELSE EnterSession /\ UNCHANGED <<outcome, todo, ws>>
    /\ UNCHANGED <<_instrument_keys, stop_event, leaverVars, socket, _live_ws, _sub_lock,
                   call, countVars, faults, missed>>

-----------------------------------------------------------------------------
(* Stop, cancellation, new credentials.                                    *)

Stop ==
    /\ pc # "ended"
    /\ ~stop_event
    /\ stop_event' = TRUE
    /\ UNCHANGED <<_instrument_keys, runVars, leaverVars, socket, _live_ws, _sub_lock,
                   call, countVars, faults, missed>>

\* Mutant of SocketsOnCancel: nobody closes the socket of a cancelled session.
SocketsUntouched == socket

\* A session that is cancelled closes its own socket before "finally" clears the
\* reference to it, unless it was already in "finally" or an error had closed it.
ClosesItself ==
    pc \in {"subscribe", "recv", "apply"} \/ (pc = "hangup" /\ outcome = "retry")

SocketsOnCancel == IF ClosesItself THEN Close(ws) ELSE socket

\* Where a cancelled run is next, and the open socket it no longer knows but as the live
\* one: "finally" gives it up when it is cancelled as it waits for the lock.
Cancelled ==
    [pc |-> IF ClosesItself THEN "hangup" ELSE IF pc = "hangup" THEN "release" ELSE "abort",
     keeps |-> IF pc = "release" /\ socket[ws].open THEN ws ELSE 0]

\* The run is cancelled wherever it is, and is the run in progress no more.
Cancel(l) ==
    /\ pc # "ended"
    /\ leaving[l] = Gone
    /\ Fault
    /\ leaving' = [leaving EXCEPT ![l] = Cancelled]
    /\ lost' = IF Cancelled.keeps \in {0, _live_ws} THEN lost ELSE lost \cup {ws}
    /\ socket' = SocketsOnCancel
    /\ _sub_lock' = IF ClosesItself THEN _sub_lock ELSE Append(Without(Run), l)
    /\ End(_state)
    /\ UNCHANGED <<_instrument_keys, stop_event, overlapped, _live_ws, call, countVars,
                   missed>>

LeaverUnchanged ==
    UNCHANGED <<_instrument_keys, pc, outcome, todo, ws, stop_event, overlapped, call,
                countVars, faults, missed>>

\* A leaver's own socket was closed: "finally" asks for the lock.
LeaverHungUp(l) ==
    /\ leaving[l].pc = "hangup"
    /\ leaving' = [leaving EXCEPT ![l].pc = "release"]
    /\ _sub_lock' = Append(_sub_lock, l)
    /\ UNCHANGED <<_state, lost, socket, _live_ws>>
    /\ LeaverUnchanged

\* "finally" lets go of the live socket, whichever run made it; _close_live_ws asks for
\* the lock again.
LeaverReleases(l) ==
    /\ leaving[l].pc = "release"
    /\ Holds(l)
    /\ leaving' = [leaving EXCEPT ![l].pc = "abort"]
    /\ lost' = LostWithLive
    /\ _live_ws' = 0
    /\ _sub_lock' = SendLast(l)
    /\ UNCHANGED <<_state, socket>>
    /\ LeaverUnchanged

\* _close_live_ws takes whatever is the live socket and closes it, which ends its session.
LeaverAborts(l) ==
    /\ leaving[l].pc = "abort"
    /\ Holds(l)
    /\ _live_ws' = 0
    /\ _sub_lock' = Unlocked
    /\ IF _live_ws = 0
       THEN leaving' = [leaving EXCEPT ![l] = Gone] /\ _state' = "stopped"
            /\ UNCHANGED socket
       ELSE leaving' = [leaving EXCEPT ![l] = [pc |-> "farewell", keeps |-> 0]]
            /\ socket' = Close(_live_ws)
            /\ UNCHANGED _state
    /\ UNCHANGED lost
    /\ LeaverUnchanged

\* The live socket was closed, and the run is over.
LeaverEnds(l) ==
    /\ leaving[l].pc = "farewell"
    /\ leaving' = [leaving EXCEPT ![l] = Gone]
    /\ _state' = "stopped"
    /\ UNCHANGED <<lost, socket, _live_ws, _sub_lock>>
    /\ LeaverUnchanged

\* New credentials make a feed that gave up look stopped; starting it again is
\* another call.
UpdateCredentials ==
    /\ _state \in {"failed", "auth_required"}
    /\ _state' = "stopped"
    /\ UNCHANGED <<_instrument_keys, pc, outcome, todo, ws, stop_event, leaverVars, socket,
                   _live_ws, _sub_lock, call, countVars, faults, missed>>

-----------------------------------------------------------------------------
RunStep ==
    \/ Authorized
    \/ AuthorizeFails
    \/ Connected
    \/ ConnectFails
    \/ Subscribed
    \/ HungUp
    \/ \E k \in Key : Applied(k)
    \/ ReceiveEnds
    \/ Release
    \/ Closed
    \/ BackoffEnds

LeaverStep(l) ==
    LeaverHungUp(l) \/ LeaverReleases(l) \/ LeaverAborts(l) \/ LeaverEnds(l)

CallStep(c) == ChangeKeys(c) \/ SendMutation(c) \/ Drained(c)

Next ==
    \/ RunStep
    \/ \E l \in Leaver : Cancel(l) \/ LeaverStep(l)
    \/ \E c \in Caller : CallStep(c)
    \/ \E c \in Caller, op \in {"sub", "unsub"}, k \in Key : RequestChange(c, op, k)
    \/ \E K \in SUBSET Key : ReceiveFrame(K)
    \/ SessionRaises
    \/ SocketBreaks
    \/ Start
    \/ Stop
    \/ UpdateCredentials

Spec == Init /\ [][Next]_vars

\* The broker answers or the call times out, buffers drain or their socket
\* breaks, and the event loop runs what is ready.
FairSpec ==
    /\ Spec
    /\ WF_vars(RunStep)
    /\ \A l \in Leaver : WF_vars(LeaverStep(l))
    /\ \A c \in Caller : WF_vars(CallStep(c))

-----------------------------------------------------------------------------
(* Properties.                                                             *)

\* While the feed streams and no change waits for its frame, the broker was told to
\* send exactly what is desired, except for keys that were changed while the status did
\* not say "streaming" though a socket was live: mutations reach the socket in the order
\* they reached the desired set, across any number of reconnects.  It fails only for a
\* session whose socket a run that was leaving has cleared as its own (add_instruments,
\* remove_instruments, _send_mutation, the "finally" of _run_session).
BrokerFollowsDesired ==
    /\ TypeOK
    /\ (/\ pc \in {"recv", "apply"} /\ socket[ws].alive
        /\ \A c \in Caller : call[c].pc # "send"
        /\ _live_ws = ws \/ ~overlapped)
           => socket[ws].granted \ missed = _instrument_keys \ missed

\* Every socket that is still open is the one of the session in progress, or one that a
\* cancelled run is about to close, however the sessions and the runs before it ended;
\* unless runs overlapped, and one dropped the reference the other had left (_run_session,
\* _close_live_ws).
NoSocketLeaks ==
    /\ \A n \in DOMAIN socket : socket[n].open =>
          \/ n = ws /\ pc # "ended"
          \/ n = _live_ws /\ Reclaims(n)
          \/ n \in lost
    /\ lost # {} => overlapped

\* A feed that is told to stop ends its run, whatever it is doing and whoever holds the
\* lock, and a cancelled run ends too (_recv_loop, _wait_or_stop, _close_live_ws).
StopEndsRun ==
    /\ (stop_event /\ pc # "ended") ~> pc = "ended"
    /\ \A l \in Leaver : leaving[l].pc # "none" ~> leaving[l].pc = "none"
=============================================================================
