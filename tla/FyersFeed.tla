----------------------------- MODULE FyersFeed -----------------------------
(***************************************************************************)
(* The Fyers market data feed (HSM socket).  A session connects,           *)
(* authenticates on the socket, translates the desired symbols to the      *)
(* broker's topics by a REST lookup (once: the translation is kept for the *)
(* life of the feed), subscribes to the topics and decodes frames of       *)
(* records.  The broker numbers the topics of a session as it likes; a     *)
(* snapshot names its topic, a delta only its number.  Every decoded tick  *)
(* is handed to a task of its own that brings it to the market service.    *)
(*                                                                         *)
(* A cancelled run leaves through its handlers and "finally"; nothing      *)
(* keeps the source from being started again meanwhile, so that several    *)
(* runs of one feed share its state: one in progress, the others leaving.  *)
(*                                                                         *)
(* A handler that finds the subscription lock taken is modelled as called  *)
(* when the lock is free.                                                  *)
(***************************************************************************)
EXTENDS Integers, Sequences, FiniteSets, SequencesExt

CONSTANTS
    Key,          \* instrument symbols
    Configured,   \* those the feed was configured with
    Index,        \* indices whose topic the feed names without an answer (the NSE's)
    Leaver,       \* cancelled runs that still clean up
    Caller,       \* handlers that change subscriptions
    Nobody,       \* holds the lock when it is free
    Nothing,      \* no value, no topic
    Refused,      \* the values, of a key, that the normalizer refuses
    MaxStarts, MaxCalls, MaxTicks, MaxFaults   \* bounds

ASSUME FyersFeedAssumption ==
    /\ Configured # {} /\ Configured \subseteq Key /\ IsFiniteSet(Key)
    /\ Index \subseteq Key
    /\ Nobody \notin Caller
    /\ {MaxStarts, MaxCalls, MaxTicks, MaxFaults} \subseteq Nat
    /\ Refused \subseteq Key \X Nat
    /\ Nothing \notin Key \X Nat /\ Nothing \notin [key : Key, value : Key \X Nat]

VARIABLES
    _desired,         \* the desired set
    _hsm_symbols,     \* the translation, of the keys it covers
    _sym_data,        \* per topic number: the topic and its last value
    _state,           \* the label the status shows
    pc, outcome,      \* the run, and how a session is being left
    asked,            \* the keys a lookup in progress was sent
    stop_set,         \* stop_event is set
    leaving,          \* where each cancelled run is
    socket,           \* of the run in progress: none, ok, broken
    _live_ws,         \* the socket the handlers use: none, the current run's, a former one's
    _sub_lock,
    subs,             \* the keys whose topics the broker sends
    number,           \* the broker's numbers of them
    wire,             \* frames on their way
    value,            \* the exchange's value of each instrument
    pending,          \* decoded ticks whose task has not run
    market,           \* what the market service has
    starts, calls, faults,
    barren,           \* history: a translation was kept that gives no desired key a topic
    skipped           \* history: keys with a refused record, or one behind it

feedVars == <<_desired, _hsm_symbols, _sym_data, _state>>
runVars == <<pc, outcome, asked>>
brokerVars == <<subs, number, wire>>
tickVars == <<pending, market>>
countVars == <<starts, calls>>
fyersVars == <<feedVars, runVars, stop_set, leaving, socket, _live_ws, _sub_lock, brokerVars,
          value, tickVars, countVars, faults, barren, skipped>>

Id == 1..Cardinality(Key)
Value == {<<k, n>> : k \in Key, n \in 0..MaxTicks}
Snapshot == [key : Key, value : Value]
Record == [kind : {"snapshot", "update"}, id : Id, key : Key, value : Value]

FyersTypeOK ==
    /\ _desired \in (SUBSET Key) \ {{}}
    /\ DOMAIN _hsm_symbols \subseteq Key
    /\ \A k \in DOMAIN _hsm_symbols : _hsm_symbols[k] \in {"topic", "identity"}
    /\ \A i \in Id : _sym_data[i] = Nothing \/ _sym_data[i] \in Snapshot
    /\ _state \in {"stopped", "connecting", "streaming", "reconnecting", "auth_required"}
    /\ pc \in {"token", "connect", "auth", "resolve", "subscribe", "recv", "hangup", "release",
               "close", "backoff", "ended"}
    /\ outcome \in {"none", "stopped", "retry"}
    /\ asked \subseteq Key
    /\ {stop_set, barren} \subseteq BOOLEAN
    /\ leaving \in [Leaver -> {"none", "hangup", "release", "abort", "farewell"}]
    /\ socket \in {"none", "ok", "broken"}
    /\ _live_ws \in {"none", "current", "former"}
    /\ _live_ws = "current" => socket # "none" \/ pc \in {"hangup", "release"}
    /\ _sub_lock \in Caller \cup {Nobody}
    /\ subs \subseteq {k \in DOMAIN _hsm_symbols : _hsm_symbols[k] = "topic"}
    /\ \A k \in Key : number[k] \in Id \cup {0}
    /\ \A k, l \in subs : number[k] = number[l] => k = l
    /\ \A i \in DOMAIN wire : \A j \in DOMAIN wire[i] : wire[i][j] \in Record
    /\ \A k \in Key : value[k] \in 0..MaxTicks /\ market[k] \in Value \cup {Nothing}
    /\ \A i \in DOMAIN pending : pending[i] \in Snapshot
    /\ starts \in 0..MaxStarts /\ calls \in 0..MaxCalls /\ faults \in 0..MaxFaults
    /\ skipped \subseteq Key

FyersInit ==
    /\ _desired = Configured
    /\ _hsm_symbols = <<>>
    /\ _sym_data = [i \in Id |-> Nothing]
    /\ _state = "stopped"
    /\ pc = "ended" /\ outcome = "none" /\ asked = {}
    /\ stop_set = FALSE /\ leaving = [l \in Leaver |-> "none"]
    /\ socket = "none" /\ _live_ws = "none" /\ _sub_lock = Nobody
    /\ subs = {} /\ number = [k \in Key |-> 0] /\ wire = <<>>
    /\ value = [k \in Key |-> 0]
    /\ pending = <<>> /\ market = [k \in Key |-> Nothing]
    /\ starts = 0 /\ calls = 0 /\ faults = 0
    /\ barren = FALSE /\ skipped = {}

Fault == faults < MaxFaults /\ faults' = faults + 1

HasTopic(k) == k \in DOMAIN _hsm_symbols /\ _hsm_symbols[k] = "topic"

-----------------------------------------------------------------------------
(* The broker's side of a subscription.                                    *)

Records(kind, K, num, val) ==
    SetToSeq({[kind |-> kind, id |-> num[k], key |-> k, value |-> <<k, val[k]>>] : k \in K})

\* Subscribing to K numbers its topics and sends their snapshots.
Subscribe(K) ==
    /\ subs' = subs \cup K
    /\ number' \in [Key -> Id \cup {0}]
    /\ \A k \in Key : number'[k] = 0 <=> k \notin subs \cup K
    /\ \A k \in subs : number'[k] = number[k]
    /\ \A k, l \in subs \cup K : number'[k] = number'[l] => k = l
    /\ wire' = IF K = {} THEN wire ELSE Append(wire, Records("snapshot", K, number', value))

Unsubscribe(k) ==
    /\ subs' = subs \ {k}
    /\ number' = [number EXCEPT ![k] = 0]
    /\ UNCHANGED wire

\* The session's socket is closed.
CloseSocket ==
    /\ subs' = {}
    /\ number' = [k \in Key |-> 0]
    /\ wire' = <<>>
    /\ socket' = "none"

\* Instruments trade; the broker sends what changed in one frame.
Tick(K) ==
    /\ K # {}
    /\ \A k \in K : value[k] < MaxTicks
    /\ value' = [k \in Key |-> IF k \in K THEN value[k] + 1 ELSE value[k]]
    /\ wire' = IF socket = "ok" /\ K \cap subs # {}
               THEN Append(wire, Records("update", K \cap subs, number, value')) ELSE wire
    /\ UNCHANGED <<feedVars, runVars, stop_set, leaving, socket, _live_ws, _sub_lock,
                   subs, number, tickVars, countVars, faults, barren, skipped>>

-----------------------------------------------------------------------------
(* add_instruments and remove_instruments.                                 *)

Changed(op, k) ==
    IF op = "sub" THEN _desired \cup {k}
    ELSE IF _desired = {k} THEN _desired ELSE _desired \ {k}

\* A symbol the translation does not cover is sent as it is, which names no topic, and
\* nobody reads what a former socket is sent.
ChangeSubscription(c, op, k) ==
    /\ _sub_lock = Nobody
    /\ calls < MaxCalls /\ calls' = calls + 1
    /\ _desired' = Changed(op, k)
    /\ IF _desired' # _desired /\ _state = "streaming" /\ _live_ws # "none"
       THEN /\ _sub_lock' = c
            /\ IF _live_ws = "current" /\ socket = "ok" /\ HasTopic(k)
               THEN (op = "sub" /\ Subscribe({k})) \/ (op = "unsub" /\ Unsubscribe(k))
               ELSE UNCHANGED brokerVars
       ELSE UNCHANGED <<_sub_lock, brokerVars>>
    /\ UNCHANGED <<_hsm_symbols, _sym_data, _state, runVars, stop_set, leaving, socket,
                   _live_ws, value, tickVars, starts, faults, barren, skipped>>

\* The frame has left the buffer, or its socket broke.
Drained(c) ==
    /\ _sub_lock = c
    /\ _sub_lock' = Nobody
    /\ UNCHANGED <<feedVars, runVars, stop_set, leaving, socket, _live_ws, brokerVars,
                   value, tickVars, countVars, faults, barren, skipped>>

-----------------------------------------------------------------------------
(* run and _run_session.                                                   *)

End(state) ==
    /\ pc' = "ended" /\ outcome' = "none" /\ asked' = {}
    /\ _state' = state

\* What run() does with a session that is over.
Leave ==
    IF stop_set \/ outcome = "stopped" THEN End("stopped")
    ELSE /\ pc' = "backoff" /\ outcome' = "none" /\ asked' = {}
         /\ _state' = "reconnecting"

\* Leaving a session with an error, or before it streams: the socket is closed first.
HangUp(how) ==
    /\ pc' = "hangup" /\ outcome' = how /\ asked' = {}
    /\ CloseSocket

EnterSession == pc' = "token" /\ _state' = "connecting" /\ UNCHANGED <<outcome, asked>>

RunOnly == UNCHANGED <<_desired, _sym_data, value, tickVars, calls, skipped>>

\* The source is started, a fresh task with a fresh stop event, whoever is leaving.
Start ==
    /\ pc = "ended"
    /\ starts < MaxStarts /\ starts' = starts + 1
    /\ stop_set' = FALSE
    /\ EnterSession
    /\ RunOnly
    /\ UNCHANGED <<_hsm_symbols, leaving, socket, _live_ws, _sub_lock, brokerVars, faults, barren>>

HasToken ==
    /\ pc = "token"
    /\ pc' = "connect"
    /\ RunOnly
    /\ UNCHANGED <<_hsm_symbols, _state, outcome, asked, stop_set, leaving, socket, _live_ws,
                   _sub_lock, brokerVars, starts, faults, barren>>

\* No token: the daily login is due, and the run ends.
TokenMissing ==
    /\ pc = "token"
    /\ Fault
    /\ End("auth_required")
    /\ RunOnly
    /\ UNCHANGED <<_hsm_symbols, stop_set, leaving, socket, _live_ws, _sub_lock, brokerVars,
                   starts, barren>>

\* Connected, and the authentication frame is sent; a run that was told to stop
\* closes the socket again.
Connected ==
    /\ pc = "connect"
    /\ IF stop_set
       THEN pc' = "close" /\ outcome' = "stopped" /\ UNCHANGED <<_state, asked, socket, _live_ws>>
       ELSE /\ socket' = "ok" /\ _live_ws' = "current"
            /\ pc' = "auth" /\ UNCHANGED <<_state, outcome, asked>>
    /\ RunOnly
    /\ UNCHANGED <<_hsm_symbols, stop_set, leaving, _sub_lock, brokerVars, starts, faults, barren>>

ConnectFails ==
    /\ pc = "connect"
    /\ Fault
    /\ Leave
    /\ RunOnly
    /\ UNCHANGED <<_hsm_symbols, stop_set, leaving, socket, _live_ws, _sub_lock, brokerVars,
                   starts, barren>>

\* The topics to subscribe to are those of the translation, whatever is desired.
Topics(symbols) == {k \in DOMAIN symbols : symbols[k] = "topic"}

SendSubscription(symbols) ==
    /\ Subscribe(Topics(symbols))
    /\ pc' = "subscribe" /\ asked' = {} /\ UNCHANGED <<_state, outcome>>

\* The server accepted the token: a translation that exists is used as it is.
AuthAccepted ==
    /\ pc = "auth"
    /\ socket = "ok"
    /\ IF _hsm_symbols # <<>>
       THEN SendSubscription(_hsm_symbols)
       ELSE /\ pc' = "resolve" /\ asked' = _desired
            /\ UNCHANGED <<_state, outcome, brokerVars>>
    /\ RunOnly
    /\ UNCHANGED <<_hsm_symbols, stop_set, leaving, socket, _live_ws, _sub_lock, starts,
                   faults, barren>>

\* The server rejected it, the socket broke, or the run was told to stop.
AuthEnds ==
    /\ pc = "auth"
    /\ \/ stop_set /\ HangUp("stopped") /\ UNCHANGED faults
       \/ ~stop_set /\ socket = "ok" /\ Fault /\ HangUp("retry")
       \/ ~stop_set /\ socket = "broken" /\ HangUp("retry") /\ UNCHANGED faults
    /\ RunOnly
    /\ UNCHANGED <<_hsm_symbols, _state, stop_set, leaving, _live_ws, _sub_lock, starts,
                   barren>>

\* The answer has tokens for some of the keys that were sent; the translation covers the
\* keys that are desired when it arrives.  A key without a token stands for itself, and
\* an index is named by its symbol.
Translation(valid) ==
    [k \in _desired |-> IF k \in valid \cup Index THEN "topic" ELSE "identity"]

\* The lookup is answered, and its translation kept for the life of the feed.
Resolved(valid) ==
    /\ pc = "resolve"
    /\ valid \subseteq asked
    /\ _hsm_symbols' = Translation(valid)
    /\ barren' = (barren \/ Topics(Translation(valid)) = {})
    /\ IF socket = "ok"
       THEN SendSubscription(Translation(valid)) /\ UNCHANGED socket
       ELSE HangUp("retry") /\ UNCHANGED _state
    /\ RunOnly
    /\ UNCHANGED <<stop_set, leaving, _live_ws, _sub_lock, starts, faults>>

\* Mutant of AfterFailedLookup: the keys stand for themselves from now on.
CachedIdentity == [k \in _desired |-> "identity"]

\* The translation stays empty for the next session to try again.
AfterFailedLookup == <<>>

LookupFails ==
    /\ pc = "resolve"
    /\ Fault
    /\ _hsm_symbols' = AfterFailedLookup
    /\ IF AfterFailedLookup = <<>> \/ socket # "ok" THEN HangUp("retry") /\ UNCHANGED _state
       ELSE SendSubscription(AfterFailedLookup) /\ UNCHANGED socket
    /\ RunOnly
    /\ UNCHANGED <<stop_set, leaving, _live_ws, _sub_lock, starts, barren>>

\* The socket breaks and takes the last frames with it.
SocketBreaks(n) ==
    /\ socket = "ok"
    /\ Fault
    /\ socket' = "broken"
    /\ n \in 0..Len(wire)
    /\ wire' = SubSeq(wire, 1, n)
    /\ UNCHANGED <<feedVars, runVars, stop_set, leaving, _live_ws, _sub_lock, subs, number,
                   value, tickVars, countVars, barren, skipped>>

\* The subscription frame has left, or the socket broke meanwhile.
Subscribed ==
    /\ pc = "subscribe"
    /\ IF socket = "ok"
       THEN /\ pc' = "recv" /\ _state' = "streaming"
            /\ UNCHANGED <<outcome, asked, socket, brokerVars>>
       ELSE HangUp("retry") /\ UNCHANGED _state
    /\ RunOnly
    /\ UNCHANGED <<_hsm_symbols, stop_set, leaving, _live_ws, _sub_lock, starts, faults, barren>>

\* The socket was closed.
HungUp ==
    /\ pc = "hangup"
    /\ pc' = "release"
    /\ _state' = IF outcome = "retry" THEN "reconnecting" ELSE _state
    /\ RunOnly
    /\ UNCHANGED <<_hsm_symbols, outcome, asked, stop_set, leaving, socket, _live_ws, _sub_lock,
                   brokerVars, starts, faults, barren>>

-----------------------------------------------------------------------------
(* _parse_datafeed.                                                        *)

\* _emit_tick: the topic of the record's number tells the instrument; a value the
\* normalizer refuses ends the whole frame.
Emitted(acc, i) ==
    LET tick == acc.data[i]
    IN  IF ~HasTopic(tick.key) THEN acc
        ELSE IF tick.value \in Refused
             THEN [acc EXCEPT !.ok = FALSE, !.behind = @ \cup {tick.key}]
        ELSE [acc EXCEPT !.out = Append(@, tick)]

\* Mutant of Numbered: a number that is known keeps its topic.
NumberedOnce(data, r) ==
    IF data[r.id] = Nothing THEN [data EXCEPT ![r.id] = [key |-> r.key, value |-> r.value]]
    ELSE [data EXCEPT ![r.id].value = r.value]

\* A snapshot gives a number its topic.
Numbered(data, r) == [data EXCEPT ![r.id] = [key |-> r.key, value |-> r.value]]

\* One record, while no earlier one of the frame was refused.  An update of a
\* number without a snapshot is skipped, one that changes nothing is not told.
Decoded(acc, r) ==
    IF ~acc.ok THEN [acc EXCEPT !.behind = @ \cup {r.key}]
    ELSE IF r.kind = "snapshot"
    THEN Emitted([acc EXCEPT !.data = Numbered(@, r)], r.id)
    ELSE IF acc.data[r.id] = Nothing \/ acc.data[r.id].value = r.value THEN acc
    ELSE Emitted([acc EXCEPT !.data[r.id].value = r.value], r.id)

\* The records of a frame one after the other.
Parsed(data, frame) ==
    LET acc[n \in 0..Len(frame)] ==
            IF n = 0 THEN [data |-> data, out |-> <<>>, ok |-> TRUE, behind |-> {}]
            ELSE Decoded(acc[n - 1], frame[n])
    IN  acc[Len(frame)]

Receive ==
    /\ pc = "recv"
    /\ wire # <<>>
    /\ LET acc == Parsed(_sym_data, Head(wire))
       IN  /\ _sym_data' = acc.data
           /\ pending' = pending \o acc.out
           /\ skipped' = skipped \cup acc.behind
    /\ wire' = Tail(wire)
    /\ UNCHANGED <<_desired, _hsm_symbols, _state, runVars, stop_set, leaving, socket,
                   _live_ws, _sub_lock, subs, number, value, market, countVars, faults, barren>>

\* Mutant of NextTick: the newest first.
NewestTick == Len(pending)

\* The delivering tasks run in the order they were made.
NextTick == 1

\* A task brings its tick to the market service, whatever became of the session.
Deliver ==
    /\ pending # <<>>
    /\ market' = [market EXCEPT ![pending[NextTick].key] = pending[NextTick].value]
    /\ pending' = RemoveAt(pending, NextTick)
    /\ UNCHANGED <<feedVars, runVars, stop_set, leaving, socket, _live_ws, _sub_lock,
                   brokerVars, value, countVars, faults, barren, skipped>>

-----------------------------------------------------------------------------
(* The end of a session.                                                   *)

ReceiveEnds ==
    /\ pc = "recv"
    /\ stop_set \/ (socket = "broken" /\ wire = <<>>)
    /\ pc' = "release"
    /\ outcome' = IF stop_set THEN "stopped" ELSE "retry"
    /\ RunOnly
    /\ UNCHANGED <<_hsm_symbols, _state, asked, stop_set, leaving, socket, _live_ws, _sub_lock,
                   brokerVars, starts, faults, barren>>

\* "finally" takes the lock and lets go of the live socket; a session that received
\* closes its own then.
Release ==
    /\ pc = "release"
    /\ _sub_lock = Nobody
    /\ _live_ws' = "none"
    /\ IF socket = "none" THEN Leave
       ELSE pc' = "close" /\ UNCHANGED <<_state, outcome, asked>>
    /\ CloseSocket
    /\ RunOnly
    /\ UNCHANGED <<_hsm_symbols, stop_set, leaving, _sub_lock, starts, faults, barren>>

Closed ==
    /\ pc = "close"
    /\ Leave
    /\ RunOnly
    /\ UNCHANGED <<_hsm_symbols, stop_set, leaving, socket, _live_ws, _sub_lock, brokerVars,
                   starts, faults, barren>>

BackoffEnds ==
    /\ pc = "backoff"
    /\ IF stop_set THEN End("stopped") ELSE EnterSession
    /\ RunOnly
    /\ UNCHANGED <<_hsm_symbols, stop_set, leaving, socket, _live_ws, _sub_lock, brokerVars,
                   starts, faults, barren>>

Stop ==
    /\ pc # "ended" /\ ~stop_set
    /\ stop_set' = TRUE
    /\ UNCHANGED <<feedVars, runVars, leaving, socket, _live_ws, _sub_lock, brokerVars, value,
                   tickVars, countVars, faults, barren, skipped>>

\* The run is cancelled wherever it is, and is the run in progress no more.  In a session
\* its handler closes the socket, in "finally" or without one it goes on to the end; what
\* its socket is still sent nobody reads.
Cancel(l) ==
    /\ pc # "ended"
    /\ leaving[l] = "none"
    /\ Fault
    /\ leaving' = [leaving EXCEPT ![l] =
          IF pc \in {"auth", "resolve", "subscribe", "recv", "hangup"} THEN "hangup" ELSE "abort"]
    /\ _live_ws' = IF _live_ws = "current" THEN "former" ELSE _live_ws
    /\ CloseSocket
    /\ End(_state)
    /\ RunOnly
    /\ UNCHANGED <<_hsm_symbols, stop_set, _sub_lock, starts, barren>>

LeaverOnly ==
    UNCHANGED <<_desired, _hsm_symbols, _sym_data, runVars, stop_set, _sub_lock, subs, number,
                value, tickVars, countVars, faults, barren, skipped>>

\* A leaver's own socket was closed.
LeaverHungUp(l) ==
    /\ leaving[l] = "hangup"
    /\ leaving' = [leaving EXCEPT ![l] = "release"]
    /\ UNCHANGED <<_state, socket, _live_ws, wire>>
    /\ LeaverOnly

\* "finally" lets go of the live socket, whichever run made it.
LeaverReleases(l) ==
    /\ leaving[l] = "release"
    /\ _sub_lock = Nobody
    /\ leaving' = [leaving EXCEPT ![l] = "abort"]
    /\ _live_ws' = "none"
    /\ UNCHANGED <<_state, socket, wire>>
    /\ LeaverOnly

\* _close_live_ws takes whatever is the live socket and closes it: when that is the
\* current run's, the last frames are not read any more.
LeaverAborts(l, n) ==
    /\ leaving[l] = "abort"
    /\ _sub_lock = Nobody
    /\ _live_ws' = "none"
    /\ IF _live_ws = "none"
       THEN leaving' = [leaving EXCEPT ![l] = "none"] /\ _state' = "stopped"
       ELSE leaving' = [leaving EXCEPT ![l] = "farewell"] /\ UNCHANGED _state
    /\ IF _live_ws = "current" /\ socket = "ok"
       THEN socket' = "broken" /\ n \in 0..Len(wire) /\ wire' = SubSeq(wire, 1, n)
       ELSE UNCHANGED <<socket, wire>>
    /\ LeaverOnly

\* The live socket was closed, and the cancelled run is over.
LeaverEnds(l) ==
    /\ leaving[l] = "farewell"
    /\ leaving' = [leaving EXCEPT ![l] = "none"]
    /\ _state' = "stopped"
    /\ UNCHANGED <<socket, _live_ws, wire>>
    /\ LeaverOnly

-----------------------------------------------------------------------------
RunStep ==
    \/ HasToken
    \/ Connected
    \/ AuthAccepted
    \/ AuthEnds
    \/ \E valid \in SUBSET asked : Resolved(valid)
    \/ Subscribed
    \/ HungUp
    \/ Receive
    \/ ReceiveEnds
    \/ Release
    \/ Closed
    \/ BackoffEnds

LeaverStep(l) ==
    \/ LeaverHungUp(l)
    \/ LeaverReleases(l)
    \/ \E n \in 0..Len(wire) : LeaverAborts(l, n)
    \/ LeaverEnds(l)

FyersNext ==
    \/ RunStep
    \/ Deliver
    \/ TokenMissing
    \/ ConnectFails
    \/ LookupFails
    \/ Start
    \/ Stop
    \/ \E l \in Leaver : Cancel(l) \/ LeaverStep(l)
    \/ \E n \in 0..Len(wire) : SocketBreaks(n)
    \/ \E c \in Caller : Drained(c)
    \/ \E c \in Caller, op \in {"sub", "unsub"}, k \in Key : ChangeSubscription(c, op, k)
    \/ \E K \in SUBSET Key : Tick(K)

FyersSpec == FyersInit /\ [][FyersNext]_fyersVars

\* Every wait of the run ends, and what is ready runs.
FyersFairSpec ==
    /\ FyersSpec
    /\ WF_fyersVars(RunStep)
    /\ WF_fyersVars(Deliver)
    /\ \A l \in Leaver : WF_fyersVars(LeaverStep(l))
    /\ \A c \in Caller : WF_fyersVars(Drained(c))

-----------------------------------------------------------------------------
(* Properties.                                                             *)

\* What the market service has of an instrument is a value the exchange published
\* of that instrument: topics renumbered by a new session, topics unsubscribed and
\* ticks in flight across sessions never put one instrument's value on another;
\* unless a record of the other was dropped behind a refused one: when that is the
\* snapshot that renumbers its topic, its updates pass for those of the instrument
\* that had the number in the session before (_parse_datafeed, _emit_tick).
QuotesAreTheirOwn ==
    /\ FyersTypeOK
    /\ \A k \in Key : market[k] # Nothing =>
          /\ market[k][1] = k \/ market[k][1] \in skipped
          /\ market[k][2] <= value[market[k][1]]

\* When nothing is on its way, the market service has the exchange's value of every
\* instrument the broker sends, however many sessions and subscription changes
\* came before, and no task overtook another; unless one of its records was refused
\* or stood behind a refused one, which drops it, or what it has is the value of an
\* instrument of which that is true (_parse_datafeed, _deliver).
CaughtUp ==
    (pc = "recv" /\ socket = "ok" /\ wire = <<>> /\ pending = <<>>)
        => \A k \in subs \ skipped :
              \/ market[k] = <<k, value[k]>>
              \/ market[k] # Nothing /\ market[k][1] \in skipped

\* Every session the run begins, it or one of those that follow comes to stream
\* something, through refused tokens, failed lookups and broken sockets, and however
\* runs that are leaving meddle with its socket, unless the run ends or is told to stop;
\* or unless a lookup was answered with no token for any desired key, a translation that
\* is kept for the life of the feed, which may then stream nothing for ever
\* (_run_session, _resolve_hsm_symbols).
SessionsSubscribe ==
    (pc = "token") ~> (pc = "ended" \/ stop_set \/ barren \/ (pc = "recv" /\ subs # {}))
=============================================================================
