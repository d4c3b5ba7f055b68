------------------------------ MODULE TbtFeed ------------------------------
(***************************************************************************)
(* The Fyers tick-by-tick depth feed: one session that subscribes symbols, *)
(* rebuilds each symbol's order book from a snapshot and the deltas after  *)
(* it, and resubscribes a symbol whose sequence has a gap.  The broker     *)
(* numbers the states of a book; a delta leads to the state of its number, *)
(* a snapshot shows the state of its number.  The broker answers every     *)
(* subscription; it may leave out a delta or send one twice.               *)
(***************************************************************************)
EXTENDS Integers, Sequences, FiniteSets

CONSTANTS
    Symbol, Price,
    Subscriber,                              \* who calls subscribe and unsubscribe
    MaxSequence, MaxAsks, MaxFailures        \* bounds

ASSUME TbtFeedAssumption ==
    /\ Symbol # {} /\ IsFiniteSet(Price)
    /\ MaxSequence \in Nat \ {0}
    /\ {MaxAsks, MaxFailures} \subseteq Nat

B == INSTANCE OrderBook

VARIABLES
    history,          \* the exchange's books of each symbol, by sequence number
    listening,        \* symbols the broker sends
    wire,             \* messages on their way
    _desired_symbols,
    _books,           \* OrderBookStore
    place,            \* where the run is
    left,             \* symbols still to subscribe after connecting
    resync,           \* the symbol being resubscribed
    stopping,         \* stop_event
    asked,            \* the callers: idle, or about to send a frame for a symbol
    asks, failures,   \* so many calls and failures so far
    disturbed         \* history: symbols changed by a call while another frame was due, or
                      \* with a snapshot that could not be read

tbtVars == <<history, listening, wire, _desired_symbols, _books, place, left, resync, stopping,
          asked, asks, failures, disturbed>>

NobodyCalls == [c \in Subscriber |-> [pc |-> "idle", symbol |-> CHOOSE s \in Symbol : TRUE]]
Message == [symbol : Symbol, sequence : 1..MaxSequence, snapshot : BOOLEAN, levels : B!Levels]

TbtTypeOK ==
    /\ \A s \in Symbol : Len(history[s]) \in 1..MaxSequence
                         /\ \A n \in DOMAIN history[s] : history[s][n] \subseteq Price
    /\ listening \subseteq Symbol
    /\ \A i \in DOMAIN wire : wire[i] \in Message
    /\ _desired_symbols \subseteq Symbol
    /\ \A s \in Symbol : _books[s] \in B!Book /\ _books[s].last_sequence <= Len(history[s])
    /\ place \in {"url", "subscribe", "recv", "unsub", "resub", "ended"}
    /\ left \subseteq Symbol /\ (place # "subscribe" => left = {})
    /\ resync \in Symbol
    /\ stopping \in BOOLEAN
    /\ asked \in [Subscriber -> [pc : {"idle", "sub", "unsub"}, symbol : Symbol]]
    /\ asks \in 0..MaxAsks /\ failures \in 0..MaxFailures
    /\ disturbed \subseteq Symbol

TbtInit ==
    /\ history = [s \in Symbol |-> <<{}>>]
    /\ listening = {} /\ wire = <<>>
    /\ _desired_symbols = {}
    /\ _books = [s \in Symbol |-> B!EmptyBook]
    /\ place = "url" /\ left = {} /\ resync = CHOOSE s \in Symbol : TRUE
    /\ stopping = FALSE
    /\ asked = NobodyCalls
    /\ asks = 0 /\ failures = 0
    /\ disturbed = {}

Failure == failures < MaxFailures /\ failures' = failures + 1

Open == place \in {"subscribe", "recv", "unsub", "resub"}

\* A frame for s is still to be sent.
Due(s) ==
    \/ \E c \in Subscriber : asked[c].pc # "idle" /\ asked[c].symbol = s
    \/ s \in left
    \/ place \in {"unsub", "resub"} /\ resync = s

-----------------------------------------------------------------------------
(* The broker.                                                             *)

\* What a snapshot of s says; prices nothing is held at may be listed as empty.
SnapshotOf(s, Empty) ==
    LET held == history[s][Len(history[s])]
    IN  [symbol |-> s, sequence |-> Len(history[s]), snapshot |-> TRUE,
         levels |-> [p \in Price |-> IF p \in held THEN "some"
                                     ELSE IF p \in Empty THEN "zero" ELSE "none"]]

DeltaOf(s, p, held) ==
    [symbol |-> s, sequence |-> Len(history[s]) + 1, snapshot |-> FALSE,
     levels |-> [q \in Price |-> IF q # p THEN "none" ELSE IF held THEN "some" ELSE "zero"]]

\* A level of s comes or goes; the message arrives once, or never, or twice.
LevelChange(s, p) ==
    LET held == history[s][Len(history[s])]
        next == IF p \in held THEN held \ {p} ELSE held \cup {p}
        delta == DeltaOf(s, p, p \in next)
    IN  /\ Len(history[s]) < MaxSequence
        /\ history' = [history EXCEPT ![s] = Append(@, next)]
        /\ IF s \in listening
           THEN \/ wire' = Append(wire, delta) /\ UNCHANGED failures
                \/ UNCHANGED wire /\ Failure
                \/ wire' = wire \o <<delta, delta>> /\ Failure
           ELSE UNCHANGED <<wire, failures>>
        /\ UNCHANGED <<listening, _desired_symbols, _books, place, left, resync, stopping, asked,
                       asks, disturbed>>

\* A subscription, also a repeated one, is answered with a snapshot.
SendSubscribe(s) ==
    IF Open
    THEN /\ listening' = listening \cup {s}
         /\ \E Empty \in SUBSET Price : wire' = Append(wire, SnapshotOf(s, Empty))
    ELSE UNCHANGED <<listening, wire>>

SendUnsubscribe(s) ==
    /\ listening' = IF Open THEN listening \ {s} ELSE listening
    /\ UNCHANGED wire

-----------------------------------------------------------------------------
(* subscribe and unsubscribe.                                              *)

\* The desired set changes under the lock; the frame is sent after it.
Request(c, op, s) ==
    /\ asked[c].pc = "idle"
    /\ asks < MaxAsks /\ asks' = asks + 1
    /\ (op = "sub") = (s \notin _desired_symbols)
    /\ _desired_symbols' = IF op = "sub" THEN _desired_symbols \cup {s}
                           ELSE _desired_symbols \ {s}
    /\ asked' = IF Open THEN [asked EXCEPT ![c] = [pc |-> op, symbol |-> s]] ELSE asked
    /\ disturbed' = IF Due(s) THEN disturbed \cup {s} ELSE disturbed
    /\ UNCHANGED <<history, listening, wire, _books, place, left, resync, stopping, failures>>

SendRequest(c) ==
    /\ asked[c].pc # "idle"
    /\ asked' = [asked EXCEPT ![c].pc = "idle"]
    /\ IF asked[c].pc = "sub" THEN SendSubscribe(asked[c].symbol)
                             ELSE SendUnsubscribe(asked[c].symbol)
    /\ UNCHANGED <<history, _desired_symbols, _books, place, left, resync, stopping, asks,
                   failures, disturbed>>

-----------------------------------------------------------------------------
(* run and _run_session.                                                   *)

\* Whatever ends the session ends the run: the books are dropped.
EndRun ==
    /\ place' = "ended"
    /\ _books' = [s \in Symbol |-> B!EmptyBook]
    /\ left' = {}
    /\ listening' = {} /\ wire' = <<>>

\* The address was fetched and the socket connected.
Connect ==
    /\ place = "url"
    /\ place' = "subscribe"
    /\ left' = _desired_symbols
    /\ UNCHANGED <<history, listening, wire, _desired_symbols, _books, resync, stopping, asked,
                   asks, failures, disturbed>>

\* _resubscribe_all sends one frame after the other.
SubscribeNext(s) ==
    /\ place = "subscribe"
    /\ s \in left
    /\ left' = left \ {s}
    /\ SendSubscribe(s)
    /\ UNCHANGED <<history, _desired_symbols, _books, place, resync, stopping, asked, asks,
                   failures, disturbed>>

AllSubscribed ==
    /\ place = "subscribe"
    /\ left = {}
    /\ place' = "recv"
    /\ UNCHANGED <<history, listening, wire, _desired_symbols, _books, left, resync, stopping,
                   asked, asks, failures, disturbed>>

\* Mutant of InSequence: only what is older than the book is a gap.
NotOlder(book, sequence) == book.last_sequence = B!NoSequence \/ sequence > book.last_sequence

InSequence(book, sequence) == B!CheckSequence(book, sequence)

Invalidated(book) == B!EmptyBook

Updated(book, m) ==
    IF m.snapshot THEN B!ApplySnapshot(book, m.levels, m.sequence)
                  ELSE B!ApplyDelta(book, m.levels, m.sequence)

\* A message that is in sequence but has no depth: the book stays as it was.
Unreadable ==
    /\ place = "recv"
    /\ wire # <<>> /\ ~stopping
    /\ Failure
    /\ LET m == Head(wire)
       IN  /\ InSequence(_books[m.symbol], m.sequence)
           /\ disturbed' = IF m.snapshot THEN disturbed \cup {m.symbol} ELSE disturbed
    /\ wire' = Tail(wire)
    /\ UNCHANGED <<history, listening, _desired_symbols, _books, place, left, resync, stopping,
                   asked, asks>>

\* _process_feed; a gap drops the book and resubscribes the symbol in two sends.
Receive ==
    /\ place = "recv"
    /\ wire # <<>> /\ ~stopping
    /\ LET m == Head(wire)
           book == _books[m.symbol]
       IN  /\ IF InSequence(book, m.sequence)
              THEN /\ _books' = [_books EXCEPT ![m.symbol] = Updated(book, m)]
                   /\ UNCHANGED <<place, resync>>
              ELSE /\ _books' = [_books EXCEPT ![m.symbol] = Invalidated(book)]
                   /\ place' = "unsub" /\ resync' = m.symbol
    /\ wire' = Tail(wire)
    /\ UNCHANGED <<history, listening, _desired_symbols, left, stopping, asked, asks, failures,
                   disturbed>>

\* _resubscribe_symbol.
ResyncUnsubscribe ==
    /\ place = "unsub"
    /\ place' = "resub"
    /\ SendUnsubscribe(resync)
    /\ UNCHANGED <<history, _desired_symbols, _books, left, resync, stopping, asked, asks,
                   failures, disturbed>>

\* Mutant of Answer: the symbol is only unsubscribed.
NoAnswer == UNCHANGED <<listening, wire>>

Answer == SendSubscribe(resync)

ResyncSubscribe ==
    /\ place = "resub"
    /\ place' = "recv"
    /\ Answer
    /\ UNCHANGED <<history, _desired_symbols, _books, left, resync, stopping, asked, asks,
                   failures, disturbed>>

StopTbt ==
    /\ place # "ended" /\ ~stopping
    /\ stopping' = TRUE
    /\ UNCHANGED <<history, listening, wire, _desired_symbols, _books, place, left, resync, asked,
                   asks, failures, disturbed>>

\* A stop is noticed with the next message; the task may also be cancelled.
Stopped ==
    /\ stopping
    /\ place # "ended"
    /\ EndRun
    /\ UNCHANGED <<history, _desired_symbols, resync, stopping, asked, asks, failures, disturbed>>

\* No token, no address, no connection, a broken one: the loop does not come round.
SessionFails ==
    /\ place # "ended"
    /\ Failure
    /\ EndRun
    /\ UNCHANGED <<history, _desired_symbols, resync, stopping, asked, asks, disturbed>>

-----------------------------------------------------------------------------
TbtStep ==
    \/ Connect
    \/ \E s \in Symbol : SubscribeNext(s)
    \/ AllSubscribed
    \/ Receive
    \/ Unreadable
    \/ ResyncUnsubscribe
    \/ ResyncSubscribe

TbtNext ==
    \/ TbtStep
    \/ \E c \in Subscriber : SendRequest(c)
    \/ \E c \in Subscriber, op \in {"sub", "unsub"}, s \in Symbol : Request(c, op, s)
    \/ \E s \in Symbol, p \in Price : LevelChange(s, p)
    \/ StopTbt
    \/ Stopped
    \/ SessionFails

TbtSpec == TbtInit /\ [][TbtNext]_tbtVars

-----------------------------------------------------------------------------
(* Properties.                                                             *)

\* A book that was built on a snapshot holds what the exchange held at the sequence
\* number the book shows: no message that was left out, repeated, or on its way
\* while the symbol was resubscribed makes it differ unnoticed (_process_feed,
\* LocalOrderBook).
BookIsTheExchanges ==
    /\ TbtTypeOK
    /\ \A s \in Symbol :
          _books[s].snapshot_count > 0
              => B!Held(_books[s]) = history[s][_books[s].last_sequence]

\* A snapshot of s is on its way.
SnapshotOnWire(s) == \E i \in DOMAIN wire : wire[i].symbol = s /\ wire[i].snapshot

\* While the feed is connected, a desired symbol for which no frame is still to be sent is
\* one the broker sends, and its book stands on a snapshot or one is on its way: neither
\* the frames of the calls and of a resubscription, which are sent outside the lock, nor
\* the gaps that are noticed leave a symbol unsubscribed or its book without one; unless
\* calls crossed another frame of the symbol, or its snapshot could not be read
\* (subscribe, unsubscribe, _resubscribe_all, _process_feed, _resubscribe_symbol).
BooksAreFed ==
    \A s \in _desired_symbols \ disturbed :
        (Open /\ ~Due(s))
            => s \in listening /\ (_books[s].snapshot_count > 0 \/ SnapshotOnWire(s))
=============================================================================
