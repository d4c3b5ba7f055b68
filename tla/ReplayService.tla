---------------------------- MODULE ReplayService ----------------------------
(***************************************************************************)
(* The MCP replay tools over the event store.  consumer_event_pending_list *)
(* and consumer_event_acknowledge each run several store calls, one worker *)
(* thread and one transaction at a time, so every other writer (publishers, *)
(* the retention task, other tool calls of the same consumer) gets in      *)
(* between.  One paging client per consumer drives the list tool: it       *)
(* starts at its durable checkpoint and passes next_after_sequence back    *)
(* while has_more holds.                                                   *)
(***************************************************************************)
EXTENDS EventStore

CONSTANTS
    PageLimit,  \* the effective limit of a page
    Client,     \* consumers that page
    MaxLost     \* bound: calls lost to a timeout, a disconnect or a restart

ASSUME ReplayAssumption ==
    /\ PageLimit \in Nat \ {0}
    /\ MaxLost \in Nat
    /\ Client \subseteq Consumer

VARIABLES
    session,    \* per consumer, the paging client and its call in flight
    advancing,  \* the consumers with an acknowledge call that still has to advance
    lost        \* how many calls were lost

vars == <<storeVars, session, advancing, lost>>

Idle == [pc |-> "idle", after |-> 0, page |-> {}, got |-> {}, due |-> {}]

\* due: what was pending when the client started paging; got: what it was handed.
Session ==
    [pc : {"idle", "select", "mark", "done"}, after : Nat,
     page : SUBSET (1..MaxEvents), got : SUBSET (1..MaxEvents),
     due : SUBSET (1..MaxEvents)]

TypeOK ==
    /\ StoreTypeOK
    /\ session \in [Consumer -> Session]
    /\ advancing \subseteq Consumer
    /\ lost \in 0..MaxLost

Init ==
    /\ StoreInit
    /\ session = [c \in Consumer |-> Idle]
    /\ advancing = {}
    /\ lost = 0

-----------------------------------------------------------------------------
(* consumer_event_pending_list. *)

\* Mutant of StartAfter: the first page begins at the newest stored event.
StartAfterNewest(c) ==
    IF persistent_events = {}
    THEN 0
    ELSE CHOOSE s \in persistent_events : \A t \in persistent_events : t <= s

StartAfter(c) == consumer_checkpoints[c]

BeginReplay(c) ==
    /\ c \in consumers
    /\ session[c].pc \in {"idle", "done"}
    /\ session' = [session EXCEPT ![c] =
           [Idle EXCEPT !.pc = "select", !.after = StartAfter(c), !.due = Pending(c)]]
    /\ UNCHANGED <<storeVars, advancing, lost>>

FirstOf(events, n) ==
    {s \in events : Cardinality({t \in events : t < s}) < n}

SelectPage(c) ==
    /\ session[c].pc = "select"
    /\ session' = [session EXCEPT
           ![c].pc = "mark",
           ![c].page = FirstOf(Unacknowledged(c, session[c].after), PageLimit)]
    /\ UNCHANGED <<storeVars, advancing, lost>>

\* Mutant of NextAfter: the number of the event after the page.
NextAfterSkips(after, page) ==
    IF page = {} THEN after ELSE 1 + CHOOSE s \in page : \A t \in page : t <= s

NextAfter(after, page) ==
    IF page = {} THEN after ELSE CHOOSE s \in page : \A t \in page : t <= s

HasMore(page) == Cardinality(page) = PageLimit

ReturnPage(c) ==
    LET call == session[c] IN
    /\ call.pc = "mark"
    /\ MarkReturned(c, call.page)
    /\ session' = [session EXCEPT ![c] =
           [call EXCEPT !.pc = IF HasMore(call.page) THEN "select" ELSE "done",
                        !.after = NextAfter(call.after, call.page),
                        !.page = {},
                        !.got = @ \cup call.page]]
    /\ UNCHANGED <<advancing, lost>>

\* An event of the page was acknowledged by another call and pruned since the
\* SELECT: the upsert breaks the foreign key and the whole call fails.
ReturnPageFails(c) ==
    /\ session[c].pc = "mark"
    /\ ~(session[c].page \subseteq persistent_events)
    /\ session' = [session EXCEPT ![c] = Idle]
    /\ UNCHANGED <<storeVars, advancing, lost>>

-----------------------------------------------------------------------------
(* consumer_event_acknowledge: acknowledge, then advance. *)

Acknowledge(c, s) ==
    /\ AcknowledgeEvent(c, s)
    /\ advancing' = advancing \cup {c}
    /\ UNCHANGED <<session, lost>>

\* c stays in "advancing" when it was not the last of several concurrent calls.
Advance(c) ==
    /\ c \in advancing
    /\ AdvanceCheckpoint(c)
    /\ advancing' \in {advancing, advancing \ {c}}
    /\ UNCHANGED <<session, lost>>

-----------------------------------------------------------------------------
(* run_with_timeout gives up, the client disconnects, or the server restarts. *)

\* The worker thread of a call that timed out runs on, and may mark its page.
LoseReplay(c) ==
    /\ lost < MaxLost
    /\ session[c].pc \in {"select", "mark"}
    /\ \/ UNCHANGED storeVars
       \/ MarkReturned(c, session[c].page)
    /\ session' = [session EXCEPT ![c] = Idle]
    /\ lost' = lost + 1
    /\ UNCHANGED advancing

\* The acknowledgement is committed, the checkpoint does not move.
LoseAdvance(c) ==
    /\ lost < MaxLost
    /\ c \in advancing
    /\ advancing' = advancing \ {c}
    /\ lost' = lost + 1
    /\ UNCHANGED <<storeVars, session>>

-----------------------------------------------------------------------------
\* The lifespan's retention task, started when a limit is set: it prunes again and
\* again, and a failed prune only waits for the next.
RetentionLoop ==
    /\ AgeLimit \/ MaxRows > 0
    /\ \E aged \in SUBSET persistent_events : Prune(aged)

OtherWriters ==
    /\ \/ \E c \in Consumer : RegisterConsumer(c)
       \/ \E c \in Consumer, t \in Topic : AddTopic(c, t)
       \/ \E routing \in Routing : Save(routing)
       \/ RetentionLoop
    /\ UNCHANGED <<session, advancing, lost>>

Paging(c) == BeginReplay(c) \/ SelectPage(c) \/ ReturnPage(c) \/ ReturnPageFails(c) \/ LoseReplay(c)

Acknowledging(c) ==
    \/ Advance(c)
    \/ LoseAdvance(c)
    \/ \E s \in persistent_events : Acknowledge(c, s)

Next ==
    \/ OtherWriters
    \/ \E c \in Client : Paging(c)
    \/ \E c \in Consumer : Acknowledging(c)

Spec == Init /\ [][Next]_vars

\* A consumer that keeps reading its inbox and acknowledges what it was handed.
AcknowledgeHanded(c) ==
    \E s \in session[c].got \cap Pending(c) : Acknowledge(c, s)

Fairness ==
    \A c \in Client :
        /\ WF_vars(BeginReplay(c) \/ SelectPage(c) \/ ReturnPage(c) \/ ReturnPageFails(c))
        /\ WF_vars(Advance(c))
        /\ SF_vars(AcknowledgeHanded(c))

FairSpec == Spec /\ Fairness

-----------------------------------------------------------------------------
(***************************************************************************)
(* Properties.                                                             *)
(***************************************************************************)

\* A client that pages until has_more is false was handed every event that was
\* pending when it started and still is, whatever ran between its calls.
PagingComplete ==
    /\ TypeOK
    /\ \A c \in Consumer :
          session[c].pc = "done" => session[c].due \cap Pending(c) \subseteq session[c].got

\* A consumer that keeps reading and acknowledging settles everything it is owed,
\* publications being bounded.
EventuallySettled == \A c \in Client : []<>(Pending(c) = {})
=============================================================================
