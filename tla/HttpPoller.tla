----------------------------- MODULE HttpPoller -----------------------------
(***************************************************************************)
(* The HTTP JSON poller: fetch a page of items, skip those already seen,   *)
(* publish the others, record each as seen, move the cursor.  Every store  *)
(* call is one transaction in a worker thread; the task can be cancelled,  *)
(* or the process end, while it waits for any of them.                     *)
(*                                                                         *)
(* An item is its number in the order in which the upstream created it,    *)
(* which is also the value of its cursor field.                            *)
(***************************************************************************)
EXTENDS Integers, FiniteSetsExt, SequencesExt

CONSTANTS
    MaxItems,  \* bound: how many items the upstream ever creates
    Window,    \* how many of its newest items the upstream lists
    Rejected,  \* the items publish_event always refuses (a NaN in the payload)
    SeenMax,   \* _seen_max, the size of the in-memory list
    DedupMax,  \* dedup.max_items, the size of the durable table
    Upstream,  \* the kinds of upstream considered: records [newestFirst, honoursCursor]
    MaxMishaps \* bound: failed store calls and fetches, cancellations and crashes

Item == 1..MaxItems

ASSUME HttpPollerAssumption ==
    /\ {MaxItems, Window, SeenMax, DedupMax} \subseteq Nat \ {0}
    /\ MaxMishaps \in Nat
    /\ Rejected \subseteq Item
    /\ Upstream \subseteq [newestFirst : BOOLEAN, honoursCursor : BOOLEAN]

VARIABLES
    upstream,      \* how the upstream answers
    created,       \* how many items it created
    awaits,        \* the call the poller waits for
    batch,         \* what is left of the page in hand, the current item first
    _seen_ids,     \* L1: the ids this instance has seen, oldest first
    seen_items,    \* L2: the table source_seen_items, oldest first
    _cursor_value, \* the cursor in memory, 0 for None
    source_state,  \* the durable cursor, 0 without a row
    published,     \* how often each item was published
    mishaps

instanceVars == <<awaits, batch, _seen_ids, _cursor_value>>
durableVars == <<seen_items, source_state, published>>
pollerVars == <<upstream, created, instanceVars, durableVars, mishaps>>

PollerTypeOK ==
    /\ upstream \in Upstream
    /\ created \in 0..MaxItems
    /\ awaits \in {"get_cursor", "fetch", "is_seen", "publish", "mark_seen", "prune", "set_cursor"}
    /\ batch \in Seq(Item)
    /\ batch = <<>> <=> awaits \in {"get_cursor", "fetch"}
    /\ _seen_ids \in Seq(Item) /\ Len(_seen_ids) <= SeenMax
    /\ seen_items \in Seq(Item)
    /\ {_cursor_value, source_state} \subseteq 0..MaxItems
    /\ published \in [Item -> Nat]
    /\ mishaps \in 0..MaxMishaps

PollerInit ==
    /\ upstream \in Upstream
    /\ created = 0
    /\ awaits = "get_cursor"
    /\ batch = <<>>
    /\ _seen_ids = <<>>
    /\ seen_items = <<>>
    /\ _cursor_value = 0
    /\ source_state = 0
    /\ published = [i \in Item |-> 0]
    /\ mishaps = 0

Mishap == mishaps < MaxMishaps /\ mishaps' = mishaps + 1

-----------------------------------------------------------------------------
(* The upstream. *)

Listed == {i \in Item : i <= created /\ i > created - Window}

Before(i, j) == IF upstream.newestFirst THEN i > j ELSE i < j

\* The oldest item that is listed and, if the upstream heeds the cursor, newer.
PageStart ==
    Max({1, created - Window + 1, IF upstream.honoursCursor THEN _cursor_value + 1 ELSE 1})

Page ==
    [n \in 1..(created - PageStart + 1) |->
        IF upstream.newestFirst THEN created - n + 1 ELSE PageStart + n - 1]

Create ==
    /\ created < MaxItems
    /\ created' = created + 1
    /\ UNCHANGED <<upstream, instanceVars, durableVars, mishaps>>

-----------------------------------------------------------------------------
(* The loop over a page. *)

LastOf(ids, n) == SubSeq(ids, Len(ids) - n + 1, Len(ids))

Remember(ids, i) ==
    IF Len(ids) < SeenMax THEN Append(ids, i) ELSE LastOf(Append(ids, i), SeenMax)

\* The items of the page from the first that is not in the in-memory list.
SkipSeen(items, ids) ==
    LET unseen == {n \in 1..Len(items) : items[n] \notin ToSet(ids)}
    IN  IF unseen = {} THEN <<>> ELSE SubSeq(items, Min(unseen), Len(items))

\* Go on with these items: everything up to the next store call is one step.
ContinueWith(items) ==
    /\ batch' = SkipSeen(items, _seen_ids')
    /\ awaits' = IF batch' = <<>> THEN "fetch" ELSE "is_seen"

\* Mutant of BreakBatch: only the item is left out.
SkipItem == ContinueWith(Tail(batch))

\* The except clause: the rest of the page waits for the next cycle.
BreakBatch ==
    /\ batch' = <<>>
    /\ awaits' = "fetch"

GetCursor ==
    /\ awaits = "get_cursor"
    /\ awaits' = "fetch"
    /\ \/ /\ _cursor_value' = IF source_state = 0 THEN _cursor_value ELSE source_state
          /\ UNCHANGED mishaps
       \/ Mishap /\ UNCHANGED _cursor_value
    /\ UNCHANGED <<upstream, created, batch, _seen_ids, durableVars>>

FetchJson ==
    /\ awaits = "fetch"
    /\ UNCHANGED _seen_ids
    /\ \/ ContinueWith(Page) /\ UNCHANGED mishaps
       \/ Mishap /\ UNCHANGED <<awaits, batch>>
    /\ UNCHANGED <<upstream, created, _cursor_value, durableVars>>

\* Mutant of IsSeen: a failed check counts as seen.
IsSeenUnlessKnown ==
    /\ awaits = "is_seen"
    /\ \/ /\ Head(batch) \in ToSet(seen_items)
          /\ _seen_ids' = Remember(_seen_ids, Head(batch))
          /\ ContinueWith(Tail(batch))
          /\ UNCHANGED mishaps
       \/ /\ Head(batch) \notin ToSet(seen_items)
          /\ awaits' = "publish"
          /\ UNCHANGED <<batch, _seen_ids, mishaps>>
       \/ /\ Mishap
          /\ _seen_ids' = Remember(_seen_ids, Head(batch))
          /\ ContinueWith(Tail(batch))
    /\ UNCHANGED <<upstream, created, _cursor_value, durableVars>>

\* A failed check counts as not seen.
IsSeen ==
    /\ awaits = "is_seen"
    /\ \/ /\ Head(batch) \in ToSet(seen_items)
          /\ _seen_ids' = Remember(_seen_ids, Head(batch))
          /\ ContinueWith(Tail(batch))
          /\ UNCHANGED mishaps
       \/ /\ Head(batch) \notin ToSet(seen_items)
          /\ awaits' = "publish"
          /\ UNCHANGED <<batch, _seen_ids, mishaps>>
       \/ /\ Mishap
          /\ awaits' = "publish"
          /\ UNCHANGED <<batch, _seen_ids>>
    /\ UNCHANGED <<upstream, created, _cursor_value, durableVars>>

Publish ==
    /\ awaits = "publish"
    /\ \/ /\ Head(batch) \notin Rejected
          /\ published' = [published EXCEPT ![Head(batch)] = @ + 1]
          /\ _seen_ids' = Remember(_seen_ids, Head(batch))
          /\ awaits' = "mark_seen"
          /\ UNCHANGED <<batch, mishaps>>
       \/ /\ \/ Head(batch) \in Rejected /\ UNCHANGED mishaps
             \/ Head(batch) \notin Rejected /\ Mishap
          /\ UNCHANGED <<_seen_ids, published>>
          /\ BreakBatch
    /\ UNCHANGED <<upstream, created, _cursor_value, seen_items, source_state>>

Marked(ids, i) == IF i \in ToSet(ids) THEN ids ELSE Append(ids, i)

MarkSeen ==
    /\ awaits = "mark_seen"
    /\ UNCHANGED <<upstream, created, _seen_ids, _cursor_value, source_state, published>>
    /\ \/ /\ seen_items' = Marked(seen_items, Head(batch))
          /\ awaits' = "prune"
          /\ UNCHANGED <<batch, mishaps>>
       \/ Mishap /\ BreakBatch /\ UNCHANGED seen_items

\* Mutant of Pruned: one row too many goes.
PrunedBelow(ids) ==
    IF Len(ids) < DedupMax THEN ids ELSE LastOf(ids, DedupMax - 1)

Pruned(ids) ==
    IF Len(ids) <= DedupMax THEN ids ELSE LastOf(ids, DedupMax)

\* The cursor in memory moves before the call that makes it durable.
Prune ==
    /\ awaits = "prune"
    /\ UNCHANGED <<upstream, created, _seen_ids, source_state, published>>
    /\ \/ /\ seen_items' = Pruned(seen_items)
          /\ _cursor_value' = Head(batch)
          /\ awaits' = "set_cursor"
          /\ UNCHANGED <<batch, mishaps>>
       \/ Mishap /\ BreakBatch /\ UNCHANGED <<seen_items, _cursor_value>>

SetCursor ==
    /\ awaits = "set_cursor"
    /\ \/ source_state' = _cursor_value /\ UNCHANGED mishaps
       \/ Mishap /\ UNCHANGED source_state
    /\ UNCHANGED _seen_ids
    /\ ContinueWith(Tail(batch))
    /\ UNCHANGED <<upstream, created, _cursor_value, seen_items, published>>

\* What a worker thread still does after its task was cancelled, or did before
\* the process ended.
ThreadCommits ==
    \/ /\ awaits = "publish" /\ Head(batch) \notin Rejected
       /\ published' = [published EXCEPT ![Head(batch)] = @ + 1]
       /\ UNCHANGED <<seen_items, source_state>>
    \/ /\ awaits = "mark_seen"
       /\ seen_items' = Marked(seen_items, Head(batch))
       /\ UNCHANGED <<published, source_state>>
    \/ /\ awaits = "prune"
       /\ seen_items' = Pruned(seen_items)
       /\ UNCHANGED <<published, source_state>>
    \/ /\ awaits = "set_cursor"
       /\ source_state' = _cursor_value
       /\ UNCHANGED <<seen_items, published>>

\* The task is cancelled and started again: a restart keeps the source instance
\* with its memory, a crash begins with a new one.
Interrupt ==
    /\ Mishap
    /\ ThreadCommits \/ UNCHANGED durableVars
    /\ batch' = <<>>
    /\ awaits' = "get_cursor"
    /\ \/ UNCHANGED <<_seen_ids, _cursor_value>>
       \/ _seen_ids' = <<>> /\ _cursor_value' = 0
    /\ UNCHANGED <<upstream, created>>

-----------------------------------------------------------------------------
Poll ==
    \/ GetCursor
    \/ FetchJson
    \/ IsSeen
    \/ Publish
    \/ MarkSeen
    \/ Prune
    \/ SetCursor

PollerNext == Create \/ Poll \/ Interrupt

PollerSpec == PollerInit /\ [][PollerNext]_pollerVars

\* The task runs until it is stopped, and its store calls return.
PollerFairSpec == PollerSpec /\ WF_pollerVars(Poll)

-----------------------------------------------------------------------------
(***************************************************************************)
(* Properties.                                                             *)
(***************************************************************************)

\* The publications of an item after its first.
Repeats == UNION {{i} \X (2..published[i]) : i \in Item}

\* Every repeated publication of an item is paid for by a failed call, a
\* cancellation or a crash of its own.  The table must be nearly twice as long
\* as the page (DedupMax >= 2 * Window - 1), which the code does not ask for.
OneDuplicatePerFault == Cardinality(Repeats) <= mishaps

\* What is recorded as seen, in memory or durably, was published: an item that
\* was not is never skipped.
SeenWasPublished ==
    /\ PollerTypeOK
    /\ \A i \in ToSet(_seen_ids) \cup ToSet(seen_items) : published[i] > 0

\* An item stays listed until it is published, unless a refused item stands
\* before it in the page.
Ingested ==
    \A i \in Item \ Rejected :
        i \in Listed ~> \/ published[i] > 0
                        \/ i \notin Listed
                        \/ \E r \in Rejected \cap Listed : Before(r, i)
=============================================================================
