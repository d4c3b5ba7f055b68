----------------------------- MODULE Watchlists -----------------------------
(***************************************************************************)
(* The watchlist routes over the watchlist tables, and the subscriptions   *)
(* they add to and take from the live feed.  A handler awaits a worker     *)
(* thread for every statement and the feed for every subscription, so the  *)
(* steps of several handlers interleave.  An instrument stands for its     *)
(* exchange and token together; the feed is told the token alone.  What an *)
(* item shows and where in its list it stands is left out.                 *)
(***************************************************************************)
EXTENDS Integers, FiniteSets, FiniteSetsExt

CONSTANTS
    Name,         \* names of watchlists
    Instrument,
    Token,        \* of each instrument
    Request,      \* requests being handled
    FirstLists, FirstItems   \* rows of a database that already has the tables

VARIABLES
    watchlists,   \* rows: id and name
    items,        \* rows: id, list and instrument
    lastList, lastItem,   \* the ids AUTOINCREMENT gave last
    subscribed,   \* tokens watched on behalf of the lists
    requests      \* per request, how far it is

watchlistVars == <<watchlists, items, lastList, lastItem, subscribed, requests>>

List(id, name) == [id |-> id, name |-> name]
Item(id, list, instrument) == [id |-> id, list |-> list, instrument |-> instrument]
Ids(rows) == {row.id : row \in rows}
Tokens(instruments) == {Token[i] : i \in instruments}

(* What the tables' keys, UNIQUE constraints and foreign key admit.        *)
ASSUME WatchlistsAssumption ==
    /\ IsFiniteSet(FirstLists) /\ IsFiniteSet(FirstItems)
    /\ FirstLists \subseteq [id : Nat \ {0}, name : Name]
    /\ FirstItems \subseteq [id : Nat \ {0}, list : Ids(FirstLists), instrument : Instrument]
    /\ \A l, m \in FirstLists : l.id = m.id \/ l.name = m.name => l = m
    /\ \A i, j \in FirstItems :
         i.id = j.id \/ (i.list = j.list /\ i.instrument = j.instrument) => i = j

(* instruments: those the request is about; list: the list it works on;    *)
(* names: that of one to create; lists: those still to be counted; refs:   *)
(* references counted; before: history, the items there were when counting *)
(* began.                                                                  *)
Waiting == [pc |-> "idle", item |-> 0, list |-> 0, instruments |-> {},
            names |-> {}, lists |-> {}, refs |-> 0, before |-> {}]

WatchlistsTypeOK ==
    /\ Ids(watchlists) \subseteq 1..lastList /\ Ids(items) \subseteq 1..lastItem
    /\ \A l, m \in watchlists : l.id = m.id \/ l.name = m.name => l = m
    /\ \A i, j \in items :
         i.id = j.id \/ (i.list = j.list /\ i.instrument = j.instrument) => i = j
    /\ \A i \in items : i.list \in Ids(watchlists)
    /\ subscribed \subseteq Tokens(Instrument)

WatchlistsInit(stored) ==
    /\ watchlists = (IF stored THEN FirstLists ELSE {})
    /\ items = (IF stored THEN FirstItems ELSE {})
    /\ lastList = Max({0} \cup Ids(watchlists)) /\ lastItem = Max({0} \cup Ids(items))
    /\ subscribed = {} /\ requests = [r \in Request |-> Waiting]

(* Requests are alike: a call is handled by any one that is free.          *)
FreeRequest ==
    LET free == {r \in Request : requests[r].pc = "idle"}
    IN IF free = {} THEN {} ELSE {CHOOSE r \in free : TRUE}

Becomes(r, record) == requests' = [requests EXCEPT ![r] = record]
Answers(r) == Becomes(r, Waiting)

(***************************************************************************)
(* The lists.                                                              *)
(***************************************************************************)
NameFree(name) == \A l \in watchlists : l.name # name

CreateWatchlist(name) ==
    /\ NameFree(name)
    /\ lastList' = lastList + 1
    /\ watchlists' = watchlists \cup {List(lastList', name)}
    /\ UNCHANGED <<items, lastItem, subscribed, requests>>

RenameWatchlist(list, name) ==
    /\ NameFree(name)
    /\ watchlists' = (watchlists \ {list}) \cup {List(list.id, name)}
    /\ UNCHANGED <<items, lastList, lastItem, subscribed, requests>>

(* The items go with their list; the feed is not told.                     *)
DeleteWatchlist(list) ==
    /\ watchlists' = watchlists \ {list}
    /\ items' = {i \in items : i.list # list.id}
    /\ UNCHANGED <<lastList, lastItem, subscribed, requests>>

(***************************************************************************)
(* Adding.                                                                 *)
(***************************************************************************)
CanInsert(list, instrument) ==
    /\ list \in Ids(watchlists)
    /\ \A i \in items : ~(i.list = list /\ i.instrument = instrument)

Insert(list, instrument) ==
    IF CanInsert(list, instrument)
    THEN lastItem' = lastItem + 1 /\ items' = items \cup {Item(lastItem', list, instrument)}
    ELSE UNCHANGED <<items, lastItem>>

(* The row is inserted, or the table refuses it and the request ends.      *)
AddItem(r, list, instrument) ==
    /\ CanInsert(list, instrument)
    /\ Insert(list, instrument)
    /\ Becomes(r, [Waiting EXCEPT !.pc = "subscribing", !.instruments = {instrument}])
    /\ UNCHANGED <<watchlists, lastList, subscribed>>

(* The feed takes the token; a failure is swallowed.                       *)
Subscribe(r, done) ==
    /\ requests[r].pc = "subscribing"
    /\ subscribed' = IF done THEN subscribed \cup Tokens(requests[r].instruments) ELSE subscribed
    /\ Answers(r)
    /\ UNCHANGED <<watchlists, items, lastList, lastItem>>

(***************************************************************************)
(* Removing: the instrument of the item is looked up, the row deleted, the *)
(* remaining references counted list by list, and the feed told when there *)
(* are none.                                                               *)
(***************************************************************************)
RemoveItem(r, item) ==
    /\ Becomes(r, [Waiting EXCEPT !.pc = "deleting", !.item = item.id,
                                  !.instruments = {item.instrument}])
    /\ UNCHANGED <<watchlists, items, lastList, lastItem, subscribed>>

DeleteItem(r) ==
    /\ requests[r].pc = "deleting"
    /\ items' = {i \in items : i.id # requests[r].item}
    /\ IF items' # items
       THEN Becomes(r, [requests[r] EXCEPT !.pc = "counting"])
       ELSE Answers(r)
    /\ UNCHANGED <<watchlists, lastList, lastItem, subscribed>>

(* mutants *)
FirstListOnly == {l \in Ids(watchlists) : \A m \in Ids(watchlists) : l <= m}

Counted == Ids(watchlists)

Decision(record) ==
    IF record.lists # {} THEN record
    ELSE IF record.refs = 0 THEN [record EXCEPT !.pc = "unsubscribing"] ELSE Waiting

BeginCount(r) ==
    /\ requests[r].pc = "counting"
    /\ Becomes(r, Decision([requests[r] EXCEPT !.pc = "scanning", !.lists = Counted,
                                               !.before = items]))
    /\ UNCHANGED <<watchlists, items, lastList, lastItem, subscribed>>

CountList(r) ==
    /\ requests[r].pc = "scanning"
    /\ LET list == Min(requests[r].lists)
           found == {i \in items : i.list = list /\ i.instrument \in requests[r].instruments}
       IN Becomes(r, Decision([requests[r] EXCEPT !.lists = @ \ {list},
                                                  !.refs = @ + Cardinality(found)]))
    /\ UNCHANGED <<watchlists, items, lastList, lastItem, subscribed>>

(* The feed drops the token, for whatever exchange it was subscribed.      *)
Unsubscribe(r, done) ==
    /\ requests[r].pc = "unsubscribing"
    /\ subscribed' = IF done THEN subscribed \ Tokens(requests[r].instruments) ELSE subscribed
    /\ Answers(r)
    /\ UNCHANGED <<watchlists, items, lastList, lastItem>>

(***************************************************************************)
(* Importing one list: it is looked up by name or created, then its items  *)
(* are inserted.  The feed is not told.                                    *)
(***************************************************************************)
ImportList(r, name, instruments) ==
    /\ \/ \E l \in watchlists :
            /\ l.name = name
            /\ Becomes(r, [Waiting EXCEPT !.pc = "importing", !.list = l.id,
                                          !.instruments = instruments])
       \/ /\ NameFree(name)
          /\ Becomes(r, [Waiting EXCEPT !.pc = "creating", !.names = {name},
                                          !.instruments = instruments])
    /\ UNCHANGED <<watchlists, items, lastList, lastItem, subscribed>>

(* Creating it raises when the name was taken meanwhile.                   *)
ImportCreates(r, name) ==
    /\ requests[r].pc = "creating" /\ name \in requests[r].names
    /\ IF NameFree(name)
       THEN /\ lastList' = lastList + 1
            /\ watchlists' = watchlists \cup {List(lastList', name)}
            /\ Becomes(r, [requests[r] EXCEPT !.pc = "importing", !.list = lastList'])
       ELSE Answers(r) /\ UNCHANGED <<watchlists, lastList>>
    /\ UNCHANGED <<items, lastItem, subscribed>>

ImportItem(r) ==
    /\ requests[r].pc = "importing"
    /\ \/ /\ requests[r].instruments = {}
          /\ Answers(r) /\ UNCHANGED <<items, lastItem>>
       \/ \E i \in requests[r].instruments :
            /\ Insert(requests[r].list, i)
            /\ Becomes(r, [requests[r] EXCEPT !.instruments = @ \ {i}])
    /\ UNCHANGED <<watchlists, lastList, subscribed>>

WatchlistCall ==
    \/ \E n \in Name : CreateWatchlist(n)
    \/ \E l \in watchlists, n \in Name : RenameWatchlist(l, n)
    \/ \E l \in watchlists : DeleteWatchlist(l)
    \/ \E r \in FreeRequest :
        \/ \E l \in Ids(watchlists), i \in Instrument : AddItem(r, l, i)
        \/ \E i \in items : RemoveItem(r, i)
        \/ \E n \in Name, s \in SUBSET Instrument : ImportList(r, n, s)

WatchlistStep ==
    \E r \in Request :
        \/ \E done \in BOOLEAN : Subscribe(r, done) \/ Unsubscribe(r, done)
        \/ DeleteItem(r) \/ BeginCount(r) \/ CountList(r)
        \/ \E n \in Name : ImportCreates(r, n)
        \/ ImportItem(r)

(* The process and its subscriptions end; a new one subscribes to what its *)
(* configuration lists, not to the watchlists.                             *)
ForgetRequests ==
    /\ subscribed' = {} /\ requests' = [r \in Request |-> Waiting]
    /\ UNCHANGED <<watchlists, items, lastList, lastItem>>

(* When the feed is about to be told to forget an instrument, no item of   *)
(* that instrument that was in any list when the request began to count    *)
(* references is still there.                                              *)
(* (src/api/product_routes.py:436, _refs and _remove_item)                 *)
StableReferenceKeeps ==
    /\ WatchlistsTypeOK
    /\ \A r \in Request :
        requests[r].pc = "unsubscribing" =>
            \A i \in items \cap requests[r].before : i.instrument \notin requests[r].instruments
=============================================================================
