--------------------------- MODULE ChainAnalytics ---------------------------
(***************************************************************************)
(* The option-chain analytics service: which chains are refreshed, for     *)
(* which alerts, and how.  The tools that create, enable, disable and      *)
(* delete condition alerts each commit in a worker thread and then, in one *)
(* go on the event loop, reload the engine and register the alert's        *)
(* dependencies.  A scheduler walks over what is registered and fetches    *)
(* one chain after the other.  Everything but the rows is in memory and is *)
(* rebuilt from them when the server starts.                               *)
(***************************************************************************)
EXTENDS FiniteSets, Naturals

CONSTANTS
    Alert,
    Key,          \* what conditions depend on: chains, and quotes
    Chain,        \* the keys that are chains
    DependsOn,    \* per alert, the keys of its condition tree
    Listed,       \* the chains whose key leads to some row of the catalog
    Answer,       \* what asking the market service for a chain can come to
    Caller,       \* tool calls in progress
    MaxBreakages  \* bound: calls broken off, restarts, failed reads

ASSUME ChainAssumption ==
    /\ Chain \subseteq Key /\ Listed \subseteq Chain
    /\ DependsOn \in [Alert -> (SUBSET Key) \ {{}}]
    /\ Answer \subseteq {"snapshot", "nothing", "error"}
    /\ MaxBreakages \in Nat

VARIABLES
    alerts,       \* per alert: its row
    running,      \* the server runs
    engine,       \* the alerts the engine evaluates
    dependents,   \* per key, the alerts it is registered for
    cache,        \* the chains with a snapshot, fresh or stale
    sweep,        \* the keys the scheduler has still to refresh in this round
    scheduler,    \* "asleep", "sweeping", or the chain being fetched
    calls,        \* per caller, how far it is
    broken,       \* history: a call broke off or a read failed since the start
    breakages     \* how many there were

memory == <<engine, dependents>>
refreshing == <<cache, sweep, scheduler>>
serviceVars == <<alerts, running, memory, refreshing, calls, broken, breakages>>

RowState == {"never", "enabled", "disabled", "deleted"}
Operation == {"create", "enable", "disable", "delete"}

NoCall == [pc |-> "idle"]

ServiceTypeOK ==
    /\ alerts \in [Alert -> RowState] /\ engine \subseteq Alert
    /\ dependents \in [Key -> SUBSET Alert]
    /\ cache \subseteq Chain
    /\ sweep \subseteq Key /\ scheduler \in {"asleep", "sweeping"} \cup Chain
    /\ \A c \in Caller :
          calls[c] = NoCall \/ (calls[c].op \in Operation /\ calls[c].alert \in Alert)
    /\ breakages \in 0..MaxBreakages

Enabled == {a \in Alert : alerts[a] = "enabled"}
Registered == {k \in Key : dependents[k] # {}}
Stored(a) == alerts[a] \in {"enabled", "disabled"}

Breakage == breakages < MaxBreakages /\ breakages' = breakages + 1

(***************************************************************************)
(* The registry.                                                           *)
(***************************************************************************)
register_chain(keys, a) ==
    dependents' = [k \in Key |-> IF k \in keys THEN dependents[k] \cup {a} ELSE dependents[k]]

(* The last dependent takes the snapshot with it.                          *)
unregister_chain(keys, a) ==
    /\ dependents' = [k \in Key |-> IF k \in keys THEN dependents[k] \ {a} ELSE dependents[k]]
    /\ cache' = cache \ {k \in keys : dependents[k] # {} /\ dependents'[k] = {}}

(* At a start the chains of the enabled alerts are registered, and only    *)
(* the chains.                                                             *)
reconstruct_from_alerts ==
    dependents' = [k \in Key |-> {a \in Enabled : k \in DependsOn[a] \cap Chain}]

(* A tool registers every key of the condition, also those of quotes.      *)
_extract_analytics_chains(a) == DependsOn[a]

(* The delete tool unregisters what an empty condition depends on.         *)
DeletedConditionKeys == {}

(***************************************************************************)
(* The tools.                                                              *)
(***************************************************************************)
Becomes(c, call) == calls' = [calls EXCEPT ![c] = call]
Moves(c, pc) == Becomes(c, [calls[c] EXCEPT !.pc = pc])
Ends(c) == Becomes(c, NoCall)

(* Callers are alike: a tool is called by any one that is free.            *)
FreeCaller ==
    LET free == {c \in Caller : calls[c] = NoCall}
    IN IF free = {} THEN {} ELSE {CHOOSE c \in free : TRUE}

Ask(c, op, a) ==
    /\ running /\ c \in FreeCaller
    /\ op = "create" <=> alerts[a] = "never"
    /\ \A d \in Caller : calls[d] # NoCall => calls[d].op # "create" \/ calls[d].alert # a
    /\ Becomes(c, [pc |-> IF op = "create" THEN "thread" ELSE "owned", op |-> op, alert |-> a])
    /\ UNCHANGED <<alerts, running, memory, refreshing, broken, breakages>>

(* The alert must be there.                                                *)
_get_owned(c) ==
    /\ calls[c].pc = "owned"
    /\ IF Stored(calls[c].alert) THEN Moves(c, "thread") ELSE Ends(c)
    /\ UNCHANGED <<alerts, running, memory, refreshing, broken, breakages>>

RowAfter(op) ==
    CASE op = "disable" -> "disabled" [] op = "delete" -> "deleted" [] OTHER -> "enabled"

Commits(c) ==
    LET call == calls[c] IN
    /\ call.op # "create" => Stored(call.alert)
    /\ alerts' = [alerts EXCEPT ![call.alert] = RowAfter(call.op)]

(* The thread commits, or finds the alert gone and the call fails.         *)
ThreadCommits(c) ==
    /\ calls[c].pc = "thread"
    /\ \/ Commits(c) /\ Moves(c, "committed")
       \/ calls[c].op # "create" /\ ~Stored(calls[c].alert) /\ Ends(c) /\ UNCHANGED alerts
    /\ UNCHANGED <<running, memory, refreshing, broken, breakages>>

ReloadEngine == engine' = Enabled

(* mutants *)
RegistersWhenCreated(c) ==
    IF calls[c].op = "create" THEN _extract_analytics_chains(calls[c].alert) ELSE {}

(* What the end of a call registers.  A created alert that was deleted     *)
(* meanwhile raises, one that was enabled is passed over.                  *)
Registers(c) ==
    IF calls[c].op \in {"create", "enable"} /\ Stored(calls[c].alert)
    THEN _extract_analytics_chains(calls[c].alert) ELSE {}

FinishCall(c) ==
    /\ calls[c].pc = "committed"
    /\ ReloadEngine
    /\ IF calls[c].op = "delete"
       THEN unregister_chain(DeletedConditionKeys, calls[c].alert)
       ELSE register_chain(Registers(c), calls[c].alert) /\ UNCHANGED cache
    /\ Ends(c)
    /\ UNCHANGED <<alerts, running, sweep, scheduler, broken, breakages>>

(* The client goes away: a thread that runs goes on alone.                 *)
CancelCall(c) ==
    /\ calls[c] # NoCall /\ calls[c].pc # "detached" /\ Breakage
    /\ IF calls[c].pc = "thread" THEN Moves(c, "detached") ELSE Ends(c)
    /\ broken' = TRUE
    /\ UNCHANGED <<alerts, running, memory, refreshing>>

DetachedCommits(c) ==
    /\ calls[c].pc = "detached"
    /\ Commits(c) \/ UNCHANGED alerts
    /\ Ends(c)
    /\ UNCHANGED <<running, memory, refreshing, broken, breakages>>

(* A once alert fires, which disables it.                                  *)
OnceFires(a) ==
    /\ running /\ a \in engine \cap Enabled
    /\ alerts' = [alerts EXCEPT ![a] = "disabled"]
    /\ UNCHANGED <<running, memory, refreshing, calls, broken, breakages>>

(***************************************************************************)
(* The scheduler.                                                          *)
(***************************************************************************)
Tick ==
    /\ running /\ scheduler = "asleep"
    /\ sweep' = Registered /\ scheduler' = "sweeping"
    /\ UNCHANGED <<alerts, running, memory, cache, calls, broken, breakages>>

(* The next key.  The key is taken apart at its first colon, so that the   *)
(* catalog is searched for the name of an exchange; without a row there is *)
(* nothing to ask for.                                                     *)
RefreshOne(k) ==
    /\ scheduler = "sweeping" /\ k \in sweep
    /\ sweep' = sweep \ {k}
    /\ scheduler' = IF k \in Listed THEN k ELSE "sweeping"
    /\ UNCHANGED <<alerts, running, memory, cache, calls, broken, breakages>>

(* mutants *)
AbandonedBy(answer) == IF answer = "error" THEN {} ELSE sweep

(* What of the round remains after an answer: a failure is counted and     *)
(* logged, and the round goes on.                                          *)
RemainingAfter(answer) == sweep

(* The answer: a snapshot is stored whether or not its chain is still      *)
(* registered.                                                             *)
Fetched(answer) ==
    /\ scheduler \in Chain
    /\ cache' = IF answer = "snapshot" THEN cache \cup {scheduler} ELSE cache
    /\ sweep' = RemainingAfter(answer)
    /\ scheduler' = "sweeping"
    /\ UNCHANGED <<alerts, running, memory, calls, broken, breakages>>

Sleep ==
    /\ scheduler = "sweeping" /\ sweep = {}
    /\ scheduler' = "asleep"
    /\ UNCHANGED <<alerts, running, memory, cache, sweep, calls, broken, breakages>>

(***************************************************************************)
(* The process.                                                            *)
(***************************************************************************)
(* The engine loads, the service starts with an empty cache, and the       *)
(* registry is rebuilt; a store that cannot be read leaves it empty.       *)
Start ==
    /\ ~running /\ running' = TRUE
    /\ ReloadEngine
    /\ \/ reconstruct_from_alerts /\ UNCHANGED <<broken, breakages>>
       \/ dependents' = [k \in Key |-> {}] /\ broken' = TRUE /\ Breakage
    /\ UNCHANGED <<alerts, refreshing, calls>>

Stop ==
    /\ running /\ running' = FALSE /\ Breakage
    /\ engine' = {} /\ dependents' = [k \in Key |-> {}]
    /\ cache' = {} /\ sweep' = {} /\ scheduler' = "asleep"
    /\ calls' = [c \in Caller |-> NoCall] /\ broken' = FALSE
    /\ UNCHANGED alerts

ServiceInit ==
    /\ alerts = [a \in Alert |-> "never"]
    /\ running = FALSE
    /\ engine = {} /\ dependents = [k \in Key |-> {}]
    /\ cache = {} /\ sweep = {} /\ scheduler = "asleep"
    /\ calls = [c \in Caller |-> NoCall]
    /\ broken = FALSE /\ breakages = 0

Tools(c) ==
    \/ \E op \in Operation, a \in Alert : Ask(c, op, a)
    \/ _get_owned(c) \/ ThreadCommits(c) \/ FinishCall(c)
    \/ CancelCall(c) \/ DetachedCommits(c)

Round == Tick \/ Sleep \/ \E k \in Key : RefreshOne(k)

ServiceNext ==
    \/ \E c \in Caller : Tools(c)
    \/ \E a \in Alert : OnceFires(a)
    \/ Round \/ \E answer \in Answer : Fetched(answer)
    \/ Start \/ Stop

ServiceSpec == ServiceInit /\ [][ServiceNext]_serviceVars

(* The scheduler's task runs, and every request to the broker ends.        *)
ServiceFairSpec ==
    /\ ServiceSpec
    /\ WF_serviceVars(Round)
    /\ WF_serviceVars(\E answer \in Answer : Fetched(answer))

(***************************************************************************)
(* Properties.                                                             *)
(***************************************************************************)
AtRest == running /\ ~broken /\ \A c \in Caller : calls[c] = NoCall

(* Between calls the engine evaluates every enabled alert and all its      *)
(* chains are registered, however calls about the same alert interleaved   *)
(* and wherever the server was restarted; this ends with a call that broke *)
(* off after its commit, until the next start.                             *)
(* (src/mcp_server/tools/condition_alerts.py:432, 511 and                  *)
(* src/app/market_analytics.py:267)                                        *)
EnabledAreServed ==
    /\ ServiceTypeOK
    /\ AtRest =>
        /\ Enabled \subseteq engine
        /\ \A a \in Enabled : \A k \in DependsOn[a] \cap Chain : a \in dependents[k]

(* A chain that stays registered is asked for again and again: neither a   *)
(* chain whose requests keep failing nor calls that register others starve *)
(* it.                                                                     *)
(* (src/app/market_analytics.py:164, _refresh_all_active)                  *)
NoChainStarves ==
    \A k \in Listed : []<>(scheduler = k \/ k \notin Registered)

(* A registered chain gets a snapshot that can be evaluated.               *)
(* (src/app/market_analytics.py:12, "It calls MarketService.option_chain") *)
SnapshotsArrive ==
    \A k \in Listed : k \in Registered ~> k \in cache \/ k \notin Registered
=============================================================================
