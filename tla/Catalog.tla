------------------------------ MODULE Catalog ------------------------------
(***************************************************************************)
(* Synchronising the instrument catalog.  A broker publishes its master    *)
(* file or, like Fyers, one file per segment.  A sync runs in a worker     *)
(* thread: it fetches and parses the files one after the other and then    *)
(* replaces all rows of the provider in one transaction.  Several syncs    *)
(* can run at the same time.                                               *)
(***************************************************************************)
EXTENDS Integers, FiniteSets

CONSTANTS
    Segment,    \* the Fyers files
    Whole,      \* the one Upstox file
    Sync        \* syncs in worker threads

ASSUME CatalogAssumption == Whole \notin Segment

VARIABLES
    instruments,   \* per provider, the files its rows come from
    syncs,         \* per worker: its provider, files to fetch, parsed, and left out
    unfetched      \* history: per provider, what the sync its rows come from left out

catalogVars == <<instruments, syncs, unfetched>>

Broker == {"upstox", "fyers"}
Files(broker) == IF broker = "upstox" THEN {Whole} ELSE Segment

NoSync == [broker |-> "none", fetch |-> {}, parsed |-> {}, failed |-> {}]

(* A provider that was never synced has no rows.                           *)
CatalogInit ==
    /\ instruments = [b \in Broker |-> {}]
    /\ syncs = [s \in Sync |-> NoSync]
    /\ unfetched = [b \in Broker |-> Files(b)]

(* Workers are alike: a sync is run by any one that is free.               *)
FreeSync ==
    LET free == {s \in Sync : syncs[s] = NoSync}
    IN IF free = {} THEN {} ELSE {CHOOSE s \in free : TRUE}

BeginSync(s, broker) ==
    /\ syncs' = [syncs EXCEPT ![s] = [broker |-> broker, fetch |-> Files(broker), parsed |-> {},
                                      failed |-> {}]]
    /\ UNCHANGED <<instruments, unfetched>>

(* mutants *)
WithFile(broker, file) == [instruments EXCEPT ![broker] = {file}]

(* Fetching and parsing leaves the catalog alone.                          *)
WhileFetching(broker, file) == instruments

(* The files are fetched in one order.                                     *)
NextFile(s) ==
    IF syncs[s].fetch = {} THEN {} ELSE {CHOOSE f \in syncs[s].fetch : TRUE}

(* A file is fetched and parsed.                                           *)
FetchFile(s, file) ==
    /\ file \in NextFile(s)
    /\ syncs' = [syncs EXCEPT ![s].fetch = @ \ {file}, ![s].parsed = @ \cup {file}]
    /\ instruments' = WhileFetching(syncs[s].broker, file)
    /\ UNCHANGED unfetched

(* A segment that cannot be fetched is left out and the sync goes on; the  *)
(* Upstox file, or one that is no JSON, ends the sync.                     *)
FetchFails(s, file) ==
    /\ file \in NextFile(s)
    /\ \/ /\ syncs[s].broker = "fyers"
          /\ syncs' = [syncs EXCEPT ![s].fetch = @ \ {file}, ![s].failed = @ \cup {file}]
       \/ syncs' = [syncs EXCEPT ![s] = NoSync]
    /\ UNCHANGED <<instruments, unfetched>>

Fetched(s) == syncs[s] # NoSync /\ syncs[s].fetch = {}

(* replace_provider_instruments commits.                                   *)
Replace(s) ==
    /\ Fetched(s)
    /\ instruments' = [instruments EXCEPT ![syncs[s].broker] = syncs[s].parsed]
    /\ unfetched' = [unfetched EXCEPT ![syncs[s].broker] = syncs[s].failed]
    /\ syncs' = [syncs EXCEPT ![s] = NoSync]

(* It fails (a row twice, the database locked) and is rolled back.         *)
ReplaceFails(s) ==
    /\ Fetched(s)
    /\ syncs' = [syncs EXCEPT ![s] = NoSync]
    /\ UNCHANGED <<instruments, unfetched>>

CatalogCall == \E s \in FreeSync, b \in Broker : BeginSync(s, b)

CatalogStep ==
    \E s \in Sync :
        \/ \E f \in NextFile(s) : FetchFile(s, f) \/ FetchFails(s, f)
        \/ Replace(s) \/ ReplaceFails(s)

ForgetSyncs == syncs' = [s \in Sync |-> NoSync] /\ UNCHANGED <<instruments, unfetched>>

(* A provider's catalog has every file the provider publishes, but for the *)
(* segments that the one sync it comes from could not fetch: no segment of *)
(* a sync wipes another of the same sync, no sync that is in progress, has *)
(* failed or was killed shows in it, two syncs at a time do not mix, and   *)
(* an Upstox sync does not go on without its file.                         *)
(* (src/app/instruments.py:203, sync_fyers and                             *)
(* src/core/persistence/modules/products.py:104)                           *)
CatalogIsWhole ==
    /\ \A b \in Broker : instruments[b] = Files(b) \ unfetched[b]
    /\ \A s \in Sync : syncs[s].broker = "upstox" => syncs[s].failed = {}
=============================================================================
