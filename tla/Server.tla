------------------------------- MODULE Server -------------------------------
(***************************************************************************)
(* The server process over its database and key file: opening the store    *)
(* (Schema), reading the credentials and configuring the sources           *)
(* (Credentials), and then serving settings, logins, watchlists            *)
(* (Watchlists) and catalog syncs (Catalog), until it is killed and        *)
(* started again on what it left behind.                                   *)
(***************************************************************************)
EXTENDS Schema, Credentials, Watchlists, Catalog

CONSTANTS
    MaxCalls,      \* bound: requests
    MigratedCalls, \* bound: requests when the first database is of an earlier version
    MaxFaults      \* bound: kills and key file changes

ASSUME ServerAssumption ==
    /\ {MaxCalls, MaxFaults} \subseteq Nat
    /\ MigratedCalls \in 0..MaxCalls

VARIABLES
    phase,          \* down, schema, fyers, oauth, restore, serving
    calls, faults

vars == <<schemaVars, credentialVars, watchlistVars, catalogVars, phase, calls, faults>>

Init ==
    /\ SchemaInit
    /\ CredentialsInit(user_version = SCHEMA_VERSION)
    /\ WatchlistsInit(user_version = SCHEMA_VERSION)
    /\ CatalogInit
    /\ phase = "down" /\ faults = 0
    /\ calls = IF user_version = SCHEMA_VERSION THEN 0 ELSE MaxCalls - MigratedCalls

Enters(p, q) == phase = p /\ phase' = q

OnlySchema == UNCHANGED <<credentialVars, watchlistVars, catalogVars, calls, faults>>
OnlyCredentials == UNCHANGED <<schemaVars, watchlistVars, catalogVars, calls, faults>>

(***************************************************************************)
(* Starting.                                                               *)
(***************************************************************************)
StartServer == Enters("down", "schema") /\ OpenSchema /\ OnlySchema

Migrate == Enters("schema", "schema") /\ ~SchemaReady /\ MigrateStep /\ OnlySchema

StoreRefused == Enters("schema", "down") /\ MigrateFails /\ OnlySchema

StoreOpened == Enters("schema", "fyers") /\ SchemaReady /\ UNCHANGED schemaVars /\ OnlySchema

InjectFyers ==
    /\ Enters("fyers", "oauth")
    /\ \E written \in BOOLEAN : InjectFyersConfig(written)
    /\ OnlyCredentials

ReadUpstox == Enters("oauth", "restore") /\ ConfigureOAuth /\ OnlyCredentials

Restore ==
    /\ Enters("restore", "serving")
    /\ \E accepted \in BOOLEAN : RestoreToken(accepted)
    /\ OnlyCredentials

Boot == Migrate \/ StoreRefused \/ StoreOpened \/ InjectFyers \/ ReadUpstox \/ Restore

(***************************************************************************)
(* Serving.                                                                *)
(***************************************************************************)
Serving == phase = "serving" /\ UNCHANGED <<schemaVars, phase, faults>>

Called ==
    /\ Serving /\ calls < MaxCalls /\ calls' = calls + 1
    /\ \/ CredentialCall /\ UNCHANGED <<watchlistVars, catalogVars>>
       \/ WatchlistCall /\ UNCHANGED <<credentialVars, catalogVars>>
       \/ CatalogCall /\ UNCHANGED <<credentialVars, watchlistVars>>

Served ==
    /\ Serving /\ UNCHANGED calls
    /\ \/ CredentialStep /\ UNCHANGED <<watchlistVars, catalogVars>>
       \/ WatchlistStep /\ UNCHANGED <<credentialVars, catalogVars>>
       \/ CatalogStep /\ UNCHANGED <<credentialVars, watchlistVars>>

(***************************************************************************)
(* Faults.                                                                 *)
(***************************************************************************)
Fault == faults < MaxFaults /\ faults' = faults + 1

Crash ==
    /\ phase # "down" /\ phase' = "down" /\ Fault
    /\ ForgetMemory /\ ForgetRequests /\ ForgetSyncs
    /\ UNCHANGED <<schemaVars, calls>>

KeyFileFault ==
    /\ phase = "down" /\ Fault /\ KeyFileChanges
    /\ UNCHANGED <<schemaVars, watchlistVars, catalogVars, phase, calls>>

Next == StartServer \/ Boot \/ Called \/ Served \/ Crash \/ KeyFileFault

Spec == Init /\ [][Next]_vars

(* The operator starts a stopped server again, and a started one runs.     *)
FairSpec == Spec /\ WF_vars(StartServer) /\ WF_vars(Boot)

(***************************************************************************)
(* Properties.                                                             *)
(***************************************************************************)
(* Whatever a start was interrupted at, the file holds the tables of its   *)
(* version and of every earlier one, and the server only serves from the   *)
(* current version.                                                        *)
(* (src/core/persistence/store.py:90, _init_db)                            *)
SchemaComplete ==
    /\ CredentialsTypeOK
    /\ Tables(user_version) \subseteq objects
    /\ phase = "serving" => user_version = SCHEMA_VERSION

(* A server started on a database of an earlier version that once had one  *)
(* serves in the end, wherever earlier starts were killed.                 *)
(* (src/core/persistence/store.py:105)                                     *)
BootCompletes == []<>(phase = "serving" \/ user_version = 0)

(* A running server never makes unreadable what the key in the file can    *)
(* read, and what it writes the key in the file can read: replacing the    *)
(* key, and two stores that each keep their own copy, lose nothing.        *)
(* (src/app/secrets_store.py:153)                                          *)
RotationOrphansNothing ==
    [][phase # "down" /\ phase' # "down" =>
        \A r \in Row :
            /\ Readable(r, masterKey) /\ secrets'[r] # Nothing => Readable(r, masterKey)'
            /\ secrets'[r] \notin {Nothing, secrets[r]} => Readable(r, masterKey)']_vars

(* While the server serves, logins use the saved Upstox credentials        *)
(* whenever there are some that can be read, and never deleted or unsaved  *)
(* ones.                                                                   *)
(* (src/api/routes.py:231, src/app/server.py:633)                          *)
SavedWins ==
    phase = "serving" =>
        /\ Readable("upstox", masterKey) => oauth = secrets["upstox"].value
        /\ secrets["upstox"] = Nothing => oauth \in {Environment, Nothing}

(* A login is traded for tokens at most once, however often its callback   *)
(* arrives and whatever else is being handled.                             *)
(* (src/api/routes.py:393, src/api/product_routes.py:1064)                 *)
SingleExchange == \A i \in DOMAIN logins : logins[i].exchanges <= 1
=============================================================================
