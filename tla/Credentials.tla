---------------------------- MODULE Credentials ----------------------------
(***************************************************************************)
(* The encrypted credentials and the logins that use them.  Secrets are    *)
(* rows of the database, encrypted under one key kept in a file beside it. *)
(* Two stores in the process (the server's own and that of the Upstox      *)
(* settings page) each read the file once and keep the key they found.  A  *)
(* key is made when there is none and nothing depends on one, and replaced *)
(* when a save finds the present one unusable.                             *)
(*                                                                         *)
(* A login gives the browser a state; the callback that brings it back is  *)
(* a handler that awaits worker threads and the broker.  The two rows of   *)
(* an app's credentials are always written together, so they are one row   *)
(* here; the Fyers callback reads it twice.                                *)
(***************************************************************************)
EXTENDS Integers, Sequences, FiniteSets, SequencesExt, FiniteSetsExt

CONSTANTS
    Value,        \* app credentials an operator saves
    Plain,        \* those a configuration file still carries in plain text
    Environment,  \* what the environment variables provide, or Nothing
    Nothing,      \* no value, no row
    Handler       \* callbacks being handled

VARIABLES
    masterKey,    \* the key in the file
    made,         \* keys made so far: they are numbered
    secrets,      \* the rows: the key and the value encrypted, or Nothing
    legacy,       \* the configuration carries plain credentials
    cached,       \* per store, the key it keeps
    oauth,        \* the Upstox credentials logins use
    token,        \* the Fyers access token in memory
    logins,       \* the states given out by this process
    callbacks     \* per handler, how far it is

keyVars == <<masterKey, made, cached>>
credentialVars == <<keyVars, secrets, legacy, oauth, token, logins, callbacks>>

Store == {"server", "settings"}
Provider == {"upstox", "fyers"}
Row == {"upstox", "fyers", "pin", "refresh"}
FyersRows == Row \ {"upstox"}

NoKey == 0
Unusable == -1     \* the file holds something that is no key

ASSUME CredentialsAssumption ==
    /\ Nothing \notin Value \cup {Plain}
    /\ Environment \notin Value \cup {Plain}
    /\ Nothing \notin [key : Nat, value : Value \cup {Plain}]

Resting == [pc |-> "idle", login |-> 0]

CredentialsTypeOK ==
    /\ masterKey \in Unusable..made /\ made \in Nat
    /\ \A r \in Row : secrets[r] # Nothing => secrets[r].key \in 1..made
    /\ \A s \in Store : cached[s] \in 0..made
    /\ oauth \in Value \cup {Environment, Nothing}
    /\ token \in BOOLEAN
    /\ \A h \in Handler : callbacks[h].login \in 0..Len(logins)

Sealed(key, value) == [key |-> key, value |-> value]

(* An installation that was in use may have every secret stored under one  *)
(* of two keys it made, and any key file.                                  *)
CredentialsInit(inUse) ==
    /\ \/ /\ masterKey = NoKey /\ made = 0
          /\ secrets = [r \in Row |-> Nothing]
       \/ /\ inUse
          /\ made = 2 /\ masterKey \in Unusable..made
          /\ \E v \in Value : secrets = [r \in Row |-> Sealed(made, IF r \in Provider THEN v ELSE Plain)]
    /\ legacy \in BOOLEAN
    /\ cached = [s \in Store |-> NoKey]
    /\ oauth = Nothing /\ token = FALSE
    /\ logins = <<>> /\ callbacks = [h \in Handler |-> Resting]

_ciphertext_exists == \E r \in Row : secrets[r] # Nothing

(* mutants *)
RegeneratesUncached(store, allow_generate) ==
    IF cached[store] # NoKey THEN cached[store] ELSE made + 1

(* The key a store works with: NoKey when the file is of no use and it may *)
(* not be replaced, a new one when it may or when nothing depends on one.  *)
_get_encryption(store, allow_generate) ==
    CASE cached[store] # NoKey -> cached[store]
      [] cached[store] = NoKey /\ masterKey \notin {NoKey, Unusable} -> masterKey
      [] cached[store] = NoKey /\ masterKey = NoKey /\ ~_ciphertext_exists -> made + 1
      [] OTHER -> IF allow_generate THEN made + 1 ELSE NoKey

(* The store keeps the key; a new one is written to the file.              *)
Keeps(store, key) ==
    /\ cached' = [cached EXCEPT ![store] = key]
    /\ made' = Max({made, key})
    /\ masterKey' = IF key > made THEN key ELSE masterKey

Readable(row, key) == secrets[row] # Nothing /\ secrets[row].key = key
Loaded(row, key) == IF Readable(row, key) THEN secrets[row].value ELSE Nothing

(***************************************************************************)
(* Starting the server.                                                    *)
(***************************************************************************)
(* The Fyers credentials are loaded or, when that gives none, moved from   *)
(* the configuration into the store, which counts as a save.               *)
InjectFyersConfig(written) ==
    LET found == Loaded("fyers", _get_encryption("server", FALSE))
        moves == found = Nothing /\ legacy
        key == _get_encryption("server", moves)
    IN /\ written => moves
       /\ Keeps("server", key)
       /\ secrets' = IF written THEN [secrets EXCEPT !["fyers"] = Sealed(key, Plain)] ELSE secrets
       /\ UNCHANGED <<legacy, oauth, token, logins, callbacks>>

(* The saved Upstox credentials win over the environment.                  *)
ConfigureOAuth ==
    LET key == _get_encryption("server", FALSE)
        saved == Loaded("upstox", key)
    IN /\ Keeps("server", key)
       /\ oauth' = IF saved # Nothing THEN saved ELSE Environment
       /\ UNCHANGED <<secrets, legacy, token, logins, callbacks>>

(* Before the sources start, a stored refresh token is traded for an       *)
(* access token.                                                           *)
RestoreToken(accepted) ==
    LET key == _get_encryption("server", FALSE) IN
    /\ accepted => Readable("refresh", key) /\ Readable("fyers", key)
    /\ Keeps("server", key)
    /\ token' = accepted
    /\ UNCHANGED <<secrets, legacy, oauth, logins, callbacks>>

(***************************************************************************)
(* The settings pages.                                                     *)
(***************************************************************************)
(* mutants *)
OAuthOfAnySave(saved, value) == value

OAuthAfter(saved, value) == IF saved THEN value ELSE oauth

(* Saving the Upstox app's credentials; writing the row can fail when the  *)
(* key is already replaced.                                                *)
SaveUpstox(value, saved) ==
    LET key == _get_encryption("settings", TRUE) IN
    /\ Keeps("settings", key)
    /\ secrets' = IF saved THEN [secrets EXCEPT !["upstox"] = Sealed(key, value)] ELSE secrets
    /\ oauth' = OAuthAfter(saved, value)
    /\ UNCHANGED <<legacy, token, logins, callbacks>>

DeleteUpstox ==
    /\ secrets' = [secrets EXCEPT !["upstox"] = Nothing]
    /\ oauth' = Nothing
    /\ UNCHANGED <<keyVars, legacy, token, logins, callbacks>>

(* The Fyers credentials and then, if one was typed, the PIN: each of the  *)
(* two writes can fail.                                                    *)
SaveFyers(value, rows) ==
    LET key == _get_encryption("server", TRUE) IN
    /\ rows \in {{}, {"fyers"}, {"fyers", "pin"}}
    /\ Keeps("server", key)
    /\ secrets' = [r \in Row |-> IF r \in rows
                                 THEN Sealed(key, IF r = "fyers" THEN value ELSE Plain)
                                 ELSE secrets[r]]
    /\ UNCHANGED <<legacy, oauth, token, logins, callbacks>>

DeleteFyers ==
    /\ secrets' = [r \in Row |-> IF r \in FyersRows THEN Nothing ELSE secrets[r]]
    /\ UNCHANGED <<keyVars, legacy, oauth, token, logins, callbacks>>

(* A status page looks whether the stored secrets can be read.             *)
ReadStatus(store) ==
    /\ store = "settings" => _ciphertext_exists
    /\ Keeps(store, _get_encryption(store, FALSE))
    /\ UNCHANGED <<secrets, legacy, oauth, token, logins, callbacks>>

(***************************************************************************)
(* Logins.                                                                 *)
(***************************************************************************)
Login(provider) ==
    LET key == _get_encryption("server", FALSE) IN
    /\ \/ provider = "upstox" /\ oauth # Nothing /\ UNCHANGED keyVars
       \/ provider = "fyers" /\ Readable("fyers", key) /\ Keeps("server", key)
    /\ logins' = Append(logins, [provider |-> provider, pending |-> TRUE, exchanges |-> 0])
    /\ UNCHANGED <<secrets, legacy, oauth, token, callbacks>>

(* A state that was not brought back in time is refused and removed.       *)
Expire(login) ==
    /\ logins[login].pending
    /\ logins' = [logins EXCEPT ![login].pending = FALSE]
    /\ UNCHANGED <<keyVars, secrets, legacy, oauth, token, callbacks>>

Reach(handler, label) == callbacks' = [callbacks EXCEPT ![handler].pc = label]
Finish(handler) == callbacks' = [callbacks EXCEPT ![handler] = Resting]

(* Callbacks are alike: a call is handled by any one that is free.         *)
FreeHandler ==
    LET free == {h \in Handler : callbacks[h].pc = "idle"}
    IN IF free = {} THEN {} ELSE {CHOOSE h \in free : TRUE}

(* mutants *)
Unconsumed(login) == logins[login]

Consumed(login) == [logins[login] EXCEPT !.pending = FALSE]

Traded(record) == [record EXCEPT !.exchanges = @ + 1]

(* The callback matches its state and removes it before anything else.     *)
Callback(handler, login) ==
    /\ logins[login].pending
    /\ \/ /\ logins[login].provider = "upstox" /\ oauth # Nothing
          /\ logins' = [logins EXCEPT ![login] = Traded(Consumed(login))]
          /\ callbacks' = [callbacks EXCEPT ![handler] = [pc |-> "trading", login |-> login]]
       \/ /\ logins[login].provider = "fyers"
          /\ logins' = [logins EXCEPT ![login] = Consumed(login)]
          /\ callbacks' = [callbacks EXCEPT ![handler] = [pc |-> "reading", login |-> login]]
    /\ UNCHANGED <<keyVars, secrets, legacy, oauth, token>>

(* The worker thread reads the app id and then, in a transaction of its    *)
(* own, the app secret.                                                    *)
ReadAppId(handler) ==
    LET key == _get_encryption("server", FALSE) IN
    /\ callbacks[handler].pc = "reading"
    /\ Keeps("server", key)
    /\ IF Readable("fyers", key)
       THEN Reach(handler, "reading_secret")
       ELSE Finish(handler)
    /\ UNCHANGED <<secrets, legacy, oauth, token, logins>>

ReadAppSecret(handler) ==
    /\ callbacks[handler].pc = "reading_secret"
    /\ IF Readable("fyers", cached["server"])
       THEN /\ Reach(handler, "trading")
            /\ logins' = [logins EXCEPT ![callbacks[handler].login] = Traded(@)]
       ELSE Finish(handler) /\ UNCHANGED logins
    /\ UNCHANGED <<keyVars, secrets, legacy, oauth, token>>

(* The broker trades the code for tokens, or refuses it.                   *)
Trade(handler, accepted) ==
    /\ callbacks[handler].pc = "trading"
    /\ IF accepted /\ logins[callbacks[handler].login].provider = "fyers"
       THEN Reach(handler, "storing")
       ELSE Finish(handler)
    /\ UNCHANGED <<keyVars, secrets, legacy, oauth, token, logins>>

(* The refresh token is stored; only then is the access token used.        *)
StoreRefreshToken(handler, saved) ==
    LET key == _get_encryption("server", TRUE) IN
    /\ callbacks[handler].pc = "storing"
    /\ Keeps("server", key)
    /\ secrets' = IF saved THEN [secrets EXCEPT !["refresh"] = Sealed(key, Plain)] ELSE secrets
    /\ token' = (token \/ saved)
    /\ Finish(handler)
    /\ UNCHANGED <<legacy, oauth, logins>>

CredentialCall ==
    \/ \E v \in Value, saved \in BOOLEAN : SaveUpstox(v, saved)
    \/ DeleteUpstox
    \/ \E v \in Value, rows \in SUBSET FyersRows : SaveFyers(v, rows)
    \/ DeleteFyers
    \/ \E s \in Store : ReadStatus(s)
    \/ \E p \in Provider : Login(p)

(* A callback may come for any state this process has given out.           *)
CredentialStep ==
    \/ \E login \in DOMAIN logins :
        Expire(login) \/ \E h \in FreeHandler : Callback(h, login)
    \/ \E h \in Handler :
        \/ ReadAppId(h)
        \/ ReadAppSecret(h)
        \/ \E accepted \in BOOLEAN : Trade(h, accepted)
        \/ \E saved \in BOOLEAN : StoreRefreshToken(h, saved)

(***************************************************************************)
(* While the server is down.                                               *)
(***************************************************************************)
(* The process takes what it held in memory with it.                       *)
ForgetMemory ==
    /\ cached' = [s \in Store |-> NoKey]
    /\ oauth' = Nothing /\ token' = FALSE
    /\ logins' = <<>> /\ callbacks' = [h \in Handler |-> Resting]
    /\ UNCHANGED <<masterKey, made, secrets, legacy>>

(* The key file is lost, damaged, or put back from a backup.               *)
KeyFileChanges ==
    /\ masterKey' \in (Unusable..made) \ {masterKey}
    /\ UNCHANGED <<made, cached, secrets, legacy, oauth, token, logins, callbacks>>
=============================================================================
