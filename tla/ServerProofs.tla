----------------------------- MODULE ServerProofs -----------------------------
(***************************************************************************)
(* Proofs about the server over its database and key file, for any number  *)
(* of handlers, lists, segments and concurrent requests, and with kills    *)
(* and key file changes anywhere: what the schema, the keys, the logins,   *)
(* the watchlists and the catalog promise holds of the composed system.    *)
(***************************************************************************)
EXTENDS Server, FiniteSetTheorems, SequenceTheorems, WellFoundedInduction, TLAPS

-----------------------------------------------------------------------------
(* Extremes of finite sets. *)

\* A nonempty finite set of integers has a greatest element: one above which the
\* set is smallest.
LEMMA FiniteMaximum ==
    ASSUME NEW S \in SUBSET Int, S # {}, IsFiniteSet(S)
    PROVE  \E m \in S : \A s \in S : s <= m
<1> DEFINE From(x) == {s \in S : s >= x}
           above == {From(x) : x \in S}
<1>1. above \subseteq FiniteSubsetsOf(S) /\ above # {}
  <2>1. \A x \in S : From(x) \subseteq S
    OBVIOUS
  <2> HIDE DEF From
  <2>2. \A x \in S : IsFiniteSet(From(x))
    BY <2>1, FS_Subset
  <2> QED BY <2>1, <2>2 DEF FiniteSubsetsOf
<1>2. PICK least \in above : \A b \in above : <<b, least>> \notin StrictSubsetOrdering(S)
  <2> HIDE DEF above
  <2> QED BY <1>1, FS_StrictSubsetOrderingWellFounded, WFMin
<1>3. PICK m \in S : least = From(m)
  OBVIOUS
<1>4. ASSUME NEW s \in S PROVE s <= m
  <2> SUFFICES ASSUME m < s PROVE FALSE
    OBVIOUS
  <2>1. From(s) \subseteq From(m) /\ m \in From(m) /\ m \notin From(s)
    <3>1. m \in Int /\ s \in Int /\ m >= m /\ ~(m >= s)
      OBVIOUS
    <3>2. \A t \in S : t >= s => t >= m
      BY <3>1
    <3> QED BY <3>1, <3>2
  <2>2. From(s) \in above /\ From(s) \subseteq S /\ From(m) \subseteq S
    OBVIOUS
  <2> HIDE DEF From, above
  <2>3. <<From(s), From(m)>> \in StrictSubsetOrdering(S)
    BY <2>1, <2>2 DEF StrictSubsetOrdering
  <2> QED BY <1>2, <1>3, <2>2, <2>3
<1> QED BY <1>4

\* The greatest of two numbers, as made' and the first row ids are computed.
LEMMA MaxOfTwo ==
    ASSUME NEW a \in Int, NEW b \in Int
    PROVE  Max({a, b}) = IF b > a THEN b ELSE a
BY DEF Max

-----------------------------------------------------------------------------
(* Keys and secrets. *)

Rows == {Nothing} \cup [key : 1..made, value : Value \cup {Plain}]

\* No store keeps a key other than the one in the file, as long as the server runs.
KeyInv ==
    /\ made \in Nat /\ masterKey \in Unusable..made
    /\ secrets \in [Row -> Rows]
    /\ cached \in [Store -> Nat]
    /\ \A s \in Store : cached[s] # NoKey => cached[s] = masterKey

\* A step works with the key one store finds, and what it writes is sealed with it;
\* only a step that may make a key writes.
Works(store, may) ==
    LET key == _get_encryption(store, may) IN
    /\ Keeps(store, key)
    /\ secrets' = [r \in Row |-> secrets'[r]]
    /\ \A r \in Row :
          \/ secrets'[r] = secrets[r]
          \/ may /\ \E v \in Value \cup {Plain} : secrets'[r] = Sealed(key, v)

Forgets ==
    /\ UNCHANGED keyVars
    /\ secrets' = [r \in Row |-> secrets'[r]]
    /\ \A r \in Row : secrets'[r] \in {secrets[r], Nothing}

\* What is readable stays so unless it is deleted, and what is written is readable.
NoOrphanedRow ==
    \A r \in Row :
        /\ Readable(r, masterKey) /\ secrets'[r] # Nothing => Readable(r, masterKey)'
        /\ secrets'[r] \notin {Nothing, secrets[r]} => Readable(r, masterKey)'

\* A key is made only when the file holds none that works, and then no store keeps
\* one and nothing stored can be read.
LEMMA KeyFound ==
    ASSUME KeyInv, NEW store \in Store, NEW may \in BOOLEAN
    PROVE  LET key == _get_encryption(store, may) IN
           /\ key \in {NoKey, masterKey, made + 1}
           /\ key = NoKey => ~may /\ cached[store] = NoKey
           /\ key = masterKey \/ masterKey \in {NoKey, Unusable}
BY DEF KeyInv, _get_encryption, NoKey, Unusable

\* A step that works with a key keeps the stores in agreement with the file and
\* orphans no row; a row it leaves alone is not readable after it unless it was before.
LEMMA WorksKeeps ==
    ASSUME KeyInv, NEW store \in Store, NEW may \in BOOLEAN, Works(store, may)
    PROVE  /\ KeyInv' /\ NoOrphanedRow
           /\ \A r \in Row : secrets'[r] = secrets[r] /\ Readable(r, masterKey)'
                                 => Readable(r, masterKey)
<1> DEFINE key == _get_encryption(store, may)
<1>1. /\ key \in {NoKey, masterKey, made + 1}
      /\ key = NoKey => ~may /\ cached[store] = NoKey
      /\ key = masterKey \/ masterKey \in {NoKey, Unusable}
  BY KeyFound
<1>2. /\ cached' = [cached EXCEPT ![store] = key]
      /\ made' = Max({made, key})
      /\ masterKey' = IF key > made THEN key ELSE masterKey
      /\ secrets' = [r \in Row |-> secrets'[r]]
      /\ \A r \in Row :
            \/ secrets'[r] = secrets[r]
            \/ may /\ \E v \in Value \cup {Plain} : secrets'[r] = Sealed(key, v)
  BY DEF Works, Keeps
<1>3. key \in Nat
  BY <1>1 DEF KeyInv, _get_encryption, NoKey, Unusable
<1> HIDE DEF key
<1>4. made \in Nat /\ masterKey \in Int /\ masterKey >= -1 /\ masterKey <= made
  BY DEF KeyInv, Unusable
<1>5. made' \in Nat /\ made' >= made /\ made' >= key
  BY <1>2, <1>3, <1>4, MaxOfTwo
<1>6. \/ key = made + 1 /\ masterKey' = key /\ masterKey \in {NoKey, Unusable}
      \/ key \in {NoKey, masterKey} /\ masterKey' = masterKey
  BY <1>1, <1>2, <1>4 DEF NoKey, Unusable
<1>7. masterKey' \in Unusable..made'
  BY <1>4, <1>5, <1>6 DEF Unusable
<1>8. \A s \in Store : cached'[s] # NoKey => cached'[s] = masterKey'
  BY <1>2, <1>4, <1>6 DEF KeyInv, NoKey, Unusable
<1>9. secrets' \in [Row -> Rows']
  <2>1. \A r \in Row : secrets[r] \in Rows'
    BY <1>4, <1>5 DEF KeyInv, Rows
  <2>2. \A v \in Value \cup {Plain} : may => Sealed(key, v) \in Rows'
    BY <1>1, <1>3, <1>5 DEF Rows, Sealed, NoKey
  <2> QED
    BY <1>2, <2>1, <2>2
<1>10. KeyInv'
  BY <1>2, <1>3, <1>5, <1>7, <1>8, <1>9 DEF KeyInv
<1>11. ASSUME NEW r \in Row, secrets'[r] = secrets[r]
       PROVE  Readable(r, masterKey)' <=> Readable(r, masterKey)
  <2>1. secrets[r] # Nothing => secrets[r].key \in 1..made
    BY DEF KeyInv, Rows
  <2>2. secrets[r] # Nothing => (secrets[r].key = masterKey' <=> secrets[r].key = masterKey)
    BY <2>1, <1>4, <1>6 DEF NoKey, Unusable
  <2> QED
    BY <1>11, <2>2 DEF Readable
<1>12. ASSUME NEW r \in Row, secrets'[r] # secrets[r]
       PROVE  Readable(r, masterKey)'
  <2>1. PICK v \in Value \cup {Plain} : may /\ secrets'[r] = Sealed(key, v)
    BY <1>2, <1>12
  <2>2. key # NoKey /\ masterKey' = key
    BY <1>1, <1>6, <2>1
  <2>3. secrets'[r] # Nothing /\ secrets'[r].key = key
    BY <1>3, <2>1, CredentialsAssumption DEF Sealed
  <2> QED
    BY <2>2, <2>3 DEF Readable
<1> QED
  BY <1>10, <1>11, <1>12 DEF NoOrphanedRow

\* Deleting rows does the same: it leaves the keys alone.
LEMMA ForgetsKeeps ==
    ASSUME KeyInv, Forgets
    PROVE  /\ KeyInv' /\ NoOrphanedRow
           /\ \A r \in Row : secrets'[r] = secrets[r] /\ Readable(r, masterKey)'
                                 => Readable(r, masterKey)
<1>1. secrets' \in [Row -> Rows]
  BY DEF Forgets, KeyInv, Rows
<1> QED
  BY <1>1 DEF Forgets, KeyInv, Rows, keyVars, NoOrphanedRow, Readable

\* Each of the server's operations on credentials works with a key or forgets rows.
LEMMA CredentialOperations ==
    ASSUME KeyInv,
           \/ \E written \in BOOLEAN : InjectFyersConfig(written)
           \/ ConfigureOAuth \/ \E accepted \in BOOLEAN : RestoreToken(accepted)
           \/ CredentialCall \/ CredentialStep \/ UNCHANGED <<keyVars, secrets>>
    PROVE  (\E store \in Store, may \in BOOLEAN : Works(store, may)) \/ Forgets
<1>1. /\ secrets = [r \in Row |-> secrets[r]]
      /\ "server" \in Store /\ "settings" \in Store
  BY DEF KeyInv, Store
<1>2. ASSUME NEW written \in BOOLEAN, InjectFyersConfig(written)
      PROVE  \E may \in BOOLEAN : Works("server", may)
  <2> DEFINE moves == Loaded("fyers", _get_encryption("server", FALSE)) = Nothing /\ legacy
             may == IF moves THEN TRUE ELSE FALSE
             key == _get_encryption("server", may)
  <2>1. /\ written => may = TRUE
        /\ Keeps("server", key)
        /\ secrets' = IF written THEN [secrets EXCEPT !["fyers"] = Sealed(key, Plain)] ELSE secrets
    BY <1>2 DEF InjectFyersConfig, _get_encryption
  <2> HIDE DEF moves
  <2>2. Works("server", may)
    BY <1>1, <2>1 DEF Works
  <2> QED
    BY <2>2
<1>3. CASE ConfigureOAuth \/ \E accepted \in BOOLEAN : RestoreToken(accepted)
  <2>1. Works("server", FALSE)
    BY <1>1, <1>3 DEF ConfigureOAuth, RestoreToken, Works
  <2> QED
    BY <1>1, <2>1
<1>4. ASSUME NEW v \in Value, NEW saved \in BOOLEAN, SaveUpstox(v, saved)
      PROVE  Works("settings", TRUE)
  BY <1>1, <1>4 DEF SaveUpstox, Works
<1>5. ASSUME NEW v \in Value, NEW rows \in SUBSET FyersRows, SaveFyers(v, rows)
      PROVE  Works("server", TRUE)
  BY <1>1, <1>5 DEF SaveFyers, Works
<1>6. CASE DeleteUpstox \/ DeleteFyers
  BY <1>1, <1>6 DEF DeleteUpstox, DeleteFyers, Forgets
<1>7. ASSUME NEW s \in Store, ReadStatus(s)
      PROVE  Works(s, FALSE)
  BY <1>1, <1>7 DEF ReadStatus, Works
<1>8. ASSUME NEW p \in Provider, Login(p)
      PROVE  Works("server", FALSE) \/ Forgets
  BY <1>1, <1>8 DEF Login, Works, Forgets
<1>9. ASSUME NEW h \in Handler, NEW saved \in BOOLEAN, StoreRefreshToken(h, saved)
      PROVE  Works("server", TRUE)
  BY <1>1, <1>9 DEF StoreRefreshToken, Works
<1>10. ASSUME NEW h \in Handler, ReadAppId(h)
       PROVE  Works("server", FALSE)
  BY <1>1, <1>10 DEF ReadAppId, Works
<1>11. ASSUME UNCHANGED <<keyVars, secrets>>
       PROVE  Forgets
  BY <1>1, <1>11 DEF Forgets
<1>12. CASE CredentialCall
  BY <1>1, <1>4, <1>5, <1>6, <1>7, <1>8, <1>12 DEF CredentialCall
<1>13. CASE CredentialStep
  <2>1. ASSUME NEW l \in DOMAIN logins, Expire(l) \/ \E h \in FreeHandler : Callback(h, l)
        PROVE  Forgets
    BY <1>11, <2>1 DEF Expire, Callback
  <2>2. ASSUME NEW h \in Handler, ReadAppSecret(h) \/ \E accepted \in BOOLEAN : Trade(h, accepted)
        PROVE  Forgets
    BY <1>11, <2>2 DEF ReadAppSecret, Trade
  <2> QED
    BY <1>1, <1>9, <1>10, <1>13, <2>1, <2>2 DEF CredentialStep
<1> QED
  BY <1>1, <1>2, <1>3, <1>11, <1>12, <1>13

\* What logins use agrees with what is saved.
SavedInUse ==
    /\ Readable("upstox", masterKey) => oauth = secrets["upstox"].value
    /\ secrets["upstox"] = Nothing => oauth \in {Environment, Nothing}

\* At a start the saved credentials are used if they can be read, and else those of
\* the environment.
LEMMA ConfigureUsesSaved ==
    ASSUME KeyInv, ConfigureOAuth
    PROVE  SavedInUse'
<1> DEFINE key == _get_encryption("server", FALSE)
           saved == Loaded("upstox", key)
<1>1. /\ secrets' = secrets
      /\ oauth' = IF saved # Nothing THEN saved ELSE Environment
      /\ "upstox" \in Row /\ "server" \in Store
  BY DEF ConfigureOAuth, Row, Store
<1>2. Works("server", FALSE)
  BY <1>1 DEF ConfigureOAuth, Works, KeyInv
<1>3. Readable("upstox", masterKey)' => Readable("upstox", masterKey)
  BY <1>1, <1>2, WorksKeeps
<1>4. ASSUME Readable("upstox", masterKey)
      PROVE  saved = secrets["upstox"].value /\ saved # Nothing
  <2>1. masterKey \notin {NoKey, Unusable}
    BY <1>1, <1>4 DEF KeyInv, Rows, Readable, NoKey, Unusable
  <2>2. key = masterKey
    BY <2>1, <1>1, KeyFound
  <2>3. secrets["upstox"].value \in Value \cup {Plain}
    BY <1>1, <1>4 DEF KeyInv, Rows, Readable
  <2> QED
    BY <1>4, <2>2, <2>3, CredentialsAssumption DEF Loaded
<1>5. secrets["upstox"] = Nothing => saved = Nothing
  BY DEF Loaded, Readable
<1> QED
  BY <1>1, <1>3, <1>4, <1>5 DEF SavedInUse

\* Only saving and deleting the Upstox credentials changes what logins use, and they
\* change it to what is saved then.
LEMMA SavedStaysInUse ==
    ASSUME KeyInv, SavedInUse,
           \/ \E accepted \in BOOLEAN : RestoreToken(accepted)
           \/ CredentialCall \/ CredentialStep \/ UNCHANGED credentialVars
    PROVE  SavedInUse'
<1>1. "upstox" \in Row
  BY DEF Row
<1>2. ASSUME NEW v \in Value, NEW saved \in BOOLEAN, SaveUpstox(v, saved)
      PROVE  SavedInUse'
  <2>1. KeyInv /\ Works("settings", TRUE) /\ "settings" \in Store
    BY <1>2 DEF SaveUpstox, Works, KeyInv, Store
  <2>2. CASE saved
    <3> DEFINE key == _get_encryption("settings", TRUE)
    <3>1. secrets'["upstox"] = Sealed(key, v) /\ oauth' = v
      BY <1>1, <1>2, <2>2 DEF SaveUpstox, OAuthAfter, KeyInv
    <3>2. key \in Nat
      BY <2>1 DEF KeyInv, _get_encryption, NoKey, Unusable
    <3> HIDE DEF key
    <3>3. secrets'["upstox"] # Nothing /\ secrets'["upstox"].value = v
      BY <3>1, <3>2, CredentialsAssumption DEF Sealed
    <3> QED
      BY <3>1, <3>3 DEF SavedInUse
  <2>3. CASE ~saved
    <3>1. secrets' = secrets /\ oauth' = oauth
      BY <1>2, <2>3 DEF SaveUpstox, OAuthAfter
    <3>2. Readable("upstox", masterKey)' => Readable("upstox", masterKey)
      BY <1>1, <2>1, <3>1, WorksKeeps
    <3> QED
      BY <3>1, <3>2 DEF SavedInUse
  <2> QED
    BY <2>2, <2>3
<1>3. CASE DeleteUpstox
  BY <1>1, <1>3 DEF DeleteUpstox, SavedInUse, Readable, KeyInv
<1>4. ASSUME secrets'["upstox"] = secrets["upstox"], oauth' = oauth
      PROVE  SavedInUse'
  <2>1. (\E store \in Store, may \in BOOLEAN : Works(store, may)) \/ Forgets
    BY CredentialOperations DEF credentialVars
  <2>2. Readable("upstox", masterKey)' => Readable("upstox", masterKey)
    BY <1>1, <1>4, <2>1, WorksKeeps, ForgetsKeeps
  <2> QED
    BY <1>4, <2>2 DEF SavedInUse
<1>5. CASE CredentialCall
  <2>1. ASSUME NEW v \in Value, NEW rows \in SUBSET FyersRows, SaveFyers(v, rows)
        PROVE  secrets'["upstox"] = secrets["upstox"] /\ oauth' = oauth
    BY <1>1, <2>1 DEF SaveFyers, FyersRows
  <2>2. CASE DeleteFyers
    BY <1>1, <1>4, <2>2 DEF DeleteFyers, FyersRows
  <2>3. ASSUME \/ \E store \in Store : ReadStatus(store)
               \/ \E p \in Provider : Login(p)
        PROVE  secrets' = secrets /\ oauth' = oauth
    BY <2>3 DEF ReadStatus, Login
  <2> QED
    BY <1>2, <1>3, <1>4, <1>5, <2>1, <2>2, <2>3 DEF CredentialCall
<1>6. CASE CredentialStep
  <2>1. ASSUME NEW h \in Handler, NEW saved \in BOOLEAN, StoreRefreshToken(h, saved)
        PROVE  secrets'["upstox"] = secrets["upstox"] /\ oauth' = oauth
    BY <2>1 DEF StoreRefreshToken, KeyInv
  <2>2. ASSUME \/ \E l \in DOMAIN logins : Expire(l) \/ \E h \in FreeHandler : Callback(h, l)
               \/ \E h \in Handler : ReadAppId(h) \/ ReadAppSecret(h)
                                       \/ \E accepted \in BOOLEAN : Trade(h, accepted)
        PROVE  secrets' = secrets /\ oauth' = oauth
    BY <2>2 DEF Expire, Callback, ReadAppId, ReadAppSecret, Trade
  <2> QED
    BY <1>4, <1>6, <2>1, <2>2 DEF CredentialStep
<1>7. CASE \E accepted \in BOOLEAN : RestoreToken(accepted)
  BY <1>4, <1>7 DEF RestoreToken
<1>8. CASE UNCHANGED credentialVars
  BY <1>4, <1>8 DEF credentialVars
<1> QED
  BY <1>5, <1>6, <1>7, <1>8

-----------------------------------------------------------------------------
(* Logins. *)

LoginRow == [provider : Provider, pending : BOOLEAN, exchanges : Nat]
Label == {"idle", "reading", "reading_secret", "trading", "storing"}

LoginTypeOK ==
    /\ logins \in Seq(LoginRow)
    /\ callbacks \in [Handler -> [pc : Label, login : 0..Len(logins)]]

\* The handler has taken the login's state and not asked the broker yet.
Reads(h, i) == callbacks[h].login = i /\ callbacks[h].pc \in {"reading", "reading_secret"}

\* A login is still to be traded by its pending state or by one handler that took
\* it, never by both or by two.
OneTrade(i) ==
    /\ logins[i].exchanges <= 1
    /\ logins[i].pending => logins[i].exchanges = 0 /\ \A h \in Handler : ~Reads(h, i)
    /\ \A h \in Handler : Reads(h, i) =>
          logins[i].exchanges = 0 /\ \A g \in Handler : Reads(g, i) => g = h

LoginInv == LoginTypeOK /\ \A i \in DOMAIN logins : OneTrade(i)

\* What trading a login changes in its row.
LEMMA TradedRow ==
    ASSUME NEW row \in LoginRow
    PROVE  /\ Traded(row) \in LoginRow
           /\ Traded(row).pending = row.pending
           /\ Traded(row).exchanges = row.exchanges + 1
<1>1. Traded(row) \in LoginRow
  BY DEF LoginRow, Traded
<1>2. Traded(row).pending = row.pending
  BY DEF LoginRow, Traded
<1>3. Traded(row).exchanges = row.exchanges + 1
  BY DEF LoginRow, Traded
<1> QED
  BY <1>1, <1>2, <1>3

\* What taking a login's state changes in its row.
LEMMA ConsumedRow ==
    ASSUME NEW i, logins[i] \in LoginRow
    PROVE  /\ Consumed(i) \in LoginRow
           /\ ~Consumed(i).pending
           /\ Consumed(i).exchanges = logins[i].exchanges
<1>1. Consumed(i) \in LoginRow
  BY DEF LoginRow, Consumed
<1>2. ~Consumed(i).pending
  BY DEF LoginRow, Consumed
<1>3. Consumed(i).exchanges = logins[i].exchanges
  BY DEF LoginRow, Consumed
<1> QED
  BY <1>1, <1>2, <1>3

\* A step that gives out no state and takes none, and lets no handler begin to read.
LEMMA LoginsUntouched ==
    ASSUME LoginInv, logins' = logins,
           callbacks' \in [Handler -> [pc : Label, login : 0..Len(logins)]],
           \A h \in Handler, i \in DOMAIN logins : Reads(h, i)' => Reads(h, i)
    PROVE  LoginInv'
BY DEF LoginInv, LoginTypeOK, OneTrade

\* A callback takes the pending state before anything else, so no other can.
LEMMA CallbackKeeps ==
    ASSUME LoginInv, NEW h \in Handler, NEW i \in DOMAIN logins, Callback(h, i)
    PROVE  LoginInv'
<1> USE DEF LoginInv, LoginTypeOK
<1>1. logins[i] \in LoginRow /\ logins[i].pending /\ logins[i].exchanges = 0
      /\ \A g \in Handler : ~Reads(g, i)
  BY DEF Callback, OneTrade
<1>2. PICK row \in LoginRow, pc \in {"trading", "reading"} :
         /\ ~row.pending
         /\ row.exchanges = IF pc = "trading" THEN 1 ELSE 0
         /\ logins' = [logins EXCEPT ![i] = row]
         /\ callbacks' = [callbacks EXCEPT ![h] = [pc |-> pc, login |-> i]]
  <2>1. /\ Consumed(i) \in LoginRow /\ ~Consumed(i).pending /\ Consumed(i).exchanges = 0
        /\ Traded(Consumed(i)) \in LoginRow
        /\ ~Traded(Consumed(i)).pending /\ Traded(Consumed(i)).exchanges = 1
    BY <1>1, ConsumedRow, TradedRow
  <2>2. \/ /\ logins' = [logins EXCEPT ![i] = Traded(Consumed(i))]
           /\ callbacks' = [callbacks EXCEPT ![h] = [pc |-> "trading", login |-> i]]
        \/ /\ logins' = [logins EXCEPT ![i] = Consumed(i)]
           /\ callbacks' = [callbacks EXCEPT ![h] = [pc |-> "reading", login |-> i]]
    BY DEF Callback
  <2> QED
    BY <2>1, <2>2
<1>3. /\ logins' \in Seq(LoginRow) /\ Len(logins') = Len(logins) /\ DOMAIN logins' = DOMAIN logins
      /\ logins'[i] = row /\ \A j \in DOMAIN logins : j # i => logins'[j] = logins[j]
  BY <1>2
<1>4. i \in 0..Len(logins)
  OBVIOUS
<1>5. /\ callbacks' \in [Handler -> [pc : Label, login : 0..Len(logins')]]
      /\ callbacks'[h] = [pc |-> pc, login |-> i]
      /\ \A g \in Handler : g # h => callbacks'[g] = callbacks[g]
  BY <1>2, <1>3, <1>4 DEF Label
<1>6. \A g \in Handler : Reads(g, i)' => g = h /\ pc = "reading"
  BY <1>1, <1>5 DEF Reads
<1>7. OneTrade(i)'
  BY <1>2, <1>3, <1>6 DEF OneTrade
<1>8. ASSUME NEW j \in DOMAIN logins, j # i
      PROVE  OneTrade(j)'
  <2>1. \A g \in Handler : Reads(g, j)' => Reads(g, j)
    BY <1>5, <1>8 DEF Reads
  <2> QED
    BY <1>3, <1>8, <2>1 DEF OneTrade
<1> QED
  BY <1>3, <1>5, <1>7, <1>8

\* The handler that read the app's secret is the one that took the login's state, so
\* it is the first to trade it.
LEMMA ReadAppSecretKeeps ==
    ASSUME LoginInv, NEW h \in Handler, ReadAppSecret(h)
    PROVE  LoginInv'
<1> USE DEF LoginInv, LoginTypeOK
<1>1. PICK i \in 0..Len(logins) : callbacks[h].login = i /\ callbacks[h].pc = "reading_secret"
  BY DEF ReadAppSecret
<1>2. CASE /\ Reach(h, "trading")
           /\ logins' = [logins EXCEPT ![callbacks[h].login] = Traded(@)]
  <2>1. /\ callbacks' \in [Handler -> [pc : Label, login : 0..Len(logins)]]
        /\ callbacks'[h].pc = "trading"
        /\ \A g \in Handler : g # h => callbacks'[g] = callbacks[g]
    BY <1>2 DEF Reach, Label
  <2>2. \A g \in Handler, j \in DOMAIN logins : Reads(g, j)' => Reads(g, j) /\ g # h
    BY <2>1 DEF Reads
  <2>3. CASE i \notin DOMAIN logins
    <3>1. logins' = logins
      BY <1>1, <1>2, <2>3
    <3> QED
      BY <2>1, <2>2, <3>1, LoginsUntouched
  <2>4. CASE i \in DOMAIN logins
    <3>1. Reads(h, i) /\ logins[i] \in LoginRow
      BY <1>1, <2>4 DEF Reads
    <3>2. logins[i].exchanges = 0 /\ ~logins[i].pending
      BY <2>4, <3>1 DEF OneTrade
    <3>3. PICK row \in LoginRow :
             logins' = [logins EXCEPT ![i] = row] /\ ~row.pending /\ row.exchanges = 1
      <4>1. /\ Traded(logins[i]) \in LoginRow /\ ~Traded(logins[i]).pending
            /\ Traded(logins[i]).exchanges = 1
        BY <3>1, <3>2, TradedRow
      <4>2. logins' = [logins EXCEPT ![i] = Traded(logins[i])]
        BY <1>1, <1>2, <2>4
      <4> QED
        BY <4>1, <4>2
    <3>4. /\ logins' \in Seq(LoginRow) /\ Len(logins') = Len(logins) /\ DOMAIN logins' = DOMAIN logins
          /\ logins'[i] = row /\ \A j \in DOMAIN logins : j # i => logins'[j] = logins[j]
      BY <2>4, <3>3
    <3>5. \A g \in Handler : ~Reads(g, i)'
      BY <2>2, <2>4, <3>1 DEF OneTrade
    <3>6. OneTrade(i)'
      BY <3>3, <3>4, <3>5 DEF OneTrade
    <3>7. \A j \in DOMAIN logins : j # i => OneTrade(j)'
      BY <2>2, <3>4 DEF OneTrade
    <3> QED
      BY <2>1, <3>4, <3>6, <3>7
  <2> QED
    BY <2>3, <2>4
<1>3. CASE Finish(h) /\ UNCHANGED logins
  <2>1. /\ callbacks' \in [Handler -> [pc : Label, login : 0..Len(logins)]]
        /\ callbacks'[h].pc = "idle"
        /\ \A g \in Handler : g # h => callbacks'[g] = callbacks[g]
    BY <1>3 DEF Finish, Resting, Label
  <2>2. \A g \in Handler, j \in DOMAIN logins : Reads(g, j)' => Reads(g, j)
    BY <2>1 DEF Reads
  <2> QED
    BY <1>3, <2>1, <2>2, LoginsUntouched
<1> QED
  BY <1>2, <1>3 DEF ReadAppSecret

\* A new state is traded by nobody yet.
LEMMA LoginKeeps ==
    ASSUME LoginInv, NEW p \in Provider, Login(p)
    PROVE  LoginInv'
<1> USE DEF LoginInv, LoginTypeOK
<1>1. PICK row \in LoginRow : logins' = Append(logins, row) /\ row.exchanges = 0
  <2> DEFINE new == [provider |-> p, pending |-> TRUE, exchanges |-> 0]
  <2>1. new \in LoginRow /\ new.exchanges = 0
    BY DEF LoginRow
  <2>2. logins' = Append(logins, new)
    BY DEF Login
  <2> HIDE DEF new
  <2> QED
    BY <2>1, <2>2
<1>2. callbacks' = callbacks
  BY DEF Login
<1>3. PICK n \in Nat : n = Len(logins) + 1
  OBVIOUS
<1>4. /\ logins' \in Seq(LoginRow) /\ Len(logins') = n
      /\ logins'[n] = row
      /\ \A j \in DOMAIN logins : logins'[j] = logins[j]
      /\ DOMAIN logins' = DOMAIN logins \cup {n}
  BY <1>1, <1>3
<1>5. callbacks' \in [Handler -> [pc : Label, login : 0..Len(logins')]]
  BY <1>2, <1>3, <1>4
<1>6. \A h \in Handler : ~Reads(h, n)'
  BY <1>2, <1>3 DEF Reads
<1>7. OneTrade(n)'
  BY <1>1, <1>4, <1>6 DEF OneTrade
<1>8. \A j \in DOMAIN logins : OneTrade(j)'
  BY <1>2, <1>4 DEF OneTrade, Reads
<1> QED
  BY <1>4, <1>5, <1>7, <1>8

\* Every operation on credentials keeps the invariant of the logins.
LEMMA LoginInvStep ==
    ASSUME LoginInv,
           \/ \E written \in BOOLEAN : InjectFyersConfig(written)
           \/ ConfigureOAuth \/ \E accepted \in BOOLEAN : RestoreToken(accepted)
           \/ CredentialCall \/ CredentialStep \/ ForgetMemory \/ KeyFileChanges
           \/ UNCHANGED credentialVars
    PROVE  LoginInv'
<1> USE DEF LoginInv, LoginTypeOK
<1>1. ASSUME UNCHANGED <<logins, callbacks>>
      PROVE  LoginInv'
  BY <1>1, LoginsUntouched DEF Reads
<1>2. CASE \/ \E written \in BOOLEAN : InjectFyersConfig(written)
           \/ ConfigureOAuth \/ \E accepted \in BOOLEAN : RestoreToken(accepted)
           \/ KeyFileChanges \/ UNCHANGED credentialVars
  BY <1>1, <1>2
  DEF InjectFyersConfig, ConfigureOAuth, RestoreToken, KeyFileChanges, credentialVars
<1>3. CASE CredentialCall
  <2>1. ASSUME \/ \E v \in Value, saved \in BOOLEAN : SaveUpstox(v, saved)
               \/ DeleteUpstox
               \/ \E v \in Value, rows \in SUBSET FyersRows : SaveFyers(v, rows)
               \/ DeleteFyers
               \/ \E s \in Store : ReadStatus(s)
        PROVE  UNCHANGED <<logins, callbacks>>
    BY <2>1 DEF SaveUpstox, DeleteUpstox, SaveFyers, DeleteFyers, ReadStatus
  <2> QED
    BY <1>1, <1>3, <2>1, LoginKeeps DEF CredentialCall
<1>4. CASE ForgetMemory
  <2>1. logins' = <<>> /\ callbacks' = [h \in Handler |-> Resting]
    BY <1>4 DEF ForgetMemory
  <2>2. callbacks' \in [Handler -> [pc : Label, login : 0..Len(logins')]]
    BY <2>1 DEF Resting, Label
  <2> QED
    BY <2>1, <2>2
<1>5. ASSUME NEW h \in Handler, NEW pc \in {"idle", "reading_secret", "storing"},
             callbacks[h].pc \in {"reading", "trading", "storing"},
             pc = "reading_secret" => callbacks[h].pc = "reading",
             Reach(h, pc) \/ Finish(h), UNCHANGED logins
      PROVE  LoginInv'
  <2>1. /\ callbacks' \in [Handler -> [pc : Label, login : 0..Len(logins)]]
        /\ \/ callbacks'[h].pc = pc /\ callbacks'[h].login = callbacks[h].login
           \/ callbacks'[h].pc = "idle"
        /\ \A g \in Handler : g # h => callbacks'[g] = callbacks[g]
    BY <1>5 DEF Reach, Finish, Resting, Label
  <2>2. \A g \in Handler, j \in DOMAIN logins : Reads(g, j)' => Reads(g, j)
    BY <1>5, <2>1 DEF Reads
  <2> QED
    BY <1>5, <2>1, <2>2, LoginsUntouched
<1>6. CASE CredentialStep
  <2>1. ASSUME NEW i \in DOMAIN logins, Expire(i)
        PROVE  LoginInv'
    <3>1. logins' = [logins EXCEPT ![i] = Consumed(i)] /\ callbacks' = callbacks
      BY <2>1 DEF Expire, Consumed
    <3>2. PICK row \in LoginRow :
             row = Consumed(i) /\ ~row.pending /\ row.exchanges = logins[i].exchanges
      BY ConsumedRow
    <3>3. /\ logins' \in Seq(LoginRow) /\ Len(logins') = Len(logins) /\ DOMAIN logins' = DOMAIN logins
          /\ logins'[i] = row /\ \A j \in DOMAIN logins : j # i => logins'[j] = logins[j]
      BY <3>1, <3>2
    <3>4. \A j \in DOMAIN logins : OneTrade(j)'
      BY <3>1, <3>2, <3>3 DEF OneTrade, Reads
    <3> QED
      BY <3>1, <3>3, <3>4
  <2>2. ASSUME NEW h \in Handler, ReadAppId(h)
        PROVE  LoginInv'
    BY <1>5, <2>2 DEF ReadAppId
  <2>3. ASSUME NEW h \in Handler, NEW accepted \in BOOLEAN, Trade(h, accepted)
        PROVE  LoginInv'
    BY <1>5, <2>3 DEF Trade
  <2>4. ASSUME NEW h \in Handler, NEW saved \in BOOLEAN, StoreRefreshToken(h, saved)
        PROVE  LoginInv'
    BY <1>5, <2>4 DEF StoreRefreshToken
  <2>5. ASSUME NEW i \in DOMAIN logins, NEW h \in FreeHandler, Callback(h, i)
        PROVE  LoginInv'
    <3>1. h \in Handler
      BY DEF FreeHandler
    <3> QED
      BY <2>5, <3>1, CallbackKeeps
  <2> QED
    BY <1>6, <2>1, <2>2, <2>3, <2>4, <2>5, ReadAppSecretKeeps DEF CredentialStep
<1> QED
  BY <1>2, <1>3, <1>4, <1>6

-----------------------------------------------------------------------------
(* The catalog. *)

\* What a sync has to fetch, has parsed and has left out are the provider's files, and
\* nothing is both parsed and left out.
SyncRow ==
    [broker : Broker \cup {"none"}, fetch : SUBSET (Segment \cup {Whole}),
     parsed : SUBSET (Segment \cup {Whole}), failed : SUBSET (Segment \cup {Whole})]

SyncsCount ==
    /\ syncs \in [Sync -> SyncRow]
    /\ instruments \in [Broker -> SUBSET (Segment \cup {Whole})]
    /\ unfetched \in [Broker -> SUBSET (Segment \cup {Whole})]
    /\ \A s \in Sync :
          syncs[s] # NoSync =>
             /\ syncs[s].broker \in Broker
             /\ syncs[s].fetch \cup syncs[s].parsed \cup syncs[s].failed = Files(syncs[s].broker)
             /\ syncs[s].fetch \cap (syncs[s].parsed \cup syncs[s].failed) = {}
             /\ syncs[s].parsed \cap syncs[s].failed = {}

CatalogInv == SyncsCount /\ CatalogIsWhole

LEMMA FilesOf == \A b \in Broker : Files(b) \subseteq Segment \cup {Whole}
BY DEF Files

\* One sync moves on or ends; the catalog is left alone.
LEMMA SyncMoves ==
    ASSUME CatalogInv, NEW s \in Sync, NEW record, UNCHANGED <<instruments, unfetched>>,
           syncs' = [syncs EXCEPT ![s] = record],
           \/ record = NoSync
           \/ /\ record \in SyncRow
              /\ record.broker \in Broker
              /\ record.fetch \cup record.parsed \cup record.failed = Files(record.broker)
              /\ record.fetch \cap (record.parsed \cup record.failed) = {}
              /\ record.parsed \cap record.failed = {}
              /\ record.broker = "upstox" => record.failed = {}
    PROVE  CatalogInv'
<1>1. NoSync \in SyncRow /\ NoSync.broker # "upstox"
  BY DEF NoSync, SyncRow
<1>2. /\ syncs' \in [Sync -> SyncRow] /\ syncs'[s] = record
      /\ \A t \in Sync : t # s => syncs'[t] = syncs[t]
  BY <1>1 DEF CatalogInv, SyncsCount
<1>3. SyncsCount'
  BY <1>2 DEF CatalogInv, SyncsCount
<1>4. CatalogIsWhole'
  BY <1>1, <1>2 DEF CatalogInv, CatalogIsWhole
<1> QED
  BY <1>3, <1>4 DEF CatalogInv

\* A sync begins, fetches a file or fails to.
LEMMA SyncSteps ==
    ASSUME CatalogInv,
           \/ CatalogCall
           \/ \E s \in Sync : ReplaceFails(s)
           \/ \E s \in Sync : \E f \in NextFile(s) : FetchFile(s, f) \/ FetchFails(s, f)
    PROVE  CatalogInv'
<1>1. ASSUME NEW s \in FreeSync, NEW b \in Broker, BeginSync(s, b)
      PROVE  CatalogInv'
  <2> DEFINE record == [broker |-> b, fetch |-> Files(b), parsed |-> {}, failed |-> {}]
  <2>1. s \in Sync
    BY DEF FreeSync
  <2>2. syncs' = [syncs EXCEPT ![s] = record] /\ UNCHANGED <<instruments, unfetched>>
    BY <1>1 DEF BeginSync
  <2>3. record \in SyncRow
    BY FilesOf DEF SyncRow
  <2> QED
    BY <2>1, <2>2, <2>3, SyncMoves
<1>2. ASSUME NEW s \in Sync, NEW f \in NextFile(s), FetchFile(s, f) \/ FetchFails(s, f)
      PROVE  CatalogInv'
  <2> DEFINE old == syncs[s]
             parsed == [old EXCEPT !.fetch = @ \ {f}, !.parsed = @ \cup {f}]
             failed == [old EXCEPT !.fetch = @ \ {f}, !.failed = @ \cup {f}]
  <2>1. f \in old.fetch
    BY DEF NextFile
  <2>2. old # NoSync
    BY <2>1 DEF NoSync
  <2>3. /\ old \in SyncRow
        /\ old.broker \in Broker
        /\ old.fetch \cup old.parsed \cup old.failed = Files(old.broker)
        /\ old.fetch \cap (old.parsed \cup old.failed) = {}
        /\ old.parsed \cap old.failed = {}
        /\ old.broker = "upstox" => old.failed = {}
        /\ syncs \in [Sync -> SyncRow]
    BY <2>2 DEF CatalogInv, SyncsCount, CatalogIsWhole
  <2>4. UNCHANGED <<instruments, unfetched>>
    BY <1>2 DEF FetchFile, FetchFails, WhileFetching
  <2>5. \/ syncs' = [syncs EXCEPT ![s] = parsed]
        \/ syncs' = [syncs EXCEPT ![s] = failed] /\ old.broker = "fyers"
        \/ syncs' = [syncs EXCEPT ![s] = NoSync]
    BY <1>2, <2>3 DEF FetchFile, FetchFails
  <2> HIDE DEF old
  <2>6. /\ parsed \in SyncRow /\ parsed.broker = old.broker
        /\ parsed.fetch = old.fetch \ {f}
        /\ parsed.parsed = old.parsed \cup {f} /\ parsed.failed = old.failed
        /\ failed \in SyncRow /\ failed.broker = old.broker
        /\ failed.fetch = old.fetch \ {f}
        /\ failed.parsed = old.parsed /\ failed.failed = old.failed \cup {f}
    BY <2>1, <2>3 DEF SyncRow
  <2> HIDE DEF parsed, failed
  <2>7. CASE syncs' = [syncs EXCEPT ![s] = parsed]
    <3>1. /\ parsed.broker \in Broker
          /\ parsed.fetch \cup parsed.parsed \cup parsed.failed = Files(parsed.broker)
          /\ parsed.fetch \cap (parsed.parsed \cup parsed.failed) = {}
          /\ parsed.parsed \cap parsed.failed = {}
          /\ parsed.broker = "upstox" => parsed.failed = {}
      BY <2>1, <2>3, <2>6
    <3> QED
      BY <2>4, <2>6, <2>7, <3>1, SyncMoves
  <2>8. CASE syncs' = [syncs EXCEPT ![s] = failed] /\ old.broker = "fyers"
    <3>1. /\ failed.broker \in Broker
          /\ failed.fetch \cup failed.parsed \cup failed.failed = Files(failed.broker)
          /\ failed.fetch \cap (failed.parsed \cup failed.failed) = {}
          /\ failed.parsed \cap failed.failed = {}
          /\ failed.broker = "upstox" => failed.failed = {}
      BY <2>1, <2>3, <2>6, <2>8
    <3> QED
      BY <2>4, <2>6, <2>8, <3>1, SyncMoves
  <2> QED
    BY <2>4, <2>5, <2>7, <2>8, SyncMoves
<1>3. ASSUME NEW s \in Sync, ReplaceFails(s)
      PROVE  CatalogInv'
  BY <1>3, SyncMoves DEF ReplaceFails
<1> QED
  BY <1>1, <1>2, <1>3 DEF CatalogCall

\* A sync that commits has nothing left to fetch: what it puts there is all but what it
\* left out.
LEMMA ReplaceKeeps ==
    ASSUME CatalogInv, NEW s \in Sync, Replace(s)
    PROVE  CatalogInv'
<1> DEFINE b == syncs[s].broker
<1>1. /\ b \in Broker /\ syncs[s].parsed \cup syncs[s].failed = Files(b)
      /\ syncs[s].parsed \cap syncs[s].failed = {}
  BY DEF Replace, Fetched, CatalogInv, SyncsCount
<1>2. syncs[s].parsed = Files(b) \ syncs[s].failed
  BY <1>1
<1>3. /\ instruments' = [instruments EXCEPT ![b] = syncs[s].parsed]
      /\ unfetched' = [unfetched EXCEPT ![b] = syncs[s].failed]
      /\ syncs' = [syncs EXCEPT ![s] = NoSync]
  BY DEF Replace
<1>4. /\ syncs' \in [Sync -> SyncRow] /\ syncs'[s] = NoSync
      /\ \A t \in Sync : t # s => syncs'[t] = syncs[t]
  <2>1. NoSync \in SyncRow
    BY DEF NoSync, SyncRow
  <2> QED
    BY <1>3, <2>1 DEF CatalogInv, SyncsCount
<1>5. /\ instruments \in [Broker -> SUBSET (Segment \cup {Whole})]
      /\ unfetched \in [Broker -> SUBSET (Segment \cup {Whole})]
      /\ syncs[s].parsed \subseteq Segment \cup {Whole}
      /\ syncs[s].failed \subseteq Segment \cup {Whole}
  BY <1>1, FilesOf DEF CatalogInv, SyncsCount
<1> HIDE DEF b
<1>6. SyncsCount'
  <2>1. /\ instruments' \in [Broker -> SUBSET (Segment \cup {Whole})]
        /\ unfetched' \in [Broker -> SUBSET (Segment \cup {Whole})]
    BY <1>1, <1>3, <1>5
  <2> QED
    BY <1>4, <2>1 DEF CatalogInv, SyncsCount
<1>7. \A c \in Broker : instruments'[c] = Files(c) \ unfetched'[c]
  <2> TAKE c \in Broker
  <2>1. CASE c = b
    BY <1>1, <1>2, <1>3, <1>5, <2>1
  <2>2. CASE c # b
    <3>1. instruments'[c] = instruments[c] /\ unfetched'[c] = unfetched[c]
      BY <1>1, <1>3, <1>5, <2>2
    <3> QED
      BY <3>1 DEF CatalogInv, CatalogIsWhole
  <2> QED
    BY <2>1, <2>2
<1>8. \A t \in Sync : syncs'[t].broker = "upstox" => syncs'[t].failed = {}
  BY <1>4 DEF NoSync, CatalogInv, CatalogIsWhole
<1> QED
  BY <1>6, <1>7, <1>8 DEF CatalogInv, CatalogIsWhole

\* Only the commit of a sync changes what the catalog holds.
LEMMA CatalogStepKeeps ==
    ASSUME CatalogInv,
           CatalogCall \/ CatalogStep \/ ForgetSyncs \/ UNCHANGED catalogVars
    PROVE  CatalogInv'
<1>1. CASE ForgetSyncs
  <2>1. /\ syncs' = [s \in Sync |-> NoSync] /\ UNCHANGED <<instruments, unfetched>>
    BY <1>1 DEF ForgetSyncs
  <2> QED
    BY <2>1 DEF NoSync, SyncRow, CatalogInv, SyncsCount, CatalogIsWhole
<1>2. CASE UNCHANGED catalogVars
  BY <1>2 DEF catalogVars, CatalogInv, SyncsCount, CatalogIsWhole
<1> QED
  BY <1>1, <1>2, SyncSteps, ReplaceKeeps DEF CatalogStep

-----------------------------------------------------------------------------
(* The watchlists. *)

ListRow == [id : Nat \ {0}, name : Name]
ItemRow == [id : Nat \ {0}, list : Nat \ {0}, instrument : Instrument]

RequestRow ==
    [pc : {"idle", "subscribing", "deleting", "counting", "scanning", "unsubscribing",
           "importing", "creating"},
     item : Nat, list : Nat, instruments : SUBSET Instrument, names : SUBSET Name,
     lists : SUBSET Nat, refs : Nat, before : SUBSET ItemRow]

TablesOK ==
    /\ watchlists \subseteq ListRow /\ items \subseteq ItemRow
    /\ IsFiniteSet(items)
    /\ lastList \in Nat /\ lastItem \in Nat
    /\ WatchlistsTypeOK

\* A request that counts references has found some, or has no reference to the
\* instrument but in the lists it has still to look at; when it has looked at all
\* and found none, there is none.
CountsTruly(r) ==
    LET record == requests[r]
        referring == {i \in items \cap record.before : i.instrument \in record.instruments}
    IN  /\ record \in RequestRow
        /\ Ids(record.before) \subseteq 1..lastItem
        /\ record.pc = "scanning" =>
              /\ record.lists # {}
              /\ \A i \in referring : i.list \in record.lists \/ record.refs > 0
        /\ record.pc = "unsubscribing" => referring = {}

WatchInv ==
    /\ TablesOK
    /\ requests = [r \in Request |-> requests[r]]
    /\ \A r \in Request : CountsTruly(r)

\* What a step may do to the items while a request counts: rows go, and new ones get
\* ids that were never given.
ItemsAgeOnly ==
    /\ lastItem' >= lastItem
    /\ \A i \in items' : i \in items \/ i.id > lastItem

\* Whatever happens to the tables meanwhile, a count that does not move stays true.
LEMMA OtherCounts ==
    ASSUME WatchInv, TablesOK', ItemsAgeOnly, NEW r \in Request, requests'[r] = requests[r]
    PROVE  CountsTruly(r)'
<1>1. CountsTruly(r) /\ lastItem \in Nat /\ lastItem' \in Nat
  BY DEF WatchInv, TablesOK
<1>2. \A i \in requests[r].before : i.id <= lastItem /\ i.id \in Nat
  BY <1>1 DEF CountsTruly, Ids, RequestRow, ItemRow
<1>3. items' \cap requests[r].before \subseteq items \cap requests[r].before
  BY <1>1, <1>2 DEF ItemsAgeOnly
<1>4. Ids(requests[r].before) \subseteq 1..lastItem'
  BY <1>1, <1>2 DEF ItemsAgeOnly, CountsTruly, Ids
<1> QED
  BY <1>1, <1>3, <1>4 DEF CountsTruly

\* The step of one request, its own count being true after it.
LEMMA RequestMoves ==
    ASSUME WatchInv, TablesOK', ItemsAgeOnly, NEW r \in Request, NEW record,
           Becomes(r, record), CountsTruly(r)'
    PROVE  WatchInv'
<1>1. requests' = [q \in Request |-> requests'[q]]
      /\ \A q \in Request : q # r => requests'[q] = requests[q]
  BY DEF Becomes, WatchInv
<1> QED
  BY <1>1, OtherCounts DEF WatchInv

\* A request that is not at the count has none to be true.
LEMMA NotCounting ==
    ASSUME WatchInv, NEW r \in Request, NEW record \in RequestRow, Becomes(r, record),
           record.pc \notin {"scanning", "unsubscribing"}, record.before = {} \/ record.before = requests[r].before,
           lastItem' \in Nat, lastItem' >= lastItem
    PROVE  CountsTruly(r)'
<1>1. requests'[r] = record
  BY DEF Becomes, WatchInv
<1>2. Ids(record.before) \subseteq 1..lastItem'
  <2>1. Ids(requests[r].before) \subseteq 1..lastItem /\ lastItem \in Nat
    BY DEF WatchInv, CountsTruly, TablesOK
  <2>2. Ids({}) = {}
    BY DEF Ids
  <2>3. \A n \in 1..lastItem : n \in 1..lastItem'
    BY <2>1
  <2> QED
    BY <2>1, <2>2, <2>3
<1> QED
  BY <1>1, <1>2 DEF CountsTruly

\* Rows deleted from the tables, with no item left in a list that goes.
LEMMA RowsGo ==
    ASSUME TablesOK, watchlists' \subseteq watchlists, items' \subseteq items,
           UNCHANGED <<lastList, lastItem>>, subscribed' \subseteq Tokens(Instrument),
           \A i \in items' : i.list \in Ids(watchlists')
    PROVE  TablesOK' /\ ItemsAgeOnly
<1> USE DEF TablesOK, WatchlistsTypeOK
<1>1. IsFiniteSet(items')
  BY FS_Subset
<1>2. Ids(watchlists') \subseteq 1..lastList' /\ Ids(items') \subseteq 1..lastItem'
  BY DEF Ids
<1>3. ItemsAgeOnly
  BY DEF ItemsAgeOnly
<1> QED
  BY <1>1, <1>2, <1>3

\* A list created with a new id, or renamed, under a name that no list has.
LEMMA ListNamed ==
    ASSUME TablesOK, NEW name \in Name, NameFree(name), NEW kept \in SUBSET watchlists,
           NEW id \in Nat \ {0}, lastList' \in Nat, lastList' >= lastList, id <= lastList',
           \A l \in kept : l.id # id,
           watchlists' = kept \cup {List(id, name)},
           UNCHANGED <<items, lastItem, subscribed>>,
           \A i \in items : i.list \in Ids(kept) \cup {id}
    PROVE  TablesOK' /\ ItemsAgeOnly
<1> USE DEF TablesOK, WatchlistsTypeOK
<1> DEFINE new == List(id, name)
<1>1. new \in ListRow /\ new.id = id /\ new.name = name
  BY DEF List, ListRow
<1>0. watchlists' = kept \cup {new}
  OBVIOUS
<1> HIDE DEF new
<1>2. Ids(watchlists') = Ids(kept) \cup {id}
  BY <1>0, <1>1 DEF Ids
<1>3. Ids(kept) \subseteq 1..lastList'
  <2>1. \A l \in kept : l.id \in 1..lastList
    BY DEF Ids
  <2> QED
    BY <2>1 DEF Ids
<1>11. id \in 1..lastList'
  OBVIOUS
<1>4. \A l \in kept : l.id # new.id /\ l.name # new.name
  BY <1>1 DEF NameFree
<1>5. \A l, m \in watchlists' : l.id = m.id \/ l.name = m.name => l = m
  BY <1>0, <1>4
<1>6. watchlists' \subseteq ListRow
  BY <1>0, <1>1
<1>7. ItemsAgeOnly
  BY DEF ItemsAgeOnly
<1>8. Ids(watchlists') \subseteq 1..lastList'
  BY <1>2, <1>3, <1>11
<1>9. \A i \in items : i.list \in Ids(watchlists')
  BY <1>2
<1>10. WatchlistsTypeOK'
  BY <1>5, <1>8, <1>9
<1> QED
  BY <1>6, <1>7, <1>10

\* An item inserted with a new id, where the table admits it.
LEMMA ItemInserted ==
    ASSUME TablesOK, NEW list, NEW instrument \in Instrument, Insert(list, instrument),
           UNCHANGED <<watchlists, lastList, subscribed>>
    PROVE  TablesOK' /\ ItemsAgeOnly
<1> USE DEF TablesOK, WatchlistsTypeOK
<1>1. CASE ~CanInsert(list, instrument)
  BY <1>1 DEF Insert, ItemsAgeOnly
<1>2. CASE CanInsert(list, instrument)
  <2> DEFINE new == Item(lastItem + 1, list, instrument)
  <2>1. list \in Ids(watchlists)
        /\ \A i \in items : ~(i.list = list /\ i.instrument = instrument)
    BY <1>2 DEF CanInsert
  <2>2. list \in Nat \ {0} /\ lastItem + 1 \in Nat \ {0}
    BY <2>1 DEF Ids, ListRow
  <2>3. /\ new \in ItemRow /\ new.id = lastItem + 1
        /\ new.list = list /\ new.instrument = instrument
    BY <2>2 DEF Item, ItemRow
  <2>4. lastItem' = lastItem + 1 /\ items' = items \cup {new}
    BY <1>2 DEF Insert
  <2> HIDE DEF new
  <2>5. IsFiniteSet(items')
    BY <2>4, FS_AddElement
  <2>6. \A i \in items : i.id \in 1..lastItem
    BY DEF Ids
  <2>7. Ids(items') \subseteq 1..lastItem'
    BY <2>3, <2>4, <2>6 DEF Ids
  <2>8. \A i \in items : i.id # new.id /\ ~(i.list = new.list /\ i.instrument = new.instrument)
    BY <2>1, <2>3, <2>6
  <2>9. \A i, j \in items' :
          i.id = j.id \/ (i.list = j.list /\ i.instrument = j.instrument) => i = j
    BY <2>4, <2>8
  <2>10. \A i \in items' : i.list \in Ids(watchlists)
    BY <2>1, <2>3, <2>4
  <2>11. items' \subseteq ItemRow
    BY <2>3, <2>4
  <2>12. ItemsAgeOnly
    BY <2>3, <2>4 DEF ItemsAgeOnly
  <2>13. Ids(watchlists') \subseteq 1..lastList' /\ lastList' \in Nat /\ lastItem' \in Nat
    BY <2>4
  <2>14. watchlists' \subseteq ListRow /\ subscribed' \subseteq Tokens(Instrument)
    OBVIOUS
  <2>15. WatchlistsTypeOK'
    BY <2>7, <2>9, <2>10, <2>13, <2>14
  <2> QED
    BY <2>5, <2>11, <2>12, <2>13, <2>14, <2>15
<1> QED
  BY <1>1, <1>2

\* What the feed is told leaves the rows alone.
LEMMA SubscriptionsMove ==
    ASSUME TablesOK, subscribed' \subseteq Tokens(Instrument),
           UNCHANGED <<watchlists, items, lastList, lastItem>>
    PROVE  TablesOK' /\ ItemsAgeOnly
BY DEF TablesOK, WatchlistsTypeOK, ItemsAgeOnly

\* When no request moves, every count stays true.
LEMMA RequestsStay ==
    ASSUME WatchInv, TablesOK', ItemsAgeOnly, requests' = requests
    PROVE  WatchInv'
BY OtherCounts DEF WatchInv

\* Lists come, change their name and go, the items of a list with it.
LEMMA ListsKeep ==
    ASSUME WatchInv,
           \/ \E n \in Name : CreateWatchlist(n)
           \/ \E l \in watchlists, n \in Name : RenameWatchlist(l, n)
           \/ \E l \in watchlists : DeleteWatchlist(l)
    PROVE  WatchInv'
<1>1. /\ TablesOK /\ lastList \in Nat /\ \A i \in items : i.list \in Ids(watchlists)
      /\ \A l \in watchlists : l.id \in Nat \ {0} /\ l.id <= lastList
      /\ \A l, m \in watchlists : l.id = m.id => l = m
  BY DEF WatchInv, TablesOK, WatchlistsTypeOK, Ids, ListRow
<1>2. ASSUME NEW n \in Name, CreateWatchlist(n)
      PROVE  WatchInv'
  <2>1. TablesOK' /\ ItemsAgeOnly
    <3>1. lastList + 1 \in Nat \ {0} /\ lastList' = lastList + 1
          /\ \A l \in watchlists : l.id # lastList + 1
      BY <1>1, <1>2 DEF CreateWatchlist
    <3> QED
      BY <1>1, <1>2, <3>1, ListNamed DEF CreateWatchlist
  <2> QED
    BY <1>2, <2>1, RequestsStay DEF CreateWatchlist
<1>3. ASSUME NEW l \in watchlists, NEW n \in Name, RenameWatchlist(l, n)
      PROVE  WatchInv'
  <2>1. TablesOK' /\ ItemsAgeOnly
    <3> DEFINE kept == watchlists \ {l}
    <3>1. /\ \A m \in kept : m.id # l.id
          /\ \A i \in items : i.list \in Ids(kept) \cup {l.id}
      BY <1>1 DEF Ids
    <3>2. kept \in SUBSET watchlists /\ l.id \in Nat \ {0} /\ l.id <= lastList
      BY <1>1
    <3>3. watchlists' = kept \cup {List(l.id, n)} /\ NameFree(n)
          /\ UNCHANGED <<items, lastList, lastItem, subscribed>>
      BY <1>3 DEF RenameWatchlist
    <3> HIDE DEF kept
    <3> QED
      BY <1>1, <3>1, <3>2, <3>3, ListNamed
  <2> QED
    BY <1>3, <2>1, RequestsStay DEF RenameWatchlist
<1>4. ASSUME NEW l \in watchlists, DeleteWatchlist(l)
      PROVE  WatchInv'
  <2>1. \A i \in items' : i.list \in Ids(watchlists')
    BY <1>1, <1>4 DEF DeleteWatchlist, Ids
  <2>2. TablesOK' /\ ItemsAgeOnly
    BY <1>1, <1>4, <2>1, RowsGo DEF DeleteWatchlist, TablesOK, WatchlistsTypeOK
  <2> QED
    BY <1>4, <2>2, RequestsStay DEF DeleteWatchlist
<1> QED
  BY <1>2, <1>3, <1>4

\* The row a request ends as.
LEMMA WaitingRow ==
    Waiting \in RequestRow /\ Waiting.pc = "idle" /\ Waiting.before = {}
<1>1. Waiting \in RequestRow
  BY DEF Waiting, RequestRow
<1>2. Waiting.pc = "idle"
  BY DEF Waiting
<1>3. Waiting.before = {}
  BY DEF Waiting
<1> QED
  BY <1>1, <1>2, <1>3

\* The rows one begins as: with an item added, an item to delete, a list to fill, or a
\* list to create.
LEMMA BegunRow ==
    ASSUME NEW some \in SUBSET Instrument, NEW record,
           \/ record = [Waiting EXCEPT !.pc = "subscribing", !.instruments = some]
           \/ \E item \in Nat :
                record = [Waiting EXCEPT !.pc = "deleting", !.item = item, !.instruments = some]
           \/ \E list \in Nat :
                record = [Waiting EXCEPT !.pc = "importing", !.list = list, !.instruments = some]
           \/ \E names \in SUBSET Name :
                record = [Waiting EXCEPT !.pc = "creating", !.names = names, !.instruments = some]
    PROVE  /\ record \in RequestRow /\ record.before = {}
           /\ record.pc \notin {"scanning", "unsubscribing"}
<1>1. record \in RequestRow
  BY WaitingRow DEF RequestRow
<1>2. record.before = {}
  BY WaitingRow DEF RequestRow
<1>3. record.pc \notin {"scanning", "unsubscribing"}
  BY WaitingRow DEF RequestRow
<1> QED
  BY <1>1, <1>2, <1>3

\* A request that ends, or that moves before or after the count.
LEMMA Uncounted ==
    ASSUME WatchInv, TablesOK', ItemsAgeOnly, NEW r \in Request, NEW record \in RequestRow,
           Becomes(r, record), record.pc \notin {"scanning", "unsubscribing"},
           record.before = {} \/ record.before = requests[r].before
    PROVE  WatchInv'
<1>1. lastItem' \in Nat /\ lastItem' >= lastItem
  BY DEF TablesOK, ItemsAgeOnly
<1> QED
  BY <1>1, NotCounting, RequestMoves

\* The decision taken of a true count is true.
LEMMA Decided ==
    ASSUME NEW r \in Request, NEW record \in RequestRow, requests'[r] = Decision(record),
           record.pc = "scanning", Ids(record.before) \subseteq 1..lastItem',
           \A i \in items' \cap record.before :
              i.instrument \in record.instruments => i.list \in record.lists \/ record.refs > 0
    PROVE  CountsTruly(r)'
<1>1. CASE record.lists # {}
  BY <1>1 DEF Decision, CountsTruly
<1>2. CASE record.lists = {} /\ record.refs = 0
  <2> DEFINE told == [record EXCEPT !.pc = "unsubscribing"]
  <2>1. told \in RequestRow /\ told.pc = "unsubscribing" /\ told.before = record.before
        /\ told.instruments = record.instruments
    BY DEF RequestRow
  <2>2. requests'[r] = told
    BY <1>2 DEF Decision
  <2> HIDE DEF told
  <2> QED
    BY <1>2, <2>1, <2>2 DEF CountsTruly
<1>3. CASE record.lists = {} /\ record.refs # 0
  <2>1. requests'[r] = Waiting /\ Ids(Waiting.before) = {}
    BY <1>3, WaitingRow DEF Decision, Ids
  <2> QED
    BY <2>1, WaitingRow DEF CountsTruly
<1> QED
  BY <1>1, <1>2, <1>3

\* One list counted: a reference in it counts, one in another is still to be found.
LEMMA CountListKeeps ==
    ASSUME WatchInv, NEW r \in Request, CountList(r)
    PROVE  WatchInv'
<1> DEFINE list == Min(requests[r].lists)
           found == {i \in items : i.list = list /\ i.instrument \in requests[r].instruments}
           record == [requests[r] EXCEPT !.lists = @ \ {list}, !.refs = @ + Cardinality(found)]
<1>1. TablesOK /\ CountsTruly(r) /\ requests[r] \in RequestRow /\ requests[r].pc = "scanning"
  BY DEF WatchInv, CountsTruly, CountList
<1>2. TablesOK' /\ ItemsAgeOnly
  BY <1>1, SubscriptionsMove DEF CountList, TablesOK, WatchlistsTypeOK
<1>3. Becomes(r, Decision(record)) /\ items' = items /\ lastItem' = lastItem
  BY DEF CountList
<1>4. requests'[r] = Decision(record)
  BY <1>3 DEF Becomes, WatchInv
<1>5. /\ Cardinality(found) \in Nat
      /\ \A i \in items : i \in found => Cardinality(found) > 0
  <2>1. IsFiniteSet(found)
    BY <1>1, FS_Subset DEF TablesOK
  <2> HIDE DEF found
  <2> QED
    BY <2>1, FS_CardinalityType, FS_EmptySet
<1>6. PICK references \in Nat : references = Cardinality(found)
  BY <1>5
<1>7. /\ record \in RequestRow /\ record.pc = "scanning"
      /\ record.before = requests[r].before /\ record.instruments = requests[r].instruments
      /\ record.lists = requests[r].lists \ {list}
      /\ record.refs = requests[r].refs + references
  <2> HIDE DEF found, list
  <2>1. record = [requests[r] EXCEPT !.lists = requests[r].lists \ {list},
                                     !.refs = requests[r].refs + references]
    BY <1>6
  <2>2. requests[r].refs + references \in Nat /\ requests[r].lists \ {list} \in SUBSET Nat
    BY <1>1 DEF RequestRow
  <2> HIDE DEF record
  <2>3. record \in RequestRow
    BY <1>1, <2>1, <2>2 DEF RequestRow
  <2>4. /\ record.pc = "scanning" /\ record.before = requests[r].before
        /\ record.instruments = requests[r].instruments
    BY <1>1, <2>1 DEF RequestRow
  <2>5. record.lists = requests[r].lists \ {list} /\ record.refs = requests[r].refs + references
    BY <1>1, <2>1 DEF RequestRow
  <2> QED
    BY <2>3, <2>4, <2>5
<1>8. Ids(record.before) \subseteq 1..lastItem'
  BY <1>1, <1>3, <1>7 DEF CountsTruly
<1>9. ASSUME NEW i \in items' \cap record.before, i.instrument \in record.instruments
      PROVE  i.list \in record.lists \/ record.refs > 0
  <2>1. requests[r].refs \in Nat
    BY <1>1 DEF RequestRow
  <2>2. i \in items /\ i \in requests[r].before /\ i.instrument \in requests[r].instruments
    BY <1>3, <1>7, <1>9
  <2>3. i.list \in requests[r].lists \/ requests[r].refs > 0
    BY <1>1, <2>2 DEF CountsTruly
  <2>4. i.list = list => references > 0
    BY <1>5, <1>6, <2>2
  <2> HIDE DEF list, record
  <2> QED
    BY <1>7, <2>1, <2>3, <2>4
<1> HIDE DEF record
<1>10. CountsTruly(r)'
  BY <1>4, <1>7, <1>8, <1>9, Decided
<1> QED
  BY <1>2, <1>3, <1>10, RequestMoves

\* The count begins with every list there is: with none, there are no items.
LEMMA BeginCountKeeps ==
    ASSUME WatchInv, NEW r \in Request, BeginCount(r)
    PROVE  WatchInv'
<1> DEFINE record == [requests[r] EXCEPT !.pc = "scanning", !.lists = Counted, !.before = items]
<1>1. TablesOK /\ requests[r] \in RequestRow
  BY DEF WatchInv, CountsTruly
<1>2. TablesOK' /\ ItemsAgeOnly
  BY <1>1, SubscriptionsMove DEF BeginCount, TablesOK, WatchlistsTypeOK
<1>3. Becomes(r, Decision(record)) /\ items' = items /\ lastItem' = lastItem
  BY DEF BeginCount
<1>4. requests'[r] = Decision(record)
  BY <1>3 DEF Becomes, WatchInv
<1>5. Ids(watchlists) \in SUBSET Nat /\ items \in SUBSET ItemRow
  BY <1>1 DEF TablesOK, ListRow, Ids
<1>6. /\ record \in RequestRow /\ record.pc = "scanning"
      /\ record.before = items /\ record.lists = Ids(watchlists)
  BY <1>1, <1>5 DEF RequestRow, Counted
<1>7. /\ Ids(record.before) \subseteq 1..lastItem'
      /\ \A i \in items' \cap record.before : i.list \in record.lists
  BY <1>1, <1>3, <1>6 DEF TablesOK, WatchlistsTypeOK
<1> HIDE DEF record
<1>8. CountsTruly(r)'
  BY <1>4, <1>6, <1>7, Decided
<1> QED
  BY <1>2, <1>3, <1>8, RequestMoves

\* An item deleted, or refused: the request goes on to count, or ends.
LEMMA DeleteItemKeeps ==
    ASSUME WatchInv, NEW r \in Request, DeleteItem(r)
    PROVE  WatchInv'
<1> DEFINE record == [requests[r] EXCEPT !.pc = "counting"]
<1>1. TablesOK /\ requests[r] \in RequestRow
  BY DEF WatchInv, CountsTruly
<1>2. TablesOK' /\ ItemsAgeOnly
  <2>1. /\ items' \subseteq items /\ subscribed' \subseteq Tokens(Instrument)
        /\ UNCHANGED <<watchlists, lastList, lastItem>>
        /\ \A i \in items' : i.list \in Ids(watchlists')
    BY <1>1 DEF DeleteItem, TablesOK, WatchlistsTypeOK
  <2> QED
    BY <1>1, <2>1, RowsGo
<1>3. record \in RequestRow /\ record.pc = "counting" /\ record.before = requests[r].before
  BY <1>1 DEF RequestRow
<1>4. Becomes(r, record) \/ Becomes(r, Waiting)
  BY DEF DeleteItem, Answers
<1> HIDE DEF record
<1> QED
  BY <1>2, <1>3, <1>4, Uncounted, WaitingRow

\* The feed told, in either direction, the request ends.
LEMMA FeedToldKeeps ==
    ASSUME WatchInv, NEW r \in Request, NEW done \in BOOLEAN,
           Subscribe(r, done) \/ Unsubscribe(r, done)
    PROVE  WatchInv'
<1>1. TablesOK /\ requests[r].instruments \subseteq Instrument /\ subscribed \subseteq Tokens(Instrument)
  BY DEF WatchInv, CountsTruly, RequestRow, TablesOK, WatchlistsTypeOK
<1>2. Tokens(requests[r].instruments) \subseteq Tokens(Instrument)
  BY <1>1 DEF Tokens
<1>3. TablesOK' /\ ItemsAgeOnly
  BY <1>1, <1>2, SubscriptionsMove DEF Subscribe, Unsubscribe
<1> QED
  BY <1>3, Uncounted, WaitingRow DEF Subscribe, Unsubscribe, Answers

\* A request that begins.
LEMMA BeginsKeep ==
    ASSUME WatchInv, NEW r \in Request,
           \/ \E l \in Ids(watchlists), i \in Instrument : AddItem(r, l, i)
           \/ \E i \in items : RemoveItem(r, i)
           \/ \E n \in Name, s \in SUBSET Instrument : ImportList(r, n, s)
    PROVE  WatchInv'
<1>1. /\ TablesOK /\ subscribed \subseteq Tokens(Instrument)
      /\ \A i \in items : i.id \in Nat /\ i.instrument \in Instrument
      /\ \A l \in watchlists : l.id \in Nat
  BY DEF WatchInv, TablesOK, WatchlistsTypeOK, ListRow, ItemRow
<1>2. ASSUME UNCHANGED <<watchlists, items, lastList, lastItem, subscribed>>
      PROVE  TablesOK' /\ ItemsAgeOnly
  BY <1>1, <1>2, SubscriptionsMove
<1>3. ASSUME NEW l \in Ids(watchlists), NEW i \in Instrument, AddItem(r, l, i)
      PROVE  WatchInv'
  <2> DEFINE record == [Waiting EXCEPT !.pc = "subscribing", !.instruments = {i}]
  <2>1. TablesOK' /\ ItemsAgeOnly
    BY <1>1, <1>3, ItemInserted DEF AddItem
  <2>2. Becomes(r, record) /\ {i} \in SUBSET Instrument
    BY <1>3 DEF AddItem
  <2>3. /\ record \in RequestRow /\ record.before = {}
        /\ record.pc \notin {"scanning", "unsubscribing"}
    BY <2>2, BegunRow
  <2> HIDE DEF record
  <2> QED
    BY <2>1, <2>2, <2>3, Uncounted
<1>4. ASSUME NEW i \in items, RemoveItem(r, i)
      PROVE  WatchInv'
  <2> DEFINE record == [Waiting EXCEPT !.pc = "deleting", !.item = i.id,
                                       !.instruments = {i.instrument}]
  <2>1. TablesOK' /\ ItemsAgeOnly
    BY <1>2, <1>4 DEF RemoveItem
  <2>2. Becomes(r, record) /\ {i.instrument} \in SUBSET Instrument /\ i.id \in Nat
    BY <1>1, <1>4 DEF RemoveItem
  <2>3. /\ record \in RequestRow /\ record.before = {}
        /\ record.pc \notin {"scanning", "unsubscribing"}
    BY <2>2, BegunRow
  <2> HIDE DEF record
  <2> QED
    BY <2>1, <2>2, <2>3, Uncounted
<1>5. ASSUME NEW n \in Name, NEW s \in SUBSET Instrument, ImportList(r, n, s)
      PROVE  WatchInv'
  <2>1. TablesOK' /\ ItemsAgeOnly
    BY <1>2, <1>5 DEF ImportList
  <2>2. ASSUME NEW l \in watchlists,
               Becomes(r, [Waiting EXCEPT !.pc = "importing", !.list = l.id, !.instruments = s])
        PROVE  WatchInv'
    <3> DEFINE record == [Waiting EXCEPT !.pc = "importing", !.list = l.id, !.instruments = s]
    <3>1. /\ record \in RequestRow /\ record.before = {}
          /\ record.pc \notin {"scanning", "unsubscribing"}
      BY <1>1, BegunRow
    <3>2. Becomes(r, record)
      BY <2>2
    <3> HIDE DEF record
    <3> QED
      BY <2>1, <3>1, <3>2, Uncounted
  <2>3. ASSUME Becomes(r, [Waiting EXCEPT !.pc = "creating", !.names = {n}, !.instruments = s])
        PROVE  WatchInv'
    <3> DEFINE record == [Waiting EXCEPT !.pc = "creating", !.names = {n}, !.instruments = s]
    <3>1. /\ record \in RequestRow /\ record.before = {}
          /\ record.pc \notin {"scanning", "unsubscribing"}
      BY BegunRow
    <3>2. Becomes(r, record)
      BY <2>3
    <3> HIDE DEF record
    <3> QED
      BY <2>1, <3>1, <3>2, Uncounted
  <2> QED
    BY <1>5, <2>2, <2>3 DEF ImportList
<1> QED
  BY <1>3, <1>4, <1>5

\* A list imported: created under a name still free, then filled item by item.
LEMMA ImportKeeps ==
    ASSUME WatchInv, NEW r \in Request,
           (\E n \in Name : ImportCreates(r, n)) \/ ImportItem(r)
    PROVE  WatchInv'
<1>1. TablesOK /\ requests[r] \in RequestRow /\ subscribed \subseteq Tokens(Instrument)
  BY DEF WatchInv, CountsTruly, TablesOK, WatchlistsTypeOK
<1>2. ASSUME TablesOK', ItemsAgeOnly, Answers(r)
      PROVE  WatchInv'
  BY <1>2, Uncounted, WaitingRow DEF Answers
<1>3. ASSUME NEW n \in Name, ImportCreates(r, n)
      PROVE  WatchInv'
  <2>1. CASE NameFree(n)
    <3> DEFINE record == [requests[r] EXCEPT !.pc = "importing", !.list = lastList']
    <3>1. /\ lastList \in Nat /\ lastList + 1 \in Nat \ {0} /\ lastList' = lastList + 1
          /\ watchlists' = watchlists \cup {List(lastList + 1, n)}
          /\ UNCHANGED <<items, lastItem, subscribed>> /\ Becomes(r, record)
      BY <1>1, <1>3, <2>1 DEF ImportCreates, TablesOK
    <3>2. /\ \A l \in watchlists : l.id # lastList + 1
          /\ \A i \in items : i.list \in Ids(watchlists)
      BY <1>1 DEF TablesOK, WatchlistsTypeOK, Ids
    <3>3. TablesOK' /\ ItemsAgeOnly
      BY <1>1, <2>1, <3>1, <3>2, ListNamed
    <3>4. PICK new \in Nat : new = lastList'
      BY <3>1
    <3>5. record = [requests[r] EXCEPT !.pc = "importing", !.list = new]
      BY <3>4
    <3> HIDE DEF record
    <3>6. record \in RequestRow /\ record.pc = "importing" /\ record.before = requests[r].before
      BY <1>1, <3>5 DEF RequestRow
    <3> QED
      BY <3>1, <3>3, <3>6, Uncounted
  <2>2. CASE ~NameFree(n)
    <3>1. TablesOK' /\ ItemsAgeOnly
      BY <1>1, <1>3, <2>2, SubscriptionsMove DEF ImportCreates
    <3> QED
      BY <1>2, <1>3, <2>2, <3>1 DEF ImportCreates
  <2> QED
    BY <2>1, <2>2
<1>4. CASE ImportItem(r)
  <2>1. CASE requests[r].instruments = {} /\ Answers(r) /\ UNCHANGED <<items, lastItem>>
    <3>1. TablesOK' /\ ItemsAgeOnly
      BY <1>1, <1>4, <2>1, SubscriptionsMove DEF ImportItem
    <3> QED
      BY <1>2, <2>1, <3>1
  <2>2. ASSUME NEW i \in requests[r].instruments, Insert(requests[r].list, i),
               Becomes(r, [requests[r] EXCEPT !.instruments = @ \ {i}])
        PROVE  WatchInv'
    <3> DEFINE record == [requests[r] EXCEPT !.instruments = @ \ {i}]
    <3>1. i \in Instrument /\ requests[r].pc = "importing"
      BY <1>1, <1>4 DEF RequestRow, ImportItem
    <3>2. TablesOK' /\ ItemsAgeOnly
      BY <1>1, <1>4, <2>2, <3>1, ItemInserted DEF ImportItem
    <3>3. record \in RequestRow /\ record.pc = "importing" /\ record.before = requests[r].before
      BY <1>1, <3>1 DEF RequestRow
    <3>4. Becomes(r, record)
      BY <2>2
    <3> HIDE DEF record
    <3> QED
      BY <3>2, <3>3, <3>4, Uncounted
  <2> QED
    BY <1>4, <2>1, <2>2 DEF ImportItem
<1> QED
  BY <1>3, <1>4

\* Every step of the watchlists keeps the counts true.
LEMMA WatchInvStep ==
    ASSUME WatchInv,
           WatchlistCall \/ WatchlistStep \/ ForgetRequests \/ UNCHANGED watchlistVars
    PROVE  WatchInv'
<1>1. CASE WatchlistCall
  <2>1. FreeRequest \subseteq Request
    BY DEF FreeRequest
  <2> QED
    BY <1>1, <2>1, ListsKeep, BeginsKeep DEF WatchlistCall
<1>2. CASE WatchlistStep
  BY <1>2, FeedToldKeeps, DeleteItemKeeps, BeginCountKeeps, CountListKeeps, ImportKeeps
  DEF WatchlistStep
<1>3. CASE ForgetRequests
  <2>1. TablesOK' /\ lastItem' = lastItem /\ lastItem \in Nat
    BY <1>3 DEF WatchInv, TablesOK, WatchlistsTypeOK, ForgetRequests
  <2>2. requests' = [r \in Request |-> Waiting] /\ Ids(Waiting.before) = {}
    BY <1>3, WaitingRow DEF ForgetRequests, Ids
  <2>3. \A r \in Request : CountsTruly(r)'
    BY <2>1, <2>2, WaitingRow DEF CountsTruly
  <2> QED
    BY <2>1, <2>2, <2>3 DEF WatchInv
<1>4. CASE UNCHANGED watchlistVars
  <2>1. TablesOK' /\ ItemsAgeOnly
    BY <1>4 DEF WatchInv, TablesOK, WatchlistsTypeOK, watchlistVars, ItemsAgeOnly
  <2> QED
    BY <1>4, <2>1, RequestsStay DEF watchlistVars
<1> QED
  BY <1>1, <1>2, <1>3, <1>4

-----------------------------------------------------------------------------
(* The schema. *)

\* Everything a migration creates or drops.
Object == {"persistent_events", "routing", "consumers", "consumer_topics",
           "consumer_event_state", "consumer_checkpoints", "source_state",
           "source_seen_items", "recent_events", "secrets", "alerts", "instruments",
           "watchlists", "watchlist_items", "market_alerts", "alert_trigger_history",
           "condition_alerts", "condition_runtime_state", "sequence",
           "idx_persistent_events_created_at", "idxCES_ack", "idxCES_consumer",
           "idx_seen_source_seen_at"}

Commits == [drop : SUBSET Object, make : SUBSET Object, plain : BOOLEAN, stamp : Int]

\* The statements only add, these objects among others, and stamp no version.
Adding(list, added) ==
    /\ list \in Seq(Commits)
    /\ \A i \in 1..Len(list) : list[i].drop = {} /\ list[i].stamp = NoStamp
    /\ \A o \in added : \E i \in 1..Len(list) : o \in list[i].make

\* The statements only add, these objects among others, and the last stamps the version.
Leading(list, added, version) ==
    /\ list \in Seq(Commits) /\ Len(list) >= 1
    /\ \A i \in 1..Len(list) : /\ list[i].drop = {}
                               /\ list[i].stamp = IF i = Len(list) THEN version ELSE NoStamp
    /\ \A o \in added : \E i \in 1..Len(list) : o \in list[i].make

\* Two such lists, one after the other, add what either adds.
LEMMA AddingBoth ==
    ASSUME NEW r, NEW s, NEW A, NEW B, Adding(r, A), Adding(s, B)
    PROVE  Adding(r \o s, A \cup B)
<1>1. /\ r \o s \in Seq(Commits) /\ Len(r \o s) = Len(r) + Len(s)
      /\ Len(r) \in Nat /\ Len(s) \in Nat
  BY ConcatProperties, LenProperties DEF Adding
<1>2. \A i \in 1..Len(r) : i \in 1..Len(r \o s) /\ (r \o s)[i] = r[i]
  BY <1>1, ConcatProperties DEF Adding
<1>3. \A i \in 1..Len(s) : Len(r) + i \in 1..Len(r \o s) /\ (r \o s)[Len(r) + i] = s[i]
  <2> TAKE i \in 1..Len(s)
  <2>1. Len(r) + i \in (Len(r)+1) .. (Len(r)+Len(s)) /\ (Len(r) + i) - Len(r) = i
    BY <1>1
  <2>2. (r \o s)[Len(r) + i] = s[(Len(r) + i) - Len(r)]
    BY <1>1, <2>1, ConcatProperties DEF Adding
  <2> QED
    BY <1>1, <2>1, <2>2
<1>4. ASSUME NEW j \in 1..Len(r \o s)
      PROVE  (\E i \in 1..Len(r) : (r \o s)[j] = r[i]) \/ \E i \in 1..Len(s) : (r \o s)[j] = s[i]
  <2>1. CASE j <= Len(r)
    BY <1>1, <1>2, <2>1
  <2>2. CASE j > Len(r)
    <3>1. j - Len(r) \in 1..Len(s) /\ Len(r) + (j - Len(r)) = j
      BY <1>1, <2>2
    <3> QED
      BY <1>3, <3>1
  <2> QED
    BY <1>1, <2>1, <2>2
<1> DEFINE t == r \o s
<1> HIDE DEF t
<1>5. \A i \in 1..Len(t) : t[i].drop = {} /\ t[i].stamp = NoStamp
  BY <1>4 DEF t, Adding
<1>6. \A o \in A \cup B : \E i \in 1..Len(t) : o \in t[i].make
  BY <1>2, <1>3 DEF t, Adding
<1> QED
  BY <1>1, <1>5, <1>6 DEF t, Adding

\* Statements that each create a missing object add the objects named.
LEMMA EnsureAdds ==
    ASSUME NEW names \in Seq(Object)
    PROVE  Adding(Each(Ensure, names), ToSet(names))
<1> DEFINE list == [i \in 1..Len(names) |-> Ensure(names[i])]
<1>1. Each(Ensure, names) = list
  BY DEF Each
<1>2. \A i \in 1..Len(names) : Ensure(names[i]) \in Commits
  BY DEF Ensure, Commit, Commits, NoStamp
<1>3. list \in Seq(Commits) /\ Len(list) = Len(names)
  BY <1>2, LenProperties
<1>4. \A i \in 1..Len(names) : /\ list[i].drop = {} /\ list[i].stamp = NoStamp
                               /\ names[i] \in list[i].make
  BY DEF Ensure, Commit
<1>5. DOMAIN names = 1..Len(names)
  BY LenProperties
<1> HIDE DEF list
<1> QED
  BY <1>1, <1>3, <1>4, <1>5 DEF Adding, ToSet

\* So do statements that each create an object that must not be there.
LEMMA CreateAdds ==
    ASSUME NEW names \in Seq(Object)
    PROVE  Adding(Each(Create, names), ToSet(names))
<1> DEFINE list == [i \in 1..Len(names) |-> Create(names[i])]
<1>1. Each(Create, names) = list
  BY DEF Each
<1>2. \A i \in 1..Len(names) : Create(names[i]) \in Commits
  BY DEF Create, Commit, Commits, NoStamp
<1>3. list \in Seq(Commits) /\ Len(list) = Len(names)
  BY <1>2, LenProperties
<1>4. \A i \in 1..Len(names) : /\ list[i].drop = {} /\ list[i].stamp = NoStamp
                               /\ names[i] \in list[i].make
  BY DEF Create, Commit
<1>5. DOMAIN names = 1..Len(names)
  BY LenProperties
<1> HIDE DEF list
<1> QED
  BY <1>1, <1>3, <1>4, <1>5 DEF Adding, ToSet

\* A list of such statements with the stamp behind it.
LEMMA StampedLast ==
    ASSUME NEW r, NEW A, NEW version \in Int, Adding(r, A)
    PROVE  Leading(r \o <<Stamp(version)>>, A, version)
<1> DEFINE t == Append(r, Stamp(version))
<1>1. Stamp(version) \in Commits /\ Stamp(version).drop = {} /\ Stamp(version).stamp = version
  BY DEF Stamp, Commit, Commits
<1>2. r \o <<Stamp(version)>> = t
  BY DEF Adding
<1>3. /\ t \in Seq(Commits) /\ Len(t) = Len(r) + 1 /\ Len(r) \in Nat
      /\ \A i \in 1..Len(r) : t[i] = r[i]
      /\ t[Len(r) + 1] = Stamp(version)
  BY <1>1, AppendProperties, LenProperties DEF Adding
<1> HIDE DEF t
<1>4. \A i \in 1..Len(t) : i \in 1..Len(r) \/ i = Len(r) + 1
  BY <1>3
<1>5. \A i \in 1..Len(t) : t[i].drop = {} /\ t[i].stamp = IF i = Len(t) THEN version ELSE NoStamp
  BY <1>1, <1>3, <1>4 DEF Adding
<1>6. \A i \in 1..Len(r) : i \in 1..Len(t)
  BY <1>3
<1>7. \A o \in A : \E i \in 1..Len(t) : o \in t[i].make
  BY <1>3, <1>6 DEF Adding
<1>8. Len(t) >= 1
  BY <1>3
<1> QED
  BY <1>2, <1>3, <1>5, <1>7, <1>8 DEF Leading

\* One statement that drops nothing, adds objects and stamps the version.
LEMMA StampedAtOnce ==
    ASSUME NEW tables \in SUBSET Object, NEW version \in Int
    PROVE  Leading(<<Commit({}, tables, TRUE, version)>>, tables, version)
<1>1. Commit({}, tables, TRUE, version) \in Commits
  BY DEF Commit, Commits
<1> QED
  BY <1>1 DEF Leading, Commit

\* A list that adds more adds less.
LEMMA LeadingLess ==
    ASSUME NEW r, NEW A, NEW B \in SUBSET A, NEW version, Leading(r, A, version)
    PROVE  Leading(r, B, version)
BY DEF Leading

\* A later migration adds its tables and stamps its version last.
LEMMA EnsureOne ==
    ASSUME NEW tables \in Seq(Object), NEW version \in Int
    PROVE  Leading(Adds(tables, version), ToSet(tables), version)
BY EnsureAdds, StampedLast DEF Adds

\* The lists of tables name objects.
LEMMA TablesAreNames ==
    /\ AlertTables \in Seq(Object) /\ ProductTables \in Seq(Object)
    /\ HistoryTables \in Seq(Object) /\ ConditionTables \in Seq(Object)
    /\ <<"recent_events">> \in Seq(Object) /\ <<"secrets">> \in Seq(Object)
    /\ <<"idxCES_ack", "idxCES_consumer">> \in Seq(Object)
<1>1. AlertTables \in Seq(Object)
  BY DEF AlertTables, Object
<1>2. ProductTables \in Seq(Object)
  BY DEF ProductTables, Object
<1>3. HistoryTables \in Seq(Object)
  BY DEF HistoryTables, Object
<1>4. ConditionTables \in Seq(Object)
  BY DEF ConditionTables, Object
<1>5. <<"recent_events">> \in Seq(Object)
  BY DEF Object
<1>6. <<"secrets">> \in Seq(Object)
  BY DEF Object
<1>7. <<"idxCES_ack", "idxCES_consumer">> \in Seq(Object)
  BY DEF Object
<1> QED
  BY <1>1, <1>2, <1>3, <1>4, <1>5, <1>6, <1>7

\* What a migration stamps.
Following(version) ==
    CASE version = 0 -> SCHEMA_VERSION [] version \in {1, 2} -> 3 [] OTHER -> version + 1

\* The migrations from version 7 on are of that kind.
LEMMA LaterMigrations ==
    ASSUME migrating \in 7..12
    PROVE  Leading(Statements, Introduced(migrating + 1), migrating + 1)
<1>1. CASE migrating = 7
  BY <1>1, EnsureOne, TablesAreNames DEF Statements, migrate_v7_to_v8, Introduced
<1>2. CASE migrating = 8
  <2> DEFINE tables == <<"recent_events">>
  <2>1. tables \in Seq(Object) /\ ToSet(tables) = {"recent_events"}
    BY DEF ToSet, Object
  <2>2. Statements = Adds(tables, 9) /\ Introduced(migrating + 1) = {"recent_events"}
    BY <1>2 DEF Statements, migrate_v8_to_v9, Introduced
  <2> HIDE DEF tables
  <2>3. Leading(Adds(tables, 9), ToSet(tables), 9) /\ migrating + 1 = 9
    BY <1>2, <2>1, EnsureOne
  <2> QED
    BY <2>1, <2>2, <2>3
<1>3. CASE migrating = 9
  <2> DEFINE tables == <<"secrets">>
  <2>1. tables \in Seq(Object) /\ ToSet(tables) = {"secrets"}
    BY DEF ToSet, Object
  <2>2. Statements = Adds(tables, 10) /\ Introduced(migrating + 1) = {"secrets"}
    BY <1>3 DEF Statements, migrate_v9_to_v10, Introduced
  <2> HIDE DEF tables
  <2>3. Leading(Adds(tables, 10), ToSet(tables), 10) /\ migrating + 1 = 10
    BY <1>3, <2>1, EnsureOne
  <2> QED
    BY <2>1, <2>2, <2>3
<1>4. CASE migrating = 10
  BY <1>4, EnsureOne, TablesAreNames DEF Statements, migrate_v10_to_v11, Introduced
<1>5. CASE migrating = 11
  BY <1>5, EnsureOne, TablesAreNames DEF Statements, migrate_v11_to_v12, Introduced
<1>6. CASE migrating = 12
  BY <1>6, EnsureOne, TablesAreNames DEF Statements, migrate_v12_to_v13, Introduced
<1> QED
  BY <1>1, <1>2, <1>3, <1>4, <1>5, <1>6

\* What two lists of names, one after the other, name.
LEMMA NamesOfBoth ==
    ASSUME NEW r \in Seq(Object), NEW s \in Seq(Object)
    PROVE  r \o s \in Seq(Object) /\ ToSet(r \o s) = ToSet(r) \cup ToSet(s)
<1> DEFINE t == r \o s
<1>1. /\ t \in Seq(Object) /\ Len(t) = Len(r) + Len(s)
      /\ Len(r) \in Nat /\ Len(s) \in Nat
      /\ \A i \in 1..Len(r) + Len(s) : t[i] = IF i <= Len(r) THEN r[i] ELSE s[i - Len(r)]
  BY ConcatProperties, LenProperties
<1>2. DOMAIN t = 1..Len(t) /\ DOMAIN r = 1..Len(r) /\ DOMAIN s = 1..Len(s)
  BY <1>1, LenProperties
<1> HIDE DEF t
<1>3. \A i \in DOMAIN r : i \in DOMAIN t /\ t[i] = r[i]
  BY <1>1, <1>2
<1>4. \A i \in DOMAIN s : Len(r) + i \in DOMAIN t /\ t[Len(r) + i] = s[i]
  <2> TAKE i \in DOMAIN s
  <2>1. /\ Len(r) + i \in 1..Len(r) + Len(s) /\ ~(Len(r) + i <= Len(r))
        /\ (Len(r) + i) - Len(r) = i
    BY <1>1, <1>2
  <2> QED
    BY <1>1, <1>2, <2>1
<1>5. ASSUME NEW i \in DOMAIN t
      PROVE  (\E j \in DOMAIN r : t[i] = r[j]) \/ \E j \in DOMAIN s : t[i] = s[j]
  <2>1. CASE i <= Len(r)
    BY <1>1, <1>2, <2>1
  <2>2. CASE ~(i <= Len(r))
    <3>1. i - Len(r) \in DOMAIN s
      BY <1>1, <1>2, <2>2
    <3> QED
      BY <1>1, <1>2, <2>2, <3>1
  <2> QED
    BY <2>1, <2>2
<1>6. ToSet(t) = ToSet(r) \cup ToSet(s)
  BY <1>3, <1>4, <1>5 DEF ToSet
<1> QED
  BY <1>1, <1>6 DEF t

\* Creating a fresh database adds the tables of every version, the stamp last.
LEMMA FreshDatabase ==
    ASSUME migrating = 0
    PROVE  \A v \in 1..13 : Leading(Statements, Introduced(v), 13)
<1> DEFINE first == <<Commit({}, {"persistent_events", "routing"}, TRUE, NoStamp)>>
           names == <<"consumers", "consumer_topics", "consumer_event_state",
                      "consumer_checkpoints", "idx_persistent_events_created_at", "idxCES_ack",
                      "idxCES_consumer", "source_state", "source_seen_items",
                      "idx_seen_source_seen_at">>
           pair == <<"recent_events", "secrets">>
           others == AlertTables \o pair \o ProductTables \o HistoryTables \o ConditionTables
           named == ToSet(AlertTables) \cup ToSet(pair) \cup ToSet(ProductTables)
                       \cup ToSet(HistoryTables) \cup ToSet(ConditionTables)
<1>1. Adding(first, {"persistent_events", "routing"})
  <2>1. Commit({}, {"persistent_events", "routing"}, TRUE, NoStamp) \in Commits
    BY DEF Commit, Commits, NoStamp, Object
  <2> QED
    BY <2>1 DEF Adding, Commit
<1>2. names \in Seq(Object)
  BY DEF Object
<1>3. {"consumers", "consumer_topics", "consumer_event_state",
       "consumer_checkpoints", "source_state", "source_seen_items"} \subseteq ToSet(names)
  <2>1. /\ names[1] = "consumers" /\ names[2] = "consumer_topics"
        /\ names[3] = "consumer_event_state" /\ names[4] = "consumer_checkpoints"
        /\ names[8] = "source_state" /\ names[9] = "source_seen_items"
        /\ DOMAIN names = 1..10
    OBVIOUS
  <2> HIDE DEF names
  <2> QED
    BY <2>1 DEF ToSet
<1>4. pair \in Seq(Object) /\ ToSet(pair) = {"recent_events", "secrets"}
  BY DEF Object, ToSet
<1>5. Statements = first \o Each(Create, names) \o Each(Ensure, others)
                      \o <<Stamp(SCHEMA_VERSION)>>
  BY migrating = 0 DEF Statements, create_v7_schema
<1> HIDE DEF names, pair
<1>6. others \in Seq(Object) /\ ToSet(others) = named
  <2>1. /\ AlertTables \o pair \in Seq(Object)
        /\ ToSet(AlertTables \o pair) = ToSet(AlertTables) \cup ToSet(pair)
    BY <1>4, TablesAreNames, NamesOfBoth
  <2>2. /\ AlertTables \o pair \o ProductTables \in Seq(Object)
        /\ ToSet(AlertTables \o pair \o ProductTables)
              = ToSet(AlertTables) \cup ToSet(pair) \cup ToSet(ProductTables)
    BY <2>1, TablesAreNames, NamesOfBoth
  <2>3. /\ AlertTables \o pair \o ProductTables \o HistoryTables \in Seq(Object)
        /\ ToSet(AlertTables \o pair \o ProductTables \o HistoryTables)
              = ToSet(AlertTables) \cup ToSet(pair) \cup ToSet(ProductTables)
                  \cup ToSet(HistoryTables)
    BY <2>2, TablesAreNames, NamesOfBoth
  <2> QED
    BY <2>3, TablesAreNames, NamesOfBoth
<1> HIDE DEF others
<1>7. Adding(Each(Create, names), ToSet(names)) /\ Adding(Each(Ensure, others), named)
  <2>1. Adding(Each(Create, names), ToSet(names))
    BY <1>2, CreateAdds
  <2>2. Adding(Each(Ensure, others), ToSet(others))
    BY <1>6, EnsureAdds
  <2> QED
    BY <1>6, <2>1, <2>2
<1> DEFINE creates == Each(Create, names)
           ensures == Each(Ensure, others)
           pieces == {"persistent_events", "routing"}
           added == pieces \cup ToSet(names) \cup named
<1>8. Leading(Statements, added, 13)
  <2> HIDE DEF first, named, creates, ensures, pieces
  <2>1. Adding(first \o creates, pieces \cup ToSet(names))
    BY <1>1, <1>7, AddingBoth DEF creates, pieces
  <2>2. Adding(first \o creates \o ensures, added)
    BY <1>7, <2>1, AddingBoth DEF ensures
  <2>3. Leading(first \o creates \o ensures \o <<Stamp(13)>>, added, 13)
    BY <2>2, StampedLast
  <2>4. Statements = first \o creates \o ensures \o <<Stamp(13)>>
    BY <1>5 DEF creates, ensures, SCHEMA_VERSION
  <2> QED
    BY <2>3, <2>4
<1>9. \A v \in 1..13 : Introduced(v) \subseteq added
  <2>1. {"recent_events"} \subseteq ToSet(pair) /\ {"secrets"} \subseteq ToSet(pair)
    BY <1>4
  <2> HIDE DEF pair
  <2> QED
    BY <1>3, <2>1 DEF Introduced, ConsumerTables
<1> HIDE DEF added
<1> QED
  BY <1>8, <1>9, LeadingLess

\* Each migration that drops nothing and stamps its version last.
LEMMA MostMigrations ==
    ASSUME migrating \in {0, 2} \cup 5..12, NEW v \in 1..Following(migrating), v > migrating
    PROVE  Leading(Statements, Introduced(v), Following(migrating))
<1>1. CASE migrating = 0
  BY <1>1, FreshDatabase DEF Following, SCHEMA_VERSION
<1>2. CASE migrating = 2
  <2> DEFINE names == <<"routing", "consumers", "consumer_topics", "consumer_event_state">>
  <2>1. names \in Seq(Object)
    BY DEF Object
  <2>2. Statements = Each(Ensure, names) \o <<Stamp(3)>>
    BY <1>2 DEF Statements, migrate_v2_to_v3
  <2>3. v = 3 /\ Following(migrating) = 3
    BY <1>2 DEF Following
  <2>4. Introduced(3) = {"routing", "consumers", "consumer_topics", "consumer_event_state"}
    BY DEF Introduced, ConsumerTables
  <2>5. Introduced(3) \subseteq ToSet(names)
    BY <2>4 DEF ToSet
  <2> HIDE DEF names
  <2>6. Leading(Each(Ensure, names) \o <<Stamp(3)>>, ToSet(names), 3)
    BY <2>1, EnsureAdds, StampedLast
  <2> QED
    BY <2>2, <2>3, <2>5, <2>6, LeadingLess
<1>3. CASE migrating = 5
  <2>1. {"source_state"} \in SUBSET Object
    BY DEF Object
  <2>2. Leading(<<Commit({}, {"source_state"}, TRUE, 6)>>, {"source_state"}, 6)
    BY <2>1, StampedAtOnce DEF Commit
  <2>3. Statements = <<Commit({}, {"source_state"}, TRUE, 6)>>
    <3>1. Statements = migrate_v5_to_v6
      BY <1>3 DEF Statements
    <3> QED
      BY <3>1, Zenon DEF migrate_v5_to_v6
  <2>4. v = 6 /\ Following(migrating) = 6 /\ Introduced(6) = {"source_state"}
    BY <1>3 DEF Following, Introduced
  <2> QED
    BY <2>2, <2>3, <2>4
<1>4. CASE migrating = 6
  <2> DEFINE both == {"source_seen_items", "idx_seen_source_seen_at"}
  <2>1. both \in SUBSET Object
    BY DEF Object
  <2>2. Leading(<<Commit({}, both, TRUE, 7)>>, both, 7)
    BY <2>1, StampedAtOnce DEF Commit
  <2>3. Statements = <<Commit({}, both, TRUE, 7)>>
    <3>1. Statements = migrate_v6_to_v7
      BY <1>4 DEF Statements
    <3> QED
      BY <3>1, Zenon DEF migrate_v6_to_v7
  <2>4. v = 7 /\ Following(migrating) = 7 /\ Introduced(7) \subseteq both
    BY <1>4 DEF Following, Introduced
  <2> HIDE DEF both
  <2> QED
    BY <2>2, <2>3, <2>4, LeadingLess
<1>5. CASE migrating \in 7..12
  <2>1. Following(migrating) = migrating + 1
    BY <1>5 DEF Following
  <2>2. v = migrating + 1
    BY <1>5, <2>1
  <2> QED
    BY <1>5, <2>1, <2>2, LaterMigrations
<1> QED
  BY <1>1, <1>2, <1>3, <1>4, <1>5

\* The first real migration drops the tables of events and creates those there are now.
LEMMA FirstMigration ==
    ASSUME migrating = 1
    PROVE  Statements = <<Commit(EventTables, create_v3_schema_partial, TRUE, 3)>>
<1>1. Statements = migrate_v1_to_v3
  BY DEF Statements
<1> QED
  BY <1>1, Zenon DEF migrate_v1_to_v3

\* The one that rebuilds a table drops it and creates it again in one commit.
LEMMA RebuildingMigration ==
    ASSUME migrating = 3
    PROVE  \/ Statements = <<Commit({"sequence", "consumer_event_state"} \cup StateIndexes,
                                    {"consumer_event_state"}, TRUE, 4)>>
           \/ Statements = <<Stamp(4)>>
<1>1. Statements = migrate_v3_to_v4
  BY DEF Statements
<1> QED
  BY <1>1, Zenon DEF migrate_v3_to_v4

\* What only indexes are ensured by.
LEMMA IndexesOnly ==
    /\ EnsureIndexes \in Seq(Commits) /\ Len(EnsureIndexes) = 2
    /\ \A i \in 1..2 : EnsureIndexes[i].drop = {} /\ EnsureIndexes[i].stamp = NoStamp
<1> DEFINE names == <<"idxCES_ack", "idxCES_consumer">>
<1>1. names \in Seq(Object) /\ Len(names) = 2
  BY DEF Object
<1>2. EnsureIndexes = Each(Ensure, names)
  BY DEF EnsureIndexes
<1>3. EnsureIndexes = [i \in 1..Len(names) |-> Ensure(names[i])]
  BY <1>2 DEF Each
<1> HIDE DEF names
<1>4. Adding(EnsureIndexes, ToSet(names))
  BY <1>1, <1>2, EnsureAdds
<1>5. Len(EnsureIndexes) = 2
  BY <1>1, <1>3
<1> QED
  BY <1>4, <1>5 DEF Adding

\* The one that stamps its version first has only indexes left.
LEMMA StampingFirst ==
    ASSUME migrating = 4
    PROVE  /\ Len(Statements) = 3
           /\ Statements[1] = Commit({}, {"consumer_checkpoints"}, TRUE, 5)
           /\ \A i \in 2..3 : Statements[i].drop = {} /\ Statements[i].stamp = NoStamp
<1> DEFINE first == <<Commit({}, {"consumer_checkpoints"}, TRUE, 5)>>
<1>1. Statements = first \o EnsureIndexes
  BY DEF Statements, migrate_v4_to_v5
<1>2. /\ first \in Seq(Commits) /\ Len(first) = 1
      /\ first[1] = Commit({}, {"consumer_checkpoints"}, TRUE, 5)
  <2>1. Commit({}, {"consumer_checkpoints"}, TRUE, 5) \in Commits
    BY DEF Commit, Commits, Object
  <2> QED
    BY <2>1 DEF Commit
<1> HIDE DEF first
<1>3. /\ Len(Statements) = 3
      /\ \A i \in 1..3 : Statements[i] = IF i <= 1 THEN first[i] ELSE EnsureIndexes[i - 1]
  BY <1>1, <1>2, IndexesOnly, ConcatProperties
<1>4. \A i \in 2..3 : i \in 1..3 /\ ~(i <= 1) /\ i - 1 \in 1..2
  OBVIOUS
<1>5. Statements[1] = Commit({}, {"consumer_checkpoints"}, TRUE, 5)
  BY <1>2, <1>3 DEF Commit
<1>6. \A i \in 2..3 : Statements[i].drop = {} /\ Statements[i].stamp = NoStamp
  BY <1>3, <1>4, IndexesOnly
<1> QED
  BY <1>3, <1>5, <1>6

\* What a migration has committed is there; the version is the one it started from,
\* but for the migration that stamps its version first.
SchemaInv ==
    /\ user_version \in 0..13 /\ migrating \in 0..13 /\ at \in Nat \ {0}
    /\ Tables(user_version) \subseteq objects
    /\ user_version = IF migrating = 4 /\ at > 1 THEN 5 ELSE migrating
    /\ migrating # 13 =>
           \A i \in 1..Len(Statements) : i < at => Statements[i].make \subseteq objects

\* The tables of a later version are those of an earlier one and of those between.
LEMMA TablesGrow ==
    ASSUME NEW v \in 0..13, NEW w \in 0..13,
           Tables(v) \subseteq objects',
           \A u \in 1..w : u > v => Introduced(u) \subseteq objects'
    PROVE  Tables(w) \subseteq objects'
<1>1. \A u \in 1..w : u \in 1..v \/ u > v
  OBVIOUS
<1>2. \A u \in 1..v : Introduced(u) \subseteq Tables(v)
  BY DEF Tables
<1>3. \A u \in 1..w : Introduced(u) \subseteq objects'
  BY <1>1, <1>2
<1> QED
  BY <1>3 DEF Tables

\* A commit of a migration that drops nothing and stamps its version last.
LEMMA MostCommits ==
    ASSUME SchemaInv, MigrateStep, migrating \in {0, 2} \cup 5..12
    PROVE  SchemaInv'
<1> DEFINE S == Statements
           m == migrating
           f == Following(migrating)
<1>1. /\ f \in {3} \cup 6..13 /\ f > m /\ m # 13 /\ m # 3 /\ m # 4
      /\ \E v \in 1..f : v > m
  <2>1. m = 0 => f = 13
    BY DEF Following, SCHEMA_VERSION
  <2>2. m = 2 => f = 3
    BY DEF Following
  <2>3. m \in 5..12 => f = m + 1
    BY DEF Following
  <2>4. f \in {3} \cup 6..13 /\ f > m
    BY <2>1, <2>2, <2>3
  <2>5. f \in 1..f
    BY <2>4
  <2> QED
    BY <2>4, <2>5
<1>2. \A v \in 1..f : v > m => Leading(S, Introduced(v), f)
  BY MostMigrations
<1>3. /\ S \in Seq(Commits) /\ Len(S) >= 1 /\ Len(S) \in Nat
      /\ \A i \in 1..Len(S) : /\ S[i].drop = {}
                              /\ S[i].stamp = IF i = Len(S) THEN f ELSE NoStamp
  BY <1>1, <1>2, LenProperties DEF Leading
<1>4. at \in 1..Len(S)
  BY <1>3 DEF SchemaInv, MigrateStep
<1>5. /\ objects' = objects \cup S[at].make
      /\ user_version' = IF S[at].stamp = NoStamp THEN user_version ELSE S[at].stamp
  BY <1>3, <1>4 DEF MigrateStep
<1>6. \A i \in 1..Len(S) : i <= at => S[i].make \subseteq objects'
  <2>1. \A i \in 1..Len(S) : i < at => S[i].make \subseteq objects
    BY <1>1 DEF SchemaInv
  <2> QED
    BY <1>4, <1>5, <2>1
<1>7. Tables(m) \subseteq objects' /\ user_version = m
  BY <1>1, <1>5 DEF SchemaInv
<1> HIDE DEF S, f
<1>8. CASE at < Len(S)
  <2>1. /\ migrating' = m /\ at' = at + 1 /\ user_version' = m
    <3>1. S[at].stamp = NoStamp /\ at # Len(S)
      BY <1>3, <1>4, <1>8
    <3>2. migrating' = m /\ at' = at + 1
      BY <3>1 DEF MigrateStep, S
    <3> QED
      BY <1>5, <1>7, <3>1, <3>2
  <2>2. Statements' = S
    BY <1>1, <2>1 DEF S, Statements
  <2>3. at' \in Nat \ {0} /\ \A i \in 1..Len(S) : i < at' => i <= at
    BY <1>3, <1>4, <2>1
  <2> HIDE DEF m
  <2>4. m \in 0..13
    BY DEF m, SchemaInv
  <2> QED
    BY <1>1, <1>6, <1>7, <2>1, <2>2, <2>3, <2>4 DEF SchemaInv
<1>9. CASE at = Len(S)
  <2>1. user_version' = f
    BY <1>1, <1>3, <1>4, <1>5, <1>9 DEF NoStamp
  <2>2. IF user_version' = SCHEMA_VERSION
        THEN migrating' = SCHEMA_VERSION /\ at' = Len(EnsureIndexes) + 1
        ELSE migrating' = user_version' /\ at' = 1
    BY <1>9 DEF MigrateStep, S
  <2>3. migrating' = f /\ at' \in {1, 3} /\ (f # 13 => at' = 1)
    BY <2>1, <2>2, IndexesOnly DEF SCHEMA_VERSION
  <2>4. \A v \in 1..f : v > m => Introduced(v) \subseteq objects'
    BY <1>2, <1>6, <1>9 DEF Leading
  <2>5. Tables(f) \subseteq objects'
    BY <1>1, <1>7, <2>4, TablesGrow
  <2>6. \A i \in 1..Len(Statements') : ~(i < 1)
    OBVIOUS
  <2> QED
    BY <1>1, <2>1, <2>3, <2>5, <2>6 DEF SchemaInv
<1> QED
  BY <1>3, <1>4, <1>8, <1>9

\* A commit of the others: the tables they drop they create again.
LEMMA OtherCommits ==
    ASSUME SchemaInv, MigrateStep, migrating \in {1, 3, 4, 13}
    PROVE  SchemaInv'
<1>1. CASE migrating = 1
  <2> DEFINE only == Commit(EventTables, create_v3_schema_partial, TRUE, 3)
  <2>1. Statements = <<only>>
    BY <1>1, FirstMigration
  <2> HIDE DEF only
  <2>2. at = 1 /\ Len(Statements) = 1 /\ Statements[at] = only
    BY <2>1 DEF SchemaInv, MigrateStep
  <2>3. only.drop = EventTables /\ only.make = create_v3_schema_partial /\ only.stamp = 3
    BY DEF only, Commit
  <2>4. /\ objects' = (objects \ EventTables) \cup create_v3_schema_partial
        /\ user_version' = 3
    BY <2>2, <2>3 DEF MigrateStep, NoStamp
  <2>5. migrating' = 3 /\ at' = 1
    BY <2>2, <2>4 DEF MigrateStep, SCHEMA_VERSION
  <2>6. Introduced(1) \subseteq objects' /\ Introduced(2) = {} /\ Introduced(3) \subseteq objects'
    BY <2>4 DEF Introduced, create_v3_schema_partial, EventTables, ConsumerTables
  <2>7. Tables(3) \subseteq objects'
    <3>1. \A u \in 1..3 : u = 1 \/ u = 2 \/ u = 3
      OBVIOUS
    <3> QED
      BY <2>6, <3>1 DEF Tables
  <2> QED
    BY <2>4, <2>5, <2>7 DEF SchemaInv
<1>2. CASE migrating = 3
  <2>1. PICK dropped, created :
            /\ Len(Statements) = 1
            /\ Statements[1].drop = dropped /\ Statements[1].make = created
            /\ Statements[1].stamp = 4
            /\ dropped \subseteq {"sequence", "consumer_event_state"} \cup StateIndexes
            /\ "consumer_event_state" \in dropped => "consumer_event_state" \in created
    <3>1. CASE Statements = <<Commit({"sequence", "consumer_event_state"} \cup StateIndexes,
                                    {"consumer_event_state"}, TRUE, 4)>>
      BY <3>1 DEF Commit
    <3>2. CASE Statements = <<Stamp(4)>>
      BY <3>2 DEF Commit, Stamp
    <3> QED
      BY <1>2, <3>1, <3>2, RebuildingMigration
  <2>2. at = 1
    BY <2>1 DEF SchemaInv, MigrateStep
  <2>3. objects' = (objects \ dropped) \cup created /\ user_version' = 4
    BY <2>1, <2>2 DEF MigrateStep, NoStamp
  <2>4. migrating' = 4 /\ at' = 1
    BY <2>1, <2>2, <2>3 DEF MigrateStep, SCHEMA_VERSION
  <2>5. \A u \in 1..4 : Introduced(u) \subseteq Tables(3)
    BY DEF Tables, Introduced
  <2>6. \A u \in 1..4 : Introduced(u) \cap ({"sequence"} \cup StateIndexes) = {}
    BY DEF Introduced, ConsumerTables, StateIndexes
  <2>7. Tables(3) \subseteq objects
    BY <1>2 DEF SchemaInv
  <2>8. Tables(4) \subseteq objects'
    BY <2>1, <2>3, <2>5, <2>6, <2>7 DEF Tables
  <2> QED
    BY <2>3, <2>4, <2>8 DEF SchemaInv
<1>3. CASE migrating = 4
  <2>1. /\ Len(Statements) = 3 /\ at \in 1..3
        /\ Statements[1].drop = {} /\ Statements[1].make = {"consumer_checkpoints"}
        /\ Statements[1].stamp = 5
        /\ \A i \in 2..3 : Statements[i].drop = {} /\ Statements[i].stamp = NoStamp
    <3> DEFINE first == Commit({}, {"consumer_checkpoints"}, TRUE, 5)
    <3>1. first.drop = {} /\ first.make = {"consumer_checkpoints"} /\ first.stamp = 5
      BY DEF Commit
    <3>2. /\ Len(Statements) = 3 /\ Statements[1] = first
          /\ \A i \in 2..3 : Statements[i].drop = {} /\ Statements[i].stamp = NoStamp
      BY <1>3, StampingFirst
    <3>3. at \in Nat \ {0} /\ at <= Len(Statements)
      BY DEF SchemaInv, MigrateStep
    <3> HIDE DEF first
    <3>4. at \in 1..3
      BY <3>2, <3>3
    <3> QED
      BY <3>1, <3>2, <3>4
  <2>2. objects' = objects \cup Statements[at].make
    <3>1. Statements[at].drop = {}
      BY <2>1
    <3> QED
      BY <3>1 DEF MigrateStep
  <2>3. user_version' = 5
    <3>1. CASE at = 1
      BY <2>1, <3>1 DEF MigrateStep, NoStamp
    <3>2. CASE at # 1
      BY <1>3, <2>1, <3>2 DEF MigrateStep, SchemaInv
    <3> QED
      BY <3>1, <3>2
  <2>4. Tables(5) \subseteq objects'
    <3>1. CASE at = 1
      <4>1. Tables(4) \subseteq objects
        BY <1>3, <3>1 DEF SchemaInv
      <4>2. Introduced(5) \subseteq objects'
        BY <2>1, <2>2, <3>1 DEF Introduced
      <4>3. \A u \in 1..5 : u > 4 => u = 5
        OBVIOUS
      <4> QED
        BY <2>2, <4>1, <4>2, <4>3, TablesGrow
    <3>2. CASE at # 1
      BY <1>3, <2>1, <2>2, <3>2 DEF SchemaInv
    <3> QED
      BY <3>1, <3>2
  <2>5. CASE at < 3
    <3>1. migrating' = 4 /\ at' = at + 1
      BY <1>3, <2>1, <2>5 DEF MigrateStep
    <3>2. Statements' = Statements
      BY <1>3, <3>1 DEF Statements
    <3>3. \A i \in 1..Len(Statements) : i < at => Statements[i].make \subseteq objects
      BY <1>3 DEF SchemaInv
    <3>4. at' \in Nat \ {0} /\ at' > 1
      BY <2>1, <3>1
    <3>5. \A i \in 1..Len(Statements) : i < at' => i < at \/ i = at
      BY <2>1, <3>1
    <3> QED
      BY <2>2, <2>3, <2>4, <3>1, <3>2, <3>3, <3>4, <3>5 DEF SchemaInv
  <2>6. CASE at = 3
    <3>1. migrating' = 5 /\ at' = 1
      BY <2>1, <2>3, <2>6 DEF MigrateStep, SCHEMA_VERSION
    <3> QED
      BY <2>3, <2>4, <3>1 DEF SchemaInv
  <2> QED
    BY <2>1, <2>5, <2>6
<1>4. CASE migrating = 13
  <2>1. /\ Statements = EnsureIndexes /\ at \in 1..2
    <3>1. Statements = EnsureIndexes
      BY <1>4 DEF Statements
    <3>2. at \in Nat \ {0} /\ at <= Len(Statements)
      BY DEF SchemaInv, MigrateStep
    <3> QED
      BY <3>1, <3>2, IndexesOnly
  <2>2. Statements[at].drop = {} /\ Statements[at].stamp = NoStamp /\ Len(Statements) = 2
    BY <2>1, IndexesOnly
  <2>3. objects \subseteq objects' /\ user_version' = user_version /\ user_version = 13
    BY <1>4, <2>2 DEF MigrateStep, SchemaInv
  <2>4. migrating' = 13 /\ at' \in Nat \ {0}
    BY <1>4, <2>1, <2>2, <2>3, IndexesOnly DEF MigrateStep, SCHEMA_VERSION
  <2> QED
    BY <2>3, <2>4 DEF SchemaInv
<1> QED
  BY <1>1, <1>2, <1>3, <1>4

\* A first database is complete for its version, and opening it changes nothing in it.
LEMMA SchemaOpens ==
    /\ SchemaInit => SchemaInv
    /\ SchemaInv /\ OpenSchema => SchemaInv'
<1>1. ASSUME SchemaInit
      PROVE  SchemaInv
  <2>1. user_version \in {0, 1, 2, 3, 13} /\ migrating = user_version /\ at = 1
    BY <1>1, SchemaAssumption DEF SchemaInit, SCHEMA_VERSION
  <2>2. objects = Content(user_version)
    BY <1>1 DEF SchemaInit
  <2>3. Tables(user_version) \subseteq objects
    <3>1. CASE user_version = 0
      BY <3>1 DEF Tables
    <3>2. CASE user_version \in {1, 2}
      <4>1. \A u \in 1..user_version : u = 1 \/ u = 2
        BY <3>2
      <4>2. Introduced(1) = {"persistent_events"} /\ Introduced(2) = {}
        BY DEF Introduced
      <4>3. objects = {"persistent_events"}
        BY <2>2, <3>2 DEF Content
      <4> QED
        BY <4>1, <4>2, <4>3 DEF Tables
    <3>3. CASE user_version = 3
      <4>1. \A u \in 1..user_version : u = 1 \/ u = 2 \/ u = 3
        BY <3>3
      <4>2. \A u \in 1..3 : Introduced(u) \subseteq create_v3_schema_partial
        BY DEF Introduced, create_v3_schema_partial, EventTables, ConsumerTables
      <4>3. create_v3_schema_partial \subseteq objects
        BY <2>2, <3>3 DEF Content
      <4> QED
        BY <4>1, <4>2, <4>3 DEF Tables
    <3>4. CASE user_version = 13
      BY <2>2, <3>4 DEF Content, SCHEMA_VERSION
    <3> QED
      BY <2>1, <3>1, <3>2, <3>3, <3>4
  <2> QED
    BY <2>1, <2>3 DEF SchemaInv
<1>2. ASSUME SchemaInv, OpenSchema
      PROVE  SchemaInv'
  BY <1>2 DEF SchemaInv, OpenSchema
<1> QED
  BY <1>1, <1>2

\* Whatever the server does to its schema keeps the invariant.
LEMMA SchemaMoves ==
    ASSUME SchemaInv, OpenSchema \/ MigrateStep \/ UNCHANGED schemaVars
    PROVE  SchemaInv'
<1>1. CASE OpenSchema
  BY <1>1, SchemaOpens
<1>2. CASE MigrateStep
  <2>1. migrating \in {0, 2} \cup 5..12 \/ migrating \in {1, 3, 4, 13}
    BY DEF SchemaInv
  <2> QED
    BY <1>2, <2>1, MostCommits, OtherCommits
<1>3. CASE UNCHANGED schemaVars
  BY <1>3 DEF schemaVars, SchemaInv, Statements, migrate_v3_to_v4
<1> QED
  BY <1>1, <1>2, <1>3
-----------------------------------------------------------------------------
(* What the credentials are. *)

\* The Upstox row holds saved credentials, and logins use such, those of the
\* environment, or none.
OAuthInv ==
    /\ secrets["upstox"] # Nothing => secrets["upstox"].value \in Value
    /\ oauth \in Value \cup {Environment, Nothing}
    /\ token \in BOOLEAN

\* No step puts anything else there: the plain credentials of a configuration go to the
\* rows of Fyers.
LEMMA OAuthKeeps ==
    ASSUME KeyInv, OAuthInv,
           \/ \E written \in BOOLEAN : InjectFyersConfig(written)
           \/ ConfigureOAuth \/ \E accepted \in BOOLEAN : RestoreToken(accepted)
           \/ CredentialCall \/ CredentialStep \/ UNCHANGED credentialVars
    PROVE  OAuthInv'
<1>1. "upstox" \in Row /\ "upstox" # "fyers" /\ "upstox" # "refresh" /\ "upstox" \notin FyersRows
  BY DEF Row, FyersRows
<1>2. ASSUME secrets'["upstox"] = secrets["upstox"], oauth' = oauth, token' \in BOOLEAN
      PROVE  OAuthInv'
  BY <1>2 DEF OAuthInv
<1>3. ASSUME NEW written \in BOOLEAN, InjectFyersConfig(written)
      PROVE  OAuthInv'
  <2>1. secrets'["upstox"] = secrets["upstox"] /\ oauth' = oauth /\ token' = token
    BY <1>1, <1>3 DEF InjectFyersConfig, KeyInv
  <2> QED
    BY <1>2, <2>1 DEF OAuthInv
<1>4. CASE ConfigureOAuth
  <2> DEFINE saved == Loaded("upstox", _get_encryption("server", FALSE))
  <2>1. saved # Nothing => saved \in Value
    BY DEF Loaded, Readable, OAuthInv
  <2>2. secrets' = secrets /\ token' = token /\ oauth' \in {saved, Environment}
        /\ (oauth' = saved => saved # Nothing \/ saved = Environment)
    BY <1>4 DEF ConfigureOAuth
  <2> HIDE DEF saved
  <2> QED
    BY <2>1, <2>2 DEF OAuthInv
<1>5. ASSUME NEW accepted \in BOOLEAN, RestoreToken(accepted)
      PROVE  OAuthInv'
  BY <1>2, <1>5 DEF RestoreToken
<1>6. ASSUME NEW v \in Value, NEW saved \in BOOLEAN, SaveUpstox(v, saved)
      PROVE  OAuthInv'
  <2>1. CASE saved
    <3>1. secrets'["upstox"] = Sealed(_get_encryption("settings", TRUE), v)
          /\ oauth' = v /\ token' = token
      BY <1>1, <1>6, <2>1 DEF SaveUpstox, OAuthAfter, KeyInv
    <3>2. secrets'["upstox"].value = v
      BY <3>1 DEF Sealed
    <3> QED
      BY <3>1, <3>2 DEF OAuthInv
  <2>2. CASE ~saved
    BY <1>2, <1>6, <2>2 DEF SaveUpstox, OAuthAfter, OAuthInv
  <2> QED
    BY <2>1, <2>2
<1>7. CASE DeleteUpstox
  BY <1>1, <1>7 DEF DeleteUpstox, OAuthInv, KeyInv
<1>8. ASSUME NEW v \in Value, NEW rows \in SUBSET FyersRows, SaveFyers(v, rows)
      PROVE  OAuthInv'
  BY <1>1, <1>2, <1>8 DEF SaveFyers, OAuthInv
<1>9. CASE DeleteFyers
  BY <1>1, <1>2, <1>9 DEF DeleteFyers, OAuthInv
<1>10. ASSUME \/ \E store \in Store : ReadStatus(store)
              \/ \E p \in Provider : Login(p)
       PROVE  OAuthInv'
  BY <1>2, <1>10 DEF ReadStatus, Login, OAuthInv
<1>11. ASSUME NEW h \in Handler, NEW saved \in BOOLEAN, StoreRefreshToken(h, saved)
       PROVE  OAuthInv'
  <2>1. secrets'["upstox"] = secrets["upstox"] /\ oauth' = oauth /\ token' = (token \/ saved)
    BY <1>1, <1>11 DEF StoreRefreshToken, KeyInv
  <2>2. token' \in BOOLEAN
    BY <2>1
  <2> QED
    BY <1>2, <2>1, <2>2
<1>12. ASSUME \/ \E l \in DOMAIN logins : Expire(l) \/ \E h \in FreeHandler : Callback(h, l)
              \/ \E h \in Handler : ReadAppId(h) \/ ReadAppSecret(h)
                                      \/ \E accepted \in BOOLEAN : Trade(h, accepted)
       PROVE  OAuthInv'
  BY <1>2, <1>12 DEF Expire, Callback, ReadAppId, ReadAppSecret, Trade, OAuthInv
<1>13. CASE CredentialCall
  BY <1>6, <1>7, <1>8, <1>9, <1>10, <1>13 DEF CredentialCall
<1>14. CASE CredentialStep
  BY <1>11, <1>12, <1>14 DEF CredentialStep
<1>15. CASE UNCHANGED credentialVars
  BY <1>2, <1>15 DEF credentialVars, OAuthInv
<1> QED
  BY <1>3, <1>4, <1>5, <1>13, <1>14, <1>15

\* The keys, the logins and the credentials together are what the model says they are.
LEMMA CredentialsAreTyped ==
    ASSUME KeyInv, LoginInv, OAuthInv
    PROVE  CredentialsTypeOK
<1>1. masterKey \in Unusable..made /\ made \in Nat
  BY DEF KeyInv
<1>2. \A r \in Row : secrets[r] # Nothing => secrets[r].key \in 1..made
  BY DEF KeyInv, Rows
<1>3. \A s \in Store : cached[s] \in 0..made
  BY <1>1 DEF KeyInv, NoKey, Unusable
<1>4. \A h \in Handler : callbacks[h].login \in 0..Len(logins)
  BY DEF LoginInv, LoginTypeOK
<1> QED
  BY <1>1, <1>2, <1>3, <1>4 DEF CredentialsTypeOK, OAuthInv

-----------------------------------------------------------------------------
(* The server. *)

\* A server that is stopped, or has yet to open its database, keeps no key, so that the
\* file may change; from the moment the logins are configured they use what is saved.
SInv ==
    /\ KeyInv
    /\ phase \in {"down", "schema"} => \A s \in Store : cached[s] = NoKey
    /\ phase \in {"restore", "serving"} => SavedInUse
    /\ LoginInv
    /\ WatchInv
    /\ CatalogInv

\* The first ids follow those of the rows there are.
LEMMA LastIds ==
    ASSUME NEW rows, IsFiniteSet(rows), \A row \in rows : row.id \in Nat \ {0}
    PROVE  /\ Max({0} \cup Ids(rows)) \in Nat
           /\ Ids(rows) \subseteq 1..Max({0} \cup Ids(rows))
<1> DEFINE S == {0} \cup Ids(rows)
<1>1. IsFiniteSet(Ids(rows))
  <2> DEFINE idOf == [row \in rows |-> row.id]
  <2>1. idOf \in Surjection(rows, Ids(rows))
    BY DEF Surjection, Ids
  <2> QED
    BY <2>1, FS_Surjection
<1>2. IsFiniteSet(S)
  BY <1>1, FS_AddElement, FS_Union, FS_Singleton
<1>3. Ids(rows) \subseteq Nat \ {0}
  BY DEF Ids
<1>4. S \in SUBSET Int /\ S # {} /\ 0 \in S /\ S \subseteq Nat
  BY <1>3
<1> HIDE DEF S
<1>5. \E m \in S : \A s \in S : s <= m
  BY <1>2, <1>4, FiniteMaximum
<1>6. Max(S) \in S /\ \A s \in S : s <= Max(S)
  <2>1. \E m \in S : \A s \in S : m >= s
    BY <1>4, <1>5
  <2>2. Max(S) \in S /\ \A s \in S : Max(S) >= s
    BY <2>1 DEF Max
  <2> QED
    BY <1>4, <2>2
<1>7. Max(S) \in Nat
  BY <1>4, <1>6
<1>8. ASSUME NEW n \in Ids(rows) PROVE n \in 1..Max(S)
  <2>1. n \in S
    BY DEF S
  <2> QED
    BY <1>3, <1>6, <1>7, <2>1
<1> QED
  BY <1>7, <1>8 DEF S

\* The tables of a database that has them hold what their constraints admit.
LEMMA WatchlistsStart ==
    ASSUME NEW stored \in BOOLEAN, WatchlistsInit(stored)
    PROVE  WatchInv
<1>1. /\ \/ watchlists = {} /\ items = {}
         \/ watchlists = FirstLists /\ items = FirstItems
      /\ subscribed = {} /\ requests = [r \in Request |-> Waiting]
      /\ lastList = Max({0} \cup Ids(watchlists)) /\ lastItem = Max({0} \cup Ids(items))
  BY DEF WatchlistsInit
<1>2. /\ IsFiniteSet(watchlists) /\ IsFiniteSet(items)
      /\ watchlists \subseteq ListRow
  BY <1>1, WatchlistsAssumption, FS_EmptySet DEF ListRow
<1>3. items \subseteq ItemRow /\ \A i \in items : i.list \in Ids(watchlists)
  <2>1. Ids(watchlists) \subseteq Nat \ {0}
    BY <1>2 DEF Ids, ListRow
  <2> QED
    BY <1>1, <2>1, WatchlistsAssumption DEF ItemRow
<1>4. /\ \A l, m \in watchlists : l.id = m.id \/ l.name = m.name => l = m
      /\ \A i, j \in items :
           i.id = j.id \/ (i.list = j.list /\ i.instrument = j.instrument) => i = j
  BY <1>1, WatchlistsAssumption
<1>5. /\ lastList \in Nat /\ Ids(watchlists) \subseteq 1..lastList
      /\ lastItem \in Nat /\ Ids(items) \subseteq 1..lastItem
  BY <1>1, <1>2, <1>3, LastIds DEF ListRow, ItemRow
<1>6. TablesOK
  BY <1>1, <1>2, <1>3, <1>4, <1>5 DEF TablesOK, WatchlistsTypeOK
<1>7. ASSUME NEW r \in Request PROVE CountsTruly(r)
  <2>1. requests[r] = Waiting /\ Ids(Waiting.before) = {}
    BY <1>1, WaitingRow DEF Ids
  <2> QED
    BY <2>1, WaitingRow DEF CountsTruly
<1> QED
  BY <1>1, <1>6, <1>7 DEF WatchInv

\* An installation that was in use has its secrets under a key it made.
LEMMA CredentialsStart ==
    ASSUME NEW inUse \in BOOLEAN, CredentialsInit(inUse)
    PROVE  KeyInv /\ LoginInv /\ \A s \in Store : cached[s] = NoKey
<1>1. made \in Nat /\ masterKey \in Unusable..made
  BY DEF CredentialsInit, NoKey, Unusable
<1>2. secrets \in [Row -> Rows]
  <2>1. CASE secrets = [r \in Row |-> Nothing]
    BY <2>1 DEF Rows
  <2>2. ASSUME NEW v \in Value, made = 2,
               secrets = [r \in Row |-> Sealed(made, IF r \in Provider THEN v ELSE Plain)]
        PROVE  secrets \in [Row -> Rows]
    <3>1. \A w \in Value \cup {Plain} : Sealed(made, w) \in Rows
      BY <2>2 DEF Sealed, Rows
    <3> QED
      BY <2>2, <3>1
  <2> QED
    BY <2>1, <2>2 DEF CredentialsInit
<1>3. \A s \in Store : cached[s] = NoKey
  BY DEF CredentialsInit
<1>4. KeyInv
  BY <1>1, <1>2, <1>3 DEF CredentialsInit, KeyInv, NoKey
<1>5. LoginInv
  <2>1. logins = <<>> /\ callbacks = [h \in Handler |-> Resting]
    BY DEF CredentialsInit
  <2>2. callbacks \in [Handler -> [pc : Label, login : 0..Len(logins)]]
    BY <2>1 DEF Resting, Label
  <2> QED
    BY <2>1, <2>2 DEF LoginInv, LoginTypeOK
<1> QED
  BY <1>3, <1>4, <1>5

\* The invariant of the composed server holds at the start and is kept by every step:
\* of a start, of a request, of a kill and of the key file.
LEMMA SInvInit == Init => SInv
<1> SUFFICES ASSUME Init PROVE SInv
  OBVIOUS
<1>1. KeyInv /\ LoginInv /\ \A s \in Store : cached[s] = NoKey
  BY CredentialsStart DEF Init
<1>2. WatchInv
  BY WatchlistsStart DEF Init
<1>3. CatalogInv
  <2>1. CatalogInit
    BY DEF Init
  <2>2. \A b \in Broker : {} = Files(b) \ Files(b) /\ Files(b) \subseteq Segment \cup {Whole}
    BY FilesOf
  <2>3. SyncsCount
    BY <2>1, <2>2 DEF CatalogInit, NoSync, SyncRow, SyncsCount
  <2>4. CatalogIsWhole
    BY <2>1, <2>2 DEF CatalogInit, NoSync, CatalogIsWhole
  <2> QED
    BY <2>3, <2>4 DEF CatalogInv
<1> QED
  BY <1>1, <1>2, <1>3 DEF SInv, Init

\* A step of the running server: what it does to the credentials, to the watchlists and
\* to the catalog, one at a time.
LEMMA CredentialsMove ==
    ASSUME KeyInv, LoginInv,
           \/ \E written \in BOOLEAN : InjectFyersConfig(written)
           \/ ConfigureOAuth \/ \E accepted \in BOOLEAN : RestoreToken(accepted)
           \/ CredentialCall \/ CredentialStep \/ UNCHANGED credentialVars
    PROVE  KeyInv' /\ LoginInv' /\ NoOrphanedRow
<1>1. (\E store \in Store, may \in BOOLEAN : Works(store, may)) \/ Forgets
  BY CredentialOperations DEF credentialVars
<1> QED
  BY <1>1, WorksKeeps, ForgetsKeeps, LoginInvStep

\* Every step of the server keeps the invariant.
LEMMA SInvStep == SInv /\ [Next]_vars => SInv'
<1> SUFFICES ASSUME SInv, [Next]_vars PROVE SInv'
  OBVIOUS
<1>1. KeyInv /\ LoginInv /\ WatchInv /\ CatalogInv
  BY DEF SInv
<1>2. ASSUME OnlySchema, phase' \in {"schema", "fyers", "down"},
             phase' \in {"down", "schema"} => \A s \in Store : cached[s] = NoKey
      PROVE  SInv'
  <2>1. UNCHANGED credentialVars /\ UNCHANGED watchlistVars /\ UNCHANGED catalogVars
    BY <1>2 DEF OnlySchema
  <2>2. KeyInv' /\ LoginInv' /\ WatchInv' /\ CatalogInv'
    BY <1>1, <2>1, CredentialsMove, WatchInvStep, CatalogStepKeeps
  <2> QED
    BY <1>2, <2>1, <2>2 DEF SInv, credentialVars, keyVars
<1>3. CASE StartServer \/ Migrate \/ StoreRefused \/ StoreOpened
  BY <1>2, <1>3 DEF StartServer, Migrate, StoreRefused, StoreOpened, Enters, SInv
<1>4. ASSUME \/ \E written \in BOOLEAN : InjectFyersConfig(written)
             \/ ConfigureOAuth \/ \E accepted \in BOOLEAN : RestoreToken(accepted)
             \/ CredentialCall \/ CredentialStep,
             UNCHANGED watchlistVars, UNCHANGED catalogVars,
             phase' \notin {"down", "schema"}, phase' \in {"restore", "serving"} => SavedInUse'
      PROVE  SInv'
  BY <1>1, <1>4, CredentialsMove, WatchInvStep, CatalogStepKeeps DEF SInv
<1>5. CASE InjectFyers
  BY <1>4, <1>5 DEF InjectFyers, Enters, OnlyCredentials
<1>6. CASE ReadUpstox
  BY <1>1, <1>4, <1>6, ConfigureUsesSaved DEF ReadUpstox, Enters, OnlyCredentials
<1>7. CASE Restore
  <2>1. SavedInUse
    BY <1>7 DEF Restore, Enters, SInv
  <2> QED
    BY <1>1, <1>4, <1>7, <2>1, SavedStaysInUse DEF Restore, Enters, OnlyCredentials
<1>8. ASSUME Serving, \/ CredentialCall \/ CredentialStep,
             UNCHANGED <<watchlistVars, catalogVars>>
      PROVE  SInv'
  <2>1. phase = "serving" /\ phase' = "serving" /\ SavedInUse
    BY <1>8 DEF Serving, SInv
  <2>2. SavedInUse'
    BY <1>1, <1>8, <2>1, SavedStaysInUse
  <2> QED
    BY <1>4, <1>8, <2>1, <2>2
<1>9. ASSUME UNCHANGED <<phase, credentialVars>>,
             WatchInv', CatalogInv'
      PROVE  SInv'
  <2>1. KeyInv' /\ LoginInv'
    BY <1>1, <1>9, CredentialsMove
  <2>2. SavedInUse => SavedInUse'
    BY <1>1, <1>9, SavedStaysInUse
  <2> QED
    BY <1>9, <2>1, <2>2 DEF SInv, credentialVars, keyVars
<1>10. CASE Called
  BY <1>1, <1>8, <1>9, <1>10, WatchInvStep, CatalogStepKeeps DEF Called, Serving
<1>11. CASE Served
  BY <1>1, <1>8, <1>9, <1>11, WatchInvStep, CatalogStepKeeps DEF Served, Serving
<1>12. CASE Crash
  <2>1. ForgetMemory /\ ForgetRequests /\ ForgetSyncs /\ phase' = "down"
    BY <1>12 DEF Crash
  <2>2. LoginInv' /\ WatchInv' /\ CatalogInv'
    BY <1>1, <2>1, LoginInvStep, WatchInvStep, CatalogStepKeeps
  <2>3. KeyInv' /\ \A s \in Store : cached'[s] = NoKey
    BY <1>1, <2>1 DEF ForgetMemory, KeyInv, Rows, NoKey
  <2> QED
    BY <2>1, <2>2, <2>3 DEF SInv
<1>13. CASE KeyFileFault
  <2>1. /\ KeyFileChanges /\ phase = "down" /\ phase' = phase
        /\ UNCHANGED watchlistVars /\ UNCHANGED catalogVars
    BY <1>13 DEF KeyFileFault
  <2>2. LoginInv' /\ WatchInv' /\ CatalogInv'
    BY <1>1, <2>1, LoginInvStep, WatchInvStep, CatalogStepKeeps
  <2>3. KeyInv' /\ \A s \in Store : cached'[s] = NoKey
    BY <1>1, <2>1 DEF SInv, KeyFileChanges, KeyInv, Rows, NoKey
  <2> QED
    BY <2>1, <2>2, <2>3 DEF SInv
<1>14. CASE UNCHANGED vars
  <2>1. UNCHANGED credentialVars /\ UNCHANGED watchlistVars /\ UNCHANGED catalogVars
        /\ UNCHANGED phase
    BY <1>14 DEF vars
  <2> QED
    BY <1>1, <1>9, <2>1, WatchInvStep, CatalogStepKeeps
<1> QED
  BY <1>3, <1>5, <1>6, <1>7, <1>10, <1>11, <1>12, <1>13, <1>14 DEF Next, Boot

\* The keys, the logins, the watchlists and the catalog keep what they promise in every
\* state a server can reach, over any starts, kills and changes of its key file.
THEOREM ServerInvariance == Spec => []SInv
BY SInvInit, SInvStep, PTL DEF Spec

\* While the server serves, logins use the saved Upstox credentials if they can be
\* read, and never deleted or unsaved ones, whatever was saved, deleted, half saved or
\* re-keyed before (src/api/routes.py:231, src/app/server.py:633).
THEOREM SavedCredentialsWin == Spec => []SavedWins
<1>1. SInv => SavedWins
  BY DEF SInv, SavedInUse, SavedWins
<1> QED
  BY <1>1, ServerInvariance, PTL

\* However many handlers bring a login's state back, in any order, one of them at most
\* trades it (src/api/routes.py:393, src/api/product_routes.py:1064).
THEOREM LoginsTradeOnce == Spec => []SingleExchange
<1>1. SInv => SingleExchange
  BY DEF SInv, LoginInv, OneTrade, SingleExchange
<1> QED
  BY <1>1, ServerInvariance, PTL

\* The feed is never about to be told to forget an instrument that an item which was
\* there during the whole count still refers to, whatever other requests insert, delete,
\* rename and import between two lists (src/api/product_routes.py:436).
THEOREM ReferencesAreCounted == Spec => []StableReferenceKeeps
<1>1. SInv => StableReferenceKeeps
  BY DEF SInv, WatchInv, TablesOK, CountsTruly, StableReferenceKeeps
<1> QED
  BY <1>1, ServerInvariance, PTL

\* A provider's catalog has every file but those that the one sync it comes from could
\* not fetch, however many files there are, however many syncs run at a time, and
\* whichever of them fail or are killed (src/app/instruments.py:203).
THEOREM CatalogStaysWhole == Spec => []CatalogIsWhole
<1>1. SInv => CatalogIsWhole
  BY DEF SInv, CatalogInv
<1> QED
  BY <1>1, ServerInvariance, PTL

\* A running server loses no secret that the key in its file reads and writes none that
\* it does not, with two stores that keep keys of their own and whichever of them makes
\* a new key (src/app/secrets_store.py:153).
THEOREM KeysOrphanNothing == Spec => RotationOrphansNothing
<1>1. SInv /\ [Next]_vars => (phase # "down" /\ phase' # "down" => NoOrphanedRow)
  <2> SUFFICES ASSUME SInv, [Next]_vars, phase # "down", phase' # "down"
               PROVE  NoOrphanedRow
    OBVIOUS
  <2>1. KeyInv /\ LoginInv
    BY DEF SInv
  <2>2. ASSUME \/ \E written \in BOOLEAN : InjectFyersConfig(written)
               \/ ConfigureOAuth \/ \E accepted \in BOOLEAN : RestoreToken(accepted)
               \/ CredentialCall \/ CredentialStep \/ UNCHANGED credentialVars
        PROVE  NoOrphanedRow
    BY <2>1, <2>2, CredentialsMove
  <2>3. CASE StartServer \/ Migrate \/ StoreRefused \/ StoreOpened
    BY <2>2, <2>3 DEF StartServer, Migrate, StoreRefused, StoreOpened, OnlySchema
  <2>4. CASE InjectFyers \/ ReadUpstox \/ Restore
    BY <2>2, <2>4 DEF InjectFyers, ReadUpstox, Restore
  <2>5. CASE Called \/ Served
    BY <2>2, <2>5 DEF Called, Served
  <2>6. CASE UNCHANGED vars
    BY <2>2, <2>6 DEF vars
  <2> QED
    BY <2>3, <2>4, <2>5, <2>6 DEF Next, Boot, Crash, KeyFileFault
<1> QED
  BY <1>1, ServerInvariance, PTL DEF Spec, RotationOrphansNothing, NoOrphanedRow

\* A server that is past opening its database is past every migration of it.
BootInv == SchemaInv /\ OAuthInv /\ (phase \notin {"down", "schema"} => migrating = SCHEMA_VERSION)

\* Starts, kills and requests keep that: a start migrates before it goes on, and nothing
\* else touches the schema.
LEMMA BootInvStep == SInv /\ BootInv /\ [Next]_vars => BootInv'
<1> SUFFICES ASSUME SInv, BootInv, [Next]_vars PROVE BootInv'
  OBVIOUS
<1>1. KeyInv /\ SchemaInv /\ OAuthInv
  BY DEF SInv, BootInv
<1>2. ASSUME \/ \E written \in BOOLEAN : InjectFyersConfig(written)
             \/ ConfigureOAuth \/ \E accepted \in BOOLEAN : RestoreToken(accepted)
             \/ CredentialCall \/ CredentialStep \/ UNCHANGED credentialVars
      PROVE  OAuthInv'
  BY <1>1, <1>2, OAuthKeeps
<1>3. ASSUME UNCHANGED schemaVars, OAuthInv',
             phase' \notin {"down", "schema"} => phase \notin {"down", "schema"} \/ SchemaReady
      PROVE  BootInv'
  <2>1. SchemaInv'
    BY <1>1, <1>3, SchemaMoves
  <2>2. migrating' = migrating
    BY <1>3 DEF schemaVars
  <2> QED
    BY <1>3, <2>1, <2>2 DEF BootInv, SchemaReady
<1>4. CASE StartServer \/ Migrate
  <2>1. phase' = "schema" /\ (OpenSchema \/ MigrateStep) /\ UNCHANGED credentialVars
    BY <1>4 DEF StartServer, Migrate, Enters, OnlySchema
  <2> QED
    BY <1>1, <1>2, <2>1, SchemaMoves DEF BootInv
<1>5. CASE StoreRefused \/ StoreOpened
  <2>1. UNCHANGED schemaVars /\ UNCHANGED credentialVars
        /\ (phase' \notin {"down", "schema"} => SchemaReady)
    BY <1>5 DEF StoreRefused, StoreOpened, Enters, OnlySchema, MigrateFails
  <2> QED
    BY <1>2, <1>3, <2>1
<1>6. CASE InjectFyers \/ ReadUpstox \/ Restore
  <2>1. UNCHANGED schemaVars /\ phase \notin {"down", "schema"}
    BY <1>6 DEF InjectFyers, ReadUpstox, Restore, Enters, OnlyCredentials
  <2>2. OAuthInv'
    BY <1>2, <1>6 DEF InjectFyers, ReadUpstox, Restore
  <2> QED
    BY <1>3, <2>1, <2>2
<1>7. CASE Called \/ Served
  <2>1. UNCHANGED schemaVars /\ phase' = phase
    BY <1>7 DEF Called, Served, Serving
  <2>2. OAuthInv'
    BY <1>2, <1>7 DEF Called, Served
  <2> QED
    BY <1>3, <2>1, <2>2
<1>8. CASE Crash
  <2>1. UNCHANGED schemaVars /\ phase' = "down" /\ ForgetMemory
    BY <1>8 DEF Crash
  <2>2. OAuthInv'
    BY <1>1, <2>1 DEF ForgetMemory, OAuthInv
  <2> QED
    BY <1>3, <2>1, <2>2
<1>9. CASE KeyFileFault
  <2>1. UNCHANGED schemaVars /\ phase' = phase /\ KeyFileChanges
    BY <1>9 DEF KeyFileFault
  <2>2. OAuthInv'
    BY <1>1, <2>1 DEF KeyFileChanges, OAuthInv
  <2> QED
    BY <1>3, <2>1, <2>2
<1>10. CASE UNCHANGED vars
  <2>1. UNCHANGED schemaVars /\ UNCHANGED phase /\ UNCHANGED credentialVars
    BY <1>10 DEF vars
  <2> QED
    BY <1>2, <1>3, <2>1
<1> QED
  BY <1>4, <1>5, <1>6, <1>7, <1>8, <1>9, <1>10 DEF Next, Boot

\* At whatever commits the starts of a server were killed, its database has the tables
\* of the version it carries and of every earlier one, and it only serves from the
\* current version (src/core/persistence/store.py:90).
THEOREM SchemaIsComplete == Spec => []SchemaComplete
<1>1. Init => BootInv
  <2> SUFFICES ASSUME Init PROVE BootInv
    OBVIOUS
  <2>1. SchemaInv
    BY SchemaOpens DEF Init
  <2>2. OAuthInv
    <3>1. "upstox" \in Row /\ "upstox" \in Provider
      BY DEF Row, Provider
    <3> DEFINE inUse == user_version = SCHEMA_VERSION
    <3>2. CredentialsInit(inUse)
      BY DEF Init
    <3> HIDE DEF inUse
    <3>3. oauth = Nothing /\ token = FALSE
      BY <3>2 DEF CredentialsInit
    <3>4. secrets["upstox"] # Nothing => secrets["upstox"].value \in Value
      <4>1. CASE secrets = [r \in Row |-> Nothing]
        BY <3>1, <4>1
      <4>2. ASSUME NEW v \in Value,
                   secrets = [r \in Row |-> Sealed(made, IF r \in Provider THEN v ELSE Plain)]
            PROVE  secrets["upstox"].value \in Value
        BY <3>1, <4>2 DEF Sealed
      <4> QED
        BY <3>2, <4>1, <4>2 DEF CredentialsInit
    <3> QED
      BY <3>3, <3>4 DEF OAuthInv
  <2>3. phase = "down"
    BY DEF Init
  <2> QED
    BY <2>1, <2>2, <2>3 DEF BootInv
<1>2. SInv /\ BootInv => SchemaComplete
  <2> SUFFICES ASSUME SInv, BootInv PROVE SchemaComplete
    OBVIOUS
  <2>1. CredentialsTypeOK
    BY CredentialsAreTyped DEF SInv, BootInv
  <2>2. Tables(user_version) \subseteq objects
    BY DEF BootInv, SchemaInv
  <2>3. migrating = 13 => user_version = 13
    BY DEF BootInv, SchemaInv
  <2>4. phase = "serving" => user_version = SCHEMA_VERSION
    BY <2>3 DEF BootInv, SCHEMA_VERSION
  <2> QED
    BY <2>1, <2>2, <2>4 DEF SchemaComplete
<1> QED
  BY <1>1, <1>2, BootInvStep, ServerInvariance, PTL DEF Spec
=============================================================================
