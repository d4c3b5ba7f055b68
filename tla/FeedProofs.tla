----------------------------- MODULE FeedProofs -----------------------------
(***************************************************************************)
(* Proofs about the broker feeds.  The Upstox feed, for every set of       *)
(* instruments, handlers and cancelled runs: no socket is lost unless runs *)
(* overlap, and the broker is told what is desired.  Then the tick-by-tick *)
(* depth feed, for every set of symbols, prices and callers: the books are *)
(* the exchange's.                                                         *)
(***************************************************************************)
EXTENDS UpstoxFeed, TbtFeed, SequenceTheorems, FiniteSetTheorems, TLAPS

-----------------------------------------------------------------------------
(* The Upstox feed.  A party is whoever may wait for the subscription      *)
(* lock: a handler, the run in progress, a run that is leaving.            *)

Socket == [open : BOOLEAN, alive : BOOLEAN, granted : SUBSET Key]
Change == [pc : {"idle", "change", "send", "drain"}, op : {"sub", "unsub"}, key : Key]
LeaverAt == [pc : {"none", "hangup", "release", "abort", "farewell"}, keeps : Nat]

\* The places where the session in progress uses its socket.
Session == {"subscribe", "recv", "apply"}

UpstoxTypes ==
    /\ _instrument_keys \in (SUBSET Key) \ {{}}
    /\ _state \in {"stopped", "authorizing", "connecting", "streaming", "reconnecting",
                   "failed", "auth_required"}
    /\ pc \in Waits \cup {"ended"}
    /\ outcome \in {"none", "stopped", "retry", "raised"}
    /\ stop_event \in BOOLEAN /\ overlapped \in BOOLEAN
    /\ todo \subseteq Key
    /\ socket \in Seq(Socket)
    /\ ws \in 0..Len(socket) /\ _live_ws \in {0, Len(socket)}
    /\ leaving \in [Leaver -> LeaverAt]
    /\ \A l \in Leaver : leaving[l].keeps \in 0..Len(socket)
    /\ call \in [Caller -> Change]
    /\ calls \in 0..MaxCalls /\ frames \in 0..MaxFrames /\ faults \in 0..MaxFaults
    /\ missed \subseteq Key
    /\ lost \subseteq 1..Len(socket)

\* The queue holds each of these parties once, and nobody else.
Lists(q, parties) ==
    /\ q \in Seq(Party)
    /\ \A i, j \in 1..Len(q) : q[i] = q[j] => i = j
    /\ \A p \in Party : p \in parties <=> \E i \in 1..Len(q) : q[i] = p

\* Whoever is on the way has a place in the queue; only the holder waits for a buffer.
Queue ==
    /\ Lists(_sub_lock, Waiting)
    /\ \A c \in Caller : call[c].pc = "drain" => Holds(c)

\* Where the socket of the run in progress is known.
Sockets ==
    /\ pc \in Session \cup {"hangup", "release"} => ws # 0 /\ ws = Len(socket)
    /\ pc \in {"authorize", "connect", "backoff", "ended"} => ws = 0
    /\ ws # 0 /\ (pc \in {"hangup", "close"} \/ (pc = "release" /\ outcome = "raised"))
          => ~socket[ws].open
    /\ \A n \in 1..Len(socket) : socket[n].alive => socket[n].open
    /\ \A l \in Leaver : leaving[l].keeps # 0 => leaving[l].pc = "abort"

\* Who still leads to a socket that is open.
Held ==
    \A n \in 1..Len(socket) : socket[n].open =>
        \/ n = ws /\ pc \in Session \cup {"release"}
        \/ n = _live_ws /\ Reclaims(n)
        \/ n \in lost

\* As long as no run was started beside one that leaves, there is one run, and the live
\* socket is its own.
Alone ==
    \/ overlapped
    \/ /\ lost = {}
       /\ pc # "ended" => \A l \in Leaver : leaving[l].pc = "none"
       /\ \A l, m \in Leaver : leaving[l].pc # "none" /\ leaving[m].pc # "none" => l = m
       /\ pc \in Session \cup {"hangup", "release"} => _live_ws = ws

Sending(requests, p, k) ==
    p \in Caller /\ requests[p].pc = "send" /\ requests[p].key = k

LastToSend(q, requests, i, k) ==
    /\ i \in 1..Len(q) /\ Sending(requests, q[i], k)
    /\ \A j \in 1..Len(q) : j > i => ~Sending(requests, q[j], k)

\* The last frame that waits for the lock says of its key what is desired of it.
LastWord(q, requests, keys, unsaid) ==
    \A k \in Key : k \notin unsaid =>
        \A i \in 1..Len(q) : LastToSend(q, requests, i, k) =>
            (requests[q[i]].op = "sub" <=> k \in keys)

\* Of a key without a frame the broker was told what is desired.
Tells(requests, keys, unsaid, granted) ==
    \A k \in Key : k \notin unsaid /\ (\A p \in Caller : ~Sending(requests, p, k)) =>
        (k \in granted <=> k \in keys)

Word == LastWord(_sub_lock, call, _instrument_keys, missed)

Told ==
    pc \in Session /\ socket[ws].alive /\ _live_ws = ws =>
        Tells(call, _instrument_keys, missed, socket[ws].granted)

UpstoxInv == UpstoxTypes /\ Queue /\ Sockets /\ Held /\ Alone /\ Word /\ Told

-----------------------------------------------------------------------------
(* The queue of the lock.                                                  *)

\* The second queue is the first without p, or with p elsewhere: whoever else stands in
\* it has the same parties behind it.
Thins(r, q, p) ==
    \A i \in 1..Len(r) : r[i] = p \/
        \E m \in 1..Len(q) :
            /\ q[m] = r[i]
            /\ \A j \in 1..Len(q) : j > m =>
                  q[j] = p \/ \E l \in 1..Len(r) : l > i /\ r[l] = q[j]

\* Another party joins the end.
LEMMA Joins ==
    ASSUME NEW q, NEW S, Lists(q, S), NEW p \in Party, p \notin S
    PROVE  /\ Lists(Append(q, p), S \cup {p})
           /\ Len(Append(q, p)) = Len(q) + 1
           /\ \A i \in 1..Len(q) : Append(q, p)[i] = q[i]
           /\ Append(q, p)[Len(q) + 1] = p
           /\ Thins(Append(q, p), q, p)
<1>1. /\ Append(q, p) \in Seq(Party) /\ Len(Append(q, p)) = Len(q) + 1 /\ Len(q) \in Nat
      /\ \A i \in 1..Len(q) : Append(q, p)[i] = q[i]
      /\ Append(q, p)[Len(q) + 1] = p
  BY AppendProperties, LenProperties DEF Lists
<1> DEFINE r == Append(q, p)
<1> HIDE DEF r
<1>2. \A i \in 1..Len(r) : i \in 1..Len(q) \/ i = Len(q) + 1
  BY <1>1 DEF r
<1>3. \A i \in 1..Len(q) : r[i] = q[i] /\ q[i] # p /\ i \in 1..Len(r)
  BY <1>1 DEF r, Lists
<1>4. Len(q) + 1 \in 1..Len(r) /\ r[Len(q) + 1] = p
  BY <1>1 DEF r
<1>5. \A i, j \in 1..Len(r) : r[i] = r[j] => i = j
  BY <1>2, <1>3, <1>4 DEF Lists
<1>6. \A x \in Party : x \in S \cup {p} <=> \E i \in 1..Len(r) : r[i] = x
  BY <1>2, <1>3, <1>4 DEF Lists
<1>7. Thins(r, q, p)
  <2> SUFFICES ASSUME NEW i \in 1..Len(r), r[i] # p
               PROVE  \E m \in 1..Len(q) :
                         /\ q[m] = r[i]
                         /\ \A j \in 1..Len(q) : j > m =>
                               q[j] = p \/ \E l \in 1..Len(r) : l > i /\ r[l] = q[j]
    BY DEF Thins
  <2>1. i \in 1..Len(q)
    BY <1>2, <1>4
  <2> QED
    BY <1>3, <2>1
<1> QED
  BY <1>1, <1>5, <1>6, <1>7 DEF Lists, r

\* The holder leaves.
LEMMA Leaves ==
    ASSUME NEW q, NEW S, Lists(q, S), q # <<>>
    PROVE  /\ Lists(Tail(q), S \ {Head(q)})
           /\ Head(q) = q[1] /\ Head(q) \in S /\ Head(q) \in Party
           /\ Len(q) \in Nat \ {0} /\ Len(Tail(q)) = Len(q) - 1
           /\ \A i \in 1..Len(Tail(q)) : Tail(q)[i] = q[i + 1]
           /\ Thins(Tail(q), q, Head(q))
<1>1. /\ Tail(q) \in Seq(Party) /\ Len(Tail(q)) = Len(q) - 1 /\ Len(q) \in Nat \ {0}
      /\ \A i \in 1..Len(Tail(q)) : Tail(q)[i] = q[i + 1]
      /\ Head(q) \in Party
  BY HeadTailProperties, LenProperties, EmptySeq DEF Lists
<1>2. Head(q) = q[1]
  BY DEF Lists
<1> DEFINE r == Tail(q)
           h == Head(q)
<1> HIDE DEF r, h
<1>3. 1 \in 1..Len(q) /\ q[1] = h
  BY <1>1, <1>2 DEF h
<1>4. \A i \in 1..Len(r) : i + 1 \in 1..Len(q) /\ r[i] = q[i + 1] /\ q[i + 1] # h
  <2> TAKE i \in 1..Len(r)
  <2>1. i + 1 \in 1..Len(q) /\ i + 1 # 1
    BY <1>1 DEF r
  <2> QED
    BY <1>1, <1>3, <2>1 DEF r, Lists
<1>5. \A i \in 1..Len(q) : i = 1 \/ (i - 1 \in 1..Len(r) /\ r[i - 1] = q[i])
  <2> TAKE i \in 1..Len(q)
  <2>1. i = 1 \/ (i - 1 \in 1..Len(r) /\ (i - 1) + 1 = i)
    BY <1>1 DEF r
  <2> QED
    BY <1>4, <2>1
<1>6. \A i, j \in 1..Len(r) : r[i] = r[j] => i = j
  <2> TAKE i \in 1..Len(r), j \in 1..Len(r)
  <2>1. r[i] = r[j] => i + 1 = j + 1
    BY <1>4 DEF Lists
  <2> QED
    BY <2>1
<1>7. \A x \in Party : x \in S \ {h} <=> \E i \in 1..Len(r) : r[i] = x
  <2> TAKE x \in Party
  <2>1. ASSUME x \in S \ {h}
        PROVE  \E i \in 1..Len(r) : r[i] = x
    <3>1. PICK i \in 1..Len(q) : q[i] = x
      BY <2>1 DEF Lists
    <3>2. i # 1
      BY <1>3, <2>1, <3>1
    <3> QED
      BY <1>5, <3>1, <3>2
  <2>2. ASSUME NEW i \in 1..Len(r), r[i] = x
        PROVE  x \in S \ {h}
    BY <1>4, <2>2 DEF Lists
  <2> QED
    BY <2>1, <2>2
<1>8. h \in S
  BY <1>1, <1>3 DEF Lists, h
<1>9. Thins(r, q, h)
  <2> SUFFICES ASSUME NEW i \in 1..Len(r)
               PROVE  \E m \in 1..Len(q) :
                         /\ q[m] = r[i]
                         /\ \A j \in 1..Len(q) : j > m =>
                               q[j] = h \/ \E x \in 1..Len(r) : x > i /\ r[x] = q[j]
    BY DEF Thins
  <2>1. i + 1 \in 1..Len(q) /\ q[i + 1] = r[i]
    BY <1>4
  <2>2. ASSUME NEW j \in 1..Len(q), j > i + 1
        PROVE  \E x \in 1..Len(r) : x > i /\ r[x] = q[j]
    <3>1. j - 1 \in 1..Len(r) /\ r[j - 1] = q[j] /\ j - 1 > i
      BY <1>1, <1>5, <2>2
    <3> QED
      BY <3>1
  <2> QED
    BY <2>1, <2>2
<1> QED
  BY <1>1, <1>2, <1>6, <1>7, <1>8, <1>9 DEF Lists, r, h

\* One that is taken out leaves the others.
LEMMA TakenOut ==
    ASSUME NEW q, NEW S, Lists(q, S), NEW p \in Party
    PROVE  /\ Lists(RemoveFirst(q, p), S \ {p})
           /\ Thins(RemoveFirst(q, p), q, p)
           /\ q # <<>> /\ Head(q) # p =>
                 RemoveFirst(q, p) # <<>> /\ Head(RemoveFirst(q, p)) = Head(q)
<1>1. CASE ~\E i \in 1..Len(q) : q[i] = p
  <2>1. RemoveFirst(q, p) = q
    BY <1>1 DEF RemoveFirst
  <2>2. Thins(q, q, p)
    BY DEF Thins
  <2> QED
    BY <1>1, <2>1, <2>2 DEF Lists
<1>2. CASE \E i \in 1..Len(q) : q[i] = p
  <2>1. PICK n \in 1..Len(q) : q[n] = p
    BY <1>2
  <2>2. {i \in 1..Len(q) : q[i] = p} = {n}
    BY <2>1 DEF Lists
  <2>3. SelectInSeq(q, LAMBDA v : v = p) = n
    <3>1. Min({n}) = n
      <4>1. n <= n
        OBVIOUS
      <4> QED
        BY <4>1 DEF Min
    <3> QED
      BY <2>2, <3>1 DEF SelectInSeq
  <2>4. RemoveFirst(q, p) = RemoveAt(q, n)
    BY <1>2, <2>3 DEF RemoveFirst
  <2> DEFINE a == SubSeq(q, 1, n - 1)
             b == SubSeq(q, n + 1, Len(q))
             r == a \o b
  <2>5. q \in Seq(Party) /\ Len(q) \in Nat /\ n \in Nat /\ 1 <= n /\ n <= Len(q)
    BY LenProperties DEF Lists
  <2>6. /\ a \in Seq(Party) /\ Len(a) = n - 1
        /\ \A i \in 1..(n - 1) : a[i] = q[i]
    <3>1. \A i \in 1..(n - 1) : q[i] \in Party
      BY <2>5, ElementOfSeq
    <3>2. /\ a \in Seq(Party) /\ Len(a) = IF 1 <= n - 1 THEN n - 1 - 1 + 1 ELSE 0
          /\ \A i \in 1..(n - 1 - 1 + 1) : a[i] = q[1 + i - 1]
      BY <2>5, <3>1, SubSeqProperties
    <3> QED
      BY <2>5, <3>2
  <2>7. /\ b \in Seq(Party) /\ Len(b) = Len(q) - n
        /\ \A i \in 1..(Len(q) - n) : b[i] = q[n + i]
    <3>1. \A i \in (n + 1)..Len(q) : q[i] \in Party
      BY <2>5, ElementOfSeq
    <3>2. /\ b \in Seq(Party)
          /\ Len(b) = IF n + 1 <= Len(q) THEN Len(q) - (n + 1) + 1 ELSE 0
          /\ \A i \in 1..(Len(q) - (n + 1) + 1) : b[i] = q[n + 1 + i - 1]
      BY <2>5, <3>1, SubSeqProperties
    <3> QED
      BY <2>5, <3>2
  <2> HIDE DEF a, b
  <2>8. /\ r \in Seq(Party) /\ Len(r) = Len(q) - 1
        /\ \A i \in 1..(Len(q) - 1) : r[i] = IF i < n THEN q[i] ELSE q[i + 1]
    <3>1. /\ r \in Seq(Party) /\ Len(r) = Len(a) + Len(b)
          /\ \A i \in 1..Len(a) + Len(b) : r[i] = IF i <= Len(a) THEN a[i] ELSE b[i - Len(a)]
      BY <2>6, <2>7, ConcatProperties
    <3>2. Len(a) + Len(b) = Len(q) - 1
      BY <2>5, <2>6, <2>7
    <3>3. ASSUME NEW i \in 1..(Len(q) - 1)
          PROVE  r[i] = IF i < n THEN q[i] ELSE q[i + 1]
      <4>1. CASE i < n
        <5>1. i <= n - 1 /\ i \in 1..(n - 1)
          BY <2>5, <4>1
        <5> QED
          BY <2>6, <3>1, <3>2, <4>1, <5>1
      <4>2. CASE ~(i < n)
        <5>1. ~(i <= n - 1) /\ i - (n - 1) \in 1..(Len(q) - n) /\ n + (i - (n - 1)) = i + 1
          BY <2>5, <4>2
        <5>2. i \in 1..(Len(a) + Len(b)) /\ ~(i <= Len(a)) /\ Len(a) = n - 1
          BY <2>6, <3>2, <5>1
        <5>3. r[i] = b[i - (n - 1)]
          BY <3>1, <5>2
        <5>4. b[i - (n - 1)] = q[n + (i - (n - 1))]
          BY <2>7, <5>1
        <5>5. r[i] = q[i + 1]
          BY <5>1, <5>3, <5>4
        <5> QED
          BY <4>2, <5>5
      <4> QED
        BY <4>1, <4>2
    <3> QED
      BY <3>1, <3>2, <3>3
  <2>9. RemoveFirst(q, p) = r
    BY <2>4 DEF RemoveAt, a, b
  <2> HIDE DEF r
  <2> DEFINE at(i) == IF i < n THEN i ELSE i + 1
  <2>10. \A i \in 1..Len(r) : at(i) \in 1..Len(q) /\ at(i) # n /\ r[i] = q[at(i)]
    BY <2>5, <2>8
  <2>11. \A i, j \in 1..Len(r) : at(i) = at(j) => i = j
    BY <2>5, <2>8
  <2>16. \A i, l \in 1..Len(r) : at(l) > at(i) => l > i
    BY <2>5, <2>8
  <2>12. \A m \in 1..Len(q) : m # n => \E i \in 1..Len(r) : at(i) = m
    <3> TAKE m \in 1..Len(q)
    <3>1. CASE m < n
      <4>1. m \in 1..Len(r)
        BY <2>5, <2>8, <3>1
      <4> QED
        BY <3>1, <4>1
    <3>2. CASE m > n
      <4>1. m - 1 \in 1..Len(r) /\ at(m - 1) = m
        BY <2>5, <2>8, <3>2
      <4> QED
        BY <4>1
    <3> QED
      BY <2>5, <3>1, <3>2
  <2> HIDE DEF at
  <2>13. \A i, j \in 1..Len(r) : r[i] = r[j] => i = j
    <3> TAKE i \in 1..Len(r), j \in 1..Len(r)
    <3>1. /\ at(i) \in 1..Len(q) /\ r[i] = q[at(i)]
          /\ at(j) \in 1..Len(q) /\ r[j] = q[at(j)]
      BY <2>10
    <3>2. r[i] = r[j] => at(i) = at(j)
      BY <3>1 DEF Lists
    <3> QED
      BY <2>11, <3>2
  <2>14. \A x \in Party : x \in S \ {p} <=> \E i \in 1..Len(r) : r[i] = x
    <3> TAKE x \in Party
    <3>1. ASSUME x \in S \ {p}
          PROVE  \E i \in 1..Len(r) : r[i] = x
      <4>1. PICK m \in 1..Len(q) : q[m] = x
        BY <3>1 DEF Lists
      <4>2. m # n
        BY <2>1, <3>1, <4>1
      <4>3. PICK i \in 1..Len(r) : at(i) = m
        BY <2>12, <4>2
      <4> QED
        BY <2>10, <4>1, <4>3
    <3>2. ASSUME NEW i \in 1..Len(r), r[i] = x
          PROVE  x \in S \ {p}
      <4>1. at(i) \in 1..Len(q) /\ q[at(i)] = x /\ at(i) # n
        BY <2>10, <3>2
      <4> QED
        BY <2>1, <4>1 DEF Lists
    <3> QED
      BY <3>1, <3>2
  <2>15. ASSUME q # <<>>, Head(q) # p
         PROVE  r # <<>> /\ Head(r) = Head(q)
    <3>1. Head(q) = q[1] /\ n # 1
      BY <2>1, <2>15, Leaves
    <3>2. Len(r) >= 1 /\ r[1] = q[1]
      BY <2>5, <2>8, <3>1
    <3>3. r # <<>>
      BY <2>8, <3>2, EmptySeq
    <3> QED
      BY <2>8, <3>1, <3>2, <3>3
  <2>17. Thins(r, q, p)
    <3> SUFFICES ASSUME NEW i \in 1..Len(r)
                 PROVE  \E m \in 1..Len(q) :
                           /\ q[m] = r[i]
                           /\ \A j \in 1..Len(q) : j > m =>
                                 q[j] = p \/ \E l \in 1..Len(r) : l > i /\ r[l] = q[j]
      BY DEF Thins
    <3>1. at(i) \in 1..Len(q) /\ q[at(i)] = r[i]
      BY <2>10
    <3>2. ASSUME NEW j \in 1..Len(q), j > at(i), q[j] # p
          PROVE  \E l \in 1..Len(r) : l > i /\ r[l] = q[j]
      <4>1. PICK l \in 1..Len(r) : at(l) = j
        BY <2>1, <2>12, <3>2
      <4> QED
        BY <2>10, <2>16, <3>2, <4>1
    <3> QED
      BY <3>1, <3>2
  <2> QED
    BY <2>8, <2>9, <2>13, <2>14, <2>15, <2>17 DEF Lists
<1> QED
  BY <1>1, <1>2

-----------------------------------------------------------------------------
(* What the broker is told.                                                *)

\* A party that does not send comes or goes, or the holder has sent its frame: the last
\* word on every key stays what it was.
LEMMA WordStays ==
    ASSUME NEW q, NEW S, Lists(q, S), NEW r, NEW p \in Party, Thins(r, q, p),
           NEW requests, NEW next, NEW keys, NEW unsaid,
           LastWord(q, requests, keys, unsaid),
           \A x \in Caller : x # p => next[x] = requests[x],
           p \in Caller => next[p].pc # "send" /\ (requests[p].pc # "send" \/ q[1] = p)
    PROVE  LastWord(r, next, keys, unsaid)
<1> SUFFICES ASSUME NEW k \in Key, k \notin unsaid, NEW i \in 1..Len(r),
                    LastToSend(r, next, i, k)
             PROVE  next[r[i]].op = "sub" <=> k \in keys
  BY DEF LastWord
<1>1. r[i] # p /\ Sending(next, r[i], k)
  BY DEF LastToSend, Sending
<1>2. PICK m \in 1..Len(q) :
         /\ q[m] = r[i]
         /\ \A j \in 1..Len(q) : j > m =>
               q[j] = p \/ \E l \in 1..Len(r) : l > i /\ r[l] = q[j]
  BY <1>1 DEF Thins
<1>3. Sending(requests, q[m], k) /\ next[r[i]] = requests[q[m]]
  BY <1>1, <1>2 DEF Sending
<1>4. ASSUME NEW j \in 1..Len(q), j > m
      PROVE  ~Sending(requests, q[j], k)
  <2>1. CASE q[j] = p
    <3>1. Len(q) \in Nat
      BY LenProperties DEF Lists
    <3>2. 1 \in 1..Len(q) /\ j # 1
      BY <1>4, <3>1
    <3>3. q[1] # p
      BY <2>1, <3>2 DEF Lists
    <3> QED
      BY <2>1, <3>3 DEF Sending
  <2>2. CASE q[j] # p
    <3>1. PICK l \in 1..Len(r) : l > i /\ r[l] = q[j]
      BY <1>2, <1>4, <2>2
    <3>2. ~Sending(next, q[j], k)
      BY <3>1 DEF LastToSend
    <3> QED
      BY <2>2, <3>2 DEF Sending
  <2> QED
    BY <2>1, <2>2
<1>5. LastToSend(q, requests, m, k)
  BY <1>3, <1>4 DEF LastToSend
<1> QED
  BY <1>2, <1>3, <1>5 DEF LastWord

\* A frame takes its place behind all who send, and is the last of its key.
LEMMA FrameJoins ==
    ASSUME NEW q, NEW S, Lists(q, S), NEW c \in Caller, c \notin S,
           NEW requests, NEW next, NEW keys, NEW changed, NEW unsaid,
           LastWord(q, requests, keys, unsaid),
           \A x \in Caller : x # c => next[x] = requests[x],
           requests[c].pc # "send", next[c].pc = "send",
           next[c].op = "sub" <=> next[c].key \in changed,
           \A k \in Key : k # next[c].key => (k \in changed <=> k \in keys)
    PROVE  LastWord(Append(q, c), next, changed, unsaid \ {next[c].key})
<1> DEFINE r == Append(q, c)
           n == Len(q) + 1
<1>1. c \in Party /\ Len(q) \in Nat
  BY LenProperties DEF Party, Lists
<1>2. Len(r) = n /\ r[n] = c /\ \A i \in 1..Len(q) : r[i] = q[i]
  BY <1>1, Joins
<1>3. \A i \in 1..Len(q) : q[i] # c
  BY <1>1 DEF Lists
<1> HIDE DEF r
<1> SUFFICES ASSUME NEW k \in Key, k \notin unsaid \ {next[c].key}, NEW i \in 1..Len(r),
                    LastToSend(r, next, i, k)
             PROVE  next[r[i]].op = "sub" <=> k \in changed
  BY DEF LastWord, r
<1>4. n \in 1..Len(r) /\ (i = n \/ (i \in 1..Len(q) /\ n > i))
  BY <1>1, <1>2
<1>5. CASE k = next[c].key
  <2>1. Sending(next, r[n], k)
    BY <1>2, <1>5 DEF Sending
  <2>2. i = n
    BY <1>4, <2>1 DEF LastToSend
  <2> QED
    BY <1>2, <1>5, <2>2
<1>6. CASE k # next[c].key
  <2>1. r[i] # c
    BY <1>6 DEF LastToSend, Sending
  <2>2. i \in 1..Len(q) /\ r[i] = q[i]
    BY <1>2, <1>4, <2>1
  <2>3. Sending(requests, q[i], k) /\ next[r[i]] = requests[q[i]]
    BY <2>1, <2>2 DEF LastToSend, Sending
  <2>4. ASSUME NEW j \in 1..Len(q), j > i
        PROVE  ~Sending(requests, q[j], k)
    <3>1. j \in 1..Len(r) /\ r[j] = q[j] /\ q[j] # c
      BY <1>1, <1>2, <1>3
    <3>2. ~Sending(next, q[j], k)
      BY <2>4, <3>1 DEF LastToSend
    <3> QED
      BY <3>1, <3>2 DEF Sending
  <2>5. requests[q[i]].op = "sub" <=> k \in keys
    BY <1>6, <2>2, <2>3, <2>4 DEF LastWord, LastToSend
  <2> QED
    BY <1>6, <2>3, <2>5
<1> QED
  BY <1>5, <1>6

\* A change nobody is told of: it is unsaid if a frame waits that may say otherwise.
LEMMA ChangeIsSilent ==
    ASSUME NEW q, NEW S, Lists(q, S), NEW requests, NEW keys, NEW changed, NEW unsaid, NEW k,
           LastWord(q, requests, keys, unsaid),
           \A x \in Key : x # k => (x \in changed <=> x \in keys),
           NEW now, unsaid \subseteq now,
           changed = keys \/ k \in now \/ \A p \in Caller : ~Sending(requests, p, k)
    PROVE  LastWord(q, requests, changed, now)
<1> SUFFICES ASSUME NEW x \in Key, x \notin now, NEW i \in 1..Len(q),
                    LastToSend(q, requests, i, x)
             PROVE  requests[q[i]].op = "sub" <=> x \in changed
  BY DEF LastWord
<1>1. requests[q[i]].op = "sub" <=> x \in keys
  BY DEF LastWord
<1>2. Sending(requests, q[i], x) /\ q[i] \in Caller
  BY DEF LastToSend, Sending
<1> QED
  BY <1>1, <1>2

\* The holder's frame is on its way: if it is the last of its key, the broker has now been
\* told what is desired of it.
LEMMA FrameIsSent ==
    ASSUME NEW q, NEW S, Lists(q, S), NEW c \in Caller, 1 \in 1..Len(q), q[1] = c,
           NEW requests, NEW next, NEW keys, NEW unsaid, NEW granted,
           requests[c].pc = "send", next[c].pc # "send",
           \A x \in Caller : x # c => next[x] = requests[x],
           LastWord(q, requests, keys, unsaid),
           Tells(requests, keys, unsaid, granted)
    PROVE  Tells(next, keys, unsaid, Granted(granted, requests[c].op, requests[c].key))
<1> SUFFICES ASSUME NEW k \in Key, k \notin unsaid, \A p \in Caller : ~Sending(next, p, k)
             PROVE  k \in Granted(granted, requests[c].op, requests[c].key) <=> k \in keys
  BY DEF Tells
<1>1. \A p \in Caller : p # c => ~Sending(requests, p, k)
  BY DEF Sending
<1>2. CASE k = requests[c].key
  <2>1. Sending(requests, q[1], k)
    BY <1>2 DEF Sending
  <2>2. ASSUME NEW j \in 1..Len(q), j > 1
        PROVE  ~Sending(requests, q[j], k)
    <3>1. q[j] # c
      BY <2>2 DEF Lists
    <3> QED
      BY <1>1, <3>1 DEF Sending
  <2>3. requests[c].op = "sub" <=> k \in keys
    BY <2>1, <2>2 DEF LastWord, LastToSend
  <2> QED
    BY <1>2, <2>3 DEF Granted
<1>3. CASE k # requests[c].key
  <2>1. \A p \in Caller : ~Sending(requests, p, k)
    BY <1>1, <1>3 DEF Sending
  <2> QED
    BY <1>3, <2>1 DEF Tells, Granted
<1> QED
  BY <1>2, <1>3

\* A request that does not send changes to another that does not.
LEMMA TellsStill ==
    ASSUME NEW requests, NEW next, NEW keys, NEW unsaid, NEW granted, NEW c,
           Tells(requests, keys, unsaid, granted),
           \A x \in Caller : x # c => next[x] = requests[x],
           c \in Caller => requests[c].pc # "send" /\ next[c].pc # "send"
    PROVE  Tells(next, keys, unsaid, granted)
<1>1. \A p \in Caller, k \in Key : Sending(next, p, k) <=> Sending(requests, p, k)
  BY DEF Sending
<1> QED
  BY <1>1 DEF Tells

-----------------------------------------------------------------------------
(* The lock, as the parties ask for it and leave it.                       *)

\* Who waits for the lock.
LEMMA WhoWaits ==
    /\ Run \in Party /\ Run \notin Caller /\ Run \notin Leaver
    /\ Run \in Waiting <=> pc = "release"
    /\ \A c \in Caller : c \in Party /\ c # Run /\ c \notin Leaver
                         /\ (c \in Waiting <=> call[c].pc # "idle")
    /\ \A l \in Leaver : l \in Party /\ l # Run /\ l \notin Caller
                         /\ (l \in Waiting <=> leaving[l].pc \in {"release", "abort"})
BY UpstoxFeedAssumption DEF Waiting, Party

\* A queue lists whoever is as good as these.
LEMMA SameParties ==
    ASSUME NEW q, NEW S, NEW T, Lists(q, S), \A p \in Party : p \in S <=> p \in T
    PROVE  Lists(q, T)
BY DEF Lists

\* Joining the lock leaves its holder alone.
LEMMA HeadStays ==
    ASSUME NEW q, NEW S, Lists(q, S), NEW p \in Party, q # <<>>
    PROVE  Append(q, p) # <<>> /\ Head(Append(q, p)) = Head(q)
BY HeadTailAppend, AppendProperties DEF Lists

\* Only the holder waits for a buffer.
LEMMA WhoDrains ==
    ASSUME UpstoxInv, NEW c \in Caller, call[c].pc = "drain"
    PROVE  _sub_lock # <<>> /\ Head(_sub_lock) = c
BY DEF UpstoxInv, Queue, Holds

\* The holder is the first of the queue.
LEMMA HolderIsFirst ==
    ASSUME UpstoxInv, NEW p, Holds(p)
    PROVE  /\ Lists(_sub_lock, Waiting) /\ _sub_lock # <<>> /\ Head(_sub_lock) = p
           /\ 1 \in 1..Len(_sub_lock) /\ _sub_lock[1] = p
           /\ Lists(Tail(_sub_lock), Waiting \ {p})
           /\ Thins(Tail(_sub_lock), _sub_lock, p)
           /\ \A c \in Caller : c # p => call[c].pc # "drain"
<1>1. Lists(_sub_lock, Waiting) /\ _sub_lock # <<>> /\ Head(_sub_lock) = p
  BY DEF UpstoxInv, Queue, Holds
<1>2. /\ Head(_sub_lock) = _sub_lock[1] /\ Len(_sub_lock) \in Nat \ {0}
      /\ Lists(Tail(_sub_lock), Waiting \ {p})
      /\ Thins(Tail(_sub_lock), _sub_lock, p)
  BY <1>1, Leaves
<1>3. \A c \in Caller : c # p => call[c].pc # "drain"
  BY <1>1, WhoDrains
<1> QED
  BY <1>1, <1>2, <1>3

\* A run joins the queue, or leaves it, or both; the handlers stay where they are.
LEMMA RunMoves ==
    ASSUME UpstoxInv, NEW p \in Party \ Caller,
           UNCHANGED <<call, _instrument_keys, missed>>,
           \A x \in Party : x # p => (x \in Waiting' <=> x \in Waiting),
           \/ p \notin Waiting /\ p \in Waiting' /\ _sub_lock' = Append(_sub_lock, p)
           \/ Holds(p) /\ p \notin Waiting' /\ _sub_lock' = Tail(_sub_lock)
           \/ Holds(p) /\ p \in Waiting' /\ _sub_lock' = Append(Tail(_sub_lock), p)
    PROVE  Queue' /\ Word'
<1> DEFINE q == _sub_lock
<1>1. /\ Lists(q, Waiting) /\ LastWord(q, call, _instrument_keys, missed)
      /\ p \in Party /\ p \notin Caller
  BY DEF UpstoxInv, Queue, Word
<1>2. ASSUME NEW T, Lists(_sub_lock', T),
             \A x \in Party : x # p => (x \in T <=> x \in Waiting),
             p \in T <=> p \in Waiting',
             \A d \in Caller : call[d].pc = "drain" => Holds(d)',
             LastWord(_sub_lock', call, _instrument_keys, missed)
      PROVE  Queue' /\ Word'
  <2>1. \A x \in Party : x \in T <=> x \in Waiting'
    BY <1>2
  <2>2. Lists(_sub_lock', Waiting')
    BY <1>2, <2>1, SameParties
  <2> QED
    BY <1>2, <2>2 DEF Queue, Word
<1>3. CASE p \notin Waiting /\ p \in Waiting' /\ _sub_lock' = Append(_sub_lock, p)
  <2>1. Lists(_sub_lock', Waiting \cup {p}) /\ Thins(_sub_lock', q, p)
    BY <1>1, <1>3, Joins
  <2>2. \A d \in Caller : call[d].pc = "drain" => Holds(d)'
    BY <1>1, <1>3, WhoDrains, HeadStays DEF Holds
  <2>3. LastWord(_sub_lock', call, _instrument_keys, missed)
    BY <1>1, <2>1, WordStays
  <2> QED
    BY <1>2, <1>3, <2>1, <2>2, <2>3
<1>4. ASSUME Holds(p)
      PROVE  /\ Lists(Tail(q), Waiting \ {p})
             /\ LastWord(Tail(q), call, _instrument_keys, missed)
             /\ \A d \in Caller : call[d].pc # "drain"
  <2>1. /\ Lists(Tail(q), Waiting \ {p}) /\ Thins(Tail(q), q, p)
        /\ \A d \in Caller : call[d].pc # "drain"
    BY <1>1, <1>4, HolderIsFirst
  <2> QED
    BY <1>1, <2>1, WordStays
<1>5. CASE Holds(p) /\ p \notin Waiting' /\ _sub_lock' = Tail(_sub_lock)
  BY <1>2, <1>4, <1>5
<1>6. CASE Holds(p) /\ p \in Waiting' /\ _sub_lock' = Append(Tail(_sub_lock), p)
  <2>1. /\ Lists(_sub_lock', (Waiting \ {p}) \cup {p})
        /\ Thins(_sub_lock', Tail(q), p)
    BY <1>1, <1>4, <1>6, Joins
  <2>2. LastWord(_sub_lock', call, _instrument_keys, missed)
    BY <1>1, <1>4, <1>6, <2>1, WordStays
  <2> QED
    BY <1>2, <1>4, <1>6, <2>1, <2>2
<1> QED
  BY <1>3, <1>5, <1>6

\* The run in progress is taken out wherever it stands, and a leaver joins.
LEMMA RunIsReplaced ==
    ASSUME UpstoxInv, NEW l \in Leaver, l \notin Waiting, l \in Waiting', Run \notin Waiting',
           UNCHANGED <<call, _instrument_keys, missed>>,
           \A x \in Party : x \notin {l, Run} => (x \in Waiting' <=> x \in Waiting),
           _sub_lock' = Append(Without(Run), l)
    PROVE  Queue' /\ Word'
<1> DEFINE q == _sub_lock
           w == Without(Run)
<1>1. /\ Lists(q, Waiting) /\ LastWord(q, call, _instrument_keys, missed)
      /\ l \in Party /\ l \notin Caller /\ l # Run /\ Run \in Party /\ Run \notin Caller
  BY WhoWaits DEF UpstoxInv, Queue, Word
<1>2. /\ Lists(w, Waiting \ {Run}) /\ Thins(w, q, Run)
      /\ q # <<>> /\ Head(q) # Run => w # <<>> /\ Head(w) = Head(q)
  BY <1>1, TakenOut DEF Without
<1> HIDE DEF w
<1>3. LastWord(w, call, _instrument_keys, missed)
  BY <1>1, <1>2, WordStays
<1>4. /\ Lists(_sub_lock', (Waiting \ {Run}) \cup {l})
      /\ Thins(_sub_lock', w, l)
  BY <1>1, <1>2, Joins DEF w
<1>5. LastWord(_sub_lock', call, _instrument_keys, missed)
  BY <1>1, <1>2, <1>3, <1>4, WordStays
<1>6. \A d \in Caller : call[d].pc = "drain" => Holds(d)'
  <2> SUFFICES ASSUME NEW d \in Caller, call[d].pc = "drain" PROVE Holds(d)'
    OBVIOUS
  <2>1. q # <<>> /\ Head(q) = d /\ d # Run
    BY WhoDrains, WhoWaits
  <2>2. w # <<>> /\ Head(w) = d
    BY <1>2, <2>1
  <2>3. Append(w, l) # <<>> /\ Head(Append(w, l)) = d
    BY <1>1, <1>2, <2>2, HeadStays
  <2> QED
    BY <2>3 DEF Holds, w
<1>7. \A x \in Party : x \in (Waiting \ {Run}) \cup {l} <=> x \in Waiting'
  BY <1>1
<1>8. Lists(_sub_lock', Waiting')
  BY <1>4, <1>7, SameParties
<1> QED
  BY <1>5, <1>6, <1>8 DEF Queue, Word

\* A step that leaves the lock and what the handlers do alone.
LEMMA QuietStep ==
    ASSUME UpstoxInv, UpstoxTypes', Sockets', Held', Alone',
           UNCHANGED <<_instrument_keys, socket, _live_ws, _sub_lock, call, missed, leaving>>,
           pc' = "release" <=> pc = "release",
           pc' \in Session => pc \in Session /\ ws' = ws
    PROVE  UpstoxInv'
<1>1. Queue'
  <2>1. \A p \in Party : p \in Waiting <=> p \in Waiting'
    BY DEF Waiting
  <2>2. Lists(_sub_lock, Waiting)'
    BY <2>1, SameParties DEF UpstoxInv, Queue
  <2> QED
    BY <2>2 DEF UpstoxInv, Queue, Holds
<1>2. Word' /\ Told'
  BY DEF UpstoxInv, Word, Told
<1> QED
  BY <1>1, <1>2 DEF UpstoxInv

-----------------------------------------------------------------------------
(* The run between its sockets.                                            *)

\* Steps of the run between sockets, and those that only take in what comes.
LEMMA RunKeeps ==
    ASSUME UpstoxInv,
           \/ Start \/ Authorized \/ AuthorizeFails \/ ConnectFails
           \/ \E K \in SUBSET Key : ReceiveFrame(K)
           \/ \E k \in Key : Applied(k)
           \/ Closed \/ BackoffEnds \/ Stop \/ UpdateCredentials
    PROVE  UpstoxInv'
<1> USE DEF UpstoxInv
<1>1. UNCHANGED <<_instrument_keys, socket, _live_ws, _sub_lock, call, missed, leaving, lost>>
  BY DEF Start, Authorized, AuthorizeFails, ConnectFails, ReceiveFrame, Applied, Closed,
         BackoffEnds, Stop, UpdateCredentials, leaverVars
<1>2. faults \in 0..MaxFaults /\ frames \in 0..MaxFrames
      /\ MaxFaults \in Nat /\ MaxFrames \in Nat
  BY UpstoxFeedAssumption DEF UpstoxTypes
<1>3. CASE Start \/ Authorized \/ AuthorizeFails \/ ConnectFails \/ Closed \/ BackoffEnds
  <2>1. /\ pc \in {"authorize", "connect", "backoff", "ended", "close"}
        /\ pc' \in {"authorize", "connect", "backoff", "ended"}
        /\ outcome' \in {"none", outcome} /\ todo' \in {{}, todo}
        /\ calls' = calls /\ frames' = frames
        /\ stop_event' \in BOOLEAN
        /\ _state' \in {"stopped", "authorizing", "connecting", "reconnecting", "failed",
                        "auth_required"}
    BY <1>3 DEF Start, Authorized, AuthorizeFails, ConnectFails, Closed, BackoffEnds,
            EnterSession, End, Leave, countVars, UpstoxTypes
  <2>2. ws' = 0
    <3>1. pc # "close" => ws = 0
      BY <2>1 DEF Sockets
    <3> QED
      BY <1>3, <3>1 DEF Start, Authorized, AuthorizeFails, ConnectFails, Closed, BackoffEnds,
              EnterSession, End, Leave
  <2>3. faults' \in 0..MaxFaults
    <3>1. faults' = faults \/ (faults < MaxFaults /\ faults' = faults + 1)
      BY <1>3 DEF Start, Authorized, AuthorizeFails, ConnectFails, Closed, BackoffEnds, Fault
    <3> QED
      BY <1>2, <3>1
  <2>4. /\ overlapped' \in BOOLEAN
        /\ overlapped => overlapped'
        /\ pc = "ended" /\ ~overlapped' => \A l \in Leaver : leaving[l].pc = "none"
    BY <1>3 DEF Start, Authorized, AuthorizeFails, ConnectFails, Closed, BackoffEnds,
            leaverVars, UpstoxTypes
  <2>5. UpstoxTypes'
    <3>1. 0 \in 0..Len(socket)
      BY LenProperties DEF UpstoxTypes
    <3> QED
      BY <1>1, <2>1, <2>2, <2>3, <2>4, <3>1 DEF UpstoxTypes, Waits
  <2>6. Sockets'
    BY <1>1, <2>1, <2>2 DEF Sockets, Session
  <2>7. Held'
    BY <1>1, <2>1 DEF Held, Session, Reclaims
  <2>8. Alone'
    BY <1>1, <2>1, <2>4 DEF Alone, Session
  <2> QED
    BY <1>1, <2>1, <2>5, <2>6, <2>7, <2>8, QuietStep DEF Session
<1>4. CASE \/ \E K \in SUBSET Key : ReceiveFrame(K)
           \/ \E k \in Key : Applied(k)
  <2>1. /\ pc \in {"recv", "apply"} /\ pc' \in {"recv", "apply"}
        /\ UNCHANGED <<_state, outcome, ws, stop_event, calls, faults, overlapped>>
        /\ todo' \subseteq Key
    BY <1>4 DEF ReceiveFrame, Applied, UpstoxTypes, countVars, leaverVars
  <2>2. frames' \in 0..MaxFrames
    <3>1. frames' = frames \/ (frames < MaxFrames /\ frames' = frames + 1)
      BY <1>4 DEF ReceiveFrame, Applied, countVars
    <3> QED
      BY <1>2, <3>1
  <2>3. UpstoxTypes'
    BY <1>1, <2>1, <2>2 DEF UpstoxTypes, Waits
  <2>4. Sockets' /\ Held' /\ Alone'
    BY <1>1, <2>1 DEF Sockets, Held, Alone, Session, Reclaims
  <2> QED
    BY <1>1, <2>1, <2>3, <2>4, QuietStep DEF Session
<1>5. CASE Stop
  <2>1. UNCHANGED <<pc, _state, outcome, todo, ws, overlapped, calls, frames, faults>>
        /\ stop_event' = TRUE
    BY <1>5 DEF Stop, runVars, countVars, leaverVars
  <2>2. UpstoxTypes' /\ Sockets' /\ Held' /\ Alone'
    BY <1>1, <2>1 DEF UpstoxTypes, Sockets, Held, Alone, Reclaims
  <2> QED
    BY <1>1, <2>1, <2>2, QuietStep
<1>6. CASE UpdateCredentials
  <2>1. /\ UNCHANGED <<pc, outcome, todo, ws, stop_event, overlapped, calls, frames, faults>>
        /\ _state' = "stopped"
    BY <1>6 DEF UpdateCredentials, countVars, leaverVars
  <2>2. UpstoxTypes' /\ Sockets' /\ Held' /\ Alone'
    BY <1>1, <2>1 DEF UpstoxTypes, Sockets, Held, Alone, Reclaims
  <2> QED
    BY <1>1, <2>1, <2>2, QuietStep
<1> QED
  BY <1>3, <1>4, <1>5, <1>6

-----------------------------------------------------------------------------
(* The handlers.                                                           *)

\* One handler's request changes, and its place in the queue with it.
LEMMA CallMoves ==
    ASSUME UpstoxInv, NEW c \in Caller, NEW r \in Change, call' = [call EXCEPT ![c] = r],
           UNCHANGED <<pc, leaving>>,
           \/ /\ call[c].pc = "idle" /\ r.pc = "change"
              /\ _sub_lock' = Append(_sub_lock, c)
           \/ /\ call[c].pc # "idle" /\ Holds(c) /\ r.pc = "idle"
              /\ _sub_lock' = Tail(_sub_lock)
           \/ /\ call[c].pc # "idle" /\ Holds(c) /\ r.pc = "send"
              /\ _sub_lock' = SendLast(c)
           \/ /\ call[c].pc # "idle" /\ Holds(c) /\ r.pc = "drain"
              /\ _sub_lock' = _sub_lock
    PROVE  /\ Queue' /\ call' \in [Caller -> Change] /\ call'[c] = r
           /\ \A p \in Caller : p # c => call'[p] = call[p]
<1> DEFINE q == _sub_lock
<1>1. Lists(q, Waiting) /\ call \in [Caller -> Change]
      /\ \A d \in Caller : call[d].pc = "drain" => Holds(d)
  BY DEF UpstoxInv, UpstoxTypes, Queue
<1>2. call'[c] = r /\ call' \in [Caller -> Change]
      /\ \A d \in Caller : d # c => call'[d] = call[d]
  BY <1>1
<1>3. c \in Party /\ (c \in Waiting <=> call[c].pc # "idle")
      /\ (c \in Waiting' <=> r.pc # "idle")
      /\ \A p \in Party : p # c => (p \in Waiting' <=> p \in Waiting)
  BY <1>2, UpstoxFeedAssumption DEF Waiting, Party
<1>4. ASSUME NEW T, Lists(_sub_lock', T), \A p \in Party : p # c => (p \in T <=> p \in Waiting),
             c \in T <=> r.pc # "idle",
             \A d \in Caller : call'[d].pc = "drain" => Holds(d)'
      PROVE  Queue'
  <2>1. \A p \in Party : p \in T <=> p \in Waiting'
    BY <1>3, <1>4
  <2>2. Lists(_sub_lock', Waiting')
    BY <1>4, <2>1, SameParties
  <2> QED
    BY <1>4, <2>2 DEF Queue
<1>5. ASSUME Holds(c)
      PROVE  /\ Lists(Tail(q), Waiting \ {c})
             /\ \A d \in Caller : d # c => call[d].pc # "drain"
  BY <1>5, HolderIsFirst
<1>6. CASE /\ call[c].pc = "idle" /\ r.pc = "change"
           /\ _sub_lock' = Append(_sub_lock, c)
  <2>1. Lists(_sub_lock', Waiting \cup {c})
    BY <1>1, <1>3, <1>6, Joins
  <2>2. ASSUME NEW d \in Caller, call'[d].pc = "drain"
        PROVE  Holds(d)'
    <3>1. Holds(d)
      BY <1>1, <1>2, <1>6, <2>2
    <3> QED
      BY <1>1, <1>3, <1>6, <3>1, HeadStays DEF Holds
  <2> QED
    BY <1>2, <1>4, <1>6, <2>1, <2>2
<1>7. CASE /\ call[c].pc # "idle" /\ Holds(c) /\ r.pc = "idle"
           /\ _sub_lock' = Tail(_sub_lock)
  <2>1. \A d \in Caller : call'[d].pc # "drain"
    BY <1>2, <1>5, <1>7
  <2>2. Lists(_sub_lock', Waiting \ {c})
    BY <1>5, <1>7
  <2> QED
    BY <1>2, <1>4, <1>7, <2>1, <2>2
<1>8. CASE /\ call[c].pc # "idle" /\ Holds(c) /\ r.pc = "send"
           /\ _sub_lock' = SendLast(c)
  <2>1. \A d \in Caller : call'[d].pc # "drain"
    BY <1>2, <1>5, <1>8
  <2>2. Lists(_sub_lock', (Waiting \ {c}) \cup {c})
    BY <1>3, <1>5, <1>8, Joins DEF SendLast
  <2> QED
    BY <1>2, <1>4, <1>8, <2>1, <2>2
<1>9. CASE /\ call[c].pc # "idle" /\ Holds(c) /\ r.pc = "drain"
           /\ _sub_lock' = _sub_lock
  <2>1. \A d \in Caller : call'[d].pc = "drain" => Holds(d)'
    BY <1>2, <1>5, <1>9 DEF Holds
  <2>2. Lists(_sub_lock', Waiting) /\ c \in Waiting
    BY <1>1, <1>3, <1>9
  <2> QED
    BY <1>2, <1>4, <1>9, <2>1, <2>2
<1> QED
  BY <1>2, <1>6, <1>7, <1>8, <1>9

\* What the handlers do leaves the runs and their sockets alone.
LEMMA RunsStay ==
    ASSUME UpstoxInv,
           UNCHANGED <<pc, outcome, ws, _live_ws, leaving, lost, overlapped>>,
           socket' \in Seq(Socket), Len(socket') = Len(socket),
           \A m \in 1..Len(socket) : /\ socket'[m].open <=> socket[m].open
                                     /\ socket'[m].alive => socket[m].alive
    PROVE  Sockets' /\ Held' /\ Alone'
<1>1. Len(socket) \in Nat /\ ws \in 0..Len(socket)
  BY LenProperties DEF UpstoxInv, UpstoxTypes
<1>2. ws # 0 => (socket'[ws].open <=> socket[ws].open)
  BY <1>1
<1>3. Sockets'
  BY <1>2 DEF UpstoxInv, Sockets
<1>4. Held' /\ Alone'
  BY DEF UpstoxInv, Held, Alone, Reclaims
<1> QED
  BY <1>3, <1>4

\* A handler asks for the lock.
LEMMA RequestKeeps ==
    ASSUME UpstoxInv, NEW c \in Caller, NEW op \in {"sub", "unsub"}, NEW k \in Key,
           RequestChange(c, op, k)
    PROVE  UpstoxInv'
<1> DEFINE r == [pc |-> "change", op |-> op, key |-> k]
<1>1. /\ call[c].pc = "idle" /\ calls < MaxCalls /\ calls' = calls + 1
      /\ call' = [call EXCEPT ![c] = r]
      /\ _sub_lock' = Append(_sub_lock, c)
      /\ UNCHANGED <<_instrument_keys, _state, pc, outcome, todo, ws, stop_event, leaving,
                     lost, overlapped, socket, _live_ws, frames, faults, missed>>
  BY DEF RequestChange, runVars, leaverVars
<1>2. r \in Change /\ r.pc = "change"
  BY DEF Change
<1> HIDE DEF r
<1>3. /\ Queue' /\ call' \in [Caller -> Change] /\ call'[c] = r
      /\ \A p \in Caller : p # c => call'[p] = call[p]
  BY <1>1, <1>2, CallMoves
<1>4. calls' \in 0..MaxCalls
  BY <1>1, UpstoxFeedAssumption DEF UpstoxInv, UpstoxTypes
<1>5. UpstoxTypes'
  BY <1>1, <1>3, <1>4 DEF UpstoxInv, UpstoxTypes
<1>6. Sockets' /\ Held' /\ Alone'
  BY <1>1, RunsStay DEF UpstoxInv, UpstoxTypes
<1>7. Word'
  <2>1. c \in Party /\ c \notin Waiting /\ Lists(_sub_lock, Waiting)
    BY <1>1, WhoWaits DEF UpstoxInv, Queue
  <2>2. Thins(_sub_lock', _sub_lock, c)
    BY <1>1, <2>1, Joins
  <2> QED
    BY <1>1, <1>2, <1>3, <2>1, <2>2, WordStays DEF UpstoxInv, Word
<1>8. Told'
  BY <1>1, <1>2, <1>3, TellsStill DEF UpstoxInv, Told
<1> QED
  BY <1>3, <1>5, <1>6, <1>7, <1>8 DEF UpstoxInv

\* What a change makes of the desired set.
LEMMA WhatChanges ==
    ASSUME UpstoxTypes, NEW op \in {"sub", "unsub"}, NEW k \in Key
    PROVE  /\ Changed(op, k) \in (SUBSET Key) \ {{}}
           /\ \A x \in Key : x # k => (x \in Changed(op, k) <=> x \in _instrument_keys)
           /\ Changed(op, k) # _instrument_keys => (op = "sub" <=> k \in Changed(op, k))
BY DEF UpstoxTypes, Changed

\* The holder changes the desired set, and sends its frame last or not at all.
LEMMA ChangeKeeps ==
    ASSUME UpstoxInv, NEW c \in Caller, ChangeKeys(c)
    PROVE  UpstoxInv'
<1> DEFINE k == call[c].key
           op == call[c].op
           changed == Changed(op, k)
           granted == socket[ws].granted
<1>1. /\ call[c].pc = "change" /\ Holds(c) /\ _instrument_keys' = changed
      /\ UNCHANGED <<_state, pc, outcome, todo, ws, stop_event, leaving, lost, overlapped,
                     socket, _live_ws, calls, frames, faults>>
  BY DEF ChangeKeys, runVars, countVars, leaverVars
<1>2. /\ call[c] \in Change /\ k \in Key /\ op \in {"sub", "unsub"}
      /\ call \in [Caller -> Change] /\ missed \subseteq Key
  BY DEF UpstoxInv, UpstoxTypes, Change
<1>3. /\ changed \in (SUBSET Key) \ {{}}
      /\ \A x \in Key : x # k => (x \in changed <=> x \in _instrument_keys)
      /\ changed # _instrument_keys => (op = "sub" <=> k \in changed)
  BY <1>2, WhatChanges DEF UpstoxInv
<1>4. /\ Lists(_sub_lock, Waiting) /\ c \in Party
      /\ Lists(Tail(_sub_lock), Waiting \ {c}) /\ Thins(Tail(_sub_lock), _sub_lock, c)
  BY <1>1, WhoWaits, HolderIsFirst
<1>5. Sockets' /\ Held' /\ Alone'
  BY <1>1, RunsStay DEF UpstoxInv, UpstoxTypes
<1>6. Idle \in Change /\ Idle.pc = "idle"
  BY UpstoxFeedAssumption DEF Idle, Change
<1>7. LastWord(_sub_lock, call, _instrument_keys, missed)
  BY DEF UpstoxInv, Word
<1>8. ASSUME pc \in Session, socket[ws].alive, _live_ws = ws
      PROVE  Tells(call, _instrument_keys, missed, granted) /\ _live_ws # 0
  BY <1>8 DEF UpstoxInv, Told, Sockets
<1> HIDE DEF changed
<1>9. CASE changed # _instrument_keys /\ _state = "streaming"
  <2> DEFINE r == [call[c] EXCEPT !.pc = "send"]
  <2>1. call' = [call EXCEPT ![c] = r] /\ _sub_lock' = SendLast(c) /\ missed' = missed \ {k}
    BY <1>2, <1>9 DEF ChangeKeys, changed
  <2>2. r \in Change /\ r.pc = "send" /\ r.op = op /\ r.key = k
    BY <1>2 DEF Change
  <2> HIDE DEF r
  <2>3. /\ Queue' /\ call' \in [Caller -> Change] /\ call'[c] = r
        /\ \A p \in Caller : p # c => call'[p] = call[p]
    BY <1>1, <2>1, <2>2, CallMoves
  <2>4. UpstoxTypes'
    BY <1>1, <1>2, <1>3, <2>1, <2>3 DEF UpstoxInv, UpstoxTypes
  <2>5. /\ call[c].pc # "send" /\ call'[c].pc = "send" /\ call'[c].key = k
        /\ call'[c].op = "sub" <=> k \in changed
    BY <1>1, <1>3, <1>9, <2>2, <2>3
  <2>6. Word'
    <3>1. LastWord(Tail(_sub_lock), call, _instrument_keys, missed)
      BY <1>4, <1>7, <2>5, WordStays
    <3>2. LastWord(Append(Tail(_sub_lock), c), call', changed, missed \ {k})
      BY <1>3, <1>4, <2>3, <2>5, <3>1, FrameJoins
    <3> QED
      BY <1>1, <2>1, <3>2 DEF Word, SendLast
  <2>7. Told'
    <3> SUFFICES ASSUME pc \in Session, socket[ws].alive, _live_ws = ws,
                        NEW x \in Key, x \notin missed \ {k},
                        \A p \in Caller : ~Sending(call', p, x)
                 PROVE  x \in granted <=> x \in changed
      BY <1>1, <2>1 DEF Told, Tells
    <3>1. x # k
      BY <2>5 DEF Sending
    <3>2. \A p \in Caller : ~Sending(call, p, x)
      BY <2>3, <2>5 DEF Sending
    <3> QED
      BY <1>3, <1>8, <3>1, <3>2 DEF Tells
  <2> QED
    BY <1>5, <2>3, <2>4, <2>6, <2>7 DEF UpstoxInv
<1>10. CASE ~(changed # _instrument_keys /\ _state = "streaming")
  <2>1. /\ call' = [call EXCEPT ![c] = Idle] /\ _sub_lock' = Tail(_sub_lock)
        /\ missed' = missed \cup {x \in {k} : changed # _instrument_keys
                                              /\ (_live_ws # 0 \/ FrameWaits(k))}
    BY <1>10 DEF ChangeKeys, changed
  <2>2. /\ Queue' /\ call' \in [Caller -> Change] /\ call'[c] = Idle
        /\ \A p \in Caller : p # c => call'[p] = call[p]
    BY <1>1, <1>6, <2>1, CallMoves
  <2>3. missed' \subseteq Key /\ missed \subseteq missed'
    BY <1>2, <2>1
  <2>4. UpstoxTypes'
    BY <1>1, <1>3, <2>2, <2>3 DEF UpstoxInv, UpstoxTypes
  <2>5. call[c].pc # "send" /\ call'[c].pc # "send"
    BY <1>1, <1>6, <2>2
  <2>6. Word'
    <3>1. LastWord(Tail(_sub_lock), call', _instrument_keys, missed)
      BY <1>4, <1>7, <2>2, <2>5, WordStays
    <3>2. changed = _instrument_keys \/ k \in missed' \/ \A p \in Caller : ~Sending(call', p, k)
      <4>1. ~FrameWaits(k) => \A p \in Caller : ~Sending(call', p, k)
        BY <2>2, <2>5 DEF FrameWaits, Sending
      <4> QED
        BY <2>1, <4>1
    <3>3. LastWord(Tail(_sub_lock), call', changed, missed')
      BY <1>3, <1>4, <2>3, <3>1, <3>2, ChangeIsSilent
    <3> QED
      BY <1>1, <2>1, <3>3 DEF Word
  <2>7. Told'
    <3> SUFFICES ASSUME pc \in Session, socket[ws].alive, _live_ws = ws,
                        NEW x \in Key, x \notin missed',
                        \A p \in Caller : ~Sending(call', p, x)
                 PROVE  x \in granted <=> x \in changed
      BY <1>1 DEF Told, Tells
    <3>1. x \in granted <=> x \in _instrument_keys
      <4>1. \A p \in Caller : ~Sending(call, p, x)
        BY <2>2, <2>5 DEF Sending
      <4> QED
        BY <1>8, <2>3, <4>1 DEF Tells
    <3>2. x # k \/ changed = _instrument_keys
      BY <1>8, <2>1
    <3> QED
      BY <1>3, <3>1, <3>2
  <2> QED
    BY <1>5, <2>2, <2>4, <2>6, <2>7 DEF UpstoxInv
<1> QED
  BY <1>9, <1>10

\* One socket changes.
LEMMA SocketSet ==
    ASSUME socket \in Seq(Socket), NEW n \in 1..Len(socket), NEW s \in Socket,
           socket' = [socket EXCEPT ![n] = s]
    PROVE  /\ socket' \in Seq(Socket) /\ Len(socket') = Len(socket) /\ socket'[n] = s
           /\ \A m \in 1..Len(socket) : m # n => socket'[m] = socket[m]
BY ExceptSeq

\* A socket is closed.
LEMMA SocketCloses ==
    ASSUME UpstoxTypes, NEW n \in 1..Len(socket), socket' = Close(n)
    PROVE  /\ socket' \in Seq(Socket) /\ Len(socket') = Len(socket)
           /\ ~socket'[n].open /\ ~socket'[n].alive
           /\ \A m \in 1..Len(socket) : m # n => socket'[m] = socket[m]
<1> DEFINE s == [open |-> FALSE, alive |-> FALSE, granted |-> {}]
<1>1. s \in Socket /\ ~s.open /\ ~s.alive
  BY DEF Socket
<1>2. socket' = [socket EXCEPT ![n] = s]
  BY DEF Close
<1> HIDE DEF s
<1> QED
  BY <1>1, <1>2, SocketSet DEF UpstoxTypes

\* The holder's frame leaves, or there is nobody to send it to.
LEMMA SendKeeps ==
    ASSUME UpstoxInv, NEW c \in Caller, SendMutation(c)
    PROVE  UpstoxInv'
<1> DEFINE k == call[c].key
           op == call[c].op
<1>1. /\ call[c].pc = "send" /\ Holds(c)
      /\ UNCHANGED <<_instrument_keys, _state, pc, outcome, todo, ws, stop_event, leaving,
                     lost, overlapped, _live_ws, calls, frames, faults, missed>>
  BY DEF SendMutation, runVars, countVars, leaverVars
<1>2. /\ call[c] \in Change /\ k \in Key /\ op \in {"sub", "unsub"}
      /\ call \in [Caller -> Change]
      /\ socket \in Seq(Socket) /\ Len(socket) \in Nat
      /\ ws \in 0..Len(socket) /\ _live_ws \in {0, Len(socket)}
  BY LenProperties DEF UpstoxInv, UpstoxTypes, Change
<1>3. /\ Lists(_sub_lock, Waiting) /\ c \in Party
      /\ 1 \in 1..Len(_sub_lock) /\ _sub_lock[1] = c
      /\ Thins(Tail(_sub_lock), _sub_lock, c)
      /\ Thins(_sub_lock, _sub_lock, c)
  BY <1>1, WhoWaits, HolderIsFirst DEF Thins
<1>4. Idle \in Change /\ Idle.pc = "idle"
  BY UpstoxFeedAssumption DEF Idle, Change
<1>5. LastWord(_sub_lock, call, _instrument_keys, missed)
  BY DEF UpstoxInv, Word
<1>6. CASE _live_ws # 0 /\ socket[_live_ws].alive /\ socket[_live_ws].open
  <2> DEFINE r == [call[c] EXCEPT !.pc = "drain"]
             s == [socket[_live_ws] EXCEPT !.granted = Granted(@, op, k)]
  <2>1. /\ call' = [call EXCEPT ![c] = r] /\ _sub_lock' = _sub_lock
        /\ socket' = [socket EXCEPT ![_live_ws] = s]
    BY <1>2, <1>6 DEF SendMutation
  <2>2. r \in Change /\ r.pc = "drain"
    BY <1>2 DEF Change
  <2>3. _live_ws \in 1..Len(socket)
    BY <1>2, <1>6
  <2>4. /\ socket[_live_ws] \in Socket
        /\ s \in Socket /\ s.open = socket[_live_ws].open /\ s.alive = socket[_live_ws].alive
        /\ s.granted = Granted(socket[_live_ws].granted, op, k)
    <3>1. socket[_live_ws] \in Socket
      BY <1>2, <2>3, ElementOfSeq
    <3>2. Granted(socket[_live_ws].granted, op, k) \subseteq Key
      BY <1>2, <3>1 DEF Socket, Granted
    <3> QED
      BY <3>1, <3>2 DEF Socket
  <2> HIDE DEF r, s
  <2>5. /\ Queue' /\ call' \in [Caller -> Change] /\ call'[c] = r
        /\ \A p \in Caller : p # c => call'[p] = call[p]
    BY <1>1, <2>1, <2>2, CallMoves
  <2>6. /\ socket' \in Seq(Socket) /\ Len(socket') = Len(socket) /\ socket'[_live_ws] = s
        /\ \A m \in 1..Len(socket) : m # _live_ws => socket'[m] = socket[m]
    BY <1>2, <2>1, <2>3, <2>4, SocketSet
  <2>7. UpstoxTypes'
    BY <1>1, <1>2, <2>5, <2>6 DEF UpstoxInv, UpstoxTypes
  <2>8. Sockets' /\ Held' /\ Alone'
    <3>1. \A m \in 1..Len(socket) : /\ socket'[m].open <=> socket[m].open
                                    /\ socket'[m].alive => socket[m].alive
      BY <2>4, <2>6
    <3> QED
      BY <1>1, <2>6, <3>1, RunsStay
  <2>9. call[c].pc = "send" /\ call'[c].pc # "send"
    BY <1>1, <2>2, <2>5
  <2>10. Word'
    <3>1. LastWord(_sub_lock, call', _instrument_keys, missed)
      <4> HIDE DEF k, op
      <4> QED
        BY <1>3, <1>5, <2>5, <2>9, WordStays
    <3> QED
      BY <1>1, <2>1, <3>1 DEF Word
  <2>11. Told'
    <3> SUFFICES ASSUME pc \in Session, socket'[ws].alive, _live_ws = ws
                 PROVE  Tells(call', _instrument_keys, missed, socket'[ws].granted)
      BY <1>1 DEF Told
    <3>1. Tells(call, _instrument_keys, missed, socket[ws].granted)
      BY <2>4, <2>6 DEF UpstoxInv, Told
    <3>2. Tells(call', _instrument_keys, missed, Granted(socket[ws].granted, op, k))
      BY <1>3, <1>5, <2>5, <2>9, <3>1, FrameIsSent
    <3> QED
      BY <2>4, <2>6, <3>2
  <2> QED
    BY <2>5, <2>7, <2>8, <2>10, <2>11 DEF UpstoxInv
<1>7. CASE ~(_live_ws # 0 /\ socket[_live_ws].alive /\ socket[_live_ws].open)
  <2>1. /\ call' = [call EXCEPT ![c] = Idle] /\ _sub_lock' = Tail(_sub_lock)
        /\ socket' = socket
    BY <1>7 DEF SendMutation
  <2>2. /\ Queue' /\ call' \in [Caller -> Change] /\ call'[c] = Idle
        /\ \A p \in Caller : p # c => call'[p] = call[p]
    BY <1>1, <1>4, <2>1, CallMoves
  <2>3. UpstoxTypes'
    BY <1>1, <2>1, <2>2 DEF UpstoxInv, UpstoxTypes
  <2>4. Sockets' /\ Held' /\ Alone'
    BY <1>1, <2>1, RunsStay DEF UpstoxInv, UpstoxTypes
  <2>5. call'[c].pc # "send"
    BY <1>4, <2>2
  <2>6. Word'
    <3>1. LastWord(Tail(_sub_lock), call', _instrument_keys, missed)
      <4> HIDE DEF k, op
      <4> QED
        BY <1>3, <1>5, <2>2, <2>5, WordStays
    <3> QED
      BY <1>1, <2>1, <3>1 DEF Word
  <2>7. ~(pc \in Session /\ socket[ws].alive /\ _live_ws = ws)
    <3> SUFFICES ASSUME pc \in Session, socket[ws].alive, _live_ws = ws
                 PROVE  FALSE
      OBVIOUS
    <3>1. ws # 0 /\ ws \in 1..Len(socket)
      BY <1>2 DEF UpstoxInv, Sockets
    <3>2. socket[ws].open
      BY <3>1 DEF UpstoxInv, Sockets
    <3> QED
      BY <1>7, <3>1, <3>2
  <2>8. Told'
    BY <1>1, <2>1, <2>7 DEF Told
  <2> QED
    BY <2>2, <2>3, <2>4, <2>6, <2>8 DEF UpstoxInv
<1> QED
  BY <1>6, <1>7

\* The buffer has room, and the holder leaves.
LEMMA DrainedKeeps ==
    ASSUME UpstoxInv, NEW c \in Caller, Drained(c)
    PROVE  UpstoxInv'
<1>1. /\ call[c].pc = "drain" /\ Holds(c)
      /\ call' = [call EXCEPT ![c] = Idle] /\ _sub_lock' = Tail(_sub_lock)
      /\ UNCHANGED <<_instrument_keys, _state, pc, outcome, todo, ws, stop_event, leaving,
                     lost, overlapped, socket, _live_ws, calls, frames, faults, missed>>
  BY DEF Drained, runVars, countVars, leaverVars, UpstoxInv, Queue
<1>2. Idle \in Change /\ Idle.pc = "idle"
  BY UpstoxFeedAssumption DEF Idle, Change
<1>3. /\ Queue' /\ call' \in [Caller -> Change] /\ call'[c] = Idle
      /\ \A p \in Caller : p # c => call'[p] = call[p]
  BY <1>1, <1>2, CallMoves
<1>4. UpstoxTypes'
  BY <1>1, <1>3 DEF UpstoxInv, UpstoxTypes
<1>5. Sockets' /\ Held' /\ Alone'
  BY <1>1, RunsStay DEF UpstoxInv, UpstoxTypes
<1>6. call[c].pc # "send" /\ call'[c].pc # "send"
  BY <1>1, <1>2, <1>3
<1>7. Word'
  <2>1. /\ Lists(_sub_lock, Waiting) /\ c \in Party
        /\ Thins(Tail(_sub_lock), _sub_lock, c)
    BY <1>1, WhoWaits, HolderIsFirst
  <2> QED
    BY <1>1, <1>3, <1>6, <2>1, WordStays DEF UpstoxInv, Word
<1>8. Told'
  BY <1>1, <1>3, <1>6, TellsStill DEF UpstoxInv, Told
<1> QED
  BY <1>3, <1>4, <1>5, <1>7, <1>8 DEF UpstoxInv

-----------------------------------------------------------------------------
(* The session of the run in progress.                                     *)

\* What is lost with the reference to the live socket.
LEMMA WhatIsLost ==
    ASSUME UpstoxInv
    PROVE  /\ LostWithLive \subseteq 1..Len(socket) /\ lost \subseteq LostWithLive
           /\ \A n \in 1..Len(socket) : n = _live_ws /\ Reclaims(n) => n \in LostWithLive
           /\ LostWithLive # lost => \E l \in Leaver : leaving[l].pc = "abort"
<1>1. Len(socket) \in Nat /\ _live_ws \in {0, Len(socket)} /\ lost \subseteq 1..Len(socket)
  BY LenProperties DEF UpstoxInv, UpstoxTypes
<1>2. LostWithLive # lost => _live_ws # 0 /\ Reclaims(_live_ws)
  BY DEF LostWithLive
<1>3. LostWithLive # lost => \E l \in Leaver : leaving[l].pc = "abort"
  BY <1>2 DEF Reclaims, UpstoxInv, Sockets
<1> QED
  BY <1>1, <1>3 DEF LostWithLive

\* A connection: its socket is live, and was told what is desired at this moment.
LEMMA ConnectedKeeps ==
    ASSUME UpstoxInv, Connected
    PROVE  UpstoxInv'
<1> DEFINE s == [open |-> TRUE, alive |-> TRUE, granted |-> _instrument_keys]
           n == Len(socket) + 1
<1>1. /\ pc = "connect" /\ pc' = "subscribe" /\ socket' = Append(socket, s)
      /\ ws' = n /\ _live_ws' = n /\ lost' = LostWithLive
      /\ missed' = {k \in missed : FrameWaits(k)}
      /\ UNCHANGED <<_instrument_keys, _state, outcome, todo, stop_event, leaving, overlapped,
                     _sub_lock, call, calls, frames, faults>>
  BY DEF Connected, SubscriptionFrame, countVars
<1>2. /\ socket \in Seq(Socket) /\ Len(socket) \in Nat /\ _instrument_keys \subseteq Key
      /\ missed \subseteq Key
  BY LenProperties DEF UpstoxInv, UpstoxTypes
<1>3. s \in Socket /\ s.open /\ s.granted = _instrument_keys
  BY <1>2 DEF Socket
<1> HIDE DEF s
<1>4. /\ socket' \in Seq(Socket) /\ Len(socket') = n /\ socket'[n] = s
      /\ \A m \in 1..Len(socket) : socket'[m] = socket[m]
  BY <1>1, <1>2, <1>3, AppendProperties
<1>5. n # 0 /\ \A m \in 1..n : m # n => m \in 1..Len(socket)
  BY <1>2
<1>6. Queue'
  <2>1. \A p \in Party : p \in Waiting <=> p \in Waiting'
    BY <1>1 DEF Waiting
  <2>2. Lists(_sub_lock', Waiting')
    BY <1>1, <2>1, SameParties DEF UpstoxInv, Queue
  <2> QED
    BY <1>1, <2>2 DEF Queue, UpstoxInv, Holds
<1>7. UpstoxTypes'
  <2>1. n \in 0..Len(socket') /\ \A m \in 0..Len(socket) : m \in 0..Len(socket')
    BY <1>2, <1>4
  <2>2. lost' \subseteq 1..Len(socket')
    BY <1>1, <1>2, <1>4, WhatIsLost
  <2>3. missed' \subseteq Key
    BY <1>1, <1>2
  <2> QED
    BY <1>1, <1>4, <2>1, <2>2, <2>3 DEF UpstoxInv, UpstoxTypes, Waits
<1>8. Sockets'
  BY <1>1, <1>3, <1>4, <1>5 DEF UpstoxInv, Sockets, Session
<1>9. Held'
  <2> SUFFICES ASSUME NEW m \in 1..n, m # n, socket'[m].open
               PROVE  m \in LostWithLive
    BY <1>1, <1>4 DEF Held, Session
  <2>1. m \in 1..Len(socket) /\ socket[m].open
    BY <1>4, <1>5
  <2>2. (m = _live_ws /\ Reclaims(m)) \/ m \in lost
    BY <1>1, <2>1 DEF UpstoxInv, Held, Session
  <2> QED
    BY <2>1, <2>2, WhatIsLost
<1>10. Alone'
  BY <1>1, WhatIsLost DEF UpstoxInv, Alone
<1>11. Word'
  <2> SUFFICES ASSUME NEW k \in Key, k \notin missed', NEW i \in 1..Len(_sub_lock),
                      LastToSend(_sub_lock, call, i, k)
               PROVE  call[_sub_lock[i]].op = "sub" <=> k \in _instrument_keys
    BY <1>1 DEF Word, LastWord
  <2>1. FrameWaits(k)
    BY DEF FrameWaits, LastToSend, Sending
  <2>2. k \notin missed
    BY <1>1, <2>1
  <2> QED
    BY <2>2 DEF UpstoxInv, Word, LastWord
<1>12. Told'
  BY <1>1, <1>3, <1>4 DEF Told, Tells
<1> QED
  BY <1>6, <1>7, <1>8, <1>9, <1>10, <1>11, <1>12 DEF UpstoxInv

\* The socket of the session breaks.
LEMMA BreaksKeeps ==
    ASSUME UpstoxInv, SocketBreaks
    PROVE  UpstoxInv'
<1> DEFINE s == [socket[ws] EXCEPT !.alive = FALSE]
<1>1. /\ ws # 0 /\ socket' = [socket EXCEPT ![ws].alive = FALSE]
      /\ faults < MaxFaults /\ faults' = faults + 1
      /\ UNCHANGED <<_instrument_keys, _state, pc, outcome, todo, ws, stop_event, leaving,
                     lost, overlapped, _live_ws, _sub_lock, call, calls, frames, missed>>
  BY DEF SocketBreaks, Fault, runVars, countVars, leaverVars
<1>2. ws \in 1..Len(socket) /\ Len(socket) \in Nat /\ socket \in Seq(Socket)
  BY <1>1, LenProperties DEF UpstoxInv, UpstoxTypes
<1>3. /\ s \in Socket /\ ~s.alive /\ s.open = socket[ws].open
      /\ socket' = [socket EXCEPT ![ws] = s]
  <2>1. socket[ws] \in Socket
    BY <1>2, ElementOfSeq
  <2> QED
    BY <1>1, <2>1 DEF Socket
<1> HIDE DEF s
<1>4. /\ socket' \in Seq(Socket) /\ Len(socket') = Len(socket) /\ ~socket'[ws].alive
      /\ \A m \in 1..Len(socket) : /\ socket'[m].open <=> socket[m].open
                                   /\ socket'[m].alive => socket[m].alive
  <2>1. /\ socket' \in Seq(Socket) /\ Len(socket') = Len(socket) /\ socket'[ws] = s
        /\ \A m \in 1..Len(socket) : m # ws => socket'[m] = socket[m]
    BY <1>2, <1>3, SocketSet
  <2> QED
    BY <1>3, <2>1
<1>5. faults' \in 0..MaxFaults
  BY <1>1, UpstoxFeedAssumption DEF UpstoxInv, UpstoxTypes
<1>6. UpstoxTypes'
  BY <1>1, <1>4, <1>5 DEF UpstoxInv, UpstoxTypes
<1>7. Queue' /\ Word' /\ Told'
  BY <1>1, <1>4 DEF UpstoxInv, Queue, Waiting, Holds, Word, Told
<1>8. Sockets' /\ Held' /\ Alone'
  BY <1>1, <1>4, RunsStay
<1> QED
  BY <1>6, <1>7, <1>8 DEF UpstoxInv

\* The ways out of a session, and the way on from the subscription.
LEMMA SessionKeeps ==
    ASSUME UpstoxInv, Subscribed \/ ReceiveEnds \/ SessionRaises \/ HungUp
    PROVE  UpstoxInv'
<1>1. pc \in Session \cup {"hangup"}
      /\ UNCHANGED <<_instrument_keys, ws, stop_event, leaving, lost, overlapped, _live_ws,
                     call, calls, frames, missed>>
  BY DEF Subscribed, ReceiveEnds, SessionRaises, HungUp, Session, countVars, leaverVars
<1>2. /\ faults \in 0..MaxFaults /\ MaxFaults \in Nat
      /\ Len(socket) \in Nat /\ ws \in 1..Len(socket) /\ ws # 0 /\ ws = Len(socket)
  BY <1>1, UpstoxFeedAssumption, LenProperties DEF UpstoxInv, UpstoxTypes, Sockets
<1>3. CASE Subscribed /\ socket[ws].alive
  <2>1. /\ pc = "subscribe" /\ pc' = "recv" /\ _state' = "streaming"
        /\ UNCHANGED <<outcome, todo, socket, _sub_lock, faults>>
    BY <1>3 DEF Subscribed
  <2>2. UpstoxTypes'
    BY <1>1, <2>1 DEF UpstoxInv, UpstoxTypes, Waits
  <2>3. Sockets' /\ Held' /\ Alone'
    BY <1>1, <2>1 DEF UpstoxInv, Sockets, Held, Alone, Session, Reclaims
  <2> QED
    BY <1>1, <2>1, <2>2, <2>3, QuietStep DEF Session
<1>4. ASSUME pc' = "hangup", socket' = Close(ws), outcome' \in {"retry", "raised"},
             todo' = {}, _state' = _state, _sub_lock' = _sub_lock, faults' \in 0..MaxFaults,
             pc \in Session
      PROVE  UpstoxInv'
  <2>1. /\ socket' \in Seq(Socket) /\ Len(socket') = Len(socket)
        /\ ~socket'[ws].open /\ ~socket'[ws].alive
        /\ \A m \in 1..Len(socket) : m # ws => socket'[m] = socket[m]
    BY <1>2, <1>4, SocketCloses DEF UpstoxInv
  <2>2. UpstoxTypes'
    BY <1>1, <1>4, <2>1 DEF UpstoxInv, UpstoxTypes, Waits
  <2>3. Queue'
    <3>1. \A p \in Party : p \in Waiting <=> p \in Waiting'
      BY <1>1, <1>4 DEF Waiting, Session
    <3>2. Lists(_sub_lock', Waiting')
      BY <1>4, <3>1, SameParties DEF UpstoxInv, Queue
    <3> QED
      BY <1>1, <1>4, <3>2 DEF UpstoxInv, Queue, Holds
  <2>4. Sockets'
    BY <1>1, <1>2, <1>4, <2>1 DEF UpstoxInv, Sockets, Session
  <2>5. Held' /\ Alone'
    BY <1>1, <1>4, <2>1 DEF UpstoxInv, Held, Alone, Session, Reclaims
  <2>6. Word' /\ Told'
    BY <1>1, <1>4 DEF UpstoxInv, Word, Told, Session
  <2> QED
    BY <2>2, <2>3, <2>4, <2>5, <2>6 DEF UpstoxInv
<1>5. CASE Subscribed /\ ~socket[ws].alive
  BY <1>2, <1>4, <1>5 DEF Subscribed, HangUp, Session
<1>6. CASE SessionRaises
  <2>1. faults' \in 0..MaxFaults
    BY <1>2, <1>6 DEF SessionRaises, Fault
  <2> QED
    BY <1>4, <1>6, <2>1 DEF SessionRaises, HangUp, Session
<1>7. CASE ReceiveEnds \/ HungUp
  <2>1. /\ pc' = "release" /\ _sub_lock' = Append(_sub_lock, Run) /\ todo' = {}
        /\ UNCHANGED <<socket, faults>> /\ _state' \in {_state, "reconnecting"}
        /\ pc # "release" /\ pc # "ended"
        /\ pc = "hangup" => outcome' = outcome
        /\ pc # "hangup" => outcome' \in {"stopped", "retry"}
    BY <1>7 DEF ReceiveEnds, HungUp, GiveUp
  <2>2. outcome' \in {"none", "stopped", "retry", "raised"}
    BY <2>1 DEF UpstoxInv, UpstoxTypes
  <2>3. UpstoxTypes'
    BY <1>1, <2>1, <2>2 DEF UpstoxInv, UpstoxTypes, Waits
  <2>4. Queue' /\ Word'
    <3>1. Run \in Party \ Caller /\ Run \notin Waiting /\ Run \in Waiting'
      BY <2>1, WhoWaits DEF Waiting
    <3>2. \A x \in Party : x # Run => (x \in Waiting' <=> x \in Waiting)
      BY <1>1 DEF Waiting
    <3> QED
      BY <1>1, <2>1, <3>1, <3>2, RunMoves
  <2>5. Sockets'
    BY <1>1, <1>2, <2>1 DEF UpstoxInv, Sockets, Session
  <2>6. Held' /\ Alone'
    BY <1>1, <2>1 DEF UpstoxInv, Held, Alone, Session, Reclaims
  <2>7. Told'
    BY <2>1 DEF Told, Session
  <2> QED
    BY <2>3, <2>4, <2>5, <2>6, <2>7 DEF UpstoxInv
<1> QED
  BY <1>3, <1>5, <1>6, <1>7

\* "finally", in the run in progress.
LEMMA ReleaseKeeps ==
    ASSUME UpstoxInv, Release
    PROVE  UpstoxInv'
<1>1. /\ pc = "release" /\ Holds(Run) /\ _live_ws' = 0 /\ lost' = LostWithLive
      /\ _sub_lock' = Tail(_sub_lock)
      /\ UNCHANGED <<_instrument_keys, stop_event, leaving, overlapped, call, calls, frames,
                     faults, missed>>
      /\ socket' = IF outcome = "raised" THEN socket ELSE Close(ws)
      /\ \/ outcome = "raised" /\ pc' = "ended" /\ outcome' = "none" /\ ws' = 0
               /\ todo' = {} /\ _state' = _state
         \/ outcome # "raised" /\ pc' = "close" /\ UNCHANGED <<_state, outcome, ws, todo>>
  BY DEF Release, End, Unlocked, countVars
<1>2. Len(socket) \in Nat /\ ws \in 1..Len(socket) /\ ws # 0
  BY <1>1, LenProperties DEF UpstoxInv, UpstoxTypes, Sockets
<1>3. /\ socket' \in Seq(Socket) /\ Len(socket') = Len(socket)
      /\ ~socket'[ws].open
      /\ \A m \in 1..Len(socket) : /\ socket'[m].open => socket[m].open /\ m # ws
                                   /\ socket'[m].alive => socket'[m].open
  <2>1. \A m \in 1..Len(socket) : socket[m].alive => socket[m].open
    BY DEF UpstoxInv, Sockets
  <2>2. CASE outcome = "raised"
    <3>1. ~socket[ws].open /\ socket' = socket
      BY <1>1, <1>2, <2>2 DEF UpstoxInv, Sockets
    <3> QED
      BY <2>1, <3>1 DEF UpstoxInv, UpstoxTypes
  <2>3. CASE outcome # "raised"
    <3>1. /\ socket' \in Seq(Socket) /\ Len(socket') = Len(socket)
          /\ ~socket'[ws].open /\ ~socket'[ws].alive
          /\ \A m \in 1..Len(socket) : m # ws => socket'[m] = socket[m]
      BY <1>1, <1>2, <2>3, SocketCloses DEF UpstoxInv
    <3> QED
      BY <2>1, <3>1
  <2> QED
    BY <2>2, <2>3
<1>4. UpstoxTypes'
  <2>1. lost' \subseteq 1..Len(socket') /\ 0 \in 0..Len(socket')
    BY <1>1, <1>2, <1>3, WhatIsLost
  <2> QED
    BY <1>1, <1>3, <2>1 DEF UpstoxInv, UpstoxTypes, Waits
<1>5. Queue' /\ Word'
  <2>1. Run \in Party \ Caller /\ Run \notin Waiting'
    BY <1>1, WhoWaits DEF Waiting
  <2>2. \A x \in Party : x # Run => (x \in Waiting' <=> x \in Waiting)
    BY <1>1 DEF Waiting
  <2> QED
    BY <1>1, <2>1, <2>2, RunMoves
<1>6. Sockets'
  BY <1>1, <1>3 DEF UpstoxInv, Sockets, Session
<1>7. Held'
  <2> SUFFICES ASSUME NEW m \in 1..Len(socket), socket'[m].open
               PROVE  m \in LostWithLive
    BY <1>1, <1>3 DEF Held
  <2>1. socket[m].open /\ m # ws
    BY <1>3
  <2> QED
    BY <2>1, WhatIsLost DEF UpstoxInv, Held
<1>8. Alone'
  BY <1>1, WhatIsLost DEF UpstoxInv, Alone, Session
<1>9. Told'
  BY <1>1 DEF Told, Session
<1> QED
  BY <1>4, <1>5, <1>6, <1>7, <1>8, <1>9 DEF UpstoxInv

-----------------------------------------------------------------------------
(* Cancelled runs.                                                         *)

\* The run is cancelled, wherever it is: it becomes a leaver.
LEMMA CancelKeeps ==
    ASSUME UpstoxInv, NEW l \in Leaver, Cancel(l)
    PROVE  UpstoxInv'
<1>1. /\ pc # "ended" /\ leaving[l] = Gone /\ pc' = "ended" /\ outcome' = "none"
      /\ ws' = 0 /\ todo' = {} /\ _state' = _state
      /\ leaving' = [leaving EXCEPT ![l] = Cancelled]
      /\ lost' = IF Cancelled.keeps \in {0, _live_ws} THEN lost ELSE lost \cup {ws}
      /\ socket' = SocketsOnCancel
      /\ _sub_lock' = IF ClosesItself THEN _sub_lock ELSE Append(Without(Run), l)
      /\ UNCHANGED <<_instrument_keys, stop_event, overlapped, _live_ws, call, calls, frames,
                     missed>>
  BY DEF Cancel, End, countVars
<1>2. /\ faults' \in 0..MaxFaults /\ MaxFaults \in Nat
      /\ Len(socket) \in Nat /\ ws \in 0..Len(socket) /\ leaving \in [Leaver -> LeaverAt]
      /\ \A m \in Leaver : leaving[m].keeps \in 0..Len(socket)
  BY UpstoxFeedAssumption, LenProperties DEF UpstoxInv, UpstoxTypes, Cancel, Fault
<1>3. /\ Cancelled \in LeaverAt /\ Cancelled.keeps \in 0..Len(socket)
      /\ Cancelled.pc # "none"
      /\ Cancelled.keeps # 0 => Cancelled.pc = "abort" /\ Cancelled.keeps = ws
      /\ Cancelled.keeps # 0 => pc = "release" /\ socket[ws].open
      /\ ClosesItself <=> Cancelled.pc \notin {"release", "abort"}
      /\ pc = "release" /\ socket[ws].open => Cancelled.keeps = ws
  BY <1>2 DEF Cancelled, LeaverAt, ClosesItself
<1> DEFINE at == Cancelled
<1> HIDE DEF at
<1>4. /\ leaving' \in [Leaver -> LeaverAt] /\ leaving'[l] = at
      /\ \A m \in Leaver : m # l => leaving'[m] = leaving[m]
      /\ \A m \in Leaver : leaving'[m].keeps \in 0..Len(socket)
  BY <1>1, <1>2, <1>3 DEF at
<1>5. ClosesItself => pc \in Session \cup {"hangup"} /\ ws \in 1..Len(socket)
  BY <1>2 DEF ClosesItself, Session, UpstoxInv, Sockets
<1>6. /\ socket' \in Seq(Socket) /\ Len(socket') = Len(socket)
      /\ \A m \in 1..Len(socket) : /\ socket'[m].open => socket[m].open
                                   /\ socket'[m].alive => socket[m].alive
                                   /\ socket'[m].open /\ m = ws => ~ClosesItself
                                   /\ m # ws => socket'[m] = socket[m]
                                   /\ ~ClosesItself => socket'[m] = socket[m]
  <2>1. CASE ClosesItself
    <3>1. /\ socket' \in Seq(Socket) /\ Len(socket') = Len(socket)
          /\ ~socket'[ws].open /\ ~socket'[ws].alive
          /\ \A m \in 1..Len(socket) : m # ws => socket'[m] = socket[m]
      BY <1>1, <1>5, <2>1, SocketCloses DEF UpstoxInv, SocketsOnCancel
    <3> QED
      BY <2>1, <3>1
  <2>2. CASE ~ClosesItself
    BY <1>1, <2>2 DEF SocketsOnCancel, UpstoxInv, UpstoxTypes
  <2> QED
    BY <2>1, <2>2
<1>7. UpstoxTypes'
  <2>1. lost' \subseteq 1..Len(socket)
    <3>1. lost \subseteq 1..Len(socket)
      BY DEF UpstoxInv, UpstoxTypes
    <3>2. Cancelled.keeps # 0 => ws \in 1..Len(socket)
      BY <1>2, <1>3
    <3> QED
      BY <1>1, <3>1, <3>2
  <2>2. 0 \in 0..Len(socket)
    BY <1>2
  <2> QED
    BY <1>1, <1>2, <1>4, <1>6, <2>1, <2>2 DEF UpstoxInv, UpstoxTypes, Waits
<1>8. Queue' /\ Word'
  <2>1. /\ l \notin Waiting /\ (l \in Waiting' <=> ~ClosesItself) /\ Run \notin Waiting'
        /\ \A x \in Party : x \notin {l, Run} => (x \in Waiting' <=> x \in Waiting)
    <3>1. l \notin Waiting
      BY <1>1, WhoWaits DEF Gone
    <3>2. l \in Waiting' <=> ~ClosesItself
      BY <1>3, <1>4, UpstoxFeedAssumption DEF Waiting, at
    <3>3. Run \notin Waiting'
      BY <1>1, UpstoxFeedAssumption DEF Waiting
    <3>4. \A x \in Party : x \notin {l, Run} => (x \in Waiting' <=> x \in Waiting)
      BY <1>1, <1>4, UpstoxFeedAssumption DEF Waiting, Party
    <3> QED
      BY <3>1, <3>2, <3>3, <3>4
  <2>2. CASE ClosesItself
    <3>1. \A x \in Party : x \in Waiting <=> x \in Waiting'
      BY <1>5, <2>1, <2>2, WhoWaits DEF Session
    <3>2. Lists(_sub_lock', Waiting')
      BY <1>1, <2>2, <3>1, SameParties DEF UpstoxInv, Queue
    <3> QED
      BY <1>1, <2>2, <3>2 DEF UpstoxInv, Queue, Word, Holds
  <2>3. CASE ~ClosesItself
    BY <1>1, <2>1, <2>3, RunIsReplaced
  <2> QED
    BY <2>2, <2>3
<1>9. Sockets'
  <2>1. \A m \in 1..Len(socket) : socket'[m].alive => socket'[m].open
    <3> SUFFICES ASSUME NEW m \in 1..Len(socket), socket'[m].alive
                 PROVE  socket'[m].open
      OBVIOUS
    <3>1. socket[m].alive => socket[m].open
      BY DEF UpstoxInv, Sockets
    <3>2. CASE socket'[m] = socket[m]
      BY <3>1, <3>2
    <3>3. CASE socket'[m] # socket[m]
      <4>1. ClosesItself /\ m = ws
        BY <1>6, <3>3
      <4>2. ~socket'[ws].alive
        BY <1>1, <1>5, <4>1, SocketCloses DEF UpstoxInv, SocketsOnCancel
      <4> QED
        BY <4>1, <4>2
    <3> QED
      BY <3>2, <3>3
  <2>2. \A m \in Leaver : leaving'[m].keeps # 0 => leaving'[m].pc = "abort"
    BY <1>3, <1>4 DEF UpstoxInv, Sockets, at
  <2> QED
    BY <1>1, <1>6, <2>1, <2>2 DEF Sockets, Session
<1>10. Held'
  <2> SUFFICES ASSUME NEW n \in 1..Len(socket), socket'[n].open
               PROVE  (n = _live_ws /\ Reclaims(n)') \/ n \in lost'
    BY <1>1, <1>6 DEF Held
  <2>1. socket[n].open /\ lost \subseteq lost'
    BY <1>1, <1>6
  <2>2. CASE n = ws /\ pc \in Session \cup {"release"}
    <3>1. pc = "release"
      BY <1>6, <2>2 DEF ClosesItself, Session
    <3>2. at.keeps = ws /\ ws # 0
      BY <1>3, <2>1, <2>2, <3>1 DEF at
    <3>3. Reclaims(n)'
      BY <1>4, <2>2, <3>2 DEF Reclaims
    <3> QED
      BY <1>1, <2>2, <3>2, <3>3 DEF at
  <2>3. CASE n = _live_ws /\ Reclaims(n)
    <3>1. PICK m \in Leaver : leaving[m].keeps = n
      BY <2>3 DEF Reclaims
    <3>2. m # l
      BY <1>1, <3>1 DEF Gone
    <3> QED
      BY <1>4, <2>3, <3>1, <3>2 DEF Reclaims
  <2> QED
    BY <2>1, <2>2, <2>3 DEF UpstoxInv, Held
<1>11. Alone'
  <2>1. CASE overlapped
    BY <1>1, <2>1 DEF Alone
  <2>2. CASE ~overlapped
    <3>1. /\ lost = {} /\ \A m \in Leaver : leaving[m].pc = "none"
          /\ pc = "release" => _live_ws = ws
      BY <1>1, <2>2 DEF UpstoxInv, Alone
    <3>2. lost' = {}
      BY <1>1, <1>3, <3>1
    <3>3. \A m \in Leaver : leaving'[m].pc # "none" => m = l
      BY <1>4, <3>1
    <3> QED
      BY <1>1, <3>2, <3>3 DEF Alone, Session
  <2> QED
    BY <2>1, <2>2
<1>12. Told'
  BY <1>1 DEF Told, Session
<1> QED
  BY <1>7, <1>8, <1>9, <1>10, <1>11, <1>12 DEF UpstoxInv

\* A leaver goes on: what it leaves alone stays, and the rest is to be shown.
LEMMA LeaverMoves ==
    ASSUME UpstoxInv, NEW l \in Leaver, NEW at \in LeaverAt, LeaverUnchanged,
           leaving' = [leaving EXCEPT ![l] = at],
           leaving[l].pc # "none", at.keeps \in {0, leaving[l].keeps},
           at.keeps # 0 => at.pc = "abort",
           _state' \in {_state, "stopped"},
           _live_ws' \in {0, _live_ws},
           lost' = lost \/ (lost' = LostWithLive /\ leaving[l].pc # "abort"),
           \/ socket' = socket
           \/ _live_ws # 0 /\ socket' = Close(_live_ws) /\ _live_ws' = 0,
           at.keeps = leaving[l].keeps \/ _live_ws' = 0,
           _live_ws' = _live_ws \/ lost' = LostWithLive
               \/ _live_ws = 0 \/ socket' = Close(_live_ws),
           \/ /\ leaving[l].pc \notin {"release", "abort"} /\ at.pc \in {"release", "abort"}
              /\ _sub_lock' = Append(_sub_lock, l)
           \/ /\ leaving[l].pc \notin {"release", "abort"}
              /\ at.pc \notin {"release", "abort"} /\ _sub_lock' = _sub_lock
           \/ /\ Holds(l) /\ at.pc \notin {"release", "abort"}
              /\ _sub_lock' = Tail(_sub_lock)
           \/ /\ Holds(l) /\ at.pc \in {"release", "abort"}
              /\ _sub_lock' = Append(Tail(_sub_lock), l)
    PROVE  UpstoxInv'
<1>1. UNCHANGED <<_instrument_keys, pc, outcome, todo, ws, stop_event, overlapped, call,
                  calls, frames, faults, missed>>
  BY DEF LeaverUnchanged, countVars
<1>2. /\ Len(socket) \in Nat /\ ws \in 0..Len(socket) /\ _live_ws \in {0, Len(socket)}
      /\ leaving \in [Leaver -> LeaverAt]
      /\ \A m \in Leaver : leaving[m].keeps \in 0..Len(socket)
      /\ lost \subseteq 1..Len(socket)
  BY LenProperties DEF UpstoxInv, UpstoxTypes
<1>3. /\ leaving' \in [Leaver -> LeaverAt] /\ leaving'[l] = at
      /\ \A m \in Leaver : m # l => leaving'[m] = leaving[m]
      /\ \A m \in Leaver : leaving'[m].keeps \in 0..Len(socket)
  BY <1>2
<1>4. /\ socket' \in Seq(Socket) /\ Len(socket') = Len(socket)
      /\ \A m \in 1..Len(socket) : /\ socket'[m].open => socket[m].open
                                   /\ socket'[m].alive => socket[m].alive /\ socket'[m].open
                                   /\ m # _live_ws => socket'[m] = socket[m]
                                   /\ _live_ws' # 0 => socket'[m] = socket[m]
                                   /\ socket'[m].open /\ m = _live_ws => socket' = socket
  <2>1. \A m \in 1..Len(socket) : socket[m].alive => socket[m].open
    BY DEF UpstoxInv, Sockets
  <2>2. CASE socket' = socket
    BY <2>1, <2>2 DEF UpstoxInv, UpstoxTypes
  <2>3. CASE _live_ws # 0 /\ socket' = Close(_live_ws) /\ _live_ws' = 0
    <3>1. _live_ws \in 1..Len(socket)
      BY <1>2, <2>3
    <3>2. /\ socket' \in Seq(Socket) /\ Len(socket') = Len(socket)
          /\ ~socket'[_live_ws].open /\ ~socket'[_live_ws].alive
          /\ \A m \in 1..Len(socket) : m # _live_ws => socket'[m] = socket[m]
      BY <2>3, <3>1, SocketCloses DEF UpstoxInv
    <3> QED
      BY <2>1, <2>3, <3>2
  <2> QED
    BY <2>2, <2>3
<1>5. lost' \subseteq 1..Len(socket) /\ lost \subseteq lost'
  BY <1>2, WhatIsLost
<1>6. UpstoxTypes'
  <2>1. _live_ws' \in {0, Len(socket')}
    BY <1>2, <1>4
  <2> QED
    BY <1>1, <1>3, <1>4, <1>5, <2>1 DEF UpstoxInv, UpstoxTypes
<1>7. Queue' /\ Word'
  <2>1. /\ l \in Party \ Caller
        /\ l \in Waiting <=> leaving[l].pc \in {"release", "abort"}
        /\ l \in Waiting' <=> at.pc \in {"release", "abort"}
        /\ \A x \in Party : x # l => (x \in Waiting' <=> x \in Waiting)
    <3>1. l \in Waiting' <=> at.pc \in {"release", "abort"}
      BY <1>3, UpstoxFeedAssumption DEF Waiting
    <3>2. \A x \in Party : x # l => (x \in Waiting' <=> x \in Waiting)
      BY <1>1, <1>3, UpstoxFeedAssumption DEF Waiting, Party
    <3> QED
      BY <3>1, <3>2, WhoWaits
  <2>2. CASE _sub_lock' = _sub_lock /\ (l \in Waiting' <=> l \in Waiting)
    <3>1. Lists(_sub_lock', Waiting')
      BY <2>1, <2>2, SameParties DEF UpstoxInv, Queue
    <3> QED
      BY <1>1, <2>2, <3>1 DEF UpstoxInv, Queue, Word, Holds
  <2>3. CASE ~(_sub_lock' = _sub_lock /\ (l \in Waiting' <=> l \in Waiting))
    BY <1>1, <2>1, <2>3, RunMoves
  <2> QED
    BY <2>2, <2>3
<1>8. Sockets'
  <2>1. \A m \in Leaver : leaving'[m].keeps # 0 => leaving'[m].pc = "abort"
    BY <1>3 DEF UpstoxInv, Sockets
  <2>2. ws # 0 /\ ~socket[ws].open => ~socket'[ws].open
    BY <1>2, <1>4
  <2> QED
    BY <1>1, <1>4, <2>1, <2>2 DEF UpstoxInv, Sockets
<1>9. Held'
  <2> SUFFICES ASSUME NEW n \in 1..Len(socket), socket'[n].open
               PROVE  \/ n = ws /\ pc \in Session \cup {"release"}
                      \/ n = _live_ws' /\ Reclaims(n)'
                      \/ n \in lost'
    BY <1>1, <1>4 DEF Held
  <2>1. socket[n].open
    BY <1>4
  <2>2. CASE n = _live_ws /\ Reclaims(n)
    <3>1. CASE _live_ws' = _live_ws /\ at.keeps = leaving[l].keeps
      <4>1. \A m \in Leaver : leaving'[m].keeps = leaving[m].keeps
        BY <1>3, <3>1
      <4> QED
        BY <2>2, <3>1, <4>1 DEF Reclaims
    <3>2. CASE lost' = LostWithLive
      BY <2>2, <3>2, WhatIsLost
    <3>3. CASE _live_ws = 0 \/ socket' = Close(_live_ws)
      <4>1. n # 0 /\ socket' = Close(_live_ws)
        BY <2>2, <3>3
      <4>2. ~socket'[n].open
        BY <2>2, <4>1, SocketCloses DEF UpstoxInv
      <4> QED
        BY <4>2
    <3> QED
      BY <2>2, <3>1, <3>2, <3>3
  <2> QED
    BY <1>5, <2>1, <2>2 DEF UpstoxInv, Held
<1>10. Alone'
  <2>1. CASE overlapped
    BY <1>1, <2>1 DEF Alone
  <2>2. CASE ~overlapped
    <3>1. /\ lost = {} /\ pc = "ended"
          /\ \A m \in Leaver : leaving[m].pc # "none" => m = l
      BY <2>2 DEF UpstoxInv, Alone
    <3>2. lost' = {}
      BY <3>1, WhatIsLost
    <3>3. \A m \in Leaver : leaving'[m].pc # "none" => m = l
      BY <1>3, <3>1
    <3> QED
      BY <1>1, <3>1, <3>2, <3>3 DEF Alone, Session
  <2> QED
    BY <2>1, <2>2
<1>11. Told'
  <2> SUFFICES ASSUME pc \in Session, socket'[ws].alive, _live_ws' = ws
               PROVE  Tells(call, _instrument_keys, missed, socket'[ws].granted)
    BY <1>1 DEF Told
  <2>1. ws # 0 /\ ws \in 1..Len(socket)
    BY <1>2 DEF UpstoxInv, Sockets
  <2>2. _live_ws = ws /\ socket'[ws] = socket[ws]
    BY <1>4, <2>1
  <2> QED
    BY <2>2 DEF UpstoxInv, Told
<1> QED
  BY <1>6, <1>7, <1>8, <1>9, <1>10, <1>11 DEF UpstoxInv

\* The steps of a cancelled run.
LEMMA LeaverKeeps ==
    ASSUME UpstoxInv, NEW l \in Leaver, LeaverStep(l)
    PROVE  UpstoxInv'
<1>1. leaving \in [Leaver -> LeaverAt] /\ leaving[l] \in LeaverAt
      /\ (leaving[l].keeps # 0 => leaving[l].pc = "abort")
  BY DEF UpstoxInv, UpstoxTypes, Sockets
<1>2. CASE LeaverHungUp(l)
  <2> DEFINE at == [leaving[l] EXCEPT !.pc = "release"]
  <2>1. /\ leaving[l].pc = "hangup" /\ leaving' = [leaving EXCEPT ![l] = at]
        /\ _sub_lock' = Append(_sub_lock, l) /\ LeaverUnchanged
        /\ UNCHANGED <<_state, lost, socket, _live_ws>>
    BY <1>1, <1>2 DEF LeaverHungUp
  <2>2. at \in LeaverAt /\ at.pc = "release" /\ at.keeps = 0 /\ leaving[l].keeps = 0
    BY <1>1, <2>1 DEF LeaverAt
  <2> HIDE DEF at
  <2> QED
    BY <2>1, <2>2, LeaverMoves
<1>3. CASE LeaverReleases(l)
  <2> DEFINE at == [leaving[l] EXCEPT !.pc = "abort"]
  <2>1. /\ leaving[l].pc = "release" /\ Holds(l) /\ leaving' = [leaving EXCEPT ![l] = at]
        /\ lost' = LostWithLive /\ _live_ws' = 0
        /\ _sub_lock' = Append(Tail(_sub_lock), l) /\ LeaverUnchanged
        /\ UNCHANGED <<_state, socket>>
    BY <1>1, <1>3 DEF LeaverReleases, SendLast
  <2>2. at \in LeaverAt /\ at.pc = "abort" /\ at.keeps = 0 /\ leaving[l].keeps = 0
    BY <1>1, <2>1 DEF LeaverAt
  <2> HIDE DEF at
  <2> QED
    BY <2>1, <2>2, LeaverMoves
<1>4. CASE LeaverAborts(l) /\ _live_ws = 0
  <2>1. /\ leaving[l].pc = "abort" /\ Holds(l) /\ leaving' = [leaving EXCEPT ![l] = Gone]
        /\ _live_ws' = 0 /\ _state' = "stopped"
        /\ _sub_lock' = Tail(_sub_lock) /\ LeaverUnchanged
        /\ UNCHANGED <<socket, lost>>
    BY <1>4 DEF LeaverAborts, Unlocked
  <2>2. Gone \in LeaverAt /\ Gone.pc = "none" /\ Gone.keeps = 0
    BY DEF Gone, LeaverAt
  <2> QED
    BY <1>4, <2>1, <2>2, LeaverMoves
<1>5. CASE LeaverAborts(l) /\ _live_ws # 0
  <2> DEFINE at == [pc |-> "farewell", keeps |-> 0]
  <2>1. /\ leaving[l].pc = "abort" /\ Holds(l) /\ leaving' = [leaving EXCEPT ![l] = at]
        /\ _live_ws' = 0 /\ _state' = _state /\ socket' = Close(_live_ws)
        /\ _sub_lock' = Tail(_sub_lock) /\ LeaverUnchanged
        /\ lost' = lost
    BY <1>5 DEF LeaverAborts, Unlocked
  <2>2. at \in LeaverAt /\ at.pc = "farewell" /\ at.keeps = 0
    BY DEF LeaverAt
  <2> HIDE DEF at
  <2> QED
    BY <1>5, <2>1, <2>2, LeaverMoves
<1>6. CASE LeaverEnds(l)
  <2>1. /\ leaving[l].pc = "farewell" /\ leaving' = [leaving EXCEPT ![l] = Gone]
        /\ _state' = "stopped" /\ LeaverUnchanged
        /\ UNCHANGED <<lost, socket, _live_ws, _sub_lock>>
    BY <1>6 DEF LeaverEnds
  <2>2. Gone \in LeaverAt /\ Gone.pc = "none" /\ Gone.keeps = 0 /\ leaving[l].keeps = 0
    BY <1>1, <2>1 DEF Gone, LeaverAt
  <2> QED
    BY <2>1, <2>2, LeaverMoves
<1> QED
  BY <1>2, <1>3, <1>4, <1>5, <1>6 DEF LeaverStep

-----------------------------------------------------------------------------
(* The theorems about the Upstox feed.                                     *)

\* Nothing runs and no socket was made at first.
LEMMA UpstoxInit == Init => UpstoxInv
<1> SUFFICES ASSUME Init PROVE UpstoxInv
  OBVIOUS
<1>1. /\ Idle \in Change /\ Idle.pc = "idle"
      /\ Gone \in LeaverAt /\ Gone.pc = "none" /\ Gone.keeps = 0
  BY UpstoxFeedAssumption DEF Idle, Change, Gone, LeaverAt
<1>2. /\ call \in [Caller -> Change] /\ \A c \in Caller : call[c].pc = "idle"
      /\ leaving \in [Leaver -> LeaverAt]
      /\ \A l \in Leaver : leaving[l].pc = "none" /\ leaving[l].keeps = 0
  BY <1>1 DEF Init
<1>3. socket = <<>> /\ socket \in Seq(Socket) /\ Len(socket) = 0
      /\ _sub_lock = <<>> /\ _sub_lock \in Seq(Party) /\ Len(_sub_lock) = 0
  BY DEF Init
<1>4. UpstoxTypes
  <2>1. /\ 0 \in 0..MaxCalls /\ 0 \in 0..MaxFrames /\ 0 \in 0..MaxFaults
        /\ 0 \in 0..Len(socket)
        /\ Configured \in (SUBSET Key) \ {{}}
    BY <1>3, UpstoxFeedAssumption
  <2> QED
    BY <1>2, <1>3, <2>1 DEF Init, UpstoxTypes
<1>5. Queue
  <2>1. \A p \in Party : p \notin Waiting
    BY <1>2 DEF Init, Waiting
  <2>2. \A i \in 1..Len(_sub_lock) : FALSE
    BY <1>3
  <2>3. Lists(_sub_lock, Waiting)
    BY <1>3, <2>1, <2>2 DEF Lists
  <2> QED
    BY <1>2, <2>3 DEF Queue
<1>6. Sockets /\ Held /\ Alone /\ Word /\ Told
  <2>1. (\A n \in 1..Len(socket) : FALSE) /\ (\A n \in 1..Len(_sub_lock) : FALSE)
    BY <1>3
  <2> QED
    BY <1>2, <2>1 DEF Init, Sockets, Held, Alone, Word, Told, LastWord, Session
<1> QED
  BY <1>4, <1>5, <1>6 DEF UpstoxInv

\* The types, the queue and the sockets hold whatever the broker, the handlers, the source
\* manager and the runs that are leaving do, and the broker was told of every key what the
\* last change that reached the lock desires of it, unless a socket was live and the status
\* said otherwise (run, _run_session, _send_mutation).
THEOREM UpstoxInvariance == Spec => []UpstoxInv
<1>1. UpstoxInv /\ [Next]_vars => UpstoxInv'
  <2> SUFFICES ASSUME UpstoxInv, [Next]_vars PROVE UpstoxInv'
    OBVIOUS
  <2>1. CASE RunStep
    BY <2>1, RunKeeps, ConnectedKeeps, SessionKeeps, ReleaseKeeps DEF RunStep
  <2>2. CASE \E c \in Caller : CallStep(c)
    BY <2>2, ChangeKeeps, SendKeeps, DrainedKeeps DEF CallStep
  <2>3. CASE \E c \in Caller, op \in {"sub", "unsub"}, k \in Key : RequestChange(c, op, k)
    BY <2>3, RequestKeeps
  <2>4. CASE \/ \E K \in SUBSET Key : ReceiveFrame(K)
             \/ Start \/ Stop \/ UpdateCredentials
    BY <2>4, RunKeeps
  <2>5. CASE SessionRaises \/ SocketBreaks
    BY <2>5, SessionKeeps, BreaksKeeps
  <2>6. CASE \E l \in Leaver : Cancel(l) \/ LeaverStep(l)
    BY <2>6, CancelKeeps, LeaverKeeps
  <2>7. CASE UNCHANGED vars
    <3>1. UNCHANGED <<_instrument_keys, _state, pc, outcome, todo, ws, stop_event, leaving,
                      lost, overlapped, socket, _live_ws, _sub_lock, call, calls, frames,
                      faults, missed>>
      BY <2>7 DEF vars, runVars, countVars, leaverVars
    <3>2. UpstoxTypes' /\ Sockets' /\ Held' /\ Alone'
      BY <3>1 DEF UpstoxInv, UpstoxTypes, Sockets, Held, Alone, Reclaims
    <3> QED
      BY <3>1, <3>2, QuietStep
  <2> QED
    BY <2>1, <2>2, <2>3, <2>4, <2>5, <2>6, <2>7 DEF Next
<1> QED
  BY <1>1, UpstoxInit, PTL DEF Spec

\* An open socket is the one of the session in progress or one that a cancelled run is
\* about to close, however the sessions and the runs before it ended, unless a run was
\* started while another was leaving.
THEOREM NoSocketIsLost == Spec => []NoSocketLeaks
<1>1. UpstoxInv => NoSocketLeaks
  <2> SUFFICES ASSUME UpstoxInv PROVE NoSocketLeaks
    OBVIOUS
  <2>1. DOMAIN socket = 1..Len(socket)
    BY LenProperties DEF UpstoxInv, UpstoxTypes
  <2>2. lost # {} => overlapped
    BY DEF UpstoxInv, Alone
  <2> QED
    BY <2>1, <2>2 DEF UpstoxInv, Held, Session, NoSocketLeaks
<1> QED
  BY <1>1, UpstoxInvariance, PTL

\* A party stands in the queue once if it waits, and otherwise not at all.
LEMMA CountedOnce ==
    ASSUME NEW q, NEW S, Lists(q, S), NEW p \in Party
    PROVE  Cardinality({i \in DOMAIN q : q[i] = p}) = IF p \in S THEN 1 ELSE 0
<1>1. DOMAIN q = 1..Len(q)
  BY LenProperties DEF Lists
<1>2. CASE p \in S
  <2>1. PICK n \in 1..Len(q) : q[n] = p
    BY <1>2 DEF Lists
  <2>2. {i \in DOMAIN q : q[i] = p} = {n}
    BY <1>1, <2>1 DEF Lists
  <2> QED
    BY <1>2, <2>2, FS_Singleton
<1>3. CASE p \notin S
  <2>1. {i \in DOMAIN q : q[i] = p} = {}
    BY <1>1, <1>3 DEF Lists
  <2> QED
    BY <1>3, <2>1, FS_EmptySet
<1> QED
  BY <1>2, <1>3

\* While the feed streams on the live socket and no frame waits, the broker was told
\* exactly what is desired but for the keys that were changed while the status did not
\* say so; as long as runs do not overlap, a session's socket is the live one.  And the
\* lock's queue holds everybody once who waits for it.
THEOREM BrokerIsToldWhatIsDesired == Spec => []BrokerFollowsDesired
<1>1. UpstoxInv => TypeOK
  <2> SUFFICES ASSUME UpstoxInv PROVE TypeOK
    OBVIOUS
  <2>1. Lists(_sub_lock, Waiting)
    BY DEF UpstoxInv, Queue
  <2>2. \A p \in Party : Cardinality({i \in DOMAIN _sub_lock : _sub_lock[i] = p})
                             = IF p \in Waiting THEN 1 ELSE 0
    BY <2>1, CountedOnce
  <2>3. \A i \in DOMAIN _sub_lock : _sub_lock[i] \in Party
    BY <2>1, ElementOfSeq, LenProperties DEF Lists
  <2>4. {ws, _live_ws} \subseteq 0..Len(socket)
    BY LenProperties DEF UpstoxInv, UpstoxTypes
  <2>5. leaving \in [Leaver -> [pc : {"none", "hangup", "release", "abort", "farewell"},
                                keeps : 0..Len(socket)]]
    <3>1. \A l \in Leaver : leaving[l] \in [pc : {"none", "hangup", "release", "abort",
                                                  "farewell"}, keeps : 0..Len(socket)]
      <4> SUFFICES ASSUME NEW l \in Leaver
                   PROVE  leaving[l] \in [pc : {"none", "hangup", "release", "abort",
                                                "farewell"}, keeps : 0..Len(socket)]
        OBVIOUS
      <4>1. leaving[l] \in LeaverAt /\ leaving[l].keeps \in 0..Len(socket)
        BY DEF UpstoxInv, UpstoxTypes
      <4> QED
        BY <4>1 DEF LeaverAt
    <3> QED
      BY <3>1 DEF UpstoxInv, UpstoxTypes
  <2> QED
    BY <2>2, <2>3, <2>4, <2>5 DEF UpstoxInv, UpstoxTypes, TypeOK, Socket, Change
<1>2. UpstoxInv => BrokerFollowsDesired
  <2> SUFFICES ASSUME UpstoxInv, pc \in {"recv", "apply"}, socket[ws].alive,
                      \A c \in Caller : call[c].pc # "send",
                      _live_ws = ws \/ ~overlapped
               PROVE  socket[ws].granted \ missed = _instrument_keys \ missed
    BY <1>1 DEF BrokerFollowsDesired
  <2>1. ws \in 1..Len(socket) /\ socket \in Seq(Socket) /\ _live_ws = ws
    BY LenProperties DEF UpstoxInv, UpstoxTypes, Sockets, Alone, Session
  <2>2. socket[ws].granted \subseteq Key /\ _instrument_keys \subseteq Key
    <3>1. socket[ws] \in Socket
      BY <2>1, ElementOfSeq
    <3> QED
      BY <3>1 DEF UpstoxInv, UpstoxTypes, Socket
  <2>3. Tells(call, _instrument_keys, missed, socket[ws].granted)
    BY <2>1 DEF UpstoxInv, Told, Session
  <2>4. \A k \in Key : k \notin missed =>
                          (k \in socket[ws].granted <=> k \in _instrument_keys)
    BY <2>3 DEF Tells, Sending
  <2> QED
    BY <2>2, <2>4
<1> QED
  BY <1>2, UpstoxInvariance, PTL

-----------------------------------------------------------------------------
(* The tick-by-tick depth feed, for every set of symbols, prices and       *)
(* callers: a book that was built on a snapshot is the exchange's.         *)

\* The prices that levels, listed one by one, offer something at.
Shown(levels) == {p \in Price : levels[p] = "some"}

\* What a delta makes of the prices held.
AfterDelta(held, levels) ==
    {p \in Price : levels[p] = "some" \/ (levels[p] = "none" /\ p \in held)}

\* The message says of a history what is in it: a snapshot the state of its number,
\* a delta what leads to it from the state before.
Truthful(m, h) ==
    /\ m.sequence <= Len(h)
    /\ m.snapshot => Shown(m.levels) = h[m.sequence]
    /\ ~m.snapshot => /\ m.sequence > 1
                      /\ AfterDelta(h[m.sequence - 1], m.levels) = h[m.sequence]

\* The book has the state of its number.
Faithful(book, h) ==
    /\ book.last_sequence <= Len(h)
    /\ book.snapshot_count > 0 => /\ book.last_sequence >= 1
                                  /\ B!Held(book) = h[book.last_sequence]

FeedTypes ==
    /\ history \in [Symbol -> Seq(SUBSET Price)]
    /\ \A s \in Symbol : Len(history[s]) \in 1..MaxSequence
    /\ listening \subseteq Symbol
    /\ wire \in Seq(Message)
    /\ _desired_symbols \subseteq Symbol
    /\ _books \in [Symbol -> B!Book]
    /\ place \in {"url", "subscribe", "recv", "unsub", "resub", "ended"}
    /\ left \subseteq Symbol /\ (place # "subscribe" => left = {})
    /\ resync \in Symbol
    /\ stopping \in BOOLEAN
    /\ asked \in [Subscriber -> [pc : {"idle", "sub", "unsub"}, symbol : Symbol]]
    /\ asks \in 0..MaxAsks /\ failures \in 0..MaxFailures
    /\ disturbed \subseteq Symbol

FeedInv ==
    /\ FeedTypes
    /\ \A i \in 1..Len(wire) : Truthful(wire[i], history[wire[i].symbol])
    /\ \A s \in Symbol : Faithful(_books[s], history[s])

\* Everything a step that leaves history, wire and books alone can disturb.
Messages == <<history, wire, _books>>

-----------------------------------------------------------------------------
(* Books and messages.                                                     *)

\* A longer history keeps what was said of it.
LEMMA HistoryGrows ==
    ASSUME NEW h \in Seq(SUBSET Price), NEW x \in SUBSET Price
    PROVE  /\ \A m \in Message : Truthful(m, h) => Truthful(m, Append(h, x))
           /\ \A b \in B!Book : Faithful(b, h) => Faithful(b, Append(h, x))
<1> DEFINE g == Append(h, x)
<1>1. /\ Len(h) \in Nat /\ Len(g) = Len(h) + 1
      /\ \A i \in 1..Len(h) : g[i] = h[i]
  BY AppendProperties
<1> HIDE DEF g
<1>2. ASSUME NEW m \in Message, Truthful(m, h)
      PROVE  Truthful(m, g)
  <2>1. m.sequence \in Nat /\ m.sequence >= 1 /\ m.sequence <= Len(h)
    BY <1>2, TbtFeedAssumption DEF Truthful, Message
  <2>2. m.sequence \in 1..Len(h) /\ m.sequence <= Len(g)
    BY <1>1, <2>1
  <2>3. ASSUME m.sequence > 1
        PROVE  m.sequence - 1 \in 1..Len(h)
    BY <1>1, <2>1, <2>3
  <2> QED
    BY <1>1, <1>2, <2>2, <2>3 DEF Truthful
<1>3. ASSUME NEW b \in B!Book, Faithful(b, h)
      PROVE  Faithful(b, g)
  <2>1. b.last_sequence \in Nat /\ b.last_sequence <= Len(h)
    BY <1>3 DEF Faithful, B!Book
  <2>2. b.last_sequence <= Len(g)
    BY <1>1, <2>1
  <2>3. ASSUME b.last_sequence >= 1
        PROVE  b.last_sequence \in 1..Len(h)
    BY <1>1, <2>1, <2>3
  <2> QED
    BY <1>1, <1>3, <2>2, <2>3 DEF Faithful
<1> QED
  BY <1>2, <1>3 DEF g

\* A new book is a book, and claims nothing.
LEMMA EmptyIsFaithful ==
    ASSUME NEW h \in Seq(SUBSET Price)
    PROVE  B!EmptyBook \in B!Book /\ Faithful(B!EmptyBook, h)
<1>1. Len(h) \in Nat
  BY LenProperties
<1>2. /\ B!EmptyBook.last_sequence = 0 /\ B!EmptyBook.snapshot_count = 0
      /\ B!EmptyBook \in B!Book
  BY DEF B!EmptyBook, B!NoSequence, B!Book, B!Levels
<1> QED
  BY <1>1, <1>2 DEF Faithful

\* A truthful message that is in sequence makes a faithful book of a faithful one.
LEMMA UpdateIsFaithful ==
    ASSUME NEW h \in Seq(SUBSET Price), NEW book \in B!Book,
           NEW m \in Message,
           Faithful(book, h), Truthful(m, h), InSequence(book, m.sequence)
    PROVE  Updated(book, m) \in B!Book /\ Faithful(Updated(book, m), h)
<1>1. /\ book.last_sequence \in Nat /\ book.snapshot_count \in Nat
      /\ book.levels \in [Price -> {"none", "zero", "some"}]
  BY DEF B!Book, B!Levels
<1>2. /\ m.sequence \in Nat /\ m.sequence >= 1
      /\ m.levels \in [Price -> {"none", "zero", "some"}] /\ m.snapshot \in BOOLEAN
  BY TbtFeedAssumption DEF Message, B!Levels
<1>3. m.sequence <= Len(h)
  BY DEF Truthful
<1>4. CASE m.snapshot
  <2> DEFINE new == [levels |-> m.levels, last_sequence |-> m.sequence,
                     snapshot_count |-> book.snapshot_count + 1]
  <2>1. Updated(book, m) = new
    BY <1>4 DEF Updated, B!ApplySnapshot
  <2>2. new \in B!Book
    BY <1>1, <1>2 DEF B!Book, B!Levels
  <2>3. B!Held(new) = Shown(m.levels)
    BY DEF B!Held, Shown
  <2>4. B!Held(new) = h[m.sequence]
    BY <1>4, <2>3 DEF Truthful
  <2>5. Faithful(new, h)
    BY <1>2, <1>3, <2>4 DEF Faithful
  <2> QED
    BY <2>1, <2>2, <2>5
<1>5. CASE ~m.snapshot
  <2> DEFINE levels == [p \in Price |-> CASE m.levels[p] = "zero" -> "none"
                                          [] m.levels[p] = "some" -> "some"
                                          [] m.levels[p] = "none" -> book.levels[p]]
             new == Updated(book, m)
  <2>1. new = [book EXCEPT !.levels = levels, !.last_sequence = m.sequence]
    BY <1>5 DEF Updated, B!ApplyDelta
  <2>2. levels \in [Price -> {"none", "zero", "some"}]
    BY <1>1, <1>2
  <2>3. \A p \in Price : levels[p] = "some"
            <=> m.levels[p] = "some" \/ (m.levels[p] = "none" /\ book.levels[p] = "some")
    BY <1>1, <1>2
  <2> HIDE DEF levels, new
  <2>4. /\ new \in B!Book /\ new.levels = levels /\ new.last_sequence = m.sequence
        /\ new.snapshot_count = book.snapshot_count
    BY <1>1, <1>2, <2>1, <2>2 DEF B!Book, B!Levels
  <2>5. B!Held(new) = AfterDelta(B!Held(book), m.levels)
    BY <2>3, <2>4 DEF B!Held, AfterDelta
  <2>6. ASSUME book.snapshot_count > 0
        PROVE  B!Held(new) = h[m.sequence]
    <3>1. book.last_sequence >= 1 /\ B!Held(book) = h[book.last_sequence]
      BY <2>6 DEF Faithful
    <3>2. m.sequence = book.last_sequence + 1
      BY <1>1, <3>1 DEF InSequence, B!CheckSequence, B!NoSequence
    <3>3. m.sequence - 1 = book.last_sequence
      BY <1>1, <1>2, <3>2
    <3> QED
      BY <1>5, <2>5, <3>1, <3>3 DEF Truthful
  <2>7. Faithful(new, h)
    BY <1>2, <1>3, <2>4, <2>6 DEF Faithful
  <2> QED
    BY <2>4, <2>7 DEF new
<1> QED
  BY <1>2, <1>4, <1>5

\* A snapshot of the present state is truthful.
LEMMA SnapshotIsTruthful ==
    ASSUME FeedInv, NEW s \in Symbol, NEW Empty \in SUBSET Price
    PROVE  /\ SnapshotOf(s, Empty) \in Message
           /\ SnapshotOf(s, Empty).symbol = s
           /\ Truthful(SnapshotOf(s, Empty), history[s])
<1> DEFINE h == history[s]
           levels == [p \in Price |-> IF p \in h[Len(h)] THEN "some"
                                      ELSE IF p \in Empty THEN "zero" ELSE "none"]
           m == [symbol |-> s, sequence |-> Len(h), snapshot |-> TRUE, levels |-> levels]
<1>1. h \in Seq(SUBSET Price) /\ Len(h) \in 1..MaxSequence
  BY DEF FeedInv, FeedTypes
<1>2. Len(h) \in Nat /\ Len(h) \in 1..Len(h)
  BY <1>1, LenProperties
<1>3. h[Len(h)] \in SUBSET Price
  BY <1>1, <1>2, ElementOfSeq
<1>4. SnapshotOf(s, Empty) = m
  BY DEF SnapshotOf
<1> HIDE DEF h
<1>5. m \in Message
  BY <1>1 DEF Message, B!Levels
<1>6. Shown(levels) = h[Len(h)]
  BY <1>3 DEF Shown
<1> HIDE DEF levels
<1>7. Truthful(m, h)
  BY <1>2, <1>6 DEF Truthful
<1> QED
  BY <1>4, <1>5, <1>7 DEF h

\* A delta says what the step it tells of does to the history.
LEMMA DeltaIsTruthful ==
    ASSUME FeedInv, NEW s \in Symbol, NEW p \in Price, NEW next,
           Len(history[s]) < MaxSequence,
           next = IF p \in history[s][Len(history[s])]
                  THEN history[s][Len(history[s])] \ {p}
                  ELSE history[s][Len(history[s])] \cup {p}
    PROVE  /\ next \in SUBSET Price
           /\ DeltaOf(s, p, p \in next) \in Message
           /\ DeltaOf(s, p, p \in next).symbol = s
           /\ Truthful(DeltaOf(s, p, p \in next), Append(history[s], next))
<1> DEFINE h == history[s]
           n == Len(h)
           held == h[n]
           levels == [q \in Price |-> IF q # p THEN "none"
                                      ELSE IF p \in next THEN "some" ELSE "zero"]
           m == [symbol |-> s, sequence |-> n + 1, snapshot |-> FALSE, levels |-> levels]
           g == Append(h, next)
<1>1. h \in Seq(SUBSET Price) /\ n \in 1..MaxSequence /\ MaxSequence \in Nat
  BY TbtFeedAssumption DEF FeedInv, FeedTypes
<1>2. n \in Nat /\ n \in 1..n /\ n + 1 \in 1..MaxSequence /\ n + 1 > 1 /\ (n + 1) - 1 = n
  BY <1>1
<1>3. held \in SUBSET Price
  BY <1>1, <1>2, ElementOfSeq
<1>4. next \in SUBSET Price
  BY <1>3
<1>5. DeltaOf(s, p, p \in next) = m
  BY DEF DeltaOf
<1>6. Len(g) = n + 1 /\ g[n] = held /\ g[n + 1] = next
  <2> HIDE DEF h
  <2> QED
    BY <1>1, <1>2, <1>4, AppendProperties
<1>7. next = IF p \in held THEN held \ {p} ELSE held \cup {p}
  OBVIOUS
<1> HIDE DEF h, n, held, g
<1>8. m \in Message
  BY <1>2 DEF Message, B!Levels
<1>9. AfterDelta(held, levels) = next
  BY <1>3, <1>7 DEF AfterDelta
<1> HIDE DEF levels
<1>10. Truthful(m, g)
  <2>1. m.sequence = n + 1 /\ m.snapshot = FALSE /\ m.levels = levels
    OBVIOUS
  <2> HIDE DEF m
  <2>2. g[m.sequence - 1] = held /\ g[m.sequence] = next
    BY <1>2, <1>6, <2>1
  <2>3. m.sequence <= Len(g) /\ m.sequence > 1
    BY <1>2, <1>6, <2>1
  <2> QED
    BY <1>9, <2>1, <2>2, <2>3 DEF Truthful
<1> QED
  BY <1>4, <1>5, <1>8, <1>10 DEF h, g

\* What is on its way is truthful of these histories.
WireTruthful(w, hist) == \A i \in 1..Len(w) : Truthful(w[i], hist[w[i].symbol])

\* A truthful message may follow.
LEMMA WireGrows ==
    ASSUME NEW w \in Seq(Message), NEW hist, NEW m \in Message,
           WireTruthful(w, hist), Truthful(m, hist[m.symbol])
    PROVE  Append(w, m) \in Seq(Message) /\ WireTruthful(Append(w, m), hist)
<1> DEFINE v == Append(w, m)
<1>1. /\ v \in Seq(Message) /\ Len(w) \in Nat /\ Len(v) = Len(w) + 1
      /\ (\A i \in 1..Len(w) : v[i] = w[i]) /\ v[Len(w) + 1] = m
  BY AppendProperties, LenProperties
<1> HIDE DEF v
<1>2. \A i \in 1..Len(v) : i \in 1..Len(w) \/ i = Len(w) + 1
  BY <1>1
<1> QED
  BY <1>1, <1>2 DEF WireTruthful, v

\* Taking the first message leaves the others.
LEMMA WireShrinks ==
    ASSUME NEW w \in Seq(Message), w # <<>>, NEW hist, WireTruthful(w, hist)
    PROVE  /\ Head(w) \in Message /\ Truthful(Head(w), hist[Head(w).symbol])
           /\ Tail(w) \in Seq(Message) /\ WireTruthful(Tail(w), hist)
<1> DEFINE v == Tail(w)
<1>1. /\ v \in Seq(Message) /\ Len(v) = Len(w) - 1 /\ Head(w) \in Message
      /\ \A i \in 1..Len(v) : v[i] = w[i + 1]
  BY HeadTailProperties
<1>2. Len(w) \in Nat \ {0} /\ Head(w) = w[1]
  BY EmptySeq
<1> HIDE DEF v
<1>3. \A i \in 1..Len(v) : i + 1 \in 1..Len(w)
  BY <1>1, <1>2
<1>4. 1 \in 1..Len(w)
  BY <1>2
<1> QED
  BY <1>1, <1>2, <1>3, <1>4 DEF WireTruthful, v

\* Nothing on its way is truthful.
LEMMA EmptyWire ==
    ASSUME NEW hist
    PROVE  <<>> \in Seq(Message) /\ WireTruthful(<<>>, hist)
<1>1. <<>> \in Seq(Message) /\ Len(<<>>) = 0
  BY EmptySeq
<1> QED
  BY <1>1 DEF WireTruthful

\* What the feed sends changes what the broker sends, truthfully.
LEMMA SendsKeep ==
    ASSUME FeedInv, NEW s \in Symbol, SendSubscribe(s) \/ SendUnsubscribe(s)
    PROVE  /\ listening' \subseteq Symbol
           /\ wire' \in Seq(Message) /\ WireTruthful(wire', history)
<1>1. wire \in Seq(Message) /\ WireTruthful(wire, history) /\ listening \subseteq Symbol
  BY DEF FeedInv, FeedTypes, WireTruthful
<1>2. CASE UNCHANGED wire /\ listening' \subseteq listening \cup {s}
  BY <1>1, <1>2
<1>3. ASSUME NEW Empty \in SUBSET Price, wire' = Append(wire, SnapshotOf(s, Empty)),
             listening' = listening \cup {s}
      PROVE  /\ listening' \subseteq Symbol /\ wire' \in Seq(Message)
             /\ WireTruthful(wire', history)
  <2>1. PICK m \in Message :
           m = SnapshotOf(s, Empty) /\ m.symbol = s /\ Truthful(m, history[s])
    BY SnapshotIsTruthful
  <2>2. wire' = Append(wire, m)
    BY <1>3, <2>1
  <2>3. Append(wire, m) \in Seq(Message) /\ WireTruthful(Append(wire, m), history)
    BY <1>1, <2>1, WireGrows
  <2> QED
    BY <1>1, <1>3, <2>2, <2>3
<1> QED
  BY <1>2, <1>3 DEF SendSubscribe, SendUnsubscribe

\* The parts of the invariant from which it follows after a step.
LEMMA FeedInvFrom ==
    ASSUME FeedTypes', WireTruthful(wire', history'),
           \A s \in Symbol : Faithful(_books'[s], history'[s])
    PROVE  FeedInv'
BY DEF FeedInv, WireTruthful

-----------------------------------------------------------------------------
(* Steps.                                                                  *)

\* The exchange's book changes; the message about it arrives, or never, or twice.
LEMMA LevelChanges ==
    ASSUME FeedInv, NEW s \in Symbol, NEW p \in Price, LevelChange(s, p)
    PROVE  FeedInv'
<1>1. PICK next : next = IF p \in history[s][Len(history[s])]
                         THEN history[s][Len(history[s])] \ {p}
                         ELSE history[s][Len(history[s])] \cup {p}
  OBVIOUS
<1> DEFINE h == history[s]
           g == Append(h, next)
<1>2. /\ Len(h) < MaxSequence /\ history' = [history EXCEPT ![s] = g]
      /\ UNCHANGED <<listening, _desired_symbols, _books, place, left, resync, stopping, asked,
                     asks, disturbed>>
  BY <1>1 DEF LevelChange
<1>3. next \in SUBSET Price
  BY <1>1, <1>2, DeltaIsTruthful
<1>4. PICK m \in Message : /\ m = DeltaOf(s, p, p \in next)
                           /\ m.symbol = s /\ Truthful(m, g)
  BY <1>1, <1>2, DeltaIsTruthful
<1>5. \/ wire' = Append(wire, m) /\ UNCHANGED failures
      \/ UNCHANGED wire /\ Failure
      \/ wire' = wire \o <<m, m>> /\ Failure
      \/ UNCHANGED <<wire, failures>>
  BY <1>1, <1>4 DEF LevelChange
<1>6. failures' \in 0..MaxFailures
  BY <1>5, TbtFeedAssumption DEF Failure, FeedInv, FeedTypes
<1>7. /\ history \in [Symbol -> Seq(SUBSET Price)] /\ h \in Seq(SUBSET Price)
      /\ Len(h) \in 1..MaxSequence /\ MaxSequence \in Nat
      /\ wire \in Seq(Message) /\ WireTruthful(wire, history)
      /\ _books \in [Symbol -> B!Book] /\ \A k \in Symbol : Faithful(_books[k], history[k])
  <2>1. FeedTypes
    BY DEF FeedInv, FeedTypes
  <2>2. MaxSequence \in Nat
    BY <2>1, TbtFeedAssumption
  <2>3. /\ history \in [Symbol -> Seq(SUBSET Price)] /\ Len(h) \in 1..MaxSequence
        /\ wire \in Seq(Message) /\ _books \in [Symbol -> B!Book]
    BY <2>1 DEF FeedTypes
  <2>4. h \in Seq(SUBSET Price)
    BY <2>3
  <2>5. WireTruthful(wire, history) /\ \A k \in Symbol : Faithful(_books[k], history[k])
    BY DEF FeedInv, WireTruthful
  <2> QED
    BY <2>2, <2>3, <2>4, <2>5
<1> HIDE DEF h
<1>8. g \in Seq(SUBSET Price) /\ Len(g) \in 1..MaxSequence
  <2>1. g \in Seq(SUBSET Price) /\ Len(g) = Len(h) + 1
    BY <1>3, <1>7, AppendProperties
  <2> QED
    BY <1>2, <1>7, <2>1
<1>9. /\ \A n \in Message : Truthful(n, h) => Truthful(n, g)
      /\ \A b \in B!Book : Faithful(b, h) => Faithful(b, g)
  BY <1>3, <1>7, HistoryGrows
<1> HIDE DEF g
<1>10. /\ history' \in [Symbol -> Seq(SUBSET Price)] /\ history'[s] = g
       /\ \A k \in Symbol : k # s => history'[k] = history[k]
  BY <1>2, <1>7, <1>8
<1>11. \A k \in Symbol : Len(history'[k]) \in 1..MaxSequence
  BY <1>8, <1>10 DEF FeedInv, FeedTypes
<1>12. WireTruthful(wire, history')
  <2> SUFFICES ASSUME NEW i \in 1..Len(wire)
               PROVE  Truthful(wire[i], history'[wire[i].symbol])
    BY DEF WireTruthful
  <2>1. wire[i] \in Message /\ Truthful(wire[i], history[wire[i].symbol])
    BY <1>7, ElementOfSeq DEF WireTruthful
  <2>2. wire[i].symbol \in Symbol
    BY <2>1 DEF Message
  <2>3. CASE wire[i].symbol = s
    BY <1>9, <1>10, <2>1, <2>3 DEF h
  <2>4. CASE wire[i].symbol # s
    BY <1>10, <2>1, <2>2, <2>4
  <2> QED
    BY <2>3, <2>4
<1>13. \A k \in Symbol : Faithful(_books'[k], history'[k])
  <2> TAKE k \in Symbol
  <2>1. _books'[k] = _books[k] /\ _books[k] \in B!Book /\ Faithful(_books[k], history[k])
    BY <1>2, <1>7
  <2>2. CASE k = s
    BY <1>9, <1>10, <2>1, <2>2 DEF h
  <2>3. CASE k # s
    BY <1>10, <2>1, <2>3
  <2> QED
    BY <2>2, <2>3
<1>14. Truthful(m, history'[m.symbol])
  BY <1>4, <1>10 DEF g
<1>15. wire' \in Seq(Message) /\ WireTruthful(wire', history')
  <2> DEFINE one == Append(wire, m)
             two == Append(one, m)
  <2>1. one \in Seq(Message) /\ WireTruthful(one, history')
    BY <1>7, <1>12, <1>14, WireGrows
  <2>2. wire \o <<m, m>> = two
    BY <1>7
  <2> HIDE DEF one
  <2>3. two \in Seq(Message) /\ WireTruthful(two, history')
    BY <1>14, <2>1, WireGrows
  <2>4. wire' \in {wire, one, two}
    BY <1>5, <2>2 DEF one
  <2> HIDE DEF two
  <2> QED
    BY <1>7, <1>12, <2>1, <2>3, <2>4
<1>16. FeedTypes'
  BY <1>2, <1>6, <1>10, <1>11, <1>15 DEF FeedInv, FeedTypes
<1> QED
  BY <1>13, <1>15, <1>16, FeedInvFrom

\* Books, messages and history are left alone.
LEMMA QuietKeeps ==
    ASSUME FeedInv, UNCHANGED Messages, FeedTypes'
    PROVE  FeedInv'
BY DEF FeedInv, Messages

\* A step that only sends.
LEMMA SendingKeeps ==
    ASSUME FeedInv, NEW s \in Symbol, SendSubscribe(s) \/ SendUnsubscribe(s),
           UNCHANGED <<history, _desired_symbols, _books, resync, stopping, asks, failures,
                       disturbed>>,
           place' \in {"url", "subscribe", "recv", "unsub", "resub", "ended"},
           left' \subseteq Symbol, place' # "subscribe" => left' = {},
           asked' \in [Subscriber -> [pc : {"idle", "sub", "unsub"}, symbol : Symbol]]
    PROVE  FeedInv'
<1>1. /\ listening' \subseteq Symbol
      /\ wire' \in Seq(Message) /\ WireTruthful(wire', history)
  BY SendsKeep
<1>2. FeedTypes'
  BY <1>1 DEF FeedInv, FeedTypes
<1>3. \A s2 \in Symbol : Faithful(_books'[s2], history'[s2])
  BY DEF FeedInv
<1> QED
  BY <1>1, <1>2, <1>3, FeedInvFrom

\* The callers change the desired set, and later send a frame.
LEMMA CallersKeep ==
    ASSUME FeedInv, NEW c \in Subscriber,
           \/ SendRequest(c)
           \/ \E op \in {"sub", "unsub"}, s \in Symbol : Request(c, op, s)
    PROVE  FeedInv'
<1> DEFINE Calls == [pc : {"idle", "sub", "unsub"}, symbol : Symbol]
<1>1. asked \in [Subscriber -> Calls] /\ MaxAsks \in Nat
  BY TbtFeedAssumption DEF FeedInv, FeedTypes
<1>2. CASE SendRequest(c)
  <2>1. asked[c].symbol \in Symbol
    BY <1>1
  <2>2. SendSubscribe(asked[c].symbol) \/ SendUnsubscribe(asked[c].symbol)
    BY <1>2 DEF SendRequest
  <2>3. asked' \in [Subscriber -> Calls]
    BY <1>1, <1>2 DEF SendRequest
  <2>4. UNCHANGED <<history, _desired_symbols, _books, place, left, resync, stopping, asks,
                    failures, disturbed>>
    BY <1>2 DEF SendRequest
  <2>5. /\ place' \in {"url", "subscribe", "recv", "unsub", "resub", "ended"}
        /\ left' \subseteq Symbol /\ (place' # "subscribe" => left' = {})
    BY <2>4 DEF FeedInv, FeedTypes
  <2> HIDE DEF Calls
  <2> QED
    BY <2>1, <2>2, <2>3, <2>4, <2>5, SendingKeeps DEF Calls
<1>3. ASSUME NEW op \in {"sub", "unsub"}, NEW s \in Symbol, Request(c, op, s)
      PROVE  FeedInv'
  <2>1. UNCHANGED <<history, listening, wire, _books, place, left, resync, stopping, failures>>
    BY <1>3 DEF Request
  <2>2. [pc |-> op, symbol |-> s] \in Calls
    OBVIOUS
  <2>3. asked' \in {asked, [asked EXCEPT ![c] = [pc |-> op, symbol |-> s]]}
    BY <1>3 DEF Request
  <2>4. asked' \in [Subscriber -> Calls]
    <3> DEFINE one == [pc |-> op, symbol |-> s]
    <3> HIDE DEF one, Calls
    <3> QED
      BY <1>1, <2>2, <2>3 DEF one
  <2>5. asks' \in 0..MaxAsks
    BY <1>1, <1>3 DEF Request, FeedInv, FeedTypes
  <2>6. _desired_symbols' \subseteq Symbol /\ disturbed' \subseteq Symbol
    BY <1>3 DEF Request, FeedInv, FeedTypes
  <2>7. FeedTypes'
    BY <2>1, <2>4, <2>5, <2>6 DEF FeedInv, FeedTypes
  <2> QED
    BY <2>1, <2>7, QuietKeeps DEF Messages
<1> QED
  BY <1>2, <1>3

\* The run connects, subscribes and resubscribes.
LEMMA SubscribingKeeps ==
    ASSUME FeedInv,
           \/ Connect \/ AllSubscribed \/ ResyncUnsubscribe \/ ResyncSubscribe \/ StopTbt
           \/ \E s \in Symbol : SubscribeNext(s)
    PROVE  FeedInv'
<1>1. CASE Connect \/ AllSubscribed \/ StopTbt
  <2>1. FeedTypes'
    BY <1>1 DEF Connect, AllSubscribed, StopTbt, FeedInv, FeedTypes
  <2>2. UNCHANGED Messages
    BY <1>1 DEF Connect, AllSubscribed, StopTbt, Messages
  <2> QED
    BY <2>1, <2>2, QuietKeeps
<1>2. ASSUME NEW s \in Symbol, SubscribeNext(s)
      PROVE  FeedInv'
  <2>1. /\ SendSubscribe(s) /\ place' = "subscribe" /\ left' \subseteq Symbol
        /\ UNCHANGED <<history, _desired_symbols, _books, resync, stopping, asked, asks,
                       failures, disturbed>>
    BY <1>2 DEF SubscribeNext, FeedInv, FeedTypes
  <2>2. asked' \in [Subscriber -> [pc : {"idle", "sub", "unsub"}, symbol : Symbol]]
    BY <2>1 DEF FeedInv, FeedTypes
  <2> QED
    BY <2>1, <2>2, SendingKeeps
<1>3. CASE ResyncUnsubscribe \/ ResyncSubscribe
  <2>1. /\ SendSubscribe(resync) \/ SendUnsubscribe(resync)
        /\ place' \in {"recv", "resub"} /\ left' = {} /\ resync \in Symbol
        /\ UNCHANGED <<history, _desired_symbols, _books, resync, stopping, asked, asks,
                       failures, disturbed>>
    BY <1>3 DEF ResyncUnsubscribe, ResyncSubscribe, Answer, FeedInv, FeedTypes
  <2>2. asked' \in [Subscriber -> [pc : {"idle", "sub", "unsub"}, symbol : Symbol]]
    BY <2>1 DEF FeedInv, FeedTypes
  <2> QED
    BY <2>1, <2>2, SendingKeeps
<1> QED
  BY <1>1, <1>2, <1>3

\* A message in sequence updates its book, any other drops the book.
LEMMA ReceiveKeeps ==
    ASSUME FeedInv, Receive
    PROVE  FeedInv'
<1>1. /\ history \in [Symbol -> Seq(SUBSET Price)] /\ _books \in [Symbol -> B!Book]
      /\ wire \in Seq(Message) /\ wire # <<>> /\ WireTruthful(wire, history)
      /\ \A s \in Symbol : Faithful(_books[s], history[s])
  BY DEF Receive, FeedInv, FeedTypes, WireTruthful
<1>2. /\ Head(wire) \in Message /\ Truthful(Head(wire), history[Head(wire).symbol])
      /\ Tail(wire) \in Seq(Message) /\ WireTruthful(Tail(wire), history)
  BY <1>1, WireShrinks
<1>3. PICK m \in Message : m = Head(wire)
  BY <1>2
<1>4. m.symbol \in Symbol /\ Truthful(m, history[m.symbol])
  BY <1>2, <1>3 DEF Message
<1> DEFINE s == m.symbol
           book == _books[s]
<1>5. book \in B!Book /\ Faithful(book, history[s]) /\ history[s] \in Seq(SUBSET Price)
  BY <1>1, <1>4
<1>6. PICK new \in B!Book :
         /\ Faithful(new, history[s]) /\ _books' = [_books EXCEPT ![s] = new]
         /\ place' \in {"recv", "unsub"} /\ resync' \in {resync, s}
  <2>1. CASE InSequence(book, m.sequence)
    <3>1. _books' = [_books EXCEPT ![s] = Updated(book, m)] /\ UNCHANGED <<place, resync>>
          /\ place = "recv"
      BY <1>3, <2>1 DEF Receive
    <3>2. Updated(book, m) \in B!Book /\ Faithful(Updated(book, m), history[s])
      BY <1>4, <1>5, <2>1, UpdateIsFaithful DEF FeedInv, FeedTypes
    <3> QED
      BY <3>1, <3>2
  <2>2. CASE ~InSequence(book, m.sequence)
    <3>1. /\ _books' = [_books EXCEPT ![s] = B!EmptyBook]
          /\ place' = "unsub" /\ resync' = s
      BY <1>3, <2>2 DEF Receive, Invalidated
    <3>2. B!EmptyBook \in B!Book /\ Faithful(B!EmptyBook, history[s])
      BY <1>5, EmptyIsFaithful
    <3> QED
      BY <3>1, <3>2
  <2> QED
    BY <2>1, <2>2
<1>7. /\ wire' = Tail(wire) /\ place = "recv"
      /\ UNCHANGED <<history, listening, _desired_symbols, left, stopping, asked, asks,
                     failures, disturbed>>
  BY DEF Receive
<1> HIDE DEF book
<1>8. _books' \in [Symbol -> B!Book]
  BY <1>1, <1>4, <1>6
<1>9. \A k \in Symbol : Faithful(_books'[k], history'[k])
  <2> TAKE k \in Symbol
  <2>1. CASE k = s
    BY <1>1, <1>4, <1>6, <1>7, <2>1
  <2>2. CASE k # s
    BY <1>1, <1>4, <1>6, <1>7, <2>2
  <2> QED
    BY <2>1, <2>2
<1>10. FeedTypes'
  BY <1>2, <1>4, <1>6, <1>7, <1>8 DEF FeedInv, FeedTypes
<1> QED
  BY <1>2, <1>7, <1>9, <1>10, FeedInvFrom

\* A message that could not be read is gone; its book stays.
LEMMA UnreadableKeeps ==
    ASSUME FeedInv, Unreadable
    PROVE  FeedInv'
<1>1. wire \in Seq(Message) /\ wire # <<>> /\ WireTruthful(wire, history)
  BY DEF Unreadable, FeedInv, FeedTypes, WireTruthful
<1>2. /\ Head(wire) \in Message
      /\ Tail(wire) \in Seq(Message) /\ WireTruthful(Tail(wire), history)
  BY <1>1, WireShrinks
<1>3. /\ wire' = Tail(wire) /\ disturbed' \in {disturbed, disturbed \cup {Head(wire).symbol}}
      /\ UNCHANGED <<history, listening, _desired_symbols, _books, place, left, resync, stopping,
                     asked, asks>>
  BY DEF Unreadable
<1>4. disturbed' \subseteq Symbol
  BY <1>2, <1>3 DEF Message, FeedInv, FeedTypes
<1>5. failures' \in 0..MaxFailures
  BY TbtFeedAssumption DEF Unreadable, Failure, FeedInv, FeedTypes
<1>6. FeedTypes'
  BY <1>2, <1>3, <1>4, <1>5 DEF FeedInv, FeedTypes
<1>7. \A s \in Symbol : Faithful(_books'[s], history'[s])
  BY <1>3 DEF FeedInv
<1> QED
  BY <1>2, <1>3, <1>6, <1>7, FeedInvFrom

\* Whatever ends the run drops the books and what was on its way.
LEMMA EndKeeps ==
    ASSUME FeedInv, Stopped \/ SessionFails
    PROVE  FeedInv'
<1>1. /\ EndRun
      /\ UNCHANGED <<history, _desired_symbols, resync, stopping, asked, asks, disturbed>>
  BY DEF Stopped, SessionFails
<1>2. \A s \in Symbol : B!EmptyBook \in B!Book /\ Faithful(B!EmptyBook, history[s])
  BY EmptyIsFaithful DEF FeedInv, FeedTypes
<1>3. /\ _books' = [s \in Symbol |-> B!EmptyBook]
      /\ wire' = <<>> /\ left' = {} /\ place' = "ended"
      /\ listening' = {}
  BY <1>1 DEF EndRun
<1>4. failures' \in 0..MaxFailures
  BY TbtFeedAssumption DEF Stopped, SessionFails, Failure, FeedInv, FeedTypes
<1>5. _books' \in [Symbol -> B!Book]
  BY <1>2, <1>3
<1>6. wire' \in Seq(Message) /\ WireTruthful(wire', history')
  BY <1>3, EmptyWire
<1>7. \A s \in Symbol : Faithful(_books'[s], history'[s])
  BY <1>1, <1>2, <1>3
<1>8. FeedTypes'
  BY <1>1, <1>3, <1>4, <1>5, <1>6 DEF FeedInv, FeedTypes
<1> QED
  BY <1>6, <1>7, <1>8, FeedInvFrom

\* No book has been built, and nothing is held anywhere.
LEMMA FeedInit == TbtInit => FeedInv
<1> SUFFICES ASSUME TbtInit
             PROVE  FeedInv
  OBVIOUS
<1> DEFINE h == <<{}>>
<1>1. h \in Seq(SUBSET Price) /\ Len(h) = 1
  OBVIOUS
<1>2. history = [s \in Symbol |-> h]
  BY DEF TbtInit
<1> HIDE DEF h
<1>3. PICK s \in Symbol : s = CHOOSE x \in Symbol : TRUE
  BY TbtFeedAssumption
<1>4. asked \in [Subscriber -> [pc : {"idle", "sub", "unsub"}, symbol : Symbol]]
  BY <1>3 DEF TbtInit, NobodyCalls
<1>5. B!EmptyBook \in B!Book /\ Faithful(B!EmptyBook, h)
  BY <1>1, EmptyIsFaithful
<1>6. _books \in [Symbol -> B!Book] /\ \A k \in Symbol : Faithful(_books[k], history[k])
  BY <1>2, <1>5 DEF TbtInit
<1>7. wire \in Seq(Message) /\ WireTruthful(wire, history)
  BY EmptyWire DEF TbtInit
<1>8. FeedTypes
  <2>1. /\ history \in [Symbol -> Seq(SUBSET Price)]
        /\ \A k \in Symbol : Len(history[k]) \in 1..MaxSequence
    <3>1. history \in [Symbol -> Seq(SUBSET Price)] /\ \A k \in Symbol : history[k] = h
      BY <1>1, <1>2
    <3>2. 1 \in 1..MaxSequence
      BY TbtFeedAssumption
    <3> QED
      BY <1>1, <3>1, <3>2
  <2>2. asks \in 0..MaxAsks /\ failures \in 0..MaxFailures
    BY TbtFeedAssumption DEF TbtInit
  <2>3. resync \in Symbol
    BY <1>3 DEF TbtInit
  <2> QED
    BY <1>4, <1>6, <1>7, <2>1, <2>2, <2>3 DEF TbtInit, FeedTypes
<1> QED
  BY <1>6, <1>7, <1>8 DEF FeedInv, WireTruthful

-----------------------------------------------------------------------------
(* Its theorems.                                                           *)

\* Every message on its way says what the exchange's history says, and every book
\* that was built on a snapshot has a state of that history (_process_feed).
THEOREM FeedInvariance == TbtSpec => []FeedInv
<1>1. FeedInv /\ [TbtNext]_tbtVars => FeedInv'
  <2> SUFFICES ASSUME FeedInv, [TbtNext]_tbtVars
               PROVE  FeedInv'
    OBVIOUS
  <2>1. ASSUME NEW s \in Symbol, NEW p \in Price, LevelChange(s, p)
        PROVE  FeedInv'
    BY <2>1, LevelChanges
  <2>2. ASSUME NEW c \in Subscriber,
               \/ SendRequest(c)
               \/ \E op \in {"sub", "unsub"}, s \in Symbol : Request(c, op, s)
        PROVE  FeedInv'
    BY <2>2, CallersKeep
  <2>3. CASE \/ Connect \/ AllSubscribed \/ ResyncUnsubscribe \/ ResyncSubscribe \/ StopTbt
             \/ \E s \in Symbol : SubscribeNext(s)
    BY <2>3, SubscribingKeeps
  <2>4. CASE Receive
    BY <2>4, ReceiveKeeps
  <2>5. CASE Unreadable
    BY <2>5, UnreadableKeeps
  <2>6. CASE Stopped \/ SessionFails
    BY <2>6, EndKeeps
  <2>7. CASE UNCHANGED tbtVars
    <3>1. FeedTypes'
      BY <2>7 DEF tbtVars, FeedInv, FeedTypes
    <3> QED
      BY <2>7, <3>1, QuietKeeps DEF tbtVars, Messages
  <2> QED
    BY <2>1, <2>2, <2>3, <2>4, <2>5, <2>6, <2>7 DEF TbtNext, TbtStep
<1> QED
  BY FeedInit, <1>1, PTL DEF TbtSpec

\* Whatever the broker leaves out or repeats, and whatever is on its way while a
\* symbol is resubscribed, a book built on a snapshot holds what the exchange held at
\* the number the book shows (LocalOrderBook, _process_feed).
THEOREM BooksAreTheExchanges == TbtSpec => []BookIsTheExchanges
<1>1. FeedInv => BookIsTheExchanges
  <2> SUFFICES ASSUME FeedInv
               PROVE  BookIsTheExchanges
    OBVIOUS
  <2>1. \A s \in Symbol : \A n \in DOMAIN history[s] : history[s][n] \subseteq Price
    <3> TAKE s \in Symbol
    <3>1. history[s] \in Seq(SUBSET Price)
      BY DEF FeedInv, FeedTypes
    <3>2. DOMAIN history[s] = 1..Len(history[s])
      BY <3>1, LenProperties
    <3> QED
      BY <3>1, <3>2, ElementOfSeq
  <2>2. \A i \in DOMAIN wire : wire[i] \in Message
    <3>1. wire \in Seq(Message) /\ DOMAIN wire = 1..Len(wire)
      BY LenProperties DEF FeedInv, FeedTypes
    <3> QED
      BY <3>1, ElementOfSeq
  <2>3. \A s \in Symbol : _books[s] \in B!Book /\ _books[s].last_sequence <= Len(history[s])
    BY DEF FeedInv, FeedTypes, Faithful
  <2>4. TbtTypeOK
    BY <2>1, <2>2, <2>3 DEF FeedInv, FeedTypes, TbtTypeOK
  <2> QED
    BY <2>4 DEF BookIsTheExchanges, FeedInv, Faithful
<1> QED
  BY <1>1, FeedInvariance, PTL

-----------------------------------------------------------------------------
(* The depth feed leaves no desired symbol without a book.                 *)

\* A caller about to unsubscribe a symbol has taken it out of the desired set; where it
\* is back in, the two calls crossed.
LeavesTold ==
    \A c \in Subscriber : asked[c].pc = "unsub" => asked[c].symbol \notin _desired_symbols \ disturbed

FedInv == BooksAreFed /\ LeavesTold

\* A snapshot of s is among the messages.
Carries(w, s) == \E i \in 1..Len(w) : w[i].symbol = s /\ w[i].snapshot

LEMMA CarriesIsOnWire ==
    ASSUME wire \in Seq(Message), wire' \in Seq(Message), NEW s
    PROVE  /\ SnapshotOnWire(s) <=> Carries(wire, s)
           /\ SnapshotOnWire(s)' <=> Carries(wire', s)
<1>1. DOMAIN wire = 1..Len(wire) /\ DOMAIN wire' = 1..Len(wire')
  BY LenProperties
<1> QED
  BY <1>1 DEF SnapshotOnWire, Carries

\* A message put behind the others leaves them, and is carried.
LEMMA AppendCarries ==
    ASSUME NEW w \in Seq(Message), NEW m \in Message, NEW s
    PROVE  /\ Carries(w, s) => Carries(Append(w, m), s)
           /\ m.symbol = s /\ m.snapshot => Carries(Append(w, m), s)
<1> DEFINE v == Append(w, m)
<1>1. /\ Len(w) \in Nat /\ Len(v) = Len(w) + 1
      /\ (\A i \in 1..Len(w) : v[i] = w[i]) /\ v[Len(w) + 1] = m
  BY AppendProperties, LenProperties
<1> HIDE DEF v
<1>2. Len(w) + 1 \in 1..Len(v) /\ \A i \in 1..Len(w) : i \in 1..Len(v)
  BY <1>1
<1> QED
  BY <1>1, <1>2 DEF Carries, v

\* Taking the first message leaves the snapshots behind it.
LEMMA TailCarries ==
    ASSUME NEW w \in Seq(Message), w # <<>>, NEW s, Carries(w, s),
           ~(Head(w).symbol = s /\ Head(w).snapshot)
    PROVE  Carries(Tail(w), s)
<1> DEFINE v == Tail(w)
<1>1. Len(v) = Len(w) - 1 /\ \A i \in 1..Len(v) : v[i] = w[i + 1]
  BY HeadTailProperties
<1>2. Len(w) \in Nat /\ Head(w) = w[1]
  BY EmptySeq, LenProperties
<1> HIDE DEF v
<1>3. PICK i \in 1..Len(w) : w[i].symbol = s /\ w[i].snapshot
  BY DEF Carries
<1>4. i # 1
  BY <1>2, <1>3
<1>5. i - 1 \in 1..Len(v) /\ (i - 1) + 1 = i
  BY <1>1, <1>2, <1>3, <1>4
<1>6. v[i - 1] = w[i]
  BY <1>1, <1>5
<1> QED
  BY <1>3, <1>5, <1>6 DEF Carries, v

\* The symbol's book stands on a snapshot, or one is on its way, and the broker sends it.
Fed(s) == s \in listening /\ (_books[s].snapshot_count > 0 \/ SnapshotOnWire(s))

\* A frame that subscribes a symbol feeds it, and no other symbol loses anything by it.
LEMMA SubscribeFeeds ==
    ASSUME FeedInv, Open, NEW s \in Symbol, SendSubscribe(s), UNCHANGED _books
    PROVE  Fed(s)' /\ \A k \in Symbol : Fed(k) => Fed(k)'
<1>1. PICK Empty \in SUBSET Price : wire' = Append(wire, SnapshotOf(s, Empty))
  BY DEF SendSubscribe
<1>2. listening' = listening \cup {s}
  BY DEF SendSubscribe
<1>3. wire \in Seq(Message)
  BY DEF FeedInv, FeedTypes
<1>4. PICK m \in Message : m = SnapshotOf(s, Empty) /\ m.symbol = s
  BY SnapshotIsTruthful
<1>5. m.snapshot
  BY <1>4 DEF SnapshotOf
<1>6. wire' = Append(wire, m) /\ wire' \in Seq(Message)
  BY <1>1, <1>3, <1>4, AppendProperties
<1>7. SnapshotOnWire(s)' /\ \A k \in Symbol : SnapshotOnWire(k) => SnapshotOnWire(k)'
  BY <1>3, <1>4, <1>5, <1>6, AppendCarries, CarriesIsOnWire
<1> QED
  BY <1>2, <1>7 DEF Fed

\* A frame that unsubscribes a symbol takes nothing from another.
LEMMA UnsubscribeSpares ==
    ASSUME FeedInv, NEW s \in Symbol, SendUnsubscribe(s), UNCHANGED _books
    PROVE  \A k \in Symbol \ {s} : Fed(k) => Fed(k)'
BY DEF SendUnsubscribe, Fed, SnapshotOnWire

\* What is asked of a step: whoever is to be fed after it was fed and lost nothing, or
\* is fed by it.
LEMMA FedFrom ==
    ASSUME LeavesTold',
           \A s \in Symbol :
              (s \in _desired_symbols' \ disturbed' /\ Open' /\ ~Due(s)') => Fed(s)',
           _desired_symbols' \subseteq Symbol
    PROVE  FedInv'
BY DEF FedInv, BooksAreFed, Fed

LEMMA FedNow ==
    ASSUME FeedInv, FedInv, NEW s \in _desired_symbols \ disturbed, Open, ~Due(s)
    PROVE  Fed(s)
BY DEF FedInv, BooksAreFed, Fed

\* The callers.
LEMMA CallersFeed ==
    ASSUME FeedInv, FedInv, FeedInv', NEW c \in Subscriber,
           \/ SendRequest(c)
           \/ \E op \in {"sub", "unsub"}, s \in Symbol : Request(c, op, s)
    PROVE  FedInv'
<1> DEFINE Calls == [pc : {"idle", "sub", "unsub"}, symbol : Symbol]
<1>1. asked \in [Subscriber -> Calls] /\ _desired_symbols' \subseteq Symbol
  BY DEF FeedInv, FeedTypes
<1>2. CASE SendRequest(c)
  <2> DEFINE t == asked[c].symbol
  <2>1. /\ asked' = [asked EXCEPT ![c].pc = "idle"] /\ t \in Symbol
        /\ UNCHANGED <<_desired_symbols, disturbed, place, left, resync, _books>>
    BY <1>1, <1>2 DEF SendRequest
  <2>2. /\ \A d \in Subscriber : d # c => asked'[d] = asked[d]
        /\ asked'[c].pc = "idle"
    BY <1>1, <2>1
  <2>3. LeavesTold'
    BY <2>1, <2>2 DEF LeavesTold, FedInv
  <2>4. Open' <=> Open
    BY <2>1 DEF Open
  <2>5. \A s \in Symbol : s # t => (Due(s)' <=> Due(s))
    BY <2>1, <2>2 DEF Due
  <2>6. CASE asked[c].pc = "sub"
    <3>1. SendSubscribe(t)
      BY <1>2, <2>6 DEF SendRequest
    <3> SUFFICES ASSUME NEW s \in Symbol, s \in _desired_symbols' \ disturbed', Open', ~Due(s)'
                 PROVE  Fed(s)'
      BY <1>1, <2>3, FedFrom
    <3>2. CASE s = t
      BY <2>1, <2>4, <3>1, <3>2, SubscribeFeeds
    <3>3. CASE s # t
      <4>1. Fed(s)
        BY <2>1, <2>4, <2>5, <3>3, FedNow
      <4> QED
        BY <2>1, <2>4, <3>1, <4>1, SubscribeFeeds
    <3> QED
      BY <3>2, <3>3
  <2>7. CASE asked[c].pc # "sub"
    <3>1. SendUnsubscribe(t) /\ asked[c].pc = "unsub"
      BY <1>1, <1>2, <2>7 DEF SendRequest
    <3>2. t \notin _desired_symbols \ disturbed
      BY <3>1 DEF FedInv, LeavesTold
    <3> SUFFICES ASSUME NEW s \in Symbol, s \in _desired_symbols' \ disturbed', Open', ~Due(s)'
                 PROVE  Fed(s)'
      BY <1>1, <2>3, FedFrom
    <3>3. s # t
      BY <2>1, <3>2
    <3>4. Fed(s)
      BY <2>1, <2>4, <2>5, <3>3, FedNow
    <3> QED
      BY <2>1, <3>1, <3>3, <3>4, UnsubscribeSpares
  <2> QED
    BY <2>6, <2>7
<1>3. ASSUME NEW op \in {"sub", "unsub"}, NEW t \in Symbol, Request(c, op, t)
      PROVE  FedInv'
  <2>1. /\ UNCHANGED <<listening, wire, _books, place, left, resync>>
        /\ asked[c].pc = "idle"
        /\ _desired_symbols' = IF op = "sub" THEN _desired_symbols \cup {t}
                               ELSE _desired_symbols \ {t}
        /\ asked' = IF Open THEN [asked EXCEPT ![c] = [pc |-> op, symbol |-> t]] ELSE asked
        /\ disturbed' = IF Due(t) THEN disturbed \cup {t} ELSE disturbed
    BY <1>3 DEF Request
  <2>2. \A d \in Subscriber : d # c => asked'[d] = asked[d]
    BY <1>1, <2>1
  <2>3. /\ Open => asked'[c].pc = op /\ asked'[c].symbol = t
        /\ ~Open => asked'[c] = asked[c]
    BY <1>1, <2>1
  <2>4. LeavesTold'
    <3> SUFFICES ASSUME NEW d \in Subscriber, asked'[d].pc = "unsub",
                        asked'[d].symbol \in _desired_symbols' \ disturbed'
                 PROVE  FALSE
      BY DEF LeavesTold
    <3>1. CASE d = c
      <4>1. Open /\ op = "unsub" /\ asked'[d].symbol = t
        BY <2>1, <2>3, <3>1
      <4> QED
        BY <2>1, <4>1
    <3>2. CASE d # c
      <4>1. /\ asked[d].pc = "unsub" /\ asked'[d].symbol = asked[d].symbol
            /\ asked[d].symbol \notin _desired_symbols \ disturbed
        BY <2>2, <3>2 DEF FedInv, LeavesTold
      <4>2. op = "sub" /\ asked[d].symbol = t
        BY <2>1, <4>1
      <4>3. Due(t)
        BY <4>1, <4>2 DEF Due
      <4> QED
        BY <2>1, <4>1, <4>2, <4>3
    <3> QED
      BY <3>1, <3>2
  <2> SUFFICES ASSUME NEW s \in Symbol, s \in _desired_symbols' \ disturbed', Open', ~Due(s)'
               PROVE  Fed(s)'
    BY <1>1, <2>4, FedFrom
  <2>5. Open
    BY <2>1 DEF Open
  <2>6. s # t
    BY <2>3, <2>5 DEF Due
  <2>7. ~Due(s)
    BY <2>1, <2>2 DEF Due
  <2>8. Fed(s)
    BY <2>1, <2>5, <2>6, <2>7, FedNow
  <2> QED
    BY <2>1, <2>8 DEF Fed, SnapshotOnWire
<1> QED
  BY <1>2, <1>3

\* The run connects, subscribes and resubscribes.
LEMMA SubscribingFeeds ==
    ASSUME FeedInv, FedInv, FeedInv',
           \/ Connect \/ AllSubscribed \/ ResyncUnsubscribe \/ ResyncSubscribe \/ StopTbt
           \/ \E s \in Symbol : SubscribeNext(s)
    PROVE  FedInv'
<1>1. /\ UNCHANGED <<_desired_symbols, disturbed, asked, resync, _books>>
      /\ _desired_symbols' \subseteq Symbol
  BY DEF Connect, AllSubscribed, ResyncUnsubscribe, ResyncSubscribe, StopTbt, SubscribeNext,
         FeedInv, FeedTypes
<1>2. LeavesTold'
  BY <1>1 DEF FedInv, LeavesTold
<1> SUFFICES ASSUME NEW s \in Symbol, s \in _desired_symbols' \ disturbed', Open', ~Due(s)'
             PROVE  Fed(s)'
  BY <1>1, <1>2, FedFrom
<1>3. CASE Connect
  BY <1>1, <1>3 DEF Connect, Due
<1>4. CASE AllSubscribed \/ StopTbt
  <2>1. Open /\ ~Due(s) /\ UNCHANGED <<listening, wire>>
    BY <1>1, <1>4 DEF AllSubscribed, StopTbt, Open, Due
  <2>2. Fed(s)
    BY <1>1, <2>1, FedNow
  <2> QED
    BY <1>1, <2>1, <2>2 DEF Fed, SnapshotOnWire
<1>5. ASSUME NEW t \in Symbol, SubscribeNext(t)
      PROVE  Fed(s)'
  <2>1. Open /\ SendSubscribe(t) /\ left' = left \ {t} /\ place' = place
    BY <1>5 DEF SubscribeNext, Open
  <2>2. CASE s = t
    BY <1>1, <2>1, <2>2, SubscribeFeeds
  <2>3. CASE s # t
    <3>1. ~Due(s)
      BY <1>1, <2>1, <2>3 DEF Due
    <3>2. Fed(s)
      BY <1>1, <2>1, <3>1, FedNow
    <3> QED
      BY <1>1, <2>1, <3>2, SubscribeFeeds
  <2> QED
    BY <2>2, <2>3
<1>6. CASE ResyncUnsubscribe
  <2>1. Open /\ SendUnsubscribe(resync) /\ place = "unsub" /\ place' = "resub" /\ left' = left
    BY <1>6 DEF ResyncUnsubscribe, Open
  <2>2. s # resync /\ ~Due(s)
    BY <1>1, <2>1 DEF Due
  <2>3. Fed(s) /\ resync \in Symbol
    BY <1>1, <2>1, <2>2, FedNow DEF FeedInv, FeedTypes
  <2> QED
    BY <1>1, <2>1, <2>2, <2>3, UnsubscribeSpares
<1>7. CASE ResyncSubscribe
  <2>1. /\ Open /\ SendSubscribe(resync) /\ left' = left /\ resync \in Symbol
        /\ place = "resub" /\ place' = "recv"
    BY <1>7 DEF ResyncSubscribe, Answer, Open, FeedInv, FeedTypes
  <2>2. CASE s = resync
    BY <1>1, <2>1, <2>2, SubscribeFeeds
  <2>3. CASE s # resync
    <3>1. ~Due(s)
      BY <1>1, <2>1, <2>3 DEF Due
    <3>2. Fed(s)
      BY <1>1, <2>1, <3>1, FedNow
    <3> QED
      BY <1>1, <2>1, <3>2, SubscribeFeeds
  <2> QED
    BY <2>2, <2>3
<1> QED
  BY <1>3, <1>4, <1>5, <1>6, <1>7

\* What the broker sends stands behind what is on its way.
LEMMA LevelChangeFeeds ==
    ASSUME FeedInv, FedInv, FeedInv', NEW t \in Symbol, NEW p \in Price, LevelChange(t, p)
    PROVE  FedInv'
<1>1. /\ UNCHANGED <<listening, _desired_symbols, _books, place, left, resync, asked, disturbed>>
      /\ wire \in Seq(Message) /\ wire' \in Seq(Message) /\ _desired_symbols' \subseteq Symbol
  BY DEF LevelChange, FeedInv, FeedTypes
<1>2. PICK m \in Message : wire' \in {wire, Append(wire, m), wire \o <<m, m>>}
  <2>1. PICK next : next = IF p \in history[t][Len(history[t])]
                           THEN history[t][Len(history[t])] \ {p}
                           ELSE history[t][Len(history[t])] \cup {p}
    OBVIOUS
  <2>2. Len(history[t]) < MaxSequence
    BY DEF LevelChange
  <2>3. DeltaOf(t, p, p \in next) \in Message
    BY <2>1, <2>2, DeltaIsTruthful
  <2>4. \/ wire' = Append(wire, DeltaOf(t, p, p \in next))
        \/ UNCHANGED wire
        \/ wire' = wire \o <<DeltaOf(t, p, p \in next), DeltaOf(t, p, p \in next)>>
    BY <2>1 DEF LevelChange
  <2> QED
    BY <2>3, <2>4
<1>3. \A s \in Symbol : SnapshotOnWire(s) => SnapshotOnWire(s)'
  <2> SUFFICES ASSUME NEW s \in Symbol, Carries(wire, s)
               PROVE  Carries(wire', s)
    BY <1>1, CarriesIsOnWire
  <2> DEFINE one == Append(wire, m)
             two == Append(one, m)
  <2>1. one \in Seq(Message) /\ Carries(one, s)
    BY <1>1, AppendCarries, AppendProperties
  <2>2. wire \o <<m, m>> = two
    BY <1>1
  <2> HIDE DEF one
  <2>3. Carries(two, s)
    BY <2>1, AppendCarries
  <2> QED
    BY <1>2, <2>1, <2>2, <2>3 DEF one
<1>4. LeavesTold'
  BY <1>1 DEF FedInv, LeavesTold
<1> SUFFICES ASSUME NEW s \in Symbol, s \in _desired_symbols' \ disturbed', Open', ~Due(s)'
             PROVE  Fed(s)'
  BY <1>1, <1>4, FedFrom
<1>5. Open /\ ~Due(s)
  BY <1>1 DEF Open, Due
<1>6. Fed(s)
  BY <1>1, <1>5, FedNow
<1> QED
  BY <1>1, <1>3, <1>6 DEF Fed

\* A snapshot builds the book it is taken from the wire for; a gap makes a frame due.
LEMMA ReceiveFeeds ==
    ASSUME FeedInv, FedInv, FeedInv', Receive \/ Unreadable
    PROVE  FedInv'
<1> DEFINE m == Head(wire)
           t == m.symbol
<1>1. /\ UNCHANGED <<listening, _desired_symbols, left, asked>>
      /\ wire \in Seq(Message) /\ wire # <<>> /\ wire' = Tail(wire) /\ wire' \in Seq(Message)
      /\ _desired_symbols' \subseteq Symbol /\ place = "recv" /\ disturbed \subseteq disturbed'
      /\ _books \in [Symbol -> B!Book]
  BY DEF Receive, Unreadable, FeedInv, FeedTypes
<1>2. m \in Message /\ t \in Symbol
  <2>1. m \in Message
    BY <1>1, HeadTailProperties
  <2> HIDE DEF m
  <2> QED
    BY <2>1 DEF Message
<1>3. \A s \in Symbol :
         SnapshotOnWire(s) /\ ~(t = s /\ m.snapshot) => SnapshotOnWire(s)'
  BY <1>1, TailCarries, CarriesIsOnWire
<1> HIDE DEF m
<1>4. LeavesTold'
  BY <1>1 DEF FedInv, LeavesTold
<1> SUFFICES ASSUME NEW s \in Symbol, s \in _desired_symbols' \ disturbed', Open', ~Due(s)'
             PROVE  Fed(s)'
  BY <1>1, <1>4, FedFrom
<1>5. Open /\ ~Due(s)
  BY <1>1 DEF Open, Due
<1>6. Fed(s)
  BY <1>1, <1>5, FedNow
<1>7. CASE Unreadable
  <2>1. _books' = _books /\ ~(t = s /\ m.snapshot)
    BY <1>7 DEF Unreadable, m
  <2> QED
    BY <1>1, <1>3, <1>6, <2>1 DEF Fed
<1>8. CASE Receive /\ s # t
  <2>1. _books'[s] = _books[s]
    BY <1>1, <1>8 DEF Receive, m
  <2> QED
    BY <1>1, <1>3, <1>6, <1>8, <2>1 DEF Fed
<1>9. CASE Receive /\ s = t
  <2>1. InSequence(_books[t], m.sequence)
    <3> SUFFICES ASSUME ~InSequence(_books[t], m.sequence)
                 PROVE  FALSE
      OBVIOUS
    <3>1. place' = "unsub" /\ resync' = t
      BY <1>9 DEF Receive, m
    <3> QED
      BY <1>9, <3>1 DEF Due
  <2>2. _books' = [_books EXCEPT ![t] = Updated(_books[t], m)]
    BY <1>9, <2>1 DEF Receive, m
  <2>3. _books'[s] = Updated(_books[s], m) /\ _books[s].snapshot_count \in Nat
    BY <1>1, <1>9, <2>2 DEF B!Book
  <2>4. CASE m.snapshot
    <3>1. _books'[s].snapshot_count = _books[s].snapshot_count + 1
      BY <2>3, <2>4 DEF Updated, B!ApplySnapshot
    <3> QED
      BY <1>1, <1>6, <2>3, <3>1 DEF Fed
  <2>5. CASE ~m.snapshot
    <3>1. Updated(_books[s], m) = B!ApplyDelta(_books[s], m.levels, m.sequence)
      BY <2>5 DEF Updated
    <3>2. _books'[s].snapshot_count = _books[s].snapshot_count
      BY <1>1, <2>3, <3>1 DEF B!ApplyDelta, B!Book
    <3> QED
      BY <1>1, <1>3, <1>6, <2>5, <3>2 DEF Fed
  <2> QED
    BY <2>4, <2>5
<1> QED
  BY <1>7, <1>8, <1>9

\* While the feed is connected, every desired symbol is one the broker sends, with a book
\* on a snapshot or a snapshot on its way, once its frames are sent: a gap that is noticed
\* and the frames of calls, which go out after the lock is released, leave none behind
\* (_process_feed, _resubscribe_symbol, subscribe, unsubscribe).
THEOREM EverySymbolIsFed == TbtSpec => []BooksAreFed
<1>1. TbtInit => FedInv
  BY DEF TbtInit, NobodyCalls, FedInv, BooksAreFed, LeavesTold
<1>2. FeedInv /\ FeedInv' /\ FedInv /\ [TbtNext]_tbtVars => FedInv'
  <2> SUFFICES ASSUME FeedInv, FeedInv', FedInv, [TbtNext]_tbtVars
               PROVE  FedInv'
    OBVIOUS
  <2>1. ASSUME NEW s \in Symbol, NEW p \in Price, LevelChange(s, p)
        PROVE  FedInv'
    BY <2>1, LevelChangeFeeds
  <2>2. ASSUME NEW c \in Subscriber,
               \/ SendRequest(c)
               \/ \E op \in {"sub", "unsub"}, s \in Symbol : Request(c, op, s)
        PROVE  FedInv'
    BY <2>2, CallersFeed
  <2>3. CASE \/ Connect \/ AllSubscribed \/ ResyncUnsubscribe \/ ResyncSubscribe \/ StopTbt
             \/ \E s \in Symbol : SubscribeNext(s)
    BY <2>3, SubscribingFeeds
  <2>4. CASE Receive \/ Unreadable
    BY <2>4, ReceiveFeeds
  <2>5. CASE Stopped \/ SessionFails
    <3>1. /\ place' = "ended" /\ UNCHANGED <<_desired_symbols, asked, disturbed>>
      BY <2>5 DEF Stopped, SessionFails, EndRun
    <3> QED
      BY <3>1 DEF FedInv, BooksAreFed, LeavesTold, Open
  <2>6. CASE UNCHANGED tbtVars
    BY <2>6 DEF tbtVars, FedInv, BooksAreFed, LeavesTold, Open, Due, SnapshotOnWire
  <2> QED
    BY <2>1, <2>2, <2>3, <2>4, <2>5, <2>6 DEF TbtNext, TbtStep
<1>3. FedInv => BooksAreFed
  BY DEF FedInv
<1> QED
  BY <1>1, <1>2, <1>3, FeedInvariance, PTL DEF TbtSpec
=============================================================================
