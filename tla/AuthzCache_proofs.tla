-------------------------- MODULE AuthzCache_proofs --------------------------
(* For every size of the cache, every lifetime and timeout, any number of    *)
(* phases of an exchange, and any number of keys, servers and requests: the  *)
(* cache stays bounded with one entry for a key, and no verdict a caller is  *)
(* told is older than its lifetime and the longest exchange.                 *)
EXTENDS AuthzCache, Lists_proofs

\* one entry for a key
Distinct(c) == \A i, j \in DOMAIN c : c[i].key = c[j].key => i = j

\* A request that was sent knows its key, its server and, later, a verdict.
TasksOK ==
    \A t \in Request :
        /\ pc[t] \in {"asking", "answered"} =>
              key[t] \in Key /\ server[t] \in Server
        /\ pc[t] = "answered" => reply[t] \in Verdict

\* the inductive invariant of the cache
CacheInv == TypeOK /\ TasksOK /\ CacheBounded
-----------------------------------------------------------------------------
(* Filtering a cache drops entries and nothing else.                         *)
LEMMA CacheKept ==
    ASSUME NEW c \in Seq(Entry), NEW I \in SUBSET DOMAIN c
    PROVE  /\ Keep(c, I) \in Seq(Entry)
           /\ Elements(Keep(c, I)) \subseteq Elements(c)
           /\ Len(Keep(c, I)) <= Len(c)
           /\ I # DOMAIN c => Len(Keep(c, I)) < Len(c)
           /\ Distinct(c) => Distinct(Keep(c, I))
<1> DEFINE s == Keep(c, I)
<1>1. /\ s \in Seq(Entry) /\ Elements(s) = {c[i] : i \in I}
      /\ \E f \in [DOMAIN s -> I] :
            /\ \A n \in DOMAIN s : s[n] = c[f[n]]
            /\ \A n, m \in DOMAIN s : n < m => f[n] < f[m]
            /\ \A i \in I : \E n \in DOMAIN s : f[n] = i
  <2>1. Keep(c, I) \in Seq(Entry) /\ Elements(Keep(c, I)) = {c[i] : i \in I}
    BY KeepLists
  <2>2. \E f \in [DOMAIN Keep(c, I) -> I] :
           /\ \A n \in DOMAIN Keep(c, I) : Keep(c, I)[n] = c[f[n]]
           /\ \A n, m \in DOMAIN Keep(c, I) : n < m => f[n] < f[m]
           /\ \A i \in I : \E n \in DOMAIN Keep(c, I) : f[n] = i
    BY KeepLists
  <2> QED
    BY <2>1, <2>2
<1>2. Len(s) <= Len(c) /\ (I # DOMAIN c => Len(s) < Len(c))
  BY KeepShrinks
<1> HIDE DEF s
<1>3. Elements(s) \subseteq Elements(c)
  BY <1>1 DEF Elements
<1>4. ASSUME Distinct(c) PROVE Distinct(s)
  <2>1. PICK f \in [DOMAIN s -> I] :
            /\ \A n \in DOMAIN s : s[n] = c[f[n]]
            /\ \A n, m \in DOMAIN s : n < m => f[n] < f[m]
    BY <1>1
  <2>2. SUFFICES ASSUME NEW n \in DOMAIN s, NEW m \in DOMAIN s, n < m,
                        s[n].key = s[m].key
                 PROVE  FALSE
    BY <1>1 DEF Distinct
  <2>3. f[n] = f[m]
    BY <1>4, <2>1, <2>2 DEF Distinct
  <2>4. f[n] < f[m] /\ f[n] \in Nat
    BY <2>1, <2>2
  <2> QED
    BY <2>3, <2>4
<1> QED
  BY <1>1, <1>2, <1>3, <1>4 DEF s

(* Dropping the oldest entry.                                                *)
LEMMA CacheTail ==
    ASSUME NEW c \in Seq(Entry), c # <<>>
    PROVE  /\ Tail(c) \in Seq(Entry)
           /\ Elements(Tail(c)) \subseteq Elements(c)
           /\ Len(Tail(c)) < Len(c)
           /\ Distinct(c) => Distinct(Tail(c))
<1>1. /\ Tail(c) \in Seq(Entry) /\ Len(Tail(c)) = Len(c) - 1 /\ Len(c) \in Nat
      /\ DOMAIN c = 1..Len(c) /\ DOMAIN Tail(c) = 1..(Len(c) - 1)
      /\ \A i \in 1..(Len(c) - 1) : Tail(c)[i] = c[i + 1]
  OBVIOUS
<1>2. \A i \in DOMAIN Tail(c) : i \in Nat /\ i + 1 \in DOMAIN c
  BY <1>1
<1> QED
  BY <1>1, <1>2 DEF Elements, Distinct

(* Writing an entry replaces the entry of its key or adds one.               *)
LEMMA CacheStored ==
    ASSUME NEW c \in Seq(Entry), NEW e \in Entry
    PROVE  /\ Store(c, e) \in Seq(Entry)
           /\ Elements(Store(c, e)) \subseteq Elements(c) \cup {e}
           /\ Distinct(c) => Distinct(Store(c, e))
           /\ Len(Store(c, e)) <=
                IF \E i \in DOMAIN c : c[i].key = e.key THEN Len(c) ELSE Len(c) + 1
<1>1. DOMAIN c = 1..Len(c) /\ Len(c) \in Nat /\ \A i \in DOMAIN c : c[i] \in Entry
  OBVIOUS
<1>2. CASE \E i \in DOMAIN c : c[i].key = e.key
  <2>1. Store(c, e) = [i \in DOMAIN c |-> IF c[i].key = e.key THEN e ELSE c[i]]
    BY <1>2 DEF Store
  <2>2. Store(c, e) \in Seq(Entry) /\ DOMAIN Store(c, e) = DOMAIN c
        /\ Len(Store(c, e)) = Len(c)
    BY <1>1, <2>1
  <2>3. \A i \in DOMAIN c : Store(c, e)[i] = IF c[i].key = e.key THEN e ELSE c[i]
    BY <2>1
  <2>4. Elements(Store(c, e)) \subseteq Elements(c) \cup {e}
    BY <2>2, <2>3 DEF Elements
  <2>5. \A i \in DOMAIN c : Store(c, e)[i].key = c[i].key
    BY <2>3
  <2>6. Distinct(c) => Distinct(Store(c, e))
    BY <2>2, <2>5 DEF Distinct
  <2> QED
    BY <1>1, <1>2, <2>2, <2>4, <2>6
<1>3. CASE ~\E i \in DOMAIN c : c[i].key = e.key
  <2>1. Store(c, e) = Append(c, e)
    BY <1>3 DEF Store
  <2>2. /\ Append(c, e) \in Seq(Entry) /\ Len(Append(c, e)) = Len(c) + 1
        /\ DOMAIN Append(c, e) = 1..(Len(c) + 1)
        /\ \A i \in 1..(Len(c) + 1) :
              Append(c, e)[i] = IF i = Len(c) + 1 THEN e ELSE c[i]
    BY <1>1
  <2>3. \A i \in 1..(Len(c) + 1) : i = Len(c) + 1 \/ i \in DOMAIN c
    BY <1>1
  <2>4. Elements(Append(c, e)) \subseteq Elements(c) \cup {e}
    BY <2>2, <2>3 DEF Elements
  <2>5. Distinct(c) => Distinct(Append(c, e))
    BY <1>1, <1>3, <2>2, <2>3 DEF Distinct
  <2> QED
    BY <1>1, <1>3, <2>1, <2>2, <2>4, <2>5
<1> QED
  BY <1>2, <1>3

(* put makes room: it only drops entries, and leaves a place for a new key.  *)
LEMMA RoomMade ==
    ASSUME TypeOK, CacheBounded, NEW k
    PROVE  /\ MakeRoom(k) \in Seq(Entry)
           /\ Elements(MakeRoom(k)) \subseteq Elements(cache)
           /\ Distinct(MakeRoom(k))
           /\ Len(MakeRoom(k)) <= MaxSize
           /\ At(k) = {} => Len(MakeRoom(k)) < MaxSize
           /\ At(k) # {} => MakeRoom(k) = cache
<1>1. /\ cache \in Seq(Entry) /\ Distinct(cache) /\ Len(cache) \in Nat
      /\ Len(cache) <= MaxSize /\ MaxSize \in Nat /\ MaxSize > 0
  BY CacheConstants DEF TypeOK, CacheBounded, Distinct
<1>2. CASE Full /\ At(k) = {} /\ Reclaimed # {}
  <2> DEFINE I == DOMAIN cache \ Reclaimed
  <2>1. MakeRoom(k) = Keep(cache, I)
    BY <1>2 DEF MakeRoom
  <2>2. I \in SUBSET DOMAIN cache /\ I # DOMAIN cache
    BY <1>2 DEF Reclaimed, Expired
  <2> HIDE DEF I
  <2>3. /\ Keep(cache, I) \in Seq(Entry) /\ Distinct(Keep(cache, I))
        /\ Elements(Keep(cache, I)) \subseteq Elements(cache)
        /\ Len(Keep(cache, I)) < Len(cache) /\ Len(Keep(cache, I)) \in Nat
    BY <1>1, <2>2, CacheKept
  <2> QED
    BY <1>1, <1>2, <2>1, <2>3
<1>3. CASE Full /\ At(k) = {} /\ Reclaimed = {}
  <2>1. MakeRoom(k) = Tail(cache) /\ cache # <<>>
    BY <1>1, <1>3 DEF MakeRoom, Full
  <2>2. /\ Tail(cache) \in Seq(Entry) /\ Distinct(Tail(cache))
        /\ Elements(Tail(cache)) \subseteq Elements(cache)
        /\ Len(Tail(cache)) < Len(cache) /\ Len(Tail(cache)) \in Nat
    BY <1>1, <2>1, CacheTail
  <2> QED
    BY <1>1, <1>3, <2>1, <2>2
<1>4. CASE ~(Full /\ At(k) = {})
  BY <1>1, <1>4 DEF MakeRoom, Full
<1> QED
  BY <1>2, <1>3, <1>4
(* A lookup only drops entries.                                              *)
LEMMA LookedShrinks ==
    ASSUME TypeOK, NEW k
    PROVE  /\ Looked(k) \in Seq(Entry)
           /\ Elements(Looked(k)) \subseteq Elements(cache)
           /\ Len(Looked(k)) \in Nat /\ Len(cache) \in Nat
           /\ Len(Looked(k)) <= Len(cache)
           /\ Distinct(cache) => Distinct(Looked(k))
<1> DEFINE I == {i \in DOMAIN cache : cache[i].key = k => now < cache[i].exp}
<1>1. cache \in Seq(Entry) /\ I \in SUBSET DOMAIN cache /\ Looked(k) = Keep(cache, I)
  BY DEF TypeOK, Looked
<1> HIDE DEF I
<1> QED
  BY <1>1, CacheKept

(* What a lookup answers is the verdict of a live entry of the key.          *)
LEMMA LookupLive ==
    ASSUME TypeOK, NEW k, Lookup(k) # None
    PROVE  \E e \in Elements(cache) : /\ e \in Entry /\ e.key = k /\ now < e.exp
                                      /\ e.verdict = Lookup(k) /\ Lookup(k) \in Verdict
<1>1. Live(k) # {} /\ Lookup(k) = cache[CHOOSE i \in Live(k) : TRUE].verdict
  BY DEF Lookup
<1>2. PICK i \in Live(k) : Lookup(k) = cache[i].verdict
  BY <1>1
<1>3. i \in DOMAIN cache /\ cache[i].key = k /\ now < cache[i].exp
  BY DEF Live, At
<1>4. cache[i] \in Entry
  BY <1>3 DEF TypeOK
<1> QED
  BY <1>2, <1>3, <1>4 DEF Elements, Entry

(* What put writes is an entry.                                              *)
LEMMA PutEntry ==
    ASSUME TypeOK, TasksOK, NEW t \in Request, pc[t] = "answered"
    PROVE  /\ [key |-> key[t], verdict |-> reply[t], exp |-> now + Ttl(reply[t])] \in Entry
           /\ reply[t] \in Verdict /\ key[t] \in Key /\ server[t] \in Server
           /\ Ttl(reply[t]) \in Nat \ {0}
<1>1. reply[t] \in Verdict /\ key[t] \in Key /\ server[t] \in Server
  BY DEF TasksOK
<1>2. Ttl(reply[t]) \in Nat \ {0} /\ now \in Nat
  BY CacheConstants DEF Ttl, TypeOK
<1> QED
  BY <1>1, <1>2 DEF Entry
-----------------------------------------------------------------------------
(* An exchange lasts a timeout for each of its phases.                       *)
LEMMA ExchangeType == Exchange \in Nat
BY CacheConstants DEF Exchange

(* The empty cache and the idle requests of the start.                       *)
LEMMA CacheInit == Init => CacheInv
<1> SUFFICES ASSUME Init PROVE CacheInv
  OBVIOUS
<1>1. TypeOK
  <2>1. Never \in Int
    BY ExchangeType, CacheConstants DEF Never
  <2> QED
    BY <2>1, CacheConstants DEF Init, TypeOK
<1>2. TasksOK
  BY DEF Init, TasksOK
<1>3. CacheBounded
  BY CacheConstants DEF Init, CacheBounded
<1> QED
  BY <1>1, <1>2, <1>3 DEF CacheInv

(* Every step keeps the types, and the cache within its bound.               *)
LEMMA CacheStep == CacheInv /\ [Next]_vars => CacheInv'
<1> SUFFICES ASSUME CacheInv, [Next]_vars PROVE CacheInv'
  OBVIOUS
<1>0. TypeOK /\ TasksOK /\ CacheBounded /\ cache \in Seq(Entry) /\ Distinct(cache)
      /\ Len(cache) \in Nat /\ MaxSize \in Nat
  BY CacheConstants DEF CacheInv, TypeOK, CacheBounded, Distinct
<1>1. ASSUME NEW s \in Server, NEW k \in Key, Decide(s, k) PROVE CacheInv'
  <2>1. TypeOK'
    BY <1>0, <1>1 DEF TypeOK, Decide, tasks, exchange, Verdict
  <2>2. TasksOK' /\ CacheBounded'
    BY <1>0, <1>1 DEF Decide, tasks, TasksOK, CacheBounded
  <2> QED
    BY <2>1, <2>2 DEF CacheInv
<1>2. ASSUME NEW u \in Server \cup {None}, Reconfigure(u) PROVE CacheInv'
  <2>1. TypeOK'
    BY <1>0, <1>2 DEF TypeOK, Reconfigure, tasks, exchange
  <2>2. TasksOK' /\ CacheBounded'
    BY <1>0, <1>2 DEF Reconfigure, tasks, TasksOK, CacheBounded
  <2> QED
    BY <2>1, <2>2 DEF CacheInv
<1>3. ASSUME Tick PROVE CacheInv'
  <2>1. TypeOK'
    BY <1>0, <1>3 DEF TypeOK, Tick, truth, tasks, exchange
  <2>2. TasksOK' /\ CacheBounded'
    BY <1>0, <1>3 DEF Tick, tasks, TasksOK, CacheBounded
  <2> QED
    BY <2>1, <2>2 DEF CacheInv
<1>4. ASSUME NEW t \in Request, NEW k \in Key, Ask(t, k) PROVE CacheInv'
  <2>1. /\ Looked(k) \in Seq(Entry) /\ Distinct(Looked(k))
        /\ Len(Looked(k)) <= MaxSize
    BY <1>0, LookedShrinks DEF CacheBounded
  <2>2. cache' = Looked(k)
    BY <1>4 DEF Ask
  <2>3. Lookup(k) # None => Lookup(k) \in Verdict
    BY <1>0, LookupLive
  <2>4. TypeOK'
    <3>1. /\ now \in Nat /\ 1 \in 0..Phases
          /\ started \in [Request -> Nat] /\ since \in [Request -> Nat]
          /\ phase \in [Request -> 0..Phases]
          /\ pc \in [Request -> {"idle", "asking", "answered", "replied"}]
          /\ key \in [Request -> Key \cup {None}]
          /\ server \in [Request -> Server \cup {None}] /\ url \in Server \cup {None}
          /\ reply \in [Request -> Verdict \cup Failure \cup {"none"}]
      BY <1>0, CacheConstants DEF TypeOK
    <3>2. /\ started' \in [Request -> Nat] /\ since' \in [Request -> Nat]
          /\ phase' \in [Request -> 0..Phases]
      BY <1>4, <3>1 DEF Ask, exchange
    <3>3. /\ pc' \in [Request -> {"idle", "asking", "answered", "replied"}]
          /\ key' \in [Request -> Key \cup {None}]
          /\ server' \in [Request -> Server \cup {None}]
      BY <1>4, <3>1 DEF Ask, Reply
    <3>4. reply' \in [Request -> Verdict \cup Failure \cup {"none"}]
      BY <1>4, <2>3, <3>1 DEF Ask, Reply, Failure
    <3>5. UNCHANGED <<now, url, decision, until, left, changes>>
      BY <1>4 DEF Ask, truth
    <3> QED
      BY <1>0, <2>1, <2>2, <3>2, <3>3, <3>4, <3>5 DEF TypeOK
  <2>5. TasksOK'
    BY <1>0, <1>4, <2>3 DEF TypeOK, TasksOK, Ask, Reply
  <2>6. CacheBounded'
    BY <2>1, <2>2 DEF CacheBounded, Distinct
  <2> QED
    BY <2>4, <2>5, <2>6 DEF CacheInv
<1>5. ASSUME NEW t \in Request, Answer(t) PROVE CacheInv'
  <2>0. decision[server[t]][key[t]] \in Verdict
    BY <1>0, <1>5 DEF TypeOK, TasksOK, Answer
  <2>1. TypeOK'
    BY <1>0, <1>5, <2>0 DEF TypeOK, Answer, truth, exchange
  <2>2. TasksOK' /\ CacheBounded'
    BY <1>0, <1>5, <2>0 DEF Answer, TypeOK, TasksOK, CacheBounded
  <2> QED
    BY <2>1, <2>2 DEF CacheInv
<1>6. ASSUME NEW t \in Request, Fails(t) PROVE CacheInv'
  <2>1. TypeOK'
    BY <1>0, <1>6 DEF TypeOK, Fails, Reply, truth, exchange, Failure
  <2>2. TasksOK' /\ CacheBounded'
    BY <1>0, <1>6 DEF Fails, Reply, TypeOK, TasksOK, CacheBounded
  <2> QED
    BY <2>1, <2>2 DEF CacheInv
<1>7. ASSUME NEW t \in Request, Put(t) PROVE CacheInv'
  <2> DEFINE e == [key |-> key[t], verdict |-> reply[t], exp |-> now + Ttl(reply[t])]
             m == MakeRoom(key[t])
  <2>1. e \in Entry /\ e.key = key[t] /\ reply[t] \in Verdict
    BY <1>0, <1>7, PutEntry DEF Put
  <2>2. /\ m \in Seq(Entry) /\ Distinct(m) /\ Len(m) <= MaxSize
        /\ At(key[t]) = {} => Len(m) < MaxSize
        /\ At(key[t]) # {} => m = cache
    BY <1>0, RoomMade
  <2>3. /\ cache' = m \/ cache' = Store(m, e)
        /\ pc' = [pc EXCEPT ![t] = "replied"]
        /\ reply' = [reply EXCEPT ![t] = "error"] \/ reply' = [reply EXCEPT ![t] = reply[t]]
        /\ UNCHANGED <<now, truth, key, server, exchange>>
    BY <1>7 DEF Put, Reply
  <2> HIDE DEF m, e
  <2>4. /\ Store(m, e) \in Seq(Entry) /\ Distinct(Store(m, e))
        /\ Len(Store(m, e)) <= MaxSize
    <3>1. Len(m) \in Nat /\ Len(Store(m, e)) \in Nat
      BY <2>1, <2>2, CacheStored
    <3>2. At(key[t]) # {} => \E i \in DOMAIN m : m[i].key = e.key
      BY <2>1, <2>2 DEF At
    <3>3. Store(m, e) \in Seq(Entry) /\ Distinct(Store(m, e))
      BY <2>1, <2>2, CacheStored
    <3>4. Len(Store(m, e)) <=
            IF \E i \in DOMAIN m : m[i].key = e.key THEN Len(m) ELSE Len(m) + 1
      BY <2>1, <2>2, CacheStored
    <3>5. CASE At(key[t]) = {}
      BY <1>0, <2>2, <3>1, <3>3, <3>4, <3>5
    <3>6. CASE At(key[t]) # {}
      BY <1>0, <2>2, <3>1, <3>2, <3>3, <3>4, <3>6
    <3> QED
      BY <3>3, <3>5, <3>6
  <2>5. /\ cache' \in Seq(Entry) /\ Distinct(cache') /\ Len(cache') <= MaxSize
    BY <2>2, <2>3, <2>4
  <2>6. TypeOK'
    BY <1>0, <2>1, <2>3, <2>5 DEF TypeOK, truth, exchange, Failure
  <2>7. TasksOK'
    BY <1>0, <2>1, <2>3 DEF TypeOK, TasksOK
  <2>8. CacheBounded'
    BY <2>5 DEF CacheBounded, Distinct
  <2> QED
    BY <2>6, <2>7, <2>8 DEF CacheInv
<1>8. ASSUME NEW t \in Request, Sent(t) PROVE CacheInv'
  <2>1. TypeOK'
    BY <1>0, <1>8, CacheConstants DEF TypeOK, Sent, truth
  <2>2. TasksOK' /\ CacheBounded'
    BY <1>0, <1>8 DEF Sent, TypeOK, TasksOK, CacheBounded
  <2> QED
    BY <2>1, <2>2 DEF CacheInv
<1>9. ASSUME NEW t \in Request, Progress(t) PROVE CacheInv'
  <2>1. phase' \in [Request -> 0..Phases] /\ since' \in [Request -> Nat]
    BY <1>0, <1>9, CacheConstants DEF TypeOK, Progress
  <2>2. UNCHANGED <<cache, now, truth, pc, key, server, started, reply>>
    BY <1>9 DEF Progress
  <2>3. TypeOK'
    BY <1>0, <2>1, <2>2 DEF TypeOK, truth
  <2>4. TasksOK' /\ CacheBounded'
    BY <1>0, <2>2 DEF TasksOK, CacheBounded
  <2> QED
    BY <2>3, <2>4 DEF CacheInv
<1>10. ASSUME UNCHANGED vars PROVE CacheInv'
  BY <1>0, <1>10 DEF vars, truth, tasks, exchange, CacheInv, TypeOK, TasksOK, CacheBounded
<1> QED
  BY <1>1, <1>2, <1>3, <1>4, <1>5, <1>6, <1>7, <1>8, <1>9, <1>10 DEF Next

(* In every behaviour the cache keeps its types ...                          *)
THEOREM CacheTypes == Spec => []TypeOK
<1>1. Spec => []CacheInv
  BY CacheInit, CacheStep, PTL DEF Spec
<1> QED
  BY <1>1, PTL DEF CacheInv

(* ... and its bound, with one entry for a key.                              *)
THEOREM CacheStaysBounded == Spec => []CacheBounded
<1>1. Spec => []CacheInv
  BY CacheInit, CacheStep, PTL DEF Spec
<1> QED
  BY <1>1, PTL DEF CacheInv
-----------------------------------------------------------------------------
(* Staleness.  What stands behind a verdict: s has said v of k at b or later *)
(* (or says it still), and has been the configured server at b or later.     *)
Backs(s, k, v, b) ==
    /\ decision[s][k] = v \/ b <= until[s][k][v]
    /\ url = s \/ b <= left[s]

\* the earliest instant at which the server may have given an entry's verdict
Birth(e) == e.exp - Ttl(e.verdict) - Exchange

\* A cached verdict was given at most one exchange before it was written.
EntriesBacked ==
    \A e \in Elements(cache) :
        /\ e.exp <= now + Ttl(e.verdict)
        /\ \E s \in Server : Backs(s, e.key, e.verdict, Birth(e))

\* A request went to the server configured when it was sent, and the answer it
\* carries was given since.
RequestsBacked ==
    \A t \in Request : pc[t] \in {"asking", "answered"} =>
        /\ started[t] <= now
        /\ url = server[t] \/ started[t] <= left[server[t]]
        /\ pc[t] = "answered" =>
              Backs(server[t], key[t], reply[t], started[t])

\* Every phase of an exchange but the last one is over, each in its timeout, and
\* the last one is not overdue.
ExchangesTimed ==
    \A t \in Request : Exchanging(t) =>
        /\ phase[t] >= 1
        /\ since[t] <= now /\ now <= since[t] + Timeout
        /\ since[t] <= started[t] + (phase[t] - 1) * Timeout

RecentInv == CacheInv /\ ExchangesTimed /\ EntriesBacked /\ RequestsBacked

(* One more phase is one more timeout, and there are at most Phases.         *)
LEMMA PhasesTime ==
    ASSUME NEW p \in 1..Phases
    PROVE  /\ p * Timeout \in Nat /\ (p - 1) * Timeout \in Nat
           /\ (p - 1) * Timeout + Timeout = p * Timeout
           /\ p * Timeout <= Exchange
<1>1. p \in Nat /\ p >= 1 /\ Phases \in Nat /\ Timeout \in Nat /\ Phases - p \in Nat
  BY CacheConstants
<1>2. (p - 1) * Timeout + Timeout = p * Timeout
  BY <1>1
<1>3. (Phases - p) * Timeout \in Nat
  BY <1>1
<1>4. p * Timeout + (Phases - p) * Timeout = Phases * Timeout
  BY <1>1
<1>5. p * Timeout \in Nat /\ (p - 1) * Timeout \in Nat
  BY <1>1
<1> QED
  BY <1>2, <1>3, <1>4, <1>5 DEF Exchange

(* No exchange is older than the longest one.                                *)
LEMMA InTime ==
    ASSUME TypeOK, ExchangesTimed, NEW t \in Request, Exchanging(t)
    PROVE  now <= started[t] + Exchange
<1>1. /\ now \in Nat /\ since[t] \in Nat /\ started[t] \in Nat /\ phase[t] \in 1..Phases
      /\ now <= since[t] + Timeout
      /\ since[t] <= started[t] + (phase[t] - 1) * Timeout
  BY DEF TypeOK, ExchangesTimed
<1> DEFINE before == (phase[t] - 1) * Timeout
           all == phase[t] * Timeout
<1>2. /\ before \in Nat /\ all \in Nat /\ before + Timeout = all /\ all <= Exchange
  BY <1>1, PhasesTime
<1>3. Timeout \in Nat /\ Exchange \in Nat /\ since[t] <= started[t] + before
  BY <1>1, ExchangeType, CacheConstants
<1> HIDE DEF before, all
<1> QED
  BY <1>1, <1>2, <1>3

(* Exchanges keep to their timeouts.                                         *)
LEMMA TimedStep ==
    ASSUME TypeOK, ExchangesTimed, [Next]_vars
    PROVE  ExchangesTimed'
<1>0. /\ now \in Nat /\ Timeout \in Nat /\ Phases \in Nat /\ Phases >= 1
      /\ since \in [Request -> Nat] /\ started \in [Request -> Nat]
      /\ phase \in [Request -> 0..Phases]
      /\ pc \in [Request -> {"idle", "asking", "answered", "replied"}]
  BY CacheConstants DEF TypeOK
<1>1. ASSUME now' = now, NEW t \in Request, Exchanging(t)', Exchanging(t),
             phase'[t] = phase[t], since'[t] = since[t], started'[t] = started[t]
      PROVE  /\ phase'[t] >= 1
             /\ since'[t] <= now' /\ now' <= since'[t] + Timeout
             /\ since'[t] <= started'[t] + (phase'[t] - 1) * Timeout
  BY <1>1 DEF ExchangesTimed
<1>2. CASE \/ \E s \in Server, k \in Key : Decide(s, k)
           \/ \E u \in Server \cup {None} : Reconfigure(u)
           \/ UNCHANGED vars
  <2>1. now' = now /\ UNCHANGED <<pc, started, phase, since>>
    BY <1>2 DEF Decide, Reconfigure, vars, tasks, exchange
  <2> QED
    BY <1>1, <2>1 DEF ExchangesTimed, Exchanging
<1>3. CASE Tick
  <2>1. /\ now' = now + 1 /\ UNCHANGED <<pc, started, phase, since>>
        /\ \A t \in Request : Exchanging(t) => now < since[t] + Timeout
    BY <1>3 DEF Tick, tasks, exchange
  <2>2. ASSUME NEW t \in Request, Exchanging(t)
        PROVE  since[t] <= now' /\ now' <= since[t] + Timeout
    <3>1. since[t] \in Nat /\ since[t] <= now /\ now < since[t] + Timeout
      BY <1>0, <2>1, <2>2 DEF ExchangesTimed
    <3> QED
      BY <1>0, <2>1, <3>1
  <2> QED
    BY <2>1, <2>2 DEF ExchangesTimed, Exchanging
<1>4. ASSUME NEW t \in Request, Progress(t)
      PROVE  ExchangesTimed'
  <2>1. /\ Exchanging(t) /\ phase[t] \in 1..Phases /\ now' = now
        /\ phase'[t] = phase[t] + 1 /\ since'[t] = now /\ started' = started /\ pc' = pc
        /\ \A r \in Request \ {t} : phase'[r] = phase[r] /\ since'[r] = since[r]
    BY <1>0, <1>4 DEF Progress, ExchangesTimed
  <2> DEFINE before == (phase[t] - 1) * Timeout
             all == phase[t] * Timeout
  <2>2. /\ now <= since[t] + Timeout /\ since[t] <= started[t] + before
        /\ since[t] \in Nat /\ started[t] \in Nat
    BY <1>0, <2>1 DEF ExchangesTimed
  <2>3. before \in Nat /\ all \in Nat /\ before + Timeout = all
    BY <2>1, PhasesTime
  <2> HIDE DEF before
  <2>4. now <= started[t] + all
    BY <1>0, <2>2, <2>3
  <2>5. phase'[t] - 1 = phase[t] /\ phase'[t] >= 1
    BY <2>1
  <2>6. /\ since'[t] <= now' /\ now' <= since'[t] + Timeout
        /\ since'[t] <= started'[t] + (phase'[t] - 1) * Timeout
    BY <1>0, <2>1, <2>4, <2>5
  <2> QED
    BY <1>1, <2>1, <2>5, <2>6 DEF ExchangesTimed, Exchanging
<1>5. ASSUME NEW t \in Request, NEW k \in Key, Ask(t, k)
      PROVE  ExchangesTimed'
  <2>1. /\ now' = now
        /\ \A r \in Request \ {t} : /\ pc'[r] = pc[r] /\ phase'[r] = phase[r]
                                     /\ since'[r] = since[r] /\ started'[r] = started[r]
        /\ \/ pc'[t] = "replied"
           \/ started'[t] = now /\ since'[t] = now /\ phase'[t] = 1
    BY <1>0, <1>5 DEF Ask, Reply, exchange
  <2>2. (1 - 1) * Timeout = 0
    BY <1>0
  <2> QED
    BY <1>0, <1>1, <2>1, <2>2 DEF ExchangesTimed, Exchanging
<1>6. ASSUME NEW t \in Request, Answer(t) \/ Fails(t) \/ Put(t) \/ Sent(t)
      PROVE  ExchangesTimed'
  <2>1. ASSUME NEW r \in Request, Exchanging(r)'
        PROVE  /\ Exchanging(r) /\ phase'[r] = phase[r]
               /\ since'[r] = since[r] /\ started'[r] = started[r]
    BY <1>0, <1>6, <2>1 DEF Answer, Fails, Put, Sent, Reply, exchange, Exchanging
  <2>2. now' = now
    BY <1>6 DEF Answer, Fails, Put, Sent
  <2> QED
    BY <1>1, <2>1, <2>2 DEF ExchangesTimed
<1> QED
  BY <1>2, <1>3, <1>4, <1>5, <1>6 DEF Next

(* A lifetime is positive.                                                   *)
LEMMA TtlType == ASSUME NEW v PROVE Ttl(v) \in Nat \ {0}
BY CacheConstants DEF Ttl

(* Evidence from b on survives what the servers and a reload change: the     *)
(* instant a verdict or a configuration ends is recorded, and is after b.    *)
LEMMA BacksDecide ==
    ASSUME TypeOK, NEW s \in Server, NEW k \in Key, Decide(s, k),
           NEW s2 \in Server, NEW k2 \in Key, NEW v \in Verdict, NEW b \in Int,
           b <= now, Backs(s2, k2, v, b)
    PROVE  Backs(s2, k2, v, b)'
<1>1. /\ now \in Nat /\ decision \in [Server -> [Key -> Verdict]]
      /\ until \in [Server -> [Key -> [Verdict -> Int]]]
  BY DEF TypeOK
<1>2. /\ url' = url /\ left' = left
      /\ until' = [until EXCEPT ![s][k][decision[s][k]] = now]
      /\ decision' = [decision EXCEPT ![s][k] = IF @ = "allow" THEN "deny" ELSE "allow"]
  BY DEF Decide
<1>3. CASE s2 = s /\ k2 = k /\ v = decision[s][k]
  <2>1. until'[s2][k2][v] = now
    BY <1>1, <1>2, <1>3
  <2> QED
    BY <1>2, <2>1 DEF Backs
<1>4. CASE s2 = s /\ k2 = k /\ v # decision[s][k]
  <2>1. until'[s2][k2][v] = until[s2][k2][v]
    BY <1>1, <1>2, <1>4
  <2> QED
    BY <1>2, <1>4, <2>1 DEF Backs
<1>5. CASE ~(s2 = s /\ k2 = k)
  <2>1. until'[s2][k2] = until[s2][k2] /\ decision'[s2][k2] = decision[s2][k2]
    BY <1>1, <1>2, <1>5
  <2> QED
    BY <1>2, <2>1 DEF Backs
<1> QED
  BY <1>3, <1>4, <1>5

(* So does the evidence that a server was configured, through a reload.      *)
LEMMA BacksReconfigure ==
    ASSUME TypeOK, NEW u \in Server \cup {None}, Reconfigure(u),
           NEW s \in Server, NEW b \in Int, b <= now, url = s \/ b <= left[s]
    PROVE  (url = s \/ b <= left[s])'
BY DEF TypeOK, Reconfigure

(* The entries a step leaves or adds are backed.                             *)
LEMMA EntriesStay ==
    ASSUME RecentInv, UNCHANGED <<now, truth>>,
           Elements(cache') \subseteq Elements(cache)
    PROVE  EntriesBacked'
BY DEF RecentInv, EntriesBacked, Backs, Birth, Ttl, truth

(* So are the requests that a step leaves in flight.                         *)
LEMMA RequestsStay ==
    ASSUME RecentInv, UNCHANGED <<now, truth>>,
           \A t \in Request : pc'[t] \in {"asking", "answered"} =>
               /\ pc'[t] = pc[t] /\ key'[t] = key[t] /\ server'[t] = server[t]
               /\ started'[t] = started[t] /\ reply'[t] = reply[t]
    PROVE  RequestsBacked'
BY DEF RecentInv, RequestsBacked, Backs, truth

(* At the start nothing is cached and nothing was asked.                     *)
LEMMA RecentInit == Init => RecentInv
<1> SUFFICES ASSUME Init PROVE RecentInv
  OBVIOUS
<1>1. Elements(cache) = {}
  BY DEF Init, Elements
<1> QED
  BY <1>1, CacheInit DEF RecentInv, ExchangesTimed, Exchanging, EntriesBacked,
                         RequestsBacked, Init

(* A cached verdict and a request stay backed through every step.            *)
LEMMA RecentStep == RecentInv /\ [Next]_vars => RecentInv'
<1> SUFFICES ASSUME RecentInv, [Next]_vars PROVE EntriesBacked' /\ RequestsBacked'
  BY CacheStep, TimedStep DEF RecentInv, CacheInv
<1>0. /\ TypeOK /\ TasksOK /\ CacheBounded /\ EntriesBacked /\ RequestsBacked
      /\ ExchangesTimed /\ now \in Nat /\ Exchange \in Nat /\ cache \in Seq(Entry)
      /\ \A e \in Elements(cache) : e \in Entry
  BY ExchangeType DEF RecentInv, CacheInv, TypeOK, Elements
<1>1. ASSUME NEW e \in Elements(cache)
      PROVE  /\ Birth(e) \in Int /\ Birth(e) <= now
             /\ e.key \in Key /\ e.verdict \in Verdict /\ e.exp \in Nat
             /\ Ttl(e.verdict) \in Nat
  <2>1. e.key \in Key /\ e.verdict \in Verdict /\ e.exp \in Nat
    BY <1>0, <1>1 DEF Entry
  <2>2. Ttl(e.verdict) \in Nat /\ e.exp <= now + Ttl(e.verdict)
    BY <1>0, <1>1, TtlType DEF EntriesBacked
  <2> QED
    BY <1>0, <2>1, <2>2 DEF Birth
<1>2. ASSUME NEW s \in Server, NEW k \in Key, Decide(s, k)
      PROVE  EntriesBacked' /\ RequestsBacked'
  <2>1. /\ cache' = cache /\ now' = now /\ UNCHANGED tasks /\ url' = url /\ left' = left
    BY <1>2 DEF Decide
  <2>2. ASSUME NEW e \in Elements(cache), NEW s2 \in Server,
               Backs(s2, e.key, e.verdict, Birth(e))
        PROVE  Backs(s2, e.key, e.verdict, Birth(e))'
    <3>1. Birth(e) \in Int /\ Birth(e) <= now /\ e.verdict \in Verdict /\ e.key \in Key
      BY <1>1
    <3> QED
      BY <1>0, <1>2, <2>2, <3>1, BacksDecide
  <2>3. EntriesBacked'
    BY <1>0, <2>1, <2>2 DEF EntriesBacked, Elements, Birth, Ttl
  <2>4. ASSUME NEW t \in Request, pc[t] = "answered"
        PROVE  Backs(server[t], key[t], reply[t], started[t])'
    <3>1. /\ server[t] \in Server /\ key[t] \in Key /\ reply[t] \in Verdict
          /\ started[t] \in Int /\ started[t] <= now
          /\ Backs(server[t], key[t], reply[t], started[t])
      BY <1>0, <2>4 DEF TasksOK, TypeOK, RequestsBacked
    <3>2. /\ server'[t] = server[t] /\ key'[t] = key[t] /\ reply'[t] = reply[t]
          /\ started'[t] = started[t]
      BY <2>1 DEF tasks, exchange
    <3> DEFINE s2 == server[t]
               k2 == key[t]
               v == reply[t]
               b == started[t]
    <3>3. /\ decision'[s2][k2] = v \/ b <= until'[s2][k2][v]
          /\ url' = s2 \/ b <= left'[s2]
      <4> HIDE DEF s2, k2, v, b
      <4> SUFFICES ASSUME NEW x \in Server, NEW y \in Key, NEW w \in Verdict,
                          NEW c \in Int, c <= now, Backs(x, y, w, c)
                   PROVE  /\ decision'[x][y] = w \/ c <= until'[x][y][w]
                          /\ url' = x \/ c <= left'[x]
        BY <3>1 DEF s2, k2, v, b
      <4>1. Backs(x, y, w, c)'
        BY <1>0, <1>2, BacksDecide
      <4> QED
        BY <4>1 DEF Backs
    <3> QED
      BY <3>2, <3>3 DEF Backs
  <2>5. RequestsBacked'
    BY <1>0, <2>1, <2>4 DEF RequestsBacked, tasks, exchange
  <2> QED
    BY <2>3, <2>5
<1>3. ASSUME NEW u \in Server \cup {None}, Reconfigure(u)
      PROVE  EntriesBacked' /\ RequestsBacked'
  <2>1. /\ cache' = cache /\ now' = now /\ UNCHANGED tasks
        /\ decision' = decision /\ until' = until
    BY <1>3 DEF Reconfigure
  <2>2. \A s \in Server, b \in Int :
           b <= now /\ (url = s \/ b <= left[s]) => (url' = s \/ b <= left'[s])
    BY <1>0, <1>3, BacksReconfigure
  <2>3. ASSUME NEW e \in Elements(cache), NEW s \in Server,
               Backs(s, e.key, e.verdict, Birth(e))
        PROVE  Backs(s, e.key, e.verdict, Birth(e))'
    <3>1. Birth(e) \in Int /\ Birth(e) <= now
      BY <1>1
    <3> QED
      BY <2>1, <2>2, <2>3, <3>1 DEF Backs, Birth, Ttl
  <2>4. EntriesBacked'
    BY <1>0, <2>1, <2>3 DEF EntriesBacked, Elements, Birth, Ttl
  <2>5. ASSUME NEW t \in Request, pc[t] \in {"asking", "answered"}
        PROVE  /\ url' = server[t] \/ started[t] <= left'[server[t]]
               /\ started[t] <= now
    BY <1>0, <2>2, <2>5 DEF RequestsBacked, TasksOK, TypeOK
  <2>6. RequestsBacked'
    BY <1>0, <2>1, <2>5 DEF RequestsBacked, Backs, tasks, exchange
  <2> QED
    BY <2>4, <2>6
<1>4. ASSUME Tick PROVE EntriesBacked' /\ RequestsBacked'
  <2>1. UNCHANGED <<cache, truth, tasks>> /\ now' = now + 1
    BY <1>4 DEF Tick
  <2>2. ASSUME NEW e \in Elements(cache) PROVE e.exp <= now' + Ttl(e.verdict)
    BY <1>0, <1>1, <2>1 DEF EntriesBacked
  <2>3. EntriesBacked'
    BY <1>0, <2>1, <2>2 DEF EntriesBacked, Elements, Backs, Birth, Ttl, truth
  <2>4. ASSUME NEW t \in Request, pc[t] \in {"asking", "answered"}
        PROVE  started[t] <= now'
    <3>1. started[t] \in Nat /\ started[t] <= now
      BY <1>0, <2>4 DEF RequestsBacked, TypeOK
    <3> QED
      BY <1>0, <2>1, <3>1
  <2>5. RequestsBacked'
    BY <1>0, <2>1, <2>4 DEF RequestsBacked, Backs, truth, tasks, exchange
  <2> QED
    BY <2>3, <2>5
<1>5. ASSUME NEW t \in Request, NEW k \in Key, Ask(t, k)
      PROVE  EntriesBacked' /\ RequestsBacked'
  <2>1. Elements(cache') \subseteq Elements(cache) /\ UNCHANGED <<now, truth>>
    BY <1>0, <1>5, LookedShrinks DEF Ask
  <2>2. EntriesBacked'
    BY <2>1, EntriesStay
  <2>3. ASSUME NEW r \in Request, r # t
        PROVE  /\ pc'[r] = pc[r] /\ key'[r] = key[r] /\ server'[r] = server[r]
               /\ started'[r] = started[r] /\ reply'[r] = reply[r]
    BY <1>0, <1>5, <2>3 DEF Ask, Reply, TypeOK, exchange
  <2>4. pc'[t] = "replied" \/ /\ pc'[t] = "asking" /\ url = server'[t]
                              /\ started'[t] = now
    BY <1>0, <1>5 DEF Ask, Reply, TypeOK
  <2>5. RequestsBacked'
    BY <1>0, <2>1, <2>3, <2>4 DEF RequestsBacked, Backs, truth
  <2> QED
    BY <2>2, <2>5
<1>6. ASSUME NEW t \in Request, Answer(t) PROVE EntriesBacked' /\ RequestsBacked'
  <2>1. /\ UNCHANGED <<cache, now, truth, key, server, exchange>> /\ pc[t] = "asking"
        /\ pc' = [pc EXCEPT ![t] = "answered"]
        /\ reply' = [reply EXCEPT ![t] = decision[server[t]][key[t]]]
    BY <1>6 DEF Answer
  <2>2. EntriesBacked'
    BY <2>1, EntriesStay DEF Elements
  <2>3. ASSUME NEW r \in Request, r # t PROVE pc'[r] = pc[r] /\ reply'[r] = reply[r]
    BY <1>0, <2>1, <2>3 DEF TypeOK
  <2>4. pc'[t] = "answered" /\ reply'[t] = decision[server[t]][key[t]]
    BY <1>0, <2>1 DEF TypeOK
  <2>5. RequestsBacked'
    BY <1>0, <2>1, <2>3, <2>4 DEF RequestsBacked, Backs, truth, exchange
  <2> QED
    BY <2>2, <2>5
<1>7. ASSUME NEW t \in Request, Fails(t) \/ Sent(t)
      PROVE  EntriesBacked' /\ RequestsBacked'
  <2>1. UNCHANGED <<cache, now, truth>>
    BY <1>7 DEF Fails, Sent
  <2>2. EntriesBacked'
    BY <2>1, EntriesStay DEF Elements
  <2>3. ASSUME NEW r \in Request, pc'[r] \in {"asking", "answered"}
        PROVE  /\ pc'[r] = pc[r] /\ key'[r] = key[r] /\ server'[r] = server[r]
               /\ started'[r] = started[r] /\ reply'[r] = reply[r]
    BY <1>0, <1>7, <2>3 DEF Fails, Sent, Reply, TypeOK, exchange
  <2>4. RequestsBacked'
    BY <2>1, <2>3, RequestsStay
  <2> QED
    BY <2>2, <2>4
<1>8. ASSUME NEW t \in Request, Put(t) PROVE EntriesBacked' /\ RequestsBacked'
  <2> DEFINE e == [key |-> key[t], verdict |-> reply[t], exp |-> now + Ttl(reply[t])]
             m == MakeRoom(key[t])
  <2>1. /\ e \in Entry /\ reply[t] \in Verdict /\ key[t] \in Key /\ server[t] \in Server
        /\ Ttl(reply[t]) \in Nat
    BY <1>0, <1>8, PutEntry DEF Put
  <2>2. /\ m \in Seq(Entry) /\ Elements(m) \subseteq Elements(cache)
    BY <1>0, RoomMade
  <2>3. /\ cache' = m \/ cache' = Store(m, e)
        /\ UNCHANGED <<now, truth>> /\ pc[t] = "answered"
    BY <1>8 DEF Put
  <2>4. Birth(e) = now - Exchange /\ e.exp = now + Ttl(e.verdict)
        /\ e.key = key[t] /\ e.verdict = reply[t]
    BY <1>0, <2>1 DEF Birth
  <2> HIDE DEF m, e
  <2>5. Elements(Store(m, e)) \subseteq Elements(m) \cup {e}
    BY <2>1, <2>2, CacheStored
  <2>6. Elements(cache') \subseteq Elements(cache) \cup {e}
    BY <2>2, <2>3, <2>5
  <2>7. Backs(server[t], e.key, e.verdict, Birth(e))
    <3>1. /\ started[t] \in Nat /\ now <= started[t] + Exchange
          /\ Backs(server[t], key[t], reply[t], started[t])
      BY <1>0, <2>3, InTime DEF RequestsBacked, TypeOK, Exchanging
    <3>2. Birth(e) <= started[t] /\ Birth(e) \in Int
      BY <1>0, <2>4, <3>1
    <3>3. /\ until[server[t]][key[t]][reply[t]] \in Int /\ left[server[t]] \in Int
      BY <1>0, <2>1 DEF TypeOK
    <3> QED
      BY <2>4, <3>1, <3>2, <3>3 DEF Backs
  <2>8. EntriesBacked'
    BY <1>0, <2>1, <2>3, <2>4, <2>6, <2>7 DEF EntriesBacked, Backs, Birth, Ttl, truth
  <2>9. ASSUME NEW r \in Request, pc'[r] \in {"asking", "answered"}
        PROVE  /\ pc'[r] = pc[r] /\ key'[r] = key[r] /\ server'[r] = server[r]
               /\ started'[r] = started[r] /\ reply'[r] = reply[r]
    BY <1>0, <1>8, <2>9 DEF Put, Reply, TypeOK, exchange
  <2>10. RequestsBacked'
    BY <2>3, <2>9, RequestsStay
  <2> QED
    BY <2>8, <2>10
<1>9. ASSUME NEW t \in Request, Progress(t) PROVE EntriesBacked' /\ RequestsBacked'
  <2>1. UNCHANGED <<cache, now, truth, pc, key, server, started, reply>>
    BY <1>9 DEF Progress
  <2> QED
    BY <2>1, EntriesStay, RequestsStay DEF Elements
<1>10. ASSUME UNCHANGED vars PROVE EntriesBacked' /\ RequestsBacked'
  BY <1>0, <1>10 DEF vars, truth, tasks, exchange, EntriesBacked, RequestsBacked, Backs,
                     Birth, Ttl, Elements
<1> QED
  BY <1>2, <1>3, <1>4, <1>5, <1>6, <1>7, <1>8, <1>9, <1>10 DEF Next

(* A response is told from a live entry or from an answer just received, and *)
(* both are young enough.                                                    *)
LEMMA RecentAnswers ==
    ASSUME RecentInv, [Next]_vars, NEW t \in Request, pc[t] # "replied",
           pc'[t] = "replied", reply'[t] \in Verdict
    PROVE  \E s \in Server : Vouches(s, key'[t], reply'[t])
<1>0. /\ TypeOK /\ TasksOK /\ EntriesBacked /\ RequestsBacked /\ ExchangesTimed
      /\ now \in Nat /\ Exchange \in Nat /\ Verdict \cap Failure = {}
  BY ExchangeType DEF RecentInv, CacheInv, TypeOK, Verdict, Failure
<1>1. \/ \E k \in Key : Ask(t, k)
      \/ Fails(t) \/ Put(t)
  <2>1. pc'[t] # pc[t]
    OBVIOUS
  <2>2. ~UNCHANGED vars
    BY <2>1 DEF vars, tasks
  <2>3. \A r \in Request, k \in Key :
           Ask(r, k) \/ Answer(r) \/ Fails(r) \/ Put(r) \/ Sent(r) => r = t
    BY <1>0, <2>1 DEF TypeOK, Ask, Answer, Fails, Put, Sent, Reply
  <2>4. \A s \in Server, k \in Key : ~Decide(s, k)
    BY <2>1 DEF Decide, tasks
  <2>5. \A u \in Server \cup {None} : ~Reconfigure(u)
    BY <2>1 DEF Reconfigure, tasks
  <2>6. ~Tick
    BY <2>1 DEF Tick, tasks
  <2>7. \A r \in Request : ~Answer(r) /\ ~Sent(r) /\ ~Progress(r)
    BY <1>0, <2>1 DEF Answer, Sent, Progress, TypeOK
  <2> QED
    BY <1>0, <2>2, <2>3, <2>4, <2>5, <2>6, <2>7 DEF Next, Fails, Put, Reply, TypeOK
<1>2. CASE \E k \in Key : Ask(t, k)
  <2>1. PICK k \in Key : Ask(t, k)
    BY <1>2
  <2>2. /\ key'[t] = k /\ Lookup(k) # None /\ reply'[t] = Lookup(k)
    BY <1>0, <2>1 DEF Ask, Reply, TypeOK, Failure
  <2>3. PICK e \in Elements(cache) : /\ e \in Entry /\ e.key = k /\ now < e.exp
                                     /\ e.verdict = Lookup(k) /\ Lookup(k) \in Verdict
    BY <1>0, <2>2, LookupLive
  <2>4. PICK s \in Server : Backs(s, e.key, e.verdict, Birth(e))
    BY <1>0 DEF EntriesBacked
  <2>5. /\ until[s][k][e.verdict] \in Int /\ left[s] \in Int /\ e.exp \in Nat
        /\ Ttl(e.verdict) \in Nat
    BY <1>0, <2>3, TtlType DEF TypeOK, Entry
  <2>6. \A b \in Int : Birth(e) <= b => now < b + Ttl(e.verdict) + Exchange
    BY <1>0, <2>3, <2>5 DEF Birth
  <2>7. Vouches(s, k, e.verdict)
    BY <2>3, <2>4, <2>5, <2>6 DEF Backs, Vouches
  <2> QED
    BY <2>2, <2>3, <2>7
<1>3. CASE Put(t)
  <2>1. /\ pc[t] = "answered" /\ key'[t] = key[t] /\ reply'[t] = reply[t]
    BY <1>0, <1>3 DEF Put, Reply, TypeOK, Failure
  <2>2. /\ server[t] \in Server /\ key[t] \in Key /\ reply[t] \in Verdict
        /\ started[t] \in Nat /\ now <= started[t] + Exchange
        /\ Backs(server[t], key[t], reply[t], started[t])
    BY <1>0, <2>1, InTime DEF TasksOK, RequestsBacked, TypeOK, Exchanging
  <2>3. /\ until[server[t]][key[t]][reply[t]] \in Int /\ left[server[t]] \in Int
    BY <1>0, <2>2 DEF TypeOK
  <2>4. \A b \in Int : started[t] <= b => now < b + Ttl(reply[t]) + Exchange
    <3>1. Ttl(reply[t]) \in Nat \ {0}
      BY TtlType
    <3> QED
      BY <1>0, <2>2, <3>1
  <2>5. Vouches(server[t], key[t], reply[t])
    BY <2>2, <2>3, <2>4 DEF Backs, Vouches
  <2> QED
    BY <2>1, <2>2, <2>5
<1>4. CASE Fails(t)
  BY <1>0, <1>4 DEF Fails, Reply, TypeOK, Failure, Verdict
<1> QED
  BY <1>1, <1>2, <1>3, <1>4

(* Bounded staleness of the verdicts callers are told, in every behaviour.   *)
THEOREM BoundedStaleness == Spec => AnswersAreRecent
<1>1. RecentInv /\ [Next]_vars =>
        [\A t \in Request :
          pc[t] # "replied" /\ pc'[t] = "replied" /\ reply'[t] \in Verdict =>
              \E s \in Server : Vouches(s, key'[t], reply'[t])]_vars
  BY RecentAnswers
<1> QED
  BY <1>1, RecentInit, RecentStep, PTL DEF Spec, AnswersAreRecent
=============================================================================
