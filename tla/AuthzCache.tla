----------------------------- MODULE AuthzCache -----------------------------
(***************************************************************************)
(* The permission checks of the local node server: AuthzCache              *)
(* (auth/cache.py) and the handler has_permission (apps/admin.py) that     *)
(* reads it, asks the authz server on a miss, and writes the answer back.  *)
(* The handler suspends only while it waits for the server; the sections   *)
(* under the lock of the cache contain no await.                           *)
(*                                                                         *)
(* The cache is the Python dict as a sequence in insertion order.          *)
(***************************************************************************)
EXTENDS Lists, Integers

CONSTANTS Key,        \* (jti, sub, resource, action)
          Server,     \* URLs of authz servers
          Request,    \* tasks that run has_permission
          None,
          MaxSize,    \* MAX_SIZE
          EvictBatch, \* EVICT_BATCH
          AllowTtl,   \* ALLOW_TTL
          DenyTtl,    \* DENY_TTL
          Timeout,    \* of the HTTP client, for each phase of an exchange
          Phases,     \* the connects, writes and reads of an exchange
          MaxNow,     \* bound: the last instant
          MaxChanges  \* bound: changes of a decision or of the configured URL

ASSUME CacheConstants ==
    /\ MaxSize \in Nat \ {0} /\ EvictBatch \in Nat \ {0}
    /\ AllowTtl \in Nat \ {0} /\ DenyTtl \in Nat \ {0}
    /\ Timeout \in Nat /\ Phases \in Nat \ {0}
    /\ MaxNow \in Nat /\ MaxChanges \in Nat
    /\ None \notin Server \cup Key

Verdict == {"allow", "deny"}

\* 503, 503, 500 for an answer or a URL that makes no sense, and 500 when the
\* eviction raises
Failure == {"unconfigured", "unavailable", "malformed", "error"}

\* the longest exchange with a server
Exchange == Phases * Timeout

VARIABLES
    cache,     \* _cache: entries [key, verdict, exp], oldest first
    now,       \* time.monotonic()
    url,       \* the configured authz server, or None
    decision,  \* decision[s][k]: what server s says of k now
    until,     \* history: until[s][k][v]: when s last said v of k
    left,      \* history: left[s]: when s was last configured
    changes,   \* counter for the bound
    pc, key, server, reply,    \* the requests
    started,   \* started[t]: when t sent its request to the server
    phase,     \* phase[t]: the phases its exchange has begun
    since      \* since[t]: when the last of them began

truth == <<url, decision, until, left, changes>>
exchange == <<started, phase, since>>
tasks == <<pc, key, server, exchange, reply>>
vars == <<cache, now, truth, tasks>>

Entry == [key: Key, verdict: Verdict, exp: Nat]

Ttl(v) == IF v = "allow" THEN AllowTtl ELSE DenyTtl

\* before any instant that matters
Never == 0 - (AllowTtl + DenyTtl + Exchange + 1)

TypeOK ==
    /\ cache \in Seq(Entry)
    /\ now \in Nat
    /\ url \in Server \cup {None}
    /\ decision \in [Server -> [Key -> Verdict]]
    /\ until \in [Server -> [Key -> [Verdict -> Int]]]
    /\ left \in [Server -> Int]
    /\ pc \in [Request -> {"idle", "asking", "answered", "replied"}]
    /\ changes \in Nat
    /\ key \in [Request -> Key \cup {None}]
    /\ server \in [Request -> Server \cup {None}]
    /\ started \in [Request -> Nat] /\ since \in [Request -> Nat]
    /\ phase \in [Request -> 0..Phases]
    /\ reply \in [Request -> Verdict \cup Failure \cup {"none"}]

Init ==
    /\ cache = <<>> /\ now = 0
    /\ url \in Server \cup {None}
    /\ decision \in [Server -> [Key -> Verdict]]
    /\ until = [s \in Server |-> [k \in Key |-> [v \in Verdict |-> Never]]]
    /\ left = [s \in Server |-> Never]
    /\ pc = [t \in Request |-> "idle"]
    /\ changes = 0
    /\ key = [t \in Request |-> None]
    /\ server = [t \in Request |-> None]
    /\ started = [t \in Request |-> 0] /\ since = [t \in Request |-> 0]
    /\ phase = [t \in Request |-> 0]
    /\ reply = [t \in Request |-> "none"]
-----------------------------------------------------------------------------
(* The authz servers and the configuration.                                 *)

\* Server s changes its mind about k.
Decide(s, k) ==
    /\ changes < MaxChanges /\ changes' = changes + 1
    /\ until' = [until EXCEPT ![s][k][decision[s][k]] = now]
    /\ decision' = [decision EXCEPT ![s][k] = IF @ = "allow" THEN "deny" ELSE "allow"]
    /\ UNCHANGED <<cache, now, url, left, tasks>>

\* A reload changes the authz URL; the cache is not told.
Reconfigure(u) ==
    /\ changes < MaxChanges /\ changes' = changes + 1
    /\ u # url
    /\ url' = u
    /\ left' = [s \in Server |-> IF s = url THEN now ELSE left[s]]
    /\ UNCHANGED <<cache, now, decision, until, tasks>>

\* The exchange of t is under way.
Exchanging(t) == pc[t] \in {"asking", "answered"}

\* Time passes, but no phase of an exchange outlives the timeout.
Tick ==
    /\ now < MaxNow
    /\ \A t \in Request : Exchanging(t) => now < since[t] + Timeout
    /\ now' = now + 1
    /\ UNCHANGED <<cache, truth, tasks>>

\* The exchange of t is connected, or has written or read something: what
\* follows has the whole timeout again.
Progress(t) ==
    /\ Exchanging(t) /\ phase[t] < Phases
    /\ phase' = [phase EXCEPT ![t] = @ + 1]
    /\ since' = [since EXCEPT ![t] = now]
    /\ UNCHANGED <<cache, now, truth, pc, key, server, started, reply>>
-----------------------------------------------------------------------------
(* The cache.                                                               *)

At(k) == {i \in DOMAIN cache : cache[i].key = k}
\* Mutant: an entry is still live at its expiry.
LiveTooLong(k) == {i \in At(k) : now <= cache[i].exp}

Live(k) == {i \in At(k) : now < cache[i].exp}

\* get: a live entry is returned; an expired one is dropped
Lookup(k) == IF Live(k) = {} THEN None ELSE cache[CHOOSE i \in Live(k) : TRUE].verdict

Looked(k) == Keep(cache, {i \in DOMAIN cache : cache[i].key = k => now < cache[i].exp})

\* put: the first EvictBatch expired entries
Expired == {i \in DOMAIN cache : cache[i].exp <= now}
Reclaimed == {i \in Expired : Cardinality({j \in Expired : j < i}) < EvictBatch}

\* Mutant: the limit is noticed one entry late.
FullTooLate == Len(cache) > MaxSize

Full == Len(cache) >= MaxSize

\* put, when a full cache has no expired entry: the loop pops from the dict it
\* iterates over, so it raises RuntimeError at its second round.
EvictionRaises(k) ==
    /\ Full /\ At(k) = {} /\ Reclaimed = {}
    /\ EvictBatch > 1 /\ Len(cache) > 1

MakeRoom(k) ==
    IF Full /\ At(k) = {}
    THEN IF Reclaimed # {} THEN Keep(cache, DOMAIN cache \ Reclaimed)
         ELSE Tail(cache)
    ELSE cache

\* _cache[key] = ...: an existing entry keeps its place
Store(c, e) ==
    IF \E i \in DOMAIN c : c[i].key = e.key
    THEN [i \in DOMAIN c |-> IF c[i].key = e.key THEN e ELSE c[i]]
    ELSE Append(c, e)
-----------------------------------------------------------------------------
(* has_permission.                                                          *)

Reply(t, what) == /\ pc' = [pc EXCEPT ![t] = "replied"]
                  /\ reply' = [reply EXCEPT ![t] = what]

\* The request arrives: the cache answers, no server is configured, or the
\* server is asked.
Ask(t, k) ==
    /\ pc[t] = "idle"
    /\ key' = [key EXCEPT ![t] = k]
    /\ cache' = Looked(k)
    /\ \/ /\ Lookup(k) # None
          /\ Reply(t, Lookup(k))
          /\ UNCHANGED <<server, exchange>>
       \/ /\ Lookup(k) = None /\ url = None
          /\ Reply(t, "unconfigured")
          /\ UNCHANGED <<server, exchange>>
       \/ /\ Lookup(k) = None /\ url # None
          /\ server' = [server EXCEPT ![t] = url]
          /\ started' = [started EXCEPT ![t] = now]
          /\ since' = [since EXCEPT ![t] = now]
          /\ phase' = [phase EXCEPT ![t] = 1]
          /\ pc' = [pc EXCEPT ![t] = "asking"]
          /\ UNCHANGED reply
    /\ UNCHANGED <<now, truth>>

\* The server the request was sent to answers.
Answer(t) ==
    /\ pc[t] = "asking"
    /\ pc' = [pc EXCEPT ![t] = "answered"]
    /\ reply' = [reply EXCEPT ![t] = decision[server[t]][key[t]]]
    /\ UNCHANGED <<cache, now, truth, key, server, exchange>>

\* Mutant: a failure is cached like a verdict.
FailsCached(t) ==
    /\ pc[t] = "asking"
    /\ Reply(t, "unavailable")
    /\ cache' = Store(cache, [key |-> key[t], verdict |-> "unavailable",
                              exp |-> now + DenyTtl])
    /\ UNCHANGED <<now, truth, key, server, exchange>>

\* It does not, or not in time, or with an error; or its answer is JSON but not
\* an object, or its URL is none: then the handler raises.
Fails(t) ==
    /\ pc[t] = "asking"
    /\ \E what \in {"unavailable", "malformed"} : Reply(t, what)
    /\ UNCHANGED <<cache, now, truth, key, server, exchange>>

\* The handler resumes with the answer and puts it into the cache.
Put(t) ==
    /\ pc[t] = "answered"
    /\ \/ /\ EvictionRaises(key[t])
          /\ cache' = MakeRoom(key[t])
          /\ Reply(t, "error")
       \/ /\ ~EvictionRaises(key[t])
          /\ cache' = Store(MakeRoom(key[t]),
                            [key |-> key[t], verdict |-> reply[t],
                             exp |-> now + Ttl(reply[t])])
          /\ Reply(t, reply[t])
    /\ UNCHANGED <<now, truth, key, server, exchange>>

\* The response is sent; the task serves another request later.
Sent(t) ==
    /\ pc[t] = "replied"
    /\ pc' = [pc EXCEPT ![t] = "idle"]
    /\ reply' = [reply EXCEPT ![t] = "none"]
    /\ key' = [key EXCEPT ![t] = None]
    /\ server' = [server EXCEPT ![t] = None]
    /\ started' = [started EXCEPT ![t] = 0]
    /\ since' = [since EXCEPT ![t] = 0]
    /\ phase' = [phase EXCEPT ![t] = 0]
    /\ UNCHANGED <<cache, now, truth>>
-----------------------------------------------------------------------------
Next ==
    \/ \E s \in Server, k \in Key : Decide(s, k)
    \/ \E u \in Server \cup {None} : Reconfigure(u)
    \/ Tick
    \/ \E t \in Request : \/ \E k \in Key : Ask(t, k)
                          \/ Progress(t) \/ Answer(t) \/ Fails(t) \/ Put(t)
                          \/ Sent(t)

Spec == Init /\ [][Next]_vars
-----------------------------------------------------------------------------
\* s said v of k less than the lifetime of v and one exchange ago, and was the
\* configured server less than that ago.
Vouches(s, k, v) ==
    /\ decision[s][k] = v \/ now < until[s][k][v] + Ttl(v) + Exchange
    /\ url = s \/ now < left[s] + Ttl(v) + Exchange

(* Bounded staleness: a caller is told "allowed" or "denied" only if a       *)
(* server said so, and was the configured one, at most the lifetime of that  *)
(* verdict and the longest exchange with a server ago, however requests      *)
(* interleave, answers overtake each other and entries are replaced.  The    *)
(* exchange lasts a timeout for each of its phases, not one in all.          *)
AnswersAreRecent ==
    [][\A t \in Request :
          pc[t] # "replied" /\ pc'[t] = "replied" /\ reply'[t] \in Verdict =>
              \E s \in Server : Vouches(s, key'[t], reply'[t])]_vars

(* The cache stays within MAX_SIZE and holds one entry for a key, although   *)
(* several handlers put the same key after each missed it.                   *)
CacheBounded ==
    /\ Len(cache) <= MaxSize
    /\ \A i, j \in DOMAIN cache : cache[i].key = cache[j].key => i = j

(* cache.py:51, "If it still full, evict oldest batch": a check the server   *)
(* answered is answered to the caller.  It is not when the eviction raises.  *)
AnswersAreDelivered == \A t \in Request : reply[t] # "error"
=============================================================================
