--------------------------------- MODULE Jwks ---------------------------------
(***************************************************************************)
(* JWKSManager (auth/jwks.py) under the requests that validate_request     *)
(* (auth/validator.py) runs and the background refresh.                    *)
(*                                                                         *)
(* The tasks share one event loop: "active" is the task that runs, and it  *)
(* runs on until it waits for _fetch_lock or for the JWKS endpoint.  A key *)
(* is a kid and the version of its key pair; 0 stands for no key.          *)
(***************************************************************************)
EXTENDS Integers, Sequences

CONSTANTS Kid,
          MaxVersion,    \* versions of a key pair are 1..MaxVersion
          Url,           \* JWKS endpoints
          Ttls,          \* values of jwks.cache_ttl_seconds
          Request,       \* requests with a token
          None,
          Attempts,      \* tries of one refresh (4)
          MinInterval,   \* the 30 s of the background refresh
          BootTime,      \* time.monotonic() at start
          MaxNow,        \* bound: the last instant
          MaxRotations,  \* bound: changes of what the endpoints serve
          MaxReloads     \* bound: changes of the configuration

Background == "background"
Task == Request \cup {Background}
Version == 0..MaxVersion

ASSUME JwksConstants ==
    /\ Background \notin Request /\ None \notin Task \cup Url \cup Kid
    /\ MaxVersion \in Nat /\ Ttls \subseteq Nat /\ Attempts \in Nat \ {0}
    /\ BootTime \in Nat /\ MaxNow \in Nat /\ MinInterval \in Nat
    /\ MaxRotations \in Nat /\ MaxReloads \in Nat

VARIABLES
    served, rotations,       \* served[u][k]: what endpoint u serves as key k
    now,                     \* time.monotonic()
    url, ttl, reloads,       \* _url, _ttl
    keys, fetchedAt, generation,   \* _keys, _fetched_at, _generation
    active,                  \* the task that runs, or None
    lockq,                   \* _fetch_lock: its holder, then its waiters
    pc,
    kid, signed,             \* the token: its kid, the version it was signed with
    second,                  \* get_signing_key has invalidated the keys itself
    retried,                 \* validate_request is in its second attempt
    gen, from, attempt, body,   \* locals of _refresh
    reply,
    wake,                    \* when the background task runs again
    dirty,                   \* history: invalidated and not installed since
    steady,                  \* history: the endpoint served the token's key
                             \* ever since the request began
    failed,                  \* history: a fetch of the request failed
    overtaken                \* history: a reload came during its last fetch

environment == <<served, rotations>>
settings    == <<url, ttl, reloads>>
manager     == <<keys, fetchedAt, generation, dirty>>
token       == <<kid, signed>>
progress    == <<second, retried>>
history     == <<steady, failed, overtaken>>
fetch       == <<gen, from, attempt, body>>
vars == <<environment, now, settings, manager, active, lockq, pc, token,
          progress, fetch, reply, wake, history>>

NoKeys == [k \in Kid |-> 0]

TypeOK ==
    /\ served \in [Url -> [Kid -> Version]] /\ rotations \in Nat
    /\ now \in Nat /\ fetchedAt \in 0..now
    /\ url \in Url /\ ttl \in Ttls /\ reloads \in Nat
    /\ keys \in [Kid -> Version] /\ generation \in Nat /\ dirty \in BOOLEAN
    /\ active \in Task \cup {None}
    /\ lockq \in Seq(Task)
    /\ pc \in [Task -> {"idle", "lookup", "refresh", "queued", "entered",
                        "fetching", "answered", "after", "decode", "replied"}]
    /\ kid \in [Request -> Kid \cup {None}] /\ signed \in [Request -> Version]
    /\ second \in [Task -> BOOLEAN] /\ retried \in [Task -> BOOLEAN]
    /\ gen \in [Task -> Nat] /\ from \in [Task -> Url \cup {None}]
    /\ attempt \in [Task -> 0..Attempts] /\ body \in [Task -> [Kid -> Version]]
    /\ reply \in [Request -> {"none", "ok", "unknownKid", "unavailable",
                              "invalidSignature"}]
    /\ wake \in Nat
    /\ steady \in [Request -> BOOLEAN] /\ failed \in [Request -> BOOLEAN]
    /\ overtaken \in [Task -> BOOLEAN]

Init ==
    /\ served \in [Url -> [Kid -> Version]] /\ rotations = 0
    /\ now = BootTime
    /\ url \in Url /\ ttl \in Ttls /\ reloads = 0
    /\ keys = NoKeys /\ fetchedAt = 0 /\ generation = 0 /\ dirty = FALSE
    /\ active = None /\ lockq = <<>>
    /\ pc = [t \in Task |-> "idle"]
    /\ kid = [t \in Request |-> None] /\ signed = [t \in Request |-> 0]
    /\ second = [t \in Task |-> FALSE] /\ retried = [t \in Task |-> FALSE]
    /\ gen = [t \in Task |-> 0] /\ from = [t \in Task |-> None]
    /\ attempt = [t \in Task |-> 0] /\ body = [t \in Task |-> NoKeys]
    /\ reply = [t \in Request |-> "none"]
    /\ wake = BootTime
    /\ steady = [t \in Request |-> FALSE] /\ failed = [t \in Request |-> FALSE]
    /\ overtaken = [t \in Task |-> FALSE]
-----------------------------------------------------------------------------
(* The endpoints, the clock and the configuration.                          *)

Pending(t) == pc[t] \notin {"idle", "replied"}
Fetches(t) == pc[t] \in {"fetching", "answered"}

\* what the token of t needs is served by the configured endpoint
Served(t, s, u) == s[u][kid[t]] = signed[t]

\* An endpoint publishes, replaces or withdraws a key.
Rotate(u, k, v) ==
    /\ active = None
    /\ rotations < MaxRotations /\ served[u][k] # v
    /\ rotations' = rotations + 1
    /\ served' = [served EXCEPT ![u][k] = v]
    /\ steady' = [t \in Request |-> steady[t] /\ (Pending(t) => Served(t, served', url))]
    /\ UNCHANGED <<now, settings, manager, active, lockq, pc, token, progress,
                   fetch, reply, wake, failed, overtaken>>

Tick ==
    /\ active = None
    /\ now < MaxNow
    /\ now' = now + 1
    /\ UNCHANGED <<environment, settings, manager, active, lockq, pc, token,
                   progress, fetch, reply, wake, history>>

\* update_config, as a subscriber of the ConfigManager
UpdateConfig(u, n) ==
    /\ active = None
    /\ reloads < MaxReloads
    /\ u # url \/ n # ttl
    /\ reloads' = reloads + 1
    /\ url' = u /\ ttl' = n
    /\ fetchedAt' = 0 /\ generation' = generation + 1 /\ dirty' = TRUE
    /\ steady' = [t \in Request |-> steady[t] /\ (Pending(t) => Served(t, served, u))]
    /\ overtaken' = [t \in Task |-> overtaken[t] \/ Fetches(t)]
    /\ UNCHANGED <<environment, now, keys, active, lockq, pc, token, progress,
                   fetch, reply, wake, failed>>
-----------------------------------------------------------------------------
(* _refresh.                                                                *)

Fresh == now - fetchedAt < ttl

Goto(t, label) == pc' = [pc EXCEPT ![t] = label]

Invalidate == fetchedAt' = 0 /\ generation' = generation + 1 /\ dirty' = TRUE
              /\ UNCHANGED keys

\* t asks for the lock, which it gets at once only when nobody waits for it
AcquireLock(t) ==
    /\ active = t /\ pc[t] = "refresh"
    /\ lockq' = Append(lockq, t)
    /\ IF lockq = <<>> THEN Goto(t, "entered") /\ UNCHANGED active
                       ELSE Goto(t, "queued") /\ active' = None
    /\ UNCHANGED <<environment, now, settings, manager, token, progress, fetch,
                   reply, wake, history>>

\* the lock was handed to t
LockHandedOver(t) ==
    /\ active = None /\ pc[t] = "queued" /\ Head(lockq) = t
    /\ active' = t
    /\ Goto(t, "entered")
    /\ UNCHANGED <<environment, now, settings, manager, lockq, token, progress,
                   fetch, reply, wake, history>>

\* with the lock: another task refreshed the keys in the meantime
AlreadyFresh(t) ==
    /\ active = t /\ pc[t] = "entered"
    /\ Fresh /\ keys # NoKeys
    /\ lockq' = Tail(lockq)
    /\ Goto(t, "after")
    /\ UNCHANGED <<environment, now, settings, manager, active, token, progress,
                   fetch, reply, wake, history>>

StartFetch(t) ==
    /\ active = t /\ pc[t] = "entered"
    /\ ~(Fresh /\ keys # NoKeys)
    /\ gen' = [gen EXCEPT ![t] = generation]
    /\ from' = [from EXCEPT ![t] = url]
    /\ attempt' = [attempt EXCEPT ![t] = 1]
    /\ overtaken' = [overtaken EXCEPT ![t] = FALSE]
    /\ Goto(t, "fetching") /\ active' = None
    /\ UNCHANGED <<environment, now, settings, manager, lockq, token, progress,
                   body, reply, wake, steady, failed>>

\* the endpoint answers
Answer(t) ==
    /\ active = None /\ pc[t] = "fetching"
    /\ body' = [body EXCEPT ![t] = served[from[t]]]
    /\ Goto(t, "answered")
    /\ UNCHANGED <<environment, now, settings, manager, active, lockq, token,
                   progress, gen, from, attempt, reply, wake, history>>

\* What the request of t ends with; the background task sleeps again.
Finish(t, what) ==
    IF t = Background
    THEN /\ Goto(t, "idle")
         /\ wake' = now + IF ttl \div 2 > MinInterval THEN ttl \div 2 ELSE MinInterval
         /\ UNCHANGED reply
    ELSE /\ Goto(t, "replied")
         /\ reply' = [reply EXCEPT ![t] = what]
         /\ UNCHANGED wake

NoFetch(t) == /\ gen' = [gen EXCEPT ![t] = 0] /\ from' = [from EXCEPT ![t] = None]
              /\ attempt' = [attempt EXCEPT ![t] = 0]
              /\ body' = [body EXCEPT ![t] = NoKeys]

\* Mutant: one attempt too many.
AttemptFailsLate(t) ==
    /\ active = None /\ pc[t] = "fetching"
    /\ failed' = [r \in Request |-> failed[r] \/ r = t]
    /\ \/ /\ attempt[t] <= Attempts
          /\ attempt' = [attempt EXCEPT ![t] = @ + 1]
          /\ UNCHANGED <<lockq, pc, reply, wake, gen, from, body>>
       \/ /\ attempt[t] > Attempts
          /\ lockq' = Tail(lockq)
          /\ Finish(t, IF retried[t] THEN "invalidSignature" ELSE "unavailable")
          /\ NoFetch(t)
    /\ UNCHANGED <<environment, now, settings, manager, active, token, progress,
                   steady, overtaken>>

\* Mutant: the lock is not released when all attempts failed.
AttemptFailsLocked(t) ==
    /\ active = None /\ pc[t] = "fetching"
    /\ failed' = [r \in Request |-> failed[r] \/ r = t]
    /\ \/ /\ attempt[t] < Attempts
          /\ attempt' = [attempt EXCEPT ![t] = @ + 1]
          /\ UNCHANGED <<pc, reply, wake, gen, from, body>>
       \/ /\ attempt[t] = Attempts
          /\ Finish(t, IF retried[t] THEN "invalidSignature" ELSE "unavailable")
          /\ NoFetch(t)
    /\ UNCHANGED <<environment, now, settings, manager, active, lockq, token,
                   progress, steady, overtaken>>

\* an attempt fails: after a pause the next one starts, or the last one raises
AttemptFails(t) ==
    /\ active = None /\ pc[t] = "fetching"
    /\ failed' = [r \in Request |-> failed[r] \/ r = t]
    /\ \/ /\ attempt[t] < Attempts
          /\ attempt' = [attempt EXCEPT ![t] = @ + 1]
          /\ UNCHANGED <<lockq, pc, reply, wake, gen, from, body>>
       \/ /\ attempt[t] = Attempts
          /\ lockq' = Tail(lockq)
          /\ Finish(t, IF retried[t] THEN "invalidSignature" ELSE "unavailable")
          /\ NoFetch(t)
    /\ UNCHANGED <<environment, now, settings, manager, active, token, progress,
                   steady, overtaken>>

\* Mutant: the generation is not compared.
InstallAlways(t) ==
    /\ active = None /\ pc[t] = "answered"
    /\ active' = t
    /\ keys' = body[t] /\ fetchedAt' = now /\ dirty' = FALSE
    /\ UNCHANGED generation
    /\ lockq' = Tail(lockq)
    /\ NoFetch(t)
    /\ Goto(t, "after")
    /\ UNCHANGED <<environment, now, settings, token, progress, reply, wake, history>>

\* the task resumes with the answer, which counts only if nothing was
\* invalidated since it was asked for
Install(t) ==
    /\ active = None /\ pc[t] = "answered"
    /\ active' = t
    /\ IF gen[t] = generation
       THEN /\ keys' = body[t] /\ fetchedAt' = now /\ dirty' = FALSE
            /\ UNCHANGED generation
       ELSE UNCHANGED manager
    /\ lockq' = Tail(lockq)
    /\ NoFetch(t)
    /\ Goto(t, "after")
    /\ UNCHANGED <<environment, now, settings, token, progress, reply, wake, history>>
-----------------------------------------------------------------------------
(* get_signing_key and validate_request.                                    *)

\* a request with a token that has a kid; it was signed with version v
Arrive(t, k, v) ==
    /\ active = None /\ pc[t] = "idle"
    /\ active' = t
    /\ kid' = [kid EXCEPT ![t] = k] /\ signed' = [signed EXCEPT ![t] = v]
    /\ steady' = [steady EXCEPT ![t] = (served[url][k] = v)]
    /\ Goto(t, "lookup")
    /\ UNCHANGED <<environment, now, settings, manager, lockq, progress, fetch,
                   reply, wake, failed, overtaken>>

\* Mutant: the age of a known key is not checked.
LookupKeyStale(t) ==
    /\ active = t /\ pc[t] = "lookup"
    /\ Goto(t, IF keys[kid[t]] # 0 THEN "decode" ELSE "refresh")
    /\ UNCHANGED <<environment, now, settings, manager, active, lockq, token,
                   progress, fetch, reply, wake, history>>

\* get_signing_key: the key is known and fresh, or refresh
LookupKey(t) ==
    /\ active = t /\ pc[t] = "lookup"
    /\ Goto(t, IF keys[kid[t]] # 0 /\ Fresh THEN "decode" ELSE "refresh")
    /\ UNCHANGED <<environment, now, settings, manager, active, lockq, token,
                   progress, fetch, reply, wake, history>>

\* get_signing_key after a refresh: invalidate and refresh once more if the
\* kid is still not known
AfterRefresh(t) ==
    /\ active = t /\ pc[t] = "after"
    /\ \/ /\ t = Background
          /\ Finish(t, "none") /\ active' = None
          /\ UNCHANGED <<manager, second>>
       \/ /\ t # Background /\ keys[kid[t]] # 0
          /\ Goto(t, "decode")
          /\ UNCHANGED <<manager, second, active, reply, wake>>
       \/ /\ t # Background /\ keys[kid[t]] = 0 /\ ~second[t]
          /\ second' = [second EXCEPT ![t] = TRUE]
          /\ Invalidate
          /\ Goto(t, "refresh")
          /\ UNCHANGED <<active, reply, wake>>
       \/ /\ t # Background /\ keys[kid[t]] = 0 /\ second[t]
          /\ Finish(t, IF retried[t] THEN "invalidSignature" ELSE "unknownKid")
          /\ active' = None
          /\ UNCHANGED <<manager, second>>
    /\ UNCHANGED <<environment, now, settings, lockq, token, retried, fetch, history>>

\* Mutant: a bad signature is final.
DecodeOnce(t) ==
    /\ active = t /\ pc[t] = "decode"
    /\ Finish(t, IF keys[kid[t]] = signed[t] THEN "ok" ELSE "invalidSignature")
    /\ active' = None
    /\ UNCHANGED <<environment, now, settings, manager, lockq, token, progress,
                   fetch, history>>

\* decode_jwt with the key; on a bad signature invalidate and try once more
Decode(t) ==
    /\ active = t /\ pc[t] = "decode"
    /\ \/ /\ keys[kid[t]] = signed[t]
          /\ Finish(t, "ok") /\ active' = None
          /\ UNCHANGED <<manager, progress>>
       \/ /\ keys[kid[t]] # signed[t] /\ ~retried[t]
          /\ Invalidate
          /\ retried' = [retried EXCEPT ![t] = TRUE]
          /\ second' = [second EXCEPT ![t] = FALSE]
          /\ Goto(t, "lookup")
          /\ UNCHANGED <<active, reply, wake>>
       \/ /\ keys[kid[t]] # signed[t] /\ retried[t]
          /\ Finish(t, "invalidSignature") /\ active' = None
          /\ UNCHANGED <<manager, progress>>
    /\ UNCHANGED <<environment, now, settings, lockq, token, fetch, history>>

\* refresh_keys_in_background: its timer fires
BackgroundWakes ==
    /\ active = None /\ pc[Background] = "idle" /\ now >= wake
    /\ active' = Background
    /\ Goto(Background, "refresh")
    /\ UNCHANGED <<environment, now, settings, manager, lockq, token, progress,
                   fetch, reply, wake, history>>
-----------------------------------------------------------------------------
Runs(t) == \/ AcquireLock(t) \/ LockHandedOver(t) \/ AlreadyFresh(t)
           \/ StartFetch(t) \/ Install(t) \/ AfterRefresh(t)

Handles(t) == LookupKey(t) \/ Decode(t)

Next ==
    \/ \E u \in Url, k \in Kid, v \in Version : Rotate(u, k, v)
    \/ Tick
    \/ \E u \in Url, n \in Ttls : UpdateConfig(u, n)
    \/ \E t \in Task : Runs(t) \/ Answer(t) \/ AttemptFails(t)
    \/ \E t \in Request : Handles(t)
    \/ \E t \in Request, k \in Kid, v \in 1..MaxVersion : Arrive(t, k, v)
    \/ BackgroundWakes

Spec == Init /\ [][Next]_vars

\* The event loop runs every task on; an attempt ends, at the latest by the
\* timeout of the HTTP client.
Fairness ==
    /\ \A t \in Task : WF_vars(Runs(t)) /\ WF_vars(Answer(t) \/ AttemptFails(t))
    /\ \A t \in Request : WF_vars(Handles(t))

FairSpec == Spec /\ Fairness
-----------------------------------------------------------------------------
(* The keys a fetch installs are those the configured endpoint answered      *)
(* with: the answer of a fetch that was under way when the URL changed is    *)
(* dropped, whichever task resumes with it and however late.                 *)
InstalledFromCurrentUrl ==
    [][\A t \in Task :
          /\ pc[t] = "answered" /\ pc'[t] = "after"
          /\ <<keys, fetchedAt>>' # <<keys, fetchedAt>>
          => from[t] = url /\ keys' = body[t]]_vars

(* A token is checked with a key that is younger than its lifetime, or was    *)
(* fetched this very moment, and that was not invalidated since it was       *)
(* fetched, whatever other tasks fetched or invalidated while the request    *)
(* waited.  There are two exceptions: a request whose own fetch a reload     *)
(* overtook goes on with the keys there were before, and for as long as the  *)
(* host is up for less than the lifetime, keys fetched "at 0" look fresh.    *)
KeyInUseIsCurrent ==
    \A t \in Request : pc[t] = "decode" =>
        \/ (Fresh \/ fetchedAt = now) /\ (~dirty \/ now < ttl)
        \/ overtaken[t]

(* jwks.py:47, "Force a refresh on the next get_signing_key call": keys that *)
(* were invalidated are not used until they are fetched again, but by the    *)
(* request whose fetch a reload overtook.                                    *)
InvalidationForcesRefresh ==
    \A t \in Request : pc[t] = "decode" => ~dirty \/ overtaken[t]

(* docs/1-overview.md:224, "JWKS URL/TTL updates with key cache              *)
(* invalidation": no token is checked with the keys from before the change.  *)
ReloadInvalidatesKeys == \A t \in Request : pc[t] = "decode" => ~dirty

Refused(t) == reply[t] \in {"unknownKid", "invalidSignature"}   \* 401

(* A request whose key the endpoint served all the while, none of whose      *)
(* fetches failed and whose last one no reload overtook, is not refused for  *)
(* its key once the host is up for a lifetime: neither a cache that is behind*)
(* nor the fetches and invalidations of other requests, nor a reload at      *)
(* another moment, cost it its answer.                                       *)
ServedKeyIsAccepted ==
    [][\A t \in Request : ~Refused(t) /\ Refused(t)' =>
          ~steady[t] \/ failed'[t] \/ overtaken[t] \/ now < ttl]_vars

(* A fetch is thrown away only when a reload overtook it: however requests   *)
(* invalidate the keys, also those that go on after such a fetch, they do so *)
(* while no fetch is under way.                                              *)
NoFetchDiscarded ==
    \A t \in Task : Fetches(t) => gen[t] = generation \/ overtaken[t]

(* Every request with a token gets an answer, however many tasks queue for   *)
(* the lock and whether or not the endpoint answers.                         *)
EveryRequestEnds == \A t \in Request : pc[t] = "lookup" ~> pc[t] = "replied"

(* jwks.py:73, "Refresh halfway through TTL": the background refresh fetches *)
(* keys that are past half of their lifetime.                                *)
RefreshesHalfway ==
    [][pc[Background] = "entered" /\ pc'[Background] = "after"
         => now - fetchedAt < ttl \div 2]_vars
=============================================================================
