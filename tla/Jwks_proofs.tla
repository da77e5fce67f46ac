----------------------------- MODULE Jwks_proofs -----------------------------
(* For any number of requests, endpoints, keys and retries, any lifetime and *)
(* any history of rotations and reloads: the state keeps its types, at most  *)
(* one task fetches at a time, an answer is installed only while the         *)
(* endpoint it came from is the configured one and is discarded only after a *)
(* reload; keys in use are current, and a key that is served is accepted.    *)
EXTENDS Jwks, Lists_proofs

\* t has _fetch_lock, or waits for it
Holds(t) == pc[t] \in {"entered", "fetching", "answered"}
Waits(t) == pc[t] = "queued"

\* _fetch_lock is a queue of the tasks that hold it or wait, the holder first.
LockInv ==
    /\ NoRepeat(lockq)
    /\ Elements(lockq) = {t \in Task : Holds(t) \/ Waits(t)}
    /\ \A t \in Task : Holds(t) => Head(lockq) = t

\* What a fetch remembers of the moment it began: as long as the generation is
\* the same, so is the URL.
FetchInv ==
    \A t \in Task : pc[t] \in {"fetching", "answered"} =>
        /\ from[t] \in Url
        /\ gen[t] <= generation
        /\ gen[t] = generation => from[t] = url

\* A request that has begun has a token with a kid.
TokenInv == \A t \in Request : pc[t] # "idle" => kid[t] \in Kid

\* the inductive invariant
KeyInv == TypeOK /\ LockInv /\ FetchInv /\ TokenInv
-----------------------------------------------------------------------------
(* The lock through one step of a task: nothing, joining it, or leaving it.  *)
LEMMA LockKept ==
    ASSUME LockInv, lockq' = lockq,
           \A t \in Task : (Holds(t)' <=> Holds(t)) /\ (Waits(t)' <=> Waits(t))
    PROVE  LockInv'
BY DEF LockInv

(* A waiter to whom the lock was handed becomes its holder.                  *)
LEMMA LockTaken ==
    ASSUME LockInv, lockq' = lockq, NEW t \in Task, Waits(t), Head(lockq) = t,
           Holds(t)', \A r \in Task \ {t} : pc'[r] = pc[r]
    PROVE  LockInv'
BY DEF LockInv, Holds, Waits

(* A task joins the queue, and holds the lock at once only if it is alone.   *)
LEMMA LockJoined ==
    ASSUME TypeOK, LockInv, NEW t \in Task, pc[t] = "refresh",
           lockq' = Append(lockq, t),
           \A r \in Task \ {t} : pc'[r] = pc[r],
           IF lockq = <<>> THEN pc'[t] = "entered" ELSE pc'[t] = "queued"
    PROVE  LockInv' /\ lockq' \in Seq(Task)
<1>1. lockq \in Seq(Task) /\ NoRepeat(lockq) /\ t \notin Elements(lockq)
  BY DEF TypeOK, LockInv, Holds, Waits
<1>2. /\ lockq' \in Seq(Task) /\ NoRepeat(lockq')
      /\ Elements(lockq') = Elements(lockq) \cup {t}
      /\ lockq = <<>> => Head(lockq') = t
      /\ lockq # <<>> => Head(lockq') = Head(lockq)
  BY <1>1, QueueJoined
<1>3. lockq = <<>> => Elements(lockq) = {}
  BY DEF Elements
<1>4. Elements(lockq') = {r \in Task : (Holds(r) \/ Waits(r))'}
  BY <1>2 DEF LockInv, Holds, Waits
<1>5. \A r \in Task : Holds(r)' => Head(lockq') = r
  BY <1>2, <1>3 DEF LockInv, Holds, Waits
<1> QED
  BY <1>2, <1>4, <1>5 DEF LockInv

(* The holder leaves; those who wait go on waiting.                          *)
LEMMA LockLeft ==
    ASSUME TypeOK, LockInv, NEW t \in Task, Holds(t), lockq' = Tail(lockq),
           ~Holds(t)', ~Waits(t)', \A r \in Task \ {t} : pc'[r] = pc[r]
    PROVE  LockInv' /\ lockq' \in Seq(Task)
<1>1. /\ lockq \in Seq(Task) /\ NoRepeat(lockq) /\ t \in Elements(lockq)
      /\ Head(lockq) = t
  BY DEF TypeOK, LockInv
<1>2. lockq # <<>>
  BY <1>1 DEF Elements
<1>3. /\ Tail(lockq) \in Seq(Task) /\ NoRepeat(Tail(lockq))
      /\ Elements(Tail(lockq)) = Elements(lockq) \ {t}
  BY <1>1, <1>2, QueueLeft
<1>4. \A r \in Task \ {t} : ~Holds(r)
  BY <1>1 DEF LockInv
<1>5. \A r \in Task : ~Holds(r)'
  BY <1>4 DEF Holds
<1>6. Elements(lockq') = {r \in Task : (Holds(r) \/ Waits(r))'}
  BY <1>3 DEF LockInv, Holds, Waits
<1> QED
  BY <1>3, <1>5, <1>6 DEF LockInv
-----------------------------------------------------------------------------
(* At the start no task has begun anything.                                  *)
LEMMA KeyInit == Init => KeyInv
<1> SUFFICES ASSUME Init PROVE KeyInv
  OBVIOUS
<1>1. TypeOK
  <2>1. 0 \in Version /\ NoKeys \in [Kid -> Version] /\ 0 \in 0..Attempts
        /\ BootTime \in Nat /\ 0 \in 0..BootTime /\ <<>> \in Seq(Task)
    BY JwksConstants DEF NoKeys, Version
  <2>2. /\ served \in [Url -> [Kid -> Version]] /\ rotations \in Nat
        /\ now \in Nat /\ fetchedAt \in 0..now
        /\ url \in Url /\ ttl \in Ttls /\ reloads \in Nat
        /\ keys \in [Kid -> Version] /\ generation \in Nat /\ dirty \in BOOLEAN
        /\ active \in Task \cup {None} /\ lockq \in Seq(Task) /\ wake \in Nat
    BY <2>1 DEF Init
  <2> QED
    BY <2>1, <2>2 DEF Init, TypeOK
<1>2. LockInv
  BY DEF Init, LockInv, Holds, Waits, NoRepeat, Elements
<1>3. FetchInv
  BY DEF Init, FetchInv
<1>4. TokenInv
  BY DEF Init, TokenInv, Task
<1> QED
  BY <1>1, <1>2, <1>3, <1>4 DEF KeyInv

(* What ends a request, or lets the background task sleep again.             *)
LEMMA Finished ==
    ASSUME TypeOK, NEW t \in Task, NEW what,
           what \in {"none", "ok", "unknownKid", "unavailable", "invalidSignature"},
           Finish(t, what)
    PROVE  /\ pc' = [pc EXCEPT ![t] = IF t = Background THEN "idle" ELSE "replied"]
           /\ wake' \in Nat
           /\ reply' \in [Request -> {"none", "ok", "unknownKid", "unavailable",
                                      "invalidSignature"}]
<1>1. ttl \div 2 \in Nat /\ MinInterval \in Nat /\ now \in Nat /\ wake \in Nat
  <2>1. ttl \in Nat /\ MinInterval \in Nat /\ now \in Nat /\ wake \in Nat
    BY JwksConstants DEF TypeOK
  <2> QED
    BY <2>1
<1>2. CASE t = Background
  <2>1. /\ pc' = [pc EXCEPT ![t] = "idle"] /\ reply' = reply
        /\ wake' = now + IF ttl \div 2 > MinInterval THEN ttl \div 2 ELSE MinInterval
    BY <1>2 DEF Finish, Goto
  <2>2. reply' \in [Request -> {"none", "ok", "unknownKid", "unavailable",
                                "invalidSignature"}]
    BY <2>1 DEF TypeOK
  <2>3. wake' \in Nat
    BY <1>1, <2>1
  <2> QED
    BY <1>2, <2>1, <2>2, <2>3
<1>3. CASE t # Background
  <2>1. /\ pc' = [pc EXCEPT ![t] = "replied"]
        /\ reply' = [reply EXCEPT ![t] = what] /\ wake' = wake
    BY <1>3 DEF Finish, Goto
  <2>2. reply' \in [Request -> {"none", "ok", "unknownKid", "unavailable",
                                "invalidSignature"}]
    BY <2>1 DEF TypeOK
  <2> QED
    BY <1>1, <1>3, <2>1, <2>2
<1> QED
  BY <1>2, <1>3

(* The endpoints, the clock and a reload.                                    *)
LEMMA SurroundingsStep ==
    ASSUME KeyInv,
           \/ \E u \in Url, k \in Kid, v \in Version : Rotate(u, k, v)
           \/ Tick
           \/ \E u \in Url, n \in Ttls : UpdateConfig(u, n)
    PROVE  KeyInv'
<1>0. TypeOK /\ LockInv /\ FetchInv /\ TokenInv
  BY DEF KeyInv
<1>1. lockq' = lockq /\ pc' = pc /\ token' = token /\ fetch' = fetch
  BY DEF Rotate, Tick, UpdateConfig
<1>2. LockInv'
  BY <1>0, <1>1, LockKept DEF Holds, Waits
<1>3. TokenInv'
  BY <1>0, <1>1 DEF TokenInv, token
<1>4. ASSUME NEW u \in Url, NEW k \in Kid, NEW v \in Version, Rotate(u, k, v)
      PROVE  TypeOK' /\ FetchInv'
  <2>1. TypeOK'
    <3>1. steady' \in [Request -> BOOLEAN]
      BY <1>4, Zenon DEF Rotate
    <3>2. /\ served' = [served EXCEPT ![u][k] = v] /\ rotations' = rotations + 1
          /\ UNCHANGED <<now, settings, manager, active, lockq, pc, token, progress,
                         fetch, reply, wake, failed, overtaken>>
      BY <1>4 DEF Rotate
    <3> QED
      BY <1>0, <3>1, <3>2 DEF TypeOK, settings, manager, token, progress, fetch
  <2>2. FetchInv'
    BY <1>0, <1>4 DEF FetchInv, Rotate, settings, manager, fetch
  <2> QED
    BY <2>1, <2>2
<1>5. ASSUME Tick PROVE TypeOK' /\ FetchInv'
  <2>1. TypeOK'
    BY <1>0, <1>5 DEF TypeOK, Tick, environment, settings, manager, token, progress,
                      fetch, history
  <2>2. FetchInv'
    BY <1>0, <1>5 DEF FetchInv, Tick, settings, manager, fetch
  <2> QED
    BY <2>1, <2>2
<1>6. ASSUME NEW u \in Url, NEW n \in Ttls, UpdateConfig(u, n)
      PROVE  TypeOK' /\ FetchInv'
  <2>1. TypeOK'
    <3>1. steady' \in [Request -> BOOLEAN]
      BY <1>6, Zenon DEF UpdateConfig
    <3>2. /\ reloads' = reloads + 1 /\ url' = u /\ ttl' = n /\ fetchedAt' = 0
          /\ generation' = generation + 1 /\ dirty' = TRUE
          /\ UNCHANGED <<environment, now, keys, active, lockq, pc, token, progress,
                         fetch, reply, wake, failed>>
      BY <1>6 DEF UpdateConfig
    <3>3. overtaken' \in [Task -> BOOLEAN]
      BY <1>6, Zenon DEF UpdateConfig
    <3> QED
      BY <1>0, <3>1, <3>2, <3>3 DEF TypeOK, environment, token, progress, fetch
  <2>2. FetchInv'
    <3>1. /\ generation' = generation + 1 /\ generation \in Nat
          /\ \A t \in Task : gen[t] \in Nat
      BY <1>0, <1>6 DEF UpdateConfig, TypeOK
    <3> QED
      BY <1>0, <1>1, <3>1 DEF FetchInv, fetch
  <2> QED
    BY <2>1, <2>2
<1> QED
  BY <1>2, <1>3, <1>4, <1>5, <1>6 DEF KeyInv

(* A task goes on outside the lock, or with the lock it holds.               *)
LEMMA LabelMoves ==
    ASSUME TypeOK, LockInv, NEW t \in Task, NEW label,
           lockq' = lockq, pc' = [pc EXCEPT ![t] = label],
           \/ /\ ~Holds(t) /\ ~Waits(t)
              /\ label \in {"idle", "lookup", "refresh", "after", "decode", "replied"}
           \/ Holds(t) /\ label \in {"fetching", "answered"}
           \/ Waits(t) /\ Head(lockq) = t /\ label = "entered"
    PROVE  LockInv'
<1>1. pc'[t] = label /\ \A r \in Task \ {t} : pc'[r] = pc[r]
  BY DEF TypeOK
<1>2. CASE Waits(t)
  <2>1. label = "entered" /\ Head(lockq) = t
    BY <1>2 DEF Holds, Waits
  <2>2. Holds(t)'
    BY <1>1, <2>1 DEF Holds
  <2> QED
    BY <1>1, <1>2, <2>1, <2>2, LockTaken
<1>3. CASE ~Waits(t)
  <2>1. \A r \in Task : (Holds(r)' <=> Holds(r)) /\ (Waits(r)' <=> Waits(r))
    BY <1>1, <1>3 DEF Holds, Waits
  <2> QED
    BY <2>1, LockKept
<1> QED
  BY <1>2, <1>3

(* A step that fetches nothing and forgets no fetch in flight.               *)
LEMMA FetchesKept ==
    ASSUME TypeOK, FetchInv, UNCHANGED <<gen, from, url, generation>>,
           \A r \in Task : pc'[r] \in {"fetching", "answered"} =>
                              pc[r] \in {"fetching", "answered"}
    PROVE  FetchInv'
BY DEF FetchInv

(* Invalidating the keys only makes fetches out of date.                     *)
LEMMA FetchesOutdated ==
    ASSUME TypeOK, FetchInv, UNCHANGED <<gen, from, url>>,
           generation' = generation + 1,
           \A r \in Task : pc'[r] \in {"fetching", "answered"} =>
                              pc[r] \in {"fetching", "answered"}
    PROVE  FetchInv'
<1>1. \A r \in Task : gen[r] \in Nat /\ generation \in Nat
  BY DEF TypeOK
<1> QED
  BY <1>1 DEF FetchInv

(* Waiting for the lock, taking it, finding the keys fresh.                  *)
LEMMA LockStep ==
    ASSUME KeyInv, NEW t \in Task,
           AcquireLock(t) \/ LockHandedOver(t) \/ AlreadyFresh(t) \/ StartFetch(t)
    PROVE  KeyInv'
<1>0. /\ TypeOK /\ LockInv /\ FetchInv /\ TokenInv
      /\ pc \in [Task -> {"idle", "lookup", "refresh", "queued", "entered",
                          "fetching", "answered", "after", "decode", "replied"}]
  BY DEF KeyInv, TypeOK
<1>1. CASE AcquireLock(t)
  <2>1. /\ pc[t] = "refresh" /\ lockq' = Append(lockq, t)
        /\ pc' = [pc EXCEPT ![t] = IF lockq = <<>> THEN "entered" ELSE "queued"]
        /\ active' = active \/ active' = None
        /\ UNCHANGED <<environment, now, settings, manager, token, progress, fetch,
                       reply, wake, history>>
    BY <1>1 DEF AcquireLock, Goto
  <2>2. LockInv' /\ lockq' \in Seq(Task)
    <3>1. \A r \in Task \ {t} : pc'[r] = pc[r]
      BY <1>0, <2>1
    <3>2. IF lockq = <<>> THEN pc'[t] = "entered" ELSE pc'[t] = "queued"
      BY <1>0, <2>1
    <3> QED
      BY <1>0, <2>1, <3>1, <3>2, LockJoined
  <2>3. TypeOK'
    BY <1>0, <2>1, <2>2 DEF TypeOK, environment, settings, manager, token, progress,
                            fetch, history
  <2>4. FetchInv'
    BY <1>0, <2>1, FetchesKept DEF settings, manager, fetch
  <2>5. TokenInv'
    BY <1>0, <2>1 DEF TokenInv, Task, token
  <2> QED
    BY <2>2, <2>3, <2>4, <2>5 DEF KeyInv
<1>2. CASE LockHandedOver(t)
  <2>1. /\ pc[t] = "queued" /\ Head(lockq) = t /\ lockq' = lockq
        /\ pc' = [pc EXCEPT ![t] = "entered"] /\ active' = t
        /\ UNCHANGED <<environment, now, settings, manager, token, progress, fetch,
                       reply, wake, history>>
    BY <1>2 DEF LockHandedOver, Goto
  <2>2. LockInv'
    BY <1>0, <2>1, LabelMoves DEF Waits
  <2>3. TypeOK'
    BY <1>0, <2>1 DEF TypeOK, environment, settings, manager, token, progress,
                      fetch, history
  <2>4. FetchInv'
    BY <1>0, <2>1, FetchesKept DEF settings, manager, fetch
  <2>5. TokenInv'
    BY <1>0, <2>1 DEF TokenInv, Task, token
  <2> QED
    BY <2>2, <2>3, <2>4, <2>5 DEF KeyInv
<1>3. CASE AlreadyFresh(t)
  <2>1. /\ pc[t] = "entered" /\ lockq' = Tail(lockq)
        /\ pc' = [pc EXCEPT ![t] = "after"] /\ active' = active
        /\ UNCHANGED <<environment, now, settings, manager, token, progress, fetch,
                       reply, wake, history>>
    BY <1>3 DEF AlreadyFresh, Goto
  <2>2. LockInv' /\ lockq' \in Seq(Task)
    <3>1. pc'[t] = "after" /\ \A r \in Task \ {t} : pc'[r] = pc[r]
      BY <1>0, <2>1
    <3>2. Holds(t) /\ ~Holds(t)' /\ ~Waits(t)'
      BY <2>1, <3>1 DEF Holds, Waits
    <3> QED
      BY <1>0, <2>1, <3>1, <3>2, LockLeft
  <2>3. TypeOK'
    BY <1>0, <2>1, <2>2 DEF TypeOK, environment, settings, manager, token, progress,
                            fetch, history
  <2>4. FetchInv'
    BY <1>0, <2>1, FetchesKept DEF settings, manager, fetch
  <2>5. TokenInv'
    BY <1>0, <2>1 DEF TokenInv, Task, token
  <2> QED
    BY <2>2, <2>3, <2>4, <2>5 DEF KeyInv
<1>4. CASE StartFetch(t)
  <2>1. /\ pc[t] = "entered" /\ lockq' = lockq
        /\ pc' = [pc EXCEPT ![t] = "fetching"] /\ active' = None
        /\ gen' = [gen EXCEPT ![t] = generation]
        /\ from' = [from EXCEPT ![t] = url]
        /\ attempt' = [attempt EXCEPT ![t] = 1]
        /\ overtaken' = [overtaken EXCEPT ![t] = FALSE]
        /\ UNCHANGED <<environment, now, settings, manager, token, progress, body,
                       reply, wake, steady, failed>>
    BY <1>4 DEF StartFetch, Goto
  <2>2. LockInv'
    BY <1>0, <2>1, LabelMoves DEF Holds, Waits
  <2>3. TypeOK'
    <3>1. 1 \in 0..Attempts
      BY JwksConstants
    <3> QED
      BY <1>0, <2>1, <3>1 DEF TypeOK, environment, settings, manager, token, progress,
                              history
  <2>4. FetchInv'
    <3>1. /\ gen'[t] = generation /\ from'[t] = url /\ url \in Url
          /\ generation \in Nat /\ url' = url /\ generation' = generation
          /\ \A r \in Task \ {t} : /\ gen'[r] = gen[r] /\ from'[r] = from[r]
                                   /\ pc'[r] = pc[r]
      BY <1>0, <2>1 DEF TypeOK, settings, manager
    <3> QED
      BY <1>0, <3>1 DEF FetchInv
  <2>5. TokenInv'
    BY <1>0, <2>1 DEF TokenInv, Task, token
  <2> QED
    BY <2>2, <2>3, <2>4, <2>5 DEF KeyInv
<1> QED
  BY <1>1, <1>2, <1>3, <1>4

(* A fetch is answered, fails, or ends with the keys it brought.             *)
LEMMA FetchStep ==
    ASSUME KeyInv, NEW t \in Task, Answer(t) \/ AttemptFails(t) \/ Install(t)
    PROVE  KeyInv'
<1>0. /\ TypeOK /\ LockInv /\ FetchInv /\ TokenInv
      /\ pc \in [Task -> {"idle", "lookup", "refresh", "queued", "entered",
                          "fetching", "answered", "after", "decode", "replied"}]
  BY DEF KeyInv, TypeOK
<1>a. NoKeys \in [Kid -> Version] /\ 0 \in 0..Attempts /\ 0 \in Nat
  BY JwksConstants DEF NoKeys, Version
<1>1. CASE Answer(t)
  <2>1. /\ pc[t] = "fetching" /\ lockq' = lockq
        /\ pc' = [pc EXCEPT ![t] = "answered"]
        /\ body' = [body EXCEPT ![t] = served[from[t]]]
        /\ UNCHANGED <<environment, now, settings, manager, active, token, progress,
                       gen, from, attempt, reply, wake, history>>
    BY <1>1 DEF Answer, Goto
  <2>2. LockInv'
    BY <1>0, <2>1, LabelMoves DEF Holds
  <2>3. TypeOK'
    <3>1. served[from[t]] \in [Kid -> Version]
      BY <1>0, <2>1 DEF TypeOK, FetchInv
    <3> QED
      BY <1>0, <2>1, <3>1 DEF TypeOK, environment, settings, manager, token, progress,
                              history
  <2>4. FetchInv'
    BY <1>0, <2>1, FetchesKept DEF settings, manager
  <2>5. TokenInv'
    BY <1>0, <2>1 DEF TokenInv, Task, token
  <2> QED
    BY <2>2, <2>3, <2>4, <2>5 DEF KeyInv
<1>2. CASE AttemptFails(t) /\ attempt[t] < Attempts
  <2>1. /\ UNCHANGED <<lockq, pc, reply, wake, gen, from, body>>
        /\ attempt' = [attempt EXCEPT ![t] = attempt[t] + 1]
        /\ UNCHANGED <<environment, now, settings, manager, active, token, progress,
                       steady, overtaken>>
    <3>1. attempt[t] # Attempts
      BY <1>0, <1>2, JwksConstants DEF TypeOK
    <3> QED
      BY <1>2, <3>1 DEF AttemptFails
  <2>2. LockInv'
    BY <1>0, <2>1, LockKept DEF Holds, Waits
  <2>3. TypeOK'
    <3>1. attempt[t] + 1 \in 0..Attempts
      BY <1>0, <1>2, JwksConstants DEF TypeOK
    <3>2. failed' \in [Request -> BOOLEAN]
      BY <1>2, Zenon DEF AttemptFails
    <3> QED
      BY <1>0, <2>1, <3>1, <3>2 DEF TypeOK, environment, settings, manager, token,
                                    progress
  <2>4. FetchInv'
    BY <1>0, <2>1, FetchesKept DEF settings, manager
  <2>5. TokenInv'
    BY <1>0, <2>1 DEF TokenInv, Task, token
  <2> QED
    BY <2>2, <2>3, <2>4, <2>5 DEF KeyInv
<1>3. CASE AttemptFails(t) /\ ~(attempt[t] < Attempts)
  <2> DEFINE what == IF retried[t] THEN "invalidSignature" ELSE "unavailable"
  <2>1. /\ pc[t] = "fetching" /\ lockq' = Tail(lockq) /\ Finish(t, what) /\ NoFetch(t)
        /\ UNCHANGED <<environment, now, settings, manager, active, token, progress,
                       steady, overtaken>>
    BY <1>3 DEF AttemptFails
  <2> HIDE DEF what
  <2>2. /\ pc' = [pc EXCEPT ![t] = IF t = Background THEN "idle" ELSE "replied"]
        /\ wake' \in Nat
        /\ reply' \in [Request -> {"none", "ok", "unknownKid", "unavailable",
                                   "invalidSignature"}]
    BY <1>0, <2>1, Finished DEF what
  <2>3. pc'[t] \in {"idle", "replied"} /\ \A r \in Task \ {t} : pc'[r] = pc[r]
    BY <1>0, <2>2
  <2>4. LockInv' /\ lockq' \in Seq(Task)
    <3>1. Holds(t) /\ ~Holds(t)' /\ ~Waits(t)'
      BY <2>1, <2>3 DEF Holds, Waits
    <3> QED
      BY <1>0, <2>1, <2>3, <3>1, LockLeft
  <2>5. /\ gen' = [gen EXCEPT ![t] = 0] /\ from' = [from EXCEPT ![t] = None]
        /\ attempt' = [attempt EXCEPT ![t] = 0] /\ body' = [body EXCEPT ![t] = NoKeys]
    BY <2>1 DEF NoFetch
  <2>6. TypeOK'
    <3>1. failed' \in [Request -> BOOLEAN]
      BY <1>3, Zenon DEF AttemptFails
    <3>2. pc' \in [Task -> {"idle", "lookup", "refresh", "queued", "entered",
                            "fetching", "answered", "after", "decode", "replied"}]
      BY <1>0, <2>2
    <3> QED
      BY <1>0, <1>a, <2>1, <2>2, <2>4, <2>5, <3>1, <3>2
         DEF TypeOK, environment, settings, manager, token, progress
  <2>7. FetchInv'
    BY <1>0, <2>1, <2>3, <2>5 DEF FetchInv, TypeOK, settings, manager
  <2>8. TokenInv'
    BY <1>0, <2>1, <2>3, <2>2 DEF TokenInv, Task, token
  <2> QED
    BY <2>4, <2>6, <2>7, <2>8 DEF KeyInv
<1>4. CASE Install(t)
  <2>1. /\ pc[t] = "answered" /\ lockq' = Tail(lockq) /\ active' = t
        /\ pc' = [pc EXCEPT ![t] = "after"]
        /\ gen' = [gen EXCEPT ![t] = 0] /\ from' = [from EXCEPT ![t] = None]
        /\ attempt' = [attempt EXCEPT ![t] = 0] /\ body' = [body EXCEPT ![t] = NoKeys]
        /\ UNCHANGED <<environment, now, settings, token, progress, reply, wake, history>>
        /\ generation' = generation
        /\ \/ keys' = body[t] /\ fetchedAt' = now /\ dirty' = FALSE
           \/ UNCHANGED <<keys, fetchedAt, dirty>>
    BY <1>4 DEF Install, Goto, NoFetch, manager
  <2>2. pc'[t] = "after" /\ \A r \in Task \ {t} : pc'[r] = pc[r]
    BY <1>0, <2>1
  <2>3. LockInv' /\ lockq' \in Seq(Task)
    <3>1. Holds(t) /\ ~Holds(t)' /\ ~Waits(t)'
      BY <2>1, <2>2 DEF Holds, Waits
    <3> QED
      BY <1>0, <2>1, <2>2, <3>1, LockLeft
  <2>4. TypeOK'
    <3>1. /\ keys' \in [Kid -> Version] /\ dirty' \in BOOLEAN /\ now \in Nat
          /\ fetchedAt' \in 0..now /\ now' = now
      <4>1. /\ now \in Nat /\ fetchedAt \in 0..now /\ body[t] \in [Kid -> Version]
            /\ keys \in [Kid -> Version] /\ dirty \in BOOLEAN
        BY <1>0 DEF TypeOK
      <4>2. now' = now /\ now \in 0..now
        BY <2>1, <4>1
      <4>3. keys' \in [Kid -> Version] /\ fetchedAt' \in 0..now
        BY <2>1, <4>1, <4>2
      <4>4. dirty' \in BOOLEAN
        BY <2>1, <4>1
      <4> QED
        BY <4>1, <4>2, <4>3, <4>4
    <3> QED
      BY <1>0, <1>a, <2>1, <2>3, <3>1
         DEF TypeOK, environment, settings, token, progress, history
  <2>5. FetchInv'
    BY <1>0, <2>1, <2>2 DEF FetchInv, TypeOK, settings
  <2>6. TokenInv'
    BY <1>0, <2>1 DEF TokenInv, Task, token
  <2> QED
    BY <2>3, <2>4, <2>5, <2>6 DEF KeyInv
<1> QED
  BY <1>1, <1>2, <1>3, <1>4

(* A request begins, and looks up its key; the background task wakes up.     *)
LEMMA BeginStep ==
    ASSUME KeyInv,
           \/ \E t \in Request, k \in Kid, v \in 1..MaxVersion : Arrive(t, k, v)
           \/ \E t \in Request : LookupKey(t)
           \/ BackgroundWakes
    PROVE  KeyInv'
<1>0. /\ TypeOK /\ LockInv /\ FetchInv /\ TokenInv /\ Background \in Task
      /\ \A t \in Request : t \in Task
      /\ pc \in [Task -> {"idle", "lookup", "refresh", "queued", "entered",
                          "fetching", "answered", "after", "decode", "replied"}]
  BY DEF KeyInv, TypeOK, Task
<1>1. ASSUME NEW t \in Request, NEW k \in Kid, NEW v \in 1..MaxVersion, Arrive(t, k, v)
      PROVE  KeyInv'
  <2>1. /\ pc[t] = "idle" /\ lockq' = lockq /\ active' = t
        /\ pc' = [pc EXCEPT ![t] = "lookup"]
        /\ kid' = [kid EXCEPT ![t] = k] /\ signed' = [signed EXCEPT ![t] = v]
        /\ steady' = [steady EXCEPT ![t] = (served[url][k] = v)]
        /\ UNCHANGED <<environment, now, settings, manager, progress, fetch,
                       reply, wake, failed, overtaken>>
    BY <1>1 DEF Arrive, Goto
  <2>2. LockInv'
    BY <1>0, <2>1, LabelMoves DEF Holds, Waits
  <2>3. TypeOK'
    <3>1. steady' \in [Request -> BOOLEAN]
      <4>1. (served[url][k] = v) \in BOOLEAN /\ steady \in [Request -> BOOLEAN]
        BY <1>0 DEF TypeOK
      <4> QED
        BY <2>1, <4>1
    <3>2. v \in Version
      BY JwksConstants DEF Version
    <3>3. /\ UNCHANGED <<environment, now, settings, manager, progress, fetch,
                         reply, wake, failed, overtaken>>
          /\ kid' \in [Request -> Kid \cup {None}]
          /\ signed' \in [Request -> Version]
          /\ pc' \in [Task -> {"idle", "lookup", "refresh", "queued", "entered",
                               "fetching", "answered", "after", "decode", "replied"}]
          /\ active' \in Task /\ lockq' = lockq
      BY <1>0, <2>1, <3>2 DEF TypeOK
    <3> QED
      BY <1>0, <3>1, <3>3 DEF TypeOK, environment, settings, manager, progress, fetch
  <2>4. FetchInv'
    BY <1>0, <2>1, FetchesKept DEF settings, manager, fetch
  <2>5. TokenInv'
    BY <1>0, <2>1 DEF TokenInv, TypeOK
  <2> QED
    BY <2>2, <2>3, <2>4, <2>5 DEF KeyInv
<1>2. ASSUME NEW t \in Request, LookupKey(t) PROVE KeyInv'
  <2> DEFINE label == IF keys[kid[t]] # 0 /\ Fresh THEN "decode" ELSE "refresh"
  <2>1. /\ pc[t] = "lookup" /\ lockq' = lockq
        /\ pc' = [pc EXCEPT ![t] = label]
        /\ UNCHANGED <<environment, now, settings, manager, active, token, progress,
                       fetch, reply, wake, history>>
    BY <1>2 DEF LookupKey, Goto
  <2>2. label \in {"decode", "refresh"}
    OBVIOUS
  <2> HIDE DEF label
  <2>3. LockInv'
    BY <1>0, <2>1, <2>2, LabelMoves DEF Holds, Waits
  <2>4. TypeOK'
    BY <1>0, <2>1, <2>2 DEF TypeOK, environment, settings, manager, token, progress,
                            fetch, history
  <2>5. FetchInv'
    BY <1>0, <2>1, <2>2, FetchesKept DEF settings, manager, fetch
  <2>6. TokenInv'
    BY <1>0, <2>1 DEF TokenInv, token
  <2> QED
    BY <2>3, <2>4, <2>5, <2>6 DEF KeyInv
<1>3. ASSUME BackgroundWakes PROVE KeyInv'
  <2>1. /\ pc[Background] = "idle" /\ lockq' = lockq /\ active' = Background
        /\ pc' = [pc EXCEPT ![Background] = "refresh"]
        /\ UNCHANGED <<environment, now, settings, manager, token, progress, fetch,
                       reply, wake, history>>
    BY <1>3 DEF BackgroundWakes, Goto
  <2>2. LockInv'
    BY <1>0, <2>1, LabelMoves DEF Holds, Waits
  <2>3. TypeOK'
    BY <1>0, <2>1 DEF TypeOK, environment, settings, manager, token, progress, fetch,
                      history
  <2>4. FetchInv'
    BY <1>0, <2>1, FetchesKept DEF settings, manager, fetch
  <2>5. TokenInv'
    BY <1>0, <2>1, JwksConstants DEF TokenInv, token
  <2> QED
    BY <2>2, <2>3, <2>4, <2>5 DEF KeyInv
<1> QED
  BY <1>1, <1>2, <1>3

(* A request ends or goes on after a refresh or after checking its token,    *)
(* with the keys as they are or invalidated; so does the background task.    *)
LEMMA RequestStep ==
    ASSUME KeyInv, NEW t \in Task,
           AfterRefresh(t) \/ (t \in Request /\ Decode(t))
    PROVE  KeyInv'
<1>0. /\ TypeOK /\ LockInv /\ FetchInv /\ TokenInv
      /\ pc \in [Task -> {"idle", "lookup", "refresh", "queued", "entered",
                          "fetching", "answered", "after", "decode", "replied"}]
  BY DEF KeyInv, TypeOK
<1> DEFINE answers == {"none", "ok", "unknownKid", "unavailable", "invalidSignature"}
           labels == {"idle", "lookup", "refresh", "decode", "replied"}
<1>1. /\ pc[t] \in {"after", "decode"} /\ lockq' = lockq
      /\ UNCHANGED <<environment, now, settings, token, fetch, history>>
  BY DEF AfterRefresh, Decode
<1>2. ASSUME NEW what \in answers, Finish(t, what)
      PROVE  /\ \E label \in labels : pc' = [pc EXCEPT ![t] = label]
             /\ wake' \in Nat /\ reply' \in [Request -> answers]
             /\ t \in Request => pc'[t] # "idle"
  <2>1. /\ pc' = [pc EXCEPT ![t] = IF t = Background THEN "idle" ELSE "replied"]
        /\ wake' \in Nat /\ reply' \in [Request -> answers]
    BY <1>0, <1>2, Finished
  <2> QED
    BY <1>0, <2>1, JwksConstants
<1>3. ASSUME NEW label \in labels, Goto(t, label), UNCHANGED <<reply, wake>>,
             t \in Request => label # "idle"
      PROVE  /\ \E l \in labels : pc' = [pc EXCEPT ![t] = l]
             /\ wake' \in Nat /\ reply' \in [Request -> answers]
             /\ t \in Request => pc'[t] # "idle"
  BY <1>0, <1>3 DEF Goto, TypeOK
<1>4. /\ \E label \in labels : pc' = [pc EXCEPT ![t] = label]
      /\ wake' \in Nat /\ reply' \in [Request -> answers]
      /\ t \in Request => pc'[t] # "idle"
  <2>1. CASE AfterRefresh(t)
    <3>1. CASE /\ t = Background /\ Finish(t, "none")
      BY <1>2, <3>1
    <3>2. CASE /\ Goto(t, "decode") /\ UNCHANGED <<reply, wake>>
      BY <1>3, <3>2
    <3>3. CASE /\ Goto(t, "refresh") /\ UNCHANGED <<reply, wake>>
      BY <1>3, <3>3
    <3>4. CASE Finish(t, IF retried[t] THEN "invalidSignature" ELSE "unknownKid")
      BY <1>2, <3>4
    <3> QED
      BY <2>1, <3>1, <3>2, <3>3, <3>4 DEF AfterRefresh
  <2>2. CASE Decode(t)
    <3>1. CASE Finish(t, "ok")
      BY <1>2, <3>1
    <3>2. CASE /\ Goto(t, "lookup") /\ UNCHANGED <<reply, wake>>
      BY <1>3, <3>2
    <3>3. CASE Finish(t, "invalidSignature")
      BY <1>2, <3>3
    <3> QED
      BY <2>2, <3>1, <3>2, <3>3 DEF Decode
  <2> QED
    BY <2>1, <2>2
<1>5. \/ UNCHANGED manager
      \/ fetchedAt' = 0 /\ generation' = generation + 1 /\ dirty' = TRUE /\ keys' = keys
  BY DEF AfterRefresh, Decode, Invalidate
<1>6. /\ second' \in [Task -> BOOLEAN] /\ retried' \in [Task -> BOOLEAN]
      /\ active' = active \/ active' = None
  <2>1. /\ second' = second \/ second' = [second EXCEPT ![t] = TRUE]
                            \/ second' = [second EXCEPT ![t] = FALSE]
        /\ retried' = retried \/ retried' = [retried EXCEPT ![t] = TRUE]
        /\ active' = active \/ active' = None
    BY DEF AfterRefresh, Decode, progress
  <2>2. second \in [Task -> BOOLEAN] /\ retried \in [Task -> BOOLEAN]
    BY <1>0 DEF TypeOK
  <2> QED
    BY <2>1, <2>2
<1>7. PICK label \in labels : pc' = [pc EXCEPT ![t] = label]
  BY <1>4
<1>8. LockInv'
  BY <1>0, <1>1, <1>7, LabelMoves DEF Holds, Waits
<1>9. TypeOK'
  <2>1. /\ keys' \in [Kid -> Version] /\ generation' \in Nat /\ dirty' \in BOOLEAN
        /\ now' \in Nat /\ fetchedAt' \in 0..now'
    <3>1. /\ keys \in [Kid -> Version] /\ generation \in Nat /\ dirty \in BOOLEAN
          /\ now \in Nat /\ fetchedAt \in 0..now /\ now' = now /\ 0 \in 0..now
      BY <1>0, <1>1 DEF TypeOK
    <3>2. keys' = keys
      BY <1>5 DEF manager
    <3>3. generation' \in Nat
      BY <1>5, <3>1 DEF manager
    <3>4. fetchedAt' \in 0..now'
      BY <1>5, <3>1 DEF manager
    <3>5. dirty' \in BOOLEAN
      BY <1>5, <3>1 DEF manager
    <3> QED
      BY <3>1, <3>2, <3>3, <3>4, <3>5
  <2>2. pc' \in [Task -> {"idle", "lookup", "refresh", "queued", "entered",
                          "fetching", "answered", "after", "decode", "replied"}]
    BY <1>0, <1>7
  <2> QED
    BY <1>0, <1>1, <1>4, <1>6, <2>1, <2>2
       DEF TypeOK, environment, settings, token, fetch, history
<1>10. FetchInv'
  <2>1. \A r \in Task : pc'[r] \in {"fetching", "answered"} =>
                            pc[r] \in {"fetching", "answered"}
    BY <1>0, <1>7
  <2>2. UNCHANGED <<gen, from, url>>
    BY <1>1 DEF fetch, settings
  <2>3. generation' = generation \/ generation' = generation + 1
    BY <1>5 DEF manager
  <2> QED
    BY <1>0, <2>1, <2>2, <2>3, FetchesKept, FetchesOutdated
<1>11. TokenInv'
  <2>1. \A r \in Request : r # t => pc'[r] = pc[r]
    BY <1>0, <1>7 DEF Task
  <2> QED
    BY <1>0, <1>1, <2>1 DEF TokenInv, token
<1> QED
  BY <1>8, <1>9, <1>10, <1>11 DEF KeyInv

(* Every step keeps the invariant.                                           *)
LEMMA KeyStep == KeyInv /\ [Next]_vars => KeyInv'
<1> SUFFICES ASSUME KeyInv, [Next]_vars PROVE KeyInv'
  OBVIOUS
<1>1. CASE \/ \E u \in Url, k \in Kid, v \in Version : Rotate(u, k, v)
           \/ Tick
           \/ \E u \in Url, n \in Ttls : UpdateConfig(u, n)
  BY <1>1, SurroundingsStep
<1>2. ASSUME NEW t \in Task, Runs(t) \/ Answer(t) \/ AttemptFails(t) PROVE KeyInv'
  BY <1>2, LockStep, FetchStep, RequestStep DEF Runs
<1>3. ASSUME NEW t \in Request, Handles(t) PROVE KeyInv'
  <2>1. t \in Task
    BY DEF Task
  <2>2. CASE LookupKey(t)
    BY <2>2, BeginStep
  <2>3. CASE Decode(t)
    BY <2>1, <2>3, RequestStep
  <2> QED
    BY <1>3, <2>2, <2>3 DEF Handles
<1>4. CASE \/ \E t \in Request, k \in Kid, v \in 1..MaxVersion : Arrive(t, k, v)
           \/ BackgroundWakes
  BY <1>4, BeginStep
<1>5. CASE UNCHANGED vars
  <2>1. /\ UNCHANGED <<environment, now, settings, manager, active, lockq, pc, token,
                       progress, fetch, reply, wake, history>>
    BY <1>5 DEF vars
  <2>2. TypeOK' /\ TokenInv'
    BY <2>1 DEF KeyInv, TypeOK, TokenInv, environment, settings, manager, token,
                progress, fetch, history
  <2>3. LockInv'
    BY <2>1, LockKept DEF KeyInv, Holds, Waits
  <2>4. FetchInv'
    BY <2>1, FetchesKept DEF KeyInv, settings, manager, fetch
  <2> QED
    BY <2>2, <2>3, <2>4 DEF KeyInv
<1> QED
  BY <1>1, <1>2, <1>3, <1>4, <1>5 DEF Next

(* A task whose fetch was answered moves on by Install, and by its own step. *)
LEMMA OnlyInstall ==
    ASSUME TypeOK, [Next]_vars, NEW t \in Task, pc[t] = "answered", pc'[t] # pc[t]
    PROVE  Install(t)
<1>0. /\ pc \in [Task -> {"idle", "lookup", "refresh", "queued", "entered",
                          "fetching", "answered", "after", "decode", "replied"}]
      /\ Background \in Task /\ \A r \in Request : r \in Task
  BY DEF TypeOK, Task
<1>1. pc' # pc
  OBVIOUS
<1>2. ASSUME NEW r \in Task, NEW label, Goto(r, label), pc[r] # "answered" PROVE FALSE
  BY <1>0, <1>2 DEF Goto
<1>3. ASSUME NEW r \in Task, NEW what, Finish(r, what), pc[r] # "answered" PROVE FALSE
  BY <1>2, <1>3 DEF Finish
<1>4. \A u \in Url, k \in Kid, v \in Version : ~Rotate(u, k, v)
  BY <1>1 DEF Rotate
<1>5. ~Tick /\ \A u \in Url, n \in Ttls : ~UpdateConfig(u, n)
  BY <1>1 DEF Tick, UpdateConfig
<1>6. ASSUME NEW r \in Task PROVE /\ ~AcquireLock(r) /\ ~LockHandedOver(r)
                                 /\ ~AlreadyFresh(r) /\ ~StartFetch(r) /\ ~Answer(r)
  BY <1>2 DEF AcquireLock, LockHandedOver, AlreadyFresh, StartFetch, Answer
<1>7. ASSUME NEW r \in Task, AttemptFails(r) PROVE FALSE
  <2>1. pc' = pc \/ Finish(r, IF retried[r] THEN "invalidSignature" ELSE "unavailable")
    BY <1>7 DEF AttemptFails
  <2>2. pc[r] = "fetching"
    BY <1>7 DEF AttemptFails
  <2> QED
    BY <1>1, <1>3, <2>1, <2>2
<1>8. ASSUME NEW r \in Task, AfterRefresh(r) PROVE FALSE
  <2>1. \/ \E label : Goto(r, label)
        \/ \E what : Finish(r, what)
    BY <1>8 DEF AfterRefresh
  <2>2. pc[r] = "after"
    BY <1>8 DEF AfterRefresh
  <2> QED
    BY <1>2, <1>3, <2>1, <2>2
<1>9. ASSUME NEW r \in Request, Handles(r) PROVE FALSE
  <2>1. \/ \E label : Goto(r, label)
        \/ \E what : Finish(r, what)
    BY <1>9 DEF Handles, LookupKey, Decode
  <2>2. pc[r] \in {"lookup", "decode"}
    BY <1>9 DEF Handles, LookupKey, Decode
  <2> QED
    BY <1>0, <1>2, <1>3, <2>1, <2>2
<1>10. ASSUME NEW r \in Request, NEW k \in Kid, NEW v \in 1..MaxVersion, Arrive(r, k, v)
       PROVE  FALSE
  BY <1>0, <1>2, <1>10 DEF Arrive
<1>11. ~BackgroundWakes
  BY <1>0, <1>2 DEF BackgroundWakes
<1>12. PICK r \in Task : Install(r)
  <2>1. Next
    BY <1>1 DEF vars
  <2> QED
    BY <2>1, <1>4, <1>5, <1>6, <1>7, <1>8, <1>9, <1>10, <1>11 DEF Next, Runs
<1>13. r = t
  BY <1>0, <1>12 DEF Install, Goto
<1> QED
  BY <1>12, <1>13

(* In every behaviour the state keeps its types.                             *)
THEOREM KeyTypes == Spec => []TypeOK
<1>1. Spec => []KeyInv
  BY KeyInit, KeyStep, PTL DEF Spec
<1> QED
  BY <1>1, PTL DEF KeyInv

(* _fetch_lock: no two tasks are between its acquisition and its release,    *)
(* whichever of them failed, was handed the lock, or found the keys fresh.   *)
THEOREM OneTaskFetches ==
    Spec => [](\A t, r \in Task : Holds(t) /\ Holds(r) => t = r)
<1>1. Spec => []KeyInv
  BY KeyInit, KeyStep, PTL DEF Spec
<1>2. KeyInv => \A t, r \in Task : Holds(t) /\ Holds(r) => t = r
  BY DEF KeyInv, LockInv
<1> QED
  BY <1>1, <1>2, PTL

(* Only keys of the endpoint that is configured at that moment are ever      *)
(* installed, whatever the answer of the fetch was overtaken by.             *)
THEOREM KeysOfCurrentUrl == Spec => InstalledFromCurrentUrl
<1>1. Spec => []KeyInv
  BY KeyInit, KeyStep, PTL DEF Spec
<1>2. ASSUME KeyInv, [Next]_vars, NEW t \in Task,
             pc[t] = "answered", pc'[t] = "after",
             <<keys, fetchedAt>>' # <<keys, fetchedAt>>
      PROVE  from[t] = url /\ keys' = body[t]
  <2>1. Install(t)
    BY <1>2, OnlyInstall DEF KeyInv
  <2>2. gen[t] = generation /\ keys' = body[t]
    BY <1>2, <2>1 DEF Install, manager
  <2> QED
    BY <1>2, <2>2 DEF KeyInv, FetchInv
<1>3. KeyInv /\ [Next]_vars =>
        [\A t \in Task :
          /\ pc[t] = "answered" /\ pc'[t] = "after"
          /\ <<keys, fetchedAt>>' # <<keys, fetchedAt>>
          => from[t] = url /\ keys' = body[t]]_vars
  BY <1>2
<1> QED
  BY <1>1, <1>3, PTL DEF Spec, InstalledFromCurrentUrl
-----------------------------------------------------------------------------
(* Why a key that is used is current, and a key that is served is accepted.  *)

Label == {"idle", "lookup", "refresh", "queued", "entered", "fetching", "answered",
          "after", "decode", "replied"}

\* where a task goes on without suspending, and where it is past the refresh
RunsOn == {"lookup", "refresh", "entered", "after", "decode"}
HasKeys(t) == pc[t] \in {"after", "decode"}

\* Between two suspensions a task is alone.
AloneInv == \A t \in Task : pc[t] \in RunsOn <=> active = t

\* A fetch is under way only for keys that are missing or too old, and while
\* one is nobody gets past its refresh, unless a reload overtook the fetch.
NeededInv ==
    \A r \in Task : Fetches(r) /\ ~overtaken[r] =>
        /\ ~(Fresh /\ keys # NoKeys)
        /\ \A t \in Task : ~HasKeys(t)

\* The keys are young, or just fetched; that they are not invalidated shows
\* only once the host is up for a lifetime.
Current == (Fresh \/ fetchedAt = now) /\ (~dirty \/ now < ttl)

AgeInv ==
    /\ dirty => fetchedAt = 0
    /\ \A t \in Request : HasKeys(t) => Current \/ overtaken[t]

\* t has invalidated the keys, which it may do twice, and waits for its answer
Insists(t) == Pending(t) /\ steady[t] /\ (second[t] \/ retried[t])

\* What was, or will be, installed after t invalidated the keys has its key.
InsistInv ==
    \A t \in Request : Insists(t) =>
        /\ ~dirty => keys[kid[t]] = signed[t]
        /\ \A r \in Task : pc[r] = "answered" /\ gen[r] = generation =>
                              body[r][kid[t]] = signed[t]

\* The life of a request.
LifeInv ==
    \A t \in Request :
        /\ Pending(t) => signed[t] # 0 /\ (steady[t] => Served(t, served, url))
        /\ pc[t] = "idle" => ~second[t] /\ ~retried[t]
        /\ pc[t] # "replied" => reply[t] = "none"

\* the inductive invariant
ServeInv == AloneInv /\ NeededInv /\ NoFetchDiscarded /\ AgeInv /\ InsistInv /\ LifeInv
-----------------------------------------------------------------------------
LEMMA ServeInit == Init => ServeInv
<1> SUFFICES ASSUME Init PROVE ServeInv
  OBVIOUS
<1>1. \A t \in Task : pc[t] = "idle" /\ t # None
  BY JwksConstants DEF Init
<1>2. \A t \in Request : pc[t] = "idle"
  BY <1>1 DEF Task
<1>3. AloneInv
  BY <1>1 DEF Init, AloneInv, RunsOn
<1>4. NeededInv /\ NoFetchDiscarded
  BY <1>1 DEF NeededInv, NoFetchDiscarded, Fetches
<1>5. AgeInv
  BY <1>2, JwksConstants DEF Init, AgeInv, HasKeys
<1>6. InsistInv
  BY <1>2 DEF InsistInv, Insists, Pending
<1>7. LifeInv
  BY <1>2 DEF Init, LifeInv, Pending, Refused, Task
<1> QED
  BY <1>3, <1>4, <1>5, <1>6, <1>7 DEF ServeInv

(* What the types say of the variables the invariant is about.               *)
LEMMA ServeTypes ==
    ASSUME KeyInv
    PROVE  /\ pc \in [Task -> Label] /\ overtaken \in [Task -> BOOLEAN]
           /\ gen \in [Task -> Nat] /\ generation \in Nat
           /\ now \in Nat /\ fetchedAt \in 0..now /\ ttl \in Nat /\ ttl \in Ttls
           /\ BootTime \in Nat
           /\ second \in [Task -> BOOLEAN] /\ retried \in [Task -> BOOLEAN]
           /\ steady \in [Request -> BOOLEAN] /\ failed \in [Request -> BOOLEAN]
           /\ dirty \in BOOLEAN /\ \A t \in Request : t \in Task
           /\ body \in [Task -> [Kid -> Version]] /\ keys \in [Kid -> Version]
           /\ signed \in [Request -> Version] /\ kid \in [Request -> Kid \cup {None}]
           /\ reply \in [Request -> {"none", "ok", "unknownKid", "unavailable",
                                     "invalidSignature"}]
           /\ Request \subseteq Task /\ Background \in Task /\ Background \notin Request
           /\ None \notin Task
BY JwksConstants DEF KeyInv, TypeOK, Label, Task

(* Keys that are fresh were not invalidated, or the host has just booted.    *)
LEMMA FreshIsCurrent ==
    ASSUME KeyInv, AgeInv, Fresh
    PROVE  Current
BY ServeTypes DEF AgeInv, Current, Fresh

(* A task goes on to the next label and leaves all else as it is.            *)
LEMMA QuietStep ==
    ASSUME KeyInv, ServeInv, NEW t \in Task, NEW label \in Label,
           pc' = [pc EXCEPT ![t] = label],
           active \in {t, None}, active' = IF label \in RunsOn THEN t ELSE None,
           UNCHANGED <<environment, now, settings, manager, token, progress, fetch,
                       reply, history>>,
           label \notin {"fetching", "answered", "replied"},
           t \in Request => label # "idle" /\ Pending(t),
           label \in {"after", "decode"} =>
               /\ \A r \in Task \ {t} : Fetches(r) => overtaken[r]
               /\ t \in Request => Current \/ overtaken[t]
    PROVE  ServeInv'
<1>0. /\ UNCHANGED <<served, now, url, ttl, keys, fetchedAt, generation, dirty, kid,
                     signed, second, retried, gen, body, reply, steady, failed,
                     overtaken>>
      /\ pc'[t] = label /\ \A r \in Task \ {t} : pc'[r] = pc[r]
      /\ AloneInv /\ NeededInv /\ NoFetchDiscarded /\ AgeInv /\ InsistInv /\ LifeInv
  BY ServeTypes
     DEF environment, settings, manager, token, progress, fetch, history, ServeInv
<1>1. AloneInv'
  BY <1>0, ServeTypes DEF AloneInv
<1>2. NeededInv' /\ NoFetchDiscarded'
  <2>1. \A r \in Task : Fetches(r)' => Fetches(r) /\ r # t
    BY <1>0 DEF Fetches
  <2>2. \A r \in Task \ {t} : HasKeys(r)' => HasKeys(r)
    BY <1>0 DEF HasKeys
  <2>3. HasKeys(t)' => \A r \in Task \ {t} : Fetches(r) => overtaken[r]
    BY <1>0 DEF HasKeys
  <2>4. Fresh' = Fresh
    BY <1>0 DEF Fresh
  <2> QED
    BY <1>0, <2>1, <2>2, <2>3, <2>4 DEF NeededInv, NoFetchDiscarded
<1>3. AgeInv'
  BY <1>0, ServeTypes DEF AgeInv, HasKeys, Current, Fresh
<1>4. InsistInv'
  BY <1>0, ServeTypes DEF InsistInv, Insists, Pending
<1>5. LifeInv'
  BY <1>0, ServeTypes DEF LifeInv, Pending, Served, Refused
<1> QED
  BY <1>1, <1>2, <1>3, <1>4, <1>5 DEF ServeInv

(* Waiting for the lock, being handed it, finding fresh keys, looking up the *)
(* key, and the timer of the background task.                                *)
LEMMA QuietSteps ==
    ASSUME KeyInv, ServeInv, NEW t \in Task,
           \/ AcquireLock(t) \/ LockHandedOver(t) \/ AlreadyFresh(t)
           \/ t \in Request /\ LookupKey(t)
           \/ t = Background /\ BackgroundWakes
    PROVE  ServeInv'
<1>0. AloneInv /\ NeededInv /\ AgeInv /\ LockInv /\ TokenInv
  BY DEF ServeInv, KeyInv
<1>1. CASE AcquireLock(t)
  <2> DEFINE label == IF lockq = <<>> THEN "entered" ELSE "queued"
  <2>1. /\ pc[t] = "refresh" /\ active = t
        /\ pc' = [pc EXCEPT ![t] = label]
        /\ active' = IF label \in RunsOn THEN t ELSE None
        /\ UNCHANGED <<environment, now, settings, manager, token, progress, fetch,
                       reply, history>>
    BY <1>1 DEF AcquireLock, Goto, RunsOn
  <2>2. label \in {"entered", "queued"} /\ label \in Label
    BY DEF Label
  <2> HIDE DEF label
  <2> QED
    BY <2>1, <2>2, QuietStep DEF Pending
<1>2. CASE LockHandedOver(t)
  <2>1. /\ pc[t] = "queued" /\ active = None
        /\ pc' = [pc EXCEPT ![t] = "entered"] /\ active' = t
        /\ UNCHANGED <<environment, now, settings, manager, token, progress, fetch,
                       reply, history>>
    BY <1>2 DEF LockHandedOver, Goto
  <2> QED
    BY <2>1, QuietStep DEF Label, RunsOn, Pending
<1>3. CASE AlreadyFresh(t)
  <2>1. /\ pc[t] = "entered" /\ active = t /\ Fresh
        /\ pc' = [pc EXCEPT ![t] = "after"] /\ active' = active
        /\ UNCHANGED <<environment, now, settings, manager, token, progress, fetch,
                       reply, history>>
    BY <1>3 DEF AlreadyFresh, Goto
  <2>2. \A r \in Task \ {t} : ~Fetches(r)
    <3>1. Holds(t)
      BY <2>1 DEF Holds
    <3> QED
      BY <1>0, <3>1 DEF LockInv, Holds, Fetches
  <2>3. Current
    BY <1>0, <2>1, FreshIsCurrent
  <2> QED
    BY <2>1, <2>2, <2>3, QuietStep DEF Label, RunsOn, Pending
<1>4. CASE t \in Request /\ LookupKey(t)
  <2> DEFINE label == IF keys[kid[t]] # 0 /\ Fresh THEN "decode" ELSE "refresh"
  <2>1. /\ pc[t] = "lookup" /\ active = t
        /\ pc' = [pc EXCEPT ![t] = label] /\ active' = active
        /\ UNCHANGED <<environment, now, settings, manager, token, progress, fetch,
                       reply, history>>
    BY <1>4 DEF LookupKey, Goto
  <2>2. /\ label \in {"decode", "refresh"} /\ label \in Label
        /\ label = "decode" => keys[kid[t]] # 0 /\ Fresh
    BY DEF Label
  <2>3. label = "decode" => keys # NoKeys
    <3>1. kid[t] \in Kid
      BY <1>0, <1>4, <2>1 DEF TokenInv
    <3> QED
      BY <2>2, <3>1 DEF NoKeys
  <2> HIDE DEF label
  <2>4. label = "decode" => \A r \in Task : Fetches(r) => overtaken[r]
    BY <1>0, <2>2, <2>3 DEF NeededInv
  <2>5. label = "decode" => Current
    BY <1>0, <2>2, FreshIsCurrent
  <2>6. /\ label \in RunsOn /\ label \notin {"fetching", "answered", "replied", "idle"}
        /\ label \in {"after", "decode"} => label = "decode"
    BY <2>2 DEF RunsOn
  <2> QED
    BY <2>1, <2>2, <2>4, <2>5, <2>6, QuietStep DEF Pending
<1>5. CASE t = Background /\ BackgroundWakes
  <2>1. /\ active = None /\ pc' = [pc EXCEPT ![t] = "refresh"] /\ active' = t
        /\ UNCHANGED <<environment, now, settings, manager, token, progress, fetch,
                       reply, history>>
    BY <1>5 DEF BackgroundWakes, Goto
  <2> QED
    BY <1>5, <2>1, ServeTypes, QuietStep DEF Label, RunsOn
<1> QED
  BY <1>1, <1>2, <1>3, <1>4, <1>5

(* A request arrives.                                                        *)
LEMMA ArriveStep ==
    ASSUME KeyInv, ServeInv, NEW t \in Request, NEW k \in Kid,
           NEW v \in 1..MaxVersion, Arrive(t, k, v)
    PROVE  ServeInv'
<1>0. /\ pc[t] = "idle" /\ active = None
      /\ pc' = [pc EXCEPT ![t] = "lookup"] /\ active' = t
      /\ kid' = [kid EXCEPT ![t] = k] /\ signed' = [signed EXCEPT ![t] = v]
      /\ steady' = [steady EXCEPT ![t] = (served[url][k] = v)]
      /\ UNCHANGED <<served, now, url, ttl, keys, fetchedAt, generation, dirty,
                     second, retried, gen, body, reply, failed, overtaken>>
      /\ v # 0 /\ t \in Task
      /\ AloneInv /\ NeededInv /\ NoFetchDiscarded /\ AgeInv /\ InsistInv /\ LifeInv
  BY ServeTypes, JwksConstants
     DEF Arrive, Goto, environment, settings, manager, progress, fetch, history, ServeInv
<1>1. /\ pc'[t] = "lookup" /\ \A r \in Task \ {t} : pc'[r] = pc[r]
      /\ kid'[t] = k /\ signed'[t] = v /\ steady'[t] = (served[url][k] = v)
      /\ \A r \in Request \ {t} : /\ kid'[r] = kid[r] /\ signed'[r] = signed[r]
                                  /\ steady'[r] = steady[r] /\ r \in Task
  BY <1>0, ServeTypes
<1>2. AloneInv'
  BY <1>0, <1>1, ServeTypes DEF AloneInv, RunsOn
<1>3. NeededInv' /\ NoFetchDiscarded'
  BY <1>0, <1>1 DEF NeededInv, NoFetchDiscarded, Fetches, HasKeys, Fresh
<1>4. AgeInv'
  BY <1>0, <1>1 DEF AgeInv, HasKeys, Current, Fresh
<1>5. InsistInv'
  <2>1. ~second[t] /\ ~retried[t]
    BY <1>0 DEF LifeInv
  <2> QED
    BY <1>0, <1>1, <2>1 DEF InsistInv, Insists, Pending
<1>6. LifeInv'
  <2> DEFINE Lives(q) ==
        /\ Pending(q) => signed[q] # 0 /\ (steady[q] => Served(q, served, url))
        /\ pc[q] = "idle" => ~second[q] /\ ~retried[q]
        /\ pc[q] # "replied" => reply[q] = "none"
  <2>1. Lives(t)'
    <3>1. reply[t] = "none"
      BY <1>0 DEF LifeInv
    <3> QED
      BY <1>0, <1>1, <3>1 DEF Served, Refused
  <2>2. ASSUME NEW q \in Request \ {t} PROVE Lives(q)'
    <3>1. Lives(q)
      BY <1>0 DEF LifeInv
    <3> QED
      BY <1>0, <1>1, <3>1 DEF Served, Refused, Pending
  <2> QED
    BY <2>1, <2>2 DEF LifeInv
<1> QED
  BY <1>2, <1>3, <1>4, <1>5, <1>6 DEF ServeInv

(* A task starts to fetch.                                                   *)
LEMMA StartFetchStep ==
    ASSUME KeyInv, ServeInv, NEW t \in Task, StartFetch(t)
    PROVE  ServeInv'
<1>0. /\ pc[t] = "entered" /\ active = t /\ ~(Fresh /\ keys # NoKeys)
      /\ pc' = [pc EXCEPT ![t] = "fetching"] /\ active' = None
      /\ gen' = [gen EXCEPT ![t] = generation]
      /\ overtaken' = [overtaken EXCEPT ![t] = FALSE]
      /\ UNCHANGED <<served, now, url, ttl, keys, fetchedAt, generation, dirty, kid,
                     signed, second, retried, body, reply, steady, failed>>
      /\ AloneInv /\ NeededInv /\ NoFetchDiscarded /\ AgeInv /\ InsistInv /\ LifeInv
  BY DEF StartFetch, Goto, environment, settings, manager, token, progress, ServeInv
<1>1. /\ pc'[t] = "fetching" /\ gen'[t] = generation /\ ~overtaken'[t]
      /\ \A r \in Task \ {t} : /\ pc'[r] = pc[r] /\ gen'[r] = gen[r]
                               /\ overtaken'[r] = overtaken[r]
  BY <1>0, ServeTypes
<1>2. \A r \in Task : ~HasKeys(r)'
  BY <1>0, <1>1 DEF AloneInv, HasKeys, RunsOn
<1>3. AloneInv'
  BY <1>0, <1>1, ServeTypes DEF AloneInv, RunsOn
<1>4. NeededInv' /\ NoFetchDiscarded'
  BY <1>0, <1>1, <1>2 DEF NeededInv, NoFetchDiscarded, Fetches, Fresh
<1>5. AgeInv'
  BY <1>0, <1>2, ServeTypes DEF AgeInv
<1>6. InsistInv'
  BY <1>0, <1>1, ServeTypes DEF InsistInv, Insists, Pending
<1>7. LifeInv'
  BY <1>0, <1>1, ServeTypes DEF LifeInv, Pending, Served, Refused
<1> QED
  BY <1>3, <1>4, <1>5, <1>6, <1>7 DEF ServeInv

(* The endpoint answers: what it serves is what steady requests need.        *)
LEMMA AnswerStep ==
    ASSUME KeyInv, ServeInv, NEW t \in Task, Answer(t)
    PROVE  ServeInv'
<1>0. /\ pc[t] = "fetching" /\ active = None /\ active' = None
      /\ pc' = [pc EXCEPT ![t] = "answered"]
      /\ body' = [body EXCEPT ![t] = served[from[t]]]
      /\ UNCHANGED <<served, now, url, ttl, keys, fetchedAt, generation, dirty, kid,
                     signed, second, retried, gen, reply, steady, failed, overtaken>>
      /\ AloneInv /\ NeededInv /\ NoFetchDiscarded /\ AgeInv /\ InsistInv /\ LifeInv
      /\ FetchInv
  BY DEF Answer, Goto, environment, settings, manager, token, progress, history,
         ServeInv, KeyInv
<1>1. /\ pc'[t] = "answered" /\ body'[t] = served[from[t]]
      /\ \A r \in Task \ {t} : pc'[r] = pc[r] /\ body'[r] = body[r]
  BY <1>0, ServeTypes
<1>2. AloneInv'
  BY <1>0, <1>1, ServeTypes DEF AloneInv, RunsOn
<1>3. NeededInv' /\ NoFetchDiscarded'
  BY <1>0, <1>1 DEF NeededInv, NoFetchDiscarded, Fetches, HasKeys, Fresh
<1>4. AgeInv'
  BY <1>0, <1>1, ServeTypes DEF AgeInv, HasKeys, Current, Fresh
<1>5. InsistInv'
  <2> SUFFICES ASSUME NEW q \in Request, Insists(q)'
               PROVE  /\ ~dirty => keys[kid[q]] = signed[q]
                      /\ \A r \in Task : pc'[r] = "answered" /\ gen[r] = generation =>
                                            body'[r][kid[q]] = signed[q]
    BY <1>0 DEF InsistInv
  <2>1. Insists(q)
    BY <1>0, <1>1, ServeTypes DEF Insists, Pending
  <2>2. served[url][kid[q]] = signed[q]
    BY <1>0, <2>1 DEF LifeInv, Insists, Served
  <2>3. gen[t] = generation => from[t] = url
    BY <1>0 DEF FetchInv
  <2> QED
    BY <1>0, <1>1, <2>1, <2>2, <2>3 DEF InsistInv
<1>6. LifeInv'
  BY <1>0, <1>1, ServeTypes DEF LifeInv, Pending, Served, Refused
<1> QED
  BY <1>2, <1>3, <1>4, <1>5, <1>6 DEF ServeInv

(* A request or the background task ends, outside the lock or having left it.*)
LEMMA FinishStep ==
    ASSUME KeyInv, ServeInv, NEW t \in Task, NEW what, Finish(t, what),
           pc[t] \in {"fetching", "after", "decode"},
           active \in {t, None}, active' = None,
           UNCHANGED <<environment, now, settings, manager, token, progress, steady,
                       overtaken>>,
           \A r \in Task \ {t} : gen'[r] = gen[r] /\ body'[r] = body[r],
           \A r \in Request : failed[r] => failed'[r]
    PROVE  ServeInv'
<1>0. /\ UNCHANGED <<served, now, url, ttl, keys, fetchedAt, generation, dirty, kid,
                     signed, second, retried, steady, overtaken>>
      /\ AloneInv /\ NeededInv /\ NoFetchDiscarded /\ AgeInv /\ InsistInv /\ LifeInv
  BY DEF environment, settings, manager, token, progress, ServeInv
<1>1. /\ pc' = [pc EXCEPT ![t] = IF t = Background THEN "idle" ELSE "replied"]
      /\ t # Background => reply' = [reply EXCEPT ![t] = what]
      /\ t = Background => reply' = reply
  BY DEF Finish, Goto
<1>2. /\ pc'[t] \in {"idle", "replied"} /\ \A r \in Task \ {t} : pc'[r] = pc[r]
      /\ t \in Request => pc'[t] = "replied" /\ reply'[t] = what
      /\ \A r \in Request \ {t} : reply'[r] = reply[r]
  BY <1>1, ServeTypes
<1>3. AloneInv'
  BY <1>0, <1>2, ServeTypes DEF AloneInv, RunsOn
<1>4. NeededInv' /\ NoFetchDiscarded'
  BY <1>0, <1>2 DEF NeededInv, NoFetchDiscarded, Fetches, HasKeys, Fresh
<1>5. AgeInv'
  BY <1>0, <1>2, ServeTypes DEF AgeInv, HasKeys, Current, Fresh
<1>6. InsistInv'
  <2>1. \A q \in Request : Insists(q)' => Insists(q)
    BY <1>0, <1>2, ServeTypes DEF Insists, Pending
  <2>2. \A r \in Task : pc'[r] = "answered" =>
                             pc[r] = "answered" /\ gen'[r] = gen[r] /\ body'[r] = body[r]
    BY <1>2
  <2> QED
    BY <1>0, <2>1, <2>2 DEF InsistInv
<1>7. LifeInv'
  <2> DEFINE Lives(q) ==
        /\ Pending(q) => signed[q] # 0 /\ (steady[q] => Served(q, served, url))
        /\ pc[q] = "idle" => ~second[q] /\ ~retried[q]
        /\ pc[q] # "replied" => reply[q] = "none"
  <2>1. ASSUME t \in Request PROVE Lives(t)'
    <3>1. ~Pending(t)' /\ pc'[t] = "replied"
      BY <1>2, <2>1 DEF Pending
    <3> QED
      BY <1>0, <2>1, <3>1
  <2>2. ASSUME NEW q \in Request \ {t} PROVE Lives(q)'
    <3>1. Lives(q)
      BY <1>0 DEF LifeInv
    <3> QED
      BY <1>0, <1>2, <3>1, ServeTypes DEF Served, Refused, Pending
  <2> QED
    BY <2>1, <2>2 DEF LifeInv
<1> QED
  BY <1>3, <1>4, <1>5, <1>6, <1>7 DEF ServeInv

(* A request that got past its refresh invalidates the keys: no fetch that   *)
(* counts is under way, and what counts from now on began after it.          *)
LEMMA InvalidateStep ==
    ASSUME KeyInv, ServeInv, NEW t \in Request, HasKeys(t), Invalidate,
           NEW label \in {"lookup", "refresh"}, Goto(t, label),
           active = t, active' = active,
           UNCHANGED <<environment, now, settings, token, fetch, history, reply>>,
           \A r \in Request \ {t} : second'[r] = second[r] /\ retried'[r] = retried[r]
    PROVE  ServeInv'
<1>0. /\ UNCHANGED <<served, now, url, ttl, keys, kid, signed, gen, body, steady,
                     failed, overtaken>>
      /\ fetchedAt' = 0 /\ generation' = generation + 1 /\ dirty' = TRUE
      /\ AloneInv /\ NeededInv /\ NoFetchDiscarded /\ AgeInv /\ InsistInv /\ LifeInv
      /\ FetchInv /\ t \in Task
  BY ServeTypes
     DEF environment, settings, token, fetch, history, Invalidate, ServeInv, KeyInv
<1>1. pc'[t] = label /\ \A r \in Task \ {t} : pc'[r] = pc[r]
  BY ServeTypes DEF Goto
<1>2. \A r \in Task : Fetches(r)' => Fetches(r) /\ overtaken[r]
  BY <1>0, <1>1 DEF NeededInv, Fetches
<1>3. AloneInv'
  BY <1>0, <1>1 DEF AloneInv, RunsOn, HasKeys
<1>4. NeededInv' /\ NoFetchDiscarded'
  BY <1>0, <1>2 DEF NeededInv, NoFetchDiscarded
<1>5. AgeInv'
  <2>1. \A r \in Task : ~HasKeys(r)'
    BY <1>0, <1>1 DEF AloneInv, RunsOn, HasKeys
  <2> QED
    BY <1>0, <2>1, ServeTypes DEF AgeInv
<1>6. InsistInv'
  <2>1. \A r \in Task : pc'[r] = "answered" => gen'[r] # generation'
    <3>1. \A r \in Task : pc'[r] = "answered" => gen[r] <= generation
      BY <1>0, <1>1 DEF FetchInv
    <3> QED
      BY <1>0, <3>1, ServeTypes
  <2> QED
    BY <1>0, <2>1 DEF InsistInv
<1>7. LifeInv'
  BY <1>0, <1>1, ServeTypes DEF LifeInv, Pending, Served, Refused, HasKeys
<1> QED
  BY <1>3, <1>4, <1>5, <1>6, <1>7 DEF ServeInv

(* A fetch ends: with all attempts failed, or with keys that may count.      *)
LEMMA FailStep ==
    ASSUME KeyInv, ServeInv, NEW t \in Task, AttemptFails(t)
    PROVE  ServeInv'
<1>0. /\ pc[t] = "fetching" /\ active = None /\ active' = None
      /\ failed' = [r \in Request |-> failed[r] \/ r = t]
      /\ UNCHANGED <<environment, now, settings, manager, token, progress, steady,
                     overtaken>>
  BY DEF AttemptFails
<1>1. /\ \A r \in Request : failed[r] => failed'[r]
      /\ t \in Request => failed'[t]
  BY <1>0
<1>2. CASE UNCHANGED <<pc, reply, gen, from, body>>
  <2>0. /\ UNCHANGED <<served, now, url, ttl, keys, fetchedAt, generation, dirty, kid,
                       signed, second, retried, steady, overtaken, pc, reply, gen,
                       body, active>>
        /\ AloneInv /\ NeededInv /\ NoFetchDiscarded /\ AgeInv /\ InsistInv /\ LifeInv
    BY <1>0, <1>2 DEF environment, settings, manager, token, progress, ServeInv
  <2>1. AloneInv' /\ NeededInv' /\ NoFetchDiscarded' /\ AgeInv'
    BY <2>0 DEF AloneInv, NeededInv, NoFetchDiscarded, AgeInv, Fetches, HasKeys, Current, Fresh
  <2>2. InsistInv' /\ LifeInv'
    BY <1>1, <2>0 DEF InsistInv, Insists, LifeInv, Pending, Served, Refused
  <2> QED
    BY <2>1, <2>2 DEF ServeInv
<1>3. CASE Finish(t, IF retried[t] THEN "invalidSignature" ELSE "unavailable") /\ NoFetch(t)
  <2>1. \A r \in Task \ {t} : gen'[r] = gen[r] /\ body'[r] = body[r]
    BY <1>3, ServeTypes DEF NoFetch
  <2> QED
    BY <1>0, <1>1, <1>3, <2>1, FinishStep
<1> QED
  BY <1>2, <1>3 DEF AttemptFails

LEMMA InstallStep ==
    ASSUME KeyInv, ServeInv, NEW t \in Task, Install(t)
    PROVE  ServeInv'
<1>0. /\ pc[t] = "answered" /\ active = None /\ active' = t
      /\ pc' = [pc EXCEPT ![t] = "after"] /\ NoFetch(t)
      /\ UNCHANGED <<served, now, url, ttl, kid, signed, second, retried, reply, steady,
                     failed, overtaken>>
      /\ generation' = generation
      /\ IF gen[t] = generation
         THEN keys' = body[t] /\ fetchedAt' = now /\ dirty' = FALSE
         ELSE UNCHANGED <<keys, fetchedAt, dirty>>
      /\ AloneInv /\ NeededInv /\ NoFetchDiscarded /\ AgeInv /\ InsistInv /\ LifeInv
      /\ LockInv
  BY DEF Install, Goto, environment, settings, manager, token, progress, history,
         ServeInv, KeyInv
<1>1. /\ pc'[t] = "after" /\ \A r \in Task \ {t} : pc'[r] = pc[r]
      /\ \A r \in Task \ {t} : gen'[r] = gen[r] /\ body'[r] = body[r]
  BY <1>0, ServeTypes DEF NoFetch
<1>2. \A r \in Task : ~Fetches(r)'
  BY <1>0, <1>1 DEF LockInv, Holds, Fetches
<1>3. AloneInv'
  BY <1>0, <1>1, ServeTypes DEF AloneInv, RunsOn
<1>4. NeededInv' /\ NoFetchDiscarded'
  BY <1>2 DEF NeededInv, NoFetchDiscarded
<1>5. AgeInv'
  <2>1. dirty' => fetchedAt' = 0
    BY <1>0 DEF AgeInv
  <2>2. \A r \in Task \ {t} : ~HasKeys(r)'
    BY <1>0, <1>1, ServeTypes DEF AloneInv, RunsOn, HasKeys
  <2>3. Current' \/ overtaken'[t]
    <3>1. CASE gen[t] = generation
      BY <1>0, <3>1 DEF Current
    <3>2. CASE gen[t] # generation
      BY <1>0, <3>2 DEF NoFetchDiscarded, Fetches
    <3> QED
      BY <3>1, <3>2
  <2> QED
    BY <2>1, <2>2, <2>3, ServeTypes DEF AgeInv
<1>6. InsistInv'
  <2>1. \A r \in Task : pc'[r] # "answered"
    BY <1>2 DEF Fetches
  <2>2. ASSUME NEW q \in Request, Insists(q)', ~dirty'
        PROVE  keys'[kid[q]] = signed[q]
    <3>1. Insists(q)
      BY <1>0, <1>1, <2>2, ServeTypes DEF Insists, Pending
    <3> QED
      BY <1>0, <2>2, <3>1 DEF InsistInv
  <2> QED
    BY <1>0, <2>1, <2>2 DEF InsistInv
<1>7. LifeInv'
  BY <1>0, <1>1, ServeTypes DEF LifeInv, Pending, Served, Refused
<1> QED
  BY <1>3, <1>4, <1>5, <1>6, <1>7 DEF ServeInv

(* Past a refresh, or with the token checked.                                *)
LEMMA AfterStep ==
    ASSUME KeyInv, ServeInv, NEW t \in Task, AfterRefresh(t)
    PROVE  ServeInv'
<1>0. /\ pc[t] = "after" /\ active = t
      /\ UNCHANGED <<environment, now, settings, token, retried, fetch, history>>
      /\ AloneInv /\ NeededInv /\ AgeInv /\ LifeInv /\ TokenInv
  BY DEF AfterRefresh, ServeInv, KeyInv
<1>1. CASE /\ t = Background /\ Finish(t, "none") /\ active' = None
           /\ UNCHANGED <<manager, second>>
  <2>1. /\ \A r \in Task \ {t} : gen'[r] = gen[r] /\ body'[r] = body[r]
        /\ failed' = failed /\ UNCHANGED <<progress, steady, overtaken>>
    BY <1>0, <1>1 DEF fetch, history, progress
  <2> QED
    BY <1>0, <1>1, <2>1, FinishStep
<1>2. CASE /\ t # Background /\ keys[kid[t]] # 0 /\ Goto(t, "decode")
           /\ UNCHANGED <<manager, second, active, reply, wake>>
  <2>1. /\ pc' = [pc EXCEPT ![t] = "decode"] /\ UNCHANGED progress
        /\ t \in Request /\ Pending(t)
    BY <1>0, <1>2 DEF Goto, progress, Task, Pending
  <2>2. \A r \in Task : Fetches(r) => overtaken[r]
    BY <1>0 DEF NeededInv, HasKeys
  <2>3. Current \/ overtaken[t]
    BY <1>0, <2>1 DEF AgeInv, HasKeys
  <2> QED
    BY <1>0, <1>2, <2>1, <2>2, <2>3, QuietStep DEF Label, RunsOn
<1>3. CASE /\ t # Background /\ second' = [second EXCEPT ![t] = TRUE]
           /\ Invalidate /\ Goto(t, "refresh") /\ UNCHANGED <<active, reply, wake>>
  <2>1. t \in Request /\ HasKeys(t)
    BY <1>0, <1>3 DEF Task, HasKeys
  <2>2. \A r \in Request \ {t} : second'[r] = second[r] /\ retried'[r] = retried[r]
    BY <1>0, <1>3, ServeTypes
  <2> QED
    BY <1>0, <1>3, <2>1, <2>2, InvalidateStep
<1>4. CASE /\ t # Background /\ keys[kid[t]] = 0 /\ second[t]
           /\ Finish(t, IF retried[t] THEN "invalidSignature" ELSE "unknownKid")
           /\ active' = None /\ UNCHANGED <<manager, second>>
  <2>1. /\ \A r \in Task \ {t} : gen'[r] = gen[r] /\ body'[r] = body[r]
        /\ failed' = failed /\ UNCHANGED <<progress, steady, overtaken>>
    BY <1>0, <1>4 DEF fetch, history, progress
  <2> QED
    BY <1>0, <1>4, <2>1, FinishStep
<1> QED
  BY <1>1, <1>2, <1>3, <1>4 DEF AfterRefresh

LEMMA DecodeStep ==
    ASSUME KeyInv, ServeInv, NEW t \in Request, Decode(t)
    PROVE  ServeInv'
<1>0. /\ pc[t] = "decode" /\ active = t /\ t \in Task
      /\ UNCHANGED <<environment, now, settings, token, fetch, history>>
  BY ServeTypes DEF Decode
<1>1. ASSUME NEW what, Finish(t, what), active' = None, UNCHANGED <<manager, progress>>
      PROVE  ServeInv'
  <2>1. /\ \A r \in Task \ {t} : gen'[r] = gen[r] /\ body'[r] = body[r]
        /\ failed' = failed /\ UNCHANGED <<steady, overtaken>>
    BY <1>0 DEF fetch, history
  <2> QED
    BY <1>0, <1>1, <2>1, FinishStep
<1>2. CASE /\ Invalidate /\ retried' = [retried EXCEPT ![t] = TRUE]
           /\ second' = [second EXCEPT ![t] = FALSE]
           /\ Goto(t, "lookup") /\ UNCHANGED <<active, reply, wake>>
  <2>1. \A r \in Request \ {t} : second'[r] = second[r] /\ retried'[r] = retried[r]
    BY <1>2, ServeTypes
  <2> QED
    BY <1>0, <1>2, <2>1, InvalidateStep DEF HasKeys
<1> QED
  BY <1>1, <1>2 DEF Decode

(* What happens around the tasks happens while all of them are suspended.    *)
LEMMA RotateStep ==
    ASSUME KeyInv, ServeInv, NEW u \in Url, NEW k \in Kid, NEW v \in Version,
           Rotate(u, k, v)
    PROVE  ServeInv'
<1>0. /\ UNCHANGED <<now, url, ttl, keys, fetchedAt, generation, dirty, active, pc, kid,
                     signed, second, retried, gen, body, reply, failed, overtaken>>
      /\ \A t \in Request :
            steady'[t] <=> steady[t] /\ (Pending(t) => Served(t, served', url))
      /\ AloneInv /\ NeededInv /\ NoFetchDiscarded /\ AgeInv /\ InsistInv /\ LifeInv
  BY DEF Rotate, settings, manager, token, progress, fetch, ServeInv
<1>1. AloneInv' /\ NeededInv' /\ NoFetchDiscarded' /\ AgeInv'
  BY <1>0 DEF AloneInv, NeededInv, NoFetchDiscarded, AgeInv, Fetches, HasKeys, Current, Fresh
<1>2. InsistInv' /\ LifeInv'
  BY <1>0 DEF InsistInv, Insists, LifeInv, Pending, Served, Refused
<1> QED
  BY <1>1, <1>2 DEF ServeInv

LEMMA TickStep ==
    ASSUME KeyInv, ServeInv, Tick
    PROVE  ServeInv'
<1>0. /\ UNCHANGED <<served, url, ttl, keys, fetchedAt, generation, dirty, active, pc,
                     kid, signed, second, retried, gen, body, reply, steady, failed,
                     overtaken>>
      /\ active = None /\ now' = now + 1
      /\ AloneInv /\ NeededInv /\ NoFetchDiscarded /\ AgeInv /\ InsistInv /\ LifeInv
  BY DEF Tick, environment, settings, manager, token, progress, fetch, history, ServeInv
<1>1. \A t \in Task : ~HasKeys(t)'
  BY <1>0, ServeTypes DEF AloneInv, RunsOn, HasKeys
<1>2. Fresh' => Fresh
  BY <1>0, ServeTypes DEF Fresh
<1>3. AloneInv' /\ NeededInv' /\ NoFetchDiscarded'
  BY <1>0, <1>1, <1>2 DEF AloneInv, NeededInv, NoFetchDiscarded, Fetches
<1>4. AgeInv'
  BY <1>0, <1>1, ServeTypes DEF AgeInv
<1>5. InsistInv' /\ LifeInv'
  BY <1>0 DEF InsistInv, Insists, LifeInv, Pending, Served, Refused
<1> QED
  BY <1>3, <1>4, <1>5 DEF ServeInv

LEMMA UpdateStep ==
    ASSUME KeyInv, ServeInv, NEW u \in Url, NEW n \in Ttls, UpdateConfig(u, n)
    PROVE  ServeInv'
<1>0. /\ UNCHANGED <<served, now, keys, active, pc, kid, signed, second, retried, gen,
                     body, reply, failed>>
      /\ active = None /\ url' = u /\ ttl' = n
      /\ fetchedAt' = 0 /\ generation' = generation + 1 /\ dirty' = TRUE
      /\ \A t \in Request :
            steady'[t] <=> steady[t] /\ (Pending(t) => Served(t, served, u))
      /\ \A t \in Task : overtaken'[t] <=> overtaken[t] \/ Fetches(t)
      /\ AloneInv /\ NeededInv /\ NoFetchDiscarded /\ AgeInv /\ InsistInv /\ LifeInv
  BY DEF UpdateConfig, environment, token, progress, fetch, ServeInv
<1>1. \A t \in Task : ~HasKeys(t)'
  BY <1>0, ServeTypes DEF AloneInv, RunsOn, HasKeys
<1>2. AloneInv' /\ NeededInv' /\ NoFetchDiscarded'
  BY <1>0 DEF AloneInv, NeededInv, NoFetchDiscarded, Fetches
<1>3. AgeInv'
  BY <1>0, <1>1, ServeTypes DEF AgeInv
<1>4. InsistInv'
  <2>1. \A r \in Task : pc'[r] = "answered" => gen'[r] # generation'
    <3>1. \A r \in Task : pc[r] = "answered" => gen[r] <= generation
      BY DEF KeyInv, FetchInv
    <3> QED
      BY <1>0, <3>1, ServeTypes
  <2> QED
    BY <1>0, <2>1 DEF InsistInv
<1>5. LifeInv'
  BY <1>0, ServeTypes DEF LifeInv, Pending, Served, Refused
<1> QED
  BY <1>2, <1>3, <1>4, <1>5 DEF ServeInv

(* Every step keeps the invariant.                                           *)
LEMMA ServeStep == KeyInv /\ ServeInv /\ [Next]_vars => ServeInv'
<1> SUFFICES ASSUME KeyInv, ServeInv, [Next]_vars PROVE ServeInv'
  OBVIOUS
<1>1. ASSUME NEW t \in Task, Runs(t) \/ Answer(t) \/ AttemptFails(t) PROVE ServeInv'
  BY <1>1, QuietSteps, StartFetchStep, InstallStep, AfterStep, AnswerStep, FailStep
     DEF Runs
<1>2. ASSUME NEW t \in Request, Handles(t) PROVE ServeInv'
  BY <1>2, QuietSteps, DecodeStep, ServeTypes DEF Handles
<1>3. CASE BackgroundWakes
  BY <1>3, QuietSteps, ServeTypes
<1>4. CASE UNCHANGED vars
  <2>1. /\ UNCHANGED <<served, now, url, ttl, keys, fetchedAt, generation, dirty, active,
                       pc, kid, signed, second, retried, gen, body, reply, steady,
                       failed, overtaken>>
        /\ AloneInv /\ NeededInv /\ NoFetchDiscarded /\ AgeInv /\ InsistInv /\ LifeInv
    BY <1>4 DEF vars, environment, settings, manager, token, progress, fetch, history,
                ServeInv
  <2>2. AloneInv' /\ NeededInv' /\ NoFetchDiscarded' /\ AgeInv'
    BY <2>1 DEF AloneInv, NeededInv, NoFetchDiscarded, AgeInv, Fetches, HasKeys, Current, Fresh
  <2>3. InsistInv' /\ LifeInv'
    BY <2>1 DEF InsistInv, Insists, LifeInv, Pending, Served, Refused
  <2> QED
    BY <2>2, <2>3 DEF ServeInv
<1> QED
  BY <1>1, <1>2, <1>3, <1>4, RotateStep, TickStep, UpdateStep, ArriveStep DEF Next

LEMMA KeysServe == Spec => [](KeyInv /\ ServeInv)
BY KeyInit, KeyStep, ServeInit, ServeStep, PTL DEF Spec

(* A fetch is thrown away only when a reload overtook it: no request that    *)
(* invalidates the keys does so while one is under way.                      *)
THEOREM FetchesCount == Spec => []NoFetchDiscarded
<1>1. KeyInv /\ ServeInv => NoFetchDiscarded
  BY DEF ServeInv
<1> QED
  BY <1>1, KeysServe, PTL

(* A token is checked with a key that is young enough, or just fetched, and  *)
(* that was not invalidated since it was fetched, unless a reload overtook   *)
(* the fetch of the request itself or the host is not yet up for a lifetime. *)
THEOREM KeysInUseAreCurrent == Spec => []KeyInUseIsCurrent
<1>1. KeyInv /\ ServeInv => KeyInUseIsCurrent
  BY DEF ServeInv, AgeInv, HasKeys, Current, KeyInUseIsCurrent
<1> QED
  BY <1>1, KeysServe, PTL

\* what a refusal in this step is due to
RefusalsAreDue ==
    \A t \in Request : ~Refused(t) /\ Refused(t)' =>
        ~steady[t] \/ failed'[t] \/ overtaken[t] \/ now < ttl

(* A request that insists and does not have its key has invalidated keys.    *)
LEMMA InsistsInVain ==
    ASSUME KeyInv, ServeInv, NEW t \in Request, HasKeys(t), second[t] \/ retried[t],
           keys[kid[t]] # signed[t]
    PROVE  ~steady[t] \/ overtaken[t] \/ now < ttl
<1>1. steady[t] => dirty
  BY DEF ServeInv, InsistInv, Insists, Pending, HasKeys
<1>2. (~dirty \/ now < ttl) \/ overtaken[t]
  BY DEF ServeInv, AgeInv, Current
<1> QED
  BY <1>1, <1>2

LEMMA RefusalStep == KeyInv /\ ServeInv /\ [Next]_vars => RefusalsAreDue
<1> SUFFICES ASSUME KeyInv, ServeInv, [Next]_vars PROVE RefusalsAreDue
  OBVIOUS
<1>0. /\ reply \in [Request -> {"none", "ok", "unknownKid", "unavailable",
                               "invalidSignature"}]
      /\ Background \notin Request /\ Task = Request \cup {Background}
      /\ LifeInv
  BY ServeTypes DEF Task, ServeInv
<1>1. ASSUME UNCHANGED reply PROVE RefusalsAreDue
  BY <1>1 DEF RefusalsAreDue, Refused
<1>2. ASSUME NEW t \in Task, NEW what, Finish(t, what),
             t \in Request /\ what \in {"unknownKid", "invalidSignature"} =>
                ~steady[t] \/ failed'[t] \/ overtaken[t] \/ now < ttl
      PROVE  RefusalsAreDue
  BY <1>0, <1>2 DEF Finish, RefusalsAreDue, Refused
<1>3. ASSUME NEW t \in Task, AttemptFails(t) PROVE RefusalsAreDue
  <2>1. t \in Request => failed'[t]
    BY <1>3 DEF AttemptFails
  <2> QED
    BY <1>1, <1>2, <1>3, <2>1 DEF AttemptFails
<1>4. ASSUME NEW t \in Task, AfterRefresh(t) PROVE RefusalsAreDue
  <2>1. pc[t] = "after"
    BY <1>4 DEF AfterRefresh
  <2>2. CASE t = Background /\ Finish(t, "none")
    BY <1>2, <2>2
  <2>3. CASE /\ t # Background /\ keys[kid[t]] = 0 /\ second[t]
             /\ Finish(t, IF retried[t] THEN "invalidSignature" ELSE "unknownKid")
    <3>1. t \in Request /\ signed[t] # 0
      BY <1>0, <2>1, <2>3 DEF LifeInv, Pending
    <3>2. ~steady[t] \/ overtaken[t] \/ now < ttl
      BY <2>1, <2>3, <3>1, InsistsInVain DEF HasKeys
    <3> QED
      BY <1>2, <2>3, <3>2
  <2> QED
    BY <1>1, <1>4, <2>2, <2>3 DEF AfterRefresh
<1>5. ASSUME NEW t \in Request, Decode(t) PROVE RefusalsAreDue
  <2>1. pc[t] = "decode" /\ t \in Task
    BY <1>0, <1>5 DEF Decode
  <2>2. CASE Finish(t, "ok")
    BY <1>2, <2>1, <2>2
  <2>3. CASE keys[kid[t]] # signed[t] /\ retried[t] /\ Finish(t, "invalidSignature")
    <3>1. ~steady[t] \/ overtaken[t] \/ now < ttl
      BY <2>1, <2>3, InsistsInVain DEF HasKeys
    <3> QED
      BY <1>2, <2>1, <2>3, <3>1
  <2> QED
    BY <1>1, <1>5, <2>2, <2>3 DEF Decode
<1>6. ASSUME NEW t \in Task, Runs(t) \/ Answer(t) PROVE RefusalsAreDue
  BY <1>1, <1>4, <1>6
     DEF Runs, AcquireLock, LockHandedOver, AlreadyFresh, StartFetch, Install, Answer
<1>7. ASSUME NEW t \in Request, Handles(t) PROVE RefusalsAreDue
  BY <1>1, <1>5, <1>7 DEF Handles, LookupKey
<1>8. CASE \/ \E u \in Url, k \in Kid, v \in Version : Rotate(u, k, v)
           \/ Tick
           \/ \E u \in Url, n \in Ttls : UpdateConfig(u, n)
           \/ \E t \in Request, k \in Kid, v \in 1..MaxVersion : Arrive(t, k, v)
           \/ BackgroundWakes
  BY <1>1, <1>8 DEF Rotate, Tick, UpdateConfig, Arrive, BackgroundWakes
<1>9. CASE UNCHANGED vars
  BY <1>1, <1>9 DEF vars
<1> QED
  BY <1>3, <1>6, <1>7, <1>8, <1>9 DEF Next

(* A request whose key the endpoint served all the while is not refused for  *)
(* its key, unless a fetch of it failed or was overtaken, or the host is not *)
(* yet up for a lifetime.                                                    *)
THEOREM ServedKeysAreAccepted == Spec => ServedKeyIsAccepted
<1>1. RefusalsAreDue =>
        \A t \in Request : ~Refused(t) /\ Refused(t)' =>
            ~steady[t] \/ failed'[t] \/ overtaken[t] \/ now < ttl
  BY DEF RefusalsAreDue
<1> QED
  BY <1>1, KeysServe, RefusalStep, PTL DEF Spec, ServedKeyIsAccepted
=============================================================================
