---------------------------- MODULE ConfigManager ----------------------------
(***************************************************************************)
(* ConfigManager (config.py): the configuration is read once when the      *)
(* object is made, and again whenever the watcher is told of a change.     *)
(* The watcher is started later, by a task of its own; it is deaf until    *)
(* then, and for five seconds after an exception.  A change that comes     *)
(* while it swaps is kept for it by awatch.                                *)
(***************************************************************************)
EXTENDS Naturals, Sequences

CONSTANTS Listen,       \* listen.host and listen.port
          Rest,         \* all the rest of a configuration
          Invalid,      \* content of a file that is no configuration
          BootContent,  \* what the file may hold when the process starts
          MaxChanges,   \* bound: changes of config.json
          MaxFailures   \* bound: exceptions of awatch

Content == [listen: Listen, rest: Rest]

ASSUME ConfigConstants ==
    /\ Invalid \notin Content /\ BootContent \subseteq Content
    /\ MaxChanges \in Nat /\ MaxFailures \in Nat

\* _subscribers, in the order in which run() makes them; those that suspend
Subscribers == <<"RouteRegistry", "JWKSManager", "ProxyClient", "AgentDiscovery">>
Suspend == {"ProxyClient", "AgentDiscovery"}

N == Len(Subscribers)

VARIABLES
    file,      \* what config.json holds
    current,   \* _config
    told,      \* told[i]: "new" of the last call of subscriber i
    at,        \* the subscriber _swap is suspended in, 0 when there is no swap
    watcher,   \* "off", "watching", or "backoff" after an exception
    event,     \* awatch has a change to report
    missed,    \* history: no one will be told of the last change of the file
    changes, failures  \* counters for the bounds

managerVars == <<file, current, told, at, watcher, event, missed, changes, failures>>

TypeOKManager ==
    /\ file \in Content \cup {Invalid}
    /\ current \in Content
    /\ told \in [1..N -> Content]
    /\ at \in 0..N
    /\ watcher \in {"off", "watching", "backoff"}
    /\ event \in BOOLEAN /\ missed \in BOOLEAN
    /\ changes \in Nat /\ failures \in Nat

\* __init__ raises when the file is not valid, and the process does not start.
InitManager ==
    /\ file \in BootContent /\ current = file
    /\ told = [i \in 1..N |-> current]
    /\ at = 0
    /\ watcher = "off" /\ event = FALSE /\ missed = FALSE
    /\ changes = 0 /\ failures = 0
-----------------------------------------------------------------------------
\* Someone writes the file.  Only a watcher that is set up will hear of it.
Write(c) ==
    /\ changes < MaxChanges /\ changes' = changes + 1
    /\ c # file /\ file' = c
    /\ event' = (watcher = "watching")
    /\ missed' = (watcher # "watching")
    /\ UNCHANGED <<current, told, at, watcher, failures>>

\* watch: the path is resolved and awatch is entered
StartWatching ==
    /\ watcher \in {"off", "backoff"}
    /\ watcher' = "watching"
    /\ UNCHANGED <<file, current, told, at, event, missed, changes, failures>>

\* awatch raises: the file is gone, or the system has no more watches.
WatchFails ==
    /\ watcher = "watching" /\ at = 0
    /\ failures < MaxFailures /\ failures' = failures + 1
    /\ watcher' = "backoff"
    /\ event' = FALSE /\ missed' = (missed \/ event)
    /\ UNCHANGED <<file, current, told, at, changes>>

\* _swap calls the subscribers from i on, up to the first that suspends or to
\* the end.  An exception of one is logged, and the next one is called.
CallFrom(i, new) ==
    \E j \in {k \in 1..N : Subscribers[k] \in Suspend} \cup {N + 1} :
        /\ j >= i
        /\ told' = [k \in 1..N |-> IF k \in i..j THEN new ELSE told[k]]
        /\ at' = IF j = N + 1 THEN 0 ELSE j

\* listen cannot be reloaded
Kept(new) == [new EXCEPT !.listen = current.listen]

\* awatch reports a change: the file is read, validated and swapped in; an
\* invalid one is logged.
Reload ==
    /\ watcher = "watching" /\ at = 0 /\ event
    /\ event' = FALSE
    /\ IF file = Invalid THEN UNCHANGED <<current, told, at>>
       ELSE /\ current' = Kept(file)
            /\ CallFrom(1, current')
    /\ UNCHANGED <<file, watcher, missed, changes, failures>>

\* Mutant: an exception of a subscriber ends the swap.
ResumeSwapOrAbort ==
    /\ at # 0
    /\ \/ CallFrom(at + 1, current)
       \/ at' = 0 /\ UNCHANGED told
    /\ UNCHANGED <<file, current, watcher, event, missed, changes, failures>>

\* Mutant: awatch is entered anew after a swap.
ResumeSwapDeaf ==
    /\ at # 0
    /\ CallFrom(at + 1, current)
    /\ event' = (event /\ at' # 0)
    /\ UNCHANGED <<file, current, watcher, missed, changes, failures>>

\* the subscriber it is suspended in returns or raises
ResumeSwap ==
    /\ at # 0
    /\ CallFrom(at + 1, current)
    /\ UNCHANGED <<file, current, watcher, event, missed, changes, failures>>

\* the task of the watcher is cancelled, in awatch, in _swap or in the pause
StopWatching ==
    /\ watcher' = "off" /\ at' = 0 /\ event' = FALSE
    /\ missed' = (missed \/ event)
    /\ UNCHANGED <<file, current, told, changes, failures>>
-----------------------------------------------------------------------------
Abstract == INSTANCE Broadcast

(* Subscribers are told of every configuration that comes into force, one at *)
(* a time and in order, so that the "old" each compares with is the one it   *)
(* was last told, also when a subscriber raises, when the file changes       *)
(* during a swap or is invalid in between; listen never changes.             *)
ImplementsBroadcast == Abstract!Spec
=============================================================================
