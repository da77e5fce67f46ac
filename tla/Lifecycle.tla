------------------------------ MODULE Lifecycle ------------------------------
(***************************************************************************)
(* The process (__main__.py): run() makes the components, reconciles once, *)
(* starts five tasks, waits for a signal, waits for the tasks one after    *)
(* another, ten seconds each, and closes the clients of ProxyClient.  The  *)
(* configuration watcher is one of the tasks; AgentDiscovery.start is      *)
(* another one, with two children of its own.  The requests the two        *)
(* uvicorn servers serve are tasks of their own as well.                   *)
(***************************************************************************)
EXTENDS ConfigManager

CONSTANT MaxRequests   \* bound: requests in flight at each server

ASSUME LifecycleConstants == MaxRequests \in Nat

\* asyncio_tasks
Tasks == <<"proxy_server", "local_node_server", "jwks_key_refresh", "discovery",
           "config_watch">>

Task == {Tasks[i] : i \in 1..Len(Tasks)}
Server == {"proxy_server", "local_node_server"}
Child == {"watch_filesystem", "reconcile_forever"}

VARIABLES
    main,      \* what run() is doing: "dead" when it ended without a shutdown
    on,        \* the number of the task it waits for
    signalled, \* stop_event
    task,      \* state of the five tasks
    child,     \* state of the tasks of AgentDiscovery.start
    requests,  \* number of requests in flight at a server
    expired    \* history: tasks that were given their ten seconds

processVars == <<main, on, signalled, task, child, requests, expired>>
vars == <<managerVars, processVars>>

TypeOK ==
    /\ TypeOKManager
    /\ main \in {"booting", "serving", "waiting", "closing", "exited", "dead"}
    /\ on \in 0..Len(Tasks)
    /\ signalled \in BOOLEAN
    /\ task \in [Task -> {"none", "running", "cancelled", "ended"}]
    /\ child \in [Child -> {"none", "running", "cancelled", "ended"}]
    /\ requests \in [Server -> 0..MaxRequests]
    /\ expired \subseteq Task

Init ==
    /\ InitManager
    /\ main = "booting" /\ on = 0 /\ signalled = FALSE
    /\ task = [t \in Task |-> "none"]
    /\ child = [c \in Child |-> "none"]
    /\ requests = [s \in Server |-> 0]
    /\ expired = {}

\* should_exit of the servers, _stop of JWKSManager, _shutdown of AgentDiscovery
Stopping == main \in {"waiting", "closing", "exited"}

Alive == main \notin {"exited", "dead"}

\* task t goes on to state s
Becomes(t, s) == task' = [task EXCEPT ![t] = s]
-----------------------------------------------------------------------------
(* run.                                                                     *)

\* The first reconcile is over: signal handlers and tasks are set up.
Serve ==
    /\ main = "booting"
    /\ main' = "serving"
    /\ task' = [t \in Task |-> "running"]
    /\ UNCHANGED <<managerVars, on, signalled, child, requests, expired>>

\* It raises, or a signal comes before the handlers are there.
BootFails ==
    /\ main = "booting"
    /\ main' = "dead"
    /\ UNCHANGED <<managerVars, on, signalled, task, child, requests, expired>>

Signal ==
    /\ main \in {"serving", "waiting", "closing"} /\ ~signalled
    /\ signalled' = TRUE
    /\ UNCHANGED <<managerVars, main, on, task, child, requests, expired>>

\* "shutting down": everything is told to stop, and the first task is awaited.
ShutDown ==
    /\ main = "serving" /\ signalled
    /\ main' = "waiting" /\ on' = 1
    /\ UNCHANGED <<managerVars, signalled, task, child, requests, expired>>

\* Mutant: the tasks are awaited without a limit.
NoTimeout == FALSE /\ UNCHANGED vars

\* wait_for gives up, cancels the task and goes on waiting for its end.
Timeout ==
    /\ main = "waiting" /\ task[Tasks[on]] = "running"
    /\ Becomes(Tasks[on], "cancelled")
    /\ expired' = expired \cup {Tasks[on]}
    /\ UNCHANGED <<managerVars, main, on, signalled, child, requests>>

\* Mutant: it is one task off at the end.
NextTaskTooFar ==
    /\ main = "waiting" /\ task[Tasks[on]] = "ended"
    /\ on' = on + 1
    /\ main' = IF on = Len(Tasks) THEN "closing" ELSE "waiting"
    /\ UNCHANGED <<managerVars, signalled, task, child, requests, expired>>

\* The awaited task has ended, with a result or an exception.
NextTask ==
    /\ main = "waiting" /\ task[Tasks[on]] = "ended"
    /\ IF on = Len(Tasks) THEN main' = "closing" /\ UNCHANGED on
                          ELSE on' = on + 1 /\ UNCHANGED main
    /\ UNCHANGED <<managerVars, signalled, task, child, requests, expired>>

\* proxy_client.aclose() is over; asyncio.run cancels what is left and returns.
Exit ==
    /\ main = "closing"
    /\ main' = "exited"
    /\ requests' = [s \in Server |-> 0]
    /\ UNCHANGED <<managerVars, on, signalled, task, child, expired>>
-----------------------------------------------------------------------------
(* The servers (uvicorn): a server that has to stop takes no new requests   *)
(* and ends when it has none.  When it is cancelled its requests go on.     *)

RequestArrives(s) ==
    /\ task[s] = "running" /\ ~Stopping /\ requests[s] < MaxRequests
    /\ requests' = [requests EXCEPT ![s] = @ + 1]
    /\ UNCHANGED <<managerVars, main, on, signalled, task, child, expired>>

RequestEnds(s) ==
    /\ Alive /\ requests[s] > 0
    /\ requests' = [requests EXCEPT ![s] = @ - 1]
    /\ UNCHANGED <<managerVars, main, on, signalled, task, child, expired>>

ServerEnds(s) ==
    /\ \/ task[s] = "running" /\ Stopping /\ requests[s] = 0
       \/ task[s] = "cancelled"
    /\ Becomes(s, "ended")
    /\ UNCHANGED <<managerVars, main, on, signalled, child, requests, expired>>

\* refresh_keys_in_background sees _stop, or is cancelled.
KeyRefreshEnds ==
    /\ \/ task["jwks_key_refresh"] = "running" /\ Stopping
       \/ task["jwks_key_refresh"] = "cancelled"
    /\ Becomes("jwks_key_refresh", "ended")
    /\ UNCHANGED <<managerVars, main, on, signalled, child, requests, expired>>
-----------------------------------------------------------------------------
(* AgentDiscovery.start: a reconcile, the children, and their end.          *)

Children(s) == child' = [c \in Child |-> s]

DiscoveryStarts ==
    /\ task["discovery"] = "running" /\ \A c \in Child : child[c] = "none"
    /\ Children("running")
    /\ UNCHANGED <<managerVars, main, on, signalled, task, requests, expired>>

\* its reconcile raises or is cancelled; nobody looks at the task before the end
DiscoveryFails ==
    /\ task["discovery"] \in {"running", "cancelled"}
    /\ \A c \in Child : child[c] = "none"
    /\ Becomes("discovery", "ended")
    /\ UNCHANGED <<managerVars, main, on, signalled, child, requests, expired>>

\* _shutdown is set, or start is cancelled: finally cancels both children.
CancelChildren ==
    /\ \/ task["discovery"] = "running" /\ Stopping
       \/ task["discovery"] = "cancelled"
    /\ \E c \in Child : child[c] = "running"
    /\ child' = [c \in Child |-> IF child[c] = "running" THEN "cancelled" ELSE child[c]]
    /\ UNCHANGED <<managerVars, main, on, signalled, task, requests, expired>>

\* A child ends: cancelled, because _shutdown is set, or by an exception.
ChildEnds(c) ==
    /\ Alive /\ child[c] \in {"running", "cancelled"}
    /\ child[c] = "running" => Stopping \/ c = "reconcile_forever"
    /\ child' = [child EXCEPT ![c] = "ended"]
    /\ UNCHANGED <<managerVars, main, on, signalled, task, requests, expired>>

\* Mutant: the children are cancelled and not awaited.
DiscoveryEndsEarly ==
    /\ \/ task["discovery"] = "running" /\ Stopping
       \/ task["discovery"] = "cancelled"
    /\ \A c \in Child : child[c] \in {"cancelled", "ended"}
    /\ Becomes("discovery", "ended")
    /\ UNCHANGED <<managerVars, main, on, signalled, child, requests, expired>>

\* gather returns, or, when start is cancelled during it, raises
DiscoveryEnds ==
    /\ \/ task["discovery"] = "running" /\ Stopping
       \/ task["discovery"] = "cancelled"
    /\ \A c \in Child : child[c] = "ended"
    /\ Becomes("discovery", "ended")
    /\ UNCHANGED <<managerVars, main, on, signalled, child, requests, expired>>
-----------------------------------------------------------------------------
(* ConfigManager.watch, which ends only when it is cancelled.               *)

WatcherStep ==
    /\ task["config_watch"] = "running" /\ Alive
    /\ StartWatching \/ WatchFails \/ Reload \/ ResumeSwap
    /\ UNCHANGED processVars

WatcherEnds ==
    /\ task["config_watch"] = "cancelled"
    /\ Becomes("config_watch", "ended")
    /\ StopWatching
    /\ UNCHANGED <<main, on, signalled, child, requests, expired>>

FileChange ==
    /\ Alive
    /\ \E c \in Content \cup {Invalid} : Write(c)
    /\ UNCHANGED processVars
-----------------------------------------------------------------------------
Next ==
    \/ Serve \/ BootFails \/ Signal \/ ShutDown \/ Timeout \/ NextTask \/ Exit
    \/ \E s \in Server : RequestArrives(s) \/ RequestEnds(s) \/ ServerEnds(s)
    \/ KeyRefreshEnds
    \/ DiscoveryStarts \/ DiscoveryFails \/ CancelChildren \/ DiscoveryEnds
    \/ \E c \in Child : ChildEnds(c)
    \/ WatcherStep \/ WatcherEnds \/ FileChange

\* The event loop runs what is ready, timers go off, cancelled tasks end, and
\* a subscriber returns (its fetches and closes have timeouts).  Signals,
\* requests and what ends by itself are not fair.
Fairness ==
    /\ WF_vars(Serve) /\ WF_vars(ShutDown) /\ WF_vars(Timeout) /\ WF_vars(NextTask)
    /\ WF_vars(Exit)
    /\ \A s \in Server : WF_vars(ServerEnds(s) /\ task[s] = "cancelled")
    /\ WF_vars(KeyRefreshEnds /\ task["jwks_key_refresh"] = "cancelled")
    /\ WF_vars(DiscoveryFails /\ task["discovery"] = "cancelled")
    /\ WF_vars(CancelChildren) /\ WF_vars(DiscoveryEnds)
    /\ \A c \in Child : WF_vars(ChildEnds(c) /\ child[c] = "cancelled")
    /\ WF_vars(WatcherStep /\ ~WatchFails) /\ WF_vars(WatcherEnds)

Spec == Init /\ [][Next]_vars /\ Fairness
-----------------------------------------------------------------------------
(* When the clients are closed nothing that uses them is left: the tasks and *)
(* the children of discovery, which may be pruning clients, have ended, also *)
(* those that had to be cancelled; a request is cut off only at a server     *)
(* that had been given its time and did not end.                             *)
NothingOutlivesTheClients ==
    main \in {"closing", "exited"} =>
        /\ \A t \in Task : task[t] = "ended"
        /\ \A c \in Child : child[c] \in {"none", "ended"}
        /\ \A s \in Server : requests[s] > 0 => s \in expired

(* A signal ends the process, though config_watch never ends by itself and a *)
(* request may never end.                                                    *)
ShutdownEnds == (main = "serving" /\ signalled) ~> main = "exited"

(* A change of config.json the watcher hears of ends up in force at every    *)
(* subscriber, but for the address, also when others came before it during a *)
(* swap, or invalid ones.  "missed" excepts the changes between the first    *)
(* reading and the start of the watcher, and those of its pauses.            *)
ChangesTakeEffect ==
    \A c \in Content :
        <>[](file = c /\ ~missed /\ main = "serving") =>
            <>[](\A i \in 1..N : told[i] = Kept(c))
=============================================================================
