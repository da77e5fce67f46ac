--------------------------- MODULE Lifecycle_proofs ---------------------------
(* For any configurations, any number of changes, failures and requests:    *)
(* the state keeps its types, the subscribers are told as Broadcast says,   *)
(* and nothing that uses the clients is left when they are closed.          *)
EXTENDS Lifecycle, TLAPS

\* How far the swap has come, as long as the watcher is not gone.
SwapInv ==
    task["config_watch"] # "ended" =>
        \A i \in 1..N : at = 0 \/ i <= at => told[i] = current

\* Before the tasks there is nothing; they are awaited in order; a server that
\* was not given its time ends without requests; discovery ends after its children.
MainInv ==
    /\ main \in {"booting", "dead"} => \A t \in Task : task[t] = "none"
    /\ main = "waiting" => on \in 1..5 /\ \A i \in 1..5 : i < on => task[Tasks[i]] = "ended"
    /\ main \in {"closing", "exited"} => \A t \in Task : task[t] = "ended"

ServerInv ==
    \A s \in Server :
        /\ task[s] = "cancelled" => s \in expired
        /\ task[s] = "ended" /\ s \notin expired => requests[s] = 0

ChildInv == task["discovery"] = "ended" => \A c \in Child : child[c] \in {"none", "ended"}

\* the inductive invariant
LifeInv == TypeOK /\ SwapInv /\ MainInv /\ ServerInv /\ ChildInv
-----------------------------------------------------------------------------
LEMMA FourSubscribers == N = 4
BY DEF N, Subscribers

LEMMA FiveTasks ==
    /\ Len(Tasks) = 5
    /\ Tasks[1] = "proxy_server" /\ Tasks[2] = "local_node_server"
    /\ Tasks[3] = "jwks_key_refresh" /\ Tasks[4] = "discovery"
    /\ Tasks[5] = "config_watch"
    /\ Task = {"proxy_server", "local_node_server", "jwks_key_refresh",
               "discovery", "config_watch"}
    /\ \A i \in 1..5 : Tasks[i] \in Task
<1>1. /\ Len(Tasks) = 5
      /\ Tasks[1] = "proxy_server" /\ Tasks[2] = "local_node_server"
      /\ Tasks[3] = "jwks_key_refresh" /\ Tasks[4] = "discovery"
      /\ Tasks[5] = "config_watch"
  BY DEF Tasks
<1>2. \A i : i \in 1..5 <=> i \in {1, 2, 3, 4, 5}
  OBVIOUS
<1> QED
  BY <1>1, <1>2 DEF Task

(* A swap that calls the subscribers from i on tells a configuration to them *)
(* up to where it stops, and is over when it does not stop.                  *)
LEMMA CallsInOrder ==
    ASSUME TypeOKManager, NEW i \in 1..N+1, NEW new \in Content, CallFrom(i, new),
           \A k \in 1..N : k < i => told[k] = new
    PROVE  /\ told' \in [1..N -> Content] /\ at' \in 0..N
           /\ \A k \in 1..N : at' = 0 \/ k <= at' => told'[k] = new
           /\ \E k \in 1..N : told' = [x \in 1..N |-> IF x <= k THEN new ELSE told[x]]
<1> USE FourSubscribers
<1>1. PICK j \in {k \in 1..N : Subscribers[k] \in Suspend} \cup {N + 1} :
          /\ j >= i
          /\ told' = [k \in 1..N |-> IF k \in i..j THEN new ELSE told[k]]
          /\ at' = IF j = N + 1 THEN 0 ELSE j
  BY DEF CallFrom
<1>2. told \in [1..N -> Content] /\ j \in 1..N+1
  BY DEF TypeOKManager
<1>3. /\ told' \in [1..N -> Content] /\ at' \in 0..N
      /\ \A k \in 1..N : at' = 0 \/ k <= at' => told'[k] = new
  BY <1>1, <1>2
<1>4. told' = [x \in 1..N |-> IF x <= (IF j = N + 1 THEN N ELSE j) THEN new ELSE told[x]]
  BY <1>1, <1>2
<1>5. (IF j = N + 1 THEN N ELSE j) \in 1..N
  BY <1>2
<1> QED
  BY <1>3, <1>4, <1>5

LEMMA KeptIsContent ==
    ASSUME TypeOKManager, file \in Content
    PROVE  Kept(file) \in Content /\ Kept(file).listen = current.listen
BY DEF TypeOKManager, Kept, Content
-----------------------------------------------------------------------------
LEMMA LifeInit == Init => LifeInv
<1> SUFFICES ASSUME Init PROVE LifeInv
  OBVIOUS
<1> USE FourSubscribers, FiveTasks, ConfigConstants, LifecycleConstants
<1>1. TypeOK
  <2>1. TypeOKManager
    <3>1. current \in Content /\ file \in Content
      BY DEF Init, InitManager
    <3>2. told \in [1..N -> Content]
      BY <3>1 DEF Init, InitManager
    <3>3. at \in 0..N /\ changes \in Nat /\ failures \in Nat
      BY DEF Init, InitManager
    <3>4. /\ watcher \in {"off", "watching", "backoff"}
          /\ event \in BOOLEAN /\ missed \in BOOLEAN
      BY DEF Init, InitManager
    <3> QED
      BY <3>1, <3>2, <3>3, <3>4 DEF TypeOKManager
  <2>2. requests \in [Server -> 0..MaxRequests]
    BY DEF Init
  <2>3. /\ task \in [Task -> {"none", "running", "cancelled", "ended"}]
        /\ child \in [Child -> {"none", "running", "cancelled", "ended"}]
    BY Zenon DEF Init
  <2>4. /\ main \in {"booting", "serving", "waiting", "closing", "exited", "dead"}
        /\ on \in 0..Len(Tasks) /\ expired \subseteq Task
    BY DEF Init
  <2>5. signalled \in BOOLEAN
    BY DEF Init
  <2> QED
    BY <2>1, <2>2, <2>3, <2>4, <2>5 DEF TypeOK
<1>2. SwapInv /\ MainInv /\ ServerInv /\ ChildInv
  BY DEF Init, InitManager, SwapInv, MainInv, ServerInv, ChildInv, Server, Child
<1> QED
  BY <1>1, <1>2 DEF LifeInv

(* Steps of run().                                                           *)
LEMMA RunStep ==
    ASSUME LifeInv,
           Serve \/ BootFails \/ Signal \/ ShutDown \/ Timeout \/ NextTask \/ Exit
    PROVE  LifeInv'
<1> USE FourSubscribers, FiveTasks, LifecycleConstants
<1>0. managerVars' = managerVars /\ child' = child
  BY DEF Serve, BootFails, Signal, ShutDown, Timeout, NextTask, Exit
<1>1. TypeOK'
  <2>1. TypeOKManager'
    BY <1>0 DEF LifeInv, TypeOK, TypeOKManager, managerVars
  <2>2. requests' \in [Server -> 0..MaxRequests]
    BY DEF LifeInv, TypeOK, Serve, BootFails, Signal, ShutDown, Timeout, NextTask, Exit
  <2>3. /\ on' \in 0..5 /\ expired' \subseteq Task
        /\ task' \in [Task -> {"none", "running", "cancelled", "ended"}]
    <3>1. /\ on \in 0..5 /\ expired \subseteq Task
          /\ task \in [Task -> {"none", "running", "cancelled", "ended"}]
          /\ main = "waiting" => on \in 1..5
      BY DEF LifeInv, TypeOK, MainInv
    <3>2. CASE Timeout
      <4>1. Tasks[on] \in Task
        BY <3>1, <3>2 DEF Timeout
      <4> QED
        BY <3>1, <3>2, <4>1 DEF Timeout, Becomes
    <3>3. CASE NextTask
      BY <3>1, <3>3 DEF NextTask
    <3>4. CASE Serve
      BY <3>1, <3>4, Zenon DEF Serve
    <3>5. CASE BootFails \/ Signal \/ Exit
      <4>1. UNCHANGED <<on, task, expired>>
        BY <3>5 DEF BootFails, Signal, Exit
      <4> QED
        BY <3>1, <4>1
    <3>6. CASE ShutDown
      <4>1. on' = 1 /\ UNCHANGED <<task, expired>>
        BY <3>6 DEF ShutDown
      <4> QED
        BY <3>1, <4>1
    <3> QED
      BY <3>2, <3>3, <3>4, <3>5, <3>6
  <2>4. /\ main' \in {"booting", "serving", "waiting", "closing", "exited", "dead"}
        /\ signalled' \in BOOLEAN
    BY DEF LifeInv, TypeOK, Serve, BootFails, Signal, ShutDown, Timeout, NextTask, Exit
  <2> QED
    BY <1>0, <2>1, <2>2, <2>3, <2>4 DEF LifeInv, TypeOK
<1>2. SwapInv'
  <2>1. UNCHANGED <<at, told, current>>
    BY <1>0 DEF managerVars
  <2>2. task'["config_watch"] # "ended" => task["config_watch"] # "ended"
    BY DEF LifeInv, MainInv, TypeOK, Serve, BootFails, Signal, ShutDown, Timeout,
           NextTask, Exit, Becomes
  <2> QED
    BY <2>1, <2>2 DEF LifeInv, SwapInv
<1>3. MainInv'
  BY DEF LifeInv, MainInv, TypeOK, Serve, BootFails, Signal, ShutDown, Timeout,
         NextTask, Exit, Becomes
<1>4. ServerInv'
  BY DEF LifeInv, MainInv, ServerInv, TypeOK, Server, Serve, BootFails, Signal, ShutDown,
         Timeout, NextTask, Exit, Becomes
<1>5. ChildInv'
  BY <1>0 DEF LifeInv, MainInv, ChildInv, TypeOK, Serve, BootFails, Signal, ShutDown,
         Timeout, NextTask, Exit, Becomes
<1> QED
  BY <1>1, <1>2, <1>3, <1>4, <1>5 DEF LifeInv

(* Steps of the servers, the key refresh and discovery.                      *)
LEMMA TaskStep ==
    ASSUME LifeInv,
           \/ \E s \in Server : RequestArrives(s) \/ RequestEnds(s) \/ ServerEnds(s)
           \/ KeyRefreshEnds
           \/ DiscoveryStarts \/ DiscoveryFails \/ CancelChildren \/ DiscoveryEnds
           \/ \E c \in Child : ChildEnds(c)
    PROVE  LifeInv'
<1> USE FourSubscribers, FiveTasks, LifecycleConstants
<1>0. /\ managerVars' = managerVars /\ UNCHANGED <<main, on, signalled, expired>>
      /\ task'["config_watch"] = task["config_watch"]
      /\ \A t \in Task : task[t] = "none" \/ task[t] = "ended" => task'[t] = task[t]
      /\ \A t \in Task : task'[t] = "cancelled" => task[t] = "cancelled"
      /\ task' \in [Task -> {"none", "running", "cancelled", "ended"}]
  BY DEF LifeInv, TypeOK, RequestArrives, RequestEnds, ServerEnds, KeyRefreshEnds,
         DiscoveryStarts, DiscoveryFails, CancelChildren, DiscoveryEnds, ChildEnds,
         Becomes, Children, Server
<1>1. TypeOK'
  <2>1. TypeOKManager'
    BY <1>0 DEF LifeInv, TypeOK, TypeOKManager, managerVars
  <2>2. requests' \in [Server -> 0..MaxRequests]
    BY DEF LifeInv, TypeOK, RequestArrives, RequestEnds, ServerEnds, KeyRefreshEnds,
         DiscoveryStarts, DiscoveryFails, CancelChildren, DiscoveryEnds, ChildEnds
  <2>3. child' \in [Child -> {"none", "running", "cancelled", "ended"}]
    BY DEF LifeInv, TypeOK, RequestArrives, RequestEnds, ServerEnds, KeyRefreshEnds,
         DiscoveryStarts, DiscoveryFails, CancelChildren, DiscoveryEnds, ChildEnds,
         Children
  <2> QED
    BY <1>0, <2>1, <2>2, <2>3 DEF LifeInv, TypeOK
<1>2. SwapInv'
  BY <1>0 DEF LifeInv, SwapInv, managerVars
<1>3. MainInv'
  BY <1>0 DEF LifeInv, MainInv
<1>4. ServerInv'
  BY <1>0 DEF LifeInv, TypeOK, ServerInv, Server, RequestArrives, RequestEnds, ServerEnds,
         KeyRefreshEnds, DiscoveryStarts, DiscoveryFails, CancelChildren, DiscoveryEnds,
         ChildEnds, Becomes
<1>5. ChildInv'
  BY DEF LifeInv, TypeOK, ChildInv, Server, Child, RequestArrives, RequestEnds, ServerEnds,
         KeyRefreshEnds, DiscoveryStarts, DiscoveryFails, CancelChildren, DiscoveryEnds,
         ChildEnds, Becomes, Children
<1> QED
  BY <1>1, <1>2, <1>3, <1>4, <1>5 DEF LifeInv

(* Steps of the watcher and changes of the file: how the state of the        *)
(* manager goes on, and what that is in the abstract specification.          *)
LEMMA ManagerStep ==
    ASSUME TypeOKManager, SwapInv, task["config_watch"] # "ended",
           \/ StartWatching \/ WatchFails \/ Reload \/ ResumeSwap
           \/ \E c \in Content \cup {Invalid} : Write(c)
    PROVE  /\ TypeOKManager'
           /\ \A i \in 1..N : at' = 0 \/ i <= at' => told'[i] = current'
           /\ Abstract!Next \/ UNCHANGED <<current, told>>
<1> USE FourSubscribers, ConfigConstants
<1>1. CASE StartWatching
  BY <1>1 DEF TypeOKManager, SwapInv, StartWatching
<1>2. CASE WatchFails
  <2>1. missed' \in BOOLEAN
    BY <1>2 DEF TypeOKManager, WatchFails
  <2>2. /\ failures' \in Nat /\ watcher' = "backoff" /\ event' = FALSE
        /\ UNCHANGED <<file, current, told, at, changes>>
    BY <1>2 DEF TypeOKManager, WatchFails
  <2> QED
    BY <2>1, <2>2 DEF TypeOKManager, SwapInv
<1>3. CASE Reload /\ file = Invalid
  BY <1>3 DEF TypeOKManager, SwapInv, Reload
<1>4. CASE Reload /\ file # Invalid
  <2>1. /\ current' = Kept(file) /\ CallFrom(1, current') /\ at = 0
        /\ UNCHANGED <<file, watcher, missed, changes, failures>> /\ event' = FALSE
    BY <1>4 DEF Reload
  <2>2. current' \in Content /\ current'.listen = current.listen
    BY <1>4, <2>1, KeptIsContent DEF TypeOKManager
  <2>3. /\ told' \in [1..N -> Content] /\ at' \in 0..N
        /\ \A k \in 1..N : at' = 0 \/ k <= at' => told'[k] = current'
        /\ \E k \in 1..N : told' = [x \in 1..N |-> IF x <= k THEN current' ELSE told[x]]
    BY <2>1, <2>2, CallsInOrder
  <2>4. TypeOKManager'
    BY <2>1, <2>2, <2>3 DEF TypeOKManager
  <2>5. Abstract!Publish
    BY <2>1, <2>2, <2>3 DEF SwapInv, Abstract!Publish, Abstract!ToldFirst
  <2> QED
    BY <2>3, <2>4, <2>5 DEF Abstract!Next
<1>5. CASE ResumeSwap
  <2>1. /\ at # 0 /\ CallFrom(at + 1, current)
        /\ UNCHANGED <<file, current, watcher, event, missed, changes, failures>>
    BY <1>5 DEF ResumeSwap
  <2>2. current \in Content /\ at + 1 \in 1..N+1
    BY <2>1 DEF TypeOKManager
  <2>3. \A k \in 1..N : k < at + 1 => told[k] = current
    BY <2>1 DEF SwapInv, TypeOKManager
  <2>4. /\ told' \in [1..N -> Content] /\ at' \in 0..N
        /\ \A k \in 1..N : at' = 0 \/ k <= at' => told'[k] = current
        /\ \E k \in 1..N : told' = [x \in 1..N |-> IF x <= k THEN current ELSE told[x]]
    BY <2>1, <2>2, <2>3, CallsInOrder
  <2>5. TypeOKManager'
    BY <2>1, <2>4 DEF TypeOKManager
  <2>6. Abstract!Deliver
    BY <2>1, <2>4 DEF Abstract!Deliver, Abstract!ToldFirst
  <2> QED
    BY <2>1, <2>4, <2>5, <2>6 DEF Abstract!Next
<1>6. ASSUME NEW c \in Content \cup {Invalid}, Write(c)
      PROVE  /\ TypeOKManager'
             /\ \A i \in 1..N : at' = 0 \/ i <= at' => told'[i] = current'
             /\ UNCHANGED <<current, told>>
  BY <1>6 DEF TypeOKManager, SwapInv, Write
<1> QED
  BY <1>1, <1>2, <1>3, <1>4, <1>5, <1>6

LEMMA WriteStep ==
    ASSUME TypeOKManager, NEW c \in Content \cup {Invalid}, Write(c)
    PROVE  TypeOKManager' /\ UNCHANGED <<current, told, at>>
BY ConfigConstants DEF TypeOKManager, Write

LEMMA WatchStep ==
    ASSUME LifeInv, WatcherStep \/ WatcherEnds \/ FileChange
    PROVE  LifeInv' /\ (Abstract!Next \/ UNCHANGED <<current, told>>)
<1> USE FourSubscribers, FiveTasks
<1>1. CASE WatcherStep
  <2>1. /\ TypeOKManager'
        /\ \A i \in 1..N : at' = 0 \/ i <= at' => told'[i] = current'
        /\ Abstract!Next \/ UNCHANGED <<current, told>>
    <3>1. /\ TypeOKManager /\ SwapInv /\ task["config_watch"] # "ended"
          /\ StartWatching \/ WatchFails \/ Reload \/ ResumeSwap
      BY <1>1 DEF WatcherStep, LifeInv, TypeOK
    <3> QED
      BY <3>1, ManagerStep
  <2>2. UNCHANGED processVars
    BY <1>1 DEF WatcherStep
  <2> QED
    BY <2>1, <2>2 DEF LifeInv, TypeOK, SwapInv, MainInv, ServerInv, ChildInv, processVars
<1>2. CASE WatcherEnds
  <2>1. /\ task' = [task EXCEPT !["config_watch"] = "ended"]
        /\ UNCHANGED <<file, current, told, changes, failures>>
        /\ watcher' = "off" /\ at' = 0 /\ event' = FALSE
        /\ UNCHANGED <<main, on, signalled, child, requests, expired>>
        /\ task["config_watch"] = "cancelled"
    BY <1>2 DEF WatcherEnds, StopWatching, Becomes
  <2>2. missed' \in BOOLEAN
    BY <1>2 DEF WatcherEnds, StopWatching, LifeInv, TypeOK, TypeOKManager
  <2>3. TypeOK' /\ SwapInv'
    <3>1. TypeOKManager'
      <4>1. TypeOKManager
        BY DEF LifeInv, TypeOK
      <4>2. at' \in 0..N
        BY <2>1
      <4>3. event' \in BOOLEAN /\ watcher' \in {"off", "watching", "backoff"}
        BY <2>1, Zenon
      <4>4. UNCHANGED <<file, current, told, changes, failures>>
        BY <2>1
      <4> HIDE FourSubscribers, FiveTasks
      <4> QED
        BY <2>2, <4>1, <4>2, <4>3, <4>4, ZenonT(30) DEF TypeOKManager
    <3>2. /\ task' \in [Task -> {"none", "running", "cancelled", "ended"}]
          /\ task'["config_watch"] = "ended"
      BY <2>1 DEF LifeInv, TypeOK
    <3>3. UNCHANGED <<main, on, signalled, child, requests, expired>>
      BY <2>1
    <3>4. TypeOK'
      BY <3>1, <3>2, <3>3 DEF LifeInv, TypeOK
    <3> QED
      BY <3>2, <3>4 DEF SwapInv
  <2>4. MainInv' /\ ServerInv' /\ ChildInv'
    BY <2>1 DEF LifeInv, TypeOK, MainInv, ServerInv, ChildInv, Server
  <2> QED
    BY <2>1, <2>3, <2>4 DEF LifeInv
<1>3. CASE FileChange
  <2>1. PICK c \in Content \cup {Invalid} : Write(c) /\ UNCHANGED processVars
    BY <1>3 DEF FileChange
  <2>2. TypeOKManager' /\ UNCHANGED <<current, told, at>>
    BY <2>1, WriteStep DEF LifeInv, TypeOK
  <2> QED
    BY <2>1, <2>2 DEF LifeInv, TypeOK, SwapInv, MainInv, ServerInv, ChildInv, processVars
<1> QED
  BY <1>1, <1>2, <1>3

LEMMA LifeStep == LifeInv /\ [Next]_vars => LifeInv'
<1> SUFFICES ASSUME LifeInv, [Next]_vars PROVE LifeInv'
  OBVIOUS
<1>1. CASE Next
  BY <1>1, RunStep, TaskStep, WatchStep DEF Next
<1>2. CASE UNCHANGED vars
  BY <1>2 DEF LifeInv, TypeOK, TypeOKManager, SwapInv, MainInv, ServerInv, ChildInv,
              vars, managerVars, processVars
<1> QED
  BY <1>1, <1>2
-----------------------------------------------------------------------------
(* In every behaviour the state keeps its types.                             *)
THEOREM LifeTypes == Spec => []TypeOK
<1>1. Spec => []LifeInv
  BY LifeInit, LifeStep, PTL DEF Spec
<1> QED
  BY <1>1, PTL DEF LifeInv

(* When the clients are closed, all tasks and the children of discovery have *)
(* ended, and only a server whose time ran out may have requests left.       *)
THEOREM GracefulShutdown == Spec => []NothingOutlivesTheClients
<1>1. Spec => []LifeInv
  BY LifeInit, LifeStep, PTL DEF Spec
<1>2. LifeInv => NothingOutlivesTheClients
  <2> SUFFICES ASSUME LifeInv, main \in {"closing", "exited"}
               PROVE  /\ \A t \in Task : task[t] = "ended"
                      /\ \A c \in Child : child[c] \in {"none", "ended"}
                      /\ \A s \in Server : requests[s] > 0 => s \in expired
    BY DEF NothingOutlivesTheClients
  <2>1. \A t \in Task : task[t] = "ended"
    BY DEF LifeInv, MainInv
  <2>2. \A c \in Child : child[c] \in {"none", "ended"}
    BY <2>1, FiveTasks DEF LifeInv, ChildInv
  <2>3. \A s \in Server : requests[s] > 0 => s \in expired
    BY <2>1, FiveTasks DEF LifeInv, ServerInv, Server
  <2> QED
    BY <2>1, <2>2, <2>3
<1> QED
  BY <1>1, <1>2, PTL

(* ConfigManager, in the process that runs and ends its watcher, implements  *)
(* Broadcast: a reload is a Publish, the rest of a swap are Deliver steps.   *)
THEOREM SubscribersAreTold == Spec => ImplementsBroadcast
<1>1. Spec => []LifeInv
  BY LifeInit, LifeStep, PTL DEF Spec
<1>2. Init => Abstract!Init
  BY FourSubscribers, ConfigConstants DEF Init, InitManager, Abstract!Init
<1>3. LifeInv /\ [Next]_vars => [Abstract!Next]_<<current, told>>
  <2> SUFFICES ASSUME LifeInv, [Next]_vars
               PROVE  Abstract!Next \/ UNCHANGED <<current, told>>
    OBVIOUS
  <2>1. CASE WatcherStep \/ WatcherEnds \/ FileChange
    BY <2>1, WatchStep
  <2>2. CASE \/ Serve \/ BootFails \/ Signal \/ ShutDown \/ Timeout \/ NextTask \/ Exit
             \/ \E s \in Server : RequestArrives(s) \/ RequestEnds(s) \/ ServerEnds(s)
             \/ KeyRefreshEnds
             \/ DiscoveryStarts \/ DiscoveryFails \/ CancelChildren \/ DiscoveryEnds
             \/ \E c \in Child : ChildEnds(c)
             \/ UNCHANGED vars
    BY <2>2 DEF Serve, BootFails, Signal, ShutDown, Timeout, NextTask, Exit,
                RequestArrives, RequestEnds, ServerEnds, KeyRefreshEnds, DiscoveryStarts,
                DiscoveryFails, CancelChildren, DiscoveryEnds, ChildEnds, vars, managerVars
  <2> QED
    BY <2>1, <2>2 DEF Next
<1> QED
  BY <1>1, <1>2, <1>3, PTL DEF Spec, ImplementsBroadcast, Abstract!Spec
=============================================================================
