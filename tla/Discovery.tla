------------------------------ MODULE Discovery ------------------------------
(***************************************************************************)
(* AgentDiscovery (discovery.py) and the RouteRegistry it fills: the       *)
(* socket directory, the tasks that reconcile the registered agents with   *)
(* it, and the admin requests that re-fetch the routes of an agent.        *)
(*                                                                         *)
(* All tasks run on one event loop: a step is what a task does between two *)
(* suspension points.  Discovery suspends only while it waits for          *)
(* _reconcile_lock and while it fetches the routes of an agent.            *)
(***************************************************************************)
EXTENDS RouteTable

CONSTANTS Configs,       \* the configurations config.json may hold
          Declared,      \* Declared[a][v]: the v-th route list of agent a
          SockAddress,   \* SockAddress[a]: the path of a's .sock file
          HttpAddress,   \* HttpAddress[a]: the first line of a's .http file
          Refreshers,    \* requests to /_admin/refresh-agent
          MaxChanges,    \* bound: changes of the socket directory
          MaxReloads,    \* bound: reloads of config.json
          MaxScanErrors, \* bound: OSErrors while the directory is listed
          MaxHeld        \* bound: targets that requests on their way hold

Main     == "main"       \* run() up to its start, then start()
Watch    == "watch"      \* _watch_filesystem
Periodic == "periodic"   \* _reconcile_forever
Reload   == "reload"     \* ConfigManager.watch

Reconcilers == {Main, Watch, Periodic, Reload}
Task == Reconcilers \cup Refreshers

ASSUME DiscoveryConstants ==
    /\ Configs \subseteq ConfigType
    /\ Declared \in [Agent -> Seq(Seq(DeclarationType))]
    /\ \A a \in Agent : Declared[a] # <<>>
    /\ SockAddress \in [Agent -> Target] /\ HttpAddress \in [Agent -> Target]
    /\ Refreshers \cap Reconcilers = {}
    /\ MaxChanges \in Nat /\ MaxReloads \in Nat /\ MaxScanErrors \in Nat
    /\ MaxHeld \in Nat

VARIABLES
    sock, http,        \* agents with a .sock file, with a .http file
    version,           \* version[a]: the route list a answers with now
    event,             \* the watcher has a change it has not delivered yet
    held,              \* targets of the routes that requests looked up
    changes, reloads, scanErrors,           \* counters for the bounds
    config,            \* ConfigManager.current
    httpEnabled,       \* _http_agents_enabled
    routes, cpPrefixes, authzPrefixes,      \* the RouteRegistry
    agents,            \* _agents: endpoint of each registered agent, or None
    clients,           \* targets ProxyClient holds an agent client for
    phase,             \* "boot" | "starting" | "running" | "failed"
    pc,                \* what each task is doing
    lockq,             \* _reconcile_lock: its holder, then its waiters
    scan,              \* the desired agents of the last holder of the lock
    plan,              \* plan[t]: endpoints t still has to fetch, or None
    cur,               \* cur[t]: the agent whose routes t is fetching
    answer,            \* answer[t]: the version cur[t] answered with
    shown,             \* history: the version last registered for each agent
    refreshed          \* history: the agents a refresh registered last

environment == <<sock, http, version, event, held, changes, scanErrors>>
registry    == <<routes, cpPrefixes, authzPrefixes, shown, refreshed>>
work        == <<plan, cur, answer>>
vars == <<environment, reloads, config, httpEnabled, registry, agents, clients,
          phase, pc, lockq, scan, work>>

\* the route lists the agents may answer
Declarations == UNION {{Declared[a][v] : v \in DOMAIN Declared[a]} : a \in Agent}

\* the registry; no request is routed here
Registry == INSTANCE RouteRegistry WITH Paths <- {}

EndpointType == [transport: Transport, address: Target]
\* Mutant: the transport is the suffix of the file.
UdsSuffix(a) == [transport |-> "sock", address |-> SockAddress[a]]

Uds(a)  == [transport |-> "uds", address |-> SockAddress[a]]
Http(a) == [transport |-> "http", address |-> HttpAddress[a]]

MaybeEndpoints == [Agent -> EndpointType \cup {None}]
NoEndpoints == [a \in Agent |-> None]
Named(e) == {a \in Agent : e[a] # None}
Addresses(e) == {e[a].address : a \in Named(e)}

TypeOK ==
    /\ sock \subseteq Agent /\ http \subseteq Agent
    /\ version \in [Agent -> Nat]
    /\ \A a \in Agent : version[a] \in DOMAIN Declared[a]
    /\ event \in BOOLEAN /\ held \subseteq Target
    /\ changes \in Nat /\ reloads \in Nat /\ scanErrors \in Nat
    /\ config \in Configs /\ httpEnabled \in BOOLEAN
    /\ Registry!TypeOK
    /\ agents \in MaybeEndpoints
    /\ clients \subseteq Target
    /\ phase \in {"boot", "starting", "running", "failed"}
    /\ pc \in [Task -> {"idle", "queued", "fetching", "answered", "done",
                        "notify", "down", "dead"}]
    /\ lockq \in Seq(Reconcilers)
    /\ scan \in MaybeEndpoints
    /\ plan \in [Task -> MaybeEndpoints]
    /\ cur \in [Task -> Agent \cup {None}]
    /\ answer \in [Task -> Nat]
    /\ shown \in [Agent -> Nat] /\ refreshed \subseteq Agent
-----------------------------------------------------------------------------
(* The socket directory and the agents behind it.                           *)

\* _discover_agents: .sock files first, .http files only when enabled
Desired == [a \in Agent |-> IF a \in sock THEN Uds(a)
                            ELSE IF a \in http /\ httpEnabled THEN Http(a)
                            ELSE None]

\* A file of agent a is created or removed; awatch may miss it, and does while
\* the watcher is not running.
FileChange(a) ==
    /\ changes < MaxChanges
    /\ changes' = changes + 1
    /\ \/ sock' \in {sock \cup {a}, sock \ {a}} \ {sock} /\ UNCHANGED http
       \/ http' \in {http \cup {a}, http \ {a}} \ {http} /\ UNCHANGED sock
    /\ IF phase = "running" /\ pc[Watch] # "down"
       THEN event' \in {event, TRUE}
       ELSE UNCHANGED event
    /\ UNCHANGED <<version, held, scanErrors, reloads, config, httpEnabled,
                   registry, agents, clients, phase, pc, lockq, scan, work>>

\* The agent behind the address is replaced by one that declares other routes
\* (a restart that reuses the path, or an agent about to ask for a refresh).
Redeclare(a) ==
    /\ version[a] < Len(Declared[a])
    /\ version' = [version EXCEPT ![a] = @ + 1]
    /\ UNCHANGED <<sock, http, event, held, changes, scanErrors, reloads, config,
                   httpEnabled, registry, agents, clients, phase, pc, lockq,
                   scan, work>>

\* Something answers at endpoint e of agent a.
Reachable(a, e) == \/ e = Uds(a) /\ a \in sock
                   \/ e = Http(a) /\ a \in http

\* A request looks up a route of an agent and is suspended in the validation of
\* its token.
HoldRoute ==
    /\ phase \in {"starting", "running"}
    /\ \E r \in Elements(routes) :
          r.agent # None /\ held' = held \cup {r.target}
    /\ Cardinality(held') <= MaxHeld
    /\ UNCHANGED <<sock, http, version, event, changes, scanErrors, reloads, config,
                   httpEnabled, registry, agents, clients, phase, pc, lockq, scan,
                   work>>

\* A request that holds target goes on, opening a client for it unless it is
\* refused or there is one; others may hold the same target.
OpenClient(target) ==
    /\ target \in held
    /\ clients' \in {clients, clients \cup {target}}
    /\ held' \in {held, held \ {target}}
    /\ UNCHANGED <<sock, http, version, event, changes, scanErrors, reloads, config,
                   httpEnabled, registry, agents, phase, pc, lockq, scan, work>>
-----------------------------------------------------------------------------
(* reconcile, by whichever task.                                             *)

Init ==
    /\ sock \in SUBSET Agent /\ http \in SUBSET Agent
    /\ version = [a \in Agent |-> 1]
    /\ event = FALSE /\ held = {}
    /\ changes = 0 /\ reloads = 0 /\ scanErrors = 0
    /\ config \in Configs /\ httpEnabled = config.http
    /\ Registry!InitWith(config)
    /\ agents = NoEndpoints /\ clients = {} /\ phase = "boot"
    /\ pc = [t \in Task |-> IF t = Main THEN "queued" ELSE "idle"]
    /\ lockq = <<Main>>
    /\ scan = NoEndpoints
    /\ plan = [t \in Task |-> NoEndpoints]
    /\ cur = [t \in Task |-> None]
    /\ answer = [t \in Task |-> 0]
    /\ shown = [a \in Agent |-> 0] /\ refreshed = {}

\* t calls reconcile() and waits for the lock
Acquire(t) ==
    /\ pc' = [pc EXCEPT ![t] = "queued"]
    /\ lockq' = Append(lockq, t)

\* The agent whose routes are fetched next: reconcile goes through the .sock
\* agents before the .http ones, refresh_all in any order.
Upcoming(t, left) ==
    {a \in Named(left) :
        t \in Reconcilers /\ left[a].transport = "http" =>
            \A b \in Named(left) : left[b].transport = "http"}

\* t returns from reconcile (it prunes the clients and releases the lock) or
\* from a refresh.
Return(t, wanted) ==
    /\ IF t \in Reconcilers
       THEN /\ clients' = clients \cap Addresses(wanted)
            /\ lockq' = Tail(lockq)
       ELSE UNCHANGED <<clients, lockq>>
    /\ phase' = CASE t = Main /\ phase = "boot" -> "starting"
                  [] t = Main /\ phase = "starting" -> "running"
                  [] OTHER -> phase
    /\ pc' = [pc EXCEPT ![t] =
                 IF t \in Refreshers \/ (t = Main /\ phase = "starting")
                 THEN "done" ELSE "idle"]

\* t goes on with the agents it has left, up to its next suspension.
Proceed(t, left, wanted) ==
    /\ plan' = [plan EXCEPT ![t] = left]
    /\ answer' = [answer EXCEPT ![t] = 0]
    /\ \/ /\ \E a \in Upcoming(t, left) : cur' = [cur EXCEPT ![t] = a]
          /\ pc' = [pc EXCEPT ![t] = "fetching"]
          /\ UNCHANGED <<clients, lockq, phase>>
       \/ /\ Named(left) = {}
          /\ cur' = [cur EXCEPT ![t] = None]
          /\ Return(t, wanted)

\* Mutant: only agents with a socket are removed.
BeginKeepsHttp(t) ==
    /\ pc[t] = "queued" /\ Head(lockq) = t
    /\ LET gone == {a \in Named(agents) \ Named(Desired) : agents[a].transport = "uds"}
           todo == {a \in Named(Desired) : agents[a] # Desired[a]}
       IN  /\ scan' = Desired
           /\ routes' = WithoutAgents(routes, gone)
           /\ agents' = [a \in Agent |-> IF a \in gone THEN None ELSE agents[a]]
           /\ shown' = [a \in Agent |-> IF a \in gone THEN 0 ELSE shown[a]]
           /\ refreshed' = refreshed \ gone
           /\ Proceed(t, [a \in Agent |-> IF a \in todo THEN Desired[a] ELSE None],
                      Desired)
    /\ UNCHANGED <<environment, reloads, config, httpEnabled, cpPrefixes,
                   authzPrefixes>>

\* Mutant: agents whose endpoint changed are not fetched again.
BeginIgnoresChanges(t) ==
    /\ pc[t] = "queued" /\ Head(lockq) = t
    /\ LET gone == Named(agents) \ Named(Desired)
           todo == Named(Desired) \ Named(agents)
       IN  /\ scan' = Desired
           /\ routes' = WithoutAgents(routes, gone)
           /\ agents' = [a \in Agent |-> IF a \in gone THEN None ELSE agents[a]]
           /\ shown' = [a \in Agent |-> IF a \in gone THEN 0 ELSE shown[a]]
           /\ refreshed' = refreshed \ gone
           /\ Proceed(t, [a \in Agent |-> IF a \in todo THEN Desired[a] ELSE None],
                      Desired)
    /\ UNCHANGED <<environment, reloads, config, httpEnabled, cpPrefixes,
                   authzPrefixes>>

\* Mutant: reconcile does not wait for its lock.
BeginUnlocked(t) ==
    /\ pc[t] = "queued"
    /\ LET gone == Named(agents) \ Named(Desired)
           todo == {a \in Named(Desired) : agents[a] # Desired[a]}
       IN  /\ scan' = Desired
           /\ routes' = WithoutAgents(routes, gone)
           /\ agents' = [a \in Agent |-> IF a \in gone THEN None ELSE agents[a]]
           /\ shown' = [a \in Agent |-> IF a \in gone THEN 0 ELSE shown[a]]
           /\ refreshed' = refreshed \ gone
           /\ Proceed(t, [a \in Agent |-> IF a \in todo THEN Desired[a] ELSE None],
                      Desired)
    /\ UNCHANGED <<environment, reloads, config, httpEnabled, cpPrefixes,
                   authzPrefixes>>

\* With the lock: scan the directory, remove the agents that are gone, start
\* fetching from the new and the changed ones.
Begin(t) ==
    /\ pc[t] = "queued" /\ Head(lockq) = t
    /\ LET gone == Named(agents) \ Named(Desired)
           todo == {a \in Named(Desired) : agents[a] # Desired[a]}
       IN  /\ scan' = Desired
           /\ routes' = WithoutAgents(routes, gone)
           /\ agents' = [a \in Agent |-> IF a \in gone THEN None ELSE agents[a]]
           /\ shown' = [a \in Agent |-> IF a \in gone THEN 0 ELSE shown[a]]
           /\ refreshed' = refreshed \ gone
           /\ Proceed(t, [a \in Agent |-> IF a \in todo THEN Desired[a] ELSE None],
                      Desired)
    /\ UNCHANGED <<environment, reloads, config, httpEnabled, cpPrefixes,
                   authzPrefixes>>

\* Mutant: a failing scan leaves the lock taken.
ScanFailsLocked(t) ==
    /\ pc[t] = "queued" /\ Head(lockq) = t
    /\ scanErrors < MaxScanErrors
    /\ scanErrors' = scanErrors + 1
    /\ phase' = IF t = Main /\ phase = "boot" THEN "failed" ELSE phase
    /\ pc' = [pc EXCEPT ![t] = CASE t \in {Main, Periodic} -> "dead"
                                 [] t = Watch -> "down"
                                 [] t = Reload -> "idle"]
    /\ event' = (event /\ t # Watch)
    /\ UNCHANGED <<sock, http, version, held, changes, reloads, config, httpEnabled,
                   registry, agents, clients, lockq, scan, work>>

\* The directory listing raises: reconcile gives up, and so does its caller.
\* run() ends the program, start() ends without its background tasks, the
\* watcher restarts, _reconcile_forever ends, ConfigManager._swap goes on.
ScanFails(t) ==
    /\ pc[t] = "queued" /\ Head(lockq) = t
    /\ scanErrors < MaxScanErrors
    /\ scanErrors' = scanErrors + 1
    /\ lockq' = Tail(lockq)
    /\ phase' = IF t = Main /\ phase = "boot" THEN "failed" ELSE phase
    /\ pc' = [pc EXCEPT ![t] = CASE t \in {Main, Periodic} -> "dead"
                                 [] t = Watch -> "down"
                                 [] t = Reload -> "idle"]
    /\ event' = (event /\ t # Watch)
    /\ UNCHANGED <<sock, http, version, held, changes, reloads, config, httpEnabled,
                   registry, agents, clients, scan, work>>
-----------------------------------------------------------------------------
(* _register_agent: fetch the routes, then register them.                    *)

\* GET /_meta/routes is answered
Answer(t) ==
    /\ pc[t] = "fetching"
    /\ Reachable(cur[t], plan[t][cur[t]])
    /\ answer' = [answer EXCEPT ![t] = version[cur[t]]]
    /\ pc' = [pc EXCEPT ![t] = "answered"]
    /\ UNCHANGED <<environment, reloads, config, httpEnabled, registry, agents,
                   clients, phase, lockq, scan, plan, cur>>

Remaining(t) == [plan[t] EXCEPT ![cur[t]] = None]

\* The fetch fails or times out: it is logged and the agent is skipped.
FetchFails(t) ==
    /\ pc[t] = "fetching"
    /\ Proceed(t, Remaining(t), scan)
    /\ UNCHANGED <<environment, reloads, config, httpEnabled, registry, agents,
                   scan>>

\* Mutant: the endpoint of a known agent is not updated.
RegisterKeepsEndpoint(t) ==
    /\ pc[t] = "answered"
    /\ LET a == cur[t]
           e == plan[t][a]
       IN  /\ Registry!ReplaceAgentRoutes(a, e.transport, e.address,
                                          Declared[a][answer[t]])
           /\ agents' = [agents EXCEPT ![a] = IF @ = None THEN e ELSE @]
           /\ shown' = [shown EXCEPT ![a] = answer[t]]
           /\ refreshed' = IF t \in Refreshers THEN refreshed \cup {a}
                                                ELSE refreshed \ {a}
    /\ Proceed(t, Remaining(t), scan)
    /\ UNCHANGED <<environment, reloads, config, httpEnabled, scan>>

\* The task resumes with the answer: replace_agent_routes, then _agents.
Register(t) ==
    /\ pc[t] = "answered"
    /\ LET a == cur[t]
           e == plan[t][a]
       IN  /\ Registry!ReplaceAgentRoutes(a, e.transport, e.address,
                                          Declared[a][answer[t]])
           /\ agents' = [agents EXCEPT ![a] = e]
           /\ shown' = [shown EXCEPT ![a] = answer[t]]
           /\ refreshed' = IF t \in Refreshers THEN refreshed \cup {a}
                                                ELSE refreshed \ {a}
    /\ Proceed(t, Remaining(t), scan)
    /\ UNCHANGED <<environment, reloads, config, httpEnabled, scan>>
-----------------------------------------------------------------------------
(* The callers.                                                              *)

\* run() goes on after the first reconcile and start() reconciles again
StartDiscovery ==
    /\ phase = "starting" /\ pc[Main] = "idle"
    /\ Acquire(Main)
    /\ UNCHANGED <<environment, reloads, config, httpEnabled, registry, agents,
                   clients, phase, scan, work>>

\* awatch yields
WatchEvent ==
    /\ phase = "running" /\ pc[Watch] = "idle" /\ event
    /\ event' = FALSE
    /\ Acquire(Watch)
    /\ UNCHANGED <<sock, http, version, held, changes, scanErrors, reloads, config,
                   httpEnabled, registry, agents, clients, phase, scan, work>>

\* the five seconds after a crash of the watcher are over
WatchRestarts ==
    /\ pc[Watch] = "down"
    /\ pc' = [pc EXCEPT ![Watch] = "idle"]
    /\ UNCHANGED <<environment, reloads, config, httpEnabled, registry, agents,
                   clients, phase, lockq, scan, work>>

\* RECONCILE_INTERVAL_SECONDS have passed
PeriodicTick ==
    /\ phase = "running" /\ pc[Periodic] = "idle"
    /\ Acquire(Periodic)
    /\ UNCHANGED <<environment, reloads, config, httpEnabled, registry, agents,
                   clients, phase, scan, work>>

\* ConfigManager._swap: RouteRegistry is the first subscriber.
ConfigReload ==
    /\ phase \in {"starting", "running"} /\ pc[Reload] = "idle"
    /\ reloads < MaxReloads
    /\ reloads' = reloads + 1
    /\ \E new \in Configs :
          config' = new /\ Registry!OnConfigChange(new)
    /\ pc' = [pc EXCEPT ![Reload] = "notify"]
    /\ UNCHANGED <<environment, httpEnabled, agents, clients, phase, lockq, scan,
                   work, shown, refreshed>>

\* _on_config_changed, after ProxyClient closed the clients it replaces
DiscoveryNotified ==
    /\ pc[Reload] = "notify"
    /\ httpEnabled' = config.http
    /\ Acquire(Reload)
    /\ UNCHANGED <<environment, reloads, config, registry, agents, clients, phase,
                   scan, work>>

\* refresh_agent for one agent (unknown agents get 404), or refresh_all;
\* neither takes the reconcile lock.
Refresh(t) ==
    /\ phase \in {"starting", "running"} /\ pc[t] = "idle"
    /\ \E which \in {{a} : a \in Agent} \cup {Agent} :
          Proceed(t, [a \in Agent |-> IF a \in which THEN agents[a] ELSE None],
                  scan)
    /\ UNCHANGED <<environment, reloads, config, httpEnabled, registry, agents,
                   scan>>
-----------------------------------------------------------------------------
Step(t) == FetchFails(t) \/ Answer(t) \/ Register(t)

Next ==
    \/ \E a \in Agent : FileChange(a) \/ Redeclare(a)
    \/ HoldRoute \/ (\E target \in Target : OpenClient(target))
    \/ \E t \in Reconcilers : Begin(t) \/ ScanFails(t)
    \/ \E t \in Task : Step(t)
    \/ StartDiscovery \/ WatchEvent \/ WatchRestarts \/ PeriodicTick
    \/ ConfigReload \/ DiscoveryNotified
    \/ \E t \in Refreshers : Refresh(t)

Spec == Init /\ [][Next]_vars

\* Every task runs on when it can, requests included; timers fire; a fetch ends,
\* by its timeout at the latest, and an agent that stays reachable does not fail
\* every fetch of the periodic task.
Fairness ==
    /\ WF_vars(StartDiscovery) /\ WF_vars(WatchEvent) /\ WF_vars(WatchRestarts)
    /\ WF_vars(PeriodicTick) /\ WF_vars(DiscoveryNotified)
    /\ \A t \in Reconcilers : WF_vars(Begin(t) \/ ScanFails(t))
    /\ \A t \in Task : WF_vars(Step(t))
    /\ \A target \in Target : WF_vars(OpenClient(target) /\ held' # held)
    /\ \A a \in Agent : SF_vars(Answer(Periodic) /\ cur[Periodic] = a)

FairSpec == Spec /\ Fairness
-----------------------------------------------------------------------------
(* An entry of the routing table points at the endpoint its agent is         *)
(* registered with: no request is proxied to an address discovery has given  *)
(* up, whatever tasks are suspended in a fetch.                              *)
RoutesMatchAgents ==
    \A r \in Elements(routes) : r.agent # None =>
        agents[r.agent] = [transport |-> r.transport, address |-> r.target]

(* An agent the last scan of the directory did not find is registered only   *)
(* if a refresh registered it, which does not take the reconcile lock; no    *)
(* reconcile brings one back or forgets to remove it, however reconciles,    *)
(* refreshes and changes of the directory interleave.                        *)
OnlyRefreshesRevive ==
    Named(agents) \subseteq Named(scan) \cup refreshed

(* An answer is overwritten by an older one of the same agent only if one of *)
(* the two was registered by a refresh: the lock serialises the fetches of   *)
(* reconcile, and an agent is not fetched twice under it.                    *)
NewestAnswerStays ==
    [][\A a \in Agent : \/ shown'[a] = 0 \/ shown'[a] >= shown[a]
                        \/ a \in refreshed \cup refreshed']_vars

(* Reconciliation is mutually exclusive and nobody is lost in the queue of   *)
(* its lock, whatever fails in between: the tasks that wait for the lock or  *)
(* hold it are those in the queue, each once, and only its head is past it.  *)
LockDiscipline ==
    /\ \A t \in Reconcilers :
         pc[t] \in {"queued", "fetching", "answered"} <=>
             \E i \in DOMAIN lockq : lockq[i] = t
    /\ \A i, j \in DOMAIN lockq : lockq[i] = lockq[j] => i = j
    /\ \A i \in DOMAIN lockq : i > 1 => pc[lockq[i]] = "queued"

Ownership ==
    INSTANCE RouteOwnership WITH
        Prefix <- PrefixesOf(Configs, Declarations),
        owned <- OwnedIn(routes),
        reserved <- {cpPrefixes[i] : i \in DOMAIN cpPrefixes} \cup
                    {authzPrefixes[i] : i \in DOMAIN authzPrefixes}

(* Discovery uses the registry within its promise (RouteOwnership), whatever *)
(* tasks interleave: no prefix changes hands while its owner holds it.       *)
ImplementsOwnership == Ownership!Spec
=============================================================================
