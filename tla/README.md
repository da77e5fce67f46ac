# Press Node Agent: specification and proofs

Press Node Agent is a reverse proxy (FastAPI, one asyncio event loop) between
external clients, controlplanes, an authz server and the agents of a node. This
directory holds TLA+ modules of its own logic, the TLC configurations that check
them on small instances, and TLAPS proofs of what holds for every instance.
Paths are relative to the repository; `press_node_agent/` is left out of them
where the file name is unambiguous.

Contents: [the system](#1-the-system) · [the modules](#2-the-modules) ·
[the runs](#3-the-runs) · [fairness](#4-fairness) · [findings](#5-findings) ·
[the proofs](#6-the-proofs) · [abstractions](#7-abstractions) ·
[the plan](#8-the-plan)

## 1. The system

Everything runs on one event loop. A task runs without interruption from one
suspension (`await` of a lock, a fetch, a timer, a body chunk) to the next, so a
*step* in these modules is what a task does between two suspensions, and the hard
part is always what other tasks did meanwhile.

| Component | State | Operations | Talks to |
|---|---|---|---|
| **RouteRegistry** `routes.py` | the routing table `_routes`, sorted by prefix length; the reserved lists `_cp_prefixes`, `_authz_prefixes` | `_on_config_change`, `set_controlplanes`, `set_authz`, `replace_agent_routes`, `register_agent_routes`, `deregister_agent`, `replace_atomic`; `lookup` | first subscriber of ConfigManager; filled by AgentDiscovery; read by ProxyRouter |
| **AgentDiscovery** `discovery.py` | `_agents` (endpoint of each registered agent), `_http_agents_enabled`, `_reconcile_lock` | `reconcile`, `start`, `refresh_agent`, `refresh_all`, watcher, periodic task, `_on_config_changed`, `stop` | socket directory, agents (`GET /_meta/routes`), RouteRegistry, ProxyClient |
| **AuthzCache** `auth/cache.py` and **has_permission** `apps/admin.py` | a bounded dict of verdicts with an expiry | `get`, `put` with eviction; the handler asks the authz server between them | authz server, ConfigManager |
| **JWKSManager** `auth/jwks.py` and **validate_request** `auth/validator.py` | `_keys`, `_fetched_at`, `_generation`, `_url`, `_ttl`, `_fetch_lock` | `get_signing_key`, `_refresh`, `invalidate`, `update_config`, background refresh, `stop`; two attempts at a token | JWKS endpoint, ConfigManager |
| **ConfigManager** `config.py` | the current configuration, the list of subscribers | the first reading, `watch`, `_swap` | config file; RouteRegistry, JWKSManager, ProxyClient, AgentDiscovery, in the order they subscribed |
| **ProxyClient** `proxy_client.py` | clients by agent target, by controlplane name, for authz; the node's JWTs | `_on_config_changed`, `prune_agent_clients`, `proxy_to_*`, `aclose` | upstreams |
| **ProxyRouter** `apps/proxy.py` | none of its own | `dispatch`: route, whitelist, token, credentials | RouteRegistry, JWKSManager, ProxyClient |
| **Lifecycle** `__main__.py`, `apps/__init__.py` | the tasks of the process | boot, five tasks, shutdown | all of the above |
| **Client library** `client/press_node_agent_client/` | none | HTTP wrappers, parsing of the trusted headers | the local socket |
| **Development servers** `development/` | - | examples used by hand | - |

What is hard, and what makes each component correct:

* *RouteRegistry.* `lookup` returns the first hit, so it is right only while all
  seven methods leave the table sorted. Prefix ownership is first come, first
  served and must never pass to a second agent. The table and the reserved lists
  are updated separately. A reload keeps agent entries.
* *AgentDiscovery.* Four callers reconcile (boot and `start`, the watcher, the
  periodic task, a reload) and admin refreshes register without the lock; all are
  suspended in fetches while the directory, the agents and the configuration
  change. The entries of the table must match the registered endpoints, the lock
  must survive exceptions, and the whole must converge to the directory.
* *AuthzCache.* Checks of the same key overtake each other while the server
  changes its mind, or the configured server changes, and an exchange with the
  server may last several timeouts. What a caller is told must be bounded in age,
  the cache in size, and a verdict of the server must reach the caller.
* *JWKS.* Rotations, reloads, four retries under one lock, and invalidations by
  other requests, while a request waits. A key in use must be current, an answer
  that was overtaken must be dropped, a served key must not be refused.
* *ConfigManager.* It is deaf until its task runs and in the pauses after an
  error; `_swap` suspends in subscribers while the file changes again; a
  subscriber may raise. Subscribers compare an "old" with a "new" configuration
  and never with their own state, so none may be skipped or told out of order.
* *ProxyClient.* A reload compares two configurations, never the clients
  themselves, is suspended in every `aclose()` while requests run, and is abandoned
  at a URL httpx cannot parse. After any sequence of reloads the clients and tokens
  must be those configured, but for what an abandoned one left behind; none may be
  left open and forgotten, and no token may go to the URL of another configuration.
* *ProxyRouter.* A request is suspended while its token is validated and while its
  body is read, and keeps the route, the issuer and the client it had before. An
  agent trusts four headers: they must say who the caller is, whatever headers he
  sent.
* *Lifecycle.* `config_watch` never ends by itself, a request may never end, a task
  may have died long ago; the process must end nonetheless, and the clients may be
  closed only after everything that uses them.

PROJECT.json lists the hazards one by one, each at its line.

## 2. The modules

| Module | Models | Correspondence |
|---|---|---|
| `Lists` | list comprehensions and `sort` of Python | `Keep(s, I)` is `[s[i] for i in I]`, `Ranked` a stable sort by a strict order; written with `Cardinality`, without recursion, so that proofs can use them |
| `Prefixes` | prefixes and paths of `routes.py` | a path is the sequence of what follows each slash, the empty segment included (`//`, a trailing slash); `PrefixLen`, `Matches`, `Overlaps`, `WhitelistMatches` are the string operations of the code on that representation |
| `RouteTable` | `RouteEntry` and the list operations | entries, what a configuration contributes, `Sort`, `Accepted` (which declarations of an agent are admitted and which are skipped), `Extend`, `Lookup` |
| `RouteRegistry` | `RouteRegistry` | one action for each method that changes the table, `routes`, `cpPrefixes`, `authzPrefixes` as variables |
| `RouteOwnership` | the promise of the registry to its callers | who owns which prefix and what is reserved: `Claim` and `Reconfigure` |
| `Discovery` | `AgentDiscovery` with the registry it fills and the client set it prunes | tasks `main`, `watch`, `periodic`, `reload` and refresh requests; `pc[t]` is what each is suspended in. `Begin` is `reconcile` from the lock to its first fetch, `Register` the resumption with an answer up to the next fetch or to the release of the lock; `ScanFails` the OSError of `iterdir`, with what it does to each caller. `held` are the targets of routes that requests have looked up and may still open a client for |
| `AuthzCache` | the cache and `has_permission` | `Ask` is `get` up to the request to the server, `Progress` the next phase of the exchange, which has the timeout for itself, `Put` the resumption; the dict is a sequence in insertion order because the eviction depends on it |
| `Jwks` | `JWKSManager` under `validate_request` and the background task | `active` is the task that runs; it goes on until it waits for the lock or the endpoint. `lockq` is `_fetch_lock`, FIFO as asyncio's |
| `ProxyClients` | `ProxyClient` and the table it is used with | `Reload` is `_swap` up to the first `aclose()`, `ResumeReload` every further part; `stage`, `at`, `removing`, `adding` say where in the loops of `_on_config_changed` it is suspended; `Abandon` is the end of a reload that met a malformed URL. `DiscoveryUpdates`, `Prune` and `CloseAgentClient` are what discovery does to the table and the agent clients |
| `Dispatch` | `dispatch` and `proxy_to_*` / `_proxy_request` | `Arrive` is `dispatch` up to the first suspension, for each of its branches; `Validated` and `Refused` end `validate_request`; `Send` is the end of the reading of the body. `req[t]` is the task's local variables |
| `Broadcast` | the promise of ConfigManager to its subscribers | `Publish` a configuration, `Deliver` it to the next subscribers, in order |
| `ConfigManager` | `config.py` | the file, `awatch` (`watcher`, `event`), `_swap` as `Reload` and `ResumeSwap`, suspended in the subscriber `at` |
| `Lifecycle` | `run()` of `__main__.py`, `AgentDiscovery.start`, the end of every task | `main` is the place in `run()`; `Timeout` and `NextTask` its loop over the tasks; `DiscoveryStarts` … `DiscoveryEnds` the two children and the `finally` |
| `MCRouteRegistry`, `MCDiscovery`, `MCAuthzCache`, `MCJwks`, `MCDispatch`, `MCLifecycle` | instances for TLC | definitions of the small constants and symmetries; `MCDiscovery` also states the liveness of `Discovery` (`Converges`, `SafetyNetHolds`) and `NoGhosts` |
| `Lists_proofs`, `RouteTable_proofs`, `RouteRegistry_proofs`, `Discovery_proofs`, `AuthzCache_proofs`, `Jwks_proofs`, `Lifecycle_proofs`, `Dispatch_proofs` | theorems | see section 6 |

How they compose. `Discovery` and `ProxyClients` each have `RouteRegistry` as an
`INSTANCE`: what discovery and a reload do to the table are the registry's actions
themselves. `Dispatch` extends `ProxyClients`, so requests, reloads and discovery
interleave over one set of clients and one table; the verdict on a token is the
operator `Accepts`, whose inside is `Jwks`. `Lifecycle` extends `ConfigManager`,
whose watcher is one of the tasks of the process; the four subscribers of
`ConfigManager` are, each in its own module, `RouteRegistry!OnConfigChange`,
`Jwks!UpdateConfig`, the rest of `ProxyClients!Reload`, and the reload task of
`Discovery`.

History variables record what no variable of the program holds and properties
need: `shown` (the declarations last registered for an agent), `refreshed` (the agents
a refresh registered last), `until` and `left` (when a server last said something,
when it was last configured), `dirty`,
`steady`, `failed`, `overtaken` (keys invalidated since they were fetched; the
endpoint served a request's key all the while; a fetch of the request failed; a
reload came during its last fetch), the field `seen` of a request (the
configurations in force or being replaced while it was dispatched), `opened` (every
client created, which also numbers them), `stale` and `untold` (the upstreams whose
client an abandoned reload did not replace, and whose token it did not store), the
field `behind` of a request (its upstream was one of those), `missed` (nobody will be
told of the last change of the file), `expired` (tasks that were given their ten
seconds). No guard reads them. Operators whose comment begins with "Mutant:" are not
part of the model: each is a plausible bug in the definition below it, and the run that checks
the property must fail with it.

## 3. The runs

All finish within a few minutes with two workers. "States" are distinct. The runs
that end with a violation are the findings of section 5.

| Run | Shows | Instance and why it is enough |
|---|---|---|
| `registry` | `LongestPrefixWins`, `ReservedListsMatch`, refinement of `RouteOwnership` after any sequence of the seven methods | 2 agents that contend; prefixes that nest (`/a`, `/a/b`), end with one slash or two, are disjoint (`/b`) or invalid (`/`); 3 configurations that reserve an agent's prefix, free it, or nest in it. The table is finite, so nothing is bounded |
| `discovery` | `RoutesMatchAgents`, `OnlyRefreshesRevive`, `LockDiscipline`, `NewestAnswerStays`, refinement of `RouteOwnership` | agents x and y contend for a prefix and x moves to another one; `.sock` and `.http`; a refresh of one or all of them, 1 change of the directory, 1 reload (which toggles `.http`), 1 failing scan: a refresh and two reconciles of the same agent overlap. 3.1 million states |
| `discovery_live` | `Converges` | 1 agent, 1 refresh request, 1 change, 1 reload, 1 target that requests hold: what can be left over is left over by one of these |
| `discovery_scan_error` | violation of `SafetyNetHolds` | 1 change, 1 failing scan |
| `authz_staleness` | `AnswersAreRecent`, `CacheBounded` | 3 keys for 2 places, so that both ways of making room and the exception occur; 2 checks, 1 server and none, 1 change of a decision or of the URL, lifetimes 2 and 1, timeout 1, 2 phases, instants 0..3: an exchange lasts longer than a timeout, an entry is written, outlives its cause, is served and expires. 9.3 million states, up to symmetry |
| `authz_evict` | violation of `AnswersAreDelivered` | the same places and keys, one phase, no changes |
| `jwks` | `KeyInUseIsCurrent`, `ServedKeyIsAccepted`, `NoFetchDiscarded` | 2 requests and the background task, 2 endpoints and a reload that moves to the other one at any moment, 2 versions of the key, 1 rotation, lifetime 1, instants 0..2, so from the boot of the host: a key expires, is rotated or is replaced by the reload while both requests and the background task queue for the lock. 10.5 million states, up to the symmetry of requests and endpoints |
| `jwks_live` | `EveryRequestEnds`, `InstalledFromCurrentUrl` | 2 endpoints, 1 reload during anything, failing attempts, a queue of 3 for the lock; 1.8 million states |
| `dispatch` | `AgentsKnowTheCaller`, `NodeTokenMatchesUrl`, `AuthzTokenMatchesUrl`, `SettledClientsMatch`, `NoClientIsLost` | 2 requests by either listener, to an agent (a whitelisted path or not), a controlplane or authz, without a token and with forged trusted headers, or with a good and a bad token; 2 reloads among 4 configurations, which add, replace and remove controlplanes, change the tokens, replace authz or take it away, change the issuer, or have a malformed URL, so that a reload is abandoned and another one follows; 1 change by discovery; prunes at any time. 1.5 million states, up to the symmetry of the requests |
| `dispatch_abort` | violation of `ReloadsTakeEffect` | 1 request, 2 reloads; a fifth configuration has a malformed authz URL |
| `dispatch_closed` | violation of `StatusIsDocumented` | 1 request, 1 reload |
| `lifecycle` | `NothingOutlivesTheClients`, refinement of `Broadcast`, `ShutdownEnds`, `ChangesTakeEffect` | 2 changes of the file (to another valid content, with another listening address, or to an invalid one) at any moment from the first reading to the end, 1 exception of the watcher, 1 request in flight at each server, which need not end; a dying discovery task and a dying child; 325 000 states |

What the properties say, in words:

* **LongestPrefixWins**: whatever the history of the table, the entry that routes a
  request is at least as long as every other entry that matches it.
* **ReservedListsMatch**: declarations are validated against exactly the prefixes
  in use.
* **ImplementsOwnership**: a step gives prefixes to one agent at a time, only valid,
  free and unreserved ones; a reload takes prefixes away, never gives them.
* **RoutesMatchAgents**: an entry points at the endpoint its agent is registered
  with, whatever task is suspended in a fetch.
* **OnlyRefreshesRevive**: an agent the last scan did not find is registered only if
  a refresh registered it; `NoGhosts`, which fails, says that there is none when
  nobody reconciles.
* **LockDiscipline**: the tasks that wait for or hold the reconcile lock are those
  in its queue, once each, and only its head is past it.
* **NewestAnswerStays**: an answer of an agent is overwritten by an older one only if
  a refresh registered one of the two.
* **Converges**: when the directory stops changing, the registered agents become
  what it asks for and stay so, and the client set has nothing else.
* **AnswersAreRecent**: a verdict a caller is told was given by a server at most the
  lifetime of the verdict and one timeout for each phase of an exchange ago, and that
  server was the configured one at most that long ago.
* **CacheBounded**: size, one entry for a key.
* **KeyInUseIsCurrent**: a token is checked with a key that is younger than its
  lifetime and was not invalidated since it was fetched, except by a request whose
  own last fetch a reload overtook; as long as the host is up for less than the
  lifetime, it may have been invalidated. `InvalidationForcesRefresh` and
  `ReloadInvalidatesKeys` are what the documents say without these exceptions.
* **ServedKeyIsAccepted**: a request whose key the endpoint served all the while,
  none of whose fetches failed and whose last one no reload overtook, is not refused
  for its key once the host is up for a lifetime.
* **NoFetchDiscarded**: only a reload makes a fetch be thrown away.
* **InstalledFromCurrentUrl**: what a fetch installs is what the configured endpoint
  answered, though the URL may have changed during the fetch.
* **EveryRequestEnds**: every request with a token gets an answer.
* **AgentsKnowTheCaller**: what an agent reads from the trusted headers is what the
  node established, and an external caller of a path that is not whitelisted has a
  genuine token of an issuer that was configured while his request was dispatched.
* **NodeTokenMatchesUrl**: URL and token of a local controlplane request are of one
  configuration, in force or being replaced when it was dispatched, unless an
  abandoned reload left the controlplane behind.
* **AuthzTokenMatchesUrl**: only local requests reach the authz server, and the same
  holds of their URL and token, unless the reload in progress has not come to the
  token or an abandoned one never did. `AuthzTokenIsCorrect` makes no exception.
* **SettledClientsMatch**: between reloads the clients are open and are, with the
  tokens, exactly those the configuration asks for, except those an abandoned reload
  left behind and no later one came to. `ReloadsTakeEffect` asks it of every
  configuration whose clients can be created.
* **NoClientIsLost**: a client that is not closed is registered or about to be
  closed, in the middle of a reload too, and a registered agent client is open.
* **ImplementsBroadcast**: every subscriber is told of every configuration that comes
  into force, in order, one configuration at a time, also when one raises; the
  listening address never changes.
* **ChangesTakeEffect**: the last change of the file that the watcher can hear of is
  what all subscribers end up with.
* **NothingOutlivesTheClients**: when the clients are closed every task and every
  child of discovery has ended, and a server that was not given its time in vain has
  no requests left.
* **ShutdownEnds**: a signal ends the process.

Deadlock is not checked where the system really may stop in the model: the
registry runs for ever only by repeating itself, the discovery and JWKS instances
run out of changes, instants or requests (a task that has replied is done), those
of `Dispatch` of requests, reloads and updates, and a process that exited is over.
It is checked in the AuthzCache runs.

Bounds (named in the cfgs): `MaxChanges`, `MaxReloads`, `MaxScanErrors`,
`MaxRotations`, `MaxUpdates`, `MaxFailures`, `MaxRequests` limit what the
environment does, `MaxNow` the clock; `Attempts` is 2 instead of 4, since only
"another one follows" and "the last one" differ; `EvictBatch` is 2 instead of 500,
since the eviction fails at its second round; `MAX_SIZE` is 2; `MaxHeld` limits
the targets that requests hold in `Discovery`. `Phases` is a constant of the
model, any number for the proofs and 2 for the run: httpx bounds the length of each, not
how many there are. Symmetry is used in `jwks` (requests, endpoints), `dispatch` (requests) and the AuthzCache runs (keys,
requests, servers), over sets none of whose members a definition names,
and never in a run with a liveness property.

## 4. Fairness

* `Discovery`: weak fairness of every step of a task (the event loop runs ready
  tasks; `asyncio.Lock` is FIFO), of the timers (periodic, restart of the watcher)
  and of the delivery of a pending event. A fetch ends because httpx has a timeout.
  Strong fairness only of "the fetch of the periodic task from agent a is
  answered": an agent that is reachable again and again does not fail *every*
  periodic fetch. Nothing else would justify convergence, and without it an agent
  may fail all of them. A request that holds a route goes on. Changes of the
  directory, reloads, requests and failures are not fair.
* `Jwks`: a running task runs on, the lock is handed over, an attempt ends by the
  timeout of the client. `Answer` and `AttemptFails` are fair only together: the
  endpoint may never answer.
* `Lifecycle`: weak fairness of the steps of `run()` (`Serve`, `ShutDown`,
  `NextTask`, `Exit`), of the timer of `wait_for` (`Timeout`), of the end of a task
  that was cancelled, of the `finally` of discovery (`CancelChildren`,
  `DiscoveryEnds`), and of the watcher except for its exception: the subscriber a
  swap is suspended in returns because its fetches and closes have timeouts.
  Signals, requests and the end of a task that nobody cancelled are not fair, so a
  server may keep its request until its time is up.

## 5. Findings

| Run | Where | What |
|---|---|---|
| `discovery_scan_error` | `discovery.py:303` | the call in the `except` handler is not protected: one OSError ends the periodic reconciliation for good, although `discovery.py:293` calls it the safety net for missed events |
| `authz_evict` | `cache.py:55` | the eviction pops from the dict it iterates over: the second round raises RuntimeError and the check ends with 500 |
| `dispatch_closed` | `proxy_client.py:265` | a reload (`:95`, `:87`) or a prune (`:124`) closes a client while a request that chose it still reads its body; `send` of a closed client raises RuntimeError, which is no httpx error, and the request ends with 500, which `docs/3-proxying.md:138` does not list |
| `dispatch_abort` | `proxy_client.py:96`, `:230` | httpx raises InvalidURL for a malformed URL after the former client was closed; `config.py:120` logs it and the rest of the reload is skipped: later controlplanes, the authz client and its token. The next reload compares configurations, so what was skipped looks unchanged and stays, against `proxy_client.py:77` |

More disagreements between the code and what its documents say are stated as
properties of the modules. TLC finds each of them violated within seconds when it is
added to the cfg as an INVARIANT; they have no run of their own. The passing runs check
instead what holds in spite of them.

| Property, with cfg | Where | What |
|---|---|---|
| `WhitelistedCarryNoAuth`, `Dispatch.cfg` | `apps/proxy.py:93` | a whitelisted request carries `X-Auth-Source: external` and empty claims; `docs/3-proxying.md:121` says "Whitelisted requests are forwarded **without** `X-Auth-*` headers.", `docs/1-overview.md:111` "No auth headers are forwarded." |
| `AuthzTokenIsCorrect`, `Dispatch.cfg` | `proxy_client.py:100` | the new authz client is visible while the former one is closed, the token is stored after that (`:101`): a request in between sends the former token to the new server; `docs/1-overview.md:16` says the node "attaches the correct JWT downstream" |
| `AgentRoutesAvoidConfig`, `RouteRegistry.cfg` | `routes.py:78` | a reload keeps agent entries without validating them, so an agent keeps, and answers on, a prefix the configuration now reserves; `docs/4-write-agent.md:29` says a prefix cannot overlap one, `docs/1-overview.md:226` that agent routes are preserved |
| `NoGhosts`, `Discovery.cfg` | `discovery.py:109` | a refresh registers without the reconcile lock and without looking at `_agents` again, so an agent that was removed during the fetch is back until the next reconcile; `docs/4-write-agent.md:334` says its routes are deregistered |
| `InvalidationForcesRefresh`, `Jwks.cfg` | `jwks.py:48` | `invalidate` marks keys with the instant 0.0, which looks fresh to a monotonic clock below the lifetime of a key, 300 s by default: up to then after the boot of the host keys that were invalidated are used and not refreshed, against `jwks.py:47`, "Force a refresh on the next get_signing_key call." |
| `ReloadInvalidatesKeys`, `Jwks.cfg` with `BootTime = 1` | `jwks.py:44` | a reload during a fetch makes its answer be dropped (`:110`), and the request that fetched uses the keys of the former URL; `docs/1-overview.md:224` says "JWKS URL/TTL updates with key cache invalidation" |
| `RefreshesHalfway` as a PROPERTY, `Jwks.cfg` with `Ttls = {4}`, `BootTime = 4`, `MaxNow = 6` | `jwks.py:90` | the background task wakes halfway through the lifetime, finds the keys fresh and fetches nothing, against the comment of line 73 |

Observations made while modelling:

* If the fetch a reload overtook was that of a request's second attempt, a genuine
  token that both endpoints
  serve is answered with 401 (`validator.py`); the next request refreshes.
* An outage of the endpoint in the second attempt of `validate_request` gives 401,
  not 503 (`validator.py:78`); `ServedKeyIsAccepted` therefore excepts requests one
  of whose fetches failed.
* A restart of an agent at the same path is never fetched again (`discovery.py:144`),
  although `docs/4-write-agent.md:332` says routes are re-checked.
* `.http` agents may be registered once more right after a reload that disables them,
  by a task that scanned before (`discovery.py:238`); the reconcile of the reload
  removes them.
* An external request to a controlplane may be validated by `X-Auth-Token` but is
  forwarded with its `Authorization` header, possibly the empty string
  (`apps/proxy.py:72`), where `docs/3-proxying.md:73` speaks of one token.
* During a reload a request can be routed by the new table with the client of the
  old URL: the reason why `NodeTokenMatchesUrl` speaks of the configurations in force
  *or being replaced*.
* A URL of agents never aborts anything in the model: discovery fetches the routes of
  an endpoint from its URL first (`discovery.py:313`), so a malformed one is never
  registered.
* With two overlapping refreshes of an agent the older answer may be registered last;
  `NewestAnswerStays` excepts refreshes, and no document promises it of them.
* A request that was validated before a prune re-creates the client of an agent that
  is gone; the next reconcile prunes it (`NoClientIsLost`).
* An exception of `aclose()` would abandon a reload as a malformed URL does. httpx
  does not raise there in practice, and the model has no such step.
* An answer of the authz server that is JSON but no object, and a configured URL that
  is none, make `has_permission` raise: 500 instead of the 503 of `admin.py:74`
  (`malformed` in `AuthzCache`).
* `_stream_response` decodes (`aiter_bytes`, `proxy_client.py:356`) but keeps the
  `content-encoding` of the upstream (`:345`).
* Changes of `config.json` between the first reading and the start of the watcher,
  and in its five-second pauses, go unnoticed until the next one (`config.py:63`,
  `:88`), against `docs/1-overview.md:223`; `missed` excepts them from
  `ChangesTakeEffect`. Changes of `socket_dir` and `admin_socket` are accepted and
  ignored, while `docs/1-overview.md:227` names only `listen`.
* `config_watch` never ends by itself, so every shutdown lasts at least ten seconds.
  The requests of a server that was cancelled after its ten seconds go on and are cut
  off by `aclose`. A task that dies while the node serves (discovery, when its first
  reconcile raises) is noticed by nobody. `JWKSManager.close()` is called by nobody.
* The timeout of the client library for a permission check is the five seconds the
  node itself allows the authz server (`client_async.py:49`), so a late 503 may find
  nobody to read it.

## 6. The proofs

Checked with `tlapm` for all values of the constants, from the named assumptions of
the modules: `NoneIsNoName` and `InputTypes` (types of the agents, declarations,
configurations and paths), `DiscoveryConstants` (types; a response declares at least
one list; a refresh is no reconciler), `CacheConstants` (positive lifetimes, a positive
`MAX_SIZE`), `JwksConstants` (the background task is no request; at least one
attempt; None is no task, URL or key id), `ConfigConstants` and `LifecycleConstants`
(an invalid content is no configuration; bounds are numbers), `ProxyConstants` (types;
one URL for a controlplane's name, which `config.py` validates; None is no client) and
`DispatchConstants` (types; None is no token; a caller has no token of the node in his
headers). TLC evaluates each of them in a passing run. No theorem has a hypothesis
beyond these.

Every invariant, every action property and every refinement that a passing run
checks is a theorem:

| Theorem | States |
|---|---|
| `RouteTable_proofs!SortSorts` | sorting permutes the entries, orders them by length and is stable for agents before configured entries |
| `RouteTable_proofs!ExtendExtends` | admission adds only valid, free, unreserved prefixes of that agent to a sorted table |
| `RouteRegistry_proofs!TypeCorrect`, `LongestPrefix`, `ReservedListsAgree` | the invariants of run `registry` |
| `RouteRegistry_proofs!Refinement`, `OneOwner` | `RouteRegistry` implements `RouteOwnership`; hence no prefix has two owners |
| `Discovery_proofs!DiscoveryTypes`, `RoutesPointAtAgents`, `OneReconciles` | types; `RoutesMatchAgents`; `LockDiscipline` |
| `Discovery_proofs!RefreshesReviveOnly`, `NewestAnswersStay` | `OnlyRefreshesRevive` and `NewestAnswerStays`, with any number of refreshes |
| `Discovery_proofs!DiscoveryRefines` | discovery uses the registry within the promise of `RouteOwnership` |
| `AuthzCache_proofs!CacheTypes`, `CacheStaysBounded` | types; bound and one entry for a key |
| `AuthzCache_proofs!BoundedStaleness` | `AnswersAreRecent` |
| `Jwks_proofs!KeyTypes`, `OneTaskFetches`, `KeysOfCurrentUrl` | types; mutual exclusion of the fetch lock; `InstalledFromCurrentUrl` |
| `Jwks_proofs!FetchesCount` | `NoFetchDiscarded` |
| `Jwks_proofs!KeysInUseAreCurrent`, `ServedKeysAreAccepted` | `KeyInUseIsCurrent` and `ServedKeyIsAccepted`, from the boot of the host |
| `Lifecycle_proofs!LifeTypes`, `GracefulShutdown`, `SubscribersAreTold` | types; `NothingOutlivesTheClients`; the process implements `Broadcast` |
| `Dispatch_proofs!CallersAreKnown`, `TokensStayHome`, `AuthzTokensStayHome` | `AgentsKnowTheCaller`, `NodeTokenMatchesUrl`, `AuthzTokenMatchesUrl` |
| `Dispatch_proofs!DispatchTypes`, `SettledClients`, `NoneLost` | types; `SettledClientsMatch`; `NoClientIsLost` |

The arguments:

* *Registry.* The checked invariants are not inductive: they speak of the entries a
  path happens to hit, and of the order only for those. The invariant `IInv` says
  that the table is sorted, that an agent entry precedes every other entry of its
  prefix (so no prefix has two agents; a reload puts the agents in front and the
  sort is stable), that exactly agent entries have an agent, and that the reserved
  lists are the prefixes of the configured entries. Each method is a composition of
  filtering, appending and sorting; `Lists_proofs` shows what filtering and sorting
  by rank return (a bijection of indices that respects the order),
  `RouteTable_proofs` what this means for tables, and the step of each method
  follows.
* *Refinement.* A registration maps to `Claim` of that agent's resulting prefixes, a
  reload, the removal of several agents and the two setters to `Reconfigure`.
* *Discovery.* `DiscInv` says that the queue of the lock, without repetition, holds
  exactly the reconcilers that wait or work and that only its head works (`LockInv`);
  that an active task works on an agent of its plan, with an answer that agent gave
  (`WorkInv`); and that the entries of an agent have its endpoint
  (`RoutesMatchAgents`): what `Register` and the removals leave of a table comes from
  `RouteTable_proofs`. `Begin`, `Register` and a failing fetch all end in the same
  way (the next fetch, or the release of the lock with what the caller does next), so
  each of these ends is one lemma.
* *Discovery and refreshes.* `QuietInv` adds `GhostInv` (only the holder of the lock
  and refreshes add agents, and the plan of the holder is within its scan) and
  `AgeInv` (what is shown of an agent is not newer than what it serves, and the
  answer of the holder is not older than what is shown, unless a refresh registered
  that). Refreshes fetch without the lock (`discovery.py:109`), any number of them at
  any time; `refreshed` says which registrations are theirs, and the two theorems
  except exactly those.
* *Discovery refines.* `OwnInv` adds that the prefixes in the table and in the
  reserved lists are known ones. A registration is a `Claim`, a removal, the removal
  of stale agents and a reload are `Reconfigure`, everything else stutters.
* *Cache.* `Distinct` and the length bound are kept because `put` makes room before
  it stores a new key, and stores in place a key that is there, even if another
  check has put it since the lookup. When the eviction raises, one entry is gone and
  nothing is stored.
* *Staleness.* httpx grants `Timeout` to each phase of an exchange, so an exchange
  lasts up to `Exchange = Phases * Timeout`. `ExchangesTimed` relates the start of a
  request, its phase and the instant that began; the rest relates each entry and each
  request in flight to the past: a request went to the server that was configured
  when it was sent, and carries an answer given since; an entry with expiry `e` and
  lifetime `l` is backed by a server that said so, and was configured, not before
  `e - l - Exchange`. A server that changes its mind and a reload keep this because
  both record the present as the end of what they end (`BacksDecide`,
  `BacksReconfigure`).
* *JWKS.* `LockInv` describes the lock as a queue without repetition whose head is
  the only task past it. `FetchInv` says that a fetch whose generation is still the
  current one was sent to the URL that is still configured: a reload increments the
  generation, and so does an invalidation. `Install` compares generations, so what
  it installs is from the current URL.
* *Keys in use.* `ServeInv` says more of the fetch that is under way. It was begun
  because the keys were missing, too old or invalidated, and meanwhile no task is past
  its refresh, unless a reload came (`NeededInv`), so nobody decodes with what it
  replaces. No second fetch is begun for the same reason (`NoFetchDiscarded`): the
  re-check under the lock. Between two suspensions only one task runs (`AloneInv`).
  Once a task has insisted on a kid, the keys that are or will be installed were
  fetched after that (`InsistInv`); with the age of the keys (`AgeInv`) and the key of
  each request (`LifeInv`) this gives both properties. `invalidate` marks the keys with
  the time 0, which `get_signing_key` takes for an instant: `Current` says that
  keys in use are young or just fetched, and not invalidated once the clock, the
  uptime of the host, has passed their lifetime. No lifetime and no uptime is
  assumed; before that instant the properties claim nothing of invalidated keys.
* *Process.* `MainInv` says that the tasks before the awaited one have ended,
  `ServerInv` that a server that ended without its time running out has no requests,
  `ChildInv` that discovery ends after its children; together they give
  `NothingOutlivesTheClients`. `SwapInv` says that the subscribers up to the one a
  swap is suspended in were told of the current configuration, and all of them when
  there is no swap, unless the watcher was cancelled; this is the guard of `Publish`
  and makes the rest of a swap a sequence of `Deliver`.
* *Dispatch.* `ReloadInv` says how far a reload has come. `NodeInv` says that every
  controlplane it has still to treat (`Pending`) has the URL and token of the former
  configuration and every other one those of the new one (`CpSettled`, `CpMoving`),
  and the like of authz; `stale` and `untold` name those an abandoned reload left
  without their client or their token, until a reload comes to them again. The loops
  of `_on_config_changed` go on in four ways, removing, replacing, abandoning,
  finishing (`RemoveKeeps`, `ReplaceKeeps`, `AbandonKeeps`, `FinishKeeps`;
  `OnwardKeeps` joins them). `RoutesInv` says that a controlplane entry names a
  controlplane, from what sorting, filtering and `Extend` return. `Prepared` says what
  a request holds in each of its suspensions: while its token is validated, that it
  needs one and has one, and that its issuer was configured; afterwards, that client
  and headers are those of its kind (`Vouched`, `Matched`, `OneAuthz`). The theorems
  follow from what `_build_upstream_headers` leaves of such headers. `seen` only grows
  while a request is validated, so a reload does not disturb it.
* *Clients.* `ClientInv` is about the clients themselves. The client of a controlplane
  is one made for it, and the clients a reload has still to treat (`Pending`) are older
  than that reload (`CpClientsInv`, the like for authz); a closed client of the node is
  older than the last reload, so a client a reload makes is not a closed one
  (`ClosedInv`); clients of agents are numbered by how many there were, so a new one
  is new (`AgentClientsInv`); an open client is registered or in the hands of the
  prune that will close it; and the only registered clients that are
  closed are that of `at`, whose URL has changed, and those of `stale`. `RemoveClients`,
  `ReplaceClients`, `AbandonClients` and `FinishClients` treat the four ways the loops
  go on. `NoClientIsLost` follows, and `SettledClientsMatch` with `NodeInv` of an idle
  reload. `TypeInv` says which fields a request has in each of its suspensions.

Only model-checked: liveness (`Converges`, `EveryRequestEnds`, `ShutdownEnds`,
`ChangesTakeEffect`), as liveness under fairness and ENABLED are out of the prover's
reach, and the violations of section 5, which are counterexamples.

## 7. Abstractions

* A path is the sequence of what follows each of its slashes: segments one character
  long, or the empty segment (`//`, a trailing slash). Strings that do not begin with
  a slash are left out: no request path matches such a prefix. `PrefixLen` counts
  characters as the code's sort key does. A controlplane without prefixes is not
  represented: the prefixes of all of them are one flat list.
* The validity of a token, beyond the key it was signed with, is left out of `Jwks`:
  `Decode` models the signature and the retry it triggers. `Dispatch` has the whole
  verdict as one set of genuine tokens with an issuer each; the issuer stands for
  issuer and audience together, which `decode_jwt` (`helpers.py:33`) compares alike. A token
  without a kid and the missing header end before any state is touched. A blank token
  or another scheme counts as none.
* `AuthzCache._lock` is never contended: no `await` is inside its sections, so each
  section is part of the step that enters it.
* An exchange with the authz server is `Phases` phases (connection, request, each
  read), each with `Timeout` for itself. An answer that cannot be used raises and ends
  as 500 (`malformed`), every httpx error as 503.
* The URL of an agent's endpoint is never malformed (section 5). Every `aclose()` may
  suspend, and never raises.
* In `Discovery` requests hold at most `MaxHeld` routes they have looked up; they open
  a client for any of them, however old. The closing of a pruned client is left out
  (only the set of targets that have a client is kept); it is an action of
  `ProxyClients`.
* A change of the directory is one file at a time; `awatch` may miss it (`event'`
  may stay FALSE). An unreachable agent and a failing one both end a fetch by
  `FetchFails`.
* `refresh_all` fetches in any order, `reconcile` the `.sock` agents before the
  `.http` ones, in any order among themselves (the order of `iterdir`). A reload
  treats the controlplanes in any order (that of the dictionaries).
* The clock of `AuthzCache` and `Jwks` is an integer; several steps happen at one
  instant.
* `Dispatch` leaves out the disconnection of clients, the rewriting of the path and
  the headers of the response; `X-Auth-Sub`, `X-Auth-Roles` and `X-Auth-Jti` are set
  together and are one header. The local variables of a request are reset when it
  ends, as its task is gone. A client is a record of what it is for, its URL and its
  birth, so that two clients for one URL differ.
* `Lifecycle` leaves out the signal handlers of uvicorn, a failing bind and the file
  of the local socket. A crash keeps nothing, so a restart is a new behaviour: every
  reachable state of boot is an initial one.

## 8. The plan

Done: the registry with its ownership refinement, discovery over the registry, the
permission cache, key management with reloads; the clients and the dispatch of
requests over them; the configuration manager with its broadcast refinement inside
the process it runs in; the proofs of section 6, of every safety property of the runs.

Next, in this order:

1. Abstract specifications: a membership specification for discovery (an agent is
   registered only if a scan or a refresh found it), a bounded-staleness oracle for
   the cache, with `AuthzCache` shown to implement it.
2. What settles after a refresh: an agent that left is gone after the next reconcile
   that began after the refresh ended. `Converges` shows it in the end, not when.
3. The hazards without a property: a restart of an agent at the same path
   (`discovery.py:144`), the period of the background refresh (`jwks.py:75`) and the
   timeout of the client library (`client_async.py:65`). In each the code does not
   settle what is promised; the notes in PROJECT.json say what is missing.

Not modelled, and not planned: the HTTP wrappers of the client library (stateless;
its parsing of the trusted headers is `ContextFrom` of `Dispatch`), the development
servers (examples used by hand), logging, and uvicorn and httpx themselves.
