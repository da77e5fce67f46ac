----------------------------- MODULE ProxyClients -----------------------------
(***************************************************************************)
(* ProxyClient (proxy_client.py): the long-lived HTTP clients for agents,  *)
(* controlplanes and the authz server, with the JWTs of the node, and the  *)
(* routing table they are used with.                                       *)
(*                                                                         *)
(* A reload (ConfigManager._swap) changes the configuration and the table  *)
(* in one step, and runs ProxyClient._on_config_changed from there.  That  *)
(* one suspends at every aclose() of a client, so a reload is many steps.  *)
(* aclose() marks the client as closed before it suspends; it suspends in  *)
(* fact only when it has connections to close, and the model lets it       *)
(* suspend always.                                                         *)
(*                                                                         *)
(* httpx raises InvalidURL for a URL it cannot parse when the client is    *)
(* created.  _swap logs the exception, and the rest of the reload is       *)
(* skipped: what it left behind is in "stale" and "untold".                *)
(***************************************************************************)
EXTENDS RouteTable

CONSTANTS Configs,       \* the configurations config.json may hold
          BootConfigs,   \* those the process may be started with
          Declarations,  \* the route lists agents may answer with
          Endpoints,     \* [transport, address] agents may be reached at
          NodeToken,     \* jwt_token values
          Issuer,        \* values of jwt.issuer and jwt.audience, as one
          Malformed,     \* URLs httpx does not accept
          MaxReloads,    \* bound: reloads of config.json
          MaxUpdates     \* bound: changes discovery makes to the table

\* the part of Config that RouteTable does not know
FullConfigType == [routing: ConfigType, token: [CpName -> NodeToken],
                   authzToken: NodeToken, issuer: Issuer]

CpNames(c) == {c.routing.cps[i].name : i \in DOMAIN c.routing.cps}

\* _validate_controlplanes: a name has one entry, hence one URL
OneUrlEach(c) ==
    \A i, j \in DOMAIN c.routing.cps :
        c.routing.cps[i].name = c.routing.cps[j].name =>
            c.routing.cps[i].url = c.routing.cps[j].url

\* A client is told from another one for the same upstream by its birth: the
\* reload that created it, or the number of clients its target had before.
ClientType == [kind: {"controlplane", "authz", "agent"},
               of: CpName \cup Target \cup {None}, base: Target, born: Nat]
MaybeClient == ClientType \cup {None}

\* every client of the configuration can be created
WellFormed(c) ==
    /\ \A i \in DOMAIN c.routing.cps : c.routing.cps[i].url \notin Malformed
    /\ c.routing.authz.url \notin Malformed

\* ProxyClient.__init__ raises before the node serves anything when a URL is
\* malformed, and discovery has fetched the routes of an endpoint from its URL.
ASSUME ProxyConstants ==
    /\ None \notin ClientType
    /\ Malformed \subseteq Target
    /\ Configs \subseteq FullConfigType /\ BootConfigs \subseteq Configs
    /\ \A c \in Configs : OneUrlEach(c)
    /\ \A c \in BootConfigs : WellFormed(c)
    /\ Endpoints \subseteq [transport: Transport, address: Target \ Malformed]
    /\ Declarations \subseteq Seq(DeclarationType)
    /\ MaxReloads \in Nat /\ MaxUpdates \in Nat

VARIABLES
    config,       \* ConfigManager.current
    reloads,      \* counter for the bound, and the number of the last reload
    routes, cpPrefixes, authzPrefixes,   \* the RouteRegistry
    updates,      \* counter for the bound
    cpClient,     \* _cp_clients, None where the name has no client
    cpJwt,        \* _cp_jwts
    authzClient,  \* _authz_client
    authzJwt,     \* _authz_jwt
    agentClient,  \* _agent_clients by target
    opened,       \* history: every client that was created
    closed,       \* the clients whose aclose() has begun
    closing,      \* agent clients handed to a task that will close them
    prev,         \* "old" of the reload in progress
    stage,        \* what the reload in progress is suspended in
    at,           \* the controlplane whose replaced client it is closing
    removing, adding, \* the controlplanes the reload has not come to yet
    stale,        \* history: the upstreams whose URL changed and whose client
                  \* was not replaced since
    untold        \* history: those the last reload did not store the token of

table   == <<routes, cpPrefixes, authzPrefixes>>
nodes   == <<cpClient, cpJwt, authzClient, authzJwt>>
behind  == <<stale, untold>>
reload  == <<prev, stage, at, removing, adding, behind>>
clients == <<nodes, agentClient, opened, closed, closing>>

\* The upstreams a reload is about; None stands for the authz server.
Upstream == CpName \cup {None}
manager == <<config, reloads, table, updates, clients, reload>>

Registry == INSTANCE RouteRegistry WITH
                Configs <- {c.routing : c \in Configs}, Paths <- {}

TypeOKClients ==
    /\ config \in Configs /\ prev \in Configs
    /\ reloads \in Nat /\ updates \in Nat
    /\ Registry!TypeOK
    /\ cpClient \in [CpName -> MaybeClient]
    /\ cpJwt \in [CpName -> NodeToken \cup {None}]
    /\ authzClient \in MaybeClient /\ authzJwt \in NodeToken
    /\ agentClient \in [Target -> MaybeClient]
    /\ opened \subseteq ClientType /\ closed \subseteq ClientType
    /\ closing \subseteq ClientType
    /\ stage \in {"idle", "removing", "adding", "authz"}
    /\ at \in CpName \cup {None}
    /\ removing \subseteq CpName /\ adding \subseteq CpName
    /\ stale \subseteq Upstream /\ untold \subseteq Upstream
-----------------------------------------------------------------------------
\* url of controlplane n in configuration c
UrlOf(c, n) ==
    c.routing.cps[CHOOSE i \in DOMAIN c.routing.cps : c.routing.cps[i].name = n].url

AuthzUrl(c) == c.routing.authz.url

\* _create_http_client for controlplane n and for authz, at reload k
CpClientOf(c, n, k) ==
    [kind |-> "controlplane", of |-> n, base |-> UrlOf(c, n), born |-> k]

\* Mutant: a client is created though there is no URL.
AuthzClientAlways(c, k) ==
    [kind |-> "authz", of |-> None, base |-> AuthzUrl(c), born |-> k]

AuthzClientOf(c, k) ==
    IF AuthzUrl(c) = None THEN None
    ELSE [kind |-> "authz", of |-> None, base |-> AuthzUrl(c), born |-> k]

InUse(cps, authz) == ({cps[n] : n \in CpName} \cup {authz}) \ {None}

InitClients ==
    /\ config \in BootConfigs /\ prev = config
    /\ reloads = 0 /\ updates = 0
    /\ Registry!InitWith(config.routing)
    /\ cpClient = [n \in CpName |-> IF n \in CpNames(config)
                                    THEN CpClientOf(config, n, 0) ELSE None]
    /\ cpJwt = [n \in CpName |-> IF n \in CpNames(config)
                                 THEN config.token[n] ELSE None]
    /\ authzClient = AuthzClientOf(config, 0)
    /\ authzJwt = config.authzToken
    /\ agentClient = [x \in Target |-> None]
    /\ opened = InUse(cpClient, authzClient)
    /\ closed = {} /\ closing = {}
    /\ stage = "idle" /\ at = None /\ removing = {} /\ adding = {}
    /\ stale = {} /\ untold = {}
-----------------------------------------------------------------------------
(* _on_config_changed.                                                      *)

\* the URL is new, so the client has to be
Changed(old, new, n) == n \notin CpNames(old) \/ UrlOf(old, n) # UrlOf(new, n)

\* the controlplanes among "names" whose present client has to be closed first,
\* and those whose client cannot be created
Replaced(old, new, cps, names) ==
    {n \in names : Changed(old, new, n) /\ cps[n] # None}

Broken(old, new, names) ==
    {n \in names : Changed(old, new, n) /\ UrlOf(new, n) \in Malformed}

AuthzChanged(old, new) == AuthzUrl(old) # AuthzUrl(new)

\* The reload ends without having replaced the clients of "missed".
LeavesStale(old, new, missed) ==
    stale' = {x \in CpNames(new) \cup {None} :
                 IF IF x = None THEN AuthzChanged(old, new) ELSE Changed(old, new, x)
                 THEN x \in missed ELSE x \in stale}

\* the clients once those of "done" are created or kept
Connected(old, new, cps, done, k) ==
    [n \in CpName |-> IF n \in done /\ Changed(old, new, n)
                      THEN CpClientOf(new, n, k) ELSE cps[n]]

\* Mutant: the token of a controlplane is kept when its URL is.
AuthorizedOnce(old, new, jwts, done) ==
    [n \in CpName |-> IF n \in done /\ Changed(old, new, n)
                      THEN new.token[n] ELSE jwts[n]]

Authorized(old, new, jwts, done) ==
    [n \in CpName |-> IF n \in done THEN new.token[n] ELSE jwts[n]]

\* It goes on to the next controlplane that disappeared: it drops the client
\* and the token, and closes the client.
Remove(n, cps, jwts, gone, left) ==
    /\ stage' = "removing" /\ at' = None
    /\ removing' = gone \ {n} /\ adding' = left
    /\ cpClient' = [cps EXCEPT ![n] = None]
    /\ cpJwt' = [jwts EXCEPT ![n] = None]
    /\ closed' = closed \cup {cps[n]}
    /\ UNCHANGED <<opened, authzClient, authzJwt, behind>>

\* It goes on to the next controlplane n whose client has to be replaced, past
\* those of "done", and closes the client of n, which stays registered.
Replace(old, new, n, done, cps, jwts, left, k) ==
    /\ stage' = "adding" /\ at' = n
    /\ removing' = {} /\ adding' = left \ (done \cup {n})
    /\ cpClient' = Connected(old, new, cps, done, k)
    /\ cpJwt' = Authorized(old, new, jwts, done)
    /\ closed' = closed \cup {cps[n]}
    /\ opened' = opened \cup InUse(cpClient', authzClient)
    /\ UNCHANGED <<authzClient, authzJwt, behind>>

\* Past those of "done", it comes to an upstream whose client cannot be created:
\* the exception ends the reload.
Abandon(old, new, done, cps, jwts, left, k) ==
    /\ stage' = "idle" /\ at' = None /\ removing' = {} /\ adding' = {}
    /\ cpClient' = Connected(old, new, cps, done, k)
    /\ cpJwt' = Authorized(old, new, jwts, done)
    /\ opened' = opened \cup InUse(cpClient', authzClient)
    /\ untold' = (left \ done) \cup {None}
    /\ LeavesStale(old, new, untold')
    /\ UNCHANGED <<authzClient, authzJwt, closed>>

\* Mutant: the authz token of the first configuration is kept.
KeepAuthzToken(new) == UNCHANGED authzJwt

StoreAuthzToken(new) == authzJwt' = new.authzToken

\* It is past the controlplanes: _replace_authz_client, which swaps the client
\* and then closes the old one, and the authz token after that.
FinishControlplanes(old, new, cps, jwts, left, k) ==
    /\ at' = None /\ removing' = {} /\ adding' = {}
    /\ cpClient' = Connected(old, new, cps, left, k)
    /\ cpJwt' = Authorized(old, new, jwts, left)
    /\ authzClient' = IF AuthzChanged(old, new) THEN AuthzClientOf(new, k)
                      ELSE authzClient
    /\ opened' = opened \cup InUse(cpClient', authzClient')
    /\ LeavesStale(old, new, {})
    /\ IF AuthzChanged(old, new) /\ authzClient # None
       THEN /\ stage' = "authz" /\ untold' = {None}
            /\ closed' = closed \cup {authzClient}
            /\ UNCHANGED authzJwt
       ELSE /\ stage' = "idle" /\ untold' = {}
            /\ StoreAuthzToken(new)
            /\ UNCHANGED closed

\* up to the next suspension, with the controlplanes "gone" to be removed and
\* "left" to be added or updated, in any order (that of the dictionaries)
Onward(old, new, cps, jwts, gone, left, k) ==
    LET loud   == Replaced(old, new, cps, left)
        broken == Broken(old, new, left)
        silent == left \ (loud \cup broken)
        lost   == AuthzChanged(old, new) /\ AuthzUrl(new) \in Malformed
    IN  \/ \E n \in gone : Remove(n, cps, jwts, gone, left)
        \/ /\ gone = {}
           /\ \E n \in loud, done \in SUBSET silent :
                  Replace(old, new, n, done, cps, jwts, left, k)
        \/ /\ gone = {} /\ broken \ loud # {}
           /\ \E done \in SUBSET silent : Abandon(old, new, done, cps, jwts, left, k)
        \/ /\ gone = {} /\ left = silent /\ lost
           /\ Abandon(old, new, left, cps, jwts, left, k)
        \/ /\ gone = {} /\ left = silent /\ ~lost
           /\ FinishControlplanes(old, new, cps, jwts, left, k)

\* _swap: the registry is the first subscriber and does not suspend; the
\* JWKSManager follows, and then ProxyClient.
Reload(new) ==
    /\ stage = "idle" /\ reloads < MaxReloads
    /\ new # config
    /\ reloads' = reloads + 1
    /\ config' = new /\ prev' = config
    /\ Registry!OnConfigChange(new.routing)
    /\ Onward(config, new, cpClient, cpJwt,
              {n \in CpName : cpClient[n] # None} \ CpNames(new), CpNames(new),
              reloads + 1)
    /\ UNCHANGED <<updates, agentClient, closing>>

\* an aclose() it awaited returns
ResumeReload ==
    /\ \/ /\ stage = "removing"
          /\ Onward(prev, config, cpClient, cpJwt, removing, adding, reloads)
       \/ /\ stage = "adding" /\ UrlOf(config, at) \in Malformed
          /\ Abandon(prev, config, {}, cpClient, cpJwt, adding \cup {at}, reloads)
       \/ /\ stage = "adding" /\ UrlOf(config, at) \notin Malformed
          /\ Onward(prev, config,
                    Connected(prev, config, cpClient, {at}, reloads),
                    Authorized(prev, config, cpJwt, {at}), {}, adding, reloads)
       \/ /\ stage = "authz"
          /\ stage' = "idle" /\ untold' = {} /\ StoreAuthzToken(config)
          /\ UNCHANGED <<at, removing, adding, stale, cpClient, cpJwt,
                         authzClient, opened, closed>>
    /\ UNCHANGED <<config, prev, reloads, table, updates, agentClient, closing>>
-----------------------------------------------------------------------------
(* The agents.                                                              *)

\* AgentDiscovery registers or removes an agent.
DiscoveryUpdates ==
    /\ updates < MaxUpdates /\ updates' = updates + 1
    /\ \E a \in Agent :
          \/ \E e \in Endpoints, decls \in Declarations :
                Registry!ReplaceAgentRoutes(a, e.transport, e.address, decls)
          \/ Registry!DeregisterAgent(a)
    /\ UNCHANGED <<config, reloads, clients, reload>>

\* Mutant: a pruned client is forgotten without being closed.
PruneForgets(active) ==
    /\ \E x \in Target \ active : agentClient[x] # None
    /\ agentClient' = [x \in Target |-> IF x \in active THEN agentClient[x] ELSE None]
    /\ UNCHANGED <<config, reloads, table, updates, nodes, opened, closed,
                   closing, reload>>

\* prune_agent_clients, with the targets discovery just scanned.  Those need
\* not be the targets of the table: an agent that cannot be reached at its new
\* address keeps its former entry.
Prune(active) ==
    /\ \E x \in Target \ active : agentClient[x] # None
    /\ agentClient' = [x \in Target |-> IF x \in active THEN agentClient[x] ELSE None]
    /\ closing' = closing \cup ({agentClient[x] : x \in Target \ active} \ {None})
    /\ UNCHANGED <<config, reloads, table, updates, nodes, opened, closed, reload>>

\* the task that closes a pruned client runs
CloseAgentClient(c) ==
    /\ c \in closing
    /\ closing' = closing \ {c}
    /\ closed' = closed \cup {c}
    /\ UNCHANGED <<config, reloads, table, updates, nodes, agentClient, opened,
                   reload>>

\* the clients target x has had
AgentClientsOf(x) == {c \in opened : c.kind = "agent" /\ c.of = x}

\* _get_agent_client: the registered client of target x, or a new one
AgentClient(x) ==
    IF agentClient[x] # None THEN agentClient[x]
    ELSE [kind |-> "agent", of |-> x, base |-> x, born |-> Cardinality(AgentClientsOf(x))]
-----------------------------------------------------------------------------
NextClients ==
    \/ \E new \in Configs : Reload(new)
    \/ ResumeReload
    \/ DiscoveryUpdates
    \/ \E active \in SUBSET {e.address : e \in Endpoints} : Prune(active)
    \/ \E c \in closing : CloseAgentClient(c)
-----------------------------------------------------------------------------
RegisteredAgentClients == {agentClient[x] : x \in Target} \ {None}

\* The registered clients are open and go to the URLs of the configuration,
\* except those of "old", with its tokens, except those of "late"; an upstream
\* that is not configured has none.
AsConfigured(old, late) ==
    /\ \A n \in CpNames(config) :
          /\ n \notin old => /\ cpClient[n] # None /\ cpClient[n] \notin closed
                             /\ cpClient[n].base = UrlOf(config, n)
          /\ n \notin late => cpJwt[n] = config.token[n]
    /\ \A n \in CpName \ CpNames(config) : cpClient[n] = None
    /\ None \notin old =>
          IF AuthzUrl(config) = None THEN authzClient = None
          ELSE /\ authzClient # None /\ authzClient \notin closed
               /\ authzClient.base = AuthzUrl(config)
    /\ None \notin late => authzJwt = config.authzToken

(* Between reloads the registered clients are exactly those the current      *)
(* configuration asks for, open, to its URLs, with its tokens, whatever      *)
(* reloads did before: a reload compares two configurations, never the       *)
(* clients themselves, and a client it misjudged would stay.  Only what a    *)
(* reload did not come to because it met a malformed URL is left behind,     *)
(* until a later one changes the URL or passes by the token.                 *)
SettledClientsMatch == stage = "idle" => AsConfigured(stale, untold)

(* "Update runtime config without restarting the service"                    *)
(* (proxy_client.py:77): when no reload is in progress and every client of   *)
(* the configuration can be created, the clients are those it asks for.      *)
(* They are not after a reload that corrects a malformed URL: what the       *)
(* abandoned one skipped looks unchanged to the next.                        *)
ReloadsTakeEffect == stage = "idle" /\ WellFormed(config) => AsConfigured({}, {})

(* No client is lost: one that is neither closed nor about to be is          *)
(* registered, where a later reload, a prune or the shutdown finds it, also  *)
(* in the middle of a reload; and a registered agent client is open.         *)
NoClientIsLost ==
    /\ opened \ closed \subseteq
           InUse(cpClient, authzClient) \cup RegisteredAgentClients \cup closing
    /\ RegisteredAgentClients \cap (closed \cup closing) = {}
=============================================================================
