---------------------------- MODULE RouteRegistry ----------------------------
(***************************************************************************)
(* RouteRegistry (routes.py): the routing table of the node agent.  The    *)
(* lock-protected sections contain no await, so on the single event-loop   *)
(* thread the lock is never contended and every method is one step.        *)
(***************************************************************************)
EXTENDS RouteTable

CONSTANTS Configs,       \* the configurations config.json may hold
          Declarations,  \* the route lists agents may answer with
          Paths          \* paths of the requests that are routed

ASSUME InputTypes == /\ Paths \subseteq PathType
                     /\ Configs \subseteq ConfigType
                     /\ Declarations \subseteq Seq(DeclarationType)

VARIABLES routes,         \* _routes
          cpPrefixes,     \* _cp_prefixes
          authzPrefixes   \* _authz_prefixes

vars == <<routes, cpPrefixes, authzPrefixes>>

TypeOK == /\ routes \in Seq(RouteType)
          /\ cpPrefixes \in Seq(PathType)
          /\ authzPrefixes \in Seq(PathType)

\* __init__ with the configuration found at start
InitWith(cfg) ==
    /\ cpPrefixes = CpPrefixesOf(cfg.cps)
    /\ authzPrefixes = AuthzPrefixesOf(cfg)
    /\ routes = Sort(ConfigRoutes(cfg))

Init == \E cfg \in Configs : InitWith(cfg)

\* _on_config_change: agent entries are kept, in front of the new ones.
OnConfigChange(new) ==
    /\ cpPrefixes' = CpPrefixesOf(new.cps)
    /\ authzPrefixes' = AuthzPrefixesOf(new)
    /\ routes' = Sort(AgentPart(routes, new.http) \o ConfigRoutes(new))

\* set_controlplanes
SetControlplanes(cps) ==
    /\ cpPrefixes' = CpPrefixesOf(cps)
    /\ routes' = Sort(WithoutDest(routes, "controlplane") \o CpRoutes(cps))
    /\ UNCHANGED authzPrefixes

\* Mutant: the reserved prefixes are not replaced.
SetAuthzForgets(url, prefixes) ==
    /\ routes' = Sort(WithoutDest(routes, "authz") \o AuthzRoutes(url, prefixes))
    /\ UNCHANGED <<cpPrefixes, authzPrefixes>>

\* set_authz
SetAuthz(url, prefixes) ==
    /\ authzPrefixes' = prefixes
    /\ routes' = Sort(WithoutDest(routes, "authz") \o AuthzRoutes(url, prefixes))
    /\ UNCHANGED cpPrefixes

\* replace_agent_routes
ReplaceAgentRoutes(a, transport, target, decls) ==
    /\ routes' = Extend(Without(routes, a), cpPrefixes, authzPrefixes,
                        a, transport, target, decls)
    /\ UNCHANGED <<cpPrefixes, authzPrefixes>>

\* register_agent_routes
RegisterAgentRoutes(a, transport, target, decls) ==
    /\ routes' = Extend(routes, cpPrefixes, authzPrefixes,
                        a, transport, target, decls)
    /\ UNCHANGED <<cpPrefixes, authzPrefixes>>

\* deregister_agent
DeregisterAgent(a) ==
    /\ routes' = Without(routes, a)
    /\ UNCHANGED <<cpPrefixes, authzPrefixes>>

\* replace_atomic, given a snapshot() from which a caller dropped the entries
\* of some agents (nothing in the program calls it)
ReplaceAtomic(dropped) ==
    /\ routes' = Sort(WithoutAgents(routes, dropped))
    /\ UNCHANGED <<cpPrefixes, authzPrefixes>>

Next ==
    \/ \E cfg \in Configs : \/ OnConfigChange(cfg)
                            \/ SetControlplanes(cfg.cps)
                            \/ /\ cfg.authz.url # None
                               /\ SetAuthz(cfg.authz.url, cfg.authz.prefixes)
    \/ \E a \in Agent, transport \in Transport, target \in Target,
          decls \in Declarations :
            \/ ReplaceAgentRoutes(a, transport, target, decls)
            \/ RegisterAgentRoutes(a, transport, target, decls)
    \/ \E a \in Agent : DeregisterAgent(a)
    \/ \E dropped \in SUBSET Agent : ReplaceAtomic(dropped)

Spec == Init /\ [][Next]_vars
-----------------------------------------------------------------------------
(* Longest-prefix matching: whatever the history of the table, the entry a   *)
(* request is routed by is at least as long as every entry that matches it   *)
(* (the first hit of lookup is right only while every method re-sorts).      *)
LongestPrefixWins ==
    \A path \in Paths : \A i \in Hits(routes, path) :
        PrefixLen(Lookup(routes, path).prefix) >= PrefixLen(routes[i].prefix)

(* The prefixes new declarations are validated against are those of the      *)
(* controlplane and authz entries requests are routed by; a difference would *)
(* admit agents below a prefix that is in use.                               *)
ReservedListsMatch ==
    /\ {cpPrefixes[i] : i \in DOMAIN cpPrefixes} =
       {r.prefix : r \in {e \in Elements(routes) : e.dest = "controlplane"}}
    /\ {authzPrefixes[i] : i \in DOMAIN authzPrefixes} =
       {r.prefix : r \in {e \in Elements(routes) : e.dest = "authz"}}

\* the prefixes somebody asks for
KnownPrefixes == PrefixesOf(Configs, Declarations)

Ownership ==
    INSTANCE RouteOwnership WITH
        Prefix <- KnownPrefixes,
        owned <- OwnedIn(routes),
        reserved <- {cpPrefixes[i] : i \in DOMAIN cpPrefixes} \cup
                    {authzPrefixes[i] : i \in DOMAIN authzPrefixes}

(* The table implements RouteOwnership: a step gives prefixes to one agent   *)
(* at a time, only free and unreserved ones, and a change of configuration   *)
(* only takes prefixes away.                                                 *)
ImplementsOwnership == Ownership!Spec

-----------------------------------------------------------------------------
(* What a document says and the code does not do.                            *)

(* docs/4-write-agent.md:29: the prefix an agent owns cannot overlap with    *)
(* controlplane/authz prefixes.  _on_config_change keeps agent entries and   *)
(* does not validate them against the prefixes it reserves (routes.py:78).   *)
AgentRoutesAvoidConfig ==
    \A r \in Elements(routes) : r.agent # None =>
        ~OverlapsAny(r.prefix, cpPrefixes) /\ ~OverlapsAny(r.prefix, authzPrefixes)
=============================================================================
