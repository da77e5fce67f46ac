----------------------------- MODULE RouteTable -----------------------------
(***************************************************************************)
(* The route table of routes.py as pure operators: a table is a sequence   *)
(* of entries, longest prefix first, as RouteRegistry._routes.  The        *)
(* operators are written without recursion so that proofs can use them.    *)
(***************************************************************************)
EXTENDS Prefixes, Lists

CONSTANTS Agent,   \* agent names (the stems of the socket files)
          Target,  \* socket paths, host:port addresses and URLs
          CpName,  \* names of controlplanes
          None     \* Python's None, and the unset (empty) authz URL

ASSUME NoneIsNoName == None \notin Agent \cup Target \cup CpName

Transport == {"uds", "http"}

WhitelistType == SUBSET [path: PathType,
                         match: {"exact", "exact_or_prefix", "prefix"}]

RouteType == [prefix: PathType, dest: {"agent", "controlplane", "authz"},
              target: Target, transport: Transport, agent: Agent \cup {None},
              cp: CpName \cup {None}, whitelist: WhitelistType]

\* RouteDeclaration of the agent contract
DeclarationType == [prefix: PathType, whitelist: WhitelistType]

\* The part of Config the table is built from; "for cp in controlplanes for p
\* in cp.prefixes" is flattened into one sequence.
CpType == [name: CpName, url: Target, prefix: PathType]

ConfigType == [cps: Seq(CpType),
               authz: [url: Target \cup {None}, prefixes: Seq(PathType)],
               http: BOOLEAN]

\* Mutant: name and url of a controlplane swapped.
CpRouteSwapped(cp) ==
    [prefix |-> cp.prefix, dest |-> "controlplane", target |-> cp.name,
     transport |-> "uds", agent |-> None, cp |-> cp.url, whitelist |-> {}]

CpRoute(cp) ==
    [prefix |-> cp.prefix, dest |-> "controlplane", target |-> cp.url,
     transport |-> "uds", agent |-> None, cp |-> cp.name, whitelist |-> {}]

AuthzRoute(url, p) ==
    [prefix |-> p, dest |-> "authz", target |-> url, transport |-> "uds",
     agent |-> None, cp |-> None, whitelist |-> {}]

AgentRoute(a, transport, target, d) ==
    [prefix |-> d.prefix, dest |-> "agent", target |-> target,
     transport |-> transport, agent |-> a, cp |-> None,
     whitelist |-> d.whitelist]

CpRoutes(cps) == [i \in 1..Len(cps) |-> CpRoute(cps[i])]

CpPrefixesOf(cps) == [i \in 1..Len(cps) |-> cps[i].prefix]

AuthzRoutes(url, prefixes) ==
    [i \in 1..Len(prefixes) |-> AuthzRoute(url, prefixes[i])]

\* Without a URL the authz prefixes of the configuration are ignored.
AuthzPrefixesOf(cfg) == IF cfg.authz.url = None THEN <<>> ELSE cfg.authz.prefixes

ConfigRoutes(cfg) ==
    CpRoutes(cfg.cps) \o AuthzRoutes(cfg.authz.url, AuthzPrefixesOf(cfg))
-----------------------------------------------------------------------------
\* the order of sort(key=len(prefix), reverse=True), which is stable
Longest(s) ==
    LET I == DOMAIN s
    IN  {e \in I \X I :
           \/ PrefixLen(s[e[1]].prefix) > PrefixLen(s[e[2]].prefix)
           \/ /\ PrefixLen(s[e[1]].prefix) = PrefixLen(s[e[2]].prefix)
              /\ e[1] < e[2]}

\* Mutant: the table is not sorted again.
Unsorted(s) == s

\* _sort
Sort(s) == Ranked(s, DOMAIN s, Longest(s))
-----------------------------------------------------------------------------
PrefixesIn(table) == {r.prefix : r \in Elements(table)}

RoutesOf(table, a) == {r \in Elements(table) : r.agent = a}

\* [r for r in table if r.agent != a], for each agent of a set in turn
WithoutAgents(table, gone) ==
    Keep(table, {i \in DOMAIN table : table[i].agent \notin gone})

Without(table, a) == WithoutAgents(table, {a})

\* [r for r in table if r.dest_type != dest]
WithoutDest(table, dest) ==
    Keep(table, {i \in DOMAIN table : table[i].dest # dest})

\* what a reload of the configuration keeps of the table
AgentPart(table, http) ==
    Keep(table, {i \in DOMAIN table : /\ table[i].dest = "agent"
                                      /\ http \/ table[i].transport # "http"})

Valid(p) == p \notin {EmptyPath, Root, RootStar}

OverlapsAny(p, prefixes) == \E i \in DOMAIN prefixes : Overlaps(p, prefixes[i])

\* Mutant: prefixes of other agents are not looked at.
AcceptedOwned(table, cpPrefixes, authzPrefixes, decls) ==
    {i \in DOMAIN decls :
       LET p == decls[i].prefix
       IN  /\ Valid(p)
           /\ ~OverlapsAny(p, cpPrefixes)
           /\ ~OverlapsAny(p, authzPrefixes)
           /\ \A j \in DOMAIN decls : j < i => decls[j].prefix # p}

\* The declarations that are registered: valid, clear of the reserved prefixes,
\* not in the table yet and not already declared earlier in the same list.
Accepted(table, cpPrefixes, authzPrefixes, decls) ==
    {i \in DOMAIN decls :
       LET p == decls[i].prefix
       IN  /\ Valid(p)
           /\ ~OverlapsAny(p, cpPrefixes)
           /\ ~OverlapsAny(p, authzPrefixes)
           /\ p \notin PrefixesIn(table)
           /\ \A j \in DOMAIN decls : j < i => decls[j].prefix # p}

\* the table after the loop over the declarations, and its sort
Extend(table, cpPrefixes, authzPrefixes, a, transport, target, decls) ==
    LET new == Keep(decls, Accepted(table, cpPrefixes, authzPrefixes, decls))
    IN  Sort(table \o [i \in DOMAIN new |->
                         AgentRoute(a, transport, target, new[i])])

\* lookup: the first entry that matches, or None
Hits(table, path) == {i \in DOMAIN table : Matches(table[i].prefix, path)}

Lookup(table, path) ==
    LET hits == Hits(table, path)
    IN  IF hits = {} THEN None
        ELSE table[CHOOSE i \in hits : \A j \in hits : i <= j]
-----------------------------------------------------------------------------
\* the pairs of a prefix and its owner in a table
OwnedIn(table) == {<<r.prefix, r.agent>> : r \in {e \in Elements(table) : e.agent # None}}

\* the prefixes agents and configurations ask for
DeclaredIn(decls) == {decls[i].prefix : i \in DOMAIN decls}

ConfiguredIn(cfg) == {cfg.cps[i].prefix : i \in DOMAIN cfg.cps} \cup
                     {cfg.authz.prefixes[i] : i \in DOMAIN cfg.authz.prefixes}

PrefixesOf(configs, declarations) ==
    (UNION {DeclaredIn(decls) : decls \in declarations}) \cup
    (UNION {ConfiguredIn(cfg) : cfg \in configs})
=============================================================================
