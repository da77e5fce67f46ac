------------------------- MODULE RouteRegistry_proofs -------------------------
(* For every set of agents, configurations and declarations, the registry    *)
(* keeps its types, its order and the reserved lists, so that lookup answers *)
(* by the longest prefix, and it implements RouteOwnership.                  *)
EXTENDS RouteRegistry, RouteTable_proofs

\* a table as the registry builds it, up to sorting
WellFormed(t) == t \in Table /\ AgentsFirst(t) /\ KindsAgree(t)

\* a table and reserved lists that belong together
Consistent(t, cps, authz) ==
    /\ WellFormed(t) /\ Sorted(t)
    /\ cps \in Seq(PathType) /\ authz \in Seq(PathType)
    /\ Listed(cps) = Reserved(t, "controlplane")
    /\ Listed(authz) = Reserved(t, "authz")

\* the inductive invariant
IInv == Consistent(routes, cpPrefixes, authzPrefixes)
-----------------------------------------------------------------------------
(* Sorting a well-formed table, to which entries of the configuration were   *)
(* appended, gives a sorted and well-formed one with the entries of both.    *)
LEMMA Rebuilt ==
    ASSUME NEW t, WellFormed(t), NEW u \in Table,
           \A r \in Elements(u) : r.agent = None /\ r.dest \in {"controlplane", "authz"}
    PROVE  /\ WellFormed(t \o u)
           /\ WellFormed(Sort(t \o u)) /\ Sorted(Sort(t \o u))
           /\ \A d : Reserved(Sort(t \o u), d) = Reserved(t, d) \cup Reserved(u, d)
<1>1. t \in Table /\ AgentsFirst(t) /\ KindsAgree(t)
  BY DEF WellFormed
<1>2. t \o u \in Table /\ Elements(t \o u) = Elements(t) \cup Elements(u)
  BY <1>1, AppendTable
<1>3. AgentsFirst(u)
  BY DEF AgentsFirst, Elements
<1>4. AgentsFirst(t \o u)
  BY <1>1, <1>3, AppendAgentsFirst
<1>5. KindsAgree(t \o u)
  BY <1>1, <1>2 DEF KindsAgree
<1> DEFINE s == Sort(t \o u)
<1>6. s \in Table /\ AgentsFirst(s) /\ Sorted(s) /\ Elements(s) = Elements(t \o u)
  BY <1>2, <1>4, SortSorts
<1>7. KindsAgree(s)
  BY <1>5, <1>6 DEF KindsAgree
<1>8. \A d : Reserved(s, d) = Reserved(t, d) \cup Reserved(u, d)
  BY <1>2, <1>6 DEF Reserved
<1> QED
  BY <1>2, <1>4, <1>5, <1>6, <1>7, <1>8 DEF WellFormed

(* Filtering a well-formed table gives a well-formed one, with the entries   *)
(* that pass.                                                                *)
LEMMA Filtered ==
    ASSUME NEW t, WellFormed(t), NEW I \in SUBSET DOMAIN t
    PROVE  /\ WellFormed(Keep(t, I))
           /\ Sorted(t) => Sorted(Keep(t, I))
           /\ Elements(Keep(t, I)) = {t[i] : i \in I}
           /\ Elements(Keep(t, I)) \subseteq Elements(t)
<1>1. t \in Table /\ AgentsFirst(t) /\ KindsAgree(t)
  BY DEF WellFormed
<1>2. /\ Keep(t, I) \in Table /\ AgentsFirst(Keep(t, I))
      /\ Sorted(t) => Sorted(Keep(t, I))
      /\ Elements(Keep(t, I)) = {t[i] : i \in I}
  BY <1>1, KeepTable
<1>3. Elements(Keep(t, I)) \subseteq Elements(t)
  BY <1>2 DEF Elements
<1>4. KindsAgree(Keep(t, I))
  BY <1>1, <1>3 DEF KindsAgree
<1> QED
  BY <1>1, <1>2, <1>3, <1>4 DEF WellFormed

(* Dropping agents leaves the entries of the configuration.                  *)
LEMMA AgentsDropped ==
    ASSUME NEW t, WellFormed(t), NEW gone \in SUBSET Agent
    PROVE  /\ WellFormed(WithoutAgents(t, gone))
           /\ Sorted(t) => Sorted(WithoutAgents(t, gone))
           /\ Elements(WithoutAgents(t, gone)) = {r \in Elements(t) : r.agent \notin gone}
           /\ \A d \in {"controlplane", "authz"} :
                 Reserved(WithoutAgents(t, gone), d) = Reserved(t, d)
<1> DEFINE I == {i \in DOMAIN t : t[i].agent \notin gone}
           s == WithoutAgents(t, gone)
<1>1. /\ WellFormed(s)
      /\ Sorted(t) => Sorted(s)
      /\ Elements(s) = {t[i] : i \in I}
  BY Filtered DEF WithoutAgents
<1> HIDE DEF s
<1>2. Elements(s) = {r \in Elements(t) : r.agent \notin gone}
  BY <1>1 DEF Elements
<1>3. ASSUME NEW d \in {"controlplane", "authz"}, NEW r \in Elements(t), r.dest = d
      PROVE  r \in Elements(s)
  <2>1. r.agent = None
    BY <1>3 DEF WellFormed, KindsAgree
  <2>2. None \notin Agent
    BY NoneIsNoName
  <2> QED
    BY <1>2, <2>1, <2>2
<1>4. \A d \in {"controlplane", "authz"} : Reserved(s, d) = Reserved(t, d)
  BY <1>2, <1>3 DEF Reserved
<1> QED
  BY <1>1, <1>2, <1>4 DEF s

(* Dropping a kind of entry leaves the other kinds.                          *)
LEMMA KindDropped ==
    ASSUME NEW t, WellFormed(t), NEW dest
    PROVE  /\ WellFormed(WithoutDest(t, dest))
           /\ \A d : Reserved(WithoutDest(t, dest), d)
                        = IF d = dest THEN {} ELSE Reserved(t, d)
<1> DEFINE I == {i \in DOMAIN t : t[i].dest # dest}
           s == WithoutDest(t, dest)
<1>1. WellFormed(s) /\ Elements(s) = {t[i] : i \in I}
  BY Filtered DEF WithoutDest
<1> HIDE DEF s
<1>2. Elements(s) = {r \in Elements(t) : r.dest # dest}
  BY <1>1 DEF Elements
<1>3. \A d : Reserved(s, d) = IF d = dest THEN {} ELSE Reserved(t, d)
  BY <1>2 DEF Reserved
<1> QED
  BY <1>1, <1>3 DEF s

(* What a reload keeps of the table is no entry of the configuration.        *)
LEMMA AgentPartKept ==
    ASSUME NEW t, WellFormed(t), NEW http
    PROVE  /\ WellFormed(AgentPart(t, http))
           /\ Elements(AgentPart(t, http)) \subseteq Elements(t)
           /\ \A d \in {"controlplane", "authz"} : Reserved(AgentPart(t, http), d) = {}
<1> DEFINE I == {i \in DOMAIN t : /\ t[i].dest = "agent"
                                  /\ http \/ t[i].transport # "http"}
           s == AgentPart(t, http)
<1>1. WellFormed(s) /\ Elements(s) = {t[i] : i \in I}
      /\ Elements(s) \subseteq Elements(t)
  BY Filtered DEF AgentPart
<1> HIDE DEF s
<1>2. \A r \in Elements(s) : r.dest = "agent"
  BY <1>1
<1>3. \A d \in {"controlplane", "authz"} : Reserved(s, d) = {}
  BY <1>2 DEF Reserved
<1> QED
  BY <1>1, <1>3 DEF s
-----------------------------------------------------------------------------
(* The lists and entries a configuration of the registry gives rise to.      *)
LEMMA ConfigParts ==
    ASSUME NEW cfg \in Configs
    PROVE  /\ cfg.cps \in Seq(CpType)
           /\ CpPrefixesOf(cfg.cps) \in Seq(PathType)
           /\ AuthzPrefixesOf(cfg) \in Seq(PathType)
           /\ cfg.authz.url # None => cfg.authz.prefixes \in Seq(PathType)
           /\ cfg.authz.url \in Target \cup {None}
           /\ ConfigRoutes(cfg) \in Table
           /\ \A r \in Elements(ConfigRoutes(cfg)) :
                 r.agent = None /\ r.dest \in {"controlplane", "authz"}
           /\ Reserved(ConfigRoutes(cfg), "controlplane") = Listed(CpPrefixesOf(cfg.cps))
           /\ Reserved(ConfigRoutes(cfg), "authz") = Listed(AuthzPrefixesOf(cfg))
  BY InputTypes, ConfigLists
-----------------------------------------------------------------------------
(* Appending the entries of a configuration to a well-formed table.          *)
LEMMA ConfigAppended ==
    ASSUME NEW t, WellFormed(t), NEW cfg \in Configs,
           NEW s, s = Sort(t \o ConfigRoutes(cfg))
    PROVE  /\ WellFormed(s) /\ Sorted(s)
           /\ Reserved(s, "controlplane") =
              Reserved(t, "controlplane") \cup Listed(CpPrefixesOf(cfg.cps))
           /\ Reserved(s, "authz") =
              Reserved(t, "authz") \cup Listed(AuthzPrefixesOf(cfg))
<1> DEFINE u == ConfigRoutes(cfg)
<1>1. /\ u \in Table
      /\ \A r \in Elements(u) : r.agent = None /\ r.dest \in {"controlplane", "authz"}
      /\ Reserved(u, "controlplane") = Listed(CpPrefixesOf(cfg.cps))
      /\ Reserved(u, "authz") = Listed(AuthzPrefixesOf(cfg))
  BY ConfigParts
<1> HIDE DEF u
<1>2. /\ WellFormed(Sort(t \o u)) /\ Sorted(Sort(t \o u))
      /\ \A d : Reserved(Sort(t \o u), d) = Reserved(t, d) \cup Reserved(u, d)
  BY <1>1, Rebuilt
<1> QED
  BY <1>1, <1>2 DEF u

(* Registering declarations of an agent on top of a well-formed table.       *)
LEMMA AgentAdded ==
    ASSUME NEW t, WellFormed(t), NEW a \in Agent, NEW transport \in Transport,
           NEW target \in Target, NEW decls \in Declarations, NEW cps, NEW authz,
           NEW s, s = Extend(t, cps, authz, a, transport, target, decls)
    PROVE  /\ WellFormed(s) /\ Sorted(s)
           /\ \A d \in {"controlplane", "authz"} : Reserved(s, d) = Reserved(t, d)
<1>1. t \in Table /\ AgentsFirst(t) /\ KindsAgree(t)
  BY DEF WellFormed
<1>2. decls \in DeclarationList
  BY InputTypes DEF DeclarationList
<1>3. /\ s \in Table /\ Sorted(s) /\ AgentsFirst(s)
      /\ \E new \in SUBSET RouteType :
            /\ Elements(s) = Elements(t) \cup new
            /\ \A r \in new : Admitted(r, t, cps, authz, a, transport, target, decls)
  BY <1>1, <1>2, ExtendExtends
<1>4. PICK new \in SUBSET RouteType :
            /\ Elements(s) = Elements(t) \cup new
            /\ \A r \in new : r.agent = a /\ r.dest = "agent"
  BY <1>3 DEF Admitted
<1>5. a # None
  BY NoneIsNoName
<1>6. KindsAgree(s)
  BY <1>1, <1>4, <1>5 DEF KindsAgree
<1>7. \A d \in {"controlplane", "authz"} : Reserved(s, d) = Reserved(t, d)
  BY <1>4 DEF Reserved
<1> QED
  BY <1>3, <1>6, <1>7 DEF WellFormed

(* The table __init__ builds satisfies the invariant.                        *)
LEMMA InitInvariant == Init => IInv
<1> SUFFICES ASSUME NEW cfg \in Configs, InitWith(cfg) PROVE IInv
  BY DEF Init
<1>1. WellFormed(<<>>)
  BY DEF WellFormed, Table, AgentsFirst, KindsAgree, Elements
<1>2. Reserved(<<>>, "controlplane") = {} /\ Reserved(<<>>, "authz") = {}
  BY DEF Reserved, Elements
<1>3. <<>> \o ConfigRoutes(cfg) = ConfigRoutes(cfg)
  <2>1. ConfigRoutes(cfg) \in Table
    BY ConfigParts
  <2>2. \A u \in Table : <<>> \o u = u
    BY DEF Table
  <2> QED
    BY <2>1, <2>2
<1>4. /\ routes = Sort(<<>> \o ConfigRoutes(cfg))
      /\ cpPrefixes = CpPrefixesOf(cfg.cps) /\ authzPrefixes = AuthzPrefixesOf(cfg)
  BY <1>3 DEF InitWith
<1>5. /\ WellFormed(routes) /\ Sorted(routes)
      /\ Reserved(routes, "controlplane") = Listed(cpPrefixes)
      /\ Reserved(routes, "authz") = Listed(authzPrefixes)
  <2>1. /\ WellFormed(routes) /\ Sorted(routes)
        /\ Reserved(routes, "controlplane") =
           Reserved(<<>>, "controlplane") \cup Listed(CpPrefixesOf(cfg.cps))
        /\ Reserved(routes, "authz") =
           Reserved(<<>>, "authz") \cup Listed(AuthzPrefixesOf(cfg))
    BY <1>1, <1>4, ConfigAppended
  <2> QED
    BY <1>2, <1>4, <2>1
<1> QED
  BY <1>4, <1>5, ConfigParts DEF IInv, Consistent

(* Every call of the registry preserves the invariant.                       *)
LEMMA StepInvariant == IInv /\ [Next]_vars => IInv'
<1> SUFFICES ASSUME IInv, [Next]_vars PROVE IInv'
  OBVIOUS
<1> USE DEF IInv
<1>0. /\ WellFormed(routes) /\ Sorted(routes) /\ routes \in Table
      /\ cpPrefixes \in Seq(PathType) /\ authzPrefixes \in Seq(PathType)
      /\ Listed(cpPrefixes) = Reserved(routes, "controlplane")
      /\ Listed(authzPrefixes) = Reserved(routes, "authz")
  BY DEF Consistent, WellFormed
<1>1. ASSUME NEW cfg \in Configs, OnConfigChange(cfg) PROVE IInv'
  <2> DEFINE t == AgentPart(routes, cfg.http)
  <2>1. WellFormed(t) /\ Reserved(t, "controlplane") = {} /\ Reserved(t, "authz") = {}
    BY <1>0, AgentPartKept
  <2> HIDE DEF t
  <2>2. /\ routes' = Sort(t \o ConfigRoutes(cfg))
        /\ cpPrefixes' = CpPrefixesOf(cfg.cps) /\ authzPrefixes' = AuthzPrefixesOf(cfg)
    BY <1>1 DEF OnConfigChange, t
  <2>3. /\ WellFormed(routes') /\ Sorted(routes')
        /\ Reserved(routes', "controlplane") = Listed(cpPrefixes')
        /\ Reserved(routes', "authz") = Listed(authzPrefixes')
    <3>1. /\ WellFormed(routes') /\ Sorted(routes')
          /\ Reserved(routes', "controlplane") =
             Reserved(t, "controlplane") \cup Listed(CpPrefixesOf(cfg.cps))
          /\ Reserved(routes', "authz") =
             Reserved(t, "authz") \cup Listed(AuthzPrefixesOf(cfg))
      BY <2>1, <2>2, ConfigAppended
    <3> QED
      BY <2>1, <2>2, <3>1
  <2> QED
    BY <2>2, <2>3, ConfigParts DEF Consistent
<1>2. ASSUME NEW cfg \in Configs, SetControlplanes(cfg.cps) PROVE IInv'
  <2> DEFINE t == WithoutDest(routes, "controlplane")
             u == CpRoutes(cfg.cps)
  <2>1. /\ WellFormed(t) /\ Reserved(t, "controlplane") = {}
        /\ Reserved(t, "authz") = Reserved(routes, "authz")
    BY <1>0, KindDropped
  <2>2. /\ u \in Table
        /\ \A r \in Elements(u) : r.agent = None /\ r.dest = "controlplane"
        /\ CpPrefixesOf(cfg.cps) \in Seq(PathType)
        /\ Reserved(u, "controlplane") = Listed(CpPrefixesOf(cfg.cps))
    BY ConfigParts, CpRoutesTable DEF Listed
  <2>3. /\ routes' = Sort(t \o u) /\ authzPrefixes' = authzPrefixes
        /\ cpPrefixes' = CpPrefixesOf(cfg.cps)
    BY <1>2 DEF SetControlplanes
  <2> HIDE DEF t, u
  <2>4. /\ WellFormed(routes') /\ Sorted(routes')
        /\ \A d : Reserved(routes', d) = Reserved(t, d) \cup Reserved(u, d)
    BY <2>1, <2>2, <2>3, Rebuilt
  <2>5. Reserved(u, "authz") = {}
    BY <2>2 DEF Reserved
  <2> QED
    BY <1>0, <2>1, <2>2, <2>3, <2>4, <2>5 DEF Consistent
<1>3. ASSUME NEW cfg \in Configs, cfg.authz.url # None,
             SetAuthz(cfg.authz.url, cfg.authz.prefixes)
      PROVE  IInv'
  <2> DEFINE t == WithoutDest(routes, "authz")
             u == AuthzRoutes(cfg.authz.url, cfg.authz.prefixes)
  <2>1. /\ WellFormed(t) /\ Reserved(t, "authz") = {}
        /\ Reserved(t, "controlplane") = Reserved(routes, "controlplane")
    BY <1>0, KindDropped
  <2>2. /\ cfg.authz.prefixes \in Seq(PathType) /\ cfg.authz.url \in Target \cup {None}
        /\ u \in Table
        /\ \A r \in Elements(u) : r.agent = None /\ r.dest = "authz"
        /\ Reserved(u, "authz") = Listed(cfg.authz.prefixes)
    BY <1>3, ConfigParts, AuthzRoutesTable DEF Listed
  <2>3. /\ routes' = Sort(t \o u) /\ cpPrefixes' = cpPrefixes
        /\ authzPrefixes' = cfg.authz.prefixes
    BY <1>3 DEF SetAuthz
  <2> HIDE DEF t, u
  <2>4. /\ WellFormed(routes') /\ Sorted(routes')
        /\ \A d : Reserved(routes', d) = Reserved(t, d) \cup Reserved(u, d)
    BY <2>1, <2>2, <2>3, Rebuilt
  <2>5. Reserved(u, "controlplane") = {}
    BY <2>2 DEF Reserved
  <2> QED
    BY <1>0, <2>1, <2>2, <2>3, <2>4, <2>5 DEF Consistent
<1>4. ASSUME NEW a \in Agent, NEW transport \in Transport, NEW target \in Target,
             NEW decls \in Declarations,
             \/ ReplaceAgentRoutes(a, transport, target, decls)
             \/ RegisterAgentRoutes(a, transport, target, decls)
      PROVE  IInv'
  <2>1. PICK t : /\ WellFormed(t)
                 /\ \A d \in {"controlplane", "authz"} :
                       Reserved(t, d) = Reserved(routes, d)
                 /\ routes' = Extend(t, cpPrefixes, authzPrefixes, a, transport,
                                     target, decls)
                 /\ UNCHANGED <<cpPrefixes, authzPrefixes>>
    <3>1. CASE ReplaceAgentRoutes(a, transport, target, decls)
      <4>1. /\ WellFormed(WithoutAgents(routes, {a}))
            /\ \A d \in {"controlplane", "authz"} :
                  Reserved(WithoutAgents(routes, {a}), d) = Reserved(routes, d)
        BY <1>0, AgentsDropped
      <4> QED
        BY <3>1, <4>1 DEF ReplaceAgentRoutes, Without
    <3>2. CASE RegisterAgentRoutes(a, transport, target, decls)
      BY <1>0, <3>2 DEF RegisterAgentRoutes
    <3> QED
      BY <1>4, <3>1, <3>2
  <2>2. /\ WellFormed(routes') /\ Sorted(routes')
        /\ \A d \in {"controlplane", "authz"} :
              Reserved(routes', d) = Reserved(routes, d)
    BY <2>1, AgentAdded
  <2> QED
    BY <1>0, <2>1, <2>2 DEF Consistent
<1>5. ASSUME NEW a \in Agent, DeregisterAgent(a) PROVE IInv'
  <2>1. routes' = WithoutAgents(routes, {a}) /\ UNCHANGED <<cpPrefixes, authzPrefixes>>
    BY <1>5 DEF DeregisterAgent, Without
  <2>2. /\ WellFormed(routes') /\ Sorted(routes')
        /\ \A d \in {"controlplane", "authz"} :
              Reserved(routes', d) = Reserved(routes, d)
    BY <1>0, <2>1, AgentsDropped
  <2> QED
    BY <1>0, <2>1, <2>2 DEF Consistent
<1>6. ASSUME NEW dropped \in SUBSET Agent, ReplaceAtomic(dropped) PROVE IInv'
  <2> DEFINE t == WithoutAgents(routes, dropped)
  <2>1. /\ WellFormed(t)
        /\ \A d \in {"controlplane", "authz"} : Reserved(t, d) = Reserved(routes, d)
    BY <1>0, AgentsDropped
  <2>2. routes' = Sort(t) /\ UNCHANGED <<cpPrefixes, authzPrefixes>>
    BY <1>6 DEF ReplaceAtomic
  <2> HIDE DEF t
  <2>3. /\ routes' \in Table /\ Elements(routes') = Elements(t)
        /\ Sorted(routes') /\ AgentsFirst(routes')
    BY <2>1, <2>2, SortSorts DEF WellFormed
  <2>4. /\ KindsAgree(routes')
        /\ \A d : Reserved(routes', d) = Reserved(t, d)
    BY <2>1, <2>3 DEF KindsAgree, WellFormed, Reserved
  <2> QED
    BY <1>0, <2>1, <2>2, <2>3, <2>4 DEF Consistent, WellFormed
<1>7. ASSUME UNCHANGED vars PROVE IInv'
  BY <1>7 DEF vars
<1> QED
  BY <1>1, <1>2, <1>3, <1>4, <1>5, <1>6, <1>7 DEF Next

(* In every behaviour of the registry the invariant holds.                   *)
THEOREM Invariant == Spec => []IInv
  BY InitInvariant, StepInvariant, PTL DEF Spec
-----------------------------------------------------------------------------
(* The routes and the two lists of reserved prefixes keep their types.       *)
THEOREM TypeCorrect == Spec => []TypeOK
<1>1. IInv => TypeOK
  BY DEF IInv, Consistent, WellFormed, Table, TypeOK
<1> QED
  BY <1>1, Invariant, PTL

(* The reserved lists are those of the entries requests are routed by.       *)
THEOREM ReservedListsAgree == Spec => []ReservedListsMatch
<1>1. IInv => ReservedListsMatch
  BY DEF IInv, Consistent, Listed, Reserved, ReservedListsMatch
<1> QED
  BY <1>1, Invariant, PTL

(* Requests are routed by the longest prefix that matches.                   *)
THEOREM LongestPrefix == Spec => []LongestPrefixWins
<1>1. IInv => LongestPrefixWins
  <2> SUFFICES ASSUME IInv, NEW path \in Paths, NEW i \in Hits(routes, path)
               PROVE  PrefixLen(Lookup(routes, path).prefix)
                        >= PrefixLen(routes[i].prefix)
    BY DEF LongestPrefixWins
  <2>1. routes \in Table /\ Sorted(routes)
    BY DEF IInv, Consistent, WellFormed
  <2>2. PICK m \in Hits(routes, path) : m <= i /\ Lookup(routes, path) = routes[m]
    BY <2>1, LookupFirst
  <2>3. m \in DOMAIN routes /\ i \in DOMAIN routes
    BY DEF Hits
  <2>4. /\ m \in Nat /\ i \in Nat
        /\ PrefixLen(routes[m].prefix) \in Nat /\ PrefixLen(routes[i].prefix) \in Nat
    BY <2>1, <2>3, EntryType
  <2>5. m = i \/ PrefixLen(routes[m].prefix) >= PrefixLen(routes[i].prefix)
    BY <2>1, <2>2, <2>3, <2>4 DEF Sorted
  <2> QED
    BY <2>2, <2>4, <2>5
<1> QED
  BY <1>1, Invariant, PTL
-----------------------------------------------------------------------------
(* The registry implements RouteOwnership.                                   *)

\* Agents own, and the configuration reserves, prefixes somebody asked for.
Known(t, cps, authz) ==
    /\ \A r \in Elements(t) :
          r.agent # None => r.agent \in Agent /\ r.prefix \in KnownPrefixes
    /\ Listed(cps) \subseteq KnownPrefixes /\ Listed(authz) \subseteq KnownPrefixes

\* the inductive invariant of the refinement
RInv == IInv /\ Known(routes, cpPrefixes, authzPrefixes)
-----------------------------------------------------------------------------
(* The prefixes of a configuration and of declarations are known.            *)
LEMMA ConfigKnown ==
    ASSUME NEW cfg \in Configs
    PROVE  /\ Listed(CpPrefixesOf(cfg.cps)) \subseteq KnownPrefixes
           /\ Listed(AuthzPrefixesOf(cfg)) \subseteq KnownPrefixes
           /\ Listed(cfg.authz.prefixes) \subseteq KnownPrefixes
<1>1. ConfiguredIn(cfg) \subseteq KnownPrefixes
  BY DEF KnownPrefixes, PrefixesOf
<1>2. cfg \in ConfigType
  BY InputTypes
<1> QED
  BY <1>1, <1>2, ConfigAsks

(* What filtering and rebuilding the table from the configuration leave the  *)
(* agents: entries they had.                                                 *)
LEMMA ConfigKeeps ==
    ASSUME NEW t, WellFormed(t), NEW u \in Table,
           \A r \in Elements(u) : r.agent = None /\ r.dest \in {"controlplane", "authz"}
    PROVE  OwnedIn(Sort(t \o u)) = OwnedIn(t)
<1>1. t \in Table
  BY DEF WellFormed
<1>2. t \o u \in Table /\ Elements(t \o u) = Elements(t) \cup Elements(u)
  BY <1>1, AppendTable
<1>3. Elements(Sort(t \o u)) = Elements(t) \cup Elements(u)
  BY <1>2, SortSorts
<1> QED
  BY <1>3 DEF OwnedIn

(* Dropping a kind of entry other than "agent" takes nothing from an agent.  *)
LEMMA KindKeepsOwned ==
    ASSUME NEW t, WellFormed(t), NEW dest, dest # "agent"
    PROVE  OwnedIn(WithoutDest(t, dest)) = OwnedIn(t)
<1> DEFINE I == {i \in DOMAIN t : t[i].dest # dest}
<1>1. Elements(WithoutDest(t, dest)) = {t[i] : i \in I}
  BY Filtered DEF WithoutDest
<1>2. Elements(WithoutDest(t, dest)) = {r \in Elements(t) : r.dest # dest}
  BY <1>1 DEF Elements
<1>3. \A r \in Elements(t) : r.agent # None => r.dest # dest
  BY DEF WellFormed, KindsAgree
<1> QED
  BY <1>2, <1>3 DEF OwnedIn

(* A table is known if its agents own what they owned in a known one.        *)
LEMMA KnownOwned ==
    ASSUME NEW s, NEW t, OwnedIn(s) \subseteq OwnedIn(t),
           NEW cps, NEW authz, NEW cps0, NEW authz0, Known(t, cps0, authz0),
           Listed(cps) \subseteq KnownPrefixes, Listed(authz) \subseteq KnownPrefixes
    PROVE  Known(s, cps, authz)
<1>1. \A r \in Elements(s) : r.agent # None => <<r.prefix, r.agent>> \in OwnedIn(t)
  BY DEF OwnedIn
<1>2. \A o \in OwnedIn(t) : o[1] \in KnownPrefixes /\ o[2] \in Agent
  BY DEF OwnedIn, Known
<1> QED
  BY <1>1, <1>2 DEF Known
-----------------------------------------------------------------------------
(* The first table belongs to nobody.                                        *)
LEMMA InitRefines == Init => RInv /\ Ownership!Init
<1> SUFFICES ASSUME NEW cfg \in Configs, Init, InitWith(cfg)
             PROVE  RInv /\ Ownership!Init
  BY DEF Init
<1>1. IInv
  BY InitInvariant
<1>2. /\ ConfigRoutes(cfg) \in Table
      /\ \A r \in Elements(ConfigRoutes(cfg)) : r.agent = None
  BY ConfigParts
<1>3. Elements(routes) = Elements(ConfigRoutes(cfg))
  BY <1>2, SortSorts DEF InitWith
<1>4. OwnedIn(routes) = {}
  BY <1>2, <1>3 DEF OwnedIn
<1>5. /\ Listed(cpPrefixes) \subseteq KnownPrefixes
      /\ Listed(authzPrefixes) \subseteq KnownPrefixes
  BY ConfigKnown DEF InitWith
<1>6. Known(routes, cpPrefixes, authzPrefixes)
  BY <1>2, <1>3, <1>5 DEF Known
<1> QED
  BY <1>1, <1>4, <1>5, <1>6 DEF RInv, Ownership!Init, Listed

(* Both levels compare paths alike.                                          *)
LEMMA SamePaths ==
    /\ Ownership!EmptyPath = EmptyPath /\ Ownership!Root = Root
    /\ Ownership!RootStar = RootStar
    /\ \A p, q : Ownership!Overlaps(p, q) <=> Overlaps(p, q)
  BY DEF Ownership!EmptyPath, EmptyPath, Ownership!Root, Root, Ownership!RootStar,
         RootStar, Ownership!Overlaps, Overlaps, Ownership!Under, Under,
         Ownership!Slashed, Slashed, Ownership!Below, Below, Ownership!Bare, Bare

(* A change of the configuration is a Reconfigure.                           *)
LEMMA ConfigRefines ==
    ASSUME RInv, OwnedIn(routes)' \subseteq OwnedIn(routes),
           Listed(cpPrefixes') \subseteq KnownPrefixes,
           Listed(authzPrefixes') \subseteq KnownPrefixes
    PROVE  Known(routes, cpPrefixes, authzPrefixes)' /\ Ownership!Next
<1>1. OwnedIn(routes') \subseteq OwnedIn(routes)
  OBVIOUS
<1>2. Known(routes', cpPrefixes', authzPrefixes')
  BY <1>1, KnownOwned DEF RInv
<1>3. Ownership!Reconfigure
  BY <1>1 DEF Ownership!Reconfigure, Listed
<1> QED
  BY <1>2, <1>3 DEF Ownership!Next

(* A registration is a Claim by its agent.                                   *)
LEMMA AgentRefines ==
    ASSUME RInv, NEW a \in Agent, NEW P \in SUBSET KnownPrefixes,
           OwnedIn(routes') = {o \in OwnedIn(routes) : o[2] # a} \cup (P \X {a}),
           \A p \in P : \/ <<p, a>> \in OwnedIn(routes)
                        \/ /\ \A b \in Agent \ {a} : <<p, b>> \notin OwnedIn(routes)
                           /\ Valid(p)
                           /\ ~OverlapsAny(p, cpPrefixes)
                           /\ ~OverlapsAny(p, authzPrefixes),
           UNCHANGED <<cpPrefixes, authzPrefixes>>
    PROVE  Known(routes, cpPrefixes, authzPrefixes)' /\ Ownership!Next
<1>1. Known(routes', cpPrefixes', authzPrefixes')
  <2>1. \A o \in OwnedIn(routes) : o[1] \in KnownPrefixes /\ o[2] \in Agent
    BY DEF RInv, Known, OwnedIn
  <2>2. \A o \in OwnedIn(routes') : o[1] \in KnownPrefixes /\ o[2] \in Agent
    BY <2>1
  <2>3. \A r \in Elements(routes') :
           r.agent # None => <<r.prefix, r.agent>> \in OwnedIn(routes')
    BY DEF OwnedIn
  <2> QED
    BY <2>2, <2>3 DEF RInv, Known
<1>2. \A p \in P \ Ownership!OwnedBy(a) : Ownership!Free(p, a) /\ Ownership!Clear(p)
  <2> SUFFICES ASSUME NEW p \in P, p \notin Ownership!OwnedBy(a)
               PROVE  Ownership!Free(p, a) /\ Ownership!Clear(p)
    OBVIOUS
  <2>1. <<p, a>> \notin OwnedIn(routes)
    BY DEF Ownership!OwnedBy
  <2>2. Ownership!Free(p, a)
    BY <2>1 DEF Ownership!Free
  <2>3. Ownership!Clear(p)
    BY <2>1, SamePaths DEF Ownership!Clear, Valid, OverlapsAny
  <2> QED
    BY <2>2, <2>3
<1>3. Ownership!Claim(a, P)
  BY <1>2 DEF Ownership!Claim
<1> QED
  BY <1>1, <1>3 DEF Ownership!Next

\* what the other agents own
OthersOwned(a) == {o \in OwnedIn(routes) : o[2] # a}

(* Without its entries an agent owns nothing, and the others what they did.  *)
LEMMA DroppedOwned ==
    ASSUME NEW a, NEW t, Elements(t) = {r \in Elements(routes) : r.agent \notin {a}}
    PROVE  OwnedIn(t) = OthersOwned(a)
<1>1. \A o \in OwnedIn(t) : o \in OthersOwned(a)
  BY DEF OwnedIn, OthersOwned
<1>2. \A o \in OthersOwned(a) : o \in OwnedIn(t)
  BY DEF OwnedIn, OthersOwned
<1> QED
  BY <1>1, <1>2

(* Registering declarations of an agent, on top of the entries of the others *)
(* and possibly its own, is a Claim.                                         *)
LEMMA ExtendRefines ==
    ASSUME RInv, NEW a \in Agent, NEW transport \in Transport, NEW target \in Target,
           NEW decls \in Declarations, NEW t, WellFormed(t),
           OthersOwned(a) \subseteq OwnedIn(t), OwnedIn(t) \subseteq OwnedIn(routes),
           routes' = Extend(t, cpPrefixes, authzPrefixes, a, transport, target, decls),
           UNCHANGED <<cpPrefixes, authzPrefixes>>
    PROVE  Known(routes, cpPrefixes, authzPrefixes)' /\ Ownership!Next
<1>1. PICK new \in SUBSET KnownPrefixes :
          Gains(routes', t, a, new, cpPrefixes, authzPrefixes)
  <2>1. t \in Table /\ decls \in DeclarationList
    BY InputTypes DEF WellFormed, DeclarationList
  <2>2. DeclaredIn(decls) \subseteq KnownPrefixes
    BY DEF KnownPrefixes, PrefixesOf
  <2>3. \E P \in SUBSET DeclaredIn(decls) :
            Gains(routes', t, a, P, cpPrefixes, authzPrefixes)
    BY <2>1, ExtendOwns
  <2> QED
    BY <2>2, <2>3
<1> DEFINE kept == {p \in KnownPrefixes : <<p, a>> \in OwnedIn(t)}
           P == kept \cup new
<1>2. \A o \in OwnedIn(routes) : o = <<o[1], o[2]>> /\ o[1] \in KnownPrefixes
  BY DEF OwnedIn, RInv, Known
<1>3. OwnedIn(routes') = {o \in OwnedIn(routes) : o[2] # a} \cup (P \X {a})
  <2>1. OwnedIn(t) = OthersOwned(a) \cup (kept \X {a})
    <3>1. ASSUME NEW o \in OwnedIn(t) PROVE o \in OthersOwned(a) \cup (kept \X {a})
      BY <1>2 DEF OthersOwned
    <3>2. ASSUME NEW o \in kept \X {a} PROVE o \in OwnedIn(t)
      OBVIOUS
    <3> QED
      BY <3>1, <3>2
  <2>2. P \X {a} = (kept \X {a}) \cup (new \X {a})
    OBVIOUS
  <2> HIDE DEF kept, P
  <2> QED
    BY <1>1, <2>1, <2>2 DEF OthersOwned, Gains
<1>4. ASSUME NEW p \in new, NEW b \in Agent \ {a}
      PROVE  <<p, b>> \notin OwnedIn(routes)
  <2>1. <<p, b>> \notin OwnedIn(t)
    BY <1>1 DEF OwnedIn, PrefixesIn, Gains
  <2> QED
    BY <2>1 DEF OthersOwned
<1>5. \A p \in P : \/ <<p, a>> \in OwnedIn(routes)
                   \/ /\ \A b \in Agent \ {a} : <<p, b>> \notin OwnedIn(routes)
                      /\ Valid(p)
                      /\ ~OverlapsAny(p, cpPrefixes) /\ ~OverlapsAny(p, authzPrefixes)
  BY <1>1, <1>4 DEF Gains
<1>6. P \in SUBSET KnownPrefixes
  OBVIOUS
<1> HIDE DEF P
<1> QED
  BY <1>3, <1>5, <1>6, AgentRefines

(* Every call of the registry is a Claim, a Reconfigure or a stutter.        *)
LEMMA StepRefines ==
    RInv /\ [Next]_vars => RInv' /\ [Ownership!Next]_(Ownership!vars)
<1> SUFFICES ASSUME RInv, [Next]_vars
             PROVE  /\ Known(routes, cpPrefixes, authzPrefixes)'
                    /\ [Ownership!Next]_(Ownership!vars)
  BY StepInvariant DEF RInv
<1>0. /\ WellFormed(routes)
      /\ Listed(cpPrefixes) \subseteq KnownPrefixes
      /\ Listed(authzPrefixes) \subseteq KnownPrefixes
  BY DEF RInv, IInv, Consistent, Known
<1>1. ASSUME NEW cfg \in Configs, OnConfigChange(cfg)
      PROVE  Known(routes, cpPrefixes, authzPrefixes)' /\ Ownership!Next
  <2>1. /\ WellFormed(AgentPart(routes, cfg.http))
        /\ OwnedIn(AgentPart(routes, cfg.http)) \subseteq OwnedIn(routes)
    BY <1>0, AgentPartKept, FewerOwned
  <2>2. OwnedIn(routes') \subseteq OwnedIn(routes)
    BY <1>1, <2>1, ConfigParts, ConfigKeeps DEF OnConfigChange
  <2>3. /\ Listed(cpPrefixes') \subseteq KnownPrefixes
        /\ Listed(authzPrefixes') \subseteq KnownPrefixes
    BY <1>1, ConfigKnown DEF OnConfigChange
  <2> QED
    BY <2>2, <2>3, ConfigRefines
<1>2. ASSUME NEW cfg \in Configs, SetControlplanes(cfg.cps)
      PROVE  Known(routes, cpPrefixes, authzPrefixes)' /\ Ownership!Next
  <2> DEFINE t == WithoutDest(routes, "controlplane")
  <2>1. WellFormed(t) /\ OwnedIn(t) = OwnedIn(routes)
    BY <1>0, KindDropped, KindKeepsOwned
  <2>2. /\ CpRoutes(cfg.cps) \in Table
        /\ \A r \in Elements(CpRoutes(cfg.cps)) :
              r.agent = None /\ r.dest \in {"controlplane", "authz"}
    BY ConfigParts, CpRoutesTable
  <2>3. OwnedIn(routes') \subseteq OwnedIn(routes)
    BY <1>2, <2>1, <2>2, ConfigKeeps DEF SetControlplanes
  <2>4. /\ Listed(cpPrefixes') \subseteq KnownPrefixes
        /\ Listed(authzPrefixes') \subseteq KnownPrefixes
    BY <1>0, <1>2, ConfigKnown DEF SetControlplanes
  <2> QED
    BY <2>3, <2>4, ConfigRefines
<1>3. ASSUME NEW cfg \in Configs, cfg.authz.url # None,
             SetAuthz(cfg.authz.url, cfg.authz.prefixes)
      PROVE  Known(routes, cpPrefixes, authzPrefixes)' /\ Ownership!Next
  <2> DEFINE t == WithoutDest(routes, "authz")
             u == AuthzRoutes(cfg.authz.url, cfg.authz.prefixes)
  <2>1. WellFormed(t) /\ OwnedIn(t) = OwnedIn(routes)
    BY <1>0, KindDropped, KindKeepsOwned
  <2>2. /\ u \in Table
        /\ \A r \in Elements(u) : r.agent = None /\ r.dest \in {"controlplane", "authz"}
    BY <1>3, ConfigParts, AuthzRoutesTable
  <2>3. OwnedIn(routes') \subseteq OwnedIn(routes)
    BY <1>3, <2>1, <2>2, ConfigKeeps DEF SetAuthz
  <2>4. /\ Listed(cpPrefixes') \subseteq KnownPrefixes
        /\ Listed(authzPrefixes') \subseteq KnownPrefixes
    BY <1>0, <1>3, ConfigKnown DEF SetAuthz
  <2> QED
    BY <2>3, <2>4, ConfigRefines
<1>4. ASSUME NEW a \in Agent, NEW transport \in Transport, NEW target \in Target,
             NEW decls \in Declarations,
             \/ ReplaceAgentRoutes(a, transport, target, decls)
             \/ RegisterAgentRoutes(a, transport, target, decls)
      PROVE  Known(routes, cpPrefixes, authzPrefixes)' /\ Ownership!Next
  <2>1. UNCHANGED <<cpPrefixes, authzPrefixes>>
    BY <1>4 DEF ReplaceAgentRoutes, RegisterAgentRoutes
  <2>2. CASE ReplaceAgentRoutes(a, transport, target, decls)
    <3> DEFINE t == WithoutAgents(routes, {a})
    <3>1. /\ WellFormed(t)
          /\ Elements(t) = {r \in Elements(routes) : r.agent \notin {a}}
      BY <1>0, AgentsDropped
    <3>2. OwnedIn(t) = OthersOwned(a)
      BY <3>1, DroppedOwned
    <3>3. routes' = Extend(t, cpPrefixes, authzPrefixes, a, transport, target, decls)
      BY <2>2 DEF ReplaceAgentRoutes, Without
    <3>4. OthersOwned(a) \subseteq OwnedIn(routes)
      BY DEF OthersOwned
    <3> HIDE DEF t
    <3> QED
      BY <2>1, <3>1, <3>2, <3>3, <3>4, ExtendRefines
  <2>3. CASE RegisterAgentRoutes(a, transport, target, decls)
    <3>1. routes' = Extend(routes, cpPrefixes, authzPrefixes, a, transport,
                           target, decls)
      BY <2>3 DEF RegisterAgentRoutes
    <3>2. OthersOwned(a) \subseteq OwnedIn(routes)
      BY DEF OthersOwned
    <3> QED
      BY <1>0, <2>1, <3>1, <3>2, ExtendRefines
  <2> QED
    BY <1>4, <2>2, <2>3
<1>5. ASSUME NEW a \in Agent, DeregisterAgent(a)
      PROVE  Known(routes, cpPrefixes, authzPrefixes)' /\ Ownership!Next
  <2>1. /\ Elements(routes') = {r \in Elements(routes) : r.agent \notin {a}}
        /\ UNCHANGED <<cpPrefixes, authzPrefixes>>
    BY <1>0, <1>5, AgentsDropped DEF DeregisterAgent, Without
  <2>2. \A o \in OwnedIn(routes') : o \in OthersOwned(a)
    BY <2>1 DEF OwnedIn, OthersOwned
  <2>3. \A o \in OthersOwned(a) : o \in OwnedIn(routes')
    BY <2>1 DEF OwnedIn, OthersOwned
  <2>4. OwnedIn(routes') = {o \in OwnedIn(routes) : o[2] # a} \cup ({} \X {a})
    BY <2>2, <2>3 DEF OthersOwned
  <2> QED
    BY <2>1, <2>4, AgentRefines
<1>6. ASSUME NEW dropped \in SUBSET Agent, ReplaceAtomic(dropped)
      PROVE  Known(routes, cpPrefixes, authzPrefixes)' /\ Ownership!Next
  <2> DEFINE t == WithoutAgents(routes, dropped)
  <2>1. WellFormed(t) /\ Elements(t) \subseteq Elements(routes)
    BY <1>0, AgentsDropped
  <2>2. Elements(routes') = Elements(t) /\ UNCHANGED <<cpPrefixes, authzPrefixes>>
    BY <1>6, <2>1, SortSorts DEF ReplaceAtomic, WellFormed
  <2>3. OwnedIn(routes') \subseteq OwnedIn(routes)
    BY <2>1, <2>2, FewerOwned
  <2> QED
    BY <1>0, <2>2, <2>3, ConfigRefines
<1>7. ASSUME UNCHANGED vars
      PROVE  /\ Known(routes, cpPrefixes, authzPrefixes)'
             /\ UNCHANGED Ownership!vars
  BY <1>7 DEF vars, RInv, Ownership!vars
<1> QED
  BY <1>1, <1>2, <1>3, <1>4, <1>5, <1>6, <1>7 DEF Next

(* The registry implements RouteOwnership: prefixes go to one agent at a     *)
(* time, only free and unreserved ones, and no step of another agent or of   *)
(* the configuration gives one away.                                         *)
THEOREM Refinement == Spec => ImplementsOwnership
  BY InitRefines, StepRefines, PTL DEF Spec, ImplementsOwnership, Ownership!Spec

(* No prefix has two owners, whatever is registered and reloaded.            *)
THEOREM OneOwner == Spec => []Ownership!SingleOwner
<1>1. IInv => Ownership!SingleOwner
  <2> SUFFICES ASSUME IInv,
                      NEW i \in DOMAIN routes, NEW j \in DOMAIN routes,
                      routes[i].agent # None, routes[j].agent # None,
                      routes[i].prefix = routes[j].prefix
               PROVE  routes[i] = routes[j]
    BY DEF Ownership!SingleOwner, OwnedIn, Elements
  <2>1. AgentsFirst(routes) /\ i \in Nat /\ j \in Nat
    BY EntryType DEF IInv, Consistent, WellFormed
  <2>2. ~(i < j /\ j < i)
    BY <2>1
  <2> QED
    BY <2>1, <2>2 DEF AgentsFirst
<1> QED
  BY <1>1, Invariant, PTL
=============================================================================
