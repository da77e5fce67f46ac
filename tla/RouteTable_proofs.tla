-------------------------- MODULE RouteTable_proofs --------------------------
(* Lemmas about the operators of RouteTable: what sorting, filtering and     *)
(* extending a table do to its entries, their types and their order.         *)
EXTENDS RouteTable, Lists_proofs

Table == Seq(RouteType)

\* the route lists an agent may answer with
DeclarationList == Seq(DeclarationType)

\* longest prefix first
Sorted(table) ==
    \A i, j \in DOMAIN table :
        i < j => PrefixLen(table[i].prefix) >= PrefixLen(table[j].prefix)

\* Every agent entry comes before all other entries with its prefix.
AgentsFirst(table) ==
    \A i, j \in DOMAIN table :
        /\ table[i].agent # None
        /\ table[i].prefix = table[j].prefix
        /\ i # j
        => i < j

\* The agent entries and the configuration's entries are what they say.
KindsAgree(table) ==
    \A r \in Elements(table) : r.agent # None <=> r.dest = "agent"
-----------------------------------------------------------------------------
(* The length of a prefix is a number.                                       *)
LEMMA PrefixLenType == ASSUME NEW p \in PathType PROVE PrefixLen(p) \in Nat
<1>1. Len(p) \in Nat
  BY DEF PathType
<1> DEFINE named == {i \in 1..Len(p) : p[i] # Empty}
<1>2. IsFiniteSet(1..Len(p)) /\ named \in SUBSET (1..Len(p))
  BY <1>1, FS_Interval
<1>3. IsFiniteSet(named)
  BY <1>2, FS_Subset
<1> QED
  BY <1>1, <1>3, FS_CardinalityType DEF PrefixLen

(* An entry of a table has a prefix, and its index is a number.              *)
LEMMA EntryType ==
    ASSUME NEW t \in Table, NEW i \in DOMAIN t
    PROVE  /\ t[i] \in RouteType /\ i \in Nat
           /\ t[i].prefix \in PathType /\ PrefixLen(t[i].prefix) \in Nat
<1>1. t[i] \in RouteType /\ i \in Nat
  BY DEF Table
<1>2. t[i].prefix \in PathType
  BY <1>1 DEF RouteType
<1> QED
  BY <1>1, <1>2, PrefixLenType

(* The sort order compares any two entries.                                  *)
LEMMA LongestOrders ==
    ASSUME NEW t \in Table
    PROVE  Orders(Longest(t), DOMAIN t)
<1>1. DOMAIN t = 1..Len(t) /\ Len(t) \in Nat
  BY DEF Table
<1>2. IsFiniteSet(DOMAIN t)
  BY <1>1, FS_Interval
<1>3. \A i \in DOMAIN t : i \in Nat /\ PrefixLen(t[i].prefix) \in Nat
  BY EntryType
<1> DEFINE n == [i \in DOMAIN t |-> PrefixLen(t[i].prefix)]
<1>4. \A i, j \in DOMAIN t :
        <<i, j>> \in Longest(t) <=> n[i] > n[j] \/ (n[i] = n[j] /\ i < j)
  BY DEF Longest
<1>5. \A i \in DOMAIN t : n[i] \in Nat
  BY <1>3
<1> HIDE DEF n
<1> QED
  BY <1>2, <1>3, <1>4, <1>5 DEF Orders

(* Sorting permutes the entries, puts the longest prefix first and keeps the *)
(* order of entries with the same prefix.                                    *)
THEOREM SortSorts ==
    ASSUME NEW t \in Table
    PROVE  /\ Sort(t) \in Table
           /\ Elements(Sort(t)) = Elements(t)
           /\ Sorted(Sort(t))
           /\ AgentsFirst(t) => AgentsFirst(Sort(t))
<1> DEFINE I == DOMAIN t
           s == Sort(t)
           n == [i \in I |-> PrefixLen(t[i].prefix)]
           before == Longest(t)
<1>1. Orders(before, I)
  BY LongestOrders
<1>2. \A i \in I : t[i] \in RouteType /\ i \in Nat /\ n[i] \in Nat
  BY EntryType
<1>3. \A i, j \in I :
        <<i, j>> \in before <=> n[i] > n[j] \/ (n[i] = n[j] /\ i < j)
  BY DEF Longest
<1>4. s = Ranked(t, I, before)
  BY DEF Sort
<1> HIDE DEF s, before, I, n
<1>5. /\ s \in Seq(RouteType) /\ DOMAIN s = 1..Cardinality(I)
      /\ Elements(s) = {t[i] : i \in I}
  BY <1>1, <1>2, <1>4, RankedElements
<1>6. PICK f : /\ Enumerates(f, I, before)
               /\ s = [k \in 1..Cardinality(I) |-> t[f[k]]]
  BY <1>1, <1>4, RankedLists
<1>7. \A k \in DOMAIN s : /\ k \in Nat
                          /\ f[k] \in I /\ s[k] = t[f[k]]
                          /\ n[f[k]] = PrefixLen(s[k].prefix)
  BY <1>5, <1>6 DEF Enumerates, n
<1>8. \A k, l \in DOMAIN s : k < l => <<f[k], f[l]>> \in before
  BY <1>5, <1>6 DEF Enumerates
<1>9. Sorted(s)
  <2>1. SUFFICES ASSUME NEW k \in DOMAIN s, NEW l \in DOMAIN s, k < l
                 PROVE  n[f[k]] >= n[f[l]]
    BY <1>7 DEF Sorted
  <2>2. n[f[k]] > n[f[l]] \/ n[f[k]] = n[f[l]]
    BY <1>3, <1>7, <1>8, <2>1
  <2> QED
    BY <1>2, <1>7, <2>2
<1>10. ASSUME AgentsFirst(t) PROVE AgentsFirst(s)
  <2>1. SUFFICES ASSUME NEW k \in DOMAIN s, NEW l \in DOMAIN s, s[k].agent # None,
                        s[k].prefix = s[l].prefix, l < k
                 PROVE  FALSE
    BY <1>7 DEF AgentsFirst
  <2>2. n[f[k]] = n[f[l]]
    BY <1>7, <2>1
  <2>3. f[l] < f[k]
    <3>1. f[l] \in I /\ f[k] \in I /\ <<f[l], f[k]>> \in before
      BY <1>7, <1>8, <2>1
    <3> QED
      BY <1>2, <1>3, <2>2, <3>1
  <2>4. /\ f[l] \in DOMAIN t /\ t[f[l]] = s[l] /\ f[l] \in Nat
        /\ f[k] \in DOMAIN t /\ t[f[k]] = s[k] /\ f[k] \in Nat
    BY <1>2, <1>7 DEF I
  <2>5. f[k] # f[l]
    BY <2>3, <2>4
  <2>6. f[k] < f[l]
    BY <1>10, <2>1, <2>4, <2>5 DEF AgentsFirst
  <2> QED
    BY <2>3, <2>4, <2>6
<1> QED
  BY <1>5, <1>9, <1>10 DEF Elements, Table, s, I
-----------------------------------------------------------------------------
(* Filtering keeps types, order and the entries that pass.                   *)
LEMMA KeepTable ==
    ASSUME NEW t \in Table, NEW I \in SUBSET DOMAIN t
    PROVE  /\ Keep(t, I) \in Table
           /\ Elements(Keep(t, I)) = {t[i] : i \in I}
           /\ Sorted(t) => Sorted(Keep(t, I))
           /\ AgentsFirst(t) => AgentsFirst(Keep(t, I))
<1> DEFINE s == Keep(t, I)
<1>1. /\ s \in Seq(RouteType) /\ Elements(s) = {t[i] : i \in I}
      /\ \E f \in [DOMAIN s -> I] :
            /\ \A k \in DOMAIN s : s[k] = t[f[k]]
            /\ \A k, l \in DOMAIN s : k < l => f[k] < f[l]
            /\ \A i \in I : \E k \in DOMAIN s : f[k] = i
  <2>1. t \in Seq(RouteType)
    BY DEF Table
  <2> QED
    BY <2>1, KeepLists
<1> HIDE DEF s
<1>2. PICK f \in [DOMAIN s -> I] :
            /\ \A k \in DOMAIN s : s[k] = t[f[k]]
            /\ \A k, l \in DOMAIN s : k < l => f[k] < f[l]
  BY <1>1
<1>3. \A k \in DOMAIN s : k \in Nat /\ f[k] \in DOMAIN t /\ f[k] \in Nat
  BY <1>1, <1>2, EntryType
<1>4. ASSUME Sorted(t) PROVE Sorted(s)
  BY <1>2, <1>3, <1>4 DEF Sorted
<1>5. ASSUME AgentsFirst(t) PROVE AgentsFirst(s)
  <2>1. SUFFICES ASSUME NEW k \in DOMAIN s, NEW l \in DOMAIN s, s[k].agent # None,
                        s[k].prefix = s[l].prefix, l < k
                 PROVE  FALSE
    BY <1>3 DEF AgentsFirst
  <2>2. f[l] < f[k]
    BY <1>2, <2>1
  <2>3. f[k] < f[l]
    BY <1>2, <1>3, <1>5, <2>1, <2>2 DEF AgentsFirst
  <2> QED
    BY <1>3, <2>2, <2>3
<1> QED
  BY <1>1, <1>4, <1>5 DEF Table, s

(* Appending adds entries behind those of the table.                         *)
LEMMA AppendTable ==
    ASSUME NEW t \in Table, NEW u \in Table
    PROVE  /\ t \o u \in Table
           /\ DOMAIN (t \o u) = 1..(Len(t) + Len(u))
           /\ \A i \in DOMAIN (t \o u) :
                 (t \o u)[i] = IF i <= Len(t) THEN t[i] ELSE u[i - Len(t)]
           /\ Elements(t \o u) = Elements(t) \cup Elements(u)
<1>1. t \in Seq(RouteType) /\ u \in Seq(RouteType)
  BY DEF Table
<1>2. /\ t \o u \in Seq(RouteType)
      /\ DOMAIN t = 1..Len(t) /\ Len(t) \in Nat
      /\ DOMAIN u = 1..Len(u) /\ Len(u) \in Nat
      /\ DOMAIN (t \o u) = 1..(Len(t) + Len(u))
  BY <1>1
<1>3. \A i \in DOMAIN (t \o u) :
         (t \o u)[i] = IF i <= Len(t) THEN t[i] ELSE u[i - Len(t)]
  BY <1>1, <1>2
<1>4. Elements(t \o u) \subseteq Elements(t) \cup Elements(u)
  <2> SUFFICES ASSUME NEW i \in DOMAIN (t \o u)
               PROVE  (t \o u)[i] \in Elements(t) \cup Elements(u)
    BY DEF Elements
  <2>1. CASE i <= Len(t)
    BY <1>2, <1>3, <2>1 DEF Elements
  <2>2. CASE ~(i <= Len(t))
    <3>1. i - Len(t) \in DOMAIN u
      BY <1>2, <2>2
    <3> QED
      BY <1>3, <2>2, <3>1 DEF Elements
  <2> QED
    BY <2>1, <2>2
<1>5. Elements(t) \subseteq Elements(t \o u)
  <2> SUFFICES ASSUME NEW i \in DOMAIN t PROVE t[i] \in Elements(t \o u)
    BY DEF Elements
  <2>1. i \in DOMAIN (t \o u) /\ i <= Len(t)
    BY <1>2
  <2> QED
    BY <1>3, <2>1 DEF Elements
<1>6. Elements(u) \subseteq Elements(t \o u)
  <2> SUFFICES ASSUME NEW i \in DOMAIN u PROVE u[i] \in Elements(t \o u)
    BY DEF Elements
  <2>1. /\ i + Len(t) \in DOMAIN (t \o u) /\ ~(i + Len(t) <= Len(t))
        /\ (i + Len(t)) - Len(t) = i
    BY <1>2
  <2> QED
    BY <1>3, <2>1 DEF Elements
<1> QED
  BY <1>2, <1>3, <1>4, <1>5, <1>6 DEF Table

(* Entries appended to a table leave its agents first, if no agent among     *)
(* them asks for a prefix the table has.                                     *)
LEMMA AppendAgentsFirst ==
    ASSUME NEW t \in Table, NEW u \in Table, AgentsFirst(t), AgentsFirst(u),
           \A r \in Elements(u) : r.agent # None => r.prefix \notin PrefixesIn(t)
    PROVE  AgentsFirst(t \o u)
<1> DEFINE s == t \o u
           n == Len(t)
<1>1. /\ s \in Table /\ n \in Nat /\ Len(u) \in Nat
      /\ DOMAIN t = 1..n /\ DOMAIN u = 1..Len(u)
      /\ DOMAIN s = 1..(n + Len(u))
      /\ \A i \in DOMAIN s : s[i] = IF i <= n THEN t[i] ELSE u[i - n]
  BY AppendTable DEF Table
<1> HIDE DEF s, n
<1>2. SUFFICES ASSUME NEW i \in DOMAIN s, NEW j \in DOMAIN s, s[i].agent # None,
                      s[i].prefix = s[j].prefix, i # j
               PROVE  i < j
  BY DEF AgentsFirst, s
<1>3. CASE i <= n /\ j <= n
  BY <1>1, <1>2, <1>3 DEF AgentsFirst
<1>4. CASE i <= n /\ ~(j <= n)
  BY <1>1, <1>4
<1>5. CASE ~(i <= n) /\ j <= n
  <2>1. i - n \in DOMAIN u /\ s[i] = u[i - n] /\ j \in DOMAIN t /\ s[j] = t[j]
    BY <1>1, <1>5
  <2>2. s[i] \in Elements(u) /\ s[j] \in Elements(t)
    BY <2>1 DEF Elements
  <2>3. s[i].prefix \in PrefixesIn(t)
    BY <1>2, <2>2 DEF PrefixesIn
  <2> QED
    BY <1>2, <2>2, <2>3
<1>6. CASE ~(i <= n) /\ ~(j <= n)
  <2>1. /\ i - n \in DOMAIN u /\ s[i] = u[i - n]
        /\ j - n \in DOMAIN u /\ s[j] = u[j - n]
        /\ i - n # j - n
    BY <1>1, <1>2, <1>6
  <2>2. i - n < j - n
    BY <1>2, <2>1 DEF AgentsFirst
  <2> QED
    BY <1>1, <2>2
<1> QED
  BY <1>1, <1>3, <1>4, <1>5, <1>6
-----------------------------------------------------------------------------
\* what a table says of the prefixes of a kind of entry
Reserved(table, dest) == {r.prefix : r \in {e \in Elements(table) : e.dest = dest}}

(* The entries of the controlplanes.                                         *)
LEMMA CpRoutesTable ==
    ASSUME NEW cps \in Seq(CpType)
    PROVE  /\ CpRoutes(cps) \in Table
           /\ \A r \in Elements(CpRoutes(cps)) : r.agent = None /\ r.dest = "controlplane"
           /\ CpPrefixesOf(cps) \in Seq(PathType)
           /\ Reserved(CpRoutes(cps), "controlplane") =
              {CpPrefixesOf(cps)[i] : i \in DOMAIN CpPrefixesOf(cps)}
<1>1. /\ DOMAIN cps = 1..Len(cps) /\ Len(cps) \in Nat
      /\ \A i \in 1..Len(cps) : cps[i] \in CpType
  OBVIOUS
<1>2. ASSUME NEW i \in 1..Len(cps)
      PROVE  /\ CpRoute(cps[i]) \in RouteType
             /\ CpRoute(cps[i]).agent = None /\ CpRoute(cps[i]).dest = "controlplane"
             /\ CpRoute(cps[i]).prefix = cps[i].prefix
             /\ cps[i].prefix \in PathType
  <2>1. /\ cps[i].name \in CpName /\ cps[i].url \in Target
        /\ cps[i].prefix \in PathType
    BY <1>1 DEF CpType
  <2> QED
    BY <2>1 DEF CpRoute, RouteType, Transport, WhitelistType
<1>3. CpRoutes(cps) \in Table /\ CpPrefixesOf(cps) \in Seq(PathType)
  BY <1>1, <1>2 DEF CpRoutes, CpPrefixesOf, Table
<1>4. Elements(CpRoutes(cps)) = {CpRoute(cps[i]) : i \in 1..Len(cps)}
  BY DEF Elements, CpRoutes
<1>5. {CpPrefixesOf(cps)[i] : i \in DOMAIN CpPrefixesOf(cps)}
         = {cps[i].prefix : i \in 1..Len(cps)}
  BY DEF CpPrefixesOf
<1>6. \A r \in Elements(CpRoutes(cps)) : r.agent = None /\ r.dest = "controlplane"
  BY <1>2, <1>4
<1>7. Reserved(CpRoutes(cps), "controlplane") = {cps[i].prefix : i \in 1..Len(cps)}
  <2>1. Reserved(CpRoutes(cps), "controlplane")
           = {r.prefix : r \in Elements(CpRoutes(cps))}
    BY <1>6 DEF Reserved
  <2> QED
    BY <1>2, <1>4, <2>1
<1> QED
  BY <1>3, <1>5, <1>6, <1>7

(* The entries of the authz server, of which there are none without a URL.   *)
LEMMA AuthzRoutesTable ==
    ASSUME NEW url \in Target \cup {None}, NEW ps \in Seq(PathType),
           url = None => ps = <<>>
    PROVE  /\ AuthzRoutes(url, ps) \in Table
           /\ \A r \in Elements(AuthzRoutes(url, ps)) : r.agent = None /\ r.dest = "authz"
           /\ Reserved(AuthzRoutes(url, ps), "authz") = {ps[i] : i \in DOMAIN ps}
<1>1. /\ DOMAIN ps = 1..Len(ps) /\ Len(ps) \in Nat
      /\ \A i \in 1..Len(ps) : ps[i] \in PathType /\ url \in Target
  OBVIOUS
<1>2. ASSUME NEW i \in 1..Len(ps)
      PROVE  /\ AuthzRoute(url, ps[i]) \in RouteType
             /\ AuthzRoute(url, ps[i]).agent = None
             /\ AuthzRoute(url, ps[i]).dest = "authz"
             /\ AuthzRoute(url, ps[i]).prefix = ps[i]
  BY <1>1 DEF AuthzRoute, RouteType, Transport, WhitelistType
<1>3. AuthzRoutes(url, ps) \in Table
  BY <1>1, <1>2 DEF AuthzRoutes, Table
<1>4. Elements(AuthzRoutes(url, ps)) = {AuthzRoute(url, ps[i]) : i \in 1..Len(ps)}
  BY DEF Elements, AuthzRoutes
<1> QED
  BY <1>1, <1>2, <1>3, <1>4 DEF Reserved

\* the prefixes of a list, as a set
Listed(prefixes) == {prefixes[i] : i \in DOMAIN prefixes}

(* The lists and entries a configuration gives rise to.                      *)
LEMMA ConfigLists ==
    ASSUME NEW cfg \in ConfigType
    PROVE  /\ cfg.cps \in Seq(CpType)
           /\ CpPrefixesOf(cfg.cps) \in Seq(PathType)
           /\ AuthzPrefixesOf(cfg) \in Seq(PathType)
           /\ cfg.authz.url # None => cfg.authz.prefixes \in Seq(PathType)
           /\ cfg.authz.url \in Target \cup {None}
           /\ ConfigRoutes(cfg) \in Table
           /\ \A r \in Elements(ConfigRoutes(cfg)) :
                 r.agent = None /\ r.dest \in {"controlplane", "authz"}
           /\ Reserved(ConfigRoutes(cfg), "controlplane") = Listed(CpPrefixesOf(cfg.cps))
           /\ Reserved(ConfigRoutes(cfg), "authz") = Listed(AuthzPrefixesOf(cfg))
<1> DEFINE c == CpRoutes(cfg.cps)
           ps == AuthzPrefixesOf(cfg)
           z == AuthzRoutes(cfg.authz.url, ps)
<1>1. /\ cfg.cps \in Seq(CpType)
      /\ cfg.authz.url \in Target \cup {None}
      /\ cfg.authz.prefixes \in Seq(PathType)
  BY DEF ConfigType
<1>2. ps \in Seq(PathType) /\ (cfg.authz.url = None => ps = <<>>)
  BY <1>1 DEF AuthzPrefixesOf
<1>3. /\ c \in Table
      /\ \A r \in Elements(c) : r.agent = None /\ r.dest = "controlplane"
      /\ CpPrefixesOf(cfg.cps) \in Seq(PathType)
      /\ Reserved(c, "controlplane") = Listed(CpPrefixesOf(cfg.cps))
  BY <1>1, CpRoutesTable DEF Listed
<1> HIDE DEF ps
<1>4. /\ z \in Table
      /\ \A r \in Elements(z) : r.agent = None /\ r.dest = "authz"
      /\ Reserved(z, "authz") = Listed(ps)
  BY <1>1, <1>2, AuthzRoutesTable DEF Listed
<1>5. ConfigRoutes(cfg) = c \o z
  BY DEF ConfigRoutes, ps
<1> HIDE DEF c, z
<1>6. c \o z \in Table /\ Elements(c \o z) = Elements(c) \cup Elements(z)
  BY <1>3, <1>4, AppendTable
<1>7. /\ Reserved(c \o z, "controlplane") = Reserved(c, "controlplane")
      /\ Reserved(c \o z, "authz") = Reserved(z, "authz")
  BY <1>3, <1>4, <1>6 DEF Reserved
<1> QED
  BY <1>1, <1>2, <1>3, <1>4, <1>5, <1>6, <1>7 DEF ps

(* What a configuration reserves is what it asks for.                        *)
LEMMA ConfigAsks ==
    ASSUME NEW cfg \in ConfigType
    PROVE  /\ Listed(CpPrefixesOf(cfg.cps)) \subseteq ConfiguredIn(cfg)
           /\ Listed(AuthzPrefixesOf(cfg)) \subseteq ConfiguredIn(cfg)
           /\ Listed(cfg.authz.prefixes) \subseteq ConfiguredIn(cfg)
<1>1. Listed(CpPrefixesOf(cfg.cps)) = {cfg.cps[i].prefix : i \in DOMAIN cfg.cps}
  <2>1. DOMAIN cfg.cps = 1..Len(cfg.cps)
    BY ConfigLists
  <2> QED
    BY <2>1 DEF Listed, CpPrefixesOf
<1>2. Listed(<<>>) = {}
  BY DEF Listed
<1> QED
  BY <1>1, <1>2 DEF AuthzPrefixesOf, ConfiguredIn, Listed
-----------------------------------------------------------------------------
\* r is an entry agent a may be given on top of table t
Admitted(r, t, cpPs, authzPs, a, transport, target, decls) ==
    /\ \E i \in DOMAIN decls : r.prefix = decls[i].prefix
    /\ r.agent = a /\ r.dest = "agent"
    /\ r.transport = transport /\ r.target = target
    /\ Valid(r.prefix)
    /\ ~OverlapsAny(r.prefix, cpPs) /\ ~OverlapsAny(r.prefix, authzPs)
    /\ r.prefix \notin PrefixesIn(t)

(* Registering declarations only adds entries of that agent, for prefixes    *)
(* that are valid, unreserved and free, and leaves a sorted table in which   *)
(* agents still come first.                                                  *)
THEOREM ExtendExtends ==
    ASSUME NEW t \in Table, NEW a \in Agent, NEW transport \in Transport,
           NEW target \in Target, NEW decls \in DeclarationList,
           NEW cpPs, NEW authzPs
    PROVE  /\ Extend(t, cpPs, authzPs, a, transport, target, decls) \in Table
           /\ Sorted(Extend(t, cpPs, authzPs, a, transport, target, decls))
           /\ AgentsFirst(t) =>
                AgentsFirst(Extend(t, cpPs, authzPs, a, transport, target, decls))
           /\ \E new \in SUBSET RouteType :
                /\ Elements(Extend(t, cpPs, authzPs, a, transport, target, decls))
                     = Elements(t) \cup new
                /\ \A r \in new : Admitted(r, t, cpPs, authzPs, a, transport, target, decls)
<1> DEFINE I == Accepted(t, cpPs, authzPs, decls)
           new == Keep(decls, I)
           u == [i \in DOMAIN new |-> AgentRoute(a, transport, target, new[i])]
<1>1. /\ new \in Seq(DeclarationType)
      /\ \E f \in [DOMAIN new -> I] :
            /\ \A k \in DOMAIN new : new[k] = decls[f[k]]
            /\ \A k, l \in DOMAIN new : k < l => f[k] < f[l]
  <2>1. I \subseteq DOMAIN decls
    BY DEF Accepted
  <2>2. decls \in Seq(DeclarationType)
    BY DEF DeclarationList
  <2> QED
    BY <2>1, <2>2, KeepLists
<1>2. Extend(t, cpPs, authzPs, a, transport, target, decls) = Sort(t \o u)
  BY DEF Extend
<1> HIDE DEF new
<1>3. PICK f \in [DOMAIN new -> I] :
            /\ \A k \in DOMAIN new : new[k] = decls[f[k]]
            /\ \A k, l \in DOMAIN new : k < l => f[k] < f[l]
  BY <1>1
<1>4. /\ DOMAIN new = 1..Len(new) /\ Len(new) \in Nat
      /\ \A k \in DOMAIN new : new[k] \in DeclarationType
  BY <1>1
<1>5. ASSUME NEW k \in DOMAIN new
      PROVE  /\ u[k] \in RouteType /\ u[k].prefix = new[k].prefix
             /\ Admitted(u[k], t, cpPs, authzPs, a, transport, target, decls)
  <2>1. new[k].prefix \in PathType /\ new[k].whitelist \in WhitelistType
    BY <1>4 DEF DeclarationType
  <2>2. u[k] = AgentRoute(a, transport, target, new[k])
    OBVIOUS
  <2>3. /\ u[k] \in RouteType /\ u[k].prefix = new[k].prefix
        /\ u[k].agent = a /\ u[k].dest = "agent"
        /\ u[k].transport = transport /\ u[k].target = target
    BY <2>1, <2>2 DEF AgentRoute, RouteType
  <2>4. f[k] \in I /\ new[k] = decls[f[k]] /\ f[k] \in DOMAIN decls
    BY <1>3 DEF Accepted
  <2>5. /\ Valid(new[k].prefix)
        /\ ~OverlapsAny(new[k].prefix, cpPs) /\ ~OverlapsAny(new[k].prefix, authzPs)
        /\ new[k].prefix \notin PrefixesIn(t)
    BY <2>4 DEF Accepted
  <2> QED
    BY <2>3, <2>4, <2>5 DEF Admitted
<1>6. \A k, l \in DOMAIN new : k < l => new[k].prefix # new[l].prefix
  <2> SUFFICES ASSUME NEW k \in DOMAIN new, NEW l \in DOMAIN new, k < l
               PROVE  new[k].prefix # new[l].prefix
    OBVIOUS
  <2>1. f[k] \in I /\ f[l] \in I /\ f[k] < f[l]
    BY <1>3
  <2>2. decls[f[k]].prefix # decls[f[l]].prefix
    BY <2>1 DEF Accepted
  <2> QED
    BY <1>3, <2>2
<1>7. u \in Table /\ DOMAIN u = DOMAIN new
  BY <1>4, <1>5 DEF Table
<1> HIDE DEF u
<1>8. AgentsFirst(u)
  <2>1. \A k, l \in DOMAIN u : k < l => u[k].prefix # u[l].prefix
    BY <1>5, <1>6, <1>7
  <2>2. \A k \in DOMAIN u : k \in Nat
    BY <1>7, EntryType
  <2> QED
    BY <2>1, <2>2 DEF AgentsFirst
<1>9. Elements(u) \subseteq RouteType
      /\ \A r \in Elements(u) : Admitted(r, t, cpPs, authzPs, a, transport, target, decls)
  BY <1>5, <1>7 DEF Elements
<1>10. t \o u \in Table /\ Elements(t \o u) = Elements(t) \cup Elements(u)
  BY <1>7, AppendTable
<1>11. AgentsFirst(t) => AgentsFirst(t \o u)
  BY <1>7, <1>8, <1>9, AppendAgentsFirst DEF Admitted
<1> QED
  BY <1>2, <1>9, <1>10, <1>11, SortSorts

(* The agents of a table with fewer entries own no more.                     *)
LEMMA FewerOwned ==
    ASSUME NEW s, NEW t, Elements(s) \subseteq Elements(t)
    PROVE  OwnedIn(s) \subseteq OwnedIn(t)
  BY DEF OwnedIn

(* Dropping entries of agents keeps those of the others.                     *)
LEMMA DropsEntries ==
    ASSUME NEW t \in Table, NEW gone
    PROVE  /\ WithoutAgents(t, gone) \in Table
           /\ Elements(WithoutAgents(t, gone)) = {r \in Elements(t) : r.agent \notin gone}
<1> DEFINE I == {i \in DOMAIN t : t[i].agent \notin gone}
<1>1. /\ WithoutAgents(t, gone) \in Table
      /\ Elements(WithoutAgents(t, gone)) = {t[i] : i \in I}
  BY KeepTable DEF WithoutAgents
<1> QED
  BY <1>1 DEF Elements

\* Between tables t and s agent a gained the prefixes P, which were free, valid
\* and clear of the reserved ones, and nobody lost any.
Gains(s, t, a, P, cpPs, authzPs) ==
    /\ OwnedIn(s) = OwnedIn(t) \cup (P \X {a})
    /\ \A p \in P : /\ p \notin PrefixesIn(t) /\ Valid(p)
                    /\ ~OverlapsAny(p, cpPs) /\ ~OverlapsAny(p, authzPs)

(* Registering declarations gives the agent prefixes it declared, all valid, *)
(* free and clear of the reserved ones, and takes nothing from anybody.      *)
LEMMA ExtendOwns ==
    ASSUME NEW t \in Table, NEW a \in Agent, NEW transport \in Transport,
           NEW target \in Target, NEW decls \in DeclarationList,
           NEW cpPs, NEW authzPs,
           NEW s, s = Extend(t, cpPs, authzPs, a, transport, target, decls)
    PROVE  \E P \in SUBSET DeclaredIn(decls) : Gains(s, t, a, P, cpPs, authzPs)
<1>1. PICK added \in SUBSET RouteType :
            /\ Elements(s) = Elements(t) \cup added
            /\ \A r \in added : Admitted(r, t, cpPs, authzPs, a, transport, target, decls)
  BY ExtendExtends
<1> DEFINE new == {r.prefix : r \in added}
<1>2. new \subseteq DeclaredIn(decls)
  BY <1>1 DEF Admitted, DeclaredIn
<1>3. a # None
  BY NoneIsNoName
<1>4. OwnedIn(s) = OwnedIn(t) \cup (new \X {a})
  <2>1. {<<r.prefix, r.agent>> : r \in added} = new \X {a}
    BY <1>1 DEF Admitted
  <2>2. \A r \in added : r.agent # None
    BY <1>1, <1>3 DEF Admitted
  <2> QED
    BY <1>1, <2>1, <2>2 DEF OwnedIn
<1>5. \A p \in new : /\ p \notin PrefixesIn(t) /\ Valid(p)
                     /\ ~OverlapsAny(p, cpPs) /\ ~OverlapsAny(p, authzPs)
  BY <1>1 DEF Admitted
<1> QED
  BY <1>2, <1>4, <1>5 DEF Gains
-----------------------------------------------------------------------------
(* lookup answers with the first entry that matches.                         *)
LEMMA LookupFirst ==
    ASSUME NEW t \in Table, NEW path, NEW i \in Hits(t, path)
    PROVE  \E m \in Hits(t, path) : /\ \A j \in Hits(t, path) : m <= j
                                    /\ Lookup(t, path) = t[m]
<1> DEFINE H == Hits(t, path)
           m == CHOOSE k \in H : \A j \in H : k <= j
<1>1. H \in SUBSET DOMAIN t /\ H # {}
  BY DEF Hits
<1>2. \E k \in H : \A j \in H : k <= j
  BY <1>1, FirstIndex DEF Table
<1>3. m \in H /\ \A j \in H : m <= j
  BY <1>2
<1>4. Lookup(t, path) = t[m]
  BY <1>1 DEF Lookup
<1> QED
  BY <1>3, <1>4
=============================================================================
