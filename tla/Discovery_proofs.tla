--------------------------- MODULE Discovery_proofs ---------------------------
(* For every set of agents, files, configurations and declarations, and any  *)
(* number of refreshes: discovery keeps its types and its lock discipline,   *)
(* every route points at the endpoint its agent is registered with, the      *)
(* registry is used within its promise, and what is registered without being *)
(* asked for, or older than what it replaces, is a refresh's doing.          *)
EXTENDS Discovery, RouteTable_proofs

\* t fetches the routes of an agent, or is about to register them
Active(t) == pc[t] \in {"fetching", "answered"}

\* the tasks of reconcile in the queue of the lock; only its head is past it
LockInv ==
    /\ NoRepeat(lockq)
    /\ \A t \in Reconcilers :
          /\ t \in Elements(lockq) <=> pc[t] = "queued" \/ Active(t)
          /\ Active(t) => Head(lockq) = t

\* an active task works on an agent it planned to, whose answer is one it gave
WorkInv ==
    \A t \in Task : Active(t) =>
        /\ cur[t] \in Named(plan[t])
        /\ pc[t] = "answered" => answer[t] \in 1..version[cur[t]]

\* the inductive invariant
DiscInv == TypeOK /\ LockInv /\ WorkInv /\ RoutesMatchAgents

\* refreshes aside, only the holder of the lock adds agents, and the last scan
\* found all it may add
GhostInv ==
    /\ OnlyRefreshesRevive
    /\ \A t \in Reconcilers : Active(t) => Named(plan[t]) \subseteq Named(scan)

\* the holder's answer is at least as new as what is registered, unless a
\* refresh registered it
AgeInv ==
    /\ \A a \in Agent : shown[a] <= version[a]
    /\ \A t \in Reconcilers : pc[t] = "answered" =>
          shown[cur[t]] <= answer[t] \/ cur[t] \in refreshed

\* requests find routes and open clients for them
Proxied == HoldRoute \/ (\E target \in Target : OpenClient(target))

\* the inductive invariant of what refreshes disturb
QuietInv == DiscInv /\ GhostInv /\ AgeInv
-----------------------------------------------------------------------------
(* The registry is an instance of RouteRegistry; what it means by an         *)
(* operator of RouteTable is what this module means by it.                   *)
LEMMA SameRanked ==
    ASSUME NEW s, NEW I, NEW before
    PROVE  Registry!Ranked(s, I, before) = Ranked(s, I, before)
BY DEF Ranked, Rank, Cardinality, Registry!Ranked, Registry!Rank, Registry!Cardinality

LEMMA SameKeep ==
    ASSUME NEW s, NEW I
    PROVE  Registry!Keep(s, I) = Keep(s, I)
BY SameRanked DEF Keep, Position, Registry!Keep, Registry!Position

LEMMA SameSort ==
    ASSUME NEW s
    PROVE  Registry!Sort(s) = Sort(s)
BY SameRanked DEF Sort, Longest, PrefixLen, Cardinality, Registry!Sort, Registry!Longest,
                  Registry!PrefixLen, Registry!Cardinality

LEMMA SameConfigRoutes ==
    ASSUME NEW c
    PROVE  /\ Registry!ConfigRoutes(c) = ConfigRoutes(c)
           /\ Registry!CpPrefixesOf(c.cps) = CpPrefixesOf(c.cps)
           /\ Registry!AuthzPrefixesOf(c) = AuthzPrefixesOf(c)
BY DEF ConfigRoutes, CpRoutes, CpRoute, AuthzRoutes, AuthzRoute, AuthzPrefixesOf,
       CpPrefixesOf, Registry!CpPrefixesOf,
       Registry!ConfigRoutes, Registry!CpRoutes, Registry!CpRoute, Registry!AuthzRoutes,
       Registry!AuthzRoute, Registry!AuthzPrefixesOf

LEMMA SameAgentPart ==
    ASSUME NEW t, NEW http0
    PROVE  Registry!AgentPart(t, http0) = AgentPart(t, http0)
BY SameKeep DEF AgentPart, Registry!AgentPart

LEMMA SameWithout ==
    ASSUME NEW t, NEW a
    PROVE  Registry!Without(t, a) = WithoutAgents(t, {a})
BY SameKeep DEF WithoutAgents, Registry!Without, Registry!WithoutAgents

LEMMA SameAccepted ==
    ASSUME NEW t, NEW cpPs, NEW authzPs, NEW decls
    PROVE  Registry!Accepted(t, cpPs, authzPs, decls) = Accepted(t, cpPs, authzPs, decls)
BY DEF Accepted, Valid, OverlapsAny, Overlaps, Under, Slashed, EmptyPath, Root, RootStar,
       PrefixesIn, Elements, Registry!Accepted, Registry!Valid, Registry!OverlapsAny,
       Registry!Overlaps, Registry!Under, Registry!Slashed, Registry!EmptyPath,
       Registry!Root, Registry!RootStar, Registry!PrefixesIn, Registry!Elements,
       Below, Bare, Registry!Below, Registry!Bare

LEMMA SameExtend ==
    ASSUME NEW t, NEW cpPs, NEW authzPs, NEW a, NEW transport, NEW target, NEW decls
    PROVE  Registry!Extend(t, cpPs, authzPs, a, transport, target, decls) =
               Extend(t, cpPs, authzPs, a, transport, target, decls)
BY SameSort, SameKeep, SameAccepted DEF Extend, AgentRoute, Registry!Extend,
                                        Registry!AgentRoute
-----------------------------------------------------------------------------
(* The table after a registration points at the endpoint of the agent.       *)
LEMMA ExtendedTable ==
    ASSUME NEW t \in Table, NEW a \in Agent, NEW transport \in Transport,
           NEW target \in Target, NEW decls \in DeclarationList,
           NEW cpPs, NEW authzPs
    PROVE  /\ Extend(t, cpPs, authzPs, a, transport, target, decls) \in Table
           /\ \A r \in Elements(Extend(t, cpPs, authzPs, a, transport, target, decls)) :
                \/ r \in Elements(t)
                \/ r.agent = a /\ r.transport = transport /\ r.target = target
<1> DEFINE s == Extend(t, cpPs, authzPs, a, transport, target, decls)
<1>1. s \in Table
  BY ExtendExtends
<1>2. PICK new \in SUBSET RouteType :
         /\ Elements(s) = Elements(t) \cup new
         /\ \A r \in new : Admitted(r, t, cpPs, authzPs, a, transport, target, decls)
  BY ExtendExtends
<1> QED
  BY <1>1, <1>2 DEF Admitted

LEMMA RegisteredTable ==
    ASSUME NEW t \in Table, NEW a \in Agent, NEW transport \in Transport,
           NEW target \in Target, NEW decls \in DeclarationList,
           NEW cpPs, NEW authzPs,
           NEW s, s = Extend(WithoutAgents(t, {a}), cpPs, authzPs, a, transport,
                             target, decls)
    PROVE  /\ s \in Table
           /\ \A r \in Elements(s) :
                \/ r \in Elements(t) /\ r.agent # a
                \/ r.agent = a /\ r.transport = transport /\ r.target = target
<1> DEFINE w == WithoutAgents(t, {a})
           x == Extend(w, cpPs, authzPs, a, transport, target, decls)
<1>1. w \in Table
  BY DropsEntries
<1>2. Elements(w) = {r \in Elements(t) : r.agent \notin {a}}
  BY DropsEntries
<1>3. /\ x \in Table
      /\ \A r \in Elements(x) :
            \/ r \in Elements(w)
            \/ r.agent = a /\ r.transport = transport /\ r.target = target
  <2> HIDE DEF w
  <2> QED
    BY <1>1, ExtendedTable
<1>4. s = x
  OBVIOUS
<1> HIDE DEF w, x
<1> QED
  BY <1>2, <1>3, <1>4

(* The table after a reload has no entry of an agent it did not have before. *)
LEMMA ReloadedTable ==
    ASSUME NEW t \in Table, NEW c \in ConfigType, NEW http0,
           NEW s, s = Sort(AgentPart(t, http0) \o ConfigRoutes(c))
    PROVE  /\ s \in Table
           /\ \A r \in Elements(s) : r.agent # None => r \in Elements(t)
<1> DEFINE I == {i \in DOMAIN t : t[i].dest = "agent" /\ (http0 \/ t[i].transport # "http")}
           u == AgentPart(t, http0)
           v == ConfigRoutes(c)
<1>1. u \in Table /\ Elements(u) = {t[i] : i \in I}
  BY KeepTable DEF AgentPart
<1>2. v \in Table /\ \A r \in Elements(v) : r.agent = None
  BY ConfigLists
<1>3. s = Sort(u \o v)
  OBVIOUS
<1>4. Elements(u) \subseteq Elements(t)
  BY <1>1 DEF Elements
<1> HIDE DEF u, v
<1>5. u \o v \in Table /\ Elements(u \o v) = Elements(u) \cup Elements(v)
  BY <1>1, <1>2, AppendTable
<1> QED
  BY <1>2, <1>3, <1>4, <1>5, SortSorts
-----------------------------------------------------------------------------
(* A task that calls reconcile joins the queue at its end.                   *)
LEMMA LockJoined ==
    ASSUME TypeOK, LockInv, NEW t \in Reconcilers, pc[t] \in {"idle", "notify"}, Acquire(t)
    PROVE  LockInv' /\ lockq' \in Seq(Reconcilers)
<1>1. /\ lockq \in Seq(Reconcilers) /\ NoRepeat(lockq) /\ t \notin Elements(lockq)
      /\ pc' = [pc EXCEPT ![t] = "queued"] /\ lockq' = Append(lockq, t)
      /\ t \in DOMAIN pc /\ Reconcilers \subseteq DOMAIN pc
  BY DEF TypeOK, LockInv, Acquire, Task, Active
<1>2. /\ lockq' \in Seq(Reconcilers) /\ NoRepeat(lockq')
      /\ Elements(lockq') = Elements(lockq) \cup {t}
      /\ lockq # <<>> => Head(lockq') = Head(lockq)
  BY <1>1, QueueJoined
<1>3. lockq = <<>> => Elements(lockq) = {}
  BY DEF Elements
<1>4. ASSUME NEW r \in Reconcilers
      PROVE  /\ r \in Elements(lockq') <=> (pc[r] = "queued" \/ Active(r))'
             /\ Active(r)' => Head(lockq') = r
  <2>1. CASE r = t
    BY <1>1, <1>2, <2>1 DEF Active
  <2>2. CASE r # t
    BY <1>1, <1>2, <1>3, <2>2 DEF Active, LockInv
  <2> QED
    BY <2>1, <2>2
<1> QED
  BY <1>2, <1>4 DEF LockInv

(* The holder of the lock leaves it to the next one.                         *)
LEMMA LockLeft ==
    ASSUME TypeOK, LockInv, NEW t \in Reconcilers, t \in Elements(lockq), Head(lockq) = t,
           lockq' = Tail(lockq), pc'[t] \notin {"queued", "fetching", "answered"},
           \A r \in Reconcilers \ {t} : pc'[r] = pc[r]
    PROVE  LockInv' /\ lockq' \in Seq(Reconcilers)
<1>1. lockq \in Seq(Reconcilers) /\ NoRepeat(lockq) /\ lockq # <<>>
  BY DEF TypeOK, LockInv, Elements
<1>2. /\ lockq' \in Seq(Reconcilers) /\ NoRepeat(lockq')
      /\ Elements(lockq') = Elements(lockq) \ {t}
  BY <1>1, QueueLeft
<1>3. ASSUME NEW r \in Reconcilers
      PROVE  /\ r \in Elements(lockq') <=> (pc[r] = "queued" \/ Active(r))'
             /\ ~Active(r)'
  <2>1. CASE r = t
    BY <1>2, <2>1 DEF Active
  <2>2. CASE r # t
    BY <1>2, <2>2 DEF Active, LockInv
  <2> QED
    BY <2>1, <2>2
<1> QED
  BY <1>2, <1>3 DEF LockInv

(* Nobody calls reconcile or returns from it.                                *)
LEMMA LockKept ==
    ASSUME TypeOK, LockInv, lockq' = lockq,
           \A r \in Reconcilers : /\ (pc[r] = "queued" \/ Active(r))' <=>
                                      pc[r] = "queued" \/ Active(r)
                                  /\ Active(r)' => Head(lockq) = r
    PROVE  LockInv' /\ lockq' \in Seq(Reconcilers)
  BY DEF LockInv, TypeOK

(* A step leaves the work of the tasks that go on as it is.                  *)
LEMMA WorkKept ==
    ASSUME TypeOK, WorkInv, version' \in [Agent -> Nat],
           \A a \in Agent : version[a] <= version'[a],
           \A t \in Task : Active(t)' =>
               \/ /\ pc'[t] = pc[t] /\ plan'[t] = plan[t]
                  /\ cur'[t] = cur[t] /\ answer'[t] = answer[t]
               \/ pc'[t] = "fetching" /\ cur'[t] \in Named(plan'[t])
    PROVE  WorkInv'
<1>1. ASSUME NEW t \in Task, Active(t)', pc'[t] = pc[t], plan'[t] = plan[t],
             cur'[t] = cur[t], answer'[t] = answer[t]
      PROVE  /\ cur'[t] \in Named(plan'[t])
             /\ pc'[t] = "answered" => answer'[t] \in 1..version'[cur'[t]]
  <2>1. Active(t)
    BY <1>1 DEF Active
  <2>2. cur[t] \in Named(plan[t]) /\ cur[t] \in Agent
    BY <2>1 DEF WorkInv, Named
  <2>3. version[cur[t]] \in Nat /\ version'[cur[t]] \in Nat
        /\ version[cur[t]] <= version'[cur[t]]
    BY <2>2 DEF TypeOK
  <2>4. pc[t] = "answered" => answer[t] \in 1..version[cur[t]]
    BY <2>1 DEF WorkInv
  <2> QED
    BY <1>1, <2>2, <2>3, <2>4
<1> QED
  BY <1>1 DEF WorkInv, Active
-----------------------------------------------------------------------------
\* t has the lock, if it is a task of reconcile
AtHead(t) == t \in Reconcilers => t \in Elements(lockq) /\ Head(lockq) = t

(* A task that goes on with the agents it has left is still at the head of   *)
(* the queue or has left it, and leaves the other tasks alone.               *)
LEMMA ProceedStep ==
    ASSUME TypeOK, LockInv, WorkInv, NEW t \in Task, NEW left \in MaybeEndpoints,
           NEW wanted, Proceed(t, left, wanted), AtHead(t), version' = version
    PROVE  /\ clients' \subseteq Target
           /\ phase' \in {"boot", "starting", "running", "failed"}
           /\ pc' \in [Task -> {"idle", "queued", "fetching", "answered", "done",
                                "notify", "down", "dead"}]
           /\ lockq' \in Seq(Reconcilers)
           /\ plan' \in [Task -> MaybeEndpoints]
           /\ cur' \in [Task -> Agent \cup {None}]
           /\ answer' \in [Task -> Nat]
           /\ LockInv' /\ WorkInv'
           /\ Active(t)' => pc'[t] = "fetching" /\ plan'[t] = left
           /\ \A r \in Task \ {t} : /\ pc'[r] = pc[r] /\ plan'[r] = plan[r]
                                    /\ cur'[r] = cur[r] /\ answer'[r] = answer[r]
<1>1. /\ plan' = [plan EXCEPT ![t] = left] /\ answer' = [answer EXCEPT ![t] = 0]
      /\ plan \in [Task -> MaybeEndpoints] /\ answer \in [Task -> Nat]
      /\ cur \in [Task -> Agent \cup {None}]
      /\ pc \in [Task -> {"idle", "queued", "fetching", "answered", "done",
                          "notify", "down", "dead"}]
      /\ lockq \in Seq(Reconcilers) /\ clients \subseteq Target
      /\ phase \in {"boot", "starting", "running", "failed"}
  BY DEF TypeOK, Proceed
<1>2. \A r \in Reconcilers : r \in Task
  BY DEF Task
<1>3. CASE \E a \in Upcoming(t, left) : /\ cur' = [cur EXCEPT ![t] = a]
                                        /\ pc' = [pc EXCEPT ![t] = "fetching"]
                                        /\ UNCHANGED <<clients, lockq, phase>>
  <2>1. PICK a \in Named(left) : /\ cur' = [cur EXCEPT ![t] = a]
                                 /\ pc' = [pc EXCEPT ![t] = "fetching"]
                                 /\ UNCHANGED <<clients, lockq, phase>>
    BY <1>3 DEF Upcoming
  <2>2. a \in Agent
    BY DEF Named
  <2>3. \A r \in Task \ {t} : /\ pc'[r] = pc[r] /\ plan'[r] = plan[r]
                              /\ cur'[r] = cur[r] /\ answer'[r] = answer[r]
    BY <1>1, <2>1
  <2>4. pc'[t] = "fetching" /\ plan'[t] = left /\ cur'[t] = a
    BY <1>1, <2>1
  <2>5. WorkInv'
    <3>1. \A r \in Task : Active(r)' =>
               \/ /\ pc'[r] = pc[r] /\ plan'[r] = plan[r]
                  /\ cur'[r] = cur[r] /\ answer'[r] = answer[r]
               \/ pc'[r] = "fetching" /\ cur'[r] \in Named(plan'[r])
      BY <2>1, <2>3, <2>4
    <3>2. version' \in [Agent -> Nat] /\ \A b \in Agent : version[b] <= version'[b]
      BY DEF TypeOK
    <3> QED
      BY <3>1, <3>2, WorkKept
  <2>6. LockInv' /\ lockq' \in Seq(Reconcilers)
    <3>1. \A r \in Reconcilers : /\ (pc[r] = "queued" \/ Active(r))' <=>
                                      pc[r] = "queued" \/ Active(r)
                                 /\ Active(r)' => Head(lockq) = r
      BY <1>2, <2>3, <2>4 DEF Active, LockInv, AtHead
    <3> QED
      BY <2>1, <3>1, LockKept
  <2> QED
    BY <1>1, <2>1, <2>2, <2>3, <2>4, <2>5, <2>6 DEF Active
<1>4. CASE /\ Named(left) = {} /\ cur' = [cur EXCEPT ![t] = None]
           /\ Return(t, wanted)
  <2>1. PICK p \in {"done", "idle"} : pc' = [pc EXCEPT ![t] = p]
    BY <1>4 DEF Return
  <2>2. \A r \in Task \ {t} : /\ pc'[r] = pc[r] /\ plan'[r] = plan[r]
                              /\ cur'[r] = cur[r] /\ answer'[r] = answer[r]
    BY <1>1, <1>4, <2>1
  <2>3. pc'[t] \in {"done", "idle"} /\ ~Active(t)'
    BY <1>1, <2>1 DEF Active
  <2>4. WorkInv'
    <3>1. \A r \in Task : Active(r)' =>
               \/ /\ pc'[r] = pc[r] /\ plan'[r] = plan[r]
                  /\ cur'[r] = cur[r] /\ answer'[r] = answer[r]
               \/ pc'[r] = "fetching" /\ cur'[r] \in Named(plan'[r])
      BY <2>2, <2>3
    <3>2. version' \in [Agent -> Nat] /\ \A b \in Agent : version[b] <= version'[b]
      BY DEF TypeOK
    <3> QED
      BY <3>1, <3>2, WorkKept
  <2>5. LockInv' /\ lockq' \in Seq(Reconcilers)
    <3>1. CASE t \in Reconcilers
      <4>1. lockq' = Tail(lockq)
        BY <1>4, <3>1 DEF Return
      <4> QED
        BY <1>2, <2>2, <2>3, <3>1, <4>1, LockLeft DEF AtHead
    <3>2. CASE t \notin Reconcilers
      <4>1. lockq' = lockq
        BY <1>4, <3>2 DEF Return
      <4>2. \A r \in Reconcilers : pc'[r] = pc[r]
        BY <1>2, <2>2, <3>2
      <4>3. \A r \in Reconcilers : /\ (pc[r] = "queued" \/ Active(r))' <=>
                                      pc[r] = "queued" \/ Active(r)
                                   /\ Active(r)' => Head(lockq) = r
        BY <4>2 DEF Active, LockInv
      <4> QED
        BY <4>1, <4>3, LockKept
    <3> QED
      BY <3>1, <3>2
  <2>6. clients' \subseteq Target
    BY <1>1, <1>4 DEF Return
  <2>7. phase' \in {"boot", "starting", "running", "failed"}
    BY <1>1, <1>4 DEF Return
  <2> QED
    BY <1>1, <1>4, <2>1, <2>2, <2>3, <2>4, <2>5, <2>6, <2>7
<1> QED
  BY <1>3, <1>4 DEF Proceed

(* A step that moves no task into or out of reconcile and leaves the         *)
(* registry and the agents alone keeps the invariants that relate them.      *)
LEMMA Undisturbed ==
    ASSUME DiscInv, UNCHANGED <<registry, agents, lockq, work>>,
           version' \in [Agent -> Nat], \A a \in Agent : version[a] <= version'[a],
           \A r \in Task : \/ pc'[r] = pc[r]
                           \/ /\ pc[r] \notin {"queued", "fetching", "answered"}
                              /\ pc'[r] \notin {"queued", "fetching", "answered"}
    PROVE  LockInv' /\ WorkInv' /\ RoutesMatchAgents'
<1>1. \A r \in Reconcilers : /\ (pc[r] = "queued" \/ Active(r))' <=>
                                 pc[r] = "queued" \/ Active(r)
                             /\ Active(r)' => Head(lockq) = r
  BY DEF Active, LockInv, DiscInv, Task
<1>2. LockInv'
  BY <1>1, LockKept DEF DiscInv
<1>3. \A r \in Task : Active(r)' =>
               \/ /\ pc'[r] = pc[r] /\ plan'[r] = plan[r]
                  /\ cur'[r] = cur[r] /\ answer'[r] = answer[r]
               \/ pc'[r] = "fetching" /\ cur'[r] \in Named(plan'[r])
  BY DEF Active, work
<1>4. WorkInv'
  BY <1>3, WorkKept DEF DiscInv
<1>5. RoutesMatchAgents'
  BY DEF DiscInv, RoutesMatchAgents, registry
<1> QED
  BY <1>2, <1>4, <1>5

(* A task that waits for the lock leaves everything else as it is.           *)
LEMMA AcquireStep ==
    ASSUME DiscInv, NEW t \in Reconcilers, pc[t] \in {"idle", "notify"}, Acquire(t),
           UNCHANGED <<registry, agents, work, version>>
    PROVE  /\ LockInv' /\ WorkInv' /\ RoutesMatchAgents'
           /\ lockq' \in Seq(Reconcilers)
           /\ pc' \in [Task -> {"idle", "queued", "fetching", "answered", "done",
                                "notify", "down", "dead"}]
<1>1. LockInv' /\ lockq' \in Seq(Reconcilers)
  BY LockJoined DEF DiscInv
<1>2. /\ pc' = [pc EXCEPT ![t] = "queued"] /\ t \in Task
      /\ pc \in [Task -> {"idle", "queued", "fetching", "answered", "done",
                          "notify", "down", "dead"}]
  BY DEF Acquire, Task, DiscInv, TypeOK
<1>3. \A r \in Task : Active(r)' =>
               \/ /\ pc'[r] = pc[r] /\ plan'[r] = plan[r]
                  /\ cur'[r] = cur[r] /\ answer'[r] = answer[r]
               \/ pc'[r] = "fetching" /\ cur'[r] \in Named(plan'[r])
  BY <1>2 DEF Active, work
<1>4. version' \in [Agent -> Nat] /\ \A b \in Agent : version[b] <= version'[b]
  BY DEF TypeOK, DiscInv
<1>5. WorkInv'
  BY <1>3, <1>4, WorkKept DEF DiscInv
<1>6. RoutesMatchAgents'
  BY DEF DiscInv, RoutesMatchAgents, registry
<1> QED
  BY <1>1, <1>2, <1>5, <1>6
-----------------------------------------------------------------------------
(* The two levels have the same entries and prefixes.                        *)
LEMMA SameEntries ==
    Registry!RouteType = RouteType /\ Registry!PathType = PathType
<1>1. Registry!PathType = PathType
  BY DEF Registry!PathType, PathType
<1> QED
  BY <1>1 DEF Registry!RouteType, RouteType, Registry!Transport, Transport,
              Registry!WhitelistType, WhitelistType

(* The tables, the agents and the plans at the start.                        *)
LEMMA InitDisc == Init => DiscInv
<1> SUFFICES ASSUME Init PROVE DiscInv
  OBVIOUS
<1>1. config \in ConfigType
  BY DiscoveryConstants DEF Init
<1>2. /\ ConfigRoutes(config) \in Table
      /\ CpPrefixesOf(config.cps) \in Seq(PathType)
      /\ AuthzPrefixesOf(config) \in Seq(PathType)
      /\ \A r \in Elements(ConfigRoutes(config)) : r.agent = None
  BY <1>1, ConfigLists
<1>3. /\ routes = Sort(ConfigRoutes(config))
      /\ cpPrefixes = CpPrefixesOf(config.cps) /\ authzPrefixes = AuthzPrefixesOf(config)
  BY SameSort, SameConfigRoutes DEF Init, Registry!InitWith
<1>4. routes \in Table /\ \A r \in Elements(routes) : r.agent = None
  BY <1>2, <1>3, SortSorts
<1>5. Registry!TypeOK
  BY <1>2, <1>3, <1>4, SameEntries DEF Registry!TypeOK, Table
<1>6. NoEndpoints \in MaybeEndpoints
  BY DEF NoEndpoints, MaybeEndpoints
<1>7. \A a \in Agent : 1 \in DOMAIN Declared[a]
  BY DiscoveryConstants
<1>8. config.http \in BOOLEAN
  BY <1>1 DEF ConfigType
<1>9. lockq = <<Main>> /\ Main \in Reconcilers
  BY DEF Init, Reconcilers
<1>10. /\ lockq \in Seq(Reconcilers) /\ NoRepeat(lockq) /\ Elements(lockq) = {Main}
  <2>1. lockq \in Seq(Reconcilers) /\ Len(lockq) = 1 /\ lockq[1] = Main /\ DOMAIN lockq = 1..1
    BY <1>9
  <2>2. \A i \in 1..1 : i = 1
    OBVIOUS
  <2> QED
    BY <2>1, <2>2 DEF NoRepeat, Elements
<1>11. TypeOK
  <2>1. pc \in [Task -> {"idle", "queued", "fetching", "answered", "done",
                        "notify", "down", "dead"}]
    BY DEF Init
  <2> QED
    BY <1>5, <1>6, <1>7, <1>8, <1>10, <2>1 DEF Init, TypeOK
<1>12. \A t \in Task : pc[t] = IF t = Main THEN "queued" ELSE "idle"
  BY DEF Init
<1>13. LockInv
  BY <1>10, <1>12 DEF LockInv, Active, Task
<1>14. WorkInv
  BY <1>12 DEF WorkInv, Active
<1>15. RoutesMatchAgents
  BY <1>4 DEF RoutesMatchAgents
<1> QED
  BY <1>11, <1>13, <1>14, <1>15 DEF DiscInv

(* The directory, the agents and the clients of the proxy.                   *)
LEMMA EnvironmentStep ==
    ASSUME DiscInv,
           \/ \E a \in Agent : FileChange(a) \/ Redeclare(a)
           \/ Proxied \/ WatchRestarts
    PROVE  DiscInv'
<1>0. TypeOK
  BY DEF DiscInv
<1>1. /\ UNCHANGED <<registry, agents, lockq, work, scan, config, httpEnabled, reloads,
                     phase>>
      /\ \/ UNCHANGED pc
         \/ pc[Watch] = "down" /\ pc' = [pc EXCEPT ![Watch] = "idle"]
  BY DEF FileChange, Redeclare, Proxied, HoldRoute, OpenClient, WatchRestarts, environment
<1>2. /\ version' \in [Agent -> Nat] /\ \A b \in Agent : version[b] <= version'[b]
      /\ \A b \in Agent : version'[b] \in DOMAIN Declared[b]
  <2>1. CASE \E a \in Agent : Redeclare(a)
    <3>1. PICK a \in Agent : /\ version[a] < Len(Declared[a])
                             /\ version' = [version EXCEPT ![a] = @ + 1]
      BY <2>1 DEF Redeclare
    <3>2. /\ version \in [Agent -> Nat] /\ version[a] \in DOMAIN Declared[a]
          /\ \A b \in Agent : version[b] \in DOMAIN Declared[b]
      BY <1>0 DEF TypeOK
    <3>3. Declared[a] \in Seq(Seq(DeclarationType))
      BY DiscoveryConstants
    <3>4. /\ DOMAIN Declared[a] = 1..Len(Declared[a]) /\ Len(Declared[a]) \in Nat
          /\ version[a] \in Nat
      BY <3>2, <3>3
    <3>5. version[a] + 1 \in DOMAIN Declared[a] /\ version[a] + 1 \in Nat
      BY <3>1, <3>2, <3>4
    <3> QED
      BY <3>1, <3>2, <3>4, <3>5
  <2>2. CASE \/ \E a \in Agent : FileChange(a)
             \/ Proxied \/ WatchRestarts
    <3>1. version' = version
      BY <2>2 DEF FileChange, Proxied, HoldRoute, OpenClient, WatchRestarts, environment
    <3>2. \A b \in Agent : version[b] \in Nat
      BY <1>0 DEF TypeOK
    <3> QED
      BY <1>0, <3>1, <3>2 DEF TypeOK
  <2> QED
    BY <2>1, <2>2
<1>3. \A r \in Task : \/ pc'[r] = pc[r]
                      \/ /\ pc[r] \notin {"queued", "fetching", "answered"}
                         /\ pc'[r] \notin {"queued", "fetching", "answered"}
  BY <1>0, <1>1 DEF TypeOK
<1>4. LockInv' /\ WorkInv' /\ RoutesMatchAgents'
  BY <1>1, <1>2, <1>3, Undisturbed
<1>5. /\ sock' \subseteq Agent /\ http' \subseteq Agent /\ event' \in BOOLEAN
      /\ changes' \in Nat /\ scanErrors' \in Nat /\ clients' \subseteq Target
      /\ held' \subseteq Target
  <2>1. ASSUME NEW a \in Agent, FileChange(a)
        PROVE  /\ sock' \subseteq Agent /\ http' \subseteq Agent /\ event' \in BOOLEAN
               /\ changes' \in Nat /\ UNCHANGED <<scanErrors, clients, held>>
    <3>1. changes' = changes + 1 /\ UNCHANGED <<scanErrors, clients, held>>
      BY <2>1 DEF FileChange
    <3>2. event' \in {event, TRUE}
      BY <2>1 DEF FileChange
    <3>3. sock' \in {sock, sock \cup {a}, sock \ {a}}
          /\ http' \in {http, http \cup {a}, http \ {a}}
      BY <2>1, Zenon DEF FileChange
    <3>4. sock' \subseteq Agent /\ http' \subseteq Agent
      BY <1>0, <3>3 DEF TypeOK
    <3>5. event' \in BOOLEAN
      BY <1>0, <3>2, Zenon DEF TypeOK
    <3>6. changes' \in Nat
      BY <1>0, <3>1 DEF TypeOK
    <3> QED
      BY <3>1, <3>4, <3>5, <3>6, Zenon
  <2>2. ASSUME NEW a \in Agent, Redeclare(a)
        PROVE  UNCHANGED <<sock, http, event, held, changes, scanErrors, clients>>
    BY <2>2 DEF Redeclare
  <2>3. ASSUME Proxied
        PROVE  /\ UNCHANGED <<sock, http, event, changes, scanErrors>>
               /\ clients' \subseteq Target /\ held' \subseteq Target
    <3>1. ASSUME HoldRoute
          PROVE  /\ UNCHANGED <<sock, http, event, changes, scanErrors, clients>>
                 /\ held' \subseteq Target
      <4>1. PICK r \in Elements(routes) : held' = held \cup {r.target}
        BY <3>1 DEF HoldRoute
      <4>2. r \in RouteType
        BY <1>0, SameEntries DEF TypeOK, Registry!TypeOK, Elements
      <4>3. r.target \in Target
        BY <4>2 DEF RouteType
      <4> QED
        BY <1>0, <3>1, <4>1, <4>3 DEF HoldRoute, TypeOK
    <3>2. ASSUME NEW target \in Target, OpenClient(target)
          PROVE  /\ UNCHANGED <<sock, http, event, changes, scanErrors>>
                 /\ clients' \subseteq Target /\ held' \subseteq Target
      BY <1>0, <3>2 DEF OpenClient, TypeOK
    <3> QED
      BY <1>0, <2>3, <3>1, <3>2 DEF Proxied, TypeOK
  <2>4. ASSUME WatchRestarts
        PROVE  UNCHANGED <<sock, http, event, held, changes, scanErrors, clients>>
    BY <2>4 DEF WatchRestarts, environment
  <2> QED
    BY <1>0, <2>1, <2>2, <2>3, <2>4 DEF TypeOK
<1>6. pc' \in [Task -> {"idle", "queued", "fetching", "answered", "done",
                        "notify", "down", "dead"}]
  BY <1>0, <1>1 DEF TypeOK
<1>7. TypeOK'
  BY <1>0, <1>1, <1>2, <1>5, <1>6
     DEF TypeOK, registry, work, Registry!TypeOK
<1> QED
  BY <1>4, <1>7 DEF DiscInv

(* The calls of reconcile, up to its lock.                                   *)
LEMMA CallStep ==
    ASSUME DiscInv,
           StartDiscovery \/ WatchEvent \/ PeriodicTick \/ DiscoveryNotified
    PROVE  DiscInv'
<1>0. TypeOK
  BY DEF DiscInv
<1>1. PICK t \in Reconcilers :
         /\ pc[t] \in {"idle", "notify"} /\ Acquire(t)
         /\ UNCHANGED <<registry, agents, work, sock, http, version, held, changes,
                        scanErrors, reloads, config, clients, phase, scan>>
  BY DEF StartDiscovery, WatchEvent, PeriodicTick, DiscoveryNotified, Reconcilers,
         environment
<1>2. event' \in BOOLEAN /\ httpEnabled' \in BOOLEAN
  <2>1. config \in ConfigType
    BY <1>0, DiscoveryConstants DEF TypeOK
  <2>2. config.http \in BOOLEAN
    BY <2>1 DEF ConfigType
  <2> QED
    BY <1>0, <2>2 DEF StartDiscovery, WatchEvent, PeriodicTick, DiscoveryNotified,
                      environment, TypeOK
<1>3. /\ LockInv' /\ WorkInv' /\ RoutesMatchAgents'
      /\ lockq' \in Seq(Reconcilers)
      /\ pc' \in [Task -> {"idle", "queued", "fetching", "answered", "done",
                           "notify", "down", "dead"}]
  BY <1>1, AcquireStep
<1>4. TypeOK'
  BY <1>0, <1>1, <1>2, <1>3 DEF TypeOK, registry, work, Registry!TypeOK
<1> QED
  BY <1>3, <1>4 DEF DiscInv

(* A reload rebuilds the entries of the configuration and adds none of an    *)
(* agent.                                                                    *)
LEMMA ReloadStep == ASSUME DiscInv, ConfigReload PROVE DiscInv'
<1>0. TypeOK
  BY DEF DiscInv
<1>1. PICK new \in Configs : config' = new /\ Registry!OnConfigChange(new)
  BY DEF ConfigReload
<1>2. new \in ConfigType
  BY DiscoveryConstants
<1>3. /\ cpPrefixes' = CpPrefixesOf(new.cps) /\ authzPrefixes' = AuthzPrefixesOf(new)
      /\ routes' = Sort(AgentPart(routes, new.http) \o ConfigRoutes(new))
  BY <1>1, SameSort, SameAgentPart, SameConfigRoutes DEF Registry!OnConfigChange
<1>4. cpPrefixes' \in Seq(PathType) /\ authzPrefixes' \in Seq(PathType)
  BY <1>2, <1>3, ConfigLists
<1>5. routes \in Table
  BY <1>0, SameEntries DEF TypeOK, Registry!TypeOK, Table
<1>6. routes' \in Table /\ \A r \in Elements(routes') : r.agent # None => r \in Elements(routes)
  BY <1>2, <1>3, <1>5, ReloadedTable
<1>7. Registry!TypeOK'
  BY <1>4, <1>6, SameEntries DEF Registry!TypeOK, Table
<1>8. /\ pc' = [pc EXCEPT ![Reload] = "notify"] /\ pc[Reload] = "idle"
      /\ reloads' = reloads + 1
      /\ UNCHANGED <<environment, httpEnabled, agents, clients, phase, lockq, scan,
                     work, shown, refreshed>>
  BY DEF ConfigReload
<1>9. pc' \in [Task -> {"idle", "queued", "fetching", "answered", "done",
                        "notify", "down", "dead"}]
  BY <1>0, <1>8 DEF TypeOK
<1>10. TypeOK'
  BY <1>0, <1>1, <1>7, <1>8, <1>9 DEF TypeOK, environment, work
<1>11. \A r \in Task : \/ pc'[r] = pc[r]
                       \/ /\ pc[r] \notin {"queued", "fetching", "answered"}
                          /\ pc'[r] \notin {"queued", "fetching", "answered"}
  BY <1>0, <1>8 DEF TypeOK
<1>12. \A r \in Reconcilers : /\ (pc[r] = "queued" \/ Active(r))' <=>
                                  pc[r] = "queued" \/ Active(r)
                              /\ Active(r)' => Head(lockq) = r
  BY <1>11 DEF Active, LockInv, DiscInv, Task
<1>13. LockInv'
  BY <1>0, <1>8, <1>12, LockKept DEF DiscInv
<1>14. \A r \in Task : Active(r)' =>
               \/ /\ pc'[r] = pc[r] /\ plan'[r] = plan[r]
                  /\ cur'[r] = cur[r] /\ answer'[r] = answer[r]
               \/ pc'[r] = "fetching" /\ cur'[r] \in Named(plan'[r])
  BY <1>8, <1>11 DEF Active, work
<1>15. version' \in [Agent -> Nat] /\ \A b \in Agent : version[b] <= version'[b]
  BY <1>0, <1>8 DEF TypeOK, environment
<1>16. WorkInv'
  BY <1>0, <1>14, <1>15, WorkKept DEF DiscInv
<1>17. RoutesMatchAgents'
  BY <1>6, <1>8 DEF DiscInv, RoutesMatchAgents
<1> QED
  BY <1>10, <1>13, <1>16, <1>17 DEF DiscInv
-----------------------------------------------------------------------------
(* What the directory asks for is an endpoint for each agent, or none.       *)
LEMMA DesiredType ==
    ASSUME TypeOK
    PROVE  Desired \in MaybeEndpoints
<1>1. \A a \in Agent : Uds(a) \in EndpointType /\ Http(a) \in EndpointType
  BY DiscoveryConstants DEF Uds, Http, EndpointType, Transport
<1> QED
  BY <1>1 DEF Desired, MaybeEndpoints

(* A task that waits for the lock is in its queue.                           *)
LEMMA QueuedAtHead ==
    ASSUME DiscInv, NEW t \in Reconcilers,
           (pc[t] = "queued" /\ Head(lockq) = t) \/ Active(t)
    PROVE  AtHead(t)
  BY DEF DiscInv, LockInv, AtHead

(* What a task is working on.                                                *)
LEMMA AtWork ==
    ASSUME DiscInv, NEW t \in Task, Active(t)
    PROVE  /\ cur[t] \in Agent /\ plan[t] \in MaybeEndpoints
           /\ plan[t][cur[t]] \in EndpointType
           /\ Remaining(t) \in MaybeEndpoints
           /\ Named(Remaining(t)) \subseteq Named(plan[t])
           /\ AtHead(t)
<1>1. plan[t] \in MaybeEndpoints /\ cur[t] \in Named(plan[t])
  BY DEF DiscInv, TypeOK, WorkInv
<1>2. cur[t] \in Agent /\ plan[t][cur[t]] # None
  BY <1>1 DEF Named
<1>3. plan[t][cur[t]] \in EndpointType
  BY <1>1, <1>2 DEF MaybeEndpoints
<1>4. Remaining(t) \in MaybeEndpoints
  BY <1>1 DEF Remaining, MaybeEndpoints
<1>5. Named(Remaining(t)) \subseteq Named(plan[t])
  BY <1>1 DEF Remaining, Named, MaybeEndpoints
<1>6. AtHead(t)
  BY QueuedAtHead DEF AtHead
<1> QED
  BY <1>1, <1>2, <1>3, <1>4, <1>5, <1>6

(* The holder of the lock removes the agents that are gone, routes and all.  *)
LEMMA BeginStep ==
    ASSUME DiscInv, NEW t \in Reconcilers, Begin(t)
    PROVE  DiscInv'
<1> DEFINE gone == Named(agents) \ Named(Desired)
           todo == {a \in Named(Desired) : agents[a] # Desired[a]}
           left == [a \in Agent |-> IF a \in todo THEN Desired[a] ELSE None]
<1>0. TypeOK /\ t \in Task
  BY DEF DiscInv, Task
<1>1. /\ pc[t] = "queued" /\ Head(lockq) = t
      /\ scan' = Desired /\ routes' = WithoutAgents(routes, gone)
      /\ agents' = [a \in Agent |-> IF a \in gone THEN None ELSE agents[a]]
      /\ shown' = [a \in Agent |-> IF a \in gone THEN 0 ELSE shown[a]]
      /\ refreshed' = refreshed \ gone
      /\ Proceed(t, left, Desired)
      /\ UNCHANGED <<environment, reloads, config, httpEnabled, cpPrefixes,
                     authzPrefixes>>
  BY DEF Begin
<1>2. Desired \in MaybeEndpoints /\ left \in MaybeEndpoints
  BY <1>0, DesiredType DEF MaybeEndpoints
<1>3. AtHead(t)
  BY <1>1, QueuedAtHead
<1>4. version' = version
  BY <1>1 DEF environment
<1> HIDE DEF left, gone
<1>5. /\ clients' \subseteq Target
      /\ phase' \in {"boot", "starting", "running", "failed"}
      /\ pc' \in [Task -> {"idle", "queued", "fetching", "answered", "done",
                           "notify", "down", "dead"}]
      /\ lockq' \in Seq(Reconcilers)
      /\ plan' \in [Task -> MaybeEndpoints]
      /\ cur' \in [Task -> Agent \cup {None}]
      /\ answer' \in [Task -> Nat]
      /\ LockInv' /\ WorkInv'
  BY <1>0, <1>1, <1>2, <1>3, <1>4, ProceedStep DEF DiscInv
<1>6. routes \in Table
  BY <1>0, SameEntries DEF TypeOK, Registry!TypeOK, Table
<1>7. /\ routes' \in Table
      /\ Elements(routes') = {r \in Elements(routes) : r.agent \notin gone}
  BY <1>1, <1>6, DropsEntries
<1>8. agents' \in MaybeEndpoints /\ shown' \in [Agent -> Nat] /\ refreshed' \subseteq Agent
  BY <1>0, <1>1 DEF TypeOK, MaybeEndpoints
<1>9. Registry!TypeOK'
  BY <1>0, <1>1, <1>7, SameEntries DEF TypeOK, Registry!TypeOK, Table
<1>10. TypeOK'
  BY <1>0, <1>1, <1>2, <1>5, <1>8, <1>9 DEF TypeOK, environment
<1>11. RoutesMatchAgents'
  <2> SUFFICES ASSUME NEW r \in Elements(routes'), r.agent # None
               PROVE  agents'[r.agent] = [transport |-> r.transport, address |-> r.target]
    BY DEF RoutesMatchAgents
  <2>1. r \in Elements(routes) /\ r.agent \notin gone
    BY <1>7
  <2>2. r \in RouteType
    BY <1>6, <2>1 DEF Table, Elements
  <2>3. r.agent \in Agent
    BY <2>2 DEF RouteType
  <2>4. agents[r.agent] = [transport |-> r.transport, address |-> r.target]
    BY <2>1 DEF DiscInv, RoutesMatchAgents
  <2> QED
    BY <1>1, <2>1, <2>3, <2>4
<1> QED
  BY <1>5, <1>10, <1>11 DEF DiscInv

(* A scan that fails gives the lock to the next task.                        *)
LEMMA ScanFailsStep ==
    ASSUME DiscInv, NEW t \in Reconcilers, ScanFails(t)
    PROVE  DiscInv'
<1>0. TypeOK /\ t \in Task
  BY DEF DiscInv, Task
<1>1. /\ pc[t] = "queued" /\ Head(lockq) = t /\ lockq' = Tail(lockq)
      /\ scanErrors' = scanErrors + 1
      /\ UNCHANGED <<sock, http, version, held, changes, reloads, config,
                     httpEnabled, registry, agents, clients, scan, work>>
  BY DEF ScanFails
<1>2. phase' \in {"boot", "starting", "running", "failed"}
  BY <1>0 DEF ScanFails, TypeOK
<1>3. event' \in BOOLEAN
  BY <1>0, Zenon DEF ScanFails, TypeOK
<1> DEFINE p == CASE t \in {Main, Periodic} -> "dead"
                  [] t = Watch -> "down"
                  [] t = Reload -> "idle"
<1>4. p \in {"dead", "down", "idle"}
  BY DEF Reconcilers, Main, Periodic, Watch, Reload
<1>5. pc' = [pc EXCEPT ![t] = p]
  BY DEF ScanFails
<1> HIDE DEF p
<1>6. /\ pc' \in [Task -> {"idle", "queued", "fetching", "answered", "done",
                           "notify", "down", "dead"}]
      /\ pc'[t] \notin {"queued", "fetching", "answered"}
      /\ \A r \in Task \ {t} : pc'[r] = pc[r]
  BY <1>0, <1>4, <1>5 DEF TypeOK
<1>7. AtHead(t)
  BY <1>1, QueuedAtHead
<1>8. LockInv' /\ lockq' \in Seq(Reconcilers)
  <2>1. \A r \in Reconcilers \ {t} : pc'[r] = pc[r]
    BY <1>6 DEF Task
  <2> QED
    BY <1>1, <1>6, <1>7, <2>1, LockLeft DEF DiscInv, AtHead
<1>9. \A r \in Task : Active(r)' =>
               \/ /\ pc'[r] = pc[r] /\ plan'[r] = plan[r]
                  /\ cur'[r] = cur[r] /\ answer'[r] = answer[r]
               \/ pc'[r] = "fetching" /\ cur'[r] \in Named(plan'[r])
  BY <1>1, <1>6 DEF Active, work
<1>10. version' \in [Agent -> Nat] /\ \A b \in Agent : version[b] <= version'[b]
  BY <1>0, <1>1 DEF TypeOK
<1>11. WorkInv'
  BY <1>9, <1>10, WorkKept DEF DiscInv
<1>12. RoutesMatchAgents'
  BY <1>1 DEF DiscInv, RoutesMatchAgents, registry
<1>13. TypeOK'
  BY <1>0, <1>1, <1>2, <1>3, <1>6, <1>8 DEF TypeOK, registry, work, Registry!TypeOK
<1> QED
  BY <1>8, <1>11, <1>12, <1>13 DEF DiscInv

(* An agent answers with the declarations it has at that moment.             *)
LEMMA AnswerStep ==
    ASSUME DiscInv, NEW t \in Task, Answer(t)
    PROVE  DiscInv'
<1>0. TypeOK
  BY DEF DiscInv
<1>1. /\ pc[t] = "fetching" /\ pc' = [pc EXCEPT ![t] = "answered"]
      /\ answer' = [answer EXCEPT ![t] = version[cur[t]]]
      /\ UNCHANGED <<environment, reloads, config, httpEnabled, registry, agents,
                     clients, phase, lockq, scan, plan, cur>>
  BY DEF Answer
<1>2. Active(t) /\ cur[t] \in Agent
  BY <1>1, AtWork DEF Active
<1>3. version[cur[t]] \in Nat /\ version[cur[t]] \in 1..version[cur[t]]
  <2>1. version[cur[t]] \in Nat /\ version[cur[t]] \in DOMAIN Declared[cur[t]]
    BY <1>0, <1>2 DEF TypeOK
  <2>2. Declared[cur[t]] \in Seq(Seq(DeclarationType))
    BY <1>2, DiscoveryConstants
  <2>3. DOMAIN Declared[cur[t]] = 1..Len(Declared[cur[t]]) /\ Len(Declared[cur[t]]) \in Nat
    BY <2>2
  <2> QED
    BY <2>1, <2>3
<1>4. /\ pc' \in [Task -> {"idle", "queued", "fetching", "answered", "done",
                           "notify", "down", "dead"}]
      /\ pc'[t] = "answered" /\ \A r \in Task \ {t} : pc'[r] = pc[r]
      /\ answer' \in [Task -> Nat]
      /\ answer'[t] = version[cur[t]] /\ \A r \in Task \ {t} : answer'[r] = answer[r]
  BY <1>0, <1>1, <1>3 DEF TypeOK
<1>5. LockInv'
  <2>1. \A r \in Reconcilers : /\ (pc[r] = "queued" \/ Active(r))' <=>
                                      pc[r] = "queued" \/ Active(r)
                               /\ Active(r)' => Head(lockq) = r
    BY <1>1, <1>4 DEF Active, LockInv, DiscInv, Task
  <2> QED
    BY <1>1, <2>1, LockKept DEF DiscInv
<1>6. WorkInv'
  <2>1. ASSUME NEW r \in Task, Active(r)'
        PROVE  /\ cur'[r] \in Named(plan'[r])
               /\ pc'[r] = "answered" => answer'[r] \in 1..version'[cur'[r]]
    <3>1. Active(r)
      BY <1>1, <1>4, <2>1 DEF Active
    <3>2. /\ cur[r] \in Named(plan[r])
          /\ pc[r] = "answered" => answer[r] \in 1..version[cur[r]]
      BY <3>1 DEF WorkInv, DiscInv
    <3> QED
      BY <1>1, <1>3, <1>4, <3>2 DEF environment
  <2> QED
    BY <2>1 DEF WorkInv
<1>7. RoutesMatchAgents'
  BY <1>1 DEF DiscInv, RoutesMatchAgents, registry
<1>8. TypeOK'
  BY <1>0, <1>1, <1>4 DEF TypeOK, registry, environment, Registry!TypeOK
<1> QED
  BY <1>5, <1>6, <1>7, <1>8 DEF DiscInv

(* A task skips an agent that does not answer.                               *)
LEMMA FetchFailsStep ==
    ASSUME DiscInv, NEW t \in Task, FetchFails(t)
    PROVE  DiscInv'
<1>0. TypeOK
  BY DEF DiscInv
<1>1. /\ pc[t] = "fetching" /\ Proceed(t, Remaining(t), scan)
      /\ UNCHANGED <<environment, reloads, config, httpEnabled, registry, agents, scan>>
  BY DEF FetchFails
<1>2. Active(t)
  BY <1>1 DEF Active
<1>3. Remaining(t) \in MaybeEndpoints /\ AtHead(t)
  BY <1>2, AtWork
<1>4. version' = version
  BY <1>1 DEF environment
<1>5. /\ clients' \subseteq Target
      /\ phase' \in {"boot", "starting", "running", "failed"}
      /\ pc' \in [Task -> {"idle", "queued", "fetching", "answered", "done",
                           "notify", "down", "dead"}]
      /\ lockq' \in Seq(Reconcilers)
      /\ plan' \in [Task -> MaybeEndpoints]
      /\ cur' \in [Task -> Agent \cup {None}]
      /\ answer' \in [Task -> Nat]
      /\ LockInv' /\ WorkInv'
  BY <1>0, <1>1, <1>3, <1>4, ProceedStep DEF DiscInv
<1>6. RoutesMatchAgents'
  BY <1>1 DEF DiscInv, RoutesMatchAgents, registry
<1>7. TypeOK'
  BY <1>0, <1>1, <1>5 DEF TypeOK, registry, environment, Registry!TypeOK
<1> QED
  BY <1>5, <1>6, <1>7 DEF DiscInv

(* What an agent answered is one of the lists it declares.                   *)
LEMMA AnsweredDeclarations ==
    ASSUME DiscInv, NEW t \in Task, pc[t] = "answered"
    PROVE  /\ Declared[cur[t]][answer[t]] \in DeclarationList
           /\ Declared[cur[t]][answer[t]] \in Declarations
           /\ answer[t] \in Nat
<1> DEFINE a == cur[t]
<1>1. a \in Agent
  BY AtWork DEF Active
<1>2. /\ version[a] \in Nat /\ version[a] \in DOMAIN Declared[a]
      /\ answer[t] \in 1..version[a]
  BY <1>1 DEF TypeOK, WorkInv, DiscInv, Active
<1>3. Declared[a] \in Seq(Seq(DeclarationType))
  BY <1>1, DiscoveryConstants
<1>4. DOMAIN Declared[a] = 1..Len(Declared[a]) /\ Len(Declared[a]) \in Nat
  BY <1>3
<1>5. answer[t] \in DOMAIN Declared[a] /\ answer[t] \in Nat
  BY <1>2, <1>4
<1> QED
  BY <1>1, <1>3, <1>5 DEF DeclarationList, Declarations

(* A task replaces the routes and the endpoint of an agent in one step.      *)
LEMMA RegisterStep ==
    ASSUME DiscInv, NEW t \in Task, Register(t)
    PROVE  DiscInv'
<1> DEFINE a == cur[t]
           e == plan[t][a]
           decls == Declared[a][answer[t]]
<1>0. TypeOK
  BY DEF DiscInv
<1>1. /\ pc[t] = "answered"
      /\ Registry!ReplaceAgentRoutes(a, e.transport, e.address, decls)
      /\ agents' = [agents EXCEPT ![a] = e]
      /\ shown' = [shown EXCEPT ![a] = answer[t]]
      /\ refreshed' \in {refreshed \cup {a}, refreshed \ {a}}
      /\ Proceed(t, Remaining(t), scan)
      /\ UNCHANGED <<environment, reloads, config, httpEnabled, scan>>
  BY DEF Register
<1>2. Active(t)
  BY <1>1 DEF Active
<1>3. a \in Agent /\ e \in EndpointType /\ Remaining(t) \in MaybeEndpoints /\ AtHead(t)
  BY <1>2, AtWork
<1>4. decls \in DeclarationList /\ answer[t] \in Nat
  BY <1>1, AnsweredDeclarations
<1>5. e.transport \in Transport /\ e.address \in Target
      /\ e = [transport |-> e.transport, address |-> e.address]
  BY <1>3 DEF EndpointType
<1>6. routes \in Table
  BY <1>0, SameEntries DEF TypeOK, Registry!TypeOK, Table
<1>7. /\ routes' = Extend(WithoutAgents(routes, {a}), cpPrefixes, authzPrefixes, a,
                          e.transport, e.address, decls)
      /\ UNCHANGED <<cpPrefixes, authzPrefixes>>
  BY <1>1, SameExtend, SameWithout DEF Registry!ReplaceAgentRoutes
<1> HIDE DEF a, e, decls
<1>8. /\ routes' \in Table
      /\ \A r \in Elements(routes') :
            \/ r \in Elements(routes) /\ r.agent # a
            \/ r.agent = a /\ r.transport = e.transport /\ r.target = e.address
  BY <1>3, <1>4, <1>5, <1>6, <1>7, RegisteredTable
<1>9. version' = version
  BY <1>1 DEF environment
<1>10. /\ clients' \subseteq Target
       /\ phase' \in {"boot", "starting", "running", "failed"}
       /\ pc' \in [Task -> {"idle", "queued", "fetching", "answered", "done",
                            "notify", "down", "dead"}]
       /\ lockq' \in Seq(Reconcilers)
       /\ plan' \in [Task -> MaybeEndpoints]
       /\ cur' \in [Task -> Agent \cup {None}]
       /\ answer' \in [Task -> Nat]
       /\ LockInv' /\ WorkInv'
  BY <1>0, <1>1, <1>3, <1>9, ProceedStep DEF DiscInv
<1>11. /\ agents \in MaybeEndpoints /\ agents' \in MaybeEndpoints
       /\ shown' \in [Agent -> Nat] /\ refreshed' \subseteq Agent
  BY <1>0, <1>1, <1>3, <1>4 DEF TypeOK, MaybeEndpoints
<1>12. Registry!TypeOK'
  BY <1>0, <1>7, <1>8, SameEntries DEF TypeOK, Registry!TypeOK, Table
<1>13. TypeOK'
  BY <1>0, <1>1, <1>10, <1>11, <1>12 DEF TypeOK, environment
<1>14. RoutesMatchAgents'
  <2> SUFFICES ASSUME NEW r \in Elements(routes'), r.agent # None
               PROVE  agents'[r.agent] = [transport |-> r.transport, address |-> r.target]
    BY DEF RoutesMatchAgents
  <2>1. CASE r \in Elements(routes) /\ r.agent # a
    <3>1. agents[r.agent] = [transport |-> r.transport, address |-> r.target]
      BY <2>1 DEF DiscInv, RoutesMatchAgents
    <3> QED
      BY <1>1, <2>1, <3>1
  <2>2. CASE r.agent = a /\ r.transport = e.transport /\ r.target = e.address
    BY <1>1, <1>3, <1>5, <1>11, <2>2 DEF MaybeEndpoints
  <2> QED
    BY <1>8, <2>1, <2>2
<1> QED
  BY <1>10, <1>13, <1>14 DEF DiscInv

(* A refresh starts without the lock.                                        *)
LEMMA RefreshStep ==
    ASSUME DiscInv, NEW t \in Refreshers, Refresh(t)
    PROVE  DiscInv'
<1>0. TypeOK /\ t \in Task /\ t \notin Reconcilers
  BY DiscoveryConstants DEF DiscInv, Task
<1>1. PICK which \in SUBSET Agent :
         Proceed(t, [a \in Agent |-> IF a \in which THEN agents[a] ELSE None], scan)
  BY DEF Refresh
<1> DEFINE left == [a \in Agent |-> IF a \in which THEN agents[a] ELSE None]
<1>2. UNCHANGED <<environment, reloads, config, httpEnabled, registry, agents, scan>>
  BY DEF Refresh
<1>3. left \in MaybeEndpoints /\ AtHead(t)
  BY <1>0 DEF TypeOK, MaybeEndpoints, AtHead
<1>4. version' = version
  BY <1>2 DEF environment
<1>5. Proceed(t, left, scan)
  BY <1>1
<1> HIDE DEF left
<1>6. /\ clients' \subseteq Target
      /\ phase' \in {"boot", "starting", "running", "failed"}
      /\ pc' \in [Task -> {"idle", "queued", "fetching", "answered", "done",
                           "notify", "down", "dead"}]
      /\ lockq' \in Seq(Reconcilers)
      /\ plan' \in [Task -> MaybeEndpoints]
      /\ cur' \in [Task -> Agent \cup {None}]
      /\ answer' \in [Task -> Nat]
      /\ LockInv' /\ WorkInv'
  BY <1>0, <1>3, <1>4, <1>5, ProceedStep DEF DiscInv
<1>7. RoutesMatchAgents'
  BY <1>2 DEF DiscInv, RoutesMatchAgents, registry
<1>8. TypeOK'
  BY <1>0, <1>2, <1>6 DEF TypeOK, registry, environment, Registry!TypeOK
<1> QED
  BY <1>6, <1>7, <1>8 DEF DiscInv

(* Every step of discovery keeps the invariant.                              *)
LEMMA DiscStep == DiscInv /\ [Next]_vars => DiscInv'
<1> SUFFICES ASSUME DiscInv, [Next]_vars PROVE DiscInv'
  OBVIOUS
<1>1. CASE \/ \E a \in Agent : FileChange(a) \/ Redeclare(a)
           \/ Proxied \/ WatchRestarts
  BY <1>1, EnvironmentStep
<1>2. CASE \E t \in Reconcilers : Begin(t) \/ ScanFails(t)
  BY <1>2, BeginStep, ScanFailsStep
<1>3. CASE \E t \in Task : Step(t)
  BY <1>3, FetchFailsStep, AnswerStep, RegisterStep DEF Step
<1>4. CASE StartDiscovery \/ WatchEvent \/ PeriodicTick \/ DiscoveryNotified
  BY <1>4, CallStep
<1>5. CASE ConfigReload
  BY <1>5, ReloadStep
<1>6. CASE \E t \in Refreshers : Refresh(t)
  BY <1>6, RefreshStep
<1>7. CASE UNCHANGED vars
  <2>1. LockInv' /\ WorkInv' /\ RoutesMatchAgents'
    BY <1>7 DEF vars, registry, work, environment, DiscInv, LockInv, WorkInv, Active,
                RoutesMatchAgents
  <2>2. TypeOK'
    BY <1>7 DEF vars, registry, work, environment, DiscInv, TypeOK, Registry!TypeOK
  <2> QED
    BY <2>1, <2>2 DEF DiscInv
<1> QED
  BY <1>1, <1>2, <1>3, <1>4, <1>5, <1>6, <1>7 DEF Next, Proxied

(* In every behaviour of discovery the invariant holds.                      *)
THEOREM Discovered == Spec => []DiscInv
  BY InitDisc, DiscStep, PTL DEF Spec
-----------------------------------------------------------------------------
(* Discovery, the registry and the tasks keep their types.                   *)
THEOREM DiscoveryTypes == Spec => []TypeOK
<1>1. DiscInv => TypeOK
  BY DEF DiscInv
<1> QED
  BY <1>1, Discovered, PTL

(* Every route of an agent points at the endpoint it is registered with, for *)
(* any number of reconciles and refreshes in flight.                         *)
THEOREM RoutesPointAtAgents == Spec => []RoutesMatchAgents
<1>1. DiscInv => RoutesMatchAgents
  BY DEF DiscInv
<1> QED
  BY <1>1, Discovered, PTL

(* Reconciles exclude each other, and the queue of their lock holds exactly  *)
(* the tasks that wait for it or have it.                                    *)
THEOREM OneReconciles == Spec => []LockDiscipline
<1>1. DiscInv => LockDiscipline
  <2> SUFFICES ASSUME DiscInv PROVE LockDiscipline
    OBVIOUS
  <2>1. \A t \in Reconcilers :
           pc[t] \in {"queued", "fetching", "answered"} <=> \E i \in DOMAIN lockq : lockq[i] = t
    BY DEF DiscInv, LockInv, Active, Elements
  <2>2. \A i, j \in DOMAIN lockq : lockq[i] = lockq[j] => i = j
    BY DEF DiscInv, LockInv, NoRepeat
  <2>3. ASSUME NEW i \in DOMAIN lockq, i > 1 PROVE pc[lockq[i]] = "queued"
    <3>1. lockq \in Seq(Reconcilers)
      BY DEF DiscInv, TypeOK
    <3>2. lockq[i] \in Reconcilers /\ 1 \in DOMAIN lockq /\ Head(lockq) = lockq[1] /\ i # 1
      BY <2>3, <3>1
    <3>3. Head(lockq) # lockq[i]
      BY <2>2, <3>2
    <3> QED
      BY <2>1, <3>2, <3>3 DEF DiscInv, LockInv, Active
  <2> QED
    BY <2>1, <2>2, <2>3 DEF LockDiscipline
<1> QED
  BY <1>1, Discovered, PTL
-----------------------------------------------------------------------------
(* Ghosts and answers, refreshes aside.                                      *)

\* what a step may do to the versions shown to the registry
ShownGrows ==
    \A a \in Agent : \/ shown'[a] = 0 \/ shown'[a] >= shown[a]
                    \/ a \in refreshed \cup refreshed'

(* Only the head of the queue is active, refreshes aside.                    *)
LEMMA OthersWait ==
    ASSUME DiscInv, NEW t \in Reconcilers, AtHead(t), NEW r \in Reconcilers \ {t}
    PROVE  ~Active(r)
  BY DEF DiscInv, LockInv, AtHead

(* Agents only ever answer with newer declarations.                          *)
LEMMA VersionsGrow ==
    ASSUME DiscInv, [Next]_vars
    PROVE  /\ version' \in [Agent -> Nat] /\ version \in [Agent -> Nat]
           /\ \A a \in Agent : version[a] <= version'[a]
<1>1. version' \in [Agent -> Nat] /\ version \in [Agent -> Nat]
  BY DiscStep DEF DiscInv, TypeOK
<1>2. version' = version \/ \E a \in Agent : version' = [version EXCEPT ![a] = @ + 1]
  BY DEF Next, vars, environment, FileChange, Redeclare, HoldRoute, OpenClient, Begin,
         ScanFails, Step, FetchFails, Answer, Register, StartDiscovery, WatchEvent, WatchRestarts,
         PeriodicTick, ConfigReload, DiscoveryNotified, Refresh
<1>3. \A a \in Agent : version[a] \in Nat
  BY <1>1
<1> QED
  BY <1>1, <1>2, <1>3

(* A step that registers and removes nobody keeps the two invariants.        *)
LEMMA QuietKept ==
    ASSUME QuietInv, [Next]_vars, UNCHANGED <<agents, scan, shown, refreshed>>,
           \A r \in Reconcilers : Active(r)' =>
               \/ /\ pc'[r] = pc[r] /\ plan'[r] = plan[r]
                  /\ cur'[r] = cur[r] /\ answer'[r] = answer[r]
               \/ pc'[r] = "fetching" /\ Named(plan'[r]) \subseteq Named(scan)
    PROVE  GhostInv' /\ AgeInv' /\ ShownGrows
<1>1. ASSUME NEW r \in Reconcilers, Active(r)'
      PROVE  /\ Named(plan'[r]) \subseteq Named(scan')
             /\ pc'[r] = "answered" =>
                   shown'[cur'[r]] <= answer'[r] \/ cur'[r] \in refreshed'
  <2>1. CASE pc'[r] = pc[r] /\ plan'[r] = plan[r] /\ cur'[r] = cur[r] /\ answer'[r] = answer[r]
    <3>1. Active(r)
      BY <1>1, <2>1 DEF Active
    <3> QED
      BY <2>1, <3>1 DEF QuietInv, GhostInv, AgeInv
  <2>2. CASE pc'[r] = "fetching" /\ Named(plan'[r]) \subseteq Named(scan)
    BY <2>2
  <2> QED
    BY <1>1, <2>1, <2>2
<1>2. GhostInv'
  <2>1. OnlyRefreshesRevive'
    BY DEF QuietInv, GhostInv, OnlyRefreshesRevive
  <2> QED
    BY <1>1, <2>1 DEF GhostInv
<1>3. \A a \in Agent : shown[a] \in Nat /\ shown'[a] = shown[a]
  BY DEF QuietInv, DiscInv, TypeOK
<1>4. \A a \in Agent : shown'[a] <= version'[a]
  <2>1. DiscInv
    BY DEF QuietInv
  <2>2. \A a \in Agent : version[a] \in Nat /\ version'[a] \in Nat /\ version[a] <= version'[a]
    BY <2>1, VersionsGrow
  <2>3. \A a \in Agent : shown[a] <= version[a]
    BY DEF QuietInv, AgeInv
  <2> QED
    BY <1>3, <2>2, <2>3
<1>5. AgeInv'
  BY <1>1, <1>4 DEF AgeInv, Active
<1> QED
  BY <1>2, <1>3, <1>5 DEF ShownGrows

(* Steps of the environment, calls, reloads, failing scans and fetches       *)
(* register and remove nobody.                                               *)
LEMMA BystanderQuiet ==
    ASSUME QuietInv, [Next]_vars,
           \/ \E a \in Agent : FileChange(a) \/ Redeclare(a)
           \/ Proxied \/ WatchRestarts \/ StartDiscovery \/ WatchEvent
           \/ PeriodicTick \/ DiscoveryNotified \/ ConfigReload
           \/ \E t \in Reconcilers : ScanFails(t)
           \/ UNCHANGED vars
    PROVE  GhostInv' /\ AgeInv' /\ ShownGrows
<1>1. /\ UNCHANGED <<agents, scan, shown, refreshed, plan, cur, answer>>
      /\ \/ pc' = pc
         \/ \E t \in Reconcilers : \E p \in {"queued", "idle", "notify", "down", "dead"} :
               pc' = [pc EXCEPT ![t] = p]
  <2>1. CASE \/ \E a \in Agent : FileChange(a) \/ Redeclare(a)
             \/ Proxied \/ UNCHANGED vars
    BY <2>1 DEF FileChange, Redeclare, Proxied, HoldRoute, OpenClient, vars, registry, work
  <2>2. CASE \/ WatchRestarts \/ StartDiscovery \/ WatchEvent
             \/ PeriodicTick \/ DiscoveryNotified \/ ConfigReload
    BY <2>2 DEF WatchRestarts, StartDiscovery, WatchEvent, PeriodicTick,
                DiscoveryNotified, ConfigReload, Acquire, registry, work, Reconcilers
  <2>3. CASE \E t \in Reconcilers : ScanFails(t)
    <3>1. PICK t \in Reconcilers : ScanFails(t)
      BY <2>3
    <3> DEFINE p == CASE t \in {Main, Periodic} -> "dead"
                      [] t = Watch -> "down"
                      [] t = Reload -> "idle"
    <3>2. p \in {"dead", "down", "idle"}
      BY DEF Reconcilers, Main, Periodic, Watch, Reload
    <3>3. pc' = [pc EXCEPT ![t] = p] /\ UNCHANGED <<agents, scan, shown, refreshed, plan, cur, answer>>
      BY <3>1 DEF ScanFails, registry, work
    <3> HIDE DEF p
    <3> QED
      BY <3>2, <3>3
  <2> QED
    BY <2>1, <2>2, <2>3
<1>2. pc \in [Task -> {"idle", "queued", "fetching", "answered", "done",
                       "notify", "down", "dead"}]
  BY DEF QuietInv, DiscInv, TypeOK
<1>3. \A r \in Reconcilers : Active(r)' => pc'[r] = pc[r]
  BY <1>1, <1>2 DEF Active, Task
<1> QED
  BY <1>1, <1>3, QuietKept

(* An answer is at least as new as what is registered.                       *)
LEMMA AnswerQuiet ==
    ASSUME QuietInv, [Next]_vars, NEW t \in Task, Answer(t)
    PROVE  GhostInv' /\ AgeInv' /\ ShownGrows
<1>0. TypeOK /\ DiscInv
  BY DEF QuietInv, DiscInv
<1>1. /\ pc[t] = "fetching" /\ pc' = [pc EXCEPT ![t] = "answered"]
      /\ answer' = [answer EXCEPT ![t] = version[cur[t]]]
      /\ UNCHANGED <<version, agents, scan, shown, refreshed, plan, cur>>
  BY DEF Answer, registry, environment
<1>2. Active(t) /\ cur[t] \in Agent
  BY <1>0, <1>1, AtWork DEF Active
<1>3. /\ pc'[t] = "answered" /\ answer'[t] = version[cur[t]]
      /\ \A r \in Task \ {t} : pc'[r] = pc[r] /\ answer'[r] = answer[r]
  BY <1>0, <1>1 DEF TypeOK
<1>4. GhostInv'
  BY <1>1, <1>2, <1>3 DEF QuietInv, GhostInv, OnlyRefreshesRevive, Active, Task
<1>5. shown[cur[t]] <= version[cur[t]] /\ \A a \in Agent : shown[a] \in Nat
  BY <1>0, <1>2 DEF QuietInv, AgeInv, TypeOK
<1>6. AgeInv'
  BY <1>1, <1>3, <1>5 DEF QuietInv, AgeInv, Task
<1> QED
  BY <1>1, <1>4, <1>5, <1>6 DEF ShownGrows

(* A failed fetch plans less.                                                *)
LEMMA FetchFailsQuiet ==
    ASSUME QuietInv, [Next]_vars, NEW t \in Task, FetchFails(t)
    PROVE  GhostInv' /\ AgeInv' /\ ShownGrows
<1>0. TypeOK /\ DiscInv
  BY DEF QuietInv, DiscInv
<1>1. /\ pc[t] = "fetching" /\ Proceed(t, Remaining(t), scan)
      /\ UNCHANGED <<version, agents, scan, shown, refreshed>>
  BY DEF FetchFails, registry, environment
<1>2. Active(t)
  BY <1>1 DEF Active
<1>3. /\ Remaining(t) \in MaybeEndpoints /\ AtHead(t)
      /\ Named(Remaining(t)) \subseteq Named(plan[t])
  BY <1>0, <1>2, AtWork
<1>4. t \in Reconcilers => Named(plan[t]) \subseteq Named(scan)
  BY <1>2 DEF QuietInv, GhostInv
<1>5. /\ Active(t)' => pc'[t] = "fetching" /\ plan'[t] = Remaining(t)
      /\ \A r \in Task \ {t} : /\ pc'[r] = pc[r] /\ plan'[r] = plan[r]
                               /\ cur'[r] = cur[r] /\ answer'[r] = answer[r]
  BY <1>0, <1>1, <1>3, ProceedStep DEF DiscInv
<1>6. \A r \in Reconcilers : Active(r)' =>
               \/ /\ pc'[r] = pc[r] /\ plan'[r] = plan[r]
                  /\ cur'[r] = cur[r] /\ answer'[r] = answer[r]
               \/ pc'[r] = "fetching" /\ Named(plan'[r]) \subseteq Named(scan)
  BY <1>3, <1>4, <1>5 DEF Task
<1> QED
  BY <1>1, <1>6, QuietKept

(* A refresh starts with agents that are registered, and leaves them alone.  *)
LEMMA RefreshQuiet ==
    ASSUME QuietInv, [Next]_vars, NEW t \in Refreshers, Refresh(t)
    PROVE  GhostInv' /\ AgeInv' /\ ShownGrows
<1>0. TypeOK /\ DiscInv /\ t \in Task /\ t \notin Reconcilers
  BY DiscoveryConstants DEF QuietInv, DiscInv, Task
<1>1. PICK which \in SUBSET Agent :
         Proceed(t, [a \in Agent |-> IF a \in which THEN agents[a] ELSE None], scan)
  BY DEF Refresh
<1> DEFINE left == [a \in Agent |-> IF a \in which THEN agents[a] ELSE None]
<1>2. UNCHANGED <<version, agents, scan, shown, refreshed>>
  BY DEF Refresh, registry, environment
<1>3. left \in MaybeEndpoints /\ AtHead(t)
  BY <1>0 DEF TypeOK, MaybeEndpoints, AtHead
<1>4. Proceed(t, left, scan)
  BY <1>1
<1> HIDE DEF left
<1>5. \A r \in Task \ {t} : /\ pc'[r] = pc[r] /\ plan'[r] = plan[r]
                            /\ cur'[r] = cur[r] /\ answer'[r] = answer[r]
  BY <1>0, <1>2, <1>3, <1>4, ProceedStep DEF DiscInv
<1>6. \A r \in Reconcilers : /\ pc'[r] = pc[r] /\ plan'[r] = plan[r]
                             /\ cur'[r] = cur[r] /\ answer'[r] = answer[r]
  BY <1>0, <1>5 DEF Task
<1> QED
  BY <1>2, <1>6, QuietKept

(* A new scan replaces the last one when nobody is between two of its        *)
(* fetches, and drops the agents it does not find.                           *)
LEMMA BeginQuiet ==
    ASSUME QuietInv, [Next]_vars, NEW t \in Reconcilers, Begin(t)
    PROVE  GhostInv' /\ AgeInv' /\ ShownGrows
<1> DEFINE gone == Named(agents) \ Named(Desired)
           todo == {a \in Named(Desired) : agents[a] # Desired[a]}
           left == [a \in Agent |-> IF a \in todo THEN Desired[a] ELSE None]
<1>0. TypeOK /\ DiscInv /\ t \in Task
  BY DEF QuietInv, DiscInv, Task
<1>1. /\ pc[t] = "queued" /\ Head(lockq) = t /\ scan' = Desired
      /\ agents' = [a \in Agent |-> IF a \in gone THEN None ELSE agents[a]]
      /\ shown' = [a \in Agent |-> IF a \in gone THEN 0 ELSE shown[a]]
      /\ Proceed(t, left, Desired) /\ version' = version
  BY DEF Begin, environment
<1>2. Desired \in MaybeEndpoints /\ left \in MaybeEndpoints
  BY <1>0, DesiredType DEF MaybeEndpoints
<1>3. AtHead(t)
  BY <1>0, <1>1, QueuedAtHead
<1>4. Named(left) \subseteq Named(Desired)
  BY DEF Named
<1>5. Named(agents') \subseteq Named(Desired)
  BY <1>1 DEF Named
<1>6. \A a \in Agent : /\ shown[a] \in Nat /\ version[a] \in Nat
                       /\ shown'[a] = 0 \/ shown'[a] = shown[a]
  BY <1>0, <1>1 DEF TypeOK
<1> HIDE DEF left, gone
<1>7. /\ Active(t)' => pc'[t] = "fetching" /\ plan'[t] = left
      /\ \A r \in Task \ {t} : /\ pc'[r] = pc[r] /\ plan'[r] = plan[r]
                               /\ cur'[r] = cur[r] /\ answer'[r] = answer[r]
  BY <1>0, <1>1, <1>2, <1>3, ProceedStep DEF DiscInv
<1>8. \A r \in Reconcilers : Active(r)' => r = t /\ pc'[t] = "fetching" /\ plan'[t] = left
  BY <1>0, <1>3, <1>7, OthersWait DEF Active, Task
<1>9. GhostInv'
  BY <1>1, <1>4, <1>5, <1>8 DEF GhostInv, OnlyRefreshesRevive
<1>10. AgeInv'
  BY <1>1, <1>6, <1>8 DEF AgeInv, QuietInv, Active
<1> QED
  BY <1>6, <1>9, <1>10 DEF ShownGrows

(* The holder of the lock registers an agent of its scan, with an answer at  *)
(* least as new as the registered one; a refresh registers any agent, with   *)
(* any answer it got.                                                        *)
LEMMA RegisterQuiet ==
    ASSUME QuietInv, [Next]_vars, NEW t \in Task, Register(t)
    PROVE  GhostInv' /\ AgeInv' /\ ShownGrows
<1> DEFINE a == cur[t]
<1>0. TypeOK /\ DiscInv
  BY DEF QuietInv, DiscInv
<1>1. /\ pc[t] = "answered" /\ agents' = [agents EXCEPT ![a] = plan[t][a]]
      /\ shown' = [shown EXCEPT ![a] = answer[t]]
      /\ refreshed' = IF t \in Refreshers THEN refreshed \cup {a} ELSE refreshed \ {a}
      /\ Proceed(t, Remaining(t), scan)
      /\ version' = version /\ scan' = scan
  BY DEF Register, environment
<1>2. Active(t)
  BY <1>1 DEF Active
<1>3. /\ Remaining(t) \in MaybeEndpoints /\ AtHead(t) /\ a \in Agent
      /\ Named(Remaining(t)) \subseteq Named(plan[t])
  BY <1>0, <1>2, AtWork
<1>4. /\ a \in Named(plan[t]) /\ answer[t] \in 1..version[a]
      /\ Named(agents) \subseteq Named(scan) \cup refreshed
  BY <1>0, <1>1, <1>2 DEF QuietInv, GhostInv, OnlyRefreshesRevive, DiscInv, WorkInv
<1>5. t \in Reconcilers => /\ Named(plan[t]) \subseteq Named(scan)
                          /\ (shown[a] <= answer[t] \/ a \in refreshed)
  BY <1>1, <1>2 DEF QuietInv, GhostInv, AgeInv
<1> HIDE DEF a
<1>6. /\ Active(t)' => pc'[t] = "fetching" /\ plan'[t] = Remaining(t)
      /\ \A r \in Task \ {t} : /\ pc'[r] = pc[r] /\ plan'[r] = plan[r]
                               /\ cur'[r] = cur[r] /\ answer'[r] = answer[r]
  BY <1>0, <1>1, <1>3, ProceedStep DEF DiscInv
<1>7. /\ agents' \in [Agent -> EndpointType \cup {None}]
      /\ Named(agents') \subseteq Named(agents) \cup {a}
  <2>1. agents \in [Agent -> EndpointType \cup {None}] /\ plan[t] \in MaybeEndpoints
    BY <1>0 DEF TypeOK, MaybeEndpoints
  <2> QED
    BY <1>1, <1>3, <2>1 DEF Named, MaybeEndpoints
<1>8. \A b \in Agent : /\ shown[b] \in Nat /\ version[b] \in Nat
                       /\ shown[b] <= version[b]
                       /\ shown'[b] = IF b = a THEN answer[t] ELSE shown[b]
  BY <1>0, <1>1 DEF TypeOK, QuietInv, AgeInv
<1>9. \A b \in Agent : shown'[b] <= version'[b]
  BY <1>1, <1>3, <1>4, <1>8
<1>10. CASE t \in Reconcilers
  <2>1. t \notin Refreshers
    BY <1>10, DiscoveryConstants
  <2>2. \A r \in Reconcilers :
           Active(r)' => r = t /\ pc'[t] = "fetching" /\ plan'[t] = Remaining(t)
    BY <1>0, <1>3, <1>6, <1>10, OthersWait DEF Active, Task
  <2>3. GhostInv'
    <3>1. Named(plan[t]) \subseteq Named(scan) /\ refreshed' = refreshed \ {a}
      BY <1>1, <1>5, <1>10, <2>1
    <3>2. Named(agents') \subseteq Named(scan') \cup refreshed'
      BY <1>1, <1>4, <1>7, <3>1
    <3>3. \A r \in Reconcilers : Active(r)' => Named(plan'[r]) \subseteq Named(scan')
      BY <1>1, <1>3, <2>2, <3>1
    <3> QED
      BY <3>2, <3>3 DEF GhostInv, OnlyRefreshesRevive, Named
  <2>4. AgeInv'
    BY <1>9, <2>2 DEF AgeInv, Active
  <2>5. ShownGrows
    BY <1>3, <1>4, <1>5, <1>8, <1>10 DEF ShownGrows
  <2> QED
    BY <2>3, <2>4, <2>5
<1>11. CASE t \in Refreshers
  <2>1. t \notin Reconcilers /\ refreshed' = refreshed \cup {a}
    BY <1>1, <1>11, DiscoveryConstants
  <2>2. \A r \in Reconcilers : /\ pc'[r] = pc[r] /\ plan'[r] = plan[r]
                               /\ cur'[r] = cur[r] /\ answer'[r] = answer[r]
    BY <1>6, <2>1 DEF Task
  <2>3. GhostInv'
    BY <1>1, <1>4, <1>7, <2>1, <2>2 DEF QuietInv, GhostInv, OnlyRefreshesRevive, Active
  <2>4. ASSUME NEW r \in Reconcilers, pc'[r] = "answered"
        PROVE  shown'[cur'[r]] <= answer'[r] \/ cur'[r] \in refreshed'
    <3>1. shown[cur[r]] <= answer[r] \/ cur[r] \in refreshed
      BY <2>2, <2>4 DEF QuietInv, AgeInv
    <3>2. cur[r] \in Agent
      BY <1>0, <2>2, <2>4, AtWork DEF Active, Task
    <3> QED
      BY <1>8, <2>1, <2>2, <3>1, <3>2
  <2>5. AgeInv'
    BY <1>9, <2>4 DEF AgeInv
  <2>6. ShownGrows
    BY <1>8, <2>1 DEF ShownGrows
  <2> QED
    BY <2>3, <2>5, <2>6
<1> QED
  BY <1>10, <1>11 DEF Task

(* Every step keeps the invariant, and what is shown of an agent grows until *)
(* it is removed or refreshed.                                               *)
LEMMA QuietStep ==
    ASSUME QuietInv, [Next]_vars
    PROVE  QuietInv' /\ ShownGrows
<1>1. DiscInv'
  BY DiscStep DEF QuietInv
<1>2. CASE \E t \in Reconcilers : Begin(t)
  BY <1>1, <1>2, BeginQuiet DEF QuietInv
<1>3. CASE \E t \in Task : Step(t)
  BY <1>1, <1>3, FetchFailsQuiet, AnswerQuiet, RegisterQuiet DEF Step, QuietInv
<1>4. CASE \/ \E a \in Agent : FileChange(a) \/ Redeclare(a)
           \/ Proxied \/ WatchRestarts \/ StartDiscovery \/ WatchEvent
           \/ PeriodicTick \/ DiscoveryNotified \/ ConfigReload
           \/ \E t \in Reconcilers : ScanFails(t)
           \/ UNCHANGED vars
  BY <1>1, <1>4, BystanderQuiet DEF QuietInv
<1>5. CASE \E t \in Refreshers : Refresh(t)
  BY <1>1, <1>5, RefreshQuiet DEF QuietInv
<1> QED
  BY <1>2, <1>3, <1>4, <1>5 DEF Next, Proxied

LEMMA QuietInit == Init => QuietInv
<1> SUFFICES ASSUME Init PROVE QuietInv
  OBVIOUS
<1>1. DiscInv
  BY InitDisc
<1>2. /\ Named(agents) = {} /\ \A t \in Task : ~Active(t)
      /\ \A a \in Agent : shown[a] = 0 /\ version[a] = 1
  BY DEF Init, NoEndpoints, Named, Active
<1> QED
  BY <1>1, <1>2 DEF QuietInv, GhostInv, OnlyRefreshesRevive, AgeInv, Active, Task

(* In every behaviour of discovery the invariant holds.                      *)
LEMMA Quiet == Spec => []QuietInv /\ [][ShownGrows]_vars
<1>1. QuietInv /\ [Next]_vars => QuietInv' /\ ShownGrows
  BY QuietStep
<1> QED
  BY <1>1, QuietInit, PTL DEF Spec

(* For any number of reconciles and refreshes in flight, an agent the last   *)
(* scan did not find is registered only if a refresh registered it.          *)
THEOREM RefreshesReviveOnly == Spec => []OnlyRefreshesRevive
<1>1. QuietInv => OnlyRefreshesRevive
  BY DEF QuietInv, GhostInv
<1> QED
  BY <1>1, Quiet, PTL

(* For any number of reconciles and refreshes in flight, an older answer     *)
(* overwrites a newer one of its agent only if a refresh registered one of   *)
(* the two.                                                                  *)
THEOREM NewestAnswersStay == Spec => NewestAnswerStays
<1>1. ShownGrows => \A a \in Agent : \/ shown'[a] = 0 \/ shown'[a] >= shown[a]
                                     \/ a \in refreshed \cup refreshed'
  BY DEF ShownGrows
<1> QED
  BY <1>1, Quiet, PTL DEF NewestAnswerStays
-----------------------------------------------------------------------------
(* Discovery uses the registry within its promise.                           *)

\* the prefixes somebody asks for
KnownPrefixes == PrefixesOf(Configs, Declarations)

\* Agents own, and the configuration reserves, prefixes somebody asked for.
KnownInv ==
    /\ \A o \in OwnedIn(routes) : o[1] \in KnownPrefixes /\ o[2] \in Agent
    /\ Listed(cpPrefixes) \subseteq KnownPrefixes
    /\ Listed(authzPrefixes) \subseteq KnownPrefixes

\* the inductive invariant of the refinement
OwnInv == DiscInv /\ KnownInv

\* Agent a owns P in s, which it owned in t or which was free, valid and clear of
\* the reserved prefixes; the others own what they did.
Claims(s, t, a, P, cpPs, authzPs) ==
    /\ OwnedIn(s) = {o \in OwnedIn(t) : o[2] # a} \cup (P \X {a})
    /\ \A p \in P : /\ \A b \in Agent \ {a} : <<p, b>> \notin OwnedIn(t)
                    /\ Valid(p)
                    /\ ~OverlapsAny(p, cpPs) /\ ~OverlapsAny(p, authzPs)
-----------------------------------------------------------------------------
(* Both levels compare paths alike.                                          *)
LEMMA SamePaths ==
    /\ Ownership!EmptyPath = EmptyPath /\ Ownership!Root = Root
    /\ Ownership!RootStar = RootStar
    /\ \A p, q : Ownership!Overlaps(p, q) <=> Overlaps(p, q)
  BY DEF Ownership!EmptyPath, EmptyPath, Ownership!Root, Root, Ownership!RootStar,
         RootStar, Ownership!Overlaps, Overlaps, Ownership!Under, Under,
         Ownership!Slashed, Slashed, Ownership!Below, Below, Ownership!Bare, Bare

(* What a configuration reserves is known.                                   *)
LEMMA ConfigKnown ==
    ASSUME NEW c \in Configs
    PROVE  /\ Listed(CpPrefixesOf(c.cps)) \subseteq KnownPrefixes
           /\ Listed(AuthzPrefixesOf(c)) \subseteq KnownPrefixes
<1>1. ConfiguredIn(c) \subseteq KnownPrefixes
  BY DEF KnownPrefixes, PrefixesOf
<1>2. c \in ConfigType
  BY DiscoveryConstants
<1> QED
  BY <1>1, <1>2, ConfigAsks

(* Replacing the routes of an agent changes what that agent owns only.       *)
LEMMA ReplacedOwns ==
    ASSUME NEW t \in Table, NEW a \in Agent, NEW transport \in Transport,
           NEW target \in Target, NEW decls \in DeclarationList,
           NEW cpPs, NEW authzPs,
           NEW s, s = Extend(WithoutAgents(t, {a}), cpPs, authzPs, a, transport,
                             target, decls)
    PROVE  \E P \in SUBSET DeclaredIn(decls) : Claims(s, t, a, P, cpPs, authzPs)
<1> DEFINE w == WithoutAgents(t, {a})
<1>1. w \in Table /\ Elements(w) = {r \in Elements(t) : r.agent \notin {a}}
  BY DropsEntries
<1>2. s = Extend(w, cpPs, authzPs, a, transport, target, decls)
  OBVIOUS
<1> HIDE DEF w
<1>3. PICK P \in SUBSET DeclaredIn(decls) : Gains(s, w, a, P, cpPs, authzPs)
  BY <1>1, <1>2, ExtendOwns
<1>4. OwnedIn(w) = {o \in OwnedIn(t) : o[2] # a}
  <2>1. \A o \in OwnedIn(w) : o \in OwnedIn(t) /\ o[2] # a
    BY <1>1 DEF OwnedIn
  <2>2. \A o \in OwnedIn(t) : o[2] # a => o \in OwnedIn(w)
    BY <1>1 DEF OwnedIn
  <2> QED
    BY <2>1, <2>2
<1>5. ASSUME NEW p \in P, NEW b \in Agent \ {a}
      PROVE  <<p, b>> \notin OwnedIn(t)
  <2>1. p \notin PrefixesIn(w)
    BY <1>3 DEF Gains
  <2>2. <<p, b>> \notin OwnedIn(w)
    BY <2>1 DEF OwnedIn, PrefixesIn
  <2> QED
    BY <1>4, <2>2
<1>6. Claims(s, t, a, P, cpPs, authzPs)
  BY <1>3, <1>4, <1>5 DEF Claims, Gains
<1> QED
  BY <1>6
-----------------------------------------------------------------------------
(* At the start nobody owns a prefix.                                        *)
LEMMA InitOwns == Init => OwnInv /\ Ownership!Init
<1> SUFFICES ASSUME Init PROVE OwnInv /\ Ownership!Init
  OBVIOUS
<1>1. config \in Configs /\ config \in ConfigType
  BY DiscoveryConstants DEF Init
<1>2. /\ ConfigRoutes(config) \in Table
      /\ \A r \in Elements(ConfigRoutes(config)) : r.agent = None
  BY <1>1, ConfigLists
<1>3. /\ routes = Sort(ConfigRoutes(config))
      /\ cpPrefixes = CpPrefixesOf(config.cps) /\ authzPrefixes = AuthzPrefixesOf(config)
  BY SameSort, SameConfigRoutes DEF Init, Registry!InitWith
<1>4. Elements(routes) = Elements(ConfigRoutes(config))
  BY <1>2, <1>3, SortSorts
<1>5. OwnedIn(routes) = {}
  BY <1>2, <1>4 DEF OwnedIn
<1>6. KnownInv
  BY <1>1, <1>3, <1>5, ConfigKnown DEF KnownInv
<1>7. Ownership!Init
  BY <1>5, <1>6 DEF Ownership!Init, KnownInv, Listed, KnownPrefixes
<1> QED
  BY <1>6, <1>7, InitDisc DEF OwnInv

(* Agents that lose prefixes, and known reserved ones: a Reconfigure.        *)
LEMMA FewerOwns ==
    ASSUME OwnInv, OwnedIn(routes') \subseteq OwnedIn(routes),
           Listed(cpPrefixes') \subseteq KnownPrefixes,
           Listed(authzPrefixes') \subseteq KnownPrefixes
    PROVE  KnownInv' /\ Ownership!Next
<1>1. KnownInv'
  BY DEF OwnInv, KnownInv
<1>2. Ownership!Reconfigure
  BY DEF Ownership!Reconfigure, Listed, KnownPrefixes
<1> QED
  BY <1>1, <1>2 DEF Ownership!Next

(* A reload of the configuration gives no agent a prefix.                    *)
LEMMA ReloadOwns ==
    ASSUME OwnInv, ConfigReload
    PROVE  KnownInv' /\ Ownership!Next
<1>1. PICK c \in Configs : Registry!OnConfigChange(c)
  BY DEF ConfigReload
<1>2. /\ cpPrefixes' = CpPrefixesOf(c.cps) /\ authzPrefixes' = AuthzPrefixesOf(c)
      /\ routes' = Sort(AgentPart(routes, c.http) \o ConfigRoutes(c))
  BY <1>1, SameSort, SameAgentPart, SameConfigRoutes DEF Registry!OnConfigChange
<1>3. routes \in Table /\ c \in ConfigType
  BY SameEntries, DiscoveryConstants DEF OwnInv, DiscInv, TypeOK, Registry!TypeOK, Table
<1>4. \A r \in Elements(routes') : r.agent # None => r \in Elements(routes)
  BY <1>2, <1>3, ReloadedTable
<1>5. OwnedIn(routes') \subseteq OwnedIn(routes)
  BY <1>4 DEF OwnedIn
<1> QED
  BY <1>2, <1>5, ConfigKnown, FewerOwns

(* A reconcile only removes agents before it fetches.                        *)
LEMMA BeginOwns ==
    ASSUME OwnInv, NEW t \in Reconcilers, Begin(t)
    PROVE  KnownInv' /\ Ownership!Next
<1> DEFINE gone == Named(agents) \ Named(Desired)
<1>1. /\ routes' = WithoutAgents(routes, gone)
      /\ UNCHANGED <<cpPrefixes, authzPrefixes>>
  BY DEF Begin
<1>2. routes \in Table
  BY SameEntries DEF OwnInv, DiscInv, TypeOK, Registry!TypeOK, Table
<1> HIDE DEF gone
<1>3. Elements(routes') \subseteq Elements(routes)
  BY <1>1, <1>2, DropsEntries
<1>4. OwnedIn(routes') \subseteq OwnedIn(routes)
  BY <1>3, FewerOwned
<1> QED
  BY <1>1, <1>4, FewerOwns DEF OwnInv, KnownInv

(* Registering the answer of an agent is a Claim by that agent.              *)
LEMMA RegisterOwns ==
    ASSUME OwnInv, NEW t \in Task, Register(t)
    PROVE  KnownInv' /\ Ownership!Next
<1> DEFINE a == cur[t]
           e == plan[t][a]
           decls == Declared[a][answer[t]]
<1>0. DiscInv /\ TypeOK
  BY DEF OwnInv, DiscInv
<1>1. pc[t] = "answered" /\ Registry!ReplaceAgentRoutes(a, e.transport, e.address, decls)
  BY DEF Register
<1>2. a \in Agent /\ e \in EndpointType
  BY <1>0, <1>1, AtWork DEF Active
<1>3. decls \in DeclarationList /\ decls \in Declarations
  BY <1>0, <1>1, <1>2, AnsweredDeclarations
<1>4. e.transport \in Transport /\ e.address \in Target
  BY <1>2 DEF EndpointType
<1>5. routes \in Table
  BY <1>0, SameEntries DEF TypeOK, Registry!TypeOK, Table
<1>6. /\ routes' = Extend(WithoutAgents(routes, {a}), cpPrefixes, authzPrefixes, a,
                          e.transport, e.address, decls)
      /\ UNCHANGED <<cpPrefixes, authzPrefixes>>
  BY <1>1, SameExtend, SameWithout DEF Registry!ReplaceAgentRoutes
<1> HIDE DEF a, e, decls
<1>7. PICK P \in SUBSET DeclaredIn(decls) :
         Claims(routes', routes, a, P, cpPrefixes, authzPrefixes)
  BY <1>2, <1>3, <1>4, <1>5, <1>6, ReplacedOwns
<1>8. P \in SUBSET KnownPrefixes
  BY <1>3 DEF KnownPrefixes, PrefixesOf
<1>9. OwnedIn(routes') = {o \in OwnedIn(routes) : o[2] # a} \cup (P \X {a})
  BY <1>7 DEF Claims
<1>10. KnownInv'
  <2>1. \A o \in OwnedIn(routes') : o[1] \in KnownPrefixes /\ o[2] \in Agent
    BY <1>2, <1>8, <1>9 DEF OwnInv, KnownInv
  <2> QED
    BY <1>6, <2>1 DEF OwnInv, KnownInv
<1>11. ASSUME NEW p \in P PROVE Ownership!Free(p, a) /\ Ownership!Clear(p)
  <2>1. Ownership!Free(p, a)
    BY <1>7 DEF Claims, Ownership!Free
  <2>2. Ownership!Clear(p)
    BY <1>7, SamePaths DEF Claims, Ownership!Clear, Valid, OverlapsAny
  <2> QED
    BY <2>1, <2>2
<1>12. Ownership!Claim(a, P)
  BY <1>6, <1>9, <1>11 DEF Ownership!Claim
<1> QED
  BY <1>2, <1>8, <1>10, <1>12 DEF Ownership!Next, KnownPrefixes

(* Every step of discovery is a Claim, a Reconfigure, or none of the         *)
(* registry's business.                                                      *)
LEMMA OwnsStep ==
    OwnInv /\ [Next]_vars => OwnInv' /\ [Ownership!Next]_(Ownership!vars)
<1> SUFFICES ASSUME OwnInv, [Next]_vars
             PROVE  KnownInv' /\ [Ownership!Next]_(Ownership!vars)
  BY DiscStep DEF OwnInv
<1>1. ASSUME UNCHANGED registry
      PROVE  KnownInv' /\ UNCHANGED Ownership!vars
  BY <1>1 DEF registry, OwnInv, KnownInv, Ownership!vars
<1>2. CASE ConfigReload
  BY <1>2, ReloadOwns
<1>3. CASE \E t \in Reconcilers : Begin(t)
  BY <1>3, BeginOwns
<1>4. CASE \E t \in Task : Register(t)
  BY <1>4, RegisterOwns
<1>5. CASE \/ \E a \in Agent : FileChange(a) \/ Redeclare(a)
           \/ Proxied \/ WatchRestarts \/ StartDiscovery \/ WatchEvent
           \/ PeriodicTick \/ DiscoveryNotified
           \/ \E t \in Reconcilers : ScanFails(t)
           \/ \E t \in Task : FetchFails(t) \/ Answer(t)
           \/ \E t \in Refreshers : Refresh(t)
           \/ UNCHANGED vars
  <2>1. UNCHANGED registry
    BY <1>5 DEF FileChange, Redeclare, Proxied, HoldRoute, OpenClient, WatchRestarts,
                StartDiscovery, WatchEvent, PeriodicTick, DiscoveryNotified, ScanFails, FetchFails,
                Answer, Refresh, vars
  <2> QED
    BY <1>1, <2>1
<1> QED
  BY <1>2, <1>3, <1>4, <1>5 DEF Next, Step, Proxied

(* Whatever tasks interleave, suspended in their fetches, no agent gets a    *)
(* prefix another one holds or the configuration reserves.                   *)
THEOREM DiscoveryRefines == Spec => ImplementsOwnership
  BY InitOwns, OwnsStep, PTL DEF Spec, ImplementsOwnership, Ownership!Spec
=============================================================================
