--------------------------- MODULE Dispatch_proofs ---------------------------
(* For any configurations, headers, tokens and numbers of requests, reloads  *)
(* and changes of the agents: agents are told who called them, the tokens of *)
(* the node go to the URLs they are configured with, a reload ends with the  *)
(* clients its configuration asks for, but for what it leaves behind when a  *)
(* URL is malformed, and no client is lost on the way.                       *)
(* DispatchInv is about requests and tokens, ClientInv about the clients     *)
(* themselves, TypeInv about the types that need both.                       *)
EXTENDS Dispatch, RouteTable_proofs

\* the configurations in force or being replaced
InForce == {config} \cup IF stage = "idle" THEN {} ELSE {prev}

\* Client and token of controlplane n are those of configuration c, the client
\* if it is "current", the token if it is "told".
CpAs(c, cps, jwts, n, current, told) ==
    IF n \in CpNames(c)
    THEN /\ current => cps[n] # None /\ cps[n].base = UrlOf(c, n)
         /\ told => jwts[n] = c.token[n]
    ELSE cps[n] = None

\* Between reloads everything is, but what was left behind.
CpSettled(c, cps, jwts, n) == CpAs(c, cps, jwts, n, n \notin stale, n \notin untold)

\* In a reload that has still to come to "late", the others are of the new
\* configuration, and those whose URL changed are left behind no longer.
CpMoving(old, new, late, cps, jwts, n) ==
    CpAs(IF n \in late THEN old ELSE new, cps, jwts, n,
         n \notin stale \/ (n \notin late /\ Changed(old, new, n)),
         n \notin untold \/ n \notin late)

\* The client of the authz server is that of configuration c.
AuthzAs(c, client) ==
    IF AuthzUrl(c) = None THEN client = None
    ELSE client # None /\ client.base = AuthzUrl(c)

\* the controlplanes a reload has not come to, or is suspended in
Pending == removing \cup adding \cup ({at} \ {None})

\* How far a reload has come.
ReloadInv ==
    /\ config \in Configs /\ prev \in Configs /\ reloads \in Nat
    /\ removing \subseteq CpName \ CpNames(config)
    /\ adding \subseteq CpNames(config) /\ at \in (CpNames(config) \ adding) \cup {None}
    /\ \/ stage = "removing" /\ at = None
       \/ stage = "adding" /\ removing = {} /\ at # None
       \/ stage \in {"idle", "authz"} /\ Pending = {}
    /\ stage = "authz" => untold = {None}

\* a reload is among the controlplanes
Moving == stage \in {"removing", "adding"}

\* the tokens of controlplanes
JwtType == [CpName -> NodeToken \cup {None}]

\* The controlplanes are as the former configuration has them, or as the new one.
NodeInv ==
    /\ cpClient = [n \in CpName |-> cpClient[n]]
    /\ cpJwt \in JwtType /\ authzJwt \in NodeToken
    /\ stale \subseteq Upstream /\ untold \subseteq Upstream
    /\ Moving => \A n \in CpName : CpMoving(prev, config, Pending, cpClient, cpJwt, n)
    /\ ~Moving => \A n \in CpName : CpSettled(config, cpClient, cpJwt, n)
    /\ None \notin stale => AuthzAs(IF Moving THEN prev ELSE config, authzClient)
    /\ None \notin untold => authzJwt = (IF Moving THEN prev ELSE config).authzToken

RoutesInv ==
    /\ routes \in Table
    /\ \A r \in Elements(routes) : r.dest = "controlplane" => r.cp \in CpName

\* the headers "more" say who the caller of q is
Vouches(q, more) ==
    \/ q.local /\ more = LocalHeaders
    \/ ~q.local /\ Whitelisted(q) /\ more = ExternalHeaders("")
    \/ /\ ~q.local /\ ~Whitelisted(q)
       /\ more = ExternalHeaders(TokenIn(q.headers))
       /\ TokenIn(q.headers) \in Genuine
       /\ \E c \in q.seen : IssuedBy[TokenIn(q.headers)] = c.issuer

Vouched(q) == Vouches(q, q.extra)

\* the client for a controlplane and the token are of one configuration
Matched(q) ==
    \E c \in q.seen : /\ q.route.cp \in CpNames(c)
                     /\ q.client.base = UrlOf(c, q.route.cp)
                     /\ q.extra = Authorization(c.token[q.route.cp])

\* so are the client for the authz server and the token
OneAuthz(q) ==
    \E c \in q.seen : q.client.base = AuthzUrl(c) /\ q.extra = Authorization(c.authzToken)

Prepared(q) ==
    /\ q.route.dest = "agent" => Vouched(q)
    /\ q.route.dest = "controlplane" /\ q.local /\ ~q.behind => Matched(q)
    /\ q.route.dest = "authz" => q.local /\ (q.behind \/ OneAuthz(q))

\* q has the fields of a request
Field == {"path", "local", "headers", "route", "issuer", "client", "extra", "sent", "seen",
          "behind"}

Formed(q) == q = [f \in Field |-> q[f]]

\* a request whose token is validated
Validating(q) ==
    /\ ~q.local /\ NeedsToken(q) /\ TokenIn(q.headers) # None
    /\ q.sent = None /\ q.route \in RouteType
    /\ q.route.dest = "controlplane" => q.route.cp \in CpName
    /\ \E c \in q.seen : q.issuer = c.issuer

\* a request whose body is read, and one that was sent
Reading(q) == q.sent = None /\ Prepared(q)

Sending(q) ==
    /\ q.sent = [base |-> q.client.base, headers |-> UpstreamHeaders(q.headers, q.extra)]
    /\ Prepared(q)

RequestInv(t) ==
    /\ Formed(req[t])
    /\ pc[t] = "validating" => Validating(req[t])
    /\ pc[t] = "reading" => Reading(req[t])
    /\ pc[t] = "sending" => Sending(req[t])
    /\ pc[t] \notin {"validating", "reading", "sending"} => req[t] = Blank

RequestsInv ==
    /\ pc = [t \in Request |-> pc[t]] /\ req = [t \in Request |-> req[t]]
    /\ \A t \in Request : RequestInv(t)

\* the inductive invariant
DispatchInv == ReloadInv /\ NodeInv /\ RoutesInv /\ RequestsInv
-----------------------------------------------------------------------------
(* What the upstream reads from the headers it is sent.                      *)
LEMMA LocalIsLocal ==
    ASSUME NEW h
    PROVE  ContextFrom(UpstreamHeaders(h, LocalHeaders)) = [source |-> "local", sub |-> ""]
BY DispatchConstants DEF ContextFrom, UpstreamHeaders, LocalHeaders, Orr, Header, Sensitive,
                         HopByHop

LEMMA ExternalIsExternal ==
    ASSUME NEW h, NEW u, u # None
    PROVE  ContextFrom(UpstreamHeaders(h, ExternalHeaders(u))) =
               [source |-> "external", sub |-> u]
BY DispatchConstants DEF ContextFrom, UpstreamHeaders, ExternalHeaders, Orr, Header,
                         Sensitive, HopByHop

LEMMA AuthorizationIsSent ==
    ASSUME NEW h, NEW v
    PROVE  UpstreamHeaders(h, Authorization(v))["authorization"] = v
BY DEF UpstreamHeaders, Authorization, Header
-----------------------------------------------------------------------------
LEMMA ConfigTypes ==
    ASSUME NEW c \in Configs
    PROVE  /\ c.routing \in ConfigType /\ c.routing.cps \in Seq(CpType)
           /\ CpNames(c) \subseteq CpName
           /\ \A n \in CpName : c.token[n] \in NodeToken
<1>1. c \in FullConfigType
  BY ProxyConstants
<1>2. /\ c.routing \in ConfigType /\ c.routing.cps \in Seq(CpType)
      /\ c.token \in [CpName -> NodeToken]
  BY <1>1 DEF FullConfigType, ConfigType
<1>3. ASSUME NEW i \in DOMAIN c.routing.cps PROVE c.routing.cps[i].name \in CpName
  <2>1. c.routing.cps[i] \in CpType
    BY <1>2
  <2> QED
    BY <2>1 DEF CpType
<1> QED
  BY <1>2, <1>3 DEF CpNames

(* A controlplane of a configuration has a URL.                              *)
LEMMA UrlType ==
    ASSUME NEW c \in Configs, NEW n \in CpNames(c)
    PROVE  UrlOf(c, n) \in Target
<1>1. c.routing.cps \in Seq(CpType)
  BY ConfigTypes
<1> DEFINE P(i) == i \in DOMAIN c.routing.cps /\ c.routing.cps[i].name = n
           m == CHOOSE i : P(i)
<1>2. \E i : P(i)
  BY DEF CpNames
<1>3. P(m)
  BY <1>2
<1>4. UrlOf(c, n) = c.routing.cps[m].url
  BY DEF UrlOf
<1> HIDE DEF m
<1>5. c.routing.cps[m] \in CpType
  BY <1>1, <1>3
<1> QED
  BY <1>4, <1>5 DEF CpType

LEMMA AuthzUrlType ==
    ASSUME NEW c \in Configs
    PROVE  AuthzUrl(c) \in Target \cup {None}
BY ConfigTypes DEF AuthzUrl, ConfigType

(* The clients a reload creates are clients.                                 *)
LEMMA NewClients ==
    ASSUME NEW c \in Configs, NEW k \in Nat
    PROVE  /\ \A n \in CpNames(c) : CpClientOf(c, n, k) \in ClientType
           /\ AuthzClientOf(c, k) = None \/ AuthzClientOf(c, k) \in ClientType
           /\ AuthzAs(c, AuthzClientOf(c, k))
<1>1. ASSUME NEW n \in CpNames(c) PROVE CpClientOf(c, n, k) \in ClientType
  <2>1. n \in CpName /\ UrlOf(c, n) \in Target
    BY ConfigTypes, UrlType
  <2> QED
    BY <2>1 DEF CpClientOf, ClientType
<1>2. CASE AuthzUrl(c) = None
  BY <1>1, <1>2 DEF AuthzClientOf, AuthzAs
<1>3. CASE AuthzUrl(c) # None
  <2>1. AuthzClientOf(c, k) \in ClientType
    BY <1>3, AuthzUrlType DEF AuthzClientOf, ClientType
  <2>2. AuthzClientOf(c, k) # None
    BY <2>1, ProxyConstants
  <2> QED
    BY <1>1, <1>3, <2>1, <2>2 DEF AuthzClientOf, AuthzAs
<1> QED
  BY <1>2, <1>3

LEMMA ConfigTokens ==
    ASSUME NEW c \in Configs
    PROVE  c.authzToken \in NodeToken /\ c.issuer \in Issuer
<1>1. c \in FullConfigType
  BY ProxyConstants
<1> QED
  BY <1>1 DEF FullConfigType

(* The tokens stay tokens.                                                   *)
LEMMA AuthorizedTyped ==
    ASSUME NEW old, NEW new \in Configs, NEW jwts \in JwtType, NEW done
    PROVE  Authorized(old, new, jwts, done) \in JwtType
BY ConfigTypes DEF Authorized, JwtType

(* A controlplane that a reload comes to has the client and the token of the *)
(* new configuration when they are created or kept.                          *)
LEMMA Reconnected ==
    ASSUME NEW old, NEW new \in Configs, NEW cps, NEW jwts, NEW done, NEW k \in Nat,
           NEW n \in CpName, n \in done, n \in CpNames(new),
           NEW current \in BOOLEAN, NEW told \in BOOLEAN,
           CpAs(old, cps, jwts, n, current, told)
    PROVE  CpAs(new, Connected(old, new, cps, done, k), Authorized(old, new, jwts, done), n,
                current \/ Changed(old, new, n), TRUE)
<1>1. CpClientOf(new, n, k) # None /\ CpClientOf(new, n, k).base = UrlOf(new, n)
  BY NewClients, ProxyConstants DEF CpClientOf
<1>2. Authorized(old, new, jwts, done)[n] = new.token[n]
  BY DEF Authorized
<1>3. CASE Changed(old, new, n)
  <2>1. Connected(old, new, cps, done, k)[n] = CpClientOf(new, n, k)
    BY <1>3 DEF Connected
  <2> QED
    BY <1>1, <1>2, <2>1 DEF CpAs
<1>4. CASE ~Changed(old, new, n)
  <2>1. Connected(old, new, cps, done, k)[n] = cps[n]
    BY <1>4 DEF Connected
  <2> QED
    BY <1>2, <1>4, <2>1 DEF CpAs, Changed
<1> QED
  BY <1>3, <1>4

(* What a reload has not come to when it ends is what it notes as left       *)
(* behind; the rest is as the new configuration asks for.                    *)
LEMMA ReloadEnds ==
    ASSUME NEW old, NEW new \in Configs, NEW cps, NEW jwts, NEW k \in Nat,
           NEW left \in SUBSET CpNames(new), NEW done \in SUBSET left,
           NEW missed, \A n \in CpName : n \in missed <=> n \in left \ done,
           LeavesStale(old, new, missed), left \ done \subseteq untold',
           NEW m \in CpName, CpMoving(old, new, left, cps, jwts, m),
           cpClient' = Connected(old, new, cps, done, k),
           cpJwt' = Authorized(old, new, jwts, done)
    PROVE  CpSettled(new, cpClient, cpJwt, m)'
<1> DEFINE cps1 == Connected(old, new, cps, done, k)
           jwts1 == Authorized(old, new, jwts, done)
<1>1. CpNames(new) \subseteq CpName /\ m # None
  BY ConfigTypes, NoneIsNoName
<1>2. m \in CpNames(new) =>
         (m \in stale' <=> IF Changed(old, new, m) THEN m \in left \ done ELSE m \in stale)
  BY <1>1 DEF LeavesStale
<1>s. SUFFICES CpAs(new, cps1, jwts1, m, m \notin stale', m \notin untold')
  BY DEF CpSettled, CpAs
<1>3. CASE m \in done
  <2>1. CpAs(old, cps, jwts, m, m \notin stale, m \notin untold)
    BY <1>3 DEF CpMoving, CpAs
  <2>2. CpAs(new, cps1, jwts1, m, m \notin stale \/ Changed(old, new, m), TRUE)
    BY <1>3, <2>1, Reconnected
  <2> HIDE DEF cps1, jwts1
  <2> QED
    BY <1>2, <1>3, <2>2 DEF CpAs
<1>4. CASE m \in left \ done
  <2>1. cps1[m] = cps[m] /\ m \in CpNames(new) /\ m \in untold'
    BY <1>4 DEF Connected
  <2>2. m \notin stale' => ~Changed(old, new, m) /\ m \notin stale
    BY <1>2, <1>4, <2>1
  <2>3. CpAs(old, cps, jwts, m, m \notin stale, m \notin untold)
    BY <1>4 DEF CpMoving, CpAs
  <2> HIDE DEF cps1, jwts1
  <2> QED
    BY <2>1, <2>2, <2>3 DEF CpAs, Changed
<1>5. CASE m \notin left
  <2>1. cps1[m] = cps[m] /\ jwts1[m] = jwts[m]
    BY <1>5 DEF Connected, Authorized
  <2>2. CpAs(new, cps, jwts, m, m \notin stale \/ Changed(old, new, m), TRUE)
    BY <1>5 DEF CpMoving, CpAs
  <2> HIDE DEF cps1, jwts1
  <2> QED
    BY <1>2, <1>5, <2>1, <2>2 DEF CpAs
<1> QED
  BY <1>3, <1>4, <1>5

\* what the rest of a reload relies on: the controlplanes "late" are still to come
Underway(old, new, late, cps, jwts) ==
    /\ cps = [n \in CpName |-> cps[n]] /\ jwts \in JwtType
    /\ authzJwt \in NodeToken /\ stale \subseteq Upstream /\ untold \subseteq Upstream
    /\ \A n \in CpName : CpMoving(old, new, late, cps, jwts, n)
    /\ None \notin stale => AuthzAs(old, authzClient)
    /\ None \notin untold => authzJwt = old.authzToken

LEMMA RemoveKeeps ==
    ASSUME NEW old \in Configs, NEW new \in Configs, NEW cps, NEW jwts, NEW k \in Nat,
           NEW gone \in SUBSET (CpName \ CpNames(new)), NEW left \in SUBSET CpNames(new),
           Underway(old, new, gone \cup left, cps, jwts),
           config' = new, prev' = old, reloads' = k,
           NEW n \in gone, Remove(n, cps, jwts, gone, left)
    PROVE  ReloadInv' /\ NodeInv'
<1>0. CpNames(new) \subseteq CpName /\ None \notin CpName
  BY ConfigTypes, NoneIsNoName
<1>1. /\ stage' = "removing" /\ at' = None
      /\ removing' = gone \ {n} /\ adding' = left
      /\ cpClient' = [cps EXCEPT ![n] = None]
      /\ cpJwt' = [jwts EXCEPT ![n] = None]
      /\ authzClient' = authzClient /\ authzJwt' = authzJwt
      /\ stale' = stale /\ untold' = untold
  BY DEF Remove, behind
<1>2. ReloadInv'
  BY <1>0, <1>1 DEF ReloadInv
<1>3. Pending' = (gone \ {n}) \cup left /\ Moving'
  BY <1>1 DEF Pending, Moving
<1>4. ASSUME NEW m \in CpName
      PROVE  CpMoving(prev, config, Pending, cpClient, cpJwt, m)'
  <2>1. CASE m = n
    <3>1. m \notin Pending' /\ m \notin CpNames(new) /\ cpClient'[m] = None
      BY <1>0, <1>1, <1>3, <2>1 DEF Underway
    <3> QED
      BY <3>1 DEF CpMoving, CpAs
  <2>2. CASE m # n
    <3>1. cpClient'[m] = cps[m] /\ cpJwt'[m] = jwts[m]
      BY <1>1, <2>2 DEF Underway, JwtType
    <3>2. m \in Pending' <=> m \in gone \cup left
      BY <1>3, <2>2
    <3>3. CpMoving(old, new, gone \cup left, cps, jwts, m)
      BY DEF Underway
    <3> QED
      BY <1>1, <3>1, <3>2, <3>3 DEF CpMoving, CpAs, Changed
  <2> QED
    BY <2>1, <2>2
<1>5. cpClient' = [m \in CpName |-> cpClient'[m]] /\ cpJwt' \in JwtType
  BY <1>1 DEF Underway, JwtType
<1> QED
  BY <1>1, <1>2, <1>3, <1>4, <1>5 DEF NodeInv, AuthzAs, Underway, Upstream

LEMMA ReplaceKeeps ==
    ASSUME NEW old \in Configs, NEW new \in Configs, NEW cps, NEW jwts, NEW k \in Nat,
           NEW left \in SUBSET CpNames(new), Underway(old, new, left, cps, jwts),
           config' = new, prev' = old, reloads' = k,
           NEW n \in left, NEW done \in SUBSET (left \ {n}),
           Replace(old, new, n, done, cps, jwts, left, k)
    PROVE  ReloadInv' /\ NodeInv'
<1>0. CpNames(new) \subseteq CpName /\ None \notin CpName
  BY ConfigTypes, NoneIsNoName
<1> DEFINE cps1 == Connected(old, new, cps, done, k)
           jwts1 == Authorized(old, new, jwts, done)
<1>1. /\ stage' = "adding" /\ at' = n
      /\ removing' = {} /\ adding' = left \ (done \cup {n})
      /\ cpClient' = cps1 /\ cpJwt' = jwts1
      /\ authzClient' = authzClient /\ authzJwt' = authzJwt
      /\ stale' = stale /\ untold' = untold
  BY DEF Replace, behind
<1>2. ReloadInv'
  BY <1>0, <1>1 DEF ReloadInv
<1>3. Pending' = left \ done /\ Moving'
  BY <1>0, <1>1 DEF Pending, Moving
<1>4. ASSUME NEW m \in CpName
      PROVE  CpMoving(old, new, left \ done, cps1, jwts1, m)
  <2>0. CpMoving(old, new, left, cps, jwts, m)
    BY DEF Underway
  <2>1. CASE m \in done
    <3>1. CpAs(old, cps, jwts, m, m \notin stale, m \notin untold)
      BY <2>0, <2>1 DEF CpMoving, CpAs
    <3>2. CpAs(new, cps1, jwts1, m, m \notin stale \/ Changed(old, new, m), TRUE)
      BY <2>1, <3>1, Reconnected
    <3> HIDE DEF cps1, jwts1
    <3> QED
      BY <2>1, <3>2 DEF CpMoving, CpAs
  <2>2. CASE m \notin done
    <3>1. cps1[m] = cps[m] /\ jwts1[m] = jwts[m]
      BY <2>2 DEF Connected, Authorized
    <3> HIDE DEF cps1, jwts1
    <3> QED
      BY <2>0, <2>2, <3>1 DEF CpMoving, CpAs
  <2> QED
    BY <2>1, <2>2
<1>5. cps1 = [m \in CpName |-> cps1[m]] /\ jwts1 \in JwtType
  BY AuthorizedTyped DEF Connected, Underway
<1> HIDE DEF cps1, jwts1
<1>6. \A m \in CpName : CpMoving(prev, config, Pending, cpClient, cpJwt, m)'
  BY <1>1, <1>3, <1>4 DEF CpMoving, CpAs, Changed
<1> QED
  BY <1>1, <1>2, <1>3, <1>5, <1>6 DEF NodeInv, AuthzAs, Underway, Upstream

LEMMA AbandonKeeps ==
    ASSUME NEW old \in Configs, NEW new \in Configs, NEW cps, NEW jwts, NEW k \in Nat,
           NEW left \in SUBSET CpNames(new), Underway(old, new, left, cps, jwts),
           config' = new, prev' = old, reloads' = k,
           NEW done \in SUBSET left, Abandon(old, new, done, cps, jwts, left, k)
    PROVE  ReloadInv' /\ NodeInv'
<1>0. CpNames(new) \subseteq CpName /\ None \notin CpName
  BY ConfigTypes, NoneIsNoName
<1>1. /\ stage' = "idle" /\ at' = None /\ removing' = {} /\ adding' = {}
      /\ cpClient' = Connected(old, new, cps, done, k)
      /\ cpJwt' = Authorized(old, new, jwts, done)
      /\ untold' = (left \ done) \cup {None}
      /\ LeavesStale(old, new, (left \ done) \cup {None})
      /\ authzClient' = authzClient /\ authzJwt' = authzJwt
  BY DEF Abandon
<1>2. Pending' = {} /\ ~Moving'
  BY <1>1 DEF Pending, Moving
<1>3. ReloadInv'
  BY <1>1, <1>2 DEF ReloadInv
<1>4. ASSUME NEW m \in CpName PROVE CpSettled(new, cpClient, cpJwt, m)'
  <2> DEFINE missed == (left \ done) \cup {None}
  <2>1. \A n \in CpName : n \in missed <=> n \in left \ done
    BY <1>0
  <2>2. CpMoving(old, new, left, cps, jwts, m) /\ LeavesStale(old, new, missed)
    BY <1>1 DEF Underway
  <2> HIDE DEF missed
  <2> QED
    BY <1>1, <2>1, <2>2, ReloadEnds
<1>5. cpClient' = [m \in CpName |-> cpClient'[m]] /\ cpJwt' \in JwtType
  BY <1>1, AuthorizedTyped DEF Connected, Underway
<1>6. stale' \subseteq Upstream /\ untold' \subseteq Upstream
  BY <1>0, <1>1 DEF LeavesStale, Upstream
<1>7. None \notin stale' => AuthzAs(new, authzClient)
  BY <1>1 DEF LeavesStale, AuthzChanged, AuthzAs, Underway
<1>8. \A m \in CpName : CpSettled(config, cpClient, cpJwt, m)'
  BY <1>4 DEF CpSettled, CpAs
<1> QED
  BY <1>1, <1>2, <1>3, <1>5, <1>6, <1>7, <1>8 DEF NodeInv, AuthzAs, Underway

LEMMA FinishKeeps ==
    ASSUME NEW old \in Configs, NEW new \in Configs, NEW cps, NEW jwts, NEW k \in Nat,
           NEW left \in SUBSET CpNames(new), Underway(old, new, left, cps, jwts),
           config' = new, prev' = old, reloads' = k,
           FinishControlplanes(old, new, cps, jwts, left, k)
    PROVE  ReloadInv' /\ NodeInv'
<1>0. CpNames(new) \subseteq CpName /\ None \notin CpName
  BY ConfigTypes, NoneIsNoName
<1>1. /\ at' = None /\ removing' = {} /\ adding' = {}
      /\ cpClient' = Connected(old, new, cps, left, k)
      /\ cpJwt' = Authorized(old, new, jwts, left)
      /\ authzClient' = IF AuthzChanged(old, new) THEN AuthzClientOf(new, k)
                        ELSE authzClient
      /\ LeavesStale(old, new, {})
      /\ \/ stage' = "authz" /\ untold' = {None} /\ authzJwt' = authzJwt
         \/ stage' = "idle" /\ untold' = {} /\ authzJwt' = new.authzToken
  BY DEF FinishControlplanes, StoreAuthzToken
<1>2. Pending' = {} /\ ~Moving'
  BY <1>1 DEF Pending, Moving
<1>3. ReloadInv'
  BY <1>1, <1>2 DEF ReloadInv
<1>4. ASSUME NEW m \in CpName PROVE CpSettled(new, cpClient, cpJwt, m)'
  <2>1. CpMoving(old, new, left, cps, jwts, m) /\ left \ left \subseteq untold'
    BY DEF Underway
  <2>2. \A n \in CpName : n \in {} <=> n \in left \ left
    OBVIOUS
  <2> QED
    BY <1>1, <2>1, <2>2, ReloadEnds
<1>5. cpClient' = [m \in CpName |-> cpClient'[m]] /\ cpJwt' \in JwtType
  BY <1>1, AuthorizedTyped DEF Connected, Underway
<1>6. stale' \subseteq Upstream /\ untold' \subseteq Upstream
  BY <1>0, <1>1 DEF LeavesStale, Upstream
<1>7. None \notin stale' => AuthzAs(new, authzClient')
  <2>1. CASE AuthzChanged(old, new)
    BY <1>1, <2>1, NewClients
  <2>2. CASE ~AuthzChanged(old, new)
    BY <1>1, <2>2 DEF LeavesStale, AuthzChanged, AuthzAs, Underway
  <2> QED
    BY <2>1, <2>2
<1>8. authzJwt' \in NodeToken
  BY <1>1, ConfigTokens DEF Underway
<1>9. \A m \in CpName : CpSettled(config, cpClient, cpJwt, m)'
  BY <1>4 DEF CpSettled, CpAs
<1> QED
  BY <1>1, <1>2, <1>3, <1>5, <1>6, <1>7, <1>8, <1>9 DEF NodeInv, AuthzAs

(* However the reload goes on, up to its next suspension it leaves every     *)
(* controlplane with what one of the two configurations says.                *)
LEMMA OnwardKeeps ==
    ASSUME NEW old \in Configs, NEW new \in Configs, NEW cps, NEW jwts, NEW k \in Nat,
           NEW gone \in SUBSET (CpName \ CpNames(new)), NEW left \in SUBSET CpNames(new),
           Underway(old, new, gone \cup left, cps, jwts),
           config' = new, prev' = old, reloads' = k,
           Onward(old, new, cps, jwts, gone, left, k)
    PROVE  ReloadInv' /\ NodeInv'
<1>1. CASE \E n \in gone : Remove(n, cps, jwts, gone, left)
  BY <1>1, RemoveKeeps
<1>2. ASSUME gone = {} PROVE Underway(old, new, left, cps, jwts)
  <2>1. gone \cup left = left
    BY <1>2
  <2> QED
    BY <2>1
<1>3. CASE gone = {} /\ \E n \in left : \E done \in SUBSET (left \ {n}) :
                            Replace(old, new, n, done, cps, jwts, left, k)
  BY <1>2, <1>3, ReplaceKeeps
<1>4. CASE gone = {} /\ \E done \in SUBSET left : Abandon(old, new, done, cps, jwts, left, k)
  BY <1>2, <1>4, AbandonKeeps
<1>5. CASE gone = {} /\ FinishControlplanes(old, new, cps, jwts, left, k)
  BY <1>2, <1>5, FinishKeeps
<1> QED
  BY <1>1, <1>3, <1>4, <1>5 DEF Onward, Replaced

LEMMA ReloadKeeps ==
    ASSUME ReloadInv, NodeInv, (\E new \in Configs : Reload(new)) \/ ResumeReload
    PROVE  ReloadInv' /\ NodeInv'
<1>1. ASSUME NEW new \in Configs, Reload(new) PROVE ReloadInv' /\ NodeInv'
  <2> DEFINE gone == {n \in CpName : cpClient[n] # None} \ CpNames(new)
  <2>1. /\ stage = "idle" /\ config' = new /\ prev' = config /\ config \in Configs
        /\ Onward(config, new, cpClient, cpJwt, gone, CpNames(new), reloads + 1)
        /\ reloads' = reloads + 1 /\ reloads + 1 \in Nat
    BY <1>1 DEF Reload, ReloadInv
  <2>2. \A n \in CpName : CpSettled(config, cpClient, cpJwt, n)
    BY <2>1 DEF NodeInv, Moving
  <2>3. ASSUME NEW n \in CpName
        PROVE  CpMoving(config, new, gone \cup CpNames(new), cpClient, cpJwt, n)
    BY <2>2 DEF CpMoving, CpSettled, CpAs
  <2>4. gone \in SUBSET (CpName \ CpNames(new))
    OBVIOUS
  <2> HIDE DEF gone
  <2>5. Underway(config, new, gone \cup CpNames(new), cpClient, cpJwt)
    BY <2>1, <2>3 DEF NodeInv, Moving, Underway
  <2> QED
    BY <2>1, <2>4, <2>5, OnwardKeeps
<1>2. ASSUME ResumeReload, stage = "removing" PROVE ReloadInv' /\ NodeInv'
  <2>1. /\ Onward(prev, config, cpClient, cpJwt, removing, adding, reloads)
        /\ config' = config /\ prev' = prev /\ reloads' = reloads
    BY <1>2 DEF ResumeReload
  <2>2. Pending = removing \cup adding
    BY <1>2 DEF ReloadInv, Pending
  <2>3. Underway(prev, config, removing \cup adding, cpClient, cpJwt)
    BY <1>2, <2>2 DEF NodeInv, Moving, Underway
  <2> QED
    BY <2>1, <2>3, OnwardKeeps DEF ReloadInv
<1>a. ASSUME stage = "adding"
      PROVE  /\ Pending = adding \cup {at} /\ at \in CpNames(config) \ adding
             /\ adding \cup {at} \subseteq CpNames(config)
             /\ Underway(prev, config, adding \cup {at}, cpClient, cpJwt)
  <2>1. /\ Pending = adding \cup {at} /\ at \in CpNames(config) \ adding
        /\ adding \subseteq CpNames(config)
    BY <1>a DEF ReloadInv, Pending
  <2> QED
    BY <1>a, <2>1 DEF NodeInv, Moving, Underway
<1>3. ASSUME ResumeReload, stage = "adding", UrlOf(config, at) \notin Malformed
      PROVE  ReloadInv' /\ NodeInv'
  <2> DEFINE cps == Connected(prev, config, cpClient, {at}, reloads)
             jwts == Authorized(prev, config, cpJwt, {at})
  <2>1. /\ Onward(prev, config, cps, jwts, {}, adding, reloads)
        /\ config' = config /\ prev' = prev /\ reloads' = reloads
    BY <1>3 DEF ResumeReload
  <2>2. config \in Configs /\ prev \in Configs /\ reloads \in Nat
    BY DEF ReloadInv
  <2>3. cps = [n \in CpName |-> cps[n]] /\ jwts \in JwtType
    BY <2>2, AuthorizedTyped DEF Connected, NodeInv
  <2>4. ASSUME NEW n \in CpName
        PROVE  CpMoving(prev, config, adding, cps, jwts, n)
    <3>0. CpMoving(prev, config, adding \cup {at}, cpClient, cpJwt, n)
      BY <1>3, <1>a DEF Underway
    <3>1. CASE n = at
      <4>1. CpAs(prev, cpClient, cpJwt, n, n \notin stale, n \notin untold)
        BY <1>3, <1>a, <3>0, <3>1 DEF CpMoving, CpAs
      <4>2. CpAs(config, cps, jwts, n, n \notin stale \/ Changed(prev, config, n), TRUE)
        BY <1>3, <1>a, <2>2, <3>1, <4>1, Reconnected
      <4> HIDE DEF cps, jwts
      <4> QED
        BY <1>3, <1>a, <3>1, <4>2 DEF CpMoving, CpAs
    <3>2. CASE n # at
      <4>1. cps[n] = cpClient[n] /\ jwts[n] = cpJwt[n]
        BY <3>2 DEF Connected, Authorized
      <4> HIDE DEF cps, jwts
      <4> QED
        BY <3>0, <3>2, <4>1 DEF CpMoving, CpAs
    <3> QED
      BY <3>1, <3>2
  <2> HIDE DEF cps, jwts
  <2>5. Underway(prev, config, {} \cup adding, cps, jwts)
    <3>1. {} \cup adding = adding
      OBVIOUS
    <3> QED
      BY <1>3, <1>a, <2>3, <2>4, <3>1 DEF Underway
  <2>6. adding \in SUBSET CpNames(config)
    BY <1>3, <1>a
  <2> QED
    BY <2>1, <2>2, <2>5, <2>6, OnwardKeeps
<1>4. ASSUME ResumeReload, stage = "adding", UrlOf(config, at) \in Malformed
      PROVE  ReloadInv' /\ NodeInv'
  <2>1. /\ Abandon(prev, config, {}, cpClient, cpJwt, adding \cup {at}, reloads)
        /\ config' = config /\ prev' = prev /\ reloads' = reloads
    BY <1>4 DEF ResumeReload
  <2> QED
    BY <1>4, <1>a, <2>1, AbandonKeeps DEF ReloadInv
<1>5. ASSUME ResumeReload, stage = "authz" PROVE ReloadInv' /\ NodeInv'
  <2>1. /\ stage' = "idle" /\ untold' = {} /\ authzJwt' = config.authzToken
        /\ UNCHANGED <<config, prev, reloads, at, removing, adding, stale, cpClient, cpJwt,
                       authzClient>>
    BY <1>5 DEF ResumeReload, StoreAuthzToken
  <2>2. Pending' = Pending /\ ~Moving /\ ~Moving' /\ untold = {None}
    BY <1>5, <2>1 DEF Pending, Moving, ReloadInv
  <2>3. ReloadInv'
    BY <1>5, <2>1, <2>2 DEF ReloadInv
  <2>4. \A n \in CpName : CpSettled(config, cpClient, cpJwt, n)'
    BY <2>1, <2>2, NoneIsNoName DEF NodeInv, CpSettled, CpAs
  <2>5. authzJwt' \in NodeToken
    BY <2>1, ConfigTokens DEF ReloadInv
  <2> QED
    BY <2>1, <2>2, <2>3, <2>4, <2>5 DEF NodeInv, AuthzAs, Upstream
<1> QED
  BY <1>1, <1>2, <1>3, <1>4, <1>5 DEF ResumeReload
-----------------------------------------------------------------------------
(* The registry of ProxyClients is an instance of RouteRegistry; what it     *)
(* means by an operator of RouteTable is what this module means by it.       *)
LEMMA SameRanked ==
    ASSUME NEW s, NEW I, NEW before
    PROVE  Registry!Ranked(s, I, before) = Ranked(s, I, before)
BY DEF Ranked, Rank, Cardinality, Registry!Ranked, Registry!Rank, Registry!Cardinality

LEMMA SameKeep ==
    ASSUME NEW s, NEW I
    PROVE  Registry!Keep(s, I) = Keep(s, I)
BY SameRanked DEF Keep, Position, Registry!Keep, Registry!Position

LEMMA SameSort ==
    ASSUME NEW s
    PROVE  Registry!Sort(s) = Sort(s)
BY SameRanked DEF Sort, Longest, PrefixLen, Cardinality, Registry!Sort, Registry!Longest,
                  Registry!PrefixLen, Registry!Cardinality

LEMMA SameConfigRoutes ==
    ASSUME NEW c
    PROVE  Registry!ConfigRoutes(c) = ConfigRoutes(c)
BY DEF ConfigRoutes, CpRoutes, CpRoute, AuthzRoutes, AuthzRoute, AuthzPrefixesOf,
       Registry!ConfigRoutes, Registry!CpRoutes, Registry!CpRoute, Registry!AuthzRoutes,
       Registry!AuthzRoute, Registry!AuthzPrefixesOf

LEMMA SameAgentPart ==
    ASSUME NEW t, NEW http
    PROVE  Registry!AgentPart(t, http) = AgentPart(t, http)
BY SameKeep DEF AgentPart, Registry!AgentPart

LEMMA SameWithout ==
    ASSUME NEW t, NEW a
    PROVE  Registry!Without(t, a) = Without(t, a)
BY SameKeep DEF Without, WithoutAgents, Registry!Without, Registry!WithoutAgents

LEMMA SameAccepted ==
    ASSUME NEW t, NEW cpPs, NEW authzPs, NEW decls
    PROVE  Registry!Accepted(t, cpPs, authzPs, decls) = Accepted(t, cpPs, authzPs, decls)
BY DEF Accepted, Valid, OverlapsAny, Overlaps, Under, Slashed, EmptyPath, Root, RootStar,
       PrefixesIn, Elements, Registry!Accepted, Registry!Valid, Registry!OverlapsAny,
       Registry!Overlaps, Registry!Under, Registry!Slashed, Registry!EmptyPath,
       Registry!Root, Registry!RootStar, Registry!PrefixesIn, Registry!Elements,
       Below, Bare, Registry!Below, Registry!Bare

LEMMA SameExtend ==
    ASSUME NEW t, NEW cpPs, NEW authzPs, NEW a, NEW transport, NEW target, NEW decls
    PROVE  Registry!Extend(t, cpPs, authzPs, a, transport, target, decls) =
               Extend(t, cpPs, authzPs, a, transport, target, decls)
BY SameSort, SameKeep, SameAccepted DEF Extend, AgentRoute, Registry!Extend,
                                        Registry!AgentRoute
-----------------------------------------------------------------------------
(* The entries a configuration contributes name its controlplanes.           *)
LEMMA ConfigRoutesNamed ==
    ASSUME NEW c \in ConfigType
    PROVE  /\ ConfigRoutes(c) \in Table
           /\ \A r \in Elements(ConfigRoutes(c)) : r.dest = "controlplane" => r.cp \in CpName
<1> DEFINE u == CpRoutes(c.cps)
           v == AuthzRoutes(c.authz.url, AuthzPrefixesOf(c))
<1>1. /\ c.cps \in Seq(CpType) /\ c.authz.url \in Target \cup {None}
      /\ c.authz.prefixes \in Seq(PathType)
  BY DEF ConfigType
<1>2. AuthzPrefixesOf(c) \in Seq(PathType) /\ (c.authz.url = None => AuthzPrefixesOf(c) = <<>>)
  BY <1>1 DEF AuthzPrefixesOf
<1>3. u \in Table
  BY <1>1, CpRoutesTable
<1>4. v \in Table /\ \A r \in Elements(v) : r.dest = "authz"
  BY <1>1, <1>2, AuthzRoutesTable
<1>5. ASSUME NEW r \in Elements(u) PROVE r.cp \in CpName
  <2>1. PICK i \in 1..Len(c.cps) : r = CpRoute(c.cps[i])
    BY <1>1 DEF Elements, CpRoutes
  <2>2. c.cps[i] \in CpType
    BY <1>1
  <2> QED
    BY <2>1, <2>2 DEF CpRoute, CpType
<1> HIDE DEF u, v
<1>6. u \o v \in Table /\ Elements(u \o v) = Elements(u) \cup Elements(v)
  BY <1>3, <1>4, AppendTable
<1>7. ConfigRoutes(c) = u \o v
  BY DEF ConfigRoutes, u, v
<1> QED
  BY <1>4, <1>5, <1>6, <1>7

\* the entries for controlplanes name them
Named(t) == t \in Table /\ \A r \in Elements(t) : r.dest = "controlplane" => r.cp \in CpName

LEMMA KeptNamed ==
    ASSUME NEW t, Named(t), NEW I \in SUBSET DOMAIN t
    PROVE  Named(Keep(t, I))
<1>1. Keep(t, I) \in Table /\ Elements(Keep(t, I)) = {t[i] : i \in I}
  BY KeepTable DEF Named
<1>2. Elements(Keep(t, I)) \subseteq Elements(t)
  BY <1>1 DEF Elements
<1> QED
  BY <1>1, <1>2 DEF Named

LEMMA AgentPartNamed ==
    ASSUME NEW t, Named(t), NEW http
    PROVE  Named(AgentPart(t, http))
<1> DEFINE I == {i \in DOMAIN t : t[i].dest = "agent" /\ (http \/ t[i].transport # "http")}
<1>1. I \in SUBSET DOMAIN t
  OBVIOUS
<1>2. AgentPart(t, http) = Keep(t, I)
  BY DEF AgentPart
<1> HIDE DEF I
<1> QED
  BY <1>1, <1>2, KeptNamed

LEMMA WithoutNamed ==
    ASSUME NEW t, Named(t), NEW a
    PROVE  Named(Without(t, a))
<1> DEFINE I == {i \in DOMAIN t : t[i].agent \notin {a}}
<1>1. I \in SUBSET DOMAIN t
  OBVIOUS
<1>2. Without(t, a) = Keep(t, I)
  BY DEF Without, WithoutAgents
<1> HIDE DEF I
<1> QED
  BY <1>1, <1>2, KeptNamed

LEMMA RoutesStart ==
    ASSUME NEW c \in ConfigType, Registry!InitWith(c)
    PROVE  RoutesInv
<1> DEFINE u == ConfigRoutes(c)
<1>1. routes = Sort(u)
  BY SameSort, SameConfigRoutes DEF Registry!InitWith
<1>2. u \in Table /\ \A r \in Elements(u) : r.dest = "controlplane" => r.cp \in CpName
  BY ConfigRoutesNamed
<1> HIDE DEF u
<1>3. routes \in Table /\ Elements(routes) = Elements(u)
  BY <1>1, <1>2, SortSorts
<1> QED
  BY <1>2, <1>3 DEF RoutesInv

LEMMA RoutesKept ==
    ASSUME RoutesInv,
           \/ \E new \in Configs : Registry!OnConfigChange(new.routing)
           \/ DiscoveryUpdates
    PROVE  RoutesInv'
<1>0. Named(routes)
  BY DEF RoutesInv, Named
<1>1. ASSUME NEW new \in Configs, Registry!OnConfigChange(new.routing) PROVE RoutesInv'
  <2> DEFINE t == AgentPart(routes, new.routing.http)
             u == ConfigRoutes(new.routing)
  <2>1. Named(t)
    BY <1>0, AgentPartNamed
  <2>2. Named(u)
    BY ConfigTypes, ConfigRoutesNamed DEF Named
  <2>3. routes' = Sort(t \o u)
    BY <1>1, SameSort, SameConfigRoutes, SameAgentPart DEF Registry!OnConfigChange
  <2> HIDE DEF t, u
  <2>4. t \o u \in Table /\ Elements(t \o u) = Elements(t) \cup Elements(u)
    BY <2>1, <2>2, AppendTable DEF Named
  <2>5. routes' \in Table /\ Elements(routes') = Elements(t \o u)
    BY <2>3, <2>4, SortSorts
  <2> QED
    BY <2>1, <2>2, <2>4, <2>5 DEF RoutesInv, Named
<1>2. ASSUME NEW a \in Agent, NEW e \in Endpoints, NEW decls \in Declarations,
             Registry!ReplaceAgentRoutes(a, e.transport, e.address, decls)
      PROVE  RoutesInv'
  <2> DEFINE t == Without(routes, a)
  <2>1. Named(t)
    BY <1>0, WithoutNamed
  <2>2. /\ e.transport \in Transport /\ e.address \in Target
        /\ decls \in DeclarationList
    <3>1. e \in [transport: Transport, address: Target \ Malformed]
      BY ProxyConstants
    <3>2. decls \in DeclarationList
      BY ProxyConstants DEF DeclarationList
    <3> QED
      BY <3>1, <3>2
  <2>3. routes' = Extend(t, cpPrefixes, authzPrefixes, a, e.transport, e.address, decls)
    BY <1>2, SameExtend, SameWithout DEF Registry!ReplaceAgentRoutes
  <2> HIDE DEF t
  <2>4. /\ routes' \in Table
        /\ \E new \in SUBSET RouteType :
              /\ Elements(routes') = Elements(t) \cup new
              /\ \A r \in new : Admitted(r, t, cpPrefixes, authzPrefixes, a,
                                        e.transport, e.address, decls)
    BY <2>1, <2>2, <2>3, ExtendExtends DEF Named
  <2>5. \A r \in Elements(routes') : r \in Elements(t) \/ r.dest = "agent"
    BY <2>4 DEF Admitted
  <2> QED
    BY <2>1, <2>4, <2>5 DEF RoutesInv, Named
<1>3. ASSUME NEW a \in Agent, Registry!DeregisterAgent(a) PROVE RoutesInv'
  <2>1. Named(Without(routes, a))
    BY <1>0, WithoutNamed
  <2> QED
    BY <1>3, <2>1, SameWithout DEF Registry!DeregisterAgent, RoutesInv, Named
<1> QED
  BY <1>1, <1>2, <1>3 DEF DiscoveryUpdates

(* A request is routed by an entry of the table, or by none.                 *)
LEMMA RoutedByAnEntry ==
    ASSUME RoutesInv, NEW p
    PROVE  \/ Lookup(routes, p) = None
           \/ /\ Lookup(routes, p) \in RouteType
              /\ Lookup(routes, p).dest = "controlplane" => Lookup(routes, p).cp \in CpName
<1>1. CASE Hits(routes, p) = {}
  BY <1>1 DEF Lookup
<1>2. CASE Hits(routes, p) # {}
  <2>1. PICK m \in Hits(routes, p) : Lookup(routes, p) = routes[m]
    BY <1>2, LookupFirst DEF RoutesInv
  <2>2. Lookup(routes, p) \in Elements(routes)
    BY <2>1 DEF Hits, Elements
  <2>3. Elements(routes) \subseteq RouteType
    BY DEF RoutesInv, Table, Elements
  <2> QED
    BY <2>2, <2>3 DEF RoutesInv
<1> QED
  BY <1>1, <1>2
-----------------------------------------------------------------------------
(* Nothing of a reload changes when the managers' variables do not.          *)
LEMMA ManagersStay ==
    ASSUME ReloadInv, NodeInv, UNCHANGED <<config, reloads, nodes, reload>>
    PROVE  ReloadInv' /\ NodeInv'
<1>1. UNCHANGED <<config, reloads, cpClient, cpJwt, authzClient, authzJwt, prev, stage, at,
                  removing, adding, stale, untold>>
  BY DEF nodes, reload, behind
<1>2. Pending' = Pending /\ Moving' = Moving
  BY <1>1 DEF Pending, Moving
<1>3. ReloadInv'
  BY <1>1, <1>2 DEF ReloadInv
<1> QED
  BY <1>1, <1>2, <1>3 DEF NodeInv, AuthzAs, CpMoving, CpSettled, CpAs, Changed

LEMMA RoutesStay ==
    ASSUME RoutesInv, UNCHANGED table
    PROVE  RoutesInv'
BY DEF RoutesInv, table

LEMMA BlankIsFormed == Formed(Blank) /\ Blank.sent = None
BY DEF Formed, Field, Blank

LEMMA DispatchInit == Init => DispatchInv
<1> SUFFICES ASSUME Init PROVE DispatchInv
  OBVIOUS
<1>1. /\ config \in Configs /\ prev = config /\ stage = "idle" /\ reloads = 0
      /\ removing = {} /\ adding = {} /\ at = None
      /\ cpClient = [n \in CpName |-> IF n \in CpNames(config)
                                      THEN CpClientOf(config, n, 0) ELSE None]
      /\ cpJwt = [n \in CpName |-> IF n \in CpNames(config)
                                   THEN config.token[n] ELSE None]
      /\ authzClient = AuthzClientOf(config, 0) /\ authzJwt = config.authzToken
      /\ Registry!InitWith(config.routing) /\ stale = {} /\ untold = {}
  BY ProxyConstants DEF Init, InitClients
<1>2. ReloadInv /\ Pending = {} /\ ~Moving
  BY <1>1 DEF ReloadInv, Pending, Moving
<1>3. \A n \in CpName : CpSettled(config, cpClient, cpJwt, n)
  <2>1. \A n \in CpNames(config) : CpClientOf(config, n, 0) # None
    BY <1>1, NewClients, ProxyConstants
  <2> QED
    BY <1>1, <2>1 DEF CpSettled, CpAs, CpClientOf
<1>4. AuthzAs(config, authzClient)
  BY <1>1, NewClients
<1>t. cpJwt \in JwtType /\ authzJwt \in NodeToken
  BY <1>1, ConfigTypes, ConfigTokens DEF JwtType
<1>5. NodeInv
  BY <1>1, <1>2, <1>3, <1>4, <1>t DEF NodeInv
<1>6. RoutesInv
  BY <1>1, ConfigTypes, RoutesStart
<1>7. RequestsInv
  BY BlankIsFormed DEF Init, RequestsInv, RequestInv
<1> QED
  BY <1>2, <1>5, <1>6, <1>7 DEF DispatchInv
-----------------------------------------------------------------------------
(* One request moves; the others stay as they are.                           *)
LEMMA RequestMoves ==
    ASSUME RequestsInv, NEW t \in Request, NEW to, NEW q,
           pc' = [pc EXCEPT ![t] = to], req' = [req EXCEPT ![t] = q],
           Formed(q),
           to = "validating" => Validating(q),
           to = "reading" => Reading(q),
           to = "sending" => Sending(q),
           to \notin {"validating", "reading", "sending"} => q = Blank
    PROVE  RequestsInv'
<1>1. pc' = [u \in Request |-> pc'[u]] /\ req' = [u \in Request |-> req'[u]]
  BY DEF RequestsInv
<1>2. pc'[t] = to /\ req'[t] = q
  BY DEF RequestsInv
<1>3. RequestInv(t)'
  BY <1>2 DEF RequestInv
<1>4. ASSUME NEW u \in Request, u # t PROVE RequestInv(u)'
  <2>1. pc'[u] = pc[u] /\ req'[u] = req[u]
    BY <1>4 DEF RequestsInv
  <2> QED
    BY <2>1 DEF RequestsInv, RequestInv
<1> QED
  BY <1>1, <1>3, <1>4 DEF RequestsInv

LEMMA ReplyMoves ==
    ASSUME RequestsInv, NEW t \in Request, NEW status, Reply(t, status)
    PROVE  RequestsInv'
BY RequestMoves, BlankIsFormed DEF Reply

\* q, once it is given a client and headers
Held(q, c, more) == [q EXCEPT !.client = c, !.extra = more, !.behind = LeftBehind(q.route)]

(* It keeps its other fields.                                                *)
LEMMA HeldRecord ==
    ASSUME NEW q, Formed(q), NEW c, NEW more
    PROVE  /\ Formed(Held(q, c, more))
           /\ Held(q, c, more).path = q.path /\ Held(q, c, more).local = q.local
           /\ Held(q, c, more).headers = q.headers /\ Held(q, c, more).route = q.route
           /\ Held(q, c, more).sent = q.sent /\ Held(q, c, more).seen = q.seen
           /\ Held(q, c, more).client = c /\ Held(q, c, more).extra = more
           /\ Held(q, c, more).issuer = q.issuer
           /\ Held(q, c, more).behind = LeftBehind(q.route)
BY DEF Formed, Field, Held

LEMMA HoldMoves ==
    ASSUME RequestsInv, NEW t \in Request, NEW q, Formed(q), q.sent = None,
           NEW c, NEW more, Hold(t, q, c, more), Prepared(Held(q, c, more))
    PROVE  RequestsInv'
<1>1. pc' = [pc EXCEPT ![t] = "reading"] /\ req' = [req EXCEPT ![t] = Held(q, c, more)]
  BY DEF Hold, Go, Held
<1>2. Formed(Held(q, c, more)) /\ Reading(Held(q, c, more))
  BY HeldRecord DEF Reading
<1> QED
  BY <1>1, <1>2, RequestMoves

\* a request that arrives
Arrived(p, l, h, r, i, s) ==
    [Blank EXCEPT !.path = p, !.local = l, !.headers = h, !.route = r, !.issuer = i,
                  !.seen = s]

LEMMA ArrivedRecord ==
    ASSUME NEW p, NEW l, NEW h, NEW r, NEW i, NEW s, NEW q, q = Arrived(p, l, h, r, i, s)
    PROVE  /\ Formed(q)
           /\ q.path = p /\ q.local = l /\ q.headers = h /\ q.route = r
           /\ q.issuer = i /\ q.seen = s /\ q.sent = None
           /\ q.client = None /\ q.extra = Blank.extra
<1>1. Blank.client = None
  BY DEF Blank
<1> QED
  BY <1>1, BlankIsFormed DEF Formed, Field, Arrived

LEMMA ArrivedBehind ==
    ASSUME NEW p, NEW l, NEW h, NEW r, NEW i, NEW s
    PROVE  Arrived(p, l, h, r, i, s).behind \in BOOLEAN
<1>1. Arrived(p, l, h, r, i, s).behind = Blank.behind
  BY BlankIsFormed DEF Formed, Field, Arrived
<1>2. Blank.behind \in BOOLEAN
  BY DEF Blank
<1> QED
  BY <1>1, <1>2
-----------------------------------------------------------------------------
(* What a local request to a controlplane is given is of one configuration,  *)
(* but for what was left behind.                                             *)
LEMMA LocalToControlplane ==
    ASSUME ReloadInv, NodeInv, RequestsInv, NEW t \in Request, NEW q, Formed(q),
           q.sent = None, q.seen = InForce, q.route.dest = "controlplane",
           q.route.cp \in CpName,
           ToControlplane(t, q, Authorization(Orr(cpJwt[q.route.cp])))
    PROVE  RequestsInv'
<1> DEFINE n == q.route.cp
           more == Authorization(Orr(cpJwt[n]))
           h == Held(q, cpClient[n], more)
<1>1. CASE cpClient[n] = None
  BY <1>1, ReplyMoves DEF ToControlplane
<1>2. CASE cpClient[n] # None
  <2>0. /\ h.route = q.route /\ h.seen = q.seen /\ h.client = cpClient[n]
        /\ h.extra = more /\ h.behind = LeftBehind(q.route)
    BY HeldRecord
  <2>1. Hold(t, q, cpClient[n], more)
    BY <1>2 DEF ToControlplane
  <2>2. CASE n \in stale \cup untold
    <3>1. h.behind
      BY <2>0, <2>2 DEF LeftBehind
    <3>2. Prepared(h)
      BY <2>0, <3>1 DEF Prepared
    <3> QED
      BY <2>1, <3>2, HoldMoves
  <2>3. CASE n \notin stale \cup untold
    <3> DEFINE c == IF Moving /\ n \in Pending THEN prev ELSE config
    <3>1. c \in InForce /\ c \in Configs
      BY DEF InForce, ReloadInv, Moving
    <3>2. n \in CpNames(c) /\ cpClient[n].base = UrlOf(c, n) /\ cpJwt[n] = c.token[n]
      BY <1>2, <2>3 DEF NodeInv, CpMoving, CpSettled, CpAs
    <3> HIDE DEF c
    <3>3. c.token[n] \in NodeToken
      BY <3>1, ConfigTypes
    <3>4. Orr(cpJwt[n]) = c.token[n]
      BY <3>2, <3>3, DispatchConstants DEF Orr
    <3>5. h.extra = Authorization(c.token[n])
      BY <2>0, <3>4
    <3> HIDE DEF h
    <3>6. Prepared(h)
      BY <2>0, <3>1, <3>2, <3>5 DEF Prepared, Matched
    <3> QED
      BY <2>1, <3>6, HoldMoves DEF h
  <2> QED
    BY <2>2, <2>3
<1> QED
  BY <1>1, <1>2

(* So is what a request to the authz server is given.                        *)
LEMMA LocalToAuthz ==
    ASSUME ReloadInv, NodeInv, RequestsInv, NEW t \in Request, NEW q, Formed(q),
           q.sent = None, q.seen = InForce, q.route.dest = "authz", q.local,
           ToAuthz(t, q)
    PROVE  RequestsInv'
<1> DEFINE h == Held(q, authzClient, Authorization(authzJwt))
<1>1. CASE authzClient = None
  BY <1>1, ReplyMoves DEF ToAuthz
<1>2. CASE authzClient # None
  <2>0. /\ h.route = q.route /\ h.seen = q.seen /\ h.client = authzClient /\ h.local
        /\ h.extra = Authorization(authzJwt) /\ h.behind = LeftBehind(q.route)
    BY HeldRecord
  <2>1. Hold(t, q, authzClient, Authorization(authzJwt))
    BY <1>2 DEF ToAuthz
  <2>2. CASE None \in stale \cup untold
    <3>1. h.behind
      BY <2>0, <2>2 DEF LeftBehind
    <3>2. Prepared(h)
      BY <2>0, <3>1 DEF Prepared
    <3> QED
      BY <2>1, <3>2, HoldMoves
  <2>3. CASE None \notin stale \cup untold
    <3> DEFINE c == IF Moving THEN prev ELSE config
    <3>1. c \in InForce
      BY DEF InForce, Moving
    <3>2. authzClient.base = AuthzUrl(c) /\ authzJwt = c.authzToken
      BY <1>2, <2>3 DEF NodeInv, AuthzAs
    <3> HIDE DEF c, h
    <3>3. Prepared(h)
      BY <2>0, <3>1, <3>2 DEF Prepared, OneAuthz
    <3> QED
      BY <2>1, <3>3, HoldMoves DEF h
  <2> QED
    BY <2>2, <2>3
<1> QED
  BY <1>1, <1>2

(* The headers a request to an agent is given say who the caller is.         *)
LEMMA AgentIsTold ==
    ASSUME RequestsInv, NEW t \in Request, NEW q, Formed(q), q.sent = None,
           q.route.dest = "agent", NEW more, ToAgent(t, q, more), Vouches(q, more)
    PROVE  RequestsInv'
<1> DEFINE client == AgentClient(q.route.target)
           h == Held(q, client, more)
<1>1. Hold(t, q, client, more)
  BY DEF ToAgent
<1> HIDE DEF client
<1>2. /\ h.route = q.route /\ h.seen = q.seen /\ h.extra = more
      /\ h.local = q.local /\ h.headers = q.headers /\ h.path = q.path
  BY HeldRecord
<1> HIDE DEF h
<1>3. Whitelisted(h) = Whitelisted(q)
  BY <1>2 DEF Whitelisted
<1>4. Vouched(h)
  BY <1>2, <1>3 DEF Vouched, Vouches
<1>5. Prepared(h)
  BY <1>2, <1>4 DEF Prepared
<1> QED
  BY <1>1, <1>5, HoldMoves DEF h

LEMMA ArriveStep ==
    ASSUME DispatchInv, NEW t \in Request, NEW p \in Paths, NEW l \in BOOLEAN,
           NEW hs \in Inbound, Arrive(t, p, l, hs)
    PROVE  DispatchInv'
<1> DEFINE q == Arrived(p, l, hs, Lookup(routes, p), config.issuer, InForce)
<1>1. /\ IF q.route = None THEN Reply(t, "404") /\ ClientsUnchanged
         ELSE IF l THEN DispatchLocal(t, q) ELSE DispatchExternal(t, q)
      /\ UNCHANGED <<config, reloads, table, nodes, reload>>
  BY DEF Arrive, InForce, Arrived
<1>2. /\ Formed(q) /\ q.local = l /\ q.route = Lookup(routes, p)
      /\ q.issuer = config.issuer /\ q.seen = InForce /\ q.sent = None
  BY ArrivedRecord
<1> HIDE DEF q
<1>3. ReloadInv /\ NodeInv /\ RoutesInv /\ RequestsInv
  BY DEF DispatchInv
<1>4. \/ q.route = None
      \/ q.route \in RouteType /\ (q.route.dest = "controlplane" => q.route.cp \in CpName)
  BY <1>2, <1>3, RoutedByAnEntry
<1>5. CASE q.route = None
  BY <1>1, <1>3, <1>5, ReplyMoves, ManagersStay, RoutesStay DEF DispatchInv
<1>6. CASE q.route # None /\ l
  <2> SUFFICES RequestsInv'
    BY <1>1, <1>3, ManagersStay, RoutesStay DEF DispatchInv
  <2>1. DispatchLocal(t, q)
    BY <1>1, <1>6
  <2>2. CASE q.route.dest = "controlplane"
              /\ ToControlplane(t, q, Authorization(Orr(cpJwt[q.route.cp])))
    BY <1>2, <1>3, <1>4, <1>6, <2>2, LocalToControlplane
  <2>3. CASE q.route.dest = "authz" /\ ToAuthz(t, q)
    BY <1>2, <1>3, <1>6, <2>3, LocalToAuthz
  <2>4. CASE q.route.dest = "agent" /\ ToAgent(t, q, LocalHeaders)
    BY <1>2, <1>3, <1>6, <2>4, AgentIsTold DEF Vouches
  <2> QED
    BY <2>1, <2>2, <2>3, <2>4 DEF DispatchLocal
<1>7. CASE q.route # None /\ ~l
  <2> SUFFICES RequestsInv'
    BY <1>1, <1>3, ManagersStay, RoutesStay DEF DispatchInv
  <2>1. DispatchExternal(t, q)
    BY <1>1, <1>7
  <2>2. CASE Reply(t, "404")
    BY <1>3, <2>2, ReplyMoves
  <2>3. CASE q.route.dest = "agent" /\ Whitelisted(q) /\ ToAgent(t, q, ExternalHeaders(""))
    BY <1>2, <1>3, <1>7, <2>3, AgentIsTold DEF Vouches
  <2>4. CASE NeedsToken(q) /\ TokenIn(q.headers) = None /\ Reply(t, "401")
    BY <1>3, <2>4, ReplyMoves
  <2>5. CASE NeedsToken(q) /\ TokenIn(q.headers) # None /\ Go(t, "validating", q)
    <3>1. Validating(q)
      BY <1>2, <1>4, <1>7, <2>5 DEF Validating, InForce
    <3> QED
      BY <1>2, <1>3, <2>5, <3>1, RequestMoves DEF Go
  <2> QED
    BY <2>1, <2>2, <2>3, <2>4, <2>5 DEF DispatchExternal
<1> QED
  BY <1>5, <1>6, <1>7
-----------------------------------------------------------------------------
(* A genuine token is forwarded by the route that was looked up for it.      *)
LEMMA ValidatedStep ==
    ASSUME DispatchInv, NEW t \in Request, Validated(t)
    PROVE  DispatchInv'
<1> DEFINE q == req[t]
<1>1. /\ pc[t] = "validating"
      /\ Accepts(TokenIn(q.headers), q.issuer)
      /\ IF q.route.dest = "controlplane"
         THEN ToControlplane(t, q, Authorization(Orr(q.headers["authorization"])))
         ELSE ToAgent(t, q, ExternalHeaders(TokenIn(q.headers)))
      /\ UNCHANGED <<config, reloads, table, nodes, reload>>
  BY DEF Validated
<1>2. ReloadInv /\ NodeInv /\ RoutesInv /\ RequestsInv
  BY DEF DispatchInv
<1>3. Formed(q) /\ Validating(q)
  BY <1>1, <1>2 DEF RequestsInv, RequestInv
<1> SUFFICES RequestsInv'
  BY <1>1, <1>2, ManagersStay, RoutesStay DEF DispatchInv
<1> HIDE DEF q
<1>4. /\ ~q.local /\ q.sent = None
      /\ q.route.dest = "controlplane" \/ (q.route.dest = "agent" /\ ~Whitelisted(q))
  BY <1>3 DEF Validating, NeedsToken
<1>5. CASE q.route.dest = "controlplane"
  <2> DEFINE n == q.route.cp
             more == Authorization(Orr(q.headers["authorization"]))
  <2>1. ToControlplane(t, q, more)
    BY <1>1, <1>5
  <2> HIDE DEF more
  <2>2. CASE cpClient[n] = None
    BY <1>2, <2>1, <2>2, ReplyMoves DEF ToControlplane
  <2>3. CASE cpClient[n] # None
    <3> DEFINE client == cpClient[n]
               h == Held(q, client, more)
    <3>1. Hold(t, q, client, more)
      BY <2>1, <2>3 DEF ToControlplane
    <3> HIDE DEF client
    <3>2. h.route = q.route /\ h.local = q.local
      BY <1>3, HeldRecord
    <3> HIDE DEF h
    <3>3. Prepared(h)
      BY <1>4, <1>5, <3>2 DEF Prepared
    <3> QED
      BY <1>2, <1>3, <1>4, <3>1, <3>3, HoldMoves DEF h
  <2> QED
    BY <2>2, <2>3
<1>6. CASE q.route.dest = "agent" /\ ~Whitelisted(q)
  <2>1. ToAgent(t, q, ExternalHeaders(TokenIn(q.headers)))
    BY <1>1, <1>6
  <2>2. Vouches(q, ExternalHeaders(TokenIn(q.headers)))
    BY <1>1, <1>3, <1>4, <1>6 DEF Vouches, Accepts, Validating
  <2> QED
    BY <1>2, <1>3, <1>4, <1>6, <2>1, <2>2, AgentIsTold
<1> QED
  BY <1>4, <1>5, <1>6

\* q, once it is sent
Sent(q, s) == [q EXCEPT !.sent = s]

(* It keeps its other fields.                                                *)
LEMMA SentRecord ==
    ASSUME NEW q, Formed(q), NEW s
    PROVE  /\ Formed(Sent(q, s)) /\ Sent(q, s).sent = s
           /\ Sent(q, s).path = q.path /\ Sent(q, s).local = q.local
           /\ Sent(q, s).headers = q.headers /\ Sent(q, s).route = q.route
           /\ Sent(q, s).client = q.client /\ Sent(q, s).extra = q.extra
           /\ Sent(q, s).seen = q.seen /\ Sent(q, s).issuer = q.issuer
           /\ Sent(q, s).behind = q.behind
BY DEF Formed, Field, Sent

(* What was prepared for a request stays so when it is sent.                 *)
LEMMA SentPrepared ==
    ASSUME NEW q, Formed(q), NEW s, Prepared(q)
    PROVE  Prepared(Sent(q, s))
<1> DEFINE h == Sent(q, s)
<1>1. /\ h.path = q.path /\ h.local = q.local /\ h.headers = q.headers
      /\ h.route = q.route /\ h.client = q.client /\ h.extra = q.extra
      /\ h.seen = q.seen /\ h.behind = q.behind
  BY SentRecord
<1> HIDE DEF h
<1>2. Whitelisted(h) = Whitelisted(q)
  BY <1>1 DEF Whitelisted
<1>3. Vouched(q) => Vouched(h)
  BY <1>1, <1>2 DEF Vouched, Vouches
<1>4. (Matched(q) => Matched(h)) /\ (OneAuthz(q) => OneAuthz(h))
  BY <1>1 DEF Matched, OneAuthz
<1> QED
  BY <1>1, <1>3, <1>4 DEF Prepared, h

LEMMA SendStep ==
    ASSUME DispatchInv, NEW t \in Request, Send(t)
    PROVE  RequestsInv'
<1> DEFINE q == req[t]
           s == [base |-> q.client.base, headers |-> UpstreamHeaders(q.headers, q.extra)]
<1>1. /\ pc[t] = "reading"
      /\ IF q.client \in closed THEN Reply(t, "500") ELSE Go(t, "sending", Sent(q, s))
  BY DEF Send, Sent
<1>2. RequestsInv
  BY DEF DispatchInv
<1>3. Formed(q) /\ Prepared(q)
  BY <1>1, <1>2 DEF RequestsInv, RequestInv, Reading
<1>4. s = [base |-> q.client.base, headers |-> UpstreamHeaders(q.headers, q.extra)]
  OBVIOUS
<1> HIDE DEF q, s
<1>5. CASE Reply(t, "500")
  BY <1>2, <1>5, ReplyMoves
<1>6. CASE Go(t, "sending", Sent(q, s))
  <2>1. Formed(Sent(q, s)) /\ Prepared(Sent(q, s))
    BY <1>3, SentRecord, SentPrepared
  <2>2. Sending(Sent(q, s))
    BY <1>3, <1>4, <2>1, SentRecord DEF Sending
  <2> QED
    BY <1>2, <1>6, <2>1, <2>2, RequestMoves DEF Go
<1> QED
  BY <1>1, <1>5, <1>6

(* The remaining steps of a request.                                         *)
LEMMA RequestStep ==
    ASSUME DispatchInv, NEW t \in Request,
           \/ Refused(t) \/ BodyTooLarge(t) \/ Send(t)
           \/ SendFails(t) \/ Responds(t) \/ StreamEnds(t)
    PROVE  DispatchInv'
<1>1. ReloadInv /\ NodeInv /\ RoutesInv /\ RequestsInv
  BY DEF DispatchInv
<1>2. UNCHANGED <<config, reloads, table, nodes, reload>>
  <2>1. UNCHANGED manager
    BY DEF Refused, BodyTooLarge, Send, SendFails, Responds, StreamEnds
  <2> QED
    BY <2>1 DEF manager, clients
<1> SUFFICES RequestsInv'
  BY <1>1, <1>2, ManagersStay, RoutesStay DEF DispatchInv
<1>3. CASE Send(t)
  BY <1>3, SendStep
<1>4. CASE Responds(t)
  BY <1>1, <1>4, RequestMoves, BlankIsFormed DEF Responds, Go
<1>5. CASE \E status : Reply(t, status)
  BY <1>1, <1>5, ReplyMoves
<1> QED
  BY <1>3, <1>4, <1>5 DEF Refused, BodyTooLarge, SendFails, StreamEnds
-----------------------------------------------------------------------------
\* q, once another configuration came into force
Noted(q, c) == [q EXCEPT !.seen = @ \cup {c}]

LEMMA NotedRecord ==
    ASSUME NEW q, Formed(q), Validating(q), NEW c
    PROVE  /\ Formed(Noted(q, c)) /\ Validating(Noted(q, c))
           /\ Noted(q, c).path = q.path /\ Noted(q, c).local = q.local
           /\ Noted(q, c).headers = q.headers /\ Noted(q, c).route = q.route
           /\ Noted(q, c).issuer = q.issuer /\ Noted(q, c).client = q.client
           /\ Noted(q, c).extra = q.extra /\ Noted(q, c).seen = q.seen \cup {c}
           /\ Noted(q, c).behind = q.behind
<1> DEFINE h == Noted(q, c)
<1>1. /\ Formed(h) /\ h.path = q.path /\ h.local = q.local /\ h.headers = q.headers
      /\ h.route = q.route /\ h.issuer = q.issuer /\ h.client = q.client
      /\ h.extra = q.extra /\ h.sent = q.sent /\ h.seen = q.seen \cup {c}
      /\ h.behind = q.behind
  BY DEF Formed, Field, Noted
<1> HIDE DEF h
<1>2. Whitelisted(h) = Whitelisted(q)
  BY <1>1 DEF Whitelisted
<1>3. NeedsToken(h) = NeedsToken(q)
  BY <1>1, <1>2 DEF NeedsToken
<1>4. Validating(h)
  BY <1>1, <1>3 DEF Validating
<1> QED
  BY <1>1, <1>4 DEF h

(* A step of the managers leaves what the requests hold.                     *)
LEMMA ManagerKeepsRequests ==
    ASSUME RequestsInv, ManagerStep
    PROVE  RequestsInv'
<1>1. /\ pc' = pc
      /\ req' = [t \in Request |-> IF pc[t] = "validating" THEN Noted(req[t], config')
                                   ELSE req[t]]
  BY DEF ManagerStep, Noted
<1>2. ASSUME NEW t \in Request PROVE RequestInv(t)'
  <2>1. CASE pc[t] = "validating"
    <3>1. req'[t] = Noted(req[t], config') /\ pc'[t] = "validating"
      BY <1>1, <2>1
    <3>2. Formed(req'[t]) /\ Validating(req'[t])
      BY <2>1, <3>1, NotedRecord DEF RequestsInv, RequestInv
    <3> QED
      BY <3>1, <3>2 DEF RequestInv
  <2>2. CASE pc[t] # "validating"
    <3>1. req'[t] = req[t] /\ pc'[t] = pc[t]
      BY <1>1, <2>2
    <3> QED
      BY <3>1 DEF RequestsInv, RequestInv
  <2> QED
    BY <2>1, <2>2
<1> QED
  BY <1>1, <1>2 DEF RequestsInv

LEMMA ManagerKeeps ==
    ASSUME DispatchInv, ManagerStep
    PROVE  DispatchInv'
<1>1. ReloadInv /\ NodeInv /\ RoutesInv /\ RequestsInv
  BY DEF DispatchInv
<1>2. RequestsInv'
  BY <1>1, ManagerKeepsRequests
<1>3. ASSUME NEW new \in Configs, Reload(new) PROVE ReloadInv' /\ NodeInv' /\ RoutesInv'
  <2>1. Registry!OnConfigChange(new.routing)
    BY <1>3 DEF Reload
  <2> QED
    BY <1>1, <1>3, <2>1, ReloadKeeps, RoutesKept
<1>4. ASSUME ResumeReload PROVE ReloadInv' /\ NodeInv' /\ RoutesInv'
  <2>1. UNCHANGED table
    BY <1>4 DEF ResumeReload
  <2> QED
    BY <1>1, <1>4, <2>1, ReloadKeeps, RoutesStay
<1>5. ASSUME DiscoveryUpdates PROVE ReloadInv' /\ NodeInv' /\ RoutesInv'
  <2>1. UNCHANGED <<config, reloads, nodes, reload>>
    BY <1>5 DEF DiscoveryUpdates, clients
  <2> QED
    BY <1>1, <1>5, <2>1, ManagersStay, RoutesKept
<1>6. ASSUME (\E active \in SUBSET {e.address : e \in Endpoints} : Prune(active))
             \/ (\E c \in closing : CloseAgentClient(c))
      PROVE  ReloadInv' /\ NodeInv' /\ RoutesInv'
  <2>1. UNCHANGED <<config, reloads, table, nodes, reload>>
    BY <1>6 DEF Prune, CloseAgentClient
  <2> QED
    BY <1>1, <2>1, ManagersStay, RoutesStay
<1> QED
  BY <1>2, <1>3, <1>4, <1>5, <1>6 DEF ManagerStep, NextClients, DispatchInv
-----------------------------------------------------------------------------
LEMMA DispatchNext == DispatchInv /\ [Next]_vars => DispatchInv'
<1> SUFFICES ASSUME DispatchInv, [Next]_vars PROVE DispatchInv'
  OBVIOUS
<1>1. CASE ManagerStep
  BY <1>1, ManagerKeeps
<1>2. ASSUME NEW t \in Request, NEW p \in Paths, NEW l \in BOOLEAN, NEW h \in Inbound,
             Arrive(t, p, l, h)
      PROVE  DispatchInv'
  BY <1>2, ArriveStep
<1>3. ASSUME NEW t \in Request, Validated(t) PROVE DispatchInv'
  BY <1>3, ValidatedStep
<1>4. ASSUME NEW t \in Request,
             \/ Refused(t) \/ BodyTooLarge(t) \/ Send(t)
             \/ SendFails(t) \/ Responds(t) \/ StreamEnds(t)
      PROVE  DispatchInv'
  BY <1>4, RequestStep
<1>5. CASE UNCHANGED vars
  <2>1. UNCHANGED <<config, reloads, table, nodes, reload, pc, req>>
    BY <1>5 DEF vars, manager, clients
  <2>2. RequestsInv'
    BY <2>1 DEF DispatchInv, RequestsInv, RequestInv
  <2> QED
    BY <2>1, <2>2, ManagersStay, RoutesStay DEF DispatchInv
<1> QED
  BY <1>1, <1>2, <1>3, <1>4, <1>5 DEF Next

(* The inductive invariant holds always.                                     *)
THEOREM DispatchKeepsInv == Spec => []DispatchInv
<1> QED
  BY DispatchInit, DispatchNext, PTL DEF Spec
-----------------------------------------------------------------------------
(* A request an upstream is answering was prepared for it.                   *)
LEMMA ReceivedIsSent ==
    ASSUME DispatchInv, NEW dest, NEW q \in Received(dest)
    PROVE  Sending(q) /\ q.route.dest = dest
<1>1. PICK t \in Request : q = req[t] /\ q.sent # None /\ q.route.dest = dest
  BY DEF Received
<1>2. RequestInv(t)
  BY DEF DispatchInv, RequestsInv
<1>3. pc[t] = "sending"
  BY <1>1, <1>2, BlankIsFormed DEF RequestInv, Validating, Reading
<1> QED
  BY <1>1, <1>2, <1>3 DEF RequestInv

LEMMA CallerIsVouched ==
    ASSUME DispatchInv, NEW q \in Received("agent")
    PROVE  IF q.local THEN ContextFrom(q.sent.headers) = [source |-> "local", sub |-> ""]
           ELSE IF Whitelisted(q)
           THEN ContextFrom(q.sent.headers) = [source |-> "external", sub |-> ""]
           ELSE /\ ContextFrom(q.sent.headers) =
                       [source |-> "external", sub |-> TokenIn(q.headers)]
                /\ TokenIn(q.headers) \in Genuine
                /\ \E c \in q.seen : IssuedBy[TokenIn(q.headers)] = c.issuer
<1>1. Sending(q) /\ Vouches(q, q.extra)
  BY ReceivedIsSent DEF Sending, Prepared, Vouched
<1>2. q.sent.headers = UpstreamHeaders(q.headers, q.extra)
  BY <1>1 DEF Sending
<1>3. CASE q.local /\ q.extra = LocalHeaders
  BY <1>2, <1>3, LocalIsLocal
<1>4. CASE ~q.local /\ Whitelisted(q) /\ q.extra = ExternalHeaders("")
  <2>1. "" # None
    BY DispatchConstants
  <2> QED
    BY <1>2, <1>4, <2>1, ExternalIsExternal
<1>5. CASE /\ ~q.local /\ ~Whitelisted(q)
           /\ q.extra = ExternalHeaders(TokenIn(q.headers))
           /\ TokenIn(q.headers) \in Genuine
           /\ \E c \in q.seen : IssuedBy[TokenIn(q.headers)] = c.issuer
  <2>1. TokenIn(q.headers) # None
    BY <1>5, DispatchConstants
  <2> QED
    BY <1>2, <1>5, <2>1, ExternalIsExternal
<1> QED
  BY <1>1, <1>3, <1>4, <1>5 DEF Vouches

(* An agent reads from the headers what the node established about the       *)
(* caller, whatever headers the caller sent and whatever was reloaded        *)
(* between the arrival of the request and the validation of its token.       *)
THEOREM CallersAreKnown == Spec => []AgentsKnowTheCaller
<1>1. DispatchInv => AgentsKnowTheCaller
  <2> SUFFICES ASSUME DispatchInv PROVE AgentsKnowTheCaller
    OBVIOUS
  <2>1. ASSUME NEW q \in Received("agent"),
               NEW context, context = ContextFrom(q.sent.headers),
               NEW token, token = TokenIn(q.headers)
        PROVE  IF q.local THEN context = [source |-> "local", sub |-> ""]
               ELSE /\ context.source # "local"
                    /\ IF Whitelisted(q) THEN context.sub = ""
                       ELSE /\ context = [source |-> "external", sub |-> token]
                            /\ token \in Genuine
                            /\ \E c \in q.seen : IssuedBy[token] = c.issuer
    <3>1. IF q.local THEN context = [source |-> "local", sub |-> ""]
          ELSE IF Whitelisted(q) THEN context = [source |-> "external", sub |-> ""]
          ELSE /\ context = [source |-> "external", sub |-> token]
               /\ token \in Genuine
               /\ \E c \in q.seen : IssuedBy[token] = c.issuer
      BY <2>1, CallerIsVouched
    <3>2. ASSUME NEW sub, context = [source |-> "external", sub |-> sub]
          PROVE  context.source = "external" /\ context.sub = sub
      BY <3>2
    <3>3. "external" # "local"
      OBVIOUS
    <3> QED
      BY <3>1, <3>2, <3>3
  <2> QED
    BY <2>1 DEF AgentsKnowTheCaller
<1> QED
  BY <1>1, DispatchKeepsInv, PTL

(* The token of the node is sent to a controlplane only with the URL of the  *)
(* configuration it was read from, in the middle of a reload too, and after  *)
(* one that was abandoned, unless it left that controlplane behind.          *)
THEOREM TokensStayHome == Spec => []NodeTokenMatchesUrl
<1>1. DispatchInv => NodeTokenMatchesUrl
  <2> SUFFICES ASSUME DispatchInv, NEW q \in Received("controlplane"), q.local, ~q.behind
               PROVE  \E c \in q.seen :
                         /\ q.route.cp \in CpNames(c)
                         /\ q.sent.base = UrlOf(c, q.route.cp)
                         /\ q.sent.headers["authorization"] = c.token[q.route.cp]
    BY DEF NodeTokenMatchesUrl
  <2>1. Sending(q) /\ Matched(q)
    BY ReceivedIsSent DEF Sending, Prepared
  <2>2. /\ q.sent.base = q.client.base
        /\ q.sent.headers = UpstreamHeaders(q.headers, q.extra)
    BY <2>1 DEF Sending
  <2> QED
    BY <2>1, <2>2, AuthorizationIsSent DEF Matched
<1> QED
  BY <1>1, DispatchKeepsInv, PTL

(* Only local callers reach the authz server, and with the URL and the token *)
(* of one configuration, unless a reload has not come to the token or was    *)
(* abandoned.                                                                *)
THEOREM AuthzTokensStayHome == Spec => []AuthzTokenMatchesUrl
<1>1. DispatchInv => AuthzTokenMatchesUrl
  <2> SUFFICES ASSUME DispatchInv, NEW q \in Received("authz")
               PROVE  q.local /\ (q.behind \/ AuthzOfOne(q))
    BY DEF AuthzTokenMatchesUrl
  <2>1. Sending(q) /\ q.local /\ (q.behind \/ OneAuthz(q))
    BY ReceivedIsSent DEF Sending, Prepared
  <2>2. /\ q.sent.base = q.client.base
        /\ q.sent.headers = UpstreamHeaders(q.headers, q.extra)
    BY <2>1 DEF Sending
  <2> QED
    BY <2>1, <2>2, AuthorizationIsSent DEF OneAuthz, AuthzOfOne
<1> QED
  BY <1>1, DispatchKeepsInv, PTL
-----------------------------------------------------------------------------
(* The clients themselves: which object is registered, open, closed, lost.   *)

\* A registered client of a controlplane is its own; those of the controlplanes
\* "late", which reload k has not come to, are older than it.
CpClientsInv(cps, late, k) ==
    /\ cps = [n \in CpName |-> cps[n]]
    /\ \A n \in CpName : cps[n] # None =>
          /\ cps[n] \in ClientType
          /\ cps[n].kind = "controlplane" /\ cps[n].of = n
          /\ cps[n].born <= k /\ (n \in late => cps[n].born < k)

\* So is that of the authz server, unless "late" older than reload k.
AuthzClientInv(client, late, k) ==
    client # None =>
        /\ client \in ClientType /\ client.kind = "authz" /\ client \notin closed
        /\ client.born <= k /\ (late => client.born < k)

\* A registered agent client is its target's own and open; clients of one target
\* are told apart by their number.
AgentClientsInv ==
    /\ agentClient = [x \in Target |-> agentClient[x]]
    /\ \A x \in Target : agentClient[x] # None =>
          /\ agentClient[x] \in opened
          /\ agentClient[x].kind = "agent" /\ agentClient[x].of = x
          /\ agentClient[x] \notin closed \cup closing
    /\ closing \subseteq opened /\ \A c \in closing : c.kind = "agent"
    /\ \A c \in closed : c.kind = "agent" => c \in opened
    /\ \A x \in Target :
          /\ IsFiniteSet(AgentClientsOf(x))
          /\ \A c \in AgentClientsOf(x) : c.born < Cardinality(AgentClientsOf(x))

\* A client of the node that is closed is older than the last reload.
ClosedInv(shut, k) == \A c \in shut : c.kind # "agent" => c.born < k

\* what is registered, or will be closed
Kept(cps, client) == InUse(cps, client) \cup RegisteredAgentClients \cup closing

\* the invariant about the clients
ClientInv ==
    /\ opened \subseteq ClientType /\ closed \subseteq ClientType
    /\ CpClientsInv(cpClient, Pending, reloads)
    /\ \A n \in CpNames(config) \ {at} :
          n \notin stale \/ (Moving /\ n \notin Pending /\ Changed(prev, config, n)) =>
              cpClient[n] = None \/ cpClient[n] \notin closed
    /\ at # None => Changed(prev, config, at) /\ cpClient[at] \in closed
    /\ \A n \in removing : cpClient[n] # None
    /\ AuthzClientInv(authzClient, Moving, reloads)
    /\ AgentClientsInv
    /\ ClosedInv(closed, reloads)
    /\ opened \ closed \subseteq Kept(cpClient, authzClient)
-----------------------------------------------------------------------------
\* each client of new1 is that of cps, or one of reload k
Renewed(old, new, cps, done, k, new1) ==
    \A n \in CpName : \/ new1[n] = cps[n] /\ (n \in done => ~Changed(old, new, n))
                      \/ /\ n \in done /\ Changed(old, new, n)
                         /\ new1[n] \in ClientType /\ new1[n].born = k
                         /\ new1[n].kind = "controlplane"

(* Clients that are created for controlplanes without one, or whose client   *)
(* is closed: nothing open is lost.                                          *)
LEMMA ConnectedClients ==
    ASSUME NEW old, NEW new \in Configs, NEW cps, NEW late, NEW k \in Nat,
           CpClientsInv(cps, late, k), NEW done \in SUBSET CpNames(new)
    PROVE  /\ CpClientsInv(Connected(old, new, cps, done, k), late \ done, k)
           /\ Renewed(old, new, cps, done, k, Connected(old, new, cps, done, k))
<1> DEFINE new1 == Connected(old, new, cps, done, k)
<1>1. \A n \in CpName : new1[n] = IF n \in done /\ Changed(old, new, n)
                                  THEN CpClientOf(new, n, k) ELSE cps[n]
  BY DEF Connected
<1>2. new1 = [n \in CpName |-> new1[n]]
  BY DEF Connected
<1>3. ASSUME NEW n \in CpName
      PROVE  \/ new1[n] = cps[n] /\ (n \in done => ~Changed(old, new, n))
             \/ /\ n \in done /\ Changed(old, new, n)
                /\ new1[n] \in ClientType /\ new1[n].born = k
                /\ new1[n].kind = "controlplane" /\ new1[n].of = n
  <2>1. CASE n \in done /\ Changed(old, new, n)
    <3>1. new1[n] = CpClientOf(new, n, k) /\ CpClientOf(new, n, k) \in ClientType
      BY <1>1, <2>1, NewClients
    <3>2. /\ CpClientOf(new, n, k).born = k /\ CpClientOf(new, n, k).of = n
          /\ CpClientOf(new, n, k).kind = "controlplane"
      BY DEF CpClientOf
    <3> QED
      BY <2>1, <3>1, <3>2
  <2>2. CASE ~(n \in done /\ Changed(old, new, n))
    BY <1>1, <2>2
  <2> QED
    BY <2>1, <2>2
<1>4. ASSUME NEW n \in CpName, new1[n] # None
      PROVE  /\ new1[n] \in ClientType
             /\ new1[n].kind = "controlplane" /\ new1[n].of = n
             /\ new1[n].born <= k /\ (n \in late \ done => new1[n].born < k)
  <2>1. CASE new1[n] = cps[n]
    BY <1>4, <2>1 DEF CpClientsInv
  <2>2. CASE /\ n \in done /\ new1[n] \in ClientType /\ new1[n].born = k
             /\ new1[n].kind = "controlplane" /\ new1[n].of = n
    BY <2>2
  <2> QED
    BY <1>3, <2>1, <2>2
<1> HIDE DEF new1
<1>5. CpClientsInv(new1, late \ done, k)
  BY <1>2, <1>4 DEF CpClientsInv
<1>6. Renewed(old, new, cps, done, k, new1)
  BY <1>3 DEF Renewed
<1> QED
  BY <1>5, <1>6 DEF new1

(* Registering clients of the node leaves those of the agents alone.         *)
LEMMA AgentsStay ==
    ASSUME AgentClientsInv, UNCHANGED <<agentClient, closing>>,
           opened \subseteq opened', \A c \in opened' \ opened : c.kind # "agent",
           closed \subseteq closed', \A c \in closed' \ closed : c.kind # "agent"
    PROVE  AgentClientsInv'
<1>1. \A x : AgentClientsOf(x)' = AgentClientsOf(x)
  BY DEF AgentClientsOf
<1>2. \A x \in Target :
          /\ IsFiniteSet(AgentClientsOf(x)')
          /\ \A c \in AgentClientsOf(x)' : c.born < Cardinality(AgentClientsOf(x)')
  BY <1>1 DEF AgentClientsInv
<1>3. /\ agentClient' = [x \in Target |-> agentClient'[x]]
      /\ closing' \subseteq opened' /\ \A c \in closing' : c.kind = "agent"
      /\ \A c \in closed' : c.kind = "agent" => c \in opened'
  BY DEF AgentClientsInv
<1>4. ASSUME NEW x \in Target, agentClient'[x] # None
      PROVE  /\ agentClient'[x] \in opened'
             /\ agentClient'[x].kind = "agent" /\ agentClient'[x].of = x
             /\ agentClient'[x] \notin closed' \cup closing'
  BY <1>4 DEF AgentClientsInv
<1> QED
  BY <1>2, <1>3, <1>4 DEF AgentClientsInv

LEMMA NoneIsNoClient == None \notin ClientType
BY ProxyConstants

LEMMA NodeKinds ==
    ASSUME NEW cps, NEW late, NEW k, CpClientsInv(cps, late, k), NEW client,
           client # None => client \in ClientType /\ client.kind = "authz"
    PROVE  \A c \in InUse(cps, client) : c \in ClientType /\ c.kind # "agent"
BY DEF InUse, CpClientsInv

\* what the rest of a reload relies on: the controlplanes "late" are still to
\* come, and the client of none but "shut" is closed, or was left behind
Sound(old, new, cps, late, shut, k) ==
    /\ opened \subseteq ClientType /\ closed \subseteq ClientType
    /\ CpClientsInv(cps, late, k)
    /\ \A n \in CpNames(new) \ shut :
          n \notin stale \/ (n \notin late /\ Changed(old, new, n)) =>
              cps[n] = None \/ cps[n] \notin closed
    /\ AuthzClientInv(authzClient, TRUE, k)
    /\ AgentClientsInv /\ ClosedInv(closed, k)
    /\ opened \ closed \subseteq Kept(cps, authzClient)

(* A controlplane that disappeared: its client is closed and forgotten.      *)
LEMMA RemoveClients ==
    ASSUME NEW old, NEW new \in Configs, NEW cps, NEW jwts, NEW k \in Nat,
           NEW gone \in SUBSET (CpName \ CpNames(new)), NEW left \in SUBSET CpNames(new),
           Sound(old, new, cps, gone \cup left, {}, k), \A n \in gone : cps[n] # None,
           UNCHANGED <<agentClient, closing>>, reloads' = k, config' = new, prev' = old,
           NEW n \in gone, Remove(n, cps, jwts, gone, left)
    PROVE  ClientInv'
<1>1. /\ stage' = "removing" /\ at' = None
      /\ removing' = gone \ {n} /\ adding' = left
      /\ cpClient' = [cps EXCEPT ![n] = None]
      /\ closed' = closed \cup {cps[n]}
      /\ UNCHANGED <<opened, authzClient, stale>>
  BY DEF Remove, behind
<1>2. /\ cps = [m \in CpName |-> cps[m]] /\ n \in CpName /\ cps[n] # None
      /\ Pending' = (gone \ {n}) \cup left /\ Moving' = TRUE
  BY <1>1 DEF Sound, CpClientsInv, Pending, Moving
<1>3. /\ cps[n] \in ClientType /\ cps[n].kind = "controlplane" /\ cps[n].of = n
      /\ cps[n].born < k
  BY <1>2 DEF Sound, CpClientsInv
<1>4. \A m \in CpName : cpClient'[m] = IF m = n THEN None ELSE cps[m]
  BY <1>1, <1>2
<1>5. CpClientsInv(cpClient', Pending', k)
  <2>1. cpClient' = [m \in CpName |-> cpClient'[m]]
    BY <1>1, <1>2
  <2> QED
    BY <1>2, <1>4, <2>1 DEF Sound, CpClientsInv
<1>6. ASSUME NEW m \in CpNames(new),
             m \notin stale \/ (m \notin Pending' /\ Changed(old, new, m))
      PROVE  cpClient'[m] = None \/ cpClient'[m] \notin closed'
  <2>1. m \in CpName /\ m # n /\ (m \in Pending' <=> m \in gone \cup left)
    BY <1>2, ConfigTypes
  <2>2. cps[m] = None \/ (cps[m] \notin closed /\ cps[m] # cps[n])
    BY <1>3, <1>6, <2>1 DEF Sound, CpClientsInv
  <2> QED
    BY <1>1, <1>4, <2>1, <2>2
<1>7. AuthzClientInv(authzClient, TRUE, k)' /\ authzClient' # cps[n]
  BY <1>1, <1>3 DEF Sound, AuthzClientInv
<1>8. AgentClientsInv'
  <2>1. /\ AgentClientsInv /\ opened' = opened /\ closed \subseteq closed'
        /\ \A c \in closed' \ closed : c.kind # "agent"
    BY <1>1, <1>3 DEF Sound
  <2> QED
    BY <2>1, AgentsStay
<1>9. ClosedInv(closed', k) /\ closed' \subseteq ClientType /\ opened' \subseteq ClientType
  BY <1>1, <1>3 DEF Sound, ClosedInv
<1>10. opened' \ closed' \subseteq Kept(cpClient, authzClient)'
  <2> SUFFICES ASSUME NEW c \in opened, c \notin closed, c # cps[n]
               PROVE  c \in Kept(cpClient, authzClient)'
    BY <1>1
  <2>1. c \in Kept(cps, authzClient) /\ c # None
    BY ProxyConstants DEF Sound
  <2>2. CASE c \in InUse(cps, authzClient)
    BY <1>1, <1>4, <2>1, <2>2 DEF InUse, Kept
  <2>3. CASE c \in RegisteredAgentClients \cup closing
    BY <2>3 DEF RegisteredAgentClients, Kept
  <2> QED
    BY <2>1, <2>2, <2>3 DEF Kept
<1>11. \A m \in removing' : cpClient'[m] # None
  BY <1>1, <1>4
<1>12. \A m \in CpNames(config') \ {at'} :
          m \notin stale' \/ (Moving' /\ m \notin Pending' /\ Changed(prev', config', m)) =>
              cpClient'[m] = None \/ cpClient'[m] \notin closed'
  BY <1>1, <1>6
<1>13. CpClientsInv(cpClient', Pending', reloads')
  BY <1>5
<1> QED
  BY <1>1, <1>2, <1>7, <1>8, <1>9, <1>10, <1>11, <1>12, <1>13
  DEF ClientInv, AuthzClientInv, CpClientsInv, Changed

(* A controlplane whose URL changed: its client is closed, and stays         *)
(* registered until that has come to an end.                                 *)
LEMMA ReplaceClients ==
    ASSUME NEW old \in Configs, NEW new \in Configs, NEW cps, NEW jwts, NEW k \in Nat,
           NEW left \in SUBSET CpNames(new), Sound(old, new, cps, left, {}, k),
           UNCHANGED <<agentClient, closing>>, reloads' = k, config' = new, prev' = old,
           NEW n \in Replaced(old, new, cps, left),
           NEW done \in SUBSET (left \ Replaced(old, new, cps, left)),
           Replace(old, new, n, done, cps, jwts, left, k)
    PROVE  ClientInv'
<1>1. /\ stage' = "adding" /\ at' = n
      /\ removing' = {} /\ adding' = left \ (done \cup {n})
      /\ cpClient' = Connected(old, new, cps, done, k)
      /\ closed' = closed \cup {cps[n]}
      /\ opened' = opened \cup InUse(cpClient', authzClient)
      /\ UNCHANGED <<authzClient, stale>>
  BY DEF Replace, behind
<1>2. /\ n \in left /\ n \in CpName /\ n \notin done /\ cps[n] # None
      /\ Changed(old, new, n) /\ n # None
  BY ConfigTypes, NoneIsNoName DEF Replaced
<1>3. /\ cps[n] \in ClientType /\ cps[n].kind = "controlplane" /\ cps[n].of = n
      /\ cps[n].born < k
  BY <1>2 DEF Sound, CpClientsInv
<1>4. \A m \in done : ~Changed(old, new, m) \/ cps[m] = None
  BY DEF Replaced
<1>5. done \in SUBSET CpNames(new) /\ CpNames(new) \subseteq CpName
  BY ConfigTypes
<1> DEFINE cps1 == Connected(old, new, cps, done, k)
<1>6. cpClient' = cps1 /\ CpClientsInv(cps, left, k)
  BY <1>1 DEF Sound
<1>7. /\ CpClientsInv(cps1, left \ done, k)
      /\ \A m \in CpName : \/ cps1[m] = cps[m] /\ (m \in done => ~Changed(old, new, m))
                           \/ /\ m \in done /\ Changed(old, new, m)
                              /\ cps1[m] \in ClientType /\ cps1[m].born = k
                              /\ cps1[m].kind = "controlplane"
  <2>1. CpClientsInv(cps1, left \ done, k) /\ Renewed(old, new, cps, done, k, cps1)
    BY <1>5, <1>6, ConnectedClients
  <2> QED
    BY <2>1 DEF Renewed
<1> HIDE DEF cps1
<1>8. Pending' = left \ done /\ Moving' = TRUE
  BY <1>1, <1>2 DEF Pending, Moving
<1>9. ASSUME NEW m \in CpNames(new) \ {n},
             m \notin stale \/ (m \notin Pending' /\ Changed(old, new, m))
      PROVE  cps1[m] = None \/ cps1[m] \notin closed'
  <2>0. m \in CpName
    BY <1>5
  <2>1. CASE cps1[m] = cps[m] /\ (m \in done => ~Changed(old, new, m))
    <3>1. cps[m] = None \/ cps[m] \notin closed
      BY <1>8, <1>9, <2>1 DEF Sound
    <3>2. cps[m] = None \/ cps[m] # cps[n]
      BY <1>3, <2>0 DEF Sound, CpClientsInv
    <3> QED
      BY <1>1, <2>1, <3>1, <3>2
  <2>2. CASE cps1[m] \in ClientType /\ cps1[m].born = k /\ cps1[m].kind = "controlplane"
    BY <1>1, <1>3, <2>2 DEF Sound, ClosedInv
  <2> QED
    BY <1>7, <2>0, <2>1, <2>2
<1>10. cps1[n] = cps[n]
  BY <1>2, <1>7
<1>11. AuthzClientInv(authzClient, TRUE, k)'
  BY <1>1, <1>3 DEF Sound, AuthzClientInv
<1>12. \A c \in InUse(cps1, authzClient) : c \in ClientType /\ c.kind # "agent"
  <2>1. authzClient # None => authzClient \in ClientType /\ authzClient.kind = "authz"
    BY DEF Sound, AuthzClientInv
  <2> QED
    BY <1>7, <2>1, NodeKinds
<1>13. AgentClientsInv'
  <2>1. /\ AgentClientsInv /\ closed \subseteq closed'
        /\ \A c \in closed' \ closed : c.kind # "agent"
    BY <1>1, <1>3 DEF Sound
  <2>2. opened' = opened \cup InUse(cps1, authzClient)
    BY <1>1, <1>6
  <2>3. opened \subseteq opened' /\ \A c \in opened' \ opened : c.kind # "agent"
    BY <1>12, <2>2
  <2> QED
    BY <2>1, <2>3, AgentsStay
<1>14. ClosedInv(closed', k) /\ closed' \subseteq ClientType
  BY <1>1, <1>3 DEF Sound, ClosedInv
<1>15. opened' \subseteq ClientType
  BY <1>1, <1>6, <1>12 DEF Sound
<1>16. opened' \ closed' \subseteq Kept(cpClient, authzClient)'
  <2>1. ASSUME NEW c \in opened, c \notin closed, c # cps[n]
        PROVE  c \in Kept(cps1, authzClient)
    <3>1. c \in Kept(cps, authzClient) /\ c # None
      <4>1. opened \subseteq ClientType /\ opened \ closed \subseteq Kept(cps, authzClient)
        BY DEF Sound
      <4> QED
        BY <2>1, <4>1, NoneIsNoClient
    <3>2. CASE \E m \in CpName : c = cps[m]
      <4>1. PICK m \in CpName : c = cps[m]
        BY <3>2
      <4>2. cps1[m] = cps[m]
        BY <1>4, <1>7, <3>1, <4>1
      <4> QED
        BY <3>1, <4>1, <4>2 DEF InUse, Kept
    <3> QED
      BY <3>1, <3>2 DEF InUse, Kept
  <2>2. Kept(cpClient, authzClient)' = Kept(cps1, authzClient)
    BY <1>1, <1>6 DEF Kept, InUse, RegisteredAgentClients
  <2>3. InUse(cps1, authzClient) \subseteq Kept(cps1, authzClient)
    BY DEF Kept
  <2> QED
    BY <1>1, <1>6, <2>1, <2>2, <2>3
<1> QED
  <2>1. CpClientsInv(cpClient', Pending', k)
    BY <1>6, <1>7, <1>8
  <2>2. \A m \in CpNames(config') \ {at'} :
           m \notin stale' \/ (Moving' /\ m \notin Pending' /\ Changed(prev', config', m)) =>
               cpClient'[m] = None \/ cpClient'[m] \notin closed'
    BY <1>1, <1>6, <1>9
  <2>3. Changed(prev', config', at') /\ cpClient'[at'] \in closed'
    BY <1>1, <1>2, <1>6, <1>10
  <2> QED
    BY <1>1, <1>8, <1>11, <1>13, <1>14, <1>15, <1>16, <2>1, <2>2, <2>3
    DEF ClientInv, AuthzClientInv, CpClientsInv, Changed

LEMMA NewAuthzClient ==
    ASSUME NEW c \in Configs, NEW k \in Nat, AuthzClientOf(c, k) # None
    PROVE  /\ AuthzClientOf(c, k) \in ClientType
           /\ AuthzClientOf(c, k).kind = "authz" /\ AuthzClientOf(c, k).born = k
<1>1. AuthzClientOf(c, k) \in ClientType
  BY NewClients
<1> QED
  BY <1>1 DEF AuthzClientOf

(* The controlplanes are done with and the client of the authz server is     *)
(* swapped: the former one, if there is another now, is closed.              *)
LEMMA SwapAuthzClient ==
    ASSUME NEW new \in Configs, NEW old, NEW k \in Nat, AuthzClientInv(authzClient, TRUE, k),
           ClosedInv(closed, k), closed \subseteq ClientType, reloads' = k,
           NEW cps, NEW jwts, NEW left, FinishControlplanes(old, new, cps, jwts, left, k)
    PROVE  /\ AuthzClientInv(authzClient, FALSE, k)'
           /\ closed \subseteq closed'
           /\ \A c \in closed' \ closed :
                 /\ c = authzClient /\ c # authzClient'
                 /\ c \in ClientType /\ c.kind = "authz" /\ c.born < k
           /\ authzClient' = authzClient \/ authzClient = None \/ authzClient \in closed'
<1>1. /\ authzClient' = IF AuthzUrl(old) # AuthzUrl(new) THEN AuthzClientOf(new, k)
                        ELSE authzClient
      /\ closed' = IF AuthzUrl(old) # AuthzUrl(new) /\ authzClient # None
                   THEN closed \cup {authzClient} ELSE closed
  BY DEF FinishControlplanes, AuthzChanged
<1>2. authzClient # None =>
         /\ authzClient \in ClientType /\ authzClient.kind = "authz"
         /\ authzClient \notin closed /\ authzClient.born < k
  BY DEF AuthzClientInv
<1>3. CASE AuthzUrl(old) = AuthzUrl(new)
  <2>1. authzClient' = authzClient /\ closed' = closed
    BY <1>1, <1>3
  <2> QED
    BY <1>2, <2>1 DEF AuthzClientInv
<1>4. CASE AuthzUrl(old) # AuthzUrl(new)
  <2> DEFINE client == AuthzClientOf(new, k)
  <2>1. client # None =>
           client \in ClientType /\ client.kind = "authz" /\ client.born = k
    BY NewAuthzClient
  <2>2. /\ authzClient' = client
        /\ closed' = IF authzClient # None THEN closed \cup {authzClient} ELSE closed
    BY <1>1, <1>4
  <2> HIDE DEF client
  <2>3. client # None => client # authzClient
    BY <1>2, <2>1
  <2>4. client # None => client \notin closed
    BY <2>1 DEF ClosedInv
  <2>5. client # None => client \notin closed'
    BY <2>2, <2>3, <2>4
  <2>6. AuthzClientInv(client, FALSE, k)'
    BY <2>1, <2>5 DEF AuthzClientInv
  <2>7. authzClient # None => authzClient # client
    BY <2>3
  <2> QED
    BY <1>2, <2>2, <2>6, <2>7
<1> QED
  BY <1>3, <1>4

LEMMA FinishClients ==
    ASSUME NEW old \in Configs, NEW new \in Configs, NEW cps, NEW jwts, NEW k \in Nat,
           NEW left \in SUBSET CpNames(new), Sound(old, new, cps, left, {}, k),
           UNCHANGED <<agentClient, closing>>, reloads' = k, config' = new, prev' = old,
           Replaced(old, new, cps, left) = {},
           FinishControlplanes(old, new, cps, jwts, left, k)
    PROVE  ClientInv'
<1> DEFINE cps1 == Connected(old, new, cps, left, k)
<1>1. /\ at' = None /\ removing' = {} /\ adding' = {}
      /\ cpClient' = cps1
      /\ opened' = opened \cup InUse(cps1, authzClient')
      /\ stage' \in {"authz", "idle"} /\ Moving' = FALSE
      /\ LeavesStale(old, new, {})
  BY DEF FinishControlplanes, Moving
<1>2. /\ CpClientsInv(cps1, left \ left, k)
      /\ \A m \in CpName : \/ cps1[m] = cps[m] /\ (m \in left => ~Changed(old, new, m))
                           \/ /\ m \in left /\ Changed(old, new, m)
                              /\ cps1[m] \in ClientType /\ cps1[m].born = k
                              /\ cps1[m].kind = "controlplane"
  <2>1. CpClientsInv(cps, left, k)
    BY DEF Sound
  <2>2. CpClientsInv(cps1, left \ left, k) /\ Renewed(old, new, cps, left, k, cps1)
    BY <2>1, ConnectedClients
  <2> QED
    BY <2>2 DEF Renewed
<1> HIDE DEF cps1
<1>3. CpClientsInv(cpClient', Pending', k)
  <2>1. Pending' = left \ left
    BY <1>1 DEF Pending
  <2> QED
    BY <1>1, <1>2, <2>1
<1>4. /\ AuthzClientInv(authzClient, FALSE, k)'
      /\ closed \subseteq closed'
      /\ \A c \in closed' \ closed :
            /\ c = authzClient /\ c # authzClient'
            /\ c \in ClientType /\ c.kind = "authz" /\ c.born < k
      /\ authzClient' = authzClient \/ authzClient = None \/ authzClient \in closed'
  BY SwapAuthzClient DEF Sound
<1>5. \A m \in CpNames(new) : m \notin stale' =>
         cpClient'[m] = None \/ cpClient'[m] \notin closed'
  <2> SUFFICES ASSUME NEW m \in CpNames(new), m \notin stale', cps1[m] # None
               PROVE  cps1[m] \notin closed'
    BY <1>1
  <2>0. m \in CpName /\ m # None /\ (Changed(old, new, m) \/ m \notin stale)
    BY <1>1, ConfigTypes, NoneIsNoName DEF LeavesStale
  <2>1. cps1[m].kind = "controlplane"
    BY <1>2, <2>0 DEF CpClientsInv
  <2>2. cps1[m] \notin closed
    <3>1. CASE cps1[m] = cps[m] /\ (m \in left => ~Changed(old, new, m))
      BY <2>0, <3>1 DEF Sound
    <3>2. CASE cps1[m] \in ClientType /\ cps1[m].born = k
      BY <2>1, <3>2 DEF Sound, ClosedInv
    <3> QED
      BY <1>2, <2>0, <3>1, <3>2
  <2> QED
    BY <1>4, <2>1, <2>2
<1>6. \A c \in InUse(cps1, authzClient') : c \in ClientType /\ c.kind # "agent"
  <2>1. authzClient' # None => authzClient' \in ClientType /\ authzClient'.kind = "authz"
    BY <1>4 DEF AuthzClientInv
  <2> QED
    BY <1>2, <2>1, NodeKinds
<1>7. AgentClientsInv'
  <2>1. /\ AgentClientsInv /\ opened \subseteq opened'
        /\ \A c \in opened' \ opened : c.kind # "agent"
        /\ \A c \in closed' \ closed : c.kind # "agent"
    BY <1>1, <1>4, <1>6 DEF Sound
  <2> QED
    BY <1>4, <2>1, AgentsStay
<1>8. ClosedInv(closed', k) /\ closed' \subseteq ClientType
  BY <1>4 DEF Sound, ClosedInv
<1>9. opened' \subseteq ClientType
  BY <1>1, <1>6 DEF Sound
<1> DEFINE K == InUse(cps1, authzClient') \cup RegisteredAgentClients \cup closing
<1>10. opened' \ closed' \subseteq Kept(cpClient, authzClient)'
  <2>1. ASSUME NEW c \in opened, c \notin closed'
        PROVE  c \in K
    <3>1. c \in Kept(cps, authzClient) /\ c # None
      <4>1. opened \subseteq ClientType /\ opened \ closed \subseteq Kept(cps, authzClient)
        BY DEF Sound
      <4> QED
        BY <1>4, <2>1, <4>1, NoneIsNoClient
    <3>2. CASE \E m \in CpName : c = cps[m]
      <4>1. PICK m \in CpName : c = cps[m]
        BY <3>2
      <4>2. cps1[m] = cps[m]
        BY <1>2, <3>1, <4>1 DEF Replaced
      <4> QED
        BY <3>1, <4>1, <4>2 DEF InUse, Kept
    <3>3. CASE c = authzClient
      BY <1>4, <2>1, <3>1, <3>3 DEF InUse, Kept
    <3>4. CASE c \in RegisteredAgentClients \cup closing
      BY <3>4
    <3> QED
      BY <3>1, <3>2, <3>3, <3>4 DEF InUse, Kept
  <2>2. Kept(cpClient, authzClient)' = K
    BY <1>1 DEF Kept, InUse, RegisteredAgentClients
  <2>3. InUse(cps1, authzClient') \subseteq K
    OBVIOUS
  <2> QED
    BY <1>1, <2>1, <2>2, <2>3
<1> QED
  BY <1>1, <1>3, <1>4, <1>5, <1>7, <1>8, <1>9, <1>10
  DEF ClientInv, AuthzClientInv, CpClientsInv

(* A reload that is abandoned closes nothing; the client of "shut", which it *)
(* closed before, stays registered and is left behind.                       *)
LEMMA AbandonClients ==
    ASSUME NEW old \in Configs, NEW new \in Configs, NEW cps, NEW jwts, NEW k \in Nat,
           NEW left \in SUBSET CpNames(new), NEW done \in SUBSET left,
           NEW shut \in SUBSET (left \ done), Sound(old, new, cps, left, shut, k),
           \A m \in shut : Changed(old, new, m),
           \A m \in done : ~Changed(old, new, m) \/ cps[m] = None,
           UNCHANGED <<agentClient, closing>>, reloads' = k, config' = new, prev' = old,
           Abandon(old, new, done, cps, jwts, left, k)
    PROVE  ClientInv'
<1> DEFINE cps1 == Connected(old, new, cps, done, k)
<1>1. /\ at' = None /\ removing' = {} /\ adding' = {} /\ Moving' = FALSE
      /\ cpClient' = cps1
      /\ opened' = opened \cup InUse(cps1, authzClient)
      /\ LeavesStale(old, new, (left \ done) \cup {None})
      /\ UNCHANGED <<authzClient, closed>>
  BY DEF Abandon, Moving
<1>2. /\ CpClientsInv(cps1, left \ done, k)
      /\ \A m \in CpName : \/ cps1[m] = cps[m] /\ (m \in done => ~Changed(old, new, m))
                           \/ /\ m \in done /\ Changed(old, new, m)
                              /\ cps1[m] \in ClientType /\ cps1[m].born = k
                              /\ cps1[m].kind = "controlplane"
  <2>1. CpClientsInv(cps, left, k) /\ done \in SUBSET CpNames(new)
    BY DEF Sound
  <2>2. CpClientsInv(cps1, left \ done, k) /\ Renewed(old, new, cps, done, k, cps1)
    BY <2>1, ConnectedClients
  <2> QED
    BY <2>2 DEF Renewed
<1> HIDE DEF cps1
<1>3. CpClientsInv(cpClient', Pending', k)
  <2>1. Pending' = {}
    BY <1>1 DEF Pending
  <2> QED
    BY <1>1, <1>2, <2>1 DEF CpClientsInv
<1>4. \A m \in CpNames(new) : m \notin stale' =>
         cpClient'[m] = None \/ cpClient'[m] \notin closed'
  <2> SUFFICES ASSUME NEW m \in CpNames(new), m \notin stale', cps1[m] # None
               PROVE  cps1[m] \notin closed
    BY <1>1
  <2>1. /\ m \in CpName /\ m # None
        /\ IF Changed(old, new, m) THEN m \notin left \ done ELSE m \notin stale
    BY <1>1, ConfigTypes, NoneIsNoName DEF LeavesStale
  <2>2. m \notin shut
    BY <2>1
  <2>3. CASE cps1[m] = cps[m] /\ (m \in done => ~Changed(old, new, m))
    BY <2>1, <2>2, <2>3 DEF Sound
  <2>4. CASE cps1[m] \in ClientType /\ cps1[m].born = k /\ cps1[m].kind = "controlplane"
    BY <2>4 DEF Sound, ClosedInv
  <2> QED
    BY <1>2, <2>1, <2>3, <2>4
<1>5. \A c \in InUse(cps1, authzClient) : c \in ClientType /\ c.kind # "agent"
  <2>1. authzClient # None => authzClient \in ClientType /\ authzClient.kind = "authz"
    BY DEF Sound, AuthzClientInv
  <2> QED
    BY <1>2, <2>1, NodeKinds
<1>6. AgentClientsInv'
  <2>1. /\ AgentClientsInv /\ opened \subseteq opened'
        /\ \A c \in opened' \ opened : c.kind # "agent"
        /\ closed' = closed
    BY <1>1, <1>5 DEF Sound
  <2> QED
    BY <2>1, AgentsStay
<1>7. AuthzClientInv(authzClient, FALSE, k)'
  BY <1>1 DEF Sound, AuthzClientInv
<1>8. ClosedInv(closed', k) /\ closed' \subseteq ClientType /\ opened' \subseteq ClientType
  BY <1>1, <1>5 DEF Sound
<1>9. opened' \ closed' \subseteq Kept(cpClient, authzClient)'
  <2>1. ASSUME NEW c \in opened, c \notin closed
        PROVE  c \in Kept(cps1, authzClient)
    <3>1. c \in Kept(cps, authzClient) /\ c # None
      BY <2>1, NoneIsNoClient DEF Sound
    <3>2. CASE \E m \in CpName : c = cps[m]
      <4>1. PICK m \in CpName : c = cps[m]
        BY <3>2
      <4>2. cps1[m] = cps[m]
        BY <1>2, <3>1, <4>1
      <4> QED
        BY <3>1, <4>1, <4>2 DEF InUse, Kept
    <3> QED
      BY <3>1, <3>2 DEF InUse, Kept
  <2>2. Kept(cpClient, authzClient)' = Kept(cps1, authzClient)
    BY <1>1 DEF Kept, InUse, RegisteredAgentClients
  <2>3. InUse(cps1, authzClient) \subseteq Kept(cps1, authzClient)
    BY DEF Kept
  <2> QED
    BY <1>1, <2>1, <2>2, <2>3
<1> QED
  BY <1>1, <1>3, <1>4, <1>6, <1>7, <1>8, <1>9 DEF ClientInv, AuthzClientInv, CpClientsInv

(* However the reload goes on.                                               *)
LEMMA OnwardClients ==
    ASSUME NEW old \in Configs, NEW new \in Configs, NEW cps, NEW jwts, NEW k \in Nat,
           NEW gone \in SUBSET (CpName \ CpNames(new)), NEW left \in SUBSET CpNames(new),
           Sound(old, new, cps, gone \cup left, {}, k), \A n \in gone : cps[n] # None,
           UNCHANGED <<agentClient, closing>>,
           config' = new, prev' = old, reloads' = k,
           Onward(old, new, cps, jwts, gone, left, k)
    PROVE  ClientInv'
<1> DEFINE loud == Replaced(old, new, cps, left)
<1>1. CASE \E n \in gone : Remove(n, cps, jwts, gone, left)
  BY <1>1, RemoveClients
<1>2. ASSUME gone = {} PROVE Sound(old, new, cps, left, {}, k)
  <2>1. gone \cup left = left
    BY <1>2
  <2> QED
    BY <2>1
<1>3. CASE gone = {} /\ \E n \in loud, done \in SUBSET (left \ loud) :
                            Replace(old, new, n, done, cps, jwts, left, k)
  BY <1>2, <1>3, ReplaceClients
<1>4. CASE gone = {} /\ \E done \in SUBSET (left \ loud) :
                            Abandon(old, new, done, cps, jwts, left, k)
  <2>1. PICK done \in SUBSET (left \ loud) : Abandon(old, new, done, cps, jwts, left, k)
    BY <1>4
  <2>2. \A m \in done : ~Changed(old, new, m) \/ cps[m] = None
    BY DEF Replaced
  <2> HIDE DEF loud
  <2> QED
    BY <1>2, <1>4, <2>1, <2>2, AbandonClients
<1>5. CASE gone = {} /\ loud = {} /\ FinishControlplanes(old, new, cps, jwts, left, k)
  BY <1>2, <1>5, FinishClients
<1>6. loud \subseteq left
  BY DEF Replaced
<1> DEFINE silent == left \ (loud \cup Broken(old, new, left))
<1>7. \/ \E n \in gone : Remove(n, cps, jwts, gone, left)
      \/ gone = {} /\ \E n \in loud, done \in SUBSET silent :
                          Replace(old, new, n, done, cps, jwts, left, k)
      \/ gone = {} /\ \E done \in SUBSET silent : Abandon(old, new, done, cps, jwts, left, k)
      \/ gone = {} /\ left = silent /\ Abandon(old, new, left, cps, jwts, left, k)
      \/ gone = {} /\ left = silent /\ FinishControlplanes(old, new, cps, jwts, left, k)
  BY DEF Onward
<1>8. /\ SUBSET silent \subseteq SUBSET (left \ loud)
      /\ left = silent => loud = {} /\ left \in SUBSET (left \ loud)
  BY <1>6
<1> HIDE DEF loud, silent
<1> QED
  BY <1>1, <1>3, <1>4, <1>5, <1>7, <1>8

(* A reload begins: everything there is is older.                            *)
LEMMA ReloadClients ==
    ASSUME ReloadInv, NodeInv, ClientInv, NEW new \in Configs, Reload(new)
    PROVE  ClientInv'
<1> DEFINE gone == {n \in CpName : cpClient[n] # None} \ CpNames(new)
           k == reloads + 1
<1>1. /\ stage = "idle" /\ config' = new /\ prev' = config /\ config \in Configs
      /\ Onward(config, new, cpClient, cpJwt, gone, CpNames(new), k)
      /\ UNCHANGED <<agentClient, closing>> /\ reloads' = k
      /\ at = None /\ reloads \in Nat /\ k \in Nat /\ ~Moving
  BY NoneIsNoName DEF Reload, ReloadInv, Pending, Moving
<1>2. /\ gone \in SUBSET (CpName \ CpNames(new)) /\ \A n \in gone : cpClient[n] # None
      /\ reloads < k
  BY <1>1
<1>3. CpClientsInv(cpClient, gone \cup CpNames(new), k)
  <2> HIDE DEF gone
  <2> QED
    BY <1>1, <1>2 DEF ClientInv, CpClientsInv, ClientType
<1>4. AuthzClientInv(authzClient, TRUE, k)
  BY <1>1, <1>2 DEF ClientInv, AuthzClientInv, ClientType
<1>5. ClosedInv(closed, k)
  BY <1>1, <1>2 DEF ClientInv, ClosedInv, ClientType
<1>6. ASSUME NEW n \in CpNames(new), n \notin stale
      PROVE  cpClient[n] = None \/ cpClient[n] \notin closed
  <2>1. n \in CpName /\ n # at
    BY <1>1, ConfigTypes, NoneIsNoName
  <2>2. CASE n \in CpNames(config)
    BY <1>6, <2>1, <2>2 DEF ClientInv
  <2>3. CASE n \notin CpNames(config)
    BY <1>1, <2>1, <2>3 DEF NodeInv, CpSettled, CpAs
  <2> QED
    BY <2>2, <2>3
<1>7. Sound(config, new, cpClient, gone \cup CpNames(new), {}, k)
  <2> HIDE DEF gone, k
  <2> QED
    BY <1>1, <1>3, <1>4, <1>5, <1>6 DEF ClientInv, Sound
<1> HIDE DEF gone, k
<1> QED
  BY <1>1, <1>2, <1>7, OnwardClients

(* The client whose URL changed is closed, and another one takes its place.  *)
LEMMA ReplacedClient ==
    ASSUME ReloadInv, ClientInv, stage = "adding"
    PROVE  Sound(prev, config, Connected(prev, config, cpClient, {at}, reloads), adding, {},
                 reloads)
<1> DEFINE cps == Connected(prev, config, cpClient, {at}, reloads)
<1>1. /\ prev \in Configs /\ config \in Configs /\ reloads \in Nat
      /\ at \in CpNames(config) \ adding /\ removing = {} /\ at # None
      /\ CpNames(config) \subseteq CpName
  BY ConfigTypes DEF ReloadInv
<1>2. /\ CpClientsInv(cps, adding, reloads)
      /\ \A n \in CpName : \/ cps[n] = cpClient[n] /\ (n = at => ~Changed(prev, config, n))
                           \/ /\ n = at /\ Changed(prev, config, n)
                              /\ cps[n] \in ClientType /\ cps[n].born = reloads
                              /\ cps[n].kind = "controlplane"
  <2>1. CpClientsInv(cpClient, Pending, reloads) /\ Pending \ {at} = adding
    BY <1>1 DEF ClientInv, Pending
  <2>2. {at} \in SUBSET CpNames(config)
    BY <1>1
  <2>3. /\ CpClientsInv(cps, Pending \ {at}, reloads)
        /\ Renewed(prev, config, cpClient, {at}, reloads, cps)
    BY <1>1, <2>1, <2>2, ConnectedClients
  <2> QED
    BY <2>1, <2>3 DEF Renewed
<1> HIDE DEF cps
<1>3. Changed(prev, config, at) /\ cpClient[at] \in closed
  BY <1>1 DEF ClientInv
<1>4. \A n \in CpName : n # at => cps[n] = cpClient[n]
  BY <1>2
<1>p. Pending = adding \cup {at} /\ Moving
  BY <1>1 DEF Pending, Moving
<1>5. ASSUME NEW n \in CpNames(config),
             n \notin stale \/ (n \notin adding /\ Changed(prev, config, n))
      PROVE  cps[n] = None \/ cps[n] \notin closed
  <2>1. CASE n = at
    BY <1>1, <1>2, <1>3, <2>1 DEF ClientInv, ClosedInv, ClientType
  <2>2. CASE n # at
    <3>1. cps[n] = cpClient[n]
      BY <1>1, <1>4, <2>2
    <3> QED
      BY <1>5, <1>p, <2>2, <3>1 DEF ClientInv
  <2> QED
    BY <2>1, <2>2
<1>6. opened \ closed \subseteq Kept(cps, authzClient)
  <2> SUFFICES ASSUME NEW c \in opened, c \notin closed
               PROVE  c \in Kept(cps, authzClient)
    OBVIOUS
  <2>1. c \in Kept(cpClient, authzClient)
    BY DEF ClientInv
  <2>2. CASE \E n \in CpName : c = cpClient[n]
    <3>1. PICK n \in CpName : c = cpClient[n]
      BY <2>2
    <3>2. cps[n] = c
      BY <1>3, <1>4, <3>1
    <3> QED
      BY <2>1, <3>1, <3>2 DEF InUse, Kept
  <2> QED
    BY <2>1, <2>2 DEF InUse, Kept
<1> QED
  <2>1. AuthzClientInv(authzClient, TRUE, reloads)
    BY <1>p DEF ClientInv
  <2> QED
    BY <1>2, <1>5, <1>6, <2>1 DEF ClientInv, Sound, cps

LEMMA ResumeClients ==
    ASSUME ReloadInv, ClientInv, ResumeReload
    PROVE  ClientInv'
<1>1. /\ prev \in Configs /\ config \in Configs /\ reloads \in Nat
      /\ UNCHANGED <<config, prev, reloads, agentClient, closing>>
  BY DEF ReloadInv, ResumeReload
<1>2. CASE stage = "removing"
  <2>1. Onward(prev, config, cpClient, cpJwt, removing, adding, reloads)
    BY <1>2 DEF ResumeReload
  <2>2. /\ removing \in SUBSET (CpName \ CpNames(config))
        /\ adding \in SUBSET CpNames(config) /\ at = None
        /\ Pending = removing \cup adding /\ Moving
    BY <1>2 DEF ReloadInv, Pending, Moving
  <2>c. CpNames(config) \subseteq CpName /\ None \notin CpName
    BY <1>1, ConfigTypes, NoneIsNoName
  <2>3. Sound(prev, config, cpClient, removing \cup adding, {}, reloads)
    BY <1>2, <2>2, <2>c DEF ClientInv, Sound
  <2>4. \A n \in removing : cpClient[n] # None
    BY DEF ClientInv
  <2> QED
    BY <1>1, <2>1, <2>2, <2>3, <2>4, OnwardClients
<1>a. CASE stage = "adding" /\ UrlOf(config, at) \in Malformed
  <2>1. Abandon(prev, config, {}, cpClient, cpJwt, adding \cup {at}, reloads)
    BY <1>a DEF ResumeReload
  <2>2. /\ adding \cup {at} \in SUBSET CpNames(config) /\ at \notin adding
        /\ Pending = adding \cup {at} /\ Moving /\ at # None
    BY <1>a, ConfigTypes, NoneIsNoName DEF ReloadInv, Pending, Moving
  <2>3. Changed(prev, config, at)
    BY <2>2 DEF ClientInv
  <2>4. Sound(prev, config, cpClient, adding \cup {at}, {at}, reloads)
    BY <2>2 DEF ClientInv, Sound
  <2>5. {at} \in SUBSET ((adding \cup {at}) \ {}) /\ {} \in SUBSET (adding \cup {at})
    OBVIOUS
  <2> QED
    BY <1>1, <2>1, <2>2, <2>3, <2>4, <2>5, AbandonClients
<1>3. CASE stage = "adding" /\ UrlOf(config, at) \notin Malformed
  <2> DEFINE cps == Connected(prev, config, cpClient, {at}, reloads)
             jwts == Authorized(prev, config, cpJwt, {at})
  <2>1. Onward(prev, config, cps, jwts, {}, adding, reloads)
    BY <1>3 DEF ResumeReload
  <2>2. Sound(prev, config, cps, {} \cup adding, {}, reloads)
    <3>1. {} \cup adding = adding
      OBVIOUS
    <3> QED
      BY <1>3, <3>1, ReplacedClient
  <2>3. adding \in SUBSET CpNames(config)
    BY <1>3 DEF ReloadInv
  <2> HIDE DEF cps, jwts
  <2> QED
    BY <1>1, <2>1, <2>2, <2>3, OnwardClients
<1>4. CASE stage = "authz"
  <2>1. /\ stage' = "idle"
        /\ UNCHANGED <<at, removing, adding, stale, cpClient, authzClient, opened, closed>>
    BY <1>4 DEF ResumeReload
  <2>2. Pending' = Pending /\ Moving = FALSE /\ Moving' = FALSE
    BY <1>4, <2>1 DEF Pending, Moving
  <2>3. AgentClientsInv' /\ Kept(cpClient, authzClient)' = Kept(cpClient, authzClient)
    BY <1>1, <2>1 DEF ClientInv, AgentClientsInv, AgentClientsOf, Kept, InUse,
                      RegisteredAgentClients
  <2>4. AuthzClientInv(authzClient, FALSE, reloads)'
    BY <1>1, <2>1, <2>2 DEF ClientInv, AuthzClientInv
  <2> QED
    BY <1>1, <2>1, <2>2, <2>3, <2>4 DEF ClientInv, AuthzClientInv, CpClientsInv, ClosedInv,
                                        Changed
<1> QED
  BY <1>2, <1>3, <1>4, <1>a DEF ResumeReload
-----------------------------------------------------------------------------
(* A request to an agent creates a client when the target has none: one that *)
(* is told from all the target had before.                                   *)
LEMMA NewAgentClient ==
    ASSUME ClientInv, NEW y \in Target, NEW c, c = AgentClient(y),
           agentClient' = [agentClient EXCEPT ![y] = c], opened' = opened \cup {c},
           UNCHANGED <<closed, closing>>
    PROVE  /\ AgentClientsInv' /\ c \in ClientType /\ c.kind = "agent"
           /\ c = agentClient'[y]
           /\ agentClient[y] # None => agentClient'[y] = agentClient[y]
<1>1. /\ AgentClientsInv /\ opened \subseteq ClientType /\ agentClient'[y] = c
      /\ \A x \in Target : x # y => agentClient'[x] = agentClient[x]
      /\ agentClient' = [x \in Target |-> agentClient'[x]]
  BY DEF ClientInv, AgentClientsInv
<1>2. IsFiniteSet(AgentClientsOf(y)) /\ Cardinality(AgentClientsOf(y)) \in Nat
  BY <1>1, FS_CardinalityType DEF AgentClientsInv
<1>3. CASE agentClient[y] # None
  <2>1. c = agentClient[y] /\ c \in opened /\ c.kind = "agent"
    BY <1>1, <1>3 DEF AgentClient, AgentClientsInv
  <2>2. agentClient' = agentClient /\ opened' = opened
    BY <1>1, <2>1 DEF AgentClientsInv
  <2>3. AgentClientsInv'
    BY <1>1, <2>2 DEF AgentClientsInv, AgentClientsOf
  <2> QED
    BY <1>1, <2>1, <2>3
<1>4. CASE agentClient[y] = None
  <2> DEFINE m == Cardinality(AgentClientsOf(y))
  <2>1. c = [kind |-> "agent", of |-> y, base |-> y, born |-> m]
    BY <1>4 DEF AgentClient
  <2>2. c \in ClientType /\ c.kind = "agent" /\ c.of = y /\ c.born = m
    BY <1>2, <2>1 DEF ClientType
  <2> HIDE DEF m
  <2>3. c \notin AgentClientsOf(y)
    <3>1. \A d \in AgentClientsOf(y) : d.born < m /\ d.born \in Nat
      BY <1>1 DEF AgentClientsInv, AgentClientsOf, ClientType, m
    <3> QED
      BY <2>2, <3>1
  <2>4. c \notin opened /\ c \notin closed \cup closing
    BY <1>1, <2>2, <2>3 DEF AgentClientsOf, AgentClientsInv
  <2>5. /\ AgentClientsOf(y)' = AgentClientsOf(y) \cup {c}
        /\ \A x \in Target : x # y => AgentClientsOf(x)' = AgentClientsOf(x)
    BY <2>2 DEF AgentClientsOf
  <2>6. /\ IsFiniteSet(AgentClientsOf(y)')
        /\ Cardinality(AgentClientsOf(y)') = m + 1
    BY <1>2, <2>3, <2>5, FS_AddElement DEF m
  <2>7. ASSUME NEW x \in Target
        PROVE  /\ IsFiniteSet(AgentClientsOf(x)')
               /\ \A d \in AgentClientsOf(x)' : d.born < Cardinality(AgentClientsOf(x)')
    <3>1. CASE x = y
      <4>1. \A d \in AgentClientsOf(y) : d.born < m /\ d.born \in Nat
        BY <1>1 DEF AgentClientsInv, AgentClientsOf, ClientType, m
      <4>2. \A d \in AgentClientsOf(y)' : d.born < m + 1
        BY <1>2, <2>2, <2>5, <4>1 DEF m
      <4> QED
        BY <2>6, <3>1, <4>2
    <3>2. CASE x # y
      BY <1>1, <2>5, <3>2 DEF AgentClientsInv
    <3> QED
      BY <3>1, <3>2
  <2>8. ASSUME NEW x \in Target, agentClient'[x] # None
        PROVE  /\ agentClient'[x] \in opened'
               /\ agentClient'[x].kind = "agent" /\ agentClient'[x].of = x
               /\ agentClient'[x] \notin closed' \cup closing'
    BY <1>1, <2>2, <2>4, <2>8 DEF AgentClientsInv
  <2>9. /\ closing' \subseteq opened' /\ \A d \in closing' : d.kind = "agent"
        /\ \A d \in closed' : d.kind = "agent" => d \in opened'
    BY <1>1 DEF AgentClientsInv
  <2> QED
    BY <1>1, <1>4, <2>2, <2>7, <2>8, <2>9 DEF AgentClientsInv
<1> QED
  BY <1>3, <1>4

LEMMA AgentRequest ==
    ASSUME ClientInv, NEW t, NEW q, q.route \in RouteType, NEW more, ToAgent(t, q, more),
           UNCHANGED <<config, reloads, nodes, closed, closing, reload>>
    PROVE  ClientInv'
<1> DEFINE y == q.route.target
           c == AgentClient(y)
<1>1. /\ agentClient' = [agentClient EXCEPT ![y] = c] /\ opened' = opened \cup {c}
      /\ y \in Target
  BY DEF ToAgent, RouteType
<1>2. UNCHANGED <<config, reloads, cpClient, authzClient, closed, closing, prev, stage,
                  at, removing, adding, stale>>
  BY DEF nodes, reload, behind
<1> HIDE DEF y
<1>3. /\ AgentClientsInv' /\ c \in ClientType /\ c.kind = "agent"
      /\ c = agentClient'[y]
      /\ agentClient[y] # None => agentClient'[y] = agentClient[y]
  BY <1>1, <1>2, NewAgentClient
<1>4. \A x \in Target : x # y => agentClient'[x] = agentClient[x]
  BY <1>1 DEF ClientInv, AgentClientsInv
<1> HIDE DEF c
<1>5. opened' \ closed' \subseteq Kept(cpClient, authzClient)'
  <2>1. c \in RegisteredAgentClients'
    BY <1>1, <1>3, NoneIsNoClient DEF RegisteredAgentClients
  <2>2. RegisteredAgentClients \subseteq RegisteredAgentClients'
    BY <1>3, <1>4 DEF RegisteredAgentClients
  <2>3. Kept(cpClient, authzClient) \subseteq Kept(cpClient, authzClient)'
    BY <1>2, <2>2 DEF Kept, InUse
  <2>4. c \in Kept(cpClient, authzClient)'
    BY <2>1 DEF Kept
  <2> QED
    BY <1>1, <1>2, <2>3, <2>4 DEF ClientInv
<1>6. Pending' = Pending /\ Moving' = Moving
  BY <1>2 DEF Pending, Moving
<1>7. opened' \subseteq ClientType
  BY <1>1, <1>3 DEF ClientInv
<1> QED
  BY <1>2, <1>3, <1>5, <1>6, <1>7 DEF ClientInv, AuthzClientInv

(* A client that is pruned is kept until it is closed.                       *)
LEMMA PruneClients ==
    ASSUME ClientInv, NEW active, Prune(active)
    PROVE  ClientInv'
<1>1. /\ agentClient' = [x \in Target |-> IF x \in active THEN agentClient[x] ELSE None]
      /\ closing' = closing \cup ({agentClient[x] : x \in Target \ active} \ {None})
      /\ UNCHANGED <<config, reloads, cpClient, authzClient, opened, closed, prev, stage,
                     at, removing, adding, stale>>
  BY DEF Prune, nodes, reload, behind
<1>2. \A x : AgentClientsOf(x)' = AgentClientsOf(x)
  BY <1>1 DEF AgentClientsOf
<1>3. ASSUME NEW x \in Target, agentClient'[x] # None
      PROVE  /\ agentClient'[x] \in opened'
             /\ agentClient'[x].kind = "agent" /\ agentClient'[x].of = x
             /\ agentClient'[x] \notin closed' \cup closing'
  <2>1. x \in active /\ agentClient'[x] = agentClient[x]
    BY <1>1, <1>3
  <2>2. agentClient[x] \notin {agentClient[z] : z \in Target \ active} \ {None}
    BY <1>3, <2>1 DEF ClientInv, AgentClientsInv
  <2> QED
    BY <1>1, <1>3, <2>1, <2>2 DEF ClientInv, AgentClientsInv
<1>4. closing' \subseteq opened' /\ \A c \in closing' : c.kind = "agent"
  BY <1>1 DEF ClientInv, AgentClientsInv
<1>5. AgentClientsInv'
  BY <1>1, <1>2, <1>3, <1>4 DEF ClientInv, AgentClientsInv
<1>6. Kept(cpClient, authzClient) \subseteq Kept(cpClient, authzClient)'
  BY <1>1 DEF Kept, InUse, RegisteredAgentClients
<1>7. Pending' = Pending /\ Moving' = Moving
  BY <1>1 DEF Pending, Moving
<1> QED
  BY <1>1, <1>5, <1>6, <1>7 DEF ClientInv, AuthzClientInv

LEMMA ClosedAgentClient ==
    ASSUME ReloadInv, ClientInv, NEW c \in closing, CloseAgentClient(c)
    PROVE  ClientInv'
<1>1. /\ closing' = closing \ {c} /\ closed' = closed \cup {c}
      /\ UNCHANGED <<config, reloads, cpClient, authzClient, agentClient, opened, prev,
                     stage, at, removing, adding, stale>>
  BY DEF CloseAgentClient, nodes, reload, behind
<1>2. c \in opened /\ c.kind = "agent" /\ c \in ClientType
  BY DEF ClientInv, AgentClientsInv
<1>3. \A x : AgentClientsOf(x)' = AgentClientsOf(x)
  BY <1>1 DEF AgentClientsOf
<1>4. AgentClientsInv'
  BY <1>1, <1>2, <1>3 DEF ClientInv, AgentClientsInv
<1>5. opened' \ closed' \subseteq Kept(cpClient, authzClient)'
  BY <1>1 DEF ClientInv, Kept, InUse, RegisteredAgentClients
<1>6. Pending' = Pending /\ Moving' = Moving
  BY <1>1 DEF Pending, Moving
<1>7. ClosedInv(closed', reloads) /\ closed' \subseteq ClientType
  BY <1>1, <1>2 DEF ClientInv, ClosedInv
<1>8. \A n \in CpName : cpClient[n] # None => cpClient[n] # c
  BY <1>2 DEF ClientInv, CpClientsInv
<1>9. AuthzClientInv(authzClient, Moving, reloads)'
  BY <1>1, <1>2, <1>6 DEF ClientInv, AuthzClientInv
<1>10. CpNames(config) \subseteq CpName
  BY ConfigTypes DEF ReloadInv
<1> QED
  BY <1>1, <1>4, <1>5, <1>6, <1>7, <1>8, <1>9, <1>10 DEF ClientInv

LEMMA ClientsStay ==
    ASSUME ClientInv,
           UNCHANGED <<config, reloads, nodes, agentClient, opened, closed, closing, reload>>
    PROVE  ClientInv'
<1>1. UNCHANGED <<config, reloads, cpClient, authzClient, agentClient, opened, closed,
                  closing, prev, stage, at, removing, adding, stale>>
  BY DEF nodes, reload, behind
<1>2. /\ Pending' = Pending /\ Moving' = Moving
      /\ Kept(cpClient, authzClient)' = Kept(cpClient, authzClient)
  BY <1>1 DEF Pending, Moving, Kept, InUse, RegisteredAgentClients
<1>3. AgentClientsInv'
  BY <1>1 DEF ClientInv, AgentClientsInv, AgentClientsOf
<1> QED
  BY <1>1, <1>2, <1>3 DEF ClientInv, AuthzClientInv
-----------------------------------------------------------------------------
LEMMA ClientInit == Init => ClientInv
<1> SUFFICES ASSUME Init PROVE ClientInv
  OBVIOUS
<1>1. /\ config \in Configs /\ prev = config /\ stage = "idle" /\ reloads = 0
      /\ removing = {} /\ adding = {} /\ at = None /\ ~Moving
      /\ cpClient = [n \in CpName |-> IF n \in CpNames(config)
                                      THEN CpClientOf(config, n, 0) ELSE None]
      /\ authzClient = AuthzClientOf(config, 0)
      /\ agentClient = [x \in Target |-> None]
      /\ opened = InUse(cpClient, authzClient)
      /\ closed = {} /\ closing = {}
  BY ProxyConstants DEF Init, InitClients, Moving
<1>2. CpClientsInv(cpClient, {}, 0)
  <2>1. ASSUME NEW n \in CpName, cpClient[n] # None
        PROVE  /\ cpClient[n] \in ClientType
               /\ cpClient[n].kind = "controlplane" /\ cpClient[n].of = n
               /\ cpClient[n].born <= 0
    <3>1. n \in CpNames(config) /\ cpClient[n] = CpClientOf(config, n, 0)
      BY <1>1, <2>1
    <3>2. CpClientOf(config, n, 0) \in ClientType
      BY <1>1, <3>1, NewClients
    <3> QED
      BY <3>1, <3>2 DEF CpClientOf
  <2>2. cpClient = [n \in CpName |-> cpClient[n]]
    BY <1>1
  <2> QED
    BY <2>1, <2>2 DEF CpClientsInv
<1>3. AuthzClientInv(authzClient, FALSE, 0)
  BY <1>1, NewAuthzClient DEF AuthzClientInv
<1>4. \A c \in opened : c \in ClientType /\ c.kind # "agent"
  <2>1. authzClient # None => authzClient \in ClientType /\ authzClient.kind = "authz"
    BY <1>3 DEF AuthzClientInv
  <2> QED
    BY <1>1, <1>2, <2>1, NodeKinds
<1>5. AgentClientsInv
  <2>1. \A x \in Target : AgentClientsOf(x) = {}
    BY <1>4 DEF AgentClientsOf
  <2>2. \A x \in Target : IsFiniteSet(AgentClientsOf(x)) /\ agentClient[x] = None
    BY <1>1, <2>1, FS_EmptySet
  <2> QED
    BY <1>1, <2>1, <2>2 DEF AgentClientsInv
<1>6. opened \ closed \subseteq Kept(cpClient, authzClient)
  BY <1>1 DEF Kept
<1>7. Pending = {}
  BY <1>1 DEF Pending
<1> QED
  BY <1>1, <1>2, <1>3, <1>4, <1>5, <1>6, <1>7 DEF ClientInv, AuthzClientInv, ClosedInv

(* A request that arrives, or whose token is validated, creates at most a    *)
(* client for an agent.                                                      *)
LEMMA DispatchClients ==
    ASSUME DispatchInv, ClientInv, NEW t \in Request,
           \/ \E p \in Paths, l \in BOOLEAN, h \in Inbound : Arrive(t, p, l, h)
           \/ Validated(t)
    PROVE  ClientInv'
<1>1. /\ RoutesInv /\ RequestsInv
      /\ UNCHANGED <<config, reloads, nodes, closed, closing, reload>>
  BY DEF DispatchInv, Arrive, Validated
<1>2. CASE ClientsUnchanged
  BY <1>1, <1>2, ClientsStay DEF ClientsUnchanged
<1>3. CASE \E q, more : q.route \in RouteType /\ ToAgent(t, q, more)
  BY <1>1, <1>3, AgentRequest
<1>4. ASSUME NEW p \in Paths, NEW l \in BOOLEAN, NEW h \in Inbound, Arrive(t, p, l, h)
      PROVE  ClientsUnchanged \/ \E q, more : q.route \in RouteType /\ ToAgent(t, q, more)
  <2> DEFINE q == Arrived(p, l, h, Lookup(routes, p), config.issuer, InForce)
  <2>1. IF q.route = None THEN Reply(t, "404") /\ ClientsUnchanged
        ELSE IF l THEN DispatchLocal(t, q) ELSE DispatchExternal(t, q)
    BY <1>4 DEF Arrive, InForce, Arrived
  <2>2. q.route = Lookup(routes, p)
    BY ArrivedRecord
  <2> HIDE DEF q
  <2>3. q.route = None \/ q.route \in RouteType
    BY <1>1, <2>2, RoutedByAnEntry
  <2>4. ClientsUnchanged \/ \E more : ToAgent(t, q, more)
    BY <2>1 DEF DispatchLocal, DispatchExternal, ToControlplane, ToAuthz
  <2>5. q.route = None => ClientsUnchanged
    BY <2>1
  <2> QED
    BY <2>3, <2>4, <2>5
<1>5. ASSUME Validated(t)
      PROVE  ClientsUnchanged \/ \E q, more : q.route \in RouteType /\ ToAgent(t, q, more)
  <2> DEFINE q == req[t]
  <2>1. pc[t] = "validating"
        /\ (ClientsUnchanged \/ ToAgent(t, q, ExternalHeaders(TokenIn(q.headers))))
    BY <1>5 DEF Validated, ToControlplane
  <2>2. q.route \in RouteType
    BY <1>1, <2>1 DEF RequestsInv, RequestInv, Validating
  <2> QED
    BY <2>1, <2>2
<1> QED
  BY <1>2, <1>3, <1>4, <1>5

LEMMA ClientNext == DispatchInv /\ ClientInv /\ [Next]_vars => ClientInv'
<1> SUFFICES ASSUME DispatchInv, ClientInv, [Next]_vars PROVE ClientInv'
  OBVIOUS
<1>1. ReloadInv /\ NodeInv
  BY DEF DispatchInv
<1>2. ASSUME NEW new \in Configs, Reload(new) PROVE ClientInv'
  BY <1>1, <1>2, ReloadClients
<1>3. CASE ResumeReload
  BY <1>1, <1>3, ResumeClients
<1>4. CASE DiscoveryUpdates
  BY <1>4, ClientsStay DEF DiscoveryUpdates, clients
<1>5. ASSUME NEW active, Prune(active) PROVE ClientInv'
  BY <1>5, PruneClients
<1>6. ASSUME NEW c \in closing, CloseAgentClient(c) PROVE ClientInv'
  BY <1>1, <1>6, ClosedAgentClient
<1>7. ASSUME NEW t \in Request, NEW p \in Paths, NEW l \in BOOLEAN, NEW h \in Inbound,
             Arrive(t, p, l, h)
      PROVE  ClientInv'
  BY <1>7, DispatchClients
<1>8. ASSUME NEW t \in Request, Validated(t) PROVE ClientInv'
  BY <1>8, DispatchClients
<1>9. CASE UNCHANGED manager
  BY <1>9, ClientsStay DEF manager, clients
<1>10. CASE UNCHANGED vars
  BY <1>9, <1>10 DEF vars
<1>11. ASSUME NEW t \in Request,
              \/ Refused(t) \/ BodyTooLarge(t) \/ Send(t)
              \/ SendFails(t) \/ Responds(t) \/ StreamEnds(t)
       PROVE  ClientInv'
  <2>1. UNCHANGED manager
    BY <1>11 DEF Refused, BodyTooLarge, Send, SendFails, Responds, StreamEnds
  <2> QED
    BY <1>9, <2>1
<1> QED
  BY <1>2, <1>3, <1>4, <1>5, <1>6, <1>7, <1>8, <1>10, <1>11
  DEF Next, ManagerStep, NextClients

(* The invariant about the clients holds always.                             *)
THEOREM ClientsKeepInv == Spec => []ClientInv
<1> QED
  BY ClientInit, ClientNext, DispatchKeepsInv, PTL DEF Spec

(* Between reloads the node has exactly the clients and tokens the current   *)
(* configuration asks for, open and to its URLs, but for what a reload left  *)
(* behind when it met a malformed URL, however many reloads came before and  *)
(* wherever each of them suspended or was abandoned.                         *)
THEOREM SettledClients == Spec => []SettledClientsMatch
<1>1. DispatchInv /\ ClientInv => SettledClientsMatch
  <2> SUFFICES ASSUME DispatchInv, ClientInv, stage = "idle"
               PROVE  AsConfigured(stale, untold)
    BY DEF SettledClientsMatch
  <2>1. /\ config \in Configs /\ CpNames(config) \subseteq CpName
        /\ at = None /\ ~Moving
    BY ConfigTypes, NoneIsNoName DEF DispatchInv, ReloadInv, Pending, Moving
  <2>2. \A n \in CpName : CpSettled(config, cpClient, cpJwt, n)
    BY <2>1 DEF DispatchInv, NodeInv
  <2>3. ASSUME NEW n \in CpNames(config)
        PROVE  /\ n \notin stale => /\ cpClient[n] # None /\ cpClient[n] \notin closed
                                  /\ cpClient[n].base = UrlOf(config, n)
               /\ n \notin untold => cpJwt[n] = config.token[n]
    <3>1. n \in CpName /\ n # at
      BY <2>1, NoneIsNoName
    <3>2. n \notin stale => cpClient[n] = None \/ cpClient[n] \notin closed
      BY <3>1 DEF ClientInv
    <3> QED
      BY <2>2, <3>1, <3>2 DEF CpSettled, CpAs
  <2>4. \A n \in CpName \ CpNames(config) : cpClient[n] = None
    BY <2>2 DEF CpSettled, CpAs
  <2>5. /\ None \notin stale => AuthzAs(config, authzClient)
        /\ None \notin untold => authzJwt = config.authzToken
        /\ authzClient # None => authzClient \notin closed
    BY <2>1 DEF DispatchInv, NodeInv, ClientInv, AuthzClientInv
  <2> QED
    BY <2>3, <2>4, <2>5 DEF AsConfigured, AuthzAs
<1> QED
  BY <1>1, DispatchKeepsInv, ClientsKeepInv, PTL

(* Every client is closed, about to be, or registered where a later reload,  *)
(* a prune or the shutdown finds it, at every point of a reload; and an      *)
(* agent client that is registered can be used.                              *)
THEOREM NoneLost == Spec => []NoClientIsLost
<1>1. ClientInv => NoClientIsLost
  BY DEF ClientInv, AgentClientsInv, Kept, NoClientIsLost, RegisteredAgentClients
<1> QED
  BY <1>1, ClientsKeepInv, PTL
-----------------------------------------------------------------------------
(* The types, for which requests need the clients to be there.               *)
States == {"idle", "validating", "reading", "sending", "streaming", "done"}

Statuses == {"none", "200", "401", "404", "413", "500", "502", "503", "504", "cut"}

HeaderValue == UserToken \cup NodeToken \cup {None, "", "local", "external", "some"}

\* headers that are added to a request
Extra(more) == DOMAIN more \subseteq Header /\ \A h \in DOMAIN more : more[h] \in HeaderValue

\* what a request has from its arrival on
Shaped(q) ==
    /\ q.path \in Paths /\ q.local \in BOOLEAN /\ q.headers \in Inbound
    /\ q.route \in RouteType /\ q.issuer \in Issuer /\ q.seen \subseteq Configs
    /\ q.behind \in BOOLEAN

\* before its client is chosen, and after
Fresh(q) == Shaped(q) /\ q.client = None /\ q.extra = Blank.extra

Ready(q) == Shaped(q) /\ q.client \in ClientType /\ Extra(q.extra)

\* what an upstream receives
Delivery == [base: Target, headers: HeadersType]

ShapeInv(t) ==
    /\ pc[t] = "validating" => Fresh(req[t])
    /\ pc[t] = "reading" => Ready(req[t])
    /\ pc[t] = "sending" => Ready(req[t]) /\ req[t].sent \in Delivery

TypeInv ==
    /\ updates \in Nat
    /\ cpPrefixes \in Seq(PathType) /\ authzPrefixes \in Seq(PathType)
    /\ pc \in [Request -> States] /\ reply \in [Request -> Statuses]
    /\ \A t \in Request : ShapeInv(t)

\* a step of a request
Moves(t) ==
    \/ \E status \in Statuses : Reply(t, status)
    \/ \E q : Go(t, "validating", q) /\ Fresh(q)
    \/ \E q : Go(t, "reading", q) /\ Ready(q)
    \/ \E q : Go(t, "sending", q) /\ Ready(q) /\ q.sent \in Delivery
    \/ Go(t, "streaming", Blank)

LEMMA MovesTyped ==
    ASSUME RequestsInv, TypeInv, NEW t \in Request, Moves(t),
           UNCHANGED <<updates, cpPrefixes, authzPrefixes>>
    PROVE  TypeInv'
<1>1. \E to \in States, status \in Statuses : \E q :
         /\ pc' = [pc EXCEPT ![t] = to] /\ req' = [req EXCEPT ![t] = q]
         /\ reply' = [reply EXCEPT ![t] = status]
         /\ to = "validating" => Fresh(q)
         /\ to = "reading" => Ready(q)
         /\ to = "sending" => Ready(q) /\ q.sent \in Delivery
  <2>1. CASE \E status \in Statuses : Reply(t, status)
    BY <2>1 DEF Reply, States
  <2>2. ASSUME NEW to \in States, NEW q, Go(t, to, q)
        PROVE  /\ pc' = [pc EXCEPT ![t] = to] /\ req' = [req EXCEPT ![t] = q]
               /\ reply' = [reply EXCEPT ![t] = reply[t]] /\ reply[t] \in Statuses
    BY <2>2 DEF Go, TypeInv
  <2>3. CASE \E q : Go(t, "validating", q) /\ Fresh(q)
    BY <2>2, <2>3 DEF States
  <2>4. CASE \E q : Go(t, "reading", q) /\ Ready(q)
    BY <2>2, <2>4 DEF States
  <2>5. CASE \E q : Go(t, "sending", q) /\ Ready(q) /\ q.sent \in Delivery
    BY <2>2, <2>5 DEF States
  <2>6. CASE Go(t, "streaming", Blank)
    BY <2>2, <2>6 DEF States
  <2> QED
    BY <2>1, <2>3, <2>4, <2>5, <2>6 DEF Moves
<1>2. PICK to, status, q :
         /\ to \in States /\ status \in Statuses
         /\ pc' = [pc EXCEPT ![t] = to] /\ req' = [req EXCEPT ![t] = q]
         /\ reply' = [reply EXCEPT ![t] = status]
         /\ to = "validating" => Fresh(q)
         /\ to = "reading" => Ready(q)
         /\ to = "sending" => Ready(q) /\ q.sent \in Delivery
  BY <1>1
<1>3. pc' \in [Request -> States] /\ reply' \in [Request -> Statuses]
  BY <1>2 DEF TypeInv
<1>4. ASSUME NEW u \in Request PROVE ShapeInv(u)'
  <2>1. CASE u = t
    <3>1. pc'[u] = to /\ req'[u] = q
      BY <1>2, <2>1 DEF TypeInv, RequestsInv
    <3> QED
      BY <1>2, <3>1 DEF ShapeInv
  <2>2. CASE u # t
    <3>1. pc'[u] = pc[u] /\ req'[u] = req[u]
      BY <1>2, <2>2 DEF TypeInv, RequestsInv
    <3> QED
      BY <3>1 DEF TypeInv, ShapeInv
  <2> QED
    BY <2>1, <2>2
<1> QED
  BY <1>3, <1>4 DEF TypeInv

LEMMA HoldTyped ==
    ASSUME NEW t, NEW q, Formed(q), Shaped(q), NEW c \in ClientType, NEW more, Extra(more),
           Hold(t, q, c, more)
    PROVE  Moves(t)
<1>1. Go(t, "reading", Held(q, c, more))
  BY DEF Hold, Held
<1>a. LeftBehind(q.route) \in BOOLEAN
  BY DEF LeftBehind
<1>2. Ready(Held(q, c, more))
  BY <1>a, HeldRecord DEF Ready, Shaped
<1> QED
  BY <1>1, <1>2 DEF Moves

(* The headers that are added are headers.                                   *)
LEMMA ExtraHeaders ==
    /\ Extra(LocalHeaders) /\ Extra(Blank.extra)
    /\ \A u \in UserToken \cup {None, ""} : Extra(ExternalHeaders(u))
    /\ \A v \in HeaderValue : Extra(Authorization(v)) /\ Orr(v) \in HeaderValue
<1>1. Blank.extra = [h \in {} |-> None]
  BY DEF Blank
<1> QED
  BY <1>1 DEF Extra, LocalHeaders, ExternalHeaders, Authorization, Header, HeaderValue, Orr

LEMMA ToControlplaneTyped ==
    ASSUME ClientInv, NEW t, NEW q, Formed(q), Shaped(q), q.route.cp \in CpName,
           NEW more, Extra(more), ToControlplane(t, q, more)
    PROVE  Moves(t)
<1>1. CASE cpClient[q.route.cp] = None
  BY <1>1 DEF ToControlplane, Moves, Statuses
<1>2. CASE cpClient[q.route.cp] # None
  <2> DEFINE client == cpClient[q.route.cp]
  <2>1. client \in ClientType
    BY <1>2 DEF ClientInv, CpClientsInv
  <2>2. Hold(t, q, client, more)
    BY <1>2 DEF ToControlplane
  <2> HIDE DEF client
  <2> QED
    BY <2>1, <2>2, HoldTyped
<1> QED
  BY <1>1, <1>2

LEMMA ToAgentTyped ==
    ASSUME ClientInv, NEW t, NEW q, Formed(q), Shaped(q), UNCHANGED <<closed, closing>>,
           NEW more, Extra(more), ToAgent(t, q, more)
    PROVE  Moves(t)
<1> DEFINE y == q.route.target
           c == AgentClient(y)
<1>1. /\ agentClient' = [agentClient EXCEPT ![y] = c] /\ opened' = opened \cup {c}
      /\ y \in Target /\ Hold(t, q, c, more)
  BY DEF ToAgent, Shaped, RouteType
<1> HIDE DEF y
<1>2. c \in ClientType
  BY <1>1, NewAgentClient
<1> HIDE DEF c
<1> QED
  BY <1>1, <1>2, HoldTyped

LEMMA ToAuthzTyped ==
    ASSUME ReloadInv, NodeInv, ClientInv, NEW t, NEW q, Formed(q), Shaped(q), ToAuthz(t, q)
    PROVE  Moves(t)
<1>1. CASE authzClient = None
  BY <1>1 DEF ToAuthz, Moves, Statuses
<1>2. CASE authzClient # None
  <2>1. authzClient \in ClientType
    BY <1>2 DEF ClientInv, AuthzClientInv
  <2>2. authzJwt \in HeaderValue
    BY DEF NodeInv, HeaderValue
  <2>3. Hold(t, q, authzClient, Authorization(authzJwt))
    BY <1>2 DEF ToAuthz
  <2> QED
    BY <2>1, <2>2, <2>3, HoldTyped, ExtraHeaders
<1> QED
  BY <1>1, <1>2

LEMMA ArriveTyped ==
    ASSUME DispatchInv, ClientInv, NEW t \in Request, NEW p \in Paths, NEW l \in BOOLEAN,
           NEW hs \in Inbound, Arrive(t, p, l, hs)
    PROVE  Moves(t)
<1> DEFINE q == Arrived(p, l, hs, Lookup(routes, p), config.issuer, InForce)
<1>1. /\ IF q.route = None THEN Reply(t, "404") /\ ClientsUnchanged
         ELSE IF l THEN DispatchLocal(t, q) ELSE DispatchExternal(t, q)
      /\ UNCHANGED <<closed, closing>>
  BY DEF Arrive, InForce, Arrived
<1>2. /\ Formed(q) /\ q.path = p /\ q.local = l /\ q.headers = hs
      /\ q.route = Lookup(routes, p) /\ q.issuer = config.issuer /\ q.seen = InForce
      /\ q.client = None /\ q.extra = Blank.extra
  BY ArrivedRecord
<1>a. q.behind \in BOOLEAN
  BY ArrivedBehind
<1> HIDE DEF q
<1>3. ReloadInv /\ NodeInv /\ RoutesInv
  BY DEF DispatchInv
<1>4. \/ q.route = None
      \/ q.route \in RouteType /\ (q.route.dest = "controlplane" => q.route.cp \in CpName)
  BY <1>2, <1>3, RoutedByAnEntry
<1>5. q.route # None => Shaped(q)
  <2>1. config.issuer \in Issuer /\ InForce \subseteq Configs
    BY <1>3, ConfigTokens DEF ReloadInv, InForce
  <2> QED
    BY <1>2, <1>4, <1>a, <2>1 DEF Shaped
<1>6. "404" \in Statuses /\ "401" \in Statuses
  BY DEF Statuses
<1>7. CASE q.route = None
  BY <1>1, <1>6, <1>7 DEF Moves
<1>8. CASE q.route # None /\ l
  <2>1. DispatchLocal(t, q)
    BY <1>1, <1>8
  <2>2. CASE q.route.dest = "controlplane"
             /\ ToControlplane(t, q, Authorization(Orr(cpJwt[q.route.cp])))
    <3> DEFINE n == q.route.cp
    <3>1. n \in CpName
      BY <1>4, <1>8, <2>2
    <3>2. cpJwt[n] \in HeaderValue
      BY <1>3, <3>1 DEF NodeInv, JwtType, HeaderValue
    <3> QED
      BY <1>2, <1>5, <1>8, <2>2, <3>1, <3>2, ExtraHeaders, ToControlplaneTyped
  <2>3. CASE ToAuthz(t, q)
    BY <1>2, <1>3, <1>5, <1>8, <2>3, ToAuthzTyped
  <2>4. CASE ToAgent(t, q, LocalHeaders)
    BY <1>1, <1>2, <1>5, <1>8, <2>4, ExtraHeaders, ToAgentTyped
  <2> QED
    BY <2>1, <2>2, <2>3, <2>4 DEF DispatchLocal
<1>9. CASE q.route # None /\ ~l
  <2>1. DispatchExternal(t, q)
    BY <1>1, <1>9
  <2>2. CASE Reply(t, "404") \/ Reply(t, "401")
    BY <1>6, <2>2 DEF Moves
  <2>3. CASE ToAgent(t, q, ExternalHeaders(""))
    BY <1>1, <1>2, <1>5, <1>9, <2>3, ExtraHeaders, ToAgentTyped
  <2>4. CASE Go(t, "validating", q)
    BY <1>2, <1>5, <1>9, <2>4 DEF Moves, Fresh
  <2> QED
    BY <2>1, <2>2, <2>3, <2>4 DEF DispatchExternal
<1> QED
  BY <1>7, <1>8, <1>9

LEMMA ValidatedTyped ==
    ASSUME DispatchInv, ClientInv, TypeInv, NEW t \in Request, Validated(t)
    PROVE  Moves(t)
<1> DEFINE q == req[t]
<1>1. /\ pc[t] = "validating"
      /\ IF q.route.dest = "controlplane"
         THEN ToControlplane(t, q, Authorization(Orr(q.headers["authorization"])))
         ELSE ToAgent(t, q, ExternalHeaders(TokenIn(q.headers)))
      /\ UNCHANGED <<closed, closing>>
  BY DEF Validated
<1>2. /\ Formed(q) /\ Shaped(q)
      /\ q.route.dest = "controlplane" => q.route.cp \in CpName
  BY <1>1 DEF DispatchInv, RequestsInv, RequestInv, Validating, TypeInv, ShapeInv, Fresh
<1> HIDE DEF q
<1>3. /\ q.headers["authorization"] \in UserToken \cup {None}
      /\ TokenIn(q.headers) \in UserToken \cup {None}
  BY <1>2, DispatchConstants DEF Shaped, TokenIn
<1>4. /\ Extra(Authorization(Orr(q.headers["authorization"])))
      /\ Extra(ExternalHeaders(TokenIn(q.headers)))
  <2>1. q.headers["authorization"] \in HeaderValue
    BY <1>3 DEF HeaderValue
  <2> QED
    BY <1>3, <2>1, ExtraHeaders
<1>5. CASE q.route.dest = "controlplane"
  BY <1>1, <1>2, <1>4, <1>5, ToControlplaneTyped
<1>6. CASE q.route.dest # "controlplane"
  BY <1>1, <1>2, <1>4, <1>6, ToAgentTyped
<1> QED
  BY <1>5, <1>6

LEMMA UpstreamTyped ==
    ASSUME NEW h \in HeadersType, NEW more, Extra(more)
    PROVE  UpstreamHeaders(h, more) \in HeadersType
<1>1. h \in [Header -> HeaderValue] /\ HeadersType = [Header -> HeaderValue]
  BY DEF HeadersType, HeaderValue
<1>2. None \in HeaderValue
  BY DEF HeaderValue
<1>3. \A k \in Header : UpstreamHeaders(h, more)[k] \in HeaderValue
  BY <1>1, <1>2 DEF UpstreamHeaders, Extra
<1> QED
  BY <1>1, <1>3 DEF UpstreamHeaders

LEMMA SendTyped ==
    ASSUME DispatchInv, TypeInv, NEW t \in Request, Send(t)
    PROVE  Moves(t)
<1> DEFINE q == req[t]
           s == [base |-> q.client.base, headers |-> UpstreamHeaders(q.headers, q.extra)]
<1>1. /\ pc[t] = "reading"
      /\ IF q.client \in closed THEN Reply(t, "500") ELSE Go(t, "sending", Sent(q, s))
  BY DEF Send, Sent
<1>2. Formed(q) /\ Ready(q)
  BY <1>1 DEF DispatchInv, RequestsInv, RequestInv, TypeInv, ShapeInv
<1> HIDE DEF q
<1>3. s \in Delivery
  <2>1. q.client.base \in Target /\ q.headers \in HeadersType
    BY <1>2, DispatchConstants DEF Ready, Shaped, ClientType
  <2>2. UpstreamHeaders(q.headers, q.extra) \in HeadersType
    BY <1>2, <2>1, UpstreamTyped DEF Ready
  <2> QED
    BY <2>1, <2>2 DEF Delivery
<1> HIDE DEF s
<1>4. Sent(q, s).sent = s /\ Ready(Sent(q, s))
  BY <1>2, SentRecord DEF Ready, Shaped
<1> QED
  BY <1>1, <1>3, <1>4 DEF Moves, Statuses

LEMMA ManagerTyped ==
    ASSUME RequestsInv, TypeInv, ManagerStep, config' \in Configs
    PROVE  TypeInv'
<1>1. /\ pc' = pc /\ reply' = reply
      /\ req' = [t \in Request |-> IF pc[t] = "validating" THEN Noted(req[t], config')
                                   ELSE req[t]]
  BY DEF ManagerStep, Noted
<1>2. ASSUME NEW t \in Request PROVE ShapeInv(t)'
  <2>1. CASE pc[t] = "validating"
    <3>1. req'[t] = Noted(req[t], config')
      BY <1>1, <2>1
    <3>2. Formed(req[t]) /\ Validating(req[t]) /\ Fresh(req[t])
      BY <2>1 DEF RequestsInv, RequestInv, TypeInv, ShapeInv
    <3> DEFINE h == req'[t]
    <3>3. /\ h.path = req[t].path /\ h.local = req[t].local /\ h.headers = req[t].headers
          /\ h.route = req[t].route /\ h.issuer = req[t].issuer
          /\ h.client = req[t].client /\ h.extra = req[t].extra
          /\ h.behind = req[t].behind
          /\ h.seen = req[t].seen \cup {config'}
      BY <3>1, <3>2, NotedRecord
    <3> HIDE DEF h
    <3>4. Fresh(h)
      BY <3>2, <3>3 DEF Fresh, Shaped
    <3> QED
      BY <1>1, <2>1, <3>4 DEF ShapeInv, h
  <2>2. CASE pc[t] # "validating"
    <3>1. req'[t] = req[t] /\ pc'[t] = pc[t]
      BY <1>1, <2>2
    <3> QED
      BY <2>2, <3>1 DEF TypeInv, ShapeInv
  <2> QED
    BY <2>1, <2>2
<1>3. updates' \in Nat
  <2>1. CASE DiscoveryUpdates
    BY <2>1 DEF TypeInv, DiscoveryUpdates
  <2>2. CASE (\E new \in Configs : Reload(new)) \/ ResumeReload
    BY <2>2 DEF TypeInv, Reload, ResumeReload
  <2>3. CASE (\E active \in SUBSET {e.address : e \in Endpoints} : Prune(active))
             \/ (\E c \in closing : CloseAgentClient(c))
    BY <2>3 DEF TypeInv, Prune, CloseAgentClient
  <2> QED
    BY <2>1, <2>2, <2>3 DEF ManagerStep, NextClients
<1>4. cpPrefixes' \in Seq(PathType) /\ authzPrefixes' \in Seq(PathType)
  <2>1. ASSUME NEW new \in Configs, Reload(new)
        PROVE  cpPrefixes' \in Seq(PathType) /\ authzPrefixes' \in Seq(PathType)
    <3>1. /\ cpPrefixes' = CpPrefixesOf(new.routing.cps)
          /\ authzPrefixes' = AuthzPrefixesOf(new.routing)
      BY <2>1 DEF Reload, Registry!OnConfigChange, CpPrefixesOf, AuthzPrefixesOf,
                  Registry!CpPrefixesOf, Registry!AuthzPrefixesOf
    <3> QED
      BY <3>1, ConfigTypes, ConfigLists
  <2>2. CASE DiscoveryUpdates
    BY <2>2 DEF TypeInv, DiscoveryUpdates, Registry!ReplaceAgentRoutes,
                Registry!DeregisterAgent
  <2>3. CASE ResumeReload \/ (\E active \in SUBSET {e.address : e \in Endpoints} : Prune(active))
             \/ (\E c \in closing : CloseAgentClient(c))
    <3>1. UNCHANGED table
      BY <2>3 DEF ResumeReload, Prune, CloseAgentClient
    <3> QED
      BY <3>1 DEF TypeInv, table
  <2> QED
    BY <2>1, <2>2, <2>3 DEF ManagerStep, NextClients
<1> QED
  BY <1>1, <1>2, <1>3, <1>4 DEF TypeInv

LEMMA TypeInit == Init => TypeInv
<1> SUFFICES ASSUME Init PROVE TypeInv
  OBVIOUS
<1>1. /\ config \in Configs /\ updates = 0 /\ Registry!InitWith(config.routing)
      /\ pc = [t \in Request |-> "idle"] /\ reply = [t \in Request |-> "none"]
  BY ProxyConstants DEF Init, InitClients
<1>2. cpPrefixes \in Seq(PathType) /\ authzPrefixes \in Seq(PathType)
  <2>1. /\ cpPrefixes = CpPrefixesOf(config.routing.cps)
        /\ authzPrefixes = AuthzPrefixesOf(config.routing)
    BY <1>1 DEF Registry!InitWith, CpPrefixesOf, AuthzPrefixesOf,
                Registry!CpPrefixesOf, Registry!AuthzPrefixesOf
  <2> QED
    BY <1>1, <2>1, ConfigTypes, ConfigLists
<1> QED
  BY <1>1, <1>2 DEF TypeInv, ShapeInv, States, Statuses

LEMMA TypeNext == DispatchInv /\ DispatchInv' /\ ClientInv /\ TypeInv /\ [Next]_vars => TypeInv'
<1> SUFFICES ASSUME DispatchInv, DispatchInv', ClientInv, TypeInv, [Next]_vars
             PROVE  TypeInv'
  OBVIOUS
<1>1. RequestsInv /\ config' \in Configs
  BY DEF DispatchInv, ReloadInv
<1>2. CASE ManagerStep
  BY <1>1, <1>2, ManagerTyped
<1>3. ASSUME NEW t \in Request, Moves(t), UNCHANGED <<updates, cpPrefixes, authzPrefixes>>
      PROVE  TypeInv'
  BY <1>1, <1>3, MovesTyped
<1>4. ASSUME NEW t \in Request, NEW p \in Paths, NEW l \in BOOLEAN, NEW h \in Inbound,
             Arrive(t, p, l, h)
      PROVE  TypeInv'
  <2>1. UNCHANGED <<updates, cpPrefixes, authzPrefixes>>
    BY <1>4 DEF Arrive, table
  <2> QED
    BY <1>3, <1>4, <2>1, ArriveTyped
<1>5. ASSUME NEW t \in Request, Validated(t) PROVE TypeInv'
  <2>1. UNCHANGED <<updates, cpPrefixes, authzPrefixes>>
    BY <1>5 DEF Validated, table
  <2> QED
    BY <1>3, <1>5, <2>1, ValidatedTyped
<1>6. ASSUME NEW t \in Request,
             \/ Refused(t) \/ BodyTooLarge(t) \/ Send(t)
             \/ SendFails(t) \/ Responds(t) \/ StreamEnds(t)
      PROVE  TypeInv'
  <2>1. UNCHANGED <<updates, cpPrefixes, authzPrefixes>>
    BY <1>6 DEF Refused, BodyTooLarge, Send, SendFails, Responds, StreamEnds, manager, table
  <2>2. CASE Send(t)
    BY <1>3, <2>1, <2>2, SendTyped
  <2>3. CASE Refused(t) \/ BodyTooLarge(t) \/ SendFails(t) \/ Responds(t) \/ StreamEnds(t)
    <3>1. Moves(t)
      BY <2>3 DEF Refused, BodyTooLarge, SendFails, Responds, StreamEnds, Moves, Statuses
    <3> QED
      BY <1>3, <2>1, <3>1
  <2> QED
    BY <1>6, <2>2, <2>3
<1>7. CASE UNCHANGED vars
  BY <1>7 DEF vars, manager, table, TypeInv, ShapeInv
<1> QED
  BY <1>2, <1>4, <1>5, <1>6, <1>7 DEF Next

THEOREM TypesKeepInv == Spec => []TypeInv
<1> QED
  BY TypeInit, TypeNext, DispatchKeepsInv, ClientsKeepInv, PTL DEF Spec

(* A request has the type TypeOK states.                                     *)
LEMMA RequestTyped ==
    ASSUME DispatchInv, TypeInv, NEW t \in Request
    PROVE  /\ req[t].path \in Paths \cup {None} /\ req[t].local \in BOOLEAN
           /\ req[t].headers \in Inbound \cup {None}
           /\ req[t].route \in RouteType \cup {None}
           /\ req[t].issuer \in Issuer \cup {None}
           /\ req[t].client \in MaybeClient
           /\ DOMAIN req[t].extra \subseteq Header
           /\ req[t].sent = None \/ req[t].sent \in [base: Target, headers: HeadersType]
           /\ req[t].seen \subseteq Configs
           /\ req[t].behind \in BOOLEAN
<1>1. RequestInv(t) /\ ShapeInv(t)
  BY DEF DispatchInv, RequestsInv, TypeInv
<1>2. CASE req[t] = Blank
  BY <1>2 DEF Blank, MaybeClient
<1>3. CASE pc[t] = "validating"
  <2>1. DOMAIN req[t].extra \subseteq Header
    BY <1>1, <1>3, ExtraHeaders DEF ShapeInv, Fresh, Extra
  <2> QED
    BY <1>1, <1>3, <2>1 DEF RequestInv, Validating, ShapeInv, Fresh, Shaped, MaybeClient
<1>4. CASE pc[t] = "reading"
  BY <1>1, <1>4 DEF RequestInv, Reading, ShapeInv, Ready, Shaped, Extra, MaybeClient
<1>5. CASE pc[t] = "sending"
  BY <1>1, <1>5 DEF ShapeInv, Ready, Shaped, Extra, MaybeClient, Delivery
<1> QED
  BY <1>1, <1>2, <1>3, <1>4, <1>5 DEF RequestInv

LEMMA ClientsTyped ==
    ASSUME DispatchInv, ClientInv, TypeInv
    PROVE  TypeOKClients
<1>1. ReloadInv /\ NodeInv /\ RoutesInv
  BY DEF DispatchInv
<1>2. /\ config \in Configs /\ prev \in Configs /\ reloads \in Nat
      /\ stage \in {"idle", "removing", "adding", "authz"} /\ at \in CpName \cup {None}
      /\ removing \subseteq CpName /\ adding \subseteq CpName
  BY <1>1, ConfigTypes DEF ReloadInv, Pending
<1>3. Registry!TypeOK
  BY <1>1 DEF RoutesInv, Table, TypeInv, Registry!TypeOK, RouteType, PathType, Transport,
              WhitelistType, Registry!RouteType, Registry!PathType, Registry!Transport,
              Registry!WhitelistType
<1>4. /\ cpClient \in [CpName -> MaybeClient] /\ authzClient \in MaybeClient
      /\ opened \subseteq ClientType /\ closed \subseteq ClientType
  BY DEF ClientInv, CpClientsInv, AuthzClientInv, MaybeClient
<1>5. agentClient \in [Target -> MaybeClient] /\ closing \subseteq ClientType
  BY DEF ClientInv, AgentClientsInv, MaybeClient
<1>6. /\ cpJwt \in [CpName -> NodeToken \cup {None}] /\ authzJwt \in NodeToken
      /\ stale \subseteq Upstream /\ untold \subseteq Upstream
  BY <1>1 DEF NodeInv, JwtType
<1> QED
  BY <1>2, <1>3, <1>4, <1>5, <1>6 DEF TypeInv, TypeOKClients

(* The variables of the managers and of the requests have their types; what  *)
(* an upstream receives is a URL and headers.                                *)
THEOREM DispatchTypes == Spec => []TypeOK
<1>1. DispatchInv /\ ClientInv /\ TypeInv => TypeOK
  BY ClientsTyped, RequestTyped DEF TypeOK, TypeInv, States, Statuses
<1> QED
  BY <1>1, DispatchKeepsInv, ClientsKeepInv, TypesKeepInv, PTL
=============================================================================
