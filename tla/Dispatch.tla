------------------------------- MODULE Dispatch -------------------------------
(***************************************************************************)
(* ProxyRouter.dispatch (apps/proxy.py) and the forwarding of a request    *)
(* (ProxyClient.proxy_to_*, _proxy_request), over the table and the        *)
(* clients of ProxyClients.  A request suspends while its token is         *)
(* validated, while its body is read, while the upstream answers and while *)
(* the response is streamed; it keeps the route it looked up before the    *)
(* first of these and the client it chose before the second.               *)
(***************************************************************************)
EXTENDS ProxyClients

CONSTANTS Request,    \* tasks that serve a request
          Paths,      \* paths of the requests
          UserToken,  \* tokens of external callers
          Genuine,    \* those that are signed, complete and not expired
          IssuedBy,   \* IssuedBy[u]: the issuer and the audience of token u
          Inbound     \* headers the requests arrive with

\* The headers dispatch and its callees read or write.  "x-auth-sub" stands
\* for X-Auth-Sub, X-Auth-Roles and X-Auth-Jti, which are set together.
Header == {"authorization", "x-auth-token", "x-auth-source", "x-auth-sub",
           "connection", "other"}

HeadersType ==
    [Header -> UserToken \cup NodeToken \cup {None, "", "local", "external", "some"}]

ASSUME DispatchConstants ==
    /\ Genuine \subseteq UserToken
    /\ IssuedBy \in [UserToken -> Issuer]
    /\ None \notin UserToken \cup NodeToken \cup {"", "local", "external"}
    /\ Inbound \subseteq HeadersType
    /\ \A h \in Inbound : {h["authorization"], h["x-auth-token"]} \subseteq
                              UserToken \cup {None}

VARIABLES
    pc,     \* what each request is suspended in
    req,    \* the local variables of its task, Blank before and after
    reply   \* the status of the response, or how it ended

vars == <<manager, pc, req, reply>>

(* path, local, headers: the request, local when it came by node.sock.        *)
(* route: the entry it is routed by.  issuer: jwt.issuer of the configuration *)
(* it arrived under.  client: what it will be forwarded with.  extra: the     *)
(* headers added to it.  sent: what the upstream received.  seen (history):   *)
(* the configurations in force or being replaced while it was dispatched.     *)
(* behind (history): its upstream was one an abandoned reload left behind, or *)
(* the authz server between its new client and its new token.                 *)
Blank == [path |-> None, local |-> FALSE, headers |-> None, route |-> None,
          issuer |-> None, client |-> None, extra |-> [h \in {} |-> None],
          sent |-> None, seen |-> {}, behind |-> FALSE]

TypeOK ==
    /\ TypeOKClients
    /\ pc \in [Request -> {"idle", "validating", "reading", "sending",
                           "streaming", "done"}]
    /\ reply \in [Request -> {"none", "200", "401", "404", "413", "500", "502",
                              "503", "504", "cut"}]
    /\ \A t \in Request :
          /\ req[t].path \in Paths \cup {None} /\ req[t].local \in BOOLEAN
          /\ req[t].headers \in Inbound \cup {None}
          /\ req[t].route \in RouteType \cup {None}
          /\ req[t].issuer \in Issuer \cup {None}
          /\ req[t].client \in MaybeClient
          /\ DOMAIN req[t].extra \subseteq Header
          /\ \/ req[t].sent = None
             \/ req[t].sent \in [base: Target, headers: HeadersType]
          /\ req[t].seen \subseteq Configs
          /\ req[t].behind \in BOOLEAN

Init ==
    /\ InitClients
    /\ pc = [t \in Request |-> "idle"]
    /\ req = [t \in Request |-> Blank]
    /\ reply = [t \in Request |-> "none"]
-----------------------------------------------------------------------------
(* Headers.                                                                 *)

\* extract_auth_token; a blank token or another scheme counts as none
TokenIn(h) == IF h["x-auth-token"] # None THEN h["x-auth-token"] ELSE h["authorization"]

\* AuthResult.headers for source "local", and for an external caller whose
\* claims are those of token u ("" for a whitelisted path)
LocalHeaders == [h \in {"x-auth-source"} |-> "local"]

ExternalHeaders(u) ==
    [h \in {"x-auth-source", "x-auth-sub"} |-> IF h = "x-auth-sub" THEN u ELSE "external"]

Authorization(value) == [h \in {"authorization"} |-> value]

HopByHop == {"connection"}
Sensitive == {"authorization", "x-auth-token", "x-auth-source", "x-auth-sub"}

\* Mutant: the headers the node sets are not removed from the request.
UpstreamHeadersKept(h, more) ==
    [k \in Header |-> IF k \in DOMAIN more THEN more[k]
                      ELSE IF k \in HopByHop THEN None ELSE h[k]]

\* _build_upstream_headers
UpstreamHeaders(h, more) ==
    [k \in Header |-> IF k \in DOMAIN more THEN more[k]
                      ELSE IF k \in HopByHop \cup Sensitive THEN None ELSE h[k]]

\* AuthContext.from_headers, in the agent that receives the request
Orr(value) == IF value = None THEN "" ELSE value

ContextFrom(h) == [source |-> Orr(h["x-auth-source"]), sub |-> Orr(h["x-auth-sub"])]
-----------------------------------------------------------------------------
(* dispatch, of request q of task t.                                        *)

\* the task ends, and its local variables with it
Reply(t, status) ==
    /\ pc' = [pc EXCEPT ![t] = "done"]
    /\ reply' = [reply EXCEPT ![t] = status]
    /\ req' = [req EXCEPT ![t] = Blank]

Go(t, to, q) ==
    /\ pc' = [pc EXCEPT ![t] = to]
    /\ req' = [req EXCEPT ![t] = q]
    /\ UNCHANGED reply

\* a reload left the upstream of route r behind
LeftBehind(r) == \/ r.dest = "controlplane" /\ r.cp \in stale \cup untold
                 \/ r.dest = "authz" /\ None \in stale \cup untold

\* q will be forwarded with client c and the headers more, once its body is read
Hold(t, q, c, more) ==
    Go(t, "reading", [q EXCEPT !.client = c, !.extra = more,
                               !.behind = LeftBehind(q.route)])

ClientsUnchanged == UNCHANGED <<agentClient, opened>>

\* proxy_to_agent
ToAgent(t, q, more) ==
    LET c == AgentClient(q.route.target)
    IN  /\ Hold(t, q, c, more)
        /\ agentClient' = [agentClient EXCEPT ![q.route.target] = c]
        /\ opened' = opened \cup {c}

\* proxy_to_controlplane
ToControlplane(t, q, more) ==
    /\ IF cpClient[q.route.cp] = None THEN Reply(t, "503")
       ELSE Hold(t, q, cpClient[q.route.cp], more)
    /\ ClientsUnchanged

\* proxy_to_authz
ToAuthz(t, q) ==
    /\ IF authzClient = None THEN Reply(t, "503")
       ELSE Hold(t, q, authzClient, Authorization(authzJwt))
    /\ ClientsUnchanged

Whitelisted(q) == \E w \in q.route.whitelist : WhitelistMatches(w, q.path)

\* the routes an external caller needs a token for
NeedsToken(q) == \/ q.route.dest = "controlplane"
                 \/ q.route.dest = "agent" /\ ~Whitelisted(q)

\* a local request, which needs no token
DispatchLocal(t, q) ==
    \/ /\ q.route.dest = "controlplane"
       /\ ToControlplane(t, q, Authorization(Orr(cpJwt[q.route.cp])))
    \/ q.route.dest = "authz" /\ ToAuthz(t, q)
    \/ q.route.dest = "agent" /\ ToAgent(t, q, LocalHeaders)

\* an external request, up to the validation of its token
DispatchExternal(t, q) ==
    \/ q.route.dest = "authz" /\ Reply(t, "404") /\ ClientsUnchanged
    \/ /\ q.route.dest = "agent" /\ Whitelisted(q)
       /\ ToAgent(t, q, ExternalHeaders(""))
    \/ /\ NeedsToken(q)
       /\ IF TokenIn(q.headers) = None THEN Reply(t, "401") ELSE Go(t, "validating", q)
       /\ ClientsUnchanged

\* A request arrives and is dispatched up to its first suspension.
Arrive(t, p, l, h) ==
    /\ pc[t] = "idle"
    /\ LET q == [Blank EXCEPT !.path = p, !.local = l, !.headers = h,
                              !.route = Lookup(routes, p), !.issuer = config.issuer,
                              !.seen = {config} \cup IF stage = "idle" THEN {}
                                                     ELSE {prev}]
       IN  IF q.route = None THEN Reply(t, "404") /\ ClientsUnchanged
           ELSE IF l THEN DispatchLocal(t, q) ELSE DispatchExternal(t, q)
    /\ UNCHANGED <<config, reloads, table, updates, nodes, closed, closing, reload>>

\* Mutant: the issuer is not checked.
AcceptsAny(u, i) == u \in Genuine

\* validate_request, reduced to its verdict on a token and the issuer and the
\* audience it is given, as one value (Jwks models how the key is found)
Accepts(u, i) == u \in Genuine /\ IssuedBy[u] = i

\* The token is valid, and the request is forwarded by the route it looked up
\* before, with the clients there are now.
Validated(t) ==
    /\ pc[t] = "validating"
    /\ LET q == req[t]
       IN  /\ Accepts(TokenIn(q.headers), q.issuer)
           /\ IF q.route.dest = "controlplane"
              THEN ToControlplane(t, q, Authorization(Orr(q.headers["authorization"])))
              ELSE ToAgent(t, q, ExternalHeaders(TokenIn(q.headers)))
    /\ UNCHANGED <<config, reloads, table, updates, nodes, closed, closing, reload>>

\* The token is not valid, its key is not known, or there is no key.
Refused(t) ==
    /\ pc[t] = "validating"
    /\ \E status \in {"401", "503"} : Reply(t, status)
    /\ UNCHANGED manager
-----------------------------------------------------------------------------
(* _proxy_request.                                                          *)

BodyTooLarge(t) ==
    /\ pc[t] = "reading"
    /\ Reply(t, "413")
    /\ UNCHANGED manager

\* The body is read and the request is sent; httpx raises RuntimeError, which
\* no handler expects, when the client has been closed meanwhile.
Send(t) ==
    /\ pc[t] = "reading"
    /\ LET q == req[t]
       IN  IF q.client \in closed THEN Reply(t, "500")
           ELSE Go(t, "sending", [q EXCEPT !.sent =
                    [base |-> q.client.base,
                     headers |-> UpstreamHeaders(q.headers, q.extra)]])
    /\ UNCHANGED manager

\* The upstream cannot be reached, does not answer in time, or the client is
\* closed under the request.
SendFails(t) ==
    /\ pc[t] = "sending"
    /\ \E status \in {"502", "504"} : Reply(t, status)
    /\ UNCHANGED manager

\* What is left is the response, which is streamed to the caller.
Responds(t) ==
    /\ pc[t] = "sending"
    /\ Go(t, "streaming", Blank)
    /\ UNCHANGED manager

\* _stream_response ends; the response is cut short when the upstream fails or
\* the client is closed under it.
StreamEnds(t) ==
    /\ pc[t] = "streaming"
    /\ \E how \in {"200", "cut"} : Reply(t, how)
    /\ UNCHANGED manager
-----------------------------------------------------------------------------
\* A step of the managers; a reload is noted by the requests being dispatched.
ManagerStep ==
    /\ NextClients
    /\ req' = [t \in Request |->
                  IF pc[t] = "validating"
                  THEN [req[t] EXCEPT !.seen = @ \cup {config'}] ELSE req[t]]
    /\ UNCHANGED <<pc, reply>>

Next ==
    \/ ManagerStep
    \/ \E t \in Request, p \in Paths, l \in BOOLEAN, h \in Inbound : Arrive(t, p, l, h)
    \/ \E t \in Request : \/ Validated(t) \/ Refused(t)
                          \/ BodyTooLarge(t) \/ Send(t)
                          \/ SendFails(t) \/ Responds(t) \/ StreamEnds(t)

Spec == Init /\ [][Next]_vars
-----------------------------------------------------------------------------
\* the requests an upstream of this kind has received and is answering
Received(dest) == {q \in {req[t] : t \in Request} :
                     q.sent # None /\ q.route.dest = dest}

(* What an agent reads from the trusted headers is what the node established *)
(* about the caller: "local" only for requests that came by the local        *)
(* socket, nobody's claims for a whitelisted path, and otherwise the claims  *)
(* of a genuine token of an issuer that was configured while the request was *)
(* dispatched, whatever headers the caller sent and whatever was reloaded.   *)
AgentsKnowTheCaller ==
    \A q \in Received("agent") :
        LET context == ContextFrom(q.sent.headers)
            token   == TokenIn(q.headers)
        IN  IF q.local THEN context = [source |-> "local", sub |-> ""]
            ELSE /\ context.source # "local"
                 /\ IF Whitelisted(q) THEN context.sub = ""
                    ELSE /\ context = [source |-> "external", sub |-> token]
                         /\ token \in Genuine
                         /\ \E c \in q.seen : IssuedBy[token] = c.issuer

(* docs/3-proxying.md:121: "Whitelisted requests are forwarded **without**   *)
(* `X-Auth-*` headers."  They carry X-Auth-Source "external" and an empty    *)
(* X-Auth-Sub (apps/proxy.py:93).                                            *)
WhitelistedCarryNoAuth ==
    \A q \in Received("agent") : ~q.local /\ Whitelisted(q) =>
        \A h \in {"x-auth-source", "x-auth-sub"} : q.sent.headers[h] = None

(* The token of the node goes only where it belongs: the URL a controlplane  *)
(* request of a local caller is sent to and the token it carries are of one  *)
(* configuration, one that was current, or was being replaced, when the      *)
(* request was dispatched; unless an abandoned reload left one of them       *)
(* behind.                                                                   *)
NodeTokenMatchesUrl ==
    \A q \in Received("controlplane") : q.local /\ ~q.behind =>
        \E c \in q.seen : /\ q.route.cp \in CpNames(c)
                         /\ q.sent.base = UrlOf(c, q.route.cp)
                         /\ q.sent.headers["authorization"] = c.token[q.route.cp]

\* The authz server and the token of request q are of one configuration.
AuthzOfOne(q) ==
    \E c \in q.seen : /\ q.sent.base = AuthzUrl(c)
                     /\ q.sent.headers["authorization"] = c.authzToken

(* Only local callers reach the authz server, and the URL and the token are  *)
(* of one configuration that was current or being replaced, unless the       *)
(* reload has not come to the token, or never will.                          *)
AuthzTokenMatchesUrl ==
    \A q \in Received("authz") : q.local /\ (q.behind \/ AuthzOfOne(q))

(* docs/1-overview.md:16: "Node Agent attaches the correct JWT downstream".  *)
(* A request that arrives while the reload closes the former authz client    *)
(* carries the former token to the new server.                               *)
AuthzTokenIsCorrect == \A q \in Received("authz") : AuthzOfOne(q)

(* docs/3-proxying.md:138-147 lists the statuses of errors.  A client that a *)
(* reload or discovery closed while a request held it makes it end with 500. *)
StatusIsDocumented == \A t \in Request : reply[t] # "500"
=============================================================================
