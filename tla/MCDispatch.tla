------------------------------ MODULE MCDispatch ------------------------------
(* A small instance of Dispatch for model checking.                          *)
EXTENDS Dispatch, TLC

CONSTANTS ag, cp1, cp2, u1, u2, ub, z1, z2, sockA, n1, n2, i1, i2, good, bad,
          segA, segC, segD, segZ

P(s) == <<s>>

MCEndpoints == {[transport |-> "uds", address |-> sockA]}

\* an agent that whitelists /a itself
MCDeclarations ==
    {<<[prefix |-> P(segA), whitelist |-> {[path |-> P(segA), match |-> "exact"]}]>>,
     <<[prefix |-> P(segA), whitelist |-> {}]>>}

Cp(n, u, s) == [name |-> n, url |-> u, prefix |-> P(s)]

Config(cps, z, token, i) ==
    [routing |-> [cps |-> cps,
                  authz |-> [url |-> z, prefixes |-> <<P(segZ)>>],
                  http |-> FALSE],
     token |-> [n \in CpName |-> token], authzToken |-> token, issuer |-> i]

First == Config(<<Cp(cp1, u1, segC)>>, z1, n1, i1)

MCBootConfigs == {First}

Second == Config(<<Cp(cp2, u2, segC)>>, z2, n2, i1)

Third == Config(<<Cp(cp1, u2, segC), Cp(cp2, u1, segD)>>, None, n2, i2)

\* From the first to the second a controlplane takes the prefix of another one and
\* the authz server is replaced; the third replaces or keeps a client, adds or
\* replaces the other one, takes authz away and changes the issuer.
MCGoodConfigs == {First, Second, Third}

\* with the malformed URL of a controlplane, and with that of the authz server
MCConfigs == MCGoodConfigs \cup
             {Config(<<Cp(cp1, u1, segC), Cp(cp2, ub, segD)>>, z2, n2, i1)}

MCAllConfigs == MCConfigs \cup {Config(<<Cp(cp1, u1, segC)>>, ub, n2, i1)}

MCPaths == {P(segA), P(segC), P(segZ)}

MCIssuedBy == [u \in UserToken |-> i1]

Headers(authz, xtoken, source) ==
    [h \in Header |->
        CASE h = "authorization" -> authz
          [] h = "x-auth-token" -> xtoken
          [] h \in {"x-auth-source", "x-auth-sub"} -> source
          [] OTHER -> "some"]

\* no token and forged trusted headers; two tokens, and other forged headers
MCInbound == {Headers(None, None, "local"), Headers(bad, good, "external")}

Symmetry == Permutations(Request)
=============================================================================
