--------------------------- MODULE MCRouteRegistry ---------------------------
(* A small instance of RouteRegistry, and the properties checked on it.      *)
EXTENDS RouteRegistry

A  == <<"a">>
AB == <<"a", "b">>
B  == <<"b">>
ASlash   == <<"a", "">>       \* "/a/"
ASlashes == <<"a", "", "">>   \* "/a//", as long as "/a/b", which it matches

MCPrefix == {A, AB, B, ASlash, ASlashes, Root}

\* the request paths looked up: each prefix, and paths below it
MCPaths == MCPrefix \cup {<<"a", "b", "a">>, <<"b", "a">>, <<"a", "", "a">>}

Plain(p) == [prefix |-> p, whitelist |-> {}]

Public(p) == [prefix |-> p, whitelist |-> {[path |-> p, match |-> "exact"]}]

MCDeclarations ==
    {<<Plain(A), Plain(ASlashes)>>, <<Public(AB), Plain(AB)>>,
     <<Plain(Root), Plain(B)>>}

Cp(p) == [name |-> "cp", url |-> "addr", prefix |-> p]

MCConfigs ==
    {[cps |-> <<Cp(B)>>, authz |-> [url |-> None, prefixes |-> <<A>>], http |-> TRUE],
     [cps |-> <<Cp(B), Cp(AB)>>, authz |-> [url |-> None, prefixes |-> <<>>], http |-> FALSE],
     [cps |-> <<>>, authz |-> [url |-> "addr", prefixes |-> <<A>>], http |-> TRUE]}
=============================================================================
