----------------------------- MODULE MCDiscovery -----------------------------
(* A small instance of Discovery, and how it ends up in the long run.        *)
EXTENDS Discovery

CONSTANT x     \* the agent whose declarations change

A == <<"a">>
B == <<"b">>

Plain(p) == [prefix |-> p, whitelist |-> {}]

\* Agent y asks for the prefix x declares first; x moves away from it later.
MCDeclared == [a \in Agent |-> IF a = x THEN <<<<Plain(A)>>, <<Plain(B)>>>>
                                        ELSE <<<<Plain(A)>>>>]

MCSock == [a \in Agent |-> IF a = x THEN "x.sock" ELSE "y.sock"]
MCHttp == [a \in Agent |-> IF a = x THEN "host:1" ELSE "host:2"]

Off == [cps |-> <<>>, authz |-> [url |-> None, prefixes |-> <<>>], http |-> FALSE]
On  == [Off EXCEPT !.http = TRUE]
OnWithCp == [On EXCEPT !.cps = <<[name |-> "cp", url |-> "url", prefix |-> B]>>]

MCOff     == {Off}
MCOnOff   == {On, Off}
MCConfigs == {OnWithCp, Off}
-----------------------------------------------------------------------------
(* When the directory stops changing, the registered agents become those the *)
(* directory asks for and stay so, and no client is kept for any other       *)
(* address: the periodic reconcile makes up for missed events, for failed    *)
(* fetches and for refreshes that register an agent that is gone.            *)
Converges == <>[](agents = Desired /\ clients \subseteq Addresses(Desired))
-----------------------------------------------------------------------------
(* What a document or comment says and the code does not do.                 *)

(* discovery.py:127: reconcile makes the registered agents match the desired *)
(* state of the directory; when it has returned and nobody waits for it, no  *)
(* agent is registered that the last scan did not find.  A refresh, which    *)
(* does not take the lock, registers one that was removed meanwhile.         *)
NoGhosts == lockq = <<>> => Named(agents) \subseteq Named(scan)

(* discovery.py:293: periodic reconciliation in case filesystem events are   *)
(* missed; the agents keep converging whatever happened before.              *)
SafetyNetHolds == (phase = "running") ~> (Named(agents) = Named(Desired))
=============================================================================
