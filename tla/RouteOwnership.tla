--------------------------- MODULE RouteOwnership ---------------------------
(***************************************************************************)
(* What the route registry promises its callers, without tables, lists or  *)
(* sorting: which agent owns which prefix, and which prefixes the          *)
(* configuration reserves.  An agent gets a prefix only if it is valid,    *)
(* free, and clear of what is reserved at that moment; it loses prefixes   *)
(* by its own claims, or when the configuration changes.                   *)
(***************************************************************************)
EXTENDS Prefixes

CONSTANTS Agent,
          Prefix     \* the prefixes agents may ask for

VARIABLES owned,     \* pairs of a prefix and the agent that owns it
          reserved   \* prefixes of the controlplanes and of the authz server

vars == <<owned, reserved>>

OwnedBy(a) == {p \in Prefix : <<p, a>> \in owned}

Free(p, a) == \A b \in Agent \ {a} : <<p, b>> \notin owned

Clear(p) == /\ p \notin {EmptyPath, Root, RootStar}
            /\ \A r \in reserved : ~Overlaps(p, r)

Init == owned = {} /\ reserved \subseteq Prefix

\* Agent a owns exactly P from now on; what it gains must be free and clear.
Claim(a, P) ==
    /\ \A p \in P \ OwnedBy(a) : Free(p, a) /\ Clear(p)
    /\ owned' = {o \in owned : o[2] # a} \cup (P \X {a})
    /\ UNCHANGED reserved

\* The configuration changes: agents may lose prefixes, never gain one.
Reconfigure ==
    /\ owned' \in SUBSET owned
    /\ reserved' \in SUBSET Prefix

Next == \/ \E a \in Agent : \E P \in SUBSET Prefix : Claim(a, P)
        \/ Reconfigure

Spec == Init /\ [][Next]_vars

-----------------------------------------------------------------------------
\* No prefix has two owners.
SingleOwner ==
    \A o1, o2 \in owned : o1[1] = o2[1] => o1 = o2
=============================================================================
