------------------------------ MODULE Broadcast ------------------------------
(***************************************************************************)
(* What ConfigManager promises to its subscribers: they are told of every  *)
(* configuration that comes into force, one configuration at a time, each  *)
(* time in the order in which they subscribed, and the address the node    *)
(* listens on stays as it was when the process started.                    *)
(***************************************************************************)
EXTENDS Naturals

CONSTANTS Content,  \* valid configurations, records with a field "listen"
          N         \* number of subscribers

VARIABLES current,  \* the configuration in force
          told      \* told[i]: the one subscriber i was last called with

Init ==
    /\ current \in Content
    /\ told = [i \in 1..N |-> current]

\* the first k subscribers, and those that knew it before, know configuration c
ToldFirst(k, c) == told' = [i \in 1..N |-> IF i <= k THEN c ELSE told[i]]

\* A new configuration comes into force when everyone knows the former one.
Publish ==
    /\ \A i \in 1..N : told[i] = current
    /\ current' \in {c \in Content : c.listen = current.listen}
    /\ \E k \in 0..N : ToldFirst(k, current')

\* The next subscribers are told.
Deliver ==
    /\ \E k \in 1..N : ToldFirst(k, current)
    /\ UNCHANGED current

Next == Publish \/ Deliver

Spec == Init /\ [][Next]_<<current, told>>
=============================================================================
