---------------------------- MODULE MCAuthzCache ----------------------------
(* A small instance of AuthzCache for model checking.                        *)
EXTENDS AuthzCache, TLC

\* keys, checks and servers are interchangeable
Symmetry == Permutations(Key) \cup Permutations(Request) \cup Permutations(Server)
=============================================================================
