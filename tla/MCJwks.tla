-------------------------------- MODULE MCJwks --------------------------------
(* A small instance of Jwks for model checking.                              *)
EXTENDS Jwks, TLC

Symmetry == Permutations(Request) \cup Permutations(Url)
=============================================================================
