----------------------------- MODULE MCLifecycle -----------------------------
(* A small instance of Lifecycle for model checking.                         *)
EXTENDS Lifecycle

MCBootContent == {[listen |-> "l1", rest |-> "r1"]}
=============================================================================
