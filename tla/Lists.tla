-------------------------------- MODULE Lists --------------------------------
(* Filtering and ordering the elements of a sequence by their index, without *)
(* recursion, so that proofs can reason about the result.                    *)
EXTENDS Naturals, Sequences, FiniteSets

\* place of index i among the indices I in the order "before"
Rank(i, I, before) == 1 + Cardinality({j \in I : <<j, i>> \in before})

\* the elements of s whose index is in I, in the order "before" puts on I
Ranked(s, I, before) ==
    [k \in 1..Cardinality(I) |-> s[CHOOSE i \in I : Rank(i, I, before) = k]]

\* the order of the list itself
Position(I) == {e \in I \X I : e[1] < e[2]}

\* [s[i] for i in I]
Keep(s, I) == Ranked(s, I, Position(I))

\* the elements of s as a set
Elements(s) == {s[i] : i \in DOMAIN s}
=============================================================================
