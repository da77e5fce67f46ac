------------------------------ MODULE Prefixes ------------------------------
(***************************************************************************)
(* Request paths and route prefixes, and the comparisons the node agent    *)
(* makes between them (routes.py).                                         *)
(*                                                                         *)
(* A path is the sequence of what follows each of its slashes: "/a/b" is   *)
(* <<a, b>>, "/a/" is <<a, Empty>>, "/a//b" is <<a, Empty, b>>, "/" is     *)
(* <<Empty>> and the empty string is <<>>.  Every other segment stands for *)
(* a name of one character, so that the length of the string, on which the *)
(* table is sorted, is computed from the structure.  Strings without a     *)
(* leading slash are left out: no request path matches one.                *)
(***************************************************************************)
EXTENDS Naturals, Sequences, FiniteSets

CONSTANTS Segment,  \* names a path is made of, Empty and Star among them
          Empty,    \* the segment between two slashes, or after the last one
          Star      \* the segment "*", which only the prefix "/*" gives a meaning

PathType == Seq(Segment)

EmptyPath == <<>>
Root      == <<Empty>>
RootStar  == <<Star>>

\* len(prefix) of the string this path stands for
PrefixLen(p) == Len(p) + Cardinality({i \in 1..Len(p) : p[i] # Empty})

\* what is left of p after rstrip("/")
Bare(p) ==
    LET n == CHOOSE k \in 0..Len(p) :
                 /\ k > 0 => p[k] # Empty
                 /\ \A i \in (k + 1)..Len(p) : p[i] = Empty
    IN  SubSeq(p, 1, n)

\* p.rstrip("/") + "/"
Slashed(p) == Append(Bare(p), Empty)

\* path.startswith(base + "/")
Below(path, base) ==
    /\ Len(base) < Len(path)
    /\ \A i \in 1..Len(base) : path[i] = base[i]

\* path.startswith(Slashed(p))
Under(path, p) == Below(path, Bare(p))

\* the path is the prefix or lies below it
Matches(prefix, path) == path = prefix \/ Under(path, prefix)

\* _overlaps(a, b)
Overlaps(a, b) == \/ a = b
                  \/ Under(Slashed(a), b)
                  \/ Under(Slashed(b), a)

\* p without the slash it may end with; the others stay
WithoutLastSlash(p) ==
    IF p # <<>> /\ p[Len(p)] = Empty THEN SubSeq(p, 1, Len(p) - 1) ELSE p

\* WhitelistEntry.matches for an entry w = [path, match]
WhitelistMatches(w, path) ==
    \/ w.match = "exact"           /\ path = w.path
    \/ w.match = "exact_or_prefix" /\ Matches(w.path, path)
    \/ w.match = "prefix"          /\ Below(path, WithoutLastSlash(w.path))
                                   /\ path # w.path
=============================================================================
