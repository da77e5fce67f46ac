----------------------------- MODULE Lists_proofs -----------------------------
(* What filtering and ordering by rank (Lists) returns, for every finite set *)
(* of indices and every strict total order on it; what joining and leaving a *)
(* queue without repetition does to it.                                      *)
EXTENDS Lists, FiniteSetTheorems, TLAPS

\* before is a strict total order on I
Orders(before, I) ==
    /\ IsFiniteSet(I)
    /\ \A i \in I : <<i, i>> \notin before
    /\ \A i, j, k \in I : <<i, j>> \in before /\ <<j, k>> \in before
                             => <<i, k>> \in before
    /\ \A i, j \in I : i = j \/ <<i, j>> \in before \/ <<j, i>> \in before

\* the indices before i
Earlier(i, I, before) == {j \in I : <<j, i>> \in before}

\* f lists the indices I in the order before
Enumerates(f, I, before) ==
    /\ f \in [1..Cardinality(I) -> I]
    /\ \A i \in I : \E k \in 1..Cardinality(I) : f[k] = i
    /\ \A k, l \in 1..Cardinality(I) : k < l => <<f[k], f[l]>> \in before
-----------------------------------------------------------------------------
(* A rank is a place in the list.                                            *)
LEMMA RankType ==
    ASSUME NEW I, NEW before, Orders(before, I), NEW i \in I
    PROVE  /\ Rank(i, I, before) \in 1..Cardinality(I)
           /\ IsFiniteSet(Earlier(i, I, before))
           /\ Cardinality(Earlier(i, I, before)) \in Nat
<1> DEFINE E == Earlier(i, I, before)
<1>1. E \subseteq I \ {i}
  BY DEF Earlier, Orders
<1>2. /\ IsFiniteSet(I) /\ Cardinality(I) \in Nat
      /\ IsFiniteSet(I \ {i}) /\ Cardinality(I \ {i}) = Cardinality(I) - 1
  BY FS_CardinalityType, FS_RemoveElement DEF Orders
<1>3. IsFiniteSet(E) /\ Cardinality(E) <= Cardinality(I) - 1
  BY <1>1, <1>2, FS_Subset
<1>4. Cardinality(E) \in Nat
  BY <1>3, FS_CardinalityType
<1> QED
  BY <1>2, <1>3, <1>4 DEF Rank, Earlier

(* The order of the ranks is the order of the indices.                       *)
LEMMA RankMonotone ==
    ASSUME NEW I, NEW before, Orders(before, I),
           NEW i \in I, NEW j \in I, <<i, j>> \in before
    PROVE  Rank(i, I, before) < Rank(j, I, before)
<1> DEFINE Ei == Earlier(i, I, before)
           Ej == Earlier(j, I, before)
<1>1. i \notin Ei /\ Ei \cup {i} \subseteq Ej
  BY DEF Earlier, Orders
<1>2. IsFiniteSet(Ei) /\ IsFiniteSet(Ej)
      /\ Cardinality(Ei) \in Nat /\ Cardinality(Ej) \in Nat
  BY RankType
<1>3. IsFiniteSet(Ei \cup {i}) /\ Cardinality(Ei \cup {i}) = Cardinality(Ei) + 1
  BY <1>1, <1>2, FS_AddElement
<1>4. Cardinality(Ei) + 1 <= Cardinality(Ej)
  BY <1>1, <1>2, <1>3, FS_Subset
<1> QED
  BY <1>2, <1>4 DEF Rank, Earlier

(* Two indices have different ranks, and every place has its index.          *)
LEMMA RankBijective ==
    ASSUME NEW I, NEW before, Orders(before, I)
    PROVE  /\ \A i, j \in I : Rank(i, I, before) = Rank(j, I, before) => i = j
           /\ \A k \in 1..Cardinality(I) : \E i \in I : Rank(i, I, before) = k
<1> DEFINE r == [i \in I |-> Rank(i, I, before)]
           Places == 1..Cardinality(I)
<1>1. \A i \in I : Rank(i, I, before) \in Nat
  BY RankType
<1>2. ASSUME NEW i \in I, NEW j \in I, Rank(i, I, before) = Rank(j, I, before)
      PROVE  i = j
  <2>1. ~(<<i, j>> \in before) /\ ~(<<j, i>> \in before)
    BY <1>1, <1>2, RankMonotone
  <2> QED
    BY <2>1 DEF Orders
<1>3. r \in [I -> Places]
  BY RankType
<1>4. r \in Injection(I, Places)
  BY <1>2, <1>3 DEF Injection, IsInjective
<1>5. IsFiniteSet(I) /\ Cardinality(I) \in Nat
  BY FS_CardinalityType DEF Orders
<1>6. IsFiniteSet(Places) /\ Cardinality(Places) = Cardinality(I)
  <2> DEFINE n == Cardinality(I)
  <2>1. IsFiniteSet(1..n)
        /\ Cardinality(1..n) = IF 1 > n THEN 0 ELSE n - 1 + 1
    BY <1>5, FS_Interval
  <2> QED
    BY <1>5, <2>1
<1>7. r \in Surjection(I, Places)
  BY <1>4, <1>5, <1>6, FS_Injection
<1> QED
  BY <1>2, <1>7 DEF Surjection

(* Ranked lists the elements at the indices I, each once, in the order.      *)
THEOREM RankedLists ==
    ASSUME NEW s, NEW I, NEW before, Orders(before, I)
    PROVE  \E f : /\ Enumerates(f, I, before)
                  /\ Ranked(s, I, before) = [k \in 1..Cardinality(I) |-> s[f[k]]]
<1> DEFINE Places == 1..Cardinality(I)
           f == [k \in Places |-> CHOOSE i \in I : Rank(i, I, before) = k]
<1>1. \A k \in Places : f[k] \in I /\ Rank(f[k], I, before) = k
  BY RankBijective
<1>2. f \in [Places -> I]
  BY <1>1
<1>3. \A i \in I : \E k \in Places : f[k] = i
  BY <1>1, RankBijective, RankType
<1>4. ASSUME NEW k \in Places, NEW l \in Places, k < l
      PROVE  <<f[k], f[l]>> \in before
  <2>1. Cardinality(I) \in Nat
    BY FS_CardinalityType DEF Orders
  <2> HIDE DEF f
  <2>2. /\ f[k] \in I /\ Rank(f[k], I, before) = k
        /\ f[l] \in I /\ Rank(f[l], I, before) = l
    BY <1>1
  <2>3. k \in Nat /\ l \in Nat /\ ~(k = l) /\ ~(l < k)
    BY <1>4, <2>1
  <2>4. f[k] # f[l]
    BY <2>2, <2>3
  <2>5. ~(<<f[l], f[k]>> \in before)
    BY <2>2, <2>3, RankMonotone
  <2> QED
    BY <2>2, <2>4, <2>5 DEF Orders
<1>5. Ranked(s, I, before) = [k \in Places |-> s[f[k]]]
  BY DEF Ranked
<1> QED
  BY <1>2, <1>3, <1>4, <1>5 DEF Enumerates
-----------------------------------------------------------------------------
(* The elements of a ranked sequence are those at the indices, no others.    *)
LEMMA RankedElements ==
    ASSUME NEW S, NEW s, NEW I, NEW before, Orders(before, I),
           \A i \in I : s[i] \in S
    PROVE  /\ Ranked(s, I, before) \in Seq(S)
           /\ DOMAIN Ranked(s, I, before) = 1..Cardinality(I)
           /\ Elements(Ranked(s, I, before)) = {s[i] : i \in I}
<1>1. PICK f : /\ Enumerates(f, I, before)
               /\ Ranked(s, I, before) = [k \in 1..Cardinality(I) |-> s[f[k]]]
  BY RankedLists DEF Ranked
<1>2. Cardinality(I) \in Nat
  BY FS_CardinalityType DEF Orders
<1>3. \A k \in 1..Cardinality(I) : f[k] \in I
  BY <1>1 DEF Enumerates
<1>4. Ranked(s, I, before) \in Seq(S)
  BY <1>1, <1>2, <1>3
<1>5. DOMAIN Ranked(s, I, before) = 1..Cardinality(I)
  BY <1>1
<1>6. Elements(Ranked(s, I, before)) = {s[i] : i \in I}
  <2>1. Elements(Ranked(s, I, before)) = {s[f[k]] : k \in 1..Cardinality(I)}
    BY <1>1 DEF Elements
  <2>2. ASSUME NEW i \in I PROVE \E k \in 1..Cardinality(I) : s[f[k]] = s[i]
    BY <1>1 DEF Enumerates
  <2> QED
    BY <2>1, <2>2, <1>3
<1> QED
  BY <1>4, <1>5, <1>6

(* The indices of a sequence are ordered by their position.                  *)
LEMMA PositionOrders ==
    ASSUME NEW S, NEW s \in Seq(S), NEW I \in SUBSET DOMAIN s
    PROVE  Orders(Position(I), I)
<1>1. DOMAIN s = 1..Len(s) /\ Len(s) \in Nat
  OBVIOUS
<1>2. IsFiniteSet(I)
  <2>1. IsFiniteSet(1..Len(s))
    BY <1>1, FS_Interval
  <2> QED
    BY <1>1, <2>1, FS_Subset
<1>3. \A i \in I : i \in Nat
  BY <1>1
<1> QED
  BY <1>2, <1>3 DEF Orders, Position

(* Keep returns the elements at the indices, in the order of the list.       *)
THEOREM KeepLists ==
    ASSUME NEW S, NEW s \in Seq(S), NEW I \in SUBSET DOMAIN s
    PROVE  /\ Keep(s, I) \in Seq(S)
           /\ Elements(Keep(s, I)) = {s[i] : i \in I}
           /\ \E f \in [DOMAIN Keep(s, I) -> I] :
                 /\ \A k \in DOMAIN Keep(s, I) : Keep(s, I)[k] = s[f[k]]
                 /\ \A k, l \in DOMAIN Keep(s, I) : k < l => f[k] < f[l]
                 /\ \A i \in I : \E k \in DOMAIN Keep(s, I) : f[k] = i
<1>1. Orders(Position(I), I)
  BY PositionOrders
<1>2. \A i \in I : s[i] \in S
  OBVIOUS
<1>3. /\ Keep(s, I) \in Seq(S)
      /\ DOMAIN Keep(s, I) = 1..Cardinality(I)
      /\ Elements(Keep(s, I)) = {s[i] : i \in I}
  BY <1>1, <1>2, RankedElements DEF Keep
<1>4. PICK f : /\ Enumerates(f, I, Position(I))
               /\ Keep(s, I) = [k \in 1..Cardinality(I) |-> s[f[k]]]
  BY <1>1, RankedLists DEF Keep
<1>5. /\ f \in [DOMAIN Keep(s, I) -> I]
      /\ \A k \in DOMAIN Keep(s, I) : Keep(s, I)[k] = s[f[k]]
      /\ \A k, l \in DOMAIN Keep(s, I) : k < l => f[k] < f[l]
      /\ \A i \in I : \E k \in DOMAIN Keep(s, I) : f[k] = i
  BY <1>3, <1>4 DEF Enumerates, Position
<1> QED
  BY <1>3, <1>5
(* Among the indices of a sequence there is a first one.                     *)
LEMMA FirstIndex ==
    ASSUME NEW S, NEW s \in Seq(S), NEW I \in SUBSET DOMAIN s, I # {}
    PROVE  \E m \in I : \A j \in I : m <= j
<1>1. Orders(Position(I), I)
  BY PositionOrders
<1>2. \A i \in I : Rank(i, I, Position(I)) \in 1..Cardinality(I) /\ i \in Nat
  BY <1>1, RankType
<1>3. Cardinality(I) \in Nat
  BY <1>1, FS_CardinalityType DEF Orders
<1>4. 1 \in 1..Cardinality(I)
  BY <1>2, <1>3
<1>5. PICK m \in I : Rank(m, I, Position(I)) = 1
  BY <1>1, <1>4, RankBijective
<1>6. ASSUME NEW j \in I, j < m PROVE FALSE
  <2>1. <<j, m>> \in Position(I)
    BY <1>6 DEF Position
  <2>2. Rank(j, I, Position(I)) < 1
    BY <1>1, <1>5, <2>1, RankMonotone
  <2> QED
    BY <1>2, <1>3, <2>2
<1> QED
  BY <1>2, <1>6
(* Keep returns one element for each index, so never more than there were.   *)
LEMMA KeepShrinks ==
    ASSUME NEW S, NEW s \in Seq(S), NEW I \in SUBSET DOMAIN s
    PROVE  /\ Len(Keep(s, I)) <= Len(s)
           /\ I # DOMAIN s => Len(Keep(s, I)) < Len(s)
<1>1. /\ Orders(Position(I), I) /\ Keep(s, I) = Ranked(s, I, Position(I))
      /\ DOMAIN s = 1..Len(s) /\ Len(s) \in Nat
  BY PositionOrders DEF Keep
<1>2. IsFiniteSet(1..Len(s)) /\ Cardinality(1..Len(s)) = Len(s)
  <2> DEFINE n == Len(s)
  <2>1. IsFiniteSet(1..n)
        /\ Cardinality(1..n) = IF 1 > n THEN 0 ELSE n - 1 + 1
    BY <1>1, FS_Interval
  <2>2. n \in Nat
    BY <1>1
  <2> QED
    BY <2>1, <2>2
<1>3. /\ Cardinality(I) <= Len(s) /\ Cardinality(I) \in Nat
      /\ I # DOMAIN s => Cardinality(I) # Len(s)
  BY <1>1, <1>2, FS_Subset, FS_CardinalityType
<1>4. Len(Keep(s, I)) = Cardinality(I)
  BY <1>1, <1>3 DEF Ranked
<1> QED
  BY <1>1, <1>3, <1>4

(* A queue without repetition: joining at the end ...                        *)
NoRepeat(q) == \A i, j \in DOMAIN q : q[i] = q[j] => i = j

LEMMA QueueJoined ==
    ASSUME NEW S, NEW q \in Seq(S), NEW t \in S, t \notin Elements(q), NoRepeat(q)
    PROVE  /\ Append(q, t) \in Seq(S) /\ NoRepeat(Append(q, t))
           /\ Elements(Append(q, t)) = Elements(q) \cup {t}
           /\ Append(q, t) # <<>>
           /\ q = <<>> => Head(Append(q, t)) = t
           /\ q # <<>> => Head(Append(q, t)) = Head(q)
<1>1. /\ Append(q, t) \in Seq(S) /\ Len(Append(q, t)) = Len(q) + 1 /\ Len(q) \in Nat
      /\ DOMAIN q = 1..Len(q) /\ DOMAIN Append(q, t) = 1..(Len(q) + 1)
      /\ \A i \in 1..Len(q) : Append(q, t)[i] = q[i]
      /\ Append(q, t)[Len(q) + 1] = t
  OBVIOUS
<1>2. \A i \in 1..(Len(q) + 1) : i \in 1..Len(q) \/ i = Len(q) + 1
  BY <1>1
<1>3. \A i \in 1..Len(q) : i \in 1..(Len(q) + 1) /\ q[i] # t
  BY <1>1 DEF Elements
<1>4. NoRepeat(Append(q, t))
  BY <1>1, <1>2, <1>3 DEF NoRepeat
<1>5. Elements(Append(q, t)) = Elements(q) \cup {t}
  <2>1. Len(q) + 1 \in DOMAIN Append(q, t)
    BY <1>1
  <2> QED
    BY <1>1, <1>2, <1>3, <2>1 DEF Elements
<1>6. Append(q, t) # <<>>
  BY <1>1
<1>7. q = <<>> => Head(Append(q, t)) = t
  OBVIOUS
<1>8. q # <<>> => Head(Append(q, t)) = Head(q)
  OBVIOUS
<1> QED
  BY <1>1, <1>4, <1>5, <1>6, <1>7, <1>8

(* ... and the first one leaving.                                            *)
LEMMA QueueLeft ==
    ASSUME NEW S, NEW q \in Seq(S), q # <<>>, NoRepeat(q)
    PROVE  /\ Tail(q) \in Seq(S) /\ NoRepeat(Tail(q))
           /\ Elements(Tail(q)) = Elements(q) \ {Head(q)}
           /\ Head(q) \in Elements(q)
<1>1. /\ Tail(q) \in Seq(S) /\ Len(q) \in Nat \ {0}
      /\ DOMAIN q = 1..Len(q) /\ DOMAIN Tail(q) = 1..(Len(q) - 1)
      /\ \A i \in 1..(Len(q) - 1) : Tail(q)[i] = q[i + 1]
      /\ Head(q) = q[1]
  OBVIOUS
<1>2. \A i \in 1..(Len(q) - 1) : i + 1 \in 1..Len(q) /\ i + 1 # 1
  BY <1>1
<1>3. \A i \in 1..Len(q) : i # 1 => i - 1 \in 1..(Len(q) - 1) /\ (i - 1) + 1 = i
  BY <1>1
<1>4. NoRepeat(Tail(q))
  BY <1>1, <1>2 DEF NoRepeat
<1>5. 1 \in DOMAIN q
  BY <1>1
<1>6. \A i \in DOMAIN q : q[i] = q[1] => i = 1
  BY <1>5 DEF NoRepeat
<1>7. Elements(Tail(q)) \subseteq Elements(q) \ {Head(q)}
  BY <1>1, <1>2, <1>6 DEF Elements
<1>8. ASSUME NEW x \in Elements(q) \ {Head(q)} PROVE x \in Elements(Tail(q))
  <2>1. PICK i \in DOMAIN q : x = q[i]
    BY <1>8 DEF Elements
  <2>2. i - 1 \in DOMAIN Tail(q) /\ (i - 1) + 1 = i
    BY <1>1, <1>3, <1>8, <2>1
  <2> QED
    BY <1>1, <2>1, <2>2 DEF Elements
<1> QED
  BY <1>1, <1>4, <1>5, <1>7, <1>8 DEF Elements
=============================================================================
