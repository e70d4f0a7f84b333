-------------------------- MODULE RootSearchProofs --------------------------
(* TLAPS proofs about the list of root moves, for any moves and ranks, any  *)
(* number of lines and iterations, any values a search may return, and a    *)
(* stop at any point: the list stays whole, well formed and in order of     *)
(* rank, and no window is empty (IInv); exact scores have their variation   *)
(* (PairInv), exact losses were searched to their end (LineInv) and every   *)
(* line has a score to show (ShowInv); a line cut short overtakes no loss,  *)
(* and a mate once found is kept.                                           *)
EXTENDS RootSearch, FiniteSetTheorems, TLAPS

N == Cardinality(Moves)

LEMMA NType == N \in Nat /\ N > 0
<1>1. N \in Nat
  BY MovesAssumption, FS_CardinalityType DEF N
<1>2. N # 0
  BY MovesAssumption, FS_EmptySet DEF N
<1> QED BY <1>1, <1>2

-----------------------------------------------------------------------------
(* Sorting.                                                                 *)

(* B is a strict total order on D, and how many of D come before i in it.   *)
Orders(B, D) ==
  /\ \A i \in D : <<i, i>> \notin B
  /\ \A i, j \in D : i # j => <<i, j>> \in B \/ <<j, i>> \in B
  /\ \A i, j, k \in D : <<i, j>> \in B /\ <<j, k>> \in B => <<i, k>> \in B

Rank(B, D, i) == Cardinality({j \in D : <<j, i>> \in B})

(* In a strict total order on an interval, how many come before a place is  *)
(* different for each, and every number occurs.                             *)
LEMMA Ranking ==
  ASSUME NEW first \in Nat, NEW last \in Nat, first <= last,
         NEW B, Orders(B, first .. last)
  PROVE  \A k \in first .. last : \E i \in first .. last : Rank(B, first .. last, i) = k - first
<1> DEFINE D == first .. last
           Below(i) == {j \in D : <<j, i>> \in B}
           r == [i \in D |-> Cardinality(Below(i)) + first]
<1>0. /\ \A i \in D : <<i, i>> \notin B
      /\ \A i, j \in D : i # j => <<i, j>> \in B \/ <<j, i>> \in B
      /\ \A i, j, k \in D : <<i, j>> \in B /\ <<j, k>> \in B => <<i, k>> \in B
  BY DEF Orders
<1>1. IsFiniteSet(D) /\ Cardinality(D) = last - first + 1
  BY FS_Interval
<1>2. ASSUME NEW i \in D
      PROVE  IsFiniteSet(Below(i)) /\ Cardinality(Below(i)) \in 0 .. last - first
  <2>1. IsFiniteSet(Below(i)) /\ Cardinality(Below(i)) \in Nat
    <3>1. Below(i) \in SUBSET D
      OBVIOUS
    <3> QED BY <1>1, <3>1, FS_Subset, FS_CardinalityType
  <2>2. IsFiniteSet(D \ {i}) /\ Cardinality(D \ {i}) = last - first
    <3> HIDE DEF D
    <3>1. IsFiniteSet(D \ {i}) /\ Cardinality(D \ {i}) = Cardinality(D) - 1
      BY <1>1, FS_RemoveElement
    <3> QED BY <1>1, <3>1
  <2>3. Below(i) \in SUBSET (D \ {i})
    BY <1>0
  <2>4. Cardinality(Below(i)) <= Cardinality(D \ {i})
    BY <2>2, <2>3, FS_Subset
  <2> QED BY <2>1, <2>2, <2>4
<1>3. ASSUME NEW i \in D, NEW j \in D, <<i, j>> \in B
      PROVE  Cardinality(Below(i)) < Cardinality(Below(j))
  <2>1. IsFiniteSet(Below(j) \ {i}) /\ Cardinality(Below(j) \ {i}) = Cardinality(Below(j)) - 1
    <3>1. i \in Below(j)
      BY <1>3
    <3> QED BY <1>2, <3>1, FS_RemoveElement
  <2>2. Below(i) \in SUBSET (Below(j) \ {i})
    BY <1>0, <1>3
  <2>3. Cardinality(Below(i)) <= Cardinality(Below(j) \ {i})
    BY <2>1, <2>2, FS_Subset
  <2> HIDE DEF Below
  <2>4. Cardinality(Below(i)) \in Nat /\ Cardinality(Below(j)) \in Nat
    BY <1>2
  <2> QED BY <2>1, <2>3, <2>4
<1>4. r \in [D -> D]
  <2>1. ASSUME NEW i \in D PROVE Cardinality(Below(i)) + first \in D
    <3>1. Cardinality(Below(i)) \in 0 .. last - first
      BY <1>2
    <3> HIDE DEF Below
    <3> QED BY <3>1
  <2> QED BY <2>1
<1>5. ASSUME NEW i \in D, NEW j \in D, i # j PROVE r[i] # r[j]
  <2>1. Cardinality(Below(i)) # Cardinality(Below(j))
    <3>1. Cardinality(Below(i)) < Cardinality(Below(j)) \/ Cardinality(Below(j)) < Cardinality(Below(i))
      BY <1>0, <1>3, <1>5
    <3>2. Cardinality(Below(i)) \in 0 .. last - first /\ Cardinality(Below(j)) \in 0 .. last - first
      BY <1>2
    <3> HIDE DEF Below
    <3> QED BY <3>1, <3>2
  <2> HIDE DEF Below
  <2>2. Cardinality(Below(i)) \in Nat /\ Cardinality(Below(j)) \in Nat
    BY <1>2
  <2> QED BY <2>1, <2>2
<1>6. r \in Injection(D, D)
  BY <1>4, <1>5 DEF Injection, IsInjective
<1>7. r \in Surjection(D, D)
  BY <1>1, <1>6, FS_Injection
<1>8. ASSUME NEW k \in D PROVE \E i \in D : Cardinality(Below(i)) = k - first
  <2>1. PICK i \in D : r[i] = k
    BY <1>7 DEF Surjection
  <2>2. Cardinality(Below(i)) \in 0 .. last - first
    BY <1>2
  <2>3. r[i] = Cardinality(Below(i)) + first
    OBVIOUS
  <2> HIDE DEF Below, r
  <2>4. Cardinality(Below(i)) = k - first
    BY <2>1, <2>2, <2>3
  <2> QED BY <2>4
<1> QED BY <1>8 DEF Rank

LEMMA Scores ==
  ASSUME NEW rm \in RootMove
  PROVE  /\ rm.score \in Int /\ rm.previousScore \in Int
         /\ rm.score >= -Infinite /\ rm.score < Infinite
<1>1. rm.score \in Values \cup {-Infinite} /\ rm.previousScore \in Values \cup {-Infinite}
  BY DEF RootMove
<1> QED BY <1>1, ValuesAssumption

(* No later place holds what precedes an earlier one.                       *)
Placed(l, first, last) == \A i, j \in first .. last : i < j => ~Precedes(l[j], l[i])

(* Sorting a part of the list permutes that part, and what comes to its     *)
(* head has no lower score than what was there.                             *)
LEMMA SortedPermutes ==
  ASSUME NEW s \in [1 .. N -> RootMove], NEW first \in 1 .. N, NEW last \in first .. N
  PROVE  /\ Sorted(s, first, last) \in [1 .. N -> RootMove]
         /\ Placed(Sorted(s, first, last), first, last)
         /\ \E p \in [1 .. N -> 1 .. N] :
              /\ \A k \in 1 .. N : Sorted(s, first, last)[k] = s[p[k]]
              /\ \A k \in 1 .. N : IF k \in first .. last THEN p[k] \in first .. last ELSE p[k] = k
              /\ \A i, j \in 1 .. N : p[i] = p[j] => i = j
              /\ \A k \in 1 .. N : \E i \in 1 .. N : p[i] = k
              /\ s[p[first]].score >= s[first].score
<1> DEFINE D == first .. last
           before(i, j) == Precedes(s[i], s[j]) \/ (~Precedes(s[j], s[i]) /\ i < j)
           B == {e \in D \X D : before(e[1], e[2])}
           rank(i) == Cardinality({j \in D : before(j, i)})
           from(k) == CHOOSE i \in D : rank(i) = k - first
           p == [k \in 1 .. N |-> IF k \in D THEN from(k) ELSE k]
<1>0. N \in Nat /\ first \in Nat /\ last \in Nat /\ first <= last /\ D \subseteq 1 .. N /\ first \in D
  BY NType
<1>1. \A i \in D : s[i].score \in Int /\ s[i].previousScore \in Int
  BY <1>0, Scores
<1>2. /\ \A i \in D : ~before(i, i)
      /\ \A i, j \in D : i # j => before(i, j) \/ before(j, i)
      /\ \A i, j, k \in D : before(i, j) /\ before(j, k) => before(i, k)
  BY <1>0, <1>1 DEF Precedes
<1>3. ASSUME NEW i \in D PROVE rank(i) = Rank(B, D, i)
  <2>1. {j \in D : before(j, i)} = {j \in D : <<j, i>> \in B}
    OBVIOUS
  <2> QED BY <2>1 DEF Rank
<1>4. ASSUME NEW k \in D PROVE from(k) \in D /\ rank(from(k)) = k - first
  <2>1. Orders(B, D)
    <3>1. \A i, j \in D : <<i, j>> \in B <=> before(i, j)
      OBVIOUS
    <3> HIDE DEF before, B
    <3> QED BY <1>2, <3>1 DEF Orders
  <2>2. \E i \in D : Rank(B, D, i) = k - first
    <3> HIDE DEF B
    <3> QED BY <1>0, <2>1, Ranking
  <2>3. \E i \in D : rank(i) = k - first
    <3> HIDE DEF rank, B
    <3> QED BY <1>3, <2>2
  <2> QED BY <2>3
<1>5. ASSUME NEW k \in 1 .. N
      PROVE  /\ p[k] = IF k \in D THEN from(k) ELSE k
             /\ IF k \in D THEN p[k] \in D /\ rank(p[k]) = k - first ELSE p[k] = k
  BY <1>4
<1>6. p \in [1 .. N -> 1 .. N]
  <2>1. \A k \in 1 .. N : (IF k \in D THEN from(k) ELSE k) \in 1 .. N
    BY <1>0, <1>4
  <2> QED BY <2>1
<1>7. ASSUME NEW i \in 1 .. N, NEW j \in 1 .. N, p[i] = p[j] PROVE i = j
  <2> HIDE DEF p, rank, from, before
  <2>1. CASE i \in D /\ j \in D
    <3>1. i - first = j - first
      BY <1>5, <1>7, <2>1
    <3> QED BY <1>0, <3>1
  <2>2. CASE i \in D /\ j \notin D
    <3>1. p[i] \in D /\ p[j] = j
      BY <1>5, <2>2
    <3> QED BY <1>7, <2>2, <3>1
  <2>3. CASE i \notin D /\ j \in D
    <3>1. p[j] \in D /\ p[i] = i
      BY <1>5, <2>3
    <3> QED BY <1>7, <2>3, <3>1
  <2>4. CASE i \notin D /\ j \notin D
    BY <1>5, <1>7, <2>4
  <2> QED BY <2>1, <2>2, <2>3, <2>4
<1>8. \A k \in 1 .. N : \E i \in 1 .. N : p[i] = k
  <2> HIDE DEF p
  <2>1. p \in Injection(1 .. N, 1 .. N)
    BY <1>6, <1>7 DEF Injection, IsInjective
  <2>2. IsFiniteSet(1 .. N)
    BY <1>0, FS_Interval
  <2>3. p \in Surjection(1 .. N, 1 .. N)
    BY <2>1, <2>2, FS_Injection
  <2> QED BY <2>3 DEF Surjection
<1>9. /\ Sorted(s, first, last) \in [1 .. N -> RootMove]
      /\ \A k \in 1 .. N : Sorted(s, first, last)[k] = s[p[k]]
  <2>1. Sorted(s, first, last) = [k \in DOMAIN s |-> IF k \in D THEN s[from(k)] ELSE s[k]]
    BY DEF Sorted
  <2>2. \A k \in 1 .. N : p[k] = IF k \in D THEN from(k) ELSE k
    BY <1>5
  <2>3. \A k \in 1 .. N : p[k] \in 1 .. N
    <3> HIDE DEF p
    <3> QED BY <1>6
  <2> HIDE DEF from, p
  <2>4. Sorted(s, first, last) = [k \in 1 .. N |-> s[p[k]]]
    BY <2>1, <2>2
  <2> QED BY <2>3, <2>4
<1>10. s[p[first]].score >= s[first].score
  <2>1. p[first] \in D /\ rank(p[first]) = 0
    <3> HIDE DEF p, rank
    <3> QED BY <1>0, <1>5
  <2>2. ~before(first, p[first])
    <3> HIDE DEF p, before
    <3> SUFFICES ASSUME before(first, p[first]) PROVE FALSE
      OBVIOUS
    <3>1. first \in {j \in D : before(j, p[first])}
      BY <1>0
    <3>2. IsFiniteSet({j \in D : before(j, p[first])})
      <4>1. {j \in D : before(j, p[first])} \in SUBSET D
        OBVIOUS
      <4>2. IsFiniteSet(D)
        BY <1>0, FS_Interval
      <4> QED BY <4>1, <4>2, FS_Subset
    <3> QED BY <2>1, <3>1, <3>2, FS_EmptySet
  <2> HIDE DEF p, rank
  <2>3. s[p[first]].score \in Int /\ s[first].score \in Int
    BY <1>0, <1>1, <2>1
  <2> QED BY <2>2, <2>3 DEF Precedes
<1>11. ASSUME NEW i \in D, NEW j \in D, i < j
       PROVE  ~Precedes(Sorted(s, first, last)[j], Sorted(s, first, last)[i])
  <2>1. /\ p[i] \in D /\ rank(p[i]) = i - first
        /\ p[j] \in D /\ rank(p[j]) = j - first
    <3> HIDE DEF p, rank
    <3> QED BY <1>0, <1>5
  <2>2. Sorted(s, first, last)[j] = s[p[j]] /\ Sorted(s, first, last)[i] = s[p[i]]
    <3> HIDE DEF p
    <3> QED BY <1>0, <1>9
  <2> SUFFICES ASSUME Precedes(s[p[j]], s[p[i]]) PROVE FALSE
    BY <2>2
  <2> HIDE DEF p
  <2>3. before(p[j], p[i])
    OBVIOUS
  <2>4. {k \in D : before(k, p[j])} \in SUBSET {k \in D : before(k, p[i])}
    <3> HIDE DEF before
    <3> QED BY <1>2, <2>1, <2>3
  <2>5. IsFiniteSet({k \in D : before(k, p[i])})
    <3>1. {k \in D : before(k, p[i])} \in SUBSET D
      OBVIOUS
    <3>2. IsFiniteSet(D)
      BY <1>0, FS_Interval
    <3> QED BY <3>1, <3>2, FS_Subset
  <2>6. rank(p[j]) <= rank(p[i])
    <3> HIDE DEF before
    <3> QED BY <2>4, <2>5, FS_Subset
  <2> HIDE DEF rank
  <2> QED BY <1>0, <1>11, <2>1, <2>6
<1>12. Placed(Sorted(s, first, last), first, last)
  <2> HIDE DEF p, rank, from, B, before
  <2> QED BY <1>11 DEF Placed
<1> HIDE DEF p, rank, from, B, before
<1> QED BY <1>5, <1>6, <1>7, <1>8, <1>9, <1>10, <1>12

(* Sorting what is in place changes nothing: the sort is stable.            *)
LEMMA SortedStays ==
  ASSUME NEW s \in [1 .. N -> RootMove], NEW first \in 1 .. N, NEW last \in first .. N,
         Placed(s, first, last)
  PROVE  Sorted(s, first, last) = s
<1> DEFINE D == first .. last
           before(i, j) == Precedes(s[i], s[j]) \/ (~Precedes(s[j], s[i]) /\ i < j)
           rank(i) == Cardinality({j \in D : before(j, i)})
           from(k) == CHOOSE i \in D : rank(i) = k - first
<1>0. N \in Nat /\ first \in Nat /\ last \in Nat /\ first <= last /\ D \subseteq 1 .. N
  BY NType
<1>1. ASSUME NEW i \in D, NEW j \in D PROVE before(i, j) <=> i < j
  <2>1. i < j => ~Precedes(s[j], s[i])
    BY DEF Placed
  <2>2. j < i => ~Precedes(s[i], s[j])
    BY DEF Placed
  <2>3. i = j => ~Precedes(s[i], s[j])
    <3>1. s[i].score \in Int /\ s[i].previousScore \in Int
      BY <1>0, Scores
    <3> QED BY <3>1 DEF Precedes
  <2>4. i \in Int /\ j \in Int
    BY <1>0
  <2> QED BY <2>1, <2>2, <2>3, <2>4
<1>2. ASSUME NEW i \in D PROVE rank(i) = i - first
  <2>1. {j \in D : before(j, i)} = first .. i - 1
    <3> HIDE DEF before
    <3>1. {j \in D : before(j, i)} = {j \in D : j < i}
      BY <1>1
    <3> QED BY <1>0, <3>1
  <2>2. Cardinality(first .. i - 1) = i - first
    <3>1. first \in Int /\ i - 1 \in Int /\ i >= first
      BY <1>0
    <3>2. Cardinality(first .. i - 1) = IF first > i - 1 THEN 0 ELSE i - 1 - first + 1
      BY <3>1, FS_Interval
    <3> QED BY <3>1, <3>2
  <2> QED BY <2>1, <2>2
<1>3. ASSUME NEW k \in D PROVE from(k) = k
  <2> HIDE DEF rank
  <2>1. rank(k) = k - first /\ \A i \in D : rank(i) = k - first => i = k
    BY <1>0, <1>2
  <2>2. from(k) \in D /\ rank(from(k)) = k - first
    BY <2>1
  <2> HIDE DEF from
  <2> QED BY <2>1, <2>2
<1>4. Sorted(s, first, last) = [k \in 1 .. N |-> IF k \in D THEN s[from(k)] ELSE s[k]]
  BY DEF Sorted
<1> HIDE DEF from
<1>5. \A k \in 1 .. N : (IF k \in D THEN s[from(k)] ELSE s[k]) = s[k]
  BY <1>3
<1>6. Sorted(s, first, last) = [k \in 1 .. N |-> s[k]]
  BY <1>4, <1>5
<1> QED BY <1>6

-----------------------------------------------------------------------------
(* What every step keeps of the list.                                       *)
Flagged(rm) == rm.inexactLower /\ rm.inexactUpper

WholeList(l) ==
  /\ l \in [1 .. N -> RootMove]
  /\ \A i, j \in 1 .. N : l[i].move = l[j].move => i = j
  /\ \A m \in Moves : \E i \in 1 .. N : l[i].move = m
  /\ \A i \in 1 .. N : ~Flagged(l[i])

SameRanks(k, l) == \A i \in 1 .. N : k[i].tbRank = l[i].tbRank

(* The move m is of the front's tablebase rank.                             *)
FrontRank(l, m) == \A i \in 1 .. N : l[i].move = m => l[i].tbRank = l[1].tbRank

(* k is the list l or l after a step: by place it shows the same ranks.     *)
Follows(k, l) ==
  /\ WholeList(k)
  /\ SameRanks(k, l)
  /\ \A m : FrontRank(l, m) => FrontRank(k, m)

(* k has at place i what l has at place p[i].                               *)
Permutes(p, k, l) ==
  /\ p \in [1 .. N -> 1 .. N]
  /\ \A i \in 1 .. N : k[i] = l[p[i]]
  /\ \A i, j \in 1 .. N : p[i] = p[j] => i = j
  /\ \A j \in 1 .. N : \E i \in 1 .. N : p[i] = j

LEMMA PermutedFollows ==
  ASSUME NEW l, WholeList(l), NEW k \in [1 .. N -> RootMove], SameRanks(k, l),
         NEW p, Permutes(p, k, l)
  PROVE  Follows(k, l)
<1>0. /\ \A i \in 1 .. N : p[i] \in 1 .. N /\ k[i] = l[p[i]]
      /\ \A i, j \in 1 .. N : p[i] = p[j] => i = j
      /\ \A j \in 1 .. N : \E i \in 1 .. N : p[i] = j
  BY DEF Permutes
<1>1. ASSUME NEW i \in 1 .. N, NEW j \in 1 .. N, k[i].move = k[j].move PROVE i = j
  <2>1. l[p[i]].move = l[p[j]].move /\ p[i] \in 1 .. N /\ p[j] \in 1 .. N
    BY <1>0, <1>1
  <2>2. p[i] = p[j]
    BY <2>1 DEF WholeList
  <2> QED BY <1>0, <2>2
<1>2. ASSUME NEW m \in Moves PROVE \E i \in 1 .. N : k[i].move = m
  <2>1. PICK j \in 1 .. N : l[j].move = m
    BY DEF WholeList
  <2>2. PICK i \in 1 .. N : p[i] = j
    BY <1>0
  <2> QED BY <1>0, <2>1, <2>2
<1>3. \A i \in 1 .. N : ~Flagged(k[i])
  BY <1>0 DEF WholeList
<1>4. ASSUME NEW m, FrontRank(l, m) PROVE FrontRank(k, m)
  <2> SUFFICES ASSUME NEW i \in 1 .. N, k[i].move = m PROVE k[i].tbRank = k[1].tbRank
    BY DEF FrontRank
  <2>1. l[p[i]].tbRank = l[1].tbRank
    BY <1>0, <1>4 DEF FrontRank
  <2>2. 1 \in 1 .. N
    BY NType
  <2> QED BY <1>0, <2>1, <2>2 DEF SameRanks
<1> QED BY <1>1, <1>2, <1>3, <1>4 DEF Follows, WholeList

(* Sorting moves of one rank.                                               *)
LEMMA SortedFollows ==
  ASSUME NEW l, WholeList(l), NEW first \in 1 .. N, NEW last \in first .. N,
         \A i, j \in first .. last : l[i].tbRank = l[j].tbRank
  PROVE  /\ Follows(Sorted(l, first, last), l)
         /\ \A i \in 1 .. N : i \notin first .. last => Sorted(l, first, last)[i] = l[i]
         /\ l[first].score # -Infinite => Sorted(l, first, last)[first].score # -Infinite
<1> DEFINE k == Sorted(l, first, last)
<1>1. l \in [1 .. N -> RootMove] /\ first \in Int /\ last \in Int /\ first \in first .. last
  BY NType DEF WholeList
<1>2. PICK p \in [1 .. N -> 1 .. N] :
        /\ \A i \in 1 .. N : k[i] = l[p[i]]
        /\ \A i \in 1 .. N : IF i \in first .. last THEN p[i] \in first .. last ELSE p[i] = i
        /\ \A i, j \in 1 .. N : p[i] = p[j] => i = j
        /\ \A j \in 1 .. N : \E i \in 1 .. N : p[i] = j
        /\ l[p[first]].score >= l[first].score
  BY <1>1, SortedPermutes
<1>3. k \in [1 .. N -> RootMove]
  BY <1>1, SortedPermutes
<1> HIDE DEF k
<1>4. SameRanks(k, l)
  <2> SUFFICES ASSUME NEW i \in 1 .. N PROVE k[i].tbRank = l[i].tbRank
    BY DEF SameRanks
  <2>1. CASE i \in first .. last
    <3>1. p[i] \in first .. last /\ k[i] = l[p[i]]
      BY <1>2, <2>1
    <3> QED BY <2>1, <3>1
  <2>2. CASE i \notin first .. last
    <3>1. p[i] = i /\ k[i] = l[p[i]]
      BY <1>2, <2>2
    <3> QED BY <3>1
  <2> QED BY <2>1, <2>2
<1>5. Follows(k, l)
  <2>1. Permutes(p, k, l)
    BY <1>2 DEF Permutes
  <2> QED BY <1>3, <1>4, <2>1, PermutedFollows
<1>6. l[first].score # -Infinite => k[first].score # -Infinite
  <2>1. l[first] \in RootMove /\ l[p[first]] \in RootMove /\ k[first] = l[p[first]]
    BY <1>1, <1>2
  <2>2. l[first].score \in Int /\ l[p[first]].score \in Int /\ l[first].score >= -Infinite
    BY <2>1, Scores
  <2> QED BY <1>2, <2>1, <2>2, ValuesAssumption
<1>7. \A i \in 1 .. N : i \notin first .. last => k[i] = l[i]
  BY <1>2
<1> QED BY <1>5, <1>6, <1>7 DEF k

(* Bringing a move of the front's rank to the front.                        *)
LEMMA ToFrontFollows ==
  ASSUME NEW l, WholeList(l), NEW m \in Moves, FrontRank(l, m),
         \A i, j \in 1 .. N : i < j => l[i].tbRank >= l[j].tbRank
  PROVE  Follows(ToFront(l, m), l)
<1> DEFINE at == CHOOSE i \in DOMAIN l : l[i].move = m
           k == ToFront(l, m)
           p == [i \in 1 .. N |-> IF i = 1 THEN at ELSE IF i <= at THEN i - 1 ELSE i]
<1>1. l \in [1 .. N -> RootMove] /\ N \in Nat /\ N > 0
  BY NType DEF WholeList
<1>2. at \in 1 .. N /\ l[at].move = m
  <2>1. \E i \in DOMAIN l : l[i].move = m
    BY <1>1 DEF WholeList
  <2>2. DOMAIN l = 1 .. N
    BY <1>1
  <2> QED BY <2>1, <2>2
<1>3. k = [i \in 1 .. N |-> IF i = 1 THEN l[at] ELSE IF i <= at THEN l[i - 1] ELSE l[i]]
  BY <1>1 DEF ToFront
<1> HIDE DEF at, k
<1>4. p \in [1 .. N -> 1 .. N]
  BY <1>1, <1>2
<1>5. /\ \A i \in 1 .. N : k[i] = l[p[i]]
      /\ k \in [1 .. N -> RootMove]
  BY <1>1, <1>2, <1>3
<1>6. \A i, j \in 1 .. N : p[i] = p[j] => i = j
  BY <1>1, <1>2
<1>7. ASSUME NEW j \in 1 .. N PROVE \E i \in 1 .. N : p[i] = j
  <2>1. CASE j = at
    <3>1. p[1] = j /\ 1 \in 1 .. N
      BY <1>1, <2>1
    <3> QED BY <3>1
  <2>2. CASE j < at
    <3>1. p[j + 1] = j /\ j + 1 \in 1 .. N
      BY <1>1, <1>2, <2>2
    <3> QED BY <3>1
  <2>3. CASE j > at
    <3>1. p[j] = j
      BY <1>1, <1>2, <2>3
    <3> QED BY <3>1
  <2> QED BY <1>2, <2>1, <2>2, <2>3
<1>8. SameRanks(k, l)
  <2>1. l[at].tbRank = l[1].tbRank
    BY <1>2 DEF FrontRank
  <2>2. ASSUME NEW i \in 1 .. N PROVE l[i].tbRank \in Nat
    BY <1>1 DEF RootMove
  <2>3. ASSUME NEW i \in 1 .. N, i <= at PROVE l[i].tbRank = l[1].tbRank
    <3>1. 1 \in 1 .. N
      BY <1>1
    <3>2. (i = 1 \/ l[1].tbRank >= l[i].tbRank) /\ (i = at \/ l[i].tbRank >= l[at].tbRank)
      BY <1>2, <2>3, <3>1
    <3> QED BY <1>2, <2>1, <2>2, <3>1, <3>2
  <2> SUFFICES ASSUME NEW i \in 1 .. N PROVE k[i].tbRank = l[i].tbRank
    BY DEF SameRanks
  <2>4. CASE i > at
    <3>1. p[i] = i
      BY <1>2, <2>4
    <3> QED BY <1>5, <3>1
  <2>5. CASE i <= at
    <3>1. p[i] \in 1 .. N /\ p[i] <= at
      BY <1>1, <1>2, <2>5
    <3> HIDE DEF p
    <3> QED BY <1>5, <2>3, <2>5, <3>1
  <2> QED BY <1>2, <2>4, <2>5
<1> HIDE DEF p
<1>9. Follows(k, l)
  <2>1. Permutes(p, k, l)
    BY <1>4, <1>5, <1>6, <1>7 DEF Permutes
  <2> QED BY <1>5, <1>8, <2>1, PermutedFollows
<1> QED BY <1>9 DEF k

(* A root move rewritten in place: another score, flags or line.            *)
Rewrites(a, b) ==
  a \in RootMove /\ a.move = b.move /\ a.tbRank = b.tbRank /\ ~Flagged(a)

LEMMA RewrittenFollows ==
  ASSUME NEW l, WholeList(l), NEW k, k = [i \in 1 .. N |-> k[i]],
         \A i \in 1 .. N : Rewrites(k[i], l[i])
  PROVE  Follows(k, l)
<1>1. k \in [1 .. N -> RootMove] /\ SameRanks(k, l)
  BY DEF Rewrites, SameRanks
<1>2. \A i \in 1 .. N : k[i].move = l[i].move /\ k[i].tbRank = l[i].tbRank /\ ~Flagged(k[i])
  BY DEF Rewrites
<1>3. WholeList(k)
  BY <1>1, <1>2 DEF WholeList
<1>4. 1 \in 1 .. N
  BY NType
<1>5. \A m : FrontRank(l, m) => FrontRank(k, m)
  BY <1>2, <1>4 DEF FrontRank
<1> QED BY <1>1, <1>3, <1>5 DEF Follows

LEMMA OneRewrittenFollows ==
  ASSUME NEW l, WholeList(l), NEW at \in 1 .. N, NEW rm, Rewrites(rm, l[at])
  PROVE  Follows([l EXCEPT ![at] = rm], l)
<1> DEFINE k == [l EXCEPT ![at] = rm]
<1>1. k = [i \in 1 .. N |-> k[i]]
  BY DEF WholeList
<1>2. ASSUME NEW i \in 1 .. N PROVE Rewrites(k[i], l[i])
  <2>1. k[i] = IF i = at THEN rm ELSE l[i]
    BY DEF WholeList
  <2> HIDE DEF k
  <2>2. l[i] \in RootMove /\ ~Flagged(l[i])
    BY DEF WholeList
  <2> QED BY <2>1, <2>2 DEF Rewrites
<1> HIDE DEF k
<1>3. Follows(k, l)
  BY <1>1, <1>2, RewrittenFollows
<1> QED BY <1>3 DEF k

LEMMA FollowsItself == ASSUME NEW l, WholeList(l) PROVE Follows(l, l)
BY DEF Follows, SameRanks

LEMMA FollowsFurther ==
  ASSUME NEW j, NEW k, NEW l, Follows(j, k), Follows(k, l)
  PROVE  Follows(j, l)
BY DEF Follows, SameRanks

-----------------------------------------------------------------------------
(* How single root moves are rewritten.                                     *)
Eval == -Infinite .. Infinite

LEMMA ValuesAreEvals ==
  /\ Infinite \in Nat /\ -Infinite \in Eval /\ Infinite \in Eval /\ 0 \in Eval
  /\ \A v \in Values : v \in Eval /\ v \in Int /\ -Infinite < v /\ v < Infinite
BY ValuesAssumption DEF Eval

LEMMA Fields ==
  ASSUME NEW rm \in RootMove
  PROVE  /\ rm = [move |-> rm.move, tbRank |-> rm.tbRank, score |-> rm.score,
                  previousScore |-> rm.previousScore, previousScoreExact |-> rm.previousScoreExact,
                  uciScore |-> rm.uciScore, inexactLower |-> rm.inexactLower,
                  inexactUpper |-> rm.inexactUpper, averageScore |-> rm.averageScore,
                  pv |-> rm.pv, previousPV |-> rm.previousPV]
         /\ rm.move \in Moves /\ rm.tbRank \in Nat
         /\ rm.score \in Values \cup {-Infinite} /\ rm.previousScore \in Values \cup {-Infinite}
         /\ rm.score \in Eval /\ rm.previousScore \in Eval
         /\ rm.previousScoreExact \in BOOLEAN /\ rm.uciScore \in Eval
         /\ rm.inexactLower \in BOOLEAN /\ rm.inexactUpper \in BOOLEAN
         /\ rm.averageScore \in Eval /\ rm.pv \in Line /\ rm.previousPV \in Line
<1>1. rm.score \in Values \cup {-Infinite} /\ rm.previousScore \in Values \cup {-Infinite}
  BY DEF RootMove
<1> QED BY <1>1, ValuesAreEvals DEF RootMove, Eval

LEMMA BareIsLine == Bare \in Line
BY DEF Bare, Line

LEMMA WithPreviousRewrites ==
  ASSUME NEW rm \in RootMove, ~Flagged(rm), NEW i \in Nat
  PROVE  Rewrites(WithPrevious(rm, i), rm)
<1>1. (i <= MultiPV) \in BOOLEAN
  OBVIOUS
<1>2. WithPrevious(rm, i) \in RootMove
  BY <1>1, Fields DEF WithPrevious, RootMove
<1>3. /\ WithPrevious(rm, i).move = rm.move /\ WithPrevious(rm, i).tbRank = rm.tbRank
      /\ WithPrevious(rm, i).inexactLower = rm.inexactLower
      /\ WithPrevious(rm, i).inexactUpper = rm.inexactUpper
  BY Fields DEF WithPrevious
<1> QED BY <1>2, <1>3 DEF Rewrites, Flagged

LEMMA MarkedRewrites ==
  ASSUME NEW rm \in RootMove, IsExactLoss(rm)
  PROVE  Rewrites([rm EXCEPT !.inexactLower = TRUE], rm)
<1>1. ~rm.inexactUpper
  BY DEF IsExactLoss, IsExact, IsInexact
<1> QED BY <1>1, Fields DEF Rewrites, Flagged, RootMove

LEMMA CompletedRewrites ==
  ASSUME NEW rm \in RootMove, ~Flagged(rm)
  PROVE  Rewrites([rm EXCEPT !.pv.complete = TRUE], rm)
<1>1. [rm.pv EXCEPT !.complete = TRUE] \in Line
  BY Fields DEF Line
<1> DEFINE done == [rm EXCEPT !.pv = [rm.pv EXCEPT !.complete = TRUE]]
<1>2. done \in RootMove
  BY <1>1, Fields DEF RootMove
<1>3. /\ done.move = rm.move /\ done.tbRank = rm.tbRank
      /\ done.inexactLower = rm.inexactLower /\ done.inexactUpper = rm.inexactUpper
  BY Fields
<1> QED BY <1>2, <1>3 DEF Rewrites, Flagged

(* A weighted mean lies where its parts do, though the division rounds down. *)
LEMMA MeanInRange ==
  ASSUME NEW d \in Nat, d > 0, NEW w \in 0 .. d, NEW b \in Nat,
         NEW v \in -b .. b, NEW m \in -b .. b
  PROVE  (v * w + m * (d - w)) \div d \in -b .. b
<1> DEFINE x == v * w + m * (d - w)
           q == x \div d
<1>1. x \in Int /\ -(b * d) <= x /\ x <= b * d
  <2>1. (b - v) * w >= 0 /\ (v + b) * w >= 0
    OBVIOUS
  <2>2. (b - m) * (d - w) >= 0 /\ (m + b) * (d - w) >= 0
    OBVIOUS
  <2>3. (b - v) * w = b * w - v * w /\ (v + b) * w = v * w + b * w
    OBVIOUS
  <2>4. /\ (b - m) * (d - w) = b * (d - w) - m * (d - w)
        /\ (m + b) * (d - w) = m * (d - w) + b * (d - w)
    OBVIOUS
  <2>5. b * w + b * (d - w) = b * d
    OBVIOUS
  <2>6. v * w \in Int /\ m * (d - w) \in Int /\ b * w \in Int /\ b * (d - w) \in Int /\ b * d \in Int
    OBVIOUS
  <2>7. v * w <= b * w /\ -(b * w) <= v * w
    BY <2>1, <2>3, <2>6
  <2>8. m * (d - w) <= b * (d - w) /\ -(b * (d - w)) <= m * (d - w)
    BY <2>2, <2>4, <2>6
  <2> QED BY <2>5, <2>6, <2>7, <2>8
<1> HIDE DEF x
<1>2. q \in Int /\ d * q <= x /\ x < d * q + d
  BY <1>1
<1> HIDE DEF q
<1>3. q <= b
  <2> SUFFICES ASSUME q >= b + 1 PROVE FALSE
    BY <1>2
  <2>1. d * q >= d * (b + 1)
    BY <1>2
  <2>2. d * (b + 1) = b * d + d
    OBVIOUS
  <2> QED BY <1>1, <1>2, <2>1, <2>2
<1>4. -b <= q
  <2> SUFFICES ASSUME q + 1 <= -b PROVE FALSE
    BY <1>2
  <2>1. d * (q + 1) <= d * (-b)
    BY <1>2
  <2>2. d * (q + 1) = d * q + d /\ d * (-b) = -(b * d)
    BY <1>2
  <2> QED BY <1>1, <1>2, <2>1, <2>2
<1> QED BY <1>2, <1>3, <1>4 DEF q, x

LEMMA AveragesAreEvals ==
  ASSUME NEW rm \in RootMove, NEW v \in Values, NEW average \in Averages(rm, v)
  PROVE  average \in Eval
<1>1. CASE rm.averageScore = -Infinite
  BY <1>1, ValuesAreEvals DEF Averages
<1>2. CASE rm.averageScore # -Infinite
  <2>1. PICK w \in Weights : average = (v * w + rm.averageScore * (Scale - w)) \div Scale
    BY <1>2 DEF Averages
  <2>2. v \in -Infinite .. Infinite /\ rm.averageScore \in -Infinite .. Infinite /\ Infinite \in Nat
    BY Fields, ValuesAreEvals DEF Eval
  <2>3. Scale \in Nat /\ Scale > 0 /\ w \in 0 .. Scale
    BY WeightsAssumption
  <2> QED BY <2>1, <2>2, <2>3, MeanInRange DEF Eval
<1> QED BY <1>1, <1>2

(* What the search of a move makes of it.                                   *)
LEMMA SearchedRewrites ==
  ASSUME NEW rm \in RootMove, ~Flagged(rm), NEW v \in Values, NEW first \in BOOLEAN,
         NEW average \in Averages(rm, v), low \in Eval, beta \in Eval
  PROVE  /\ Rewrites([AfterMove(rm, v, first) EXCEPT !.averageScore = average], rm)
         /\ first => [AfterMove(rm, v, first) EXCEPT !.averageScore = average].score = v
<1> DEFINE after == AfterMove(rm, v, first)
           done  == [after EXCEPT !.averageScore = average]
<1>1. average \in Eval
  BY AveragesAreEvals
<1>2. /\ after \in RootMove /\ after.move = rm.move /\ after.tbRank = rm.tbRank /\ ~Flagged(after)
      /\ first => after.score = v
  <2>1. CASE first \/ v > low
    <3>1. after = Rescored(rm, v)
      BY <2>1 DEF AfterMove
    <3> DEFINE shown == IF v >= beta THEN beta ELSE IF v <= low THEN low ELSE v
               lower == v >= beta
               upper == v < beta /\ v <= low
               line  == [of |-> v, inside |-> low < v /\ v < beta, complete |-> FALSE]
    <3>2. shown \in Eval /\ lower \in BOOLEAN /\ upper \in BOOLEAN
      BY ValuesAreEvals
    <3>3. ~(lower /\ upper)
      BY ValuesAreEvals DEF Eval
    <3>4. line \in Line
      BY DEF Line
    <3>5. after = [rm EXCEPT !.score = v, !.uciScore = shown, !.inexactLower = lower,
                             !.inexactUpper = upper, !.pv = line]
      BY <3>1 DEF Rescored
    <3> HIDE DEF shown, lower, upper, line, after
    <3>6. after \in RootMove
      BY <3>2, <3>4, <3>5, Fields DEF RootMove, Eval
    <3>7. /\ after.move = rm.move /\ after.tbRank = rm.tbRank /\ after.score = v
          /\ after.inexactLower = lower /\ after.inexactUpper = upper
      BY <3>5, Fields
    <3> QED BY <3>3, <3>6, <3>7 DEF Flagged
  <2>2. CASE ~(first \/ v > low)
    <3>1. after = [rm EXCEPT !.score = -Infinite, !.pv = Bare]
      BY <2>2 DEF AfterMove
    <3> HIDE DEF after
    <3>2. after \in RootMove
      BY <3>1, BareIsLine, Fields DEF RootMove
    <3>3. /\ after.move = rm.move /\ after.tbRank = rm.tbRank
          /\ after.inexactLower = rm.inexactLower /\ after.inexactUpper = rm.inexactUpper
      BY <3>1, Fields
    <3> QED BY <2>2, <3>2, <3>3 DEF Flagged
  <2> QED BY <2>1, <2>2
<1> HIDE DEF after
<1>3. done \in RootMove
  BY <1>1, <1>2, Fields DEF RootMove, Eval
<1>4. /\ done.move = after.move /\ done.tbRank = after.tbRank /\ done.score = after.score
      /\ done.inexactLower = after.inexactLower /\ done.inexactUpper = after.inexactUpper
  BY <1>2, Fields
<1> QED BY <1>2, <1>3, <1>4 DEF Rewrites, Flagged, after

LEMMA ProtectedRewrites ==
  ASSUME NEW rm \in RootMove, ~Flagged(rm), NEW before \in RootMove
  PROVE  Rewrites(Protected(rm, before), rm)
<1> DEFINE kept == [rm EXCEPT !.score = rm.previousScore, !.uciScore = rm.previousScore,
                              !.previousScore = -Infinite, !.pv = rm.previousPV,
                              !.inexactLower = FALSE, !.inexactUpper = FALSE]
           held == [rm EXCEPT !.score = before.score, !.uciScore = before.score,
                              !.previousScore = -Infinite, !.pv = Bare,
                              !.inexactUpper = TRUE, !.inexactLower = FALSE]
           bound == [rm EXCEPT !.inexactUpper = FALSE, !.inexactLower = TRUE]
<1>1. Protected(rm, before) \in {rm, kept, held, bound}
  BY DEF Protected
<1>2. Rewrites(rm, rm)
  BY DEF Rewrites
<1>3. Rewrites(kept, rm)
  <2>1. kept \in RootMove
    BY Fields DEF RootMove, Eval
  <2>2. kept.move = rm.move /\ kept.tbRank = rm.tbRank /\ ~kept.inexactLower
    BY Fields
  <2> QED BY <2>1, <2>2 DEF Rewrites, Flagged
<1>4. Rewrites(held, rm)
  <2>1. before.score \in Values \cup {-Infinite} /\ before.score \in Eval
    BY Fields
  <2>2. held \in RootMove
    BY <2>1, BareIsLine, Fields DEF RootMove, Eval
  <2>3. held.move = rm.move /\ held.tbRank = rm.tbRank /\ ~held.inexactLower
    BY Fields
  <2> QED BY <2>2, <2>3 DEF Rewrites, Flagged
<1>5. Rewrites(bound, rm)
  <2>1. bound \in RootMove
    BY Fields DEF RootMove
  <2>2. bound.move = rm.move /\ bound.tbRank = rm.tbRank /\ ~bound.inexactUpper
    BY Fields
  <2> QED BY <2>1, <2>2 DEF Rewrites, Flagged
<1> HIDE DEF kept, held, bound
<1> QED BY <1>1, <1>2, <1>3, <1>4, <1>5

(* What rolling back makes of the front.                                    *)
LEMMA RestoredRewrites ==
  ASSUME NEW rm \in RootMove, NEW score \in Values, NEW pv \in Line
  PROVE  Rewrites([rm EXCEPT !.score = score, !.uciScore = score, !.pv = pv,
                             !.inexactLower = FALSE, !.inexactUpper = FALSE], rm)
<1> DEFINE done == [rm EXCEPT !.score = score, !.uciScore = score, !.pv = pv,
                              !.inexactLower = FALSE, !.inexactUpper = FALSE]
<1>1. done \in RootMove
  BY ValuesAreEvals, Fields DEF RootMove, Eval
<1>2. done.move = rm.move /\ done.tbRank = rm.tbRank /\ ~done.inexactLower
  BY Fields
<1> QED BY <1>1, <1>2 DEF Rewrites, Flagged

-----------------------------------------------------------------------------
(* The inductive invariant.                                                 *)

(* Places of one tablebase rank are searched together, and the move kept    *)
(* for a roll-back is of the front's rank: it may come back to the front.   *)
ListInv ==
  /\ WholeList(rootMoves)
  /\ RanksStayInOrder
  /\ pvFirst \in 1 .. N /\ pvLast \in 0 .. N
  /\ \A i, j \in pvFirst .. pvLast : rootMoves[i].tbRank = rootMoves[j].tbRank
  /\ lastBest # None => /\ lastBest \in [move : Moves, score : Values, pv : Line]
                        /\ FrontRank(rootMoves, lastBest.move)

Scalars ==
  /\ rootDepth \in 0 .. MaxDepth
  /\ {alpha, beta, low, bestValue} \subseteq Eval /\ delta \in Nat
  /\ todo \subseteq Moves
  /\ stopFlag \in BOOLEAN
  /\ pc \in {"iterate", "line", "search", "sort", "guard", "deliver", "close", "done"}

(* Where the line being searched lies.                                      *)
Places ==
  /\ pvIdx \in 1 .. MultiPV + 1
  /\ pc = "line" => pvIdx <= MultiPV /\ pvFirst <= pvIdx /\ pvIdx <= pvLast + 1
  /\ pc \in {"search", "sort", "guard", "deliver"} =>
       pvIdx <= MultiPV /\ pvFirst <= pvIdx /\ pvIdx <= pvLast

WindowInv ==
  /\ pc \in {"search", "sort"} =>
       -Infinite <= alpha /\ alpha <= low /\ low < beta /\ beta <= Infinite /\ delta > 0
  /\ pc = "sort" => bestValue > -Infinite

Segment(l, first, last) == {l[i].move : i \in first .. last}

(* The head of the line is searched first, so that it has a score when any  *)
(* other move has one.                                                      *)
SearchInv ==
  pc = "search" =>
    /\ todo \subseteq Segment(rootMoves, pvIdx, pvLast)
    /\ rootMoves[pvIdx].move \in todo => todo = Segment(rootMoves, pvIdx, pvLast)
    /\ pvIdx = 1 => rootMoves[1].move \in todo \/ rootMoves[1].score # -Infinite

(* While nobody stops it, an iteration has a scored move at the front once  *)
(* its first line has been searched to a value below beta: above, ProbCut   *)
(* may have returned before any move was scored.                            *)
FrontScored ==
  ~stopFlag /\ \/ pc \in {"guard", "deliver", "close"}
               \/ pc = "sort" /\ bestValue < beta
               \/ pc \in {"line", "search", "sort"} /\ pvIdx > 1
    => rootMoves[1].score # -Infinite

IInv == ListInv /\ Scalars /\ Places /\ WindowInv /\ SearchInv /\ FrontScored

LEMMA IInvImplies == IInv => LinesAreInOrder
<1> SUFFICES ASSUME IInv PROVE LinesAreInOrder
  OBVIOUS
<1>1. /\ rootMoves \in [1 .. Cardinality(Moves) -> RootMove]
      /\ \A m \in Moves : \E i \in DOMAIN rootMoves : rootMoves[i].move = m
      /\ \A i \in DOMAIN rootMoves : ~(rootMoves[i].inexactLower /\ rootMoves[i].inexactUpper)
  BY DEF IInv, ListInv, WholeList, Flagged, N
<1>2. lastBest = None \/ lastBest \in [move : Moves, score : Values, pv : Line]
  BY DEF IInv, ListInv
<1>3. TypeOK
  BY <1>1, <1>2 DEF TypeOK, IInv, ListInv, Scalars, Places, N, Eval
<1>4. WindowIsOpen
  BY DEF IInv, WindowInv, WindowIsOpen
<1>5. RanksStayInOrder
  BY DEF IInv, ListInv
<1> QED BY <1>3, <1>4, <1>5 DEF LinesAreInOrder

(* A step that rearranges or rewrites the list within its ranks.            *)
LEMMA ListKept ==
  ASSUME ListInv, Follows(rootMoves', rootMoves),
         UNCHANGED <<pvFirst, pvLast, lastBest>>
  PROVE  ListInv'
<1>1. WholeList(rootMoves') /\ SameRanks(rootMoves', rootMoves)
  BY DEF Follows
<1>2. DOMAIN rootMoves = 1 .. N /\ DOMAIN rootMoves' = 1 .. N
  BY <1>1 DEF ListInv, WholeList
<1>3. \A i \in 1 .. N : rootMoves'[i].tbRank = rootMoves[i].tbRank
  BY <1>1 DEF SameRanks
<1>4. RanksStayInOrder'
  BY <1>2, <1>3 DEF ListInv, RanksStayInOrder
<1>5. pvFirst .. pvLast \subseteq 1 .. N
  BY NType DEF ListInv
<1>6. \A i, j \in pvFirst .. pvLast : rootMoves'[i].tbRank = rootMoves'[j].tbRank
  BY <1>3, <1>5 DEF ListInv
<1>7. lastBest # None => FrontRank(rootMoves', lastBest.move)
  BY DEF ListInv, Follows
<1> QED BY <1>1, <1>4, <1>6, <1>7 DEF ListInv

(* The moves of a segment are as many as its places.                        *)
LEMMA SegmentSize ==
  ASSUME NEW l, WholeList(l), NEW first \in 1 .. N, NEW last \in first .. N
  PROVE  Cardinality(Segment(l, first, last)) = last - first + 1
<1> DEFINE S == first .. last
           T == Segment(l, first, last)
           f == [i \in S |-> l[i].move]
<1>1. S \subseteq 1 .. N /\ IsFiniteSet(S) /\ Cardinality(S) = last - first + 1
  BY NType, FS_Interval
<1>2. f \in [S -> T] /\ \A t \in T : \E i \in S : f[i] = t
  BY DEF Segment
<1>3. \A i, j \in S : f[i] = f[j] => i = j
  BY <1>1 DEF WholeList
<1> HIDE DEF f, T, S
<1>4. f \in Surjection(S, T) /\ f \in Injection(S, T)
  BY <1>2, <1>3 DEF Surjection, Injection, IsInjective
<1>5. Cardinality(T) = Cardinality(S)
  BY <1>1, <1>4, FS_Surjection
<1> QED BY <1>1, <1>5 DEF S, T

(* The moves of the rank that begins at a place have a last one.            *)
LEMMA RankEndType ==
  ASSUME ListInv, NEW first \in 1 .. N
  PROVE  /\ RankEnd(first) \in first .. N
         /\ \A i, j \in first .. RankEnd(first) : rootMoves[i].tbRank = rootMoves[j].tbRank
<1> DEFINE rank(i) == rootMoves[i].tbRank
           fits(k) == /\ \A i \in first .. k : rank(i) = rank(first)
                      /\ k < Len(rootMoves) => rank(k + 1) # rank(first)
           S == {i \in first .. N : rank(i) = rank(first)}
           k == first + Cardinality(S) - 1
<1>1. N \in Nat /\ first \in Nat /\ first <= N /\ Len(rootMoves) = N /\ DOMAIN rootMoves = 1 .. N
  BY NType DEF ListInv, WholeList
<1>2. \A i \in 1 .. N : rank(i) \in Nat
  BY Fields DEF ListInv, WholeList
<1>3. \A i, j \in 1 .. N : i <= j => rank(i) >= rank(j)
  BY <1>1, <1>2 DEF ListInv, RanksStayInOrder
<1>4. /\ IsFiniteSet(S) /\ S \subseteq first .. N /\ first \in S
      /\ Cardinality(S) \in Nat
      /\ \A i \in S : \A j \in first .. i : j \in S
  <2>1. S \subseteq first .. N /\ first \in S
    BY <1>1
  <2>2. IsFiniteSet(first .. N)
    BY <1>1, FS_Interval
  <2>3. IsFiniteSet(S)
    <3> HIDE DEF S
    <3> QED BY <2>1, <2>2, FS_Subset
  <2>4. Cardinality(S) \in Nat
    <3> HIDE DEF S
    <3> QED BY <2>3, FS_CardinalityType
  <2>5. ASSUME NEW i \in S, NEW j \in first .. i PROVE j \in S
    <3>1. i \in 1 .. N /\ j \in 1 .. N /\ first \in 1 .. N /\ j \in first .. N /\ rank(i) = rank(first)
      BY <1>1
    <3> HIDE DEF rank
    <3>2. rank(first) >= rank(j) /\ rank(j) >= rank(i)
      BY <1>1, <1>3, <3>1
    <3>3. rank(j) = rank(first)
      BY <1>2, <3>1, <3>2
    <3> QED BY <3>1, <3>3
  <2> QED BY <2>1, <2>3, <2>4, <2>5
<1> HIDE DEF S
<1>5. k \in S
  <2> SUFFICES ASSUME k \notin S PROVE FALSE
    OBVIOUS
  <2>1. \A i \in S : i < k
    <3> SUFFICES ASSUME NEW i \in S, i >= k PROVE FALSE
      BY <1>1, <1>4
    <3>1. k >= first
      <4>1. Cardinality(S) # 0
        BY <1>4, FS_EmptySet
      <4> QED BY <1>1, <1>4, <4>1
    <3>2. k \in first .. i
      BY <1>1, <1>4, <3>1
    <3> HIDE DEF k
    <3> QED BY <1>4, <3>2
  <2>2. IsFiniteSet(first .. k - 1) /\ Cardinality(first .. k - 1) <= k - first
    <3>1. k \in Int /\ k >= first - 1
      BY <1>1, <1>4
    <3> HIDE DEF k
    <3>2. CASE k = first - 1
      <4>1. \A i \in S : FALSE
        BY <1>1, <1>4, <2>1, <3>2
      <4> QED BY <1>4, <4>1
    <3>3. CASE k >= first
      <4>1. first \in Int /\ k - 1 \in Int
        BY <1>1, <3>1
      <4>2. /\ IsFiniteSet(first .. k - 1)
            /\ Cardinality(first .. k - 1) = IF first > k - 1 THEN 0 ELSE k - 1 - first + 1
        BY <4>1, FS_Interval
      <4> QED BY <1>1, <3>1, <3>3, <4>2
    <3> QED BY <1>1, <3>1, <3>2, <3>3
  <2>3. S \in SUBSET (first .. k - 1)
    <3>1. k \in Int
      BY <1>1, <1>4
    <3> HIDE DEF k
    <3> QED BY <1>1, <1>4, <2>1, <3>1
  <2>4. Cardinality(S) <= Cardinality(first .. k - 1)
    <3> HIDE DEF k
    <3> QED BY <2>2, <2>3, FS_Subset
  <2>5. Cardinality(first .. k - 1) \in Nat
    BY <2>2, FS_CardinalityType
  <2> QED BY <1>1, <1>4, <2>2, <2>4, <2>5
<1>5a. k \in first .. N /\ rank(k) = rank(first)
  <2> HIDE DEF k
  <2> QED BY <1>5 DEF S
<1>6. \A i \in first .. k : rank(i) = rank(first)
  <2> HIDE DEF k, rank
  <2> SUFFICES ASSUME NEW i \in first .. k PROVE rank(i) = rank(first)
    OBVIOUS
  <2>1. i \in 1 .. N /\ k \in 1 .. N /\ first <= i /\ i <= k
    BY <1>1, <1>5a
  <2>2. rank(first) >= rank(i) /\ rank(i) >= rank(k)
    BY <1>3, <2>1
  <2> QED BY <1>2, <1>5a, <2>1, <2>2
<1>7. k < N => rank(k + 1) # rank(first)
  <2> HIDE DEF rank
  <2> SUFFICES ASSUME k < N, rank(k + 1) = rank(first) PROVE FALSE
    OBVIOUS
  <2>0. k \in Int /\ k >= first
    BY <1>1, <1>5a
  <2>1. k + 1 \in S
    <3> HIDE DEF k
    <3> QED BY <1>1, <2>0 DEF S
  <2>2. first .. k + 1 \in SUBSET S
    <3> HIDE DEF k
    <3> QED BY <1>4, <2>1
  <2>3. Cardinality(first .. k + 1) = k + 1 - first + 1
    <3> HIDE DEF k
    <3> QED BY <1>1, <2>0, FS_Interval
  <2>4. Cardinality(first .. k + 1) <= Cardinality(S)
    <3> HIDE DEF k
    <3> QED BY <1>4, <2>2, FS_Subset
  <2> QED BY <1>1, <1>4, <2>0, <2>3, <2>4
<1>8. fits(k)
  <2> HIDE DEF k, rank
  <2> QED BY <1>1, <1>6, <1>7
<1>9. \E e \in first .. N : fits(e)
  <2> HIDE DEF k, fits
  <2> QED BY <1>5a, <1>8
<1> DEFINE chosen == CHOOSE e \in first .. N : fits(e)
<1>10. RankEnd(first) = chosen
  BY <1>1 DEF RankEnd
<1>11. chosen \in first .. N /\ fits(chosen)
  <2> HIDE DEF fits
  <2> QED BY <1>9
<1> QED BY <1>10, <1>11

-----------------------------------------------------------------------------
LEMMA NewMoveFields ==
  ASSUME NEW m \in Moves, NEW rank \in Nat
  PROVE  /\ NewMove(m, rank) \in RootMove /\ ~Flagged(NewMove(m, rank))
         /\ NewMove(m, rank).move = m /\ NewMove(m, rank).tbRank = rank
BY BareIsLine, ValuesAreEvals DEF NewMove, RootMove, Flagged, Eval

LEMMA IInvInit == Init => IInv
<1> SUFFICES ASSUME Init PROVE IInv
  OBVIOUS
<1>1. PICK order \in [1 .. N -> Moves], ranks \in TBRanks :
        /\ \A i, j \in DOMAIN order : i # j => order[i] # order[j]
        /\ rootMoves = [i \in DOMAIN order |-> NewMove(order[i], ranks[i])]
  BY DEF Init, N
<1>2. /\ ranks \in [1 .. N -> Nat]
      /\ \A i, j \in 1 .. N : i < j => ranks[i] >= ranks[j]
  <2>1. ranks \in [1 .. N -> Nat] /\ \A i, j \in DOMAIN ranks : i < j => ranks[i] >= ranks[j]
    BY TBRanksAssumption DEF N
  <2>2. DOMAIN ranks = 1 .. N
    BY <2>1
  <2> QED BY <2>1, <2>2
<1>3. rootMoves = [i \in 1 .. N |-> NewMove(order[i], ranks[i])]
  BY <1>1
<1>4. \A i \in 1 .. N : /\ rootMoves[i] \in RootMove /\ ~Flagged(rootMoves[i])
                        /\ rootMoves[i].move = order[i] /\ rootMoves[i].tbRank = ranks[i]
  BY <1>1, <1>2, <1>3, NewMoveFields
<1>5. rootMoves \in [1 .. N -> RootMove]
  BY <1>3, <1>4
<1>6. \A i, j \in 1 .. N : order[i] = order[j] => i = j
  BY <1>1
<1>7. \A m \in Moves : \E i \in 1 .. N : order[i] = m
  <2>1. order \in Injection(1 .. N, Moves)
    BY <1>1, <1>6 DEF Injection, IsInjective
  <2>2. Cardinality(1 .. N) = Cardinality(Moves)
    BY NType, FS_Interval DEF N
  <2>3. order \in Surjection(1 .. N, Moves)
    BY <2>1, <2>2, MovesAssumption, FS_Injection
  <2> QED BY <2>3 DEF Surjection
<1>8. WholeList(rootMoves)
  BY <1>4, <1>5, <1>6, <1>7 DEF WholeList
<1>9. RanksStayInOrder
  BY <1>2, <1>4, <1>5 DEF RanksStayInOrder
<1>10. pvFirst = 1 /\ pvLast = 0 /\ lastBest = None /\ pvIdx = 1 /\ pc = "iterate" /\ rootDepth = 0
  BY DEF Init
<1>11. ListInv
  BY <1>8, <1>9, <1>10, NType DEF ListInv
<1>12. Scalars
  <2>1. alpha \in Eval /\ beta \in Eval /\ low \in Eval /\ bestValue \in Eval /\ delta \in Nat
    BY ValuesAreEvals DEF Init
  <2>2. todo = {} /\ stopFlag = FALSE
    BY DEF Init
  <2>3. rootDepth \in 0 .. MaxDepth
    BY <1>10, LinesAssumption
  <2> QED BY <1>10, <2>1, <2>2, <2>3 DEF Scalars
<1> QED BY <1>10, <1>11, <1>12, LinesAssumption DEF IInv, Places, WindowInv, SearchInv, FrontScored

(* How a search begins and ends.                                            *)
LEMMA SearchBegins ==
  ASSUME WholeList(rootMoves'), pvIdx' = pvIdx, pvIdx \in 1 .. N, pvLast' \in pvIdx .. N,
         alpha' \in Eval, BeginSearch
  PROVE  /\ SearchInv' /\ pc' = "search" /\ low' = alpha'
         /\ low' \in Eval /\ bestValue' \in Eval /\ todo' \subseteq Moves
<1>1. todo' = Segment(rootMoves', pvIdx', pvLast') /\ pvIdx \in pvIdx .. pvLast'
  BY NType DEF BeginSearch, Segment
<1>2. pvIdx .. pvLast' \subseteq 1 .. N
  BY NType
<1>3. todo' \subseteq Moves
  BY <1>1, <1>2, Fields DEF Segment, WholeList
<1>4. pvIdx' = 1 => rootMoves'[1].move \in todo'
  BY <1>1 DEF Segment
<1>5. SearchInv'
  BY <1>1, <1>4 DEF SearchInv
<1>6. low' = alpha' /\ bestValue' = -Infinite /\ pc' = "search"
  BY DEF BeginSearch
<1> QED BY <1>3, <1>5, <1>6, ValuesAreEvals

LEMMA StartIterationInv == IInv /\ StartIteration => IInv'
<1> SUFFICES ASSUME IInv, StartIteration PROVE IInv'
  OBVIOUS
<1>1. WholeList(rootMoves) /\ N \in Nat /\ DOMAIN rootMoves = 1 .. N
  BY NType DEF IInv, ListInv, WholeList
<1>2. rootMoves' = [i \in 1 .. N |-> WithPrevious(rootMoves[i], i)]
  BY <1>1 DEF StartIteration
<1>3. ASSUME NEW i \in 1 .. N PROVE Rewrites(rootMoves'[i], rootMoves[i])
  <2>1. rootMoves[i] \in RootMove /\ ~Flagged(rootMoves[i]) /\ i \in Nat
    BY <1>1 DEF WholeList
  <2> QED BY <1>2, <2>1, WithPreviousRewrites
<1>4. Follows(rootMoves', rootMoves)
  <2>1. rootMoves' = [i \in 1 .. N |-> rootMoves'[i]]
    BY <1>2
  <2> QED BY <1>1, <1>3, <2>1, RewrittenFollows
<1>5. /\ pvIdx' = 1 /\ pvFirst' = 1 /\ pvLast' = 0 /\ pc' = "line" /\ lastBest' = lastBest
      /\ rootDepth' = rootDepth + 1 /\ rootDepth < MaxDepth
  BY DEF StartIteration
<1>6. ListInv'
  <2>1. WholeList(rootMoves') /\ \A i \in 1 .. N : rootMoves'[i].tbRank = rootMoves[i].tbRank
    BY <1>4 DEF Follows, SameRanks
  <2>2. RanksStayInOrder'
    BY <1>1, <2>1 DEF IInv, ListInv, RanksStayInOrder, WholeList
  <2>3. lastBest # None => FrontRank(rootMoves', lastBest.move)
    BY <1>4 DEF Follows, IInv, ListInv
  <2> QED BY <1>5, <2>1, <2>2, <2>3, NType DEF IInv, ListInv
<1>7. Scalars'
  BY <1>5, LinesAssumption DEF IInv, Scalars, StartIteration, window
<1> QED BY <1>5, <1>6, <1>7, LinesAssumption DEF IInv, Places, WindowInv, SearchInv, FrontScored

LEMMA StartLineInv == IInv /\ StartLine => IInv'
<1> SUFFICES ASSUME IInv, StartLine PROVE IInv'
  OBVIOUS
<1>1. /\ WholeList(rootMoves) /\ N \in Nat /\ MultiPV \in 1 .. N /\ ListInv
      /\ pvIdx \in 1 .. N /\ pvIdx <= MultiPV /\ pvFirst <= pvIdx /\ pvIdx <= pvLast + 1
  BY NType, LinesAssumption DEF IInv, ListInv, Places, StartLine, N
<1>2. UNCHANGED <<rootMoves, rootDepth, pvIdx, lastBest, stopFlag>> /\ BeginSearch /\ delta' \in Deltas
  BY DEF StartLine
<1>3. /\ pvFirst' \in 1 .. N /\ pvLast' \in pvIdx .. N /\ pvFirst' <= pvIdx
      /\ \A i, j \in pvFirst' .. pvLast' : rootMoves[i].tbRank = rootMoves[j].tbRank
  <2>1. CASE pvIdx = pvLast + 1
    <3>1. pvFirst' = pvIdx /\ pvLast' = RankEnd(pvIdx)
      BY <2>1 DEF StartLine
    <3> QED BY <1>1, <3>1, RankEndType
  <2>2. CASE pvIdx # pvLast + 1
    <3>1. pvFirst' = pvFirst /\ pvLast' = pvLast
      BY <2>2 DEF StartLine
    <3> QED BY <1>1, <2>2, <3>1 DEF ListInv
  <2> QED BY <2>1, <2>2
<1>4. ListInv'
  <2>1. pvLast' \in 0 .. N
    BY <1>1, <1>3
  <2> QED BY <1>1, <1>2, <1>3, <2>1 DEF ListInv, RanksStayInOrder
<1>5. /\ delta' \in Nat /\ delta' > 0
      /\ alpha' \in Eval /\ beta' \in Eval /\ alpha' < beta'
  <2>1. delta' \in Nat /\ delta' > 0
    BY <1>2, DeltasAssumption
  <2>2. rootMoves[pvIdx].averageScore \in Eval
    BY <1>1, Fields DEF WholeList
  <2>3. Infinite \in Nat /\ Infinite > 0
    BY ValuesAssumption
  <2>4. CASE rootMoves[pvIdx].averageScore = -Infinite
    <3>1. alpha' = -Infinite /\ beta' = Infinite
      BY <2>4 DEF StartLine
    <3> QED BY <2>1, <2>3, <3>1 DEF Eval
  <2>5. CASE rootMoves[pvIdx].averageScore # -Infinite
    <3>1. /\ alpha' = Larger(rootMoves[pvIdx].averageScore - delta', -Infinite)
          /\ beta'  = Smaller(rootMoves[pvIdx].averageScore + delta', Infinite)
      BY <2>5 DEF StartLine
    <3> QED BY <2>1, <2>2, <2>3, <3>1 DEF Eval, Larger, Smaller
  <2> QED BY <2>4, <2>5, <2>1
<1>6. /\ SearchInv' /\ pc' = "search" /\ low' = alpha'
      /\ low' \in Eval /\ bestValue' \in Eval /\ todo' \subseteq Moves
  BY <1>1, <1>2, <1>3, <1>5, SearchBegins
<1>7. Scalars'
  BY <1>2, <1>5, <1>6 DEF IInv, Scalars
<1>8. Places'
  BY <1>1, <1>2, <1>3, <1>6 DEF IInv, Places
<1>9. WindowInv'
  BY <1>5, <1>6, ValuesAssumption DEF WindowInv, Eval
<1>10. FrontScored'
  BY <1>2, <1>6 DEF IInv, FrontScored, StartLine
<1> QED BY <1>4, <1>6, <1>7, <1>8, <1>9, <1>10 DEF IInv

LEMMA SearchMoveInv ==
  ASSUME IInv, NEW m \in Moves, NEW v \in Values, SearchMove(m, v)
  PROVE  IInv'
<1> DEFINE first == Cardinality(todo) = pvLast - pvIdx + 1
           best  == Larger(bestValue, v)
           left  == IF v > low /\ v >= beta THEN {} ELSE todo \ {m}
           at    == IndexOf(m)
<1>1. /\ WholeList(rootMoves) /\ N \in Nat /\ ListInv
      /\ pvIdx \in 1 .. N /\ pvLast \in pvIdx .. N /\ pvIdx <= MultiPV /\ pvFirst <= pvIdx
  BY NType, LinesAssumption DEF IInv, ListInv, Places, SearchMove, N
<1>2. /\ pc = "search" /\ stopFlag = FALSE /\ m \in todo
      /\ first => m = rootMoves[pvIdx].move
      /\ UNCHANGED <<rootDepth, pvIdx, pvFirst, pvLast, alpha, beta, delta, lastBest, stopFlag>>
      /\ todo' = left /\ low' = IF v > low /\ v < beta THEN v ELSE low
      /\ IF left = {} THEN bestValue' \in Returned(best) /\ pc' = "sort"
                      ELSE bestValue' = best /\ pc' = "search"
  BY DEF SearchMove, lines, window, IInv, Scalars
<1>3. PICK average \in Averages(rootMoves[at], v) :
        rootMoves' = [rootMoves EXCEPT ![at] =
                        [AfterMove(rootMoves[at], v, first) EXCEPT !.averageScore = average]]
  BY DEF SearchMove
<1>4. at \in pvIdx .. pvLast /\ at \in 1 .. N /\ rootMoves[at].move = m
  <2>1. PICK i \in pvIdx .. pvLast : rootMoves[i].move = m
    BY <1>2 DEF IInv, SearchInv, Segment
  <2>2. i \in DOMAIN rootMoves /\ DOMAIN rootMoves = 1 .. N
    BY <1>1 DEF WholeList
  <2>3. at \in DOMAIN rootMoves /\ rootMoves[at].move = m
    BY <2>1, <2>2 DEF IndexOf
  <2>4. at = i
    BY <1>1, <2>1, <2>2, <2>3 DEF WholeList
  <2> QED BY <2>1, <2>2, <2>4
<1> DEFINE rm == rootMoves[at]
           done == [AfterMove(rm, v, first) EXCEPT !.averageScore = average]
<1>5. /\ rm \in RootMove /\ ~Flagged(rm) /\ low \in Eval /\ beta \in Eval
      /\ alpha \in Eval /\ bestValue \in Eval /\ v \in Eval
  BY <1>1, <1>4, ValuesAreEvals DEF WholeList, IInv, Scalars
<1> HIDE DEF at
<1>6. /\ Rewrites(done, rm)
      /\ first => done.score = v
  <2>1. first \in BOOLEAN
    OBVIOUS
  <2> HIDE DEF first, rm
  <2>2. average \in Averages(rm, v)
    BY <1>3 DEF rm
  <2> QED BY <1>5, <2>1, <2>2, SearchedRewrites
<1>7. rootMoves' = [rootMoves EXCEPT ![at] = done]
  BY <1>3
<1> HIDE DEF done, first
<1>8. Follows(rootMoves', rootMoves)
  BY <1>1, <1>4, <1>6, <1>7, OneRewrittenFollows
<1>9. ListInv'
  BY <1>1, <1>2, <1>8, ListKept
<1>10. ASSUME NEW i \in 1 .. N
       PROVE  /\ rootMoves'[i].move = rootMoves[i].move
              /\ i # at => rootMoves'[i] = rootMoves[i]
  <2>1. rootMoves'[i] = IF i = at THEN done ELSE rootMoves[i]
    BY <1>1, <1>7 DEF WholeList
  <2>2. done.move = rootMoves[at].move
    BY <1>6 DEF Rewrites
  <2> QED BY <2>1, <2>2
<1>11. Segment(rootMoves', pvIdx, pvLast) = Segment(rootMoves, pvIdx, pvLast)
  <2>1. \A i \in pvIdx .. pvLast : i \in 1 .. N
    BY <1>1
  <2>2. \A i \in pvIdx .. pvLast : rootMoves'[i].move = rootMoves[i].move
    BY <1>10, <2>1
  <2> QED BY <2>2 DEF Segment
<1>12. rootMoves[pvIdx].move \in todo => first /\ at = pvIdx
  <2> SUFFICES ASSUME rootMoves[pvIdx].move \in todo PROVE first /\ at = pvIdx
    OBVIOUS
  <2>1. todo = Segment(rootMoves, pvIdx, pvLast)
    BY <1>2 DEF IInv, SearchInv
  <2>2. first
    BY <1>1, <2>1, SegmentSize DEF first
  <2>3. at = pvIdx
    BY <1>1, <1>2, <1>4, <2>2 DEF WholeList
  <2> QED BY <2>2, <2>3
<1>13. rootMoves[pvIdx].move \notin left
  <2>1. rootMoves[pvIdx].move \in todo => rootMoves[pvIdx].move = m
    BY <1>2, <1>12
  <2> QED BY <2>1
<1>14. rootMoves'[1].score # -Infinite
  <2>1. CASE pvIdx > 1
    <3>1. rootMoves[1].score # -Infinite
      BY <1>2, <2>1 DEF IInv, FrontScored
    <3>2. 1 \in 1 .. N /\ 1 # at
      BY <1>1, <1>4, <2>1
    <3>3. rootMoves'[1] = rootMoves[1]
      BY <1>10, <3>2
    <3> QED BY <3>1, <3>3
  <2>2. CASE pvIdx = 1 /\ rootMoves[1].move \in todo
    <3>1. first /\ at = 1
      BY <1>12, <2>2
    <3>2. rootMoves'[1] = done
      BY <1>1, <1>4, <1>7, <3>1 DEF WholeList
    <3> QED BY <1>6, <3>1, <3>2, ValuesAreEvals
  <2>3. CASE pvIdx = 1 /\ rootMoves[1].move \notin todo
    <3>1. rootMoves[1].score # -Infinite
      BY <1>2, <2>3 DEF IInv, SearchInv
    <3>2. 1 \in 1 .. N /\ 1 # at
      BY <1>1, <1>2, <1>4, <2>3
    <3>3. rootMoves'[1] = rootMoves[1]
      BY <1>10, <3>2
    <3> QED BY <3>1, <3>3
  <2> QED BY <1>1, <2>1, <2>2, <2>3
<1>15. left \subseteq todo /\ left \subseteq Segment(rootMoves', pvIdx, pvLast)
  BY <1>2, <1>11 DEF IInv, SearchInv
<1>16. best \in Eval /\ best > -Infinite /\ (IF v > low /\ v < beta THEN v ELSE low) \in Eval
  BY <1>5, ValuesAreEvals DEF Larger, Eval
<1>17. /\ -Infinite <= alpha /\ alpha <= low' /\ low' < beta /\ beta <= Infinite /\ delta > 0
       /\ beta > -Infinite
  BY <1>2, <1>5, ValuesAreEvals DEF IInv, WindowInv, Eval
<1>18. bestValue' \in Eval /\ bestValue' > -Infinite
  <2> HIDE DEF best, left
  <2>1. CASE left = {}
    <3>1. bestValue' \in (beta .. best) \cup {best}
      BY <1>2, <2>1 DEF Returned
    <3> QED BY <1>5, <1>16, <1>17, <3>1, ValuesAreEvals DEF Eval
  <2>2. CASE left # {}
    BY <1>2, <1>16, <2>2
  <2> QED BY <2>1, <2>2
<1>19. Scalars'
  <2>1. todo' \subseteq Moves
    BY <1>2, <1>15 DEF IInv, Scalars
  <2>2. low' \in Eval /\ pc' \in {"search", "sort"}
    BY <1>2, <1>16
  <2> QED BY <1>2, <1>18, <2>1, <2>2 DEF IInv, Scalars
<1> HIDE DEF left, best
<1>20. pc' \in {"search", "sort"}
  BY <1>2
<1>21. Places'
  BY <1>1, <1>2, <1>20 DEF IInv, Places
<1>22. WindowInv'
  BY <1>2, <1>17, <1>18 DEF WindowInv
<1>23. SearchInv'
  <2>1. rootMoves'[pvIdx].move \notin left
    <3>1. rootMoves'[pvIdx].move = rootMoves[pvIdx].move
      BY <1>1, <1>10
    <3> QED BY <1>13, <3>1
  <2> QED BY <1>2, <1>14, <1>15, <2>1 DEF SearchInv
<1>24. FrontScored'
  BY <1>14 DEF FrontScored
<1> QED BY <1>9, <1>19, <1>21, <1>22, <1>23, <1>24 DEF IInv

LEMMA AbandonSearchInv == IInv /\ AbandonSearch => IInv'
<1> SUFFICES ASSUME IInv, AbandonSearch PROVE IInv'
  OBVIOUS
<1>1. /\ UNCHANGED <<rootMoves, rootDepth, pvIdx, pvFirst, pvLast, alpha, beta, delta, low, todo, lastBest>>
      /\ UNCHANGED stopFlag /\ stopFlag = TRUE /\ pc = "search" /\ pc' = "sort" /\ bestValue' = 0
  BY DEF AbandonSearch, lines, window, IInv, Scalars
<1>2. ListInv' /\ Places' /\ SearchInv' /\ FrontScored'
  BY <1>1 DEF IInv, ListInv, RanksStayInOrder, Places, SearchInv, FrontScored
<1>3. Scalars'
  BY <1>1, ValuesAreEvals DEF IInv, Scalars
<1>4. WindowInv'
  BY <1>1, ValuesAssumption DEF IInv, WindowInv
<1> QED BY <1>2, <1>3, <1>4 DEF IInv

(* ProbCut leaves the list alone, and its value is above the window.        *)
LEMMA ProbCutInv == IInv /\ (\E v \in Values : ProbCut(v)) => IInv'
<1> SUFFICES ASSUME IInv, NEW v \in Values, ProbCut(v) PROVE IInv'
  OBVIOUS
<1>1. /\ UNCHANGED <<rootMoves, rootDepth, pvIdx, pvFirst, pvLast, alpha, beta, delta, low, todo, lastBest>>
      /\ UNCHANGED stopFlag /\ pc = "search" /\ pc' = "sort" /\ bestValue' \in beta .. v
  BY DEF ProbCut, lines, window
<1>2. /\ alpha \in Eval /\ low \in Eval /\ beta \in Eval /\ v \in Eval /\ Infinite \in Nat
      /\ -Infinite <= alpha /\ alpha <= low /\ low < beta
  BY <1>1, ValuesAreEvals DEF IInv, Scalars, WindowInv, Eval
<1>3. bestValue' \in Eval /\ bestValue' >= beta /\ bestValue' > -Infinite
  BY <1>1, <1>2 DEF Eval
<1>4. ListInv' /\ Places' /\ SearchInv'
  BY <1>1 DEF IInv, ListInv, RanksStayInOrder, Places, SearchInv
<1>5. Scalars'
  BY <1>1, <1>3 DEF IInv, Scalars
<1>6. WindowInv'
  BY <1>1, <1>3 DEF IInv, WindowInv
<1>7. FrontScored'
  BY <1>1, <1>2, <1>3 DEF IInv, FrontScored, Eval
<1> QED BY <1>4, <1>5, <1>6, <1>7 DEF IInv

(* A window that failed is followed by a wider one.                         *)
LEMMA WidenedIsOpen ==
  ASSUME IInv, pc = "sort", Widen, bestValue <= alpha \/ bestValue >= beta
  PROVE  /\ alpha' \in Eval /\ beta' \in Eval /\ delta' \in Nat
         /\ alpha' < beta' /\ delta' > 0
<1>1. /\ alpha \in Eval /\ beta \in Eval /\ bestValue \in Eval /\ delta \in Nat /\ delta > 0
      /\ alpha < beta /\ bestValue > -Infinite /\ Infinite \in Nat
  BY ValuesAreEvals DEF IInv, Scalars, WindowInv, Eval
<1>2. delta' \in Nat /\ delta' > 0
  <2>1. WidenNum * delta \in Nat
    BY <1>1, WidenAssumption
  <2> DEFINE x == WidenNum * delta
  <2> HIDE DEF x
  <2>2. x \div WidenDen \in Nat
    BY <2>1, WidenAssumption DEF x
  <2> QED BY <1>1, <2>2 DEF Widen, x
<1>3. CASE bestValue <= alpha
  <2>1. beta' = alpha /\ alpha' = Larger(bestValue - delta, -Infinite)
    BY <1>3 DEF Widen
  <2> QED BY <1>1, <1>2, <1>3, <2>1 DEF Larger, Eval
<1>4. CASE ~(bestValue <= alpha)
  <2>1. beta' = Smaller(bestValue + delta, Infinite) /\ alpha' = Larger(beta - delta, alpha)
    BY <1>4 DEF Widen
  <2> QED BY <1>1, <1>2, <1>4, <2>1 DEF Larger, Smaller, Eval
<1> QED BY <1>3, <1>4

LEMMA JudgeWindowInv == IInv /\ JudgeWindow => IInv'
<1> SUFFICES ASSUME IInv, JudgeWindow PROVE IInv'
  OBVIOUS
<1> DEFINE sorted == Sorted(rootMoves, pvIdx, pvLast)
           failed == bestValue <= alpha \/ bestValue >= beta
<1>1. /\ WholeList(rootMoves) /\ N \in Nat /\ ListInv /\ pc = "sort"
      /\ pvIdx \in 1 .. N /\ pvLast \in pvIdx .. N /\ pvIdx <= MultiPV /\ pvFirst <= pvIdx
  BY NType, LinesAssumption DEF IInv, ListInv, Places, JudgeWindow, N
<1>2. UNCHANGED <<rootDepth, pvIdx, pvFirst, pvLast, lastBest, stopFlag>>
  BY DEF JudgeWindow, lines
<1>3. /\ Follows(sorted, rootMoves)
      /\ \A i \in 1 .. N : i \notin pvIdx .. pvLast => sorted[i] = rootMoves[i]
      /\ rootMoves[pvIdx].score # -Infinite => sorted[pvIdx].score # -Infinite
  <2>1. \A i, j \in pvIdx .. pvLast : rootMoves[i].tbRank = rootMoves[j].tbRank
    <3>1. \A i \in pvIdx .. pvLast : i \in pvFirst .. pvLast
      BY <1>1 DEF ListInv
    <3> QED BY <1>1, <3>1 DEF ListInv
  <2> QED BY <1>1, <2>1, SortedFollows
<1>4. rootMoves[1].score # -Infinite => sorted[1].score # -Infinite
  <2>1. CASE pvIdx = 1
    BY <1>3, <2>1
  <2>2. CASE pvIdx > 1
    <3>1. 1 \in 1 .. N /\ 1 \notin pvIdx .. pvLast
      BY <1>1, <2>2
    <3> QED BY <1>3, <3>1
  <2> QED BY <1>1, <2>1, <2>2
<1> HIDE DEF sorted
<1>5. CASE ~stopFlag /\ failed
  <2>1. rootMoves' = sorted /\ Widen /\ BeginSearch
    BY <1>5 DEF JudgeWindow, sorted
  <2>2. ListInv' /\ WholeList(rootMoves')
    BY <1>1, <1>2, <1>3, <2>1, ListKept DEF ListInv
  <2>3. alpha' \in Eval /\ beta' \in Eval /\ delta' \in Nat /\ alpha' < beta' /\ delta' > 0
    BY <1>1, <1>5, <2>1, WidenedIsOpen
  <2>4. /\ SearchInv' /\ pc' = "search" /\ low' = alpha'
        /\ low' \in Eval /\ bestValue' \in Eval /\ todo' \subseteq Moves
    BY <1>1, <1>2, <2>1, <2>2, <2>3, SearchBegins
  <2>5. Scalars'
    BY <1>2, <2>3, <2>4 DEF IInv, Scalars
  <2>6. Places'
    BY <1>1, <1>2, <2>4 DEF IInv, Places
  <2>7. WindowInv'
    BY <2>3, <2>4, ValuesAssumption DEF WindowInv, Eval
  <2>8. FrontScored'
    <3>1. pvIdx > 1 => rootMoves'[1].score # -Infinite
      BY <1>1, <1>4, <1>5, <2>1 DEF IInv, FrontScored
    <3> QED BY <1>2, <2>4, <3>1 DEF FrontScored
  <2> QED BY <2>2, <2>4, <2>5, <2>6, <2>7, <2>8 DEF IInv
<1>6. CASE stopFlag \/ ~failed
  <2>1. EndSearch
    BY <1>6 DEF JudgeWindow
  <2>2. Follows(rootMoves', rootMoves) /\ (rootMoves[1].score # -Infinite => rootMoves'[1].score # -Infinite)
    <3>1. CASE rootMoves' = sorted
      BY <1>3, <1>4, <3>1
    <3>2. CASE rootMoves' = [sorted EXCEPT ![pvIdx].pv.complete = TRUE]
      <4>1. WholeList(sorted)
        BY <1>3 DEF Follows
      <4>2. sorted[pvIdx] \in RootMove /\ ~Flagged(sorted[pvIdx])
        BY <1>1, <4>1 DEF WholeList
      <4> DEFINE done == [sorted[pvIdx] EXCEPT !.pv.complete = TRUE]
      <4>3. Rewrites(done, sorted[pvIdx])
        BY <4>2, CompletedRewrites
      <4>4. done.score = sorted[pvIdx].score
        BY <4>2, Fields
      <4>5. rootMoves' = [sorted EXCEPT ![pvIdx] = done]
        BY <3>2
      <4> HIDE DEF done
      <4>6. Follows(rootMoves', sorted)
        BY <1>1, <4>1, <4>3, <4>5, OneRewrittenFollows
      <4>7. Follows(rootMoves', rootMoves)
        BY <1>3, <4>6, FollowsFurther
      <4>8. rootMoves'[1].score = sorted[1].score
        <5>1. DOMAIN sorted = 1 .. N /\ 1 \in 1 .. N
          BY <1>1, <4>1 DEF WholeList
        <5>2. rootMoves'[1] = IF pvIdx = 1 THEN done ELSE sorted[1]
          BY <4>5, <5>1
        <5> QED BY <4>4, <5>2
      <4> QED BY <1>4, <4>7, <4>8
    <3> QED BY <1>6, <3>1, <3>2 DEF JudgeWindow, sorted
  <2>3. ListInv'
    BY <1>1, <1>2, <2>2, ListKept
  <2>4. pc' = "guard"
    BY <2>1 DEF EndSearch
  <2>5. Scalars'
    BY <1>2, <2>1, ValuesAreEvals DEF IInv, Scalars, EndSearch
  <2>6. Places' /\ WindowInv' /\ SearchInv'
    BY <1>1, <1>2, <2>4 DEF IInv, Places, WindowInv, SearchInv
  <2>7. FrontScored'
    <3>1. stopFlag \/ bestValue < beta
      BY <1>6, ValuesAreEvals DEF IInv, Scalars, Eval
    <3> QED BY <1>1, <1>2, <2>2, <2>4, <3>1 DEF IInv, FrontScored
  <2> QED BY <2>3, <2>5, <2>6, <2>7 DEF IInv
<1> QED BY <1>5, <1>6

LEMMA GuardLineInv == IInv /\ GuardLine => IInv'
<1> SUFFICES ASSUME IInv, GuardLine PROVE IInv'
  OBVIOUS
<1>1. /\ WholeList(rootMoves) /\ N \in Nat /\ ListInv /\ DOMAIN rootMoves = 1 .. N
      /\ pc = "guard" /\ pc' = "deliver" /\ pvIdx \in 1 .. N
  BY NType, LinesAssumption DEF IInv, ListInv, WholeList, Places, GuardLine, N
<1>2. UNCHANGED <<rootDepth, pvIdx, pvFirst, pvLast, alpha, beta, delta, low, bestValue, todo, lastBest, stopFlag>>
  BY DEF GuardLine, lines, window
<1>3. Follows(rootMoves', rootMoves)
  <2>1. CASE stopFlag /\ pvIdx > 1
    <3> DEFINE k == [i \in 1 .. N |->
                       IF i = pvIdx THEN Protected(rootMoves[i], rootMoves[i - 1])
                       ELSE IF i \in pvIdx + 1 .. MultiPV /\ IsExactLoss(rootMoves[i])
                       THEN [rootMoves[i] EXCEPT !.inexactLower = TRUE]
                       ELSE rootMoves[i]]
    <3>1. rootMoves' = k
      BY <1>1, <2>1 DEF GuardLine
    <3>2. ASSUME NEW i \in 1 .. N PROVE Rewrites(k[i], rootMoves[i])
      <4>1. rootMoves[i] \in RootMove /\ ~Flagged(rootMoves[i])
        BY <1>1 DEF WholeList
      <4>2. CASE i = pvIdx
        <5>1. i - 1 \in 1 .. N
          BY <1>1, <2>1, <4>2
        <5>2. rootMoves[i - 1] \in RootMove
          BY <1>1, <5>1 DEF WholeList
        <5>3. k[i] = Protected(rootMoves[i], rootMoves[i - 1])
          BY <4>2
        <5> QED BY <4>1, <5>2, <5>3, ProtectedRewrites
      <4>3. CASE i # pvIdx /\ i \in pvIdx + 1 .. MultiPV /\ IsExactLoss(rootMoves[i])
        <5>1. k[i] = [rootMoves[i] EXCEPT !.inexactLower = TRUE]
          BY <4>3
        <5> QED BY <4>1, <4>3, <5>1, MarkedRewrites
      <4>4. CASE i # pvIdx /\ ~(i \in pvIdx + 1 .. MultiPV /\ IsExactLoss(rootMoves[i]))
        <5>1. k[i] = rootMoves[i]
          BY <4>4
        <5> QED BY <4>1, <5>1 DEF Rewrites
      <4> QED BY <4>2, <4>3, <4>4
    <3>3. k = [i \in 1 .. N |-> k[i]]
      OBVIOUS
    <3> HIDE DEF k
    <3> QED BY <1>1, <3>1, <3>2, <3>3, RewrittenFollows
  <2>2. CASE ~(stopFlag /\ pvIdx > 1)
    <3>1. rootMoves' = rootMoves
      BY <2>2 DEF GuardLine
    <3> QED BY <1>1, <3>1, FollowsItself
  <2> QED BY <2>1, <2>2
<1>4. ListInv'
  BY <1>1, <1>2, <1>3, ListKept
<1>5. Scalars' /\ Places' /\ WindowInv' /\ SearchInv'
  BY <1>1, <1>2 DEF IInv, Scalars, Places, WindowInv, SearchInv
<1>6. FrontScored'
  BY <1>1, <1>2 DEF IInv, FrontScored, GuardLine
<1> QED BY <1>4, <1>5, <1>6 DEF IInv

LEMMA DeliverLineInv == IInv /\ DeliverLine => IInv'
<1> SUFFICES ASSUME IInv, DeliverLine PROVE IInv'
  OBVIOUS
<1>1. /\ WholeList(rootMoves) /\ N \in Nat /\ ListInv /\ pc = "deliver"
      /\ pvFirst \in 1 .. N /\ pvIdx \in pvFirst .. N /\ pvIdx <= pvLast /\ pvIdx <= MultiPV
      /\ pvIdx \in Nat /\ MultiPV \in Nat
  BY NType, LinesAssumption DEF IInv, ListInv, Places, DeliverLine, N
<1>2. /\ UNCHANGED <<rootDepth, pvFirst, pvLast, alpha, beta, delta, low, bestValue, todo, lastBest, stopFlag>>
      /\ rootMoves' = Sorted(rootMoves, pvFirst, pvIdx)
      /\ IF stopFlag THEN pvIdx' = pvIdx /\ pc' = "close"
         ELSE pvIdx' = pvIdx + 1 /\ pc' = IF pvIdx = MultiPV THEN "close" ELSE "line"
  BY DEF DeliverLine, window
<1>3. /\ Follows(rootMoves', rootMoves)
      /\ \A i \in 1 .. N : i \notin pvFirst .. pvIdx => rootMoves'[i] = rootMoves[i]
      /\ rootMoves[pvFirst].score # -Infinite => rootMoves'[pvFirst].score # -Infinite
  <2>1. \A i, j \in pvFirst .. pvIdx : rootMoves[i].tbRank = rootMoves[j].tbRank
    <3>1. \A i \in pvFirst .. pvIdx : i \in pvFirst .. pvLast
      BY <1>1 DEF ListInv
    <3> QED BY <1>1, <3>1 DEF ListInv
  <2> QED BY <1>1, <1>2, <2>1, SortedFollows
<1>4. rootMoves[1].score # -Infinite => rootMoves'[1].score # -Infinite
  <2>1. CASE pvFirst = 1
    BY <1>3, <2>1
  <2>2. CASE pvFirst > 1
    <3>1. 1 \in 1 .. N /\ 1 \notin pvFirst .. pvIdx
      BY <1>1, <2>2
    <3> QED BY <1>3, <3>1
  <2> QED BY <1>1, <2>1, <2>2
<1>5. ListInv'
  BY <1>1, <1>2, <1>3, ListKept
<1>6. pc' \in {"close", "line"}
  BY <1>2
<1>7. Scalars'
  BY <1>2, <1>6 DEF IInv, Scalars
<1>8. Places'
  BY <1>1, <1>2, <1>6 DEF IInv, ListInv, Places
<1>9. WindowInv' /\ SearchInv'
  BY <1>6 DEF WindowInv, SearchInv
<1>10. FrontScored'
  BY <1>1, <1>2, <1>4 DEF IInv, FrontScored
<1> QED BY <1>5, <1>7, <1>8, <1>9, <1>10 DEF IInv

LEMMA CloseIterationInv == IInv /\ CloseIteration => IInv'
<1> SUFFICES ASSUME IInv, CloseIteration PROVE IInv'
  OBVIOUS
<1> DEFINE best == IF stopFlag \/ ForgottenMate THEN lastBest ELSE LastBest(rootMoves[1])
<1>1. /\ WholeList(rootMoves) /\ N \in Nat /\ ListInv /\ 1 \in 1 .. N
      /\ pc = "close" /\ pc' = "iterate" /\ lastBest' = best
      /\ UNCHANGED <<rootDepth, pvIdx, pvFirst, pvLast, alpha, beta, delta, low, bestValue, todo>>
  BY NType DEF IInv, ListInv, CloseIteration, lines, window
<1>2. rootMoves[1] \in RootMove /\ ~Flagged(rootMoves[1])
  BY <1>1 DEF WholeList
<1>3. best # None => /\ best \in [move : Moves, score : Values, pv : Line]
                     /\ FrontRank(rootMoves, best.move)
  <2>1. CASE stopFlag \/ ForgottenMate
    <3>1. best = lastBest
      BY <2>1
    <3> QED BY <1>1, <3>1 DEF ListInv
  <2>2. CASE ~(stopFlag \/ ForgottenMate)
    <3>1. best = [move |-> rootMoves[1].move, score |-> rootMoves[1].score, pv |-> rootMoves[1].pv]
      BY <2>2 DEF LastBest
    <3>2. rootMoves[1].score # -Infinite
      BY <1>1, <2>2 DEF IInv, FrontScored
    <3>3. rootMoves[1].score \in Values /\ rootMoves[1].move \in Moves /\ rootMoves[1].pv \in Line
      BY <1>2, <3>2, Fields
    <3>4. FrontRank(rootMoves, rootMoves[1].move)
      BY <1>1 DEF FrontRank, WholeList
    <3> HIDE DEF best
    <3> QED BY <3>1, <3>3, <3>4
  <2> QED BY <2>1, <2>2
<1> HIDE DEF best
<1>4. PICK up \in {stopFlag, TRUE} :
        /\ \/ rootMoves' = rootMoves
           \/ best # None /\ rootMoves' = RolledBack(best)
           \/ AbortedLoss(up) /\ rootMoves' = [rootMoves EXCEPT ![1].inexactLower = TRUE]
        /\ stopFlag' = up
  BY DEF CloseIteration, best
<1>5. Follows(rootMoves', rootMoves)
  <2>1. CASE rootMoves' = rootMoves
    BY <1>1, <2>1, FollowsItself
  <2>2. CASE best # None /\ rootMoves' = RolledBack(best)
    <3> DEFINE t == ToFront(rootMoves, best.move)
               done == [t[1] EXCEPT !.score = best.score, !.uciScore = best.score, !.pv = best.pv,
                                    !.inexactLower = FALSE, !.inexactUpper = FALSE]
    <3>1. best.move \in Moves /\ best.score \in Values /\ best.pv \in Line /\ FrontRank(rootMoves, best.move)
      BY <1>3, <2>2
    <3>2. \A i, j \in 1 .. N : i < j => rootMoves[i].tbRank >= rootMoves[j].tbRank
      BY <1>1 DEF ListInv, RanksStayInOrder, WholeList
    <3>3. Follows(t, rootMoves)
      BY <1>1, <3>1, <3>2, ToFrontFollows
    <3>4. WholeList(t) /\ t[1] \in RootMove
      BY <1>1, <3>3 DEF Follows, WholeList
    <3>5. Rewrites(done, t[1])
      <4> HIDE DEF t
      <4> QED BY <3>1, <3>4, RestoredRewrites
    <3>6. rootMoves' = [t EXCEPT ![1] = done]
      <4>1. rootMoves' = [t EXCEPT ![1].score = best.score, ![1].uciScore = best.score, ![1].pv = best.pv,
                                   ![1].inexactLower = FALSE, ![1].inexactUpper = FALSE]
        BY <2>2 DEF RolledBack
      <4>2. DOMAIN t = 1 .. N
        BY <3>4 DEF WholeList
      <4> HIDE DEF t
      <4> QED BY <1>1, <4>1, <4>2
    <3> HIDE DEF t, done
    <3>7. Follows(rootMoves', t)
      BY <1>1, <3>4, <3>5, <3>6, OneRewrittenFollows
    <3> QED BY <3>3, <3>7, FollowsFurther
  <2>3. CASE AbortedLoss(up) /\ rootMoves' = [rootMoves EXCEPT ![1].inexactLower = TRUE]
    <3> DEFINE done == [rootMoves[1] EXCEPT !.inexactLower = TRUE]
    <3>1. Rewrites(done, rootMoves[1])
      BY <1>2, <2>3, MarkedRewrites DEF AbortedLoss
    <3>2. rootMoves' = [rootMoves EXCEPT ![1] = done]
      BY <2>3
    <3> HIDE DEF done
    <3> QED BY <1>1, <3>1, <3>2, OneRewrittenFollows
  <2> QED BY <1>4, <2>1, <2>2, <2>3
<1>6. ListInv'
  <2>1. WholeList(rootMoves') /\ SameRanks(rootMoves', rootMoves)
    BY <1>5 DEF Follows
  <2>2. \A i \in 1 .. N : rootMoves'[i].tbRank = rootMoves[i].tbRank
    BY <2>1 DEF SameRanks
  <2>3. DOMAIN rootMoves = 1 .. N /\ DOMAIN rootMoves' = 1 .. N
    BY <1>1, <2>1 DEF WholeList
  <2>4. RanksStayInOrder'
    BY <1>1, <2>2, <2>3 DEF ListInv, RanksStayInOrder
  <2>5. \A i \in pvFirst .. pvLast : i \in 1 .. N
    BY <1>1 DEF ListInv
  <2>6. \A i, j \in pvFirst .. pvLast : rootMoves'[i].tbRank = rootMoves'[j].tbRank
    BY <1>1, <2>2, <2>5 DEF ListInv
  <2>7. best # None => FrontRank(rootMoves', best.move)
    BY <1>3, <1>5 DEF Follows
  <2> QED BY <1>1, <1>3, <2>1, <2>4, <2>6, <2>7 DEF ListInv
<1>7. Scalars'
  BY <1>1, <1>4 DEF IInv, Scalars
<1>8. Places' /\ WindowInv' /\ SearchInv' /\ FrontScored'
  BY <1>1 DEF IInv, Places, WindowInv, SearchInv, FrontScored
<1> QED BY <1>6, <1>7, <1>8 DEF IInv

(* Steps that leave the list and the line where they are.                   *)
LEMMA OtherStepsInv == IInv /\ (RaiseStop \/ Finish \/ UNCHANGED vars) => IInv'
<1> SUFFICES ASSUME IInv, RaiseStop \/ Finish \/ UNCHANGED vars PROVE IInv'
  OBVIOUS
<1>1. UNCHANGED <<rootMoves, rootDepth, pvIdx, pvFirst, pvLast, alpha, beta, delta, low, bestValue, todo, lastBest>>
  BY DEF RaiseStop, Finish, vars, lines, window
<1>2. \/ stopFlag' = TRUE /\ pc' = pc
      \/ stopFlag' = stopFlag /\ pc' \in {pc, "done"}
  BY DEF RaiseStop, Finish, vars
<1>3. ListInv'
  BY <1>1 DEF IInv, ListInv, RanksStayInOrder
<1>4. Scalars' /\ Places'
  BY <1>1, <1>2 DEF IInv, Scalars, Places
<1>5. WindowInv' /\ SearchInv' /\ FrontScored'
  BY <1>1, <1>2 DEF IInv, WindowInv, SearchInv, FrontScored
<1> QED BY <1>3, <1>4, <1>5 DEF IInv

LEMMA IInvNext == IInv /\ [Next]_vars => IInv'
<1> SUFFICES ASSUME IInv, [Next]_vars PROVE IInv'
  OBVIOUS
<1>1. CASE RaiseStop \/ Finish \/ Stopped \/ UNCHANGED vars
  BY <1>1, OtherStepsInv DEF Stopped
<1>2. CASE StartIteration
  BY <1>2, StartIterationInv
<1>3. CASE StartLine
  BY <1>3, StartLineInv
<1>4. CASE \E m \in Moves, v \in Values : SearchMove(m, v)
  BY <1>4, SearchMoveInv
<1>5. CASE AbandonSearch
  BY <1>5, AbandonSearchInv
<1>6. CASE JudgeWindow
  BY <1>6, JudgeWindowInv
<1>7. CASE GuardLine
  BY <1>7, GuardLineInv
<1>8. CASE DeliverLine
  BY <1>8, DeliverLineInv
<1>9. CASE CloseIteration
  BY <1>9, CloseIterationInv
<1>10. CASE \E v \in Values : ProbCut(v)
  BY <1>10, ProbCutInv
<1> QED BY <1>1, <1>2, <1>3, <1>4, <1>5, <1>6, <1>7, <1>8, <1>9, <1>10 DEF Next

(* For all root moves, tablebase ranks, numbers of lines and iterations,    *)
(* values returned and widths of the window, and however the search is      *)
(* stopped: the list is whole and in order of rank, and no search begins on *)
(* an empty window (search.cpp iterative_deepening).                        *)
THEOREM LinesAreAlwaysInOrder == Spec => []LinesAreInOrder
<1>1. Init => IInv
  BY IInvInit
<1>2. IInv /\ [Next]_vars => IInv'
  BY IInvNext
<1>3. IInv => LinesAreInOrder
  BY IInvImplies
<1> QED BY <1>1, <1>2, <1>3, PTL DEF Spec

-----------------------------------------------------------------------------
(* Scores and the lines they came with.                                     *)
Paired(score, pv) == score # -Infinite => pv.of = score

Honest(rm) ==
  /\ IsExact(rm) => rm.pv.of = rm.score /\ rm.uciScore = rm.score
  /\ Paired(rm.previousScore, rm.previousPV)

(* Until a stop every score has its line, exact or not, so that a score     *)
(* saved or recorded for later is saved with its own line.                  *)
PairInv ==
  /\ \A i \in 1 .. N : Honest(rootMoves[i])
  /\ ~stopFlag => \A i \in 1 .. N : Paired(rootMoves[i].score, rootMoves[i].pv)
  /\ lastBest # None => Paired(lastBest.score, lastBest.pv)

(* The moves of k are moves of l.                                           *)
Draws(k, l) == \A i \in 1 .. N : \E j \in 1 .. N : k[i] = l[j]

LEMMA SortedDraws ==
  ASSUME NEW l, WholeList(l), NEW first \in 1 .. N, NEW last \in first .. N
  PROVE  Draws(Sorted(l, first, last), l)
<1> DEFINE k == Sorted(l, first, last)
<1>1. l \in [1 .. N -> RootMove] /\ first \in Int /\ last \in Int /\ first \in first .. last
  BY NType DEF WholeList
<1>2. PICK p \in [1 .. N -> 1 .. N] :
        /\ \A i \in 1 .. N : k[i] = l[p[i]]
        /\ \A i \in 1 .. N : IF i \in first .. last THEN p[i] \in first .. last ELSE p[i] = i
        /\ \A i, j \in 1 .. N : p[i] = p[j] => i = j
        /\ \A j \in 1 .. N : \E i \in 1 .. N : p[i] = j
        /\ l[p[first]].score >= l[first].score
  BY <1>1, SortedPermutes
<1> HIDE DEF k
<1>3. Draws(k, l)
  BY <1>2 DEF Draws
<1> QED BY <1>3 DEF k

LEMMA ToFrontDraws ==
  ASSUME NEW l, WholeList(l), NEW m \in Moves
  PROVE  Draws(ToFront(l, m), l)
<1> DEFINE at == CHOOSE i \in DOMAIN l : l[i].move = m
<1>1. DOMAIN l = 1 .. N /\ N \in Nat
  BY NType DEF WholeList
<1>2. at \in 1 .. N
  <2>1. \E i \in DOMAIN l : l[i].move = m
    BY <1>1 DEF WholeList
  <2> QED BY <1>1, <2>1
<1>3. ToFront(l, m) = [i \in 1 .. N |-> IF i = 1 THEN l[at] ELSE IF i <= at THEN l[i - 1] ELSE l[i]]
  BY <1>1 DEF ToFront
<1> HIDE DEF at
<1>4. ASSUME NEW i \in 1 .. N PROVE \E j \in 1 .. N : ToFront(l, m)[i] = l[j]
  <2>1. ToFront(l, m)[i] = IF i = 1 THEN l[at] ELSE IF i <= at THEN l[i - 1] ELSE l[i]
    BY <1>3
  <2>2. i = 1 \/ i - 1 \in 1 .. N
    BY <1>1
  <2> QED BY <1>2, <2>1, <2>2
<1> QED BY <1>4 DEF Draws

LEMMA DrawsKeep ==
  ASSUME NEW k, NEW l, Draws(k, l)
  PROVE  /\ (\A i \in 1 .. N : Honest(l[i])) => \A i \in 1 .. N : Honest(k[i])
         /\ (\A i \in 1 .. N : Paired(l[i].score, l[i].pv)) =>
               \A i \in 1 .. N : Paired(k[i].score, k[i].pv)
BY DEF Draws

LEMMA PairInit == Init => PairInv
<1> SUFFICES ASSUME Init PROVE PairInv
  OBVIOUS
<1>1. \A i \in 1 .. N : rootMoves[i].score = -Infinite /\ rootMoves[i].previousScore = -Infinite
  <2>1. PICK order \in [1 .. N -> Moves], ranks \in TBRanks :
          rootMoves = [i \in DOMAIN order |-> NewMove(order[i], ranks[i])]
    BY DEF Init, N
  <2>2. DOMAIN order = 1 .. N
    OBVIOUS
  <2>3. \A i \in 1 .. N : rootMoves[i] = NewMove(order[i], ranks[i])
    BY <2>1, <2>2
  <2> SUFFICES ASSUME NEW i \in 1 .. N
               PROVE  rootMoves[i].score = -Infinite /\ rootMoves[i].previousScore = -Infinite
    OBVIOUS
  <2>4. rootMoves[i] = NewMove(order[i], ranks[i])
    BY <2>3
  <2> QED BY <2>4 DEF NewMove
<1>2. lastBest = None
  BY DEF Init
<1> QED BY <1>1, <1>2 DEF PairInv, Honest, Paired, IsExact

LEMMA PairStartIteration == IInv /\ PairInv /\ StartIteration => PairInv'
<1> SUFFICES ASSUME IInv, PairInv, StartIteration PROVE PairInv'
  OBVIOUS
<1>1. WholeList(rootMoves) /\ DOMAIN rootMoves = 1 .. N
  BY DEF IInv, ListInv, WholeList
<1>2. ~stopFlag /\ UNCHANGED <<lastBest, stopFlag>>
  BY DEF StartIteration
<1>3. ASSUME NEW i \in 1 .. N
      PROVE  Honest(rootMoves'[i]) /\ Paired(rootMoves'[i].score, rootMoves'[i].pv)
  <2> DEFINE rm == rootMoves[i]
             new == rootMoves'[i]
  <2>1. new = WithPrevious(rm, i) /\ rm \in RootMove
    BY <1>1 DEF StartIteration, WholeList
  <2>2. /\ new.score = rm.score /\ new.pv = rm.pv /\ new.uciScore = rm.uciScore
        /\ new.inexactLower = rm.inexactLower /\ new.inexactUpper = rm.inexactUpper
        /\ new.previousScore = rm.score /\ new.previousPV = rm.pv
    <3> HIDE DEF rm, new
    <3> QED BY <2>1, Fields DEF WithPrevious
  <2>3. Honest(rm) /\ Paired(rm.score, rm.pv)
    BY <1>2 DEF PairInv
  <2> HIDE DEF rm, new
  <2>4. Honest(new) /\ Paired(new.score, new.pv)
    BY <2>2, <2>3 DEF Honest, Paired, IsExact, IsInexact
  <2> QED BY <2>4 DEF new
<1> QED BY <1>2, <1>3 DEF PairInv

LEMMA PairSearchMove ==
  ASSUME IInv, PairInv, NEW m \in Moves, NEW v \in Values, SearchMove(m, v)
  PROVE  PairInv'
<1> DEFINE first == Cardinality(todo) = pvLast - pvIdx + 1
           at == IndexOf(m)
           rm == rootMoves[at]
<1>1. WholeList(rootMoves) /\ UNCHANGED <<lastBest, stopFlag>> /\ ~stopFlag
  BY DEF IInv, ListInv, SearchMove
<1>2. PICK average \in Averages(rm, v) :
        rootMoves' = [rootMoves EXCEPT ![at] =
                        [AfterMove(rm, v, first) EXCEPT !.averageScore = average]]
  BY DEF SearchMove
<1>3. at \in 1 .. N /\ rm \in RootMove
  <2>1. \E i \in DOMAIN rootMoves : rootMoves[i].move = m
    BY <1>1 DEF WholeList
  <2>2. DOMAIN rootMoves = 1 .. N
    BY <1>1 DEF WholeList
  <2>3. at \in DOMAIN rootMoves
    BY <2>1 DEF IndexOf
  <2> QED BY <1>1, <2>2, <2>3 DEF WholeList
<1> DEFINE after == AfterMove(rm, v, first)
           done == [after EXCEPT !.averageScore = average]
<1>4. Honest(rm)
  <2> HIDE DEF at
  <2> QED BY <1>3 DEF PairInv
<1> HIDE DEF at, rm, first
<1>5. Honest(done) /\ Paired(done.score, done.pv)
  <2>1. CASE first \/ v > low
    <3>1. after = Rescored(rm, v)
      BY <2>1 DEF AfterMove
    <3> DEFINE shown == IF v >= beta THEN beta ELSE IF v <= low THEN low ELSE v
               lower == v >= beta
               upper == v < beta /\ v <= low
               line  == [of |-> v, inside |-> low < v /\ v < beta, complete |-> FALSE]
    <3>2. after = [rm EXCEPT !.score = v, !.uciScore = shown, !.inexactLower = lower,
                             !.inexactUpper = upper, !.pv = line]
      BY <3>1 DEF Rescored
    <3>3. ~lower /\ ~upper => shown = v
      <4>1. v \in Int /\ low \in Int /\ beta \in Int
        BY ValuesAreEvals DEF IInv, Scalars, Eval
      <4> QED BY <4>1
    <3>4. line.of = v
      OBVIOUS
    <3> HIDE DEF shown, lower, upper, line
    <3>5. /\ done.score = v /\ done.pv = line /\ done.uciScore = shown
          /\ done.inexactLower = lower /\ done.inexactUpper = upper
          /\ done.previousScore = rm.previousScore /\ done.previousPV = rm.previousPV
      BY <1>3, <3>2, Fields
    <3> HIDE DEF done, after
    <3>6. IsExact(done) => done.uciScore = v
      BY <3>3, <3>5 DEF IsExact, IsInexact
    <3> QED BY <1>4, <3>4, <3>5, <3>6 DEF Honest, Paired
  <2>2. CASE ~(first \/ v > low)
    <3>1. after = [rm EXCEPT !.score = -Infinite, !.pv = Bare]
      BY <2>2 DEF AfterMove
    <3>2. /\ done.score = -Infinite
          /\ done.previousScore = rm.previousScore /\ done.previousPV = rm.previousPV
      BY <1>3, <3>1, Fields
    <3> HIDE DEF done, after
    <3> QED BY <1>4, <3>2 DEF Honest, Paired, IsExact
  <2> QED BY <2>1, <2>2
<1>6. ASSUME NEW i \in 1 .. N
      PROVE  Honest(rootMoves'[i]) /\ Paired(rootMoves'[i].score, rootMoves'[i].pv)
  <2>1. rootMoves'[i] = IF i = at THEN done ELSE rootMoves[i]
    <3> HIDE DEF after
    <3> QED BY <1>1, <1>2 DEF WholeList, after
  <2> HIDE DEF done
  <2> QED BY <1>1, <1>5, <2>1 DEF PairInv
<1> QED BY <1>1, <1>6 DEF PairInv

LEMMA PairJudgeWindow == IInv /\ PairInv /\ JudgeWindow => PairInv'
<1> SUFFICES ASSUME IInv, PairInv, JudgeWindow PROVE PairInv'
  OBVIOUS
<1> DEFINE sorted == Sorted(rootMoves, pvIdx, pvLast)
<1>1. WholeList(rootMoves) /\ pvIdx \in 1 .. N /\ pvLast \in pvIdx .. N /\ ListInv /\ pvFirst <= pvIdx
  BY NType, LinesAssumption DEF IInv, ListInv, Places, JudgeWindow, N
<1>2. UNCHANGED <<lastBest, stopFlag>>
  BY DEF JudgeWindow
<1>3. Draws(sorted, rootMoves)
  BY <1>1, SortedDraws
<1>4. sorted \in [1 .. N -> RootMove]
  BY <1>1, SortedPermutes DEF WholeList
<1> HIDE DEF sorted
<1>5. /\ \A i \in 1 .. N : Honest(sorted[i])
      /\ ~stopFlag => \A i \in 1 .. N : Paired(sorted[i].score, sorted[i].pv)
  BY <1>3, DrawsKeep DEF PairInv
<1>6. CASE rootMoves' = sorted
  BY <1>2, <1>5, <1>6 DEF PairInv
<1>7. CASE rootMoves' = [sorted EXCEPT ![pvIdx].pv.complete = TRUE]
  <2> DEFINE rm == sorted[pvIdx]
             done == [rm EXCEPT !.pv = [rm.pv EXCEPT !.complete = TRUE]]
  <2>1. rm \in RootMove /\ Honest(rm) /\ (~stopFlag => Paired(rm.score, rm.pv))
    BY <1>1, <1>4, <1>5
  <2>2. \A i \in 1 .. N : rootMoves'[i] = IF i = pvIdx THEN done ELSE sorted[i]
    BY <1>4, <1>7
  <2> HIDE DEF rm
  <2>3. rm.pv = [of |-> rm.pv.of, inside |-> rm.pv.inside, complete |-> rm.pv.complete]
    BY <2>1, Fields DEF Line
  <2>4. [rm.pv EXCEPT !.complete = TRUE].of = rm.pv.of
    BY <2>3
  <2> DEFINE line == [rm.pv EXCEPT !.complete = TRUE]
  <2>5. line.of = rm.pv.of
    BY <2>4
  <2> HIDE DEF line
  <2>6. /\ done.score = rm.score /\ done.pv = line /\ done.uciScore = rm.uciScore
        /\ done.inexactLower = rm.inexactLower /\ done.inexactUpper = rm.inexactUpper
        /\ done.previousScore = rm.previousScore /\ done.previousPV = rm.previousPV
    BY <2>1, Fields DEF line
  <2> HIDE DEF done
  <2>7. Honest(done) /\ (~stopFlag => Paired(done.score, done.pv))
    BY <2>1, <2>5, <2>6 DEF Honest, Paired, IsExact, IsInexact
  <2> QED BY <1>2, <1>5, <2>2, <2>7 DEF PairInv
<1> QED BY <1>6, <1>7 DEF JudgeWindow, sorted

LEMMA PairProtected ==
  ASSUME NEW rm \in RootMove, Honest(rm), NEW before
  PROVE  Honest(Protected(rm, before))
<1> DEFINE kept == [rm EXCEPT !.score = rm.previousScore, !.uciScore = rm.previousScore,
                              !.previousScore = -Infinite, !.pv = rm.previousPV,
                              !.inexactLower = FALSE, !.inexactUpper = FALSE]
           held == [rm EXCEPT !.score = before.score, !.uciScore = before.score,
                              !.previousScore = -Infinite, !.pv = Bare,
                              !.inexactUpper = TRUE, !.inexactLower = FALSE]
           bound == [rm EXCEPT !.inexactUpper = FALSE, !.inexactLower = TRUE]
<1>1. Protected(rm, before) \in {rm, kept, held, bound}
  BY DEF Protected
<1>2. Honest(kept)
  <2>1. /\ kept.score = rm.previousScore /\ kept.uciScore = rm.previousScore
        /\ kept.previousScore = -Infinite /\ kept.pv = rm.previousPV
    BY Fields
  <2> HIDE DEF kept
  <2> QED BY <2>1 DEF Honest, Paired, IsExact
<1>3. Honest(held)
  <2>1. held.inexactUpper /\ held.previousScore = -Infinite
    BY Fields
  <2> HIDE DEF held
  <2> QED BY <2>1 DEF Honest, Paired, IsExact, IsInexact
<1>4. Honest(bound)
  <2>1. bound.inexactLower /\ bound.previousScore = rm.previousScore /\ bound.previousPV = rm.previousPV
    BY Fields
  <2> HIDE DEF bound
  <2> QED BY <2>1 DEF Honest, IsExact, IsInexact
<1> HIDE DEF kept, held, bound
<1> QED BY <1>1, <1>2, <1>3, <1>4

LEMMA PairMarked ==
  ASSUME NEW rm \in RootMove, Honest(rm)
  PROVE  Honest([rm EXCEPT !.inexactLower = TRUE])
<1> DEFINE done == [rm EXCEPT !.inexactLower = TRUE]
<1>1. done.inexactLower /\ done.previousScore = rm.previousScore /\ done.previousPV = rm.previousPV
  BY Fields
<1> HIDE DEF done
<1>2. Honest(done)
  BY <1>1 DEF Honest, IsExact, IsInexact
<1> QED BY <1>2 DEF done

LEMMA PairGuardLine == IInv /\ PairInv /\ GuardLine => PairInv'
<1> SUFFICES ASSUME IInv, PairInv, GuardLine PROVE PairInv'
  OBVIOUS
<1>1. /\ WholeList(rootMoves) /\ DOMAIN rootMoves = 1 .. N /\ stopFlag \in BOOLEAN
      /\ UNCHANGED <<lastBest, stopFlag>>
  BY DEF IInv, ListInv, WholeList, Scalars, GuardLine
<1>2. CASE ~(stopFlag /\ pvIdx > 1)
  <2>1. rootMoves' = rootMoves
    BY <1>2 DEF GuardLine
  <2> QED BY <1>1, <2>1 DEF PairInv
<1>3. CASE stopFlag /\ pvIdx > 1
  <2>1. ASSUME NEW i \in 1 .. N PROVE Honest(rootMoves'[i])
    <3>1. rootMoves[i] \in RootMove /\ Honest(rootMoves[i])
      BY <1>1 DEF WholeList, PairInv
    <3>2. rootMoves'[i] \in {Protected(rootMoves[i], rootMoves[i - 1]),
                            [rootMoves[i] EXCEPT !.inexactLower = TRUE], rootMoves[i]}
      BY <1>1, <1>3 DEF GuardLine
    <3>3. Honest(Protected(rootMoves[i], rootMoves[i - 1]))
      BY <3>1, PairProtected
    <3>4. Honest([rootMoves[i] EXCEPT !.inexactLower = TRUE])
      BY <3>1, PairMarked
    <3> QED BY <3>1, <3>2, <3>3, <3>4
  <2> QED BY <1>1, <1>3, <2>1 DEF PairInv
<1> QED BY <1>2, <1>3

LEMMA PairDeliverLine == IInv /\ PairInv /\ DeliverLine => PairInv'
<1> SUFFICES ASSUME IInv, PairInv, DeliverLine PROVE PairInv'
  OBVIOUS
<1>1. WholeList(rootMoves) /\ pvFirst \in 1 .. N /\ pvIdx \in pvFirst .. N
  BY NType, LinesAssumption DEF IInv, ListInv, Places, DeliverLine, N
<1>2. /\ UNCHANGED <<lastBest, stopFlag>>
      /\ rootMoves' = Sorted(rootMoves, pvFirst, pvIdx)
  BY DEF DeliverLine
<1>3. Draws(rootMoves', rootMoves)
  BY <1>1, <1>2, SortedDraws
<1> QED BY <1>2, <1>3, DrawsKeep DEF PairInv

LEMMA PairCloseIteration == IInv /\ PairInv /\ CloseIteration => PairInv'
<1> SUFFICES ASSUME IInv, PairInv, CloseIteration PROVE PairInv'
  OBVIOUS
<1> DEFINE best == IF stopFlag \/ ForgottenMate THEN lastBest ELSE LastBest(rootMoves[1])
<1>1. WholeList(rootMoves) /\ 1 \in 1 .. N /\ lastBest' = best /\ stopFlag \in BOOLEAN
  BY NType DEF IInv, ListInv, Scalars, CloseIteration
<1>2. best # None => best \in [move : Moves, score : Values, pv : Line] /\ Paired(best.score, best.pv)
  <2>1. CASE stopFlag \/ ForgottenMate
    <3>1. best = lastBest
      BY <2>1
    <3> QED BY <3>1 DEF IInv, ListInv, PairInv
  <2>2. CASE ~(stopFlag \/ ForgottenMate)
    <3>1. best = [move |-> rootMoves[1].move, score |-> rootMoves[1].score, pv |-> rootMoves[1].pv]
      BY <2>2 DEF LastBest
    <3>2. rootMoves[1].score # -Infinite
      BY <2>2 DEF IInv, FrontScored, CloseIteration
    <3>3. rootMoves[1] \in RootMove /\ Paired(rootMoves[1].score, rootMoves[1].pv)
      BY <1>1, <2>2 DEF WholeList, PairInv
    <3>4. rootMoves[1].score \in Values /\ rootMoves[1].move \in Moves /\ rootMoves[1].pv \in Line
      BY <3>2, <3>3, Fields
    <3> HIDE DEF best
    <3> QED BY <3>1, <3>3, <3>4
  <2> QED BY <2>1, <2>2
<1> HIDE DEF best
<1>3. PICK up \in {stopFlag, TRUE} :
        /\ \/ rootMoves' = rootMoves
           \/ best # None /\ rootMoves' = RolledBack(best)
           \/ AbortedLoss(up) /\ rootMoves' = [rootMoves EXCEPT ![1].inexactLower = TRUE]
        /\ stopFlag' = up
  BY DEF CloseIteration, best
<1>4. /\ \A i \in 1 .. N : Honest(rootMoves'[i])
      /\ ~stopFlag' => \A i \in 1 .. N : Paired(rootMoves'[i].score, rootMoves'[i].pv)
  <2>0. ~stopFlag' => ~stopFlag
    BY <1>1, <1>3
  <2>1. CASE rootMoves' = rootMoves
    BY <2>0, <2>1 DEF PairInv
  <2>2. CASE best # None /\ rootMoves' = RolledBack(best)
    <3> DEFINE t == ToFront(rootMoves, best.move)
               done == [t[1] EXCEPT !.score = best.score, !.uciScore = best.score, !.pv = best.pv,
                                    !.inexactLower = FALSE, !.inexactUpper = FALSE]
    <3>1. best.move \in Moves /\ best.score \in Values /\ Paired(best.score, best.pv)
      BY <1>2, <2>2
    <3>2. Draws(t, rootMoves)
      BY <1>1, <3>1, ToFrontDraws
    <3>3. /\ \A i \in 1 .. N : Honest(t[i])
          /\ ~stopFlag => \A i \in 1 .. N : Paired(t[i].score, t[i].pv)
      <4> HIDE DEF t
      <4> QED BY <3>2, DrawsKeep DEF PairInv
    <3>4. t[1] \in RootMove /\ DOMAIN t = 1 .. N
      <4>1. t[1] \in RootMove
        <5> HIDE DEF t
        <5> QED BY <1>1, <3>2 DEF Draws, WholeList
      <4>2. DOMAIN t = 1 .. N
        BY <1>1 DEF ToFront, WholeList
      <4> QED BY <4>1, <4>2
    <3>5. \A i \in 1 .. N : rootMoves'[i] = IF i = 1 THEN done ELSE t[i]
      <4>1. rootMoves' = [t EXCEPT ![1].score = best.score, ![1].uciScore = best.score, ![1].pv = best.pv,
                                   ![1].inexactLower = FALSE, ![1].inexactUpper = FALSE]
        BY <2>2 DEF RolledBack
      <4> HIDE DEF t
      <4>2. rootMoves' = [t EXCEPT ![1] = done]
        BY <1>1, <3>4, <4>1
      <4> HIDE DEF done
      <4> QED BY <3>4, <4>2
    <3> HIDE DEF t
    <3>6. /\ done.score = best.score /\ done.uciScore = best.score /\ done.pv = best.pv
          /\ done.previousScore = t[1].previousScore /\ done.previousPV = t[1].previousPV
      BY <3>4, Fields
    <3> HIDE DEF done
    <3>7. Honest(t[1])
      BY <1>1, <3>3
    <3>8. best.score # -Infinite
      BY <3>1, ValuesAreEvals
    <3>9. Honest(done) /\ Paired(done.score, done.pv)
      BY <3>1, <3>6, <3>7, <3>8 DEF Honest, Paired
    <3> QED BY <2>0, <3>3, <3>5, <3>9
  <2>3. CASE AbortedLoss(up) /\ rootMoves' = [rootMoves EXCEPT ![1].inexactLower = TRUE]
    <3> DEFINE done == [rootMoves[1] EXCEPT !.inexactLower = TRUE]
    <3>1. rootMoves[1] \in RootMove /\ Honest(rootMoves[1])
      BY <1>1 DEF WholeList, PairInv
    <3>2. Honest(done)
      BY <3>1, PairMarked
    <3>3. rootMoves' = [rootMoves EXCEPT ![1] = done]
      BY <2>3
    <3> HIDE DEF done
    <3>4. \A i \in 1 .. N : rootMoves'[i] = IF i = 1 THEN done ELSE rootMoves[i]
      BY <1>1, <3>3 DEF WholeList
    <3>5. stopFlag'
      BY <1>1, <1>3, <2>3 DEF AbortedLoss
    <3> QED BY <3>2, <3>4, <3>5 DEF PairInv
  <2> QED BY <1>3, <2>1, <2>2, <2>3
<1>5. lastBest' # None => Paired(lastBest'.score, lastBest'.pv)
  BY <1>1, <1>2
<1> QED BY <1>4, <1>5 DEF PairInv

LEMMA PairNext == IInv /\ PairInv /\ [Next]_vars => PairInv'
<1> SUFFICES ASSUME IInv, PairInv, [Next]_vars PROVE PairInv'
  OBVIOUS
<1>1. CASE \/ RaiseStop \/ Finish \/ Stopped \/ StartLine \/ AbandonSearch
            \/ (\E v \in Values : ProbCut(v)) \/ UNCHANGED vars
  <2>1. /\ rootMoves' = rootMoves /\ lastBest' = lastBest
        /\ stopFlag' = stopFlag \/ stopFlag' = TRUE
    BY <1>1 DEF RaiseStop, Finish, Stopped, StartLine, AbandonSearch, ProbCut, vars
  <2> QED BY <2>1 DEF PairInv
<1>2. CASE StartIteration
  BY <1>2, PairStartIteration
<1>3. CASE \E m \in Moves, v \in Values : SearchMove(m, v)
  BY <1>3, PairSearchMove
<1>4. CASE JudgeWindow
  BY <1>4, PairJudgeWindow
<1>5. CASE GuardLine
  BY <1>5, PairGuardLine
<1>6. CASE DeliverLine
  BY <1>6, PairDeliverLine
<1>7. CASE CloseIteration
  BY <1>7, PairCloseIteration
<1> QED BY <1>1, <1>2, <1>3, <1>4, <1>5, <1>6, <1>7 DEF Next

(* Whatever a stop interrupts, a line shown as exact between iterations or  *)
(* at the end comes with the variation of the search that gave it its score *)
(* and is shown with that score: sorting, protection and roll-back move all *)
(* of them together (search.cpp iterative_deepening, search).               *)
THEOREM ExactScoresAlwaysHaveTheirLine == Spec => []ExactScoreHasItsLine
<1>1. Init => IInv /\ PairInv
  BY IInvInit, PairInit
<1>2. IInv /\ PairInv /\ [Next]_vars => (IInv /\ PairInv)'
  BY IInvNext, PairNext
<1>3. PairInv => ExactScoreHasItsLine
  <2>1. ASSUME NEW i \in 1 .. MultiPV PROVE i \in 1 .. N
    BY NType, LinesAssumption DEF N
  <2> QED BY <2>1 DEF PairInv, Honest, ExactScoreHasItsLine
<1> QED BY <1>1, <1>2, <1>3, PTL DEF Spec

-----------------------------------------------------------------------------
(* Which lines ran to their end, and what that says of losses.              *)
LineDone(rm) == rm.score # -Infinite /\ rm.pv.complete
Trusted(rm)  == IsExactLoss(rm) => rm.pv.complete

(* The lines before the one being searched ran to their end.                *)
LinesDone ==
  /\ pc \in {"line", "search", "sort", "guard", "deliver"} =>
       \A i \in 1 .. N : i < pvIdx => LineDone(rootMoves[i])
  /\ pc \in {"guard", "deliver"} /\ ~stopFlag => LineDone(rootMoves[pvIdx])
  /\ (pc = "close" \/ (pc = "iterate" /\ rootDepth > 0)) /\ ~stopFlag =>
       \A i \in 1 .. MultiPV : LineDone(rootMoves[i])

LossesProven ==
  /\ pc = "deliver" /\ pvIdx > 1 => Trusted(rootMoves[pvIdx])
  /\ pc = "close" /\ pvIdx > 1 => \A i \in 1 .. MultiPV : i <= pvIdx => Trusted(rootMoves[i])
  /\ pc \in {"iterate", "done"} => \A i \in 1 .. MultiPV : i <= pvIdx => Trusted(rootMoves[i])
  /\ pc = "close" /\ pvIdx = 1 => stopFlag

SavedExact(rm) ==
  rm.previousScoreExact /\ rm.previousScore # -Infinite => rm.previousPV.complete

(* What is kept of the iterations before: scores that may be gone back to   *)
(* are those of lines that ran to their end.                                *)
Saved ==
  /\ rootDepth = 0 => pc \in {"iterate", "done"} /\ \A i \in 1 .. N : rootMoves[i].score = -Infinite
  /\ \A i \in 1 .. N : SavedExact(rootMoves[i])
  /\ lastBest # None => lastBest.pv.complete /\ rootMoves[1].score # -Infinite

(* The head of the line is searched first, and then has a score.            *)
HeadScored ==
  /\ pc = "search" => rootMoves[pvIdx].move \in todo \/ rootMoves[pvIdx].score # -Infinite
  /\ pc = "sort" /\ ~stopFlag /\ bestValue < beta => rootMoves[pvIdx].score # -Infinite

(* The lines before are in order, and a head that a stop left behind them   *)
(* does not overtake a loss.                                                *)
LinesPlaced ==
  /\ pc \in {"line", "search", "sort", "guard", "deliver"} => Placed(rootMoves, pvFirst, pvIdx - 1)
  /\ pc = "deliver" /\ pvIdx > 1 /\ IsLoss(rootMoves[pvIdx - 1].score) /\ ~rootMoves[pvIdx].pv.complete
       => ~Precedes(rootMoves[pvIdx], rootMoves[pvIdx - 1])

LineInv == LinesDone /\ LossesProven /\ Saved /\ HeadScored /\ LinesPlaced

LEMMA LineInit == Init => LineInv
<1> SUFFICES ASSUME Init PROVE LineInv
  OBVIOUS
<1>1. PICK order \in [1 .. N -> Moves], ranks \in TBRanks :
        rootMoves = [i \in DOMAIN order |-> NewMove(order[i], ranks[i])]
  BY DEF Init, N
<1>2. \A i \in 1 .. N : rootMoves[i] = NewMove(order[i], ranks[i])
  BY <1>1
<1>3. ASSUME NEW i \in 1 .. N
      PROVE  rootMoves[i].score = -Infinite /\ rootMoves[i].previousScore = -Infinite
  <2>1. rootMoves[i] = NewMove(order[i], ranks[i])
    BY <1>2
  <2> QED BY <2>1 DEF NewMove
<1>4. lastBest = None /\ pc = "iterate" /\ rootDepth = 0
  BY DEF Init
<1>5. \A i \in 1 .. MultiPV : i \in 1 .. N
  BY NType, LinesAssumption DEF N
<1>6. \A i \in 1 .. MultiPV : Trusted(rootMoves[i])
  BY <1>3, <1>5 DEF Trusted, IsExactLoss, IsExact
<1> QED BY <1>3, <1>4, <1>6
     DEF LineInv, LinesDone, LossesProven, Saved, SavedExact, HeadScored, LinesPlaced

LEMMA LineStartIteration == IInv /\ LineInv /\ StartIteration => LineInv'
<1> SUFFICES ASSUME IInv, LineInv, StartIteration PROVE LineInv'
  OBVIOUS
<1>1. WholeList(rootMoves) /\ DOMAIN rootMoves = 1 .. N /\ 1 \in 1 .. N
  BY NType DEF IInv, ListInv, WholeList
<1>2. /\ pc = "iterate" /\ ~stopFlag /\ UNCHANGED <<lastBest, stopFlag>>
      /\ pc' = "line" /\ pvIdx' = 1 /\ pvFirst' = 1 /\ rootDepth' = rootDepth + 1
      /\ rootDepth \in Nat
  BY LinesAssumption DEF StartIteration, IInv, Scalars
<1>3. ASSUME NEW i \in 1 .. N
      PROVE  /\ rootMoves'[i].score = rootMoves[i].score
             /\ rootMoves'[i].previousScore = rootMoves[i].score
             /\ rootMoves'[i].previousPV = rootMoves[i].pv
             /\ rootMoves'[i].previousScoreExact = (i <= MultiPV)
  <2> DEFINE rm == rootMoves[i]
             new == rootMoves'[i]
  <2>1. new = WithPrevious(rm, i) /\ rm \in RootMove
    BY <1>1 DEF StartIteration, WholeList
  <2> HIDE DEF rm, new
  <2>2. /\ new.score = rm.score /\ new.previousScore = rm.score /\ new.previousPV = rm.pv
        /\ new.previousScoreExact = (i <= MultiPV)
    BY <2>1, Fields DEF WithPrevious
  <2> QED BY <2>2 DEF rm, new
<1>4. ASSUME NEW i \in 1 .. N PROVE SavedExact(rootMoves'[i])
  <2> SUFFICES ASSUME i <= MultiPV, rootMoves[i].score # -Infinite
               PROVE  rootMoves[i].pv.complete
    BY <1>3 DEF SavedExact
  <2>1. rootDepth > 0
    BY <1>2 DEF LineInv, Saved
  <2>2. i \in 1 .. MultiPV
    BY LinesAssumption
  <2> QED BY <1>2, <2>1, <2>2 DEF LineInv, LinesDone, LineDone
<1>5. Saved'
  BY <1>1, <1>2, <1>3, <1>4 DEF LineInv, Saved
<1>6. LinesDone'
  BY <1>2 DEF LinesDone
<1>7. LinesPlaced'
  BY <1>2 DEF LinesPlaced, Placed
<1> QED BY <1>2, <1>5, <1>6, <1>7 DEF LineInv, LossesProven, HeadScored

LEMMA LineStartLine == IInv /\ LineInv /\ StartLine => LineInv'
<1> SUFFICES ASSUME IInv, LineInv, StartLine PROVE LineInv'
  OBVIOUS
<1>1. /\ pc = "line" /\ pc' = "search"
      /\ UNCHANGED <<rootMoves, rootDepth, pvIdx, lastBest, stopFlag>>
      /\ pvFirst' = pvIdx \/ pvFirst' = pvFirst
      /\ todo' = {rootMoves'[i].move : i \in pvIdx .. pvLast'}
  BY DEF StartLine, BeginSearch
<1>2. pvIdx' \in Nat /\ Places'
  BY IInvNext, LinesAssumption DEF IInv, Places, Next
<1>3. pvIdx \in pvIdx .. pvLast'
  <2>1. pvIdx <= pvLast' /\ pvLast' \in Nat
    <3>1. IInv'
      BY IInvNext DEF Next
    <3> QED BY <1>1, <3>1, NType DEF IInv, Places, ListInv
  <2> QED BY <1>1, <1>2, <2>1
<1>4. rootMoves'[pvIdx'].move \in todo'
  BY <1>1, <1>3
<1>5. Placed(rootMoves', pvFirst', pvIdx' - 1)
  <2>1. CASE pvFirst' = pvIdx
    BY <1>1, <1>2, <2>1 DEF Placed
  <2>2. CASE pvFirst' = pvFirst
    BY <1>1, <2>2 DEF LineInv, LinesPlaced
  <2> QED BY <1>1, <2>1, <2>2
<1> QED BY <1>1, <1>4, <1>5
     DEF LineInv, LinesDone, LossesProven, Saved, HeadScored, LinesPlaced

(* What the search of one move does to the list: it rewrites that move, and *)
(* the head of the line, searched first, is given the value.                *)
SearchedAt(at, done, v) ==
  /\ at \in pvIdx .. pvLast /\ at \in 1 .. N
  /\ rootMoves' = [rootMoves EXCEPT ![at] = done]
  /\ done.move = rootMoves[at].move
  /\ done.previousScore = rootMoves[at].previousScore
  /\ done.previousScoreExact = rootMoves[at].previousScoreExact
  /\ done.previousPV = rootMoves[at].previousPV
  /\ done.score = v \/ done.score = -Infinite
  /\ at = pvIdx => done.score = v
  /\ rootMoves[pvIdx].move \in todo => at = pvIdx
  /\ todo' \subseteq todo \ {rootMoves[at].move}
  /\ pc' = "sort" => todo' = {}

LEMMA SearchMoveShape ==
  ASSUME IInv, NEW m \in Moves, NEW v \in Values, SearchMove(m, v)
  PROVE  \E at, done : SearchedAt(at, done, v)
<1> DEFINE first == Cardinality(todo) = pvLast - pvIdx + 1
           left  == IF v > low /\ v >= beta THEN {} ELSE todo \ {m}
           at    == IndexOf(m)
           rm    == rootMoves[at]
           after == AfterMove(rm, v, first)
<1>1. /\ WholeList(rootMoves) /\ DOMAIN rootMoves = 1 .. N
      /\ pvIdx \in 1 .. N /\ pvLast \in pvIdx .. N /\ pvIdx \in Nat /\ pvLast \in Nat /\ N \in Nat
  BY NType, LinesAssumption DEF IInv, ListInv, WholeList, Places, SearchMove, N
<1>2. /\ pc = "search" /\ m \in todo /\ (first => m = rootMoves[pvIdx].move)
      /\ todo' = left /\ (pc' = "sort" => left = {})
  BY DEF SearchMove
<1>3. PICK average \in Averages(rm, v) :
        rootMoves' = [rootMoves EXCEPT ![at] = [after EXCEPT !.averageScore = average]]
  BY DEF SearchMove
<1>4. at \in pvIdx .. pvLast /\ at \in 1 .. N /\ rm.move = m
  <2>1. PICK i \in pvIdx .. pvLast : rootMoves[i].move = m
    BY <1>2 DEF IInv, SearchInv, Segment
  <2>2. i \in 1 .. N
    BY <1>1
  <2>3. at \in DOMAIN rootMoves /\ rootMoves[at].move = m
    BY <1>1, <2>1, <2>2 DEF IndexOf
  <2>4. at = i
    BY <1>1, <2>1, <2>2, <2>3 DEF WholeList
  <2> QED BY <2>1, <2>2, <2>3, <2>4
<1>5. rm \in RootMove
  BY <1>1, <1>4 DEF WholeList
<1> DEFINE done == [after EXCEPT !.averageScore = average]
<1> HIDE DEF at, rm, first
<1>6. /\ done.move = rm.move /\ done.previousScore = rm.previousScore
      /\ done.previousScoreExact = rm.previousScoreExact /\ done.previousPV = rm.previousPV
      /\ done.score = v \/ (~first /\ done.score = -Infinite)
  <2>1. CASE first \/ v > low
    <3> DEFINE shown == IF v >= beta THEN beta ELSE IF v <= low THEN low ELSE v
               lower == v >= beta
               upper == v < beta /\ v <= low
               line  == [of |-> v, inside |-> low < v /\ v < beta, complete |-> FALSE]
    <3>1. after = [rm EXCEPT !.score = v, !.uciScore = shown, !.inexactLower = lower,
                             !.inexactUpper = upper, !.pv = line]
      BY <2>1 DEF AfterMove, Rescored
    <3> HIDE DEF shown, lower, upper, line
    <3> QED BY <1>5, <3>1, Fields
  <2>2. CASE ~(first \/ v > low)
    <3>1. after = [rm EXCEPT !.score = -Infinite, !.pv = Bare]
      BY <2>2 DEF AfterMove
    <3> QED BY <1>5, <2>2, <3>1, Fields
  <2> QED BY <2>1, <2>2
<1> HIDE DEF after, done
<1>7. rootMoves' = [rootMoves EXCEPT ![at] = done]
  BY <1>3 DEF done
<1>8. at = pvIdx => first
  <2> SUFFICES ASSUME at = pvIdx PROVE first
    OBVIOUS
  <2>1. rootMoves[pvIdx].move \in todo
    BY <1>2, <1>4 DEF rm
  <2>2. todo = Segment(rootMoves, pvIdx, pvLast)
    BY <1>2, <2>1 DEF IInv, SearchInv
  <2> QED BY <1>1, <2>2, SegmentSize DEF first
<1>9. rootMoves[pvIdx].move \in todo => at = pvIdx
  <2> SUFFICES ASSUME rootMoves[pvIdx].move \in todo PROVE at = pvIdx
    OBVIOUS
  <2>1. todo = Segment(rootMoves, pvIdx, pvLast)
    BY <1>2 DEF IInv, SearchInv
  <2>2. first
    BY <1>1, <2>1, SegmentSize DEF first
  <2>3. rootMoves[at].move = rootMoves[pvIdx].move
    BY <1>2, <1>4, <2>2 DEF rm
  <2> QED BY <1>1, <1>4, <2>3 DEF WholeList
<1>10. todo' \subseteq todo \ {rootMoves[at].move}
  BY <1>2, <1>4 DEF rm
<1>11. SearchedAt(at, done, v)
  BY <1>2, <1>4, <1>6, <1>7, <1>8, <1>9, <1>10 DEF SearchedAt, rm
<1> QED BY <1>11

LEMMA LineSearchMove ==
  ASSUME IInv, LineInv, NEW m \in Moves, NEW v \in Values, SearchMove(m, v)
  PROVE  LineInv'
<1>1. /\ pc = "search" /\ ~stopFlag /\ pc' \in {"search", "sort"}
      /\ UNCHANGED <<rootDepth, pvIdx, pvFirst, pvLast, lastBest, stopFlag>>
      /\ pvIdx \in 1 .. N /\ pvIdx \in Nat /\ pvFirst \in 1 .. N /\ pvFirst \in Nat /\ N \in Nat
  BY NType, LinesAssumption DEF SearchMove, lines, IInv, ListInv, Places, N
<1>2. PICK at, done : SearchedAt(at, done, v)
  BY SearchMoveShape
<1>3. at \in 1 .. N /\ at \in Nat /\ pvIdx <= at
  BY <1>1, <1>2 DEF SearchedAt
<1>4. \A i \in 1 .. N : rootMoves'[i] = IF i = at THEN done ELSE rootMoves[i]
  BY <1>2 DEF IInv, ListInv, WholeList, SearchedAt
<1>5. v # -Infinite
  BY ValuesAreEvals
<1>6. LinesDone'
  BY <1>1, <1>3, <1>4 DEF LineInv, LinesDone
<1>7. Saved'
  <2>1. \A i \in 1 .. N : SavedExact(rootMoves'[i])
    BY <1>2, <1>4 DEF LineInv, Saved, SavedExact, SearchedAt
  <2>2. rootMoves[1].score # -Infinite => rootMoves'[1].score # -Infinite
    <3>1. 1 \in 1 .. N
      BY NType
    <3>2. at = 1 => done.score = v
      BY <1>1, <1>2, <1>3 DEF SearchedAt
    <3> QED BY <1>4, <1>5, <3>1, <3>2
  <2> QED BY <1>1, <2>1, <2>2 DEF LineInv, Saved
<1>8. HeadScored'
  <2>1. rootMoves'[pvIdx].score # -Infinite
    <3>1. CASE at = pvIdx
      BY <1>1, <1>2, <1>4, <1>5, <3>1 DEF SearchedAt
    <3>2. CASE at # pvIdx
      <4>1. rootMoves[pvIdx].move \notin todo
        BY <1>2, <3>2 DEF SearchedAt
      <4> QED BY <1>1, <1>4, <3>2, <4>1 DEF LineInv, HeadScored
    <3> QED BY <3>1, <3>2
  <2> QED BY <1>1, <2>1 DEF HeadScored
<1>9. LinesPlaced'
  <2>1. \A i \in pvFirst .. pvIdx - 1 : i \in 1 .. N /\ i < pvIdx
    BY <1>1
  <2>2. ASSUME NEW i \in pvFirst .. pvIdx - 1 PROVE rootMoves'[i] = rootMoves[i]
    <3>1. i \in 1 .. N /\ i < pvIdx
      BY <2>1
    <3>2. i # at
      BY <1>1, <1>3, <3>1
    <3> QED BY <1>4, <3>1, <3>2
  <2>3. Placed(rootMoves, pvFirst, pvIdx - 1)
    BY <1>1 DEF LineInv, LinesPlaced
  <2> QED BY <1>1, <2>2, <2>3 DEF LinesPlaced, Placed
<1> QED BY <1>1, <1>6, <1>7, <1>8, <1>9 DEF LineInv, LossesProven

(* Sorting moves the places of a part among themselves and keeps the rest.  *)
LEMMA SortedShape ==
  ASSUME NEW l, WholeList(l), NEW first \in 1 .. N, NEW last \in first .. N
  PROVE  /\ \A i \in 1 .. N : i \notin first .. last => Sorted(l, first, last)[i] = l[i]
         /\ \A i \in first .. last : \E j \in first .. last : Sorted(l, first, last)[i] = l[j]
         /\ l[first].score # -Infinite => Sorted(l, first, last)[first].score # -Infinite
         /\ Placed(Sorted(l, first, last), first, last)
<1> DEFINE k == Sorted(l, first, last)
<1>1. l \in [1 .. N -> RootMove] /\ first \in first .. last /\ first .. last \subseteq 1 .. N
  BY NType DEF WholeList
<1>2. PICK p \in [1 .. N -> 1 .. N] :
        /\ \A i \in 1 .. N : k[i] = l[p[i]]
        /\ \A i \in 1 .. N : IF i \in first .. last THEN p[i] \in first .. last ELSE p[i] = i
        /\ \A i, j \in 1 .. N : p[i] = p[j] => i = j
        /\ \A j \in 1 .. N : \E i \in 1 .. N : p[i] = j
        /\ l[p[first]].score >= l[first].score
  BY <1>1, SortedPermutes
<1>3. Placed(k, first, last)
  BY <1>1, SortedPermutes
<1> HIDE DEF k
<1>4. l[first].score # -Infinite => k[first].score # -Infinite
  <2>1. l[first] \in RootMove /\ l[p[first]] \in RootMove /\ k[first] = l[p[first]]
    BY <1>1, <1>2
  <2>2. l[first].score \in Int /\ l[p[first]].score \in Int /\ l[first].score >= -Infinite
    BY <2>1, Scores
  <2> QED BY <1>2, <2>1, <2>2, ValuesAssumption
<1>5. \A i \in 1 .. N : i \notin first .. last => k[i] = l[i]
  BY <1>2
<1>6. \A i \in first .. last : \E j \in first .. last : k[i] = l[j]
  BY <1>1, <1>2
<1> QED BY <1>3, <1>4, <1>5, <1>6 DEF k

LEMMA LineJudgeWindow == IInv /\ LineInv /\ JudgeWindow => LineInv'
<1> SUFFICES ASSUME IInv, LineInv, JudgeWindow PROVE LineInv'
  OBVIOUS
<1> DEFINE sorted == Sorted(rootMoves, pvIdx, pvLast)
<1>1. /\ WholeList(rootMoves) /\ N \in Nat /\ pc = "sort" /\ pc' \in {"search", "guard"}
      /\ pvIdx \in 1 .. N /\ pvLast \in pvIdx .. N /\ pvFirst \in 1 .. N
      /\ pvIdx \in Nat /\ pvLast \in Nat /\ pvFirst \in Nat
      /\ UNCHANGED <<rootDepth, pvIdx, pvFirst, pvLast, lastBest, stopFlag>>
  BY NType, LinesAssumption
     DEF IInv, ListInv, Places, JudgeWindow, lines, BeginSearch, EndSearch, N
<1>2. /\ \A i \in 1 .. N : i \notin pvIdx .. pvLast => sorted[i] = rootMoves[i]
      /\ \A i \in pvIdx .. pvLast : \E j \in pvIdx .. pvLast : sorted[i] = rootMoves[j]
      /\ rootMoves[pvIdx].score # -Infinite => sorted[pvIdx].score # -Infinite
  BY <1>1, SortedShape
<1>3. sorted \in [1 .. N -> RootMove]
  BY <1>1, SortedPermutes DEF WholeList
<1>4. \/ rootMoves' = sorted /\ (pc' = "guard" => stopFlag)
      \/ /\ rootMoves' = [sorted EXCEPT ![pvIdx].pv.complete = TRUE] /\ pc' = "guard" /\ ~stopFlag
         /\ ~(bestValue >= beta)
  BY DEF JudgeWindow, BeginSearch, EndSearch
<1>5. pc' = "search" => rootMoves'[pvIdx].move \in todo'
  <2> SUFFICES ASSUME pc' = "search" PROVE rootMoves'[pvIdx].move \in todo'
    OBVIOUS
  <2>1. todo' = {rootMoves'[i].move : i \in pvIdx .. pvLast'}
    BY DEF JudgeWindow, BeginSearch, EndSearch
  <2>2. pvIdx \in pvIdx .. pvLast'
    BY <1>1
  <2> QED BY <2>1, <2>2
<1> HIDE DEF sorted
<1>6. /\ \A i \in 1 .. N : i # pvIdx => rootMoves'[i] = sorted[i]
      /\ rootMoves'[pvIdx].score = sorted[pvIdx].score
      /\ rootMoves'[pvIdx].previousScore = sorted[pvIdx].previousScore
      /\ rootMoves'[pvIdx].previousScoreExact = sorted[pvIdx].previousScoreExact
      /\ rootMoves'[pvIdx].previousPV = sorted[pvIdx].previousPV
      /\ pc' = "guard" /\ ~stopFlag => rootMoves'[pvIdx].pv.complete
  <2>1. CASE rootMoves' = sorted /\ (pc' = "guard" => stopFlag)
    BY <2>1
  <2>2. CASE rootMoves' = [sorted EXCEPT ![pvIdx].pv.complete = TRUE]
    <3> DEFINE line == [sorted[pvIdx].pv EXCEPT !.complete = TRUE]
    <3>1. sorted[pvIdx] \in RootMove
      BY <1>1, <1>3
    <3>2. line.complete
      <4>1. sorted[pvIdx].pv \in Line
        BY <3>1, Fields
      <4> QED BY <4>1 DEF Line
    <3>3. \A i \in 1 .. N : rootMoves'[i] = IF i = pvIdx THEN [sorted[pvIdx] EXCEPT !.pv = line] ELSE sorted[i]
      BY <1>1, <1>3, <2>2
    <3> HIDE DEF line
    <3>4. rootMoves'[pvIdx] = [sorted[pvIdx] EXCEPT !.pv = line]
      BY <1>1, <3>3
    <3> QED BY <3>1, <3>2, <3>3, <3>4, Fields
  <2> QED BY <1>4, <2>1, <2>2
<1>7. ASSUME NEW i \in 1 .. N, i < pvIdx PROVE rootMoves'[i] = rootMoves[i]
  <2>1. i # pvIdx /\ i \notin pvIdx .. pvLast
    BY <1>1, <1>7
  <2> QED BY <1>2, <1>6, <2>1
<1>8. LinesDone'
  <2>1. pc' = "guard" /\ ~stopFlag => LineDone(rootMoves'[pvIdx])
    <3>1. pc' = "guard" /\ ~stopFlag => bestValue < beta
      BY <1>4, ValuesAreEvals DEF IInv, Scalars, Eval
    <3>2. pc' = "guard" /\ ~stopFlag => rootMoves[pvIdx].score # -Infinite
      BY <1>1, <3>1 DEF LineInv, HeadScored
    <3> QED BY <1>2, <1>6, <3>2 DEF LineDone
  <2>2. \A i \in 1 .. N : i < pvIdx => LineDone(rootMoves'[i])
    BY <1>1, <1>7 DEF LineInv, LinesDone
  <2> QED BY <1>1, <2>1, <2>2 DEF LinesDone
<1>9. Saved'
  <2>1. ASSUME NEW i \in 1 .. N PROVE SavedExact(rootMoves'[i])
    <3>1. PICK j \in 1 .. N : sorted[i] = rootMoves[j]
      <4>1. CASE i \in pvIdx .. pvLast
        <5>1. PICK j \in pvIdx .. pvLast : sorted[i] = rootMoves[j]
          BY <1>2, <4>1
        <5> QED BY <1>1, <5>1
      <4>2. CASE i \notin pvIdx .. pvLast
        BY <1>2, <4>2
      <4> QED BY <4>1, <4>2
    <3>2. SavedExact(sorted[i])
      BY <3>1 DEF LineInv, Saved
    <3>3. i = pvIdx \/ rootMoves'[i] = sorted[i]
      BY <1>6
    <3> QED BY <1>6, <3>2, <3>3 DEF SavedExact
  <2>2. rootMoves[1].score # -Infinite => rootMoves'[1].score # -Infinite
    <3>1. CASE pvIdx = 1
      BY <1>2, <1>6, <3>1
    <3>2. CASE pvIdx > 1
      <4>1. 1 \in 1 .. N
        BY <1>1
      <4> QED BY <1>7, <3>2, <4>1
    <3> QED BY <1>1, <3>1, <3>2
  <2> QED BY <1>1, <2>1, <2>2 DEF LineInv, Saved
<1>10. LinesPlaced'
  <2>1. ASSUME NEW i \in pvFirst .. pvIdx - 1 PROVE rootMoves'[i] = rootMoves[i]
    <3>1. i \in 1 .. N /\ i < pvIdx
      BY <1>1
    <3> QED BY <1>7, <3>1
  <2>2. Placed(rootMoves, pvFirst, pvIdx - 1)
    BY <1>1 DEF LineInv, LinesPlaced
  <2> QED BY <1>1, <2>1, <2>2 DEF LinesPlaced, Placed
<1>11. HeadScored'
  BY <1>1, <1>5 DEF HeadScored
<1> QED BY <1>1, <1>8, <1>9, <1>10, <1>11 DEF LineInv, LossesProven

(* The head of an aborted line is left with no loss that did not run to its *)
(* end, and does not precede a loss before it.                              *)
LEMMA ProtectedIsSafe ==
  ASSUME NEW rm \in RootMove, SavedExact(rm), NEW before \in RootMove
  PROVE  /\ Trusted(Protected(rm, before)) /\ SavedExact(Protected(rm, before))
         /\ IsLoss(before.score) => ~Precedes(Protected(rm, before), before)
         /\ rm.score # -Infinite /\ before.score # -Infinite => Protected(rm, before).score # -Infinite
<1> DEFINE kept == [rm EXCEPT !.score = rm.previousScore, !.uciScore = rm.previousScore,
                              !.previousScore = -Infinite, !.pv = rm.previousPV,
                              !.inexactLower = FALSE, !.inexactUpper = FALSE]
           held == [rm EXCEPT !.score = before.score, !.uciScore = before.score,
                              !.previousScore = -Infinite, !.pv = Bare,
                              !.inexactUpper = TRUE, !.inexactLower = FALSE]
           bound == [rm EXCEPT !.inexactUpper = FALSE, !.inexactLower = TRUE]
<1>1. \/ Protected(rm, before) = rm /\ ~OvertakesLoss(rm, before) /\ ~IsExactLoss(rm)
      \/ Protected(rm, before) = kept /\ PreviousIsSafe(rm, before)
      \/ Protected(rm, before) = held
      \/ Protected(rm, before) = bound /\ ~IsLoss(before.score)
  BY DEF Protected
<1>2. /\ kept.score = rm.previousScore /\ kept.previousScore = -Infinite /\ kept.pv = rm.previousPV
      /\ held.score = before.score /\ held.previousScore = -Infinite /\ held.inexactUpper
      /\ bound.inexactLower /\ bound.score = rm.score
      /\ bound.previousScore = rm.previousScore /\ bound.previousPV = rm.previousPV
      /\ bound.previousScoreExact = rm.previousScoreExact
  BY Fields
<1>3. /\ before.score \in Int /\ before.previousScore \in Int /\ rm.previousScore \in Int
      /\ before.previousScore >= -Infinite
  <2>1. before.previousScore \in Eval
    BY Fields
  <2> QED BY <2>1, Scores, ValuesAreEvals DEF Eval
<1> HIDE DEF kept, held, bound
<1>4. CASE Protected(rm, before) = rm /\ ~OvertakesLoss(rm, before) /\ ~IsExactLoss(rm)
  BY <1>4 DEF Trusted, OvertakesLoss
<1>5. CASE Protected(rm, before) = kept /\ PreviousIsSafe(rm, before)
  <2>1. kept.pv.complete /\ kept.score <= before.score /\ kept.score # -Infinite
    BY <1>2, <1>5 DEF PreviousIsSafe, SavedExact
  <2>2. ~Precedes(kept, before)
    BY <1>2, <1>3, <2>1, ValuesAssumption DEF Precedes
  <2> QED BY <1>2, <1>5, <2>1, <2>2 DEF Trusted, SavedExact
<1>6. CASE Protected(rm, before) = held
  <2>1. ~Precedes(held, before)
    BY <1>2, <1>3, ValuesAssumption DEF Precedes
  <2>2. Trusted(held)
    BY <1>2 DEF Trusted, IsExactLoss, IsExact, IsInexact
  <2> QED BY <1>2, <1>6, <2>1, <2>2 DEF SavedExact
<1>7. CASE Protected(rm, before) = bound /\ ~IsLoss(before.score)
  <2>1. Trusted(bound)
    BY <1>2 DEF Trusted, IsExactLoss, IsExact, IsInexact
  <2> QED BY <1>2, <1>7, <2>1 DEF SavedExact
<1> QED BY <1>1, <1>4, <1>5, <1>6, <1>7

(* Marking a move as a bound changes nothing else.                          *)
LEMMA MarkedFields ==
  ASSUME NEW rm \in RootMove
  PROVE  /\ [rm EXCEPT !.inexactLower = TRUE].inexactLower
         /\ [rm EXCEPT !.inexactLower = TRUE].score = rm.score
         /\ [rm EXCEPT !.inexactLower = TRUE].move = rm.move
         /\ [rm EXCEPT !.inexactLower = TRUE].pv = rm.pv
         /\ [rm EXCEPT !.inexactLower = TRUE].previousScore = rm.previousScore
         /\ [rm EXCEPT !.inexactLower = TRUE].previousScoreExact = rm.previousScoreExact
         /\ [rm EXCEPT !.inexactLower = TRUE].previousPV = rm.previousPV
BY Fields

LEMMA LineGuardLine == IInv /\ LineInv /\ GuardLine => LineInv'
<1> SUFFICES ASSUME IInv, LineInv, GuardLine PROVE LineInv'
  OBVIOUS
<1>1. /\ WholeList(rootMoves) /\ DOMAIN rootMoves = 1 .. N /\ N \in Nat
      /\ pc = "guard" /\ pc' = "deliver" /\ stopFlag \in BOOLEAN
      /\ pvIdx \in 1 .. N /\ pvIdx \in Nat /\ pvFirst \in 1 .. N /\ pvFirst \in Nat
      /\ UNCHANGED <<rootDepth, pvIdx, pvFirst, pvLast, lastBest, stopFlag>>
  BY NType, LinesAssumption DEF IInv, ListInv, WholeList, Scalars, Places, GuardLine, lines, N
<1>2. CASE ~(stopFlag /\ pvIdx > 1)
  <2>1. rootMoves' = rootMoves
    BY <1>2 DEF GuardLine
  <2>2. pvIdx > 1 => LineDone(rootMoves[pvIdx])
    BY <1>1, <1>2 DEF LineInv, LinesDone
  <2>3. LinesDone' /\ Saved'
    BY <1>1, <2>1 DEF LineInv, LinesDone, Saved
  <2>4. LossesProven'
    BY <1>1, <2>1, <2>2 DEF LossesProven, LineDone, Trusted
  <2>5. LinesPlaced'
    BY <1>1, <2>1, <2>2 DEF LineInv, LinesPlaced, LineDone
  <2> QED BY <1>1, <2>3, <2>4, <2>5 DEF LineInv, HeadScored
<1>3. CASE stopFlag /\ pvIdx > 1
  <2>1. /\ pvIdx - 1 \in 1 .. N
        /\ rootMoves[pvIdx] \in RootMove /\ rootMoves[pvIdx - 1] \in RootMove
    BY <1>1, <1>3 DEF WholeList
  <2>2. \A i \in 1 .. N : rootMoves'[i] =
          IF i = pvIdx THEN Protected(rootMoves[i], rootMoves[i - 1])
          ELSE IF i \in pvIdx + 1 .. MultiPV /\ IsExactLoss(rootMoves[i])
          THEN [rootMoves[i] EXCEPT !.inexactLower = TRUE]
          ELSE rootMoves[i]
    BY <1>1, <1>3 DEF GuardLine
  <2>3. rootMoves'[pvIdx] = Protected(rootMoves[pvIdx], rootMoves[pvIdx - 1])
    BY <1>1, <2>2
  <2>4. ASSUME NEW i \in 1 .. N, i < pvIdx PROVE rootMoves'[i] = rootMoves[i]
    <3>1. i # pvIdx /\ i \notin pvIdx + 1 .. MultiPV
      BY <1>1, <2>4, LinesAssumption
    <3> QED BY <2>2, <3>1
  <2>5. /\ Trusted(rootMoves'[pvIdx]) /\ SavedExact(rootMoves'[pvIdx])
        /\ IsLoss(rootMoves[pvIdx - 1].score) => ~Precedes(rootMoves'[pvIdx], rootMoves[pvIdx - 1])
    <3>1. SavedExact(rootMoves[pvIdx])
      BY <1>1 DEF LineInv, Saved
    <3> QED BY <2>1, <2>3, <3>1, ProtectedIsSafe
  <2>6. rootMoves'[pvIdx - 1] = rootMoves[pvIdx - 1]
    BY <1>1, <2>1, <2>4
  <2>7. LinesDone'
    BY <1>1, <1>3, <2>4 DEF LineInv, LinesDone
  <2>8. LossesProven'
    BY <1>1, <2>5 DEF LossesProven
  <2>9. Saved'
    <3>1. ASSUME NEW i \in 1 .. N PROVE SavedExact(rootMoves'[i])
      <4>1. rootMoves[i] \in RootMove /\ SavedExact(rootMoves[i])
        BY <1>1 DEF WholeList, LineInv, Saved
      <4>2. SavedExact([rootMoves[i] EXCEPT !.inexactLower = TRUE])
        BY <4>1, MarkedFields DEF SavedExact
      <4> QED BY <2>2, <2>5, <4>1, <4>2
    <3>2. rootMoves'[1] = rootMoves[1]
      BY <1>1, <1>3, <2>4
    <3> QED BY <1>1, <3>1, <3>2 DEF LineInv, Saved
  <2>10. LinesPlaced'
    <3>1. ASSUME NEW i \in pvFirst .. pvIdx - 1 PROVE rootMoves'[i] = rootMoves[i]
      <4>1. i \in 1 .. N /\ i < pvIdx
        BY <1>1
      <4> QED BY <2>4, <4>1
    <3>2. Placed(rootMoves, pvFirst, pvIdx - 1)
      BY <1>1 DEF LineInv, LinesPlaced
    <3>3. Placed(rootMoves', pvFirst, pvIdx - 1)
      BY <3>1, <3>2 DEF Placed
    <3> QED BY <1>1, <2>5, <2>6, <3>3 DEF LinesPlaced
  <2> QED BY <1>1, <2>7, <2>8, <2>9, <2>10 DEF LineInv, HeadScored
<1> QED BY <1>2, <1>3

LEMMA LineDeliverLine == IInv /\ LineInv /\ DeliverLine => LineInv'
<1> SUFFICES ASSUME IInv, LineInv, DeliverLine PROVE LineInv'
  OBVIOUS
<1>1. /\ WholeList(rootMoves) /\ N \in Nat /\ pc = "deliver" /\ stopFlag \in BOOLEAN
      /\ pvFirst \in 1 .. N /\ pvIdx \in pvFirst .. N /\ pvIdx \in 1 .. N
      /\ pvFirst \in Nat /\ pvIdx \in Nat /\ pvIdx <= MultiPV /\ MultiPV \in Nat /\ MultiPV <= N
      /\ UNCHANGED <<rootDepth, pvFirst, pvLast, lastBest, stopFlag>>
      /\ rootMoves' = Sorted(rootMoves, pvFirst, pvIdx)
      /\ IF stopFlag THEN pvIdx' = pvIdx /\ pc' = "close"
         ELSE pvIdx' = pvIdx + 1 /\ pc' = IF pvIdx = MultiPV THEN "close" ELSE "line"
  BY NType, LinesAssumption DEF IInv, ListInv, Scalars, Places, DeliverLine, N
<1>2. /\ \A i \in 1 .. N : i \notin pvFirst .. pvIdx => rootMoves'[i] = rootMoves[i]
      /\ \A i \in pvFirst .. pvIdx : \E j \in pvFirst .. pvIdx : rootMoves'[i] = rootMoves[j]
      /\ rootMoves[pvFirst].score # -Infinite => rootMoves'[pvFirst].score # -Infinite
      /\ Placed(rootMoves', pvFirst, pvIdx)
  BY <1>1, SortedShape
<1>3. ASSUME NEW i \in 1 .. N, i <= pvIdx
      PROVE  \E j \in 1 .. N : j <= pvIdx /\ rootMoves'[i] = rootMoves[j]
  <2>1. CASE i \in pvFirst .. pvIdx
    <3>1. PICK j \in pvFirst .. pvIdx : rootMoves'[i] = rootMoves[j]
      BY <1>2, <2>1
    <3>2. j \in 1 .. N /\ j <= pvIdx
      BY <1>1
    <3> QED BY <3>1, <3>2
  <2>2. CASE i \notin pvFirst .. pvIdx
    BY <1>2, <1>3, <2>2
  <2> QED BY <2>1, <2>2
<1>4. \A j \in 1 .. N : j < pvIdx => LineDone(rootMoves[j])
  BY <1>1 DEF LineInv, LinesDone
<1>5. ~stopFlag => \A i \in 1 .. N : i <= pvIdx => LineDone(rootMoves'[i])
  <2> SUFFICES ASSUME ~stopFlag, NEW i \in 1 .. N, i <= pvIdx PROVE LineDone(rootMoves'[i])
    OBVIOUS
  <2>1. PICK j \in 1 .. N : j <= pvIdx /\ rootMoves'[i] = rootMoves[j]
    BY <1>3
  <2>2. LineDone(rootMoves[pvIdx])
    BY <1>1 DEF LineInv, LinesDone
  <2>3. j < pvIdx \/ j = pvIdx
    BY <1>1, <2>1
  <2> QED BY <1>4, <2>1, <2>2, <2>3
<1>6. pvIdx > 1 => \A i \in 1 .. N : i <= pvIdx => Trusted(rootMoves'[i])
  <2> SUFFICES ASSUME pvIdx > 1, NEW i \in 1 .. N, i <= pvIdx PROVE Trusted(rootMoves'[i])
    OBVIOUS
  <2>1. PICK j \in 1 .. N : j <= pvIdx /\ rootMoves'[i] = rootMoves[j]
    BY <1>3
  <2>2. Trusted(rootMoves[pvIdx])
    BY <1>1 DEF LineInv, LossesProven
  <2>3. j < pvIdx => Trusted(rootMoves[j])
    BY <1>4 DEF LineDone, Trusted
  <2>4. j < pvIdx \/ j = pvIdx
    BY <1>1, <2>1
  <2> QED BY <2>1, <2>2, <2>3, <2>4
<1>7. LinesDone'
  <2>1. CASE stopFlag
    BY <1>1, <2>1 DEF LinesDone
  <2>2. CASE ~stopFlag
    <3>1. \A i \in 1 .. N : i < pvIdx' => LineDone(rootMoves'[i])
      BY <1>1, <1>5, <2>2
    <3>2. pc' = "close" => \A i \in 1 .. MultiPV : LineDone(rootMoves'[i])
      BY <1>1, <1>5, <2>2
    <3>3. pc' \in {"close", "line"}
      BY <1>1, <2>2
    <3> QED BY <3>1, <3>2, <3>3 DEF LinesDone
  <2> QED BY <1>1, <2>1, <2>2
<1>8. LossesProven'
  <2>1. CASE stopFlag
    <3>1. pvIdx > 1 => \A i \in 1 .. MultiPV : i <= pvIdx => Trusted(rootMoves'[i])
      BY <1>1, <1>6
    <3> QED BY <1>1, <2>1, <3>1 DEF LossesProven
  <2>2. CASE ~stopFlag
    <3>1. pc' = "close" => \A i \in 1 .. MultiPV : Trusted(rootMoves'[i])
      BY <1>1, <1>5, <2>2 DEF LineDone, Trusted
    <3>2. pvIdx' # 1 /\ pc' \in {"close", "line"}
      BY <1>1, <2>2
    <3> QED BY <3>1, <3>2 DEF LossesProven
  <2> QED BY <1>1, <2>1, <2>2
<1>9. Saved'
  <2>1. ASSUME NEW i \in 1 .. N PROVE SavedExact(rootMoves'[i])
    <3>1. CASE i <= pvIdx
      BY <1>3, <3>1 DEF LineInv, Saved
    <3>2. CASE i > pvIdx
      <4>1. i \notin pvFirst .. pvIdx
        BY <1>1, <3>2
      <4> QED BY <1>2, <4>1 DEF LineInv, Saved
    <3> QED BY <1>1, <3>1, <3>2
  <2>2. rootMoves[1].score # -Infinite => rootMoves'[1].score # -Infinite
    <3>1. CASE pvFirst = 1
      BY <1>2, <3>1
    <3>2. CASE pvFirst > 1
      <4>1. 1 \in 1 .. N /\ 1 \notin pvFirst .. pvIdx
        BY <1>1, <3>2
      <4> QED BY <1>2, <4>1
    <3> QED BY <1>1, <3>1, <3>2
  <2> QED BY <1>1, <2>1, <2>2 DEF LineInv, Saved
<1>10. LinesPlaced'
  <2>1. pc' = "line" => pvIdx' - 1 = pvIdx
    BY <1>1
  <2>2. pc' \in {"close", "line"}
    BY <1>1
  <2> QED BY <1>1, <1>2, <2>1, <2>2 DEF LinesPlaced
<1>11. HeadScored'
  <2>1. pc' \in {"close", "line"}
    BY <1>1
  <2> QED BY <2>1 DEF HeadScored
<1> QED BY <1>7, <1>8, <1>9, <1>10, <1>11 DEF LineInv

(* A roll-back: the move is at the front as it was recorded, and the moves  *)
(* it passed are one place further back.                                    *)
LEMMA RolledBackShape ==
  ASSUME WholeList(rootMoves), NEW best \in [move : Moves, score : Values, pv : Line]
  PROVE  /\ RolledBack(best)[1].score = best.score /\ RolledBack(best)[1].pv = best.pv
         /\ ~IsInexact(RolledBack(best)[1])
         /\ \E j \in 1 .. N :
              /\ rootMoves[j].move = best.move /\ RolledBack(best)[1].move = best.move
              /\ RolledBack(best)[1].previousScore = rootMoves[j].previousScore
              /\ RolledBack(best)[1].previousScoreExact = rootMoves[j].previousScoreExact
              /\ RolledBack(best)[1].previousPV = rootMoves[j].previousPV
         /\ \A i \in 1 .. N :
              i > 1 => \E j \in {i - 1, i} : RolledBack(best)[i] = rootMoves[j]
<1> DEFINE l == rootMoves
           at == CHOOSE i \in DOMAIN l : l[i].move = best.move
           t == ToFront(l, best.move)
           done == [t[1] EXCEPT !.score = best.score, !.uciScore = best.score, !.pv = best.pv,
                                !.inexactLower = FALSE, !.inexactUpper = FALSE]
           back == RolledBack(best)
<1>1. DOMAIN l = 1 .. N /\ N \in Nat /\ 1 \in 1 .. N /\ best.move \in Moves
  BY NType DEF WholeList
<1>2. at \in 1 .. N /\ l[at].move = best.move
  <2>1. \E i \in DOMAIN l : l[i].move = best.move
    BY <1>1 DEF WholeList
  <2> QED BY <1>1, <2>1
<1>3. t = [i \in 1 .. N |-> IF i = 1 THEN l[at] ELSE IF i <= at THEN l[i - 1] ELSE l[i]]
  BY <1>1 DEF ToFront
<1> HIDE DEF at
<1>4. back = [t EXCEPT ![1].score = best.score, ![1].uciScore = best.score, ![1].pv = best.pv,
                       ![1].inexactLower = FALSE, ![1].inexactUpper = FALSE]
  BY DEF RolledBack
<1> HIDE DEF t, back
<1>5. t[1] = l[at] /\ DOMAIN t = 1 .. N /\ t[1] \in RootMove
  BY <1>1, <1>2, <1>3 DEF WholeList
<1>6. back = [t EXCEPT ![1] = done]
  BY <1>1, <1>4, <1>5
<1>7. /\ done.score = best.score /\ done.pv = best.pv /\ ~IsInexact(done)
      /\ done.move = t[1].move
      /\ done.previousScore = t[1].previousScore
      /\ done.previousScoreExact = t[1].previousScoreExact /\ done.previousPV = t[1].previousPV
  BY <1>5, Fields DEF IsInexact
<1> HIDE DEF done
<1>8. back[1] = done
  BY <1>1, <1>5, <1>6
<1>9. ASSUME NEW i \in 1 .. N, i > 1 PROVE \E j \in {i - 1, i} : back[i] = l[j]
  <2>1. back[i] = t[i]
    BY <1>5, <1>6, <1>9
  <2>2. t[i] = IF i <= at THEN l[i - 1] ELSE l[i]
    BY <1>3, <1>9
  <2> QED BY <2>1, <2>2
<1>10. /\ back[1].score = best.score /\ back[1].pv = best.pv /\ ~IsInexact(back[1])
       /\ \E j \in 1 .. N :
            /\ rootMoves[j].move = best.move /\ back[1].move = best.move
            /\ back[1].previousScore = rootMoves[j].previousScore
            /\ back[1].previousScoreExact = rootMoves[j].previousScoreExact
            /\ back[1].previousPV = rootMoves[j].previousPV
  BY <1>2, <1>5, <1>7, <1>8
<1> QED BY <1>9, <1>10 DEF back

(* What the end of an iteration records and does to the list.               *)
LEMMA CloseShape ==
  ASSUME IInv, LineInv, CloseIteration
  PROVE  /\ lastBest' # None => /\ lastBest' \in [move : Moves, score : Values, pv : Line]
                                /\ lastBest'.pv.complete /\ rootMoves[1].score # -Infinite
         /\ \E up \in {stopFlag, TRUE} :
              /\ stopFlag' = up
              /\ \/ rootMoves' = rootMoves /\ ~AbortedLoss(up)
                 \/ lastBest' # None /\ rootMoves' = RolledBack(lastBest')
                 \/ AbortedLoss(up) /\ rootMoves' = [rootMoves EXCEPT ![1].inexactLower = TRUE]
<1> DEFINE best == IF stopFlag \/ ForgottenMate THEN lastBest ELSE LastBest(rootMoves[1])
<1>1. /\ WholeList(rootMoves) /\ 1 \in 1 .. N /\ 1 \in 1 .. MultiPV
      /\ pc = "close" /\ lastBest' = best /\ rootMoves[1] \in RootMove
  BY NType, LinesAssumption DEF IInv, ListInv, WholeList, CloseIteration
<1>2. best # None => /\ best \in [move : Moves, score : Values, pv : Line]
                     /\ best.pv.complete /\ rootMoves[1].score # -Infinite
  <2>1. CASE stopFlag \/ ForgottenMate
    <3>1. best = lastBest
      BY <2>1
    <3> QED BY <3>1 DEF IInv, ListInv, LineInv, Saved
  <2>2. CASE ~(stopFlag \/ ForgottenMate)
    <3>1. best = [move |-> rootMoves[1].move, score |-> rootMoves[1].score, pv |-> rootMoves[1].pv]
      BY <2>2 DEF LastBest
    <3>2. rootMoves[1].score # -Infinite /\ rootMoves[1].pv.complete
      BY <1>1, <2>2 DEF LineInv, LinesDone, LineDone
    <3>3. rootMoves[1].score \in Values /\ rootMoves[1].move \in Moves /\ rootMoves[1].pv \in Line
      BY <1>1, <3>2, Fields
    <3> HIDE DEF best
    <3> QED BY <3>1, <3>2, <3>3
  <2> QED BY <2>1, <2>2
<1> HIDE DEF best
<1>3. \E up \in {stopFlag, TRUE} :
        /\ stopFlag' = up
        /\ \/ rootMoves' = rootMoves /\ ~AbortedLoss(up)
           \/ best # None /\ rootMoves' = RolledBack(best)
           \/ AbortedLoss(up) /\ rootMoves' = [rootMoves EXCEPT ![1].inexactLower = TRUE]
  <2>1. PICK up \in {stopFlag, TRUE} :
          /\ rootMoves' =
                IF ~(AbortedLoss(up) \/ (rootMoves[1].score # -Infinite /\ ForgottenMate))
                THEN rootMoves
                ELSE IF best # None THEN RolledBack(best)
                ELSE IF AbortedLoss(up) THEN [rootMoves EXCEPT ![1].inexactLower = TRUE]
                ELSE rootMoves
          /\ stopFlag' = up
    BY DEF CloseIteration, best
  <2> QED BY <2>1
<1> QED BY <1>1, <1>2, <1>3

LEMMA LineCloseIteration == IInv /\ LineInv /\ CloseIteration => LineInv'
<1> SUFFICES ASSUME IInv, LineInv, CloseIteration PROVE LineInv'
  OBVIOUS
<1>1. /\ WholeList(rootMoves) /\ DOMAIN rootMoves = 1 .. N /\ N \in Nat /\ 1 \in 1 .. N
      /\ 1 \in 1 .. MultiPV /\ MultiPV \in Nat /\ MultiPV <= N
      /\ pc = "close" /\ pc' = "iterate" /\ pvIdx \in Nat /\ pvIdx >= 1
      /\ rootMoves[1] \in RootMove /\ stopFlag \in BOOLEAN
      /\ UNCHANGED <<rootDepth, pvIdx, pvFirst, pvLast>>
  BY NType, LinesAssumption
     DEF IInv, ListInv, WholeList, Scalars, Places, CloseIteration, lines, N
<1>2. lastBest' # None => /\ lastBest' \in [move : Moves, score : Values, pv : Line]
                          /\ lastBest'.pv.complete /\ rootMoves[1].score # -Infinite
  BY CloseShape
<1>3. PICK up \in {stopFlag, TRUE} :
        /\ stopFlag' = up
        /\ \/ rootMoves' = rootMoves /\ ~AbortedLoss(up)
           \/ lastBest' # None /\ rootMoves' = RolledBack(lastBest')
           \/ AbortedLoss(up) /\ rootMoves' = [rootMoves EXCEPT ![1].inexactLower = TRUE]
  BY CloseShape
<1>4. \A i \in 1 .. N : SavedExact(rootMoves[i])
  BY DEF LineInv, Saved
<1>5. ASSUME NEW i \in 1 .. MultiPV, ~stopFlag PROVE LineDone(rootMoves[i])
  BY <1>1, <1>5 DEF LineInv, LinesDone
<1>6. ASSUME NEW i \in 1 .. MultiPV, i <= pvIdx, pvIdx > 1 PROVE Trusted(rootMoves[i])
  BY <1>1, <1>6 DEF LineInv, LossesProven
<1>7. rootDepth # 0 /\ (pvIdx = 1 => up)
  BY <1>1, <1>3 DEF LineInv, Saved, LossesProven
<1>8. SUFFICES /\ ~up => \A i \in 1 .. MultiPV : LineDone(rootMoves'[i])
               /\ \A i \in 1 .. MultiPV : i <= pvIdx => Trusted(rootMoves'[i])
               /\ \A i \in 1 .. N : SavedExact(rootMoves'[i])
               /\ lastBest' # None => rootMoves'[1].score # -Infinite
  <2>1. LinesDone' /\ LossesProven'
    BY <1>1, <1>3, <1>8 DEF LinesDone, LossesProven
  <2>2. Saved'
    BY <1>1, <1>2, <1>7, <1>8 DEF Saved
  <2>3. HeadScored' /\ LinesPlaced'
    BY <1>1 DEF HeadScored, LinesPlaced
  <2> QED BY <2>1, <2>2, <2>3 DEF LineInv
<1>9. ~up => ~stopFlag
  BY <1>1, <1>3
<1>10. CASE rootMoves' = rootMoves /\ ~AbortedLoss(up)
  <2>1. ASSUME NEW i \in 1 .. MultiPV, i <= pvIdx PROVE Trusted(rootMoves[i])
    <3>1. CASE pvIdx > 1
      BY <1>6, <2>1, <3>1
    <3>2. CASE pvIdx = 1
      <4>1. i = 1
        BY <1>1, <2>1, <3>2
      <4> QED BY <1>7, <1>10, <3>2, <4>1 DEF AbortedLoss, Trusted
    <3> QED BY <1>1, <3>1, <3>2
  <2> QED BY <1>2, <1>4, <1>5, <1>9, <1>10, <2>1
<1>11. CASE lastBest' # None /\ rootMoves' = RolledBack(lastBest')
  <2>1. lastBest' \in [move : Moves, score : Values, pv : Line] /\ lastBest'.score # -Infinite
    BY <1>2, <1>11, ValuesAreEvals
  <2>2. PICK j \in 1 .. N :
          /\ rootMoves'[1].previousScore = rootMoves[j].previousScore
          /\ rootMoves'[1].previousScoreExact = rootMoves[j].previousScoreExact
          /\ rootMoves'[1].previousPV = rootMoves[j].previousPV
    BY <1>1, <1>11, <2>1, RolledBackShape
  <2>3. /\ rootMoves'[1].score = lastBest'.score /\ rootMoves'[1].pv = lastBest'.pv
        /\ \A i \in 1 .. N : i > 1 => \E k \in {i - 1, i} : rootMoves'[i] = rootMoves[k]
    BY <1>1, <1>11, <2>1, RolledBackShape
  <2>4. LineDone(rootMoves'[1]) /\ Trusted(rootMoves'[1])
    BY <1>2, <1>11, <2>1, <2>3 DEF LineDone, Trusted
  <2>5. ASSUME NEW i \in 1 .. MultiPV, i > 1
        PROVE  \E k \in 1 .. MultiPV : k <= i /\ rootMoves'[i] = rootMoves[k]
    <3>1. PICK k \in {i - 1, i} : rootMoves'[i] = rootMoves[k]
      BY <1>1, <2>3, <2>5
    <3>2. k \in 1 .. MultiPV /\ k <= i
      BY <1>1, <2>5
    <3> QED BY <3>1, <3>2
  <2>6. ASSUME NEW i \in 1 .. MultiPV, ~up PROVE LineDone(rootMoves'[i])
    <3>1. CASE i = 1
      BY <2>4, <3>1
    <3>2. CASE i > 1
      <4>1. PICK k \in 1 .. MultiPV : k <= i /\ rootMoves'[i] = rootMoves[k]
        BY <2>5, <3>2
      <4> QED BY <1>5, <1>9, <2>6, <4>1
    <3> QED BY <1>1, <3>1, <3>2
  <2>7. ASSUME NEW i \in 1 .. MultiPV, i <= pvIdx PROVE Trusted(rootMoves'[i])
    <3>1. CASE i = 1
      BY <2>4, <3>1
    <3>2. CASE i > 1
      <4>1. PICK k \in 1 .. MultiPV : k <= i /\ rootMoves'[i] = rootMoves[k]
        BY <2>5, <3>2
      <4>2. k <= pvIdx /\ pvIdx > 1
        BY <1>1, <2>7, <3>2, <4>1
      <4> QED BY <1>6, <4>1, <4>2
    <3> QED BY <1>1, <3>1, <3>2
  <2>8. ASSUME NEW i \in 1 .. N PROVE SavedExact(rootMoves'[i])
    <3>1. CASE i = 1
      BY <1>4, <2>2, <3>1 DEF SavedExact
    <3>2. CASE i > 1
      <4>1. PICK k \in {i - 1, i} : rootMoves'[i] = rootMoves[k]
        BY <2>3, <3>2
      <4>2. k \in 1 .. N
        BY <1>1, <3>2
      <4> QED BY <1>4, <4>1, <4>2
    <3> QED BY <1>1, <3>1, <3>2
  <2> QED BY <2>1, <2>3, <2>6, <2>7, <2>8
<1>12. CASE AbortedLoss(up) /\ rootMoves' = [rootMoves EXCEPT ![1].inexactLower = TRUE]
  <2> DEFINE done == [rootMoves[1] EXCEPT !.inexactLower = TRUE]
  <2>1. up /\ pvIdx = 1
    BY <1>12 DEF AbortedLoss
  <2>2. done.inexactLower /\ done.score = rootMoves[1].score
    BY <1>1, MarkedFields
  <2>3. SavedExact(done)
    BY <1>1, <1>4, MarkedFields DEF SavedExact
  <2>4. rootMoves' = [rootMoves EXCEPT ![1] = done]
    BY <1>12
  <2> HIDE DEF done
  <2>5. \A i \in 1 .. N : rootMoves'[i] = IF i = 1 THEN done ELSE rootMoves[i]
    BY <1>1, <2>4
  <2>6. Trusted(done)
    BY <2>2 DEF Trusted, IsExactLoss, IsExact, IsInexact
  <2>7. ASSUME NEW i \in 1 .. MultiPV, i <= pvIdx PROVE Trusted(rootMoves'[i])
    <3>1. i = 1
      BY <1>1, <2>1, <2>7
    <3> QED BY <1>1, <2>5, <2>6, <3>1
  <2>8. rootMoves'[1] = done
    BY <1>1, <2>5
  <2> QED BY <1>2, <1>4, <2>1, <2>2, <2>3, <2>5, <2>7, <2>8
<1> QED BY <1>3, <1>10, <1>11, <1>12

LEMMA LineNext == IInv /\ LineInv /\ [Next]_vars => LineInv'
<1> SUFFICES ASSUME IInv, LineInv, [Next]_vars PROVE LineInv'
  OBVIOUS
<1>1. CASE RaiseStop \/ Finish \/ Stopped \/ AbandonSearch \/ UNCHANGED vars
  <2>1. /\ UNCHANGED <<rootMoves, rootDepth, pvIdx, pvFirst, lastBest>>
        /\ \/ /\ pc' = pc /\ todo' = todo /\ stopFlag' \in {stopFlag, TRUE}
              /\ bestValue' = bestValue /\ beta' = beta
           \/ pc = "iterate" /\ pc' = "done"
           \/ pc = "search" /\ pc' = "sort" /\ stopFlag' = stopFlag /\ stopFlag
    BY <1>1 DEF RaiseStop, Finish, Stopped, AbandonSearch, vars, lines, window
  <2>2. LinesDone' /\ LossesProven'
    BY <2>1 DEF LineInv, LinesDone, LossesProven
  <2>3. Saved' /\ HeadScored' /\ LinesPlaced'
    BY <2>1 DEF LineInv, Saved, HeadScored, LinesPlaced
  <2> QED BY <2>2, <2>3 DEF LineInv
<1>2. CASE StartIteration
  BY <1>2, LineStartIteration
<1>3. CASE StartLine
  BY <1>3, LineStartLine
<1>4. CASE \E m \in Moves, v \in Values : SearchMove(m, v)
  BY <1>4, LineSearchMove
<1>5. CASE JudgeWindow
  BY <1>5, LineJudgeWindow
<1>6. CASE GuardLine
  BY <1>6, LineGuardLine
<1>7. CASE DeliverLine
  BY <1>7, LineDeliverLine
<1>8. CASE CloseIteration
  BY <1>8, LineCloseIteration
<1>9. CASE \E v \in Values : ProbCut(v)
  <2>1. PICK v \in Values : ProbCut(v)
    BY <1>9
  <2>2. /\ UNCHANGED <<rootMoves, rootDepth, pvIdx, pvFirst, lastBest, stopFlag, beta>>
        /\ pc = "search" /\ pc' = "sort" /\ bestValue' \in beta .. v
    BY <2>1 DEF ProbCut, lines, window
  <2>3. ~(bestValue' < beta')
    BY <2>2, ValuesAreEvals DEF IInv, Scalars, Eval
  <2>4. LinesDone' /\ LossesProven' /\ LinesPlaced'
    BY <2>2 DEF LineInv, LinesDone, LossesProven, LinesPlaced
  <2>5. Saved' /\ HeadScored'
    BY <2>2, <2>3 DEF LineInv, Saved, HeadScored
  <2> QED BY <2>4, <2>5 DEF LineInv
<1> QED BY <1>1, <1>2, <1>3, <1>4, <1>5, <1>6, <1>7, <1>8, <1>9 DEF Next

-----------------------------------------------------------------------------
(* That there is a score to show for every line.                            *)
Shown(rm)   == rm.score # -Infinite \/ rm.previousScore # -Infinite
AllShown(l) == \A i \in 1 .. MultiPV : Shown(l[i])

(* The moves of a part of the list that the iteration before gave a score.  *)
Before(l, first, last) == {l[i].move : i \in {j \in first .. last : l[j].previousScore # -Infinite}}

(* In the tablebase rank being searched there are as many of them as lines, *)
(* wherever they are sorted to, and every line behind it begins with one.   *)
Enough(l, first, last) ==
  /\ last > 0 => Cardinality(Before(l, first, last)) >= Smaller(MultiPV, last) - first + 1
  /\ \A i \in 1 .. MultiPV : i > last => l[i].previousScore # -Infinite

ShowInv ==
  rootDepth > 1 =>
    /\ pc \in {"line", "search", "sort"} \/ (pc \in {"guard", "deliver"} /\ ~stopFlag) =>
         Enough(rootMoves, pvFirst, pvLast)
    /\ pc \in {"guard", "deliver", "close", "iterate", "done"} => AllShown(rootMoves)

(* Sorting a smaller part keeps who is in a part.                           *)
LEMMA SortedBefore ==
  ASSUME NEW l, WholeList(l), NEW a \in 1 .. N, NEW b \in a .. N,
         NEW first \in 1 .. a, NEW last \in b .. N, Enough(l, first, last)
  PROVE  Enough(Sorted(l, a, b), first, last)
<1> DEFINE k == Sorted(l, a, b)
<1>1. /\ l \in [1 .. N -> RootMove] /\ a \in a .. b
      /\ N \in Nat /\ a \in Nat /\ b \in Nat /\ first \in Nat /\ last \in Nat
      /\ MultiPV \in Nat /\ MultiPV <= N
  BY NType, LinesAssumption DEF WholeList, N
<1>2. PICK p \in [1 .. N -> 1 .. N] :
        /\ \A i \in 1 .. N : k[i] = l[p[i]]
        /\ \A i \in 1 .. N : IF i \in a .. b THEN p[i] \in a .. b ELSE p[i] = i
        /\ \A i, j \in 1 .. N : p[i] = p[j] => i = j
        /\ \A j \in 1 .. N : \E i \in 1 .. N : p[i] = j
        /\ l[p[a]].score >= l[a].score
  BY <1>1, SortedPermutes
<1> HIDE DEF k
<1>3. ASSUME NEW i \in 1 .. N PROVE i \in first .. last <=> p[i] \in first .. last
  <2>1. IF i \in a .. b THEN p[i] \in a .. b ELSE p[i] = i
    BY <1>2
  <2> QED BY <1>1, <2>1
<1>4. Before(k, first, last) = Before(l, first, last)
  <2>1. ASSUME NEW m \in Before(k, first, last) PROVE m \in Before(l, first, last)
    <3>1. PICK i \in first .. last : k[i].previousScore # -Infinite /\ m = k[i].move
      BY DEF Before
    <3>2. i \in 1 .. N
      BY <1>1
    <3>3. p[i] \in first .. last /\ k[i] = l[p[i]]
      BY <1>2, <1>3, <3>2
    <3> QED BY <3>1, <3>3 DEF Before
  <2>2. ASSUME NEW m \in Before(l, first, last) PROVE m \in Before(k, first, last)
    <3>1. PICK j \in first .. last : l[j].previousScore # -Infinite /\ m = l[j].move
      BY DEF Before
    <3>2. j \in 1 .. N
      BY <1>1
    <3>3. PICK i \in 1 .. N : p[i] = j
      BY <1>2, <3>2
    <3>4. i \in first .. last /\ k[i] = l[j]
      BY <1>2, <1>3, <3>3
    <3> QED BY <3>1, <3>4 DEF Before
  <2> QED BY <2>1, <2>2
<1>5. ASSUME NEW i \in 1 .. MultiPV, i > last PROVE k[i] = l[i]
  <2>1. i \in 1 .. N /\ i \notin a .. b
    BY <1>1, <1>5
  <2> QED BY <1>2, <2>1
<1>6. Enough(k, first, last)
  BY <1>4, <1>5 DEF Enough
<1> QED BY <1>6 DEF k

(* Rewriting moves without touching their previous scores does as well.     *)
LEMMA RewrittenBefore ==
  ASSUME NEW l, NEW k, NEW first \in 1 .. N, NEW last \in 0 .. N, Enough(l, first, last),
         \A i \in 1 .. N : k[i].move = l[i].move /\ k[i].previousScore = l[i].previousScore
  PROVE  Enough(k, first, last)
<1>1. /\ N \in Nat /\ first \in Nat /\ last \in Nat /\ MultiPV \in Nat /\ MultiPV <= N
  BY NType, LinesAssumption DEF N
<1>2. \A i \in first .. last : k[i].move = l[i].move /\ k[i].previousScore = l[i].previousScore
  BY <1>1
<1>3. Before(k, first, last) = Before(l, first, last)
  BY <1>2 DEF Before
<1>4. \A i \in 1 .. MultiPV : i > last => k[i].previousScore = l[i].previousScore
  BY <1>1
<1> QED BY <1>3, <1>4 DEF Enough

(* Behind a move without a score of either iteration, sorting leaves no     *)
(* move with one; there being enough of these, all the lines have one.      *)
LEMMA EnoughAreShown ==
  ASSUME NEW l, WholeList(l), NEW idx \in 1 .. N, NEW first \in 1 .. idx, NEW last \in idx .. N,
         Placed(l, idx, last), Enough(l, first, last),
         \A i \in 1 .. N : i < idx => l[i].score # -Infinite
  PROVE  AllShown(l)
<1>1. /\ N \in Nat /\ idx \in Nat /\ first \in Nat /\ last \in Nat /\ last > 0
      /\ MultiPV \in Nat /\ MultiPV <= N
  BY NType, LinesAssumption DEF N
<1> SUFFICES ASSUME NEW i \in 1 .. MultiPV, ~Shown(l[i]) PROVE FALSE
  BY DEF AllShown
<1>2. i \in 1 .. N /\ i \in Nat /\ i >= idx /\ i <= last
  BY <1>1 DEF Enough, Shown
<1>3. ASSUME NEW j \in i .. last PROVE l[j].previousScore = -Infinite
  <2>1. j \in 1 .. N /\ j \in idx .. last /\ i \in idx .. last /\ (j = i \/ i < j)
    BY <1>1, <1>2
  <2>2. l[i].score = -Infinite /\ l[i].previousScore = -Infinite
    BY DEF Shown
  <2>3. i < j => ~Precedes(l[j], l[i])
    BY <2>1 DEF Placed
  <2>4. l[j] \in RootMove
    BY <2>1 DEF WholeList
  <2>5. /\ l[j].score \in Int /\ l[j].previousScore \in Int
        /\ l[j].score >= -Infinite /\ l[j].previousScore >= -Infinite
    <3>1. l[j].score \in Eval /\ l[j].previousScore \in Eval
      BY <2>4, Fields
    <3> QED BY <3>1, ValuesAreEvals DEF Eval
  <2> QED BY <2>1, <2>2, <2>3, <2>5, ValuesAssumption DEF Precedes
<1>4. Before(l, first, last) \subseteq {l[j].move : j \in first .. i - 1}
  <2> SUFFICES ASSUME NEW m \in Before(l, first, last)
               PROVE  m \in {l[j].move : j \in first .. i - 1}
    OBVIOUS
  <2>1. PICK j \in first .. last : l[j].previousScore # -Infinite /\ m = l[j].move
    BY DEF Before
  <2>2. j \notin i .. last
    BY <1>3, <2>1
  <2>3. j \in first .. i - 1
    BY <1>1, <1>2, <2>2
  <2> QED BY <2>1, <2>3
<1>5. Cardinality(Before(l, first, last)) <= i - first
  <2>1. CASE i = first
    <3>1. first .. i - 1 = {}
      BY <1>1, <2>1
    <3>2. Before(l, first, last) = {}
      BY <1>4, <3>1
    <3> QED BY <1>1, <2>1, <3>2, FS_EmptySet
  <2>2. CASE i > first
    <3>1. i - 1 \in first .. N
      BY <1>1, <1>2, <2>2
    <3>2. Cardinality(Segment(l, first, i - 1)) = i - first
      <4>1. Cardinality(Segment(l, first, i - 1)) = i - 1 - first + 1
        BY <1>1, <3>1, SegmentSize
      <4> QED BY <1>1, <1>2, <4>1
    <3>3. IsFiniteSet(Segment(l, first, i - 1))
      <4>1. Segment(l, first, i - 1) \subseteq Moves
        <5>1. ASSUME NEW j \in first .. i - 1 PROVE l[j].move \in Moves
          <6>1. j \in 1 .. N
            BY <1>1, <1>2
          <6>2. l[j] \in RootMove
            BY <6>1 DEF WholeList
          <6> QED BY <6>2, Fields
        <5> QED BY <5>1 DEF Segment
      <4> QED BY <4>1, MovesAssumption, FS_Subset
    <3>4. Before(l, first, last) \in SUBSET Segment(l, first, i - 1)
      BY <1>4 DEF Segment
    <3> QED BY <3>2, <3>3, <3>4, FS_Subset
  <2> QED BY <1>1, <1>2, <2>1, <2>2
<1>6. Cardinality(Before(l, first, last)) >= Smaller(MultiPV, last) - first + 1
  BY <1>1 DEF Enough
<1>7. Smaller(MultiPV, last) >= i
  BY <1>1, <1>2 DEF Smaller
<1>8. Cardinality(Before(l, first, last)) \in Nat
  <2>1. IsFiniteSet(Before(l, first, last))
    <3>1. ASSUME NEW m \in Before(l, first, last) PROVE m \in Moves
      <4>1. PICK j \in first .. last : m = l[j].move
        BY DEF Before
      <4>2. j \in 1 .. N
        BY <1>1
      <4>3. l[j] \in RootMove
        BY <4>2 DEF WholeList
      <4> QED BY <4>1, <4>3, Fields
    <3>2. Before(l, first, last) \subseteq Moves
      BY <3>1
    <3> QED BY <3>2, MovesAssumption, FS_Subset
  <2> QED BY <2>1, FS_CardinalityType
<1>9. Smaller(MultiPV, last) \in Int
  BY <1>1 DEF Smaller
<1> QED BY <1>1, <1>2, <1>5, <1>6, <1>7, <1>8, <1>9

LEMMA ShowStartIteration == IInv /\ LineInv /\ StartIteration => ShowInv'
<1> SUFFICES ASSUME IInv, LineInv, StartIteration PROVE ShowInv'
  OBVIOUS
<1> SUFFICES ASSUME rootDepth' > 1 PROVE Enough(rootMoves', pvFirst', pvLast')
  BY DEF StartIteration, ShowInv
<1>1. /\ WholeList(rootMoves) /\ DOMAIN rootMoves = 1 .. N
      /\ N \in Nat /\ MultiPV \in Nat /\ MultiPV <= N
      /\ pc = "iterate" /\ ~stopFlag /\ pvLast' = 0 /\ rootDepth > 0
  BY NType, LinesAssumption DEF IInv, ListInv, WholeList, Scalars, StartIteration, N
<1>2. ASSUME NEW i \in 1 .. MultiPV PROVE rootMoves'[i].previousScore # -Infinite
  <2> DEFINE rm == rootMoves[i]
             new == rootMoves'[i]
  <2>1. i \in 1 .. N
    BY <1>1
  <2>2. new = WithPrevious(rm, i) /\ rm \in RootMove
    BY <1>1, <2>1 DEF StartIteration, WholeList
  <2>3. rm.score # -Infinite
    BY <1>1 DEF LineInv, LinesDone, LineDone
  <2> HIDE DEF rm, new
  <2>4. new.previousScore = rm.score
    BY <2>2, Fields DEF WithPrevious
  <2> QED BY <2>3, <2>4 DEF new
<1> QED BY <1>1, <1>2 DEF Enough

LEMMA ShowStartLine == IInv /\ ShowInv /\ StartLine => ShowInv'
<1> SUFFICES ASSUME IInv, ShowInv, StartLine PROVE ShowInv'
  OBVIOUS
<1> SUFFICES ASSUME rootDepth > 1 PROVE Enough(rootMoves', pvFirst', pvLast')
  BY DEF StartLine, ShowInv, BeginSearch
<1>1. /\ WholeList(rootMoves) /\ ListInv /\ N \in Nat /\ MultiPV \in Nat /\ MultiPV <= N
      /\ pc = "line" /\ rootMoves' = rootMoves /\ Enough(rootMoves, pvFirst, pvLast)
      /\ pvIdx \in 1 .. MultiPV /\ pvIdx \in 1 .. N /\ pvIdx \in Nat /\ pvLast \in Nat
  BY NType, LinesAssumption DEF IInv, ListInv, Places, ShowInv, StartLine, N
<1>2. CASE pvIdx # pvLast + 1
  <2>1. pvFirst' = pvFirst /\ pvLast' = pvLast
    BY <1>2 DEF StartLine
  <2> QED BY <1>1, <2>1
<1>3. CASE pvIdx = pvLast + 1
  <2>1. pvFirst' = pvIdx /\ pvLast' = RankEnd(pvIdx)
    BY <1>3 DEF StartLine
  <2>2. pvLast' \in pvIdx .. N
    BY <1>1, <2>1, RankEndType
  <2> DEFINE last == Smaller(MultiPV, pvLast')
  <2>3. /\ last \in pvIdx .. N /\ last \in Nat /\ pvLast' \in Nat
        /\ last <= MultiPV /\ last <= pvLast' /\ last = Smaller(MultiPV, pvLast')
    BY <1>1, <2>2 DEF Smaller
  <2> HIDE DEF last
  <2>4. ASSUME NEW i \in 1 .. MultiPV, i > pvLast PROVE rootMoves[i].previousScore # -Infinite
    BY <1>1, <2>4 DEF Enough
  <2>5. Segment(rootMoves, pvIdx, last) \subseteq Before(rootMoves, pvIdx, pvLast')
    <3> SUFFICES ASSUME NEW m \in Segment(rootMoves, pvIdx, last)
                 PROVE  m \in Before(rootMoves, pvIdx, pvLast')
      OBVIOUS
    <3>1. PICK i \in pvIdx .. last : m = rootMoves[i].move
      BY DEF Segment
    <3>2. i \in 1 .. MultiPV /\ i > pvLast /\ i \in pvIdx .. pvLast'
      BY <1>1, <1>3, <2>3
    <3>3. rootMoves[i].previousScore # -Infinite
      BY <2>4, <3>2
    <3> QED BY <3>1, <3>2, <3>3 DEF Before
  <2>6. IsFiniteSet(Before(rootMoves, pvIdx, pvLast'))
    <3>1. ASSUME NEW m \in Before(rootMoves, pvIdx, pvLast') PROVE m \in Moves
      <4>1. PICK j \in pvIdx .. pvLast' : m = rootMoves[j].move
        BY DEF Before
      <4>2. j \in 1 .. N
        BY <1>1, <2>2, <2>3
      <4>3. rootMoves[j] \in RootMove
        BY <1>1, <4>2 DEF WholeList
      <4> QED BY <4>1, <4>3, Fields
    <3>2. Before(rootMoves, pvIdx, pvLast') \subseteq Moves
      BY <3>1
    <3> QED BY <3>2, MovesAssumption, FS_Subset
  <2>7. Cardinality(Segment(rootMoves, pvIdx, last)) = last - pvIdx + 1
    BY <1>1, <2>3, SegmentSize
  <2>8. Cardinality(Before(rootMoves, pvIdx, pvLast')) >= Smaller(MultiPV, pvLast') - pvIdx + 1
    <3>1. Cardinality(Segment(rootMoves, pvIdx, last)) <= Cardinality(Before(rootMoves, pvIdx, pvLast'))
      BY <2>5, <2>6, FS_Subset
    <3> QED BY <2>3, <2>7, <3>1
  <2>9. \A i \in 1 .. MultiPV : i > pvLast' => rootMoves[i].previousScore # -Infinite
    BY <1>1, <1>3, <2>2, <2>3, <2>4
  <2> QED BY <1>1, <2>1, <2>8, <2>9 DEF Enough
<1> QED BY <1>2, <1>3

LEMMA ShowSearchMove ==
  ASSUME IInv, ShowInv, NEW m \in Moves, NEW v \in Values, SearchMove(m, v)
  PROVE  ShowInv'
<1>1. /\ pc = "search" /\ pc' \in {"search", "sort"}
      /\ WholeList(rootMoves) /\ DOMAIN rootMoves = 1 .. N
      /\ pvFirst \in 1 .. N /\ pvLast \in 0 .. N
      /\ UNCHANGED <<rootDepth, pvFirst, pvLast>>
  BY DEF IInv, ListInv, WholeList, SearchMove, lines
<1>2. PICK at, done : SearchedAt(at, done, v)
  BY SearchMoveShape
<1>3. \A i \in 1 .. N : rootMoves'[i] = IF i = at THEN done ELSE rootMoves[i]
  BY <1>1, <1>2 DEF SearchedAt
<1>4. \A i \in 1 .. N : /\ rootMoves'[i].move = rootMoves[i].move
                        /\ rootMoves'[i].previousScore = rootMoves[i].previousScore
  BY <1>2, <1>3 DEF SearchedAt
<1>5. rootDepth > 1 => Enough(rootMoves, pvFirst, pvLast)
  BY <1>1 DEF ShowInv
<1>6. rootDepth > 1 => Enough(rootMoves', pvFirst, pvLast)
  BY <1>1, <1>4, <1>5, RewrittenBefore
<1> QED BY <1>1, <1>6 DEF ShowInv

LEMMA ShowJudgeWindow == IInv /\ LineInv /\ ShowInv /\ JudgeWindow => ShowInv'
<1> SUFFICES ASSUME IInv, LineInv, ShowInv, JudgeWindow PROVE ShowInv'
  OBVIOUS
<1> SUFFICES ASSUME rootDepth > 1 PROVE ShowInv'
  BY DEF JudgeWindow, ShowInv
<1> DEFINE sorted == Sorted(rootMoves, pvIdx, pvLast)
<1>1. /\ WholeList(rootMoves) /\ N \in Nat /\ pc = "sort" /\ pc' \in {"search", "guard"}
      /\ pvIdx \in 1 .. N /\ pvLast \in pvIdx .. N /\ pvFirst \in 1 .. pvIdx
      /\ pvLast \in 0 .. N /\ pvLast \in pvLast .. N /\ pvFirst \in 1 .. N
      /\ pvIdx \in Nat /\ pvLast \in Nat /\ pvFirst \in Nat
      /\ MultiPV \in Nat /\ MultiPV <= N
      /\ UNCHANGED <<rootDepth, pvIdx, pvFirst, pvLast, lastBest, stopFlag>>
      /\ Enough(rootMoves, pvFirst, pvLast)
  BY NType, LinesAssumption
     DEF IInv, ListInv, Places, ShowInv, JudgeWindow, lines, BeginSearch, EndSearch, N
<1>2. \/ rootMoves' = sorted
      \/ rootMoves' = [sorted EXCEPT ![pvIdx].pv.complete = TRUE]
  BY DEF JudgeWindow
<1>3. /\ Placed(sorted, pvIdx, pvLast)
      /\ \A i \in 1 .. N : i \notin pvIdx .. pvLast => sorted[i] = rootMoves[i]
  BY <1>1, SortedShape
<1>4. WholeList(sorted)
  BY <1>1, SortedFollows DEF IInv, ListInv, RanksStayInOrder, Follows
<1>5. Enough(sorted, pvFirst, pvLast)
  BY <1>1, SortedBefore
<1> HIDE DEF sorted
<1>6. AllShown(sorted)
  <2>1. ASSUME NEW i \in 1 .. N, i < pvIdx PROVE sorted[i].score # -Infinite
    <3>1. sorted[i] = rootMoves[i]
      <4>1. i \notin pvIdx .. pvLast
        BY <1>1, <2>1
      <4> QED BY <1>3, <4>1
    <3> QED BY <1>1, <2>1, <3>1 DEF LineInv, LinesDone, LineDone
  <2> QED BY <1>1, <1>3, <1>4, <1>5, <2>1, EnoughAreShown
<1>7. ASSUME NEW i \in 1 .. N
      PROVE  /\ rootMoves'[i].move = sorted[i].move /\ rootMoves'[i].score = sorted[i].score
             /\ rootMoves'[i].previousScore = sorted[i].previousScore
  <2>1. CASE rootMoves' = sorted
    BY <2>1
  <2>2. CASE rootMoves' = [sorted EXCEPT ![pvIdx].pv.complete = TRUE]
    <3> DEFINE line == [sorted[pvIdx].pv EXCEPT !.complete = TRUE]
    <3>1. sorted[pvIdx] \in RootMove /\ DOMAIN sorted = 1 .. N
      BY <1>1, <1>4 DEF WholeList
    <3>2. rootMoves'[i] = IF i = pvIdx THEN [sorted[pvIdx] EXCEPT !.pv = line] ELSE sorted[i]
      BY <1>1, <2>2, <3>1
    <3> HIDE DEF line
    <3> QED BY <3>1, <3>2, Fields
  <2> QED BY <1>2, <2>1, <2>2
<1>8. Enough(rootMoves', pvFirst, pvLast)
  BY <1>1, <1>5, <1>7, RewrittenBefore
<1>9. AllShown(rootMoves')
  <2>1. ASSUME NEW i \in 1 .. MultiPV PROVE Shown(rootMoves'[i])
    <3>1. i \in 1 .. N
      BY <1>1
    <3> QED BY <1>6, <1>7, <3>1 DEF AllShown, Shown
  <2> QED BY <2>1 DEF AllShown
<1> QED BY <1>1, <1>8, <1>9 DEF ShowInv

LEMMA ProtectedIsShown ==
  ASSUME NEW rm \in RootMove, Shown(rm), NEW before \in RootMove, before.score # -Infinite
  PROVE  Shown(Protected(rm, before))
<1> DEFINE kept == [rm EXCEPT !.score = rm.previousScore, !.uciScore = rm.previousScore,
                              !.previousScore = -Infinite, !.pv = rm.previousPV,
                              !.inexactLower = FALSE, !.inexactUpper = FALSE]
           held == [rm EXCEPT !.score = before.score, !.uciScore = before.score,
                              !.previousScore = -Infinite, !.pv = Bare,
                              !.inexactUpper = TRUE, !.inexactLower = FALSE]
           bound == [rm EXCEPT !.inexactUpper = FALSE, !.inexactLower = TRUE]
<1>1. \/ Protected(rm, before) = rm
      \/ Protected(rm, before) = kept /\ PreviousIsSafe(rm, before)
      \/ Protected(rm, before) = held
      \/ Protected(rm, before) = bound
  BY DEF Protected
<1>2. /\ kept.score = rm.previousScore /\ held.score = before.score
      /\ bound.score = rm.score /\ bound.previousScore = rm.previousScore
  BY Fields
<1> HIDE DEF kept, held, bound
<1> QED BY <1>1, <1>2 DEF Shown, PreviousIsSafe

LEMMA ShowGuardLine == IInv /\ LineInv /\ ShowInv /\ GuardLine => ShowInv'
<1> SUFFICES ASSUME IInv, LineInv, ShowInv, GuardLine PROVE ShowInv'
  OBVIOUS
<1> SUFFICES ASSUME rootDepth > 1 PROVE ShowInv'
  BY DEF GuardLine, ShowInv
<1>1. /\ WholeList(rootMoves) /\ DOMAIN rootMoves = 1 .. N /\ N \in Nat
      /\ pc = "guard" /\ pc' = "deliver" /\ AllShown(rootMoves)
      /\ pvIdx \in 1 .. N /\ pvIdx \in Nat /\ MultiPV \in Nat /\ MultiPV <= N
      /\ UNCHANGED <<rootDepth, pvIdx, pvFirst, pvLast, stopFlag>>
  BY NType, LinesAssumption
     DEF IInv, ListInv, WholeList, Places, GuardLine, ShowInv, lines, N
<1>2. CASE ~(stopFlag /\ pvIdx > 1)
  <2>1. rootMoves' = rootMoves
    BY <1>2 DEF GuardLine
  <2> QED BY <1>1, <2>1 DEF ShowInv
<1>3. CASE stopFlag /\ pvIdx > 1
  <2>1. /\ pvIdx - 1 \in 1 .. N
        /\ rootMoves[pvIdx] \in RootMove /\ rootMoves[pvIdx - 1] \in RootMove
        /\ rootMoves[pvIdx - 1].score # -Infinite
    BY <1>1, <1>3 DEF WholeList, LineInv, LinesDone, LineDone
  <2>2. ASSUME NEW i \in 1 .. MultiPV PROVE Shown(rootMoves'[i])
    <3>1. i \in 1 .. N
      BY <1>1
    <3>2. rootMoves'[i] =
            IF i = pvIdx THEN Protected(rootMoves[i], rootMoves[i - 1])
            ELSE IF i \in pvIdx + 1 .. MultiPV /\ IsExactLoss(rootMoves[i])
            THEN [rootMoves[i] EXCEPT !.inexactLower = TRUE]
            ELSE rootMoves[i]
      BY <1>1, <1>3, <3>1 DEF GuardLine
    <3>3. rootMoves[i] \in RootMove /\ Shown(rootMoves[i])
      BY <1>1, <3>1 DEF WholeList, AllShown
    <3>4. CASE i = pvIdx
      <4>1. rootMoves'[i] = Protected(rootMoves[pvIdx], rootMoves[pvIdx - 1])
        BY <3>2, <3>4
      <4>2. Shown(Protected(rootMoves[pvIdx], rootMoves[pvIdx - 1]))
        BY <2>1, <3>3, <3>4, ProtectedIsShown
      <4> QED BY <4>1, <4>2
    <3>5. CASE i # pvIdx
      <4>1. Shown([rootMoves[i] EXCEPT !.inexactLower = TRUE])
        BY <3>3, MarkedFields DEF Shown
      <4> QED BY <3>2, <3>3, <3>5, <4>1
    <3> QED BY <3>4, <3>5
  <2> QED BY <1>1, <1>3, <2>2 DEF ShowInv, AllShown
<1> QED BY <1>2, <1>3

LEMMA ShowDeliverLine == IInv /\ LineInv /\ ShowInv /\ DeliverLine => ShowInv'
<1> SUFFICES ASSUME IInv, LineInv, ShowInv, DeliverLine PROVE ShowInv'
  OBVIOUS
<1> SUFFICES ASSUME rootDepth > 1 PROVE ShowInv'
  BY DEF DeliverLine, ShowInv
<1>1. /\ WholeList(rootMoves) /\ N \in Nat /\ pc = "deliver" /\ stopFlag \in BOOLEAN
      /\ pvFirst \in 1 .. N /\ pvIdx \in pvFirst .. N /\ pvLast \in pvIdx .. N
      /\ pvFirst \in Nat /\ pvIdx \in Nat /\ pvLast \in Nat /\ pvFirst \in 1 .. pvFirst
      /\ pvIdx <= MultiPV /\ MultiPV \in Nat /\ MultiPV <= N
      /\ UNCHANGED <<rootDepth, pvFirst, pvLast, stopFlag>>
      /\ rootMoves' = Sorted(rootMoves, pvFirst, pvIdx)
      /\ IF stopFlag THEN pvIdx' = pvIdx /\ pc' = "close"
         ELSE pvIdx' = pvIdx + 1 /\ pc' = IF pvIdx = MultiPV THEN "close" ELSE "line"
      /\ AllShown(rootMoves) /\ (~stopFlag => Enough(rootMoves, pvFirst, pvLast))
  BY NType, LinesAssumption DEF IInv, ListInv, Scalars, Places, ShowInv, DeliverLine, N
<1>2. /\ \A i \in 1 .. N : i \notin pvFirst .. pvIdx => rootMoves'[i] = rootMoves[i]
      /\ \A i \in pvFirst .. pvIdx : \E j \in pvFirst .. pvIdx : rootMoves'[i] = rootMoves[j]
  BY <1>1, SortedShape
<1>3. ~stopFlag => Enough(rootMoves', pvFirst, pvLast)
  BY <1>1, SortedBefore
<1>4. ASSUME NEW i \in 1 .. MultiPV PROVE Shown(rootMoves'[i])
  <2>1. CASE i \in pvFirst .. pvIdx
    <3>1. PICK j \in pvFirst .. pvIdx : rootMoves'[i] = rootMoves[j]
      BY <1>2, <2>1
    <3>2. j \in 1 .. MultiPV
      BY <1>1
    <3> QED BY <1>1, <3>1, <3>2 DEF AllShown
  <2>2. CASE i \notin pvFirst .. pvIdx
    <3>1. i \in 1 .. N
      BY <1>1
    <3> QED BY <1>1, <1>2, <2>2, <3>1 DEF AllShown
  <2> QED BY <2>1, <2>2
<1>5. pc' = "close" \/ (pc' = "line" /\ ~stopFlag)
  BY <1>1
<1> QED BY <1>1, <1>3, <1>4, <1>5 DEF ShowInv, AllShown

LEMMA ShowCloseIteration == IInv /\ LineInv /\ ShowInv /\ CloseIteration => ShowInv'
<1> SUFFICES ASSUME IInv, LineInv, ShowInv, CloseIteration PROVE ShowInv'
  OBVIOUS
<1> SUFFICES ASSUME rootDepth > 1 PROVE AllShown(rootMoves')
  BY DEF CloseIteration, ShowInv
<1>1. /\ WholeList(rootMoves) /\ DOMAIN rootMoves = 1 .. N /\ N \in Nat /\ 1 \in 1 .. N
      /\ MultiPV \in Nat /\ MultiPV <= N /\ rootMoves[1] \in RootMove
      /\ AllShown(rootMoves)
  BY NType, LinesAssumption DEF IInv, ListInv, WholeList, ShowInv, CloseIteration, N
<1>2. PICK up \in {stopFlag, TRUE} :
        \/ rootMoves' = rootMoves /\ ~AbortedLoss(up)
        \/ lastBest' # None /\ rootMoves' = RolledBack(lastBest')
        \/ AbortedLoss(up) /\ rootMoves' = [rootMoves EXCEPT ![1].inexactLower = TRUE]
  BY CloseShape
<1>3. CASE rootMoves' = rootMoves
  BY <1>1, <1>3
<1>4. CASE lastBest' # None /\ rootMoves' = RolledBack(lastBest')
  <2>1. lastBest' \in [move : Moves, score : Values, pv : Line] /\ lastBest'.score # -Infinite
    BY <1>4, CloseShape, ValuesAreEvals
  <2>2. /\ rootMoves'[1].score = lastBest'.score
        /\ \A i \in 1 .. N : i > 1 => \E k \in {i - 1, i} : rootMoves'[i] = rootMoves[k]
    BY <1>1, <1>4, <2>1, RolledBackShape
  <2>3. ASSUME NEW i \in 1 .. MultiPV PROVE Shown(rootMoves'[i])
    <3>1. CASE i = 1
      BY <2>1, <2>2, <3>1 DEF Shown
    <3>2. CASE i > 1
      <4>1. PICK k \in {i - 1, i} : rootMoves'[i] = rootMoves[k]
        BY <1>1, <2>2, <3>2
      <4>2. k \in 1 .. MultiPV
        BY <1>1, <3>2
      <4> QED BY <1>1, <4>1, <4>2 DEF AllShown
    <3> QED BY <1>1, <3>1, <3>2
  <2> QED BY <2>3 DEF AllShown
<1>5. CASE AbortedLoss(up) /\ rootMoves' = [rootMoves EXCEPT ![1].inexactLower = TRUE]
  <2> DEFINE done == [rootMoves[1] EXCEPT !.inexactLower = TRUE]
  <2>1. rootMoves' = [rootMoves EXCEPT ![1] = done]
    BY <1>5
  <2>2. done.score = rootMoves[1].score /\ done.previousScore = rootMoves[1].previousScore
    BY <1>1, MarkedFields
  <2> HIDE DEF done
  <2>3. ASSUME NEW i \in 1 .. MultiPV PROVE Shown(rootMoves'[i])
    <3>1. rootMoves'[i] = IF i = 1 THEN done ELSE rootMoves[i]
      BY <1>1, <2>1
    <3>2. Shown(rootMoves[i])
      BY <1>1 DEF AllShown
    <3> QED BY <2>2, <3>1, <3>2 DEF Shown
  <2> QED BY <2>3 DEF AllShown
<1> QED BY <1>2, <1>3, <1>4, <1>5

LEMMA ShowNext == IInv /\ LineInv /\ ShowInv /\ [Next]_vars => ShowInv'
<1> SUFFICES ASSUME IInv, LineInv, ShowInv, [Next]_vars PROVE ShowInv'
  OBVIOUS
<1>1. CASE \/ RaiseStop \/ Finish \/ Stopped \/ AbandonSearch
            \/ (\E v \in Values : ProbCut(v)) \/ UNCHANGED vars
  <2>1. /\ UNCHANGED <<rootMoves, rootDepth, pvFirst, pvLast>>
        /\ \/ pc' = pc /\ stopFlag' \in {stopFlag, TRUE}
           \/ pc = "iterate" /\ pc' = "done"
           \/ pc = "search" /\ pc' = "sort"
    BY <1>1 DEF RaiseStop, Finish, Stopped, AbandonSearch, ProbCut, vars, lines
  <2> QED BY <2>1 DEF ShowInv
<1>2. CASE StartIteration
  BY <1>2, ShowStartIteration
<1>3. CASE StartLine
  BY <1>3, ShowStartLine
<1>4. CASE \E m \in Moves, v \in Values : SearchMove(m, v)
  BY <1>4, ShowSearchMove
<1>5. CASE JudgeWindow
  BY <1>5, ShowJudgeWindow
<1>6. CASE GuardLine
  BY <1>6, ShowGuardLine
<1>7. CASE DeliverLine
  BY <1>7, ShowDeliverLine
<1>8. CASE CloseIteration
  BY <1>8, ShowCloseIteration
<1> QED BY <1>1, <1>2, <1>3, <1>4, <1>5, <1>6, <1>7, <1>8 DEF Next

LEMMA Invariants == Spec => [](IInv /\ PairInv /\ LineInv /\ ShowInv)
<1>1. Init => IInv /\ PairInv /\ LineInv /\ ShowInv
  <2>1. Init => ShowInv
    BY DEF Init, ShowInv
  <2> QED BY <2>1, IInvInit, PairInit, LineInit
<1>2. IInv /\ PairInv /\ LineInv /\ ShowInv /\ [Next]_vars => (IInv /\ PairInv /\ LineInv /\ ShowInv)'
  BY IInvNext, PairNext, LineNext, ShowNext
<1> QED BY <1>1, <1>2, PTL DEF Spec

(* However many lines are shown and wherever a stop falls: a line shown as  *)
(* exact comes with the variation and the score of one search, an exact     *)
(* loss among the lines the last iteration reached was searched to its end, *)
(* and every line has a score to show, of this iteration or the one before  *)
(* (search.cpp iterative_deepening, search).                                *)
THEOREM ExactMeansAlwaysProven == Spec => []ExactMeansProven
<1>1. PairInv /\ LineInv /\ ShowInv => ExactMeansProven
  <2>1. ASSUME NEW i \in 1 .. MultiPV PROVE i \in 1 .. N
    BY NType, LinesAssumption DEF N
  <2>2. PairInv => ExactScoreHasItsLine
    BY <2>1 DEF PairInv, Honest, ExactScoreHasItsLine
  <2>3. LineInv => ExactLossesAreProven
    BY DEF LineInv, LossesProven, Trusted, ExactLossesAreProven
  <2>4. ShowInv => EveryLineHasAScore
    BY DEF ShowInv, AllShown, Shown, EveryLineHasAScore
  <2> QED BY <2>2, <2>3, <2>4 DEF ExactMeansProven
<1> QED BY <1>1, Invariants, PTL

-----------------------------------------------------------------------------
(* What a step may never do.                                                *)
LEMMA PrecedesFurther ==
  ASSUME NEW a \in RootMove, NEW b \in RootMove, NEW c \in RootMove,
         ~Precedes(b, a), ~Precedes(c, b)
  PROVE  ~Precedes(c, a)
<1>1. /\ a.score \in Int /\ b.score \in Int /\ c.score \in Int
      /\ a.previousScore \in Int /\ b.previousScore \in Int /\ c.previousScore \in Int
  BY Scores
<1> QED BY <1>1 DEF Precedes

(* With any number of lines before it, the head of a line a stop cut short  *)
(* goes past none of them if the last of them is a loss: nothing before it  *)
(* is moved or changed (search.cpp iterative_deepening, operator<).         *)
THEOREM AbandonedLineNeverOvertakes == Spec => AbandonedLineOvertakesNoLoss
<1> DEFINE Held == pc = "deliver" /\ stopFlag /\ pvIdx > 1 /\ IsLoss(rootMoves[pvIdx - 1].score)
                     /\ ~rootMoves[pvIdx].pv.complete =>
                   \A i \in 1 .. pvIdx - 1 : rootMoves'[i] = rootMoves[i]
<1>1. IInv /\ LineInv /\ [Next]_vars => [Held]_vars
  <2> SUFFICES ASSUME IInv, LineInv, Next, pc = "deliver", stopFlag, pvIdx > 1,
                      IsLoss(rootMoves[pvIdx - 1].score), ~rootMoves[pvIdx].pv.complete
               PROVE  rootMoves' = rootMoves
    OBVIOUS
  <2>1. \/ RaiseStop
        \/ DeliverLine
    BY DEF Next, StartIteration, Finish, StartLine, SearchMove, ProbCut, AbandonSearch,
           JudgeWindow, GuardLine, CloseIteration, Stopped
  <2>2. CASE RaiseStop
    BY <2>2 DEF RaiseStop
  <2>3. CASE DeliverLine
    <3>1. /\ rootMoves' = Sorted(rootMoves, pvFirst, pvIdx)
          /\ WholeList(rootMoves) /\ rootMoves \in [1 .. N -> RootMove] /\ N \in Nat
          /\ pvFirst \in 1 .. N /\ pvIdx \in pvFirst .. N /\ pvFirst \in Nat /\ pvIdx \in Nat
          /\ Placed(rootMoves, pvFirst, pvIdx - 1)
          /\ ~Precedes(rootMoves[pvIdx], rootMoves[pvIdx - 1])
      BY <2>3, NType, LinesAssumption
         DEF DeliverLine, IInv, ListInv, WholeList, Places, LineInv, LinesPlaced, N
    <3>2. ASSUME NEW i \in pvFirst .. pvIdx, NEW j \in pvFirst .. pvIdx, i < j
          PROVE  ~Precedes(rootMoves[j], rootMoves[i])
      <4>1. i \in 1 .. N /\ j \in 1 .. N /\ pvIdx - 1 \in 1 .. N /\ i \in pvFirst .. pvIdx - 1
        BY <3>1, <3>2
      <4>2. CASE j < pvIdx
        <5>1. j \in pvFirst .. pvIdx - 1
          BY <3>1, <4>2
        <5> QED BY <3>1, <3>2, <4>1, <5>1 DEF Placed
      <4>3. CASE j = pvIdx /\ i = pvIdx - 1
        BY <3>1, <4>3
      <4>4. CASE j = pvIdx /\ i < pvIdx - 1
        <5>1. pvIdx - 1 \in pvFirst .. pvIdx - 1
          BY <3>1, <4>1
        <5>2. ~Precedes(rootMoves[pvIdx - 1], rootMoves[i])
          BY <3>1, <4>1, <4>4, <5>1 DEF Placed
        <5>3. /\ rootMoves[i] \in RootMove /\ rootMoves[pvIdx - 1] \in RootMove
              /\ rootMoves[pvIdx] \in RootMove
          BY <3>1, <4>1, <4>4
        <5> QED BY <3>1, <4>4, <5>2, <5>3, PrecedesFurther
      <4> QED BY <3>1, <3>2, <4>2, <4>3, <4>4
    <3>3. Placed(rootMoves, pvFirst, pvIdx)
      BY <3>2 DEF Placed
    <3> QED BY <3>1, <3>3, SortedStays
  <2> QED BY <2>1, <2>2, <2>3
<1> QED BY <1>1, Invariants, PTL DEF Spec, AbandonedLineOvertakesNoLoss

(* Once an iteration has ended with a mate at the front, no later one, cut  *)
(* short or not, ends without an exact mate there that is at least as       *)
(* short, or forgets the one it had (search.cpp iterative_deepening).       *)
THEOREM MateIsNeverForgotten == Spec => MateIsNotForgotten
<1> DEFINE Kept == pc = "close" /\ pc' = "iterate" /\ lastBest # None /\ IsMateOrMated(lastBest.score) =>
                     /\ IsExact(rootMoves'[1])
                     /\ Abs(rootMoves'[1].score) >= Abs(lastBest.score)
                     /\ Abs(lastBest'.score) >= Abs(lastBest.score)
<1>1. IInv /\ LineInv /\ [Next]_vars => [Kept]_vars
  <2> SUFFICES ASSUME IInv, LineInv, Next, pc = "close", pc' = "iterate", lastBest # None,
                      IsMateOrMated(lastBest.score)
               PROVE  /\ IsExact(rootMoves'[1])
                      /\ Abs(rootMoves'[1].score) >= Abs(lastBest.score)
                      /\ Abs(lastBest'.score) >= Abs(lastBest.score)
    OBVIOUS
  <2>1. CloseIteration
    BY DEF Next, RaiseStop, StartIteration, Finish, StartLine, SearchMove, ProbCut, AbandonSearch,
           JudgeWindow, GuardLine, DeliverLine, Stopped
  <2>2. /\ lastBest \in [move : Moves, score : Values, pv : Line] /\ lastBest.score # -Infinite
        /\ lastBest.score \in Int /\ rootMoves[1].score # -Infinite
        /\ WholeList(rootMoves) /\ stopFlag \in BOOLEAN
        /\ rootMoves[1] \in RootMove /\ rootMoves[1].score \in Int
    <3>1. lastBest \in [move : Moves, score : Values, pv : Line]
      BY DEF IInv, ListInv
    <3>2. rootMoves[1] \in RootMove
      BY NType DEF IInv, ListInv, WholeList
    <3> QED BY <3>1, <3>2, Scores, ValuesAreEvals DEF IInv, ListInv, Scalars, LineInv, Saved
  <2>3. Abs(lastBest.score) \in Int /\ Abs(rootMoves[1].score) \in Int
    BY <2>2 DEF Abs
  <2>4. ASSUME rootMoves' = RolledBack(lastBest)
        PROVE  IsExact(rootMoves'[1]) /\ Abs(rootMoves'[1].score) >= Abs(lastBest.score)
    <3>1. rootMoves'[1].score = lastBest.score /\ ~IsInexact(rootMoves'[1])
      BY <2>2, <2>4, RolledBackShape
    <3> QED BY <2>2, <2>3, <3>1 DEF IsExact
  <2>5. CASE ForgottenMate
    <3>1. lastBest' = lastBest /\ rootMoves' = RolledBack(lastBest)
      BY <2>1, <2>2, <2>5 DEF CloseIteration
    <3> QED BY <2>3, <2>4, <3>1
  <2>6. CASE ~ForgottenMate
    <3>1. ~(Abs(rootMoves[1].score) < Abs(lastBest.score)) /\ ~IsInexact(rootMoves[1])
      BY <2>2, <2>6 DEF ForgottenMate
    <3>2. Abs(rootMoves[1].score) >= Abs(lastBest.score) /\ IsExact(rootMoves[1])
      BY <2>2, <2>3, <3>1 DEF IsExact
    <3>3. lastBest' = lastBest \/ lastBest' = LastBest(rootMoves[1])
      BY <2>1 DEF CloseIteration
    <3>4. Abs(lastBest'.score) >= Abs(lastBest.score)
      <4>1. LastBest(rootMoves[1]).score = rootMoves[1].score
        BY DEF LastBest
      <4> QED BY <2>3, <3>2, <3>3, <4>1
    <3>5. rootMoves' = rootMoves \/ rootMoves' = RolledBack(lastBest)
      <4>1. PICK up \in {stopFlag, TRUE} :
              rootMoves' = IF ~(AbortedLoss(up) \/ (rootMoves[1].score # -Infinite /\ ForgottenMate))
                           THEN rootMoves
                           ELSE IF lastBest' # None THEN RolledBack(lastBest')
                           ELSE IF AbortedLoss(up) THEN [rootMoves EXCEPT ![1].inexactLower = TRUE]
                           ELSE rootMoves
        BY <2>1 DEF CloseIteration
      <4>2. CASE ~AbortedLoss(up)
        BY <2>6, <4>1, <4>2
      <4>3. CASE AbortedLoss(up)
        <5>1. stopFlag
          BY <4>3 DEF AbortedLoss, LineInv, LossesProven
        <5>2. lastBest' = lastBest
          BY <2>1, <5>1 DEF CloseIteration
        <5> QED BY <4>1, <4>3, <5>2
      <4> QED BY <4>2, <4>3
    <3>6. CASE rootMoves' = rootMoves
      BY <3>2, <3>4, <3>6
    <3>7. CASE rootMoves' = RolledBack(lastBest)
      BY <2>4, <3>4, <3>7
    <3> QED BY <3>5, <3>6, <3>7
  <2> QED BY <2>5, <2>6
<1> QED BY <1>1, Invariants, PTL DEF Spec, MateIsNotForgotten
=============================================================================
