----------------------------- MODULE GraphProofs -----------------------------
(***************************************************************************)
(* What the operators of NeighborGraph compute, and that every step of     *)
(* GraphBuild and GraphFile keeps the graph and its file as they have to   *)
(* be: rows that fit, no way to a deleted node, no live node without a way *)
(* on, and a file that gives back every row.  BeamSearchProofs draws the   *)
(* theorems, since the steps are those of one program with the search.     *)
(*                                                                         *)
(* FoldLeft is no recursion the provers can follow: CommunityModules       *)
(* define it by a function over the subsets of the places.  FoldIs shows   *)
(* once that it is the last state of a walk along the sequence, and every  *)
(* ...Walk lemma says so of one fold of the model.                         *)
(***************************************************************************)
EXTENDS GraphFile, FiniteSetTheorems, SequenceTheorems, TLAPS

-----------------------------------------------------------------------------
\* Counting.

\* What holds of 0 and of a number when it does of the one before.
LEMMA CountUp ==
  ASSUME NEW n \in Nat, NEW T, 0 \in T,
         \A k \in 1 .. n : k - 1 \in T => k \in T
  PROVE  0 .. n \subseteq T /\ n \in T
<1> SUFFICES 0 .. n \subseteq T
  OBVIOUS
<1> DEFINE R == OpToRel(<, Nat)
           B == {k \in 0 .. n : k \notin T}
<1>1. IsWellFoundedOn(R, Nat)
  BY NatLessThanWellFounded
<1>2. \A a, b \in Nat : a < b => <<a, b>> \in R
  BY DEF OpToRel
<1> SUFFICES ASSUME B # {} PROVE FALSE
  OBVIOUS
<1>3. B \subseteq Nat
  OBVIOUS
<1> HIDE DEF R, B
<1>4. PICK k \in B : \A y \in B : ~ (<<y, k>> \in R)
  BY <1>1, <1>3, WFMin
<1>5. k \in 1 .. n /\ k \notin T
  BY DEF B
<1>6. k - 1 \in B
  BY <1>5 DEF B
<1>7. k - 1 \in Nat /\ k \in Nat /\ k - 1 < k
  BY <1>5
<1> QED
  BY <1>2, <1>4, <1>6, <1>7

\* Equally large sets, one of them in the other's place.
LEMMA OneToOneIsOnto ==
  ASSUME NEW S, NEW T, IsFiniteSet(S), IsFiniteSet(T),
         Cardinality(S) = Cardinality(T),
         NEW f \in [S -> T], \A a, b \in S : f[a] = f[b] => a = b
  PROVE  \A t \in T : \E s \in S : f[s] = t
<1>1. f \in Injection(S, T)
  BY DEF Injection, IsInjective
<1> QED
  BY <1>1, FS_Injection DEF Surjection

-----------------------------------------------------------------------------
\* Sorting: the number of elements before an element is its place.

TotalOrder(S, R) ==
  /\ \A a \in S : <<a, a>> \notin R
  /\ \A a, b \in S : a = b \/ <<a, b>> \in R \/ <<b, a>> \in R
  /\ \A a, b, c \in S : <<a, b>> \in R /\ <<b, c>> \in R => <<a, c>> \in R

Ranks(S, R) == [u \in S |-> Cardinality({v \in S : <<v, u>> \in R})]

LEMMA Ranking ==
  ASSUME NEW S, IsFiniteSet(S), NEW R, TotalOrder(S, R)
  PROVE  /\ Cardinality(S) \in Nat
         /\ \A u \in S : Ranks(S, R)[u] \in 0 .. Cardinality(S) - 1
         /\ \A a, b \in S : <<a, b>> \in R <=> Ranks(S, R)[a] < Ranks(S, R)[b]
         /\ \A a, b \in S : Ranks(S, R)[a] = Ranks(S, R)[b] => a = b
         /\ \A i \in 1 .. Cardinality(S) : \E u \in S : Ranks(S, R)[u] = i - 1
<1> SUFFICES ASSUME NEW rank, rank = Ranks(S, R)
    PROVE  /\ Cardinality(S) \in Nat
           /\ \A u \in S : rank[u] \in 0 .. Cardinality(S) - 1
           /\ \A a, b \in S : <<a, b>> \in R <=> rank[a] < rank[b]
           /\ \A a, b \in S : rank[a] = rank[b] => a = b
           /\ \A i \in 1 .. Cardinality(S) : \E u \in S : rank[u] = i - 1
  OBVIOUS
<1> USE DEF TotalOrder, Ranks
<1> DEFINE Below(u) == {v \in S : <<v, u>> \in R}
           n == Cardinality(S)
<1>1. n \in Nat
  BY FS_CardinalityType
<1>2. ASSUME NEW u \in S
      PROVE  /\ IsFiniteSet(Below(u)) /\ rank[u] = Cardinality(Below(u))
             /\ rank[u] \in Nat /\ rank[u] < n
  <2>1. Below(u) \in SUBSET S /\ Below(u) # S
    OBVIOUS
  <2>2. IsFiniteSet(Below(u)) /\ Cardinality(Below(u)) <= n /\ Cardinality(Below(u)) # n
    BY <2>1, FS_Subset
  <2>3. Cardinality(Below(u)) \in Nat
    BY <2>2, FS_CardinalityType
  <2>4. rank[u] = Cardinality(Below(u))
    OBVIOUS
  <2> HIDE DEF Below
  <2> QED
    BY <1>1, <2>2, <2>3, <2>4
<1>3. ASSUME NEW a \in S, NEW b \in S, <<a, b>> \in R
      PROVE  rank[a] < rank[b]
  <2>1. Below(a) \in SUBSET Below(b) /\ a \in Below(b) /\ a \notin Below(a)
    BY <1>3
  <2>2. Cardinality(Below(a)) <= Cardinality(Below(b))
        /\ Cardinality(Below(a)) # Cardinality(Below(b))
    BY <1>2, <2>1, FS_Subset
  <2> HIDE DEF Below
  <2> QED
    BY <1>2, <2>2
<1>4. ASSUME NEW a \in S, NEW b \in S
      PROVE  (<<a, b>> \in R <=> rank[a] < rank[b]) /\ (rank[a] = rank[b] => a = b)
  <2>1. rank[a] \in Nat /\ rank[b] \in Nat
    BY <1>2
  <2>2. <<a, b>> \in R => rank[a] < rank[b]
    BY <1>3
  <2>3. <<b, a>> \in R => rank[b] < rank[a]
    BY <1>3
  <2>4. a = b \/ <<a, b>> \in R \/ <<b, a>> \in R
    OBVIOUS
  <2> QED
    BY <2>1, <2>2, <2>3, <2>4
<1>5. \A i \in 1 .. n : \E u \in S : rank[u] = i - 1
  <2> DEFINE T == 0 .. n - 1
  <2>1. IsFiniteSet(T) /\ Cardinality(T) = n
    <3>1. 0 \in Int /\ n - 1 \in Int
      BY <1>1
    <3> QED
      BY <1>1, <3>1, FS_Interval
  <2>2. rank \in [S -> T]
    <3>1. \A u \in S : rank[u] \in T
      BY <1>1, <1>2
    <3>2. rank = [u \in S |-> rank[u]]
      OBVIOUS
    <3> QED
      BY <3>1, <3>2
  <2> HIDE DEF n
  <2>3. \A t \in T : \E s \in S : rank[s] = t
    <3>1. \A a, b \in S : rank[a] = rank[b] => a = b
      BY <1>4
    <3> HIDE DEF T
    <3> QED
      BY <2>1, <2>2, <3>1, OneToOneIsOnto DEF n
  <2>4. \A i \in 1 .. n : i - 1 \in T
    BY <1>1
  <2> QED
    BY <2>3, <2>4
<1>6. \A u \in S : rank[u] \in 0 .. n - 1
  BY <1>1, <1>2
<1> QED
  BY <1>1, <1>4, <1>5, <1>6

\* s lists S in the order R, every element once.
Lists(s, S, R) ==
  /\ s \in Seq(S) /\ Len(s) = Cardinality(S)
  /\ Range(s) = S /\ IsInjective(s)
  /\ \A i, j \in 1 .. Len(s) : i < j <=> <<s[i], s[j]>> \in R

LEMMA RankedList ==
  ASSUME NEW S, IsFiniteSet(S), NEW R, TotalOrder(S, R),
         NEW s \in [1 .. Cardinality(S) -> S],
         \A i \in 1 .. Cardinality(S) : Ranks(S, R)[s[i]] = i - 1
  PROVE  Lists(s, S, R)
<1> DEFINE n == Cardinality(S)
           rank == Ranks(S, R)
<1>1. /\ n \in Nat
      /\ \A u \in S : rank[u] \in 0 .. n - 1
      /\ \A a, b \in S : <<a, b>> \in R <=> rank[a] < rank[b]
      /\ \A a, b \in S : rank[a] = rank[b] => a = b
  BY Ranking
<1>2. \A i \in 1 .. n : s[i] \in S /\ rank[s[i]] = i - 1
  OBVIOUS
<1> HIDE DEF n, rank
<1>3. s \in Seq(S) /\ Len(s) = n /\ DOMAIN s = 1 .. n
  BY <1>1 DEF n
<1>4. IsInjective(s)
  <2> SUFFICES ASSUME NEW i \in 1 .. n, NEW j \in 1 .. n, s[i] = s[j] PROVE i = j
    BY <1>3 DEF IsInjective
  <2> QED
    BY <1>1, <1>2
<1>5. Range(s) = S
  <2>1. ASSUME NEW u \in S PROVE \E i \in 1 .. n : s[i] = u
    <3>1. rank[u] \in Nat /\ rank[u] <= n - 1
      BY <1>1
    <3>2. PICK i \in 1 .. n : i - 1 = rank[u]
      <4>1. rank[u] + 1 \in 1 .. n /\ (rank[u] + 1) - 1 = rank[u]
        BY <1>1, <3>1
      <4> QED
        BY <4>1
    <3>3. s[i] \in S /\ rank[s[i]] = rank[u]
      BY <1>2, <3>2
    <3> QED
      BY <1>1, <3>3
  <2> QED
    BY <1>2, <1>3, <2>1 DEF Range
<1>6. ASSUME NEW i \in 1 .. n, NEW j \in 1 .. n
      PROVE  i < j <=> <<s[i], s[j]>> \in R
  <2>1. rank[s[i]] = i - 1 /\ rank[s[j]] = j - 1 /\ s[i] \in S /\ s[j] \in S
    BY <1>2
  <2>2. i < j <=> i - 1 < j - 1
    BY <1>1
  <2> QED
    BY <1>1, <2>1, <2>2
<1> QED
  BY <1>3, <1>4, <1>5, <1>6 DEF Lists, n

-----------------------------------------------------------------------------
\* Rows by distance.

LEMMA NodesFinite ==
  /\ N \in Nat \ {0} /\ Degree \in Nat \ {0} /\ IsFiniteSet(Node) /\ Cardinality(Node) = N
  /\ \A S \in SUBSET Node : /\ IsFiniteSet(S) /\ Cardinality(S) \in Nat
                           /\ Cardinality(S) <= N
<1>1. N \in Nat \ {0} /\ Degree \in Nat \ {0}
  BY GraphAssumption
<1>2. IsFiniteSet(Node) /\ Cardinality(Node) = N
  <2>1. 0 \in Int /\ N - 1 \in Int
    BY <1>1
  <2> QED
    BY <1>1, <2>1, FS_Interval DEF Node
<1>3. ASSUME NEW S \in SUBSET Node
      PROVE  IsFiniteSet(S) /\ Cardinality(S) \in Nat /\ Cardinality(S) <= N
  <2>1. IsFiniteSet(S) /\ Cardinality(S) <= N
    BY <1>2, FS_Subset
  <2> QED
    BY <2>1, FS_CardinalityType
<1> QED
  BY <1>1, <1>2, <1>3

LEMMA ByDistanceLists ==
  ASSUME NEW d \in [Node -> Nat], NEW S \in SUBSET Node
  PROVE  /\ ByDistance(d, S) \in Seq(S) /\ Len(ByDistance(d, S)) = Cardinality(S)
         /\ Range(ByDistance(d, S)) = S /\ IsInjective(ByDistance(d, S))
         /\ \A i, j \in 1 .. Cardinality(S) :
              i < j <=> Closer(d, ByDistance(d, S)[i], ByDistance(d, S)[j])
<1> DEFINE R == {p \in S \X S : Closer(d, p[1], p[2])}
           n == Cardinality(S)
           s == ByDistance(d, S)
<1>1. \A u, v \in S : <<u, v>> \in R <=> Closer(d, u, v)
  OBVIOUS
<1>2. \A u \in S : u \in Nat /\ d[u] \in Nat
  BY DEF Node
<1>3. TotalOrder(S, R)
  <2>1. \A u \in S : ~ Closer(d, u, u)
    BY <1>2 DEF Closer
  <2>2. \A u, v \in S : u = v \/ Closer(d, u, v) \/ Closer(d, v, u)
    BY <1>2 DEF Closer
  <2>3. \A u, v, w \in S : Closer(d, u, v) /\ Closer(d, v, w) => Closer(d, u, w)
    BY <1>2 DEF Closer
  <2> QED
    BY <1>1, <2>1, <2>2, <2>3 DEF TotalOrder
<1> HIDE DEF R
<1>4. ASSUME NEW u \in S
      PROVE  Ranks(S, R)[u] = Cardinality({v \in S : Closer(d, v, u)})
  <2>1. {v \in S : <<v, u>> \in R} = {v \in S : Closer(d, v, u)}
    BY <1>1
  <2> QED
    BY <2>1 DEF Ranks
<1>5. IsFiniteSet(S)
  BY NodesFinite
<1>6. \A i \in 1 .. n : \E u \in S : Ranks(S, R)[u] = i - 1
  BY <1>3, <1>5, Ranking
<1>7. s = [i \in 1 .. n |->
             CHOOSE u \in S : Cardinality({v \in S : Closer(d, v, u)}) = i - 1]
  BY DEF ByDistance, Sorted
<1>8. \A i \in 1 .. n : s[i] \in S /\ Ranks(S, R)[s[i]] = i - 1
  <2> SUFFICES ASSUME NEW i \in 1 .. n
               PROVE  s[i] \in S /\ Ranks(S, R)[s[i]] = i - 1
    OBVIOUS
  <2>1. s[i] = CHOOSE u \in S : Cardinality({v \in S : Closer(d, v, u)}) = i - 1
    BY <1>7
  <2>2. \E u \in S : Cardinality({v \in S : Closer(d, v, u)}) = i - 1
    BY <1>4, <1>6
  <2> HIDE DEF s
  <2>3. s[i] \in S /\ Cardinality({v \in S : Closer(d, v, s[i])}) = i - 1
    BY <2>1, <2>2
  <2> QED
    BY <1>4, <2>3
<1>9. s \in [1 .. n -> S]
  BY <1>7, <1>8
<1> HIDE DEF s
<1>10. Lists(s, S, R)
  BY <1>3, <1>5, <1>8, <1>9, RankedList
<1>11. Len(s) = n /\ \A i \in 1 .. n : s[i] \in S
  BY <1>9, <1>10 DEF Lists
<1> QED
  BY <1>1, <1>10, <1>11 DEF Lists, s

-----------------------------------------------------------------------------
\* Least and greatest numbers; parts of a sequence.

LEMMA OfTwo ==
  ASSUME NEW a \in Int, NEW b \in Int
  PROVE  /\ Min({a, b}) = IF a <= b THEN a ELSE b
         /\ Max({a, b}) = IF a <= b THEN b ELSE a
<1> DEFINE m == IF a <= b THEN a ELSE b
           x == IF a <= b THEN b ELSE a
<1>1. m \in {a, b} /\ \A y \in {a, b} : m =< y
  OBVIOUS
<1>2. \A z \in {a, b} : (\A y \in {a, b} : z =< y) => z = m
  OBVIOUS
<1>3. x \in {a, b} /\ \A y \in {a, b} : x >= y
  OBVIOUS
<1>4. \A z \in {a, b} : (\A y \in {a, b} : z >= y) => z = x
  OBVIOUS
<1> HIDE DEF m, x
<1>5. Min({a, b}) = m
  BY <1>1, <1>2 DEF Min
<1>6. Max({a, b}) = x
  BY <1>3, <1>4 DEF Max
<1> QED
  BY <1>5, <1>6 DEF m, x

LEMMA LeastOf ==
  ASSUME NEW S \in SUBSET Nat, S # {}
  PROVE  Min(S) \in S /\ \A x \in S : Min(S) <= x
<1> DEFINE R == OpToRel(<, Nat)
<1>1. IsWellFoundedOn(R, Nat)
  BY NatLessThanWellFounded
<1>2. \A a, b \in Nat : a < b => <<a, b>> \in R
  BY DEF OpToRel
<1> HIDE DEF R
<1>3. PICK m \in S : \A y \in S : ~ (<<y, m>> \in R)
  BY <1>1, WFMin
<1>4. ASSUME NEW x \in S PROVE m =< x
  <2>1. x \in Nat /\ m \in Nat /\ ~ (x < m)
    BY <1>2, <1>3
  <2> QED
    BY <2>1
<1> QED
  BY <1>3, <1>4 DEF Min

LEMMA GreatestOf ==
  ASSUME NEW n \in Nat, NEW S \in SUBSET (0 .. n), S # {}
  PROVE  Max(S) \in S /\ \A x \in S : x <= Max(S)
<1> DEFINE T == {n - x : x \in S}
<1>1. T \in SUBSET Nat /\ T # {}
  <2>1. \A x \in S : n - x \in Nat
    OBVIOUS
  <2> QED
    BY <2>1
<1>2. Min(T) \in T /\ \A t \in T : Min(T) <= t
  BY <1>1, LeastOf
<1>3. PICK m \in S : Min(T) = n - m
  BY <1>2
<1>4. ASSUME NEW x \in S PROVE m >= x
  <2>1. n - x \in T
    OBVIOUS
  <2>2. n - m <= n - x
    BY <1>2, <1>3, <2>1
  <2>3. m \in Int /\ x \in Int /\ n \in Int
    OBVIOUS
  <2> QED
    BY <2>2, <2>3
<1>5. Max(S) \in S /\ \A x \in S : Max(S) >= x
  BY <1>4 DEF Max
<1> QED
  BY <1>5

\* Take is the beginning of a sequence.
LEMMA TakeIs ==
  ASSUME NEW S, NEW s \in Seq(S), NEW n \in Nat
  PROVE  /\ Take(s, n) \in Seq(S)
         /\ Len(Take(s, n)) = IF n <= Len(s) THEN n ELSE Len(s)
         /\ \A i \in 1 .. Len(Take(s, n)) : i \in 1 .. Len(s) /\ Take(s, n)[i] = s[i]
         /\ Range(Take(s, n)) \subseteq Range(s)
         /\ IsInjective(s) => IsInjective(Take(s, n))
         /\ Len(s) <= n => Take(s, n) = s
<1> DEFINE m == IF n <= Len(s) THEN n ELSE Len(s)
           t == Take(s, n)
<1>1. Len(s) \in Nat /\ s \in [1 .. Len(s) -> S] /\ m \in 0 .. Len(s)
  BY LenProperties
<1>2. t = SubSeq(s, 1, m)
  <2>1. Min({n, Len(s)}) = m
    BY <1>1, OfTwo
  <2> QED
    BY <2>1 DEF Take
<1>3. t \in Seq(S) /\ Len(t) = m /\ DOMAIN t = 1 .. m
      /\ \A i \in 1 .. m : i \in 1 .. Len(s) /\ t[i] = s[i]
  <2>1. \A i \in 1 .. m : s[i] \in S
    BY <1>1
  <2> HIDE DEF m
  <2>2. 1 \in Int /\ m \in Int
    BY <1>1
  <2>3. SubSeq(s, 1, m) \in Seq(S)
        /\ Len(SubSeq(s, 1, m)) = (IF 1 <= m THEN m - 1 + 1 ELSE 0)
        /\ \A i \in 1 .. m - 1 + 1 : SubSeq(s, 1, m)[i] = s[1 + i - 1]
    BY <2>1, <2>2, SubSeqProperties
  <2> HIDE DEF t
  <2>4. t \in Seq(S) /\ Len(t) = m
    BY <1>1, <1>2, <2>3
  <2>5. DOMAIN t = 1 .. m
    BY <2>4, LenProperties
  <2>6. \A i \in 1 .. m : i \in 1 .. Len(s) /\ t[i] = s[i]
    BY <1>1, <1>2, <2>3
  <2> QED
    BY <2>4, <2>5, <2>6
<1> HIDE DEF t, m
<1>4. Range(t) \subseteq Range(s)
  <2>1. DOMAIN s = 1 .. Len(s)
    BY LenProperties
  <2> QED
    BY <1>3, <2>1 DEF Range
<1>5. IsInjective(s) => IsInjective(t)
  BY <1>1, <1>3 DEF IsInjective
<1>6. Len(s) <= n => t = s
  <2> SUFFICES ASSUME Len(s) <= n PROVE t = s
    OBVIOUS
  <2>1. m = Len(s)
    <3>1. Len(s) \in Nat
      BY <1>1
    <3> QED
      BY <3>1 DEF m
  <2> QED
    BY <1>3, <2>1, <1>1, SeqEqual
<1> QED
  BY <1>3, <1>4, <1>5, <1>6 DEF m, t

\* The numbers of a set in their order.
Ascending(K) == Sorted(K, LAMBDA i, j : i < j)

LEMMA AscendingLists ==
  ASSUME NEW m \in Nat, NEW K \in SUBSET (1 .. m)
  PROVE  /\ Ascending(K) \in Seq(K) /\ Len(Ascending(K)) = Cardinality(K)
         /\ Cardinality(K) \in 0 .. m
         /\ Range(Ascending(K)) = K /\ IsInjective(Ascending(K))
         /\ K = 1 .. m => Cardinality(K) = m /\ \A k \in 1 .. m : Ascending(K)[k] = k
<1> DEFINE R == {p \in K \X K : p[1] < p[2]}
           n == Cardinality(K)
           s == Ascending(K)
<1>1. \A i, j \in K : <<i, j>> \in R <=> i < j
  OBVIOUS
<1>2. TotalOrder(K, R)
  <2>1. \A i \in K : i \in Int
    OBVIOUS
  <2> HIDE DEF R
  <2> QED
    BY <1>1, <2>1 DEF TotalOrder
<1> HIDE DEF R
<1>3. ASSUME NEW u \in K
      PROVE  Ranks(K, R)[u] = Cardinality({v \in K : v < u})
  <2>1. {v \in K : <<v, u>> \in R} = {v \in K : v < u}
    BY <1>1
  <2> QED
    BY <2>1 DEF Ranks
<1>4. IsFiniteSet(K) /\ n \in 0 .. m
  <2>1. IsFiniteSet(1 .. m) /\ Cardinality(1 .. m) = m
    <3>1. 1 \in Int /\ m \in Int
      OBVIOUS
    <3> QED
      BY <3>1, FS_Interval
  <2>2. IsFiniteSet(K) /\ n <= m
    BY <2>1, FS_Subset
  <2>3. n \in Nat
    BY <2>2, FS_CardinalityType
  <2> QED
    BY <2>2, <2>3
<1>5. \A i \in 1 .. n : \E u \in K : Ranks(K, R)[u] = i - 1
  <2>1. \A S : IsFiniteSet(S) /\ TotalOrder(S, R)
          => \A i \in 1 .. Cardinality(S) : \E u \in S : Ranks(S, R)[u] = i - 1
    BY Ranking
  <2>2. IsFiniteSet(K) /\ TotalOrder(K, R)
    BY <1>2, <1>4
  <2> QED
    BY <2>1, <2>2, Zenon
<1>6. s = [i \in 1 .. n |-> CHOOSE u \in K : Cardinality({v \in K : v < u}) = i - 1]
  BY DEF Ascending, Sorted
<1>7. \A i \in 1 .. n : s[i] \in K /\ Ranks(K, R)[s[i]] = i - 1
  <2> SUFFICES ASSUME NEW i \in 1 .. n
               PROVE  s[i] \in K /\ Ranks(K, R)[s[i]] = i - 1
    OBVIOUS
  <2>1. s[i] = CHOOSE u \in K : Cardinality({v \in K : v < u}) = i - 1
    BY <1>6
  <2>2. \E u \in K : Cardinality({v \in K : v < u}) = i - 1
    BY <1>3, <1>5
  <2> HIDE DEF s
  <2>3. s[i] \in K /\ Cardinality({v \in K : v < s[i]}) = i - 1
    BY <2>1, <2>2
  <2> QED
    BY <1>3, <2>3
<1>8. s \in [1 .. n -> K]
  BY <1>6, <1>7
<1> HIDE DEF s
<1>9. Lists(s, K, R)
  BY <1>2, <1>4, <1>7, <1>8, RankedList
<1>10. K = 1 .. m => n = m /\ \A k \in 1 .. m : s[k] = k
  <2> SUFFICES ASSUME K = 1 .. m PROVE n = m /\ \A k \in 1 .. m : s[k] = k
    OBVIOUS
  <2>1. n = m
    <3>1. 1 \in Int /\ m \in Int
      OBVIOUS
    <3> QED
      BY <3>1, FS_Interval
  <2>2. ASSUME NEW k \in 1 .. m PROVE s[k] = k
    <3>1. PICK c \in 1 .. m : c = s[k] /\ Cardinality({v \in K : v < c}) = k - 1
      BY <1>3, <1>7, <2>1
    <3>2. {v \in K : v < c} = 1 .. c - 1
      OBVIOUS
    <3>3. Cardinality(1 .. c - 1) = c - 1
      <4>1. 1 \in Int /\ c - 1 \in Int /\ c >= 1
        OBVIOUS
      <4>2. Cardinality(1 .. c - 1) = IF 1 > c - 1 THEN 0 ELSE c - 1 - 1 + 1
        BY <4>1, FS_Interval
      <4> QED
        BY <4>1, <4>2
    <3>4. k - 1 = c - 1
      BY <3>1, <3>2, <3>3
    <3>5. k \in Int /\ c \in Int
      OBVIOUS
    <3>6. k = c
      BY <3>4, <3>5
    <3> QED
      BY <3>1, <3>6
  <2> QED
    BY <2>1, <2>2
<1> QED
  BY <1>4, <1>9, <1>10 DEF Lists, s

\* Keep leaves the elements of T, and leaves them as they were.
LEMMA KeepIs ==
  ASSUME NEW S, NEW s \in Seq(S), NEW T
  PROVE  /\ Keep(s, T) \in Seq(S) /\ Len(Keep(s, T)) <= Len(s)
         /\ Range(Keep(s, T)) = Range(s) \cap T
         /\ IsInjective(s) => IsInjective(Keep(s, T))
         /\ Range(s) \subseteq T => Keep(s, T) = s
<1> DEFINE m == Len(s)
           K == {i \in DOMAIN s : s[i] \in T}
           n == Cardinality(K)
           at == Ascending(K)
           t == Keep(s, T)
<1>1. m \in Nat /\ DOMAIN s = 1 .. m /\ \A i \in 1 .. m : s[i] \in S
  BY LenProperties
<1>2. K \in SUBSET (1 .. m)
  BY <1>1
<1>3. \A i \in 1 .. m : i \in K <=> s[i] \in T
  BY <1>1
<1>4. t = [k \in DOMAIN at |-> s[at[k]]]
  BY DEF Keep, Ascending
<1> HIDE DEF t, K, m
<1>5. /\ at \in Seq(K) /\ Len(at) = n /\ n \in 0 .. m
      /\ Range(at) = K /\ IsInjective(at)
      /\ K = 1 .. m => n = m /\ \A k \in 1 .. m : at[k] = k
  BY <1>1, <1>2, AscendingLists
<1> HIDE DEF at, n
<1>6. DOMAIN at = 1 .. n /\ \A k \in 1 .. n : at[k] \in K
  BY <1>5, LenProperties
<1>7. \A k \in 1 .. n : t[k] = s[at[k]] /\ at[k] \in 1 .. m /\ t[k] \in S /\ t[k] \in T
  BY <1>1, <1>2, <1>3, <1>4, <1>6
<1>8. t \in [1 .. n -> S] /\ DOMAIN t = 1 .. n
  BY <1>4, <1>6, <1>7
<1>9. t \in Seq(S) /\ Len(t) = n
  <2>1. n \in Nat
    BY <1>1, <1>5
  <2> QED
    BY <1>8, <2>1
<1>10. Len(t) <= m
  BY <1>1, <1>5, <1>9
<1>11. Range(t) = Range(s) \cap T
  <2>1. Range(t) \subseteq Range(s) \cap T
    BY <1>1, <1>7, <1>8 DEF Range
  <2>2. ASSUME NEW i \in 1 .. m, s[i] \in T PROVE s[i] \in Range(t)
    <3>1. i \in Range(at)
      BY <1>3, <1>5, <2>2
    <3>2. PICK k \in 1 .. n : at[k] = i
      BY <1>6, <3>1 DEF Range
    <3> QED
      BY <1>7, <1>8, <3>2 DEF Range
  <2> QED
    BY <1>1, <2>1, <2>2 DEF Range
<1>12. IsInjective(s) => IsInjective(t)
  <2> SUFFICES ASSUME IsInjective(s), NEW a \in 1 .. n, NEW b \in 1 .. n, t[a] = t[b]
               PROVE  a = b
    BY <1>8 DEF IsInjective
  <2>1. at[a] = at[b]
    BY <1>1, <1>7 DEF IsInjective
  <2> QED
    BY <1>5, <1>6, <2>1 DEF IsInjective
<1>13. Range(s) \subseteq T => t = s
  <2> SUFFICES ASSUME Range(s) \subseteq T PROVE t = s
    OBVIOUS
  <2>1. \A i \in 1 .. m : s[i] \in T
    BY <1>1 DEF Range
  <2>2. K = 1 .. m
    BY <1>2, <1>3, <2>1
  <2>3. Len(t) = m /\ \A k \in 1 .. m : t[k] = s[k]
    BY <1>5, <1>7, <1>9, <2>2
  <2> QED
    BY <1>9, <2>3, SeqEqual DEF m
<1> QED
  BY <1>9, <1>10, <1>11, <1>12, <1>13 DEF m, t

-----------------------------------------------------------------------------
\* Folds.  FoldLeft is defined over the subsets of the sequence's places.
\* What the proofs use of it is that it walks from state to state, one step
\* for every element.

IsWalk(st, n, X, base, F) ==
  /\ st \in [0 .. n -> X] /\ st[0] = base
  /\ \A k \in 1 .. n : st[k - 1] \in X /\ st[k] = F[<<st[k - 1], k>>]

LEMMA WalkExists ==
  ASSUME NEW n \in Nat, NEW X, NEW base \in X, NEW F \in [X \X (1 .. n) -> X]
  PROVE  \E st : IsWalk(st, n, X, base, F)
<1> DEFINE T == {m \in 0 .. n : \E st : IsWalk(st, m, X, base, F)}
<1>1. 0 \in T
  <2> DEFINE st == [k \in 0 .. 0 |-> base]
  <2>1. st \in [0 .. 0 -> X] /\ st[0] = base
    OBVIOUS
  <2> HIDE DEF st
  <2>2. IsWalk(st, 0, X, base, F)
    BY <2>1 DEF IsWalk
  <2> QED
    BY <2>2
<1>2. ASSUME NEW m \in 1 .. n, m - 1 \in T
      PROVE  m \in T
  <2>1. PICK st : IsWalk(st, m - 1, X, base, F)
    BY <1>2
  <2> DEFINE nx == F[<<st[m - 1], m>>]
             su == [k \in 0 .. m |-> IF k = m THEN nx ELSE st[k]]
  <2>2. m - 1 \in 0 .. m - 1 /\ st[m - 1] \in X
    BY <2>1 DEF IsWalk
  <2>3. nx \in X
    BY <2>2
  <2> HIDE DEF nx
  <2>4. su \in [0 .. m -> X]
    BY <2>1, <2>3 DEF IsWalk
  <2>5. su[0] = base
    BY <2>1 DEF IsWalk
  <2>6. ASSUME NEW k \in 1 .. m PROVE su[k] = F[<<su[k - 1], k>>]
    <3>1. CASE k = m
      <4>1. su[k] = nx /\ su[k - 1] = st[m - 1]
        BY <3>1
      <4> QED
        BY <3>1, <4>1 DEF nx
    <3>2. CASE k # m
      <4>1. k \in 1 .. m - 1 /\ k - 1 \in 0 .. m /\ k - 1 # m
        BY <3>2
      <4>2. su[k] = st[k] /\ su[k - 1] = st[k - 1]
        BY <3>2, <4>1
      <4> QED
        BY <2>1, <4>1, <4>2 DEF IsWalk
    <3> QED
      BY <3>1, <3>2
  <2> HIDE DEF su
  <2>7. \A k \in 1 .. m : su[k - 1] \in X
    BY <2>4
  <2>8. IsWalk(su, m, X, base, F)
    BY <2>4, <2>5, <2>6, <2>7 DEF IsWalk
  <2> QED
    BY <2>8
<1> HIDE DEF T
<1>3. n \in T
  BY <1>1, <1>2, CountUp
<1> QED
  BY <1>3 DEF T

\* A walk for every subset at once; steps that are not in the subset stand.
AreWalks(st, n, X, base, F) ==
  \A t \in SUBSET (1 .. n) :
    /\ \A k \in 0 .. n : st[k][t] \in X
    /\ st[0][t] = base
    /\ \A k \in 1 .. n :
         st[k][t] = IF k \in t THEN F[<<st[k - 1][t], k>>] ELSE st[k - 1][t]

LEMMA SubsetWalks ==
  ASSUME NEW n \in Nat, NEW X, NEW base \in X, NEW F \in [X \X (1 .. n) -> X]
  PROVE  \E st : AreWalks(st, n, X, base, F)
<1> DEFINE D == 1 .. n
           Y == [SUBSET D -> X]
           nx(p, t) == IF p[2] \in t THEN F[<<p[1][t], p[2]>>] ELSE p[1][t]
           G == [p \in Y \X D |-> [t \in SUBSET D |-> nx(p, t)]]
           none == [t \in SUBSET D |-> base]
<1>1. none \in Y
  OBVIOUS
<1>2. G \in [Y \X D -> Y]
  <2>1. ASSUME NEW p \in Y \X D
        PROVE  [t \in SUBSET D |-> nx(p, t)] \in Y
    <3>1. p[1] \in Y /\ p[2] \in D
      OBVIOUS
    <3>2. ASSUME NEW t \in SUBSET D PROVE p[1][t] \in X /\ F[<<p[1][t], p[2]>>] \in X
      <4>1. p[1][t] \in X
        BY <3>1
      <4>2. <<p[1][t], p[2]>> \in X \X D
        BY <3>1, <4>1
      <4> QED
        BY <4>1, <4>2
    <3>3. \A t \in SUBSET D : nx(p, t) \in X
      BY <3>2
    <3> HIDE DEF nx, D
    <3> QED
      BY <3>3
  <2> HIDE DEF nx, Y, D
  <2> QED
    BY <2>1
<1> HIDE DEF Y, G, none
<1>3. PICK st : IsWalk(st, n, Y, none, G)
  BY <1>1, <1>2, WalkExists
<1>4. ASSUME NEW t \in SUBSET D
      PROVE  /\ \A k \in 0 .. n : st[k][t] \in X
             /\ st[0][t] = base
             /\ \A k \in 1 .. n :
                  st[k][t] = IF k \in t THEN F[<<st[k - 1][t], k>>] ELSE st[k - 1][t]
  <2>1. st[0][t] = base
    BY <1>3 DEF none, IsWalk
  <2>2. ASSUME NEW k \in 1 .. n
        PROVE  st[k][t] = IF k \in t THEN F[<<st[k - 1][t], k>>] ELSE st[k - 1][t]
    <3>1. k - 1 \in 0 .. n /\ st[k - 1] \in Y
      BY <1>3 DEF IsWalk
    <3>2. st[k] = G[<<st[k - 1], k>>]
      BY <1>3 DEF IsWalk
    <3> QED
      BY <3>1, <3>2 DEF G
  <2>3. \A k \in 0 .. n : st[k] \in Y
    BY <1>3 DEF IsWalk
  <2>4. \A k \in 0 .. n : st[k][t] \in X
    BY <2>3 DEF Y
  <2> QED
    BY <2>1, <2>2, <2>4
<1>5. AreWalks(st, n, X, base, F)
  BY <1>4 DEF AreWalks
<1> QED
  BY <1>5

\* What h is over the subsets of the places is what FoldLeft computes.
IsFold(h, n, X, base, F) ==
  /\ h[{}] = base
  /\ \A t \in (SUBSET (1 .. n)) \ {{}} :
       h[t \ {Max(t)}] \in X => h[t] = F[<<h[t \ {Max(t)}], Max(t)>>]

LEMMA FoldIs ==
  ASSUME NEW n \in Nat, NEW X, NEW base \in X, NEW F \in [X \X (1 .. n) -> X]
  PROVE  \E st : /\ IsWalk(st, n, X, base, F)
                 /\ \A h : IsFold(h, n, X, base, F) => h[1 .. n] = st[n]
                 /\ \E g \in [SUBSET (1 .. n) -> X] : IsFold(g, n, X, base, F)
<1> DEFINE D == 1 .. n
<1>1. PICK w : AreWalks(w, n, X, base, F)
  BY SubsetWalks
<1>2. ASSUME NEW t \in SUBSET D
      PROVE  /\ \A k \in 0 .. n : w[k][t] \in X
             /\ w[0][t] = base
             /\ \A k \in 1 .. n :
                  w[k][t] = IF k \in t THEN F[<<w[k - 1][t], k>>] ELSE w[k - 1][t]
  BY <1>1 DEF AreWalks
\* A walk of a subset knows only the places behind it ...
<1>3. ASSUME NEW k \in 0 .. n, NEW t \in SUBSET D, NEW u \in SUBSET D,
             t \cap (1 .. k) = u \cap (1 .. k)
      PROVE  w[k][t] = w[k][u]
  <2> DEFINE T == {j \in 0 .. n : j <= k => w[j][t] = w[j][u]}
  <2>1. 0 \in T
    BY <1>2
  <2>2. ASSUME NEW j \in 1 .. n, j - 1 \in T PROVE j \in T
    <3> SUFFICES ASSUME j <= k PROVE w[j][t] = w[j][u]
      OBVIOUS
    <3>1. w[j - 1][t] = w[j - 1][u]
      BY <2>2
    <3>2. j \in t <=> j \in u
      BY <1>3
    <3>3. w[j][t] = IF j \in t THEN F[<<w[j - 1][t], j>>] ELSE w[j - 1][t]
      BY <1>2
    <3>4. w[j][u] = IF j \in u THEN F[<<w[j - 1][u], j>>] ELSE w[j - 1][u]
      BY <1>2
    <3> QED
      BY <3>1, <3>2, <3>3, <3>4
  <2> HIDE DEF T
  <2>3. 0 .. n \subseteq T
    BY <2>1, <2>2, CountUp
  <2>4. k \in T
    BY <2>3
  <2> QED
    BY <2>4 DEF T
\* ... and stands when it has left the last of them behind.
<1>4. ASSUME NEW k \in 0 .. n, NEW t \in SUBSET (1 .. k)
      PROVE  w[n][t] = w[k][t]
  <2> DEFINE T == {j \in 0 .. n : k <= j => w[j][t] = w[k][t]}
  <2>1. 0 \in T
    OBVIOUS
  <2>2. ASSUME NEW j \in 1 .. n, j - 1 \in T PROVE j \in T
    <3> SUFFICES ASSUME k < j PROVE w[j][t] = w[k][t]
      OBVIOUS
    <3>1. w[j - 1][t] = w[k][t] /\ j \notin t
      BY <2>2
    <3>2. t \in SUBSET D
      OBVIOUS
    <3> QED
      BY <1>2, <3>1, <3>2
  <2> HIDE DEF T
  <2>3. n \in T
    BY <2>1, <2>2, CountUp
  <2> QED
    BY <2>3 DEF T
<1> DEFINE g == [t \in SUBSET D |-> w[n][t]]
           st == [k \in 0 .. n |-> w[k][D]]
<1>5. g \in [SUBSET D -> X]
  BY <1>2
<1>6. \A t \in SUBSET D : g[t] = w[n][t] /\ g[t] \in X
  BY <1>2
<1> HIDE DEF g
<1>7. ASSUME NEW t \in SUBSET D, t # {}
      PROVE  /\ Max(t) \in 1 .. n /\ Max(t) \in t /\ t \in SUBSET (1 .. Max(t))
             /\ t \ {Max(t)} \in SUBSET (1 .. Max(t) - 1)
  <2>1. t \in SUBSET (0 .. n)
    OBVIOUS
  <2> DEFINE m == Max(t)
  <2>2. m \in t /\ \A x \in t : x <= m
    BY <1>7, <2>1, GreatestOf
  <2> HIDE DEF m
  <2>3. m \in 1 .. n
    BY <2>2
  <2>4. \A x \in t : x \in 1 .. m /\ (x # m => x \in 1 .. m - 1)
    BY <2>2, <2>3
  <2>5. t \in SUBSET (1 .. m) /\ t \ {m} \in SUBSET (1 .. m - 1)
    BY <2>4
  <2> QED
    BY <2>2, <2>3, <2>5 DEF m
<1>8. ASSUME NEW t \in SUBSET D, t # {}
      PROVE  g[t] = F[<<g[t \ {Max(t)}], Max(t)>>]
  <2>1. PICK m \in 1 .. n : m = Max(t)
    BY <1>7, <1>8
  <2> DEFINE u == t \ {m}
  <2>2. m \in t /\ t \in SUBSET (1 .. m) /\ u \in SUBSET (1 .. m - 1)
    BY <1>7, <1>8, <2>1
  <2>3. w[n][t] = w[m][t] /\ w[n][u] = w[m - 1][u]
    BY <1>4, <2>2
  <2>4. w[m][t] = F[<<w[m - 1][t], m>>]
    BY <1>2, <2>2
  <2>5. w[m - 1][t] = w[m - 1][u]
    <3>1. t \cap (1 .. m - 1) = u \cap (1 .. m - 1)
      OBVIOUS
    <3>2. m - 1 \in 0 .. n /\ u \in SUBSET D
      BY <2>2
    <3> QED
      BY <1>3, <3>1, <3>2
  <2>6. g[t] = w[n][t] /\ g[u] = w[n][u]
    <3>1. u \in SUBSET D
      BY <2>2
    <3> QED
      BY <1>6, <3>1
  <2> QED
    BY <2>1, <2>3, <2>4, <2>5, <2>6
<1>9. g[{}] = base
  <2>1. {} \in SUBSET D /\ {} \in SUBSET (1 .. 0) /\ 0 \in 0 .. n
    OBVIOUS
  <2>2. g[{}] = w[n][{}] /\ w[n][{}] = w[0][{}]
    BY <1>4, <1>6, <2>1
  <2> QED
    BY <1>2, <2>1, <2>2
<1>10. IsFold(g, n, X, base, F)
  <2>1. \A t \in (SUBSET D) \ {{}} : g[t] = F[<<g[t \ {Max(t)}], Max(t)>>]
    BY <1>8
  <2> QED
    BY <1>9, <2>1 DEF IsFold
<1>11. ASSUME NEW h, IsFold(h, n, X, base, F)
       PROVE  h[D] = g[D]
  <2> DEFINE T == {k \in 0 .. n : \A t \in SUBSET (1 .. k) : h[t] = g[t]}
  <2>0. h[{}] = g[{}]
    BY <1>9, <1>11 DEF IsFold
  <2>1. 0 \in T
    <3>1. \A t \in SUBSET (1 .. 0) : t = {}
      OBVIOUS
    <3>2. \A t \in SUBSET (1 .. 0) : h[t] = g[t]
      BY <2>0, <3>1
    <3> QED
      BY <3>2
  <2>2. ASSUME NEW k \in 1 .. n, k - 1 \in T PROVE k \in T
    <3>0. k \in 0 .. n
      OBVIOUS
    <3> SUFFICES ASSUME NEW t \in SUBSET (1 .. k) PROVE h[t] = g[t]
      BY <3>0, Zenon
    <3>1. CASE t = {}
      BY <2>0, <3>1
    <3>2. CASE t # {}
      <4>0. 1 .. k \subseteq D
        OBVIOUS
      <4>1. t \in (SUBSET D) \ {{}}
        BY <3>2, <4>0
      <4>2. PICK m \in 1 .. n : m = Max(t)
        BY <1>7, <4>1
      <4> DEFINE u == t \ {m}
      <4>3. m \in t /\ u \in SUBSET (1 .. m - 1)
        <5>1. t \in SUBSET D /\ t # {}
          BY <4>1
        <5> QED
          BY <1>7, <4>2, <5>1
      <4>4. m <= k /\ u \in SUBSET (1 .. k - 1)
        BY <4>3
      <4>5. h[u] = g[u]
        BY <2>2, <4>4
      <4>6. u \in SUBSET D
        BY <4>1
      <4>7. h[u] \in X
        BY <1>6, <4>5, <4>6
      <4>8. h[t] = F[<<h[u], m>>]
        BY <1>11, <4>1, <4>2, <4>7 DEF IsFold
      <4> QED
        BY <1>8, <4>1, <4>2, <4>5, <4>8
    <3> QED
      BY <3>1, <3>2
  <2> HIDE DEF T
  <2>3. n \in T
    BY <2>1, <2>2, CountUp
  <2> QED
    BY <2>3 DEF T
<1>12. IsWalk(st, n, X, base, F)
  <2>1. D \in SUBSET D
    OBVIOUS
  <2>2. st \in [0 .. n -> X] /\ st[0] = base
    BY <1>2, <2>1
  <2>3. ASSUME NEW k \in 1 .. n PROVE st[k] = F[<<st[k - 1], k>>]
    <3>1. k \in 0 .. n /\ k - 1 \in 0 .. n /\ k \in D
      OBVIOUS
    <3> QED
      BY <1>2, <2>1, <3>1
  <2>4. \A k \in 1 .. n : st[k - 1] \in X
    BY <1>2, <2>1
  <2> QED
    BY <2>2, <2>3, <2>4 DEF IsWalk
<1>13. st[n] = g[D]
  BY <1>6
<1>14. \A h : IsFold(h, n, X, base, F) => h[1 .. n] = st[n]
  BY <1>11, <1>13
<1> HIDE DEF st
<1> QED
  BY <1>5, <1>10, <1>12, <1>14

\* The last place of a set of places, and the set without it.
LEMMA LastPlace ==
  ASSUME NEW n \in Nat, NEW t \in SUBSET (1 .. n), t # {}
  PROVE  /\ Max(t) \in 1 .. n /\ Max(t) \in t
         /\ t \ {Max(t)} \in SUBSET (1 .. n)
<1>1. t \in SUBSET (0 .. n)
  OBVIOUS
<1>2. Max(t) \in t
  BY <1>1, GreatestOf
<1> QED
  BY <1>2

-----------------------------------------------------------------------------
\* RobustPrune.

\* One step of the loop.
PickNext(u, row, c) ==
  IF /\ Len(row) < EffectiveDegree
     /\ \A i \in DOMAIN row : ~Occludes(row[i], u, c)
  THEN Append(row, c) ELSE row

PickAll(u, list) == FoldLeft(LAMBDA row, c : PickNext(u, row, c), << >>, list)

LEMMA PruneIsPick ==
  ASSUME NEW u, NEW S, NEW dead, u \notin dead
  PROVE  RobustPrune(u, S, dead) = PickAll(u, ByDistance(Dist[u], S \ ({u} \cup dead)))
BY DEF RobustPrune, PickAll, PickNext

LEMMA PickWalk ==
  ASSUME NEW u, NEW list \in Seq(Node)
  PROVE  \E st \in [0 .. Len(list) -> Seq(Node)] :
           /\ st[0] = << >> /\ PickAll(u, list) = st[Len(list)]
           /\ \A k \in 1 .. Len(list) : st[k] = PickNext(u, st[k - 1], list[k])
<1> DEFINE n == Len(list)
           X == Seq(Node)
           F == [p \in X \X (1 .. n) |-> PickNext(u, p[1], list[p[2]])]
           Rec(h) == [t \in SUBSET (1 .. n) |->
                        IF t = {} THEN << >>
                        ELSE PickNext(u, h[t \ {Max(t)}], list[Max(t)])]
           fold == CHOOSE h : h = Rec(h)
<1>1. n \in Nat /\ DOMAIN list = 1 .. n /\ \A i \in 1 .. n : list[i] \in Node
  BY LenProperties
<1>2. PickAll(u, list) = fold[1 .. n]
  BY <1>1 DEF PickAll, FoldLeft, MapThenFoldSet
<1> HIDE DEF n, X
<1>3. \A row \in X, c \in Node : PickNext(u, row, c) \in X
  BY AppendProperties DEF PickNext, X
<1>4. << >> \in X
  BY DEF X
<1>5. F \in [X \X (1 .. n) -> X]
      /\ \A row \in X, i \in 1 .. n : F[<<row, i>>] = PickNext(u, row, list[i])
  BY <1>1, <1>3
<1> HIDE DEF F
<1>6. PICK st : /\ IsWalk(st, n, X, << >>, F)
                /\ \A h : IsFold(h, n, X, << >>, F) => h[1 .. n] = st[n]
                /\ \E g \in [SUBSET (1 .. n) -> X] : IsFold(g, n, X, << >>, F)
  BY <1>1, <1>4, <1>5, FoldIs
<1>7. fold = Rec(fold)
  <2>1. PICK g \in [SUBSET (1 .. n) -> X] : IsFold(g, n, X, << >>, F)
    BY <1>6
  <2>2. g = Rec(g)
    BY <1>1, <1>5, <2>1, LastPlace DEF IsFold
  <2> QED
    BY <2>2
<1> HIDE DEF fold
<1>8. IsFold(fold, n, X, << >>, F)
  BY <1>1, <1>5, <1>7, LastPlace DEF IsFold
<1>9. \A k \in 1 .. n : st[k] = PickNext(u, st[k - 1], list[k])
  BY <1>5, <1>6 DEF IsWalk
<1> QED
  BY <1>2, <1>6, <1>8, <1>9 DEF n, X, IsWalk

LEMMA AppendIs ==
  ASSUME NEW S, NEW s \in Seq(S), NEW e \in S
  PROVE  /\ Append(s, e) \in Seq(S) /\ Len(Append(s, e)) = Len(s) + 1
         /\ Append(s, e) # << >>
         /\ Range(Append(s, e)) = Range(s) \cup {e}
         /\ IsInjective(s) /\ e \notin Range(s) => IsInjective(Append(s, e))
         /\ Append(s, e)[Len(s) + 1] = e
         /\ \A i \in 1 .. Len(s) : Append(s, e)[i] = s[i]
<1> DEFINE t == Append(s, e)
           n == Len(s)
<1>1. n \in Nat /\ DOMAIN s = 1 .. n
  BY LenProperties
<1>2. /\ t \in Seq(S) /\ Len(t) = n + 1 /\ t # << >>
      /\ \A i \in 1 .. n : t[i] = s[i]
      /\ t[n + 1] = e
  BY AppendProperties
<1> HIDE DEF t, n
<1>3. DOMAIN t = 1 .. n + 1
  BY <1>2, LenProperties
<1>4. Range(t) = Range(s) \cup {e}
  <2>1. \A i \in 1 .. n + 1 : i \in 1 .. n \/ i = n + 1
    BY <1>1
  <2>2. Range(t) \subseteq Range(s) \cup {e}
    BY <1>1, <1>2, <1>3, <2>1 DEF Range
  <2>3. Range(s) \subseteq Range(t)
    BY <1>1, <1>2, <1>3 DEF Range
  <2>4. e \in Range(t)
    BY <1>1, <1>2, <1>3 DEF Range
  <2> QED
    BY <2>2, <2>3, <2>4
<1>5. IsInjective(s) /\ e \notin Range(s) => IsInjective(t)
  <2> SUFFICES ASSUME IsInjective(s), e \notin Range(s),
                      NEW i \in 1 .. n + 1, NEW j \in 1 .. n + 1, t[i] = t[j]
               PROVE  i = j
    BY <1>3 DEF IsInjective
  <2>1. (i \in 1 .. n \/ i = n + 1) /\ (j \in 1 .. n \/ j = n + 1)
    BY <1>1
  <2>2. \A k \in 1 .. n : t[k] # e
    BY <1>1, <1>2 DEF Range
  <2>3. i \in 1 .. n /\ j \in 1 .. n => s[i] = s[j]
    BY <1>2
  <2> QED
    BY <1>1, <1>2, <2>1, <2>2, <2>3 DEF IsInjective
<1> QED
  BY <1>2, <1>4, <1>5 DEF t, n

LEMMA EffectiveDegreeIs ==
  /\ EffectiveDegree \in Nat /\ EffectiveDegree <= Degree /\ EffectiveDegree <= N - 1
  /\ N > 1 => EffectiveDegree > 0
<1>1. N \in Nat \ {0} /\ Degree \in Nat \ {0}
  BY GraphAssumption
<1>2. N - 1 \in Int /\ Degree \in Int
  BY <1>1
<1>3. EffectiveDegree = IF Degree <= N - 1 THEN Degree ELSE N - 1
  BY <1>2, OfTwo DEF EffectiveDegree
<1> QED
  BY <1>1, <1>3

\* What RobustPrune makes of any candidates: a row that fits, names no node
\* twice, and is not empty when there is a candidate.
LEMMA PruneIs ==
  ASSUME NEW u \in Node, NEW S \in SUBSET Node, NEW dead
  PROVE  /\ RobustPrune(u, S, dead) \in Seq(Node)
         /\ Len(RobustPrune(u, S, dead)) <= EffectiveDegree
         /\ IsInjective(RobustPrune(u, S, dead))
         /\ Range(RobustPrune(u, S, dead)) \subseteq S \ ({u} \cup dead)
         /\ u \in dead => RobustPrune(u, S, dead) = << >>
         /\ u \notin dead /\ S \ ({u} \cup dead) # {} => RobustPrune(u, S, dead) # << >>
<1>1. CASE u \in dead
  <2>1. RobustPrune(u, S, dead) = << >>
    BY <1>1 DEF RobustPrune
  <2> QED
    BY <1>1, <2>1, EffectiveDegreeIs DEF Range, IsInjective
<1>2. CASE u \notin dead
  <2> DEFINE C == S \ ({u} \cup dead)
             list == ByDistance(Dist[u], C)
             n == Len(list)
             row == RobustPrune(u, S, dead)
  <2>1. Dist[u] \in [Node -> Nat] /\ C \in SUBSET Node
    BY GraphAssumption
  <2> HIDE DEF C
  <2>2. list \in Seq(C) /\ n = Cardinality(C) /\ Range(list) = C /\ IsInjective(list)
    BY <2>1, ByDistanceLists
  <2>3. row = PickAll(u, list)
    BY <1>2, PruneIsPick DEF C
  <2> HIDE DEF list, row
  <2>4. list \in Seq(Node) /\ n \in Nat /\ DOMAIN list = 1 .. n /\ \A i \in 1 .. n : list[i] \in C
    BY <2>1, <2>2, LenProperties, SeqMonotonic
  <2> HIDE DEF n
  <2>5. PICK st \in [0 .. n -> Seq(Node)] :
          /\ st[0] = << >> /\ PickAll(u, list) = st[n]
          /\ \A k \in 1 .. n : st[k] = PickNext(u, st[k - 1], list[k])
    BY <2>4, PickWalk, ZenonT(60) DEF n
  <2> DEFINE P(k) == /\ Len(st[k]) <= EffectiveDegree /\ IsInjective(st[k])
                     /\ Range(st[k]) \subseteq {list[i] : i \in 1 .. k}
                     /\ k > 0 /\ EffectiveDegree > 0 => st[k] # << >>
             T == {k \in 0 .. n : P(k)}
  <2>6. 0 \in T
    <3>1. P(0)
      BY <2>5, EffectiveDegreeIs DEF Range, IsInjective
    <3> QED
      BY <2>4, <3>1
  <2>7. ASSUME NEW k \in 1 .. n, k - 1 \in T PROVE k \in T
    <3> DEFINE old == st[k - 1]
               c == list[k]
    <3>1. old \in Seq(Node) /\ st[k] = PickNext(u, old, c) /\ c \in Node
      BY <2>1, <2>4, <2>5
    <3>2. /\ Len(old) <= EffectiveDegree /\ IsInjective(old)
          /\ Range(old) \subseteq {list[i] : i \in 1 .. k - 1}
          /\ k - 1 > 0 /\ EffectiveDegree > 0 => old # << >>
      BY <2>7
    <3>3. c \notin Range(old)
      <4>1. \A i \in 1 .. k - 1 : list[i] # c
        BY <2>2, <2>4 DEF IsInjective
      <4> HIDE DEF old, c
      <4> QED
        BY <3>2, <4>1
    <3>4. {list[i] : i \in 1 .. k - 1} \cup {c} \subseteq {list[i] : i \in 1 .. k}
      OBVIOUS
    <3> HIDE DEF old, c
    <3>5. Len(old) \in Nat /\ DOMAIN old = 1 .. Len(old) /\ (old = << >> <=> Len(old) = 0)
      BY <3>1, LenProperties, EmptySeq
    <3>6. CASE st[k] = Append(old, c) /\ Len(old) < EffectiveDegree
      <4>1. /\ Len(st[k]) = Len(old) + 1 /\ IsInjective(st[k]) /\ st[k] # << >>
            /\ Range(st[k]) = Range(old) \cup {c}
        BY <3>1, <3>2, <3>3, <3>6, AppendIs
      <4>2. Len(st[k]) <= EffectiveDegree
        BY <3>5, <3>6, <4>1, EffectiveDegreeIs
      <4> QED
        BY <3>2, <3>4, <4>1, <4>2
    <3>7. CASE st[k] = old /\ (EffectiveDegree > 0 => old # << >>)
      BY <3>2, <3>4, <3>7
    <3>8. \/ st[k] = Append(old, c) /\ Len(old) < EffectiveDegree
          \/ st[k] = old /\ (EffectiveDegree > 0 => old # << >>)
      <4>1. CASE old = << >>
        BY <3>1, <3>5, <4>1, EffectiveDegreeIs DEF PickNext
      <4>2. CASE old # << >>
        BY <3>1, <4>2 DEF PickNext
      <4> QED
        BY <4>1, <4>2
    <3> QED
      BY <3>6, <3>7, <3>8
  <2> HIDE DEF T
  <2>8. n \in T
    <3>1. n \in Nat
      BY <2>4
    <3> QED
      BY <2>6, <2>7, <3>1, CountUp
  <2>9. P(n)
    BY <2>8 DEF T
  <2>10. {list[i] : i \in 1 .. n} = C
    BY <2>2, <2>4 DEF Range
  <2>11. C # {} => n > 0 /\ EffectiveDegree > 0
    <3> SUFFICES ASSUME C # {} PROVE n > 0 /\ EffectiveDegree > 0
      OBVIOUS
    <3>1. PICK v \in C : TRUE
      OBVIOUS
    <3>2. v \in Node /\ v # u
      BY <2>1, <3>1 DEF C
    <3>3. N > 1
      BY <3>2, NodesFinite DEF Node
    <3>4. n # 0
      BY <2>10
    <3> QED
      BY <2>4, <3>3, <3>4, EffectiveDegreeIs
  <2>12. /\ row \in Seq(Node) /\ Len(row) <= EffectiveDegree /\ IsInjective(row)
         /\ Range(row) \subseteq C
         /\ C # {} => row # << >>
    BY <2>3, <2>4, <2>5, <2>9, <2>10, <2>11
  <2> QED
    BY <1>2, <2>12 DEF C, row
<1> QED
  BY <1>1, <1>2

-----------------------------------------------------------------------------
\* Rows and graphs.

\* A row that fits its record on disk.
IsRow(u, row) ==
  /\ row \in Seq(Node) /\ Len(row) <= Degree
  /\ IsInjective(row) /\ u \notin Range(row)

Graphs == {g \in [Node -> Seq(Node)] : \A u \in Node : IsRow(u, g[u])}

\* No row leads to a node of dead, and none starts there.
Clear(g, dead) ==
  \A u \in Node : Range(g[u]) \cap dead = {} /\ (u \in dead => g[u] = << >>)

\* Whoever has a neighbour in g has one in h.
KeepsRows(g, h) == \A u \in Node : g[u] # << >> => h[u] # << >>

LEMMA RowTypes ==
  ASSUME NEW g \in Graphs, NEW u \in Node
  PROVE  /\ g[u] \in Seq(Node) /\ Len(g[u]) \in Nat /\ Len(g[u]) <= Degree
         /\ DOMAIN g[u] = 1 .. Len(g[u])
         /\ IsInjective(g[u]) /\ u \notin Range(g[u]) /\ Range(g[u]) \in SUBSET Node
<1>1. g[u] \in Seq(Node) /\ Len(g[u]) <= Degree /\ IsInjective(g[u]) /\ u \notin Range(g[u])
  BY DEF Graphs, IsRow
<1>2. Range(g[u]) \in SUBSET Node
  BY <1>1, RangeOfSeq
<1> QED
  BY <1>1, <1>2, LenProperties

LEMMA EmptyRow ==
  ASSUME NEW u \in Node
  PROVE  IsRow(u, << >>) /\ Range(<< >>) = {}
BY GraphAssumption DEF IsRow, Range, IsInjective

LEMMA NearestRow ==
  ASSUME NEW u \in Node, NEW S \in SUBSET Node
  PROVE  /\ IsRow(u, NearestNeighbors(u, S))
         /\ Range(NearestNeighbors(u, S)) \subseteq S \ {u}
         /\ S \ {u} # {} => NearestNeighbors(u, S) # << >>
<1> DEFINE C == S \ {u}
           list == ByDistance(Dist[u], C)
           row == NearestNeighbors(u, S)
<1>1. Dist[u] \in [Node -> Nat] /\ C \in SUBSET Node
  BY GraphAssumption
<1>2. row = Take(list, EffectiveDegree)
  BY DEF NearestNeighbors
<1> HIDE DEF C
<1>3. list \in Seq(C) /\ Len(list) = Cardinality(C) /\ Range(list) = C /\ IsInjective(list)
  BY <1>1, ByDistanceLists
<1> HIDE DEF list, row
<1>4. EffectiveDegree \in Nat /\ EffectiveDegree <= Degree /\ Degree \in Nat
  BY EffectiveDegreeIs, NodesFinite
<1>5. Len(list) \in Nat
  BY <1>3, LenProperties
<1>6. /\ row \in Seq(C) /\ Range(row) \subseteq C /\ IsInjective(row)
      /\ Len(row) = IF EffectiveDegree <= Len(list) THEN EffectiveDegree ELSE Len(list)
  BY <1>2, <1>3, <1>4, TakeIs
<1>7. row \in Seq(Node)
  BY <1>1, <1>6, SeqMonotonic
<1>8. Len(row) <= Degree
  BY <1>4, <1>5, <1>6
<1>9. u \notin Range(row)
  BY <1>6 DEF C
<1>10. C # {} => row # << >>
  <2> SUFFICES ASSUME NEW v \in C PROVE row # << >>
    OBVIOUS
  <2>1. v \in Node /\ v # u
    BY <1>1 DEF C
  <2>2. EffectiveDegree > 0
    BY <2>1, NodesFinite, EffectiveDegreeIs DEF Node
  <2>3. Cardinality(C) # 0
    BY <1>1, NodesFinite, FS_EmptySet
  <2>4. Len(row) # 0
    BY <1>3, <1>4, <1>5, <1>6, <2>2, <2>3
  <2> QED
    BY <2>4
<1> QED
  BY <1>6, <1>7, <1>8, <1>9, <1>10 DEF IsRow, C, row

\* What is left of the candidates S by pruning.
Pruned(u, S, dead, row) ==
  /\ Range(row) \subseteq S \ ({u} \cup dead)
  /\ u \in dead => row = << >>
  /\ u \notin dead /\ S \ ({u} \cup dead) # {} => row # << >>

LEMMA PruneRow ==
  ASSUME NEW u \in Node, NEW S \in SUBSET Node, NEW dead
  PROVE  IsRow(u, RobustPrune(u, S, dead)) /\ Pruned(u, S, dead, RobustPrune(u, S, dead))
<1>1. EffectiveDegree \in Nat /\ EffectiveDegree <= Degree /\ Degree \in Nat
  BY EffectiveDegreeIs, NodesFinite
<1> DEFINE row == RobustPrune(u, S, dead)
<1>2. /\ row \in Seq(Node) /\ Len(row) <= EffectiveDegree /\ IsInjective(row)
      /\ Range(row) \subseteq S \ ({u} \cup dead)
      /\ u \in dead => row = << >>
      /\ u \notin dead /\ S \ ({u} \cup dead) # {} => row # << >>
  BY PruneIs, ZenonT(60)
<1> HIDE DEF row
<1>3. Len(row) \in Nat
  BY <1>2, LenProperties
<1>4. Len(row) <= Degree /\ u \notin Range(row)
  BY <1>1, <1>2, <1>3
<1> QED
  BY <1>2, <1>4 DEF IsRow, Pruned, row

-----------------------------------------------------------------------------
\* Reverse edges.

LEMMA ReverseEdgeIs ==
  ASSUME NEW g \in Graphs, NEW s \in Node, NEW t \in Node, NEW dead
  PROVE  /\ AddReverseEdge(g, s, t, dead) \in Graphs
         /\ KeepsRows(g, AddReverseEdge(g, s, t, dead))
         /\ Clear(g, dead) => Clear(AddReverseEdge(g, s, t, dead), dead)
<1> DEFINE h == AddReverseEdge(g, s, t, dead)
           long == Append(g[t], s)
           cut == RobustPrune(t, Range(g[t]) \cup {s}, dead)
<1>1. g \in [Node -> Seq(Node)]
  BY DEF Graphs
<1>2. /\ g[t] \in Seq(Node) /\ Len(g[t]) \in Nat /\ Len(g[t]) <= Degree
      /\ IsInjective(g[t]) /\ t \notin Range(g[t]) /\ Range(g[t]) \in SUBSET Node
  BY RowTypes
<1> SUFFICES ASSUME s # t, {s, t} \cap dead = {}, s \notin Range(g[t])
             PROVE  h \in Graphs /\ KeepsRows(g, h) /\ (Clear(g, dead) => Clear(h, dead))
  BY DEF AddReverseEdge, KeepsRows
<1>3. ASSUME NEW row, h = [g EXCEPT ![t] = row], IsRow(t, row), row # << >>,
             Range(row) \subseteq Range(g[t]) \cup {s}
      PROVE  h \in Graphs /\ KeepsRows(g, h) /\ (Clear(g, dead) => Clear(h, dead))
  <2>0. \A u \in Node : h[u] = IF u = t THEN row ELSE g[u]
    BY <1>1, <1>3
  <2>1. h \in [Node -> Seq(Node)]
    BY <1>1, <1>3 DEF IsRow
  <2> HIDE DEF h
  <2>2. h \in Graphs
    BY <1>3, <2>0, <2>1 DEF Graphs
  <2>3. KeepsRows(g, h)
    BY <1>3, <2>0 DEF KeepsRows
  <2>4. Clear(g, dead) => Clear(h, dead)
    BY <1>3, <2>0 DEF Clear
  <2> QED
    BY <2>2, <2>3, <2>4
<1>4. CASE Len(g[t]) < Degree
  <2>1. h = [g EXCEPT ![t] = long]
    BY <1>4 DEF AddReverseEdge
  <2>2. /\ long \in Seq(Node) /\ Len(long) = Len(g[t]) + 1 /\ long # << >>
        /\ Range(long) = Range(g[t]) \cup {s} /\ IsInjective(long)
    BY <1>2, AppendIs
  <2> HIDE DEF h, long
  <2>3. Len(long) <= Degree
    BY <1>2, <1>4, <2>2, NodesFinite
  <2>4. IsRow(t, long)
    BY <1>2, <2>2, <2>3 DEF IsRow
  <2> QED
    BY <1>3, <2>1, <2>2, <2>4
<1>5. CASE ~ (Len(g[t]) < Degree)
  <2>1. h = [g EXCEPT ![t] = cut]
    BY <1>5 DEF AddReverseEdge
  <2>2. Range(g[t]) \cup {s} \in SUBSET Node
    BY <1>2
  <2>3. IsRow(t, cut)
    BY <2>2, PruneRow
  <2>4. (Range(g[t]) \cup {s}) \ ({t} \cup dead) # {} /\ t \notin dead
    OBVIOUS
  <2>5. Pruned(t, Range(g[t]) \cup {s}, dead, cut)
    BY <2>2, PruneRow
  <2>6. cut # << >> /\ Range(cut) \subseteq Range(g[t]) \cup {s}
    BY <2>4, <2>5 DEF Pruned
  <2> HIDE DEF h, cut
  <2> QED
    BY <1>3, <2>1, <2>3, <2>6
<1> QED
  BY <1>4, <1>5

\* The reverse edges of a row are put in one after the other.
IsReverseWalk(g, s, list, dead) ==
  \E st \in [0 .. Len(list) -> Graphs] :
    /\ st[0] = g /\ AddReverseRow(g, s, list, dead) = st[Len(list)]
    /\ \A k \in 1 .. Len(list) : st[k] = AddReverseEdge(st[k - 1], s, list[k], dead)

LEMMA ReverseRowWalk ==
  ASSUME NEW g \in Graphs, NEW s \in Node, NEW list \in Seq(Node), NEW dead
  PROVE  IsReverseWalk(g, s, list, dead)
<1> DEFINE n == Len(list)
           X == Graphs
           F == [p \in X \X (1 .. n) |-> AddReverseEdge(p[1], s, list[p[2]], dead)]
           Rec(h) == [t \in SUBSET (1 .. n) |->
                        IF t = {} THEN g
                        ELSE AddReverseEdge(h[t \ {Max(t)}], s, list[Max(t)], dead)]
           fold == CHOOSE h : h = Rec(h)
<1>1. n \in Nat /\ DOMAIN list = 1 .. n /\ \A i \in 1 .. n : list[i] \in Node
  BY LenProperties
<1>2. AddReverseRow(g, s, list, dead) = fold[1 .. n]
  BY <1>1 DEF AddReverseRow, FoldLeft, MapThenFoldSet
<1> HIDE DEF n, X
<1>3. \A row \in X, c \in Node : AddReverseEdge(row, s, c, dead) \in X
  BY ReverseEdgeIs DEF X
<1>4. g \in X
  BY DEF X
<1>5. F \in [X \X (1 .. n) -> X]
      /\ \A row \in X, i \in 1 .. n : F[<<row, i>>] = AddReverseEdge(row, s, list[i], dead)
  BY <1>1, <1>3
<1> HIDE DEF F
<1>6. PICK st : /\ IsWalk(st, n, X, g, F)
                /\ \A h : IsFold(h, n, X, g, F) => h[1 .. n] = st[n]
                /\ \E f \in [SUBSET (1 .. n) -> X] : IsFold(f, n, X, g, F)
  BY <1>1, <1>4, <1>5, FoldIs
<1>7. fold = Rec(fold)
  <2>1. PICK f \in [SUBSET (1 .. n) -> X] : IsFold(f, n, X, g, F)
    BY <1>6
  <2>2. f = Rec(f)
    BY <1>1, <1>5, <2>1, LastPlace DEF IsFold
  <2> QED
    BY <2>2
<1> HIDE DEF fold
<1>8. IsFold(fold, n, X, g, F)
  BY <1>1, <1>5, <1>7, LastPlace DEF IsFold
<1>9. \A k \in 1 .. n : st[k] = AddReverseEdge(st[k - 1], s, list[k], dead)
  BY <1>5, <1>6 DEF IsWalk
<1> QED
  BY <1>2, <1>6, <1>8, <1>9 DEF n, X, IsWalk, IsReverseWalk

\* A step from graph to graph that loses no row and lets nothing of dead in.
Improves(g, h, dead) ==
  h \in Graphs /\ KeepsRows(g, h) /\ (Clear(g, dead) => Clear(h, dead))

\* An edge and its way back, for every edge of a row.
LEMMA ReverseRowIs ==
  ASSUME NEW g \in Graphs, NEW s \in Node, NEW list \in Seq(Node), NEW dead
  PROVE  Improves(g, AddReverseRow(g, s, list, dead), dead)
<1> DEFINE n == Len(list)
<1>1. n \in Nat /\ \A i \in 1 .. n : list[i] \in Node
  BY LenProperties
<1>2. PICK st \in [0 .. n -> Graphs] :
        /\ st[0] = g /\ AddReverseRow(g, s, list, dead) = st[n]
        /\ \A k \in 1 .. n : st[k] = AddReverseEdge(st[k - 1], s, list[k], dead)
  <2>1. IsReverseWalk(g, s, list, dead)
    BY ReverseRowWalk
  <2> QED
    BY <2>1 DEF IsReverseWalk
<1> HIDE DEF n
<1> DEFINE T == {k \in 0 .. n : Improves(g, st[k], dead)}
<1>3. 0 \in T
  BY <1>1, <1>2 DEF Improves, KeepsRows
<1>4. ASSUME NEW k \in 1 .. n, k - 1 \in T PROVE k \in T
  <2>1. Improves(g, st[k - 1], dead) /\ st[k - 1] \in Graphs /\ list[k] \in Node
    BY <1>1, <1>4 DEF Improves
  <2>2. Improves(st[k - 1], st[k], dead)
    BY <1>2, <2>1, ReverseEdgeIs DEF Improves
  <2>3. Improves(g, st[k], dead)
    BY <2>1, <2>2 DEF Improves, KeepsRows
  <2> QED
    BY <2>3
<1> HIDE DEF T
<1>5. n \in T
  BY <1>1, <1>3, <1>4, CountUp
<1> QED
  BY <1>2, <1>5 DEF T

ReverseFrom(g, list) == FoldLeft(LAMBDA h, s : AddReverseRow(h, s, g[s], {}), g, list)

LEMMA ReverseFromWalk ==
  ASSUME NEW g \in Graphs, NEW list \in Seq(Node)
  PROVE  \E st \in [0 .. Len(list) -> Graphs] :
           /\ st[0] = g /\ ReverseFrom(g, list) = st[Len(list)]
           /\ \A k \in 1 .. Len(list) : st[k] = AddReverseRow(st[k - 1], list[k], g[list[k]], {})
<1> DEFINE n == Len(list)
           X == Graphs
           F == [p \in X \X (1 .. n) |-> AddReverseRow(p[1], list[p[2]], g[list[p[2]]], {})]
           Rec(h) == [t \in SUBSET (1 .. n) |->
                        IF t = {} THEN g
                        ELSE AddReverseRow(h[t \ {Max(t)}], list[Max(t)], g[list[Max(t)]], {})]
           fold == CHOOSE h : h = Rec(h)
<1>1. n \in Nat /\ DOMAIN list = 1 .. n /\ \A i \in 1 .. n : list[i] \in Node
  BY LenProperties
<1>2. ReverseFrom(g, list) = fold[1 .. n]
  BY <1>1 DEF ReverseFrom, FoldLeft, MapThenFoldSet
<1> HIDE DEF n, X
<1>3. \A row \in X, c \in Node : AddReverseRow(row, c, g[c], {}) \in X
  BY RowTypes, ReverseRowIs DEF X, Improves
<1>4. g \in X
  BY DEF X
<1>5. F \in [X \X (1 .. n) -> X]
      /\ \A row \in X, i \in 1 .. n : F[<<row, i>>] = AddReverseRow(row, list[i], g[list[i]], {})
  BY <1>1, <1>3
<1> HIDE DEF F
<1>6. PICK st : /\ IsWalk(st, n, X, g, F)
                /\ \A h : IsFold(h, n, X, g, F) => h[1 .. n] = st[n]
                /\ \E f \in [SUBSET (1 .. n) -> X] : IsFold(f, n, X, g, F)
  BY <1>1, <1>4, <1>5, FoldIs
<1>7. fold = Rec(fold)
  <2>1. PICK f \in [SUBSET (1 .. n) -> X] : IsFold(f, n, X, g, F)
    BY <1>6
  <2>2. f = Rec(f)
    BY <1>1, <1>5, <2>1, LastPlace DEF IsFold
  <2> QED
    BY <2>2
<1> HIDE DEF fold
<1>8. IsFold(fold, n, X, g, F)
  BY <1>1, <1>5, <1>7, LastPlace DEF IsFold
<1>9. \A k \in 1 .. n : st[k] = AddReverseRow(st[k - 1], list[k], g[list[k]], {})
  BY <1>5, <1>6 DEF IsWalk
<1> QED
  BY <1>2, <1>6, <1>8, <1>9 DEF n, X, IsWalk


LEMMA AddReverseEdgesIs ==
  ASSUME NEW g \in Graphs
  PROVE  AddReverseEdges(g) \in Graphs /\ KeepsRows(g, AddReverseEdges(g))
<1> DEFINE list == [i \in 1 .. N |-> i - 1]
           n == Len(list)
<1>1. list \in Seq(Node) /\ n \in Nat /\ \A i \in 1 .. n : list[i] \in Node
  <2>1. \A i \in 1 .. N : i - 1 \in Node
    BY NodesFinite DEF Node
  <2>2. list \in [1 .. N -> Node]
    BY <2>1
  <2> HIDE DEF list
  <2> QED
    BY <2>2, NodesFinite, LenProperties
<1>2. AddReverseEdges(g) = ReverseFrom(g, list)
  BY DEF AddReverseEdges, ReverseFrom
<1> HIDE DEF list, n
<1>3. PICK st \in [0 .. n -> Graphs] :
        /\ st[0] = g /\ ReverseFrom(g, list) = st[n]
        /\ \A k \in 1 .. n : st[k] = AddReverseRow(st[k - 1], list[k], g[list[k]], {})
  BY <1>1, ReverseFromWalk DEF n
<1> DEFINE T == {k \in 0 .. n : KeepsRows(g, st[k])}
<1>4. 0 \in T
  BY <1>1, <1>3 DEF KeepsRows
<1>5. ASSUME NEW k \in 1 .. n, k - 1 \in T PROVE k \in T
  <2>1. KeepsRows(g, st[k - 1]) /\ st[k - 1] \in Graphs /\ list[k] \in Node
    BY <1>1, <1>5
  <2>2. g[list[k]] \in Seq(Node)
    BY <2>1, RowTypes
  <2>3. Improves(st[k - 1], st[k], {})
    BY <1>3, <2>1, <2>2, ReverseRowIs
  <2> QED
    BY <2>1, <2>3 DEF Improves, KeepsRows
<1> HIDE DEF T
<1>6. n \in T
  BY <1>1, <1>4, <1>5, CountUp
<1>7. st[n] \in Graphs
  BY <1>1, <1>3
<1> QED
  BY <1>2, <1>3, <1>6, <1>7 DEF T

\* Rows are never over the degree: reverse edges were pruned as they came.
LEMMA PruneOverfullIs ==
  ASSUME NEW g \in Graphs
  PROVE  PruneOverfull(g) = g
BY DEF PruneOverfull, Graphs, IsRow

LEMMA ReverseBatchIs ==
  ASSUME NEW g \in Graphs
  PROVE  AddReverseEdgesBatch(g) \in Graphs /\ KeepsRows(g, AddReverseEdgesBatch(g))
<1> DEFINE h == AddReverseEdgesBatch(g)
<1>1. ASSUME NEW t \in Node
      PROVE  IsRow(t, h[t]) /\ (g[t] # << >> => h[t] # << >>)
  <2>1. IsRow(t, g[t]) /\ Range(g[t]) \in SUBSET Node /\ t \notin Sources(g, t)
    BY RowTypes DEF Graphs, Sources
  <2>2. CASE Sources(g, t) = {}
    BY <2>1, <2>2 DEF AddReverseEdgesBatch
  <2>3. CASE Sources(g, t) # {}
    <3> DEFINE C == Range(g[t]) \cup Sources(g, t)
    <3>1. C \in SUBSET Node /\ C \ {t} # {}
      BY <2>1, <2>3 DEF Sources
    <3>2. h[t] = NearestNeighbors(t, C)
      BY <2>3 DEF AddReverseEdgesBatch
    <3> HIDE DEF C, h
    <3> QED
      BY <3>1, <3>2, NearestRow
  <2> QED
    BY <2>2, <2>3
<1>2. h = [t \in Node |-> h[t]]
  BY DEF AddReverseEdgesBatch
<1> HIDE DEF h
<1>3. h \in [Node -> Seq(Node)]
  BY <1>1, <1>2 DEF IsRow
<1> QED
  BY <1>1, <1>3 DEF Graphs, KeepsRows, h

LEMMA DeletePatchIs ==
  ASSUME NEW g \in Graphs, NEW dead \in SUBSET Node
  PROVE  DeletePatch(g, dead) \in Graphs /\ Clear(DeletePatch(g, dead), dead)
<1> DEFINE h == DeletePatch(g, dead)
           Around(v) == (Range(g[v]) \cup Sources(g, v)) \ dead
           C(u) == Range(g[u]) \cup UNION {Around(v) : v \in Range(g[u]) \cap dead}
<1>1. ASSUME NEW u \in Node
      PROVE  /\ IsRow(u, h[u]) /\ Range(h[u]) \cap dead = {}
             /\ u \in dead => h[u] = << >>
  <2>1. IsRow(u, g[u])
    BY DEF Graphs
  <2>2. CASE u \in dead
    <3>1. h[u] = << >>
      BY <2>2 DEF DeletePatch
    <3> QED
      BY <3>1, EmptyRow
  <2>3. CASE u \notin dead /\ Range(g[u]) \cap dead = {}
    <3>1. h[u] = g[u]
      BY <2>3 DEF DeletePatch
    <3> QED
      BY <2>1, <2>3, <3>1
  <2>4. CASE u \notin dead /\ Range(g[u]) \cap dead # {}
    <3>1. h[u] = RobustPrune(u, C(u), dead)
      BY <2>4 DEF DeletePatch
    <3>2. C(u) \in SUBSET Node
      BY RowTypes DEF Sources
    <3> HIDE DEF h, C
    <3>3. IsRow(u, h[u]) /\ Pruned(u, C(u), dead, h[u])
      BY <3>1, <3>2, PruneRow
    <3> QED
      BY <2>4, <3>3 DEF Pruned
  <2> QED
    BY <2>2, <2>3, <2>4
<1>2. h = [u \in Node |-> h[u]]
  BY DEF DeletePatch
<1> HIDE DEF h
<1>3. h \in [Node -> Seq(Node)]
  BY <1>1, <1>2 DEF IsRow
<1> QED
  BY <1>1, <1>3 DEF Graphs, Clear, h

-----------------------------------------------------------------------------
\* Candidates of a row.

LEMMA Modulo ==
  ASSUME NEW a \in Nat
  PROVE  /\ a % N \in Node
         /\ a < N => a % N = a
         /\ a >= N /\ a < 2 * N => a % N = a - N
BY NodesFinite DEF Node

LEMMA RingIs ==
  ASSUME NEW u \in Node, NEW window \in Nat
  PROVE  /\ Ring(u, window) \in SUBSET Node
         /\ N > 1 /\ window > 0 => Ring(u, window) \ {u} # {}
<1>1. N \in Nat /\ N > 0 /\ u \in Nat /\ u < N
  BY NodesFinite DEF Node
<1> DEFINE m == Min({window, N - 1})
<1>2. m \in Nat /\ m <= N - 1 /\ (N > 1 /\ window > 0 => m >= 1)
  BY <1>1, OfTwo
<1> HIDE DEF m
<1>3. \A o \in 1 .. m : (u + o) % N \in Node /\ (u + N - o) % N \in Node
  <2> TAKE o \in 1 .. m
  <2>1. u + o \in Nat /\ u + N - o \in Nat
    BY <1>1, <1>2
  <2> QED
    BY <2>1, Modulo
<1>4. Ring(u, window) = UNION {{(u + o) % N, (u + N - o) % N} : o \in 1 .. m}
  BY DEF Ring, m
<1>5. N > 1 /\ window > 0 => Ring(u, window) \ {u} # {}
  <2> SUFFICES ASSUME N > 1, window > 0 PROVE (u + 1) % N \in Ring(u, window) \ {u}
    OBVIOUS
  <2>1. 1 \in 1 .. m
    BY <1>2
  <2>2. (u + 1) % N \in Ring(u, window)
    BY <1>4, <2>1
  <2>3. (u + 1) % N # u
    <3>1. u + 1 \in Nat /\ u + 1 <= N /\ N < 2 * N
      BY <1>1
    <3>2. CASE u + 1 < N
      BY <1>1, <3>1, <3>2, Modulo
    <3>3. CASE u + 1 = N
      <4>1. (u + 1) % N = u + 1 - N
        BY <1>1, <3>1, <3>3, Modulo
      <4> QED
        BY <1>1, <3>3, <4>1
    <3> QED
      BY <1>1, <3>1, <3>2, <3>3
  <2> QED
    BY <2>2, <2>3
<1> QED
  BY <1>3, <1>4, <1>5

\* Sets of nodes, not empty when the ring is not.
LEMMA CandidatesAre ==
  ASSUME build \in Builds, NEW u \in Node, NEW found \in SUBSET (SUBSET Node),
         NEW C \in Candidates(u, found)
  PROVE  /\ C \in SUBSET Node
         /\ N > 1 /\ build.window > 0 /\ (build.limit = 0 \/ build.limit >= Degree)
            => C \ {u} # {}
<1>1. build.window \in Nat /\ build.limit \in Nat /\ build.samples \in Nat
  BY BuildAssumption DEF BuildConfig
<1>2. PICK f \in found, s \in Samples(build.samples) :
        C \in Limited((f \cup Ring(u, build.window) \cup s) \ {u}, build.limit)
  <2>1. PICK p \in found \X Samples(build.samples) :
          C \in Limited((p[1] \cup Ring(u, build.window) \cup p[2]) \ {u}, build.limit)
    BY DEF Candidates
  <2> QED
    BY <2>1
<1> DEFINE S == (f \cup Ring(u, build.window) \cup s) \ {u}
<1>3. s \in SUBSET Node
  BY DEF Samples
<1>4. S \in SUBSET Node /\ u \notin S
      /\ (N > 1 /\ build.window > 0 => S # {})
  BY <1>1, <1>3, RingIs
<1> HIDE DEF S
<1>5. CASE C = S
  BY <1>4, <1>5
<1>6. CASE build.limit # 0 /\ C \in SUBSET S /\ Cardinality(C) = build.limit
  <2>1. build.limit >= Degree => C # {}
    BY <1>1, <1>6, FS_EmptySet, NodesFinite
  <2> QED
    BY <1>4, <1>6, <2>1
<1> QED
  BY <1>2, <1>5, <1>6 DEF Limited, kSubset, S

LEMMA LshCandidatesAre ==
  ASSUME NEW u \in Node
  PROVE  LshCandidates(u) \in SUBSET (SUBSET Node)
<1> DEFINE probes == UNION {{t} \X Probes(u, t, Bits, build.radius) : t \in Tables}
           Ys == {y \in [probes -> SUBSET Node] :
                    \A p \in probes : y[p] \in BucketCandidates(p[1], p[2], build.bucket)}
<1>1. LshCandidates(u) = {UNION Range(y) : y \in Ys}
  BY DEF LshCandidates
<1>2. \A y \in Ys : y \in [probes -> SUBSET Node]
  OBVIOUS
<1> HIDE DEF Ys, probes
<1>3. ASSUME NEW y \in Ys PROVE UNION Range(y) \in SUBSET Node
  <2>1. Range(y) \in SUBSET (SUBSET Node)
    BY <1>2 DEF Range
  <2> QED
    BY <2>1
<1> QED
  BY <1>1, <1>3

\* All ways to write down a set.
LEMMA SetToSeqsAre ==
  ASSUME NEW S, IsFiniteSet(S), NEW s
  PROVE  s \in SetToSeqs(S) <=> /\ s \in Seq(S) /\ Len(s) = Cardinality(S)
                                /\ IsInjective(s) /\ Range(s) = S
<1> DEFINE n == Cardinality(S)
<1>1. n \in Nat
  BY FS_CardinalityType
<1>2. s \in SetToSeqs(S) <=> s \in [1 .. n -> S] /\ \A i, j \in 1 .. n : i # j => s[i] # s[j]
  BY DEF SetToSeqs
<1> HIDE DEF n
<1>3. ASSUME s \in [1 .. n -> S], \A i, j \in 1 .. n : i # j => s[i] # s[j]
      PROVE  s \in Seq(S) /\ Len(s) = n /\ IsInjective(s) /\ Range(s) = S
  <2>1. s \in Seq(S) /\ Len(s) = n /\ DOMAIN s = 1 .. n
    BY <1>1, <1>3
  <2>2. IsInjective(s) /\ \A a, b \in 1 .. n : s[a] = s[b] => a = b
    BY <1>3, <2>1 DEF IsInjective
  <2>3. IsFiniteSet(1 .. n) /\ Cardinality(1 .. n) = n
    <3>1. 1 \in Int /\ n \in Int
      BY <1>1
    <3> QED
      BY <1>1, <3>1, FS_Interval
  <2>4. \A t \in S : \E i \in 1 .. n : s[i] = t
    <3> DEFINE D == 1 .. n
    <3>1. IsFiniteSet(D) /\ Cardinality(D) = Cardinality(S) /\ s \in [D -> S]
          /\ \A a, b \in D : s[a] = s[b] => a = b
      BY <1>3, <2>2, <2>3 DEF n
    <3> HIDE DEF D
    <3>2. \A t \in S : \E i \in D : s[i] = t
      BY <3>1, OneToOneIsOnto
    <3> QED
      BY <3>2 DEF D
  <2>5. Range(s) = S
    BY <1>3, <2>1, <2>4 DEF Range
  <2> QED
    BY <2>1, <2>2, <2>5
<1>4. ASSUME s \in Seq(S), Len(s) = n, IsInjective(s)
      PROVE  s \in [1 .. n -> S] /\ \A i, j \in 1 .. n : i # j => s[i] # s[j]
  <2>1. s \in [1 .. n -> S] /\ DOMAIN s = 1 .. n
    BY <1>4, LenProperties
  <2> QED
    BY <1>4, <2>1 DEF IsInjective
<1>5. s \in SetToSeqs(S)
      <=> s \in Seq(S) /\ Len(s) = n /\ IsInjective(s) /\ Range(s) = S
  <2>1. ASSUME s \in SetToSeqs(S)
        PROVE  s \in Seq(S) /\ Len(s) = n /\ IsInjective(s) /\ Range(s) = S
    <3>1. s \in [1 .. n -> S] /\ \A i, j \in 1 .. n : i # j => s[i] # s[j]
      BY <1>2, <2>1
    <3> QED
      BY <1>3, <3>1
  <2>2. ASSUME s \in Seq(S) /\ Len(s) = n /\ IsInjective(s) /\ Range(s) = S
        PROVE  s \in SetToSeqs(S)
    <3>1. s \in [1 .. n -> S] /\ \A i, j \in 1 .. n : i # j => s[i] # s[j]
      BY <1>4, <2>2
    <3> QED
      BY <1>2, <3>1
  <2> QED
    BY <2>1, <2>2, Zenon
<1> QED
  BY <1>5 DEF n

LEMMA OrdersAre ==
  ASSUME NEW s
  PROVE  s \in Orders <=> /\ s \in Seq(Node) /\ Len(s) = N
                          /\ IsInjective(s) /\ Range(s) = Node
BY NodesFinite, SetToSeqsAre DEF Orders

LEMMA ProjectionCandidatesAre ==
  ASSUME NEW u, NEW window, NEW p \in Orders
  PROVE  ProjectionCandidates(u, p, window) \in SUBSET Node
<1>1. \A i \in DOMAIN p : p[i] \in Node
  BY OrdersAre, LenProperties
<1> QED
  BY <1>1 DEF ProjectionCandidates

-----------------------------------------------------------------------------
\* Rows as the builders begin them.

\* Sequences grow by elements of S that they did not have, to limit or until
\* they have them all.
Grows(row, S, limit, long) ==
  /\ long \in Seq(Node) /\ Range(row) \subseteq Range(long)
  /\ IsInjective(row) => IsInjective(long)
  /\ Range(long) \subseteq Range(row) \cup S
  /\ Len(row) <= limit => Len(long) <= limit
  /\ Len(row) <= limit /\ Len(long) # limit => S \subseteq Range(long)
  /\ Len(row) <= Len(long)

LEMMA AppendUniqueGrows ==
  ASSUME NEW row \in Seq(Node), NEW id \in Node, NEW limit \in Nat
  PROVE  Grows(row, {id}, limit, AppendUnique(row, id, limit))
<1>1. Len(row) \in Nat
  BY LenProperties
<1>2. CASE Len(row) >= limit \/ id \in Range(row)
  <2>1. AppendUnique(row, id, limit) = row
    BY <1>2 DEF AppendUnique
  <2> QED
    BY <1>1, <1>2, <2>1 DEF Grows
<1>3. CASE ~ (Len(row) >= limit \/ id \in Range(row))
  <2> DEFINE long == Append(row, id)
  <2>1. AppendUnique(row, id, limit) = long
    BY <1>3 DEF AppendUnique
  <2>2. /\ long \in Seq(Node) /\ Len(long) = Len(row) + 1
        /\ Range(long) = Range(row) \cup {id}
        /\ IsInjective(row) => IsInjective(long)
    BY <1>3, AppendIs
  <2> HIDE DEF long
  <2> QED
    BY <1>1, <1>3, <2>1, <2>2 DEF Grows
<1> QED
  BY <1>2, <1>3

LEMMA AppendAllWalk ==
  ASSUME NEW first \in Seq(Node), NEW list \in Seq(Node), NEW limit \in Nat
  PROVE  \E st \in [0 .. Len(list) -> Seq(Node)] :
           /\ st[0] = first /\ AppendAll(first, list, limit) = st[Len(list)]
           /\ \A k \in 1 .. Len(list) : st[k] = AppendUnique(st[k - 1], list[k], limit)
<1> DEFINE n == Len(list)
           X == Seq(Node)
           F == [p \in X \X (1 .. n) |-> AppendUnique(p[1], list[p[2]], limit)]
           Rec(h) == [t \in SUBSET (1 .. n) |->
                        IF t = {} THEN first
                        ELSE AppendUnique(h[t \ {Max(t)}], list[Max(t)], limit)]
           fold == CHOOSE h : h = Rec(h)
<1>1. n \in Nat /\ DOMAIN list = 1 .. n /\ \A i \in 1 .. n : list[i] \in Node
  BY LenProperties
<1>2. AppendAll(first, list, limit) = fold[1 .. n]
  BY <1>1 DEF AppendAll, FoldLeft, MapThenFoldSet
<1> HIDE DEF n, X
<1>3. \A row \in X, c \in Node : AppendUnique(row, c, limit) \in X
  BY AppendUniqueGrows DEF X, Grows
<1>4. first \in X
  BY DEF X
<1>5. F \in [X \X (1 .. n) -> X]
      /\ \A row \in X, i \in 1 .. n : F[<<row, i>>] = AppendUnique(row, list[i], limit)
  BY <1>1, <1>3
<1> HIDE DEF F
<1>6. PICK st : /\ IsWalk(st, n, X, first, F)
                /\ \A h : IsFold(h, n, X, first, F) => h[1 .. n] = st[n]
                /\ \E f \in [SUBSET (1 .. n) -> X] : IsFold(f, n, X, first, F)
  BY <1>1, <1>4, <1>5, FoldIs
<1>7. fold = Rec(fold)
  <2>1. PICK f \in [SUBSET (1 .. n) -> X] : IsFold(f, n, X, first, F)
    BY <1>6
  <2>2. f = Rec(f)
    BY <1>1, <1>5, <2>1, LastPlace DEF IsFold
  <2> QED
    BY <2>2
<1> HIDE DEF fold
<1>8. IsFold(fold, n, X, first, F)
  BY <1>1, <1>5, <1>7, LastPlace DEF IsFold
<1>9. \A k \in 1 .. n : st[k] = AppendUnique(st[k - 1], list[k], limit)
  BY <1>5, <1>6 DEF IsWalk
<1> QED
  BY <1>2, <1>6, <1>8, <1>9 DEF n, X, IsWalk


LEMMA AppendAllGrows ==
  ASSUME NEW row \in Seq(Node), NEW ids \in Seq(Node), NEW limit \in Nat
  PROVE  Grows(row, Range(ids), limit, AppendAll(row, ids, limit))
<1> DEFINE n == Len(ids)
           Some(k) == {ids[i] : i \in 1 .. k}
<1>1. n \in Nat /\ DOMAIN ids = 1 .. n /\ \A i \in 1 .. n : ids[i] \in Node
  BY LenProperties
<1>2. PICK st \in [0 .. n -> Seq(Node)] :
        /\ st[0] = row /\ AppendAll(row, ids, limit) = st[n]
        /\ \A k \in 1 .. n : st[k] = AppendUnique(st[k - 1], ids[k], limit)
  BY AppendAllWalk, ZenonT(60)
<1> HIDE DEF n
<1> DEFINE T == {k \in 0 .. n : Grows(row, Some(k), limit, st[k])}
<1>3. Len(row) \in Nat /\ \A k \in 0 .. n : st[k] \in Seq(Node) /\ Len(st[k]) \in Nat
  BY <1>2, LenProperties
<1>4. 0 \in T
  <2>1. Some(0) = {}
    OBVIOUS
  <2> QED
    BY <1>1, <1>2, <1>3, <2>1 DEF Grows
<1>5. ASSUME NEW k \in 1 .. n, k - 1 \in T PROVE k \in T
  <2> DEFINE old == st[k - 1]
             new == st[k]
             id == ids[k]
  <2>1. old \in Seq(Node) /\ Len(old) \in Nat /\ Len(new) \in Nat /\ id \in Node
    BY <1>1, <1>3, <1>5
  <2>2. new = AppendUnique(old, id, limit)
    BY <1>2
  <2>3. Grows(row, Some(k - 1), limit, old)
    BY <1>5
  <2>4. Some(k) = Some(k - 1) \cup {id}
    OBVIOUS
  <2> HIDE DEF old, new, id, Some
  <2>5. Grows(old, {id}, limit, new)
    BY <2>1, <2>2, AppendUniqueGrows
  <2>6. Grows(row, Some(k - 1) \cup {id}, limit, new)
    BY <1>3, <2>1, <2>3, <2>5 DEF Grows
  <2>7. Grows(row, Some(k), limit, new)
    BY <2>4, <2>6, Zenon
  <2> QED
    BY <2>7 DEF new
<1>6. Some(n) = Range(ids)
  BY <1>1 DEF Range
<1> HIDE DEF T
<1>7. n \in T
  <2>1. n \in Nat
    BY <1>1
  <2> QED
    BY <1>4, <1>5, <2>1, CountUp
<1> QED
  BY <1>2, <1>6, <1>7 DEF T

LEMMA ConcatIs ==
  ASSUME NEW S, NEW s \in Seq(S), NEW t \in Seq(S)
  PROVE  /\ s \o t \in Seq(S) /\ Len(s \o t) = Len(s) + Len(t)
         /\ Range(s \o t) = Range(s) \cup Range(t)
         /\ IsInjective(s) /\ IsInjective(t) /\ Range(s) \cap Range(t) = {}
            => IsInjective(s \o t)
         /\ Len(s) > 0 => (s \o t)[1] = s[1]
<1> DEFINE m == Len(s)
           n == Len(t)
           c == s \o t
<1>1. /\ m \in Nat /\ DOMAIN s = 1 .. m /\ n \in Nat /\ DOMAIN t = 1 .. n
  BY LenProperties
<1>2. /\ c \in Seq(S) /\ Len(c) = m + n
      /\ \A i \in 1 .. m + n : c[i] = IF i <= m THEN s[i] ELSE t[i - m]
  BY ConcatProperties
<1> HIDE DEF m, n, c
<1>3. DOMAIN c = 1 .. m + n
  BY <1>2, LenProperties
<1>4. /\ \A i \in 1 .. m : i \in 1 .. m + n /\ c[i] = s[i]
      /\ \A i \in 1 .. n : m + i \in 1 .. m + n /\ c[m + i] = t[i]
  <2>1. \A i \in 1 .. n : m + i \in 1 .. m + n /\ ~ (m + i <= m) /\ (m + i) - m = i
    BY <1>1
  <2>2. \A i \in 1 .. m : i \in 1 .. m + n /\ i <= m
    BY <1>1
  <2> QED
    BY <1>2, <2>1, <2>2
<1>5. \A i \in 1 .. m + n : \/ i \in 1 .. m /\ c[i] = s[i]
                            \/ \E j \in 1 .. n : i = m + j /\ c[i] = t[j]
  <2> TAKE i \in 1 .. m + n
  <2>1. CASE i <= m
    BY <1>1, <1>2, <2>1
  <2>2. CASE ~ (i <= m)
    <3>1. i - m \in 1 .. n /\ i = m + (i - m)
      BY <1>1, <2>2
    <3> QED
      BY <1>2, <2>2, <3>1
  <2> QED
    BY <2>1, <2>2
<1>6. Range(c) = Range(s) \cup Range(t)
  <2>1. \A i \in 1 .. m : s[i] \in Range(c)
    BY <1>3, <1>4 DEF Range
  <2>2. \A i \in 1 .. n : t[i] \in Range(c)
    BY <1>3, <1>4 DEF Range
  <2>3. \A i \in 1 .. m + n : c[i] \in Range(s) \/ c[i] \in Range(t)
    BY <1>1, <1>5 DEF Range
  <2>4. Range(s) \subseteq Range(c)
    BY <1>1, <2>1 DEF Range
  <2>5. Range(t) \subseteq Range(c)
    BY <1>1, <2>2 DEF Range
  <2>6. Range(c) \subseteq Range(s) \cup Range(t)
    BY <1>3, <2>3 DEF Range
  <2> QED
    BY <2>4, <2>5, <2>6
<1>7. IsInjective(s) /\ IsInjective(t) /\ Range(s) \cap Range(t) = {} => IsInjective(c)
  <2> SUFFICES ASSUME IsInjective(s), IsInjective(t), Range(s) \cap Range(t) = {},
                      NEW i \in 1 .. m + n, NEW j \in 1 .. m + n, c[i] = c[j]
               PROVE  i = j
    BY <1>3 DEF IsInjective
  <2>1. \A a \in 1 .. m, b \in 1 .. n : s[a] # t[b]
    BY <1>1 DEF Range
  <2>2. \A a, b \in 1 .. m : s[a] = s[b] => a = b
    BY <1>1 DEF IsInjective
  <2>3. \A a, b \in 1 .. n : t[a] = t[b] => a = b
    BY <1>1 DEF IsInjective
  <2> QED
    BY <1>5, <2>1, <2>2, <2>3
<1>8. m > 0 => c[1] = s[1]
  BY <1>1, <1>4
<1> QED
  BY <1>2, <1>6, <1>7, <1>8 DEF m, n, c

\* The rows Vamana begins with lead from live nodes to live nodes.
LEMMA InitialRowsAre ==
  ASSUME build.dead \in SUBSET Node, NEW u \in Node, NEW row \in InitialRows(u)
  PROVE  /\ IsRow(u, row) /\ Range(row) \subseteq Live
         /\ u \notin Live => row = << >>
<1>1. CASE u \notin Live \/ N = 1
  <2>1. row = << >>
    BY <1>1 DEF InitialRows
  <2> QED
    BY <2>1, EmptyRow
<1>2. CASE ~ (u \notin Live \/ N = 1)
  <2> DEFINE place(i) == LET o == (i + 1) \div 2
                         IN  IF i % 2 = 1 THEN (u + o) % N ELSE (u + N - o) % N
             m == 2 * EffectiveDegree
             ring == [i \in 1 .. m |-> place(i)]
             kept == Keep(ring, Live \ {u})
             own == AppendAll(<< >>, kept, N)
             rest == Live \ (Range(own) \cup {u})
  <2>1. PICK more \in SetToAllKPermutations(rest) : row = Take(own \o more, Degree)
    BY <1>2 DEF InitialRows
  <2>2. ring \in Seq(Node)
    <3>1. m \in Nat /\ m <= 2 * (N - 1) /\ N \in Nat /\ u \in Nat
      BY EffectiveDegreeIs, NodesFinite DEF Node
    <3>2. \A i \in 1 .. m : place(i) \in Node
      <4> TAKE i \in 1 .. m
      <4> DEFINE o == (i + 1) \div 2
      <4>1. o \in Nat /\ o <= N
        BY <3>1
      <4> HIDE DEF o, m
      <4>2. u + o \in Nat /\ u + N - o \in Nat
        BY <3>1, <4>1
      <4>3. (u + o) % N \in Node /\ (u + N - o) % N \in Node
        BY <4>2, Modulo
      <4> QED
        BY <4>3 DEF o
    <3> HIDE DEF m, place
    <3> QED
      BY <3>1, <3>2
  <2> HIDE DEF ring
  <2>3. kept \in Seq(Node) /\ Range(kept) \subseteq Live \ {u}
    BY <2>2, KeepIs
  <2> HIDE DEF kept
  <2>4. << >> \in Seq(Node) /\ IsInjective(<< >>) /\ Range(<< >>) = {}
    BY DEF IsInjective, Range
  <2>5. Grows(<< >>, Range(kept), N, own)
    BY <2>3, <2>4, NodesFinite, AppendAllGrows
  <2> HIDE DEF own
  <2>6. own \in Seq(Node) /\ IsInjective(own) /\ Range(own) \subseteq Live \ {u}
    BY <2>3, <2>4, <2>5 DEF Grows
  <2>7. PICK S \in SUBSET rest : more \in SetToSeqs(S)
    BY <2>1 DEF SetToAllKPermutations
  <2>8. S \in SUBSET Node /\ S \cap Range(own) = {} /\ S \subseteq Live \ {u}
    BY <2>7 DEF Live
  <2> HIDE DEF rest
  <2>9. IsFiniteSet(S)
    BY <2>8, NodesFinite
  <2>10. more \in Seq(S) /\ IsInjective(more) /\ Range(more) = S
    BY <2>7, <2>9, SetToSeqsAre
  <2>11. more \in Seq(Node)
    BY <2>8, <2>10, SeqMonotonic
  <2> DEFINE all == own \o more
  <2>12. all \in Seq(Node) /\ IsInjective(all) /\ Range(all) \subseteq Live \ {u}
    BY <2>6, <2>8, <2>10, <2>11, ConcatIs
  <2> HIDE DEF all
  <2>13. /\ row \in Seq(Node) /\ IsInjective(row) /\ Range(row) \subseteq Live \ {u}
         /\ Len(row) = IF Degree <= Len(all) THEN Degree ELSE Len(all)
    BY <2>1, <2>12, NodesFinite, TakeIs DEF all
  <2>14. Len(row) <= Degree
    BY <2>12, <2>13, NodesFinite, LenProperties
  <2> QED
    BY <1>2, <2>13, <2>14 DEF IsRow
<1> QED
  BY <1>1, <1>2

LEMMA RowsAre ==
  ASSUME build \in Builds, NEW u \in Node, NEW row \in Rows(u)
  PROVE  /\ IsRow(u, row)
         /\ build.policy # "vamana" /\ Valid /\ N > 1 => row # << >>
         /\ build.policy = "vamana" => /\ Range(row) \cap build.dead = {}
                                       /\ u \in build.dead => row = << >>
<1>1. /\ build.policy \in Policies /\ build.dead \in SUBSET Node
      /\ build.window \in Nat /\ build.limit \in Nat
  BY BuildAssumption DEF BuildConfig
<1> DEFINE Far == build.window > 0 /\ (build.limit = 0 \/ build.limit >= Degree)
           found == {UNION {ProjectionCandidates(u, p, build.window) : p \in Projections}}
<1>2. build.policy \notin {"vamana", "exact"} /\ Valid => Far
  BY DEF Valid
<1>3. found \in SUBSET (SUBSET Node)
  <2>1. \A p \in Projections : ProjectionCandidates(u, p, build.window) \in SUBSET Node
    BY BuildAssumption, ProjectionCandidatesAre
  <2> QED
    BY <2>1
<1>4. LshCandidates(u) \in SUBSET (SUBSET Node)
  BY LshCandidatesAre
<1> HIDE DEF found
<1>5. ASSUME NEW f \in SUBSET (SUBSET Node), NEW C \in Candidates(u, f)
      PROVE  C \in SUBSET Node /\ (N > 1 /\ Far => C \ {u} # {})
  BY <1>5, CandidatesAre
<1> HIDE DEF Far
<1>6. ASSUME NEW C \in SUBSET Node, row = RobustPrune(u, C, {})
      PROVE  IsRow(u, row) /\ (C \ {u} # {} => row # << >>)
  <2>1. IsRow(u, row) /\ Pruned(u, C, {}, row)
    BY <1>6, PruneRow
  <2> QED
    BY <2>1 DEF Pruned
<1>7. ASSUME NEW C \in SUBSET Node, row = NearestNeighbors(u, C)
      PROVE  IsRow(u, row) /\ (C \ {u} # {} => row # << >>)
  BY <1>7, NearestRow
<1>8. CASE build.policy = "exact"
  <2>1. row = NearestNeighbors(u, Node)
    BY <1>8 DEF Rows
  <2>2. N > 1 => Node \ {u} # {}
    <3>1. N > 1 => 0 \in Node /\ 1 \in Node /\ 0 # 1
      BY NodesFinite DEF Node
    <3> QED
      BY <3>1
  <2> QED
    BY <1>7, <1>8, <2>1, <2>2
<1>9. CASE build.policy = "approx-rp"
  <2>1. PICK C \in Candidates(u, found) : row = RobustPrune(u, C, {})
    BY <1>9 DEF Rows, found
  <2>2. C \in SUBSET Node /\ (N > 1 /\ Far => C \ {u} # {})
    BY <1>3, <1>5
  <2> QED
    BY <1>2, <1>6, <1>9, <2>1, <2>2
<1>10. CASE build.policy = "lsh-vamana"
  <2>1. PICK C \in Candidates(u, LshCandidates(u)) : row = RobustPrune(u, C, {})
    BY <1>10 DEF Rows
  <2>2. C \in SUBSET Node /\ (N > 1 /\ Far => C \ {u} # {})
    BY <1>4, <1>5
  <2> QED
    BY <1>2, <1>6, <1>10, <2>1, <2>2
<1>11. CASE build.policy = "lsh-rp"
  <2>1. PICK C \in Candidates(u, LshCandidates(u)) : row = NearestNeighbors(u, C)
    BY <1>11 DEF Rows
  <2>2. C \in SUBSET Node /\ (N > 1 /\ Far => C \ {u} # {})
    BY <1>4, <1>5
  <2> QED
    BY <1>2, <1>7, <1>11, <2>1, <2>2
<1>12. CASE build.policy = "vamana"
  <2>1. row \in InitialRows(u)
    BY <1>12 DEF Rows
  <2>2. IsRow(u, row) /\ Range(row) \subseteq Live /\ (u \notin Live => row = << >>)
    BY <1>1, <2>1, InitialRowsAre
  <2> QED
    BY <1>12, <2>2 DEF Live
<1> QED
  BY <1>1, <1>8, <1>9, <1>10, <1>11, <1>12 DEF Policies

-----------------------------------------------------------------------------
\* Searches in memory.

\* What FoldLeftDomain walks through, when only the number of steps counts.
SearchStates == [frontier : SUBSET Node, visited : SUBSET Node, explored : SUBSET Node]

Looked(g, d, banned, st) ==
  IF st.frontier = {} THEN st
  ELSE LET u   == Nearest(d, st.frontier)
           new == Range(g[u]) \ (st.visited \cup banned)
       IN  [frontier |-> (st.frontier \ {u}) \cup new,
            visited  |-> st.visited \cup new,
            explored |-> st.explored \cup {u}]

LookAll(g, d, banned, start, list) ==
  FoldLeft(LAMBDA st, i : Looked(g, d, banned, st), start, list)

\* The nearest of a set is in the set, and nothing is nearer.
LEMMA NearestIs ==
  ASSUME NEW d \in [Node -> Nat], NEW S \in SUBSET Node, S # {}
  PROVE  Nearest(d, S) \in S /\ \A v \in S : v # Nearest(d, S) => Closer(d, Nearest(d, S), v)
<1> DEFINE s == ByDistance(d, S)
           n == Cardinality(S)
<1>1. /\ s \in Seq(S) /\ Len(s) = n /\ Range(s) = S
      /\ \A i, j \in 1 .. n : i < j <=> Closer(d, s[i], s[j])
  BY ByDistanceLists
<1>2. n \in Nat /\ n # 0
  BY NodesFinite, FS_EmptySet
<1>3. Nearest(d, S) = s[1]
  BY DEF Nearest
<1> HIDE DEF s, n
<1>4. DOMAIN s = 1 .. n /\ \A i \in 1 .. n : s[i] \in S
  BY <1>1, LenProperties
<1>5. 1 \in 1 .. n
  BY <1>2
<1>6. ASSUME NEW v \in S, v # s[1] PROVE Closer(d, s[1], v)
  <2>1. PICK j \in 1 .. n : v = s[j]
    BY <1>1, <1>4 DEF Range
  <2>2. 1 < j
    BY <1>2, <1>6, <2>1
  <2> QED
    BY <1>1, <1>5, <2>1, <2>2
<1> QED
  BY <1>3, <1>4, <1>5, <1>6

LEMMA LookedIs ==
  ASSUME NEW g \in Graphs, NEW d \in [Node -> Nat], NEW banned, NEW st \in SearchStates
  PROVE  /\ Looked(g, d, banned, st) \in SearchStates
         /\ st.explored \subseteq Looked(g, d, banned, st).explored
         /\ st.frontier # {} =>
              /\ Nearest(d, st.frontier) \in st.frontier
              /\ Nearest(d, st.frontier) \in Looked(g, d, banned, st).explored
<1>1. /\ st.frontier \in SUBSET Node /\ st.visited \in SUBSET Node
      /\ st.explored \in SUBSET Node
  BY DEF SearchStates
<1>2. CASE st.frontier = {}
  BY <1>2 DEF Looked
<1>3. CASE st.frontier # {}
  <2> DEFINE u == Nearest(d, st.frontier)
             new == Range(g[u]) \ (st.visited \cup banned)
  <2>1. u \in st.frontier
    BY <1>1, <1>3, NearestIs
  <2> HIDE DEF u
  <2>2. new \in SUBSET Node
    BY <1>1, <2>1, RowTypes
  <2>3. Looked(g, d, banned, st) = [frontier |-> (st.frontier \ {u}) \cup new,
                                    visited  |-> st.visited \cup new,
                                    explored |-> st.explored \cup {u}]
    BY <1>3 DEF Looked, u
  <2> HIDE DEF new
  <2> QED
    BY <1>1, <2>1, <2>2, <2>3 DEF SearchStates, u
<1> QED
  BY <1>2, <1>3

LEMMA LookAllWalk ==
  ASSUME NEW g \in Graphs, NEW d \in [Node -> Nat], NEW banned,
         NEW start \in SearchStates, NEW list \in Seq(Nat)
  PROVE  \E st \in [0 .. Len(list) -> SearchStates] :
           /\ st[0] = start /\ LookAll(g, d, banned, start, list) = st[Len(list)]
           /\ \A k \in 1 .. Len(list) : st[k] = Looked(g, d, banned, st[k - 1])
<1> DEFINE n == Len(list)
           X == SearchStates
           F == [p \in X \X (1 .. n) |-> Looked(g, d, banned, p[1])]
           Rec(h) == [t \in SUBSET (1 .. n) |->
                        IF t = {} THEN start
                        ELSE Looked(g, d, banned, h[t \ {Max(t)}])]
           fold == CHOOSE h : h = Rec(h)
<1>1. n \in Nat /\ DOMAIN list = 1 .. n /\ \A i \in 1 .. n : list[i] \in Nat
  BY LenProperties
<1>2. LookAll(g, d, banned, start, list) = fold[1 .. n]
  BY <1>1 DEF LookAll, FoldLeft, MapThenFoldSet
<1> HIDE DEF n, X
<1>3. \A row \in X, c \in Nat : Looked(g, d, banned, row) \in X
  BY LookedIs DEF X
<1>4. start \in X
  BY DEF X
<1>5. F \in [X \X (1 .. n) -> X]
      /\ \A row \in X, i \in 1 .. n : F[<<row, i>>] = Looked(g, d, banned, row)
  BY <1>1, <1>3
<1> HIDE DEF F
<1>6. PICK st : /\ IsWalk(st, n, X, start, F)
                /\ \A h : IsFold(h, n, X, start, F) => h[1 .. n] = st[n]
                /\ \E f \in [SUBSET (1 .. n) -> X] : IsFold(f, n, X, start, F)
  BY <1>1, <1>4, <1>5, FoldIs
<1>7. fold = Rec(fold)
  <2>1. PICK f \in [SUBSET (1 .. n) -> X] : IsFold(f, n, X, start, F)
    BY <1>6
  <2>2. f = Rec(f)
    BY <1>1, <1>5, <2>1, LastPlace DEF IsFold
  <2> QED
    BY <2>2
<1> HIDE DEF fold
<1>8. IsFold(fold, n, X, start, F)
  BY <1>1, <1>5, <1>7, LastPlace DEF IsFold
<1>9. \A k \in 1 .. n : st[k] = Looked(g, d, banned, st[k - 1])
  BY <1>5, <1>6 DEF IsWalk
<1> QED
  BY <1>2, <1>6, <1>8, <1>9 DEF n, X, IsWalk


LEMMA UpTo ==
  ASSUME NEW n \in Nat
  PROVE  /\ [i \in 1 .. n |-> i] \in Seq(Nat) /\ Len([i \in 1 .. n |-> i]) = n
         /\ [j \in DOMAIN [i \in 1 .. n |-> i] |-> j] = [i \in 1 .. n |-> i]
<1> DEFINE s == [i \in 1 .. n |-> i]
<1>1. s \in [1 .. n -> Nat] /\ DOMAIN s = 1 .. n
  OBVIOUS
<1>2. [j \in DOMAIN s |-> j] = s
  BY <1>1
<1> HIDE DEF s
<1> QED
  BY <1>1, <1>2, LenProperties DEF s

\* The first node looked at is the seed nearest by.
LEMMA BestFirstIs ==
  ASSUME NEW g \in Graphs, NEW d \in [Node -> Nat], NEW seeds \in SUBSET Node,
         NEW width \in Nat, NEW banned
  PROVE  /\ BestFirst(g, d, seeds, width, banned) \in SearchStates
         /\ seeds # {} /\ width > 0
            => \E s \in seeds : s \in BestFirst(g, d, seeds, width, banned).explored
<1> DEFINE n == Min({width, N})
           list == [i \in 1 .. n |-> i]
           start == [frontier |-> seeds, visited |-> seeds, explored |-> {}]
<1>1. n \in Nat /\ (width > 0 => n > 0)
  BY NodesFinite, OfTwo
<1>2. BestFirst(g, d, seeds, width, banned)
      = LookAll(g, d, banned, start, [j \in DOMAIN list |-> j])
  BY DEF BestFirst, LookAll, Looked, FoldLeftDomain
<1> HIDE DEF n
<1>3. list \in Seq(Nat) /\ Len(list) = n /\ [j \in DOMAIN list |-> j] = list
  BY <1>1, UpTo
<1>4. start \in SearchStates
  BY DEF SearchStates
<1> HIDE DEF list
<1>5. PICK st \in [0 .. n -> SearchStates] :
        /\ st[0] = start /\ LookAll(g, d, banned, start, list) = st[n]
        /\ \A k \in 1 .. n : st[k] = Looked(g, d, banned, st[k - 1])
  <2> HIDE DEF start
  <2>1. \E st \in [0 .. Len(list) -> SearchStates] :
          /\ st[0] = start /\ LookAll(g, d, banned, start, list) = st[Len(list)]
          /\ \A k \in 1 .. Len(list) : st[k] = Looked(g, d, banned, st[k - 1])
    BY <1>3, <1>4, LookAllWalk, SMTT(40)
  <2> QED
    BY <1>3, <2>1
<1>6. st[n] \in SearchStates
  BY <1>1, <1>5
<1>7. ASSUME seeds # {}, width > 0
      PROVE  \E s \in seeds : s \in st[n].explored
  <2> DEFINE s == Nearest(d, seeds)
             T == {k \in 0 .. n : k = 0 \/ s \in st[k].explored}
  <2>1. s \in seeds
    BY <1>7, NearestIs
  <2>2. start.frontier = seeds
    OBVIOUS
  <2> HIDE DEF start
  <2>3. s \in Looked(g, d, banned, start).explored
    BY <1>4, <1>7, <2>2, LookedIs
  <2> HIDE DEF s
  <2>4. 0 \in T
    BY <1>1
  <2>5. ASSUME NEW k \in 1 .. n, k - 1 \in T PROVE k \in T
    <3>1. st[k - 1] \in SearchStates /\ st[k] = Looked(g, d, banned, st[k - 1])
      BY <1>1, <1>5
    <3>2. s \in st[k].explored
      <4>1. CASE k - 1 = 0
        BY <1>5, <2>3, <3>1, <4>1
      <4>2. CASE s \in st[k - 1].explored
        BY <3>1, <4>2, LookedIs
      <4> QED
        BY <2>5, <4>1, <4>2
    <3> QED
      BY <3>2
  <2> HIDE DEF T
  <2>6. n \in T
    BY <1>1, <2>4, <2>5, CountUp
  <2> QED
    BY <1>1, <1>7, <2>1, <2>6 DEF T
<1> QED
  BY <1>2, <1>3, <1>5, <1>6, <1>7

-----------------------------------------------------------------------------
\* The insertion of a node.

LEMMA InsertIs ==
  ASSUME build \in Builds, graph \in Graphs, medoid \in Live, Clear(graph, build.dead),
         NEW u \in Live
  PROVE  /\ Insert(u) \in Graphs /\ Clear(Insert(u), build.dead)
         /\ \A v \in Node \ {u} : graph[v] # << >> => Insert(u)[v] # << >>
         /\ Live # {u} => Insert(u)[u] # << >>
<1>1. build.limit \in Nat /\ build.dead \in SUBSET Node /\ u \in Node /\ u \notin build.dead
  BY BuildAssumption DEF BuildConfig, Live
<1> DEFINE others == Live \ {u}
           entry == IF medoid # u THEN {medoid}
                    ELSE IF others = {} THEN {} ELSE {Min(others)}
           found == BestFirst(graph, Dist[u], entry, ConstructionWidth, {u} \cup build.dead)
           C == Explored(u) \cup Range(graph[u])
           row == RobustPrune(u, C, build.dead)
           mid == [graph EXCEPT ![u] = row]
<1>2. entry \in SUBSET (Live \ {u}) /\ (Live # {u} => entry # {})
  <2>1. others # {} => Min(others) \in others
    <3>1. others \in SUBSET Nat
      BY DEF Live, Node
    <3> HIDE DEF others
    <3> QED
      BY <3>1, LeastOf
  <2>2. Live # {u} => others # {}
    OBVIOUS
  <2> QED
    BY <2>1, <2>2
<1> HIDE DEF entry
<1>3. ConstructionWidth \in Nat /\ ConstructionWidth > 0
  <2>1. Degree \in Nat /\ Degree > 0 /\ 8 * Degree \in Nat
    BY NodesFinite
  <2>2. \A a, b \in Int : Max({a, b}) = IF a <= b THEN b ELSE a
    BY OfTwo
  <2>3. 8 * Degree \in Int /\ 200 \in Int /\ build.limit \in Int /\ Degree \in Int
    BY <1>1, <2>1
  <2>4. Max({8 * Degree, 200}) = IF 8 * Degree <= 200 THEN 200 ELSE 8 * Degree
    BY <2>2, <2>3, Zenon
  <2>5. Max({build.limit, Degree}) = IF build.limit <= Degree THEN Degree ELSE build.limit
    BY <2>2, <2>3, Zenon
  <2> QED
    BY <1>1, <2>1, <2>4, <2>5 DEF ConstructionWidth
<1>4. /\ found \in SearchStates
      /\ entry # {} => \E s \in entry : s \in found.explored
  <2>1. Dist[u] \in [Node -> Nat] /\ entry \in SUBSET Node
    BY <1>1, <1>2, GraphAssumption DEF Live
  <2> QED
    BY <1>3, <2>1, BestFirstIs
<1>5. Explored(u) = found.explored
  BY DEF Explored, entry
<1> HIDE DEF found
<1>6. /\ C \in SUBSET Node
      /\ Live # {u} => C \ ({u} \cup build.dead) # {}
  <2>1. found.explored \in SUBSET Node
    BY <1>4 DEF SearchStates
  <2>2. C \in SUBSET Node
    BY <1>1, <1>5, <2>1, RowTypes
  <2>3. ASSUME Live # {u} PROVE C \ ({u} \cup build.dead) # {}
    <3>1. PICK s \in entry : s \in found.explored
      BY <1>2, <1>4, <2>3
    <3> QED
      BY <1>2, <1>5, <3>1 DEF Live
  <2> QED
    BY <2>2, <2>3
<1> HIDE DEF C
<1>7. IsRow(u, row) /\ Pruned(u, C, build.dead, row)
  BY <1>1, <1>6, PruneRow
<1>8. graph \in [Node -> Seq(Node)]
  BY DEF Graphs
<1>9. Insert(u) = IF build.reverse THEN AddReverseRow(mid, u, row, build.dead) ELSE mid
  BY DEF Insert, C
<1> HIDE DEF row
<1>10. /\ mid \in [Node -> Seq(Node)]
       /\ \A v \in Node : mid[v] = IF v = u THEN row ELSE graph[v]
  BY <1>1, <1>7, <1>8 DEF IsRow
<1> HIDE DEF mid
<1>11. mid \in Graphs
  BY <1>7, <1>10 DEF Graphs
<1>12. Clear(mid, build.dead)
  BY <1>1, <1>7, <1>10 DEF Clear, Pruned
<1>13. Live # {u} => mid[u] # << >>
  BY <1>1, <1>6, <1>7, <1>10 DEF Pruned
<1>14. Insert(u) \in Graphs /\ KeepsRows(mid, Insert(u)) /\ Clear(Insert(u), build.dead)
  <2>1. CASE build.reverse
    <3>1. row \in Seq(Node)
      BY <1>7 DEF IsRow
    <3>2. Improves(mid, AddReverseRow(mid, u, row, build.dead), build.dead)
      BY <1>1, <1>11, <3>1, ReverseRowIs
    <3> QED
      BY <1>9, <1>12, <2>1, <3>2 DEF Improves
  <2>2. CASE ~ build.reverse
    BY <1>9, <1>11, <1>12, <2>2 DEF KeepsRows
  <2> QED
    BY <2>1, <2>2
<1> QED
  BY <1>1, <1>10, <1>13, <1>14 DEF KeepsRows

-----------------------------------------------------------------------------
\* Orders of the nodes.

LEMMA MostFirstIs ==
  ASSUME NEW w \in [Node -> Nat]
  PROVE  MostFirst(w) \in Orders
<1> DEFINE Before(a, b) == w[a] > w[b] \/ (w[a] = w[b] /\ a < b)
           R == {p \in Node \X Node : Before(p[1], p[2])}
           s == MostFirst(w)
<1>1. \A a, b \in Node : <<a, b>> \in R <=> Before(a, b)
  OBVIOUS
<1>2. TotalOrder(Node, R)
  <2>1. \A a \in Node : a \in Nat /\ w[a] \in Nat
    BY DEF Node
  <2>2. /\ \A a \in Node : ~ Before(a, a)
        /\ \A a, b \in Node : a = b \/ Before(a, b) \/ Before(b, a)
        /\ \A a, b, c \in Node : Before(a, b) /\ Before(b, c) => Before(a, c)
    BY <2>1
  <2> QED
    BY <1>1, <2>2 DEF TotalOrder
<1> HIDE DEF R
<1>3. ASSUME NEW u \in Node
      PROVE  Ranks(Node, R)[u] = Cardinality({v \in Node : Before(v, u)})
  <2>1. {v \in Node : <<v, u>> \in R} = {v \in Node : Before(v, u)}
    BY <1>1
  <2> QED
    BY <2>1 DEF Ranks
<1>4. IsFiniteSet(Node) /\ Cardinality(Node) = N
  BY NodesFinite
<1>5. \A i \in 1 .. N : \E u \in Node : Ranks(Node, R)[u] = i - 1
  BY <1>2, <1>4, Ranking
<1>6. s = [i \in 1 .. N |->
             CHOOSE u \in Node : Cardinality({v \in Node : Before(v, u)}) = i - 1]
  BY <1>4 DEF MostFirst, Sorted
<1>7. \A i \in 1 .. N : s[i] \in Node /\ Ranks(Node, R)[s[i]] = i - 1
  <2> SUFFICES ASSUME NEW i \in 1 .. N
               PROVE  s[i] \in Node /\ Ranks(Node, R)[s[i]] = i - 1
    OBVIOUS
  <2>1. s[i] = CHOOSE u \in Node : Cardinality({v \in Node : Before(v, u)}) = i - 1
    BY <1>6
  <2>2. \E u \in Node : Cardinality({v \in Node : Before(v, u)}) = i - 1
    BY <1>3, <1>5
  <2> HIDE DEF s
  <2>3. s[i] \in Node /\ Cardinality({v \in Node : Before(v, s[i])}) = i - 1
    BY <2>1, <2>2
  <2> QED
    BY <1>3, <2>3
<1>8. s \in [1 .. N -> Node]
  BY <1>6, <1>7
<1> HIDE DEF s
<1>9. Lists(s, Node, R)
  BY <1>2, <1>4, <1>7, <1>8, RankedList
<1>10. s \in Seq(Node) /\ Len(s) = N
  BY <1>4, <1>9 DEF Lists
<1> QED
  BY <1>9, <1>10, OrdersAre DEF Lists, s

\* As many elements as places.
LEMMA InjectiveLength ==
  ASSUME NEW S, NEW s \in Seq(S), IsInjective(s)
  PROVE  IsFiniteSet(Range(s)) /\ Cardinality(Range(s)) = Len(s)
<1>1. Len(s) \in Nat /\ DOMAIN s = 1 .. Len(s) /\ s \in [1 .. Len(s) -> S]
  BY LenProperties
<1> DEFINE D == 1 .. Len(s)
           R == Range(s)
<1>2. IsFiniteSet(D) /\ Cardinality(D) = Len(s)
  <2>1. 1 \in Int /\ Len(s) \in Int
    BY <1>1
  <2> QED
    BY <1>1, <2>1, FS_Interval
<1>3. s \in [D -> R] /\ \A r \in R : \E i \in D : s[i] = r
  BY <1>1 DEF Range
<1> HIDE DEF D, R
<1>4. s \in Surjection(D, R) /\ s \in Injection(D, R)
  BY <1>1, <1>3 DEF Surjection, Injection
<1>5. IsFiniteSet(R) /\ Cardinality(R) = Cardinality(D)
  BY <1>2, <1>4, FS_Surjection
<1> QED
  BY <1>2, <1>5 DEF R

OrderStates == [order : Seq(Node), queue : Seq(Node)]

\* Every node stands at one place of the order or of the queue.
OnePlace(st) ==
  /\ IsInjective(st.order) /\ IsInjective(st.queue)
  /\ Range(st.order) \cap Range(st.queue) = {}

VisitFirst(g, st) ==
  LET u    == IF st.queue = << >> THEN Min(Node \ Range(st.order)) ELSE Head(st.queue)
      rest == IF st.queue = << >> THEN << >> ELSE Tail(st.queue)
      seen == Range(st.order) \cup Range(rest) \cup {u}
  IN  IF Range(st.order) = Node THEN st
      ELSE [order |-> Append(st.order, u), queue |-> rest \o Keep(g[u], Node \ seen)]

VisitAll(g, start, list) == FoldLeft(LAMBDA st, i : VisitFirst(g, st), start, list)

LEMMA VisitFirstIs ==
  ASSUME NEW g \in Graphs, NEW st \in OrderStates
  PROVE  /\ VisitFirst(g, st) \in OrderStates
         /\ OnePlace(st) => OnePlace(VisitFirst(g, st))
         /\ \/ Range(st.order) = Node /\ VisitFirst(g, st) = st
            \/ Len(VisitFirst(g, st).order) = Len(st.order) + 1
<1> DEFINE o == st.order
           q == st.queue
<1>1. o \in Seq(Node) /\ q \in Seq(Node) /\ st = [order |-> o, queue |-> q]
  BY DEF OrderStates
<1>2. CASE Range(o) = Node
  BY <1>2 DEF VisitFirst
<1>3. CASE Range(o) # Node
  <2> DEFINE u == IF q = << >> THEN Min(Node \ Range(o)) ELSE Head(q)
             rest == IF q = << >> THEN << >> ELSE Tail(q)
             seen == Range(o) \cup Range(rest) \cup {u}
             more == Keep(g[u], Node \ seen)
             new == [order |-> Append(o, u), queue |-> rest \o more]
  <2>1. VisitFirst(g, st) = new
    BY <1>3 DEF VisitFirst
  <2> HIDE DEF o, q
  <2>2. /\ u \in Node /\ rest \in Seq(Node)
        /\ IsInjective(q) /\ Range(o) \cap Range(q) = {}
           => /\ IsInjective(rest) /\ u \notin Range(rest) /\ u \notin Range(o)
              /\ Range(rest) \cap Range(o) = {}
    <3>1. CASE q = << >>
      <4>1. Node \ Range(o) \in SUBSET Nat /\ Node \ Range(o) # {}
        <5>1. Range(o) \in SUBSET Node
          BY <1>1, RangeOfSeq
        <5>2. Node \in SUBSET Nat
          BY DEF Node
        <5> QED
          BY <1>3, <5>1, <5>2
      <4>2. Min(Node \ Range(o)) \in Node \ Range(o)
        BY <4>1, LeastOf
      <4>3. rest = << >> /\ u = Min(Node \ Range(o))
        BY <3>1
      <4> HIDE DEF u, rest
      <4> QED
        BY <4>2, <4>3 DEF IsInjective, Range
    <3>2. CASE q # << >>
      <4> DEFINE t == Tail(q)
      <4>1. /\ Head(q) \in Node /\ t \in Seq(Node) /\ Len(t) = Len(q) - 1
            /\ \A i \in 1 .. Len(t) : t[i] = q[i + 1]
        BY <1>1, <3>2, HeadTailProperties
      <4>2. rest = t /\ u = Head(q) /\ Head(q) = q[1]
        BY <1>1, <3>2
      <4> HIDE DEF u, rest, t
      <4>3. /\ Len(q) \in Nat /\ Len(q) # 0 /\ DOMAIN q = 1 .. Len(q)
            /\ DOMAIN t = 1 .. Len(t) /\ Len(t) \in Nat
        BY <1>1, <3>2, <4>1, LenProperties, EmptySeq
      <4>4. \A i \in 1 .. Len(t) : i + 1 \in 1 .. Len(q) /\ i + 1 # 1 /\ t[i] = q[i + 1]
        BY <4>1, <4>3
      <4>5. 1 \in 1 .. Len(q)
        BY <4>3
      <4>6. Range(t) \subseteq Range(q) /\ u \in Range(q)
        BY <4>2, <4>3, <4>4, <4>5 DEF Range
      <4>7. ASSUME IsInjective(q)
            PROVE  IsInjective(t) /\ u \notin Range(t)
        <5>1. \A i, j \in 1 .. Len(q) : q[i] = q[j] => i = j
          BY <4>3, <4>7 DEF IsInjective
        <5>2. \A i, j \in 1 .. Len(t) : t[i] = t[j] => i = j
          <6> SUFFICES ASSUME NEW i \in 1 .. Len(t), NEW j \in 1 .. Len(t), t[i] = t[j]
                       PROVE  i = j
            OBVIOUS
          <6>1. i + 1 = j + 1
            BY <4>4, <5>1
          <6> QED
            BY <6>1
        <5>3. \A i \in 1 .. Len(t) : t[i] # u
          BY <4>2, <4>4, <4>5, <5>1
        <5> QED
          BY <4>3, <5>2, <5>3 DEF IsInjective, Range
      <4> QED
        BY <4>1, <4>2, <4>6, <4>7
    <3> QED
      BY <3>1, <3>2
  <2> HIDE DEF u, rest
  <2>3. /\ more \in Seq(Node) /\ IsInjective(more)
        /\ Range(more) \cap (Range(o) \cup Range(rest) \cup {u}) = {}
    <3>1. g[u] \in Seq(Node) /\ IsInjective(g[u])
      BY <2>2, RowTypes
    <3> QED
      BY <3>1, KeepIs
  <2> HIDE DEF more
  <2> DEFINE p == Append(o, u)
             r == rest \o more
  <2>4. /\ p \in Seq(Node) /\ Len(p) = Len(o) + 1 /\ Range(p) = Range(o) \cup {u}
        /\ IsInjective(o) /\ u \notin Range(o) => IsInjective(p)
    BY <1>1, <2>2, AppendIs
  <2>5. /\ r \in Seq(Node) /\ Range(r) = Range(rest) \cup Range(more)
        /\ IsInjective(rest) /\ IsInjective(more) /\ Range(rest) \cap Range(more) = {}
           => IsInjective(r)
    BY <2>2, <2>3, ConcatIs
  <2>6. new = [order |-> p, queue |-> r]
    OBVIOUS
  <2> HIDE DEF p, r, new
  <2>7. new \in OrderStates /\ new.order = p /\ new.queue = r
    BY <2>4, <2>5, <2>6 DEF OrderStates
  <2>8. OnePlace(st) => OnePlace(new)
    <3> SUFFICES ASSUME IsInjective(o), IsInjective(q), Range(o) \cap Range(q) = {}
                 PROVE  OnePlace(new)
      BY <1>1 DEF OnePlace, o, q
    <3>1. IsInjective(p) /\ IsInjective(r) /\ Range(p) \cap Range(r) = {}
      BY <2>2, <2>3, <2>4, <2>5
    <3> QED
      BY <2>7, <3>1 DEF OnePlace
  <2> QED
    BY <2>1, <2>4, <2>7, <2>8 DEF o
<1> QED
  BY <1>2, <1>3

LEMMA VisitWalk ==
  ASSUME NEW g \in Graphs, NEW start \in OrderStates, NEW list \in Seq(Nat)
  PROVE  \E st \in [0 .. Len(list) -> OrderStates] :
           /\ st[0] = start /\ VisitAll(g, start, list) = st[Len(list)]
           /\ \A k \in 1 .. Len(list) : st[k] = VisitFirst(g, st[k - 1])
<1> DEFINE n == Len(list)
           X == OrderStates
           F == [p \in X \X (1 .. n) |-> VisitFirst(g, p[1])]
           Rec(h) == [t \in SUBSET (1 .. n) |->
                        IF t = {} THEN start
                        ELSE VisitFirst(g, h[t \ {Max(t)}])]
           fold == CHOOSE h : h = Rec(h)
<1>1. n \in Nat /\ DOMAIN list = 1 .. n /\ \A i \in 1 .. n : list[i] \in Nat
  BY LenProperties
<1>2. VisitAll(g, start, list) = fold[1 .. n]
  BY <1>1 DEF VisitAll, FoldLeft, MapThenFoldSet
<1> HIDE DEF n, X
<1>3. \A row \in X, c \in Nat : VisitFirst(g, row) \in X
  BY VisitFirstIs DEF X
<1>4. start \in X
  BY DEF X
<1>5. F \in [X \X (1 .. n) -> X]
      /\ \A row \in X, i \in 1 .. n : F[<<row, i>>] = VisitFirst(g, row)
  BY <1>1, <1>3
<1> HIDE DEF F
<1>6. PICK st : /\ IsWalk(st, n, X, start, F)
                /\ \A h : IsFold(h, n, X, start, F) => h[1 .. n] = st[n]
                /\ \E f \in [SUBSET (1 .. n) -> X] : IsFold(f, n, X, start, F)
  BY <1>1, <1>4, <1>5, FoldIs
<1>7. fold = Rec(fold)
  <2>1. PICK f \in [SUBSET (1 .. n) -> X] : IsFold(f, n, X, start, F)
    BY <1>6
  <2>2. f = Rec(f)
    BY <1>1, <1>5, <2>1, LastPlace DEF IsFold
  <2> QED
    BY <2>2
<1> HIDE DEF fold
<1>8. IsFold(fold, n, X, start, F)
  BY <1>1, <1>5, <1>7, LastPlace DEF IsFold
<1>9. \A k \in 1 .. n : st[k] = VisitFirst(g, st[k - 1])
  BY <1>5, <1>6 DEF IsWalk
<1> QED
  BY <1>2, <1>6, <1>8, <1>9 DEF n, X, IsWalk


LEMMA BfsOrderIs ==
  ASSUME NEW g \in Graphs
  PROVE  BfsOrder(g) \in Orders
<1> DEFINE list == [i \in 1 .. N |-> i]
           start == [order |-> << >>, queue |-> << >>]
<1>1. N \in Nat
  BY NodesFinite
<1>2. BfsOrder(g) = VisitAll(g, start, [j \in DOMAIN list |-> j]).order
  BY DEF BfsOrder, VisitAll, VisitFirst, FoldLeftDomain
<1>3. list \in Seq(Nat) /\ Len(list) = N /\ [j \in DOMAIN list |-> j] = list
  BY <1>1, UpTo
<1>4. start \in OrderStates /\ OnePlace(start) /\ start.order = << >>
  BY DEF OrderStates, OnePlace, IsInjective, Range
<1> HIDE DEF list, start
<1>5. PICK st \in [0 .. N -> OrderStates] :
        /\ st[0] = start /\ VisitAll(g, start, list) = st[N]
        /\ \A k \in 1 .. N : st[k] = VisitFirst(g, st[k - 1])
  <2>1. \E st \in [0 .. Len(list) -> OrderStates] :
          /\ st[0] = start /\ VisitAll(g, start, list) = st[Len(list)]
          /\ \A k \in 1 .. Len(list) : st[k] = VisitFirst(g, st[k - 1])
    BY <1>3, <1>4, VisitWalk
  <2> QED
    BY <1>3, <2>1
<1> DEFINE T == {k \in 0 .. N : /\ OnePlace(st[k])
                                /\ Range(st[k].order) = Node \/ Len(st[k].order) = k}
<1>6. 0 \in T
  BY <1>1, <1>4, <1>5
<1>7. ASSUME NEW k \in 1 .. N, k - 1 \in T PROVE k \in T
  <2> DEFINE old == st[k - 1]
             new == st[k]
  <2>1. old \in OrderStates /\ new = VisitFirst(g, old)
    BY <1>1, <1>5
  <2>2. OnePlace(old) /\ (Range(old.order) = Node \/ Len(old.order) = k - 1)
    BY <1>7
  <2> HIDE DEF old, new
  <2>3. OnePlace(new)
    BY <2>1, <2>2, VisitFirstIs
  <2>4. \/ Range(old.order) = Node /\ new = old
        \/ Len(new.order) = Len(old.order) + 1
    BY <2>1, VisitFirstIs
  <2>5. Range(old.order) = Node => new = old
    BY <2>1 DEF VisitFirst
  <2>6. Range(new.order) = Node \/ Len(new.order) = k
    BY <2>2, <2>4, <2>5
  <2> QED
    BY <2>3, <2>6 DEF new
<1> HIDE DEF T
<1>8. N \in T
  BY <1>1, <1>6, <1>7, CountUp
<1> DEFINE o == st[N].order
<1>9. o \in Seq(Node) /\ IsInjective(o)
  BY <1>1, <1>5, <1>8 DEF T, OrderStates, OnePlace
<1>10. BfsOrder(g) = o
  BY <1>2, <1>3, <1>5
<1>11. Range(o) = Node \/ Len(o) = N
  BY <1>8 DEF T
<1> HIDE DEF o
<1>12. IsFiniteSet(Range(o)) /\ Cardinality(Range(o)) = Len(o) /\ Range(o) \in SUBSET Node
  BY <1>9, InjectiveLength, RangeOfSeq
<1>13. Range(o) = Node /\ Len(o) = N
  <2>1. Cardinality(Node) = N /\ IsFiniteSet(Node)
    BY NodesFinite
  <2>2. Cardinality(Range(o)) = Cardinality(Node) => Range(o) = Node
    BY <1>12, <2>1, FS_Subset
  <2> QED
    BY <1>11, <1>12, <2>1, <2>2
<1> QED
  BY <1>9, <1>10, <1>13, OrdersAre

LEMMA NaturalOrder ==
  [i \in 1 .. N |-> i - 1] \in Orders
<1> DEFINE s == [i \in 1 .. N |-> i - 1]
<1>1. N \in Nat /\ \A i \in 1 .. N : i - 1 \in Node
  BY NodesFinite DEF Node
<1>2. s \in [1 .. N -> Node] /\ \A i \in 1 .. N : s[i] = i - 1
  BY <1>1
<1>3. \A u \in Node : u + 1 \in 1 .. N /\ u = (u + 1) - 1
  BY <1>1 DEF Node
<1> HIDE DEF s
<1>4. s \in Seq(Node) /\ Len(s) = N /\ DOMAIN s = 1 .. N
  BY <1>1, <1>2
<1>5. IsInjective(s)
  BY <1>2, <1>4 DEF IsInjective
<1>6. \A u \in Node : u \in Range(s)
  BY <1>2, <1>3, <1>4 DEF Range
<1>7. Range(s) = Node
  BY <1>2, <1>4, <1>6 DEF Range
<1> QED
  BY <1>4, <1>5, <1>7, OrdersAre DEF s

LEMMA OrdersForAre ==
  ASSUME build \in Builds, graph \in Graphs, NEW perPage
  PROVE  OrdersFor(perPage) \subseteq Orders
<1>1. build.packing \in Packings /\ build.queries \in Nat
  BY BuildAssumption DEF BuildConfig
<1>2. CASE build.packing = "one-node"
  BY <1>2, NaturalOrder DEF OrdersFor
<1>3. CASE build.packing = "random"
  BY <1>3 DEF OrdersFor
<1>4. CASE build.packing = "bfs"
  BY <1>4, BfsOrderIs DEF OrdersFor
<1>5. CASE build.packing = "coaccess"
  BY <1>5 DEF OrdersFor, CoaccessOrders
<1>6. CASE build.packing = "hotpath"
  <2> DEFINE training == Take(Training, build.queries)
             near(q) == BestFirst(graph, training[q], Range(EvenlySpaced(N, HotpathEntries)),
                                  HotpathWidth, {}).visited
             w == [u \in Node |-> Cardinality({q \in DOMAIN training : u \in near(q)})]
  <2>1. training \in Seq([Node -> Nat])
    BY <1>1, BuildAssumption, TakeIs
  <2> HIDE DEF training
  <2>2. IsFiniteSet(DOMAIN training)
    <3>1. Len(training) \in Nat /\ DOMAIN training = 1 .. Len(training)
      BY <2>1, LenProperties
    <3>2. 1 \in Int /\ Len(training) \in Int
      BY <3>1
    <3> QED
      BY <3>1, <3>2, FS_Interval
  <2>3. \A S \in SUBSET (DOMAIN training) : Cardinality(S) \in Nat
    BY <2>2, FS_Subset, FS_CardinalityType
  <2>4. HotpathOrder(graph, training, HotpathWidth, HotpathEntries) = MostFirst(w)
    BY DEF HotpathOrder
  <2> HIDE DEF near
  <2>5. w \in [Node -> Nat]
    BY <2>3
  <2>6. OrdersFor(perPage) = {MostFirst(w)}
    BY <1>6, <2>4 DEF OrdersFor, training
  <2> HIDE DEF w
  <2> QED
    BY <2>5, <2>6, MostFirstIs
<1> QED
  BY <1>1, <1>2, <1>3, <1>4, <1>5, <1>6 DEF Packings

-----------------------------------------------------------------------------
\* The build: what holds of the graph at every moment.

InOrder == [i \in 1 .. N |-> i - 1]

BuildShape ==
  /\ build \in Builds /\ stage \in Stages /\ graph \in Graphs
  /\ todo \in SUBSET Node /\ passes \in Nat /\ medoid \in Node
  /\ order # << >> => order \in Orders
  /\ order # << >> /\ build.packing = "one-node" => order = InOrder

\* What each stage can rely on.
BuildStages ==
  /\ stage \notin {"start", "failed"} => Valid
  /\ stage \in {"rows", "insert"} /\ build.policy = "vamana" => medoid \in Live
  /\ stage = "insert" => build.policy = "vamana"
  /\ stage \in {"reverse", "patch"} => build.policy # "vamana"
  /\ stage \notin {"start", "rows", "insert", "failed"} => todo = {}
  /\ stage \in {"write", "ready"} => order # << >>

\* Vamana never takes a deleted node in; the others take them out at the end.
BuildClear == build.policy = "vamana" \/ Built => Clear(graph, build.dead)

\* Nodes already visited have neighbours: Vamana's from their insertion on.
BuildLinked ==
  \/ build.policy = "vamana" /\ stage \notin {"start", "rows", "failed"}
  \/ build.policy # "vamana" /\ build.dead = {}
  => \A u \in Live \ todo : Live # {u} => graph[u] # << >>

BuildInv == BuildShape /\ BuildStages /\ BuildClear /\ BuildLinked

LEMMA BuildInvHolds ==
  ASSUME BuildInv
  PROVE  BuildTypeOK /\ RowsWellFormed /\ DeletedUnreachable /\ NoDeadEnds
<1> USE DEF BuildInv, BuildShape
<1>1. \A u \in Node : IsRow(u, graph[u]) /\ Range(graph[u]) \in SUBSET Node
  BY RowTypes DEF Graphs
<1>2. BuildTypeOK
  <2>1. DOMAIN graph = Node
    BY DEF Graphs
  <2>2. order # << >> => Len(order) = N /\ Range(order) = Node
    BY OrdersAre
  <2> QED
    BY <1>1, <2>1, <2>2 DEF BuildTypeOK
<1>3. RowsWellFormed
  BY <1>1 DEF RowsWellFormed, WellFormed, IsRow
<1>4. DeletedUnreachable
  BY DEF DeletedUnreachable, BuildClear, Clear
<1>5. NoDeadEnds
  BY DEF NoDeadEnds, BuildLinked, BuildStages, Built
<1> QED
  BY <1>2, <1>3, <1>4, <1>5

LEMMA BuildInitInv ==
  ASSUME BuildInit
  PROVE  BuildInv
<1>1. graph = [u \in Node |-> << >>]
  BY DEF BuildInit, EmptyGraph
<1>2. \A u \in Node : IsRow(u, << >>) /\ << >> \in Seq(Node) /\ Range(<< >>) = {}
  BY EmptyRow
<1>3. graph \in Graphs /\ Clear(graph, build.dead)
  BY <1>1, <1>2 DEF Graphs, Clear
<1>4. 0 \in Node
  BY NodesFinite DEF Node
<1> QED
  BY <1>3, <1>4 DEF BuildInit, BuildInv, BuildShape, BuildStages, BuildClear, BuildLinked,
                    Stages, Built, Live

\* Steps that leave the graph alone.
LEMMA SameGraph ==
  ASSUME BuildInv, Begin \/ RowsDone \/ InsertDone \/ ReverseDone
  PROVE  BuildInv'
<1>1. build' = build /\ graph' = graph /\ order' = order
  BY DEF Begin, RowsDone, InsertDone, ReverseDone
<1>2. Live' = Live /\ Valid' = Valid /\ build \in Builds /\ graph \in Graphs
  BY <1>1 DEF Live, Valid, BuildInv, BuildShape
<1>3. build.dead \in SUBSET Node
  BY <1>2, BuildAssumption DEF BuildConfig
<1>4. /\ stage' \in Stages /\ todo' \in SUBSET Node /\ passes' \in Nat /\ medoid' \in Node
  <2>1. 0 \in Node
    BY NodesFinite DEF Node
  <2>2. build.passes \in Nat
    BY <1>2, BuildAssumption DEF BuildConfig
  <2>3. Max({1, build.passes}) \in Nat
    <3>1. 1 \in Int /\ build.passes \in Int
      BY <2>2
    <3>2. Max({1, build.passes}) = IF 1 <= build.passes THEN build.passes ELSE 1
      BY <3>1, OfTwo
    <3> QED
      BY <2>2, <3>2
  <2> QED
    BY <1>3, <2>1, <2>2, <2>3 DEF BuildInv, BuildShape, Stages, Begin, RowsDone,
          InsertDone, ReverseDone, Live
<1>5. BuildShape'
  BY <1>1, <1>2, <1>4 DEF BuildInv, BuildShape
<1>6. BuildStages'
  BY <1>1, <1>2 DEF BuildInv, BuildStages, Begin, RowsDone, InsertDone, ReverseDone
<1>7. BuildClear'
  BY <1>1 DEF BuildInv, BuildStages, BuildClear, Built, Begin, RowsDone, InsertDone,
              ReverseDone
<1>8. BuildLinked'
  <2> USE <1>1, <1>2 DEF BuildInv, BuildStages, BuildLinked
  <2>1. CASE Begin
    BY <2>1 DEF Begin
  <2>2. CASE RowsDone
    <3>1. CASE build.policy = "vamana"
      <4>1. todo' = Node /\ Live \subseteq Node
        BY <2>2, <3>1 DEF RowsDone, Live
      <4> QED
        BY <4>1
    <3>2. CASE build.policy # "vamana"
      <4>1. todo' = todo
        BY <2>2, <3>2 DEF RowsDone
      <4> QED
        BY <3>2, <4>1
    <3> QED
      BY <3>1, <3>2
  <2>3. CASE InsertDone
    BY <2>3 DEF InsertDone
  <2>4. CASE ReverseDone
    BY <2>4 DEF ReverseDone
  <2> QED
    BY <2>1, <2>2, <2>3, <2>4
<1> QED
  BY <1>5, <1>6, <1>7, <1>8 DEF BuildInv

LEMMA BuildRowInv ==
  ASSUME BuildInv, BuildRow
  PROVE  BuildInv'
<1> DEFINE u == Min(todo)
<1>1. PICK row \in Rows(u) : graph' = [graph EXCEPT ![u] = row]
  BY DEF BuildRow
<1>2. /\ build' = build /\ stage' = stage /\ passes' = passes /\ medoid' = medoid
      /\ order' = order /\ todo' = todo \ {u} /\ stage = "rows"
  BY DEF BuildRow
<1>3. u \in Node /\ u \in todo
  <2>1. todo \in SUBSET Node /\ todo # {}
    BY DEF BuildRow, BuildInv, BuildShape
  <2>2. todo \in SUBSET Nat
    BY <2>1 DEF Node
  <2> QED
    BY <2>1, <2>2, LeastOf
<1> HIDE DEF u
<1>4. Live' = Live /\ Valid' = Valid /\ build \in Builds /\ graph \in Graphs
  BY <1>2 DEF Live, Valid, BuildInv, BuildShape
<1>5. /\ IsRow(u, row)
      /\ build.policy # "vamana" /\ Valid /\ N > 1 => row # << >>
      /\ build.policy = "vamana" => /\ Range(row) \cap build.dead = {}
                                    /\ u \in build.dead => row = << >>
  BY <1>1, <1>3, <1>4, RowsAre
<1>6. graph \in [Node -> Seq(Node)]
  BY <1>4 DEF Graphs
<1>7. graph' \in [Node -> Seq(Node)]
      /\ \A v \in Node : graph'[v] = IF v = u THEN row ELSE graph[v]
  BY <1>1, <1>3, <1>5, <1>6 DEF IsRow
<1>8. graph' \in Graphs
  BY <1>4, <1>5, <1>7 DEF Graphs
<1>9. BuildShape'
  BY <1>2, <1>8 DEF BuildInv, BuildShape
<1>10. BuildStages'
  BY <1>2, <1>4 DEF BuildInv, BuildStages
<1>11. BuildClear'
  BY <1>2, <1>5, <1>7 DEF BuildInv, BuildClear, Built, Clear
<1>12. BuildLinked'
  <2> SUFFICES ASSUME build.policy # "vamana", build.dead = {},
                      NEW v \in Live \ (todo \ {u}), Live # {v}
               PROVE  graph'[v] # << >>
    BY <1>2, <1>4 DEF BuildLinked
  <2>1. Valid
    BY <1>2 DEF BuildInv, BuildStages
  <2>2. CASE v = u
    <3>1. N > 1
      BY <1>3, <2>2, NodesFinite DEF Live, Node
    <3> QED
      BY <1>3, <1>5, <1>7, <2>1, <2>2, <3>1
  <2>3. CASE v # u
    <3>1. graph[v] # << >>
      BY <2>3 DEF BuildInv, BuildLinked
    <3> QED
      BY <1>7, <2>3, <3>1 DEF Live
  <2> QED
    BY <2>2, <2>3
<1> QED
  BY <1>9, <1>10, <1>11, <1>12 DEF BuildInv

LEMMA InsertNodeInv ==
  ASSUME BuildInv, NEW u \in Node, InsertNode(u)
  PROVE  BuildInv'
<1>1. /\ build' = build /\ stage' = stage /\ passes' = passes /\ medoid' = medoid
      /\ order' = order /\ todo' = todo \ {u} /\ stage = "insert"
  BY DEF InsertNode
<1>2. Live' = Live /\ Valid' = Valid /\ build \in Builds /\ graph \in Graphs
  BY <1>1 DEF Live, Valid, BuildInv, BuildShape
<1>3. build.policy = "vamana" /\ Clear(graph, build.dead) /\ medoid \in Live
  BY <1>1 DEF BuildInv, BuildStages, BuildClear
<1>4. /\ graph' \in Graphs /\ Clear(graph', build.dead)
      /\ \A v \in Live \ {u} : graph[v] # << >> => graph'[v] # << >>
      /\ u \in Live /\ Live # {u} => graph'[u] # << >>
  <2>1. CASE u \in Live
    <3>1. graph' = Insert(u)
      BY <2>1 DEF InsertNode
    <3> QED
      BY <1>2, <1>3, <2>1, <3>1, InsertIs DEF Live
  <2>2. CASE u \notin Live
    <3>1. graph' = [graph EXCEPT ![u] = << >>]
      BY <2>2 DEF InsertNode
    <3>2. graph \in [Node -> Seq(Node)]
      BY <1>2 DEF Graphs
    <3>3. IsRow(u, << >>) /\ << >> \in Seq(Node) /\ Range(<< >>) = {}
      BY EmptyRow
    <3>4. graph' \in [Node -> Seq(Node)]
          /\ \A v \in Node : graph'[v] = IF v = u THEN << >> ELSE graph[v]
      BY <3>1, <3>2, <3>3
    <3>5. graph' \in Graphs
      BY <1>2, <3>3, <3>4 DEF Graphs
    <3>6. Clear(graph', build.dead)
      BY <1>3, <3>3, <3>4 DEF Clear
    <3> QED
      BY <2>2, <3>4, <3>5, <3>6 DEF Live
  <2> QED
    BY <2>1, <2>2
<1>5. BuildShape'
  BY <1>1, <1>4 DEF BuildInv, BuildShape
<1>6. BuildStages'
  BY <1>1, <1>2 DEF BuildInv, BuildStages
<1>7. BuildClear'
  BY <1>1, <1>4 DEF BuildClear
<1>8. BuildLinked'
  <2> SUFFICES ASSUME NEW v \in Live \ (todo \ {u}), Live # {v}
               PROVE  graph'[v] # << >>
    BY <1>1, <1>2, <1>3 DEF BuildLinked
  <2>1. v # u => graph[v] # << >>
    BY <1>1, <1>3 DEF BuildInv, BuildLinked
  <2> QED
    BY <1>4, <2>1
<1> QED
  BY <1>5, <1>6, <1>7, <1>8 DEF BuildInv

LEMMA ReversePassInv ==
  ASSUME BuildInv, ReversePass
  PROVE  BuildInv'
<1>1. /\ build' = build /\ stage' = stage /\ todo' = todo /\ medoid' = medoid
      /\ order' = order /\ passes' = passes - 1 /\ passes > 0 /\ stage = "reverse"
  BY DEF ReversePass
<1>2. Live' = Live /\ Valid' = Valid /\ build \in Builds /\ graph \in Graphs
      /\ passes \in Nat
  BY <1>1 DEF Live, Valid, BuildInv, BuildShape
<1>3. graph' \in Graphs /\ KeepsRows(graph, graph')
  <2>1. CASE build.policy = "lsh-vamana"
    <3>1. graph' = PruneOverfull(AddReverseEdges(graph))
      BY <2>1 DEF ReversePass
    <3>2. AddReverseEdges(graph) \in Graphs /\ KeepsRows(graph, AddReverseEdges(graph))
      BY <1>2, AddReverseEdgesIs
    <3>3. PruneOverfull(AddReverseEdges(graph)) = AddReverseEdges(graph)
      BY <3>2, PruneOverfullIs
    <3> QED
      BY <3>1, <3>2, <3>3
  <2>2. CASE build.policy # "lsh-vamana"
    <3>1. graph' = AddReverseEdgesBatch(graph)
      BY <2>2 DEF ReversePass
    <3> QED
      BY <1>2, <3>1, ReverseBatchIs
  <2> QED
    BY <2>1, <2>2
<1>4. BuildShape'
  BY <1>1, <1>2, <1>3 DEF BuildInv, BuildShape
<1>5. BuildStages'
  BY <1>1, <1>2 DEF BuildInv, BuildStages
<1>6. BuildClear'
  BY <1>1 DEF BuildInv, BuildStages, BuildClear, Built
<1>7. BuildLinked'
  BY <1>1, <1>2, <1>3 DEF BuildInv, BuildLinked, KeepsRows, Live
<1> QED
  BY <1>4, <1>5, <1>6, <1>7 DEF BuildInv

LEMMA PatchInv ==
  ASSUME BuildInv, Patch
  PROVE  BuildInv'
<1>1. /\ build' = build /\ todo' = todo /\ passes' = passes /\ medoid' = medoid
      /\ order' = order /\ stage' = "order" /\ stage = "patch"
  BY DEF Patch
<1>2. Live' = Live /\ Valid' = Valid /\ build \in Builds /\ graph \in Graphs
  BY <1>1 DEF Live, Valid, BuildInv, BuildShape
<1>3. build.dead \in SUBSET Node
  BY <1>2, BuildAssumption DEF BuildConfig
<1>4. graph' \in Graphs /\ Clear(graph', build.dead)
  <2>1. CASE build.dead = {}
    BY <1>2, <2>1 DEF Patch, Clear
  <2>2. CASE build.dead # {}
    <3>1. graph' = DeletePatch(graph, build.dead)
      BY <2>2 DEF Patch
    <3> QED
      BY <1>2, <1>3, <3>1, DeletePatchIs
  <2> QED
    BY <2>1, <2>2
<1>5. BuildShape'
  BY <1>1, <1>4 DEF BuildInv, BuildShape, Stages
<1>6. BuildStages'
  BY <1>1, <1>2 DEF BuildInv, BuildStages
<1>7. BuildClear'
  BY <1>1, <1>4 DEF BuildClear
<1>8. BuildLinked'
  <2>1. build.dead = {} => graph' = graph
    BY DEF Patch
  <2> QED
    BY <1>1, <1>2, <2>1 DEF BuildInv, BuildStages, BuildLinked
<1> QED
  BY <1>5, <1>6, <1>7, <1>8 DEF BuildInv

LEMMA BuildStepInv ==
  ASSUME BuildInv, BuildStep
  PROVE  BuildInv'
BY SameGraph, BuildRowInv, InsertNodeInv, ReversePassInv, PatchInv DEF BuildStep

-----------------------------------------------------------------------------
\* Places on pages.

LEMMA Division ==
  ASSUME NEW a \in Nat, NEW b \in Nat, b > 0
  PROVE  /\ a \div b \in Nat /\ a % b \in 0 .. b - 1
         /\ a = b * (a \div b) + (a % b)
<1>1. a \div b \in Nat
  OBVIOUS
<1>2. a % b \in 0 .. b - 1
  OBVIOUS
<1>3. a = b * (a \div b) + (a % b)
  OBVIOUS
<1> QED
  BY <1>1, <1>2, <1>3

LEMMA QuotientIs ==
  ASSUME NEW q \in Nat, NEW r \in Nat, NEW b \in Nat, b > 0, r < b
  PROVE  (b * q + r) \div b = q /\ (b * q + r) % b = r
OBVIOUS

LEMMA TimesMonotonic ==
  ASSUME NEW a \in Nat, NEW c \in Nat, NEW b \in Nat, a <= c
  PROVE  b * a <= b * c
OBVIOUS

LEMMA PerPageIs ==
  ASSUME build \in Builds
  PROVE  PerPage \in Nat /\ PerPage > 0 /\ PageCount \in Nat
<1>1. NodesPerPage \in Nat /\ NodesPerPage > 0
  <2>1. RecordBytes \in Nat /\ RecordBytes > 0
    <3>1. Degree * PqBytes \in Nat /\ Degree \in Nat /\ Dim \in Nat
      BY NodesFinite, FileAssumption
    <3> QED
      BY <3>1 DEF RecordBytes
  <2>2. PageSize > 8 => (PageSize - 8) \div RecordBytes \in Nat
    BY <2>1, FileAssumption, Division
  <2> QED
    BY <2>2, PageHoldsNode, FileAssumption DEF NodesPerPage
<1>2. PerPage \in Nat /\ PerPage > 0
  BY <1>1 DEF PerPage
<1>3. N + PerPage - 1 \in Nat
  BY <1>2, NodesFinite
<1> QED
  BY <1>2, <1>3, Division DEF PageCount

\* The place of every number is on one of the pages, before its last node.
LEMMA PlaceOnPage ==
  ASSUME build \in Builds, NEW i \in 1 .. N
  PROVE  /\ (i - 1) \div PerPage \in 0 .. PageCount - 1
         /\ (i - 1) % PerPage \in 0 .. PerPage - 1
         /\ i = ((i - 1) \div PerPage) * PerPage + (((i - 1) % PerPage) + 1)
         /\ ((i - 1) % PerPage) + 1 <= N - ((i - 1) \div PerPage) * PerPage
<1> DEFINE b == PerPage
           q == (i - 1) \div b
           r == (i - 1) % b
           c == PageCount
<1>1. b \in Nat /\ b > 0 /\ N \in Nat /\ i \in Nat /\ i - 1 \in Nat /\ i <= N /\ c \in Nat
  BY PerPageIs, NodesFinite
<1>2. c = (N + b - 1) \div b
  BY DEF PageCount
<1> HIDE DEF b, c
<1>3. q \in Nat /\ r \in 0 .. b - 1 /\ i - 1 = b * q + r
  BY <1>1, Division
<1> DEFINE m == N + b - 1
           s == m % b
<1>4. m \in Nat /\ s \in 0 .. b - 1 /\ m = b * c + s
  BY <1>1, <1>2, Division
<1> HIDE DEF q, r, m, s
<1>5. q < c
  <2> SUFFICES ASSUME c <= q PROVE FALSE
    BY <1>1, <1>3
  <2>1. b * c <= b * q
    BY <1>1, <1>3, TimesMonotonic
  <2>2. b * c \in Nat /\ b * q \in Nat
    BY <1>1, <1>3
  <2>3. m = N + b - 1
    BY DEF m
  <2> QED
    BY <1>1, <1>3, <1>4, <2>1, <2>2, <2>3
<1>6. b * q = q * b /\ b * q \in Nat
  BY <1>1, <1>3
<1> QED
  BY <1>1, <1>3, <1>5, <1>6 DEF b, q, r, c

\* And every place of a page holds one number.
LEMMA PageOfPlace ==
  ASSUME build \in Builds, NEW p \in 0 .. PageCount - 1,
         NEW s \in 1 .. PerPage, s <= N - p * PerPage
  PROVE  p * PerPage + s \in 1 .. N /\ ((p * PerPage + s) - 1) \div PerPage = p
<1> DEFINE b == PerPage
<1>1. b \in Nat /\ b > 0 /\ N \in Nat /\ p \in Nat /\ s \in 1 .. b /\ s <= N - p * b
  BY PerPageIs, NodesFinite
<1> HIDE DEF b
<1>2. p * b \in Nat /\ p * b = b * p
  BY <1>1
<1>3. p * b + s \in 1 .. N
  BY <1>1, <1>2
<1>4. s - 1 \in Nat /\ s - 1 < b /\ (p * b + s) - 1 = b * p + (s - 1)
  BY <1>1, <1>2
<1>5. (b * p + (s - 1)) \div b = p
  BY <1>1, <1>4, QuotientIs
<1> QED
  BY <1>3, <1>4, <1>5 DEF b

Place(u) == CHOOSE i \in 1 .. N : order[i] = u

LEMMA PlaceIs ==
  ASSUME order \in Orders, NEW u \in Node
  PROVE  /\ Place(u) \in 1 .. N /\ order[Place(u)] = u
         /\ \A i \in 1 .. N : order[i] = u => i = Place(u)
<1>1. order \in Seq(Node) /\ DOMAIN order = 1 .. N /\ IsInjective(order) /\ Range(order) = Node
  BY OrdersAre, LenProperties
<1>2. PICK i \in 1 .. N : order[i] = u
  BY <1>1 DEF Range
<1>3. Place(u) \in 1 .. N /\ order[Place(u)] = u
  BY <1>2 DEF Place
<1> QED
  BY <1>1, <1>3 DEF IsInjective

\* With one node on a page, in the natural order, the page is the node.
LEMMA PageOfNode ==
  ASSUME BuildInv, order # << >>, NEW u \in Node,
         build.packing # "one-node" => file.directory = Directory
  PROVE  PageOf(u) = (Place(u) - 1) \div PerPage
<1>1. order \in Orders
  BY DEF BuildInv, BuildShape
<1>2. CASE build.packing = "one-node"
  <2>1. order = InOrder /\ PerPage = 1 /\ PageOf(u) = u
    BY <1>2 DEF BuildInv, BuildShape, PerPage, PageOf
  <2>2. Place(u) \in 1 .. N /\ order[Place(u)] = u
    BY <1>1, PlaceIs
  <2>3. Place(u) - 1 = u
    BY <2>1, <2>2 DEF InOrder
  <2>4. u \in Nat /\ u \div 1 = u
    BY DEF Node
  <2> QED
    BY <2>1, <2>3, <2>4
<1>3. CASE build.packing # "one-node"
  BY <1>3 DEF PageOf, Directory, Place
<1> QED
  BY <1>2, <1>3

-----------------------------------------------------------------------------
\* What a record and a page give back.

LEMMA NeighboursOfRecord ==
  ASSUME graph \in Graphs, NEW u \in Node
  PROVE  Neighbours(Record(u)) = graph[u]
<1> DEFINE g == graph[u]
           row == [i \in 1 .. Degree |-> IF i <= Len(g) THEN g[i] ELSE NoNode]
           T == Range(row) \ {NoNode}
<1>1. /\ g \in Seq(Node) /\ Len(g) \in Nat /\ Len(g) <= Degree
      /\ DOMAIN g = 1 .. Len(g) /\ Degree \in Nat
  BY RowTypes, NodesFinite
<1>2. Record(u) = [id |-> u, degree |-> Len(g), row |-> row]
  BY DEF Record
<1>3. Neighbours(Record(u)) = Keep(SubSeq(row, 1, Len(g)), T)
  BY <1>2 DEF Neighbours
<1> HIDE DEF g
<1>4. /\ \A i \in 1 .. Len(g) : i \in 1 .. Degree /\ row[i] = g[i] /\ g[i] \in Node
      /\ DOMAIN row = 1 .. Degree
  BY <1>1, LenProperties
<1> HIDE DEF row
<1>5. SubSeq(row, 1, Len(g)) = g
  <2> DEFINE part == SubSeq(row, 1, Len(g))
  <2>1. 1 \in Int /\ Len(g) \in Int /\ \A i \in 1 .. Len(g) : row[i] \in Node
    BY <1>1, <1>4
  <2>2. part \in Seq(Node)
        /\ Len(part) = (IF 1 <= Len(g) THEN Len(g) - 1 + 1 ELSE 0)
        /\ \A i \in 1 .. Len(g) - 1 + 1 : part[i] = row[1 + i - 1]
    BY <2>1, SubSeqProperties
  <2> HIDE DEF part
  <2>3. Len(part) = Len(g) /\ \A i \in 1 .. Len(g) : part[i] = g[i]
    BY <1>1, <1>4, <2>2
  <2> QED
    BY <1>1, <2>2, <2>3, SeqEqual DEF part
<1>6. Range(g) \subseteq T
  <2>1. NoNode \notin Node
    BY DEF NoNode, Node
  <2> QED
    BY <1>1, <1>4, <2>1 DEF Range
<1>7. Keep(g, T) = g
  BY <1>1, <1>6, KeepIs
<1> QED
  BY <1>3, <1>5, <1>7 DEF g

\* The pages there are, are the pages that were to be written.
PagesWritten ==
  /\ Len(file.pages) \in Nat /\ Len(file.pages) <= PageCount
  /\ \A p \in 0 .. Len(file.pages) - 1 : file.pages[p + 1] = EncodePage(p)

\* A page gives back the records of its places, and only these.
LEMMA RecordsOfPage ==
  ASSUME BuildInv, order # << >>, PagesWritten, NEW p \in 0 .. Len(file.pages) - 1
  PROVE  /\ Readable(p)
         /\ \A r : r \in Records(p) <=>
              \E s \in 1 .. PerPage : s <= N - p * PerPage /\ r = Record(order[p * PerPage + s])
<1> DEFINE b == PerPage
           m == N - p * b
           count == Min({b, m})
           slot(s) == IF s <= count THEN Record(order[p * b + s]) ELSE Padding
           slots == [s \in 1 .. b |-> slot(s)]
           S == {slot(s) : s \in 1 .. b}
<1>1. /\ build \in Builds /\ order \in Orders /\ N \in Nat
      /\ b \in Nat /\ b > 0 /\ PageCount \in Nat
  BY PerPageIs, NodesFinite DEF BuildInv, BuildShape
<1>2. p \in 0 .. PageCount - 1 /\ p \in Nat /\ p < Len(file.pages)
  BY <1>1 DEF PagesWritten
<1>3. m \in Int /\ count = IF b <= m THEN b ELSE m
  <2>1. p * b \in Nat
    BY <1>1, <1>2
  <2>2. m \in Int /\ b \in Int
    BY <1>1, <2>1
  <2> HIDE DEF b, m
  <2> QED
    BY <2>2, OfTwo
<1>4. file.pages[p + 1] = [id |-> p, count |-> count, slots |-> slots]
  BY <1>2 DEF PagesWritten, EncodePage
<1>5. count <= b /\ (\A s \in 1 .. b : s <= count <=> s <= m) /\ count \in Int
  <2> HIDE DEF b, m, count
  <2> QED
    BY <1>1, <1>3
<1>6. Readable(p)
  BY <1>2, <1>4, <1>5 DEF Readable
<1> DEFINE part == SubSeq(slots, 1, count)
<1>7. Records(p) = Range(part)
  BY <1>4 DEF Records
<1> HIDE DEF count, m
<1>8. slots \in [1 .. b -> S] /\ \A s \in 1 .. b : slots[s] = slot(s)
  OBVIOUS
<1> HIDE DEF S, slots
<1>9. /\ part \in Seq(S)
      /\ Len(part) = (IF 1 <= count THEN count - 1 + 1 ELSE 0)
      /\ \A i \in 1 .. count - 1 + 1 : part[i] = slots[1 + i - 1]
  <2>1. \A i \in 1 .. count : slots[i] \in S
    BY <1>1, <1>5, <1>8
  <2>2. 1 \in Int
    OBVIOUS
  <2> QED
    BY <1>5, <2>1, <2>2, SubSeqProperties
<1> HIDE DEF part, slot
<1>10. /\ DOMAIN part = 1 .. Len(part)
       /\ \A s : s \in 1 .. Len(part) <=> s \in 1 .. b /\ s <= m
       /\ \A i \in 1 .. Len(part) : part[i] = slots[i]
  <2>1. DOMAIN part = 1 .. Len(part) /\ Len(part) \in Nat
    BY <1>9, LenProperties
  <2>2. 1 .. Len(part) = 1 .. count
    BY <1>5, <1>9
  <2>3. \A i \in 1 .. count : part[i] = slots[i]
    BY <1>5, <1>9
  <2>4. \A s : s \in 1 .. count <=> s \in 1 .. b /\ s <= count
    BY <1>1, <1>5
  <2> QED
    BY <1>5, <2>1, <2>2, <2>3, <2>4
<1>11. \A s \in 1 .. b : s <= m => slots[s] = Record(order[p * b + s])
  BY <1>5, <1>8 DEF slot
<1>12. \A r : r \in Records(p) <=> \E s \in 1 .. b : s <= m /\ r = slots[s]
  BY <1>7, <1>10 DEF Range
<1>13. \A r : r \in Records(p) <=> \E s \in 1 .. b : s <= m /\ r = Record(order[p * b + s])
  BY <1>11, <1>12
<1> QED
  BY <1>6, <1>13 DEF m

LEMMA RecordId ==
  ASSUME NEW u
  PROVE  Record(u).id = u
BY DEF Record

\* Every node is found on its page, if the page is there, with its row.
LEMMA NodeIsServed ==
  ASSUME BuildInv, order # << >>, PagesWritten, NEW u \in Node,
         build.packing # "one-node" => file.directory = Directory
  PROVE  /\ PageOf(u) \in AllPages
         /\ Found(u) <=> PageOf(u) < Len(file.pages)
         /\ Found(u) => RowOf(u) = graph[u]
<1>1. build \in Builds /\ order \in Orders /\ graph \in Graphs
  BY DEF BuildInv, BuildShape
<1> DEFINE i == Place(u)
           p == (i - 1) \div PerPage
           s == ((i - 1) % PerPage) + 1
<1>2. i \in 1 .. N /\ order[i] = u /\ \A j \in 1 .. N : order[j] = u => j = i
  BY <1>1, PlaceIs
<1>3. PageOf(u) = p
  BY PageOfNode
<1> HIDE DEF i
<1>4. /\ p \in 0 .. PageCount - 1 /\ s \in 1 .. PerPage
      /\ i = p * PerPage + s /\ s <= N - p * PerPage
  <2>1. /\ p \in 0 .. PageCount - 1 /\ (i - 1) % PerPage \in 0 .. PerPage - 1
        /\ i = p * PerPage + s /\ s <= N - p * PerPage
    BY <1>1, <1>2, PlaceOnPage
  <2>2. PerPage \in Nat
    BY <1>1, PerPageIs
  <2>3. \A x \in 0 .. PerPage - 1 : x + 1 \in 1 .. PerPage
    BY <2>2
  <2>4. s \in 1 .. PerPage
    BY <2>1, <2>3
  <2> QED
    BY <2>1, <2>4
<1> HIDE DEF p, s
<1>5. PageOf(u) \in AllPages
  BY <1>3, <1>4 DEF AllPages
<1>6. ASSUME p < Len(file.pages)
      PROVE  Found(u) /\ RowOf(u) = graph[u]
  <2>1. p \in 0 .. Len(file.pages) - 1
    BY <1>4, <1>6 DEF PagesWritten
  <2>2. /\ Readable(p)
        /\ \A r : r \in Records(p) <=>
             \E t \in 1 .. PerPage : t <= N - p * PerPage /\ r = Record(order[p * PerPage + t])
    BY <2>1, RecordsOfPage
  <2>3. Record(u) \in Records(p) /\ Record(u).id = u
    BY <1>2, <1>4, <2>2, RecordId
  <2>4. RecordsOf(u) = {Record(u)}
    <3>1. ASSUME NEW r \in Records(p), r.id = u PROVE r = Record(u)
      <4>1. PICK t \in 1 .. PerPage :
              t <= N - p * PerPage /\ r = Record(order[p * PerPage + t])
        BY <2>2, <3>1
      <4>2. order[p * PerPage + t] = u
        BY <3>1, <4>1, RecordId
      <4> QED
        BY <4>1, <4>2
    <3> QED
      BY <1>3, <2>3, <3>1 DEF RecordsOf
  <2>5. RowOf(u) = Neighbours(Record(u))
    BY <2>4 DEF RowOf
  <2> QED
    BY <1>1, <1>3, <2>2, <2>4, <2>5, NeighboursOfRecord DEF Found
<1>7. Found(u) => p < Len(file.pages)
  BY <1>3 DEF Found, Readable
<1> QED
  BY <1>3, <1>5, <1>6, <1>7

\* Where everything is there, edges are counted among the nodes.
LEMMA InDegreesAre ==
  ASSUME BuildInv, order # << >>, PagesWritten, \A p \in AllPages : Readable(p)
  PROVE  InDegrees \in [Node -> Nat]
<1> DEFINE all == UNION {Records(p) : p \in AllPages}
           records == [u \in Node |-> Record(u)]
           R == Range(records)
<1>1. IsFiniteSet(R)
  <2>1. records \in Surjection(Node, R)
    BY DEF Surjection, Range
  <2> HIDE DEF records, R
  <2> QED
    BY <2>1, NodesFinite, FS_Surjection
<1>2. all \in SUBSET R
  <2> SUFFICES ASSUME NEW p \in AllPages, NEW r \in Records(p) PROVE r \in R
    OBVIOUS
  <2>1. build \in Builds /\ order \in Orders
    BY DEF BuildInv, BuildShape
  <2>2. p \in 0 .. PageCount - 1 /\ p \in 0 .. Len(file.pages) - 1
    BY DEF AllPages, Readable, PagesWritten
  <2>3. PICK s \in 1 .. PerPage : s <= N - p * PerPage /\ r = Record(order[p * PerPage + s])
    BY <2>2, RecordsOfPage
  <2>4. p * PerPage + s \in 1 .. N
    BY <2>1, <2>2, <2>3, PageOfPlace
  <2>5. order[p * PerPage + s] \in Node
    BY <2>1, <2>4, OrdersAre, LenProperties
  <2> QED
    BY <2>3, <2>5 DEF Range
<1> HIDE DEF all, R
<1>3. \A S \in SUBSET all : Cardinality(S) \in Nat
  BY <1>1, <1>2, FS_Subset, FS_CardinalityType
<1>4. \A v \in Node : Cardinality({r \in all : v \in Range(Neighbours(r))}) \in Nat
  BY <1>3
<1> QED
  BY <1>4 DEF InDegrees, all

-----------------------------------------------------------------------------
\* The file.

Pages == {EncodePage(p) : p \in AllPages}

FileInv ==
  /\ file \in [header : BOOLEAN, directory : [Node -> Nat] \cup {<< >>}, pages : Seq(Pages)]
  /\ PagesWritten
  /\ file.directory # << >> => file.directory = Directory
  /\ file = NoFile \/ (stage \in {"write", "ready", "failed"} /\ order # << >>)

LEMMA EmptyFile ==
  BuildInv /\ file = NoFile => FileInv
<1> SUFFICES ASSUME BuildInv, file = NoFile PROVE FileInv
  OBVIOUS
<1>1. Len(file.pages) = 0 /\ PageCount \in Nat
  BY PerPageIs DEF NoFile, BuildInv, BuildShape
<1> QED
  BY <1>1 DEF FileInv, NoFile, PagesWritten

\* What is written depends on the graph and its order only.
LEMMA SamePages ==
  ASSUME build' = build, graph' = graph, order' = order
  PROVE  /\ PageCount' = PageCount /\ Directory' = Directory /\ Pages' = Pages
         /\ \A p : EncodePage(p)' = EncodePage(p)
BY DEF PageCount, PerPage, Directory, EncodePage, Record, Pages, AllPages

\* The build goes on, and nothing is in the file yet.
LEMMA BuildStepFile ==
  ASSUME BuildInv, FileInv, BuildStep, file' = file
  PROVE  FileInv'
<1>1. stage \in {"start", "rows", "insert", "reverse", "patch"}
  BY DEF BuildStep, Begin, BuildRow, RowsDone, InsertNode, InsertDone, ReversePass,
         ReverseDone, Patch
<1>2. file' = NoFile
  BY <1>1 DEF FileInv
<1>3. BuildInv'
  BY BuildStepInv
<1>4. BuildInv' /\ file' = NoFile => FileInv'
  <2>1. (BuildInv /\ file = NoFile)' => FileInv'
    BY EmptyFile, PTL
  <2>2. NoFile' = NoFile
    BY DEF NoFile
  <2> QED
    BY <2>1, <2>2
<1> QED
  BY <1>2, <1>3, <1>4

\* Nothing changes but the stage, from writing to its end.
LEMMA StageOnly ==
  ASSUME BuildInv, stage = "write", stage' \in {"write", "ready", "failed"},
         UNCHANGED <<build, graph, todo, passes, medoid, order>>
  PROVE  BuildInv'
<1>1. Live' = Live /\ Valid' = Valid
  BY DEF Live, Valid
<1>2. BuildShape'
  BY DEF BuildInv, BuildShape, Stages
<1>3. BuildStages'
  BY <1>1 DEF BuildInv, BuildStages
<1>4. BuildClear'
  BY DEF BuildInv, BuildClear, Built
<1>5. BuildLinked'
  BY <1>1 DEF BuildInv, BuildLinked
<1> QED
  BY <1>2, <1>3, <1>4, <1>5 DEF BuildInv

\* Choosing an order leaves the graph as it is.
LEMMA ChooseOrderInv ==
  ASSUME BuildInv, FileInv, ChooseOrder(PerPage), file' = file
  PROVE  BuildInv' /\ FileInv'
<1>1. Live' = Live /\ Valid' = Valid /\ stage = "order"
  BY DEF Live, Valid, ChooseOrder
<1>2. /\ UNCHANGED <<build, graph, todo, passes>> /\ medoid' = 0
      /\ stage' \in {"failed", "write"}
      /\ (order' = order \/ order' \in OrdersFor(PerPage))
      /\ (stage' = "write" => order' \in OrdersFor(PerPage))
  BY DEF ChooseOrder
<1>3. order' \in OrdersFor(PerPage)
      => order' \in Orders /\ (build.packing = "one-node" => order' = InOrder) /\ order' # << >>
  <2>1. OrdersFor(PerPage) \subseteq Orders
    BY OrdersForAre DEF BuildInv, BuildShape
  <2>2. build.packing = "one-node" => OrdersFor(PerPage) = {InOrder}
    BY DEF OrdersFor, InOrder
  <2>3. << >> \notin Orders
    BY OrdersAre, NodesFinite
  <2> QED
    BY <2>1, <2>2, <2>3
<1>4. BuildShape'
  <2>1. 0 \in Node
    BY NodesFinite DEF Node
  <2> QED
    BY <1>2, <1>3, <2>1 DEF BuildInv, BuildShape, Stages
<1>5. BuildStages'
  BY <1>1, <1>2, <1>3 DEF BuildInv, BuildStages
<1>6. BuildClear'
  BY <1>1, <1>2 DEF BuildInv, BuildClear, Built
<1>7. BuildLinked'
  BY <1>1, <1>2 DEF BuildInv, BuildLinked
<1>8. file = NoFile
  BY <1>1 DEF FileInv
<1>10. NoFile' = NoFile
  BY DEF NoFile
<1>9. (BuildInv /\ file = NoFile)' => FileInv'
  BY EmptyFile, PTL
<1> QED
  BY <1>4, <1>5, <1>6, <1>7, <1>8, <1>9, <1>10 DEF BuildInv

LEMMA DirectoryIs ==
  ASSUME build \in Builds, order \in Orders
  PROVE  Directory \in [Node -> Nat]
<1>1. \A u \in Node : (Place(u) - 1) \div PerPage \in Nat
  <2> TAKE u \in Node
  <2>1. Place(u) \in 1 .. N
    BY PlaceIs
  <2>2. (Place(u) - 1) \div PerPage \in 0 .. PageCount - 1
    BY <2>1, PlaceOnPage
  <2> QED
    BY <2>2, PerPageIs
<1> QED
  BY <1>1 DEF Directory, Place

LEMMA SameBuild ==
  ASSUME BuildInv, UNCHANGED building
  PROVE  BuildInv'
<1>1. Live' = Live /\ Valid' = Valid
  BY DEF Live, Valid, building
<1> QED
  BY <1>1 DEF BuildInv, BuildShape, BuildStages, BuildClear, BuildLinked, Built, building

LEMMA WriteHeaderInv ==
  ASSUME BuildInv, FileInv, WriteHeader
  PROVE  FileInv'
<1>1. /\ stage' = stage /\ build' = build /\ graph' = graph /\ order' = order
      /\ stage = "write" /\ order # << >> /\ order \in Orders /\ build \in Builds
  BY DEF WriteHeader, building, BuildInv, BuildShape, BuildStages
<1>2. PageCount' = PageCount /\ Directory' = Directory /\ Pages' = Pages
  BY <1>1, SamePages
<1>3. Directory \in [Node -> Nat] /\ PageCount \in Nat
  BY <1>1, DirectoryIs, PerPageIs
<1>4. file' = [header |-> TRUE, directory |-> Directory, pages |-> << >>]
  BY DEF WriteHeader, NoFile
<1>5. file' \in [header : BOOLEAN, directory : [Node -> Nat] \cup {<< >>}, pages : Seq(Pages)]
  BY <1>3, <1>4
<1>6. PagesWritten'
  <2>1. Len(file'.pages) = 0
    BY <1>4
  <2> QED
    BY <1>2, <1>3, <2>1 DEF PagesWritten
<1> QED
  BY <1>1, <1>2, <1>4, <1>5, <1>6 DEF FileInv

LEMMA WritePageInv ==
  ASSUME BuildInv, FileInv, WritePage
  PROVE  FileInv'
<1> DEFINE n == Len(file.pages)
           page == EncodePage(n)
<1>1. /\ stage' = stage /\ build' = build /\ graph' = graph /\ order' = order
      /\ stage = "write" /\ order # << >> /\ build \in Builds
  BY DEF WritePage, building, BuildInv, BuildShape, BuildStages
<1>2. /\ PageCount' = PageCount /\ Directory' = Directory /\ Pages' = Pages
      /\ \A p : EncodePage(p)' = EncodePage(p)
  BY <1>1, SamePages
<1>3. n \in Nat /\ n < PageCount /\ PageCount \in Nat
  BY <1>1, PerPageIs DEF WritePage, FileInv, PagesWritten
<1>4. page \in Pages
  BY <1>3 DEF Pages, AllPages
<1>5. /\ file \in [header : BOOLEAN, directory : [Node -> Nat] \cup {<< >>}, pages : Seq(Pages)]
      /\ file' = [file EXCEPT !.pages = Append(file.pages, page)]
  BY DEF WritePage, FileInv
<1> HIDE DEF page
<1> DEFINE all == Append(file.pages, page)
<1>6. /\ all \in Seq(Pages) /\ Len(all) = n + 1 /\ all[n + 1] = page
      /\ \A i \in 1 .. n : all[i] = file.pages[i]
  <2>1. file.pages \in Seq(Pages)
    BY <1>5
  <2> QED
    BY <1>4, <2>1, AppendIs
<1> HIDE DEF all
<1>7. /\ file' \in [header : BOOLEAN, directory : [Node -> Nat] \cup {<< >>}, pages : Seq(Pages)]
      /\ file'.pages = all /\ file'.directory = file.directory
  BY <1>5, <1>6 DEF all
<1>8. \A p \in 0 .. n : all[p + 1] = EncodePage(p)
  <2> TAKE p \in 0 .. n
  <2>1. CASE p = n
    BY <1>6, <2>1 DEF page
  <2>2. CASE p # n
    <3>1. p \in 0 .. n - 1 /\ p + 1 \in 1 .. n
      BY <1>3, <2>2
    <3> QED
      BY <1>6, <3>1 DEF FileInv, PagesWritten
  <2> QED
    BY <2>1, <2>2
<1>9. PagesWritten'
  <2>1. Len(all) \in Nat /\ Len(all) <= PageCount /\ 0 .. Len(all) - 1 = 0 .. n
    BY <1>3, <1>6
  <2> QED
    BY <1>2, <1>7, <1>8, <2>1 DEF PagesWritten
<1> QED
  BY <1>1, <1>2, <1>7, <1>9 DEF FileInv

\* A file that is cut holds what it held, as far as it goes.
LEMMA CutFile ==
  ASSUME BuildInv, FileInv, stage = "write", file.header, file' \in Remains,
         stage' \in {"ready", "failed"},
         UNCHANGED <<build, graph, todo, passes, medoid, order>>
  PROVE  BuildInv' /\ FileInv'
<1>1. BuildInv'
  BY StageOnly
<1>2. order # << >> /\ build \in Builds
  BY DEF BuildInv, BuildShape, BuildStages
<1>3. /\ PageCount' = PageCount /\ Directory' = Directory /\ Pages' = Pages
      /\ \A p : EncodePage(p)' = EncodePage(p)
  BY SamePages
<1>4. CASE file' = NoFile
  <2>1. (BuildInv /\ file = NoFile)' => FileInv'
    BY EmptyFile, PTL
  <2>2. NoFile' = NoFile
    BY DEF NoFile
  <2> QED
    BY <1>1, <1>4, <2>1, <2>2
<1>5. /\ file \in [header : BOOLEAN, directory : [Node -> Nat] \cup {<< >>}, pages : Seq(Pages)]
      /\ file.directory # << >> => file.directory = Directory
      /\ Len(file.pages) \in Nat /\ Len(file.pages) <= PageCount
      /\ \A p \in 0 .. Len(file.pages) - 1 : file.pages[p + 1] = EncodePage(p)
  BY DEF FileInv, PagesWritten
<1>6. CASE file' = [file EXCEPT !.directory = << >>, !.pages = << >>]
  <2>1. /\ file' \in [header : BOOLEAN, directory : [Node -> Nat] \cup {<< >>}, pages : Seq(Pages)]
        /\ file'.directory = << >> /\ file'.pages = << >> /\ Len(file'.pages) = 0
    <3>1. file' = [header |-> file.header, directory |-> << >>, pages |-> << >>]
      BY <1>5, <1>6
    <3>2. file.header \in BOOLEAN
      BY <1>5
    <3>3. << >> \in Seq(Pages) /\ Len(<< >>) = 0
      OBVIOUS
    <3> QED
      BY <3>1, <3>2, <3>3
  <2>2. PageCount \in Nat
    BY <1>2, PerPageIs
  <2>3. PagesWritten'
    BY <1>3, <2>1, <2>2 DEF PagesWritten
  <2> QED
    BY <1>1, <1>2, <1>3, <2>1, <2>3 DEF FileInv
<1>7. CASE \E n \in 0 .. Len(file.pages) : file' = [file EXCEPT !.pages = SubSeq(@, 1, n)]
  <2>1. PICK n \in 0 .. Len(file.pages) : file' = [file EXCEPT !.pages = SubSeq(@, 1, n)]
    BY <1>7
  <2> DEFINE part == SubSeq(file.pages, 1, n)
  <2>2. part \in Seq(Pages) /\ Len(part) = n /\ \A i \in 1 .. n : part[i] = file.pages[i]
    <3>1. file.pages \in Seq(Pages) /\ n \in Nat /\ n <= Len(file.pages)
      BY <1>5
    <3>2. 1 \in Int /\ n \in Int /\ \A i \in 1 .. n : file.pages[i] \in Pages
      BY <3>1
    <3>3. /\ part \in Seq(Pages)
          /\ Len(part) = (IF 1 <= n THEN n - 1 + 1 ELSE 0)
          /\ \A i \in 1 .. n - 1 + 1 : part[i] = file.pages[1 + i - 1]
      BY <3>2, SubSeqProperties
    <3> HIDE DEF part
    <3> QED
      BY <3>1, <3>3
  <2> HIDE DEF part
  <2>3. /\ file' \in [header : BOOLEAN, directory : [Node -> Nat] \cup {<< >>}, pages : Seq(Pages)]
        /\ file'.directory = file.directory /\ file'.pages = part
    BY <1>5, <2>1, <2>2 DEF part
  <2>4. \A p \in 0 .. n - 1 : part[p + 1] = EncodePage(p)
    <3> TAKE p \in 0 .. n - 1
    <3>1. p \in 0 .. Len(file.pages) - 1 /\ p + 1 \in 1 .. n
      BY <1>5
    <3> QED
      BY <1>5, <2>2, <3>1
  <2>5. PagesWritten'
    <3>1. Len(part) \in Nat /\ Len(part) <= PageCount
      <4>1. PageCount \in Nat
        BY <1>2, PerPageIs
      <4> QED
        BY <1>5, <2>2, <4>1
    <3> QED
      BY <1>3, <2>2, <2>3, <2>4, <3>1 DEF PagesWritten
  <2> QED
    BY <1>1, <1>2, <1>3, <1>5, <2>3, <2>5 DEF FileInv
<1> QED
  <2>1. file' = NoFile \/ file' = [file EXCEPT !.directory = << >>, !.pages = << >>]
        \/ \E n \in 0 .. Len(file.pages) : file' = [file EXCEPT !.pages = SubSeq(@, 1, n)]
    BY DEF Remains
  <2> QED
    BY <1>1, <1>4, <1>6, <1>7, <2>1

LEMMA WriteStepInv ==
  ASSUME BuildInv, FileInv, WriteStep \/ BuildStops
  PROVE  BuildInv' /\ FileInv'
<1>1. CASE ChooseOrder(PerPage) /\ UNCHANGED file
  BY <1>1, ChooseOrderInv
<1>2. CASE WriteHeader
  <2>1. UNCHANGED building
    BY <1>2 DEF WriteHeader
  <2> QED
    BY <1>2, <2>1, SameBuild, WriteHeaderInv
<1>3. CASE WritePage
  <2>1. UNCHANGED building
    BY <1>3 DEF WritePage
  <2> QED
    BY <1>3, <2>1, SameBuild, WritePageInv
<1>4. CASE CloseFile
  BY <1>4, CutFile DEF CloseFile
<1>5. CASE BuildStops
  BY <1>5, CutFile DEF BuildStops
<1> QED
  BY <1>1, <1>2, <1>3, <1>4, <1>5 DEF WriteStep

LEMMA SameIndex ==
  ASSUME BuildInv, FileInv, UNCHANGED <<building, file>>
  PROVE  BuildInv' /\ FileInv'
<1>1. BuildInv'
  BY SameBuild
<1>2. /\ PageCount' = PageCount /\ Directory' = Directory /\ Pages' = Pages
      /\ \A p : EncodePage(p)' = EncodePage(p)
  BY SamePages DEF building
<1> QED
  BY <1>1, <1>2 DEF FileInv, PagesWritten, NoFile, building

LEMMA FileInvHolds ==
  ASSUME BuildInv, FileInv
  PROVE  FileTypeOK
BY DEF FileInv, FileTypeOK, PagesWritten

LEMMA PageHoldsNodes ==
  8 + NodesPerPage * RecordBytes <= PageSize
<1> DEFINE b == RecordBytes
           q == (PageSize - 8) \div b
<1>1. b \in Nat /\ b > 0
  <2>1. Degree * PqBytes \in Nat /\ Degree \in Nat /\ Dim \in Nat
    BY NodesFinite, FileAssumption
  <2> QED
    BY <2>1 DEF RecordBytes
<1>2. PageSize \in Nat /\ PageSize - 8 \in Nat /\ NodesPerPage = q
  BY FileAssumption DEF NodesPerPage
<1> HIDE DEF b
<1>3. q \in Nat /\ (PageSize - 8) % b \in 0 .. b - 1
      /\ PageSize - 8 = b * q + ((PageSize - 8) % b)
  BY <1>1, <1>2, Division
<1> HIDE DEF q
<1>4. q * b = b * q /\ b * q \in Nat
  BY <1>1, <1>3
<1> QED
  BY <1>1, <1>2, <1>3, <1>4 DEF b

LEMMA Aligned ==
  ASSUME NEW v \in Nat, NEW a \in Nat, a > 0
  PROVE  v <= AlignUp(v, a) /\ AlignUp(v, a) % a = 0
<1> DEFINE q == v \div a
           r == v % a
<1>1. q \in Nat /\ r \in 0 .. a - 1 /\ v = a * q + r
  BY Division
<1>2. AlignUp(v, a) = IF r = 0 THEN v ELSE (v + a) - r
  BY DEF AlignUp
<1> HIDE DEF q, r
<1>3. CASE r = 0
  BY <1>2, <1>3 DEF r
<1>4. CASE r # 0
  <2>1. q + 1 \in Nat /\ 0 \in Nat /\ a * (q + 1) = a * q + a /\ a * q \in Nat
    BY <1>1
  <2>2. (v + a) - r = a * (q + 1) + 0
    BY <1>1, <2>1
  <2>3. (a * (q + 1) + 0) % a = 0
    BY <2>1, QuotientIs
  <2>4. v <= (v + a) - r
    BY <1>1
  <2> QED
    BY <1>2, <1>4, <2>2, <2>3, <2>4
<1> QED
  BY <1>3, <1>4

LEMMA IndexServesGraph ==
  ASSUME BuildInv, FileInv
  PROVE  FileServesGraph
<1> SUFFICES ASSUME stage = "ready", Complete
             PROVE  /\ 8 + NodesPerPage * RecordBytes <= PageSize
                    /\ 4096 + 4 * N <= RecordsOffset /\ RecordsOffset % PageSize = 0
                    /\ \A u \in Node : Found(u) /\ RowOf(u) = graph[u]
  BY DEF FileServesGraph
<1>1. 4096 + 4 * N <= RecordsOffset /\ RecordsOffset % PageSize = 0
  <2>1. 4096 + 4 * N \in Nat /\ PageSize \in Nat /\ PageSize > 0
    BY FileAssumption, NodesFinite
  <2> QED
    BY <2>1, Aligned DEF RecordsOffset
<1>2. ASSUME NEW u \in Node PROVE Found(u) /\ RowOf(u) = graph[u]
  <2>1. order # << >> /\ build \in Builds
    BY DEF BuildInv, BuildShape, BuildStages
  <2>2. build.packing # "one-node" => file.directory = Directory
    BY DEF Complete, Opens, FileInv
  <2>3. PagesWritten /\ Len(file.pages) = PageCount /\ PageCount \in Nat
    BY <2>1, PerPageIs DEF Complete, FileInv
  <2>4. PageOf(u) \in AllPages
    BY <2>1, <2>2, <2>3, NodeIsServed
  <2>5. PageOf(u) < Len(file.pages)
    BY <2>3, <2>4 DEF AllPages
  <2> QED
    BY <2>1, <2>2, <2>3, <2>5, NodeIsServed
<1> QED
  BY <1>1, <1>2, PageHoldsNodes
=============================================================================
