------------------------ MODULE DynamicRecordsProofs ------------------------
(***************************************************************************)
(* What the operators of DynamicRecords compute, for any set of versions   *)
(* whose sequence numbers are bounded.                                     *)
(***************************************************************************)
EXTENDS DynamicRecords, WellFoundedInduction, TLAPS

\* A non-empty set of naturals up to n has a largest element.
LEMMA BoundedMax ==
  ASSUME NEW n \in Nat, NEW S, S \subseteq 0 .. n, S # {}
  PROVE  \E m \in S : \A x \in S : x <= m
<1> DEFINE R == OpToRel(<, Nat)
           T == {n - x : x \in S}
<1>1. T # {}
  OBVIOUS
<1>2. T \subseteq Nat
  <2> SUFFICES ASSUME NEW x \in S PROVE n - x \in Nat
    OBVIOUS
  <2> x \in 0 .. n
    OBVIOUS
  <2> QED OBVIOUS
<1>3. IsWellFoundedOn(R, Nat)
  BY NatLessThanWellFounded
<1>4. \A a, b \in Nat : a < b => <<a, b>> \in R
  BY DEF OpToRel
<1> HIDE DEF R, T
<1>5. PICK t \in T : \A y \in T : ~ (<<y, t>> \in R)
  BY <1>1, <1>2, <1>3, WFMin
<1>6. \A y \in T : ~ (y < t)
  BY <1>2, <1>4, <1>5
<1>7. PICK m \in S : t = n - m
  BY DEF T
<1>8. ASSUME NEW x \in S PROVE x <= m
  <2>1. n - x \in T
    BY DEF T
  <2>2. ~ (n - x < n - m)
    BY <1>6, <1>7, <2>1
  <2>3. x \in 0 .. n /\ m \in 0 .. n
    OBVIOUS
  <2> QED BY <2>2, <2>3
<1> QED BY <1>8

\* Keeping the newest version of every node loses no node: what flush writes
\* covers the memtable, what compaction writes covers its input.
LEMMA NewestLosesNone ==
  ASSUME NEW top \in Nat, NEW S, \A r \in S : r.seq \in 0 .. top
  PROVE  NewestOf(S) \subseteq S /\ Covers(NewestOf(S), S)
<1>1. NewestOf(S) \subseteq S
  BY DEF NewestOf
<1>2. ASSUME NEW r \in S
      PROVE  \E q \in NewestOf(S) : q.node = r.node /\ q.seq >= r.seq
  <2> DEFINE Q == {q \in S : q.node = r.node}
             N == {q.seq : q \in Q}
  <2>1. N \subseteq 0 .. top
    OBVIOUS
  <2>2. r.seq \in N
    OBVIOUS
  <2>3. PICK m \in N : \A x \in N : x <= m
    <3> HIDE DEF N
    <3> QED BY <2>1, <2>2, BoundedMax
  <2>4. PICK q \in Q : q.seq = m
    OBVIOUS
  <2>5. \A p \in S : p.node = q.node => p.seq <= q.seq
    BY <2>3, <2>4
  <2>6. r.seq <= q.seq
    BY <2>2, <2>3, <2>4
  <2>7. q.seq >= r.seq
    BY <2>6, <2>1, <2>2, <2>4
  <2> QED BY <2>5, <2>7 DEF NewestOf
<1> QED BY <1>1, <1>2 DEF Covers

\* LastSeq is the sequence number of a member, and no member's is larger.
LEMMA LastSeqIsLast ==
  ASSUME NEW top \in Nat, NEW S, \A r \in S : r.seq \in 0 .. top
  PROVE  /\ LastSeq(S) \in 0 .. top
         /\ \A r \in S : r.seq <= LastSeq(S)
         /\ S # {} => \E q \in S : q.seq = LastSeq(S)
         /\ S = {} => LastSeq(S) = 0
<1>1. CASE S = {}
  BY <1>1 DEF LastSeq
<1>2. CASE S # {}
  <2> DEFINE N == {q.seq : q \in S}
  <2>1. N \subseteq 0 .. top /\ N # {}
    BY <1>2
  <2>2. PICK m \in N : \A x \in N : x <= m
    <3> HIDE DEF N
    <3> QED BY <2>1, BoundedMax
  <2>3. \E q \in S : \A p \in S : p.seq <= q.seq
    BY <2>2
  <2> DEFINE last == CHOOSE q \in S : \A p \in S : p.seq <= q.seq
  <2>4. last \in S /\ \A p \in S : p.seq <= last.seq
    BY <2>3
  <2>5. LastSeq(S) = last.seq
    BY <1>2 DEF LastSeq
  <2> HIDE DEF last
  <2> QED BY <1>2, <2>1, <2>4, <2>5
<1> QED BY <1>1, <1>2
=============================================================================
