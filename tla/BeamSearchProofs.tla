-------------------------- MODULE BeamSearchProofs --------------------------
(***************************************************************************)
(* Theorems about BeamSearch, for any number of nodes, any graph the       *)
(* builders make of them, any file, its tail lost or not, and every        *)
(* configuration of a build and a search.                                  *)
(*                                                                         *)
(* IndexInv is what GraphProofs shows of the graph and the file; SearchInv *)
(* what holds from the opening of the index to the answer.  Its heart is   *)
(* that the results are the best of what was visited, that what was        *)
(* visited is closed but for the candidates, and that a plan fits into the *)
(* budget.                                                                 *)
(***************************************************************************)
EXTENDS BeamSearch, GraphProofs

-----------------------------------------------------------------------------
\* The graph and its file, whatever is searched.

IndexInv == BuildInv /\ FileInv

LEMMA IndexInit ==
  Init => IndexInv
<1> SUFFICES ASSUME Init PROVE IndexInv
  OBVIOUS
<1>1. BuildInv
  BY BuildInitInv DEF Init
<1> QED
  BY <1>1, EmptyFile DEF Init, IndexInv

LEMMA SearchLeavesIndex ==
  ASSUME SearchStep
  PROVE  UNCHANGED <<building, file>>
BY DEF SearchStep, OpenIndex, SelectEntries, StartSearch, LoadBatch, Expand, NaiveExpand,
       PlanRerank, Finish

LEMMA IndexNext ==
  IndexInv /\ [Next]_vars => IndexInv'
<1> SUFFICES ASSUME IndexInv, [Next]_vars PROVE IndexInv'
  OBVIOUS
<1>1. BuildInv /\ FileInv
  BY DEF IndexInv
<1>2. CASE BuildStep /\ UNCHANGED file
  BY <1>1, <1>2, BuildStepInv, BuildStepFile DEF IndexInv
<1>3. CASE WriteStep \/ BuildStops
  BY <1>1, <1>3, WriteStepInv DEF IndexInv
<1>4. CASE UNCHANGED <<building, file>>
  BY <1>1, <1>4, SameIndex DEF IndexInv
<1>5. SearchStep \/ Ended \/ UNCHANGED vars => UNCHANGED <<building, file>>
  <2>1. Ended \/ UNCHANGED vars => UNCHANGED <<building, file>>
    BY DEF Ended, vars
  <2> QED
    BY <2>1, SearchLeavesIndex
<1> QED
  BY <1>2, <1>3, <1>4, <1>5 DEF Next

LEMMA IndexHolds ==
  Spec => []IndexInv
BY IndexInit, IndexNext, PTL DEF Spec

\* The rows of the graph under construction fit their records on disk, at
\* every moment of build_graph.
THEOREM RowsFitTheirRecords ==
  Spec => []RowsWellFormed
<1>1. IndexInv => RowsWellFormed
  BY BuildInvHolds DEF IndexInv
<1> QED
  BY <1>1, IndexHolds, PTL

\* apply_freshvamana_delete_patch and the deleted checks of the Vamana
\* builder: no path of a finished graph leads to a deleted node.
THEOREM DeletedAreLeftOut ==
  Spec => []DeletedUnreachable
<1>1. IndexInv => DeletedUnreachable
  BY BuildInvHolds DEF IndexInv
<1> QED
  BY <1>1, IndexHolds, PTL

\* robust_prune_neighbors keeps the nearest candidate: every row that was
\* not repaired leads on.
THEOREM EveryRowLeadsOn ==
  Spec => []NoDeadEnds
<1>1. IndexInv => NoDeadEnds
  BY BuildInvHolds DEF IndexInv
<1> QED
  BY <1>1, IndexHolds, PTL

\* encode_packed_page and the directory against find_node: what the index
\* reads is what was built.
THEOREM IndexReadsWhatWasBuilt ==
  Spec => []FileServesGraph
<1>1. IndexInv => FileServesGraph
  BY IndexServesGraph DEF IndexInv
<1> QED
  BY <1>1, IndexHolds, PTL

-----------------------------------------------------------------------------
\* The configuration and the distances.

LEMMA ConfIs ==
  ASSUME build \in Builds, conf \in Searches[build]
  PROVE  conf \in SearchConfig /\ Capacity \in Nat /\ Capacity > 0
<1>1. conf \in SearchConfig
  BY SearchAssumption
<1>2. conf.topK \in Nat /\ conf.topK > 0 /\ conf.rerank \in Nat /\ N \in Nat /\ N > 0
  BY <1>1, NodesFinite DEF SearchConfig
<1> DEFINE k == Min({conf.topK, N})
           m == Max({k, conf.rerank})
<1>3. k \in Nat /\ k > 0
  BY <1>2, OfTwo
<1> HIDE DEF k
<1>4. m \in Nat /\ m > 0
  <2>1. k \in Int /\ conf.rerank \in Int
    BY <1>2, <1>3
  <2>2. m = IF k <= conf.rerank THEN conf.rerank ELSE k
    BY <2>1, OfTwo
  <2> QED
    BY <1>2, <1>3, <2>2
<1> HIDE DEF m
<1>5. Min({m, N}) \in Nat /\ Min({m, N}) > 0
  BY <1>2, <1>4, OfTwo
<1>6. Capacity = Min({m, N})
  BY DEF Capacity, k, m
<1> QED
  BY <1>1, <1>5, <1>6

LEMMA KeyIs ==
  Key \in [Node -> Nat]
BY SearchAssumption DEF Key

-----------------------------------------------------------------------------
\* The best results.

\* T is what is best of S: as much of it as there is room for, and nearer
\* than the rest.
IsBest(T, S) ==
  /\ T \subseteq S
  /\ Cardinality(T) = (IF Cardinality(S) <= Capacity THEN Cardinality(S) ELSE Capacity)
  /\ \A t \in T, x \in S \ T : Closer(Key, t, x)

BestOf(S) == Range(Take(ByDistance(Key, S), Capacity))

LEMMA BestOfIs ==
  ASSUME Capacity \in Nat, NEW S \in SUBSET Node
  PROVE  IsBest(BestOf(S), S)
<1> DEFINE s == ByDistance(Key, S)
           part == Take(s, Capacity)
<1>1. /\ s \in Seq(S) /\ Len(s) = Cardinality(S) /\ Len(s) \in Nat /\ DOMAIN s = 1 .. Len(s)
      /\ Range(s) = S /\ IsInjective(s)
      /\ \A i, j \in 1 .. Len(s) : i < j <=> Closer(Key, s[i], s[j])
  BY KeyIs, ByDistanceLists, LenProperties
<1>2. /\ part \in Seq(S) /\ DOMAIN part = 1 .. Len(part) /\ Len(part) \in Nat
      /\ Len(part) = IF Capacity <= Len(s) THEN Capacity ELSE Len(s)
      /\ \A i \in 1 .. Len(part) : i \in 1 .. Len(s) /\ part[i] = s[i]
      /\ Range(part) \subseteq Range(s) /\ IsInjective(part)
  BY <1>1, TakeIs, LenProperties
<1> HIDE DEF s, part
<1>3. BestOf(S) = Range(part)
  BY DEF BestOf, part, s
<1>4. Cardinality(Range(part)) = Len(part)
  BY <1>2, InjectiveLength
<1>5. \A t \in Range(part), x \in S \ Range(part) : Closer(Key, t, x)
  <2> SUFFICES ASSUME NEW t \in Range(part), NEW x \in S \ Range(part)
               PROVE  Closer(Key, t, x)
    OBVIOUS
  <2>1. PICK i \in 1 .. Len(part) : t = part[i]
    BY <1>2 DEF Range
  <2>2. PICK j \in 1 .. Len(s) : x = s[j]
    BY <1>1 DEF Range
  <2>3. j \notin 1 .. Len(part)
    BY <1>2, <2>2 DEF Range
  <2>4. i < j /\ i \in 1 .. Len(s)
    BY <1>1, <1>2, <2>3
  <2> QED
    BY <1>1, <1>2, <2>1, <2>2, <2>4
<1>6. Cardinality(S) = Len(s)
  BY <1>1
<1>7. Len(part) = IF Cardinality(S) <= Capacity THEN Cardinality(S) ELSE Capacity
  BY <1>1, <1>2, <1>6
<1> QED
  BY <1>1, <1>2, <1>3, <1>4, <1>5, <1>7 DEF IsBest

LEMMA BestIsUnique ==
  ASSUME NEW S \in SUBSET Node, NEW T, NEW U, IsBest(T, S), IsBest(U, S)
  PROVE  T = U
<1>1. T \in SUBSET Node /\ U \in SUBSET Node /\ Cardinality(T) = Cardinality(U)
  BY DEF IsBest
<1>2. IsFiniteSet(T) /\ IsFiniteSet(U)
  BY <1>1, NodesFinite
<1>3. T \subseteq U => T = U
  BY <1>1, <1>2, FS_Subset
<1>4. U \subseteq T => T = U
  BY <1>1, <1>2, FS_Subset
<1>5. ASSUME NEW a \in T, a \notin U, NEW b \in U, b \notin T PROVE FALSE
  <2>1. Closer(Key, a, b) /\ Closer(Key, b, a)
    BY <1>5 DEF IsBest
  <2>2. a \in Nat /\ b \in Nat /\ Key[a] \in Nat /\ Key[b] \in Nat
    BY <1>1, KeyIs DEF Node
  <2> QED
    BY <2>1, <2>2 DEF Closer
<1> QED
  BY <1>3, <1>4, <1>5

\* A heap of the best stays one when it takes in another node.
LEMMA AddBestIs ==
  ASSUME Capacity \in Nat, NEW S \in SUBSET Node, NEW u \in Node
  PROVE  AddBest(BestOf(S), u) = BestOf(S \cup {u})
<1> DEFINE B == BestOf(S)
           A == B \cup {u}
           T == BestOf(A)
           c == Capacity
<1>1. IsBest(B, S)
  BY BestOfIs
<1>2. B \subseteq S /\ A \in SUBSET Node /\ S \cup {u} \in SUBSET Node
  BY <1>1 DEF IsBest
<1>3. IsBest(T, A)
  BY <1>2, BestOfIs
<1>4. AddBest(B, u) = T
  BY DEF AddBest, BestOf
<1>5. CASE B = S
  BY <1>4, <1>5
<1>6. CASE B # S
  <2> HIDE DEF B, T
  <2>1. c \in Nat
    OBVIOUS
  <2>2. PICK y \in S : y \notin B
    BY <1>2, <1>6
  <2>3. /\ IsFiniteSet(S) /\ IsFiniteSet(B) /\ IsFiniteSet(A) /\ IsFiniteSet(S \cup {u})
        /\ Cardinality(S) \in Nat /\ Cardinality(B) \in Nat
        /\ Cardinality(A) \in Nat /\ Cardinality(S \cup {u}) \in Nat
    BY <1>2, NodesFinite
  <2>4. Cardinality(B) = c /\ c < Cardinality(S)
    <3>1. Cardinality(B) # Cardinality(S)
      BY <1>2, <1>6, <2>3, FS_Subset
    <3> QED
      BY <1>1, <2>1, <2>3, <3>1 DEF IsBest
  <2>5. /\ Cardinality(S) <= Cardinality(S \cup {u})
        /\ Cardinality(B) <= Cardinality(A)
    BY <2>3, FS_Subset
  <2>6. Cardinality(T) = c
    BY <1>3, <2>1, <2>3, <2>4, <2>5 DEF IsBest
  <2>7. T \subseteq S \cup {u}
    BY <1>2, <1>3 DEF IsBest
  <2>8. u \in T /\ u \notin B => \E b \in B : b \notin T
    <3> SUFFICES ASSUME u \in T, u \notin B, B \subseteq T PROVE FALSE
      OBVIOUS
    <3>1. A \subseteq T /\ IsFiniteSet(T)
      BY <1>2, <1>3, <2>3, FS_Subset DEF IsBest
    <3>2. Cardinality(A) = Cardinality(B) + 1
      BY <2>3, FS_AddElement
    <3>3. Cardinality(A) <= Cardinality(T)
      BY <3>1, FS_Subset
    <3> QED
      BY <2>1, <2>4, <2>6, <3>2, <3>3
  <2>9. ASSUME NEW t \in T, NEW x \in (S \cup {u}) \ T PROVE Closer(Key, t, x)
    <3>1. CASE x \in A
      BY <1>3, <3>1 DEF IsBest
    <3>2. CASE x \notin A
      <4>1. x \in S \ B /\ t \in A
        BY <1>3, <2>9, <3>2 DEF IsBest
      <4>2. CASE t \in B
        BY <1>1, <4>1, <4>2 DEF IsBest
      <4>3. CASE t \notin B
        <5>1. PICK b \in B : b \notin T
          BY <2>8, <4>1, <4>3
        <5>2. Closer(Key, t, b) /\ Closer(Key, b, x)
          BY <1>1, <1>3, <4>1, <5>1 DEF IsBest
        <5>3. t \in Node /\ b \in Node /\ x \in Node
          BY <1>2, <4>1, <5>1
        <5>4. /\ t \in Nat /\ b \in Nat /\ x \in Nat
              /\ Key[t] \in Nat /\ Key[b] \in Nat /\ Key[x] \in Nat
          BY <5>3, KeyIs DEF Node
        <5> QED
          BY <5>2, <5>4 DEF Closer
      <4> QED
        BY <4>2, <4>3
    <3> QED
      BY <3>1, <3>2
  <2>10. IsBest(T, S \cup {u})
    <3>1. Cardinality(T) = (IF Cardinality(S \cup {u}) <= c THEN Cardinality(S \cup {u}) ELSE c)
      BY <2>1, <2>3, <2>4, <2>5, <2>6
    <3> QED
      BY <2>7, <2>9, <3>1 DEF IsBest
  <2>11. IsBest(BestOf(S \cup {u}), S \cup {u})
    BY <1>2, BestOfIs
  <2>12. T = BestOf(S \cup {u})
    BY <1>2, <2>10, <2>11, BestIsUnique
  <2> QED
    BY <1>4, <2>12 DEF B
<1> QED
  BY <1>5, <1>6

LEMMA AddAllWalk ==
  ASSUME Capacity \in Nat, NEW B \in SUBSET Node, NEW list \in Seq(Node)
  PROVE  \E st \in [0 .. Len(list) -> SUBSET Node] :
           /\ st[0] = B /\ AddAll(B, list) = st[Len(list)]
           /\ \A k \in 1 .. Len(list) : st[k] = AddBest(st[k - 1], list[k])
<1> DEFINE n == Len(list)
           X == SUBSET Node
           F == [p \in X \X (1 .. n) |-> AddBest(p[1], list[p[2]])]
           Rec(h) == [t \in SUBSET (1 .. n) |->
                        IF t = {} THEN B
                        ELSE AddBest(h[t \ {Max(t)}], list[Max(t)])]
           fold == CHOOSE h : h = Rec(h)
<1>1. n \in Nat /\ DOMAIN list = 1 .. n /\ \A i \in 1 .. n : list[i] \in Node
  BY LenProperties
<1>2. AddAll(B, list) = fold[1 .. n]
  BY <1>1 DEF AddAll, FoldLeft, MapThenFoldSet
<1> HIDE DEF n, X
<1>3. \A row \in X, c \in Node : AddBest(row, c) \in X
  <2> TAKE row \in X, c \in Node
  <2>1. row \cup {c} \in SUBSET Node
    BY DEF X
  <2>2. IsBest(BestOf(row \cup {c}), row \cup {c})
    BY <2>1, BestOfIs
  <2>3. AddBest(row, c) = BestOf(row \cup {c})
    BY DEF AddBest, BestOf
  <2> QED
    BY <2>1, <2>2, <2>3 DEF X, IsBest
<1>4. B \in X
  BY DEF X
<1>5. F \in [X \X (1 .. n) -> X]
      /\ \A row \in X, i \in 1 .. n : F[<<row, i>>] = AddBest(row, list[i])
  BY <1>1, <1>3
<1> HIDE DEF F
<1>6. PICK st : /\ IsWalk(st, n, X, B, F)
                /\ \A h : IsFold(h, n, X, B, F) => h[1 .. n] = st[n]
                /\ \E f \in [SUBSET (1 .. n) -> X] : IsFold(f, n, X, B, F)
  BY <1>1, <1>4, <1>5, FoldIs
<1>7. fold = Rec(fold)
  <2>1. PICK f \in [SUBSET (1 .. n) -> X] : IsFold(f, n, X, B, F)
    BY <1>6
  <2>2. f = Rec(f)
    BY <1>1, <1>5, <2>1, LastPlace DEF IsFold
  <2> QED
    BY <2>2
<1> HIDE DEF fold
<1>8. IsFold(fold, n, X, B, F)
  BY <1>1, <1>5, <1>7, LastPlace DEF IsFold
<1>9. \A k \in 1 .. n : st[k] = AddBest(st[k - 1], list[k])
  BY <1>5, <1>6 DEF IsWalk
<1> QED
  BY <1>2, <1>6, <1>8, <1>9 DEF n, X, IsWalk

\* And so it does for a sequence of them.
LEMMA AddAllIs ==
  ASSUME Capacity \in Nat, NEW S \in SUBSET Node, NEW list \in Seq(Node)
  PROVE  AddAll(BestOf(S), list) = BestOf(S \cup Range(list))
<1> DEFINE n == Len(list)
           B == BestOf(S)
           Some(k) == {list[i] : i \in 1 .. k}
<1>1. n \in Nat /\ DOMAIN list = 1 .. n /\ \A i \in 1 .. n : list[i] \in Node
  BY LenProperties
<1>2. B \in SUBSET Node
  BY BestOfIs DEF IsBest
<1>3. PICK st \in [0 .. n -> SUBSET Node] :
        /\ st[0] = B /\ AddAll(B, list) = st[n]
        /\ \A k \in 1 .. n : st[k] = AddBest(st[k - 1], list[k])
  BY <1>2, AddAllWalk
<1> HIDE DEF n
<1> DEFINE T == {k \in 0 .. n : st[k] = BestOf(S \cup Some(k))}
<1>4. 0 \in T
  <2>1. S \cup Some(0) = S
    OBVIOUS
  <2> HIDE DEF Some
  <2>2. st[0] = BestOf(S \cup Some(0))
    BY <1>3, <2>1, Zenon
  <2>3. 0 \in 0 .. n
    BY <1>1
  <2> QED
    BY <2>2, <2>3
<1>5. ASSUME NEW k \in 1 .. n, k - 1 \in T PROVE k \in T
  <2>1. Some(k - 1) \in SUBSET Node /\ Some(k) = Some(k - 1) \cup {list[k]}
    BY <1>1
  <2> DEFINE old == S \cup Some(k - 1)
  <2>2. old \in SUBSET Node /\ list[k] \in Node /\ S \cup Some(k) = old \cup {list[k]}
    BY <1>1, <2>1
  <2>3. st[k] = AddBest(BestOf(old), list[k])
    BY <1>3, <1>5
  <2> HIDE DEF old, Some
  <2>4. st[k] = BestOf(old \cup {list[k]})
    BY <2>2, <2>3, AddBestIs
  <2>5. st[k] = BestOf(S \cup Some(k))
    BY <2>2, <2>4, Zenon
  <2>6. k \in 0 .. n
    BY <1>1
  <2> QED
    BY <2>5, <2>6
<1>6. Some(n) = Range(list)
  BY <1>1 DEF Range
<1> HIDE DEF T
<1>7. n \in T
  BY <1>1, <1>4, <1>5, CountUp
<1> QED
  BY <1>3, <1>6, <1>7 DEF T

LEMMA BestOfNothing ==
  ASSUME Capacity \in Nat
  PROVE  BestOf({}) = {}
BY BestOfIs DEF IsBest

\* The worst distance of a set of nodes is one of theirs and none is worse.
LEMMA WorstIs ==
  ASSUME NEW S \in SUBSET Node, S # {}
  PROVE  Worst(S) \in Nat /\ \A u \in S : Key[u] <= Worst(S)
<1> DEFINE K == {Key[u] : u \in S}
           s == ByDistance(Key, S)
           n == Cardinality(S)
<1>1. \A u \in S : u \in Nat /\ Key[u] \in Nat
  BY KeyIs DEF Node
<1>2. n \in Nat /\ n # 0
  BY NodesFinite, FS_EmptySet
<1>3. /\ s \in Seq(S) /\ Len(s) = n /\ DOMAIN s = 1 .. n /\ Range(s) = S
      /\ \A i, j \in 1 .. n : i < j <=> Closer(Key, s[i], s[j])
  BY KeyIs, ByDistanceLists, LenProperties
<1> HIDE DEF s, n
<1>4. n \in 1 .. n /\ s[n] \in S
  BY <1>2, <1>3
<1>5. \A u \in S : Key[u] <= Key[s[n]]
  <2> TAKE u \in S
  <2>1. PICK i \in 1 .. n : u = s[i]
    BY <1>3 DEF Range
  <2>2. i = n \/ Closer(Key, s[i], s[n])
    BY <1>2, <1>3, <1>4
  <2>3. Key[s[i]] \in Nat /\ Key[s[n]] \in Nat
    BY <1>1, <1>4, <2>1
  <2> QED
    BY <2>1, <2>2, <2>3 DEF Closer
<1>6. K \in SUBSET Nat /\ \E m \in K : \A k \in K : m >= k
  BY <1>1, <1>4, <1>5
<1>7. Worst(S) \in K /\ \A k \in K : Worst(S) >= k
  <2>1. Worst(S) = Max(K)
    BY DEF Worst
  <2> HIDE DEF K
  <2> QED
    BY <1>6, <2>1 DEF Max
<1> QED
  BY <1>1, <1>7

\* The results with the count of expansions that did not improve them.
HeapStates == [best : SUBSET Node, stagnant : Nat, worst : Nat \cup {-1}]

Entered(st, row) ==
  LET B == AddAll(st.best, row)
      s == Stagnation([stagnant |-> st.stagnant, worst |-> st.worst], B)
  IN  [best |-> B, stagnant |-> s.stagnant, worst |-> s.worst]

EnterAll(start, list) == FoldLeft(LAMBDA st, row : Entered(st, row), start, list)

LEMMA StagnationIs ==
  ASSUME Capacity \in Nat, Capacity > 0, NEW B \in SUBSET Node,
         NEW stag \in Nat, NEW wor \in Nat \cup {-1}
  PROVE  /\ Stagnation([stagnant |-> stag, worst |-> wor], B).stagnant \in Nat
         /\ Stagnation([stagnant |-> stag, worst |-> wor], B).worst \in Nat \cup {-1}
<1> DEFINE st == [stagnant |-> stag, worst |-> wor]
           better == st.worst = -1 \/ 1000 * (st.worst - Worst(B)) > Max({1, st.worst})
           next == [stagnant |-> IF better THEN 0 ELSE st.stagnant + 1, worst |-> Worst(B)]
<1>1. Stagnation(st, B) = IF ~conf.adaptive \/ Cardinality(B) < Capacity THEN st ELSE next
  BY DEF Stagnation
<1>2. st.stagnant = stag /\ st.worst = wor
  OBVIOUS
<1>3. next.stagnant \in Nat /\ next.worst = Worst(B)
  <2> HIDE DEF better
  <2> QED
    BY <1>2
<1>4. Cardinality(B) \in Nat /\ (~(Cardinality(B) < Capacity) => B # {})
  BY NodesFinite, FS_EmptySet
<1>5. ~(Cardinality(B) < Capacity) => Worst(B) \in Nat
  BY <1>4, WorstIs
<1> HIDE DEF st, next
<1> QED
  BY <1>1, <1>2, <1>3, <1>5 DEF st

LEMMA EnteredIs ==
  ASSUME Capacity \in Nat, Capacity > 0, NEW st \in HeapStates, NEW row \in Seq(Node)
  PROVE  Entered(st, row) \in HeapStates /\ Entered(st, row).best = AddAll(st.best, row)
<1> DEFINE B == AddAll(st.best, row)
           s == Stagnation([stagnant |-> st.stagnant, worst |-> st.worst], B)
<1>1. st.best \in SUBSET Node /\ st.stagnant \in Nat /\ st.worst \in Nat \cup {-1}
  BY DEF HeapStates
<1>2. B \in SUBSET Node
  <2>1. PICK w \in [0 .. Len(row) -> SUBSET Node] : AddAll(st.best, row) = w[Len(row)]
    BY <1>1, AddAllWalk
  <2>2. Len(row) \in 0 .. Len(row)
    BY LenProperties
  <2> QED
    BY <2>1, <2>2
<1> HIDE DEF B
<1>3. s.stagnant \in Nat /\ s.worst \in Nat \cup {-1}
  BY <1>1, <1>2, StagnationIs
<1> HIDE DEF s
<1>4. Entered(st, row) = [best |-> B, stagnant |-> s.stagnant, worst |-> s.worst]
  BY DEF Entered, B, s
<1> QED
  BY <1>2, <1>3, <1>4 DEF HeapStates, B

LEMMA EnterAllWalk ==
  ASSUME Capacity \in Nat, Capacity > 0, NEW start \in HeapStates,
         NEW list \in Seq(Seq(Node))
  PROVE  \E st \in [0 .. Len(list) -> HeapStates] :
           /\ st[0] = start /\ EnterAll(start, list) = st[Len(list)]
           /\ \A k \in 1 .. Len(list) : st[k] = Entered(st[k - 1], list[k])
<1> DEFINE n == Len(list)
           X == HeapStates
           F == [p \in X \X (1 .. n) |-> Entered(p[1], list[p[2]])]
           Rec(h) == [t \in SUBSET (1 .. n) |->
                        IF t = {} THEN start
                        ELSE Entered(h[t \ {Max(t)}], list[Max(t)])]
           fold == CHOOSE h : h = Rec(h)
<1>1. n \in Nat /\ DOMAIN list = 1 .. n /\ \A i \in 1 .. n : list[i] \in Seq(Node)
  BY LenProperties
<1>2. EnterAll(start, list) = fold[1 .. n]
  BY <1>1 DEF EnterAll, FoldLeft, MapThenFoldSet
<1> HIDE DEF n, X
<1>3. \A row \in X, c \in Seq(Node) : Entered(row, c) \in X
  BY EnteredIs DEF X
<1>4. start \in X
  BY DEF X
<1>5. F \in [X \X (1 .. n) -> X]
      /\ \A row \in X, i \in 1 .. n : F[<<row, i>>] = Entered(row, list[i])
  BY <1>1, <1>3
<1> HIDE DEF F
<1>6. PICK st : /\ IsWalk(st, n, X, start, F)
                /\ \A h : IsFold(h, n, X, start, F) => h[1 .. n] = st[n]
                /\ \E f \in [SUBSET (1 .. n) -> X] : IsFold(f, n, X, start, F)
  BY <1>1, <1>4, <1>5, FoldIs
<1>7. fold = Rec(fold)
  <2>1. PICK f \in [SUBSET (1 .. n) -> X] : IsFold(f, n, X, start, F)
    BY <1>6
  <2>2. f = Rec(f)
    BY <1>1, <1>5, <2>1, LastPlace DEF IsFold
  <2> QED
    BY <2>2
<1> HIDE DEF fold
<1>8. IsFold(fold, n, X, start, F)
  BY <1>1, <1>5, <1>7, LastPlace DEF IsFold
<1>9. \A k \in 1 .. n : st[k] = Entered(st[k - 1], list[k])
  BY <1>5, <1>6 DEF IsWalk
<1> QED
  BY <1>2, <1>6, <1>8, <1>9 DEF n, X, IsWalk


LEMMA EnterAllIs ==
  ASSUME Capacity \in Nat, Capacity > 0, NEW S \in SUBSET Node,
         NEW start \in HeapStates, start.best = BestOf(S), NEW rows \in Seq(Seq(Node))
  PROVE  /\ EnterAll(start, rows) \in HeapStates
         /\ EnterAll(start, rows).best = BestOf(S \cup UNION {Range(rows[i]) : i \in 1 .. Len(rows)})
<1> DEFINE n == Len(rows)
           Some(k) == UNION {Range(rows[i]) : i \in 1 .. k}
<1>1. n \in Nat /\ DOMAIN rows = 1 .. n /\ \A i \in 1 .. n : rows[i] \in Seq(Node)
  BY LenProperties
<1>2. PICK st \in [0 .. n -> HeapStates] :
        /\ st[0] = start /\ EnterAll(start, rows) = st[n]
        /\ \A k \in 1 .. n : st[k] = Entered(st[k - 1], rows[k])
  BY EnterAllWalk
<1> HIDE DEF n
<1> DEFINE T == {k \in 0 .. n : st[k].best = BestOf(S \cup Some(k))}
<1>3. 0 \in T
  <2>1. S \cup Some(0) = S
    OBVIOUS
  <2> HIDE DEF Some
  <2>2. st[0].best = BestOf(S \cup Some(0))
    BY <1>2, <2>1, Zenon
  <2>3. 0 \in 0 .. n
    BY <1>1
  <2> QED
    BY <2>2, <2>3
<1>4. ASSUME NEW k \in 1 .. n, k - 1 \in T PROVE k \in T
  <2>1. \A i \in 1 .. n : Range(rows[i]) \in SUBSET Node
    BY <1>1, RangeOfSeq
  <2>2. Some(k - 1) \in SUBSET Node /\ Some(k) = Some(k - 1) \cup Range(rows[k])
    <3>1. \A i \in 1 .. k - 1 : i \in 1 .. n
      BY <1>1
    <3>2. \A i \in 1 .. k : i = k \/ i \in 1 .. k - 1
      BY <1>1
    <3>3. k \in 1 .. k /\ \A i \in 1 .. k - 1 : i \in 1 .. k
      BY <1>1
    <3> QED
      BY <2>1, <3>1, <3>2, <3>3
  <2> DEFINE old == S \cup Some(k - 1)
  <2>3. old \in SUBSET Node /\ rows[k] \in Seq(Node) /\ S \cup Some(k) = old \cup Range(rows[k])
    BY <1>1, <2>2
  <2>4. st[k - 1] \in HeapStates /\ st[k - 1].best = BestOf(old)
    BY <1>1, <1>2, <1>4
  <2>5. st[k].best = AddAll(BestOf(old), rows[k])
    BY <1>2, <2>3, <2>4, EnteredIs
  <2> HIDE DEF old, Some
  <2>6. st[k].best = BestOf(old \cup Range(rows[k]))
    BY <2>3, <2>5, AddAllIs
  <2>7. st[k].best = BestOf(S \cup Some(k))
    BY <2>3, <2>6, Zenon
  <2>8. k \in 0 .. n
    BY <1>1
  <2> QED
    BY <2>7, <2>8
<1> HIDE DEF T
<1>5. n \in T
  BY <1>1, <1>3, <1>4, CountUp
<1>6. n \in 0 .. n
  BY <1>1
<1> QED
  BY <1>2, <1>5, <1>6 DEF T, n

-----------------------------------------------------------------------------
\* Entry nodes.

\* Equal steps of at least one row never meet and stay within the rows.
LEMMA StepsApart ==
  ASSUME NEW c \in Nat, NEW d \in Nat, d > 0, d <= c,
         NEW a \in 0 .. d, NEW b \in 0 .. d, a < b
  PROVE  /\ (a * c) \div d \in Nat /\ (b * c) \div d \in Nat
         /\ (a * c) \div d < (b * c) \div d /\ (b * c) \div d <= c
<1> DEFINE x == a * c
           y == b * c
           p == x \div d
           q == y \div d
<1>1. a \in Nat /\ b \in Nat /\ x \in Nat /\ y \in Nat
  OBVIOUS
<1>2. x + c <= y /\ y <= d * c /\ d * c \in Nat
  <2>1. a + 1 \in Nat /\ a + 1 <= b /\ b <= d
    BY <1>1
  <2>2. c * (a + 1) <= c * b /\ c * b <= c * d
    BY <1>1, <2>1, TimesMonotonic
  <2>3. c * (a + 1) = a * c + c /\ c * b = b * c /\ c * d = d * c
    BY <1>1
  <2> QED
    BY <2>2, <2>3
<1> HIDE DEF x, y
<1>3. /\ p \in Nat /\ x % d \in 0 .. d - 1 /\ x = d * p + (x % d)
      /\ q \in Nat /\ y % d \in 0 .. d - 1 /\ y = d * q + (y % d)
  BY <1>1, Division
<1> HIDE DEF p, q
<1> DEFINE r == x % d
           s == y % d
<1>4. r \in 0 .. d - 1 /\ s \in 0 .. d - 1 /\ x = d * p + r /\ y = d * q + s
  BY <1>3
<1> HIDE DEF r, s
<1>5. d * p \in Nat /\ d * q \in Nat
  BY <1>3
<1>6. p < q
  <2> SUFFICES ASSUME q <= p PROVE FALSE
    BY <1>3
  <2>1. d * q <= d * p
    BY <1>3, TimesMonotonic
  <2> QED
    BY <1>1, <1>2, <1>4, <1>5, <2>1
<1>7. q <= c
  <2> SUFFICES ASSUME c + 1 <= q PROVE FALSE
    BY <1>3
  <2>1. d * (c + 1) <= d * q /\ d * (c + 1) = d * c + d
    BY <1>3, TimesMonotonic
  <2> QED
    BY <1>1, <1>2, <1>4, <1>5, <2>1
<1> QED
  BY <1>3, <1>6, <1>7 DEF p, q, x, y

LEMMA EvenlySpacedIs ==
  ASSUME NEW requested \in Nat, requested > 0
  PROVE  /\ EvenlySpaced(N, requested) \in Seq(Node)
         /\ Len(EvenlySpaced(N, requested)) = Min({requested, N})
         /\ IsInjective(EvenlySpaced(N, requested))
<1> DEFINE n == Min({requested, N})
           s == EvenlySpaced(N, requested)
           place(i) == ((i - 1) * (N - 1)) \div (n - 1)
<1>1. N \in Nat /\ N > 0
  BY NodesFinite
<1>2. n \in Nat /\ n > 0 /\ n <= N
  BY <1>1, OfTwo
<1>3. s = [i \in 1 .. n |-> IF n = 1 THEN 0 ELSE place(i)]
  BY DEF EvenlySpaced
<1> HIDE DEF n
<1>4. CASE n = 1
  <2>1. s \in [1 .. n -> Node] /\ \A i, j \in 1 .. n : i = j
    BY <1>1, <1>3, <1>4 DEF Node
  <2>2. s \in Seq(Node) /\ Len(s) = n /\ DOMAIN s = 1 .. n
    BY <1>2, <2>1
  <2> QED
    BY <2>1, <2>2 DEF IsInjective, n
<1>5. CASE n # 1
  <2>1. N - 1 \in Nat /\ n - 1 \in Nat /\ n - 1 > 0 /\ n - 1 <= N - 1
    BY <1>1, <1>2, <1>5
  <2>2. ASSUME NEW i \in 1 .. n, NEW j \in 1 .. n, i < j
        PROVE  /\ place(i) \in Nat /\ place(j) \in Nat
               /\ place(i) < place(j) /\ place(j) <= N - 1
    <3>1. i - 1 \in 0 .. n - 1 /\ j - 1 \in 0 .. n - 1 /\ i - 1 < j - 1
      BY <1>2, <2>2
    <3> QED
      BY <2>1, <3>1, StepsApart
  <2>3. \A i \in 1 .. n : i < n \/ 1 < i
    BY <1>2, <1>5
  <2>4. 1 \in 1 .. n /\ n \in 1 .. n
    BY <1>2
  <2> HIDE DEF place
  <2>5. \A i \in 1 .. n : place(i) \in Node
    <3> TAKE i \in 1 .. n
    <3>1. place(i) \in Nat /\ place(i) <= N - 1
      BY <1>1, <2>2, <2>3, <2>4
    <3> QED
      BY <1>1, <3>1 DEF Node
  <2>6. s \in [1 .. n -> Node] /\ \A i \in 1 .. n : s[i] = place(i)
    BY <1>3, <1>5, <2>5
  <2>7. s \in Seq(Node) /\ Len(s) = n /\ DOMAIN s = 1 .. n
    BY <1>2, <2>6
  <2>8. ASSUME NEW i \in 1 .. n, NEW j \in 1 .. n, s[i] = s[j] PROVE i = j
    <3>1. ~(i < j) /\ ~(j < i)
      BY <2>2, <2>6, <2>8
    <3> QED
      BY <1>2, <3>1
  <2>9. IsInjective(s)
    BY <2>7, <2>8 DEF IsInjective
  <2> QED
    BY <2>7, <2>9 DEF n
<1> QED
  BY <1>4, <1>5

\* Nodes without repetition, as many as asked for, or all of them.
Filled(list, count) ==
  list \in Seq(Node) /\ IsInjective(list) /\ Len(list) = Min({count, N})

LEMMA HubEntriesAre ==
  ASSUME NEW w \in [Node -> Nat], NEW hubs \in Nat
  PROVE  HubEntries(w, hubs) \in Seq(Node)
<1>1. MostFirst(w) \in Seq(Node)
  BY MostFirstIs, OrdersAre
<1> QED
  BY <1>1, TakeIs DEF HubEntries

LEMMA ClusterMedoidsAre ==
  ASSUME NEW n \in Nat, NEW c \in ClusterMedoids(n, N)
  PROVE  c \in Seq(Node)
<1> DEFINE m == Max({n, N})
           sample == Range(EvenlySpaced(N, m))
           few == {S \in SUBSET sample : Cardinality(S) <= n}
<1>1. m \in Nat /\ m > 0
  <2>1. N \in Nat /\ N > 0
    BY NodesFinite
  <2>2. m = IF n <= N THEN N ELSE n
    BY <2>1, OfTwo
  <2> QED
    BY <2>1, <2>2
<1>2. sample \in SUBSET Node
  BY <1>1, EvenlySpacedIs, RangeOfSeq
<1>3. ClusterMedoids(n, N) = UNION {SetToSeqs(S) : S \in few}
  BY DEF ClusterMedoids
<1> HIDE DEF sample
<1>4. PICK S \in few : c \in SetToSeqs(S)
  BY <1>3
<1>5. S \in SUBSET Node
  BY <1>2
<1>6. c \in Seq(S)
  BY <1>4, <1>5, NodesFinite, SetToSeqsAre
<1> QED
  BY <1>5, <1>6

LEMMA HybridEntriesFill ==
  ASSUME NEW m \in Node, NEW w \in [Node -> Nat], NEW count \in Nat, count > 0,
         NEW hubs \in Nat, NEW list \in HybridEntries(m, w, count, hubs)
  PROVE  Filled(list, count)
<1> DEFINE a == AppendUnique(<< >>, m, count)
           b == AppendAll(a, HubEntries(w, hubs), count)
           even == EvenlySpaced(N, count)
<1>1. PICK c \in ClusterMedoids(count - Len(b), N) :
        list = AppendAll(AppendAll(b, c, count), even, count)
  BY DEF HybridEntries
<1>2. a \in Seq(Node) /\ IsInjective(a) /\ Len(a) <= count
  <2>1. << >> \in Seq(Node) /\ Len(<< >>) = 0 /\ IsInjective(<< >>)
    BY DEF IsInjective
  <2>2. Grows(<< >>, {m}, count, a)
    BY <2>1, AppendUniqueGrows
  <2> HIDE DEF a
  <2> QED
    BY <2>1, <2>2 DEF Grows
<1> HIDE DEF a
<1>3. b \in Seq(Node) /\ IsInjective(b) /\ Len(b) <= count /\ Len(b) \in Nat
  <2>1. Grows(a, Range(HubEntries(w, hubs)), count, b)
    BY <1>2, HubEntriesAre, AppendAllGrows
  <2> HIDE DEF b
  <2> QED
    BY <1>2, <2>1, LenProperties DEF Grows
<1> HIDE DEF b
<1>4. c \in Seq(Node)
  <2>1. count - Len(b) \in Nat
    BY <1>3
  <2> QED
    BY <2>1, ClusterMedoidsAre
<1> DEFINE d == AppendAll(b, c, count)
<1>5. d \in Seq(Node) /\ IsInjective(d) /\ Len(d) <= count
  <2>1. Grows(b, Range(c), count, d)
    BY <1>3, <1>4, AppendAllGrows
  <2> HIDE DEF d
  <2> QED
    BY <1>3, <2>1 DEF Grows
<1>6. list = AppendAll(d, even, count)
  BY <1>1
<1> HIDE DEF d
<1>7. /\ even \in Seq(Node) /\ Len(even) = (IF count <= N THEN count ELSE N)
      /\ IsInjective(even) /\ N \in Nat
  <2>1. N \in Nat
    BY NodesFinite
  <2>2. Min({count, N}) = IF count <= N THEN count ELSE N
    BY <2>1, OfTwo
  <2>3. even \in Seq(Node) /\ Len(even) = Min({count, N}) /\ IsInjective(even)
    BY EvenlySpacedIs
  <2> HIDE DEF even
  <2> QED
    BY <2>1, <2>2, <2>3
<1> HIDE DEF even
<1>8. Grows(d, Range(even), count, list)
  BY <1>5, <1>6, <1>7, AppendAllGrows
<1>9. /\ list \in Seq(Node) /\ IsInjective(list) /\ Len(list) \in Nat /\ Len(list) <= count
      /\ (Len(list) # count => Range(even) \subseteq Range(list))
  BY <1>5, <1>8, LenProperties DEF Grows
<1>10. /\ IsFiniteSet(Range(list)) /\ Cardinality(Range(list)) = Len(list)
       /\ Cardinality(Range(even)) = Len(even) /\ Cardinality(Range(list)) <= N
  <2>1. Range(list) \in SUBSET Node
    BY <1>9, RangeOfSeq
  <2> QED
    BY <1>7, <1>9, <2>1, InjectiveLength, NodesFinite
<1>11. Len(list) = IF count <= N THEN count ELSE N
  <2>1. CASE Len(list) = count
    BY <1>7, <1>9, <1>10, <2>1
  <2>2. CASE Len(list) # count
    <3>1. Cardinality(Range(even)) <= Cardinality(Range(list))
      BY <1>9, <1>10, <2>2, FS_Subset
    <3> QED
      BY <1>7, <1>9, <1>10, <2>2, <3>1
  <2> QED
    BY <2>1, <2>2
<1>12. Min({count, N}) = IF count <= N THEN count ELSE N
  BY <1>7, OfTwo
<1> QED
  BY <1>9, <1>11, <1>12 DEF Filled

-----------------------------------------------------------------------------
\* Batches.

\* Where the search stops by distance, it may.
StopsWell == Full /\ \A u \in frontier, b \in best : Key[u] > Key[b]

LEMMA StoppedWell ==
  ASSUME conf \in SearchConfig, Capacity \in Nat, Capacity > 0,
         frontier \in SUBSET Node, frontier # {}, best \in SUBSET Node,
         ShouldStop(Nearest(Key, frontier))
  PROVE  StopsWell
<1> DEFINE u == Nearest(Key, frontier)
<1>1. u \in frontier /\ \A v \in frontier : v # u => Closer(Key, u, v)
  BY KeyIs, NearestIs
<1> HIDE DEF u
<1>2. Full /\ Key[u] > Worst(best)
  BY DEF ShouldStop, u
<1>3. best # {}
  BY <1>2, FS_EmptySet DEF Full
<1>4. Worst(best) \in Nat /\ \A b \in best : Key[b] <= Worst(best)
  BY <1>3, WorstIs
<1>5. \A v \in Node : Key[v] \in Nat
  BY KeyIs
<1>6. \A v \in frontier : Key[u] <= Key[v]
  BY <1>1, <1>5 DEF Closer
<1>7. ASSUME NEW v \in frontier, NEW b \in best PROVE Key[v] > Key[b]
  <2>1. Key[v] \in Nat /\ Key[b] \in Nat /\ Key[u] \in Nat
    BY <1>1, <1>5
  <2> QED
    BY <1>2, <1>4, <1>6, <2>1
<1> QED
  BY <1>2, <1>7 DEF StopsWell

LEMMA BeamWidthIs ==
  ASSUME conf \in SearchConfig
  PROVE  BeamWidth \in Nat /\ BeamWidth > 0
<1> DEFINE b == IF conf.beam = 0 THEN conf.width ELSE conf.beam
           m == Min({b, conf.width})
<1>1. b \in Nat /\ conf.width \in Nat /\ conf.width > 0
  BY DEF SearchConfig
<1> HIDE DEF b
<1>2. m \in Nat
  BY <1>1, OfTwo
<1>3. BeamWidth = Max({1, m})
  BY DEF BeamWidth, b, m
<1> HIDE DEF m
<1>4. 1 \in Int /\ m \in Int
  BY <1>2
<1>5. Max({1, m}) = IF 1 <= m THEN m ELSE 1
  BY <1>4, OfTwo
<1> QED
  BY <1>2, <1>3, <1>5

\* A batch holds different candidates, as many as search_width leaves room
\* for, and is empty only when the search has to end.
LEMMA NextBatchIs ==
  ASSUME conf \in SearchConfig, frontier \in SUBSET Node,
         expanded \in Nat, expanded <= conf.width
  PROVE  /\ NextBatch \in Seq(Node) /\ IsInjective(NextBatch)
         /\ Range(NextBatch) \subseteq frontier
         /\ expanded + Len(NextBatch) <= conf.width
         /\ NextBatch = << >> => \/ Exhausted \/ frontier = {} \/ expanded = conf.width
                                 \/ ShouldStop(Nearest(Key, frontier))
<1> DEFINE left == conf.width - expanded
           most == Min({BeamWidth, left})
           list == ByDistance(Key, frontier)
           ranked == Take(list, most)
           ok == {i \in DOMAIN ranked : ~ShouldStop(ranked[i])}
           first == {i \in ok : \A j \in 1 .. i : j \in ok}
           n == Cardinality(first)
           part == Take(ranked, n)
<1>1. conf.width \in Nat /\ left \in Nat
  BY DEF SearchConfig
<1> HIDE DEF left
<1>2. most \in Nat /\ most <= left /\ (left > 0 => most > 0)
  <2>1. BeamWidth \in Nat /\ BeamWidth > 0
    BY BeamWidthIs
  <2>2. most = IF BeamWidth <= left THEN BeamWidth ELSE left
    BY <1>1, <2>1, OfTwo
  <2> QED
    BY <1>1, <2>1, <2>2
<1> HIDE DEF most
<1>3. /\ list \in Seq(Node) /\ Len(list) = Cardinality(frontier) /\ Len(list) \in Nat
      /\ Range(list) = frontier /\ IsInjective(list)
  BY KeyIs, ByDistanceLists, LenProperties
<1>4. list[1] = Nearest(Key, frontier)
  BY DEF Nearest
<1> HIDE DEF list
<1>5. /\ ranked \in Seq(Node) /\ Len(ranked) = IF most <= Len(list) THEN most ELSE Len(list)
      /\ \A i \in 1 .. Len(ranked) : ranked[i] = list[i]
      /\ Range(ranked) \subseteq Range(list) /\ IsInjective(ranked)
  BY <1>2, <1>3, TakeIs
<1>6. NextBatch = IF Exhausted THEN << >> ELSE part
  BY DEF NextBatch, ranked, list, most, left
<1> HIDE DEF ranked
<1>7. Len(ranked) \in Nat /\ Len(ranked) <= left /\ DOMAIN ranked = 1 .. Len(ranked)
  BY <1>1, <1>2, <1>3, <1>5, LenProperties
<1>8. first \in SUBSET (1 .. Len(ranked))
  BY <1>7
<1>9. n \in Nat /\ (n = 0 => first = {})
  <2>1. IsFiniteSet(1 .. Len(ranked))
    BY <1>7, FS_Interval
  <2>2. IsFiniteSet(first)
    BY <1>8, <2>1, FS_Subset
  <2> QED
    BY <2>2, FS_CardinalityType, FS_EmptySet
<1> HIDE DEF first, n
<1>10. /\ part \in Seq(Node) /\ Len(part) = IF n <= Len(ranked) THEN n ELSE Len(ranked)
       /\ Range(part) \subseteq Range(ranked) /\ IsInjective(part)
  BY <1>5, <1>9, TakeIs
<1> HIDE DEF part
<1>11. << >> \in Seq(Node) /\ IsInjective(<< >>) /\ Range(<< >>) = {} /\ Len(<< >>) = 0
  BY DEF IsInjective, Range
<1>12. expanded + Len(part) <= conf.width
  <2>1. Len(part) \in Nat /\ Len(part) <= left
    BY <1>1, <1>7, <1>9, <1>10, LenProperties
  <2> QED
    BY <1>1, <2>1 DEF left
<1>13. ASSUME part = << >>, frontier # {}, expanded # conf.width
       PROVE  ShouldStop(Nearest(Key, frontier))
  <2>1. left > 0
    BY <1>1, <1>13 DEF left
  <2>2. Len(list) > 0
    BY <1>3, <1>13, NodesFinite, FS_EmptySet
  <2>3. Len(ranked) > 0
    BY <1>2, <1>3, <1>5, <2>1, <2>2
  <2>4. first = {}
    BY <1>7, <1>9, <1>10, <1>11, <1>13, <2>3
  <2>5. 1 \in 1 .. Len(ranked) /\ \A j \in 1 .. 1 : j = 1
    BY <1>7, <2>3
  <2>6. 1 \notin ok
    BY <2>4, <2>5 DEF first
  <2>7. ShouldStop(ranked[1])
    BY <1>7, <2>5, <2>6
  <2>8. ranked[1] = Nearest(Key, frontier)
    BY <1>4, <1>5, <2>5
  <2> QED
    BY <2>7, <2>8
<1> QED
  BY <1>1, <1>3, <1>5, <1>6, <1>10, <1>11, <1>12, <1>13

\* What a batch brings in: all it leads to that was not visited.
LEMMA NewNeighboursAre ==
  ASSUME graph \in Graphs, visited \in SUBSET Node, batch \in Seq(Node),
         \A u \in Range(batch) : RowOf(u) = graph[u]
  PROVE  /\ NewNeighbours \in Seq(Seq(Node)) /\ Len(NewNeighbours) = Len(batch)
         /\ DOMAIN NewNeighbours = 1 .. Len(batch)
         /\ UNION {Range(NewNeighbours[i]) : i \in 1 .. Len(batch)}
              = (UNION {Range(graph[u]) : u \in Range(batch)}) \ visited
<1> DEFINE n == Len(batch)
           near(i) == Range(graph[batch[i]])
           fresh(i) == near(i) \ (visited \cup UNION {near(j) : j \in 1 .. i - 1})
           rows == NewNeighbours
<1>1. /\ n \in Nat /\ DOMAIN batch = 1 .. n
      /\ \A i \in 1 .. n : batch[i] \in Node /\ batch[i] \in Range(batch)
  BY LenProperties DEF Range
<1>2. \A i \in 1 .. n : RowOf(batch[i]) = graph[batch[i]]
  BY <1>1
<1>3. \A i \in 1 .. n : near(i) \in SUBSET Node
  BY <1>1, RowTypes
<1>4. rows = [i \in 1 .. n |-> ByDistance(Key, fresh(i))]
  <2>1. \A i \in 1 .. n : Range(RowOf(batch[i])) \
           (visited \cup UNION {Range(RowOf(batch[j])) : j \in 1 .. i - 1}) = fresh(i)
    <3> TAKE i \in 1 .. n
    <3>1. \A j \in 1 .. i - 1 : j \in 1 .. n
      BY <1>1
    <3> QED
      BY <1>2, <3>1
  <2> HIDE DEF fresh
  <2> QED
    BY <1>1, <2>1 DEF NewNeighbours
<1>5. ASSUME NEW i \in 1 .. n
      PROVE  rows[i] \in Seq(Node) /\ Range(rows[i]) = fresh(i)
  <2>1. fresh(i) \in SUBSET Node
    BY <1>3
  <2> HIDE DEF fresh
  <2>2. rows[i] = ByDistance(Key, fresh(i))
    BY <1>4
  <2> QED
    BY <2>1, <2>2, KeyIs, ByDistanceLists
<1> HIDE DEF near, rows
<1>6. rows \in Seq(Seq(Node)) /\ Len(rows) = n /\ DOMAIN rows = 1 .. n
  <2>1. rows \in [1 .. n -> Seq(Node)]
    BY <1>4, <1>5
  <2> QED
    BY <1>1, <2>1
<1> DEFINE all == UNION {Range(rows[i]) : i \in 1 .. n}
           led == UNION {Range(graph[u]) : u \in Range(batch)}
<1>7. \A v \in led : \E i \in 1 .. n : v \in near(i)
  BY <1>1 DEF Range, near
<1>8. \A i \in 1 .. n : near(i) \subseteq led
  BY <1>1 DEF near
<1> HIDE DEF led
<1>9. all \subseteq led \ visited
  BY <1>5, <1>8
<1>10. ASSUME NEW v \in led \ visited PROVE v \in all
  <2> DEFINE I == {i \in 1 .. n : v \in near(i)}
             m == Min(I)
  <2>1. I \in SUBSET Nat /\ I # {}
    BY <1>7
  <2>2. m \in I /\ \A i \in I : m <= i
    BY <2>1, LeastOf
  <2> HIDE DEF m
  <2>3. \A j \in 1 .. m - 1 : j \in 1 .. n /\ ~(m <= j)
    BY <1>1, <2>2
  <2>4. \A j \in 1 .. m - 1 : v \notin near(j)
    BY <2>2, <2>3
  <2>5. v \in fresh(m)
    BY <2>2, <2>4
  <2> QED
    BY <1>5, <2>2, <2>5
<1> QED
  BY <1>6, <1>9, <1>10 DEF rows, led

-----------------------------------------------------------------------------
\* Prefetching.

\* The pages of new candidates, one node, one row and all rows at a time.
Wanted(S, u) ==
  LET most == Max({1, 2 * (IF conf.beam = 0 THEN conf.width ELSE conf.beam)})
  IN  IF Cardinality(S) < most /\ PageOf(u) \notin Available THEN S \cup {PageOf(u)} ELSE S

WantRow(S, list) == FoldLeft(LAMBDA P, u : Wanted(P, u), S, list)

WantAll(S, list) == FoldLeft(LAMBDA P, row : WantRow(P, row), S, list)

LEMMA WantRowWalk ==
  ASSUME \A u \in Node : PageOf(u) \in AllPages,
         NEW S \in SUBSET AllPages, NEW list \in Seq(Node)
  PROVE  \E st \in [0 .. Len(list) -> SUBSET AllPages] :
           /\ st[0] = S /\ WantRow(S, list) = st[Len(list)]
           /\ \A k \in 1 .. Len(list) : st[k] = Wanted(st[k - 1], list[k])
<1> DEFINE n == Len(list)
           X == SUBSET AllPages
           F == [p \in X \X (1 .. n) |-> Wanted(p[1], list[p[2]])]
           Rec(h) == [t \in SUBSET (1 .. n) |->
                        IF t = {} THEN S
                        ELSE Wanted(h[t \ {Max(t)}], list[Max(t)])]
           fold == CHOOSE h : h = Rec(h)
<1>1. n \in Nat /\ DOMAIN list = 1 .. n /\ \A i \in 1 .. n : list[i] \in Node
  BY LenProperties
<1>2. WantRow(S, list) = fold[1 .. n]
  BY <1>1 DEF WantRow, FoldLeft, MapThenFoldSet
<1> HIDE DEF n, X
<1>3. \A row \in X, c \in Node : Wanted(row, c) \in X
  BY DEF X, Wanted
<1>4. S \in X
  BY DEF X
<1>5. F \in [X \X (1 .. n) -> X]
      /\ \A row \in X, i \in 1 .. n : F[<<row, i>>] = Wanted(row, list[i])
  BY <1>1, <1>3
<1> HIDE DEF F
<1>6. PICK st : /\ IsWalk(st, n, X, S, F)
                /\ \A h : IsFold(h, n, X, S, F) => h[1 .. n] = st[n]
                /\ \E f \in [SUBSET (1 .. n) -> X] : IsFold(f, n, X, S, F)
  BY <1>1, <1>4, <1>5, FoldIs
<1>7. fold = Rec(fold)
  <2>1. PICK f \in [SUBSET (1 .. n) -> X] : IsFold(f, n, X, S, F)
    BY <1>6
  <2>2. f = Rec(f)
    BY <1>1, <1>5, <2>1, LastPlace DEF IsFold
  <2> QED
    BY <2>2
<1> HIDE DEF fold
<1>8. IsFold(fold, n, X, S, F)
  BY <1>1, <1>5, <1>7, LastPlace DEF IsFold
<1>9. \A k \in 1 .. n : st[k] = Wanted(st[k - 1], list[k])
  BY <1>5, <1>6 DEF IsWalk
<1> QED
  BY <1>2, <1>6, <1>8, <1>9 DEF n, X, IsWalk

LEMMA WantAllWalk ==
  ASSUME \A u \in Node : PageOf(u) \in AllPages,
         NEW S \in SUBSET AllPages, NEW list \in Seq(Seq(Node))
  PROVE  \E st \in [0 .. Len(list) -> SUBSET AllPages] :
           /\ st[0] = S /\ WantAll(S, list) = st[Len(list)]
           /\ \A k \in 1 .. Len(list) : st[k] = WantRow(st[k - 1], list[k])
<1> DEFINE n == Len(list)
           X == SUBSET AllPages
           F == [p \in X \X (1 .. n) |-> WantRow(p[1], list[p[2]])]
           Rec(h) == [t \in SUBSET (1 .. n) |->
                        IF t = {} THEN S
                        ELSE WantRow(h[t \ {Max(t)}], list[Max(t)])]
           fold == CHOOSE h : h = Rec(h)
<1>1. n \in Nat /\ DOMAIN list = 1 .. n /\ \A i \in 1 .. n : list[i] \in Seq(Node)
  BY LenProperties
<1>2. WantAll(S, list) = fold[1 .. n]
  BY <1>1 DEF WantAll, FoldLeft, MapThenFoldSet
<1> HIDE DEF n, X
<1>3. \A row \in X, c \in Seq(Node) : WantRow(row, c) \in X
  <2> TAKE row \in X, c \in Seq(Node)
  <2>1. PICK w \in [0 .. Len(c) -> SUBSET AllPages] : WantRow(row, c) = w[Len(c)]
    BY WantRowWalk DEF X
  <2>2. Len(c) \in 0 .. Len(c)
    BY LenProperties
  <2> QED
    BY <2>1, <2>2 DEF X
<1>4. S \in X
  BY DEF X
<1>5. F \in [X \X (1 .. n) -> X]
      /\ \A row \in X, i \in 1 .. n : F[<<row, i>>] = WantRow(row, list[i])
  BY <1>1, <1>3
<1> HIDE DEF F
<1>6. PICK st : /\ IsWalk(st, n, X, S, F)
                /\ \A h : IsFold(h, n, X, S, F) => h[1 .. n] = st[n]
                /\ \E f \in [SUBSET (1 .. n) -> X] : IsFold(f, n, X, S, F)
  BY <1>1, <1>4, <1>5, FoldIs
<1>7. fold = Rec(fold)
  <2>1. PICK f \in [SUBSET (1 .. n) -> X] : IsFold(f, n, X, S, F)
    BY <1>6
  <2>2. f = Rec(f)
    BY <1>1, <1>5, <2>1, LastPlace DEF IsFold
  <2> QED
    BY <2>2
<1> HIDE DEF fold
<1>8. IsFold(fold, n, X, S, F)
  BY <1>1, <1>5, <1>7, LastPlace DEF IsFold
<1>9. \A k \in 1 .. n : st[k] = WantRow(st[k - 1], list[k])
  BY <1>5, <1>6 DEF IsWalk
<1> QED
  BY <1>2, <1>6, <1>8, <1>9 DEF n, X, IsWalk


LEMMA PrefetchPagesAre ==
  ASSUME \A u \in Node : PageOf(u) \in AllPages, NEW rows \in Seq(Seq(Node))
  PROVE  PrefetchPages(rows) \in SUBSET AllPages
<1>1. PrefetchPages(rows) = WantAll({}, rows)
  BY DEF PrefetchPages, WantAll, WantRow, Wanted
<1>2. PICK w \in [0 .. Len(rows) -> SUBSET AllPages] : WantAll({}, rows) = w[Len(rows)]
  BY WantAllWalk, ZenonT(60)
<1>3. Len(rows) \in 0 .. Len(rows)
  BY LenProperties
<1> QED
  BY <1>1, <1>2, <1>3

\* The order in which a plan looks at the pages.
LEMMA RankedIs ==
  ASSUME NEW P, NEW cands \in Seq(P), NEW score \in [Range(cands) -> Nat]
  PROVE  Ranked(cands, score) \in Seq(P)
<1> DEFINE S == Range(cands)
           R == {p \in S \X S : Better(cands, score, p[1], p[2])}
           n == Cardinality(S)
           ranked == Ranked(cands, score)
           count(p) == CountOn(cands, p)
           least(p) == MinRank(cands, p)
<1>1. DOMAIN cands = 1 .. Len(cands) /\ Len(cands) \in Nat /\ S \in SUBSET P
  BY LenProperties, RangeOfSeq
<1>2. IsFiniteSet(1 .. Len(cands)) /\ IsFiniteSet(S)
  <2>1. IsFiniteSet(1 .. Len(cands))
    BY <1>1, FS_Interval
  <2>2. cands \in Surjection(1 .. Len(cands), S)
    BY <1>1 DEF Surjection, Range
  <2> HIDE DEF S
  <2> QED
    BY <2>1, <2>2, FS_Surjection
<1>3. ASSUME NEW p \in S
      PROVE  /\ count(p) \in Nat /\ least(p) \in Nat /\ score[p] \in Nat
             /\ cands[least(p)] = p
  <2> DEFINE I == {i \in DOMAIN cands : cands[i] = p}
  <2>1. I \in SUBSET (1 .. Len(cands)) /\ I \in SUBSET Nat /\ I # {}
    BY <1>1 DEF Range
  <2>2. IsFiniteSet(I)
    BY <1>2, <2>1, FS_Subset
  <2>3. Cardinality(I) \in Nat
    BY <2>2, FS_CardinalityType
  <2>4. Min(I) \in I
    BY <2>1, LeastOf
  <2> QED
    BY <2>1, <2>3, <2>4 DEF CountOn, MinRank
<1> HIDE DEF S, count, least
<1>4. \A p, q \in S : <<p, q>> \in R <=>
        \/ score[p] > score[q]
        \/ score[p] = score[q] /\ count(p) > count(q)
        \/ score[p] = score[q] /\ count(p) = count(q) /\ least(p) < least(q)
  <2> TAKE p \in S, q \in S
  <2>1. <<p, q>> \in R <=> Better(cands, score, p, q)
    OBVIOUS
  <2>2. /\ score[p] \in Nat /\ score[q] \in Nat /\ count(p) \in Nat /\ count(q) \in Nat
        /\ least(p) \in Nat /\ least(q) \in Nat
    BY <1>3
  <2>3. Better(cands, score, p, q) <=>
          IF score[p] # score[q] THEN score[p] > score[q]
          ELSE IF count(p) # count(q) THEN count(p) > count(q) ELSE least(p) < least(q)
    BY DEF Better, count, least
  <2> QED
    BY <2>1, <2>2, <2>3
<1> HIDE DEF R
<1>5. TotalOrder(S, R)
  <2>1. \A p \in S : <<p, p>> \notin R
    BY <1>3, <1>4
  <2>2. \A p, q \in S : p = q \/ <<p, q>> \in R \/ <<q, p>> \in R
    <3> TAKE p \in S, q \in S
    <3>1. least(p) = least(q) => p = q
      BY <1>3
    <3> QED
      BY <1>3, <1>4, <3>1
  <2>3. \A p, q, r \in S : <<p, q>> \in R /\ <<q, r>> \in R => <<p, r>> \in R
    BY <1>3, <1>4, SMTT(60)
  <2> QED
    BY <2>1, <2>2, <2>3 DEF TotalOrder
<1>6. n \in Nat /\ \A i \in 1 .. n : \E p \in S : Ranks(S, R)[p] = i - 1
  BY <1>2, <1>5, Ranking
<1>7. ASSUME NEW p \in S
      PROVE  Ranks(S, R)[p] = Cardinality({q \in S : Better(cands, score, q, p)})
  <2>1. {q \in S : <<q, p>> \in R} = {q \in S : Better(cands, score, q, p)}
    BY DEF R
  <2> QED
    BY <2>1 DEF Ranks
<1>8. ranked = [i \in 1 .. n |->
                  CHOOSE p \in S : Cardinality({q \in S : Better(cands, score, q, p)}) = i - 1]
  BY DEF Ranked, S
<1>9. \A i \in 1 .. n : ranked[i] \in S
  <2> SUFFICES ASSUME NEW i \in 1 .. n PROVE ranked[i] \in S
    OBVIOUS
  <2>1. ranked[i] = CHOOSE p \in S : Cardinality({q \in S : Better(cands, score, q, p)}) = i - 1
    BY <1>8
  <2>2. \E p \in S : Cardinality({q \in S : Better(cands, score, q, p)}) = i - 1
    BY <1>6, <1>7
  <2> HIDE DEF ranked
  <2> QED
    BY <2>1, <2>2
<1>10. ranked \in [1 .. n -> P]
  BY <1>1, <1>8, <1>9
<1> QED
  BY <1>6, <1>10

\* A plan that selects list, one page at a time.
PlanLimit(config) == InflightLimit(config.maxInflight, config.budget)

PlanRoom(config, inflight, n) == PlanLimit(config) = 0 \/ inflight + n < PlanLimit(config)

PlanWorth(config, score, skipped, p) == p \notin skipped /\ score[p] >= config.threshold

Selected(config, cands, score, skipped, inflight, sel, p) ==
  IF /\ PlanWorth(config, score, skipped, p) /\ CountOn(cands, p) >= Max({1, config.reuse})
     /\ Len(sel) < config.topPages /\ PlanRoom(config, inflight, Len(sel))
  THEN Append(sel, p) ELSE sel

SelectAll(config, cands, score, skipped, inflight, list) ==
  FoldLeft(LAMBDA sel, p : Selected(config, cands, score, skipped, inflight, sel, p),
           << >>, list)

\* A plan that fits the room there is.
PlanFits(config, inflight, sel) ==
  Len(sel) = 0 \/ PlanLimit(config) = 0 \/ inflight + Len(sel) <= PlanLimit(config)

LEMMA PlanLimitIs ==
  ASSUME NEW config \in SearchConfig
  PROVE  /\ PlanLimit(config) \in Nat
         /\ config.budget > 0 => PlanLimit(config) > 0 /\ PlanLimit(config) <= config.budget
<1> DEFINE a == config.maxInflight
           b == config.budget
<1>1. a \in Nat /\ b \in Nat
  BY DEF SearchConfig
<1>2. PlanLimit(config) = IF a = 0 \/ b = 0 THEN a + b ELSE Min({a, b})
  BY DEF PlanLimit, InflightLimit
<1> HIDE DEF a, b
<1>3. Min({a, b}) = IF a <= b THEN a ELSE b
  BY <1>1, OfTwo
<1>4. /\ PlanLimit(config) \in Nat
      /\ b > 0 => PlanLimit(config) > 0 /\ PlanLimit(config) <= b
  BY <1>1, <1>2, <1>3
<1> QED
  BY <1>4 DEF b

\* The selection walks along list.
IsSelection(P, config, cands, score, skipped, inflight, list) ==
  \E st \in [0 .. Len(list) -> Seq(P)] :
    /\ st[0] = << >>
    /\ SelectAll(config, cands, score, skipped, inflight, list) = st[Len(list)]
    /\ \A k \in 1 .. Len(list) :
         st[k] = Selected(config, cands, score, skipped, inflight, st[k - 1], list[k])

LEMMA SelectAllWalk ==
  ASSUME NEW P, NEW config, NEW cands, NEW score, NEW skipped, NEW inflight,
         NEW list \in Seq(P)
  PROVE  IsSelection(P, config, cands, score, skipped, inflight, list)
<1> DEFINE n == Len(list)
           X == Seq(P)
           F == [p \in X \X (1 .. n) |-> Selected(config, cands, score, skipped, inflight, p[1], list[p[2]])]
           Rec(h) == [t \in SUBSET (1 .. n) |->
                        IF t = {} THEN << >>
                        ELSE Selected(config, cands, score, skipped, inflight, h[t \ {Max(t)}], list[Max(t)])]
           fold == CHOOSE h : h = Rec(h)
<1>1. n \in Nat /\ DOMAIN list = 1 .. n /\ \A i \in 1 .. n : list[i] \in P
  BY LenProperties
<1>2. SelectAll(config, cands, score, skipped, inflight, list) = fold[1 .. n]
  BY <1>1 DEF SelectAll, FoldLeft, MapThenFoldSet
<1> HIDE DEF n, X
<1>3. \A row \in X, c \in P : Selected(config, cands, score, skipped, inflight, row, c) \in X
  BY AppendIs DEF X, Selected
<1>4. << >> \in X
  BY DEF X
<1>5. F \in [X \X (1 .. n) -> X]
      /\ \A row \in X, i \in 1 .. n : F[<<row, i>>] = Selected(config, cands, score, skipped, inflight, row, list[i])
  BY <1>1, <1>3
<1> HIDE DEF F
<1>6. PICK st : /\ IsWalk(st, n, X, << >>, F)
                /\ \A h : IsFold(h, n, X, << >>, F) => h[1 .. n] = st[n]
                /\ \E f \in [SUBSET (1 .. n) -> X] : IsFold(f, n, X, << >>, F)
  BY <1>1, <1>4, <1>5, FoldIs
<1>7. fold = Rec(fold)
  <2>1. PICK f \in [SUBSET (1 .. n) -> X] : IsFold(f, n, X, << >>, F)
    BY <1>6
  <2>2. f = Rec(f)
    BY <1>1, <1>5, <2>1, LastPlace DEF IsFold
  <2> QED
    BY <2>2
<1> HIDE DEF fold
<1>8. IsFold(fold, n, X, << >>, F)
  BY <1>1, <1>5, <1>7, LastPlace DEF IsFold
<1>9. \A k \in 1 .. n : st[k] = Selected(config, cands, score, skipped, inflight, st[k - 1], list[k])
  BY <1>5, <1>6 DEF IsWalk
<1> QED
  BY <1>2, <1>6, <1>8, <1>9 DEF n, X, IsWalk, IsSelection


LEMMA SelectedFits ==
  ASSUME NEW P, NEW config \in SearchConfig, NEW cands, NEW score, NEW skipped,
         NEW inflight \in Nat, NEW sel \in Seq(P), NEW p \in P,
         PlanFits(config, inflight, sel)
  PROVE  PlanFits(config, inflight, Selected(config, cands, score, skipped, inflight, sel, p))
<1> DEFINE next == Selected(config, cands, score, skipped, inflight, sel, p)
           limit == PlanLimit(config)
<1>1. limit \in Nat /\ Len(sel) \in Nat
  BY PlanLimitIs, LenProperties
<1>2. next = sel \/ (next = Append(sel, p) /\ PlanRoom(config, inflight, Len(sel)))
  BY DEF Selected
<1> HIDE DEF next
<1>3. CASE next = sel
  BY <1>3 DEF next
<1>4. CASE next = Append(sel, p) /\ PlanRoom(config, inflight, Len(sel))
  <2>1. Len(next) = Len(sel) + 1
    BY <1>4, AppendIs
  <2>2. limit = 0 \/ inflight + Len(sel) < limit
    BY <1>4 DEF PlanRoom
  <2> HIDE DEF limit
  <2>3. limit = 0 \/ inflight + Len(next) <= limit
    BY <1>1, <2>1, <2>2
  <2> QED
    BY <2>3 DEF PlanFits, next, limit
<1> QED
  BY <1>2, <1>3, <1>4

LEMMA PlanIs ==
  ASSUME NEW P, NEW config \in SearchConfig, NEW cands \in Seq(P),
         NEW score \in [Range(cands) -> Nat], NEW skipped, NEW inflight \in Nat
  PROVE  /\ Plan(config, cands, score, skipped, inflight) \in Seq(P)
         /\ PlanFits(config, inflight, Plan(config, cands, score, skipped, inflight))
<1> DEFINE ranked == Ranked(cands, score)
           chosen == SelectAll(config, cands, score, skipped, inflight, ranked)
           spare == {i \in DOMAIN ranked :
                       /\ PlanWorth(config, score, skipped, ranked[i])
                       /\ CountOn(cands, ranked[i]) < Max({1, config.reuse})}
           n == Len(ranked)
<1>1. ranked \in Seq(P)
  BY RankedIs
<1>2. Plan(config, cands, score, skipped, inflight) =
        IF config.topPages = 0 THEN << >>
        ELSE IF chosen # << >> THEN chosen
        ELSE IF PlanRoom(config, inflight, 0) /\ spare # {} THEN <<ranked[Min(spare)]>>
        ELSE << >>
  BY DEF Plan, PlanRoom, PlanLimit, PlanWorth, SelectAll, Selected
<1> HIDE DEF ranked
<1>3. n \in Nat /\ DOMAIN ranked = 1 .. n /\ \A i \in 1 .. n : ranked[i] \in P
  BY <1>1, LenProperties
<1>4. PICK st \in [0 .. n -> Seq(P)] :
        /\ st[0] = << >> /\ chosen = st[n]
        /\ \A k \in 1 .. n :
             st[k] = Selected(config, cands, score, skipped, inflight, st[k - 1], ranked[k])
  <2>1. IsSelection(P, config, cands, score, skipped, inflight, ranked)
    BY <1>1, SelectAllWalk
  <2> QED
    BY <2>1 DEF IsSelection
<1>5. << >> \in Seq(P) /\ PlanFits(config, inflight, << >>)
  BY DEF PlanFits
<1> DEFINE T == {k \in 0 .. n : PlanFits(config, inflight, st[k])}
<1> HIDE DEF n, chosen
<1>6. 0 \in T
  BY <1>3, <1>4, <1>5
<1>7. ASSUME NEW k \in 1 .. n, k - 1 \in T PROVE k \in T
  <2>1. st[k - 1] \in Seq(P) /\ ranked[k] \in P /\ k \in 0 .. n
    BY <1>3, <1>4, <1>7
  <2> QED
    BY <1>4, <1>7, <2>1, SelectedFits
<1> HIDE DEF T
<1>8. n \in T
  BY <1>3, <1>6, <1>7, CountUp
<1>9. chosen \in Seq(P) /\ PlanFits(config, inflight, chosen)
  <2>1. n \in 0 .. n
    BY <1>3
  <2> QED
    BY <1>4, <1>8, <2>1 DEF T
<1>10. ASSUME spare # {}, PlanRoom(config, inflight, 0)
       PROVE  /\ <<ranked[Min(spare)]>> \in Seq(P)
              /\ PlanFits(config, inflight, <<ranked[Min(spare)]>>)
  <2>1. spare \in SUBSET (1 .. n) /\ spare \in SUBSET Nat
    BY <1>3
  <2>2. Min(spare) \in spare
    BY <1>10, <2>1, LeastOf
  <2> HIDE DEF spare
  <2>3. ranked[Min(spare)] \in P
    BY <1>3, <2>1, <2>2
  <2> DEFINE e == ranked[Min(spare)]
             limit == PlanLimit(config)
  <2> HIDE DEF e
  <2>4. <<e>> \in Seq(P) /\ Len(<<e>>) = 1
    BY <2>3 DEF e
  <2>5. limit \in Nat /\ (limit = 0 \/ inflight + 0 < limit)
    BY <1>10, PlanLimitIs DEF PlanRoom
  <2> HIDE DEF limit
  <2>6. limit = 0 \/ inflight + 1 <= limit
    BY <2>5
  <2> QED
    BY <2>4, <2>6 DEF PlanFits, e, limit
<1> HIDE DEF spare
<1> QED
  BY <1>2, <1>5, <1>9, <1>10

LEMMA PagesFinite ==
  ASSUME build \in Builds, NEW S \in SUBSET AllPages
  PROVE  IsFiniteSet(S) /\ Cardinality(S) \in Nat
<1>1. IsFiniteSet(AllPages)
  <2>1. PageCount \in Nat
    BY PerPageIs
  <2>2. 0 \in Int /\ PageCount - 1 \in Int
    BY <2>1
  <2> QED
    BY <2>2, FS_Interval DEF AllPages
<1> QED
  BY <1>1, FS_Subset, FS_CardinalityType

\* What is queued is read, as far as the budget reaches.
LEMMA QueueIs ==
  ASSUME build \in Builds, conf \in SearchConfig,
         pages \in SUBSET AllPages, ahead \in SUBSET AllPages, NEW list \in Seq(AllPages)
  PROVE  /\ Queue(list) \in SUBSET AllPages /\ ahead \subseteq Queue(list)
         /\ Len(list) = 0 \/ Cardinality(ahead) + Len(list) <= conf.budget
            => Range(list) \subseteq pages \cup Queue(list)
<1> DEFINE new == Keep(list, Range(list) \ Available)
           c == Cardinality(ahead)
           room == Max({0, conf.budget - c})
           part == Take(new, room)
<1>1. c \in Nat /\ conf.budget \in Nat /\ Len(list) \in Nat
  BY PagesFinite, LenProperties DEF SearchConfig
<1> HIDE DEF c
<1>2. room \in Nat /\ conf.budget - c <= room
  <2>1. 0 \in Int /\ conf.budget - c \in Int
    BY <1>1
  <2>2. room = IF 0 <= conf.budget - c THEN conf.budget - c ELSE 0
    BY <2>1, OfTwo
  <2> QED
    BY <1>1, <2>2
<1>3. /\ new \in Seq(AllPages) /\ Len(new) <= Len(list) /\ Len(new) \in Nat
      /\ Range(new) = Range(list) \cap (Range(list) \ Available)
  BY KeepIs, LenProperties
<1>4. Queue(list) = ahead \cup Range(part)
  BY DEF Queue, c
<1> HIDE DEF new, room
<1>5. part \in Seq(AllPages) /\ (Len(new) <= room => part = new)
  BY <1>2, <1>3, TakeIs
<1>6. Range(part) \subseteq AllPages
  BY <1>5, RangeOfSeq
<1>7. CASE Len(list) = 0
  <2>1. Range(list) = {}
    BY <1>7, LenProperties DEF Range
  <2> QED
    BY <1>4, <1>6, <2>1
<1>8. CASE c + Len(list) <= conf.budget
  <2>1. Len(new) <= room
    BY <1>1, <1>2, <1>3, <1>8
  <2>2. part = new
    BY <1>5, <2>1
  <2> QED
    BY <1>3, <1>4, <1>6, <2>2 DEF Available
<1>9. ahead \subseteq Queue(list) /\ Queue(list) \in SUBSET AllPages
  BY <1>4, <1>6
<1> QED
  BY <1>7, <1>8, <1>9 DEF c

\* A plan is read as it was made.
LEMMA SubmitPlanIs ==
  ASSUME build \in Builds, conf \in SearchConfig,
         pages \in SUBSET AllPages, ahead \in SUBSET AllPages, planned \in SUBSET AllPages,
         NEW cands \in Seq(AllPages), NEW reuse \in Nat, SubmitPlan(cands, reuse)
  PROVE  /\ ahead' \in SUBSET AllPages /\ planned' \in SUBSET AllPages
         /\ ahead \subseteq ahead'
         /\ conf.budget > 0 => planned' \subseteq planned \cup pages \cup ahead'
<1> DEFINE config == [conf EXCEPT !.reuse = reuse]
           inflight == Cardinality(ahead)
<1>1. config \in SearchConfig /\ config.budget = conf.budget
  BY DEF SearchConfig
<1>2. PICK score \in [Range(cands) -> Scores] :
        /\ planned' = planned \cup Range(Plan(config, cands, score, Available \cup planned, inflight))
        /\ ahead' = Queue(Plan(config, cands, score, Available \cup planned, inflight))
  BY DEF SubmitPlan
<1> DEFINE plan == Plan(config, cands, score, Available \cup planned, inflight)
<1>3. score \in [Range(cands) -> Nat] /\ inflight \in Nat
  BY SearchAssumption, PagesFinite
<1> HIDE DEF config
<1>4. plan \in Seq(AllPages) /\ PlanFits(config, inflight, plan)
  <2> HIDE DEF inflight
  <2> QED
    BY <1>1, <1>3, PlanIs
<1>5. planned' = planned \cup Range(plan) /\ ahead' = Queue(plan)
  BY <1>2
<1> HIDE DEF plan
<1>6. Range(plan) \subseteq AllPages /\ Len(plan) \in Nat
  BY <1>4, RangeOfSeq, LenProperties
<1>7. /\ Queue(plan) \in SUBSET AllPages /\ ahead \subseteq Queue(plan)
      /\ Len(plan) = 0 \/ inflight + Len(plan) <= conf.budget
         => Range(plan) \subseteq pages \cup Queue(plan)
  BY <1>4, QueueIs
<1>8. conf.budget > 0 => Len(plan) = 0 \/ inflight + Len(plan) <= conf.budget
  <2> DEFINE limit == PlanLimit(config)
  <2>1. /\ limit \in Nat /\ conf.budget \in Nat
        /\ (conf.budget > 0 => limit > 0 /\ limit <= conf.budget)
    BY <1>1, PlanLimitIs DEF SearchConfig
  <2>2. Len(plan) = 0 \/ limit = 0 \/ inflight + Len(plan) <= limit
    BY <1>4 DEF PlanFits
  <2> HIDE DEF limit, inflight
  <2> QED
    BY <1>3, <1>6, <2>1, <2>2
<1> QED
  BY <1>5, <1>6, <1>7, <1>8

-----------------------------------------------------------------------------
\* The search: what holds from the opening of the index to the answer.

AtStart ==
  /\ conf = << >> /\ at = "closed" /\ entries = << >>
  /\ visited = {} /\ frontier = {} /\ best = {} /\ batch = << >>
  /\ expanded = 0 /\ stagnant = 0 /\ worst = -1
  /\ pages = {} /\ ahead = {} /\ planned = {} /\ result = << >>

Shape ==
  /\ at \in Places \ {"closed"} /\ conf \in Searches[build]
  /\ stage \in {"ready", "failed"}
  /\ at # "failed" => Opens
  /\ entries \in Seq(Node) /\ batch \in Seq(Node)
  /\ visited \in SUBSET Node /\ frontier \in SUBSET visited
  /\ expanded \in Nat /\ stagnant \in Nat /\ worst \in Nat \cup {-1}
  /\ pages \in SUBSET AllPages /\ ahead \in SUBSET AllPages /\ planned \in SUBSET AllPages
  /\ result \in Seq(visited)

\* Nothing is searched before the entry nodes are chosen.
Fresh ==
  /\ at = "open" => entries = << >>
  /\ at \in {"open", "ready"} => visited = {} /\ planned = {}

\* The heap of results holds the best of what was visited, and what was
\* expanded are the visited nodes that are candidates no more.
Heaps ==
  /\ best = BestOf(visited)
  /\ expanded = Cardinality(visited \ frontier)
  /\ expanded + Len(batch) <= conf.width

\* A batch is loaded and then expanded.
Batched ==
  /\ IsInjective(batch) /\ Range(batch) \subseteq frontier
  /\ at = "expand" <=> batch # << >>
  /\ \A u \in Range(batch) : Found(u)

\* What is visited is what the graph leads to from the entries.
Covers ==
  /\ at \in {"search", "expand", "rerank", "load", "done"} => Range(entries) \subseteq visited
  /\ \A u \in visited \ frontier : Range(graph[u]) \subseteq visited
  /\ visited \subseteq Reachable(Range(entries))

Stopped ==
  /\ at \in {"rerank", "load", "done"} /\ frontier # {} /\ expanded < conf.width /\ ~Exhausted
     => StopsWell
  /\ at = "done" => result = FinalOrder

Opened ==
  /\ Shape /\ Fresh /\ Heaps /\ Batched /\ Covers /\ Stopped
  /\ EntriesFillUp /\ PlannedIsRead /\ FailsOnlyWhenIncomplete

SearchInv == AtStart \/ Opened

\* Once the index is open every node is on a page of the file, and found
\* there with its row unless the file ends before.
LEMMA Served ==
  ASSUME IndexInv, Opens
  PROVE  /\ build \in Builds /\ graph \in Graphs /\ order # << >>
         /\ \A u \in Node : /\ PageOf(u) \in AllPages
                            /\ Complete => Found(u)
                            /\ Found(u) => RowOf(u) = graph[u]
         /\ Complete => \A p \in AllPages : Readable(p)
<1>1. BuildInv /\ FileInv /\ build \in Builds /\ graph \in Graphs
  BY DEF IndexInv, BuildInv, BuildShape
<1>2. file.header = TRUE
  BY <1>1 DEF Opens, FileInv
<1>3. order # << >>
  BY <1>1, <1>2 DEF FileInv, NoFile
<1>4. build.packing # "one-node" => file.directory = Directory
  BY <1>1 DEF Opens, FileInv
<1>5. PagesWritten /\ PageCount \in Nat
  BY <1>1, PerPageIs DEF FileInv
<1>6. ASSUME NEW u \in Node
      PROVE  /\ PageOf(u) \in AllPages
             /\ Complete => Found(u)
             /\ Found(u) => RowOf(u) = graph[u]
  <2>1. /\ PageOf(u) \in AllPages
        /\ Found(u) <=> PageOf(u) < Len(file.pages)
        /\ Found(u) => RowOf(u) = graph[u]
    BY <1>1, <1>3, <1>4, <1>5, NodeIsServed
  <2>2. Complete => PageOf(u) < Len(file.pages)
    BY <1>5, <2>1 DEF Complete, AllPages
  <2> QED
    BY <2>1, <2>2
<1>7. ASSUME Complete, NEW p \in AllPages PROVE Readable(p)
  <2>1. p \in 0 .. Len(file.pages) - 1
    BY <1>7 DEF Complete, AllPages
  <2> QED
    BY <1>1, <1>3, <1>5, <2>1, RecordsOfPage
<1> QED
  BY <1>1, <1>3, <1>6, <1>7

\* What a search does not change.
LEMMA SameAnswers ==
  ASSUME UNCHANGED <<building, file, conf>>
  PROVE  /\ Key' = Key /\ Capacity' = Capacity /\ AllPages' = AllPages
         /\ Opens' = Opens /\ Complete' = Complete /\ Naive' = Naive /\ Reranks' = Reranks
         /\ \A u : Found(u)' = Found(u)
         /\ \A S : BestOf(S)' = BestOf(S)
         /\ \A S : Reachable(S)' = Reachable(S)
<1>1. Key' = Key /\ Capacity' = Capacity /\ AllPages' = AllPages
  BY DEF Key, Capacity, AllPages, PageCount, PerPage, building
<1>2. Opens' = Opens /\ Complete' = Complete /\ Naive' = Naive /\ Reranks' = Reranks
  BY DEF Opens, Complete, PageCount, PerPage, Naive, Reranks, building
<1>3. \A u : Found(u)' = Found(u)
  BY DEF Found, Readable, RecordsOf, Records, PageOf, PerPage, building
<1>4. \A S : BestOf(S)' = BestOf(S)
  BY <1>1 DEF BestOf
<1>5. \A S : Reachable(S)' = Reachable(S)
  BY DEF Reachable, building
<1> QED
  BY <1>1, <1>2, <1>3, <1>4, <1>5

LEMMA ReachableIs ==
  ASSUME graph \in Graphs, NEW S
  PROVE  /\ Reachable(S) \in SUBSET Node
         /\ S \in SUBSET Node => S \subseteq Reachable(S)
         /\ \A u \in Reachable(S) : Range(graph[u]) \subseteq Reachable(S)
<1>1. \A u \in Node : Range(graph[u]) \in SUBSET Node
  BY RowTypes
<1> QED
  BY <1>1 DEF Reachable

\* Candidates of F are expanded: what they lead to is visited and becomes a
\* candidate.
Expansion(V, F, B, V1, F1) ==
  /\ V1 \in SUBSET Node /\ F1 \in SUBSET V1 /\ V \subseteq V1
  /\ V1 \ F1 = (V \ F) \cup B
  /\ V \ F \subseteq V1 \ F1
  /\ Cardinality(V1 \ F1) = Cardinality(V \ F) + Cardinality(B)
  /\ \A u \in V1 \ F1 : Range(graph[u]) \subseteq V1
  /\ \A S : V \subseteq Reachable(S) => V1 \subseteq Reachable(S)

LEMMA ExpansionIs ==
  ASSUME graph \in Graphs, NEW V \in SUBSET Node, NEW F \in SUBSET V, NEW B \in SUBSET F,
         \A u \in V \ F : Range(graph[u]) \subseteq V,
         NEW new, new = (UNION {Range(graph[u]) : u \in B}) \ V
  PROVE  Expansion(V, F, B, V \cup new, (F \ B) \cup new)
<1> DEFINE V1 == V \cup new
           F1 == (F \ B) \cup new
<1>1. \A u \in Node : Range(graph[u]) \in SUBSET Node
  BY RowTypes
<1>2. V1 \in SUBSET Node /\ F1 \in SUBSET V1 /\ V \subseteq V1
  BY <1>1
<1>3. V1 \ F1 = (V \ F) \cup B
  OBVIOUS
<1>4. Cardinality(V1 \ F1) = Cardinality(V \ F) + Cardinality(B)
  <2>1. IsFiniteSet(V \ F) /\ IsFiniteSet(B) /\ (V \ F) \cap B = {}
    BY NodesFinite
  <2>2. Cardinality((V \ F) \cup B) = Cardinality(V \ F) + Cardinality(B)
    <3>1. /\ Cardinality((V \ F) \cup B)
               = Cardinality(V \ F) + Cardinality(B) - Cardinality((V \ F) \cap B)
          /\ Cardinality((V \ F) \cap B) = 0
          /\ Cardinality(V \ F) \in Nat /\ Cardinality(B) \in Nat
      BY <2>1, FS_Union, FS_EmptySet, FS_CardinalityType
    <3> QED
      BY <3>1
  <2> QED
    BY <1>3, <2>2
<1>5. \A u \in V1 \ F1 : Range(graph[u]) \subseteq V1
  BY <1>3
<1>6. \A S : V \subseteq Reachable(S) => V1 \subseteq Reachable(S)
  BY ReachableIs
<1> HIDE DEF V1, F1
<1>7. Expansion(V, F, B, V1, F1)
  BY <1>2, <1>3, <1>4, <1>5, <1>6 DEF Expansion
<1> QED
  BY <1>7 DEF V1, F1

LEMMA EmptyHeap ==
  build \in Builds /\ conf \in Searches[build] => BestOf({}) = {}
BY ConfIs, BestOfNothing

LEMMA SearchesAre ==
  ASSUME NEW b \in Builds
  PROVE  Searches[b] \subseteq SearchConfig
BY SearchAssumption

LEMMA OpenIndexInv ==
  ASSUME IndexInv, AtStart, OpenIndex
  PROVE  Opened'
<1>1. /\ stage \in {"ready", "failed"} /\ conf' \in Searches[build]
      /\ at' = (IF Opens THEN "open" ELSE "failed")
      /\ UNCHANGED <<building, file, entries, heaps, session, result>>
  BY DEF OpenIndex
<1>2. /\ build' = build /\ stage' = stage /\ build \in Builds
      /\ entries' = << >> /\ visited' = {} /\ frontier' = {} /\ best' = {} /\ batch' = << >>
      /\ expanded' = 0 /\ stagnant' = 0 /\ worst' = -1
      /\ pages' = {} /\ ahead' = {} /\ planned' = {} /\ result' = << >>
  BY <1>1 DEF AtStart, building, heaps, session, IndexInv, BuildInv, BuildShape
<1>3. Opens' = Opens /\ Complete' = Complete
  BY <1>1 DEF Opens, Complete, PageCount, PerPage, building
<1>4. conf'.width \in Nat
  BY <1>1, <1>2, SearchesAre DEF SearchConfig
<1>5. at' \in {"open", "failed"} /\ (at' # "failed" => Opens)
  BY <1>1
<1>6. Len(<< >>) = 0 /\ IsInjective(<< >>) /\ Range(<< >>) = {}
  BY DEF IsInjective, Range
<1>7. Shape'
  BY <1>1, <1>2, <1>3, <1>5 DEF Shape, Places
<1>8. Fresh'
  BY <1>2 DEF Fresh
<1>9. Heaps'
  <2>1. (build \in Builds /\ conf \in Searches[build])' => (BestOf({}) = {})'
    BY EmptyHeap, PTL
  <2>2. BestOf({})' = {}
    BY <1>1, <1>2, <2>1
  <2>3. (BestOf(visited))' = BestOf({})'
    BY <1>2 DEF BestOf
  <2>4. Cardinality(visited' \ frontier') = 0
    BY <1>2, FS_EmptySet
  <2> QED
    BY <1>2, <1>4, <1>6, <2>2, <2>3, <2>4 DEF Heaps
<1>10. Batched'
  BY <1>2, <1>5, <1>6 DEF Batched
<1>11. Covers'
  BY <1>2, <1>5 DEF Covers
<1>12. Stopped'
  BY <1>5 DEF Stopped
<1>13. EntriesFillUp' /\ PlannedIsRead'
  BY <1>2, <1>5 DEF EntriesFillUp, PlannedIsRead
<1>14. FailsOnlyWhenIncomplete'
  BY <1>1, <1>3 DEF FailsOnlyWhenIncomplete, Complete
<1> QED
  BY <1>7, <1>8, <1>9, <1>10, <1>11, <1>12, <1>13, <1>14 DEF Opened

\* What may be chosen for entry nodes.
LEMMA EntriesOfAre ==
  ASSUME IndexInv, Opens, conf \in SearchConfig,
         conf.entries = "hybrid" => \A p \in AllPages : Readable(p),
         NEW list \in EntriesOf(conf.entries)
  PROVE  /\ list \in Seq(Node) /\ IsInjective(list)
         /\ conf.entries # "single" => Len(list) = Min({conf.entryCount, N})
<1>1. /\ conf.entries \in {"evenly", "single", "hybrid"}
      /\ conf.entryCount \in Nat /\ conf.entryCount > 0 /\ conf.hubs \in Nat
  BY DEF SearchConfig
<1>2. CASE conf.entries = "evenly"
  <2>1. list = EvenlySpaced(N, conf.entryCount)
    BY <1>2 DEF EntriesOf
  <2> QED
    BY <1>1, <2>1, EvenlySpacedIs
<1>3. CASE conf.entries = "single"
  <2>1. PICK m \in Node : list = <<m>>
    BY <1>3 DEF EntriesOf
  <2> QED
    BY <1>3, <2>1 DEF IsInjective
<1>4. CASE conf.entries = "hybrid"
  <2>1. PICK m \in Node : list \in HybridEntries(m, InDegrees, conf.entryCount, conf.hubs)
    BY <1>4 DEF EntriesOf
  <2>2. BuildInv /\ order # << >> /\ PagesWritten
    BY Served DEF IndexInv, FileInv
  <2>3. InDegrees \in [Node -> Nat]
    BY <1>4, <2>2, InDegreesAre
  <2>4. Filled(list, conf.entryCount)
    BY <1>1, <2>1, <2>3, HybridEntriesFill
  <2> QED
    BY <2>4 DEF Filled
<1> QED
  BY <1>1, <1>2, <1>3, <1>4

LEMMA SelectEntriesInv ==
  ASSUME IndexInv, Opened, SelectEntries
  PROVE  Opened'
<1>1. /\ at = "open" /\ UNCHANGED <<building, file, conf, heaps, session, result>>
      /\ at' \in {"failed", "ready"}
      /\ (at' = "failed" => entries' = entries /\ \E p \in AllPages : ~Readable(p))
      /\ (at' = "ready" => /\ entries' \in EntriesOf(conf.entries)
                           /\ conf.entries = "hybrid" => \A p \in AllPages : Readable(p))
  BY DEF SelectEntries
<1>2. /\ Shape /\ Fresh /\ Heaps /\ Batched /\ Covers
      /\ Opens /\ conf \in Searches[build] /\ entries = << >> /\ batch = << >>
  BY <1>1 DEF Opened, Shape, Fresh, Batched
<1>3. /\ visited' = visited /\ frontier' = frontier /\ best' = best /\ expanded' = expanded
      /\ stagnant' = stagnant /\ worst' = worst /\ batch' = batch
      /\ pages' = pages /\ ahead' = ahead /\ planned' = planned /\ result' = result
      /\ conf' = conf /\ build' = build /\ stage' = stage /\ graph' = graph
  BY <1>1 DEF heaps, session, building
<1>4. /\ AllPages' = AllPages /\ Opens' = Opens /\ Complete' = Complete
      /\ \A u : Found(u)' = Found(u)
      /\ \A S : BestOf(S)' = BestOf(S)
  BY <1>1, SameAnswers
<1>5. build \in Builds /\ conf \in SearchConfig /\ (Complete => \A p \in AllPages : Readable(p))
  BY <1>2, Served, ConfIs
<1>6. /\ entries' \in Seq(Node) /\ IsInjective(entries')
      /\ at' = "ready" /\ conf.entries # "single"
         => Len(entries') = Min({conf.entryCount, N})
  <2>1. << >> \in Seq(Node) /\ IsInjective(<< >>)
    BY DEF IsInjective
  <2> QED
    BY <1>1, <1>2, <1>5, <2>1, EntriesOfAre
<1>7. Shape'
  BY <1>1, <1>2, <1>3, <1>4, <1>6 DEF Shape, Places
<1>8. Fresh'
  BY <1>1, <1>2, <1>3 DEF Fresh
<1>9. Heaps'
  <2>1. (BestOf(visited))' = BestOf(visited)
    BY <1>1, <1>3 DEF BestOf, Key, Capacity
  <2> QED
    BY <1>2, <1>3, <2>1 DEF Heaps
<1>10. Batched'
  BY <1>1, <1>2, <1>3, <1>4 DEF Batched
<1>11. Covers'
  BY <1>1, <1>2, <1>3 DEF Covers, Fresh
<1>12. Stopped'
  BY <1>1 DEF Stopped
<1>13. EntriesFillUp'
  <2>1. Range(entries') \subseteq Node
    BY <1>6, RangeOfSeq
  <2>2. at' = "failed" => entries' = << >>
    BY <1>1, <1>2
  <2> QED
    BY <1>1, <1>3, <1>6, <2>1, <2>2 DEF EntriesFillUp
<1>14. PlannedIsRead'
  BY <1>1 DEF PlannedIsRead
<1>15. FailsOnlyWhenIncomplete'
  BY <1>1, <1>4, <1>5 DEF FailsOnlyWhenIncomplete
<1> QED
  BY <1>7, <1>8, <1>9, <1>10, <1>11, <1>12, <1>13, <1>14, <1>15 DEF Opened

LEMMA StartSearchInv ==
  ASSUME IndexInv, Opened, StartSearch
  PROVE  Opened'
<1> DEFINE seeds == Range(entries)
<1>1. /\ at = "ready" /\ UNCHANGED <<building, file, conf, entries, session, result>>
      /\ \/ /\ at' = "failed" /\ UNCHANGED heaps
            /\ (~Naive /\ ~conf.pq) \/ ~Loadable(seeds)
         \/ /\ at' = "search" /\ visited' = seeds /\ frontier' = seeds
            /\ best' = AddAll({}, entries)
            /\ UNCHANGED <<expanded, stagnant, worst, batch>>
  BY DEF StartSearch
<1>2. /\ Shape /\ Fresh /\ Heaps /\ Batched /\ Covers /\ EntriesFillUp
      /\ Opens /\ conf \in Searches[build] /\ batch = << >> /\ entries \in Seq(Node)
      /\ visited = {} /\ planned = {}
  BY <1>1 DEF Opened, Shape, Fresh, Batched
<1>3. /\ pages' = pages /\ ahead' = ahead /\ planned' = planned /\ result' = result
      /\ conf' = conf /\ entries' = entries
      /\ build' = build /\ stage' = stage /\ graph' = graph
  BY <1>1 DEF session, building
<1>4. /\ AllPages' = AllPages /\ Opens' = Opens /\ Complete' = Complete /\ Naive' = Naive
      /\ \A u : Found(u)' = Found(u)
      /\ \A S : BestOf(S)' = BestOf(S)
      /\ \A S : Reachable(S)' = Reachable(S)
  BY <1>1, SameAnswers
<1>5. /\ build \in Builds /\ graph \in Graphs /\ conf \in SearchConfig
      /\ Capacity \in Nat /\ Capacity > 0
      /\ \A u \in Node : Complete => Found(u)
  BY <1>2, Served, ConfIs
<1>6. seeds \in SUBSET Node
  BY <1>2, RangeOfSeq
<1> HIDE DEF seeds
<1>7. frontier = {} /\ best = {} /\ expanded = 0 /\ result = << >> /\ Cardinality({}) = 0
  <2>1. result \in Seq({})
    BY <1>2 DEF Shape
  <2>2. frontier = {}
    BY <1>2 DEF Shape
  <2>3. visited \ frontier = {}
    BY <1>2
  <2>4. best = BestOf({})
    BY <1>2 DEF Heaps
  <2>5. expanded = Cardinality({})
    BY <1>2, <2>3 DEF Heaps
  <2> QED
    BY <1>5, <2>1, <2>2, <2>4, <2>5, BestOfNothing, FS_EmptySet
<1>8. CASE at' = "failed"
  <2>1. UNCHANGED heaps /\ ((~Naive /\ ~conf.pq) \/ ~Loadable(seeds))
    BY <1>1, <1>8
  <2>2. /\ visited' = visited /\ frontier' = frontier /\ best' = best /\ expanded' = expanded
        /\ stagnant' = stagnant /\ worst' = worst /\ batch' = batch
    BY <2>1 DEF heaps
  <2>3. Shape'
    BY <1>2, <1>3, <1>4, <1>8, <2>2 DEF Shape, Places
  <2>4. Heaps'
    <3>1. (BestOf(visited))' = BestOf(visited)
      BY <1>1, <2>2 DEF BestOf, Key, Capacity
    <3> QED
      BY <1>2, <1>3, <2>2, <3>1 DEF Heaps
  <2>5. Batched' /\ Covers'
    BY <1>2, <1>3, <1>4, <1>8, <2>2 DEF Batched, Covers
  <2>6. Fresh' /\ Stopped' /\ PlannedIsRead' /\ EntriesFillUp'
    BY <1>2, <1>3, <1>8 DEF Fresh, Stopped, PlannedIsRead, EntriesFillUp
  <2>7. FailsOnlyWhenIncomplete'
    BY <1>3, <1>4, <1>5, <1>6, <2>1 DEF FailsOnlyWhenIncomplete, Loadable
  <2> QED
    BY <2>3, <2>4, <2>5, <2>6, <2>7 DEF Opened
<1>9. CASE at' = "search"
  <2>1. /\ visited' = seeds /\ frontier' = seeds /\ best' = AddAll({}, entries)
        /\ expanded' = 0 /\ stagnant' = stagnant /\ worst' = worst /\ batch' = << >>
    BY <1>1, <1>2, <1>7, <1>9
  <2>2. Shape'
    BY <1>2, <1>3, <1>4, <1>6, <1>7, <1>9, <2>1 DEF Shape, Places
  <2>3. Heaps'
    <3>1. AddAll({}, entries) = BestOf({} \cup Range(entries))
      BY <1>2, <1>5, BestOfNothing, AddAllIs
    <3>2. {} \cup Range(entries) = seeds
      BY DEF seeds
    <3>3. AddAll({}, entries) = BestOf(seeds)
      BY <3>1, <3>2, Zenon
    <3>4. (BestOf(visited))' = BestOf(seeds)
      BY <1>1, <2>1 DEF BestOf, Key, Capacity
    <3>5. Cardinality(visited' \ frontier') = 0
      <4>1. visited' \ frontier' = {}
        BY <2>1
      <4> QED
        BY <1>7, <4>1
    <3>6. expanded' + Len(batch') <= conf'.width
      BY <1>3, <1>5, <2>1 DEF SearchConfig
    <3> QED
      BY <2>1, <3>3, <3>4, <3>5, <3>6 DEF Heaps
  <2>4. Batched'
    <3>1. IsInjective(<< >>) /\ Range(<< >>) = {}
      BY DEF IsInjective, Range
    <3> QED
      BY <1>9, <2>1, <3>1 DEF Batched
  <2>5. Covers'
    <3>1. (Reachable(Range(entries)))' = Reachable(seeds)
      BY <1>3 DEF Reachable, seeds
    <3>2. seeds \subseteq Reachable(seeds)
      BY <1>5, <1>6, ReachableIs
    <3> QED
      BY <1>3, <2>1, <3>1, <3>2 DEF Covers, seeds
  <2>6. Fresh' /\ Stopped' /\ FailsOnlyWhenIncomplete'
    BY <1>9 DEF Fresh, Stopped, FailsOnlyWhenIncomplete
  <2>7. PlannedIsRead' /\ EntriesFillUp'
    BY <1>2, <1>3 DEF PlannedIsRead, EntriesFillUp
  <2> QED
    BY <2>2, <2>3, <2>4, <2>5, <2>6, <2>7 DEF Opened
<1> QED
  BY <1>1, <1>8, <1>9

\* What holds of an open index and of a search on it.
LEMMA WhileOpen ==
  ASSUME IndexInv, Opened, at # "failed"
  PROVE  /\ Opens /\ build \in Builds /\ graph \in Graphs /\ conf \in SearchConfig
         /\ Capacity \in Nat /\ Capacity > 0 /\ conf.width \in Nat
         /\ visited \in SUBSET Node /\ frontier \in SUBSET visited /\ best \in SUBSET visited
         /\ expanded \in Nat /\ expanded <= conf.width /\ batch \in Seq(Node)
         /\ \A u \in Node : /\ PageOf(u) \in AllPages
                            /\ Complete => Found(u)
                            /\ Found(u) => RowOf(u) = graph[u]
<1>1. Opens /\ conf \in Searches[build] /\ visited \in SUBSET Node /\ frontier \in SUBSET visited
      /\ expanded \in Nat /\ batch \in Seq(Node)
  BY DEF Opened, Shape
<1>2. /\ build \in Builds /\ graph \in Graphs
      /\ \A u \in Node : /\ PageOf(u) \in AllPages
                         /\ Complete => Found(u)
                         /\ Found(u) => RowOf(u) = graph[u]
  BY <1>1, Served
<1>3. conf \in SearchConfig /\ Capacity \in Nat /\ Capacity > 0
  BY <1>1, <1>2, ConfIs
<1>4. conf.width \in Nat
  BY <1>3 DEF SearchConfig
<1>5. best \in SUBSET visited
  <2>1. best = BestOf(visited)
    BY DEF Opened, Heaps
  <2>2. IsBest(BestOf(visited), visited)
    BY <1>1, <1>3, BestOfIs
  <2> QED
    BY <2>1, <2>2 DEF IsBest
<1>6. expanded <= conf.width
  <2>1. Len(batch) \in Nat /\ expanded + Len(batch) <= conf.width
    BY <1>1, LenProperties DEF Opened, Heaps
  <2> QED
    BY <1>1, <1>4, <2>1
<1> QED
  BY <1>1, <1>2, <1>3, <1>4, <1>5, <1>6

\* What a step keeps that leaves the heaps alone.
SameSearch ==
  /\ conf' = conf /\ entries' = entries /\ build' = build /\ stage' = stage /\ graph' = graph
  /\ visited' = visited /\ frontier' = frontier /\ best' = best /\ expanded' = expanded
  /\ stagnant' = stagnant /\ worst' = worst
  /\ AllPages' = AllPages /\ Opens' = Opens /\ Complete' = Complete /\ Naive' = Naive
  /\ Reranks' = Reranks /\ (\A u : Found(u)' = Found(u))
  /\ Exhausted' = Exhausted /\ StopsWell' = StopsWell /\ FinalOrder' = FinalOrder
  /\ (BestOf(visited))' = BestOf(visited)
  /\ (Reachable(Range(entries)))' = Reachable(Range(entries))

LEMMA SearchIsSame ==
  ASSUME UNCHANGED <<building, file, conf, entries, visited, frontier, best,
                     expanded, stagnant, worst>>
  PROVE  SameSearch
<1>1. /\ conf' = conf /\ entries' = entries /\ build' = build /\ stage' = stage /\ graph' = graph
      /\ visited' = visited /\ frontier' = frontier /\ best' = best /\ expanded' = expanded
      /\ stagnant' = stagnant /\ worst' = worst
  BY DEF building
<1>2. /\ Key' = Key /\ Capacity' = Capacity
      /\ AllPages' = AllPages /\ Opens' = Opens /\ Complete' = Complete /\ Naive' = Naive
      /\ Reranks' = Reranks /\ (\A u : Found(u)' = Found(u))
  BY SameAnswers
<1>3. Exhausted' = Exhausted
  BY <1>1 DEF Exhausted
<1>4. StopsWell' = StopsWell
  <2>1. Full' = Full
    BY <1>1, <1>2 DEF Full
  <2> QED
    BY <1>1, <1>2, <2>1 DEF StopsWell
<1>5. FinalOrder' = FinalOrder
  BY <1>1, <1>2 DEF FinalOrder
<1>6. (BestOf(visited))' = BestOf(visited)
  BY <1>1, <1>2 DEF BestOf
<1>7. (Reachable(Range(entries)))' = Reachable(Range(entries))
  BY <1>1 DEF Reachable
<1> QED
  BY <1>1, <1>2, <1>3, <1>4, <1>5, <1>6, <1>7 DEF SameSearch

LEMMA LoadBatchInv ==
  ASSUME IndexInv, Opened, LoadBatch
  PROVE  Opened'
<1> DEFINE want == PagesOf(Range(NextBatch))
<1>1. /\ at = "search"
      /\ UNCHANGED <<building, file, conf, entries, visited, frontier, best,
                     expanded, stagnant, worst, planned, result>>
      /\ \/ NextBatch = << >> /\ at' = "rerank" /\ UNCHANGED <<batch, pages, ahead>>
         \/ /\ NextBatch # << >> /\ at' = "failed" /\ UNCHANGED <<batch, pages, ahead>>
            /\ \E u \in Range(NextBatch) : ~Found(u)
         \/ /\ NextBatch # << >> /\ at' = "expand" /\ batch' = NextBatch
            /\ pages' = pages \cup want /\ ahead' = ahead \ want
            /\ \A u \in Range(NextBatch) : Found(u)
  BY DEF LoadBatch
<1>2. /\ Shape /\ Heaps /\ Batched /\ Covers /\ EntriesFillUp /\ PlannedIsRead
      /\ batch = << >>
  BY <1>1 DEF Opened, Batched
<1>3. SameSearch /\ planned' = planned /\ result' = result
  BY <1>1, SearchIsSame
<1>4. /\ build \in Builds /\ conf \in SearchConfig /\ Opens
      /\ Capacity \in Nat /\ Capacity > 0 /\ conf.width \in Nat
      /\ visited \in SUBSET Node /\ frontier \in SUBSET Node /\ best \in SUBSET Node
      /\ expanded \in Nat /\ expanded <= conf.width
      /\ \A u \in Node : PageOf(u) \in AllPages /\ (Complete => Found(u))
  BY <1>1, WhileOpen
<1>5. /\ NextBatch \in Seq(Node) /\ IsInjective(NextBatch)
      /\ Range(NextBatch) \subseteq frontier
      /\ expanded + Len(NextBatch) <= conf.width
      /\ NextBatch = << >> => \/ Exhausted \/ frontier = {} \/ expanded = conf.width
                              \/ ShouldStop(Nearest(Key, frontier))
  BY <1>4, NextBatchIs
<1>6. want \in SUBSET AllPages
  BY <1>4, <1>5 DEF PagesOf
<1> HIDE DEF want
<1>7. /\ at' \in {"rerank", "failed", "expand"}
      /\ batch' \in Seq(Node) /\ pages' \in SUBSET AllPages /\ ahead' \in SUBSET AllPages
      /\ pages \cup ahead \subseteq pages' \cup ahead'
  BY <1>1, <1>2, <1>5, <1>6 DEF Shape
<1>8. Shape'
  BY <1>2, <1>3, <1>4, <1>7 DEF Shape, SameSearch, Places
<1>9. Fresh' /\ EntriesFillUp'
  BY <1>2, <1>3, <1>7 DEF Fresh, EntriesFillUp, SameSearch
<1>10. Heaps'
  <2>1. expanded' + Len(batch') <= conf'.width
    BY <1>1, <1>2, <1>3, <1>5 DEF Heaps, SameSearch
  <2> QED
    BY <1>2, <1>3, <2>1 DEF Heaps, SameSearch
<1>11. Batched'
  BY <1>1, <1>2, <1>3, <1>5 DEF Batched, SameSearch
<1>12. Covers'
  BY <1>1, <1>2, <1>3 DEF Covers, SameSearch
<1>13. Stopped'
  <2>1. CASE at' = "rerank"
    <3>1. NextBatch = << >>
      BY <1>1, <2>1
    <3>2. frontier # {} /\ expanded < conf.width /\ ~Exhausted => StopsWell
      BY <1>4, <1>5, <3>1, StoppedWell
    <3> QED
      BY <1>3, <2>1, <3>2 DEF Stopped, SameSearch
  <2>2. CASE at' \in {"failed", "expand"}
    BY <2>2 DEF Stopped
  <2> QED
    BY <1>7, <2>1, <2>2
<1>14. PlannedIsRead'
  BY <1>1, <1>2, <1>3, <1>7 DEF PlannedIsRead, SameSearch
<1>15. FailsOnlyWhenIncomplete'
  BY <1>1, <1>3, <1>4, <1>5 DEF FailsOnlyWhenIncomplete, SameSearch
<1> QED
  BY <1>8, <1>9, <1>10, <1>11, <1>12, <1>13, <1>14, <1>15 DEF Opened

LEMMA WiderSeq ==
  ASSUME NEW S, NEW T, S \subseteq T, NEW s \in Seq(S)
  PROVE  s \in Seq(T)
<1>1. Len(s) \in Nat /\ s \in [1 .. Len(s) -> S]
  BY LenProperties
<1>2. s \in [1 .. Len(s) -> T]
  BY <1>1
<1> QED
  BY <1>1, <1>2

\* What an expansion asks for is read ahead.
LEMMA PrefetchIs ==
  ASSUME build \in Builds, conf \in SearchConfig,
         pages \in SUBSET AllPages, ahead \in SUBSET AllPages, planned \in SUBSET AllPages,
         NEW want \in SUBSET AllPages,
         \/ SubmitDirect(want)
         \/ \E cands \in SetToSeqs(want) : SubmitPlan(cands, conf.reuse)
         \/ UNCHANGED <<ahead, planned>>
  PROVE  /\ ahead' \in SUBSET AllPages /\ planned' \in SUBSET AllPages
         /\ ahead \subseteq ahead'
         /\ conf.budget > 0 => planned' \subseteq planned \cup pages \cup ahead'
<1>1. \A s \in SetToSeqs(want) : s \in Seq(AllPages)
  <2> TAKE s \in SetToSeqs(want)
  <2>1. s \in Seq(want)
    BY PagesFinite, SetToSeqsAre
  <2> QED
    BY <2>1, WiderSeq
<1>2. CASE SubmitDirect(want)
  <2>1. PICK s \in SetToSeqs(want) : ahead' = Queue(s) /\ planned' = planned
    BY <1>2 DEF SubmitDirect
  <2>2. Queue(s) \in SUBSET AllPages /\ ahead \subseteq Queue(s)
    BY <1>1, QueueIs
  <2> QED
    BY <2>1, <2>2
<1>3. CASE \E cands \in SetToSeqs(want) : SubmitPlan(cands, conf.reuse)
  <2>1. PICK cands \in SetToSeqs(want) : SubmitPlan(cands, conf.reuse)
    BY <1>3
  <2>2. cands \in Seq(AllPages) /\ conf.reuse \in Nat
    BY <1>1 DEF SearchConfig
  <2> QED
    BY <2>1, <2>2, SubmitPlanIs
<1>4. CASE UNCHANGED <<ahead, planned>>
  BY <1>4
<1> QED
  BY <1>2, <1>3, <1>4

\* An expansion takes candidates, and no more than search_width in all.
Advance ==
  /\ expanded < expanded' /\ expanded' <= conf.width
  /\ expanded' = Cardinality(visited' \ frontier')
  /\ (visited \ frontier) \subseteq (visited' \ frontier')

\* What an expansion of the candidates B makes of the heaps.
Expands(B) ==
  /\ UNCHANGED <<building, file, conf, entries, result>>
  /\ B \in SUBSET frontier
  /\ LET new == (UNION {Range(graph[u]) : u \in B}) \ visited
     IN  /\ visited' = visited \cup new /\ frontier' = (frontier \ B) \cup new
         /\ best' = BestOf(visited \cup new)
  /\ expanded' = expanded + Cardinality(B) /\ Cardinality(B) \in Nat
  /\ expanded < expanded' /\ expanded' <= conf.width
  /\ stagnant' \in Nat /\ worst' \in Nat \cup {-1} /\ batch' = << >>
  /\ at' = "search" /\ pages' = pages
  /\ ahead' \in SUBSET AllPages /\ planned' \in SUBSET AllPages
  /\ ahead \subseteq ahead'
  /\ conf.budget > 0 => planned' \subseteq planned \cup pages \cup ahead'

LEMMA ExpandsInv ==
  ASSUME IndexInv, Opened, at \in {"search", "expand"}, NEW B, Expands(B)
  PROVE  Opened' /\ Advance
<1> DEFINE new == (UNION {Range(graph[u]) : u \in B}) \ visited
<1>1. /\ UNCHANGED <<building, file, conf, entries, result>>
      /\ B \in SUBSET frontier
      /\ visited' = visited \cup new /\ frontier' = (frontier \ B) \cup new
      /\ best' = BestOf(visited \cup new)
      /\ expanded' = expanded + Cardinality(B) /\ Cardinality(B) \in Nat
      /\ expanded < expanded' /\ expanded' <= conf.width
      /\ stagnant' \in Nat /\ worst' \in Nat \cup {-1} /\ batch' = << >>
      /\ at' = "search" /\ pages' = pages
      /\ ahead' \in SUBSET AllPages /\ planned' \in SUBSET AllPages
      /\ ahead \subseteq ahead'
      /\ (conf.budget > 0 => planned' \subseteq planned \cup pages \cup ahead')
  BY DEF Expands
<1>2. /\ Shape /\ Heaps /\ Covers /\ EntriesFillUp /\ PlannedIsRead
  BY DEF Opened
<1>3. /\ conf' = conf /\ entries' = entries /\ result' = result
      /\ build' = build /\ stage' = stage /\ graph' = graph
  BY <1>1 DEF building
<1>4. /\ Key' = Key /\ Capacity' = Capacity /\ AllPages' = AllPages /\ Opens' = Opens
  BY <1>1, SameAnswers
<1>5. /\ graph \in Graphs /\ visited \in SUBSET Node /\ frontier \in SUBSET visited
      /\ expanded \in Nat /\ conf.width \in Nat
  BY WhileOpen
<1>6. Expansion(visited, frontier, B, visited \cup new, (frontier \ B) \cup new)
  <2>1. \A u \in visited \ frontier : Range(graph[u]) \subseteq visited
    BY <1>2 DEF Covers
  <2>2. new = (UNION {Range(graph[u]) : u \in B}) \ visited
    OBVIOUS
  <2>3. B \in SUBSET frontier
    BY <1>1
  <2> HIDE DEF new
  <2> QED
    BY <1>5, <2>1, <2>2, <2>3, ExpansionIs
<1> HIDE DEF new
<1>7. Expansion(visited, frontier, B, visited', frontier')
  BY <1>1, <1>6
<1>8. /\ visited' \in SUBSET Node /\ frontier' \in SUBSET visited' /\ visited \subseteq visited'
      /\ visited \ frontier \subseteq visited' \ frontier'
      /\ Cardinality(visited' \ frontier') = Cardinality(visited \ frontier) + Cardinality(B)
      /\ \A u \in visited' \ frontier' : Range(graph[u]) \subseteq visited'
      /\ \A S : visited \subseteq Reachable(S) => visited' \subseteq Reachable(S)
  BY <1>7 DEF Expansion
<1>9. expanded' = Cardinality(visited' \ frontier')
  BY <1>1, <1>2, <1>8 DEF Heaps
<1>10. Advance
  BY <1>1, <1>8, <1>9 DEF Advance
<1>11. << >> \in Seq(Node) /\ IsInjective(<< >>) /\ Range(<< >>) = {} /\ Len(<< >>) = 0
  BY DEF IsInjective, Range
<1>12. Shape'
  <2>1. result' \in Seq(visited')
    BY <1>2, <1>3, <1>8, WiderSeq DEF Shape
  <2>2. expanded' \in Nat
    BY <1>1, <1>5
  <2> QED
    BY <1>1, <1>2, <1>3, <1>4, <1>8, <1>11, <2>1, <2>2 DEF Shape, Places
<1>13. Fresh' /\ Stopped' /\ FailsOnlyWhenIncomplete' /\ EntriesFillUp'
  BY <1>1, <1>2, <1>3 DEF Fresh, Stopped, FailsOnlyWhenIncomplete, EntriesFillUp
<1>14. Heaps'
  <2>1. (BestOf(visited))' = BestOf(visited \cup new)
    BY <1>1, <1>4 DEF BestOf
  <2>2. expanded' + Len(batch') <= conf'.width
    BY <1>1, <1>3, <1>5, <1>11
  <2> QED
    BY <1>1, <1>9, <2>1, <2>2 DEF Heaps
<1>15. Batched'
  BY <1>1, <1>11 DEF Batched
<1>16. Covers'
  <2>1. Range(entries) \subseteq visited
    BY <1>2 DEF Covers
  <2>2. visited' \subseteq Reachable(Range(entries))
    BY <1>2, <1>8 DEF Covers
  <2>3. (Reachable(Range(entries)))' = Reachable(Range(entries))
    BY <1>3 DEF Reachable
  <2> QED
    BY <1>1, <1>3, <1>8, <2>1, <2>2, <2>3 DEF Covers
<1>17. PlannedIsRead'
  BY <1>1, <1>2, <1>3 DEF PlannedIsRead
<1> QED
  BY <1>10, <1>12, <1>13, <1>14, <1>15, <1>16, <1>17 DEF Opened

LEMMA ExpandInv ==
  ASSUME IndexInv, Opened, Expand
  PROVE  Opened' /\ Advance
<1> DEFINE rows == NewNeighbours
           want == PrefetchPages(rows)
           B == Range(batch)
           led == UNION {Range(rows[i]) : i \in DOMAIN rows}
           new == (UNION {Range(graph[u]) : u \in B}) \ visited
           start == [best |-> best, stagnant |-> stagnant, worst |-> worst]
           end == EnterAll(start, rows)
<1>1. /\ at = "expand" /\ at' = "search"
      /\ UNCHANGED <<building, file, conf, entries, pages, result>>
      /\ visited' = visited \cup led /\ frontier' = (frontier \ B) \cup led
      /\ best' = end.best /\ stagnant' = end.stagnant /\ worst' = end.worst
      /\ expanded' = expanded + Len(batch) /\ batch' = << >>
  BY DEF Expand, ExpandHeaps, EnterAll, Entered
<1>2. \/ SubmitDirect(want)
      \/ \E cands \in SetToSeqs(want) : SubmitPlan(cands, conf.reuse)
      \/ UNCHANGED <<ahead, planned>>
  BY DEF Expand
<1>3. /\ Shape /\ Heaps /\ Batched
      /\ batch # << >> /\ IsInjective(batch) /\ B \in SUBSET frontier
      /\ \A u \in B : Found(u)
  BY <1>1 DEF Opened, Batched
<1>4. /\ build \in Builds /\ graph \in Graphs /\ conf \in SearchConfig
      /\ Capacity \in Nat /\ Capacity > 0 /\ conf.width \in Nat
      /\ visited \in SUBSET Node /\ frontier \in SUBSET Node /\ best \in SUBSET Node
      /\ expanded \in Nat /\ batch \in Seq(Node)
      /\ \A u \in Node : PageOf(u) \in AllPages /\ (Found(u) => RowOf(u) = graph[u])
  BY <1>1, WhileOpen
<1>5. \A u \in B : RowOf(u) = graph[u]
  BY <1>3, <1>4
<1>6. /\ rows \in Seq(Seq(Node)) /\ Len(rows) = Len(batch) /\ DOMAIN rows = 1 .. Len(batch)
      /\ UNION {Range(rows[i]) : i \in 1 .. Len(batch)} = new
  BY <1>4, <1>5, NewNeighboursAre
<1> HIDE DEF rows
<1>7. led = new /\ UNION {Range(rows[i]) : i \in 1 .. Len(rows)} = new
  BY <1>6
<1>8. end \in HeapStates /\ end.best = BestOf(visited \cup new)
  <2>1. start \in HeapStates /\ start.best = BestOf(visited)
    BY <1>3, <1>4 DEF HeapStates, Shape, Heaps
  <2> HIDE DEF start, led, new
  <2>2. /\ end \in HeapStates
        /\ end.best = BestOf(visited \cup UNION {Range(rows[i]) : i \in 1 .. Len(rows)})
    BY <1>4, <1>6, <2>1, EnterAllIs
  <2> HIDE DEF end
  <2> QED
    BY <1>7, <2>2, Zenon
<1> HIDE DEF end, start
<1>9. /\ Cardinality(B) = Len(batch) /\ Len(batch) \in Nat /\ Len(batch) > 0
  BY <1>3, <1>4, InjectiveLength, LenProperties
<1>10. expanded < expanded' /\ expanded' <= conf.width
  BY <1>1, <1>3, <1>4, <1>9 DEF Heaps
<1>11. want \in SUBSET AllPages
  BY <1>4, <1>6, PrefetchPagesAre
<1> HIDE DEF want
<1>12. pages \in SUBSET AllPages /\ ahead \in SUBSET AllPages /\ planned \in SUBSET AllPages
  BY <1>3 DEF Shape
<1>13. /\ ahead' \in SUBSET AllPages /\ planned' \in SUBSET AllPages
       /\ ahead \subseteq ahead'
       /\ (conf.budget > 0 => planned' \subseteq planned \cup pages \cup ahead')
  BY <1>2, <1>4, <1>11, <1>12, PrefetchIs
<1>14. stagnant' \in Nat /\ worst' \in Nat \cup {-1}
  BY <1>1, <1>8 DEF HeapStates
<1>15. /\ visited' = visited \cup new /\ frontier' = (frontier \ B) \cup new
       /\ best' = BestOf(visited \cup new)
       /\ expanded' = expanded + Cardinality(B) /\ Cardinality(B) \in Nat
  BY <1>1, <1>7, <1>8, <1>9
<1> HIDE DEF B, led
<1>16. Expands(B)
  BY <1>1, <1>3, <1>10, <1>13, <1>14, <1>15 DEF Expands
<1> QED
  BY <1>1, <1>16, ExpandsInv

\* A single node is expanded by the naive index.
LEMMA NaiveExpandInv ==
  ASSUME IndexInv, Opened, NaiveExpand
  PROVE  Opened' /\ (at' = "search" => Advance)
<1> DEFINE u == Nearest(Key, frontier)
           fresh == Range(RowOf(u)) \ visited
           B == AddAll(best, Keep(RowOf(u), fresh))
           s == Stagnation([stagnant |-> stagnant, worst |-> worst], B)
<1>1. /\ at = "search" /\ UNCHANGED <<building, file, conf, entries, session, result>>
      /\ \/ /\ at' = "rerank" /\ UNCHANGED heaps
            /\ frontier = {} \/ expanded >= conf.width \/ Exhausted \/ ShouldStop(u)
         \/ /\ at' = "failed" /\ UNCHANGED heaps
            /\ frontier # {} /\ (~Found(u) \/ ~Loadable(fresh))
         \/ /\ frontier # {} /\ ~(expanded >= conf.width) /\ Found(u)
            /\ visited' = visited \cup fresh /\ frontier' = (frontier \ {u}) \cup fresh
            /\ best' = B /\ expanded' = expanded + 1
            /\ stagnant' = s.stagnant /\ worst' = s.worst
            /\ at' = at /\ batch' = batch
  BY DEF NaiveExpand
<1>2. /\ Shape /\ Heaps /\ Batched /\ Covers /\ EntriesFillUp /\ PlannedIsRead
      /\ batch = << >>
  BY <1>1 DEF Opened, Batched
<1>3. pages' = pages /\ ahead' = ahead /\ planned' = planned /\ result' = result
  BY <1>1 DEF session
<1>4. /\ build \in Builds /\ graph \in Graphs /\ conf \in SearchConfig
      /\ Capacity \in Nat /\ Capacity > 0 /\ conf.width \in Nat
      /\ visited \in SUBSET Node /\ frontier \in SUBSET Node /\ best \in SUBSET Node
      /\ expanded \in Nat
      /\ \A v \in Node : /\ PageOf(v) \in AllPages
                         /\ Complete => Found(v)
                         /\ Found(v) => RowOf(v) = graph[v]
  BY <1>1, WhileOpen
<1>5. frontier # {} => u \in frontier
  BY <1>4, KeyIs, NearestIs
<1>6. \A v \in Node : graph[v] \in Seq(Node) /\ Range(graph[v]) \in SUBSET Node
  BY <1>4, RowTypes
<1>7. CASE at' \in {"rerank", "failed"}
  <2>1. /\ UNCHANGED heaps
        /\ \/ /\ at' = "rerank"
              /\ frontier = {} \/ expanded >= conf.width \/ Exhausted \/ ShouldStop(u)
           \/ at' = "failed" /\ frontier # {} /\ (~Found(u) \/ ~Loadable(fresh))
    BY <1>1, <1>7
  <2>2. batch' = batch /\ SameSearch
    BY <1>1, <2>1, SearchIsSame DEF heaps
  <2>3. at' = "failed" => ~Complete
    <3>1. Found(u) /\ frontier # {} => fresh \in SUBSET Node
      BY <1>4, <1>5, <1>6
    <3> HIDE DEF fresh
    <3> QED
      BY <1>4, <1>5, <1>7, <2>1, <3>1 DEF Loadable
  <2>4. Shape' /\ Heaps' /\ Batched' /\ Covers'
    BY <1>1, <1>2, <1>3, <1>7, <2>2 DEF Shape, Heaps, Batched, Covers, SameSearch, Places
  <2>5. Stopped'
    <3>1. CASE at' = "rerank"
      <4>1. frontier # {} /\ expanded < conf.width /\ ~Exhausted => ShouldStop(u)
        BY <1>4, <2>1, <3>1
      <4>2. frontier # {} /\ expanded < conf.width /\ ~Exhausted => StopsWell
        BY <1>4, <4>1, StoppedWell
      <4> QED
        BY <2>2, <3>1, <4>2 DEF Stopped, SameSearch
    <3>2. CASE at' = "failed"
      BY <3>2 DEF Stopped
    <3> QED
      BY <1>7, <3>1, <3>2
  <2>6. Fresh' /\ EntriesFillUp' /\ PlannedIsRead' /\ FailsOnlyWhenIncomplete'
    BY <1>1, <1>2, <1>3, <1>7, <2>2, <2>3
    DEF Fresh, EntriesFillUp, PlannedIsRead, FailsOnlyWhenIncomplete, SameSearch
  <2> QED
    BY <1>7, <2>4, <2>5, <2>6 DEF Opened
<1>8. CASE ~(at' \in {"rerank", "failed"})
  <2>1. /\ frontier # {} /\ ~(expanded >= conf.width) /\ Found(u)
        /\ visited' = visited \cup fresh /\ frontier' = (frontier \ {u}) \cup fresh
        /\ best' = B /\ expanded' = expanded + 1
        /\ stagnant' = s.stagnant /\ worst' = s.worst
        /\ at' = "search" /\ batch' = << >>
    BY <1>1, <1>2, <1>8
  <2>2. u \in frontier /\ u \in Node
    BY <1>4, <1>5, <2>1
  <2> HIDE DEF u
  <2>3. RowOf(u) \in Seq(Node) /\ Range(RowOf(u)) = Range(graph[u])
    BY <1>4, <1>6, <2>1, <2>2
  <2> DEFINE new == (UNION {Range(graph[v]) : v \in {u}}) \ visited
  <2>4. fresh = new
    BY <2>3
  <2>5. B = BestOf(visited \cup new) /\ B \in SUBSET Node
    <3>1. Keep(RowOf(u), fresh) \in Seq(Node) /\ Range(Keep(RowOf(u), fresh)) = fresh
      BY <2>3, KeepIs
    <3>2. best = BestOf(visited)
      BY <1>2 DEF Heaps
    <3> HIDE DEF new, fresh
    <3>3. B = BestOf(visited \cup Range(Keep(RowOf(u), fresh)))
      BY <1>4, <3>1, <3>2, AddAllIs
    <3>4. B = BestOf(visited \cup new)
      BY <2>4, <3>1, <3>3, Zenon
    <3>5. visited \cup new \in SUBSET Node
      BY <1>4, <1>6, <2>2 DEF new
    <3>6. IsBest(BestOf(visited \cup new), visited \cup new)
      BY <1>4, <3>5, BestOfIs
    <3> QED
      BY <3>4, <3>5, <3>6 DEF IsBest
  <2> HIDE DEF B, fresh
  <2>6. s.stagnant \in Nat /\ s.worst \in Nat \cup {-1}
    <3>1. stagnant \in Nat /\ worst \in Nat \cup {-1}
      BY <1>2 DEF Shape
    <3> QED
      BY <1>4, <2>5, <3>1, StagnationIs
  <2> HIDE DEF s
  <2>7. Cardinality({u}) = 1
    BY FS_Singleton
  <2>8. expanded < expanded' /\ expanded' <= conf.width /\ expanded' = expanded + 1
    BY <1>4, <2>1
  <2>9. pages \in SUBSET AllPages /\ ahead \in SUBSET AllPages /\ planned \in SUBSET AllPages
    BY <1>2 DEF Shape
  <2>10. /\ visited' = visited \cup new /\ frontier' = (frontier \ {u}) \cup new
         /\ best' = BestOf(visited \cup new)
    BY <2>1, <2>4, <2>5
  <2>11. Expands({u})
    BY <1>1, <1>3, <2>1, <2>2, <2>6, <2>7, <2>8, <2>9, <2>10 DEF Expands
  <2> QED
    BY <1>1, <2>11, ExpandsInv
<1> QED
  BY <1>7, <1>8

LEMMA PlanRerankInv ==
  ASSUME IndexInv, Opened, PlanRerank
  PROVE  Opened'
<1> DEFINE topk == Take(ByDistance(Key, best), conf.rerank)
           on == [i \in DOMAIN topk |-> PageOf(topk[i])]
           cands == Keep(on, AllPages \ pages)
<1>1. /\ at = "rerank" /\ at' = "load"
      /\ UNCHANGED <<building, file, conf, entries, heaps, pages, result>>
      /\ SubmitPlan(cands, 1) \/ UNCHANGED <<ahead, planned>>
  BY DEF PlanRerank
<1>2. /\ Shape /\ Heaps /\ Batched /\ Covers /\ Stopped /\ EntriesFillUp /\ PlannedIsRead
  BY DEF Opened
<1>3. batch' = batch /\ pages' = pages /\ result' = result /\ SameSearch
  BY <1>1, SearchIsSame DEF heaps
<1>4. /\ build \in Builds /\ conf \in SearchConfig /\ best \in SUBSET Node
      /\ \A u \in Node : PageOf(u) \in AllPages
  BY <1>1, WhileOpen
<1>5. pages \in SUBSET AllPages /\ ahead \in SUBSET AllPages /\ planned \in SUBSET AllPages
  BY <1>2 DEF Shape
<1>6. cands \in Seq(AllPages)
  <2>1. ByDistance(Key, best) \in Seq(Node)
    BY <1>4, KeyIs, ByDistanceLists, WiderSeq
  <2>2. conf.rerank \in Nat
    BY <1>4 DEF SearchConfig
  <2>3. topk \in Seq(Node)
    BY <2>1, <2>2, TakeIs
  <2> HIDE DEF topk
  <2>4. on \in Seq(AllPages)
    <3>1. Len(topk) \in Nat /\ DOMAIN topk = 1 .. Len(topk)
          /\ \A i \in 1 .. Len(topk) : topk[i] \in Node
      BY <2>3, LenProperties
    <3>2. on \in [1 .. Len(topk) -> AllPages]
      BY <1>4, <3>1
    <3> QED
      BY <3>1, <3>2
  <2> HIDE DEF on
  <2> QED
    BY <2>4, KeepIs
<1> HIDE DEF cands
<1>7. /\ ahead' \in SUBSET AllPages /\ planned' \in SUBSET AllPages
      /\ ahead \subseteq ahead'
      /\ (conf.budget > 0 => planned' \subseteq planned \cup pages \cup ahead')
  <2>1. CASE SubmitPlan(cands, 1)
    BY <1>4, <1>5, <1>6, <2>1, SubmitPlanIs
  <2>2. CASE UNCHANGED <<ahead, planned>>
    BY <1>5, <2>2
  <2> QED
    BY <1>1, <2>1, <2>2
<1>8. Shape' /\ Heaps' /\ Batched' /\ Covers'
  BY <1>1, <1>2, <1>3, <1>7 DEF Shape, Heaps, Batched, Covers, SameSearch, Places
<1>9. Fresh' /\ Stopped' /\ EntriesFillUp' /\ FailsOnlyWhenIncomplete'
  BY <1>1, <1>2, <1>3 DEF Fresh, Stopped, EntriesFillUp, FailsOnlyWhenIncomplete, SameSearch
<1>10. PlannedIsRead'
  BY <1>1, <1>2, <1>3, <1>7 DEF PlannedIsRead, SameSearch
<1> QED
  BY <1>8, <1>9, <1>10 DEF Opened

LEMMA FinishInv ==
  ASSUME IndexInv, Opened, Finish
  PROVE  Opened'
<1> DEFINE read == IF Reranks THEN PagesOf(best) ELSE {}
<1>1. /\ at = "load" /\ UNCHANGED <<building, file, conf, entries, heaps, planned>>
      /\ \/ /\ at' = "failed" /\ UNCHANGED <<pages, ahead, result>>
            /\ \E u \in best : ~Found(u)
         \/ /\ at' = "done" /\ result' = FinalOrder
            /\ pages' = pages \cup read /\ ahead' = {}
  BY DEF Finish
<1>2. /\ Shape /\ Heaps /\ Batched /\ Covers /\ Stopped /\ EntriesFillUp
  BY DEF Opened
<1>3. batch' = batch /\ planned' = planned /\ SameSearch
  BY <1>1, SearchIsSame DEF heaps
<1>4. /\ conf \in SearchConfig /\ visited \in SUBSET Node
      /\ best \in SUBSET Node /\ best \in SUBSET visited
      /\ \A u \in Node : PageOf(u) \in AllPages /\ (Complete => Found(u))
  BY <1>1, WhileOpen
<1>5. FinalOrder \in Seq(visited)
  <2> DEFINE d == IF Reranks THEN Exact ELSE Key
             list == ByDistance(d, best)
  <2>1. d \in [Node -> Nat] /\ conf.topK \in Nat
    BY <1>4, KeyIs, SearchAssumption DEF SearchConfig
  <2> HIDE DEF d
  <2>2. list \in Seq(best)
    BY <1>4, <2>1, ByDistanceLists
  <2>3. FinalOrder = Take(list, conf.topK)
    BY DEF FinalOrder, d
  <2> HIDE DEF list
  <2>4. FinalOrder \in Seq(best)
    BY <2>1, <2>2, <2>3, TakeIs
  <2> QED
    BY <1>4, <2>4, WiderSeq
<1>6. read \in SUBSET AllPages
  BY <1>4 DEF PagesOf
<1> HIDE DEF read
<1>7. /\ at' \in {"failed", "done"} /\ result' \in Seq(visited)
      /\ pages' \in SUBSET AllPages /\ ahead' \in SUBSET AllPages
      /\ (at' = "done" => result' = FinalOrder)
      /\ (at' = "failed" => ~Complete)
  BY <1>1, <1>2, <1>4, <1>5, <1>6 DEF Shape
<1>8. Shape' /\ Heaps' /\ Batched' /\ Covers'
  BY <1>1, <1>2, <1>3, <1>7 DEF Shape, Heaps, Batched, Covers, SameSearch, Places
<1>9. Stopped'
  BY <1>1, <1>2, <1>3, <1>7 DEF Stopped, SameSearch
<1>10. Fresh' /\ PlannedIsRead' /\ EntriesFillUp' /\ FailsOnlyWhenIncomplete'
  BY <1>2, <1>3, <1>7
  DEF Fresh, PlannedIsRead, EntriesFillUp, FailsOnlyWhenIncomplete, SameSearch
<1> QED
  BY <1>8, <1>9, <1>10 DEF Opened

\* A build that has not ended is not opened.
LEMMA BuildingIsOver ==
  ASSUME Opened, BuildStep \/ WriteStep \/ BuildStops
  PROVE  FALSE
<1>1. stage \in {"ready", "failed"}
  BY DEF Opened, Shape
<1> QED
  BY <1>1 DEF BuildStep, WriteStep, BuildStops, Begin, BuildRow, RowsDone,
     InsertNode, InsertDone, ReversePass, ReverseDone, Patch, ChooseOrder,
     WriteHeader, WritePage, CloseFile

\* Before the index is opened the search has not begun.
LEMMA SearchNext ==
  IndexInv /\ SearchInv /\ [Next]_vars => SearchInv'
<1> SUFFICES ASSUME IndexInv, SearchInv, [Next]_vars
             PROVE  SearchInv'
  OBVIOUS
<1>1. CASE UNCHANGED <<at, query>> /\ AtStart
  BY <1>1 DEF AtStart, SearchInv, query, heaps, session
<1>3. CASE UNCHANGED vars
  <2>1. CASE AtStart
    BY <1>1, <1>3, <2>1 DEF vars
  <2>2. CASE Opened
    <3>1. /\ UNCHANGED <<building, file, conf, entries, visited, frontier, best,
                         expanded, stagnant, worst>>
          /\ at' = at /\ batch' = batch /\ pages' = pages /\ ahead' = ahead
          /\ planned' = planned /\ result' = result
      BY <1>3 DEF vars, query, heaps, session
    <3>2. SameSearch
      BY <3>1, SearchIsSame
    <3>3. Shape' /\ Heaps' /\ Batched' /\ Covers'
      BY <2>2, <3>1, <3>2 DEF Opened, Shape, Heaps, Batched, Covers, SameSearch
    <3>4. Fresh' /\ Stopped' /\ PlannedIsRead'
      BY <2>2, <3>1, <3>2 DEF Opened, Fresh, Stopped, PlannedIsRead, SameSearch
    <3>5. EntriesFillUp' /\ FailsOnlyWhenIncomplete'
      BY <2>2, <3>1, <3>2 DEF Opened, EntriesFillUp, FailsOnlyWhenIncomplete, SameSearch
    <3> QED
      BY <3>3, <3>4, <3>5 DEF Opened, SearchInv
  <2> QED
    BY <2>1, <2>2 DEF SearchInv
<1>4. CASE SearchStep
  <2>1. CASE AtStart
    <3>1. at = "closed"
      BY <2>1 DEF AtStart
    <3>2. OpenIndex
      BY <1>4, <3>1 DEF SearchStep, SelectEntries, StartSearch, LoadBatch, Expand,
         NaiveExpand, PlanRerank, Finish
    <3> QED
      BY <2>1, <3>2, OpenIndexInv DEF SearchInv
  <2>2. CASE Opened
    <3>1. at # "closed"
      BY <2>2 DEF Opened, Shape, Places
    <3>2. ~OpenIndex
      BY <3>1 DEF OpenIndex
    <3> QED
      BY <1>4, <2>2, <3>2, SelectEntriesInv, StartSearchInv, LoadBatchInv, ExpandInv,
         NaiveExpandInv, PlanRerankInv, FinishInv DEF SearchStep, SearchInv
  <2> QED
    BY <2>1, <2>2 DEF SearchInv
<1>5. CASE \/ (BuildStep /\ UNCHANGED file /\ UNCHANGED <<at, query>>)
           \/ (WriteStep /\ UNCHANGED <<at, query>>)
           \/ (BuildStops /\ UNCHANGED <<at, query>>)
  BY <1>1, <1>5, BuildingIsOver DEF SearchInv
<1> QED
  BY <1>3, <1>4, <1>5 DEF Next, Ended

LEMMA SearchHolds ==
  Spec => []SearchInv
<1>1. Init => SearchInv
  BY DEF Init, SearchInv, AtStart
<1>2. IndexInv /\ SearchInv /\ [Next]_vars => SearchInv'
  BY SearchNext
<1> QED
  BY <1>1, <1>2, IndexHolds, PTL DEF Spec

-----------------------------------------------------------------------------
\* What every search keeps.

\* Type correctness: build, file, heaps, session and answer stay within the
\* nodes, the pages and the configurations of the build.
THEOREM SearchTypes ==
  Spec => []TypeOK
<1>1. ASSUME IndexInv, SearchInv PROVE TypeOK
  <2>1. BuildTypeOK /\ FileTypeOK /\ build \in Builds
    BY <1>1, BuildInvHolds, FileInvHolds DEF IndexInv, BuildInv, BuildShape
  <2>2. CASE AtStart
    <3>1. Range(<< >>) = {}
      BY DEF Range
    <3> QED
      BY <2>1, <2>2, <3>1 DEF AtStart, TypeOK, Places
  <2>3. CASE Opened
    <3>1. Shape /\ Heaps /\ Batched
      BY <2>3 DEF Opened
    <3>2. best \subseteq visited
      <4>1. visited \in SUBSET Node /\ conf \in Searches[build]
        BY <3>1 DEF Shape
      <4>2. IsBest(BestOf(visited), visited)
        BY <2>1, <4>1, ConfIs, BestOfIs
      <4> QED
        BY <3>1, <4>2 DEF IsBest, Heaps
    <3>3. Range(entries) \subseteq Node /\ Range(result) \subseteq visited
      BY <3>1, RangeOfSeq DEF Shape
    <3>4. Range(batch) \subseteq frontier \cup visited
      BY <3>1 DEF Batched
    <3>5. at # "closed"
      BY <3>1 DEF Shape
    <3> QED
      BY <2>1, <3>1, <3>2, <3>3, <3>4, <3>5 DEF Shape, TypeOK
  <2> QED
    BY <1>1, <2>2, <2>3 DEF SearchInv
<1> QED
  BY <1>1, IndexHolds, SearchHolds, PTL

\* select_search_entries gives distinct nodes, as many as asked for or all.
THEOREM EntriesAreFilledUp ==
  Spec => []EntriesFillUp
<1>1. SearchInv => EntriesFillUp
  BY DEF SearchInv, AtStart, Opened, EntriesFillUp
<1> QED
  BY <1>1, SearchHolds, PTL

\* Whatever the planner marks as seen the session has or reads.
THEOREM PlansAreRead ==
  Spec => []PlannedIsRead
<1>1. SearchInv => PlannedIsRead
  BY DEF SearchInv, AtStart, Opened, PlannedIsRead
<1> QED
  BY <1>1, SearchHolds, PTL

\* On a complete file a search with its quantizer does not throw.
THEOREM FailuresAreExplained ==
  Spec => []FailsOnlyWhenIncomplete
<1>1. SearchInv => FailsOnlyWhenIncomplete
  BY DEF SearchInv, AtStart, Opened, FailsOnlyWhenIncomplete
<1> QED
  BY <1>1, SearchHolds, PTL

\* The early stop gives up only on candidates that are farther than every
\* result.
THEOREM EarlyStopIsSound ==
  Spec => []EarlyStopLeavesFarther
<1>1. ASSUME SearchInv, at = "done", frontier # {}, expanded < conf.width, ~Exhausted
      PROVE  StopsWell
  BY <1>1 DEF SearchInv, AtStart, Opened, Stopped
<1>2. SearchInv => EarlyStopLeavesFarther
  BY <1>1 DEF EarlyStopLeavesFarther, StopsWell
<1> QED
  BY <1>2, SearchHolds, PTL

\* The heap kept from batch to batch is the best of all that was visited.
THEOREM AnswerIsBestOfVisited ==
  Spec => []ResultIsBestVisited
<1>1. ASSUME SearchInv, at = "done"
      PROVE  result = Take(ByDistance(IF Reranks THEN Exact ELSE Key, BestOf(visited)),
                           conf.topK)
  <2>1. result = FinalOrder /\ best = BestOf(visited)
    BY <1>1 DEF SearchInv, AtStart, Opened, Stopped, Heaps
  <2> QED
    BY <2>1 DEF FinalOrder
<1>2. SearchInv => ResultIsBestVisited
  BY <1>1 DEF ResultIsBestVisited, BestOf
<1> QED
  BY <1>2, SearchHolds, PTL

\* A search that ran out of candidates and ranked all it found is exact.
THEOREM ExhaustiveSearchIsExact ==
  Spec => []FullSearchIsExact
<1>1. ASSUME IndexInv, SearchInv, at = "done", frontier = {}, Reranks,
             Capacity >= Cardinality(Reachable(Range(entries)))
      PROVE  result = Take(ByDistance(Exact, Reachable(Range(entries))), conf.topK)
  <2> DEFINE reached == Reachable(Range(entries))
  <2>1. Opened
    BY <1>1 DEF SearchInv, AtStart
  <2>2. /\ graph \in Graphs /\ visited \in SUBSET Node /\ Capacity \in Nat
    BY <1>1, <2>1, WhileOpen
  <2>3. /\ Range(entries) \subseteq visited /\ visited \subseteq reached
        /\ \A u \in visited : Range(graph[u]) \subseteq visited
    BY <1>1, <2>1 DEF Opened, Covers
  <2>4. reached \subseteq visited
    BY <2>2, <2>3 DEF Reachable
  <2>5. visited = reached
    BY <2>3, <2>4
  <2> HIDE DEF reached
  <2>6. BestOf(visited) = visited
    <3>1. IsBest(BestOf(visited), visited)
      BY <2>2, BestOfIs
    <3>2. Cardinality(visited) <= Capacity /\ Cardinality(visited) \in Nat
      BY <1>1, <2>2, <2>5, NodesFinite DEF reached
    <3> QED
      BY <2>2, <3>1, <3>2, NodesFinite, FS_Subset DEF IsBest
  <2>7. result = FinalOrder /\ best = BestOf(visited)
    BY <1>1, <2>1 DEF Opened, Stopped, Heaps
  <2>8. result = Take(ByDistance(Exact, best), conf.topK)
    BY <1>1, <2>7 DEF FinalOrder
  <2>9. best = reached
    BY <2>5, <2>6, <2>7
  <2> QED
    BY <2>8, <2>9 DEF reached
<1>2. IndexInv /\ SearchInv => FullSearchIsExact
  BY <1>1 DEF FullSearchIsExact
<1> QED
  BY <1>2, IndexHolds, SearchHolds, PTL

\* A batch never repeats an expansion and never passes search_width, and the
\* search only moves on.
THEOREM SearchAdvances ==
  Spec => BatchesAdvance
<1> DEFINE Step ==
      /\ Phase' >= Phase
      /\ Phase = 3 /\ Phase' = 3 =>
           \/ at = "search" /\ at' = "expand" /\ batch' # << >>
           \/ /\ at' = "search"
              /\ expanded < expanded' /\ expanded' <= conf.width
              /\ expanded' = Cardinality(visited' \ frontier')
              /\ (visited \ frontier) \subseteq (visited' \ frontier')
<1>1. ASSUME IndexInv, SearchInv, [Next]_vars PROVE [Step]_vars
  <2>1. ASSUME at' = at, AtStart PROVE Step
    BY <2>1 DEF AtStart, Phase
  <2>2. CASE SearchStep
    <3>1. CASE OpenIndex \/ SelectEntries \/ StartSearch \/ PlanRerank \/ Finish
      BY <3>1 DEF OpenIndex, SelectEntries, StartSearch, PlanRerank, Finish, Phase
    <3>2. ASSUME LoadBatch \/ Expand \/ NaiveExpand
          PROVE  Opened
      BY <1>1, <3>2 DEF SearchInv, AtStart, LoadBatch, Expand, NaiveExpand
    <3>3. CASE LoadBatch
      <4>1. /\ at = "search"
            /\ \/ at' = "rerank" \/ at' = "failed"
               \/ at' = "expand" /\ batch' # << >>
        BY <3>3 DEF LoadBatch
      <4> QED
        BY <4>1 DEF Phase
    <3>4. CASE Expand
      <4>1. at = "expand" /\ at' = "search" /\ Advance
        BY <1>1, <3>2, <3>4, ExpandInv DEF Expand
      <4> QED
        BY <4>1 DEF Phase, Advance
    <3>5. CASE NaiveExpand
      <4>1. /\ at = "search" /\ at' \in {"search", "rerank", "failed"}
            /\ (at' = "search" => Advance)
        BY <1>1, <3>2, <3>5, NaiveExpandInv DEF NaiveExpand
      <4> QED
        BY <4>1 DEF Phase, Advance
    <3> QED
      BY <2>2, <3>1, <3>3, <3>4, <3>5 DEF SearchStep
  <2>3. CASE \/ (BuildStep /\ UNCHANGED file /\ UNCHANGED <<at, query>>)
             \/ (WriteStep /\ UNCHANGED <<at, query>>)
             \/ (BuildStops /\ UNCHANGED <<at, query>>)
    BY <1>1, <2>1, <2>3, BuildingIsOver DEF SearchInv
  <2> QED
    BY <1>1, <2>2, <2>3 DEF Next, Ended
<1>2. BatchesAdvance <=> [][Step]_vars
  BY DEF BatchesAdvance
<1> QED
  BY <1>1, <1>2, IndexHolds, SearchHolds, PTL DEF Spec
=============================================================================
