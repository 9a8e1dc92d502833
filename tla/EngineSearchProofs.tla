------------------------- MODULE EngineSearchProofs -------------------------
(***************************************************************************)
(* Machine-checked proofs about EngineSearch, for every set of nodes and   *)
(* vectors, every base index, every distance, every top_k, any number of   *)
(* searchers and every bound.                                              *)
(***************************************************************************)
EXTENDS EngineSearch, DynamicRecordsProofs, FiniteSetTheorems, TLAPS

\* The candidates of S that are better than c.
Better(S, c) == {d \in S : Less(d, c)}

-----------------------------------------------------------------------------
(***************************************************************************)
(* The cut to top_k.                                                       *)
(***************************************************************************)

LEMMA LessOrders ==
  ASSUME NEW a \in Result, NEW b \in Result, NEW c \in Result
  PROVE  /\ ~Less(a, a)
         /\ Less(a, b) /\ Less(b, c) => Less(a, c)
         /\ a # b => Less(a, b) \/ Less(b, a)
<1>1. \A r \in Result : r.id \in Nat /\ r.dist \in Nat
  BY NodesAssumption DEF Result
<1>2. \A r \in Result : r = [id |-> r.id, dist |-> r.dist]
  BY DEF Result
<1>3. a.id = b.id /\ a.dist = b.dist => a = b
  BY <1>2
<1> QED BY <1>1, <1>3 DEF Less

LEMMA BetterCounts ==
  ASSUME NEW S, IsFiniteSet(S), NEW T \in SUBSET S, NEW c
  PROVE  /\ Cardinality(Better(S, c)) \in Nat
         /\ Cardinality(Better(T, c)) \in Nat
         /\ Cardinality(Better(T, c)) <= Cardinality(Better(S, c))
<1>1. Better(S, c) \in SUBSET S /\ Better(T, c) \in SUBSET Better(S, c)
  BY DEF Better
<1>2. IsFiniteSet(Better(S, c))
  BY <1>1, FS_Subset
<1>3. IsFiniteSet(Better(T, c)) /\ Cardinality(Better(T, c)) <= Cardinality(Better(S, c))
  BY <1>1, <1>2, FS_Subset
<1> QED BY <1>2, <1>3, FS_CardinalityType

LEMMA TopOfBetter == \A S : TopOf(S) = {c \in S : Cardinality(Better(S, c)) < TopK}
BY DEF TopOf, Better

\* Whoever is not among the best TopK has a best one among those.
LEMMA FirstOutside ==
  ASSUME NEW S, IsFiniteSet(S), S \subseteq Result, NEW c \in S \ TopOf(S)
  PROVE  \E d \in S \ TopOf(S) : Better(S, d) \subseteq TopOf(S)
<1> DEFINE Out == {Better(S, d) : d \in S \ TopOf(S)}
<1>1. Out # {}
  OBVIOUS
<1>2. Out \subseteq FiniteSubsetsOf(S)
  <2> SUFFICES ASSUME NEW d \in S \ TopOf(S)
               PROVE  Better(S, d) \in FiniteSubsetsOf(S)
    OBVIOUS
  <2>1. Better(S, d) \in SUBSET S
    BY DEF Better
  <2>2. IsFiniteSet(Better(S, d))
    BY <2>1, FS_Subset
  <2> QED BY <2>1, <2>2 DEF FiniteSubsetsOf
<1> HIDE DEF Out
<1>3. PICK x \in Out : \A y \in Out : ~(<<y, x>> \in StrictSubsetOrdering(S))
  BY <1>1, <1>2, FS_StrictSubsetOrderingWellFounded, WFMin
<1>4. PICK d \in S \ TopOf(S) : x = Better(S, d)
  BY DEF Out
<1>5. ASSUME NEW e \in Better(S, d), e \notin TopOf(S) PROVE FALSE
  <2>1. e \in S \ TopOf(S) /\ e \in Result /\ d \in Result /\ Less(e, d)
    BY <1>5 DEF Better
  <2>2. Better(S, e) \in Out
    BY <2>1 DEF Out
  <2>3. Better(S, e) \subseteq Better(S, d)
    BY <2>1, LessOrders DEF Better
  <2>4. e \notin Better(S, e)
    BY <2>1, LessOrders DEF Better
  <2>5. <<Better(S, e), x>> \in StrictSubsetOrdering(S)
    BY <2>3, <2>4, <1>4, <1>5 DEF StrictSubsetOrdering, Better
  <2> QED BY <2>2, <2>5, <1>3
<1> QED BY <1>4, <1>5

\* Candidates outside the best TopK can be thrown away in any number.
LEMMA TopOfBetween ==
  ASSUME NEW S, IsFiniteSet(S), S \subseteq Result,
         NEW T \in SUBSET S, TopOf(S) \subseteq T
  PROVE  TopOf(T) = TopOf(S)
<1>1. ASSUME NEW c \in TopOf(S) PROVE c \in TopOf(T)
  <2>1. c \in S /\ c \in T /\ Cardinality(Better(S, c)) < TopK
    BY <1>1, TopOfBetter
  <2> QED BY <2>1, BetterCounts, TopOfBetter, SearchBoundsAssumption
<1>2. ASSUME NEW c \in TopOf(T), c \notin TopOf(S) PROVE FALSE
  <2>1. c \in T /\ c \in S /\ Cardinality(Better(T, c)) < TopK
    BY TopOfBetter
  <2>2. PICK d \in S \ TopOf(S) : Better(S, d) \subseteq TopOf(S)
    BY <1>2, <2>1, FirstOutside
  <2>3. ~Less(c, d)
    BY <2>2, <1>2, <2>1 DEF Better
  <2>4. Better(S, d) \in SUBSET Better(T, c)
    <3> SUFFICES ASSUME NEW e \in Better(S, d) PROVE e \in Better(T, c)
      OBVIOUS
    <3>1. e \in T /\ e \in Result /\ d \in Result /\ c \in Result /\ Less(e, d)
      BY <2>2, <2>1 DEF Better
    <3>2. Less(e, c)
      BY <3>1, <2>3, LessOrders
    <3> QED BY <3>1, <3>2 DEF Better
  <2>5. IsFiniteSet(Better(T, c))
    <3>1. Better(T, c) \in SUBSET S
      BY DEF Better
    <3> QED BY <3>1, FS_Subset
  <2>6. Cardinality(Better(S, d)) <= Cardinality(Better(T, c))
    BY <2>4, <2>5, FS_Subset
  <2>7. Cardinality(Better(S, d)) < TopK
    BY <2>1, <2>6, BetterCounts, SearchBoundsAssumption
  <2> QED BY <2>2, <2>7, TopOfBetter
<1> QED BY <1>1, <1>2

LEMMA TopOfUnion ==
  ASSUME NEW X, IsFiniteSet(X), X \subseteq Result,
         NEW S, IsFiniteSet(S), S \subseteq Result,
         NEW T \in SUBSET S, TopOf(S) \subseteq T
  PROVE  TopOf(X \cup T) = TopOf(X \cup S)
<1>1. IsFiniteSet(X \cup S) /\ X \cup S \subseteq Result /\ X \cup T \in SUBSET (X \cup S)
  BY FS_Union
<1>2. ASSUME NEW c \in TopOf(X \cup S) PROVE c \in X \cup T
  <2>1. CASE c \in X
    BY <2>1
  <2>2. CASE c \in S
    <3>1. S \in SUBSET (X \cup S)
      OBVIOUS
    <3>2. Cardinality(Better(S, c)) <= Cardinality(Better(X \cup S, c))
          /\ Cardinality(Better(S, c)) \in Nat
          /\ Cardinality(Better(X \cup S, c)) \in Nat
      BY <1>1, <3>1, BetterCounts
    <3>3. c \in TopOf(S)
      BY <2>2, <3>2, <1>2, TopOfBetter, SearchBoundsAssumption
    <3> QED BY <3>3
  <2> QED BY <2>1, <2>2, <1>2, TopOfBetter
<1> QED BY <1>1, <1>2, TopOfBetween

-----------------------------------------------------------------------------
(***************************************************************************)
(* The merge.                                                              *)
(***************************************************************************)

\* What search_delta_l2_at keeps of the visible versions N.
DeltaTop(N) ==
  {r \in Live(N) : [id |-> r.node, dist |-> Dist[r.val]] \in TopOf(Scored(N))}

OnePerNode(N) == \A r, p \in N : r.node = p.node => r = p

LEMMA VersionFinite == IsFiniteSet(Version)
<1> DEFINE V == Values \cup {Deleted}
           P == (1 .. MaxSeq) \X (Nodes \X V)
           f == [t \in P |-> [seq |-> t[1], node |-> t[2][1], val |-> t[2][2]]]
<1>1. IsFiniteSet(P)
  <2>1. IsFiniteSet(1 .. MaxSeq)
    BY SearchBoundsAssumption, FS_Interval
  <2>2. IsFiniteSet(V)
    BY VectorsAssumption, FS_AddElement
  <2>3. IsFiniteSet(Nodes \X V)
    BY <2>2, NodesAssumption, FS_Product
  <2> QED BY <2>1, <2>3, FS_Product
<1>2. f \in Surjection(P, Version)
  <2>1. f \in [P -> Version]
    BY DEF Version
  <2>2. ASSUME NEW r \in Version PROVE \E t \in P : f[t] = r
    <3>1. <<r.seq, <<r.node, r.val>>>> \in P
      BY DEF Version
    <3>2. r = [seq |-> r.seq, node |-> r.node, val |-> r.val]
      BY DEF Version
    <3> QED BY <3>1, <3>2
  <2> QED BY <2>1, <2>2 DEF Surjection
<1> QED BY <1>1, <1>2, FS_Surjection

LEMMA VersionFields ==
  \A r \in Version : /\ r.seq \in 1 .. MaxSeq /\ r.node \in Nodes
                     /\ r.val # Deleted => Dist[r.val] \in Nat
BY VectorsAssumption DEF Version

LEMMA ScoredType ==
  ASSUME NEW N \in SUBSET Version
  PROVE  IsFiniteSet(Scored(N)) /\ Scored(N) \subseteq Result
<1>1. Scored(N) \subseteq Result
  BY VersionFields DEF Scored, Live, Result
<1> DEFINE f == [r \in Live(N) |-> [id |-> r.node, dist |-> Dist[r.val]]]
<1>2. f \in Surjection(Live(N), Scored(N))
  BY DEF Surjection, Scored
<1>3. Live(N) \in SUBSET Version
  BY DEF Live
<1>4. IsFiniteSet(Live(N))
  BY <1>3, VersionFinite, FS_Subset
<1> QED BY <1>1, <1>2, <1>4, FS_Surjection

LEMMA BaseResultsType ==
  ASSUME NEW I \in SUBSET DOMAIN Base
  PROVE  IsFiniteSet(BaseResults(I)) /\ BaseResults(I) \subseteq Result
<1>1. BaseResults(I) \subseteq Result
  BY VectorsAssumption DEF BaseResults, Result
<1> DEFINE f == [n \in I |-> [id |-> n, dist |-> Dist[Base[n]]]]
<1>2. f \in Surjection(I, BaseResults(I))
  BY DEF Surjection, BaseResults
<1>3. I \in SUBSET Nodes
  BY VectorsAssumption
<1>4. IsFiniteSet(I)
  BY <1>3, NodesAssumption, FS_Subset
<1> QED BY <1>1, <1>2, <1>4, FS_Surjection

LEMMA BaseResultsIds == \A I : Ids(BaseResults(I)) = I
<1> SUFFICES ASSUME NEW I PROVE Ids(BaseResults(I)) = I
  OBVIOUS
<1>1. ASSUME NEW n \in I PROVE n \in Ids(BaseResults(I))
  <2>1. [id |-> n, dist |-> Dist[Base[n]]] \in BaseResults(I)
    BY DEF BaseResults
  <2> QED BY <2>1 DEF Ids
<1>2. ASSUME NEW n \in Ids(BaseResults(I)) PROVE n \in I
  BY DEF Ids, BaseResults
<1> QED BY <1>1, <1>2

\* merge_base_and_delta_l2 on what one snapshot N gives: as good as a search
\* of the base nodes I and all of N.
LEMMA MergeOfSnapshot ==
  ASSUME NEW N \in SUBSET Version, OnePerNode(N), NEW I \in SUBSET DOMAIN Base
  PROVE  Merge(BaseResults(I), DeltaTop(N), {r \in N : r.node \in I}) =
           TopOf(BaseResults(I \ NodesOf(N)) \cup Scored(N))
<1> DEFINE newest == {r \in N : r.node \in I}
           recs == newest \cup {r \in DeltaTop(N) : r.node \notin NodesOf(newest)}
           X == BaseResults(I \ NodesOf(N))
<1>1. DeltaTop(N) \subseteq N /\ recs \subseteq N
  BY DEF DeltaTop, Live
<1>2. recs = newest \cup DeltaTop(N)
  BY <1>1 DEF NodesOf, OnePerNode
<1>3. \A n \in I : n \in NodesOf(recs) <=> n \in NodesOf(N)
  BY <1>1 DEF NodesOf
<1>4. {c \in BaseResults(I) : c.id \notin NodesOf(recs)} = X
  BY <1>3 DEF BaseResults
<1>5. Scored(recs) \in SUBSET Scored(N)
  BY <1>1 DEF Scored, Live
<1>6. TopOf(Scored(N)) \subseteq Scored(recs)
  <2> SUFFICES ASSUME NEW c \in TopOf(Scored(N)) PROVE c \in Scored(recs)
    OBVIOUS
  <2>1. c \in Scored(N)
    BY DEF TopOf
  <2>2. PICK r \in Live(N) : c = [id |-> r.node, dist |-> Dist[r.val]]
    BY <2>1 DEF Scored
  <2>3. r \in DeltaTop(N)
    BY <2>2 DEF DeltaTop
  <2>4. r \in Live(recs)
    BY <2>3, <1>2 DEF Live
  <2> QED BY <2>2, <2>4 DEF Scored
<1>7. IsFiniteSet(X) /\ X \subseteq Result
  BY BaseResultsType
<1>8. TopOf(X \cup Scored(recs)) = TopOf(X \cup Scored(N))
  BY <1>5, <1>6, <1>7, ScoredType, TopOfUnion
<1>9. Merge(BaseResults(I), DeltaTop(N), newest) = TopOf(X \cup Scored(recs))
  BY <1>4 DEF Merge
<1> QED BY <1>8, <1>9

-----------------------------------------------------------------------------
(***************************************************************************)
(* The invariant.                                                          *)
(***************************************************************************)

\* The versions that count: while the manager is opening, what a stop lost is
\* still in the history.
Kept == IF writing = "open" THEN UpTo(log, durable) ELSE log

\* Sequence numbers identify versions, nothing published or durable is ahead of
\* next_sequence_id, and every number handed out since the manifest was saved
\* belongs to a version: if one of them is durable, that version is.
SequenceInv ==
  /\ recent \subseteq log
  /\ \A r \in Kept : r.seq < nextSeq
  /\ \A r, p \in log : r.seq = p.seq => r = p
  /\ durable < nextSeq /\ latest < nextSeq /\ acked <= latest
  /\ writing # "write" => latest = nextSeq - 1
  /\ saved <= nextSeq
  /\ \A k \in Int : saved <= k /\ k < nextSeq => \E r \in Kept : r.seq = k

\* The published view is what the manager holds, except while it is opening.
PublishInv ==
  /\ view.opened <=> opened /\ writing # "open"
  /\ view.opened => view.recs = recent
  /\ writing = "open" => opened /\ recent \in Recovered

\* What a restart has left out of recent_records_ is hidden by a newer version
\* of the same node that every read sequence from q on can see.
HiddenBy(q) ==
  \A r \in log : r \in recent \/ \E p \in recent : p.node = r.node /\ p.seq >= r.seq
                                              /\ p.seq <= q

\* The visible state as of q, by the history.
Newest(q) == NewestOf(UpTo(log, q))

\* One undisturbed search.
SearchInv(s) ==
  /\ search[s].at # "idle" => /\ view.opened /\ HiddenBy(search[s].seq)
                              /\ search[s].seq <= latest
                              /\ search[s].floor <= search[s].seq
  /\ search[s].at \in {"latest", "delta", "done", "sampled"} =>
       /\ Ids(search[s].base) \subseteq DOMAIN Base
       /\ search[s].base = BaseResults(Ids(search[s].base))
  /\ search[s].at \in {"delta", "done", "sampled"} =>
       search[s].newest =
         {r \in Newest(search[s].seq) : r.node \in Ids(search[s].base)}
  /\ search[s].at \in {"done", "sampled"} =>
       search[s].result =
         Merge(search[s].base, DeltaTop(Newest(search[s].seq)), search[s].newest)
  /\ search[s].at = "sampled" =>
       search[s].exact = ExactTop(Newest(search[s].seq))

IInv ==
  /\ TypeOK /\ SequenceInv /\ PublishInv
  /\ view.opened => HiddenBy(latest)
  /\ \A s \in Searchers : search[s].calm => SearchInv(s)

-----------------------------------------------------------------------------

LEMMA NewestType ==
  ASSUME NEW S \in SUBSET Version, NEW q
  PROVE  NewestOf(UpTo(S, q)) \in SUBSET Version
BY DEF NewestOf, UpTo

LEMMA NewestOnePerNode ==
  ASSUME TypeOK, SequenceInv, NEW q
  PROVE  OnePerNode(Newest(q)) /\ Newest(q) \in SUBSET Version
<1>1. Newest(q) \subseteq log /\ log \subseteq Version
  BY DEF Newest, NewestOf, UpTo, TypeOK
<1>2. ASSUME NEW r \in Newest(q), NEW p \in Newest(q), r.node = p.node
      PROVE  r = p
  <2>1. r.seq <= p.seq /\ p.seq <= r.seq
    BY <1>2 DEF Newest, NewestOf
  <2>2. r.seq \in Int /\ p.seq \in Int
    BY <1>1, VersionFields
  <2>3. r.seq = p.seq
    BY <2>1, <2>2
  <2> QED BY <2>3, <1>1 DEF SequenceInv
<1> QED BY <1>1, <1>2 DEF OnePerNode

\* The published view, read at q, shows the state the history had at q.
LEMMA ViewAgrees ==
  ASSUME TypeOK, SequenceInv, PublishInv, view.opened,
         NEW q \in Int, HiddenBy(q)
  PROVE  Visible(q) = Newest(q)
<1>1. Visible(q) = NewestOf(UpTo(recent, q))
  BY DEF Visible, PublishInv
<1>2. recent \subseteq log /\ \A r \in log : r.seq \in Int
  BY VersionFields DEF TypeOK, SequenceInv
<1>3. ASSUME NEW r \in NewestOf(UpTo(recent, q)) PROVE r \in Newest(q)
  <2>1. r \in log /\ r.seq <= q
    BY <1>2 DEF NewestOf, UpTo
  <2>2. ASSUME NEW p \in log, p.seq <= q, p.node = r.node PROVE p.seq <= r.seq
    <3>1. CASE p \in recent
      BY <2>2, <3>1 DEF NewestOf, UpTo
    <3>2. CASE p \notin recent
      <4>1. PICK h \in recent : h.node = p.node /\ h.seq >= p.seq /\ h.seq <= q
        BY <3>2 DEF HiddenBy
      <4>2. h.seq <= r.seq
        BY <4>1, <2>2 DEF NewestOf, UpTo
      <4> QED BY <4>1, <4>2, <2>1, <1>2
    <3> QED BY <3>1, <3>2
  <2> QED BY <2>1, <2>2 DEF Newest, NewestOf, UpTo
<1>4. ASSUME NEW r \in Newest(q) PROVE r \in NewestOf(UpTo(recent, q))
  <2>1. r \in log /\ r.seq <= q
    BY DEF Newest, NewestOf, UpTo
  <2>2. \A p \in recent : p.seq <= q /\ p.node = r.node => p.seq <= r.seq
    BY <1>2 DEF Newest, NewestOf, UpTo
  <2>3. CASE r \in recent
    BY <2>1, <2>2, <2>3 DEF NewestOf, UpTo
  <2>4. CASE r \notin recent
    <3>1. PICK h \in recent : h.node = r.node /\ h.seq >= r.seq /\ h.seq <= q
      BY <2>1, <2>4 DEF HiddenBy
    <3>2. h.seq = r.seq
      BY <3>1, <2>2, <2>1, <1>2
    <3>3. h = r
      BY <3>1, <3>2, <2>1, <1>2 DEF SequenceInv
    <3> QED BY <3>1, <3>3, <2>4
  <2> QED BY <2>3, <2>4
<1> QED BY <1>1, <1>3, <1>4

LEMMA NoSearchType == NoSearch \in SearchState
BY SearchBoundsAssumption DEF NoSearch, SearchState

LEMMA InitIInv == Init => IInv
<1> SUFFICES ASSUME Init PROVE IInv
  OBVIOUS
<1>1. TypeOK
  <2>1. search \in [Searchers -> SearchState]
    BY NoSearchType DEF Init
  <2>2. view \in View
    BY DEF Init, View
  <2>3. nextSeq \in 1 .. MaxSeq + 1 /\ 0 \in 0 .. MaxSeq
    BY SearchBoundsAssumption DEF Init
  <2> QED BY <2>1, <2>2, <2>3 DEF Init, TypeOK
<1>2. SequenceInv /\ PublishInv
  BY DEF Init, SequenceInv, Kept, PublishInv
<1> QED BY <1>1, <1>2 DEF Init, IInv, NoSearch

-----------------------------------------------------------------------------
(***************************************************************************)
(* Types.                                                                  *)
(***************************************************************************)

LEMMA LastSeqBound ==
  ASSUME TypeOK, SequenceInv, writing # "open"
  PROVE  /\ LastSeq(log) \in 0 .. MaxSeq
         /\ LastSeq(log) < nextSeq
<1>1. \A r \in log : r.seq \in 1 .. MaxSeq
  BY VersionFields DEF TypeOK
<1>2. /\ LastSeq(log) \in 0 .. MaxSeq
      /\ log # {} => \E r \in log : r.seq = LastSeq(log)
      /\ log = {} => LastSeq(log) = 0
  BY <1>1, LastSeqIsLast, SearchBoundsAssumption
<1> QED BY <1>2 DEF SequenceInv, Kept, TypeOK

LEMMA MergeType ==
  ASSUME NEW base \in SUBSET Result, NEW delta \in SUBSET Version,
         NEW newest \in SUBSET Version
  PROVE  Merge(base, delta, newest) \in SUBSET Result
<1> DEFINE recs == newest \cup {r \in delta : r.node \notin NodesOf(newest)}
<1>1. recs \in SUBSET Version
  OBVIOUS
<1>2. Scored(recs) \subseteq Result
  BY <1>1, ScoredType
<1> QED BY <1>2 DEF Merge, TopOf

LEMMA VisibleType ==
  ASSUME TypeOK, NEW q
  PROVE  /\ Visible(q) \in SUBSET Version
         /\ SearchDelta(q) \in SUBSET Version
         /\ \A ids : LatestRecordsFor(ids, q) \in SUBSET Version
         /\ ExactTop(Visible(q)) \in SUBSET Result
<1>1. Visible(q) \in SUBSET Version
  BY DEF Visible, NewestOf, UpTo, TypeOK, View
<1>2. Scored(Visible(q)) \subseteq Result
  BY <1>1, ScoredType
<1>3. BaseResults(DOMAIN Base \ NodesOf(Visible(q))) \subseteq Result
  BY BaseResultsType
<1> QED BY <1>1, <1>2, <1>3 DEF SearchDelta, Live, LatestRecordsFor, ExactTop, TopOf

LEMMA SearchTypeStep ==
  ASSUME TypeOK, NEW s \in Searchers, SearchStep(s)
  PROVE  search' \in [Searchers -> SearchState]
<1>1. search[s] \in SearchState
  BY DEF TypeOK
<1> USE DEF TypeOK
<1>2. CASE SearchBegin(s)
  BY <1>1, <1>2 DEF SearchBegin, SearchState, NoSearch, View
<1>3. CASE SearchBase(s)
  <2>1. PICK ids \in SUBSET DOMAIN Base :
          search' = [search EXCEPT ![s].at = "latest",
                                   ![s].base = BaseResults(ids)]
    BY <1>3 DEF SearchBase
  <2>2. BaseResults(ids) \in SUBSET Result
    BY BaseResultsType
  <2> QED BY <1>1, <2>1, <2>2 DEF SearchState
<1>4. CASE SearchLatest(s)
  <2>1. LatestRecordsFor(Ids(search[s].base), search[s].seq) \in SUBSET Version
    BY VisibleType
  <2> QED BY <1>1, <1>4, <2>1 DEF SearchLatest, SearchState
<1>5. CASE SearchMerge(s)
  <2>1. Merge(search[s].base, SearchDelta(search[s].seq), search[s].newest) \in SUBSET Result
    BY <1>1, VisibleType, MergeType DEF SearchState
  <2> QED BY <1>1, <1>5, <2>1 DEF SearchMerge, SearchState
<1>6. CASE SearchSample(s)
  <2>1. ExactTop(Visible(search[s].seq)) \in SUBSET Result
    BY VisibleType
  <2> QED BY <1>1, <1>6, <2>1 DEF SearchSample, SearchState
<1>7. CASE SearchReturn(s)
  BY <1>1, <1>7, SearchBoundsAssumption DEF SearchReturn, SearchState, NoSearch
<1> QED BY <1>2, <1>3, <1>4, <1>5, <1>6, <1>7 DEF SearchStep

-----------------------------------------------------------------------------
(***************************************************************************)
(* The steps of the writer.                                                *)
(***************************************************************************)

\* What a step must leave alone for the searches under way.
LEMMA SearchKept ==
  ASSUME NEW s, search'[s] = search[s], SearchInv(s),
         search[s].seq \in Int, latest \in Int, latest' \in Int,
         search[s].at # "idle" =>
           /\ view'.opened /\ HiddenBy(search[s].seq)' /\ latest <= latest'
           /\ Newest(search[s].seq)' = Newest(search[s].seq)
  PROVE  SearchInv(s)'
<1>1. CASE search[s].at = "idle"
  BY <1>1 DEF SearchInv
<1>2. CASE search[s].at # "idle"
  <2> DEFINE q == search[s].seq
  <2>1. search'[s].seq = q /\ HiddenBy(search[s].seq)' /\ q <= latest'
    BY <1>2 DEF SearchInv
  <2>2. Newest(search[s].seq)' = Newest(q)
    BY <1>2
  <2> QED BY <1>2, <2>1, <2>2 DEF SearchInv
<1> QED BY <1>1, <1>2

LEMMA WriteStep ==
  ASSUME IInv, NEW n \in Nodes, NEW v \in Values \cup {Deleted}, Write(n, v)
  PROVE  IInv'
<1> DEFINE r == [seq |-> nextSeq, node |-> n, val |-> v]
<1> USE DEF IInv
<1>1. /\ r.seq = nextSeq /\ recent' = recent \cup {r} /\ log' = log \cup {r}
      /\ r \in Version /\ nextSeq \in 1 .. MaxSeq
  BY SearchBoundsAssumption DEF Write, TypeOK, Version
<1>2. TypeOK'
  BY <1>1, SearchBoundsAssumption DEF Write, TypeOK, View
<1>3. \A p \in log : p.seq \in Int /\ p.seq < nextSeq
  BY VersionFields DEF Write, TypeOK, SequenceInv, Kept
<1>4. SequenceInv'
  <2>1. Kept = log /\ Kept' = log \cup {r} /\ nextSeq' = nextSeq + 1 /\ saved' = saved
    BY <1>1 DEF Write, Kept
  <2>2. ASSUME NEW k \in Int, saved <= k, k < nextSeq'
        PROVE  \E p \in Kept' : p.seq = k
    <3>1. CASE k = nextSeq
      BY <3>1, <2>1, <1>1
    <3>2. CASE k # nextSeq
      <4>1. k < nextSeq
        BY <2>1, <2>2, <3>2 DEF TypeOK
      <4> QED BY <4>1, <2>1, <2>2 DEF SequenceInv
    <3> QED BY <3>1, <3>2
  <2>3. /\ recent' \subseteq log'
        /\ \A p \in Kept' : p.seq < nextSeq'
        /\ \A p, t \in log' : p.seq = t.seq => p = t
    BY <1>1, <1>3, <2>1 DEF TypeOK, SequenceInv
  <2>4. /\ durable' < nextSeq' /\ latest' < nextSeq' /\ acked' <= latest'
        /\ writing' = "write" /\ saved' <= nextSeq'
    BY <2>1 DEF Write, TypeOK, SequenceInv
  <2> QED BY <2>1, <2>2, <2>3, <2>4 DEF SequenceInv
<1>5. PublishInv' /\ view.opened /\ view'.opened
  BY DEF Write, PublishInv
<1>6. \A q : HiddenBy(q) => HiddenBy(q)'
  BY <1>1 DEF HiddenBy
<1>7. latest' = latest /\ search' = search
  BY DEF Write
<1>8. HiddenBy(latest)'
  BY <1>5, <1>6, <1>7 DEF HiddenBy
<1>9. ASSUME NEW s \in Searchers, search'[s].calm PROVE SearchInv(s)'
  <2> DEFINE q == search[s].seq
  <2>1. search[s] \in SearchState /\ SearchInv(s) /\ q \in Int
    BY <1>7, <1>9 DEF TypeOK, SearchState
  <2>2. search[s].at # "idle" => q < nextSeq
    BY <2>1 DEF SearchInv, SequenceInv, TypeOK
  <2>3. search[s].at # "idle" => UpTo(log, q)' = UpTo(log, q)
    BY <1>1, <1>7, <2>1, <2>2 DEF UpTo, TypeOK
  <2>4. search[s].at # "idle" => Newest(q)' = Newest(q)
    BY <2>3 DEF Newest
  <2>5. search[s].at # "idle" => HiddenBy(q)'
    BY <2>1, <1>6, <1>7 DEF SearchInv, HiddenBy
  <2> QED BY <2>1, <2>4, <2>5, <1>5, <1>7, SearchKept DEF TypeOK
<1> QED BY <1>2, <1>4, <1>5, <1>8, <1>9

LEMMA PublishSequenceStep ==
  ASSUME IInv, PublishSequence
  PROVE  IInv'
<1> USE DEF IInv
<1>1. /\ recent' = recent /\ log' = log /\ nextSeq' = nextSeq /\ saved' = saved
      /\ view' = view /\ search' = search /\ opened' = opened /\ durable' = durable
      /\ latest' = nextSeq - 1 /\ latest <= latest'
      /\ latest \in Int /\ latest' \in 0 .. MaxSeq
      /\ writing \in {"write", "publish"} /\ writing' = "idle"
  BY SearchBoundsAssumption DEF PublishSequence, TypeOK, SequenceInv
<1>2. TypeOK' /\ SequenceInv'
  BY <1>1 DEF PublishSequence, TypeOK, SequenceInv, Kept
<1>3. PublishInv'
  BY <1>1 DEF PublishInv
<1>4. \A r \in recent : r.seq \in Int
  BY VersionFields DEF TypeOK
<1>5. view.opened => HiddenBy(latest)'
  BY <1>1, <1>4 DEF HiddenBy
<1>6. ASSUME NEW s \in Searchers, search'[s].calm PROVE SearchInv(s)'
  <2>1. search[s] \in SearchState /\ SearchInv(s) /\ search[s].seq \in Int
    BY <1>1, <1>6 DEF TypeOK, SearchState
  <2>2. search[s].at # "idle" =>
          /\ view'.opened /\ HiddenBy(search[s].seq)'
          /\ Newest(search[s].seq)' = Newest(search[s].seq)
    BY <2>1, <1>1 DEF SearchInv, HiddenBy, Newest
  <2> QED BY <2>1, <2>2, <1>1, SearchKept
<1> QED BY <1>1, <1>2, <1>3, <1>5, <1>6

LEMMA CloseStep ==
  ASSUME IInv, Close
  PROVE  IInv'
<1> USE DEF IInv
<1>1. /\ recent' = recent /\ log' = log /\ nextSeq' = nextSeq /\ latest' = latest
      /\ acked' = acked /\ opened' = FALSE /\ writing = "idle" /\ writing' = "publish"
      /\ view' = [opened |-> FALSE, recs |-> recent]
      /\ durable' \in durable .. LastSeq(log) /\ saved' \in saved .. nextSeq
      /\ closes' = closes + 1
  BY DEF Close
<1>2. \A s \in Searchers : search'[s] = [search[s] EXCEPT !.calm = FALSE]
  BY DEF Close, Disturb
<1>3. search' \in [Searchers -> SearchState]
  <2>1. search' = [s \in Searchers |-> [search[s] EXCEPT !.calm = FALSE]]
    BY DEF Close, Disturb
  <2>2. \A s \in Searchers : [search[s] EXCEPT !.calm = FALSE] \in SearchState
    BY DEF TypeOK, SearchState
  <2> QED BY <2>1, <2>2
<1>4. durable' \in 0 .. MaxSeq /\ durable' < nextSeq
  <2>1. LastSeq(log) \in 0 .. MaxSeq /\ LastSeq(log) < nextSeq
    BY <1>1, LastSeqBound
  <2>2. durable \in 0 .. MaxSeq /\ MaxSeq \in Nat /\ nextSeq \in Nat
    BY SearchBoundsAssumption DEF TypeOK
  <2> QED BY <1>1, <2>1, <2>2
<1>5. TypeOK'
  <2>0. saved' \in 1 .. MaxSeq + 1
    BY <1>1, SearchBoundsAssumption DEF TypeOK
  <2>1. view' \in View
    BY <1>1 DEF View, TypeOK
  <2>2. /\ recent \subseteq Version /\ log \subseteq Version /\ nextSeq \in 1 .. MaxSeq + 1
        /\ latest \in 0 .. MaxSeq /\ acked \in 0 .. MaxSeq /\ closes \in Nat
    BY DEF TypeOK
  <2>3. opened' \in BOOLEAN
    BY <1>1
  <2>4. closes' \in Nat
    BY <2>2 DEF Close
  <2> HIDE DEF IInv
  <2> QED BY <1>1, <1>3, <1>4, <2>0, <2>1, <2>2, <2>3, <2>4 DEF TypeOK
<1>6. SequenceInv' /\ PublishInv'
  <2>1. Kept' = Kept
    BY <1>1 DEF Kept
  <2>2. saved \in Int /\ nextSeq \in Int
    BY DEF TypeOK
  <2> QED BY <1>1, <1>4, <2>1, <2>2 DEF SequenceInv, PublishInv
<1>7. \A s \in Searchers : ~search'[s].calm
  BY <1>2 DEF TypeOK, SearchState
<1> QED BY <1>1, <1>5, <1>6, <1>7

\* While the store is closed no search counts.
LEMMA ClosedSearches ==
  ASSUME IInv, ~view.opened, NEW s \in Searchers, search[s].calm
  PROVE  search[s].at = "idle"
BY DEF IInv, SearchInv

\* What open() goes on with: a number no surviving version has reached, that
\* is not ahead of the old one.
LEMMA LoadedNumber ==
  ASSUME TypeOK, SequenceInv, writing # "open", NEW R \in Recovered
  PROVE  /\ LastSeq(R) \in 0 .. MaxSeq /\ LastSeq(R) <= durable
         /\ NextSeqAfter(R) \in 1 .. MaxSeq + 1 /\ NextSeqAfter(R) <= nextSeq
         /\ saved <= NextSeqAfter(R) /\ durable < NextSeqAfter(R)
         /\ \A r \in UpTo(log, durable) : r.seq < NextSeqAfter(R)
<1>1. /\ R \subseteq log /\ Kept = log
      /\ \A r \in R : r.seq \in 1 .. MaxSeq /\ r.seq <= durable
  BY VersionFields DEF Recovered, UpTo, TypeOK, Kept
<1>2. /\ LastSeq(R) \in 0 .. MaxSeq
      /\ R # {} => \E r \in R : r.seq = LastSeq(R)
      /\ R = {} => LastSeq(R) = 0
      /\ \A r \in R : r.seq <= LastSeq(R)
  BY <1>1, LastSeqIsLast, SearchBoundsAssumption
<1>3. /\ saved \in 1 .. MaxSeq + 1 /\ nextSeq \in 1 .. MaxSeq + 1
      /\ durable \in 0 .. MaxSeq /\ durable < nextSeq /\ saved <= nextSeq
      /\ MaxSeq \in Nat
  BY SearchBoundsAssumption DEF TypeOK, SequenceInv
<1>4. LastSeq(R) <= durable /\ LastSeq(R) < nextSeq
  BY <1>1, <1>2, <1>3
<1>5. /\ NextSeqAfter(R) \in 1 .. MaxSeq + 1 /\ NextSeqAfter(R) <= nextSeq
      /\ saved <= NextSeqAfter(R) /\ LastSeq(R) < NextSeqAfter(R)
  BY <1>2, <1>3, <1>4 DEF NextSeqAfter
<1>6. durable < NextSeqAfter(R)
  <2>1. CASE durable < saved
    BY <2>1, <1>3, <1>5
  <2>2. CASE ~(durable < saved)
    <3>1. durable \in Int /\ saved <= durable
      BY <2>2, <1>3
    <3>2. PICK r \in log : r.seq = durable
      BY <3>1, <1>1, <1>3 DEF SequenceInv
    <3>3. r \in UpTo(log, durable)
      BY <3>2, <1>3 DEF UpTo
    <3>4. PICK p \in R : p.seq >= r.seq
      BY <3>3 DEF Recovered, Covers
    <3>5. p.seq \in Int /\ p.seq <= LastSeq(R)
      BY <1>1, <1>2
    <3> QED BY <3>2, <3>4, <3>5, <1>2, <1>3, <1>5
  <2> QED BY <2>1, <2>2
<1>7. ASSUME NEW r \in UpTo(log, durable) PROVE r.seq < NextSeqAfter(R)
  <2>1. r.seq \in Int /\ r.seq <= durable
    BY <1>7, VersionFields DEF UpTo, TypeOK
  <2> QED BY <2>1, <1>3, <1>5, <1>6
<1> QED BY <1>2, <1>4, <1>5, <1>6, <1>7

LEMMA OpenLoadStep ==
  ASSUME IInv, OpenLoad
  PROVE  IInv'
<1> USE DEF IInv
<1>1. /\ recent' \in Recovered /\ log' = log /\ nextSeq' = NextSeqAfter(recent')
      /\ latest' = nextSeq' - 1 /\ acked' = durable /\ durable' = durable
      /\ saved' = saved
      /\ opened = FALSE /\ opened' = TRUE /\ writing = "idle" /\ writing' = "open"
      /\ view' = view /\ search' = search /\ closes' = closes
  BY DEF OpenLoad, TypeOK
<1>2. recent' \subseteq log
  BY <1>1 DEF Recovered, UpTo
<1>3. /\ nextSeq' \in 1 .. MaxSeq + 1 /\ nextSeq' <= nextSeq
      /\ saved <= nextSeq' /\ durable < nextSeq'
      /\ \A r \in UpTo(log, durable) : r.seq < nextSeq'
  BY <1>1, LoadedNumber
<1>4. TypeOK'
  BY <1>1, <1>2, <1>3, SearchBoundsAssumption DEF TypeOK
<1>5. SequenceInv'
  <2>1. Kept = log /\ Kept' = UpTo(log, durable)
    BY <1>1 DEF Kept
  <2>2. ASSUME NEW k \in Int, saved <= k, k < nextSeq'
        PROVE  \E r \in Kept' : r.seq = k
    <3>1. /\ saved \in Int /\ nextSeq \in Int /\ nextSeq' \in Int
          /\ durable \in Int /\ nextSeq' <= nextSeq
      BY <1>3 DEF TypeOK
    <3>2. PICK r \in log : r.seq = k
      <4>1. k < nextSeq
        BY <2>2, <3>1
      <4> QED BY <4>1, <2>1, <2>2 DEF SequenceInv
    <3>3. k <= durable
      <4>1. LastSeq(recent') <= durable /\ LastSeq(recent') \in Int
        BY <1>1, LoadedNumber
      <4>2. nextSeq' = LastSeq(recent') + 1
        BY <1>1, <2>2, <3>1, <4>1 DEF NextSeqAfter
      <4> QED BY <2>2, <3>1, <4>1, <4>2
    <3> QED BY <3>2, <3>3, <2>1 DEF UpTo
  <2>3. durable' < nextSeq' /\ latest' < nextSeq' /\ acked' <= latest'
    BY <1>1, <1>3 DEF TypeOK
  <2>4. saved' = saved
    BY <1>1
  <2>5. \A r, p \in log' : r.seq = p.seq => r = p
    BY <1>1 DEF SequenceInv
  <2>6. recent' \subseteq log' /\ saved' <= nextSeq' /\ latest' = nextSeq' - 1
        /\ \A r \in Kept' : r.seq < nextSeq'
    BY <1>1, <1>2, <1>3, <2>1
  <2> QED BY <2>2, <2>3, <2>4, <2>5, <2>6 DEF SequenceInv
<1>6. ~view.opened /\ ~view'.opened
  BY <1>1 DEF PublishInv
<1>7. Recovered' = Recovered
  BY <1>1 DEF Recovered
<1>8. PublishInv'
  BY <1>1, <1>6, <1>7 DEF PublishInv
<1>9. \A s \in Searchers : search'[s].calm => search'[s].at = "idle"
  BY <1>1, <1>6, ClosedSearches
<1>10. \A s \in Searchers : search'[s].calm => SearchInv(s)'
  BY <1>9 DEF SearchInv
<1> QED BY <1>4, <1>5, <1>6, <1>8, <1>10

LEMMA OpenViewStep ==
  ASSUME IInv, OpenView
  PROVE  IInv'
<1> USE DEF IInv
<1>1. /\ recent' = recent /\ log' = UpTo(log, durable) /\ nextSeq' = nextSeq
      /\ latest' = latest /\ acked' = acked /\ durable' = durable /\ saved' = saved
      /\ opened' = opened /\ writing = "open" /\ writing' = "publish"
      /\ view' = [opened |-> TRUE, recs |-> recent] /\ search' = search /\ closes' = closes
  BY DEF OpenView
<1>2. recent \in Recovered /\ latest = nextSeq - 1 /\ log' \subseteq log
  BY <1>1 DEF PublishInv, SequenceInv, UpTo
<1>3. recent \subseteq log'
  BY <1>1, <1>2 DEF Recovered
<1>4. TypeOK'
  BY <1>1, <1>2 DEF TypeOK, View
<1>5. SequenceInv'
  <2>1. Kept = log' /\ Kept' = log'
    BY <1>1 DEF Kept
  <2> QED BY <1>1, <1>2, <1>3, <2>1 DEF SequenceInv, TypeOK
<1>6. ~view.opened
  BY <1>1 DEF PublishInv
<1>7. PublishInv'
  BY <1>1, <1>2 DEF PublishInv
<1>8. HiddenBy(latest)'
  <2> SUFFICES ASSUME NEW r \in log'
               PROVE  \E p \in recent : p.node = r.node /\ p.seq >= r.seq /\ p.seq <= latest
    BY <1>1 DEF HiddenBy
  <2>1. PICK p \in recent : p.node = r.node /\ p.seq >= r.seq
    BY <1>1, <1>2 DEF Recovered, Covers
  <2>2. p \in Kept /\ p \in log /\ p.seq \in Int /\ p.seq < nextSeq /\ nextSeq \in Int
    BY <1>1, <1>2, <1>3, VersionFields DEF SequenceInv, Kept, TypeOK
  <2> QED BY <2>1, <2>2, <1>2
<1>9. \A s \in Searchers : search'[s].calm => search'[s].at = "idle"
  BY <1>1, <1>6, ClosedSearches
<1>10. \A s \in Searchers : search'[s].calm => SearchInv(s)'
  BY <1>9 DEF SearchInv
<1> QED BY <1>4, <1>5, <1>7, <1>8, <1>10

-----------------------------------------------------------------------------
(***************************************************************************)
(* The steps of a search.                                                  *)
(***************************************************************************)

\* A step of one search leaves the store and the other searches alone.
LEMMA SearchFrame ==
  ASSUME IInv, NEW s \in Searchers, SearchStep(s),
         search'[s].calm => SearchInv(s)'
  PROVE  IInv'
<1> USE DEF IInv
<1>1. UNCHANGED <<store, log, durable, acked, closes>>
  BY DEF SearchStep, SearchBegin, SearchBase, SearchLatest, SearchMerge,
         SearchSample, SearchReturn
<1>2. TypeOK'
  BY <1>1, SearchTypeStep DEF TypeOK, store
<1>3. SequenceInv' /\ PublishInv' /\ (view'.opened => HiddenBy(latest)')
  BY <1>1 DEF SequenceInv, Kept, PublishInv, HiddenBy, Recovered, store
<1>4. \A t \in Searchers \ {s} : search'[t] = search[t]
  BY DEF SearchStep, SearchBegin, SearchBase, SearchLatest, SearchMerge,
         SearchSample, SearchReturn, TypeOK
<1>5. ASSUME NEW t \in Searchers \ {s}, search'[t].calm PROVE SearchInv(t)'
  <2>1. search[t] \in SearchState /\ SearchInv(t) /\ search[t].seq \in Int
    BY <1>4, <1>5 DEF TypeOK, SearchState
  <2>2. search[t].at # "idle" =>
          /\ view'.opened /\ HiddenBy(search[t].seq)' /\ latest <= latest'
          /\ Newest(search[t].seq)' = Newest(search[t].seq)
    BY <2>1, <1>1, <1>4 DEF SearchInv, HiddenBy, Newest, store, TypeOK
  <2> QED BY <2>1, <2>2, <1>1, <1>2, <1>4, SearchKept DEF TypeOK
<1> QED BY <1>2, <1>3, <1>5

\* The invariant of the searcher itself, step by step.
LEMMA SearchStepInv ==
  ASSUME IInv, NEW s \in Searchers, SearchStep(s), search'[s].calm
  PROVE  SearchInv(s)'
<1> DEFINE q == search[s].seq
           I == Ids(search[s].base)
<1> USE DEF IInv
<1>1. UNCHANGED <<store, log, durable, acked, closes>>
  BY DEF SearchStep, SearchBegin, SearchBase, SearchLatest, SearchMerge,
         SearchSample, SearchReturn
<1>2. /\ \A x : HiddenBy(x)' <=> HiddenBy(x)
      /\ \A x : Newest(x)' = Newest(x)
      /\ view' = view /\ latest' = latest
  BY <1>1 DEF HiddenBy, Newest, store
<1>3. search[s] \in SearchState /\ q \in Int
  BY DEF TypeOK, SearchState
<1>4. CASE SearchBegin(s)
  <2>1. search'[s] = [NoSearch EXCEPT !.at = "base", !.seq = latest,
                                      !.floor = acked, !.calm = view.opened]
    BY <1>4 DEF SearchBegin, TypeOK
  <2>2. /\ search'[s].at = "base" /\ search'[s].seq = latest
        /\ search'[s].floor = acked /\ view.opened
    BY <2>1 DEF NoSearch
  <2>3. HiddenBy(search[s].seq)'
    BY <2>2, <1>2 DEF HiddenBy
  <2> QED BY <2>2, <2>3, <1>2 DEF SearchInv, SequenceInv, TypeOK
<1>5. CASE ~SearchBegin(s) /\ ~SearchReturn(s)
  <2>1. /\ search[s].calm /\ search[s].at # "idle" /\ search'[s].seq = q
        /\ search'[s].floor = search[s].floor
    BY <1>3, <1>5 DEF SearchStep, SearchBase, SearchLatest, SearchMerge,
                      SearchSample, TypeOK, SearchState
  <2>2. SearchInv(s)
    BY <2>1
  <2>3. /\ view'.opened /\ HiddenBy(search[s].seq)' /\ q <= latest'
        /\ search'[s].floor <= q
    BY <2>1, <2>2, <1>1, <1>2 DEF SearchInv, HiddenBy
  <2>4. Visible(q) = Newest(q)
    BY <2>1, <2>2, <1>3, ViewAgrees DEF SearchInv
  <2>5. Newest(search[s].seq)' = Newest(q)
    BY <2>1, <1>1 DEF Newest, UpTo
  <2>6. CASE SearchBase(s)
    <3>1. PICK ids \in SUBSET DOMAIN Base :
            search' = [search EXCEPT ![s].at = "latest",
                                     ![s].base = BaseResults(ids)]
      BY <2>6 DEF SearchBase
    <3>2. search'[s].at = "latest" /\ search'[s].base = BaseResults(ids)
      BY <3>1, <1>3 DEF TypeOK, SearchState
    <3> QED BY <3>2, <2>1, <2>3, BaseResultsIds DEF SearchInv
  <2>7. CASE SearchLatest(s)
    <3>1. /\ search[s].at = "latest" /\ search'[s].at = "delta"
          /\ search'[s].base = search[s].base
          /\ search'[s].newest = LatestRecordsFor(I, q)
      BY <2>7, <1>3 DEF SearchLatest, TypeOK, SearchState
    <3>2. LatestRecordsFor(I, q) = {r \in Newest(q) : r.node \in I}
      BY <2>4 DEF LatestRecordsFor
    <3> QED BY <3>1, <3>2, <2>1, <2>2, <2>3, <2>5 DEF SearchInv
  <2>8. CASE SearchMerge(s)
    <3>1. /\ search[s].at = "delta" /\ search'[s].at = "done"
          /\ search'[s].base = search[s].base /\ search'[s].newest = search[s].newest
          /\ search'[s].result = Merge(search[s].base, SearchDelta(q), search[s].newest)
      BY <2>8, <1>3 DEF SearchMerge, TypeOK, SearchState
    <3>2. SearchDelta(q) = DeltaTop(Newest(q))
      BY <2>4 DEF SearchDelta, DeltaTop
    <3> QED BY <3>1, <3>2, <2>1, <2>2, <2>3, <2>5 DEF SearchInv
  <2>9. CASE SearchSample(s)
    <3>1. /\ search[s].at = "done" /\ search'[s].at = "sampled"
          /\ search'[s].base = search[s].base /\ search'[s].newest = search[s].newest
          /\ search'[s].result = search[s].result
          /\ search'[s].exact = ExactTop(Visible(q))
      BY <2>9, <1>3 DEF SearchSample, TypeOK, SearchState
    <3> QED BY <3>1, <2>1, <2>2, <2>3, <2>4, <2>5 DEF SearchInv
  <2> QED BY <1>5, <2>6, <2>7, <2>8, <2>9 DEF SearchStep
<1>6. CASE SearchReturn(s)
  <2>1. search'[s] = NoSearch
    BY <1>6 DEF SearchReturn, TypeOK
  <2> QED BY <2>1 DEF NoSearch
<1> QED BY <1>4, <1>5, <1>6

LEMMA StutterStep ==
  ASSUME IInv, UNCHANGED vars
  PROVE  IInv'
<1> USE DEF IInv
<1>1. UNCHANGED store /\ UNCHANGED <<search, log, durable, acked, closes>>
  BY DEF vars
<1>2. TypeOK' /\ SequenceInv' /\ PublishInv' /\ (view'.opened => HiddenBy(latest)')
  BY <1>1 DEF TypeOK, SequenceInv, Kept, PublishInv, HiddenBy, Recovered, store
<1>3. ASSUME NEW s \in Searchers, search'[s].calm PROVE SearchInv(s)'
  BY <1>1, <1>3 DEF SearchInv, HiddenBy, Newest, store
<1> QED BY <1>2, <1>3

LEMMA IInvStep == IInv /\ [Next]_vars => IInv'
<1> SUFFICES ASSUME IInv, [Next]_vars PROVE IInv'
  OBVIOUS
<1>1. CASE UNCHANGED vars
  BY <1>1, StutterStep
<1>2. CASE Insert \/ Erase
  BY <1>2, WriteStep DEF Insert, Erase
<1>3. CASE PublishSequence
  BY <1>3, PublishSequenceStep
<1>4. CASE Close
  BY <1>4, CloseStep
<1>5. CASE OpenLoad
  BY <1>5, OpenLoadStep
<1>6. CASE OpenView
  BY <1>6, OpenViewStep
<1>7. CASE \E s \in Searchers : SearchStep(s)
  BY <1>7, SearchFrame, SearchStepInv
<1> QED BY <1>1, <1>2, <1>3, <1>4, <1>5, <1>6, <1>7 DEF Next

LEMMA IInvHolds == Spec => []IInv
BY InitIInv, IInvStep, PTL DEF Spec

-----------------------------------------------------------------------------
(***************************************************************************)
(* The theorems.                                                           *)
(***************************************************************************)

\* Every variable of the store and of the searches keeps its type.
THEOREM SearchTypeCorrect == Spec => []TypeOK
<1>1. IInv => TypeOK
  BY DEF IInv
<1> QED BY <1>1, IInvHolds, PTL

\* search_one answers from one snapshot of the whole index, although it loads
\* the sequence number and the read view at three moments.
THEOREM AnswersFromSnapshot == Spec => []SearchIsSnapshot
<1>1. IInv => SearchIsSnapshot
  <2> SUFFICES ASSUME IInv, NEW s \in Judged
               PROVE  search[s].result =
                        TopOf(IndexAt(Ids(search[s].base), search[s].seq))
    BY DEF SearchIsSnapshot
  <2> DEFINE I == Ids(search[s].base)
             N == Newest(search[s].seq)
  <2>1. s \in Searchers /\ SearchInv(s) /\ search[s].at \in {"done", "sampled"}
    BY DEF Judged, IInv
  <2>2. OnePerNode(N) /\ N \in SUBSET Version
    BY NewestOnePerNode DEF IInv
  <2>3. I \in SUBSET DOMAIN Base
    BY <2>1 DEF SearchInv
  <2>4. search[s].result =
          Merge(BaseResults(I), DeltaTop(N), {r \in N : r.node \in I})
    BY <2>1 DEF SearchInv
  <2>5. IndexAt(I, search[s].seq) = BaseResults(I \ NodesOf(N)) \cup Scored(N)
    BY DEF IndexAt, Newest
  <2> QED BY <2>2, <2>3, <2>4, <2>5, MergeOfSnapshot
<1> QED BY <1>1, IInvHolds, PTL

\* Whatever was written before the search began is inside its snapshot.
THEOREM SeesReturnedWrites == Spec => []SearchSeesReturnedWrites
<1>1. IInv => SearchSeesReturnedWrites
  BY DEF IInv, SearchInv, SearchSeesReturnedWrites, Judged
<1> QED BY <1>1, IInvHolds, PTL

\* The answer equals the exact one, taken from a later load of the view, when
\* the graph search was exact and its nodes have no newer versions.
THEOREM RecallExact == Spec => []RecallIsExact
<1>1. IInv => RecallIsExact
  <2> SUFFICES ASSUME IInv, NEW s \in Searchers,
                      search[s].at = "sampled", search[s].calm,
                      search[s].base = TopOf(BaseResults(DOMAIN Base)),
                      Ids(search[s].base) \cap NodesOf(UpTo(log, search[s].seq)) = {}
               PROVE  search[s].result = search[s].exact
    BY DEF RecallIsExact
  <2> DEFINE q == search[s].seq
             I == Ids(search[s].base)
             N == Newest(q)
             All == BaseResults(DOMAIN Base)
             S == BaseResults(DOMAIN Base \ NodesOf(N))
  <2>1. SearchInv(s)
    BY DEF IInv
  <2>2. OnePerNode(N) /\ N \in SUBSET Version
    BY NewestOnePerNode DEF IInv
  <2>3. I \in SUBSET DOMAIN Base /\ search[s].base = BaseResults(I)
    BY <2>1 DEF SearchInv
  <2>4. N \subseteq UpTo(log, q)
    BY DEF Newest, NewestOf
  <2>5. I \cap NodesOf(N) = {}
    BY <2>4 DEF NodesOf
  <2>6. search[s].result = TopOf(BaseResults(I) \cup Scored(N))
    <3>1. search[s].result =
            Merge(BaseResults(I), DeltaTop(N), {r \in N : r.node \in I})
      BY <2>1 DEF SearchInv
    <3>2. I \ NodesOf(N) = I
      BY <2>5
    <3> QED BY <3>1, <3>2, <2>2, <2>3, MergeOfSnapshot
  <2>7. search[s].exact = TopOf(S \cup Scored(N))
    BY <2>1 DEF SearchInv, ExactTop
  <2>8. BaseResults(I) \subseteq S /\ S \subseteq All
    BY <2>3, <2>5 DEF BaseResults
  <2>9. IsFiniteSet(All) /\ All \subseteq Result /\ IsFiniteSet(S) /\ S \subseteq Result
    BY BaseResultsType
  <2>10. TopOf(All) = BaseResults(I)
    BY <2>3
  <2>11. TopOf(S) = TopOf(All)
    BY <2>8, <2>9, <2>10, TopOfBetween
  <2>12. TopOf(Scored(N) \cup BaseResults(I)) = TopOf(Scored(N) \cup S)
    <3>1. IsFiniteSet(Scored(N)) /\ Scored(N) \subseteq Result
      BY <2>2, ScoredType
    <3>2. BaseResults(I) \in SUBSET S /\ TopOf(S) \subseteq BaseResults(I)
      BY <2>8, <2>10, <2>11
    <3> HIDE DEF N, I, S, All
    <3> QED BY <3>1, <3>2, <2>9, TopOfUnion
  <2>13. Scored(N) \cup BaseResults(I) = BaseResults(I) \cup Scored(N)
         /\ Scored(N) \cup S = S \cup Scored(N)
    OBVIOUS
  <2> HIDE DEF N, I, S, All
  <2> QED BY <2>6, <2>7, <2>12, <2>13
<1> QED BY <1>1, IInvHolds, PTL

\* A read sequence moves back only when open() follows a close that did not
\* save next_sequence_id, and then not behind a version that survived.
THEOREM SequencesAdvance == Spec => SequenceAdvances
<1> DEFINE P == latest' < latest => ~opened /\ saved < nextSeq /\ latest' >= durable
<1>1. IInv /\ [Next]_vars => [P]_vars
  <2> SUFFICES ASSUME IInv, Next PROVE P
    OBVIOUS
  <2>1. latest \in Int /\ nextSeq \in Int /\ saved \in Int /\ durable \in Int
        /\ latest < nextSeq
    BY DEF IInv, TypeOK, SequenceInv
  <2>2. CASE OpenLoad
    <3>1. /\ recent' \in Recovered /\ latest' = nextSeq' - 1 /\ ~opened
          /\ nextSeq' = NextSeqAfter(recent') /\ writing = "idle"
      BY <2>2 DEF OpenLoad
    <3>2. nextSeq' \in Int /\ saved <= nextSeq' /\ durable < nextSeq'
      BY <3>1, LoadedNumber DEF IInv
    <3> QED BY <2>1, <3>1, <3>2
  <2>3. CASE ~OpenLoad
    <3>1. latest' = latest \/ latest' = nextSeq - 1
      BY <2>3 DEF Next, Insert, Erase, Write, PublishSequence, Close, OpenView,
             SearchStep, SearchBegin, SearchBase, SearchLatest, SearchMerge,
             SearchSample, SearchReturn, store
    <3> QED BY <3>1, <2>1
  <2> QED BY <2>2, <2>3
<1> QED BY <1>1, IInvHolds, PTL DEF Spec, SequenceAdvances

\* An open view serves the newest version of every node of the history.
LEMMA ServedIsNewest == IInv => (view.opened => NewestOf(view.recs) = NewestOf(log))
<1> SUFFICES ASSUME IInv, view.opened
             PROVE  NewestOf(view.recs) = NewestOf(log)
  OBVIOUS
<1>0. Kept = log
  BY DEF IInv, PublishInv, Kept
<1>1. Visible(nextSeq) = Newest(nextSeq)
  <2>1. HiddenBy(nextSeq)
    BY <1>0, VersionFields DEF IInv, HiddenBy, TypeOK, SequenceInv
  <2> QED BY <2>1, ViewAgrees DEF IInv, TypeOK
<1>2. UpTo(log, nextSeq) = log /\ UpTo(view.recs, nextSeq) = view.recs
  BY <1>0, VersionFields DEF IInv, UpTo, TypeOK, SequenceInv, PublishInv
<1> QED BY <1>1, <1>2 DEF Visible, Newest

\* The operators of the instance are those of this module.
LEMMA SameOperators ==
  ASSUME NEW S, NEW q
  PROVE  /\ Abs!NewestOf(S) = NewestOf(S)
         /\ Abs!UpTo(S, q) = UpTo(S, q)
         /\ Abs!LastSeq(S) = LastSeq(S)
         /\ Abs!Record = Record
BY DEF Abs!NewestOf, NewestOf, Abs!UpTo, UpTo, Abs!LastSeq, LastSeq, Abs!Record, Record

\* Restarts and writes, as readers see them, are those of the abstract store.
THEOREM ViewImplements == Spec => ViewImplementsDurableStore
<1>1. Init => Abs!Init
  BY DEF Init, Abs!Init
<1>2. IInv /\ IInv' /\ [Next]_vars => [Abs!Next]_Abs!avars
  <2> SUFFICES ASSUME IInv, IInv', [Next]_vars
               PROVE  Abs!Next \/ UNCHANGED Abs!avars
    OBVIOUS
  <2>0. (view.opened => NewestOf(view.recs) = NewestOf(log))'
    <3>1. IInv'
      OBVIOUS
    <3>2. (IInv => (view.opened => NewestOf(view.recs) = NewestOf(log)))'
      BY ServedIsNewest, PTL
    <3> QED BY <3>1, <3>2
  <2>1. ASSUME NEW n \in Nodes, NEW v \in Values \cup {Deleted}, Write(n, v)
        PROVE  Abs!Write
    <3> DEFINE r == [seq |-> nextSeq, node |-> n, val |-> v]
    <3>1. view.opened /\ view'.opened /\ view'.opened = view.opened
          /\ durable' = durable /\ log' = log \cup {r}
      BY <2>1 DEF IInv, PublishInv, Write
    <3>2. (IF view.opened THEN NewestOf(view.recs) ELSE {})' = Abs!NewestOf(log')
      BY <2>0, <3>1, SameOperators
    <3>3. r \in Record /\ r \notin log /\ \A p \in log : p.seq < r.seq
      <4>1. Kept = log
        BY <2>1 DEF Write, Kept
      <4> QED BY <4>1, SearchBoundsAssumption, VersionFields
              DEF IInv, TypeOK, SequenceInv, Record
    <3>4. r \in log' \ log
      BY <3>1, <3>3
    <3>5. r \in Abs!Record
      BY <3>3, SameOperators
    <3>6. \E p \in log' \ log : /\ p \in Abs!Record
                                /\ \A q \in log : q.seq < p.seq
                                /\ log' = log \cup {p}
      BY <3>1, <3>3, <3>4, <3>5
    <3> QED BY <3>1, <3>2, <3>6 DEF Abs!Write
  <2>2. CASE Close
    <3>1. view.opened /\ ~view'.opened /\ view'.opened = FALSE
      BY <2>2 DEF IInv, PublishInv, Close
    <3>2. durable' \in durable .. Abs!LastSeq(log) /\ log' = log
      BY <2>2, SameOperators DEF Close
    <3>3. Abs!Stop
      BY <3>1, <3>2 DEF Abs!Stop
    <3> QED BY <3>3 DEF Abs!Next
  <2>3. CASE OpenView
    <3>1. ~view.opened /\ view'.opened = TRUE /\ log' = UpTo(log, durable)
          /\ durable' = durable
      BY <2>3 DEF IInv, PublishInv, OpenView
    <3>2. (IF view.opened THEN NewestOf(view.recs) ELSE {})' = Abs!NewestOf(log')
      BY <2>0, <3>1, SameOperators
    <3>3. log' = Abs!UpTo(log, durable)
      BY <3>1, SameOperators
    <3>4. Abs!Recover
      BY <3>1, <3>2, <3>3 DEF Abs!Recover
    <3> QED BY <3>4 DEF Abs!Next
  <2>4. CASE PublishSequence \/ OpenLoad \/ (\E s \in Searchers : SearchStep(s))
             \/ UNCHANGED vars
    <3>1. view' = view /\ log' = log /\ durable' = durable
      BY <2>4 DEF PublishSequence, OpenLoad, SearchStep, SearchBegin, SearchBase,
         SearchLatest, SearchMerge, SearchSample, SearchReturn, store, vars
    <3> QED BY <3>1 DEF Abs!avars
  <2>5. CASE Insert \/ Erase
    BY <2>1, <2>5 DEF Insert, Erase, Abs!Next
  <2> QED BY <2>2, <2>3, <2>4, <2>5 DEF Next
<1> QED BY <1>1, <1>2, IInvHolds, PTL DEF Spec, ViewImplementsDurableStore, Abs!Spec
=============================================================================
