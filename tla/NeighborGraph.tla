---------------------------- MODULE NeighborGraph ----------------------------
(***************************************************************************)
(* The algorithms the graph builders are made of: which neighbours a node  *)
(* keeps, how reverse edges and deletions repair the graph, in which order *)
(* its nodes go to disk, and which nodes a search starts from.             *)
(*                                                                         *)
(* A node is a row number of the base vectors.  A graph is a function from *)
(* nodes to sequences of nodes, as the rows are ordered.  Distances are    *)
(* numbers given by a table; they stand for the floats of squared_l2, and  *)
(* alpha is a fraction.  What a random generator decides is any choice.    *)
(*                                                                         *)
(* Definitions named Faulty... are bugs the code does not have.            *)
(***************************************************************************)
EXTENDS Integers, SequencesExt

CONSTANTS
  N,        \* base.size()
  Dist,     \* squared_l2 of two rows: Dist[u][v]
  Degree,   \* config.degree
  AlphaSq   \* robust_prune_alpha squared: <<numerator, denominator>>

Node == 0 .. N - 1

ASSUME GraphAssumption ==
  /\ N \in Nat \ {0} /\ Degree \in Nat \ {0}
  /\ Dist \in [Node -> [Node -> Nat]]
  /\ AlphaSq \in Nat \X (Nat \ {0}) /\ AlphaSq[1] >= AlphaSq[2]

Take(s, n) == SubSeq(s, 1, Min({n, Len(s)}))

\* BetterNeighborFirst, closer_candidate: nearer, and of equal distance the
\* lower id.
Closer(d, a, b) == d[a] < d[b] \/ (d[a] = d[b] /\ a < b)

\* std::sort of a set by a total order.
Sorted(S, Before(_, _)) ==
  [i \in 1 .. Cardinality(S) |->
     CHOOSE u \in S : Cardinality({v \in S : Before(v, u)}) = i - 1]

ByDistance(d, S) == Sorted(S, LAMBDA a, b : Closer(d, a, b))

Nearest(d, S) == ByDistance(d, S)[1]

\* All nodes, those that count most first.
MostFirst(w) == Sorted(Node, LAMBDA a, b : w[a] > w[b] \/ (w[a] = w[b] /\ a < b))

\* The elements of s that are in T, in their order.
Keep(s, T) ==
  LET kept == Sorted({i \in DOMAIN s : s[i] \in T}, LAMBDA i, j : i < j)
  IN  [k \in DOMAIN kept |-> s[kept[k]]]

EffectiveDegree == Min({Degree, N - 1})

-----------------------------------------------------------------------------
\* Rows.

\* nearest_neighbors_from_candidates; exact_neighbors when S is every node.
NearestNeighbors(u, S) ==
  Take(ByDistance(Dist[u], S \ {u}), EffectiveDegree)

\* A candidate is redundant when a neighbour picked before is near enough.
Occludes(picked, u, c) == AlphaSq[1] * Dist[picked][c] <= AlphaSq[2] * Dist[u][c]

\* robust_prune_neighbors, robust_prune: nearest first, without the node
\* itself, deleted nodes and redundant ones.
RobustPrune(u, S, dead) ==
  LET Pick(row, c) ==
        IF /\ Len(row) < EffectiveDegree
           /\ \A i \in DOMAIN row : ~Occludes(row[i], u, c)
        THEN Append(row, c) ELSE row
  IN  IF u \in dead THEN << >>
      ELSE FoldLeft(Pick, << >>, ByDistance(Dist[u], S \ ({u} \cup dead)))

-----------------------------------------------------------------------------
\* Reverse edges.

Sources(g, t) == {s \in Node : t \in Range(g[s])}

\* add_reverse_edges_batch: every row with its reverse edges, cut again to
\* the nearest.
AddReverseEdgesBatch(g) ==
  [t \in Node |-> IF Sources(g, t) = {} THEN g[t]
                  ELSE NearestNeighbors(t, Range(g[t]) \cup Sources(g, t))]

\* The row takes the edge whether or not it is full.
FaultyAddReverseEdge(g, s, t, dead) ==
  IF s \in Range(g[t]) THEN g ELSE [g EXCEPT ![t] = Append(@, s)]

\* add_reverse_edge: a full row is pruned with the new edge among the
\* candidates.
AddReverseEdge(g, s, t, dead) ==
  IF s = t \/ {s, t} \cap dead # {} \/ s \in Range(g[t]) THEN g
  ELSE IF Len(g[t]) < Degree THEN [g EXCEPT ![t] = Append(@, s)]
  ELSE [g EXCEPT ![t] = RobustPrune(t, Range(@) \cup {s}, dead)]

\* The edges from s to its row, one after the other.
AddReverseRow(g, s, row, dead) ==
  FoldLeft(LAMBDA h, t : AddReverseEdge(h, s, t, dead), g, row)

\* add_reverse_edges_vamana: for the edges as they were.
AddReverseEdges(g) ==
  FoldLeft(LAMBDA h, s : AddReverseRow(h, s, g[s], {}), g, [i \in 1 .. N |-> i - 1])

\* prune_overfull_nodes
PruneOverfull(g) ==
  [u \in Node |-> IF Len(g[u]) <= Degree THEN g[u]
                  ELSE RobustPrune(u, Range(g[u]), {})]

-----------------------------------------------------------------------------
\* Deletion.

\* The sources keep their edges to deleted nodes when they have room.
FaultyDeletePatch(g, dead) ==
  [u \in Node |->
     IF u \in dead THEN << >>
     ELSE IF Range(g[u]) \subseteq dead THEN g[u]
     ELSE RobustPrune(u, Range(g[u]), dead)]

\* apply_freshvamana_delete_patch: a source of a deleted node chooses again
\* among its own neighbours, the deleted node's and its other sources.
DeletePatch(g, dead) ==
  LET Around(v) == (Range(g[v]) \cup Sources(g, v)) \ dead
  IN  [u \in Node |->
         IF u \in dead THEN << >>
         ELSE LET gone == Range(g[u]) \cap dead
              IN  IF gone = {} THEN g[u]
                  ELSE RobustPrune(u, Range(g[u]) \cup UNION {Around(v) : v \in gone},
                                   dead)]

-----------------------------------------------------------------------------
\* Candidates of a row.

\* add_deterministic_samples: the ring around the row number.
Ring(u, window) ==
  UNION {{(u + o) % N, (u + N - o) % N} : o \in 1 .. Min({window, N - 1})}

\* add_deterministic_samples: what its generator may draw.
Samples(n) == IF N <= 1 THEN {{}} ELSE {S \in SUBSET Node : Cardinality(S) <= n}

\* add_projection_candidates: the rows of near rank.  order ranks all nodes
\* by one projection.
ProjectionCandidates(u, order, window) ==
  LET rank == CHOOSE i \in DOMAIN order : order[i] = u
  IN  {order[i] : i \in {j \in DOMAIN order : rank - window <= j /\ j <= rank + window}}

\* add_lsh_bucket_candidates: what one bucket may yield.  A table is a
\* function from nodes to signatures, which are sets of bits.
BucketCandidates(table, signature, limit) ==
  LET bucket == {v \in Node : table[v] = signature}
  IN  IF Cardinality(bucket) <= limit THEN {bucket}
      ELSE {S \in SUBSET bucket : S # {} /\ Cardinality(S) <= limit}

\* add_lsh_candidates for one table: the buckets looked at.
Probes(u, table, bits, radius) ==
  {table[u]} \cup
  IF radius = 0 THEN {} ELSE {SymDiff(table[u], {b}) : b \in bits}

\* deduplicate_and_limit: what it may leave of the candidates.
Limited(S, limit) ==
  IF limit = 0 \/ Cardinality(S) <= limit THEN {S} ELSE kSubset(limit, S)

-----------------------------------------------------------------------------
\* Best-first search over a graph in memory.

\* search_for_construction and the training searches of hotpath_order:
\* at most width nodes are explored, nearest first.
BestFirst(g, d, seeds, width, banned) ==
  LET Explore(st, i) ==
        IF st.frontier = {} THEN st
        ELSE LET u   == Nearest(d, st.frontier)
                 new == Range(g[u]) \ (st.visited \cup banned)
             IN  [frontier |-> (st.frontier \ {u}) \cup new,
                  visited  |-> st.visited \cup new,
                  explored |-> st.explored \cup {u}]
      start == [frontier |-> seeds, visited |-> seeds, explored |-> {}]
  IN  FoldLeftDomain(Explore, start, [i \in 1 .. Min({width, N}) |-> i])

-----------------------------------------------------------------------------
\* Entry points.

\* entry_points, select_evenly_spaced_entries: from the first row to the
\* last in equal steps.
EvenlySpaced(count, requested) ==
  LET actual == Min({requested, count})
  IN  [i \in 1 .. actual |->
         IF actual = 1 THEN 0 ELSE ((i - 1) * (count - 1)) \div (actual - 1)]

\* append_unique
AppendUnique(row, id, limit) ==
  IF Len(row) >= limit \/ id \in Range(row) THEN row ELSE Append(row, id)

AppendAll(row, ids, limit) ==
  FoldLeft(LAMBDA r, id : AppendUnique(r, id, limit), row, ids)

\* select_hub_entries: the nodes most edges lead to.
HubEntries(inDegree, requested) == Take(MostFirst(inDegree), requested)

\* select_cluster_medoids: rows that are not used twice, one for a cluster
\* that is not empty, out of an evenly spaced sample.
ClusterMedoids(requested, trainLimit) ==
  LET sample == Range(EvenlySpaced(N, Max({requested, trainLimit})))
      few    == {S \in SUBSET sample : Cardinality(S) <= requested}
  IN  UNION {SetToSeqs(S) : S \in few}

\* select_entry_points, hybrid: medoid, hubs, cluster medoids, and evenly
\* spaced rows for the places left.
HybridEntries(medoid, inDegree, count, hubs) ==
  LET first == AppendAll(AppendUnique(<< >>, medoid, count),
                         HubEntries(inDegree, hubs), count)
  IN  {AppendAll(AppendAll(first, c, count), EvenlySpaced(N, count), count) :
         c \in ClusterMedoids(count - Len(first), N)}

-----------------------------------------------------------------------------
\* The order in which nodes are laid out on pages.

Orders == SetToSeqs(Node)    \* random_order

\* A node is queued by each of its sources.
FaultyBfsOrder(g) ==
  LET Visit(st, i) ==
        LET u == IF st.queue = << >> THEN Min(Node \ Range(st.order)) ELSE Head(st.queue)
        IN  [order |-> Append(st.order, u),
             queue |-> (IF st.queue = << >> THEN << >> ELSE Tail(st.queue)) \o g[u]]
  IN  FoldLeftDomain(Visit, [order |-> << >>, queue |-> << >>],
                     [i \in 1 .. N |-> i]).order

\* bfs_order: breadth first, from the lowest node not reached.
BfsOrder(g) ==
  LET Visit(st, i) ==
        LET u    == IF st.queue = << >> THEN Min(Node \ Range(st.order))
                    ELSE Head(st.queue)
            rest == IF st.queue = << >> THEN << >> ELSE Tail(st.queue)
            seen == Range(st.order) \cup Range(rest) \cup {u}
        IN  IF Range(st.order) = Node THEN st
            ELSE [order |-> Append(st.order, u),
                  queue |-> rest \o Keep(g[u], Node \ seen)]
  IN  FoldLeftDomain(Visit, [order |-> << >>, queue |-> << >>],
                     [i \in 1 .. N |-> i]).order

\* coaccess_order: a page begins with the lowest node left and goes on with
\* a neighbour of its nodes, the one its scores prefer, while there is one.
CoaccessOrders(g, perPage) ==
  {order \in Orders :
     \A i \in DOMAIN order :
       LET left  == Node \ {order[j] : j \in 1 .. i - 1}
           begin == i - ((i - 1) % perPage)
           near  == left \cap UNION {Range(g[order[j]]) : j \in begin .. i - 1}
       IN  IF near = {} THEN order[i] = Min(left) ELSE order[i] \in near}

\* hotpath_order: most visited by the training queries first.
HotpathOrder(g, training, width, entries) ==
  MostFirst([u \in Node |-> Cardinality({q \in DOMAIN training :
     u \in BestFirst(g, training[q], Range(EvenlySpaced(N, entries)),
                     width, {}).visited})])
=============================================================================
