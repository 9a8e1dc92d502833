----------------------------- MODULE GraphBuild -----------------------------
(***************************************************************************)
(* build_graph and packed_order: one graph built row by row under one of   *)
(* the five policies, patched with reverse edges, repaired around deleted  *)
(* nodes and put in the order of its pages.                                *)
(*                                                                         *)
(* The builders run in one thread; every action is a loop iteration or a   *)
(* pass, so that the invariants speak of the graph at every moment.  What  *)
(* a seed decides (samples, LSH subsets, the insertion order of Vamana,    *)
(* the shuffles) is left open.                                             *)
(***************************************************************************)
EXTENDS NeighborGraph

CONSTANTS
  Builds,       \* the DiskGraphBuildConfigs, records of BuildConfig
  Projections,  \* rank orders of the random projections
  Tables,       \* LSH tables: functions from nodes to signatures
  Bits,         \* lsh_bits, as a set
  Training      \* hotpath_queries: distances of every row to each

Policies == {"exact", "approx-rp", "lsh-rp", "lsh-vamana", "vamana"}

\* "one-node" is NaiveDiskGraphBuilder, the others are packing strategies.
Packings == {"one-node", "random", "bfs", "coaccess", "hotpath"}

BuildConfig ==
  [policy : Policies, packing : Packings,
   dead : SUBSET Node,       \* deleted_ids
   reverse : BOOLEAN,        \* reverse_edge_patch
   passes : Nat,             \* prune_passes
   window : Nat, samples : Nat, limit : Nat,   \* approx_...
   radius : {0, 1}, bucket : Nat,              \* lsh_...
   queries : Nat]            \* hotpath_train_queries; 0 without queries

ASSUME BuildAssumption ==
  /\ Builds \subseteq BuildConfig
  /\ Projections \subseteq Orders
  /\ Tables \subseteq [Node -> SUBSET Bits]
  /\ Training \in Seq([Node -> Nat])

VARIABLES
  build,   \* the configuration
  stage,   \* where build_graph is
  graph,
  todo,    \* the nodes still to be visited
  passes,  \* the reverse passes still to run
  medoid,
  order    \* packed_order's result

building == <<build, stage, graph, todo, passes, medoid, order>>

Stages == {"start", "rows", "insert", "reverse", "patch", "order", "write",
           "failed", "ready"}

Live == Node \ build.dead

BuildTypeOK ==
  /\ build \in Builds /\ stage \in Stages
  /\ DOMAIN graph = Node /\ \A u \in Node : Range(graph[u]) \subseteq Node
  /\ todo \subseteq Node /\ passes \in Nat /\ medoid \in Node
  /\ order # << >> => Len(order) = N /\ Range(order) = Node

EmptyGraph == [u \in Node |-> << >>]

BuildInit ==
  /\ build \in Builds /\ stage = "start"
  /\ graph = EmptyGraph /\ todo = Node /\ passes = 0 /\ medoid = 0
  /\ order = << >>

-----------------------------------------------------------------------------
\* Rows.

\* deduplicate_and_limit, add_deterministic_samples
Candidates(u, found) ==
  UNION {Limited((p[1] \cup Ring(u, build.window) \cup p[2]) \ {u}, build.limit) :
           p \in found \X Samples(build.samples)}

\* add_lsh_candidates: over every table and every bucket probed.
LshCandidates(u) ==
  LET probes == UNION {{t} \X Probes(u, t, Bits, build.radius) : t \in Tables}
      yields == {y \in [probes -> SUBSET Node] :
                   \A p \in probes : y[p] \in BucketCandidates(p[1], p[2], build.bucket)}
  IN  {UNION Range(y) : y \in yields}

\* initial_graph: the ring, nearest offsets first, then samples, cut to the
\* degree.
InitialRows(u) ==
  LET ring == [i \in 1 .. 2 * EffectiveDegree |->
                 LET o == (i + 1) \div 2
                 IN  IF i % 2 = 1 THEN (u + o) % N ELSE (u + N - o) % N]
      own  == AppendAll(<< >>, Keep(ring, Live \ {u}), N)
      rest == Live \ (Range(own) \cup {u})
  IN  IF u \notin Live \/ N = 1 THEN {<< >>}
      ELSE {Take(own \o more, Degree) : more \in SetToAllKPermutations(rest)}

\* The row build_exact_graph, build_approx_projection_graph,
\* build_lsh_projection_graph or initial_graph gives a node.
Rows(u) ==
  CASE build.policy = "exact"   -> {NearestNeighbors(u, Node)}
    [] build.policy = "approx-rp" ->
         {RobustPrune(u, C, {}) : C \in Candidates(u,
            {UNION {ProjectionCandidates(u, p, build.window) : p \in Projections}})}
    [] build.policy = "lsh-vamana" ->
         {RobustPrune(u, C, {}) : C \in Candidates(u, LshCandidates(u))}
    [] build.policy = "lsh-rp"  ->
         {NearestNeighbors(u, C) : C \in Candidates(u, LshCandidates(u))}
    [] build.policy = "vamana"  -> InitialRows(u)

\* validate_build_policy, and find_medoid, which throws when nothing is left.
\* The medoid is the live node nearest to the mean of the live vectors.
Valid ==
  IF build.policy = "vamana" THEN Live # {}
  ELSE build.policy = "exact" \/ (build.window > 0 /\ (build.limit = 0 \/ build.limit >= Degree))

Begin ==
  /\ stage = "start"
  /\ IF Valid THEN stage' = "rows" ELSE stage' = "failed"
  /\ medoid' \in IF Valid /\ build.policy = "vamana" THEN Live ELSE {0}
  /\ UNCHANGED <<build, graph, todo, passes, order>>

BuildRow ==
  /\ stage = "rows" /\ todo # {}
  /\ LET u == Min(todo)
     IN  /\ \E row \in Rows(u) : graph' = [graph EXCEPT ![u] = row]
         /\ todo' = todo \ {u}
  /\ UNCHANGED <<build, stage, passes, medoid, order>>

RowsDone ==
  /\ stage = "rows" /\ todo = {}
  /\ IF build.policy = "vamana"
     THEN stage' = "insert" /\ todo' = Node /\ UNCHANGED passes
     ELSE /\ stage' = "reverse" /\ UNCHANGED todo
          /\ passes' = IF build.policy = "exact" \/ ~build.reverse THEN 0
                       ELSE Max({1, build.passes})
  /\ UNCHANGED <<build, graph, medoid, order>>

-----------------------------------------------------------------------------
\* Vamana.

\* build_graph's search_width: so large that only a candidate limit counts.
ConstructionWidth ==
  IF build.limit = 0 THEN Max({8 * Degree, 200}) ELSE Max({build.limit, Degree})

\* search_for_construction: from the medoid, or from the lowest other live
\* node when the medoid itself is inserted.
Explored(u) ==
  LET others == Live \ {u}
      entry  == IF medoid # u THEN {medoid}
                ELSE IF others = {} THEN {} ELSE {Min(others)}
  IN  BestFirst(graph, Dist[u], entry, ConstructionWidth, {u} \cup build.dead).explored

\* The neighbours the node had are forgotten.
FaultyInsert(u) ==
  LET row == RobustPrune(u, Explored(u) \ {medoid}, build.dead)
  IN  [graph EXCEPT ![u] = row]

\* insert: prune what the search found with the old row, then add the
\* reverse edges.
Insert(u) ==
  LET row  == RobustPrune(u, Explored(u) \cup Range(graph[u]), build.dead)
      with == [graph EXCEPT ![u] = row]
  IN  IF build.reverse
      THEN AddReverseRow(with, u, row, build.dead)
      ELSE with

InsertNode(u) ==
  /\ stage = "insert" /\ u \in todo
  /\ graph' = IF u \in Live THEN Insert(u) ELSE [graph EXCEPT ![u] = << >>]
  /\ todo' = todo \ {u}
  /\ UNCHANGED <<build, stage, passes, medoid, order>>

InsertDone ==
  /\ stage = "insert" /\ todo = {}
  /\ stage' = "order"
  /\ UNCHANGED <<build, graph, todo, passes, medoid, order>>

-----------------------------------------------------------------------------
\* Patches and order.

ReversePass ==
  /\ stage = "reverse" /\ passes > 0
  /\ graph' = IF build.policy = "lsh-vamana" THEN PruneOverfull(AddReverseEdges(graph))
              ELSE AddReverseEdgesBatch(graph)
  /\ passes' = passes - 1
  /\ UNCHANGED <<build, stage, todo, medoid, order>>

ReverseDone ==
  /\ stage = "reverse" /\ passes = 0
  /\ stage' = "patch"
  /\ UNCHANGED <<build, graph, todo, passes, medoid, order>>

Patch ==
  /\ stage = "patch"
  /\ graph' = IF build.dead = {} THEN graph ELSE DeletePatch(graph, build.dead)
  /\ stage' = "order"
  /\ UNCHANGED <<build, todo, passes, medoid, order>>

\* Limits of hotpath_order.
HotpathWidth   == 2
HotpathEntries == 2

\* packed_order, called with nodes_per_page; NaiveDiskGraphBuilder keeps the
\* natural order.
OrdersFor(perPage) ==
  CASE build.packing = "one-node" -> {[i \in 1 .. N |-> i - 1]}
    [] build.packing = "random"   -> Orders
    [] build.packing = "bfs"      -> {BfsOrder(graph)}
    [] build.packing = "coaccess" -> CoaccessOrders(graph, perPage)
    [] build.packing = "hotpath"  ->
         {HotpathOrder(graph, Take(Training, build.queries), HotpathWidth,
                       HotpathEntries)}

\* Only hotpath packing asks for queries, when the graph is already built.
ChooseOrder(perPage) ==
  /\ stage = "order"
  /\ IF build.packing = "hotpath" /\ build.queries = 0
     THEN stage' = "failed" /\ UNCHANGED order
     ELSE stage' = "write"  /\ order' \in OrdersFor(perPage)
  /\ medoid' = 0
  /\ UNCHANGED <<build, graph, todo, passes>>

BuildStep ==
  \/ Begin \/ BuildRow \/ RowsDone
  \/ \E u \in Node : InsertNode(u)
  \/ InsertDone \/ ReversePass \/ ReverseDone \/ Patch

-----------------------------------------------------------------------------
\* Properties.

WellFormed(u) ==
  /\ Len(graph[u]) <= Degree
  /\ IsInjective(graph[u]) /\ u \notin Range(graph[u])

\* After every row, insertion, pass and repair no row is longer than the
\* degree its record on disk has room for, and no row names a node twice or
\* the node itself.
RowsWellFormed == \A u \in Node : WellFormed(u)

Built == stage \in {"order", "write", "ready"}

\* A finished graph leads to no deleted node, and deleted nodes have no rows.
DeletedUnreachable ==
  Built => \A u \in Node : /\ Range(graph[u]) \cap build.dead = {}
                           /\ u \in build.dead => graph[u] = << >>

\* No policy leaves a node the search could enter and not leave: pruning
\* keeps the nearest candidate, and there is one as long as another node
\* lives.  Only the repair of the other policies may use up a row.
NoDeadEnds ==
  Built /\ (build.policy = "vamana" \/ build.dead = {})
  => \A u \in Live : Live # {u} => graph[u] # << >>
=============================================================================
