----------------------------- MODULE BeamSearch -----------------------------
(***************************************************************************)
(* From the graph in memory to the answer of one query: the index file is  *)
(* opened, entry nodes are chosen, and search_one of PackedDiskGraphIndex  *)
(* (or of NaiveDiskGraphIndex, when the build was of that kind) searches   *)
(* it batch by batch, planning prefetches as it goes, and ranks what it    *)
(* found again by exact distance.                                          *)
(*                                                                         *)
(* The order a product quantizer puts the nodes in is Pq, the true one is  *)
(* Exact.  The page session is reduced to what PageSession shows of it:    *)
(* pages at hand, pages being read ahead, and a budget for these.          *)
(***************************************************************************)
EXTENDS GraphFile, PrefetchPlanner

CONSTANTS
  Searches,  \* for every build the DiskGraphSearchConfigs it is searched with
  Pq,        \* adc_distance of every node
  Exact,     \* squared_l2 of every node to the query
  Scores     \* what the prefetch model may say of a page

\* search_one throws unless top_k, search_width and entry_count are positive.
SearchConfig ==
  [entries : {"evenly", "single", "hybrid"}, entryCount : Nat \ {0}, hubs : Nat,
   topK : Nat \ {0}, width : Nat \ {0}, beam : Nat,
   pq : BOOLEAN, rerank : Nat,                      \* adc_enable, rerank_topk
   early : BOOLEAN, earlyMin : Nat,                 \* early_stop...
   adaptive : BOOLEAN, warmUp : Nat, patience : Nat,
   prefetch : {"none", "direct", "model"},          \* xgboost without, with a model
   budget : Nat, maxInflight : Nat, topPages : Nat,
   reuse : Nat, threshold : Nat, planRerank : BOOLEAN]

ASSUME SearchAssumption ==
  /\ Searches \in [Builds -> SUBSET SearchConfig]
  /\ Pq \in [Node -> Nat] /\ Exact \in [Node -> Nat] /\ Scores \subseteq Nat

VARIABLES
  conf,      \* the configuration, << >> until the index is opened
  at,        \* where the program is
  entries,   \* the entry nodes, in order of preference
  visited,   \* visited
  frontier,  \* candidates
  best,      \* best
  expanded,  \* stats.expanded
  stagnant,  \* stagnant_expansions
  worst,     \* previous_worst_distance; -1 is infinity
  batch,     \* the batch being expanded
  pages,     \* pages at hand
  ahead,     \* pending and ready pages: async_page_footprint
  planned,   \* seen_pages_
  result     \* output.topk, the nodes only

session == <<pages, ahead, planned>>
heaps   == <<visited, frontier, best, expanded, stagnant, worst, batch>>
query   == <<conf, entries, heaps, session, result>>
vars    == <<building, file, at, query>>

Places == {"closed", "open", "ready", "search", "expand", "rerank", "load",
           "done", "failed"}

TypeOK ==
  /\ BuildTypeOK /\ FileTypeOK
  /\ at \in Places /\ conf \in IF at = "closed" THEN {<< >>} ELSE Searches[build]
  /\ Range(entries) \subseteq Node /\ Range(batch) \subseteq frontier \cup visited
  /\ visited \subseteq Node /\ frontier \subseteq visited /\ best \subseteq visited
  /\ expanded \in Nat /\ stagnant \in Nat /\ worst \in Nat \cup {-1}
  /\ pages \subseteq AllPages /\ ahead \subseteq AllPages /\ planned \subseteq AllPages
  /\ Range(result) \subseteq visited

Init ==
  /\ BuildInit /\ file = NoFile
  /\ conf = << >> /\ at = "closed" /\ entries = << >>
  /\ visited = {} /\ frontier = {} /\ best = {} /\ batch = << >>
  /\ expanded = 0 /\ stagnant = 0 /\ worst = -1
  /\ pages = {} /\ ahead = {} /\ planned = {} /\ result = << >>

Naive == build.packing = "one-node"

\* The distance the search goes by.
Key == IF conf.pq THEN Pq ELSE Exact

\* result_capacity
Capacity == Min({Max({Min({conf.topK, N}), conf.rerank}), N})

Full == Cardinality(best) >= Capacity

Worst(S) == Max({Key[u] : u \in S})

\* A bug: a full heap takes no more.
FaultyAddBest(B, u) == IF Cardinality(B) < Capacity THEN B \cup {u} ELSE B

\* add_best
AddBest(B, u) == Range(Take(ByDistance(Key, B \cup {u}), Capacity))

AddAll(B, nodes) == FoldLeft(AddBest, B, nodes)

-----------------------------------------------------------------------------
\* Opening.

OpenIndex ==
  /\ at = "closed" /\ stage \in {"ready", "failed"}
  /\ at' = IF Opens THEN "open" ELSE "failed"
  /\ conf' \in Searches[build]
  /\ UNCHANGED <<building, file, entries, heaps, session, result>>

\* select_global_medoid knows nothing of deleted nodes; the mean of the
\* vectors may be nearest to any.
EntriesOf(strategy) ==
  CASE strategy = "evenly" -> {EvenlySpaced(N, conf.entryCount)}
    [] strategy = "single" -> {<<m>> : m \in Node}
    [] strategy = "hybrid" ->
         UNION {HybridEntries(m, InDegrees, conf.entryCount, conf.hubs) : m \in Node}

\* select_search_entries; hybrid reads the whole file first.
SelectEntries ==
  /\ at = "open"
  /\ IF conf.entries = "hybrid" /\ \E p \in AllPages : ~Readable(p)
     THEN at' = "failed" /\ UNCHANGED entries
     ELSE at' = "ready"  /\ entries' \in EntriesOf(conf.entries)
  /\ UNCHANGED <<building, file, conf, heaps, session, result>>

\* The candidates a node brings in, checked to be loadable when the naive
\* index has no quantizer and reads them for their distance.
Loadable(S) == conf.pq \/ \A u \in S : Found(u)

\* initialize_search_state.  The packed index refuses to search without a
\* quantizer.
StartSearch ==
  /\ at = "ready"
  /\ LET seeds == Range(entries)
     IN  IF (~Naive /\ ~conf.pq) \/ ~Loadable(seeds)
         THEN at' = "failed" /\ UNCHANGED heaps
         ELSE /\ at' = "search"
              /\ visited' = seeds /\ frontier' = seeds
              /\ best' = AddAll({}, entries)
              /\ UNCHANGED <<expanded, stagnant, worst, batch>>
  /\ UNCHANGED <<building, file, conf, entries, session, result>>

-----------------------------------------------------------------------------
\* Stopping.

\* The search stops at a candidate as near as the worst result.
FaultyShouldStop(u) ==
  conf.early /\ expanded >= conf.earlyMin /\ Key[u] >= Worst(best) \div 2

\* should_stop
ShouldStop(u) ==
  conf.early /\ Full /\ expanded >= conf.earlyMin /\ Key[u] > Worst(best)

\* update_frontier, its first half
Exhausted ==
  conf.adaptive /\ expanded >= conf.warmUp /\ stagnant >= conf.patience

\* update_adaptive_stop for the results B, with an improvement of a
\* thousandth of the worst distance at least.
Stagnation(st, B) ==
  IF ~conf.adaptive \/ Cardinality(B) < Capacity THEN st
  ELSE LET now == Worst(B)
           better == \/ st.worst = -1
                     \/ 1000 * (st.worst - now) > Max({1, st.worst})
       IN  [stagnant |-> IF better THEN 0 ELSE st.stagnant + 1, worst |-> now]

-----------------------------------------------------------------------------
\* The packed index: batches.

BeamWidth == Max({1, Min({IF conf.beam = 0 THEN conf.width ELSE conf.beam, conf.width})})

\* A batch is not cut to what is left of search_width.
FaultyNextBatch ==
  LET ranked == Take(ByDistance(Key, frontier), BeamWidth)
  IN  IF Exhausted \/ expanded >= conf.width THEN << >>
      ELSE SelectSeq(ranked, LAMBDA u : ~ShouldStop(u))

\* select_candidate_batch: the nearest candidates up to the first that need
\* not be looked at.
NextBatch ==
  LET ranked == Take(ByDistance(Key, frontier),
                     Min({BeamWidth, conf.width - expanded}))
      ok     == {i \in DOMAIN ranked : ~ShouldStop(ranked[i])}
      first  == {i \in ok : \A j \in 1 .. i : j \in ok}
  IN  IF Exhausted THEN << >> ELSE Take(ranked, Cardinality(first))

PagesOf(S) == {PageOf(u) : u \in S}

\* ensure_pages_loaded_batch waits for the pages being read ahead and reads
\* the others; a page that is not there or lacks the node ends the search.
LoadBatch ==
  /\ at = "search" /\ ~Naive
  /\ LET want == PagesOf(Range(NextBatch))
     IN  IF NextBatch = << >> THEN at' = "rerank" /\ UNCHANGED <<batch, pages, ahead>>
         ELSE IF \E u \in Range(NextBatch) : ~Found(u)
         THEN at' = "failed" /\ UNCHANGED <<batch, pages, ahead>>
         ELSE /\ at' = "expand" /\ batch' = NextBatch
              /\ pages' = pages \cup want /\ ahead' = ahead \ want
  /\ UNCHANGED <<building, file, conf, entries, visited, frontier, best,
                 expanded, stagnant, worst, planned, result>>

\* Nodes visited by earlier batches come back.
FaultyNewNeighbours ==
  [i \in DOMAIN batch |->
     ByDistance(Key, Range(RowOf(batch[i])) \
                       UNION {Range(RowOf(batch[j])) : j \in 1 .. i - 1})]

\* The neighbours every node of the batch is the first to reach, nearest
\* first.
NewNeighbours ==
  [i \in DOMAIN batch |->
     ByDistance(Key, Range(RowOf(batch[i])) \
                       (visited \cup UNION {Range(RowOf(batch[j])) : j \in 1 .. i - 1}))]

\* Candidates enter the results first and the stop is judged once per node.
ExpandHeaps(rows) ==
  LET Enter(st, row) ==
        LET B == AddAll(st.best, row)
            s == Stagnation([stagnant |-> st.stagnant, worst |-> st.worst], B)
        IN  [best |-> B, stagnant |-> s.stagnant, worst |-> s.worst]
      st == FoldLeft(Enter, [best |-> best, stagnant |-> stagnant, worst |-> worst], rows)
      new == UNION {Range(rows[i]) : i \in DOMAIN rows}
  IN  /\ visited' = visited \cup new
      /\ frontier' = (frontier \ Range(batch)) \cup new
      /\ best' = st.best /\ stagnant' = st.stagnant /\ worst' = st.worst
      /\ expanded' = expanded + Len(batch)
      /\ batch' = << >>

-----------------------------------------------------------------------------
\* Prefetching.

Available == pages \cup ahead

\* expand_candidate_batch: the pages of the nearest new candidates.
PrefetchPages(rows) ==
  LET most == Max({1, 2 * (IF conf.beam = 0 THEN conf.width ELSE conf.beam)})
      Add(S, u) == IF Cardinality(S) < most /\ PageOf(u) \notin Available
                   THEN S \cup {PageOf(u)} ELSE S
  IN  FoldLeft(LAMBDA S, row : FoldLeft(Add, S, row), {}, rows)

\* queue_prefetch_request, for pages in this order: as many as the budget
\* has room for.
Queue(order_) ==
  LET new == Keep(order_, Range(order_) \ Available)
  IN  ahead \cup Range(Take(new, Max({0, conf.budget - Cardinality(ahead)})))

\* submit_pages_direct, in the order of an unordered_set.
SubmitDirect(S) ==
  /\ \E s \in SetToSeqs(S) : ahead' = Queue(s)
  /\ UNCHANGED planned

\* submit_candidate_prefetch and submit_jit_prefetch.  Every page may get
\* any score.
SubmitPlan(cands, reuse) ==
  \E score \in [Range(cands) -> Scores] :
    LET plan == Plan([conf EXCEPT !.reuse = reuse], cands, score,
                       Available \cup planned, Cardinality(ahead))
    IN  /\ planned' = planned \cup Range(plan)
        /\ ahead' = Queue(plan)

\* expand_candidate_batch
Expand ==
  /\ at = "expand"
  /\ LET rows == NewNeighbours
         want == PrefetchPages(rows)
     IN  /\ ExpandHeaps(rows)
         /\ CASE conf.prefetch = "direct" -> SubmitDirect(want)
              [] conf.prefetch = "model" /\ want # {} ->
                   \E cands \in SetToSeqs(want) : SubmitPlan(cands, conf.reuse)
              [] OTHER -> UNCHANGED <<ahead, planned>>
  /\ at' = "search"
  /\ UNCHANGED <<building, file, conf, entries, pages, result>>

-----------------------------------------------------------------------------
\* The naive index: one node at a time.

NaiveExpand ==
  /\ at = "search" /\ Naive
  /\ IF frontier = {} \/ expanded >= conf.width \/ Exhausted
        \/ ShouldStop(Nearest(Key, frontier))
     THEN at' = "rerank" /\ UNCHANGED heaps
     ELSE LET u   == Nearest(Key, frontier)
              new == Range(RowOf(u)) \ visited
              B   == AddAll(best, Keep(RowOf(u), new))
              s   == Stagnation([stagnant |-> stagnant, worst |-> worst], B)
          IN  IF ~Found(u) \/ ~Loadable(new)
              THEN at' = "failed" /\ UNCHANGED heaps
              ELSE /\ visited' = visited \cup new
                   /\ frontier' = (frontier \ {u}) \cup new
                   /\ best' = B /\ expanded' = expanded + 1
                   /\ stagnant' = s.stagnant /\ worst' = s.worst
                   /\ UNCHANGED <<at, batch>>
  /\ UNCHANGED <<building, file, conf, entries, session, result>>

-----------------------------------------------------------------------------
\* Ranking.

Reranks == conf.pq /\ conf.rerank > 0

\* finalize_topk up to maybe_issue_rerank_prefetch
PlanRerank ==
  /\ at = "rerank"
  /\ LET topk  == Take(ByDistance(Key, best), conf.rerank)
         cands == Keep([i \in DOMAIN topk |-> PageOf(topk[i])], AllPages \ pages)
     IN  IF Reranks /\ ~Naive /\ conf.planRerank /\ cands # << >>
         THEN SubmitPlan(cands, 1)
         ELSE UNCHANGED <<ahead, planned>>
  /\ at' = "load"
  /\ UNCHANGED <<building, file, conf, entries, heaps, pages, result>>

\* The results are cut before they are ranked by exact distance.
FaultyFinalOrder ==
  ByDistance(Exact, Range(Take(ByDistance(Key, best), conf.topK)))

\* What finalize_topk sorts by and cuts to effective_k.
FinalOrder ==
  Take(ByDistance(IF Reranks THEN Exact ELSE Key, best), conf.topK)

\* finalize_topk from the loads on; finish_query drops what is still ahead.
Finish ==
  /\ at = "load"
  /\ IF Reranks /\ \E u \in best : ~Found(u)
     THEN at' = "failed" /\ UNCHANGED <<pages, ahead, result>>
     ELSE /\ at' = "done"
          /\ result' = FinalOrder
          /\ pages' = pages \cup (IF Reranks THEN PagesOf(best) ELSE {})
          /\ ahead' = {}
  /\ UNCHANGED <<building, file, conf, entries, heaps, planned>>

SearchStep ==
  \/ OpenIndex \/ SelectEntries \/ StartSearch
  \/ LoadBatch \/ Expand \/ NaiveExpand \/ PlanRerank \/ Finish

\* The program has answered or thrown.
Ended == at \in {"done", "failed"} /\ UNCHANGED vars

Next ==
  \/ (BuildStep /\ UNCHANGED file /\ UNCHANGED <<at, query>>)
  \/ (WriteStep /\ UNCHANGED <<at, query>>)
  \/ (BuildStops /\ UNCHANGED <<at, query>>)
  \/ SearchStep
  \/ Ended

Spec == Init /\ [][Next]_vars

-----------------------------------------------------------------------------
\* Properties.

\* Entry nodes are distinct, and unless a single one is asked for there are
\* as many as asked for, or every node: places that hubs and cluster medoids
\* share are filled with evenly spaced nodes.
EntriesFillUp ==
  entries # << >>
  => /\ IsInjective(entries) /\ Range(entries) \subseteq Node
     /\ conf.entries # "single" => Len(entries) = Min({conf.entryCount, N})

\* The heap kept across batches has lost nothing: the answer is what sorting
\* all visited nodes at the end would give, the nearest by the quantizer
\* ranked again by exact distance.
ResultIsBestVisited ==
  at = "done"
  => LET kept == Range(Take(ByDistance(Key, visited), Capacity))
     IN  result = Take(ByDistance(IF Reranks THEN Exact ELSE Key, kept), conf.topK)

\* The nodes that can be reached in the graph as it was built.
Reachable(S) ==
  {v \in Node : \A C \in SUBSET Node :
     S \subseteq C /\ (\A u \in C : Range(graph[u]) \subseteq C) => v \in C}

\* A search that ran out of candidates and ranked all it found gives the
\* exact nearest neighbours among the nodes the built graph leads to from its
\* entries: nothing is lost on the way through patches, packing, pages,
\* directory and batches, not even when parts of the file are missing.
FullSearchIsExact ==
  LET reached == Reachable(Range(entries))
  IN  at = "done" /\ frontier = {} /\ Reranks /\ Capacity >= Cardinality(reached)
      => result = Take(ByDistance(Exact, reached), conf.topK)

\* A search stopped by distance leaves only candidates that are farther than
\* all results it holds, and holds as many as were asked for.
EarlyStopLeavesFarther ==
  at = "done" /\ frontier # {} /\ expanded < conf.width /\ ~Exhausted
  => Full /\ \A u \in frontier, b \in best : Key[u] > Key[b]

\* What the planner selects it selects once, so the session has to read it:
\* a plan never exceeds the room the session's budget has left.
PlannedIsRead ==
  at \in {"search", "expand", "rerank", "load"} /\ conf.budget > 0
  => planned \subseteq pages \cup ahead

\* The program fails only on a file that a build left incomplete, or without
\* the quantizer the packed index needs.
FailsOnlyWhenIncomplete ==
  at = "failed" => ~Complete \/ (~Naive /\ ~conf.pq)

Phase ==
  CASE at = "closed" -> 0 [] at = "open" -> 1 [] at = "ready" -> 2
    [] at \in {"search", "expand"} -> 3 [] at = "rerank" -> 4 [] at = "load" -> 5
    [] at \in {"done", "failed"} -> 6

\* The search ends: it goes from phase to phase, and within the search every
\* batch, even one that stops early, holds a candidate; every candidate of a
\* batch is expanded, none comes back, and none beyond search_width is taken,
\* whatever the batches are.
BatchesAdvance ==
  [][/\ Phase' >= Phase
     /\ Phase = 3 /\ Phase' = 3 =>
          \/ at = "search" /\ at' = "expand" /\ batch' # << >>
          \/ /\ at' = "search"
             /\ expanded < expanded' /\ expanded' <= conf.width
             /\ expanded' = Cardinality(visited' \ frontier')
             /\ (visited \ frontier) \subseteq (visited' \ frontier')]_vars
=============================================================================
