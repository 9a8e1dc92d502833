--------------------------- MODULE PrefetchPlanner ---------------------------
(***************************************************************************)
(* PrefetchPlanner::plan_candidates: which of the pages a search may want  *)
(* next are read ahead.  Candidates come as a sequence of pages, one entry *)
(* for a candidate node, best first.  A model scores every page; here a    *)
(* score is any number, given as a function.                               *)
(***************************************************************************)
EXTENDS Integers, SequencesExt

\* num_candidates_on_page and min_pq_rank_on_page
CountOn(cands, p) == Cardinality({i \in DOMAIN cands : cands[i] = p})
MinRank(cands, p) == Min({i \in DOMAIN cands : cands[i] = p})

\* The better limit of the two, instead of the stricter one.
FaultyInflightLimit(config, context) ==
  IF config = 0 \/ context = 0 THEN config + context ELSE Max({config, context})

\* inflight_limit: zero stands for no limit.
InflightLimit(config, context) ==
  IF config = 0 \/ context = 0 THEN config + context ELSE Min({config, context})

\* The sort of rank_and_throttle.
Better(cands, score, p, q) ==
  IF score[p] # score[q] THEN score[p] > score[q]
  ELSE IF CountOn(cands, p) # CountOn(cands, q)
  THEN CountOn(cands, p) > CountOn(cands, q)
  ELSE MinRank(cands, p) < MinRank(cands, q)

Ranked(cands, score) ==
  LET pages == Range(cands)
  IN  [i \in 1 .. Cardinality(pages) |->
         CHOOSE p \in pages :
           Cardinality({q \in pages : Better(cands, score, q, p)}) = i - 1]

\* rank_and_throttle for a configuration conf and inflight pages already
\* under way.  skipped are the pages that plan_coalesced_candidates finds
\* cached, pending, ready, materialized or planned before.
Plan(conf, cands, score, skipped, inflight) ==
  LET limit == InflightLimit(conf.maxInflight, conf.budget)
      minReuse == Max({1, conf.reuse})
      Room(n) == limit = 0 \/ inflight + n < limit
      Worth(p) == p \notin skipped /\ score[p] >= conf.threshold
      ranked == Ranked(cands, score)
      Select(pages, p) ==
        IF /\ Worth(p) /\ CountOn(cands, p) >= minReuse
           /\ Len(pages) < conf.topPages /\ Room(Len(pages))
        THEN Append(pages, p) ELSE pages
      chosen == FoldLeft(Select, << >>, ranked)
      spare  == {i \in DOMAIN ranked :
                   Worth(ranked[i]) /\ CountOn(cands, ranked[i]) < minReuse}
  IN  IF conf.topPages = 0 THEN << >>
      ELSE IF chosen # << >> THEN chosen
      ELSE IF Room(0) /\ spare # {} THEN <<ranked[Min(spare)]>> ELSE << >>
=============================================================================
