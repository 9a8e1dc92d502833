------------------------------ MODULE MCIndex ------------------------------
(***************************************************************************)
(* BeamSearch for TLC: five vectors on a line, two of them equal, at most  *)
(* two neighbours each, two nodes on a page.  The quantizer puts the nodes *)
(* in another order than their distances to the query, which is a point    *)
(* between the third and the fourth.                                       *)
(***************************************************************************)
EXTENDS BeamSearch

Points == [u \in 0 .. 4 |-> <<0, 0, 2, 4, 7>>[u + 1]]
Square(a) == a * a
Distances == [u \in 0 .. 4 |-> [v \in 0 .. 4 |-> Square(Points[u] - Points[v])]]
ToQuery   == [u \in 0 .. 4 |-> Square(Points[u] - 3)]
Quantized == [u \in 0 .. 4 |-> <<9, 8, 2, 5, 4>>[u + 1]]

Alpha    == <<144, 100>>
OneOrder == {<<4, 2, 0, 1, 3>>}
OneTable == {[u \in 0 .. 4 |-> IF u < 3 THEN {} ELSE {1}]}
OneBit   == {1}
TwoQueries == <<ToQuery, [u \in 0 .. 4 |-> Square(Points[u] - 7)]>>
TwoScores  == {0, 1}

Base == [policy |-> "exact", packing |-> "bfs", dead |-> {}, reverse |-> TRUE,
         passes |-> 1, window |-> 1, samples |-> 0, limit |-> 0, radius |-> 0,
         bucket |-> 2, queries |-> 2]

Approx  == [Base EXCEPT !.policy = "approx-rp"]
Lsh     == [Base EXCEPT !.policy = "lsh-rp", !.window = 1, !.radius = 1]
LshVam  == [Base EXCEPT !.policy = "lsh-vamana", !.passes = 2, !.samples = 1]
Vamana  == [Base EXCEPT !.policy = "vamana"]

\* Every policy with and without deleted nodes, limits and reverse edges, and
\* every packing.
SomeBuilds ==
  {Base,
   [Base EXCEPT !.dead = {1, 3}],
   [Base EXCEPT !.packing = "random"],
   [Base EXCEPT !.packing = "hotpath"],
   [Base EXCEPT !.packing = "hotpath", !.queries = 0],
   [Base EXCEPT !.packing = "one-node"],
   [Approx EXCEPT !.samples = 1, !.packing = "coaccess"],
   [Approx EXCEPT !.limit = 2, !.reverse = FALSE, !.dead = {2}],
   [Approx EXCEPT !.limit = 1],
   [Lsh EXCEPT !.samples = 1, !.dead = {0}],
   [Lsh EXCEPT !.bucket = 1, !.limit = 3],
   LshVam, [LshVam EXCEPT !.dead = {2, 4}, !.samples = 0],
   Vamana,
   [Vamana EXCEPT !.limit = 1, !.packing = "one-node"],
   [Vamana EXCEPT !.dead = {1, 2}],
   [Vamana EXCEPT !.reverse = FALSE, !.dead = {0}],
   [Vamana EXCEPT !.dead = {0, 1, 2, 3, 4}]}

Plain == [entries |-> "evenly", entryCount |-> 2, hubs |-> 1, topK |-> 1,
          width |-> 5, beam |-> 2, pq |-> TRUE, rerank |-> 5, early |-> FALSE,
          earlyMin |-> 0, adaptive |-> FALSE, warmUp |-> 0, patience |-> 1,
          prefetch |-> "none", budget |-> 0, maxInflight |-> 0, topPages |-> 1,
          reuse |-> 2, threshold |-> 1, planRerank |-> FALSE]

Early    == [Plain EXCEPT !.entryCount = 1, !.early = TRUE, !.rerank = 0, !.earlyMin = 1]
Adaptive == [Plain EXCEPT !.entries = "single", !.adaptive = TRUE, !.warmUp = 1,
                          !.beam = 1, !.rerank = 2, !.topK = 2]
Direct   == [Plain EXCEPT !.entries = "single", !.prefetch = "direct", !.budget = 1,
                          !.width = 3]
Model    == [Plain EXCEPT !.entries = "single", !.prefetch = "model", !.budget = 2,
                          !.beam = 1, !.maxInflight = 1, !.planRerank = TRUE]
Crowded  == [Model EXCEPT !.beam = 2, !.budget = 1, !.maxInflight = 3, !.reuse = 1,
                          !.topPages = 2, !.width = 2]
Hybrid   == [Plain EXCEPT !.entries = "hybrid", !.entryCount = 3, !.width = 2,
                          !.beam = 0, !.rerank = 2]
NoPq     == [Plain EXCEPT !.pq = FALSE, !.rerank = 0, !.topK = 2]

SearchesOf ==
  [b \in SomeBuilds |->
     IF b.packing = "one-node" THEN {Plain, NoPq, [NoPq EXCEPT !.early = TRUE], Adaptive}
     ELSE IF b.packing = "random" THEN {Plain}
     ELSE {Plain, Early, Adaptive, Direct, Model,
           [Model EXCEPT !.width = 2], Crowded}
          \cup (IF b \in {Base, Vamana} THEN {Hybrid, NoPq} ELSE {})]
=============================================================================
