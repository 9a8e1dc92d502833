---------------------------- MODULE EngineSearch ----------------------------
(***************************************************************************)
(* PackedGraphEngine::search_one running beside the one writer: the        *)
(* lock-free read side of DynamicWriteManager.  A writer, under mutex_,    *)
(* publishes read_view_ and then latest_sequence_; a search takes no lock  *)
(* and loads latest_sequence_ once and read_view_ twice, at three moments  *)
(* with the search of the disk graph in between.                           *)
(*                                                                         *)
(* One query is modelled: Dist is the distance of every vector to it.  The *)
(* graph search is an approximation, so it may return any TopK or fewer    *)
(* nodes of the base index.  What a restart of the store recovers is taken *)
(* from DurableStore, which DynamicStore implements.                       *)
(*                                                                         *)
(* As in DynamicStore, definitions named Faulty... are bugs the code does  *)
(* not have, used by no action.                                            *)
(***************************************************************************)
EXTENDS DynamicRecords, FiniteSets

CONSTANTS
  Searchers,  \* threads that call search_one
  Base,       \* the vectors of the disk graph: a function from nodes
  Dist,       \* squared_l2(query, v)
  TopK,       \* top_k
  MaxSeq,     \* bound: sequence numbers, one fewer after every close
  MaxCloses   \* bound: calls of close

\* Identifiers and vectors are numbers of a fixed width.
ASSUME NodesAssumption == Nodes \subseteq Nat /\ IsFiniteSet(Nodes)
ASSUME VectorsAssumption ==
  /\ IsFiniteSet(Values)
  /\ DOMAIN Base \subseteq Nodes
  /\ \A n \in DOMAIN Base : Base[n] \in Values
  /\ Dist \in [Values -> Nat]
ASSUME SearchBoundsAssumption ==
  TopK \in Nat /\ MaxSeq \in Nat /\ MaxCloses \in Nat

VARIABLES
  recent,   \* recent_records_
  nextSeq,  \* manifest_.next_sequence_id
  saved,    \* next_sequence_id in manifest.json, as of the last close
  opened,   \* opened_
  view,     \* *read_view_: its opened and history_records
  latest,   \* latest_sequence_
  writing,  \* the next step of the call that holds mutex_
  search,   \* per searcher: where search_one is, and its local variables
  log,      \* history: the versions that took effect and were not lost
  durable,  \* history: every version up to here survives a close
  acked,    \* history: the last version whose write has returned
  closes

store == <<recent, nextSeq, saved, opened, view, latest, writing>>
vars  == <<store, search, log, durable, acked, closes>>

Version == [seq : 1 .. MaxSeq, node : Nodes, val : Values \cup {Deleted}]

\* A SearchResult.
Result == [id : Nodes, dist : Nat]

View == [opened : BOOLEAN, recs : SUBSET Version]

\* floor and calm are history: the last write that had returned when the
\* search began, and whether the store has stayed open since.
SearchState ==
  [at : {"idle", "base", "latest", "delta", "done", "sampled"},
   seq : 0 .. MaxSeq, base : SUBSET Result, newest : SUBSET Version,
   result : SUBSET Result, exact : SUBSET Result,
   floor : 0 .. MaxSeq, calm : BOOLEAN]

NoSearch == [at |-> "idle", seq |-> 0, base |-> {}, newest |-> {},
             result |-> {}, exact |-> {}, floor |-> 0, calm |-> FALSE]

TypeOK ==
  /\ recent \subseteq Version /\ log \subseteq Version
  /\ nextSeq \in 1 .. MaxSeq + 1 /\ saved \in 1 .. MaxSeq + 1
  /\ opened \in BOOLEAN /\ view \in View
  /\ latest \in 0 .. MaxSeq /\ acked \in 0 .. MaxSeq /\ durable \in 0 .. MaxSeq
  /\ writing \in {"idle", "open", "write", "publish"}
  /\ search \in [Searchers -> SearchState]
  /\ closes \in Nat

Init ==
  /\ recent = {} /\ nextSeq = 1 /\ saved = 1 /\ opened = FALSE
  /\ view = [opened |-> FALSE, recs |-> {}]
  /\ latest = 0 /\ writing = "idle"
  /\ search = [s \in Searchers |-> NoSearch]
  /\ log = {} /\ durable = 0 /\ acked = 0 /\ closes = 0

-----------------------------------------------------------------------------
\* The writer.

\* The view is published before the record is added to recent_records_.
FaultyWrite(n, v) ==
  LET r == [seq |-> nextSeq, node |-> n, val |-> v] IN
  /\ writing = "idle" /\ opened /\ nextSeq <= MaxSeq - closes
  /\ recent' = recent \cup {r} /\ log' = log \cup {r}
  /\ nextSeq' = nextSeq + 1
  /\ view' = [opened |-> TRUE, recs |-> recent]
  /\ writing' = "write"
  /\ UNCHANGED <<saved, opened, latest, search, durable, acked, closes>>

\* append_record_locked up to the store of read_view_ (the log and the
\* memtable, which no reader sees, are in DynamicStore).
Write(n, v) ==
  LET r == [seq |-> nextSeq, node |-> n, val |-> v] IN
  /\ writing = "idle" /\ opened /\ nextSeq <= MaxSeq - closes
  /\ recent' = recent \cup {r} /\ log' = log \cup {r}
  /\ nextSeq' = nextSeq + 1
  /\ view' = [opened |-> TRUE, recs |-> recent']
  /\ writing' = "write"
  /\ UNCHANGED <<saved, opened, latest, search, durable, acked, closes>>

Insert == \E n \in Nodes, v \in Values : Write(n, v)
Erase  == \E n \in Nodes : Write(n, Deleted)

\* The store of latest_sequence_ is forgotten.
FaultyPublishSequence ==
  /\ writing \in {"write", "publish"}
  /\ writing' = "idle"
  /\ acked' = IF writing = "write" THEN nextSeq - 1 ELSE acked
  /\ UNCHANGED <<recent, nextSeq, saved, opened, view, latest, search, log,
                 durable, closes>>

\* next_sequence_id itself is stored, not the last number used.
FaultyPublishNext ==
  /\ writing \in {"write", "publish"}
  /\ latest' = nextSeq
  /\ writing' = "idle"
  /\ acked' = IF writing = "write" THEN nextSeq - 1 ELSE acked
  /\ UNCHANGED <<recent, nextSeq, saved, opened, view, search, log, durable,
                 closes>>

\* The end of publish_read_view_locked; the write returns.
PublishSequence ==
  /\ writing \in {"write", "publish"}
  /\ latest' = nextSeq - 1
  /\ writing' = "idle"
  /\ acked' = IF writing = "write" THEN nextSeq - 1 ELSE acked
  /\ UNCHANGED <<recent, nextSeq, saved, opened, view, search, log, durable,
                 closes>>

\* Searches that are under way no longer count as undisturbed.
Disturb == search' = [s \in Searchers |-> [search[s] EXCEPT !.calm = FALSE]]

\* close: the closed view keeps the records.  It goes on when the manifest
\* cannot be saved, and then manifest.json keeps the number that a flush, a
\* compaction or an earlier close left there.  (That a failing save removes
\* manifest.json is in DynamicStore; it can lose what was durable.)
Close ==
  /\ writing = "idle" /\ opened /\ closes < MaxCloses
  /\ closes' = closes + 1
  /\ opened' = FALSE
  /\ view' = [opened |-> FALSE, recs |-> recent]
  /\ writing' = "publish"
  /\ saved' \in saved .. nextSeq
  /\ durable' \in durable .. LastSeq(log)
  /\ Disturb
  /\ UNCHANGED <<recent, nextSeq, latest, log, acked>>

\* What open may load: for every node the newest durable version, and
\* perhaps older ones.
Recovered ==
  {R \in SUBSET UpTo(log, durable) : Covers(R, UpTo(log, durable))}

\* A bug: the number is taken from the records alone.
FaultyNextSeqOfRecords(loaded) == LastSeq(loaded) + 1

\* next_sequence_id once open has read manifest.json and the records.
NextSeqAfter(loaded) ==
  IF LastSeq(loaded) + 1 > saved THEN LastSeq(loaded) + 1 ELSE saved

\* open, up to the store of latest_sequence_, which here comes before the
\* view.  What has not survived does not count as written any more.
OpenLoad ==
  /\ writing = "idle" /\ ~opened
  /\ recent' \in Recovered
  /\ nextSeq' = NextSeqAfter(recent')
  /\ latest' = nextSeq' - 1
  /\ acked' = durable
  /\ opened' = TRUE
  /\ writing' = "open"
  /\ UNCHANGED <<saved, view, search, log, durable, closes>>

\* open's publish_read_view_locked stores the view.
OpenView ==
  /\ writing = "open"
  /\ view' = [opened |-> TRUE, recs |-> recent]
  /\ log' = UpTo(log, durable)
  /\ writing' = "publish"
  /\ UNCHANGED <<recent, nextSeq, saved, opened, latest, search, durable,
                 acked, closes>>

-----------------------------------------------------------------------------
\* Candidates and their order: search_result_less, and the cut to top_k.

Less(a, b) == a.dist < b.dist \/ (a.dist = b.dist /\ a.id < b.id)

TopOf(S) == {c \in S : Cardinality({d \in S : Less(d, c)}) < TopK}

Live(R) == {r \in R : r.val # Deleted}

Scored(R)  == {[id |-> r.node, dist |-> Dist[r.val]] : r \in Live(R)}
BaseResults(ids) == {[id |-> n, dist |-> Dist[Base[n]]] : n \in ids}
Ids(S)     == {c.id : c \in S}
NodesOf(R) == {r.node : r \in R}

\* The whole history, whatever the read sequence.
FaultyVisible(q) == IF view.opened THEN NewestOf(view.recs) ELSE {}

\* deduplicate_newest_at over one load of the view.
Visible(q) == IF view.opened THEN NewestOf(UpTo(view.recs, q)) ELSE {}

\* exact_dynamic_topk on the records of a snapshot.
ExactTop(snapshot) ==
  TopOf(BaseResults(DOMAIN Base \ NodesOf(snapshot)) \cup Scored(snapshot))

\* Tombstones are not asked for.
FaultyLatestRecordsFor(ids, q) ==
  {r \in Live(Visible(q)) : r.node \in ids}

\* latest_records_for with include_deleted.
LatestRecordsFor(ids, q) == {r \in Visible(q) : r.node \in ids}

\* search_delta_l2_at: the records behind the delta's own top_k.
SearchDelta(q) ==
  {r \in Live(Visible(q)) :
     [id |-> r.node, dist |-> Dist[r.val]] \in TopOf(Scored(Visible(q)))}

\* merge_base_and_delta_l2 on the delta results followed by the newest
\* records of the base results: of one node the last entry counts.
Merge(base, delta, newest) ==
  LET recs == newest \cup {r \in delta : r.node \notin NodesOf(newest)}
  IN  TopOf({c \in base : c.id \notin NodesOf(recs)} \cup Scored(recs))

-----------------------------------------------------------------------------
\* search_one.

\* current_sequence().
SearchBegin(s) ==
  /\ search[s].at = "idle"
  /\ search' = [search EXCEPT ![s] =
       [NoSearch EXCEPT !.at = "base", !.seq = latest, !.floor = acked,
                        !.calm = view.opened]]
  /\ UNCHANGED <<store, log, durable, acked, closes>>

\* index_.search_one: some nodes of the base index, at most TopK.
SearchBase(s) ==
  /\ search[s].at = "base"
  /\ \E ids \in SUBSET DOMAIN Base :
       /\ Cardinality(ids) <= TopK
       /\ search' = [search EXCEPT ![s].at = "latest",
                                   ![s].base = BaseResults(ids)]
  /\ UNCHANGED <<store, log, durable, acked, closes>>

\* The first load of the view.
SearchLatest(s) ==
  /\ search[s].at = "latest"
  /\ search' = [search EXCEPT ![s].at = "delta",
       ![s].newest = LatestRecordsFor(Ids(search[s].base), search[s].seq)]
  /\ UNCHANGED <<store, log, durable, acked, closes>>

\* The second load; the merge needs no shared state.
SearchMerge(s) ==
  /\ search[s].at = "delta"
  /\ search' = [search EXCEPT ![s].at = "done",
       ![s].result = Merge(search[s].base, SearchDelta(search[s].seq),
                           search[s].newest)]
  /\ UNCHANGED <<store, log, durable, acked, closes>>

\* The mixed read/write benchmark now takes a snapshot at the same sequence
\* number, a third load, and searches everything exactly.
SearchSample(s) ==
  /\ search[s].at = "done"
  /\ search' = [search EXCEPT ![s].at = "sampled",
       ![s].exact = ExactTop(Visible(search[s].seq))]
  /\ UNCHANGED <<store, log, durable, acked, closes>>

SearchReturn(s) ==
  /\ search[s].at \in {"done", "sampled"}
  /\ search' = [search EXCEPT ![s] = NoSearch]
  /\ UNCHANGED <<store, log, durable, acked, closes>>

SearchStep(s) ==
  \/ SearchBegin(s) \/ SearchBase(s) \/ SearchLatest(s) \/ SearchMerge(s)
  \/ SearchSample(s) \/ SearchReturn(s)

Next ==
  \/ Insert \/ Erase \/ PublishSequence \/ Close \/ OpenLoad \/ OpenView
  \/ \E s \in Searchers : SearchStep(s)

Spec == Init /\ [][Next]_vars

-----------------------------------------------------------------------------
\* Properties.

\* The searches whose result can be judged: the store was open all along.
Judged == {s \in Searchers : search[s].at \in {"done", "sampled"} /\ search[s].calm}

\* The state of the index as of sequence number q: the base vectors of ids,
\* each replaced or removed by its newest version, and the delta's nodes.
IndexAt(ids, q) ==
  LET newest == NewestOf(UpTo(log, q))
  IN  BaseResults(ids \ NodesOf(newest)) \cup Scored(newest)

\* Two loads of the view, the delta's own cut to top_k and a merge that looks
\* up only the base nodes it has, give what one look at the whole index as of
\* the read sequence would give: no stale base vector, no deleted node, no
\* write after the read sequence, no delta node missing.
SearchIsSnapshot ==
  \A s \in Judged :
    search[s].result = TopOf(IndexAt(Ids(search[s].base), search[s].seq))

\* A search sees every write that returned before it began.
SearchSeesReturnedWrites ==
  \A s \in Judged : search[s].floor <= search[s].seq

\* When the graph search found the nearest base nodes and no version touches
\* one of them, the answer is the one the benchmark takes as the truth: an
\* exact search of the base vectors and of a snapshot taken afterwards.
RecallIsExact ==
  \A s \in Searchers :
    /\ search[s].at = "sampled" /\ search[s].calm
    /\ search[s].base = TopOf(BaseResults(DOMAIN Base))
    /\ Ids(search[s].base) \cap NodesOf(UpTo(log, search[s].seq)) = {}
    => search[s].result = search[s].exact

\* latest_sequence_ moves back only when the store is opened again after a
\* close that could not save next_sequence_id: after an orderly close read
\* sequences handed out stay comparable with later ones, even if versions were
\* lost.  And it never moves back behind a version that survived, which every
\* later search must see.
SequenceAdvances ==
  [][latest' < latest => ~opened /\ saved < nextSeq /\ latest' >= durable]_vars

\* What a reader finds in the view is what DurableStore serves.
Abs == INSTANCE DurableStore WITH
         up     <- view.opened,
         served <- IF view.opened THEN NewestOf(view.recs) ELSE {}
ViewImplementsDurableStore == Abs!Spec
=============================================================================
