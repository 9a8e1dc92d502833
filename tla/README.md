# agent-aware in TLA+

agent-aware is a disk-based vector index: a graph searched page by page from
SSD, and in front of it a dynamic write layer that takes inserts, updates and
deletes while searches run. This directory models that program, checks the
models with TLC and proves the main theorems with TLAPS. All paths below are
relative to the root of the repository.

## 1. The system

| part | files | state | operations |
|---|---|---|---|
| dynamic write layer | `src/dynamic/*` | `wal.log`, SSTables, `manifest.json`; the memtable, `recent_records_`, the WAL stream, the read view | `open`, `insert`/`update`, `erase`, `flush`, `compact_once`, `close`; reads: `get`, `snapshot`, `search_delta_l2_at` |
| storage engine | `src/engine/storage_engine.cpp` | none of its own | `search_one`: base graph result merged with the delta of one snapshot |
| async page reader | `src/core/async_page_reader.cpp` | request pool, pending reads, completion queue | submit a batch, poll, wait, close |
| query page session | `src/core/query_page_session.cpp` | the pages one query asked for, prefetched, pinned or used | demand, prefetch, drain completions, release, finish |
| disk graph index | `src/graph/disk_graph_index.cpp` | page cache with pin counts, scratch page, search frontier | read a page, pin, unpin, evict, beam search |
| prefetch planner | `src/core/prefetch_planner.cpp` | none: a function of the frontier | rank and cut the candidates to prefetch |
| graph builder, codec, Vamana builder | `src/graph/*builder.cpp`, `disk_page_codec.cpp` | the graph in memory, then the index file | rows, reverse edges, repair, packing order, header, directory, pages |
| entry selector, naive index | `src/graph/entry_selector.cpp`, `naive_disk_graph_index.cpp` | entry nodes; the same file without packing | choose entries; search one node at a time |
| mixed read/write benchmark | `src/mixed_rw_benchmark.cpp` | atomics shared by its threads, metrics | readers, writers, compaction thread, report |
| SIFT search benchmark | `src/sift_search_benchmark.cpp` | the index file, reports | build or reuse an index, search it |
| legacy LSM tree | `src/storage/lsm_tree.cpp` | an earlier log, segments and buckets | used by no program |
| flat disk index, data sets, scripts | the rest | files, reports | sequential I/O and analysis |

How they interact. The engine owns one disk graph index and one write manager.
Writers call the manager under its mutex; readers never take it: they load the
published view and a sequence number. A query runs the beam search, which asks
a page session for pages; the session takes them from the cache or from the
async reader, and prefetches what the planner selects. Only the write layer
changes durable state while the program serves.

What is hard:

- the write layer: the process may die between any two changes of the disk, and
  each file operation may fail. Three places (tables, log, manifest) must agree
  on what happened, and recovery must find a prefix of the history;
- the read side: readers take no lock and see the sequence number and the view
  at different moments;
- the page path: overlapped reads complete in any order, pages are pinned by
  one query while another wants room, a submission may fail half way;
- the index: between a base vector and an answer lie a random graph, pruning,
  repairs, a packing order, a file that may have lost its tail, and a search
  with five reasons to stop; a node lost on the way only lowers the recall;
- the benchmark: its threads share counters without a lock, and a report that is
  wrong by a race looks like any other report.

What makes each part correct:

- write layer: recovery yields a prefix of the history; sequence numbers are
  never reused; the manifest names only tables that open; flush and close mean
  durable; compaction changes no node's newest version;
- engine: a search sees every write that returned before it began and no write
  above its read sequence;
- async reader: every submitted read completes once, its slot is returned, close
  terminates; session: every page is counted once and every pin undone;
- cache: a pinned page is not evicted, and a pin count never goes below zero;
- planner: the limits hold for all values, zero included;
- builder: rows within the degree, no deleted node led to, no live node a dead
  end, and a file that gives back every row;
- beam search: it ends, expands no node twice, and answers with the best of
  what it visited;
- benchmark: the report counts what was done, and every run ends.

## 2. Modules

| module | models |
|---|---|
| `DynamicRecords` | record versions and the "newest version per node" computations `MemTable`, `SSTableWriter`, `CompactionJob` and `open` share |
| `DurableStore` | the abstract promise of the write layer: a history, a durable point, what readers are served |
| `DynamicStore` | `DynamicWriteManager` with the files behind it, crashes and failing file operations |
| `EngineSearch` | `PackedGraphEngine::search_one` beside the writer: the lock-free read side of `DynamicWriteManager` |
| `PageReader` | `AsyncPageReader` with io_uring: the buffer pool, the submission and completion queues, failures, close; offers its operations as operators |
| `PageSession` | `QueryPageSession` and the page cache over `PageReader`: demand, prefetch, pins, the end of a query, for one query after the other |
| `NeighborGraph` | the algorithms on a graph in memory: pruning, reverse edges, deletion, candidates, best-first search, entry nodes, packing orders |
| `GraphBuild` | `build_graph` and `packed_order`, row by row, under each of the five policies |
| `GraphFile` | the index file, as `PackedDiskGraphBuilder` and `NaiveDiskGraphBuilder` write it and the two indexes read it |
| `PrefetchPlanner` | `plan_candidates`, as operators |
| `BeamSearch` | opening an index, entry nodes and `search_one`, of the packed and of the naive index |
| `MixedWorkload` | one scenario of `mixed_rw_benchmark`, with all its threads |
| `MCDynamicStore`, `MCEngineSearch`, `MCPageSession`, `MCIndex`, `MCMixedWorkload` | the values the cfg files give to constants |
| `DynamicRecordsProofs` | lemmas on the operators of `DynamicRecords`, used by both proof trees |
| `DynamicStoreProofs`, `DynamicStoreRecovery` | theorems about `DynamicStore` |
| `EngineSearchProofs` | theorems about `EngineSearch` |
| `PageSessionProofs` | theorems about `PageReader` and `PageSession` |
| `GraphProofs` | lemmas on the operators of `NeighborGraph`, the invariants of `GraphBuild` and `GraphFile` |
| `BeamSearchProofs` | theorems about the index, from the build to the answer |
| `MixedWorkloadProofs` | theorems about `MixedWorkload` |

`EngineSearch` and `DynamicStore` share `DynamicRecords` and meet in
`DurableStore`: `DynamicStore` implements it from below, with files, and
`EngineSearch` uses what it promises of a restart and implements it again from
above, as what readers see. The index is separate: nobody writes its file while
it is searched, and it gives `EngineSearch` only the base result. Of its two
halves, `PageSession` shows that a page asked for arrives, whatever is read
ahead, and leaves open which pages are asked for; `BeamSearch` says which, and
reduces the session to what `PageSession` shows of it: pages at hand, pages on
their way, a budget. `GraphBuild`, `GraphFile` and `BeamSearch` extend each
other and run as one program, from vectors to an answer. `MixedWorkload` stands
above all: its steps are the calls whose inside the other modules model.

### DynamicStore and the code

The mutex of the manager is modelled by `pc`: an operation starts when `pc =
"idle"` and holds it until its last step. An operation is split exactly where
the disk changes, since that is where a crash makes a difference.

| code | actions |
|---|---|
| `insert`, `update`, `erase` -> `append_record_locked` | `Insert`, `Erase` (`Append`), `AppendRefused` |
| `flush_locked` | `Flush` or the automatic flush of `Append`, then `FlushBegin` (files truncated), `FlushWrite` (data, index, meta), `FlushManifest`, `FlushOpen` |
| `rotate_wal_locked` | `RotateClose`, `RotateRemove` |
| `compact_once`, `CompactionJob::run` | `Compact`, `CompactWrite`, `CompactOpen`, `CompactManifest`, `CompactDelete` (one table at a time) |
| `open` | `Open`, `OpenFails` |
| `close` | `Close`, `CloseWal` |
| the process dies | `Crash` |

`buf` is what the WAL stream holds and has not handed to the operating system.
The stream writes when its buffer is full, at moments the code does not choose;
the model decides how much got out when it matters, at a crash or at a failing
close (`Spilled`): some prefix of the records, perhaps with a part of the next
one. `wal.torn` says that such a part is in the file. `log` is a history
variable: the versions that took effect, cut at `Open` to what was recovered.

What is abstracted:

- a record's vector and neighbour list are one value; the choice of neighbours
  changes no other state;
- a container is a set of records: the code depends on record order only
  through sequence numbers;
- the flush threshold counts records, not bytes;
- checksums are taken to detect every torn record, so what follows a torn
  record is never read and is not kept in the model;
- a failed write does not leave the whole record in the file;
- a table with a missing or truncated file does not open (`ok = FALSE`);
- file operations fail only as listed under `FaultKinds`, each at the line the
  comment names; a crash is the death of the process, not of the machine;
- calls that return at once without effect (`open` of an open store, `insert`
  on a closed one) are not actions;
- after a close or a crash memory is forgotten, as the next use is an `open`.

### EngineSearch and the code

A writer publishes in two steps, `read_view_` and then `latest_sequence_`, and
`open` does it in the reverse order; a search reads these two variables at
three moments, and the mixed read/write benchmark once more.

| code | actions |
|---|---|
| `append_record_locked` up to the store of `read_view_` | `Insert`, `Erase` (`Write`) |
| the store of `latest_sequence_` in `publish_read_view_locked` | `PublishSequence` |
| `close`; `open` up to its store of `latest_sequence_`; the rest of `open` | `Close`; `OpenLoad`; `OpenView` |
| `search_one`: `current_sequence` | `SearchBegin` |
| `index_.search_one` | `SearchBase` |
| `latest_records_for` | `SearchLatest` |
| `search_delta_l2_at` and `merge_base_and_delta_l2` | `SearchMerge` |
| `record_recall_sample`: `snapshot_at`, `exact_dynamic_topk` | `SearchSample` |

`acked`, and `floor` and `calm` in a search, are history variables: the last
version whose write has returned, that number when the search began, and
whether the store has stayed open since. A search that overlaps a close finds
an empty delta and is not judged.

What is abstracted:

- one query: `Dist` gives the distance of every vector to it;
- the graph search returns any set of at most `top_k` base nodes: it is
  approximate, and no property may depend on how good it is (`BeamSearch` says
  what it does inside). Their distances are taken to be exact, as they are when
  results are ranked again;
- results are sets: `search_result_less` orders them totally, so the order adds
  nothing;
- every vector has the engine's dimension (`insert` and the delta search check
  it), so no record is skipped for it;
- what `open` recovers is not computed from files again but any set that covers
  a durable prefix of the history, which is what `DynamicStore` guarantees; a
  crash ends the searches too, so only `close` interrupts them here;
- `saved` is the `next_sequence_id` of `manifest.json`. `close` goes on when it
  cannot save the manifest, and then the number is any that a flush, a
  compaction or an earlier close may have left; `open` computes the next number
  from it and from what it has loaded (`NextSeqAfter`), so it may be smaller
  than before the close;
- `get` (a lookup of one node) and the neighbours `insert` picks are left out:
  no search reads either.

### PageSession and the code

`search_one` holds `search_mutex_`, so an index has one session at a time; the
page reader and the cache belong to the index and outlive it. Two actors
interleave: the session's thread (`pc`) and the kernel, which completes reads
in any order (`Complete`, `CompleteBad`). A call of the session is split where
it waits for a completion or submits reads.

| code | actions |
|---|---|
| `search_one` takes the mutex and creates the session | `Begin` |
| `ensure_pages_loaded_batch`, `get_or_load_page`: what is already there or pending | `EnsurePagesLoaded`, `GetOrLoadPage`, then per page `ScanHit`, `ScanReady`, `ScanWait`, `ScanMissing`, then `ScanEnd` |
| the chunks of missing pages, `read_demand_page` | `Chunk`, then per completion `AwaitDemand`, `AwaitOther`, then `DemandEnd` |
| `submit_pages_direct`; the submit functions that ask the planner | `SubmitPages`; `SubmitCandidates` |
| `submit_prefetch_plan` | `QueueRequest` per page, `FlushRequests`, `PlanEnd` |
| `drain_ready_pages` | `Drain` |
| `pin_page` | `PinPage` |
| exceptions out of these | `ScanWaitFails`, `ScanEndFails`, `ChunkFails`, `AwaitFails`, `PlanFails`, `DrainFails` |
| `finish_query`, called by the search or the destructor | `Finish`, `FinishHarvestThrows`, `FinishTraceThrows` |
| `configure_cache`; `configure_io`, the reader's destructor | `ConfigureCache`; `Close`, `CloseLoop` |

`harvest_prefetch`, `batch_submit` and `reap_async_read` are parts of these
actions (`Harvest`, `BatchSubmit` and what can go wrong in it, `Reap`). A read
that failed half way in `batch_submit`, or that a finished query forgot, stays
in `reads` without anyone in the session knowing its token: these leftovers are
what makes the module interesting.

What is abstracted:

- which pages the search asks for is left open, and so is the order in which a
  call visits them: the code's vectors are sets here, visited in any order;
- a token is any number that no read holds; the code counts up;
- the eviction policy picks any page without pins, so the properties hold for
  `lru`, `2q` and the graph-aware policies;
- which of several arrived pages find room in `ready_prefetch_pages_` is open;
- a page has no contents; a page that does not decode is a failed read;
- after an exception the session only forgets what it knows, so the model drops
  the local variables of the call at once;
- when a chunk is formed the code looks again for pages that have become
  pending since; none has, by `PageInOnePlace`;
- the statistics and what is written into the trace are left out, and the
  planner's choice is any set of pages;
- the modes `pread` and `odirect`, which read synchronously and never overlap;
- `io_depth` above 4096, where the ring is smaller than the pool;
- `configure_cache` and `configure_io` are called between queries.

### The index and the code

One behaviour builds one graph, writes it, opens the file and answers one query.
The program does this in one thread, so what varies is the data: the choices of
the random generators, the order of insertion, medoids and clusters, the
scores of the prefetch model and the tail of the file are all left open.

| code | actions and operators |
|---|---|
| `build_graph`: `validate_build_policy`, `find_medoid` | `Begin` |
| the rows of the five policies | `BuildRow` (`Rows`, `InitialRows`, `Candidates`, `LshCandidates`), `RowsDone` |
| `VamanaGraphBuilder::insert` | `InsertNode` (`Explored`, `RobustPrune`, `AddReverseEdge`), `InsertDone` |
| the reverse passes; `apply_freshvamana_delete_patch` | `ReversePass`, `ReverseDone`; `Patch` (`DeletePatch`) |
| `packed_order` | `ChooseOrder` (`BfsOrder`, `CoaccessOrders`, `HotpathOrder`) |
| `build` of the two builders: header and directory, pages, the end | `WriteHeader`, `WritePage` (`EncodePage`), `CloseFile`, `BuildStops` |
| constructor of an index; `select_search_entries` | `OpenIndex` (`Opens`); `SelectEntries` (`HybridEntries`, `InDegrees`) |
| `initialize_search_state` | `StartSearch` |
| `update_frontier`, `select_candidate_batch`, `should_stop`, `ensure_pages_loaded_batch` | `LoadBatch` (`NextBatch`, `ShouldStop`, `Exhausted`) |
| `expand_candidate_batch`, `update_adaptive_stop`, the prefetches it submits | `Expand` (`NewNeighbours`, `Stagnation`, `SubmitDirect`, `SubmitPlan`) |
| `PrefetchPlanner::plan_candidates` | `Plan` |
| `NaiveDiskGraphIndex::search_one` | `NaiveExpand` |
| `finalize_topk` | `PlanRerank`, `Finish` |

What is abstracted:

- distances are a table of numbers; a quantizer is a second order of the nodes;
  the float arithmetic of means, medoids, clusters, projections and hash planes
  is any value it could have;
- `alpha` squared is a fraction, so that pruning compares as the code does;
- best-first searches during a build keep sets, as the code's heaps do, and the
  `hotpath` training searches have a width and entries of two;
- bytes count only for how many nodes fit a page and where the pages begin;
- the checks of numeric options in `validate_build_policy` are kept where a
  later step depends on them; the others only refuse a build;
- pages are loaded without failing unless the file lacks them, the cache inside
  a query has room, and completed prefetches are at hand at once: when they
  come is `PageSession`'s subject;
- `submit_pages_direct` iterates over an unordered set: any order;
- the naive search clears its candidates when it stops early; the model keeps
  them and ends the loop, as nothing reads them afterwards;
- what nothing in the repository calls or sets is left out:
  `maybe_issue_prefetch`, `expand_candidate`, `entry_warmup`, `plan_frontier`.

Facts of the code that the model shows and that a reader may not expect: no
program of the repository sets `deleted_ids`, and the medoid of the entry
selector knows nothing of deleted nodes, so a deleted node may be an entry and
then an answer. With a prefetch model every candidate page is passed once, so that
with the default of two candidates per page only the single fallback page of a
batch is ever planned. `hotpath` packing, which `README.md:425` offers, asks
for training queries that the SIFT benchmark never passes: it throws when the
whole graph has been built. An index file that exists is reused without a
look at how it was built, and a rebuild truncates it in place.

### MixedWorkload and the code

Every access to an atomic is a step, and so is every call of the manager.

| code | actions |
|---|---|
| `claim_operation` | `Claim` |
| `perform_read`; `allow_recall_sample`: the clock, the load, `compare_exchange_weak`; `record_recall_sample` and the counters | `Read`; `ReadClock`, `LoadRecall`, `CompareExchange`; `CountRead` |
| `perform_write_batch` | `TakeNode`, `InsertNode`, `InsertFails` |
| the compaction thread | `CompactorSleeps`, `CompactorWakes`, `CompactorRuns` |
| the main thread of a concurrent run | `TimeIsUp`, `JoinWorkers`, `JoinCompactor`, then `MergeThread` per thread |
| `run_sequential_scenario` | `SequentialRead`, `SequentialWrite` |
| the end of both | `FlushAll`, `CompactAfter`, `Close`, `Recover` |

`samples`, `merged` and the order in `store` are what the code's metrics hold or
history variables; `clock` is `steady_clock`, which any step may let advance.
What a read finds, recall and latencies are left out. In a concurrent run the
ratio of a scenario plays no part, as readers only read and writers only write;
in a sequential run the generator draws the kind, any draw. Reads through an
engine always throw in this program (`ssd`): it gives the engine no quantizer.
In a run by count, `claim_operation` does not look at `stop`, so the other
threads finish their operations after one of them has failed; the model and
`RunEnds` include that.

## 3. Runs

| run | shows |
|---|---|
| `survived` | with crashes, torn tails and every failure that should cost nothing durable: `RecoverableIsPrefix`, `ManifestTablesOpen`, `FlushIsDurable`, `CleanCloseIsDurable`, `WritesKept`, `CompactionKeepsNewest`, types, and `ImplementsDurableStore`: the store refines `DurableStore` |
| `allfaults` | with every failure, two in one behaviour: `SequenceIsFresh` and the liveness property `OperationsReturn` |
| `torn` (violation) | `CloseIsDurable` fails once an earlier crash tore a record |
| `tombstones` (violation) | `CompactionDropsTombstones` fails: a merged table keeps the tombstones the design document has it drop |
| `reads` | a search between writes and while the store is closed and opened again: `SearchIsSnapshot`, `SearchSeesReturnedWrites`, `RecallIsExact`, `SequenceAdvances`, types, and `ViewImplementsDurableStore`: what readers find refines `DurableStore` |
| `pages` | queries one after the other on one reader and one cache, with every kind of failure: `BuffersConserved`, `CompletionsMatch`, `PageInOnePlace`, `FootprintWithinBudget`, `RoomForRequests`, `PinsMatchQuery`, `DemandArrives`, `ReadsHandedOver`, types |
| `calls` | the liveness property `CallsReturn`, with prefetching: whatever fails, every call returns or throws, and close waits for ever only for a read that was never submitted |
| `stranded` (violation) | `CloseEnds` fails without prefetching although `io_uring_submit` never does: a chunk that stops half way leaves a read unsubmitted |
| `leftover` (violation) | `QueryFailsOnlyOnFault` fails: prefetches of a finished query exhaust the pool of the next one |
| `pinleak` (violation) | `PinsReleased` fails when the prefetch trace cannot be written |
| `index` | every policy, packing and search option: what the builder makes (`RowsWellFormed`, `DeletedUnreachable`, `NoDeadEnds`), what the file keeps (`FileServesGraph`), what the search answers (`ResultIsBestVisited`, `FullSearchIsExact`, `EarlyStopLeavesFarther`, `PlannedIsRead`), that it ends (`BatchesAdvance`), types |
| `mixed` | readers, a writer and the compaction thread in every mode: `ReportIsTrue`, `SamplesSpaced`, the liveness property `RunEnds`, types |

Bounds of `survived`: two nodes (an update of one and a write of another can be
mixed up), three sequence numbers (a version overwritten by a later one, with
another write between or around), three table ids (two flushes and a
compaction), two crashes (a crash during the recovery of a crash) and one
failing operation. A flush threshold of two makes the automatic flush happen
inside an insert as well as on its own. The nodes are interchangeable, in the
code and in every property of the run, so they are a symmetry set.
`allfaults` needs fewer writes, since its properties speak of one sequence
number or one operation, and takes two failures instead.

`tombstones` needs one node: a write, a delete, a flush each and a merge.

Bounds of `reads`: nodes 1 and 2 in the base index and 3 only in the delta, so
that a version may override a base vector, remove it, or add a node; two
vectors at different distances, which over three nodes also gives ties decided
by the identifier; `top_k` of two, so that both the delta's own cut and the
final one drop something; three versions, so that one node may be overwritten
beside another. A restart costs one of the numbers (`MaxSeq` less one for every
close): the close may save its number or not, versions may be lost and their
numbers used again, and a search may span it. One searcher is enough: searchers
write nothing shared, so each sees the same writer whatever the others do (the
proofs hold for any number). Node identifiers are numbers, which ties compare,
so there is no symmetry.

Bounds of `pages`: three pages; a depth of three with batches of two makes the
demand reserve one and the prefetch budget two, so that a demand of several
pages takes several chunks, a prefetch of three meets the budget, a batch is
submitted full and not full, and leftovers of one query can exhaust the pool of
the next. Capacity one makes every second page evict or find the only place
pinned; capacity zero is the path without a cache, and `ConfigureCache` moves
between them. One kind of failure per behaviour, any number of times. A pin
count above `MaxPins` comes only from leaked pins. There is no bound on the
number of queries or reads. Pages are compared nowhere, so they are a symmetry
set. `calls` drops the third page, the symmetry (unsound for liveness) and the
trace failure, which ends a call like any other exception: a call waits for its
own reads among prefetches, forgotten ones of earlier queries included.
`stranded` has no prefetching and a depth of four with batches of two, so that
the demand reserve is two: a chunk of two pages can stop half way at the end of
a pool that reads of failed queries fill. With prefetching or a reserve of one a
chunk cannot leave a read queued, which `HandedOver` proves for all sizes.

Deadlock is not checked in these runs, because the program can stop:
`close_native` waits for reads that were never handed to the kernel, and nobody
submits them any more. `CallsReturn` therefore allows a close to wait with a read
in the submission queue, and nothing else; `ReadsHandedOver` says when there can
be such a read: after a failure of `io_uring_submit`, or without prefetching,
where `finish_query` submits nothing, when a chunk of several pages stopped half
way. The second case is finding 5.

Bounds of `index`: five vectors on a line, two of them equal, so that distances
tie; a degree of two, so that a reverse edge meets a full row and pruning has
candidates to drop; pages of two nodes, so that five nodes need three pages and
the last is not full (the dimension of 337 is what makes two of them fit 4096
bytes and, counting without the page header, three). The quantizer orders the
nodes differently from their distances to the query. The builds cover each policy
with and without deleted nodes, limits, samples and reverse edges, all nodes
deleted, and each packing; the searches each strategy of entry nodes, both ways
to stop early, a `search_width` that cuts a batch, prefetching with and without a
model, and a budget of prefetches that is met. One query is enough: a session
keeps nothing for the next but the cache.

Bounds of `mixed`: two readers, who race for an operation and for a sample, and
one writer with batches of two (two writers race for a node number no
differently from two calls of one writer, and the proofs hold for any number);
three operations, which no number of threads divides; a clock of three values
and an interval of two, so that a sample is refused, allowed, and taken with an
old time. `MaxTimed` bounds the operations of a worker in a run by time, and
`MaxCompactions` the rounds of the compaction thread before `stop`; a behaviour
that reaches one of them waits there (`Idle`), as if the thread went on.

Fairness. `FairSpec` of `DynamicStore` asks for weak fairness of `Step`, the
steps inside an operation: the thread that holds the mutex keeps running, there
is no other wait in those functions. Nothing is assumed about callers, failures
or crashes. `EngineSearch` states no liveness: a search has a fixed number of
steps and waits for nothing. `FairSpec` of `PageSession` asks for weak fairness
of `CallStep` without new failures, the session's thread inside a call, and of
`Complete` for each token: a read handed to the kernel is completed some time.
That the search calls anything, or ends its query, is not assumed. `BeamSearch`
states no fairness: that a search ends is shown without it, as every step goes
to a later phase or expands at least one more of finitely many nodes
(`BatchesAdvance`), and none is stuck (deadlock is checked). `MixedWorkload` asks
for weak fairness of each worker, of the compaction thread and of the main
thread: the operating system runs every thread, and a sleep ends. Nothing is
assumed of who wins a race, of the clock, or of failures.

The failures that a store survives and those it does not are split by
`Harmful`. The four harmful ones lose something already durable by themselves:
a lost `.meta` file, the manifest removed between two failing renames, a table
that opens for its writer and not for the reader after the manifest was saved,
and a record `scan_all` silently skips during compaction.

### Findings

1. `src/dynamic/wal.cpp:116`: the log is reopened in append mode behind a torn
   record, and replay stops there. Writes made after such a restart, even
   closed cleanly, are gone at the next open (run `torn`).
2. `src/core/async_page_reader.cpp:401`: `finish_query` forgets prefetches in
   flight without waiting for them, but they keep their buffers. The next
   query, whose limits assume an empty pool, then fails with "buffer pool is
   exhausted", where the design documents promise that prefetching changes
   nothing but the time of a read (run `leftover`).
3. `src/core/query_page_session.cpp:551`: `finish_query` writes the prefetch
   trace before it unpins; when the file cannot be opened, the pages of the
   query stay pinned for as long as the index lives (run `pinleak`).
4. `src/dynamic/compaction.cpp:69`: compaction keeps tombstones, which the design
   document has it drop (`docs/design/05-dynamic-write.md:279`, `:294`). The code
   is right: the disk graph still holds the deleted node, and without the
   tombstone a search would find it again (run `tombstones`).
5. `src/core/query_page_session.cpp:518`: without prefetching, `finish_query`
   submits nothing. When reads forgotten by failed queries make a chunk stop half
   way at the end of the pool (`async_page_reader.cpp:401`, `:461`), its first read
   stays in the submission queue, and `close_native` waits for it for ever
   (`async_page_reader.cpp:702`), although only reads have failed (run `stranded`).

Two more disagreements are part of the model and have no run of their own:

- `src/dynamic/dynamic_write_manager.cpp:297`: a write returns true with its
  record still in the stream's buffer, and nothing flushes that before a rotation
  or a close. `docs/design/05-dynamic-write.md:197` promises that a write survives
  a crash of the process; here `Crash` may lose any suffix of `buf`, and what
  holds is that the rest is a prefix (`RecoverableIsPrefix`).
- `src/dynamic/sstable.cpp:282`: `write_meta` reports success before its stream is
  flushed, and `flush_locked` saves the manifest before it opens the table. When
  the flush of the stream fails, the manifest names a table that does not open,
  and `open()` refuses the store. This is the failure `meta_lost`, one of the
  harmful ones.

## 4. Proofs

All theorems hold for every value of the constants that satisfies the named
assumptions of the modules (`DeletedAssumption`, `BoundsAssumption`,
`OptionsAssumption`; `NodesAssumption`, `VectorsAssumption`,
`SearchBoundsAssumption`; `ReaderAssumption`, `SessionAssumption`;
`WorkloadAssumption`; `GraphAssumption`, `BuildAssumption`, `FileAssumption`,
`PageHoldsNode`, `SearchAssumption`), which say no more than the types of the code and what it
refuses do.

### DynamicStore

| theorem | property | needs |
|---|---|---|
| `TypeCorrect` | `TypeOK` | |
| `TablesOpen` | `ManifestTablesOpen` | no harmful failure |
| `RecoversPrefix` | `RecoverableIsPrefix` | no harmful failure |
| `FreshSequence` | `SequenceIsFresh` | |
| `CompactionKeeps` | `CompactionKeepsNewest` | no harmful failure |
| `FlushDurable` | `FlushIsDurable` | no harmful failure |
| `CloseDurable` | `CleanCloseIsDurable` | no harmful failure, WAL enabled |
| `WritesStay` | `WritesKept` | no harmful failure |
| `StoreImplements` | `ImplementsDurableStore` | no harmful failure |

"No harmful failure" is the hypothesis `Harmless`, `Faults \cap Harmful = {}`.
What the four leave behind breaks these properties: a table taken for written
that does not open, a manifest gone from the disk, a table that the manifest
names and the next flush writes over, a version left out of a merge.
`SequenceIsFresh` survives all of them: its invariant (`FreshInv`) asks only
that every version some step may still copy (`Held`: memory, log, the listed
tables and the one being built) is below `next_sequence_id`, and open() counts
what it finds, not what was there.

None of the properties is inductive. The invariant has these parts:

- `TypeInv`: `TypeOK`, and that an operation in progress has the store open and
  a table id left. Without it `mman.nextSst` could run past its bound;
- `ListInv`: the manifest on disk names the manager's tables, and one more
  between the save and the opening of a flush; ids they list are below their
  `nextSst`, so that a new table overwrites none of them; only the last step of
  a compaction has tables to delete, and none that the manifest names;
- `BuildInv`: what the table being built holds at each step of a flush or a
  compaction;
- `HistoryInv`: where every version is. No place holds a version that is not in
  the history (`KnownInv`); the open store covers every version with its tables
  and its memtable (`ServedInv`), the tables alone do while the log is being
  rotated (`FlushedInv`), and an intact log with its buffer misses nothing that
  the tables do not have (`WalInv`). `PrefixInv` is the heart of it: whatever
  is older than a version in the tables is covered by the tables, and whatever
  is older than a record of the log is in the log or covered by the tables, so
  that what a crash leaves of log and buffer is still a prefix of the history.

`FlushIsDurable` and `CleanCloseIsDurable` speak of a call that has just
returned; `FlushCall` adds that the steps of a compaction finish no flush.
`WritesKept` is `ServedInv` as a caller sees it: an insert answers with the result
of the automatic flush, and whatever it answers the version is still held.

`StoreImplements` is the refinement of `DurableStore`, with `LastSeq(Recoverable)`
for its durable point. `SeenInv` adds to the invariant what readers see
(`recent` covers the history, in which a number names one version), so that an
append is the abstract write and open() the abstract restart, which serves
exactly the history up to the durable point. For every other step
`RecoverableKept` shows that what open() would load is lost only to a newer
version of its node, whether the manifest changes, a compaction merges or the
log is removed: the durable point never moves back, so the step is a stop or
something reaching the disk.

### EngineSearch

`SearchTypeCorrect`, `AnswersFromSnapshot`, `SeesReturnedWrites`,
`RecallExact`, `SequencesAdvance` and `ViewImplements` prove the six properties
of the run `reads` without further hypotheses, for any number of searchers,
any base index, any distance and any `top_k`, zero included.

The invariant: sequence numbers of the history are distinct and below
`nextSeq`, and `latest` lags only while a version is being published
(`SequenceInv`); the number in the manifest is at most `nextSeq`, and from it on
every number below `nextSeq` belongs to a version (`Kept`); an open view is what
the manager holds, and what a restart loads is durable (`PublishInv`); a version that a restart has left out is hidden
by a newer one of its node that every read sequence handed out can see
(`HiddenBy`), which is what makes a read sequence survive a restart; and the
local variables of an undisturbed search are what one look at the history at
its read sequence gives (`SearchInv`).

`SearchIsSnapshot` then rests on a fact about the cut to `top_k`:
`TopOfBetween` says that the cut of a set S is also the cut of any set between
`TopOf(S)` and S, `TopOfUnion` that one may cut each part first, and
`MergeOfSnapshot` that the merge, which sees only the delta's own best and the
newest records of the base results, loses nothing by it.

`SequenceAdvances` says how far `latest_sequence_` may fall back: only in an open,
only after a close that could not save `next_sequence_id`, and never behind the
last version that survived. A smaller number is the last loaded version or the
last number of the manifest (`LoadedNumber`), so what it falls back over are
versions that were lost.

`RecallIsExact` carries its hypothesis for a reason: when base results are
overridden, the merge removes them and has no further base candidates, so the
answer may be shorter or worse than the exact one. That is how the code is
designed.

### PageSession

| theorem | states |
|---|---|
| `SessionTypeCorrect` | `TypeOK` |
| `BuffersStay` | `BuffersConserved` |
| `PinsMatch` | `PinsMatchQuery` |
| `MatchesStay` | `CompletionsMatch` |
| `OnePlace` | `PageInOnePlace` |
| `FootprintStays` | `FootprintWithinBudget` |
| `RoomStays` | `RoomForRequests` |
| `DemandsArrive` | `DemandArrives` |
| `HandedOver` | `ReadsHandedOver` |

for any `io_depth`, batch size, prefetch budget, cache capacity and number of
pages, and with any failures in any number: these are all the invariants of the
run `pages`, and none of them needs a hypothesis. The proofs come in two layers.

`PageSessionProofs` carries `TypeInv`: `TypeOK`, `BuffersConserved`, and

- `CallInv`, what a call holds at each of its places: no batch outside the wait
  for it, no requests outside a plan, nothing between queries;
- `PinInv`: a page the query has pinned is cached and has pins. Eviction
  therefore spares it, and `unpin_all` never takes a pin from a page that has
  none, which is what keeps the counts above zero.

`BuffersConserved` also makes the tokens of a batch new: no more reads exist than
there are buffers, so `NewTokens` always finds tokens no read holds
(`TokensAreNew`). That is the place of the code's counter, which never repeats.

`SafeInv` adds to it

- `PlaceInv`, which is stronger than `PageInOnePlace`: it also keeps prefetches
  away from materialized pages while single pages are demanded, and the missing
  pages away from those being read. It holds because a page moves from place to
  place in single steps: a harvest takes it from `pending` to `ready` or drops
  it, a demand takes it from `missing` to the batch to the cache;
- `CompletionsMatch`, from which follows that a token of the batch is no token of
  a prefetch: they would be reads of the same page;
- `ArriveInv`: every page asked for so far is materialized or is still in the
  call, to be scanned, missing or being read. Of a chunk no page is dropped as
  available, because by `PlaceInv` none is (`ChunkWanted`);
- `FootprintWithinBudget`: what a harvest adds to `ready` it has taken from
  `pending` (`ArriveFootprint`), so only queued requests grow the footprint, and
  those are counted.

`RoomForRequests` needs all of it: without leftovers every read has its token in
`pending`, no two tokens name one page, so there are no more reads than pages in
flight, and `Budget + Reserve <= Depth` (`Limits`) leaves the reserve free.

`HandedOver` asks which steps leave a read in the submission queue. Only a batch
that finds the pool exhausted half way does when `io_uring_submit` works. If it
happens in a query that prefetches, or a reserve of one leaves nothing to queue,
`finish_query` submits what is left or nothing is (`Exhausts`, `QueueKept`,
`ExhaustedByOne`). Without prefetching and without any failure it cannot happen
at all: every read belongs to the chunk in progress (`QuietInv`), so the pool has
room for the next (`QuietChunk`).

### MixedWorkload

| theorem | states |
|---|---|
| `WorkloadTypeCorrect` | `TypeOK` |
| `SamplesKeepDistance` | `SamplesSpaced` |
| `ReportedNodes` | `NodesFollowBase`, the part of `ReportIsTrue` about nodes |
| `ReportTellsTheTruth` | `ReportIsTrue` |

for any numbers of readers and writers, any batch, interval and options.

- `TypeInv` adds to `TypeOK` what a worker holds (`HoldsInv`): a time that has
  been, a node number that was handed out, and at least one insert left while
  it is in a batch. Without it `left` could go below zero and `store` could
  hold a number nobody handed out.
- `SampleInv`: the time stored in `next_recall_ns` is an interval after the last
  sample. The exchange succeeds only on the value that was compared with the
  reader's time, so however old that time is, the new sample is an interval after
  the last one; this is what the mutant `FaultyCompareExchange` breaks.
- `NodesInv`: every number handed out is in the store, or with exactly one
  worker that is about to insert it, or lost to a worker that has failed
  (`CompleteInv`); no number is held or stored twice (`UniqueInv`); and when the
  main thread is past the join, no worker works any more (`JoinInv`). After
  the join without a failure the first of these leaves only the store.
- `ReportInv`: what the counters add up to. No thread's counters say anything by
  themselves; what is constant is a sum over the threads. A sum is taken as the
  size of a set with one token per unit (`SumOver`), so that a step that counts
  adds tokens of one worker and disturbs no other's (`SumMoves`), and a merge
  brings one more worker's tokens to the totals (`SumAdd`, `MergeInv`). What a
  worker has claimed and not counted yet is credited to it (`InHand`, `Credit`):
  a read is worth a batch of inserts, half a batch is worth what is left of it.
  With this credit the sum is what was handed out, at every moment and however
  the threads interleave (`CountInv`), and after the join nothing is in hand.
  A sequential run has one thread that counts (`SequentialInv`), and after
  recovery the store gives back as many records as were written (`DeltaInv`).

`WorkloadAssumption` asks for one worker at least, as the code does ("Concurrent
mode needs at least one worker thread"): without any, a concurrent run by count
would report operations that nobody did.

### The index

| theorem | states |
|---|---|
| `SearchTypes` | `TypeOK` |
| `RowsFitTheirRecords` | `RowsWellFormed` |
| `DeletedAreLeftOut` | `DeletedUnreachable` |
| `EveryRowLeadsOn` | `NoDeadEnds` |
| `IndexReadsWhatWasBuilt` | `FileServesGraph` |
| `EntriesAreFilledUp` | `EntriesFillUp` |
| `AnswerIsBestOfVisited` | `ResultIsBestVisited` |
| `ExhaustiveSearchIsExact` | `FullSearchIsExact` |
| `EarlyStopIsSound` | `EarlyStopLeavesFarther` |
| `PlansAreRead` | `PlannedIsRead` |
| `FailuresAreExplained` | `FailsOnlyWhenIncomplete` |
| `SearchAdvances` | `BatchesAdvance` |

These are the properties of the run `index` and two more, `EntriesFillUp` and
`FailsOnlyWhenIncomplete`, which are stated in `BeamSearch` for their theorems only.
None needs a hypothesis: they hold for any number of nodes, any distances, degree, `alpha`, dimension and
page size, any set of builds and of searches. The configurations are what the
code does not refuse: `search_one` throws unless `top_k`, `search_width` and
`entry_count` are positive (`SearchConfig`).

`GraphProofs` is about what is computed. Nearly every operator of this half folds
over a sequence, and a fold is defined by a recursion that the provers cannot
follow. `FoldIs` shows once, for a fold by any function, that its value is the
last state of a walk that takes one element at a time; then each `...Walk` lemma
ties one fold of the model to its walk, and what the fold keeps is shown by going
along the walk (`CountUp`), as one would for a loop. On that rest

- sorting: `ByDistance` lists a set without repetition, nearest first, because
  the number of elements before an element is its place (`ByDistanceLists`);
- `RobustPrune`: `PruneIs` says that a row is cut to the degree, names no deleted
  node, and keeps the nearest candidate, so it is empty only when there was no
  candidate;
- reverse edges, the insertion of a node, the repair: each takes rows that fit to
  rows that fit, loses no row that led on, and brings in no deleted node
  (`Improves`);
- packing: every order is one of all nodes, that of `BfsOrder` included, whose
  walk visits a new node while there is one (`VisitFirstIs`).

`BuildInv` is then inductive: rows have the shape of rows (`BuildShape`), each
stage has what the one before it left (`BuildStages`), no row leads to a deleted
node once it may not (`BuildClear`), and rows that have been built lead on
(`BuildLinked`). `FileInv` says that a page of the file is the encoding of its
nodes and the directory that of the order. A node has one place in the order, so
it is on one page and found there with its row (`NodeIsServed`, `Served`).

`BeamSearchProofs` adds `SearchInv`: the search has not begun, or the index is open
and all of this holds:

- `Heaps`: the results are the best of what was visited, `BestOf(visited)`, and
  `expanded` counts the visited nodes that are candidates no more. The first is
  what makes a heap that forgets safe: cutting after every node gives what
  cutting once at the end does (`AddBestIs`, `AddAllIs`, `EnterAllIs`), because
  the best of a set are unique (`BestIsUnique`);
- `Batched`: a batch holds distinct candidates whose pages are there;
- `Covers`: what was visited and is no candidate leads only to visited nodes, and
  all that was visited can be reached from the entries. With no candidate left
  the two say that exactly the reachable nodes were visited, and
  `FullSearchIsExact` follows;
- `Stopped`: a search that ended by distance ended rightly (`NextBatchIs`: a batch
  is empty only when the nearest candidate may not be looked at);
- `PlannedIsRead`: a plan fits into what the budget leaves (`PlanFits`), so the
  session's queue cuts nothing off (`QueueIs`).

Every expansion, of a batch or of one node, is an instance of `Expands`, from
which `ExpandsInv` shows both the invariant and the step of `BatchesAdvance`. That
the search ends follows from this property as described in section 3; the last
step, that a number cannot grow for ever below a bound, is liveness and not
stated as a theorem.

### Left to TLC

Liveness, which is out of the prover's reach: `OperationsReturn`, `CallsReturn`,
`RunEnds`; and that no step is stuck (deadlock, `ENABLED`). The five violations are
counterexamples and need no proof.

## 5. Plan

The order was that of importance: what changes durable state first, then what
every query goes through, then what builds it and what measures it.

| step | module | content | main properties |
|---|---|---|---|
| done | `DynamicStore` | the write layer | durability, recovery, compaction |
| done | `EngineSearch` | lock-free reads | snapshot reads |
| done | `PageReader`, `PageSession` | overlapped reads, demand and prefetch, page cache | buffers, tokens, budget, pins, demanded pages arrive |
| done | `NeighborGraph`, `GraphBuild`, `GraphFile` | policies, repair, packing, the file | degree bound, no dead ends, the file serves the graph |
| done | `PrefetchPlanner`, `BeamSearch` | planning, the search loop | it ends, exact where it can be, plans are read |
| done | `MixedWorkload` | the benchmark's threads | the report is true, runs end |
| done | `PageSessionProofs` | the invariants of the page path, for all sizes | theorems |
| done | `DynamicStoreProofs`, `DynamicStoreRecovery` | `SequenceIsFresh` for all failures, the refinement of `DurableStore` | theorems |
| done | `GraphProofs`, `BeamSearchProofs`, `MixedWorkloadProofs` | the index and the benchmark, for all sizes | theorems |

### Not modelled

- `lsm_tree.cpp`: an earlier store, exported by the headers and used by no
  program; what replaced it is modelled.
- The flat disk index and `dataset.cpp`: sequential encoding and decoding of
  files.
- Distances, product quantisation, brute force: floating point. The search
  modules take the orders they induce as parameters.
- The tree model of the prefetch planner: a score may be any number.
- Of the SIFT benchmark the worker threads, which share one index and take turns
  on its mutex, and all reporting; of both benchmarks option parsing and timing.
- The readers of the page cache that take no lock (`is_pinned`), and page loads
  outside a query.
- The offline scripts.

Statistics are left out throughout, but for the counters that `MixedWorkload` is
about.
