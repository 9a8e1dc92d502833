---------------------------- MODULE PageSession ----------------------------
(***************************************************************************)
(* QueryPageSession over AsyncPageReader and the page cache of             *)
(* PackedDiskGraphIndex.  search_one holds search_mutex_, so an index has  *)
(* one session at a time; the reader and the cache outlive it.  The        *)
(* session's thread interleaves with the kernel, which completes reads in  *)
(* any order.                                                              *)
(*                                                                         *)
(* Which pages the search asks for, and in which order, is left open.  The *)
(* eviction policy chooses any page that is not pinned.                    *)
(***************************************************************************)
EXTENDS PageReader

CONSTANTS
  PrefetchPages,  \* width * prefetch_depth, where width is the larger of
                  \* prefetch_width and prefetch_top_k, or else io_depth / 4;
                  \* zero when prefetching is off
  Capacities,     \* the values configure_cache is called with
  MaxPins         \* bound: pins of one page, which grow when they leak

ASSUME SessionAssumption ==
  PrefetchPages \in Nat /\ Capacities \subseteq Nat /\ MaxPins \in Nat

VARIABLES
  capacity,      \* cache_capacity_pages_; zero disables the cache
  pins,          \* page_cache_: the pin count of every cached page
  pc,            \* where the session's thread is
  single,        \* the call is get_or_load_page
  todo,          \* the pages a call has still to look at
  missing,       \* missing_pages
  requests,      \* requests of submit_prefetch_plan
  batch,         \* submitted_pages: the demand reads in progress
  pending,       \* token_to_page_; pending_pages_ are its values
  ready,         \* ready_prefetch_pages_
  owned,         \* owned_pages_
  materialized,  \* materialized_pages_
  visited,       \* visited_pages_
  pinned,        \* pinned_pages_
  traced         \* prefetch_trace_records_ is not empty

cache   == <<capacity, pins>>
call    == <<single, todo, missing, requests, batch>>
query   == <<owned, materialized, visited, pinned, traced>>
content == <<pending, ready, query>>
vars    == <<reader, cache, pc, call, content>>

TypeOK ==
  /\ ReaderTypeOK
  /\ capacity \in Capacities
  /\ DOMAIN pins \subseteq Pages /\ pins \in [DOMAIN pins -> 0 .. MaxPins]
  /\ Cardinality(DOMAIN pins) <= capacity
  /\ pc \in {"idle", "search", "scan", "chunk", "await", "plan", "failed",
            "closing"}
  /\ single \in BOOLEAN /\ traced \in BOOLEAN
  /\ {todo, missing, requests, ready, owned, materialized, visited, pinned}
       \subseteq SUBSET Pages
  /\ \A tokens \in {batch, pending} :
       DOMAIN tokens \subseteq Tokens /\ tokens \in [DOMAIN tokens -> Pages]

NoCall == /\ single = FALSE /\ todo = {} /\ missing = {}
          /\ requests = {} /\ batch = << >>
NoContent == /\ pending = << >> /\ ready = {} /\ owned = {}
             /\ materialized = {} /\ visited = {} /\ pinned = {}
             /\ traced = FALSE

Init ==
  /\ ReaderInit
  /\ capacity \in Capacities /\ pins = << >>
  /\ pc = "idle" /\ NoCall /\ NoContent

(***************************************************************************)
(* Limits.                                                                 *)
(***************************************************************************)

\* session_demand_io_reserve
Reserve == IF Depth = 1 THEN 1 ELSE Min({BatchSize, Depth \div 2})

\* session_async_prefetch_enabled
Prefetching == PrefetchPages > 0

\* A bug: prefetches may take every buffer.
FaultyBudget == Min({PrefetchPages, Depth})

\* session_prefetch_budget
Budget == IF Depth <= Reserve THEN 0 ELSE Min({PrefetchPages, Depth - Reserve})

\* prefetch_batch_limit
PrefetchBatch == IF Budget = 0 THEN BatchSize ELSE Min({BatchSize, Budget})

\* async_page_footprint
Footprint == Cardinality(Range(pending)) + Cardinality(ready)

(***************************************************************************)
(* The page cache.                                                         *)
(***************************************************************************)

Cached == DOMAIN pins

\* A bug: eviction overlooks pins.
FaultyUnpinned == Cached

\* evict_one_page_locked: the pages it may choose.
Unpinned == {p \in Cached : pins[p] = 0}

\* A bug: a new page takes no other's place.
FaultyCacheAfter(p) ==
  {[q \in Cached \cup {p} |-> IF q \in Cached THEN pins[q] ELSE 0]}

\* store_cached_page: what the cache may be afterwards.  When every page is
\* pinned the new one goes to scratch_page_ instead.
CacheAfter(p) ==
  IF p \in Cached THEN {pins}
  ELSE LET With(rest) == [q \in rest \cup {p} |-> IF q = p THEN 0 ELSE pins[q]]
       IN IF Cardinality(Cached) < capacity THEN {With(Cached)}
          ELSE IF Unpinned = {} THEN {pins}
          ELSE {With(Cached \ {v}) : v \in Unpinned}

\* A page the session has been given: into the cache, or kept by the session
\* when there is none.
Keep(p) ==
  IF capacity = 0
  THEN owned' = owned \cup {p} /\ UNCHANGED pins
  ELSE pins' \in CacheAfter(p) /\ UNCHANGED owned

\* unpin_all
Unpin ==
  pins' = [p \in Cached |-> IF p \in pinned THEN pins[p] - 1 ELSE pins[p]]

\* page_ready_in_session, or page_in_cache
Available(p) == p \in materialized \cup owned \cup ready \cup Cached

(***************************************************************************)
(* Completed prefetches.                                                   *)
(***************************************************************************)

\* consume_prefetch_completion of the reads ts, some of which may not be
\* reads of this session.
Consume(ts) ==
  LET mine    == ts \cap DOMAIN pending
      arrived == {p \in {pending[t] : t \in mine} : ~Available(p)}
      room    == Budget - Cardinality(ready)
  IN /\ pending' = Without(pending, mine)
     /\ \E kept \in kSubset(Min({Cardinality(arrived), room}), arrived) :
          ready' = ready \cup kept

\* harvest_prefetch
Harvest == IF Prefetching
           THEN HarvestAll /\ Consume(At("done"))
           ELSE UNCHANGED <<reader, pending, ready>>

\* An exception leaves the call.  What the session still knows of its reads
\* does not matter: all it does from now on is to forget them.
Throw ==
  /\ pc' = "failed"
  /\ single' = FALSE /\ todo' = {} /\ missing' = {} /\ requests' = {}
  /\ batch' = << >>
  /\ UNCHANGED <<cache, content>>

(***************************************************************************)
(* Calls of the search.                                                    *)
(***************************************************************************)

\* search_one takes search_mutex_ and creates the session.
Begin ==
  /\ pc = "idle" /\ pc' = "search"
  /\ UNCHANGED <<reader, cache, call, content>>

Demand(ps, one) ==
  /\ pc = "search" /\ pc' = "scan"
  /\ todo' = ps /\ single' = one /\ visited' = visited \cup ps
  /\ UNCHANGED <<reader, cache, missing, requests, batch,
                 pending, ready, owned, materialized, pinned, traced>>

EnsurePagesLoaded(ps) == ps /= {} /\ Demand(ps, FALSE)

GetOrLoadPage(p) == Demand({p}, TRUE)

\* The page is at hand: materialize_available_page; get_or_load_page does
\* not count a page that was materialized and then evicted.
AtHand(p) == p \in owned \cup Cached \/ (~single /\ p \in materialized)

Taken(p) ==
  /\ todo' = todo \ {p} /\ materialized' = materialized \cup {p}
  /\ UNCHANGED <<capacity, pc, single, missing, requests, batch, pending,
                 visited, pinned, traced>>

ScanHit(p) ==
  /\ pc = "scan" /\ p \in todo /\ AtHand(p)
  /\ Taken(p) /\ UNCHANGED <<reader, pins, ready, owned>>

\* take_ready_prefetch_page
ScanReady(p) ==
  /\ pc = "scan" /\ p \in todo /\ ~AtHand(p) /\ p \in ready
  /\ ready' = ready \ {p} /\ Keep(p)
  /\ Taken(p) /\ UNCHANGED reader

MustWait(p) ==
  /\ pc = "scan" /\ p \in todo /\ ~AtHand(p)
  /\ p \notin ready /\ p \in Range(pending)

\* A bug: the page counts as arrived after one round.
FaultyScanWait(p) ==
  /\ MustWait(p) /\ At("done") /= {} /\ Harvest
  /\ todo' = todo \ {p}
  /\ UNCHANGED <<cache, pc, single, missing, requests, batch, query>>

\* wait_for_prefetch_page: one round, once a completion is there.
ScanWait(p) ==
  /\ MustWait(p) /\ At("done") /= {} /\ Harvest
  /\ UNCHANGED <<cache, pc, call, query>>

ScanWaitFails(p) ==
  /\ MustWait(p)
  /\ \/ HarvestThrows
     \/ Fault("wait") /\ UNCHANGED <<reads, free>>
  /\ Throw

\* A bug: a page being prefetched is read again.
FaultyScanMissing(p) ==
  /\ pc = "scan" /\ p \in todo /\ ~AtHand(p) /\ p \notin ready
  /\ todo' = todo \ {p} /\ missing' = missing \cup {p}
  /\ UNCHANGED <<reader, cache, pc, single, requests, batch, content>>

ScanMissing(p) ==
  /\ pc = "scan" /\ p \in todo /\ ~AtHand(p)
  /\ p \notin ready \cup Range(pending)
  /\ todo' = todo \ {p} /\ missing' = missing \cup {p}
  /\ UNCHANGED <<reader, cache, pc, single, requests, batch, content>>

ScanEnd ==
  /\ pc = "scan" /\ todo = {} /\ pc' = "chunk"
  /\ IF single THEN UNCHANGED <<reader, pending, ready>> ELSE Harvest
  /\ UNCHANGED <<cache, call, query>>

ScanEndFails ==
  /\ pc = "scan" /\ todo = {} /\ ~single /\ Prefetching
  /\ HarvestThrows /\ Throw

\* The next chunk of missing pages; a page that has become available since is
\* left out.  None has become pending (PageInOnePlace).
NextChunk == kSubset(Min({Reserve, Cardinality(missing)}), missing)
Wanted(ps) == IF single THEN ps ELSE {p \in ps : ~Available(p)}

Chunk ==
  /\ pc = "chunk" /\ missing /= {}
  /\ \E ps \in NextChunk :
       /\ BatchSubmit(Wanted(ps))
       /\ batch' = NewTokens(Wanted(ps))
       /\ missing' = missing \ ps
       /\ pc' = IF Wanted(ps) = {} THEN "chunk" ELSE "await"
  /\ UNCHANGED <<cache, single, todo, requests, content>>

ChunkFails ==
  /\ pc = "chunk" /\ missing /= {}
  /\ \E ps \in NextChunk :
       BatchExhausted(Wanted(ps)) \/ BatchSubmitFails(Wanted(ps))
  /\ Throw

\* One completion is reaped: a demanded page, or anything else.
AwaitDemand(t) ==
  /\ pc = "await" /\ t \in At("done") \cap DOMAIN batch
  /\ Reap({t}) /\ Keep(batch[t])
  /\ materialized' = materialized \cup {batch[t]}
  /\ batch' = Without(batch, {t})
  /\ pc' = IF DOMAIN batch = {t} THEN "chunk" ELSE "await"
  /\ UNCHANGED <<faults, capacity, single, todo, missing, requests, pending,
                 ready, visited, pinned, traced>>

AwaitOther(t) ==
  /\ pc = "await" /\ t \in At("done") \ DOMAIN batch
  /\ Reap({t}) /\ Consume({t})
  /\ UNCHANGED <<faults, cache, pc, call, query>>

AwaitFails ==
  /\ pc = "await"
  /\ \/ \E t \in At("bad") : Reap({t}) /\ UNCHANGED faults
     \/ Fault("wait") /\ UNCHANGED <<reads, free>>
  /\ Throw

DemandEnd ==
  /\ pc = "chunk" /\ missing = {} /\ pc' = "search" /\ single' = FALSE
  /\ UNCHANGED <<reader, cache, todo, missing, requests, batch, content>>

(***************************************************************************)
(* Prefetch: submit_prefetch_plan.                                         *)
(***************************************************************************)

Submit(ps) ==
  /\ pc = "search" /\ Prefetching
  /\ pc' = (IF ps = {} THEN "search" ELSE "plan") /\ todo' = ps
  /\ UNCHANGED <<reader, cache, single, missing, requests, batch, pending,
                 ready, owned, materialized, visited, pinned>>

\* submit_pages_direct
SubmitPages(ps) == ps /= {} /\ Submit(ps) /\ UNCHANGED traced

\* submit_prefetch, submit_candidate_prefetch and submit_jit_prefetch: the
\* planner selects some pages or none, and its candidates are recorded for
\* the trace.
SubmitCandidates(ps) == Submit(ps) /\ traced' = TRUE

\* A bug: the requests not yet submitted are not counted.
FaultyBudgetFull == Footprint >= Budget

BudgetFull == Footprint + Cardinality(requests) >= Budget

FlushDue ==
  requests /= {} /\ (todo = {} \/ Cardinality(requests) >= PrefetchBatch)

\* queue_prefetch_request.  A harvest moves pages from pending to ready, so
\* the budget is as full after it as before.
QueueRequest(p) ==
  /\ pc = "plan" /\ p \in todo /\ ~FlushDue
  /\ todo' = todo \ {p}
  /\ IF Budget > 0 /\ BudgetFull
     THEN Harvest ELSE UNCHANGED <<reader, pending, ready>>
  /\ requests' = IF ~BudgetFull /\ ~Available(p) /\ p \notin Range(pending)
                 THEN requests \cup {p} ELSE requests
  /\ UNCHANGED <<cache, pc, single, missing, batch, query>>

\* flush_prefetch_requests
FlushRequests ==
  /\ pc = "plan" /\ FlushDue
  /\ BatchSubmit(requests)
  /\ pending' = LET new == NewTokens(requests)
                IN [t \in DOMAIN pending \cup DOMAIN new |->
                      IF t \in DOMAIN new THEN new[t] ELSE pending[t]]
  /\ requests' = {}
  /\ UNCHANGED <<cache, pc, single, todo, missing, batch, ready, query>>

PlanEnd ==
  /\ pc = "plan" /\ todo = {} /\ requests = {} /\ pc' = "search"
  /\ Harvest
  /\ UNCHANGED <<cache, call, query>>

PlanFails ==
  /\ pc = "plan"
  /\ \/ FlushDue /\ (BatchExhausted(requests) \/ BatchSubmitFails(requests))
     \/ todo /= {} /\ ~FlushDue /\ Budget > 0 /\ BudgetFull /\ HarvestThrows
     \/ todo = {} /\ requests = {} /\ HarvestThrows
  /\ Throw

\* drain_ready_pages
Drain ==
  /\ pc = "search" /\ Prefetching /\ Harvest
  /\ UNCHANGED <<cache, pc, call, query>>

DrainFails == pc = "search" /\ Prefetching /\ HarvestThrows /\ Throw

\* pin_page of a page the search expands a node of.
PinPage(p) ==
  /\ pc = "search" /\ p \in materialized \ pinned /\ p \in Cached
  /\ pins[p] < MaxPins
  /\ pins' = [pins EXCEPT ![p] = @ + 1]
  /\ pinned' = pinned \cup {p}
  /\ UNCHANGED <<reader, capacity, pc, call, pending, ready, owned,
                 materialized, visited, traced>>

(***************************************************************************)
(* The end of a query: finish_query, called by finalize_topk or, after an  *)
(* exception, by the destructor.                                           *)
(***************************************************************************)

Forget == /\ pending' = << >> /\ ready' = {} /\ owned' = {}
          /\ materialized' = {} /\ visited' = {} /\ pinned' = {}
          /\ traced' = FALSE

Finish ==
  /\ pc \in {"search", "failed"} /\ pc' = "idle"
  /\ IF Prefetching THEN HarvestAll ELSE UNCHANGED reader
  /\ Unpin /\ Forget
  /\ UNCHANGED <<capacity, call>>

FinishHarvestThrows ==
  /\ pc \in {"search", "failed"} /\ pc' = "idle"
  /\ Prefetching /\ HarvestThrows
  /\ Unpin /\ Forget
  /\ UNCHANGED <<capacity, call>>

\* write_prefetch_trace throws.  The destructor tries once more, and what it
\* throws is swallowed.
FinishTraceThrows ==
  /\ pc \in {"search", "failed"} /\ traced /\ Fault("trace")
  /\ IF Prefetching
     THEN /\ At("bad") = {}
          /\ reads' = Submitted(Without(reads, At("done")), {})
          /\ free' = free + Cardinality(At("done"))
     ELSE UNCHANGED <<reads, free>>
  /\ IF pc = "search"
     THEN /\ pc' = "failed" /\ pending' = << >> /\ ready' = {}
          /\ UNCHANGED query
     ELSE pc' = "idle" /\ Forget
  /\ UNCHANGED <<cache, call>>

(***************************************************************************)
(* Between queries: configure_cache, and configure_io or the destructor,   *)
(* which close the reader.                                                 *)
(***************************************************************************)

ConfigureCache(n) ==
  /\ pc = "idle" /\ n /= capacity
  /\ capacity' = n /\ pins' = << >>
  /\ UNCHANGED <<reader, pc, call, content>>

Close ==
  /\ pc = "idle" /\ pc' = "closing"
  /\ UNCHANGED <<reader, cache, call, content>>

CloseLoop ==
  /\ pc = "closing"
  /\ \/ (CloseReap \/ CloseWaitFails) /\ UNCHANGED pc
     \/ Reopened /\ pc' = "idle" /\ UNCHANGED faults
  /\ UNCHANGED <<cache, call, content>>

(***************************************************************************)
(* The specification.                                                      *)
(***************************************************************************)

Kernel == \E t \in Tokens :
  /\ Complete(t) \/ CompleteBad(t)
  /\ UNCHANGED <<cache, pc, call, content>>

\* What the search, and whoever owns the index, may start.
Caller ==
  \/ Begin
  \/ \E ps \in SUBSET Pages : \/ EnsurePagesLoaded(ps)
                           \/ SubmitPages(ps) \/ SubmitCandidates(ps)
  \/ \E p \in Pages : GetOrLoadPage(p) \/ PinPage(p)
  \/ Drain \/ DrainFails
  \/ \E n \in Capacities : ConfigureCache(n)
  \/ Close

FinishQuery == Finish \/ FinishHarvestThrows \/ FinishTraceThrows

\* Steps inside a call, after an exception, or of close_native.
CallStep ==
  \/ \E p \in Pages : \/ ScanHit(p) \/ ScanReady(p) \/ ScanMissing(p)
                      \/ ScanWait(p) \/ ScanWaitFails(p)
                      \/ QueueRequest(p)
  \/ ScanEnd \/ ScanEndFails
  \/ Chunk \/ ChunkFails
  \/ \E t \in Tokens : AwaitDemand(t) \/ AwaitOther(t)
  \/ AwaitFails \/ DemandEnd
  \/ FlushRequests \/ PlanEnd \/ PlanFails
  \/ CloseLoop
  \/ pc = "failed" /\ FinishQuery

Next == Kernel \/ Caller \/ CallStep \/ (pc = "search" /\ FinishQuery)

Spec == Init /\ [][Next]_vars

\* The session's thread runs on, and the kernel completes what it was handed.
\* Neither has to fail.
FairSpec ==
  /\ Spec
  /\ WF_vars(CallStep /\ UNCHANGED faults)
  /\ \A t \in Tokens :
       WF_vars(Complete(t) /\ UNCHANGED <<cache, pc, call, content>>)

(***************************************************************************)
(* Properties.                                                             *)
(***************************************************************************)

\* No buffer of the pool is lost or handed out twice, whatever batch_submit,
\* reap_async_read and the query fail at.
BuffersConserved == free + Cardinality(DOMAIN reads) = Depth

\* A completion is matched to the page its read was submitted for: tokens of
\* reads that an earlier query left behind are not taken for new ones.
CompletionsMatch ==
  pc /= "failed" =>
    \A tokens \in {pending, batch} : \A t \in DOMAIN tokens :
      t \in DOMAIN reads /\ reads[t].page = tokens[t]

\* The session never has two reads of one page in progress, and reads no page
\* it holds or the cache has.  (get_or_load_page may read again a page that
\* was materialized and evicted.)
PageInOnePlace ==
  LET held     == owned \cup Cached \cup IF single THEN {} ELSE materialized
      demanded == missing \cup Range(batch)
  IN /\ IsInjective(pending) /\ IsInjective(batch)
     /\ Range(pending) \cap (ready \cup held \cup demanded \cup requests) = {}
     /\ ready \cap (held \cup demanded \cup requests) = {}
     /\ held \cap (demanded \cup requests) = {}

\* Prefetched pages in flight, waiting for use or about to be requested stay
\* within session_prefetch_budget.
FootprintWithinBudget == Footprint + Cardinality(requests) <= Budget

\* Reads in progress that the session knows nothing of.
Leftover == DOMAIN reads \ (DOMAIN pending \cup DOMAIN batch)

\* Prefetching leaves the buffers that session_demand_io_reserve sets aside, so
\* that no demand and no prefetch of a query finds the pool exhausted, unless
\* reads of an earlier query are still in progress.
RoomForRequests ==
  Leftover = {} /\ batch = << >> => free >= Reserve + Cardinality(requests)

\* A pinned page stays in the cache, and a page is pinned exactly while the
\* query that pinned it lives, however that query ends; unless the prefetch
\* trace could not be written.
PinsMatchQuery ==
  /\ pinned \subseteq Cached
  /\ "trace" \notin faults =>
       \A p \in Cached : pins[p] = IF p \in pinned THEN 1 ELSE 0

\* ensure_pages_loaded_batch and get_or_load_page return only when every page
\* asked for is materialized, and nothing else ever is.
DemandArrives == pc \in {"search", "plan"} => materialized = visited

\* Once a query is over, and within it as long as no call has thrown, every
\* read has been handed over to the kernel.  Besides a failing io_uring_submit
\* there is one way to leave reads in the submission queue: without prefetching
\* finish_query submits nothing, and a chunk of several pages may find the pool
\* exhausted half way by reads that a failed query forgot.
ReadsHandedOver ==
  At("queued") /= {} /\ pc /= "failed" =>
    "submit" \in faults \/ (~Prefetching /\ Reserve > 1 /\ faults /= {})

\* Every call returns or throws, whatever fails, and closing the reader ends,
\* unless close_native waits for a read that was never handed over: nothing
\* submits it any more (ReadsHandedOver says when that happens).
CallsReturn ==
  pc \in {"scan", "plan", "failed", "closing"}
    ~> (pc \in {"search", "idle"} \/ (pc = "closing" /\ At("queued") /= {}))

\* Closing the reader always ends.
CloseEnds == pc = "closing" ~> pc = "idle"

\* Prefetching moves reads forward and changes nothing else: no query fails
\* while no operation does.
QueryFailsOnlyOnFault == pc = "failed" => faults /= {}

\* When no query runs, no page is pinned.
PinsReleased == pc = "idle" => \A p \in Cached : pins[p] = 0
=============================================================================
