---------------------------- MODULE MixedWorkload ----------------------------
(***************************************************************************)
(* One scenario of mixed_rw_benchmark: readers and writers over one        *)
(* DynamicWriteManager, a compaction thread and the main thread, which     *)
(* joins them, flushes, compacts, closes and opens the store again, and    *)
(* reports.  In sequential mode the main thread does all operations.       *)
(*                                                                         *)
(* Every access to an atomic is a step of its own, and so is every call of *)
(* the manager; what a call does inside is DynamicStore's and              *)
(* EngineSearch's.  Time is a clock that any step may let advance.         *)
(*                                                                         *)
(* Definitions named Faulty... are bugs the code does not have.            *)
(***************************************************************************)
EXTENDS Integers, SequencesExt

CONSTANTS
  Readers, Writers,  \* the threads
  Main,              \* the main thread
  Ops,               \* num_operations
  Batch,             \* insert_batch_size
  Interval,          \* interval_ns
  Settings,          \* the options a run may have, records of Setting
  MaxTimed,          \* bound: operations of a thread before duration_sec ends
  MaxCompactions,    \* bound: rounds of the compaction thread before stop
  MaxTime            \* bound of the clock

Workers == Readers \cup Writers
Threads == Workers \cup {Main}

Setting ==
  [sequential : BOOLEAN,
   timed : BOOLEAN,        \* duration_sec > 0
   ssd : BOOLEAN,          \* index_path is given
   limited : BOOLEAN,      \* recall_max_samples_per_sec > 0
   compaction : {"none", "background", "after"},
   flush : BOOLEAN]

ASSUME WorkloadAssumption ==
  /\ Readers \cap Writers = {} /\ Main \notin Workers
  /\ IsFiniteSet(Workers)
  /\ Ops \in Nat /\ Batch \in Nat \ {0} /\ Interval \in Nat \ {0}
  /\ Settings \subseteq Setting
  /\ Workers # {}   \* "Concurrent mode needs at least one worker thread"
  /\ MaxTimed \in Nat /\ MaxCompactions \in Nat /\ MaxTime \in Nat

VARIABLES
  setting,
  main,        \* where the main thread is
  pc,          \* where the workers are
  stop,
  claimed,     \* claimed_ops; the loop counter of a sequential run
  nextNode,    \* next_node_id, from the first after the base
  nextRecall,  \* next_recall_ns
  clock,
  own,         \* locals: node_id, inserts left, now, expected, whether a sample is allowed
  store,       \* the nodes inserted, in the order of their sequence numbers
  metrics,     \* reader_metrics, writer_metrics; the main thread's own
  merged,      \* the workers whose metrics have been merged into these
  samples,     \* the times recall samples were allowed at, in order
  compactor,   \* where the compaction thread is
  compactions, \* CompactionAggregate
  deltas       \* final_delta_records.size()

atomics == <<stop, claimed, nextNode, nextRecall>>
threads == <<pc, own, metrics>>
final   == <<merged, deltas>>
vars == <<setting, main, atomics, clock, threads, store, samples, compactor,
          compactions, final>>

Places == {"claim", "work", "now", "load", "cas", "count", "insert",
           "done", "failed"}
Stages == {"run", "sequential", "join", "stop", "merge", "compact", "close",
           "recover", "done", "failed"}

Metrics == [reads : Nat, written : Nat, sampled : Nat]
Locals  == [node : Nat, left : Nat, now : Nat, expected : Nat, sampled : BOOLEAN]
Unset   == [node |-> 0, left |-> 0, now |-> 0, expected |-> 0, sampled |-> FALSE]
Zero    == [reads |-> 0, written |-> 0, sampled |-> 0]

TypeOK ==
  /\ setting \in Settings /\ main \in Stages /\ pc \in [Workers -> Places]
  /\ stop \in BOOLEAN /\ claimed \in Nat /\ nextNode \in Nat
  /\ nextRecall \in Nat /\ clock \in Nat
  /\ own \in [Workers -> Locals] /\ metrics \in [Threads -> Metrics]
  /\ merged \subseteq Workers
  /\ \A t \in Workers : own[t].left <= Batch
  /\ store \in Seq(0 .. nextNode - 1) /\ samples \in Seq(0 .. clock)
  /\ compactor \in {"off", "loop", "sleep", "compact", "ended"}
  /\ compactions \in [tried : Nat, done : Nat]
  /\ deltas \in Nat

Init ==
  /\ setting \in Settings
  /\ main = IF setting.sequential THEN "sequential" ELSE "run"
  /\ pc = [t \in Workers |-> IF setting.sequential THEN "done" ELSE "claim"]
  /\ stop = FALSE /\ claimed = 0 /\ nextNode = 0 /\ nextRecall = 0 /\ clock = 0
  /\ own = [t \in Workers |-> Unset]
  /\ store = << >> /\ samples = << >>
  /\ metrics = [t \in Threads |-> Zero] /\ merged = {}
  /\ compactor = IF setting.compaction = "background" /\ ~setting.sequential
                 THEN "loop" ELSE "off"
  /\ compactions = [tried |-> 0, done |-> 0]
  /\ deltas = 0

Goto(t, place) == pc' = [pc EXCEPT ![t] = place]

-----------------------------------------------------------------------------
\* Workers.

\* A worker of a timed run has done all that the bound lets it do.
AtBound(t) ==
  /\ setting.timed /\ ~stop /\ pc[t] = "claim"
  /\ metrics[t].reads + metrics[t].written >= MaxTimed

\* claim_operation.  Only a timed run looks at stop.
Claim(t) ==
  /\ pc[t] = "claim" /\ ~AtBound(t)
  /\ IF setting.timed
     THEN /\ Goto(t, IF stop THEN "done" ELSE "work")
          /\ UNCHANGED <<claimed, stop>>
     ELSE /\ claimed' = claimed + 1
          /\ stop' = (stop \/ claimed >= Ops)
          /\ Goto(t, IF claimed >= Ops THEN "done" ELSE "work")
  /\ own' = [own EXCEPT ![t] = [Unset EXCEPT !.left = IF t \in Writers THEN Batch ELSE 0]]
  /\ UNCHANGED <<setting, main, nextNode, nextRecall, clock, metrics, store,
                 samples, compactor, compactions, final>>

\* An exception ends the thread; the others see it only in a timed run.
Throw(t) == Goto(t, "failed") /\ stop' = TRUE

\* search_memory_with_delta, or the search of an engine, which has no
\* quantizer and throws; then the draw of recall_sample_rate.
Read(t) ==
  /\ t \in Readers /\ pc[t] = "work"
  /\ \/ ~setting.ssd /\ UNCHANGED stop
        /\ \E place \in {"count", IF setting.limited THEN "now" ELSE "cas"} : Goto(t, place)
     \/ setting.ssd /\ Throw(t)
  /\ UNCHANGED <<setting, main, claimed, nextNode, nextRecall, clock, own, metrics,
                 store, samples, compactor, compactions, final>>

\* allow_recall_sample: now, the load, and compare_exchange_weak.
ReadClock(t) ==
  /\ pc[t] = "now"
  /\ own' = [own EXCEPT ![t].now = clock]
  /\ Goto(t, "load")
  /\ UNCHANGED <<setting, main, atomics, clock, metrics, store, samples,
                 compactor, compactions, final>>

LoadRecall(t) ==
  /\ pc[t] = "load"
  /\ own' = [own EXCEPT ![t].expected = nextRecall]
  /\ Goto(t, "cas")
  /\ UNCHANGED <<setting, main, atomics, clock, metrics, store, samples,
                 compactor, compactions, final>>

Allow(t) ==
  /\ nextRecall' = IF setting.limited THEN own[t].now + Interval ELSE nextRecall
  /\ samples' = IF setting.limited THEN Append(samples, own[t].now) ELSE samples
  /\ own' = [own EXCEPT ![t].sampled = TRUE]
  /\ Goto(t, "count")

\* The next time is stored whatever another reader stored meanwhile.
FaultyCompareExchange(t) ==
  /\ pc[t] = "cas"
  /\ IF own[t].now >= own[t].expected THEN Allow(t)
     ELSE Goto(t, "count") /\ UNCHANGED <<own, nextRecall, samples>>
  /\ UNCHANGED <<setting, main, stop, claimed, nextNode, clock, metrics, store,
                 compactor, compactions, final>>

\* A spurious failure loads the same value again and changes nothing.
CompareExchange(t) ==
  /\ pc[t] = "cas"
  /\ \/ ~setting.limited /\ Allow(t)
     \/ /\ setting.limited /\ own[t].now < own[t].expected
        /\ Goto(t, "count") /\ UNCHANGED <<own, nextRecall, samples>>
     \/ /\ setting.limited /\ own[t].now >= own[t].expected
        /\ IF nextRecall = own[t].expected THEN Allow(t)
           ELSE /\ own' = [own EXCEPT ![t].expected = nextRecall]
                /\ UNCHANGED <<pc, nextRecall, samples>>
  /\ UNCHANGED <<setting, main, stop, claimed, nextNode, clock, metrics, store,
                 compactor, compactions, final>>

\* record_recall_sample, with the snapshot of the read sequence, and
\* ++metrics.read_ops.
CountRead(t) ==
  /\ pc[t] = "count"
  /\ metrics' = [metrics EXCEPT
       ![t].reads = @ + 1,
       ![t].sampled = IF own[t].sampled THEN @ + 1 ELSE @]
  /\ own' = [own EXCEPT ![t] = Unset]
  /\ Goto(t, "claim")
  /\ UNCHANGED <<setting, main, atomics, clock, store, samples, compactor,
                 compactions, final>>

TakeNode(t) ==
  /\ t \in Writers /\ pc[t] = "work"
  /\ own' = [own EXCEPT ![t].node = nextNode]
  /\ nextNode' = nextNode + 1
  /\ Goto(t, "insert")
  /\ UNCHANGED <<setting, main, stop, claimed, nextRecall, clock, metrics, store,
                 samples, compactor, compactions, final>>

\* The batch ends one insert too late.
FaultyInsertNode(t) ==
  /\ pc[t] = "insert"
  /\ store' = Append(store, own[t].node)
  /\ metrics' = [metrics EXCEPT ![t].written = @ + 1]
  /\ own' = [own EXCEPT ![t].left = @ - 1, ![t].node = 0]
  /\ Goto(t, IF own[t].left > 0 THEN "work" ELSE "claim")
  /\ UNCHANGED <<setting, main, atomics, clock, samples, compactor, compactions,
                 final>>

InsertNode(t) ==
  /\ pc[t] = "insert"
  /\ store' = Append(store, own[t].node)
  /\ metrics' = [metrics EXCEPT ![t].written = @ + 1]
  /\ own' = [own EXCEPT ![t].left = @ - 1, ![t].node = 0]
  /\ Goto(t, IF own[t].left > 1 THEN "work" ELSE "claim")
  /\ UNCHANGED <<setting, main, atomics, clock, samples, compactor, compactions,
                 final>>

\* insert returns false, before or after the record is in the store.
InsertFails(t) ==
  /\ pc[t] = "insert"
  /\ store' \in {store, Append(store, own[t].node)}
  /\ Throw(t)
  /\ UNCHANGED <<setting, main, claimed, nextNode, nextRecall, clock, own, metrics,
                 samples, compactor, compactions, final>>

Work(t) ==
  \/ Claim(t) \/ Read(t) \/ ReadClock(t) \/ LoadRecall(t)
  \/ CompareExchange(t) \/ CountRead(t) \/ TakeNode(t) \/ InsertNode(t)
  \/ InsertFails(t)

-----------------------------------------------------------------------------
\* The compaction thread: it looks at stop before and after it sleeps.

CompactorSleeps ==
  /\ compactor = "loop" /\ (stop \/ compactions.tried < MaxCompactions)
  /\ compactor' = IF stop THEN "ended" ELSE "sleep"
  /\ UNCHANGED <<setting, main, atomics, clock, threads, store, samples,
                 compactions, final>>

CompactorWakes ==
  /\ compactor = "sleep"
  /\ compactor' = IF stop THEN "ended" ELSE "compact"
  /\ UNCHANGED <<setting, main, atomics, clock, threads, store, samples,
                 compactions, final>>

\* maybe_run_compaction: compact_once reports every call as attempted.
Counted(success) ==
  compactions' = [tried |-> compactions.tried + 1,
                  done  |-> compactions.done + (IF success THEN 1 ELSE 0)]

CompactorRuns ==
  /\ compactor = "compact"
  /\ \E success \in BOOLEAN : Counted(success)
  /\ compactor' = "loop"
  /\ UNCHANGED <<setting, main, atomics, clock, threads, store, samples, final>>

Compactor == CompactorSleeps \/ CompactorWakes \/ CompactorRuns

-----------------------------------------------------------------------------
\* The main thread.

\* run_sequential_scenario's loop: a read, with allow_recall_sample, or a
\* batch of inserts, which may fail after some.
SequentialRead ==
  /\ main = "sequential" /\ claimed < Ops
  /\ claimed' = claimed + 1
  /\ IF setting.ssd THEN main' = "failed" /\ UNCHANGED <<metrics, nextRecall, samples>>
     ELSE /\ \E draw \in BOOLEAN :
               LET allowed == draw /\ (setting.limited => clock >= nextRecall)
               IN  /\ metrics' = [metrics EXCEPT
                        ![Main].reads = @ + 1,
                        ![Main].sampled = IF allowed THEN @ + 1 ELSE @]
                   /\ IF allowed /\ setting.limited
                      THEN /\ nextRecall' = clock + Interval
                           /\ samples' = Append(samples, clock)
                      ELSE UNCHANGED <<nextRecall, samples>>
          /\ UNCHANGED main
  /\ UNCHANGED <<setting, pc, stop, nextNode, clock, own, store, compactor,
                 compactions, final>>

SequentialWrite ==
  /\ main = "sequential" /\ claimed < Ops
  /\ claimed' = claimed + 1
  /\ \E n \in 0 .. Batch :
       /\ store' = store \o [i \in 1 .. n |-> nextNode + i - 1]
       /\ nextNode' = nextNode + n
       /\ metrics' = [metrics EXCEPT ![Main].written = @ + n]
       /\ main' = IF n = Batch THEN main ELSE "failed"
  /\ UNCHANGED <<setting, pc, stop, nextRecall, clock, own, samples, compactor,
                 compactions, final>>

\* The sleep of duration_sec is over, and no one is told.
FaultyTimeIsUp ==
  /\ main = "run"
  /\ main' = "join" /\ UNCHANGED stop
  /\ UNCHANGED <<setting, pc, claimed, nextNode, nextRecall, clock, own, metrics,
                 store, samples, compactor, compactions, final>>

\* The sleep of duration_sec; without one the main thread joins at once.
TimeIsUp ==
  /\ main = "run"
  /\ main' = "join" /\ stop' = (stop \/ setting.timed)
  /\ UNCHANGED <<setting, pc, claimed, nextNode, nextRecall, clock, own, metrics,
                 store, samples, compactor, compactions, final>>

\* Only the readers are joined.
FaultyJoinWorkers ==
  /\ main = "join" /\ \A t \in Readers : pc[t] \in {"done", "failed"}
  /\ main' = "stop" /\ stop' = TRUE
  /\ UNCHANGED <<setting, pc, claimed, nextNode, nextRecall, clock, own, metrics,
                 store, samples, compactor, compactions, final>>

JoinWorkers ==
  /\ main = "join" /\ \A t \in Workers : pc[t] \in {"done", "failed"}
  /\ main' = "stop" /\ stop' = TRUE
  /\ UNCHANGED <<setting, pc, claimed, nextNode, nextRecall, clock, own, metrics,
                 store, samples, compactor, compactions, final>>

\* The first error is thrown again when all threads are joined.
JoinCompactor ==
  /\ main = "stop" /\ compactor \in {"off", "ended"}
  /\ main' = IF \E t \in Workers : pc[t] = "failed" THEN "failed" ELSE "merge"
  /\ UNCHANGED <<setting, atomics, clock, threads, store, samples, compactor,
                 compactions, final>>

\* merge_thread_metrics, for one thread after the other.
MergeThread ==
  /\ main = "merge" /\ merged # Workers
  /\ LET t == CHOOSE t \in Workers : t \notin merged
     IN  /\ metrics' = [metrics EXCEPT
              ![Main] = [reads   |-> @.reads + metrics[t].reads,
                         written |-> @.written + metrics[t].written,
                         sampled |-> @.sampled + metrics[t].sampled]]
         /\ merged' = merged \cup {t}
  /\ UNCHANGED <<setting, main, pc, atomics, clock, own, store, samples, compactor,
                 compactions, deltas>>

\* The flush after the last operation; a sequential run has nothing to merge.
FlushAll ==
  /\ \/ main = "merge" /\ merged = Workers
     \/ main = "sequential" /\ claimed = Ops
  /\ main' \in {"compact"} \cup (IF setting.flush THEN {"failed"} ELSE {})
  /\ UNCHANGED <<setting, atomics, clock, threads, store, samples, compactor,
                 compactions, final>>

\* A sequential run compacts here in either way.
CompactAfter ==
  /\ main = "compact"
  /\ IF setting.compaction = "after"
        \/ (setting.sequential /\ setting.compaction = "background")
     THEN \E success \in BOOLEAN : Counted(success)
     ELSE UNCHANGED compactions
  /\ main' = "close"
  /\ UNCHANGED <<setting, atomics, clock, threads, store, samples, compactor, final>>

\* collect_all_delta_records, one for each node, and close.
Close ==
  /\ main = "close"
  /\ deltas' = Cardinality(Range(store))
  /\ main' \in {"recover", "failed"}
  /\ UNCHANGED <<setting, atomics, clock, threads, store, samples, compactor,
                 compactions, merged>>

\* Another manager opens the store and closes it.
Recover ==
  /\ main = "recover"
  /\ main' \in {"done", "failed"}
  /\ UNCHANGED <<setting, atomics, clock, threads, store, samples, compactor,
                 compactions, final>>

MainStep ==
  \/ SequentialRead \/ SequentialWrite \/ TimeIsUp \/ JoinWorkers \/ JoinCompactor
  \/ MergeThread \/ FlushAll \/ CompactAfter \/ Close \/ Recover

Tick ==
  /\ clock < MaxTime /\ main \in {"run", "join", "sequential"}
  /\ clock' = clock + 1
  /\ UNCHANGED <<setting, main, atomics, threads, store, samples, compactor,
                 compactions, final>>

\* The program has ended, or a worker goes on working beyond the bound.
Idle ==
  /\ main \in {"done", "failed"} \/ \E t \in Workers : AtBound(t)
  /\ UNCHANGED vars

Next ==
  \/ \E t \in Workers : Work(t)
  \/ Compactor \/ MainStep \/ Tick \/ Idle

\* Every thread is scheduled, and a sleep ends.
Fairness ==
  /\ \A t \in Workers : WF_vars(Work(t))
  /\ WF_vars(Compactor) /\ WF_vars(MainStep)

Spec == Init /\ [][Next]_vars /\ Fairness

-----------------------------------------------------------------------------
\* Properties.

Reported == main \in {"compact", "close", "recover", "done"}

\* However the writers interleave, no node is inserted twice and none that
\* was taken is missing from a run that is reported: the nodes follow the
\* base without a gap, and no worker works any more.
NodesFollowBase ==
  Reported => /\ \A t \in Workers : pc[t] = "done"
              /\ Range(store) = 0 .. Len(store) - 1 /\ Len(store) = nextNode

\* A scenario that is reported has counted exactly what was done: a run
\* without a duration has executed num_operations operations however the
\* threads raced for them, every record written is in the store, which gives
\* back one record for each, and every sample allowed is counted.
ReportIsTrue ==
  /\ NodesFollowBase
  /\ Reported
     => LET m == metrics[Main]
        IN  /\ compactor \in {"off", "ended"}
            /\ ~setting.timed => Batch * m.reads + m.written = Batch * Ops
            /\ m.written = Len(store)
            /\ main \in {"recover", "done"} => deltas = Len(store)
            /\ m.sampled <= m.reads
            /\ setting.limited => m.sampled = Len(samples)

\* recall_max_samples_per_sec holds over all readers together: whoever wins,
\* with however old a time, two samples are an interval apart.
SamplesSpaced ==
  \A i, j \in DOMAIN samples : i < j => samples[j] >= samples[i] + Interval

\* Every scenario ends with a report or an error.
RunEnds == <>(main \in {"done", "failed"})
=============================================================================
