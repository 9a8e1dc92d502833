------------------------- MODULE MixedWorkloadProofs -------------------------
(***************************************************************************)
(* Theorems about MixedWorkload, for any number of readers and writers and *)
(* every setting: recall samples keep their distance, no node is written   *)
(* twice, the numbers are merged when nobody changes them any more, and    *)
(* what they add up to over all threads is what was done.                  *)
(***************************************************************************)
EXTENDS MixedWorkload, SequenceTheorems, FiniteSetTheorems, TLAPS

-----------------------------------------------------------------------------
\* Types.

\* What a worker holds at its place: a time that has been, a node that has
\* been taken, and inserts that are left.
HoldsInv(t) ==
  /\ own[t].now <= clock
  /\ pc[t] = "insert" => t \in Writers /\ own[t].node < nextNode
  /\ t \in Writers /\ pc[t] \in {"work", "insert"} => own[t].left > 0

TypeInv == TypeOK /\ \A t \in Workers : HoldsInv(t)

\* The worker part of TypeInv, which most steps disturb for one worker.
WorkersInv ==
  /\ pc \in [Workers -> Places] /\ own \in [Workers -> Locals]
  /\ \A t \in Workers : own[t].left <= Batch /\ HoldsInv(t)

RestInv ==
  /\ setting \in Settings /\ main \in Stages /\ stop \in BOOLEAN
  /\ claimed \in Nat /\ nextNode \in Nat /\ nextRecall \in Nat /\ clock \in Nat
  /\ metrics \in [Threads -> Metrics] /\ merged \subseteq Workers
  /\ store \in Seq(0 .. nextNode - 1) /\ samples \in Seq(0 .. clock)
  /\ compactor \in {"off", "loop", "sleep", "compact", "ended"}
  /\ compactions \in [tried : Nat, done : Nat] /\ deltas \in Nat

LEMMA TypeInvParts == TypeInv <=> WorkersInv /\ RestInv
BY DEF TypeInv, TypeOK, WorkersInv, RestInv

LEMMA UnsetType ==
  /\ Unset \in Locals
  /\ Unset.now = 0 /\ Unset.left = 0 /\ Unset.node = 0
BY DEF Unset, Locals

\* A sequence over 0 .. m is one over 0 .. n when n is not less.
LEMMA SeqGrows ==
  ASSUME NEW m \in Int, NEW n \in Int, m <= n, NEW s \in Seq(0 .. m)
  PROVE  s \in Seq(0 .. n)
OBVIOUS

\* A worker changes its own place and locals.
MovesTo(t, place, locals) ==
  /\ pc' = [pc EXCEPT ![t] = place]
  /\ own' = [own EXCEPT ![t] = locals]

LEMMA WorkerMoves ==
  ASSUME WorkersInv, NEW t \in Workers, NEW place \in Places, NEW locals \in Locals,
         MovesTo(t, place, locals), clock' = clock, nextNode \in Nat, nextNode' \in Nat, nextNode <= nextNode',
         locals.left <= Batch, locals.now <= clock,
         place = "insert" => t \in Writers /\ locals.node < nextNode',
         t \in Writers /\ place \in {"work", "insert"} => locals.left > 0
  PROVE  WorkersInv'
<1>1. /\ pc' \in [Workers -> Places] /\ own' \in [Workers -> Locals]
      /\ pc'[t] = place /\ own'[t] = locals
      /\ \A u \in Workers \ {t} : pc'[u] = pc[u] /\ own'[u] = own[u]
  BY DEF WorkersInv, MovesTo
<1>2. own'[t].left <= Batch /\ HoldsInv(t)'
  BY <1>1 DEF HoldsInv
<1>3. ASSUME NEW u \in Workers \ {t} PROVE own'[u].left <= Batch /\ HoldsInv(u)'
  <2>1. own[u].left <= Batch /\ HoldsInv(u) /\ own[u].node \in Nat
    BY DEF WorkersInv, Locals
  <2>2. pc'[u] = pc[u] /\ own'[u] = own[u]
    BY <1>1
  <2> QED
    BY <2>1, <2>2 DEF HoldsInv
<1> QED
  BY <1>1, <1>2, <1>3 DEF WorkersInv

\* The changes a worker makes to its locals keep their type.
LEMMA LocalsSet ==
  ASSUME NEW l \in Locals
  PROVE  /\ \A n \in Nat : [l EXCEPT !.left = n] \in Locals
         /\ \A n \in Nat : [l EXCEPT !.now = n] \in Locals
         /\ \A n \in Nat : [l EXCEPT !.expected = n] \in Locals
         /\ \A n \in Nat : [l EXCEPT !.node = n] \in Locals
         /\ \A b \in BOOLEAN : [l EXCEPT !.sampled = b] \in Locals
BY DEF Locals

LEMMA TypeInvInit == Init => TypeInv
<1> SUFFICES ASSUME Init PROVE TypeInv
  OBVIOUS
<1> USE WorkloadAssumption
<1>1. WorkersInv
  BY UnsetType DEF Init, WorkersInv, HoldsInv, Places
<1>2. metrics \in [Threads -> Metrics]
  BY DEF Init, Metrics, Zero
<1>3. main \in Stages /\ compactor \in {"off", "loop", "sleep", "compact", "ended"}
  BY DEF Init, Stages
<1>4. store \in Seq(0 .. nextNode - 1) /\ samples \in Seq(0 .. clock)
  BY DEF Init
<1>5. /\ claimed \in Nat /\ nextNode \in Nat /\ nextRecall \in Nat /\ clock \in Nat
      /\ compactions \in [tried : Nat, done : Nat] /\ deltas \in Nat
  BY DEF Init
<1>6. setting \in Settings /\ stop \in BOOLEAN /\ merged \subseteq Workers
  BY DEF Init
<1> QED
  BY <1>1, <1>2, <1>3, <1>4, <1>5, <1>6, TypeInvParts DEF RestInv

LEMMA WorkersInvNext == TypeInv /\ [Next]_vars => WorkersInv'
<1> SUFFICES ASSUME TypeInv, [Next]_vars PROVE WorkersInv'
  OBVIOUS
<1> USE WorkloadAssumption
<1>1. WorkersInv /\ RestInv
  BY TypeInvParts
<1>2. CASE UNCHANGED <<pc, own, clock, nextNode>>
  BY <1>1, <1>2 DEF WorkersInv, HoldsInv
<1>3. ASSUME UNCHANGED <<pc, own>>, clock' \in Nat, nextNode' \in Nat,
             clock <= clock', nextNode <= nextNode'
      PROVE  WorkersInv'
  <2>1. \A t \in Workers : own[t].now \in Nat /\ own[t].node \in Nat
    BY <1>1 DEF WorkersInv, Locals
  <2> QED
    BY <1>1, <1>3, <2>1 DEF WorkersInv, HoldsInv, RestInv
<1>4. ASSUME NEW t \in Workers, Work(t) PROVE WorkersInv'
  <2> DEFINE l == own[t]
  <2>1. /\ l \in Locals /\ l.left <= Batch /\ HoldsInv(t) /\ pc[t] \in Places
        /\ l.left \in Nat /\ l.now \in Nat /\ l.node \in Nat /\ l.expected \in Nat
        /\ clock \in Nat /\ nextNode \in Nat /\ nextRecall \in Nat
        /\ own = [own EXCEPT ![t] = l] /\ Batch \in Nat /\ Batch > 0
    BY <1>1, SMTT(60) DEF WorkersInv, RestInv, Locals
  <2>2. CASE Claim(t)
    <3> DEFINE n == IF t \in Writers THEN Batch ELSE 0
               locals == [Unset EXCEPT !.left = n]
    <3>1. locals \in Locals /\ locals.left = n /\ locals.now = 0
      BY <2>1, UnsetType, LocalsSet DEF Unset
    <3>2. PICK place \in {"done", "work"} : pc' = [pc EXCEPT ![t] = place]
      BY <2>2 DEF Claim, Goto
    <3>3. MovesTo(t, place, locals) /\ clock' = clock /\ nextNode' = nextNode
      BY <2>2, <3>2 DEF Claim, MovesTo
    <3>4. place \in Places /\ place # "insert"
      BY <3>2 DEF Places
    <3> HIDE DEF locals
    <3> QED
      BY <1>1, <2>1, <3>1, <3>2, <3>3, <3>4, WorkerMoves
  <2>3. CASE Read(t)
    <3>1. PICK place \in {"count", "now", "cas", "failed"} : pc' = [pc EXCEPT ![t] = place]
      BY <2>3 DEF Read, Throw, Goto
    <3>2. place \in Places /\ place \notin {"insert", "work"}
      BY <3>1 DEF Places
    <3>3. MovesTo(t, place, l) /\ clock' = clock /\ nextNode' = nextNode
      BY <2>1, <2>3, <3>1 DEF Read, Throw, MovesTo
    <3> QED
      BY <1>1, <2>1, <3>1, <3>2, <3>3, WorkerMoves DEF HoldsInv
  <2>4. CASE ReadClock(t)
    <3> DEFINE locals == [l EXCEPT !.now = clock]
    <3>1. /\ MovesTo(t, "load", locals)
          /\ clock' = clock /\ nextNode' = nextNode
      BY <2>1, <2>4 DEF ReadClock, MovesTo, Goto, atomics, Locals
    <3>2. locals \in Locals /\ locals.left = l.left /\ locals.now = clock
      BY <2>1, LocalsSet DEF Locals
    <3> HIDE DEF locals
    <3> QED
      BY <1>1, <2>1, <3>1, <3>2, WorkerMoves DEF Places
  <2>5. CASE LoadRecall(t)
    <3> DEFINE locals == [l EXCEPT !.expected = nextRecall]
    <3>1. /\ MovesTo(t, "cas", locals)
          /\ clock' = clock /\ nextNode' = nextNode
      BY <2>1, <2>5 DEF LoadRecall, MovesTo, Goto, atomics, Locals
    <3>2. locals \in Locals /\ locals.left = l.left /\ locals.now = l.now
      BY <2>1, LocalsSet DEF Locals
    <3> HIDE DEF locals
    <3> QED
      BY <1>1, <2>1, <3>1, <3>2, WorkerMoves DEF Places, HoldsInv
  <2>6. CASE CompareExchange(t)
    <3>1. clock' = clock /\ nextNode' = nextNode /\ pc[t] = "cas"
      BY <2>6 DEF CompareExchange
    <3>2. CASE Allow(t)
      <4> DEFINE locals == [l EXCEPT !.sampled = TRUE]
      <4>1. MovesTo(t, "count", locals)
        BY <2>1, <3>2 DEF MovesTo, Allow, Goto, Locals
      <4>2. locals \in Locals /\ locals.left = l.left /\ locals.now = l.now
        BY <2>1, LocalsSet DEF Locals
      <4> HIDE DEF locals
      <4> QED
        BY <1>1, <2>1, <3>1, <4>1, <4>2, WorkerMoves DEF Places, HoldsInv
    <3>3. CASE Goto(t, "count") /\ UNCHANGED own
      <4>1. MovesTo(t, "count", l)
        BY <2>1, <3>3 DEF MovesTo, Goto
      <4> QED
        BY <1>1, <2>1, <3>1, <4>1, WorkerMoves DEF Places, HoldsInv
    <3>4. CASE own' = [own EXCEPT ![t].expected = nextRecall] /\ UNCHANGED pc
      <4> DEFINE locals == [l EXCEPT !.expected = nextRecall]
      <4>1. MovesTo(t, "cas", locals)
        BY <1>1, <2>1, <3>1, <3>4 DEF MovesTo, WorkersInv, Locals
      <4>2. locals \in Locals /\ locals.left = l.left /\ locals.now = l.now
        BY <2>1, LocalsSet DEF Locals
      <4> HIDE DEF locals
      <4> QED
        BY <1>1, <2>1, <3>1, <4>1, <4>2, WorkerMoves DEF Places, HoldsInv
    <3> QED
      BY <2>6, <3>2, <3>3, <3>4 DEF CompareExchange
  <2>7. CASE CountRead(t)
    <3>1. /\ MovesTo(t, "claim", Unset)
          /\ clock' = clock /\ nextNode' = nextNode
      BY <2>7 DEF CountRead, MovesTo, Goto, atomics
    <3> QED
      BY <1>1, <2>1, <3>1, UnsetType, WorkerMoves DEF Places
  <2>8. CASE TakeNode(t)
    <3> DEFINE locals == [l EXCEPT !.node = nextNode]
    <3>1. /\ MovesTo(t, "insert", locals)
          /\ clock' = clock /\ nextNode' = nextNode + 1 /\ t \in Writers /\ pc[t] = "work"
      BY <2>1, <2>8 DEF TakeNode, MovesTo, Goto, Locals
    <3>2. /\ locals \in Locals /\ locals.left = l.left /\ locals.now = l.now
          /\ locals.node = nextNode
      BY <2>1, LocalsSet DEF Locals
    <3> HIDE DEF locals
    <3> QED
      BY <1>1, <2>1, <3>1, <3>2, WorkerMoves DEF Places, HoldsInv
  <2>9. CASE InsertNode(t)
    <3> DEFINE locals == [l EXCEPT !.left = l.left - 1, !.node = 0]
               place  == IF l.left > 1 THEN "work" ELSE "claim"
    <3>1. /\ MovesTo(t, place, locals)
          /\ clock' = clock /\ nextNode' = nextNode /\ t \in Writers /\ l.left > 0
      BY <2>1, <2>9, ZenonT(60) DEF InsertNode, MovesTo, Goto, Locals, atomics, HoldsInv
    <3>2. /\ locals \in Locals /\ locals.left = l.left - 1 /\ locals.now = l.now
      <4>1. l.left - 1 \in Nat
        BY <2>1, <3>1
      <4>2. [l EXCEPT !.left = l.left - 1] \in Locals
        BY <2>1, <4>1, LocalsSet
      <4>3. locals \in Locals
        BY <4>2, LocalsSet
      <4> QED
        BY <2>1, <4>3 DEF Locals
    <3>3. place \in Places /\ place # "insert" /\ (place = "work" => l.left > 1)
      BY DEF Places
    <3> HIDE DEF locals, place
    <3> QED
      BY <1>1, <2>1, <3>1, <3>2, <3>3, WorkerMoves DEF HoldsInv
  <2>10. CASE InsertFails(t)
    <3>1. /\ MovesTo(t, "failed", l)
          /\ clock' = clock /\ nextNode' = nextNode
      BY <2>1, <2>10 DEF InsertFails, MovesTo, Throw, Goto
    <3> QED
      BY <1>1, <2>1, <3>1, WorkerMoves DEF Places, HoldsInv
  <2> QED
    BY <1>4, <2>2, <2>3, <2>4, <2>5, <2>6, <2>7, <2>8, <2>9, <2>10 DEF Work
<1>5. CASE Compactor
  BY <1>2, <1>5 DEF Compactor, CompactorSleeps, CompactorWakes, CompactorRuns,
                    atomics, threads
<1>6. CASE MainStep
  <2>1. CASE SequentialWrite
    <3>1. PICK n \in 0 .. Batch : nextNode' = nextNode + n
      BY <2>1 DEF SequentialWrite
    <3>2. n \in Nat /\ nextNode \in Nat /\ clock \in Nat
      BY <1>1 DEF RestInv
    <3>3. UNCHANGED <<pc, own, clock>>
      BY <2>1 DEF SequentialWrite
    <3> QED
      BY <1>3, <3>1, <3>2, <3>3
  <2>2. CASE SequentialRead \/ TimeIsUp \/ JoinWorkers \/ JoinCompactor
    BY <1>2, <2>2 DEF SequentialRead, TimeIsUp, JoinWorkers, JoinCompactor, atomics, threads
  <2>3. CASE MergeThread \/ FlushAll \/ CompactAfter \/ Close \/ Recover
    BY <1>2, <2>3 DEF MergeThread, FlushAll, CompactAfter, Close, Recover, atomics, threads
  <2> QED
    BY <1>6, <2>1, <2>2, <2>3 DEF MainStep
<1>7. CASE Tick
  BY <1>1, <1>3, <1>7 DEF Tick, RestInv, atomics, threads
<1>8. CASE Idle \/ UNCHANGED vars
  BY <1>2, <1>8 DEF Idle, vars, atomics, threads
<1> QED
  BY <1>4, <1>5, <1>6, <1>7, <1>8 DEF Next

LEMMA MetricsSet ==
  ASSUME NEW m \in Metrics
  PROVE  /\ \A n \in Nat : [m EXCEPT !.reads = n] \in Metrics
         /\ \A n \in Nat : [m EXCEPT !.written = n] \in Metrics
         /\ \A n \in Nat : [m EXCEPT !.sampled = n] \in Metrics
BY DEF Metrics

\* A read is counted, and a sample with it or not.
LEMMA ReadCounted ==
  ASSUME NEW m \in Metrics, NEW b \in BOOLEAN
  PROVE  [m EXCEPT !.reads = @ + 1, !.sampled = IF b THEN @ + 1 ELSE @] \in Metrics
<1> DEFINE k == [m EXCEPT !.reads = m.reads + 1]
<1>1. k \in Metrics
  <2>1. m.reads + 1 \in Nat
    BY DEF Metrics
  <2> QED
    BY <2>1, MetricsSet
<1>2. (IF b THEN k.sampled + 1 ELSE k.sampled) \in Nat
  <2> HIDE DEF k
  <2> QED
    BY <1>1 DEF Metrics
<1> QED
  BY <1>1, <1>2, MetricsSet

\* Counters of one thread or of the total only grow.
LEMMA MetricsGrow ==
  ASSUME RestInv, NEW t \in Threads, NEW new \in Metrics,
         metrics' = [metrics EXCEPT ![t] = new]
  PROVE  metrics' \in [Threads -> Metrics]
BY DEF RestInv

LEMMA RestInvNext == TypeInv /\ [Next]_vars => RestInv'
<1> SUFFICES ASSUME TypeInv, [Next]_vars PROVE RestInv'
  OBVIOUS
<1> USE WorkloadAssumption
<1>1. WorkersInv /\ RestInv
  BY TypeInvParts
<1>2. Workers \subseteq Threads /\ Main \in Threads /\ Readers \subseteq Workers
  BY DEF Threads, Workers
<1>3. \A t \in Threads : /\ metrics[t] \in Metrics /\ metrics[t].reads \in Nat
                         /\ metrics[t].written \in Nat /\ metrics[t].sampled \in Nat
  BY <1>1 DEF RestInv, Metrics
<1>4. \A t \in Workers : /\ own[t].now \in 0 .. clock /\ own[t].node \in Nat
                         /\ own[t].now \in Nat /\ own[t].expected \in Nat
                         /\ pc[t] = "insert" => own[t].node \in 0 .. nextNode - 1
  BY <1>1, SMTT(60) DEF WorkersInv, HoldsInv, Locals, RestInv
<1>5. ASSUME NEW t \in Workers, Work(t) PROVE RestInv'
  <2>1. CASE Claim(t)
    <3>1. stop' \in BOOLEAN
      BY <1>1, <2>1, Zenon DEF Claim, RestInv
    <3>2. claimed' \in Nat
      BY <1>1, <2>1, SMTT(60) DEF Claim, RestInv
    <3> QED
      BY <1>1, <2>1, <3>1, <3>2 DEF Claim, RestInv, final
  <2>2. CASE Read(t)
    BY <1>1, <2>2 DEF Read, Throw, Goto, RestInv, final
  <2>3. CASE ReadClock(t) \/ LoadRecall(t)
    BY <1>1, <2>3 DEF ReadClock, LoadRecall, RestInv, atomics, final
  <2>4. CASE CompareExchange(t)
    <3>1. CASE UNCHANGED <<nextRecall, samples>>
      BY <1>1, <2>4, <3>1 DEF CompareExchange, RestInv, final
    <3>2. CASE nextRecall' = own[t].now + Interval /\ samples' = Append(samples, own[t].now)
      <4>1. nextRecall' \in Nat /\ samples' \in Seq(0 .. clock)
        BY <1>1, <1>4, <3>2 DEF RestInv
      <4> QED
        BY <1>1, <2>4, <4>1 DEF CompareExchange, RestInv, final
    <3> QED
      BY <2>4, <3>1, <3>2 DEF CompareExchange, Allow
  <2>5. CASE CountRead(t)
    <3> DEFINE new == [metrics[t] EXCEPT !.reads = @ + 1,
                         !.sampled = IF own[t].sampled THEN @ + 1 ELSE @]
    <3>1. new \in Metrics
      BY <1>1, <1>2, <1>3, ReadCounted DEF WorkersInv, Locals
    <3>2. metrics' = [metrics EXCEPT ![t] = new]
      BY <1>1, <1>2, <2>5 DEF CountRead, RestInv, Metrics
    <3> HIDE DEF new
    <3>3. metrics' \in [Threads -> Metrics]
      BY <1>1, <1>2, <3>1, <3>2, MetricsGrow
    <3> QED
      BY <1>1, <2>5, <3>3 DEF CountRead, RestInv, atomics, final
  <2>6. CASE TakeNode(t)
    <3>1. store \in Seq(0 .. nextNode)
      BY <1>1, SeqGrows DEF RestInv
    <3>2. nextNode' = nextNode + 1 /\ nextNode' - 1 = nextNode /\ store' = store
      BY <1>1, <2>6 DEF TakeNode, RestInv
    <3> QED
      BY <1>1, <2>6, <3>1, <3>2, SMTT(60) DEF TakeNode, RestInv, final
  <2>7. CASE InsertNode(t)
    <3> DEFINE new == [metrics[t] EXCEPT !.written = @ + 1]
    <3>1. new \in Metrics
      BY <1>2, <1>3 DEF Metrics
    <3>2. metrics' = [metrics EXCEPT ![t] = new]
      BY <1>1, <1>2, <2>7 DEF InsertNode, RestInv, Metrics
    <3> HIDE DEF new
    <3>3. metrics' \in [Threads -> Metrics]
      BY <1>1, <1>2, <3>1, <3>2, MetricsGrow
    <3>4. store' \in Seq(0 .. nextNode - 1)
      BY <1>1, <1>4, <2>7, SMTT(60) DEF InsertNode, RestInv
    <3> QED
      BY <1>1, <2>7, <3>3, <3>4 DEF InsertNode, RestInv, atomics, final
  <2>8. CASE InsertFails(t)
    <3>1. store' \in Seq(0 .. nextNode - 1)
      <4>1. /\ store \in Seq(0 .. nextNode - 1) /\ own[t].node \in 0 .. nextNode - 1
            /\ store' = store \/ store' = Append(store, own[t].node)
        BY <1>1, <1>4, <2>8 DEF InsertFails, RestInv
      <4>2. CASE store' = store
        BY <4>1, <4>2
      <4>3. CASE store' = Append(store, own[t].node)
        BY <4>1, <4>3
      <4> QED
        BY <4>1, <4>2, <4>3
    <3> QED
      BY <1>1, <2>8, <3>1 DEF InsertFails, Throw, RestInv, final
  <2> QED
    BY <1>5, <2>1, <2>2, <2>3, <2>4, <2>5, <2>6, <2>7, <2>8 DEF Work
<1>6. CASE Compactor
  <2>1. compactions.tried \in Nat /\ compactions.done \in Nat
    BY <1>1 DEF RestInv
  <2>2. CASE CompactorSleeps \/ CompactorWakes
    BY <1>1, <2>2 DEF CompactorSleeps, CompactorWakes, RestInv, atomics, threads, final
  <2>3. CASE CompactorRuns
    BY <1>1, <2>1, <2>3 DEF CompactorRuns, Counted, RestInv, atomics, threads, final
  <2> QED
    BY <1>6, <2>2, <2>3 DEF Compactor
<1>7. CASE MainStep
  <2>1. CASE SequentialRead
    <3>1. CASE UNCHANGED <<metrics, nextRecall, samples>>
      BY <1>1, <2>1, <3>1, SMTT(60) DEF SequentialRead, RestInv, Stages, final
    <3>2. CASE ~setting.ssd
      <4>1. PICK draw \in BOOLEAN :
              LET allowed == draw /\ (setting.limited => clock >= nextRecall)
              IN  /\ metrics' = [metrics EXCEPT
                       ![Main].reads = @ + 1,
                       ![Main].sampled = IF allowed THEN @ + 1 ELSE @]
                  /\ IF allowed /\ setting.limited
                     THEN /\ nextRecall' = clock + Interval
                          /\ samples' = Append(samples, clock)
                     ELSE UNCHANGED <<nextRecall, samples>>
        BY <2>1, <3>2 DEF SequentialRead
      <4> DEFINE allowed == draw /\ (setting.limited => clock >= nextRecall)
                 new == [metrics[Main] EXCEPT !.reads = @ + 1,
                          !.sampled = IF allowed THEN @ + 1 ELSE @]
      <4>2. new \in Metrics
        <5>1. allowed \in BOOLEAN
          OBVIOUS
        <5> HIDE DEF allowed
        <5> QED
          BY <1>2, <1>3, <5>1, ReadCounted
      <4>3. metrics' = [metrics EXCEPT ![Main] = new]
        BY <1>1, <1>2, <4>1 DEF RestInv, Metrics
      <4> HIDE DEF new
      <4>4. metrics' \in [Threads -> Metrics]
        BY <1>1, <1>2, <4>2, <4>3, MetricsGrow
      <4>5. nextRecall' \in Nat /\ samples' \in Seq(0 .. clock)
        <5>1. /\ nextRecall \in Nat /\ clock \in Nat /\ samples \in Seq(0 .. clock)
              /\ clock \in 0 .. clock
          BY <1>1 DEF RestInv
        <5>2. CASE nextRecall' = clock + Interval /\ samples' = Append(samples, clock)
          BY <5>1, <5>2
        <5>3. CASE UNCHANGED <<nextRecall, samples>>
          BY <5>1, <5>3
        <5> QED
          BY <4>1, <5>2, <5>3
      <4>6. /\ claimed' = claimed + 1 /\ main' = main
            /\ UNCHANGED <<setting, pc, stop, nextNode, clock, own, store, compactor,
                           compactions, merged, deltas>>
        BY <2>1, <3>2 DEF SequentialRead, final
      <4> QED
        BY <1>1, <4>4, <4>5, <4>6 DEF RestInv
    <3> QED
      BY <2>1, <3>1, <3>2 DEF SequentialRead
  <2>2. CASE SequentialWrite
    <3>1. PICK n \in 0 .. Batch :
             /\ store' = store \o [i \in 1 .. n |-> nextNode + i - 1]
             /\ nextNode' = nextNode + n
             /\ metrics' = [metrics EXCEPT ![Main].written = @ + n]
             /\ main' = IF n = Batch THEN main ELSE "failed"
      BY <2>2 DEF SequentialWrite
    <3> DEFINE new  == [metrics[Main] EXCEPT !.written = @ + n]
               more == [i \in 1 .. n |-> nextNode + i - 1]
               S    == 0 .. nextNode + n - 1
    <3>2. n \in Nat /\ nextNode \in Nat
      BY <1>1 DEF RestInv
    <3>3. new \in Metrics
      BY <1>2, <1>3, <3>2 DEF Metrics
    <3>4. metrics' = [metrics EXCEPT ![Main] = new]
      BY <1>1, <1>2, <3>1 DEF RestInv, Metrics
    <3>5. \A i \in 1 .. n : nextNode + i - 1 \in S
      BY <3>2
    <3>6. more \in Seq(S)
      BY <3>2, <3>5, IsASeq
    <3>7. store \in Seq(S)
      BY <1>1, <3>2, SeqGrows DEF RestInv
    <3> HIDE DEF new, more
    <3>8. metrics' \in [Threads -> Metrics]
      BY <1>1, <1>2, <3>3, <3>4, MetricsGrow
    <3>9. store \o more \in Seq(S)
      BY <3>6, <3>7, ConcatProperties
    <3>10. store' \in Seq(0 .. nextNode' - 1) /\ nextNode' \in Nat
      BY <3>1, <3>2, <3>9 DEF more
    <3>11. /\ claimed' = claimed + 1 /\ main' \in Stages
           /\ UNCHANGED <<setting, stop, nextRecall, clock, samples, compactor,
                          compactions, merged, deltas>>
      BY <1>1, <2>2, <3>1 DEF SequentialWrite, RestInv, Stages, final
    <3> QED
      BY <1>1, <3>8, <3>10, <3>11 DEF RestInv
  <2>3. CASE TimeIsUp \/ JoinWorkers \/ JoinCompactor \/ FlushAll \/ Recover
    BY <1>1, <2>3 DEF TimeIsUp, JoinWorkers, JoinCompactor, FlushAll, Recover, RestInv,
                      Stages, atomics, threads, final
  <2>4. CASE MergeThread
    <3> DEFINE t == CHOOSE t \in Workers : t \notin merged
               new == [reads   |-> metrics[Main].reads + metrics[t].reads,
                       written |-> metrics[Main].written + metrics[t].written,
                       sampled |-> metrics[Main].sampled + metrics[t].sampled]
    <3>1. t \in Workers
      BY <1>1, <2>4 DEF MergeThread, RestInv
    <3> HIDE DEF t
    <3>2. new \in Metrics
      BY <1>2, <1>3, <3>1 DEF Metrics
    <3>3. metrics' = [metrics EXCEPT ![Main] = new] /\ merged' = merged \cup {t}
      BY <1>1, <1>2, <2>4 DEF MergeThread, RestInv, Metrics, t
    <3> HIDE DEF new
    <3>4. metrics' \in [Threads -> Metrics] /\ merged' \subseteq Workers
      BY <1>1, <1>2, <3>1, <3>2, <3>3, MetricsGrow DEF RestInv
    <3> QED
      BY <1>1, <2>4, <3>4 DEF MergeThread, RestInv, atomics
  <2>5. CASE CompactAfter
    <3>1. compactions.tried \in Nat /\ compactions.done \in Nat
      BY <1>1 DEF RestInv
    <3> QED
      BY <1>1, <2>5, <3>1 DEF CompactAfter, Counted, RestInv, Stages, atomics, threads, final
  <2>6. CASE Close
    <3>1. store \in Seq(0 .. nextNode - 1) /\ nextNode \in Nat
      BY <1>1 DEF RestInv
    <3>2. Range(store) \subseteq 0 .. nextNode - 1
      BY <3>1 DEF Range
    <3>3. IsFiniteSet(0 .. nextNode - 1)
      <4>1. 0 \in Int /\ nextNode - 1 \in Int
        BY <3>1
      <4> QED
        BY <4>1, FS_Interval
    <3>4. Cardinality(Range(store)) \in Nat
      BY <3>2, <3>3, FS_Subset, FS_CardinalityType
    <3> QED
      BY <1>1, <2>6, <3>4 DEF Close, RestInv, Stages, atomics, threads
  <2> QED
    BY <1>7, <2>1, <2>2, <2>3, <2>4, <2>5, <2>6 DEF MainStep
<1>8. CASE Tick
  <2>1. samples \in Seq(0 .. clock + 1)
    BY <1>1, SeqGrows DEF RestInv
  <2> QED
    BY <1>1, <1>8, <2>1 DEF Tick, RestInv, atomics, threads, final
<1>9. CASE Idle \/ UNCHANGED vars
  BY <1>1, <1>9 DEF Idle, vars, RestInv, atomics, threads, final
<1> QED
  BY <1>5, <1>6, <1>7, <1>8, <1>9 DEF Next

LEMMA TypeInvNext == TypeInv /\ [Next]_vars => TypeInv'
<1>1. (WorkersInv /\ RestInv)' => TypeInv'
  BY DEF TypeInv, TypeOK, WorkersInv, RestInv
<1> QED
  BY <1>1, WorkersInvNext, RestInvNext

\* Every variable keeps its type: above all a writer never takes more
\* inserts than its batch, nor fewer than none, the store never holds a node
\* that was not taken, and no sample carries a time that has not come.
THEOREM WorkloadTypeCorrect == Spec => []TypeOK
<1>1. TypeInv => TypeOK
  BY DEF TypeInv
<1> QED
  BY <1>1, TypeInvInit, TypeInvNext, PTL DEF Spec

-----------------------------------------------------------------------------
\* Recall samples.

\* The next sample may be taken an interval after the last one.
NextSampleInv ==
  samples # << >> => /\ setting.limited
                     /\ nextRecall = samples[Len(samples)] + Interval

SampleInv == TypeInv /\ NextSampleInv /\ SamplesSpaced

\* A sample taken no sooner than nextRecall keeps the distance to all.
LEMMA SampleTaken ==
  ASSUME SampleInv, NEW now \in Nat, setting.limited, now >= nextRecall,
         samples' = Append(samples, now), nextRecall' = now + Interval,
         setting' = setting
  PROVE  NextSampleInv' /\ SamplesSpaced'
<1> USE WorkloadAssumption
<1>1. samples \in Seq(Nat)
  BY DEF SampleInv, TypeInv, TypeOK
<1> DEFINE n == Len(samples)
<1>2. /\ samples' \in Seq(Nat) /\ Len(samples') = n + 1 /\ n \in Nat
      /\ samples'[n + 1] = now
      /\ \A i \in 1 .. n : samples'[i] = samples[i] /\ samples[i] \in Nat
  BY <1>1
<1>3. NextSampleInv'
  BY <1>2 DEF NextSampleInv
<1>4. ASSUME NEW i \in 1 .. n PROVE now >= samples[i] + Interval
  <2>1. n > 0 /\ samples # << >>
    BY <1>1, <1>2, <1>4
  <2>2. nextRecall = samples[n] + Interval
    BY <2>1 DEF SampleInv, NextSampleInv
  <2>3. i = n \/ samples[n] >= samples[i] + Interval
    BY <1>1, <1>2, <1>4, <2>1 DEF SampleInv, SamplesSpaced
  <2> QED
    BY <1>2, <1>4, <2>1, <2>2, <2>3
<1>5. SamplesSpaced'
  <2> SUFFICES ASSUME NEW i \in 1 .. n + 1, NEW j \in 1 .. n + 1, i < j
               PROVE  samples'[j] >= samples'[i] + Interval
    BY <1>2 DEF SamplesSpaced
  <2>1. CASE j = n + 1
    BY <1>2, <1>4, <2>1
  <2>2. CASE j # n + 1
    <3>1. i \in DOMAIN samples /\ j \in DOMAIN samples
      BY <1>1, <1>2, <2>2, SMTT(60)
    <3> QED
      BY <1>2, <2>2, <3>1 DEF SampleInv, SamplesSpaced
  <2> QED
    BY <2>1, <2>2
<1> QED
  BY <1>3, <1>5

LEMMA SampleInvNext == SampleInv /\ [Next]_vars => SampleInv'
<1> SUFFICES ASSUME SampleInv, [Next]_vars PROVE SampleInv'
  OBVIOUS
<1>1. TypeInv'
  BY TypeInvNext DEF SampleInv
<1>2. CASE UNCHANGED <<setting, samples, nextRecall>>
  BY <1>1, <1>2 DEF SampleInv, NextSampleInv, SamplesSpaced
<1>3. ASSUME NEW t \in Workers, CompareExchange(t) PROVE SampleInv'
  <2>1. own[t].now \in Nat
    BY DEF SampleInv, TypeInv, TypeOK, Locals
  <2>2. CASE ~setting.limited
    BY <1>2, <1>3, <2>2 DEF CompareExchange, Allow
  <2>3. CASE /\ setting.limited /\ own[t].now >= own[t].expected
             /\ nextRecall = own[t].expected
    <3>1. Allow(t) /\ setting' = setting
      BY <1>3, <2>1, <2>3 DEF CompareExchange, SampleInv, TypeInv, TypeOK, Locals
    <3>2. /\ samples' = Append(samples, own[t].now)
          /\ nextRecall' = own[t].now + Interval
      BY <2>3, <3>1 DEF Allow
    <3> QED
      BY <1>1, <2>1, <2>3, <3>1, <3>2, SampleTaken DEF SampleInv
  <2>4. CASE /\ setting.limited
             /\ ~(own[t].now >= own[t].expected /\ nextRecall = own[t].expected)
    BY <1>2, <1>3, <2>4 DEF CompareExchange
  <2> QED
    BY <2>2, <2>3, <2>4
<1>4. ASSUME SequentialRead PROVE SampleInv'
  <2>1. CASE samples' = Append(samples, clock) /\ nextRecall' = clock + Interval
             /\ setting.limited /\ clock >= nextRecall
    <3>1. setting' = setting /\ clock \in Nat
      BY <1>4 DEF SequentialRead, SampleInv, TypeInv, TypeOK
    <3> QED
      BY <1>1, <2>1, <3>1, SampleTaken DEF SampleInv
  <2>2. CASE UNCHANGED <<nextRecall, samples>>
    BY <1>2, <1>4, <2>2 DEF SequentialRead
  <2> QED
    BY <1>4, <2>1, <2>2 DEF SequentialRead
<1>5. CASE UNCHANGED vars
  BY <1>2, <1>5 DEF vars, atomics
<1>6. ASSUME NEW t \in Workers, Work(t) PROVE SampleInv'
  BY <1>2, <1>3, <1>6 DEF Work, Claim, Read, Throw, ReadClock, LoadRecall, CountRead,
                          TakeNode, InsertNode, InsertFails, atomics
<1>7. CASE Compactor
  BY <1>2, <1>7 DEF Compactor, CompactorSleeps, CompactorWakes, CompactorRuns, atomics
<1>8. CASE MainStep
  BY <1>2, <1>4, <1>8 DEF MainStep, SequentialWrite, TimeIsUp, JoinWorkers,
     JoinCompactor, MergeThread, FlushAll, CompactAfter, Close, Recover, atomics, threads
<1>9. CASE Tick
  BY <1>2, <1>9 DEF Tick, atomics
<1>10. CASE Idle
  BY <1>5, <1>10 DEF Idle
<1> QED
  BY <1>5, <1>6, <1>7, <1>8, <1>9, <1>10 DEF Next

\* However many readers race for a sample, with however old a time, and
\* whether or not the exchange fails: allow_recall_sample never allows two
\* within the interval of recall_max_samples_per_sec.
THEOREM SamplesKeepDistance == Spec => []SamplesSpaced
<1>1. Init => SampleInv
  BY TypeInvInit DEF Init, SampleInv, NextSampleInv, SamplesSpaced
<1>2. SampleInv => SamplesSpaced
  BY DEF SampleInv
<1> QED
  BY <1>1, <1>2, SampleInvNext, PTL DEF Spec

-----------------------------------------------------------------------------
\* Nodes.

Inserting == {t \in Workers : pc[t] = "insert"}
InFlight  == {own[t].node : t \in Inserting}

\* The workers stand still when they are joined, and in a sequential run.
JoinInv ==
  /\ main = "sequential" => \A t \in Workers : pc[t] = "done"
  /\ main \in {"stop", "merge", "compact", "close", "recover", "done"}
       => \A t \in Workers : pc[t] \in {"done", "failed"}
  /\ main \in {"merge", "compact", "close", "recover", "done"}
       => \A t \in Workers : pc[t] = "done"

\* A node is in the store once, or with one writer, never both.
UniqueInv ==
  /\ \A i, j \in DOMAIN store : store[i] = store[j] => i = j
  /\ \A t \in Inserting : own[t].node \notin Range(store)
  /\ \A t, u \in Inserting : own[t].node = own[u].node => t = u

\* Every node that was taken is there, unless an insert has failed.
CompleteInv ==
  (\A t \in Workers : pc[t] # "failed")
  => \A k \in 0 .. nextNode - 1 : k \in Range(store) \/ k \in InFlight

NodesInv == TypeInv /\ JoinInv /\ UniqueInv /\ CompleteInv

\* What TypeInv says of the nodes.
LEMMA NodeTypes ==
  ASSUME TypeInv
  PROVE  /\ nextNode \in Nat /\ store \in Seq(Nat) /\ Batch \in Nat
         /\ \A t \in Workers : own[t].node \in Nat
         /\ \A t \in Inserting : own[t].node < nextNode
         /\ \A i \in DOMAIN store : store[i] \in Nat /\ store[i] < nextNode
         /\ \A k \in Range(store) : k \in Nat /\ k < nextNode
<1>1. nextNode \in Nat /\ store \in Seq(0 .. nextNode - 1) /\ Batch \in Nat
  BY WorkloadAssumption DEF TypeInv, TypeOK
<1>2. \A i \in DOMAIN store : store[i] \in 0 .. nextNode - 1
  BY <1>1
<1>3. \A t \in Workers : own[t].node \in Nat
  BY DEF TypeInv, TypeOK, Locals
<1>4. \A t \in Inserting : own[t].node < nextNode
  BY DEF TypeInv, HoldsInv, Inserting
<1>5. store \in Seq(Nat)
  BY <1>1
<1> QED
  BY <1>1, <1>2, <1>3, <1>4, <1>5 DEF Range

LEMMA JoinInvNext == TypeInv /\ JoinInv /\ [Next]_vars => JoinInv'
<1> SUFFICES ASSUME TypeInv, JoinInv, [Next]_vars PROVE JoinInv'
  OBVIOUS
<1>1. CASE UNCHANGED <<main, pc>>
  BY <1>1 DEF JoinInv
<1>2. ASSUME NEW t \in Workers, Work(t) PROVE JoinInv'
  <2>1. main' = main /\ pc[t] \notin {"done", "failed"}
    BY <1>2 DEF Work, Claim, Read, Throw, ReadClock, LoadRecall, CompareExchange,
       CountRead, TakeNode, InsertNode, InsertFails
  <2> QED
    BY <2>1 DEF JoinInv
<1>3. CASE Compactor
  BY <1>1, <1>3 DEF Compactor, CompactorSleeps, CompactorWakes, CompactorRuns, threads
<1>4. CASE MainStep
  <2>1. CASE SequentialRead \/ SequentialWrite
    BY <2>1 DEF SequentialRead, SequentialWrite, JoinInv
  <2>2. CASE TimeIsUp
    BY <2>2 DEF TimeIsUp, JoinInv
  <2>3. CASE JoinWorkers
    BY <2>3 DEF JoinWorkers, JoinInv
  <2>4. CASE JoinCompactor
    BY <2>4 DEF JoinCompactor, JoinInv, threads
  <2>5. CASE MergeThread
    BY <1>1, <2>5 DEF MergeThread
  <2>6. CASE FlushAll \/ CompactAfter \/ Close \/ Recover
    BY <2>6 DEF FlushAll, CompactAfter, Close, Recover, JoinInv, threads
  <2> QED
    BY <1>4, <2>1, <2>2, <2>3, <2>4, <2>5, <2>6 DEF MainStep
<1>5. CASE Tick \/ Idle \/ UNCHANGED vars
  BY <1>1, <1>5 DEF Tick, Idle, vars, threads
<1> QED
  BY <1>2, <1>3, <1>4, <1>5 DEF Next

\* A step that leaves the store and what writers hold.
LEMMA NodesStay ==
  ASSUME UniqueInv, CompleteInv, UNCHANGED <<store, nextNode>>,
         Inserting' = Inserting, \A t \in Inserting : own'[t].node = own[t].node,
         \A t \in Workers : pc[t] = "failed" => pc'[t] = "failed"
  PROVE  UniqueInv' /\ CompleteInv'
<1>1. UniqueInv'
  BY DEF UniqueInv
<1>2. InFlight' = InFlight
  BY DEF InFlight
<1>3. CompleteInv'
  BY <1>2 DEF CompleteInv
<1> QED
  BY <1>1, <1>3

\* A worker that holds no node before and after.
LEMMA PlaceChanges ==
  ASSUME TypeInv, NEW t \in Workers, NEW place, NEW locals, MovesTo(t, place, locals),
         pc[t] # "insert", place # "insert", pc[t] # "failed"
  PROVE  /\ Inserting' = Inserting
         /\ \A u \in Inserting : own'[u].node = own[u].node
         /\ \A u \in Workers : pc[u] = "failed" => pc'[u] = "failed"
<1>1. pc \in [Workers -> Places] /\ own \in [Workers -> Locals]
  BY DEF TypeInv, TypeOK
<1>2. /\ pc'[t] = place
      /\ \A u \in Workers \ {t} : pc'[u] = pc[u] /\ own'[u] = own[u]
  BY <1>1 DEF MovesTo
<1> QED
  BY <1>2 DEF Inserting

\* A writer puts its node into the store, and goes on or fails.
LEMMA NodeStored ==
  ASSUME TypeInv, UniqueInv, CompleteInv, NEW t \in Inserting,
         store' = Append(store, own[t].node), nextNode' = nextNode,
         Inserting' = Inserting \ {t},
         \A u \in Inserting' : own'[u].node = own[u].node,
         \A u \in Workers : pc[u] = "failed" => pc'[u] = "failed"
  PROVE  UniqueInv' /\ CompleteInv'
<1> DEFINE n == Len(store)
           k == own[t].node
<1>1. /\ store \in Seq(Nat) /\ n \in Nat /\ k \in Nat /\ t \in Workers
      /\ DOMAIN store = 1 .. n
  BY NodeTypes DEF Inserting
<1>2. /\ DOMAIN store' = 1 .. n + 1 /\ store'[n + 1] = k
      /\ \A i \in 1 .. n : store'[i] = store[i]
  BY <1>1
<1>3. Range(store') = Range(store) \cup {k}
  <2>1. ASSUME NEW i \in DOMAIN store' PROVE store'[i] \in Range(store) \cup {k}
    BY <1>1, <1>2 DEF Range
  <2>2. k \in Range(store')
    BY <1>1, <1>2 DEF Range
  <2>3. ASSUME NEW i \in DOMAIN store PROVE store[i] \in Range(store')
    BY <1>1, <1>2 DEF Range
  <2> QED
    BY <2>1, <2>2, <2>3, ZenonT(60) DEF Range
<1>4. k \notin Range(store)
  BY DEF UniqueInv
<1>5. \A i, j \in DOMAIN store' : store'[i] = store'[j] => i = j
  <2> SUFFICES ASSUME NEW i \in 1 .. n + 1, NEW j \in 1 .. n + 1, store'[i] = store'[j]
               PROVE  i = j
    BY <1>2
  <2>1. CASE i \in 1 .. n /\ j \in 1 .. n
    BY <1>1, <1>2, <2>1 DEF UniqueInv
  <2>2. CASE i = n + 1 /\ j \in 1 .. n
    BY <1>1, <1>2, <1>4, <2>2 DEF Range
  <2>3. CASE j = n + 1 /\ i \in 1 .. n
    BY <1>1, <1>2, <1>4, <2>3 DEF Range
  <2> QED
    BY <1>1, <2>1, <2>2, <2>3
<1>6. ASSUME NEW u \in Inserting' PROVE own'[u].node \notin Range(store')
  BY <1>3, <1>6 DEF UniqueInv
<1>7. \A u, v \in Inserting' : own'[u].node = own'[v].node => u = v
  BY DEF UniqueInv
<1>8. InFlight \subseteq InFlight' \cup {k}
  BY DEF InFlight
<1>9. CompleteInv'
  BY <1>3, <1>8 DEF CompleteInv
<1> QED
  BY <1>5, <1>6, <1>7, <1>9 DEF UniqueInv

\* A writer takes the next node.
LEMMA NodeTaken ==
  ASSUME TypeInv, UniqueInv, CompleteInv, NEW t \in Workers, t \notin Inserting,
         store' = store, nextNode' = nextNode + 1,
         Inserting' = Inserting \cup {t}, own'[t].node = nextNode,
         \A u \in Inserting : own'[u].node = own[u].node,
         \A u \in Workers : pc[u] = "failed" => pc'[u] = "failed"
  PROVE  UniqueInv' /\ CompleteInv'
<1>1. \A u \in Inserting : own[u].node # nextNode /\ own'[u].node = own[u].node
  BY NodeTypes DEF Inserting
<1>2. nextNode \notin Range(store) /\ nextNode \in Nat
  BY NodeTypes
<1>3. UniqueInv'
  BY <1>1, <1>2 DEF UniqueInv
<1>4. InFlight' = InFlight \cup {nextNode}
  BY DEF InFlight
<1>5. CompleteInv'
  BY <1>2, <1>4 DEF CompleteInv
<1> QED
  BY <1>3, <1>5

\* The main thread of a sequential run inserts several nodes in a row.
LEMMA NodesAppended ==
  ASSUME TypeInv, UniqueInv, CompleteInv, NEW n \in Nat, Inserting = {},
         store' = store \o [i \in 1 .. n |-> nextNode + i - 1],
         nextNode' = nextNode + n, UNCHANGED pc
  PROVE  UniqueInv' /\ CompleteInv'
<1> DEFINE m == Len(store)
           more == [i \in 1 .. n |-> nextNode + i - 1]
<1>1. /\ store \in Seq(Nat) /\ m \in Nat /\ nextNode \in Nat /\ DOMAIN store = 1 .. m
      /\ \A i \in 1 .. m : store[i] \in Nat /\ store[i] < nextNode
  BY NodeTypes
<1>2. more \in Seq(Nat) /\ Len(more) = n /\ \A i \in 1 .. n : more[i] = nextNode + i - 1
  <2>1. \A i \in 1 .. n : nextNode + i - 1 \in Nat
    BY <1>1
  <2> QED
    BY <2>1, IsASeq
<1> HIDE DEF more
<1>3. /\ DOMAIN store' = 1 .. m + n
      /\ \A i \in 1 .. m : store'[i] = store[i]
      /\ \A i \in m + 1 .. m + n : store'[i] = nextNode + (i - m) - 1
  BY <1>1, <1>2, ConcatProperties DEF more
<1>4. Inserting' = {}
  BY DEF Inserting
<1>5. ASSUME NEW i \in 1 .. m + n, NEW j \in 1 .. m + n, store'[i] = store'[j]
      PROVE  i = j
  <2>1. CASE i \in 1 .. m /\ j \in 1 .. m
    BY <1>1, <1>3, <1>5, <2>1 DEF UniqueInv
  <2>2. CASE i \notin 1 .. m /\ j \notin 1 .. m
    BY <1>1, <1>3, <1>5, <2>2
  <2>3. CASE i \in 1 .. m /\ j \notin 1 .. m
    BY <1>1, <1>3, <1>5, <2>3
  <2>4. CASE j \in 1 .. m /\ i \notin 1 .. m
    BY <1>1, <1>3, <1>5, <2>4
  <2> QED
    BY <2>1, <2>2, <2>3, <2>4
<1>6. UniqueInv'
  BY <1>3, <1>4, <1>5 DEF UniqueInv
<1>7. ASSUME \A t \in Workers : pc[t] # "failed", NEW k \in 0 .. nextNode + n - 1
      PROVE  k \in Range(store')
  <2>1. CASE k < nextNode
    <3>1. k \in Range(store)
      BY <1>1, <1>7, <2>1 DEF CompleteInv, InFlight
    <3>2. PICK i \in 1 .. m : store[i] = k
      BY <1>1, <3>1 DEF Range
    <3>3. i \in DOMAIN store' /\ store'[i] = k
      BY <1>1, <1>3, <3>2
    <3> QED
      BY <3>3 DEF Range
  <2>2. CASE k >= nextNode
    <3> DEFINE i == m + (k - nextNode) + 1
    <3>1. i \in m + 1 .. m + n /\ i \in 1 .. m + n /\ nextNode + (i - m) - 1 = k
      BY <1>1, <2>2
    <3> QED
      BY <1>3, <3>1 DEF Range
  <2> QED
    BY <1>1, <2>1, <2>2
<1>8. CompleteInv'
  <2> SUFFICES ASSUME \A t \in Workers : pc'[t] # "failed",
                      NEW k \in 0 .. nextNode' - 1
               PROVE  k \in Range(store')
    BY DEF CompleteInv
  <2>1. k \in 0 .. nextNode + n - 1 /\ \A t \in Workers : pc[t] # "failed"
    BY <1>1
  <2> QED
    BY <1>7, <2>1
<1> QED
  BY <1>6, <1>8

LEMMA NodesInvNext == NodesInv /\ [Next]_vars => NodesInv'
<1> SUFFICES ASSUME NodesInv, [Next]_vars PROVE NodesInv'
  OBVIOUS
<1>1. TypeInv /\ JoinInv /\ UniqueInv /\ CompleteInv
  BY DEF NodesInv
<1>2. TypeInv' /\ JoinInv'
  BY <1>1, TypeInvNext, JoinInvNext
<1>3. pc \in [Workers -> Places] /\ own \in [Workers -> Locals]
  BY <1>1 DEF TypeInv, TypeOK
<1>4. ASSUME UNCHANGED <<store, nextNode, pc, own>> PROVE NodesInv'
  BY <1>1, <1>2, <1>4, NodesStay DEF NodesInv, Inserting
<1>5. ASSUME NEW t \in Workers, NEW place, NEW locals, MovesTo(t, place, locals),
             pc[t] # "insert", place # "insert", pc[t] # "failed",
             UNCHANGED <<store, nextNode>>
      PROVE  NodesInv'
  <2>1. /\ Inserting' = Inserting
        /\ \A u \in Inserting : own'[u].node = own[u].node
        /\ \A u \in Workers : pc[u] = "failed" => pc'[u] = "failed"
    BY <1>1, <1>5, PlaceChanges
  <2> QED
    BY <1>1, <1>2, <1>5, <2>1, NodesStay DEF NodesInv
<1>6. ASSUME NEW t \in Workers, Work(t) PROVE NodesInv'
  <2>1. own = [own EXCEPT ![t] = own[t]] /\ pc = [pc EXCEPT ![t] = pc[t]]
    BY <1>3
  <2>2. CASE Claim(t)
    <3> DEFINE locals == [Unset EXCEPT !.left = IF t \in Writers THEN Batch ELSE 0]
    <3>1. PICK place \in {"done", "work"} : pc' = [pc EXCEPT ![t] = place]
      BY <2>2 DEF Claim, Goto
    <3>2. own' = [own EXCEPT ![t] = locals] /\ UNCHANGED <<store, nextNode>> /\ pc[t] = "claim"
      BY <2>2 DEF Claim
    <3>3. MovesTo(t, place, locals)
      BY <3>1, <3>2 DEF MovesTo
    <3> HIDE DEF locals
    <3> QED
      BY <1>5, <3>1, <3>2, <3>3
  <2>3. CASE Read(t)
    <3>1. PICK place \in {"count", "now", "cas", "failed"} : pc' = [pc EXCEPT ![t] = place]
      BY <2>3 DEF Read, Throw, Goto
    <3>2. MovesTo(t, place, own[t]) /\ UNCHANGED <<store, nextNode>> /\ pc[t] = "work"
      BY <2>1, <2>3, <3>1 DEF Read, Throw, MovesTo
    <3> QED
      BY <1>5, <3>1, <3>2
  <2>4. CASE ReadClock(t)
    <3> DEFINE locals == [own[t] EXCEPT !.now = clock]
    <3>1. MovesTo(t, "load", locals) /\ UNCHANGED <<store, nextNode>> /\ pc[t] = "now"
      BY <1>3, <2>4 DEF ReadClock, Goto, MovesTo, atomics, Locals
    <3> HIDE DEF locals
    <3> QED
      BY <1>5, <3>1
  <2>5. CASE LoadRecall(t)
    <3> DEFINE locals == [own[t] EXCEPT !.expected = nextRecall]
    <3>1. MovesTo(t, "cas", locals) /\ UNCHANGED <<store, nextNode>> /\ pc[t] = "load"
      BY <1>3, <2>5 DEF LoadRecall, Goto, MovesTo, atomics, Locals
    <3> HIDE DEF locals
    <3> QED
      BY <1>5, <3>1
  <2>6. CASE CompareExchange(t)
    <3>1. UNCHANGED <<store, nextNode>> /\ pc[t] = "cas"
      BY <2>6 DEF CompareExchange
    <3>2. CASE Allow(t)
      <4> DEFINE locals == [own[t] EXCEPT !.sampled = TRUE]
      <4>1. MovesTo(t, "count", locals)
        BY <1>3, <3>2 DEF MovesTo, Allow, Goto, Locals
      <4> HIDE DEF locals
      <4> QED
        BY <1>5, <3>1, <4>1
    <3>3. CASE Goto(t, "count") /\ UNCHANGED own
      <4>1. MovesTo(t, "count", own[t])
        BY <2>1, <3>3 DEF MovesTo, Goto
      <4> QED
        BY <1>5, <3>1, <4>1
    <3>4. CASE own' = [own EXCEPT ![t].expected = nextRecall] /\ UNCHANGED pc
      <4> DEFINE locals == [own[t] EXCEPT !.expected = nextRecall]
      <4>1. MovesTo(t, "cas", locals)
        BY <1>3, <2>1, <3>1, <3>4 DEF MovesTo, Locals
      <4> HIDE DEF locals
      <4> QED
        BY <1>5, <3>1, <4>1
    <3> QED
      BY <2>6, <3>2, <3>3, <3>4 DEF CompareExchange
  <2>7. CASE CountRead(t)
    <3>1. MovesTo(t, "claim", Unset) /\ UNCHANGED <<store, nextNode>> /\ pc[t] = "count"
      BY <2>7 DEF CountRead, Goto, MovesTo, atomics
    <3> QED
      BY <1>5, <3>1
  <2>8. CASE TakeNode(t)
    <3>1. /\ pc'[t] = "insert" /\ pc[t] = "work" /\ own'[t].node = nextNode
          /\ \A u \in Workers \ {t} : pc'[u] = pc[u] /\ own'[u] = own[u]
          /\ store' = store /\ nextNode' = nextNode + 1
      BY <1>3, <2>8 DEF TakeNode, Goto, Locals
    <3>2. /\ Inserting' = Inserting \cup {t} /\ t \notin Inserting
          /\ \A u \in Inserting : own'[u].node = own[u].node
          /\ \A u \in Workers : pc[u] = "failed" => pc'[u] = "failed"
      BY <3>1 DEF Inserting
    <3> QED
      BY <1>1, <1>2, <3>1, <3>2, NodeTaken DEF NodesInv
  <2>9. CASE InsertNode(t)
    <3>1. /\ pc'[t] # "insert" /\ pc[t] = "insert"
          /\ \A u \in Workers \ {t} : pc'[u] = pc[u] /\ own'[u] = own[u]
          /\ store' = Append(store, own[t].node) /\ nextNode' = nextNode
      BY <1>3, <2>9 DEF InsertNode, Goto, atomics
    <3>2. /\ Inserting' = Inserting \ {t} /\ t \in Inserting
          /\ \A u \in Inserting' : own'[u].node = own[u].node
          /\ \A u \in Workers : pc[u] = "failed" => pc'[u] = "failed"
      BY <3>1 DEF Inserting
    <3> QED
      BY <1>1, <1>2, <3>1, <3>2, NodeStored DEF NodesInv
  <2>10. CASE InsertFails(t)
    <3>1. /\ pc'[t] = "failed" /\ pc[t] = "insert" /\ own' = own /\ nextNode' = nextNode
          /\ \A u \in Workers \ {t} : pc'[u] = pc[u]
          /\ store' = store \/ store' = Append(store, own[t].node)
      BY <1>3, <2>10 DEF InsertFails, Throw, Goto
    <3>2. /\ Inserting' = Inserting \ {t} /\ t \in Inserting
          /\ \A u \in Inserting' : own'[u].node = own[u].node
          /\ \A u \in Workers : pc[u] = "failed" => pc'[u] = "failed"
      BY <3>1 DEF Inserting
    <3>3. CASE store' = store
      <4>1. UniqueInv'
        BY <1>1, <3>1, <3>2, <3>3 DEF UniqueInv
      <4>2. CompleteInv'
        BY <3>1 DEF CompleteInv
      <4> QED
        BY <1>2, <4>1, <4>2 DEF NodesInv
    <3>4. CASE store' = Append(store, own[t].node)
      BY <1>1, <1>2, <3>1, <3>2, <3>4, NodeStored DEF NodesInv
    <3> QED
      BY <3>1, <3>3, <3>4
  <2> QED
    BY <1>6, <2>2, <2>3, <2>4, <2>5, <2>6, <2>7, <2>8, <2>9, <2>10 DEF Work
<1>7. CASE Compactor
  BY <1>4, <1>7 DEF Compactor, CompactorSleeps, CompactorWakes, CompactorRuns,
                    atomics, threads
<1>8. CASE MainStep
  <2>1. CASE SequentialWrite
    <3>1. PICK n \in 0 .. Batch :
             /\ store' = store \o [i \in 1 .. n |-> nextNode + i - 1]
             /\ nextNode' = nextNode + n
      BY <2>1 DEF SequentialWrite
    <3>2. n \in Nat
      BY <1>1, NodeTypes
    <3>3. Inserting = {} /\ UNCHANGED pc
      BY <1>1, <2>1 DEF SequentialWrite, JoinInv, Inserting
    <3> QED
      BY <1>1, <1>2, <3>1, <3>2, <3>3, NodesAppended DEF NodesInv
  <2>2. CASE SequentialRead \/ TimeIsUp \/ JoinWorkers \/ JoinCompactor
    BY <1>4, <2>2 DEF SequentialRead, TimeIsUp, JoinWorkers, JoinCompactor, atomics, threads
  <2>3. CASE MergeThread \/ FlushAll \/ CompactAfter \/ Close \/ Recover
    BY <1>4, <2>3 DEF MergeThread, FlushAll, CompactAfter, Close, Recover, atomics, threads
  <2> QED
    BY <1>8, <2>1, <2>2, <2>3 DEF MainStep
<1>9. CASE Tick \/ Idle \/ UNCHANGED vars
  BY <1>4, <1>9 DEF Tick, Idle, vars, atomics, threads
<1> QED
  BY <1>6, <1>7, <1>8, <1>9 DEF Next

LEMMA NodesInvInit == Init => NodesInv
<1> SUFFICES ASSUME Init PROVE NodesInv
  OBVIOUS
<1>1. TypeInv
  BY TypeInvInit
<1>2. JoinInv
  BY DEF Init, JoinInv
<1>3. store = << >> /\ nextNode = 0 /\ Inserting = {}
  BY DEF Init, Inserting
<1>4. UniqueInv /\ CompleteInv
  BY <1>3 DEF UniqueInv, CompleteInv
<1> QED
  BY <1>1, <1>2, <1>4 DEF NodesInv

LEMMA NodesInvImplies == NodesInv => NodesFollowBase
<1> SUFFICES ASSUME NodesInv, Reported
             PROVE  /\ \A t \in Workers : pc[t] = "done"
                    /\ Range(store) = 0 .. Len(store) - 1 /\ Len(store) = nextNode
  BY DEF NodesFollowBase
<1>1. TypeInv /\ UniqueInv /\ CompleteInv
  BY DEF NodesInv
<1>2. \A t \in Workers : pc[t] = "done"
  BY DEF NodesInv, JoinInv, Reported
<1>3. InFlight = {} /\ \A t \in Workers : pc[t] # "failed"
  BY <1>2 DEF InFlight, Inserting
<1> DEFINE S == 0 .. nextNode - 1
<1>4. /\ nextNode \in Nat /\ Len(store) \in Nat /\ DOMAIN store = 1 .. Len(store)
      /\ store \in [1 .. Len(store) -> S]
  <2>1. nextNode \in Nat /\ store \in Seq(S)
    BY <1>1 DEF TypeInv, TypeOK
  <2> QED
    BY <2>1
<1>5. \A k \in S : k \in Range(store)
  BY <1>1, <1>3 DEF CompleteInv
<1>6. Range(store) = S
  BY <1>4, <1>5 DEF Range
<1>7. store \in Surjection(1 .. Len(store), S)
  BY <1>4, <1>5 DEF Surjection, Range
<1>8. store \in Injection(1 .. Len(store), S)
  BY <1>1, <1>4 DEF UniqueInv, Injection, IsInjective
<1>9. /\ IsFiniteSet(1 .. Len(store)) /\ Cardinality(1 .. Len(store)) = Len(store)
      /\ Cardinality(S) = nextNode
  <2>1. 0 \in Int /\ 1 \in Int /\ Len(store) \in Int /\ nextNode - 1 \in Int
    BY <1>4
  <2>2. /\ IsFiniteSet(1 .. Len(store))
        /\ Cardinality(1 .. Len(store)) = IF 1 > Len(store) THEN 0 ELSE Len(store) - 1 + 1
        /\ Cardinality(S) = IF 0 > nextNode - 1 THEN 0 ELSE nextNode - 1 - 0 + 1
    BY <2>1, FS_Interval
  <2> QED
    BY <1>4, <2>2
<1>10. Cardinality(S) = Cardinality(1 .. Len(store))
  BY <1>7, <1>8, <1>9, FS_Surjection
<1>11. Len(store) = nextNode
  BY <1>9, <1>10
<1> QED
  BY <1>2, <1>6, <1>11

\* However the writers interleave: no node is inserted twice, none that was
\* taken is missing from a run that succeeds, and the numbers are merged when
\* nobody changes them any more.
THEOREM ReportedNodes == Spec => []NodesFollowBase
BY NodesInvInit, NodesInvNext, NodesInvImplies, PTL DEF Spec

-----------------------------------------------------------------------------
\* Sums.

\* The sum of f over S, as the number of elements of a set that has f[x] for
\* every x: what a sum is follows from what is known of cardinalities.
Tokens(f, S) == UNION {{x} \X (1 .. f[x]) : x \in S}
SumOver(f, S) == Cardinality(Tokens(f, S))

LEMMA TokensOfOne ==
  ASSUME NEW x, NEW n \in Nat
  PROVE  IsFiniteSet({x} \X (1 .. n)) /\ Cardinality({x} \X (1 .. n)) = n
<1> DEFINE T == {x} \X (1 .. n)
           F == [i \in 1 .. n |-> <<x, i>>]
<1>1. IsFiniteSet(1 .. n) /\ Cardinality(1 .. n) = n
  <2>1. 1 \in Int /\ n \in Int
    OBVIOUS
  <2> QED
    BY <2>1, FS_Interval
<1>2. F \in Bijection(1 .. n, T)
  BY DEF Bijection, Injection, Surjection, IsInjective
<1> QED
  BY <1>1, <1>2, FS_Bijection DEF ExistsBijection

LEMMA SumType ==
  ASSUME NEW S, IsFiniteSet(S), NEW f \in [S -> Nat]
  PROVE  IsFiniteSet(Tokens(f, S)) /\ SumOver(f, S) \in Nat
<1> DEFINE U == {{x} \X (1 .. f[x]) : x \in S}
           F == [x \in S |-> {x} \X (1 .. f[x])]
<1>1. IsFiniteSet(U)
  <2>1. F \in Surjection(S, U)
    BY DEF Surjection
  <2> QED
    BY <2>1, FS_Surjection
<1>2. ASSUME NEW T \in U PROVE IsFiniteSet(T)
  <2>1. PICK x \in S : T = {x} \X (1 .. f[x])
    OBVIOUS
  <2>2. f[x] \in Nat
    OBVIOUS
  <2> QED
    BY <2>1, <2>2, TokensOfOne
<1> QED
  BY <1>1, <1>2, FS_UNION, FS_CardinalityType DEF Tokens, SumOver

LEMMA SumEmpty ==
  ASSUME NEW f
  PROVE  SumOver(f, {}) = 0
BY FS_EmptySet DEF SumOver, Tokens

\* Sums depend on the values alone.
LEMMA SumSame ==
  ASSUME NEW S, NEW f, NEW g, \A x \in S : f[x] = g[x]
  PROVE  SumOver(f, S) = SumOver(g, S)
BY DEF SumOver, Tokens

LEMMA SumAdd ==
  ASSUME NEW S, IsFiniteSet(S), NEW x, x \notin S, NEW f \in [S \cup {x} -> Nat]
  PROVE  SumOver(f, S \cup {x}) = SumOver(f, S) + f[x]
<1> DEFINE T == Tokens(f, S)
           X == {x} \X (1 .. f[x])
           g == [y \in S |-> f[y]]
<1>1. g \in [S -> Nat] /\ f[x] \in Nat
  OBVIOUS
<1>2. Tokens(f, S \cup {x}) = T \cup X
  BY DEF Tokens
<1>3. T \cap X = {}
  BY DEF Tokens
<1>4. Tokens(g, S) = T
  BY DEF Tokens
<1>5. IsFiniteSet(T) /\ Cardinality(T) \in Nat
  BY <1>1, <1>4, SumType DEF SumOver
<1>6. IsFiniteSet(X) /\ Cardinality(X) = f[x]
  BY <1>1, TokensOfOne
<1>7. Cardinality(T \cup X) = Cardinality(T) + Cardinality(X) - Cardinality(T \cap X)
  BY <1>5, <1>6, FS_Union
<1>8. Cardinality(T \cap X) = 0
  BY <1>3, FS_EmptySet
<1> HIDE DEF T, X
<1>9. Cardinality(T \cup X) = Cardinality(T) + f[x]
  BY <1>1, <1>5, <1>6, <1>7, <1>8
<1> QED
  BY <1>2, <1>9 DEF SumOver, T

\* One summand changes.
LEMMA SumMoves ==
  ASSUME NEW S, IsFiniteSet(S), NEW x \in S, NEW f \in [S -> Nat], NEW g \in [S -> Nat],
         \A y \in S \ {x} : g[y] = f[y]
  PROVE  SumOver(g, S) - g[x] = SumOver(f, S) - f[x]
<1> DEFINE R == S \ {x}
<1>1. IsFiniteSet(R) /\ R \cup {x} = S /\ x \notin R
  BY FS_RemoveElement
<1>2. SumOver(f, S) = SumOver(f, R) + f[x] /\ SumOver(g, S) = SumOver(g, R) + g[x]
  BY <1>1, SumAdd
<1>3. SumOver(f, R) = SumOver(g, R)
  BY SumSame
<1>4. SumOver(f, S) \in Nat /\ SumOver(g, S) \in Nat /\ f[x] \in Nat /\ g[x] \in Nat
  BY SumType
<1>5. SumOver(f, R) \in Nat
  <2> DEFINE h == [y \in R |-> f[y]]
  <2>1. h \in [R -> Nat]
    OBVIOUS
  <2>2. SumOver(h, R) = SumOver(f, R)
    BY SumSame
  <2> QED
    BY <1>1, <2>1, <2>2, SumType
<1> QED
  BY <1>2, <1>3, <1>4, <1>5

-----------------------------------------------------------------------------
\* Numbers.

NoneFailed == \A t \in Workers : pc[t] # "failed"

\* What a worker has claimed and not counted yet, in inserts: a read is worth
\* a batch.
InHand(t) ==
  IF pc[t] \in {"claim", "done"} THEN 0 ELSE IF t \in Writers THEN own[t].left ELSE Batch

Written == [t \in Workers |-> metrics[t].written]
Sampled == [t \in Workers |-> metrics[t].sampled + (IF own[t].sampled THEN 1 ELSE 0)]
Credit  == [t \in Workers |-> Batch * metrics[t].reads + metrics[t].written + InHand(t)]

\* The operations that were handed out.
Executed == IF claimed <= Ops THEN claimed ELSE Ops

PlaceInv(t) ==
  /\ pc[t] \in {"now", "load", "cas", "count"} => t \in Readers
  /\ own[t].sampled => pc[t] = "count"
  /\ metrics[t].sampled <= metrics[t].reads
  /\ pc[t] = "done" /\ ~setting.timed /\ ~setting.sequential => claimed >= Ops

\* Where the main thread may be, and what it has merged by then.
ModeInv ==
  /\ setting.sequential
       => /\ main \in {"sequential", "compact", "close", "recover", "done", "failed"}
          /\ compactor = "off" /\ \A t \in Workers : pc[t] = "done"
  /\ ~setting.sequential
       => /\ main # "sequential"
          /\ main \in {"run", "join", "stop"} => merged = {}
          /\ Reported => merged = Workers
          /\ main = "merge" \/ Reported => compactor \in {"off", "ended"}

\* The totals are those of the workers merged.
MergeInv ==
  ~setting.sequential /\ main # "failed"
  => /\ metrics[Main].written = SumOver(Written, merged)
     /\ metrics[Main].sampled = SumOver(Sampled, merged)
     /\ Batch * metrics[Main].reads + metrics[Main].written = SumOver(Credit, merged)

\* What the workers have counted, or have in hand, is what was done.
CountInv ==
  ~setting.sequential
  => /\ NoneFailed => SumOver(Written, Workers) = Len(store)
     /\ NoneFailed /\ ~setting.timed => SumOver(Credit, Workers) = Batch * Executed
     /\ setting.limited => SumOver(Sampled, Workers) = Len(samples)

SequentialInv ==
  setting.sequential /\ main # "failed"
  => /\ metrics[Main].written = Len(store)
     /\ Batch * metrics[Main].reads + metrics[Main].written = Batch * claimed
     /\ setting.limited => metrics[Main].sampled = Len(samples)
     /\ claimed <= Ops /\ (main # "sequential" => claimed = Ops)

DeltaInv == main \in {"recover", "done"} => deltas = Len(store)

ReportInv ==
  /\ NodesInv /\ ModeInv /\ MergeInv /\ CountInv /\ SequentialInv /\ DeltaInv
  /\ \A t \in Workers : PlaceInv(t)
  /\ metrics[Main].sampled <= metrics[Main].reads

LEMMA NumberTypes ==
  ASSUME TypeInv
  PROVE  /\ Written \in [Workers -> Nat] /\ Sampled \in [Workers -> Nat]
         /\ Credit \in [Workers -> Nat]
         /\ \A t \in Threads : /\ metrics[t].reads \in Nat /\ metrics[t].written \in Nat
                               /\ metrics[t].sampled \in Nat
         /\ \A t \in Workers : InHand(t) \in Nat
         /\ Workers \subseteq Threads /\ Main \in Threads \ Workers
         /\ claimed \in Nat /\ Ops \in Nat /\ Batch \in Nat
<1> USE WorkloadAssumption
<1>1. Workers \subseteq Threads /\ Main \in Threads \ Workers
  BY DEF Threads
<1>2. claimed \in Nat /\ Ops \in Nat /\ Batch \in Nat
  BY DEF TypeInv, TypeOK
<1>3. \A t \in Threads : /\ metrics[t].reads \in Nat /\ metrics[t].written \in Nat
                         /\ metrics[t].sampled \in Nat
  BY DEF TypeInv, TypeOK, Metrics
<1>4. \A t \in Workers : own[t].left \in Nat
  BY DEF TypeInv, TypeOK, Locals
<1>5. \A t \in Workers : InHand(t) \in Nat
  BY <1>2, <1>4 DEF InHand
<1>6. Written \in [Workers -> Nat] /\ Sampled \in [Workers -> Nat]
  BY <1>1, <1>3 DEF Written, Sampled
<1>7. ASSUME NEW t \in Workers
      PROVE  Batch * metrics[t].reads + metrics[t].written + InHand(t) \in Nat
  <2>1. metrics[t].reads \in Nat /\ metrics[t].written \in Nat /\ InHand(t) \in Nat
    BY <1>1, <1>3, <1>5
  <2> QED
    BY <1>2, <2>1
<1>8. Credit \in [Workers -> Nat]
  BY <1>7 DEF Credit
<1> QED
  BY <1>1, <1>2, <1>3, <1>5, <1>6, <1>8

LEMMA NumberTypesNext ==
  TypeInv'
  => (/\ Written \in [Workers -> Nat] /\ Sampled \in [Workers -> Nat]
      /\ Credit \in [Workers -> Nat] /\ claimed \in Nat)'
<1>1. TypeInv
      => /\ Written \in [Workers -> Nat] /\ Sampled \in [Workers -> Nat]
         /\ Credit \in [Workers -> Nat] /\ claimed \in Nat
  BY NumberTypes
<1> QED
  BY <1>1, PTL

LEMMA TimesNat == \A a, b \in Nat : a * b \in Nat
OBVIOUS

\* One operation more is worth a batch.
LEMMA OneMore == \A n \in Nat : Batch * (n + 1) = Batch * n + Batch
<1>1. Batch \in Nat
  BY WorkloadAssumption
<1> QED
  BY <1>1

\* What a step of a worker leaves alone.
LEMMA WorkerKeeps ==
  ASSUME TypeInv, NEW t \in Workers, Work(t)
  PROVE  /\ UNCHANGED <<setting, main, merged, deltas, compactor>>
         /\ pc[t] \notin {"done", "failed"}
         /\ \A u \in Threads \ {t} : metrics'[u] = metrics[u]
         /\ \A u \in Workers \ {t} : pc'[u] = pc[u] /\ own'[u] = own[u]
         /\ claimed <= claimed'
<1>1. pc \in [Workers -> Places] /\ own \in [Workers -> Locals] /\ claimed \in Nat
      /\ metrics \in [Threads -> Metrics]
  BY DEF TypeInv, TypeOK
<1>2. CASE Claim(t)
  BY <1>1, <1>2 DEF Claim, Goto, final
<1>3. CASE Read(t)
  BY <1>1, <1>3 DEF Read, Throw, Goto, final
<1>4. CASE ReadClock(t) \/ LoadRecall(t)
  BY <1>1, <1>4 DEF ReadClock, LoadRecall, Goto, final, atomics
<1>5. CASE CompareExchange(t)
  BY <1>1, <1>5 DEF CompareExchange, Allow, Goto, final
<1>6. CASE CountRead(t) \/ InsertNode(t)
  BY <1>1, <1>6 DEF CountRead, InsertNode, Goto, final, atomics
<1>7. CASE TakeNode(t) \/ InsertFails(t)
  BY <1>1, <1>7 DEF TakeNode, InsertFails, Throw, Goto, final
<1> QED
  BY <1>2, <1>3, <1>4, <1>5, <1>6, <1>7 DEF Work

\* What it counts is what it does.
Effect(t) ==
  /\ NoneFailed' => Written'[t] - Written[t] = Len(store') - Len(store)
  /\ setting.limited => Sampled'[t] - Sampled[t] = Len(samples') - Len(samples)
  /\ NoneFailed' /\ ~setting.timed
       => Credit'[t] - Credit[t] = Batch * Executed' - Batch * Executed
  /\ PlaceInv(t)'

LEMMA WorkerEffect ==
  ASSUME TypeInv, NEW t \in Workers, PlaceInv(t), Work(t)
  PROVE  Effect(t)
<1> USE WorkloadAssumption
<1> DEFINE m == metrics[t]  l == own[t]
<1>1. /\ pc \in [Workers -> Places] /\ own \in [Workers -> Locals] /\ claimed \in Nat
      /\ metrics \in [Threads -> Metrics] /\ store \in Seq(Nat) /\ samples \in Seq(Nat)
      /\ t \in Threads
  BY NodeTypes DEF TypeInv, TypeOK, Threads
<1>2. /\ m.reads \in Nat /\ m.written \in Nat /\ m.sampled \in Nat /\ Batch \in Nat
      /\ l.left \in Nat /\ l.left <= Batch /\ l.sampled \in BOOLEAN /\ InHand(t) \in Nat
      /\ Len(store) \in Nat /\ Len(samples) \in Nat
      /\ Batch * m.reads \in Nat /\ Batch * (m.reads + 1) = Batch * m.reads + Batch
  <2>1. m.reads \in Nat /\ m.written \in Nat /\ m.sampled \in Nat /\ Batch \in Nat
        /\ InHand(t) \in Nat
    BY <1>1, NumberTypes
  <2>2. l.left \in Nat /\ l.left <= Batch /\ l.sampled \in BOOLEAN
    BY <1>1 DEF Locals, TypeInv, TypeOK
  <2>3. Len(store) \in Nat /\ Len(samples) \in Nat
    BY <1>1
  <2>4. Batch * m.reads \in Nat
    BY <2>1
  <2> QED
    BY <2>1, <2>2, <2>3, <2>4, OneMore
<1>3. Written[t] = m.written /\ Written'[t] = metrics'[t].written
  BY DEF Written
<1>4. /\ Sampled[t] = m.sampled + (IF l.sampled THEN 1 ELSE 0)
      /\ Sampled'[t] = metrics'[t].sampled + (IF own'[t].sampled THEN 1 ELSE 0)
  BY DEF Sampled
<1>5. /\ Credit[t] = Batch * m.reads + m.written + InHand(t)
      /\ Credit'[t] = Batch * metrics'[t].reads + metrics'[t].written + InHand(t)'
  BY DEF Credit
<1>6. NoneFailed' => pc'[t] # "failed"
  BY DEF NoneFailed
<1>7. (t \in Readers /\ t \notin Writers) \/ (t \in Writers /\ t \notin Readers)
  <2>1. Readers \cap Writers = {} /\ t \in Readers \cup Writers
    BY DEF Workers
  <2> QED
    BY <2>1
<1>8. /\ HoldsInv(t) /\ (pc[t] = "insert" => t \in Writers)
  BY DEF TypeInv, HoldsInv
<1>9. ASSUME UNCHANGED <<metrics, store, samples, claimed, setting>>,
             own'[t].sampled = l.sampled, own'[t].left = l.left,
             pc[t] \in {"work", "now", "load", "cas", "count", "insert"},
             pc'[t] \in {"work", "now", "load", "cas", "count", "insert", "failed"},
             PlaceInv(t)'
      PROVE  Effect(t)
  <2>1. pc'[t] # "failed" => InHand(t)' = InHand(t)
    BY <1>9 DEF InHand
  <2>2. Executed' = Executed /\ Batch * Executed \in Nat
    BY <1>1, <1>2, <1>9 DEF Executed
  <2>3. Written'[t] - Written[t] = Len(store') - Len(store)
    BY <1>2, <1>3, <1>9
  <2>4. Sampled'[t] - Sampled[t] = Len(samples') - Len(samples)
    BY <1>2, <1>4, <1>9
  <2>5. pc'[t] # "failed" => Credit'[t] = Credit[t]
    BY <1>5, <1>9, <2>1
  <2>6. Credit[t] \in Nat
    BY NumberTypes
  <2> QED
    BY <1>6, <1>9, <2>2, <2>3, <2>4, <2>5, <2>6 DEF Effect
<1>10. CASE Claim(t)
  <2>1. /\ metrics' = metrics /\ store' = store /\ samples' = samples /\ setting' = setting
        /\ pc[t] = "claim"
        /\ own'[t].sampled = FALSE
        /\ own'[t].left = IF t \in Writers THEN Batch ELSE 0
    BY <1>1, <1>10 DEF Claim, Unset, final
  <2>2. l.sampled = FALSE
    BY <1>2, <2>1 DEF PlaceInv
  <2>3. CASE setting.timed
    <3>1. pc'[t] \in {"done", "work"}
      BY <1>1, <1>10, <2>3 DEF Claim, Goto
    <3>2. PlaceInv(t)'
      BY <1>2, <2>1, <2>3, <3>1 DEF PlaceInv
    <3>3. Written'[t] - Written[t] = Len(store') - Len(store)
      BY <1>2, <1>3, <2>1
    <3>4. Sampled'[t] - Sampled[t] = Len(samples') - Len(samples)
      BY <1>2, <1>4, <2>1, <2>2, SMTT(60)
    <3> QED
      BY <2>3, <3>2, <3>3, <3>4 DEF Effect
  <2>4. CASE ~setting.timed
    <3>1. claimed' = claimed + 1 /\ pc'[t] = IF claimed >= Ops THEN "done" ELSE "work"
      BY <1>1, <1>10, <2>4 DEF Claim, Goto
    <3>2. PlaceInv(t)'
      <4>1. /\ pc'[t] \in {"done", "work"} /\ own'[t].sampled = FALSE
            /\ metrics'[t].sampled <= metrics'[t].reads
        BY <1>2, <2>1, <3>1 DEF PlaceInv
      <4>2. pc'[t] = "done" => claimed' >= Ops
        BY <1>1, <3>1
      <4> QED
        BY <4>1, <4>2 DEF PlaceInv
    <3>3. InHand(t) = 0 /\ InHand(t)' = IF claimed >= Ops THEN 0 ELSE Batch
      BY <1>7, <2>1, <3>1 DEF InHand
    <3>4. /\ claimed >= Ops => Executed' = Executed
          /\ claimed < Ops => Executed = claimed /\ Executed' = claimed + 1
      BY <1>1, <3>1 DEF Executed
    <3>5. Batch * (claimed + 1) = Batch * claimed + Batch /\ Batch * claimed \in Nat
      BY <1>1, <1>2, OneMore
    <3>6. Credit'[t] - Credit[t] = IF claimed >= Ops THEN 0 ELSE Batch
      <4>1. Credit[t] = Batch * m.reads + m.written
        BY <1>2, <1>5, <3>3
      <4>2. Credit'[t] = Batch * m.reads + m.written + InHand(t)'
        BY <1>5, <2>1
      <4> QED
        BY <1>1, <1>2, <3>3, <4>1, <4>2, SMTT(60)
    <3>7. Batch * Executed' - Batch * Executed = IF claimed >= Ops THEN 0 ELSE Batch
      <4>1. CASE claimed >= Ops
        <5>1. Batch * Executed \in Nat
          BY <1>1, <1>2 DEF Executed
        <5> QED
          BY <3>4, <4>1, <5>1
      <4>2. CASE claimed < Ops
        BY <1>1, <1>2, <3>4, <3>5, <4>2
      <4> QED
        BY <1>1, <4>1, <4>2
    <3>8. Written'[t] - Written[t] = Len(store') - Len(store)
      BY <1>2, <1>3, <2>1
    <3>9. Sampled'[t] - Sampled[t] = Len(samples') - Len(samples)
      BY <1>2, <1>4, <2>1, <2>2
    <3>10. Credit'[t] - Credit[t] = Batch * Executed' - Batch * Executed
      BY <3>6, <3>7
    <3> QED
      BY <3>2, <3>8, <3>9, <3>10 DEF Effect
  <2> QED
    BY <2>3, <2>4
<1>11. CASE Read(t)
  <2>1. /\ UNCHANGED <<metrics, store, samples, claimed, setting, own>>
        /\ pc[t] = "work" /\ pc'[t] \in {"count", "now", "cas", "failed"} /\ t \in Readers
    BY <1>1, <1>11 DEF Read, Throw, Goto, final
  <2>2. PlaceInv(t)'
    BY <1>2, <2>1 DEF PlaceInv
  <2> QED
    BY <1>9, <2>1, <2>2
<1>12. CASE ReadClock(t) \/ LoadRecall(t)
  <2>1. /\ UNCHANGED <<metrics, store, samples, claimed, setting>>
        /\ pc[t] \in {"now", "load"} /\ pc'[t] \in {"load", "cas"}
        /\ own'[t].sampled = l.sampled /\ own'[t].left = l.left
    BY <1>1, <1>12, SMTT(60) DEF ReadClock, LoadRecall, Goto, final, atomics, Locals
  <2>2. PlaceInv(t)'
    BY <1>2, <2>1 DEF PlaceInv
  <2> QED
    BY <1>9, <2>1, <2>2
<1>13. CASE CompareExchange(t)
  <2>1. UNCHANGED <<metrics, store, claimed, setting>> /\ pc[t] = "cas"
    BY <1>13 DEF CompareExchange
  <2>2. l.sampled = FALSE /\ t \in Readers
    BY <1>2, <2>1 DEF PlaceInv
  <2>3. CASE Allow(t)
    <3>1. /\ pc'[t] = "count" /\ own'[t].sampled = TRUE /\ own'[t].left = l.left
          /\ setting.limited => Len(samples') = Len(samples) + 1
      BY <1>1, <2>3 DEF Allow, Goto, Locals
    <3>2. PlaceInv(t)'
      BY <1>2, <2>1, <2>2, <3>1 DEF PlaceInv
    <3>3. InHand(t)' = InHand(t)
      BY <2>1, <3>1 DEF InHand
    <3>4. Executed' = Executed /\ Batch * Executed \in Nat
      BY <1>1, <1>2, <2>1 DEF Executed
    <3>5. Written'[t] - Written[t] = Len(store') - Len(store)
      BY <1>2, <1>3, <2>1
    <3>6. setting.limited => Sampled'[t] - Sampled[t] = Len(samples') - Len(samples)
      BY <1>2, <1>4, <2>1, <2>2, <3>1, SMTT(60)
    <3>7. Credit'[t] = Credit[t] /\ Credit[t] \in Nat
      BY <1>5, <2>1, <3>3, NumberTypes
    <3> QED
      BY <3>2, <3>4, <3>5, <3>6, <3>7 DEF Effect
  <2>4. CASE UNCHANGED samples /\ pc'[t] \in {"cas", "count"}
             /\ own'[t].sampled = l.sampled /\ own'[t].left = l.left
    <3>1. PlaceInv(t)'
      BY <1>2, <2>1, <2>2, <2>4 DEF PlaceInv
    <3> QED
      BY <1>9, <2>1, <2>4, <3>1
  <2> QED
    BY <1>1, <1>13, <2>1, <2>3, <2>4, SMTT(60) DEF CompareExchange, Goto, Locals
<1>14. CASE CountRead(t)
  <2>1. /\ UNCHANGED <<store, samples, claimed, setting>> /\ pc[t] = "count" /\ pc'[t] = "claim"
        /\ own'[t].sampled = FALSE
        /\ metrics'[t].reads = m.reads + 1 /\ metrics'[t].written = m.written
        /\ metrics'[t].sampled = IF l.sampled THEN m.sampled + 1 ELSE m.sampled
    BY <1>1, <1>14 DEF CountRead, Goto, atomics, Metrics, Unset
  <2>2. PlaceInv(t)'
    <3>1. metrics'[t].sampled <= metrics'[t].reads
      BY <1>2, <2>1, SMTT(60) DEF PlaceInv
    <3> QED
      BY <2>1, <3>1 DEF PlaceInv
  <2>3. InHand(t) = Batch /\ InHand(t)' = 0
    BY <1>7, <2>1 DEF InHand, PlaceInv
  <2>4. Executed' = Executed /\ Batch * Executed \in Nat
    BY <1>1, <1>2, <2>1 DEF Executed
  <2>5. Credit'[t] = Credit[t]
    BY <1>2, <1>5, <2>1, <2>3, SMTT(60)
  <2>6. Written'[t] - Written[t] = Len(store') - Len(store)
    BY <1>2, <1>3, <2>1
  <2>7. Sampled'[t] - Sampled[t] = Len(samples') - Len(samples)
    BY <1>2, <1>4, <2>1, SMTT(60)
  <2>8. Credit[t] \in Nat
    BY NumberTypes
  <2> QED
    BY <2>2, <2>4, <2>5, <2>6, <2>7, <2>8 DEF Effect
<1>15. CASE TakeNode(t)
  <2>1. /\ UNCHANGED <<metrics, store, samples, claimed, setting>>
        /\ pc[t] = "work" /\ pc'[t] = "insert"
        /\ own'[t].sampled = l.sampled /\ own'[t].left = l.left
    BY <1>1, <1>15 DEF TakeNode, Goto, final, Locals
  <2>2. PlaceInv(t)'
    BY <1>2, <2>1 DEF PlaceInv
  <2> QED
    BY <1>9, <2>1, <2>2
<1>16. CASE InsertNode(t)
  <2>1. /\ UNCHANGED <<samples, claimed, setting>> /\ pc[t] = "insert"
        /\ pc'[t] = (IF l.left > 1 THEN "work" ELSE "claim")
        /\ own'[t].sampled = l.sampled /\ own'[t].left = l.left - 1
        /\ metrics'[t].reads = m.reads /\ metrics'[t].written = m.written + 1
        /\ metrics'[t].sampled = m.sampled
        /\ store' = Append(store, l.node)
    BY <1>1, <1>16 DEF InsertNode, Goto, atomics, Metrics, Locals
  <2>2. PlaceInv(t)'
    BY <1>2, <2>1 DEF PlaceInv
  <2>3. InHand(t) = l.left /\ InHand(t)' = l.left - 1
    BY <1>2, <1>8, <2>1 DEF InHand, HoldsInv
  <2>4. Executed' = Executed /\ Batch * Executed \in Nat
    <3>1. claimed' = claimed
      BY <2>1
    <3> QED
      BY <1>1, <1>2, <3>1 DEF Executed
  <2>5. Credit'[t] = Credit[t] /\ Credit[t] \in Nat
    <3> DEFINE k == Batch * m.reads
    <3>1. Credit[t] = k + m.written + l.left
      BY <1>5, <2>3
    <3>2. Credit'[t] = k + (m.written + 1) + (l.left - 1)
      BY <1>5, <2>1, <2>3
    <3>3. k \in Nat /\ m.written \in Nat /\ l.left \in Nat
      BY <1>2
    <3> HIDE DEF k
    <3> QED
      BY <3>1, <3>2, <3>3
  <2>6. Len(store') = Len(store) + 1
    BY <1>1, <2>1
  <2>7. Written'[t] - Written[t] = Len(store') - Len(store)
    BY <1>2, <1>3, <2>1, <2>6, SMTT(60)
  <2>8. Sampled'[t] - Sampled[t] = Len(samples') - Len(samples)
    BY <1>2, <1>4, <2>1, SMTT(60)
  <2> QED
    BY <2>2, <2>4, <2>5, <2>7, <2>8 DEF Effect
<1>17. CASE InsertFails(t)
  <2>1. /\ UNCHANGED <<metrics, samples, claimed, setting, own>>
        /\ pc[t] = "insert" /\ pc'[t] = "failed"
    BY <1>1, <1>17 DEF InsertFails, Throw, Goto
  <2>2. PlaceInv(t)'
    BY <1>2, <2>1 DEF PlaceInv
  <2> QED
    BY <1>2, <1>4, <1>6, <2>1, <2>2 DEF Effect
<1> QED
  BY <1>10, <1>11, <1>12, <1>13, <1>14, <1>15, <1>16, <1>17 DEF Work

\* The sums change by what the worker that moves adds.
LEMMA SumsMove ==
  ASSUME TypeInv, TypeInv', NEW t \in Workers,
         \A u \in Workers \ {t} :
           metrics'[u] = metrics[u] /\ pc'[u] = pc[u] /\ own'[u] = own[u]
  PROVE  /\ SumOver(Written', Workers) - Written'[t] = SumOver(Written, Workers) - Written[t]
         /\ SumOver(Sampled', Workers) - Sampled'[t] = SumOver(Sampled, Workers) - Sampled[t]
         /\ SumOver(Credit', Workers) - Credit'[t] = SumOver(Credit, Workers) - Credit[t]
<1>1. IsFiniteSet(Workers)
  BY WorkloadAssumption
<1>2. /\ Written \in [Workers -> Nat] /\ Sampled \in [Workers -> Nat]
      /\ Credit \in [Workers -> Nat]
  BY NumberTypes
<1>3. /\ Written' \in [Workers -> Nat] /\ Sampled' \in [Workers -> Nat]
      /\ Credit' \in [Workers -> Nat]
  BY NumberTypesNext
<1>4. \A u \in Workers \ {t} : Written'[u] = Written[u]
  BY DEF Written
<1>5. \A u \in Workers \ {t} : Sampled'[u] = Sampled[u]
  BY DEF Sampled
<1>6. ASSUME NEW u \in Workers \ {t} PROVE Credit'[u] = Credit[u]
  <2>1. InHand(u)' = InHand(u)
    BY DEF InHand
  <2> QED
    BY <2>1 DEF Credit
<1> QED
  BY <1>1, <1>2, <1>3, <1>4, <1>5, <1>6, SumMoves

LEMMA SumTypes ==
  ASSUME NEW S \in SUBSET Workers, NEW f \in [Workers -> Nat]
  PROVE  SumOver(f, S) \in Nat
<1> DEFINE g == [x \in S |-> f[x]]
<1>1. IsFiniteSet(S)
  BY WorkloadAssumption, FS_Subset
<1>2. g \in [S -> Nat] /\ \A x \in S : f[x] = g[x]
  OBVIOUS
<1>3. SumOver(f, S) = SumOver(g, S)
  BY <1>2, SumSame
<1> QED
  BY <1>1, <1>2, <1>3, SumType

\* A step of a worker: the main thread is not merging yet.
LEMMA ReportInvWork ==
  ASSUME ReportInv, NodesInv', NEW t \in Workers, Work(t)
  PROVE  ReportInv'
<1>1. TypeInv /\ TypeInv' /\ PlaceInv(t)
  BY DEF ReportInv, NodesInv
<1>2. /\ UNCHANGED <<setting, main, merged, deltas, compactor>>
      /\ pc[t] \notin {"done", "failed"}
      /\ \A u \in Threads \ {t} : metrics'[u] = metrics[u]
      /\ \A u \in Workers \ {t} : pc'[u] = pc[u] /\ own'[u] = own[u]
      /\ claimed <= claimed'
  BY <1>1, WorkerKeeps
<1>3. Effect(t)
  BY <1>1, WorkerEffect
<1>4. ~setting.sequential /\ main \in {"run", "join", "failed"}
  <2>1. main \in Stages
    BY <1>1 DEF TypeInv, TypeOK
  <2>2. main \notin {"sequential", "stop", "merge", "compact", "close", "recover", "done"}
    BY <1>2 DEF ReportInv, NodesInv, JoinInv
  <2>3. main \in {"run", "join", "failed"}
    BY <2>1, <2>2 DEF Stages
  <2> QED
    BY <1>2, <2>3 DEF ReportInv, ModeInv
<1>5. Workers \subseteq Threads /\ Main \in Threads \ Workers /\ t # Main
  BY <1>1, NumberTypes
<1>6. metrics'[Main] = metrics[Main]
  BY <1>2, <1>5
<1>7. ModeInv'
  BY <1>2, <1>4 DEF ReportInv, ModeInv, Reported
<1>8. MergeInv'
  <2>1. main # "failed" => merged = {}
    BY <1>4 DEF ReportInv, ModeInv
  <2>2. \A f : SumOver(f, {}) = 0
    BY SumEmpty
  <2> QED
    BY <1>2, <1>6, <2>1, <2>2 DEF ReportInv, MergeInv
<1>9. CountInv'
  <2> DEFINE S1 == SumOver(Written, Workers)  S2 == SumOver(Sampled, Workers)
             S3 == SumOver(Credit, Workers)
  <2>1. /\ SumOver(Written', Workers) - Written'[t] = S1 - Written[t]
        /\ SumOver(Sampled', Workers) - Sampled'[t] = S2 - Sampled[t]
        /\ SumOver(Credit', Workers) - Credit'[t] = S3 - Credit[t]
    BY <1>1, <1>2, <1>5, SumsMove
  <2>2. /\ S1 \in Nat /\ S2 \in Nat /\ S3 \in Nat
        /\ SumOver(Written', Workers) \in Nat /\ SumOver(Sampled', Workers) \in Nat
        /\ SumOver(Credit', Workers) \in Nat
    BY <1>1, SumTypes, NumberTypes, NumberTypesNext
  <2>3. /\ Written[t] \in Nat /\ Sampled[t] \in Nat /\ Credit[t] \in Nat
        /\ Written'[t] \in Nat /\ Sampled'[t] \in Nat /\ Credit'[t] \in Nat
    BY <1>1, NumberTypes, NumberTypesNext
  <2>4. /\ Len(store) \in Nat /\ Len(store') \in Nat
        /\ Len(samples) \in Nat /\ Len(samples') \in Nat
    BY <1>1, SMTT(60) DEF TypeInv, TypeOK
  <2>5. Batch * Executed \in Nat /\ Batch * Executed' \in Nat
    <3>1. claimed \in Nat /\ claimed' \in Nat /\ Ops \in Nat /\ Batch \in Nat
      BY <1>1, NumberTypes, NumberTypesNext
    <3>2. Executed \in Nat /\ Executed' \in Nat
      BY <3>1 DEF Executed
    <3> QED
      BY <3>1, <3>2, TimesNat
  <2>6. NoneFailed' => NoneFailed
    BY <1>2 DEF NoneFailed
  <2> HIDE DEF S1, S2, S3
  <2>7. NoneFailed' => SumOver(Written', Workers) = Len(store')
    <3>1. NoneFailed => S1 = Len(store)
      BY <1>4 DEF ReportInv, CountInv, S1
    <3>2. NoneFailed' => Written'[t] - Written[t] = Len(store') - Len(store)
      BY <1>3 DEF Effect
    <3>3. ASSUME NoneFailed' PROVE SumOver(Written', Workers) = Len(store')
      <4> DEFINE a == Len(store)  b == Len(store')  sum == SumOver(Written', Workers)
      <4>1. S1 = a /\ Written'[t] - Written[t] = b - a /\ a \in Nat /\ b \in Nat
        BY <2>6, <2>4, <3>1, <3>2, <3>3
      <4>2. sum - Written'[t] = S1 - Written[t] /\ sum \in Nat
        BY <2>1, <2>2
      <4> HIDE DEF a, b, sum
      <4>3. sum = b
        BY <2>3, <4>1, <4>2
      <4> QED
        BY <4>3 DEF b, sum
    <3> QED
      BY <3>3
  <2>8. setting.limited => SumOver(Sampled', Workers) = Len(samples')
    <3>1. setting.limited => S2 = Len(samples)
      BY <1>4 DEF ReportInv, CountInv, S2
    <3>2. setting.limited => Sampled'[t] - Sampled[t] = Len(samples') - Len(samples)
      BY <1>3 DEF Effect
    <3>3. ASSUME setting.limited PROVE SumOver(Sampled', Workers) = Len(samples')
      <4> DEFINE a == Len(samples)  b == Len(samples')  sum == SumOver(Sampled', Workers)
      <4>1. S2 = a /\ Sampled'[t] - Sampled[t] = b - a /\ a \in Nat /\ b \in Nat
        BY <2>4, <3>1, <3>2, <3>3
      <4>2. sum - Sampled'[t] = S2 - Sampled[t] /\ sum \in Nat
        BY <2>1, <2>2
      <4> HIDE DEF a, b, sum
      <4>3. sum = b
        BY <2>3, <4>1, <4>2
      <4> QED
        BY <4>3 DEF b, sum
    <3> QED
      BY <3>3
  <2>9. NoneFailed' /\ ~setting.timed => SumOver(Credit', Workers) = Batch * Executed'
    <3> DEFINE b == Batch * Executed  c == Batch * Executed'
    <3>1. NoneFailed /\ ~setting.timed => S3 = b
      BY <1>4 DEF ReportInv, CountInv, S3
    <3>2. NoneFailed' /\ ~setting.timed => Credit'[t] - Credit[t] = c - b
      BY <1>3 DEF Effect
    <3>3. b \in Nat /\ c \in Nat
      BY <2>5
    <3> HIDE DEF b, c
    <3>4. ASSUME NoneFailed', ~setting.timed PROVE SumOver(Credit', Workers) = c
      <4> DEFINE sum == SumOver(Credit', Workers)
      <4>1. S3 = b /\ Credit'[t] - Credit[t] = c - b
        BY <2>6, <3>1, <3>2, <3>4
      <4>2. sum - Credit'[t] = S3 - Credit[t] /\ sum \in Nat
        BY <2>1, <2>2
      <4> HIDE DEF sum
      <4>3. sum = c
        BY <2>3, <3>3, <4>1, <4>2
      <4> QED
        BY <4>3 DEF sum
    <3> QED
      BY <3>4 DEF c
  <2> QED
    BY <1>2, <2>7, <2>8, <2>9 DEF CountInv
<1>10. SequentialInv' /\ DeltaInv'
  BY <1>2, <1>4 DEF SequentialInv, DeltaInv
<1>11. ASSUME NEW u \in Workers PROVE PlaceInv(u)'
  <2>1. CASE u = t
    BY <1>3, <2>1 DEF Effect
  <2>2. CASE u # t
    <3>1. metrics'[u] = metrics[u] /\ pc'[u] = pc[u] /\ own'[u] = own[u] /\ PlaceInv(u)
      BY <1>2, <1>5, <2>2 DEF ReportInv
    <3>2. claimed \in Nat /\ claimed' \in Nat /\ Ops \in Nat
      BY <1>1, NumberTypes, NumberTypesNext
    <3> QED
      BY <1>2, <3>1, <3>2 DEF PlaceInv
  <2> QED
    BY <2>1, <2>2
<1> QED
  BY <1>6, <1>7, <1>8, <1>9, <1>10, <1>11 DEF ReportInv

\* A step of the main thread or the compaction thread that counts nothing.
LEMMA NumbersStay ==
  ASSUME ReportInv, UNCHANGED <<setting, pc, own, metrics, store, samples, claimed, merged>>
  PROVE  /\ Written' = Written /\ Sampled' = Sampled /\ Credit' = Credit
         /\ CountInv' /\ (\A t \in Workers : PlaceInv(t)')
         /\ metrics'[Main].sampled <= metrics'[Main].reads
<1>1. Written' = Written /\ Sampled' = Sampled
  BY DEF Written, Sampled
<1>2. Credit' = Credit
  BY DEF Credit, InHand
<1>3. CountInv'
  BY <1>1, <1>2 DEF ReportInv, CountInv, NoneFailed, Executed
<1>4. \A t \in Workers : PlaceInv(t)'
  BY DEF ReportInv, PlaceInv
<1> QED
  BY <1>1, <1>2, <1>3, <1>4 DEF ReportInv

\* merge_thread_metrics: the totals take in the numbers of one worker more.
LEMMA ReportInvMerge ==
  ASSUME ReportInv, NodesInv', MergeThread
  PROVE  ReportInv'
<1> DEFINE t == CHOOSE t \in Workers : t \notin merged
<1>1. TypeInv /\ JoinInv
  BY DEF ReportInv, NodesInv
<1>2. merged \in SUBSET Workers /\ metrics \in [Threads -> Metrics]
  BY <1>1 DEF TypeInv, TypeOK
<1>3. t \in Workers /\ t \notin merged
  BY <1>2 DEF MergeThread
<1> DEFINE new == [reads   |-> metrics[Main].reads + metrics[t].reads,
                   written |-> metrics[Main].written + metrics[t].written,
                   sampled |-> metrics[Main].sampled + metrics[t].sampled]
<1>4. /\ main = "merge" /\ merged' = merged \cup {t}
      /\ metrics' = [metrics EXCEPT ![Main] = new]
      /\ UNCHANGED <<setting, main, pc, atomics, clock, own, store, samples, compactor,
                     compactions, deltas>>
  BY <1>2 DEF MergeThread
<1> HIDE DEF t, new
<1>5. Workers \subseteq Threads /\ Main \in Threads \ Workers
  BY <1>1, NumberTypes
<1>6. \A u \in Workers : metrics'[u] = metrics[u]
  BY <1>2, <1>4, <1>5
<1>7. metrics'[Main] = new
  BY <1>2, <1>4, <1>5
<1>8. Written' = Written /\ Sampled' = Sampled
  BY <1>4, <1>6 DEF Written, Sampled
<1>9. \A u \in Workers : InHand(u)' = InHand(u)
  BY <1>4 DEF InHand
<1>10. Credit' = Credit
  BY <1>6, <1>9 DEF Credit
<1>11. CountInv'
  BY <1>4, <1>8, <1>10 DEF ReportInv, CountInv, NoneFailed, Executed, atomics
<1>12. \A u \in Workers : PlaceInv(u)'
  BY <1>4, <1>6 DEF ReportInv, PlaceInv, atomics
<1>13. ~setting.sequential
  BY <1>4 DEF ReportInv, ModeInv
<1>14. ModeInv' /\ SequentialInv' /\ DeltaInv'
  BY <1>4, <1>13 DEF ReportInv, ModeInv, Reported, SequentialInv, DeltaInv
<1>15. /\ metrics[Main].reads \in Nat /\ metrics[Main].written \in Nat /\ metrics[Main].sampled \in Nat
       /\ metrics[t].reads \in Nat /\ metrics[t].written \in Nat /\ metrics[t].sampled \in Nat
  BY <1>1, <1>3, <1>5, NumberTypes
<1>16. metrics'[Main].sampled <= metrics'[Main].reads
  <2>1. metrics[Main].sampled <= metrics[Main].reads /\ metrics[t].sampled <= metrics[t].reads
    BY <1>3 DEF ReportInv, PlaceInv
  <2> QED
    BY <1>7, <1>15, <2>1 DEF new
<1>17. \A f \in [Workers -> Nat] : SumOver(f, merged') = SumOver(f, merged) + f[t]
  <2> TAKE f \in [Workers -> Nat]
  <2> DEFINE g == [u \in merged \cup {t} |-> f[u]]
  <2>1. IsFiniteSet(merged)
    BY <1>2, WorkloadAssumption, FS_Subset
  <2>2. g \in [merged \cup {t} -> Nat] /\ \A u \in merged \cup {t} : g[u] = f[u]
    BY <1>2, <1>3
  <2> HIDE DEF g
  <2>3. SumOver(g, merged \cup {t}) = SumOver(g, merged) + g[t]
    BY <1>3, <2>1, <2>2, SumAdd
  <2>4. SumOver(g, merged \cup {t}) = SumOver(f, merged \cup {t}) /\ SumOver(g, merged) = SumOver(f, merged)
    BY <2>2, SumSame
  <2> QED
    BY <1>4, <2>2, <2>3, <2>4
<1>18. pc[t] = "done"
  BY <1>1, <1>3, <1>4 DEF JoinInv
<1>19. /\ Written[t] = metrics[t].written /\ Sampled[t] = metrics[t].sampled
       /\ Credit[t] = Batch * metrics[t].reads + metrics[t].written
  <2>1. Written[t] = metrics[t].written
    BY <1>3 DEF Written
  <2>2. own[t].sampled = FALSE
    <3>1. own[t].sampled \in BOOLEAN
      BY <1>1, <1>3 DEF TypeInv, TypeOK, Locals
    <3> QED
      BY <1>3, <1>18, <3>1 DEF ReportInv, PlaceInv
  <2>3. Sampled[t] = metrics[t].sampled
    BY <1>3, <1>15, <2>2 DEF Sampled
  <2>4. InHand(t) = 0
    BY <1>18 DEF InHand
  <2>5. Batch * metrics[t].reads \in Nat
    BY <1>1, <1>15, NumberTypes, TimesNat
  <2>6. Credit[t] = Batch * metrics[t].reads + metrics[t].written
    BY <1>3, <1>15, <2>4, <2>5 DEF Credit
  <2> QED
    BY <2>1, <2>3, <2>6
<1>20. MergeInv'
  <2>1. /\ metrics[Main].written = SumOver(Written, merged)
        /\ metrics[Main].sampled = SumOver(Sampled, merged)
        /\ Batch * metrics[Main].reads + metrics[Main].written = SumOver(Credit, merged)
    BY <1>4, <1>13 DEF ReportInv, MergeInv
  <2>2. /\ SumOver(Written, merged') = SumOver(Written, merged) + Written[t]
        /\ SumOver(Sampled, merged') = SumOver(Sampled, merged) + Sampled[t]
        /\ SumOver(Credit, merged') = SumOver(Credit, merged) + Credit[t]
    BY <1>1, <1>17, NumberTypes
  <2>3. metrics'[Main].written = SumOver(Written, merged')
    BY <1>7, <1>19, <2>1, <2>2 DEF new
  <2>4. metrics'[Main].sampled = SumOver(Sampled, merged')
    BY <1>7, <1>19, <2>1, <2>2 DEF new
  <2>5. Batch * metrics'[Main].reads + metrics'[Main].written = SumOver(Credit, merged')
    <3> DEFINE a == metrics[Main].reads  b == metrics[t].reads
               c == metrics[Main].written  d == metrics[t].written
    <3>1. metrics'[Main].reads = a + b /\ metrics'[Main].written = c + d
      BY <1>7 DEF new
    <3>2. SumOver(Credit, merged') = (Batch * a + c) + (Batch * b + d)
      BY <1>19, <2>1, <2>2
    <3>3. a \in Nat /\ b \in Nat /\ c \in Nat /\ d \in Nat /\ Batch \in Nat
      BY <1>1, <1>15, NumberTypes
    <3> HIDE DEF a, b, c, d
    <3>4. Batch * (a + b) = Batch * a + Batch * b
      BY <3>3
    <3>5. Batch * a \in Nat /\ Batch * b \in Nat
      BY <3>3, TimesNat
    <3> QED
      BY <3>1, <3>2, <3>3, <3>4, <3>5
  <2> QED
    BY <1>4, <1>8, <1>10, <2>3, <2>4, <2>5 DEF MergeInv
<1> QED
  BY <1>11, <1>12, <1>14, <1>16, <1>20 DEF ReportInv

\* A sequential run counts as it goes.
LEMMA ReportInvSequential ==
  ASSUME ReportInv, NodesInv', SequentialRead \/ SequentialWrite
  PROVE  ReportInv'
<1>1. TypeInv /\ TypeInv'
  BY DEF ReportInv, NodesInv
<1>2. /\ main = "sequential" /\ claimed < Ops /\ claimed' = claimed + 1
      /\ main' \in {"sequential", "failed"}
      /\ UNCHANGED <<setting, pc, own, compactor, merged, deltas>>
  BY DEF SequentialRead, SequentialWrite, final
<1>3. setting.sequential
  BY <1>2 DEF ReportInv, ModeInv
<1>4. ModeInv' /\ MergeInv' /\ CountInv' /\ DeltaInv'
  BY <1>2, <1>3 DEF ReportInv, ModeInv, MergeInv, CountInv, DeltaInv
<1>5. Workers \subseteq Threads /\ Main \in Threads \ Workers /\ metrics \in [Threads -> Metrics]
  BY <1>1, NumberTypes DEF TypeInv, TypeOK
<1> DEFINE m == metrics[Main]
<1>6. /\ m.reads \in Nat /\ m.written \in Nat /\ m.sampled \in Nat /\ Batch \in Nat
      /\ claimed \in Nat /\ Ops \in Nat
  BY <1>1, <1>5, NumberTypes
<1>7. Batch * (m.reads + 1) = Batch * m.reads + Batch
      /\ Batch * (claimed + 1) = Batch * claimed + Batch
      /\ Batch * m.reads \in Nat /\ Batch * claimed \in Nat
  BY <1>6, OneMore, TimesNat
<1>8. /\ m.written = Len(store)
      /\ Batch * m.reads + m.written = Batch * claimed
      /\ setting.limited => m.sampled = Len(samples)
      /\ m.sampled <= m.reads
  BY <1>2, <1>3 DEF ReportInv, SequentialInv
<1>9. ASSUME \A u \in Workers : metrics'[u] = metrics[u] PROVE \A u \in Workers : PlaceInv(u)'
  BY <1>2, <1>3, <1>9 DEF ReportInv, PlaceInv
<1>10. CASE SequentialRead
  <2>1. CASE metrics' = metrics
    <3>1. main' = "failed"
      <4>1. metrics'[Main].reads # metrics[Main].reads + 1
        BY <1>6, <2>1
      <4>2. CASE setting.ssd
        BY <1>10, <4>2 DEF SequentialRead
      <4>3. CASE ~setting.ssd
        <5>1. PICK allowed : metrics' = [metrics EXCEPT
                        ![Main].reads = @ + 1,
                        ![Main].sampled = IF allowed THEN @ + 1 ELSE @]
          BY <1>10, <4>3 DEF SequentialRead
        <5>2. metrics'[Main].reads = metrics[Main].reads + 1
          BY <1>5, <5>1 DEF Metrics
        <5> QED
          BY <4>1, <5>2
      <4> QED
        BY <4>2, <4>3
    <3> QED
      BY <1>4, <1>8, <1>9, <2>1, <3>1 DEF ReportInv, SequentialInv
  <2>2. CASE metrics' # metrics
    <3>1. main' = main /\ store' = store
          /\ \E allowed \in BOOLEAN :
               /\ metrics' = [metrics EXCEPT
                        ![Main].reads = @ + 1,
                        ![Main].sampled = IF allowed THEN @ + 1 ELSE @]
               /\ IF allowed /\ setting.limited
                  THEN samples' = Append(samples, clock)
                  ELSE UNCHANGED samples
      BY <1>10, <2>2 DEF SequentialRead
    <3>2. PICK allowed \in BOOLEAN :
             /\ metrics' = [metrics EXCEPT
                      ![Main].reads = @ + 1,
                      ![Main].sampled = IF allowed THEN @ + 1 ELSE @]
             /\ IF allowed /\ setting.limited
                THEN samples' = Append(samples, clock)
                ELSE UNCHANGED samples
      BY <3>1
    <3>3. /\ metrics'[Main].reads = m.reads + 1 /\ metrics'[Main].written = m.written
          /\ metrics'[Main].sampled = IF allowed THEN m.sampled + 1 ELSE m.sampled
          /\ \A u \in Workers : metrics'[u] = metrics[u]
      BY <1>5, <3>2 DEF Metrics
    <3>4. setting.limited => Len(samples') = IF allowed THEN Len(samples) + 1 ELSE Len(samples)
      <4>1. samples \in Seq(0 .. clock)
        BY <1>1 DEF TypeInv, TypeOK
      <4> QED
        BY <3>2, <4>1
    <3>5. Batch * metrics'[Main].reads + metrics'[Main].written = Batch * claimed'
      <4> DEFINE a == Batch * m.reads  b == Batch * claimed
      <4>1. Batch * metrics'[Main].reads = a + Batch /\ Batch * claimed' = b + Batch
        BY <1>2, <1>7, <3>3
      <4>2. a + m.written = b /\ a \in Nat /\ b \in Nat /\ metrics'[Main].written = m.written
        BY <1>7, <1>8, <3>3
      <4> HIDE DEF a, b
      <4> QED
        BY <1>6, <4>1, <4>2
    <3>6. SequentialInv'
      <4>1. metrics'[Main].written = Len(store')
        BY <1>8, <3>1, <3>3
      <4>2. setting'.limited => metrics'[Main].sampled = Len(samples')
        BY <1>2, <1>8, <3>3, <3>4
      <4>3. claimed' <= Ops /\ main' = "sequential"
        BY <1>2, <1>6, <3>1
      <4> QED
        BY <3>5, <4>1, <4>2, <4>3 DEF SequentialInv
    <3>7. metrics'[Main].sampled <= metrics'[Main].reads
      BY <1>6, <1>8, <3>3, SMTT(60)
    <3> QED
      BY <1>4, <1>9, <3>3, <3>6, <3>7 DEF ReportInv
  <2> QED
    BY <2>1, <2>2
<1>11. CASE SequentialWrite
  <2>1. PICK n \in 0 .. Batch :
           /\ store' = store \o [i \in 1 .. n |-> nextNode + i - 1]
           /\ metrics' = [metrics EXCEPT ![Main].written = @ + n]
           /\ main' = IF n = Batch THEN main ELSE "failed"
           /\ samples' = samples
    BY <1>11 DEF SequentialWrite
  <2>2. n \in Nat
    BY <1>6
  <2>3. /\ metrics'[Main].reads = m.reads /\ metrics'[Main].written = m.written + n
        /\ metrics'[Main].sampled = m.sampled
        /\ \A u \in Workers : metrics'[u] = metrics[u]
    BY <1>5, <2>1 DEF Metrics
  <2>4. Len(store') = Len(store) + n /\ Len(store) \in Nat
    <3> DEFINE more == [i \in 1 .. n |-> nextNode + i - 1]
    <3>1. nextNode \in Nat /\ store \in Seq(Nat)
      BY <1>1, NodeTypes
    <3>2. \A i \in 1 .. n : nextNode + i - 1 \in Nat
      BY <3>1
    <3>3. more \in Seq(Nat) /\ Len(more) = n
      BY <2>2, <3>2, IsASeq
    <3> HIDE DEF more
    <3>4. Len(store \o more) = Len(store) + Len(more)
      BY <3>1, <3>3, ConcatProperties
    <3> QED
      BY <2>1, <3>1, <3>3, <3>4 DEF more
  <2>5. SequentialInv'
    <3>1. CASE n = Batch
      <4> DEFINE a == Batch * m.reads  b == Batch * claimed
      <4>1. metrics'[Main].written = Len(store')
        BY <1>8, <2>3, <2>4
      <4>2. Batch * metrics'[Main].reads + metrics'[Main].written = Batch * claimed'
        <5>1. Batch * metrics'[Main].reads = a /\ Batch * claimed' = b + Batch
          BY <1>2, <1>7, <2>3
        <5>2. a + m.written = b /\ a \in Nat /\ b \in Nat
          BY <1>7, <1>8
        <5> HIDE DEF a, b
        <5> QED
          BY <1>6, <2>3, <3>1, <5>1, <5>2
      <4>3. setting'.limited => metrics'[Main].sampled = Len(samples')
        BY <1>2, <1>8, <2>1, <2>3
      <4>4. claimed' <= Ops /\ main' = "sequential"
        BY <1>2, <1>6, <2>1, <3>1
      <4> QED
        BY <4>1, <4>2, <4>3, <4>4 DEF SequentialInv
    <3>2. CASE n # Batch
      BY <2>1, <3>2 DEF SequentialInv
    <3> QED
      BY <3>1, <3>2
  <2>6. metrics'[Main].sampled <= metrics'[Main].reads
    BY <1>8, <2>3
  <2> QED
    BY <1>4, <1>9, <2>3, <2>5, <2>6 DEF ReportInv
<1> QED
  BY <1>10, <1>11

\* The main thread stops the workers and reports.
LEMMA ReportInvStage ==
  ASSUME ReportInv, NodesInv',
         \/ TimeIsUp \/ JoinWorkers \/ JoinCompactor
         \/ FlushAll \/ CompactAfter \/ Close \/ Recover
  PROVE  ReportInv'
<1>1. UNCHANGED <<setting, pc, own, metrics, store, samples, claimed, merged, compactor>>
  BY DEF TimeIsUp, JoinWorkers, JoinCompactor, FlushAll, CompactAfter, Close, Recover,
         atomics, threads, final
<1>2. /\ Written' = Written /\ Sampled' = Sampled /\ Credit' = Credit
      /\ CountInv' /\ (\A t \in Workers : PlaceInv(t)')
      /\ metrics'[Main].sampled <= metrics'[Main].reads
  BY <1>1, NumbersStay
<1>3. main # "failed"
  BY DEF TimeIsUp, JoinWorkers, JoinCompactor, FlushAll, CompactAfter, Close, Recover
<1>4. MergeInv'
  BY <1>1, <1>2, <1>3 DEF ReportInv, MergeInv
<1>5. ModeInv'
  <2>1. CASE setting.sequential
    BY <1>1, <2>1 DEF ReportInv, ModeInv, TimeIsUp, JoinWorkers, JoinCompactor, FlushAll,
                      CompactAfter, Close, Recover
  <2>2. CASE ~setting.sequential
    BY <1>1, <2>2 DEF ReportInv, ModeInv, Reported, TimeIsUp, JoinWorkers, JoinCompactor,
                      FlushAll, CompactAfter, Close, Recover
  <2> QED
    BY <2>1, <2>2
<1>6. SequentialInv'
  <2>1. ASSUME setting.sequential PROVE main' # "sequential" => claimed = Ops
    BY <2>1 DEF ReportInv, ModeInv, SequentialInv, TimeIsUp, JoinWorkers, JoinCompactor,
                FlushAll, CompactAfter, Close, Recover
  <2> QED
    BY <1>1, <1>3, <2>1 DEF ReportInv, SequentialInv
<1>7. DeltaInv'
  <2>1. CASE Close
    <3>1. NodesFollowBase /\ Reported /\ TypeInv
      BY <2>1, NodesInvImplies DEF ReportInv, NodesInv, Close, Reported
    <3>2. Range(store) = 0 .. Len(store) - 1 /\ Len(store) \in Nat
      BY <3>1 DEF NodesFollowBase, TypeInv, TypeOK
    <3>3. Cardinality(0 .. Len(store) - 1) = Len(store)
      <4>1. 0 \in Int /\ Len(store) - 1 \in Int
        BY <3>2
      <4>2. Cardinality(0 .. Len(store) - 1)
              = IF 0 > Len(store) - 1 THEN 0 ELSE Len(store) - 1 - 0 + 1
        BY <4>1, FS_Interval
      <4> QED
        BY <3>2, <4>2
    <3> QED
      BY <1>1, <2>1, <3>2, <3>3 DEF Close, DeltaInv
  <2>2. CASE ~Close
    BY <1>1, <2>2 DEF ReportInv, DeltaInv, TimeIsUp, JoinWorkers, JoinCompactor, FlushAll,
                      CompactAfter, Recover, final
  <2> QED
    BY <2>1, <2>2
<1> QED
  BY <1>2, <1>4, <1>5, <1>6, <1>7 DEF ReportInv

\* A step that the numbers do not notice.
LEMMA ReportInvRest ==
  ASSUME ReportInv, NodesInv',
         UNCHANGED <<setting, main, pc, own, metrics, store, samples, claimed, merged, deltas>>,
         compactor \in {"off", "ended"} => compactor' = compactor
  PROVE  ReportInv'
<1>1. /\ Written' = Written /\ Sampled' = Sampled /\ Credit' = Credit
      /\ CountInv' /\ (\A t \in Workers : PlaceInv(t)')
      /\ metrics'[Main].sampled <= metrics'[Main].reads
  BY NumbersStay
<1>2. MergeInv' /\ SequentialInv' /\ DeltaInv'
  BY <1>1 DEF ReportInv, MergeInv, SequentialInv, DeltaInv
<1>3. ModeInv'
  BY DEF ReportInv, ModeInv, Reported
<1> QED
  BY <1>1, <1>2, <1>3 DEF ReportInv

LEMMA ReportInvNext == ReportInv /\ [Next]_vars => ReportInv'
<1> SUFFICES ASSUME ReportInv, [Next]_vars PROVE ReportInv'
  OBVIOUS
<1>1. NodesInv'
  BY NodesInvNext DEF ReportInv
<1>2. ASSUME NEW t \in Workers, Work(t) PROVE ReportInv'
  BY <1>1, <1>2, ReportInvWork
<1>3. CASE Compactor
  BY <1>1, <1>3, ReportInvRest DEF Compactor, CompactorSleeps, CompactorWakes,
     CompactorRuns, atomics, threads, final
<1>4. CASE MainStep
  BY <1>1, <1>4, ReportInvMerge, ReportInvSequential, ReportInvStage DEF MainStep
<1>5. CASE Tick \/ Idle \/ UNCHANGED vars
  BY <1>1, <1>5, ReportInvRest DEF Tick, Idle, vars, atomics, threads, final
<1> QED
  BY <1>2, <1>3, <1>4, <1>5 DEF Next

LEMMA ReportInvInit == Init => ReportInv
<1> SUFFICES ASSUME Init PROVE ReportInv
  OBVIOUS
<1>1. NodesInv /\ TypeInv
  BY NodesInvInit DEF NodesInv
<1>2. Workers \subseteq Threads /\ Main \in Threads
  BY <1>1, NumberTypes
<1>3. /\ \A t \in Threads : metrics[t] = Zero
      /\ \A t \in Workers : own[t] = Unset
      /\ \A t \in Workers : pc[t] = IF setting.sequential THEN "done" ELSE "claim"
      /\ store = << >> /\ samples = << >> /\ merged = {} /\ claimed = 0 /\ deltas = 0
      /\ main = IF setting.sequential THEN "sequential" ELSE "run"
      /\ setting.sequential => compactor = "off"
  BY DEF Init
<1>4. ModeInv /\ DeltaInv
  BY <1>3 DEF ModeInv, DeltaInv, Reported
<1>5. \A t \in Workers : Written[t] = 0 /\ Sampled[t] = 0
  BY <1>2, <1>3 DEF Written, Sampled, Zero, Unset
<1>6. Batch \in Nat /\ Ops \in Nat /\ Batch * 0 = 0
  BY WorkloadAssumption
<1>7. \A t \in Workers : Credit[t] = 0
  <2> TAKE t \in Workers
  <2>1. InHand(t) = 0
    BY <1>3 DEF InHand
  <2>2. metrics[t].reads = 0 /\ metrics[t].written = 0
    BY <1>2, <1>3 DEF Zero
  <2> QED
    BY <1>6, <2>1, <2>2 DEF Credit
<1>8. \A f : (\A t \in Workers : f[t] = 0) => SumOver(f, Workers) = 0
  <2> TAKE f
  <2> HAVE \A t \in Workers : f[t] = 0
  <2>1. \A t \in Workers : {t} \X (1 .. f[t]) = {}
    OBVIOUS
  <2>2. Tokens(f, Workers) = {}
    BY <2>1 DEF Tokens
  <2> QED
    BY <2>2, FS_EmptySet DEF SumOver
<1>9. \A f : SumOver(f, {}) = 0
  BY SumEmpty
<1>10. /\ metrics[Main].reads = 0 /\ metrics[Main].written = 0 /\ metrics[Main].sampled = 0
  BY <1>2, <1>3 DEF Zero
<1>11. MergeInv
  BY <1>3, <1>6, <1>9, <1>10 DEF MergeInv
<1>12. Executed = 0 /\ Len(store) = 0 /\ Len(samples) = 0
  BY <1>3, <1>6 DEF Executed
<1>13. CountInv
  BY <1>5, <1>6, <1>7, <1>8, <1>12 DEF CountInv
<1>14. SequentialInv
  BY <1>3, <1>6, <1>10, <1>12 DEF SequentialInv
<1>15. \A t \in Workers : PlaceInv(t)
  BY <1>2, <1>3 DEF PlaceInv, Zero, Unset
<1> QED
  BY <1>1, <1>4, <1>10, <1>11, <1>13, <1>14, <1>15 DEF ReportInv

LEMMA ReportInvImplies == ReportInv => ReportIsTrue
<1> SUFFICES ASSUME ReportInv PROVE ReportIsTrue
  OBVIOUS
<1> DEFINE m == metrics[Main]
<1>1. NodesFollowBase /\ TypeInv
  BY NodesInvImplies DEF ReportInv, NodesInv
<1>2. ASSUME Reported
      PROVE  /\ compactor \in {"off", "ended"}
             /\ ~setting.timed => Batch * m.reads + m.written = Batch * Ops
             /\ m.written = Len(store)
             /\ main \in {"recover", "done"} => deltas = Len(store)
             /\ m.sampled <= m.reads
             /\ setting.limited => m.sampled = Len(samples)
  <2>1. main \in {"recover", "done"} => deltas = Len(store)
    BY DEF ReportInv, DeltaInv
  <2>2. m.sampled <= m.reads /\ main # "failed"
    BY <1>2 DEF ReportInv, Reported
  <2>3. CASE setting.sequential
    BY <1>2, <2>1, <2>2, <2>3 DEF ReportInv, ModeInv, SequentialInv, Reported
  <2>4. CASE ~setting.sequential
    <3>1. merged = Workers /\ compactor \in {"off", "ended"}
      BY <1>2, <2>4 DEF ReportInv, ModeInv
    <3>2. /\ m.written = SumOver(Written, Workers)
          /\ m.sampled = SumOver(Sampled, Workers)
          /\ Batch * m.reads + m.written = SumOver(Credit, Workers)
      BY <2>2, <2>4, <3>1 DEF ReportInv, MergeInv
    <3>3. \A t \in Workers : pc[t] = "done"
      BY <1>1, <1>2 DEF NodesFollowBase
    <3>4. NoneFailed
      BY <3>3 DEF NoneFailed
    <3>5. ~setting.timed => Executed = Ops
      <4>1. PICK t \in Workers : TRUE
        BY WorkloadAssumption
      <4>2. ~setting.timed => claimed >= Ops
        BY <2>4, <3>3, <4>1 DEF ReportInv, PlaceInv
      <4>3. claimed \in Nat /\ Ops \in Nat
        BY <1>1, NumberTypes
      <4> QED
        BY <4>2, <4>3 DEF Executed
    <3>6. /\ SumOver(Written, Workers) = Len(store)
          /\ ~setting.timed => SumOver(Credit, Workers) = Batch * Executed
          /\ setting.limited => SumOver(Sampled, Workers) = Len(samples)
      BY <2>4, <3>4 DEF ReportInv, CountInv
    <3> QED
      BY <2>1, <2>2, <3>1, <3>2, <3>5, <3>6
  <2> QED
    BY <2>3, <2>4
<1> QED
  BY <1>1, <1>2 DEF ReportIsTrue

\* Whatever the threads race for, a report of any number of readers and
\* writers tells what was done: num_operations operations have been executed,
\* not one more or less, every insert counted is in the store and every
\* sample allowed is counted.
THEOREM ReportTellsTheTruth == Spec => []ReportIsTrue
BY ReportInvInit, ReportInvNext, ReportInvImplies, PTL DEF Spec
=============================================================================
