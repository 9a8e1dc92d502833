----------------------------- MODULE PageReader -----------------------------
(***************************************************************************)
(* AsyncPageReader in io_uring mode: a pool of Depth aligned buffers, the  *)
(* reads that hold one, and the two queues shared with the kernel.  The    *)
(* operations are offered to the module that calls them, as operators on   *)
(* reads and free; Complete and CompleteBad are steps of the kernel.       *)
(*                                                                         *)
(* A read is added to the submission queue (queued), handed over by        *)
(* io_uring_submit (flight), completed (done, or bad when it failed or     *)
(* came back short), and reaped.  Its token is next_async_token++; here    *)
(* any value that no read holds, so that behaviours need no bound.         *)
(*                                                                         *)
(* Definitions named Faulty... are bugs the code does not have, used by no *)
(* action.                                                                 *)
(***************************************************************************)
EXTENDS Naturals, FiniteSetsExt, Functions

CONSTANTS
  Pages,
  Tokens,     \* enough numbers for the reads that exist at one time
  Depth,      \* io_depth: the buffers of the pool
  BatchSize,  \* batch_size of configure
  Faults,     \* the kinds of failure that may happen
  MaxFaults   \* bound: how many kinds happen in one behaviour

\* "read": a read fails.  "submit": io_uring_submit fails.  "wait":
\* io_uring_wait_cqe fails.  "trace": the prefetch trace cannot be written.
FaultKinds == {"read", "submit", "wait", "trace"}

\* configure refuses a batch size or a depth of zero.
ASSUME ReaderAssumption ==
  /\ Depth \in Nat \ {0} /\ BatchSize \in Nat \ {0}
  /\ IsFiniteSet(Tokens) /\ Cardinality(Tokens) >= Depth
  /\ IsFiniteSet(Pages)
  /\ Faults \subseteq FaultKinds /\ MaxFaults \in Nat

VARIABLES
  reads,  \* async_buffers and where the kernel is with each
  free,   \* the number of buffers in free_list_
  faults  \* history: the kinds of failure that have happened

reader == <<reads, free, faults>>

Read == [page : Pages, at : {"queued", "flight", "done", "bad"}]

ReaderTypeOK ==
  /\ DOMAIN reads \subseteq Tokens
  /\ reads \in [DOMAIN reads -> Read]
  /\ free \in 0 .. Depth
  /\ faults \subseteq Faults

ReaderInit == reads = << >> /\ free = Depth /\ faults = {}

Fault(kind) ==
  /\ kind \in Faults /\ Cardinality(faults \cup {kind}) <= MaxFaults
  /\ faults' = faults \cup {kind}

At(place) == {t \in DOMAIN reads : reads[t].at = place}

(***************************************************************************)
(* Submission.                                                             *)
(***************************************************************************)

BatchLimit == Min({BatchSize, Depth})

\* A bug: tokens start again with every session.
FaultyNewTokens(ps) ==
  CHOOSE f \in UNION {Bijection(T, ps) :
                       T \in kSubset(Cardinality(ps), Tokens)} : TRUE

\* Fresh tokens for the pages of a batch: a function from tokens to pages.
NewTokens(ps) ==
  LET unused == kSubset(Cardinality(ps), Tokens \ DOMAIN reads)
  IN CHOOSE f \in UNION {Bijection(T, ps) : T \in unused} : TRUE

\* rs with the reads new in the submission queue; emplace replaces nothing.
WithQueued(rs, new) ==
  [t \in DOMAIN rs \cup DOMAIN new |->
     IF t \in DOMAIN rs THEN rs[t] ELSE [page |-> new[t], at |-> "queued"]]

\* rs after submit_queued, which hands over the whole queue but the reads
\* stuck; none are stuck unless io_uring_submit fails.
Submitted(rs, stuck) ==
  [t \in DOMAIN rs |->
     IF rs[t].at = "queued" /\ t \notin stuck
     THEN [rs[t] EXCEPT !.at = "flight"] ELSE rs[t]]

\* A bug: the last batch is submitted only when it is full.
FaultyBatchSubmit(ps) ==
  /\ Cardinality(ps) <= free
  /\ \E rest \in kSubset(Cardinality(ps) % BatchLimit, DOMAIN NewTokens(ps)) :
       reads' = Submitted(WithQueued(reads, NewTokens(ps)), rest)
  /\ free' = free - Cardinality(ps)
  /\ UNCHANGED faults

\* batch_submit of reads that all find a buffer; it returns NewTokens(ps).
BatchSubmit(ps) ==
  /\ Cardinality(ps) <= free
  /\ reads' = IF ps = {} THEN reads
              ELSE Submitted(WithQueued(reads, NewTokens(ps)), {})
  /\ free' = free - Cardinality(ps)
  /\ UNCHANGED faults

\* batch_submit runs out of buffers and throws: the full batches before are
\* in flight, the rest waits in the queue, and the caller learns no token.
BatchExhausted(ps) ==
  /\ Cardinality(ps) > free
  /\ \E started \in kSubset(free, ps) :
       \E rest \in kSubset(free % BatchLimit, DOMAIN NewTokens(started)) :
         reads' = LET rs == WithQueued(reads, NewTokens(started))
                  IN IF free < BatchLimit THEN rs ELSE Submitted(rs, rest)
  /\ free' = 0
  /\ UNCHANGED faults

\* io_uring_submit fails during a batch_submit: after a full batch or at the
\* end, with some reads of that batch or of earlier ones still queued.
BatchSubmitFails(ps) ==
  /\ Fault("submit")
  /\ \E started \in SUBSET ps \ {{}} :
       LET new == NewTokens(started)
           rs  == WithQueued(reads, new)
       IN /\ Cardinality(started) <= free
          /\ started = ps \/ Cardinality(started) % BatchLimit = 0
          /\ \E stuck \in SUBSET (At("queued") \cup DOMAIN new) \ {{}} :
               /\ Cardinality(stuck \cap DOMAIN new) <= BatchLimit
               /\ reads' = Submitted(rs, stuck)
          /\ free' = free - Cardinality(started)

(***************************************************************************)
(* Completion.                                                             *)
(***************************************************************************)

Complete(t) ==
  /\ t \in At("flight")
  /\ reads' = [reads EXCEPT ![t].at = "done"]
  /\ UNCHANGED <<free, faults>>

CompleteBad(t) ==
  /\ t \in At("flight") /\ Fault("read")
  /\ reads' = [reads EXCEPT ![t].at = "bad"]
  /\ UNCHANGED free

\* rs after reap_async_read has returned the reads ts and released their
\* buffers.
Without(rs, ts) == Restrict(rs, DOMAIN rs \ ts)

Reap(ts) ==
  /\ reads' = Without(reads, ts)
  /\ free' = free + Cardinality(ts)

\* A bug: completions are reaped, but nothing is submitted.
FaultyHarvestAll ==
  /\ At("bad") = {}
  /\ reads' = Without(reads, At("done"))
  /\ free' = free + Cardinality(At("done"))
  /\ UNCHANGED faults

\* submit_async_reads, then reap_async_read until the completion queue is
\* empty.
HarvestAll ==
  /\ At("bad") = {}
  /\ reads' = Submitted(Without(reads, At("done")), {})
  /\ free' = free + Cardinality(At("done"))
  /\ UNCHANGED faults

\* A bug: the buffer of a failed read is not released.
FaultyHarvestThrows ==
  \E before \in SUBSET At("done"), t \in At("bad") :
    /\ reads' = Submitted(Without(reads, before \cup {t}), {})
    /\ free' = free + Cardinality(before)
    /\ UNCHANGED faults

\* The same, but the submission fails, or a failed read is met after some
\* good ones.
HarvestThrows ==
  \/ /\ Fault("submit")
     /\ \E stuck \in SUBSET At("queued") \ {{}} :
          reads' = Submitted(reads, stuck)
     /\ UNCHANGED free
  \/ \E before \in SUBSET At("done"), t \in At("bad") :
       /\ reads' = Submitted(Without(reads, before \cup {t}), {})
       /\ free' = free + Cardinality(before) + 1
       /\ UNCHANGED faults

(***************************************************************************)
(* close_native: reaps until no read is left, then drops the pool.         *)
(***************************************************************************)

CloseReap ==
  /\ \E t \in At("done") \cup At("bad") : Reap({t})
  /\ UNCHANGED faults

\* io_uring_wait_cqe fails: the loop ends and what is left is cleared.
CloseWaitFails ==
  /\ reads /= << >> /\ Fault("wait")
  /\ reads' = << >> /\ free' = Depth

Reopened == reads = << >> /\ reads' = << >> /\ free' = Depth
=============================================================================
