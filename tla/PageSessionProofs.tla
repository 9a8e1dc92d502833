------------------------- MODULE PageSessionProofs -------------------------
(***************************************************************************)
(* Theorems about PageReader and PageSession, for any depth, batch size,   *)
(* prefetch budget, cache capacity and number of pages: the types, the     *)
(* conservation of the buffers whatever fails, and the pins of a query.    *)
(*                                                                         *)
(* Then where the pages of a query are: completions are matched to the     *)
(* right reads, no page is read twice, prefetches stay within their budget *)
(* and leave room for demands, and what was demanded has arrived when a    *)
(* call returns.                                                           *)
(*                                                                         *)
(* Last the submission queue: when reads may be left in it.                *)
(***************************************************************************)
EXTENDS PageSession, FiniteSetTheorems, TLAPS

-----------------------------------------------------------------------------
\* The invariant.

ReaderInv == ReaderTypeOK /\ BuffersConserved

\* What a call holds at each of its places.
CallInv ==
  /\ pc \in {"idle", "closing"} => NoContent
  /\ pc \notin {"scan", "chunk", "await", "plan"} => NoCall
  /\ pc = "scan" => requests = {} /\ batch = << >>
  /\ pc = "chunk" => todo = {} /\ requests = {} /\ batch = << >>
  /\ pc = "await" => todo = {} /\ requests = {}
  /\ pc = "plan" => single = FALSE /\ missing = {} /\ batch = << >>

\* A page the query has pinned is cached and cannot be evicted; the pins of
\* earlier queries are gone unless their end failed at the trace.
PinInv ==
  /\ \A p \in pinned : p \in Cached /\ pins[p] > 0
  /\ "trace" \notin faults =>
       \A p \in Cached : pins[p] = IF p \in pinned THEN 1 ELSE 0

TypeInv == TypeOK /\ BuffersConserved /\ CallInv /\ PinInv

-----------------------------------------------------------------------------
\* Sets, functions, and the choice of tokens.

LEMMA EmptyFunction == DOMAIN << >> = {} /\ \A S : << >> \in [{} -> S]
OBVIOUS

\* A set of n elements has a subset of every size up to n.
LEMMA SubsetOfSize ==
  ASSUME NEW S, IsFiniteSet(S), NEW k \in Nat, k <= Cardinality(S)
  PROVE  \E T \in SUBSET S : IsFiniteSet(T) /\ Cardinality(T) = k
<1>1. Cardinality(S) \in Nat /\ ExistsBijection(1 .. Cardinality(S), S)
  BY FS_CardinalityType
<1>2. PICK f : f \in Bijection(1 .. Cardinality(S), S)
  BY <1>1 DEF ExistsBijection
<1>3. f \in [1 .. Cardinality(S) -> S] /\ IsInjective(f)
  BY <1>2 DEF Bijection, Injection
<1> DEFINE T == {f[i] : i \in 1 .. k}
           g == [i \in 1 .. k |-> f[i]]
<1>4. 1 .. k \subseteq 1 .. Cardinality(S)
  BY <1>1
<1>5. g \in Bijection(1 .. k, T)
  BY <1>3, <1>4 DEF Bijection, Injection, Surjection, IsInjective
<1>6. IsFiniteSet(1 .. k) /\ Cardinality(1 .. k) = k
  BY FS_Interval
<1>7. IsFiniteSet(T) /\ Cardinality(T) = Cardinality(1 .. k)
  BY <1>5, <1>6, FS_Bijection DEF ExistsBijection
<1> QED
  BY <1>3, <1>4, <1>6, <1>7

LEMMA ReaderSizes ==
  ASSUME ReaderTypeOK
  PROVE  /\ IsFiniteSet(DOMAIN reads) /\ Cardinality(DOMAIN reads) \in Nat
         /\ Depth \in Nat /\ free \in Nat
BY ReaderAssumption, FS_Subset, FS_CardinalityType DEF ReaderTypeOK

LEMMA PagesFinite ==
  ASSUME NEW ps \in SUBSET Pages
  PROVE  IsFiniteSet(ps) /\ Cardinality(ps) \in Nat
BY ReaderAssumption, FS_Subset, FS_CardinalityType

\* NewTokens(ps) gives every page of ps a token no read holds, a different
\* one for each, when the pool has a buffer for each.
LEMMA TokensAreNew ==
  ASSUME ReaderInv, NEW ps \in SUBSET Pages, Cardinality(ps) <= free
  PROVE  LET new == NewTokens(ps)
         IN  /\ DOMAIN new \subseteq Tokens \ DOMAIN reads
             /\ new \in [DOMAIN new -> ps] /\ IsInjective(new) /\ Range(new) = ps
             /\ IsFiniteSet(DOMAIN new) /\ Cardinality(DOMAIN new) = Cardinality(ps)
<1> DEFINE unused == kSubset(Cardinality(ps), Tokens \ DOMAIN reads)
           all == UNION {Bijection(T, ps) : T \in unused}
<1>1. IsFiniteSet(ps) /\ Cardinality(ps) \in Nat
  BY PagesFinite
<1>2. /\ IsFiniteSet(Tokens \ DOMAIN reads)
      /\ Cardinality(Tokens \ DOMAIN reads) = Cardinality(Tokens) - Cardinality(DOMAIN reads)
  <2>1. DOMAIN reads = Tokens \cap DOMAIN reads /\ IsFiniteSet(Tokens)
    BY ReaderAssumption DEF ReaderInv, ReaderTypeOK
  <2> QED
    BY <2>1, FS_Difference, ZenonT(60)
<1>3. Cardinality(ps) <= Cardinality(Tokens \ DOMAIN reads)
  <2>1. /\ Cardinality(DOMAIN reads) \in Nat /\ free \in Nat /\ Depth \in Nat
        /\ Cardinality(Tokens) \in Nat /\ Cardinality(Tokens) >= Depth
    BY ReaderAssumption, ReaderSizes, FS_CardinalityType DEF ReaderInv
  <2>2. free + Cardinality(DOMAIN reads) = Depth
    BY DEF ReaderInv, BuffersConserved
  <2> QED
    BY <1>1, <1>2, <2>1, <2>2
<1>4. PICK T \in SUBSET (Tokens \ DOMAIN reads) :
        IsFiniteSet(T) /\ Cardinality(T) = Cardinality(ps)
  BY <1>1, <1>2, <1>3, SubsetOfSize
<1>5. T \in unused
  BY <1>4 DEF kSubset
<1>6. ExistsBijection(T, ps)
  BY <1>1, <1>4, FS_SameCardinalityBij
<1>7. \E f : f \in all
  BY <1>5, <1>6 DEF ExistsBijection
<1>8. NewTokens(ps) \in all
  <2>1. NewTokens(ps) = CHOOSE f \in all : TRUE
    BY DEF NewTokens
  <2> HIDE DEF all
  <2> QED
    BY <1>7, <2>1
<1>9. PICK U \in unused : NewTokens(ps) \in Bijection(U, ps)
  BY <1>8
<1>10. /\ NewTokens(ps) \in [U -> ps] /\ IsInjective(NewTokens(ps))
       /\ \A p \in ps : \E t \in U : NewTokens(ps)[t] = p
  BY <1>9 DEF Bijection, Injection, Surjection
<1>11. DOMAIN NewTokens(ps) = U /\ Range(NewTokens(ps)) = ps
  BY <1>10 DEF Range
<1>12. U \subseteq Tokens \ DOMAIN reads /\ Cardinality(U) = Cardinality(ps)
  BY <1>9 DEF kSubset
<1>13. IsFiniteSet(U)
  BY <1>2, <1>12, FS_Subset
<1> QED
  BY <1>10, <1>11, <1>12, <1>13

-----------------------------------------------------------------------------
\* The operations of the reader.

ReadsType(rs) == rs \in [DOMAIN rs -> Read]

\* The reads of the tokens T are left or added; none changes its page.
ReadsAre(T) ==
  /\ DOMAIN reads' = T /\ ReadsType(reads)'
  /\ \A t \in T \cap DOMAIN reads : reads'[t].page = reads[t].page

LEMMA WithQueuedReads ==
  ASSUME NEW rs, ReadsType(rs), NEW new, new \in [DOMAIN new -> Pages]
  PROVE  /\ DOMAIN WithQueued(rs, new) = DOMAIN rs \cup DOMAIN new
         /\ ReadsType(WithQueued(rs, new))
         /\ \A t \in DOMAIN rs : WithQueued(rs, new)[t] = rs[t]
         /\ \A t \in DOMAIN new \ DOMAIN rs : WithQueued(rs, new)[t].page = new[t]
BY DEF ReadsType, WithQueued, Read

LEMMA SubmittedReads ==
  ASSUME NEW rs, ReadsType(rs), NEW stuck
  PROVE  /\ DOMAIN Submitted(rs, stuck) = DOMAIN rs
         /\ ReadsType(Submitted(rs, stuck))
         /\ \A t \in DOMAIN rs : Submitted(rs, stuck)[t].page = rs[t].page
BY DEF ReadsType, Submitted, Read

LEMMA WithoutReads ==
  ASSUME NEW f, NEW ts
  PROVE  /\ DOMAIN Without(f, ts) = DOMAIN f \ ts
         /\ \A t \in DOMAIN f \ ts : Without(f, ts)[t] = f[t]
         /\ \A S : f \in [DOMAIN f -> S] => Without(f, ts) \in [DOMAIN f \ ts -> S]
BY DEF Without, Restrict

LEMMA WithoutReadsType ==
  ASSUME NEW rs, ReadsType(rs), NEW ts
  PROVE  ReadsType(Without(rs, ts))
BY WithoutReads DEF ReadsType

LEMMA FaultTypes ==
  ASSUME ReaderInv, NEW kind, Fault(kind)
  PROVE  faults' \subseteq Faults /\ faults \subseteq faults'
BY DEF ReaderInv, ReaderTypeOK, Fault

\* The reader keeps its invariant when reads come and go with their buffers.
LEMMA ReaderKept ==
  ASSUME ReadsType(reads'), DOMAIN reads' \subseteq Tokens, faults' \subseteq Faults,
         free' \in Nat, free' + Cardinality(DOMAIN reads') = Depth
  PROVE  ReaderInv'
<1>1. Depth \in Nat /\ IsFiniteSet(Tokens)
  BY ReaderAssumption
<1>2. Cardinality(DOMAIN reads') \in Nat
  BY <1>1, FS_Subset, FS_CardinalityType
<1>3. free' \in 0 .. Depth
  BY <1>1, <1>2
<1> QED
  BY <1>3 DEF ReaderInv, ReaderTypeOK, BuffersConserved, ReadsType

LEMMA ReadsAdded ==
  ASSUME ReaderInv, NEW ps \in SUBSET Pages, Cardinality(ps) <= free,
         ReadsType(reads'), DOMAIN reads' = DOMAIN reads \cup DOMAIN NewTokens(ps),
         free' = free - Cardinality(ps), faults' \subseteq Faults
  PROVE  ReaderInv'
<1> DEFINE D == DOMAIN NewTokens(ps)
<1>1. /\ D \subseteq Tokens \ DOMAIN reads /\ IsFiniteSet(D)
      /\ Cardinality(D) = Cardinality(ps)
  BY TokensAreNew
<1>2. /\ IsFiniteSet(DOMAIN reads) /\ Cardinality(DOMAIN reads) \in Nat
      /\ free \in Nat /\ Depth \in Nat /\ Cardinality(ps) \in Nat
  BY ReaderSizes, PagesFinite DEF ReaderInv
<1>3. DOMAIN reads \cap D = {} /\ Cardinality({}) = 0
  BY <1>1, FS_EmptySet
<1>4. Cardinality(DOMAIN reads \cup D) = Cardinality(DOMAIN reads) + Cardinality(ps)
  <2> HIDE DEF D
  <2>1. Cardinality(DOMAIN reads \cup D)
          = Cardinality(DOMAIN reads) + Cardinality(D) - Cardinality(DOMAIN reads \cap D)
    BY <1>1, <1>2, FS_Union
  <2>2. Cardinality(DOMAIN reads \cap D) = 0
    BY <1>3
  <2> QED
    BY <1>1, <1>2, <2>1, <2>2
<1>5. free + Cardinality(DOMAIN reads) = Depth
  BY DEF ReaderInv, BuffersConserved
<1>6. free' \in Nat /\ free' + Cardinality(DOMAIN reads') = Depth
  BY <1>2, <1>4, <1>5
<1>7. DOMAIN reads' \subseteq Tokens
  BY <1>1 DEF ReaderInv, ReaderTypeOK
<1> QED
  BY <1>6, <1>7, ReaderKept

LEMMA ReadsRemoved ==
  ASSUME ReaderInv, NEW ts \in SUBSET DOMAIN reads, ReadsType(reads'),
         DOMAIN reads' = DOMAIN reads \ ts, free' = free + Cardinality(ts),
         faults' \subseteq Faults
  PROVE  ReaderInv'
<1>1. /\ IsFiniteSet(DOMAIN reads) /\ Cardinality(DOMAIN reads) \in Nat
      /\ free \in Nat /\ Depth \in Nat
  BY ReaderSizes DEF ReaderInv
<1>2. IsFiniteSet(ts) /\ Cardinality(ts) \in Nat /\ DOMAIN reads \cap ts = ts
  BY <1>1, FS_Subset, FS_CardinalityType
<1>3. Cardinality(DOMAIN reads \ ts) = Cardinality(DOMAIN reads) - Cardinality(ts)
  BY <1>1, <1>2, FS_Difference
<1>4. free + Cardinality(DOMAIN reads) = Depth
  BY DEF ReaderInv, BuffersConserved
<1>5. free' \in Nat /\ free' + Cardinality(DOMAIN reads') = Depth
  BY <1>1, <1>2, <1>3, <1>4
<1>6. DOMAIN reads' \subseteq Tokens
  BY DEF ReaderInv, ReaderTypeOK
<1> QED
  BY <1>5, <1>6, ReaderKept

LEMMA ReaderTypes ==
  ASSUME ReaderInv
  PROVE  /\ ReadsType(reads) /\ faults \subseteq Faults
         /\ \A place : At(place) \subseteq DOMAIN reads
         /\ At("done") \cap At("bad") = {}
BY DEF ReaderInv, ReaderTypeOK, ReadsType, At

LEMMA BatchSubmitKeeps ==
  ASSUME ReaderInv, NEW ps \in SUBSET Pages, BatchSubmit(ps)
  PROVE  LET new == NewTokens(ps)
         IN  /\ ReaderInv' /\ faults' = faults
             /\ ReadsAre(DOMAIN reads \cup DOMAIN new)
             /\ \A t \in DOMAIN new : reads'[t].page = new[t]
             /\ DOMAIN new \subseteq Tokens \ DOMAIN reads
             /\ new \in [DOMAIN new -> ps] /\ IsInjective(new) /\ Range(new) = ps
<1> DEFINE new == NewTokens(ps)
           rs  == WithQueued(reads, new)
<1>1. Cardinality(ps) <= free /\ faults' = faults /\ free' = free - Cardinality(ps)
  BY DEF BatchSubmit
<1>2. /\ DOMAIN new \subseteq Tokens \ DOMAIN reads
      /\ new \in [DOMAIN new -> ps] /\ IsInjective(new) /\ Range(new) = ps
  BY <1>1, TokensAreNew
<1>3. ReadsType(reads) /\ faults \subseteq Faults
  BY ReaderTypes
<1>4. new \in [DOMAIN new -> Pages]
  BY <1>2
<1> HIDE DEF new
<1>5. /\ DOMAIN rs = DOMAIN reads \cup DOMAIN new /\ ReadsType(rs)
      /\ \A t \in DOMAIN reads : rs[t] = reads[t]
      /\ \A t \in DOMAIN new \ DOMAIN reads : rs[t].page = new[t]
  BY <1>3, <1>4, WithQueuedReads
<1> HIDE DEF rs
<1>6. /\ DOMAIN reads' = DOMAIN reads \cup DOMAIN new /\ ReadsType(reads')
      /\ \A t \in DOMAIN reads : reads'[t].page = reads[t].page
      /\ \A t \in DOMAIN new : reads'[t].page = new[t]
  <2>1. CASE ps = {}
    <3>1. DOMAIN new = {} /\ reads' = reads
      BY <1>2, <2>1 DEF BatchSubmit
    <3> QED
      BY <1>3, <3>1
  <2>2. CASE ps # {}
    <3>1. reads' = Submitted(rs, {})
      BY <2>2 DEF BatchSubmit, new, rs
    <3>2. /\ DOMAIN reads' = DOMAIN rs /\ ReadsType(reads')
          /\ \A t \in DOMAIN rs : reads'[t].page = rs[t].page
      BY <1>5, <3>1, SubmittedReads
    <3> QED
      BY <1>2, <1>5, <3>2
  <2> QED
    BY <2>1, <2>2
<1>7. ReaderInv'
  BY <1>1, <1>3, <1>6, ReadsAdded DEF new
<1> QED
  BY <1>1, <1>2, <1>6, <1>7 DEF ReadsAre, new

\* A batch_submit that throws leaves reads behind, each with its buffer.
LEMMA BatchFailsKeeps ==
  ASSUME ReaderInv, NEW ps \in SUBSET Pages,
         BatchExhausted(ps) \/ BatchSubmitFails(ps)
  PROVE  ReaderInv' /\ faults \subseteq faults'
<1>1. ReadsType(reads) /\ faults \subseteq Faults
  BY ReaderTypes
<1>2. ASSUME NEW started \in SUBSET ps, Cardinality(started) <= free,
             NEW rest,
             reads' \in {WithQueued(reads, NewTokens(started)),
                         Submitted(WithQueued(reads, NewTokens(started)), rest)},
             free' = free - Cardinality(started), faults' \subseteq Faults
      PROVE  ReaderInv'
  <2> DEFINE new == NewTokens(started)
             rs  == WithQueued(reads, new)
  <2>1. new \in [DOMAIN new -> Pages]
    <3>1. started \in SUBSET Pages
      OBVIOUS
    <3>2. new \in [DOMAIN new -> started]
      BY <1>2, <3>1, TokensAreNew
    <3> HIDE DEF new
    <3> QED
      BY <3>1, <3>2
  <2>2. DOMAIN rs = DOMAIN reads \cup DOMAIN new /\ ReadsType(rs)
    <3> HIDE DEF new
    <3> QED
      BY <1>1, <2>1, WithQueuedReads
  <2>3. DOMAIN Submitted(rs, rest) = DOMAIN rs /\ ReadsType(Submitted(rs, rest))
    <3> HIDE DEF rs
    <3> QED
      BY <2>2, SubmittedReads
  <2>4. ReadsType(reads') /\ DOMAIN reads' = DOMAIN reads \cup DOMAIN new
    <3>1. reads' \in {rs, Submitted(rs, rest)}
      BY <1>2
    <3> HIDE DEF new, rs
    <3> QED
      BY <2>2, <2>3, <3>1
  <2>5. started \in SUBSET Pages
    OBVIOUS
  <2> QED
    BY <1>2, <2>4, <2>5, ReadsAdded
<1>3. CASE BatchExhausted(ps)
  <2>1. PICK started \in kSubset(free, ps) :
          \E rest : reads' \in {WithQueued(reads, NewTokens(started)),
                               Submitted(WithQueued(reads, NewTokens(started)), rest)}
    BY <1>3 DEF BatchExhausted
  <2>2. started \in SUBSET ps /\ Cardinality(started) = free
    BY <2>1 DEF kSubset
  <2>3. free \in Nat /\ free' = 0 /\ faults' = faults
    BY <1>3, ReaderSizes DEF BatchExhausted, ReaderInv
  <2>4. free' = free - Cardinality(started) /\ Cardinality(started) <= free
    BY <2>2, <2>3
  <2> QED
    BY <1>1, <1>2, <2>1, <2>2, <2>3, <2>4
<1>4. CASE BatchSubmitFails(ps)
  <2>1. PICK started \in SUBSET ps :
          /\ Cardinality(started) <= free
          /\ \E rest : reads' = Submitted(WithQueued(reads, NewTokens(started)), rest)
          /\ free' = free - Cardinality(started)
    BY <1>4 DEF BatchSubmitFails
  <2>2. faults' \subseteq Faults /\ faults \subseteq faults'
    BY <1>4, FaultTypes DEF BatchSubmitFails
  <2> QED
    BY <1>2, <2>1, <2>2
<1> QED
  BY <1>3, <1>4

\* The reads ts are reaped, and what is queued is handed over.
LEMMA SubmittedWithout ==
  ASSUME ReaderInv, NEW ts \in SUBSET DOMAIN reads, NEW stuck,
         reads' \in {Without(reads, ts), Submitted(Without(reads, ts), stuck)}
  PROVE  ReadsAre(DOMAIN reads \ ts)
<1> DEFINE rs == Without(reads, ts)
<1>1. ReadsType(reads)
  BY ReaderTypes
<1>2. /\ DOMAIN rs = DOMAIN reads \ ts /\ ReadsType(rs)
      /\ \A t \in DOMAIN rs : rs[t] = reads[t]
  <2>1. ReadsType(rs)
    BY <1>1, WithoutReadsType
  <2>2. DOMAIN rs = DOMAIN reads \ ts /\ \A t \in DOMAIN reads \ ts : rs[t] = reads[t]
    BY WithoutReads, Zenon
  <2> QED
    BY <2>1, <2>2
<1>3. reads' = rs \/ reads' = Submitted(rs, stuck)
  OBVIOUS
<1> HIDE DEF rs
<1>4. /\ DOMAIN Submitted(rs, stuck) = DOMAIN rs /\ ReadsType(Submitted(rs, stuck))
      /\ \A t \in DOMAIN rs : Submitted(rs, stuck)[t].page = rs[t].page
  BY <1>2, SubmittedReads
<1> QED
  BY <1>2, <1>3, <1>4 DEF ReadsAre

LEMMA ReapKeeps ==
  ASSUME ReaderInv, NEW t \in DOMAIN reads, Reap({t}), faults' = faults
  PROVE  ReaderInv' /\ ReadsAre(DOMAIN reads \ {t})
<1>1. ReadsAre(DOMAIN reads \ {t})
  BY SubmittedWithout DEF Reap
<1> QED
  BY <1>1, ReadsRemoved, ReaderTypes DEF Reap, ReadsAre

\* What FinishTraceThrows shares with harvest_prefetch.
LEMMA HarvestReads ==
  ASSUME ReaderInv, faults' \subseteq Faults,
         reads' = Submitted(Without(reads, At("done")), {}),
         free' = free + Cardinality(At("done"))
  PROVE  ReaderInv' /\ ReadsAre(DOMAIN reads \ At("done"))
<1>1. At("done") \in SUBSET DOMAIN reads
  BY ReaderTypes
<1>2. ReadsAre(DOMAIN reads \ At("done"))
  BY <1>1, SubmittedWithout
<1> QED
  BY <1>1, <1>2, ReadsRemoved DEF ReadsAre

LEMMA HarvestAllKeeps ==
  ASSUME ReaderInv, HarvestAll
  PROVE  ReaderInv' /\ faults' = faults /\ ReadsAre(DOMAIN reads \ At("done"))
BY HarvestReads, ReaderTypes DEF HarvestAll

LEMMA HarvestThrowsKeeps ==
  ASSUME ReaderInv, HarvestThrows
  PROVE  ReaderInv' /\ faults \subseteq faults'
<1>1. ReadsType(reads) /\ faults \subseteq Faults
  BY ReaderTypes
<1>2. ASSUME Fault("submit"), NEW stuck, reads' = Submitted(reads, stuck), free' = free
      PROVE  ReaderInv' /\ faults \subseteq faults'
  <2>1. faults' \subseteq Faults /\ faults \subseteq faults'
    BY <1>2, FaultTypes
  <2>2. DOMAIN reads' = DOMAIN reads /\ ReadsType(reads')
    BY <1>1, <1>2, SubmittedReads
  <2>3. /\ free' \in Nat /\ free' + Cardinality(DOMAIN reads') = Depth
        /\ DOMAIN reads' \subseteq Tokens
    BY <1>2, <2>2, ReaderSizes DEF ReaderInv, ReaderTypeOK, BuffersConserved
  <2> QED
    BY <2>1, <2>2, <2>3, ReaderKept
<1>3. ASSUME NEW before \in SUBSET At("done"), NEW t \in At("bad"),
             reads' = Submitted(Without(reads, before \cup {t}), {}),
             free' = free + Cardinality(before) + 1, faults' = faults
      PROVE  ReaderInv' /\ faults \subseteq faults'
  <2>1. /\ before \cup {t} \in SUBSET DOMAIN reads /\ t \notin before
        /\ before \in SUBSET DOMAIN reads
    BY ReaderTypes
  <2>2. /\ IsFiniteSet(DOMAIN reads) /\ free \in Nat
    BY ReaderSizes DEF ReaderInv
  <2>3. IsFiniteSet(before) /\ Cardinality(before) \in Nat
    BY <2>1, <2>2, FS_Subset, FS_CardinalityType
  <2>4. Cardinality(before \cup {t}) = Cardinality(before) + 1
    BY <2>1, <2>3, FS_AddElement
  <2>5. ReadsAre(DOMAIN reads \ (before \cup {t}))
    BY <1>3, <2>1, SubmittedWithout
  <2>6. free' = free + Cardinality(before \cup {t})
    BY <1>3, <2>2, <2>3, <2>4
  <2> QED
    BY <1>1, <1>3, <2>1, <2>5, <2>6, ReadsRemoved DEF ReadsAre
<1> QED
  BY <1>2, <1>3 DEF HarvestThrows

LEMMA KernelKeeps ==
  ASSUME ReaderInv, NEW t, Complete(t) \/ CompleteBad(t)
  PROVE  ReaderInv' /\ faults \subseteq faults' /\ ReadsAre(DOMAIN reads)
<1>1. ReadsType(reads) /\ faults \subseteq Faults /\ t \in DOMAIN reads
  BY ReaderTypes DEF Complete, CompleteBad, At
<1>2. \E place \in {"done", "bad"} : reads' = [reads EXCEPT ![t].at = place]
  BY DEF Complete, CompleteBad
<1>3. ReadsAre(DOMAIN reads)
  BY <1>1, <1>2 DEF ReadsAre, ReadsType, Read
<1>4. faults' \subseteq Faults /\ faults \subseteq faults' /\ free' = free
  BY <1>1, FaultTypes DEF Complete, CompleteBad
<1>5. /\ free' \in Nat /\ free' + Cardinality(DOMAIN reads') = Depth
      /\ DOMAIN reads' \subseteq Tokens
  BY <1>3, <1>4, ReaderSizes DEF ReaderInv, ReaderTypeOK, BuffersConserved, ReadsAre
<1> QED
  BY <1>3, <1>4, <1>5, ReaderKept DEF ReadsAre

LEMMA ReaderEmpty ==
  ASSUME reads' = << >>, free' = Depth, faults' \subseteq Faults
  PROVE  ReaderInv'
<1>1. Depth \in Nat
  BY ReaderAssumption
<1>2. DOMAIN reads' = {} /\ ReadsType(reads')
  BY EmptyFunction DEF ReadsType
<1>3. free' + Cardinality(DOMAIN reads') = Depth
  BY <1>1, <1>2, FS_EmptySet
<1> QED
  BY <1>1, <1>2, <1>3, ReaderKept

LEMMA ReaderUnchanged ==
  ASSUME ReaderInv, UNCHANGED <<reads, free>>, faults' \subseteq Faults
  PROVE  ReaderInv'
BY DEF ReaderInv, ReaderTypeOK, BuffersConserved

LEMMA HarvestKeeps ==
  ASSUME ReaderInv, Harvest
  PROVE  ReaderInv' /\ faults' = faults
<1>1. CASE Prefetching
  BY <1>1, HarvestAllKeeps DEF Harvest
<1>2. CASE ~Prefetching
  BY <1>2, ReaderUnchanged, ReaderTypes DEF Harvest, reader
<1> QED
  BY <1>1, <1>2

-----------------------------------------------------------------------------
\* The reader in every step.

LEMMA WantedPages ==
  ASSUME TypeOK, NEW ps \in NextChunk
  PROVE  ps \in SUBSET missing /\ Wanted(ps) \in SUBSET ps /\ ps \in SUBSET Pages
BY DEF TypeOK, NextChunk, kSubset, Wanted

LEMMA ReaderCaller ==
  ASSUME TypeInv, ReaderInv, Caller
  PROVE  ReaderInv' /\ faults \subseteq faults'
<1>1. CASE Drain
  BY <1>1, HarvestKeeps DEF Drain
<1>2. CASE DrainFails
  BY <1>2, HarvestThrowsKeeps DEF DrainFails
<1>3. ASSUME UNCHANGED reader PROVE ReaderInv' /\ faults \subseteq faults'
  BY <1>3, ReaderUnchanged, ReaderTypes DEF reader
<1>4. ASSUME NEW ps \in SUBSET Pages,
             EnsurePagesLoaded(ps) \/ SubmitPages(ps) \/ SubmitCandidates(ps)
      PROVE  UNCHANGED reader
  BY <1>4 DEF EnsurePagesLoaded, Demand, SubmitPages, SubmitCandidates, Submit
<1>5. ASSUME NEW p \in Pages, GetOrLoadPage(p) \/ PinPage(p)
      PROVE  UNCHANGED reader
  BY <1>5 DEF GetOrLoadPage, Demand, PinPage
<1>6. ASSUME NEW n \in Capacities, ConfigureCache(n) PROVE UNCHANGED reader
  BY <1>6 DEF ConfigureCache
<1>7. CASE Begin \/ Close
  BY <1>3, <1>7 DEF Begin, Close
<1> QED
  BY <1>1, <1>2, <1>3, <1>4, <1>5, <1>6, <1>7 DEF Caller

LEMMA ReaderScan ==
  ASSUME TypeInv, ReaderInv, NEW p \in Pages,
         \/ ScanHit(p) \/ ScanReady(p) \/ ScanMissing(p)
         \/ ScanWait(p) \/ ScanWaitFails(p) \/ QueueRequest(p)
  PROVE  ReaderInv' /\ faults \subseteq faults'
<1>1. ASSUME UNCHANGED reader PROVE ReaderInv' /\ faults \subseteq faults'
  BY <1>1, ReaderUnchanged, ReaderTypes DEF reader
<1>2. CASE ScanHit(p) \/ ScanReady(p) \/ ScanMissing(p)
  BY <1>1, <1>2 DEF ScanHit, ScanReady, ScanMissing
<1>3. CASE ScanWait(p)
  BY <1>3, HarvestKeeps DEF ScanWait
<1>4. CASE ScanWaitFails(p)
  <2>1. CASE HarvestThrows
    BY <2>1, HarvestThrowsKeeps
  <2>2. CASE Fault("wait") /\ UNCHANGED <<reads, free>>
    BY <2>2, FaultTypes, ReaderUnchanged
  <2> QED
    BY <1>4, <2>1, <2>2 DEF ScanWaitFails
<1>5. CASE QueueRequest(p)
  BY <1>1, <1>5, HarvestKeeps DEF QueueRequest
<1> QED
  BY <1>2, <1>3, <1>4, <1>5

LEMMA ReaderDemand ==
  ASSUME TypeInv, ReaderInv,
         \/ ScanEnd \/ ScanEndFails \/ Chunk \/ ChunkFails \/ DemandEnd
         \/ AwaitFails \/ \E t \in Tokens : AwaitDemand(t) \/ AwaitOther(t)
  PROVE  ReaderInv' /\ faults \subseteq faults'
<1>1. ASSUME UNCHANGED reader PROVE ReaderInv' /\ faults \subseteq faults'
  BY <1>1, ReaderUnchanged, ReaderTypes DEF reader
<1>2. CASE ScanEnd
  BY <1>1, <1>2, HarvestKeeps DEF ScanEnd, reader
<1>3. CASE ScanEndFails
  BY <1>3, HarvestThrowsKeeps DEF ScanEndFails
<1>4. CASE Chunk
  <2>1. PICK ps \in NextChunk : BatchSubmit(Wanted(ps))
    BY <1>4 DEF Chunk
  <2>2. Wanted(ps) \in SUBSET Pages
    BY WantedPages DEF TypeInv
  <2> QED
    BY <2>1, <2>2, BatchSubmitKeeps
<1>5. CASE ChunkFails
  <2>1. PICK ps \in NextChunk :
          BatchExhausted(Wanted(ps)) \/ BatchSubmitFails(Wanted(ps))
    BY <1>5 DEF ChunkFails
  <2>2. Wanted(ps) \in SUBSET Pages
    BY WantedPages DEF TypeInv
  <2> QED
    BY <2>1, <2>2, BatchFailsKeeps
<1>6. CASE DemandEnd
  BY <1>1, <1>6 DEF DemandEnd
<1>7. ASSUME NEW t \in Tokens, AwaitDemand(t) \/ AwaitOther(t)
      PROVE  ReaderInv' /\ faults \subseteq faults'
  <2>1. t \in DOMAIN reads /\ Reap({t}) /\ faults' = faults
    BY <1>7, ReaderTypes DEF AwaitDemand, AwaitOther
  <2> QED
    BY <2>1, ReapKeeps
<1>8. CASE AwaitFails
  <2>1. ASSUME NEW t \in At("bad"), Reap({t}), UNCHANGED faults
        PROVE  ReaderInv' /\ faults \subseteq faults'
    BY <2>1, ReapKeeps, ReaderTypes
  <2>2. CASE Fault("wait") /\ UNCHANGED <<reads, free>>
    BY <2>2, FaultTypes, ReaderUnchanged
  <2> QED
    BY <1>8, <2>1, <2>2 DEF AwaitFails
<1> QED
  BY <1>2, <1>3, <1>4, <1>5, <1>6, <1>7, <1>8

LEMMA ReaderPlan ==
  ASSUME TypeInv, ReaderInv, FlushRequests \/ PlanEnd \/ PlanFails
  PROVE  ReaderInv' /\ faults \subseteq faults'
<1>1. requests \in SUBSET Pages
  BY DEF TypeInv, TypeOK
<1>2. CASE FlushRequests
  BY <1>1, <1>2, BatchSubmitKeeps DEF FlushRequests
<1>3. CASE PlanEnd
  BY <1>3, HarvestKeeps DEF PlanEnd
<1>4. CASE PlanFails
  <2>1. \/ BatchExhausted(requests) \/ BatchSubmitFails(requests)
        \/ HarvestThrows
    BY <1>4 DEF PlanFails
  <2> QED
    BY <1>1, <2>1, BatchFailsKeeps, HarvestThrowsKeeps
<1> QED
  BY <1>2, <1>3, <1>4

LEMMA ReaderFinish ==
  ASSUME ReaderInv, FinishQuery \/ CloseLoop
  PROVE  ReaderInv' /\ faults \subseteq faults'
<1>1. ASSUME UNCHANGED reader PROVE ReaderInv' /\ faults \subseteq faults'
  BY <1>1, ReaderUnchanged, ReaderTypes DEF reader
<1>2. CASE Finish
  BY <1>1, <1>2, HarvestAllKeeps DEF Finish, reader
<1>3. CASE FinishHarvestThrows
  BY <1>3, HarvestThrowsKeeps DEF FinishHarvestThrows
<1>4. CASE FinishTraceThrows
  <2>1. faults' \subseteq Faults /\ faults \subseteq faults'
    BY <1>4, FaultTypes DEF FinishTraceThrows
  <2>2. CASE Prefetching
    BY <1>4, <2>1, <2>2, HarvestReads DEF FinishTraceThrows
  <2>3. CASE ~Prefetching
    BY <1>4, <2>1, <2>3, ReaderUnchanged DEF FinishTraceThrows
  <2> QED
    BY <2>2, <2>3
<1>5. CASE CloseLoop
  <2>1. CASE CloseReap
    <3>1. PICK t \in At("done") \cup At("bad") : Reap({t})
      BY <2>1 DEF CloseReap
    <3> QED
      BY <2>1, <3>1, ReapKeeps, ReaderTypes DEF CloseReap
  <2>2. CASE CloseWaitFails
    BY <2>2, ReaderEmpty, FaultTypes DEF CloseWaitFails
  <2>3. CASE Reopened /\ UNCHANGED faults
    BY <2>3, ReaderEmpty, ReaderTypes DEF Reopened
  <2> QED
    BY <1>5, <2>1, <2>2, <2>3 DEF CloseLoop
<1> QED
  BY <1>2, <1>3, <1>4, <1>5 DEF FinishQuery

\* No step loses a buffer or hands one out twice.
LEMMA ReaderNext ==
  ASSUME TypeInv, [Next]_vars
  PROVE  ReaderInv' /\ faults \subseteq faults'
<1>1. ReaderInv
  BY DEF TypeInv, TypeOK, ReaderInv
<1>2. CASE Kernel
  <2>1. PICK t \in Tokens : Complete(t) \/ CompleteBad(t)
    BY <1>2 DEF Kernel
  <2> QED
    BY <1>1, <2>1, KernelKeeps
<1>3. CASE Caller
  BY <1>1, <1>3, ReaderCaller
<1>4. CASE CallStep
  BY <1>1, <1>4, ReaderScan, ReaderDemand, ReaderPlan, ReaderFinish DEF CallStep
<1>5. CASE FinishQuery
  BY <1>1, <1>5, ReaderFinish
<1>6. CASE UNCHANGED vars
  BY <1>1, <1>6, ReaderUnchanged, ReaderTypes DEF vars, reader
<1> QED
  BY <1>2, <1>3, <1>4, <1>5, <1>6 DEF Next

-----------------------------------------------------------------------------
\* What a call holds.

LEMMA NoFunction ==
  ASSUME NEW f, NEW S, f \in [DOMAIN f -> S], DOMAIN f = {}
  PROVE  f = << >>
OBVIOUS

\* A thrown call, and one that has ended, holds nothing.
LEMMA ThrowHolds == Throw => CallInv'
BY DEF Throw, CallInv, NoCall

LEMMA CallInvScan ==
  ASSUME CallInv, NEW p \in Pages,
         \/ ScanHit(p) \/ ScanReady(p) \/ ScanMissing(p)
         \/ ScanWait(p) \/ ScanWaitFails(p)
  PROVE  CallInv'
<1>1. CASE ScanHit(p) \/ ScanReady(p)
  BY <1>1 DEF ScanHit, ScanReady, Taken, CallInv
<1>2. CASE ScanMissing(p)
  BY <1>2 DEF ScanMissing, CallInv
<1>3. CASE ScanWait(p)
  BY <1>3 DEF ScanWait, MustWait, call, CallInv
<1>4. CASE ScanWaitFails(p)
  BY <1>4, ThrowHolds DEF ScanWaitFails
<1> QED
  BY <1>1, <1>2, <1>3, <1>4

LEMMA CallInvDemand ==
  ASSUME TypeInv,
         \/ ScanEnd \/ ScanEndFails \/ Chunk \/ ChunkFails \/ DemandEnd
         \/ AwaitFails \/ \E t \in Tokens : AwaitDemand(t) \/ AwaitOther(t)
  PROVE  CallInv'
<1>1. CallInv /\ ReaderInv /\ batch \in [DOMAIN batch -> Pages]
  BY DEF TypeInv, TypeOK, ReaderInv
<1>2. CASE ScanEnd
  BY <1>1, <1>2 DEF ScanEnd, call, CallInv
<1>3. CASE ScanEndFails \/ ChunkFails \/ AwaitFails
  BY <1>3, ThrowHolds DEF ScanEndFails, ChunkFails, AwaitFails
<1>4. CASE Chunk
  <2>1. PICK ps \in NextChunk :
          /\ BatchSubmit(Wanted(ps)) /\ batch' = NewTokens(Wanted(ps))
          /\ pc' = IF Wanted(ps) = {} THEN "chunk" ELSE "await"
    BY <1>4 DEF Chunk
  <2>2. Wanted(ps) \in SUBSET Pages
    BY WantedPages DEF TypeInv
  <2>3. batch' \in [DOMAIN batch' -> Wanted(ps)]
    BY <1>1, <2>1, <2>2, BatchSubmitKeeps
  <2>4. ASSUME Wanted(ps) = {} PROVE batch' = << >>
    <3>1. DOMAIN batch' = {}
      BY <2>3, <2>4
    <3> QED
      BY <2>3, <3>1, NoFunction
  <2>5. pc = "chunk" /\ UNCHANGED <<todo, requests>>
    BY <1>4 DEF Chunk
  <2> QED
    BY <1>1, <2>1, <2>4, <2>5 DEF CallInv
<1>5. CASE DemandEnd
  BY <1>1, <1>5 DEF DemandEnd, CallInv, NoCall
<1>6. ASSUME NEW t \in Tokens, AwaitDemand(t) PROVE CallInv'
  <2>1. /\ DOMAIN batch' = DOMAIN batch \ {t}
        /\ batch' \in [DOMAIN batch \ {t} -> Pages]
    BY <1>1, <1>6, WithoutReads DEF AwaitDemand
  <2>2. DOMAIN batch = {t} => batch' = << >>
    BY <2>1, NoFunction
  <2> QED
    BY <1>1, <1>6, <2>2 DEF AwaitDemand, CallInv
<1>7. ASSUME NEW t \in Tokens, AwaitOther(t) PROVE CallInv'
  BY <1>1, <1>7 DEF AwaitOther, call, CallInv
<1> QED
  BY <1>2, <1>3, <1>4, <1>5, <1>6, <1>7

LEMMA CallInvPlan ==
  ASSUME CallInv,
         \/ FlushRequests \/ PlanEnd \/ PlanFails \/ \E p \in Pages : QueueRequest(p)
  PROVE  CallInv'
<1>1. CASE FlushRequests
  BY <1>1 DEF FlushRequests, CallInv
<1>2. CASE PlanEnd
  BY <1>2 DEF PlanEnd, call, CallInv, NoCall
<1>3. CASE PlanFails
  BY <1>3, ThrowHolds DEF PlanFails
<1>4. ASSUME NEW p \in Pages, QueueRequest(p) PROVE CallInv'
  BY <1>4 DEF QueueRequest, CallInv
<1> QED
  BY <1>1, <1>2, <1>3, <1>4

LEMMA CallInvCaller ==
  ASSUME CallInv, Caller
  PROVE  CallInv'
<1>1. CASE Begin \/ Close
  BY <1>1 DEF Begin, Close, call, content, query, CallInv, NoCall, NoContent
<1>2. ASSUME NEW ps \in SUBSET Pages, EnsurePagesLoaded(ps) PROVE CallInv'
  BY <1>2 DEF EnsurePagesLoaded, Demand, CallInv, NoCall
<1>3. ASSUME NEW p \in Pages, GetOrLoadPage(p) PROVE CallInv'
  BY <1>3 DEF GetOrLoadPage, Demand, CallInv, NoCall
<1>4. ASSUME NEW ps \in SUBSET Pages, Submit(ps) PROVE CallInv'
  BY <1>4 DEF Submit, CallInv, NoCall
<1>5. ASSUME NEW p \in Pages, PinPage(p) PROVE CallInv'
  BY <1>5 DEF PinPage, call, CallInv, NoCall
<1>6. CASE Drain
  BY <1>6 DEF Drain, call, CallInv, NoCall
<1>7. CASE DrainFails
  BY <1>7, ThrowHolds DEF DrainFails
<1>8. ASSUME NEW n \in Capacities, ConfigureCache(n) PROVE CallInv'
  BY <1>8 DEF ConfigureCache, call, content, query, CallInv, NoCall, NoContent
<1> QED
  BY <1>1, <1>2, <1>3, <1>4, <1>5, <1>6, <1>7, <1>8
  DEF Caller, SubmitPages, SubmitCandidates

LEMMA CallInvFinish ==
  ASSUME CallInv, FinishQuery \/ CloseLoop
  PROVE  CallInv'
<1>1. CASE Finish \/ FinishHarvestThrows
  BY <1>1 DEF Finish, FinishHarvestThrows, Forget, call, CallInv, NoCall, NoContent
<1>2. CASE FinishTraceThrows
  BY <1>2 DEF FinishTraceThrows, Forget, call, CallInv, NoCall, NoContent
<1>3. CASE CloseLoop
  BY <1>3 DEF CloseLoop, call, content, query, CallInv, NoCall, NoContent
<1> QED
  BY <1>1, <1>2, <1>3 DEF FinishQuery

LEMMA CallInvNext ==
  ASSUME TypeInv, [Next]_vars
  PROVE  CallInv'
<1>1. CallInv
  BY DEF TypeInv
<1>2. CASE Kernel
  BY <1>1, <1>2 DEF Kernel, call, content, query, CallInv, NoCall, NoContent
<1>3. CASE Caller
  BY <1>1, <1>3, CallInvCaller
<1>4. CASE CallStep
  BY <1>1, <1>4, CallInvScan, CallInvDemand, CallInvPlan, CallInvFinish DEF CallStep
<1>5. CASE FinishQuery
  BY <1>1, <1>5, CallInvFinish
<1>6. CASE UNCHANGED vars
  BY <1>1, <1>6 DEF vars, call, content, query, CallInv, NoCall, NoContent
<1> QED
  BY <1>2, <1>3, <1>4, <1>5, <1>6 DEF Next

-----------------------------------------------------------------------------
\* Harvested pages, and pages that are kept.

TokensType(f) == DOMAIN f \subseteq Tokens /\ f \in [DOMAIN f -> Pages]

SetsType ==
  /\ todo \subseteq Pages /\ missing \subseteq Pages /\ requests \subseteq Pages
  /\ ready \subseteq Pages /\ owned \subseteq Pages /\ materialized \subseteq Pages
  /\ visited \subseteq Pages /\ pinned \subseteq Pages

ContentType ==
  /\ pc \in {"idle", "search", "scan", "chunk", "await", "plan", "failed",
            "closing"}
  /\ single \in BOOLEAN /\ traced \in BOOLEAN
  /\ SetsType /\ TokensType(pending) /\ TokensType(batch)

CacheType ==
  /\ capacity \in Capacities
  /\ DOMAIN pins \subseteq Pages /\ pins \in [DOMAIN pins -> 0 .. MaxPins]
  /\ Cardinality(DOMAIN pins) <= capacity

LEMMA TypeOKParts == TypeOK <=> ReaderTypeOK /\ CacheType /\ ContentType
BY DEF TypeOK, CacheType, ContentType, SetsType, TokensType

\* consume_prefetch_completion: pages leave pending, and some of them, which
\* are nowhere else, wait for use.
LEMMA ConsumeMoves ==
  ASSUME NEW ts, TokensType(pending), Consume(ts)
  PROVE  /\ DOMAIN pending' = DOMAIN pending \ ts /\ TokensType(pending')
         /\ \A t \in DOMAIN pending' : pending'[t] = pending[t]
         /\ \E kept : /\ ready' = ready \cup kept
                      /\ \A p \in kept : /\ ~Available(p)
                                         /\ \E t \in DOMAIN pending \cap ts : pending[t] = p
<1> DEFINE mine == ts \cap DOMAIN pending
           arrived == {p \in {pending[t] : t \in mine} : ~Available(p)}
<1>1. pending' = Without(pending, mine)
  BY DEF Consume
<1>2. /\ DOMAIN pending' = DOMAIN pending \ ts
      /\ \A t \in DOMAIN pending' : pending'[t] = pending[t]
  <2>1. /\ DOMAIN pending' = DOMAIN pending \ mine
        /\ \A t \in DOMAIN pending \ mine : pending'[t] = pending[t]
    BY <1>1, WithoutReads, Zenon
  <2> QED
    BY <2>1
<1>3. TokensType(pending')
  <2>1. pending' \in [DOMAIN pending \ mine -> Pages]
    BY <1>1, WithoutReads DEF TokensType
  <2> QED
    BY <1>2, <2>1 DEF TokensType
<1>4. \E n : \E kept \in kSubset(n, arrived) : ready' = ready \cup kept
  BY DEF Consume
<1>5. \E kept \in SUBSET arrived : ready' = ready \cup kept
  BY <1>4 DEF kSubset
<1> QED
  BY <1>2, <1>3, <1>5

LEMMA ConsumeTypes ==
  ASSUME NEW ts, TokensType(pending), ready \subseteq Pages, Consume(ts)
  PROVE  TokensType(pending') /\ ready' \subseteq Pages
<1>1. TokensType(pending')
  BY ConsumeMoves
<1>2. PICK kept : /\ ready' = ready \cup kept
                  /\ \A p \in kept : /\ ~Available(p)
                                     /\ \E t \in DOMAIN pending \cap ts : pending[t] = p
  BY ConsumeMoves, Zenon
<1>3. \A t \in DOMAIN pending : pending[t] \in Pages
  BY DEF TokensType
<1> QED
  BY <1>1, <1>2, <1>3

LEMMA HarvestTypes ==
  ASSUME TokensType(pending), ready \subseteq Pages, Harvest
  PROVE  TokensType(pending') /\ ready' \subseteq Pages
<1>1. CASE Prefetching
  BY <1>1, ConsumeTypes DEF Harvest
<1>2. CASE ~Prefetching
  BY <1>2 DEF Harvest
<1> QED
  BY <1>1, <1>2

\* Pins may come and go, but no page with pins does.
PinsKept ==
  /\ \A q \in Cached : pins[q] > 0 => q \in Cached'
  /\ \A q \in Cached' : pins'[q] = IF q \in Cached THEN pins[q] ELSE 0

\* store_cached_page, or the session's own copy.
LEMMA KeepMoves ==
  ASSUME CacheType, NEW p \in Pages, Keep(p), capacity' = capacity
  PROVE  /\ CacheType' /\ PinsKept
         /\ owned' \subseteq owned \cup {p} /\ owned \subseteq owned'
         /\ Cached' \subseteq Cached \cup {p}
<1> DEFINE With(rest) == [q \in rest \cup {p} |-> IF q = p THEN 0 ELSE pins[q]]
<1>1. /\ IsFiniteSet(Cached) /\ Cardinality(Cached) \in Nat
      /\ capacity \in Nat /\ MaxPins \in Nat
  BY ReaderAssumption, SessionAssumption, FS_Subset, FS_CardinalityType
  DEF CacheType, Cached
<1>2. CASE pins' = pins
  BY <1>2 DEF Keep, CacheType, PinsKept, Cached
<1>3. ASSUME NEW rest \in SUBSET Cached, pins' = With(rest), p \notin Cached,
             \A q \in Cached \ rest : pins[q] = 0,
             Cardinality(rest) < capacity
      PROVE  CacheType' /\ PinsKept /\ Cached' \subseteq Cached \cup {p}
  <2>1. DOMAIN pins' = rest \cup {p} /\ p \notin rest
    BY <1>3
  <2>2. \A q \in rest : pins'[q] = pins[q]
    BY <1>3
  <2>3. pins'[p] = 0
    BY <1>3
  <2>4. Cardinality(rest \cup {p}) = Cardinality(rest) + 1 /\ Cardinality(rest) \in Nat
    BY <1>1, <2>1, FS_Subset, FS_AddElement, FS_CardinalityType
  <2>5. \A q \in rest : q \in Pages /\ pins[q] \in 0 .. MaxPins
    BY DEF CacheType, Cached
  <2>6. pins' \in [rest \cup {p} -> 0 .. MaxPins]
    BY <1>1, <1>3, <2>5
  <2>7. CacheType'
    BY <1>1, <1>3, <2>1, <2>4, <2>5, <2>6 DEF CacheType
  <2>8. PinsKept
    BY <1>3, <2>1, <2>2, <2>3 DEF PinsKept, Cached
  <2> QED
    BY <2>1, <2>7, <2>8 DEF Cached
<1>4. CASE capacity # 0 /\ pins' # pins
  <2>1. pins' \in CacheAfter(p) /\ UNCHANGED owned
    BY <1>4 DEF Keep
  <2>2. p \notin Cached
    BY <1>4, <2>1 DEF CacheAfter
  <2>3. CASE Cardinality(Cached) < capacity
    <3>1. pins' = With(Cached)
      BY <2>1, <2>2, <2>3 DEF CacheAfter
    <3> QED
      BY <1>3, <2>1, <2>2, <2>3, <3>1
  <2>4. CASE ~(Cardinality(Cached) < capacity)
    <3>1. PICK v \in Unpinned : pins' = With(Cached \ {v})
      BY <1>4, <2>1, <2>2, <2>4 DEF CacheAfter
    <3>2. v \in Cached /\ pins[v] = 0
      BY <3>1 DEF Unpinned
    <3>3. Cardinality(Cached \ {v}) = Cardinality(Cached) - 1
      BY <1>1, <3>2, FS_RemoveElement
    <3>4. Cardinality(Cached \ {v}) < capacity
      <4>1. Cardinality(Cached) <= capacity
        BY DEF CacheType, Cached
      <4> QED
        BY <1>1, <3>3, <4>1
    <3> QED
      BY <1>3, <2>1, <2>2, <3>1, <3>2, <3>4
  <2> QED
    BY <2>3, <2>4
<1>5. CASE capacity = 0
  BY <1>2, <1>5 DEF Keep
<1>6. owned' \subseteq owned \cup {p} /\ owned \subseteq owned'
  BY DEF Keep
<1> QED
  BY <1>2, <1>4, <1>5, <1>6

-----------------------------------------------------------------------------
\* The types of the session.

LEMMA EmptyTokens == TokensType(<< >>)
BY EmptyFunction DEF TokensType

LEMMA ThrowTypes == ContentType /\ Throw => ContentType'
BY EmptyTokens DEF Throw, content, query, ContentType, SetsType

LEMMA ForgetTypes ==
  ASSUME ContentType, Forget, UNCHANGED call, pc' \in {"idle", "failed"}
  PROVE  ContentType'
BY EmptyTokens DEF Forget, call, ContentType, SetsType

LEMMA ContentScan ==
  ASSUME ContentType, CacheType, NEW p \in Pages,
         \/ ScanHit(p) \/ ScanReady(p) \/ ScanMissing(p)
         \/ ScanWait(p) \/ ScanWaitFails(p)
  PROVE  ContentType'
<1>1. CASE ScanHit(p)
  BY <1>1 DEF ScanHit, Taken, ContentType, SetsType
<1>2. CASE ScanReady(p)
  <2>1. owned' \subseteq owned \cup {p}
    BY <1>2 DEF ScanReady, Keep
  <2> QED
    BY <1>2, <2>1 DEF ScanReady, Taken, ContentType, SetsType
<1>3. CASE ScanMissing(p)
  BY <1>3 DEF ScanMissing, content, query, ContentType, SetsType
<1>4. CASE ScanWait(p)
  <2>1. TokensType(pending') /\ ready' \subseteq Pages
    BY <1>4, HarvestTypes DEF ScanWait, ContentType, SetsType
  <2> QED
    BY <1>4, <2>1 DEF ScanWait, call, query, ContentType, SetsType
<1>5. CASE ScanWaitFails(p)
  BY <1>5, ThrowTypes DEF ScanWaitFails
<1> QED
  BY <1>1, <1>2, <1>3, <1>4, <1>5

LEMMA ContentDemand ==
  ASSUME TypeInv, ContentType,
         \/ ScanEnd \/ ScanEndFails \/ Chunk \/ ChunkFails \/ DemandEnd
         \/ AwaitFails \/ \E t \in Tokens : AwaitDemand(t) \/ AwaitOther(t)
  PROVE  ContentType'
<1>1. CASE ScanEnd
  <2>1. TokensType(pending') /\ ready' \subseteq Pages
    BY <1>1, HarvestTypes DEF ScanEnd, ContentType, SetsType
  <2> QED
    BY <1>1, <2>1 DEF ScanEnd, call, query, ContentType, SetsType
<1>2. CASE ScanEndFails \/ ChunkFails \/ AwaitFails
  BY <1>2, ThrowTypes DEF ScanEndFails, ChunkFails, AwaitFails
<1>3. CASE Chunk
  <2>1. PICK ps \in NextChunk :
          /\ BatchSubmit(Wanted(ps)) /\ batch' = NewTokens(Wanted(ps))
          /\ missing' = missing \ ps
          /\ pc' = IF Wanted(ps) = {} THEN "chunk" ELSE "await"
    BY <1>3 DEF Chunk
  <2>2. Wanted(ps) \in SUBSET Pages
    BY WantedPages DEF TypeInv
  <2>3. batch' \in [DOMAIN batch' -> Wanted(ps)] /\ DOMAIN batch' \subseteq Tokens
    BY <2>1, <2>2, BatchSubmitKeeps DEF TypeInv, TypeOK, ReaderInv
  <2>4. TokensType(batch')
    BY <2>2, <2>3 DEF TokensType
  <2>5. UNCHANGED <<single, todo, requests, content>>
    BY <1>3 DEF Chunk
  <2> QED
    BY <2>1, <2>4, <2>5 DEF content, query, ContentType, SetsType
<1>4. CASE DemandEnd
  BY <1>4 DEF DemandEnd, content, query, ContentType, SetsType
<1>5. ASSUME NEW t \in Tokens, AwaitDemand(t) PROVE ContentType'
  <2>1. t \in DOMAIN batch /\ batch[t] \in Pages
    BY <1>5 DEF AwaitDemand, ContentType, TokensType
  <2>2. owned' \subseteq owned \cup {batch[t]}
    BY <1>5 DEF AwaitDemand, Keep
  <2>3. TokensType(batch')
    <3>1. batch' = Without(batch, {t}) /\ TokensType(batch)
      BY <1>5 DEF AwaitDemand, ContentType
    <3>2. batch' \in [DOMAIN batch \ {t} -> Pages]
      BY <3>1, WithoutReads DEF TokensType
    <3> QED
      BY <3>1, <3>2 DEF TokensType
  <2> QED
    BY <1>5, <2>1, <2>2, <2>3 DEF AwaitDemand, ContentType, SetsType
<1>6. ASSUME NEW t \in Tokens, AwaitOther(t) PROVE ContentType'
  <2>1. TokensType(pending') /\ ready' \subseteq Pages
    BY <1>6, ConsumeTypes DEF AwaitOther, ContentType, SetsType
  <2> QED
    BY <1>6, <2>1 DEF AwaitOther, call, query, ContentType, SetsType
<1> QED
  BY <1>1, <1>2, <1>3, <1>4, <1>5, <1>6

LEMMA ContentPlan ==
  ASSUME TypeInv, ContentType,
         \/ FlushRequests \/ PlanEnd \/ PlanFails \/ \E p \in Pages : QueueRequest(p)
  PROVE  ContentType'
<1>1. CASE FlushRequests
  <2> DEFINE new == NewTokens(requests)
  <2>1. requests \in SUBSET Pages /\ TokensType(pending)
    BY DEF ContentType, SetsType
  <2>2. new \in [DOMAIN new -> requests] /\ DOMAIN new \subseteq Tokens
    BY <1>1, <2>1, BatchSubmitKeeps DEF FlushRequests, TypeInv, TypeOK, ReaderInv
  <2>3. pending' = [t \in DOMAIN pending \cup DOMAIN new |->
                      IF t \in DOMAIN new THEN new[t] ELSE pending[t]]
    BY <1>1 DEF FlushRequests
  <2> HIDE DEF new
  <2>4. TokensType(pending')
    BY <2>1, <2>2, <2>3 DEF TokensType
  <2> QED
    BY <1>1, <2>4 DEF FlushRequests, query, ContentType, SetsType
<1>2. CASE PlanEnd
  <2>1. TokensType(pending') /\ ready' \subseteq Pages
    BY <1>2, HarvestTypes DEF PlanEnd, ContentType, SetsType
  <2> QED
    BY <1>2, <2>1 DEF PlanEnd, call, query, ContentType, SetsType
<1>3. CASE PlanFails
  BY <1>3, ThrowTypes DEF PlanFails
<1>4. ASSUME NEW p \in Pages, QueueRequest(p) PROVE ContentType'
  <2>1. TokensType(pending') /\ ready' \subseteq Pages
    BY <1>4, HarvestTypes DEF QueueRequest, ContentType, SetsType
  <2>2. requests' \subseteq requests \cup {p} /\ todo' \subseteq todo
    BY <1>4 DEF QueueRequest
  <2> QED
    BY <1>4, <2>1, <2>2 DEF QueueRequest, query, ContentType, SetsType
<1> QED
  BY <1>1, <1>2, <1>3, <1>4

LEMMA ContentCaller ==
  ASSUME ContentType, Caller
  PROVE  ContentType'
<1>1. CASE Begin \/ Close
  BY <1>1 DEF Begin, Close, call, content, query, ContentType, SetsType
<1>2. ASSUME NEW ps \in SUBSET Pages, NEW one \in BOOLEAN, Demand(ps, one)
      PROVE  ContentType'
  BY <1>2 DEF Demand, ContentType, SetsType
<1>3. ASSUME NEW ps \in SUBSET Pages, SubmitPages(ps) \/ SubmitCandidates(ps)
      PROVE  ContentType'
  BY <1>3 DEF SubmitPages, SubmitCandidates, Submit, ContentType, SetsType
<1>4. ASSUME NEW p \in Pages, PinPage(p) PROVE ContentType'
  BY <1>4 DEF PinPage, call, ContentType, SetsType
<1>5. CASE Drain
  <2>1. TokensType(pending') /\ ready' \subseteq Pages
    BY <1>5, HarvestTypes DEF Drain, ContentType, SetsType
  <2> QED
    BY <1>5, <2>1 DEF Drain, call, query, ContentType, SetsType
<1>6. CASE DrainFails
  BY <1>6, ThrowTypes DEF DrainFails
<1>7. ASSUME NEW n \in Capacities, ConfigureCache(n) PROVE ContentType'
  BY <1>7 DEF ConfigureCache, call, content, query, ContentType, SetsType
<1>8. ASSUME NEW ps \in SUBSET Pages, EnsurePagesLoaded(ps) PROVE ContentType'
  BY <1>2, <1>8 DEF EnsurePagesLoaded
<1>9. ASSUME NEW p \in Pages, GetOrLoadPage(p) PROVE ContentType'
  BY <1>2, <1>9 DEF GetOrLoadPage
<1> QED
  BY <1>1, <1>3, <1>4, <1>5, <1>6, <1>7, <1>8, <1>9 DEF Caller

LEMMA ContentFinish ==
  ASSUME ContentType, FinishQuery \/ CloseLoop
  PROVE  ContentType'
<1>1. CASE Finish \/ FinishHarvestThrows
  BY <1>1, ForgetTypes DEF Finish, FinishHarvestThrows
<1>2. CASE FinishTraceThrows
  <2>1. CASE pc = "search"
    BY <1>2, <2>1, EmptyTokens
    DEF FinishTraceThrows, call, query, ContentType, SetsType
  <2>2. CASE pc # "search"
    BY <1>2, <2>2, ForgetTypes DEF FinishTraceThrows
  <2> QED
    BY <2>1, <2>2
<1>3. CASE CloseLoop
  BY <1>3 DEF CloseLoop, call, content, query, ContentType, SetsType
<1> QED
  BY <1>1, <1>2, <1>3 DEF FinishQuery

LEMMA ContentNext ==
  ASSUME TypeInv, [Next]_vars
  PROVE  ContentType'
<1>1. ContentType /\ CacheType
  BY TypeOKParts DEF TypeInv
<1>2. CASE Kernel
  BY <1>1, <1>2 DEF Kernel, call, content, query, ContentType, SetsType
<1>3. CASE Caller
  BY <1>1, <1>3, ContentCaller
<1>4. CASE CallStep
  BY <1>1, <1>4, ContentScan, ContentDemand, ContentPlan, ContentFinish DEF CallStep
<1>5. CASE FinishQuery
  BY <1>1, <1>5, ContentFinish
<1>6. CASE UNCHANGED vars
  BY <1>1, <1>6 DEF vars, call, content, query, ContentType, SetsType
<1> QED
  BY <1>2, <1>3, <1>4, <1>5, <1>6 DEF Next

-----------------------------------------------------------------------------
\* The cache and its pins.

CacheInv == CacheType /\ PinInv

LEMMA CacheSame ==
  ASSUME CacheInv, UNCHANGED <<cache, pinned>>, faults \subseteq faults'
  PROVE  CacheInv'
BY DEF CacheInv, CacheType, PinInv, cache, Cached

LEMMA CacheKeeps ==
  ASSUME CacheInv, NEW p \in Pages, Keep(p), UNCHANGED <<capacity, pinned>>,
         faults \subseteq faults'
  PROVE  CacheInv'
<1>1. CacheType' /\ PinsKept
  BY KeepMoves DEF CacheInv
<1>2. \A q \in pinned : q \in Cached /\ pins[q] > 0
  BY DEF CacheInv, PinInv
<1>3. \A q \in pinned' : q \in Cached' /\ pins'[q] > 0
  BY <1>1, <1>2 DEF PinsKept
<1>4. ASSUME "trace" \notin faults', NEW q \in Cached'
      PROVE  pins'[q] = IF q \in pinned' THEN 1 ELSE 0
  BY <1>1, <1>2, <1>4 DEF PinsKept, CacheInv, PinInv
<1> QED
  BY <1>1, <1>3, <1>4 DEF CacheInv, PinInv

LEMMA CachePins ==
  ASSUME CacheInv, NEW p \in Pages, PinPage(p)
  PROVE  CacheInv'
<1>1. /\ p \in Cached /\ p \notin pinned /\ pins[p] < MaxPins
      /\ pins' = [pins EXCEPT ![p] = @ + 1] /\ pinned' = pinned \cup {p}
      /\ capacity' = capacity /\ faults' = faults
  BY DEF PinPage, reader
<1>2. \A q \in Cached : pins[q] \in 0 .. MaxPins
  BY DEF CacheInv, CacheType, Cached
<1>3. MaxPins \in Nat
  BY SessionAssumption
<1>4. /\ DOMAIN pins' = DOMAIN pins
      /\ \A q \in Cached : pins'[q] = IF q = p THEN pins[q] + 1 ELSE pins[q]
  BY <1>1 DEF Cached, CacheInv, CacheType
<1>5. CacheType'
  BY <1>1, <1>2, <1>3 DEF CacheInv, CacheType, Cached
<1>6. PinInv'
  BY <1>1, <1>2, <1>3, <1>4 DEF CacheInv, PinInv, Cached
<1> QED
  BY <1>5, <1>6 DEF CacheInv

LEMMA CacheUnpins ==
  ASSUME CacheInv, Unpin, pinned' = {}, capacity' = capacity, faults \subseteq faults'
  PROVE  CacheInv'
<1>1. \A q \in Cached : pins[q] \in 0 .. MaxPins
  BY DEF CacheInv, CacheType, Cached
<1>2. \A q \in pinned : q \in Cached /\ pins[q] > 0
  BY DEF CacheInv, PinInv
<1>3. MaxPins \in Nat
  BY SessionAssumption
<1>4. /\ DOMAIN pins' = Cached
      /\ \A q \in Cached : pins'[q] = IF q \in pinned THEN pins[q] - 1 ELSE pins[q]
  BY DEF Unpin
<1>5. \A q \in Cached : pins'[q] \in 0 .. MaxPins
  BY <1>1, <1>2, <1>3, <1>4
<1>6. pins' \in [DOMAIN pins' -> 0 .. MaxPins]
  BY <1>4, <1>5 DEF Unpin
<1>7. CacheType'
  BY <1>4, <1>6 DEF CacheInv, CacheType, Cached
<1>8. PinInv'
  BY <1>1, <1>4 DEF CacheInv, PinInv, Cached
<1> QED
  BY <1>7, <1>8 DEF CacheInv

LEMMA CacheCaller ==
  ASSUME TypeInv, CacheInv, Caller, faults \subseteq faults'
  PROVE  CacheInv'
<1>1. CASE Begin \/ Close \/ Drain \/ DrainFails
  BY <1>1, CacheSame DEF Begin, Close, Drain, DrainFails, Throw, content, query
<1>2. ASSUME NEW ps \in SUBSET Pages,
             EnsurePagesLoaded(ps) \/ SubmitPages(ps) \/ SubmitCandidates(ps)
      PROVE  CacheInv'
  BY <1>2, CacheSame DEF EnsurePagesLoaded, Demand, SubmitPages, SubmitCandidates, Submit
<1>3. ASSUME NEW p \in Pages, GetOrLoadPage(p) PROVE CacheInv'
  BY <1>3, CacheSame DEF GetOrLoadPage, Demand
<1>4. ASSUME NEW p \in Pages, PinPage(p) PROVE CacheInv'
  BY <1>4, CachePins
<1>5. ASSUME NEW n \in Capacities, ConfigureCache(n) PROVE CacheInv'
  <2>1. pins' = << >> /\ capacity' = n /\ pc = "idle" /\ pinned' = pinned
    BY <1>5 DEF ConfigureCache, content, query
  <2>2. pinned = {}
    BY <2>1 DEF TypeInv, CallInv, NoContent
  <2>3. DOMAIN pins' = {}
    BY <2>1, EmptyFunction
  <2>4. n \in Nat /\ Cardinality(DOMAIN pins') = 0
    BY <2>3, SessionAssumption, FS_EmptySet
  <2>5. CacheType'
    BY <2>1, <2>3, <2>4, EmptyFunction DEF CacheType
  <2>6. PinInv'
    BY <2>1, <2>2, <2>3 DEF PinInv, Cached
  <2> QED
    BY <2>5, <2>6 DEF CacheInv
<1> QED
  BY <1>1, <1>2, <1>3, <1>4, <1>5 DEF Caller

LEMMA CacheFinish ==
  ASSUME TypeInv, CacheInv, FinishQuery \/ CloseLoop, faults \subseteq faults'
  PROVE  CacheInv'
<1>1. CASE Finish \/ FinishHarvestThrows
  BY <1>1, CacheUnpins DEF Finish, FinishHarvestThrows, Forget
<1>2. CASE FinishTraceThrows
  <2>1. CASE pc = "search"
    BY <1>2, <2>1, CacheSame DEF FinishTraceThrows, query
  <2>2. CASE pc # "search"
    <3>1. UNCHANGED cache /\ pinned' = {} /\ "trace" \in faults'
      BY <1>2, <2>2 DEF FinishTraceThrows, Forget, Fault
    <3> QED
      BY <3>1 DEF CacheInv, CacheType, PinInv, cache
  <2> QED
    BY <2>1, <2>2
<1>3. CASE CloseLoop
  BY <1>3, CacheSame DEF CloseLoop, content, query
<1> QED
  BY <1>1, <1>2, <1>3 DEF FinishQuery

LEMMA CacheStep ==
  ASSUME TypeInv, CacheInv, CallStep, faults \subseteq faults'
  PROVE  CacheInv'
<1>1. ASSUME NEW p \in Pages, ScanHit(p) PROVE CacheInv'
  BY <1>1, CacheSame DEF ScanHit, Taken, cache
<1>2. ASSUME NEW p \in Pages, ScanReady(p) PROVE CacheInv'
  BY <1>2, CacheKeeps DEF ScanReady, Taken
<1>3. ASSUME NEW p \in Pages,
             ScanMissing(p) \/ ScanWait(p) \/ ScanWaitFails(p) \/ QueueRequest(p)
      PROVE  CacheInv'
  BY <1>3, CacheSame
  DEF ScanMissing, ScanWait, ScanWaitFails, QueueRequest, Throw, content, query
<1>4. CASE ScanEnd \/ ScanEndFails \/ Chunk \/ ChunkFails \/ AwaitFails \/ DemandEnd
  BY <1>4, CacheSame
  DEF ScanEnd, ScanEndFails, Chunk, ChunkFails, AwaitFails, DemandEnd, Throw, content, query
<1>5. ASSUME NEW t \in Tokens, AwaitDemand(t) PROVE CacheInv'
  <2>1. batch[t] \in Pages
    BY <1>5, TypeOKParts DEF AwaitDemand, TypeInv, ContentType, TokensType
  <2> QED
    BY <1>5, <2>1, CacheKeeps DEF AwaitDemand
<1>6. ASSUME NEW t \in Tokens, AwaitOther(t) PROVE CacheInv'
  BY <1>6, CacheSame DEF AwaitOther, query
<1>7. CASE FlushRequests \/ PlanEnd \/ PlanFails
  BY <1>7, CacheSame DEF FlushRequests, PlanEnd, PlanFails, Throw, content, query
<1> QED
  BY <1>1, <1>2, <1>3, <1>4, <1>5, <1>6, <1>7, CacheFinish DEF CallStep

LEMMA CacheNext ==
  ASSUME TypeInv, [Next]_vars
  PROVE  CacheInv'
<1>1. CacheInv /\ faults \subseteq faults'
  BY ReaderNext, TypeOKParts DEF TypeInv, CacheInv
<1>2. CASE Kernel
  BY <1>1, <1>2, CacheSame DEF Kernel, content, query
<1>3. CASE Caller
  BY <1>1, <1>3, CacheCaller
<1>4. CASE CallStep
  BY <1>1, <1>4, CacheStep
<1>5. CASE FinishQuery
  BY <1>1, <1>5, CacheFinish
<1>6. CASE UNCHANGED vars
  BY <1>1, <1>6, CacheSame DEF vars, content, query
<1> QED
  BY <1>2, <1>3, <1>4, <1>5, <1>6 DEF Next

-----------------------------------------------------------------------------
\* Theorems.

LEMMA TypeInvInit == Init => TypeInv
<1> SUFFICES ASSUME Init PROVE TypeInv
  OBVIOUS
<1>1. /\ reads = << >> /\ free = Depth /\ faults = {} /\ pins = << >>
      /\ capacity \in Capacities /\ pc = "idle" /\ NoCall /\ NoContent
  BY DEF Init, ReaderInit
<1>2. Depth \in Nat /\ capacity \in Nat
  BY <1>1, ReaderAssumption, SessionAssumption
<1>3. DOMAIN reads = {} /\ DOMAIN pins = {} /\ Cardinality({}) = 0
  BY <1>1, EmptyFunction, FS_EmptySet
<1>4. ReaderTypeOK /\ BuffersConserved
  BY <1>1, <1>2, <1>3, EmptyFunction DEF ReaderTypeOK, BuffersConserved
<1>5. CacheType
  BY <1>1, <1>2, <1>3, EmptyFunction DEF CacheType
<1>6. ContentType
  BY <1>1, EmptyTokens DEF NoCall, NoContent, ContentType, SetsType
<1>7. CallInv
  BY <1>1 DEF CallInv
<1>8. PinInv
  BY <1>1, <1>3 DEF PinInv, NoContent, Cached
<1> QED
  BY <1>4, <1>5, <1>6, <1>7, <1>8, TypeOKParts DEF TypeInv

LEMMA TypeInvNext == TypeInv /\ [Next]_vars => TypeInv'
<1> SUFFICES ASSUME TypeInv, [Next]_vars PROVE TypeInv'
  OBVIOUS
<1>1. ReaderTypeOK' /\ BuffersConserved'
  BY ReaderNext DEF ReaderInv
<1>2. ContentType' /\ CallInv'
  BY ContentNext, CallInvNext
<1>3. CacheType' /\ PinInv'
  BY CacheNext DEF CacheInv
<1>4. TypeOK'
  BY <1>1, <1>2, <1>3 DEF TypeOK, CacheType, ContentType, SetsType, TokensType
<1> QED
  BY <1>1, <1>2, <1>3, <1>4 DEF TypeInv

LEMMA SpecTypeInv == Spec => []TypeInv
BY TypeInvInit, TypeInvNext, PTL DEF Spec

\* Every variable keeps its type: above all a pin count never goes below
\* zero, the cache never grows beyond its capacity, and the pool never holds
\* more buffers than it began with.
THEOREM SessionTypeCorrect == Spec => []TypeOK
<1>1. TypeInv => TypeOK
  BY DEF TypeInv
<1> QED
  BY <1>1, SpecTypeInv, PTL

\* Whatever completes first and whatever fails, batch_submit half way and
\* close_native included: a buffer is free or belongs to exactly one read.
THEOREM BuffersStay == Spec => []BuffersConserved
<1>1. TypeInv => BuffersConserved
  BY DEF TypeInv
<1> QED
  BY <1>1, SpecTypeInv, PTL

\* No eviction takes a page the query has pinned, and every end of a query
\* undoes its pins, unless the prefetch trace cannot be written.
THEOREM PinsMatch == Spec => []PinsMatchQuery
<1>1. TypeInv => PinsMatchQuery
  BY DEF TypeInv, PinInv, PinsMatchQuery
<1> QED
  BY <1>1, SpecTypeInv, PTL

-----------------------------------------------------------------------------
\* The places of a query's pages: the invariant.

\* No page is in two places at once.  While single pages are demanded, one
\* that was materialized and evicted may be demanded again.
PlaceInv ==
  LET held     == owned \cup Cached
      demanded == missing \cup Range(batch)
  IN  /\ IsInjective(pending) /\ IsInjective(batch)
      /\ Range(pending) \cap (ready \cup held \cup materialized) = {}
      /\ Range(pending) \cap (demanded \cup requests) = {}
      /\ ready \cap (held \cup materialized \cup demanded \cup requests) = {}
      /\ held \cap (demanded \cup requests) = {}
      /\ materialized \cap requests = {}
      /\ ~single => materialized \cap demanded = {}
      /\ missing \cap Range(batch) = {}

\* Every page asked for so far is materialized or still on its way through
\* the call.
ArriveInv ==
  /\ pc \in {"search", "plan"} => materialized = visited
  /\ pc \in {"scan", "chunk", "await"} =>
       visited = materialized \cup todo \cup missing \cup Range(batch)

SafeInv == PlaceInv /\ CompletionsMatch /\ ArriveInv /\ FootprintWithinBudget

-----------------------------------------------------------------------------
\* Ranges and limits.

LEMMA RangeEmpty == Range(<< >>) = {} /\ IsInjective(<< >>)
BY EmptyFunction DEF Range, IsInjective

LEMMA RangeFinite ==
  ASSUME NEW f, TokensType(f)
  PROVE  /\ Range(f) \subseteq Pages /\ IsFiniteSet(Range(f))
         /\ Cardinality(Range(f)) \in Nat
<1>1. Range(f) \subseteq Pages
  BY DEF TokensType, Range
<1> QED
  BY <1>1, PagesFinite

LEMMA MinOfTwo ==
  ASSUME NEW a \in Int, NEW b \in Int
  PROVE  Min({a, b}) = IF a <= b THEN a ELSE b
<1> DEFINE m == IF a <= b THEN a ELSE b
<1>1. m \in {a, b} /\ \A y \in {a, b} : m =< y
  OBVIOUS
<1>2. \A x \in {a, b} : (\A y \in {a, b} : x =< y) => x = m
  OBVIOUS
<1> QED
  BY <1>1, <1>2 DEF Min

LEMMA Limits ==
  /\ Reserve \in Nat /\ Budget \in Nat /\ Depth \in Nat
  /\ Budget + Reserve <= Depth
<1>1. /\ Depth \in Nat /\ Depth >= 1 /\ BatchSize \in Nat /\ BatchSize >= 1
      /\ PrefetchPages \in Nat
  BY ReaderAssumption, SessionAssumption
<1>2. /\ Depth \div 2 \in Nat /\ Depth \div 2 <= Depth
      /\ Depth > 1 => Depth \div 2 < Depth
  BY <1>1
<1>3. Reserve \in Nat /\ (Depth > 1 => Reserve < Depth) /\ Reserve <= Depth
  BY <1>1, <1>2, MinOfTwo DEF Reserve
<1>4. Budget \in Nat /\ (Depth > Reserve => Budget <= Depth - Reserve)
      /\ (Depth <= Reserve => Budget = 0)
  BY <1>1, <1>3, MinOfTwo DEF Budget
<1> QED
  BY <1>1, <1>3, <1>4

\* The sizes that make up a footprint.
LEMMA Sizes ==
  ASSUME TypeInv
  PROVE  /\ Cardinality(Range(pending)) \in Nat /\ IsFiniteSet(Range(pending))
         /\ Cardinality(ready) \in Nat /\ IsFiniteSet(ready)
         /\ Cardinality(requests) \in Nat /\ IsFiniteSet(requests)
<1>1. TokensType(pending) /\ ready \in SUBSET Pages /\ requests \in SUBSET Pages
  BY TypeOKParts DEF TypeInv, ContentType, SetsType
<1> QED
  BY <1>1, RangeFinite, PagesFinite

-----------------------------------------------------------------------------
\* Steps that move nothing, and the ends of calls and queries.

Resting == TypeInv /\ pc \in {"idle", "closing"}

LEMMA SafeIdle == Resting => SafeInv
<1> SUFFICES ASSUME TypeInv, pc \in {"idle", "closing"} PROVE SafeInv
  BY DEF Resting
<1>1. NoCall /\ NoContent
  BY DEF TypeInv, CallInv
<1>2. /\ pending = << >> /\ batch = << >> /\ ready = {} /\ owned = {}
      /\ materialized = {} /\ missing = {} /\ requests = {}
  BY <1>1 DEF NoCall, NoContent
<1>3. PlaceInv
  BY <1>2, RangeEmpty DEF PlaceInv
<1>4. CompletionsMatch
  BY <1>2, EmptyFunction DEF CompletionsMatch
<1>5. FootprintWithinBudget
  BY <1>2, RangeEmpty, FS_EmptySet, Limits DEF FootprintWithinBudget, Footprint
<1> QED
  BY <1>3, <1>4, <1>5 DEF SafeInv, ArriveInv

LEMMA SafeIdleNext ==
  ASSUME TypeInv', pc' \in {"idle", "closing"}
  PROVE  SafeInv'
<1>1. Resting' => SafeInv'
  BY SafeIdle, PTL
<1> QED
  BY <1>1 DEF Resting

LEMMA SafeThrow ==
  ASSUME TypeInv, SafeInv, Throw
  PROVE  SafeInv'
<1>1. /\ pc' = "failed" /\ single' = FALSE /\ missing' = {} /\ requests' = {}
      /\ batch' = << >> /\ UNCHANGED <<pending, ready, owned, materialized, pins>>
  BY DEF Throw, content, query, cache
<1>2. PlaceInv'
  BY <1>1, RangeEmpty DEF SafeInv, PlaceInv, Cached
<1>3. FootprintWithinBudget'
  BY <1>1, FS_EmptySet, Sizes, Limits DEF SafeInv, FootprintWithinBudget, Footprint, Budget, Reserve
<1> QED
  BY <1>1, <1>2, <1>3 DEF SafeInv, CompletionsMatch, ArriveInv

-----------------------------------------------------------------------------
\* Pages that move from pending to ready.

\* Prefetches arrive: pages leave pending, and nothing but some of them
\* enters ready.
Arrive ==
  /\ Range(pending') \subseteq Range(pending) /\ IsInjective(pending')
  /\ ready' \ ready \subseteq Range(pending) \ Range(pending')
  /\ DOMAIN pending' \subseteq DOMAIN pending
  /\ \A t \in DOMAIN pending' : pending'[t] = pending[t]

LEMMA ConsumeArrives ==
  ASSUME NEW ts, TokensType(pending), IsInjective(pending), Consume(ts)
  PROVE  Arrive /\ DOMAIN pending' = DOMAIN pending \ ts
<1>1. /\ DOMAIN pending' = DOMAIN pending \ ts
      /\ \A t \in DOMAIN pending' : pending'[t] = pending[t]
  BY ConsumeMoves, Zenon
<1>2. PICK kept : /\ ready' = ready \cup kept
                  /\ \A p \in kept : /\ ~Available(p)
                                     /\ \E t \in DOMAIN pending \cap ts : pending[t] = p
  BY ConsumeMoves, Zenon
<1>3. Range(pending') \subseteq Range(pending) /\ IsInjective(pending')
  BY <1>1 DEF Range, IsInjective
<1>4. kept \subseteq Range(pending) \ Range(pending')
  BY <1>1, <1>2 DEF Range, IsInjective
<1> QED
  BY <1>1, <1>2, <1>3, <1>4 DEF Arrive

LEMMA HarvestArrives ==
  ASSUME TypeInv, IsInjective(pending), Harvest
  PROVE  /\ Arrive
         /\ \/ UNCHANGED <<reads, pending>>
            \/ /\ ReadsAre(DOMAIN reads \ At("done"))
               /\ DOMAIN pending' = DOMAIN pending \ At("done")
<1>1. TokensType(pending) /\ ReaderInv
  BY TypeOKParts DEF TypeInv, ContentType, ReaderInv
<1>2. CASE Prefetching
  BY <1>1, <1>2, ConsumeArrives, HarvestAllKeeps DEF Harvest
<1>3. CASE ~Prefetching
  BY <1>3 DEF Harvest, Arrive, reader
<1> QED
  BY <1>2, <1>3

\* An arrival keeps the footprint: what ready gains, pending has lost.
LEMMA ArriveFootprint ==
  ASSUME TypeInv, Arrive
  PROVE  /\ Cardinality(Range(pending')) \in Nat /\ Cardinality(ready') \in Nat
         /\ Footprint' <= Footprint
<1> DEFINE P == Range(pending)
           Q == Range(pending')
           kept == ready' \ ready
<1>1. /\ IsFiniteSet(P) /\ Cardinality(P) \in Nat
      /\ IsFiniteSet(ready) /\ Cardinality(ready) \in Nat
  BY Sizes
<1>2. Q \subseteq P /\ kept \subseteq P \ Q
  BY DEF Arrive
<1> HIDE DEF P, Q, kept
<1>3. /\ IsFiniteSet(Q) /\ Cardinality(Q) \in Nat /\ P \cap Q = Q
      /\ IsFiniteSet(P \ Q) /\ Cardinality(P \ Q) \in Nat
  BY <1>1, <1>2, FS_Subset, FS_CardinalityType, FS_Difference
<1>4. Cardinality(P \ Q) = Cardinality(P) - Cardinality(Q)
  BY <1>1, <1>3, FS_Difference
<1>5. IsFiniteSet(kept) /\ Cardinality(kept) \in Nat /\ Cardinality(kept) <= Cardinality(P \ Q)
  BY <1>2, <1>3, FS_Subset, FS_CardinalityType
<1>6. /\ IsFiniteSet(ready \cup kept) /\ Cardinality(ready \cup kept) \in Nat
      /\ Cardinality(ready \cup kept) <= Cardinality(ready) + Cardinality(kept)
  <2>1. /\ IsFiniteSet(ready \cup kept)
        /\ Cardinality(ready \cup kept)
             = Cardinality(ready) + Cardinality(kept) - Cardinality(ready \cap kept)
    BY <1>1, <1>5, FS_Union
  <2>2. Cardinality(ready \cap kept) \in Nat
    BY <1>1, FS_Intersection, FS_CardinalityType
  <2>3. Cardinality(ready \cup kept) \in Nat
    BY <2>1, FS_CardinalityType
  <2> QED
    BY <1>1, <1>5, <2>1, <2>2, <2>3
<1>7. ready' \subseteq ready \cup kept
  BY DEF kept
<1>8. Cardinality(ready') \in Nat /\ Cardinality(ready') <= Cardinality(ready \cup kept)
  BY <1>6, <1>7, FS_Subset, FS_CardinalityType
<1> QED
  BY <1>1, <1>3, <1>4, <1>5, <1>6, <1>8 DEF Footprint, P, Q

\* An arrival brings no page into two places.
LEMMA ArrivePlaces ==
  ASSUME PlaceInv, Arrive,
         UNCHANGED <<owned, pins, materialized, missing, batch, requests, single>>
  PROVE  PlaceInv'
<1>1. /\ Range(pending') \subseteq Range(pending) /\ IsInjective(pending')
      /\ ready' \ ready \subseteq Range(pending) \ Range(pending')
  BY DEF Arrive
<1>2. Cached' = Cached
  BY DEF Cached
<1> QED
  BY <1>1, <1>2 DEF PlaceInv

\* Tokens go on naming the reads that are left.
Matches(f) == \A t \in DOMAIN f : t \in DOMAIN reads /\ reads[t].page = f[t]

LEMMA CompletionsParts ==
  CompletionsMatch <=> (pc # "failed" => Matches(pending) /\ Matches(batch))
BY DEF CompletionsMatch, Matches

LEMMA CompletionsPartsNext ==
  CompletionsMatch' <=> (pc' # "failed" => Matches(pending)' /\ Matches(batch)')
BY DEF CompletionsMatch, Matches

\* What a step that only harvests keeps.
LEMMA HarvestSafe ==
  ASSUME TypeInv, SafeInv, Harvest, pc # "failed", batch = << >>,
         UNCHANGED <<owned, pins, materialized, missing, batch, requests, single>>
  PROVE  PlaceInv' /\ CompletionsMatch' /\ FootprintWithinBudget'
<1>1. /\ Arrive
      /\ \/ UNCHANGED <<reads, pending>>
         \/ /\ ReadsAre(DOMAIN reads \ At("done"))
            /\ DOMAIN pending' = DOMAIN pending \ At("done")
  BY HarvestArrives DEF SafeInv, PlaceInv
<1>2. PlaceInv'
  BY <1>1, ArrivePlaces DEF SafeInv
<1>3. FootprintWithinBudget'
  <2>1. Footprint' <= Footprint /\ Footprint' \in Nat /\ Footprint \in Nat
    BY <1>1, ArriveFootprint, Sizes DEF Footprint
  <2>2. Cardinality(requests') = Cardinality(requests) /\ Cardinality(requests) \in Nat
    BY Sizes
  <2>3. Budget \in Nat /\ Budget' = Budget
    BY Limits DEF Budget, Reserve
  <2> QED
    BY <2>1, <2>2, <2>3 DEF SafeInv, FootprintWithinBudget
<1>4. Matches(pending)
  BY CompletionsParts DEF SafeInv
<1>5. Matches(pending)'
  <2>1. CASE UNCHANGED <<reads, pending>>
    BY <1>4, <2>1 DEF Matches
  <2>2. CASE /\ ReadsAre(DOMAIN reads \ At("done"))
             /\ DOMAIN pending' = DOMAIN pending \ At("done")
    <3>1. /\ \A t \in DOMAIN pending' : pending'[t] = pending[t]
          /\ DOMAIN pending' \subseteq DOMAIN reads \ At("done")
      BY <1>1, <1>4, <2>2 DEF Arrive, Matches
    <3> QED
      BY <1>4, <2>2, <3>1 DEF Matches, ReadsAre
  <2> QED
    BY <1>1, <2>1, <2>2
<1>6. Matches(batch)'
  BY EmptyFunction DEF Matches
<1> QED
  BY <1>2, <1>3, <1>5, <1>6, CompletionsPartsNext

-----------------------------------------------------------------------------
\* The actions.

\* Steps that leave every page where it is.
LEMMA SamePlaces ==
  ASSUME SafeInv,
         UNCHANGED <<pending, ready, owned, materialized, missing, batch, requests>>,
         Cached' = Cached, UNCHANGED reads \/ ReadsAre(DOMAIN reads),
         pc = "failed" => pc' = "failed",
         single' = single \/ missing \cup Range(batch) = {}
  PROVE  PlaceInv' /\ CompletionsMatch' /\ FootprintWithinBudget'
<1>1. PlaceInv'
  BY DEF SafeInv, PlaceInv
<1>2. CompletionsMatch'
  <2>1. /\ DOMAIN reads' = DOMAIN reads
        /\ \A t \in DOMAIN reads : reads'[t].page = reads[t].page
    BY DEF ReadsAre
  <2>2. pc' # "failed" => Matches(pending)' /\ Matches(batch)'
    BY <2>1, CompletionsParts DEF SafeInv, Matches
  <2> QED
    BY <2>2, CompletionsPartsNext
<1>3. FootprintWithinBudget'
  BY DEF SafeInv, FootprintWithinBudget, Footprint, Budget, Reserve
<1> QED
  BY <1>1, <1>2, <1>3

LEMMA HeldNothing ==
  ASSUME TypeInv
  PROVE  /\ pc \notin {"scan", "chunk", "await", "plan"} =>
              missing = {} /\ requests = {} /\ batch = << >> /\ Range(batch) = {} /\ todo = {} /\ single = FALSE
         /\ pc = "scan" => batch = << >> /\ Range(batch) = {} /\ requests = {}
         /\ pc = "chunk" => batch = << >> /\ Range(batch) = {} /\ requests = {} /\ todo = {}
         /\ pc = "await" => requests = {} /\ todo = {}
         /\ pc = "plan" => batch = << >> /\ Range(batch) = {} /\ missing = {} /\ single = FALSE
BY RangeEmpty DEF TypeInv, CallInv, NoCall

LEMMA SafeKernel ==
  ASSUME TypeInv, SafeInv, Kernel
  PROVE  SafeInv'
<1>1. PICK t \in Tokens : Complete(t) \/ CompleteBad(t)
  BY DEF Kernel
<1>2. UNCHANGED <<cache, pc, call, content>>
  BY DEF Kernel
<1>3. ReadsAre(DOMAIN reads)
  BY <1>1, KernelKeeps DEF TypeInv, TypeOK, ReaderInv
<1>4. Cached' = Cached
  BY <1>2 DEF cache, Cached
<1>5. PlaceInv' /\ CompletionsMatch' /\ FootprintWithinBudget'
  BY <1>2, <1>3, <1>4, SamePlaces DEF call, content, query
<1>6. ArriveInv'
  BY <1>2 DEF SafeInv, ArriveInv, call, content, query
<1> QED
  BY <1>5, <1>6 DEF SafeInv

\* A query begins with nothing.
LEMMA SafeBegin ==
  ASSUME TypeInv, SafeInv, Begin
  PROVE  SafeInv'
<1>1. pc = "idle" /\ pc' = "search" /\ UNCHANGED <<reader, cache, call, content>>
  BY DEF Begin
<1>2. Cached' = Cached
  BY <1>1 DEF cache, Cached
<1>3. PlaceInv' /\ CompletionsMatch' /\ FootprintWithinBudget'
  BY <1>1, <1>2, SamePlaces DEF reader, call, content, query
<1>4. ArriveInv'
  BY <1>1 DEF TypeInv, CallInv, NoContent, ArriveInv, content, query
<1> QED
  BY <1>3, <1>4 DEF SafeInv

LEMMA SafeDemand ==
  ASSUME TypeInv, SafeInv, NEW ps, NEW one, Demand(ps, one)
  PROVE  SafeInv'
<1>1. missing = {} /\ Range(batch) = {} /\ pc = "search"
  BY HeldNothing DEF Demand
<1>2. Cached' = Cached
  BY DEF Demand, cache, Cached
<1>3. PlaceInv' /\ CompletionsMatch' /\ FootprintWithinBudget'
  BY <1>1, <1>2, SamePlaces DEF Demand, reader
<1>4. ArriveInv'
  BY <1>1 DEF Demand, SafeInv, ArriveInv
<1> QED
  BY <1>3, <1>4 DEF SafeInv

LEMMA SafeSubmit ==
  ASSUME TypeInv, SafeInv, NEW ps, Submit(ps)
  PROVE  SafeInv'
<1>1. Cached' = Cached /\ pc = "search" /\ pc' \in {"search", "plan"}
  BY DEF Submit, cache, Cached
<1>2. PlaceInv' /\ CompletionsMatch' /\ FootprintWithinBudget'
  BY <1>1, SamePlaces DEF Submit, reader
<1>3. ArriveInv'
  BY <1>1 DEF Submit, SafeInv, ArriveInv
<1> QED
  BY <1>2, <1>3 DEF SafeInv

LEMMA SafePin ==
  ASSUME TypeInv, SafeInv, NEW p, PinPage(p)
  PROVE  SafeInv'
<1>1. Cached' = Cached /\ pc = "search" /\ pc' = "search"
  BY DEF PinPage, Cached, TypeInv, TypeOK
<1>2. PlaceInv' /\ CompletionsMatch' /\ FootprintWithinBudget'
  BY <1>1, SamePlaces DEF PinPage, reader, call
<1>3. ArriveInv'
  BY <1>1 DEF PinPage, call, SafeInv, ArriveInv
<1> QED
  BY <1>2, <1>3 DEF SafeInv

\* The chunks are done: nothing is missing any more.
LEMMA SafeDemandEnd ==
  ASSUME TypeInv, SafeInv, DemandEnd
  PROVE  SafeInv'
<1>1. /\ pc = "chunk" /\ pc' = "search" /\ missing = {}
      /\ UNCHANGED <<reader, cache, todo, missing, requests, batch, content>>
  BY DEF DemandEnd
<1>2. Range(batch) = {} /\ todo = {}
  BY <1>1, HeldNothing
<1>3. Cached' = Cached
  BY <1>1 DEF cache, Cached
<1>4. PlaceInv' /\ CompletionsMatch' /\ FootprintWithinBudget'
  BY <1>1, <1>2, <1>3, SamePlaces DEF reader, content, query
<1>5. ArriveInv'
  BY <1>1, <1>2 DEF SafeInv, ArriveInv, content, query
<1> QED
  BY <1>4, <1>5 DEF SafeInv

\* Steps that only harvest.
LEMMA SafeHarvest ==
  ASSUME TypeInv, SafeInv,
         \/ ScanEnd \/ PlanEnd \/ Drain \/ \E p \in Pages : ScanWait(p)
  PROVE  SafeInv'
<1>1. CASE ScanEnd
  <2>1. /\ pc = "scan" /\ pc' = "chunk" /\ todo = {}
        /\ UNCHANGED <<cache, call, query>>
    BY <1>1 DEF ScanEnd
  <2>2. batch = << >>
    BY <2>1, HeldNothing
  <2>3. CASE single
    <3>1. UNCHANGED <<reader, pending, ready>> /\ Cached' = Cached
      BY <1>1, <2>1, <2>3 DEF ScanEnd, cache, Cached
    <3> QED
      BY <2>1, <3>1, SamePlaces DEF reader, call, query, SafeInv, ArriveInv
  <2>4. CASE ~single
    <3>1. Harvest
      BY <1>1, <2>4 DEF ScanEnd
    <3>2. PlaceInv' /\ CompletionsMatch' /\ FootprintWithinBudget'
      BY <2>1, <2>2, <3>1, HarvestSafe DEF cache, call, query
    <3> QED
      BY <2>1, <3>2 DEF call, query, SafeInv, ArriveInv
  <2> QED
    BY <2>3, <2>4
<1>2. CASE PlanEnd
  <2>1. /\ pc = "plan" /\ pc' = "search" /\ Harvest
        /\ UNCHANGED <<cache, call, query>>
    BY <1>2 DEF PlanEnd
  <2>2. batch = << >>
    BY <2>1, HeldNothing
  <2>3. PlaceInv' /\ CompletionsMatch' /\ FootprintWithinBudget'
    BY <2>1, <2>2, HarvestSafe DEF cache, call, query
  <2> QED
    BY <2>1, <2>3 DEF call, query, SafeInv, ArriveInv
<1>3. CASE Drain
  <2>1. /\ pc = "search" /\ pc' = "search" /\ Harvest
        /\ UNCHANGED <<cache, call, query>>
    BY <1>3 DEF Drain
  <2>2. batch = << >>
    BY <2>1, HeldNothing
  <2>3. PlaceInv' /\ CompletionsMatch' /\ FootprintWithinBudget'
    BY <2>1, <2>2, HarvestSafe DEF cache, call, query
  <2> QED
    BY <2>1, <2>3 DEF call, query, SafeInv, ArriveInv
<1>4. ASSUME NEW p \in Pages, ScanWait(p) PROVE SafeInv'
  <2>1. /\ pc = "scan" /\ pc' = "scan" /\ Harvest
        /\ UNCHANGED <<cache, call, query>>
    BY <1>4 DEF ScanWait, MustWait
  <2>2. batch = << >>
    BY <2>1, HeldNothing
  <2>3. PlaceInv' /\ CompletionsMatch' /\ FootprintWithinBudget'
    BY <2>1, <2>2, HarvestSafe DEF cache, call, query
  <2> QED
    BY <2>1, <2>3 DEF call, query, SafeInv, ArriveInv
<1> QED
  BY <1>1, <1>2, <1>3, <1>4

-----------------------------------------------------------------------------
\* Pages that are scanned.

LEMMA SafeScanHit ==
  ASSUME TypeInv, SafeInv, NEW p, ScanHit(p)
  PROVE  SafeInv'
<1>1. /\ pc = "scan" /\ p \in todo /\ AtHand(p) /\ pc' = pc
      /\ todo' = todo \ {p} /\ materialized' = materialized \cup {p}
      /\ UNCHANGED <<reads, pins, pending, ready, owned, missing, batch, requests,
                     single, visited>>
  BY DEF ScanHit, Taken, reader
<1>2. Cached' = Cached
  BY <1>1 DEF Cached
<1>3. p \in owned \cup Cached \/ p \in materialized
  BY <1>1 DEF AtHand
<1>4. requests = {}
  BY <1>1, HeldNothing
<1>5. PlaceInv'
  BY <1>1, <1>2, <1>3, <1>4 DEF SafeInv, PlaceInv
<1>6. ArriveInv'
  BY <1>1 DEF SafeInv, ArriveInv
<1>7. CompletionsMatch' /\ FootprintWithinBudget'
  BY <1>1 DEF SafeInv, CompletionsMatch, FootprintWithinBudget, Footprint, Budget, Reserve
<1> QED
  BY <1>5, <1>6, <1>7 DEF SafeInv

\* take_ready_prefetch_page
LEMMA SafeScanReady ==
  ASSUME TypeInv, SafeInv, NEW p \in Pages, ScanReady(p)
  PROVE  SafeInv'
<1>1. /\ pc = "scan" /\ p \in todo /\ p \in ready /\ pc' = pc /\ Keep(p)
      /\ ready' = ready \ {p} /\ todo' = todo \ {p}
      /\ materialized' = materialized \cup {p}
      /\ UNCHANGED <<reads, capacity, pending, missing, batch, requests, single, visited>>
  BY DEF ScanReady, Taken, reader
<1>2. owned' \subseteq owned \cup {p} /\ Cached' \subseteq Cached \cup {p}
  BY <1>1, KeepMoves, TypeOKParts DEF TypeInv
<1>3. PlaceInv'
  BY <1>1, <1>2 DEF SafeInv, PlaceInv
<1>4. ArriveInv'
  BY <1>1 DEF SafeInv, ArriveInv
<1>5. CompletionsMatch'
  BY <1>1 DEF SafeInv, CompletionsMatch
<1>6. FootprintWithinBudget'
  <2>1. /\ Cardinality(ready') = Cardinality(ready) - 1
        /\ Range(pending') = Range(pending)
    BY <1>1, Sizes, FS_RemoveElement
  <2> QED
    BY <1>1, <2>1, Sizes, Limits
    DEF SafeInv, FootprintWithinBudget, Footprint, Budget, Reserve
<1> QED
  BY <1>3, <1>4, <1>5, <1>6 DEF SafeInv

LEMMA SafeScanMissing ==
  ASSUME TypeInv, SafeInv, NEW p, ScanMissing(p)
  PROVE  SafeInv'
<1>1. /\ pc = "scan" /\ p \in todo /\ ~AtHand(p) /\ pc' = pc
      /\ p \notin ready \cup Range(pending)
      /\ todo' = todo \ {p} /\ missing' = missing \cup {p}
      /\ UNCHANGED <<reads, pins, pending, ready, owned, materialized, batch,
                     requests, single, visited>>
  BY DEF ScanMissing, reader, cache, content, query
<1>2. Cached' = Cached
  BY <1>1 DEF Cached
<1>3. p \notin owned \cup Cached /\ (~single => p \notin materialized)
  BY <1>1 DEF AtHand
<1>4. Range(batch) = {}
  BY <1>1, HeldNothing
<1>5. PlaceInv'
  BY <1>1, <1>2, <1>3, <1>4 DEF SafeInv, PlaceInv
<1>6. ArriveInv'
  BY <1>1 DEF SafeInv, ArriveInv
<1>7. CompletionsMatch' /\ FootprintWithinBudget'
  BY <1>1 DEF SafeInv, CompletionsMatch, FootprintWithinBudget, Footprint, Budget, Reserve
<1> QED
  BY <1>5, <1>6, <1>7 DEF SafeInv

-----------------------------------------------------------------------------
\* Pages that are read on demand.

\* A chunk loses no page: none of the missing pages has become available.
LEMMA ChunkWanted ==
  ASSUME PlaceInv, NEW ps \in SUBSET missing
  PROVE  Wanted(ps) = ps
<1>1. CASE single
  BY <1>1 DEF Wanted
<1>2. CASE ~single
  <2>1. \A p \in ps : ~Available(p)
    BY <1>2 DEF PlaceInv, Available
  <2> QED
    BY <1>2, <2>1 DEF Wanted
<1> QED
  BY <1>1, <1>2

LEMMA SafeChunk ==
  ASSUME TypeInv, SafeInv, Chunk
  PROVE  SafeInv'
<1>1. PICK ps \in NextChunk :
        /\ BatchSubmit(Wanted(ps)) /\ batch' = NewTokens(Wanted(ps))
        /\ missing' = missing \ ps
        /\ pc' = IF Wanted(ps) = {} THEN "chunk" ELSE "await"
  BY DEF Chunk
<1>2. /\ pc = "chunk"
      /\ UNCHANGED <<pins, single, todo, requests, pending, ready, owned,
                     materialized, visited>>
  BY DEF Chunk, cache, content, query
<1>3. ps \in SUBSET missing /\ ps \in SUBSET Pages
  BY WantedPages DEF TypeInv
<1>4. Wanted(ps) = ps
  BY <1>3, ChunkWanted DEF SafeInv
<1>5. batch' = NewTokens(ps)
  BY <1>1, <1>4
<1>6. /\ ReadsAre(DOMAIN reads \cup DOMAIN batch')
      /\ \A t \in DOMAIN batch' : reads'[t].page = batch'[t]
      /\ DOMAIN batch' \cap DOMAIN reads = {}
      /\ IsInjective(batch') /\ Range(batch') = ps
  <2>1. ReaderInv /\ BatchSubmit(ps)
    BY <1>1, <1>4 DEF TypeInv, TypeOK, ReaderInv
  <2>2. LET new == NewTokens(ps)
        IN  /\ ReadsAre(DOMAIN reads \cup DOMAIN new)
            /\ \A t \in DOMAIN new : reads'[t].page = new[t]
            /\ DOMAIN new \subseteq Tokens \ DOMAIN reads
            /\ IsInjective(new) /\ Range(new) = ps
    BY <1>3, <2>1, BatchSubmitKeeps
  <2> QED
    BY <1>5, <2>2
<1>7. Range(batch) = {} /\ todo = {}
  BY <1>2, HeldNothing
<1>8. Cached' = Cached
  BY <1>2 DEF Cached
<1>9. PlaceInv'
  <2>1. missing' \cup Range(batch') = missing \cup Range(batch)
    BY <1>1, <1>3, <1>6, <1>7
  <2> QED
    BY <1>1, <1>2, <1>6, <1>8, <2>1 DEF SafeInv, PlaceInv
<1>10. CompletionsMatch'
  <2>1. Matches(pending)
    BY <1>2, CompletionsParts DEF SafeInv
  <2>2. Matches(pending)'
    BY <1>2, <1>6, <2>1 DEF Matches, ReadsAre
  <2>3. Matches(batch)'
    BY <1>6 DEF Matches, ReadsAre
  <2> QED
    BY <2>2, <2>3, CompletionsPartsNext
<1>11. ArriveInv'
  <2>1. missing' \cup Range(batch') = missing \cup Range(batch)
    BY <1>1, <1>3, <1>6, <1>7
  <2>2. visited = materialized \cup todo \cup missing \cup Range(batch)
    BY <1>2 DEF SafeInv, ArriveInv
  <2>3. pc' \in {"chunk", "await"}
    BY <1>1
  <2> QED
    BY <1>2, <2>1, <2>2, <2>3 DEF ArriveInv
<1>12. FootprintWithinBudget'
  BY <1>2 DEF SafeInv, FootprintWithinBudget, Footprint, Budget, Reserve
<1> QED
  BY <1>9, <1>10, <1>11, <1>12 DEF SafeInv

\* A demanded page arrives: its token is none of a prefetch.
LEMMA SafeAwaitDemand ==
  ASSUME TypeInv, SafeInv, NEW t, AwaitDemand(t)
  PROVE  SafeInv'
<1> DEFINE p == batch[t]
<1>1. /\ pc = "await" /\ t \in DOMAIN batch /\ t \in DOMAIN reads
      /\ Reap({t}) /\ Keep(p) /\ materialized' = materialized \cup {p}
      /\ batch' = Without(batch, {t}) /\ pc' \in {"chunk", "await"}
      /\ UNCHANGED <<faults, capacity, single, todo, missing, requests, pending,
                     ready, visited>>
  BY DEF AwaitDemand, At
<1>2. requests = {}
  BY <1>1, HeldNothing
<1>3. p \in Pages /\ p \in Range(batch)
  BY <1>1, TypeOKParts DEF TypeInv, ContentType, TokensType, Range
<1>4. owned' \subseteq owned \cup {p} /\ Cached' \subseteq Cached \cup {p}
  BY <1>1, <1>3, KeepMoves, TypeOKParts DEF TypeInv
<1>5. /\ DOMAIN batch' = DOMAIN batch \ {t}
      /\ \A s \in DOMAIN batch' : batch'[s] = batch[s]
  <2>1. /\ DOMAIN Without(batch, {t}) = DOMAIN batch \ {t}
        /\ \A s \in DOMAIN batch \ {t} : Without(batch, {t})[s] = batch[s]
    BY WithoutReads, Zenon
  <2> QED
    BY <1>1, <2>1
<1>6. IsInjective(batch)
  BY DEF SafeInv, PlaceInv
<1>7. Range(batch') = Range(batch) \ {p} /\ IsInjective(batch')
  BY <1>1, <1>5, <1>6 DEF Range, IsInjective
<1>8. ReadsAre(DOMAIN reads \ {t})
  BY <1>1, ReapKeeps DEF TypeInv, TypeOK, ReaderInv
<1>9. Matches(pending) /\ Matches(batch)
  BY <1>1, CompletionsParts DEF SafeInv
<1>10. t \notin DOMAIN pending
  BY <1>1, <1>3, <1>9 DEF Matches, SafeInv, PlaceInv, Range
<1>11. PlaceInv'
  BY <1>1, <1>2, <1>3, <1>4, <1>7 DEF SafeInv, PlaceInv
<1>12. CompletionsMatch'
  <2>1. Matches(pending)'
    BY <1>1, <1>8, <1>9, <1>10 DEF Matches, ReadsAre
  <2>2. Matches(batch)'
    BY <1>5, <1>8, <1>9 DEF Matches, ReadsAre
  <2> QED
    BY <2>1, <2>2, CompletionsPartsNext
<1>13. ArriveInv'
  BY <1>1, <1>3, <1>7 DEF SafeInv, ArriveInv
<1>14. FootprintWithinBudget'
  BY <1>1 DEF SafeInv, FootprintWithinBudget, Footprint, Budget, Reserve
<1> QED
  BY <1>11, <1>12, <1>13, <1>14 DEF SafeInv

\* Anything else arrives: a prefetched page, or a read that an earlier query
\* left behind.
LEMMA SafeAwaitOther ==
  ASSUME TypeInv, SafeInv, NEW t, AwaitOther(t)
  PROVE  SafeInv'
<1>1. /\ pc = "await" /\ pc' = "await" /\ t \notin DOMAIN batch /\ t \in DOMAIN reads
      /\ Reap({t}) /\ Consume({t})
      /\ UNCHANGED <<faults, pins, single, todo, missing, requests, batch,
                     owned, materialized, visited>>
  BY DEF AwaitOther, At, cache, call, query
<1>2. Arrive /\ DOMAIN pending' = DOMAIN pending \ {t}
  BY <1>1, ConsumeArrives, TypeOKParts DEF TypeInv, ContentType, SafeInv, PlaceInv
<1>3. ReadsAre(DOMAIN reads \ {t})
  BY <1>1, ReapKeeps DEF TypeInv, TypeOK, ReaderInv
<1>4. Matches(pending) /\ Matches(batch)
  BY <1>1, CompletionsParts DEF SafeInv
<1>5. PlaceInv'
  BY <1>1, <1>2, ArrivePlaces DEF SafeInv
<1>6. CompletionsMatch'
  <2>1. Matches(pending)'
    BY <1>2, <1>3, <1>4 DEF Matches, ReadsAre, Arrive
  <2>2. Matches(batch)'
    BY <1>1, <1>3, <1>4 DEF Matches, ReadsAre
  <2> QED
    BY <2>1, <2>2, CompletionsPartsNext
<1>7. ArriveInv'
  BY <1>1 DEF SafeInv, ArriveInv
<1>8. FootprintWithinBudget'
  <2>1. Footprint' <= Footprint /\ Footprint' \in Nat /\ Footprint \in Nat
    BY <1>2, ArriveFootprint, Sizes DEF Footprint
  <2>2. Cardinality(requests') = Cardinality(requests) /\ Cardinality(requests) \in Nat
    BY <1>1, Sizes
  <2>3. Budget \in Nat /\ Budget' = Budget
    BY Limits DEF Budget, Reserve
  <2> QED
    BY <2>1, <2>2, <2>3 DEF SafeInv, FootprintWithinBudget
<1> QED
  BY <1>5, <1>6, <1>7, <1>8 DEF SafeInv

-----------------------------------------------------------------------------
\* Pages that are prefetched.

\* queue_prefetch_request adds a page only while the budget is not used up.
LEMMA SafeQueueRequest ==
  ASSUME TypeInv, SafeInv, NEW p \in Pages, QueueRequest(p)
  PROVE  SafeInv'
<1>1. /\ pc = "plan" /\ pc' = "plan"
      /\ UNCHANGED <<pins, single, missing, batch, owned, materialized, visited>>
  BY DEF QueueRequest, cache, query
<1>2. batch = << >> /\ missing = {} /\ Range(batch) = {}
  BY <1>1, HeldNothing
<1>3. ArriveInv'
  BY <1>1 DEF SafeInv, ArriveInv
<1>4. CASE requests' = requests /\ Harvest
  <2>1. PlaceInv' /\ CompletionsMatch' /\ FootprintWithinBudget'
    BY <1>1, <1>2, <1>4, HarvestSafe
  <2> QED
    BY <1>3, <2>1 DEF SafeInv
<1>5. CASE UNCHANGED <<reader, pending, ready, requests>>
  <2>1. Cached' = Cached
    BY <1>1 DEF Cached
  <2>2. PlaceInv' /\ CompletionsMatch' /\ FootprintWithinBudget'
    BY <1>1, <1>5, <2>1, SamePlaces DEF reader
  <2> QED
    BY <1>3, <2>2 DEF SafeInv
<1>6. CASE /\ UNCHANGED <<reader, pending, ready>> /\ ~BudgetFull
           /\ ~Available(p) /\ p \notin Range(pending)
           /\ requests' = requests \cup {p}
  <2>1. Cached' = Cached
    BY <1>1 DEF Cached
  <2>2. PlaceInv'
    BY <1>1, <1>2, <1>6, <2>1 DEF SafeInv, PlaceInv, Available
  <2>3. CompletionsMatch'
    BY <1>1, <1>6 DEF SafeInv, CompletionsMatch, reader
  <2>4. FootprintWithinBudget'
    <3>1. /\ Footprint \in Nat /\ Cardinality(requests) \in Nat /\ Budget \in Nat
          /\ Footprint' = Footprint /\ Budget' = Budget
      BY <1>6, Sizes, Limits DEF Footprint, Budget, Reserve
    <3>2. Cardinality(requests') <= Cardinality(requests) + 1 /\ Cardinality(requests') \in Nat
      <4>1. IsFiniteSet(requests) /\ Cardinality(requests) \in Nat
        BY Sizes
      <4>2. Cardinality(requests') =
              IF p \in requests THEN Cardinality(requests) ELSE Cardinality(requests) + 1
        BY <1>6, <4>1, FS_AddElement
      <4> QED
        BY <4>1, <4>2
    <3>3. Footprint + Cardinality(requests) < Budget
      BY <1>6, <3>1 DEF BudgetFull
    <3> QED
      BY <3>1, <3>2, <3>3 DEF FootprintWithinBudget
  <2> QED
    BY <1>3, <2>2, <2>3, <2>4 DEF SafeInv
<1>7. Budget \in Nat /\ Footprint \in Nat /\ Cardinality(requests) \in Nat
  BY Sizes, Limits DEF Footprint
<1>8. Budget = 0 => BudgetFull
  BY <1>7 DEF BudgetFull
<1> QED
  BY <1>4, <1>5, <1>6, <1>7, <1>8 DEF QueueRequest

\* flush_prefetch_requests turns the requests into reads with tokens of their
\* own.
LEMMA SafeFlushRequests ==
  ASSUME TypeInv, SafeInv, FlushRequests
  PROVE  SafeInv'
<1> DEFINE new == NewTokens(requests)
<1>1. /\ pc = "plan" /\ pc' = "plan" /\ requests' = {} /\ BatchSubmit(requests)
      /\ UNCHANGED <<pins, single, missing, batch, ready, owned, materialized, visited>>
      /\ pending' = [t \in DOMAIN pending \cup DOMAIN new |->
                       IF t \in DOMAIN new THEN new[t] ELSE pending[t]]
  BY DEF FlushRequests, cache, query
<1>2. batch = << >> /\ missing = {} /\ Range(batch) = {}
  BY <1>1, HeldNothing
<1>3. /\ ReadsAre(DOMAIN reads \cup DOMAIN new)
      /\ \A t \in DOMAIN new : reads'[t].page = new[t]
      /\ DOMAIN new \cap DOMAIN reads = {}
      /\ IsInjective(new) /\ Range(new) = requests
  <2>1. requests \in SUBSET Pages /\ ReaderInv
    BY DEF TypeInv, TypeOK, ReaderInv
  <2> QED
    BY <1>1, <2>1, BatchSubmitKeeps
<1>4. Matches(pending)
  BY <1>1, CompletionsParts DEF SafeInv
<1>5. DOMAIN new \cap DOMAIN pending = {}
  BY <1>3, <1>4 DEF Matches
<1>6. IsInjective(pending) /\ Range(pending) \cap requests = {}
  BY DEF SafeInv, PlaceInv
<1> HIDE DEF new
<1>7. /\ DOMAIN pending' = DOMAIN pending \cup DOMAIN new
      /\ \A t \in DOMAIN pending : pending'[t] = pending[t]
      /\ \A t \in DOMAIN new : pending'[t] = new[t]
  BY <1>1, <1>5
<1>8. Range(pending') = Range(pending) \cup requests
  BY <1>3, <1>7 DEF Range
<1>9. IsInjective(pending')
  BY <1>3, <1>6, <1>7 DEF Range, IsInjective
<1>10. PlaceInv'
  <2>1. Cached' = Cached
    BY <1>1 DEF Cached
  <2> QED
    BY <1>1, <1>2, <1>8, <1>9, <2>1 DEF SafeInv, PlaceInv
<1>11. CompletionsMatch'
  <2>1. Matches(pending)'
    BY <1>3, <1>4, <1>7 DEF Matches, ReadsAre
  <2>2. Matches(batch)'
    BY <1>1, <1>2, EmptyFunction DEF Matches
  <2> QED
    BY <2>1, <2>2, CompletionsPartsNext
<1>12. ArriveInv'
  BY <1>1 DEF SafeInv, ArriveInv
<1>13. FootprintWithinBudget'
  <2>1. /\ IsFiniteSet(Range(pending)) /\ IsFiniteSet(requests)
        /\ Cardinality(Range(pending)) \in Nat /\ Cardinality(requests) \in Nat
        /\ Cardinality(ready) \in Nat
    BY Sizes
  <2>2. Cardinality(Range(pending) \cap requests) = 0 /\ Cardinality(requests') = 0
    BY <1>1, <1>6, FS_EmptySet
  <2>3. Cardinality(Range(pending')) = Cardinality(Range(pending)) + Cardinality(requests)
    <3> DEFINE P == Range(pending)
    <3>1. Cardinality(P \cup requests)
            = Cardinality(P) + Cardinality(requests) - Cardinality(P \cap requests)
      <4> HIDE DEF P
      <4> QED
        BY <2>1, FS_Union DEF P
    <3> QED
      BY <1>8, <2>1, <2>2, <3>1
  <2> QED
    BY <1>1, <2>1, <2>2, <2>3, Limits
    DEF SafeInv, FootprintWithinBudget, Footprint, Budget, Reserve
<1> QED
  BY <1>10, <1>11, <1>12, <1>13 DEF SafeInv

-----------------------------------------------------------------------------
\* Failures, the ends of queries, and every step.

LEMMA SafeFails ==
  ASSUME TypeInv, SafeInv,
         \/ ScanEndFails \/ ChunkFails \/ AwaitFails \/ PlanFails \/ DrainFails
         \/ \E p \in Pages : ScanWaitFails(p)
  PROVE  SafeInv'
<1>1. Throw
  BY DEF ScanEndFails, ChunkFails, AwaitFails, PlanFails, DrainFails, ScanWaitFails
<1> QED
  BY <1>1, SafeThrow

\* The end of a query forgets everything, but for what the session has taken
\* when its trace cannot be written.
LEMMA SafeFinish ==
  ASSUME TypeInv, SafeInv, TypeInv', FinishQuery
  PROVE  SafeInv'
<1>1. CASE pc' = "idle"
  BY <1>1, SafeIdleNext
<1>2. CASE pc' # "idle"
  <2>1. /\ pc = "search" /\ pc' = "failed" /\ pending' = << >> /\ ready' = {}
        /\ UNCHANGED <<query, cache, call>>
    BY <1>2 DEF FinishQuery, Finish, FinishHarvestThrows, FinishTraceThrows
  <2>2. requests = {}
    BY <2>1, HeldNothing
  <2>3. PlaceInv'
    BY <2>1, RangeEmpty DEF SafeInv, PlaceInv, query, cache, call, Cached
  <2>4. FootprintWithinBudget'
    BY <2>1, <2>2, RangeEmpty, FS_EmptySet, Limits
    DEF FootprintWithinBudget, Footprint, Budget, Reserve, call
  <2> QED
    BY <2>1, <2>3, <2>4 DEF SafeInv, CompletionsMatch, ArriveInv
<1> QED
  BY <1>1, <1>2

LEMMA SafeCaller ==
  ASSUME TypeInv, SafeInv, TypeInv', Caller
  PROVE  SafeInv'
<1>1. ASSUME NEW ps \in SUBSET Pages, EnsurePagesLoaded(ps) PROVE SafeInv'
  BY <1>1, SafeDemand DEF EnsurePagesLoaded
<1>2. ASSUME NEW ps \in SUBSET Pages, SubmitPages(ps) \/ SubmitCandidates(ps)
      PROVE  SafeInv'
  BY <1>2, SafeSubmit DEF SubmitPages, SubmitCandidates
<1>3. ASSUME NEW p \in Pages, GetOrLoadPage(p) \/ PinPage(p) PROVE SafeInv'
  BY <1>3, SafeDemand, SafePin DEF GetOrLoadPage
<1>4. ASSUME NEW n \in Capacities, ConfigureCache(n) PROVE SafeInv'
  BY <1>4, SafeIdleNext DEF ConfigureCache
<1>5. CASE Close
  BY <1>5, SafeIdleNext DEF Close
<1> QED
  BY <1>1, <1>2, <1>3, <1>4, <1>5, SafeBegin, SafeHarvest, SafeFails DEF Caller

LEMMA SafeCallStep ==
  ASSUME TypeInv, SafeInv, TypeInv', CallStep
  PROVE  SafeInv'
<1>1. ASSUME NEW p \in Pages,
             \/ ScanHit(p) \/ ScanReady(p) \/ ScanMissing(p)
             \/ ScanWait(p) \/ ScanWaitFails(p) \/ QueueRequest(p)
      PROVE  SafeInv'
  BY <1>1, SafeScanHit, SafeScanReady, SafeScanMissing, SafeHarvest, SafeFails,
     SafeQueueRequest
<1>2. ASSUME NEW t \in Tokens, AwaitDemand(t) \/ AwaitOther(t) PROVE SafeInv'
  BY <1>2, SafeAwaitDemand, SafeAwaitOther
<1>3. CASE CloseLoop
  <2>1. pc' \in {"idle", "closing"}
    BY <1>3 DEF CloseLoop
  <2> QED
    BY <2>1, SafeIdleNext
<1>4. CASE FinishQuery
  BY <1>4, SafeFinish
<1>5. CASE \/ ScanEnd \/ ScanEndFails \/ Chunk \/ ChunkFails \/ AwaitFails \/ DemandEnd
           \/ FlushRequests \/ PlanEnd \/ PlanFails
  BY <1>5, SafeHarvest, SafeFails, SafeChunk, SafeDemandEnd, SafeFlushRequests
<1> QED
  BY <1>1, <1>2, <1>3, <1>4, <1>5 DEF CallStep

LEMMA SafeNext == TypeInv /\ SafeInv /\ [Next]_vars => SafeInv'
<1> SUFFICES ASSUME TypeInv, SafeInv, [Next]_vars PROVE SafeInv'
  OBVIOUS
<1>1. TypeInv'
  BY TypeInvNext
<1>2. CASE UNCHANGED vars
  <2>1. PlaceInv'
    BY <1>2 DEF vars, cache, call, content, query, SafeInv, PlaceInv, Cached
  <2>2. CompletionsMatch' /\ ArriveInv'
    BY <1>2 DEF vars, reader, call, content, query, SafeInv, CompletionsMatch, ArriveInv
  <2>3. FootprintWithinBudget'
    BY <1>2 DEF vars, call, content, SafeInv, FootprintWithinBudget, Footprint, Budget, Reserve
  <2> QED
    BY <2>1, <2>2, <2>3 DEF SafeInv
<1> QED
  BY <1>1, <1>2, SafeKernel, SafeCaller, SafeCallStep, SafeFinish DEF Next

LEMMA SpecSafeInv == Spec => [](TypeInv /\ SafeInv)
<1>1. Init => TypeInv /\ SafeInv
  <2>1. Init => Resting
    BY TypeInvInit DEF Init, Resting
  <2> QED
    BY <2>1, TypeInvInit, SafeIdle
<1>2. TypeInv /\ SafeInv /\ [Next]_vars => (TypeInv /\ SafeInv)'
  BY TypeInvNext, SafeNext
<1> QED
  BY <1>1, <1>2, PTL DEF Spec

-----------------------------------------------------------------------------
\* Reads in the submission queue.

\* Every read is one of the chunk in progress, and none waits or has failed.
Quiet == /\ pc # "failed" /\ DOMAIN reads \subseteq DOMAIN batch
         /\ At("queued") = {} /\ At("bad") = {}

\* Without prefetching nothing is left behind as long as nothing fails.
QuietInv == ~Prefetching => pc # "plan" /\ (faults = {} => Quiet)

QueueInv ==
  /\ Prefetching /\ pc # "failed" /\ "submit" \notin faults => At("queued") = {}
  /\ ~Prefetching /\ Reserve = 1 /\ "submit" \notin faults => At("queued") = {}

LEMMA SubmittedQueue ==
  ASSUME NEW rs, ReadsType(rs), reads' = Submitted(rs, {})
  PROVE  /\ At("queued")' = {}
         /\ \A t \in DOMAIN reads' : reads'[t].at = "bad" => rs[t].at = "bad"
BY DEF At, Submitted, ReadsType, Read

LEMMA BatchQueue ==
  ASSUME ReaderInv, NEW ps \in SUBSET Pages, BatchSubmit(ps)
  PROVE  /\ At("queued")' \subseteq At("queued")
         /\ At("bad") = {} => At("bad")' = {}
<1>1. ReadsType(reads)
  BY ReaderTypes
<1>2. CASE ps = {}
  BY <1>2 DEF BatchSubmit, At
<1>3. CASE ps # {}
  <2> DEFINE new == NewTokens(ps)
             rs  == WithQueued(reads, new)
  <2>1. new \in [DOMAIN new -> Pages]
    <3>1. new \in [DOMAIN new -> ps]
      BY TokensAreNew DEF BatchSubmit
    <3> HIDE DEF new
    <3> QED BY <3>1
  <2>2. reads' = Submitted(rs, {})
    BY <1>3 DEF BatchSubmit
  <2>3. \A t \in DOMAIN rs : rs[t].at = "bad" => t \in At("bad")
    <3> HIDE DEF new
    <3> QED BY <1>1 DEF WithQueued, At, ReadsType, Read
  <2>4. ReadsType(rs)
    <3> HIDE DEF new
    <3> QED BY <1>1, <2>1, WithQueuedReads
  <2> HIDE DEF rs
  <2>5. DOMAIN reads' = DOMAIN rs
    BY <2>2, <2>4, SubmittedReads
  <2>6. At("queued")' = {}
        /\ \A t \in DOMAIN reads' : reads'[t].at = "bad" => rs[t].at = "bad"
    BY <2>2, <2>4, SubmittedQueue
  <2> QED BY <2>3, <2>5, <2>6 DEF At
<1> QED BY <1>2, <1>3

\* Reaping takes reads away and queues none.
LEMMA WithoutQueue ==
  ASSUME NEW ts, reads' = Without(reads, ts)
  PROVE  /\ At("queued")' \subseteq At("queued") /\ At("bad")' \subseteq At("bad")
         /\ DOMAIN reads' = DOMAIN reads \ ts
<1>1. /\ DOMAIN reads' = DOMAIN reads \ ts
      /\ \A t \in DOMAIN reads \ ts : reads'[t] = reads[t]
  BY WithoutReads, Zenon
<1> QED BY <1>1 DEF At

LEMMA HarvestQueue ==
  ASSUME ReaderInv, NEW ts, reads' = Submitted(Without(reads, ts), {})
  PROVE  At("queued")' = {}
<1> DEFINE rs == Without(reads, ts)
<1>1. ReadsType(rs)
  BY ReaderTypes, WithoutReadsType
<1>2. reads' = Submitted(rs, {})
  OBVIOUS
<1> HIDE DEF rs
<1> QED BY <1>1, <1>2, SubmittedQueue

LEMMA HarvestThrowsQueue ==
  ASSUME ReaderInv, HarvestThrows
  PROVE  At("queued")' = {} \/ "submit" \in faults'
BY HarvestQueue DEF HarvestThrows, Fault

\* What a step does to the queue: nothing, unless it empties it, or
\* io_uring_submit fails, or a batch_submit finds the pool exhausted.
Exhausts ==
  /\ pc' = "failed"
  /\ \/ pc = "plan"
     \/ pc = "chunk" /\ \E ps \in NextChunk : BatchExhausted(Wanted(ps))

QueueKept ==
  \/ At("queued")' = {} \/ "submit" \in faults'
  \/ /\ At("queued")' \subseteq At("queued")
     /\ Prefetching /\ pc' # "failed" => pc # "failed"

LEMMA QueueStep ==
  ASSUME TypeInv, [Next]_vars
  PROVE  QueueKept \/ Exhausts
<1>0. ReaderInv /\ TypeOK
  BY DEF TypeInv, TypeOK, ReaderInv
<1>1. ASSUME UNCHANGED reads, pc # "failed" \/ pc' = "failed" PROVE QueueKept
  BY <1>1 DEF QueueKept, At
<1>2. ASSUME Harvest, pc # "failed" PROVE QueueKept
  <2>1. CASE Prefetching
    BY <1>0, <1>2, <2>1, HarvestQueue DEF Harvest, HarvestAll, QueueKept
  <2>2. CASE ~Prefetching
    BY <1>1, <1>2, <2>2 DEF Harvest, reader
  <2> QED BY <2>1, <2>2
<1>3. ASSUME HarvestThrows PROVE QueueKept
  BY <1>0, <1>3, HarvestThrowsQueue DEF QueueKept
<1>4. CASE Kernel
  <2>1. PICK t \in Tokens : Complete(t) \/ CompleteBad(t)
    BY <1>4 DEF Kernel
  <2>2. At("queued")' \subseteq At("queued")
    BY <1>0, <2>1, ReaderTypes DEF Complete, CompleteBad, At, ReadsType, Read
  <2>3. pc' = pc
    BY <1>4 DEF Kernel
  <2> QED BY <2>2, <2>3 DEF QueueKept
<1>5. CASE Caller
  <2>1. CASE Begin \/ Close
    BY <1>1, <2>1 DEF Begin, Close, reader
  <2>2. ASSUME NEW ps \in SUBSET Pages,
               EnsurePagesLoaded(ps) \/ SubmitPages(ps) \/ SubmitCandidates(ps)
        PROVE  QueueKept
    BY <1>1, <2>2
    DEF EnsurePagesLoaded, Demand, SubmitPages, SubmitCandidates, Submit, reader
  <2>3. ASSUME NEW p \in Pages, GetOrLoadPage(p) \/ PinPage(p) PROVE QueueKept
    BY <1>1, <2>3 DEF GetOrLoadPage, Demand, PinPage, reader
  <2>4. ASSUME NEW n \in Capacities, ConfigureCache(n) PROVE QueueKept
    BY <1>1, <2>4 DEF ConfigureCache, reader
  <2>5. CASE Drain \/ DrainFails
    BY <1>2, <1>3, <2>5 DEF Drain, DrainFails
  <2> QED BY <1>5, <2>1, <2>2, <2>3, <2>4, <2>5 DEF Caller
<1>6. CASE CallStep
  <2>1. ASSUME NEW p \in Pages,
               ScanHit(p) \/ ScanReady(p) \/ ScanMissing(p) \/ QueueRequest(p)
        PROVE  QueueKept
    BY <1>1, <1>2, <2>1 DEF ScanHit, ScanReady, ScanMissing, QueueRequest, Taken, reader
  <2>2. ASSUME NEW p \in Pages, ScanWait(p) \/ ScanWaitFails(p) PROVE QueueKept
    BY <1>1, <1>2, <1>3, <2>2 DEF ScanWait, ScanWaitFails, MustWait, Throw
  <2>3. CASE ScanEnd \/ ScanEndFails
    BY <1>1, <1>2, <1>3, <2>3 DEF ScanEnd, ScanEndFails, reader
  <2>4. CASE Chunk \/ FlushRequests
    <3>1. pc # "failed" /\ \E ps \in SUBSET Pages : BatchSubmit(ps)
      BY <1>0, <2>4, WantedPages DEF Chunk, FlushRequests, TypeOK
    <3> QED BY <1>0, <3>1, BatchQueue DEF QueueKept
  <2>5. CASE ChunkFails
    <3>1. PICK ps \in NextChunk :
            BatchExhausted(Wanted(ps)) \/ BatchSubmitFails(Wanted(ps))
      BY <2>5 DEF ChunkFails
    <3>2. pc = "chunk" /\ pc' = "failed"
      BY <2>5 DEF ChunkFails, Throw
    <3>3. BatchSubmitFails(Wanted(ps)) => "submit" \in faults'
      BY DEF BatchSubmitFails, Fault
    <3> QED BY <3>1, <3>2, <3>3 DEF QueueKept, Exhausts
  <2>6. CASE PlanFails
    <3>1. pc = "plan"
      BY <2>6 DEF PlanFails
    <3>2. pc' = "failed"
      BY <2>6 DEF PlanFails, Throw
    <3>3. Exhausts
      BY ONLY <3>1, <3>2 DEF Exhausts
    <3> QED BY ONLY <3>3
  <2>7. ASSUME NEW t \in Tokens, AwaitDemand(t) \/ AwaitOther(t) PROVE QueueKept
    BY <2>7, WithoutQueue DEF AwaitDemand, AwaitOther, Reap, QueueKept
  <2>8. CASE AwaitFails
    BY <1>1, <2>8, WithoutQueue DEF AwaitFails, Throw, Reap, QueueKept
  <2>9. CASE DemandEnd \/ PlanEnd
    BY <1>1, <1>2, <2>9 DEF DemandEnd, PlanEnd, reader
  <2>10. CASE CloseLoop
    <3>1. pc = "closing"
      BY <2>10 DEF CloseLoop
    <3>2. CASE CloseReap
      BY <3>1, <3>2, WithoutQueue DEF CloseReap, Reap, QueueKept
    <3>3. CASE CloseWaitFails \/ Reopened
      BY <3>3, EmptyFunction DEF CloseWaitFails, Reopened, At, QueueKept
    <3> QED BY <2>10, <3>2, <3>3 DEF CloseLoop
  <2>11. CASE pc = "failed" /\ FinishQuery
    <3>1. CASE Finish
      BY <1>0, <2>11, <3>1, HarvestQueue DEF Finish, HarvestAll, QueueKept, At, reader
    <3>2. CASE FinishHarvestThrows
      BY <1>3, <3>2 DEF FinishHarvestThrows
    <3>3. CASE FinishTraceThrows
      BY <1>0, <2>11, <3>3, HarvestQueue DEF FinishTraceThrows, QueueKept, At
    <3> QED BY <2>11, <3>1, <3>2, <3>3 DEF FinishQuery
  <2> QED
    BY <1>6, <2>1, <2>2, <2>3, <2>4, <2>5, <2>6, <2>7, <2>8, <2>9, <2>10, <2>11
    DEF CallStep
<1>7. CASE pc = "search" /\ FinishQuery
  <2>1. CASE Finish
    BY <1>0, <1>7, <2>1, HarvestQueue DEF Finish, HarvestAll, QueueKept, At, reader
  <2>2. CASE FinishHarvestThrows
    BY <1>3, <2>2 DEF FinishHarvestThrows
  <2>3. CASE FinishTraceThrows
    BY <1>0, <1>7, <2>3, HarvestQueue DEF FinishTraceThrows, QueueKept, At
  <2> QED BY <1>7, <2>1, <2>2, <2>3 DEF FinishQuery
<1>8. CASE UNCHANGED vars
  BY <1>1, <1>8 DEF vars, reader
<1> QED BY <1>4, <1>5, <1>6, <1>7, <1>8 DEF Next

\* With at most one page, and no buffer for it, batch_submit queues nothing.
LEMMA ExhaustedByOne ==
  ASSUME ReaderInv, NEW ps \in SUBSET Pages, Cardinality(ps) <= 1,
         BatchExhausted(ps)
  PROVE  At("queued")' = At("queued")
<1>1. /\ free \in Nat /\ Cardinality(ps) \in Nat /\ Cardinality(ps) > free
      /\ BatchLimit \in Nat /\ BatchLimit >= 1
  <2>1. BatchLimit \in {BatchSize, Depth}
    BY ReaderAssumption, MinOfTwo DEF BatchLimit
  <2> QED BY <2>1, ReaderAssumption, ReaderSizes, PagesFinite DEF ReaderInv, BatchExhausted
<1>2. free = 0 /\ free < BatchLimit
  BY <1>1
<1>3. PICK started \in kSubset(free, ps) :
        reads' = WithQueued(reads, NewTokens(started))
  BY <1>2 DEF BatchExhausted
<1>4. started \in SUBSET ps /\ Cardinality(started) = 0
  BY <1>2, <1>3 DEF kSubset
<1>5. started = {}
  <2>1. IsFiniteSet(started)
    BY <1>4, PagesFinite
  <2> QED BY <1>4, <2>1, FS_EmptySet
<1>6. DOMAIN NewTokens(started) = {}
  <2> DEFINE new == NewTokens(started)
  <2>1. started \in SUBSET Pages /\ Cardinality(started) <= free
    BY <1>2, <1>4
  <2>2. new \in [DOMAIN new -> started]
    BY <2>1, TokensAreNew
  <2> HIDE DEF new
  <2>3. ASSUME NEW t \in DOMAIN new PROVE FALSE
    <3>1. new[t] \in started
      BY <2>2
    <3> QED BY <1>5, <3>1
  <2>4. DOMAIN new = {}
    BY <2>3
  <2> QED BY <2>4 DEF new
<1>7. /\ DOMAIN reads' = DOMAIN reads
      /\ \A t \in DOMAIN reads : reads'[t] = reads[t]
  <2> DEFINE new == NewTokens(started)
  <2> HIDE DEF new
  <2>1. reads' = WithQueued(reads, new) /\ DOMAIN new = {}
    BY <1>3, <1>6 DEF new
  <2>2. DOMAIN reads' = DOMAIN reads \cup DOMAIN new
    BY <2>1 DEF WithQueued
  <2>3. ASSUME NEW t \in DOMAIN reads PROVE reads'[t] = reads[t]
    BY <2>1, <2>3 DEF WithQueued
  <2> QED BY <2>1, <2>2, <2>3
<1> QED BY <1>7 DEF At

\* A chunk is no larger than the reserve.
LEMMA ChunkSize ==
  ASSUME TypeOK, NEW ps \in NextChunk
  PROVE  /\ Wanted(ps) \in SUBSET Pages /\ Cardinality(Wanted(ps)) \in Nat
         /\ Cardinality(Wanted(ps)) <= Reserve
<1>1. /\ ps \in SUBSET missing /\ Wanted(ps) \in SUBSET ps /\ ps \in SUBSET Pages
      /\ missing \in SUBSET Pages
  BY WantedPages DEF TypeOK
<1>2. Cardinality(missing) \in Nat /\ Cardinality(ps) \in Nat /\ IsFiniteSet(ps)
  BY <1>1, PagesFinite
<1>3. Cardinality(Wanted(ps)) \in Nat /\ Cardinality(Wanted(ps)) <= Cardinality(ps)
  BY <1>1, <1>2, FS_Subset, FS_CardinalityType
<1>4. Cardinality(ps) = Min({Reserve, Cardinality(missing)})
  BY DEF NextChunk, kSubset
<1>5. Min({Reserve, Cardinality(missing)}) <= Reserve
  BY <1>2, Limits, MinOfTwo
<1> QED BY <1>1, <1>2, <1>3, <1>4, <1>5, Limits

\* With nothing forgotten there is room for a chunk.
LEMMA QuietChunk ==
  ASSUME TypeInv, pc = "chunk", DOMAIN reads \subseteq DOMAIN batch,
         NEW ps \in NextChunk
  PROVE  ~BatchExhausted(Wanted(ps))
<1>1. DOMAIN reads = {}
  BY EmptyFunction DEF TypeInv, CallInv
<1>2. free = Depth
  BY <1>1, FS_EmptySet, ReaderSizes DEF TypeInv, TypeOK, BuffersConserved
<1>3. Cardinality(Wanted(ps)) \in Nat /\ Cardinality(Wanted(ps)) <= Reserve
  BY ChunkSize DEF TypeInv
<1> QED BY <1>2, <1>3, Limits DEF BatchExhausted

\* One step, without prefetching.
LEMMA QuietStep ==
  ASSUME TypeInv, [Next]_vars, ~Prefetching, pc # "plan"
  PROVE  pc' # "plan" /\ (Quiet /\ faults' = {} => Quiet')
<1>0. ReaderInv /\ TypeOK
  BY DEF TypeInv, TypeOK, ReaderInv
<1> DEFINE Goal == pc' # "plan" /\ (Quiet /\ faults' = {} => Quiet')
<1>1. ASSUME UNCHANGED <<reads, batch>>, pc' # "plan",
             pc' = "failed" => pc = "failed"
      PROVE  Goal
  BY <1>1 DEF Quiet, At
<1>2. ASSUME NEW kind, Fault(kind), pc' # "plan" PROVE Goal
  BY <1>2 DEF Fault
<1>3. ASSUME HarvestThrows, pc' # "plan" PROVE Goal
  BY <1>3 DEF HarvestThrows, Fault, Quiet
<1>4. CASE Kernel
  <2>1. PICK t \in Tokens : Complete(t) \/ CompleteBad(t)
    BY <1>4 DEF Kernel
  <2>2. pc' = pc /\ batch' = batch
    BY <1>4 DEF Kernel, call
  <2>3. CASE Complete(t)
    <3>1. /\ At("queued")' \subseteq At("queued") /\ At("bad")' \subseteq At("bad")
          /\ DOMAIN reads' = DOMAIN reads
      BY <1>0, <2>3, ReaderTypes DEF Complete, At, ReadsType, Read
    <3> QED BY <2>2, <3>1 DEF Quiet
  <2>4. CASE CompleteBad(t)
    BY <1>2, <2>2, <2>4 DEF CompleteBad
  <2> QED BY <2>1, <2>3, <2>4
<1>5. CASE Caller
  <2>1. CASE Begin \/ Close
    BY <1>1, <2>1 DEF Begin, Close, reader, call
  <2>2. ASSUME NEW ps \in SUBSET Pages, EnsurePagesLoaded(ps) PROVE Goal
    BY <1>1, <2>2 DEF EnsurePagesLoaded, Demand, reader
  <2>3. ASSUME NEW ps \in SUBSET Pages, SubmitPages(ps) \/ SubmitCandidates(ps)
        PROVE  Goal
    BY <2>3 DEF SubmitPages, SubmitCandidates, Submit
  <2>4. ASSUME NEW p \in Pages, GetOrLoadPage(p) \/ PinPage(p) PROVE Goal
    BY <1>1, <2>4 DEF GetOrLoadPage, Demand, PinPage, reader, call
  <2>5. ASSUME NEW n \in Capacities, ConfigureCache(n) PROVE Goal
    BY <1>1, <2>5 DEF ConfigureCache, reader, call
  <2>6. CASE Drain \/ DrainFails
    BY <2>6 DEF Drain, DrainFails
  <2> QED BY <1>5, <2>1, <2>2, <2>3, <2>4, <2>5, <2>6 DEF Caller
<1>6. CASE CallStep
  <2>1. ASSUME NEW p \in Pages,
               ScanHit(p) \/ ScanReady(p) \/ ScanMissing(p) \/ QueueRequest(p)
        PROVE  Goal
    BY <1>1, <2>1 DEF ScanHit, ScanReady, ScanMissing, QueueRequest, Taken, reader
  <2>2. ASSUME NEW p \in Pages, ScanWait(p) PROVE Goal
    BY <1>1, <2>2 DEF ScanWait, MustWait, Harvest, reader, call
  <2>3. ASSUME NEW p \in Pages, ScanWaitFails(p) PROVE Goal
    BY <1>2, <1>3, <2>3 DEF ScanWaitFails, Throw
  <2>4. CASE ScanEnd \/ ScanEndFails
    BY <1>1, <2>4 DEF ScanEnd, ScanEndFails, Harvest, reader, call
  <2>5. CASE Chunk
    <3>1. PICK ps \in NextChunk :
            /\ BatchSubmit(Wanted(ps)) /\ batch' = NewTokens(Wanted(ps))
            /\ pc' \in {"chunk", "await"}
      BY <2>5 DEF Chunk
    <3>2. Wanted(ps) \in SUBSET Pages
      BY <1>0, ChunkSize
    <3>3. DOMAIN reads' = DOMAIN reads \cup DOMAIN batch'
      BY <1>0, <3>1, <3>2, BatchSubmitKeeps DEF ReadsAre
    <3>4. DOMAIN batch = {}
      BY <2>5, EmptyFunction DEF Chunk, TypeInv, CallInv
    <3>5. At("queued")' \subseteq At("queued") /\ (At("bad") = {} => At("bad")' = {})
      BY <1>0, <3>1, <3>2, BatchQueue
    <3> QED BY <3>1, <3>3, <3>4, <3>5 DEF Quiet
  <2>6. CASE ChunkFails
    <3>1. PICK ps \in NextChunk :
            BatchExhausted(Wanted(ps)) \/ BatchSubmitFails(Wanted(ps))
      BY <2>6 DEF ChunkFails
    <3>2. pc = "chunk" /\ pc' = "failed"
      BY <2>6 DEF ChunkFails, Throw
    <3>3. CASE BatchExhausted(Wanted(ps))
      BY <3>2, <3>3, QuietChunk DEF Quiet
    <3>4. CASE BatchSubmitFails(Wanted(ps))
      BY <1>2, <3>2, <3>4 DEF BatchSubmitFails
    <3> QED BY <3>1, <3>3, <3>4
  <2>7. ASSUME NEW t \in Tokens, AwaitDemand(t) PROVE Goal
    <3>1. /\ reads' = Without(reads, {t}) /\ batch' = Without(batch, {t})
          /\ pc' \in {"chunk", "await"}
      BY <2>7 DEF AwaitDemand, Reap
    <3>2. DOMAIN batch' = DOMAIN batch \ {t}
      BY <3>1, WithoutReads
    <3>3. /\ At("queued")' \subseteq At("queued") /\ At("bad")' \subseteq At("bad")
          /\ DOMAIN reads' = DOMAIN reads \ {t}
      BY <3>1, WithoutQueue
    <3> QED BY <3>1, <3>2, <3>3 DEF Quiet
  <2>8. ASSUME NEW t \in Tokens, AwaitOther(t) PROVE Goal
    BY <2>8 DEF AwaitOther, Quiet, At
  <2>9. CASE AwaitFails
    BY <1>2, <2>9 DEF AwaitFails, Throw, Quiet
  <2>10. CASE DemandEnd
    BY <1>1, <2>10 DEF DemandEnd, reader
  <2>11. CASE FlushRequests \/ PlanEnd \/ PlanFails
    BY <2>11 DEF FlushRequests, PlanEnd, PlanFails
  <2>12. CASE CloseLoop
    <3>1. pc' # "plan" /\ pc' # "failed" /\ batch' = batch
      BY <2>12 DEF CloseLoop, call
    <3>2. CASE CloseReap
      <4>1. /\ At("queued")' \subseteq At("queued") /\ At("bad")' \subseteq At("bad")
            /\ DOMAIN reads' \subseteq DOMAIN reads
        BY <3>2, WithoutQueue DEF CloseReap, Reap
      <4> QED BY <3>1, <4>1 DEF Quiet
    <3>3. CASE CloseWaitFails
      BY <1>2, <3>1, <3>3 DEF CloseWaitFails
    <3>4. CASE Reopened
      BY <3>1, <3>4, EmptyFunction DEF Reopened, At, Quiet
    <3> QED BY <2>12, <3>2, <3>3, <3>4 DEF CloseLoop
  <2>13. CASE pc = "failed" /\ FinishQuery
    BY <2>13 DEF FinishQuery, Finish, FinishHarvestThrows, FinishTraceThrows, Quiet
  <2> QED
    BY <1>6, <2>1, <2>2, <2>3, <2>4, <2>5, <2>6, <2>7, <2>8, <2>9, <2>10, <2>11,
       <2>12, <2>13 DEF CallStep
<1>7. CASE pc = "search" /\ FinishQuery
  <2>1. CASE Finish
    BY <1>1, <2>1 DEF Finish, reader, call
  <2>2. CASE FinishHarvestThrows
    BY <2>2 DEF FinishHarvestThrows
  <2>3. CASE FinishTraceThrows
    <3>1. pc' # "plan"
      BY <2>3 DEF FinishTraceThrows
    <3> QED BY <1>2, <2>3, <3>1 DEF FinishTraceThrows
  <2> QED BY <1>7, <2>1, <2>2, <2>3 DEF FinishQuery
<1>8. CASE UNCHANGED vars
  BY <1>1, <1>8 DEF vars, reader, call
<1> QED BY <1>4, <1>5, <1>6, <1>7, <1>8 DEF Next

LEMMA QueueNext ==
  ASSUME TypeInv, QuietInv, QueueInv, [Next]_vars
  PROVE  QuietInv' /\ QueueInv'
<1>0. ReaderInv /\ TypeOK
  BY DEF TypeInv, TypeOK, ReaderInv
<1>1. faults \subseteq faults'
  BY ReaderNext
<1>2. QuietInv'
  <2>1. faults' = {} => faults = {}
    BY <1>1
  <2> QED BY <2>1, QuietStep DEF QuietInv
<1>3. CASE QueueKept
  BY <1>1, <1>2, <1>3 DEF QueueKept, QueueInv
<1>4. CASE Exhausts
  <2>1. SUFFICES ASSUME ~Prefetching, Reserve = 1, "submit" \notin faults'
                 PROVE  At("queued")' = {}
    BY <1>2, <1>4 DEF QueueInv, Exhausts
  <2>2. At("queued") = {}
    BY <1>1, <2>1 DEF QueueInv
  <2>3. PICK ps \in NextChunk : BatchExhausted(Wanted(ps))
    BY <1>4, <2>1 DEF Exhausts, QuietInv
  <2>4. Wanted(ps) \in SUBSET Pages /\ Cardinality(Wanted(ps)) <= 1
    BY <1>0, <2>1, ChunkSize
  <2> QED BY <1>0, <2>2, <2>3, <2>4, ExhaustedByOne
<1> QED BY <1>2, <1>3, <1>4, QueueStep

-----------------------------------------------------------------------------
\* Theorems.

\* The page a completion is taken for is the page its read was submitted for,
\* whatever an earlier query or an earlier session left in flight.
THEOREM MatchesStay == Spec => []CompletionsMatch
<1>1. SafeInv => CompletionsMatch
  BY DEF SafeInv
<1> QED
  BY <1>1, SpecSafeInv, PTL

\* The session never reads a page it has or is reading already.
THEOREM OnePlace == Spec => []PageInOnePlace
<1>1. SafeInv => PageInOnePlace
  BY DEF SafeInv, PlaceInv, PageInOnePlace
<1> QED
  BY <1>1, SpecSafeInv, PTL

\* session_prefetch_budget is kept, requests not yet submitted included.
THEOREM FootprintStays == Spec => []FootprintWithinBudget
<1>1. SafeInv => FootprintWithinBudget
  BY DEF SafeInv
<1> QED
  BY <1>1, SpecSafeInv, PTL

\* The buffers set aside for demands are there when a call needs them, unless
\* an earlier query has left reads in progress.
THEOREM RoomStays == Spec => []RoomForRequests
<1>1. ASSUME TypeInv, SafeInv PROVE RoomForRequests
  <2> SUFFICES ASSUME Leftover = {}, batch = << >>
               PROVE  free >= Reserve + Cardinality(requests)
    BY DEF RoomForRequests
  <2>1. DOMAIN reads \subseteq DOMAIN pending
    BY EmptyFunction DEF Leftover
  <2>2. TokensType(pending) /\ IsInjective(pending)
    BY <1>1, TypeOKParts DEF TypeInv, ContentType, SafeInv, PlaceInv
  <2>3. IsFiniteSet(DOMAIN pending) /\ Cardinality(DOMAIN pending) \in Nat
    BY <2>2, ReaderAssumption, FS_Subset, FS_CardinalityType DEF TokensType
  <2>4. Cardinality(Range(pending)) = Cardinality(DOMAIN pending)
    <3>1. pending \in Bijection(DOMAIN pending, Range(pending))
      BY <2>2 DEF TokensType, Bijection, Injection, Surjection, IsInjective, Range
    <3>2. ExistsBijection(DOMAIN pending, Range(pending))
      BY <3>1 DEF ExistsBijection
    <3> QED
      BY <2>3, <3>2, FS_Bijection
  <2>5. Cardinality(DOMAIN reads) <= Cardinality(DOMAIN pending)
    BY <2>1, <2>3, FS_Subset
  <2>6. /\ free \in Nat /\ Cardinality(DOMAIN reads) \in Nat
        /\ free + Cardinality(DOMAIN reads) = Depth
    BY <1>1, ReaderSizes DEF TypeInv, TypeOK, BuffersConserved
  <2>7. /\ Cardinality(Range(pending)) + Cardinality(ready) + Cardinality(requests) <= Budget
        /\ Cardinality(ready) \in Nat /\ Cardinality(requests) \in Nat
    BY <1>1, Sizes DEF SafeInv, FootprintWithinBudget, Footprint
  <2> QED
    BY <2>3, <2>4, <2>5, <2>6, <2>7, Limits
<1> QED
  BY <1>1, SpecSafeInv, PTL

\* When a demand returns, every page the search has asked for so far has been
\* given to it, whichever way each of them came.
THEOREM DemandsArrive == Spec => []DemandArrives
<1>1. SafeInv => DemandArrives
  BY DEF SafeInv, ArriveInv, DemandArrives
<1> QED
  BY <1>1, SpecSafeInv, PTL
\* Every read is handed over before its query is over, unless io_uring_submit
\* fails; without prefetching, and with chunks of several pages, unless
\* anything fails: then a chunk may stop half way at the end of the pool.
THEOREM HandedOver == Spec => []ReadsHandedOver
<1>1. Init => QuietInv /\ QueueInv
  BY EmptyFunction DEF Init, ReaderInit, QuietInv, Quiet, QueueInv, At
<1>2. QuietInv /\ QueueInv /\ TypeInv /\ TypeInv' /\ [Next]_vars
        => (QuietInv /\ QueueInv)'
  BY QueueNext
<1>3. ASSUME TypeInv, QuietInv, QueueInv PROVE ReadsHandedOver
  <2>1. Reserve >= 1
    <3>1. Depth \in Nat \ {0} /\ BatchSize \in Nat \ {0}
      BY ReaderAssumption
    <3> QED BY <3>1, MinOfTwo DEF Reserve
  <2> QED BY <1>3, <2>1, Limits DEF QuietInv, Quiet, QueueInv, ReadsHandedOver
<1> QED
  BY <1>1, <1>2, <1>3, SpecTypeInv, PTL DEF Spec
=============================================================================
