------------------------- MODULE DynamicStoreProofs -------------------------
(***************************************************************************)
(* Machine-checked proofs about DynamicStore, for every set of nodes and   *)
(* values, every option and every bound.                                   *)
(*                                                                         *)
(* First the operators on versions, type correctness, and that no sequence *)
(* number is used twice, whatever fails.  Then the files: which tables the *)
(* manifest names, which are being built or deleted, and that the named    *)
(* ones open, as long as no failure is one of the Harmful ones.  What is   *)
(* never lost is proved in DynamicStoreRecovery.                           *)
(***************************************************************************)
EXTENDS DynamicStore, DynamicRecordsProofs, TLAPS

\* Some version in S is at least as new as r, of the same node.
CoveredBy(S, r) == \E q \in S : q.node = r.node /\ q.seq >= r.seq

FlushSteps   == {"flush_begin", "flush_write", "flush_manifest", "flush_open"}
RotateSteps  == {"rotate_close", "rotate_remove"}
CompactSteps == {"compact_write", "compact_open", "compact_manifest"}

\* An operation in progress has the store open, and an id for its table.
StepInv ==
  /\ pc # "idle" => opened
  /\ pc \in FlushSteps \cup CompactSteps => mman.nextSst <= MaxTables

TypeInv == TypeOK /\ StepInv

-----------------------------------------------------------------------------
(***************************************************************************)
(* The operators of DynamicRecords on bounded sets of versions.            *)
(***************************************************************************)

\* Keeping the newest version of every node loses no node: what flush writes
\* covers the memtable, what compaction writes covers its input.
LEMMA NewestCovers ==
  ASSUME NEW S, S \subseteq Version
  PROVE  /\ NewestOf(S) \subseteq S
         /\ \A r \in S : CoveredBy(NewestOf(S), r)
<1>1. \A r \in S : r.seq \in 0 .. MaxSeq
  BY BoundsAssumption DEF Version
<1> QED BY <1>1, BoundsAssumption, NewestLosesNone DEF Covers, CoveredBy

\* LastSeq is the sequence number of a member, and no member's is larger.
LEMMA LastSeqIsMax ==
  ASSUME NEW S, S \subseteq Version
  PROVE  /\ LastSeq(S) \in 0 .. MaxSeq
         /\ \A r \in S : r.seq <= LastSeq(S)
         /\ S # {} => \E q \in S : q.seq = LastSeq(S)
         /\ S = {} => LastSeq(S) = 0
<1>1. \A r \in S : r.seq \in 0 .. MaxSeq
  BY BoundsAssumption DEF Version
<1> QED BY <1>1, BoundsAssumption, LastSeqIsLast

\* Covering is transitive and monotone.
LEMMA CoveredByTrans ==
  ASSUME NEW S, NEW T, S \subseteq Version, T \subseteq Version,
         \A q \in S : CoveredBy(T, q), NEW r \in Version, CoveredBy(S, r)
  PROVE  CoveredBy(T, r)
BY BoundsAssumption DEF CoveredBy, Version

\* A stream that is given up leaves a prefix of its records in wal.log; behind
\* a torn record nothing is added.
LEMMA SpilledIsPrefix ==
  ASSUME TypeOK, NEW w \in Spilled
  PROVE  /\ w \in WalFile
         /\ wal.torn => w = wal
         /\ \E c \in Nat : ~wal.torn => w.recs = wal.recs \cup UpTo(buf, c)
<1> DEFINE whole == {Logged(UpTo(buf, c)) : c \in {0} \cup {r.seq : r \in buf}}
<1>1. PICK c \in {0} \cup {r.seq : r \in buf} :
        \/ w = Logged(UpTo(buf, c))
        \/ w = [Logged(UpTo(buf, c)) EXCEPT !.torn = TRUE]
  BY DEF Spilled
<1>2. c \in Nat
  BY DEF TypeOK, Version
<1>3. UpTo(buf, c) \subseteq Version
  BY DEF UpTo, TypeOK
<1> QED BY <1>1, <1>2, <1>3 DEF Logged, TypeOK, WalFile

-----------------------------------------------------------------------------
(***************************************************************************)
(* Types, and the steps of an operation.                                   *)
(***************************************************************************)

LEMMA InitTypeInv == Init => TypeInv
<1> SUFFICES ASSUME Init PROVE TypeInv
  OBVIOUS
<1>1. NewManifest \in ManifestData
  BY BoundsAssumption DEF NewManifest, ManifestData
<1>2. sst \in Tables /\ wal \in WalFile /\ call \in Calls
  BY DEF Init, Tables, WalFile, Calls, Ops
<1>3. pc = "idle" /\ pc \in Steps
  BY DEF Init, Steps
<1> QED BY <1>1, <1>2, <1>3 DEF Init, TypeInv, TypeOK, StepInv, FlushSteps, CompactSteps

\* What Open sets next_sequence_id to.
LEMMA NextSeqForType ==
  ASSUME TypeOK, NEW S, S \subseteq Version
  PROVE  /\ NextSeqFor(S) \in Nat \ {0}
         /\ LastSeq(S) < NextSeqFor(S)
<1>1. LastSeq(S) \in Nat
  BY LastSeqIsMax, BoundsAssumption
<1>2. manifest.nextSeq \in Nat \ {0}
  BY DEF TypeOK, ManifestData
<1> QED BY <1>1, <1>2 DEF NextSeqFor

LEMMA StoredType ==
  ASSUME TypeOK, NEW ids, ids \subseteq TableIds
  PROVE  Stored(ids) \subseteq Version
BY DEF TypeOK, Stored, Tables

LEMMA RecoverableType ==
  ASSUME TypeOK
  PROVE  /\ Recoverable \subseteq Version
         /\ Stored(manifest.tables) \subseteq Version
         /\ Stored(mman.tables) \subseteq Version
         /\ Replayed \subseteq Version
<1>1. manifest.tables \subseteq TableIds /\ mman.tables \subseteq TableIds
  BY DEF TypeOK, ManifestData
<1>2. Replayed \subseteq Version
  BY DEF Replayed, TypeOK, WalFile
<1> QED BY <1>1, <1>2, StoredType DEF Recoverable

LEMMA TypeInvStep == TypeInv /\ [Next]_vars => TypeInv'
<1> SUFFICES ASSUME TypeOK, StepInv, [Next]_vars PROVE TypeInv'
  BY DEF TypeInv
<1> DEFINE InPlace == pc \in FlushSteps \cup CompactSteps
\* Facts the actions share.
<1>a. ASSUME NEW kind, Fail(kind) PROVE faults' \in Nat
  BY <1>a DEF Fail, TypeOK
<1>b. ASSUME NoFail PROVE faults' \in Nat
  BY <1>b DEF NoFail, TypeOK
<1>c. ASSUME NEW ok \in BOOLEAN, Return(ok) PROVE pc' = "idle" /\ call' \in Calls
  BY <1>c DEF Return, TypeOK, Calls
<1>d. ASSUME NEW op \in Ops, NEW ok \in BOOLEAN, Reply(op, ok)
      PROVE  pc' = "idle" /\ call' \in Calls
  BY <1>d DEF Reply, Calls
<1>e. ASSUME NEW op \in Ops, NEW s, Start(op, s) PROVE pc' = s /\ call' \in Calls
  BY <1>e DEF Start, Calls
<1>f. ASSUME NEW s, Goto(s) PROVE pc' = s /\ call' \in Calls
  BY <1>f DEF Goto, TypeOK
<1>g. /\ NewManifest \in ManifestData
      /\ ManifestData = ManifestData' /\ Steps = Steps'
  BY BoundsAssumption DEF NewManifest, ManifestData
<1>h. ASSUME NEW w \in Spilled PROVE w \in WalFile
  BY SpilledIsPrefix
<1>i. Logged(buf) \in WalFile
  <2>1. wal \in WalFile /\ buf \subseteq Version
    BY DEF TypeOK
  <2> QED BY <2>1 DEF Logged, WalFile
<1>j. ASSUME NEW id \in TableIds, NEW S, S \subseteq Version,
             Truncate(id) \/ Write(id, S)
      PROVE  sst' \in Tables
  <2> DEFINE Table == [recs : SUBSET Version, ok : BOOLEAN]
  <2>1. [recs |-> {}, ok |-> FALSE] \in Table /\ [recs |-> NewestOf(S), ok |-> TRUE] \in Table
    BY <1>j DEF NewestOf
  <2>2. sst \in [TableIds -> Table]
    BY DEF TypeOK, Tables
  <2>3. \E t \in Table : sst' = [sst EXCEPT ![id] = t]
    BY <1>j, <2>1 DEF Truncate, Write
  <2> HIDE DEF Table
  <2>4. sst' \in [TableIds -> Table]
    BY <2>2, <2>3
  <2> QED BY <2>4 DEF Table, Tables
<1>k. InPlace => mman.nextSst \in TableIds
  BY BoundsAssumption DEF StepInv, TypeOK, ManifestData, TableIds
<1>l. InPlace => WithNewTable \in ManifestData /\ OnlyNewTable \in ManifestData
  <2> SUFFICES ASSUME InPlace
               PROVE  WithNewTable \in ManifestData /\ OnlyNewTable \in ManifestData
    OBVIOUS
  <2>1. mman.nextSst \in TableIds /\ mman.nextSst + 1 \in 1 .. MaxTables + 1
    BY <1>k, BoundsAssumption DEF TableIds
  <2>2. mman \in ManifestData
    BY DEF TypeOK
  <2> QED BY <2>1, <2>2 DEF WithNewTable, OnlyNewTable, ManifestData
<1>m. ASSUME NEW op \in {"append", "flush", "compact", "open", "close"}, NEW ok \in BOOLEAN
      PROVE  op \in Ops /\ [op |-> op, ok |-> ok] \in Calls
  BY <1>m DEF Ops, Calls
<1>n. {"idle", "flush_begin", "flush_write", "flush_manifest", "flush_open",
       "rotate_close", "rotate_remove", "compact_write", "compact_open",
       "compact_manifest", "compact_delete", "close_wal"} = Steps
  BY DEF Steps
\* One step per action: its new values have their types, the rest is unchanged.
<1>1. ASSUME NEW n \in Nodes, NEW v \in Values \cup {Deleted}, Append(n, v)
      PROVE  TypeInv'
  <2> DEFINE r == [seq |-> mman.nextSeq, node |-> n, val |-> v]
  <2>1. r \in Version
    <3>1. mman.nextSeq \in 1 .. MaxSeq
      BY <1>1, BoundsAssumption DEF Append, TypeOK, ManifestData
    <3> QED BY <3>1 DEF Version
  <2>2. /\ buf' = buf \/ buf' = buf \cup {r}
        /\ recent' = recent \cup {r} /\ log' = log \cup {r}
        /\ memtable' = Overwrite(memtable, r)
        /\ mman' = [mman EXCEPT !.nextSeq = @ + 1]
        /\ UNCHANGED <<disk, writer, opened, victims, crashes, faults>> /\ opened
    BY <1>1 DEF Append, NoFail
  <2>3. \/ mman.nextSst <= MaxTables /\ Start("append", "flush_begin")
        \/ Reply("append", TRUE)
    BY <1>1 DEF Append
  <2> HIDE DEF r
  <2>4. Overwrite(memtable, r) \subseteq Version
    BY <2>1 DEF Overwrite, TypeOK
  <2>5. mman' \in ManifestData /\ mman'.nextSst = mman.nextSst
    BY <2>2 DEF TypeOK, ManifestData
  <2>6. call' \in Calls /\ (pc' = "idle" \/ (pc' = "flush_begin" /\ mman.nextSst <= MaxTables))
    <3>1. CASE mman.nextSst <= MaxTables /\ Start("append", "flush_begin")
      BY <3>1, <1>m DEF Start
    <3>2. CASE Reply("append", TRUE)
      BY <3>2, <1>m DEF Reply
    <3> QED BY <2>3, <3>1, <3>2
  <2>7. TypeOK'
    BY <2>1, <2>2, <2>4, <2>5, <2>6, <1>n DEF TypeOK, disk
  <2> QED BY <2>2, <2>5, <2>6, <2>7 DEF TypeInv, StepInv, FlushSteps, CompactSteps
<1>2. ASSUME Open PROVE TypeInv'
  <2>1. Recoverable \subseteq Version /\ Replayed \subseteq Version
    BY RecoverableType
  <2>2. NextSeqFor(Recoverable) \in Nat \ {0}
    BY <2>1, NextSeqForType
  <2>3. /\ mman' = [manifest EXCEPT !.nextSeq = NextSeqFor(Recoverable)]
        /\ memtable' = NewestOf(Replayed)
        /\ recent' = Recoverable /\ log' = UpTo(log, LastSeq(recent'))
        /\ writer' \in {"none", "ok"}
        /\ buf' = {} /\ victims' = {} /\ opened' = TRUE
        /\ UNCHANGED <<disk, crashes, faults>>
        /\ Reply("open", TRUE)
    BY <1>2 DEF Open, NoFail
  <2>4. mman' \in ManifestData
    BY <2>2, <2>3 DEF TypeOK, ManifestData
  <2>5. memtable' \subseteq Version /\ recent' \subseteq Version /\ log' \subseteq Version
    BY <2>1, <2>3 DEF TypeOK, NewestOf, UpTo
  <2>6. call' \in Calls /\ pc' = "idle"
    BY <2>3, <1>d, <1>m
  <2>7. TypeOK'
    BY <2>3, <2>4, <2>5, <2>6, <1>n DEF TypeOK, disk
  <2> QED BY <2>6, <2>7 DEF TypeInv, StepInv, FlushSteps, CompactSteps
<1>3. ASSUME Forget, wal' \in WalFile, pc' = "idle", call' \in Calls,
             UNCHANGED <<manifest, sst, log>>, crashes' \in Nat, faults' \in Nat
      PROVE  TypeInv'
  BY <1>3, <1>g, <1>n
  DEF Forget, TypeOK, TypeInv, StepInv, FlushSteps, CompactSteps
<1>4. ASSUME Crash PROVE TypeInv'
  <2>1. call' \in Calls
    BY <1>4 DEF Crash, TypeOK, Calls
  <2>2. crashes' \in Nat /\ faults' \in Nat
    BY <1>4 DEF Crash, TypeOK
  <2> QED BY <1>3, <1>4, <1>h, <2>1, <2>2 DEF Crash
<1>5. ASSUME CloseWal PROVE TypeInv'
  <2>1. wal' \in WalFile
    BY <1>5, <1>h, <1>i DEF CloseWal
  <2>2. call.ok \in BOOLEAN
    BY DEF TypeOK, Calls
  <2>3. pc' = "idle" /\ call' \in Calls
    BY <1>5, <1>c, <2>2 DEF CloseWal
  <2>4. faults' \in Nat
    BY <1>5, <1>a, <1>b DEF CloseWal
  <2>5. crashes' \in Nat
    BY <1>5 DEF CloseWal, TypeOK
  <2>6. Forget /\ UNCHANGED <<manifest, sst, log>>
    BY <1>5 DEF CloseWal
  <2> QED BY <1>3, <2>1, <2>3, <2>4, <2>5, <2>6
<1>6. ASSUME RotateClose PROVE TypeInv'
  <2>1. wal' \in WalFile
    BY <1>6, <1>h, <1>i DEF RotateClose
  <2>2. faults' \in Nat
    BY <1>6, <1>a, <1>b DEF RotateClose
  <2>3. call' \in Calls /\ (pc' = "idle" \/ (pc' = "rotate_remove" /\ pc = "rotate_close"))
    BY <1>6, <1>c, <1>f DEF RotateClose
  <2>4. writer' \in {"none", "closed"} /\ buf' = {}
    BY <1>6 DEF RotateClose
  <2>5. UNCHANGED <<manifest, sst, mman, memtable, recent, opened, victims, log, crashes>>
    BY <1>6 DEF RotateClose
  <2> QED BY <2>1, <2>2, <2>3, <2>4, <2>5, <1>n
          DEF TypeOK, TypeInv, StepInv, FlushSteps, CompactSteps
<1>7. ASSUME RotateRemove PROVE TypeInv'
  <2>1. wal' \in WalFile
    <3>1. [recs |-> {}, torn |-> FALSE] \in WalFile
      BY DEF WalFile
    <3> QED BY <1>7, <3>1 DEF RotateRemove, TypeOK
  <2>2. faults' \in Nat
    BY <1>7, <1>a, <1>b DEF RotateRemove
  <2>3. call' \in Calls /\ pc' = "idle"
    BY <1>7, <1>c DEF RotateRemove
  <2>4. writer' \in {"ok", "bad"}
    BY <1>7 DEF RotateRemove
  <2>5. UNCHANGED <<manifest, sst, mman, memtable, recent, buf, opened, victims, log, crashes>>
    BY <1>7 DEF RotateRemove
  <2> QED BY <2>1, <2>2, <2>3, <2>4, <2>5, <1>n
          DEF TypeOK, TypeInv, StepInv, FlushSteps, CompactSteps
\* The steps that build a table.
<1>8. ASSUME sst' \in Tables, manifest' \in ManifestData, mman' \in ManifestData,
             memtable' \subseteq Version, victims' \subseteq TableIds,
             pc' \in Steps, call' \in Calls, faults' \in Nat, opened,
             pc' \in FlushSteps \cup CompactSteps => mman'.nextSst <= MaxTables,
             UNCHANGED <<wal, recent, buf, writer, opened, log, crashes>>
      PROVE  TypeInv'
  BY <1>8 DEF TypeOK, TypeInv, StepInv
<1>9. /\ pc # "idle" => opened
      /\ InPlace => mman.nextSst <= MaxTables
  BY DEF StepInv
<1>10. /\ \A s \in FlushSteps \cup CompactSteps : s \in Steps /\ s # "idle"
       /\ {"flush_begin", "flush_write", "flush_manifest", "flush_open"} = FlushSteps
       /\ {"compact_write", "compact_open", "compact_manifest"} = CompactSteps
       /\ \A s \in {"idle", "rotate_close", "compact_delete"} :
            s \in Steps /\ s \notin FlushSteps \cup CompactSteps
  BY DEF FlushSteps, CompactSteps, Steps
<1> HIDE DEF InPlace
<1>11. ASSUME FlushBegin PROVE TypeInv'
  <2>1. InPlace /\ pc # "idle"
    BY <1>11 DEF FlushBegin, InPlace, FlushSteps
  <2>2. sst' \in Tables
    BY <1>11, <1>j, <1>k, <2>1 DEF FlushBegin
  <2>3. pc' = "flush_write" /\ call' \in Calls /\ faults' \in Nat
    BY <1>11, <1>f, <1>b DEF FlushBegin
  <2> QED BY <1>8, <1>9, <1>10, <1>11, <2>1, <2>2, <2>3 DEF FlushBegin, mem, TypeOK
<1>12. ASSUME FlushWrite PROVE TypeInv'
  <2>1. InPlace /\ pc # "idle"
    BY <1>12 DEF FlushWrite, InPlace, FlushSteps
  <2>2. sst' \in Tables
    BY <1>12, <1>j, <1>k, <2>1 DEF FlushWrite, TypeOK
  <2>3. pc' \in {"flush_manifest", "idle"} /\ call' \in Calls
    BY <1>12, <1>f, <1>c DEF FlushWrite
  <2>4. faults' \in Nat
    BY <1>12, <1>a, <1>b DEF FlushWrite
  <2> QED BY <1>8, <1>9, <1>10, <1>12, <2>1, <2>2, <2>3, <2>4 DEF FlushWrite, mem, TypeOK
<1>13. ASSUME FlushManifest PROVE TypeInv'
  <2>1. InPlace /\ pc # "idle"
    BY <1>13 DEF FlushManifest, InPlace, FlushSteps
  <2>2. manifest' \in ManifestData
    BY <1>13, <1>g, <1>l, <2>1 DEF FlushManifest, SaveManifest, SaveFails, TypeOK
  <2>3. pc' \in {"flush_open", "idle"} /\ call' \in Calls
    BY <1>13, <1>f, <1>c DEF FlushManifest
  <2>4. faults' \in Nat
    BY <1>13, <1>a, <1>b DEF FlushManifest, SaveManifest, SaveFails
  <2> QED BY <1>8, <1>9, <1>10, <1>13, <2>1, <2>2, <2>3, <2>4 DEF FlushManifest, mem, TypeOK
<1>14. ASSUME FlushOpen PROVE TypeInv'
  <2>1. InPlace /\ pc # "idle"
    BY <1>14 DEF FlushOpen, InPlace, FlushSteps
  <2>2. mman' \in ManifestData /\ memtable' \subseteq Version
    BY <1>14, <1>l, <2>1 DEF FlushOpen, TypeOK
  <2>3. pc' \in {"rotate_close", "idle"} /\ call' \in Calls
    BY <1>14, <1>f, <1>c DEF FlushOpen
  <2>4. faults' \in Nat
    BY <1>14, <1>a, <1>b DEF FlushOpen
  <2> QED BY <1>8, <1>9, <1>10, <1>14, <2>1, <2>2, <2>3, <2>4 DEF FlushOpen, disk, TypeOK
<1>15. ASSUME Compact PROVE TypeInv'
  <2>1. CASE mman.nextSst <= MaxTables /\ Truncate(mman.nextSst) /\ Start("compact", "compact_write")
    <3>1. mman.nextSst \in TableIds
      BY <2>1, BoundsAssumption DEF TypeOK, ManifestData, TableIds
    <3>2. sst' \in Tables
      BY <1>j, <2>1, <3>1
    <3>3. pc' = "compact_write" /\ call' \in Calls
      BY <2>1, <1>m DEF Start
    <3> QED BY <1>8, <1>10, <1>15, <1>b, <2>1, <3>2, <3>3 DEF Compact, mem, TypeOK
  <2>2. CASE Reply("compact", FALSE) /\ UNCHANGED sst
    <3>1. pc' = "idle" /\ call' \in Calls
      BY <2>2, <1>m DEF Reply
    <3> QED BY <1>8, <1>10, <1>15, <1>b, <2>2, <3>1 DEF Compact, mem, TypeOK
  <2> QED BY <1>15, <2>1, <2>2 DEF Compact
<1>16. ASSUME CompactWrite PROVE TypeInv'
  <2>1. InPlace /\ pc # "idle"
    BY <1>16 DEF CompactWrite, InPlace, CompactSteps
  <2>2. MergeInput \subseteq Version
    BY RecoverableType DEF MergeInput
  <2>3. sst' \in Tables
    <3>1. ASSUME NEW S, S \subseteq Version, Write(mman.nextSst, S) PROVE sst' \in Tables
      BY <1>j, <1>k, <2>1, <3>1
    <3>2. \/ Write(mman.nextSst, MergeInput)
          \/ \E r \in MergeInput : Write(mman.nextSst, MergeInput \ {r})
          \/ UNCHANGED sst
      BY <1>16 DEF CompactWrite
    <3>3. CASE \E r \in MergeInput : Write(mman.nextSst, MergeInput \ {r})
      <4>1. PICK r \in MergeInput : Write(mman.nextSst, MergeInput \ {r})
        BY <3>3
      <4>2. MergeInput \ {r} \subseteq Version
        BY <2>2
      <4> QED BY <3>1, <4>1, <4>2
    <3> QED BY <2>2, <3>1, <3>2, <3>3 DEF TypeOK
  <2>4. pc' \in {"compact_open", "idle"} /\ call' \in Calls
    BY <1>16, <1>f, <1>c DEF CompactWrite
  <2>5. faults' \in Nat
    BY <1>16, <1>a, <1>b DEF CompactWrite
  <2> QED BY <1>8, <1>9, <1>10, <1>16, <2>1, <2>3, <2>4, <2>5 DEF CompactWrite, mem, TypeOK
<1>17. ASSUME CompactOpen PROVE TypeInv'
  <2>1. InPlace /\ pc # "idle"
    BY <1>17 DEF CompactOpen, InPlace, CompactSteps
  <2>2. pc' \in {"compact_manifest", "idle"} /\ call' \in Calls
    BY <1>17, <1>f, <1>c DEF CompactOpen
  <2>3. faults' \in Nat
    BY <1>17, <1>a, <1>b DEF CompactOpen
  <2> QED BY <1>8, <1>9, <1>10, <1>17, <2>1, <2>2, <2>3 DEF CompactOpen, disk, mem, TypeOK
<1>18. ASSUME CompactManifest PROVE TypeInv'
  <2>1. InPlace /\ pc # "idle"
    BY <1>18 DEF CompactManifest, InPlace, CompactSteps
  <2>2. manifest' \in ManifestData /\ mman' \in ManifestData
    BY <1>18, <1>g, <1>l, <2>1 DEF CompactManifest, SaveManifest, SaveFails, TypeOK
  <2>3. victims' \subseteq TableIds
    BY <1>18 DEF CompactManifest, TypeOK, ManifestData
  <2>4. pc' \in {"compact_delete", "idle"} /\ call' \in Calls
    BY <1>18, <1>f, <1>c DEF CompactManifest
  <2>5. faults' \in Nat
    BY <1>18, <1>a, <1>b DEF CompactManifest, SaveManifest, SaveFails
  <2> QED BY <1>8, <1>9, <1>10, <1>18, <2>1, <2>2, <2>3, <2>4, <2>5 DEF CompactManifest, TypeOK
<1>19. ASSUME CompactDelete PROVE TypeInv'
  <2>1. PICK id \in victims : /\ Truncate(id) /\ victims' = victims \ {id}
                              /\ Return(TRUE) \/ Goto("compact_delete")
    BY <1>19 DEF CompactDelete
  <2>2. id \in TableIds
    BY DEF TypeOK
  <2>3. sst' \in Tables
    BY <1>j, <2>1, <2>2
  <2>4. pc' \in {"compact_delete", "idle"} /\ call' \in Calls
    BY <2>1, <1>f, <1>c
  <2>5. faults' \in Nat /\ opened
    BY <1>19, <1>b, <1>9 DEF CompactDelete
  <2> QED BY <1>8, <1>10, <1>19, <2>1, <2>3, <2>4, <2>5 DEF CompactDelete, TypeOK
<1>20. ASSUME Flush PROVE TypeInv'
  <2>1. call' \in Calls /\ (pc' = "idle" \/ (pc' = "flush_begin" /\ mman.nextSst <= MaxTables))
    <3>1. CASE mman.nextSst <= MaxTables /\ Start("flush", "flush_begin")
      BY <3>1, <1>m DEF Start
    <3>2. CASE Reply("flush", TRUE)
      BY <3>2, <1>m DEF Reply
    <3> QED BY <1>20, <3>1, <3>2 DEF Flush
  <2> QED BY <1>8, <1>10, <1>20, <1>b, <2>1 DEF Flush, disk, mem, TypeOK
<1>21. ASSUME Close PROVE TypeInv'
  <2>1. manifest' \in ManifestData
    BY <1>21, <1>g DEF Close, SaveManifest, SaveFails, TypeOK
  <2>2. pc' = "close_wal" /\ call' \in Calls
    BY <1>21, <1>m DEF Close
  <2>3. faults' \in Nat
    BY <1>21, <1>a, <1>b DEF Close, SaveManifest, SaveFails
  <2>4. "close_wal" \in Steps /\ "close_wal" \notin FlushSteps \cup CompactSteps
    BY DEF Steps, FlushSteps, CompactSteps
  <2> QED BY <1>8, <1>21, <2>1, <2>2, <2>3, <2>4 DEF Close, mem, TypeOK
<1>22. ASSUME AppendRefused \/ OpenFails PROVE TypeInv'
  <2>1. pc' = "idle" /\ call' \in Calls
    BY <1>22, <1>m DEF AppendRefused, OpenFails, Reply
  <2>2. faults' \in Nat
    BY <1>22, <1>a, <1>b DEF AppendRefused, OpenFails
  <2>3. writer' \in {"none", "ok", "bad", "closed"}
    BY <1>22 DEF AppendRefused, OpenFails, mem, TypeOK
  <2>4. UNCHANGED <<disk, mman, memtable, recent, buf, opened, victims, log, crashes>>
    BY <1>22 DEF AppendRefused, OpenFails, mem
  <2> QED BY <1>10, <2>1, <2>2, <2>3, <2>4 DEF disk, TypeOK, TypeInv, StepInv
<1>23. CASE UNCHANGED vars
  BY <1>23 DEF vars, disk, mem, TypeOK, TypeInv, StepInv
<1> QED
  BY <1>1, <1>2, <1>4, <1>5, <1>6, <1>7, <1>11, <1>12, <1>13, <1>14, <1>15, <1>16,
     <1>17, <1>18, <1>19, <1>20, <1>21, <1>22, <1>23
  DEF Next, Step, Insert, Erase

\* Every variable keeps its type whatever fails: in particular next_sstable_id
\* never runs past the bound in the middle of an operation.
THEOREM TypeCorrect == Spec => []TypeOK
<1>1. TypeInv => TypeOK
  BY DEF TypeInv
<1> QED BY <1>1, InitTypeInv, TypeInvStep, PTL DEF Spec

-----------------------------------------------------------------------------
(***************************************************************************)
(* Sequence numbers, whatever fails and whatever is lost by it.            *)
(***************************************************************************)

\* Where the records of the table being built are already in its file.
BuildSteps == (FlushSteps \ {"flush_begin"}) \cup CompactSteps

Building == IF pc \in BuildSteps THEN sst[mman.nextSst].recs ELSE {}

\* Every version that a step may still copy somewhere.
Held == memtable \cup recent \cup buf \cup Recoverable
          \cup Stored(mman.tables) \cup Building

FreshInv == opened => \A r \in Held : r.seq < mman.nextSeq

\* What Held is made of after a step that only moves versions about.
LEMMA HeldParts ==
  ASSUME NEW H, memtable' \subseteq H, recent' \subseteq H, buf' \subseteq H,
         EnableWal => wal'.recs \subseteq H,
         \A id \in manifest'.tables \cup mman'.tables : sst'[id].recs \subseteq H,
         pc' \in BuildSteps => sst'[mman'.nextSst].recs \subseteq H
  PROVE  Held' \subseteq H
<1>1. Stored(manifest.tables)' \subseteq H /\ Stored(mman.tables)' \subseteq H
  BY DEF Stored
<1>2. Recoverable' \subseteq H
  BY <1>1 DEF Recoverable, Replayed
<1>3. Building' \subseteq H
  BY DEF Building
<1> QED BY <1>1, <1>2, <1>3 DEF Held

\* Only an append uses up a sequence number, and only open() takes a new one
\* from the files; the other steps move versions about.
LEMMA FreshInvStep ==
  ASSUME TypeInv, FreshInv, [Next]_vars
  PROVE  FreshInv'
<1> DEFINE Moved ==
      /\ memtable' \subseteq Held /\ recent' \subseteq Held /\ buf' \subseteq Held
      /\ EnableWal => wal'.recs \subseteq Held
      /\ \A id \in manifest'.tables \cup mman'.tables : sst'[id].recs \subseteq Held
      /\ pc' \in BuildSteps => sst'[mman'.nextSst].recs \subseteq Held
<1> SUFFICES ASSUME opened' PROVE \A r \in Held' : r.seq < mman'.nextSeq
  BY DEF FreshInv
<1> USE DEF TypeInv
<1>1. ASSUME opened, mman'.nextSeq = mman.nextSeq, Moved
      PROVE  \A r \in Held' : r.seq < mman'.nextSeq
  <2>1. Held' \subseteq Held
    BY <1>1, HeldParts
  <2> QED BY <1>1, <2>1 DEF FreshInv
<1>2. /\ memtable \subseteq Held /\ recent \subseteq Held /\ buf \subseteq Held
      /\ EnableWal => wal.recs \subseteq Held
      /\ \A id \in manifest.tables \cup mman.tables : sst[id].recs \subseteq Held
      /\ pc \in BuildSteps => sst[mman.nextSst].recs \subseteq Held
      /\ Stored(mman.tables) \subseteq Held
  BY DEF Held, Recoverable, Replayed, Stored, Building
<1>3. /\ manifest.tables \subseteq TableIds /\ mman.tables \subseteq TableIds
      /\ \A id \in TableIds : sst[id].recs \subseteq Version
      /\ DOMAIN sst = TableIds
  BY DEF TypeOK, ManifestData, Tables
<1>4. pc \in FlushSteps \cup CompactSteps => mman.nextSst \in TableIds
  BY BoundsAssumption DEF StepInv, TypeOK, ManifestData, TableIds
\* A step that rewrites one table file with versions that are held already.
<1>5. ASSUME NEW id \in TableIds, NEW S, S \subseteq Held,
             Truncate(id) \/ Write(id, S)
      PROVE  /\ sst'[id].recs \subseteq Held
             /\ \A j \in TableIds : sst[j].recs \subseteq Held => sst'[j].recs \subseteq Held
  BY <1>3, <1>5 DEF Truncate, Write, NewestOf
<1>6. ASSUME UNCHANGED <<memtable, recent, buf, mman, manifest, wal, opened>>,
             \A j \in TableIds : sst[j].recs \subseteq Held => sst'[j].recs \subseteq Held,
             \/ pc' \notin BuildSteps
             \/ sst'[mman.nextSst].recs \subseteq Held
      PROVE  \A r \in Held' : r.seq < mman'.nextSeq
  BY <1>1, <1>2, <1>3, <1>6
<1>7. wal' = Logged(buf) \/ wal' \in Spilled => (EnableWal => wal'.recs \subseteq Held)
  <2>1. CASE wal' = Logged(buf)
    BY <1>2, <2>1 DEF Logged, TypeOK, WalFile
  <2>2. CASE wal' \in Spilled
    BY <1>2, <2>2, SpilledIsPrefix DEF UpTo
  <2> QED BY <2>1, <2>2
<1>8. ASSUME UNCHANGED <<memtable, recent, sst, opened>>, opened,
             mman'.nextSeq = mman.nextSeq, buf' \subseteq Held,
             EnableWal => wal'.recs \subseteq Held,
             manifest'.tables \cup mman'.tables \subseteq manifest.tables \cup mman.tables,
             pc' \notin BuildSteps
      PROVE  \A r \in Held' : r.seq < mman'.nextSeq
  BY <1>1, <1>2, <1>3, <1>8
<1> HIDE DEF Moved
\* One step per action.
<1>11. ASSUME NEW n \in Nodes, NEW v \in Values \cup {Deleted}, Append(n, v)
       PROVE  \A r \in Held' : r.seq < mman'.nextSeq
  <2> DEFINE r == [seq |-> mman.nextSeq, node |-> n, val |-> v]
  <2>1. /\ memtable' \subseteq Held \cup {r} /\ recent' \subseteq Held \cup {r}
        /\ buf' \subseteq Held \cup {r} /\ opened
        /\ mman' = [mman EXCEPT !.nextSeq = @ + 1]
        /\ UNCHANGED disk
    BY <1>11, <1>2 DEF Append, Overwrite
  <2>2. pc' \notin BuildSteps
    BY <1>11 DEF Append, Start, Reply, BuildSteps, FlushSteps, CompactSteps
  <2>3. /\ mman.nextSeq \in Nat /\ mman'.nextSeq = mman.nextSeq + 1
        /\ mman'.tables = mman.tables
    BY <2>1 DEF TypeOK, ManifestData
  <2>4. r.seq = mman.nextSeq
    OBVIOUS
  <2> HIDE DEF r
  <2>5. Held' \subseteq Held \cup {r}
    BY <1>2, <2>1, <2>2, <2>3, HeldParts DEF disk
  <2>6. \A q \in Held : q.seq < mman.nextSeq /\ q.seq \in Nat
    <3>1. Held \subseteq Version
      BY RecoverableType, <1>3, <1>4 DEF Held, Building, BuildSteps, FlushSteps, CompactSteps, TypeOK
    <3> QED BY <2>1, <3>1 DEF FreshInv, Version
  <2> QED BY <2>3, <2>4, <2>5, <2>6
<1>12. ASSUME Open PROVE \A r \in Held' : r.seq < mman'.nextSeq
  <2>1. /\ memtable' \subseteq Recoverable /\ recent' \subseteq Recoverable
        /\ buf' \subseteq Recoverable
        /\ mman'.tables = manifest.tables /\ UNCHANGED disk
        /\ mman'.nextSeq = NextSeqFor(Recoverable)
        /\ pc' \notin BuildSteps
    BY <1>12 DEF Open, NewestOf, Recoverable, TypeOK, ManifestData, Reply,
       BuildSteps, FlushSteps, CompactSteps
  <2>2. /\ EnableWal => wal.recs \subseteq Recoverable
        /\ \A id \in manifest.tables : sst[id].recs \subseteq Recoverable
    BY DEF Recoverable, Replayed, Stored
  <2>3. Held' \subseteq Recoverable
    BY <2>1, <2>2, HeldParts DEF disk
  <2>4. Recoverable \subseteq Version
    BY RecoverableType
  <2>5. /\ \A r \in Recoverable : r.seq <= LastSeq(Recoverable) /\ r.seq \in Nat
        /\ LastSeq(Recoverable) \in Nat
    BY <2>4, LastSeqIsMax DEF Version
  <2>6. LastSeq(Recoverable) < NextSeqFor(Recoverable) /\ NextSeqFor(Recoverable) \in Nat
    BY <2>4, NextSeqForType
  <2> QED BY <2>1, <2>3, <2>5, <2>6
<1>13. ASSUME AppendRefused \/ Flush \/ CompactOpen \/ OpenFails
       PROVE  \A r \in Held' : r.seq < mman'.nextSeq
  <2>1. UNCHANGED <<memtable, recent, buf, mman, disk, opened>>
    BY <1>13 DEF AppendRefused, Flush, CompactOpen, OpenFails, mem
  <2>2. pc' \notin BuildSteps \/ pc \in BuildSteps
    BY <1>13 DEF AppendRefused, Flush, CompactOpen, OpenFails, Reply, Start, BuildSteps, CompactSteps, FlushSteps
  <2> QED BY <1>2, <1>6, <2>1, <2>2 DEF disk
<1>14. ASSUME FlushBegin PROVE \A r \in Held' : r.seq < mman'.nextSeq
  <2>1. mman.nextSst \in TableIds
    BY <1>4, <1>14 DEF FlushBegin, FlushSteps
  <2>2. Truncate(mman.nextSst) /\ UNCHANGED <<memtable, recent, buf, mman, manifest, wal, opened>>
    BY <1>14 DEF FlushBegin, mem
  <2> QED BY <1>5, <1>6, <2>1, <2>2
<1>15. ASSUME FlushWrite PROVE \A r \in Held' : r.seq < mman'.nextSeq
  <2>1. mman.nextSst \in TableIds /\ pc \in BuildSteps
    BY <1>4, <1>15 DEF FlushWrite, FlushSteps, BuildSteps
  <2>2. UNCHANGED <<memtable, recent, buf, mman, manifest, wal, opened>>
    BY <1>15 DEF FlushWrite, mem
  <2>3. Write(mman.nextSst, memtable) \/ UNCHANGED sst
    BY <1>15 DEF FlushWrite
  <2> QED BY <1>2, <1>5, <1>6, <2>1, <2>2, <2>3
<1>16. ASSUME FlushManifest PROVE \A r \in Held' : r.seq < mman'.nextSeq
  <2>1. mman.nextSst \in TableIds /\ pc \in BuildSteps /\ opened
    BY <1>4, <1>16 DEF FlushManifest, FlushSteps, BuildSteps, StepInv
  <2>2. UNCHANGED <<memtable, recent, buf, mman, sst, wal, opened>>
    BY <1>16 DEF FlushManifest, mem
  <2>3. manifest'.tables \subseteq manifest.tables \cup mman.tables \cup {mman.nextSst}
    <3>1. WithNewTable.tables = mman.tables \cup {mman.nextSst}
      BY DEF WithNewTable, TypeOK, ManifestData
    <3>2. NewManifest.tables = {}
      BY DEF NewManifest
    <3> QED BY <1>16, <3>1, <3>2 DEF FlushManifest, SaveManifest, SaveFails
  <2> QED BY <1>1, <1>2, <1>3, <2>1, <2>2, <2>3 DEF Moved
<1>17. ASSUME FlushOpen PROVE \A r \in Held' : r.seq < mman'.nextSeq
  <2>1. mman.nextSst \in TableIds /\ pc \in BuildSteps /\ opened
    BY <1>4, <1>17 DEF FlushOpen, FlushSteps, BuildSteps, StepInv
  <2>2. UNCHANGED <<recent, buf, sst, wal, manifest, opened>> /\ memtable' \subseteq memtable
    BY <1>17 DEF FlushOpen, disk
  <2>3. /\ mman'.tables \subseteq mman.tables \cup {mman.nextSst}
        /\ mman'.nextSeq = mman.nextSeq
    BY <1>17 DEF FlushOpen, WithNewTable, TypeOK, ManifestData
  <2>4. pc' \notin BuildSteps
    BY <1>17 DEF FlushOpen, Goto, Return, BuildSteps, FlushSteps, CompactSteps
  <2> QED BY <1>1, <1>2, <1>3, <2>1, <2>2, <2>3, <2>4 DEF Moved
<1>18. ASSUME RotateClose PROVE \A r \in Held' : r.seq < mman'.nextSeq
  <2>1. /\ UNCHANGED <<memtable, recent, sst, mman, manifest, opened>> /\ opened
        /\ buf' \subseteq Held /\ (wal' = Logged(buf) \/ wal' \in Spilled)
        /\ pc' \notin BuildSteps
    BY <1>18 DEF RotateClose, StepInv, Goto, Return, BuildSteps, FlushSteps, CompactSteps
  <2> QED BY <1>7, <1>8, <2>1
<1>19. ASSUME RotateRemove PROVE \A r \in Held' : r.seq < mman'.nextSeq
  <2>1. /\ UNCHANGED <<memtable, recent, sst, mman, manifest, buf, opened>> /\ opened
        /\ wal'.recs = {} \/ wal' = wal
        /\ pc' \notin BuildSteps
    BY <1>19 DEF RotateRemove, StepInv, Return, BuildSteps, FlushSteps, CompactSteps
  <2> QED BY <1>2, <1>8, <2>1
<1>20. ASSUME Compact PROVE \A r \in Held' : r.seq < mman'.nextSeq
  <2>1. UNCHANGED <<memtable, recent, buf, mman, manifest, wal, opened>>
    BY <1>20 DEF Compact, mem
  <2>2. CASE mman.nextSst <= MaxTables /\ Truncate(mman.nextSst)
    <3>1. mman.nextSst \in TableIds
      BY <2>2, BoundsAssumption DEF TypeOK, ManifestData, TableIds
    <3> QED BY <1>5, <1>6, <2>1, <2>2, <3>1
  <2>3. CASE Reply("compact", FALSE) /\ UNCHANGED sst
    BY <1>6, <2>1, <2>3 DEF Reply, BuildSteps, FlushSteps, CompactSteps
  <2> QED BY <1>20, <2>2, <2>3 DEF Compact
<1>21. ASSUME CompactWrite PROVE \A r \in Held' : r.seq < mman'.nextSeq
  <2>1. mman.nextSst \in TableIds /\ pc \in BuildSteps
    BY <1>4, <1>21 DEF CompactWrite, CompactSteps, BuildSteps
  <2>2. UNCHANGED <<memtable, recent, buf, mman, manifest, wal, opened>>
    BY <1>21 DEF CompactWrite, mem
  <2>3. \/ \E S : S \subseteq MergeInput /\ Write(mman.nextSst, S)
        \/ UNCHANGED sst
    BY <1>21 DEF CompactWrite
  <2>4. MergeInput \subseteq Held
    BY <1>2 DEF MergeInput
  <2> QED BY <1>2, <1>5, <1>6, <2>1, <2>2, <2>3, <2>4
<1>22. ASSUME CompactManifest PROVE \A r \in Held' : r.seq < mman'.nextSeq
  <2>1. mman.nextSst \in TableIds /\ pc \in BuildSteps /\ opened
    BY <1>4, <1>22 DEF CompactManifest, CompactSteps, BuildSteps, StepInv
  <2>2. UNCHANGED <<memtable, recent, buf, sst, wal, opened>>
    BY <1>22 DEF CompactManifest
  <2>3. /\ manifest'.tables \cup mman'.tables
             \subseteq manifest.tables \cup mman.tables \cup {mman.nextSst}
        /\ mman'.nextSeq = mman.nextSeq
    <3>1. /\ OnlyNewTable.tables = {mman.nextSst}
          /\ OnlyNewTable.nextSeq = mman.nextSeq
      BY DEF OnlyNewTable, TypeOK, ManifestData
    <3>2. NewManifest.tables = {}
      BY DEF NewManifest
    <3> QED BY <1>22, <3>1, <3>2 DEF CompactManifest, SaveManifest, SaveFails
  <2>4. pc' \notin BuildSteps
    BY <1>22 DEF CompactManifest, Goto, Return, BuildSteps, FlushSteps, CompactSteps
  <2> QED BY <1>1, <1>2, <1>3, <2>1, <2>2, <2>3, <2>4 DEF Moved
<1>23. ASSUME CompactDelete PROVE \A r \in Held' : r.seq < mman'.nextSeq
  <2>1. PICK id \in TableIds : Truncate(id)
    BY <1>23 DEF CompactDelete, TypeOK
  <2>2. UNCHANGED <<memtable, recent, buf, mman, manifest, wal, opened>>
    BY <1>23 DEF CompactDelete
  <2>3. pc' \notin BuildSteps
    BY <1>23 DEF CompactDelete, Goto, Return, BuildSteps, FlushSteps, CompactSteps
  <2> QED BY <1>5, <1>6, <2>1, <2>2, <2>3
<1>24. ASSUME Close PROVE \A r \in Held' : r.seq < mman'.nextSeq
  <2>1. /\ UNCHANGED <<memtable, recent, sst, mman, buf, wal, opened>> /\ opened
        /\ pc' \notin BuildSteps
    BY <1>24 DEF Close, mem, BuildSteps, FlushSteps, CompactSteps
  <2>2. manifest'.tables \subseteq manifest.tables \cup mman.tables
    BY <1>24 DEF Close, SaveManifest, SaveFails, NewManifest
  <2> QED BY <1>2, <1>8, <2>1, <2>2
<1>25. ~Crash /\ ~CloseWal
  BY DEF Crash, CloseWal, Forget
<1>26. ASSUME UNCHANGED vars PROVE \A r \in Held' : r.seq < mman'.nextSeq
  BY <1>2, <1>6, <1>26 DEF vars, disk, mem
<1> QED
  BY <1>11, <1>12, <1>13, <1>14, <1>15, <1>16, <1>17, <1>18, <1>19, <1>20,
     <1>21, <1>22, <1>23, <1>24, <1>25, <1>26
  DEF Next, Step, Insert, Erase

\* No sequence number is handed out twice, whatever fails: also when a lost
\* manifest makes open() start over, next_sequence_id is beyond every version
\* that is still in memory or on disk.
THEOREM FreshSequence == Spec => []SequenceIsFresh
<1>1. Init => FreshInv
  BY DEF Init, FreshInv
<1>2. FreshInv => SequenceIsFresh
  BY DEF FreshInv, SequenceIsFresh, Held
<1>3. TypeInv /\ FreshInv /\ [Next]_vars => FreshInv'
  BY FreshInvStep
<1> QED BY <1>1, <1>2, <1>3, InitTypeInv, TypeInvStep, PTL DEF Spec

-----------------------------------------------------------------------------
\* The files, as long as no failure is a Harmful one.

Harmless == Faults \cap Harmful = {}

\* The manifest on disk names the manager's tables, one more between the two
\* halves of a flush.  Ids grow, and only compact_delete has tables to delete.
ListInv ==
  /\ \A id \in manifest.tables : id < manifest.nextSst
  /\ opened => \A id \in mman.tables : id < mman.nextSst
  /\ opened => manifest.tables =
       (IF pc = "flush_open" THEN mman.tables \cup {mman.nextSst}
                             ELSE mman.tables)
  /\ victims \cap mman.tables = {}
  /\ pc # "compact_delete" => victims = {}

\* The table being built, once it is written.
BuildInv ==
  /\ pc \in {"flush_manifest", "flush_open"} =>
       sst[mman.nextSst] = [recs |-> NewestOf(memtable), ok |-> TRUE]
  /\ pc \in {"compact_open", "compact_manifest"} =>
       sst[mman.nextSst] = [recs |-> NewestOf(Stored(mman.tables)), ok |-> TRUE]

TableInv == TypeInv /\ ListInv /\ BuildInv /\ ManifestTablesOpen

-----------------------------------------------------------------------------
(***************************************************************************)
(* The tables.                                                             *)
(***************************************************************************)

LEMMA NoHarmfulFault ==
  ASSUME Harmless, NEW kind \in Harmful
  PROVE  ~Fail(kind)
BY DEF Harmless, Fail

LEMMA NewTableFields ==
  ASSUME TypeOK
  PROVE  /\ WithNewTable.tables = mman.tables \cup {mman.nextSst}
         /\ WithNewTable.nextSst = mman.nextSst + 1
         /\ WithNewTable.nextSeq = mman.nextSeq
         /\ OnlyNewTable.tables = {mman.nextSst}
         /\ OnlyNewTable.nextSst = mman.nextSst + 1
         /\ OnlyNewTable.nextSeq = mman.nextSeq
<1>1. mman \in ManifestData
  BY DEF TypeOK
<1> QED BY <1>1 DEF WithNewTable, OnlyNewTable, ManifestData

LEMMA ListInvStep ==
  ASSUME Harmless, TypeInv, BuildInv, ListInv, [Next]_vars
  PROVE  ListInv'
<1>1. ~Fail("meta_lost") /\ ~Fail("manifest_swap") /\ ~Fail("reader_open")
  BY NoHarmfulFault DEF Harmful
<1>2. mman.nextSst \in Nat /\ manifest.nextSst \in Nat
  BY BoundsAssumption DEF TypeInv, TypeOK, ManifestData
<1>3. pc # "idle" => opened
  BY DEF TypeInv, StepInv
<1>4. ASSUME UNCHANGED <<manifest, mman, victims, opened>>,
             pc # "flush_open", pc' # "flush_open", pc # "compact_delete"
      PROVE  ListInv'
  BY <1>4 DEF ListInv
<1>5. ASSUME NEW n \in Nodes, NEW v, Append(n, v) PROVE ListInv'
  <2>1. /\ mman'.tables = mman.tables /\ mman'.nextSst = mman.nextSst
        /\ UNCHANGED <<manifest, victims, opened>>
        /\ pc = "idle" /\ pc' \in {"idle", "flush_begin"}
    BY <1>5 DEF Append, disk, TypeInv, TypeOK, ManifestData, Start, Reply
  <2> QED BY <2>1 DEF ListInv
<1>6. ASSUME AppendRefused \/ Flush \/ Compact \/ OpenFails PROVE ListInv'
  BY <1>4, <1>6 DEF AppendRefused, Flush, Compact, OpenFails, Reply, Start, disk, mem
<1>7. ASSUME FlushBegin \/ FlushWrite \/ CompactWrite \/ CompactOpen PROVE ListInv'
  BY <1>4, <1>7
  DEF FlushBegin, FlushWrite, CompactWrite, CompactOpen, Goto, Return, disk, mem
<1>8. ASSUME RotateClose \/ RotateRemove PROVE ListInv'
  BY <1>4, <1>8 DEF RotateClose, RotateRemove, Goto, Return
<1>9. ASSUME FlushManifest PROVE ListInv'
  <2>1. CASE manifest' = WithNewTable /\ pc' = "flush_open"
    <3>1. opened /\ pc = "flush_manifest" /\ UNCHANGED <<mman, opened, victims>>
      BY <1>3, <1>9 DEF FlushManifest, mem
    <3>2. manifest.tables = mman.tables /\ victims = {} /\ \A id \in mman.tables : id < mman.nextSst
      BY <3>1 DEF ListInv
    <3>3. manifest'.tables = mman.tables \cup {mman.nextSst} /\ manifest'.nextSst = mman.nextSst + 1
      BY <2>1, NewTableFields DEF TypeInv
    <3>4. mman.tables \subseteq Nat
      BY DEF TypeInv, TypeOK, ManifestData, TableIds
    <3>5. \A id \in manifest'.tables : id < manifest'.nextSst
      BY <1>2, <3>2, <3>3, <3>4
    <3> QED BY <2>1, <3>1, <3>2, <3>3, <3>5 DEF ListInv
  <2>2. CASE UNCHANGED manifest /\ pc' = "idle"
    BY <1>4, <1>9, <2>2 DEF FlushManifest, mem
  <2> QED BY <1>1, <1>9, <2>1, <2>2
          DEF FlushManifest, SaveManifest, SaveFails, Goto, Return
<1>10. ASSUME FlushOpen PROVE ListInv'
  <2>1. Opens(mman.nextSst)
    BY <1>10 DEF FlushOpen, BuildInv, Opens
  <2>2. mman' = WithNewTable /\ pc' \in {"rotate_close", "idle"}
    BY <1>1, <1>10, <2>1 DEF FlushOpen, Goto, Return
  <2>3. manifest.tables = mman.tables \cup {mman.nextSst} /\ victims = {} /\ opened
    BY <1>3, <1>10 DEF FlushOpen, ListInv
  <2>4. UNCHANGED <<manifest, victims, opened>>
    BY <1>10 DEF FlushOpen, disk
  <2>5. \A id \in mman'.tables : id < mman'.nextSst
    BY <1>2, <2>2, <2>3, NewTableFields DEF ListInv, TypeInv, TypeOK, ManifestData, TableIds
  <2> QED BY <2>2, <2>3, <2>4, <2>5, NewTableFields DEF ListInv, TypeInv
<1>11. ASSUME CompactManifest PROVE ListInv'
  <2>1. CASE manifest' = OnlyNewTable /\ mman' = OnlyNewTable /\ victims' = mman.tables
             /\ pc' = "compact_delete"
    BY <1>2, <1>3, <1>11, <2>1
    DEF CompactManifest, OnlyNewTable, ListInv, TypeInv, TypeOK, ManifestData
  <2>2. CASE UNCHANGED <<manifest, mman, victims>> /\ pc' = "idle"
    BY <1>4, <1>11, <2>2 DEF CompactManifest
  <2> QED BY <1>1, <1>11, <2>1, <2>2
          DEF CompactManifest, SaveManifest, SaveFails, Goto, Return
<1>12. ASSUME CompactDelete PROVE ListInv'
  BY <1>12 DEF CompactDelete, Goto, Return, ListInv
<1>13. ASSUME Open PROVE ListInv'
  <2>1. mman'.tables = manifest.tables /\ mman'.nextSst = manifest.nextSst
    BY <1>13 DEF Open, TypeInv, TypeOK, ManifestData
  <2> QED BY <1>13, <2>1 DEF Open, Reply, disk, ListInv
<1>14. ASSUME Close PROVE ListInv'
  <2>1. manifest'.tables = manifest.tables /\ (manifest' = mman \/ manifest' = manifest)
    BY <1>1, <1>14 DEF Close, SaveManifest, SaveFails, ListInv
  <2> QED BY <1>14, <2>1 DEF Close, mem, ListInv
<1>15. ASSUME Forget, UNCHANGED manifest, pc' = "idle" PROVE ListInv'
  BY <1>15 DEF Forget, ListInv, NewManifest
<1>16. ASSUME Crash \/ CloseWal PROVE ListInv'
  BY <1>15, <1>16 DEF Crash, CloseWal, Return
<1>17. CASE UNCHANGED vars
  BY <1>17 DEF vars, disk, mem, ListInv
<1> QED
  BY <1>5, <1>6, <1>7, <1>8, <1>9, <1>10, <1>11, <1>12, <1>13, <1>14, <1>16, <1>17
  DEF Next, Step, Insert, Erase

\* No step of any operation touches a file of a table the manifest names.
LEMMA ListedTablesKept ==
  ASSUME TypeInv, ListInv, [Next]_vars
  PROVE  \A id \in manifest.tables : sst'[id] = sst[id]
<1>1. ASSUME NEW j \in TableIds, NEW S, Truncate(j) \/ Write(j, S), j \notin manifest.tables
      PROVE  \A id \in manifest.tables : sst'[id] = sst[id]
  BY <1>1 DEF Truncate, Write, TypeInv, TypeOK, ManifestData, Tables
<1>2. opened /\ pc # "flush_open" /\ mman.nextSst <= MaxTables =>
        mman.nextSst \in TableIds \ manifest.tables
  BY BoundsAssumption DEF ListInv, TypeInv, TypeOK, ManifestData, TableIds
<1>3. (pc = "idle" /\ opened) \/ pc \in {"flush_begin", "flush_write", "compact_write"} => opened
  BY DEF TypeInv, StepInv
<1>4. pc \in {"flush_begin", "flush_write", "compact_write"} => mman.nextSst <= MaxTables
  BY DEF TypeInv, StepInv, FlushSteps, CompactSteps
<1>5. ASSUME FlushBegin \/ FlushWrite PROVE \A id \in manifest.tables : sst'[id] = sst[id]
  BY <1>1, <1>2, <1>3, <1>4, <1>5 DEF FlushBegin, FlushWrite
<1>6. ASSUME Compact \/ CompactWrite PROVE \A id \in manifest.tables : sst'[id] = sst[id]
  BY <1>1, <1>2, <1>3, <1>4, <1>6 DEF Compact, CompactWrite
<1>7. ASSUME CompactDelete PROVE \A id \in manifest.tables : sst'[id] = sst[id]
  <2>1. PICK j \in victims : Truncate(j)
    BY <1>7 DEF CompactDelete
  <2>2. opened /\ pc = "compact_delete"
    BY <1>7 DEF CompactDelete, TypeInv, StepInv
  <2>3. j \in TableIds /\ j \notin manifest.tables
    BY <2>2 DEF TypeInv, TypeOK, ListInv
  <2> QED BY <1>1, <2>1, <2>3
<1>8. UNCHANGED sst \/ FlushBegin \/ FlushWrite \/ Compact \/ CompactWrite \/ CompactDelete
  BY DEF Next, Step, Insert, Erase, Append, AppendRefused, Flush, FlushManifest, FlushOpen,
     RotateClose, RotateRemove, CompactOpen, CompactManifest, CloseWal, Open, OpenFails,
     Close, Crash, vars, disk, mem
<1> QED BY <1>5, <1>6, <1>7, <1>8

LEMMA StoredKept ==
  ASSUME NEW ids, \A id \in ids : sst'[id] = sst[id]
  PROVE  UNION {sst'[id].recs : id \in ids} = Stored(ids)
BY DEF Stored

\* What a step can do to the manifest, as long as no failure is harmful.
LEMMA ManifestSteps ==
  ASSUME Harmless, TypeInv, ListInv, BuildInv, [Next]_vars
  PROVE  \/ manifest'.tables = manifest.tables
         \/ /\ pc = "flush_manifest" /\ FlushManifest
            /\ manifest'.tables = manifest.tables \cup {mman.nextSst}
         \/ /\ pc = "compact_manifest" /\ CompactManifest
            /\ manifest'.tables = {mman.nextSst}
<1>1. ~Fail("manifest_swap")
  BY NoHarmfulFault DEF Harmful
<1>2. pc # "idle" => opened
  BY DEF TypeInv, StepInv
<1>3. ASSUME FlushManifest
      PROVE  manifest'.tables \in {manifest.tables, manifest.tables \cup {mman.nextSst}}
  BY <1>1, <1>2, <1>3, NewTableFields
  DEF FlushManifest, SaveManifest, SaveFails, TypeInv, ListInv
<1>4. ASSUME CompactManifest
      PROVE  manifest'.tables \in {manifest.tables, {mman.nextSst}}
  BY <1>1, <1>2, <1>4, NewTableFields
  DEF CompactManifest, SaveManifest, SaveFails, TypeInv
<1>5. ASSUME Close PROVE manifest'.tables = manifest.tables
  BY <1>1, <1>2, <1>5 DEF Close, SaveManifest, SaveFails, ListInv
<1>6. UNCHANGED manifest \/ FlushManifest \/ CompactManifest \/ Close
  BY DEF Next, Step, Insert, Erase, Append, AppendRefused, Flush, FlushBegin, FlushWrite,
     FlushOpen, RotateClose, RotateRemove, Compact, CompactWrite, CompactOpen,
     CompactDelete, CloseWal, Open, OpenFails, Crash, vars, disk, mem
<1>7. FlushManifest => pc = "flush_manifest"
  BY DEF FlushManifest
<1>8. CompactManifest => pc = "compact_manifest"
  BY DEF CompactManifest
<1> QED BY <1>3, <1>4, <1>5, <1>6, <1>7, <1>8

LEMMA TablesOpenStep ==
  ASSUME Harmless, TableInv, [Next]_vars
  PROVE  ManifestTablesOpen'
<1>1. \A id \in manifest.tables : sst'[id] = sst[id]
  BY ListedTablesKept DEF TableInv
<1>2. \A id \in manifest.tables : sst'[id].ok
  BY <1>1 DEF TableInv, ManifestTablesOpen, Opens
<1>3. FlushManifest \/ CompactManifest => UNCHANGED sst
  BY DEF FlushManifest, CompactManifest
<1>4. pc \in {"flush_manifest", "compact_manifest"} => sst[mman.nextSst].ok
  BY DEF TableInv, BuildInv
<1> QED BY <1>2, <1>3, <1>4, ManifestSteps DEF TableInv, ManifestTablesOpen, Opens

LEMMA BuildInvStep ==
  ASSUME Harmless, TypeInv, ListInv, BuildInv, [Next]_vars
  PROVE  BuildInv'
<1>1. ~Fail("meta_lost") /\ ~Fail("scan_skip")
  BY NoHarmfulFault DEF Harmful
<1>2. pc \in FlushSteps \cup CompactSteps => mman.nextSst \in TableIds /\ opened
  BY BoundsAssumption
  DEF TypeInv, StepInv, TypeOK, ManifestData, TableIds, FlushSteps, CompactSteps
<1>3. ASSUME NEW id \in TableIds, NEW S, Write(id, S)
      PROVE  sst'[id] = [recs |-> NewestOf(S), ok |-> TRUE]
  BY <1>3 DEF Write, TypeInv, TypeOK, Tables
<1>4. CASE FlushWrite
  <2>1. UNCHANGED mem
    BY <1>4 DEF FlushWrite
  <2>2. \/ Write(mman.nextSst, memtable) /\ pc' = "flush_manifest"
        \/ pc' = "idle"
    BY <1>1, <1>4 DEF FlushWrite, Goto, Return
  <2>3. mman.nextSst \in TableIds
    BY <1>2, <1>4 DEF FlushWrite, FlushSteps
  <2> QED BY <1>3, <2>1, <2>2, <2>3 DEF BuildInv, mem
<1>5. CASE FlushManifest
  BY <1>5 DEF FlushManifest, BuildInv, mem, Goto, Return
<1>6. CASE CompactWrite
  <2>1. UNCHANGED mem
    BY <1>6 DEF CompactWrite
  <2>2. \/ Write(mman.nextSst, Stored(mman.tables)) /\ pc' = "compact_open"
        \/ pc' = "idle"
    BY <1>1, <1>6 DEF CompactWrite, Goto, Return, MergeInput
  <2>3. mman.nextSst \in TableIds /\ mman.tables = manifest.tables
    BY <1>2, <1>6 DEF CompactWrite, CompactSteps, ListInv
  <2>4. Stored(mman.tables)' = Stored(mman.tables)
    <3>1. \A id \in mman.tables : sst'[id] = sst[id]
      BY <2>3, ListedTablesKept
    <3> QED BY <2>1, <3>1, StoredKept DEF Stored, mem
  <2> QED BY <1>3, <2>1, <2>2, <2>3, <2>4 DEF BuildInv, mem
<1>7. CASE CompactOpen
  BY <1>7 DEF CompactOpen, BuildInv, disk, mem, Goto, Return, Stored
<1>8. CASE UNCHANGED vars
  BY <1>8 DEF vars, disk, mem, BuildInv, Stored
<1>9. CASE pc' \notin {"flush_manifest", "flush_open", "compact_open", "compact_manifest"}
  BY <1>9 DEF BuildInv
<1>10. \/ FlushWrite \/ FlushManifest \/ CompactWrite \/ CompactOpen \/ UNCHANGED vars
       \/ pc' \in {"idle", "flush_begin", "flush_write", "rotate_close", "rotate_remove",
                   "compact_write", "compact_delete", "close_wal"}
  BY DEF Next, Step, Insert, Erase, Append, AppendRefused, Flush, FlushBegin, FlushOpen,
     RotateClose, RotateRemove, Compact, CompactManifest, CompactDelete, CloseWal, Open,
     OpenFails, Close, Crash, Goto, Return, Start, Reply
<1> QED BY <1>4, <1>5, <1>6, <1>7, <1>8, <1>9, <1>10

LEMMA InitTableInv == Init => TableInv
<1> SUFFICES ASSUME Init PROVE ListInv /\ BuildInv /\ ManifestTablesOpen
  BY InitTypeInv DEF TableInv
<1> QED BY DEF Init, NewManifest, ListInv, BuildInv, ManifestTablesOpen

LEMMA TableInvStep ==
  ASSUME Harmless
  PROVE  TableInv /\ [Next]_vars => TableInv'
BY TypeInvStep, ListInvStep, BuildInvStep, TablesOpenStep DEF TableInv

\* Whatever crashes, and whatever fails without losing something by itself,
\* open() finds every table the manifest names.
THEOREM TablesOpen == ASSUME Harmless PROVE Spec => []ManifestTablesOpen
<1>1. TableInv /\ [Next]_vars => TableInv'
  BY TableInvStep
<1>2. TableInv => ManifestTablesOpen
  BY DEF TableInv
<1> QED BY <1>1, <1>2, InitTableInv, PTL DEF Spec
=============================================================================
