------------------------ MODULE DynamicStoreRecovery ------------------------
(***************************************************************************)
(* What a restart of DynamicStore finds, proved for every set of nodes and *)
(* values, every option and every bound, as long as no failure is one of   *)
(* the Harmful ones: a prefix of the history, and all of it after a flush. *)
(* It is the refinement of DurableStore that the last theorem states.      *)
(***************************************************************************)
EXTENDS DynamicStoreProofs

\* Every version anywhere is in the history, and below next_sequence_id.
KnownInv ==
  /\ Stored(manifest.tables) \subseteq log
  /\ wal.recs \subseteq log
  /\ memtable \subseteq log /\ recent \subseteq log /\ buf \subseteq log
  /\ opened => \A r \in log : r.seq < mman.nextSeq
  /\ ~EnableWal => wal.recs = {} /\ buf = {}

\* The manager serves, and will flush, everything.
ServedInv ==
  opened => \A r \in log : CoveredBy(Stored(mman.tables) \cup memtable, r)

\* Once the manifest is saved the old log is not needed.
FlushedInv ==
  pc \in RotateSteps \cup {"flush_open"} =>
    \A r \in log : CoveredBy(Stored(manifest.tables), r)

\* The tables hold a prefix of the history, and so does wal.log on top of them.
PrefixInv ==
  /\ \A q \in Stored(manifest.tables), r \in log :
       r.seq <= q.seq => CoveredBy(Stored(manifest.tables), r)
  /\ \A q \in wal.recs, r \in log :
       r.seq <= q.seq => r \in wal.recs \/ CoveredBy(Stored(manifest.tables), r)

\* An intact log and its buffer miss nothing that the tables do not have.
WalInv ==
  opened /\ EnableWal /\ ~wal.torn =>
    \A r \in log : r \in wal.recs \cup buf \/ CoveredBy(Stored(manifest.tables), r)

HistoryInv == KnownInv /\ ServedInv /\ FlushedInv /\ PrefixInv /\ WalInv

IInv == TableInv /\ HistoryInv

-----------------------------------------------------------------------------

LEMMA VersionSeq == \A r \in Version : r.seq \in Nat /\ r.seq >= 1
BY BoundsAssumption DEF Version

LEMMA CoveredByMore ==
  ASSUME NEW S, NEW T, S \subseteq T, NEW r, CoveredBy(S, r)
  PROVE  CoveredBy(T, r)
BY DEF CoveredBy

LEMMA CoveredBySelf ==
  ASSUME NEW S, NEW r \in S, r \in Version
  PROVE  CoveredBy(S, r)
BY VersionSeq DEF CoveredBy

LEMMA HistoryTypes ==
  ASSUME TypeOK
  PROVE  /\ log \subseteq Version /\ memtable \subseteq Version /\ buf \subseteq Version
         /\ wal.recs \subseteq Version
         /\ Stored(manifest.tables) \subseteq Version
         /\ Stored(mman.tables) \subseteq Version
         /\ mman.nextSeq \in Nat
BY RecoverableType DEF TypeOK, WalFile, ManifestData

\* As long as the list of tables stays, so does what they hold.
LEMMA StoredFrame ==
  ASSUME TypeInv, ListInv, [Next]_vars
  PROVE  /\ manifest'.tables = manifest.tables =>
              Stored(manifest.tables)' = Stored(manifest.tables)
         /\ opened /\ mman'.tables = mman.tables =>
              Stored(mman.tables)' = Stored(mman.tables)
         /\ opened => Stored(mman.tables) \subseteq Stored(manifest.tables)
<1>1. \A id \in manifest.tables : sst'[id] = sst[id]
  BY ListedTablesKept
<1>2. opened => mman.tables \subseteq manifest.tables
  BY DEF ListInv
<1>3. UNION {sst'[id].recs : id \in manifest.tables} = Stored(manifest.tables)
  BY <1>1, StoredKept
<1>4. opened => UNION {sst'[id].recs : id \in mman.tables} = Stored(mman.tables)
  BY <1>1, <1>2, StoredKept
<1> QED BY <1>2, <1>3, <1>4 DEF Stored

\* A step that changes no list of tables and nothing the manager remembers.
LEMMA QuietStep ==
  ASSUME TypeInv, ListInv, HistoryInv, [Next]_vars,
         UNCHANGED <<wal, memtable, recent, buf, opened, log>>,
         manifest'.tables = manifest.tables, mman'.tables = mman.tables,
         mman'.nextSeq = mman.nextSeq,
         pc' \in RotateSteps \cup {"flush_open"} => pc \in RotateSteps \cup {"flush_open"}
  PROVE  HistoryInv'
<1>1. Stored(manifest.tables)' = Stored(manifest.tables)
  BY StoredFrame
<1>2. opened => Stored(mman.tables)' = Stored(mman.tables)
  BY StoredFrame
<1>3. KnownInv'
  BY <1>1 DEF HistoryInv, KnownInv
<1>4. ServedInv'
  BY <1>2 DEF HistoryInv, ServedInv
<1>5. FlushedInv'
  BY <1>1 DEF HistoryInv, FlushedInv
<1>6. PrefixInv'
  BY <1>1 DEF HistoryInv, PrefixInv
<1>7. WalInv'
  BY <1>1 DEF HistoryInv, WalInv
<1> QED BY <1>3, <1>4, <1>5, <1>6, <1>7 DEF HistoryInv

\* insert and erase: the new version is newer than every other.
LEMMA AppendHistory ==
  ASSUME TypeInv, ListInv, HistoryInv, [Next]_vars,
         NEW n \in Nodes, NEW v \in Values \cup {Deleted}, Append(n, v)
  PROVE  HistoryInv'
<1> DEFINE r == [seq |-> mman.nextSeq, node |-> n, val |-> v]
<1>1. /\ buf' = IF EnableWal THEN buf \cup {r} ELSE buf
      /\ memtable' = Overwrite(memtable, r)
      /\ recent' = recent \cup {r} /\ log' = log \cup {r}
      /\ mman' = [mman EXCEPT !.nextSeq = @ + 1]
      /\ opened /\ UNCHANGED <<disk, opened>>
      /\ pc' \in {"idle", "flush_begin"}
  BY DEF Append, Start, Reply
<1>2. r.seq = mman.nextSeq /\ r.node = n
  OBVIOUS
<1>3. mman'.nextSeq = mman.nextSeq + 1 /\ mman'.tables = mman.tables /\ mman.nextSeq \in Nat
  BY <1>1 DEF TypeInv, TypeOK, ManifestData
<1>4. /\ Stored(manifest.tables)' = Stored(manifest.tables)
      /\ Stored(mman.tables)' = Stored(mman.tables)
      /\ wal' = wal
  BY <1>1, <1>3, StoredFrame DEF disk
<1>5. \A q \in log : q.seq \in Nat /\ q.seq < r.seq
  BY <1>1, <1>2, HistoryTypes, VersionSeq DEF TypeInv, HistoryInv, KnownInv
<1> HIDE DEF r
<1>6. KnownInv'
  <2>1. \A q \in log' : q.seq < mman'.nextSeq
    BY <1>1, <1>2, <1>3, <1>5
  <2>2. memtable' \subseteq log'
    BY <1>1 DEF Overwrite, HistoryInv, KnownInv
  <2> QED BY <1>1, <1>4, <2>1, <2>2 DEF HistoryInv, KnownInv
<1>7. ServedInv'
  <2> SUFFICES ASSUME NEW q \in log'
               PROVE  CoveredBy(Stored(mman.tables) \cup memtable', q)
    BY <1>4 DEF ServedInv
  <2>1. r \in memtable' /\ \A p \in memtable : p.node # r.node => p \in memtable'
    BY <1>1 DEF Overwrite
  <2>2. CASE q = r
    BY <1>2, <1>3, <2>1, <2>2 DEF CoveredBy
  <2>3. CASE q \in log
    <3>1. PICK p \in Stored(mman.tables) \cup memtable : p.node = q.node /\ p.seq >= q.seq
      BY <1>1, <2>3 DEF HistoryInv, ServedInv, CoveredBy
    <3>2. CASE p \in Stored(mman.tables) \/ p.node # r.node
      BY <2>1, <3>1, <3>2 DEF CoveredBy
    <3>3. CASE p.node = r.node
      <4>1. r.node = q.node /\ r.seq >= q.seq
        BY <1>2, <1>3, <1>5, <2>3, <3>1, <3>3
      <4> QED BY <2>1, <4>1 DEF CoveredBy
    <3> QED BY <3>2, <3>3
  <2> QED BY <1>1, <2>2, <2>3
<1>8. FlushedInv'
  BY <1>1 DEF FlushedInv, RotateSteps
<1>9. PrefixInv'
  <2>1. \A q \in Stored(manifest.tables) \cup wal.recs : ~(r.seq <= q.seq)
    BY <1>2, <1>3, <1>5 DEF HistoryInv, KnownInv
  <2> QED BY <1>1, <1>4, <2>1 DEF HistoryInv, PrefixInv
<1>10. WalInv'
  BY <1>1, <1>4 DEF HistoryInv, WalInv
<1> QED BY <1>6, <1>7, <1>8, <1>9, <1>10 DEF HistoryInv

\* Saving the manifest of a flush: the new table has all the memtable has.
LEMMA FlushManifestHistory ==
  ASSUME TypeInv, ListInv, BuildInv, HistoryInv, [Next]_vars, FlushManifest,
         manifest'.tables = manifest.tables \cup {mman.nextSst}
  PROVE  HistoryInv'
<1>1. /\ pc = "flush_manifest" /\ opened
      /\ UNCHANGED <<sst, wal, mman, memtable, recent, buf, opened, log>>
      /\ pc' \in {"flush_open", "idle"}
  BY DEF FlushManifest, mem, Goto, Return, TypeInv, StepInv
<1>2. manifest.tables = mman.tables
  BY <1>1 DEF ListInv
<1>3. sst[mman.nextSst].recs = NewestOf(memtable)
  BY <1>1 DEF BuildInv
<1>4. /\ Stored(manifest.tables)' = Stored(mman.tables) \cup NewestOf(memtable)
      /\ Stored(mman.tables)' = Stored(mman.tables)
  BY <1>1, <1>2, <1>3 DEF Stored
<1>5. memtable \subseteq Version /\ NewestOf(memtable) \subseteq Version
      /\ Stored(mman.tables) \subseteq Version /\ log \subseteq Version
  BY HistoryTypes, NewestCovers DEF TypeInv
<1>6. ASSUME NEW r \in log PROVE CoveredBy(Stored(manifest.tables)', r)
  <2> DEFINE S == Stored(mman.tables) \cup memtable
             T == Stored(mman.tables) \cup NewestOf(memtable)
  <2>1. CoveredBy(S, r)
    BY <1>1 DEF HistoryInv, ServedInv
  <2>2. ASSUME NEW q \in S PROVE CoveredBy(T, q)
    <3>1. CASE q \in memtable
      BY <1>5, <3>1, NewestCovers, CoveredByMore
    <3>2. CASE q \in Stored(mman.tables)
      BY <1>5, <3>2, CoveredBySelf
    <3> QED BY <3>1, <3>2
  <2>3. S \subseteq Version /\ T \subseteq Version
    BY <1>5
  <2> HIDE DEF S, T
  <2>4. CoveredBy(T, r)
    BY <1>5, <2>1, <2>2, <2>3, CoveredByTrans
  <2> QED BY <1>4, <2>4 DEF T
<1>7. KnownInv'
  <2>1. NewestOf(memtable) \subseteq log
    BY <1>5, NewestCovers DEF HistoryInv, KnownInv
  <2> QED BY <1>1, <1>2, <1>4, <2>1 DEF HistoryInv, KnownInv
<1>8. ServedInv'
  BY <1>1, <1>4 DEF HistoryInv, ServedInv
<1>9. FlushedInv' /\ PrefixInv' /\ WalInv'
  BY <1>1, <1>6 DEF FlushedInv, PrefixInv, WalInv
<1> QED BY <1>7, <1>8, <1>9 DEF HistoryInv

\* The manager takes over the new table and drops the memtable.
LEMMA FlushOpenHistory ==
  ASSUME TypeInv, ListInv, HistoryInv, [Next]_vars, FlushOpen,
         mman' = WithNewTable, memtable' = {}, pc' \in {"rotate_close", "idle"}
  PROVE  HistoryInv'
<1>1. /\ pc = "flush_open" /\ opened
      /\ UNCHANGED <<manifest, sst, wal, recent, buf, opened, log>>
  BY DEF FlushOpen, disk, TypeInv, StepInv
<1>2. mman'.tables = manifest.tables /\ mman'.nextSeq = mman.nextSeq
  BY <1>1, NewTableFields DEF ListInv, TypeInv
<1>3. /\ Stored(mman.tables)' = Stored(manifest.tables)
      /\ Stored(manifest.tables)' = Stored(manifest.tables)
  BY <1>1, <1>2 DEF Stored
<1>4. \A r \in log : CoveredBy(Stored(manifest.tables), r)
  BY <1>1 DEF HistoryInv, FlushedInv
<1>5. KnownInv'
  BY <1>1, <1>2, <1>3 DEF HistoryInv, KnownInv
<1>6. ServedInv'
  BY <1>1, <1>3, <1>4, CoveredByMore DEF ServedInv
<1>7. FlushedInv' /\ PrefixInv' /\ WalInv'
  BY <1>1, <1>3, <1>4 DEF FlushedInv, PrefixInv, WalInv
<1> QED BY <1>5, <1>6, <1>7 DEF HistoryInv

\* Compaction replaces every table by the newest versions they hold.
LEMMA CompactManifestHistory ==
  ASSUME TypeInv, ListInv, BuildInv, HistoryInv, [Next]_vars, CompactManifest,
         mman' = OnlyNewTable, manifest'.tables = {mman.nextSst},
         pc' = "compact_delete"
  PROVE  HistoryInv'
<1> DEFINE S == Stored(manifest.tables)
<1>1. /\ pc = "compact_manifest" /\ opened
      /\ UNCHANGED <<sst, wal, memtable, recent, buf, opened, log>>
  BY DEF CompactManifest, TypeInv, StepInv
<1>2. mman'.tables = {mman.nextSst} /\ mman'.nextSeq = mman.nextSeq
  BY NewTableFields DEF TypeInv
<1>3. Stored(mman.tables) = S /\ sst[mman.nextSst].recs = NewestOf(S)
  <2>1. mman.tables = manifest.tables
    BY <1>1 DEF ListInv
  <2>2. sst[mman.nextSst].recs = NewestOf(Stored(mman.tables))
    BY <1>1 DEF BuildInv
  <2> QED BY <2>1, <2>2
<1>4. Stored(manifest.tables)' = NewestOf(S) /\ Stored(mman.tables)' = NewestOf(S)
  <2>1. UNION {sst[id].recs : id \in {mman.nextSst}} = sst[mman.nextSst].recs
    OBVIOUS
  <2>2. UNION {sst'[id].recs : id \in {mman.nextSst}} = NewestOf(S)
    BY <1>1, <1>3, <2>1
  <2> QED BY <1>2, <2>2 DEF Stored
<1>5. S \subseteq Version /\ log \subseteq Version /\ memtable \subseteq Version
  BY HistoryTypes DEF TypeInv
<1>6. NewestOf(S) \subseteq S /\ \A q \in S : CoveredBy(NewestOf(S), q)
  BY <1>5, NewestCovers
<1>7. S \subseteq log
  BY DEF HistoryInv, KnownInv
<1> HIDE DEF S
<1>8. ASSUME NEW r \in log, CoveredBy(S, r) PROVE CoveredBy(NewestOf(S), r)
  BY <1>5, <1>6, <1>8, CoveredByTrans
<1>9. KnownInv'
  BY <1>1, <1>2, <1>4, <1>6, <1>7 DEF HistoryInv, KnownInv
<1>10. ServedInv'
  <2> SUFFICES ASSUME NEW r \in log
               PROVE  CoveredBy(NewestOf(S) \cup memtable, r)
    BY <1>1, <1>4 DEF ServedInv
  <2>1. PICK q \in S \cup memtable : q.node = r.node /\ q.seq >= r.seq
    BY <1>1, <1>3 DEF HistoryInv, ServedInv, CoveredBy
  <2>2. CASE q \in memtable
    BY <2>1, <2>2 DEF CoveredBy
  <2>3. CASE q \in S
    <3>1. CoveredBy(S, r)
      BY <2>1, <2>3 DEF CoveredBy
    <3> QED BY <1>8, <3>1, CoveredByMore
  <2> QED BY <2>1, <2>2, <2>3
<1>11. FlushedInv'
  BY DEF FlushedInv, RotateSteps
<1>12. PrefixInv'
  BY <1>1, <1>4, <1>6, <1>8 DEF HistoryInv, PrefixInv, S
<1>13. WalInv'
  BY <1>1, <1>4, <1>8 DEF HistoryInv, WalInv, S
<1> QED BY <1>9, <1>10, <1>11, <1>12, <1>13 DEF HistoryInv

\* What can become of wal.log when its stream ends.
LEMMA StreamEnds ==
  ASSUME TypeInv, NEW w \in Spilled \cup {Logged(buf)}
  PROVE  /\ wal.recs \subseteq w.recs /\ w.recs \subseteq wal.recs \cup buf
         /\ wal.torn => w.recs = wal.recs
         /\ \A q \in w.recs \ wal.recs, r \in buf : r.seq <= q.seq => r \in w.recs
<1>1. CASE w = Logged(buf)
  BY <1>1 DEF Logged, TypeInv, TypeOK, WalFile
<1>2. CASE w \in Spilled
  <2>1. PICK c \in Nat : ~wal.torn => w.recs = wal.recs \cup UpTo(buf, c)
    BY <1>2, SpilledIsPrefix DEF TypeInv
  <2>2. wal.torn => w = wal
    BY <1>2, SpilledIsPrefix DEF TypeInv
  <2>3. \A r \in buf : r.seq \in Nat
    BY HistoryTypes, VersionSeq DEF TypeInv
  <2> QED BY <2>1, <2>2, <2>3 DEF UpTo
<1> QED BY <1>1, <1>2

\* The log is still a prefix on top of the tables when its stream has ended.
LEMMA StreamEndsPrefix ==
  ASSUME TypeInv, HistoryInv, opened, NEW w \in Spilled \cup {Logged(buf)},
         NEW q \in w.recs, NEW r \in log, r.seq <= q.seq
  PROVE  r \in w.recs \/ CoveredBy(Stored(manifest.tables), r)
<1>1. CASE q \in wal.recs
  BY <1>1, StreamEnds DEF HistoryInv, PrefixInv
<1>2. CASE q \notin wal.recs
  <2>1. q \in buf /\ ~wal.torn /\ EnableWal
    BY <1>2, StreamEnds DEF HistoryInv, KnownInv
  <2>2. r \in wal.recs \cup buf \/ CoveredBy(Stored(manifest.tables), r)
    BY <2>1 DEF HistoryInv, WalInv
  <2> QED BY <1>2, <2>2, StreamEnds
<1> QED BY <1>1, <1>2

\* rotate_wal_locked: the tables have everything, whatever happens to the log.
LEMMA RotateHistory ==
  ASSUME TypeInv, ListInv, HistoryInv, [Next]_vars, RotateClose \/ RotateRemove
  PROVE  HistoryInv'
<1>1. /\ pc \in RotateSteps /\ opened
      /\ UNCHANGED <<manifest, sst, mman, memtable, recent, opened, log>>
  BY DEF RotateClose, RotateRemove, RotateSteps, TypeInv, StepInv
<1>2. \A r \in log : CoveredBy(Stored(manifest.tables), r)
  BY <1>1 DEF HistoryInv, FlushedInv
<1>3. /\ Stored(manifest.tables)' = Stored(manifest.tables)
      /\ Stored(mman.tables)' = Stored(mman.tables)
  BY <1>1 DEF Stored
<1>4. wal'.recs \subseteq wal.recs \cup buf /\ buf' \subseteq buf
  <2>1. CASE RotateClose
    BY <2>1, StreamEnds DEF RotateClose
  <2>2. CASE RotateRemove
    <3>1. UNCHANGED buf /\ (wal' = [recs |-> {}, torn |-> FALSE] \/ wal' = wal)
      BY <2>2 DEF RotateRemove
    <3> QED BY <3>1
  <2> QED BY <2>1, <2>2
<1>5. KnownInv'
  BY <1>1, <1>3, <1>4 DEF HistoryInv, KnownInv
<1>6. ServedInv'
  BY <1>1, <1>3 DEF HistoryInv, ServedInv
<1>7. FlushedInv' /\ PrefixInv' /\ WalInv'
  BY <1>1, <1>2, <1>3 DEF FlushedInv, PrefixInv, WalInv
<1> QED BY <1>5, <1>6, <1>7 DEF HistoryInv

\* A crash, or close: memory is gone, the log may have grown by a prefix.
LEMMA StopHistory ==
  ASSUME TypeInv, ListInv, HistoryInv, [Next]_vars, Crash \/ CloseWal
  PROVE  HistoryInv'
<1>1. /\ wal' \in Spilled \cup {Logged(buf)} /\ Forget /\ opened /\ pc' = "idle"
      /\ UNCHANGED <<manifest, sst, log>>
  BY DEF Crash, CloseWal, Return, TypeInv, StepInv
<1>2. Stored(manifest.tables)' = Stored(manifest.tables)
  BY <1>1 DEF Stored
<1>3. wal'.recs \subseteq wal.recs \cup buf
  BY <1>1, StreamEnds
<1>4. KnownInv'
  BY <1>1, <1>2, <1>3 DEF Forget, HistoryInv, KnownInv
<1>5. ServedInv' /\ FlushedInv' /\ WalInv'
  BY <1>1 DEF Forget, ServedInv, FlushedInv, WalInv, RotateSteps
<1>6. \A q \in wal'.recs, r \in log :
        r.seq <= q.seq => r \in wal'.recs \/ CoveredBy(Stored(manifest.tables), r)
  BY <1>1, StreamEndsPrefix
<1>7. PrefixInv'
  BY <1>1, <1>2, <1>6 DEF HistoryInv, PrefixInv
<1> QED BY <1>4, <1>5, <1>7 DEF HistoryInv

\* Everything up to the last version open() would load is in what it loads:
\* in wal.log, or covered by a table.
LEMMA RecoverablePrefix ==
  ASSUME TypeInv, HistoryInv, NEW r \in UpTo(log, LastSeq(Recoverable))
  PROVE  r \in Replayed \/ CoveredBy(Stored(manifest.tables), r)
<1>1. r \in log /\ r.seq <= LastSeq(Recoverable) /\ r.seq >= 1 /\ r.seq \in Nat
  BY HistoryTypes, VersionSeq DEF UpTo, TypeInv
<1>2. Recoverable \subseteq Version
  BY RecoverableType DEF TypeInv
<1>3. Recoverable # {}
  BY <1>1, <1>2, LastSeqIsMax
<1>4. PICK q \in Recoverable : q.seq = LastSeq(Recoverable)
  BY <1>2, <1>3, LastSeqIsMax
<1>5. CASE q \in Stored(manifest.tables)
  BY <1>1, <1>4, <1>5 DEF HistoryInv, PrefixInv
<1>6. CASE q \in Replayed
  <2>1. EnableWal /\ Replayed = wal.recs /\ q \in wal.recs
    BY <1>6 DEF Replayed
  <2> QED BY <1>1, <1>4, <2>1 DEF HistoryInv, PrefixInv
<1> QED BY <1>4, <1>5, <1>6 DEF Recoverable

\* open serves exactly the prefix it found.
LEMMA OpenHistory ==
  ASSUME TypeInv, ListInv, HistoryInv, [Next]_vars, Open
  PROVE  HistoryInv'
<1>1. /\ mman' = [manifest EXCEPT !.nextSeq = NextSeqFor(Recoverable)]
      /\ memtable' = NewestOf(Replayed) /\ recent' = Recoverable /\ buf' = {}
      /\ log' = UpTo(log, LastSeq(Recoverable))
      /\ opened' = TRUE /\ pc' = "idle" /\ UNCHANGED disk
  BY DEF Open, Reply
<1>2. mman'.tables = manifest.tables /\ mman'.nextSeq = NextSeqFor(Recoverable)
  BY <1>1 DEF TypeInv, TypeOK, ManifestData
<1>3. /\ Stored(manifest.tables)' = Stored(manifest.tables)
      /\ Stored(mman.tables)' = Stored(manifest.tables)
      /\ wal' = wal
  BY <1>1, <1>2 DEF Stored, disk
<1>4. Recoverable \subseteq Version /\ Replayed \subseteq Version
  BY RecoverableType DEF TypeInv
<1>5. log' \subseteq log /\ Recoverable \subseteq log'
  <2>1. \A q \in Recoverable : q.seq <= LastSeq(Recoverable)
    BY <1>4, LastSeqIsMax
  <2>2. Recoverable \subseteq log
    BY DEF Recoverable, Replayed, HistoryInv, KnownInv
  <2> QED BY <1>1, <2>1, <2>2 DEF UpTo
<1>6. ASSUME NEW r \in log'
      PROVE  r \in Replayed \/ CoveredBy(Stored(manifest.tables), r)
  BY <1>1, RecoverablePrefix
<1>7. KnownInv'
  <2>1. \A r \in log' : r.seq < mman'.nextSeq
    <3>1. LastSeq(Recoverable) < NextSeqFor(Recoverable)
      BY <1>4, NextSeqForType DEF TypeInv
    <3>2. LastSeq(Recoverable) \in Nat /\ NextSeqFor(Recoverable) \in Nat
      BY <1>4, LastSeqIsMax, NextSeqForType, BoundsAssumption DEF TypeInv
    <3>3. \A r \in log : r.seq \in Nat
      BY HistoryTypes, VersionSeq DEF TypeInv
    <3> QED BY <1>1, <1>2, <1>5, <3>1, <3>2, <3>3 DEF UpTo
  <2>2. memtable' \subseteq log'
    BY <1>1, <1>4, <1>5, NewestCovers DEF Recoverable
  <2>3. wal.recs \subseteq log' /\ Stored(manifest.tables) \subseteq log'
    BY <1>5 DEF Recoverable, Replayed, HistoryInv, KnownInv
  <2> QED BY <1>1, <1>3, <1>5, <2>1, <2>2, <2>3 DEF HistoryInv, KnownInv
<1>8. ServedInv'
  <2> SUFFICES ASSUME NEW r \in log'
               PROVE  CoveredBy(Stored(manifest.tables) \cup NewestOf(Replayed), r)
    BY <1>1, <1>3 DEF ServedInv
  <2>1. CASE r \in Replayed
    BY <1>4, <2>1, NewestCovers, CoveredByMore
  <2>2. CASE CoveredBy(Stored(manifest.tables), r)
    BY <2>2, CoveredByMore
  <2> QED BY <1>6, <2>1, <2>2
<1>9. FlushedInv'
  BY <1>1 DEF FlushedInv, RotateSteps
<1>10. PrefixInv'
  BY <1>3, <1>5 DEF HistoryInv, PrefixInv
<1>11. WalInv'
  BY <1>1, <1>3, <1>6 DEF WalInv, Replayed
<1> QED BY <1>7, <1>8, <1>9, <1>10, <1>11 DEF HistoryInv

-----------------------------------------------------------------------------
(***************************************************************************)
(* The inductive invariant, and what follows from it.                      *)
(***************************************************************************)

LEMMA InitIInv == Init => IInv
<1> SUFFICES ASSUME Init PROVE HistoryInv
  BY InitTableInv DEF IInv
<1>1. Stored(manifest.tables) = {} /\ Stored(mman.tables) = {} /\ log = {} /\ wal.recs = {}
  BY DEF Init, NewManifest, Stored
<1> QED BY <1>1 DEF Init, HistoryInv, KnownInv, ServedInv, FlushedInv, PrefixInv, WalInv

LEMMA HistoryInvStep ==
  ASSUME Harmless, TableInv, HistoryInv, [Next]_vars
  PROVE  HistoryInv'
<1> USE DEF TableInv
<1>1. ~Fail("manifest_swap") /\ ~Fail("reader_open")
  BY NoHarmfulFault DEF Harmful
<1>2. ASSUME AppendRefused \/ Flush \/ Compact \/ OpenFails PROVE HistoryInv'
  <2>1. /\ UNCHANGED <<manifest, wal, mman, memtable, recent, buf, opened, log>>
        /\ pc' \in {"idle", "flush_begin", "compact_write"}
    BY <1>2 DEF AppendRefused, Flush, Compact, OpenFails, disk, mem, Reply, Start
  <2> QED BY <2>1, QuietStep DEF RotateSteps
<1>3. ASSUME FlushBegin \/ FlushWrite \/ CompactWrite \/ CompactOpen PROVE HistoryInv'
  <2>1. /\ UNCHANGED <<manifest, wal, mman, memtable, recent, buf, opened, log>>
        /\ pc' \in {"idle", "flush_write", "flush_manifest", "compact_open", "compact_manifest"}
    BY <1>3 DEF FlushBegin, FlushWrite, CompactWrite, CompactOpen, disk, mem, Goto, Return
  <2> QED BY <2>1, QuietStep DEF RotateSteps
<1>4. ASSUME FlushManifest PROVE HistoryInv'
  <2>1. CASE manifest' = WithNewTable
    <3>1. opened /\ pc = "flush_manifest"
      BY <1>4 DEF FlushManifest, TypeInv, StepInv
    <3>2. manifest'.tables = manifest.tables \cup {mman.nextSst}
      BY <2>1, <3>1, NewTableFields DEF ListInv, TypeInv
    <3> QED BY <1>4, <3>2, FlushManifestHistory
  <2>2. CASE UNCHANGED manifest /\ pc' = "idle"
    <3>1. UNCHANGED <<manifest, wal, mman, memtable, recent, buf, opened, log>>
      BY <1>4, <2>2 DEF FlushManifest, mem
    <3> QED BY <2>2, <3>1, QuietStep DEF RotateSteps
  <2> QED BY <1>1, <1>4, <2>1, <2>2 DEF FlushManifest, SaveManifest, SaveFails, Return
<1>5. ASSUME FlushOpen PROVE HistoryInv'
  <2>1. Opens(mman.nextSst)
    BY <1>5 DEF FlushOpen, BuildInv, Opens
  <2>2. mman' = WithNewTable /\ memtable' = {} /\ pc' \in {"rotate_close", "idle"}
    BY <1>1, <1>5, <2>1 DEF FlushOpen, Goto, Return
  <2> QED BY <1>5, <2>2, FlushOpenHistory
<1>6. ASSUME RotateClose \/ RotateRemove PROVE HistoryInv'
  BY <1>6, RotateHistory
<1>7. ASSUME CompactManifest PROVE HistoryInv'
  <2>1. CASE manifest' = OnlyNewTable /\ mman' = OnlyNewTable /\ pc' = "compact_delete"
    BY <1>7, <2>1, NewTableFields, CompactManifestHistory DEF TypeInv
  <2>2. CASE UNCHANGED <<manifest, mman>> /\ pc' = "idle"
    <3>1. UNCHANGED <<wal, memtable, recent, buf, opened, log>>
      BY <1>7 DEF CompactManifest
    <3> QED BY <2>2, <3>1, QuietStep DEF RotateSteps
  <2> QED BY <1>1, <1>7, <2>1, <2>2
          DEF CompactManifest, SaveManifest, SaveFails, Goto, Return
<1>8. ASSUME CompactDelete PROVE HistoryInv'
  <2>1. /\ UNCHANGED <<manifest, wal, mman, memtable, recent, buf, opened, log>>
        /\ pc' \in {"idle", "compact_delete"}
    BY <1>8 DEF CompactDelete, Goto, Return
  <2> QED BY <2>1, QuietStep DEF RotateSteps
<1>9. ASSUME Close PROVE HistoryInv'
  <2>1. /\ UNCHANGED <<wal, mman, memtable, recent, buf, opened, log>>
        /\ pc' = "close_wal"
    BY <1>9 DEF Close, mem
  <2>2. manifest'.tables = manifest.tables
    BY <1>1, <1>9 DEF Close, SaveManifest, SaveFails, ListInv
  <2> QED BY <2>1, <2>2, QuietStep DEF RotateSteps
<1>10. CASE UNCHANGED vars
  BY <1>10, QuietStep DEF vars, disk, mem
<1> QED
  BY <1>2, <1>3, <1>4, <1>5, <1>6, <1>7, <1>8, <1>9, <1>10, AppendHistory, OpenHistory,
     StopHistory
  DEF Next, Step, Insert, Erase

LEMMA IInvStep ==
  ASSUME Harmless
  PROVE  IInv /\ [Next]_vars => IInv'
BY TableInvStep, HistoryInvStep DEF IInv

\* Whatever crashes, torn log tails included, and whatever fails without losing
\* something by itself: open() finds, node by node, the state the store had at
\* some point of its history.
THEOREM RecoversPrefix == ASSUME Harmless PROVE Spec => []RecoverableIsPrefix
<1>1. IInv /\ [Next]_vars => IInv'
  BY IInvStep
<1>2. IInv => RecoverableIsPrefix
  <2> SUFFICES ASSUME IInv PROVE RecoverableIsPrefix
    OBVIOUS
  <2>1. TypeInv /\ HistoryInv
    BY DEF IInv, TableInv
  <2>2. Recoverable \subseteq log
    BY <2>1 DEF Recoverable, Replayed, HistoryInv, KnownInv
  <2>3. ASSUME NEW r \in UpTo(log, LastSeq(Recoverable))
        PROVE  CoveredBy(Recoverable, r)
    <3>1. CASE r \in Replayed
      BY <2>1, <3>1, CoveredBySelf, RecoverableType DEF Recoverable, TypeInv
    <3>2. CASE CoveredBy(Stored(manifest.tables), r)
      BY <3>2, CoveredByMore DEF Recoverable
    <3> QED BY <2>1, <3>1, <3>2, RecoverablePrefix
  <2> QED BY <2>2, <2>3 DEF RecoverableIsPrefix, Covers, CoveredBy
<1> QED BY <1>1, <1>2, InitIInv, PTL DEF Spec

\* compact_once changes the newest version of no node.
THEOREM CompactionKeeps == ASSUME Harmless PROVE Spec => CompactionKeepsNewest
<1>1. TableInv /\ [Next]_vars => TableInv'
  BY TableInvStep
<1>2. TableInv /\ [Next]_vars =>
        [CompactManifest /\ manifest'.nextSst > manifest.nextSst
           => NewestOf(Stored(manifest.tables)') = NewestOf(Stored(manifest.tables))]_vars
  <2> SUFFICES ASSUME TableInv, CompactManifest, manifest' # manifest
               PROVE  NewestOf(Stored(manifest.tables)') = NewestOf(Stored(manifest.tables))
    BY BoundsAssumption DEF TableInv, TypeInv, TypeOK, ManifestData
  <2>1. manifest'.tables = {mman.nextSst} /\ UNCHANGED sst
    BY NoHarmfulFault, NewTableFields
    DEF Harmful, CompactManifest, SaveManifest, SaveFails, TableInv, TypeInv
  <2>2. /\ mman.tables = manifest.tables
        /\ sst[mman.nextSst].recs = NewestOf(Stored(mman.tables))
    BY DEF CompactManifest, TableInv, TypeInv, StepInv, ListInv, BuildInv
  <2>3. UNION {sst'[id].recs : id \in {mman.nextSst}} = NewestOf(Stored(manifest.tables))
    <3>1. UNION {sst[id].recs : id \in {mman.nextSst}} = sst[mman.nextSst].recs
      OBVIOUS
    <3> QED BY <2>1, <2>2, <3>1
  <2>4. Stored(manifest.tables)' = NewestOf(Stored(manifest.tables))
    BY <2>1, <2>3 DEF Stored
  <2>5. \A S : NewestOf(NewestOf(S)) = NewestOf(S)
    BY DEF NewestOf
  <2> QED BY <2>4, <2>5
<1> QED BY <1>1, <1>2, InitTableInv, PTL DEF Spec, CompactionKeepsNewest

\* The steps of a compaction never finish a flush.
FlushCall ==
  /\ pc \in CompactSteps \cup {"compact_delete"} => call.op = "compact"
  /\ FlushIsDurable

LEMMA FlushCallStep ==
  ASSUME Harmless, IInv, FlushCall, [Next]_vars
  PROVE  FlushCall'
<1> DEFINE Compacting == pc \in CompactSteps \cup {"compact_delete"} => call.op = "compact"
           Done == opened /\ pc = "idle" /\ call = [op |-> "flush", ok |-> TRUE]
<1> USE DEF IInv, TableInv
<1>1. call \in Calls /\ (pc # "idle" => opened)
  BY DEF TypeInv, TypeOK, StepInv
<1>2. ASSUME NEW ok, Return(ok) PROVE call'.op = call.op /\ call'.ok = ok /\ pc' = "idle"
  BY <1>1, <1>2 DEF Return, Calls
<1>3. ASSUME NEW s, Goto(s) PROVE call' = call /\ pc' = s
  BY <1>3 DEF Goto
\* Steps that end a call with another result than a successful flush.
<1>4. ASSUME FlushBegin \/ FlushWrite \/ FlushManifest \/ RotateClose \/ Close
      PROVE  Compacting' /\ ~Done'
  <2>1. Done' => call'.ok = TRUE /\ pc' = "idle"
    OBVIOUS
  <2>2. ASSUME Return(FALSE) PROVE call'.ok = FALSE
    BY <1>2, <2>2
  <2>3. CASE Return(FALSE)
    BY <1>2, <2>1, <2>2, <2>3 DEF CompactSteps
  <2>4. CASE Goto("flush_write") \/ Goto("flush_manifest") \/ Goto("flush_open")
             \/ Goto("rotate_remove") \/ pc' = "close_wal"
    <3>1. pc' \in {"flush_write", "flush_manifest", "flush_open", "rotate_remove", "close_wal"}
      BY <1>3, <2>4
    <3> QED BY <2>1, <3>1 DEF CompactSteps
  <2>5. CASE FlushBegin \/ FlushWrite \/ FlushManifest
    BY <2>3, <2>4, <2>5 DEF FlushBegin, FlushWrite, FlushManifest
  <2> QED BY <1>4, <2>3, <2>4, <2>5 DEF RotateClose, Close
<1>5. ASSUME Compact \/ AppendRefused \/ Open \/ OpenFails PROVE Compacting' /\ ~Done'
  BY <1>5 DEF Compact, AppendRefused, Open, OpenFails, Start, Reply, CompactSteps
<1>6. ASSUME NEW n, NEW v, Append(n, v) PROVE Compacting' /\ ~Done'
  BY <1>6 DEF Append, Start, Reply, CompactSteps
<1>7. ASSUME CompactWrite \/ CompactOpen \/ CompactManifest \/ CompactDelete
      PROVE  Compacting' /\ ~Done'
  <2>1. call.op = "compact"
    BY <1>7 DEF FlushCall, CompactWrite, CompactOpen, CompactManifest, CompactDelete,
                CompactSteps
  <2>2. call'.op = "compact"
    BY <1>2, <1>3, <1>7, <2>1 DEF CompactWrite, CompactOpen, CompactManifest, CompactDelete
  <2> QED BY <2>2
<1>8. ASSUME Crash \/ CloseWal PROVE Compacting' /\ ~Done'
  BY <1>8 DEF Crash, CloseWal, Forget, Return, CompactSteps
\* Steps that may end a successful flush.
<1>9. ASSUME Flush PROVE Compacting' /\ (Done' => Covers(Stored(manifest.tables), log)')
  <2>1. Compacting'
    BY <1>9 DEF Flush, Start, Reply, CompactSteps
  <2>2. CASE memtable = {}
    <3>1. opened /\ pc = "idle" /\ UNCHANGED <<manifest, sst, log>>
      BY <1>9 DEF Flush, disk
    <3>2. mman.tables = manifest.tables
      BY <3>1 DEF ListInv
    <3>3. \A r \in log : CoveredBy(Stored(manifest.tables), r)
      BY <2>2, <3>1, <3>2 DEF HistoryInv, ServedInv
    <3>4. Stored(manifest.tables)' = Stored(manifest.tables)
      BY <3>1 DEF Stored
    <3> QED BY <2>1, <3>1, <3>3, <3>4 DEF Covers, CoveredBy
  <2>3. CASE memtable # {}
    BY <1>9, <2>1, <2>3 DEF Flush, Start
  <2> QED BY <2>2, <2>3
<1>10. ASSUME FlushOpen \/ RotateRemove
       PROVE  Compacting' /\ (Done' => Covers(Stored(manifest.tables), log)')
  <2>1. pc' \in {"idle", "rotate_close"} /\ UNCHANGED <<manifest, sst, log>>
    BY <1>2, <1>3, <1>10 DEF FlushOpen, RotateRemove, disk
  <2>2. \A r \in log : CoveredBy(Stored(manifest.tables), r)
    BY <1>10 DEF FlushOpen, RotateRemove, HistoryInv, FlushedInv, RotateSteps
  <2>3. Stored(manifest.tables)' = Stored(manifest.tables)
    BY <2>1 DEF Stored
  <2> QED BY <2>1, <2>2, <2>3 DEF Covers, CoveredBy, CompactSteps
<1>11. CASE UNCHANGED vars
  BY <1>11 DEF vars, disk, mem, FlushCall, FlushIsDurable, Covers, Stored
<1> HIDE DEF Done
<1>12. FlushCall' <=> Compacting' /\ (Done' => Covers(Stored(manifest.tables), log)')
  BY DEF FlushCall, FlushIsDurable, Done
<1> HIDE DEF Compacting
<1> QED
  BY <1>4, <1>5, <1>6, <1>7, <1>8, <1>9, <1>10, <1>11, <1>12
  DEF Next, Step, Insert, Erase

\* No failing step of a flush, the one that insert or erase starts included,
\* takes a write from the manager.
THEOREM WritesStay == ASSUME Harmless PROVE Spec => []WritesKept
<1>1. IInv /\ [Next]_vars => IInv'
  BY IInvStep
<1>2. IInv => WritesKept
  BY DEF IInv, HistoryInv, ServedInv, WritesKept, Covers, CoveredBy
<1> QED BY <1>1, <1>2, InitIInv, PTL DEF Spec

\* When flush returns true, every version is in the tables of the manifest.
THEOREM FlushDurable == ASSUME Harmless PROVE Spec => []FlushIsDurable
<1>1. IInv /\ FlushCall /\ [Next]_vars => IInv' /\ FlushCall'
  BY IInvStep, FlushCallStep
<1>2. Init => IInv /\ FlushCall
  BY InitIInv DEF Init, FlushCall, FlushIsDurable, CompactSteps
<1>3. FlushCall => FlushIsDurable
  BY DEF FlushCall
<1> QED BY <1>1, <1>2, <1>3, PTL DEF Spec

LEMMA CloseStep ==
  ASSUME Harmless, EnableWal, IInv, CleanCloseIsDurable, [Next]_vars
  PROVE  CleanCloseIsDurable'
<1> DEFINE Closed == ~opened /\ ~wal.torn /\ call = [op |-> "close", ok |-> TRUE]
<1> USE DEF IInv, TableInv
<1>1. pc # "idle" => opened
  BY DEF TypeInv, StepInv
<1>2. ASSUME CloseWal, Closed' PROVE Covers(Recoverable, log)'
  <2>1. opened /\ UNCHANGED <<manifest, sst, log>>
    BY <1>1, <1>2 DEF CloseWal
  <2>2. wal' = Logged(buf)
    <3>1. Return(FALSE) => ~Closed'
      BY DEF Return, TypeInv, TypeOK, Calls
    <3> QED BY <1>2, <3>1 DEF CloseWal
  <2>3. ~wal.torn /\ wal'.recs = wal.recs \cup buf
    BY <1>2, <2>2 DEF Logged, TypeInv, TypeOK, WalFile
  <2>4. \A r \in log : r \in wal'.recs \/ CoveredBy(Stored(manifest.tables), r)
    BY <2>1, <2>3 DEF HistoryInv, WalInv
  <2>5. Recoverable' = Stored(manifest.tables) \cup wal'.recs
    BY <2>1 DEF Recoverable, Replayed, Stored
  <2>6. ASSUME NEW r \in log PROVE CoveredBy(Recoverable', r)
    <3>1. CASE r \in wal'.recs
      BY <2>5, <3>1, CoveredBySelf, HistoryTypes DEF TypeInv
    <3>2. CASE CoveredBy(Stored(manifest.tables), r)
      BY <2>5, <3>2, CoveredByMore
    <3> QED BY <2>4, <3>1, <3>2
  <2> QED BY <2>1, <2>6 DEF Covers, CoveredBy
<1>3. ASSUME UNCHANGED vars PROVE CleanCloseIsDurable'
  BY <1>3 DEF vars, disk, mem, CleanCloseIsDurable, CloseIsDurable, Covers, Recoverable,
              Replayed, Stored
<1>4. ASSUME OpenFails \/ Crash PROVE ~Closed'
  <2>1. CASE OpenFails
    BY <2>1 DEF OpenFails, Reply
  <2>2. CASE Crash
    BY <2>2 DEF Crash, TypeInv, TypeOK, Calls
  <2> QED BY <1>4, <2>1, <2>2
<1>5. UNCHANGED vars \/ OpenFails \/ Crash \/ CloseWal \/ opened'
  <2>1. ASSUME NEW n, NEW v, Append(n, v) PROVE opened'
    BY <2>1 DEF Append
  <2>2. ASSUME AppendRefused \/ Flush \/ Compact \/ Close \/ Open PROVE opened'
    <3>1. AppendRefused => opened'
      BY DEF AppendRefused
    <3>2. Flush \/ Compact => opened'
      <4>1. Flush \/ Compact => opened /\ UNCHANGED mem
        BY DEF Flush, Compact
      <4> QED BY <4>1 DEF mem
    <3>3. Close => opened'
      BY DEF Close, mem
    <3>4. Open => opened'
      BY DEF Open
    <3> QED BY <2>2, <3>1, <3>2, <3>3, <3>4
  <2>3. ASSUME FlushBegin \/ FlushWrite \/ FlushManifest \/ FlushOpen \/ RotateClose
               \/ RotateRemove
        PROVE  opened'
    BY <1>1, <2>3
    DEF FlushBegin, FlushWrite, FlushManifest, FlushOpen, RotateClose, RotateRemove, mem
  <2>4. ASSUME CompactWrite \/ CompactOpen \/ CompactManifest \/ CompactDelete PROVE opened'
    BY <1>1, <2>4 DEF CompactWrite, CompactOpen, CompactManifest, CompactDelete, mem
  <2> QED BY <2>1, <2>2, <2>3, <2>4 DEF Next, Step, Insert, Erase
<1>6. CleanCloseIsDurable' <=> (Closed' => Covers(Recoverable, log)')
  BY DEF CleanCloseIsDurable, CloseIsDurable
<1>7. opened' => ~Closed'
  OBVIOUS
<1> HIDE DEF Closed
<1> QED BY <1>2, <1>3, <1>4, <1>5, <1>6, <1>7

\* With the WAL, when close returns true and the log is intact, the next open
\* finds everything.
THEOREM CloseDurable == ASSUME Harmless, EnableWal PROVE Spec => []CleanCloseIsDurable
<1>1. IInv /\ CleanCloseIsDurable /\ [Next]_vars => IInv' /\ CleanCloseIsDurable'
  BY IInvStep, CloseStep
<1>2. Init => IInv /\ CleanCloseIsDurable
  BY InitIInv DEF Init, CleanCloseIsDurable, CloseIsDurable, Covers
<1> QED BY <1>1, <1>2, PTL DEF Spec

-----------------------------------------------------------------------------
(***************************************************************************)
(* The store implements DurableStore.                                      *)
(***************************************************************************)

\* Readers see something at least as new as every version of the history, in
\* which a sequence number names one version.
SeenInv ==
  /\ opened => \A r \in log : CoveredBy(recent, r)
  /\ \A r, q \in log : r.seq = q.seq => r = q

RInv == IInv /\ SeenInv

\* What a step does to the history and to what readers see.
LEMMA VisibleSteps ==
  ASSUME TypeInv, [Next]_vars
  PROVE  \/ \E n \in Nodes, v \in Values \cup {Deleted} : Append(n, v)
         \/ Open
         \/ UNCHANGED <<log, recent, opened>>
         \/ opened /\ ~opened' /\ opened' = FALSE /\ UNCHANGED log
<1>1. Crash \/ CloseWal => opened /\ ~opened' /\ opened' = FALSE /\ UNCHANGED log
  BY DEF Crash, CloseWal, Forget, TypeInv, StepInv
<1>2. ASSUME AppendRefused \/ Flush \/ Compact \/ OpenFails \/ Close
      PROVE  UNCHANGED <<log, recent, opened>>
  BY <1>2 DEF AppendRefused, Flush, Compact, OpenFails, Close, mem
<1>3. ASSUME FlushBegin \/ FlushWrite \/ FlushManifest \/ FlushOpen \/ RotateClose
             \/ RotateRemove
      PROVE  UNCHANGED <<log, recent, opened>>
  BY <1>3 DEF FlushBegin, FlushWrite, FlushManifest, FlushOpen, RotateClose, RotateRemove, mem
<1>4. ASSUME CompactWrite \/ CompactOpen \/ CompactManifest \/ CompactDelete
      PROVE  UNCHANGED <<log, recent, opened>>
  BY <1>4 DEF CompactWrite, CompactOpen, CompactManifest, CompactDelete, mem
<1>5. UNCHANGED vars => UNCHANGED <<log, recent, opened>>
  BY DEF vars, mem
<1> QED BY <1>1, <1>2, <1>3, <1>4, <1>5 DEF Next, Step, Insert, Erase

\* What open() would load covers every version it must not lose.
LEMMA PrefixCovered ==
  ASSUME TypeInv, HistoryInv, NEW r \in UpTo(log, LastSeq(Recoverable))
  PROVE  CoveredBy(Recoverable, r)
<1>1. CASE r \in Replayed
  BY <1>1, CoveredBySelf, RecoverableType DEF Recoverable, TypeInv
<1>2. CASE CoveredBy(Stored(manifest.tables), r)
  BY <1>2, CoveredByMore DEF Recoverable
<1> QED BY <1>1, <1>2, RecoverablePrefix

LEMMA SeenInvStep ==
  ASSUME TypeInv, HistoryInv, SeenInv, [Next]_vars
  PROVE  SeenInv'
<1>1. ASSUME NEW n \in Nodes, NEW v \in Values \cup {Deleted}, Append(n, v)
      PROVE  SeenInv'
  <2> DEFINE r == [seq |-> mman.nextSeq, node |-> n, val |-> v]
  <2>1. recent' = recent \cup {r} /\ log' = log \cup {r} /\ opened /\ opened'
    BY <1>1 DEF Append
  <2>2. r.seq = mman.nextSeq
    OBVIOUS
  <2> HIDE DEF r
  <2>3. mman.nextSeq \in Nat /\ \A q \in log : q.seq \in Nat /\ q.seq < mman.nextSeq
    BY <2>1, HistoryTypes, VersionSeq DEF TypeInv, HistoryInv, KnownInv
  <2>4. \A q \in log' : CoveredBy(recent', q)
    BY <2>1, <2>2, <2>3 DEF SeenInv, CoveredBy
  <2>5. \A p, q \in log' : p.seq = q.seq => p = q
    BY <2>1, <2>2, <2>3 DEF SeenInv
  <2> QED BY <2>4, <2>5 DEF SeenInv
<1>2. ASSUME Open PROVE SeenInv'
  <2>1. recent' = Recoverable /\ log' = UpTo(log, LastSeq(Recoverable))
    BY <1>2 DEF Open
  <2>2. \A r \in log' : CoveredBy(recent', r)
    BY <2>1, PrefixCovered
  <2>3. log' \subseteq log
    BY <2>1 DEF UpTo
  <2> QED BY <2>2, <2>3 DEF SeenInv
<1>3. ASSUME UNCHANGED <<log, recent, opened>> PROVE SeenInv'
  BY <1>3 DEF SeenInv
<1>4. ASSUME ~opened', UNCHANGED log PROVE SeenInv'
  BY <1>4 DEF SeenInv
<1> QED BY <1>1, <1>2, <1>3, <1>4, VisibleSteps

\* Readers see the newest version of every node of the history.
LEMMA ReadersSeeNewest ==
  ASSUME TypeInv, HistoryInv, SeenInv, opened
  PROVE  NewestOf(recent) = NewestOf(log)
<1>1. recent \subseteq log /\ \A q \in log : q.seq \in Nat
  BY HistoryTypes, VersionSeq DEF TypeInv, HistoryInv, KnownInv
<1>2. ASSUME NEW r \in NewestOf(recent) PROVE r \in NewestOf(log)
  <2>1. r \in recent /\ \A p \in recent : p.node = r.node => p.seq <= r.seq
    BY <1>2 DEF NewestOf
  <2>2. ASSUME NEW q \in log, q.node = r.node PROVE q.seq <= r.seq
    <3>1. PICK p \in recent : p.node = q.node /\ p.seq >= q.seq
      BY DEF SeenInv, CoveredBy
    <3> QED BY <1>1, <2>1, <2>2, <3>1
  <2> QED BY <1>1, <2>1, <2>2 DEF NewestOf
<1>3. ASSUME NEW r \in NewestOf(log) PROVE r \in NewestOf(recent)
  <2>1. r \in log /\ \A p \in log : p.node = r.node => p.seq <= r.seq
    BY <1>3 DEF NewestOf
  <2>2. PICK p \in recent : p.node = r.node /\ p.seq >= r.seq
    BY <2>1 DEF SeenInv, CoveredBy
  <2>3. p.seq = r.seq
    BY <1>1, <2>1, <2>2
  <2>4. p = r
    BY <1>1, <2>1, <2>2, <2>3 DEF SeenInv
  <2> QED BY <1>1, <2>1, <2>2, <2>4 DEF NewestOf
<1> QED BY <1>2, <1>3

\* A set that covers another reaches at least as far.
LEMMA LastSeqCovers ==
  ASSUME NEW S, NEW T, S \subseteq Version, T \subseteq Version,
         \A r \in S : CoveredBy(T, r)
  PROVE  LastSeq(S) <= LastSeq(T)
<1>1. LastSeq(S) \in Nat /\ LastSeq(T) \in Nat
  BY LastSeqIsMax, BoundsAssumption
<1>2. CASE S = {}
  <2>1. LastSeq(S) = 0
    BY <1>2, LastSeqIsMax
  <2> QED BY <1>1, <2>1
<1>3. CASE S # {}
  <2>1. PICK r \in S : r.seq = LastSeq(S)
    BY <1>3, LastSeqIsMax
  <2>2. PICK q \in T : q.seq >= r.seq
    BY DEF CoveredBy
  <2>3. q.seq <= LastSeq(T) /\ q.seq \in Nat
    BY LastSeqIsMax, VersionSeq
  <2> QED BY <1>1, <2>1, <2>2, <2>3
<1> QED BY <1>2, <1>3

\* Nothing open() would load is lost by a step, unless a newer version of the
\* same node takes its place.
LEMMA RecoverableKept ==
  ASSUME Harmless, TableInv, HistoryInv, [Next]_vars, NEW r \in Recoverable
  PROVE  CoveredBy(Recoverable', r)
<1> USE DEF TableInv
<1> DEFINE S == Stored(manifest.tables)
<1>1. S \subseteq Version /\ Replayed \subseteq Version
  BY RecoverableType DEF TypeInv
<1>2. ASSUME NEW q \in S PROVE CoveredBy(S', q)
  <2>1. CASE manifest'.tables = manifest.tables
    <3>1. S' = S
      BY <2>1, StoredFrame
    <3> QED BY <1>1, <3>1, CoveredBySelf
  <2>2. CASE FlushManifest /\ manifest'.tables = manifest.tables \cup {mman.nextSst}
    <3>1. S \subseteq S'
      BY <2>2 DEF FlushManifest, Stored
    <3> QED BY <1>1, <3>1, CoveredBySelf, CoveredByMore
  <2>3. CASE CompactManifest /\ manifest'.tables = {mman.nextSst}
    <3>1. sst' = sst /\ sst[mman.nextSst].recs = NewestOf(S)
      <4>1. sst' = sst /\ pc = "compact_manifest" /\ opened
        BY <2>3 DEF CompactManifest, TypeInv, StepInv
      <4>2. mman.tables = manifest.tables
        BY <4>1 DEF ListInv
      <4>3. sst[mman.nextSst].recs = NewestOf(Stored(mman.tables))
        BY <4>1 DEF BuildInv
      <4> QED BY <4>1, <4>2, <4>3
    <3>2. UNION {sst'[id].recs : id \in {mman.nextSst}} = NewestOf(S)
      <4>1. UNION {sst[id].recs : id \in {mman.nextSst}} = sst[mman.nextSst].recs
        OBVIOUS
      <4> QED BY <3>1, <4>1
    <3>3. S' = NewestOf(S)
      BY <2>3, <3>2 DEF Stored
    <3> QED BY <1>1, <3>3, NewestCovers
  <2> QED BY <2>1, <2>2, <2>3, ManifestSteps
<1>3. S' \subseteq Recoverable'
  BY DEF Recoverable
<1> HIDE DEF S
<1>4. CASE r \in S
  BY <1>2, <1>3, <1>4, CoveredByMore
<1>5. CASE r \in Replayed
  <2>1. EnableWal /\ r \in wal.recs /\ Replayed' = wal'.recs /\ r \in Version /\ r \in log
    BY <1>1, <1>5 DEF Replayed, HistoryInv, KnownInv
  <2>2. ASSUME wal.recs \subseteq wal'.recs PROVE CoveredBy(Recoverable', r)
    <3>1. r \in Recoverable'
      BY <2>1, <2>2 DEF Recoverable
    <3> QED BY <2>1, <3>1, CoveredBySelf
  <2>3. CASE RotateRemove
    <3>1. CoveredBy(S, r) /\ S' = S
      BY <2>1, <2>3 DEF RotateRemove, HistoryInv, FlushedInv, RotateSteps, Stored, S
    <3> QED BY <1>3, <3>1, CoveredByMore
  <2>4. CASE RotateClose \/ Crash \/ CloseWal
    BY <2>2, <2>4, StreamEnds DEF RotateClose, Crash, CloseWal
  <2>5. CASE UNCHANGED wal
    BY <2>2, <2>5
  <2>6. UNCHANGED wal \/ RotateRemove \/ RotateClose \/ Crash \/ CloseWal
    BY DEF Next, Step, Insert, Erase, Append, AppendRefused, Flush, FlushBegin, FlushWrite,
       FlushManifest, FlushOpen, Compact, CompactWrite, CompactOpen, CompactManifest,
       CompactDelete, Open, OpenFails, Close, vars, disk, mem
  <2> QED BY <2>3, <2>4, <2>5, <2>6
<1> QED BY <1>4, <1>5 DEF Recoverable, S

\* The durable point stays within the history, and never moves back.
LEMMA DurablePoint ==
  ASSUME Harmless, RInv, RInv', [Next]_vars, UNCHANGED log
  PROVE  LastSeq(Recoverable)' \in LastSeq(Recoverable) .. LastSeq(log)
<1>1. /\ Recoverable \subseteq Version /\ log \subseteq Version
      /\ LastSeq(Recoverable) \in Nat /\ LastSeq(log) \in Nat
  BY RecoverableType, HistoryTypes, LastSeqIsMax, BoundsAssumption
  DEF RInv, IInv, TableInv, TypeInv
<1>2. Recoverable' \subseteq log
  BY DEF RInv, IInv, HistoryInv, KnownInv, Recoverable, Replayed
<1>3. Recoverable' \subseteq Version /\ \A r \in Recoverable' : CoveredBy(log, r)
  BY <1>1, <1>2, CoveredBySelf
<1>4. \A r \in Recoverable : CoveredBy(Recoverable', r)
  BY RecoverableKept DEF RInv, IInv
<1> DEFINE T == Recoverable'
<1>5. T \subseteq Version /\ (\A r \in T : CoveredBy(log, r))
      /\ (\A r \in Recoverable : CoveredBy(T, r))
  BY <1>3, <1>4
<1> HIDE DEF T
<1>6. LastSeq(T) \in Nat
  BY <1>5, LastSeqIsMax, BoundsAssumption
<1>7. LastSeq(Recoverable) <= LastSeq(T) /\ LastSeq(T) <= LastSeq(log)
  BY <1>1, <1>5, LastSeqCovers
<1>8. LastSeq(Recoverable)' = LastSeq(T)
  BY DEF LastSeq, T
<1> QED BY <1>1, <1>6, <1>7, <1>8

\* The operators of the instance are those of this module.
LEMMA SameOperators ==
  ASSUME NEW S, NEW q
  PROVE  /\ Abs!NewestOf(S) = NewestOf(S)
         /\ Abs!UpTo(S, q) = UpTo(S, q)
         /\ Abs!LastSeq(S) = LastSeq(S)
         /\ Abs!Record = Record
BY DEF Abs!NewestOf, NewestOf, Abs!UpTo, UpTo, Abs!LastSeq, LastSeq, Abs!Record, Record

\* Every step of the store is a step of the abstract one, or none: a write, a
\* stop, a restart that serves a prefix, or something reaching the disk.
LEMMA StoreSteps ==
  ASSUME Harmless, RInv, RInv', [Next]_vars
  PROVE  Abs!Next \/ UNCHANGED Abs!avars
<1> DEFINE Served == IF opened THEN NewestOf(recent) ELSE {}
<1>1. TypeInv /\ HistoryInv /\ SeenInv
  BY DEF RInv, IInv, TableInv
<1>2. opened' => NewestOf(recent') = NewestOf(log')
  <2>1. (TypeInv /\ HistoryInv /\ SeenInv)'
    BY DEF RInv, IInv, TableInv
  <2>2. (TypeInv /\ HistoryInv /\ SeenInv /\ opened => NewestOf(recent) = NewestOf(log))'
    BY ReadersSeeNewest, PTL
  <2> QED BY <2>1, <2>2 DEF NewestOf
<1>3. ASSUME NEW n \in Nodes, NEW v \in Values \cup {Deleted}, Append(n, v)
      PROVE  Abs!Write
  <2> DEFINE r == [seq |-> mman.nextSeq, node |-> n, val |-> v]
  <2>1. log' = log \cup {r} /\ opened /\ opened' /\ opened' = opened /\ UNCHANGED disk
    BY <1>3 DEF Append
  <2>2. r \in Record /\ r.seq = mman.nextSeq
    BY <1>1 DEF Record, TypeInv, TypeOK, ManifestData
  <2> HIDE DEF r
  <2>3. \A q \in log : q.seq < r.seq /\ q.seq \in Nat
    BY <1>1, <2>1, <2>2, HistoryTypes, VersionSeq DEF TypeInv, HistoryInv, KnownInv
  <2>4. r \in log' \ log
    BY <2>1, <2>2, <2>3 DEF Record
  <2>5. LastSeq(Recoverable)' = LastSeq(Recoverable)
    BY <2>1 DEF disk, LastSeq, Recoverable, Replayed, Stored
  <2>6. \E p \in log' \ log : /\ p \in Abs!Record
                              /\ \A q \in log : q.seq < p.seq
                              /\ log' = log \cup {p}
    BY <2>1, <2>2, <2>3, <2>4, SameOperators
  <2>7. Served' = Abs!NewestOf(log')
    BY <1>2, <2>1, SameOperators
  <2> QED BY <2>1, <2>5, <2>6, <2>7 DEF Abs!Write
<1>4. ASSUME Open PROVE Abs!Recover
  <2>1. ~opened /\ opened' = TRUE /\ log' = UpTo(log, LastSeq(Recoverable)) /\ UNCHANGED disk
    BY <1>4 DEF Open
  <2>2. LastSeq(Recoverable)' = LastSeq(Recoverable)
    BY <2>1 DEF disk, LastSeq, Recoverable, Replayed, Stored
  <2>3. Served' = Abs!NewestOf(log')
    BY <1>2, <2>1, SameOperators
  <2> QED BY <2>1, <2>2, <2>3, SameOperators DEF Abs!Recover
<1>5. ASSUME UNCHANGED log
      PROVE  LastSeq(Recoverable)' \in LastSeq(Recoverable) .. Abs!LastSeq(log)
  BY <1>5, DurablePoint, SameOperators
<1>6. ASSUME opened, ~opened', opened' = FALSE, UNCHANGED log PROVE Abs!Stop
  BY <1>5, <1>6 DEF Abs!Stop
<1>7. ASSUME UNCHANGED <<log, recent, opened>> PROVE Abs!Persist
  <2>1. Served' = Served
    BY <1>7 DEF NewestOf
  <2> QED BY <1>5, <1>7, <2>1 DEF Abs!Persist
<1> QED BY <1>1, <1>3, <1>4, <1>6, <1>7, VisibleSteps DEF Abs!Next

\* Whatever crashes, and whatever fails without losing something by itself: the
\* files, the memtable and the buffered log behave as one store whose durable
\* point never moves back and which restarts from exactly that point.
THEOREM StoreImplements == ASSUME Harmless PROVE Spec => ImplementsDurableStore
<1>1. Init => RInv /\ Abs!Init
  <2> SUFFICES ASSUME Init PROVE SeenInv /\ Abs!Init
    BY InitIInv DEF RInv
  <2>1. Recoverable = {}
    BY DEF Init, NewManifest, Recoverable, Replayed, Stored
  <2>2. LastSeq(Recoverable) = 0
    BY <2>1 DEF LastSeq
  <2> QED BY <2>2 DEF Init, SeenInv, Abs!Init
<1>2. RInv /\ [Next]_vars => RInv'
  BY IInvStep, SeenInvStep DEF RInv, IInv, TableInv
<1>3. RInv /\ RInv' /\ [Next]_vars => [Abs!Next]_Abs!avars
  BY StoreSteps
<1> QED BY <1>1, <1>2, <1>3, PTL DEF Spec, ImplementsDurableStore, Abs!Spec
=============================================================================
