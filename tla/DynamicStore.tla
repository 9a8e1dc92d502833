---------------------------- MODULE DynamicStore ----------------------------
(***************************************************************************)
(* DynamicWriteManager with the files behind it: the write-ahead log, the  *)
(* SSTables and the manifest.  insert, erase, flush, compact_once, open    *)
(* and close run one at a time (they hold mutex_), but each is split at    *)
(* the points where the disk changes, because the process can die between  *)
(* any two of them and because each of those calls can fail.               *)
(*                                                                         *)
(* A crash is the death of the process: what was handed to the operating   *)
(* system stays, what is still in the ofstream of the WAL writer may be    *)
(* cut anywhere, also in the middle of a record.                           *)
(*                                                                         *)
(* A definition whose name starts with Faulty is a variant of the one      *)
(* after it, with a bug the code does not have.  No action uses it: it is  *)
(* there to check that the properties would notice that bug.               *)
(***************************************************************************)
EXTENDS DynamicRecords, FiniteSets

CONSTANTS
  EnableWal,    \* DynamicWriteOptions::enable_wal
  AutoFlush,    \* DynamicWriteOptions::enable_auto_flush
  FlushAt,      \* memtable_flush_bytes, counted in records
  TornTail,     \* whether a crash may cut the log inside a record
  Faults,       \* the file operations that may fail
  MaxSeq,       \* bound: sequence numbers an insert may take
  MaxTables,    \* bound: SSTable ids
  MaxCrashes,   \* bound: crashes
  MaxFaults     \* bound: failing file operations

\* sst_write      a write of an SSTable file reports failure
\* meta_lost      the .meta file is lost when its stream is destroyed
\* manifest_tmp   manifest.json.tmp cannot be written
\* manifest_swap  rename fails twice, after remove(manifest.json)
\* reader_open    SSTableReader::open fails on an intact table
\* scan_skip      SSTableReader::get cannot open .data during scan_all
\* wal_append     writing a WAL record fails
\* wal_close      flushing the WAL fails
\* wal_remove     removing wal.log fails
\* wal_open       a fresh wal.log cannot be opened
FaultKinds == {"sst_write", "meta_lost", "manifest_tmp", "manifest_swap",
               "reader_open", "scan_skip", "wal_append", "wal_close",
               "wal_remove", "wal_open"}

\* The failures that may lose something already durable: a table whose .meta
\* is gone, a manifest removed between two failing renames, a table that
\* opens for the writer but not for the reader, a record a merge skips.
Harmful == {"meta_lost", "manifest_swap", "reader_open", "scan_skip"}

ASSUME BoundsAssumption ==
  /\ MaxSeq \in Nat /\ MaxTables \in Nat \ {0}
  /\ MaxCrashes \in Nat /\ MaxFaults \in Nat /\ FlushAt \in Nat
ASSUME OptionsAssumption ==
  /\ EnableWal \in BOOLEAN /\ AutoFlush \in BOOLEAN /\ TornTail \in BOOLEAN
  /\ Faults \subseteq FaultKinds

TableIds == 1 .. MaxTables

VARIABLES
  manifest,  \* manifest.json
  sst,       \* the SSTable files by id: their records, and whether they open
  wal,       \* wal.log: the records before the first torn one, and whether
             \* one is torn (replay never reads past it)
  mman,      \* manifest_: the manager's own copy
  memtable,  \* memtable_->records_
  recent,    \* recent_records_, what the published read view is made of
  buf,       \* records in the WAL writer's stream, not yet in wal.log
  writer,    \* wal_writer_: none, ok, bad (failed stream) or closed
  opened,    \* opened_
  victims,   \* the replaced tables compact_once still has to delete
  pc,        \* the next step of the operation that holds mutex_
  call,      \* that operation, or the last one, and its result so far
  log,       \* history: the versions that took effect and were not lost
  crashes, faults

disk == <<manifest, sst, wal>>
mem  == <<mman, memtable, recent, buf, writer, opened, victims>>
vars == <<disk, mem, pc, call, log, crashes, faults>>

Steps == {"idle", "flush_begin", "flush_write", "flush_manifest",
          "flush_open", "rotate_close", "rotate_remove", "compact_write",
          "compact_open", "compact_manifest", "compact_delete", "close_wal"}
Ops == {"append", "flush", "compact", "open", "close"}

ManifestData ==
  [nextSeq : Nat \ {0}, nextSst : 1 .. MaxTables + 1,
   tables : SUBSET TableIds]

FaultyNewManifest == [nextSeq |-> 0, nextSst |-> 1, tables |-> {}]

\* ManifestData{}, which load also returns when manifest.json is missing.
NewManifest == [nextSeq |-> 1, nextSst |-> 1, tables |-> {}]

\* The versions within the bound.
Version == [seq : 1 .. MaxSeq, node : Nodes, val : Values \cup {Deleted}]

Tables  == [TableIds -> [recs : SUBSET Version, ok : BOOLEAN]]
WalFile == [recs : SUBSET Version, torn : BOOLEAN]
Calls   == [op : Ops, ok : BOOLEAN]

TypeOK ==
  /\ manifest \in ManifestData /\ mman \in ManifestData
  /\ sst \in Tables /\ wal \in WalFile
  /\ memtable \subseteq Version /\ recent \subseteq Version
  /\ buf \subseteq Version /\ log \subseteq Version
  /\ writer \in {"none", "ok", "bad", "closed"}
  /\ opened \in BOOLEAN
  /\ victims \subseteq TableIds
  /\ pc \in Steps /\ call \in Calls
  /\ crashes \in Nat /\ faults \in Nat

-----------------------------------------------------------------------------
\* Helpers.

\* A call returns, or goes on to its next step with its result so far.
Return(r)    == pc' = "idle" /\ call' = [call EXCEPT !.ok = r]
Goto(step)   == pc' = step /\ UNCHANGED call
Start(op, s) == pc' = s /\ call' = [op |-> op, ok |-> TRUE]
Reply(op, r) == pc' = "idle" /\ call' = [op |-> op, ok |-> r]

Fail(kind) ==
  /\ kind \in Faults /\ faults < MaxFaults
  /\ faults' = faults + 1
NoFail == UNCHANGED faults

\* SSTableReader::open: meta, index and data are there and agree.
Opens(id) == sst[id].ok

\* The records of the tables ids, as scan_all returns them.
Stored(ids) == UNION {sst[id].recs : id \in ids}

\* WalReader::replay: the records before the first one that is not whole.
Replayed == IF EnableWal THEN wal.recs ELSE {}

\* What open() would load from the disk as it is now.
Recoverable == Stored(manifest.tables) \cup Replayed

\* The stream is closed without being flushed.
FaultyLogged(S) == wal

\* wal.log after the records S reached it.  Bytes behind a torn record are
\* in the file but WalReader::replay never gets to them.
Logged(S) == [wal EXCEPT !.recs = IF wal.torn THEN @ ELSE @ \cup S]

\* What wal.log may hold when the stream is abandoned: a prefix of the
\* buffer, and perhaps a part of the record after it.
Spilled ==
  LET whole == {Logged(UpTo(buf, c)) :
                  c \in {0} \cup {r.seq : r \in buf}}
      torn(w) == [w EXCEPT !.torn = TRUE]
  IN  whole \cup
      { torn(w) : w \in {w \in whole :
          TornTail /\ (writer = "bad" \/ w # Logged(buf))} }

\* SSTableWriter truncates the files of the table; until its last write the
\* table does not open.
Truncate(id) == sst' = [sst EXCEPT ![id] = [recs |-> {}, ok |-> FALSE]]
Write(id, S) == sst' = [sst EXCEPT ![id] = [recs |-> NewestOf(S), ok |-> TRUE]]

\* The versions replayed from wal.log are not counted.
FaultyNextSeqFor(loaded) ==
  IF LastSeq(Stored(manifest.tables)) + 1 > manifest.nextSeq
    THEN LastSeq(Stored(manifest.tables)) + 1 ELSE manifest.nextSeq

\* next_sequence_id once open() has seen every version in loaded.
NextSeqFor(loaded) ==
  IF LastSeq(loaded) + 1 > manifest.nextSeq
    THEN LastSeq(loaded) + 1 ELSE manifest.nextSeq

ShouldFlush(m) == AutoFlush /\ Cardinality(m) >= FlushAt

Init ==
  /\ manifest = NewManifest
  /\ sst = [id \in TableIds |-> [recs |-> {}, ok |-> FALSE]]
  /\ wal = [recs |-> {}, torn |-> FALSE]
  /\ mman = NewManifest
  /\ memtable = {} /\ recent = {} /\ buf = {} /\ victims = {}
  /\ writer = "none" /\ opened = FALSE
  /\ pc = "idle" /\ call = [op |-> "close", ok |-> TRUE]
  /\ log = {} /\ crashes = 0 /\ faults = 0

-----------------------------------------------------------------------------
\* insert, update and erase: append_record_locked.

Append(n, v) ==
  LET r == [seq |-> mman.nextSeq, node |-> n, val |-> v] IN
  /\ pc = "idle" /\ opened
  /\ EnableWal => writer = "ok"
  /\ mman.nextSeq <= MaxSeq
  /\ buf' = IF EnableWal THEN buf \cup {r} ELSE buf
  /\ memtable' = Overwrite(memtable, r)
  /\ recent' = recent \cup {r}
  /\ log' = log \cup {r}
  /\ mman' = [mman EXCEPT !.nextSeq = @ + 1]
  /\ IF ShouldFlush(memtable')
       THEN mman.nextSst <= MaxTables /\ Start("append", "flush_begin")
       ELSE Reply("append", TRUE)
  /\ NoFail
  /\ UNCHANGED <<disk, writer, opened, victims, crashes>>

Insert == \E n \in Nodes, v \in Values : Append(n, v)
Erase  == \E n \in Nodes : Append(n, Deleted)

\* The WAL refuses the record: nothing else changes, the call returns false.
\* A write that fails leaves the stream bad; a failing write never leaves
\* the whole record in the file.
AppendRefused ==
  /\ pc = "idle" /\ opened /\ EnableWal
  /\ \/ writer # "ok" /\ NoFail /\ UNCHANGED writer
     \/ writer = "ok" /\ Fail("wal_append") /\ writer' = "bad"
  /\ Reply("append", FALSE)
  /\ UNCHANGED <<disk, mman, memtable, recent, buf, opened, victims, log,
                 crashes>>

-----------------------------------------------------------------------------
\* flush: flush_locked, then rotate_wal_locked.

Flush ==
  /\ pc = "idle" /\ opened
  /\ IF memtable = {}
       THEN Reply("flush", TRUE)
       ELSE mman.nextSst <= MaxTables /\ Start("flush", "flush_begin")
  /\ NoFail
  /\ UNCHANGED <<disk, mem, log, crashes>>

FlushBegin ==
  /\ pc = "flush_begin"
  /\ Truncate(mman.nextSst)
  /\ Goto("flush_write") /\ NoFail
  /\ UNCHANGED <<manifest, wal, mem, log, crashes>>

\* write_meta returns before its stream is flushed, so losing the .meta file
\* is not reported: the table is taken for written and does not open.
FlushWrite ==
  /\ pc = "flush_write"
  /\ \/ Write(mman.nextSst, memtable) /\ Goto("flush_manifest") /\ NoFail
     \/ Fail("sst_write") /\ Return(FALSE) /\ UNCHANGED sst
     \/ Fail("meta_lost") /\ Goto("flush_manifest") /\ UNCHANGED sst
  /\ UNCHANGED <<manifest, wal, mem, log, crashes>>

\* Manifest::save: write manifest.json.tmp, rename it over manifest.json; if
\* that fails remove manifest.json and rename again.
SaveManifest(m) == manifest' = m /\ NoFail
SaveFails ==
  \/ Fail("manifest_tmp") /\ UNCHANGED manifest
  \/ Fail("manifest_swap") /\ manifest' = NewManifest

\* The table id is not advanced; the table is not entered.
FaultyReusedId  == [mman EXCEPT !.tables = @ \cup {mman.nextSst}]
FaultyNotListed == [mman EXCEPT !.nextSst = @ + 1]

\* next_manifest of flush_locked.
WithNewTable ==
  [mman EXCEPT !.tables = @ \cup {mman.nextSst}, !.nextSst = @ + 1]

\* The manifest is changed in memory only.
FaultyFlushManifest ==
  /\ pc = "flush_manifest"
  /\ Goto("flush_open") /\ NoFail
  /\ UNCHANGED <<disk, mem, log, crashes>>

\* A flush that cannot save the manifest drops the records it had taken.
FaultyFlushSave ==
  /\ pc = "flush_manifest"
  /\ \/ SaveManifest(WithNewTable) /\ Goto("flush_open") /\ UNCHANGED memtable
     \/ SaveFails /\ Return(FALSE) /\ memtable' = {}
  /\ UNCHANGED <<sst, wal, mman, recent, buf, writer, opened, victims, log,
                 crashes>>

FlushManifest ==
  /\ pc = "flush_manifest"
  /\ \/ SaveManifest(WithNewTable) /\ Goto("flush_open")
     \/ SaveFails /\ Return(FALSE)
  /\ UNCHANGED <<sst, wal, mem, log, crashes>>

\* A table that does not open is tried again and again.
FaultyFlushOpen ==
  /\ pc = "flush_open"
  /\ \/ /\ Opens(mman.nextSst)
        /\ mman' = WithNewTable
        /\ memtable' = {}
        /\ IF EnableWal THEN Goto("rotate_close") ELSE Return(TRUE)
     \/ ~Opens(mman.nextSst) /\ UNCHANGED <<pc, call, mman, memtable>>
  /\ NoFail
  /\ UNCHANGED <<disk, recent, buf, writer, opened, victims, log, crashes>>

\* The new table is opened; only then does the manager take it over.
FlushOpen ==
  /\ pc = "flush_open"
  /\ \/ /\ Opens(mman.nextSst)
        /\ mman' = WithNewTable
        /\ memtable' = {}
        /\ IF EnableWal THEN Goto("rotate_close") ELSE Return(TRUE)
        /\ NoFail
     \/ /\ \/ ~Opens(mman.nextSst) /\ NoFail
           \/ Opens(mman.nextSst) /\ Fail("reader_open")
        /\ Return(FALSE)
        /\ UNCHANGED <<mman, memtable>>
  /\ UNCHANGED <<disk, recent, buf, writer, opened, victims, log, crashes>>

\* wal_writer_->close(); when it fails the writer stays, closed, and every
\* later append is refused.
RotateClose ==
  /\ pc = "rotate_close"
  /\ buf' = {}
  /\ \/ /\ writer = "ok" /\ NoFail
        /\ wal' = Logged(buf) /\ writer' = "none"
        /\ Goto("rotate_remove")
     \/ /\ \/ writer = "bad" /\ NoFail
           \/ writer = "ok" /\ Fail("wal_close")
        /\ wal' \in Spilled /\ writer' = "closed"
        /\ Return(FALSE)
  /\ UNCHANGED <<manifest, sst, mman, memtable, recent, opened, victims, log,
                 crashes>>

\* remove(wal.log), whose error is ignored, and a new WalWriter.
RotateRemove ==
  /\ pc = "rotate_remove"
  /\ \/ /\ wal' = [recs |-> {}, torn |-> FALSE]
        /\ \/ writer' = "ok" /\ Return(TRUE) /\ NoFail
           \/ writer' = "bad" /\ Return(FALSE) /\ Fail("wal_open")
     \/ Fail("wal_remove") /\ writer' = "ok" /\ Return(TRUE) /\ UNCHANGED wal
  /\ UNCHANGED <<manifest, sst, mman, memtable, recent, buf, opened, victims,
                 log, crashes>>

-----------------------------------------------------------------------------
\* compact_once: merge every table into one of level 1.

Compact ==
  /\ pc = "idle" /\ opened
  /\ IF Cardinality(mman.tables) < 2
       THEN Reply("compact", FALSE) /\ UNCHANGED sst
       ELSE /\ mman.nextSst <= MaxTables
            /\ Truncate(mman.nextSst)
            /\ Start("compact", "compact_write")
  /\ NoFail
  /\ UNCHANGED <<manifest, wal, mem, log, crashes>>

\* The loop over the input tables starts at the second one.
FaultyMergeInput ==
  Stored({id \in mman.tables : \E first \in mman.tables : first < id})

\* What CompactionJob merges: every record of the input tables, tombstones
\* included.
MergeInput == Stored(mman.tables)

\* CompactionJob::run.  scan_all leaves out, silently, a record it cannot
\* read.
CompactWrite ==
  /\ pc = "compact_write"
  /\ \/ Write(mman.nextSst, MergeInput) /\ Goto("compact_open") /\ NoFail
     \/ /\ Fail("scan_skip")
        /\ \E r \in MergeInput : Write(mman.nextSst, MergeInput \ {r})
        /\ Goto("compact_open")
     \/ Fail("sst_write") /\ Return(FALSE) /\ UNCHANGED sst
     \/ Fail("meta_lost") /\ Goto("compact_open") /\ UNCHANGED sst
  /\ UNCHANGED <<manifest, wal, mem, log, crashes>>

\* Here the table is opened before the manifest names it.
CompactOpen ==
  /\ pc = "compact_open"
  /\ \/ Opens(mman.nextSst) /\ Goto("compact_manifest") /\ NoFail
     \/ ~Opens(mman.nextSst) /\ Return(FALSE) /\ NoFail
     \/ Opens(mman.nextSst) /\ Fail("reader_open") /\ Return(FALSE)
  /\ UNCHANGED <<disk, mem, log, crashes>>

OnlyNewTable == [mman EXCEPT !.tables = {mman.nextSst}, !.nextSst = @ + 1]

CompactManifest ==
  /\ pc = "compact_manifest"
  /\ \/ /\ SaveManifest(OnlyNewTable)
        /\ mman' = OnlyNewTable
        /\ victims' = mman.tables
        /\ Goto("compact_delete")
     \/ SaveFails /\ Return(FALSE) /\ UNCHANGED <<mman, victims>>
  /\ UNCHANGED <<sst, wal, memtable, recent, buf, writer, opened, log, crashes>>

\* The replaced tables are deleted one after the other.
CompactDelete ==
  /\ pc = "compact_delete"
  /\ \E id \in victims :
       /\ Truncate(id)
       /\ victims' = victims \ {id}
       /\ IF victims' = {} THEN Return(TRUE) ELSE Goto("compact_delete")
  /\ NoFail
  /\ UNCHANGED <<manifest, wal, mman, memtable, recent, buf, writer, opened,
                 log, crashes>>

-----------------------------------------------------------------------------
\* open and close.

\* Every table the manifest names must open, or the store does not.
Open ==
  /\ pc = "idle" /\ ~opened
  /\ \A id \in manifest.tables : Opens(id)
  /\ recent' = Recoverable
  /\ memtable' = NewestOf(Replayed)
  /\ mman' = [manifest EXCEPT !.nextSeq = NextSeqFor(recent')]
  /\ writer' = IF EnableWal THEN "ok" ELSE "none"
  /\ buf' = {} /\ victims' = {}
  /\ opened' = TRUE
  /\ log' = UpTo(log, LastSeq(recent'))
  /\ Reply("open", TRUE) /\ NoFail
  /\ UNCHANGED <<disk, crashes>>

OpenFails ==
  /\ pc = "idle" /\ ~opened
  /\ \/ (\E id \in manifest.tables : ~Opens(id)) /\ NoFail
     \/ manifest.tables # {} /\ Fail("reader_open")
     \/ EnableWal /\ Fail("wal_open")
  /\ Reply("open", FALSE)
  /\ UNCHANGED <<disk, mem, log, crashes>>

Close ==
  /\ pc = "idle" /\ opened
  /\ \/ SaveManifest(mman) /\ call' = [op |-> "close", ok |-> TRUE]
     \/ SaveFails /\ call' = [op |-> "close", ok |-> FALSE]
  /\ pc' = "close_wal"
  /\ UNCHANGED <<sst, wal, mem, log, crashes>>

\* Memory is gone after a stop: the manager is used again only through open.
Forget ==
  /\ mman' = NewManifest
  /\ memtable' = {} /\ recent' = {} /\ buf' = {} /\ victims' = {}
  /\ writer' = "none" /\ opened' = FALSE

CloseWal ==
  /\ pc = "close_wal"
  /\ \/ /\ writer \in {"none", "ok", "closed"} /\ NoFail
        /\ wal' = Logged(buf)
        /\ Return(call.ok)
     \/ /\ \/ writer = "bad" /\ NoFail
           \/ writer = "ok" /\ Fail("wal_close")
        /\ wal' \in Spilled
        /\ Return(FALSE)
  /\ Forget
  /\ UNCHANGED <<manifest, sst, log, crashes>>

-----------------------------------------------------------------------------
\* The process dies, anywhere.
Crash ==
  /\ opened /\ crashes < MaxCrashes
  /\ crashes' = crashes + 1
  /\ wal' \in Spilled
  /\ Forget
  /\ pc' = "idle" /\ call' = [call EXCEPT !.ok = FALSE]
  /\ UNCHANGED <<manifest, sst, log, faults>>

Step ==
  \/ FlushBegin \/ FlushWrite \/ FlushManifest \/ FlushOpen
  \/ RotateClose \/ RotateRemove
  \/ CompactWrite \/ CompactOpen \/ CompactManifest \/ CompactDelete
  \/ CloseWal

Next ==
  \/ Insert \/ Erase \/ AppendRefused \/ Flush \/ Compact \/ Step
  \/ Open \/ OpenFails \/ Close \/ Crash

Spec == Init /\ [][Next]_vars

\* The thread inside an operation keeps running unless the process dies.
FairSpec == Spec /\ WF_vars(Step)

-----------------------------------------------------------------------------
\* Properties.

\* What open() would load now is, node by node, the state the store had at
\* some point of its history: replaying wal.log over the tables of the
\* manifest never mixes an old version of one node with a new one of another.
RecoverableIsPrefix ==
  /\ Recoverable \subseteq log
  /\ Covers(Recoverable, UpTo(log, LastSeq(Recoverable)))

\* append_record_locked hands out a sequence number no version in memory or on
\* disk has, so memtable_->insert never rejects a record the WAL already took.
SequenceIsFresh ==
  opened => \A r \in memtable \cup recent \cup buf \cup Recoverable :
              r.seq < mman.nextSeq

\* The manifest on disk only ever names tables that open: a crash at any step
\* of flush or compaction leaves a store that open() accepts.
ManifestTablesOpen == \A id \in manifest.tables : Opens(id)

\* When flush() has returned true every version is safe without the WAL.
FlushIsDurable ==
  opened /\ pc = "idle" /\ call = [op |-> "flush", ok |-> TRUE]
    => Covers(Stored(manifest.tables), log)

\* When close() has returned true the next open() brings every version back.
CloseIsDurable ==
  ~opened /\ call = [op |-> "close", ok |-> TRUE] => Covers(Recoverable, log)

\* The same, as long as no earlier crash left a torn record in wal.log: the
\* log is appended to behind the torn record, where replay does not look.
CleanCloseIsDurable == ~wal.torn => CloseIsDurable

\* Every write that took effect stays in the tables or the memtable, whatever
\* its call returned: insert and erase answer with the result of the automatic
\* flush, so false may stand for a version that readers see, and a flush that
\* fails at any of its steps must leave it to be flushed again.
WritesKept == opened => Covers(Stored(mman.tables) \cup memtable, log)

\* Replacing the tables of the manifest by one, as compact_once does, changes
\* the newest version of no node.  A tombstone is such a version: without it
\* the node of the disk graph it hides would be found again.
CompactionKeepsNewest ==
  [][CompactManifest /\ manifest'.nextSst > manifest.nextSst
       => NewestOf(Stored(manifest.tables)') =
          NewestOf(Stored(manifest.tables))]_vars

\* The merged table holds no tombstone, as the design document has it.
CompactionDropsTombstones ==
  pc = "compact_delete" => \A r \in Stored(mman.tables) : r.val # Deleted

\* The store implements DurableStore: its durable point is the last version
\* open() would load, and what readers see is made of recent_records_.
Abs == INSTANCE DurableStore WITH
         durable <- LastSeq(Recoverable),
         served  <- IF opened THEN NewestOf(recent) ELSE {},
         up      <- opened
ImplementsDurableStore == Abs!Spec

\* The thread that holds mutex_ lets it go.
OperationsReturn == pc # "idle" ~> pc = "idle"
=============================================================================
