--------------------------- MODULE DynamicRecords ---------------------------
(***************************************************************************)
(* The pure part of src/dynamic: record versions and the "newest version   *)
(* of a node" computations that MemTable, SSTableWriter, CompactionJob and *)
(* DynamicReadView all repeat.                                             *)
(*                                                                         *)
(* A record is one version of one node.  Its vector and neighbour list are *)
(* abstracted to a value; a tombstone carries the value Deleted.  Every    *)
(* container of the code (vector, unordered_map, file) is a set of         *)
(* records: nothing in src/dynamic depends on the order of records except  *)
(* through their sequence numbers.                                         *)
(***************************************************************************)
EXTENDS Integers

CONSTANTS Nodes,    \* node identifiers
          Values,   \* vectors an insert may carry
          Deleted   \* the value of a tombstone (deleted == true)

ASSUME DeletedAssumption == Deleted \notin Values

Record == [seq : Nat \ {0}, node : Nodes, val : Values \cup {Deleted}]

\* deduplicate_newest_at: the versions a reader at s may see.
UpTo(S, s) == {r \in S : r.seq <= s}

\* deduplicate_newest / deduplicate_records: one version per node, the newest.
NewestOf(S) == {r \in S : \A q \in S : q.node = r.node => q.seq <= r.seq}

\* The largest sequence number of S, 0 when S is empty (max_loaded_sequence).
LastSeq(S) ==
  IF S = {} THEN 0 ELSE (CHOOSE r \in S : \A q \in S : q.seq <= r.seq).seq

\* A faulty variant of Overwrite, not used by any action: the first version of
\* a node stays.
FaultyOverwrite(S, r) == IF \E q \in S : q.node = r.node THEN S ELSE S \cup {r}

\* MemTable::insert when it accepts: the node's older version is replaced.
Overwrite(S, r) == {q \in S : q.node # r.node} \cup {r}

\* Every version of S is present in T, or a newer one of the same node is.
Covers(T, S) ==
  \A r \in S : \E q \in T : q.node = r.node /\ q.seq >= r.seq
=============================================================================
