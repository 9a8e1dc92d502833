------------------------------ MODULE GraphFile ------------------------------
(***************************************************************************)
(* The index file: PackedDiskGraphBuilder and NaiveDiskGraphBuilder write  *)
(* a header, a directory and one page after another; PackedDiskGraphIndex  *)
(* and NaiveDiskGraphIndex read it.                                        *)
(*                                                                         *)
(* A build may stop at any moment, by a failing write or with its process, *)
(* and leaves what has reached the file.  The stream is closed without a   *)
(* look at its state, so that a build may also end well on a file that     *)
(* lacks its tail.  A later run takes any file that exists for the index.  *)
(*                                                                         *)
(* Bytes matter only for how many nodes a page holds.  A record keeps its  *)
(* fields, not their layout in the page.                                   *)
(***************************************************************************)
EXTENDS GraphBuild

CONSTANTS
  Dim,       \* base.dim
  PageSize,  \* config.page_size
  PqBytes    \* pq_code_bytes of one neighbour

\* What the builders demand before they begin.
ASSUME FileAssumption ==
  Dim \in Nat \ {0} /\ PageSize \in Nat /\ PageSize >= 4096 /\ PqBytes \in Nat

VARIABLES
  file  \* the file's header, directory and pages, as far as they were written

NoNode == -1   \* std::numeric_limits<std::uint32_t>::max()

\* graph_record_bytes: id, degree, vector, neighbours and their PQ codes.
RecordBytes == 8 + 4 * Dim + 4 * Degree + Degree * PqBytes

\* The page id and the node count are not counted.
FaultyNodesPerPage == PageSize \div RecordBytes

\* packed_nodes_per_page
NodesPerPage == IF PageSize <= 8 THEN 0 ELSE (PageSize - 8) \div RecordBytes

\* The builders refuse a page that cannot hold one node.
ASSUME PageHoldsNode == NodesPerPage > 0

\* align_up
AlignUp(value, alignment) ==
  IF alignment = 0 \/ value % alignment = 0 THEN value
  ELSE value + alignment - (value % alignment)

\* records_offset
RecordsOffset == AlignUp(4096 + 4 * N, PageSize)

PerPage == IF build.packing = "one-node" THEN 1 ELSE NodesPerPage

PageCount == (N + PerPage - 1) \div PerPage

-----------------------------------------------------------------------------
\* Writing.

NoFile == [header |-> FALSE, directory |-> << >>, pages |-> << >>]

\* A node's part of a page: the row is padded to the degree.
Record(u) ==
  [id |-> u, degree |-> Len(graph[u]),
   row |-> [i \in 1 .. Degree |-> IF i <= Len(graph[u]) THEN graph[u][i] ELSE NoNode]]

Padding == [id |-> NoNode, degree |-> 0, row |-> [i \in 1 .. Degree |-> NoNode]]

\* encode_packed_page; the page of one node of NaiveDiskGraphBuilder.
EncodePage(p) ==
  LET count == Min({PerPage, N - p * PerPage})
  IN  [id |-> p, count |-> count,
       slots |-> [s \in 1 .. PerPage |->
                    IF s <= count THEN Record(order[p * PerPage + s]) ELSE Padding]]

\* node_to_page
Directory == [u \in Node |-> ((CHOOSE i \in 1 .. N : order[i] = u) - 1) \div PerPage]

\* The file is created, which ends what it held before.
WriteHeader ==
  /\ stage = "write" /\ ~file.header
  /\ file' = [NoFile EXCEPT !.header = TRUE, !.directory = Directory]
  /\ UNCHANGED building

WritePage ==
  /\ stage = "write" /\ file.header /\ Len(file.pages) < PageCount
  /\ file' = [file EXCEPT !.pages = Append(@, EncodePage(Len(@)))]
  /\ UNCHANGED building

\* What may be left of the file when the build stops.
Remains ==
  {NoFile, [file EXCEPT !.directory = << >>, !.pages = << >>]} \cup
  {[file EXCEPT !.pages = SubSeq(@, 1, n)] : n \in 0 .. Len(file.pages)}

CloseFile ==
  /\ stage = "write" /\ file.header /\ Len(file.pages) = PageCount
  /\ file' \in Remains
  /\ stage' = "ready"
  /\ UNCHANGED <<build, graph, todo, passes, medoid, order>>

\* A write fails and the builder throws, or the process ends.
BuildStops ==
  /\ stage = "write" /\ file.header
  /\ file' \in Remains
  /\ stage' = "failed"
  /\ UNCHANGED <<build, graph, todo, passes, medoid, order>>

WriteStep ==
  \/ (ChooseOrder(PerPage) /\ UNCHANGED file)
  \/ WriteHeader \/ WritePage \/ CloseFile

-----------------------------------------------------------------------------
\* Reading.

\* The constructors: PackedDiskGraphIndex also reads the directory.
Opens == file.header /\ (build.packing = "one-node" \/ file.directory # << >>)

PageOf(u) == IF build.packing = "one-node" THEN u ELSE file.directory[u]

\* read_page: a page that is not there is a short read.  decode_packed_page
\* and read_node compare the page with what they asked for.
Readable(p) ==
  /\ p < Len(file.pages)
  /\ LET page == file.pages[p + 1] IN page.id = p /\ page.count <= PerPage

\* decode_packed_page
Records(p) == LET page == file.pages[p + 1]
              IN  Range(SubSeq(page.slots, 1, page.count))

Neighbours(r) == Keep(SubSeq(r.row, 1, r.degree), Range(r.row) \ {NoNode})

\* find_node, which throws when the page lacks the node.
RecordsOf(u) == {r \in Records(PageOf(u)) : r.id = u}

RowOf(u) == Neighbours(CHOOSE r \in RecordsOf(u) : TRUE)

Found(u) == Readable(PageOf(u)) /\ RecordsOf(u) # {}

AllPages == 0 .. PageCount - 1

\* ensure_node_in_degrees, over every page of the file.
InDegrees ==
  LET all == UNION {Records(p) : p \in AllPages}
  IN  [v \in Node |-> Cardinality({r \in all : v \in Range(Neighbours(r))})]

-----------------------------------------------------------------------------
\* Properties.

FileTypeOK ==
  /\ file.header \in BOOLEAN
  /\ file.directory \in [Node -> Nat] \cup {<< >>}
  /\ Len(file.pages) <= PageCount

Complete == Opens /\ Len(file.pages) = PageCount

\* What was built is what is read: through the directory, the pages and
\* their slots every node is found with exactly the row the builder gave
\* it, the bytes of a page are enough for its nodes, and the pages begin
\* after the directory, where reads that bypass the page cache can.
FileServesGraph ==
  stage = "ready" /\ Complete
  => /\ 8 + NodesPerPage * RecordBytes <= PageSize
     /\ 4096 + 4 * N <= RecordsOffset /\ RecordsOffset % PageSize = 0
     /\ \A u \in Node : Found(u) /\ RowOf(u) = graph[u]
=============================================================================
