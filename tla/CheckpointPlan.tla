--------------------------- MODULE CheckpointPlan ---------------------------
(***************************************************************************)
(* What an advancing checkpoint writes and what a later bootstrap reads    *)
(* back.  A Seal selects, for the Directory and for the Ledger, a sequence *)
(* of sorted runs, newest first.  The planner appends one run with the     *)
(* rows that changed since the last checkpoint, or, when that would break  *)
(* a bound, replaces both trees by a full base.  Bootstrap merges the runs *)
(* oldest first.                                                           *)
(*                                                                         *)
(* Rows all count one unit of a table's byte target, so a run of n rows is *)
(* cut into ceil(n / TableRows) tables; a table takes one unit of bytes    *)
(* for its frame and one for each row, and is written as large as its      *)
(* estimate, which the code asserts is the most it can be.                 *)
(***************************************************************************)
EXTENDS Forest, Sequences

CONSTANTS
    TableRows,   \* rows under SST_TABLE_TARGET_BYTES
    RunsMax,     \* TREE_RUNS_MAX
    ObjectsMax,  \* PARTITION_BOOTSTRAP_OBJECTS_MAX_V2
    BytesMax,    \* PARTITION_BOOTSTRAP_BYTES_MAX_V2
    BatchMax     \* bound of the model on the length of a history

\* The code asserts that a full base at maximal capacity fits the bounds.
ASSUME PlanAssumption ==
    /\ {TableRows, RunsMax, BatchMax} \subseteq Nat \ {0}
    /\ ObjectsMax \in Nat /\ ObjectsMax >= 2 * ((PathMax + TableRows - 1) \div TableRows)
    /\ BytesMax \in Nat
    /\ BytesMax >= 2 * ((PathMax + TableRows - 1) \div TableRows + PathMax)

VARIABLES
    durable,  \* the forest after every durable RUN
    batch,    \* the durable WAL head
    cut,      \* the replay cut of the newest Seal
    base,     \* the forest at that cut
    source    \* the trees the newest Seal selects

vars == <<durable, batch, cut, base, source>>

-----------------------------------------------------------------------------

\* for_each_chunk cuts the rows of one run into tables.
Chunks(rows) == (Cardinality(DOMAIN rows) + TableRows - 1) \div TableRows

\* The byte estimate of those tables.
Bytes(rows) == Chunks(rows) + Cardinality(DOMAIN rows)

SortedRun(rows) == [rows |-> rows, tables |-> Chunks(rows), bytes |-> Bytes(rows)]

\* The i-th run of a tree, from the oldest.
Oldest(tree, i) == tree[Len(tree) + 1 - i]

\* A quantity of a tree, summed over its runs.
Total(tree, quantity) ==
    LET total[i \in 0 .. Len(tree)] ==
            IF i = 0 THEN 0 ELSE total[i - 1] + Oldest(tree, i)[quantity]
    IN  total[Len(tree)]

TreeTables(tree) == Total(tree, "tables")
TreeBytes(tree) == Total(tree, "bytes")

\* Runs of a tree after one more nonempty run.
RunsWith(tree, rows) == Len(tree) + (IF DOMAIN rows = {} THEN 0 ELSE 1)

\* Variant: the run bound is checked before the fresh run is counted.
SelectDeltaLate(seal, delta) ==
    /\ Len(seal.directory) <= RunsMax
    /\ Len(seal.ledger) <= RunsMax
    /\ TreeTables(seal.directory) + TreeTables(seal.ledger)
         + Chunks(delta.directory) + Chunks(delta.ledger) <= ObjectsMax
    /\ TreeBytes(seal.directory) + TreeBytes(seal.ledger)
         + Bytes(delta.directory) + Bytes(delta.ledger) <= BytesMax

SelectDelta(seal, delta) ==
    /\ RunsWith(seal.directory, delta.directory) <= RunsMax
    /\ RunsWith(seal.ledger, delta.ledger) <= RunsMax
    /\ TreeTables(seal.directory) + TreeTables(seal.ledger)
         + Chunks(delta.directory) + Chunks(delta.ledger) <= ObjectsMax
    /\ TreeBytes(seal.directory) + TreeBytes(seal.ledger)
         + Bytes(delta.directory) + Bytes(delta.ledger) <= BytesMax

\* Variant: the fresh run behind the carried ones.
BuildManifestAppended(carried, rows) ==
    IF DOMAIN rows = {} THEN carried ELSE Append(carried, SortedRun(rows))

\* The fresh run goes in front of the carried ones; no rows, no run.
BuildManifest(carried, rows) ==
    IF DOMAIN rows = {} THEN carried ELSE <<SortedRun(rows)>> \o carried

NoTrees == [directory |-> <<>>, ledger |-> <<>>]

\* The trees of the successor Seal: the changed rows over the carried runs, or
\* a full base of both trees.
PlanCheckpoint(seal, from, snapshot) ==
    LET delta   == DeltaSince(from, snapshot)
        appends == SelectDelta(seal, delta)
        cells   == IF appends THEN delta ELSE CheckpointCells(snapshot)
        carried == IF appends THEN seal ELSE NoTrees
    IN  [directory |-> BuildManifest(carried.directory, cells.directory),
         ledger    |-> BuildManifest(carried.ledger, cells.ledger)]

\* tree_sources and the merge of one tree: oldest run first.
MergeTree(empty, tree) ==
    LET merged[i \in 0 .. Len(tree)] ==
            IF i = 0 THEN empty ELSE Overlay(merged[i - 1], Oldest(tree, i).rows)
    IN  merged[Len(tree)]

Merge(seal) ==
    [directory |-> MergeTree(Empty.directory, seal.directory),
     ledger    |-> MergeTree(Empty.ledger, seal.ledger)]

-----------------------------------------------------------------------------

Init ==
    /\ durable = Empty
    /\ batch = 0
    /\ cut = 0
    /\ base = Empty
    /\ source = NoTrees

\* A RUN of one admitted fact becomes durable.
Commit(fact) ==
    /\ batch < BatchMax
    /\ FoldResult(durable, fact) = "ok"
    /\ durable' = StrictFold(durable, batch + 1, fact)
    /\ batch' = batch + 1
    /\ UNCHANGED <<cut, base, source>>

\* A takeover FENCE advances the durable head without a fact.
Fence ==
    /\ batch < BatchMax
    /\ batch' = batch + 1
    /\ UNCHANGED <<durable, cut, base, source>>

\* A prepared checkpoint through the durable head is published and installed;
\* its delta may be empty.
Checkpoint ==
    /\ cut < batch
    /\ source' = PlanCheckpoint(source, base, durable)
    /\ cut' = batch
    /\ base' = durable
    /\ UNCHANGED <<durable, batch>>

Next == (\E fact \in Facts : Commit(fact)) \/ Fence \/ Checkpoint

Spec == Init /\ [][Next]_vars

-----------------------------------------------------------------------------

\* A bootstrap that merges the runs of the newest Seal gets back exactly the
\* forest the checkpoint was taken of (plan_checkpoint, merge_directory_table,
\* merge_ledger_table): no deleted stream is resurrected by an older run, no
\* tombstone is lost, whatever mixture of deltas and full bases was written.
MergeRestoresBase == Merge(source) = base

\* Every reachable forest passes the cross-checks Forest::try_from makes of
\* merged rows, so a bootstrap never exits with a contradiction on them.
ForestIsWellFormed == TryFrom(durable) /\ TryFrom(Merge(source))

\* No Seal selects more runs, tables or bytes than bootstrap is willing to load
\* (plan_bootstrap_sources): the full-base fallback always restores the bounds.
WithinSourceBounds ==
    /\ Len(source.directory) <= RunsMax
    /\ Len(source.ledger) <= RunsMax
    /\ TreeTables(source.directory) + TreeTables(source.ledger) <= ObjectsMax
    /\ TreeBytes(source.directory) + TreeBytes(source.ledger) <= BytesMax

\* A path is occupied for ever: its uid never changes and a deleted stream
\* never becomes live again (strict_fold, delta_since).
OccupancyIsPermanent ==
    [][\A p \in Paths :
         durable.directory[p] # None =>
           /\ durable'.directory[p] # None
           /\ durable'.directory[p].uid = durable.directory[p].uid
           /\ durable.directory[p].state = "tombstone"
                => durable'.directory[p].state = "tombstone"]_vars

=============================================================================
