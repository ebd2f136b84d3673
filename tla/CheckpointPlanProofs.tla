------------------------ MODULE CheckpointPlanProofs ------------------------
(***************************************************************************)
(* What every history of durable facts preserves, for any number of paths, *)
(* any capacity and any length of the history.                             *)
(***************************************************************************)
EXTENDS CheckpointPlan, ForestProofs

Folded == WellFormed(durable) /\ WellFormed(base) /\ batch \in Nat

\* A new partition is empty.
LEMMA InitFolded == Init => Folded
  BY EmptyWellFormed DEF Init, Folded

\* A RUN folds one fact, a FENCE and a checkpoint fold none.
LEMMA NextFolded ==
    ASSUME Folded, [Next]_vars
    PROVE  /\ WellFormed(durable') /\ WellFormed(base') /\ batch' \in Nat
           /\ Succeeds(durable, durable')
  <1>1. ASSUME NEW fact \in Facts, Commit(fact)
        PROVE  /\ WellFormed(durable') /\ WellFormed(base') /\ batch' \in Nat
               /\ Succeeds(durable, durable')
    <2>1. /\ durable' = StrictFold(durable, batch + 1, fact) /\ batch' = batch + 1
          /\ base' = base
      BY <1>1 DEF Commit
    <2>2. batch + 1 \in Nat
      BY DEF Folded
    <2> QED
      BY <2>1, <2>2, FoldKeeps DEF Folded
  <1>2. Succeeds(durable, durable)
    BY DEF Succeeds
  <1>3. CASE Fence
    BY <1>2, <1>3 DEF Fence, Folded
  <1>4. CASE Checkpoint
    BY <1>2, <1>4 DEF Checkpoint, Folded
  <1>5. CASE UNCHANGED vars
    BY <1>2, <1>5 DEF vars, Folded
  <1> QED
    BY <1>1, <1>3, <1>4, <1>5 DEF Next

\* The invariant above, in the form of a temporal formula.
LEMMA AlwaysFolded == Spec => []Folded
  <1>1. Folded /\ [Next]_vars => Folded'
    <2> SUFFICES ASSUME Folded, [Next]_vars PROVE Folded'
      OBVIOUS
    <2>1. WellFormed(durable') /\ WellFormed(base') /\ batch' \in Nat
      BY NextFolded
    <2> QED
      BY <2>1 DEF Folded, WellFormed, TryFrom, Distinct, DenseUids, LiveIffRecord, PathCount,
                  Occupied, IsLive, Forests, Entries, Records, Uids
  <1> QED
    BY <1>1, InitFolded, PTL DEF Spec

\* A path is occupied for ever, keeps its uid and is never revived
\* (Forest::strict_fold), through any history of RUNs, FENCEs and checkpoints.
THEOREM OccupancyAlwaysPermanent == Spec => OccupancyIsPermanent
  <1>1. Folded /\ [Next]_vars =>
          [\A p \in Paths :
             durable.directory[p] # None =>
               /\ durable'.directory[p] # None
               /\ durable'.directory[p].uid = durable.directory[p].uid
               /\ durable.directory[p].state = "tombstone"
                    => durable'.directory[p].state = "tombstone"]_vars
    BY NextFolded DEF Succeeds
  <1> QED
    BY <1>1, AlwaysFolded, PTL DEF Spec, OccupancyIsPermanent

\* The forest a checkpoint snapshots passes the cross-checks of
\* Forest::try_from: uids are dense over the occupied paths, and the Ledger
\* holds a record for exactly the live ones.
DurableIsWellFormed == TryFrom(durable) /\ TryFrom(base)

\* No RUN, FENCE or checkpoint breaks what try_from demands of a forest.
THEOREM DurableAlwaysWellFormed == Spec => []DurableIsWellFormed
  <1>1. Folded => DurableIsWellFormed
    BY DEF Folded, WellFormed, DurableIsWellFormed
  <1> QED
    BY <1>1, AlwaysFolded, PTL

-----------------------------------------------------------------------------
(* Trees of runs.  Total and MergeTree go through the runs of a tree from    *)
(* the oldest; a fresh run in front of them is one more step.                *)

IsSequence(s) == \E S : s \in Seq(S)
IsMap(f) == f = [x \in DOMAIN f |-> f[x]]

IsTotal(f, tree, quantity, n) ==
    f = [i \in 0 .. n |-> IF i = 0 THEN 0 ELSE f[i - 1] + Oldest(tree, i)[quantity]]
IsMerged(f, empty, tree, n) ==
    f = [i \in 0 .. n |-> IF i = 0 THEN empty ELSE Overlay(f[i - 1], Oldest(tree, i).rows)]

InFront(more, run, tree) ==
    /\ Len(tree) \in Nat /\ Len(more) = Len(tree) + 1
    /\ Oldest(more, Len(tree) + 1) = run
    /\ \A i \in 1 .. Len(tree) : Oldest(more, i) = Oldest(tree, i)

\* The total of a quantity is defined for trees of any length.
LEMMA TotalExists ==
    ASSUME NEW tree, NEW quantity, NEW n \in Nat
    PROVE  \E f : IsTotal(f, tree, quantity, n)
  <1> DEFINE Bad == {k \in Nat : ~\E f : IsTotal(f, tree, quantity, k)}
  <1> SUFFICES ASSUME Bad # {} PROVE FALSE
    OBVIOUS
  <1>1. PICK k \in Bad : \A j \in Bad : k <= j
    BY Least
  <1>2. k # 0
    <2> DEFINE f == [i \in 0 .. 0 |-> 0]
    <2>1. IsTotal(f, tree, quantity, 0)
      BY DEF IsTotal
    <2> QED
      BY <1>1, <2>1
  <1>3. k \in Nat /\ k - 1 \in Nat /\ k - 1 \notin Bad
    BY <1>1, <1>2
  <1>4. PICK g : IsTotal(g, tree, quantity, k - 1)
    BY <1>3
  <1> DEFINE f == [i \in 0 .. k |-> IF i = k THEN g[k - 1] + Oldest(tree, k)[quantity] ELSE g[i]]
  <1>5. \A i \in 0 .. k : f[i] = IF i = 0 THEN 0 ELSE f[i - 1] + Oldest(tree, i)[quantity]
    BY <1>2, <1>3, <1>4 DEF IsTotal
  <1>6. IsTotal(f, tree, quantity, k)
    BY <1>5 DEF IsTotal
  <1> QED
    BY <1>1, <1>6

\* So is the merge.
LEMMA MergedExist ==
    ASSUME NEW empty, NEW tree, NEW n \in Nat
    PROVE  \E f : IsMerged(f, empty, tree, n)
  <1> DEFINE Bad == {k \in Nat : ~\E f : IsMerged(f, empty, tree, k)}
  <1> SUFFICES ASSUME Bad # {} PROVE FALSE
    OBVIOUS
  <1>1. PICK k \in Bad : \A j \in Bad : k <= j
    BY Least
  <1>2. k # 0
    <2> DEFINE f == [i \in 0 .. 0 |-> empty]
    <2>1. IsMerged(f, empty, tree, 0)
      BY DEF IsMerged
    <2> QED
      BY <1>1, <2>1
  <1>3. k \in Nat /\ k - 1 \in Nat /\ k - 1 \notin Bad
    BY <1>1, <1>2
  <1>4. PICK g : IsMerged(g, empty, tree, k - 1)
    BY <1>3
  <1> DEFINE f == [i \in 0 .. k |-> IF i = k THEN Overlay(g[k - 1], Oldest(tree, k).rows) ELSE g[i]]
  <1>5. \A i \in 0 .. k : f[i] = IF i = 0 THEN empty ELSE Overlay(f[i - 1], Oldest(tree, i).rows)
    BY <1>2, <1>3, <1>4 DEF IsMerged
  <1>6. IsMerged(f, empty, tree, k)
    BY <1>5 DEF IsMerged
  <1> QED
    BY <1>1, <1>6

\* The runs of a tree, counted from the oldest, stay where they are when a fresh
\* run comes in front of them.
LEMMA FreshRun ==
    ASSUME NEW tree, IsSequence(tree), NEW run, NEW more, more = <<run>> \o tree
    PROVE  IsSequence(more) /\ InFront(more, run, tree)
  <1>1. PICK S : tree \in Seq(S)
    BY DEF IsSequence
  <1>2. tree \in Seq(S \cup {run}) /\ <<run>> \in Seq(S \cup {run})
        /\ Len(<<run>>) = 1 /\ <<run>>[1] = run
    BY <1>1
  <1>3. /\ more \in Seq(S \cup {run}) /\ Len(tree) \in Nat /\ Len(more) = Len(tree) + 1
        /\ more[1] = run /\ \A i \in 2 .. Len(more) : more[i] = tree[i - 1]
    BY <1>2
  <1>4. \A i \in 1 .. Len(tree) : /\ Len(more) + 1 - i \in 2 .. Len(more)
                                  /\ (Len(more) + 1 - i) - 1 = Len(tree) + 1 - i
    BY <1>3
  <1>5. \A i \in 1 .. Len(tree) : Oldest(more, i) = Oldest(tree, i)
    BY <1>3, <1>4 DEF Oldest
  <1>6. Len(more) + 1 - (Len(tree) + 1) = 1
    BY <1>3
  <1> QED
    BY <1>3, <1>5, <1>6 DEF IsSequence, InFront, Oldest

\* A fresh run adds what it has of the quantity.
LEMMA TotalGrows ==
    ASSUME NEW tree, NEW quantity, NEW run, NEW more, InFront(more, run, tree)
    PROVE  Total(more, quantity) = Total(tree, quantity) + run[quantity]
  <1> DEFINE n == Len(tree)
  <1>1. /\ n \in Nat /\ Len(more) = n + 1 /\ Oldest(more, n + 1) = run
        /\ \A i \in 1 .. n : Oldest(more, i) = Oldest(tree, i)
    BY DEF InFront
  <1>2. PICK f : IsTotal(f, tree, quantity, n) /\ Total(tree, quantity) = f[n]
    <2>1. \E f : IsTotal(f, tree, quantity, n)
      BY <1>1, TotalExists
    <2> QED
      BY <2>1 DEF IsTotal, Total
  <1>3. PICK g : IsTotal(g, more, quantity, n + 1) /\ Total(more, quantity) = g[n + 1]
    <2>1. \E g : IsTotal(g, more, quantity, n + 1)
      BY <1>1, TotalExists
    <2> QED
      BY <1>1, <2>1 DEF IsTotal, Total
  <1> HIDE DEF n
  <1>4. \A i \in 0 .. n : g[i] = IF i = 0 THEN 0 ELSE g[i - 1] + Oldest(tree, i)[quantity]
    BY <1>1, <1>3 DEF IsTotal
  <1>5. \A i \in 0 .. n : f[i] = IF i = 0 THEN 0 ELSE f[i - 1] + Oldest(tree, i)[quantity]
    BY <1>1, <1>2 DEF IsTotal
  <1>6. f[n] = g[n]
    <2> DEFINE Bad == {i \in 0 .. n : f[i] # g[i]}
    <2> SUFFICES ASSUME Bad # {} PROVE FALSE
      BY <1>1
    <2>1. Bad \subseteq Nat
      BY <1>1
    <2>2. PICK i \in Bad : \A j \in Bad : i <= j
      BY <2>1, Least
    <2>3. i # 0
      BY <1>4, <1>5, <2>2
    <2>4. i - 1 \in 0 .. n /\ i - 1 \notin Bad
      BY <1>1, <2>2, <2>3
    <2> QED
      BY <1>4, <1>5, <2>2, <2>3, <2>4
  <1>7. g[n + 1] = g[n] + run[quantity]
    BY <1>1, <1>3 DEF IsTotal
  <1> QED
    BY <1>2, <1>3, <1>6, <1>7

\* A fresh run lies over what the older ones left.
LEMMA MergeGrows ==
    ASSUME NEW empty, NEW tree, NEW run, NEW more, InFront(more, run, tree)
    PROVE  MergeTree(empty, more) = Overlay(MergeTree(empty, tree), run.rows)
  <1> DEFINE n == Len(tree)
  <1>1. /\ n \in Nat /\ Len(more) = n + 1 /\ Oldest(more, n + 1) = run
        /\ \A i \in 1 .. n : Oldest(more, i) = Oldest(tree, i)
    BY DEF InFront
  <1>2. PICK f : IsMerged(f, empty, tree, n) /\ MergeTree(empty, tree) = f[n]
    <2>1. \E f : IsMerged(f, empty, tree, n)
      BY <1>1, MergedExist
    <2> QED
      BY <2>1 DEF IsMerged, MergeTree
  <1>3. PICK g : IsMerged(g, empty, more, n + 1) /\ MergeTree(empty, more) = g[n + 1]
    <2>1. \E g : IsMerged(g, empty, more, n + 1)
      BY <1>1, MergedExist
    <2> QED
      BY <1>1, <2>1 DEF IsMerged, MergeTree
  <1> HIDE DEF n
  <1>4. \A i \in 0 .. n : g[i] = IF i = 0 THEN empty ELSE Overlay(g[i - 1], Oldest(tree, i).rows)
    BY <1>1, <1>3 DEF IsMerged
  <1>5. \A i \in 0 .. n : f[i] = IF i = 0 THEN empty ELSE Overlay(f[i - 1], Oldest(tree, i).rows)
    BY <1>1, <1>2 DEF IsMerged
  <1>6. f[n] = g[n]
    <2> DEFINE Bad == {i \in 0 .. n : f[i] # g[i]}
    <2> SUFFICES ASSUME Bad # {} PROVE FALSE
      BY <1>1
    <2>1. Bad \subseteq Nat
      BY <1>1
    <2>2. PICK i \in Bad : \A j \in Bad : i <= j
      BY <2>1, Least
    <2>3. i # 0
      BY <1>4, <1>5, <2>2
    <2>4. i - 1 \in 0 .. n /\ i - 1 \notin Bad
      BY <1>1, <2>2, <2>3
    <2> QED
      BY <1>4, <1>5, <2>2, <2>3, <2>4
  <1>7. g[n + 1] = Overlay(g[n], run.rows)
    BY <1>1, <1>3 DEF IsMerged
  <1> QED
    BY <1>2, <1>3, <1>6, <1>7

\* A tree without runs.
LEMMA NoRuns ==
    ASSUME NEW empty, NEW quantity
    PROVE  /\ IsSequence(<<>>) /\ Len(<<>>) = 0
           /\ Total(<<>>, quantity) = 0 /\ MergeTree(empty, <<>>) = empty
  <1>1. <<>> \in Seq({}) /\ Len(<<>>) = 0
    OBVIOUS
  <1>2. PICK f : IsTotal(f, <<>>, quantity, 0) /\ Total(<<>>, quantity) = f[0]
    <2>1. \E f : IsTotal(f, <<>>, quantity, 0)
      BY TotalExists
    <2> QED
      BY <1>1, <2>1 DEF IsTotal, Total
  <1>3. PICK g : IsMerged(g, empty, <<>>, 0) /\ MergeTree(empty, <<>>) = g[0]
    <2>1. \E g : IsMerged(g, empty, <<>>, 0)
      BY MergedExist
    <2> QED
      BY <1>1, <2>1 DEF IsMerged, MergeTree
  <1>4. f[0] = 0
    BY <1>2 DEF IsTotal
  <1>5. g[0] = empty
    BY <1>3 DEF IsMerged
  <1> QED
    BY <1>1, <1>2, <1>3, <1>4, <1>5 DEF IsSequence

\* Its tables, its bytes and its rows.
LEMMA NoTables ==
    ASSUME NEW empty
    PROVE  /\ IsSequence(<<>>) /\ Len(<<>>) = 0
           /\ TreeTables(<<>>) = 0 /\ TreeBytes(<<>>) = 0 /\ MergeTree(empty, <<>>) = empty
  <1>1. /\ IsSequence(<<>>) /\ Len(<<>>) = 0
        /\ Total(<<>>, "tables") = 0 /\ MergeTree(empty, <<>>) = empty
    BY NoRuns
  <1>2. Total(<<>>, "bytes") = 0
    BY NoRuns
  <1> QED
    BY <1>1, <1>2 DEF TreeTables, TreeBytes

-----------------------------------------------------------------------------
(* The plan of a checkpoint. *)

\* The tables of a run of n rows, and of no more rows.
LEMMA ChunksOf ==
    ASSUME NEW rows, IsFiniteSet(DOMAIN rows)
    PROVE  /\ Chunks(rows) \in Nat
           /\ DOMAIN rows = {} => Chunks(rows) = 0
           /\ \A n \in Nat : Cardinality(DOMAIN rows) <= n =>
                Chunks(rows) <= (n + TableRows - 1) \div TableRows
  <1>1. TableRows \in Nat /\ TableRows > 0 /\ TableRows - 1 \in Nat
    BY PlanAssumption
  <1>2. Cardinality(DOMAIN rows) \in Nat /\ (DOMAIN rows = {} => Cardinality(DOMAIN rows) = 0)
    BY FS_CardinalityType, FS_EmptySet
  <1>3. ASSUME NEW m \in Nat, NEW n \in Nat, m <= n
        PROVE  /\ (m + TableRows - 1) \div TableRows \in Nat
               /\ (m + TableRows - 1) \div TableRows <= (n + TableRows - 1) \div TableRows
    <2>1. /\ m + TableRows - 1 \in Nat /\ n + TableRows - 1 \in Nat
          /\ m + TableRows - 1 <= n + TableRows - 1
      BY <1>1, <1>3
    <2>2. \A a, b \in Nat : a <= b => a \div TableRows <= b \div TableRows
                                      /\ a \div TableRows \in Nat
      BY <1>1
    <2> QED
      BY <2>1, <2>2
  <1>4. (0 + TableRows - 1) \div TableRows = 0
    BY <1>1
  <1> QED
    BY <1>2, <1>3, <1>4 DEF Chunks

\* The bytes of those tables.
LEMMA BytesOf ==
    ASSUME NEW rows, IsFiniteSet(DOMAIN rows)
    PROVE  /\ Bytes(rows) \in Nat
           /\ DOMAIN rows = {} => Bytes(rows) = 0
           /\ \A n \in Nat : Cardinality(DOMAIN rows) <= n =>
                Bytes(rows) <= (n + TableRows - 1) \div TableRows + n
  <1>1. Cardinality(DOMAIN rows) \in Nat /\ (DOMAIN rows = {} => Cardinality(DOMAIN rows) = 0)
    BY FS_CardinalityType, FS_EmptySet
  <1>2. /\ Chunks(rows) \in Nat /\ (DOMAIN rows = {} => Chunks(rows) = 0)
        /\ \A n \in Nat : Cardinality(DOMAIN rows) <= n =>
             Chunks(rows) <= (n + TableRows - 1) \div TableRows
    BY ChunksOf
  <1>3. \A n \in Nat : (n + TableRows - 1) \div TableRows \in Int
    BY PlanAssumption
  <1>4. ASSUME NEW n \in Nat, Cardinality(DOMAIN rows) <= n
        PROVE  Chunks(rows) + Cardinality(DOMAIN rows) <= (n + TableRows - 1) \div TableRows + n
    <2> DEFINE full == (n + TableRows - 1) \div TableRows
    <2>1. full \in Int /\ Chunks(rows) <= full
      BY <1>2, <1>3, <1>4
    <2> HIDE DEF full
    <2>2. Chunks(rows) + Cardinality(DOMAIN rows) <= full + n
      BY <1>1, <1>2, <1>4, <2>1
    <2> QED
      BY <2>2 DEF full
  <1> QED
    BY <1>1, <1>2, <1>4 DEF Bytes

\* build_manifest: one run more, its tables more, its rows on top; without rows
\* nothing changes.
LEMMA ManifestGrows ==
    ASSUME NEW carried, IsSequence(carried), NEW rows, IsFiniteSet(DOMAIN rows), NEW empty,
           IsMap(MergeTree(empty, carried)), TreeTables(carried) \in Nat,
           TreeBytes(carried) \in Nat,
           NEW tree, tree = BuildManifest(carried, rows)
    PROVE  /\ IsSequence(tree) /\ Len(tree) = RunsWith(carried, rows)
           /\ MergeTree(empty, tree) = Overlay(MergeTree(empty, carried), rows)
           /\ TreeTables(tree) = TreeTables(carried) + Chunks(rows)
           /\ TreeTables(tree) \in Nat
           /\ TreeBytes(tree) = TreeBytes(carried) + Bytes(rows)
           /\ TreeBytes(tree) \in Nat
  <1>0. Len(carried) \in Nat
    BY DEF IsSequence
  <1>1. CASE DOMAIN rows = {}
    <2>1. tree = carried
      BY <1>1 DEF BuildManifest
    <2>2. Overlay(MergeTree(empty, carried), rows) = MergeTree(empty, carried)
      BY <1>1 DEF Overlay, IsMap
    <2>3. Chunks(rows) = 0 /\ Bytes(rows) = 0
      BY <1>1, ChunksOf, BytesOf
    <2> QED
      BY <1>0, <1>1, <2>1, <2>2, <2>3 DEF RunsWith
  <1>2. CASE DOMAIN rows # {}
    <2> DEFINE run == SortedRun(rows)
    <2>1. /\ run.rows = rows /\ run.tables = Chunks(rows) /\ run.bytes = Bytes(rows)
          /\ tree = <<run>> \o carried
      BY <1>2 DEF SortedRun, BuildManifest
    <2> HIDE DEF run
    <2>2. IsSequence(tree) /\ InFront(tree, run, carried)
      BY <2>1, FreshRun
    <2>3. /\ TreeTables(tree) = TreeTables(carried) + Chunks(rows)
          /\ TreeBytes(tree) = TreeBytes(carried) + Bytes(rows)
      <3>1. Total(tree, "tables") = Total(carried, "tables") + run.tables
        BY <2>2, TotalGrows
      <3>2. Total(tree, "bytes") = Total(carried, "bytes") + run.bytes
        BY <2>2, TotalGrows
      <3> QED
        BY <2>1, <3>1, <3>2 DEF TreeTables, TreeBytes
    <2>4. MergeTree(empty, tree) = Overlay(MergeTree(empty, carried), rows)
      BY <2>1, <2>2, MergeGrows
    <2>5. Len(tree) = RunsWith(carried, rows)
      BY <1>2, <2>2 DEF RunsWith, InFront
    <2>6. Chunks(rows) \in Nat /\ Bytes(rows) \in Nat
      BY ChunksOf, BytesOf
    <2> QED
      BY <2>2, <2>3, <2>4, <2>5, <2>6
  <1> QED
    BY <1>1, <1>2

\* The trees of a Seal hold a forest and stay within the bounds of bootstrap.
Planned(seal, forest) ==
    /\ IsSequence(seal.directory) /\ IsSequence(seal.ledger)
    /\ MergeTree(Empty.directory, seal.directory) = forest.directory
    /\ MergeTree(Empty.ledger, seal.ledger) = forest.ledger
    /\ TreeTables(seal.directory) \in Nat /\ TreeTables(seal.ledger) \in Nat
    /\ TreeTables(seal.directory) + TreeTables(seal.ledger) <= ObjectsMax
    /\ TreeBytes(seal.directory) \in Nat /\ TreeBytes(seal.ledger) \in Nat
    /\ TreeBytes(seal.directory) + TreeBytes(seal.ledger) <= BytesMax
    /\ Len(seal.directory) <= RunsMax /\ Len(seal.ledger) <= RunsMax

\* The Seal of a new partition selects no tables.
LEMMA NothingPlanned == Planned(NoTrees, Empty)
  <1>1. NoTrees.directory = <<>> /\ NoTrees.ledger = <<>>
    BY DEF NoTrees
  <1>2. RunsMax \in Nat /\ RunsMax > 0
    BY PlanAssumption
  <1>3. ObjectsMax \in Nat /\ BytesMax \in Nat
    BY PlanAssumption
  <1> QED
    BY <1>1, <1>2, <1>3, NoTables DEF Planned

\* select_delta: what changed, over what the source Seal carries.
LEMMA DeltaPlanned ==
    ASSUME NEW seal, NEW from \in Forests, NEW snapshot \in Forests, Planned(seal, from),
           NEW delta, delta = DeltaSince(from, snapshot), SelectDelta(seal, delta),
           NEW next, next.directory = BuildManifest(seal.directory, delta.directory),
           next.ledger = BuildManifest(seal.ledger, delta.ledger)
    PROVE  Planned(next, snapshot)
  <1>1. IsMap(from.directory) /\ IsMap(from.ledger)
    BY DEF Forests, IsMap
  <1>2. IsFiniteSet(DOMAIN delta.directory) /\ IsFiniteSet(DOMAIN delta.ledger)
    <2>1. DOMAIN delta.directory \subseteq Paths /\ DOMAIN delta.ledger \subseteq Uids
      BY DEF DeltaSince
    <2>2. IsFiniteSet(Paths) /\ IsFiniteSet(Uids)
      <3>1. IsFiniteSet(Paths) /\ PathMax \in Nat
        BY ForestAssumption
      <3> QED
        BY <3>1, FS_Interval DEF Uids
    <2> QED
      BY <2>1, <2>2, FS_Subset
  <1>3. /\ Overlay(from.directory, delta.directory) = snapshot.directory
        /\ Overlay(from.ledger, delta.ledger) = snapshot.ledger
    <2>1. MergeRows(from, delta) = snapshot
      BY DeltaRestores
    <2> QED
      BY <2>1 DEF MergeRows
  <1>4. /\ IsSequence(seal.directory) /\ IsSequence(seal.ledger)
        /\ MergeTree(Empty.directory, seal.directory) = from.directory
        /\ MergeTree(Empty.ledger, seal.ledger) = from.ledger
        /\ TreeTables(seal.directory) \in Nat /\ TreeTables(seal.ledger) \in Nat
        /\ TreeBytes(seal.directory) \in Nat /\ TreeBytes(seal.ledger) \in Nat
    BY DEF Planned
  <1>5. /\ IsSequence(next.directory)
        /\ Len(next.directory) = RunsWith(seal.directory, delta.directory)
        /\ MergeTree(Empty.directory, next.directory) = snapshot.directory
        /\ TreeTables(next.directory) = TreeTables(seal.directory) + Chunks(delta.directory)
        /\ TreeTables(next.directory) \in Nat
        /\ TreeBytes(next.directory) = TreeBytes(seal.directory) + Bytes(delta.directory)
        /\ TreeBytes(next.directory) \in Nat
    BY <1>1, <1>2, <1>3, <1>4, ManifestGrows
  <1>6. /\ IsSequence(next.ledger) /\ Len(next.ledger) = RunsWith(seal.ledger, delta.ledger)
        /\ MergeTree(Empty.ledger, next.ledger) = snapshot.ledger
        /\ TreeTables(next.ledger) = TreeTables(seal.ledger) + Chunks(delta.ledger)
        /\ TreeTables(next.ledger) \in Nat
        /\ TreeBytes(next.ledger) = TreeBytes(seal.ledger) + Bytes(delta.ledger)
        /\ TreeBytes(next.ledger) \in Nat
    BY <1>1, <1>2, <1>3, <1>4, ManifestGrows
  <1>7. /\ Chunks(delta.directory) \in Nat /\ Chunks(delta.ledger) \in Nat /\ ObjectsMax \in Nat
        /\ TreeTables(seal.directory) + TreeTables(seal.ledger)
             + Chunks(delta.directory) + Chunks(delta.ledger) <= ObjectsMax
        /\ RunsWith(seal.directory, delta.directory) <= RunsMax
        /\ RunsWith(seal.ledger, delta.ledger) <= RunsMax
    BY <1>2, ChunksOf, PlanAssumption DEF SelectDelta
  <1>8. TreeTables(next.directory) + TreeTables(next.ledger) <= ObjectsMax
    BY <1>4, <1>5, <1>6, <1>7
  <1>9. /\ Bytes(delta.directory) \in Nat /\ Bytes(delta.ledger) \in Nat /\ BytesMax \in Nat
        /\ TreeBytes(seal.directory) + TreeBytes(seal.ledger)
             + Bytes(delta.directory) + Bytes(delta.ledger) <= BytesMax
    BY <1>2, BytesOf, PlanAssumption DEF SelectDelta
  <1>10. TreeBytes(next.directory) + TreeBytes(next.ledger) <= BytesMax
    BY <1>4, <1>5, <1>6, <1>9
  <1> QED
    BY <1>5, <1>6, <1>7, <1>8, <1>10 DEF Planned

\* The full base of a forest that try_from accepts fits the bounds, whatever was
\* carried before.
LEMMA BasePlanned ==
    ASSUME NEW snapshot, WellFormed(snapshot), NEW cells, cells = CheckpointCells(snapshot),
           NEW next, next.directory = BuildManifest(<<>>, cells.directory),
           next.ledger = BuildManifest(<<>>, cells.ledger)
    PROVE  Planned(next, snapshot)
  <1> DEFINE full == (PathMax + TableRows - 1) \div TableRows
  <1>1. /\ snapshot.directory \in [Paths -> Entries \cup {None}]
        /\ snapshot.ledger \in [Uids -> Records \cup {None}]
        /\ PathCount(snapshot) <= PathMax
    BY DEF WellFormed, Forests, TryFrom, DenseUids
  <1>2. /\ DOMAIN cells.directory = Occupied(snapshot) /\ DOMAIN cells.ledger \subseteq Uids
        /\ Overlay(Empty.directory, cells.directory) = snapshot.directory
        /\ Overlay(Empty.ledger, cells.ledger) = snapshot.ledger
    <2>1. DOMAIN cells.directory = Occupied(snapshot) /\ DOMAIN cells.ledger \subseteq Uids
      BY DEF CheckpointCells
    <2>2. Overlay(Empty.directory, cells.directory) = snapshot.directory
      BY <1>1 DEF CheckpointCells, Overlay, Empty, Occupied
    <2>3. Overlay(Empty.ledger, cells.ledger) = snapshot.ledger
      BY <1>1 DEF CheckpointCells, Overlay, Empty
    <2> QED
      BY <2>1, <2>2, <2>3
  <1>3. /\ IsFiniteSet(DOMAIN cells.directory) /\ Cardinality(DOMAIN cells.directory) <= PathMax
        /\ IsFiniteSet(DOMAIN cells.ledger) /\ Cardinality(DOMAIN cells.ledger) <= PathMax
    <2>1. IsFiniteSet(Uids) /\ Cardinality(Uids) = PathMax
      <3>1. PathMax \in Nat
        BY ForestAssumption
      <3> QED
        BY <3>1, FS_Interval DEF Uids
    <2>2. IsFiniteSet(DOMAIN cells.ledger) /\ Cardinality(DOMAIN cells.ledger) <= PathMax
      BY <1>2, <2>1, FS_Subset
    <2>3. IsFiniteSet(Occupied(snapshot))
      BY PathCountType
    <2> QED
      BY <1>1, <1>2, <2>2, <2>3 DEF PathCount
  <1>4. /\ Chunks(cells.directory) \in Nat /\ Chunks(cells.ledger) \in Nat
        /\ Chunks(cells.directory) <= full /\ Chunks(cells.ledger) <= full
        /\ Bytes(cells.directory) \in Nat /\ Bytes(cells.ledger) \in Nat
        /\ Bytes(cells.directory) <= full + PathMax /\ Bytes(cells.ledger) <= full + PathMax
    BY <1>3, ChunksOf, BytesOf, ForestAssumption
  <1>5. /\ IsSequence(<<>>) /\ TreeTables(<<>>) = 0 /\ TreeBytes(<<>>) = 0 /\ Len(<<>>) = 0
        /\ MergeTree(Empty.directory, <<>>) = Empty.directory
        /\ MergeTree(Empty.ledger, <<>>) = Empty.ledger
    BY NoTables
  <1>6. IsMap(Empty.directory) /\ IsMap(Empty.ledger)
    BY DEF Empty, IsMap
  <1>7. /\ IsSequence(next.directory) /\ Len(next.directory) = RunsWith(<<>>, cells.directory)
        /\ MergeTree(Empty.directory, next.directory) = snapshot.directory
        /\ TreeTables(next.directory) = TreeTables(<<>>) + Chunks(cells.directory)
        /\ TreeTables(next.directory) \in Nat
        /\ TreeBytes(next.directory) = TreeBytes(<<>>) + Bytes(cells.directory)
        /\ TreeBytes(next.directory) \in Nat
    BY <1>2, <1>3, <1>5, <1>6, ManifestGrows
  <1>8. /\ IsSequence(next.ledger) /\ Len(next.ledger) = RunsWith(<<>>, cells.ledger)
        /\ MergeTree(Empty.ledger, next.ledger) = snapshot.ledger
        /\ TreeTables(next.ledger) = TreeTables(<<>>) + Chunks(cells.ledger)
        /\ TreeTables(next.ledger) \in Nat
        /\ TreeBytes(next.ledger) = TreeBytes(<<>>) + Bytes(cells.ledger)
        /\ TreeBytes(next.ledger) \in Nat
    BY <1>2, <1>3, <1>5, <1>6, ManifestGrows
  <1>9. Len(next.directory) <= RunsMax /\ Len(next.ledger) <= RunsMax
    BY <1>5, <1>7, <1>8, PlanAssumption DEF RunsWith
  <1>10. /\ TreeTables(next.directory) + TreeTables(next.ledger) <= ObjectsMax
         /\ TreeBytes(next.directory) + TreeBytes(next.ledger) <= BytesMax
    <2>1. /\ TableRows \in Nat /\ TableRows > 0 /\ PathMax \in Nat
          /\ ObjectsMax \in Nat /\ ObjectsMax >= 2 * full
          /\ BytesMax \in Nat /\ BytesMax >= 2 * (full + PathMax)
      BY PlanAssumption, ForestAssumption
    <2>2. full \in Int
      BY <2>1
    <2> HIDE DEF full
    <2> QED
      BY <1>4, <1>5, <1>7, <1>8, <2>1, <2>2
  <1> QED
    BY <1>7, <1>8, <1>9, <1>10 DEF Planned

\* plan_checkpoint: the successor Seal holds the snapshot, within the bounds.
LEMMA CheckpointPlanned ==
    ASSUME NEW seal, NEW from, WellFormed(from), NEW snapshot, WellFormed(snapshot),
           Planned(seal, from)
    PROVE  Planned(PlanCheckpoint(seal, from, snapshot), snapshot)
  <1> DEFINE next == PlanCheckpoint(seal, from, snapshot)
             delta == DeltaSince(from, snapshot)
  <1>1. from \in Forests /\ snapshot \in Forests
    BY DEF WellFormed
  <1>2. CASE SelectDelta(seal, delta)
    <2>1. /\ next.directory = BuildManifest(seal.directory, delta.directory)
          /\ next.ledger = BuildManifest(seal.ledger, delta.ledger)
      BY <1>2 DEF PlanCheckpoint
    <2> HIDE DEF next, delta
    <2>2. delta = DeltaSince(from, snapshot)
      BY DEF delta
    <2>3. Planned(next, snapshot)
      BY <1>1, <1>2, <2>1, <2>2, DeltaPlanned
    <2> QED
      BY <2>3 DEF next
  <1>3. CASE ~SelectDelta(seal, delta)
    <2> DEFINE cells == CheckpointCells(snapshot)
    <2>1. /\ next.directory = BuildManifest(<<>>, cells.directory)
          /\ next.ledger = BuildManifest(<<>>, cells.ledger)
      BY <1>3 DEF PlanCheckpoint, NoTrees
    <2> HIDE DEF next, cells
    <2>2. cells = CheckpointCells(snapshot)
      BY DEF cells
    <2>3. Planned(next, snapshot)
      BY <2>1, <2>2, BasePlanned
    <2> QED
      BY <2>3 DEF next
  <1> QED
    BY <1>2, <1>3

-----------------------------------------------------------------------------
(* What a bootstrap loads from the newest Seal. *)

\* The trees of the newest Seal hold the forest at its cut.
LEMMA AlwaysPlanned == Spec => []Planned(source, base)
  <1>1. Init => Planned(source, base)
    BY NothingPlanned DEF Init
  <1>2. Folded /\ Planned(source, base) /\ [Next]_vars => Planned(source, base)'
    <2> SUFFICES ASSUME Folded, Planned(source, base), [Next]_vars
                 PROVE  Planned(source, base)'
      OBVIOUS
    <2>1. \/ source' = PlanCheckpoint(source, base, durable) /\ base' = durable
          \/ source' = source /\ base' = base
      BY DEF Next, Commit, Fence, Checkpoint, vars
    <2>2. Planned(source', base')
      BY <2>1, CheckpointPlanned DEF Folded
    <2> QED
      BY <2>2 DEF Planned, IsSequence, MergeTree, TreeTables, TreeBytes, Total, Overlay, Oldest,
                  Empty, Uids
  <1> QED
    BY <1>1, <1>2, AlwaysFolded, PTL DEF Spec

\* The merge of a forest's maps is the forest.
LEMMA MergedIsBase ==
    ASSUME Folded, Planned(source, base)
    PROVE  Merge(source) = base
  BY DEF Folded, WellFormed, Forests, Planned, Merge

\* Merging the runs of the newest Seal gives back the forest it was taken of
\* (plan_checkpoint against merge_directory_table and merge_ledger_table), for
\* any number of paths and any sequence of deltas and full bases.
THEOREM MergeAlwaysRestoresBase == Spec => []MergeRestoresBase
  <1>1. Folded /\ Planned(source, base) => MergeRestoresBase
    BY MergedIsBase DEF MergeRestoresBase
  <1> QED
    BY <1>1, AlwaysFolded, AlwaysPlanned, PTL

\* A bootstrap never rejects the merged rows in Forest::try_from.
THEOREM ForestAlwaysWellFormed == Spec => []ForestIsWellFormed
  <1>1. Folded /\ Planned(source, base) => ForestIsWellFormed
    BY MergedIsBase DEF ForestIsWellFormed, Folded, WellFormed
  <1> QED
    BY <1>1, AlwaysFolded, AlwaysPlanned, PTL

\* Nor does it meet a Seal with too many runs, tables or bytes (plan_bootstrap_sources):
\* select_delta keeps the bounds, and a full base fits them.
THEOREM SourcesAlwaysWithinBounds == Spec => []WithinSourceBounds
  <1>1. Planned(source, base) => WithinSourceBounds
    BY DEF Planned, WithinSourceBounds
  <1> QED
    BY <1>1, AlwaysPlanned, PTL
=============================================================================
