------------------------------- MODULE Forest -------------------------------
(***************************************************************************)
(* The resident state of a partition: a Directory from stream paths to     *)
(* dense stream uids, live or deleted, and a Ledger from live uids to      *)
(* stream records.  Every accepted mutation is one OperationFact, and      *)
(* StrictFold is the only way a fact changes a forest, in admission and    *)
(* in replay alike.                                                        *)
(*                                                                         *)
(* A content type and an expiry policy are only ever compared, so the pair *)
(* is one member of Configs.  The two maps are total functions, with None  *)
(* for an absent key.                                                      *)
(***************************************************************************)
EXTENDS Integers, FiniteSets

CONSTANTS
    Paths,    \* stream paths
    Configs,  \* content type and expiry of a stream
    PathMax,  \* PARTITION_PATH_OCCUPANCIES_MAX_V2
    None      \* an absent row or record

Uids == 1 .. PathMax

Live(uid) == [state |-> "live", uid |-> uid]
Tombstone(uid) == [state |-> "tombstone", uid |-> uid]
Entries == [state : {"live", "tombstone"}, uid : Uids]

Record(config, closed, created_at) ==
    [config |-> config, closed |-> closed, created_at |-> created_at]
Records == [config : Configs, closed : BOOLEAN, created_at : Nat]

Forests ==
    [directory : [Paths -> Entries \cup {None}],
     ledger    : [Uids -> Records \cup {None}]]

Empty == [directory |-> [p \in Paths |-> None], ledger |-> [u \in Uids |-> None]]

\* OperationFact; config and closed describe the stream a create makes.
Created(path, uid, config, closed) ==
    [kind |-> "created", path |-> path, uid |-> uid, config |-> config, closed |-> closed]
Closed(path, uid) ==
    [kind |-> "closed", path |-> path, uid |-> uid, config |-> None, closed |-> TRUE]
Deleted(path, uid) ==
    [kind |-> "deleted", path |-> path, uid |-> uid, config |-> None, closed |-> FALSE]

Facts ==
    {Created(p, u, c, closed) : p \in Paths, u \in Uids, c \in Configs, closed \in BOOLEAN}
        \cup {Closed(p, u) : p \in Paths, u \in Uids}
        \cup {Deleted(p, u) : p \in Paths, u \in Uids}

\* None is told apart from everything that may stand in its place.
ASSUME ForestAssumption ==
    /\ IsFiniteSet(Paths)
    /\ PathMax \in Nat
    /\ None \notin Entries /\ None \notin Records
    /\ None \notin Forests /\ None \notin Facts

IsLive(forest, path) ==
    forest.directory[path] # None /\ forest.directory[path].state = "live"

Occupied(forest) == {p \in Paths : forest.directory[p] # None}
PathCount(forest) == Cardinality(Occupied(forest))

\* Path capacity is checked before the dense successor is allocated.
HasCapacity(forest) == PathCount(forest) < PathMax
SuccessorUid(forest) == PathCount(forest) + 1

RequireLiveUid(forest, path, uid) ==
    CASE ~IsLive(forest, path)               -> "PathNotLive"
      [] IsLive(forest, path) /\ forest.directory[path].uid # uid
                                             -> "PathUidMismatch"
      [] OTHER                               -> "ok"

\* Variant: a create only looks for a live stream at its path.
FoldResultReusesPath(forest, fact) ==
    IF fact.kind = "created"
    THEN CASE IsLive(forest, fact.path)            -> "PathOccupied"
           [] ~IsLive(forest, fact.path) /\ ~HasCapacity(forest)
                                                   -> "PathCapacityExhausted"
           [] ~IsLive(forest, fact.path) /\ HasCapacity(forest)
                /\ fact.uid # SuccessorUid(forest) -> "UidNotDenseSuccessor"
           [] OTHER                                -> "ok"
    ELSE RequireLiveUid(forest, fact.path, fact.uid)

\* The first contradiction of a fact, in the order the fold checks them.
FoldResult(forest, fact) ==
    IF fact.kind = "created"
    THEN CASE forest.directory[fact.path] # None   -> "PathOccupied"
           [] forest.directory[fact.path] = None /\ ~HasCapacity(forest)
                                                   -> "PathCapacityExhausted"
           [] forest.directory[fact.path] = None /\ HasCapacity(forest)
                /\ fact.uid # SuccessorUid(forest) -> "UidNotDenseSuccessor"
           [] OTHER                                -> "ok"
    ELSE IF /\ fact.kind = "closed"
            /\ RequireLiveUid(forest, fact.path, fact.uid) = "ok"
            /\ forest.ledger[fact.uid].closed
         THEN "StreamAlreadyClosed"
         ELSE RequireLiveUid(forest, fact.path, fact.uid)

\* Variant: a delete leaves the Ledger record behind.
ApplyKeepsRecord(forest, batch, fact) ==
    CASE fact.kind = "created" ->
           [directory |-> [forest.directory EXCEPT ![fact.path] = Live(fact.uid)],
            ledger    |-> [forest.ledger EXCEPT
                             ![fact.uid] = Record(fact.config, fact.closed, batch)]]
      [] fact.kind = "closed" ->
           [directory |-> forest.directory,
            ledger    |-> [forest.ledger EXCEPT
                             ![fact.uid] = Record(@.config, TRUE, @.created_at)]]
      [] OTHER ->
           [forest EXCEPT !.directory[fact.path] = Tombstone(fact.uid)]

\* The forest after a fact that folds; a close keeps the creation batch.
Apply(forest, batch, fact) ==
    CASE fact.kind = "created" ->
           [directory |-> [forest.directory EXCEPT ![fact.path] = Live(fact.uid)],
            ledger    |-> [forest.ledger EXCEPT
                             ![fact.uid] = Record(fact.config, fact.closed, batch)]]
      [] fact.kind = "closed" ->
           [directory |-> forest.directory,
            ledger    |-> [forest.ledger EXCEPT
                             ![fact.uid] = Record(@.config, TRUE, @.created_at)]]
      [] OTHER ->
           [directory |-> [forest.directory EXCEPT ![fact.path] = Tombstone(fact.uid)],
            ledger    |-> [forest.ledger EXCEPT ![fact.uid] = None]]

\* A rejected fold leaves the forest unchanged.
StrictFold(forest, batch, fact) ==
    IF FoldResult(forest, fact) = "ok" THEN Apply(forest, batch, fact) ELSE forest

-----------------------------------------------------------------------------
(* Rows of a checkpoint table: partial maps from paths to entries and from *)
(* uids to ledger cells, where the cell None deletes an older value.       *)

DeltaSince(base, forest) ==
    [directory |-> [p \in {q \in Paths : forest.directory[q] # base.directory[q]} |->
                      forest.directory[p]],
     ledger    |-> [u \in {v \in Uids : forest.ledger[v] # base.ledger[v]} |->
                      forest.ledger[u]]]

CheckpointCells(forest) ==
    [directory |-> [p \in Occupied(forest) |-> forest.directory[p]],
     ledger    |-> [u \in {v \in Uids : forest.ledger[v] # None} |-> forest.ledger[u]]]

\* A newer run's rows win over what the older ones left.
Overlay(cells, rows) == [x \in DOMAIN cells |-> IF x \in DOMAIN rows THEN rows[x] ELSE cells[x]]

MergeRows(merged, rows) ==
    [directory |-> Overlay(merged.directory, rows.directory),
     ledger    |-> Overlay(merged.ledger, rows.ledger)]

\* What bootstrap demands of the merged rows before it trusts them.
DenseUids(forest) ==
    /\ PathCount(forest) <= PathMax
    /\ {forest.directory[p].uid : p \in Occupied(forest)} = 1 .. PathCount(forest)

LiveIffRecord(forest) ==
    {u \in Uids : forest.ledger[u] # None}
        = {forest.directory[p].uid : p \in {q \in Paths : IsLive(forest, q)}}

TryFrom(forest) == DenseUids(forest) /\ LiveIffRecord(forest)

=============================================================================
