---------------------------- MODULE ForestProofs ----------------------------
(***************************************************************************)
(* What a strict fold preserves of a forest, for any number of paths and   *)
(* any capacity, and why the rows of a delta restore the forest they were  *)
(* taken of.                                                               *)
(***************************************************************************)
EXTENDS Admission, FiniteSetTheorems, WellFoundedInduction, TLAPS

\* No two paths, live or deleted, share a uid.
Distinct(forest) ==
    \A p, q \in Occupied(forest) :
        forest.directory[p].uid = forest.directory[q].uid => p = q

WellFormed(forest) == forest \in Forests /\ TryFrom(forest) /\ Distinct(forest)

\* What one fact may do to the directory of a forest.
Succeeds(forest, next) ==
    \A p \in Paths : forest.directory[p] # None =>
        /\ next.directory[p] # None
        /\ next.directory[p].uid = forest.directory[p].uid
        /\ forest.directory[p].state = "tombstone" => next.directory[p].state = "tombstone"

\* The occupied paths of a forest are finite, so that path_count is a number.
LEMMA PathCountType ==
    ASSUME NEW forest
    PROVE  IsFiniteSet(Occupied(forest)) /\ PathCount(forest) \in Nat
  <1>1. Occupied(forest) \in SUBSET Paths
    BY DEF Occupied
  <1>2. IsFiniteSet(Occupied(forest))
    BY <1>1, ForestAssumption, FS_Subset
  <1> QED
    BY <1>2, FS_CardinalityType DEF PathCount

\* The empty forest of a fresh partition passes the checks of try_from.
LEMMA EmptyWellFormed == WellFormed(Empty)
  <1>1. Empty \in Forests
    BY DEF Empty, Forests
  <1>2. Occupied(Empty) = {} /\ {q \in Paths : IsLive(Empty, q)} = {}
    BY DEF Occupied, Empty, IsLive
  <1>3. PathCount(Empty) = 0
    BY <1>2, FS_EmptySet DEF PathCount
  <1>4. {u \in Uids : Empty.ledger[u] # None} = {}
    BY DEF Empty
  <1>5. DenseUids(Empty)
    BY <1>2, <1>3, ForestAssumption DEF DenseUids
  <1>6. LiveIffRecord(Empty)
    BY <1>2, <1>4 DEF LiveIffRecord
  <1> QED
    BY <1>1, <1>2, <1>5, <1>6 DEF WellFormed, TryFrom, Distinct

\* A created fact occupies a vacant path with the dense successor uid.
LEMMA CreateKeeps ==
    ASSUME NEW forest, WellFormed(forest), NEW path \in Paths, forest.directory[path] = None,
           HasCapacity(forest), NEW record \in Records
    PROVE  LET uid  == SuccessorUid(forest)
               next == [directory |-> [forest.directory EXCEPT ![path] = Live(uid)],
                        ledger    |-> [forest.ledger EXCEPT ![uid] = record]]
           IN  WellFormed(next) /\ Succeeds(forest, next)
  <1> DEFINE uid  == SuccessorUid(forest)
             next == [directory |-> [forest.directory EXCEPT ![path] = Live(uid)],
                      ledger    |-> [forest.ledger EXCEPT ![uid] = record]]
  <1>1. /\ forest \in Forests /\ Distinct(forest) /\ DenseUids(forest)
        /\ LiveIffRecord(forest) /\ PathCount(forest) \in Nat
    BY PathCountType DEF WellFormed, TryFrom
  <1>2. uid \in Uids /\ uid = PathCount(forest) + 1
    BY <1>1, ForestAssumption DEF SuccessorUid, HasCapacity, Uids
  <1> HIDE DEF uid
  <1>3. Live(uid) \in Entries /\ Live(uid) # None /\ Live(uid).uid = uid
        /\ Live(uid).state = "live" /\ record # None
    BY <1>2, ForestAssumption DEF Live, Entries
  <1>4. next \in Forests
    BY <1>1, <1>2, <1>3 DEF Forests
  <1>5. /\ next.directory[path] = Live(uid)
        /\ \A q \in Paths \ {path} : next.directory[q] = forest.directory[q]
        /\ next.ledger[uid] = record
        /\ \A v \in Uids \ {uid} : next.ledger[v] = forest.ledger[v]
    BY <1>1, <1>2 DEF Forests
  <1> HIDE DEF next
  <1>6. Occupied(next) = Occupied(forest) \cup {path} /\ path \notin Occupied(forest)
    BY <1>3, <1>5 DEF Occupied
  <1>7. PathCount(next) = PathCount(forest) + 1
    BY <1>6, PathCountType, FS_AddElement DEF PathCount
  <1>8. \A q \in Occupied(forest) :
          q \in Paths \ {path} /\ forest.directory[q].uid \in 1 .. PathCount(forest)
    BY <1>1, <1>6 DEF Occupied, DenseUids
  <1>9. {next.directory[q].uid : q \in Occupied(next)}
          = {forest.directory[q].uid : q \in Occupied(forest)} \cup {uid}
    BY <1>3, <1>5, <1>6, <1>8
  <1>10. DenseUids(next)
    <2>1. PathCount(next) <= PathMax
      BY <1>1, <1>7, ForestAssumption DEF HasCapacity
    <2>2. (1 .. PathCount(forest)) \cup {uid} = 1 .. PathCount(next)
      BY <1>1, <1>2, <1>7
    <2> QED
      BY <1>1, <1>9, <2>1, <2>2 DEF DenseUids
  <1>11. Distinct(next)
    BY <1>1, <1>2, <1>3, <1>5, <1>6, <1>8 DEF Distinct
  <1>12. {q \in Paths : IsLive(next, q)} = {q \in Paths : IsLive(forest, q)} \cup {path}
    BY <1>3, <1>5 DEF IsLive
  <1>13. {next.directory[q].uid : q \in {r \in Paths : IsLive(next, r)}}
           = {forest.directory[q].uid : q \in {r \in Paths : IsLive(forest, r)}} \cup {uid}
    <2>1. \A q \in {r \in Paths : IsLive(forest, r)} :
            next.directory[q].uid = forest.directory[q].uid
      BY <1>5 DEF IsLive
    <2> QED
      BY <1>3, <1>5, <1>12, <2>1
  <1>14. {u \in Uids : next.ledger[u] # None} = {u \in Uids : forest.ledger[u] # None} \cup {uid}
    BY <1>2, <1>3, <1>5
  <1>15. LiveIffRecord(next)
    BY <1>1, <1>13, <1>14 DEF LiveIffRecord
  <1>16. Succeeds(forest, next)
    BY <1>5 DEF Succeeds
  <1> QED
    BY <1>4, <1>10, <1>11, <1>15, <1>16 DEF WellFormed, TryFrom, next, uid

\* A closed fact rewrites the record of the live stream at its path.
LEMMA CloseKeeps ==
    ASSUME NEW forest, WellFormed(forest), NEW path \in Paths, IsLive(forest, path)
    PROVE  LET uid    == forest.directory[path].uid
               record == Record(forest.ledger[uid].config, TRUE, forest.ledger[uid].created_at)
               next   == [directory |-> forest.directory,
                          ledger    |-> [forest.ledger EXCEPT ![uid] = record]]
           IN  WellFormed(next) /\ Succeeds(forest, next)
  <1> DEFINE uid    == forest.directory[path].uid
             record == Record(forest.ledger[uid].config, TRUE, forest.ledger[uid].created_at)
             next   == [directory |-> forest.directory,
                        ledger    |-> [forest.ledger EXCEPT ![uid] = record]]
  <1>1. /\ forest \in Forests /\ Distinct(forest) /\ DenseUids(forest) /\ LiveIffRecord(forest)
    BY DEF WellFormed, TryFrom
  <1>2. uid \in Uids /\ forest.ledger[uid] # None
    BY <1>1 DEF LiveIffRecord
  <1> HIDE DEF uid
  <1>3. forest.ledger[uid] \in Records
    BY <1>1, <1>2 DEF Forests
  <1>4. record \in Records /\ record # None
    <2>1. forest.ledger[uid].config \in Configs /\ forest.ledger[uid].created_at \in Nat
      BY <1>3 DEF Records
    <2>2. \A c \in Configs, n \in Nat : Record(c, TRUE, n) \in Records
      BY DEF Record, Records
    <2>3. record \in Records
      BY <2>1, <2>2
    <2> QED
      BY <2>3, ForestAssumption
  <1>5. next = [directory |-> forest.directory,
                ledger    |-> [forest.ledger EXCEPT ![uid] = record]]
    OBVIOUS
  <1> HIDE DEF next, record
  <1>6. next \in Forests
    BY <1>1, <1>2, <1>4, <1>5 DEF Forests
  <1>7. /\ next.directory = forest.directory
        /\ \A v \in Uids : next.ledger[v] # None <=> forest.ledger[v] # None
    BY <1>1, <1>2, <1>4, <1>5 DEF Forests
  <1>8. Occupied(next) = Occupied(forest) /\ PathCount(next) = PathCount(forest)
    BY <1>7 DEF Occupied, PathCount
  <1>9. DenseUids(next) /\ Distinct(next)
    BY <1>1, <1>7, <1>8 DEF DenseUids, Distinct
  <1>10. LiveIffRecord(next)
    BY <1>1, <1>7 DEF LiveIffRecord, IsLive
  <1>11. Succeeds(forest, next)
    BY <1>7 DEF Succeeds
  <1> QED
    BY <1>6, <1>9, <1>10, <1>11 DEF WellFormed, TryFrom, next, uid, record

\* A deleted fact leaves a tombstone and removes the record.
LEMMA DeleteKeeps ==
    ASSUME NEW forest, WellFormed(forest), NEW path \in Paths, IsLive(forest, path)
    PROVE  LET uid  == forest.directory[path].uid
               next == [directory |-> [forest.directory EXCEPT ![path] = Tombstone(uid)],
                        ledger    |-> [forest.ledger EXCEPT ![uid] = None]]
           IN  WellFormed(next) /\ Succeeds(forest, next)
  <1> DEFINE uid  == forest.directory[path].uid
             next == [directory |-> [forest.directory EXCEPT ![path] = Tombstone(uid)],
                      ledger    |-> [forest.ledger EXCEPT ![uid] = None]]
  <1>1. /\ forest \in Forests /\ Distinct(forest) /\ DenseUids(forest) /\ LiveIffRecord(forest)
        /\ forest.directory[path] # None /\ forest.directory[path].state = "live"
    BY DEF WellFormed, TryFrom, IsLive
  <1>2. uid \in Uids
    BY <1>1 DEF LiveIffRecord, IsLive
  <1>3. /\ Tombstone(uid) \in Entries /\ Tombstone(uid) # None /\ Tombstone(uid).uid = uid
        /\ Tombstone(uid).state = "tombstone"
    BY <1>2, ForestAssumption DEF Tombstone, Entries
  <1>4. next \in Forests
    BY <1>1, <1>2, <1>3 DEF Forests
  <1>5. /\ next.directory[path] = Tombstone(uid)
        /\ \A q \in Paths \ {path} : next.directory[q] = forest.directory[q]
        /\ next.ledger[uid] = None
        /\ \A v \in Uids \ {uid} : next.ledger[v] = forest.ledger[v]
    BY <1>1, <1>2 DEF Forests
  <1> HIDE DEF next
  <1>6. \A q \in Paths : /\ next.directory[q] # None <=> forest.directory[q] # None
                         /\ next.directory[q].uid = forest.directory[q].uid
    BY <1>1, <1>3, <1>5
  <1>7. Occupied(next) = Occupied(forest) /\ PathCount(next) = PathCount(forest)
    BY <1>6 DEF Occupied, PathCount
  <1>8. Distinct(next) /\ Succeeds(forest, next)
    BY <1>1, <1>3, <1>5, <1>6, <1>7 DEF Distinct, Occupied, Succeeds
  <1>9. {next.directory[q].uid : q \in Occupied(next)}
          = {forest.directory[q].uid : q \in Occupied(forest)}
    BY <1>6, <1>7 DEF Occupied
  <1>10. DenseUids(next)
    BY <1>1, <1>7, <1>9 DEF DenseUids
  <1>11. {q \in Paths : IsLive(next, q)} = {q \in Paths : IsLive(forest, q)} \ {path}
    BY <1>3, <1>5 DEF IsLive
  <1>12. \A q \in {r \in Paths : IsLive(forest, r)} : forest.directory[q].uid = uid => q = path
    BY <1>1 DEF Distinct, Occupied, IsLive
  <1>13. {next.directory[q].uid : q \in {r \in Paths : IsLive(next, r)}}
           = {forest.directory[q].uid : q \in {r \in Paths : IsLive(forest, r)}} \ {uid}
    <2>1. \A q \in {r \in Paths : IsLive(forest, r)} \ {path} :
            next.directory[q].uid = forest.directory[q].uid /\ forest.directory[q].uid # uid
      BY <1>6, <1>12
    <2> HIDE DEF uid
    <2>2. path \in {r \in Paths : IsLive(forest, r)} /\ forest.directory[path].uid = uid
      BY DEF uid
    <2> QED
      BY <1>11, <2>1, <2>2
  <1>14. {u \in Uids : next.ledger[u] # None} = {u \in Uids : forest.ledger[u] # None} \ {uid}
    BY <1>5
  <1>15. LiveIffRecord(next)
    BY <1>1, <1>13, <1>14 DEF LiveIffRecord
  <1> QED
    BY <1>4, <1>8, <1>10, <1>15 DEF WellFormed, TryFrom, next

\* strict_fold keeps every forest one that try_from accepts, and never frees a
\* path, changes its uid or revives it.
LEMMA FoldKeeps ==
    ASSUME NEW forest, WellFormed(forest), NEW fact \in Facts, NEW batch \in Nat
    PROVE  /\ WellFormed(StrictFold(forest, batch, fact))
           /\ Succeeds(forest, StrictFold(forest, batch, fact))
  <1>1. CASE FoldResult(forest, fact) # "ok"
    <2>1. StrictFold(forest, batch, fact) = forest
      BY <1>1 DEF StrictFold
    <2> QED
      BY <2>1 DEF Succeeds
  <1>2. CASE FoldResult(forest, fact) = "ok"
    <2>0. StrictFold(forest, batch, fact) = Apply(forest, batch, fact)
      BY <1>2 DEF StrictFold
    <2>1. ASSUME NEW p \in Paths, NEW u \in Uids, NEW c \in Configs, NEW closed \in BOOLEAN,
                 fact = Created(p, u, c, closed)
          PROVE  /\ WellFormed(Apply(forest, batch, fact))
                 /\ Succeeds(forest, Apply(forest, batch, fact))
      <3>1. /\ fact.kind = "created" /\ fact.path = p /\ fact.uid = u
            /\ fact.config = c /\ fact.closed = closed
        BY <2>1 DEF Created
      <3>2. forest.directory[p] = None /\ HasCapacity(forest) /\ u = SuccessorUid(forest)
        BY <1>2, <3>1 DEF FoldResult
      <3>3. Record(c, closed, batch) \in Records
        BY DEF Record, Records
      <3>4. Apply(forest, batch, fact) =
              [directory |-> [forest.directory EXCEPT ![p] = Live(u)],
               ledger    |-> [forest.ledger EXCEPT ![u] = Record(c, closed, batch)]]
        BY <3>1 DEF Apply
      <3> QED
        BY <3>2, <3>3, <3>4, CreateKeeps
    <2>2. ASSUME NEW p \in Paths, NEW u \in Uids, fact = Closed(p, u)
          PROVE  /\ WellFormed(Apply(forest, batch, fact))
                 /\ Succeeds(forest, Apply(forest, batch, fact))
      <3>1. fact.kind = "closed" /\ fact.path = p /\ fact.uid = u
        BY <2>2 DEF Closed
      <3>2. IsLive(forest, p) /\ forest.directory[p].uid = u
        BY <1>2, <3>1 DEF FoldResult, RequireLiveUid
      <3>3. Apply(forest, batch, fact) =
              [directory |-> forest.directory,
               ledger    |-> [forest.ledger EXCEPT
                   ![u] = Record(forest.ledger[u].config, TRUE, forest.ledger[u].created_at)]]
        BY <3>1 DEF Apply
      <3> QED
        BY <3>2, <3>3, CloseKeeps
    <2>3. ASSUME NEW p \in Paths, NEW u \in Uids, fact = Deleted(p, u)
          PROVE  /\ WellFormed(Apply(forest, batch, fact))
                 /\ Succeeds(forest, Apply(forest, batch, fact))
      <3>1. fact.kind = "deleted" /\ fact.path = p /\ fact.uid = u
        BY <2>3 DEF Deleted
      <3>2. IsLive(forest, p) /\ forest.directory[p].uid = u
        BY <1>2, <3>1 DEF FoldResult, RequireLiveUid
      <3>3. Apply(forest, batch, fact) =
              [directory |-> [forest.directory EXCEPT ![p] = Tombstone(u)],
               ledger    |-> [forest.ledger EXCEPT ![u] = None]]
        BY <3>1 DEF Apply
      <3> QED
        BY <3>2, <3>3, DeleteKeeps
    <2> QED
      BY <2>0, <2>1, <2>2, <2>3 DEF Facts
  <1> QED
    BY <1>1, <1>2

\* The rows delta_since collects turn its base back into the forest: merging
\* them loses no tombstone and resurrects no record.
LEMMA DeltaRestores ==
    ASSUME NEW base \in Forests, NEW forest \in Forests
    PROVE  MergeRows(base, DeltaSince(base, forest)) = forest
  BY DEF MergeRows, Overlay, DeltaSince, Forests

\* Admission proposes facts over known paths and uids.
LEMMA DecidedFactType ==
    ASSUME NEW forest, WellFormed(forest), NEW cmd \in Commands, Decide(forest, cmd).kind = "fact"
    PROVE  Decide(forest, cmd).fact \in Facts
  <1>0. /\ cmd.path \in Paths /\ PathCount(forest) \in Nat
        /\ \A p \in Paths : IsLive(forest, p) => forest.directory[p].uid \in Uids
    BY PathCountType DEF Commands, WellFormed, Forests, Entries, IsLive
  <1>1. CASE cmd.op = "create"
    <2>1. /\ Decide(forest, cmd).fact =
               Created(cmd.path, SuccessorUid(forest), cmd.config, cmd.closed)
          /\ HasCapacity(forest)
      BY <1>1 DEF Decide, AdmitCreate, Refused, Idempotent, Accepted
    <2>2. SuccessorUid(forest) \in Uids
      BY <1>0, <2>1, ForestAssumption DEF SuccessorUid, HasCapacity, Uids
    <2>3. cmd.config \in Configs /\ cmd.closed \in BOOLEAN
      BY <1>1 DEF Commands
    <2> QED
      BY <1>0, <2>1, <2>2, <2>3 DEF Facts
  <1>2. CASE cmd.op = "close"
    <2>1. /\ Decide(forest, cmd).fact = Closed(cmd.path, forest.directory[cmd.path].uid)
          /\ IsLive(forest, cmd.path)
      BY <1>2 DEF Decide, AdmitClose, Refused, Idempotent, Accepted
    <2> QED
      BY <1>0, <2>1 DEF Facts
  <1>3. CASE cmd.op = "delete"
    <2>1. /\ Decide(forest, cmd).fact = Deleted(cmd.path, forest.directory[cmd.path].uid)
          /\ IsLive(forest, cmd.path)
      BY <1>3 DEF Decide, AdmitDelete, Refused, Accepted
    <2> QED
      BY <1>0, <2>1 DEF Facts
  <1> QED
    BY <1>1, <1>2, <1>3 DEF Commands

\* What a reply has promised of a stream stays true when strict_fold applies any
\* later fact: a close is not undone, a uid is not given away, a delete is final.
LEMMA FoldKeepsPromise ==
    ASSUME NEW forest, WellFormed(forest), NEW fact \in Facts, NEW batch \in Nat,
           NEW promise \in Promises, Keeps(forest, promise)
    PROVE  Keeps(StrictFold(forest, batch, fact), promise)
  <1> DEFINE next == StrictFold(forest, batch, fact)
             path == promise.path
             uid  == promise.uid
  <1>1. /\ path \in Paths /\ uid \in Uids
        /\ forest.directory[path] # None /\ forest.directory[path].uid = uid
        /\ promise.level = "deleted" => forest.directory[path].state = "tombstone"
        /\ promise.level = "closed" =>
             forest.directory[path].state = "tombstone" \/ forest.ledger[uid].closed
    BY DEF Promises, Keeps
  <1>2. WellFormed(next) /\ Succeeds(forest, next)
    BY FoldKeeps
  <1>3. forest \in Forests /\ Distinct(forest) /\ DenseUids(forest) /\ PathCount(forest) \in Nat
    BY PathCountType DEF WellFormed, TryFrom
  <1>4. path \in Occupied(forest) /\ uid \in 1 .. PathCount(forest)
    BY <1>1, <1>3 DEF Occupied, DenseUids
  <1>5. ASSUME forest.ledger[uid].closed
        PROVE  next.directory[path].state = "tombstone" \/ next.ledger[uid].closed
    <2>1. CASE FoldResult(forest, fact) # "ok"
      BY <1>5, <2>1 DEF StrictFold
    <2>2. CASE FoldResult(forest, fact) = "ok"
      <3>0. next = Apply(forest, batch, fact)
        BY <2>2 DEF StrictFold
      <3> HIDE DEF next, path, uid
      <3>1. ASSUME NEW p \in Paths, NEW u \in Uids, NEW c \in Configs, NEW closed \in BOOLEAN,
                   fact = Created(p, u, c, closed)
            PROVE  next.ledger[uid].closed
        <4>1. /\ fact.kind = "created" /\ fact.path = p /\ fact.uid = u
              /\ fact.config = c /\ fact.closed = closed
          BY <3>1 DEF Created
        <4>2. u = SuccessorUid(forest)
          BY <2>2, <4>1 DEF FoldResult
        <4>3. u # uid
          BY <1>3, <1>4, <4>2 DEF SuccessorUid
        <4>4. next.ledger = [forest.ledger EXCEPT ![u] = Record(c, closed, batch)]
          BY <3>0, <4>1 DEF Apply
        <4> QED
          BY <1>1, <1>3, <1>5, <4>3, <4>4 DEF Forests
      <3>2. ASSUME NEW p \in Paths, NEW u \in Uids, fact = Closed(p, u)
            PROVE  next.ledger[uid].closed
        <4>1. fact.kind = "closed" /\ fact.path = p /\ fact.uid = u
          BY <3>2 DEF Closed
        <4>2. next.ledger = [forest.ledger EXCEPT
                ![u] = Record(forest.ledger[u].config, TRUE, forest.ledger[u].created_at)]
          BY <3>0, <4>1 DEF Apply
        <4> QED
          BY <1>1, <1>3, <1>5, <4>2 DEF Forests, Record
      <3>3. ASSUME NEW p \in Paths, NEW u \in Uids, fact = Deleted(p, u)
            PROVE  next.directory[path].state = "tombstone" \/ next.ledger[uid].closed
        <4>1. fact.kind = "deleted" /\ fact.path = p /\ fact.uid = u
          BY <3>3 DEF Deleted
        <4>2. IsLive(forest, p) /\ forest.directory[p].uid = u
          BY <2>2, <4>1 DEF FoldResult, RequireLiveUid
        <4>3. /\ next.directory = [forest.directory EXCEPT ![p] = Tombstone(u)]
              /\ next.ledger = [forest.ledger EXCEPT ![u] = None]
          BY <3>0, <4>1 DEF Apply
        <4>4. CASE u = uid
          <5>1. p = path
            BY <1>1, <1>3, <1>4, <4>2, <4>4 DEF Distinct, IsLive, Occupied
          <5> QED
            BY <1>1, <1>3, <4>3, <5>1 DEF Forests, Tombstone
        <4>5. CASE u # uid
          BY <1>1, <1>3, <1>5, <4>3, <4>5 DEF Forests
        <4> QED
          BY <4>4, <4>5
      <3> QED
        BY <3>1, <3>2, <3>3 DEF Facts
    <2> QED
      BY <2>1, <2>2
  <1>6. /\ next.directory[path] # None /\ next.directory[path].uid = uid
        /\ forest.directory[path].state = "tombstone" => next.directory[path].state = "tombstone"
    BY <1>1, <1>2 DEF Succeeds
  <1> HIDE DEF next
  <1>7. Keeps(next, promise)
    BY <1>1, <1>5, <1>6 DEF Keeps
  <1> QED
    BY <1>7 DEF next

\* Admission promises only what is true: of the forest it decided against when
\* the success needs no fact, and of the forest with its fact otherwise.
LEMMA DecidedPromiseHolds ==
    ASSUME NEW forest, WellFormed(forest), NEW cmd \in Commands, NEW batch \in Nat
    PROVE  LET decision == Decide(forest, cmd)
           IN  /\ decision.kind = "idempotent" =>
                    decision.promise \in Promises /\ Keeps(forest, decision.promise)
               /\ decision.kind = "fact" =>
                    /\ decision.promise \in Promises
                    /\ Keeps(StrictFold(forest, batch, decision.fact), decision.promise)
  <1> DEFINE decision == Decide(forest, cmd)
             path == cmd.path
             entry == forest.directory[path]
             next == StrictFold(forest, batch, decision.fact)
  <1> USE DEF Refused, Idempotent, Accepted
  <1>0. /\ path \in Paths /\ PathCount(forest) \in Nat /\ forest \in Forests
        /\ IsLive(forest, path) => entry.uid \in Uids
    BY PathCountType DEF Commands, WellFormed, Forests, Entries, IsLive
  <1>1. CASE cmd.op = "create"
    <2>1. decision = AdmitCreate(forest, cmd)
      BY <1>1 DEF Decide
    <2>2. CASE decision.kind = "idempotent"
      <3>1. decision.promise = Promise(path, entry.uid, "exists") /\ IsLive(forest, path)
        BY <2>1, <2>2 DEF AdmitCreate
      <3> QED
        BY <1>0, <2>2, <3>1 DEF Promise, Promises, Keeps, IsLive
    <2>3. CASE decision.kind = "fact"
      <3>1. /\ decision.promise = Promise(path, SuccessorUid(forest), "exists")
            /\ decision.fact = Created(path, SuccessorUid(forest), cmd.config, cmd.closed)
            /\ entry = None /\ HasCapacity(forest)
        BY <2>1, <2>3 DEF AdmitCreate
      <3>2. SuccessorUid(forest) \in Uids
        BY <1>0, <3>1, ForestAssumption DEF SuccessorUid, HasCapacity, Uids
      <3>3. FoldResult(forest, decision.fact) = "ok"
        BY <3>1 DEF FoldResult, Created
      <3>4. next.directory = [forest.directory EXCEPT ![path] = Live(SuccessorUid(forest))]
        BY <3>1, <3>3 DEF StrictFold, Apply, Created
      <3>5. /\ next.directory[path] = Live(SuccessorUid(forest))
            /\ Live(SuccessorUid(forest)) # None
        BY <1>0, <3>2, <3>4, ForestAssumption DEF Forests, Live, Entries
      <3> HIDE DEF next
      <3>6. decision.promise \in Promises /\ Keeps(next, decision.promise)
        BY <1>0, <3>1, <3>2, <3>5 DEF Keeps, Live, Promise, Promises
      <3> QED
        BY <2>3, <3>6 DEF next
    <2> QED
      BY <2>2, <2>3
  <1>2. CASE cmd.op = "close"
    <2>1. decision = AdmitClose(forest, cmd)
      BY <1>2 DEF Decide
    <2>2. CASE decision.kind = "idempotent"
      <3>1. /\ decision.promise = Promise(path, entry.uid, "closed") /\ IsLive(forest, path)
            /\ forest.ledger[entry.uid].closed
        BY <2>1, <2>2 DEF AdmitClose
      <3> QED
        BY <1>0, <2>2, <3>1 DEF Promise, Promises, Keeps, IsLive
    <2>3. CASE decision.kind = "fact"
      <3>1. /\ decision.promise = Promise(path, entry.uid, "closed")
            /\ decision.fact = Closed(path, entry.uid)
            /\ IsLive(forest, path) /\ ~forest.ledger[entry.uid].closed
        BY <2>1, <2>3 DEF AdmitClose
      <3>2. FoldResult(forest, decision.fact) = "ok"
        BY <3>1 DEF FoldResult, Closed, RequireLiveUid
      <3> DEFINE record == Record(forest.ledger[entry.uid].config, TRUE,
                                  forest.ledger[entry.uid].created_at)
                 fact == decision.fact
      <3>3. fact.kind = "closed" /\ fact.uid = entry.uid /\ next = Apply(forest, batch, fact)
        BY <3>1, <3>2 DEF StrictFold, Closed
      <3> HIDE DEF decision, fact, entry, next
      <3>4. next.directory = forest.directory
        BY <3>3 DEF Apply
      <3>5. next.ledger = [forest.ledger EXCEPT ![entry.uid] = record]
        BY <3>3 DEF Apply
      <3>6. next.ledger[entry.uid].closed
        BY <1>0, <3>1, <3>5 DEF Forests, Record
      <3>7. decision.promise \in Promises /\ Keeps(next, decision.promise)
        BY <1>0, <3>1, <3>4, <3>6 DEF Keeps, Promise, Promises, IsLive, entry
      <3> QED
        BY <2>3, <3>7 DEF next, decision, fact
    <2> QED
      BY <2>2, <2>3
  <1>3. CASE cmd.op = "delete"
    <2>1. decision = AdmitDelete(forest, cmd) /\ decision.kind # "idempotent"
      BY <1>3 DEF Decide, AdmitDelete
    <2>2. CASE decision.kind = "fact"
      <3>1. /\ decision.promise = Promise(path, entry.uid, "deleted")
            /\ decision.fact = Deleted(path, entry.uid)
            /\ IsLive(forest, path)
        BY <2>1, <2>2 DEF AdmitDelete
      <3>2. FoldResult(forest, decision.fact) = "ok"
        BY <3>1 DEF FoldResult, Deleted, RequireLiveUid
      <3>3. next.directory = [forest.directory EXCEPT ![path] = Tombstone(entry.uid)]
        BY <3>1, <3>2 DEF StrictFold, Apply, Deleted
      <3>4. /\ next.directory[path] = Tombstone(entry.uid)
            /\ Tombstone(entry.uid) # None
        BY <1>0, <3>1, <3>3, ForestAssumption DEF Forests, Tombstone, Entries
      <3> HIDE DEF next
      <3>5. decision.promise \in Promises /\ Keeps(next, decision.promise)
        BY <1>0, <3>1, <3>4 DEF Keeps, Tombstone, Promise, Promises
      <3> QED
        BY <2>2, <3>5 DEF next
    <2> QED
      BY <2>1, <2>2
  <1> QED
    BY <1>1, <1>2, <1>3 DEF Commands

-----------------------------------------------------------------------------
(* Least counterexamples. *)

Less == {pair \in Nat \X Nat : pair[1] < pair[2]}

\* The order of the naturals, as a relation, is well-founded.
LEMMA LessIsWellFounded == IsWellFoundedOn(Less, Nat)
<1>1. OpToRel(<, Nat) = Less
  BY DEF OpToRel, Less
<1> QED BY <1>1, NatLessThanWellFounded

\* A set of naturals has a least element.
LEMMA Least ==
  ASSUME NEW S, S \subseteq Nat, S # {}
  PROVE  \E x \in S : \A y \in S : x <= y
<1>1. \E x \in S : \A y \in S : ~(<<y, x>> \in Less)
  BY WFMin, LessIsWellFounded
<1>2. PICK x \in S : \A y \in S : ~(<<y, x>> \in Less)
  BY <1>1
<1>3. ASSUME NEW y \in S PROVE x <= y
  <2>1. x \in Nat /\ y \in Nat
    OBVIOUS
  <2>2. ~(<<y, x>> \in Less)
    BY <1>2
  <2> QED BY <2>1, <2>2 DEF Less
<1> QED BY <1>3

\* A set that holds a and the successor of each of its members holds a .. n.
LEMMA Induct ==
    ASSUME NEW a \in Nat, NEW n \in Nat, NEW T, a <= n => a \in T,
           \A i \in a + 1 .. n : i - 1 \in T => i \in T
    PROVE  \A i \in a .. n : i \in T
  <1> DEFINE Bad == {i \in a .. n : i \notin T}
  <1> SUFFICES ASSUME Bad # {} PROVE FALSE
    OBVIOUS
  <1>1. Bad \subseteq Nat
    OBVIOUS
  <1>2. PICK i \in Bad : \A j \in Bad : i <= j
    BY <1>1, Least
  <1>3. i # a /\ i \in a + 1 .. n /\ i - 1 \in a .. n
    BY <1>2
  <1>4. i - 1 \notin Bad
    BY <1>2, <1>3
  <1> QED
    BY <1>2, <1>3, <1>4

=============================================================================
