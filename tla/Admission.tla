------------------------------ MODULE Admission ------------------------------
(***************************************************************************)
(* How the writer decides one command against its admitted forest: a new   *)
(* fact, an idempotent success that needs no fact, or a refusal.  Every    *)
(* success carries a promise, what its reply tells the caller about the    *)
(* stream; refusals promise nothing.                                       *)
(***************************************************************************)
EXTENDS Forest

Commands ==
    [op : {"create"}, path : Paths, config : Configs, closed : BOOLEAN]
        \cup [op : {"close", "delete"}, path : Paths, config : {None}, closed : {FALSE}]

\* What a success reply tells its caller of the stream uid at path.
Promise(path, uid, level) == [path |-> path, uid |-> uid, level |-> level]
Promises == [path : Paths, uid : Uids, level : {"exists", "closed", "deleted"}]

\* A promise is kept by a later close or delete of the same stream too.
Keeps(forest, promise) ==
    LET entry == forest.directory[promise.path]
    IN  /\ entry # None
        /\ entry.uid = promise.uid
        /\ promise.level = "closed" =>
             entry.state = "tombstone" \/ forest.ledger[promise.uid].closed
        /\ promise.level = "deleted" => entry.state = "tombstone"

Refused == [kind |-> "refused", fact |-> None, promise |-> None]
Idempotent(promise) == [kind |-> "idempotent", fact |-> None, promise |-> promise]
Accepted(fact, promise) == [kind |-> "fact", fact |-> fact, promise |-> promise]

\* A repeated create succeeds only with the same configuration and lifecycle.
AdmitCreate(forest, cmd) ==
    LET entry == forest.directory[cmd.path]
        uid   == SuccessorUid(forest)
    IN  IF IsLive(forest, cmd.path)
        THEN IF /\ forest.ledger[entry.uid].config = cmd.config
                /\ forest.ledger[entry.uid].closed = cmd.closed
             THEN Idempotent(Promise(cmd.path, entry.uid, "exists"))
             ELSE Refused
        ELSE IF entry = None /\ HasCapacity(forest)
             THEN Accepted(Created(cmd.path, uid, cmd.config, cmd.closed),
                           Promise(cmd.path, uid, "exists"))
             ELSE Refused

AdmitClose(forest, cmd) ==
    LET uid == forest.directory[cmd.path].uid
    IN  IF ~IsLive(forest, cmd.path) THEN Refused
        ELSE IF forest.ledger[uid].closed
             THEN Idempotent(Promise(cmd.path, uid, "closed"))
             ELSE Accepted(Closed(cmd.path, uid), Promise(cmd.path, uid, "closed"))

AdmitDelete(forest, cmd) ==
    LET uid == forest.directory[cmd.path].uid
    IN  IF ~IsLive(forest, cmd.path) THEN Refused
        ELSE Accepted(Deleted(cmd.path, uid), Promise(cmd.path, uid, "deleted"))

Decide(forest, cmd) ==
    CASE cmd.op = "create" -> AdmitCreate(forest, cmd)
      [] cmd.op = "close"  -> AdmitClose(forest, cmd)
      [] OTHER             -> AdmitDelete(forest, cmd)

=============================================================================
