----------------------------- MODULE Partition -----------------------------
(***************************************************************************)
(* Processes that share one partition through an object store.  A process  *)
(* opens the partition (BootstrapMachine), writes to it (WriterMachine,    *)
(* here without commands: a RUN is one token), checkpoints, collects, and  *)
(* may stop at any point; opening again is another process.  The store is  *)
(* all they share: Seals, WAL objects and tables, created if absent.       *)
(*                                                                         *)
(* A create is sent once.  It takes effect, or finds its key taken, at any *)
(* later moment, even after its process has given up on the answer.  A     *)
(* read and the handler of its answer are one action; a create and the     *)
(* handler of its answer are not.                                          *)
(*                                                                         *)
(* A forest is the set of RUNs folded into it; a table holds the RUNs      *)
(* whose rows it carries.  CheckpointPlan treats rows, Writer treats       *)
(* commands, barriers and the interior of a preparation.                   *)
(***************************************************************************)
EXTENDS Suffix, FiniteSetsExt

CONSTANTS
    Procs,          \* incarnations of a process
    GenerationMax,  \* bound of the model on Seal generations
    None            \* an absent object


VARIABLES
    seals,   \* Seals by generation
    wal,     \* WAL objects by coordinate
    tables,  \* tables in the store
    net,     \* creates that are sent and not yet answered, or abandoned
    proc,    \* the state of each process: a variant of the machines' enums
    landed,  \* every RUN that was ever in the store
    acked    \* every RUN whose replies were released

store == <<seals, wal, tables>>
history == <<landed, acked>>
vars == <<store, net, proc, history>>

Generations == 1 .. GenerationMax
Owners == Generations  \* an OwnerToken is an authored claim generation

Runs == [batch : Batches, owner : Owners]
Tables == [birth : Generations, claim : Generations, rows : SUBSET Runs]

SealObjects == [cut : Cuts, owner : Owners \cup {0}, tables : SUBSET Tables]
WalObjects == [kind : {"run", "fence"}, owner : Owners]
Collections == [next : Batches, cut : Cuts, proof : BOOLEAN, tables : SUBSET Tables]

\* Absence is no object and no process.
ASSUME PartitionAssumption ==
    /\ GenerationMax \in Nat \ {0}
    /\ None \notin Procs \cup SealObjects \cup WalObjects \cup Collections

-----------------------------------------------------------------------------
(* The store. *)

\* A Seal: the replay point (0 and 0 stand for Genesis) and the tables it selects.
Seal(cut, owner, selected) == [cut |-> cut, owner |-> owner, tables |-> selected]
Genesis == Seal(0, 0, {})

Wal(kind, owner) == [kind |-> kind, owner |-> owner]

\* newest_generation and newest_surviving_batch, 0 when there is none.
Newest == Max({0} \cup {g \in Generations : seals[g] # None})
Tail == Max({0} \cup {b \in Batches : wal[b] # None})

Content(selected) == UNION {t.rows : t \in selected}

\* A create of p: sent, won once it took effect, lost if the key was taken.
Create(p, kind, key, object) ==
    [by |-> p, kind |-> kind, key |-> key, object |-> object, status |-> "sent"]

Sends(p, kind, key, object) == net' = net \cup {Create(p, kind, key, object)}

Occupant(create) == IF create.kind = "seal" THEN seals[create.key] ELSE wal[create.key]

\* A create takes effect at most once, and only on a vacant key.
Land(create) ==
    LET won == Occupant(create) = None
    IN  /\ create.status = "sent"
        /\ net' = (net \ {create}) \cup
                    IF create.by = None THEN {}
                    ELSE {[create EXCEPT !.status = IF won THEN "won" ELSE "lost"]}
        /\ seals' = IF won /\ create.kind = "seal"
                    THEN [seals EXCEPT ![create.key] = create.object] ELSE seals
        /\ wal' = IF won /\ create.kind = "wal"
                  THEN [wal EXCEPT ![create.key] = create.object] ELSE wal
        /\ landed' = IF won /\ create.kind = "wal" /\ create.object.kind = "run"
                     THEN landed \cup {[batch |-> create.key, owner |-> create.object.owner]}
                     ELSE landed
        /\ UNCHANGED <<tables, proc, acked>>

\* p stops listening to these creates of its own: one that is still on its way
\* may land later.
Abandons(creates) ==
    net' = (net \ creates)
             \cup {[c EXCEPT !.by = None] : c \in {d \in creates : d.status = "sent"}}

CreatesOf(p) == {c \in net : c.by = p}
At(p, kind) == {c \in net : c.by = p /\ c.kind = kind}
Stands(p, kind, status) == \E c \in At(p, kind) : c.status = status

-----------------------------------------------------------------------------
(* What a create tells its caller: publish_authority, establish_wal.  The   *)
(* answer may be lost whatever happened, which leaves the create            *)
(* unresolved; establish_wal then reads the key once.                       *)

\* Variant: bytes equal to the candidate's count as authored.
AuthoredByMatch(p) ==
    \E c \in At(p, "seal") : c.status # "sent" /\ seals[c.key] = c.object

\* Only a direct create authors a Seal: two claimants send the same bytes.
Authored(p) == Stands(p, "seal", "won")
NoAuthority(p) == Stands(p, "seal", "lost") /\ ~Authored(p)

\* Variant: any answered create counts as durable.
WalDurableByAnyone(p) == Stands(p, "wal", "won") \/ Stands(p, "wal", "lost")

WalDurable(p) == Stands(p, "wal", "won")

\* Variant: only a RUN is taken for an occupant.
WalOccupiedByRun(p) ==
    \E c \in At(p, "wal") : c.status # "won" /\ wal[c.key] # None /\ wal[c.key].kind = "run"

WalOccupied(p) == \E c \in At(p, "wal") : c.status # "won" /\ wal[c.key] # None

-----------------------------------------------------------------------------
(* Bootstrap: one action per handler. *)

\* The process is gone, its authority and its unanswered creates are not, and the
\* partition may be opened again.  "Stopped" is every exit the environment
\* causes: a failed or unresolved request, Poisoned, a crash.
Become(p, state) == proc' = [proc EXCEPT ![p] = state]
Exited(reason) == [at |-> "Exited", reason |-> reason]
Exit(p, reason) == Become(p, Exited(reason)) /\ Abandons(CreatesOf(p))

\* The head, or the canonical genesis Seal of an empty store.
HeadDiscovered(p) ==
    /\ proc[p].at = "DiscoveringHead"
    /\ IF Newest = 0
       THEN /\ Become(p, [at |-> "EstablishingGenesis"])
            /\ Sends(p, "seal", 1, Genesis)
       ELSE /\ Become(p, [at |-> "ReadingSeal", generation |-> Newest])
            /\ UNCHANGED net
    /\ UNCHANGED <<store, history>>

GenesisEstablished(p) ==
    /\ proc[p].at = "EstablishingGenesis"
    /\ \/ /\ Stands(p, "seal", "won")
          /\ Become(p, [at |-> "ReadingSeal", generation |-> 1])
          /\ Abandons(At(p, "seal"))
       \/ /\ Stands(p, "seal", "lost")
          /\ Become(p, [at |-> "DiscoveringHead"])
          /\ Abandons(At(p, "seal"))
       \/ Exit(p, "Stopped")
    /\ UNCHANGED <<store, history>>

\* The claim is the Seal it succeeds, one generation on.
SealRead(p) ==
    LET head      == seals[proc[p].generation]
        candidate == proc[p].generation + 1
    IN  /\ proc[p].at = "ReadingSeal"
        /\ candidate \in Generations
        /\ Become(p, [at |-> "PublishingClaim", claim |-> candidate, seal |-> head])
        /\ Sends(p, "seal", candidate, head)
        /\ UNCHANGED <<store, history>>

ObservingWalTail(p, occupied) ==
    [at |-> "ObservingWalTail", claim |-> proc[p].claim, seal |-> proc[p].seal,
     occupied |-> occupied]

\* read_next_table: the next table of the claimed Seal, or the WAL tail.
ReadNextTable(p, remaining) ==
    IF remaining = {} THEN ObservingWalTail(p, 0)
    ELSE [at |-> "ReadingTable", claim |-> proc[p].claim, seal |-> proc[p].seal,
          remaining |-> remaining]

ClaimPublished(p) ==
    /\ proc[p].at = "PublishingClaim"
    /\ \/ /\ Authored(p)
          /\ Become(p, ReadNextTable(p, proc[p].seal.tables))
          /\ Abandons(At(p, "seal"))
       \/ NoAuthority(p) /\ Exit(p, "Fenced")
       \/ Exit(p, "Stopped")
    /\ UNCHANGED <<store, history>>

\* Oldest table first; an absent one is a contradiction, whoever deleted it.
TableRead(p) ==
    /\ proc[p].at = "ReadingTable"
    /\ LET t == CHOOSE t \in proc[p].remaining :
                    \A u \in proc[p].remaining : t.birth <= u.birth
       IN  IF t \in tables
           THEN Become(p, ReadNextTable(p, proc[p].remaining \ {t})) /\ UNCHANGED net
           ELSE Exit(p, "Contradiction")
    /\ UNCHANGED <<store, history>>

SendsFence(p, fence) ==
    /\ Become(p, [at |-> "EstablishingFence", claim |-> proc[p].claim,
                  seal |-> proc[p].seal, fence |-> fence])
    /\ Sends(p, "wal", fence, Wal("fence", proc[p].claim))

\* Variant: one coordinate after the tail stays free.
FenceCandidateSkips(cut, tail) == Max({cut, tail}) + 2

\* plan_fence_candidate: the first hole after the cut and the listed tail.
FenceCandidate(cut, tail) == Max({cut, tail}) + 1

WalTailObserved(p) ==
    LET cut   == proc[p].seal.cut
        fence == FenceCandidate(cut, Tail)
    IN  /\ proc[p].at = "ObservingWalTail"
        /\ IF fence <= proc[p].occupied
           THEN Exit(p, "Contradiction")
           ELSE IF BoundTakeoverFence(cut, fence) # "Bounded"
           THEN Exit(p, "Retryable")
           ELSE IF Tail > cut
           THEN /\ Become(p, [at |-> "ReadingWalTail", claim |-> proc[p].claim,
                              seal |-> proc[p].seal, fence |-> fence, tail |-> Tail])
                /\ UNCHANGED net
           ELSE SendsFence(p, fence)
        /\ UNCHANGED <<store, history>>

IsOlder(p, owner) == owner < proc[p].claim

\* The tail must belong to an older owner; otherwise the head is read again to
\* tell a lost race from a contradiction.
TailRead(p) ==
    /\ proc[p].at = "ReadingWalTail"
    /\ LET observed == wal[proc[p].tail]
       IN  IF observed = None
           THEN Exit(p, "Retryable")
           ELSE IF ~IsOlder(p, observed.owner)
           THEN Become(p, [at |-> "RefreshingAnomaly", claim |-> proc[p].claim]) /\ UNCHANGED net
           ELSE SendsFence(p, proc[p].fence)
    /\ UNCHANGED <<store, history>>

FenceEstablished(p) ==
    /\ proc[p].at = "EstablishingFence"
    /\ \/ /\ WalDurable(p)
          /\ Become(p, [at |-> "Replaying", claim |-> proc[p].claim, seal |-> proc[p].seal,
                        fence |-> proc[p].fence, next |-> proc[p].seal.cut + 1,
                        owner |-> proc[p].seal.owner,
                        durable |-> Content(proc[p].seal.tables)])
          /\ Abandons(At(p, "wal"))
       \/ /\ WalOccupied(p)
          /\ Become(p, ObservingWalTail(p, proc[p].fence))
          /\ Abandons(At(p, "wal"))
       \/ Exit(p, "Stopped")
    /\ UNCHANGED <<store, history>>

\* One coordinate of the suffix: a FENCE raises the owner, a RUN belongs to the
\* owner of the FENCE before it.
ReplayRead(p) ==
    LET at       == proc[p].next
        observed == wal[at]
        run      == [batch |-> at, owner |-> observed.owner]
        folds    == /\ observed # None
                    /\ IF observed.kind = "fence" THEN observed.owner > proc[p].owner
                       ELSE observed.owner = proc[p].owner
        durable  == IF observed.kind = "run" THEN proc[p].durable \cup {run}
                    ELSE proc[p].durable
    IN  /\ proc[p].at = "Replaying"
        /\ Become(p,
             IF ~folds
             THEN [at |-> "RefreshingAnomaly", claim |-> proc[p].claim]
             ELSE IF at = proc[p].fence
             THEN [at |-> "RefreshingFinal", claim |-> proc[p].claim, seal |-> proc[p].seal,
                   durable |-> durable, durable_batch |-> at]
             ELSE [proc[p] EXCEPT !.next = at + 1, !.owner = observed.owner,
                                  !.durable = durable])
        /\ UNCHANGED <<store, net, history>>

\* A newer head explains the anomaly; without one it is a contradiction.
AnomalyRefreshed(p) ==
    /\ proc[p].at = "RefreshingAnomaly"
    /\ Exit(p, IF Newest > proc[p].claim THEN "Fenced" ELSE "Contradiction")
    /\ UNCHANGED <<store, history>>

\* from_recovery: the writer of the claimed Seal, at the head it has replayed.
Ready(p) ==
    [at |-> "Ready", claim |-> proc[p].claim, generation |-> proc[p].claim,
     seal |-> proc[p].seal, durable |-> proc[p].durable,
     durable_batch |-> proc[p].durable_batch,
     flight |-> FALSE, checkpoint |-> None, collector |-> None]

\* Variant: a process that has replayed its suffix is taken to be current.
IsCurrentAlways(p) == TRUE
IsCurrent(p) == Newest = proc[p].claim

\* The claim is still the newest Seal, or the process is fenced.
FinalRefreshed(p) ==
    /\ proc[p].at = "RefreshingFinal"
    /\ IF IsCurrent(p)
       THEN Become(p, Ready(p)) /\ UNCHANGED net
       ELSE Exit(p, IF Newest > proc[p].claim THEN "Fenced" ELSE "Contradiction")
    /\ UNCHANGED <<store, history>>

-----------------------------------------------------------------------------
(* The writer of a Ready process. *)

IsReady(p) == proc[p].at = "Ready"
Run(p) == [batch |-> proc[p].durable_batch + 1, owner |-> proc[p].claim]

\* A barrier drains into the one WAL flight.
DrainPending(p) ==
    /\ IsReady(p) /\ ~proc[p].flight
    /\ RunLeavesTakeoverRoom(proc[p].seal.cut, Run(p).batch)
    /\ Become(p, [proc[p] EXCEPT !.flight = TRUE])
    /\ Sends(p, "wal", Run(p).batch, Wal("run", proc[p].claim))
    /\ UNCHANGED <<store, history>>

RunEstablished(p) ==
    /\ IsReady(p) /\ proc[p].flight
    /\ \/ /\ WalDurable(p)
          /\ Become(p, [proc[p] EXCEPT !.flight = FALSE,
                                       !.durable = @ \cup {Run(p)},
                                       !.durable_batch = @ + 1])
          /\ acked' = acked \cup {Run(p)}
          /\ Abandons(At(p, "wal"))
       \/ WalOccupied(p) /\ Exit(p, "Fenced") /\ UNCHANGED acked
       \/ Exit(p, "Stopped") /\ UNCHANGED acked
    /\ UNCHANGED <<store, landed>>

\* Variant: the cut names the RUN in flight, which the snapshot does not hold.
CheckpointCutNext(p) == proc[p].durable_batch + IF proc[p].flight THEN 1 ELSE 0
CheckpointCut(p) == proc[p].durable_batch

\* A preparation that succeeds: its table, then the Seal that selects it.
\* A delta carries the source's tables, a full base drops them.
Checkpoint(p, full) ==
    LET source    == proc[p].seal
        carried   == IF full THEN {} ELSE source.tables
        rows      == proc[p].durable \ Content(carried)
        fresh     == IF rows = {} THEN {}
                     ELSE {[birth |-> proc[p].generation + 1, claim |-> proc[p].claim,
                            rows |-> rows]}
        successor == Seal(CheckpointCut(p), proc[p].claim, carried \cup fresh)
    IN  /\ IsReady(p) /\ proc[p].checkpoint = None
        /\ SpanThrough(source.cut, proc[p].durable_batch) >= Trigger
        /\ proc[p].generation + 1 \in Generations
        /\ tables' = tables \cup fresh
        /\ Become(p, [proc[p] EXCEPT !.checkpoint = successor])
        /\ Sends(p, "seal", proc[p].generation + 1, successor)
        /\ UNCHANGED <<seals, wal, history>>

\* Variant: one coordinate past the cut is collected.
CollectionInputLate(source, successor) ==
    [next |-> source.cut + 1, cut |-> successor.cut + 1, proof |-> FALSE,
     tables |-> source.tables \ successor.tables]

\* Variant: every table of the source is taken for dropped.
CollectionInputAllTables(source, successor) ==
    [next |-> source.cut + 1, cut |-> successor.cut, proof |-> FALSE,
     tables |-> source.tables]

\* What a collection may delete: RUNs the successor covers, tables it dropped.
CollectionInput(source, successor) ==
    [next |-> source.cut + 1, cut |-> successor.cut, proof |-> FALSE,
     tables |-> source.tables \ successor.tables]

SealPublished(p) ==
    /\ IsReady(p) /\ proc[p].checkpoint # None
    /\ \/ /\ Authored(p)
          /\ Become(p, [proc[p] EXCEPT
                 !.generation = @ + 1,
                 !.seal = proc[p].checkpoint,
                 !.checkpoint = None,
                 !.collector = IF @ = None
                               THEN CollectionInput(proc[p].seal, proc[p].checkpoint) ELSE @])
          /\ Abandons(At(p, "seal"))
       \/ NoAuthority(p) /\ Exit(p, "Fenced")
       \/ Exit(p, "Stopped")
    /\ UNCHANGED <<store, history>>

-----------------------------------------------------------------------------
(* Collection: read a coordinate, delete it if it held a RUN, then the next;*)
(* then the dropped tables.                                                 *)

Collecting(p) == IsReady(p) /\ proc[p].collector # None

\* Variant: any object of a covered coordinate may be deleted.
IntoDelete(observed) == observed # None

\* into_run_delete: only an observed RUN is a proof.
IntoRunDelete(observed) == observed # None /\ observed.kind = "run"

CollectRead(p) ==
    LET c == proc[p].collector
    IN  /\ Collecting(p) /\ ~c.proof /\ c.next <= c.cut
        /\ Become(p, [proc[p] EXCEPT !.collector =
               IF IntoRunDelete(wal[c.next])
               THEN [c EXCEPT !.proof = TRUE] ELSE [c EXCEPT !.next = @ + 1]])
        /\ UNCHANGED <<store, net, history>>

\* The delete is unconditional: it removes whatever the key holds by then.  It
\* takes effect here or, when CollectFinished or an exit comes first, never.  A
\* delete that takes effect later (Store.DeleteLands) is left out: to the others
\* it is the delete of a slower collector, and no other collection covers its
\* coordinate.
CollectRun(p) ==
    LET c == proc[p].collector
    IN  /\ Collecting(p) /\ c.proof
        /\ wal' = [wal EXCEPT ![c.next] = None]
        /\ Become(p, [proc[p] EXCEPT !.collector = [c EXCEPT !.proof = FALSE, !.next = @ + 1]])
        /\ UNCHANGED <<seals, tables, net, history>>

CollectTable(p) ==
    LET c == proc[p].collector
    IN  /\ Collecting(p) /\ c.next > c.cut /\ c.tables # {}
        /\ \E t \in c.tables :
             /\ tables' = tables \ {t}
             /\ Become(p, [proc[p] EXCEPT !.collector.tables = @ \ {t}])
        /\ UNCHANGED <<seals, wal, net, history>>

\* All is deleted, or a read or a delete failed and the rest stays for ever.
CollectFinished(p) ==
    /\ Collecting(p)
    /\ Become(p, [proc[p] EXCEPT !.collector = None])
    /\ UNCHANGED <<store, net, history>>

\* The process dies, or its store fails while it boots.
Crash(p) ==
    /\ proc[p].at \notin {"DiscoveringHead", "Exited"}
    /\ Exit(p, "Stopped")
    /\ UNCHANGED <<store, history>>

-----------------------------------------------------------------------------

Init ==
    /\ seals = [g \in Generations |-> None]
    /\ wal = [b \in Batches |-> None]
    /\ tables = {} /\ net = {}
    /\ proc = [p \in Procs |-> [at |-> "DiscoveringHead"]]
    /\ landed = {} /\ acked = {}

Bootstrap(p) ==
    \/ HeadDiscovered(p) \/ GenesisEstablished(p) \/ SealRead(p)
    \/ ClaimPublished(p) \/ TableRead(p) \/ WalTailObserved(p)
    \/ TailRead(p) \/ FenceEstablished(p) \/ ReplayRead(p)
    \/ AnomalyRefreshed(p) \/ FinalRefreshed(p)

Writes(p) ==
    \/ DrainPending(p) \/ RunEstablished(p)
    \/ \E full \in BOOLEAN : Checkpoint(p, full)
    \/ SealPublished(p)

Collects(p) == CollectRead(p) \/ CollectRun(p) \/ CollectTable(p) \/ CollectFinished(p)

Next ==
    \/ \E create \in net : Land(create)
    \/ \E p \in Procs : Bootstrap(p) \/ Writes(p) \/ Collects(p) \/ Crash(p)

Spec == Init /\ [][Next]_vars

\* Every request is answered and every answer handled, unless the process stops:
\* the store resolves its creates, and a task that can run does run.  A failure
\* is the environment's choice and nothing forces a writer to write.
Fairness ==
    /\ WF_vars(\E create \in net : Land(create))
    /\ \A p \in Procs : WF_vars(Bootstrap(p) /\ proc'[p] # Exited("Stopped"))

FairSpec == Spec /\ Fairness

-----------------------------------------------------------------------------
(* Properties. *)

\* What a bootstrap finds in the store: the newest Seal's tables and the RUNs
\* after its cut.
Recoverable ==
    IF Newest = 0 THEN {}
    ELSE Content(seals[Newest].tables)
           \cup {[batch |-> b, owner |-> wal[b].owner] :
                    b \in {c \in Batches : /\ c > seals[Newest].cut
                                          /\ wal[c] # None /\ wal[c].kind = "run"}}

\* Types of the shared store and of what every process remembers.
TypeOK ==
    /\ seals \in [Generations -> SealObjects \cup {None}]
    /\ wal \in [Batches -> WalObjects \cup {None}]
    /\ tables \subseteq Tables
    /\ landed \subseteq Runs /\ acked \subseteq landed

\* No acknowledged RUN is ever lost, whatever crashes, takeovers, checkpoints,
\* collections and late creates follow its reply.
AckedIsRecoverable == acked \subseteq Recoverable

\* A process that is Ready holds exactly the RUNs that ever landed up to its
\* head: no RUN of an older owner lands behind its back, none is folded twice
\* or invented, even while a successor is taking over.
ReadyHoldsLanded ==
    \A p \in Procs : IsReady(p) =>
        proc[p].durable = {run \in landed : run.batch <= proc[p].durable_batch}

\* Handoff: once a process is Ready, every RUN acknowledged by an older owner,
\* before or after that moment, is in its forest.  An old writer that does not
\* know it is superseded cannot acknowledge anything more.
HandoffIsComplete ==
    \A p \in Procs : IsReady(p) =>
        \A run \in acked : run.owner < proc[p].claim => run \in proc[p].durable

\* The tables the newest Seal selects are in the store: a collector never
\* deletes what a bootstrap from the head must read.
HeadTablesExist == Newest # 0 => seals[Newest].tables \subseteq tables

\* The process has authored its claim and has not exited.
HoldsClaim(p) ==
    proc[p].at \in {"ReadingTable", "ObservingWalTail", "ReadingWalTail", "EstablishingFence",
                    "Replaying", "RefreshingAnomaly", "RefreshingFinal", "Ready"}

\* A claim has one author, though two claimants send identical bytes.
ClaimsAreUnique ==
    \A p, q \in Procs :
        p # q /\ HoldsClaim(p) /\ HoldsClaim(q) => proc[p].claim # proc[q].claim

\* A FENCE is permanent: no collector deletes one, not even between the read
\* that proves a RUN and the delete.
FencesStay ==
    [][\A b \in Batches : wal[b] # None /\ wal[b].kind = "fence" => wal'[b] = wal[b]]_vars

\* The newest generation p is the author of: its claim, then its checkpoints,
\* the one it has not heard of yet included.
LastAuthored(p) ==
    IF IsReady(p) THEN proc[p].generation + (IF Authored(p) THEN 1 ELSE 0) ELSE proc[p].claim

\* The holder of a claim exits as Fenced, or with a contradiction, only when
\* another process has claimed the generation right after the last it authored,
\* which its own checkpoints never do: a claim copies the Seal it succeeds.  And
\* what takes the coordinate of a writer's RUN is the FENCE of such a successor,
\* never a RUN, nor a FENCE older than the writer's own checkpoints.
OnlySuccessorsFence ==
    [][\A p \in Procs :
         HoldsClaim(p) /\ proc'[p] \in {Exited("Fenced"), Exited("Contradiction")}
           => /\ Newest > LastAuthored(p)
              /\ seals[LastAuthored(p) + 1] = seals[LastAuthored(p)]
              /\ IsReady(p) /\ ~NoAuthority(p) =>
                   LET occupant == wal[Run(p).batch]
                   IN  /\ occupant # None /\ occupant.kind = "fence"
                       /\ occupant.owner > LastAuthored(p)]_vars

\* An opening ends.  The claimant whose FENCE an old writer keeps beating to the
\* first hole does not retry for ever: superseded, that writer publishes no
\* checkpoint, and its suffix ends.
OpeningEnds ==
    \A p \in Procs :
        proc[p].at = "DiscoveringHead" ~> (IsReady(p) \/ proc[p].at = "Exited")

\* "Contradiction means durable bytes violate the storage model": with a correct
\* store and no foreign writer, no process ever exits with one.
NoContradiction == \A p \in Procs : proc[p] # Exited("Contradiction")

\* "The fence protocol stops a legal writer from re-occupying a collected
\* coordinate": nothing lands at or below the cut of the newest Seal.
CollectedStaysVacant ==
    [][\A b \in Batches : wal[b] = None /\ wal'[b] # None => b > seals[Newest].cut]_vars

-----------------------------------------------------------------------------
(* The log that the partition implements.  Its epoch is the owner of the    *)
(* newest FENCE, wherever that lies and whatever Seals have been claimed    *)
(* since; its log is every RUN that landed, collected or not.               *)

Epoch == Max({0} \cup {wal[b].owner : b \in {c \in Batches :
                                              wal[c] # None /\ wal[c].kind = "fence"}})

\* A process serves while it is Ready: as its claim, the RUNs it holds.
Serving == [p \in Procs |-> IF IsReady(p) THEN proc[p].claim ELSE 0]
Served == [p \in Procs |-> IF IsReady(p) THEN proc[p].durable ELSE {}]

Log == INSTANCE Registry WITH
    Servers <- Procs,
    Entries <- Runs,
    epoch   <- Epoch,
    log     <- landed,
    serving <- Serving,
    forest  <- Served

\* The partition implements the log: every step of the store, of an opening, of
\* a writer, of a checkpoint or of a collector is a step of Registry or changes
\* nothing there.  So only the newest fenced owner appends, late creates of
\* superseded processes included, and a process starts to serve exactly the
\* RUNs that are durable at that moment.
ImplementsRegistry == Log!Spec

=============================================================================
