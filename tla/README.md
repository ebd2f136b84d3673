# StromDB: TLA+ models, checks and proofs

StromDB keeps a partition of append-only streams in an S3-like object store.
The store is the only durable truth; any number of processes may open the same
partition; one of them at a time may write. This directory models the
repository's own code (`src/crates/`) from the HTTP request down to the object
store, checks it with TLC on small instances, and proves with TLAPS, for every
value of the constants, the safety of the writer, of a shared partition and its
refinement, of one coordinate of the store, of listings, of checkpoint planning
and preparation, and of the service in front of them.

## 1. The system

### Durable objects

* **Seal** `[generation]`: create-if-absent, permanent. Names a WAL replay cut
  (`Genesis`, or `Through {batch, owner}`) and the tables of two trees, the
  Directory and the Ledger. A *claim* is the newest Seal copied one generation
  on; a *checkpoint* is a successor with an advanced cut.
* **WAL object** `[batch]`: a RUN of facts or a takeover FENCE, with the owner
  token (the generation of its author's claim). A collected RUN is deleted.
* **Table**: sorted rows of one tree, selected by Seals, deleted when dropped.

### Components

| component | source | state | operations |
|---|---|---|---|
| suffix arithmetic | `strom-storage-protocol/src/suffix.rs` | none | span, RUN room, FENCE bound |
| forest | `.../forest.rs` | Directory, Ledger | `strict_fold`, `delta_since`, `checkpoint_cells`, `try_from` |
| writer machine | `.../writer.rs` | three forests (base, durable, admitted), barrier, one flight, timer, checkpoint marker, collector slot | `handle`: commands, flush, completions, shutdown |
| bootstrap machine | `.../bootstrap.rs` | 12 states from discovery to Ready | `handle`: one handler per observation |
| interpreters | `strom-storage-engine/src/{writer,bootstrap}.rs` | running effects, timer, view | event loop, effects, replies |
| checkpoint preparation | `.../checkpoint.rs`, `checkpoint/prepare.rs` | none | plan delta or full base, create tables, build the Seal |
| collector | `.../checkpoint/collect.rs` | position | read, delete RUNs, delete tables |
| typed stores, adapter | `.../store/*.rs`, `strom-object-store` | none | create-if-absent with evidence, read, list newest, delete |
| engine, db, server | `engine.rs`, `strom-db`, `strom-server` | ingress channel, view | commands, status reads, shutdown |
| clock | `strom-common` | instant, sleepers with their wakers | sleep, advance |
| test store | `strom-object-store/src/test_support` | scripted faults, gates | calls, gates, verify |
| domain values | `strom-domain` | none | content types, expiry, paths |
| vocabulary, codecs | `strom-storage-domain` | none | records, bounds, encoding, key spelling |

### How they interact

A process opens a partition with the bootstrap machine: it discovers the newest
Seal, claims the next generation, loads the tables, lists the WAL tail, places a
FENCE at the first hole, replays the suffix up to that FENCE, and refreshes the
head once more. Then the writer machine serves commands: a command is decided
against the *admitted* forest, waits in a barrier, goes out in one WAL create at
a time, becomes *durable*, is published to the view, and is answered. Every
`Trigger` coordinates a checkpoint moves the cut; the collector removes what the
new Seal has made unnecessary. Machines are pure; each effect's completion comes
back as an event. Processes meet only in the store.

### What is hard

Creates whose answer is lost may take effect at any later time, after their
sender gave up or died. Two claimants of a generation send the same bytes. An
old writer's RUN races the new owner's FENCE for one coordinate. A claimant may
be superseded at any point of its own takeover. The collector's read and delete
are two requests, and the delete is unconditional. Inside the writer, timers,
byte thresholds, completions, cancelled preparations, retries and shutdown race
in one scheduler; idempotent successes rest on facts that are not durable yet;
the WAL suffix, the barrier, the runs of a tree and the coordinate space are all
bounded. A checkpoint's tables are encoded on a blocking thread and created
concurrently, and the attempt may fail or be aborted in the middle. Callers reach
the writer through a bounded channel and read its state through another path
than its replies. A listing runs while keys come and go. `PROJECT.json` lists
these hazards with their lines and properties.

### What makes each component correct

* forest: occupancy is permanent, uids are dense, a record exists exactly for a
  live stream;
* checkpoint: what bootstrap merges is what was checkpointed, within its bounds;
* writer: no assertion fails; replies are durable, visible and ordered; nothing
  waits without a wakeup; shutdown leaves nothing behind;
* partition: no acknowledged RUN is lost, a Ready process holds exactly what
  landed, claims have one author, collection never touches what is needed;
  together the processes are one log with one appender;
* preparation: a Seal leaves it only with all its tables stored, nobody stays
  blocked, memory is bounded;
* store: what a caller concludes from the evidence of a create is true, absence
  is never a failure in disguise, the newest key is the newest coordinate;
* edge: a definite failure has no effect, answers agree with the successes and
  statuses before them, every request gets one.

## 2. Modules

| module | models | read with |
|---|---|---|
| `Suffix` | `suffix.rs`; an absent cut is 0, the last `BatchId` is `CoordinateMax` | |
| `Forest` | `forest.rs`, `OperationFact`, the merges of bootstrap | |
| `Admission` | `admit_create`, `admit_close`, `admit_delete`; what a reply promises | `Forest` |
| `CheckpointPlan` | `prepare.rs` and the merge of its result, over histories of facts | `Forest` |
| `Writer` | `WriterMachine` with its interpreter, store and a rival | `Admission`, `Suffix` |
| `Partition` | bootstrap, writer, checkpoint and collector of several processes | `Suffix` |
| `Registry` | abstract: one log that only the newest owner extends | implemented by `Partition` |
| `Preparation` | `checkpoint.rs`: producer, channel, table creates, abort | |
| `Service` | `handlers.rs`, `strom-db`, `engine.rs`, the interpreter's outputs | `Admission` |
| `Store` | one coordinate: adapter and typed stores, request by request | |
| `Listing` | key spelling, list pages, newest key and scan | |
| `ForestProofs` | lemmas on the fold, the delta, the merge and promises; induction | `Admission` |
| `WriterProofs` | scheduling, types, delivery and recovery of `Writer` | `ForestProofs` |
| `CheckpointPlanProofs` | invariants of `CheckpointPlan` | `ForestProofs` |
| `ServiceProofs` | invariants of `Service` | `ForestProofs` |
| `StoreProofs` | invariants of `Store` | |
| `PreparationProofs` | invariants of `Preparation` | |
| `ListingProofs` | the order of spellings, invariants of `Listing` | |
| `PartitionProofs` | invariants of `Partition`, the refinement of `Registry` | |
| `MC*` | constants and symmetry for TLC | |

**Forest.** The two persistent maps are total functions with `None` for an
absent key. A stream's content type and expiry are only compared, so the pair is
one member of `Configs`. `FoldResult` is the contradiction the fold reports,
`Apply` its effect.

**CheckpointPlan.** `PlanCheckpoint` chooses the delta or the full base as
`select_delta` does, by runs, tables and bytes. Each row counts one unit of a
table's byte target; a table takes one unit more for its frame, and is as large
as its estimate, which the code asserts to be the most it can be. `Merge` is
what bootstrap does with the selected runs.

**Writer.** Each event is one action: `apply_event`, then `schedule` (drain or
arm, then checkpoint or shut down), and the outputs in their order, since the
interpreter executes them before it takes the next event. `Schedule` takes the
barrier, flight, timer and marker as the event left them. Every `assert!` and
`expect` of the machine, and the output bound of the interpreter, is collected in
`panicked`. Ingress is polled only while admission is open, for commands and for
its closing alike. Effects run as long as the machine's own slot says so. WAL
and Seal creates land in separate steps (`WalLands`, `SealLands`), before the
completion or long after. `assert_quiescent` compares forest roots by pointer
and the model by value. The rival claims a generation once and fences once; a
rival that serves and checkpoints is `Partition`'s subject. The interior of the
preparation (the choice of tables) is `CheckpointPlan`'s: here a candidate's
content is the source's rows with the delta on top. `Recovered` is what a process
that opened the partition now would replay: the newest Seal, and the RUNs behind
its cut folded fact by fact with `FoldReplayFacts`, where one contradiction ends
the bootstrap (`None`).

**Partition.** A forest is the set of RUNs folded into it. A create is a message
in `net`: sent, then won or lost when it takes effect; a process that gives up
leaves it behind with nobody listening. A read and the handler of its answer are
one action. `Retryable`, `Poisoned` and a crash are one exit, `Stopped`;
reopening is another process. A successful preparation is one action (a table,
then the send of the Seal); a failed one leaves only orphan tables and is left
out. Whether the plan is a delta or a full base is a free choice. Partition ids
are omitted: a lost genesis race rediscovers the head, whose Seal names the id.
A collector's delete takes effect in its step or, if the collector stops or the
process exits first, never; `Store` has deletes that take effect late. To the
other processes a late delete is the delete of a slower collector, which the
model has; no two collections cover one coordinate, so the delete still meets
the RUN it was sent for, below the cut where no replay needs it.

**Registry and the refinement.** `Registry` has an epoch, a log of RUNs, the
acknowledged part of it, and for each process the owner as which it serves and
what it shows. `Partition` maps `epoch` to the owner of the newest FENCE, `log`
to every RUN that ever landed, collected or not, and `serving` and `forest` to
the Ready processes. That `Spec` of `Partition` implements `Spec` of `Registry`
says more than the separate invariants: a RUN of a superseded owner never lands,
whenever its create arrives, RUNs land in order, and a process begins to serve
exactly the log of that moment.

**Preparation.** The producer sends tables into the channel; the task pulls them
while fewer than `CreatesMax` creates run; a create is answered, or unresolved
and then read back once; the first table that is not established ends the
attempt, drops the receiver (the producer's next send fails) and the task joins
the producer. `Cancel` is the abort at shutdown: the task is gone, the blocking
thread runs on, creates in flight go adrift and may land in any later attempt.
`CheckpointPlan` says what is in the tables and `Writer` what becomes of the
outcome; `Writer` and `Partition` rely on `PreparedIsDurable`.

**Service.** A client's call goes through the steps of its handler: it waits for
room in the channel, for the reply, or for the two looks of a status read
(`is_closed`, then `borrow`). The writer is reduced to a barrier, one flight, and
a store that makes the flight durable or ends the writer; `outputs` holds what a
step returned and `Execute` carries out one output at a time while callers run.
A failing create drops its flight and the waiters in the same event, before the
task returns and its receiver is dropped; a failing checkpoint ends the writer
with or without a flight. A hung-up client's command stays in the channel.
`Admission` decides commands, the same operators as in `Writer`. History
variables record what successes and statuses have told callers, and which
requests failed definitely or took effect. Refusals are not among what callers
were told: a 409 is decided on the admitted forest, and a HEAD that follows it
may still read the older view and answer 404. The code does this;
`RefusalGroundsSurface` says that the view catches up unless the writer fails.

**Store.** One coordinate of one namespace, chosen in `Init`. A call is an
operation of a typed store: its create request, the comparison with the occupant
after `AlreadyExists`, and the read-back after an unresolved answer are separate
steps, and a request may take effect whenever it likes until its answer is
known to be final. Bodies differ in content and in length, and two of the calls
may hold equal bytes. Metadata may underreport a length. A bounded read counts what
it takes and is safe against that; `compare_occupant` is not: it concludes
`NotOurs` from a reported size that differs, also for equal bytes, and when the
size agrees it collects the body without a bound. `EvidenceIsTrue` makes an
exception for the first; the bound in `ReadSeesSuccess` is one of reads. This is
what `Partition`'s `net` and `Writer`'s creates assume of the store: a create
that is answered Authored was placed by that call, a loser has no later effect
while the occupant stays, and absence means absence.

**Listing.** Ordinals are spelled as the digits of their complement. The
backend's own pages are snapshots of different moments: an answer is an ordered
first part of the names behind the last one, empty only if there are none, and the
first answer of a listing may come disordered. No key is empty, so the empty name
stands for a start or a position that is not there. A lister compares each
key with the one before and looks at one entry beyond a full page, as `list_page`
does, so even a page of one key notices two swapped entries. The stores only ask
for a page of one key (`NewestRead`); a scan from continuation to continuation
(`PageScanned`) is what the adapter promises its callers, and its contract test
is the only one. `steady` is the set
of names that were there at the start and have stayed: what a listing under
concurrent change can be held to.

## 3. Runs

| run | instance | shows |
|---|---|---|
| `checkpoint_plan` | 4 paths over 3 uids, 2 rows to a table, 2 runs, 4 tables, 11 units of bytes, 6 batches | `MergeRestoresBase`, `ForestIsWellFormed`, `WithinSourceBounds`, `OccupancyIsPermanent` |
| `writer` | 2 paths, 3 commands, barrier of 2, suffix of 4, 6 coordinates | the safety of the writer machine |
| `writer_live` | 1 path, same barrier and suffix, with fairness | `EveryCommandResolved`, `ShutdownEnds` |
| `partition` | 2 processes, 6 generations, 6 coordinates, with fairness | handoff, checkpoint and collection; `OpeningEnds` |
| `partition3` | 3 processes, 5 generations, 4 coordinates | `ImplementsRegistry`; a claimant superseded during its takeover |
| `preparation` | 5 tables, channel of 1, 2 creates, 2 attempts, with fairness | `PreparedIsDurable`, `IdentitiesAreFresh`, `AttemptEnds` |
| `service` | 2 clients, 1 path, channel of 1, barrier of 2, 3 requests, with fairness | `DefiniteFailureHasNoEffect`, `AnswersRespectRealTime`, `ShutdownDrains`, `EveryRequestAnswered`, `RefusalGroundsSurface` |
| `store` | 3 calls, 3 bodies of two lengths | `EvidenceIsTrue`, `ReadSeesSuccess` |
| `listing` | 3 binary digits, 6 ordinals, 2 stray names, 1 lister, 5 changes | `NewestIsNewest`, `ScanIsComplete` |
| `writer_room` | 3 coordinates | violation, finding 1 |
| `partition_tables` | 3 processes, 6 generations, 5 coordinates | violation, finding 2 |
| `partition_reoccupy` | 2 processes, 4 generations, 5 coordinates | violation, finding 3 |

**Bounds.** Four paths over a capacity of three meet the capacity refusal; two
runs, four tables and eleven units of bytes make delta and full-base plans
alternate within six batches, and each of the three bounds is in some history
the only one that forces a full base. In `writer`, two commands fill a barrier and two facts reach the flush
threshold, so a third command meets a full barrier, a flight and a second
barrier; a suffix of four with trigger two is the smallest that the assertion of
`bounds.rs` and `Trigger >= 2` allow, and lets a checkpoint, a shed command and
a retry happen; `Init` starts from every length of FENCE-only suffix that a
series of takeovers can leave. Six generations are genesis, two claims and three
checkpoints, so a collection runs, is superseded and runs again; three processes
are needed for a claimant that is overtaken while its own predecessor still has
creates on their way. Five tables over a pipeline that holds four leave the
producer blocked when the task gives up; a second attempt meets the first one's
creates. Two clients fill a channel of one while a third request is asked of a
full barrier. Three calls are two rivals and a reader or a collector. Six
ordinals over three digits include 0 and the largest, which has no complement to
spare; a maximum below 2^3 leaves spellings that are no ordinal. `RequestsMax`,
`AttemptsMax`, `ChangesMax`, `CommandsMax`, `BatchMax`, `GenerationMax` and (for
`Partition`) `CoordinateMax` bound histories only.

Deadlock is not checked: a writer may exit, a process may stop, and bounded
histories end. Symmetry is over paths, processes, calls or bodies, only in runs without
liveness.

**Fairness.** `Writer`: the interpreter always feeds `Started`;
time passes and an armed timer fires (`wait_for_flush`); every effect ends,
because the store client answers, fails or times out and its join is polled
first (`biased` select). Nothing is assumed of clients, of the collector, of a
rival, or of creates taking effect. `Partition`: creates take effect or are
refused in the end and every answer is handled, because the client bounds its
retries; a failure is never forced and nothing makes a writer write.
`Preparation`: the blocking thread and the task run and the store answers.
`Service`: handlers and the writer task are scheduled, the flush timer fires and
flights end; clients need not hang up, nor the process shut down.

### Findings

1. `writer_room`: `run_leaves_takeover_room` admits a RUN at `u64::MAX - 1`,
   after which `bound_takeover_fence` refuses the FENCE at `u64::MAX`; RFC 0003
   says admission "always leaves room for one takeover". It takes 2^64 batches.
2. `partition_tables`: a claimant that pauses before its table reads, and is
   superseded by a process that checkpoints a full base and collects, finds a
   table absent and exits with `Contradiction`, because `handle_store_failure`
   refreshes the head only while it reads WAL objects. RFC 0005 says "No
   execution loads a closure that this collector may delete". No data is lost.
3. `partition_reoccupy`: an unresolved FENCE create that was answered Occupied
   by its reconciliation read may land after the RUN at its coordinate was
   collected, against the comment in `store/wal.rs`. It lands below the cut and
   is never replayed; the passing runs include it and show it harmless.

Three more disagreements have no run of their own. `compare_occupant` is called
"one bounded read" (`adapter.rs:48` and `:182`, and `docs/rfcs/0003.md:823` wants
every body bounded while it is read), but trusts the reported size and then
collects the whole body; `Store` models it as it is. The adapter and `strom-db`
require a client without transport retries (`adapter.rs:28`, `strom-db/src/lib.rs:66`),
while `strom-server/src/config.rs:104` builds the S3 client with the default ones;
the client is external here and its retries are not modelled, so what `Store` says
holds for the client the adapter asks for. And a status may show less than a
refusal answered before it, as described under **Service**.

## 4. Theorems

All proofs are checked by TLAPS (Z3, Zenon, LS4). They hold for every value of
the constants that satisfies the assumptions of the modules:

| assumption | says |
|---|---|
| `SuffixAssumption` | the suffix bound is twice a trigger of at least two (the assertion in `bounds.rs`) |
| `ForestAssumption` | finitely many paths, a capacity in `Nat`; `None` is no entry, record, forest or fact |
| `WriterAssumption` | barrier bounds are positive, the flush threshold fits a RUN |
| `PlanAssumption` | bounds are positive; a full base of all paths fits the bounds on tables and bytes (`assert_full_plan`) |
| `ServiceAssumption` | requests are commands or status reads, channel and barrier hold one; `None` is no promise |
| `StoreAssumption` | bodies have a size within the read bound; `None` is no body, call or result |
| `PreparationAssumption` | a pipeline and a channel of at least one |
| `ListingAssumption` | a base of at least two, a width that holds every ordinal, positive page bounds and answers; strays are keys |
| `PartitionAssumption` | a generation exists; `None` is no process, object or collection |

No result is bounded by the instances of section 3: any number of processes,
calls, clients, listers, tables, paths, coordinates and generations.

**Writer** (`WriterProofs`). Four invariants, each standing on the one before.

* `InductiveInvariant` gives `NoPanic`, `BarrierHasWakeup`, `FullBarrierInFlight`,
  `DueCheckpointRuns` and `RunLeavesRoom`. `NoPanic` is not inductive: the
  assertions rest on the order of cut, attempt, durable head and next batch
  (`Numbers`), on how admitted, flight and durable forests follow from each
  other (`Lineage`), on the shape of a checkpoint's ticket (`MarkerShape`), and
  on what a step leaves settled (`Settled`). The proof separates what `Schedule`
  establishes from any event that calls it properly (`ScheduleSettles`) from the
  fact that each event does.
* `Types` gives `TypeOK`, and that every Seal stored or on its way holds a
  well-formed forest. It needs that the content of the machine's Seal is its
  base, so that a delta against the base, merged over the source, is the snapshot
  (`DeltaRestores`).
* `Answers` and `Placement` give `AckedInOrder`, `AckedIsVisible`,
  `NothingAckedPastFence` and `ShutdownIsQuiescent`. `Answers` orders released,
  flying and waiting replies by command, and says which forest keeps the promise
  of each: an idempotent success waits behind the facts it rests on. `Placement`
  says that the only create on its way is the one after the durable head, that
  nothing occupies a coordinate beyond it without a flight, and what a rival's
  FENCE excludes.
* `Recovery` gives `RecoveredIsDurable` and `AckedIsRecoverable`. The newest Seal,
  the Seal on its way and the checkpoint being prepared must *all* replay to the
  durable forest (`History`), since any of them may be the newest at the next
  step; the facts of a barrier must lead from the flight's forest to the admitted
  one (`Chain`), and the RUN in flight from durable to the flight's (`Leads`);
  after an exit the last create may still land, and then too the acknowledged
  promises are kept (`Stands`).

**Partition** (`PartitionProofs`). `PartitionInv` gives `TypeOK`,
`AckedIsRecoverable`, `ReadyHoldsLanded`, `HandoffIsComplete`, `HeadTablesExist`,
`ClaimsAreUnique` and `FencesStay`. A coordinate is *reached* once a Seal covers it or an object occupies it, and stays reached though
its RUN is collected. Everything rests on what may still land where: a RUN lands
only on a coordinate that was never reached, and only while no newer FENCE is
stored; a stale FENCE may land behind the cut (finding 3), but only below the
newest FENCE. So the invariant speaks of every create in `net`, awaited or
abandoned (`SealCreateOk`, `WalCreateOk`), of the store (`StoreInv`), of who may
send what (`UniqueInv`), and of what each process knows at its stage (`Local`).
What a process knows is shown stable under every change of the store once
(`Stable`), so a step has to account only for its own process and creates
(`ProcStepInv`), and a landing only for the store (`LandStepInv`).

`OnlySuccessorsFence` needs a second invariant on top, `AuthorInv`: who wrote the
Seals. A writer's own checkpoints raise the newest generation too, so that a
newer Seal exists says nothing about who fenced it. `AuthorInv` says that no
checkpoint in the name of a process's owner token but its own is on its way, and
that the Seal after the last one it authored, the checkpoint it has not heard of
included, is a claim that copies it. So a holder that is fenced was succeeded by
another's claim right there, and the FENCE that took a writer's coordinate has an
owner beyond everything the writer authored.

*Refinement.* `PartitionImplementsRegistry` proves that `Spec` of `Partition`
implements `Spec` of `Registry`: the landing of a FENCE is `TakeOver`, or a stutter
when it is stale, the landing of a RUN is `Extend`, the final refresh is `Serve`,
an established RUN is `Acknowledge`, each way out of Ready is `Stop`, and every
other step is a stutter.

**Store** (`StoreProofs`). `StoreInv` gives `EvidenceIsTrue` and `ReadSeesSuccess`.
What a call may know is one of four facts: these bytes occupy the coordinate,
other bytes do, its own request put the occupant there, another's did. Each is stable until a
delete takes effect, and the invariant says which of them each stage has
(`StageInv`, `RequestInv`, `ResultInv`). A loser that decided from the reported
size knows only that another call's request put the occupant there.

**Preparation** (`PreparationProofs`). `PreparationInv` gives `PreparedIsDurable`
and `IdentitiesAreFresh`. It accounts for every table the producer has sent: in
the channel, in a create, or stored (`AccountInv`), while creates of cancelled
attempts may land at any time.

**CheckpointPlan** (`CheckpointPlanProofs`). `Folded` gives `OccupancyIsPermanent`;
`Planned` gives `MergeRestoresBase` and `WithinSourceBounds`, and with `Folded`
`ForestIsWellFormed`: merging the runs that a Seal selects, and counting their
tables and bytes, over a sequence of any length, for a delta in front of the source and for
a full base.

**Service** (`ServiceProofs`). `Invariant` gives `DefiniteFailureHasNoEffect`,
`AnswersRespectRealTime` and `ShutdownDrains`. A definite failure has no effect
because the requests that are in the WAL or may still get there (`Possible`)
never include it, whatever waits in queue, barrier, flight or outputs. Answers
respect real time because view, durable, flight and admitted forests keep ever
more promises (`Chain`), and a reply leaves only behind the view that keeps it
(`ViewFirst`). A status tells its caller all that the view keeps of the path, and
the view only gains promises, so statuses are bound by earlier ones as by
successes.

**Listing** (`ListingProofs`). `SpellingReversesOrder` is about keys alone: a
spelling parses to its coordinate, because the value of the first digits of a number
is what is left of it without the others (`ValueOfDigits`), and of two names of one
width the smaller has the smaller value, because their prefixes differ from the first
digit that differs on (`OrderOfValues`). `Invariant` then gives `NewestIsNewest` and
`ScanIsComplete`. Neither is inductive: a name that has stayed since the listing began
is on a page, among the entries that came, or behind the point where the backend goes
on (`CleanInv`), and the pages, the entries and that point follow each other. The
entries came from a namespace that has changed since; what still holds of them is that
each is a coordinate's name or a stray that nobody collects (`Known`), which is why a
contradiction without a disordered answer points at a stray. Behind a disordered answer
nothing of this holds; it is shown to be refused at the next entry that is looked at,
before any page is complete (`DoomedInv`): even a page of one key looks at two.

**Recursive definitions.** Replay, merge, the totals of tables and bytes and the digits and the value
of a spelling are recursive functions. That such a function exists is proved from a
least counterexample (`Least`, `Induct`), and its equations then give what one more
fact, object, run or digit adds (`FoldedGrow`, `ReplaysRun`, `MergeGrows`,
`TotalGrows`, `ShiftedSteps`). The invariants carry the result of the recursion and
never unroll it.

**Only model-checked.** Liveness, which needs fairness and ENABLED:
`EveryCommandResolved`, `ShutdownEnds`, `OpeningEnds`, `AttemptEnds`,
`EveryRequestAnswered`, `RefusalGroundsSurface`. Every other property of the passing
runs is a theorem.

## 5. Not modelled

* Byte layouts of Seals, WAL objects and tables, checksums and the validation of
  each field, content types, expiry and paths: parsers without state, with their
  own round-trip tests. Only the spelling of keys, whose order the listings rest
  on, is modelled (`Listing`).
* Resident-byte accounting; bytes of commands, RUNs and tables are counted in
  units (a fact, a row, a frame); partition ids.
* Retries and timeouts inside the `object_store` client (see **Findings**), multipart uploads, axum
  and hyper: external. `main.rs` relies on axum to have dropped the router's
  reference to the database when `serve` returns.
* Routes, process configuration, header parsing, requests refused before they
  reach the database, clocks beyond whether a flush is due, randomness.
* The scripted store, gates and manual clock that tests drive
  (`strom-object-store/src/test_support`, `ManualMonotonicClock`): what they
  inject is what `Store` and `Writer` allow at any moment.
* Status reads of a writer that has been fenced without noticing: they are
  answered from its view, and the code promises nothing about them.
* `src/reference/`: copies of other projects (SlateDB, fjall, lsm-tree,
  TigerBeetle, the Durable Streams clients and benchmarks), about 786,000 of the
  repository's 822,000 lines. No crate in `src/crates` depends on them. They are
  not part of this program, and a model of them would say nothing about it; a
  share of lines counted over the whole tree is dominated by them. Of the 11,100
  lines of StromDB's own sources outside tests the map covers two fifths; the
  rest is what this section lists, imports, error texts and documentation.

## 6. Plan

Every component with state that serves requests has its module, and every safety
property and action property of the passing runs is a theorem. Liveness stays with
the runs, on their instances, until the provers handle fairness. When the code
changes, the map in `PROJECT.json` says which definitions to read again; a new
operation gets its action, a step in the proof of the invariant, and the property
that its hazard calls for.
