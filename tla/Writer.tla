------------------------------- MODULE Writer -------------------------------
(***************************************************************************)
(* The pure writer machine of a Ready process, with the store it writes to *)
(* and a rival claimant.  Each event of WriterMachine::handle is an        *)
(* action: what apply_event does, then schedule, in one step.  The         *)
(* interpreter executes the outputs of a step in order before it takes the *)
(* next event, so a step also publishes views and releases replies.        *)
(*                                                                         *)
(* The machine is the only record of which effects are running: a WAL      *)
(* create while flight is set, a checkpoint while its marker is, a         *)
(* collection while collector is.  The completion of each is an event.     *)
(* A create may linearize in the store before, or long after, its caller   *)
(* learns of it.                                                           *)
(*                                                                         *)
(* Byte budgets count facts: FlushFacts is flush_buffer_bytes and          *)
(* RunFactsMax the WAL object bound.  Time is reduced to whether the       *)
(* minimum interval since the last flush start has elapsed.                *)
(***************************************************************************)
EXTENDS Admission, Suffix, Sequences, FiniteSetsExt

CONSTANTS
    PendingMax,   \* WRITER_PENDING_COMMANDS_MAX
    RunFactsMax,  \* facts that fit WAL_ENCODED_BYTES_MAX
    FlushFacts,   \* facts that reach flush_buffer_bytes
    CommandsMax   \* bound of the model on the commands clients send

ASSUME WriterAssumption ==
    /\ PendingMax \in Nat \ {0}
    /\ RunFactsMax \in Nat \ {0}
    /\ FlushFacts \in 1 .. RunFactsMax
    /\ CommandsMax \in Nat

OutputsPerStepMax == 4  \* WRITER_OUTPUTS_PER_STEP_MAX

VARIABLES
    \* the machine
    started, seal, base, admitted, durable, durable_batch, next_batch,
    pending, flight, elapsed, timer, checkpoint_attempt, attempted_cut, retry_at,
    checkpoint, collector, ingress_open, exit,
    panicked,       \* an assertion of the code has failed
    \* its environment
    wal,            \* WAL objects by coordinate
    stored,         \* the newest Seal in the store
    rival,          \* the generation another process has claimed, or 0
    sent_wal,       \* WAL creates that may still take effect
    sent_seal,      \* a Seal create that may still take effect, or NoSeal
    submitted,      \* commands taken from ingress so far
    view,           \* the forest of the PublishedView
    acked           \* the successes replied, in the order of their release

machine == <<started, seal, base, admitted, durable, durable_batch, next_batch, pending,
             flight, elapsed, timer, checkpoint_attempt, attempted_cut, retry_at,
             checkpoint, collector, ingress_open, exit, panicked>>
store == <<wal, stored, rival, sent_wal, sent_seal>>
clients == <<submitted, view, acked>>
vars == <<machine, store, clients>>

-----------------------------------------------------------------------------
(* Records of the machine and of the store. *)

NoFlight == [batch |-> 0]
NoSeal == [generation |-> 0]
NoCheckpoint == [state |-> "none"]
Marker(state, ticket) == [state |-> state, ticket |-> ticket]

\* A Seal: its generation, its replay cut, and the forest its trees hold.
Seal(generation, cut, content) ==
    [generation |-> generation, cut |-> cut, content |-> content]

\* The successor a checkpoint builds: the source's trees with the rows that
\* changed between the base and the snapshot on top.
Candidate(ticket) ==
    Seal(ticket.source.generation + 1, ticket.cut,
         MergeRows(ticket.source.content, DeltaSince(ticket.base, ticket.snapshot)))

Vacant == [kind |-> "vacant", facts |-> <<>>]
FenceBody == [kind |-> "fence", facts |-> <<>>]
RunBody(facts) == [kind |-> "run", facts |-> facts]

EmptyBarrier == [commands |-> <<>>, facts |-> 0]
PushFact(barrier, id, decision) ==
    [commands |-> Append(barrier.commands,
                    [id |-> id, fact |-> decision.fact, promise |-> decision.promise]),
     facts    |-> barrier.facts + 1]
PushIdempotent(barrier, id, decision) ==
    [commands |-> Append(barrier.commands,
                    [id |-> id, fact |-> None, promise |-> decision.promise]),
     facts    |-> barrier.facts]

Replies(barrier) ==
    [i \in 1 .. Len(barrier.commands) |->
        [id |-> barrier.commands[i].id, promise |-> barrier.commands[i].promise]]

\* The facts of a barrier, in the order of their commands.
PushedFact(facts, command) ==
    IF command.fact # None THEN Append(facts, command.fact) ELSE facts
BarrierFacts(barrier) ==
    LET facts[i \in 0 .. Len(barrier.commands)] ==
            IF i = 0 THEN <<>> ELSE PushedFact(facts[i - 1], barrier.commands[i])
    IN  facts[Len(barrier.commands)]

\* No room for one more command, or for one more fact of maximal size.
HardFull(barrier) ==
    \/ Len(barrier.commands) = PendingMax
    \/ barrier.facts + 1 > RunFactsMax

AdmissionOpen == ingress_open /\ ~HardFull(pending)

-----------------------------------------------------------------------------
(* schedule: drain the barrier or arm the timer, then start a checkpoint or *)
(* shut down.  b, f, t, c and r are the barrier, the flight, the timer, the *)
(* checkpoint marker and the retry cut as the event left them; outputs and  *)
(* effects count what the event has put out already; replies are the        *)
(* successes it has released; ok is whether its own assertions held.        *)

\* Variant: a barrier does not wait for the flight before it.
DrainsNowInFlight(b, f) ==
    /\ b.commands # <<>>
    /\ b.facts = 0 \/ ~ingress_open' \/ HardFull(b) \/ b.facts >= FlushFacts \/ elapsed

\* Variant: a full barrier waits for bytes or time like any other.
DrainsNowUnlessFull(b, f) ==
    /\ f = NoFlight /\ b.commands # <<>>
    /\ \/ b.facts = 0
       \/ ~ingress_open'
       \/ b.facts >= FlushFacts
       \/ elapsed

\* Variant: only bytes and bounds drain a barrier, never time.
DrainsNowOnBytes(b, f) ==
    /\ f = NoFlight /\ b.commands # <<>>
    /\ b.facts = 0 \/ ~ingress_open' \/ HardFull(b) \/ b.facts >= FlushFacts

\* Variant: closing ingress does not flush what is waiting.
DrainsNowWhileOpen(b, f) ==
    /\ f = NoFlight /\ b.commands # <<>> /\ ingress_open'
    /\ b.facts = 0 \/ HardFull(b) \/ b.facts >= FlushFacts \/ elapsed

DrainsNow(b, f) ==
    /\ f = NoFlight /\ b.commands # <<>>
    /\ \/ b.facts = 0
       \/ ~ingress_open'
       \/ HardFull(b)
       \/ b.facts >= FlushFacts
       \/ elapsed

\* Variant: a completion that uncovers a waiting barrier does not arm the timer.
ArmsNowIdle(b, f, t) ==
    flight = NoFlight /\ f = NoFlight /\ b.commands # <<>> /\ ~DrainsNow(b, f) /\ t = "off"

ArmsNow(b, f, t) == f = NoFlight /\ b.commands # <<>> /\ ~DrainsNow(b, f) /\ t = "off"

\* Variant: a head that was attempted once is never attempted again.
CheckpointDueOnce(c, r) ==
    /\ ingress_open' /\ c = NoCheckpoint
    /\ SpanThrough(seal'.cut, durable_batch') >= Trigger
    /\ attempted_cut < durable_batch'

\* A head not attempted yet, or one whose retry a shed command asked for.
CheckpointDue(c, r) ==
    /\ ingress_open' /\ c = NoCheckpoint
    /\ SpanThrough(seal'.cut, durable_batch') >= Trigger
    /\ attempted_cut < durable_batch' \/ r = durable_batch'

DrainAsserts(b) ==
    IF b.facts = 0 THEN admitted' = durable' ELSE HasSuccessor(next_batch)

CheckpointAsserts(c) ==
    ingress_open' /\ c = NoCheckpoint =>
        /\ SpanThrough(seal'.cut, durable_batch') >= 0
        /\ SpanThrough(seal'.cut, durable_batch') >= Trigger =>
             attempted_cut <= durable_batch' /\ durable_batch' > seal'.cut

\* drain_pending: an all-idempotent barrier is answered at once, any other
\* becomes the one WAL flight.
DrainPending(b, f, t, replies) ==
    IF DrainsNow(b, f)
    THEN /\ pending' = EmptyBarrier
         /\ IF b.facts = 0
            THEN /\ acked' = acked \o replies \o Replies(b)
                 /\ timer' = t
                 /\ UNCHANGED <<next_batch, elapsed, sent_wal>>
                 /\ flight' = f
            ELSE /\ flight' = [batch |-> next_batch, forest |-> admitted',
                               replies |-> Replies(b)]
                 /\ next_batch' = next_batch + 1
                 /\ sent_wal' = sent_wal \cup
                                  {[batch |-> next_batch, facts |-> BarrierFacts(b)]}
                 /\ elapsed' = FALSE
                 /\ timer' = IF t = "off" THEN t ELSE "stale"
                 /\ acked' = acked \o replies
    ELSE /\ pending' = b
         /\ flight' = f
         /\ acked' = acked \o replies
         /\ timer' = IF ArmsNow(b, f, t) THEN "current" ELSE t
         /\ UNCHANGED <<next_batch, elapsed, sent_wal>>

\* take_checkpoint: the ticket freezes the source Seal, its base and the
\* durable forest, and names the durable head as the cut.
TakeCheckpoint(c, r) ==
    IF CheckpointDue(c, r)
    THEN /\ checkpoint' = Marker("preparing",
                [source |-> seal', base |-> base', snapshot |-> durable',
                 cut |-> durable_batch', attempt |-> checkpoint_attempt])
         /\ checkpoint_attempt' = checkpoint_attempt + 1
         /\ attempted_cut' = durable_batch'
         /\ retry_at' = 0
    ELSE /\ checkpoint' = c
         /\ retry_at' = r
         /\ UNCHANGED <<checkpoint_attempt, attempted_cut>>

\* Variant: shutdown does not wait for a checkpoint that is being published.
ShutsDownEarly(b, f, c) == ~ingress_open' /\ f = NoFlight /\ b.commands = <<>>

ShutsDown(b, f, c) ==
    ~ingress_open' /\ f = NoFlight /\ c = NoCheckpoint /\ b.commands = <<>>

Schedule(b, f, t, c, r, outputs, effects, replies, ok) ==
    LET drains == DrainsNow(b, f)
        checks == CheckpointDue(c, r)
        count(P) == IF P THEN 1 ELSE 0
    IN  /\ DrainPending(b, f, t, replies)
        /\ TakeCheckpoint(c, r)
        /\ exit' = IF ShutsDown(pending', flight', checkpoint') THEN "Shutdown" ELSE exit
        /\ panicked' =
             \/ panicked
             \/ ~ok
             \/ drains /\ ~DrainAsserts(b)
             \/ ~CheckpointAsserts(c)
             \/ exit' # "none" /\ admitted' # durable'
             \/ outputs + count(drains \/ ArmsNow(b, f, t)) + count(checks)
                  > OutputsPerStepMax
             \/ exit' # "none" /\ effects + count(drains /\ b.facts > 0) + count(checks) > 0

\* The event ends the machine: schedule does not run.
Terminate(reason, ok) ==
    /\ exit' = reason
    /\ panicked' = (panicked \/ ~ok)
    /\ UNCHANGED <<started, seal, base, admitted, durable, durable_batch, next_batch,
                   pending, elapsed, timer, checkpoint_attempt, attempted_cut, retry_at,
                   collector, ingress_open>>

-----------------------------------------------------------------------------
(* The events of the machine. *)

Running == started /\ exit = "none" /\ ~panicked

Started ==
    /\ ~started /\ exit = "none"
    /\ started' = TRUE
    /\ UNCHANGED <<seal, base, admitted, durable, durable_batch, collector, ingress_open,
                   wal, stored, rival, sent_seal, submitted, view>>
    /\ Schedule(pending, flight, timer, checkpoint, retry_at, 0, 0, <<>>, TRUE)

\* An all-idempotent barrier never survives the step that leaves no flight.
AdmitAsserts == flight = NoFlight => pending.commands = <<>> \/ pending.facts > 0

\* What every command leaves alone; it is one more command taken from ingress.
TakesCommand ==
    /\ Running /\ AdmissionOpen /\ submitted < CommandsMax
    /\ submitted' = submitted + 1
    /\ UNCHANGED <<started, seal, base, durable, durable_batch, collector, ingress_open,
                   wal, stored, rival, sent_seal, view>>

\* A new fact enters the admitted forest and the barrier while the suffix has
\* room for its RUN and for one takeover FENCE after it.
AcceptFact(cmd) ==
    LET decision == Decide(admitted, cmd)
        barrier  == PushFact(pending, submitted + 1, decision)
    IN  /\ TakesCommand
        /\ decision.kind = "fact"
        /\ RunLeavesTakeoverRoom(seal.cut, next_batch)
        /\ admitted' = StrictFold(admitted, next_batch, decision.fact)
        /\ Schedule(barrier, flight, timer, checkpoint, retry_at, 0, 0, <<>>,
                    /\ AdmitAsserts
                    /\ FoldResult(admitted, decision.fact) = "ok"
                    /\ barrier.facts <= RunFactsMax
                    /\ Len(barrier.commands) <= PendingMax)

\* A fact without suffix room is refused as Overloaded and asks for another
\* checkpoint attempt at the current durable head.
ShedFact(cmd) ==
    /\ TakesCommand
    /\ Decide(admitted, cmd).kind = "fact"
    /\ ~RunLeavesTakeoverRoom(seal.cut, next_batch)
    /\ UNCHANGED admitted
    /\ Schedule(pending, flight, timer, checkpoint, durable_batch, 1, 0, <<>>, AdmitAsserts)

\* Variant: an idempotent success looks only at the barrier, not at the flight.
InheritsBarrierOnly == pending.facts > 0

\* Variant: an idempotent success looks only at the flight, not at the barrier.
InheritsFlightOnly == flight # NoFlight

\* An idempotent success waits behind every fact that is not durable yet.
InheritsBarrier == flight # NoFlight \/ pending.facts > 0

AnswerIdempotent(cmd) ==
    LET decision == Decide(admitted, cmd)
        reply    == <<[id |-> submitted + 1, promise |-> decision.promise]>>
    IN  /\ TakesCommand
        /\ decision.kind = "idempotent"
        /\ ~InheritsBarrier
        /\ UNCHANGED admitted
        /\ Schedule(pending, flight, timer, checkpoint, retry_at, 1, 0, reply, AdmitAsserts)

QueueIdempotent(cmd) ==
    LET decision == Decide(admitted, cmd)
        barrier  == PushIdempotent(pending, submitted + 1, decision)
    IN  /\ TakesCommand
        /\ decision.kind = "idempotent"
        /\ InheritsBarrier
        /\ UNCHANGED admitted
        /\ Schedule(barrier, flight, timer, checkpoint, retry_at, 0, 0, <<>>,
                    AdmitAsserts /\ Len(barrier.commands) <= PendingMax)

\* A refusal is answered at once, even when it rests on undurable facts.
Refuse(cmd) ==
    /\ TakesCommand
    /\ Decide(admitted, cmd).kind = "refused"
    /\ UNCHANGED admitted
    /\ Schedule(pending, flight, timer, checkpoint, retry_at, 1, 0, <<>>, AdmitAsserts)

\* A timer armed for the last flush start fires only once the interval has
\* elapsed; one that a later flush has overtaken may fire too early.
FlushDue ==
    /\ Running
    /\ timer = "stale" \/ (timer = "current" /\ elapsed)
    /\ UNCHANGED <<started, seal, base, admitted, durable, durable_batch, collector,
                   ingress_open, wal, stored, rival, sent_seal, submitted, view>>
    /\ Schedule(pending, flight, "off", checkpoint, retry_at, 0, 0, <<>>, TRUE)

\* Ingress closes; the interpreter notices only while admission is open.  A
\* checkpoint that has not sent its Seal is cancelled.
IngressClosed ==
    LET cancels == checkpoint.state = "preparing"
        marker  == IF cancels THEN Marker("cancelling", checkpoint.ticket) ELSE checkpoint
    IN  /\ Running /\ AdmissionOpen
        /\ ingress_open' = FALSE
        /\ UNCHANGED <<started, seal, base, admitted, durable, durable_batch, collector,
                       wal, stored, rival, sent_seal, submitted, view>>
        /\ Schedule(pending, flight, timer, marker, retry_at,
                    IF cancels THEN 1 ELSE 0, 0, <<>>, TRUE)

\* Variant: any occupant of the coordinate counts as the writer's own RUN.
EstablishedByAnyone(batch) == wal[batch] # Vacant

\* establish_wal answers Durable after a direct create, or when it reads its own
\* bytes back.
Established(batch) == wal[batch].kind = "run"

\* Variant: the view is taken before the flight's forest becomes durable.
PublishedForestBefore == durable
PublishedForest == durable'

\* The flight is durable: publish the view, then release the replies.
WalDurable ==
    /\ Running /\ flight # NoFlight
    /\ Established(flight.batch)
    /\ durable' = flight.forest
    /\ durable_batch' = flight.batch
    /\ view' = PublishedForest
    /\ UNCHANGED <<started, seal, base, admitted, collector, ingress_open, wal, stored, rival,
                   sent_seal, submitted>>
    /\ Schedule(pending, NoFlight, timer, checkpoint, retry_at, 2, 0, flight.replies,
                pending.commands = <<>> => admitted = durable')

\* A foreign occupant fences the writer; an unresolved or failed create poisons
\* it; bytes that cannot be a WAL object are a contradiction.  The waiters are
\* dropped, and an unresolved create may still take effect.
WalFailed(reason) ==
    /\ Running /\ flight # NoFlight
    /\ reason = "Fenced" => wal[flight.batch].kind = "fence"
    /\ flight' = NoFlight
    /\ Terminate(reason, TRUE)
    /\ UNCHANGED <<checkpoint, store, clients>>

-----------------------------------------------------------------------------
(* Checkpoint and collection events. *)

\* Every table of the candidate is durable: send its Seal, once.
CheckpointPrepared ==
    /\ Running /\ checkpoint.state = "preparing"
    /\ sent_seal' = Candidate(checkpoint.ticket)
    /\ UNCHANGED <<started, seal, base, admitted, durable, durable_batch, collector,
                   ingress_open, wal, stored, rival, submitted, view>>
    /\ Schedule(pending, flight, timer, Marker("publishing", checkpoint.ticket), retry_at,
                1, 1, <<>>, TRUE)

\* A table create failed or stayed unresolved, or the preparation was being
\* cancelled: whatever it brought is dropped.
CheckpointDropped ==
    /\ Running /\ checkpoint.state \in {"preparing", "cancelling"}
    /\ UNCHANGED <<started, seal, base, admitted, durable, durable_batch, collector,
                   ingress_open, wal, stored, rival, sent_seal, submitted, view>>
    /\ Schedule(pending, flight, timer, NoCheckpoint, retry_at, 0, 0, <<>>, TRUE)

\* A fresh table identity was occupied by other bytes.
CheckpointContradicted ==
    /\ Running /\ checkpoint.state = "preparing"
    /\ checkpoint' = NoCheckpoint
    /\ Terminate("Contradiction", TRUE)
    /\ UNCHANGED <<flight, store, clients>>

\* The generation of the candidate is ours, or a rival's.
Authored ==
    /\ stored.generation >= Candidate(checkpoint.ticket).generation
    /\ rival.generation # Candidate(checkpoint.ticket).generation
Lost == rival.generation = Candidate(checkpoint.ticket).generation

\* Variant: the durable forest of the moment becomes the new base.
InstalledBaseIsDurable(ticket) == durable
InstalledBase(ticket) == ticket.snapshot

\* install_prepared, then a view of the new Seal, then the collection of what
\* it superseded, unless the slot is busy or the writer is shutting down.
SealAuthored ==
    LET ticket   == checkpoint.ticket
        collects == ingress_open /\ collector = None
    IN  /\ Running /\ checkpoint.state = "publishing"
        /\ Authored
        /\ seal' = Candidate(ticket)
        /\ base' = InstalledBase(ticket)
        /\ view' = durable
        /\ collector' = IF collects THEN [from |-> ticket.source.cut, cut |-> ticket.cut]
                        ELSE collector
        /\ UNCHANGED <<started, admitted, durable, durable_batch, ingress_open,
                       wal, stored, rival, sent_seal, submitted>>
        /\ Schedule(pending, flight, timer, NoCheckpoint, retry_at,
                    IF collects THEN 2 ELSE 1, IF collects THEN 1 ELSE 0, <<>>,
                    seal = ticket.source)

\* Another author of the generation fences the writer; an unresolved or failed
\* create poisons it, and may still take effect.
SealFailed(reason) ==
    /\ Running /\ checkpoint.state = "publishing"
    /\ reason = "Fenced" => Lost
    /\ checkpoint' = NoCheckpoint
    /\ Terminate(reason, TRUE)
    /\ UNCHANGED <<flight, store, clients>>

CollectFinished ==
    /\ Running /\ collector # None
    /\ collector' = None
    /\ UNCHANGED <<started, seal, base, admitted, durable, durable_batch, ingress_open,
                   wal, stored, rival, sent_seal, submitted, view>>
    /\ Schedule(pending, flight, timer, checkpoint, retry_at, 0, 0, <<>>, TRUE)

-----------------------------------------------------------------------------
(* The environment: time, the store, the collector's deletes, a rival. *)

IntervalElapses ==
    /\ Running /\ ~elapsed
    /\ elapsed' = TRUE
    /\ UNCHANGED <<started, seal, base, admitted, durable, durable_batch, next_batch, pending,
                   flight, timer, checkpoint_attempt, attempted_cut, retry_at, checkpoint,
                   collector, ingress_open, exit, panicked, store, clients>>

\* A WAL create takes effect if its coordinate is vacant.
WalLands(create) ==
    /\ sent_wal' = sent_wal \ {create}
    /\ wal' = IF wal[create.batch] = Vacant
              THEN [wal EXCEPT ![create.batch] = RunBody(create.facts)] ELSE wal
    /\ UNCHANGED <<machine, stored, rival, sent_seal, clients>>

\* The Seal create takes effect if no other process has its generation.
SealLands ==
    /\ sent_seal # NoSeal
    /\ stored' = IF stored.generation + 1 = sent_seal.generation THEN sent_seal ELSE stored
    /\ sent_seal' = NoSeal
    /\ UNCHANGED <<machine, wal, rival, sent_wal, clients>>

\* The collector deletes a RUN of its span; it leaves FENCEs alone.
CollectRun(batch) ==
    /\ Running /\ collector # None
    /\ batch \in collector.from + 1 .. collector.cut
    /\ wal[batch].kind = "run"
    /\ wal' = [wal EXCEPT ![batch] = Vacant]
    /\ UNCHANGED <<machine, stored, rival, sent_wal, sent_seal, clients>>

\* A rival claims the next generation with the newest Seal's manifest...
RivalClaims ==
    /\ rival.generation = 0
    /\ rival' = [generation |-> stored.generation + 1, fence |-> rival.fence]
    /\ stored' = Seal(stored.generation + 1, stored.cut, stored.content)
    /\ UNCHANGED <<machine, wal, sent_wal, sent_seal, clients>>

\* ...and fences the first hole after the cut and the listed tail.
FirstHole == Max({stored.cut} \cup {b \in Batches : wal[b] # Vacant}) + 1

RivalFences ==
    /\ rival.generation # 0 /\ rival.fence = 0
    /\ BoundTakeoverFence(stored.cut, FirstHole) = "Bounded"
    /\ rival' = [generation |-> rival.generation, fence |-> FirstHole]
    /\ wal' = [wal EXCEPT ![FirstHole] = FenceBody]
    /\ UNCHANGED <<machine, stored, sent_wal, sent_seal, clients>>

-----------------------------------------------------------------------------

\* Bootstrap hands over a claim, the Seal it claimed, and a durable head at its
\* own FENCE: the last of a suffix of FENCEs that earlier claimants left.
Init ==
    \E head \in Batches :
        /\ BoundTakeoverFence(0, head) = "Bounded"
        /\ started = FALSE
        /\ seal = Seal(head + 1, 0, Empty)
        /\ base = Empty /\ admitted = Empty /\ durable = Empty
        /\ durable_batch = head /\ next_batch = head + 1
        /\ pending = EmptyBarrier /\ flight = NoFlight
        /\ elapsed = TRUE /\ timer = "off"
        /\ checkpoint_attempt = 0 /\ attempted_cut = 0 /\ retry_at = 0
        /\ checkpoint = NoCheckpoint /\ collector = None
        /\ ingress_open = TRUE /\ exit = "none" /\ panicked = FALSE
        /\ wal = [b \in Batches |-> IF b <= head THEN FenceBody ELSE Vacant]
        /\ stored = seal
        /\ rival = [generation |-> 0, fence |-> 0]
        /\ sent_wal = {} /\ sent_seal = NoSeal
        /\ submitted = 0 /\ view = Empty /\ acked = <<>>

Command(cmd) ==
    \/ AcceptFact(cmd)
    \/ ShedFact(cmd)
    \/ AnswerIdempotent(cmd)
    \/ QueueIdempotent(cmd)
    \/ Refuse(cmd)

WalEstablished == WalDurable \/ \E r \in {"Fenced", "Poisoned", "Contradiction"} : WalFailed(r)
PreparationEnds == CheckpointPrepared \/ CheckpointDropped \/ CheckpointContradicted
SealPublished == SealAuthored \/ \E r \in {"Fenced", "Poisoned", "Contradiction"} : SealFailed(r)

Next ==
    \/ Started
    \/ \E cmd \in Commands : Command(cmd)
    \/ FlushDue
    \/ IngressClosed
    \/ WalEstablished
    \/ PreparationEnds
    \/ SealPublished
    \/ CollectFinished
    \/ IntervalElapses
    \/ \E create \in sent_wal : WalLands(create)
    \/ SealLands
    \/ \E batch \in Batches : CollectRun(batch)
    \/ RivalClaims
    \/ RivalFences

Spec == Init /\ [][Next]_vars

\* The interpreter feeds Started, time passes, the timer fires, and every
\* effect ends: the store answers, fails or times out.
Fairness ==
    /\ WF_vars(Started)
    /\ WF_vars(IntervalElapses)
    /\ WF_vars(FlushDue)
    /\ WF_vars(WalEstablished)
    /\ WF_vars(PreparationEnds)
    /\ WF_vars(SealPublished)

FairSpec == Spec /\ Fairness

-----------------------------------------------------------------------------
(* Properties. *)

\* The types of the machine's state.
TypeOK ==
    /\ {admitted, durable, base, view, stored.content, seal.content} \subseteq Forests
    /\ durable_batch \in Batches /\ next_batch \in Batches
    /\ seal.cut \in Cuts /\ stored.cut \in Cuts
    /\ flight # NoFlight => flight.batch \in Batches /\ flight.forest \in Forests
    /\ pending.facts \in 0 .. RunFactsMax
    /\ Len(pending.commands) <= PendingMax
    /\ timer \in {"off", "current", "stale"} /\ elapsed \in BOOLEAN
    /\ attempted_cut \in Cuts /\ retry_at \in Cuts
    /\ checkpoint.state \in {"none", "preparing", "cancelling", "publishing"}
    /\ exit \in {"none", "Shutdown", "Fenced", "Poisoned", "Contradiction"}

\* No assertion, expect or panic of the machine is reachable: barriers, tickets,
\* cuts, coordinates and the output bound stay as its comments claim
\* (WriterMachine::handle and everything it calls).
NoPanic == ~panicked

\* Replay folds the facts of one RUN in their order; one that contradicts the
\* forest before it ends the bootstrap, with None.
FoldReplayFact(forest, batch, fact) ==
    IF forest # None /\ FoldResult(forest, fact) = "ok" THEN Apply(forest, batch, fact) ELSE None
FoldReplayFacts(forest, batch, facts) ==
    LET folded[i \in 0 .. Len(facts)] ==
            IF i = 0 THEN forest ELSE FoldReplayFact(folded[i - 1], batch, facts[i])
    IN  folded[Len(facts)]

\* The forest a bootstrap recovers from the store alone: the newest Seal's
\* content and every RUN of the contiguous suffix after its cut.
Suffix(b) == \A c \in stored.cut + 1 .. b : wal[c] # Vacant
Replayed(forest, b) == IF Suffix(b) THEN FoldReplayFacts(forest, b, wal[b].facts) ELSE forest
Recovered ==
    LET replay[b \in stored.cut .. CoordinateMax] ==
            IF b = stored.cut THEN stored.content ELSE Replayed(replay[b - 1], b)
    IN  replay[CoordinateMax]

\* What the store recovers is at every moment exactly what the writer holds as
\* durable, or what its flight would make durable once the create has landed:
\* a crash at any point loses nothing and invents nothing, and no fact of the
\* suffix contradicts the forest it is replayed on.  It needs the
\* checkpoint to be diffed against the forest of its source Seal, the creation
\* batch to be the batch of the RUN, and the cut to be the durable head.
RecoveredIsDurable ==
    exit = "none" =>
        Recovered = IF flight # NoFlight /\ wal[flight.batch].kind = "run"
                    THEN flight.forest ELSE durable

\* Every success ever replied survives in the store, whatever happens to the
\* writer afterwards: fencing, poisoning, a late create, collection.  An
\* idempotent success does not outrun the fact it rests on.
AckedIsRecoverable ==
    /\ Recovered # None
    /\ \A i \in 1 .. Len(acked) : Keeps(Recovered, acked[i].promise)

\* A caller that has its reply finds the effect in the published view.
AckedIsVisible == \A i \in 1 .. Len(acked) : Keeps(view, acked[i].promise)

\* Successes are released in the order the commands were admitted, each once.
AckedInOrder == \A i, j \in 1 .. Len(acked) : i < j => acked[i].id < acked[j].id

\* A waiting barrier always has something that will look at it again: the
\* flight it waits behind or the flush timer.  No wakeup is lost when the byte
\* threshold, the timer and completions race.
BarrierHasWakeup ==
    exit = "none" /\ pending.commands # <<>> => flight # NoFlight \/ timer # "off"

\* The ingress gate closes on a full barrier only behind a flight, so the
\* completion that reopens it is on its way.
FullBarrierInFlight == exit = "none" /\ HardFull(pending) => flight # NoFlight

\* A checkpoint that is due is never left unscheduled: with no attempt running
\* over a long suffix, the head was attempted and no shed command waits for it.
DueCheckpointRuns ==
    started /\ exit = "none" /\ ingress_open /\ checkpoint = NoCheckpoint
            /\ SpanThrough(seal.cut, durable_batch) >= Trigger
        => attempted_cut = durable_batch /\ retry_at # durable_batch

\* A RUN in flight leaves the coordinate after it inside the suffix bound, so
\* that a takeover FENCE fits there whatever happens to the RUN.
RunLeavesRoom ==
    flight # NoFlight =>
        BoundTakeoverFence(stored.cut, flight.batch + 1) \notin {"SpanExceeded", "NotAfterCut"}

\* "Normal Ready admission always leaves room for one takeover": the FENCE after
\* a RUN in flight can be placed.
TakeoverAlwaysFits ==
    flight # NoFlight => BoundTakeoverFence(seal.cut, flight.batch + 1) = "Bounded"

\* Once a rival has placed its FENCE, no success rests on a RUN after it: the
\* writer acknowledges nothing the rival's replay has not seen.
NothingAckedPastFence ==
    rival.fence # 0 => durable_batch < rival.fence

Queued(id) ==
    \/ \E i \in 1 .. Len(pending.commands) : pending.commands[i].id = id
    \/ flight # NoFlight /\ \E i \in 1 .. Len(flight.replies) : flight.replies[i].id = id

Answered(id) == \E i \in 1 .. Len(acked) : acked[i].id = id

\* A graceful shutdown leaves nothing behind: no WAL or Seal create of this
\* writer can take effect afterwards, and no admitted fact is undurable or
\* queued without its reply.
ShutdownIsQuiescent ==
    exit = "Shutdown" =>
        /\ sent_wal = {} /\ sent_seal = NoSeal
        /\ admitted = durable
        /\ \A id \in 1 .. submitted : ~Queued(id)

\* Every command taken into a barrier is answered, or the writer ends and its
\* waiters are dropped.
EveryCommandResolved ==
    \A id \in 1 .. CommandsMax : Queued(id) ~> (Answered(id) \/ exit # "none")

\* Closing ingress ends the writer, whatever effects are running.
ShutdownEnds == ~ingress_open ~> exit # "none"

=============================================================================
