---------------------------- MODULE WriterProofs ----------------------------
(***************************************************************************)
(* Proofs about the writer machine, for every bound of its barriers, of    *)
(* the suffix and of the coordinate space.                                 *)
(*                                                                         *)
(* The scheduling properties and the absence of panics rest on one         *)
(* inductive invariant.  Every event ends in Schedule, so the argument has *)
(* two halves: what Schedule establishes when it is called in a consistent *)
(* situation (ScheduleReady), and that every event calls it in one.        *)
(* Three more invariants stand on it: Types, then Answers and Placement    *)
(* for the delivery of replies, and Recovery for what the store holds.     *)
(***************************************************************************)
EXTENDS Writer, ForestProofs

IsSequence(s) == \E S : s \in Seq(S)

Numbers ==
    /\ durable_batch \in Nat /\ next_batch \in Nat /\ attempted_cut \in Nat
    /\ seal.cut \in Nat /\ seal.generation \in Nat
    /\ stored.cut \in Nat /\ stored.generation \in Nat
    /\ rival.generation \in Nat
    /\ ingress_open \in BOOLEAN /\ started \in BOOLEAN

\* A barrier without commands holds no facts.
BarrierShape(b) ==
    /\ IsSequence(b.commands) /\ Len(b.commands) <= PendingMax
    /\ b.facts \in Nat
    /\ b.commands = <<>> => b.facts = 0

\* The coordinate of the flight and the next one follow the durable head.
HeadShape(f, head, next) ==
    /\ f = NoFlight => next = head + 1
    /\ f # NoFlight => f.batch = head + 1 /\ next = head + 2

\* Whatever is queued or in flight was admitted with room for a takeover.
RoomShape(b, f, cut, next) ==
    /\ b.facts > 0 => RunLeavesTakeoverRoom(cut, next)
    /\ f # NoFlight => RunLeavesTakeoverRoom(cut, f.batch)

\* Without facts in the barrier, admitted is what the flight makes durable.
ForestShape(b, f, a, d) ==
    /\ f = NoFlight /\ b.facts = 0 => a = d
    /\ f # NoFlight /\ b.facts = 0 => a = f.forest

\* A checkpoint marker names the installed Seal and an advancing cut.
MarkerShape(c, source, head) ==
    \/ c = NoCheckpoint
    \/ /\ c = Marker(c.state, c.ticket)
       /\ c.state \in {"preparing", "cancelling", "publishing"}
       /\ c.ticket.source = source
       /\ c.ticket.cut \in Nat
       /\ source.cut <= c.ticket.cut /\ c.ticket.cut <= head

Publishing == checkpoint.state = "publishing"
Overtaken == rival.generation = seal.generation + 1

\* The newest Seal in the store is the installed one, the one in flight, or the
\* claim of a rival on top of one of them.
Lineage ==
    /\ seal.cut <= stored.cut /\ stored.cut <= durable_batch
    /\ sent_seal # NoSeal =>
         /\ sent_seal.cut \in Nat /\ sent_seal.generation \in Nat
         /\ seal.cut <= sent_seal.cut /\ sent_seal.cut <= durable_batch
    /\ exit = "none" /\ ~Publishing =>
         sent_seal = NoSeal /\ (stored.generation = seal.generation \/ Overtaken)
    /\ exit = "none" /\ Publishing /\ sent_seal # NoSeal =>
         /\ sent_seal.generation = seal.generation + 1
         /\ sent_seal.cut = checkpoint.ticket.cut
         /\ stored.generation = seal.generation \/ Overtaken
    /\ exit = "none" /\ Publishing /\ sent_seal = NoSeal =>
         \/ Overtaken
         \/ /\ stored.cut = checkpoint.ticket.cut
            /\ \/ stored.generation = seal.generation + 1
               \/ rival.generation = seal.generation + 2

\* The machine between two events.
Settled ==
    /\ BarrierShape(pending)
    /\ HeadShape(flight, durable_batch, next_batch)
    /\ RoomShape(pending, flight, seal.cut, next_batch)
    /\ ForestShape(pending, flight, admitted, durable)
    /\ AdmitAsserts

InductiveInvariant ==
    /\ NoPanic
    /\ Numbers
    /\ seal.cut <= durable_batch /\ attempted_cut <= durable_batch
    /\ MarkerShape(checkpoint, seal, durable_batch)
    /\ Lineage
    /\ exit = "none" => Settled
    /\ flight # NoFlight =>
         flight.batch = durable_batch + 1 /\ RunLeavesTakeoverRoom(seal.cut, flight.batch)
    /\ BarrierHasWakeup
    /\ FullBarrierInFlight
    /\ DueCheckpointRuns

-----------------------------------------------------------------------------
(* What Schedule needs of the event that calls it.  The arguments are the  *)
(* barrier, the flight and the marker as the event left them.              *)

ScheduleReady(b, f, c, outputs, effects) ==
    /\ exit = "none"
    /\ BarrierShape(b)
    /\ HeadShape(f, durable_batch', next_batch)
    /\ RoomShape(b, f, seal'.cut, next_batch)
    /\ ForestShape(b, f, admitted', durable')
    /\ seal'.cut \in Nat /\ durable_batch' \in Nat /\ next_batch \in Nat
    /\ attempted_cut \in Nat /\ ingress_open' \in BOOLEAN
    /\ seal'.cut <= durable_batch' /\ attempted_cut <= durable_batch'
    /\ MarkerShape(c, seal', durable_batch')
    /\ outputs \in 0 .. 2 /\ effects \in 0 .. 1
    /\ effects = 0 \/ ingress_open' \/ c.state = "publishing"

\* What Schedule leaves behind, next to what the event has assigned itself.
Scheduled(c, ok) ==
    /\ panicked' <=> panicked \/ ~ok
    /\ exit' \in {"none", "Shutdown"}
    /\ exit' = "none" => Settled'
    /\ next_batch' \in Nat /\ attempted_cut' \in Nat /\ attempted_cut' <= durable_batch'
    /\ flight' # NoFlight =>
         flight'.batch = durable_batch' + 1 /\ RunLeavesTakeoverRoom(seal'.cut, flight'.batch)
    /\ MarkerShape(checkpoint', seal', durable_batch')
    /\ Publishing' <=> c.state = "publishing"
    /\ c.state = "publishing" => checkpoint' = c
    /\ BarrierHasWakeup' /\ FullBarrierInFlight' /\ DueCheckpointRuns'

\* A drained barrier (PendingBarrier::default) is consistent and not full.
LEMMA EmptyBarrierShape == BarrierShape(EmptyBarrier) /\ ~HardFull(EmptyBarrier)
  <1>1. <<>> \in Seq({})
    OBVIOUS
  <1> QED
    BY <1>1, WriterAssumption DEF BarrierShape, EmptyBarrier, IsSequence, HardFull

\* drain_pending leaves no barrier without a flight or a timer behind.
LEMMA DrainPendingSettles ==
    ASSUME NEW STATE b, NEW STATE f, NEW STATE t, NEW STATE c, NEW STATE outputs,
           NEW STATE effects, NEW STATE replies,
           ScheduleReady(b, f, c, outputs, effects), DrainPending(b, f, t, replies)
    PROVE  /\ Settled'
           /\ next_batch' \in Nat
           /\ BarrierHasWakeup' /\ FullBarrierInFlight'
  <1>0. /\ BarrierShape(b)
        /\ HeadShape(f, durable_batch', next_batch)
        /\ RoomShape(b, f, seal'.cut, next_batch)
        /\ ForestShape(b, f, admitted', durable')
        /\ durable_batch' \in Nat /\ next_batch \in Nat
    BY DEF ScheduleReady
  <1>1. CASE DrainsNow(b, f) /\ b.facts = 0
    <2>1. pending' = EmptyBarrier /\ flight' = f /\ f = NoFlight /\ next_batch' = next_batch
      BY <1>1 DEF DrainPending, DrainsNow
    <2>2. BarrierShape(pending)' /\ ~HardFull(pending)'
      BY <2>1, EmptyBarrierShape DEF BarrierShape, IsSequence, HardFull
    <2> QED
      BY <1>0, <1>1, <2>1, <2>2
      DEF Settled, HeadShape, RoomShape, ForestShape, AdmitAsserts, EmptyBarrier,
          BarrierHasWakeup, FullBarrierInFlight
  <1>2. CASE DrainsNow(b, f) /\ b.facts # 0
    <2>1. /\ pending' = EmptyBarrier /\ f = NoFlight /\ next_batch' = next_batch + 1
          /\ flight' = [batch |-> next_batch, forest |-> admitted', replies |-> Replies(b)]
          /\ b.facts > 0
      BY <1>0, <1>2 DEF DrainPending, DrainsNow, BarrierShape
    <2>2. next_batch = durable_batch' + 1
      BY <1>0, <2>1 DEF HeadShape
    <2>3. flight' # NoFlight /\ flight'.batch = next_batch /\ flight'.forest = admitted'
      BY <1>0, <2>1, <2>2 DEF NoFlight
    <2>4. BarrierShape(pending)' /\ ~HardFull(pending)'
      BY <2>1, EmptyBarrierShape DEF BarrierShape, IsSequence, HardFull
    <2>5. HeadShape(flight, durable_batch, next_batch)'
      BY <1>0, <2>1, <2>2, <2>3 DEF HeadShape, NoFlight
    <2>6. RoomShape(pending, flight, seal.cut, next_batch)'
      BY <1>0, <2>1, <2>3
      DEF RoomShape, EmptyBarrier, RunLeavesTakeoverRoom, HasSuccessor, SpanThrough
    <2>7. ForestShape(pending, flight, admitted, durable)' /\ AdmitAsserts'
      BY <2>1, <2>3 DEF ForestShape, AdmitAsserts, EmptyBarrier, NoFlight
    <2>8. BarrierHasWakeup' /\ FullBarrierInFlight'
      BY <2>1, <2>4 DEF BarrierHasWakeup, FullBarrierInFlight, EmptyBarrier
    <2>9. next_batch' \in Nat
      BY <1>0, <2>1
    <2> QED
      BY <2>4, <2>5, <2>6, <2>7, <2>8, <2>9 DEF Settled
  <1>3. CASE ~DrainsNow(b, f)
    <2>1. /\ pending' = b /\ flight' = f /\ next_batch' = next_batch
          /\ timer' = IF ArmsNow(b, f, t) THEN "current" ELSE t
      BY <1>3 DEF DrainPending
    <2>2. f = NoFlight /\ b.commands # <<>> => b.facts > 0 /\ ~HardFull(b)
      BY <1>0, <1>3 DEF DrainsNow, BarrierShape
    <2>3. b.commands = <<>> => ~HardFull(b)
      BY <1>0, WriterAssumption DEF HardFull, BarrierShape
    <2>4. BarrierHasWakeup'
      BY <1>3, <2>1 DEF BarrierHasWakeup, ArmsNow
    <2>5. BarrierShape(pending)' /\ (HardFull(pending)' <=> HardFull(b))
      BY <1>0, <2>1 DEF BarrierShape, IsSequence, HardFull
    <2> QED
      BY <1>0, <2>1, <2>2, <2>3, <2>4, <2>5
      DEF Settled, HeadShape, RoomShape, ForestShape, AdmitAsserts, FullBarrierInFlight
  <1> QED
    BY <1>1, <1>2, <1>3

\* take_checkpoint starts every checkpoint that is due, and its assertions hold.
LEMMA TakeCheckpointSettles ==
    ASSUME NEW STATE b, NEW STATE f, NEW STATE c, NEW STATE r, NEW STATE outputs,
           NEW STATE effects,
           ScheduleReady(b, f, c, outputs, effects), TakeCheckpoint(c, r)
    PROVE  /\ attempted_cut' \in Nat /\ attempted_cut' <= durable_batch'
           /\ MarkerShape(checkpoint', seal', durable_batch')
           /\ checkpoint'.state = "publishing" <=> c.state = "publishing"
           /\ c.state = "publishing" => checkpoint' = c
           /\ CheckpointAsserts(c)
           /\ DueCheckpointRuns'
  <1> USE DEF ScheduleReady
  <1>0. CheckpointAsserts(c)
    BY SuffixAssumption DEF CheckpointAsserts, SpanThrough
  <1>1. CASE CheckpointDue(c, r)
    <2>1. /\ checkpoint' = Marker("preparing",
                [source |-> seal', base |-> base', snapshot |-> durable',
                 cut |-> durable_batch', attempt |-> checkpoint_attempt])
          /\ attempted_cut' = durable_batch'
          /\ c = NoCheckpoint
      BY <1>1 DEF TakeCheckpoint, CheckpointDue
    <2>2. checkpoint' # NoCheckpoint /\ c.state = "none" /\ checkpoint'.state = "preparing"
      BY <2>1 DEF Marker, NoCheckpoint
    <2>3. MarkerShape(checkpoint', seal', durable_batch')
      BY <2>1 DEF MarkerShape, Marker
    <2> QED
      BY <1>0, <2>1, <2>2, <2>3 DEF DueCheckpointRuns
  <1>2. CASE ~CheckpointDue(c, r)
    <2>1. checkpoint' = c /\ attempted_cut' = attempted_cut /\ retry_at' = r
      BY <1>2 DEF TakeCheckpoint
    <2>2. DueCheckpointRuns'
      BY <1>2, <2>1 DEF DueCheckpointRuns, CheckpointDue, SpanThrough
    <2> QED
      BY <1>0, <2>1, <2>2
  <1> QED
    BY <1>1, <1>2

\* Called in a consistent situation, Schedule panics only if the event already
\* did, and leaves the machine settled.
LEMMA ScheduleSettles ==
    ASSUME NEW STATE b, NEW STATE f, NEW STATE t, NEW STATE c, NEW STATE r, NEW STATE outputs,
           NEW STATE effects, NEW STATE replies, NEW ACTION ok,
           ScheduleReady(b, f, c, outputs, effects),
           Schedule(b, f, t, c, r, outputs, effects, replies, ok)
    PROVE  Scheduled(c, ok)
  <1>1. DrainPending(b, f, t, replies) /\ TakeCheckpoint(c, r)
    BY DEF Schedule
  <1>2. Settled' /\ next_batch' \in Nat /\ BarrierHasWakeup' /\ FullBarrierInFlight'
    BY <1>1, DrainPendingSettles
  <1>3. /\ attempted_cut' \in Nat /\ attempted_cut' <= durable_batch'
        /\ MarkerShape(checkpoint', seal', durable_batch')
        /\ checkpoint'.state = "publishing" <=> c.state = "publishing"
        /\ c.state = "publishing" => checkpoint' = c
        /\ CheckpointAsserts(c)
        /\ DueCheckpointRuns'
    BY <1>1, TakeCheckpointSettles
  <1>4. flight' # NoFlight =>
          flight'.batch = durable_batch' + 1 /\ RunLeavesTakeoverRoom(seal'.cut, flight'.batch)
    BY <1>2 DEF Settled, HeadShape, RoomShape, RunLeavesTakeoverRoom, HasSuccessor, SpanThrough
  <1>5. exit = "none" /\ exit' \in {"none", "Shutdown"}
    BY DEF Schedule, ScheduleReady
  <1>6. DrainsNow(b, f) => DrainAsserts(b)
    BY DEF ScheduleReady, DrainsNow, DrainAsserts, ForestShape, RoomShape, BarrierShape,
           RunLeavesTakeoverRoom
  <1>7. exit' # "none" =>
          /\ ~ingress_open' /\ flight' = NoFlight /\ checkpoint' = NoCheckpoint
          /\ pending'.commands = <<>>
    BY <1>5 DEF Schedule, ShutsDown
  <1>8. exit' # "none" => admitted' = durable'
    BY <1>2, <1>7 DEF Settled, ForestShape, BarrierShape
  <1>9. exit' # "none" =>
          effects = 0 /\ ~(DrainsNow(b, f) /\ b.facts > 0) /\ ~CheckpointDue(c, r)
    <2>1. exit' # "none" => c.state # "publishing"
      BY <1>3, <1>7 DEF NoCheckpoint
    <2>2. exit' # "none" => ~CheckpointDue(c, r)
      BY <1>7 DEF CheckpointDue
    <2>3. DrainsNow(b, f) /\ b.facts > 0 => flight' # NoFlight
      BY <1>1 DEF DrainPending, NoFlight, ScheduleReady, HeadShape, DrainsNow
    <2> QED
      BY <1>7, <2>1, <2>2, <2>3 DEF ScheduleReady
  <1>10. panicked' <=> panicked \/ ~ok
    BY <1>3, <1>6, <1>8, <1>9 DEF Schedule, ScheduleReady, OutputsPerStepMax
  <1> QED
    BY <1>2, <1>3, <1>4, <1>5, <1>10 DEF Scheduled, Publishing

-----------------------------------------------------------------------------
(* Every event calls Schedule in a consistent situation. *)

\* An event that moves no Seal keeps the lineage, even when the head advances.
LEMMA LineageStays ==
    ASSUME InductiveInvariant, exit = "none",
           UNCHANGED <<seal, stored, rival, sent_seal>>,
           durable_batch' \in Nat, durable_batch <= durable_batch',
           Publishing' <=> Publishing, Publishing => checkpoint' = checkpoint
    PROVE  Lineage'
  BY DEF InductiveInvariant, Numbers, Lineage, Overtaken, NoSeal

\* The invariant after Schedule, once the lineage of the Seals is settled.
LEMMA ScheduledKeeps ==
    ASSUME NEW STATE c, NEW ACTION ok, ok, InductiveInvariant, Scheduled(c, ok), Lineage',
           durable_batch' \in Nat, seal'.cut \in Nat, seal'.generation \in Nat,
           stored'.cut \in Nat, stored'.generation \in Nat, rival'.generation \in Nat,
           ingress_open' \in BOOLEAN, started' \in BOOLEAN, seal'.cut <= durable_batch'
    PROVE  InductiveInvariant'
  <1>1. NoPanic'
    BY DEF Scheduled, NoPanic, InductiveInvariant
  <1>2. Numbers' /\ seal'.cut <= durable_batch' /\ attempted_cut' <= durable_batch'
    BY DEF Scheduled, Numbers
  <1>3. MarkerShape(checkpoint, seal, durable_batch)'
    BY DEF Scheduled, MarkerShape, Marker, NoCheckpoint
  <1>4. flight' # NoFlight' =>
          flight'.batch = durable_batch' + 1 /\ RunLeavesTakeoverRoom(seal.cut, flight.batch)'
    BY DEF Scheduled, NoFlight, RunLeavesTakeoverRoom, HasSuccessor, SpanThrough
  <1> QED
    BY <1>1, <1>2, <1>3, <1>4 DEF Scheduled, InductiveInvariant

\* An event that leaves the durable head and the Seals alone.
LEMMA QuietEvent ==
    ASSUME NEW STATE b, NEW STATE t, NEW STATE c, NEW STATE r, NEW STATE outputs,
           NEW STATE replies, NEW ACTION ok,
           InductiveInvariant, exit = "none", ok,
           UNCHANGED <<seal, durable, durable_batch, stored, rival, sent_seal>>,
           ingress_open' \in BOOLEAN, started' \in BOOLEAN,
           BarrierShape(b),
           RoomShape(b, flight, seal.cut, next_batch),
           ForestShape(b, flight, admitted', durable),
           MarkerShape(c, seal, durable_batch),
           c.state = "publishing" <=> Publishing,
           Publishing => c = checkpoint,
           outputs \in 0 .. 2,
           Schedule(b, flight, t, c, r, outputs, 0, replies, ok)
    PROVE  InductiveInvariant'
  <1>1. ScheduleReady(b, flight, c, outputs, 0)
    BY DEF InductiveInvariant, ScheduleReady, Settled, Numbers
  <1>2. Scheduled(c, ok)
    BY <1>1, ScheduleSettles
  <1>3. Lineage'
    BY <1>2, LineageStays DEF Scheduled, InductiveInvariant, Numbers
  <1> QED
    BY <1>2, <1>3, ScheduledKeeps DEF InductiveInvariant, Numbers

\* One more command in a barrier.
LEMMA AppendShape ==
    ASSUME NEW s, NEW x, IsSequence(s)
    PROVE  /\ IsSequence(Append(s, x))
           /\ Len(s) \in Nat /\ Len(Append(s, x)) = Len(s) + 1
           /\ Append(s, x) # <<>>
  <1>1. PICK S : s \in Seq(S)
    BY DEF IsSequence
  <1>2. s \in Seq(S \cup {x})
    BY <1>1
  <1>3. Append(s, x) \in Seq(S \cup {x}) /\ Len(s) \in Nat /\ Len(Append(s, x)) = Len(s) + 1
    BY <1>2
  <1> QED
    BY <1>3 DEF IsSequence

\* Admission decides on facts that fold: admit and strict_fold agree on what a
\* live path, a free path and a dense successor are.
LEMMA DecidedFactFolds ==
    ASSUME NEW forest, NEW cmd \in Commands, Decide(forest, cmd).kind = "fact"
    PROVE  FoldResult(forest, Decide(forest, cmd).fact) = "ok"
  <1> USE DEF Refused, Idempotent, Accepted
  <1>1. CASE cmd.op = "create"
    <2>1. Decide(forest, cmd) = AdmitCreate(forest, cmd)
      BY <1>1 DEF Decide
    <2>2. /\ Decide(forest, cmd).fact =
               Created(cmd.path, SuccessorUid(forest), cmd.config, cmd.closed)
          /\ forest.directory[cmd.path] = None /\ HasCapacity(forest)
      BY <2>1 DEF AdmitCreate
    <2> QED
      BY <2>2 DEF FoldResult, Created
  <1>2. CASE cmd.op = "close"
    <2>1. Decide(forest, cmd) = AdmitClose(forest, cmd)
      BY <1>2 DEF Decide
    <2>2. /\ Decide(forest, cmd).fact = Closed(cmd.path, forest.directory[cmd.path].uid)
          /\ IsLive(forest, cmd.path)
          /\ ~forest.ledger[forest.directory[cmd.path].uid].closed
      BY <2>1 DEF AdmitClose
    <2> QED
      BY <2>2 DEF FoldResult, Closed, RequireLiveUid
  <1>3. CASE cmd.op = "delete"
    <2>1. Decide(forest, cmd) = AdmitDelete(forest, cmd)
      BY <1>3 DEF Decide
    <2>2. /\ Decide(forest, cmd).fact = Deleted(cmd.path, forest.directory[cmd.path].uid)
          /\ IsLive(forest, cmd.path)
      BY <2>1 DEF AdmitDelete
    <2> QED
      BY <2>2 DEF FoldResult, Deleted, RequireLiveUid
  <1> QED
    BY <1>1, <1>2, <1>3 DEF Commands

-----------------------------------------------------------------------------
(* One lemma per event. *)

\* The five outcomes of admit.
LEMMA CommandKeeps ==
    ASSUME InductiveInvariant, NEW cmd \in Commands, Command(cmd)
    PROVE  InductiveInvariant'
  <1>0. /\ Settled /\ AdmitAsserts /\ BarrierShape(pending)
        /\ RoomShape(pending, flight, seal.cut, next_batch)
        /\ ForestShape(pending, flight, admitted, durable)
        /\ MarkerShape(checkpoint, seal, durable_batch)
        /\ ingress_open \in BOOLEAN /\ started \in BOOLEAN
        /\ exit = "none"
        /\ UNCHANGED <<seal, durable, durable_batch, stored, rival, sent_seal, ingress_open,
                       started>>
        /\ ~HardFull(pending)
    BY DEF Command, AcceptFact, ShedFact, AnswerIdempotent, QueueIdempotent, Refuse,
           TakesCommand, Running, AdmissionOpen, InductiveInvariant, Settled, Numbers
  <1>q. /\ UNCHANGED <<seal, durable, durable_batch, stored, rival, sent_seal>>
        /\ ingress_open' \in BOOLEAN /\ started' \in BOOLEAN
        /\ checkpoint.state = "publishing" <=> Publishing
        /\ 0 \in 0 .. 2 /\ 1 \in 0 .. 2
    BY <1>0 DEF Publishing
  <1>1. CASE AcceptFact(cmd)
    <2> DEFINE decision == Decide(admitted, cmd)
               barrier  == PushFact(pending, submitted + 1, decision)
               ok == /\ AdmitAsserts
                     /\ FoldResult(admitted, decision.fact) = "ok"
                     /\ barrier.facts <= RunFactsMax
                     /\ Len(barrier.commands) <= PendingMax
    <2>1. /\ decision.kind = "fact" /\ RunLeavesTakeoverRoom(seal.cut, next_batch)
          /\ Schedule(barrier, flight, timer, checkpoint, retry_at, 0, 0, <<>>, ok)
      BY <1>1 DEF AcceptFact
    <2>2. IsSequence(pending.commands) /\ pending.facts \in Nat
      BY <1>0 DEF BarrierShape
    <2>3. /\ IsSequence(barrier.commands) /\ barrier.commands # <<>>
          /\ Len(pending.commands) \in Nat
          /\ Len(barrier.commands) = Len(pending.commands) + 1
          /\ barrier.facts = pending.facts + 1
      BY <2>2, AppendShape DEF PushFact
    <2>4. barrier.facts <= RunFactsMax /\ Len(barrier.commands) <= PendingMax
      BY <1>0, <2>2, <2>3, WriterAssumption DEF HardFull, BarrierShape
    <2>5. ok
      BY <1>0, <2>1, <2>4, DecidedFactFolds
    <2>6. BarrierShape(barrier) /\ barrier.facts > 0
      BY <2>2, <2>3, <2>4 DEF BarrierShape
    <2>7. /\ RoomShape(barrier, flight, seal.cut, next_batch)
          /\ ForestShape(barrier, flight, admitted', durable)
      BY <1>0, <2>1, <2>6 DEF RoomShape, ForestShape, BarrierShape
    <2> HIDE DEF barrier, decision, ok
    <2> QED
      BY <1>0, <2>1, <2>5, <2>6, <2>7, <1>q, QuietEvent
  <1>2. CASE QueueIdempotent(cmd)
    <2> DEFINE decision == Decide(admitted, cmd)
               barrier  == PushIdempotent(pending, submitted + 1, decision)
               ok == AdmitAsserts /\ Len(barrier.commands) <= PendingMax
    <2>1. /\ UNCHANGED admitted
          /\ Schedule(barrier, flight, timer, checkpoint, retry_at, 0, 0, <<>>, ok)
      BY <1>2 DEF QueueIdempotent
    <2>2. IsSequence(pending.commands) /\ pending.facts \in Nat
      BY <1>0 DEF BarrierShape
    <2>3. /\ IsSequence(barrier.commands) /\ barrier.commands # <<>>
          /\ Len(pending.commands) \in Nat
          /\ Len(barrier.commands) = Len(pending.commands) + 1
          /\ barrier.facts = pending.facts
      BY <2>2, AppendShape DEF PushIdempotent
    <2>4. Len(barrier.commands) <= PendingMax
      BY <1>0, <2>2, <2>3, WriterAssumption DEF HardFull, BarrierShape
    <2>5. ok
      BY <1>0, <2>4
    <2>6. BarrierShape(barrier)
      BY <2>2, <2>3, <2>4 DEF BarrierShape
    <2>7. /\ RoomShape(barrier, flight, seal.cut, next_batch)
          /\ ForestShape(barrier, flight, admitted', durable)
      BY <1>0, <2>1, <2>3 DEF RoomShape, ForestShape
    <2> HIDE DEF barrier, decision, ok
    <2> QED
      BY <1>0, <2>1, <2>5, <2>6, <2>7, <1>q, QuietEvent
  <1>3. CASE ShedFact(cmd)
    <2>1. /\ UNCHANGED admitted
          /\ Schedule(pending, flight, timer, checkpoint, durable_batch, 1, 0, <<>>, AdmitAsserts)
      BY <1>3 DEF ShedFact
    <2>2. ForestShape(pending, flight, admitted', durable)
      BY <1>0, <2>1
    <2> QED
      BY <1>0, <1>q, <2>1, <2>2, QuietEvent
  <1>4. CASE AnswerIdempotent(cmd)
    <2> DEFINE reply == <<[id |-> submitted + 1, promise |-> Decide(admitted, cmd).promise]>>
    <2>1. /\ UNCHANGED admitted
          /\ Schedule(pending, flight, timer, checkpoint, retry_at, 1, 0, reply, AdmitAsserts)
      BY <1>4 DEF AnswerIdempotent
    <2>2. ForestShape(pending, flight, admitted', durable)
      BY <1>0, <2>1
    <2> HIDE DEF reply
    <2> QED
      BY <1>0, <1>q, <2>1, <2>2, QuietEvent
  <1>5. CASE Refuse(cmd)
    <2>1. /\ UNCHANGED admitted
          /\ Schedule(pending, flight, timer, checkpoint, retry_at, 1, 0, <<>>, AdmitAsserts)
      BY <1>5 DEF Refuse
    <2>2. ForestShape(pending, flight, admitted', durable)
      BY <1>0, <2>1
    <2> QED
      BY <1>0, <1>q, <2>1, <2>2, QuietEvent
  <1> QED
    BY <1>1, <1>2, <1>3, <1>4, <1>5 DEF Command

\* Started, the flush timer, the close of ingress, a preparation that comes to
\* nothing and the end of a collection.
QuietNext == Started \/ FlushDue \/ IngressClosed \/ CheckpointDropped \/ CollectFinished

\* None of these events moves the durable head or a Seal.
LEMMA QuietNextKeeps ==
    ASSUME InductiveInvariant, exit = "none", QuietNext
    PROVE  InductiveInvariant'
  <1>0. /\ BarrierShape(pending)
        /\ RoomShape(pending, flight, seal.cut, next_batch)
        /\ ForestShape(pending, flight, admitted, durable)
        /\ MarkerShape(checkpoint, seal, durable_batch)
        /\ MarkerShape(NoCheckpoint, seal, durable_batch)
        /\ ingress_open \in BOOLEAN /\ started \in BOOLEAN
    BY DEF InductiveInvariant, Settled, Numbers, MarkerShape
  <1>1. /\ UNCHANGED <<seal, durable, durable_batch, stored, rival, sent_seal>>
        /\ UNCHANGED admitted
        /\ ingress_open' \in BOOLEAN /\ started' \in BOOLEAN
    BY <1>0 DEF QuietNext, Started, FlushDue, IngressClosed, CheckpointDropped, CollectFinished
  <1>2. /\ ForestShape(pending, flight, admitted', durable)
        /\ checkpoint.state = "publishing" <=> Publishing
        /\ 0 \in 0 .. 2 /\ 1 \in 0 .. 2
    BY <1>0, <1>1 DEF Publishing
  <1>3. CASE Started
    <2>1. Schedule(pending, flight, timer, checkpoint, retry_at, 0, 0, <<>>, TRUE)
      BY <1>3 DEF Started
    <2> QED
      BY <1>0, <1>1, <1>2, <2>1, QuietEvent
  <1>4. CASE FlushDue
    <2>1. Schedule(pending, flight, "off", checkpoint, retry_at, 0, 0, <<>>, TRUE)
      BY <1>4 DEF FlushDue
    <2> QED
      BY <1>0, <1>1, <1>2, <2>1, QuietEvent
  <1>5. CASE IngressClosed
    <2> DEFINE cancels == checkpoint.state = "preparing"
               marker  == IF cancels THEN Marker("cancelling", checkpoint.ticket)
                          ELSE checkpoint
               outputs == IF cancels THEN 1 ELSE 0
    <2>1. Schedule(pending, flight, timer, marker, retry_at, outputs, 0, <<>>, TRUE)
      BY <1>5 DEF IngressClosed
    <2>2. MarkerShape(marker, seal, durable_batch)
      BY <1>0 DEF MarkerShape, Marker, NoCheckpoint
    <2>3. /\ marker.state = "publishing" <=> Publishing
          /\ Publishing => marker = checkpoint
          /\ outputs \in 0 .. 2
      BY DEF Publishing, Marker
    <2> HIDE DEF marker, outputs
    <2> QED
      BY <1>0, <1>1, <1>2, <2>1, <2>2, <2>3, QuietEvent
  <1>6. CASE CheckpointDropped
    <2>1. /\ Schedule(pending, flight, timer, NoCheckpoint, retry_at, 0, 0, <<>>, TRUE)
          /\ NoCheckpoint.state = "publishing" <=> Publishing
          /\ Publishing => NoCheckpoint = checkpoint
      BY <1>6 DEF CheckpointDropped, Publishing, NoCheckpoint
    <2> QED
      BY <1>0, <1>1, <1>2, <2>1, QuietEvent
  <1>7. CASE CollectFinished
    <2>1. Schedule(pending, flight, timer, checkpoint, retry_at, 0, 0, <<>>, TRUE)
      BY <1>7 DEF CollectFinished
    <2> QED
      BY <1>0, <1>1, <1>2, <2>1, QuietEvent
  <1> QED
    BY <1>3, <1>4, <1>5, <1>6, <1>7 DEF QuietNext

\* A durable flight moves the head to its coordinate; what the barrier holds
\* was admitted on top of the flight's forest.
LEMMA WalDurableKeeps ==
    ASSUME InductiveInvariant, WalDurable
    PROVE  InductiveInvariant'
  <1> DEFINE ok == pending.commands = <<>> => admitted = durable'
  <1>0. /\ exit = "none" /\ flight # NoFlight
        /\ durable' = flight.forest /\ durable_batch' = flight.batch
        /\ UNCHANGED <<seal, stored, rival, sent_seal, started, admitted, ingress_open>>
        /\ Schedule(pending, NoFlight, timer, checkpoint, retry_at, 2, 0, flight.replies, ok)
    BY DEF WalDurable, Running
  <1>1. Settled /\ Numbers /\ durable_batch' = durable_batch + 1 /\ next_batch = durable_batch + 2
    BY <1>0 DEF InductiveInvariant, Settled, HeadShape
  <1>2. /\ BarrierShape(pending)
        /\ HeadShape(NoFlight, durable_batch', next_batch)
        /\ RoomShape(pending, NoFlight, seal'.cut, next_batch)
        /\ ForestShape(pending, NoFlight, admitted', durable')
    BY <1>0, <1>1 DEF Settled, HeadShape, RoomShape, ForestShape, Numbers
  <1>3. ok
    BY <1>0, <1>1 DEF Settled, BarrierShape, ForestShape
  <1>4. /\ MarkerShape(checkpoint, seal', durable_batch')
        /\ seal'.cut <= durable_batch' /\ attempted_cut <= durable_batch'
        /\ seal'.cut \in Nat /\ durable_batch' \in Nat
    BY <1>0, <1>1 DEF InductiveInvariant, MarkerShape, Numbers
  <1>5. ScheduleReady(pending, NoFlight, checkpoint, 2, 0)
    BY <1>0, <1>1, <1>2, <1>4 DEF ScheduleReady, Numbers
  <1> HIDE DEF ok
  <1>6. Scheduled(checkpoint, ok)
    BY <1>0, <1>5, ScheduleSettles
  <1>7. /\ Publishing' <=> Publishing
        /\ Publishing => checkpoint' = checkpoint
    BY <1>6 DEF Scheduled, Publishing
  <1>8. Lineage'
    BY <1>0, <1>1, <1>4, <1>7, LineageStays DEF Numbers
  <1> QED
    BY <1>0, <1>1, <1>3, <1>4, <1>6, <1>8, ScheduledKeeps DEF Numbers


\* The Seal is sent once: the store still has the installed Seal, or a rival
\* has taken the generation already.
LEMMA CheckpointPreparedKeeps ==
    ASSUME InductiveInvariant, CheckpointPrepared
    PROVE  InductiveInvariant'
  <1> DEFINE ticket == checkpoint.ticket
             marker == Marker("publishing", ticket)
  <1>0. /\ exit = "none" /\ checkpoint.state = "preparing" /\ sent_seal' = Candidate(ticket)
        /\ UNCHANGED <<seal, durable, durable_batch, stored, rival, started, admitted,
                       ingress_open>>
        /\ Schedule(pending, flight, timer, marker, retry_at, 1, 1, <<>>, TRUE)
    BY DEF CheckpointPrepared, Running
  <1>1. /\ Settled /\ Numbers /\ Lineage /\ ~Publishing
        /\ seal.cut <= durable_batch /\ attempted_cut <= durable_batch
    BY <1>0 DEF InductiveInvariant, Publishing
  <1>2. /\ ticket.source = seal /\ ticket.cut \in Nat
        /\ seal.cut <= ticket.cut /\ ticket.cut <= durable_batch
    BY <1>0 DEF InductiveInvariant, MarkerShape, NoCheckpoint
  <1>3. MarkerShape(marker, seal, durable_batch) /\ marker.state = "publishing"
    BY <1>2 DEF MarkerShape, Marker
  <1>4. ScheduleReady(pending, flight, marker, 1, 1)
    BY <1>0, <1>1, <1>3 DEF ScheduleReady, Settled, Numbers
  <1>5. Scheduled(marker, TRUE)
    BY <1>0, <1>4, ScheduleSettles
  <1>6. Publishing' /\ checkpoint'.ticket = ticket
    BY <1>3, <1>5 DEF Scheduled, Marker
  <1>7. /\ sent_seal'.generation = seal.generation + 1 /\ sent_seal'.cut = ticket.cut
        /\ sent_seal' # NoSeal
    BY <1>0, <1>2 DEF Candidate, Seal, NoSeal
  <1>8. Lineage'
    BY <1>0, <1>1, <1>2, <1>6, <1>7 DEF Lineage, Overtaken, Numbers, NoSeal
  <1> QED
    BY <1>0, <1>1, <1>5, <1>8, ScheduledKeeps DEF Numbers

\* An authored Seal is the newest in the store, so installing its cut never
\* passes what the store would replay from.
LEMMA SealAuthoredKeeps ==
    ASSUME InductiveInvariant, SealAuthored
    PROVE  InductiveInvariant'
  <1> DEFINE ticket   == checkpoint.ticket
             collects == ingress_open /\ collector = None
             outputs  == IF collects THEN 2 ELSE 1
             effects  == IF collects THEN 1 ELSE 0
             ok       == seal = ticket.source
  <1>0. /\ exit = "none" /\ checkpoint.state = "publishing" /\ Authored
        /\ seal' = Candidate(ticket)
        /\ UNCHANGED <<durable, durable_batch, stored, rival, sent_seal, started, admitted,
                       ingress_open>>
        /\ Schedule(pending, flight, timer, NoCheckpoint, retry_at, outputs, effects, <<>>, ok)
    BY DEF SealAuthored, Running
  <1>1. /\ Settled /\ Numbers /\ Lineage /\ Publishing /\ attempted_cut <= durable_batch
    BY <1>0 DEF InductiveInvariant, Publishing
  <1>2. /\ ticket.source = seal /\ ticket.cut \in Nat
        /\ seal.cut <= ticket.cut /\ ticket.cut <= durable_batch
    BY <1>0 DEF InductiveInvariant, MarkerShape, NoCheckpoint
  <1>3. seal'.generation = seal.generation + 1 /\ seal'.cut = ticket.cut
    BY <1>0, <1>2 DEF Candidate, Seal
  <1>4. stored.generation >= seal.generation + 1 /\ rival.generation # seal.generation + 1
    BY <1>0, <1>2 DEF Authored, Candidate, Seal
  <1>5. /\ sent_seal = NoSeal /\ stored.cut = ticket.cut
        /\ stored.generation = seal.generation + 1 \/ rival.generation = seal.generation + 2
    BY <1>0, <1>1, <1>4 DEF Lineage, Overtaken, Numbers
  <1>6. RoomShape(pending, flight, ticket.cut, next_batch)
    BY <1>1, <1>2, SuffixAssumption
    DEF Settled, RoomShape, HeadShape, RunLeavesTakeoverRoom, SpanThrough, HasSuccessor, Numbers
  <1>7. ScheduleReady(pending, flight, NoCheckpoint, outputs, effects)
    BY <1>0, <1>1, <1>2, <1>3, <1>6 DEF ScheduleReady, Settled, Numbers, MarkerShape
  <1>8. ok
    BY <1>2
  <1> HIDE DEF ok, outputs, effects
  <1>9. Scheduled(NoCheckpoint, ok)
    BY <1>0, <1>7, ScheduleSettles
  <1>10. ~Publishing'
    BY <1>9 DEF Scheduled, NoCheckpoint
  <1>11. Lineage'
    BY <1>0, <1>1, <1>2, <1>3, <1>5, <1>10 DEF Lineage, Overtaken, Numbers, NoSeal
  <1>12. /\ durable_batch' \in Nat /\ seal'.cut \in Nat /\ seal'.generation \in Nat
         /\ stored'.cut \in Nat /\ stored'.generation \in Nat /\ rival'.generation \in Nat
         /\ ingress_open' \in BOOLEAN /\ started' \in BOOLEAN /\ seal'.cut <= durable_batch'
    BY <1>0, <1>1, <1>2, <1>3 DEF Numbers
  <1> QED
    BY <1>8, <1>9, <1>11, <1>12, ScheduledKeeps

\* A fatal result of the WAL, of a preparation or of a publication.
FatalNext ==
    \/ \E reason \in {"Fenced", "Poisoned", "Contradiction"} :
         WalFailed(reason) \/ SealFailed(reason)
    \/ CheckpointContradicted

\* A machine that exits keeps its Seals, and at most drops its flight or marker.
LEMMA FatalNextKeeps ==
    ASSUME InductiveInvariant, FatalNext
    PROVE  InductiveInvariant'
  <1>1. /\ exit' # "none" /\ (panicked' <=> panicked)
        /\ UNCHANGED <<started, seal, durable_batch, next_batch, attempted_cut, ingress_open,
                       stored, rival, sent_seal>>
        /\ flight' = flight \/ flight' = NoFlight
        /\ checkpoint' = checkpoint \/ checkpoint' = NoCheckpoint
    BY DEF FatalNext, WalFailed, SealFailed, CheckpointContradicted, Terminate, store
  <1>2. NoPanic' /\ Numbers'
    BY <1>1 DEF InductiveInvariant, NoPanic, Numbers
  <1>3. Lineage'
    BY <1>1 DEF InductiveInvariant, Lineage, NoSeal
  <1>4. MarkerShape(checkpoint, seal, durable_batch)'
    BY <1>1 DEF InductiveInvariant, MarkerShape, Marker, NoCheckpoint
  <1>5. /\ seal'.cut <= durable_batch' /\ attempted_cut' <= durable_batch'
        /\ flight' # NoFlight' =>
             flight'.batch = durable_batch' + 1 /\ RunLeavesTakeoverRoom(seal.cut, flight.batch)'
    BY <1>1 DEF InductiveInvariant, NoFlight, RunLeavesTakeoverRoom, HasSuccessor, SpanThrough
  <1> QED
    BY <1>1, <1>2, <1>3, <1>4, <1>5
    DEF InductiveInvariant, BarrierHasWakeup, FullBarrierInFlight, DueCheckpointRuns

-----------------------------------------------------------------------------
(* The environment: it moves the store, never the machine. *)

EnvironmentNext ==
    \/ IntervalElapses
    \/ \E create \in sent_wal : WalLands(create)
    \/ SealLands
    \/ \E batch \in Batches : CollectRun(batch)
    \/ RivalClaims
    \/ RivalFences

\* A Seal create or a rival's claim moves the newest Seal as Lineage allows.
LEMMA SealsMove ==
    ASSUME InductiveInvariant, SealLands \/ RivalClaims
    PROVE  /\ Lineage'
           /\ stored'.cut \in Nat /\ stored'.generation \in Nat /\ rival'.generation \in Nat
  <1>0. /\ Numbers /\ Lineage
        /\ UNCHANGED <<seal, durable_batch, checkpoint, exit>>
    BY DEF InductiveInvariant, SealLands, RivalClaims, machine
  <1>1. CASE SealLands
    <2>1. /\ sent_seal # NoSeal /\ sent_seal' = NoSeal /\ UNCHANGED rival
          /\ stored' = IF stored.generation + 1 = sent_seal.generation THEN sent_seal ELSE stored
      BY <1>1 DEF SealLands
    <2>2. sent_seal' = NoSeal'
      BY <2>1 DEF NoSeal
    <2> QED
      BY <1>0, <2>1, <2>2 DEF Lineage, Overtaken, Publishing, Numbers
  <1>2. CASE RivalClaims
    <2>1. /\ rival.generation = 0 /\ rival'.generation = stored.generation + 1
          /\ stored'.generation = stored.generation + 1 /\ stored'.cut = stored.cut
          /\ UNCHANGED sent_seal
      BY <1>2 DEF RivalClaims, Seal
    <2> QED
      BY <1>0, <2>1 DEF Lineage, Overtaken, Publishing, Numbers, NoSeal
  <1> QED
    BY <1>1, <1>2

\* Time, the store and a rival keep the invariant.
LEMMA EnvironmentKeeps ==
    ASSUME InductiveInvariant, EnvironmentNext
    PROVE  InductiveInvariant'
  <1>1. UNCHANGED <<started, seal, base, admitted, durable, durable_batch, next_batch, pending,
                    flight, timer, checkpoint_attempt, attempted_cut, retry_at, checkpoint,
                    collector, ingress_open, exit, panicked>>
    BY DEF EnvironmentNext, IntervalElapses, WalLands, SealLands, CollectRun, RivalClaims,
           RivalFences, machine
  <1>2. /\ Lineage'
        /\ stored'.cut \in Nat /\ stored'.generation \in Nat /\ rival'.generation \in Nat
    <2>1. CASE SealLands \/ RivalClaims
      BY <2>1, SealsMove
    <2>2. CASE ~(SealLands \/ RivalClaims)
      <3>1. /\ UNCHANGED <<stored, sent_seal>> /\ rival'.generation = rival.generation
        BY <2>2 DEF EnvironmentNext, IntervalElapses, WalLands, CollectRun, RivalFences, store
      <3> QED
        BY <1>1, <3>1 DEF InductiveInvariant, Numbers, Lineage, Overtaken, Publishing, NoSeal
    <2> QED
      BY <2>1, <2>2
  <1>3. Numbers'
    BY <1>1, <1>2 DEF InductiveInvariant, Numbers
  <1>4. Settled => Settled'
    BY <1>1 DEF Settled, BarrierShape, IsSequence, HeadShape, RoomShape, ForestShape,
                AdmitAsserts, NoFlight, RunLeavesTakeoverRoom, HasSuccessor, SpanThrough
  <1>5. MarkerShape(checkpoint, seal, durable_batch)'
    BY <1>1 DEF InductiveInvariant, MarkerShape, Marker, NoCheckpoint
  <1>6. BarrierHasWakeup' /\ FullBarrierInFlight' /\ DueCheckpointRuns' /\ NoPanic'
    BY <1>1 DEF InductiveInvariant, BarrierHasWakeup, FullBarrierInFlight, DueCheckpointRuns,
                NoPanic, NoFlight, NoCheckpoint, HardFull, SpanThrough
  <1>7. flight' # NoFlight' =>
          flight'.batch = durable_batch' + 1 /\ RunLeavesTakeoverRoom(seal.cut, flight.batch)'
    BY <1>1 DEF InductiveInvariant, NoFlight, RunLeavesTakeoverRoom, HasSuccessor, SpanThrough
  <1> QED
    BY <1>1, <1>2, <1>3, <1>4, <1>5, <1>6, <1>7 DEF InductiveInvariant

-----------------------------------------------------------------------------
(* The theorems of delivery. *)

\* from_recovery builds a settled machine.
LEMMA InitEstablishes == Init => InductiveInvariant
  <1> SUFFICES ASSUME Init PROVE InductiveInvariant
    OBVIOUS
  <1>1. PICK head \in Batches :
          /\ seal = Seal(head + 1, 0, Empty) /\ durable_batch = head /\ next_batch = head + 1
    BY DEF Init
  <1>2. /\ started = FALSE /\ admitted = durable /\ pending = EmptyBarrier /\ flight = NoFlight
        /\ attempted_cut = 0 /\ checkpoint = NoCheckpoint /\ ingress_open = TRUE
        /\ exit = "none" /\ panicked = FALSE /\ stored = seal
        /\ rival = [generation |-> 0, fence |-> 0] /\ sent_seal = NoSeal
    BY DEF Init
  <1>3. /\ head \in Nat /\ seal.cut = 0 /\ seal.generation = head + 1
    BY <1>1, SuffixAssumption DEF Batches, Seal
  <1>4. Numbers /\ seal.cut <= durable_batch /\ attempted_cut <= durable_batch
    <2>1. ingress_open \in BOOLEAN /\ started \in BOOLEAN
      BY <1>2
    <2>2. /\ durable_batch \in Nat /\ next_batch \in Nat /\ attempted_cut = 0
          /\ stored.cut = 0 /\ stored.generation \in Nat /\ rival.generation = 0
      BY <1>1, <1>2, <1>3
    <2> QED
      BY <1>3, <2>1, <2>2 DEF Numbers
  <1>5. Lineage
    BY <1>1, <1>2, <1>3 DEF Lineage, Publishing, NoCheckpoint
  <1>6. Settled
    BY <1>1, <1>2, EmptyBarrierShape
    DEF Settled, HeadShape, RoomShape, ForestShape, AdmitAsserts, EmptyBarrier
  <1>7. BarrierHasWakeup /\ FullBarrierInFlight /\ DueCheckpointRuns
    BY <1>2, EmptyBarrierShape DEF BarrierHasWakeup, FullBarrierInFlight, DueCheckpointRuns,
                                   EmptyBarrier
  <1> QED
    BY <1>2, <1>4, <1>5, <1>6, <1>7 DEF InductiveInvariant, NoPanic, MarkerShape

\* Every step keeps the invariant.
LEMMA NextKeeps == InductiveInvariant /\ [Next]_vars => InductiveInvariant'
  <1> SUFFICES ASSUME InductiveInvariant, [Next]_vars PROVE InductiveInvariant'
    OBVIOUS
  <1>1. CASE \E cmd \in Commands : Command(cmd)
    BY <1>1, CommandKeeps
  <1>2. CASE QuietNext
    <2>1. exit = "none"
      BY <1>2 DEF QuietNext, Started, FlushDue, IngressClosed, CheckpointDropped,
                  CollectFinished, Running
    <2> QED
      BY <1>2, <2>1, QuietNextKeeps
  <1>3. CASE WalDurable
    BY <1>3, WalDurableKeeps
  <1>4. CASE CheckpointPrepared
    BY <1>4, CheckpointPreparedKeeps
  <1>5. CASE SealAuthored
    BY <1>5, SealAuthoredKeeps
  <1>6. CASE FatalNext
    BY <1>6, FatalNextKeeps
  <1>7. CASE EnvironmentNext
    BY <1>7, EnvironmentKeeps
  <1>8. CASE UNCHANGED vars
    <2>1. /\ UNCHANGED <<started, seal, base, admitted, durable, durable_batch, next_batch,
                         pending, flight, timer, attempted_cut, retry_at, checkpoint,
                         ingress_open, exit, panicked>>
          /\ UNCHANGED <<stored, rival, sent_seal>>
      BY <1>8 DEF vars, machine, store
    <2>2. Numbers' /\ Lineage' /\ MarkerShape(checkpoint, seal, durable_batch)'
      BY <2>1 DEF InductiveInvariant, Numbers, Lineage, Overtaken, Publishing, NoSeal,
                  MarkerShape, Marker, NoCheckpoint
    <2>3. Settled => Settled'
      BY <2>1 DEF Settled, BarrierShape, IsSequence, HeadShape, RoomShape, ForestShape,
                  AdmitAsserts, NoFlight, RunLeavesTakeoverRoom, HasSuccessor, SpanThrough
    <2>4. /\ BarrierHasWakeup' /\ FullBarrierInFlight' /\ DueCheckpointRuns' /\ NoPanic'
          /\ flight' # NoFlight' =>
               /\ flight'.batch = durable_batch' + 1
               /\ RunLeavesTakeoverRoom(seal.cut, flight.batch)'
      BY <2>1 DEF InductiveInvariant, BarrierHasWakeup, FullBarrierInFlight,
                  DueCheckpointRuns, NoPanic, NoFlight, NoCheckpoint, HardFull, SpanThrough,
                  RunLeavesTakeoverRoom, HasSuccessor
    <2> QED
      BY <2>1, <2>2, <2>3, <2>4 DEF InductiveInvariant
  <1> QED
    BY <1>1, <1>2, <1>3, <1>4, <1>5, <1>6, <1>7, <1>8
    DEF Next, QuietNext, FatalNext, EnvironmentNext, WalEstablished, PreparationEnds,
        SealPublished

\* The inductive invariant: between two events the machine is settled, its
\* checkpoint marker names the installed Seal, and the newest Seal in the store
\* descends from it (WriterMachine and every event of apply_event).
THEOREM WriterInvariant == Spec => []InductiveInvariant
  BY InitEstablishes, NextKeeps, PTL DEF Spec

\* No assertion, expect or panic of WriterMachine::handle is reachable, for any
\* bounds and any interleaving of its events with the store and a rival.
THEOREM WriterNeverPanics == Spec => []NoPanic
  <1>1. InductiveInvariant => NoPanic
    BY DEF InductiveInvariant
  <1> QED
    BY <1>1, WriterInvariant, PTL

\* schedule never loses the wakeup of a waiting barrier.
THEOREM BarrierAlwaysHasWakeup == Spec => []BarrierHasWakeup
  <1>1. InductiveInvariant => BarrierHasWakeup
    BY DEF InductiveInvariant
  <1> QED
    BY <1>1, WriterInvariant, PTL

\* The gate of admission_open closes on a full barrier only behind a flight.
THEOREM FullBarrierAlwaysInFlight == Spec => []FullBarrierInFlight
  <1>1. InductiveInvariant => FullBarrierInFlight
    BY DEF InductiveInvariant
  <1> QED
    BY <1>1, WriterInvariant, PTL

\* take_checkpoint never leaves a due checkpoint unscheduled.
THEOREM DueCheckpointAlwaysRuns == Spec => []DueCheckpointRuns
  <1>1. InductiveInvariant => DueCheckpointRuns
    BY DEF InductiveInvariant
  <1> QED
    BY <1>1, WriterInvariant, PTL

\* What run_leaves_takeover_room admitted against the installed Seal still
\* leaves a takeover FENCE inside the bound of whatever Seal is the newest in
\* the store while the RUN is in flight, and after the writer has died.
THEOREM RunAlwaysLeavesRoom == Spec => []RunLeavesRoom
  <1>1. InductiveInvariant => RunLeavesRoom
    BY SuffixAssumption
    DEF InductiveInvariant, RunLeavesRoom, Lineage, Numbers, RunLeavesTakeoverRoom,
        BoundTakeoverFence, HasSuccessor, SpanThrough
  <1> QED
    BY <1>1, WriterInvariant, PTL

-----------------------------------------------------------------------------
(* The types of the machine for every bound, next to the invariant of its  *)
(* scheduling.  The part that is not about types alone: the trees of the   *)
(* installed Seal hold exactly the forest the next delta is taken against, *)
(* so that every Seal in the store holds a forest that a bootstrap         *)
(* accepts.                                                                *)

Timers == {"off", "current", "stale"}
Exits == {"none", "Shutdown", "Fenced", "Poisoned", "Contradiction"}

BarrierType(b) == b.facts \in 0 .. RunFactsMax /\ Len(b.commands) <= PendingMax
FlightType(f) == f # NoFlight => f.batch \in Batches /\ WellFormed(f.forest)
TicketType(c, from) == c # NoCheckpoint => c.ticket.base = from /\ WellFormed(c.ticket.snapshot)

Types ==
    /\ WellFormed(admitted) /\ WellFormed(durable) /\ WellFormed(base)
    /\ seal.content = base
    /\ durable_batch \in Batches /\ next_batch \in Batches
    /\ BarrierType(pending)
    /\ FlightType(flight)
    /\ TicketType(checkpoint, base)
    /\ timer \in Timers /\ elapsed \in BOOLEAN
    /\ retry_at \in Cuts
    /\ exit \in Exits
    /\ WellFormed(view) /\ WellFormed(stored.content)
    /\ sent_seal # NoSeal => WellFormed(sent_seal.content)

\* What Schedule needs of the event that calls it.
TypesReady(b, f, t, c, r) ==
    /\ BarrierType(b)
    /\ b.facts > 0 => HasSuccessor(next_batch)
    /\ FlightType(f)
    /\ TicketType(c, base')
    /\ t \in Timers
    /\ r \in Cuts

\* WellFormed has no state of its own.
LEMMA WellFormedNext ==
    ASSUME NEW STATE forest, WellFormed(forest')
    PROVE  WellFormed(forest)'
  BY DEF WellFormed, TryFrom, Distinct, DenseUids, LiveIffRecord, PathCount, Occupied, IsLive,
         Forests, Entries, Records, Uids

\* Schedule assigns values of the right types.
LEMMA ScheduleTypes ==
    ASSUME NEW STATE b, NEW STATE f, NEW STATE t, NEW STATE c, NEW STATE r, NEW STATE outputs,
           NEW STATE effects, NEW STATE replies, NEW ACTION ok,
           Types, exit = "none", TypesReady(b, f, t, c, r),
           WellFormed(admitted'), WellFormed(durable'), durable_batch' \in Batches,
           Schedule(b, f, t, c, r, outputs, effects, replies, ok)
    PROVE  /\ BarrierType(pending)' /\ FlightType(flight)' /\ TicketType(checkpoint, base)'
           /\ next_batch' \in Batches /\ timer' \in Timers /\ elapsed' \in BOOLEAN
           /\ retry_at' \in Cuts /\ exit' \in Exits
  <1>0. /\ DrainPending(b, f, t, replies) /\ TakeCheckpoint(c, r)
        /\ exit' = IF ShutsDown(pending', flight', checkpoint') THEN "Shutdown" ELSE exit
    BY DEF Schedule
  <1>1. /\ next_batch \in Batches /\ elapsed \in BOOLEAN
        /\ BarrierType(b) /\ FlightType(f) /\ TicketType(c, base') /\ t \in Timers /\ r \in Cuts
        /\ b.facts > 0 => HasSuccessor(next_batch)
    BY DEF Types, TypesReady
  <1>2. exit' \in Exits
    BY <1>0 DEF Exits
  <1>3. TicketType(checkpoint, base)' /\ retry_at' \in Cuts
    <2>1. CASE CheckpointDue(c, r)
      <3>1. /\ checkpoint'.ticket.base = base' /\ checkpoint'.ticket.snapshot = durable'
            /\ retry_at' = 0
        BY <1>0, <2>1 DEF TakeCheckpoint, Marker
      <3>2. 0 \in Cuts
        BY SuffixAssumption DEF Cuts
      <3> QED
        BY <3>1, <3>2, WellFormedNext DEF TicketType
    <2>2. CASE ~CheckpointDue(c, r)
      BY <1>0, <1>1, <2>2 DEF TakeCheckpoint, TicketType
    <2> QED
      BY <2>1, <2>2
  <1>4. CASE DrainsNow(b, f)
    <2>1. /\ pending' = EmptyBarrier
          /\ \/ flight' = f /\ next_batch' = next_batch /\ elapsed' = elapsed /\ timer' = t
             \/ /\ b.facts # 0 /\ next_batch' = next_batch + 1 /\ elapsed' = FALSE
                /\ timer' \in {t, "stale"}
                /\ flight'.batch = next_batch /\ flight'.forest = admitted'
      BY <1>0, <1>4 DEF DrainPending
    <2>2. BarrierType(pending)'
      BY <2>1, WriterAssumption DEF BarrierType, EmptyBarrier
    <2>3. elapsed' \in BOOLEAN
      BY <1>1, <2>1
    <2>4. next_batch' \in Batches /\ timer' \in Timers
      BY <1>1, <2>1, SuffixAssumption, WriterAssumption
      DEF BarrierType, Batches, HasSuccessor, Timers
    <2>5. FlightType(flight)'
      BY <1>1, <2>1, WellFormedNext DEF FlightType, NoFlight, Batches
    <2> QED
      BY <1>2, <1>3, <2>2, <2>3, <2>4, <2>5
  <1>5. CASE ~DrainsNow(b, f)
    <2>1. /\ pending' = b /\ flight' = f /\ next_batch' = next_batch /\ elapsed' = elapsed
          /\ timer' = t \/ timer' = "current"
      BY <1>0, <1>5 DEF DrainPending
    <2> QED
      BY <1>1, <1>2, <1>3, <2>1 DEF BarrierType, FlightType, Timers
  <1> QED
    BY <1>4, <1>5
\* The types after an event that has settled its own assignments.
LEMMA TypesNext ==
    ASSUME NEW STATE b, NEW STATE f, NEW STATE t, NEW STATE c, NEW STATE r, NEW STATE outputs,
           NEW STATE effects, NEW STATE replies, NEW ACTION ok,
           Types, exit = "none", TypesReady(b, f, t, c, r),
           Schedule(b, f, t, c, r, outputs, effects, replies, ok),
           WellFormed(admitted'), WellFormed(durable'), WellFormed(base'),
           seal'.content = base', durable_batch' \in Batches,
           WellFormed(view'), WellFormed(stored'.content),
           sent_seal' # NoSeal => WellFormed(sent_seal'.content)
    PROVE  Types'
  <1>1. /\ BarrierType(pending)' /\ FlightType(flight)' /\ TicketType(checkpoint, base)'
        /\ next_batch' \in Batches /\ timer' \in Timers /\ elapsed' \in BOOLEAN
        /\ retry_at' \in Cuts /\ exit' \in Exits
    BY ScheduleTypes
  <1>2. /\ WellFormed(admitted)' /\ WellFormed(durable)' /\ WellFormed(base)'
        /\ WellFormed(view)' /\ WellFormed(stored.content)'
    BY WellFormedNext
  <1>3. sent_seal' # NoSeal' => WellFormed(sent_seal.content)'
    BY WellFormedNext DEF NoSeal
  <1> QED
    BY <1>1, <1>2, <1>3 DEF Types, Timers, Exits, Cuts, Batches

\* An event that touches neither the Seals nor the durable head.
LEMMA QuietTypes ==
    ASSUME NEW STATE b, NEW STATE t, NEW STATE c, NEW STATE r, NEW STATE outputs,
           NEW STATE effects, NEW STATE replies, NEW ACTION ok,
           Types, exit = "none", TypesReady(b, flight, t, c, r), WellFormed(admitted'),
           UNCHANGED <<seal, base, durable, durable_batch, view, stored>>,
           sent_seal' # NoSeal => WellFormed(sent_seal'.content),
           Schedule(b, flight, t, c, r, outputs, effects, replies, ok)
    PROVE  Types'
  <1>1. /\ WellFormed(durable') /\ WellFormed(base') /\ seal'.content = base'
        /\ durable_batch' \in Batches /\ WellFormed(view') /\ WellFormed(stored'.content)
    BY DEF Types
  <1> QED
    BY <1>1, TypesNext

\* Whatever an event leaves alone is ready for Schedule.
LEMMA PendingReady ==
    ASSUME InductiveInvariant, Types, exit = "none", UNCHANGED base
    PROVE  TypesReady(pending, flight, timer, checkpoint, retry_at)
  BY DEF InductiveInvariant, Settled, RoomShape, RunLeavesTakeoverRoom, Types, TypesReady,
         TicketType

\* A command leaves typed barriers behind, and an admitted forest that folds.
LEMMA CommandTypes ==
    ASSUME InductiveInvariant, Types, NEW cmd \in Commands, Command(cmd)
    PROVE  Types'
  <1>0. /\ exit = "none" /\ ~HardFull(pending)
        /\ UNCHANGED <<seal, base, durable, durable_batch, view, stored>> /\ UNCHANGED sent_seal
    BY DEF Command, AcceptFact, ShedFact, AnswerIdempotent, QueueIdempotent, Refuse,
           TakesCommand, Running, AdmissionOpen
  <1>1. /\ TypesReady(pending, flight, timer, checkpoint, retry_at)
        /\ WellFormed(admitted) /\ BarrierShape(pending)
        /\ sent_seal' # NoSeal => WellFormed(sent_seal'.content)
        /\ next_batch \in Batches /\ durable_batch \in Batches
    BY <1>0, PendingReady DEF Types, InductiveInvariant, Settled
  <1>2. /\ IsSequence(pending.commands) /\ pending.facts \in Nat
        /\ Len(pending.commands) <= PendingMax
    BY <1>1 DEF BarrierShape
  <1>3. CASE AcceptFact(cmd)
    <2> DEFINE decision == Decide(admitted, cmd)
               barrier  == PushFact(pending, submitted + 1, decision)
               ok == /\ AdmitAsserts
                     /\ FoldResult(admitted, decision.fact) = "ok"
                     /\ barrier.facts <= RunFactsMax
                     /\ Len(barrier.commands) <= PendingMax
    <2>1. /\ decision.kind = "fact" /\ RunLeavesTakeoverRoom(seal.cut, next_batch)
          /\ admitted' = StrictFold(admitted, next_batch, decision.fact)
          /\ Schedule(barrier, flight, timer, checkpoint, retry_at, 0, 0, <<>>, ok)
      BY <1>3 DEF AcceptFact
    <2>2. next_batch \in Nat /\ decision.fact \in Facts
      BY <1>1, <2>1, DecidedFactType, SuffixAssumption DEF Batches
    <2>3. WellFormed(admitted')
      BY <1>1, <2>1, <2>2, FoldKeeps
    <2>4. /\ Len(pending.commands) \in Nat
          /\ Len(barrier.commands) = Len(pending.commands) + 1
          /\ barrier.facts = pending.facts + 1
      BY <1>2, AppendShape DEF PushFact
    <2>5. BarrierType(barrier)
      BY <1>0, <1>2, <2>4, WriterAssumption DEF HardFull, BarrierType
    <2> HIDE DEF barrier, ok, decision
    <2>6. TypesReady(barrier, flight, timer, checkpoint, retry_at)
      BY <1>1, <2>1, <2>5 DEF TypesReady, RunLeavesTakeoverRoom
    <2> QED
      BY <1>0, <1>1, <2>1, <2>3, <2>6, QuietTypes
  <1>4. CASE QueueIdempotent(cmd)
    <2> DEFINE decision == Decide(admitted, cmd)
               barrier  == PushIdempotent(pending, submitted + 1, decision)
               ok == AdmitAsserts /\ Len(barrier.commands) <= PendingMax
    <2>1. /\ UNCHANGED admitted
          /\ Schedule(barrier, flight, timer, checkpoint, retry_at, 0, 0, <<>>, ok)
      BY <1>4 DEF QueueIdempotent
    <2>2. /\ Len(pending.commands) \in Nat
          /\ Len(barrier.commands) = Len(pending.commands) + 1
          /\ barrier.facts = pending.facts
      BY <1>2, AppendShape DEF PushIdempotent
    <2>3. TypesReady(barrier, flight, timer, checkpoint, retry_at)
      BY <1>0, <1>1, <1>2, <2>2, WriterAssumption DEF TypesReady, HardFull, BarrierType
    <2> HIDE DEF barrier, ok, decision
    <2>4. WellFormed(admitted')
      BY <1>1, <2>1
    <2> QED
      BY <1>0, <1>1, <2>1, <2>3, <2>4, QuietTypes
  <1>5. CASE ShedFact(cmd)
    <2>1. /\ UNCHANGED admitted
          /\ Schedule(pending, flight, timer, checkpoint, durable_batch, 1, 0, <<>>, AdmitAsserts)
      BY <1>5 DEF ShedFact
    <2>2. TypesReady(pending, flight, timer, checkpoint, durable_batch)
      BY <1>1, SuffixAssumption DEF TypesReady, Batches, Cuts
    <2>3. WellFormed(admitted')
      BY <1>1, <2>1
    <2> QED
      BY <1>0, <1>1, <2>1, <2>2, <2>3, QuietTypes
  <1>6. CASE AnswerIdempotent(cmd)
    <2> DEFINE reply == <<[id |-> submitted + 1, promise |-> Decide(admitted, cmd).promise]>>
    <2>1. /\ UNCHANGED admitted
          /\ Schedule(pending, flight, timer, checkpoint, retry_at, 1, 0, reply, AdmitAsserts)
      BY <1>6 DEF AnswerIdempotent
    <2> HIDE DEF reply
    <2>2. WellFormed(admitted')
      BY <1>1, <2>1
    <2> QED
      BY <1>0, <1>1, <2>1, <2>2, QuietTypes
  <1>7. CASE Refuse(cmd)
    <2>1. /\ UNCHANGED admitted
          /\ Schedule(pending, flight, timer, checkpoint, retry_at, 1, 0, <<>>, AdmitAsserts)
      BY <1>7 DEF Refuse
    <2>2. WellFormed(admitted')
      BY <1>1, <2>1
    <2> QED
      BY <1>0, <1>1, <2>1, <2>2, QuietTypes
  <1> QED
    BY <1>3, <1>4, <1>5, <1>6, <1>7 DEF Command

\* The Seal a checkpoint sends holds exactly its snapshot.
LEMMA CandidateHoldsSnapshot ==
    ASSUME InductiveInvariant, Types, checkpoint.state # "none"
    PROVE  /\ Candidate(checkpoint.ticket).content = checkpoint.ticket.snapshot
           /\ WellFormed(checkpoint.ticket.snapshot)
  <1> DEFINE ticket == checkpoint.ticket
  <1>1. checkpoint # NoCheckpoint
    BY DEF NoCheckpoint
  <1>2. ticket.source = seal /\ ticket.base = base /\ seal.content = base
        /\ WellFormed(base) /\ WellFormed(ticket.snapshot)
    BY <1>1 DEF InductiveInvariant, MarkerShape, Types, TicketType
  <1>3. MergeRows(base, DeltaSince(base, ticket.snapshot)) = ticket.snapshot
    BY <1>2, DeltaRestores DEF WellFormed
  <1> QED
    BY <1>2, <1>3 DEF Candidate, Seal

\* The events of the checkpoint, the timer and the flight.
LEMMA EventTypes ==
    ASSUME InductiveInvariant, Types, exit = "none",
           QuietNext \/ WalDurable \/ CheckpointPrepared \/ SealAuthored
    PROVE  Types'
  <1>1. ASSUME UNCHANGED <<seal, base, durable, durable_batch, view, stored>>, UNCHANGED admitted
        PROVE  /\ TypesReady(pending, flight, timer, checkpoint, retry_at)
               /\ WellFormed(admitted')
               /\ UNCHANGED sent_seal => (sent_seal' # NoSeal => WellFormed(sent_seal'.content))
    BY <1>1, PendingReady DEF Types
  <1>2. CASE Started
    <2>1. /\ UNCHANGED <<seal, base, durable, durable_batch, view, stored>> /\ UNCHANGED admitted
          /\ UNCHANGED sent_seal
          /\ Schedule(pending, flight, timer, checkpoint, retry_at, 0, 0, <<>>, TRUE)
      BY <1>2 DEF Started
    <2> QED
      BY <1>1, <2>1, QuietTypes
  <1>3. CASE FlushDue
    <2>1. /\ UNCHANGED <<seal, base, durable, durable_batch, view, stored>> /\ UNCHANGED admitted
          /\ UNCHANGED sent_seal
          /\ Schedule(pending, flight, "off", checkpoint, retry_at, 0, 0, <<>>, TRUE)
      BY <1>3 DEF FlushDue
    <2>2. TypesReady(pending, flight, "off", checkpoint, retry_at)
      BY <1>1, <2>1 DEF TypesReady, Timers
    <2> QED
      BY <1>1, <2>1, <2>2, QuietTypes
  <1>4. CASE IngressClosed
    <2> DEFINE cancels == checkpoint.state = "preparing"
               marker  == IF cancels THEN Marker("cancelling", checkpoint.ticket)
                          ELSE checkpoint
               outputs == IF cancels THEN 1 ELSE 0
    <2>1. /\ UNCHANGED <<seal, base, durable, durable_batch, view, stored>> /\ UNCHANGED admitted
          /\ UNCHANGED sent_seal
          /\ Schedule(pending, flight, timer, marker, retry_at, outputs, 0, <<>>, TRUE)
      BY <1>4 DEF IngressClosed
    <2>2. TypesReady(pending, flight, timer, marker, retry_at)
      BY <1>1, <2>1 DEF TypesReady, TicketType, Marker, NoCheckpoint
    <2> HIDE DEF marker, outputs
    <2> QED
      BY <1>1, <2>1, <2>2, QuietTypes
  <1>5. CASE CheckpointDropped
    <2>1. /\ UNCHANGED <<seal, base, durable, durable_batch, view, stored>> /\ UNCHANGED admitted
          /\ UNCHANGED sent_seal
          /\ Schedule(pending, flight, timer, NoCheckpoint, retry_at, 0, 0, <<>>, TRUE)
      BY <1>5 DEF CheckpointDropped
    <2>2. TypesReady(pending, flight, timer, NoCheckpoint, retry_at)
      BY <1>1, <2>1 DEF TypesReady, TicketType
    <2> QED
      BY <1>1, <2>1, <2>2, QuietTypes
  <1>6. CASE CollectFinished
    <2>1. /\ UNCHANGED <<seal, base, durable, durable_batch, view, stored>> /\ UNCHANGED admitted
          /\ UNCHANGED sent_seal
          /\ Schedule(pending, flight, timer, checkpoint, retry_at, 0, 0, <<>>, TRUE)
      BY <1>6 DEF CollectFinished
    <2> QED
      BY <1>1, <2>1, QuietTypes
  <1>7. CASE CheckpointPrepared
    <2> DEFINE marker == Marker("publishing", checkpoint.ticket)
    <2>1. /\ UNCHANGED <<seal, base, durable, durable_batch, view, stored>> /\ UNCHANGED admitted
          /\ checkpoint.state = "preparing" /\ sent_seal' = Candidate(checkpoint.ticket)
          /\ Schedule(pending, flight, timer, marker, retry_at, 1, 1, <<>>, TRUE)
      BY <1>7 DEF CheckpointPrepared
    <2>2. TypesReady(pending, flight, timer, marker, retry_at)
      BY <1>1, <2>1 DEF TypesReady, TicketType, Marker, NoCheckpoint
    <2>3. sent_seal' # NoSeal => WellFormed(sent_seal'.content)
      BY <2>1, CandidateHoldsSnapshot
    <2> HIDE DEF marker
    <2> QED
      BY <1>1, <2>1, <2>2, <2>3, QuietTypes
  <1>8. CASE WalDurable
    <2> DEFINE ok == pending.commands = <<>> => admitted = durable'
    <2>1. /\ flight # NoFlight /\ durable' = flight.forest /\ durable_batch' = flight.batch
          /\ view' = durable' /\ UNCHANGED <<seal, base, admitted, stored, sent_seal>>
          /\ Schedule(pending, NoFlight, timer, checkpoint, retry_at, 2, 0, flight.replies, ok)
      BY <1>8 DEF WalDurable, PublishedForest
    <2>2. TypesReady(pending, flight, timer, checkpoint, retry_at)
      BY <2>1, PendingReady
    <2>3. TypesReady(pending, NoFlight, timer, checkpoint, retry_at)
      BY <2>2 DEF TypesReady, FlightType
    <2>4. /\ WellFormed(admitted') /\ WellFormed(durable') /\ WellFormed(base')
          /\ seal'.content = base' /\ durable_batch' \in Batches
          /\ WellFormed(view') /\ WellFormed(stored'.content)
          /\ sent_seal' # NoSeal => WellFormed(sent_seal'.content)
      BY <2>1 DEF Types, FlightType
    <2> HIDE DEF ok
    <2> QED
      BY <2>1, <2>3, <2>4, TypesNext
  <1>9. CASE SealAuthored
    <2> DEFINE ticket   == checkpoint.ticket
               collects == ingress_open /\ collector = None
               outputs  == IF collects THEN 2 ELSE 1
               effects  == IF collects THEN 1 ELSE 0
               ok       == seal = ticket.source
    <2>1. /\ checkpoint.state = "publishing" /\ seal' = Candidate(ticket)
          /\ base' = ticket.snapshot /\ view' = durable
          /\ UNCHANGED <<admitted, durable, durable_batch, stored, sent_seal>>
          /\ Schedule(pending, flight, timer, NoCheckpoint, retry_at, outputs, effects, <<>>, ok)
      BY <1>9 DEF SealAuthored, InstalledBase
    <2>2. seal'.content = base' /\ WellFormed(base')
      BY <2>1, CandidateHoldsSnapshot
    <2>3. TypesReady(pending, flight, timer, NoCheckpoint, retry_at)
      BY DEF InductiveInvariant, Settled, RoomShape, RunLeavesTakeoverRoom, Types, TypesReady,
             TicketType
    <2>4. /\ WellFormed(admitted') /\ WellFormed(durable') /\ durable_batch' \in Batches
          /\ WellFormed(view') /\ WellFormed(stored'.content)
          /\ sent_seal' # NoSeal => WellFormed(sent_seal'.content)
      BY <2>1 DEF Types
    <2> HIDE DEF ok, outputs, effects
    <2> QED
      BY <2>1, <2>2, <2>3, <2>4, TypesNext
  <1> QED
    BY <1>2, <1>3, <1>4, <1>5, <1>6, <1>7, <1>8, <1>9 DEF QuietNext

\* A step that assigns none of the machine's typed state but the marker, the
\* flight, the exit and the interval.
LEMMA OtherTypes ==
    ASSUME InductiveInvariant, Types, FatalNext \/ EnvironmentNext \/ UNCHANGED vars
    PROVE  Types'
  <1>1. /\ UNCHANGED <<seal, base, admitted, durable, durable_batch, next_batch, pending, timer,
                       retry_at, view>>
        /\ elapsed' \in {elapsed, TRUE} /\ exit' \in Exits
        /\ flight' \in {flight, NoFlight} /\ checkpoint' \in {checkpoint, NoCheckpoint}
        /\ sent_seal' \in {sent_seal, NoSeal}
        /\ \/ stored' = stored
           \/ stored' = sent_seal /\ sent_seal # NoSeal
           \/ stored'.content = stored.content
    <2>1. CASE FatalNext
      BY <2>1 DEF FatalNext, WalFailed, SealFailed, CheckpointContradicted, Terminate, Exits,
                  store, clients
    <2>2. CASE EnvironmentNext
      <3>1. exit' = exit /\ exit \in Exits
        BY <2>2 DEF EnvironmentNext, IntervalElapses, WalLands, SealLands, CollectRun,
                    RivalClaims, RivalFences, machine, Types
      <3>2. elapsed' \in {elapsed, TRUE}
        BY <2>2 DEF EnvironmentNext, IntervalElapses, WalLands, SealLands, CollectRun,
                    RivalClaims, RivalFences, machine
      <3>3. UNCHANGED <<seal, base, admitted, durable, durable_batch, next_batch, pending, timer,
                        retry_at, view, flight, checkpoint>>
        BY <2>2 DEF EnvironmentNext, IntervalElapses, WalLands, SealLands, CollectRun,
                    RivalClaims, RivalFences, machine, clients
      <3>4. /\ sent_seal' \in {sent_seal, NoSeal}
            /\ \/ stored' = stored
               \/ stored' = sent_seal /\ sent_seal # NoSeal
               \/ stored'.content = stored.content
        BY <2>2 DEF EnvironmentNext, IntervalElapses, WalLands, SealLands, CollectRun,
                    RivalClaims, RivalFences, store, Seal
      <3> QED
        BY <3>1, <3>2, <3>3, <3>4
    <2>3. CASE UNCHANGED vars
      BY <2>3 DEF vars, machine, store, clients, Types
    <2> QED
      BY <2>1, <2>2, <2>3
  <1>2. /\ WellFormed(admitted') /\ WellFormed(durable') /\ WellFormed(base') /\ WellFormed(view')
        /\ WellFormed(stored'.content)
        /\ sent_seal' # NoSeal => WellFormed(sent_seal'.content)
    BY <1>1 DEF Types
  <1>3. /\ WellFormed(admitted)' /\ WellFormed(durable)' /\ WellFormed(base)'
        /\ WellFormed(view)' /\ WellFormed(stored.content)'
    BY <1>2, WellFormedNext
  <1>4. sent_seal' # NoSeal' => WellFormed(sent_seal.content)'
    BY <1>2, WellFormedNext DEF NoSeal
  <1>5. FlightType(flight)'
    <2>1. flight' # NoFlight => flight'.batch \in Batches /\ WellFormed(flight'.forest)
      BY <1>1 DEF Types, FlightType
    <2> QED
      BY <2>1, WellFormedNext DEF FlightType, NoFlight, Batches
  <1>6. TicketType(checkpoint, base)'
    <2>1. checkpoint' # NoCheckpoint =>
            checkpoint'.ticket.base = base' /\ WellFormed(checkpoint'.ticket.snapshot)
      BY <1>1 DEF Types, TicketType
    <2> QED
      BY <2>1, WellFormedNext DEF TicketType, NoCheckpoint
  <1>7. elapsed' \in BOOLEAN
    BY <1>1 DEF Types
  <1>8. /\ BarrierType(pending)' /\ (seal.content = base)' /\ timer' \in Timers
        /\ retry_at' \in Cuts /\ durable_batch' \in Batches /\ next_batch' \in Batches
    BY <1>1 DEF Types, BarrierType
  <1> QED
    BY <1>1, <1>3, <1>4, <1>5, <1>6, <1>7, <1>8 DEF Types, Timers, Exits, Cuts, Batches

\* A fresh or recovered writer is typed.
LEMMA InitTypes == Init => Types
  <1> SUFFICES ASSUME Init PROVE Types
    OBVIOUS
  <1>1. PICK head \in Batches :
          /\ BoundTakeoverFence(0, head) = "Bounded"
          /\ seal = Seal(head + 1, 0, Empty) /\ durable_batch = head /\ next_batch = head + 1
    BY DEF Init
  <1>2. /\ admitted = Empty /\ durable = Empty /\ base = Empty /\ view = Empty
        /\ pending = EmptyBarrier /\ flight = NoFlight /\ checkpoint = NoCheckpoint
        /\ timer = "off" /\ retry_at = 0 /\ exit = "none" /\ stored = seal
        /\ sent_seal = NoSeal
    BY DEF Init
  <1>3. elapsed \in BOOLEAN
    BY DEF Init
  <1>4. durable_batch \in Batches /\ next_batch \in Batches
    BY <1>1, SuffixAssumption DEF BoundTakeoverFence, HasSuccessor, Batches
  <1>5. seal.content = Empty
    BY <1>1 DEF Seal
  <1>6. BarrierType(pending) /\ retry_at \in Cuts
    BY <1>2, WriterAssumption, SuffixAssumption DEF BarrierType, EmptyBarrier, Cuts
  <1> QED
    BY <1>2, <1>3, <1>4, <1>5, <1>6, EmptyWellFormed
    DEF Types, FlightType, TicketType, Timers, Exits

\* Every step keeps the types.
LEMMA NextTypes == InductiveInvariant /\ Types /\ [Next]_vars => Types'
  <1> SUFFICES ASSUME InductiveInvariant, Types, [Next]_vars PROVE Types'
    OBVIOUS
  <1>1. CASE \E cmd \in Commands : Command(cmd)
    BY <1>1, CommandTypes
  <1>2. CASE QuietNext \/ WalDurable \/ CheckpointPrepared \/ SealAuthored
    <2>1. exit = "none"
      BY <1>2 DEF QuietNext, Started, FlushDue, IngressClosed, CheckpointDropped,
                  CollectFinished, WalDurable, CheckpointPrepared, SealAuthored, Running
    <2> QED
      BY <1>2, <2>1, EventTypes
  <1>3. CASE FatalNext \/ EnvironmentNext \/ UNCHANGED vars
    BY <1>3, OtherTypes
  <1> QED
    BY <1>1, <1>2, <1>3
    DEF Next, QuietNext, FatalNext, EnvironmentNext, WalEstablished, PreparationEnds,
        SealPublished

\* Every coordinate, forest, barrier and marker of WriterMachine keeps its type,
\* and no coordinate runs past the end of its space.
THEOREM WriterTypeCorrect == Spec => []TypeOK
  <1>1. Spec => []Types
    BY WriterInvariant, InitTypes, NextTypes, PTL DEF Spec
  <1>2. InductiveInvariant /\ Types => TypeOK
    <2> SUFFICES ASSUME InductiveInvariant, Types PROVE TypeOK
      OBVIOUS
    <2>1. {admitted, durable, base, view, stored.content, seal.content} \subseteq Forests
      BY DEF Types, WellFormed
    <2>2. /\ durable_batch \in Batches /\ next_batch \in Batches
          /\ seal.cut \in Cuts /\ stored.cut \in Cuts /\ attempted_cut \in Cuts
      BY SuffixAssumption DEF Types, InductiveInvariant, Numbers, Lineage, Batches, Cuts
    <2>3. flight # NoFlight => flight.batch \in Batches /\ flight.forest \in Forests
      BY DEF Types, FlightType, WellFormed
    <2>4. checkpoint.state \in {"none", "preparing", "cancelling", "publishing"}
      BY DEF InductiveInvariant, MarkerShape, NoCheckpoint
    <2> QED
      BY <2>1, <2>2, <2>3, <2>4 DEF TypeOK, Types, BarrierType, Timers, Exits
  <1> QED
    BY <1>1, <1>2, WriterInvariant, PTL

\* Every Seal in the store, at any moment and whoever claims it, holds a forest
\* that a bootstrap accepts: Forest::try_from never rejects what delta_since and
\* the merge of the runs have put together, so no crash leaves a partition that
\* cannot be opened.
SealsHoldForests == TryFrom(stored.content) /\ (sent_seal # NoSeal => TryFrom(sent_seal.content))

\* The checkpoint path from take_checkpoint to the stored Seal keeps that.
THEOREM SealsAlwaysHoldForests == Spec => []SealsHoldForests
  <1>1. Spec => []Types
    BY WriterInvariant, InitTypes, NextTypes, PTL DEF Spec
  <1>2. Types => SealsHoldForests
    BY DEF Types, WellFormed, SealsHoldForests
  <1> QED
    BY <1>1, <1>2, PTL

-----------------------------------------------------------------------------
(* What callers are told, and what the store holds of it: replies come in    *)
(* order and are true of the view, no reply rests on a RUN behind a rival's  *)
(* FENCE, and a shutdown leaves no create behind.                            *)
(*                                                                           *)
(* Two invariants stand next to the one above.  Answers follows a command    *)
(* through barrier and flight to its reply: each of the three queues is      *)
(* ordered, one before the other, and each promise is kept by the forest the *)
(* reply will be released with and by every later one.  Placement says where *)
(* the RUNs and FENCEs of the store stand to the durable head, and that at   *)
(* most one create is under way.                                             *)

Ordered(s) == \A i, j \in 1 .. Len(s) : i < j => s[i].id < s[j].id
Before(s, t) == \A i \in 1 .. Len(s), j \in 1 .. Len(t) : s[i].id < t[j].id
UpTo(s, n) == \A i \in 1 .. Len(s) : s[i].id \in Nat /\ s[i].id <= n

RepliesOf(f) == IF f = NoFlight THEN <<>> ELSE f.replies

\* Released replies, those of the flight, the commands of the barrier.
Orderly(released, flying, waiting, n) ==
    /\ Ordered(released) /\ Ordered(flying) /\ Ordered(waiting)
    /\ Before(released, flying) /\ Before(released, waiting) /\ Before(flying, waiting)
    /\ UpTo(released, n) /\ UpTo(flying, n) /\ UpTo(waiting, n)

Kept(s, forest) ==
    \A i \in 1 .. Len(s) : s[i].promise \in Promises /\ Keeps(forest, s[i].promise)

\* a and d are the admitted and the durable forest.
Promised(released, f, waiting, a, d) ==
    /\ Kept(released, d) /\ Kept(released, a) /\ Kept(waiting, a)
    /\ f # NoFlight =>
         Kept(released, f.forest) /\ Kept(f.replies, f.forest) /\ Kept(f.replies, a)

Answers ==
    /\ submitted \in Nat
    /\ IsSequence(acked) /\ IsSequence(RepliesOf(flight)) /\ IsSequence(pending.commands)
    /\ Orderly(acked, RepliesOf(flight), pending.commands, submitted)
    /\ Promised(acked, flight, pending.commands, admitted, durable)
    /\ view = durable

-----------------------------------------------------------------------------
(* Sequences of replies. *)

\* Replies are released one behind the other.
LEMMA ConcatShape ==
    ASSUME NEW s, NEW t, IsSequence(s), IsSequence(t)
    PROVE  /\ IsSequence(s \o t)
           /\ Len(s) \in Nat /\ Len(t) \in Nat
           /\ \A i \in 1 .. Len(s \o t) :
                \/ i \in 1 .. Len(s) /\ (s \o t)[i] = s[i]
                \/ /\ i > Len(s) /\ i - Len(s) \in 1 .. Len(t)
                   /\ (s \o t)[i] = t[i - Len(s)]
  <1>1. PICK S : s \in Seq(S)
    BY DEF IsSequence
  <1>2. PICK T : t \in Seq(T)
    BY DEF IsSequence
  <1>3. s \in Seq(S \cup T) /\ t \in Seq(S \cup T)
    BY <1>1, <1>2
  <1>4. s \o t \in Seq(S \cup T) /\ Len(s) \in Nat /\ Len(t) \in Nat
        /\ Len(s \o t) = Len(s) + Len(t)
    BY <1>3
  <1>5. ASSUME NEW i \in 1 .. Len(s \o t)
        PROVE  \/ i \in 1 .. Len(s) /\ (s \o t)[i] = s[i]
               \/ /\ i > Len(s) /\ i - Len(s) \in 1 .. Len(t)
                  /\ (s \o t)[i] = t[i - Len(s)]
    BY <1>3, <1>4
  <1> QED
    BY <1>4, <1>5 DEF IsSequence

\* Nothing released, nothing changed.
LEMMA ConcatNothing ==
    ASSUME NEW s, IsSequence(s)
    PROVE  s \o <<>> = s /\ IsSequence(<<>>) /\ Len(<<>>) = 0
  <1>1. PICK S : s \in Seq(S)
    BY DEF IsSequence
  <1>2. <<>> \in Seq({})
    OBVIOUS
  <1> QED
    BY <1>1, <1>2 DEF IsSequence

\* Order, bound and promises of two sequences, one behind the other.
LEMMA ConcatOrderly ==
    ASSUME NEW s, NEW t, NEW u, NEW n \in Nat, IsSequence(s), IsSequence(t),
           Orderly(s, t, u, n)
    PROVE  Orderly(s \o t, <<>>, u, n)
  <1>0. /\ Len(s) \in Nat /\ Len(t) \in Nat
        /\ \A i \in 1 .. Len(s \o t) :
                \/ i \in 1 .. Len(s) /\ (s \o t)[i] = s[i]
                \/ /\ i > Len(s) /\ i - Len(s) \in 1 .. Len(t)
                   /\ (s \o t)[i] = t[i - Len(s)]
    BY ConcatShape
  <1>1. /\ Ordered(s) /\ Ordered(t) /\ Before(s, t) /\ Before(s, u) /\ Before(t, u)
        /\ UpTo(s, n) /\ UpTo(t, n)
    BY DEF Orderly
  <1> DEFINE c == s \o t
  <1> HIDE DEF c
  <1>2. Ordered(c)
    <2> SUFFICES ASSUME NEW i \in 1 .. Len(c), NEW j \in 1 .. Len(c), i < j
                 PROVE  c[i].id < c[j].id
      BY DEF Ordered
    <2>1. /\ \/ i \in 1 .. Len(s) /\ c[i] = s[i]
             \/ i > Len(s) /\ i - Len(s) \in 1 .. Len(t) /\ c[i] = t[i - Len(s)]
          /\ \/ j \in 1 .. Len(s) /\ c[j] = s[j]
             \/ j > Len(s) /\ j - Len(s) \in 1 .. Len(t) /\ c[j] = t[j - Len(s)]
      BY <1>0 DEF c
    <2>2. CASE j \in 1 .. Len(s)
      BY <1>0, <1>1, <2>1, <2>2 DEF Ordered
    <2>3. CASE i \in 1 .. Len(s) /\ j \notin 1 .. Len(s)
      BY <1>0, <1>1, <2>1, <2>3 DEF Before
    <2>4. CASE i \notin 1 .. Len(s) /\ j \notin 1 .. Len(s)
      <3>1. i - Len(s) < j - Len(s)
        BY <1>0
      <3> QED
        BY <1>1, <2>1, <2>4, <3>1 DEF Ordered
    <2> QED
      BY <1>0, <2>1, <2>2, <2>3, <2>4
  <1>3. Before(c, u) /\ UpTo(c, n)
    BY <1>0, <1>1 DEF Before, UpTo, c
  <1>4. Len(<<>>) = 0
    OBVIOUS
  <1> QED
    BY <1>2, <1>3, <1>4 DEF Orderly, Ordered, Before, UpTo, c

\* The promises of both.
LEMMA ConcatKept ==
    ASSUME NEW s, NEW t, NEW forest, IsSequence(s), IsSequence(t), Kept(s, forest),
           Kept(t, forest)
    PROVE  Kept(s \o t, forest)
  <1> DEFINE c == s \o t
  <1> SUFFICES ASSUME NEW i \in 1 .. Len(c)
               PROVE  c[i].promise \in Promises /\ Keeps(forest, c[i].promise)
    BY DEF Kept
  <1>1. \/ i \in 1 .. Len(s) /\ c[i] = s[i]
        \/ i - Len(s) \in 1 .. Len(t) /\ c[i] = t[i - Len(s)]
    BY ConcatShape
  <1> HIDE DEF c
  <1> QED
    BY <1>1 DEF Kept

\* The replies of a barrier are those of its commands, in their order.
LEMMA RepliesShape ==
    ASSUME NEW b, IsSequence(b.commands)
    PROVE  /\ IsSequence(Replies(b)) /\ Len(Replies(b)) = Len(b.commands)
           /\ \A i \in 1 .. Len(b.commands) :
                /\ Replies(b)[i].id = b.commands[i].id
                /\ Replies(b)[i].promise = b.commands[i].promise
  <1>1. PICK S : b.commands \in Seq(S)
    BY DEF IsSequence
  <1>2. Len(b.commands) \in Nat
    BY <1>1
  <1> DEFINE T == {[id |-> b.commands[i].id, promise |-> b.commands[i].promise] :
                     i \in 1 .. Len(b.commands)}
  <1>3. Replies(b) \in [1 .. Len(b.commands) -> T]
    BY DEF Replies
  <1> HIDE DEF T
  <1>4. Replies(b) \in Seq(T) /\ Len(Replies(b)) = Len(b.commands)
    BY <1>2, <1>3
  <1>5. \A i \in 1 .. Len(b.commands) :
          /\ Replies(b)[i].id = b.commands[i].id
          /\ Replies(b)[i].promise = b.commands[i].promise
    BY DEF Replies
  <1> QED
    BY <1>4, <1>5 DEF IsSequence

\* A drained barrier: its replies take the place of its commands.
LEMMA RepliesOrderly ==
    ASSUME NEW b, NEW released, NEW n, IsSequence(b.commands),
           Orderly(released, <<>>, b.commands, n)
    PROVE  Orderly(released, Replies(b), <<>>, n)
  <1>1. /\ Len(Replies(b)) = Len(b.commands)
        /\ \A i \in 1 .. Len(b.commands) : Replies(b)[i].id = b.commands[i].id
    BY RepliesShape
  <1>2. Len(<<>>) = 0
    OBVIOUS
  <1> QED
    BY <1>1, <1>2 DEF Orderly, Ordered, Before, UpTo

\* And keep what they promise.
LEMMA RepliesKept ==
    ASSUME NEW b, NEW forest, IsSequence(b.commands), Kept(b.commands, forest)
    PROVE  Kept(Replies(b), forest)
  <1>1. /\ Len(Replies(b)) = Len(b.commands)
        /\ \A i \in 1 .. Len(b.commands) : Replies(b)[i].promise = b.commands[i].promise
    BY RepliesShape
  <1> QED
    BY <1>1 DEF Kept

-----------------------------------------------------------------------------
(* Answers. *)

\* What Schedule needs of the event that calls it; replies are what the event
\* has released itself.
AnswersReady(b, f, replies) ==
    /\ submitted' \in Nat
    /\ IsSequence(acked) /\ IsSequence(replies) /\ IsSequence(RepliesOf(f))
    /\ IsSequence(b.commands)
    /\ ForestShape(b, f, admitted', durable')
    /\ Orderly(acked \o replies, RepliesOf(f), b.commands, submitted')
    /\ Promised(acked \o replies, f, b.commands, admitted', durable')
    /\ view' = durable'

\* The parts of Answers have no state of their own.
LEMMA AnswersNext ==
    ASSUME submitted' \in Nat,
           IsSequence(acked'), IsSequence(RepliesOf(flight')), IsSequence(pending'.commands),
           Orderly(acked', RepliesOf(flight'), pending'.commands, submitted'),
           Promised(acked', flight', pending'.commands, admitted', durable'),
           view' = durable'
    PROVE  Answers'
  <1>1. Orderly(acked, RepliesOf(flight), pending.commands, submitted)'
    BY DEF Orderly, Ordered, Before, UpTo, RepliesOf, NoFlight
  <1>2. Promised(acked, flight, pending.commands, admitted, durable)'
    BY DEF Promised, Kept, Keeps, Promises, Uids, NoFlight
  <1>3. IsSequence(acked)' /\ IsSequence(RepliesOf(flight))' /\ IsSequence(pending.commands)'
    BY DEF IsSequence, RepliesOf, NoFlight
  <1> QED
    BY <1>1, <1>2, <1>3 DEF Answers

\* drain_pending moves the commands of the barrier on together, behind those of
\* the flight, or releases them at once when all of them are idempotent.
LEMMA ScheduleAnswers ==
    ASSUME NEW STATE b, NEW STATE f, NEW STATE t, NEW STATE replies,
           AnswersReady(b, f, replies), DrainPending(b, f, t, replies)
    PROVE  Answers'
  <1> DEFINE released == acked \o replies
  <1>0. /\ submitted' \in Nat /\ view' = durable'
        /\ IsSequence(acked) /\ IsSequence(replies) /\ IsSequence(RepliesOf(f))
        /\ IsSequence(b.commands)
        /\ ForestShape(b, f, admitted', durable')
        /\ Orderly(released, RepliesOf(f), b.commands, submitted')
        /\ Promised(released, f, b.commands, admitted', durable')
    BY DEF AnswersReady
  <1>1. IsSequence(released) /\ released \o <<>> = released /\ IsSequence(<<>>) /\ Len(<<>>) = 0
    BY <1>0, ConcatShape, ConcatNothing
  <1>2. IsSequence(Replies(b))
    BY <1>0, RepliesShape
  <1>3. CASE DrainsNow(b, f) /\ b.facts = 0
    <2>1. /\ pending' = EmptyBarrier /\ flight' = f /\ f = NoFlight
          /\ acked' = released \o Replies(b)
      <3>1. acked' = acked \o replies \o Replies(b)
        BY <1>3 DEF DrainPending
      <3> QED
        BY <1>3, <3>1 DEF DrainPending, DrainsNow
    <2>2. RepliesOf(f) = <<>> /\ admitted' = durable'
      BY <1>0, <1>3, <2>1 DEF RepliesOf, ForestShape
    <2> HIDE DEF released
    <2>3. Orderly(released, Replies(b), <<>>, submitted')
      BY <1>0, <2>2, RepliesOrderly
    <2>4. Orderly(acked', <<>>, <<>>, submitted') /\ IsSequence(acked')
      BY <1>0, <1>1, <1>2, <2>1, <2>3, ConcatOrderly, ConcatShape
    <2>5. Kept(Replies(b), admitted')
      BY <1>0, RepliesKept DEF Promised
    <2>6. Kept(acked', durable') /\ Kept(acked', admitted')
      BY <1>0, <1>1, <1>2, <2>1, <2>2, <2>5, ConcatKept DEF Promised
    <2>7. Promised(acked', flight', <<>>, admitted', durable')
      BY <1>1, <2>1, <2>6 DEF Promised, Kept
    <2>8. pending'.commands = <<>> /\ RepliesOf(flight') = <<>>
      BY <2>1, <2>2 DEF EmptyBarrier
    <2> QED
      BY <1>0, <1>1, <2>4, <2>7, <2>8, AnswersNext
  <1>4. CASE DrainsNow(b, f) /\ b.facts # 0
    <2>1. /\ pending' = EmptyBarrier /\ f = NoFlight /\ acked' = released
          /\ flight' = [batch |-> next_batch, forest |-> admitted', replies |-> Replies(b)]
      BY <1>4 DEF DrainPending, DrainsNow
    <2>2. /\ flight'.forest = admitted' /\ flight'.replies = Replies(b)
          /\ RepliesOf(f) = <<>> /\ pending'.commands = <<>>
      BY <2>1 DEF RepliesOf, EmptyBarrier
    <2>3. flight' # NoFlight /\ RepliesOf(flight') = Replies(b)
      <3>1. "replies" \in DOMAIN flight' /\ "replies" \notin DOMAIN NoFlight
        BY <2>1 DEF NoFlight
      <3> QED
        BY <2>2, <3>1 DEF RepliesOf
    <2> HIDE DEF released
    <2>4. Orderly(released, Replies(b), <<>>, submitted')
      BY <1>0, <2>2, RepliesOrderly
    <2>5. Kept(Replies(b), admitted')
      BY <1>0, RepliesKept DEF Promised
    <2>6. Promised(acked', flight', <<>>, admitted', durable')
      BY <1>0, <1>1, <2>1, <2>2, <2>5 DEF Promised, Kept
    <2> QED
      BY <1>0, <1>1, <1>2, <2>1, <2>2, <2>3, <2>4, <2>6, AnswersNext
  <1>5. CASE ~DrainsNow(b, f)
    <2>1. pending' = b /\ flight' = f /\ acked' = released
      BY <1>5 DEF DrainPending
    <2> HIDE DEF released
    <2> QED
      BY <1>0, <1>1, <2>1, AnswersNext
  <1> QED
    BY <1>3, <1>4, <1>5

\* An event that releases nothing itself and leaves the forests alone.
LEMMA QuietAnswers ==
    ASSUME InductiveInvariant, Answers, exit = "none", NEW STATE t,
           UNCHANGED <<admitted, durable, view>>, submitted' \in {submitted, submitted + 1},
           DrainPending(pending, flight, t, <<>>)
    PROVE  Answers'
  <1>1. ForestShape(pending, flight, admitted', durable')
    BY DEF InductiveInvariant, Settled, ForestShape
  <1>2. acked \o <<>> = acked /\ IsSequence(<<>>)
    BY ConcatNothing DEF Answers
  <1>3. Orderly(acked, RepliesOf(flight), pending.commands, submitted')
    <2>1. submitted' \in Nat /\ submitted <= submitted'
      BY DEF Answers
    <2> QED
      BY <2>1 DEF Answers, Orderly, UpTo
  <1>4. Promised(acked, flight, pending.commands, admitted', durable') /\ view' = durable'
    BY DEF Answers
  <1>5. AnswersReady(pending, flight, <<>>)
    BY <1>1, <1>2, <1>3, <1>4 DEF Answers, AnswersReady
  <1> QED
    BY <1>5, ScheduleAnswers

\* One more command behind those of the barrier.
LEMMA AppendOrderly ==
    ASSUME NEW released, NEW flying, NEW s, NEW n \in Nat, NEW x, x.id = n + 1, IsSequence(s),
           Orderly(released, flying, s, n)
    PROVE  Orderly(released, flying, Append(s, x), n + 1)
  <1>1. PICK S : s \in Seq(S)
    BY DEF IsSequence
  <1>2. s \in Seq(S \cup {x})
    BY <1>1
  <1> DEFINE c == Append(s, x)
  <1>3. /\ Len(s) \in Nat /\ Len(c) = Len(s) + 1 /\ c[Len(s) + 1] = x
        /\ \A i \in 1 .. Len(s) : c[i] = s[i]
    BY <1>2
  <1> HIDE DEF c
  <1>4. \A i \in 1 .. Len(c) :
          (i \in 1 .. Len(s) /\ c[i] = s[i]) \/ (i = Len(s) + 1 /\ c[i] = x)
    BY <1>3
  <1>5. /\ Ordered(released) /\ Ordered(flying) /\ Ordered(s) /\ Before(released, flying)
        /\ Before(released, s) /\ Before(flying, s)
        /\ UpTo(released, n) /\ UpTo(flying, n) /\ UpTo(s, n)
    BY DEF Orderly
  <1>6. Ordered(c)
    <2> SUFFICES ASSUME NEW i \in 1 .. Len(c), NEW j \in 1 .. Len(c), i < j
                 PROVE  c[i].id < c[j].id
      BY DEF Ordered
    <2>1. i \in 1 .. Len(s) /\ c[i] = s[i]
      BY <1>3, <1>4
    <2>2. CASE j \in 1 .. Len(s)
      BY <1>3, <1>5, <2>1, <2>2 DEF Ordered
    <2>3. CASE j = Len(s) + 1
      <3>1. s[i].id \in Nat /\ s[i].id <= n
        BY <1>5, <2>1 DEF UpTo
      <3> QED
        BY <1>3, <2>1, <2>3, <3>1
    <2> QED
      BY <1>4, <2>2, <2>3
  <1>7. ASSUME NEW q, Before(q, s), UpTo(q, n)
        PROVE  Before(q, c)
    <2> SUFFICES ASSUME NEW i \in 1 .. Len(q), NEW j \in 1 .. Len(c)
                 PROVE  q[i].id < c[j].id
      BY DEF Before
    <2>1. q[i].id \in Nat /\ q[i].id <= n
      BY <1>7 DEF UpTo
    <2>2. CASE j \in 1 .. Len(s) /\ c[j] = s[j]
      BY <1>7, <2>2 DEF Before
    <2>3. CASE c[j] = x
      BY <2>1, <2>3
    <2> QED
      BY <1>4, <2>2, <2>3
  <1>8. UpTo(c, n + 1) /\ UpTo(released, n + 1) /\ UpTo(flying, n + 1)
    BY <1>3, <1>4, <1>5 DEF UpTo
  <1> QED
    BY <1>5, <1>6, <1>7, <1>8 DEF Orderly, c

\* With its promise.
LEMMA AppendKept ==
    ASSUME NEW s, NEW x, NEW forest, IsSequence(s), Kept(s, forest), x.promise \in Promises,
           Keeps(forest, x.promise)
    PROVE  Kept(Append(s, x), forest)
  <1>1. PICK S : s \in Seq(S)
    BY DEF IsSequence
  <1>2. s \in Seq(S \cup {x})
    BY <1>1
  <1> DEFINE c == Append(s, x)
  <1>3. \A i \in 1 .. Len(c) : (i \in 1 .. Len(s) /\ c[i] = s[i]) \/ c[i] = x
    BY <1>2
  <1> HIDE DEF c
  <1>4. Kept(c, forest)
    BY <1>3 DEF Kept
  <1> QED
    BY <1>4 DEF c

\* A fold keeps all promises.
LEMMA FoldKept ==
    ASSUME NEW s, NEW forest, WellFormed(forest), NEW fact \in Facts, NEW batch \in Nat,
           Kept(s, forest)
    PROVE  Kept(s, StrictFold(forest, batch, fact))
  BY FoldKeepsPromise DEF Kept

-----------------------------------------------------------------------------
(* Every step keeps Answers. *)

\* admit: a fact or a queued success joins the barrier, an idempotent success
\* with nothing undurable before it is released at once.
LEMMA CommandAnswers ==
    ASSUME InductiveInvariant, Types, Answers, NEW cmd \in Commands, Command(cmd)
    PROVE  Answers'
  <1> DEFINE decision == Decide(admitted, cmd)
             command(fact) == [id |-> submitted + 1, fact |-> fact, promise |-> decision.promise]
  <1>0. /\ exit = "none" /\ submitted' = submitted + 1
        /\ UNCHANGED <<durable, view>>
    BY DEF Command, AcceptFact, ShedFact, AnswerIdempotent, QueueIdempotent, Refuse,
           TakesCommand, Running
  <1>1. /\ submitted \in Nat /\ submitted' \in Nat
        /\ IsSequence(acked) /\ IsSequence(RepliesOf(flight)) /\ IsSequence(pending.commands)
        /\ Orderly(acked, RepliesOf(flight), pending.commands, submitted)
        /\ Promised(acked, flight, pending.commands, admitted, durable)
        /\ acked \o <<>> = acked /\ IsSequence(<<>>)
        /\ view' = durable'
    BY <1>0, ConcatNothing DEF Answers
  <1>2. /\ ForestShape(pending, flight, admitted, durable) /\ BarrierShape(pending)
        /\ AdmitAsserts /\ WellFormed(admitted) /\ next_batch \in Nat
    BY <1>0, SuffixAssumption DEF InductiveInvariant, Settled, Types, Batches
  <1>3. CASE AcceptFact(cmd)
    <2> DEFINE barrier == PushFact(pending, submitted + 1, decision)
    <2>1. /\ decision.kind = "fact"
          /\ admitted' = StrictFold(admitted, next_batch, decision.fact)
          /\ DrainPending(barrier, flight, timer, <<>>)
      BY <1>3 DEF AcceptFact, Schedule
    <2>2. decision.fact \in Facts
      BY <1>2, <2>1, DecidedFactType
    <2>3. decision.promise \in Promises /\ Keeps(admitted', decision.promise)
      BY <1>2, <2>1, DecidedPromiseHolds
    <2>4. /\ barrier.commands = Append(pending.commands, command(decision.fact))
          /\ barrier.facts = pending.facts + 1
      BY DEF PushFact
    <2>5. /\ command(decision.fact).id = submitted + 1
          /\ command(decision.fact).promise = decision.promise
      OBVIOUS
    <2> HIDE DEF barrier, decision, command
    <2>6. /\ Kept(acked, admitted') /\ Kept(pending.commands, admitted')
          /\ flight # NoFlight => Kept(flight.replies, admitted')
      BY <1>1, <1>2, <2>1, <2>2, FoldKept DEF Promised
    <2>7. Kept(barrier.commands, admitted')
      BY <1>1, <2>3, <2>4, <2>5, <2>6, AppendKept
    <2>8. Orderly(acked, RepliesOf(flight), barrier.commands, submitted')
      BY <1>0, <1>1, <2>4, <2>5, AppendOrderly
    <2>9. Promised(acked, flight, barrier.commands, admitted', durable')
      BY <1>0, <1>1, <2>6, <2>7 DEF Promised
    <2>10. ForestShape(barrier, flight, admitted', durable')
      BY <1>2, <2>4 DEF ForestShape, BarrierShape
    <2>11. IsSequence(barrier.commands)
      BY <1>1, <2>4, AppendShape
    <2>12. AnswersReady(barrier, flight, <<>>)
      BY <1>1, <2>8, <2>9, <2>10, <2>11 DEF AnswersReady
    <2> QED
      BY <2>1, <2>12, ScheduleAnswers
  <1>4. CASE QueueIdempotent(cmd)
    <2> DEFINE barrier == PushIdempotent(pending, submitted + 1, decision)
    <2>1. /\ decision.kind = "idempotent" /\ admitted' = admitted
          /\ InheritsBarrier
          /\ DrainPending(barrier, flight, timer, <<>>)
      BY <1>4 DEF QueueIdempotent, Schedule
    <2>3. decision.promise \in Promises /\ Keeps(admitted', decision.promise)
      BY <1>2, <2>1, DecidedPromiseHolds
    <2>4. /\ barrier.commands = Append(pending.commands, command(None))
          /\ barrier.facts = pending.facts
      BY DEF PushIdempotent
    <2>5. /\ command(None).id = submitted + 1
          /\ command(None).promise = decision.promise
      OBVIOUS
    <2> HIDE DEF barrier, decision, command
    <2>6. Kept(pending.commands, admitted')
      BY <1>1, <2>1 DEF Promised
    <2>7. Kept(barrier.commands, admitted')
      BY <1>1, <2>3, <2>4, <2>5, <2>6, AppendKept
    <2>8. Orderly(acked, RepliesOf(flight), barrier.commands, submitted')
      BY <1>0, <1>1, <2>4, <2>5, AppendOrderly
    <2>9. Promised(acked, flight, barrier.commands, admitted', durable')
      BY <1>0, <1>1, <2>1, <2>7 DEF Promised
    <2>10. ForestShape(barrier, flight, admitted', durable')
      BY <1>0, <1>2, <2>1, <2>4 DEF ForestShape
    <2>11. IsSequence(barrier.commands)
      BY <1>1, <2>4, AppendShape
    <2>12. AnswersReady(barrier, flight, <<>>)
      BY <1>1, <2>8, <2>9, <2>10, <2>11 DEF AnswersReady
    <2> QED
      BY <2>1, <2>12, ScheduleAnswers
  <1>5. CASE AnswerIdempotent(cmd)
    <2> DEFINE reply == [id |-> submitted + 1, promise |-> decision.promise]
    <2>1. /\ decision.kind = "idempotent" /\ admitted' = admitted
          /\ flight = NoFlight /\ ~(pending.facts > 0)
          /\ DrainPending(pending, flight, timer, <<reply>>)
      BY <1>5 DEF AnswerIdempotent, Schedule, InheritsBarrier
    <2>2. pending.commands = <<>> /\ admitted = durable
      BY <1>2, <2>1 DEF AdmitAsserts, ForestShape, BarrierShape
    <2>3. decision.promise \in Promises /\ Keeps(admitted, decision.promise)
      BY <1>2, <2>1, DecidedPromiseHolds
    <2>4. reply.id = submitted + 1 /\ reply.promise = decision.promise
      OBVIOUS
    <2> HIDE DEF reply, decision
    <2>5. <<reply>> \in Seq({reply}) /\ Len(<<reply>>) = 1 /\ <<reply>>[1] = reply
      OBVIOUS
    <2>6. IsSequence(<<reply>>) /\ RepliesOf(flight) = <<>> /\ Len(<<>>) = 0
      BY <2>1, <2>5 DEF RepliesOf, IsSequence
    <2>7. Ordered(acked) /\ UpTo(acked, submitted)
      BY <1>1 DEF Orderly
    <2>8. Orderly(acked, <<reply>>, <<>>, submitted')
      BY <1>0, <1>1, <2>4, <2>5, <2>6, <2>7 DEF Orderly, Ordered, Before, UpTo
    <2>9. Orderly(acked \o <<reply>>, RepliesOf(flight), pending.commands, submitted')
      BY <1>1, <2>2, <2>6, <2>8, ConcatOrderly
    <2>10. Kept(acked \o <<reply>>, admitted)
      <3>1. Kept(<<reply>>, admitted)
        BY <2>3, <2>4, <2>5 DEF Kept
      <3> QED
        BY <1>1, <2>6, <3>1, ConcatKept DEF Promised
    <2>11. Promised(acked \o <<reply>>, flight, pending.commands, admitted', durable')
      BY <1>0, <1>1, <2>1, <2>2, <2>10 DEF Promised
    <2>12. ForestShape(pending, flight, admitted', durable')
      BY <1>0, <1>2, <2>1 DEF ForestShape
    <2>13. AnswersReady(pending, flight, <<reply>>)
      BY <1>1, <2>6, <2>9, <2>11, <2>12 DEF AnswersReady
    <2> QED
      BY <2>1, <2>13, ScheduleAnswers
  <1>6. CASE ShedFact(cmd) \/ Refuse(cmd)
    <2>1. admitted' = admitted /\ DrainPending(pending, flight, timer, <<>>)
      BY <1>6 DEF ShedFact, Refuse, Schedule
    <2> QED
      BY <1>0, <2>1, QuietAnswers
  <1> QED
    BY <1>3, <1>4, <1>5, <1>6 DEF Command

\* The events of the machine that no command causes.
LEMMA EventAnswers ==
    ASSUME InductiveInvariant, Answers, exit = "none",
           QuietNext \/ WalDurable \/ CheckpointPrepared \/ SealAuthored
    PROVE  Answers'
  <1>1. CASE QuietNext \/ CheckpointPrepared \/ SealAuthored
    <2>1. /\ UNCHANGED <<admitted, durable, submitted>> /\ view' \in {view, durable}
          /\ \E t \in {timer, "off"} : DrainPending(pending, flight, t, <<>>)
      BY <1>1 DEF QuietNext, Started, FlushDue, IngressClosed, CheckpointDropped,
                  CollectFinished, CheckpointPrepared, SealAuthored, Schedule
    <2>2. view' = view
      BY <2>1 DEF Answers
    <2>3. CASE DrainPending(pending, flight, timer, <<>>)
      BY <2>1, <2>2, <2>3, QuietAnswers
    <2>4. CASE DrainPending(pending, flight, "off", <<>>)
      BY <2>1, <2>2, <2>4, QuietAnswers
    <2> QED
      BY <2>1, <2>3, <2>4
  <1>2. CASE WalDurable
    <2>1. /\ flight # NoFlight /\ durable' = flight.forest /\ view' = durable'
          /\ UNCHANGED <<admitted, submitted>>
          /\ DrainPending(pending, NoFlight, timer, flight.replies)
      BY <1>2 DEF WalDurable, PublishedForest, Schedule
    <2>2. RepliesOf(flight) = flight.replies /\ RepliesOf(NoFlight) = <<>> /\ IsSequence(<<>>)
      BY <2>1, ConcatNothing DEF RepliesOf, Answers
    <2>3. ForestShape(pending, NoFlight, admitted', durable')
      BY <2>1 DEF InductiveInvariant, Settled, ForestShape
    <2>4. Orderly(acked \o flight.replies, <<>>, pending.commands, submitted')
      BY <2>1, <2>2, ConcatOrderly DEF Answers
    <2>5. Kept(acked \o flight.replies, durable') /\ Kept(acked \o flight.replies, admitted')
      BY <2>1, <2>2, ConcatKept DEF Answers, Promised
    <2>6. Promised(acked \o flight.replies, NoFlight, pending.commands, admitted', durable')
      BY <2>1, <2>5 DEF Answers, Promised
    <2>7. AnswersReady(pending, NoFlight, flight.replies)
      BY <2>1, <2>2, <2>3, <2>4, <2>6 DEF Answers, AnswersReady
    <2> QED
      BY <2>1, <2>7, ScheduleAnswers
  <1> QED
    BY <1>1, <1>2

\* An exit drops waiters, the environment answers nobody.
LEMMA OtherAnswers ==
    ASSUME Answers, FatalNext \/ EnvironmentNext \/ UNCHANGED vars
    PROVE  Answers'
  <1>1. /\ UNCHANGED <<submitted, view, acked, pending, admitted, durable>>
        /\ flight' = flight \/ flight' = NoFlight
    BY DEF FatalNext, WalFailed, SealFailed, CheckpointContradicted, Terminate, EnvironmentNext,
           IntervalElapses, WalLands, SealLands, CollectRun, RivalClaims, RivalFences, machine,
           clients, vars
  <1>2. RepliesOf(NoFlight) = <<>> /\ Len(<<>>) = 0 /\ IsSequence(<<>>)
    BY ConcatNothing DEF RepliesOf, Answers
  <1>3. Orderly(acked', RepliesOf(flight'), pending'.commands, submitted')
    <2>1. Orderly(acked, RepliesOf(flight), pending.commands, submitted)
      BY DEF Answers
    <2>2. Ordered(<<>>) /\ Before(acked, <<>>) /\ Before(<<>>, pending.commands)
          /\ UpTo(<<>>, submitted)
      BY DEF Ordered, Before, UpTo
    <2>3. Orderly(acked, <<>>, pending.commands, submitted)
      BY <2>1, <2>2 DEF Orderly
    <2> QED
      BY <1>1, <1>2, <2>1, <2>3
  <1>4. Promised(acked', flight', pending'.commands, admitted', durable')
    BY <1>1 DEF Answers, Promised
  <1> QED
    BY <1>1, <1>2, <1>3, <1>4, AnswersNext DEF Answers

\* A fresh writer has answered nobody.
LEMMA InitAnswers == Init => Answers
  <1> SUFFICES ASSUME Init PROVE Answers
    OBVIOUS
  <1>1. /\ acked = <<>> /\ flight = NoFlight /\ pending = EmptyBarrier
        /\ submitted = 0 /\ view = Empty /\ durable = Empty
    BY DEF Init
  <1>2. <<>> \in Seq({}) /\ Len(<<>>) = 0
    OBVIOUS
  <1>3. IsSequence(<<>>) /\ RepliesOf(flight) = <<>> /\ pending.commands = <<>>
    BY <1>1, <1>2 DEF IsSequence, RepliesOf, EmptyBarrier
  <1> QED
    BY <1>1, <1>2, <1>3 DEF Answers, Orderly, Ordered, Before, UpTo, Promised, Kept

\* Every step keeps what callers are told in order and true.
LEMMA NextAnswers == InductiveInvariant /\ Types /\ Answers /\ [Next]_vars => Answers'
  <1> SUFFICES ASSUME InductiveInvariant, Types, Answers, [Next]_vars PROVE Answers'
    OBVIOUS
  <1>1. CASE \E cmd \in Commands : Command(cmd)
    BY <1>1, CommandAnswers
  <1>2. CASE QuietNext \/ WalDurable \/ CheckpointPrepared \/ SealAuthored
    <2>1. exit = "none"
      BY <1>2 DEF QuietNext, Started, FlushDue, IngressClosed, CheckpointDropped,
                  CollectFinished, WalDurable, CheckpointPrepared, SealAuthored, Running
    <2> QED
      BY <1>2, <2>1, EventAnswers
  <1>3. CASE FatalNext \/ EnvironmentNext \/ UNCHANGED vars
    BY <1>3, OtherAnswers
  <1> QED
    BY <1>1, <1>2, <1>3
    DEF Next, QuietNext, FatalNext, EnvironmentNext, WalEstablished, PreparationEnds,
        SealPublished

-----------------------------------------------------------------------------
(* Placement: the store around the durable head.                           *)

\* The create of the flight is the only one under way, and a RUN after the head
\* is the one it has placed.
Creates(sent, w, head) ==
    /\ \A c \in sent : c.batch = head + 1 /\ c.batch \in Batches
    /\ \A c, d \in sent : c = d
    /\ \A b \in Batches : b > head /\ w[b].kind = "run" => b = head + 1 /\ sent = {}

\* Nothing under way, nothing placed after the head.
Idle(sent, w, head) == sent = {} /\ \A b \in Batches : b > head => w[b].kind # "run"

\* What stands at the durable head, and who may delete or fence.
Heads ==
    /\ durable_batch > stored.cut => wal[durable_batch] # Vacant
    /\ collector # None => collector.cut \in Nat /\ collector.cut <= seal.cut
    /\ rival.fence # 0 => /\ rival.fence \in Batches /\ durable_batch < rival.fence
                          /\ wal[rival.fence].kind = "fence"

\* Which Seals the store may hold next to the installed one.
Successors ==
    /\ seal.generation <= stored.generation
    /\ stored.generation = seal.generation => stored.cut = seal.cut
    /\ sent_seal # NoSeal => sent_seal.generation = seal.generation + 1

Quiescent ==
    /\ sent_wal = {} /\ sent_seal = NoSeal /\ flight = NoFlight
    /\ pending.commands = <<>> /\ admitted = durable

Placement ==
    /\ \E S : wal \in [Batches -> S]
    /\ Creates(sent_wal, wal, durable_batch)
    /\ exit = "none" /\ flight = NoFlight => Idle(sent_wal, wal, durable_batch)
    /\ Heads
    /\ Successors
    /\ exit = "Shutdown" => Quiescent

\* A flight sends one create at the coordinate after the head, never before the
\* last one is known to be durable.
LEMMA ScheduleCreates ==
    ASSUME NEW STATE b, NEW STATE f, NEW STATE t, NEW STATE replies,
           durable_batch' \in Nat, next_batch \in Batches, wal' = wal,
           HeadShape(f, durable_batch', next_batch),
           Creates(sent_wal, wal, durable_batch'),
           f = NoFlight => Idle(sent_wal, wal, durable_batch'),
           DrainPending(b, f, t, replies)
    PROVE  /\ Creates(sent_wal, wal, durable_batch)'
           /\ flight' = NoFlight => Idle(sent_wal, wal, durable_batch)'
  <1>1. CASE DrainsNow(b, f) /\ b.facts # 0
    <2> DEFINE create == [batch |-> next_batch, facts |-> BarrierFacts(b)]
    <2>1. /\ f = NoFlight /\ sent_wal' = sent_wal \cup {create}
          /\ flight' = [batch |-> next_batch, forest |-> admitted', replies |-> Replies(b)]
      BY <1>1 DEF DrainPending, DrainsNow
    <2>2. create.batch = next_batch
      OBVIOUS
    <2> HIDE DEF create
    <2>3. next_batch = durable_batch' + 1 /\ Idle(sent_wal, wal, durable_batch')
      BY <2>1 DEF HeadShape
    <2>4. flight' # NoFlight
      <3>1. "replies" \in DOMAIN flight' /\ "replies" \notin DOMAIN NoFlight
        BY <2>1 DEF NoFlight
      <3> QED
        BY <3>1
    <2>5. sent_wal' = {create}
      BY <2>1, <2>3 DEF Idle
    <2>6. Creates(sent_wal', wal', durable_batch')
      BY <2>2, <2>3, <2>5 DEF Creates, Idle
    <2> QED
      BY <2>4, <2>6 DEF Creates, Batches
  <1>2. CASE ~(DrainsNow(b, f) /\ b.facts # 0)
    <2>1. sent_wal' = sent_wal /\ flight' = f
      BY <1>2 DEF DrainPending
    <2> QED
      BY <2>1 DEF Creates, Idle, Batches
  <1> QED
    BY <1>1, <1>2

\* A shutdown is decided with nothing queued, in flight or on its way.
LEMMA ScheduleQuiesces ==
    ASSUME NEW STATE b, NEW STATE f, NEW STATE t, NEW STATE c, NEW STATE r, NEW STATE outputs,
           NEW STATE effects, NEW STATE replies, NEW ACTION ok,
           exit = "none", NoPanic', c = NoCheckpoint => sent_seal' = NoSeal,
           flight' = NoFlight => Idle(sent_wal, wal, durable_batch)',
           Schedule(b, f, t, c, r, outputs, effects, replies, ok)
    PROVE  exit' = "Shutdown" => Quiescent'
  <1> SUFFICES ASSUME exit' = "Shutdown" PROVE Quiescent'
    OBVIOUS
  <1>1. ShutsDown(pending', flight', checkpoint') /\ TakeCheckpoint(c, r)
    BY DEF Schedule
  <1>2. flight' = NoFlight /\ checkpoint' = NoCheckpoint /\ pending'.commands = <<>>
    BY <1>1 DEF ShutsDown
  <1>3. c = NoCheckpoint
    BY <1>1, <1>2 DEF TakeCheckpoint, CheckpointDue
  <1>4. admitted' = durable'
    BY DEF Schedule, NoPanic
  <1>5. sent_wal' = {}
    BY <1>2 DEF Idle
  <1> QED
    BY <1>2, <1>3, <1>4, <1>5 DEF Quiescent, NoSeal, NoFlight

\* Placement after an event that has settled its own assignments.
LEMMA PlacementNext ==
    ASSUME NEW STATE b, NEW STATE f, NEW STATE t, NEW STATE c, NEW STATE r, NEW STATE outputs,
           NEW STATE effects, NEW STATE replies, NEW ACTION ok,
           Placement, Types, exit = "none", NoPanic', wal' = wal, durable_batch' \in Nat,
           HeadShape(f, durable_batch', next_batch),
           Creates(sent_wal, wal, durable_batch'),
           f = NoFlight => Idle(sent_wal, wal, durable_batch'),
           c = NoCheckpoint => sent_seal' = NoSeal,
           Heads', Successors',
           Schedule(b, f, t, c, r, outputs, effects, replies, ok)
    PROVE  Placement'
  <1>1. DrainPending(b, f, t, replies) /\ exit' \in {"none", "Shutdown"}
    BY DEF Schedule
  <1>2. next_batch \in Batches
    BY DEF Types
  <1>3. /\ Creates(sent_wal, wal, durable_batch)'
        /\ flight' = NoFlight => Idle(sent_wal, wal, durable_batch)'
    BY <1>1, <1>2, ScheduleCreates
  <1>4. exit' = "Shutdown" => Quiescent'
    BY <1>3, ScheduleQuiesces
  <1>5. (\E S : wal \in [Batches -> S])'
    BY DEF Placement, Batches
  <1> QED
    BY <1>3, <1>4, <1>5 DEF Placement, NoFlight

\* An event that touches neither the durable head nor the Seals.
LEMMA QuietPlacement ==
    ASSUME NEW STATE b, NEW STATE t, NEW STATE c, NEW STATE r, NEW STATE outputs,
           NEW STATE effects, NEW STATE replies, NEW ACTION ok,
           InductiveInvariant, InductiveInvariant', Types, Placement, exit = "none",
           UNCHANGED <<seal, durable_batch, wal, stored, rival>>,
           collector' \in {collector, None},
           sent_seal' # NoSeal => sent_seal'.generation = seal.generation + 1,
           c = NoCheckpoint => sent_seal' = NoSeal,
           Schedule(b, flight, t, c, r, outputs, effects, replies, ok)
    PROVE  Placement'
  <1>1. /\ HeadShape(flight, durable_batch', next_batch) /\ durable_batch' \in Nat /\ NoPanic'
    BY DEF InductiveInvariant, Settled, Numbers
  <1>2. /\ Creates(sent_wal, wal, durable_batch')
        /\ flight = NoFlight => Idle(sent_wal, wal, durable_batch')
    BY DEF Placement
  <1>3. Heads'
    BY DEF Placement, Heads, Vacant, Batches
  <1>4. Successors'
    BY DEF Placement, Successors, NoSeal
  <1> QED
    BY <1>1, <1>2, <1>3, <1>4, PlacementNext

\* The events of the machine: commands, timers, completions, checkpoints.
LEMMA EventPlacement ==
    ASSUME InductiveInvariant, InductiveInvariant', Types, Placement, exit = "none",
           \/ \E cmd \in Commands : Command(cmd)
           \/ QuietNext \/ WalDurable \/ CheckpointPrepared \/ SealAuthored
    PROVE  Placement'
  <1>0. /\ Creates(sent_wal, wal, durable_batch) /\ Heads /\ Successors
        /\ Numbers /\ Lineage /\ Settled /\ MarkerShape(checkpoint, seal, durable_batch)
        /\ NoPanic'
    BY DEF Placement, InductiveInvariant
  <1>1. /\ checkpoint = NoCheckpoint => sent_seal = NoSeal
        /\ ~Publishing => sent_seal = NoSeal
        /\ sent_seal # NoSeal => sent_seal.generation = seal.generation + 1
    BY <1>0 DEF Lineage, Publishing, NoCheckpoint, Successors
  <1>2. ASSUME NEW cmd \in Commands, Command(cmd)
        PROVE  Placement'
    <2>1. /\ UNCHANGED <<seal, durable_batch, wal, stored, rival>>
          /\ UNCHANGED <<collector, sent_seal>>
      BY <1>2 DEF Command, AcceptFact, ShedFact, AnswerIdempotent, QueueIdempotent, Refuse,
                  TakesCommand
    <2>2. CASE AcceptFact(cmd)
      <3> DEFINE barrier == PushFact(pending, submitted + 1, Decide(admitted, cmd))
                 ok == /\ AdmitAsserts
                       /\ FoldResult(admitted, Decide(admitted, cmd).fact) = "ok"
                       /\ barrier.facts <= RunFactsMax
                       /\ Len(barrier.commands) <= PendingMax
      <3>1. Schedule(barrier, flight, timer, checkpoint, retry_at, 0, 0, <<>>, ok)
        BY <2>2 DEF AcceptFact
      <3> HIDE DEF barrier, ok
      <3> QED
        BY <1>1, <2>1, <3>1, QuietPlacement
    <2>3. CASE QueueIdempotent(cmd)
      <3> DEFINE barrier == PushIdempotent(pending, submitted + 1, Decide(admitted, cmd))
                 ok == AdmitAsserts /\ Len(barrier.commands) <= PendingMax
      <3>1. Schedule(barrier, flight, timer, checkpoint, retry_at, 0, 0, <<>>, ok)
        BY <2>3 DEF QueueIdempotent
      <3> HIDE DEF barrier, ok
      <3> QED
        BY <1>1, <2>1, <3>1, QuietPlacement
    <2>4. CASE AnswerIdempotent(cmd)
      <3> DEFINE reply == <<[id |-> submitted + 1, promise |-> Decide(admitted, cmd).promise]>>
      <3>1. Schedule(pending, flight, timer, checkpoint, retry_at, 1, 0, reply, AdmitAsserts)
        BY <2>4 DEF AnswerIdempotent
      <3> HIDE DEF reply
      <3> QED
        BY <1>1, <2>1, <3>1, QuietPlacement
    <2>5. CASE ShedFact(cmd)
      <3>1. Schedule(pending, flight, timer, checkpoint, durable_batch, 1, 0, <<>>, AdmitAsserts)
        BY <2>5 DEF ShedFact
      <3> QED
        BY <1>1, <2>1, <3>1, QuietPlacement
    <2>6. CASE Refuse(cmd)
      <3>1. Schedule(pending, flight, timer, checkpoint, retry_at, 1, 0, <<>>, AdmitAsserts)
        BY <2>6 DEF Refuse
      <3> QED
        BY <1>1, <2>1, <3>1, QuietPlacement
    <2> QED
      BY <1>2, <2>2, <2>3, <2>4, <2>5, <2>6 DEF Command
  <1>3. CASE QuietNext
    <2>1. /\ UNCHANGED <<seal, durable_batch, wal, stored, rival>>
          /\ UNCHANGED sent_seal /\ collector' \in {collector, None}
      BY <1>3 DEF QuietNext, Started, FlushDue, IngressClosed, CheckpointDropped, CollectFinished
    <2>2. CASE Started
      <3>1. Schedule(pending, flight, timer, checkpoint, retry_at, 0, 0, <<>>, TRUE)
        BY <2>2 DEF Started
      <3> QED
        BY <1>1, <2>1, <3>1, QuietPlacement
    <2>3. CASE FlushDue
      <3>1. Schedule(pending, flight, "off", checkpoint, retry_at, 0, 0, <<>>, TRUE)
        BY <2>3 DEF FlushDue
      <3> QED
        BY <1>1, <2>1, <3>1, QuietPlacement
    <2>4. CASE IngressClosed
      <3> DEFINE cancels == checkpoint.state = "preparing"
                 marker  == IF cancels THEN Marker("cancelling", checkpoint.ticket)
                            ELSE checkpoint
                 outputs == IF cancels THEN 1 ELSE 0
      <3>1. Schedule(pending, flight, timer, marker, retry_at, outputs, 0, <<>>, TRUE)
        BY <2>4 DEF IngressClosed
      <3>2. marker = NoCheckpoint => sent_seal' = NoSeal
        BY <1>1, <2>1 DEF Publishing
      <3> HIDE DEF marker, outputs
      <3> QED
        BY <1>1, <2>1, <3>1, <3>2, QuietPlacement
    <2>5. CASE CheckpointDropped
      <3>1. Schedule(pending, flight, timer, NoCheckpoint, retry_at, 0, 0, <<>>, TRUE)
        BY <2>5 DEF CheckpointDropped
      <3>2. ~Publishing
        BY <2>5 DEF CheckpointDropped, Publishing
      <3> QED
        BY <1>1, <2>1, <3>1, <3>2, QuietPlacement
    <2>6. CASE CollectFinished
      <3>1. Schedule(pending, flight, timer, checkpoint, retry_at, 0, 0, <<>>, TRUE)
        BY <2>6 DEF CollectFinished
      <3> QED
        BY <1>1, <2>1, <3>1, QuietPlacement
    <2> QED
      BY <1>3, <2>2, <2>3, <2>4, <2>5, <2>6 DEF QuietNext
  <1>4. CASE CheckpointPrepared
    <2> DEFINE marker == Marker("publishing", checkpoint.ticket)
    <2>1. /\ UNCHANGED <<seal, durable_batch, wal, stored, rival>> /\ UNCHANGED collector
          /\ checkpoint.state = "preparing" /\ sent_seal' = Candidate(checkpoint.ticket)
          /\ Schedule(pending, flight, timer, marker, retry_at, 1, 1, <<>>, TRUE)
      BY <1>4 DEF CheckpointPrepared
    <2>2. sent_seal'.generation = seal.generation + 1
      BY <1>0, <2>1 DEF MarkerShape, NoCheckpoint, Candidate, Seal
    <2>3. marker # NoCheckpoint
      <3>1. marker.state = "publishing" /\ NoCheckpoint.state = "none"
        BY DEF Marker, NoCheckpoint
      <3> QED
        BY <3>1
    <2> HIDE DEF marker
    <2> QED
      BY <2>1, <2>2, <2>3, QuietPlacement
  <1>5. CASE WalDurable
    <2> DEFINE ok == pending.commands = <<>> => admitted = durable'
    <2>1. /\ flight # NoFlight /\ durable_batch' = flight.batch /\ wal[flight.batch].kind = "run"
          /\ UNCHANGED <<seal, wal, stored, rival, sent_seal, collector>>
          /\ Schedule(pending, NoFlight, timer, checkpoint, retry_at, 2, 0, flight.replies, ok)
      BY <1>5 DEF WalDurable, Established
    <2> HIDE DEF ok
    <2>2. /\ durable_batch' = durable_batch + 1 /\ durable_batch' \in Batches
          /\ next_batch = durable_batch' + 1 /\ durable_batch \in Nat /\ durable_batch' \in Nat
      BY <1>0, <2>1 DEF Settled, HeadShape, Numbers, Types, FlightType
    <2>3. sent_wal = {} /\ Creates(sent_wal, wal, durable_batch')
      BY <1>0, <2>1, <2>2 DEF Creates, Batches
    <2>4. Idle(sent_wal, wal, durable_batch')
      BY <1>0, <2>2, <2>3 DEF Creates, Idle, Batches
    <2>5. HeadShape(NoFlight, durable_batch', next_batch)
      BY <2>2 DEF HeadShape
    <2>6. Heads'
      <3>1. wal[durable_batch'] # Vacant
        BY <2>1 DEF Vacant
      <3>2. rival.fence # 0 => durable_batch' < rival.fence
        BY <1>0, <2>1, <2>2 DEF Heads, Batches
      <3> QED
        BY <1>0, <2>1, <3>1, <3>2 DEF Heads, Vacant, Batches
    <2>7. Successors'
      BY <1>0, <2>1 DEF Successors, NoSeal
    <2>8. checkpoint = NoCheckpoint => sent_seal' = NoSeal
      BY <1>1, <2>1
    <2> QED
      BY <1>0, <2>1, <2>2, <2>3, <2>4, <2>5, <2>6, <2>7, <2>8, PlacementNext
  <1>6. CASE SealAuthored
    <2> DEFINE ticket   == checkpoint.ticket
               collects == ingress_open /\ collector = None
               outputs  == IF collects THEN 2 ELSE 1
               effects  == IF collects THEN 1 ELSE 0
               ok       == seal = ticket.source
    <2>1. /\ checkpoint.state = "publishing" /\ Authored /\ seal' = Candidate(ticket)
          /\ UNCHANGED <<durable_batch, wal, stored, rival, sent_seal>>
          /\ collector' = IF collects THEN [from |-> ticket.source.cut, cut |-> ticket.cut]
                          ELSE collector
          /\ Schedule(pending, flight, timer, NoCheckpoint, retry_at, outputs, effects, <<>>, ok)
      BY <1>6 DEF SealAuthored
    <2>2. /\ ticket.source = seal /\ ticket.cut \in Nat
          /\ seal.cut <= ticket.cut /\ ticket.cut <= durable_batch
      BY <1>0, <2>1 DEF MarkerShape, NoCheckpoint
    <2>3. seal'.generation = seal.generation + 1 /\ seal'.cut = ticket.cut
      BY <2>1, <2>2 DEF Candidate, Seal
    <2>4. stored.generation >= seal.generation + 1 /\ rival.generation # seal.generation + 1
      BY <2>1, <2>2 DEF Authored, Candidate, Seal
    <2>5. sent_seal = NoSeal /\ stored.cut = ticket.cut
      BY <1>0, <2>1, <2>4 DEF Lineage, Overtaken, Numbers, Publishing
    <2>6. collector' # None => collector'.cut \in Nat /\ collector'.cut <= seal'.cut
      BY <1>0, <2>1, <2>2, <2>3 DEF Heads, Numbers
    <2> HIDE DEF ok, outputs, effects, collects, ticket
    <2>7. Heads'
      BY <1>0, <2>1, <2>6 DEF Heads, Vacant, Batches
    <2>8. Successors'
      BY <1>0, <2>1, <2>3, <2>4, <2>5 DEF Successors, Numbers, NoSeal
    <2>9. /\ HeadShape(flight, durable_batch', next_batch) /\ durable_batch' \in Nat
          /\ Creates(sent_wal, wal, durable_batch')
          /\ flight = NoFlight => Idle(sent_wal, wal, durable_batch')
      BY <1>0, <2>1 DEF Settled, Numbers, Placement
    <2> QED
      BY <1>0, <2>1, <2>5, <2>7, <2>8, <2>9, PlacementNext
  <1> QED
    BY <1>2, <1>3, <1>4, <1>5, <1>6

-----------------------------------------------------------------------------
(* The environment of the writer. *)

\* A bounded set of naturals has a greatest element, which Max chooses: the
\* coordinate before the first hole is one.
LEMMA Greatest ==
  ASSUME NEW n \in Nat, NEW S, S \subseteq 0 .. n, S # {}
  PROVE  /\ Max(S) \in S
         /\ \A y \in S : y <= Max(S)
<1> DEFINE T == {k \in 0 .. n : n - k \in S}
<1>0. T \subseteq Nat /\ T \subseteq 0 .. n
  OBVIOUS
<1>1. T # {}
  <2>1. PICK s \in S : TRUE
    OBVIOUS
  <2>2. n - s \in 0 .. n /\ n - (n - s) = s
    OBVIOUS
  <2> QED BY <2>2
<1>2. \A k : k \in T <=> k \in 0 .. n /\ n - k \in S
  OBVIOUS
<1> HIDE DEF T
<1>3. PICK m \in T : \A y \in T : m <= y
  BY <1>0, <1>1, Least
<1>4. m \in 0 .. n /\ n - m \in S
  BY <1>0, <1>2
<1>5. ASSUME NEW y \in S PROVE y <= n - m
  <2>1. y \in 0 .. n /\ n - y \in 0 .. n /\ n - (n - y) = y
    OBVIOUS
  <2>2. n - y \in T
    BY <1>2, <2>1
  <2>3. m <= n - y
    BY <1>3, <2>2
  <2> QED BY <2>1, <2>3, <1>4
<1>6. \A y \in S : n - m >= y
  BY <1>5, <1>4
<1>7. \E x \in S : \A y \in S : x >= y
  BY <1>4, <1>6
<1>8. Max(S) \in S /\ \A y \in S : Max(S) >= y
  BY <1>7 DEF Max
<1> QED BY <1>8

\* A rival lists the tail and fences the coordinate after everything it finds,
\* which is after everything the writer holds as durable.
LEMMA FirstHoleIsAfterHead ==
    ASSUME Types, Numbers, Heads
    PROVE  /\ FirstHole \in Nat /\ durable_batch < FirstHole
           /\ FirstHole \in Batches => wal[FirstHole] = Vacant
  <1> DEFINE S == {stored.cut} \cup {b \in Batches : wal[b] # Vacant}
             n == CoordinateMax + stored.cut
  <1>1. S \subseteq 0 .. n /\ S # {} /\ n \in Nat
    BY SuffixAssumption DEF Numbers, Batches
  <1>2. stored.cut \in S /\ \A b \in Batches : wal[b] # Vacant => b \in S
    OBVIOUS
  <1>3. FirstHole = Max(S) + 1
    BY DEF FirstHole
  <1> HIDE DEF S, n
  <1>4. Max(S) \in S /\ \A y \in S : y <= Max(S)
    BY <1>1, Greatest
  <1>5. Max(S) \in Nat
    <2> DEFINE m == Max(S)
    <2>1. m \in S
      BY <1>4
    <2> HIDE DEF m
    <2>2. m \in Nat
      BY <1>1, <2>1
    <2> QED
      BY <2>2 DEF m
  <1>6. durable_batch <= Max(S)
    <2>1. durable_batch \in Batches /\ durable_batch \in Nat /\ stored.cut \in Nat
      BY DEF Types, Numbers
    <2>2. CASE durable_batch > stored.cut
      BY <1>2, <1>4, <2>1, <2>2 DEF Heads
    <2>3. CASE durable_batch <= stored.cut
      <3>1. stored.cut <= Max(S)
        BY <1>2, <1>4
      <3> QED
        BY <1>5, <2>1, <2>3, <3>1
    <2> QED
      BY <2>1, <2>2, <2>3
  <1>7. FirstHole \in Batches => wal[FirstHole] = Vacant
    <2>1. FirstHole \notin S
      BY <1>3, <1>4, <1>5
    <2> QED
      BY <1>2, <2>1
  <1> QED
    BY <1>3, <1>5, <1>6, <1>7 DEF Numbers

\* A late create, the collector and a rival move the store around the head: the
\* collector only below the installed cut, a FENCE only after the head.
LEMMA EnvironmentPlacement ==
    ASSUME InductiveInvariant, Types, Placement, EnvironmentNext
    PROVE  Placement'
  <1>0. /\ Creates(sent_wal, wal, durable_batch) /\ Heads /\ Successors /\ Numbers /\ Lineage
        /\ exit = "none" /\ flight = NoFlight => Idle(sent_wal, wal, durable_batch)
        /\ exit = "Shutdown" => Quiescent
        /\ durable_batch \in Batches
    BY DEF Placement, InductiveInvariant, Types
  <1>1. PICK S : wal \in [Batches -> S]
    BY DEF Placement
  <1>2. UNCHANGED <<seal, admitted, durable, durable_batch, pending, flight, collector, exit>>
    BY DEF EnvironmentNext, IntervalElapses, WalLands, SealLands, CollectRun, RivalClaims,
           RivalFences, machine
  <1>3. CASE IntervalElapses
    <2>1. UNCHANGED <<wal, stored, rival, sent_wal, sent_seal>>
      BY <1>3 DEF IntervalElapses, store
    <2>2. Creates(sent_wal, wal, durable_batch)' /\ Heads' /\ Successors'
      BY <1>0, <1>2, <2>1 DEF Creates, Heads, Successors, Batches, Vacant, NoSeal
    <2>3. (exit = "none" /\ flight = NoFlight)' => Idle(sent_wal, wal, durable_batch)'
      BY <1>0, <1>2, <2>1 DEF Idle, NoFlight, Batches
    <2>4. exit' = "Shutdown" => Quiescent'
      BY <1>0, <1>2, <2>1 DEF Quiescent, NoFlight, NoSeal
    <2>5. (\E T : wal \in [Batches -> T])'
      BY <1>1, <2>1 DEF Batches
    <2> QED
      BY <2>2, <2>3, <2>4, <2>5 DEF Placement
  <1>4. ASSUME NEW create \in sent_wal, WalLands(create)
        PROVE  Placement'
    <2>1. /\ sent_wal' = sent_wal \ {create} /\ UNCHANGED <<stored, rival, sent_seal>>
          /\ wal' = IF wal[create.batch] = Vacant
                    THEN [wal EXCEPT ![create.batch] = RunBody(create.facts)] ELSE wal
      BY <1>4 DEF WalLands
    <2>2. create.batch = durable_batch + 1 /\ create.batch \in Batches /\ sent_wal' = {}
      BY <1>0, <2>1 DEF Creates
    <2>3. RunBody(create.facts).kind = "run" /\ RunBody(create.facts) # Vacant
          /\ Vacant.kind = "vacant"
      BY DEF RunBody, Vacant
    <2>4. \A b \in Batches : b # create.batch => wal'[b] = wal[b]
      BY <1>1, <2>1, <2>2
    <2>5. wal' \in [Batches -> S \cup {RunBody(create.facts)}]
      BY <1>1, <2>1, <2>2
    <2>6. wal[create.batch] # Vacant => wal' = wal
      BY <2>1
    <2>7. exit # "Shutdown" /\ (exit = "none" => flight # NoFlight)
      BY <1>0 DEF Quiescent, Idle
    <2>8. Creates(sent_wal', wal', durable_batch')
      BY <1>0, <1>2, <2>2, <2>4 DEF Creates
    <2>9. durable_batch # create.batch
      BY <2>2 DEF Batches
    <2>10. /\ durable_batch > stored.cut => wal'[durable_batch] # Vacant
           /\ rival.fence # 0 => wal'[rival.fence].kind = "fence"
      <3>1. durable_batch > stored.cut => wal'[durable_batch] # Vacant
        BY <1>0, <2>4, <2>9 DEF Heads
      <3>2. CASE rival.fence # create.batch
        BY <1>0, <2>4, <3>1, <3>2 DEF Heads
      <3>3. CASE rival.fence = create.batch /\ rival.fence # 0
        <4>1. wal[create.batch].kind = "fence"
          BY <1>0, <3>3 DEF Heads
        <4>2. wal' = wal
          BY <2>3, <2>6, <4>1
        <4> QED
          BY <3>1, <3>3, <4>1, <4>2
      <3> QED
        BY <3>1, <3>2, <3>3
    <2>11. Heads'
      BY <1>0, <1>2, <2>1, <2>10 DEF Heads, Batches, Vacant
    <2>12. Successors'
      BY <1>0, <1>2, <2>1 DEF Successors, NoSeal
    <2>13. Creates(sent_wal, wal, durable_batch)'
      BY <2>8 DEF Creates, Batches
    <2>14. (\E T : wal \in [Batches -> T])'
      BY <2>5 DEF Batches
    <2>15. exit' # "Shutdown" /\ ~(exit' = "none" /\ flight' = NoFlight)
      BY <1>2, <2>7
    <2> QED
      BY <2>11, <2>12, <2>13, <2>14, <2>15 DEF Placement, NoFlight
  <1>5. CASE SealLands
    <2>1. /\ sent_seal # NoSeal /\ sent_seal' = NoSeal /\ UNCHANGED <<wal, rival, sent_wal>>
          /\ stored' = IF stored.generation + 1 = sent_seal.generation THEN sent_seal ELSE stored
      BY <1>5 DEF SealLands
    <2>2. CASE stored' = stored
      <3>1. Heads' /\ Successors'
        BY <1>0, <1>2, <2>1, <2>2 DEF Heads, Successors, Batches, Vacant, NoSeal
      <3> QED
        BY <3>1, <1>0, <1>1, <1>2, <2>1
        DEF Placement, Creates, Idle, Quiescent, Batches, NoFlight, NoSeal
    <2>3. CASE stored' = sent_seal /\ stored.generation + 1 = sent_seal.generation
      <3>1. /\ sent_seal.generation = seal.generation + 1
            /\ stored.cut = seal.cut /\ seal.cut <= sent_seal.cut /\ sent_seal.cut \in Nat
        BY <1>0, <2>1, <2>3 DEF Successors, Lineage, Numbers
      <3>2. Heads'
        BY <1>0, <1>2, <2>1, <2>3, <3>1 DEF Heads, Numbers, Batches, Vacant
      <3>3. Successors'
        BY <1>0, <1>2, <2>1, <2>3, <3>1 DEF Successors, Numbers, NoSeal
      <3> QED
        BY <3>2, <3>3, <1>0, <1>1, <1>2, <2>1
        DEF Placement, Creates, Idle, Quiescent, Batches, NoFlight, NoSeal
    <2> QED
      BY <2>1, <2>2, <2>3
  <1>6. ASSUME NEW batch \in Batches, CollectRun(batch)
        PROVE  Placement'
    <2>1. /\ exit = "none" /\ collector # None /\ batch \in collector.from + 1 .. collector.cut
          /\ wal' = [wal EXCEPT ![batch] = Vacant]
          /\ UNCHANGED <<stored, rival, sent_wal, sent_seal>>
      BY <1>6 DEF CollectRun, Running
    <2>2. wal' \in [Batches -> S \cup {Vacant}] /\ \A b \in Batches : b # batch => wal'[b] = wal[b]
      BY <1>1, <2>1
    <2>3. batch <= stored.cut /\ batch <= durable_batch
      BY <1>0, <2>1 DEF Heads, Numbers, Lineage, Batches
    <2>4. \A b \in Batches : b > durable_batch => wal'[b] = wal[b]
      BY <1>0, <2>2, <2>3 DEF Batches
    <2>5. UNCHANGED <<stored, rival, sent_wal, sent_seal>> /\ exit = "none"
      BY <2>1
    <2>6. durable_batch > stored.cut => wal'[durable_batch] = wal[durable_batch]
      BY <1>0, <2>2, <2>3 DEF Numbers, Batches
    <2>7. Heads'
      BY <1>0, <1>2, <2>4, <2>5, <2>6 DEF Heads, Batches, Vacant
    <2>8. Successors'
      BY <1>0, <1>2, <2>5 DEF Successors, NoSeal
    <2>9. Creates(sent_wal, wal, durable_batch)'
      BY <1>0, <1>2, <2>4, <2>5 DEF Creates, Batches
    <2>10. flight' = NoFlight => Idle(sent_wal, wal, durable_batch)'
      BY <1>0, <1>2, <2>4, <2>5 DEF Idle, Batches
    <2>11. (\E T : wal \in [Batches -> T])'
      BY <2>2 DEF Batches
    <2> QED
      BY <1>2, <2>5, <2>7, <2>8, <2>9, <2>10, <2>11 DEF Placement, NoFlight
  <1>7. CASE RivalClaims
    <2>1. /\ UNCHANGED <<wal, sent_wal, sent_seal>>
          /\ rival'.fence = rival.fence /\ stored'.cut = stored.cut
          /\ stored'.generation = stored.generation + 1
      BY <1>7 DEF RivalClaims, Seal
    <2>2. Heads'
      BY <1>0, <1>2, <2>1 DEF Heads, Batches, Vacant
    <2>3. Successors'
      BY <1>0, <1>2, <2>1 DEF Successors, Numbers, NoSeal
    <2> QED
      BY <2>2, <2>3, <1>0, <1>1, <1>2, <2>1
      DEF Placement, Creates, Idle, Quiescent, Batches, NoFlight, NoSeal
  <1>8. CASE RivalFences
    <2> DEFINE hole == FirstHole
    <2>1. /\ BoundTakeoverFence(stored.cut, hole) = "Bounded"
          /\ rival'.fence = hole
          /\ wal' = [wal EXCEPT ![hole] = FenceBody]
          /\ UNCHANGED <<stored, sent_wal, sent_seal>>
      BY <1>8 DEF RivalFences
    <2>2. hole \in Nat /\ durable_batch < hole /\ (hole \in Batches => wal[hole] = Vacant)
      BY <1>0, FirstHoleIsAfterHead
    <2> HIDE DEF hole
    <2>3. hole \in Batches
      BY <1>0, <2>1, <2>2, SuffixAssumption DEF BoundTakeoverFence, HasSuccessor, Batches
    <2>4. /\ wal' \in [Batches -> S \cup {FenceBody}] /\ wal'[hole] = FenceBody
          /\ \A b \in Batches : b # hole => wal'[b] = wal[b]
      BY <1>1, <2>1, <2>3
    <2>5. UNCHANGED <<stored, sent_wal, sent_seal>> /\ rival'.fence = hole
      BY <2>1
    <2>6. FenceBody.kind = "fence"
      BY DEF FenceBody
    <2>7. durable_batch > stored.cut => wal'[durable_batch] # Vacant
      BY <1>0, <2>2, <2>4 DEF Heads, Batches
    <2>8. Heads'
      BY <1>0, <1>2, <2>2, <2>3, <2>4, <2>5, <2>6, <2>7 DEF Heads, Batches, Vacant
    <2>9. Successors'
      BY <1>0, <1>2, <2>5 DEF Successors, NoSeal
    <2>10. \A b \in Batches : wal'[b].kind = "run" => wal'[b] = wal[b]
      BY <2>4, <2>6
    <2>11. Creates(sent_wal, wal, durable_batch)'
      BY <1>0, <1>2, <2>5, <2>10 DEF Creates, Batches
    <2>12. (exit = "none" /\ flight = NoFlight)' => Idle(sent_wal, wal, durable_batch)'
      BY <1>0, <1>2, <2>5, <2>10 DEF Idle, Batches, NoFlight
    <2>13. exit' = "Shutdown" => Quiescent'
      BY <1>0, <1>2, <2>5 DEF Quiescent, NoFlight, NoSeal
    <2>14. (\E T : wal \in [Batches -> T])'
      BY <2>4 DEF Batches
    <2> QED
      BY <2>8, <2>9, <2>11, <2>12, <2>13, <2>14 DEF Placement
  <1> QED
    BY <1>3, <1>4, <1>5, <1>6, <1>7, <1>8 DEF EnvironmentNext

\* A machine that ends by a failure drops its waiters; creates it has sent stay
\* under way, one at most.
LEMMA FatalPlacement ==
    ASSUME Placement, FatalNext \/ UNCHANGED vars
    PROVE  Placement'
  <1>1. CASE FatalNext
    <2>1. /\ exit' \notin {"none", "Shutdown"}
          /\ UNCHANGED <<seal, durable_batch, collector, wal, stored, rival, sent_wal, sent_seal>>
      BY <1>1 DEF FatalNext, WalFailed, SealFailed, CheckpointContradicted, Terminate, store
    <2> QED
      BY <2>1 DEF Placement, Creates, Heads, Successors, Batches, Vacant, NoSeal
  <1>2. CASE UNCHANGED vars
    <2>1. /\ UNCHANGED <<seal, admitted, durable, durable_batch, pending, flight, collector, exit>>
          /\ UNCHANGED <<wal, stored, rival, sent_wal, sent_seal>>
      BY <1>2 DEF vars, machine, store
    <2> QED
      BY <2>1 DEF Placement, Creates, Idle, Heads, Successors, Quiescent, Batches, Vacant,
                  NoSeal, NoFlight
  <1> QED
    BY <1>1, <1>2

\* A bootstrap hands over a head at its own FENCE with nothing after it.
LEMMA InitPlacement == Init => Placement
  <1> SUFFICES ASSUME Init PROVE Placement
    OBVIOUS
  <1>1. PICK head \in Batches :
          /\ seal = Seal(head + 1, 0, Empty) /\ stored = seal
          /\ durable_batch = head /\ collector = None
          /\ wal = [b \in Batches |-> IF b <= head THEN FenceBody ELSE Vacant]
          /\ rival = [generation |-> 0, fence |-> 0]
          /\ sent_wal = {} /\ sent_seal = NoSeal /\ exit = "none"
    BY DEF Init
  <1>2. /\ FenceBody.kind = "fence" /\ Vacant.kind = "vacant"
        /\ rival.fence = 0 /\ seal.generation = head + 1 /\ stored.generation = seal.generation
        /\ stored.cut = seal.cut /\ seal.cut = 0
    BY <1>1 DEF FenceBody, Vacant, Seal
  <1>3. wal \in [Batches -> {FenceBody, Vacant}] /\ wal[head] = FenceBody
        /\ \A b \in Batches : wal[b].kind # "run"
    BY <1>1, <1>2 DEF Batches
  <1>4. Creates(sent_wal, wal, durable_batch) /\ Idle(sent_wal, wal, durable_batch)
    BY <1>1, <1>3 DEF Creates, Idle
  <1>5. Heads
    BY <1>1, <1>2, <1>3 DEF Heads
  <1>6. Successors
    BY <1>1, <1>2 DEF Successors, Batches
  <1> QED
    BY <1>1, <1>3, <1>4, <1>5, <1>6 DEF Placement

\* Every step keeps the placement of the store around the head.
LEMMA NextPlacement == InductiveInvariant /\ Types /\ Placement /\ [Next]_vars => Placement'
  <1> SUFFICES ASSUME InductiveInvariant, Types, Placement, [Next]_vars PROVE Placement'
    OBVIOUS
  <1>0. InductiveInvariant'
    BY NextKeeps
  <1>1. CASE \/ \E cmd \in Commands : Command(cmd)
             \/ QuietNext \/ WalDurable \/ CheckpointPrepared \/ SealAuthored
    <2>1. exit = "none"
      BY <1>1 DEF Command, AcceptFact, ShedFact, AnswerIdempotent, QueueIdempotent, Refuse,
                  TakesCommand, QuietNext, Started, FlushDue, IngressClosed, CheckpointDropped,
                  CollectFinished, WalDurable, CheckpointPrepared, SealAuthored, Running
    <2> QED
      BY <1>0, <1>1, <2>1, EventPlacement
  <1>2. CASE FatalNext \/ UNCHANGED vars
    BY <1>2, FatalPlacement
  <1>3. CASE EnvironmentNext
    BY <1>3, EnvironmentPlacement
  <1> QED
    BY <1>1, <1>2, <1>3
    DEF Next, QuietNext, FatalNext, EnvironmentNext, WalEstablished, PreparationEnds,
        SealPublished

-----------------------------------------------------------------------------
(* The theorems of delivery. *)

\* The invariants of delivery hold of the specification, with the ones below.
LEMMA DeliveryInvariant == Spec => [](InductiveInvariant /\ Types /\ Answers /\ Placement)
  <1>1. Spec => []Types
    BY WriterInvariant, InitTypes, NextTypes, PTL DEF Spec
  <1>2. Spec => []Answers
    BY <1>1, WriterInvariant, InitAnswers, NextAnswers, PTL DEF Spec
  <1>3. Spec => []Placement
    BY <1>1, WriterInvariant, InitPlacement, NextPlacement, PTL DEF Spec
  <1> QED
    BY <1>1, <1>2, <1>3, WriterInvariant, PTL

\* Successes are released in the order in which the machine admitted the
\* commands, and each once: drain_pending takes a whole barrier, an idempotent
\* success never overtakes the facts it waits behind.
THEOREM AckedAlwaysInOrder == Spec => []AckedInOrder
  <1>1. Answers => AckedInOrder
    BY DEF Answers, Orderly, Ordered, AckedInOrder
  <1> QED
    BY <1>1, DeliveryInvariant, PTL

\* Every reply that was ever released is true of the view that is published at
\* the moment: the view goes out before the reply, a promise that a decision
\* made over the admitted forest is kept by every later fold.
THEOREM AckedAlwaysVisible == Spec => []AckedIsVisible
  <1>1. Answers => AckedIsVisible
    BY DEF Answers, Promised, Kept, AckedIsVisible
  <1> QED
    BY <1>1, DeliveryInvariant, PTL

\* Once a rival has its FENCE in the store, the writer holds nothing at or after
\* it as durable, whatever creates are still under way: establish_wal finds the
\* FENCE at the coordinate of the flight.
THEOREM NothingEverAckedPastFence == Spec => []NothingAckedPastFence
  <1>1. Placement => NothingAckedPastFence
    BY DEF Placement, Heads, NothingAckedPastFence
  <1> QED
    BY <1>1, DeliveryInvariant, PTL

\* A shutdown leaves no create under way and no command waiting: the machine
\* exits only from the schedule that finds barrier, flight and marker empty.
THEOREM ShutdownAlwaysQuiescent == Spec => []ShutdownIsQuiescent
  <1>1. Placement => ShutdownIsQuiescent
    <2> SUFFICES ASSUME Placement, exit = "Shutdown" PROVE ShutdownIsQuiescent
      BY DEF ShutdownIsQuiescent
    <2>1. Quiescent
      BY DEF Placement
    <2>2. pending.commands = <<>> /\ flight = NoFlight
      BY <2>1 DEF Quiescent
    <2>3. \A id : ~Queued(id)
      <3>1. 1 .. Len(<<>>) = {}
        OBVIOUS
      <3> QED
        BY <2>2, <3>1 DEF Queued
    <2> QED
      BY <2>1, <2>3 DEF ShutdownIsQuiescent, Quiescent
  <1> QED
    BY <1>1, DeliveryInvariant, PTL

-----------------------------------------------------------------------------
(* Recovery.  At every moment the store alone holds what the machine holds *)
(* as durable.  The replay of a RUN and of the suffix are recursive        *)
(* functions, so the first lemmas say that they are defined, and what one  *)
(* more fact or one more object does to them.                              *)
(*                                                                         *)
(* The invariant Recovery follows the facts from the barrier to the store: *)
(* the queued facts lead from the flight's forest to the admitted one      *)
(* (Chain), the facts of the flight's create from the durable one to the   *)
(* flight's (Leads), and every Seal that is or may become the newest       *)
(* replays to the durable forest at the durable head (History).            *)

IsFacts(f, commands, n) ==
    f = [i \in 0 .. n |-> IF i = 0 THEN <<>> ELSE PushedFact(f[i - 1], commands[i])]
IsFolded(f, forest, batch, facts, n) ==
    f = [i \in 0 .. n |-> IF i = 0 THEN forest ELSE FoldReplayFact(f[i - 1], batch, facts[i])]
IsReplay(f, cut, content, n) ==
    f = [b \in cut .. n |-> IF b = cut THEN content ELSE Replayed(f[b - 1], b)]

\* A sequence with one more member at its end.
EndsWith(more, s, x) ==
    /\ Len(s) \in Nat /\ Len(more) = Len(s) + 1 /\ more[Len(s) + 1] = x
    /\ \A i \in 1 .. Len(s) : more[i] = s[i]

\* The facts of a barrier are defined for barriers of any length.
LEMMA FactsExist ==
    ASSUME NEW commands, NEW n \in Nat
    PROVE  \E f : IsFacts(f, commands, n)
  <1> DEFINE T == {k \in 0 .. n : \E f : IsFacts(f, commands, k)}
  <1>1. 0 \in T
    <2> DEFINE f == [i \in 0 .. 0 |-> <<>>]
    <2>1. IsFacts(f, commands, 0)
      BY DEF IsFacts
    <2> QED
      BY <2>1
  <1>2. ASSUME NEW k \in 0 + 1 .. n, k - 1 \in T PROVE k \in T
    <2>1. PICK g : IsFacts(g, commands, k - 1)
      BY <1>2
    <2> DEFINE f == [i \in 0 .. k |-> IF i = k THEN PushedFact(g[k - 1], commands[k]) ELSE g[i]]
    <2>2. \A i \in 0 .. k : f[i] = IF i = 0 THEN <<>> ELSE PushedFact(f[i - 1], commands[i])
      BY <2>1 DEF IsFacts
    <2>3. IsFacts(f, commands, k)
      BY <2>2 DEF IsFacts
    <2> QED
      BY <2>3
  <1> HIDE DEF T
  <1>3. n \in T
    BY <1>1, <1>2, Induct
  <1> QED
    BY <1>3 DEF T

\* So is the replay of a RUN.
LEMMA FoldedExist ==
    ASSUME NEW forest, NEW batch, NEW facts, NEW n \in Nat
    PROVE  \E f : IsFolded(f, forest, batch, facts, n)
  <1> DEFINE T == {k \in 0 .. n : \E f : IsFolded(f, forest, batch, facts, k)}
  <1>1. 0 \in T
    <2> DEFINE f == [i \in 0 .. 0 |-> forest]
    <2>1. IsFolded(f, forest, batch, facts, 0)
      BY DEF IsFolded
    <2> QED
      BY <2>1
  <1>2. ASSUME NEW k \in 0 + 1 .. n, k - 1 \in T PROVE k \in T
    <2>1. PICK g : IsFolded(g, forest, batch, facts, k - 1)
      BY <1>2
    <2> DEFINE f == [i \in 0 .. k |-> IF i = k THEN FoldReplayFact(g[k - 1], batch, facts[k])
                                      ELSE g[i]]
    <2>2. \A i \in 0 .. k :
            f[i] = IF i = 0 THEN forest ELSE FoldReplayFact(f[i - 1], batch, facts[i])
      BY <2>1 DEF IsFolded
    <2>3. IsFolded(f, forest, batch, facts, k)
      BY <2>2 DEF IsFolded
    <2> QED
      BY <2>3
  <1> HIDE DEF T
  <1>3. n \in T
    BY <1>1, <1>2, Induct
  <1> QED
    BY <1>3 DEF T

\* So is the replay of the suffix.
LEMMA ReplayExists ==
    ASSUME NEW cut \in Nat, NEW content, NEW n \in Nat, cut <= n
    PROVE  \E f : IsReplay(f, cut, content, n)
  <1> DEFINE T == {k \in cut .. n : \E f : IsReplay(f, cut, content, k)}
  <1>1. cut \in T
    <2> DEFINE f == [i \in cut .. cut |-> content]
    <2>1. IsReplay(f, cut, content, cut)
      BY DEF IsReplay
    <2> QED
      BY <2>1
  <1>2. ASSUME NEW k \in cut + 1 .. n, k - 1 \in T PROVE k \in T
    <2>1. PICK g : IsReplay(g, cut, content, k - 1)
      BY <1>2
    <2> DEFINE f == [i \in cut .. k |-> IF i = k THEN Replayed(g[k - 1], k) ELSE g[i]]
    <2>2. \A i \in cut .. k : f[i] = IF i = cut THEN content ELSE Replayed(f[i - 1], i)
      BY <2>1 DEF IsReplay
    <2>3. IsReplay(f, cut, content, k)
      BY <2>2 DEF IsReplay
    <2> QED
      BY <2>3
  <1> HIDE DEF T
  <1>3. n \in T
    BY <1>1, <1>2, Induct
  <1> QED
    BY <1>3 DEF T

\* Append leaves the other members where they are.
LEMMA AppendEnds ==
    ASSUME NEW s, IsSequence(s), NEW x
    PROVE  EndsWith(Append(s, x), s, x)
  BY DEF IsSequence, EndsWith

\* One more command adds its fact, if it has one.
LEMMA BarrierFactsGrow ==
    ASSUME NEW b, NEW c, NEW command, EndsWith(c.commands, b.commands, command)
    PROVE  BarrierFacts(c) = PushedFact(BarrierFacts(b), command)
  <1> DEFINE n == Len(b.commands)
  <1>1. /\ n \in Nat /\ Len(c.commands) = n + 1 /\ c.commands[n + 1] = command
        /\ \A i \in 1 .. n : c.commands[i] = b.commands[i]
    BY DEF EndsWith
  <1>2. PICK f : IsFacts(f, b.commands, n) /\ BarrierFacts(b) = f[n]
    <2>1. \E f : IsFacts(f, b.commands, n)
      BY <1>1, FactsExist
    <2> QED
      BY <2>1 DEF IsFacts, BarrierFacts
  <1>3. PICK g : IsFacts(g, c.commands, n + 1) /\ BarrierFacts(c) = g[n + 1]
    <2>0. n + 1 \in Nat
      BY <1>1
    <2>1. \E g : IsFacts(g, c.commands, n + 1)
      BY <2>0, FactsExist
    <2> QED
      BY <1>1, <2>1 DEF IsFacts, BarrierFacts
  <1> HIDE DEF n
  <1>4. \A i \in 0 .. n : i \in {j \in 0 .. n : f[j] = g[j]}
    <2> DEFINE T == {j \in 0 .. n : f[j] = g[j]}
    <2>1. 0 \in T
      BY <1>1, <1>2, <1>3 DEF IsFacts
    <2>2. ASSUME NEW i \in 0 + 1 .. n, i - 1 \in T PROVE i \in T
      <3>1. f[i] = PushedFact(f[i - 1], b.commands[i])
        BY <1>1, <1>2 DEF IsFacts
      <3>2. g[i] = PushedFact(g[i - 1], c.commands[i])
        BY <1>1, <1>3 DEF IsFacts
      <3> QED
        BY <1>1, <2>2, <3>1, <3>2
    <2> HIDE DEF T
    <2>3. \A i \in 0 .. n : i \in T
      BY <1>1, <2>1, <2>2, Induct
    <2> QED
      BY <2>3 DEF T
  <1>5. g[n + 1] = PushedFact(g[n], command)
    BY <1>1, <1>3 DEF IsFacts
  <1> QED
    BY <1>1, <1>2, <1>3, <1>4, <1>5

\* One more fact is folded on top of the others.
LEMMA FoldedGrow ==
    ASSUME NEW forest, NEW batch, NEW facts, NEW fact, NEW more,
           EndsWith(more, facts, fact)
    PROVE  FoldReplayFacts(forest, batch, more)
             = FoldReplayFact(FoldReplayFacts(forest, batch, facts), batch, fact)
  <1> DEFINE n == Len(facts)
  <1>1. /\ n \in Nat /\ Len(more) = n + 1 /\ more[n + 1] = fact
        /\ \A i \in 1 .. n : more[i] = facts[i]
    BY DEF EndsWith
  <1>2. PICK f : IsFolded(f, forest, batch, facts, n)
                   /\ FoldReplayFacts(forest, batch, facts) = f[n]
    <2>1. \E f : IsFolded(f, forest, batch, facts, n)
      BY <1>1, FoldedExist
    <2> QED
      BY <2>1 DEF IsFolded, FoldReplayFacts
  <1>3. PICK g : IsFolded(g, forest, batch, more, n + 1)
                   /\ FoldReplayFacts(forest, batch, more) = g[n + 1]
    <2>1. \E g : IsFolded(g, forest, batch, more, n + 1)
      BY <1>1, FoldedExist
    <2> QED
      BY <1>1, <2>1 DEF IsFolded, FoldReplayFacts
  <1> HIDE DEF n
  <1>4. \A i \in 0 .. n : i \in {j \in 0 .. n : f[j] = g[j]}
    <2> DEFINE T == {j \in 0 .. n : f[j] = g[j]}
    <2>1. 0 \in T
      BY <1>1, <1>2, <1>3 DEF IsFolded
    <2>2. ASSUME NEW i \in 0 + 1 .. n, i - 1 \in T PROVE i \in T
      <3>1. f[i] = FoldReplayFact(f[i - 1], batch, facts[i])
        BY <1>1, <1>2 DEF IsFolded
      <3>2. g[i] = FoldReplayFact(g[i - 1], batch, more[i])
        BY <1>1, <1>3 DEF IsFolded
      <3> QED
        BY <1>1, <2>2, <3>1, <3>2
    <2> HIDE DEF T
    <2>3. \A i \in 0 .. n : i \in T
      BY <1>1, <2>1, <2>2, Induct
    <2> QED
      BY <2>3 DEF T
  <1>5. g[n + 1] = FoldReplayFact(g[n], batch, fact)
    BY <1>1, <1>3 DEF IsFolded
  <1> QED
    BY <1>1, <1>2, <1>3, <1>4, <1>5

\* A barrier without commands has no facts, and no facts change nothing.
LEMMA NoFacts ==
    ASSUME NEW forest, NEW batch
    PROVE  /\ BarrierFacts(EmptyBarrier) = <<>>
           /\ FoldReplayFacts(forest, batch, <<>>) = forest
  <1>1. Len(<<>>) = 0 /\ EmptyBarrier.commands = <<>>
    BY DEF EmptyBarrier
  <1>2. PICK f : IsFacts(f, <<>>, 0) /\ BarrierFacts(EmptyBarrier) = f[0]
    <2>1. \E f : IsFacts(f, <<>>, 0)
      BY FactsExist
    <2> QED
      BY <1>1, <2>1 DEF IsFacts, BarrierFacts
  <1>3. PICK g : IsFolded(g, forest, batch, <<>>, 0)
                   /\ FoldReplayFacts(forest, batch, <<>>) = g[0]
    <2>1. \E g : IsFolded(g, forest, batch, <<>>, 0)
      BY FoldedExist
    <2> QED
      BY <1>1, <2>1 DEF IsFolded, FoldReplayFacts
  <1> QED
    BY <1>2, <1>3 DEF IsFacts, IsFolded

-----------------------------------------------------------------------------
(* Replay from a Seal's content over the RUNs and FENCEs after its cut. *)

Replays(w, cut, content, head, forest) ==
    \E h : /\ h[cut] = content /\ h[head] = forest
           /\ \A b \in cut + 1 .. head :
                w[b] # Vacant /\ h[b] = FoldReplayFacts(h[b - 1], b, w[b].facts)

\* Nothing to replay.
LEMMA ReplaysNothing ==
    ASSUME NEW w, NEW cut \in Nat, NEW forest
    PROVE  Replays(w, cut, forest, cut, forest)
  <1> DEFINE h == [i \in {cut} |-> forest]
  <1>1. h[cut] = forest /\ cut + 1 .. cut = {}
    OBVIOUS
  <1> QED
    BY <1>1 DEF Replays

\* One more object behind those that were replayed.
LEMMA ReplaysRun ==
    ASSUME NEW w, NEW cut \in Nat, NEW head \in Nat, cut <= head, NEW content, NEW forest,
           Replays(w, cut, content, head, forest), w[head + 1] # Vacant
    PROVE  Replays(w, cut, content, head + 1, FoldReplayFacts(forest, head + 1, w[head + 1].facts))
  <1>1. PICK h : /\ h[cut] = content /\ h[head] = forest
                 /\ \A b \in cut + 1 .. head :
                      w[b] # Vacant /\ h[b] = FoldReplayFacts(h[b - 1], b, w[b].facts)
    BY DEF Replays
  <1> DEFINE last == FoldReplayFacts(forest, head + 1, w[head + 1].facts)
             g == [i \in cut .. head + 1 |-> IF i = head + 1 THEN last ELSE h[i]]
  <1>2. g[cut] = content /\ g[head + 1] = last /\ g[head] = forest
    BY <1>1
  <1>3. ASSUME NEW b \in cut + 1 .. head + 1
        PROVE  w[b] # Vacant /\ g[b] = FoldReplayFacts(g[b - 1], b, w[b].facts)
    <2>1. CASE b = head + 1
      BY <1>2, <2>1
    <2>2. CASE b # head + 1
      <3>1. b \in cut + 1 .. head /\ g[b] = h[b] /\ g[b - 1] = h[b - 1]
        BY <2>2
      <3> QED
        BY <1>1, <3>1
    <2> QED
      BY <2>1, <2>2
  <1> HIDE DEF g
  <1> QED
    BY <1>2, <1>3 DEF Replays

\* Objects at or below the cut, or after the head, do not matter.
LEMMA ReplaysSame ==
    ASSUME NEW w, NEW v, NEW cut, NEW content, NEW head, NEW forest,
           Replays(w, cut, content, head, forest),
           \A b \in cut + 1 .. head : v[b] = w[b]
    PROVE  Replays(v, cut, content, head, forest)
  BY DEF Replays

\* What bootstrap recovers, when the Seal's content replays to forest at head and
\* nothing but FENCEs follows the coordinate after it.
LEMMA RecoveredFrom ==
    ASSUME NEW head, NEW forest,
           stored.cut \in Nat, head \in Nat, stored.cut <= head, head <= CoordinateMax,
           Replays(wal, stored.cut, stored.content, head, forest),
           \A b \in Batches : wal[b].kind # "run" => wal[b].facts = <<>>,
           \A b \in Batches : b > head + 1 => wal[b].kind # "run"
    PROVE  Recovered = IF head + 1 \in Batches /\ wal[head + 1].kind = "run"
                       THEN FoldReplayFacts(forest, head + 1, wal[head + 1].facts)
                       ELSE forest
  <1> DEFINE cut == stored.cut
             next == head + 1
             last == IF next \in Batches /\ wal[next].kind = "run"
                     THEN FoldReplayFacts(forest, next, wal[next].facts) ELSE forest
  <1>0. cut \in Nat /\ CoordinateMax \in Nat /\ cut <= CoordinateMax /\ next \in Nat
    BY SuffixAssumption
  <1>1. PICK f : IsReplay(f, cut, stored.content, CoordinateMax) /\ Recovered = f[CoordinateMax]
    <2>1. \E f : IsReplay(f, cut, stored.content, CoordinateMax)
      BY <1>0, ReplayExists
    <2> QED
      BY <2>1 DEF IsReplay, Recovered
  <1>2. PICK h : /\ h[cut] = stored.content /\ h[head] = forest
                 /\ \A b \in cut + 1 .. head :
                      wal[b] # Vacant /\ h[b] = FoldReplayFacts(h[b - 1], b, wal[b].facts)
    BY DEF Replays
  <1>3. /\ f[cut] = stored.content
        /\ \A b \in cut + 1 .. CoordinateMax : f[b] = Replayed(f[b - 1], b)
    BY <1>0, <1>1 DEF IsReplay
  <1>4. f[head] = forest
    <2> DEFINE T == {b \in cut .. head : f[b] = h[b]}
    <2>1. cut \in T
      BY <1>2, <1>3
    <2>2. ASSUME NEW b \in cut + 1 .. head, b - 1 \in T PROVE b \in T
      <3>1. Suffix(b)
        BY <1>2 DEF Suffix
      <3>2. b \in cut + 1 .. CoordinateMax
        BY <1>0
      <3>3. f[b] = FoldReplayFacts(f[b - 1], b, wal[b].facts)
        BY <1>3, <3>1, <3>2 DEF Replayed
      <3> QED
        BY <1>2, <2>2, <3>3
    <2> HIDE DEF T
    <2>3. \A b \in cut .. head : b \in T
      BY <1>0, <2>1, <2>2, Induct
    <2> QED
      BY <1>2, <2>3 DEF T
  <1>5. next <= CoordinateMax => f[next] = last
    <2> SUFFICES ASSUME next <= CoordinateMax PROVE f[next] = last
      OBVIOUS
    <2>1. next \in cut + 1 .. CoordinateMax /\ next \in Batches /\ next - 1 = head
      BY <1>0 DEF Batches
    <2>2. f[next] = Replayed(forest, next)
      BY <1>3, <1>4, <2>1
    <2>3. CASE wal[next].kind = "run"
      <3>1. wal[next] # Vacant
        BY <2>3 DEF Vacant
      <3>2. Suffix(next)
        BY <1>2, <2>1, <3>1 DEF Suffix
      <3> QED
        BY <2>1, <2>2, <2>3, <3>2 DEF Replayed
    <2>4. CASE wal[next].kind # "run"
      <3>1. FoldReplayFacts(forest, next, wal[next].facts) = forest
        BY <2>1, <2>4, NoFacts
      <3> QED
        BY <2>2, <2>4, <3>1 DEF Replayed
    <2> QED
      BY <2>3, <2>4
  <1>6. next <= CoordinateMax => f[CoordinateMax] = last
    <2> SUFFICES ASSUME next <= CoordinateMax PROVE f[CoordinateMax] = last
      OBVIOUS
    <2> HIDE DEF last
    <2> DEFINE T == {b \in next .. CoordinateMax : f[b] = last}
    <2>1. next \in T
      BY <1>0, <1>5
    <2>2. ASSUME NEW b \in next + 1 .. CoordinateMax, b - 1 \in T PROVE b \in T
      <3>1. b \in Batches /\ b > head + 1 /\ b \in cut + 1 .. CoordinateMax
        BY <1>0 DEF Batches
      <3>2. FoldReplayFacts(f[b - 1], b, wal[b].facts) = f[b - 1]
        BY <3>1, NoFacts
      <3>3. f[b] = f[b - 1]
        BY <1>3, <3>1, <3>2 DEF Replayed
      <3> QED
        BY <2>2, <3>3
    <2> HIDE DEF T
    <2>3. \A b \in next .. CoordinateMax : b \in T
      BY <1>0, <2>1, <2>2, Induct
    <2> QED
      BY <1>0, <2>3 DEF T
  <1>7. CASE next <= CoordinateMax
    BY <1>1, <1>6, <1>7
  <1>8. CASE ~(next <= CoordinateMax)
    <2>1. head = CoordinateMax /\ next \notin Batches
      BY <1>0, <1>8 DEF Batches
    <2> QED
      BY <1>1, <1>4, <2>1
  <1> QED
    BY <1>7, <1>8

-----------------------------------------------------------------------------
(* Recovery: what the store holds replays to what the machine holds.       *)

Bodies(w) == \A b \in Batches : w[b].kind # "run" => w[b].facts = <<>>

\* The newest Seal, the one on its way and the one being prepared all replay to
\* the durable forest d at the durable head.
History(newest, sent, c, w, head, d) ==
    /\ Replays(w, newest.cut, newest.content, head, d)
    /\ sent # NoSeal => Replays(w, sent.cut, sent.content, head, d)
    /\ c # NoCheckpoint => Replays(w, c.ticket.cut, c.ticket.snapshot, head, d)

\* What the RUN after the head leads to, on its way or placed.
Leads(sent, w, head, d, forest) ==
    /\ \A create \in sent : FoldReplayFacts(d, head + 1, create.facts) = forest
    /\ head + 1 \in Batches /\ w[head + 1].kind = "run" =>
         FoldReplayFacts(d, head + 1, w[head + 1].facts) = forest

\* The forest that the queued facts are folded on.
Under(f, d) == IF f = NoFlight THEN d ELSE f.forest

\* Durable, flight and admitted forests differ by the facts between them.
Chain(b, f, a, d, next) ==
    /\ IsSequence(BarrierFacts(b))
    /\ FoldReplayFacts(Under(f, d), next, BarrierFacts(b)) = a

\* Whatever has become of the create of the last flight.
Stands(sent, w, head, d, released) ==
    \E forest : Leads(sent, w, head, d, forest) /\ forest # None /\ Kept(released, forest)

Recovery ==
    /\ Bodies(wal)
    /\ History(stored, sent_seal, checkpoint, wal, durable_batch, durable)
    /\ exit = "none" =>
         /\ Chain(pending, flight, admitted, durable, next_batch)
         /\ flight # NoFlight => Leads(sent_wal, wal, durable_batch, durable, flight.forest)
    /\ exit # "none" => Stands(sent_wal, wal, durable_batch, durable, acked)

\* The parts of Recovery have no state of their own.
LEMMA RecoveryNext ==
    ASSUME Bodies(wal'),
           History(stored', sent_seal', checkpoint', wal', durable_batch', durable'),
           exit' = "none" => Chain(pending', flight', admitted', durable', next_batch'),
           exit' = "none" /\ flight' # NoFlight =>
             Leads(sent_wal', wal', durable_batch', durable', flight'.forest),
           exit' # "none" => Stands(sent_wal', wal', durable_batch', durable', acked')
    PROVE  Recovery'
  <1> USE DEF FoldReplayFacts, FoldReplayFact, FoldResult, RequireLiveUid, IsLive, HasCapacity,
              SuccessorUid, PathCount, Occupied, Apply, Record, Live, Tombstone
  <1>1. Bodies(wal)'
    BY DEF Bodies, Batches
  <1>2. History(stored, sent_seal, checkpoint, wal, durable_batch, durable)'
    BY DEF History, Replays, NoSeal, NoCheckpoint, Vacant
  <1>3. exit' = "none" => Chain(pending, flight, admitted, durable, next_batch)'
    BY DEF Chain, IsSequence, BarrierFacts, PushedFact, Under, NoFlight
  <1>4. exit' = "none" /\ flight' # NoFlight' =>
          Leads(sent_wal, wal, durable_batch, durable, flight.forest)'
    BY DEF Leads, Batches, NoFlight
  <1>5. exit' # "none" => Stands(sent_wal, wal, durable_batch, durable, acked)'
    BY DEF Stands, Leads, Batches, Kept, Keeps, Promises, Uids
  <1> QED
    BY <1>1, <1>2, <1>3, <1>4, <1>5 DEF Recovery

\* A well-formed forest is none of the bootstrap's contradictions.
LEMMA ForestIsSome ==
    ASSUME NEW forest, WellFormed(forest)
    PROVE  forest # None
  BY ForestAssumption DEF WellFormed

\* Every released reply is kept by the durable forest of the next state.
LEMMA DurableStands ==
    ASSUME Types', Answers'
    PROVE  durable' # None /\ Kept(acked', durable')
  <1>1. durable' \in Forests
    BY DEF Types, WellFormed, Forests, Entries, Records, Uids
  <1>2. Kept(acked', durable')
    BY DEF Answers, Promised, Kept, Keeps, Promises, Uids
  <1> QED
    BY <1>1, <1>2, ForestAssumption

\* schedule: a drained barrier becomes the RUN that leads from the durable to the
\* admitted forest, and a ticket starts where nothing is left to replay.
LEMMA ScheduleRecovers ==
    ASSUME NEW STATE b, NEW STATE f, NEW STATE t, NEW STATE c, NEW STATE r, NEW STATE outputs,
           NEW STATE effects, NEW STATE replies, NEW ACTION ok,
           exit = "none", InductiveInvariant', Types, Types', Answers',
           wal' = wal, durable_batch' \in Nat,
           HeadShape(f, durable_batch', next_batch),
           Creates(sent_wal, wal, durable_batch'),
           f = NoFlight => Idle(sent_wal, wal, durable_batch'),
           Bodies(wal), History(stored', sent_seal', c, wal, durable_batch', durable'),
           Chain(b, f, admitted', durable', next_batch),
           f # NoFlight => Leads(sent_wal, wal, durable_batch', durable', f.forest),
           Schedule(b, f, t, c, r, outputs, effects, replies, ok)
    PROVE  Recovery'
  <1>0. /\ DrainPending(b, f, t, replies) /\ TakeCheckpoint(c, r)
        /\ exit' = IF ShutsDown(pending', flight', checkpoint') THEN "Shutdown" ELSE exit
    BY DEF Schedule
  <1>1. History(stored', sent_seal', checkpoint', wal', durable_batch', durable')
    <2>1. CASE CheckpointDue(c, r)
      <3>1. checkpoint'.ticket.cut = durable_batch' /\ checkpoint'.ticket.snapshot = durable'
        BY <1>0, <2>1 DEF TakeCheckpoint, Marker
      <3>2. Replays(wal, checkpoint'.ticket.cut, checkpoint'.ticket.snapshot,
                    durable_batch', durable')
        BY <3>1, ReplaysNothing
      <3> QED
        BY <3>2 DEF History
    <2>2. CASE ~CheckpointDue(c, r)
      <3>1. checkpoint' = c
        BY <1>0, <2>2 DEF TakeCheckpoint
      <3> QED
        BY <3>1
    <2> QED
      BY <2>1, <2>2
  <1>2. /\ IsSequence(BarrierFacts(b))
        /\ FoldReplayFacts(Under(f, durable'), next_batch, BarrierFacts(b)) = admitted'
    BY DEF Chain
  <1>3. CASE DrainsNow(b, f) /\ b.facts # 0
    <2> DEFINE facts == BarrierFacts(b)
               create == [batch |-> next_batch, facts |-> facts]
    <2>1. /\ f = NoFlight /\ pending' = EmptyBarrier
          /\ sent_wal' = sent_wal \cup {create} /\ flight'.forest = admitted'
          /\ flight' = [batch |-> next_batch, forest |-> admitted', replies |-> Replies(b)]
      BY <1>0, <1>3 DEF DrainPending, DrainsNow
    <2>2. flight' # NoFlight
      <3>1. "replies" \in DOMAIN flight' /\ "replies" \notin DOMAIN NoFlight
        BY <2>1 DEF NoFlight
      <3> QED
        BY <3>1
    <2>3. create.facts = facts
      OBVIOUS
    <2> HIDE DEF create, facts
    <2>4. next_batch = durable_batch' + 1 /\ sent_wal' = {create}
          /\ \A x \in Batches : x > durable_batch' => wal[x].kind # "run"
      BY <2>1 DEF HeadShape, Idle
    <2>5. FoldReplayFacts(durable', durable_batch' + 1, create.facts) = admitted'
      BY <1>2, <2>1, <2>3, <2>4 DEF Under, facts
    <2>6. Leads(sent_wal', wal', durable_batch', durable', flight'.forest)
      BY <2>1, <2>4, <2>5 DEF Leads
    <2>7. Chain(pending', flight', admitted', durable', next_batch')
      <3>1. IsSequence(<<>>)
        BY DEF IsSequence
      <3>2. Under(flight', durable') = admitted'
        BY <2>1, <2>2 DEF Under
      <3> QED
        BY <2>1, <3>1, <3>2, NoFacts DEF Chain
    <2>8. exit' = "none"
      BY <1>0, <2>2 DEF ShutsDown
    <2> QED
      BY <1>1, <2>6, <2>7, <2>8, RecoveryNext
  <1>4. CASE ~(DrainsNow(b, f) /\ b.facts # 0)
    <2>1. sent_wal' = sent_wal /\ flight' = f /\ next_batch' = next_batch
      BY <1>0, <1>4 DEF DrainPending
    <2>2. flight' # NoFlight => Leads(sent_wal', wal', durable_batch', durable', flight'.forest)
      BY <2>1
    <2>3. exit' = "none" => Chain(pending', flight', admitted', durable', next_batch')
      <3>1. CASE ~DrainsNow(b, f)
        <4>1. pending' = b
          BY <1>0, <3>1 DEF DrainPending
        <4> QED
          BY <2>1, <4>1
      <3>2. CASE DrainsNow(b, f) /\ exit' = "none"
        <4>1. pending' = EmptyBarrier /\ f = NoFlight /\ pending'.facts = 0
          BY <1>0, <3>2 DEF DrainPending, DrainsNow, EmptyBarrier
        <4>2. admitted' = durable'
          BY <2>1, <3>2, <4>1 DEF InductiveInvariant, Settled, ForestShape, NoFlight
        <4>3. IsSequence(<<>>)
          BY DEF IsSequence
        <4> QED
          BY <2>1, <4>1, <4>2, <4>3, NoFacts DEF Chain, Under
      <3> QED
        BY <3>1, <3>2
    <2>4. exit' # "none" => Stands(sent_wal', wal', durable_batch', durable', acked')
      <3> SUFFICES ASSUME exit' # "none"
                   PROVE  Stands(sent_wal', wal', durable_batch', durable', acked')
        OBVIOUS
      <3>1. flight' = NoFlight
        BY <1>0 DEF ShutsDown
      <3>2. sent_wal' = {} /\ \A x \in Batches : x > durable_batch' => wal'[x].kind # "run"
        BY <2>1, <3>1 DEF Idle
      <3>3. Leads(sent_wal', wal', durable_batch', durable', durable')
        BY <3>2 DEF Leads
      <3> QED
        BY <3>3, DurableStands DEF Stands
    <2> QED
      BY <1>1, <2>2, <2>3, <2>4, RecoveryNext
  <1> QED
    BY <1>3, <1>4

\* An event that leaves the durable head and the newest Seal alone.
LEMMA QuietRecovery ==
    ASSUME NEW STATE b, NEW STATE t, NEW STATE c, NEW STATE r, NEW STATE outputs,
           NEW STATE effects, NEW STATE replies, NEW ACTION ok,
           InductiveInvariant, InductiveInvariant', Types, Types', Answers', Placement, Recovery,
           exit = "none", UNCHANGED <<durable, durable_batch, wal, stored>>,
           sent_seal' # NoSeal =>
             Replays(wal, sent_seal'.cut, sent_seal'.content, durable_batch, durable),
           c # NoCheckpoint =>
             Replays(wal, c.ticket.cut, c.ticket.snapshot, durable_batch, durable),
           Chain(b, flight, admitted', durable, next_batch),
           Schedule(b, flight, t, c, r, outputs, effects, replies, ok)
    PROVE  Recovery'
  <1>1. /\ HeadShape(flight, durable_batch', next_batch) /\ durable_batch' \in Nat
    BY DEF InductiveInvariant, Settled, Numbers
  <1>2. /\ Creates(sent_wal, wal, durable_batch')
        /\ flight = NoFlight => Idle(sent_wal, wal, durable_batch')
    BY DEF Placement
  <1>3. /\ Bodies(wal) /\ Replays(wal, stored'.cut, stored'.content, durable_batch', durable')
        /\ flight # NoFlight => Leads(sent_wal, wal, durable_batch', durable', flight.forest)
    BY DEF Recovery, History
  <1>4. History(stored', sent_seal', c, wal, durable_batch', durable')
    BY <1>3 DEF History
  <1>5. Chain(b, flight, admitted', durable', next_batch)
    OBVIOUS
  <1> QED
    BY <1>1, <1>2, <1>3, <1>4, <1>5, ScheduleRecovers

\* A command extends the barrier and the admitted forest by the same fact, or
\* neither.
LEMMA CommandRecovers ==
    ASSUME InductiveInvariant, InductiveInvariant', Types, Types', Answers', Placement, Recovery,
           exit = "none", NEW cmd \in Commands, Command(cmd)
    PROVE  Recovery'
  <1>0. /\ IsSequence(pending.commands) /\ WellFormed(admitted)
        /\ Chain(pending, flight, admitted, durable, next_batch)
        /\ sent_seal # NoSeal =>
             Replays(wal, sent_seal.cut, sent_seal.content, durable_batch, durable)
        /\ checkpoint # NoCheckpoint =>
             Replays(wal, checkpoint.ticket.cut, checkpoint.ticket.snapshot,
                     durable_batch, durable)
    BY DEF InductiveInvariant, Settled, BarrierShape, Types, Recovery, History
  <1>1. UNCHANGED <<durable, durable_batch, wal, stored>> /\ UNCHANGED sent_seal
    BY DEF Command, AcceptFact, ShedFact, AnswerIdempotent, QueueIdempotent, Refuse, TakesCommand
  <1>2. CASE AcceptFact(cmd)
    <2> DEFINE decision == Decide(admitted, cmd)
               facts == BarrierFacts(pending)
               barrier == PushFact(pending, submitted + 1, decision)
               command == [id |-> submitted + 1, fact |-> decision.fact,
                           promise |-> decision.promise]
               ok == /\ AdmitAsserts
                     /\ FoldResult(admitted, decision.fact) = "ok"
                     /\ barrier.facts <= RunFactsMax
                     /\ Len(barrier.commands) <= PendingMax
    <2>1. /\ Schedule(barrier, flight, timer, checkpoint, retry_at, 0, 0, <<>>, ok)
          /\ decision.kind = "fact" /\ admitted' = StrictFold(admitted, next_batch, decision.fact)
      BY <1>2 DEF AcceptFact
    <2>2. barrier.commands = Append(pending.commands, command) /\ command.fact = decision.fact
      BY DEF PushFact
    <2>3. decision.fact \in Facts /\ FoldResult(admitted, decision.fact) = "ok"
      BY <1>0, <2>1, DecidedFactType, DecidedFactFolds
    <2> HIDE DEF ok, barrier, command, decision
    <2>4. EndsWith(barrier.commands, pending.commands, command)
      BY <1>0, <2>2, AppendEnds
    <2>5. BarrierFacts(barrier) = PushedFact(facts, command)
      BY <2>4, BarrierFactsGrow
    <2>6. PushedFact(facts, command) = Append(facts, decision.fact)
      BY <2>2, <2>3, ForestAssumption DEF PushedFact
    <2>7. IsSequence(facts)
          /\ FoldReplayFacts(Under(flight, durable), next_batch, facts) = admitted
      BY <1>0 DEF Chain
    <2> HIDE DEF facts
    <2>8. EndsWith(Append(facts, decision.fact), facts, decision.fact)
          /\ IsSequence(Append(facts, decision.fact))
      BY <2>7, AppendEnds, AppendShape
    <2>9. FoldReplayFacts(Under(flight, durable), next_batch, Append(facts, decision.fact))
            = FoldReplayFact(admitted, next_batch, decision.fact)
      BY <2>7, <2>8, FoldedGrow
    <2>10. FoldReplayFact(admitted, next_batch, decision.fact) = admitted'
      BY <1>0, <2>1, <2>3, ForestIsSome DEF FoldReplayFact, StrictFold
    <2>11. Chain(barrier, flight, admitted', durable, next_batch)
      BY <2>5, <2>6, <2>8, <2>9, <2>10 DEF Chain
    <2> QED
      BY <1>0, <1>1, <2>1, <2>11, QuietRecovery
  <1>3. CASE QueueIdempotent(cmd)
    <2> DEFINE decision == Decide(admitted, cmd)
               facts == BarrierFacts(pending)
               barrier == PushIdempotent(pending, submitted + 1, decision)
               command == [id |-> submitted + 1, fact |-> None, promise |-> decision.promise]
               ok == AdmitAsserts /\ Len(barrier.commands) <= PendingMax
    <2>1. /\ Schedule(barrier, flight, timer, checkpoint, retry_at, 0, 0, <<>>, ok)
          /\ admitted' = admitted
      BY <1>3 DEF QueueIdempotent
    <2>2. barrier.commands = Append(pending.commands, command) /\ command.fact = None
      BY DEF PushIdempotent
    <2> HIDE DEF ok, barrier, command
    <2>3. EndsWith(barrier.commands, pending.commands, command)
      BY <1>0, <2>2, AppendEnds
    <2>4. BarrierFacts(barrier) = PushedFact(facts, command)
      BY <2>3, BarrierFactsGrow
    <2>5. PushedFact(facts, command) = facts
      BY <2>2 DEF PushedFact
    <2>6. Chain(barrier, flight, admitted', durable, next_batch)
      BY <1>0, <2>1, <2>4, <2>5 DEF Chain
    <2> QED
      BY <1>0, <1>1, <2>1, <2>6, QuietRecovery
  <1>4. CASE AnswerIdempotent(cmd)
    <2> DEFINE reply == <<[id |-> submitted + 1, promise |-> Decide(admitted, cmd).promise]>>
    <2>1. /\ Schedule(pending, flight, timer, checkpoint, retry_at, 1, 0, reply, AdmitAsserts)
          /\ admitted' = admitted
      BY <1>4 DEF AnswerIdempotent
    <2> HIDE DEF reply
    <2> QED
      BY <1>0, <1>1, <2>1, QuietRecovery
  <1>5. CASE ShedFact(cmd)
    <2>1. /\ Schedule(pending, flight, timer, checkpoint, durable_batch, 1, 0, <<>>, AdmitAsserts)
          /\ admitted' = admitted
      BY <1>5 DEF ShedFact
    <2> QED
      BY <1>0, <1>1, <2>1, QuietRecovery
  <1>6. CASE Refuse(cmd)
    <2>1. /\ Schedule(pending, flight, timer, checkpoint, retry_at, 1, 0, <<>>, AdmitAsserts)
          /\ admitted' = admitted
      BY <1>6 DEF Refuse
    <2> QED
      BY <1>0, <1>1, <2>1, QuietRecovery
  <1> QED
    BY <1>2, <1>3, <1>4, <1>5, <1>6 DEF Command

\* A flight that is durable was one more object of every replay.
LEMMA WalDurableRecovers ==
    ASSUME InductiveInvariant, InductiveInvariant', Types, Types', Answers', Placement, Recovery,
           WalDurable
    PROVE  Recovery'
  <1> DEFINE ok == pending.commands = <<>> => admitted = durable'
             next == durable_batch + 1
  <1>1. /\ flight # NoFlight /\ durable_batch' = flight.batch /\ wal[flight.batch].kind = "run"
        /\ durable' = flight.forest /\ exit = "none"
        /\ UNCHANGED <<admitted, wal, stored, sent_seal>>
        /\ Schedule(pending, NoFlight, timer, checkpoint, retry_at, 2, 0, flight.replies, ok)
    BY DEF WalDurable, Established, Running
  <1> HIDE DEF ok
  <1>2. /\ durable_batch' = next /\ next \in Batches /\ durable_batch \in Nat /\ next \in Nat
        /\ next_batch = next + 1 /\ wal[next].kind = "run" /\ wal[next] # Vacant
    <2>1. wal[flight.batch] # Vacant
      BY <1>1 DEF Vacant
    <2> QED
      BY <1>1, <2>1 DEF InductiveInvariant, Settled, HeadShape, Numbers, Types, FlightType
  <1>3. /\ FoldReplayFacts(durable, next, wal[next].facts) = durable'
        /\ Bodies(wal) /\ Chain(pending, flight, admitted, durable, next_batch)
        /\ History(stored, sent_seal, checkpoint, wal, durable_batch, durable)
    BY <1>1, <1>2 DEF Recovery, Leads
  <1>4. Chain(pending, NoFlight, admitted', durable', next_batch)
    BY <1>1, <1>3 DEF Chain, Under
  <1>5. Idle(sent_wal, wal, next) /\ Creates(sent_wal, wal, next)
    <2>1. Creates(sent_wal, wal, durable_batch)
      BY DEF Placement
    <2>2. sent_wal = {} /\ \A x \in Batches : x > next => wal[x].kind # "run"
      BY <1>2, <2>1 DEF Creates, Batches
    <2> QED
      BY <2>2 DEF Creates, Idle
  <1>6. HeadShape(NoFlight, durable_batch', next_batch)
    BY <1>2 DEF HeadShape
  <1>7. /\ stored.cut \in Nat /\ stored.cut <= durable_batch
        /\ sent_seal # NoSeal => sent_seal.cut \in Nat /\ sent_seal.cut <= durable_batch
        /\ checkpoint # NoCheckpoint =>
             checkpoint.ticket.cut \in Nat /\ checkpoint.ticket.cut <= durable_batch
    BY DEF InductiveInvariant, Numbers, Lineage, MarkerShape
  <1> HIDE DEF next
  <1>8. ASSUME NEW cut \in Nat, NEW content, cut <= durable_batch,
               Replays(wal, cut, content, durable_batch, durable)
        PROVE  Replays(wal, cut, content, durable_batch', durable')
    <2>1. Replays(wal, cut, content, durable_batch + 1,
                  FoldReplayFacts(durable, durable_batch + 1, wal[durable_batch + 1].facts))
      BY <1>2, <1>8, ReplaysRun DEF next
    <2> QED
      BY <1>2, <1>3, <2>1 DEF next
  <1>9. History(stored', sent_seal', checkpoint, wal, durable_batch', durable')
    BY <1>1, <1>3, <1>7, <1>8 DEF History
  <1> QED
    BY <1>1, <1>2, <1>3, <1>4, <1>5, <1>6, <1>9, ScheduleRecovers

\* The other events of the machine.
LEMMA EventRecovers ==
    ASSUME InductiveInvariant, InductiveInvariant', Types, Types', Answers', Placement, Recovery,
           exit = "none", QuietNext \/ CheckpointPrepared \/ SealAuthored
    PROVE  Recovery'
  <1>0. /\ Chain(pending, flight, admitted, durable, next_batch)
        /\ sent_seal # NoSeal =>
             Replays(wal, sent_seal.cut, sent_seal.content, durable_batch, durable)
        /\ checkpoint # NoCheckpoint =>
             Replays(wal, checkpoint.ticket.cut, checkpoint.ticket.snapshot,
                     durable_batch, durable)
    BY DEF Recovery, History
  <1>1. UNCHANGED <<durable, durable_batch, wal, stored>> /\ UNCHANGED admitted
    BY DEF QuietNext, Started, FlushDue, IngressClosed, CheckpointDropped, CollectFinished,
           CheckpointPrepared, SealAuthored
  <1>2. Chain(pending, flight, admitted', durable, next_batch)
    BY <1>0, <1>1
  <1>3. CASE QuietNext
    <2>1. UNCHANGED sent_seal
      BY <1>3 DEF QuietNext, Started, FlushDue, IngressClosed, CheckpointDropped, CollectFinished
    <2>2. CASE Started
      <3>1. Schedule(pending, flight, timer, checkpoint, retry_at, 0, 0, <<>>, TRUE)
        BY <2>2 DEF Started
      <3> QED
        BY <1>0, <1>1, <1>2, <2>1, <3>1, QuietRecovery
    <2>3. CASE FlushDue
      <3>1. Schedule(pending, flight, "off", checkpoint, retry_at, 0, 0, <<>>, TRUE)
        BY <2>3 DEF FlushDue
      <3> QED
        BY <1>0, <1>1, <1>2, <2>1, <3>1, QuietRecovery
    <2>4. CASE IngressClosed
      <3> DEFINE cancels == checkpoint.state = "preparing"
                 marker  == IF cancels THEN Marker("cancelling", checkpoint.ticket)
                            ELSE checkpoint
                 outputs == IF cancels THEN 1 ELSE 0
      <3>1. Schedule(pending, flight, timer, marker, retry_at, outputs, 0, <<>>, TRUE)
        BY <2>4 DEF IngressClosed
      <3>2. marker # NoCheckpoint =>
              Replays(wal, marker.ticket.cut, marker.ticket.snapshot, durable_batch, durable)
        <4>1. cancels => marker.ticket = checkpoint.ticket /\ checkpoint # NoCheckpoint
          BY DEF Marker, NoCheckpoint
        <4> QED
          BY <1>0, <4>1
      <3> HIDE DEF marker, outputs
      <3> QED
        BY <1>0, <1>1, <1>2, <2>1, <3>1, <3>2, QuietRecovery
    <2>5. CASE CheckpointDropped
      <3>1. Schedule(pending, flight, timer, NoCheckpoint, retry_at, 0, 0, <<>>, TRUE)
        BY <2>5 DEF CheckpointDropped
      <3> QED
        BY <1>0, <1>1, <1>2, <2>1, <3>1, QuietRecovery
    <2>6. CASE CollectFinished
      <3>1. Schedule(pending, flight, timer, checkpoint, retry_at, 0, 0, <<>>, TRUE)
        BY <2>6 DEF CollectFinished
      <3> QED
        BY <1>0, <1>1, <1>2, <2>1, <3>1, QuietRecovery
    <2> QED
      BY <1>3, <2>2, <2>3, <2>4, <2>5, <2>6 DEF QuietNext
  <1>4. CASE CheckpointPrepared
    <2> DEFINE ticket == checkpoint.ticket
               marker == Marker("publishing", ticket)
    <2>1. /\ checkpoint.state = "preparing" /\ sent_seal' = Candidate(ticket)
          /\ Schedule(pending, flight, timer, marker, retry_at, 1, 1, <<>>, TRUE)
      BY <1>4 DEF CheckpointPrepared
    <2>2. checkpoint # NoCheckpoint /\ marker.ticket = ticket
      BY <2>1 DEF NoCheckpoint, Marker
    <2>3. sent_seal'.content = ticket.snapshot /\ sent_seal'.cut = ticket.cut
      BY <2>1, CandidateHoldsSnapshot DEF Candidate, Seal
    <2> HIDE DEF marker, ticket
    <2>4. Replays(wal, ticket.cut, ticket.snapshot, durable_batch, durable)
      BY <1>0, <2>2 DEF ticket
    <2> QED
      BY <1>1, <1>2, <2>1, <2>2, <2>3, <2>4, QuietRecovery
  <1>5. CASE SealAuthored
    <2> DEFINE ticket == checkpoint.ticket
               collects == ingress_open /\ collector = None
               outputs == IF collects THEN 2 ELSE 1
               effects == IF collects THEN 1 ELSE 0
               ok == seal = ticket.source
    <2>1. /\ UNCHANGED sent_seal
          /\ Schedule(pending, flight, timer, NoCheckpoint, retry_at, outputs, effects, <<>>, ok)
      BY <1>5 DEF SealAuthored
    <2> HIDE DEF ok, outputs, effects
    <2> QED
      BY <1>0, <1>1, <1>2, <2>1, QuietRecovery
  <1> QED
    BY <1>3, <1>4, <1>5

\* The store moves under a machine that stands still: only at or below the
\* installed cut, or after the durable head.
LEMMA StoreMoves ==
    ASSUME InductiveInvariant, Types, Recovery,
           UNCHANGED <<admitted, durable, durable_batch, next_batch, pending, flight>>,
           UNCHANGED <<checkpoint, exit, acked>>,
           sent_seal' \in {sent_seal, NoSeal},
           \/ stored'.cut = stored.cut /\ stored'.content = stored.content
           \/ stored' = sent_seal /\ sent_seal # NoSeal,
           \A b \in Batches : seal.cut < b /\ b <= durable_batch => wal'[b] = wal[b],
           Bodies(wal'),
           \A forest : Leads(sent_wal, wal, durable_batch, durable, forest)
                         => Leads(sent_wal', wal', durable_batch, durable, forest)
    PROVE  Recovery'
  <1>0. /\ seal.cut \in Nat /\ durable_batch \in Batches /\ CoordinateMax \in Nat
        /\ History(stored, sent_seal, checkpoint, wal, durable_batch, durable)
    BY SuffixAssumption DEF InductiveInvariant, Numbers, Types, Recovery
  <1>1. /\ stored.cut \in Nat /\ seal.cut <= stored.cut
        /\ sent_seal # NoSeal => sent_seal.cut \in Nat /\ seal.cut <= sent_seal.cut
        /\ checkpoint # NoCheckpoint =>
             checkpoint.ticket.cut \in Nat /\ seal.cut <= checkpoint.ticket.cut
    BY DEF InductiveInvariant, Numbers, Lineage, MarkerShape
  <1>2. ASSUME NEW cut \in Nat, NEW content, seal.cut <= cut,
               Replays(wal, cut, content, durable_batch, durable)
        PROVE  Replays(wal', cut, content, durable_batch', durable')
    <2>1. \A b \in cut + 1 .. durable_batch :
            b \in Batches /\ seal.cut < b /\ b <= durable_batch
      BY <1>0, <1>2 DEF Batches
    <2>2. \A b \in cut + 1 .. durable_batch : wal'[b] = wal[b]
      BY <2>1
    <2>3. Replays(wal', cut, content, durable_batch, durable)
      BY <1>2, <2>2, ReplaysSame
    <2> QED
      BY <2>3
  <1>3. History(stored', sent_seal', checkpoint', wal', durable_batch', durable')
    <2>1. Replays(wal', stored'.cut, stored'.content, durable_batch', durable')
      BY <1>0, <1>1, <1>2 DEF History
    <2>2. sent_seal' # NoSeal =>
            Replays(wal', sent_seal'.cut, sent_seal'.content, durable_batch', durable')
      BY <1>0, <1>1, <1>2 DEF History
    <2>3. checkpoint' # NoCheckpoint =>
            Replays(wal', checkpoint'.ticket.cut, checkpoint'.ticket.snapshot,
                    durable_batch', durable')
      BY <1>0, <1>1, <1>2 DEF History
    <2> QED
      BY <2>1, <2>2, <2>3 DEF History
  <1>4. exit' = "none" => Chain(pending', flight', admitted', durable', next_batch')
    BY DEF Recovery
  <1>5. exit' = "none" /\ flight' # NoFlight =>
          Leads(sent_wal', wal', durable_batch', durable', flight'.forest)
    BY DEF Recovery
  <1>6. exit' # "none" => Stands(sent_wal', wal', durable_batch', durable', acked')
    BY DEF Recovery, Stands
  <1> QED
    BY <1>3, <1>4, <1>5, <1>6, RecoveryNext

\* Late creates, the collector and the rival.
LEMMA EnvironmentRecovers ==
    ASSUME InductiveInvariant, Types, Placement, Recovery, EnvironmentNext
    PROVE  Recovery'
  <1>0. /\ Creates(sent_wal, wal, durable_batch) /\ Heads /\ Numbers /\ Lineage
        /\ durable_batch \in Batches /\ durable_batch \in Nat /\ Bodies(wal)
    BY DEF Placement, InductiveInvariant, Types, Recovery, Numbers
  <1>1. PICK S : wal \in [Batches -> S]
    BY DEF Placement
  <1>2. /\ UNCHANGED <<admitted, durable, durable_batch, next_batch, pending, flight>>
        /\ UNCHANGED <<checkpoint, exit, acked>>
    BY DEF EnvironmentNext, IntervalElapses, WalLands, SealLands, CollectRun, RivalClaims,
           RivalFences, machine, clients
  <1>3. CASE IntervalElapses
    <2>1. UNCHANGED <<wal, stored, sent_wal, sent_seal>>
      BY <1>3 DEF IntervalElapses, store
    <2> QED
      BY <1>0, <1>2, <2>1, StoreMoves
  <1>4. ASSUME NEW create \in sent_wal, WalLands(create)
        PROVE  Recovery'
    <2> DEFINE body == RunBody(create.facts)
    <2>1. /\ sent_wal' = sent_wal \ {create} /\ UNCHANGED <<stored, sent_seal>>
          /\ wal' = IF wal[create.batch] = Vacant THEN [wal EXCEPT ![create.batch] = body] ELSE wal
      BY <1>4 DEF WalLands
    <2>2. create.batch = durable_batch + 1 /\ create.batch \in Batches
      BY <1>0 DEF Creates
    <2>3. body.kind = "run" /\ body.facts = create.facts
      BY DEF RunBody
    <2> HIDE DEF body
    <2>4. /\ \A b \in Batches : b # create.batch => wal'[b] = wal[b]
          /\ wal'[create.batch] \in {wal[create.batch], body}
      BY <1>1, <2>1, <2>2
    <2>5. Bodies(wal')
      BY <1>0, <2>3, <2>4 DEF Bodies
    <2>6. \A b \in Batches : b <= durable_batch => wal'[b] = wal[b]
      BY <1>0, <2>2, <2>4 DEF Batches
    <2>7. ASSUME NEW forest, Leads(sent_wal, wal, durable_batch, durable, forest)
          PROVE  Leads(sent_wal', wal', durable_batch, durable, forest)
      BY <2>1, <2>2, <2>3, <2>4, <2>7 DEF Leads
    <2>8. UNCHANGED <<stored, sent_seal>>
      BY <2>1
    <2> QED
      BY <1>2, <2>5, <2>6, <2>7, <2>8, StoreMoves
  <1>5. CASE SealLands
    <2>1. /\ sent_seal # NoSeal /\ sent_seal' = NoSeal /\ UNCHANGED <<wal, sent_wal>>
          /\ stored' = sent_seal \/ stored' = stored
      BY <1>5 DEF SealLands
    <2> QED
      BY <1>0, <1>2, <2>1, StoreMoves
  <1>6. ASSUME NEW batch \in Batches, CollectRun(batch)
        PROVE  Recovery'
    <2>1. /\ collector # None /\ batch \in collector.from + 1 .. collector.cut
          /\ wal' = [wal EXCEPT ![batch] = Vacant]
          /\ UNCHANGED <<stored, sent_wal, sent_seal>>
      BY <1>6 DEF CollectRun
    <2>2. \A b \in Batches : wal'[b] = IF b = batch THEN Vacant ELSE wal[b]
      BY <1>1, <2>1
    <2>3. batch <= seal.cut /\ batch <= durable_batch
      BY <1>0, <2>1 DEF Heads, Numbers, Lineage, Batches
    <2>4. UNCHANGED <<stored, sent_wal, sent_seal>>
      BY <2>1
    <2>5. Bodies(wal')
      <3>1. Vacant.facts = <<>>
        BY DEF Vacant
      <3>2. ASSUME NEW b \in Batches, wal'[b].kind # "run" PROVE wal'[b].facts = <<>>
        <4>1. CASE b = batch
          BY <2>2, <3>1, <4>1
        <4>2. CASE b # batch
          BY <1>0, <2>2, <3>2, <4>2 DEF Bodies
        <4> QED
          BY <4>1, <4>2
      <3> QED
        BY <3>2 DEF Bodies
    <2>6. \A b \in Batches : seal.cut < b => wal'[b] = wal[b]
      BY <1>0, <2>2, <2>3 DEF Batches, Numbers
    <2>7. durable_batch + 1 \in Batches => wal'[durable_batch + 1] = wal[durable_batch + 1]
      BY <1>0, <2>2, <2>3 DEF Batches
    <2>8. ASSUME NEW forest, Leads(sent_wal, wal, durable_batch, durable, forest)
          PROVE  Leads(sent_wal', wal', durable_batch, durable, forest)
      BY <2>4, <2>7, <2>8 DEF Leads
    <2> QED
      BY <1>2, <2>4, <2>5, <2>6, <2>8, StoreMoves
  <1>7. CASE RivalClaims
    <2>1. /\ UNCHANGED <<wal, sent_wal, sent_seal>>
          /\ stored'.cut = stored.cut /\ stored'.content = stored.content
      BY <1>7 DEF RivalClaims, Seal
    <2> QED
      BY <1>0, <1>2, <2>1, StoreMoves
  <1>8. CASE RivalFences
    <2> DEFINE hole == FirstHole
    <2>1. /\ BoundTakeoverFence(stored.cut, hole) = "Bounded"
          /\ wal' = [wal EXCEPT ![hole] = FenceBody]
          /\ UNCHANGED <<stored, sent_wal, sent_seal>>
      BY <1>8 DEF RivalFences
    <2>2. hole \in Nat /\ durable_batch < hole
      BY <1>0, FirstHoleIsAfterHead
    <2> HIDE DEF hole
    <2>3. hole \in Batches
      BY <1>0, <2>1, <2>2, SuffixAssumption DEF BoundTakeoverFence, HasSuccessor, Batches
    <2>4. \A b \in Batches : wal'[b] = IF b = hole THEN FenceBody ELSE wal[b]
      BY <1>1, <2>1, <2>3
    <2>5. UNCHANGED <<stored, sent_wal, sent_seal>>
      BY <2>1
    <2>6. FenceBody.kind = "fence" /\ FenceBody.facts = <<>>
      BY DEF FenceBody
    <2>7. Bodies(wal')
      <3>1. ASSUME NEW b \in Batches, wal'[b].kind # "run" PROVE wal'[b].facts = <<>>
        <4>1. CASE b = hole
          BY <2>4, <2>6, <4>1
        <4>2. CASE b # hole
          BY <1>0, <2>4, <3>1, <4>2 DEF Bodies
        <4> QED
          BY <4>1, <4>2
      <3> QED
        BY <3>1 DEF Bodies
    <2>8. \A b \in Batches : b <= durable_batch => wal'[b] = wal[b]
      BY <1>0, <2>2, <2>4 DEF Batches
    <2>9. ASSUME NEW forest, Leads(sent_wal, wal, durable_batch, durable, forest)
          PROVE  Leads(sent_wal', wal', durable_batch, durable, forest)
      BY <2>4, <2>5, <2>6, <2>9 DEF Leads
    <2> QED
      BY <1>2, <2>5, <2>7, <2>8, <2>9, StoreMoves
  <1> QED
    BY <1>3, <1>4, <1>5, <1>6, <1>7, <1>8 DEF EnvironmentNext

\* A machine that ends by a failure leaves at most the create of its flight.
LEMMA FatalRecovers ==
    ASSUME InductiveInvariant, Types, Answers, Placement, Recovery, FatalNext
    PROVE  Recovery'
  <1>1. /\ exit = "none" /\ exit' # "none"
        /\ UNCHANGED <<durable, durable_batch, wal, stored, sent_wal, sent_seal, acked>>
        /\ checkpoint' \in {checkpoint, NoCheckpoint}
    BY DEF FatalNext, WalFailed, SealFailed, CheckpointContradicted, Terminate, Running, store,
           clients
  <1>2. Bodies(wal) /\ History(stored, sent_seal, checkpoint, wal, durable_batch, durable)
        /\ (flight # NoFlight => Leads(sent_wal, wal, durable_batch, durable, flight.forest))
    BY <1>1 DEF Recovery
  <1>3. History(stored', sent_seal', checkpoint', wal', durable_batch', durable')
    BY <1>1, <1>2 DEF History
  <1>4. Stands(sent_wal, wal, durable_batch, durable, acked)
    <2>1. CASE flight # NoFlight
      <3>1. WellFormed(flight.forest) /\ Kept(acked, flight.forest)
        BY <2>1 DEF Types, FlightType, Answers, Promised
      <3> QED
        BY <1>2, <2>1, <3>1, ForestIsSome DEF Stands
    <2>2. CASE flight = NoFlight
      <3>1. WellFormed(durable) /\ Kept(acked, durable)
        BY DEF Types, Answers, Promised
      <3>2. Idle(sent_wal, wal, durable_batch) /\ durable_batch \in Nat
        BY <1>1, <2>2 DEF Placement, InductiveInvariant, Numbers
      <3>3. Leads(sent_wal, wal, durable_batch, durable, durable)
        BY <3>2 DEF Leads, Idle
      <3> QED
        BY <3>1, <3>3, ForestIsSome DEF Stands
    <2> QED
      BY <2>1, <2>2
  <1> QED
    BY <1>1, <1>2, <1>3, <1>4, RecoveryNext

\* The FENCEs of a fresh partition replay to the empty forest.
LEMMA InitRecovers == Init => Recovery
  <1> SUFFICES ASSUME Init PROVE Recovery
    OBVIOUS
  <1>1. PICK head \in Batches :
          /\ seal = Seal(head + 1, 0, Empty) /\ stored = seal
          /\ admitted = Empty /\ durable = Empty /\ durable_batch = head
          /\ pending = EmptyBarrier /\ flight = NoFlight /\ checkpoint = NoCheckpoint
          /\ wal = [b \in Batches |-> IF b <= head THEN FenceBody ELSE Vacant]
          /\ sent_seal = NoSeal /\ exit = "none"
    BY DEF Init
  <1>2. stored.cut = 0 /\ stored.content = Empty /\ head \in Nat
        /\ FenceBody.facts = <<>> /\ Vacant.facts = <<>> /\ FenceBody # Vacant
    BY <1>1 DEF Seal, Batches, FenceBody, Vacant
  <1>3. \A b \in Batches : wal[b].facts = <<>> /\ (b <= head => wal[b] # Vacant)
    BY <1>1, <1>2
  <1>4. Bodies(wal)
    BY <1>3 DEF Bodies
  <1>5. Replays(wal, 0, Empty, head, Empty)
    <2> DEFINE h == [i \in 0 .. head |-> Empty]
    <2>1. h[0] = Empty /\ h[head] = Empty /\ \A b \in 0 + 1 .. head : h[b] = Empty /\ h[b - 1] = Empty
      BY <1>2
    <2> HIDE DEF h
    <2>2. ASSUME NEW b \in 0 + 1 .. head
          PROVE  wal[b] # Vacant /\ h[b] = FoldReplayFacts(h[b - 1], b, wal[b].facts)
      <3>1. b \in Batches /\ b <= head
        BY <1>1, <1>2, SuffixAssumption DEF Batches
      <3> QED
        BY <1>3, <2>1, <3>1, NoFacts
    <2> QED
      BY <2>1, <2>2 DEF Replays
  <1>6. Chain(pending, flight, admitted, durable, next_batch)
    <2>1. IsSequence(<<>>)
      BY DEF IsSequence
    <2> QED
      BY <1>1, <2>1, NoFacts DEF Chain, Under
  <1> QED
    BY <1>1, <1>2, <1>4, <1>5, <1>6 DEF Recovery, History

\* Every step keeps what the store recovers.
LEMMA NextRecovers ==
    ASSUME InductiveInvariant, Types, Answers, Placement, Recovery, [Next]_vars
    PROVE  Recovery'
  <1>0. InductiveInvariant' /\ Types' /\ Answers'
    BY NextKeeps, NextTypes, NextAnswers
  <1>1. ASSUME NEW cmd \in Commands, Command(cmd) PROVE Recovery'
    <2>1. exit = "none"
      BY <1>1 DEF Command, AcceptFact, ShedFact, AnswerIdempotent, QueueIdempotent, Refuse,
                  TakesCommand, Running
    <2> QED
      BY <1>0, <1>1, <2>1, CommandRecovers
  <1>2. CASE QuietNext \/ CheckpointPrepared \/ SealAuthored
    <2>1. exit = "none"
      BY <1>2 DEF QuietNext, Started, FlushDue, IngressClosed, CheckpointDropped,
                  CollectFinished, CheckpointPrepared, SealAuthored, Running
    <2> QED
      BY <1>0, <1>2, <2>1, EventRecovers
  <1>3. CASE WalDurable
    BY <1>0, <1>3, WalDurableRecovers
  <1>4. CASE FatalNext
    BY <1>4, FatalRecovers
  <1>5. CASE EnvironmentNext
    BY <1>5, EnvironmentRecovers
  <1>6. CASE UNCHANGED vars
    <2>1. /\ UNCHANGED <<admitted, durable, durable_batch, next_batch, pending, flight>>
          /\ UNCHANGED <<checkpoint, exit, acked>>
          /\ UNCHANGED <<wal, stored, sent_wal, sent_seal>>
      BY <1>6 DEF vars, machine, store, clients
    <2>2. Bodies(wal)
      BY DEF Recovery
    <2> QED
      BY <2>1, <2>2, StoreMoves
  <1> QED
    BY <1>1, <1>2, <1>3, <1>4, <1>5, <1>6
    DEF Next, QuietNext, FatalNext, EnvironmentNext, WalEstablished, PreparationEnds,
        SealPublished

\* What the store recovers, in a state of the invariants.
LEMMA RecoveredHere ==
    ASSUME InductiveInvariant, Types, Placement, Recovery
    PROVE  Recovered = IF durable_batch + 1 \in Batches /\ wal[durable_batch + 1].kind = "run"
                       THEN FoldReplayFacts(durable, durable_batch + 1, wal[durable_batch + 1].facts)
                       ELSE durable
  <1>1. /\ stored.cut \in Nat /\ durable_batch \in Nat /\ stored.cut <= durable_batch
        /\ durable_batch <= CoordinateMax
    BY SuffixAssumption DEF InductiveInvariant, Numbers, Lineage, Types, Batches
  <1>2. Replays(wal, stored.cut, stored.content, durable_batch, durable)
    BY DEF Recovery, History
  <1>3. \A b \in Batches : wal[b].kind # "run" => wal[b].facts = <<>>
    BY DEF Recovery, Bodies
  <1>4. \A b \in Batches : b > durable_batch + 1 => wal[b].kind # "run"
    BY <1>1 DEF Placement, Creates, Batches
  <1> QED
    BY <1>1, <1>2, <1>3, <1>4, RecoveredFrom

\* The recovery invariant holds of the specification.
LEMMA RecoveryInvariant ==
    Spec => [](InductiveInvariant /\ Types /\ Answers /\ Placement /\ Recovery)
  <1>1. InductiveInvariant /\ Types /\ Answers /\ Placement /\ Recovery /\ [Next]_vars
          => Recovery'
    BY NextRecovers
  <1> QED
    BY <1>1, DeliveryInvariant, InitRecovers, PTL DEF Spec

\* A bootstrap that reads the store at any moment of a running writer recovers
\* exactly the writer's durable forest, or what its flight makes durable when
\* its RUN has landed: the cut of every Seal, the snapshot it was taken of, the
\* delta it was built from and the batch a fact was admitted for agree, whatever
\* the interleaving of flushes, checkpoints, collection and late creates.
THEOREM RecoveredAlwaysDurable == Spec => []RecoveredIsDurable
  <1>1. InductiveInvariant /\ Types /\ Placement /\ Recovery => RecoveredIsDurable
    <2> SUFFICES ASSUME InductiveInvariant, Types, Placement, Recovery, exit = "none"
                 PROVE  Recovered = IF flight # NoFlight /\ wal[flight.batch].kind = "run"
                                    THEN flight.forest ELSE durable
      BY DEF RecoveredIsDurable
    <2>1. CASE flight # NoFlight
      <3>1. flight.batch = durable_batch + 1 /\ flight.batch \in Batches
            /\ Leads(sent_wal, wal, durable_batch, durable, flight.forest)
        BY <2>1 DEF InductiveInvariant, Types, FlightType, Recovery
      <3> QED
        BY <2>1, <3>1, RecoveredHere DEF Leads
    <2>2. CASE flight = NoFlight
      <3>1. Idle(sent_wal, wal, durable_batch) /\ durable_batch \in Nat
        BY <2>2 DEF Placement, InductiveInvariant, Numbers
      <3>2. ~(durable_batch + 1 \in Batches /\ wal[durable_batch + 1].kind = "run")
        BY <3>1 DEF Idle
      <3> QED
        BY <2>2, <3>2, RecoveredHere
    <2> QED
      BY <2>1, <2>2
  <1> QED
    BY <1>1, RecoveryInvariant, PTL

\* No success that was ever replied is lost, and no RUN that was ever placed
\* stops a bootstrap: also when the writer has been fenced, poisoned or shut
\* down and its last create or Seal takes effect afterwards.
THEOREM AckedAlwaysRecoverable == Spec => []AckedIsRecoverable
  <1>1. InductiveInvariant /\ Types /\ Answers /\ Placement /\ Recovery => AckedIsRecoverable
    <2> SUFFICES ASSUME InductiveInvariant, Types, Answers, Placement, Recovery
                 PROVE  Recovered # None /\ Kept(acked, Recovered)
      BY DEF AckedIsRecoverable, Kept
    <2>1. durable # None /\ Kept(acked, durable) /\ durable_batch \in Nat
      BY ForestIsSome DEF Types, Answers, Promised, InductiveInvariant, Numbers
    <2>2. CASE ~(durable_batch + 1 \in Batches /\ wal[durable_batch + 1].kind = "run")
      BY <2>1, <2>2, RecoveredHere
    <2>3. CASE durable_batch + 1 \in Batches /\ wal[durable_batch + 1].kind = "run"
      <3>1. Recovered = FoldReplayFacts(durable, durable_batch + 1, wal[durable_batch + 1].facts)
        BY <2>3, RecoveredHere
      <3>2. CASE exit # "none"
        BY <2>3, <3>1, <3>2 DEF Recovery, Stands, Leads
      <3>3. CASE exit = "none"
        <4>1. flight # NoFlight
          BY <2>1, <2>3, <3>3 DEF Placement, Idle
        <4>2. Recovered = flight.forest
          BY <2>3, <3>1, <3>3, <4>1 DEF Recovery, Leads
        <4>3. WellFormed(flight.forest) /\ Kept(acked, flight.forest)
          BY <4>1 DEF Types, FlightType, Answers, Promised
        <4> QED
          BY <4>2, <4>3, ForestIsSome
      <3> QED
        BY <3>2, <3>3
    <2> QED
      BY <2>2, <2>3
  <1> QED
    BY <1>1, RecoveryInvariant, PTL

=============================================================================
