------------------------------ MODULE Service ------------------------------
(***************************************************************************)
(* From an HTTP request to its answer: handlers that run concurrently, the *)
(* bounded ingress channel, the writer task, the watched view, and the     *)
(* reply channels.  A handler awaits room in the channel, then its reply;  *)
(* a status read looks at two pieces of shared state, one after the other. *)
(* The interpreter executes the outputs of a step one by one while         *)
(* handlers run on other threads.  A client may hang up anywhere.          *)
(*                                                                         *)
(* The writer is reduced to what callers can tell apart: one flight behind *)
(* which a barrier waits, a store that makes the flight durable or ends    *)
(* the writer, a checkpoint that may end it at any time, and a suffix that *)
(* may have no room.  Writer has the rest.                                 *)
(* Requests that are refused before they reach the database (400, 404 of   *)
(* the reserved prefix, 501) change nothing and are left out.              *)
(***************************************************************************)
EXTENDS Admission, Sequences, SequencesExt

CONSTANTS
    Clients,      \* concurrent callers
    Asks,         \* the requests they make
    IngressMax,   \* WRITER_INGRESS_COMMANDS_MAX
    PendingMax,   \* WRITER_PENDING_COMMANDS_MAX
    RequestsMax   \* bound of the model on requests

ASSUME ServiceAssumption ==
    /\ Asks \subseteq Commands \cup
                [op : {"head"}, path : Paths, config : {None}, closed : {FALSE}]
    /\ {IngressMax, PendingMax} \subseteq Nat \ {0}
    /\ RequestsMax \in Nat
    /\ None \notin Promises

VARIABLES
    call,         \* what each client's handler is doing, and its last answer
    asked,        \* requests so far; a request is named by its number
    accepting,    \* no shutdown signal yet
    sender_gone,  \* Engine::shutdown has dropped the command sender
    \* the writer task
    queue,        \* commands in the ingress channel
    ingress_gone, \* the writer has dropped the receiver
    ingress_open, \* the machine still takes commands
    admitted, durable,
    barrier,      \* commands that wait for the flight or for a flush
    flight,       \* the commands of the WAL create that is running, or NoFlight
    outputs,      \* what the interpreter has still to execute of this step
    exit,
    view,         \* the PublishedView
    replies,      \* replies sent and not yet received
    \* history
    told,         \* promises that reached a caller, by a success or by a status
    failed,       \* requests answered with a definite failure
    effected,     \* requests whose fact is in the WAL
    grounds       \* what the refusals sent so far rest on

writer == <<queue, ingress_gone, ingress_open, admitted, durable, barrier, flight, outputs, exit>>
edge == <<call, asked, accepting, sender_gone>>
history == <<told, failed, effected, grounds>>
vars == <<edge, writer, view, replies, history>>

-----------------------------------------------------------------------------
(* Replies, and the HTTP answers made of them. *)

NoFlight == [commands |-> <<>>]
Reply(id, result, promise) == [id |-> id, result |-> result, promise |-> promise]

Success(cmd, kind) ==
    CASE cmd.op = "create" -> IF kind = "fact" THEN "Created" ELSE "AlreadyExists"
      [] cmd.op = "close"  -> "Closed"
      [] OTHER             -> "Deleted"

\* AdmissionRefusal, as admission finds it.
Refusal(forest, cmd) ==
    IF cmd.op # "create" THEN "NotLive"
    ELSE IF forest.directory[cmd.path] # None THEN "Occupied" ELSE "CapacityExhausted"

\* What a refusal tells its caller of the path.
Grounds(forest, cmd) ==
    LET entry == forest.directory[cmd.path]
    IN  IF entry = None THEN {}
        ELSE {Promise(cmd.path, entry.uid,
                      IF entry.state = "tombstone" THEN "deleted" ELSE "exists")}

\* Variant: a waiter that the writer dropped is told that nothing happened.
DroppedWaiterUnavailable == "Unavailable"
DroppedWaiter == "Indeterminate"

\* From<StreamError>: everything but a success and the two that are split.
Answers(result) ==
    CASE result = "Occupied"                            -> "Conflict"
      [] result \in {"CapacityExhausted", "Overloaded"} -> "TooManyRequests"
      [] OTHER                                          -> result

Definite == {"Conflict", "TooManyRequests", "NotFound", "Gone", "Unavailable"}

\* StreamStatus of a path in the view.
Status(path) ==
    LET entry == view.directory[path]
    IN  CASE entry = None -> "Missing"
          [] entry # None /\ entry.state = "tombstone" -> "Deleted"
          [] OTHER -> IF view.ledger[entry.uid].closed THEN "LiveClosed" ELSE "LiveOpen"

\* What a status tells its caller: all that the view keeps of the path.
Shown(path) == {promise \in Promises : promise.path = path /\ Keeps(view, promise)}

\* head answers a status; refuse_not_live has no answer for a live stream.
StatusAnswer(op, status) ==
    CASE status = "Missing" -> "NotFound"
      [] status = "Deleted" -> "Gone"
      [] OTHER              -> IF op = "head" THEN status ELSE "Indeterminate"

-----------------------------------------------------------------------------
(* Handlers. *)

NoCall == [at |-> "idle", id |-> 0, cmd |-> None, answer |-> None, known |-> {}]

Goes(c, at) == call' = [call EXCEPT ![c].at = at]

\* The handler of c ends with an answer.
Answer(c, answer) ==
    /\ call' = [call EXCEPT ![c].at = "idle", ![c].answer = answer]
    /\ failed' = IF answer \in Definite THEN failed \cup {call[c].id} ELSE failed
    /\ UNCHANGED <<asked, accepting, sender_gone, effected, grounds>>

\* put, post, delete and head, until their first shared state.
Ask(c, cmd) ==
    /\ accepting /\ call[c].at = "idle" /\ asked < RequestsMax
    /\ asked' = asked + 1
    /\ call' = [call EXCEPT ![c] =
           [at |-> IF cmd.op = "head" THEN "checking" ELSE "sending",
            id |-> asked + 1, cmd |-> cmd, answer |-> None, known |-> told]]
    /\ UNCHANGED <<accepting, sender_gone, writer, view, replies, history>>

\* enqueue: the send waits for room, and fails once the receiver is gone.
Enqueue(c) ==
    /\ call[c].at = "sending"
    /\ \/ /\ ~ingress_gone /\ Len(queue) < IngressMax
          /\ queue' = Append(queue, [id |-> call[c].id, cmd |-> call[c].cmd])
          /\ Goes(c, "waiting")
          /\ UNCHANGED <<asked, accepting, sender_gone, history>>
       \/ ingress_gone /\ Answer(c, "Unavailable") /\ UNCHANGED <<queue, told>>
    /\ UNCHANGED <<ingress_gone, ingress_open, admitted, durable, barrier, flight, outputs,
                   exit, view, replies>>

\* The reply arrives.  NotLive is split by a status read of its own.
Receive(c, reply) ==
    /\ call[c].at = "waiting" /\ reply.id = call[c].id
    /\ replies' = replies \ {reply}
    /\ \/ /\ reply.promise # None
          /\ told' = told \cup {reply.promise}
          /\ Answer(c, reply.result)
       \/ /\ reply.result = "NotLive"
          /\ Goes(c, "checking")
          /\ UNCHANGED <<asked, accepting, sender_gone, history>>
       \/ /\ reply.promise = None /\ reply.result # "NotLive"
          /\ Answer(c, Answers(reply.result)) /\ UNCHANGED told
    /\ UNCHANGED <<writer, view>>

Ids(commands) == {commands[i].id : i \in 1 .. Len(commands)}
Held ==
    Ids(queue) \cup Ids(barrier) \cup Ids(flight.commands)
        \cup {outputs[i].id : i \in {j \in 1 .. Len(outputs) : "id" \in DOMAIN outputs[j]}}
        \cup {reply.id : reply \in replies}

\* The writer has dropped the reply sender without using it.
Dropped(c) ==
    /\ call[c].at = "waiting" /\ call[c].id \notin Held
    /\ Answer(c, DroppedWaiter)
    /\ UNCHANGED <<writer, view, replies, told>>

\* Engine::stream: is_closed first...
CheckServing(c) ==
    /\ call[c].at = "checking"
    /\ \/ ingress_gone /\ Answer(c, "Unavailable") /\ UNCHANGED told
       \/ /\ ~ingress_gone /\ Goes(c, "borrowing")
          /\ UNCHANGED <<asked, accepting, sender_gone, history>>
    /\ UNCHANGED <<writer, view, replies>>

\* ...then the view of the moment.
BorrowView(c) ==
    /\ call[c].at = "borrowing"
    /\ LET path   == call[c].cmd.path
           answer == StatusAnswer(call[c].cmd.op, Status(path))
       IN  /\ Answer(c, answer)
           /\ told' = IF answer = "Indeterminate" THEN told ELSE told \cup Shown(path)
    /\ UNCHANGED <<writer, view, replies>>

\* The client hangs up: a send that waits for room is withdrawn, a command that
\* was submitted is not, its reply falls on the floor.
HangUp(c) ==
    /\ call[c].at # "idle"
    /\ call' = [call EXCEPT ![c] = NoCall]
    /\ replies' = {reply \in replies : reply.id # call[c].id}
    /\ UNCHANGED <<asked, accepting, sender_gone, writer, view, history>>

\* The shutdown signal: serve takes no more requests and waits for those that
\* run; then close drops the command sender.
ShutdownSignal ==
    /\ accepting /\ accepting' = FALSE
    /\ UNCHANGED <<call, asked, sender_gone, writer, view, replies, history>>

CloseDb ==
    /\ ~accepting /\ ~sender_gone
    /\ \A c \in Clients : call[c].at = "idle"
    /\ sender_gone' = TRUE
    /\ UNCHANGED <<call, asked, accepting, writer, view, replies, history>>

-----------------------------------------------------------------------------
(* The writer task. *)

Idle == exit = "none" /\ outputs = <<>>

\* The commands that bring a fact; the others are idempotent successes.
FactIds(commands) ==
    {commands[i].id : i \in {j \in 1 .. Len(commands) : commands[j].fact # None}}

\* The ingress arm of select! is armed while the barrier has room.
AdmissionOpen == ingress_open /\ Len(barrier) < PendingMax

\* An idempotent success may rest on a fact that is not durable.
InheritsBarrier == flight # NoFlight \/ FactIds(barrier) # {}

Sends(reply) == [kind |-> "reply", id |-> reply.id, reply |-> reply]

\* Variant: the fact is folded before the room is looked at.
ShedForestFolded(fact) == StrictFold(admitted, 0, fact)

\* A command that is shed leaves nothing in the admitted forest.
ShedForest(fact) == admitted

\* One command: a fact or an idempotent success joins the barrier, or is
\* answered at once if nothing undurable is before it; refusals are always
\* answered at once, and a suffix without room sheds facts.
Take ==
    LET id       == Head(queue).id
        cmd      == Head(queue).cmd
        decision == Decide(admitted, cmd)
        command  == [id |-> id, fact |-> decision.fact,
                     result |-> Success(cmd, decision.kind), promise |-> decision.promise]
        waits    == barrier' = Append(barrier, command) /\ UNCHANGED outputs
        answers(result, promise) ==
            outputs' = <<Sends(Reply(id, result, promise))>> /\ UNCHANGED barrier
    IN  /\ Idle /\ AdmissionOpen /\ queue # <<>>
        /\ queue' = Tail(queue)
        /\ \/ /\ decision.kind = "fact"
              /\ admitted' = StrictFold(admitted, 0, decision.fact)
              /\ waits /\ UNCHANGED grounds
           \/ /\ decision.kind = "fact"
              /\ admitted' = ShedForest(decision.fact)
              /\ answers("Overloaded", None) /\ UNCHANGED grounds
           \/ /\ decision.kind = "idempotent"
              /\ IF InheritsBarrier THEN waits
                 ELSE answers(command.result, decision.promise)
              /\ UNCHANGED <<admitted, grounds>>
           \/ /\ decision.kind = "refused"
              /\ answers(Refusal(admitted, cmd), None)
              /\ grounds' = grounds \cup Grounds(admitted, cmd)
              /\ UNCHANGED admitted
        /\ UNCHANGED <<edge, ingress_gone, ingress_open, durable, flight, exit, view, replies,
                       told, failed, effected>>

\* Variant: closing does not wait for the commands that are queued.
SeesClosedEarly == sender_gone

\* recv answers None once the senders are gone and the channel is empty.
SeesClosed == sender_gone /\ queue = <<>>

IngressClosed ==
    /\ Idle /\ AdmissionOpen /\ SeesClosed
    /\ ingress_open' = FALSE
    /\ UNCHANGED <<edge, queue, ingress_gone, admitted, durable, barrier, flight, outputs, exit,
                   view, replies, history>>

Completions(commands) ==
    [i \in 1 .. Len(commands) |->
        Sends(Reply(commands[i].id, commands[i].result, commands[i].promise))]

\* Variant: a barrier is flushed only once it is full.
FlushesFull == Len(barrier) = PendingMax
Flushes == barrier # <<>>

\* The barrier becomes the flight; one without facts is only answered.
Drain ==
    /\ Idle /\ flight = NoFlight /\ Flushes
    /\ barrier' = <<>>
    /\ IF FactIds(barrier) = {}
       THEN outputs' = Completions(barrier) /\ UNCHANGED flight
       ELSE flight' = [forest |-> admitted, commands |-> barrier] /\ UNCHANGED outputs
    /\ UNCHANGED <<edge, queue, ingress_gone, ingress_open, admitted, durable, exit, view,
                   replies, history>>

\* Variant: the replies leave before the view.
InOrderReversed(publish, sends) == sends \o publish

\* PublishView, then SendReplies.
InOrder(publish, sends) == publish \o sends

FlightDurable ==
    /\ Idle /\ flight # NoFlight
    /\ durable' = flight.forest
    /\ effected' = effected \cup FactIds(flight.commands)
    /\ outputs' = InOrder(<<[kind |-> "view", forest |-> flight.forest]>>,
                          Completions(flight.commands))
    /\ flight' = NoFlight
    /\ UNCHANGED <<edge, queue, ingress_gone, ingress_open, admitted, barrier, exit, view,
                   replies, told, failed, grounds>>

\* The facts in flight when the writer exits may be durable, or may become so.
MayBeDurable == effected' \in {effected, effected \cup FactIds(flight.commands)}

\* The create ends the writer, which drops the flight and its waiters at once.
FlightFails ==
    /\ Idle /\ flight # NoFlight
    /\ exit' = "Failed" /\ flight' = NoFlight /\ MayBeDurable
    /\ UNCHANGED <<edge, queue, ingress_gone, ingress_open, admitted, durable, barrier, outputs,
                   view, replies, told, failed, grounds>>

\* A checkpoint ends the writer, whether or not a flight is running.
CheckpointFails ==
    /\ Idle
    /\ exit' = "Failed" /\ MayBeDurable
    /\ UNCHANGED <<edge, queue, ingress_gone, ingress_open, admitted, durable, barrier, flight,
                   outputs, view, replies, told, failed, grounds>>

\* execute_action; a reply whose receiver is gone falls on the floor.
Execute ==
    /\ outputs # <<>>
    /\ outputs' = Tail(outputs)
    /\ LET output == Head(outputs)
       IN  IF output.kind = "view"
           THEN view' = output.forest /\ UNCHANGED replies
           ELSE /\ replies' = replies \cup
                      {output.reply : c \in {d \in Clients : call[d].at = "waiting"
                                                           /\ call[d].id = output.id}}
                /\ UNCHANGED view
    /\ UNCHANGED <<edge, queue, ingress_gone, ingress_open, admitted, durable, barrier, flight,
                   exit, history>>

Finish ==
    /\ Idle /\ ~ingress_open /\ flight = NoFlight /\ barrier = <<>>
    /\ exit' = "Shutdown"
    /\ UNCHANGED <<edge, queue, ingress_gone, ingress_open, admitted, durable, barrier, flight,
                   outputs, view, replies, history>>

\* run returns: the receiver drops with the commands in it, then the machine
\* with the waiters it still has.
DropIngress ==
    /\ exit # "none" /\ ~ingress_gone
    /\ ingress_gone' = TRUE /\ queue' = <<>>
    /\ UNCHANGED <<edge, ingress_open, admitted, durable, barrier, flight, outputs, exit, view,
                   replies, history>>

DropMachine ==
    /\ ingress_gone /\ (barrier # <<>> \/ flight # NoFlight)
    /\ barrier' = <<>> /\ flight' = NoFlight
    /\ UNCHANGED <<edge, queue, ingress_gone, ingress_open, admitted, durable, outputs, exit,
                   view, replies, history>>

-----------------------------------------------------------------------------

Init ==
    /\ call = [c \in Clients |-> NoCall]
    /\ asked = 0 /\ accepting = TRUE /\ sender_gone = FALSE
    /\ queue = <<>> /\ ingress_gone = FALSE /\ ingress_open = TRUE
    /\ admitted = Empty /\ durable = Empty /\ view = Empty
    /\ barrier = <<>> /\ flight = NoFlight /\ outputs = <<>> /\ exit = "none"
    /\ replies = {}
    /\ told = {} /\ failed = {} /\ effected = {} /\ grounds = {}

Handle(c) ==
    \/ Enqueue(c) \/ Dropped(c) \/ CheckServing(c) \/ BorrowView(c)
    \/ \E reply \in replies : Receive(c, reply)

Write ==
    \/ Take \/ IngressClosed \/ Drain \/ FlightDurable \/ FlightFails \/ CheckpointFails
    \/ Execute \/ Finish \/ DropIngress \/ DropMachine

Next ==
    \/ \E c \in Clients, cmd \in Asks : Ask(c, cmd)
    \/ \E c \in Clients : Handle(c) \/ HangUp(c)
    \/ Write
    \/ ShutdownSignal \/ CloseDb

Spec == Init /\ [][Next]_vars

\* Handlers and the writer task are scheduled, flushes fall due and flights end.
Fairness ==
    /\ \A c \in Clients : WF_vars(Handle(c))
    /\ WF_vars(Take) /\ WF_vars(IngressClosed) /\ WF_vars(Drain)
    /\ WF_vars(FlightDurable \/ FlightFails)
    /\ WF_vars(Execute) /\ WF_vars(Finish) /\ WF_vars(DropIngress) /\ WF_vars(DropMachine)

FairSpec == Spec /\ Fairness

-----------------------------------------------------------------------------
(* Properties. *)

\* "It never reports definite failure while a request may still linearize": a
\* request answered 404, 409, 410, 429 or 503 is not in the WAL, then or later.
DefiniteFailureHasNoEffect == failed \cap effected = {}

\* An answer that cannot follow a promise about the same path.
Contradicts(answer, promise) ==
    \/ answer \in {"Created", "NotFound"}
    \/ promise.level = "deleted"
         /\ answer \in {"AlreadyExists", "Closed", "Deleted", "LiveOpen", "LiveClosed"}
    \/ promise.level = "closed" /\ answer = "LiveOpen"

\* No answer contradicts a success or a status that some caller received before
\* the request was made: no second create or delete succeeds, no status runs
\* backwards, and the split of NotLive, which reads the view after the refusal,
\* finds no stream missing that was reported to exist.  A refusal binds no later
\* answer: it rests on the admitted forest, which the view may not show yet.
AnswersRespectRealTime ==
    \A c \in Clients :
        call[c].at = "idle" /\ call[c].answer # None =>
            \A promise \in call[c].known :
                promise.path = call[c].cmd.path => ~Contradicts(call[c].answer, promise)

\* A clean shutdown has drained every command that entered the channel, those of
\* callers that hung up too: all that was admitted is durable and visible.
ShutdownDrains ==
    exit = "Shutdown" => queue = <<>> /\ admitted = durable /\ view = durable

\* Every request is answered, full channel, full barrier and a writer that exits
\* included.
EveryRequestAnswered == \A c \in Clients : call[c].at # "idle" ~> call[c].at = "idle"

\* A refusal is answered before the fact it rests on is durable.  The fact does
\* become visible, unless the writer fails.
RefusalGroundsSurface ==
    \A promise \in {q \in Promises : q.level # "closed"} :
        promise \in grounds ~> (Keeps(view, promise) \/ exit = "Failed")

=============================================================================
