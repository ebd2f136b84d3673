---------------------------- MODULE Preparation ----------------------------
(***************************************************************************)
(* The storage pipeline of one checkpoint attempt after another.  A        *)
(* blocking producer encodes tables and sends them through a bounded       *)
(* channel; an async task pulls them and has a bounded number of creates   *)
(* in flight; the attempt is Prepared when every table is established and  *)
(* the producer has assembled its Seal.  The first table that is not       *)
(* established ends the attempt, and shutdown may abort it anywhere.       *)
(*                                                                         *)
(* Which rows go into which table is CheckpointPlan; what the writer does  *)
(* with the outcome is Writer.  A table is the attempt that encoded it and *)
(* its ordinal: two attempts encode different bytes.                       *)
(***************************************************************************)
EXTENDS Naturals, Sequences, FiniteSets

CONSTANTS
    CreatesMax,   \* CHECKPOINT_CHILD_CREATES_MAX
    ChannelMax,   \* CHECKPOINT_TABLE_CHANNEL_MAX
    TablesMax,    \* bound of the model on the tables of an attempt
    AttemptsMax   \* bound of the model on attempts

ASSUME PreparationAssumption ==
    /\ CreatesMax \in Nat \ {0}
    /\ ChannelMax \in Nat \ {0}
    /\ TablesMax \in Nat
    /\ AttemptsMax \in Nat

VARIABLES
    attempt,        \* attempts begun
    count,          \* tables the attempt will encode
    producer,       \* what the blocking task does, and its next ordinal
    prepared,       \* what the producer has sent back: a Seal, or nothing
    channel,        \* encoded tables between producer and task
    receiver_open,  \* the task still holds the receiver
    creates,        \* creates the task waits for
    adrift,         \* creates nobody waits for, which may still take effect
    task,           \* idle, establishing or joining the producer
    result,         \* the TableEstablishment of the attempt
    outcome,        \* how the last attempt ended
    store,          \* table objects: their key and their bytes
    selected        \* tables named by the Seals that were handed to the writer

pipeline == <<producer, prepared, channel, receiver_open>>
vars == <<attempt, count, pipeline, creates, adrift, task, result, outcome, store, selected>>

Attempts == 1 .. AttemptsMax
EncodedTables == [attempt : Attempts, ordinal : 1 .. TablesMax]

\* Variant: the attempt is no part of a table's identity.
KeyOfOrdinal(table) == [attempt |-> 0, ordinal |-> table.ordinal]

\* next_table_key: FreshIdentity names the attempt, so no identity is used twice.
Key(table) == table

Object(table) == [key |-> Key(table), bytes |-> table]
Occupied(table) == \E object \in store : object.key = Key(table)
Stored(table) == Object(table) \in store

Create(table) == [table |-> table, status |-> "sent"]

-----------------------------------------------------------------------------
(* The blocking producer: prepare_checkpoint with blocking_send as its emit. *)

Producing(at) == producer.at = at
Table == [attempt |-> attempt, ordinal |-> producer.next]

\* The chunker has rows left for another table.
HasChunk == producer.next <= count

Encode ==
    /\ Producing("encoding") /\ HasChunk
    /\ producer' = [producer EXCEPT !.at = "sending"]
    /\ UNCHANGED <<attempt, count, prepared, channel, receiver_open, creates, adrift, task,
                   result, outcome, store, selected>>

Finish(with) ==
    /\ producer' = [producer EXCEPT !.at = "finished"]
    /\ prepared' = with

\* blocking_send waits for room, and fails once the receiver is gone.
BlockingSend ==
    /\ Producing("sending")
    /\ \/ /\ receiver_open /\ Len(channel) < ChannelMax
          /\ channel' = Append(channel, Table)
          /\ producer' = [at |-> "encoding", next |-> producer.next + 1]
          /\ UNCHANGED prepared
       \/ ~receiver_open /\ Finish("nothing") /\ UNCHANGED channel
    /\ UNCHANGED <<attempt, count, receiver_open, creates, adrift, task, result, outcome,
                   store, selected>>

\* assemble_checkpoint_seal; the sender of the channel drops after the reply.
Assemble ==
    /\ Producing("encoding") /\ ~HasChunk
    /\ Finish("seal")
    /\ UNCHANGED <<attempt, count, channel, receiver_open, creates, adrift, task, result,
                   outcome, store, selected>>

-----------------------------------------------------------------------------
(* The store: a create takes effect at most once, on a vacant key, before or *)
(* after its caller stops waiting.                                          *)

Lands(create) ==
    store' = IF Occupied(create.table) THEN store ELSE store \cup {Object(create.table)}

Landed(create) == [create EXCEPT !.status = IF Occupied(create.table) THEN "lost" ELSE "won"]

Land(create) ==
    /\ create.status = "sent"
    /\ creates' = (creates \ {create}) \cup {Landed(create)}
    /\ Lands(create)
    /\ UNCHANGED <<attempt, count, pipeline, adrift, task, result, outcome, selected>>

LandAdrift(create) ==
    /\ adrift' = adrift \ {create}
    /\ Lands(create)
    /\ UNCHANGED <<attempt, count, pipeline, creates, task, result, outcome, selected>>

\* Requests that may still take effect once their callers are dropped.
OnTheirWay(dropped) == {c \in dropped : c.status = "sent"}

-----------------------------------------------------------------------------
(* The task: establish_tables, then the join of the producer. *)

\* Variant: the receiver outlives the early return.
ReceiverDropsLate == receiver_open' = receiver_open /\ channel' = channel

\* The receiver drops with the stream it was moved into, queued tables too.
ReceiverDrops == receiver_open' = FALSE /\ channel' = <<>>

\* establish_tables returns at the create that was not established; the others
\* are dropped with it.
EndEarly(create, with) ==
    /\ task' = "joining" /\ result' = with
    /\ ReceiverDrops
    /\ adrift' = adrift \cup OnTheirWay(creates \ {create})
    /\ creates' = {}

Established(create) ==
    /\ creates' = creates \ {create}
    /\ UNCHANGED <<channel, receiver_open, adrift, task, result>>

\* buffer_unordered: as many creates as the pipeline is wide.
HasSlot == Cardinality(creates) < CreatesMax

Pull ==
    /\ task = "establishing" /\ channel # <<>> /\ HasSlot
    /\ creates' = creates \cup {Create(Head(channel))}
    /\ channel' = Tail(channel)
    /\ UNCHANGED <<attempt, count, producer, prepared, receiver_open, adrift, task, result,
                   outcome, store, selected>>

\* establish_table, the answer of create_if_absent: Direct or DurableMatch,
\* NotOurs, a refusal of the request, or Unresolved whatever became of it.
Answer(create) ==
    /\ task = "establishing"
    /\ \/ /\ create.status \in {"won", "lost"}
          /\ IF Stored(create.table) THEN Established(create) ELSE EndEarly(create, "contradiction")
       \/ create.status = "sent" /\ EndEarly(create, "abandoned")
       \/ /\ create.status # "reconciling"
          /\ creates' = (creates \ {create})
                           \cup {[create EXCEPT !.status = "reconciling"]}
          /\ adrift' = adrift \cup OnTheirWay({create})
          /\ UNCHANGED <<channel, receiver_open, task, result>>
    /\ UNCHANGED <<attempt, count, producer, prepared, outcome, store, selected>>

\* Variant: an unresolved create counts as established.
MatchesAnyway(table) == TRUE

\* CandidateTableEvidence::Match.
Matches(table) == Stored(table)

\* reconcile_table: one read of the key.  The object that is absent, or whose
\* read fails, may be there a moment later: the attempt is abandoned.
Reconcile(create) ==
    /\ task = "establishing" /\ create.status = "reconciling"
    /\ \/ IF Matches(create.table) THEN Established(create)
          ELSE EndEarly(create, IF Occupied(create.table) THEN "contradiction" ELSE "abandoned")
       \/ EndEarly(create, "abandoned")
    /\ UNCHANGED <<attempt, count, producer, prepared, outcome, store, selected>>

\* The producer has dropped its sender, and every create was established.
Exhausted ==
    /\ task = "establishing" /\ Producing("finished") /\ channel = <<>> /\ creates = {}
    /\ task' = "joining" /\ result' = "established"
    /\ ReceiverDrops
    /\ UNCHANGED <<attempt, count, producer, prepared, creates, adrift, outcome, store, selected>>

HandsOver == result = "established" /\ prepared = "seal"

\* prepare returns once the producer has ended.
Join ==
    /\ task = "joining" /\ Producing("finished")
    /\ task' = "idle"
    /\ outcome' = CASE HandsOver -> "Prepared"
                     [] result = "contradiction" -> "Contradiction"
                     [] OTHER -> "Abandoned"
    /\ selected' = IF HandsOver
                   THEN selected \cup {[attempt |-> attempt, ordinal |-> n] : n \in 1 .. count}
                   ELSE selected
    /\ UNCHANGED <<attempt, count, pipeline, creates, adrift, result, store>>

\* CancelCheckpointPreparation aborts the task, at any of its awaits; the
\* blocking producer is not aborted, it runs into the dropped receiver.
Cancel ==
    /\ task # "idle"
    /\ task' = "idle" /\ outcome' = "Cancelled"
    /\ ReceiverDrops
    /\ adrift' = adrift \cup OnTheirWay(creates)
    /\ creates' = {}
    /\ UNCHANGED <<attempt, count, producer, prepared, result, store, selected>>

\* The writer starts another attempt after one that was prepared or abandoned,
\* never after a cancellation, which only shutdown asks for.
Begin(n) ==
    /\ task = "idle" /\ outcome \in {"none", "Prepared", "Abandoned"}
    /\ attempt < AttemptsMax
    /\ attempt' = attempt + 1 /\ count' = n
    /\ producer' = [at |-> "encoding", next |-> 1]
    /\ prepared' = "nothing" /\ channel' = <<>> /\ receiver_open' = TRUE
    /\ task' = "establishing" /\ result' = "none" /\ outcome' = "none"
    /\ UNCHANGED <<creates, adrift, store, selected>>

-----------------------------------------------------------------------------

Init ==
    /\ attempt = 0 /\ count = 0
    /\ producer = [at |-> "finished", next |-> 1] /\ prepared = "nothing"
    /\ channel = <<>> /\ receiver_open = FALSE
    /\ creates = {} /\ adrift = {}
    /\ task = "idle" /\ result = "none" /\ outcome = "none"
    /\ store = {} /\ selected = {}

Produce == Encode \/ BlockingSend \/ Assemble
Resolve == \E create \in creates : Answer(create) \/ Reconcile(create)

Next ==
    \/ \E n \in 0 .. TablesMax : Begin(n)
    \/ Produce
    \/ \E create \in creates : Land(create)
    \/ \E create \in adrift : LandAdrift(create)
    \/ Pull \/ Resolve \/ Exhausted \/ Join
    \/ Cancel

Spec == Init /\ [][Next]_vars

\* The blocking thread and the task run, and the store answers; nothing forces
\* the writer to begin or to cancel an attempt.
Fairness ==
    /\ WF_vars(Produce) /\ WF_vars(Pull) /\ WF_vars(Resolve)
    /\ WF_vars(Exhausted) /\ WF_vars(Join)

FairSpec == Spec /\ Fairness

-----------------------------------------------------------------------------
(* Properties. *)

\* A Seal that reaches the writer selects only tables that are in the store with
\* the bytes this attempt encoded, whatever order the creates were answered in
\* and whatever an abandoned attempt still lands.
PreparedIsDurable == \A table \in selected : Stored(table)

\* A fresh table identity is never found occupied by other bytes, although
\* creates of abandoned attempts land at any later time: no attempt ends in a
\* contradiction.
IdentitiesAreFresh == result # "contradiction"

\* Every attempt ends, cancelled or not, and no producer is left blocked on a
\* channel nobody reads.
AttemptEnds ==
    task # "idle" \/ ~Producing("finished") ~> task = "idle" /\ Producing("finished")

=============================================================================
