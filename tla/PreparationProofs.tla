------------------------- MODULE PreparationProofs -------------------------
(***************************************************************************)
(* Proofs about the storage pipeline of checkpoint attempts, for any       *)
(* number of tables and attempts, any width of the pipeline and any        *)
(* capacity of the channel.                                                *)
(*                                                                         *)
(* The inductive invariant accounts for every table the producer has sent: *)
(* while the task establishes, it is in the channel, in a create or in the *)
(* store, and in the store once a create of it has been answered.          *)
(***************************************************************************)
EXTENDS Preparation, TLAPS

TableType == [attempt : Nat, ordinal : Nat]
CreateType == [table : TableType, status : {"sent", "won", "lost", "reconciling"}]

PreparationType ==
    /\ attempt \in Nat /\ count \in Nat
    /\ producer \in [at : {"encoding", "sending", "finished"}, next : Nat \ {0}]
    /\ channel \in Seq(TableType)
    /\ receiver_open \in BOOLEAN
    /\ creates \subseteq CreateType /\ adrift \subseteq CreateType
    /\ selected \subseteq TableType

InChannel(table) == \E i \in 1 .. Len(channel) : channel[i] = table
InCreates(table) == \E create \in creates : create.table = table

\* An empty channel.
LEMMA EmptyChannel == <<>> \in Seq(TableType)
  OBVIOUS

\* The table of the running attempt with this ordinal.
Nth(n) == [attempt |-> attempt, ordinal |-> n]

\* Every table the producer has sent so far.
Sent == {n \in Nat : 0 < n /\ n < producer.next}

\* An identity names one object.
IdentityInv == \A object \in store : object.bytes = object.key /\ object = Object(object.key)

\* A create that the store has handled left its table there.
HandledInv == \A create \in creates : create.status \in {"won", "lost"} => Stored(create.table)

\* No table is lost between the producer and the store.
AccountInv ==
    /\ receiver_open = (task = "establishing")
    /\ task = "establishing" =>
         \A n \in Sent : InChannel(Nth(n)) \/ InCreates(Nth(n)) \/ Stored(Nth(n))
    /\ task = "joining" /\ result = "established" => \A n \in Sent : Stored(Nth(n))
    /\ prepared = "seal" => Producing("finished") /\ count < producer.next

PreparationInv ==
    /\ PreparationType
    /\ IdentityInv
    /\ HandledInv
    /\ AccountInv
    /\ PreparedIsDurable
    /\ IdentitiesAreFresh

-----------------------------------------------------------------------------
(* The store. *)

\* A fresh identity is occupied only by its own bytes.
LEMMA OccupiedIsStored ==
    ASSUME IdentityInv, NEW table, Occupied(table)
    PROVE  Stored(table)
  BY DEF IdentityInv, Occupied, Stored, Object, Key

\* A create that lands stores its table and nothing else.
LEMMA LandsStores ==
    ASSUME IdentityInv, NEW create, Lands(create)
    PROVE  /\ IdentityInv'
           /\ Stored(create.table)'
           /\ \A table : Stored(table) => Stored(table)'
  <1>1. CASE Occupied(create.table)
    <2>1. store' = store
      BY <1>1 DEF Lands
    <2>2. Stored(create.table)
      BY <1>1, OccupiedIsStored
    <2> QED
      BY <2>1, <2>2 DEF IdentityInv, Stored, Object, Key
  <1>2. CASE ~Occupied(create.table)
    BY <1>2 DEF Lands, IdentityInv, Stored, Object, Key
  <1> QED
    BY <1>1, <1>2

\* The tables that Seals selected stay where they are.
LEMMA SelectedStays ==
    ASSUME PreparedIsDurable, UNCHANGED selected,
           \A table : Stored(table) => Stored(table)'
    PROVE  PreparedIsDurable'
  BY DEF PreparedIsDurable

\* The store leaves alone what the pipeline holds.
LEMMA StoreStays ==
    ASSUME UNCHANGED store
    PROVE  /\ \A table : Stored(table)' <=> Stored(table)
           /\ IdentityInv => IdentityInv'
  BY DEF Stored, Object, Key, IdentityInv

-----------------------------------------------------------------------------
(* One lemma per step. *)

\* A request takes effect while the task waits for it, or adrift.
LEMMA LandKeeps ==
    ASSUME PreparationInv,
           \/ \E create \in creates : Land(create)
           \/ \E create \in adrift : LandAdrift(create)
    PROVE  PreparationInv'
  <1>0. /\ PreparationType /\ IdentityInv /\ HandledInv /\ AccountInv /\ PreparedIsDurable
        /\ IdentitiesAreFresh
    BY DEF PreparationInv
  <1>1. /\ UNCHANGED <<attempt, count, pipeline, task, result, outcome, selected>>
        /\ UNCHANGED <<producer, prepared, channel, receiver_open>>
    BY DEF Land, LandAdrift, pipeline
  <1>2. PICK create \in creates \cup adrift :
          /\ Lands(create)
          /\ adrift' \subseteq adrift
          /\ \/ creates' = creates
             \/ creates' = (creates \ {create}) \cup {Landed(create)}
    BY DEF Land, LandAdrift
  <1>3. /\ IdentityInv' /\ Stored(create.table)'
        /\ \A table : Stored(table) => Stored(table)'
    BY <1>0, <1>2, LandsStores
  <1>4. /\ create \in CreateType /\ Landed(create) \in CreateType
        /\ Landed(create).table = create.table
    BY <1>0, <1>2 DEF PreparationType, CreateType, Landed
  <1>5. PreparationType'
    BY <1>0, <1>1, <1>2, <1>4 DEF PreparationType
  <1>6. HandledInv'
    BY <1>0, <1>2, <1>3, <1>4 DEF HandledInv
  <1>7. \A table : InCreates(table) => InCreates(table)'
    BY <1>2, <1>4 DEF InCreates
  <1>8. AccountInv'
    BY <1>0, <1>1, <1>3, <1>7 DEF AccountInv, Sent, Nth, InChannel, Producing
  <1>9. PreparedIsDurable' /\ IdentitiesAreFresh'
    BY <1>0, <1>1, <1>3, SelectedStays DEF IdentitiesAreFresh
  <1> QED
    BY <1>3, <1>5, <1>6, <1>8, <1>9 DEF PreparationInv

\* The blocking producer: a table it sends enters the channel, a Seal is
\* assembled after the last of them.
LEMMA ProduceKeeps ==
    ASSUME PreparationInv, Produce
    PROVE  PreparationInv'
  <1>0. /\ PreparationType /\ IdentityInv /\ HandledInv /\ AccountInv /\ PreparedIsDurable
        /\ IdentitiesAreFresh
    BY DEF PreparationInv
  <1>1. UNCHANGED <<attempt, count, receiver_open, creates, adrift, task, result, store,
                    selected>>
    BY DEF Produce, Encode, BlockingSend, Assemble
  <1>2. /\ \A table : Stored(table)' <=> Stored(table)
        /\ IdentityInv'
    BY <1>0, <1>1, StoreStays
  <1>3. HandledInv' /\ PreparedIsDurable' /\ IdentitiesAreFresh'
    BY <1>0, <1>1, <1>2, SelectedStays DEF HandledInv, IdentitiesAreFresh
  <1>4. CASE \/ Encode
             \/ Assemble
             \/ BlockingSend /\ ~receiver_open
    <2>1. /\ producer' \in [at : {"encoding", "sending", "finished"}, next : Nat \ {0}]
          /\ producer'.next = producer.next /\ UNCHANGED channel
          /\ prepared' = "seal" => producer'.at = "finished" /\ count < producer.next
      BY <1>0, <1>4 DEF Encode, Assemble, BlockingSend, Finish, PreparationType, AccountInv,
                        Producing, HasChunk
    <2>2. PreparationType'
      BY <1>0, <1>1, <2>1 DEF PreparationType
    <2>3. AccountInv'
      BY <1>0, <1>1, <1>2, <2>1
      DEF AccountInv, Sent, Nth, InChannel, InCreates, Producing
    <2> QED
      BY <1>2, <1>3, <2>2, <2>3 DEF PreparationInv
  <1>5. CASE BlockingSend /\ receiver_open
    <2>1. /\ channel' = Append(channel, Table)
          /\ producer' = [at |-> "encoding", next |-> producer.next + 1]
          /\ UNCHANGED prepared /\ producer.at = "sending"
      BY <1>5 DEF BlockingSend, Producing
    <2>2. Table \in TableType /\ Table = Nth(producer.next)
      BY <1>0 DEF PreparationType, TableType, Table, Nth
    <2>3. PreparationType'
      BY <1>0, <1>1, <2>1, <2>2 DEF PreparationType
    <2>4. /\ Len(channel') = Len(channel) + 1 /\ Len(channel) \in Nat
          /\ \A i \in 1 .. Len(channel) : channel'[i] = channel[i]
          /\ channel'[Len(channel) + 1] = Nth(producer.next)
      BY <1>0, <2>1, <2>2 DEF PreparationType
    <2>5. \A n : InChannel(Nth(n)) \/ n = producer.next => InChannel(Nth(n))'
      BY <1>1, <2>4 DEF InChannel, Nth
    <2>6. \A n \in Sent' : n \in Sent \/ n = producer.next
      BY <1>0, <2>1 DEF Sent, PreparationType
    <2>7. AccountInv'
      <3>1. task = "establishing" /\ prepared # "seal"
        BY <1>0, <1>5, <2>1 DEF AccountInv, Producing
      <3>2. \A n \in Sent' : InChannel(Nth(n))' \/ InCreates(Nth(n))' \/ Stored(Nth(n))'
        BY <1>0, <1>1, <1>2, <2>5, <2>6, <3>1 DEF AccountInv, InCreates, Nth
      <3> QED
        BY <1>0, <1>1, <2>1, <3>1, <3>2 DEF AccountInv
    <2> QED
      BY <1>2, <1>3, <2>3, <2>7 DEF PreparationInv
  <1> QED
    BY <1>4, <1>5 DEF Produce

\* The task takes a table from the channel and sends its create.
LEMMA PullKeeps ==
    ASSUME PreparationInv, Pull
    PROVE  PreparationInv'
  <1>0. /\ PreparationType /\ IdentityInv /\ HandledInv /\ AccountInv /\ PreparedIsDurable
        /\ IdentitiesAreFresh
    BY DEF PreparationInv
  <1>1. /\ UNCHANGED <<attempt, count, producer, prepared, receiver_open, adrift, task, result,
                       store, selected>>
        /\ channel # <<>> /\ channel' = Tail(channel)
        /\ creates' = creates \cup {Create(Head(channel))}
    BY DEF Pull
  <1>2. /\ \A table : Stored(table)' <=> Stored(table)
        /\ IdentityInv'
    BY <1>0, <1>1, StoreStays
  <1>3. /\ channel' \in Seq(TableType) /\ Len(channel') = Len(channel) - 1
        /\ Len(channel) \in Nat /\ Len(channel) > 0
        /\ \A i \in 1 .. Len(channel') : channel'[i] = channel[i + 1]
        /\ Head(channel) = channel[1] /\ Head(channel) \in TableType
    BY <1>0, <1>1 DEF PreparationType
  <1>4. PreparationType'
    BY <1>0, <1>1, <1>3 DEF PreparationType, Create, CreateType
  <1>5. HandledInv' /\ PreparedIsDurable' /\ IdentitiesAreFresh'
    BY <1>0, <1>1, <1>2, SelectedStays DEF HandledInv, IdentitiesAreFresh, Create
  <1>6. \A table : InChannel(table) => InChannel(table)' \/ table = Head(channel)
    <2> SUFFICES ASSUME NEW table, NEW i \in 1 .. Len(channel), channel[i] = table, i # 1
                 PROVE  InChannel(table)'
      BY <1>3 DEF InChannel
    <2>1. i - 1 \in 1 .. Len(channel') /\ channel'[i - 1] = channel[(i - 1) + 1]
      BY <1>3
    <2> QED
      BY <2>1, <1>3 DEF InChannel
  <1>7. /\ \A table : InCreates(table) => InCreates(table)'
        /\ \A table : table = Head(channel) => InCreates(table)'
    <2> DEFINE create == Create(Head(channel))
    <2>1. create \in creates' /\ create.table = Head(channel) /\ creates \subseteq creates'
      BY <1>1 DEF Create
    <2> HIDE DEF create
    <2> QED
      BY <2>1 DEF InCreates
  <1>8. AccountInv'
    BY <1>0, <1>1, <1>2, <1>6, <1>7 DEF AccountInv, Sent, Nth, Producing
  <1> QED
    BY <1>2, <1>4, <1>5, <1>8 DEF PreparationInv

\* The early return of establish_tables, when it is no contradiction.
LEMMA EndEarlyKeeps ==
    ASSUME PreparationInv, NEW create \in creates, NEW with, with = "abandoned",
           EndEarly(create, with),
           UNCHANGED <<attempt, count, producer, prepared, outcome, store, selected>>
    PROVE  PreparationInv'
  <1>0. /\ PreparationType /\ IdentityInv /\ HandledInv /\ AccountInv /\ PreparedIsDurable
        /\ IdentitiesAreFresh
    BY DEF PreparationInv
  <1>1. /\ \A table : Stored(table)' <=> Stored(table)
        /\ IdentityInv'
    BY <1>0, StoreStays
  <1>2. /\ task' = "joining" /\ result' = "abandoned" /\ receiver_open' = FALSE
        /\ channel' = <<>> /\ creates' = {}
        /\ adrift' \subseteq adrift \cup creates
    BY DEF EndEarly, ReceiverDrops, OnTheirWay
  <1>3. PreparationType'
    <2>1. receiver_open' \in BOOLEAN /\ channel' \in Seq(TableType)
      BY <1>2, EmptyChannel
    <2> QED
      BY <1>0, <1>2, <2>1 DEF PreparationType
  <1>4. HandledInv' /\ PreparedIsDurable' /\ IdentitiesAreFresh'
    BY <1>0, <1>1, <1>2, SelectedStays DEF HandledInv, IdentitiesAreFresh
  <1>5. AccountInv'
    BY <1>0, <1>2 DEF AccountInv, Producing
  <1> QED
    BY <1>1, <1>3, <1>4, <1>5 DEF PreparationInv

\* A create that is answered as established leaves the pipeline.
LEMMA EstablishedKeeps ==
    ASSUME PreparationInv, NEW create \in creates, Stored(create.table), Established(create),
           UNCHANGED <<attempt, count, producer, prepared, outcome, store, selected>>
    PROVE  PreparationInv'
  <1>0. /\ PreparationType /\ IdentityInv /\ HandledInv /\ AccountInv /\ PreparedIsDurable
        /\ IdentitiesAreFresh
    BY DEF PreparationInv
  <1>1. /\ \A table : Stored(table)' <=> Stored(table)
        /\ IdentityInv'
    BY <1>0, StoreStays
  <1>2. creates' = creates \ {create} /\ UNCHANGED <<channel, receiver_open, adrift, task, result>>
    BY DEF Established
  <1>3. PreparationType'
    BY <1>0, <1>2 DEF PreparationType
  <1>4. HandledInv' /\ PreparedIsDurable' /\ IdentitiesAreFresh'
    BY <1>0, <1>1, <1>2, SelectedStays DEF HandledInv, IdentitiesAreFresh
  <1>5. \A table : InCreates(table) => InCreates(table)' \/ Stored(table)
    BY <1>2 DEF InCreates
  <1>6. AccountInv'
    BY <1>0, <1>1, <1>2, <1>5 DEF AccountInv, Sent, Nth, InChannel, Producing
  <1> QED
    BY <1>1, <1>3, <1>4, <1>6 DEF PreparationInv

\* establish_table and reconcile_table: no answer is a contradiction, and none
\* takes a table for established that is not.
LEMMA ResolveKeeps ==
    ASSUME PreparationInv, Resolve
    PROVE  PreparationInv'
  <1>0. /\ PreparationType /\ IdentityInv /\ HandledInv /\ AccountInv /\ PreparedIsDurable
        /\ IdentitiesAreFresh
    BY DEF PreparationInv
  <1>1. PICK create \in creates : Answer(create) \/ Reconcile(create)
    BY DEF Resolve
  <1>2. UNCHANGED <<attempt, count, producer, prepared, outcome, store, selected>>
    BY <1>1 DEF Answer, Reconcile
  <1>3. CASE create.status \in {"won", "lost"} /\ Stored(create.table) /\ Established(create)
    BY <1>2, <1>3, EstablishedKeeps
  <1>4. CASE create.status \in {"won", "lost"} /\ ~Stored(create.table)
    BY <1>0, <1>4 DEF HandledInv
  <1>5. CASE EndEarly(create, "abandoned")
    BY <1>2, <1>5, EndEarlyKeeps
  <1>6. CASE /\ task = "establishing"
             /\ creates' = (creates \ {create})
                             \cup {[create EXCEPT !.status = "reconciling"]}
             /\ adrift' = adrift \cup OnTheirWay({create})
             /\ UNCHANGED <<channel, receiver_open, task, result>>
    <2> DEFINE again == [create EXCEPT !.status = "reconciling"]
    <2>1. again \in CreateType /\ again.table = create.table /\ again.status = "reconciling"
      BY <1>0 DEF PreparationType, CreateType
    <2>2. creates' = (creates \ {create}) \cup {again}
      BY <1>6
    <2> HIDE DEF again
    <2>3. /\ \A table : Stored(table)' <=> Stored(table)
          /\ IdentityInv'
      BY <1>0, <1>2, StoreStays
    <2>4. PreparationType'
      BY <1>0, <1>2, <1>6, <2>1, <2>2 DEF PreparationType, OnTheirWay
    <2>5. HandledInv' /\ PreparedIsDurable' /\ IdentitiesAreFresh'
      BY <1>0, <1>2, <1>6, <2>1, <2>2, <2>3, SelectedStays DEF HandledInv, IdentitiesAreFresh
    <2>6. \A table : InCreates(table) => InCreates(table)'
      BY <2>1, <2>2 DEF InCreates
    <2>7. AccountInv'
      BY <1>0, <1>2, <1>6, <2>3, <2>6 DEF AccountInv, Sent, Nth, InChannel, Producing
    <2> QED
      BY <2>3, <2>4, <2>5, <2>7 DEF PreparationInv
  <1>7. CASE Reconcile(create) /\ Matches(create.table) /\ Established(create)
    BY <1>2, <1>7, EstablishedKeeps DEF Matches
  <1>8. CASE ~Matches(create.table) /\ Occupied(create.table)
    BY <1>0, <1>8, OccupiedIsStored DEF Matches
  <1> QED
    BY <1>1, <1>3, <1>4, <1>5, <1>6, <1>7, <1>8 DEF Answer, Reconcile

\* The stream is exhausted: every table that was sent is in the store.
LEMMA ExhaustedKeeps ==
    ASSUME PreparationInv, Exhausted
    PROVE  PreparationInv'
  <1>0. /\ PreparationType /\ IdentityInv /\ HandledInv /\ AccountInv /\ PreparedIsDurable
        /\ IdentitiesAreFresh
    BY DEF PreparationInv
  <1>1. /\ UNCHANGED <<attempt, count, producer, prepared, creates, adrift, store, selected>>
        /\ task = "establishing" /\ channel = <<>> /\ creates = {}
        /\ task' = "joining" /\ result' = "established" /\ receiver_open' = FALSE
        /\ channel' = <<>>
    BY DEF Exhausted, ReceiverDrops
  <1>2. /\ \A table : Stored(table)' <=> Stored(table)
        /\ IdentityInv'
    BY <1>0, <1>1, StoreStays
  <1>3. \A n \in Sent : Stored(Nth(n))
    BY <1>0, <1>1 DEF AccountInv, InChannel, InCreates
  <1>4. AccountInv'
    BY <1>0, <1>1, <1>2, <1>3 DEF AccountInv, Sent, Nth, Producing
  <1>5. PreparationType'
    BY <1>0, <1>1 DEF PreparationType
  <1>6. HandledInv' /\ PreparedIsDurable' /\ IdentitiesAreFresh'
    BY <1>0, <1>1, <1>2, SelectedStays DEF HandledInv, IdentitiesAreFresh
  <1> QED
    BY <1>2, <1>4, <1>5, <1>6 DEF PreparationInv

\* prepare hands a Seal over only when all its tables are in the store.
LEMMA JoinKeeps ==
    ASSUME PreparationInv, Join
    PROVE  PreparationInv'
  <1>0. /\ PreparationType /\ IdentityInv /\ HandledInv /\ AccountInv /\ PreparedIsDurable
        /\ IdentitiesAreFresh
    BY DEF PreparationInv
  <1>1. /\ UNCHANGED <<attempt, count, producer, prepared, channel, receiver_open, creates,
                       adrift, result, store>>
        /\ task = "joining" /\ task' = "idle"
        /\ selected' = IF HandsOver
                       THEN selected \cup {[attempt |-> attempt, ordinal |-> n] : n \in 1 .. count}
                       ELSE selected
    BY DEF Join, pipeline
  <1>2. /\ \A table : Stored(table)' <=> Stored(table)
        /\ IdentityInv'
    BY <1>0, <1>1, StoreStays
  <1>3. ASSUME HandsOver, NEW n \in 1 .. count
        PROVE  Nth(n) \in TableType /\ Stored(Nth(n))
    <2>1. count < producer.next /\ n \in Nat /\ 0 < n /\ n < producer.next /\ attempt \in Nat
      BY <1>0, <1>3 DEF HandsOver, AccountInv, PreparationType
    <2> QED
      BY <1>0, <1>1, <1>3, <2>1 DEF AccountInv, Sent, HandsOver, Nth, TableType
  <1>4. PreparedIsDurable' /\ selected' \subseteq TableType
    BY <1>0, <1>1, <1>2, <1>3 DEF PreparedIsDurable, Nth, PreparationType
  <1>5. PreparationType' /\ AccountInv'
    BY <1>0, <1>1, <1>4 DEF PreparationType, AccountInv, Producing
  <1>6. HandledInv' /\ IdentitiesAreFresh'
    BY <1>0, <1>1, <1>2 DEF HandledInv, IdentitiesAreFresh
  <1> QED
    BY <1>2, <1>4, <1>5, <1>6 DEF PreparationInv

\* Shutdown aborts the attempt anywhere; the writer begins another.
LEMMA CancelBeginKeeps ==
    ASSUME PreparationInv, Cancel \/ \E n \in 0 .. TablesMax : Begin(n)
    PROVE  PreparationInv'
  <1>0. /\ PreparationType /\ IdentityInv /\ HandledInv /\ AccountInv /\ PreparedIsDurable
        /\ IdentitiesAreFresh
    BY DEF PreparationInv
  <1>1. UNCHANGED <<store, selected>>
    BY DEF Cancel, Begin
  <1>2. /\ \A table : Stored(table)' <=> Stored(table)
        /\ IdentityInv' /\ PreparedIsDurable'
    BY <1>0, <1>1, StoreStays, SelectedStays
  <1>3. CASE Cancel
    <2>1. /\ task' = "idle" /\ receiver_open' = FALSE /\ channel' = <<>> /\ creates' = {}
          /\ adrift' \subseteq adrift \cup creates
          /\ UNCHANGED <<attempt, count, producer, prepared, result, selected>>
      BY <1>3 DEF Cancel, ReceiverDrops, OnTheirWay
    <2>2. PreparationType' /\ AccountInv'
      <3>1. receiver_open' \in BOOLEAN /\ channel' \in Seq(TableType)
        BY <2>1, EmptyChannel
      <3>2. PreparationType'
        BY <1>0, <2>1, <3>1 DEF PreparationType
      <3>3. AccountInv'
        BY <1>0, <2>1 DEF AccountInv, Producing
      <3> QED
        BY <3>2, <3>3
    <2>3. HandledInv' /\ IdentitiesAreFresh'
      BY <1>0, <2>1 DEF HandledInv, IdentitiesAreFresh
    <2> QED
      BY <1>2, <2>2, <2>3 DEF PreparationInv
  <1>4. CASE \E n \in 0 .. TablesMax : Begin(n)
    <2>1. PICK n \in 0 .. TablesMax : Begin(n)
      BY <1>4
    <2>2. /\ attempt' = attempt + 1 /\ count' = n
          /\ producer' = [at |-> "encoding", next |-> 1]
          /\ prepared' = "nothing" /\ channel' = <<>> /\ receiver_open' = TRUE
          /\ task' = "establishing" /\ result' = "none"
          /\ UNCHANGED <<creates, adrift, selected>>
      BY <2>1 DEF Begin
    <2>3. n \in Nat
      BY PreparationAssumption
    <2>4. PreparationType'
      BY <1>0, <2>2, <2>3 DEF PreparationType
    <2>5. Sent' = {}
      BY <2>2 DEF Sent
    <2>6. AccountInv'
      BY <2>2, <2>5 DEF AccountInv
    <2>7. HandledInv' /\ IdentitiesAreFresh'
      BY <1>0, <1>2, <2>2 DEF HandledInv, IdentitiesAreFresh
    <2> QED
      BY <1>2, <2>4, <2>6, <2>7 DEF PreparationInv
  <1> QED
    BY <1>3, <1>4

-----------------------------------------------------------------------------
(* The theorems. *)

\* Nothing is begun, sent or stored.
LEMMA PreparationInitEstablishes == Init => PreparationInv
  <1> SUFFICES ASSUME Init PROVE PreparationInv
    OBVIOUS
  <1>1. PreparationType
    <2>1. receiver_open \in BOOLEAN /\ channel \in Seq(TableType)
      BY EmptyChannel DEF Init
    <2> QED
      BY <2>1 DEF Init, PreparationType
  <1>2. AccountInv
    BY DEF Init, AccountInv
  <1>3. IdentityInv /\ HandledInv /\ PreparedIsDurable /\ IdentitiesAreFresh
    BY DEF Init, IdentityInv, HandledInv, PreparedIsDurable, IdentitiesAreFresh
  <1> QED
    BY <1>1, <1>2, <1>3 DEF PreparationInv

\* Every step keeps the invariant.
LEMMA PreparationNextKeeps == PreparationInv /\ [Next]_vars => PreparationInv'
  <1> SUFFICES ASSUME PreparationInv, [Next]_vars PROVE PreparationInv'
    OBVIOUS
  <1>1. CASE Next
    BY <1>1, LandKeeps, ProduceKeeps, PullKeeps, ResolveKeeps, ExhaustedKeeps, JoinKeeps,
       CancelBeginKeeps DEF Next
  <1>2. CASE UNCHANGED vars
    <2>1. UNCHANGED <<attempt, count, producer, prepared, channel, receiver_open, creates,
                      adrift, task, result, store, selected>>
      BY <1>2 DEF vars, pipeline
    <2>2. /\ \A table : Stored(table)' <=> Stored(table)
          /\ IdentityInv' /\ PreparedIsDurable'
      BY <2>1, StoreStays, SelectedStays DEF PreparationInv
    <2>3. PreparationType' /\ HandledInv' /\ IdentitiesAreFresh'
      BY <2>1, <2>2 DEF PreparationInv, PreparationType, HandledInv, IdentitiesAreFresh
    <2>4. AccountInv'
      BY <2>1, <2>2 DEF PreparationInv, AccountInv, Sent, Nth, InChannel, InCreates, Producing
    <2> QED
      BY <2>2, <2>3, <2>4 DEF PreparationInv
  <1> QED
    BY <1>1, <1>2

\* Every table the producer sent is accounted for, in every reachable state.
THEOREM PreparationInvariant == Spec => []PreparationInv
  BY PreparationInitEstablishes, PreparationNextKeeps, PTL DEF Spec

\* A Seal that prepare hands to the writer names only tables that are in the
\* store, for every width of the pipeline and every order of its answers.
THEOREM PreparedIsAlwaysDurable == Spec => []PreparedIsDurable
  <1>1. PreparationInv => PreparedIsDurable
    BY DEF PreparationInv
  <1> QED
    BY <1>1, PreparationInvariant, PTL

\* No attempt meets a fresh identity that is occupied by other bytes, whatever
\* earlier attempts still land (next_table_key, establish_table).
THEOREM IdentitiesAreAlwaysFresh == Spec => []IdentitiesAreFresh
  <1>1. PreparationInv => IdentitiesAreFresh
    BY DEF PreparationInv
  <1> QED
    BY <1>1, PreparationInvariant, PTL

=============================================================================
