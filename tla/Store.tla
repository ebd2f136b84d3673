------------------------------- MODULE Store -------------------------------
(***************************************************************************)
(* One coordinate of the object store, and the typed stores that use it    *)
(* through the adapter: calls of several processes that create, read and   *)
(* delete.  Every request and every response is a step of its own.  A      *)
(* request may take effect long after its caller gave up on it, a response *)
(* may be lost, a body may break off, metadata may underreport a size.     *)
(*                                                                         *)
(* The coordinate belongs to one namespace: generation 1 of the seals      *)
(* ("genesis"), a later one ("authority"), the WAL ("wal") or the tables   *)
(* ("table").  Seals are never deleted; WAL objects are read first.        *)
(***************************************************************************)
EXTENDS Naturals, FiniteSets

CONSTANTS
    Calls,        \* calls on the coordinate, each made once
    Bodies,       \* candidate bytes
    Fences,       \* those of them that decode as a WAL FENCE
    SizeOf(_),    \* their length
    ReadMax,      \* SEAL_ENCODED_BYTES_MAX, WAL_ENCODED_BYTES_MAX, which candidates fit
    None

Spaces == {"genesis", "authority", "wal", "table"}
Ops == {"create", "read", "delete"}

\* What a call answers: a success, a verdict on the occupant, or no knowledge.
Success == {"Authored", "Established", "Durable"}
Results ==
    Success \cup {"LostRace", "NoAuthority", "Occupied", "Contradiction", "Fence",
                 "Absent", "Found", "Gone", "Unresolved", "UnresolvedAbsent", "Abandoned",
                 "Retryable", "Rejected"}

ASSUME StoreAssumption ==
    /\ Fences \subseteq Bodies
    /\ None \notin Bodies \cup Ops \cup Results
    /\ None \notin [body : Bodies, by : Calls]
    /\ ReadMax \in Nat
    /\ \A b \in Bodies : SizeOf(b) \in 1 .. ReadMax

VARIABLES
    space,        \* the namespace
    object,       \* the occupant: its bytes and the call that created it, or None
    call,         \* what each call is doing
    stored,       \* history: bytes that occupied the coordinate at some time
    removed       \* history: a delete has taken effect

vars == <<space, object, call, stored, removed>>

\* seen and size: the body a call has pinned and the size its metadata gave;
\* taken: bytes of bodies materialised;
\* wire: what became of its request at the store; known: bytes that some caller
\* had been told of when this call began.
Fresh == [at |-> "new", op |-> None, body |-> None, wire |-> "none", seen |-> None,
          size |-> 0, taken |-> 0, result |-> None, found |-> None, known |-> {}]

\* Metadata may underreport the size of the body they come with.
Reported(body) == 0 .. SizeOf(body)

-----------------------------------------------------------------------------
(* What evidence means to each typed store. *)

ToldOf == {call[c].body : c \in {d \in Calls : call[d].result \in Success}}

Ends(c, result) ==
    call' = [call EXCEPT ![c].at = "done", ![c].result = result]

\* establish_genesis, publish_authority, establish_wal and establish_table.
Establishment(evidence) ==
    CASE evidence = "Direct" \/ (evidence = "DurableMatch" /\ space # "authority") ->
             (CASE space = "authority" -> "Authored"
                [] space = "wal"       -> "Durable"
                [] OTHER               -> "Established")
      [] evidence = "NotOurs" \/ (evidence = "DurableMatch" /\ space = "authority") ->
             (CASE space = "genesis"   -> "LostRace"
                [] space = "authority" -> "NoAuthority"
                [] space = "wal"       -> "Occupied"
                [] OTHER               -> "Contradiction")
      [] OTHER -> "Unresolved"

\* WAL and table creates follow an unresolved one with one exact read.
Reconciles == space \in {"wal", "table"}

Concludes(c, evidence) ==
    IF evidence = "Unresolved" /\ Reconciles
    THEN call' = [call EXCEPT ![c].at = "reading"]
    ELSE Ends(c, Establishment(evidence))

\* establish_table abandons what it cannot read; the others hand the error on.
ReadFailed(c, error) ==
    Ends(c, IF call[c].op = "create" /\ space = "table" THEN "Abandoned" ELSE error)

-----------------------------------------------------------------------------
(* create_if_absent. *)

Put(c, body) ==
    /\ call[c].at = "new"
    /\ call' = [call EXCEPT ![c].at = "putting", ![c].op = "create", ![c].body = body,
                            ![c].wire = "sent", ![c].known = ToldOf]
    /\ UNCHANGED <<space, object, stored, removed>>

\* The store handles the create, whether or not anyone still waits for it.
CreateLands(c) ==
    /\ call[c].op = "create" /\ call[c].wire = "sent"
    /\ IF object = None
       THEN /\ object' = [body |-> call[c].body, by |-> c]
            /\ stored' = stored \cup {call[c].body}
            /\ call' = [call EXCEPT ![c].wire = "won"]
       ELSE call' = [call EXCEPT ![c].wire = "exists"] /\ UNCHANGED <<object, stored>>
    /\ UNCHANGED <<space, removed>>

\* Variant: a transport error is read as a create that did not happen.
LostResponseNotOurs == "NotOurs"
LostResponse == "Unresolved"

PutAnswered(c) ==
    /\ call[c].at = "putting"
    /\ \/ call[c].wire = "won" /\ Concludes(c, "Direct")
       \/ call[c].wire = "exists" /\ call' = [call EXCEPT ![c].at = "comparing"]
       \/ Concludes(c, LostResponse)
       \/ /\ call[c].wire = "sent"
          /\ call' = [call EXCEPT ![c].at = "done", ![c].wire = "refused",
                          ![c].result = IF space = "table" THEN "Abandoned" ELSE "Rejected"]
    /\ UNCHANGED <<space, object, stored, removed>>

\* compare_occupant: another size in the metadata is another object...
CompareHead(c) ==
    /\ call[c].at = "comparing"
    /\ \/ Concludes(c, "Unresolved")
       \/ /\ object # None
          /\ \E size \in Reported(object.body) :
                IF size # SizeOf(call[c].body)
                THEN call' = [call EXCEPT ![c].at = "done", ![c].size = size,
                                          ![c].result = Establishment("NotOurs")]
                ELSE call' = [call EXCEPT ![c].at = "comparing_body", ![c].size = size,
                                          ![c].seen = object.body]
    /\ UNCHANGED <<space, object, stored, removed>>

Matches(body, occupant) == body = occupant

\* ...then the body they came with, all of it, however long it is.
CompareBody(c) ==
    /\ call[c].at = "comparing_body"
    /\ \/ call' = [call EXCEPT ![c].at = "done", ![c].taken = SizeOf(call[c].seen),
                     ![c].result = Establishment(IF Matches(call[c].body, call[c].seen)
                                                 THEN "DurableMatch" ELSE "NotOurs")]
       \/ Concludes(c, "Unresolved")
    /\ UNCHANGED <<space, object, stored, removed>>

-----------------------------------------------------------------------------
(* read, for its own sake, as a reconciliation, or before a WAL delete. *)

\* A table is read by a reference that records what it was encoded as.
Read(c, op, body) ==
    /\ call[c].at = "new"
    /\ op = "delete" => space = "wal"
    /\ (body # None) = (space = "table")
    /\ call' = [call EXCEPT ![c].at = "reading", ![c].op = op, ![c].body = body,
                            ![c].known = ToldOf]
    /\ UNCHANGED <<space, object, stored, removed>>

Bound(c) == IF space = "table" /\ call[c].body # None THEN SizeOf(call[c].body) ELSE ReadMax

\* Variant: an error is taken for an absent object.
FailureOfReadAbsent(c, error) == Ends(c, "Absent")
FailureOfRead(c, error) == ReadFailed(c, error)

\* The object is not there.
Vanished(c) ==
    Ends(c, CASE call[c].op = "create" /\ space = "wal"   -> "UnresolvedAbsent"
              [] call[c].op = "create" /\ space = "table" -> "Abandoned"
              [] call[c].op = "read" /\ space = "table"   -> "Contradiction"
              [] OTHER                                    -> "Absent")

Errors == {"Retryable", "Rejected"}

ReadHead(c) ==
    /\ call[c].at = "reading"
    /\ \/ object = None /\ Vanished(c)
       \/ \E error \in Errors : FailureOfRead(c, error)
       \/ /\ object # None
          /\ \E size \in Reported(object.body) :
                IF size > Bound(c)
                THEN Ends(c, "Contradiction")
                ELSE call' = [call EXCEPT ![c].at = "streaming", ![c].seen = object.body,
                                          ![c].size = size, ![c].taken = 0]
    /\ UNCHANGED <<space, object, stored, removed>>

\* The whole body is there.
Observed(c) ==
    LET body == call[c].seen
        done(result) ==
            call' = [call EXCEPT ![c].at = "done", ![c].result = result, ![c].found = body]
    IN  CASE call[c].op = "create" ->
                 done(Establishment(IF Matches(call[c].body, body) THEN "DurableMatch"
                                    ELSE "NotOurs"))
          [] call[c].op = "read" ->
                 done(IF space = "table" /\ call[c].taken # SizeOf(call[c].body)
                      THEN "Contradiction" ELSE "Found")
          [] OTHER ->  \* into_run_delete
                 IF body \in Fences THEN done("Fence")
                 ELSE call' = [call EXCEPT ![c].at = "deleting", ![c].wire = "sent"]

Accepts(c, chunk) == chunk <= Bound(c) - call[c].taken

\* consume_bounded_object: a chunk, an error, or the end of the stream.
ReadChunk(c) ==
    LET rest == SizeOf(call[c].seen) - call[c].taken
    IN  /\ call[c].at = "streaming"
        /\ \/ \E chunk \in 1 .. rest :
                 IF Accepts(c, chunk)
                 THEN call' = [call EXCEPT ![c].taken = @ + chunk]
                 ELSE Ends(c, "Contradiction")
           \/ \E error \in Errors : FailureOfRead(c, error)
           \/ rest = 0 /\ Observed(c)
        /\ UNCHANGED <<space, object, stored, removed>>

-----------------------------------------------------------------------------
(* delete_idempotent, unconditional: the validator of the read is dropped. *)

DeleteTable(c) ==
    /\ call[c].at = "new" /\ space = "table"
    /\ call' = [call EXCEPT ![c].at = "deleting", ![c].op = "delete", ![c].wire = "sent",
                            ![c].known = ToldOf]
    /\ UNCHANGED <<space, object, stored, removed>>

DeleteLands(c) ==
    /\ call[c].op = "delete" /\ call[c].wire = "sent"
    /\ object' = None /\ removed' = (removed \/ object # None)
    /\ call' = [call EXCEPT ![c].wire = "won"]
    /\ UNCHANGED <<space, stored>>

DeleteAnswered(c) ==
    /\ call[c].at = "deleting"
    /\ \/ call[c].wire = "won" /\ Ends(c, "Gone")
       \/ Ends(c, "Retryable")
       \/ /\ call[c].wire = "sent"
          /\ call' = [call EXCEPT ![c].at = "done", ![c].wire = "refused",
                                  ![c].result = "Rejected"]
    /\ UNCHANGED <<space, object, stored, removed>>

-----------------------------------------------------------------------------

Init ==
    /\ space \in Spaces
    /\ object = None /\ stored = {} /\ removed = FALSE
    /\ call = [c \in Calls |-> Fresh]

Next ==
    \E c \in Calls :
        \/ \E body \in Bodies : Put(c, body)
        \/ \E op \in {"read", "delete"}, body \in Bodies \cup {None} : Read(c, op, body)
        \/ DeleteTable(c)
        \/ CreateLands(c) \/ PutAnswered(c) \/ CompareHead(c) \/ CompareBody(c)
        \/ ReadHead(c) \/ ReadChunk(c) \/ DeleteLands(c) \/ DeleteAnswered(c)

Spec == Init /\ [][Next]_vars

-----------------------------------------------------------------------------
(* Properties. *)

\* At most one call is told that it authored a seal, and it did: its request
\* put the occupant there, though others may hold the same bytes and responses
\* may be lost.
AuthoredIsUnique ==
    \A c \in Calls : call[c].result = "Authored" => object # None /\ object.by = c

\* Bytes reported durable have occupied the coordinate, and still do unless a
\* collector deleted them; so no two callers succeed with different bytes.
SuccessIsStored ==
    \A c \in Calls : call[c].result \in Success =>
        /\ call[c].body \in stored
        /\ removed \/ (object # None /\ object.body = call[c].body)

\* A caller that is told it lost has no effect, then or later, although its own
\* request may still be on its way: the object of another call stands in its way
\* for as long as it is not collected.  That object holds other bytes, except
\* where compare_occupant was given a wrong size and looked no further, and in
\* the race for authority, where equal bytes do not make an author.
LoserHasNoEffect ==
    \A c \in Calls :
        call[c].op = "create"
          /\ call[c].result \in {"LostRace", "NoAuthority", "Occupied", "Contradiction"} =>
            \/ removed
            \/ /\ object # None /\ object.by # c
               /\ \/ object.body # call[c].body
                  \/ space = "authority"
                  \/ call[c].found = None /\ call[c].size # SizeOf(call[c].body)

\* What a caller concludes from the evidence of its create is true.
EvidenceIsTrue == AuthoredIsUnique /\ SuccessIsStored /\ LoserHasNoEffect

\* A read that begins after a caller was told its bytes are durable finds those
\* bytes.  It answers that the object is absent, or that the store contradicts
\* the table a reference names, only after a delete.  No read materialises more
\* than its bound, although the metadata it checks first may underreport a size;
\* the comparison of a create with its occupant has no bound and is not meant.
ReadSeesSuccess ==
    \A c \in Calls :
        /\ call[c].op # "create" \/ call[c].at = "streaming" => call[c].taken <= Bound(c)
        /\ call[c].result = "Absent" /\ call[c].known # {} => removed
        /\ call[c].op = "read" /\ call[c].result = "Contradiction"
             /\ call[c].body \in call[c].known => removed
        /\ call[c].result = "Found" /\ ~removed => call[c].known \subseteq {call[c].found}

=============================================================================
