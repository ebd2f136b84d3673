---------------------------- MODULE StoreProofs ----------------------------
(***************************************************************************)
(* Proofs about one coordinate of the object store, for every number of    *)
(* calls, every set of candidate bodies and every size bound.              *)
(*                                                                         *)
(* What a call knows of the coordinate is one of four facts: these bytes   *)
(* occupy it, other bytes do, its own request put the occupant there, or   *)
(* another's did.  Each is stable until a delete takes effect, whatever    *)
(* lands late, and the inductive invariant says which of them every stage  *)
(* of a call has, and that an occupant's author was answered so.           *)
(***************************************************************************)
EXTENDS Store, TLAPS

Occupies(body) == removed \/ (object # None /\ object.body = body)
Excludes(body) == removed \/ (object # None /\ object.body # body)
Owns(c) == removed \/ (object # None /\ object.by = c)
Other(c) == removed \/ (object # None /\ object.by # c)

\* The answers that tell a create it lost.
Losing == {"LostRace", "NoAuthority", "Occupied", "Contradiction"}

Stages == {"new", "putting", "comparing", "comparing_body", "reading", "streaming",
           "deleting", "done"}
Wires == {"none", "sent", "won", "exists", "refused"}

CallType ==
    [at : Stages, op : Ops \cup {None}, body : Bodies \cup {None}, wire : Wires,
     seen : Bodies \cup {None}, size : Nat, taken : Nat, result : Results \cup {None},
     found : Bodies \cup {None}, known : SUBSET Bodies]

StoreType ==
    /\ space \in Spaces
    /\ object \in [body : Bodies, by : Calls] \cup {None}
    /\ stored \subseteq Bodies
    /\ removed \in BOOLEAN
    /\ call \in [Calls -> CallType]

\* Seals are never deleted; an occupant was stored by the call it names.
CoordinateInv ==
    /\ removed => space \in {"wal", "table"}
    /\ object # None =>
         /\ object.body \in stored
         /\ call[object.by].op = "create" /\ call[object.by].wire = "won"
         /\ call[object.by].body = object.body

\* A call that has not ended: what it does, for whom, and what it has pinned.
StageInv(c) ==
    LET x == call[c]
    IN  /\ x.at = "new" => x.op = None /\ x.wire = "none" /\ x.taken = 0 /\ x.body = None
        /\ x.at \in {"putting", "comparing", "comparing_body"} => x.op = "create"
        /\ x.at \in {"comparing", "comparing_body"} => x.wire = "exists"
        /\ x.at \in {"reading", "streaming"} =>
             /\ x.op \in Ops
             /\ x.op = "create" => Reconciles
             /\ x.op = "delete" => space = "wal"
             /\ space = "table" => x.body \in Bodies
        /\ x.at \in {"comparing_body", "streaming"} => x.seen \in stored /\ Occupies(x.seen)
        /\ x.at # "done" => x.result = None /\ x.found = None

\* What holds of a call at every stage.
RequestInv(c) ==
    LET x == call[c]
    IN  /\ x.op = "delete" => space \in {"wal", "table"}
        /\ x.op = "create" => x.body \in Bodies
        /\ x.op = "create" /\ x.wire = "won" =>
             x.body \in stored /\ Occupies(x.body) /\ Owns(c)
        /\ \A b \in x.known : Occupies(b)
        /\ x.op # "create" \/ x.at = "streaming" => x.taken <= Bound(c)

\* What the answer of a call says is so.
ResultInv(c) ==
    LET x == call[c]
    IN  /\ x.result = "Authored" => space = "authority" /\ Owns(c)
        /\ x.result \in Success => x.body \in stored /\ Occupies(x.body)
        /\ x.op = "create" /\ x.result \in Losing =>
             /\ Other(c)
             /\ \/ Excludes(x.body)
                \/ space = "authority"
                \/ x.found = None /\ x.size # SizeOf(x.body)
        /\ x.result = "Absent" /\ x.known # {} => removed
        /\ x.op = "read" /\ x.result = "Contradiction" /\ x.body \in x.known => removed
        /\ x.result = "Found" => \A b \in x.known : removed \/ b = x.found

StoreInv ==
    /\ StoreType
    /\ CoordinateInv
    /\ \A c \in Calls : StageInv(c) /\ RequestInv(c) /\ ResultInv(c)

-----------------------------------------------------------------------------
(* Stability: what a step may do to the coordinate. *)

\* The coordinate moves only by a create that finds it vacant or by a delete.
Moves ==
    /\ space' = space
    /\ stored \subseteq stored'
    /\ removed => removed'
    /\ \/ object' = object
       \/ object = None
       \/ removed'

\* Knowledge of the coordinate survives every step.
LEMMA KnowledgeIsStable ==
    ASSUME Moves
    PROVE  /\ \A b : (Occupies(b) => Occupies(b)') /\ (Excludes(b) => Excludes(b)')
           /\ \A c : (Owns(c) => Owns(c)') /\ (Other(c) => Other(c)')
  BY DEF Moves, Occupies, Excludes, Owns, Other

\* The calls that do not take part in a step keep their part of the invariant.
LEMMA OthersKeep ==
    ASSUME StoreInv, Moves, NEW d \in Calls, call'[d] = call[d]
    PROVE  StageInv(d)' /\ RequestInv(d)' /\ ResultInv(d)'
  <1>1. StageInv(d) /\ RequestInv(d) /\ ResultInv(d)
    BY DEF StoreInv
  <1>2. /\ \A b : (Occupies(b) => Occupies(b)') /\ (Excludes(b) => Excludes(b)')
        /\ (Owns(d) => Owns(d)') /\ (Other(d) => Other(d)')
    BY KnowledgeIsStable
  <1>3. /\ space' = space /\ stored \subseteq stored' /\ (removed => removed')
        /\ Reconciles' = Reconciles /\ Bound(d)' = Bound(d)
    BY DEF Moves, Reconciles, Bound
  <1>4. StageInv(d)'
    BY <1>1, <1>2, <1>3 DEF StageInv
  <1>5. RequestInv(d)'
    BY <1>1, <1>2, <1>3 DEF RequestInv
  <1>6. ResultInv(d)'
    BY <1>1, <1>2, <1>3 DEF ResultInv, Success
  <1> QED
    BY <1>4, <1>5, <1>6

\* So a step keeps the invariant if the call that takes it does.
LEMMA CallKeeps ==
    ASSUME StoreInv, Moves, StoreType', CoordinateInv', NEW c \in Calls,
           \A d \in Calls \ {c} : call'[d] = call[d],
           StageInv(c)', RequestInv(c)', ResultInv(c)'
    PROVE  StoreInv'
  <1>1. \A d \in Calls : StageInv(d)' /\ RequestInv(d)' /\ ResultInv(d)'
    BY OthersKeep
  <1> QED
    BY <1>1 DEF StoreInv

\* A step of a call that leaves the coordinate alone.
LEMMA QuietKeeps ==
    ASSUME StoreInv, UNCHANGED <<space, object, stored, removed>>, NEW c \in Calls,
           NEW x \in CallType, call' = [call EXCEPT ![c] = x],
           call[c].op = "create" /\ call[c].wire = "won" =>
             x.op = "create" /\ x.wire = "won" /\ x.body = call[c].body,
           StageInv(c)', RequestInv(c)', ResultInv(c)'
    PROVE  StoreInv'
  <1>1. /\ StoreType' /\ call'[c] = x /\ \A d \in Calls \ {c} : call'[d] = call[d]
        /\ CoordinateInv /\ object \in [body : Bodies, by : Calls] \cup {None}
    BY DEF StoreInv, StoreType
  <1>2. Moves
    BY DEF Moves
  <1>3. CASE object = None
    <2>1. CoordinateInv'
      BY <1>1, <1>3 DEF CoordinateInv
    <2> QED
      BY <1>1, <1>2, <2>1, CallKeeps
  <1>4. CASE object # None
    <2>1. object.by \in Calls /\ object' = object
      BY <1>1, <1>4
    <2>2. CASE object.by = c
      <3>1. CoordinateInv'
        BY <1>1, <1>4, <2>1, <2>2 DEF CoordinateInv
      <3> QED
        BY <1>1, <1>2, <3>1, CallKeeps
    <2>3. CASE object.by # c
      <3>1. call'[object.by] = call[object.by]
        BY <1>1, <2>1, <2>3
      <3>2. CoordinateInv'
        BY <1>1, <1>4, <2>1, <3>1 DEF CoordinateInv
      <3> QED
        BY <1>1, <1>2, <3>2, CallKeeps
    <2> QED
      BY <2>2, <2>3
  <1> QED
    BY <1>3, <1>4

\* An author is the call whose request won, with the bytes it sent.
LEMMA AuthorWon ==
    ASSUME StoreInv, NEW c \in Calls, object # None,
           call[c].wire # "won" \/ call[c].body # object.body
    PROVE  Other(c)
  BY DEF StoreInv, CoordinateInv, Other

-----------------------------------------------------------------------------
(* One lemma per step. *)

\* A success or a refusal that a caller is told of rests on what it knows: the
\* results that establish_genesis, publish_authority, establish_wal and
\* establish_table make of the evidence.
LEMMA EstablishmentRests ==
    ASSUME space \in Spaces,
           NEW evidence \in {"Direct", "DurableMatch", "NotOurs", "Unresolved"}
    PROVE  /\ Establishment(evidence) \in Results
           /\ Establishment(evidence) \in Success => evidence \in {"Direct", "DurableMatch"}
           /\ Establishment(evidence) = "Authored" => evidence = "Direct" /\ space = "authority"
           /\ Establishment(evidence) \in Losing =>
                evidence = "NotOurs" \/ (evidence = "DurableMatch" /\ space = "authority")
           /\ Establishment(evidence) \notin {"Absent", "Found"}
  BY DEF Establishment, Spaces, Success, Results, Losing

\* The calls once c has ended, or has gone on to a stage of the comparison.
Ended(c, result, found, size, taken) ==
    [call EXCEPT ![c] = [call[c] EXCEPT !.at = "done", !.result = result, !.found = found,
                                        !.size = size, !.taken = taken]]
Staged(c, at, seen, size) ==
    [call EXCEPT ![c] = [call[c] EXCEPT !.at = at, !.seen = seen, !.size = size]]

\* A call ends: its result and what it has seen are all that is new.
LEMMA EndsKeeps ==
    ASSUME StoreInv, UNCHANGED <<space, object, stored, removed>>, NEW c \in Calls,
           NEW result \in Results, NEW found \in Bodies \cup {None},
           NEW size \in Nat, NEW taken \in Nat,
           call[c].op # "create" => taken <= Bound(c),
           call' = Ended(c, result, found, size, taken),
           ResultInv(c)'
    PROVE  StoreInv'
  <1> DEFINE x == [call[c] EXCEPT !.at = "done", !.result = result, !.found = found,
                                  !.size = size, !.taken = taken]
  <1>1. x \in CallType /\ call'[c] = x
    BY DEF StoreInv, StoreType, CallType, Stages, Ended
  <1>2. RequestInv(c)
    BY DEF StoreInv
  <1>3. call[c] \in CallType
    BY DEF StoreInv, StoreType
  <1>4. /\ x.at = "done" /\ x.op = call[c].op /\ x.body = call[c].body
        /\ x.wire = call[c].wire /\ x.known = call[c].known /\ x.taken = taken
    BY <1>3 DEF CallType
  <1>5. call' = [call EXCEPT ![c] = x]
    BY DEF Ended
  <1> HIDE DEF x
  <1>6. StageInv(c)'
    BY <1>1, <1>4 DEF StageInv
  <1>7. RequestInv(c)'
    BY <1>1, <1>2, <1>4 DEF RequestInv, Occupies, Owns, Bound
  <1> QED
    BY <1>1, <1>4, <1>5, <1>6, <1>7, QuietKeeps

\* Its fields then.
LEMMA EndedFields ==
    ASSUME StoreInv, NEW c \in Calls, NEW result, NEW found, NEW size, NEW taken,
           call' = Ended(c, result, found, size, taken)
    PROVE  /\ call'[c].result = result /\ call'[c].op = call[c].op
           /\ call'[c].body = call[c].body /\ call'[c].known = call[c].known
           /\ call'[c].found = found /\ call'[c].size = size
  <1>1. call \in [Calls -> CallType] /\ call[c] \in CallType
    BY DEF StoreInv, StoreType
  <1>2. call'[c] = [call[c] EXCEPT !.at = "done", !.result = result, !.found = found,
                                   !.size = size, !.taken = taken]
    BY <1>1 DEF Ended
  <1> QED
    BY <1>1, <1>2 DEF CallType

\* Ends(c, result) finds nothing.
LEMMA EndsPlainly ==
    ASSUME StoreInv, UNCHANGED <<space, object, stored, removed>>, NEW c \in Calls,
           NEW result \in Results, Ends(c, result), ResultInv(c)'
    PROVE  StoreInv'
  <1>1. call[c] \in CallType /\ RequestInv(c)
    BY DEF StoreInv, StoreType
  <1>2. call' = Ended(c, result, call[c].found, call[c].size, call[c].taken)
    BY <1>1 DEF Ends, Ended, CallType, StoreInv, StoreType
  <1>3. /\ call[c].found \in Bodies \cup {None} /\ call[c].size \in Nat
        /\ call[c].taken \in Nat /\ (call[c].op # "create" => call[c].taken <= Bound(c))
    BY <1>1 DEF CallType, RequestInv
  <1> QED
    BY <1>2, <1>3, EndsKeeps

\* The fields of a call that ends.
LEMMA EndsFields ==
    ASSUME StoreInv, UNCHANGED <<space, object, stored, removed>>, NEW c \in Calls,
           NEW result, Ends(c, result)
    PROVE  /\ call'[c].result = result /\ call'[c].op = call[c].op
           /\ call'[c].body = call[c].body /\ call'[c].known = call[c].known
           /\ \A b : (Occupies(b)' <=> Occupies(b)) /\ (Excludes(b)' <=> Excludes(b))
           /\ (Owns(c)' <=> Owns(c)) /\ (Other(c)' <=> Other(c))
  <1>1. call \in [Calls -> CallType]
    BY DEF StoreInv, StoreType
  <1> QED
    BY <1>1 DEF Ends, CallType, Occupies, Excludes, Owns, Other

\* An evidence that is true gives a result that is true, or an exact read.
LEMMA ConcludesKeeps ==
    ASSUME StoreInv, UNCHANGED <<space, object, stored, removed>>, NEW c \in Calls,
           call[c].at \in {"putting", "comparing", "comparing_body"},
           NEW evidence \in {"Direct", "Unresolved"},
           evidence = "Direct" => call[c].wire = "won",
           Concludes(c, evidence)
    PROVE  StoreInv'
  <1>0. /\ StageInv(c) /\ RequestInv(c) /\ ResultInv(c) /\ call[c] \in CallType
        /\ space \in Spaces /\ call \in [Calls -> CallType]
    BY DEF StoreInv, StoreType
  <1>1. CASE evidence = "Unresolved" /\ Reconciles
    <2> DEFINE x == [call[c] EXCEPT !.at = "reading"]
    <2>1. call' = [call EXCEPT ![c] = x] /\ x \in CallType /\ call'[c] = x
      BY <1>0, <1>1 DEF Concludes, CallType, Stages
    <2>2. /\ x.at = "reading" /\ x.op = call[c].op /\ x.body = call[c].body
          /\ x.wire = call[c].wire /\ x.known = call[c].known /\ x.taken = call[c].taken
          /\ x.result = call[c].result /\ x.found = call[c].found
      BY <1>0 DEF CallType
    <2>3. x.op = "create" /\ x.body \in Bodies /\ x.result = None /\ x.found = None
      BY <1>0, <2>2 DEF StageInv, RequestInv
    <2> HIDE DEF x
    <2>4. StageInv(c)'
      BY <1>0, <1>1, <2>1, <2>2, <2>3 DEF StageInv, Reconciles, Ops
    <2>5. RequestInv(c)'
      BY <1>0, <2>1, <2>2 DEF RequestInv, Occupies, Owns, Bound
    <2>6. ResultInv(c)'
      BY <2>1, <2>3, StoreAssumption DEF ResultInv, Success, Results, Losing
    <2> QED
      BY <2>1, <2>2, <2>4, <2>5, <2>6, QuietKeeps
  <1>2. CASE ~(evidence = "Unresolved" /\ Reconciles)
    <2> DEFINE result == Establishment(evidence)
    <2>1. Ends(c, result)
      BY <1>2 DEF Concludes
    <2>2. /\ result \in Results
          /\ result \in Success => evidence \in {"Direct", "DurableMatch"}
          /\ result = "Authored" => evidence = "Direct" /\ space = "authority"
          /\ result \notin Losing /\ result \notin {"Absent", "Found"}
      BY <1>0, EstablishmentRests
    <2> HIDE DEF result
    <2>3. /\ call[c].op = "create"
          /\ call[c].wire = "won" =>
               call[c].body \in stored /\ Occupies(call[c].body) /\ Owns(c)
      BY <1>0 DEF StageInv, RequestInv
    <2>4. /\ call'[c].result = result /\ call'[c].op = call[c].op
          /\ call'[c].body = call[c].body /\ call'[c].known = call[c].known
          /\ \A b : (Occupies(b)' <=> Occupies(b)) /\ (Excludes(b)' <=> Excludes(b))
          /\ Owns(c)' <=> Owns(c)
      BY <2>1, EndsFields
    <2>5. ResultInv(c)'
      BY <2>2, <2>3, <2>4 DEF ResultInv, Losing
    <2> QED
      BY <2>1, <2>2, <2>5, EndsPlainly
  <1> QED
    BY <1>1, <1>2

\* An answer without knowledge of the coordinate is always true.
Ignorant == {"Unresolved", "UnresolvedAbsent", "Abandoned", "Retryable", "Rejected",
             "Fence", "Gone"}

LEMMA IgnorantEnds ==
    ASSUME StoreInv, UNCHANGED <<space, object, stored, removed>>, NEW c \in Calls,
           NEW result \in Ignorant, Ends(c, result)
    PROVE  StoreInv'
  <1>1. call'[c].result = result /\ result \in Results
    BY EndsFields DEF Ignorant, Results
  <1>2. ResultInv(c)'
    BY <1>1 DEF ResultInv, Success, Ignorant, Losing
  <1> QED
    BY <1>1, <1>2, EndsPlainly

\* A caller has been told only of bytes that occupy the coordinate.
LEMMA ToldOfOccupies ==
    ASSUME StoreInv
    PROVE  ToldOf \in SUBSET Bodies /\ \A b \in ToldOf : Occupies(b)
  BY DEF StoreInv, StoreType, ToldOf, ResultInv

\* A call begins: create_if_absent, a read, or the delete of a table.
LEMMA BeginKeeps ==
    ASSUME StoreInv, NEW c \in Calls,
           \/ \E body \in Bodies : Put(c, body)
           \/ \E op \in {"read", "delete"}, body \in Bodies \cup {None} : Read(c, op, body)
           \/ DeleteTable(c)
    PROVE  StoreInv'
  <1>0. /\ StageInv(c) /\ RequestInv(c) /\ call[c] \in CallType
        /\ space \in Spaces /\ call \in [Calls -> CallType]
    BY DEF StoreInv, StoreType
  <1>1. /\ UNCHANGED <<space, object, stored, removed>> /\ call[c].at = "new"
    BY DEF Put, Read, DeleteTable
  <1>2. PICK at \in {"putting", "reading", "deleting"}, op \in Ops,
             body \in Bodies \cup {None}, wire \in {"none", "sent"} :
          /\ call' = [call EXCEPT ![c] = [call[c] EXCEPT !.at = at, !.op = op, !.body = body,
                                                         !.wire = wire, !.known = ToldOf]]
          /\ op = "create" => body \in Bodies /\ at = "putting"
          /\ at = "putting" => op = "create"
          /\ op = "delete" => space \in {"wal", "table"}
          /\ at = "reading" /\ op = "delete" => space = "wal"
          /\ at = "reading" /\ space = "table" => body \in Bodies
    <2>1. CASE \E body \in Bodies : Put(c, body)
      <3>1. PICK body \in Bodies : Put(c, body)
        BY <2>1
      <3>2. call' = [call EXCEPT ![c] = [call[c] EXCEPT !.at = "putting", !.op = "create",
                                    !.body = body, !.wire = "sent", !.known = ToldOf]]
        BY <1>0, <3>1 DEF Put, CallType
      <3> QED
        BY <3>2 DEF Ops
    <2>2. CASE \E op \in {"read", "delete"}, body \in Bodies \cup {None} : Read(c, op, body)
      <3>1. PICK op \in {"read", "delete"}, body \in Bodies \cup {None} : Read(c, op, body)
        BY <2>2
      <3>2. call[c].wire = "none"
        BY <1>0, <1>1 DEF StageInv
      <3>3. call' = [call EXCEPT ![c] = [call[c] EXCEPT !.at = "reading", !.op = op,
                                    !.body = body, !.wire = "none", !.known = ToldOf]]
        BY <1>0, <3>1, <3>2 DEF Read, CallType
      <3> QED
        BY <3>1, <3>3 DEF Ops, Read
    <2>3. CASE DeleteTable(c)
      <3>1. call[c].body = None
        BY <1>0, <1>1 DEF StageInv
      <3>2. call' = [call EXCEPT ![c] = [call[c] EXCEPT !.at = "deleting", !.op = "delete",
                                    !.body = None, !.wire = "sent", !.known = ToldOf]]
        BY <1>0, <2>3, <3>1 DEF DeleteTable, CallType
      <3> QED
        BY <2>3, <3>2 DEF Ops, DeleteTable
    <2> QED
      BY <2>1, <2>2, <2>3
  <1> DEFINE x == [call[c] EXCEPT !.at = at, !.op = op, !.body = body, !.wire = wire,
                                  !.known = ToldOf]
  <1>3. ToldOf \in SUBSET Bodies /\ \A b \in ToldOf : Occupies(b)
    BY ToldOfOccupies
  <1>4. call' = [call EXCEPT ![c] = x] /\ x \in CallType /\ call'[c] = x
    BY <1>0, <1>2, <1>3 DEF CallType, Stages, Wires
  <1>5. /\ x.at = at /\ x.op = op /\ x.body = body /\ x.wire = wire /\ x.known = ToldOf
        /\ x.taken = 0 /\ x.result = None /\ x.found = None /\ call[c].op # "create"
    BY <1>0, <1>1, StoreAssumption DEF CallType, StageInv, Ops
  <1> HIDE DEF x
  <1>6. StageInv(c)'
    BY <1>1, <1>2, <1>4, <1>5 DEF StageInv
  <1>7. Bound(c)' \in Nat /\ 0 <= Bound(c)'
    BY <1>2, <1>4, <1>5, StoreAssumption DEF Bound
  <1>8. RequestInv(c)'
    BY <1>1, <1>2, <1>3, <1>4, <1>5, <1>7 DEF RequestInv, Occupies
  <1>9. ResultInv(c)'
    BY <1>4, <1>5, StoreAssumption DEF ResultInv, Success, Results, Losing
  <1> QED
    BY <1>1, <1>4, <1>5, <1>6, <1>8, <1>9, QuietKeeps

\* The store handles a request, early or late: it moves the coordinate as
\* Moves allows and tells the request what became of it.
LEMMA LandsKeeps ==
    ASSUME StoreInv, NEW c \in Calls, CreateLands(c) \/ DeleteLands(c)
    PROVE  StoreInv'
  <1>0. /\ StageInv(c) /\ RequestInv(c) /\ ResultInv(c) /\ call[c] \in CallType
        /\ space \in Spaces /\ call \in [Calls -> CallType] /\ CoordinateInv
        /\ object \in [body : Bodies, by : Calls] \cup {None} /\ stored \subseteq Bodies
        /\ removed \in BOOLEAN
    BY DEF StoreInv, StoreType
  <1>1. PICK wire \in {"won", "exists"} :
          /\ call' = [call EXCEPT ![c] = [call[c] EXCEPT !.wire = wire]]
          /\ Moves
          /\ object' \in [body : Bodies, by : Calls] \cup {None} /\ stored' \subseteq Bodies
          /\ removed' \in BOOLEAN /\ call[c].wire = "sent"
          /\ removed' => space \in {"wal", "table"}
          /\ call[c].op = "create" /\ wire = "won" =>
               call[c].body \in stored' /\ object' # None /\ object'.body = call[c].body
                 /\ object'.by = c
          /\ object' # None => object' = object \/ (call[c].op = "create" /\ wire = "won")
    <2>1. CASE CreateLands(c) /\ object = None
      <3>1. /\ object' = [body |-> call[c].body, by |-> c]
            /\ stored' = stored \cup {call[c].body}
            /\ call' = [call EXCEPT ![c] = [call[c] EXCEPT !.wire = "won"]]
            /\ UNCHANGED <<space, removed>>
        BY <1>0, <2>1 DEF CreateLands
      <3>2. call[c].body \in Bodies
        BY <1>0, <2>1 DEF CreateLands, RequestInv
      <3>3. object' \in [body : Bodies, by : Calls] /\ object' # None
        BY <3>1, <3>2, StoreAssumption
      <3> QED
        BY <1>0, <2>1, <3>1, <3>2, <3>3 DEF Moves, CoordinateInv, CreateLands
    <2>2. CASE CreateLands(c) /\ object # None
      <3>1. /\ call' = [call EXCEPT ![c] = [call[c] EXCEPT !.wire = "exists"]]
            /\ UNCHANGED <<space, object, stored, removed>>
        BY <1>0, <2>2 DEF CreateLands
      <3> QED
        BY <1>0, <2>2, <3>1 DEF Moves, CoordinateInv, CreateLands
    <2>3. CASE DeleteLands(c)
      <3>1. /\ object' = None /\ removed' = (removed \/ object # None)
            /\ call' = [call EXCEPT ![c] = [call[c] EXCEPT !.wire = "won"]]
            /\ UNCHANGED <<space, stored>> /\ call[c].op = "delete"
        BY <1>0, <2>3 DEF DeleteLands
      <3>2. space \in {"wal", "table"}
        BY <1>0, <3>1 DEF RequestInv
      <3> QED
        BY <1>0, <2>3, <3>1, <3>2 DEF Moves, CoordinateInv, DeleteLands
    <2> QED
      BY <2>1, <2>2, <2>3
  <1> DEFINE x == [call[c] EXCEPT !.wire = wire]
  <1>2. /\ call' = [call EXCEPT ![c] = x] /\ x \in CallType /\ call'[c] = x
        /\ \A d \in Calls \ {c} : call'[d] = call[d]
    BY <1>0, <1>1 DEF CallType, Wires
  <1>3. /\ x.at = call[c].at /\ x.op = call[c].op /\ x.body = call[c].body
        /\ x.wire = wire /\ x.known = call[c].known /\ x.taken = call[c].taken
        /\ x.seen = call[c].seen /\ x.result = call[c].result /\ x.found = call[c].found
    BY <1>0 DEF CallType
  <1>4. /\ x.size = call[c].size
        /\ x.at \notin {"new", "comparing", "comparing_body"}
    BY <1>0, <1>1, <1>3 DEF StageInv, CallType
  <1> HIDE DEF x
  <1>5. /\ \A b : (Occupies(b) => Occupies(b)') /\ (Excludes(b) => Excludes(b)')
        /\ (Owns(c) => Owns(c)') /\ (Other(c) => Other(c)')
    BY <1>1, KnowledgeIsStable
  <1>6. /\ space' = space /\ stored \subseteq stored' /\ (removed => removed')
        /\ Reconciles' = Reconciles /\ Bound(c)' = Bound(c)
    BY <1>1, <1>2, <1>3 DEF Moves, Reconciles, Bound
  <1>7. StageInv(c)'
    BY <1>0, <1>2, <1>3, <1>4, <1>5, <1>6 DEF StageInv
  <1>8. RequestInv(c)'
    BY <1>0, <1>1, <1>2, <1>3, <1>5, <1>6 DEF RequestInv, Occupies, Owns
  <1>9. ResultInv(c)'
    BY <1>0, <1>2, <1>3, <1>4, <1>5, <1>6 DEF ResultInv, Success
  <1>10. StoreType'
    BY <1>0, <1>1, <1>2, <1>6 DEF StoreType
  <1>11. CoordinateInv'
    <2>1. CASE object' = None
      BY <1>1, <1>6, <2>1 DEF CoordinateInv
    <2>2. CASE object' # None /\ object' = object
      <3>1. object.by # c /\ object.by \in Calls
        BY <1>0, <1>1, <2>2 DEF CoordinateInv
      <3> QED
        BY <1>0, <1>1, <1>2, <1>6, <2>2, <3>1 DEF CoordinateInv
    <2>3. CASE object' # None /\ call[c].op = "create" /\ wire = "won"
      BY <1>1, <1>2, <1>3, <1>6, <2>3 DEF CoordinateInv
    <2> QED
      BY <1>1, <2>1, <2>2, <2>3
  <1> QED
    BY <1>1, <1>2, <1>7, <1>8, <1>9, <1>10, <1>11, CallKeeps

\* A request that the store refused ends without effect.
LEMMA RefusedKeeps ==
    ASSUME StoreInv, UNCHANGED <<space, object, stored, removed>>, NEW c \in Calls,
           NEW result \in Ignorant, call[c].wire = "sent",
           call' = [call EXCEPT ![c].at = "done", ![c].wire = "refused", ![c].result = result]
    PROVE  StoreInv'
  <1> DEFINE x == [call[c] EXCEPT !.at = "done", !.wire = "refused", !.result = result]
  <1>0. RequestInv(c) /\ call[c] \in CallType /\ call \in [Calls -> CallType]
    BY DEF StoreInv, StoreType
  <1>r. result \in Results
    BY DEF Ignorant, Results
  <1>1. call' = [call EXCEPT ![c] = x] /\ x \in CallType /\ call'[c] = x
    BY <1>0, <1>r DEF CallType, Stages, Wires
  <1>2. /\ x.at = "done" /\ x.op = call[c].op /\ x.body = call[c].body
        /\ x.wire = "refused" /\ x.known = call[c].known /\ x.taken = call[c].taken
        /\ x.result = result
    BY <1>0 DEF CallType
  <1> HIDE DEF x
  <1>3. StageInv(c)'
    BY <1>1, <1>2 DEF StageInv
  <1>4. RequestInv(c)'
    BY <1>0, <1>1, <1>2 DEF RequestInv, Occupies, Bound
  <1>5. ResultInv(c)'
    BY <1>1, <1>2 DEF ResultInv, Success, Ignorant, Losing
  <1> QED
    BY <1>1, <1>3, <1>4, <1>5, QuietKeeps

\* The next stage of a create that found its key taken.
LEMMA CompareStage ==
    ASSUME StoreInv, UNCHANGED <<space, object, stored, removed>>, NEW c \in Calls,
           call[c].at \in {"putting", "comparing"}, call[c].wire = "exists",
           NEW at \in {"comparing", "comparing_body"}, NEW seen \in Bodies \cup {None},
           NEW size \in Nat, at = "comparing_body" => seen \in stored /\ Occupies(seen),
           call' = Staged(c, at, seen, size)
    PROVE  StoreInv'
  <1> DEFINE x == [call[c] EXCEPT !.at = at, !.seen = seen, !.size = size]
  <1>0. /\ StageInv(c) /\ RequestInv(c) /\ call[c] \in CallType
        /\ call \in [Calls -> CallType]
    BY DEF StoreInv, StoreType
  <1>1. call' = [call EXCEPT ![c] = x] /\ x \in CallType /\ call'[c] = x
    BY <1>0 DEF CallType, Stages, Staged
  <1>2. /\ x.at = at /\ x.op = call[c].op /\ x.body = call[c].body
        /\ x.wire = call[c].wire /\ x.known = call[c].known /\ x.taken = call[c].taken
        /\ x.seen = seen /\ x.result = call[c].result /\ x.found = call[c].found
    BY <1>0 DEF CallType
  <1>3. x.result = None /\ x.found = None /\ x.op = "create"
    BY <1>0, <1>2 DEF StageInv
  <1> HIDE DEF x
  <1>4. StageInv(c)'
    BY <1>1, <1>2, <1>3 DEF StageInv, Occupies
  <1>5. RequestInv(c)'
    BY <1>0, <1>1, <1>2 DEF RequestInv, Occupies, Owns, Bound
  <1>6. ResultInv(c)'
    BY <1>1, <1>3, StoreAssumption DEF ResultInv, Success, Results, Losing
  <1> QED
    BY <1>1, <1>2, <1>4, <1>5, <1>6, QuietKeeps

\* What compare_occupant found of an occupant that is another call's.
LEMMA ComparedKeeps ==
    ASSUME StoreInv, UNCHANGED <<space, object, stored, removed>>, NEW c \in Calls,
           call[c].at \in {"comparing", "comparing_body"}, Other(c),
           NEW evidence \in {"DurableMatch", "NotOurs"}, NEW size \in Nat, NEW taken \in Nat,
           evidence = "DurableMatch" => call[c].body \in stored /\ Occupies(call[c].body),
           evidence = "NotOurs" => Excludes(call[c].body) \/ size # SizeOf(call[c].body),
           call' = Ended(c, Establishment(evidence), call[c].found, size, taken)
    PROVE  StoreInv'
  <1> DEFINE result == Establishment(evidence)
  <1>0. /\ StageInv(c) /\ call[c] \in CallType /\ space \in Spaces
        /\ call \in [Calls -> CallType]
    BY DEF StoreInv, StoreType
  <1>1. call[c].op = "create" /\ call[c].found = None
    BY <1>0 DEF StageInv
  <1>2. /\ result \in Results
        /\ result \in Success => evidence = "DurableMatch"
        /\ result # "Authored"
        /\ result \in Losing => evidence = "NotOurs" \/ space = "authority"
        /\ result \notin {"Absent", "Found"}
    BY <1>0, EstablishmentRests
  <1>3. call' = Ended(c, result, call[c].found, size, taken)
    OBVIOUS
  <1> HIDE DEF result
  <1>4. /\ call'[c].result = result /\ call'[c].op = "create"
        /\ call'[c].body = call[c].body /\ call'[c].found = None /\ call'[c].size = size
    BY <1>1, <1>3, EndedFields
  <1>5. /\ \A b : (Occupies(b)' <=> Occupies(b)) /\ (Excludes(b)' <=> Excludes(b))
        /\ Other(c)' <=> Other(c)
        /\ space' = space /\ stored' = stored
    BY DEF Occupies, Excludes, Other
  <1>6. ResultInv(c)'
    <2>1. call'[c].result \in Success => call'[c].body \in stored' /\ Occupies(call[c].body)'
      BY <1>2, <1>4, <1>5
    <2>2. call'[c].result \in Losing =>
            /\ Other(c)'
            /\ \/ Excludes(call[c].body)' \/ space' = "authority"
               \/ call'[c].found = None /\ call'[c].size # SizeOf(call'[c].body)
      BY <1>2, <1>4, <1>5
    <2> QED
      BY <1>2, <1>4, <2>1, <2>2 DEF ResultInv
  <1>7. call[c].found \in Bodies \cup {None} /\ (call[c].op # "create" => taken <= Bound(c))
    BY <1>1
  <1>8. result \in Results
    BY <1>2
  <1> QED
    BY <1>3, <1>6, <1>7, <1>8, EndsKeeps

\* The answer of the create, or its loss.
LEMMA PutAnsweredKeeps ==
    ASSUME StoreInv, NEW c \in Calls, PutAnswered(c)
    PROVE  StoreInv'
  <1>0. /\ UNCHANGED <<space, object, stored, removed>> /\ call[c].at = "putting"
        /\ call[c] \in CallType /\ call \in [Calls -> CallType]
    BY DEF PutAnswered, StoreInv, StoreType
  <1>1. CASE call[c].wire = "won" /\ Concludes(c, "Direct")
    BY <1>0, <1>1, ConcludesKeeps
  <1>2. CASE call[c].wire = "exists" /\ call' = [call EXCEPT ![c].at = "comparing"]
    <2>1. call' = Staged(c, "comparing", call[c].seen, call[c].size)
      BY <1>0, <1>2 DEF CallType, Staged
    <2>2. call[c].seen \in Bodies \cup {None} /\ call[c].size \in Nat
      BY <1>0 DEF CallType
    <2> QED
      BY <1>0, <1>2, <2>1, <2>2, CompareStage
  <1>3. CASE Concludes(c, LostResponse)
    BY <1>0, <1>3, ConcludesKeeps DEF LostResponse
  <1>4. CASE /\ call[c].wire = "sent"
             /\ call' = [call EXCEPT ![c].at = "done", ![c].wire = "refused",
                             ![c].result = IF space = "table" THEN "Abandoned" ELSE "Rejected"]
    <2> DEFINE result == IF space = "table" THEN "Abandoned" ELSE "Rejected"
    <2>1. result \in Ignorant
      BY DEF Ignorant
    <2>2. call' = [call EXCEPT ![c].at = "done", ![c].wire = "refused", ![c].result = result]
      BY <1>4
    <2> HIDE DEF result
    <2> QED
      BY <1>0, <1>4, <2>1, <2>2, RefusedKeeps
  <1> QED
    BY <1>1, <1>2, <1>3, <1>4 DEF PutAnswered

\* compare_occupant.
LEMMA CompareKeeps ==
    ASSUME StoreInv, NEW c \in Calls, CompareHead(c) \/ CompareBody(c)
    PROVE  StoreInv'
  <1>0. /\ UNCHANGED <<space, object, stored, removed>>
        /\ StageInv(c) /\ RequestInv(c) /\ CoordinateInv
        /\ call[c] \in CallType /\ call \in [Calls -> CallType]
        /\ object \in [body : Bodies, by : Calls] \cup {None}
    BY DEF CompareHead, CompareBody, StoreInv, StoreType
  <1>1. CASE CompareHead(c)
    <2>0. call[c].at = "comparing"
      BY <1>1 DEF CompareHead
    <2>1. CASE Concludes(c, "Unresolved")
      BY <1>0, <2>0, <2>1, ConcludesKeeps
    <2>2. CASE /\ object # None
               /\ \E size \in Reported(object.body) :
                    IF size # SizeOf(call[c].body)
                    THEN call' = [call EXCEPT ![c].at = "done", ![c].size = size,
                                              ![c].result = Establishment("NotOurs")]
                    ELSE call' = [call EXCEPT ![c].at = "comparing_body", ![c].size = size,
                                              ![c].seen = object.body]
      <3>1. PICK size \in Reported(object.body) :
              IF size # SizeOf(call[c].body)
              THEN call' = [call EXCEPT ![c].at = "done", ![c].size = size,
                                        ![c].result = Establishment("NotOurs")]
              ELSE call' = [call EXCEPT ![c].at = "comparing_body", ![c].size = size,
                                        ![c].seen = object.body]
        BY <2>2
      <3>2. object.body \in Bodies /\ object.body \in stored /\ Occupies(object.body)
        BY <1>0, <2>2 DEF Occupies, CoordinateInv
      <3>3. size \in Nat
        BY <3>2, StoreAssumption DEF Reported
      <3>4. call[c].wire = "exists" /\ Other(c) /\ call[c].taken \in Nat
        BY <1>0, <2>0, <2>2, AuthorWon DEF StageInv, CallType
      <3>5. CASE size # SizeOf(call[c].body)
        <4>1. call' = Ended(c, Establishment("NotOurs"), call[c].found, size, call[c].taken)
          BY <1>0, <3>1, <3>5 DEF CallType, Ended
        <4> QED
          BY <1>0, <2>0, <3>3, <3>4, <3>5, <4>1, ComparedKeeps
      <3>6. CASE ~(size # SizeOf(call[c].body))
        <4>1. call' = Staged(c, "comparing_body", object.body, size)
          BY <1>0, <3>1, <3>6 DEF CallType, Staged
        <4> QED
          BY <1>0, <2>0, <3>2, <3>3, <3>4, <4>1, CompareStage
      <3> QED
        BY <3>5, <3>6
    <2> QED
      BY <1>1, <2>1, <2>2 DEF CompareHead
  <1>2. CASE CompareBody(c)
    <2>0. /\ call[c].at = "comparing_body"
          /\ call[c].seen \in stored /\ Occupies(call[c].seen)
      BY <1>0, <1>2 DEF CompareBody, StageInv
    <2>1. CASE Concludes(c, "Unresolved")
      BY <1>0, <2>0, <2>1, ConcludesKeeps
    <2> DEFINE evidence == IF Matches(call[c].body, call[c].seen)
                           THEN "DurableMatch" ELSE "NotOurs"
    <2>2. CASE call' = [call EXCEPT ![c].at = "done", ![c].taken = SizeOf(call[c].seen),
                                    ![c].result = Establishment(evidence)]
      <3>1. /\ call[c].wire = "exists" /\ call[c].size \in Nat /\ call[c].seen \in Bodies
            /\ stored \subseteq Bodies
        BY <1>0, <2>0 DEF StageInv, CallType, StoreInv, StoreType
      <3>2. SizeOf(call[c].seen) \in Nat
        BY <3>1, StoreAssumption
      <3>3. Other(c)
        BY <2>0, <3>1, AuthorWon DEF Occupies, Other
      <3>4. /\ evidence \in {"DurableMatch", "NotOurs"}
            /\ evidence = "DurableMatch" => call[c].body \in stored /\ Occupies(call[c].body)
            /\ evidence = "NotOurs" => Excludes(call[c].body)
        BY <2>0 DEF Matches, Excludes, Occupies
      <3> HIDE DEF evidence
      <3>5. call' = Ended(c, Establishment(evidence), call[c].found, call[c].size,
                          SizeOf(call[c].seen))
        BY <1>0, <2>2 DEF CallType, Ended
      <3> QED
        BY <1>0, <2>0, <3>1, <3>2, <3>3, <3>4, <3>5, ComparedKeeps
    <2> QED
      BY <1>2, <2>1, <2>2 DEF CompareBody
  <1> QED
    BY <1>1, <1>2

\* delete_idempotent is answered, or not.
LEMMA DeleteAnsweredKeeps ==
    ASSUME StoreInv, NEW c \in Calls, DeleteAnswered(c)
    PROVE  StoreInv'
  <1>0. UNCHANGED <<space, object, stored, removed>>
    BY DEF DeleteAnswered
  <1>1. "Gone" \in Ignorant /\ "Retryable" \in Ignorant /\ "Rejected" \in Ignorant
    BY DEF Ignorant
  <1>2. CASE Ends(c, "Gone")
    BY <1>0, <1>1, <1>2, IgnorantEnds
  <1>3. CASE Ends(c, "Retryable")
    BY <1>0, <1>1, <1>3, IgnorantEnds
  <1>4. CASE call[c].wire = "sent" /\ call' = [call EXCEPT ![c].at = "done",
                                     ![c].wire = "refused", ![c].result = "Rejected"]
    BY <1>0, <1>1, <1>4, RefusedKeeps
  <1> QED
    BY <1>2, <1>3, <1>4 DEF DeleteAnswered

\* A body longer than the bound of a read is not the one the reader is after.
LEMMA OversizeKeeps ==
    ASSUME StoreInv, UNCHANGED <<space, object, stored, removed>>, NEW c \in Calls,
           call[c].at \in {"reading", "streaming"},
           NEW occupant \in Bodies, Occupies(occupant), SizeOf(occupant) > Bound(c),
           Ends(c, "Contradiction")
    PROVE  StoreInv'
  <1>0. /\ StageInv(c) /\ RequestInv(c) /\ call[c] \in CallType
    BY DEF StoreInv, StoreType
  <1>1. space = "table" /\ call[c].body \in Bodies
    BY <1>0, StoreAssumption DEF StageInv, Bound
  <1>2. occupant # call[c].body
    BY <1>1, StoreAssumption DEF Bound
  <1>3. Excludes(call[c].body) /\ Other(c)
    BY <1>2, AuthorWon DEF Occupies, Excludes, Other
  <1>4. call[c].body \in call[c].known => removed
    BY <1>0, <1>2 DEF RequestInv, Occupies
  <1>5. /\ call'[c].result = "Contradiction" /\ call'[c].op = call[c].op
        /\ call'[c].body = call[c].body /\ call'[c].known = call[c].known
        /\ Other(c)' <=> Other(c)
        /\ \A b : Excludes(b)' <=> Excludes(b)
    BY EndsFields
  <1>6. ResultInv(c)'
    BY <1>3, <1>4, <1>5 DEF ResultInv, Success
  <1>7. "Contradiction" \in Results
    BY DEF Results
  <1> QED
    BY <1>6, <1>7, EndsPlainly

\* A read that fails ends without knowledge.
LEMMA ReadFailedKeeps ==
    ASSUME StoreInv, UNCHANGED <<space, object, stored, removed>>, NEW c \in Calls,
           NEW error \in Errors, FailureOfRead(c, error)
    PROVE  StoreInv'
  <1> DEFINE result == IF call[c].op = "create" /\ space = "table" THEN "Abandoned" ELSE error
  <1>1. result \in Ignorant
    BY DEF Errors, Ignorant
  <1>2. Ends(c, result)
    BY DEF FailureOfRead, ReadFailed
  <1> HIDE DEF result
  <1> QED
    BY <1>1, <1>2, IgnorantEnds

\* The object is not there: nobody had been told of it, or it was deleted.
LEMMA VanishedKeeps ==
    ASSUME StoreInv, UNCHANGED <<space, object, stored, removed>>, NEW c \in Calls,
           call[c].at = "reading", object = None, Vanished(c)
    PROVE  StoreInv'
  <1> DEFINE result == CASE call[c].op = "create" /\ space = "wal"   -> "UnresolvedAbsent"
                         [] call[c].op = "create" /\ space = "table" -> "Abandoned"
                         [] call[c].op = "read" /\ space = "table"   -> "Contradiction"
                         [] OTHER                                    -> "Absent"
  <1>0. /\ StageInv(c) /\ RequestInv(c) /\ call[c] \in CallType
    BY DEF StoreInv, StoreType
  <1>1. /\ result \in Results
        /\ result \in {"UnresolvedAbsent", "Abandoned", "Contradiction", "Absent"}
        /\ result = "Contradiction" => call[c].op = "read"
    BY DEF Results
  <1>2. Ends(c, result)
    BY DEF Vanished
  <1> HIDE DEF result
  <1>3. call[c].known # {} => removed
    BY <1>0 DEF RequestInv, Occupies
  <1>4. /\ call'[c].result = result /\ call'[c].op = call[c].op
        /\ call'[c].body = call[c].body /\ call'[c].known = call[c].known
    BY <1>2, EndsFields
  <1>5. ResultInv(c)'
    BY <1>1, <1>3, <1>4 DEF ResultInv, Success, Losing
  <1> QED
    BY <1>1, <1>2, <1>5, EndsPlainly

\* The observation of a body, or of one more piece of it.
LEMMA StreamingKeeps ==
    ASSUME StoreInv, UNCHANGED <<space, object, stored, removed>>, NEW c \in Calls,
           call[c].at \in {"reading", "streaming"},
           NEW seen \in Bodies, seen \in stored, Occupies(seen),
           NEW size \in Nat, NEW taken \in Nat, taken <= Bound(c),
           call' = [call EXCEPT ![c] = [call[c] EXCEPT !.at = "streaming", !.seen = seen,
                                                       !.size = size, !.taken = taken]]
    PROVE  StoreInv'
  <1> DEFINE x == [call[c] EXCEPT !.at = "streaming", !.seen = seen, !.size = size,
                                  !.taken = taken]
  <1>0. /\ StageInv(c) /\ RequestInv(c) /\ call[c] \in CallType
        /\ call \in [Calls -> CallType]
    BY DEF StoreInv, StoreType
  <1>1. call' = [call EXCEPT ![c] = x] /\ x \in CallType /\ call'[c] = x
    BY <1>0 DEF CallType, Stages
  <1>2. /\ x.at = "streaming" /\ x.op = call[c].op /\ x.body = call[c].body
        /\ x.wire = call[c].wire /\ x.known = call[c].known /\ x.taken = taken
        /\ x.seen = seen /\ x.result = call[c].result /\ x.found = call[c].found
    BY <1>0 DEF CallType
  <1> HIDE DEF x
  <1>3. StageInv(c)'
    BY <1>0, <1>1, <1>2 DEF StageInv, Occupies, Reconciles
  <1>4. RequestInv(c)'
    BY <1>0, <1>1, <1>2 DEF RequestInv, Occupies, Owns, Bound
  <1>5. ResultInv(c)'
    BY <1>0, <1>1, <1>2, StoreAssumption DEF ResultInv, StageInv, Success, Results, Losing
  <1> QED
    BY <1>1, <1>2, <1>3, <1>4, <1>5, QuietKeeps

\* The metadata of a read, honest or short.
LEMMA ReadHeadKeeps ==
    ASSUME StoreInv, NEW c \in Calls, ReadHead(c)
    PROVE  StoreInv'
  <1>0. /\ UNCHANGED <<space, object, stored, removed>> /\ call[c].at = "reading"
        /\ CoordinateInv /\ call[c] \in CallType /\ call \in [Calls -> CallType]
        /\ object \in [body : Bodies, by : Calls] \cup {None} /\ RequestInv(c)
    BY DEF ReadHead, StoreInv, StoreType
  <1>1. CASE object = None /\ Vanished(c)
    BY <1>0, <1>1, VanishedKeeps
  <1>2. CASE \E error \in Errors : FailureOfRead(c, error)
    BY <1>0, <1>2, ReadFailedKeeps
  <1>3. CASE /\ object # None
             /\ \E size \in Reported(object.body) :
                  IF size > Bound(c)
                  THEN Ends(c, "Contradiction")
                  ELSE call' = [call EXCEPT ![c].at = "streaming", ![c].seen = object.body,
                                            ![c].size = size, ![c].taken = 0]
    <2>1. PICK size \in Reported(object.body) :
            IF size > Bound(c)
            THEN Ends(c, "Contradiction")
            ELSE call' = [call EXCEPT ![c].at = "streaming", ![c].seen = object.body,
                                      ![c].size = size, ![c].taken = 0]
      BY <1>3
    <2>2. object.body \in Bodies /\ object.body \in stored /\ Occupies(object.body)
      BY <1>0, <1>3 DEF Occupies, CoordinateInv
    <2>3. size \in Nat /\ SizeOf(object.body) >= size /\ SizeOf(object.body) \in Nat
      BY <2>2, StoreAssumption DEF Reported
    <2>4. Bound(c) \in Nat
      BY <1>0, StoreAssumption DEF Bound, CallType
    <2>5. CASE size > Bound(c)
      <3>1. SizeOf(object.body) > Bound(c)
        BY <2>3, <2>4, <2>5
      <3> QED
        BY <1>0, <2>1, <2>2, <2>5, <3>1, OversizeKeeps
    <2>6. CASE ~(size > Bound(c))
      <3>1. call' = [call EXCEPT ![c] = [call[c] EXCEPT !.at = "streaming",
                                  !.seen = object.body, !.size = size, !.taken = 0]]
        BY <1>0, <2>1, <2>6 DEF CallType
      <3>2. 0 \in Nat /\ 0 <= Bound(c)
        BY <2>4
      <3> QED
        BY <1>0, <2>2, <2>3, <3>1, <3>2, StreamingKeeps
    <2> QED
      BY <2>5, <2>6
  <1> QED
    BY <1>1, <1>2, <1>3 DEF ReadHead

\* The whole body is there: it is the occupant's, or the occupant was deleted.
LEMMA ObservedKeeps ==
    ASSUME StoreInv, UNCHANGED <<space, object, stored, removed>>, NEW c \in Calls,
           call[c].at = "streaming", call[c].taken = SizeOf(call[c].seen), Observed(c)
    PROVE  StoreInv'
  <1> DEFINE body == call[c].seen
  <1>0. /\ StageInv(c) /\ RequestInv(c) /\ call[c] \in CallType
        /\ call \in [Calls -> CallType] /\ stored \subseteq Bodies /\ space \in Spaces
    BY DEF StoreInv, StoreType
  <1>1. /\ body \in stored /\ body \in Bodies /\ Occupies(body) /\ call[c].op \in Ops
        /\ \A b \in call[c].known : Occupies(b)
    BY <1>0 DEF StageInv, RequestInv
  <1>2. ASSUME NEW result \in Results,
               call' = [call EXCEPT ![c].at = "done", ![c].result = result,
                                    ![c].found = body],
               result # "Authored",
               result \in Success => call[c].body \in stored /\ Occupies(call[c].body),
               result \in Losing /\ call[c].op = "create" =>
                 Other(c) /\ (Excludes(call[c].body) \/ space = "authority"),
               result # "Absent",
               call[c].op = "read" /\ result = "Contradiction" /\ call[c].body \in call[c].known
                 => removed
        PROVE  StoreInv'
    <2>1. call' = Ended(c, result, body, call[c].size, call[c].taken)
      BY <1>0, <1>2 DEF CallType, Ended
    <2>2. /\ call'[c].result = result /\ call'[c].op = call[c].op
          /\ call'[c].body = call[c].body /\ call'[c].known = call[c].known
          /\ call'[c].found = body
      BY <2>1, EndedFields
    <2>3. \A b \in call[c].known : removed \/ b = body
      BY <1>1 DEF Occupies
    <2>4. /\ \A b : (Occupies(b)' <=> Occupies(b)) /\ (Excludes(b)' <=> Excludes(b))
          /\ Other(c)' <=> Other(c)
      BY DEF Occupies, Excludes, Other
    <2>5. removed' = removed /\ stored' = stored /\ space' = space
      OBVIOUS
    <2>6. ResultInv(c)'
      <3>1. call'[c].result \in Success => call'[c].body \in stored' /\ Occupies(call[c].body)'
        BY <1>2, <2>2, <2>4, <2>5
      <3>2. call'[c].result \in Losing /\ call'[c].op = "create" =>
              Other(c)' /\ (Excludes(call[c].body)' \/ space' = "authority")
        BY <1>2, <2>2, <2>4, <2>5
      <3>3. call'[c].result # "Authored" /\ call'[c].result # "Absent"
        BY <1>2, <2>2
      <3>4. call'[c].op = "read" /\ call'[c].result = "Contradiction"
              /\ call'[c].body \in call'[c].known => removed'
        BY <1>2, <2>2, <2>5
      <3>5. \A b \in call'[c].known : removed' \/ b = call'[c].found
        BY <2>2, <2>3, <2>5
      <3> QED
        BY <2>2, <3>1, <3>2, <3>3, <3>4, <3>5 DEF ResultInv
    <2>7. /\ call[c].size \in Nat /\ call[c].taken \in Nat
          /\ call[c].op # "create" => call[c].taken <= Bound(c)
      BY <1>0 DEF CallType, RequestInv
    <2> QED
      BY <1>1, <1>2, <2>1, <2>6, <2>7, EndsKeeps
  <1>3. CASE call[c].op = "create"
    <2> DEFINE evidence == IF Matches(call[c].body, body) THEN "DurableMatch" ELSE "NotOurs"
               result   == Establishment(evidence)
    <2>1. call' = [call EXCEPT ![c].at = "done", ![c].result = result, ![c].found = body]
      BY <1>3 DEF Observed
    <2>2. /\ evidence \in {"DurableMatch", "NotOurs"}
          /\ evidence = "DurableMatch" => call[c].body = body
          /\ evidence = "NotOurs" => call[c].body # body
      BY DEF Matches
    <2> HIDE DEF evidence
    <2>3. /\ result \in Results
          /\ result \in Success => evidence \in {"Direct", "DurableMatch"}
          /\ result = "Authored" => evidence = "Direct" /\ space = "authority"
          /\ result \in Losing =>
               evidence = "NotOurs" \/ (evidence = "DurableMatch" /\ space = "authority")
          /\ result \notin {"Absent", "Found"}
      BY <1>0, <2>2, EstablishmentRests
    <2> HIDE DEF result
    <2>4. /\ evidence = "NotOurs" => Excludes(call[c].body) /\ Other(c)
          /\ space # "authority"
      BY <1>0, <1>1, <1>3, <2>2, AuthorWon DEF Occupies, Excludes, Other, StageInv, Reconciles
    <2> QED
      BY <1>1, <1>2, <1>3, <2>1, <2>2, <2>3, <2>4
  <1>4. CASE call[c].op = "read"
    <2> DEFINE result == IF space = "table" /\ call[c].taken # SizeOf(call[c].body)
                         THEN "Contradiction" ELSE "Found"
    <2>1. call' = [call EXCEPT ![c].at = "done", ![c].result = result, ![c].found = body]
      BY <1>4 DEF Observed
    <2>2. /\ result \in Results /\ result \in {"Contradiction", "Found"}
          /\ result = "Contradiction" => call[c].body # body
      BY <1>1, StoreAssumption DEF Results
    <2> HIDE DEF result
    <2>3. result = "Contradiction" /\ call[c].body \in call[c].known => removed
      BY <1>1, <2>2 DEF Occupies
    <2> QED
      BY <1>2, <1>4, <2>1, <2>2, <2>3 DEF Success
  <1>5. CASE call[c].op = "delete"
    <2>1. CASE body \in Fences
      <3>1. call' = [call EXCEPT ![c].at = "done", ![c].result = "Fence", ![c].found = body]
        BY <1>5, <2>1 DEF Observed
      <3>2. "Fence" \in Results /\ "Fence" \notin Success
        BY DEF Results, Success
      <3> QED
        BY <1>2, <1>5, <3>1, <3>2
    <2>2. CASE body \notin Fences
      <3> DEFINE x == [call[c] EXCEPT !.at = "deleting", !.wire = "sent"]
      <3>1. call' = [call EXCEPT ![c] = x] /\ x \in CallType /\ call'[c] = x
        BY <1>0, <1>5, <2>2 DEF Observed, CallType, Stages, Wires
      <3>2. /\ x.at = "deleting" /\ x.op = call[c].op /\ x.body = call[c].body
            /\ x.wire = "sent" /\ x.known = call[c].known /\ x.taken = call[c].taken
            /\ x.result = call[c].result /\ x.found = call[c].found
        BY <1>0 DEF CallType
      <3> HIDE DEF x
      <3>3. StageInv(c)'
        BY <1>0, <3>1, <3>2 DEF StageInv
      <3>4. RequestInv(c)'
        BY <1>0, <3>1, <3>2 DEF RequestInv, Occupies, Bound
      <3>5. ResultInv(c)'
        BY <1>0, <3>1, <3>2, StoreAssumption DEF ResultInv, StageInv, Success, Results, Losing
      <3> QED
        BY <1>5, <3>1, <3>3, <3>4, <3>5, QuietKeeps
    <2> QED
      BY <2>1, <2>2
  <1> QED
    BY <1>1, <1>3, <1>4, <1>5 DEF Ops

\* consume_bounded_object.
LEMMA ReadChunkKeeps ==
    ASSUME StoreInv, NEW c \in Calls, ReadChunk(c)
    PROVE  StoreInv'
  <1> DEFINE rest == SizeOf(call[c].seen) - call[c].taken
  <1>0. /\ UNCHANGED <<space, object, stored, removed>> /\ call[c].at = "streaming"
        /\ StageInv(c) /\ RequestInv(c) /\ call[c] \in CallType
        /\ call \in [Calls -> CallType] /\ stored \subseteq Bodies
    BY DEF ReadChunk, StoreInv, StoreType
  <1>1. /\ call[c].seen \in Bodies /\ call[c].seen \in stored /\ Occupies(call[c].seen)
        /\ SizeOf(call[c].seen) \in Nat /\ call[c].taken \in Nat /\ call[c].size \in Nat
        /\ Bound(c) \in Nat /\ call[c].taken <= Bound(c)
    BY <1>0, StoreAssumption DEF StageInv, RequestInv, CallType, Bound
  <1>2. CASE \E chunk \in 1 .. rest : IF Accepts(c, chunk)
                                      THEN call' = [call EXCEPT ![c].taken = @ + chunk]
                                      ELSE Ends(c, "Contradiction")
    <2>1. PICK chunk \in 1 .. rest : IF Accepts(c, chunk)
                                     THEN call' = [call EXCEPT ![c].taken = @ + chunk]
                                     ELSE Ends(c, "Contradiction")
      BY <1>2
    <2>2. chunk \in Nat /\ chunk <= SizeOf(call[c].seen) - call[c].taken
      BY <1>1
    <2>3. CASE Accepts(c, chunk)
      <3>1. call[c].taken + chunk \in Nat /\ call[c].taken + chunk <= Bound(c)
        BY <1>1, <2>2, <2>3 DEF Accepts
      <3>2. call' = [call EXCEPT ![c] = [call[c] EXCEPT !.at = "streaming",
                                    !.seen = call[c].seen, !.size = call[c].size,
                                    !.taken = call[c].taken + chunk]]
        BY <1>0, <2>1, <2>3 DEF CallType
      <3> QED
        BY <1>0, <1>1, <3>1, <3>2, StreamingKeeps
    <2>4. CASE ~Accepts(c, chunk)
      <3>1. SizeOf(call[c].seen) > Bound(c)
        BY <1>1, <2>2, <2>4 DEF Accepts
      <3> QED
        BY <1>0, <1>1, <2>1, <2>4, <3>1, OversizeKeeps
    <2> QED
      BY <2>3, <2>4
  <1>3. CASE \E error \in Errors : FailureOfRead(c, error)
    BY <1>0, <1>3, ReadFailedKeeps
  <1>4. CASE rest = 0 /\ Observed(c)
    <2>1. call[c].taken = SizeOf(call[c].seen)
      BY <1>1, <1>4
    <2> QED
      BY <1>0, <1>4, <2>1, ObservedKeeps
  <1> QED
    BY <1>2, <1>3, <1>4 DEF ReadChunk

-----------------------------------------------------------------------------
(* The theorems. *)

\* A fresh coordinate, and calls that have not begun.
LEMMA StoreInitEstablishes == Init => StoreInv
  <1> SUFFICES ASSUME Init PROVE StoreInv
    OBVIOUS
  <1>1. Fresh \in CallType
    BY DEF Fresh, CallType, Stages, Wires
  <1>2. StoreType /\ CoordinateInv
    BY <1>1 DEF Init, StoreType, CoordinateInv
  <1>3. ASSUME NEW c \in Calls PROVE StageInv(c) /\ RequestInv(c) /\ ResultInv(c)
    <2>1. call[c] = Fresh
      BY DEF Init
    <2>2. None \notin Results /\ None \notin Ops
      BY StoreAssumption
    <2> QED
      BY <2>1, <2>2, StoreAssumption
      DEF Fresh, StageInv, RequestInv, ResultInv, Bound, Success, Results, Ops
  <1> QED
    BY <1>2, <1>3 DEF StoreInv

\* Every step keeps the invariant.
LEMMA StoreNextKeeps == StoreInv /\ [Next]_vars => StoreInv'
  <1> SUFFICES ASSUME StoreInv, [Next]_vars PROVE StoreInv'
    OBVIOUS
  <1>1. CASE Next
    BY <1>1, BeginKeeps, LandsKeeps, PutAnsweredKeeps, CompareKeeps, ReadHeadKeeps,
       ReadChunkKeeps, DeleteAnsweredKeeps DEF Next
  <1>2. CASE UNCHANGED vars
    <2>1. StoreType' /\ CoordinateInv' /\ Moves
      BY <1>2 DEF vars, StoreInv, StoreType, CoordinateInv, Moves
    <2>2. \A d \in Calls : StageInv(d)' /\ RequestInv(d)' /\ ResultInv(d)'
      BY <1>2, <2>1, OthersKeep DEF vars
    <2> QED
      BY <2>1, <2>2 DEF StoreInv
  <1> QED
    BY <1>1, <1>2

\* What every stage of every call knows of the coordinate is so.
THEOREM StoreInvariant == Spec => []StoreInv
  BY StoreInitEstablishes, StoreNextKeeps, PTL DEF Spec

\* What a caller concludes from the evidence of a create is true, for any number
\* of concurrent calls, lost responses and late effects: one author per Seal,
\* durable bytes that occupy the coordinate, losers without effect behind the
\* object of another, whose bytes differ unless metadata gave a wrong size
\* (create_if_absent, compare_occupant, establish_wal, establish_table).
THEOREM EvidenceIsAlwaysTrue == Spec => []EvidenceIsTrue
  <1>1. StoreInv => EvidenceIsTrue
    <2> SUFFICES ASSUME StoreInv, NEW c \in Calls
                 PROVE  /\ call[c].result = "Authored" => object # None /\ object.by = c
                        /\ call[c].result \in Success =>
                             /\ call[c].body \in stored
                             /\ removed \/ (object # None /\ object.body = call[c].body)
                        /\ call[c].op = "create" /\ call[c].result \in Losing =>
                             \/ removed
                             \/ /\ object # None /\ object.by # c
                                /\ \/ object.body # call[c].body
                                   \/ space = "authority"
                                   \/ call[c].found = None
                                        /\ call[c].size # SizeOf(call[c].body)
      BY DEF EvidenceIsTrue, AuthoredIsUnique, SuccessIsStored, LoserHasNoEffect, Losing
    <2>1. ResultInv(c) /\ CoordinateInv
      BY DEF StoreInv
    <2> QED
      BY <2>1 DEF ResultInv, CoordinateInv, Owns, Occupies, Excludes, Other
  <1> QED
    BY <1>1, StoreInvariant, PTL

\* A read that begins after a success finds its bytes until they are deleted, and
\* no read materialises more than its bound, whatever size the metadata gave
\* (read, consume_bounded_object).  A comparison with the occupant may.
THEOREM ReadsAlwaysSeeSuccess == Spec => []ReadSeesSuccess
  <1>1. StoreInv => ReadSeesSuccess
    BY DEF StoreInv, ReadSeesSuccess, ResultInv, RequestInv
  <1> QED
    BY <1>1, StoreInvariant, PTL

=============================================================================
