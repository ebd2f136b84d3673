--------------------------- MODULE ServiceProofs ---------------------------
(***************************************************************************)
(* What HTTP callers are told, for any number of clients and requests and  *)
(* any size of channel and barrier: a definite failure has no effect, no   *)
(* answer contradicts a success or a status that was received before its   *)
(* request was made, and a clean shutdown has drained the channel.         *)
(*                                                                         *)
(* Four invariants share the work.  Typed has the records of handlers and  *)
(* queues.  Effects follows a request to the WAL: the requests that may    *)
(* still get there (Possible) only shrink once they are queued, and a      *)
(* request that failed, or whose refusal is on its way, is not one of      *)
(* them.  Truth says which forest keeps which promise: view, durable,      *)
(* flight and admitted forests follow one another, and each reply is kept  *)
(* by the forest it will be sent with.  Drained is about shutdown.         *)
(***************************************************************************)
EXTENDS Service, ForestProofs

IsSequence(s) == \E S : s \in Seq(S)
Elements(s) == {s[i] : i \in 1 .. Len(s)}

Stages == {"idle", "sending", "waiting", "checking", "borrowing"}
Successes == {"Created", "AlreadyExists", "Closed", "Deleted"}
Refusals == {"NotLive", "Occupied", "CapacityExhausted", "Overloaded"}
HttpAnswers == Successes \cup Definite \cup {"Indeterminate", "LiveOpen", "LiveClosed"}

Calls == [at : Stages, id : Nat, cmd : Asks \cup {None}, answer : HttpAnswers \cup {None},
          known : SUBSET Promises]

\* Commands that wait to be durable, and replies on their way to a caller.
Waiting(b, f) == Elements(b) \cup Elements(f.commands)
Replying(o) == {x.reply : x \in {y \in Elements(o) : y.kind = "reply"}}
Sent(o, r) == Replying(o) \cup r

-----------------------------------------------------------------------------
(* Typed. *)

IsQueued(x, n) == x.id \in 1 .. n /\ x.cmd \in Commands
IsWaiting(x, n) == x.id \in 1 .. n /\ x.promise \in Promises /\ x.result \in Successes
IsOutput(x) == x.kind = "view" \/ (x.kind = "reply" /\ x.id = x.reply.id)
IsSent(x, n) ==
    /\ x.id \in 1 .. n
    /\ \/ x.promise \in Promises /\ x.result \in Successes
       \/ x.promise = None /\ x.result \in Refusals

IsCall(k, n) ==
    /\ k.id <= n
    /\ k.at # "idle" => k.id # 0 /\ k.cmd \in Asks /\ k.answer = None
    /\ k.at = "sending" => k.cmd \in Commands

TypedCalls(k, n) ==
    /\ n \in Nat
    /\ k \in [Clients -> Calls]
    /\ \A c \in Clients : IsCall(k[c], n)
    /\ \A c, d \in Clients : k[c].at # "idle" /\ k[d].at # "idle" /\ k[c].id = k[d].id => c = d

TypedQueues(q, b, f, o, r, n) ==
    /\ IsSequence(q) /\ IsSequence(b) /\ IsSequence(f.commands) /\ IsSequence(o)
    /\ \A x \in Elements(q) : IsQueued(x, n)
    /\ \A x \in Waiting(b, f) : IsWaiting(x, n)
    /\ \A x \in Elements(o) : IsOutput(x)
    /\ \A x \in Sent(o, r) : IsSent(x, n)

Typed == TypedCalls(call, asked) /\ TypedQueues(queue, barrier, flight, outputs, replies, asked)

-----------------------------------------------------------------------------
(* Effects. *)

\* Requests that are in the WAL, or may still get there.
Committing(b, f, e) == FactIds(b) \cup FactIds(f.commands) \cup e
Possible(q, b, f, e) == Ids(q) \cup Committing(b, f, e)

Once(q) == \A i, j \in 1 .. Len(q) : q[i].id = q[j].id => i = j

\* p is the set of possible effects, w and s are commands and replies.
HasNoEffect(e, fl, p, s, n) ==
    /\ e \subseteq 1 .. n /\ fl \subseteq 1 .. n
    /\ fl \cap p = {}
    /\ \A x \in s : x.promise = None => x.id \notin p

Unsettled(k, fl, p, w, s) ==
    /\ k.at # "idle" => k.id \notin fl
    /\ k.at \in {"sending", "checking", "borrowing"} => k.id \notin p
    /\ k.at = "sending" => \A x \in w \cup s : x.id # k.id

Effects ==
    /\ Once(queue)
    /\ Ids(queue) \cap Committing(barrier, flight, effected) = {}
    /\ HasNoEffect(effected, failed, Possible(queue, barrier, flight, effected),
                   Sent(outputs, replies), asked)
    /\ \A c \in Clients :
         Unsettled(call[c], failed, Possible(queue, barrier, flight, effected),
                   Waiting(barrier, flight), Sent(outputs, replies))

-----------------------------------------------------------------------------
(* Truth. *)

\* Every promise the one keeps, the other keeps.
Later(one, other) == \A p \in Promises : Keeps(one, p) => Keeps(other, p)
KeepsAll(forest, promises) == promises \subseteq Promises /\ \A p \in promises : Keeps(forest, p)
Kept(forest, xs) == \A x \in xs : x.promise # None => Keeps(forest, x.promise)

FlightForest(f, d) == IF f = NoFlight THEN d ELSE f.forest

Chain(v, d, f, a) ==
    Later(v, d) /\ Later(d, FlightForest(f, d)) /\ Later(FlightForest(f, d), a)

\* Which forest keeps what callers were told and will be told.
Faithful(v, d, f, a, b, o, r, t) ==
    /\ KeepsAll(v, t)
    /\ Kept(v, r) /\ Kept(d, Replying(o))
    /\ Kept(FlightForest(f, d), Elements(f.commands)) /\ Kept(a, Elements(b))

\* The view of a step goes out before its replies.
ViewFirst(o, v, d) ==
    /\ \A i \in 1 .. Len(o) : o[i].kind = "view" => i = 1 /\ o[i].forest = d
    /\ o = <<>> \/ o[1].kind # "view" => v = d

Truthful(k, answer) == \A p \in k.known : p.path = k.cmd.path => ~Contradicts(answer, p)

\* q are the queued commands.
Consistent(k, t, q, w, s) ==
    /\ k.known \subseteq t
    /\ k.at = "idle" /\ k.answer # None => Truthful(k, k.answer)
    /\ k.at = "waiting" =>
         /\ \A x \in q : x.id = k.id => x.cmd = k.cmd
         /\ \A x \in w \cup s : x.id = k.id => Truthful(k, x.result)

Truth ==
    /\ WellFormed(admitted)
    /\ Chain(view, durable, flight, admitted)
    /\ Faithful(view, durable, flight, admitted, barrier, outputs, replies, told)
    /\ ViewFirst(outputs, view, durable)
    /\ exit # "Failed" /\ FactIds(barrier) = {} => admitted = FlightForest(flight, durable)
    /\ \A c \in Clients :
         Consistent(call[c], told, Elements(queue), Waiting(barrier, flight),
                    Sent(outputs, replies))

-----------------------------------------------------------------------------
(* Drained. *)

Drained ==
    /\ exit \in {"none", "Failed", "Shutdown"} /\ (ingress_gone => exit # "none")
    /\ sender_gone => ~accepting /\ \A c \in Clients : call[c].at = "idle"
    /\ ~ingress_open => sender_gone /\ queue = <<>>
    /\ exit = "Shutdown" =>
         ~ingress_open /\ flight = NoFlight /\ barrier = <<>> /\ outputs = <<>>

Invariant == Typed /\ Effects /\ Truth /\ Drained

-----------------------------------------------------------------------------
(* The invariants of the next state, from its values. *)

\* Typed has no state besides its arguments.
LEMMA TypedNext ==
    ASSUME TypedCalls(call', asked'),
           TypedQueues(queue', barrier', flight', outputs', replies', asked')
    PROVE  Typed'
  <1>1. TypedCalls(call, asked)'
    BY DEF TypedCalls, IsCall, Calls, Stages, HttpAnswers, Successes, Definite, Promises, Uids,
           Commands
  <1>2. TypedQueues(queue, barrier, flight, outputs, replies, asked)'
    BY DEF TypedQueues, IsSequence, Elements, Waiting, Replying, Sent, IsQueued, IsWaiting,
           IsOutput, IsSent, Promises, Uids, Commands, Successes, Refusals
  <1> QED
    BY <1>1, <1>2 DEF Typed

\* Nor has Effects.
LEMMA EffectsNext ==
    ASSUME Once(queue'),
           Ids(queue') \cap Committing(barrier', flight', effected') = {},
           HasNoEffect(effected', failed', Possible(queue', barrier', flight', effected'),
                       Sent(outputs', replies'), asked'),
           \A c \in Clients :
             Unsettled(call'[c], failed', Possible(queue', barrier', flight', effected'),
                       Waiting(barrier', flight'), Sent(outputs', replies'))
    PROVE  Effects'
  <1>1. /\ Ids(queue)' = Ids(queue') /\ FactIds(barrier)' = FactIds(barrier')
        /\ FactIds(flight.commands)' = FactIds(flight'.commands)
        /\ Elements(barrier)' = Elements(barrier') /\ Elements(outputs)' = Elements(outputs')
        /\ Elements(flight.commands)' = Elements(flight'.commands)
    BY DEF Ids, FactIds, Elements
  <1>2. /\ Committing(barrier, flight, effected)' = Committing(barrier', flight', effected')
        /\ Possible(queue, barrier, flight, effected)'
             = Possible(queue', barrier', flight', effected')
        /\ Waiting(barrier, flight)' = Waiting(barrier', flight')
    BY <1>1 DEF Committing, Possible, Waiting
  <1>3. Sent(outputs, replies)' = Sent(outputs', replies')
    BY <1>1 DEF Sent, Replying
  <1> QED
    BY <1>1, <1>2, <1>3 DEF Effects, Once, HasNoEffect, Unsettled

\* Nor has Truth.
LEMMA TruthNext ==
    ASSUME WellFormed(admitted'),
           Chain(view', durable', flight', admitted'),
           Faithful(view', durable', flight', admitted', barrier', outputs', replies', told'),
           ViewFirst(outputs', view', durable'),
           exit' # "Failed" /\ FactIds(barrier') = {} => admitted' = FlightForest(flight', durable'),
           \A c \in Clients :
             Consistent(call'[c], told', Elements(queue'), Waiting(barrier', flight'),
                        Sent(outputs', replies'))
    PROVE  Truth'
  <1>1. /\ FactIds(barrier)' = FactIds(barrier') /\ Elements(queue)' = Elements(queue')
        /\ Elements(barrier)' = Elements(barrier') /\ Elements(outputs)' = Elements(outputs')
        /\ Elements(flight.commands)' = Elements(flight'.commands)
        /\ FlightForest(flight, durable)' = FlightForest(flight', durable')
    BY DEF FactIds, Elements, FlightForest, NoFlight
  <1>2. /\ Waiting(barrier, flight)' = Waiting(barrier', flight')
        /\ Replying(outputs)' = Replying(outputs')
    BY <1>1 DEF Waiting, Replying
  <1>3. Sent(outputs, replies)' = Sent(outputs', replies')
    BY <1>2 DEF Sent
  <1>4. WellFormed(admitted)'
    BY DEF WellFormed, TryFrom, Distinct, DenseUids, LiveIffRecord, PathCount, Occupied, IsLive,
           Forests, Entries, Records, Uids
  <1>5. Chain(view, durable, flight, admitted)'
    BY DEF Chain, Later, Keeps, Promises, Uids, FlightForest, NoFlight
  <1>6. Faithful(view, durable, flight, admitted, barrier, outputs, replies, told)'
    BY DEF Faithful, KeepsAll, Kept, Keeps, Promises, Uids, FlightForest, NoFlight, Replying,
           Elements
  <1>7. ViewFirst(outputs, view, durable)'
    BY DEF ViewFirst
  <1>8. (\A c \in Clients :
           Consistent(call[c], told, Elements(queue), Waiting(barrier, flight),
                      Sent(outputs, replies)))'
    BY <1>1, <1>2, <1>3 DEF Consistent, Truthful, Contradicts
  <1> QED
    BY <1>1, <1>4, <1>5, <1>6, <1>7, <1>8 DEF Truth

-----------------------------------------------------------------------------
(* Sequences. *)

\* The empty channel, barrier and flight.
LEMMA NothingThere ==
    /\ IsSequence(<<>>) /\ Len(<<>>) = 0
    /\ Elements(<<>>) = {} /\ Ids(<<>>) = {} /\ FactIds(<<>>) = {}
    /\ NoFlight.commands = <<>> /\ Replying(<<>>) = {}
  <1>1. <<>> \in Seq({}) /\ 1 .. Len(<<>>) = {} /\ Len(<<>>) = 0
    OBVIOUS
  <1>2. Elements(<<>>) = {}
    BY <1>1 DEF Elements
  <1> QED
    BY <1>1, <1>2 DEF IsSequence, Ids, FactIds, NoFlight, Replying

\* Commands joins the channel or the barrier at its end.
LEMMA AppendAdds ==
    ASSUME NEW s, NEW x, IsSequence(s)
    PROVE  /\ IsSequence(Append(s, x))
           /\ Elements(Append(s, x)) = Elements(s) \cup {x}
           /\ Ids(Append(s, x)) = Ids(s) \cup {x.id}
           /\ FactIds(Append(s, x)) = FactIds(s) \cup {y \in {x.id} : x.fact # None}
           /\ Once(s) /\ x.id \notin Ids(s) => Once(Append(s, x))
  <1>1. PICK S : s \in Seq(S)
    BY DEF IsSequence
  <1> DEFINE t == Append(s, x)
  <1>2. s \in Seq(S \cup {x}) /\ x \in S \cup {x}
    BY <1>1
  <1>3. /\ t \in Seq(S \cup {x}) /\ Len(s) \in Nat /\ Len(t) = Len(s) + 1
        /\ t[Len(t)] = x /\ \A i \in 1 .. Len(s) : t[i] = s[i]
    BY <1>2
  <1>4. 1 .. Len(t) = 1 .. Len(s) \cup {Len(t)} /\ Len(t) \notin 1 .. Len(s)
    BY <1>3
  <1> HIDE DEF t
  <1>5. Elements(t) = Elements(s) \cup {x}
    BY <1>3, <1>4 DEF Elements
  <1>6. Ids(t) = Ids(s) \cup {x.id}
    BY <1>3, <1>4 DEF Ids
  <1>7. FactIds(t) = FactIds(s) \cup {y \in {x.id} : x.fact # None}
    BY <1>3, <1>4 DEF FactIds
  <1>8. ASSUME Once(s), x.id \notin Ids(s) PROVE Once(t)
    <2> SUFFICES ASSUME NEW i \in 1 .. Len(t), NEW j \in 1 .. Len(t), t[i].id = t[j].id
                 PROVE  i = j
      BY DEF Once
    <2>1. \A k \in 1 .. Len(s) : t[k].id # x.id
      BY <1>3, <1>8 DEF Ids
    <2> QED
      BY <1>3, <1>4, <1>8, <2>1 DEF Once
  <1> QED
    BY <1>3, <1>5, <1>6, <1>7, <1>8 DEF IsSequence, t

\* The first one leaves the channel or the outputs.
LEMMA TailRemoves ==
    ASSUME NEW s, IsSequence(s), s # <<>>
    PROVE  /\ IsSequence(Tail(s)) /\ Len(s) \in Nat /\ Len(s) >= 1 /\ Head(s) = s[1]
           /\ Head(s) \in Elements(s)
           /\ Len(Tail(s)) = Len(s) - 1 /\ \A i \in 1 .. Len(Tail(s)) : Tail(s)[i] = s[i + 1]
           /\ Elements(s) = Elements(Tail(s)) \cup {Head(s)}
           /\ Ids(s) = Ids(Tail(s)) \cup {Head(s).id}
           /\ Once(s) => Once(Tail(s)) /\ Head(s).id \notin Ids(Tail(s))
  <1>1. PICK S : s \in Seq(S)
    BY DEF IsSequence
  <1> DEFINE t == Tail(s)
             h == Head(s)
  <1>2. /\ t \in Seq(S) /\ Len(s) \in Nat /\ Len(s) >= 1 /\ h = s[1]
        /\ Len(t) = Len(s) - 1 /\ \A i \in 1 .. Len(t) : t[i] = s[i + 1]
    BY <1>1
  <1> HIDE DEF t, h
  <1>3. /\ \A i \in 1 .. Len(s) : i = 1 \/ (i - 1 \in 1 .. Len(t) /\ s[i] = t[i - 1])
        /\ \A i \in 1 .. Len(t) : i + 1 \in 1 .. Len(s) /\ i + 1 # 1
        /\ 1 \in 1 .. Len(s)
    BY <1>2
  <1>4. Elements(s) = Elements(t) \cup {h}
    BY <1>2, <1>3 DEF Elements
  <1>5. Ids(s) = Ids(t) \cup {h.id}
    BY <1>2, <1>3 DEF Ids
  <1>6. ASSUME Once(s) PROVE Once(t) /\ h.id \notin Ids(t)
    <2>1. \A i \in 1 .. Len(t) : t[i].id # h.id
      BY <1>2, <1>3, <1>6 DEF Once
    <2>2. Once(t)
      <3> SUFFICES ASSUME NEW i \in 1 .. Len(t), NEW j \in 1 .. Len(t), t[i].id = t[j].id
                   PROVE  i = j
        BY DEF Once
      <3>1. i + 1 = j + 1
        BY <1>2, <1>3, <1>6 DEF Once
      <3> QED
        BY <1>2, <3>1
    <2> QED
      BY <2>1, <2>2 DEF Ids
  <1> QED
    BY <1>2, <1>4, <1>5, <1>6 DEF IsSequence, t, h, Elements

\* A barrier or flight that is answered: one reply for each command.
LEMMA CompletionsAnswer ==
    ASSUME NEW s, IsSequence(s)
    PROVE  /\ IsSequence(Completions(s)) /\ Len(Completions(s)) \in Nat
           /\ \A x \in Elements(Completions(s)) : IsOutput(x) /\ x.kind = "reply"
           /\ \A x \in Replying(Completions(s)) :
                \E y \in Elements(s) : x = Reply(y.id, y.result, y.promise)
  <1>1. PICK S : s \in Seq(S)
    BY DEF IsSequence
  <1> DEFINE t == Completions(s)
             T == {Sends(Reply(y.id, y.result, y.promise)) : y \in Elements(s)}
  <1>2. Len(s) \in Nat
    BY <1>1
  <1>3. t \in [1 .. Len(s) -> T]
    BY DEF Completions, Elements
  <1>4. \A x \in T : /\ \E y \in Elements(s) : x.reply = Reply(y.id, y.result, y.promise)
                     /\ x.kind = "reply" /\ x.id = x.reply.id
    BY DEF Sends
  <1> HIDE DEF t, T
  <1>5. t \in Seq(T) /\ Len(t) = Len(s)
    BY <1>2, <1>3
  <1>6. Elements(t) \subseteq T
    BY <1>3, <1>5 DEF Elements
  <1> QED
    BY <1>2, <1>4, <1>5, <1>6 DEF IsSequence, IsOutput, Replying, t

\* The outputs of a completed flight: the view, then the replies.
LEMMA ViewThenReplies ==
    ASSUME NEW v, NEW s, NEW o, IsSequence(s), v.kind = "view",
           \A x \in Elements(s) : IsOutput(x) /\ x.kind = "reply", o = <<v>> \o s
    PROVE  /\ IsSequence(o) /\ o # <<>> /\ o[1] = v /\ Replying(o) = Replying(s)
           /\ \A x \in Elements(o) : IsOutput(x)
           /\ \A i \in 1 .. Len(o) : o[i].kind = "view" => i = 1
  <1>1. PICK S : s \in Seq(S)
    BY DEF IsSequence
  <1>2. <<v>> \in Seq(S \cup {v}) /\ s \in Seq(S \cup {v}) /\ Len(<<v>>) = 1 /\ <<v>>[1] = v
    BY <1>1
  <1>3. /\ o \in Seq(S \cup {v}) /\ Len(s) \in Nat /\ Len(o) = Len(s) + 1 /\ o[1] = v
        /\ \A i \in 2 .. Len(o) : o[i] = s[i - 1]
    BY <1>2
  <1>4. /\ \A i \in 1 .. Len(o) : i = 1 \/ (i \in 2 .. Len(o) /\ i - 1 \in 1 .. Len(s))
        /\ \A i \in 1 .. Len(s) : i + 1 \in 2 .. Len(o) /\ s[i] = o[i + 1] /\ i + 1 \in 1 .. Len(o)
        /\ 1 \in 1 .. Len(o) /\ o # <<>>
    BY <1>3
  <1>5. Elements(o) = Elements(s) \cup {v}
    BY <1>3, <1>4 DEF Elements
  <1>6. \A i \in 1 .. Len(s) : s[i].kind = "reply"
    BY DEF Elements
  <1>7. \A i \in 1 .. Len(o) : o[i].kind = "view" => i = 1
    BY <1>3, <1>4, <1>6
  <1>8. Replying(o) = Replying(s)
    BY <1>5 DEF Replying
  <1> QED
    BY <1>3, <1>4, <1>5, <1>7, <1>8 DEF IsSequence, IsOutput

-----------------------------------------------------------------------------
(* Steps of one caller. *)

\* A handler that goes on to its next await.
LEMMA GoesMoves ==
    ASSUME call \in [Clients -> Calls], NEW c \in Clients, NEW at \in Stages, Goes(c, at)
    PROVE  /\ call' \in [Clients -> Calls]
           /\ \A d \in Clients : d # c => call'[d] = call[d]
           /\ call'[c].at = at /\ call'[c].id = call[c].id /\ call'[c].cmd = call[c].cmd
           /\ call'[c].answer = call[c].answer /\ call'[c].known = call[c].known
  BY DEF Goes, Calls

\* A handler that ends with an answer.
LEMMA AnswerMoves ==
    ASSUME call \in [Clients -> Calls], NEW c \in Clients, NEW answer \in HttpAnswers \cup {None},
           call' = [call EXCEPT ![c].at = "idle", ![c].answer = answer]
    PROVE  /\ call' \in [Clients -> Calls]
           /\ \A d \in Clients : d # c => call'[d] = call[d]
           /\ call'[c].at = "idle" /\ call'[c].id = call[c].id /\ call'[c].cmd = call[c].cmd
           /\ call'[c].answer = answer /\ call'[c].known = call[c].known
  BY DEF Calls, Stages

\* One caller moves, the writer does not: what has to be said of the caller.
CallerStep(c) ==
    /\ UNCHANGED <<queue, barrier, flight, outputs, effected, admitted, durable, view, exit>>
    /\ replies' \subseteq replies
    /\ asked' \in Nat /\ asked <= asked'
    /\ call' \in [Clients -> Calls]
    /\ \A d \in Clients : d # c => call'[d] = call[d]
    /\ IsCall(call'[c], asked')
    /\ call'[c].at # "idle" =>
         (call'[c].id = call[c].id /\ call[c].at # "idle") \/ call'[c].id > asked
    /\ \/ failed' = failed
       \/ /\ failed' = failed \cup {call[c].id} /\ call[c].at # "idle"
          /\ call[c].id \notin Possible(queue, barrier, flight, effected)
    /\ Unsettled(call'[c], failed', Possible(queue, barrier, flight, effected),
                 Waiting(barrier, flight), Sent(outputs, replies))
    /\ told \subseteq told' /\ KeepsAll(view, told')
    /\ Consistent(call'[c], told', Elements(queue), Waiting(barrier, flight),
                  Sent(outputs, replies))

\* Such a step keeps the invariants of all the other callers, and of the writer.
LEMMA CallerKeeps ==
    ASSUME NEW c \in Clients, Invariant, CallerStep(c)
    PROVE  Typed' /\ Effects' /\ Truth'
  <1> DEFINE p == Possible(queue, barrier, flight, effected)
             w == Waiting(barrier, flight)
             s == Sent(outputs, replies)
             t == Sent(outputs, replies')
             n == asked
             m == asked'
             q == Elements(queue)
  <1>0. /\ UNCHANGED <<queue, barrier, flight, outputs, effected, admitted, durable, view, exit>>
        /\ replies' \subseteq replies
        /\ asked' \in Nat /\ asked <= asked' /\ asked \in Nat
        /\ call' \in [Clients -> Calls] /\ call \in [Clients -> Calls]
        /\ \A d \in Clients : d # c => call'[d] = call[d]
        /\ IsCall(call'[c], asked')
    BY DEF CallerStep, Invariant, Typed, TypedCalls
  <1>1. t \subseteq s
    BY <1>0 DEF Sent
  <1>2. /\ \A x \in q : IsQueued(x, n)
        /\ \A x \in w : IsWaiting(x, n)
        /\ \A x \in s : IsSent(x, n)
        /\ \A d \in Clients : IsCall(call[d], n) /\ call[d].id \in Nat
        /\ \A d, e \in Clients :
             call[d].at # "idle" /\ call[e].at # "idle" /\ call[d].id = call[e].id => d = e
    BY <1>0 DEF Invariant, Typed, TypedCalls, TypedQueues, Calls
  <1>3. 1 .. n \subseteq 1 .. m
    BY <1>0
  <1>4. Typed'
    <2>1. \A d \in Clients : IsCall(call'[d], m)
      <3> SUFFICES ASSUME NEW d \in Clients, d # c PROVE IsCall(call[d], m)
        BY <1>0
      <3> QED
        BY <1>0, <1>2 DEF IsCall
    <2>2. ASSUME NEW d \in Clients, NEW e \in Clients,
                 call'[d].at # "idle", call'[e].at # "idle", call'[d].id = call'[e].id
          PROVE  d = e
      <3>1. \A k \in Clients : k # c => call[k].id <= n
        BY <1>2 DEF IsCall
      <3>2. call'[c].at # "idle" =>
              (call'[c].id = call[c].id /\ call[c].at # "idle") \/ call'[c].id > asked
        BY DEF CallerStep
      <3>3. call'[c].id \in Nat
        BY <1>0 DEF Calls
      <3> QED
        BY <1>0, <1>2, <2>2, <3>1, <3>2, <3>3
    <2>3. TypedCalls(call', asked')
      BY <1>0, <2>1, <2>2 DEF TypedCalls
    <2>4. /\ \A x \in q : IsQueued(x, m)
          /\ \A x \in w : IsWaiting(x, m)
          /\ \A x \in t : IsSent(x, m)
      BY <1>1, <1>2, <1>3 DEF IsQueued, IsWaiting, IsSent
    <2>5. TypedQueues(queue', barrier', flight', outputs', replies', asked')
      BY <1>0, <2>4 DEF TypedQueues, Invariant, Typed
    <2> QED
      BY <2>3, <2>5, TypedNext
  <1>5. Effects'
    <2>1. /\ Once(queue) /\ Ids(queue) \cap Committing(barrier, flight, effected) = {}
          /\ HasNoEffect(effected, failed, p, s, n)
          /\ \A d \in Clients : Unsettled(call[d], failed, p, w, s)
          /\ Unsettled(call'[c], failed', p, w, s)
      BY DEF Invariant, Effects, CallerStep
    <2>2. \/ failed' = failed
          \/ failed' = failed \cup {call[c].id} /\ call[c].at # "idle" /\ call[c].id \notin p
      BY DEF CallerStep
    <2> HIDE DEF p, w, s, t
    <2>3. call[c].at # "idle" => call[c].id \in 1 .. m
      BY <1>0, <1>2 DEF IsCall
    <2>4. HasNoEffect(effected, failed', p, t, m)
      BY <1>1, <1>3, <2>1, <2>2, <2>3 DEF HasNoEffect
    <2>5. ASSUME NEW d \in Clients PROVE Unsettled(call'[d], failed', p, w, t)
      <3>1. CASE d = c
        BY <1>1, <2>1, <3>1 DEF Unsettled
      <3>2. CASE d # c
        <4>1. call'[d] = call[d] /\ Unsettled(call[d], failed, p, w, s)
          BY <1>0, <2>1, <3>2
        <4>2. call[d].at # "idle" => call[d].id \notin failed'
          BY <1>2, <2>2, <3>2, <4>1 DEF Unsettled
        <4> QED
          BY <1>1, <4>1, <4>2 DEF Unsettled
      <3> QED
        BY <3>1, <3>2
    <2>6. /\ p = Possible(queue', barrier', flight', effected')
          /\ w = Waiting(barrier', flight') /\ t = Sent(outputs', replies')
      BY <1>0 DEF p, w, t
    <2>7. /\ Once(queue') /\ Ids(queue') \cap Committing(barrier', flight', effected') = {}
          /\ HasNoEffect(effected', failed', p, t, asked')
      BY <1>0, <2>1, <2>4
    <2> QED
      BY <2>5, <2>6, <2>7, EffectsNext
  <1>6. Truth'
    <2>1. /\ WellFormed(admitted) /\ Chain(view, durable, flight, admitted)
          /\ Faithful(view, durable, flight, admitted, barrier, outputs, replies, told)
          /\ ViewFirst(outputs, view, durable)
          /\ exit # "Failed" /\ FactIds(barrier) = {} => admitted = FlightForest(flight, durable)
          /\ \A d \in Clients : Consistent(call[d], told, q, w, s)
          /\ Consistent(call'[c], told', q, w, s)
      BY DEF Invariant, Truth, CallerStep
    <2>2. told \subseteq told' /\ KeepsAll(view, told')
      BY DEF CallerStep
    <2>3. Faithful(view, durable, flight, admitted, barrier, outputs, replies', told')
      BY <1>0, <2>1, <2>2 DEF Faithful, Kept
    <2> HIDE DEF p, w, s, t, q
    <2>4. ASSUME NEW d \in Clients PROVE Consistent(call'[d], told', q, w, t)
      <3>1. CASE d = c
        BY <1>1, <2>1, <3>1 DEF Consistent
      <3>2. CASE d # c
        <4>1. call'[d] = call[d] /\ Consistent(call[d], told, q, w, s)
          BY <1>0, <2>1, <3>2
        <4> QED
          BY <1>1, <2>2, <4>1 DEF Consistent
      <3> QED
        BY <3>1, <3>2
    <2>5. q = Elements(queue') /\ w = Waiting(barrier', flight') /\ t = Sent(outputs', replies')
      BY <1>0 DEF q, w, t
    <2>6. /\ WellFormed(admitted') /\ Chain(view', durable', flight', admitted')
          /\ Faithful(view', durable', flight', admitted', barrier', outputs', replies', told')
          /\ ViewFirst(outputs', view', durable')
          /\ exit' # "Failed" /\ FactIds(barrier') = {} =>
               admitted' = FlightForest(flight', durable')
      BY <1>0, <2>1, <2>3
    <2> QED
      BY <2>4, <2>5, <2>6, TruthNext
  <1> QED
    BY <1>4, <1>5, <1>6

\* While a request runs, or may still be made, no shutdown has begun.
LEMMA NotClosing ==
    ASSUME Drained, accepting \/ \E c \in Clients : call[c].at # "idle",
           UNCHANGED <<sender_gone, ingress_open, ingress_gone, exit>>
    PROVE  Drained'
  BY DEF Drained

\* Only requests that were made can have effects.
LEMMA PossibleBound ==
    ASSUME Invariant
    PROVE  Possible(queue, barrier, flight, effected) \subseteq 1 .. asked
  <1>1. \A i \in 1 .. Len(queue) : queue[i].id \in 1 .. asked
    BY DEF Invariant, Typed, TypedQueues, Elements, IsQueued
  <1>2. \A i \in 1 .. Len(barrier) : barrier[i].id \in 1 .. asked
    BY DEF Invariant, Typed, TypedQueues, Waiting, Elements, IsWaiting
  <1>3. \A i \in 1 .. Len(flight.commands) : flight.commands[i].id \in 1 .. asked
    BY DEF Invariant, Typed, TypedQueues, Waiting, Elements, IsWaiting
  <1>4. effected \subseteq 1 .. asked
    BY DEF Invariant, Effects, HasNoEffect
  <1> QED
    BY <1>1, <1>2, <1>3, <1>4 DEF Possible, Committing, Ids, FactIds

\* Failures and unknown outcomes say nothing about a stream.
LEMMA NeutralAnswer ==
    ASSUME NEW k, NEW answer \in {"Conflict", "TooManyRequests", "Gone", "Unavailable",
                                  "Indeterminate"}
    PROVE  Truthful(k, answer)
  BY DEF Truthful, Contradicts

\* An answer that is true, and has no effect if it says so.
LEMMA AnswerStep ==
    ASSUME NEW c \in Clients, Invariant, NEW answer \in HttpAnswers, call[c].at # "idle",
           Answer(c, answer), UNCHANGED <<writer, view>>, replies' \subseteq replies,
           told \subseteq told', KeepsAll(view, told'), Truthful(call[c], answer),
           answer \in Definite => call[c].id \notin Possible(queue, barrier, flight, effected)
    PROVE  CallerStep(c)
  <1>0. /\ asked \in Nat /\ call \in [Clients -> Calls] /\ IsCall(call[c], asked)
        /\ call[c].known \subseteq told
    BY DEF Invariant, Typed, TypedCalls, Truth, Consistent
  <1>1. /\ call' \in [Clients -> Calls] /\ \A d \in Clients : d # c => call'[d] = call[d]
        /\ call'[c].at = "idle" /\ call'[c].id = call[c].id /\ call'[c].cmd = call[c].cmd
        /\ call'[c].answer = answer /\ call'[c].known = call[c].known
    BY <1>0, AnswerMoves DEF Answer
  <1>2. /\ UNCHANGED <<queue, barrier, flight, outputs, effected, admitted, durable, view, exit>>
        /\ asked' = asked
    BY DEF Answer, writer
  <1>3. IsCall(call'[c], asked')
    BY <1>0, <1>1, <1>2 DEF IsCall
  <1>4. \/ failed' = failed
        \/ /\ failed' = failed \cup {call[c].id}
           /\ call[c].id \notin Possible(queue, barrier, flight, effected)
    BY DEF Answer
  <1>5. Unsettled(call'[c], failed', Possible(queue, barrier, flight, effected),
                  Waiting(barrier, flight), Sent(outputs, replies))
    BY <1>1 DEF Unsettled
  <1>6. Consistent(call'[c], told', Elements(queue), Waiting(barrier, flight),
                   Sent(outputs, replies))
    BY <1>0, <1>1 DEF Consistent, Truthful
  <1> QED
    BY <1>0, <1>1, <1>2, <1>3, <1>4, <1>5, <1>6 DEF CallerStep

\* A handler that goes on without an answer, or is dropped.
LEMMA GoesStep ==
    ASSUME NEW c \in Clients, Invariant, NEW at \in {"idle", "checking", "borrowing"},
           call[c].at # "idle", Goes(c, at), UNCHANGED <<asked, writer, view, told, failed, effected>>,
           replies' \subseteq replies,
           at # "idle" => call[c].id \notin Possible(queue, barrier, flight, effected)
    PROVE  CallerStep(c)
  <1>0. /\ asked \in Nat /\ call \in [Clients -> Calls] /\ IsCall(call[c], asked)
        /\ Consistent(call[c], told, Elements(queue), Waiting(barrier, flight),
                      Sent(outputs, replies))
        /\ KeepsAll(view, told) /\ call[c].id \notin failed
    BY DEF Invariant, Typed, TypedCalls, Truth, Faithful, Effects, Unsettled
  <1>1. at \in Stages
    BY DEF Stages
  <1>2. /\ call' \in [Clients -> Calls] /\ \A d \in Clients : d # c => call'[d] = call[d]
        /\ call'[c].at = at /\ call'[c].id = call[c].id /\ call'[c].cmd = call[c].cmd
        /\ call'[c].answer = call[c].answer /\ call'[c].known = call[c].known
    BY <1>0, <1>1, GoesMoves
  <1>3. UNCHANGED <<queue, barrier, flight, outputs, effected, admitted, durable, view, exit>>
    BY DEF writer
  <1>4. IsCall(call'[c], asked')
    BY <1>0, <1>2 DEF IsCall
  <1>5. Unsettled(call'[c], failed', Possible(queue, barrier, flight, effected),
                  Waiting(barrier, flight), Sent(outputs, replies))
    BY <1>0, <1>2 DEF Unsettled
  <1>6. call[c].answer = None
    BY <1>0 DEF IsCall
  <1>7. Consistent(call'[c], told', Elements(queue), Waiting(barrier, flight),
                   Sent(outputs, replies))
    BY <1>0, <1>2, <1>6 DEF Consistent
  <1> QED
    BY <1>0, <1>2, <1>3, <1>4, <1>5, <1>7 DEF CallerStep

\* A new request has a number of its own, and knows what callers were told.
LEMMA AskKeeps ==
    ASSUME Invariant, NEW c \in Clients, NEW cmd \in Asks, Ask(c, cmd)
    PROVE  Invariant'
  <1> DEFINE new == [at |-> IF cmd.op = "head" THEN "checking" ELSE "sending",
                     id |-> asked + 1, cmd |-> cmd, answer |-> None, known |-> told]
  <1>0. /\ asked \in Nat /\ call \in [Clients -> Calls] /\ KeepsAll(view, told)
        /\ failed \subseteq 1 .. asked
        /\ \A x \in Waiting(barrier, flight) \cup Sent(outputs, replies) : x.id \in 1 .. asked
    BY DEF Invariant, Typed, TypedCalls, TypedQueues, Truth, Faithful, Effects, HasNoEffect,
           IsWaiting, IsSent
  <1>1. /\ accepting /\ asked' = asked + 1 /\ call' = [call EXCEPT ![c] = new]
        /\ UNCHANGED <<queue, barrier, flight, outputs, effected, admitted, durable, view, exit,
                       replies, failed, told, sender_gone, ingress_open, ingress_gone>>
    BY DEF Ask, writer, history
  <1>2. cmd.op # "head" => cmd \in Commands
    BY ServiceAssumption, ForestAssumption
  <1>3. /\ new \in Calls /\ new.id = asked + 1 /\ new.known = told /\ new.cmd = cmd
        /\ new.answer = None /\ new.at \in {"checking", "sending"}
        /\ new.at = "sending" => cmd \in Commands
    BY <1>0, <1>2 DEF Calls, Stages, KeepsAll
  <1> HIDE DEF new
  <1>4. /\ call' \in [Clients -> Calls] /\ call'[c] = new
        /\ \A d \in Clients : d # c => call'[d] = call[d]
    BY <1>0, <1>1, <1>3
  <1>5. IsCall(call'[c], asked')
    BY <1>0, <1>1, <1>3, <1>4 DEF IsCall
  <1>6. asked + 1 \notin 1 .. asked /\ asked + 1 > asked /\ asked + 1 \in Nat /\ asked <= asked + 1
    BY <1>0
  <1>7. Unsettled(call'[c], failed', Possible(queue, barrier, flight, effected),
                  Waiting(barrier, flight), Sent(outputs, replies))
    BY <1>0, <1>1, <1>3, <1>4, <1>6, PossibleBound DEF Unsettled
  <1>8. Consistent(call'[c], told', Elements(queue), Waiting(barrier, flight),
                   Sent(outputs, replies))
    BY <1>1, <1>3, <1>4 DEF Consistent
  <1>9. CallerStep(c)
    BY <1>0, <1>1, <1>3, <1>4, <1>5, <1>6, <1>7, <1>8 DEF CallerStep
  <1>10. Drained'
    BY <1>1, NotClosing DEF Invariant
  <1> QED
    BY <1>9, <1>10, CallerKeeps DEF Invariant

\* What the view shows of a path agrees with every promise it keeps.
LEMMA StatusTruthful ==
    ASSUME NEW k, NEW op, \A p \in k.known : Keeps(view, p)
    PROVE  /\ StatusAnswer(op, Status(k.cmd.path))
                \in {"NotFound", "Gone", "Indeterminate", "LiveOpen", "LiveClosed"}
           /\ Truthful(k, StatusAnswer(op, Status(k.cmd.path)))
  <1> DEFINE path == k.cmd.path
             entry == view.directory[path]
             status == Status(path)
             answer == StatusAnswer(op, status)
  <1>1. /\ status \in {"Missing", "Deleted", "LiveOpen", "LiveClosed"}
        /\ status = "Missing" => entry = None
        /\ status \in {"LiveOpen", "LiveClosed"} => entry # None /\ entry.state # "tombstone"
        /\ status = "LiveOpen" => ~view.ledger[entry.uid].closed
    BY DEF Status
  <1> HIDE DEF status
  <1>2. /\ answer \in {"NotFound", "Gone", "Indeterminate", "LiveOpen", "LiveClosed"}
        /\ answer = "NotFound" => status = "Missing"
        /\ answer \in {"LiveOpen", "LiveClosed"} => answer = status
    BY <1>1 DEF StatusAnswer
  <1> HIDE DEF answer
  <1>3. ASSUME NEW p \in k.known, p.path = path PROVE ~Contradicts(answer, p)
    <2>1. /\ entry # None /\ entry.uid = p.uid
          /\ p.level = "closed" => entry.state = "tombstone" \/ view.ledger[entry.uid].closed
          /\ p.level = "deleted" => entry.state = "tombstone"
      BY <1>3 DEF Keeps
    <2> QED
      BY <1>1, <1>2, <2>1 DEF Contradicts
  <1> QED
    BY <1>2, <1>3 DEF Truthful, answer, status

\* A reply that arrives, a dropped waiter, the two looks of a status read, and a
\* client that hangs up.
LEMMA HandlerKeeps ==
    ASSUME Invariant, NEW c \in Clients,
           \/ \E reply \in replies : Receive(c, reply)
           \/ Dropped(c) \/ CheckServing(c) \/ BorrowView(c) \/ HangUp(c)
    PROVE  Invariant'
  <1> DEFINE p == Possible(queue, barrier, flight, effected)
  <1>0. /\ call[c].at # "idle" /\ UNCHANGED <<sender_gone, ingress_open, ingress_gone, exit>>
        /\ UNCHANGED <<asked, writer, view>> /\ replies' \subseteq replies
    BY DEF Receive, Dropped, CheckServing, BorrowView, HangUp, Answer, writer
  <1>1. Drained'
    BY <1>0, NotClosing DEF Invariant
  <1>2. /\ \A x \in replies : IsSent(x, asked) /\ (x.promise = None => x.id \notin p)
        /\ KeepsAll(view, told) /\ Kept(view, replies)
        /\ call[c].at \in {"sending", "checking", "borrowing"} => call[c].id \notin p
        /\ call[c].known \subseteq told
        /\ call[c].at = "waiting" =>
             \A x \in replies : x.id = call[c].id => Truthful(call[c], x.result)
    BY DEF Invariant, Typed, TypedQueues, Sent, Effects, HasNoEffect, Unsettled, Truth, Faithful,
           Consistent
  <1> SUFFICES CallerStep(c)
    BY <1>1, CallerKeeps DEF Invariant
  <1> HIDE DEF p
  <1>3. ASSUME NEW reply \in replies, Receive(c, reply)
        PROVE  CallerStep(c)
    <2>1. /\ call[c].at = "waiting" /\ reply.id = call[c].id /\ IsSent(reply, asked)
          /\ reply.promise = None => call[c].id \notin p
      BY <1>2, <1>3 DEF Receive
    <2>2. CASE /\ reply.promise # None /\ told' = told \cup {reply.promise}
               /\ Answer(c, reply.result)
      <3>1. reply.promise \in Promises /\ reply.result \in Successes
        BY <2>1, <2>2 DEF IsSent
      <3>2. reply.result \in HttpAnswers /\ reply.result \notin Definite
        BY <3>1 DEF Successes, HttpAnswers, Definite
      <3>3. KeepsAll(view, told') /\ told \subseteq told'
        BY <1>2, <2>2, <3>1 DEF KeepsAll, Kept
      <3>4. Truthful(call[c], reply.result)
        BY <1>2, <2>1
      <3> QED
        BY <1>0, <2>2, <3>2, <3>3, <3>4, AnswerStep
    <2>3. CASE reply.result = "NotLive" /\ Goes(c, "checking") /\ UNCHANGED history
      <3>1. reply.promise = None
        BY <2>1, <2>3 DEF IsSent, Successes
      <3>2. UNCHANGED <<told, failed, effected>>
        BY <2>3 DEF history
      <3> QED
        BY <1>0, <2>1, <2>3, <3>1, <3>2, GoesStep DEF p
    <2>4. CASE /\ reply.promise = None /\ reply.result # "NotLive"
               /\ Answer(c, Answers(reply.result)) /\ UNCHANGED told
      <3>1. reply.result \in Refusals
        BY <2>1, <2>4, ServiceAssumption, ForestAssumption DEF IsSent
      <3>2. Answers(reply.result) \in {"Conflict", "TooManyRequests"}
        BY <2>4, <3>1 DEF Answers, Refusals
      <3>3. Answers(reply.result) \in HttpAnswers /\ Truthful(call[c], Answers(reply.result))
        BY <3>2, NeutralAnswer DEF HttpAnswers, Definite
      <3> QED
        BY <1>0, <1>2, <2>1, <2>4, <3>3, AnswerStep DEF p
    <2> QED
      BY <1>3, <2>2, <2>3, <2>4 DEF Receive
  <1>4. CASE Dropped(c)
    <2>1. Answer(c, "Indeterminate") /\ UNCHANGED told
      BY <1>4 DEF Dropped, DroppedWaiter
    <2>2. /\ "Indeterminate" \in HttpAnswers /\ "Indeterminate" \notin Definite
          /\ Truthful(call[c], "Indeterminate")
      BY NeutralAnswer DEF HttpAnswers, Definite
    <2> QED
      BY <1>0, <1>2, <2>1, <2>2, AnswerStep
  <1>5. CASE CheckServing(c)
    <2>1. call[c].id \notin p
      BY <1>2, <1>5 DEF CheckServing
    <2>2. CASE Answer(c, "Unavailable") /\ UNCHANGED told
      <3>1. "Unavailable" \in HttpAnswers /\ Truthful(call[c], "Unavailable")
        BY NeutralAnswer DEF HttpAnswers, Definite
      <3> QED
        BY <1>0, <1>2, <2>1, <2>2, <3>1, AnswerStep DEF p
    <2>3. CASE Goes(c, "borrowing") /\ UNCHANGED history
      <3>1. UNCHANGED <<told, failed, effected>>
        BY <2>3 DEF history
      <3> QED
        BY <1>0, <2>1, <2>3, <3>1, GoesStep DEF p
    <2> QED
      BY <1>5, <2>2, <2>3 DEF CheckServing
  <1>6. CASE BorrowView(c)
    <2> DEFINE answer == StatusAnswer(call[c].cmd.op, Status(call[c].cmd.path))
    <2>1. /\ Answer(c, answer) /\ call[c].id \notin p
          /\ told' = IF answer = "Indeterminate" THEN told ELSE told \cup Shown(call[c].cmd.path)
      BY <1>2, <1>6 DEF BorrowView
    <2>2. \A q \in call[c].known : Keeps(view, q)
      BY <1>2 DEF KeepsAll
    <2>3. /\ answer \in {"NotFound", "Gone", "Indeterminate", "LiveOpen", "LiveClosed"}
          /\ Truthful(call[c], answer)
      BY <2>2, StatusTruthful
    <2> HIDE DEF answer
    <2>4. answer \in HttpAnswers
      BY <2>3 DEF HttpAnswers, Definite
    <2>5. KeepsAll(view, Shown(call[c].cmd.path))
      BY DEF KeepsAll, Shown
    <2>6. told \subseteq told' /\ KeepsAll(view, told')
      BY <1>2, <2>1, <2>5 DEF KeepsAll
    <2> QED
      BY <1>0, <2>1, <2>3, <2>4, <2>6, AnswerStep DEF p
  <1>7. CASE HangUp(c)
    <2>1. /\ call' = [call EXCEPT ![c] = NoCall] /\ UNCHANGED <<told, failed, effected>>
          /\ UNCHANGED <<queue, barrier, flight, outputs, admitted, durable, view, exit>>
      BY <1>0, <1>7 DEF HangUp, history, writer
    <2>2. asked' = asked /\ asked \in Nat /\ call \in [Clients -> Calls]
      BY <1>0 DEF Invariant, Typed, TypedCalls
    <2>3. NoCall \in Calls /\ IsCall(NoCall, asked)
      BY <2>2 DEF NoCall, Calls, Stages, IsCall
    <2>4. /\ call' \in [Clients -> Calls] /\ call'[c] = NoCall
          /\ \A d \in Clients : d # c => call'[d] = call[d]
      BY <2>1, <2>2, <2>3
    <2>5. /\ Unsettled(NoCall, failed, Possible(queue, barrier, flight, effected),
                       Waiting(barrier, flight), Sent(outputs, replies))
          /\ Consistent(NoCall, told, Elements(queue), Waiting(barrier, flight),
                        Sent(outputs, replies))
      BY DEF Unsettled, Consistent, NoCall
    <2>6. NoCall.at = "idle"
      BY DEF NoCall
    <2> QED
      BY <1>0, <1>2, <2>1, <2>2, <2>3, <2>4, <2>5, <2>6 DEF CallerStep
  <1> QED
    BY <1>3, <1>4, <1>5, <1>6, <1>7

\* enqueue: the command enters the channel with its number, or the writer is gone
\* and nothing has happened.
LEMMA EnqueueKeeps ==
    ASSUME Invariant, NEW c \in Clients, Enqueue(c)
    PROVE  Invariant'
  <1> DEFINE p == Possible(queue, barrier, flight, effected)
             w == Waiting(barrier, flight)
             s == Sent(outputs, replies)
  <1>0. /\ asked \in Nat /\ call \in [Clients -> Calls] /\ TypedCalls(call, asked)
        /\ IsCall(call[c], asked) /\ Unsettled(call[c], failed, p, w, s)
        /\ Consistent(call[c], told, Elements(queue), w, s)
        /\ KeepsAll(view, told)
        /\ call[c].at = "sending"
        /\ UNCHANGED <<barrier, flight, outputs, effected, admitted, durable, view, exit, replies,
                       asked, told, sender_gone, ingress_open, ingress_gone>>
    BY DEF Invariant, Typed, TypedCalls, Effects, Truth, Faithful, Enqueue, Answer, history
  <1>1. Drained'
    BY <1>0, NotClosing DEF Invariant
  <1>2. CASE Answer(c, "Unavailable") /\ UNCHANGED <<queue, told>>
    <2>1. "Unavailable" \in HttpAnswers /\ Truthful(call[c], "Unavailable")
      BY NeutralAnswer DEF HttpAnswers, Definite
    <2>2. UNCHANGED <<writer, view>>
      BY <1>2 DEF Enqueue, writer
    <2>3. CallerStep(c)
      BY <1>0, <1>2, <2>1, <2>2, AnswerStep DEF Unsettled
    <2> QED
      BY <1>1, <2>3, CallerKeeps DEF Invariant
  <1>3. CASE /\ queue' = Append(queue, [id |-> call[c].id, cmd |-> call[c].cmd])
             /\ Goes(c, "waiting") /\ UNCHANGED history
    <2> DEFINE item == [id |-> call[c].id, cmd |-> call[c].cmd]
               id == call[c].id
    <2>1. item.id = id /\ item.cmd = call[c].cmd /\ queue' = Append(queue, item)
      BY <1>3
    <2> HIDE DEF item
    <2>2. /\ call' \in [Clients -> Calls] /\ \A d \in Clients : d # c => call'[d] = call[d]
          /\ call'[c].at = "waiting" /\ call'[c].id = id /\ call'[c].cmd = call[c].cmd
          /\ call'[c].answer = call[c].answer /\ call'[c].known = call[c].known
      BY <1>0, <1>3, GoesMoves DEF Stages
    <2>3. UNCHANGED <<failed, effected>>
      BY <1>3 DEF history
    <2>4. IsSequence(queue) /\ Once(queue) /\ id \notin p
      BY <1>0 DEF Invariant, Typed, TypedQueues, Effects, Unsettled
    <2>5. /\ IsSequence(queue') /\ Elements(queue') = Elements(queue) \cup {item}
          /\ Ids(queue') = Ids(queue) \cup {id} /\ Once(queue')
      BY <2>1, <2>4, AppendAdds DEF Possible
    <2>6. id \in 1 .. asked /\ id \in Nat /\ call[c].cmd \in Commands
      <3>1. call[c].id \in Nat
        BY <1>0 DEF Calls
      <3> QED
        BY <1>0, <3>1 DEF IsCall
    <2>7. Typed'
      <3>1. IsCall(call'[c], asked')
        BY <1>0, <2>2 DEF IsCall
      <3>2. TypedCalls(call', asked')
        <4>1. \A d \in Clients : IsCall(call'[d], asked')
          BY <1>0, <2>2, <3>1 DEF TypedCalls
        <4>2. \A d \in Clients : call'[d].id = call[d].id
                                 /\ (call'[d].at # "idle" <=> call[d].at # "idle")
          BY <1>0, <2>2
        <4>3. \A d, e \in Clients :
                call'[d].at # "idle" /\ call'[e].at # "idle" /\ call'[d].id = call'[e].id => d = e
          BY <1>0, <4>2 DEF TypedCalls
        <4> QED
          BY <1>0, <2>2, <4>1, <4>3 DEF TypedCalls
      <3>3. \A x \in Elements(queue') : IsQueued(x, asked)
        BY <2>1, <2>5, <2>6 DEF Invariant, Typed, TypedQueues, IsQueued
      <3>4. TypedQueues(queue', barrier', flight', outputs', replies', asked')
        BY <1>0, <2>5, <3>3 DEF Invariant, Typed, TypedQueues
      <3> QED
        BY <3>2, <3>4, TypedNext
    <2>8. Possible(queue', barrier', flight', effected') = p \cup {id}
      BY <1>0, <2>3, <2>5 DEF Possible
    <2>9. w = Waiting(barrier', flight') /\ s = Sent(outputs', replies')
      BY <1>0
    <2>10. Effects'
      <3>1. Ids(queue') \cap Committing(barrier', flight', effected') = {}
        BY <1>0, <2>3, <2>4, <2>5 DEF Invariant, Effects, Possible
      <3>2. HasNoEffect(effected, failed, p, s, asked) /\ id \notin failed
            /\ (\A x \in w \cup s : x.id # id)
            /\ \A d \in Clients : Unsettled(call[d], failed, p, w, s)
        BY <1>0 DEF Invariant, Effects, Unsettled
      <3>3. \A d \in Clients : d # c /\ call[d].at # "idle" => call[d].id # id
        BY <1>0 DEF TypedCalls
      <3> HIDE DEF p, w, s
      <3>4. HasNoEffect(effected', failed', p \cup {id}, s, asked')
        BY <1>0, <2>3, <3>2 DEF HasNoEffect
      <3>5. ASSUME NEW d \in Clients PROVE Unsettled(call'[d], failed', p \cup {id}, w, s)
        <4>1. CASE d = c
          BY <2>2, <2>3, <3>2, <4>1 DEF Unsettled
        <4>2. CASE d # c
          <5>1. call'[d] = call[d] /\ Unsettled(call[d], failed, p, w, s)
            BY <2>2, <3>2, <4>2
          <5> QED
            BY <2>3, <3>3, <4>2, <5>1 DEF Unsettled
        <4> QED
          BY <4>1, <4>2
      <3> QED
        BY <2>5, <2>8, <2>9, <3>1, <3>4, <3>5, EffectsNext
    <2>11. Truth'
      <3>1. /\ WellFormed(admitted) /\ Chain(view, durable, flight, admitted)
            /\ Faithful(view, durable, flight, admitted, barrier, outputs, replies, told)
            /\ ViewFirst(outputs, view, durable)
            /\ exit # "Failed" /\ FactIds(barrier) = {} => admitted = FlightForest(flight, durable)
            /\ \A d \in Clients : Consistent(call[d], told, Elements(queue), w, s)
        BY DEF Invariant, Truth
      <3>2. /\ \A x \in w \cup s : x.id # id
            /\ \A x \in Elements(queue) : x.id # id
        <4>1. \A x \in Elements(queue) : x.id \in Ids(queue)
          BY DEF Elements, Ids
        <4> QED
          BY <1>0, <2>4, <4>1 DEF Unsettled, Possible
      <3>3. \A d \in Clients : d # c /\ call[d].at # "idle" => call[d].id # id
        BY <1>0 DEF TypedCalls
      <3> HIDE DEF p, w, s
      <3>4. ASSUME NEW d \in Clients PROVE Consistent(call'[d], told', Elements(queue'), w, s)
        <4>1. CASE d = c
          BY <1>0, <2>1, <2>2, <2>5, <3>2, <4>1 DEF Consistent
        <4>2. CASE d # c
          <5>1. call'[d] = call[d] /\ Consistent(call[d], told, Elements(queue), w, s)
            BY <2>2, <3>1, <4>2
          <5> QED
            BY <1>0, <2>1, <2>5, <3>3, <4>2, <5>1 DEF Consistent
        <4> QED
          BY <4>1, <4>2
      <3>5. /\ WellFormed(admitted') /\ Chain(view', durable', flight', admitted')
            /\ Faithful(view', durable', flight', admitted', barrier', outputs', replies', told')
            /\ ViewFirst(outputs', view', durable')
            /\ exit' # "Failed" /\ FactIds(barrier') = {} =>
                 admitted' = FlightForest(flight', durable')
        BY <1>0, <3>1
      <3> QED
        BY <2>9, <3>4, <3>5, TruthNext
    <2> QED
      BY <1>1, <2>7, <2>10, <2>11 DEF Invariant
  <1> QED
    BY <1>2, <1>3 DEF Enqueue

\* The shutdown signal and the end of the database handle.
LEMMA ClosingKeeps ==
    ASSUME Invariant, ShutdownSignal \/ CloseDb
    PROVE  Invariant'
  <1>1. /\ UNCHANGED <<call, asked, queue, barrier, flight, outputs, effected, admitted, durable,
                       view, exit, replies, failed, told, ingress_open, ingress_gone>>
        /\ Drained'
    BY DEF ShutdownSignal, CloseDb, writer, history, Invariant, Drained, NoFlight
  <1>2. Typed'
    BY <1>1, TypedNext DEF Invariant, Typed
  <1>3. Effects'
    BY <1>1, EffectsNext DEF Invariant, Effects
  <1>4. Truth'
    BY <1>1, TruthNext DEF Invariant, Truth
  <1> QED
    BY <1>1, <1>2, <1>3, <1>4 DEF Invariant

-----------------------------------------------------------------------------
(* Steps of the writer. *)

\* The writer moves, the callers do not: what has to be said of its commands and
\* replies.  Each command and reply of the next state answers as one did before,
\* or answers a command of the channel truthfully.
Answered(x) ==
    \/ \E y \in Waiting(barrier, flight) \cup Sent(outputs, replies) :
         y.id = x.id /\ y.result = x.result
    \/ /\ x.id \in Ids(queue)
       /\ \A c \in Clients :
            call[c].at = "waiting" /\ call[c].id = x.id => Truthful(call[c], x.result)

WriterStep ==
    /\ UNCHANGED <<call, asked, failed, told>>
    /\ TypedQueues(queue', barrier', flight', outputs', replies', asked)
    /\ Once(queue') /\ Elements(queue') \subseteq Elements(queue)
    /\ Ids(queue') \cap Committing(barrier', flight', effected') = {}
    /\ Possible(queue', barrier', flight', effected')
         \subseteq Possible(queue, barrier, flight, effected)
    /\ \A x \in Sent(outputs', replies') :
         x.promise = None => x.id \notin Possible(queue', barrier', flight', effected')
    /\ \A x \in Waiting(barrier', flight') \cup Sent(outputs', replies') : Answered(x)

\* Such a step keeps what is said of the callers.
LEMMA WriterKeeps ==
    ASSUME Invariant, WriterStep
    PROVE  /\ Typed' /\ Effects'
           /\ \A c \in Clients :
                Consistent(call'[c], told', Elements(queue'), Waiting(barrier', flight'),
                           Sent(outputs', replies'))
  <1> DEFINE p == Possible(queue, barrier, flight, effected)
             r == Possible(queue', barrier', flight', effected')
             old == Waiting(barrier, flight) \cup Sent(outputs, replies)
             w == Waiting(barrier', flight')
             s == Sent(outputs', replies')
  <1>0. /\ UNCHANGED <<call, asked, failed, told>>
        /\ r \subseteq p /\ Elements(queue') \subseteq Elements(queue)
        /\ \A x \in s : x.promise = None => x.id \notin r
        /\ \A x \in w \cup s :
             \/ \E y \in old : y.id = x.id /\ y.result = x.result
             \/ /\ x.id \in Ids(queue)
                /\ \A c \in Clients :
                     call[c].at = "waiting" /\ call[c].id = x.id => Truthful(call[c], x.result)
    BY DEF WriterStep, Answered
  <1>1. Ids(queue) \subseteq p /\ effected' \subseteq r
    BY DEF Possible, Committing
  <1>2. p \subseteq 1 .. asked
    BY PossibleBound
  <1>3. Typed'
    <2>1. TypedCalls(call', asked')
      BY <1>0 DEF Invariant, Typed
    <2>2. TypedQueues(queue', barrier', flight', outputs', replies', asked')
      BY <1>0 DEF WriterStep
    <2> QED
      BY <2>1, <2>2, TypedNext
  <1>4. /\ failed \subseteq 1 .. asked /\ failed \cap p = {}
        /\ \A c \in Clients :
             /\ call[c].at # "idle" => call[c].id \notin failed
             /\ call[c].at \in {"sending", "checking", "borrowing"} => call[c].id \notin p
             /\ call[c].at = "sending" => \A x \in old : x.id # call[c].id
    BY DEF Invariant, Effects, HasNoEffect, Unsettled
  <1>5. \A c \in Clients :
             /\ call[c].known \subseteq told
             /\ call[c].at = "idle" /\ call[c].answer # None => Truthful(call[c], call[c].answer)
             /\ call[c].at = "waiting" =>
                  /\ \A x \in Elements(queue) : x.id = call[c].id => x.cmd = call[c].cmd
                  /\ \A x \in old : x.id = call[c].id => Truthful(call[c], x.result)
    BY DEF Invariant, Truth, Consistent
  <1> HIDE DEF p, r, old, w, s
  <1>6. HasNoEffect(effected', failed', r, s, asked')
    BY <1>0, <1>1, <1>2, <1>4 DEF HasNoEffect
  <1>7. ASSUME NEW c \in Clients PROVE Unsettled(call'[c], failed', r, w, s)
    <2>1. call'[c] = call[c] /\ failed' = failed
      BY <1>0
    <2>2. call[c].at = "sending" => \A x \in w \cup s : x.id # call[c].id
      BY <1>0, <1>1, <1>4
    <2> QED
      BY <1>0, <1>4, <2>1, <2>2 DEF Unsettled
  <1>8. ASSUME NEW c \in Clients PROVE Consistent(call'[c], told', Elements(queue'), w, s)
    <2>1. call'[c] = call[c] /\ told' = told
      BY <1>0
    <2>2. ASSUME call[c].at = "waiting", NEW x \in w \cup s, x.id = call[c].id
          PROVE  Truthful(call[c], x.result)
      BY <1>0, <1>5, <2>2
    <2> QED
      BY <1>0, <1>5, <2>1, <2>2 DEF Consistent
  <1>9. Effects'
    BY <1>6, <1>7, EffectsNext DEF WriterStep, r, w, s
  <1> QED
    BY <1>3, <1>8, <1>9 DEF w, s

\* Commands and replies that are neither new nor changed.
LEMMA StillAnswered ==
    ASSUME NEW x \in Waiting(barrier, flight) \cup Sent(outputs, replies)
    PROVE  Answered(x)
  BY DEF Answered

\* Forests, barrier, flight, outputs and replies stay: the writer learns that its
\* channel is closed, ends, or drops the channel.
LEMMA EndingKeeps ==
    ASSUME Invariant, IngressClosed \/ Finish \/ CheckpointFails \/ DropIngress
    PROVE  Invariant'
  <1>0. /\ UNCHANGED <<call, asked, failed, told, admitted, durable, barrier, flight, outputs,
                       view, replies, accepting, sender_gone>>
        /\ queue' \in {queue, <<>>} /\ exit' \in {exit, "Failed", "Shutdown"}
        /\ effected' \in {effected, effected \cup FactIds(flight.commands)}
    BY DEF IngressClosed, Finish, CheckpointFails, MayBeDurable, DropIngress, edge, history
  <1>1. /\ IsSequence(queue') /\ Elements(queue') \subseteq Elements(queue)
        /\ Ids(queue') \subseteq Ids(queue) /\ Once(queue')
    <2>1. IsSequence(queue) /\ Once(queue) /\ Once(<<>>)
      BY NothingThere DEF Invariant, Typed, TypedQueues, Effects, Once
    <2> QED
      BY <1>0, <2>1, NothingThere
  <1>2. /\ Committing(barrier', flight', effected') \subseteq Committing(barrier, flight, effected)
        /\ effected' \subseteq Committing(barrier, flight, effected)
    BY <1>0 DEF Committing
  <1>3. WriterStep
    <2>1. TypedQueues(queue', barrier', flight', outputs', replies', asked)
      BY <1>0, <1>1 DEF Invariant, Typed, TypedQueues
    <2>2. /\ Ids(queue') \cap Committing(barrier', flight', effected') = {}
          /\ Possible(queue', barrier', flight', effected')
               \subseteq Possible(queue, barrier, flight, effected)
      BY <1>1, <1>2 DEF Invariant, Effects, Possible
    <2>3. \A x \in Sent(outputs', replies') :
            x.promise = None => x.id \notin Possible(queue', barrier', flight', effected')
      BY <1>0, <2>2 DEF Invariant, Effects, HasNoEffect
    <2>4. \A x \in Waiting(barrier', flight') \cup Sent(outputs', replies') : Answered(x)
      BY <1>0, StillAnswered
    <2> QED
      BY <1>0, <1>1, <2>1, <2>2, <2>3, <2>4 DEF WriterStep
  <1>4. /\ Typed' /\ Effects'
        /\ \A c \in Clients :
             Consistent(call'[c], told', Elements(queue'), Waiting(barrier', flight'),
                        Sent(outputs', replies'))
    BY <1>3, WriterKeeps
  <1>5. /\ WellFormed(admitted') /\ Chain(view', durable', flight', admitted')
        /\ Faithful(view', durable', flight', admitted', barrier', outputs', replies', told')
        /\ ViewFirst(outputs', view', durable')
    BY <1>0 DEF Invariant, Truth
  <1>6. exit' # "Failed" /\ FactIds(barrier') = {} => admitted' = FlightForest(flight', durable')
    <2>1. exit' = "Failed" \/ exit # "Failed" \/ exit' = exit
      BY DEF IngressClosed, Finish, CheckpointFails, DropIngress, Idle
    <2> QED
      BY <1>0, <2>1 DEF Invariant, Truth
  <1>7. Truth'
    BY <1>4, <1>5, <1>6, TruthNext
  <1>8. Drained'
    <2>1. CASE IngressClosed
      BY <1>0, <2>1 DEF IngressClosed, SeesClosed, Idle, Invariant, Drained, NoFlight
    <2>2. CASE Finish
      BY <1>0, <2>2 DEF Finish, Idle, Invariant, Drained, NoFlight
    <2>3. CASE CheckpointFails
      BY <1>0, <2>3 DEF CheckpointFails, Idle, Invariant, Drained, NoFlight
    <2>4. CASE DropIngress
      BY <1>0, <2>4 DEF DropIngress, Invariant, Drained, NoFlight
    <2> QED
      BY <2>1, <2>2, <2>3, <2>4
  <1> QED
    BY <1>4, <1>7, <1>8 DEF Invariant

\* A writer that failed drops the waiters of its flight, and of its barrier.
LEMMA DropMachineKeeps ==
    ASSUME Invariant, FlightFails \/ DropMachine
    PROVE  Invariant'
  <1>0. /\ UNCHANGED <<call, asked, failed, told, admitted, durable, queue, outputs, view, replies,
                       accepting, sender_gone, ingress_open, ingress_gone>>
        /\ barrier' \in {barrier, <<>>} /\ flight' = NoFlight /\ exit' = "Failed"
        /\ effected' \in {effected, effected \cup FactIds(flight.commands)}
    BY DEF FlightFails, MayBeDurable, DropMachine, edge, history, Invariant, Drained
  <1>1. /\ FactIds(barrier') \subseteq FactIds(barrier) /\ FactIds(flight'.commands) = {}
        /\ flight'.commands = <<>> /\ IsSequence(<<>>) /\ Elements(<<>>) = {}
        /\ Elements(barrier') \subseteq Elements(barrier)
    BY <1>0, NothingThere
  <1>a. Waiting(barrier', flight') \subseteq Waiting(barrier, flight)
    BY <1>1 DEF Waiting
  <1>2. Committing(barrier', flight', effected') \subseteq Committing(barrier, flight, effected)
    BY <1>0, <1>1 DEF Committing
  <1>3. WriterStep
    <2>1. TypedQueues(queue', barrier', flight', outputs', replies', asked)
      BY <1>0, <1>1, <1>a DEF Invariant, Typed, TypedQueues
    <2>2. /\ Ids(queue') \cap Committing(barrier', flight', effected') = {}
          /\ Possible(queue', barrier', flight', effected')
               \subseteq Possible(queue, barrier, flight, effected)
          /\ Once(queue')
      BY <1>0, <1>2 DEF Invariant, Effects, Possible
    <2>3. \A x \in Sent(outputs', replies') :
            x.promise = None => x.id \notin Possible(queue', barrier', flight', effected')
      BY <1>0, <2>2 DEF Invariant, Effects, HasNoEffect
    <2>4. \A x \in Waiting(barrier', flight') \cup Sent(outputs', replies') : Answered(x)
      BY <1>0, <1>a, StillAnswered
    <2> QED
      BY <1>0, <2>1, <2>2, <2>3, <2>4 DEF WriterStep
  <1>4. /\ Typed' /\ Effects'
        /\ \A c \in Clients :
             Consistent(call'[c], told', Elements(queue'), Waiting(barrier', flight'),
                        Sent(outputs', replies'))
    BY <1>3, WriterKeeps
  <1>5. FlightForest(flight', durable') = durable
    BY <1>0 DEF FlightForest
  <1>6. Chain(view', durable', flight', admitted')
    BY <1>0, <1>5 DEF Invariant, Truth, Chain, Later
  <1>7. Faithful(view', durable', flight', admitted', barrier', outputs', replies', told')
    BY <1>0, <1>1 DEF Invariant, Truth, Faithful, Kept
  <1>8. /\ WellFormed(admitted') /\ ViewFirst(outputs', view', durable')
        /\ exit' = "Failed"
    BY <1>0 DEF Invariant, Truth
  <1>9. Truth'
    BY <1>4, <1>6, <1>7, <1>8, TruthNext
  <1>10. Drained'
    BY <1>0 DEF Invariant, Drained
  <1> QED
    BY <1>4, <1>9, <1>10 DEF Invariant

\* A reply made of a command that waited answers as the command did.
LEMMA CompletionIsTyped ==
    ASSUME Invariant, NEW y \in Waiting(barrier, flight), NEW x,
           x = Reply(y.id, y.result, y.promise)
    PROVE  /\ x.id = y.id /\ x.result = y.result /\ x.promise = y.promise
           /\ x.promise \in Promises /\ x.promise # None
           /\ IsSent(x, asked) /\ Answered(x)
  <1>1. x.id = y.id /\ x.result = y.result /\ x.promise = y.promise
    BY DEF Reply
  <1>2. IsWaiting(y, asked)
    BY DEF Invariant, Typed, TypedQueues
  <1>3. Answered(x)
    BY <1>1 DEF Answered
  <1> QED
    BY <1>1, <1>2, <1>3, ServiceAssumption, ForestAssumption DEF IsWaiting, IsSent

\* The replies of a barrier or flight that is answered, among those already sent.
LEMMA CompletionsAreTyped ==
    ASSUME Invariant, NEW s, IsSequence(s), Elements(s) \subseteq Waiting(barrier, flight),
           NEW new, new = Replying(Completions(s))
    PROVE  \A x \in new : /\ x.promise # None /\ IsSent(x, asked) /\ Answered(x)
                          /\ \E y \in Elements(s) : x.promise = y.promise
  <1> SUFFICES ASSUME NEW x \in new
               PROVE  /\ x.promise # None /\ IsSent(x, asked) /\ Answered(x)
                      /\ \E y \in Elements(s) : x.promise = y.promise
    OBVIOUS
  <1>1. PICK y \in Elements(s) : x = Reply(y.id, y.result, y.promise)
    BY CompletionsAnswer
  <1> QED
    BY <1>1, CompletionIsTyped

\* The barrier is flushed, or answered if it brings no fact.
LEMMA DrainKeeps ==
    ASSUME Invariant, Drain
    PROVE  Invariant'
  <1>0. /\ UNCHANGED <<call, asked, failed, told, admitted, durable, queue, view, replies,
                       accepting, sender_gone, exit, effected, ingress_open, ingress_gone>>
        /\ barrier' = <<>> /\ flight = NoFlight /\ exit = "none" /\ outputs = <<>>
        /\ barrier # <<>>
        /\ IF FactIds(barrier) = {}
           THEN outputs' = Completions(barrier) /\ flight' = flight
           ELSE flight' = [forest |-> admitted, commands |-> barrier] /\ outputs' = outputs
    BY DEF Drain, Flushes, Idle, edge, history
  <1>1. /\ IsSequence(barrier) /\ IsSequence(queue) /\ Once(queue)
        /\ Ids(queue) \cap Committing(barrier, flight, effected) = {}
        /\ \A x \in Elements(queue) : IsQueued(x, asked)
        /\ \A x \in Waiting(barrier, flight) : IsWaiting(x, asked)
        /\ \A x \in Sent(outputs, replies) : IsSent(x, asked)
        /\ \A x \in Sent(outputs, replies) :
             x.promise = None => x.id \notin Possible(queue, barrier, flight, effected)
    BY DEF Invariant, Typed, TypedQueues, Effects, HasNoEffect
  <1>2. /\ Elements(barrier') = {} /\ FactIds(barrier') = {} /\ IsSequence(barrier')
        /\ Elements(flight.commands) = {} /\ FactIds(flight.commands) = {}
        /\ Replying(outputs) = {} /\ Sent(outputs, replies) = replies
        /\ IsSequence(flight.commands) /\ Waiting(barrier, flight) = Elements(barrier)
        /\ IsSequence(outputs) /\ Elements(outputs) = {}
    BY <1>0, NothingThere DEF Sent, Waiting
  <1>3. /\ WellFormed(admitted) /\ Chain(view, durable, flight, admitted) /\ view = durable
        /\ FactIds(barrier) = {} => admitted = durable
        /\ KeepsAll(view, told) /\ Kept(view, replies) /\ Kept(admitted, Elements(barrier))
    BY <1>0 DEF Invariant, Truth, Faithful, ViewFirst, FlightForest
  <1>4. Drained'
    BY <1>0 DEF Invariant, Drained
  <1>5. CASE FactIds(barrier) = {}
    <2> DEFINE new == Replying(outputs')
    <2>1. outputs' = Completions(barrier) /\ flight' = flight
      BY <1>0, <1>5
    <2>2. /\ IsSequence(outputs') /\ Len(outputs') \in Nat
          /\ \A x \in Elements(outputs') : IsOutput(x) /\ x.kind = "reply"
      BY <1>1, <2>1, CompletionsAnswer
    <2>3. \A x \in new : /\ x.promise # None /\ IsSent(x, asked) /\ Answered(x)
                         /\ \E y \in Elements(barrier) : x.promise = y.promise
      BY <1>1, <1>2, <2>1, CompletionsAreTyped
    <2>4. Sent(outputs', replies') = new \cup replies /\ Waiting(barrier', flight') = {}
      BY <1>0, <1>2, <2>1 DEF Sent, Waiting
    <2>5. Committing(barrier', flight', effected') = Committing(barrier, flight, effected)
      BY <1>0, <1>2, <1>5, <2>1 DEF Committing
    <2>6. Possible(queue', barrier', flight', effected') = Possible(queue, barrier, flight, effected)
      BY <1>0, <2>5 DEF Possible
    <2> HIDE DEF new
    <2>7. TypedQueues(queue', barrier', flight', outputs', replies', asked)
      BY <1>0, <1>1, <1>2, <2>1, <2>2, <2>3, <2>4 DEF TypedQueues
    <2>8. \A x \in replies : Answered(x)
      BY <1>2, StillAnswered
    <2>9. WriterStep
      BY <1>0, <1>1, <1>2, <2>3, <2>4, <2>5, <2>6, <2>7, <2>8 DEF WriterStep
    <2>10. /\ Typed' /\ Effects'
           /\ \A c \in Clients :
                Consistent(call'[c], told', Elements(queue'), Waiting(barrier', flight'),
                           Sent(outputs', replies'))
      BY <2>9, WriterKeeps
    <2>11. Faithful(view', durable', flight', admitted', barrier', outputs', replies', told')
      <3>1. Kept(durable, new)
        BY <1>3, <1>5, <2>3 DEF Kept
      <3> QED
        BY <1>0, <1>2, <1>3, <2>1, <3>1 DEF Faithful, Kept, new
    <2>12. ViewFirst(outputs', view', durable')
      <3>1. \A i \in 1 .. Len(outputs') : outputs'[i].kind = "reply"
        BY <2>2 DEF Elements
      <3> QED
        BY <1>0, <1>3, <3>1 DEF ViewFirst
    <2>13. /\ WellFormed(admitted') /\ Chain(view', durable', flight', admitted')
           /\ admitted' = FlightForest(flight', durable')
      BY <1>0, <1>3, <1>5, <2>1 DEF FlightForest
    <2>14. Truth'
      BY <2>10, <2>11, <2>12, <2>13, TruthNext
    <2> QED
      BY <1>4, <2>10, <2>14 DEF Invariant
  <1>6. CASE FactIds(barrier) # {}
    <2>1. flight'.forest = admitted /\ flight'.commands = barrier /\ outputs' = outputs
      BY <1>0, <1>6
    <2>2. Waiting(barrier', flight') = Waiting(barrier, flight)
          /\ Sent(outputs', replies') = replies
      BY <1>0, <1>2, <2>1 DEF Waiting, Sent
    <2>3. Committing(barrier', flight', effected') = Committing(barrier, flight, effected)
      BY <1>0, <1>2, <2>1 DEF Committing
    <2>4. Possible(queue', barrier', flight', effected') = Possible(queue, barrier, flight, effected)
      BY <1>0, <2>3 DEF Possible
    <2>5. TypedQueues(queue', barrier', flight', outputs', replies', asked)
      BY <1>0, <1>1, <1>2, <2>1, <2>2 DEF TypedQueues
    <2>6. \A x \in Waiting(barrier, flight) \cup replies : Answered(x)
      BY <1>2, StillAnswered
    <2>7. WriterStep
      BY <1>0, <1>1, <1>2, <2>2, <2>3, <2>4, <2>5, <2>6 DEF WriterStep
    <2>8. /\ Typed' /\ Effects'
          /\ \A c \in Clients :
               Consistent(call'[c], told', Elements(queue'), Waiting(barrier', flight'),
                          Sent(outputs', replies'))
      BY <2>7, WriterKeeps
    <2>9. FlightForest(flight', durable') = admitted
      <3>1. flight' # NoFlight
        BY <1>0, <2>1, NothingThere
      <3> QED
        BY <2>1, <3>1 DEF FlightForest
    <2>10. Chain(view', durable', flight', admitted')
      BY <1>0, <1>3, <2>9 DEF Chain, Later
    <2>11. Faithful(view', durable', flight', admitted', barrier', outputs', replies', told')
      BY <1>0, <1>2, <1>3, <2>1, <2>9 DEF Faithful, Kept
    <2>12. ViewFirst(outputs', view', durable')
      BY <1>0, <1>3, <2>1, NothingThere DEF ViewFirst
    <2>13. Truth'
      BY <1>0, <1>3, <2>8, <2>9, <2>10, <2>11, <2>12, TruthNext
    <2> QED
      BY <1>4, <2>8, <2>13 DEF Invariant
  <1> QED
    BY <1>5, <1>6

\* The flight is durable: the view goes out, then the replies.
LEMMA FlightDurableKeeps ==
    ASSUME Invariant, FlightDurable
    PROVE  Invariant'
  <1> DEFINE f == flight.forest
             v == [kind |-> "view", forest |-> f]
             done == Completions(flight.commands)
             new == Replying(outputs')
  <1>0. /\ UNCHANGED <<call, asked, failed, told, admitted, queue, view, replies, barrier,
                       accepting, sender_gone, exit, ingress_open, ingress_gone>>
        /\ durable' = f /\ flight' = NoFlight /\ flight # NoFlight
        /\ exit = "none" /\ outputs = <<>>
        /\ effected' = effected \cup FactIds(flight.commands)
        /\ outputs' = <<v>> \o done
    BY DEF FlightDurable, InOrder, Idle, edge
  <1>1. /\ IsSequence(barrier) /\ IsSequence(queue) /\ IsSequence(flight.commands) /\ Once(queue)
        /\ Ids(queue) \cap Committing(barrier, flight, effected) = {}
        /\ \A x \in Elements(queue) : IsQueued(x, asked)
        /\ \A x \in Waiting(barrier, flight) : IsWaiting(x, asked)
        /\ \A x \in Sent(outputs, replies) : IsSent(x, asked)
        /\ \A x \in Sent(outputs, replies) :
             x.promise = None => x.id \notin Possible(queue, barrier, flight, effected)
    BY DEF Invariant, Typed, TypedQueues, Effects, HasNoEffect
  <1>2. /\ v.kind = "view" /\ v.forest = f
        /\ IsSequence(done) /\ \A x \in Elements(done) : IsOutput(x) /\ x.kind = "reply"
    BY <1>1, CompletionsAnswer
  <1> HIDE DEF v, done
  <1>3. /\ IsSequence(outputs') /\ outputs' # <<>> /\ outputs'[1] = v /\ new = Replying(done)
        /\ \A x \in Elements(outputs') : IsOutput(x)
        /\ \A i \in 1 .. Len(outputs') : outputs'[i].kind = "view" => i = 1
    BY <1>0, <1>2, ViewThenReplies
  <1>4. \A x \in new : /\ x.promise # None /\ IsSent(x, asked) /\ Answered(x)
                       /\ \E y \in Elements(flight.commands) : x.promise = y.promise
    BY <1>1, <1>3, CompletionsAreTyped DEF Waiting, done
  <1>5. /\ Sent(outputs', replies') = new \cup replies /\ Sent(outputs, replies) = replies
        /\ Waiting(barrier', flight') = Elements(barrier)
        /\ Elements(barrier) \subseteq Waiting(barrier, flight)
        /\ IsSequence(flight'.commands) /\ FactIds(flight'.commands) = {}
        /\ Elements(flight'.commands) = {}
    BY <1>0, NothingThere DEF Sent, Waiting
  <1>6. Committing(barrier', flight', effected') = Committing(barrier, flight, effected)
    BY <1>0, <1>5 DEF Committing
  <1>7. Possible(queue', barrier', flight', effected') = Possible(queue, barrier, flight, effected)
    BY <1>0, <1>6 DEF Possible
  <1> HIDE DEF new
  <1>8. TypedQueues(queue', barrier', flight', outputs', replies', asked)
    BY <1>0, <1>1, <1>3, <1>4, <1>5 DEF TypedQueues
  <1>9. \A x \in Elements(barrier) \cup replies : Answered(x)
    BY <1>5, StillAnswered
  <1>10. WriterStep
    BY <1>0, <1>1, <1>4, <1>5, <1>6, <1>7, <1>8, <1>9 DEF WriterStep
  <1>11. /\ Typed' /\ Effects'
         /\ \A c \in Clients :
              Consistent(call'[c], told', Elements(queue'), Waiting(barrier', flight'),
                         Sent(outputs', replies'))
    BY <1>10, WriterKeeps
  <1>12. /\ WellFormed(admitted) /\ FlightForest(flight, durable) = f
         /\ Later(view, durable) /\ Later(durable, f) /\ Later(f, admitted)
         /\ FactIds(barrier) = {} => admitted = f
         /\ KeepsAll(view, told) /\ Kept(view, replies) /\ Kept(f, Elements(flight.commands))
         /\ Kept(admitted, Elements(barrier))
    BY <1>0 DEF Invariant, Truth, Chain, Faithful, FlightForest
  <1>13. FlightForest(flight', durable') = f
    BY <1>0 DEF FlightForest
  <1> HIDE DEF f
  <1>14. Chain(view', durable', flight', admitted')
    BY <1>0, <1>12, <1>13 DEF Chain, Later
  <1>15. Faithful(view', durable', flight', admitted', barrier', outputs', replies', told')
    <2>1. Kept(f, new)
      BY <1>4, <1>12 DEF Kept
    <2> QED
      BY <1>0, <1>5, <1>12, <2>1 DEF Faithful, Kept, new
  <1>16. ViewFirst(outputs', view', durable')
    BY <1>0, <1>2, <1>3 DEF ViewFirst
  <1>17. Truth'
    BY <1>0, <1>11, <1>12, <1>13, <1>14, <1>15, <1>16, TruthNext
  <1>18. Drained'
    BY <1>0 DEF Invariant, Drained
  <1> QED
    BY <1>11, <1>17, <1>18 DEF Invariant

\* One output is executed: the view is published, or a reply leaves.
LEMMA ExecuteKeeps ==
    ASSUME Invariant, Execute
    PROVE  Invariant'
  <1> DEFINE o == Head(outputs)
             rest == Tail(outputs)
  <1>0. /\ UNCHANGED <<call, asked, failed, told, admitted, durable, queue, barrier, flight,
                       accepting, sender_gone, exit, effected, ingress_open, ingress_gone>>
        /\ outputs # <<>> /\ outputs' = rest
        /\ IF o.kind = "view" THEN view' = o.forest /\ replies' = replies
           ELSE replies \subseteq replies' /\ replies' \subseteq replies \cup {o.reply}
                /\ view' = view
    BY DEF Execute, edge, history
  <1>1. /\ IsSequence(outputs) /\ \A x \in Elements(outputs) : IsOutput(x)
        /\ ViewFirst(outputs, view, durable)
        /\ Chain(view, durable, flight, admitted)
        /\ Faithful(view, durable, flight, admitted, barrier, outputs, replies, told)
    BY DEF Invariant, Typed, TypedQueues, Truth
  <1>2. /\ IsSequence(rest) /\ Len(outputs) \in Nat /\ Len(outputs) >= 1 /\ o = outputs[1]
        /\ Len(rest) = Len(outputs) - 1 /\ \A i \in 1 .. Len(rest) : rest[i] = outputs[i + 1]
        /\ Elements(outputs) = Elements(rest) \cup {o}
    BY <1>0, <1>1, TailRemoves
  <1> HIDE DEF o, rest
  <1>3. /\ \A i \in 1 .. Len(rest) : rest[i].kind # "view"
        /\ o.kind = "view" => o.forest = durable
        /\ o.kind # "view" => view = durable /\ o.kind = "reply"
    <2>1. \A i \in 1 .. Len(rest) : i + 1 \in 1 .. Len(outputs) /\ i + 1 # 1
      BY <1>2
    <2>2. 1 \in 1 .. Len(outputs)
      BY <1>2
    <2> QED
      BY <1>1, <1>2, <2>1, <2>2 DEF ViewFirst, IsOutput
  <1>4. /\ Replying(rest) \subseteq Replying(outputs)
        /\ o.kind = "reply" => o.reply \in Replying(outputs)
    BY <1>2 DEF Replying
  <1>5. Sent(outputs', replies') \subseteq Sent(outputs, replies)
    BY <1>0, <1>3, <1>4 DEF Sent
  <1>6. WriterStep
    <2>1. TypedQueues(queue', barrier', flight', outputs', replies', asked)
      BY <1>0, <1>1, <1>2, <1>5 DEF Invariant, Typed, TypedQueues
    <2>2. /\ Ids(queue') \cap Committing(barrier', flight', effected') = {} /\ Once(queue')
          /\ Possible(queue', barrier', flight', effected')
               = Possible(queue, barrier, flight, effected)
      BY <1>0 DEF Invariant, Effects
    <2>3. \A x \in Sent(outputs', replies') :
            x.promise = None => x.id \notin Possible(queue', barrier', flight', effected')
      BY <1>5, <2>2 DEF Invariant, Effects, HasNoEffect
    <2>4. \A x \in Waiting(barrier', flight') \cup Sent(outputs', replies') : Answered(x)
      BY <1>0, <1>5, StillAnswered
    <2> QED
      BY <1>0, <2>1, <2>2, <2>3, <2>4 DEF WriterStep
  <1>7. /\ Typed' /\ Effects'
        /\ \A c \in Clients :
             Consistent(call'[c], told', Elements(queue'), Waiting(barrier', flight'),
                        Sent(outputs', replies'))
    BY <1>6, WriterKeeps
  <1>8. view' = durable /\ Later(view, durable)
    BY <1>0, <1>1, <1>3 DEF Chain
  <1>9. Chain(view', durable', flight', admitted')
    BY <1>0, <1>1, <1>8 DEF Chain, Later
  <1>10. Faithful(view', durable', flight', admitted', barrier', outputs', replies', told')
    <2>1. KeepsAll(durable, told)
      BY <1>1, <1>8 DEF Faithful, KeepsAll, Later
    <2>2. \A x \in replies : x.promise # None => x.promise \in Promises
      BY DEF Invariant, Typed, TypedQueues, Sent, IsSent
    <2>3. Kept(durable, replies)
      BY <1>1, <1>8, <2>2 DEF Faithful, Kept, Later
    <2>4. Kept(durable, replies') /\ Kept(durable, Replying(outputs'))
      BY <1>0, <1>1, <1>3, <1>4, <2>3 DEF Faithful, Kept
    <2> QED
      BY <1>0, <1>1, <1>8, <2>1, <2>4 DEF Faithful
  <1>11. ViewFirst(outputs', view', durable')
    BY <1>0, <1>3, <1>8 DEF ViewFirst
  <1>12. /\ WellFormed(admitted')
         /\ exit' # "Failed" /\ FactIds(barrier') = {} =>
              admitted' = FlightForest(flight', durable')
    BY <1>0 DEF Invariant, Truth
  <1>13. Truth'
    BY <1>7, <1>9, <1>10, <1>11, <1>12, TruthNext
  <1>14. Drained'
    BY <1>0 DEF Invariant, Drained
  <1> QED
    BY <1>7, <1>13, <1>14 DEF Invariant

\* What admission answers agrees with every promise the admitted forest keeps.
LEMMA DecisionAgrees ==
    ASSUME NEW forest, NEW cmd \in Commands, NEW k, k.cmd = cmd,
           NEW kind \in {"fact", "idempotent"}, Decide(forest, cmd).kind = kind,
           \A p \in k.known : Keeps(forest, p)
    PROVE  Truthful(k, Success(cmd, kind))
  <1> DEFINE entry == forest.directory[cmd.path]
  <1>1. cmd.op \in {"create", "close", "delete"}
    BY DEF Commands
  <1>2. \A p \in k.known : p.path = cmd.path =>
          entry # None /\ (p.level = "deleted" => entry.state = "tombstone")
    BY DEF Keeps
  <1>3. CASE cmd.op = "create" /\ kind = "fact"
    <2>1. entry = None /\ Success(cmd, kind) = "Created"
      BY <1>3 DEF Decide, AdmitCreate, Idempotent, Accepted, Refused, Success
    <2> QED
      BY <1>2, <2>1 DEF Truthful
  <1>4. CASE cmd.op # "create" \/ kind = "idempotent"
    <2>1. entry.state = "live" /\ Success(cmd, kind) \in {"AlreadyExists", "Closed", "Deleted"}
      <3>1. IsLive(forest, cmd.path)
        BY <1>1, <1>4 DEF Decide, AdmitCreate, AdmitClose, AdmitDelete, Idempotent, Accepted,
                          Refused
      <3> QED
        BY <1>1, <1>4, <3>1 DEF IsLive, Success
    <2> QED
      BY <1>2, <2>1 DEF Truthful, Contradicts
  <1> QED
    BY <1>1, <1>3, <1>4

\* The results of admission.
LEMMA ResultType ==
    ASSUME NEW forest, NEW cmd, NEW kind
    PROVE  Success(cmd, kind) \in Successes /\ Refusal(forest, cmd) \in Refusals
  BY DEF Success, Successes, Refusal, Refusals

\* The command that leaves the channel.
LEMMA HeadOfQueue ==
    ASSUME Invariant, queue # <<>>
    PROVE  /\ IsSequence(Tail(queue)) /\ Once(Tail(queue))
           /\ Elements(Tail(queue)) \subseteq Elements(queue)
           /\ Head(queue).id \in 1 .. asked /\ Head(queue).cmd \in Commands
           /\ Ids(queue) = Ids(Tail(queue)) \cup {Head(queue).id}
           /\ Head(queue).id \notin Ids(Tail(queue))
           /\ Head(queue).id \notin Committing(barrier, flight, effected)
           /\ \A c \in Clients : call[c].at = "waiting" /\ call[c].id = Head(queue).id =>
                /\ call[c].cmd = Head(queue).cmd
                /\ \A p \in call[c].known : Keeps(admitted, p)
  <1>1. /\ IsSequence(queue) /\ Once(queue)
        /\ \A x \in Elements(queue) : IsQueued(x, asked)
        /\ Ids(queue) \cap Committing(barrier, flight, effected) = {}
    BY DEF Invariant, Typed, TypedQueues, Effects
  <1>2. /\ IsSequence(Tail(queue)) /\ Head(queue) \in Elements(queue)
        /\ Elements(queue) = Elements(Tail(queue)) \cup {Head(queue)}
        /\ Ids(queue) = Ids(Tail(queue)) \cup {Head(queue).id}
        /\ Once(Tail(queue)) /\ Head(queue).id \notin Ids(Tail(queue))
    BY <1>1, TailRemoves
  <1>3. IsQueued(Head(queue), asked)
    BY <1>1, <1>2
  <1>4. \A p \in told : Keeps(admitted, p)
    BY DEF Invariant, Truth, Chain, Later, Faithful, KeepsAll
  <1>5. \A c \in Clients : /\ call[c].known \subseteq told
                           /\ call[c].at = "waiting" =>
                                \A x \in Elements(queue) : x.id = call[c].id => x.cmd = call[c].cmd
    BY DEF Invariant, Truth, Consistent
  <1> QED
    BY <1>1, <1>2, <1>3, <1>4, <1>5 DEF IsQueued

\* A command of the channel joins the barrier.
LEMMA WaitsKeeps ==
    ASSUME Invariant, queue # <<>>, exit = "none", outputs = <<>>, NEW command,
           queue' = Tail(queue), barrier' = Append(barrier, command), outputs' = outputs,
           UNCHANGED <<call, asked, failed, told, accepting, sender_gone, durable, flight, exit,
                       view, replies, effected, ingress_gone, ingress_open>>,
           command.id = Head(queue).id, IsWaiting(command, asked), Answered(command),
           WellFormed(admitted'), Later(admitted, admitted'), Keeps(admitted', command.promise),
           command.fact = None => admitted' = admitted
    PROVE  Invariant'
  <1> DEFINE id == Head(queue).id
  <1>1. /\ IsSequence(queue') /\ Once(queue') /\ Elements(queue') \subseteq Elements(queue)
        /\ Ids(queue) = Ids(queue') \cup {id} /\ id \notin Ids(queue')
        /\ id \notin Committing(barrier, flight, effected)
    BY HeadOfQueue
  <1>2. IsSequence(barrier)
    BY DEF Invariant, Typed, TypedQueues
  <1>3. /\ IsSequence(barrier') /\ Elements(barrier') = Elements(barrier) \cup {command}
        /\ FactIds(barrier') = FactIds(barrier) \cup {y \in {id} : command.fact # None}
    BY <1>2, AppendAdds
  <1> HIDE DEF id
  <1>4. /\ Waiting(barrier', flight') = Waiting(barrier, flight) \cup {command}
        /\ Sent(outputs', replies') = Sent(outputs, replies)
    BY <1>3 DEF Waiting
  <1>5. Committing(barrier', flight', effected')
          \subseteq Committing(barrier, flight, effected) \cup {id}
    BY <1>3 DEF Committing
  <1>6. /\ Ids(queue') \cap Committing(barrier', flight', effected') = {}
        /\ Possible(queue', barrier', flight', effected')
             \subseteq Possible(queue, barrier, flight, effected)
    BY <1>1, <1>5 DEF Invariant, Effects, Possible
  <1>7. TypedQueues(queue', barrier', flight', outputs', replies', asked)
    BY <1>1, <1>3, <1>4 DEF Invariant, Typed, TypedQueues
  <1>8. \A x \in Sent(outputs', replies') :
          x.promise = None => x.id \notin Possible(queue', barrier', flight', effected')
    BY <1>4, <1>6 DEF Invariant, Effects, HasNoEffect
  <1>9. \A x \in Waiting(barrier', flight') \cup Sent(outputs', replies') : Answered(x)
    BY <1>4, StillAnswered
  <1>10. WriterStep
    BY <1>1, <1>6, <1>7, <1>8, <1>9 DEF WriterStep
  <1>11. /\ Typed' /\ Effects'
         /\ \A c \in Clients :
              Consistent(call'[c], told', Elements(queue'), Waiting(barrier', flight'),
                         Sent(outputs', replies'))
    BY <1>10, WriterKeeps
  <1>12. /\ Chain(view, durable, flight, admitted) /\ ViewFirst(outputs, view, durable)
         /\ Faithful(view, durable, flight, admitted, barrier, outputs, replies, told)
         /\ FactIds(barrier) = {} => admitted = FlightForest(flight, durable)
    BY DEF Invariant, Truth
  <1>13. Chain(view', durable', flight', admitted')
    BY <1>12 DEF Chain, Later
  <1>14. Kept(admitted', Elements(barrier'))
    <2>1. \A x \in Elements(barrier) : x.promise \in Promises
      BY DEF Invariant, Typed, TypedQueues, Waiting, IsWaiting
    <2> QED
      BY <1>3, <1>12, <2>1 DEF Faithful, Kept, Later
  <1>15. Faithful(view', durable', flight', admitted', barrier', outputs', replies', told')
    BY <1>12, <1>14 DEF Faithful
  <1>16. FactIds(barrier') = {} => admitted' = FlightForest(flight', durable')
    BY <1>3, <1>12
  <1>17. ViewFirst(outputs', view', durable')
    BY <1>12
  <1>18. Truth'
    BY <1>11, <1>13, <1>15, <1>16, <1>17, TruthNext
  <1>19. Drained'
    <2>1. ingress_open \/ queue = <<>>
      BY DEF Invariant, Drained
    <2> QED
      BY <2>1 DEF Invariant, Drained
  <1> QED
    BY <1>11, <1>18, <1>19 DEF Invariant

\* A command of the channel is answered at once.
LEMMA AnswersKeeps ==
    ASSUME Invariant, queue # <<>>, exit = "none", outputs = <<>>, NEW reply,
           queue' = Tail(queue), outputs' = <<Sends(reply)>>,
           UNCHANGED <<call, asked, failed, told, accepting, sender_gone, admitted, durable,
                       barrier, flight, exit, view, replies, effected, ingress_gone, ingress_open>>,
           reply.id = Head(queue).id, IsSent(reply, asked), Answered(reply),
           reply.promise # None => Keeps(durable, reply.promise)
    PROVE  Invariant'
  <1> DEFINE id == Head(queue).id
             o == Sends(reply)
  <1>1. /\ IsSequence(queue') /\ Once(queue') /\ Elements(queue') \subseteq Elements(queue)
        /\ Ids(queue) = Ids(queue') \cup {id} /\ id \notin Ids(queue')
        /\ id \notin Committing(barrier, flight, effected)
    BY HeadOfQueue
  <1> HIDE DEF id
  <1>2. o.kind = "reply" /\ o.id = o.reply.id /\ o.reply = reply
    BY DEF Sends
  <1> HIDE DEF o
  <1>3. /\ outputs' = <<o>> /\ outputs' \in Seq({o}) /\ Len(outputs') = 1 /\ outputs'[1] = o
        /\ 1 .. Len(outputs') = {1}
    BY DEF o
  <1>4. IsSequence(outputs') /\ Elements(outputs') = {o}
    BY <1>3 DEF IsSequence, Elements
  <1>5. Replying(outputs') = {reply} /\ Replying(outputs) = {}
    BY <1>2, <1>4, NothingThere DEF Replying
  <1>6. /\ Waiting(barrier', flight') = Waiting(barrier, flight)
        /\ Sent(outputs', replies') = replies \cup {reply} /\ Sent(outputs, replies) = replies
    BY <1>5 DEF Sent
  <1>7. Committing(barrier', flight', effected') = Committing(barrier, flight, effected)
    OBVIOUS
  <1>8. /\ Ids(queue') \cap Committing(barrier', flight', effected') = {}
        /\ Possible(queue', barrier', flight', effected')
             \subseteq Possible(queue, barrier, flight, effected)
        /\ id \notin Possible(queue', barrier', flight', effected')
    BY <1>1, <1>7 DEF Invariant, Effects, Possible
  <1>9. TypedQueues(queue', barrier', flight', outputs', replies', asked)
    BY <1>1, <1>2, <1>4, <1>6 DEF Invariant, Typed, TypedQueues, IsOutput
  <1>10. \A x \in Sent(outputs', replies') :
          x.promise = None => x.id \notin Possible(queue', barrier', flight', effected')
    BY <1>6, <1>8 DEF Invariant, Effects, HasNoEffect, id
  <1>11. \A x \in Waiting(barrier', flight') \cup Sent(outputs', replies') : Answered(x)
    BY <1>6, StillAnswered
  <1>12. WriterStep
    BY <1>1, <1>8, <1>9, <1>10, <1>11 DEF WriterStep
  <1>13. /\ Typed' /\ Effects'
         /\ \A c \in Clients :
              Consistent(call'[c], told', Elements(queue'), Waiting(barrier', flight'),
                         Sent(outputs', replies'))
    BY <1>12, WriterKeeps
  <1>14. Faithful(view', durable', flight', admitted', barrier', outputs', replies', told')
    BY <1>5 DEF Invariant, Truth, Faithful, Kept
  <1>15. ViewFirst(outputs', view', durable')
    <2>1. view = durable
      BY DEF Invariant, Truth, ViewFirst
    <2> QED
      BY <1>2, <1>3, <2>1 DEF ViewFirst
  <1>16. /\ WellFormed(admitted') /\ Chain(view', durable', flight', admitted')
         /\ exit' # "Failed" /\ FactIds(barrier') = {} =>
              admitted' = FlightForest(flight', durable')
    BY DEF Invariant, Truth
  <1>17. Truth'
    BY <1>13, <1>14, <1>15, <1>16, TruthNext
  <1>18. Drained'
    <2>1. ingress_open \/ queue = <<>>
      BY DEF Invariant, Drained
    <2> QED
      BY <2>1 DEF Invariant, Drained
  <1> QED
    BY <1>13, <1>17, <1>18 DEF Invariant

\* One command is decided: it joins the barrier, is shed, or is answered at once.
LEMMA TakeKeeps ==
    ASSUME Invariant, Take
    PROVE  Invariant'
  <1> DEFINE id == Head(queue).id
             cmd == Head(queue).cmd
             d == Decide(admitted, cmd)
             result == Success(cmd, d.kind)
             command == [id |-> id, fact |-> d.fact, result |-> result, promise |-> d.promise]
             folded == StrictFold(admitted, 0, d.fact)
  <1>0. /\ UNCHANGED <<call, asked, failed, told, accepting, sender_gone, durable, flight, exit,
                       view, replies, effected, ingress_gone, ingress_open>>
        /\ queue # <<>> /\ exit = "none" /\ outputs = <<>> /\ queue' = Tail(queue)
    BY DEF Take, Idle, edge
  <1>1. \/ /\ d.kind = "fact" /\ admitted' = folded
           /\ barrier' = Append(barrier, command) /\ outputs' = outputs
        \/ /\ d.kind = "fact" /\ admitted' = admitted /\ barrier' = barrier
           /\ outputs' = <<Sends(Reply(id, "Overloaded", None))>>
        \/ /\ d.kind = "idempotent" /\ admitted' = admitted
           /\ barrier' = Append(barrier, command) /\ outputs' = outputs
        \/ /\ d.kind = "idempotent" /\ admitted' = admitted /\ barrier' = barrier
           /\ ~InheritsBarrier /\ outputs' = <<Sends(Reply(id, command.result, d.promise))>>
        \/ /\ d.kind = "refused" /\ admitted' = admitted /\ barrier' = barrier
           /\ outputs' = <<Sends(Reply(id, Refusal(admitted, cmd), None))>>
    BY DEF Take, ShedForest
  <1>2. /\ id \in 1 .. asked /\ cmd \in Commands /\ id \in Ids(queue)
        /\ \A c \in Clients : call[c].at = "waiting" /\ call[c].id = id =>
             call[c].cmd = cmd /\ \A p \in call[c].known : Keeps(admitted, p)
    BY <1>0, HeadOfQueue
  <1>3. WellFormed(admitted)
    BY DEF Invariant, Truth
  <1>4. /\ d.kind = "idempotent" => d.promise \in Promises /\ Keeps(admitted, d.promise)
        /\ d.kind = "fact" => d.promise \in Promises /\ Keeps(folded, d.promise) /\ d.fact \in Facts
    BY <1>2, <1>3, DecidedPromiseHolds, DecidedFactType
  <1>5. result \in Successes /\ Refusal(admitted, cmd) \in Refusals
    BY ResultType
  <1>6. ASSUME d.kind \in {"fact", "idempotent"}, NEW x, x.id = id, x.result = result
        PROVE  Answered(x)
    <2>1. ASSUME NEW c \in Clients, call[c].at = "waiting", call[c].id = id
          PROVE  Truthful(call[c], result)
      BY <1>2, <1>6, <2>1, DecisionAgrees
    <2> QED
      BY <1>2, <1>6, <2>1 DEF Answered
  <1>7. ASSUME NEW x, x.id = id, x.result \in Refusals
        PROVE  Answered(x)
    <2>1. \A c \in Clients : Truthful(call[c], x.result)
      BY <1>7 DEF Truthful, Contradicts, Refusals
    <2> QED
      BY <1>2, <1>7, <2>1 DEF Answered
  <1>8. /\ command.id = id /\ command.fact = d.fact /\ command.result = result
        /\ command.promise = d.promise
    OBVIOUS
  <1> HIDE DEF command
  <1>9. d.promise \in Promises => IsWaiting(command, asked)
    BY <1>2, <1>5, <1>8 DEF IsWaiting
  <1>10. CASE /\ d.kind = "fact" /\ admitted' = folded
              /\ barrier' = Append(barrier, command) /\ outputs' = outputs
    <2>1. /\ d.fact \in Facts /\ d.fact # None /\ IsWaiting(command, asked)
          /\ Keeps(folded, command.promise) /\ Answered(command)
      BY <1>4, <1>6, <1>8, <1>9, <1>10, ServiceAssumption, ForestAssumption
    <2>2. WellFormed(folded)
      BY <1>3, <2>1, FoldKeeps
    <2>3. Later(admitted, folded)
      BY <1>3, <2>1, FoldKeepsPromise DEF Later
    <2> HIDE DEF folded
    <2> QED
      BY <1>0, <1>8, <1>10, <2>1, <2>2, <2>3, WaitsKeeps
  <1>11. CASE /\ d.kind = "idempotent" /\ admitted' = admitted
              /\ barrier' = Append(barrier, command) /\ outputs' = outputs
    <2>1. /\ IsWaiting(command, asked) /\ Keeps(admitted, command.promise) /\ Answered(command)
      BY <1>4, <1>6, <1>8, <1>9, <1>11
    <2>2. Later(admitted, admitted)
      BY DEF Later
    <2> QED
      BY <1>0, <1>3, <1>8, <1>11, <2>1, <2>2, WaitsKeeps
  <1>12. CASE /\ d.kind = "idempotent" /\ admitted' = admitted /\ barrier' = barrier
              /\ ~InheritsBarrier /\ outputs' = <<Sends(Reply(id, command.result, d.promise))>>
    <2> DEFINE reply == Reply(id, command.result, d.promise)
    <2>1. reply.id = id /\ reply.result = result /\ reply.promise = d.promise
      BY <1>8 DEF Reply
    <2> HIDE DEF reply
    <2>2. IsSent(reply, asked) /\ Answered(reply)
      BY <1>2, <1>4, <1>5, <1>6, <1>12, <2>1 DEF IsSent
    <2>3. admitted = durable
      BY <1>0, <1>12 DEF InheritsBarrier, Invariant, Truth, FlightForest
    <2>4. Keeps(durable, reply.promise)
      BY <1>4, <1>12, <2>1, <2>3
    <2>5. outputs' = <<Sends(reply)>>
      BY <1>12 DEF reply
    <2> QED
      BY <1>0, <1>12, <2>1, <2>2, <2>4, <2>5, AnswersKeeps
  <1>13. ASSUME NEW refusal \in Refusals, admitted' = admitted, barrier' = barrier,
                outputs' = <<Sends(Reply(id, refusal, None))>>
         PROVE  Invariant'
    <2> DEFINE reply == Reply(id, refusal, None)
    <2>1. reply.id = id /\ reply.result = refusal /\ reply.promise = None
      BY DEF Reply
    <2> HIDE DEF reply
    <2>2. IsSent(reply, asked) /\ Answered(reply)
      BY <1>2, <1>7, <2>1 DEF IsSent
    <2>3. outputs' = <<Sends(reply)>>
      BY <1>13 DEF reply
    <2> QED
      BY <1>0, <1>13, <2>1, <2>2, <2>3, AnswersKeeps
  <1>14. "Overloaded" \in Refusals
    BY DEF Refusals
  <1> QED
    BY <1>1, <1>5, <1>10, <1>11, <1>12, <1>13, <1>14

-----------------------------------------------------------------------------
(* Theorems. *)

\* Nothing is asked, queued or told when the service starts.
LEMMA InitInvariant ==
    ASSUME Init
    PROVE  Invariant
  <1>0. /\ queue = <<>> /\ barrier = <<>> /\ flight = NoFlight /\ outputs = <<>> /\ replies = {}
        /\ asked = 0 /\ effected = {} /\ failed = {} /\ told = {} /\ exit = "none"
        /\ admitted = Empty /\ durable = Empty /\ view = Empty
        /\ sender_gone = FALSE /\ ingress_gone = FALSE /\ ingress_open = TRUE
    BY DEF Init
  <1>1. /\ call = [c \in Clients |-> NoCall]
        /\ \A c \in Clients : /\ call[c].at = "idle" /\ call[c].id = 0 /\ call[c].answer = None
                              /\ call[c].known = {}
    BY DEF Init, NoCall
  <1>2. /\ Elements(queue) = {} /\ Elements(barrier) = {} /\ Elements(flight.commands) = {}
        /\ Elements(outputs) = {} /\ Replying(outputs) = {} /\ Ids(queue) = {}
        /\ FactIds(barrier) = {} /\ FactIds(flight.commands) = {} /\ Len(queue) = 0
        /\ Len(outputs) = 0
        /\ IsSequence(queue) /\ IsSequence(barrier) /\ IsSequence(flight.commands)
        /\ IsSequence(outputs)
    BY <1>0, NothingThere
  <1>3. /\ Waiting(barrier, flight) = {} /\ Sent(outputs, replies) = {}
        /\ Committing(barrier, flight, effected) = {}
    BY <1>0, <1>2 DEF Waiting, Sent, Committing
  <1>4. Typed
    <2>1. call \in [Clients -> Calls]
      BY <1>1 DEF Calls, Stages, NoCall
    <2>2. TypedCalls(call, asked)
      <3>1. \A c \in Clients : call[c].at = "idle" /\ call[c].id = 0
        BY <1>1
      <3>2. \A c \in Clients : IsCall(call[c], asked)
        BY <1>0, <3>1 DEF IsCall
      <3>3. asked \in Nat
        BY <1>0
      <3> QED
        BY <2>1, <3>1, <3>2, <3>3 DEF TypedCalls
    <2>3. TypedQueues(queue, barrier, flight, outputs, replies, asked)
      BY <1>2, <1>3 DEF TypedQueues
    <2> QED
      BY <2>2, <2>3 DEF Typed
  <1>5. Effects
    <2>1. Possible(queue, barrier, flight, effected) = {}
      BY <1>2, <1>3 DEF Possible
    <2> QED
      BY <1>0, <1>1, <1>2, <1>3, <2>1 DEF Effects, Once, HasNoEffect, Unsettled
  <1>6. Truth
    <2>1. WellFormed(admitted) /\ FlightForest(flight, durable) = Empty
      BY <1>0, EmptyWellFormed DEF FlightForest
    <2>2. Chain(view, durable, flight, admitted)
      BY <1>0, <2>1 DEF Chain, Later
    <2>3. Faithful(view, durable, flight, admitted, barrier, outputs, replies, told)
      BY <1>0, <1>2 DEF Faithful, KeepsAll, Kept
    <2>4. ViewFirst(outputs, view, durable)
      BY <1>0, <1>2 DEF ViewFirst
    <2>5. \A c \in Clients : Consistent(call[c], told, Elements(queue), Waiting(barrier, flight),
                                        Sent(outputs, replies))
      BY <1>1, <1>2, <1>3 DEF Consistent
    <2> QED
      BY <1>0, <2>1, <2>2, <2>3, <2>4, <2>5 DEF Truth
  <1>7. Drained
    BY <1>0 DEF Drained
  <1> QED
    BY <1>4, <1>5, <1>6, <1>7 DEF Invariant

\* Each step of a handler, of the writer task and of the process keeps them all.
LEMMA NextInvariant ==
    ASSUME Invariant, [Next]_vars
    PROVE  Invariant'
  <1>1. CASE \E c \in Clients, cmd \in Asks : Ask(c, cmd)
    BY <1>1, AskKeeps
  <1>2. CASE \E c \in Clients : Handle(c) \/ HangUp(c)
    BY <1>2, EnqueueKeeps, HandlerKeeps DEF Handle
  <1>3. CASE Write
    BY <1>3, TakeKeeps, EndingKeeps, DrainKeeps, FlightDurableKeeps, ExecuteKeeps,
       DropMachineKeeps DEF Write
  <1>4. CASE ShutdownSignal \/ CloseDb
    BY <1>4, ClosingKeeps
  <1>5. CASE UNCHANGED vars
    <2>1. /\ UNCHANGED <<call, asked, queue, barrier, flight, outputs, effected, admitted, durable,
                         view, exit, replies, failed, told, ingress_open, ingress_gone, accepting,
                         sender_gone>>
      BY <1>5 DEF vars, edge, writer, history
    <2>2. Typed'
      BY <2>1, TypedNext DEF Invariant, Typed
    <2>3. Effects'
      BY <2>1, EffectsNext DEF Invariant, Effects
    <2>4. Truth'
      BY <2>1, TruthNext DEF Invariant, Truth
    <2>5. Drained'
      BY <2>1 DEF Invariant, Drained, NoFlight
    <2> QED
      BY <2>2, <2>3, <2>4, <2>5 DEF Invariant
  <1> QED
    BY <1>1, <1>2, <1>3, <1>4, <1>5 DEF Next

\* The four invariants hold in every reachable state.
THEOREM ServiceInvariant == Spec => []Invariant
  BY InitInvariant, NextInvariant, PTL DEF Spec

\* A request answered 404, 409, 410, 429 or 503 is not in the WAL and never gets
\* there, whatever the writer does with the commands still queued.
THEOREM DefiniteFailureNeverHasEffect == Spec => []DefiniteFailureHasNoEffect
  <1>1. Invariant => DefiniteFailureHasNoEffect
    BY DEF Invariant, Effects, HasNoEffect, Possible, Committing, DefiniteFailureHasNoEffect
  <1> QED
    BY <1>1, ServiceInvariant, PTL

\* No answer of put, post, delete or head contradicts a success or a status that
\* some caller had received before the request was made.
THEOREM AnswersAlwaysRespectRealTime == Spec => []AnswersRespectRealTime
  <1>1. Invariant => AnswersRespectRealTime
    BY DEF Invariant, Truth, Consistent, Truthful, AnswersRespectRealTime
  <1> QED
    BY <1>1, ServiceInvariant, PTL

\* When the writer task ends cleanly, the channel is empty and everything admitted
\* is durable and published.
THEOREM ShutdownAlwaysDrains == Spec => []ShutdownDrains
  <1>1. ASSUME Invariant PROVE ShutdownDrains
    <2> SUFFICES ASSUME exit = "Shutdown"
                 PROVE  queue = <<>> /\ admitted = durable /\ view = durable
      BY DEF ShutdownDrains
    <2>1. queue = <<>> /\ flight = NoFlight /\ barrier = <<>> /\ outputs = <<>>
      BY <1>1 DEF Invariant, Drained
    <2>2. FactIds(barrier) = {}
      BY <2>1, NothingThere
    <2> QED
      BY <1>1, <2>1, <2>2 DEF Invariant, Truth, ViewFirst, FlightForest
  <1> QED
    BY <1>1, ServiceInvariant, PTL
=============================================================================
